\* A client that keeps reading beside one that may stop.
SPECIFICATION FairSpec
CONSTANTS
    Clients = {reader, staller}
    Reading = {reader}
    MaxEvents = 3
    ChannelCap = 1
INVARIANTS
    GapFree
PROPERTIES
    StreamEnds
