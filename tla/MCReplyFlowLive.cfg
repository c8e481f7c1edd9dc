\* A channel of one event, a save that may fail, and fair threads.
SPECIFICATION FairSpec
CONSTANTS
    c = c
    d = d
    Root = root
    Kids = {c}
    Parent <- One
    Async = {c}
    None = None
    MaxMessages = 1
    MaxCancels = 0
    MaxSaveFails = 1
    ChannelCap = 1
PROPERTIES
    PumpEnds
    PipeDrains
