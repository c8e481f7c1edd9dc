\* One asynchronous sub-agent, one synchronous one, both of the root.
SPECIFICATION Spec
CONSTANTS
    c = c
    d = d
    Root = root
    Kids = {c, d}
    Parent <- Siblings
    Async = {c}
    None = None
    MaxMessages = 0
    MaxCancels = 0
    MaxSaveFails = 0
    ChannelCap = 2
INVARIANTS
    RouterKeepsEvents
    CompletedChildSaved
