\* Any two of a reply, another call and two restarts at the same time, with one fault;
\* or two replies competing for one process.
SPECIFICATION MCSpec
CONSTANTS
    Replies = {reply}
    Requests = {call}
    MaxRestarts = 2
    MaxCallers = 2
    MaxFaults = 1
    Runs = {s1, s2}
    RunCalls = {k1}
    MaxProcesses = 1
    EventCap = 1
    NoRun = NoRun
\* The server rests when it has no request to serve.
CHECK_DEADLOCK FALSE
INVARIANTS
    CallLeavesNothing
PROPERTIES
    CallEnds
    ReplyChannelCloses
    PermitComesBack
