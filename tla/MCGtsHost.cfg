SPECIFICATION HostSpec
CONSTANTS
    Parts = {"texts", "program", "modules", "web", "plugins", "sockets", "versions", "emitter", "database"}
    Suite = "agree"
    Compiled <- MCCompiled
    None = None
    Preludes <- MCPreludes
    Corpus <- MCCorpus
    MaxPreludes = 1
    MaxRequires = 3
    Natives = {"fs", "path"}
    Sandbox = {"path"}
    Disk <- MCDisk
    Late <- MCLate
    Manifests <- MCManifests
    Archives <- MCArchives
    Broken <- MCBroken
    Specs <- MCSpecs
    Threads = {"main", "w1"}
    Count = 2
    MaxRoutes = 1
    MaxRequests = 2
    RouteChoices <- MCRoutes
    Asked <- MCAsked
    PluginNames = {"p"}
    Values = {"nan", "number", "object"}
    MaxChildren = 2
    MaxCalls = 3
    MaxConns = 2
    MaxNoise = 1
    VersionTexts <- MCVersionTexts
    Ranges <- MCRanges
    U64 = 3
    MaxIncs = 2
    EmitterEvents = {"e1", "e2"}
    ListenerFns <- MCListenerFns
    MaxEmitterCalls = 4
    DbValues <- MCDbValues
    MaxDbCalls = 6
PROPERTIES AgreesWithTree ParsesBack
INVARIANTS OneModule   OwnAnswer 
