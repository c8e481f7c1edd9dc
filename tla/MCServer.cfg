\* Three requests on up to three sessions; a user message and three turns; two callers of
\* hooks; two replies in one workspace; three edits of skills; three asks about
\* two sub-agents.
SPECIFICATION ServerSpec
CONSTANTS
    ServerParts = {"sessions", "tasks", "hooks", "workspace", "skills", "pool"}
    Clients = {c1, c2, c3}
    MaxSessions = 3
    MaxMessages = 2
    PreserveRecent = 1
    MaxFaults = 1
    Titles = {"t1", "t2"}
    Texts <- MCTexts
    Reports <- MCReports
    TaskArgs <- MCTaskArgs
    UpdateArgs <- MCUpdateArgs
    MaxTurns = 4
    MaxTasks = 2
    HookCallers = {h1, h2}
    HookFiles <- MCHookFiles
    ScriptChoices <- MCScripts
    ReturnChoices <- MCReturns
    MaxHookCalls = 2
    MaxEdits = 1
    Replies = {r1, r2}
    Paths <- MCPaths
    FileTexts <- MCFileTexts
    Tracked <- MCTracked
    Effects <- MCEffects
    Reads <- MCReads
    Modes = {"Permissive", "DenyAll"}
    Roots = {"w1"}
    RecentsLimit = 1
    MaxTools = 2
    MaxLooks = 1
    Places <- MCPlaces
    SkillTexts <- MCSkillTexts
    NameOrder <- MCNameOrder
    ValidNames = {"a", "b", "c"}
    Present = {"here"}
    MaxListed = 2
    MaxSkillEdits = 3
    MaxLoads = 1
    PoolIds = {"a1", "a2"}
    SpawnArgs <- MCSpawnArgs
    ChildEnds <- MCChildEnds
    MaxWords = 1
    MaxAsks = 3
SYMMETRY ReplySymmetry
INVARIANTS FreshSavesSerial  NoStaleHook  SkillAsListed VerdictsAgree
\* The server rests when nobody asks for anything.
CHECK_DEADLOCK FALSE
