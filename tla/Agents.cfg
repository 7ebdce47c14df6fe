\* The agents behind a turn, one component at a time: a call of an ACP agent,
\* an exchange with any shim or with that of codex, runs of a workflow, and
\* a sandbox with any two links.
SPECIFICATION SpecAll
CONSTANTS
    Calls = {"describe", "probe", "run"}
    Options = 2
    PromptSize = 2
    QueueSize = 1
    MaxChunks = 2
    MaxExtra = 1
    Methods = {"validate", "run"}
    MaxLines = 2
    MaxEvents = 2
    Requests <- EveryRequest
    PipeSize = 1
    MaxDepth = 3
    MaxNodes = 6
    MaxLoopIterations = 2
    Setups <- EverySetup
    Projects = {"p", "q"}
    Deliveries <- Reports
    Root <- Project
    FileSystems <- Trees
    Paths <- Asked
    Backup = {"f~"}
    MaxLinks = 12
INVARIANTS
    AnswersAreEarned
    StartIsSound
    OnlyTreesLoad
    
PROPERTY ChildrenEnd
CHECK_DEADLOCK FALSE
