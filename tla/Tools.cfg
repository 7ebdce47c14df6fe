\* What a turn does beside its answer, one component at a time: two calls of
\* each tool that may name the same operation, by two users, and the progress
\* messages of two questions, one of which calls may fail about, across a restart.
SPECIFICATION ToolsSpec
CONSTANTS
    Calls = {c1, c2}
    CanvasOps = {i1}
    CallIDs = {i1}
    Users = {u1, u2}
    Documents <- Pages
    MaxTitleChars = 1
    MaxContentChars = 2
    MaxCanvasBytes = 3
    MaxTableCells = 3
    Exports <- Sheets
    Keys <- Threads
    MaxFilenameChars = 1
    MaxContentBytes = 2
    Capabilities = {"read_file", "run_command"}
    AllowedCapabilities = {"read_file"}
    Questions = {q1, q2}
    Fallible = {q1}
    MaxStarts = 2
INVARIANTS
    ToolsTypeOK
    AnswersAreOwn
    NoStaleProgress
PROPERTY EffectsOnce
CHECK_DEADLOCK FALSE
