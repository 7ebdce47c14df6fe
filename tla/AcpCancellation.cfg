\* An agent that does not read its input, and a prompt larger than the pipe.
SPECIFICATION Spec
CONSTANTS
    Calls = {"run"}
    Options = 0
    PipeSize = 1
    PromptSize = 2
    QueueSize = 1
    MaxChunks = 1
    MaxExtra = 0
PROPERTY CancellationKillsProcess
CHECK_DEADLOCK FALSE
