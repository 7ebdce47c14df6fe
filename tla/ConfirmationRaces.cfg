\* One call, two racing decisions, two users, every failure, crashes, expiry; a
\* single model permit, so that a decision may find the limiter exhausted. What
\* has started is scheduled fairly; users, crashes and restarts are free.
SPECIFICATION FairSpec
CONSTANTS
    c1 = c1
    alice = alice
    bob = bob
    h1 = h1
    h2 = h2
    Calls <- OneCall
    Legacy <- NoLegacy
    Users <- UserSet
    Requester <- AliceAsks
    Policies <- PolicySet
    Deciders = {h1, h2}
    NoDecision = NoDecision
    MaxModelCalls = 1
    TTL = 1
    MaxClock = 2
INVARIANTS
    TypeOK
    ToolRunsOnce
    PromptsAreRight
    PermitsBalanced
PROPERTIES
    ImplementsApproval
    ConsentIsGenuine
    RecoveryComplete
    HandlersFinish
