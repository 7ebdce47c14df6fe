\* What lasts beyond a turn, one component at a time: two turns of two
\* sessions, one message with a restart, three calls of OpenCode, two streamed
\* answers, and a call beside one left by an older release.
SPECIFICATION SpecAll
CONSTANTS
    Sessions = {s1, s2}
    SessionTurns = {t1, t2}
    Families <- BothFamilies
    Deltas <- TwoDeltas
    MaxEvents = 2
    Messages <- EveryKind
    MaxPosted = 1
    MaxStarts = 2
    Operations = {o1, o2, o3}
    AllowedIDs = {o1, o2}
    Versions = {v1, v2, v3}
    Turns = {u1, u2}
    c1 = c1
    c2 = c2
    alice = alice
    Calls <- TwoCalls
    Legacy <- OldCall
    Users <- OneUser
    Requester <- AliceAsks
    Policies <- AliceDecides
    MaxModelCalls = 2
    TTL = 1
    MaxClock = 1
    Deciders = {h1, h2}
    NoDecision = NoDecision
INVARIANTS
    AllTypesOK
    FamiliesNeverMix
    AddressedIsHandled
    UpgradeIsAlone
    StreamIsFound
PROPERTIES
    ImplementsLog
    AnswerStays
    ImplementsApproval
SYMMETRY Symmetry
CHECK_DEADLOCK FALSE
