\* Two turns of one conversation: whose question is stored with a reply.
SPECIFICATION Spec
CONSTANTS
    t1 = t1
    t2 = t2
    k1 = k1
    k2 = k2
    s1 = s1
    s2 = s2
    Turns <- Two
    Conversations = {k1, k2}
    Conversation <- Together
    Parts <- OneEach
    Eligible <- OnlyFirst
    Stamps = {s1, s2}
    NoStamp = NoStamp
    NoTurn = NoTurn
INVARIANTS
    SourceIsOwnQuestion
