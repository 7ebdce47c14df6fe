\* Two conversations whose replies may share a timestamp, one reply in two parts,
\* with every failure, crashes, and the worker beside the turns; what has started
\* is scheduled fairly.
SPECIFICATION FairSpec
CONSTANTS
    t1 = t1
    t2 = t2
    k1 = k1
    k2 = k2
    s1 = s1
    s2 = s2
    Turns <- Two
    Conversations = {k1, k2}
    Conversation <- Apart
    Parts <- FirstLonger
    Eligible <- OnlyFirst
    Stamps = {s1, s2}
    NoStamp = NoStamp
    NoTurn = NoTurn
INVARIANTS
    RecordIsTrue
PROPERTIES
    StartRecovers
    ImplementsRecord
    EverythingEnds
