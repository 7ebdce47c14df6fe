\* Two questions, one with an image, and a denied message, with one permit, which
\* the curator may hold, or one worker with two items and two mishaps; what has
\* started is scheduled fairly, permits may never be free.
SPECIFICATION PermitsSpec
CONSTANTS
    d1 = d1
    d2 = d2
    d3 = d3
    e1 = e1
    e2 = e2
    e3 = e3
    m1 = m1
    m2 = m2
    m3 = m3
    k1 = k1
    k2 = k2
    Deliveries = {d1, d2, d3}
    Events = {e1, e2, e3}
    Messages = {m1, m2, m3}
    Conversations = {k1, k2}
    Event <- EventEach
    Message <- MessageEach
    Conversation <- LastApart
    Allowed = {m1, m3}
    Commands = {}
    Followups = {}
    Images = {m1}
    MaxCalls = 1
    TTL = 1
    Horizon = 0
    Items = {i1, i2}
    Trusted = {i1}
    Workers = {w1}
    MaxRetries = 2
    MaxMishaps = 2
INVARIANTS
    NothingLeaks
    SettledHonestly
    BundleShowsDone
PROPERTIES
    HandlersReturn
    ItemsSettle
