\* A question with an image, delivered twice under two events, a decision of a
\* confirmation in its conversation, and a clock on which the first claim expires,
\* so that two turns for the question may meet.
SPECIFICATION Spec
CONSTANTS
    d1 = d1
    d2 = d2
    d3 = d3
    e1 = e1
    e2 = e2
    e3 = e3
    m1 = m1
    m2 = m2
    k1 = k1
    k2 = k2
    Deliveries = {d1, d2, d3}
    Events = {e1, e2, e3}
    Messages = {m1, m2}
    Conversations = {k1, k2}
    Event <- EventEach
    Message <- FirstTwice
    Conversation <- Together
    Allowed = {m1, m2}
    Commands = {m2}
    Followups = {m1}
    Images = {m1}
    MaxCalls = 2
    TTL = 1
    Horizon = 1
INVARIANTS
    NothingLeaks
    OncePerLifetime
    OneVisibleResult
PROPERTIES
    ImplementsSerialTurns
