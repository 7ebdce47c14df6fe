\* A question and the curator, with one permit.
SPECIFICATION Spec
CONSTANTS
    d1 = d1
    d2 = d2
    d3 = d3
    e1 = e1
    e2 = e2
    e3 = e3
    m1 = m1
    m2 = m2
    k1 = k1
    k2 = k2
    Deliveries = {d1, d2}
    Events = {e1, e2, e3}
    Messages = {m1, m2}
    Conversations = {k1, k2}
    Event <- EventEach
    Message <- MessageEach
    Conversation <- Together
    Allowed = {m1, m2}
    Commands = {}
    Followups = {}
    Images = {}
    MaxCalls = 1
    TTL = 1
    Horizon = 0
INVARIANTS
    BusyStoresNothing
