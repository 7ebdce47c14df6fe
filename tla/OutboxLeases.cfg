\* Two workers on one database.
SPECIFICATION Spec
CONSTANTS
    i1 = i1
    i2 = i2
    w1 = w1
    w2 = w2
    Items = {i1, i2}
    Trusted = {i1}
    Workers = {w1, w2}
    MaxRetries = 2
    MaxMishaps = 1
SYMMETRY WorkerSymmetry
INVARIANTS
    AppliedOnce
PROPERTIES
    SettledStays
