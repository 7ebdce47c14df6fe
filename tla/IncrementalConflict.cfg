\* A message whose creation was never stored, found by the next start.
SPECIFICATION Spec
CONSTANTS
    t1 = t1
    t2 = t2
    Turns = {t1, t2}
INVARIANTS
    ConflictIsReal
