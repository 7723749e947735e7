SPECIFICATION Spec
CONSTANTS
    c1 = c1
    c2 = c2
    c3 = c3
    r1 = r1
    r2 = r2
    r3 = r3
    k1 = k1
    k2 = k2
    None = None
    Callers = {c1, c2, c3}
    Runs = {r1, r2, r3}
    Keys = {k1, k2}
    MaxActive = 2
    MaxPerDay = 2
SYMMETRY Symmetry
INVARIANTS TypeOK ActiveBounded AdmittedIsNew BucketCountsNotes
CHECK_DEADLOCK FALSE
