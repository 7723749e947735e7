SPECIFICATION Spec
CONSTANTS
    s1 = s1
    s2 = s2
    d1 = d1
    d2 = d2
    c1 = c1
    c2 = c2
    h1 = h1
    None = None
    Sessions = {s1, s2}
    Devices = {d1, d2}
    Clis = {c1, c2}
    Guests = {d2, c2}
    Hooks = {h1}
    MaxRequests = 2
SYMMETRY Symmetry
INVARIANTS TypeOK RevokedStaysRefused OneOwner DeletedLeavesNothing StoppedIsSilent
CHECK_DEADLOCK FALSE
