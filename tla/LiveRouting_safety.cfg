CONSTANTS
    Sessions = {s1, s2}
    Cats = {c1}
    Reqs = {r1, r2, r3}
    None = None
    ShadowOrdinals = {2}
    WaitingSessions = {s1}
    MaxFaults = 2
    MaxUpdates = 1
    MaxRestarts = 1
SPECIFICATION Spec
CHECK_DEADLOCK FALSE
SYMMETRY Symmetry
INVARIANTS ServedSafely EscalationsStick
PROPERTIES SessionStaysFrontier
