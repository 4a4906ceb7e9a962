SPECIFICATION Spec
CONSTANTS
    Scenarios = {s1}
    Users = {u1, u2}
    Requests = {r1, r2}
    Keys = {k1}
    Amounts = {10}
    None = None
    MaxTrail = 6
SYMMETRY Symmetries
INVARIANTS
    StampsMatchStatus
    TrailExplains
CHECK_DEADLOCK FALSE
