CONSTANTS
    v1 = v1
    c1 = c1
    c2 = c2
    r1 = r1
    r2 = r2
    Empty = Empty
    NoVisit = NoVisit
    Visits <- MCOneVisit
    Carts <- MCTwoCarts
    Modes <- MCDirect
    Requests <- MCTwoRequests
    MaxSaved = 1
SPECIFICATION Spec
INVARIANTS
    FailedIsNotRegistered
