CONSTANTS
    v1 = v1  c1 = c1  c2 = c2  r1 = r1  w1 = w1  w2 = w2
    Visits = {v1}
    Carts = {c1, c2}
    Empty = Empty
    Requests = {r1}
    NoVisit = NoVisit
    MaxSaved = 0
    Workers = {w1, w2}
    NoKey = NoKey
    NoWorker = NoWorker
    MaxAttempts = 1
    MaxFaults = 1
SPECIFICATION Spec
PROPERTIES ImplementsSubmission SettledUnderRestarts
