CONSTANTS
    k1 = k1
    k2 = k2
    w1 = w1
    w2 = w2
    p1 = p1
    p2 = p2
    NoKey = NoKey
    NoWorker = NoWorker
    NoPayload = NoPayload
    Keys <- MCTwoKeys
    Payloads <- MCTwoPayloads
    Unsupported <- MCSecondKey
    Workers <- MCTwoWorkers
    MaxAttempts = 2
    MaxFaults = 2
SPECIFICATION Spec
SYMMETRY MCWorkerSymmetry
INVARIANTS
    TypeOK
    AtMostOneOrder
    SucceededIsCommitted
    UncertaintyRecorded
    OneClaimant
    OrderAsAccepted
PROPERTIES
    SettledForGood
    PromiseKept
