CONSTANTS
    d1 = d1  d2 = d2
    Devices = {d1, d2}
    seller = seller  other = other
    Positions = {other}
    Seeded = {}
    sell = sell
    Permissions = {}
    Defaults <- NoDefaults
    MaxBatch = 3
    MaxBreaks = 1
    MaxOperations <- MaxOperationsDef
    NoOperation = NoOperation
SPECIFICATION Spec
INVARIANTS TypeOK AppliedOnce OneWinnerPerRevision NothingLost
