CONSTANTS
    d1 = d1  d2 = d2
    Devices = {d1, d2}
    seller = seller  other = other
    Positions = {seller}
    Seeded = {seller}
    sell = sell
    Permissions = {sell}
    Defaults <- DefaultsDef
    MaxBatch = 3
    MaxBreaks = 0
    MaxOperations <- MaxOperationsDef
    NoOperation = NoOperation
SPECIFICATION Spec
INVARIANT NoLostUpdate
