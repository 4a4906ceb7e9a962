CONSTANTS
    u1 = u1  u2 = u2  p1 = p1  p2 = p2
    r1 = r1  r2 = r2  r3 = r3
    Users = {u1, u2}
    Replicas = {p1, p2}
    Requests = {r1, r2, r3}
    Owner <- OwnerDef
    At <- AtDef
    Units <- UnitsDef
    GlobalLimit = 1
    UserLimit = 1
    RpmLimit = 1
    UserDaily = 2
    GlobalDaily = 3
    Ttl = 2
    Window = 2
    Everyone = Everyone
SPECIFICATION Spec
INVARIANTS TypeOK PlacesBounded QuotasKept
PROPERTIES ImplementsSemaphore LostLeaseIsNoticed AbandonedLeaseExpires
