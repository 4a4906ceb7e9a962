CONSTANTS
    k1 = k1
    k2 = k2
    s1 = s1
    s2 = s2
    s3 = s3
    d1 = d1
    d2 = d2
    t1 = t1
    t2 = t2
    NoKey = NoKey
    NoSeries = NoSeries
    Keys <- MCKeys
    Series <- MCSeries
    Spaces <- MCSpaces
    SpaceOf <- MCSpaceOf
    Start <- MCStart
    Given <- MCGiven
    Plans <- MCPlans
    Sessions <- MCSessions
SPECIFICATION FairSpec
INVARIANTS
    TypeOK
    NumbersGapFree
    OneOrderPerKey
    LocksAreOrdered
PROPERTIES
    DrawnNumberIsNew
    NoStandstill
