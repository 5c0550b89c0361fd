\* 1899-11-29 to 2000-05-23, across 1900, which is no leap year, and 2000,
\* which is one.  Two of three keys are pinned and both must sign.
SPECIFICATION CalendarSpec
CONSTANTS
    k1 = k1
    k2 = k2
    k3 = k3
    Keys = {k1, k2, k3}
    Pinned = {k1, k2}
    Threshold = 2
    FirstDay <- MCFirstDay
    LastDay = 11100
    DeliveryDays <- MCDeliveryDays
    Hours = {0, 23}
    Offsets <- MCOffsets
    MaxEntries = 3
INVARIANTS
    CountsDays
    KnowsMonthEnd
    AuthorityVerifies
    VerifiedIsUsable
