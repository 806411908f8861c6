SPECIFICATION Spec
CONSTANTS
    r1 = r1
    r2 = r2
    r3 = r3
    Requests = {r1, r2}
    Editors = {e1}
    Instants = {3}
    Never = Never
    Second = 2
    DefaultTTL = 1
    MaxDelay = 1
    MaxLinks = 2
    MaxTime = 5
    Faults <- AllFaults
SYMMETRY Symmetric
INVARIANTS
    TypeOK
    BoundedStaleness
    CacheExpiryBounded
    ServedUnexpired
    RemovedIfEverExpired
CHECK_DEADLOCK FALSE
