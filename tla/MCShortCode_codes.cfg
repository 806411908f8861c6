SPECIFICATION FairSpec
CONSTANTS
    Requests = {r1, r2, r3}
    KeySpace = 1
    MinLength = 1
    MaxLength = 4
    MaxTries = 2
    ReserveTTL = 2
    MaxDelay = 1
    MaxTime = 3
    Aliases <- OneAlias
    NoCode = NoCode
    Faults <- AllFaults
    MaxFaults = 1
INVARIANTS
    TypeOK
    ReservationExclusive
    AliasNeverConflicts
PROPERTIES
    CreationEnds
CHECK_DEADLOCK FALSE
