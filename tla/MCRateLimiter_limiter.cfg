SPECIFICATION Spec
CONSTANTS
    r1 = r1
    r2 = r2
    r3 = r3
    r4 = r4
    h1 = h1
    h2 = h2
    a1 = a1
    NoKey = NoKey
    Requests <- Requesters
    Shape <- Shapes
    Limits <- SmallLimits
    Second = 2
    Window = 4
    Early = 1
    Late = 1
    Start = 1
    MaxTime = 8
SYMMETRY Symmetric
INVARIANTS
    TypeOK
    AtMostLimit
    DeniedJustified
    RetryAfterEnough
CHECK_DEADLOCK FALSE
