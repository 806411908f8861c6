SPECIFICATION Spec
CONSTANTS
    g1 = g1
    g2 = g2
    g3 = g3
    mail = mail
    other = other
    Registrations = {g1, g2, g3}
    Email <- Addresses
    Clients = {c1}
    Nobody = Nobody
    MaxLinks = 3
    PageSize = 1
INVARIANTS
    TypeOK
    OneAccount
    WalkComplete
    WalkOnce
CHECK_DEADLOCK FALSE
