SPECIFICATION WorkerSpec
CONSTANTS
    Clicks = {k1}
    MaxLinks = 2
    EventRetries = 1
    Hooks = {h1}
    TaskRetries = 1
    PostRetries = 2
    Processes = 2
    MaxAgain = 1
INVARIANTS
    TypeOK
    RowsHaveLink
    StoredOnce
    DeliveryExact
PROPERTIES
    EventEnds
    DeliveryEnds
CHECK_DEADLOCK FALSE
