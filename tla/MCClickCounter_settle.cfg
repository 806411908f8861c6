SPECIFICATION FairSpec
CONSTANTS
    k1 = k1
    k2 = k2
    k3 = k3
    w1 = w1
    w2 = w2
    Codes = {1, 2}
    Clicks = {k1, k2}
    Workers = {w1, w2}
    Editors = {}
    Thresholds = {}
    NoHook = NoHook
    MaxLinks = 1
    Faults <- SettleFaults
    MaxFaults = 1
PROPERTIES
    PendingDrains
    SettledOrStranded
