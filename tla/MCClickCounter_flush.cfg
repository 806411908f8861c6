SPECIFICATION Spec
CONSTANTS
    k1 = k1
    k2 = k2
    k3 = k3
    w1 = w1
    w2 = w2
    Codes = {1}
    Clicks = {k1, k2, k3}
    Workers = {w1, w2}
    Editors = {}
    Thresholds = {2}
    NoHook = NoHook
    MaxLinks = 1
    Faults <- AllFaults
    MaxFaults = 2
SYMMETRY Symmetric
INVARIANTS
    TypeOK
    OnePlace
    CountedOnce
    NothingVanishes
    CountExact
    FiredAtThreshold
PROPERTIES
    KeepsLedger
