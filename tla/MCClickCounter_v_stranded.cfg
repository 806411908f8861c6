SPECIFICATION FairSpec
CONSTANTS
    k1 = k1
    k2 = k2
    k3 = k3
    w1 = w1
    w2 = w2
    Codes = {1}
    Clicks = {k1, k2}
    Workers = {w1}
    Editors = {}
    Thresholds = {}
    NoHook = NoHook
    MaxLinks = 1
    Faults <- NoFaults
    MaxFaults = 0
PROPERTIES
    EventuallyCounted
