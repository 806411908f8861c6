SPECIFICATION RestartSpec
CONSTANTS
    k1 = k1
    k2 = k2
    w1 = w1
    w2 = w2
    Codes = {1}
    Clicks = {k1, k2}
    Workers = {w1, w2}
    Editors = {e1}
    Thresholds = {1}
    NoHook = NoHook
    MaxLinks = 2
    Faults <- WebhookFaults
    MaxFaults = 1
SYMMETRY Symmetric
INVARIANTS
    EventOnceThroughRestart
    FiredHasEventThroughRestart
    RestartCost
