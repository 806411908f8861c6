SPECIFICATION Spec
CONSTANTS
    k1 = k1
    k2 = k2
    k3 = k3
    l1 = l1
    l2 = l2
    Null = Null
    Clicks = {k1, k2, k3}
    Facts <- SomeFacts
    Links = {l1, l2}
    Reports <- Both
    Day = 2
    Periods = {1, 2}
    Asked = {1, 3}
    Ranges <- SomeRanges
    RowLimits = {1, 3}
    Start = 6
    MaxTime = 9
INVARIANTS
    TypeOK
    LabelsAgree
    SeriesExact
    BreakdownCoversChart
    ReportsAgree
CHECK_DEADLOCK FALSE
