SPECIFICATION Spec
CONSTANTS
    DayLen = 2
    Slice = 1
    Overlap = 1
    Cold = 2
    BackfillLen = 2
    FlowLen = 4
    RereadFrom = 0
    Settle = 1
    MaxAttempts = 2
    Now0 = 6
    MaxNow = 7
    Mode0 = "full"
    MaxTroubles = 2
    ManualDays = {2, 4}
    LateAt = 5
    LateSeen = 6
INVARIANTS
    CoverageIsRead
    WatermarkLeavesNothing
    UnreadHasGap
    PlansAreInOrder
    RereadFindsLate
CHECK_DEADLOCK FALSE
