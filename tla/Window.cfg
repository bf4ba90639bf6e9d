\* A window of three ticks, one crash, a market whose costs move, a grace period
\* no longer than a cycle, stops and restarts by the operator.
SPECIFICATION Spec
INVARIANTS
    TypeOK
    CycleNearWindow
    StopIsHeeded
    RestartsSettle
CONSTANTS
    StartAt = 1
    StopAt = 4
    MaxHours = 4
    Interval = 1
    CycleLen = 1
    MeasureLen = 1
    FloorEvery = 1
    Costs <- Fees
    Grace = 1
    BackOffCap = 2
    MaxErrors = 2
    MaxCrashes = 1
    MaxDrops = 1
    MaxTime = 7
