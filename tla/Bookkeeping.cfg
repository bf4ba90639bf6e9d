\* Two tokens, no crash, no timeout, every read truthful; swaps may fail
\* and data may be missing.
SPECIFICATION FairSpec
INVARIANTS
    LedgerExactAtRest
PROPERTIES
    CooldownHolds
    LifecycleSpec
    HardStopFlattens
    DailyTrade
CONSTANTS
    Allowlist <- Eligible
    MaxSignalAge = 0
    MaxTradesPerDay = 1
    MaxConcurrent = 2
    MinEdge = 2
    Watchlist <- TwoTokens
    Stable = "USDT"
    OtherStable = "USDC"
    GasCounts = FALSE
    Cooldown = 2
    DayLen = 2
    Deadline = 1
    Ladder <- Sliding
    Faults = {"revert", "nodata", "stop"}
    MaxTime = 3
    MaxFaults = 0
    MaxFlight = 0
