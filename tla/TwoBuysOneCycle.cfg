\* Two BUY signals in one cycle.
SPECIFICATION Spec
INVARIANTS
    ConcurrencyCap
CONSTANTS
    Allowlist <- Eligible
    MaxSignalAge = 0
    MaxTradesPerDay = 2
    MaxConcurrent = 1
    MinEdge = 2
    Watchlist <- TwoTokens
    Stable = "USDT"
    OtherStable = "USDC"
    GasCounts = FALSE
    Cooldown = 2
    DayLen = 3
    Deadline = 2
    Ladder <- Steady
    Faults = {}
    MaxTime = 3
    MaxFaults = 0
    MaxFlight = 0
