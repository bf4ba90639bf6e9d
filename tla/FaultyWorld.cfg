\* Every fault the environment may inject, between any two steps, on two tokens.
SPECIFICATION Spec
INVARIANTS
    LedgerNeverOverstates
    LedgerLossBounded
    EntriesPerFault
    BulletsPerFault
    UnarmedPerFault
    OrphansPerCrash
CONSTANTS
    Allowlist <- Eligible
    MaxSignalAge = 0
    MaxTradesPerDay = 1
    MaxConcurrent = 2
    MinEdge = 2
    Watchlist <- TwoTokens
    Stable = "USDT"
    OtherStable = "USDC"
    GasCounts = FALSE
    Cooldown = 0
    DayLen = 1
    Deadline = 0
    Ladder <- Steady
    Faults = {"crash", "timeout", "misread", "nodata", "revert", "stop"}
    MaxTime = 1
    MaxFaults = 2
    MaxFlight = 2
