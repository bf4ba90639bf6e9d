\* Crashes between any two saves, readings that miss a price or are out of date, swaps
\* that are refused or mined after they were given up on.
SPECIFICATION Spec
INVARIANTS
    LadderCoversJudge
    HardStopIsExact
    BaselineIsFirstLive
PROPERTIES
    FlatIsFinal
CONSTANTS
    AlertPct = 10
    PausePct = 15
    HardStopPct = 20
    Dust = 100000
    Interval = 2
    Cash = 1000
    Coin = 1000
    Gas = 0
    Deposit = 5000
    Prices <- Halving
    Par = 100
    Faults = {"crash", "misread", "revert", "timeout"}
    MaxMisreads = 1
    MaxPending = 1
    MaxTime = 2
