\* Three tokens, two slots, three bars; the run ends with the report.
SPECIFICATION Spec
INVARIANTS
    BooksBalance
    SlotsBounded
PROPERTIES
    LifecycleKept
CONSTANTS
    Tokens <- ThreeTokens
    Scripts <- AllScripts
    Bars = 2
    Prices = {2, 4}
    Start = 256
    Tickets = {32}
    CapPct = 25
    MaxConcurrent = 2
    Cooldown = 1
    StopPct = 40
    TrailPct = 25
    ArmPct = 30
    RangeOf <- DailyRanges
    Lifetime = 1
CHECK_DEADLOCK FALSE
