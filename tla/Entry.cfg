\* Payments and four swap calls, every fault.
SPECIFICATION Spec
INVARIANTS
    NoChurn
    SwapsPerCall
    DigestPairs
    SpendsOnRecord
CONSTANTS
    Registry <- Steady
    MaxSteps = 3
    MaxCalls = 4
    MaxLog = 4
    Faults = {"answer", "ledger", "timeout", "log"}
    MaxLost = 1
