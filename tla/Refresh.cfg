\* Every fault, two in all, while the fee is waived and charged again.
SPECIFICATION FrictionSpec
INVARIANT ExitsAccounted
PROPERTY WaiverCaptured
CONSTANTS
    Candidates <- Three
    Standard <- AtStandard
    Waived <- AtWaiver
    Ceiling = 15
    Margin = 5
    Faults = {"quote", "fail", "timeout", "crash"}
    MaxFaults = 2
    MaxFlips = 3
