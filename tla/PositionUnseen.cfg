\* One quote fails, and the container is restarted.
SPECIFICATION FrictionSpec
INVARIANT RestartSafe
CONSTANTS
    Candidates <- Three
    Standard <- AtStandard
    Waived <- AtWaiver
    Ceiling = 15
    Margin = 5
    Faults = {"quote", "crash"}
    MaxFaults = 2
    MaxFlips = 0
