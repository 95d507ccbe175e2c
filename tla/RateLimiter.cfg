SPECIFICATION LimiterSpec
CONSTANTS
    Callers = {c1, c2, c3}
    MinDelay = 2
    MaxDelay = 4
    Horizon = 7
INVARIANTS
    LimiterTypeOK
    WaitWithinRange
    DueInOrder
