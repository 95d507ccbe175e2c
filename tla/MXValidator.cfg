SPECIFICATION MXSpec
CONSTANTS
    w1 = w1
    w2 = w2
    d1 = d1
    d2 = d2
    Workers <- MCWorkers
    Domains <- MCDomains
    EmailLists <- MCEmailLists
SYMMETRY Symmetric
INVARIANTS
    MXTypeOK
    SavedMarksHaveGrounds
PROPERTY VerdictsSettle
