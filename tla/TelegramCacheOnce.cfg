SPECIFICATION CacheSpec
CONSTANTS
    w1 = w1
    w2 = w2
    w3 = w3
    h1 = h1
    h2 = h2
    Workers <- MCWorkers
    Handles <- MCHandles
    NoWorker = NoWorker
    NoHandle = NoHandle
    Statuses = {"VALID", "NOT_FOUND"}
SYMMETRY Symmetric
INVARIANT ValidatedOnce
