SPECIFICATION LookupsSpec
CONSTANTS
    w1 = w1
    w2 = w2
    Workers <- MCWorkers
    Callers <- MCWorkers
    NoWorker = NoWorker
    Handles = {h1, h2}
    NoHandle = NoHandle
    Statuses <- MCStatuses
    MaxCalls = 1
    MaxLookups = 1
INVARIANT SkippedWhenUnavailable
