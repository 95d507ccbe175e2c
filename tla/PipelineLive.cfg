SPECIFICATION PipelineFairSpec
CONSTANTS
    w1 = w1
    w2 = w2
    h1 = h1
    h2 = h2
    Workers <- MCWorkers
    NoWorker = NoWorker
    Handles = {h1}
    NoHandle = NoHandle
    Statuses = {"VALID", "NOT_FOUND"}
    Keys = {"a", "b"}
    Sources <- ThreeSources
    ContactLists <- OneHandlePages
PROPERTIES
    RunReturns
    KeepsLedger
