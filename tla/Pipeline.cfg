SPECIFICATION PipelineSpec
CONSTANTS
    w1 = w1
    w2 = w2
    h1 = h1
    h2 = h2
    Workers <- MCWorkers
    NoWorker = NoWorker
    Handles <- MCHandles
    NoHandle = NoHandle
    Statuses = {"VALID", "NOT_FOUND"}
    Keys = {"a", "b", "c"}
    Sources <- FourSources
    ContactLists <- TwoHandlePages
SYMMETRY WorkerSymmetry
INVARIANTS
    PipelineTypeOK
    ErrorsNeverBlock
    ScrapedOnce
    ReturnAccountsForAll
    StoreMatchesReport
    RowHandlesJudged
PROPERTY
    NoWorkAfterReturn
