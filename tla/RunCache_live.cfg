\* Two plain runs over an incremental stage and a stage keyed by the content
\* it consumes: every run ends, and together they are a ledger of results.
SPECIFICATION FairSpec
CONSTANTS
    d1 = d1
    d2 = d2
    Runs = {r1, r2}
    Depth = 2
    Incremental <- OneStage
    DataStages <- OneStage
    Data = {d1}
    Requests <- PlainRequests
    MaxClock = 3
    NoData = NoData
    Free = Free
INVARIANTS
    LockOwned
PROPERTIES
    RunsEnd
    ImplementsLedger
