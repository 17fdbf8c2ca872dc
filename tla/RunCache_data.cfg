\* Two runs (plain, --from, --force with another date set) over two incremental stages.
SPECIFICATION Spec
CONSTANTS
    d1 = d1
    d2 = d2
    Runs = {r1, r2}
    Depth = 2
    Incremental <- TwoStages
    DataStages <- TwoStages
    Data = {d1, d2}
    Requests <- MixedRequests
    MaxClock = 3
    NoData = NoData
    Free = Free
SYMMETRY RunSymmetry
INVARIANTS
    TypeOK
    OneExecutor
    HitReadItsInput
    ResultCoherent
PROPERTIES
    OnlyHolderWrites
