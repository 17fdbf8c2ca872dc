\* One run, one stage and a gc that keeps nothing: are locked entries kept?
SPECIFICATION GcSpec
CONSTANTS
    d1 = d1
    d2 = d2
    d3 = d3
    Runs = {r1}
    Depth = 1
    Incremental <- OneStage
    DataStages <- OneStage
    Data = {d1, d2}
    Requests <- Variants
    MaxClock = 2
    NoData = NoData
    Free = Free
    Policies <- NoBudgets
    NoBudget = NoBudget
    GC = GC
    MaxGcs = 1
PROPERTIES
    LockedKept
