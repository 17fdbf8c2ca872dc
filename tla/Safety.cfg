\* gc alone, with every policy, in every small work directory; and the others.
SPECIFICATION SafetySpec
CONSTANTS
    d1 = d1
    d2 = d2
    d3 = d3
    Runs = {r1}
    Depth = 2
    Incremental <- NoStage
    DataStages <- OneStage
    Data = {d1, d2, d3}
    Requests <- Variants
    MaxClock = 3
    NoData = NoData
    Free = Free
    Policies <- Budgets
    NoBudget = NoBudget
    GC = GC
    MaxGcs = 1
    p1 = p1
    p2 = p2
    Params = {p1, p2}
    NoParams = NoParams
    MaxProducts = 5
    Lines <- TsLines
    Sides = {1, 5, 8}
    MemoryBudgets = {0, 4, 12, 30}
    CoreCounts = {1, 2, 4}
    TileCounts = {0, 1, 2, 3}
    MinOverlap = 1
    MaxTiles = 16
    Configs <- SomeConfigs
    GraphLines <- SomeLines
    MaxGraphRuns = 2
    MaxEvictions = 1
    Orbits = {1, 2}
    Days <- FourDays
    Share <- Shares
    MinCoverage = 70
    MaxDays = 36
    MaxPerp = 5
    Connections = 2
    Offsets = {0, 9}
    Unknown = Unknown
    Searches <- SomeSearches
    k1 = k1
    k2 = k2
    Keys = {k1, k2}
    Stacks <- SomeStacks
    Extras <- SomeExtras
    MaxAppends = 3
    MaxCreates = 1
    Base <- BaseConfig
    StageOf <- Reads
    Grids <- SomeGrids
    MaxPoints = 4
    Senses <- Goals
    Qualities <- SomeQualities
    Unmeasured = Unmeasured
    Files = {"a.yaml", "b.yaml"}
    MaxEdits = 2
    KB <- SomeEntries
    LogNames = {1, 2}
    Named <- LogNamedAfter
    LogTexts <- SomeLogs
    StageEngines = {"isce2_topsstack", "fake"}
    Raised <- SomeErrors
    MaxAttempts = 2
    Igrams = {"p", "q"}
    UnwrapCalls <- SomeCalls
    Installations <- SomeEngines
    MaxUnwraps = 2
    Projects = {"a", "b"}
    Home = {"b"}
    Software = {"exe"}
    NoProject = "no project"
    WorkdirSetting <- SomeWorkdirs
    pointA = pointA
    pointB = pointB
    Interpreters <- SomeChoices
    RankedPoints <- SomePoints
    Sites <- SomePoints
    NoPoint = NoPoint
    MaxJobs = 2
    MaxTypings = 1
INVARIANTS
    SafetyTypeOK
    BudgetSpares
    StrategyFits
    ReportedChain
    PlanIsKept
    NetworkAdds
    SlicesAreTheirOwn
    GridIsCovered
    FrontIsHonest
    SavedIsUsed
    FailureIsExplained
    AnswerIsOwn
    DoneIsDone
PROPERTIES
    LongHeldKept
    WhatIsShownIsUsed
CHECK_DEADLOCK FALSE
