\* HyP3: two pairs, batches of one, up to three runs by either caller.
\* topsStack: two dates, coregistered together, one retry, three runs.
SPECIFICATION EnginesSpec
CONSTANTS
    Pairs = {1, 2}
    Batch = 1
    Credits = 3
    Callers <- AnyCaller
    MaxJobs = 4
    MaxRuns = 3
    MaxWaits = 1
    Absent = Absent
    Corrupt = Corrupt
    NoPair = NoPair
    Dates = {1, 2}
    Looks = {L1, L2}
    Virtual = {L2}
    Cap <- Caps
    Retries = 1
    None = None
    Part = Part
    Requests <- Growing
    Reprocess = 1
    MaxTopsRuns = 3
INVARIANTS
    EnginesTypeOK
    NothingIsLost
    RecordIsTrue
    FailureIsContained
PROPERTIES
    NeverPaidTwice
    EveryRunEnds
    CompletedIsKept
CHECK_DEADLOCK FALSE
