\* One date, two runs with two looks.
SPECIFICATION TopsSpec
CONSTANTS
    Dates = {1}
    Looks = {L1, L2}
    Virtual = {}
    Cap <- Caps
    Retries = 1
    None = None
    Part = Part
    Requests <- TwoLooks
    Reprocess = 1
    MaxTopsRuns = 2
INVARIANTS
    ReportedLooks
CHECK_DEADLOCK FALSE
