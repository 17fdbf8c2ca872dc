\* One date, two runs.
SPECIFICATION TopsSpec
CONSTANTS
    Dates = {1}
    Looks = {L1}
    Virtual = {}
    Cap <- Caps
    Retries = 1
    None = None
    Part = Part
    Requests <- TwoLooks
    Reprocess = 1
    MaxTopsRuns = 2
INVARIANTS
    JobsFindInputs
CHECK_DEADLOCK FALSE
