\* A job times out and the executor runs the stage again.
SPECIFICATION Spec
CONSTANTS
    Pairs = {1}
    Batch = 1
    Credits = 3
    Callers <- Executor
    MaxJobs = 2
    MaxRuns = 2
    MaxWaits = 0
    Absent = Absent
    Corrupt = Corrupt
    NoPair = NoPair
PROPERTIES
    TimeoutResumes
CHECK_DEADLOCK FALSE
