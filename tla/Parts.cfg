\* Pairs: two of them, two identities, one worker.  Downloads: two processes.
\* Dock: a command without and two with a client, two jobs, a queue of a line.
SPECIFICATION PartsSpec
CONSTANTS
    Pairs = {1, 2}
    Identities = {a, b}
    FileStamps = {1, 2, 3}
    Workers = 1
    a = a
    b = b
    none = none
    NoIdentity = none
    Stacks <- TwoStacks
    Fetchers = {f1, f2}
    NoFetcher = NoFetcher
    Commands = {"init", "search", "precheck"}
    MaxJobs = 2
    MaxQueue = 1
INVARIANTS
    PartsTypeOK
    AssembledIsAsked
    FailureKeepsTheRest
    OneAtTheEntry
    JobsAreAnswered
PROPERTIES
    WantedIsKept
    StageEnds
    CallsEnd
    SignalledGroupDies
    JobIsShown
CHECK_DEADLOCK FALSE
