SPECIFICATION PanelsSpec
CONSTANTS
    Projects = {"a"}
    Home = {"a"}
    Software = {"exe"}
    NoProject = "no project"
    WorkdirSetting <- SomeWorkdirs
    pointA = pointA
    pointB = pointB
    Interpreters <- SomeChoices
    RankedPoints <- SomePoints
    Sites <- SomePoints
    NoPoint = NoPoint
    MaxJobs = 2
    MaxTypings = 2
INVARIANT LastRunLoads
