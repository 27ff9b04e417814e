SPECIFICATION FairSpec
CONSTANTS
    Names = {"a", "b"}
    Suites = {"a", "b"}
    Crons = {1, 2}
    Preset <- TwoJobs
    Requests <- NoRequests
    Clients = {"main"}
    Foreground = TRUE
    MaxWorkers = 2
    Outcomes <- TwoEnds
    MetastoreFails = TRUE
    MaxTime = 3
    MaxObjects = 2
    MaxLoops = 1
PROPERTIES ShutdownCompletes DueJobsRun
