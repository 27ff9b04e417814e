SPECIFICATION Spec
CONSTANTS
    Names = {"a", "b"}
    Suites = {"a", "b"}
    Crons = {1, 2}
    Preset <- OneJob
    Requests <- Changes
    Clients = {"host"}
    Foreground = FALSE
    MaxWorkers = 1
    Outcomes <- Passes
    MetastoreFails = FALSE
    MaxTime = 2
    MaxObjects = 2
    MaxLoops = 2
INVARIANTS StopWaits
