SPECIFICATION Spec
CONSTANTS
    Names = {"a", "b", "c"}
    Suites = {"a", "b", "c"}
    Crons = {1, 2}
    Preset <- ThreeJobs
    Requests <- NoRequests
    Clients = {"main"}
    Foreground = TRUE
    MaxWorkers = 2
    Outcomes <- TwoEnds
    MetastoreFails = TRUE
    MaxTime = 3
    MaxObjects = 3
    MaxLoops = 1
INVARIANTS TypeOK NoStuckJob OncePerSlot SuiteNoOverlap WorkerCeiling StopWaits
