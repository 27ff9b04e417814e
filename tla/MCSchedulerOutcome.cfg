SPECIFICATION Spec
CONSTANTS
    Names = {"a", "b"}
    Suites = {"a", "b"}
    Crons = {1, 2}
    Preset <- TwoJobs
    Requests <- NoRequests
    Clients = {"main"}
    Foreground = TRUE
    MaxWorkers = 1
    Outcomes <- TwoEnds
    MetastoreFails = FALSE
    MaxTime = 3
    MaxObjects = 2
    MaxLoops = 1
INVARIANTS RowHoldsLastOutcome
