CONSTANTS
    N = 3
    Graphs <- AllGraphs
    ParallelLimits <- NegativeToWide
SPECIFICATION FairSpec
INVARIANTS
    TypeOK
    PlanOrdered
    PlanTight
    RefusedIffCyclic
    DependencyGate
    InFlightBounded
    ReturnsQuiet
    EveryCheckAccounted
    ReportsWhatRan
    NoHiddenFailure
    EmittedOnce
    LinterAgrees
PROPERTIES
    ResultsFinal
    AbortIsFinal
    ImplementsContract
    Terminates
