CONSTANTS
    N = 3
    Graphs <- AllGraphs
    ParallelLimits <- OneOrTwo
SPECIFICATION Spec
INVARIANT DependenciesPassed
