\* Five nodes, six edge slots, domains to 3.
CONSTANTS
    Inf = 34
    MinInt <- MCMinInt
    NodeCapacity = 5
    EdgeCapacity = 6
    DomainCapacity = 3
    Scripts <- MCScripts
    Limits = {0, 9}
    MaxSolves = 2
    FaultBudget = 1
SPECIFICATION Spec
INVARIANTS
    ProblemSound
    OptimumPreserved
    SolutionTrue
    SpareSlotSuffices
    Headroom
PROPERTIES
    DescentImproves
CHECK_DEADLOCK FALSE
