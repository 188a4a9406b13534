CONSTANTS
    Inf = 64
    MinInt <- MCMinInt
    NodeCapacity = 5
    EdgeCapacity = 10
    DomainCapacity = 3
    SizeMax = 9999
    Base = 100
    Capacity = 3000
    NodeBytes = 8
    EdgeBytes = 8
    Inputs <- MCInputs
    Configs <- MCConfigs
    Starts = {0, 850, 940, 1000, 1850, 1930, 2060, 2900, 2980}
    JobBytes = 16
    ResultBytes = 8
    FaultBudget = 1
SPECIFICATION FairSpec
INVARIANTS
    BranchExact
    StatisticsComplete
    WorkspaceReturned
PROPERTIES
    SolveReturns
CHECK_DEADLOCK FALSE
