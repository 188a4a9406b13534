SPECIFICATION Spec
CONSTANTS
    MaxAddr = 255
    Max16 = 40
    Max32 = 200
    Inf = 9
    MinInt <- MCMinInt
    Ram <- MCRam
    Wires <- MCWires
    Kernels = {"baremetal", "hosted"}
    Caller <- MCCaller
    Images <- MCImages
    Edits = {1, 5, 8}
    EditCosts = {2, 9}
    Calls <- MCCalls
    FaultSets <- MCFaults
    MaxDomain = 2
    MaxJobs = 4
    MaxPackedViews = 3
    ScratchBase = 27
    PackBase = 33
    GuestFirst = 40
    GuestLimits = {60, 130}
    MaxCalls = 2
INVARIANTS OffloadExact FailureContained
CHECK_DEADLOCK FALSE
