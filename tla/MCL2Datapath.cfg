SPECIFICATION Spec
CONSTANTS
    MaxAddr = 60
    Max16 = 10
    Max32 = 40
    Inf = 9
    MinInt <- MCMinInt
    Ram <- MCRam
    Wires <- MCWires
    Configs <- MCConfigs
    Candidates <- MCCandidates
    Images <- MCImages
    FaultSets <- MCFaults
INVARIANTS SharedBankSurvives RunningMinimum SameAsFunctional
PROPERTIES RefinesContract Returns
CHECK_DEADLOCK FALSE
