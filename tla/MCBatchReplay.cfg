SPECIFICATION ReplaySpec
CONSTANTS
    MaxAddr = 127
    Max16 = 40
    Max32 = 40
    Inf = 9
    MinInt <- MCMinInt
    Ram <- MCRam
    Wires <- MCWires
    Half = 64
    LoWords = {4, 12}
    HiWords = {0, 1}
    Images <- AllImages
    FaultSets <- SomeFaults
    MaxSubmissions = 2
INVARIANT RecordTellsPrefix
