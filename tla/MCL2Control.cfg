SPECIFICATION Spec
CONSTANTS
    MaxAddr = 127
    Max16 = 40
    Max32 = 40
    Inf = 9
    MinInt <- MCMinInt
    Ram <- MCRam
    Wires <- MCWires
    MemCells = 4
    Mmio <- MCMmio
    Half = 64
    LoWords = {4, 12}
    HiWords = {0, 1}
    Images <- AllImages
    FaultSets <- AllFaults
    MaxSubmissions = 1
INVARIANTS DescriptorsIntact CursorInStream
PROPERTY RefinesIsa
