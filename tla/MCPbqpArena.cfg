\* Five blocks in a run.
CONSTANTS
    SizeMax = 255
    Base = 140
    Capacity = 104
    NodeBytes = 12
    EdgeBytes = 20
    Sizes = {0, 3, 11}
    Problems <- MCProblems
    Stores = {40}
    MaxBlocks = 5
SPECIFICATION ArenaSpec
INVARIANTS
    WordsIntact
    NothingLost
    SectionsFit
CHECK_DEADLOCK FALSE
