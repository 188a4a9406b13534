SPECIFICATION StreamSpec
CONSTANTS
    MaxAddr = 19
    Max16 = 3
    Max32 = 32
    Streams <- MCStreams
    Capacities = {8, 20, 40}
INVARIANTS AllOrNothing StreamReadsBack Canonical NoWrap
CHECK_DEADLOCK FALSE
