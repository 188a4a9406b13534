SPECIFICATION BareFairSpec
CONSTANTS
    Half = 4
    Addresses = {2, 3, 5, 6, 7}
    NoFailure = 99
    Devices = {"functional", "structural"}
    Buffer = 5
    Workspace = 2
    BatchResult = 3
    CallerWorkspace = 6
    CallerResult = 7
    BatchCounts = {1, 2, 3}
    WorkspaceCount = 2
    MaxRequests = 3
INVARIANT SingleBufferSafe
PROPERTY WaitReturns
