SPECIFICATION Spec
CONSTANTS
    Half = 4
    Addresses = {2, 3, 4, 5, 6}
    NoFailure = 99
    Devices = {"functional", "structural"}
    First = 2
    Limit = 6
    Counts = {1, 2}
    MaxSubmissions = 4
INVARIANTS RunsWhatIsPending WaitTellsTruth
