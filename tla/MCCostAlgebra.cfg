SPECIFICATION CheckSpec
CONSTANTS
    Inf = 3
    MinInt <- MCMinInt
    MaxWord = 15
INVARIANTS InvalidNeverHidden NoSilentUnderflow MinDistributes HostSumMonotone
