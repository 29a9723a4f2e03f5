SPECIFICATION Spec
CONSTANTS
    XidMax = 3
    CvtTable <- PeriodTable
    WordSize = 4
    MemDepth = 1
    Period = 3
    Retry = 2
    Mtu = 100
    MaxVecLen = 64
    Lens = {32}
    MaxShifts = 1
    MaxQueries = 2
    MaxStarts = 1
    Faults = {"late"}
    MaxFaults = 2
INVARIANT TrueParameters
CHECK_DEADLOCK FALSE
