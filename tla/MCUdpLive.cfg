SPECIFICATION FairSpec
CONSTANTS
    XidMax = 3
    CvtTable <- PeriodTable
    WordSize = 4
    MemDepth = 1
    Period = 0
    Retry = 4
    Mtu = 100
    MaxVecLen = 64
    Lens = {32}
    MaxShifts = 3
    MaxQueries = 1
    MaxStarts = 1
    Faults = {"lose", "late", "dup", "swap"}
    MaxFaults = 4
INVARIANT OwnTdo
PROPERTY CallsReturn
\* clients need not call again
CHECK_DEADLOCK FALSE
