SPECIFICATION Spec
CONSTANTS
    XidMax = 3
    CvtTable <- PeriodTable
    WordSize = 16
    MemDepth = 0
    Period = 0
    Retry = 2
    Mtu = 100
    MaxVecLen = 64
    Lens = {1, 256}
    MaxShifts = 3
    MaxQueries = 2
    MaxStarts = 2
    Faults = {"lose", "late", "kill"}
    MaxFaults = 4
INVARIANTS AtMostOnceInOrder TrueParameters
\* the process may end and not be started again
CHECK_DEADLOCK FALSE
