SPECIFICATION Spec
CONSTANTS
    XidMax = 2
    CvtTable <- PeriodTable
    WordSize = 4
    MemDepth = 1
    Period = 0
    Retry = 2
    Mtu = 100
    MaxVecLen = 64
    Lens = {32, 64}
    MaxShifts = 3
    MaxQueries = 3
    MaxStarts = 2
    Faults = {"lose", "late", "dup", "kill", "syserr"}
    MaxFaults = 3
INVARIANTS TypeOK AtMostOnceInOrder OwnTdo QueueInv
PROPERTY ImplementsOnce
\* the process may end and not be started again
CHECK_DEADLOCK FALSE
