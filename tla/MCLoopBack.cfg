SPECIFICATION Spec
CONSTANTS
    XidMax = 3
    CvtTable <- PeriodTable
    WordSize = 4
    Retry = 4
    Mtu = 100
    MaxVecLen = 16
    Lens = {32}
    MaxShifts = 4
    MaxQueries = 2
    MaxStarts = 1
    Faults = {"lose"}
    MaxFaults = 2
    Builtin <- BuiltinDrivers
    Objects <- LoadableDrivers
    Options <- CommandLines
    EmuDepth = 2
    DropEvery = 3
    Records = 2
INVARIANTS PlaybackInStep LoopTdo RequestedDriver
PROPERTIES LoopReturns LoopOnce
\* clients need not call again
CHECK_DEADLOCK FALSE
