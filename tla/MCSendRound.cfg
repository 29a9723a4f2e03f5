SPECIFICATION Spec
CONSTANTS
    BufSz = 2048
    MaxVecLen = 32768
    Targets <- TmemTarget
    Bits = {8176}
    MaxCalls = 1
    Modes = {"stream"}
    RegMaxVec = 1024
    MaxStarts = 1
INVARIANT MessageFits
CHECK_DEADLOCK FALSE
