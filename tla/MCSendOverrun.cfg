SPECIFICATION Spec
\* the debug bridge with its own limit and the server's defaults
CONSTANTS
    BufSz = 2048
    MaxVecLen = 32768
    Targets = {}
    Bits = {8192}
    MaxCalls = 1
    Modes = {"bridge"}
    RegMaxVec = 1024
    MaxStarts = 1
INVARIANT TxFits
\* there is no call to make after the last
CHECK_DEADLOCK FALSE
