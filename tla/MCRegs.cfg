SPECIFICATION Spec
CONSTANTS
    BufSz = 32
    MaxVecLen = 16
    Targets <- ManyTargets
    Bits = {1, 33, 64, 104, 144}
    MaxCalls = 2
    Modes = {"stream", "bridge", "sdes", "bb", "bbsdes"}
    RegMaxVec = 16
    MaxStarts = 2
INVARIANTS PairsInOrder BitsInOrder TdoInPlace
PROPERTY TransfersEnd
\* there is no call to make after the last
CHECK_DEADLOCK FALSE
