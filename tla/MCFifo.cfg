SPECIFICATION Spec
CONSTANTS
    Depth = 7
    Kinds = {"tmem", "zynq"}
    Sizes = {4, 10}
    Gap = 7
    DropEvery = 2
    Retry = 5
    MaxCalls = 4
    MaxStarts = 3
INVARIANTS FrameWhole OwnReply FifoClean
PROPERTY XferReturns
\* there is no call to make after the last
CHECK_DEADLOCK FALSE
