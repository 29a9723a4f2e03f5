SPECIFICATION FairSpec
CONSTANTS
    MaxVecLen = 2
    Overhead = 3
    TagLen = 1
    GetInfoLen = 2
    SetTckLen = 3
    ShiftHdrLen = 2
    InfoLen = 1
    PeriodLen = 1
    Wrap = 65536
    PeriodNs = 0
    SupVecLens = {1, 2}
    Once = FALSE
    Requests <- ManyRequests
    MaxRequests = 2
    MaxClients = 2
    MaxErrors = 1
INVARIANTS TypeOK InBounds AnswersMatch EachBitOnce
PROPERTIES Answered ClientsHandled
\* clients may stay away, and the process may end
CHECK_DEADLOCK FALSE
