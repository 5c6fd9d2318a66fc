\* A session may really stop short: a reader that was closed by another
\* goroutine can wait for ever in Signal or Close, so a state without
\* successor is no error here.
SPECIFICATION FairSpec
CONSTANTS
    Num = 2
    SvrProto = 1
    MaxReq = 3
    MaxPush = 1
CHECK_DEADLOCK FALSE
INVARIANTS
    NoLostWakeup
    FinishComes
    PanicNeedsPipelining
PROPERTIES
    AnswersInOrder
    SessionEnds
    TakeoverReturns
