CONSTANTS
    c1 = c1
    c2 = c2
    k1 = k1
    k2 = k2
    r = r
    None = None
    Conns = {c1, c2}
    Keys = {k1, k2}
    Rooms = {r}
    Key <- TheKeys
    Buckets = 1
    Bucket <- OneBucket
    Requests <- FiveRequests
    Routines = 2
    RoutineSize = 1
    SvrProto = 1
    MaxCalls = 3
    MaxMoves = 1
SPECIFICATION Spec
CHECK_DEADLOCK FALSE
INVARIANTS TypeOK EveryoneOnce PushMsgAnswers
PROPERTY CallsReturn
