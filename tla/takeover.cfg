\* As in session.cfg: the system may stop short.
SPECIFICATION FairSpec
CONSTANTS
    Num = 2
    SvrProto = 2
    MaxReq = 1
    MaxPush = 2
CHECK_DEADLOCK FALSE
PROPERTY OldChannelCloses
