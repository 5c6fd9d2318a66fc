SPECIFICATION FairSpec
CONSTANTS
    Consumers = {c1, c2}
    Rooms = {r1}
    Objects = {p1, p2}
    None = None
    Ready = Ready
    Batch = 2
    MaxMsgs = 4
INVARIANTS
    WakeupComes
PROPERTIES
    ImplementsRoomQueue
    LoopEnds
