SPECIFICATION Spec
CONSTANTS
    None = None
    Cells <- MCCells
    Junk <- MCJunk
    Scripts <- MCScripts
    Size = 4
    WSize = 4
    H = 2
    Short = 2
    Long = 4
    Num = 2
    SvrProto = 2
    MaxPack = 6
    MaxRead = 1
    Status = 6
    Accept = 3
CHECK_DEADLOCK FALSE
INVARIANTS
    TypeOK
    WindowIsStream
    ReadsWhole
    WellBehavedIsServed
    FramesWhole
    EchoIntact
PROPERTIES
    ReturnedIsUntouched
