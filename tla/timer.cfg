SPECIFICATION FairSpec
CONSTANTS
    Owners = {o1, o2}
    Delays = {0, 1, 2}
    None = None
    Num = 1
    MaxTDs = 2
    MaxSets = 2
    MaxTime = 3
INVARIANTS
    ScheduledIsHeld
    ArmedInTime
PROPERTIES
    KeepsDeadlines
    DueIsTaken
