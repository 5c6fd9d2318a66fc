SPECIFICATION ResolverSpec
CONSTANTS
    a = a
    b = b
    t = t
    other = other
    Nodes = {a, b}
    Target = t
    NoName = NoName
    Paths <- FlatOrDotted
    Failing = {a}
    MaxLives = 2
    MaxEvents = 1
CHECK_DEADLOCK FALSE
INVARIANTS
    ResolverTypeOK
    StaleWasMissed
PROPERTIES
    RegisteredIsUsed
    EndedIsUnregistered
