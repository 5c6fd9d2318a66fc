SPECIFICATION FairSpec
CONSTANTS
    a = a
    b = b
    s1 = s1
    s2 = s2
    k1 = k1
    k2 = k2
    m1 = m1
    None = None
    Conns = {a, b}
    Servers = {s1, s2}
    Keys = {k1, k2}
    Mids = {m1}
    Server <- MCServer
    Tokens <- MCTokens
    Breakable = {a}
INVARIANTS
    EntriesAreOwned
    EntriesExpire
PROPERTIES
    KeyFound
