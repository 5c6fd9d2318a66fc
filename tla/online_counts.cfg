SPECIFICATION Spec
CONSTANTS
    c1 = c1
    c2 = c2
    c3 = c3
    k1 = k1
    k2 = k2
    ip1 = ip1
    ip2 = ip2
    None = None
    Channels <- MCChannels
    Keys <- MCKeys
    IPs <- MCIPs
    KeyOf <- MCKeyOf
    IPOf <- MCIPOf
    RoomIds = {a, b}
    Rooms = {r1, r2, r3, r4}
    MaxMoves = 2
SYMMETRY RoomSymmetry
INVARIANT OnlineIsMembers
