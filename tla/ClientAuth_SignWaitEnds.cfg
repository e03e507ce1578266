CONSTANTS
    u1 = u1
    u2 = u2
    k1 = k1
    k2 = k2
    empty = empty
    Users <- MCUsers
    Keys <- MCKeys
    EmptyUser = empty
    MaxPackets <- MCMaxPackets
SPECIFICATION FairSpec
PROPERTY SignWaitEnds
