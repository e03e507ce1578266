CONSTANTS
    u1 = u1
    u2 = u2
    empty = empty
    k1 = k1
    k2 = k2
    badkey = badkey
    Users <- MCUsers
    EmptyUser = empty
    Keys <- MCKeys
    BadKey = badkey
    ConfigMethods <- MCConfigMethods
    Banner = TRUE
    MaxPackets <- MCMaxPackets
    MaxAuthAttempts <- MCMaxAuthAttempts
SPECIFICATION Spec
SYMMETRY MCSymmetry
INVARIANT
    KeyApproved
