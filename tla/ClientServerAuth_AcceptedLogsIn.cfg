CONSTANTS
    u1 = u1
    u2 = u2
    k1 = k1
    badkey = badkey
    empty = empty
    Users <- MCUsers
    Keys <- MCKeys
    EmptyUser = empty
    BadKey = badkey
    ConfigMethods <- MCConfigMethods
    Banner = FALSE
    MaxAuthAttempts = 10
    MaxPackets = 8
    ServerDecisions = {"Accept"}
    AppMethods <- MCPasswordOnly
    MaxAppCalls = 1
SPECIFICATION FairSpec
PROPERTY AcceptedLogsIn
