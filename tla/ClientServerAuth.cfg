CONSTANTS
    u1 = u1
    u2 = u2
    k1 = k1
    badkey = badkey
    empty = empty
    Users <- MCUsers
    Keys <- MCKeys
    EmptyUser = empty
    BadKey = badkey
    ConfigMethods <- MCConfigMethods
    Banner = TRUE
    MaxAuthAttempts = 10
    MaxPackets = 10
    ServerDecisions = {"Accept", "Reject"}
    AppMethods <- MCAppMethods
    MaxAppCalls = 2
SPECIFICATION FairSpec
INVARIANT ClientAuthImpliesServer
PROPERTY CallAnswered
