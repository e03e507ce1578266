CONSTANTS
    c1 = c1
    c2 = c2
    ChannelIds <- MCChannelIds
    WindowBits = 2
    OverflowChecks = TRUE
    Windows <- MCWindows
    Amounts <- MCAmounts
    ReasonCodes = {2}
    MaxPackets = 6
SPECIFICATION Spec
INVARIANT TypeOK
