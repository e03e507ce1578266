CONSTANTS
    c1 = c1
    c2 = c2
    ChannelIds <- MCChannelIds
    WindowBits = 2
    OverflowChecks = FALSE
    Windows <- MCWindows
    Amounts <- MCAmounts
    ReasonCodes <- MCReasonCodes
    MaxPackets = 6
SPECIFICATION Spec
INVARIANT NoPeerPanic
