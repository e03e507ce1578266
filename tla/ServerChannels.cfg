CONSTANTS
    c1 = c1
    c2 = c2
    c3 = c3
    ChannelIds <- MCChannelIds
    WindowBits = 2
    OverflowChecks = FALSE
    Windows <- MCWindows
    Amounts <- MCAmounts
    KnownRequests <- MCKnownRequests
    MaxPackets <- MCMaxPackets
SPECIFICATION Spec
SYMMETRY MCSymmetry
INVARIANTS
    TypeOK
    TableAgreesWithPeer
    OpenRepliesInOrder
