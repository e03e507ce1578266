------------------------- MODULE MC_ClientChannels -------------------------
EXTENDS ClientChannels, TLC

CONSTANTS c1, c2

MCChannelIds == {c1, c2}
MCWindows == {1, 2}
MCAmounts == {1, 2}
MCReasonCodes == {2, 5}

=============================================================================
