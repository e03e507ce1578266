--------------------------- MODULE MC_ClientAuth ---------------------------
EXTENDS ClientAuth, TLC

CONSTANTS u1, u2, k1, k2, empty

MCUsers == {u1, u2}
MCKeys == {k1, k2}
MCMaxPackets == 6

=============================================================================
