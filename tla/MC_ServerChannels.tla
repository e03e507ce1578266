------------------------- MODULE MC_ServerChannels -------------------------
(* ServerChannels on a small instance: three channel numbers (the peer's  *)
(* and the server's ids share the u32 space), a 2-bit window, one known   *)
(* request name.                                                          *)
EXTENDS ServerChannels, TLC

CONSTANTS c1, c2, c3

MCChannelIds == {c1, c2, c3}
MCWindows == {2}
MCAmounts == {1, 2}
MCKnownRequests == {"shell"}
MCMaxPackets == 4
MCSymmetry == Permutations(MCChannelIds)
=============================================================================
