--------------------------- MODULE MC_ServerAuth ---------------------------
(* Small instance of ServerAuth: two user names besides the empty one, two *)
(* parseable keys, every method offered, a banner, five packets.           *)
EXTENDS ServerAuth, TLC

CONSTANTS u1, u2, empty, k1, k2, badkey

MCUsers == {u1, u2}
MCKeys == {k1, k2}
MCConfigMethods == AllMethods
MCMaxPackets == 5
MCMaxAuthAttempts == 2

MCSymmetry == Permutations(MCUsers) \cup Permutations(MCKeys)
=============================================================================
