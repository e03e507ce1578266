------------------------ MODULE MC_ClientServerAuth ------------------------
EXTENDS ClientServerAuth, TLC

CONSTANTS u1, u2, k1, badkey, empty

MCUsers == {u1, u2}
MCKeys == {k1}
MCConfigMethods == {"password", "publickey"}
MCAppMethods ==
    {[kind |-> "Password"], [kind |-> "PublicKey", key |-> k1],
     [kind |-> "FuturePublicKey", key |-> k1]}
MCPasswordOnly == {[kind |-> "Password"]}

=============================================================================
