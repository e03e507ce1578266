----------------------------- MODULE ServerDriver -----------------------------
(***************************************************************************)
(* The server's connection task, src/src/server/mod.rs: the loop of        *)
(* run_stream (a select! over the packet read, the idle timeout and the   *)
(* application's outbound queue, then a flush) and reply's handling of    *)
(* the kex slot, the initial key exchange and rekeys.  What the encrypted *)
(* dispatch does with a packet is ServerAuth's and ServerChannels'; here  *)
(* a packet is only its kind.                                              *)
(*                                                                         *)
(* The key exchange subsystem (kex.rs: KexInit::server_parse,              *)
(* KexDh::parse), CommonSession::encrypted and the rekey that flush       *)
(* starts when Config::limits are reached (session.rs) are outside src/   *)
(* and modelled from spec 2.B and 4.E: each kex step takes the packet it  *)
(* expects or fails with Error::Kex, completion hands enc.exchange back,  *)
(* and a rekey started by the server moves the exchange into a KexInit    *)
(* whose KEXINIT is written at once.                                       *)
(*                                                                         *)
(* The peer is an RFC 4253 conforming client: after its KEXINIT it sends  *)
(* only kex messages and IGNORE until its NEWKEYS.  The two directions of *)
(* the TCP stream are FIFO queues.  Time is a count of ticks.             *)
(***************************************************************************)
EXTENDS Naturals, Sequences

CONSTANTS
    Delay,            \* config.connection_timeout in ticks, or NoTimeout
    NoTimeout,        \* connection_timeout = None: the timeout never fires
    MaxServerRekeys,  \* rekeys the server's flush may start (limits reached)
    MaxClientRekeys,  \* key exchanges the client starts, the first included
    MaxClientData,    \* non-kex packets the client sends
    MaxIgnores,       \* IGNORE packets the client sends
    MaxAppMsgs        \* messages the application puts on the outbound queue

ASSUME DriverAssumption ==
    /\ Delay \in Nat \cup {NoTimeout}
    /\ NoTimeout \notin Nat
    /\ {MaxServerRekeys, MaxClientRekeys, MaxClientData, MaxIgnores, MaxAppMsgs}
           \subseteq Nat

(* Packet kinds.  DATA is any packet for server_read_encrypted (service, *)
(* auth and channel traffic); KEXDH_REPLY stands for the KEXDH_REPLY and  *)
(* NEWKEYS that KexDh::parse writes together.                             *)
Packets == {"KEXINIT", "KEXDH_INIT", "KEXDH_REPLY", "NEWKEYS", "DATA",
            "IGNORE", "DISCONNECT"}

KexSlots == {"None", "KexInit", "KexDh", "NewKeys"}

(* The timer never reaches a timeout that is not configured; idle, which *)
(* only the properties read, saturates one tick past the delay.           *)
TimerCap == IF Delay = NoTimeout THEN 0 ELSE Delay
IdleCap == TimerCap + 1

(* What server_read_encrypted writes for a packet it dispatches: nothing, *)
(* or a reply (a channel confirmation, data, an auth answer).             *)
DispatchWrites == {<<>>, <<"DATA">>}

VARIABLES
    kex,        \* session.common.kex
    exchange,   \* enc.exchange is Some (meaningful once encrypted)
    encrypted,  \* session.common.encrypted is Some
    status,     \* "running", or how run_stream left its loop
    timer,      \* ticks since the current select! started
    idle,       \* ticks since the last packet read from the client
    toServer,   \* packets the client has sent and the server not yet read
    toClient,   \* packets the server has flushed and the client not yet read
    appMsgs,    \* messages left for the application to send
    held,       \* application data held back while a kex is pending
    srekeys,    \* rekeys the server has started
    pk,         \* the client's kex phase: "Idle", "SentKexinit", "SentDh"
    cEncrypted, \* the client has sent its first NEWKEYS
    csent       \* what the client has sent: [rekeys, data, ignores]

vars == <<kex, exchange, encrypted, status, timer, idle, toServer, toClient,
          appMsgs, held, srekeys, pk, cEncrypted, csent>>

TypeOK ==
    /\ kex \in KexSlots
    /\ exchange \in BOOLEAN
    /\ encrypted \in BOOLEAN
    /\ status \in {"running", "disconnected", "timedout", "error"}
    /\ timer \in 0..TimerCap
    /\ idle \in 0..IdleCap
    /\ toServer \in Seq(Packets)
    /\ toClient \in Seq(Packets)
    /\ appMsgs \in 0..MaxAppMsgs
    /\ held \in 0..MaxAppMsgs
    /\ srekeys \in 0..MaxServerRekeys
    /\ pk \in {"Idle", "SentKexinit", "SentDh"}
    /\ cEncrypted \in BOOLEAN
    /\ csent \in [rekeys : 0..MaxClientRekeys, data : 0..MaxClientData,
                  ignores : 0..MaxIgnores]

(* After read_ssh_id and the first flush: the server's KEXINIT is on the *)
(* wire and kex holds the KexInit that sent it; nothing is encrypted.     *)
Init ==
    /\ kex = "KexInit"
    /\ exchange = FALSE
    /\ encrypted = FALSE
    /\ status = "running"
    /\ timer = 0
    /\ idle = 0
    /\ toServer = <<>>
    /\ toClient = <<"KEXINIT">>
    /\ appMsgs = MaxAppMsgs
    /\ held = 0
    /\ srekeys = 0
    /\ pk = "Idle"
    /\ cEncrypted = FALSE
    /\ csent = [rekeys |-> 0, data |-> 0, ignores |-> 0]

-----------------------------------------------------------------------------
(* reply(session, handler, buf) for a packet of kind p, as the session   *)
(* it returns: the kex slot, the exchange, the encrypted flag, the       *)
(* packets written, or err for an Err.  w is what server_read_encrypted  *)
(* writes when the packet reaches it.                                     *)
Result(k, x, e, wr) == [kex |-> k, exchange |-> x, encrypted |-> e, writes |-> wr,
                        err |-> FALSE]
Failed == [kex |-> kex, exchange |-> exchange, encrypted |-> encrypted,
           writes |-> <<>>, err |-> TRUE]
Dispatched(p, w) == Result("None", exchange, encrypted, IF p = "DATA" THEN w ELSE <<>>)

(* Mutant: NEWKEYS that leaves the slot in NewKeys. *)
NewKeysStepStays(p) ==
    IF p = "NEWKEYS" THEN Result("NewKeys", TRUE, TRUE, <<>>) ELSE Failed

(* Mutant: a peer's KEXINIT with no kex pending is always dropped. *)
PeerRekeyDropped == Result("None", exchange, encrypted, <<>>)

(* Some(Kex::NewKeys(newkeys)): anything but NEWKEYS is Error::Kex;     *)
(* NEWKEYS runs common.encrypted(..., newkeys), which installs the first  *)
(* keys or the new ones and hands the exchange back either way.          *)
NewKeysStep(p) ==
    IF p = "NEWKEYS" THEN Result("None", TRUE, TRUE, <<>>) ELSE Failed

(* A KEXINIT with no kex pending: on an encrypted session whose exchange *)
(* is at hand, enc.exchange.take(), received_rekey and server_parse      *)
(* write our KEXINIT; otherwise the packet is dropped.                   *)
PeerRekey ==
    IF encrypted /\ exchange THEN Result("KexDh", FALSE, encrypted, <<"KEXINIT">>)
    ELSE Result("None", exchange, encrypted, <<>>)

(* Some(Kex::KexInit(kexinit)): server_parse takes the peer's KEXINIT   *)
(* (ours is on the wire), and on a session not yet encrypted it fails on *)
(* anything else.  On an encrypted session whose peer has not started,   *)
(* the KexInit taken out of the slot is dropped and the packet falls     *)
(* through to the rest of reply.                                         *)
KexInitStep(p, w) ==
    IF p = "KEXINIT" THEN Result("KexDh", exchange, encrypted, <<>>)
    ELSE IF ~encrypted THEN Failed
    ELSE Dispatched(p, w)

(* Some(Kex::KexDh(kexdh)): KexDh::parse takes KEXDH_INIT and writes     *)
(* KEXDH_REPLY and NEWKEYS; anything else fails.                          *)
KexDhStep(p) ==
    IF p = "KEXDH_INIT" THEN Result("NewKeys", exchange, encrypted, <<"KEXDH_REPLY">>)
    ELSE Failed

(* None: a KEXINIT starts a peer's rekey; anything else goes to          *)
(* server_read_encrypted.                                                 *)
NoKexStep(p, w) == IF p = "KEXINIT" THEN PeerRekey ELSE Dispatched(p, w)

Reply(p, w) ==
    CASE kex = "KexInit" -> KexInitStep(p, w)
      [] kex = "KexDh"   -> KexDhStep(p)
      [] kex = "NewKeys" -> NewKeysStep(p)
      [] kex = "None"    -> NoKexStep(p, w)

CanRekey(r) == r.encrypted /\ r.kex = "None" /\ r.exchange /\ srekeys < MaxServerRekeys

Flush(r, h, rekey) ==
    LET release == r.kex = "None" /\ r.encrypted
    IN  /\ rekey => CanRekey(r)
        /\ kex' = IF rekey THEN "KexInit" ELSE r.kex
        /\ exchange' = IF rekey THEN FALSE ELSE r.exchange
        /\ encrypted' = r.encrypted
        /\ held' = IF release THEN 0 ELSE h
        /\ toClient' = toClient \o r.writes
                         \o [i \in 1..(IF release THEN h ELSE 0) |-> "DATA"]
                         \o (IF rekey THEN <<"KEXINIT">> ELSE <<>>)
        /\ srekeys' = IF rekey THEN srekeys + 1 ELSE srekeys
        /\ timer' = 0

-----------------------------------------------------------------------------
(* The three arms of the select!.                                         *)

(* cipher::read completes with the client's next packet p.  DISCONNECT   *)
(* leaves the loop; opcodes up to 4 (IGNORE) go back to the select!      *)
(* without reply or flush; anything else goes through reply, whose Err   *)
(* the ? returns from run_stream, and then the flush.                    *)
ServerRead ==
    /\ status = "running"
    /\ toServer # <<>>
    /\ toServer' = Tail(toServer)
    /\ idle' = 0
    /\ LET p == Head(toServer) IN
       \/ /\ p = "DISCONNECT"
          /\ status' = "disconnected"
          /\ UNCHANGED <<kex, exchange, encrypted, toClient, held, srekeys, timer>>
       \/ /\ p = "IGNORE"
          /\ timer' = 0
          /\ UNCHANGED <<kex, exchange, encrypted, status, toClient, held, srekeys>>
       \/ /\ p \notin {"DISCONNECT", "IGNORE"}
          /\ Reply(p, <<>>).err
          /\ status' = "error"
          /\ UNCHANGED <<kex, exchange, encrypted, toClient, held, srekeys, timer>>
       \/ /\ p \notin {"DISCONNECT", "IGNORE"}
          /\ ~Reply(p, <<>>).err
          /\ \E w \in DispatchWrites, rekey \in BOOLEAN : Flush(Reply(p, w), held, rekey)
          /\ UNCHANGED status
    /\ UNCHANGED <<appMsgs, pk, cEncrypted, csent>>

(* session.receiver.recv() yields a ChannelMsg: session.data and its     *)
(* siblings write it, or hold it while a kex is pending (spec 2.B); then *)
(* the flush.                                                             *)
AppMessage ==
    /\ status = "running"
    /\ appMsgs > 0
    /\ appMsgs' = appMsgs - 1
    /\ LET now == encrypted /\ kex = "None"
           r == Result(kex, exchange, encrypted, IF now THEN <<"DATA">> ELSE <<>>)
       IN  \E rekey \in BOOLEAN : Flush(r, IF now THEN held ELSE held + 1, rekey)
    /\ UNCHANGED <<status, idle, toServer, pk, cEncrypted, csent>>

(* Mutant: the timeout fires one tick early. *)
TimeoutEarly ==
    /\ status = "running"
    /\ Delay # NoTimeout
    /\ timer + 1 >= Delay
    /\ status' = "timedout"
    /\ UNCHANGED <<kex, exchange, encrypted, timer, idle, toServer, toClient,
                   appMsgs, held, srekeys, pk, cEncrypted, csent>>

(* timeout(delay) completes: run_stream leaves its loop. *)
Timeout ==
    /\ status = "running"
    /\ Delay # NoTimeout
    /\ timer = Delay
    /\ status' = "timedout"
    /\ UNCHANGED <<kex, exchange, encrypted, timer, idle, toServer, toClient,
                   appMsgs, held, srekeys, pk, cEncrypted, csent>>

(* Time passes while the select! waits. *)
Tick ==
    /\ status = "running"
    /\ Delay # NoTimeout
    /\ timer < Delay
    /\ timer' = timer + 1
    /\ idle' = IF idle < IdleCap THEN idle + 1 ELSE idle
    /\ UNCHANGED <<kex, exchange, encrypted, status, toServer, toClient, appMsgs,
                   held, srekeys, pk, cEncrypted, csent>>

-----------------------------------------------------------------------------
(* The client (RFC 4253 7).                                               *)

(* A key exchange starts: the client's KEXINIT. *)
ClientStartKex ==
    /\ pk = "Idle"
    /\ csent.rekeys < MaxClientRekeys
    /\ toServer' = Append(toServer, "KEXINIT")
    /\ pk' = "SentKexinit"
    /\ csent' = [csent EXCEPT !.rekeys = @ + 1]
    /\ UNCHANGED <<kex, exchange, encrypted, status, timer, idle, toClient, appMsgs,
                   held, srekeys, cEncrypted>>

(* Service, auth or channel traffic: only with keys and outside a kex. *)
ClientData ==
    /\ cEncrypted
    /\ pk = "Idle"
    /\ csent.data < MaxClientData
    /\ toServer' = Append(toServer, "DATA")
    /\ csent' = [csent EXCEPT !.data = @ + 1]
    /\ UNCHANGED <<kex, exchange, encrypted, status, timer, idle, toClient, appMsgs,
                   held, srekeys, pk, cEncrypted>>

(* IGNORE (a keepalive) may be sent at any time, DISCONNECT ends it. *)
ClientIgnore ==
    /\ csent.ignores < MaxIgnores
    /\ toServer' = Append(toServer, "IGNORE")
    /\ csent' = [csent EXCEPT !.ignores = @ + 1]
    /\ UNCHANGED <<kex, exchange, encrypted, status, timer, idle, toClient, appMsgs,
                   held, srekeys, pk, cEncrypted>>

ClientDisconnect ==
    /\ csent.ignores < MaxIgnores
    /\ toServer' = Append(toServer, "DISCONNECT")
    /\ csent' = [csent EXCEPT !.ignores = MaxIgnores]
    /\ UNCHANGED <<kex, exchange, encrypted, status, timer, idle, toClient, appMsgs,
                   held, srekeys, pk, cEncrypted>>

(* The client reads the server's next packet.  A KEXINIT is answered     *)
(* with the client's own (unless sent) and KEXDH_INIT; KEXDH_REPLY with  *)
(* NEWKEYS, which ends the exchange; anything else is not kex business.  *)
ClientRead ==
    /\ toClient # <<>>
    /\ toClient' = Tail(toClient)
    /\ LET p == Head(toClient) IN
       \/ /\ p = "KEXINIT" /\ pk = "Idle"
          /\ toServer' = toServer \o <<"KEXINIT", "KEXDH_INIT">>
          /\ pk' = "SentDh"
          /\ UNCHANGED cEncrypted
       \/ /\ p = "KEXINIT" /\ pk = "SentKexinit"
          /\ toServer' = Append(toServer, "KEXDH_INIT")
          /\ pk' = "SentDh"
          /\ UNCHANGED cEncrypted
       \/ /\ p = "KEXDH_REPLY" /\ pk = "SentDh"
          /\ toServer' = Append(toServer, "NEWKEYS")
          /\ pk' = "Idle"
          /\ cEncrypted' = TRUE
       \/ /\ ~(p = "KEXINIT" /\ pk \in {"Idle", "SentKexinit"})
          /\ ~(p = "KEXDH_REPLY" /\ pk = "SentDh")
          /\ UNCHANGED <<toServer, pk, cEncrypted>>
    /\ UNCHANGED <<kex, exchange, encrypted, status, timer, idle, appMsgs, held, srekeys,
                   csent>>

-----------------------------------------------------------------------------
(* run_stream has left its loop. *)
Terminated ==
    /\ status # "running"
    /\ UNCHANGED vars

Next ==
    \/ ServerRead
    \/ AppMessage
    \/ Timeout
    \/ Tick
    \/ ClientStartKex
    \/ ClientData
    \/ ClientIgnore
    \/ ClientDisconnect
    \/ ClientRead
    \/ Terminated

Spec == Init /\ [][Next]_vars

(* The connection task is scheduled whenever an arm of its select! is    *)
(* ready (tokio picks among ready arms at random), the client answers     *)
(* the kex messages it reads, and time passes.                            *)
FairSpec ==
    /\ Spec
    /\ WF_vars(ServerRead) /\ WF_vars(ClientRead)
    /\ WF_vars(Tick) /\ WF_vars(Timeout)

-----------------------------------------------------------------------------
(* Properties.                                                             *)

(* A conforming client never drives run_stream into Error::Kex: every    *)
(* packet it sends reaches a kex slot that accepts it, however its        *)
(* KEXINIT, KEXDH_INIT and NEWKEYS interleave with the server's rekeys,   *)
(* IGNOREs and replies.                                                    *)
NoKexError == status # "error"

(* A key exchange the client is in completes (it sends NEWKEYS) unless   *)
(* the connection ends: the server's reply answers each of its KEXINIT    *)
(* and KEXDH_INIT (spec section 7 property 5).                           *)
RekeyCompletes == (pk # "Idle") ~> (pk = "Idle" \/ status # "running")

(* The idle timeout never ends a connection whose client has sent a      *)
(* packet within the last Delay ticks: each select! iteration arms a new *)
(* timeout(delay), and reading a packet, IGNORE included, starts one.    *)
NoEarlyTimeout == status = "timedout" => idle >= Delay

=============================================================================
