---------------------------- MODULE ClientChannels ----------------------------
(***************************************************************************)
(* The client's channel layer once the connection is Authenticated:        *)
(* Session::client_read_authenticated in src/src/client/encrypted.rs.     *)
(* State is enc.channels (local id to Channel) as the client reads and    *)
(* writes it.  Channels are created by the application (channel_open_* in *)
(* session.rs, outside src/: a fresh local id, unconfirmed, no recipient). *)
(*                                                                         *)
(* One step is one packet of an arbitrary server, handler callback         *)
(* included, or one channel open by the application.  The recipient       *)
(* window is a WindowBits-bit unsigned integer (32 in the code); whether  *)
(* `+=` on it panics or wraps depends on the build (OverflowChecks).  The *)
(* local window accounting of CHANNEL_DATA (adjust_window_size,           *)
(* session.rs) is not modelled.                                            *)
(***************************************************************************)
EXTENDS Naturals, Sequences, Functions

CONSTANTS
    ChannelIds,      \* u32 channel numbers used by either side (model bound)
    WindowBits,      \* width of Channel::recipient_window_size
    OverflowChecks,  \* the build panics on integer overflow (debug profile)
    Windows,         \* windows the server announces in confirmations
    Amounts,         \* amounts the server sends in CHANNEL_WINDOW_ADJUST
    ReasonCodes,     \* reason codes the server may put in CHANNEL_OPEN_FAILURE
    MaxPackets       \* bound on packets and application opens (model bound)

WindowMax == 2^WindowBits

ASSUME ClientChannelsAssumption ==
    /\ WindowBits \in Nat \ {0}
    /\ WindowMax \in Nat \ {0}   \* follows from the width; the provers lack 2^n
    /\ OverflowChecks \in BOOLEAN
    /\ Windows \subseteq 0..(WindowMax - 1)
    /\ Amounts \subseteq 0..(WindowMax - 1)
    /\ ReasonCodes \subseteq Nat
    /\ MaxPackets \in Nat

(* The codes ChannelOpenFailure::from_u32 knows (RFC 4254 5.1). *)
KnownReasons == 1..4

(* The CHANNEL_REQUEST names client_read_authenticated dispatches on. *)
ClientRequests == {"forwarded_tcpip", "xon-xoff", "exit-status", "exit-signal"}

NoChannel == "none"

(* Channel, the fields the layer reads or writes. *)
ChannelRecs ==
    [recipient : ChannelIds \cup {NoChannel}, rwin : 0..(WindowMax - 1),
     confirmed : BOOLEAN]

Callbacks == {"channel_open_confirmation", "channel_close", "channel_eof",
              "channel_open_failure", "data", "extended_data", "window_adjusted",
              "channel_open_forwarded_tcpip", "xon_xoff", "exit_status",
              "exit_signal"}
NoCall == [cb |-> "none", chan |-> NoChannel]
RequestCallback == [n \in ClientRequests |->
                       CASE n = "forwarded_tcpip" -> "channel_open_forwarded_tcpip"
                         [] n = "xon-xoff" -> "xon_xoff"
                         [] n = "exit-status" -> "exit_status"
                         [] n = "exit-signal" -> "exit_signal"]

VARIABLES
    channels,  \* enc.channels
    status,    \* "running", or how the connection task ended
    npkts,     \* packets and opens so far
    lastCall   \* history: the last handler callback and its channel

vars == <<channels, status, npkts, lastCall>>

TypeOK ==
    /\ DOMAIN channels \subseteq ChannelIds
    /\ \A c \in DOMAIN channels : channels[c] \in ChannelRecs
    /\ status \in {"running", "closed", "panicked"}
    /\ npkts \in Nat
    /\ lastCall \in {NoCall} \cup [cb : Callbacks, chan : ChannelIds]

(* The client has just become Authenticated: no channel yet. *)
Init ==
    /\ channels = [c \in {} |-> c]
    /\ status = "running"
    /\ npkts = 0
    /\ lastCall = NoCall

-----------------------------------------------------------------------------
(* The function f with x mapped to v, added or replaced. *)
MapPut(f, x, v) == [y \in DOMAIN f \cup {x} |-> IF y = x THEN v ELSE f[y]]

(* f without x. *)
MapRemove(f, x) == Restrict(f, DOMAIN f \ {x})

(* The application opens a channel (session.rs channel_open_session and    *)
(* its siblings): a local id not in use, unconfirmed, with no recipient.   *)
AppChannelOpen(id) ==
    /\ id \notin DOMAIN channels
    /\ channels' = MapPut(channels, id, [recipient |-> NoChannel, rwin |-> 0,
                                         confirmed |-> FALSE])
    /\ UNCHANGED <<status, lastCall>>

-----------------------------------------------------------------------------
(* client_read_authenticated, one action per message number.               *)

(* CHANNEL_OPEN_CONFIRMATION(id_send, id_recv, window): a channel in the   *)
(* table gets its recipient, window and packet size and is confirmed,     *)
(* then channel_open_confirmation is called; an id not in the table is    *)
(* Error::Inconsistent.  The table entry is not required to be pending.    *)
ChannelOpenConfirmation(id, recv, win) ==
    IF id \in DOMAIN channels
    THEN /\ channels' = [channels EXCEPT ![id] = [recipient |-> recv, rwin |-> win,
                                                  confirmed |-> TRUE]]
         /\ lastCall' = [cb |-> "channel_open_confirmation", chan |-> id]
         /\ UNCHANGED status
    ELSE /\ status' = "closed"
         /\ UNCHANGED <<channels, lastCall>>

(* CHANNEL_CLOSE: the channel is removed (if present), then channel_close. *)
ChannelClose(id) ==
    /\ channels' = MapRemove(channels, id)
    /\ lastCall' = [cb |-> "channel_close", chan |-> id]
    /\ UNCHANGED status

(* CHANNEL_EOF: channel_eof; the table is not consulted. *)
ChannelEof(id) ==
    /\ lastCall' = [cb |-> "channel_eof", chan |-> id]
    /\ UNCHANGED <<channels, status>>

(* CHANNEL_OPEN_FAILURE(id, reason, ...): ChannelOpenFailure::from_u32 on  *)
(* the reason code is unwrapped, which panics the task on a code it does  *)
(* not know; otherwise the channel is removed and channel_open_failure    *)
(* called.                                                                 *)
ChannelOpenFailure(id, reason) ==
    IF reason \in KnownReasons
    THEN /\ channels' = MapRemove(channels, id)
         /\ lastCall' = [cb |-> "channel_open_failure", chan |-> id]
         /\ UNCHANGED status
    ELSE /\ status' = "panicked"
         /\ UNCHANGED <<channels, lastCall>>

(* CHANNEL_DATA / CHANNEL_EXTENDED_DATA: adjust_window_size (session.rs),  *)
(* then data or extended_data.  The table is not consulted.                *)
ChannelData(id, ext) ==
    /\ lastCall' = [cb |-> IF ext THEN "extended_data" ELSE "data", chan |-> id]
    /\ UNCHANGED <<channels, status>>

(* CHANNEL_REQUEST: the four names the client knows go to their handler    *)
(* method; any other is logged and ignored.                                *)
ChannelRequest(id, name) ==
    /\ lastCall' = IF name \in ClientRequests
                   THEN [cb |-> RequestCallback[name], chan |-> id]
                   ELSE lastCall
    /\ UNCHANGED <<channels, status>>

(* Mutant of WindowAdjust: the overflow test is off by one and the sum is *)
(* stored unreduced.                                                       *)
WindowAdjustOffByOne(id, amount) ==
    IF id \in DOMAIN channels
    THEN LET sum == channels[id].rwin + amount IN
         IF OverflowChecks /\ sum > WindowMax
         THEN /\ status' = "panicked"
              /\ UNCHANGED <<channels, lastCall>>
         ELSE /\ channels' = [channels EXCEPT ![id].rwin = sum]
              /\ lastCall' = [cb |-> "window_adjusted", chan |-> id]
              /\ UNCHANGED status
    ELSE /\ status' = "closed"
         /\ UNCHANGED <<channels, lastCall>>

(* CHANNEL_WINDOW_ADJUST(id, amount): recipient_window_size += amount on a *)
(* channel in the table (a u32: it panics with overflow checks, wraps      *)
(* without), then window_adjusted with the new value; an unknown channel  *)
(* is Error::WrongChannel.                                                 *)
WindowAdjust(id, amount) ==
    IF id \in DOMAIN channels
    THEN LET sum == channels[id].rwin + amount IN
         IF OverflowChecks /\ sum >= WindowMax
         THEN /\ status' = "panicked"
              /\ UNCHANGED <<channels, lastCall>>
         ELSE /\ channels' = [channels EXCEPT ![id].rwin = sum % WindowMax]
              /\ lastCall' = [cb |-> "window_adjusted", chan |-> id]
              /\ UNCHANGED status
    ELSE /\ status' = "closed"
         /\ UNCHANGED <<channels, lastCall>>

(* GLOBAL_REQUEST and every other message number: logged and ignored;     *)
(* nothing is written, whatever want_reply says.                           *)
IgnoredPacket == UNCHANGED <<channels, status, lastCall>>

(* A packet that fails to parse (a read past the end, a bad UTF-8 string, *)
(* an unknown signal name), or a handler returning Err: the task ends.    *)
FatalError ==
    /\ status' = "closed"
    /\ UNCHANGED <<channels, lastCall>>

-----------------------------------------------------------------------------
(* One packet read and handled, or one open by the application.            *)
Step(A) ==
    /\ status = "running"
    /\ npkts < MaxPackets
    /\ npkts' = npkts + 1
    /\ A

(* The task has ended, or the model's bound on steps is reached.           *)
Terminated ==
    /\ status # "running" \/ npkts = MaxPackets
    /\ UNCHANGED vars

Next ==
    \/ \E c \in ChannelIds :
          \/ Step(AppChannelOpen(c))
          \/ \E r \in ChannelIds, w \in Windows : Step(ChannelOpenConfirmation(c, r, w))
          \/ Step(ChannelClose(c))
          \/ Step(ChannelEof(c))
          \/ \E code \in ReasonCodes : Step(ChannelOpenFailure(c, code))
          \/ \E ext \in BOOLEAN : Step(ChannelData(c, ext))
          \/ \E n \in ClientRequests \cup {"unknown"} : Step(ChannelRequest(c, n))
          \/ \E a \in Amounts : Step(WindowAdjust(c, a))
    \/ Step(IgnoredPacket)
    \/ Step(FatalError)
    \/ Terminated

Spec == Init /\ [][Next]_vars

-----------------------------------------------------------------------------
(* Properties.                                                             *)

(* No packet of the server panics the client task: malformed input ends   *)
(* it with an Err (spec 7: MalformedPacket and Inconsistent are errors    *)
(* that tear the session down after flushing).                             *)
NoPeerPanic == status # "panicked"

=============================================================================
