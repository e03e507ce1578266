---------------------------- MODULE ServerChannels ----------------------------
(***************************************************************************)
(* The server's channel layer once the connection is Authenticated:        *)
(* Session::server_read_authenticated and server_handle_channel_open in    *)
(* src/src/server/encrypted.rs.  State is enc.channels (local id to        *)
(* Channel), common.wants_reply and the packets written for the peer.     *)
(*                                                                         *)
(* One step is one packet, handler callback included (the driver awaits   *)
(* reply before reading on).  Channel ids are abstract u32 numbers; the   *)
(* recipient window keeps its width: it is a WindowBits-bit unsigned      *)
(* integer, 32 in the code.  Whether `+=` on it panics or wraps depends on *)
(* the build (overflow-checks), a constant of the model.  What a handler   *)
(* does to the session inside its callback (session.rs, outside src/) is  *)
(* not modelled.                                                           *)
(***************************************************************************)
EXTENDS Naturals, Sequences, Functions

CONSTANTS
    ChannelIds,      \* u32 channel numbers used by either side (model bound)
    WindowBits,      \* width of Channel::recipient_window_size
    OverflowChecks,  \* the build panics on integer overflow (debug profile)
    Windows,         \* initial windows the peer announces in CHANNEL_OPEN
    Amounts,         \* amounts the peer sends in CHANNEL_WINDOW_ADJUST
    KnownRequests,   \* CHANNEL_REQUEST names with a handler method
    MaxPackets       \* bound on the packets the peer sends (model bound)

WindowMax == 2^WindowBits

ASSUME ChannelsAssumption ==
    /\ WindowBits \in Nat \ {0}
    /\ OverflowChecks \in BOOLEAN
    /\ Windows \subseteq 0..(WindowMax - 1)
    /\ Amounts \subseteq 0..(WindowMax - 1)
    /\ MaxPackets \in Nat

(* The channel types server_handle_channel_open dispatches on. *)
OpenTypes == {"session", "x11", "direct-tcpip"}
(* The global requests server_read_authenticated hands to the handler. *)
ForwardRequests == {"tcpip-forward", "cancel-tcpip-forward"}

(* Channel, the fields the layer itself reads or writes. *)
ChannelRecs ==
    [recipient : ChannelIds, rwin : 0..(WindowMax - 1), wants_reply : BOOLEAN]

Msgs ==
    [type : {"CHANNEL_OPEN_CONFIRMATION"}, recipient : ChannelIds,
     sender : ChannelIds]
    \cup [type : {"CHANNEL_OPEN_FAILURE"}, recipient : ChannelIds]
    \cup [type : {"CHANNEL_FAILURE", "REQUEST_SUCCESS", "REQUEST_FAILURE"}]

(* Handler methods the layer calls; NoChannel for the global ones. *)
NoChannel == "none"
Callbacks == {"channel_open_session", "channel_open_x11",
              "channel_open_direct_tcpip", "channel_close", "channel_eof",
              "data", "extended_data", "window_adjusted", "channel_request",
              "tcpip_forward", "cancel_tcpip_forward"}
NoCall == [cb |-> "none", chan |-> NoChannel]
OpenCallback == [t \in OpenTypes |->
                    CASE t = "session" -> "channel_open_session"
                      [] t = "x11" -> "channel_open_x11"
                      [] t = "direct-tcpip" -> "channel_open_direct_tcpip"]

VARIABLES
    channels,     \* enc.channels
    wants_reply,  \* self.common.wants_reply
    out,          \* every packet written for the peer, in order
    status,       \* "running", or how the connection task ended
    npkts,        \* packets received so far
    peerView,     \* environment: local id -> remote id the peer holds open
    opens,        \* history: sender ids of the CHANNEL_OPENs handled
    requests,     \* history: want_reply of each request the core answers
    lastCall      \* history: the last handler callback and its channel

vars == <<channels, wants_reply, out, status, npkts, peerView, opens,
          requests, lastCall>>

TypeOK ==
    /\ DOMAIN channels \subseteq ChannelIds
    /\ \A c \in DOMAIN channels : channels[c] \in ChannelRecs
    /\ wants_reply \in BOOLEAN
    /\ out \in Seq(Msgs)
    /\ status \in {"running", "closed", "panicked"}
    /\ npkts \in Nat
    /\ DOMAIN peerView \subseteq ChannelIds
    /\ \A c \in DOMAIN peerView : peerView[c] \in ChannelIds
    /\ opens \in Seq(ChannelIds)
    /\ requests \in Seq(BOOLEAN)
    /\ lastCall \in {NoCall} \cup [cb : Callbacks, chan : ChannelIds \cup {NoChannel}]

(* The session has just become Authenticated: no channel yet. *)
Init ==
    /\ channels = [c \in {} |-> c]
    /\ wants_reply = FALSE
    /\ out = <<>>
    /\ status = "running"
    /\ npkts = 0
    /\ peerView = [c \in {} |-> c]
    /\ opens = <<>>
    /\ requests = <<>>
    /\ lastCall = NoCall

-----------------------------------------------------------------------------
(* The function f with x mapped to v, added or replaced. *)
MapPut(f, x, v) == [y \in DOMAIN f \cup {x} |-> IF y = x THEN v ELSE f[y]]

(* enc.new_channel_id(): an id not in use in enc.channels. *)
NewChannelIds == ChannelIds \ DOMAIN channels

(* The peer, on reading the packets of this step, records each channel     *)
(* confirmation under the local id the packet names.                      *)
PeerReads(p) ==
    IF p.type = "CHANNEL_OPEN_CONFIRMATION"
    THEN MapPut(peerView, p.sender, p.recipient)
    ELSE peerView

(* Mutant of ConfirmChannelOpen: the channel is inserted under the peer's *)
(* sender id (channel.recipient_channel) instead of its local id.          *)
ConfirmChannelOpenBySender(id, sender, win) ==
    LET p == [type |-> "CHANNEL_OPEN_CONFIRMATION", recipient |-> sender,
              sender |-> id]
    IN /\ out' = Append(out, p)
       /\ channels' = MapPut(channels, sender,
                             [recipient |-> sender, rwin |-> win,
                              wants_reply |-> FALSE])
       /\ peerView' = PeerReads(p)

(* confirm_channel_open: server_confirm_channel_open writes the            *)
(* confirmation (remote id, local id, config window and packet size) and  *)
(* the channel is inserted under its local id.                             *)
ConfirmChannelOpen(id, sender, win) ==
    LET p == [type |-> "CHANNEL_OPEN_CONFIRMATION", recipient |-> sender,
              sender |-> id]
    IN /\ out' = Append(out, p)
       /\ channels' = MapPut(channels, id,
                             [recipient |-> sender, rwin |-> win,
                              wants_reply |-> FALSE])
       /\ peerView' = PeerReads(p)

-----------------------------------------------------------------------------
(* CHANNEL_OPEN of a known type: a new local id is taken, the channel      *)
(* confirmed and registered, and channel_open_<type> called with it.       *)
ChannelOpen(typ, sender, win) ==
    /\ typ \in OpenTypes
    /\ \E id \in NewChannelIds :
          /\ ConfirmChannelOpen(id, sender, win)
          /\ lastCall' = [cb |-> OpenCallback[typ], chan |-> id]
    /\ opens' = Append(opens, sender)
    /\ UNCHANGED <<wants_reply, status, requests>>

(* CHANNEL_OPEN "x11" or "direct-tcpip" whose type-specific fields fail to *)
(* parse: confirm_channel_open has already registered the channel and     *)
(* written the confirmation when the read error propagates; the handler is *)
(* never told, and run_stream returns before flushing.                     *)
ChannelOpenMalformed(typ, sender, win) ==
    /\ typ \in OpenTypes \ {"session"}
    /\ \E id \in NewChannelIds :
          /\ out' = Append(out, [type |-> "CHANNEL_OPEN_CONFIRMATION",
                                 recipient |-> sender, sender |-> id])
          /\ channels' = MapPut(channels, id,
                                [recipient |-> sender, rwin |-> win,
                                 wants_reply |-> FALSE])
    /\ status' = "closed"
    /\ opens' = Append(opens, sender)
    /\ UNCHANGED <<wants_reply, peerView, requests, lastCall>>

(* Mutant of ChannelOpenUnknown: the failure is not written. *)
ChannelOpenUnknownSilent(sender) ==
    /\ opens' = Append(opens, sender)
    /\ UNCHANGED <<out, channels, wants_reply, status, peerView, requests, lastCall>>

(* CHANNEL_OPEN of an unknown type: CHANNEL_OPEN_FAILURE with reason 3     *)
(* (SSH_OPEN_UNKNOWN_CHANNEL_TYPE) to the sender, nothing registered.      *)
ChannelOpenUnknown(sender) ==
    /\ out' = Append(out, [type |-> "CHANNEL_OPEN_FAILURE", recipient |-> sender])
    /\ opens' = Append(opens, sender)
    /\ UNCHANGED <<channels, wants_reply, status, peerView, requests, lastCall>>

(* CHANNEL_CLOSE: the channel is removed (if present) before               *)
(* channel_close is called.  The peer has let go of it.                    *)
ChannelClose(id) ==
    /\ channels' = Restrict(channels, DOMAIN channels \ {id})
    /\ peerView' = Restrict(peerView, DOMAIN peerView \ {id})
    /\ lastCall' = [cb |-> "channel_close", chan |-> id]
    /\ UNCHANGED <<wants_reply, out, status, opens, requests>>

(* CHANNEL_EOF: channel_eof is called; the table is not consulted.         *)
ChannelEof(id) ==
    /\ lastCall' = [cb |-> "channel_eof", chan |-> id]
    /\ UNCHANGED <<channels, wants_reply, out, status, peerView, opens, requests>>

(* CHANNEL_DATA / CHANNEL_EXTENDED_DATA: enc.adjust_window_size (session.rs *)
(* local window accounting, its result ignored), flush, then data or       *)
(* extended_data.  The table is not consulted.                             *)
ChannelData(id, ext) ==
    /\ lastCall' = [cb |-> IF ext THEN "extended_data" ELSE "data", chan |-> id]
    /\ UNCHANGED <<channels, wants_reply, out, status, peerView, opens, requests>>

(* Mutant of WindowAdjust: the sum is kept in a wider integer. *)
WindowAdjustWide(id, amount) ==
    /\ IF id \in DOMAIN channels
       THEN /\ channels' = [channels EXCEPT ![id].rwin = @ + amount]
            /\ lastCall' = [cb |-> "window_adjusted", chan |-> id]
            /\ UNCHANGED status
       ELSE /\ status' = "closed"
            /\ UNCHANGED <<channels, lastCall>>
    /\ UNCHANGED <<wants_reply, out, peerView, opens, requests>>

(* CHANNEL_WINDOW_ADJUST: recipient_window_size += amount on a known       *)
(* channel (a u32: it panics with overflow checks, wraps without), then    *)
(* window_adjusted; an unknown channel is Error::WrongChannel.             *)
WindowAdjust(id, amount) ==
    /\ IF id \in DOMAIN channels
       THEN LET sum == channels[id].rwin + amount IN
            IF OverflowChecks /\ sum >= WindowMax
            THEN /\ status' = "panicked"
                 /\ UNCHANGED <<channels, lastCall>>
            ELSE /\ channels' = [channels EXCEPT ![id].rwin = sum % WindowMax]
                 /\ lastCall' = [cb |-> "window_adjusted", chan |-> id]
                 /\ UNCHANGED status
       ELSE /\ status' = "closed"
            /\ UNCHANGED <<channels, lastCall>>
    /\ UNCHANGED <<wants_reply, out, peerView, opens, requests>>

(* CHANNEL_REQUEST: the channel's wants_reply is set from the packet if    *)
(* the channel exists; a known request goes to its handler method, an     *)
(* unknown one is answered with CHANNEL_FAILURE, a packet that names no   *)
(* recipient channel, whatever want_reply says.                           *)
ChannelRequest(id, name, want) ==
    /\ channels' = IF id \in DOMAIN channels
                   THEN [channels EXCEPT ![id].wants_reply = want]
                   ELSE channels
    /\ IF name \in KnownRequests
       THEN /\ lastCall' = [cb |-> "channel_request", chan |-> id]
            /\ UNCHANGED <<out, requests>>
       ELSE /\ out' = Append(out, [type |-> "CHANNEL_FAILURE"])
            /\ requests' = Append(requests, want)
            /\ UNCHANGED lastCall
    /\ UNCHANGED <<wants_reply, status, peerView, opens>>

(* GLOBAL_REQUEST: common.wants_reply is set; tcpip-forward and            *)
(* cancel-tcpip-forward call the handler and write REQUEST_SUCCESS or      *)
(* REQUEST_FAILURE from its boolean, any other name gets REQUEST_FAILURE.  *)
GlobalRequest(name, want, result) ==
    /\ wants_reply' = want
    /\ IF name \in ForwardRequests
       THEN /\ lastCall' = [cb |-> IF name = "tcpip-forward" THEN "tcpip_forward"
                                   ELSE "cancel_tcpip_forward",
                            chan |-> NoChannel]
            /\ out' = Append(out, [type |-> IF result THEN "REQUEST_SUCCESS"
                                            ELSE "REQUEST_FAILURE"])
       ELSE /\ out' = Append(out, [type |-> "REQUEST_FAILURE"])
            /\ UNCHANGED lastCall
    /\ requests' = Append(requests, want)
    /\ UNCHANGED <<channels, status, peerView, opens>>

(* A packet that fails to parse, or a handler returning Err: the error     *)
(* leaves run_stream and the connection is torn down.                      *)
FatalError ==
    /\ status' = "closed"
    /\ UNCHANGED <<channels, wants_reply, out, peerView, opens, requests, lastCall>>

(* Any other message number is logged and ignored. *)
OtherPacket ==
    UNCHANGED <<channels, wants_reply, out, status, peerView, opens, requests,
                lastCall>>

-----------------------------------------------------------------------------
(* One packet read by run_stream and passed to reply. *)
Receive(A) ==
    /\ status = "running"
    /\ npkts < MaxPackets
    /\ npkts' = npkts + 1
    /\ A

(* DISCONNECT, the end of the stream or the idle timeout. *)
Disconnect ==
    /\ status = "running"
    /\ status' = "closed"
    /\ UNCHANGED <<channels, wants_reply, out, npkts, peerView, opens,
                   requests, lastCall>>

(* The connection task has ended. *)
Terminated ==
    /\ status # "running"
    /\ UNCHANGED vars

Next ==
    \/ \E t \in OpenTypes, s \in ChannelIds, w \in Windows :
          \/ Receive(ChannelOpen(t, s, w))
          \/ Receive(ChannelOpenMalformed(t, s, w))
    \/ \E s \in ChannelIds : Receive(ChannelOpenUnknown(s))
    \/ \E c \in ChannelIds :
          \/ Receive(ChannelClose(c))
          \/ Receive(ChannelEof(c))
          \/ \E ext \in BOOLEAN : Receive(ChannelData(c, ext))
          \/ \E a \in Amounts : Receive(WindowAdjust(c, a))
          \/ \E n \in KnownRequests \cup {"unknown"}, w \in BOOLEAN :
                Receive(ChannelRequest(c, n, w))
    \/ \E n \in ForwardRequests \cup {"unknown"}, w \in BOOLEAN, r \in BOOLEAN :
          Receive(GlobalRequest(n, w, r))
    \/ Receive(FatalError)
    \/ Receive(OtherPacket)
    \/ Disconnect
    \/ Terminated

Spec == Init /\ [][Next]_vars

-----------------------------------------------------------------------------
(* Properties.                                                             *)

(* While the connection runs, the server's channel table and the peer's   *)
(* view built from the CHANNEL_OPEN_CONFIRMATIONs it read agree: the same *)
(* local ids are open, each bound to the same remote id.  It takes opens, *)
(* closes and reused ids in any order to break, and it fails if the       *)
(* confirmation and the insertion of confirm_channel_open disagree.       *)
TableAgreesWithPeer ==
    status = "running" =>
        /\ DOMAIN peerView = DOMAIN channels
        /\ \A c \in DOMAIN channels : peerView[c] = channels[c].recipient

(* Every CHANNEL_OPEN gets one reply, a confirmation or a failure, and the *)
(* replies name the peer's sender ids in the order the opens arrived      *)
(* (RFC 4254 5.1), whichever of server_handle_channel_open's branches ran. *)
IsOpenReply(p) == p.type \in {"CHANNEL_OPEN_CONFIRMATION", "CHANNEL_OPEN_FAILURE"}
OpenRepliesInOrder ==
    LET replies == SelectSeq(out, IsOpenReply) IN
    /\ Len(replies) = Len(opens)
    /\ \A i \in 1..Len(opens) : replies[i].recipient = opens[i]

=============================================================================
