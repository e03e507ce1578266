----------------------- MODULE ServerChannelsProofs -----------------------
(***************************************************************************)
(* Proofs about ServerChannels for every value of its constants: the type *)
(* invariant, and that the channel table agrees with the peer's view      *)
(* (TableAgreesWithPeer).                                                  *)
(***************************************************************************)
EXTENDS ServerChannels, TLAPS

(* Every step of Next, as one case each, with its parameters. *)
LEMMA ChannelStepCases ==
    ASSUME [Next]_vars
    PROVE  \/ \E t \in OpenTypes, s \in ChannelIds, w \in Windows :
                 Receive(ChannelOpen(t, s, w))
           \/ \E t \in OpenTypes, s \in ChannelIds, w \in Windows :
                 Receive(ChannelOpenMalformed(t, s, w))
           \/ \E s \in ChannelIds : Receive(ChannelOpenUnknown(s))
           \/ \E c \in ChannelIds : Receive(ChannelClose(c))
           \/ \E c \in ChannelIds : Receive(ChannelEof(c))
           \/ \E c \in ChannelIds, ext \in BOOLEAN : Receive(ChannelData(c, ext))
           \/ \E c \in ChannelIds, a \in Amounts : Receive(WindowAdjust(c, a))
           \/ \E c \in ChannelIds, n \in KnownRequests \cup {"unknown"}, w \in BOOLEAN :
                 Receive(ChannelRequest(c, n, w))
           \/ \E n \in ForwardRequests \cup {"unknown"}, w \in BOOLEAN, r \in BOOLEAN :
                 Receive(GlobalRequest(n, w, r))
           \/ Receive(FatalError)
           \/ Receive(OtherPacket)
           \/ Disconnect
           \/ UNCHANGED vars
BY DEF Next, Terminated

-----------------------------------------------------------------------------
(* Helpers on the table. *)

(* A channel record put into a well-typed table keeps it well typed. *)
LEMMA ChannelPut ==
    ASSUME NEW f, DOMAIN f \subseteq ChannelIds,
           \A c \in DOMAIN f : f[c] \in ChannelRecs,
           NEW id \in ChannelIds, NEW s \in ChannelIds,
           NEW w \in 0..(WindowMax - 1)
    PROVE  LET g == MapPut(f, id, [recipient |-> s, rwin |-> w, wants_reply |-> FALSE])
           IN  /\ DOMAIN g \subseteq ChannelIds
               /\ \A c \in DOMAIN g : g[c] \in ChannelRecs
<1>1. [recipient |-> s, rwin |-> w, wants_reply |-> FALSE] \in ChannelRecs
    BY DEF ChannelRecs
<1>2. QED
    BY <1>1 DEF MapPut

(* The same for the peer's view. *)
LEMMA PeerPut ==
    ASSUME NEW f, DOMAIN f \subseteq ChannelIds,
           \A c \in DOMAIN f : f[c] \in ChannelIds,
           NEW id \in ChannelIds, NEW s \in ChannelIds
    PROVE  /\ DOMAIN MapPut(f, id, s) \subseteq ChannelIds
           /\ \A c \in DOMAIN MapPut(f, id, s) : MapPut(f, id, s)[c] \in ChannelIds
BY DEF MapPut

(* Restrict removes from the domain and keeps the rest. *)
LEMMA RestrictFacts ==
    ASSUME NEW f, NEW S
    PROVE  /\ DOMAIN Restrict(f, S) = S
           /\ \A y \in S : Restrict(f, S)[y] = f[y]
BY DEF Restrict

(* The packets written by one step keep the trace a sequence of Msgs. *)
LEMMA AppendChannelMsg ==
    ASSUME NEW s \in Seq(Msgs), NEW m \in Msgs
    PROVE  Append(s, m) \in Seq(Msgs)
OBVIOUS

-----------------------------------------------------------------------------
(* Type correctness. *)

(* The state after NEWKEYS and authentication has its type. *)
LEMMA ChannelInitType == Init => TypeOK
<1> SUFFICES ASSUME Init PROVE TypeOK
    OBVIOUS
<1>1. DOMAIN channels = {} /\ DOMAIN peerView = {}
    BY DEF Init
<1>2. <<>> \in Seq(Msgs) /\ <<>> \in Seq(ChannelIds) /\ <<>> \in Seq(BOOLEAN)
    OBVIOUS
<1>3. QED
    BY <1>1, <1>2 DEF Init, TypeOK

LEMMA ChannelTypeStep == TypeOK /\ [Next]_vars => TypeOK'
<1> SUFFICES ASSUME TypeOK, [Next]_vars PROVE TypeOK'
    OBVIOUS
<1> USE ChannelsAssumption
<1>1. CASE \E t \in OpenTypes, s \in ChannelIds, w \in Windows :
              Receive(ChannelOpen(t, s, w))
    <2> SUFFICES ASSUME NEW t \in OpenTypes, NEW s \in ChannelIds, NEW w \in Windows,
                        Receive(ChannelOpen(t, s, w))
                 PROVE  TypeOK'
        BY <1>1
    <2>1. PICK id \in NewChannelIds :
              /\ ConfirmChannelOpen(id, s, w)
              /\ lastCall' = [cb |-> OpenCallback[t], chan |-> id]
        BY DEF Receive, ChannelOpen
    <2>2. id \in ChannelIds
        BY DEF NewChannelIds
    <2>3. /\ out' = Append(out, [type |-> "CHANNEL_OPEN_CONFIRMATION",
                                 recipient |-> s, sender |-> id])
          /\ channels' = MapPut(channels, id, [recipient |-> s, rwin |-> w,
                                               wants_reply |-> FALSE])
          /\ peerView' = MapPut(peerView, id, s)
        BY <2>1 DEF ConfirmChannelOpen, PeerReads
    <2>4. /\ DOMAIN channels' \subseteq ChannelIds
          /\ \A c \in DOMAIN channels' : channels'[c] \in ChannelRecs
        BY <2>2, <2>3, ChannelPut, ChannelsAssumption DEF TypeOK
    <2>5. /\ DOMAIN peerView' \subseteq ChannelIds
          /\ \A c \in DOMAIN peerView' : peerView'[c] \in ChannelIds
        BY <2>2, <2>3, PeerPut DEF TypeOK
    <2>6. out' \in Seq(Msgs)
        BY <2>2, <2>3, AppendChannelMsg DEF TypeOK, Msgs
    <2>7. OpenCallback[t] \in Callbacks
        BY DEF OpenCallback, OpenTypes, Callbacks
    <2>8. /\ opens' = Append(opens, s)
          /\ UNCHANGED <<wants_reply, status, requests>>
          /\ npkts' = npkts + 1
        BY DEF Receive, ChannelOpen
    <2>9. QED
        BY <2>1, <2>2, <2>4, <2>5, <2>6, <2>7, <2>8 DEF TypeOK
<1>2. CASE \E t \in OpenTypes, s \in ChannelIds, w \in Windows :
              Receive(ChannelOpenMalformed(t, s, w))
    <2> SUFFICES ASSUME NEW t \in OpenTypes, NEW s \in ChannelIds, NEW w \in Windows,
                        Receive(ChannelOpenMalformed(t, s, w))
                 PROVE  TypeOK'
        BY <1>2
    <2>1. PICK id \in NewChannelIds :
              /\ out' = Append(out, [type |-> "CHANNEL_OPEN_CONFIRMATION",
                                     recipient |-> s, sender |-> id])
              /\ channels' = MapPut(channels, id, [recipient |-> s, rwin |-> w,
                                                   wants_reply |-> FALSE])
        BY DEF Receive, ChannelOpenMalformed
    <2>2. id \in ChannelIds
        BY DEF NewChannelIds
    <2>3. /\ DOMAIN channels' \subseteq ChannelIds
          /\ \A c \in DOMAIN channels' : channels'[c] \in ChannelRecs
        BY <2>1, <2>2, ChannelPut, ChannelsAssumption DEF TypeOK
    <2>4. out' \in Seq(Msgs)
        BY <2>1, <2>2, AppendChannelMsg DEF TypeOK, Msgs
    <2>5. /\ status' = "closed" /\ opens' = Append(opens, s)
          /\ UNCHANGED <<wants_reply, peerView, requests, lastCall>>
          /\ npkts' = npkts + 1
        BY DEF Receive, ChannelOpenMalformed
    <2>6. QED
        BY <2>3, <2>4, <2>5 DEF TypeOK
<1>3. CASE \E s \in ChannelIds : Receive(ChannelOpenUnknown(s))
    <2> SUFFICES ASSUME NEW s \in ChannelIds, Receive(ChannelOpenUnknown(s))
                 PROVE  TypeOK'
        BY <1>3
    <2>1. out' \in Seq(Msgs)
        BY AppendChannelMsg DEF Receive, ChannelOpenUnknown, TypeOK, Msgs
    <2>2. QED
        BY <2>1 DEF Receive, ChannelOpenUnknown, TypeOK
<1>4. CASE \E c \in ChannelIds : Receive(ChannelClose(c))
    <2> SUFFICES ASSUME NEW c \in ChannelIds, Receive(ChannelClose(c))
                 PROVE  TypeOK'
        BY <1>4
    <2>1. /\ channels' = Restrict(channels, DOMAIN channels \ {c})
          /\ peerView' = Restrict(peerView, DOMAIN peerView \ {c})
        BY DEF Receive, ChannelClose
    <2>2. /\ DOMAIN channels' \subseteq ChannelIds
          /\ \A x \in DOMAIN channels' : channels'[x] \in ChannelRecs
          /\ DOMAIN peerView' \subseteq ChannelIds
          /\ \A x \in DOMAIN peerView' : peerView'[x] \in ChannelIds
        <3>1. DOMAIN channels' = DOMAIN channels \ {c}
              /\ \A x \in DOMAIN channels' : channels'[x] = channels[x]
            BY <2>1, RestrictFacts
        <3>2. DOMAIN peerView' = DOMAIN peerView \ {c}
              /\ \A x \in DOMAIN peerView' : peerView'[x] = peerView[x]
            BY <2>1, RestrictFacts
        <3>3. QED
            BY <3>1, <3>2 DEF TypeOK
    <2>3. lastCall' \in [cb : Callbacks, chan : ChannelIds \cup {NoChannel}]
        BY DEF Receive, ChannelClose, Callbacks
    <2>4. UNCHANGED <<wants_reply, out, status, opens, requests>> /\ npkts' = npkts + 1
        BY DEF Receive, ChannelClose
    <2>5. QED
        BY <2>2, <2>3, <2>4 DEF TypeOK
<1>5. CASE \E c \in ChannelIds : Receive(ChannelEof(c))
    BY <1>5 DEF Receive, ChannelEof, TypeOK, Callbacks
<1>6. CASE \E c \in ChannelIds, ext \in BOOLEAN : Receive(ChannelData(c, ext))
    BY <1>6 DEF Receive, ChannelData, TypeOK, Callbacks
<1>7. CASE \E c \in ChannelIds, a \in Amounts : Receive(WindowAdjust(c, a))
    <2> SUFFICES ASSUME NEW c \in ChannelIds, NEW a \in Amounts,
                        Receive(WindowAdjust(c, a))
                 PROVE  TypeOK'
        BY <1>7
    <2>1. WindowMax \in Nat \ {0}
        BY DEF WindowMax
    <2>2. CASE c \in DOMAIN channels /\ ~(OverflowChecks /\ channels[c].rwin + a >= WindowMax)
        <3>1. channels' = [channels EXCEPT ![c].rwin = (channels[c].rwin + a) % WindowMax]
            BY <2>2 DEF Receive, WindowAdjust
        <3>2. (channels[c].rwin + a) % WindowMax \in 0..(WindowMax - 1)
            BY <2>1, <2>2 DEF TypeOK, ChannelRecs
        <3>3. /\ DOMAIN channels' \subseteq ChannelIds
              /\ \A x \in DOMAIN channels' : channels'[x] \in ChannelRecs
            BY <2>2, <3>1, <3>2 DEF TypeOK, ChannelRecs
        <3>4. QED
            BY <2>2, <3>3 DEF Receive, WindowAdjust, TypeOK, Callbacks
    <2>3. CASE ~(c \in DOMAIN channels /\ ~(OverflowChecks /\ channels[c].rwin + a >= WindowMax))
        BY <2>3 DEF Receive, WindowAdjust, TypeOK
    <2>4. QED
        BY <2>2, <2>3
<1>8. CASE \E c \in ChannelIds, n \in KnownRequests \cup {"unknown"}, w \in BOOLEAN :
              Receive(ChannelRequest(c, n, w))
    <2> SUFFICES ASSUME NEW c \in ChannelIds, NEW n \in KnownRequests \cup {"unknown"},
                        NEW w \in BOOLEAN, Receive(ChannelRequest(c, n, w))
                 PROVE  TypeOK'
        BY <1>8
    <2>1. /\ DOMAIN channels' \subseteq ChannelIds
          /\ \A x \in DOMAIN channels' : channels'[x] \in ChannelRecs
        BY DEF Receive, ChannelRequest, TypeOK, ChannelRecs
    <2>2. CASE n \in KnownRequests
        BY <2>1, <2>2 DEF Receive, ChannelRequest, TypeOK, Callbacks
    <2>3. CASE n \notin KnownRequests
        <3>1. /\ out' = Append(out, [type |-> "CHANNEL_FAILURE"])
              /\ requests' = Append(requests, w)
              /\ UNCHANGED <<lastCall, wants_reply, status, peerView, opens>>
              /\ npkts' = npkts + 1
            BY <2>3 DEF Receive, ChannelRequest
        <3>2. [type |-> "CHANNEL_FAILURE"] \in Msgs
            BY DEF Msgs
        <3>3. out' \in Seq(Msgs)
            BY <3>1, <3>2, AppendChannelMsg DEF TypeOK
        <3>4. QED
            BY <2>1, <3>1, <3>3 DEF TypeOK
    <2>4. QED
        BY <2>2, <2>3
<1>9. CASE \E n \in ForwardRequests \cup {"unknown"}, w \in BOOLEAN, r \in BOOLEAN :
              Receive(GlobalRequest(n, w, r))
    <2> SUFFICES ASSUME NEW n \in ForwardRequests \cup {"unknown"}, NEW w \in BOOLEAN,
                        NEW r \in BOOLEAN, Receive(GlobalRequest(n, w, r))
                 PROVE  TypeOK'
        BY <1>9
    <2>1. out' \in Seq(Msgs)
        <3>1. \E m \in Msgs : out' = Append(out, m)
            <4>1. [type |-> "REQUEST_SUCCESS"] \in Msgs /\ [type |-> "REQUEST_FAILURE"] \in Msgs
                BY DEF Msgs
            <4>2. QED
                BY <4>1 DEF Receive, GlobalRequest
        <3>2. QED
            BY <3>1, AppendChannelMsg DEF TypeOK
    <2>2. lastCall' \in {NoCall} \cup [cb : Callbacks, chan : ChannelIds \cup {NoChannel}]
        BY DEF Receive, GlobalRequest, TypeOK, Callbacks
    <2>3. QED
        BY <2>1, <2>2 DEF Receive, GlobalRequest, TypeOK
<1>10. CASE Receive(FatalError)
    BY <1>10 DEF Receive, FatalError, TypeOK
<1>11. CASE Receive(OtherPacket)
    BY <1>11 DEF Receive, OtherPacket, TypeOK
<1>12. CASE Disconnect
    BY <1>12 DEF Disconnect, TypeOK
<1>13. CASE UNCHANGED vars
    BY <1>13 DEF vars, TypeOK
<1>14. QED
    BY <1>1, <1>2, <1>3, <1>4, <1>5, <1>6, <1>7, <1>8, <1>9, <1>10, <1>11,
       <1>12, <1>13, ChannelStepCases

(* The channel layer's state always has its type, for every id space and  *)
(* window width.                                                           *)
THEOREM ChannelsTypeCorrect == Spec => []TypeOK
<1>1. Init => TypeOK
    BY ChannelInitType
<1>2. QED
    BY <1>1, ChannelTypeStep, PTL DEF Spec

-----------------------------------------------------------------------------
(* The channel table and the peer's view agree. *)

(* TableAgreesWithPeer is inductive together with TypeOK: every step that *)
(* changes the table changes the peer's view at the same id in the same   *)
(* way, or ends the connection.                                           *)
CInv == TypeOK /\ TableAgreesWithPeer

LEMMA AgreeStep == CInv /\ [Next]_vars => TableAgreesWithPeer'
<1> SUFFICES ASSUME CInv, [Next]_vars, status' = "running"
             PROVE  /\ DOMAIN peerView' = DOMAIN channels'
                    /\ \A c \in DOMAIN channels' : peerView'[c] = channels'[c].recipient
    BY DEF TableAgreesWithPeer
<1>0. status = "running"
    BY ChannelStepCases DEF Receive, Disconnect, vars
<1>1. CASE \E t \in OpenTypes, s \in ChannelIds, w \in Windows :
              Receive(ChannelOpen(t, s, w))
    <2> SUFFICES ASSUME NEW t \in OpenTypes, NEW s \in ChannelIds, NEW w \in Windows,
                        Receive(ChannelOpen(t, s, w))
                 PROVE  /\ DOMAIN peerView' = DOMAIN channels'
                        /\ \A c \in DOMAIN channels' : peerView'[c] = channels'[c].recipient
        BY <1>1
    <2>1. PICK id \in NewChannelIds : ConfirmChannelOpen(id, s, w)
        BY DEF Receive, ChannelOpen
    <2>2. /\ channels' = MapPut(channels, id, [recipient |-> s, rwin |-> w,
                                               wants_reply |-> FALSE])
          /\ peerView' = MapPut(peerView, id, s)
        BY <2>1 DEF ConfirmChannelOpen, PeerReads
    <2>3. /\ DOMAIN peerView = DOMAIN channels
          /\ \A c \in DOMAIN channels : peerView[c] = channels[c].recipient
        BY <1>0 DEF CInv, TableAgreesWithPeer
    <2>4. QED
        BY <2>2, <2>3 DEF MapPut
<1>2. CASE \E t \in OpenTypes, s \in ChannelIds, w \in Windows :
              Receive(ChannelOpenMalformed(t, s, w))
    BY <1>2 DEF Receive, ChannelOpenMalformed
<1>3. CASE \E c \in ChannelIds : Receive(ChannelClose(c))
    <2> SUFFICES ASSUME NEW c \in ChannelIds, Receive(ChannelClose(c))
                 PROVE  /\ DOMAIN peerView' = DOMAIN channels'
                        /\ \A x \in DOMAIN channels' : peerView'[x] = channels'[x].recipient
        BY <1>3
    <2>1. /\ channels' = Restrict(channels, DOMAIN channels \ {c})
          /\ peerView' = Restrict(peerView, DOMAIN peerView \ {c})
        BY DEF Receive, ChannelClose
    <2>2. /\ DOMAIN peerView = DOMAIN channels
          /\ \A x \in DOMAIN channels : peerView[x] = channels[x].recipient
        BY <1>0 DEF CInv, TableAgreesWithPeer
    <2>3. QED
        BY <2>1, <2>2 DEF Restrict
<1>4. CASE \E c \in ChannelIds, a \in Amounts : Receive(WindowAdjust(c, a))
    <2> SUFFICES ASSUME NEW c \in ChannelIds, NEW a \in Amounts,
                        Receive(WindowAdjust(c, a))
                 PROVE  /\ DOMAIN peerView' = DOMAIN channels'
                        /\ \A x \in DOMAIN channels' : peerView'[x] = channels'[x].recipient
        BY <1>4
    <2>1. /\ DOMAIN peerView = DOMAIN channels
          /\ \A x \in DOMAIN channels : peerView[x] = channels[x].recipient
          /\ \A x \in DOMAIN channels : channels[x] \in ChannelRecs
        BY <1>0 DEF CInv, TableAgreesWithPeer, TypeOK
    <2>2. peerView' = peerView
        BY DEF Receive, WindowAdjust
    <2>3. CASE c \in DOMAIN channels /\ ~(OverflowChecks /\ channels[c].rwin + a >= WindowMax)
        <3>1. channels' = [channels EXCEPT ![c].rwin = (channels[c].rwin + a) % WindowMax]
            BY <2>3 DEF Receive, WindowAdjust
        <3>2. QED
            BY <2>1, <2>2, <3>1 DEF ChannelRecs
    <2>4. CASE ~(c \in DOMAIN channels /\ ~(OverflowChecks /\ channels[c].rwin + a >= WindowMax))
        BY <2>1, <2>2, <2>4 DEF Receive, WindowAdjust
    <2>5. QED
        BY <2>3, <2>4
<1>5. CASE \E c \in ChannelIds, n \in KnownRequests \cup {"unknown"}, w \in BOOLEAN :
              Receive(ChannelRequest(c, n, w))
    <2> SUFFICES ASSUME NEW c \in ChannelIds, NEW n \in KnownRequests \cup {"unknown"},
                        NEW w \in BOOLEAN, Receive(ChannelRequest(c, n, w))
                 PROVE  /\ DOMAIN peerView' = DOMAIN channels'
                        /\ \A x \in DOMAIN channels' : peerView'[x] = channels'[x].recipient
        BY <1>5
    <2>1. /\ DOMAIN peerView = DOMAIN channels
          /\ \A x \in DOMAIN channels : peerView[x] = channels[x].recipient
          /\ \A x \in DOMAIN channels : channels[x] \in ChannelRecs
        BY <1>0 DEF CInv, TableAgreesWithPeer, TypeOK
    <2>2. /\ peerView' = peerView
          /\ channels' = IF c \in DOMAIN channels
                          THEN [channels EXCEPT ![c].wants_reply = w]
                          ELSE channels
        BY DEF Receive, ChannelRequest
    <2>3. QED
        BY <2>1, <2>2 DEF ChannelRecs
<1>6. CASE \/ \E s \in ChannelIds : Receive(ChannelOpenUnknown(s))
           \/ \E c \in ChannelIds : Receive(ChannelEof(c))
           \/ \E c \in ChannelIds, ext \in BOOLEAN : Receive(ChannelData(c, ext))
           \/ \E n \in ForwardRequests \cup {"unknown"}, w \in BOOLEAN, r \in BOOLEAN :
                 Receive(GlobalRequest(n, w, r))
           \/ Receive(FatalError)
           \/ Receive(OtherPacket)
           \/ Disconnect
           \/ UNCHANGED vars
    <2>1. UNCHANGED <<channels, peerView>>
        BY <1>6 DEF Receive, ChannelOpenUnknown, ChannelEof, ChannelData,
                    GlobalRequest, FatalError, OtherPacket, Disconnect, vars
    <2>2. QED
        BY <1>0, <2>1 DEF CInv, TableAgreesWithPeer
<1>7. QED
    BY <1>1, <1>2, <1>3, <1>4, <1>5, <1>6, ChannelStepCases

(* While run_stream's connection runs, the channel table that              *)
(* server_read_authenticated keeps and the channels the peer was           *)
(* confirmed and has not closed are the same, id for id.                   *)
THEOREM TableAgreesWithPeerHolds == Spec => []TableAgreesWithPeer
<1>1. Init => CInv
    <2> SUFFICES ASSUME Init PROVE CInv
        OBVIOUS
    <2>1. TypeOK
        BY ChannelInitType
    <2>2. TableAgreesWithPeer
        BY DEF Init, TableAgreesWithPeer
    <2>3. QED
        BY <2>1, <2>2 DEF CInv
<1>2. CInv /\ [Next]_vars => CInv'
    BY AgreeStep, ChannelTypeStep DEF CInv
<1>3. CInv => TableAgreesWithPeer
    BY DEF CInv
<1>4. QED
    BY <1>1, <1>2, <1>3, PTL DEF Spec

=============================================================================
