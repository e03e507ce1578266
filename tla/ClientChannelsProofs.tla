----------------------- MODULE ClientChannelsProofs -----------------------
(***************************************************************************)
(* Proofs about ClientChannels for every value of its constants: the type *)
(* invariant, whose point is that CHANNEL_WINDOW_ADJUST keeps the u32     *)
(* recipient window in range in every build.                               *)
(***************************************************************************)
EXTENDS ClientChannels, TLAPS

(* Every step of Next, as one case each, with its parameters. *)
LEMMA ClientStepCases ==
    ASSUME [Next]_vars
    PROVE  \/ \E c \in ChannelIds : Step(AppChannelOpen(c))
           \/ \E c \in ChannelIds, r \in ChannelIds, w \in Windows :
                 Step(ChannelOpenConfirmation(c, r, w))
           \/ \E c \in ChannelIds : Step(ChannelClose(c))
           \/ \E c \in ChannelIds : Step(ChannelEof(c))
           \/ \E c \in ChannelIds, code \in ReasonCodes : Step(ChannelOpenFailure(c, code))
           \/ \E c \in ChannelIds, ext \in BOOLEAN : Step(ChannelData(c, ext))
           \/ \E c \in ChannelIds, n \in ClientRequests \cup {"unknown"} :
                 Step(ChannelRequest(c, n))
           \/ \E c \in ChannelIds, a \in Amounts : Step(WindowAdjust(c, a))
           \/ Step(IgnoredPacket)
           \/ Step(FatalError)
           \/ UNCHANGED vars
BY DEF Next, Terminated

-----------------------------------------------------------------------------
(* Helpers on the table. *)

(* MapRemove removes one entry and keeps the others. *)
LEMMA RemoveFacts ==
    ASSUME NEW f, NEW x
    PROVE  /\ DOMAIN MapRemove(f, x) = DOMAIN f \ {x}
           /\ \A y \in DOMAIN MapRemove(f, x) : MapRemove(f, x)[y] = f[y]
BY DEF MapRemove, Restrict

(* The window bound is a positive number. *)
LEMMA WindowMaxPositive == WindowMax \in Nat \ {0}
BY ClientChannelsAssumption

-----------------------------------------------------------------------------
(* Type correctness. *)

LEMMA ClientInitType == Init => TypeOK
BY DEF Init, TypeOK

LEMMA ClientTypeStep == TypeOK /\ [Next]_vars => TypeOK'
<1> SUFFICES ASSUME TypeOK, [Next]_vars PROVE TypeOK'
    OBVIOUS
<1> USE ClientChannelsAssumption
<1>1. CASE \E c \in ChannelIds : Step(AppChannelOpen(c))
    <2> SUFFICES ASSUME NEW c \in ChannelIds, Step(AppChannelOpen(c)) PROVE TypeOK'
        BY <1>1
    <2>1. /\ channels' = MapPut(channels, c, [recipient |-> NoChannel, rwin |-> 0,
                                              confirmed |-> FALSE])
        BY DEF Step, AppChannelOpen
    <2>2. [recipient |-> NoChannel, rwin |-> 0, confirmed |-> FALSE] \in ChannelRecs
        BY WindowMaxPositive DEF ChannelRecs
    <2>3. /\ DOMAIN channels' = DOMAIN channels \cup {c}
          /\ DOMAIN channels' \subseteq ChannelIds
          /\ \A x \in DOMAIN channels' : channels'[x] \in ChannelRecs
        BY <2>1, <2>2 DEF TypeOK, MapPut
    <2>5. /\ status' \in {"running", "closed", "panicked"}
          /\ npkts' \in Nat
          /\ lastCall' \in {NoCall} \cup [cb : Callbacks, chan : ChannelIds]
        BY DEF Step, AppChannelOpen, TypeOK
    <2>6. QED
        BY <2>3, <2>5 DEF TypeOK
<1>2. CASE \E c \in ChannelIds, r \in ChannelIds, w \in Windows :
              Step(ChannelOpenConfirmation(c, r, w))
    <2> SUFFICES ASSUME NEW c \in ChannelIds, NEW r \in ChannelIds, NEW w \in Windows,
                        Step(ChannelOpenConfirmation(c, r, w))
                 PROVE  TypeOK'
        BY <1>2
    <2>1. [recipient |-> r, rwin |-> w, confirmed |-> TRUE] \in ChannelRecs
        BY DEF ChannelRecs
    <2>2. CASE c \in DOMAIN channels
        <3>1. /\ channels' = [channels EXCEPT ![c] = [recipient |-> r, rwin |-> w,
                                                      confirmed |-> TRUE]]
              /\ lastCall' = [cb |-> "channel_open_confirmation", chan |-> c]
              /\ status' = status
              /\ npkts' = npkts + 1
            BY <2>2 DEF Step, ChannelOpenConfirmation
        <3>2. /\ DOMAIN channels' \subseteq ChannelIds
              /\ \A x \in DOMAIN channels' : channels'[x] \in ChannelRecs
            BY <2>1, <2>2, <3>1 DEF TypeOK
        <3>4. lastCall' \in [cb : Callbacks, chan : ChannelIds]
            BY <3>1 DEF Callbacks
        <3>5. status' \in {"running", "closed", "panicked"} /\ npkts' \in Nat
            BY <3>1 DEF TypeOK
        <3>6. QED
            BY <3>2, <3>4, <3>5 DEF TypeOK
    <2>3. CASE c \notin DOMAIN channels
        BY <2>3 DEF Step, ChannelOpenConfirmation, TypeOK
    <2>4. QED
        BY <2>2, <2>3
<1>3. CASE \E c \in ChannelIds : Step(ChannelClose(c))
    <2> SUFFICES ASSUME NEW c \in ChannelIds, Step(ChannelClose(c)) PROVE TypeOK'
        BY <1>3
    <2>1. channels' = MapRemove(channels, c)
        BY DEF Step, ChannelClose
    <2>2. /\ DOMAIN channels' = DOMAIN channels \ {c}
          /\ DOMAIN channels' \subseteq ChannelIds
          /\ \A x \in DOMAIN channels' : channels'[x] \in ChannelRecs
        BY <2>1, RemoveFacts DEF TypeOK, MapRemove, Restrict
    <2>4. lastCall' \in [cb : Callbacks, chan : ChannelIds]
        BY DEF Step, ChannelClose, Callbacks
    <2>5. QED
        BY <2>2, <2>4 DEF Step, ChannelClose, TypeOK
<1>4. CASE \E c \in ChannelIds : Step(ChannelEof(c))
    BY <1>4 DEF Step, ChannelEof, TypeOK, Callbacks
<1>5. CASE \E c \in ChannelIds, code \in ReasonCodes : Step(ChannelOpenFailure(c, code))
    <2> SUFFICES ASSUME NEW c \in ChannelIds, NEW code \in ReasonCodes,
                        Step(ChannelOpenFailure(c, code))
                 PROVE  TypeOK'
        BY <1>5
    <2>1. CASE code \in KnownReasons
        <3>1. channels' = MapRemove(channels, c)
            BY <2>1 DEF Step, ChannelOpenFailure
        <3>2. /\ DOMAIN channels' = DOMAIN channels \ {c}
              /\ DOMAIN channels' \subseteq ChannelIds
              /\ \A x \in DOMAIN channels' : channels'[x] \in ChannelRecs
            BY <3>1, RemoveFacts DEF TypeOK, MapRemove, Restrict
        <3>4. lastCall' \in [cb : Callbacks, chan : ChannelIds]
            BY <2>1 DEF Step, ChannelOpenFailure, Callbacks
        <3>5. QED
            BY <2>1, <3>2, <3>4 DEF Step, ChannelOpenFailure, TypeOK
    <2>2. CASE code \notin KnownReasons
        BY <2>2 DEF Step, ChannelOpenFailure, TypeOK
    <2>3. QED
        BY <2>1, <2>2
<1>6. CASE \E c \in ChannelIds, ext \in BOOLEAN : Step(ChannelData(c, ext))
    BY <1>6 DEF Step, ChannelData, TypeOK, Callbacks
<1>7. CASE \E c \in ChannelIds, n \in ClientRequests \cup {"unknown"} :
              Step(ChannelRequest(c, n))
    <2> SUFFICES ASSUME NEW c \in ChannelIds, NEW n \in ClientRequests \cup {"unknown"},
                        Step(ChannelRequest(c, n))
                 PROVE  TypeOK'
        BY <1>7
    <2>1. n \in ClientRequests => RequestCallback[n] \in Callbacks
        BY DEF RequestCallback, ClientRequests, Callbacks
    <2>2. QED
        BY <2>1 DEF Step, ChannelRequest, TypeOK
<1>8. CASE \E c \in ChannelIds, a \in Amounts : Step(WindowAdjust(c, a))
    <2> SUFFICES ASSUME NEW c \in ChannelIds, NEW a \in Amounts,
                        Step(WindowAdjust(c, a))
                 PROVE  TypeOK'
        BY <1>8
    <2>1. CASE c \in DOMAIN channels /\ ~(OverflowChecks /\ channels[c].rwin + a >= WindowMax)
        <3>1. channels' = [channels EXCEPT ![c].rwin = (channels[c].rwin + a) % WindowMax]
            BY <2>1 DEF Step, WindowAdjust
        <3>2. (channels[c].rwin + a) % WindowMax \in 0..(WindowMax - 1)
            BY <2>1, WindowMaxPositive DEF TypeOK, ChannelRecs
        <3>3. /\ DOMAIN channels' \subseteq ChannelIds
              /\ \A x \in DOMAIN channels' : channels'[x] \in ChannelRecs
            BY <2>1, <3>1, <3>2 DEF TypeOK, ChannelRecs
        <3>4. QED
            BY <2>1, <3>3 DEF Step, WindowAdjust, TypeOK, Callbacks
    <2>2. CASE ~(c \in DOMAIN channels /\ ~(OverflowChecks /\ channels[c].rwin + a >= WindowMax))
        BY <2>2 DEF Step, WindowAdjust, TypeOK
    <2>3. QED
        BY <2>1, <2>2
<1>9. CASE Step(IgnoredPacket) \/ Step(FatalError)
    BY <1>9 DEF Step, IgnoredPacket, FatalError, TypeOK
<1>10. CASE UNCHANGED vars
    BY <1>10 DEF vars, TypeOK
<1>11. QED
    BY <1>1, <1>2, <1>3, <1>4, <1>5, <1>6, <1>7, <1>8, <1>9, <1>10, ClientStepCases

(* Whatever the server sends, the client's channel table and the callback *)
(* record keep their types: in particular                                  *)
(* CHANNEL_WINDOW_ADJUST leaves recipient_window_size a WindowBits-bit     *)
(* value in every build.                                                   *)
THEOREM ClientChannelsTypeCorrect == Spec => []TypeOK
BY ClientInitType, ClientTypeStep, PTL DEF Spec


=============================================================================
