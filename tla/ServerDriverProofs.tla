------------------------ MODULE ServerDriverProofs ------------------------
(***************************************************************************)
(* Proofs about ServerDriver for every value of its constants: the type   *)
(* invariant, with the held-back application data bounded by what the    *)
(* application produced.  The key-exchange proofs are in                  *)
(* ServerDriverKexProofs.                                                  *)
(***************************************************************************)
EXTENDS ServerDriver, SequenceTheorems, TLAPS

(* What reply may return. *)
ResultRecs == [kex : KexSlots, exchange : BOOLEAN, encrypted : BOOLEAN,
               writes : Seq(Packets), err : BOOLEAN]

(* The type invariant, with the application's messages counted once:    *)
(* those held back and those still to come are at most MaxAppMsgs.       *)
TypeInv == TypeOK /\ held + appMsgs <= MaxAppMsgs

-----------------------------------------------------------------------------
(* Helpers.                                                                *)

(* DriverAssumption, one constant at a time. *)
LEMMA ConstantsNat ==
    /\ Delay \in Nat \cup {NoTimeout}
    /\ NoTimeout \notin Nat
    /\ MaxServerRekeys \in Nat /\ MaxClientRekeys \in Nat /\ MaxClientData \in Nat
    /\ MaxIgnores \in Nat /\ MaxAppMsgs \in Nat
BY DriverAssumption

(* The two bounds of the clock are numbers. *)
LEMMA CapsNat == TimerCap \in Nat /\ IdleCap \in Nat
BY DriverAssumption DEF TimerCap, IdleCap

(* A run of n DATA packets is a sequence of packets. *)
LEMMA DataRun ==
    ASSUME NEW n \in Nat
    PROVE  [i \in 1..n |-> "DATA"] \in Seq(Packets)
BY DEF Packets

(* The application's messages are counted once: a held count that does  *)
(* not grow, or grows by one as a message leaves the queue, keeps the sum *)
(* within the bound.                                                       *)
LEMMA HeldKept ==
    ASSUME NEW M \in Nat, NEW h \in 0..M, NEW a \in 0..M, h + a <= M, NEW h2 \in 0..h
    PROVE  h2 + a <= M /\ h2 \in 0..M
OBVIOUS

LEMMA HeldOneMore ==
    ASSUME NEW M \in Nat, NEW h \in 0..M, NEW a \in 1..M, h + a <= M,
           NEW h1 \in {h, h + 1}, NEW h2 \in 0..h1
    PROVE  h2 + (a - 1) <= M /\ h2 \in 0..M /\ a - 1 \in 0..M
OBVIOUS

(* reply returns a session of the right shape. *)
LEMMA ReplyType ==
    ASSUME TypeOK, NEW p \in Packets, NEW w \in DispatchWrites
    PROVE  Reply(p, w) \in ResultRecs
<1>1. Failed \in ResultRecs
    BY DEF Failed, ResultRecs, TypeOK
<1>2. ASSUME NEW k \in KexSlots, NEW x \in BOOLEAN, NEW e \in BOOLEAN,
             NEW wr \in Seq(Packets)
      PROVE  Result(k, x, e, wr) \in ResultRecs
    BY DEF Result, ResultRecs
<1>3. /\ <<>> \in Seq(Packets)
      /\ <<"KEXDH_REPLY">> \in Seq(Packets)
      /\ <<"KEXINIT">> \in Seq(Packets)
      /\ <<"DATA">> \in Seq(Packets)
    BY DEF Packets
<1>8. w \in Seq(Packets)
    <2>1. w = <<>> \/ w = <<"DATA">>
        BY DEF DispatchWrites
    <2>2. QED
        BY <1>3, <2>1
<1>4. /\ Dispatched(p, w) \in ResultRecs
      /\ NewKeysStep(p) \in ResultRecs
      /\ PeerRekey \in ResultRecs
    BY <1>1, <1>2, <1>3, <1>8 DEF Dispatched, NewKeysStep, PeerRekey, TypeOK, KexSlots
<1>5. /\ Result("KexDh", exchange, encrypted, <<>>) \in ResultRecs
      /\ Result("NewKeys", exchange, encrypted, <<"KEXDH_REPLY">>) \in ResultRecs
    BY <1>2, <1>3 DEF TypeOK, KexSlots
<1>6. /\ KexInitStep(p, w) \in ResultRecs
      /\ KexDhStep(p) \in ResultRecs
      /\ NoKexStep(p, w) \in ResultRecs
    BY <1>1, <1>4, <1>5 DEF KexInitStep, KexDhStep, NoKexStep
<1>7. QED
    BY <1>4, <1>6 DEF Reply, TypeOK, KexSlots

(* What the flush leaves, given a well-typed session r and a held count. *)
LEMMA FlushType ==
    ASSUME TypeOK, NEW r \in ResultRecs, NEW h \in 0..MaxAppMsgs, NEW rekey \in BOOLEAN,
           Flush(r, h, rekey)
    PROVE  /\ kex' \in KexSlots
           /\ exchange' \in BOOLEAN
           /\ encrypted' \in BOOLEAN
           /\ held' \in 0..h
           /\ toClient' \in Seq(Packets)
           /\ srekeys' \in 0..MaxServerRekeys
           /\ timer' \in 0..TimerCap
<1> USE ConstantsNat
<1> DEFINE release == r.kex = "None" /\ r.encrypted
           n == IF release THEN h ELSE 0
<1>1. /\ kex' \in KexSlots
      /\ exchange' \in BOOLEAN
      /\ encrypted' \in BOOLEAN
    BY DEF Flush, ResultRecs, KexSlots
<1>7. held' \in 0..h
    BY DEF Flush
<1>2. /\ srekeys' \in 0..MaxServerRekeys
      /\ timer' \in 0..TimerCap
    BY CapsNat DEF Flush, CanRekey, TypeOK
<1>3. toClient' = toClient \o r.writes \o [i \in 1..n |-> "DATA"]
                    \o (IF rekey THEN <<"KEXINIT">> ELSE <<>>)
    BY DEF Flush
<1>4. /\ [i \in 1..n |-> "DATA"] \in Seq(Packets)
      /\ toClient \in Seq(Packets)
      /\ r.writes \in Seq(Packets)
    <2>1. n \in Nat
        BY DEF n, release
    <2>2. QED
        BY <2>1, DataRun DEF TypeOK, ResultRecs
<1>8. (IF rekey THEN <<"KEXINIT">> ELSE <<>>) \in Seq(Packets)
    <2>1. <<"KEXINIT">> \in Seq(Packets) /\ <<>> \in Seq(Packets)
        BY DEF Packets
    <2>2. QED
        BY <2>1
<1>5. toClient' \in Seq(Packets)
    BY <1>3, <1>4, <1>8, ConcatProperties
<1>6. QED
    BY <1>1, <1>2, <1>5, <1>7

-----------------------------------------------------------------------------
(* Type correctness.                                                       *)

LEMMA InitType == Init => TypeInv
<1> SUFFICES ASSUME Init PROVE TypeInv
    OBVIOUS
<1> USE ConstantsNat, CapsNat
<1>1. /\ kex \in KexSlots /\ exchange \in BOOLEAN /\ encrypted \in BOOLEAN
      /\ status \in {"running", "disconnected", "timedout", "error"}
    BY Zenon DEF Init, KexSlots
<1>2. timer \in 0..TimerCap /\ idle \in 0..IdleCap
    BY DEF Init
<1>3. toServer \in Seq(Packets) /\ toClient \in Seq(Packets)
    BY DEF Init, Packets
<1>4. /\ appMsgs \in 0..MaxAppMsgs /\ held \in 0..MaxAppMsgs /\ srekeys \in 0..MaxServerRekeys
      /\ held + appMsgs <= MaxAppMsgs
    BY DEF Init
<1>5. pk \in {"Idle", "SentKexinit", "SentDh"} /\ cEncrypted \in BOOLEAN
    BY Zenon DEF Init
<1>6. csent \in [rekeys : 0..MaxClientRekeys, data : 0..MaxClientData,
                 ignores : 0..MaxIgnores]
    BY DEF Init
<1>7. QED
    BY <1>1, <1>2, <1>3, <1>4, <1>5, <1>6 DEF TypeInv, TypeOK

(* The client's packets are packets. *)
LEMMA ClientPackets ==
    /\ <<"KEXINIT", "KEXDH_INIT">> \in Seq(Packets)
    /\ "KEXINIT" \in Packets /\ "KEXDH_INIT" \in Packets /\ "NEWKEYS" \in Packets
    /\ "DATA" \in Packets /\ "IGNORE" \in Packets /\ "DISCONNECT" \in Packets
BY DEF Packets

(* The type invariant in two halves: the Boolean flags, which Zenon      *)
(* handles, and the rest, which SMT does.                                 *)
BoolsOK == exchange \in BOOLEAN /\ encrypted \in BOOLEAN /\ cEncrypted \in BOOLEAN

RestOK ==
    /\ kex \in KexSlots
    /\ status \in {"running", "disconnected", "timedout", "error"}
    /\ timer \in 0..TimerCap
    /\ idle \in 0..IdleCap
    /\ toServer \in Seq(Packets)
    /\ toClient \in Seq(Packets)
    /\ appMsgs \in 0..MaxAppMsgs
    /\ held \in 0..MaxAppMsgs
    /\ srekeys \in 0..MaxServerRekeys
    /\ pk \in {"Idle", "SentKexinit", "SentDh"}
    /\ csent \in [rekeys : 0..MaxClientRekeys, data : 0..MaxClientData,
                  ignores : 0..MaxIgnores]
    /\ held + appMsgs <= MaxAppMsgs

LEMMA TypeStep == TypeInv /\ [Next]_vars => TypeInv'
<1> SUFFICES ASSUME TypeInv, [Next]_vars PROVE BoolsOK' /\ RestOK'
    BY Zenon DEF TypeInv, TypeOK, BoolsOK, RestOK
<1>0. BoolsOK /\ RestOK
    BY Zenon DEF TypeInv, TypeOK, BoolsOK, RestOK
<1> USE ConstantsNat, CapsNat
<1>8. /\ held \in 0..MaxAppMsgs /\ appMsgs \in 0..MaxAppMsgs
      /\ held + appMsgs <= MaxAppMsgs
      /\ csent.rekeys \in 0..MaxClientRekeys /\ csent.data \in 0..MaxClientData
      /\ csent.ignores \in 0..MaxIgnores
    BY <1>0 DEF RestOK
<1>1. CASE ServerRead
    <2> DEFINE p == Head(toServer)
    <2>1. /\ p \in Packets
          /\ toServer' = Tail(toServer)
          /\ Tail(toServer) \in Seq(Packets)
          /\ idle' = 0
          /\ UNCHANGED <<appMsgs, pk, csent>>
        BY <1>0, <1>1 DEF ServerRead, RestOK
    <2>2. cEncrypted' = cEncrypted
        BY <1>1 DEF ServerRead
    <2>3. CASE UNCHANGED <<kex, exchange, encrypted, held, srekeys, toClient>>
               /\ status' \in {"running", "disconnected", "error"}
               /\ timer' \in {timer, 0}
        <3>1. BoolsOK'
            BY Zenon, <1>0, <2>2, <2>3 DEF BoolsOK
        <3>2. RestOK'
            BY <1>0, <2>1, <2>3 DEF RestOK
        <3>3. QED
            BY <3>1, <3>2
    <2>4. CASE /\ \E w \in DispatchWrites, rekey \in BOOLEAN : Flush(Reply(p, w), held, rekey)
               /\ UNCHANGED status
        <3>1. PICK w \in DispatchWrites, rekey \in BOOLEAN : Flush(Reply(p, w), held, rekey)
            BY <2>4
        <3>2. Reply(p, w) \in ResultRecs
            BY <1>0, <2>1, ReplyType DEF TypeInv
        <3>3. held \in 0..MaxAppMsgs
            BY <1>0 DEF RestOK
        <3>4. /\ kex' \in KexSlots
              /\ exchange' \in BOOLEAN
              /\ encrypted' \in BOOLEAN
              /\ held' \in 0..held
              /\ toClient' \in Seq(Packets)
              /\ srekeys' \in 0..MaxServerRekeys
              /\ timer' \in 0..TimerCap
            BY <3>1, <3>2, <3>3, FlushType DEF TypeInv
        <3>10. /\ kex' \in KexSlots
               /\ held' \in 0..held
               /\ toClient' \in Seq(Packets)
               /\ srekeys' \in 0..MaxServerRekeys
               /\ timer' \in 0..TimerCap
            BY Zenon, <3>4
        <3>11. held' \in 0..held
            BY Zenon, <3>4
        <3>5. BoolsOK'
            BY Zenon, <1>0, <2>2, <3>4 DEF BoolsOK
        <3>6. /\ held' + appMsgs' <= MaxAppMsgs
              /\ appMsgs' \in 0..MaxAppMsgs
              /\ held' \in 0..MaxAppMsgs
            <4>1. appMsgs' = appMsgs
                BY <2>1
            <4>3. held' + appMsgs <= MaxAppMsgs /\ held' \in 0..MaxAppMsgs
                BY <1>8, <3>11, HeldKept
            <4>2. QED
                BY <1>8, <4>1, <4>3
        <3>7. /\ status' \in {"running", "disconnected", "timedout", "error"}
              /\ idle' \in 0..IdleCap
              /\ pk' \in {"Idle", "SentKexinit", "SentDh"}
              /\ csent' \in [rekeys : 0..MaxClientRekeys, data : 0..MaxClientData,
                             ignores : 0..MaxIgnores]
              /\ toServer' \in Seq(Packets)
            BY <1>0, <2>1, <2>4 DEF RestOK
        <3>8. RestOK'
            BY <3>10, <3>6, <3>7 DEF RestOK
        <3>9. QED
            BY <3>5, <3>8
    <2>5. QED
        BY <1>1, <2>3, <2>4 DEF ServerRead
<1>2. CASE AppMessage
    <2> DEFINE now == encrypted /\ kex = "None"
               r == Result(kex, exchange, encrypted, IF now THEN <<"DATA">> ELSE <<>>)
               h == IF now THEN held ELSE held + 1
    <2>1. PICK rekey \in BOOLEAN : Flush(r, h, rekey)
        BY <1>2 DEF AppMessage
    <2>2. r \in ResultRecs
        <3>1. <<"DATA">> \in Seq(Packets) /\ <<>> \in Seq(Packets)
            BY DEF Packets
        <3>2. (IF now THEN <<"DATA">> ELSE <<>>) \in Seq(Packets)
            BY <3>1
        <3>3. QED
            BY Zenon, <1>0, <3>2 DEF Result, ResultRecs, BoolsOK, RestOK
    <2>3. /\ appMsgs > 0
          /\ appMsgs' = appMsgs - 1
          /\ UNCHANGED <<status, idle, toServer, pk, cEncrypted, csent>>
        BY <1>2 DEF AppMessage
    <2>4. h \in 0..MaxAppMsgs
        BY <1>0, <2>3 DEF RestOK
    <2>5. /\ kex' \in KexSlots
          /\ exchange' \in BOOLEAN
          /\ encrypted' \in BOOLEAN
          /\ held' \in 0..h
          /\ toClient' \in Seq(Packets)
          /\ srekeys' \in 0..MaxServerRekeys
          /\ timer' \in 0..TimerCap
        BY <2>1, <2>2, <2>4, FlushType DEF TypeInv
    <2>11. /\ kex' \in KexSlots
           /\ held' \in 0..h
           /\ toClient' \in Seq(Packets)
           /\ srekeys' \in 0..MaxServerRekeys
           /\ timer' \in 0..TimerCap
        BY Zenon, <2>5
    <2>12. held' \in 0..h
        BY Zenon, <2>5
    <2>6. BoolsOK'
        BY Zenon, <1>0, <2>3, <2>5 DEF BoolsOK
    <2>7. /\ held' + appMsgs' <= MaxAppMsgs
          /\ appMsgs' \in 0..MaxAppMsgs
          /\ held' \in 0..MaxAppMsgs
        <3>1. h \in {held, held + 1}
            BY Zenon DEF h
        <3>2. appMsgs \in 1..MaxAppMsgs
            BY <1>8, <2>3
        <3>3. held' + (appMsgs - 1) <= MaxAppMsgs /\ held' \in 0..MaxAppMsgs
              /\ appMsgs - 1 \in 0..MaxAppMsgs
            BY <1>8, <2>12, <3>1, <3>2, HeldOneMore
        <3>4. QED
            BY <2>3, <3>3
    <2>9. /\ status' \in {"running", "disconnected", "timedout", "error"}
          /\ idle' \in 0..IdleCap
          /\ pk' \in {"Idle", "SentKexinit", "SentDh"}
          /\ csent' \in [rekeys : 0..MaxClientRekeys, data : 0..MaxClientData,
                         ignores : 0..MaxIgnores]
          /\ toServer' \in Seq(Packets)
        BY <1>0, <2>3 DEF RestOK
    <2>10. RestOK'
        BY <2>11, <2>7, <2>9 DEF RestOK
    <2>8. QED
        BY <2>6, <2>10
<1>3. CASE Timeout \/ Tick
    <2>1. BoolsOK'
        BY Zenon, <1>0, <1>3 DEF Timeout, Tick, BoolsOK
    <2>2. RestOK'
        <3>1. CASE Timeout
            BY <1>0, <3>1 DEF Timeout, RestOK
        <3>2. CASE Tick
            <4>1. /\ Delay \in Nat
                  /\ TimerCap = Delay
                  /\ IdleCap = Delay + 1
                  /\ timer' = timer + 1
                  /\ timer < Delay
                BY <3>2 DEF Tick, TimerCap, IdleCap
            <4>5. /\ idle' = IF idle < IdleCap THEN idle + 1 ELSE idle
                  /\ UNCHANGED <<kex, status, toServer, toClient, appMsgs, held, srekeys,
                                 pk, csent>>
                BY Zenon, <3>2 DEF Tick
            <4>2. timer' \in 0..TimerCap /\ idle' \in 0..IdleCap
                BY <1>0, <4>1, <4>5 DEF RestOK
            <4>3. QED
                BY <1>0, <4>2, <4>5 DEF RestOK
        <3>3. QED
            BY <1>3, <3>1, <3>2
    <2>3. QED
        BY <2>1, <2>2
<1>4. CASE ClientStartKex \/ ClientData \/ ClientIgnore \/ ClientDisconnect
    <2>1. BoolsOK'
        BY Zenon, <1>0, <1>4 DEF ClientStartKex, ClientData, ClientIgnore,
                                 ClientDisconnect, BoolsOK
    <2>2. ASSUME NEW x \in Packets, toServer' = Append(toServer, x)
          PROVE  toServer' \in Seq(Packets)
        BY <1>0, <2>2 DEF RestOK
    <2>3. csent = [rekeys |-> csent.rekeys, data |-> csent.data, ignores |-> csent.ignores]
        BY <1>0 DEF RestOK
    <2>4. RestOK'
        <3>1. CASE ClientStartKex
            <4>1. csent' = [rekeys |-> csent.rekeys + 1, data |-> csent.data,
                               ignores |-> csent.ignores]
                BY <2>3, <3>1 DEF ClientStartKex
            <4>5. csent.rekeys < MaxClientRekeys
                BY Zenon, <3>1 DEF ClientStartKex
            <4>2. csent' \in [rekeys : 0..MaxClientRekeys, data : 0..MaxClientData,
                              ignores : 0..MaxIgnores]
                BY <1>8, <4>1, <4>5
            <4>3. toServer' \in Seq(Packets)
                BY <2>2, <3>1, ClientPackets DEF ClientStartKex
            <4>4. QED
                BY <1>0, <3>1, <4>2, <4>3 DEF ClientStartKex, RestOK
        <3>2. CASE ClientData
            <4>1. csent' = [rekeys |-> csent.rekeys, data |-> csent.data + 1,
                               ignores |-> csent.ignores]
                BY <2>3, <3>2 DEF ClientData
            <4>5. csent.data < MaxClientData
                BY Zenon, <3>2 DEF ClientData
            <4>2. csent' \in [rekeys : 0..MaxClientRekeys, data : 0..MaxClientData,
                              ignores : 0..MaxIgnores]
                BY <1>8, <4>1, <4>5
            <4>3. toServer' \in Seq(Packets)
                BY <2>2, <3>2, ClientPackets DEF ClientData
            <4>4. QED
                BY <1>0, <3>2, <4>2, <4>3 DEF ClientData, RestOK
        <3>3. CASE ClientIgnore
            <4>1. csent' = [rekeys |-> csent.rekeys, data |-> csent.data,
                               ignores |-> csent.ignores + 1]
                BY <2>3, <3>3 DEF ClientIgnore
            <4>5. csent.ignores < MaxIgnores
                BY Zenon, <3>3 DEF ClientIgnore
            <4>2. csent' \in [rekeys : 0..MaxClientRekeys, data : 0..MaxClientData,
                              ignores : 0..MaxIgnores]
                BY <1>8, <4>1, <4>5
            <4>3. toServer' \in Seq(Packets)
                BY <2>2, <3>3, ClientPackets DEF ClientIgnore
            <4>4. QED
                BY <1>0, <3>3, <4>2, <4>3 DEF ClientIgnore, RestOK
        <3>4. CASE ClientDisconnect
            <4>1. csent' = [rekeys |-> csent.rekeys, data |-> csent.data,
                               ignores |-> MaxIgnores]
                BY <2>3, <3>4 DEF ClientDisconnect
            <4>5. csent.ignores < MaxIgnores
                BY Zenon, <3>4 DEF ClientDisconnect
            <4>2. csent' \in [rekeys : 0..MaxClientRekeys, data : 0..MaxClientData,
                              ignores : 0..MaxIgnores]
                BY <1>8, <4>1, <4>5
            <4>3. toServer' \in Seq(Packets)
                BY <2>2, <3>4, ClientPackets DEF ClientDisconnect
            <4>4. QED
                BY <1>0, <3>4, <4>2, <4>3 DEF ClientDisconnect, RestOK
        <3>5. QED
            BY <1>4, <3>1, <3>2, <3>3, <3>4
    <2>5. QED
        BY <2>1, <2>4
<1>5. CASE ClientRead
    <2>1. BoolsOK'
        BY Zenon, <1>0, <1>5 DEF ClientRead, BoolsOK
    <2>2. /\ toClient' \in Seq(Packets)
          /\ UNCHANGED <<kex, status, timer, idle, appMsgs, held, srekeys, csent>>
        BY <1>0, <1>5 DEF ClientRead, RestOK
    <2>3. /\ toServer' \in Seq(Packets)
          /\ pk' \in {"Idle", "SentKexinit", "SentDh"}
        <3>1. /\ toServer \o <<"KEXINIT", "KEXDH_INIT">> \in Seq(Packets)
              /\ Append(toServer, "KEXDH_INIT") \in Seq(Packets)
              /\ Append(toServer, "NEWKEYS") \in Seq(Packets)
            BY <1>0, ClientPackets DEF RestOK
        <3>2. QED
            BY <1>0, <1>5, <3>1 DEF ClientRead, RestOK
    <2>4. RestOK'
        BY <1>0, <2>2, <2>3 DEF RestOK
    <2>5. QED
        BY <2>1, <2>4
<1>6. CASE Terminated \/ UNCHANGED vars
    <2>1. BoolsOK'
        BY Zenon, <1>0, <1>6 DEF Terminated, vars, BoolsOK
    <2>2. RestOK'
        BY <1>0, <1>6 DEF Terminated, vars, RestOK
    <2>3. QED
        BY <2>1, <2>2
<1>7. QED
    BY <1>1, <1>2, <1>3, <1>4, <1>5, <1>6 DEF Next

(* ServerDriver is well typed for every value of its constants: the kex  *)
(* slot, the queues, the clock and the counters stay in their ranges      *)
(* through every step of run_stream, reply and the client.                *)
THEOREM DriverTypeCorrect == Spec => []TypeOK
<1>1. Init => TypeInv
    BY InitType
<1>2. TypeInv /\ [Next]_vars => TypeInv'
    BY TypeStep
<1>3. TypeInv => TypeOK
    BY DEF TypeInv
<1>4. QED
    BY <1>1, <1>2, <1>3, PTL DEF Spec

-----------------------------------------------------------------------------
(* A fact about reply that ServerDriverKexProofs rests on.                *)

(* Whether reply fails does not depend on what the dispatch writes. *)
LEMMA ErrSame ==
    ASSUME TypeOK, NEW p, NEW w
    PROVE  Reply(p, w).err = Reply(p, <<>>).err
<1>4. /\ Dispatched(p, w).err = FALSE /\ Dispatched(p, <<>>).err = FALSE
      /\ PeerRekey.err = FALSE
      /\ ~Result("KexDh", exchange, encrypted, <<>>).err
    BY DEF Dispatched, PeerRekey, Result
<1>1. Failed.err
    BY DEF Failed
<1>5. KexInitStep(p, w).err = KexInitStep(p, <<>>).err
    <2>1. CASE p = "KEXINIT"
        <3>1. /\ KexInitStep(p, w) = Result("KexDh", exchange, encrypted, <<>>)
              /\ KexInitStep(p, <<>>) = Result("KexDh", exchange, encrypted, <<>>)
            BY <2>1 DEF KexInitStep
        <3>2. QED
            BY <3>1
    <2>2. CASE p # "KEXINIT" /\ ~encrypted
        <3>1. KexInitStep(p, w) = Failed /\ KexInitStep(p, <<>>) = Failed
            BY <2>2 DEF KexInitStep
        <3>2. QED
            BY <3>1
    <2>3. CASE p # "KEXINIT" /\ encrypted
        <3>1. KexInitStep(p, w) = Dispatched(p, w) /\ KexInitStep(p, <<>>) = Dispatched(p, <<>>)
            BY <2>3 DEF KexInitStep
        <3>2. QED
            BY <3>1, <1>4
    <2>4. QED
        BY <2>1, <2>2, <2>3
<1>6. NoKexStep(p, w).err = NoKexStep(p, <<>>).err
    <2>1. CASE p = "KEXINIT"
        <3>1. NoKexStep(p, w) = PeerRekey /\ NoKexStep(p, <<>>) = PeerRekey
            BY <2>1 DEF NoKexStep
        <3>2. QED
            BY <3>1
    <2>2. CASE p # "KEXINIT"
        <3>1. NoKexStep(p, w) = Dispatched(p, w) /\ NoKexStep(p, <<>>) = Dispatched(p, <<>>)
            BY <2>2 DEF NoKexStep
        <3>2. QED
            BY <3>1, <1>4
    <2>3. QED
        BY <2>1, <2>2
<1>2. /\ KexInitStep(p, w).err = KexInitStep(p, <<>>).err
      /\ NoKexStep(p, w).err = NoKexStep(p, <<>>).err
    BY <1>5, <1>6
<1>3. QED
    BY <1>2 DEF Reply, TypeOK, KexSlots

=============================================================================
