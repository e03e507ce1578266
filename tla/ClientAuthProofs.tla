-------------------------- MODULE ClientAuthProofs --------------------------
(***************************************************************************)
(* Proofs about ClientAuth for every set of users and keys and every      *)
(* bound: the type invariant, QueuedWritten and SignedAfterProbe.          *)
(***************************************************************************)
EXTENDS ClientAuth, Integers, SequenceTheorems, FiniteSetTheorems, TLAPS

(* The requests equal to r among the first i packets of s. *)
Cnt(s, r, i) == Cardinality({j \in 1..i : s[j] = r})

(* Probes written in s for <<u, k>> and not yet used up by a signed       *)
(* request, and the same for the packets written so far.                   *)
ProbesIn(s, u, k) == Cnt(s, PkRequest(u, k, FALSE), Len(s))
SignedIn(s, u, k) == Cnt(s, PkRequest(u, k, TRUE), Len(s))
CreditOf(s, u, k) == ProbesIn(s, u, k) - SignedIn(s, u, k)
Credit(u, k) == CreditOf(out, u, k)

(* The signature wait runs only after PK_OK took the queued method.        *)
WaitEmptiesQueue == signing # NoSign => auth_method = NoMethod

(* Probes written for <<u, k>> are never outnumbered by signed requests. *)
CreditNonNeg == \A u \in Users, k \in Keys : Credit(u, k) >= 0

(* A publickey method queued in WaitingAuthRequest has a probe the server *)
(* has not yet seen signed: PK_OK may sign for it.                         *)
QueuedCredit ==
    (cstate = "WaitingAuthRequest" /\ auth_method.kind \in {"PublicKey", "FuturePublicKey"})
        => Credit(auth_user, auth_method.key) >= 1

(* So has the key the signature wait signs for.                            *)
WaitCredit == signing # NoSign => Credit(signing.user, signing.key) >= 1

CreditKept == CreditNonNeg /\ QueuedCredit /\ WaitCredit

(* A queued method always comes with the user the application gave.      *)
QueuedUser == auth_method # NoMethod => auth_user \in Users

TInv == TypeOK /\ QueuedUser

QInv == TInv /\ WaitEmptiesQueue /\ QueuedWritten

SInv == TInv /\ WaitEmptiesQueue /\ CreditKept /\ SignedAfterProbe

-----------------------------------------------------------------------------
(* Every step of Next, as one case each, with its parameters. *)
LEMMA ClientAuthStepCases ==
    ASSUME [Next]_cvars
    PROVE  \/ \E svc \in {"ssh-userauth", "other"} : Step(ReadServiceAccept(svc))
           \/ Step(ReadUserauthSuccess)
           \/ Step(ReadUserauthBanner)
           \/ \E m \in {{}, {"password"}, {"publickey"}} : Step(ReadUserauthFailure(m))
           \/ Step(ReadUserauthPkOk)
           \/ Step(FatalPacket)
           \/ Step(AuthenticatedPacket)
           \/ \E u \in Users, m \in AuthMethods : Step(WriteAuthRequestIfNeeded(u, m))
           \/ \E modified \in BOOLEAN : WaitStep(SignedReply(modified))
           \/ WaitStep(SignWaitOther)
           \/ DropHandle
           \/ UNCHANGED cvars
BY DEF Next, Terminated

-----------------------------------------------------------------------------
(* Type correctness. *)

(* write_auth_request writes a packet of the trace's type. *)
LEMMA AuthRequestType ==
    ASSUME NEW u \in Users, NEW m \in AuthMethods
    PROVE  AuthRequestFor(u, m) \in ClientMsgs
BY DEF AuthRequestFor, AuthMethods, ClientMsgs, PasswordRequest, PkRequest

(* The wait is for a user and a key. *)
LEMMA SigningRecord ==
    ASSUME signing \in Signings, signing # NoSign
    PROVE  signing.user \in Users /\ signing.key \in Keys
BY DEF Signings

(* The flags keep their Boolean types. *)
FlagsOK == accepted \in BOOLEAN /\ appGone \in BOOLEAN

(* The other conjuncts of TInv. *)
DataOK ==
    /\ cstate \in ClientStates
    /\ auth_user \in Users \cup {EmptyUser}
    /\ auth_method \in AuthMethods \cup {NoMethod}
    /\ out \in Seq(ClientMsgs)
    /\ replies \in Seq(Replies)
    /\ signing \in Signings
    /\ status \in {"running", "closed"}
    /\ npkts \in Nat
    /\ QueuedUser

LEMMA TInvSplit == TInv <=> FlagsOK /\ DataOK
BY Zenon DEF TInv, TypeOK, FlagsOK, DataOK

(* No step makes a flag anything but a Boolean. *)
LEMMA FlagsStep ==
    ASSUME FlagsOK, [Next]_cvars
    PROVE  FlagsOK'
<1>1. accepted' \in {accepted, TRUE} /\ appGone' \in {appGone, TRUE}
    BY Zenon DEF Next, Terminated, Step, WaitStep, cvars, ReadServiceAccept,
           ReadUserauthSuccess, ReadUserauthBanner, ReadUserauthFailure,
           ReadUserauthPkOk, FatalPacket, AuthenticatedPacket,
           WriteAuthRequestIfNeeded, SignedReply, SignWaitOther, DropHandle
<1>2. QED
    BY <1>1, Zenon DEF FlagsOK

(* Every step keeps the other conjuncts, one case per action. *)
LEMMA DataStep ==
    ASSUME FlagsOK, DataOK, [Next]_cvars
    PROVE  DataOK'
<1> USE DEF DataOK, QueuedUser, Step, WaitStep
<1>1. ASSUME NEW svc \in {"ssh-userauth", "other"}, Step(ReadServiceAccept(svc))
      PROVE  DataOK'
    <2>1. CASE svc = "ssh-userauth" /\ auth_method # NoMethod
        <3>1. AuthRequestFor(auth_user, auth_method) \in ClientMsgs
            BY <2>1, AuthRequestType
        <3>2. QED
            BY <1>1, <2>1, <3>1 DEF ReadServiceAccept, WriteAuthRequest, ClientStates
    <2>4. CASE ~(svc = "ssh-userauth" /\ auth_method # NoMethod)
        BY <1>1, <2>4 DEF ReadServiceAccept
    <2>5. QED
        BY <2>1, <2>4
<1>2. CASE Step(ReadUserauthSuccess)
    BY <1>2 DEF ReadUserauthSuccess, SendReply, Replies, ClientStates
<1>3. CASE Step(ReadUserauthBanner)
    BY <1>3 DEF ReadUserauthBanner
<1>4. ASSUME NEW m \in {{}, {"password"}, {"publickey"}}, Step(ReadUserauthFailure(m))
      PROVE  DataOK'
    BY <1>4 DEF ReadUserauthFailure, Replies
<1>5. CASE Step(ReadUserauthPkOk)
    <2>1. CASE auth_method.kind = "PublicKey"
        <3>1. auth_method.key \in Keys /\ auth_user \in Users
            BY <2>1 DEF AuthMethods, NoMethod
        <3>2. /\ out' = Append(out, PkRequest(auth_user, auth_method.key, TRUE))
              /\ auth_method' = NoMethod
              /\ UNCHANGED <<cstate, auth_user, replies, signing, status>>
              /\ npkts' = npkts + 1
            BY <1>5, <2>1, Zenon DEF ReadUserauthPkOk
        <3>3. QED
            BY <3>1, <3>2 DEF ClientMsgs, PkRequest
    <2>4. CASE auth_method.kind = "FuturePublicKey"
        <3>1. auth_method.key \in Keys /\ auth_user \in Users
            BY <2>4 DEF AuthMethods, NoMethod
        <3>2. auth_method.kind # "PublicKey"
            BY <2>4
        <3>3. /\ auth_method' = NoMethod
              /\ UNCHANGED <<cstate, auth_user, out>>
              /\ npkts' = npkts + 1
              /\ SendReply([type |-> "SignRequest", key |-> auth_method.key])
              /\ signing' = IF appGone THEN signing
                            ELSE [user |-> auth_user, key |-> auth_method.key]
            BY <1>5, <2>4, <3>2, Zenon DEF ReadUserauthPkOk
        <3>4. [type |-> "SignRequest", key |-> auth_method.key] \in Replies
            BY <3>1 DEF Replies
        <3>5. replies' \in Seq(Replies) /\ status' \in {"running", "closed"}
            <4>1. CASE appGone
                BY <3>3, <4>1 DEF SendReply
            <4>2. CASE ~appGone
                <5>1. replies' = Append(replies, [type |-> "SignRequest", key |-> auth_method.key])
                      /\ status' = status
                    BY <3>3, <4>2, Zenon DEF SendReply
                <5>2. QED
                    BY <3>4, <5>1, SMT
            <4>3. QED
                BY <4>1, <4>2
        <3>6. signing' \in Signings
            BY <3>1, <3>3 DEF Signings
        <3>7. QED
            BY <3>3, <3>5, <3>6
    <2>7. CASE auth_method.kind \notin {"PublicKey", "FuturePublicKey"}
        <3>1. auth_method.kind # "PublicKey" /\ auth_method.kind # "FuturePublicKey"
            BY <2>7
        <3>2. /\ auth_method' = NoMethod
              /\ UNCHANGED <<cstate, auth_user, out, replies, signing, status>>
              /\ npkts' = npkts + 1
            BY <1>5, <3>1, Zenon DEF ReadUserauthPkOk
        <3>3. QED
            BY <3>2
    <2>8. QED
        BY <2>1, <2>4, <2>7
<1>6. CASE Step(FatalPacket)
    BY <1>6 DEF FatalPacket
<1>7. CASE Step(AuthenticatedPacket)
    BY <1>7 DEF AuthenticatedPacket
<1>8. ASSUME NEW u \in Users, NEW m \in AuthMethods, Step(WriteAuthRequestIfNeeded(u, m))
      PROVE  DataOK'
    <2>1. AuthRequestFor(u, m) \in ClientMsgs
        BY AuthRequestType
    <2>2. /\ out' \in {out, Append(out, AuthRequestFor(u, m))}
          /\ auth_user' = u /\ auth_method' = m
          /\ UNCHANGED <<cstate, replies, signing, status>>
          /\ npkts' = npkts + 1
        BY <1>8, Zenon DEF WriteAuthRequestIfNeeded, WriteAuthRequest
    <2>3. QED
        BY <2>1, <2>2 DEF AuthMethods, NoMethod
<1>9. ASSUME NEW modified \in BOOLEAN, WaitStep(SignedReply(modified))
      PROVE  DataOK'
    <2>1. signing.user \in Users /\ signing.key \in Keys
        BY <1>9, SigningRecord DEF SignedReply
    <2>2. /\ out' \in {out, Append(out, PkRequest(signing.user, signing.key, TRUE))}
          /\ signing' = NoSign
          /\ UNCHANGED <<cstate, auth_user, auth_method, replies, status, npkts>>
        BY <1>9, Zenon DEF SignedReply
    <2>3. PkRequest(signing.user, signing.key, TRUE) \in ClientMsgs
        BY <2>1 DEF ClientMsgs, PkRequest
    <2>4. out' \in Seq(ClientMsgs)
        <3> DEFINE x == PkRequest(signing.user, signing.key, TRUE)
        <3>1. out \in Seq(ClientMsgs)
            OBVIOUS
        <3>2. Append(out, x) \in Seq(ClientMsgs)
            BY <2>3, <3>1, AppendProperties DEF x
        <3>3. QED
            BY <2>2, <3>1, <3>2, Zenon DEF x
    <2>5. QED
        BY <2>2, <2>4 DEF Signings
<1>10. CASE WaitStep(SignWaitOther)
    BY <1>10 DEF SignWaitOther, cvars
<1>11. CASE DropHandle
    BY <1>11 DEF DropHandle
<1>12. CASE UNCHANGED cvars
    BY <1>12 DEF cvars
<1>13. QED
    BY <1>1, <1>2, <1>3, <1>4, <1>5, <1>6, <1>7, <1>8, <1>9, <1>10, <1>11, <1>12,
       ClientAuthStepCases

LEMMA ClientInitType == Init => TInv
<1> SUFFICES ASSUME Init PROVE FlagsOK /\ DataOK
    BY TInvSplit
<1>1. FlagsOK
    BY Zenon DEF Init, FlagsOK
<1>2. DataOK
    BY DEF Init, DataOK, QueuedUser, ClientStates, ClientMsgs, ServiceRequest, Signings
<1>3. QED
    BY <1>1, <1>2

(* Every step keeps the type invariant and QueuedUser. *)
LEMMA TInvStep ==
    ASSUME TInv, [Next]_cvars
    PROVE  TInv'
<1>1. TInv' <=> FlagsOK' /\ DataOK'
    BY Zenon DEF TInv, TypeOK, FlagsOK, DataOK
<1>2. QED
    BY <1>1, TInvSplit, FlagsStep, DataStep

(* Whatever the server sends and whatever the application calls, the      *)
(* client's authentication state, queued request, written packets and     *)
(* replies keep their types; in particular a queued method always has its *)
(* user, so write_auth_request never writes a request for no one.         *)
THEOREM ClientAuthTypeCorrect == Spec => []TypeOK
<1>1. Init => TInv
    BY ClientInitType
<1>2. TInv /\ [Next]_cvars => TInv'
    BY TInvStep
<1>3. TInv => TypeOK
    BY DEF TInv
<1>4. QED
    BY <1>1, <1>2, <1>3, PTL DEF Spec

-----------------------------------------------------------------------------
(* Counting requests in the trace.                                         *)

(* A count is a natural number. *)
LEMMA CntNat ==
    ASSUME NEW s, NEW r, NEW i \in Nat
    PROVE  /\ IsFiniteSet({j \in 1..i : s[j] = r})
           /\ Cnt(s, r, i) \in Nat
<1>1. IsFiniteSet(1..i)
    BY FS_Interval
<1>2. IsFiniteSet({j \in 1..i : s[j] = r})
    BY <1>1, FS_Subset
<1>3. QED
    BY <1>2, FS_CardinalityType DEF Cnt

(* Appending leaves the counts of the old prefixes alone. *)
LEMMA CntPrefix ==
    ASSUME NEW S, NEW s \in Seq(S), NEW x, NEW r, NEW i \in 0..Len(s)
    PROVE  Cnt(Append(s, x), r, i) = Cnt(s, r, i)
<1>1. {j \in 1..i : Append(s, x)[j] = r} = {j \in 1..i : s[j] = r}
    OBVIOUS
<1>2. QED
    BY <1>1 DEF Cnt

(* Appending x adds one to the count of x and to no other count. *)
LEMMA CntLast ==
    ASSUME NEW S, NEW s \in Seq(S), NEW x, NEW r
    PROVE  Cnt(Append(s, x), r, Len(s) + 1) = Cnt(s, r, Len(s)) + (IF x = r THEN 1 ELSE 0)
<1> DEFINE A == {j \in 1..Len(s) : s[j] = r}
           B == {j \in 1..Len(s) + 1 : Append(s, x)[j] = r}
<1>1. IsFiniteSet(A) /\ Cardinality(A) \in Nat
    <2>1. Len(s) \in Nat
        OBVIOUS
    <2>2. QED
        BY <2>1, CntNat DEF Cnt, A
<1>2. CASE x = r
    <2>1. B = A \cup {Len(s) + 1} /\ Len(s) + 1 \notin A
        BY <1>2
    <2>2. Cardinality(B) = Cardinality(A) + 1
        BY <1>1, <2>1, FS_AddElement
    <2>3. QED
        BY <1>2, <2>2 DEF Cnt
<1>3. CASE x # r
    <2>1. B = A
        BY <1>3
    <2>2. Cnt(Append(s, x), r, Len(s) + 1) = Cnt(s, r, Len(s))
        BY <2>1 DEF Cnt, A, B
    <2>3. (IF x = r THEN 1 ELSE 0) = 0
        BY <1>3
    <2>4. Cnt(s, r, Len(s)) \in Nat
        BY <1>1 DEF Cnt, A
    <2>5. QED
        BY <2>2, <2>3, <2>4
<1>4. QED
    BY <1>2, <1>3

-----------------------------------------------------------------------------
(* QueuedWritten.                                                          *)

(* The state QueuedWritten reads. *)
qvars == <<cstate, accepted, auth_user, auth_method, out>>

(* r is the last authentication request of s. *)
LastReq(s, r) ==
    \E i \in 1..Len(s) :
        /\ s[i] = r
        /\ \A j \in i+1..Len(s) : s[j].type # "USERAUTH_REQUEST"

(* A request just appended is the last one. *)
LEMMA LastReqAppend ==
    ASSUME NEW s \in Seq(ClientMsgs), NEW r, r.type = "USERAUTH_REQUEST"
    PROVE  LastReq(Append(s, r), r)
<1>1. /\ Len(Append(s, r)) = Len(s) + 1
      /\ Append(s, r)[Len(s) + 1] = r
      /\ Len(s) + 1 \in 1..Len(Append(s, r))
    OBVIOUS
<1>2. \A j \in (Len(s) + 1) + 1..Len(Append(s, r)) : Append(s, r)[j].type # "USERAUTH_REQUEST"
    BY <1>1
<1>3. QED
    BY <1>1, <1>2 DEF LastReq

(* write_auth_request writes an authentication request. *)
LEMMA AuthRequestIsRequest ==
    ASSUME NEW u, NEW m
    PROVE  AuthRequestFor(u, m).type = "USERAUTH_REQUEST"
BY DEF AuthRequestFor, PasswordRequest, PkRequest

(* QueuedWritten, stated on its variables. *)
LEMMA QueuedWrittenIs ==
    QueuedWritten <=>
        ((cstate # "Authenticated" /\ accepted /\ auth_method # NoMethod)
            => LastReq(out, AuthRequestFor(auth_user, auth_method)))
BY DEF QueuedWritten, LastRequestIs, LastReq

(* A step that leaves its variables alone keeps it. *)
LEMMA QueuedUnchanged ==
    ASSUME QueuedWritten, UNCHANGED qvars
    PROVE  QueuedWritten'
BY Zenon DEF QueuedWritten, LastRequestIs, qvars

(* A step that writes the queued request, and leaves the queue alone, keeps it. *)
LEMMA QueuedWrites ==
    ASSUME out \in Seq(ClientMsgs),
           out' = Append(out, AuthRequestFor(auth_user', auth_method'))
    PROVE  QueuedWritten'
<1>1. LastReq(out', AuthRequestFor(auth_user', auth_method'))
    BY LastReqAppend, AuthRequestIsRequest
<1>2. QED
    BY <1>1, QueuedWrittenIs, Zenon DEF QueuedWritten, LastRequestIs, LastReq

(* A step that empties the queue keeps it. *)
LEMMA QueuedEmptied ==
    ASSUME auth_method' = NoMethod
    PROVE  QueuedWritten'
BY Zenon DEF QueuedWritten

(* The signature wait starts only with an empty queue, and the queue      *)
(* stays empty while it runs.                                              *)
LEMMA WaitEmptiesStep ==
    ASSUME TInv, WaitEmptiesQueue, [Next]_cvars
    PROVE  WaitEmptiesQueue'
<1> USE DEF WaitEmptiesQueue, Step, WaitStep
<1>1. CASE Step(ReadUserauthPkOk)
    BY <1>1, Zenon DEF ReadUserauthPkOk
<1>2. CASE \E u \in Users, m \in AuthMethods : Step(WriteAuthRequestIfNeeded(u, m))
    BY <1>2, Zenon DEF WriteAuthRequestIfNeeded
<1>3. CASE \E modified \in BOOLEAN : WaitStep(SignedReply(modified))
    BY <1>3, Zenon DEF SignedReply
<1>4. CASE \/ \E svc \in {"ssh-userauth", "other"} : Step(ReadServiceAccept(svc))
           \/ Step(ReadUserauthSuccess) \/ Step(ReadUserauthBanner)
           \/ \E m \in {{}, {"password"}, {"publickey"}} : Step(ReadUserauthFailure(m))
           \/ Step(FatalPacket) \/ Step(AuthenticatedPacket)
           \/ WaitStep(SignWaitOther) \/ DropHandle \/ UNCHANGED cvars
    BY <1>4, Zenon DEF ReadServiceAccept, ReadUserauthSuccess, ReadUserauthBanner,
       ReadUserauthFailure, FatalPacket, AuthenticatedPacket, SignWaitOther,
       DropHandle, cvars
<1>5. QED
    BY <1>1, <1>2, <1>3, <1>4, ClientAuthStepCases

(* Every step keeps QueuedWritten, one case per action. *)
LEMMA QueuedStep ==
    ASSUME TInv, WaitEmptiesQueue, QueuedWritten, [Next]_cvars
    PROVE  QueuedWritten'
<1> USE DEF Step, WaitStep
<1>0. out \in Seq(ClientMsgs)
    BY DEF TInv, TypeOK
<1>1. ASSUME NEW svc \in {"ssh-userauth", "other"}, Step(ReadServiceAccept(svc))
      PROVE  QueuedWritten'
    <2>1. CASE svc = "ssh-userauth" /\ auth_method # NoMethod
        <3>1. out' = Append(out, AuthRequestFor(auth_user', auth_method'))
            BY <1>1, <2>1, Zenon DEF ReadServiceAccept, WriteAuthRequest
        <3>2. QED
            BY <1>0, <3>1, QueuedWrites
    <2>2. CASE svc = "ssh-userauth" /\ auth_method = NoMethod
        BY <1>1, <2>2, QueuedEmptied, Zenon DEF ReadServiceAccept
    <2>3. CASE svc # "ssh-userauth"
        BY <1>1, <2>3, QueuedUnchanged, Zenon DEF ReadServiceAccept, qvars
    <2>4. QED
        BY <2>1, <2>2, <2>3
<1>2. CASE Step(ReadUserauthSuccess)
    <2>1. /\ UNCHANGED <<accepted, auth_user, auth_method, out>>
          /\ cstate' \in {cstate, "Authenticated"}
        BY <1>2, Zenon DEF ReadUserauthSuccess
    <2>2. QED
        BY <2>1, Zenon DEF QueuedWritten, LastRequestIs
<1>3. CASE Step(ReadUserauthBanner)
    BY <1>3, QueuedUnchanged, Zenon DEF ReadUserauthBanner, qvars
<1>4. CASE \E m \in {{}, {"password"}, {"publickey"}} : Step(ReadUserauthFailure(m))
    BY <1>4, QueuedEmptied, Zenon DEF ReadUserauthFailure
<1>5. CASE Step(ReadUserauthPkOk)
    BY <1>5, QueuedEmptied, Zenon DEF ReadUserauthPkOk
<1>6. CASE Step(FatalPacket) \/ Step(AuthenticatedPacket) \/ WaitStep(SignWaitOther)
           \/ DropHandle \/ UNCHANGED cvars
    BY <1>6, QueuedUnchanged, Zenon DEF FatalPacket, AuthenticatedPacket,
       SignWaitOther, DropHandle, cvars, qvars
<1>7. ASSUME NEW u \in Users, NEW m \in AuthMethods, Step(WriteAuthRequestIfNeeded(u, m))
      PROVE  QueuedWritten'
    <2> DEFINE is_waiting ==
            cstate = "WaitingAuthRequest" \/ (cstate = "WaitingServiceRequest" /\ accepted)
    <2>1. auth_user' = u /\ auth_method' = m /\ UNCHANGED <<cstate, accepted>>
        BY <1>7, Zenon DEF WriteAuthRequestIfNeeded
    <2>2. CASE is_waiting
        <3>1. out' = Append(out, AuthRequestFor(auth_user', auth_method'))
            BY <1>7, <2>1, <2>2, Zenon DEF WriteAuthRequestIfNeeded, WriteAuthRequest, is_waiting
        <3>2. QED
            BY <1>0, <3>1, QueuedWrites
    <2>3. CASE ~is_waiting
        <3>1. cstate = "Authenticated" \/ ~accepted
            BY <2>3, TInv DEF TInv, TypeOK, ClientStates, is_waiting
        <3>2. QED
            BY <2>1, <3>1, Zenon DEF QueuedWritten
    <2>4. QED
        BY <2>2, <2>3
<1>8. ASSUME NEW modified \in BOOLEAN, WaitStep(SignedReply(modified))
      PROVE  QueuedWritten'
    <2>1. auth_method = NoMethod /\ UNCHANGED auth_method
        BY <1>8, Zenon DEF SignedReply, WaitEmptiesQueue
    <2>2. QED
        BY <2>1, QueuedEmptied
<1>9. QED
    BY <1>1, <1>2, <1>3, <1>4, <1>5, <1>6, <1>7, <1>8, ClientAuthStepCases

(* The request the server is asked is the one the client will answer:    *)
(* once SERVICE_ACCEPT has been read, a method the application queued is  *)
(* the last USERAUTH_REQUEST written, whichever of the accept and the     *)
(* authenticate call came first (write_auth_request_if_needed and the     *)
(* SERVICE_ACCEPT branch of client_read_encrypted).                        *)
THEOREM QueuedWrittenHolds == Spec => []QueuedWritten
<1>1. Init => QInv
    <2>1. Init => WaitEmptiesQueue /\ QueuedWritten
        BY Zenon DEF Init, WaitEmptiesQueue, QueuedWritten
    <2>2. QED
        BY <2>1, ClientInitType DEF QInv
<1>2. QInv /\ [Next]_cvars => QInv'
    BY TInvStep, WaitEmptiesStep, QueuedStep DEF QInv
<1>3. QInv => QueuedWritten
    BY DEF QInv
<1>4. QED
    BY <1>1, <1>2, <1>3, PTL DEF Spec

-----------------------------------------------------------------------------
(* SignedAfterProbe.                                                       *)

(* SignedAfterProbe and CreditKept, stated of a trace s and of the state  *)
(* that reads it, so that the lemmas below are about sequences.           *)
SignedOK(s) ==
    \A i \in 1..Len(s), u \in Users, k \in Keys :
        s[i] = PkRequest(u, k, TRUE)
            => Cnt(s, PkRequest(u, k, TRUE), i) <= Cnt(s, PkRequest(u, k, FALSE), i)

KeptOf(s, cs, au, am, sg) ==
    /\ \A u \in Users, k \in Keys : CreditOf(s, u, k) >= 0
    /\ (cs = "WaitingAuthRequest" /\ am.kind \in {"PublicKey", "FuturePublicKey"})
           => CreditOf(s, au, am.key) >= 1
    /\ sg # NoSign => CreditOf(s, sg.user, sg.key) >= 1

LEMMA SignedIs ==
    /\ SignedAfterProbe <=> SignedOK(out)
    /\ SignedAfterProbe' <=> SignedOK(out')
BY DEF SignedAfterProbe, SignedOK, CountReq, Cnt

LEMMA KeptIs ==
    /\ CreditKept <=> KeptOf(out, cstate, auth_user, auth_method, signing)
    /\ CreditKept' <=> KeptOf(out', cstate', auth_user', auth_method', signing')
BY DEF CreditKept, CreditNonNeg, QueuedCredit, WaitCredit, KeptOf, Credit

(* A probe and a signed request are different packets. *)
LEMMA ProbeNotSigned ==
    ASSUME NEW u, NEW k, NEW v, NEW l
    PROVE  PkRequest(u, k, FALSE) # PkRequest(v, l, TRUE)
BY DEF PkRequest

(* The counts of a trace are natural numbers. *)
LEMMA CountsNat ==
    ASSUME NEW S, NEW s \in Seq(S), NEW u, NEW k
    PROVE  ProbesIn(s, u, k) \in Nat /\ SignedIn(s, u, k) \in Nat
<1>1. Len(s) \in Nat
    OBVIOUS
<1>2. QED
    BY <1>1, CntNat, Zenon DEF ProbesIn, SignedIn

(* A credit is an integer. *)
LEMMA CreditOfInt ==
    ASSUME NEW S, NEW s \in Seq(S), NEW u, NEW k
    PROVE  CreditOf(s, u, k) \in Int
BY CountsNat DEF CreditOf

(* Appending a probe for <<u, k>> adds one to its credit. *)
LEMMA CreditProbe ==
    ASSUME NEW S, NEW s \in Seq(S), NEW u, NEW k
    PROVE  CreditOf(Append(s, PkRequest(u, k, FALSE)), u, k) = CreditOf(s, u, k) + 1
<1> DEFINE t == Append(s, PkRequest(u, k, FALSE))
<1> HIDE DEF t
<1>1. Len(t) = Len(s) + 1 /\ Len(s) \in Nat
    BY DEF t
<1>2. /\ Cnt(t, PkRequest(u, k, FALSE), Len(s) + 1)
           = Cnt(s, PkRequest(u, k, FALSE), Len(s)) + (IF PkRequest(u, k, FALSE) = PkRequest(u, k, FALSE) THEN 1 ELSE 0)
      /\ Cnt(t, PkRequest(u, k, TRUE), Len(s) + 1)
           = Cnt(s, PkRequest(u, k, TRUE), Len(s)) + (IF PkRequest(u, k, FALSE) = PkRequest(u, k, TRUE) THEN 1 ELSE 0)
    BY CntLast, Zenon DEF t
<1>3. /\ (IF PkRequest(u, k, FALSE) = PkRequest(u, k, FALSE) THEN 1 ELSE 0) = 1
      /\ (IF PkRequest(u, k, FALSE) = PkRequest(u, k, TRUE) THEN 1 ELSE 0) = 0
    BY ProbeNotSigned
<1>4. ProbesIn(t, u, k) = ProbesIn(s, u, k) + 1 /\ SignedIn(t, u, k) = SignedIn(s, u, k) + 0
    BY <1>1, <1>2, <1>3, Zenon DEF ProbesIn, SignedIn
<1>5. ProbesIn(s, u, k) \in Nat /\ SignedIn(s, u, k) \in Nat
    BY CountsNat
<1>6. CreditOf(t, u, k) = CreditOf(s, u, k) + 1
    BY <1>4, <1>5 DEF CreditOf
<1>7. QED
    BY <1>6 DEF t

(* Appending a signed request for <<u, k>> takes one from its credit. *)
LEMMA CreditSigned ==
    ASSUME NEW S, NEW s \in Seq(S), NEW u, NEW k
    PROVE  CreditOf(Append(s, PkRequest(u, k, TRUE)), u, k) = CreditOf(s, u, k) - 1
<1> DEFINE t == Append(s, PkRequest(u, k, TRUE))
<1> HIDE DEF t
<1>1. Len(t) = Len(s) + 1 /\ Len(s) \in Nat
    BY DEF t
<1>2. /\ Cnt(t, PkRequest(u, k, FALSE), Len(s) + 1)
           = Cnt(s, PkRequest(u, k, FALSE), Len(s)) + (IF PkRequest(u, k, TRUE) = PkRequest(u, k, FALSE) THEN 1 ELSE 0)
      /\ Cnt(t, PkRequest(u, k, TRUE), Len(s) + 1)
           = Cnt(s, PkRequest(u, k, TRUE), Len(s)) + (IF PkRequest(u, k, TRUE) = PkRequest(u, k, TRUE) THEN 1 ELSE 0)
    BY CntLast, Zenon DEF t
<1>3. /\ (IF PkRequest(u, k, TRUE) = PkRequest(u, k, FALSE) THEN 1 ELSE 0) = 0
      /\ (IF PkRequest(u, k, TRUE) = PkRequest(u, k, TRUE) THEN 1 ELSE 0) = 1
    BY ProbeNotSigned
<1>4. ProbesIn(t, u, k) = ProbesIn(s, u, k) + 0 /\ SignedIn(t, u, k) = SignedIn(s, u, k) + 1
    BY <1>1, <1>2, <1>3, Zenon DEF ProbesIn, SignedIn
<1>5. ProbesIn(s, u, k) \in Nat /\ SignedIn(s, u, k) \in Nat
    BY CountsNat
<1>6. CreditOf(t, u, k) = CreditOf(s, u, k) - 1
    BY <1>4, <1>5 DEF CreditOf
<1>7. QED
    BY <1>6 DEF t

(* Appending anything else leaves the credit of <<u, k>> alone. *)
LEMMA CreditOther ==
    ASSUME NEW S, NEW s \in Seq(S), NEW u, NEW k
    PROVE  \A x : (x # PkRequest(u, k, FALSE) /\ x # PkRequest(u, k, TRUE))
                  => CreditOf(Append(s, x), u, k) = CreditOf(s, u, k)
<1> SUFFICES ASSUME NEW x, x # PkRequest(u, k, FALSE), x # PkRequest(u, k, TRUE)
             PROVE  CreditOf(Append(s, x), u, k) = CreditOf(s, u, k)
    OBVIOUS
<1> DEFINE t == Append(s, x)
<1> HIDE DEF t
<1>1. Len(t) = Len(s) + 1 /\ Len(s) \in Nat
    BY DEF t
<1>2. /\ Cnt(t, PkRequest(u, k, FALSE), Len(s) + 1)
           = Cnt(s, PkRequest(u, k, FALSE), Len(s)) + (IF x = PkRequest(u, k, FALSE) THEN 1 ELSE 0)
      /\ Cnt(t, PkRequest(u, k, TRUE), Len(s) + 1)
           = Cnt(s, PkRequest(u, k, TRUE), Len(s)) + (IF x = PkRequest(u, k, TRUE) THEN 1 ELSE 0)
    BY CntLast, Zenon DEF t
<1>3. /\ (IF x = PkRequest(u, k, FALSE) THEN 1 ELSE 0) = 0
      /\ (IF x = PkRequest(u, k, TRUE) THEN 1 ELSE 0) = 0
    BY ProbeNotSigned
<1>4. ProbesIn(t, u, k) = ProbesIn(s, u, k) + 0 /\ SignedIn(t, u, k) = SignedIn(s, u, k) + 0
    BY <1>1, <1>2, <1>3, Zenon DEF ProbesIn, SignedIn
<1>5. ProbesIn(s, u, k) \in Nat /\ SignedIn(s, u, k) \in Nat
    BY CountsNat
<1>6. CreditOf(t, u, k) = CreditOf(s, u, k)
    BY <1>4, <1>5 DEF CreditOf
<1>7. QED
    BY <1>6 DEF t

(* Appending x keeps SignedOK when x, if signed, has a credit. *)
LEMMA SignedAppend ==
    ASSUME NEW S, NEW s \in Seq(S), SignedOK(s), NEW x,
           \A u \in Users, k \in Keys : x = PkRequest(u, k, TRUE) => CreditOf(s, u, k) >= 1
    PROVE  SignedOK(Append(s, x))
<1> DEFINE t == Append(s, x)
<1> SUFFICES ASSUME NEW i \in 1..Len(t), NEW u \in Users, NEW k \in Keys,
                    t[i] = PkRequest(u, k, TRUE)
             PROVE  Cnt(t, PkRequest(u, k, TRUE), i) <= Cnt(t, PkRequest(u, k, FALSE), i)
    BY DEF SignedOK, t
<1> DEFINE P == PkRequest(u, k, FALSE)
           Q == PkRequest(u, k, TRUE)
<1>1. /\ Len(t) = Len(s) + 1
      /\ Len(s) \in Nat
      /\ \A j \in 1..Len(s) : t[j] = s[j]
      /\ t[Len(s) + 1] = x
    BY DEF t
<1>2. CASE i \in 1..Len(s)
    <2>1. s[i] = Q
        BY <1>1, <1>2 DEF Q
    <2>2. Cnt(s, Q, i) <= Cnt(s, P, i)
        BY <1>2, <2>1 DEF SignedOK, P, Q
    <2>3. Cnt(t, Q, i) = Cnt(s, Q, i) /\ Cnt(t, P, i) = Cnt(s, P, i)
        <3>1. i \in 0..Len(s)
            BY <1>1, <1>2
        <3>2. QED
            BY <3>1, CntPrefix, Zenon DEF t
    <2>4. QED
        BY <2>2, <2>3
<1>3. CASE i = Len(s) + 1
    <2>1. x = Q
        BY <1>1, <1>3 DEF Q
    <2>2. CreditOf(s, u, k) >= 1
        BY <2>1 DEF Q
    <2>3. x # P
        BY <2>1, ProbeNotSigned DEF P, Q
    <2>4. /\ Cnt(t, Q, i) = Cnt(s, Q, Len(s)) + (IF x = Q THEN 1 ELSE 0)
          /\ Cnt(t, P, i) = Cnt(s, P, Len(s)) + (IF x = P THEN 1 ELSE 0)
        BY <1>3, CntLast, Zenon DEF t
    <2>5. (IF x = Q THEN 1 ELSE 0) = 1 /\ (IF x = P THEN 1 ELSE 0) = 0
        BY <2>1, <2>3
    <2>6. Cnt(s, P, Len(s)) \in Nat /\ Cnt(s, Q, Len(s)) \in Nat
        BY <1>1, CntNat, Zenon
    <2>7. CreditOf(s, u, k) = Cnt(s, P, Len(s)) - Cnt(s, Q, Len(s))
        BY DEF CreditOf, ProbesIn, SignedIn, P, Q
    <2>8. \A q0, r0 \in Nat : \A q1, r1, c : (q1 = q0 + 0 /\ r1 = r0 + 1 /\ c = q0 - r0 /\ c >= 1) => r1 <= q1
        OBVIOUS
    <2>9. QED
        BY <2>2, <2>4, <2>5, <2>6, <2>7, <2>8, Zenon
<1>4. i \in 1..Len(s) \/ i = Len(s) + 1
    BY <1>1
<1>5. QED
    BY <1>2, <1>3, <1>4

(* write_auth_request appends a password request or a probe: no credit   *)
(* drops, SignedOK is kept, and a probe adds one to its own credit.        *)
LEMMA ProbeAppend ==
    ASSUME NEW s \in Seq(ClientMsgs), SignedOK(s), NEW u \in Users, NEW m \in AuthMethods
    PROVE  /\ SignedOK(Append(s, AuthRequestFor(u, m)))
           /\ \A v, l : CreditOf(Append(s, AuthRequestFor(u, m)), v, l) >= CreditOf(s, v, l)
           /\ m.kind # "Password"
                  => CreditOf(Append(s, AuthRequestFor(u, m)), u, m.key) = CreditOf(s, u, m.key) + 1
<1> DEFINE x == AuthRequestFor(u, m)
           t == Append(s, x)
<1> HIDE DEF x, t
<1>1. \A v, l : x # PkRequest(v, l, TRUE)
    BY DEF x, AuthRequestFor, PasswordRequest, PkRequest
<1>2. SignedOK(t)
    BY <1>1, SignedAppend DEF t
<1>3. ASSUME NEW v, NEW l PROVE CreditOf(t, v, l) >= CreditOf(s, v, l)
    <2>1. CreditOf(s, v, l) \in Int
        BY CreditOfInt
    <2>2. CASE x = PkRequest(v, l, FALSE)
        <3>1. CreditOf(Append(s, PkRequest(v, l, FALSE)), v, l) = CreditOf(s, v, l) + 1
            BY CreditProbe
        <3>2. CreditOf(t, v, l) = CreditOf(s, v, l) + 1
            BY <2>2, <3>1, Zenon DEF t
        <3>3. QED
            BY <2>1, <3>2
    <2>3. CASE x # PkRequest(v, l, FALSE)
        <3>1. x # PkRequest(v, l, TRUE)
            BY <1>1
        <3>2. CreditOf(Append(s, x), v, l) = CreditOf(s, v, l)
            <4>1. s \in Seq(ClientMsgs)
                OBVIOUS
            <4>2. \A y : (y # PkRequest(v, l, FALSE) /\ y # PkRequest(v, l, TRUE))
                          => CreditOf(Append(s, y), v, l) = CreditOf(s, v, l)
                BY <4>1, CreditOther
            <4>3. QED
                BY <4>2, <2>3, <3>1, Zenon
        <3>3. QED
            BY <2>1, <3>2 DEF t
    <2>4. QED
        BY <2>2, <2>3
<1>4. ASSUME m.kind # "Password" PROVE CreditOf(t, u, m.key) = CreditOf(s, u, m.key) + 1
    <2>1. x = PkRequest(u, m.key, FALSE)
        BY <1>4 DEF x, AuthRequestFor
    <2>2. CreditOf(Append(s, PkRequest(u, m.key, FALSE)), u, m.key) = CreditOf(s, u, m.key) + 1
        BY CreditProbe
    <2>3. QED
        BY <2>1, <2>2, Zenon DEF t
<1>5. QED
    BY <1>2, <1>3, <1>4 DEF t, x

(* client_send_signature appends a signed request for a key with a       *)
(* credit: the credit is used up, none becomes negative, SignedOK holds.   *)
LEMMA SignedWritten ==
    ASSUME NEW s \in Seq(ClientMsgs), SignedOK(s),
           \A v \in Users, l \in Keys : CreditOf(s, v, l) >= 0,
           NEW u \in Users, NEW k \in Keys, CreditOf(s, u, k) >= 1
    PROVE  /\ SignedOK(Append(s, PkRequest(u, k, TRUE)))
           /\ \A v \in Users, l \in Keys : CreditOf(Append(s, PkRequest(u, k, TRUE)), v, l) >= 0
<1> DEFINE x == PkRequest(u, k, TRUE)
           t == Append(s, x)
<1>1. SignedOK(t)
    <2>1. \A v \in Users, l \in Keys : x = PkRequest(v, l, TRUE) => CreditOf(s, v, l) >= 1
        BY DEF x, PkRequest
    <2>2. QED
        BY <2>1, SignedAppend DEF t
<1>2. ASSUME NEW v \in Users, NEW l \in Keys PROVE CreditOf(t, v, l) >= 0
    <2>1. CreditOf(s, v, l) \in Int /\ CreditOf(s, v, l) >= 0
        BY CreditOfInt
    <2>2. CASE x = PkRequest(v, l, TRUE)
        <3>1. CreditOf(Append(s, PkRequest(v, l, TRUE)), v, l) = CreditOf(s, v, l) - 1
            BY CreditSigned
        <3>2. CreditOf(t, v, l) = CreditOf(s, v, l) - 1
            BY <2>2, <3>1, Zenon DEF t
        <3>3. CreditOf(s, v, l) >= 1
            BY <2>2 DEF x, PkRequest
        <3>4. \A c \in Int : \A c1 : (c1 = c - 1 /\ c >= 1) => c1 >= 0
            OBVIOUS
        <3>5. QED
            BY <2>1, <3>2, <3>3, <3>4, Zenon
    <2>3. CASE x # PkRequest(v, l, TRUE)
        <3>1. x # PkRequest(v, l, FALSE)
            BY ProbeNotSigned DEF x
        <3>2. CreditOf(Append(s, x), v, l) = CreditOf(s, v, l)
            <4>1. s \in Seq(ClientMsgs)
                OBVIOUS
            <4>2. \A y : (y # PkRequest(v, l, FALSE) /\ y # PkRequest(v, l, TRUE))
                          => CreditOf(Append(s, y), v, l) = CreditOf(s, v, l)
                BY <4>1, CreditOther
            <4>3. QED
                BY <4>2, <2>3, <3>1, Zenon
        <3>3. QED
            BY <2>1, <3>2
    <2>4. QED
        BY <2>2, <2>3
<1>3. QED
    BY <1>1, <1>2 DEF t, x

(* After write_auth_request, with no signature wait running, the credits *)
(* are kept for whatever method and user were just queued.                *)
LEMMA KeptProbe ==
    ASSUME NEW s \in Seq(ClientMsgs), SignedOK(s),
           \A v \in Users, l \in Keys : CreditOf(s, v, l) >= 0,
           NEW u \in Users, NEW m \in AuthMethods, NEW cs
    PROVE  /\ KeptOf(Append(s, AuthRequestFor(u, m)), cs, u, m, NoSign)
           /\ SignedOK(Append(s, AuthRequestFor(u, m)))
<1> DEFINE t == Append(s, AuthRequestFor(u, m))
<1>1. /\ SignedOK(t)
      /\ \A v, l : CreditOf(t, v, l) >= CreditOf(s, v, l)
      /\ m.kind # "Password" => CreditOf(t, u, m.key) = CreditOf(s, u, m.key) + 1
    BY ProbeAppend DEF t
<1> HIDE DEF t
<1>2. ASSUME NEW v \in Users, NEW l \in Keys PROVE CreditOf(t, v, l) >= 0
    <2>1. CreditOf(t, v, l) >= CreditOf(s, v, l) /\ CreditOf(s, v, l) >= 0
        BY <1>1
    <2>2. CreditOf(s, v, l) \in Int
        BY CreditOfInt
    <2>3. t \in Seq(ClientMsgs)
        BY AuthRequestType, AppendProperties DEF t
    <2>4. CreditOf(t, v, l) \in Int
        BY <2>3, CreditOfInt
    <2>5. QED
        BY <2>1, <2>2, <2>4
<1>3. m.kind \in {"PublicKey", "FuturePublicKey"} => CreditOf(t, u, m.key) >= 1
    <2>1. SUFFICES ASSUME m.kind \in {"PublicKey", "FuturePublicKey"} PROVE CreditOf(t, u, m.key) >= 1
        OBVIOUS
    <2>2. m.key \in Keys
        BY <2>1 DEF AuthMethods
    <2>3. CreditOf(t, u, m.key) = CreditOf(s, u, m.key) + 1
        BY <1>1, <2>1
    <2>4. CreditOf(s, u, m.key) \in Int /\ CreditOf(s, u, m.key) >= 0
        BY <2>2, CreditOfInt
    <2>5. QED
        BY <2>3, <2>4
<1>4. QED
    BY <1>1, <1>2, <1>3 DEF KeptOf, t, NoSign

(* After client_send_signature for a credited key, with the queue empty  *)
(* and no signature wait running, the credits are kept.                   *)
LEMMA KeptSigned ==
    ASSUME NEW s \in Seq(ClientMsgs), SignedOK(s),
           \A v \in Users, l \in Keys : CreditOf(s, v, l) >= 0,
           NEW u \in Users, NEW k \in Keys, CreditOf(s, u, k) >= 1, NEW cs, NEW au
    PROVE  /\ KeptOf(Append(s, PkRequest(u, k, TRUE)), cs, au, NoMethod, NoSign)
           /\ SignedOK(Append(s, PkRequest(u, k, TRUE)))
<1>1. /\ SignedOK(Append(s, PkRequest(u, k, TRUE)))
      /\ \A v \in Users, l \in Keys : CreditOf(Append(s, PkRequest(u, k, TRUE)), v, l) >= 0
    BY SignedWritten
<1>2. QED
    BY <1>1 DEF KeptOf, NoMethod, NoSign

(* Every step keeps CreditKept and SignedAfterProbe, one case per action. *)
LEMMA CreditStep ==
    ASSUME TInv, WaitEmptiesQueue, CreditKept, SignedAfterProbe, [Next]_cvars
    PROVE  KeptOf(out', cstate', auth_user', auth_method', signing') /\ SignedOK(out')
<1> USE DEF Step, WaitStep
<1>0. /\ out \in Seq(ClientMsgs)
      /\ cstate \in ClientStates
      /\ auth_method \in AuthMethods \cup {NoMethod}
      /\ signing \in Signings
      /\ auth_method # NoMethod => auth_user \in Users
    BY DEF TInv, TypeOK, QueuedUser
<1>1. KeptOf(out, cstate, auth_user, auth_method, signing) /\ SignedOK(out)
    BY KeptIs, SignedIs
<1>2. \A v \in Users, l \in Keys : CreditOf(out, v, l) >= 0
    BY <1>1 DEF KeptOf
(* The steps that write no packet and change none of the state read.      *)
<1>3. CASE UNCHANGED <<out, cstate, auth_user, auth_method, signing>>
    BY <1>1, <1>3, Zenon
<1>4. ASSUME NEW svc \in {"ssh-userauth", "other"}, Step(ReadServiceAccept(svc))
      PROVE  KeptOf(out', cstate', auth_user', auth_method', signing') /\ SignedOK(out')
    <2>1. CASE svc = "ssh-userauth" /\ auth_method # NoMethod
        <3>1. /\ out' = Append(out, AuthRequestFor(auth_user, auth_method))
              /\ UNCHANGED <<auth_user, auth_method, signing>>
              /\ signing = NoSign
            BY <1>4, <2>1, Zenon DEF ReadServiceAccept, WriteAuthRequest
        <3>2. auth_user \in Users /\ auth_method \in AuthMethods
            BY <1>0, <2>1
        <3>3. /\ KeptOf(Append(out, AuthRequestFor(auth_user, auth_method)), cstate', auth_user, auth_method, NoSign)
              /\ SignedOK(Append(out, AuthRequestFor(auth_user, auth_method)))
            BY <1>0, <1>1, <1>2, <3>2, KeptProbe
        <3>4. QED
            BY <3>1, <3>3, Zenon
    <2>2. CASE ~(svc = "ssh-userauth" /\ auth_method # NoMethod)
        <3>1. UNCHANGED <<out, cstate, auth_user, auth_method, signing>>
            BY <1>4, <2>2, Zenon DEF ReadServiceAccept
        <3>2. QED
            BY <1>1, <3>1, Zenon
    <2>3. QED
        BY <2>1, <2>2
<1>5. CASE Step(ReadUserauthSuccess)
    <2>1. /\ UNCHANGED <<out, auth_user, auth_method, signing>>
          /\ cstate' \in {cstate, "Authenticated"}
        BY <1>5, Zenon DEF ReadUserauthSuccess
    <2>2. QED
        BY <1>1, <2>1 DEF KeptOf
<1>6. CASE \E m \in {{}, {"password"}, {"publickey"}} : Step(ReadUserauthFailure(m))
    <2>1. UNCHANGED <<out, cstate, auth_user, signing>> /\ auth_method' = NoMethod
        BY <1>6, Zenon DEF ReadUserauthFailure
    <2>2. QED
        BY <1>1, <2>1 DEF KeptOf, NoMethod
<1>7. CASE Step(ReadUserauthPkOk)
    <2>1. /\ cstate = "WaitingAuthRequest" /\ signing = NoSign
          /\ UNCHANGED <<cstate, auth_user>> /\ auth_method' = NoMethod
        BY <1>7, Zenon DEF ReadUserauthPkOk
    <2>2. CASE auth_method.kind = "PublicKey"
        <3>1. out' = Append(out, PkRequest(auth_user, auth_method.key, TRUE)) /\ UNCHANGED signing
            BY <1>7, <2>2, Zenon DEF ReadUserauthPkOk
        <3>2. auth_method # NoMethod
            BY <2>2 DEF NoMethod
        <3>3. auth_user \in Users /\ auth_method.key \in Keys
            BY <1>0, <3>2, <2>2 DEF AuthMethods
        <3>4. CreditOf(out, auth_user, auth_method.key) >= 1
            BY <1>1, <2>1, <2>2 DEF KeptOf
        <3>5. /\ KeptOf(Append(out, PkRequest(auth_user, auth_method.key, TRUE)), cstate, auth_user, NoMethod, NoSign)
              /\ SignedOK(Append(out, PkRequest(auth_user, auth_method.key, TRUE)))
            BY <1>0, <1>1, <1>2, <3>3, <3>4, KeptSigned
        <3>6. QED
            BY <2>1, <3>1, <3>5, Zenon
    <2>3. CASE auth_method.kind = "FuturePublicKey"
        <3>1. /\ UNCHANGED out
              /\ signing' \in {signing, [user |-> auth_user, key |-> auth_method.key]}
            BY <1>7, <2>2, <2>3, Zenon DEF ReadUserauthPkOk
        <3>2. CreditOf(out, auth_user, auth_method.key) >= 1
            BY <1>1, <2>1, <2>3 DEF KeptOf
        <3>3. QED
            BY <1>1, <2>1, <3>1, <3>2 DEF KeptOf, NoMethod
    <2>4. CASE auth_method.kind \notin {"PublicKey", "FuturePublicKey"}
        <3>1. UNCHANGED <<out, signing>>
            BY <1>7, <2>4, Zenon DEF ReadUserauthPkOk
        <3>2. QED
            BY <1>1, <2>1, <3>1 DEF KeptOf, NoMethod
    <2>5. QED
        BY <2>2, <2>3, <2>4
<1>8. ASSUME NEW u \in Users, NEW m \in AuthMethods, Step(WriteAuthRequestIfNeeded(u, m))
      PROVE  KeptOf(out', cstate', auth_user', auth_method', signing') /\ SignedOK(out')
    <2> DEFINE is_waiting == cstate = "WaitingAuthRequest" \/ (cstate = "WaitingServiceRequest" /\ accepted)
    <2>1. auth_user' = u /\ auth_method' = m /\ UNCHANGED <<cstate, signing>> /\ signing = NoSign
        BY <1>8, Zenon DEF WriteAuthRequestIfNeeded
    <2>2. CASE is_waiting
        <3>1. out' = Append(out, AuthRequestFor(u, m))
            BY <1>8, <2>2, Zenon DEF WriteAuthRequestIfNeeded, WriteAuthRequest, is_waiting
        <3>2. /\ KeptOf(Append(out, AuthRequestFor(u, m)), cstate, u, m, NoSign)
              /\ SignedOK(Append(out, AuthRequestFor(u, m)))
            BY <1>0, <1>1, <1>2, KeptProbe
        <3>3. QED
            BY <2>1, <3>1, <3>2, Zenon
    <2>3. CASE ~is_waiting
        <3>1. UNCHANGED out /\ cstate # "WaitingAuthRequest"
            BY <1>8, <2>3, Zenon DEF WriteAuthRequestIfNeeded, is_waiting
        <3>2. QED
            BY <1>1, <2>1, <3>1 DEF KeptOf
    <2>4. QED
        BY <2>2, <2>3
<1>9. ASSUME NEW modified \in BOOLEAN, WaitStep(SignedReply(modified))
      PROVE  KeptOf(out', cstate', auth_user', auth_method', signing') /\ SignedOK(out')
    <2>1. /\ signing # NoSign /\ signing' = NoSign
          /\ UNCHANGED <<cstate, auth_user, auth_method>>
        BY <1>9, Zenon DEF SignedReply
    <2>2. auth_method = NoMethod
        BY <2>1 DEF WaitEmptiesQueue
    <2>3. signing.user \in Users /\ signing.key \in Keys
        BY <1>0, <2>1, SigningRecord
    <2>4. CreditOf(out, signing.user, signing.key) >= 1
        BY <1>1, <2>1 DEF KeptOf
    <2>5. CASE modified
        <3>1. out' = Append(out, PkRequest(signing.user, signing.key, TRUE))
            BY <1>9, <2>5, Zenon DEF SignedReply
        <3>2. /\ KeptOf(Append(out, PkRequest(signing.user, signing.key, TRUE)), cstate, auth_user, NoMethod, NoSign)
              /\ SignedOK(Append(out, PkRequest(signing.user, signing.key, TRUE)))
            BY <1>0, <1>1, <1>2, <2>3, <2>4, KeptSigned
        <3>3. QED
            BY <2>1, <2>2, <3>1, <3>2, Zenon
    <2>6. CASE ~modified
        <3>1. UNCHANGED out
            BY <1>9, <2>6, Zenon DEF SignedReply
        <3>2. QED
            BY <1>1, <2>1, <2>2, <3>1 DEF KeptOf, NoMethod
    <2>7. QED
        BY <2>5, <2>6
<1>10. CASE \/ Step(ReadUserauthBanner) \/ Step(FatalPacket) \/ Step(AuthenticatedPacket)
            \/ WaitStep(SignWaitOther) \/ DropHandle \/ UNCHANGED cvars
    <2>1. UNCHANGED <<out, cstate, auth_user, auth_method, signing>>
        BY <1>10, Zenon DEF ReadUserauthBanner, FatalPacket, AuthenticatedPacket,
           SignWaitOther, DropHandle, cvars
    <2>2. QED
        BY <1>3, <2>1
<1>11. QED
    BY <1>4, <1>5, <1>6, <1>7, <1>8, <1>9, <1>10, ClientAuthStepCases

(* NEWKEYS has written SERVICE_REQUEST only: no credit, no signed request. *)
LEMMA InitKept ==
    ASSUME Init
    PROVE  KeptOf(out, cstate, auth_user, auth_method, signing) /\ SignedOK(out)
<1> DEFINE o == <<ServiceRequest>>
<1>1. out = o /\ cstate = "WaitingServiceRequest" /\ signing = NoSign
    BY DEF Init, o
<1>2. \A u, k, sg : ServiceRequest # PkRequest(u, k, sg)
    BY DEF ServiceRequest, PkRequest
<1>3. o \in Seq({ServiceRequest}) /\ Len(o) = 1 /\ \A j \in 1..Len(o) : o[j] = ServiceRequest
    BY DEF o
<1> HIDE DEF o
<1>4. ASSUME NEW u, NEW k PROVE CreditOf(o, u, k) >= 0
    <2>1. {j \in 1..Len(o) : o[j] = PkRequest(u, k, TRUE)} = {}
        BY <1>2, <1>3
    <2>2. SignedIn(o, u, k) = 0
        BY <2>1, FS_EmptySet DEF SignedIn, Cnt
    <2>3. ProbesIn(o, u, k) \in Nat
        BY <1>3, CountsNat
    <2>4. QED
        BY <2>2, <2>3 DEF CreditOf
<1>5. SignedOK(o)
    BY <1>2, <1>3 DEF SignedOK
<1>6. QED
    BY <1>1, <1>4, <1>5 DEF KeptOf, NoSign

(* SInv holds initially. *)
LEMMA SInvInit == Init => SInv
<1>1. SUFFICES ASSUME Init PROVE SInv
    OBVIOUS
<1>2. TInv
    BY <1>1, ClientInitType
<1>3. WaitEmptiesQueue
    BY <1>1, Zenon DEF Init, WaitEmptiesQueue
<1>4. CreditKept /\ SignedAfterProbe
    BY <1>1, InitKept, KeptIs, SignedIs
<1>5. QED
    BY <1>2, <1>3, <1>4 DEF SInv

(* Every step keeps SInv. *)
LEMMA SInvStep == SInv /\ [Next]_cvars => SInv'
<1>1. SUFFICES ASSUME SInv, [Next]_cvars PROVE SInv'
    OBVIOUS
<1>2. TInv'
    BY <1>1, TInvStep DEF SInv
<1>3. WaitEmptiesQueue'
    BY <1>1, WaitEmptiesStep DEF SInv
<1>4. CreditKept' /\ SignedAfterProbe'
    BY <1>1, CreditStep, KeptIs, SignedIs DEF SInv
<1>5. QED
    BY <1>2, <1>3, <1>4 DEF SInv

(* The client signs only for a key the server has just been asked about:  *)
(* every signed publickey request is preceded by an unused probe for the  *)
(* same user and key, whatever the server answers and whenever the        *)
(* application queues a method or answers a sign request.  It rests on    *)
(* USERAUTH_PK_OK taking the queued method (client_read_encrypted), on     *)
(* write_auth_request_if_needed writing what it queues, and on the        *)
(* Msg::Signed wait writing for the user and key it suspended with; the   *)
(* inductive invariant SInv counts the unused probes of each user and key. *)
THEOREM SignedAfterProbeHolds == Spec => []SignedAfterProbe
<1>1. Init => SInv
    BY SInvInit
<1>2. SInv /\ [Next]_cvars => SInv'
    BY SInvStep
<1>3. SInv => SignedAfterProbe
    BY DEF SInv
<1>4. QED
    BY <1>1, <1>2, <1>3, PTL DEF Spec

=============================================================================
