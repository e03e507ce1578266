------------------------- MODULE ServerAuthProofs -------------------------
(***************************************************************************)
(* Proofs about ServerAuth for every value of its constants: the type     *)
(* invariant, and that the server authenticates only a user the           *)
(* application accepted (UserApproved).                                    *)
(***************************************************************************)
EXTENDS ServerAuth, TLAPS

(* The strengthening of UserApproved.  UserApproved alone is not          *)
(* inductive: a signed publickey request is validated by the PK_OK        *)
(* bookkeeping without consulting the handler, so the invariant must say *)
(* what that bookkeeping remembers.  While the connection still waits for *)
(* authentication, a remembered public-key request names a key the       *)
(* handler accepted for the current auth_user.                            *)
PkOkApproved ==
    (state # "Authenticated" /\ current.kind = "PublicKey")
        => <<auth_user, current.key>> \in approved

AuthenticatedApproved ==
    state = "Authenticated"
        => /\ authedBy \in UserNames \X Creds
           /\ \E c \in Creds : <<authedBy[1], c>> \in approved

IInv == TypeOK /\ PkOkApproved /\ AuthenticatedApproved

-----------------------------------------------------------------------------
(* Every step of Next, as one case each, with its parameters. *)
LEMMA StepCases ==
    ASSUME [Next]_vars
    PROVE  \/ \E svc \in Services : Receive(ServerAcceptService(svc))
           \/ \E u \in UserNames, d \in {"Accept", "Reject"} :
                 Receive(ReadAuthRequestPassword(u, d))
           \/ \E u \in UserNames, k \in Keys, sig \in BOOLEAN, d \in {"Accept", "Reject"} :
                 Receive(ReadAuthRequestPkSigned(u, k, sig, d))
           \/ \E u \in UserNames, k \in Keys, d \in {"Accept", "Reject"} :
                 Receive(ReadAuthRequestPkProbe(u, k, d))
           \/ Receive(ReadAuthRequestPkBadKey)
           \/ \E u \in UserNames, d \in Decisions :
                 Receive(ReadAuthRequestKbdInteractive(u, d))
           \/ Receive(ReadAuthRequestOther)
           \/ \E d \in Decisions : Receive(ReadUserauthInfoResponse(d))
           \/ Receive(FatalError)
           \/ Receive(OtherPacket)
           \/ Disconnect
           \/ UNCHANGED vars
BY DEF Next, Terminated

-----------------------------------------------------------------------------
(* Type correctness. *)

(* The packets written by one step keep the trace a sequence of Msgs. *)
LEMMA AppendMsg ==
    ASSUME NEW s \in Seq(Msgs), NEW m \in Msgs
    PROVE  Append(s, m) \in Seq(Msgs)
OBVIOUS

LEMMA ConcatMsgs ==
    ASSUME NEW s \in Seq(Msgs), NEW t \in Seq(Msgs)
    PROVE  s \o t \in Seq(Msgs)
OBVIOUS

(* What reply_userauth_info_response leaves behind has the types of     *)
(* TypeOK, whichever answer the handler gave.                               *)
LEMMA ReplyType ==
    ASSUME TypeOK, NEW d \in Decisions, NEW cur \in CurrentRequests,
           ReplyUserauthInfoResponse(d, cur)
    PROVE  /\ methods' \subseteq AllMethods
           /\ current' \in CurrentRequests
           /\ rejection_count' \in Nat
           /\ out' \in Seq(Msgs)
           /\ status' \in {"running", "closed", "panicked"}
<1>1. CASE d = "Accept"
    <2>1. /\ out' = Append(out, [type |-> "USERAUTH_SUCCESS"])
          /\ current' = cur
          /\ UNCHANGED <<methods, rejection_count, status>>
        BY <1>1 DEF ReplyUserauthInfoResponse, ServerAuthRequestSuccess
    <2>2. out' \in Seq(Msgs)
        BY <2>1, AppendMsg DEF TypeOK, Msgs
    <2>3. QED
        BY <2>1, <2>2 DEF TypeOK
<1>2. CASE d = "Reject"
    <2>1. /\ out' = Append(out, [type |-> "USERAUTH_FAILURE", methods |-> methods,
                                 partial |-> FALSE])
          /\ current' = NoRequest /\ rejection_count' = rejection_count + 1
          /\ UNCHANGED <<methods, status>>
        BY <1>2 DEF ReplyUserauthInfoResponse, RejectAuthRequest
    <2>2. out' \in Seq(Msgs)
        BY <2>1, AppendMsg DEF TypeOK, Msgs
    <2>3. QED
        BY <2>1, <2>2 DEF TypeOK, CurrentRequests, NoRequest
<1>3. CASE d = "Partial"
    <2>1. /\ out' = Append(out, [type |-> "USERAUTH_INFO_REQUEST"])
          /\ current' = cur
          /\ UNCHANGED <<methods, rejection_count, status>>
        BY <1>3 DEF ReplyUserauthInfoResponse
    <2>2. out' \in Seq(Msgs)
        BY <2>1, AppendMsg DEF TypeOK, Msgs
    <2>3. QED
        BY <2>1, <2>2 DEF TypeOK
<1>4. CASE d = "UnsupportedMethod"
    <2>1. /\ status' = "panicked" /\ current' = cur
          /\ UNCHANGED <<methods, rejection_count, out>>
        BY <1>4 DEF ReplyUserauthInfoResponse
    <2>2. QED
        BY <2>1 DEF TypeOK
<1>5. QED
    BY <1>1, <1>2, <1>3, <1>4 DEF Decisions

LEMMA TypeStep == TypeOK /\ [Next]_vars => TypeOK'
<1> SUFFICES ASSUME TypeOK, [Next]_vars PROVE TypeOK'
    OBVIOUS
<1> USE ConfigMethodsAssumption DEF States, UserNames, Decisions
<1>1. CASE \E svc \in Services : Receive(ServerAcceptService(svc))
    <2> SUFFICES ASSUME NEW svc \in Services, Receive(ServerAcceptService(svc))
                 PROVE  TypeOK'
        BY <1>1
    <2>1. CASE out' = out
        BY <2>1 DEF Receive, ServerAcceptService, TypeOK, CurrentRequests
    <2>2. CASE out' # out
        <3>1. /\ state' = "WaitingAuthRequest"
              /\ methods' = ConfigMethods
              /\ current' = NoRequest
              /\ rejection_count' = 0
              /\ UNCHANGED <<auth_user, status, approved, authedBy>>
              /\ npkts' = npkts + 1
            BY <2>2 DEF Receive, ServerAcceptService
        <3>2. out' \in Seq(Msgs)
            <4>1. <<[type |-> "SERVICE_ACCEPT"], [type |-> "USERAUTH_BANNER"]>> \in Seq(Msgs)
                BY DEF Msgs
            <4>2. <<[type |-> "SERVICE_ACCEPT"]>> \in Seq(Msgs)
                BY DEF Msgs
            <4>3. out' = out \o <<[type |-> "SERVICE_ACCEPT"], [type |-> "USERAUTH_BANNER"]>>
                  \/ out' = out \o <<[type |-> "SERVICE_ACCEPT"]>>
                BY <2>2 DEF Receive, ServerAcceptService
            <4>4. QED
                BY <4>1, <4>2, <4>3, ConcatMsgs DEF TypeOK
        <3>3. QED
            BY <3>1, <3>2 DEF TypeOK, CurrentRequests, NoRequest
    <2>3. QED
        BY <2>1, <2>2
<1>2. CASE \E u \in UserNames, d \in {"Accept", "Reject"} :
              Receive(ReadAuthRequestPassword(u, d))
    <2> SUFFICES ASSUME NEW u \in UserNames, NEW d \in {"Accept", "Reject"},
                        Receive(ReadAuthRequestPassword(u, d))
                 PROVE  TypeOK'
        BY <1>2
    <2>1. CASE d = "Accept"
        <3>1. /\ out' = Append(out, [type |-> "USERAUTH_SUCCESS"])
              /\ state' = "Authenticated" /\ authedBy' = <<u, "password">>
              /\ approved' = approved \cup {<<u, "password">>} /\ auth_user' = u
              /\ UNCHANGED <<methods, current, rejection_count, status>>
              /\ npkts' = npkts + 1
            BY <2>1 DEF Receive, ReadAuthRequestPassword, Judged, Authenticate,
                        ServerAuthRequestSuccess, InstallAuthenticated
        <3>2. out' \in Seq(Msgs)
            BY <3>1, AppendMsg DEF TypeOK, Msgs
        <3>3. QED
            BY <3>1, <3>2 DEF TypeOK, Creds
    <2>2. CASE d = "Reject"
        <3>1. /\ out' = Append(out, [type |-> "USERAUTH_FAILURE",
                                     methods |-> methods \ {"password"},
                                     partial |-> FALSE])
              /\ methods' = methods \ {"password"} /\ current' = NoRequest
              /\ rejection_count' = rejection_count + 1
              /\ approved' = approved /\ auth_user' = EmptyUser
              /\ UNCHANGED <<state, authedBy, status>>
              /\ npkts' = npkts + 1
            BY <2>2 DEF Receive, ReadAuthRequestPassword, Judged, RejectAuthRequest
        <3>2. out' \in Seq(Msgs)
            BY <3>1, AppendMsg DEF TypeOK, Msgs
        <3>3. QED
            BY <3>1, <3>2 DEF TypeOK, CurrentRequests, NoRequest
    <2>3. QED
        BY <2>1, <2>2
<1>3. CASE \E u \in UserNames, k \in Keys, sig \in BOOLEAN, d \in {"Accept", "Reject"} :
              Receive(ReadAuthRequestPkSigned(u, k, sig, d))
    <2> SUFFICES ASSUME NEW u \in UserNames, NEW k \in Keys, NEW sig \in BOOLEAN,
                        NEW d \in {"Accept", "Reject"},
                        Receive(ReadAuthRequestPkSigned(u, k, sig, d))
                 PROVE  TypeOK'
        BY <1>3
    <2>1. /\ auth_user' \in UserNames
          /\ approved' \subseteq UserNames \X Creds
          /\ npkts' = npkts + 1 /\ status' = status
        BY DEF Receive, ReadAuthRequestPkSigned, Judged, TypeOK, Creds
    <2>2. CASE out' = Append(out, [type |-> "USERAUTH_SUCCESS"])
        <3>1. /\ state' = "Authenticated" /\ authedBy' = <<u, k>>
              /\ UNCHANGED <<methods, current, rejection_count>>
            BY <2>2 DEF Receive, ReadAuthRequestPkSigned, Authenticate,
                        ServerAuthRequestSuccess, InstallAuthenticated,
                        RejectAuthRequest
        <3>2. out' \in Seq(Msgs)
            BY <2>2, AppendMsg DEF TypeOK, Msgs
        <3>3. QED
            BY <2>1, <3>1, <3>2 DEF TypeOK, Creds
    <2>3. CASE out' # Append(out, [type |-> "USERAUTH_SUCCESS"])
        <3>1. /\ out' = Append(out, [type |-> "USERAUTH_FAILURE", methods |-> methods,
                                     partial |-> FALSE])
              /\ current' = NoRequest /\ rejection_count' = rejection_count + 1
              /\ UNCHANGED <<methods, state, authedBy>>
            BY <2>3 DEF Receive, ReadAuthRequestPkSigned, Authenticate,
                        ServerAuthRequestSuccess, RejectAuthRequest
        <3>2. out' \in Seq(Msgs)
            BY <3>1, AppendMsg DEF TypeOK, Msgs
        <3>3. QED
            BY <2>1, <3>1, <3>2 DEF TypeOK, CurrentRequests, NoRequest
    <2>4. QED
        BY <2>2, <2>3
<1>4. CASE \E u \in UserNames, k \in Keys, d \in {"Accept", "Reject"} :
              Receive(ReadAuthRequestPkProbe(u, k, d))
    <2> SUFFICES ASSUME NEW u \in UserNames, NEW k \in Keys,
                        NEW d \in {"Accept", "Reject"},
                        Receive(ReadAuthRequestPkProbe(u, k, d))
                 PROVE  TypeOK'
        BY <1>4
    <2>1. /\ approved' \subseteq UserNames \X Creds
          /\ npkts' = npkts + 1
          /\ UNCHANGED <<state, methods, status, authedBy>>
        BY DEF Receive, ReadAuthRequestPkProbe, Judged, TypeOK, Creds
    <2>2. CASE d = "Accept"
        <3>1. /\ out' = Append(out, [type |-> "USERAUTH_PK_OK", key |-> k])
              /\ current' = [kind |-> "PublicKey", key |-> k, sent_pk_ok |-> TRUE]
              /\ auth_user' = u /\ rejection_count' = rejection_count
            BY <2>2 DEF Receive, ReadAuthRequestPkProbe
        <3>2. out' \in Seq(Msgs)
            BY <3>1, AppendMsg DEF TypeOK, Msgs
        <3>3. QED
            BY <2>1, <3>1, <3>2 DEF TypeOK, CurrentRequests
    <2>3. CASE d = "Reject"
        <3>1. /\ out' = Append(out, [type |-> "USERAUTH_FAILURE", methods |-> methods,
                                     partial |-> FALSE])
              /\ current' = NoRequest /\ rejection_count' = rejection_count + 1
              /\ auth_user' = EmptyUser
            BY <2>3 DEF Receive, ReadAuthRequestPkProbe, RejectAuthRequest
        <3>2. out' \in Seq(Msgs)
            BY <3>1, AppendMsg DEF TypeOK, Msgs
        <3>3. QED
            BY <2>1, <3>1, <3>2 DEF TypeOK, CurrentRequests, NoRequest
    <2>4. QED
        BY <2>2, <2>3
<1>5. CASE Receive(ReadAuthRequestPkBadKey)
    <2>1. /\ out' = Append(out, [type |-> "USERAUTH_FAILURE", methods |-> methods,
                                 partial |-> FALSE])
          /\ current' = NoRequest /\ rejection_count' = rejection_count + 1
          /\ npkts' = npkts + 1
          /\ UNCHANGED <<state, methods, auth_user, status, approved, authedBy>>
        BY <1>5 DEF Receive, ReadAuthRequestPkBadKey, RejectAuthRequest
    <2>2. out' \in Seq(Msgs)
        BY <2>1, AppendMsg DEF TypeOK, Msgs
    <2>3. QED
        BY <2>1, <2>2 DEF TypeOK, CurrentRequests, NoRequest
<1>6. CASE \E u \in UserNames, d \in Decisions :
              Receive(ReadAuthRequestKbdInteractive(u, d))
    <2> SUFFICES ASSUME NEW u \in UserNames, NEW d \in Decisions,
                        Receive(ReadAuthRequestKbdInteractive(u, d))
                 PROVE  TypeOK'
        BY <1>6
    <2>1. /\ auth_user' = u
          /\ approved' \subseteq UserNames \X Creds
          /\ npkts' = npkts + 1
          /\ ReplyUserauthInfoResponse(d, [kind |-> "KeyboardInteractive"])
          /\ InstallIfReplied(u, d)
        BY DEF Receive, ReadAuthRequestKbdInteractive, Judged, TypeOK, Creds
    <2>2. /\ methods' \subseteq AllMethods
          /\ current' \in CurrentRequests
          /\ rejection_count' \in Nat
          /\ out' \in Seq(Msgs)
          /\ status' \in {"running", "closed", "panicked"}
        <3>1. [kind |-> "KeyboardInteractive"] \in CurrentRequests
            BY DEF CurrentRequests
        <3>2. QED
            BY <2>1, <3>1, ReplyType
    <2>3. state' \in States /\ authedBy' \in {NoAuth} \cup (UserNames \X Creds)
        BY <2>1 DEF InstallIfReplied, InstallAuthenticated, TypeOK, Creds
    <2>4. QED
        BY <2>1, <2>2, <2>3 DEF TypeOK
<1>7. CASE Receive(ReadAuthRequestOther)
    <2>1. /\ out' = Append(out, [type |-> "USERAUTH_FAILURE", methods |-> methods,
                                 partial |-> FALSE])
          /\ current' = NoRequest /\ rejection_count' = rejection_count + 1
          /\ npkts' = npkts + 1
          /\ UNCHANGED <<state, methods, auth_user, status, approved, authedBy>>
        BY <1>7 DEF Receive, ReadAuthRequestOther, RejectAuthRequest
    <2>2. out' \in Seq(Msgs)
        BY <2>1, AppendMsg DEF TypeOK, Msgs
    <2>3. QED
        BY <2>1, <2>2 DEF TypeOK, CurrentRequests, NoRequest
<1>8. CASE \E d \in Decisions : Receive(ReadUserauthInfoResponse(d))
    <2> SUFFICES ASSUME NEW d \in Decisions, Receive(ReadUserauthInfoResponse(d))
                 PROVE  TypeOK'
        BY <1>8
    <2>1. CASE current.kind = "KeyboardInteractive"
        <3>1. /\ auth_user' = auth_user
              /\ approved' \subseteq UserNames \X Creds
              /\ npkts' = npkts + 1
              /\ ReplyUserauthInfoResponse(d, current)
              /\ InstallIfReplied(auth_user, d)
            BY <2>1 DEF Receive, ReadUserauthInfoResponse, Judged, TypeOK, Creds
        <3>2. /\ methods' \subseteq AllMethods
              /\ current' \in CurrentRequests
              /\ rejection_count' \in Nat
              /\ out' \in Seq(Msgs)
              /\ status' \in {"running", "closed", "panicked"}
            BY <3>1, ReplyType DEF TypeOK
        <3>3. state' \in States /\ authedBy' \in {NoAuth} \cup (UserNames \X Creds)
            BY <3>1 DEF InstallIfReplied, InstallAuthenticated, TypeOK, Creds
        <3>4. QED
            BY <3>1, <3>2, <3>3 DEF TypeOK
    <2>2. CASE current.kind # "KeyboardInteractive"
        <3>1. /\ out' = Append(out, [type |-> "USERAUTH_FAILURE", methods |-> methods,
                                     partial |-> FALSE])
              /\ current' = NoRequest /\ rejection_count' = rejection_count + 1
              /\ npkts' = npkts + 1
              /\ UNCHANGED <<state, methods, auth_user, status, approved, authedBy>>
            BY <2>2 DEF Receive, ReadUserauthInfoResponse, RejectAuthRequest
        <3>2. out' \in Seq(Msgs)
            BY <3>1, AppendMsg DEF TypeOK, Msgs
        <3>3. QED
            BY <3>1, <3>2 DEF TypeOK, CurrentRequests, NoRequest
    <2>3. QED
        BY <2>1, <2>2
<1>9. CASE Receive(FatalError)
    BY <1>9 DEF Receive, FatalError, TypeOK
<1>10. CASE Receive(OtherPacket)
    BY <1>10 DEF Receive, OtherPacket, TypeOK
<1>11. CASE Disconnect
    BY <1>11 DEF Disconnect, TypeOK
<1>12. CASE UNCHANGED vars
    BY <1>12 DEF vars, TypeOK
<1>13. QED
    BY <1>1, <1>2, <1>3, <1>4, <1>5, <1>6, <1>7, <1>8, <1>9, <1>10, <1>11,
       <1>12, StepCases

(* The server's state always has its type. *)
THEOREM TypeCorrect == Spec => []TypeOK
<1>1. Init => TypeOK
    BY DEF Init, TypeOK, States, UserNames, CurrentRequests, NoRequest, NoAuth
<1>2. QED
    BY <1>1, TypeStep, PTL DEF Spec

-----------------------------------------------------------------------------
(* Only a user the application accepted is authenticated. *)

(* reply_userauth_info_response either keeps the request its caller left  *)
(* in auth_request.current or clears it.                                   *)
LEMMA ReplyCurrent ==
    ASSUME NEW d \in Decisions, NEW cur, ReplyUserauthInfoResponse(d, cur)
    PROVE  current' \in {cur, NoRequest}
BY DEF ReplyUserauthInfoResponse, RejectAuthRequest, Decisions

(* A step taken while authentication is still pending, with a rejection: *)
(* it clears current and leaves the state, so both conjuncts hold after.   *)
LEMMA RejectKeeps ==
    ASSUME state = "WaitingAuthRequest", state' = state, current' = NoRequest
    PROVE  PkOkApproved' /\ AuthenticatedApproved'
BY DEF PkOkApproved, AuthenticatedApproved, NoRequest

LEMMA IInvStep == IInv /\ [Next]_vars => IInv'
<1> SUFFICES ASSUME IInv, [Next]_vars PROVE IInv'
    OBVIOUS
<1>0. TypeOK'
    BY TypeStep DEF IInv
<1> SUFFICES PkOkApproved' /\ AuthenticatedApproved'
    BY <1>0 DEF IInv
<1> USE DEF UserNames
<1>1. CASE \E svc \in Services : Receive(ServerAcceptService(svc))
    BY <1>1 DEF Receive, ServerAcceptService, PkOkApproved,
                AuthenticatedApproved, NoRequest, IInv
<1>2. CASE \E u \in UserNames, d \in {"Accept", "Reject"} :
              Receive(ReadAuthRequestPassword(u, d))
    <2> SUFFICES ASSUME NEW u \in UserNames, NEW d \in {"Accept", "Reject"},
                        Receive(ReadAuthRequestPassword(u, d))
                 PROVE  PkOkApproved' /\ AuthenticatedApproved'
        BY <1>2
    <2>1. CASE d = "Accept"
        <3>1. /\ state' = "Authenticated" /\ authedBy' = <<u, "password">>
              /\ <<u, "password">> \in approved'
            BY <2>1 DEF Receive, ReadAuthRequestPassword, Judged, Authenticate,
                        InstallAuthenticated
        <3>2. QED
            BY <3>1 DEF PkOkApproved, AuthenticatedApproved, Creds
    <2>2. CASE d = "Reject"
        BY <2>2, RejectKeeps DEF Receive, ReadAuthRequestPassword, RejectAuthRequest
    <2>3. QED
        BY <2>1, <2>2
<1>3. CASE \E u \in UserNames, k \in Keys, sig \in BOOLEAN, d \in {"Accept", "Reject"} :
              Receive(ReadAuthRequestPkSigned(u, k, sig, d))
    <2> SUFFICES ASSUME NEW u \in UserNames, NEW k \in Keys, NEW sig \in BOOLEAN,
                        NEW d \in {"Accept", "Reject"},
                        Receive(ReadAuthRequestPkSigned(u, k, sig, d))
                 PROVE  PkOkApproved' /\ AuthenticatedApproved'
        BY <1>3
    <2> DEFINE byProbe == current.kind = "PublicKey" /\ current.sent_pk_ok
                          /\ u = auth_user
               byHandler == ~byProbe /\ auth_user = EmptyUser
    <2>1. state = "WaitingAuthRequest"
        BY DEF Receive, ReadAuthRequestPkSigned
    <2>2. CASE byProbe /\ sig
        <3>1. /\ state' = "Authenticated" /\ authedBy' = <<u, k>>
              /\ approved' = approved /\ auth_user' = auth_user
            BY <2>2 DEF Receive, ReadAuthRequestPkSigned, Authenticate,
                        InstallAuthenticated
        <3>2. <<u, current.key>> \in approved
            BY <2>1, <2>2 DEF IInv, PkOkApproved
        <3>3. current.key \in Creds
            BY <2>2 DEF IInv, TypeOK, CurrentRequests, NoRequest, Creds
        <3>4. QED
            BY <3>1, <3>2, <3>3 DEF PkOkApproved, AuthenticatedApproved, Creds
    <2>3. CASE byHandler /\ d = "Accept" /\ sig
        <3>1. /\ state' = "Authenticated" /\ authedBy' = <<u, k>>
              /\ <<u, k>> \in approved'
            BY <2>3 DEF Receive, ReadAuthRequestPkSigned, Judged, Authenticate,
                        InstallAuthenticated
        <3>2. QED
            BY <3>1 DEF PkOkApproved, AuthenticatedApproved, Creds
    <2>4. CASE ~(byProbe /\ sig) /\ ~(byHandler /\ d = "Accept" /\ sig)
        <3>1. state' = state /\ current' = NoRequest
            BY <2>4 DEF Receive, ReadAuthRequestPkSigned, RejectAuthRequest
        <3>2. QED
            BY <2>1, <3>1, RejectKeeps
    <2>5. QED
        BY <2>2, <2>3, <2>4
<1>4. CASE \E u \in UserNames, k \in Keys, d \in {"Accept", "Reject"} :
              Receive(ReadAuthRequestPkProbe(u, k, d))
    <2> SUFFICES ASSUME NEW u \in UserNames, NEW k \in Keys,
                        NEW d \in {"Accept", "Reject"},
                        Receive(ReadAuthRequestPkProbe(u, k, d))
                 PROVE  PkOkApproved' /\ AuthenticatedApproved'
        BY <1>4
    <2>1. CASE d = "Accept"
        <3>1. /\ state' = "WaitingAuthRequest" /\ auth_user' = u
              /\ current' = [kind |-> "PublicKey", key |-> k, sent_pk_ok |-> TRUE]
              /\ <<u, k>> \in approved'
            BY <2>1 DEF Receive, ReadAuthRequestPkProbe, Judged
        <3>2. QED
            BY <3>1 DEF PkOkApproved, AuthenticatedApproved
    <2>2. CASE d = "Reject"
        BY <2>2, RejectKeeps DEF Receive, ReadAuthRequestPkProbe, RejectAuthRequest
    <2>3. QED
        BY <2>1, <2>2
<1>5. CASE Receive(ReadAuthRequestPkBadKey)
    BY <1>5, RejectKeeps DEF Receive, ReadAuthRequestPkBadKey, RejectAuthRequest
<1>6. CASE \E u \in UserNames, d \in Decisions :
              Receive(ReadAuthRequestKbdInteractive(u, d))
    <2> SUFFICES ASSUME NEW u \in UserNames, NEW d \in Decisions,
                        Receive(ReadAuthRequestKbdInteractive(u, d))
                 PROVE  PkOkApproved' /\ AuthenticatedApproved'
        BY <1>6
    <2>1. CASE d = "Accept"
        <3>1. /\ state' = "Authenticated" /\ authedBy' = <<u, "keyboard-interactive">>
              /\ <<u, "keyboard-interactive">> \in approved'
            BY <2>1 DEF Receive, ReadAuthRequestKbdInteractive, Judged,
                        InstallIfReplied, InstallAuthenticated
        <3>2. QED
            BY <3>1 DEF PkOkApproved, AuthenticatedApproved, Creds
    <2>2. CASE d # "Accept"
        <3>1. state' = "WaitingAuthRequest"
            BY <2>2 DEF Receive, ReadAuthRequestKbdInteractive, InstallIfReplied
        <3>2. current' \in {[kind |-> "KeyboardInteractive"], NoRequest}
            BY ReplyCurrent DEF Receive, ReadAuthRequestKbdInteractive
        <3>3. QED
            BY <3>1, <3>2 DEF PkOkApproved, AuthenticatedApproved, NoRequest
    <2>3. QED
        BY <2>1, <2>2
<1>7. CASE Receive(ReadAuthRequestOther)
    BY <1>7, RejectKeeps DEF Receive, ReadAuthRequestOther, RejectAuthRequest
<1>8. CASE \E d \in Decisions : Receive(ReadUserauthInfoResponse(d))
    <2> SUFFICES ASSUME NEW d \in Decisions, Receive(ReadUserauthInfoResponse(d))
                 PROVE  PkOkApproved' /\ AuthenticatedApproved'
        BY <1>8
    <2>1. CASE current.kind = "KeyboardInteractive" /\ d = "Accept"
        <3>1. /\ state' = "Authenticated"
              /\ authedBy' = <<auth_user, "keyboard-interactive">>
              /\ <<auth_user, "keyboard-interactive">> \in approved'
              /\ auth_user \in UserNames
            BY <2>1 DEF Receive, ReadUserauthInfoResponse, Judged,
                        InstallIfReplied, InstallAuthenticated, IInv, TypeOK
        <3>2. QED
            BY <3>1 DEF PkOkApproved, AuthenticatedApproved, Creds
    <2>2. CASE current.kind = "KeyboardInteractive" /\ d # "Accept"
        <3>1. state' = "WaitingAuthRequest"
            BY <2>2 DEF Receive, ReadUserauthInfoResponse, InstallIfReplied
        <3>2. current' \in {current, NoRequest}
            BY <2>2, ReplyCurrent DEF Receive, ReadUserauthInfoResponse
        <3>3. QED
            BY <2>2, <3>1, <3>2 DEF PkOkApproved, AuthenticatedApproved, NoRequest
    <2>3. CASE current.kind # "KeyboardInteractive"
        BY <2>3, RejectKeeps DEF Receive, ReadUserauthInfoResponse, RejectAuthRequest
    <2>4. QED
        BY <2>1, <2>2, <2>3
<1>9. CASE Receive(FatalError)
    BY <1>9 DEF Receive, FatalError, PkOkApproved, AuthenticatedApproved, IInv
<1>10. CASE Receive(OtherPacket)
    BY <1>10 DEF Receive, OtherPacket, PkOkApproved, AuthenticatedApproved, IInv
<1>11. CASE Disconnect
    BY <1>11 DEF Disconnect, PkOkApproved, AuthenticatedApproved, IInv
<1>12. CASE UNCHANGED vars
    BY <1>12 DEF vars, PkOkApproved, AuthenticatedApproved, IInv
<1>13. QED
    BY <1>1, <1>2, <1>3, <1>4, <1>5, <1>6, <1>7, <1>8, <1>9, <1>10, <1>11,
       <1>12, StepCases

(* Whoever run_stream's connection authenticates, through any sequence of *)
(* password, publickey (probe, PK_OK, signed) and keyboard-interactive    *)
(* packets, was accepted by a Handler::auth_* call for that user name.    *)
THEOREM UserApprovedHolds == Spec => []UserApproved
<1>1. Init => IInv
    BY DEF Init, IInv, TypeOK, PkOkApproved, AuthenticatedApproved, States,
           UserNames, CurrentRequests, NoRequest, NoAuth
<1>2. IInv => UserApproved
    BY DEF IInv, AuthenticatedApproved, UserApproved
<1>3. QED
    BY <1>1, <1>2, IInvStep, PTL DEF Spec

-----------------------------------------------------------------------------
(* USERAUTH_SUCCESS is written once, last, and exactly when the state is  *)
(* Authenticated.                                                          *)

(* No packet of s is USERAUTH_SUCCESS. *)
NoSuccess(s) == \A i \in 1 .. Len(s) : s[i].type # "USERAUTH_SUCCESS"

(* SuccessOnce, stated per state: while authentication is pending no     *)
(* success has been written; once Authenticated, the last packet is the  *)
(* only success.                                                          *)
SuccessLast ==
    /\ state # "Authenticated" => NoSuccess(out)
    /\ state = "Authenticated" =>
           /\ Len(out) >= 1
           /\ out[Len(out)].type = "USERAUTH_SUCCESS"
           /\ \A i \in 1 .. Len(out) - 1 : out[i].type # "USERAUTH_SUCCESS"

SInv == TypeOK /\ SuccessLast

(* Appending anything but a success keeps a trace free of successes. *)
LEMMA NoSuccessAppend ==
    ASSUME NEW s \in Seq(Msgs), NoSuccess(s), NEW m, m.type # "USERAUTH_SUCCESS"
    PROVE  NoSuccess(Append(s, m))
BY DEF NoSuccess

LEMMA NoSuccessConcat ==
    ASSUME NEW s \in Seq(Msgs), NEW t \in Seq(Msgs), NoSuccess(s), NoSuccess(t)
    PROVE  NoSuccess(s \o t)
BY DEF NoSuccess

(* Appending the success to a trace free of them makes it the last and   *)
(* only one.                                                              *)
LEMMA SuccessAppended ==
    ASSUME NEW s \in Seq(Msgs), NoSuccess(s)
    PROVE  LET t == Append(s, [type |-> "USERAUTH_SUCCESS"]) IN
           /\ Len(t) >= 1
           /\ t[Len(t)].type = "USERAUTH_SUCCESS"
           /\ \A i \in 1 .. Len(t) - 1 : t[i].type # "USERAUTH_SUCCESS"
BY DEF NoSuccess

(* A step of a waiting state that writes the success installs            *)
(* Authenticated; one that does not leaves the state waiting.  Either     *)
(* way SuccessLast holds after it.                                        *)
LEMMA WritesSuccess ==
    ASSUME TypeOK, state # "Authenticated", NoSuccess(out),
           ServerAuthRequestSuccess, state' = "Authenticated"
    PROVE  SuccessLast'
BY SuccessAppended DEF ServerAuthRequestSuccess, SuccessLast, TypeOK

LEMMA WritesOther ==
    ASSUME TypeOK, state # "Authenticated", NoSuccess(out), state' # "Authenticated",
           \/ out' = out
           \/ \E m \in Msgs : m.type # "USERAUTH_SUCCESS" /\ out' = Append(out, m)
    PROVE  SuccessLast'
BY NoSuccessAppend DEF SuccessLast, TypeOK

LEMMA RejectWrites ==
    ASSUME TypeOK, NEW m \in SUBSET AllMethods, RejectAuthRequest(m)
    PROVE  \E x \in Msgs : x.type # "USERAUTH_SUCCESS" /\ out' = Append(out, x)
<1> DEFINE x == [type |-> "USERAUTH_FAILURE", methods |-> m, partial |-> FALSE]
<1>1. x \in Msgs /\ x.type # "USERAUTH_SUCCESS" /\ out' = Append(out, x)
    BY DEF RejectAuthRequest, Msgs
<1>2. QED
    BY <1>1

(* Every handler of a waiting state starts from a trace free of successes. *)
LEMMA WaitingClean ==
    ASSUME SuccessLast, state = "WaitingAuthRequest"
    PROVE  state # "Authenticated" /\ NoSuccess(out)
BY DEF SuccessLast

LEMMA SuccessStep == SInv /\ [Next]_vars => SInv'
<1> SUFFICES ASSUME TypeOK, SuccessLast, [Next]_vars PROVE SInv'
    BY DEF SInv
<1>0. TypeOK'
    BY TypeStep
<1> SUFFICES SuccessLast'
    BY <1>0 DEF SInv
<1> USE DEF UserNames
<1>1. CASE \E svc \in Services : Receive(ServerAcceptService(svc))
    <2> SUFFICES ASSUME NEW svc \in Services, Receive(ServerAcceptService(svc))
                 PROVE  SuccessLast'
        BY <1>1
    <2>1. state = "WaitingServiceRequest" /\ NoSuccess(out)
        BY DEF Receive, ServerAcceptService, SuccessLast
    <2>2. CASE svc = "ssh-userauth"
        <3> DEFINE sent == IF Banner
                           THEN <<[type |-> "SERVICE_ACCEPT"], [type |-> "USERAUTH_BANNER"]>>
                           ELSE <<[type |-> "SERVICE_ACCEPT"]>>
        <3>1. out' = out \o sent /\ state' = "WaitingAuthRequest"
            BY <2>2 DEF Receive, ServerAcceptService
        <3>2. sent \in Seq(Msgs) /\ NoSuccess(sent)
            <4>1. [type |-> "SERVICE_ACCEPT"] \in Msgs
                  /\ [type |-> "USERAUTH_BANNER"] \in Msgs
                BY DEF Msgs
            <4>2. CASE Banner
                BY <4>1, <4>2 DEF NoSuccess
            <4>3. CASE ~Banner
                BY <4>1, <4>3 DEF NoSuccess
            <4>4. QED
                BY <4>2, <4>3
        <3>3. NoSuccess(out')
            BY <2>1, <3>1, <3>2, NoSuccessConcat DEF TypeOK
        <3>4. QED
            BY <3>1, <3>3 DEF SuccessLast
    <2>3. CASE svc # "ssh-userauth"
        BY <2>1, <2>3 DEF Receive, ServerAcceptService, SuccessLast
    <2>4. QED
        BY <2>2, <2>3
<1>2. CASE \E u \in UserNames, d \in {"Accept", "Reject"} :
              Receive(ReadAuthRequestPassword(u, d))
    <2> SUFFICES ASSUME NEW u \in UserNames, NEW d \in {"Accept", "Reject"},
                        Receive(ReadAuthRequestPassword(u, d))
                 PROVE  SuccessLast'
        BY <1>2
    <2>1. state # "Authenticated" /\ NoSuccess(out)
        BY WaitingClean DEF Receive, ReadAuthRequestPassword
    <2>2. CASE d = "Accept"
        BY <2>1, <2>2, WritesSuccess
           DEF Receive, ReadAuthRequestPassword, Authenticate, InstallAuthenticated
    <2>3. CASE d = "Reject"
        <3>1. methods' \in SUBSET AllMethods /\ RejectAuthRequest(methods')
              /\ state' = state
            BY <2>3 DEF Receive, ReadAuthRequestPassword, TypeOK
        <3>2. QED
            BY <2>1, <3>1, RejectWrites, WritesOther
    <2>4. QED
        BY <2>2, <2>3
<1>3. CASE \E u \in UserNames, k \in Keys, sig \in BOOLEAN, d \in {"Accept", "Reject"} :
              Receive(ReadAuthRequestPkSigned(u, k, sig, d))
    <2> SUFFICES ASSUME NEW u \in UserNames, NEW k \in Keys, NEW sig \in BOOLEAN,
                        NEW d \in {"Accept", "Reject"},
                        Receive(ReadAuthRequestPkSigned(u, k, sig, d))
                 PROVE  SuccessLast'
        BY <1>3
    <2> DEFINE byProbe == current.kind = "PublicKey" /\ current.sent_pk_ok
                          /\ u = auth_user
               byHandler == ~byProbe /\ auth_user = EmptyUser
               valid == (byProbe \/ (byHandler /\ d = "Accept")) /\ sig
    <2>1. state # "Authenticated" /\ NoSuccess(out)
        BY WaitingClean DEF Receive, ReadAuthRequestPkSigned
    <2>2. CASE valid
        BY <2>1, <2>2, WritesSuccess
           DEF Receive, ReadAuthRequestPkSigned, Authenticate, InstallAuthenticated
    <2>3. CASE ~valid
        <3>1. RejectAuthRequest(methods) /\ state' = state
            BY <2>3 DEF Receive, ReadAuthRequestPkSigned
        <3>2. QED
            BY <2>1, <3>1, RejectWrites, WritesOther DEF TypeOK
    <2>4. QED
        BY <2>2, <2>3
<1>4. CASE \E u \in UserNames, k \in Keys, d \in {"Accept", "Reject"} :
              Receive(ReadAuthRequestPkProbe(u, k, d))
    <2> SUFFICES ASSUME NEW u \in UserNames, NEW k \in Keys,
                        NEW d \in {"Accept", "Reject"},
                        Receive(ReadAuthRequestPkProbe(u, k, d))
                 PROVE  SuccessLast'
        BY <1>4
    <2>1. state # "Authenticated" /\ NoSuccess(out) /\ state' = state
        BY WaitingClean DEF Receive, ReadAuthRequestPkProbe
    <2>2. CASE d = "Accept"
        <3>1. out' = Append(out, [type |-> "USERAUTH_PK_OK", key |-> k])
            BY <2>2 DEF Receive, ReadAuthRequestPkProbe
        <3>2. [type |-> "USERAUTH_PK_OK", key |-> k] \in Msgs
            BY DEF Msgs
        <3>3. QED
            BY <2>1, <3>1, <3>2, WritesOther
    <2>3. CASE d = "Reject"
        <3>1. RejectAuthRequest(methods)
            BY <2>3 DEF Receive, ReadAuthRequestPkProbe
        <3>2. QED
            BY <2>1, <3>1, RejectWrites, WritesOther DEF TypeOK
    <2>4. QED
        BY <2>2, <2>3
<1>5. CASE Receive(ReadAuthRequestPkBadKey)
    <2>1. state # "Authenticated" /\ NoSuccess(out) /\ state' = state
          /\ RejectAuthRequest(methods)
        BY <1>5, WaitingClean DEF Receive, ReadAuthRequestPkBadKey
    <2>2. QED
        BY <2>1, RejectWrites, WritesOther DEF TypeOK
<1>6. CASE \E u \in UserNames, d \in Decisions :
              Receive(ReadAuthRequestKbdInteractive(u, d))
    <2> SUFFICES ASSUME NEW u \in UserNames, NEW d \in Decisions,
                        Receive(ReadAuthRequestKbdInteractive(u, d))
                 PROVE  SuccessLast'
        BY <1>6
    <2>1. state # "Authenticated" /\ NoSuccess(out)
        BY WaitingClean DEF Receive, ReadAuthRequestKbdInteractive
    <2>2. ReplyUserauthInfoResponse(d, [kind |-> "KeyboardInteractive"])
          /\ InstallIfReplied(u, d)
        BY DEF Receive, ReadAuthRequestKbdInteractive
    <2>3. CASE d = "Accept"
        BY <2>1, <2>2, <2>3, WritesSuccess
           DEF ReplyUserauthInfoResponse, InstallIfReplied, InstallAuthenticated
    <2>4. CASE d = "Reject"
        <3>1. RejectAuthRequest(methods) /\ state' = state
            BY <2>2, <2>4 DEF ReplyUserauthInfoResponse, InstallIfReplied
        <3>2. QED
            BY <2>1, <3>1, RejectWrites, WritesOther DEF TypeOK
    <2>5. CASE d = "Partial"
        <3>1. out' = Append(out, [type |-> "USERAUTH_INFO_REQUEST"]) /\ state' = state
            BY <2>2, <2>5 DEF ReplyUserauthInfoResponse, InstallIfReplied
        <3>2. [type |-> "USERAUTH_INFO_REQUEST"] \in Msgs
            BY DEF Msgs
        <3>3. QED
            BY <2>1, <3>1, <3>2, WritesOther
    <2>6. CASE d = "UnsupportedMethod"
        <3>1. out' = out /\ state' = state
            BY <2>2, <2>6 DEF ReplyUserauthInfoResponse, InstallIfReplied
        <3>2. QED
            BY <2>1, <3>1, WritesOther
    <2>7. QED
        BY <2>3, <2>4, <2>5, <2>6 DEF Decisions
<1>7. CASE Receive(ReadAuthRequestOther)
    <2>1. state # "Authenticated" /\ NoSuccess(out) /\ state' = state
          /\ RejectAuthRequest(methods)
        BY <1>7, WaitingClean DEF Receive, ReadAuthRequestOther
    <2>2. QED
        BY <2>1, RejectWrites, WritesOther DEF TypeOK
<1>8. CASE \E d \in Decisions : Receive(ReadUserauthInfoResponse(d))
    <2> SUFFICES ASSUME NEW d \in Decisions, Receive(ReadUserauthInfoResponse(d))
                 PROVE  SuccessLast'
        BY <1>8
    <2>1. state # "Authenticated" /\ NoSuccess(out)
        BY WaitingClean DEF Receive, ReadUserauthInfoResponse
    <2>2. CASE current.kind = "KeyboardInteractive"
        <3>1. ReplyUserauthInfoResponse(d, current) /\ InstallIfReplied(auth_user, d)
            BY <2>2 DEF Receive, ReadUserauthInfoResponse
        <3>2. CASE d = "Accept"
            BY <2>1, <3>1, <3>2, WritesSuccess
               DEF ReplyUserauthInfoResponse, InstallIfReplied, InstallAuthenticated
        <3>3. CASE d = "Reject"
            <4>1. RejectAuthRequest(methods) /\ state' = state
                BY <3>1, <3>3 DEF ReplyUserauthInfoResponse, InstallIfReplied
            <4>2. QED
                BY <2>1, <4>1, RejectWrites, WritesOther DEF TypeOK
        <3>4. CASE d = "Partial"
            <4>1. out' = Append(out, [type |-> "USERAUTH_INFO_REQUEST"]) /\ state' = state
                BY <3>1, <3>4 DEF ReplyUserauthInfoResponse, InstallIfReplied
            <4>2. [type |-> "USERAUTH_INFO_REQUEST"] \in Msgs
                BY DEF Msgs
            <4>3. QED
                BY <2>1, <4>1, <4>2, WritesOther
        <3>5. CASE d = "UnsupportedMethod"
            <4>1. out' = out /\ state' = state
                BY <3>1, <3>5 DEF ReplyUserauthInfoResponse, InstallIfReplied
            <4>2. QED
                BY <2>1, <4>1, WritesOther
        <3>6. QED
            BY <3>2, <3>3, <3>4, <3>5 DEF Decisions
    <2>3. CASE current.kind # "KeyboardInteractive"
        <3>1. RejectAuthRequest(methods) /\ state' = state
            BY <2>3 DEF Receive, ReadUserauthInfoResponse
        <3>2. QED
            BY <2>1, <3>1, RejectWrites, WritesOther DEF TypeOK
    <2>4. QED
        BY <2>2, <2>3
<1>9. CASE Receive(FatalError)
    BY <1>9 DEF Receive, FatalError, SuccessLast
<1>10. CASE Receive(OtherPacket)
    BY <1>10 DEF Receive, OtherPacket, SuccessLast
<1>11. CASE Disconnect
    BY <1>11 DEF Disconnect, SuccessLast
<1>12. CASE UNCHANGED vars
    BY <1>12 DEF vars, SuccessLast
<1>13. QED
    BY <1>1, <1>2, <1>3, <1>4, <1>5, <1>6, <1>7, <1>8, <1>9, <1>10, <1>11,
       <1>12, StepCases

(* Through any sequence of packets run_stream passes to reply, the        *)
(* connection is Authenticated exactly when USERAUTH_SUCCESS has been     *)
(* written, and that packet is the only success and the last one written: *)
(* every path of server_read_encrypted writing it (password, signed       *)
(* publickey, keyboard-interactive) installs Authenticated with it.       *)
THEOREM SuccessOnceHolds == Spec => []SuccessOnce
<1>1. Init => SInv
    BY DEF Init, SInv, TypeOK, SuccessLast, NoSuccess, States, UserNames,
           CurrentRequests, NoRequest, NoAuth
<1>2. SInv => SuccessOnce
    <2> SUFFICES ASSUME TypeOK, SuccessLast PROVE SuccessOnce
        BY DEF SInv
    <2>1. CASE state = "Authenticated"
        BY <2>1 DEF SuccessLast, SuccessOnce, TypeOK
    <2>2. CASE state # "Authenticated"
        BY <2>2 DEF SuccessLast, SuccessOnce, NoSuccess
    <2>3. QED
        BY <2>1, <2>2
<1>3. QED
    BY <1>1, <1>2, SuccessStep, PTL DEF Spec

=============================================================================
