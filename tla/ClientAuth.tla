----------------------------- MODULE ClientAuth -----------------------------
(***************************************************************************)
(* The client side of SSH user authentication as implemented in            *)
(* src/src/client/encrypted.rs: the EncryptedState machine of one client   *)
(* connection from NEWKEYS to Authenticated, the queued auth_method and    *)
(* auth_user, the packets written for the server, the replies sent to the *)
(* application and the wait for an external signature (FuturePublicKey).  *)
(*                                                                         *)
(* One step is one packet handled by Session::client_read_encrypted, or    *)
(* one application call of write_auth_request_if_needed, or one iteration *)
(* of the loop that waits for Msg::Signed.  While that loop runs the task *)
(* reads neither packets nor other application messages: it consumes the  *)
(* application's messages itself.  The server is arbitrary: every packet  *)
(* it may send is an input chosen with \E.                                 *)
(***************************************************************************)
EXTENDS Naturals, Sequences, FiniteSets

CONSTANTS
    Users,          \* user names the application passes to authenticate
    EmptyUser,      \* the empty string: auth_user before any call
    Keys,           \* key pairs (PublicKey) or agent keys (FuturePublicKey)
    MaxPackets      \* bound on packets and application calls (model bound)

ASSUME ClientConstantsAssumption ==
    /\ EmptyUser \notin Users
    /\ MaxPackets \in Nat

(* auth::MethodSet, one element per bit flag (MethodSet::from_bytes). *)
ClientMethodNames == {"none", "password", "publickey", "hostbased", "keyboard-interactive"}

(* auth::Method, or None for self.common.auth_method. *)
NoMethod == [kind |-> "None"]
AuthMethods ==
    [kind : {"Password"}] \cup [kind : {"PublicKey", "FuturePublicKey"}, key : Keys]

(* Packets the client writes into enc.write.  SERVICE_REQUEST is written  *)
(* by the key exchange at NEWKEYS, before this module's first step.       *)
ServiceRequest == [type |-> "SERVICE_REQUEST"]
PasswordRequest(u) == [type |-> "USERAUTH_REQUEST", method |-> "password", user |-> u]
PkRequest(u, k, s) ==
    [type |-> "USERAUTH_REQUEST", method |-> "publickey", user |-> u, key |-> k, signed |-> s]
ClientMsgs ==
    {ServiceRequest}
    \cup [type : {"USERAUTH_REQUEST"}, method : {"password"}, user : Users]
    \cup [type : {"USERAUTH_REQUEST"}, method : {"publickey"}, user : Users,
          key : Keys, signed : BOOLEAN]

(* client::Reply values sent to the application. *)
Replies == [type : {"AuthSuccess", "AuthFailure"}] \cup [type : {"SignRequest"}, key : Keys]

(* The suspended FuturePublicKey branch: the user and key it signs for.   *)
NoSign == [user |-> EmptyUser]
Signings == {NoSign} \cup [user : Users, key : Keys]

VARIABLES
    cstate,       \* enc.state
    accepted,     \* the accepted flag of WaitingServiceRequest
    auth_user,    \* self.common.auth_user
    auth_method,  \* self.common.auth_method
    out,          \* every packet written for the server, in order
    replies,      \* every Reply sent to the application, in order
    signing,      \* the Msg::Signed wait of USERAUTH_PK_OK, or NoSign
    appGone,      \* the application dropped its Handle (both channels)
    status,       \* "running", or "closed" once an Err ends the task
    npkts         \* packets and calls so far (bounded by MaxPackets)

cvars == <<cstate, accepted, auth_user, auth_method, out, replies, signing,
           appGone, status, npkts>>

ClientStates == {"WaitingServiceRequest", "WaitingAuthRequest", "Authenticated"}

TypeOK ==
    /\ cstate \in ClientStates
    /\ accepted \in BOOLEAN
    /\ auth_user \in Users \cup {EmptyUser}
    /\ auth_method \in AuthMethods \cup {NoMethod}
    /\ out \in Seq(ClientMsgs)
    /\ replies \in Seq(Replies)
    /\ signing \in Signings
    /\ appGone \in BOOLEAN
    /\ status \in {"running", "closed"}
    /\ npkts \in Nat

(* NEWKEYS installed WaitingServiceRequest { accepted: false }; nothing   *)
(* has been queued by the application yet.                                 *)
Init ==
    /\ cstate = "WaitingServiceRequest"
    /\ accepted = FALSE
    /\ auth_user = EmptyUser
    /\ auth_method = NoMethod
    /\ out = <<ServiceRequest>>
    /\ replies = <<>>
    /\ signing = NoSign
    /\ appGone = FALSE
    /\ status = "running"
    /\ npkts = 0

-----------------------------------------------------------------------------
(* Helpers.                                                                *)

(* Encrypted::write_auth_request: a password request, or a publickey      *)
(* probe for PublicKey and FuturePublicKey alike.                          *)
AuthRequestFor(u, m) ==
    IF m.kind = "Password" THEN PasswordRequest(u) ELSE PkRequest(u, m.key, FALSE)

WriteAuthRequest(u, m) == out' = Append(out, AuthRequestFor(u, m))

(* self.sender.send(r): an Err (SendError) once the application's         *)
(* receiver is gone, which ends the task.                                  *)
SendReply(r) ==
    IF appGone
    THEN /\ status' = "closed"
         /\ UNCHANGED replies
    ELSE /\ replies' = Append(replies, r)
         /\ UNCHANGED status

-----------------------------------------------------------------------------
(* client_read_encrypted, one action per branch.                           *)

(* SERVICE_ACCEPT in WaitingServiceRequest.  For "ssh-userauth" the flag   *)
(* is set and, if a method is already queued, the request is written and *)
(* the state becomes WaitingAuthRequest; otherwise nothing is written and *)
(* the state stays WaitingServiceRequest.  Another service name is        *)
(* ignored.                                                                *)
ReadServiceAccept(svc) ==
    /\ cstate = "WaitingServiceRequest"
    /\ IF svc = "ssh-userauth"
       THEN /\ accepted' = TRUE
            /\ IF auth_method # NoMethod
               THEN /\ WriteAuthRequest(auth_user, auth_method)
                    /\ cstate' = "WaitingAuthRequest"
               ELSE UNCHANGED <<out, cstate>>
       ELSE UNCHANGED <<accepted, out, cstate>>
    /\ UNCHANGED <<auth_user, auth_method, replies, signing, appGone, status>>

(* USERAUTH_SUCCESS in WaitingAuthRequest: AuthSuccess is sent to the      *)
(* application, then the state becomes Authenticated.                      *)
ReadUserauthSuccess ==
    /\ cstate = "WaitingAuthRequest"
    /\ SendReply([type |-> "AuthSuccess"])
    /\ cstate' = IF appGone THEN cstate ELSE "Authenticated"
    /\ UNCHANGED <<accepted, auth_user, auth_method, out, signing, appGone>>

(* USERAUTH_BANNER in WaitingAuthRequest: a UTF-8 banner goes to          *)
(* Handler::auth_banner, another one is dropped; neither changes state    *)
(* (a handler Err is a FatalPacket).                                       *)
ReadUserauthBanner ==
    /\ cstate = "WaitingAuthRequest"
    /\ UNCHANGED <<cstate, accepted, auth_user, auth_method, out, replies,
                   signing, appGone, status>>

(* USERAUTH_FAILURE in WaitingAuthRequest listing remaining methods m: the *)
(* queued method is cleared and AuthFailure sent; an empty method set ends *)
(* the connection with NoAuthMethod.  auth_request.methods is written but  *)
(* never read again, so it is not a variable.                              *)
ReadUserauthFailure(m) ==
    /\ cstate = "WaitingAuthRequest"
    /\ auth_method' = NoMethod
    /\ IF appGone
       THEN /\ status' = "closed"
            /\ UNCHANGED replies
       ELSE /\ replies' = Append(replies, [type |-> "AuthFailure"])
            /\ status' = IF m = {} THEN "closed" ELSE status
    /\ UNCHANGED <<cstate, accepted, auth_user, out, signing, appGone>>

(* Mutant of ReadUserauthPkOk: the queued method is read, not taken.       *)
ReadUserauthPkOkKept ==
    /\ cstate = "WaitingAuthRequest"
    /\ IF auth_method.kind = "PublicKey"
       THEN /\ out' = Append(out, PkRequest(auth_user, auth_method.key, TRUE))
            /\ UNCHANGED <<replies, signing, status>>
       ELSE IF auth_method.kind = "FuturePublicKey"
       THEN /\ SendReply([type |-> "SignRequest", key |-> auth_method.key])
            /\ signing' = IF appGone THEN signing
                          ELSE [user |-> auth_user, key |-> auth_method.key]
            /\ UNCHANGED out
       ELSE UNCHANGED <<out, replies, signing, status>>
    /\ UNCHANGED <<auth_method, cstate, accepted, auth_user, appGone>>

(* USERAUTH_PK_OK in WaitingAuthRequest: the queued method is taken.  A    *)
(* PublicKey writes the signed request at once (client_send_signature); a *)
(* FuturePublicKey sends SignRequest to the application and the task       *)
(* suspends waiting for Msg::Signed; any other method does nothing.        *)
ReadUserauthPkOk ==
    /\ cstate = "WaitingAuthRequest"
    /\ auth_method' = NoMethod
    /\ IF auth_method.kind = "PublicKey"
       THEN /\ out' = Append(out, PkRequest(auth_user, auth_method.key, TRUE))
            /\ UNCHANGED <<replies, signing, status>>
       ELSE IF auth_method.kind = "FuturePublicKey"
       THEN /\ SendReply([type |-> "SignRequest", key |-> auth_method.key])
            /\ signing' = IF appGone THEN signing
                          ELSE [user |-> auth_user, key |-> auth_method.key]
            /\ UNCHANGED out
       ELSE UNCHANGED <<out, replies, signing, status>>
    /\ UNCHANGED <<cstate, accepted, auth_user, appGone>>

(* Any packet the current state does not expect (in WaitingServiceRequest *)
(* anything but SERVICE_ACCEPT, in WaitingAuthRequest anything but the    *)
(* four above), a packet that fails to parse, or a handler Err: the task  *)
(* ends with Inconsistent or the error.                                   *)
FatalPacket ==
    /\ cstate # "Authenticated"
    /\ status' = "closed"
    /\ UNCHANGED <<cstate, accepted, auth_user, auth_method, out, replies,
                   signing, appGone>>

(* Once Authenticated every packet goes to client_read_authenticated,     *)
(* which leaves the authentication state alone.                            *)
AuthenticatedPacket ==
    /\ cstate = "Authenticated"
    /\ UNCHANGED <<cstate, accepted, auth_user, auth_method, out, replies,
                   signing, appGone, status>>

-----------------------------------------------------------------------------
(* The Msg::Signed wait of the FuturePublicKey branch (lines 172-183).     *)

(* Mutant of SignedReply: the length check inverted, the request written *)
(* only when the buffer came back unchanged.                               *)
SignedReplyInverted(modified) ==
    /\ signing # NoSign
    /\ ~appGone
    /\ out' = IF ~modified THEN Append(out, PkRequest(signing.user, signing.key, TRUE))
              ELSE out
    /\ signing' = NoSign
    /\ UNCHANGED <<cstate, accepted, auth_user, auth_method, replies, appGone, status>>

(* Msg::Signed { data }: the loop ends; the completed request is written  *)
(* only if the returned buffer's length differs from the one sent.        *)
SignedReply(modified) ==
    /\ signing # NoSign
    /\ ~appGone
    /\ out' = IF modified THEN Append(out, PkRequest(signing.user, signing.key, TRUE))
              ELSE out
    /\ signing' = NoSign
    /\ UNCHANGED <<cstate, accepted, auth_user, auth_method, replies, appGone, status>>

(* Any other application message arriving during the wait is consumed and *)
(* dropped; once the Handle is gone recv() returns None and the loop       *)
(* spins without reading anything else.                                    *)
SignWaitOther ==
    /\ signing # NoSign
    /\ UNCHANGED cvars

-----------------------------------------------------------------------------
(* The application.                                                        *)

(* Mutant of WriteAuthRequestIfNeeded: only WaitingAuthRequest counts as  *)
(* the server waiting for a request.                                       *)
WriteAuthRequestIfNeededNoAccepted(u, m) ==
    /\ IF cstate = "WaitingAuthRequest" THEN WriteAuthRequest(u, m) ELSE UNCHANGED out
    /\ auth_user' = u
    /\ auth_method' = m
    /\ UNCHANGED <<cstate, accepted, replies, signing, appGone, status>>

(* Mutant of WriteAuthRequestIfNeeded: the user is moved out of the queue *)
(* into the request it writes, leaving the empty string behind.           *)
WriteAuthRequestIfNeededTakesUser(u, m) ==
    LET is_waiting == \/ cstate = "WaitingAuthRequest"
                      \/ cstate = "WaitingServiceRequest" /\ accepted
    IN
    /\ IF is_waiting THEN WriteAuthRequest(u, m) ELSE UNCHANGED out
    /\ auth_user' = IF is_waiting THEN EmptyUser ELSE u
    /\ auth_method' = m
    /\ UNCHANGED <<cstate, accepted, replies, signing, appGone, status>>

(* write_auth_request_if_needed(user, meth): the request is written if    *)
(* the server is known to wait for one (WaitingAuthRequest, or            *)
(* WaitingServiceRequest after SERVICE_ACCEPT); the state is not changed;  *)
(* user and method are queued either way.                                  *)
WriteAuthRequestIfNeeded(u, m) ==
    LET is_waiting == \/ cstate = "WaitingAuthRequest"
                      \/ cstate = "WaitingServiceRequest" /\ accepted
    IN
    /\ IF is_waiting THEN WriteAuthRequest(u, m) ELSE UNCHANGED out
    /\ auth_user' = u
    /\ auth_method' = m
    /\ UNCHANGED <<cstate, accepted, replies, signing, appGone, status>>

(* The application drops its client::Handle: its Msg sender and its Reply *)
(* receiver close together.                                                *)
DropHandle ==
    /\ ~appGone
    /\ appGone' = TRUE
    /\ UNCHANGED <<cstate, accepted, auth_user, auth_method, out, replies,
                   signing, status, npkts>>

-----------------------------------------------------------------------------
(* One step of the connection task.                                        *)

(* A packet read or an application message, while the task is not inside *)
(* the signature wait.                                                     *)
Step(A) ==
    /\ status = "running"
    /\ signing = NoSign
    /\ npkts < MaxPackets
    /\ npkts' = npkts + 1
    /\ A

(* One iteration of the signature wait.                                    *)
WaitStep(A) ==
    /\ status = "running"
    /\ A
    /\ UNCHANGED npkts

(* The task has ended, or the model's bound on packets is reached.       *)
Terminated ==
    /\ status # "running" \/ npkts = MaxPackets
    /\ UNCHANGED cvars

Next ==
    \/ \E svc \in {"ssh-userauth", "other"} : Step(ReadServiceAccept(svc))
    \/ Step(ReadUserauthSuccess)
    \/ Step(ReadUserauthBanner)
    \/ \E m \in {{}, {"password"}, {"publickey"}} : Step(ReadUserauthFailure(m))
    \/ Step(ReadUserauthPkOk)
    \/ Step(FatalPacket)
    \/ Step(AuthenticatedPacket)
    \/ \E u \in Users, m \in AuthMethods : Step(WriteAuthRequestIfNeeded(u, m))
    \/ \E modified \in BOOLEAN : WaitStep(SignedReply(modified))
    \/ WaitStep(SignWaitOther)
    \/ DropHandle
    \/ Terminated


Spec == Init /\ [][Next]_cvars

-----------------------------------------------------------------------------
(* Properties.                                                             *)

(* The number of signed and of probing publickey requests for <<u, k>>    *)
(* among the first i packets written.                                      *)
CountReq(u, k, s, i) ==
    Cardinality({j \in 1..i : out[j] = PkRequest(u, k, s)})

(* The client signs only for a key the server has just been asked about:  *)
(* every signed publickey request is preceded by a probe for the same user *)
(* and key, and no probe is answered by two signed requests.  It depends  *)
(* on PK_OK taking the queued method, on write_auth_request_if_needed     *)
(* queueing exactly what it writes, and on the signature wait writing for *)
(* the user and key it suspended with.                                     *)
SignedAfterProbe ==
    \A i \in 1..Len(out), u \in Users, k \in Keys :
        out[i] = PkRequest(u, k, TRUE) => CountReq(u, k, TRUE, i) <= CountReq(u, k, FALSE, i)

(* A method the application queued after the server accepted the         *)
(* service has been written for the server, and it is the last request    *)
(* written: whatever the order of SERVICE_ACCEPT and the application's    *)
(* call, the server is asked exactly what the client will answer PK_OK or *)
(* SUCCESS for.                                                            *)
LastRequestIs(r) ==
    \E i \in 1..Len(out) :
        /\ out[i] = r
        /\ \A j \in i+1..Len(out) : out[j].type # "USERAUTH_REQUEST"

QueuedWritten ==
    (cstate # "Authenticated" /\ accepted /\ auth_method # NoMethod)
        => LastRequestIs(AuthRequestFor(auth_user, auth_method))

(* The connection task is scheduled whenever it can run: the loop that    *)
(* waits for Msg::Signed takes its steps.                                  *)
SignWait ==
    \/ \E modified \in BOOLEAN : WaitStep(SignedReply(modified))
    \/ WaitStep(SignWaitOther)

FairSpec == Spec /\ WF_cvars(SignWait)

(* A connection whose application has dropped its Handle while a          *)
(* signature is awaited ends (spec 7: "SendError - application-outbound   *)
(* channel closed ... Fatal"), rather than waiting on the closed channel.  *)
SignWaitEnds == (signing # NoSign /\ appGone) ~> status # "running"

=============================================================================
