----------------------------- MODULE ServerAuth -----------------------------
(***************************************************************************)
(* The server side of SSH user authentication (RFC 4252) as implemented in *)
(* src/src/server/encrypted.rs: the EncryptedState machine of one          *)
(* connection from NEWKEYS to Authenticated, the AuthRequest record, the   *)
(* connection's auth_user string and the packets written for the peer.    *)
(*                                                                         *)
(* One step is one packet handled by Session::server_read_encrypted,       *)
(* handler callbacks included: the driver awaits the whole reply before it *)
(* reads the next packet, so nothing of the same connection interleaves    *)
(* with a handler call.  The peer is arbitrary: every packet it may send   *)
(* is an input chosen with \E, and so is every answer of the application  *)
(* Handler.  KEXINIT (a rekey) is left to the driver module.               *)
(***************************************************************************)
EXTENDS Naturals, Sequences, FiniteSets

CONSTANTS
    Users,          \* non-empty user names the peer may send
    EmptyUser,      \* the empty string, also the value of a cleared auth_user
    Keys,           \* public keys that PublicKey::parse accepts
    BadKey,         \* a key blob that fails with CouldNotReadKey
    ConfigMethods,  \* config.methods, the MethodSet offered to the client
    Banner,         \* config.auth_banner is Some(..)
    MaxAuthAttempts, \* config.max_auth_attempts
    MaxPackets      \* bound on the packets the peer sends (model bound)

ASSUME ConstantsAssumption ==
    /\ EmptyUser \notin Users
    /\ BadKey \notin Keys
    /\ Banner \in BOOLEAN
    /\ MaxAuthAttempts \in Nat
    /\ MaxPackets \in Nat

(* auth::MethodSet, one element per bit flag. *)
AllMethods == {"none", "password", "publickey", "hostbased", "keyboard-interactive"}

ASSUME ConfigMethodsAssumption == ConfigMethods \subseteq AllMethods

UserNames == Users \cup {EmptyUser}

(* Service names of SERVICE_REQUEST: the one served, and any other. *)
Services == {"ssh-userauth", "ssh-other"}

(* The three variants of EncryptedState. *)
States == {"WaitingServiceRequest", "WaitingAuthRequest", "Authenticated"}

(* auth::CurrentRequest, or None. *)
NoRequest == [kind |-> "None"]
CurrentRequests ==
    {NoRequest}
    \cup [kind : {"PublicKey"}, key : Keys, sent_pk_ok : BOOLEAN]
    \cup [kind : {"KeyboardInteractive"}]

(* What a Handler::auth_* future resolves to. *)
Decisions == {"Accept", "Reject", "UnsupportedMethod", "Partial"}

(* The credential a handler call judged: a key, or the method name. *)
Creds == Keys \cup {"password", "keyboard-interactive"}
NoAuth == <<>>

(* Packets the server writes into enc.write, payloads abstracted. *)
Msgs ==
    [type : {"SERVICE_ACCEPT", "USERAUTH_BANNER", "USERAUTH_SUCCESS",
             "USERAUTH_INFO_REQUEST"}]
    \cup [type : {"USERAUTH_FAILURE"}, methods : SUBSET AllMethods,
          partial : BOOLEAN]
    \cup [type : {"USERAUTH_PK_OK"}, key : Keys]

VARIABLES
    state,            \* enc.state
    methods,          \* auth_request.methods
    current,          \* auth_request.current
    rejection_count,  \* auth_request.rejection_count
    auth_user,        \* self.common.auth_user
    out,              \* every packet written for the peer, in order
    status,           \* "running", or how the connection task ended
    npkts,            \* packets received so far (bounded by MaxPackets)
    approved,         \* history: <<user, cred>> a handler answered Accept to
    authedBy          \* history: <<user, cred>> of the USERAUTH_SUCCESS

vars == <<state, methods, current, rejection_count, auth_user, out, status,
          npkts, approved, authedBy>>

TypeOK ==
    /\ state \in States
    /\ methods \subseteq AllMethods
    /\ current \in CurrentRequests
    /\ rejection_count \in Nat
    /\ auth_user \in UserNames
    /\ out \in Seq(Msgs)
    /\ status \in {"running", "closed", "panicked"}
    /\ npkts \in Nat
    /\ approved \subseteq UserNames \X Creds
    /\ authedBy \in {NoAuth} \cup (UserNames \X Creds)

(* NEWKEYS has just installed EncryptedState::WaitingServiceRequest; the   *)
(* session was built by read_ssh_id with an empty auth_user.               *)
Init ==
    /\ state = "WaitingServiceRequest"
    /\ methods = {}
    /\ current = NoRequest
    /\ rejection_count = 0
    /\ auth_user = EmptyUser
    /\ out = <<>>
    /\ status = "running"
    /\ npkts = 0
    /\ approved = {}
    /\ authedBy = NoAuth

-----------------------------------------------------------------------------
(* Helpers shared by the handlers.                                         *)

(* The history of handler answers after a call judging <<u, c>>. *)
Judged(u, c, d) ==
    approved' = IF d = "Accept" THEN approved \cup {<<u, c>>} ELSE approved

(* server_auth_request_success. *)
ServerAuthRequestSuccess ==
    out' = Append(out, [type |-> "USERAUTH_SUCCESS"])

(* The caller installing EncryptedState::Authenticated for <<u, c>>. *)
InstallAuthenticated(u, c) ==
    /\ state' = "Authenticated"
    /\ authedBy' = <<u, c>>

(* Writing the success packet and installing Authenticated together. *)
Authenticate(u, c) ==
    /\ ServerAuthRequestSuccess
    /\ InstallAuthenticated(u, c)

(* reject_auth_request: USERAUTH_FAILURE listing auth_request.methods as   *)
(* the caller left them (m), current cleared, the counter incremented.    *)
(* The delay_until(until) that follows is timing only.                     *)
RejectAuthRequest(m) ==
    /\ out' = Append(out, [type |-> "USERAUTH_FAILURE", methods |-> m,
                           partial |-> FALSE])
    /\ current' = NoRequest
    /\ rejection_count' = rejection_count + 1

-----------------------------------------------------------------------------
(* One action per branch of server_read_encrypted.                         *)

(* SERVICE_REQUEST in WaitingServiceRequest: for "ssh-userauth",            *)
(* server_accept_service writes SERVICE_ACCEPT and the optional banner and *)
(* the state becomes WaitingAuthRequest with config.methods; any other    *)
(* service name is ignored.  svc is the service name the peer sent.       *)
ServerAcceptService(svc) ==
    /\ state = "WaitingServiceRequest"
    /\ IF svc = "ssh-userauth"
       THEN /\ out' = out \o
                      (IF Banner
                       THEN <<[type |-> "SERVICE_ACCEPT"], [type |-> "USERAUTH_BANNER"]>>
                       ELSE <<[type |-> "SERVICE_ACCEPT"]>>)
            /\ state' = "WaitingAuthRequest"
            /\ methods' = ConfigMethods
            /\ current' = NoRequest
            /\ rejection_count' = 0
       ELSE UNCHANGED <<state, methods, current, rejection_count, out>>
    /\ UNCHANGED <<auth_user, status, approved, authedBy>>

(* Mutant of ReadAuthRequestPassword: an accepted password leaves        *)
(* auth_user as it was.                                                    *)
ReadAuthRequestPasswordNoUser(u, d) ==
    /\ state = "WaitingAuthRequest"
    /\ Judged(u, "password", d)
    /\ IF d = "Accept"
       THEN /\ Authenticate(u, "password")
            /\ UNCHANGED <<methods, current, rejection_count, auth_user>>
       ELSE /\ auth_user' = EmptyUser
            /\ methods' = methods \ {"password"}
            /\ RejectAuthRequest(methods')
            /\ UNCHANGED <<state, authedBy>>
    /\ UNCHANGED status

(* USERAUTH_REQUEST, method "password": auth_user is set, auth_password is *)
(* called (the change-password byte is read and ignored); on Accept the    *)
(* connection is authenticated, otherwise auth_user is cleared, password   *)
(* is removed from the methods and the request rejected.                   *)
ReadAuthRequestPassword(u, d) ==
    /\ state = "WaitingAuthRequest"
    /\ Judged(u, "password", d)
    /\ IF d = "Accept"
       THEN /\ Authenticate(u, "password")
            /\ auth_user' = u
            /\ UNCHANGED <<methods, current, rejection_count>>
       ELSE /\ auth_user' = EmptyUser
            /\ methods' = methods \ {"password"}
            /\ RejectAuthRequest(methods')
            /\ UNCHANGED <<state, authedBy>>
    /\ UNCHANGED status

(* Mutant of ReadAuthRequestPkSigned: a PK_OK already sent validates the  *)
(* signed request whatever user it names.                                  *)
ReadAuthRequestPkSignedAnyUser(u, k, sig, d) ==
    LET sent_pk_ok == current.kind = "PublicKey" /\ current.sent_pk_ok
        byProbe    == sent_pk_ok
        byHandler  == ~byProbe /\ auth_user = EmptyUser
        is_valid   == byProbe \/ (byHandler /\ d = "Accept")
    IN
    /\ state = "WaitingAuthRequest"
    /\ auth_user' = IF byHandler THEN u ELSE auth_user
    /\ IF byHandler THEN Judged(u, k, d) ELSE UNCHANGED approved
    /\ IF is_valid /\ sig
       THEN /\ Authenticate(u, k)
            /\ UNCHANGED <<methods, current, rejection_count>>
       ELSE /\ UNCHANGED <<methods, state, authedBy>>
            /\ RejectAuthRequest(methods)
    /\ UNCHANGED status

(* USERAUTH_REQUEST, method "publickey", with a signature (is_real != 0).  *)
(* The request is valid if a PK_OK was sent for the same auth_user, or if *)
(* no auth_user is set and auth_publickey accepts the key; a valid request *)
(* whose signature verifies authenticates.  sig says whether               *)
(* verify_client_auth succeeds on session_id and the packet prefix.        *)
ReadAuthRequestPkSigned(u, k, sig, d) ==
    LET sent_pk_ok == current.kind = "PublicKey" /\ current.sent_pk_ok
        byProbe    == sent_pk_ok /\ u = auth_user
        byHandler  == ~byProbe /\ auth_user = EmptyUser
        is_valid   == byProbe \/ (byHandler /\ d = "Accept")
    IN
    /\ state = "WaitingAuthRequest"
    /\ auth_user' = IF byHandler THEN u ELSE auth_user
    /\ IF byHandler THEN Judged(u, k, d) ELSE UNCHANGED approved
    /\ IF is_valid /\ sig
       THEN /\ Authenticate(u, k)
            /\ UNCHANGED <<methods, current, rejection_count>>
       ELSE /\ UNCHANGED <<methods, state, authedBy>>
            /\ RejectAuthRequest(methods)
    /\ UNCHANGED status

(* USERAUTH_REQUEST, method "publickey", a probe (is_real = 0): auth_user  *)
(* is set and auth_publickey called; on Accept USERAUTH_PK_OK is written   *)
(* and the key remembered with sent_pk_ok, otherwise auth_user is cleared  *)
(* and the request rejected.                                               *)
ReadAuthRequestPkProbe(u, k, d) ==
    /\ state = "WaitingAuthRequest"
    /\ Judged(u, k, d)
    /\ IF d = "Accept"
       THEN /\ out' = Append(out, [type |-> "USERAUTH_PK_OK", key |-> k])
            /\ current' = [kind |-> "PublicKey", key |-> k, sent_pk_ok |-> TRUE]
            /\ auth_user' = u
            /\ UNCHANGED rejection_count
       ELSE /\ auth_user' = EmptyUser
            /\ RejectAuthRequest(methods)
    /\ UNCHANGED <<state, methods, status, authedBy>>

(* Mutant of ReadAuthRequestPkBadKey: the unparsed blob is remembered as  *)
(* the current public-key request.                                         *)
ReadAuthRequestPkBadKeyKept ==
    /\ state = "WaitingAuthRequest"
    /\ out' = Append(out, [type |-> "USERAUTH_FAILURE", methods |-> methods,
                           partial |-> FALSE])
    /\ current' = [kind |-> "PublicKey", key |-> BadKey, sent_pk_ok |-> FALSE]
    /\ rejection_count' = rejection_count + 1
    /\ UNCHANGED <<state, methods, auth_user, status, approved, authedBy>>

(* USERAUTH_REQUEST, method "publickey", key blob failing with             *)
(* CouldNotReadKey: rejected, nothing else changes.                        *)
ReadAuthRequestPkBadKey ==
    /\ state = "WaitingAuthRequest"
    /\ RejectAuthRequest(methods)
    /\ UNCHANGED <<state, methods, auth_user, status, approved, authedBy>>

(* reply_userauth_info_response: Accept writes USERAUTH_SUCCESS and        *)
(* returns true, Reject rejects, Partial writes USERAUTH_INFO_REQUEST, and *)
(* UnsupportedMethod reaches unreachable!(), which panics the connection  *)
(* task.  cur is auth_request.current as the caller left it.              *)
ReplyUserauthInfoResponse(d, cur) ==
    CASE d = "Accept" ->
            /\ ServerAuthRequestSuccess
            /\ current' = cur
            /\ UNCHANGED <<methods, rejection_count, status>>
      [] d = "Reject" ->
            /\ RejectAuthRequest(methods)
            /\ UNCHANGED <<methods, status>>
      [] d = "Partial" ->
            /\ out' = Append(out, [type |-> "USERAUTH_INFO_REQUEST"])
            /\ current' = cur
            /\ UNCHANGED <<methods, rejection_count, status>>
      [] d = "UnsupportedMethod" ->
            /\ status' = "panicked"
            /\ current' = cur
            /\ UNCHANGED <<methods, rejection_count, out>>

(* The caller of reply_userauth_info_response: a true result installs     *)
(* Authenticated for u.                                                    *)
InstallIfReplied(u, d) ==
    IF d = "Accept"
    THEN InstallAuthenticated(u, "keyboard-interactive")
    ELSE UNCHANGED <<state, authedBy>>

(* USERAUTH_REQUEST, method "keyboard-interactive": auth_user is set,      *)
(* current becomes KeyboardInteractive, auth_keyboard_interactive is      *)
(* called with no response and its answer goes to the reply logic.        *)
ReadAuthRequestKbdInteractive(u, d) ==
    /\ state = "WaitingAuthRequest"
    /\ auth_user' = u
    /\ Judged(u, "keyboard-interactive", d)
    /\ ReplyUserauthInfoResponse(d, [kind |-> "KeyboardInteractive"])
    /\ InstallIfReplied(u, d)

(* USERAUTH_REQUEST with any other method ("none", "hostbased", unknown):  *)
(* rejected without consulting the handler.                                *)
ReadAuthRequestOther ==
    /\ state = "WaitingAuthRequest"
    /\ RejectAuthRequest(methods)
    /\ UNCHANGED <<state, methods, auth_user, status, approved, authedBy>>

(* Mutant of ReadUserauthInfoResponse: the caller ignores the result of   *)
(* reply_userauth_info_response and never installs Authenticated.         *)
ReadUserauthInfoResponseNoInstall(d) ==
    /\ state = "WaitingAuthRequest"
    /\ IF current.kind = "KeyboardInteractive"
       THEN /\ Judged(auth_user, "keyboard-interactive", d)
            /\ ReplyUserauthInfoResponse(d, current)
            /\ UNCHANGED <<state, authedBy>>
       ELSE /\ RejectAuthRequest(methods)
            /\ UNCHANGED <<state, methods, status, approved, authedBy>>
    /\ UNCHANGED auth_user

(* USERAUTH_INFO_RESPONSE in WaitingAuthRequest: with a keyboard-          *)
(* interactive request in progress the handler is called with auth_user   *)
(* and the responses, and a true reply installs Authenticated; otherwise  *)
(* the packet is rejected.                                                 *)
ReadUserauthInfoResponse(d) ==
    /\ state = "WaitingAuthRequest"
    /\ IF current.kind = "KeyboardInteractive"
       THEN /\ Judged(auth_user, "keyboard-interactive", d)
            /\ ReplyUserauthInfoResponse(d, current)
            /\ InstallIfReplied(auth_user, d)
       ELSE /\ RejectAuthRequest(methods)
            /\ UNCHANGED <<state, methods, status, approved, authedBy>>
    /\ UNCHANGED auth_user

(* USERAUTH_REQUEST for a service other than "ssh-connection", a packet    *)
(* that fails to parse, or a handler returning Err: the error propagates   *)
(* out of run_stream and the connection is torn down.                      *)
FatalError ==
    /\ state # "Authenticated"
    /\ status' = "closed"
    /\ UNCHANGED <<state, methods, current, rejection_count, auth_user, out,
                   approved, authedBy>>

(* Any other packet falls through the match of server_read_encrypted (in  *)
(* the two waiting states) or goes to server_read_authenticated, which    *)
(* does not touch the authentication state.                                *)
OtherPacket ==
    /\ UNCHANGED <<state, methods, current, rejection_count, auth_user, out,
                   status, approved, authedBy>>

-----------------------------------------------------------------------------
(* One packet read by run_stream and passed to reply.                      *)
Receive(A) ==
    /\ status = "running"
    /\ npkts < MaxPackets
    /\ npkts' = npkts + 1
    /\ A

(* DISCONNECT, or the end of the stream: run_stream leaves its loop.       *)
Disconnect ==
    /\ status = "running"
    /\ status' = "closed"
    /\ UNCHANGED <<state, methods, current, rejection_count, auth_user, out,
                   npkts, approved, authedBy>>

(* The connection task has ended; nothing happens any more.                *)
Terminated ==
    /\ status # "running"
    /\ UNCHANGED vars

Next ==
    \/ \E svc \in Services : Receive(ServerAcceptService(svc))
    \/ \E u \in UserNames, d \in {"Accept", "Reject"} :
          Receive(ReadAuthRequestPassword(u, d))
    \/ \E u \in UserNames, k \in Keys, sig \in BOOLEAN, d \in {"Accept", "Reject"} :
          Receive(ReadAuthRequestPkSigned(u, k, sig, d))
    \/ \E u \in UserNames, k \in Keys, d \in {"Accept", "Reject"} :
          Receive(ReadAuthRequestPkProbe(u, k, d))
    \/ Receive(ReadAuthRequestPkBadKey)
    \/ \E u \in UserNames, d \in Decisions :
          Receive(ReadAuthRequestKbdInteractive(u, d))
    \/ Receive(ReadAuthRequestOther)
    \/ \E d \in Decisions : Receive(ReadUserauthInfoResponse(d))
    \/ Receive(FatalError)
    \/ Receive(OtherPacket)
    \/ Disconnect
    \/ Terminated

Spec == Init /\ [][Next]_vars

-----------------------------------------------------------------------------
(* Properties.                                                             *)

(* Whoever the server authenticates was accepted by the application: a   *)
(* Handler::auth_* call answered Accept for that same user name.  Breaking *)
(* it takes a probe, PK_OK bookkeeping in auth_request.current and the     *)
(* auth_user string, which several handlers set and clear differently.    *)
UserApproved ==
    state = "Authenticated" => \E c \in Creds : <<authedBy[1], c>> \in approved

(* The connection is Authenticated exactly when USERAUTH_SUCCESS has been  *)
(* written, it is written once, and no other authentication reply follows *)
(* it: every path that writes the success packet also installs the        *)
(* Authenticated state that stops the auth handlers.                       *)
SuccessOnce ==
    LET succ == {i \in 1..Len(out) : out[i].type = "USERAUTH_SUCCESS"} IN
    /\ (state = "Authenticated") <=> (succ # {})
    /\ \A i \in succ : i = Len(out)

(* The key whose signature authenticated the connection is one the        *)
(* application accepted for that user (RFC 4252 section 7; the handler doc *)
(* of auth_publickey: "Thrussh then checks the signature").                *)
KeyApproved ==
    (state = "Authenticated" /\ authedBy[2] \in Keys) => authedBy \in approved

=============================================================================
