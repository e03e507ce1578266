-------------------------- MODULE ClientServerAuth --------------------------
(***************************************************************************)
(* A thrussh client and a thrussh server authenticating with each other:   *)
(* ClientAuth and ServerAuth composed over the two directions of one      *)
(* connection.  Each side's packets reach the other in order and are read *)
(* one at a time (a TCP stream and the drivers' one-packet-per-iteration  *)
(* loops); sread and cread count the packets each side has read of the   *)
(* other's trace.  The server's Handler answers with a decision of        *)
(* ServerDecisions; the client's application calls authenticate when no  *)
(* call of its own is outstanding (the client::Handle methods await the   *)
(* AuthSuccess or AuthFailure reply) and an agent answers SignRequest.    *)
(***************************************************************************)
EXTENDS Naturals, Sequences, FiniteSets

CONSTANTS Users, EmptyUser, Keys, BadKey, ConfigMethods, Banner,
          MaxAuthAttempts, MaxPackets,
          ServerDecisions,  \* what the server's Handler::auth_* may answer
          AppMethods,       \* the auth::Method values the application uses
          MaxAppCalls       \* bound on the application's authenticate calls

VARIABLES
    state, methods, current, rejection_count, sauth_user, sout, sstatus,
    snpkts, approved, authedBy,
    cstate, accepted, cauth_user, auth_method, cout, replies, signing,
    appGone, cstatus, cnpkts,
    sread,     \* packets of cout the server has read
    cread,     \* packets of sout the client has read
    appCalls   \* authenticate calls the application has made

S == INSTANCE ServerAuth WITH auth_user <- sauth_user, out <- sout,
                              status <- sstatus, npkts <- snpkts
C == INSTANCE ClientAuth WITH auth_user <- cauth_user, out <- cout,
                              status <- cstatus, npkts <- cnpkts

svars == <<state, methods, current, rejection_count, sauth_user, sout, sstatus,
           snpkts, approved, authedBy>>
cvars == <<cstate, accepted, cauth_user, auth_method, cout, replies, signing,
           appGone, cstatus, cnpkts>>
vars == <<svars, cvars, sread, cread, appCalls>>

ASSUME CompositionAssumption ==
    /\ ServerDecisions \subseteq {"Accept", "Reject"}
    /\ MaxAppCalls \in Nat

Init ==
    /\ S!Init
    /\ C!Init
    /\ sread = 0
    /\ cread = 0
    /\ appCalls = 0

-----------------------------------------------------------------------------
(* The server reads the client's next packet m: server_read_encrypted      *)
(* dispatches on the state and the packet type, and a packet the state   *)
(* does not match falls through (OtherPacket).  The client's own key      *)
(* signature verifies.                                                    *)
ServerHandles(m) ==
    CASE m.type = "SERVICE_REQUEST" /\ state = "WaitingServiceRequest" ->
            S!ServerAcceptService("ssh-userauth")
      [] m.type = "USERAUTH_REQUEST" /\ state = "WaitingAuthRequest" ->
            \E d \in ServerDecisions :
               CASE m.method = "password" -> S!ReadAuthRequestPassword(m.user, d)
                 [] ~m.signed -> S!ReadAuthRequestPkProbe(m.user, m.key, d)
                 [] OTHER -> S!ReadAuthRequestPkSigned(m.user, m.key, TRUE, d)
      [] OTHER -> S!OtherPacket

ServerRead ==
    /\ sread < Len(cout)
    /\ sread' = sread + 1
    /\ S!Receive(ServerHandles(cout[sread + 1]))
    /\ UNCHANGED <<cvars, cread, appCalls>>

(* The client reads the server's next packet m: client_read_encrypted      *)
(* dispatches on the state and the packet type; a packet the state does   *)
(* not expect ends the client with Inconsistent.                          *)
ClientHandles(m) ==
    CASE cstate = "Authenticated" -> C!AuthenticatedPacket
      [] cstate = "WaitingServiceRequest" /\ m.type = "SERVICE_ACCEPT" ->
            C!ReadServiceAccept("ssh-userauth")
      [] cstate = "WaitingAuthRequest" /\ m.type = "USERAUTH_SUCCESS" ->
            C!ReadUserauthSuccess
      [] cstate = "WaitingAuthRequest" /\ m.type = "USERAUTH_BANNER" ->
            C!ReadUserauthBanner
      [] cstate = "WaitingAuthRequest" /\ m.type = "USERAUTH_FAILURE" ->
            C!ReadUserauthFailure(m.methods)
      [] cstate = "WaitingAuthRequest" /\ m.type = "USERAUTH_PK_OK" ->
            C!ReadUserauthPkOk
      [] OTHER -> C!FatalPacket

ClientRead ==
    /\ cread < Len(sout)
    /\ cread' = cread + 1
    /\ C!Step(ClientHandles(sout[cread + 1]))
    /\ UNCHANGED <<svars, sread, appCalls>>

-----------------------------------------------------------------------------
(* The application and its agent.                                          *)

(* AuthFailure replies the application has received.                       *)
Failures == Cardinality({i \in 1..Len(replies) : replies[i].type = "AuthFailure"})

(* A call of authenticate_* when every earlier call has been answered      *)
(* AuthFailure: write_auth_request_if_needed with a user and a method.    *)
AppAuthenticate ==
    /\ appCalls < MaxAppCalls
    /\ Failures = appCalls
    /\ appCalls' = appCalls + 1
    /\ \E u \in Users, m \in AppMethods : C!Step(C!WriteAuthRequestIfNeeded(u, m))
    /\ UNCHANGED <<svars, sread, cread>>

(* The agent answers SignRequest with Msg::Signed, the signature appended. *)
AgentSigns ==
    /\ C!WaitStep(C!SignedReply(TRUE))
    /\ UNCHANGED <<svars, sread, cread, appCalls>>

(* Neither side reads any more: each has read every packet of the other,  *)
(* has ended, or has reached its packet bound.                            *)
Done ==
    /\ sread = Len(cout) \/ sstatus # "running" \/ snpkts = MaxPackets
    /\ cread = Len(sout) \/ cstatus # "running" \/ cnpkts = MaxPackets
    /\ UNCHANGED vars

Next == ServerRead \/ ClientRead \/ AppAuthenticate \/ AgentSigns \/ Done

Spec == Init /\ [][Next]_vars

(* Both tasks are scheduled whenever they have a packet to read, the      *)
(* agent answers, and the application, which means to log in, calls       *)
(* authenticate.                                                           *)
FairSpec ==
    Spec /\ WF_vars(ServerRead) /\ WF_vars(ClientRead) /\ WF_vars(AgentSigns)
         /\ WF_vars(AppAuthenticate)

-----------------------------------------------------------------------------
(* Properties.                                                             *)

(* When the client tells its application AuthSuccess, the server has      *)
(* authenticated the connection, and for the user the client last asked   *)
(* for: the application's view of who is logged in is the server's.      *)
(* It rests on the request bookkeeping of both sides (the client's queued *)
(* auth_user and method, the server's auth_user and PK_OK state) staying  *)
(* in step across rejections and retries.                                  *)
ClientAuthImpliesServer ==
    cstate = "Authenticated" =>
        /\ state = "Authenticated"
        /\ authedBy[1] = cauth_user
        /\ sauth_user = cauth_user

(* An authenticate call is answered: once the application has a call      *)
(* outstanding, it eventually gets AuthFailure, or the client reaches     *)
(* Authenticated, or a side ends the connection.  Neither side may wait   *)
(* for the other forever, through PK_OK, the agent's signature and the    *)
(* signed request.                                                         *)
Answered ==
    \/ Failures = appCalls
    \/ cstate = "Authenticated"
    \/ cstatus # "running"
    \/ sstatus # "running"

CallAnswered == (appCalls > Failures) ~> Answered

(* Scenario S1 of the spec: when the server's handler accepts and the      *)
(* application calls authenticate, the client eventually reaches          *)
(* Authenticated, whatever the order of SERVICE_ACCEPT and the call.       *)
AcceptedLogsIn == <>(cstate = "Authenticated")

=============================================================================
