# TLA+ models of the thrussh post-key-exchange core

This directory holds TLA+ models of the SSH connection core in `src/src`:
- the server's authentication state machine, channel layer and session driver (the `select!` loop and the kex slot of `reply`);
- the client's authentication state machine and channel layer;
- the client and the server authenticating with each other.

It also holds TLC configurations that check them on small instances, and TLAPS proofs, for every instance, of the type invariants and of the main safety invariant of each component.

## 1. The system and its parts

| Part | Code | What it does |
|---|---|---|
| Session driver | `server/mod.rs` `run_stream`, `reply`, `read_ssh_id` | It runs one task per connection. A `select!` waits on a packet read, the idle timeout and the application's outbound queue. Each packet goes through `reply`: the kex slot first, then `server_read_encrypted`. The write buffer is flushed at the end of each iteration. An `Err` leaves the loop without flushing. |
| Server authentication | `server/encrypted.rs` 30–439 | `EncryptedState` moves WaitingServiceRequest → WaitingAuthRequest(AuthRequest) → Authenticated. It handles password, publickey (probe and signed), keyboard-interactive and every other method, and does the rejection bookkeeping. |
| Server channel layer | `server/encrypted.rs` 441–813 | It runs once Authenticated. It handles channel open (session, x11, direct-tcpip, unknown type), close, eof, data, window adjust, channel requests and global requests. |
| Handler interface, Config | `server/mod.rs` 40–413 | The application's callbacks and their defaults, and the configuration values. |
| Client authentication | `client/encrypted.rs` 28–194, 379–488 | `client_read_encrypted` before Authenticated, `write_auth_request_if_needed`, `write_auth_request`, and the loop that waits for an external signature (`FuturePublicKey`). |
| Client channel layer | `client/encrypted.rs` 196–378 | `client_read_authenticated`: open confirmation and failure, close, eof, data, channel and global requests, window adjust. |
| Outside `src/` | session.rs, kex, cipher, keys, encoding | Channel ids, window accounting, key exchange, the cryptography and the byte codec. |

How they interact: the driver awaits `reply` completely before it reads the next packet. A handler callback therefore runs atomically with respect to its connection, and nothing else of that connection interleaves with it (spec 5). This is why each model takes one step per packet, with the handler's answer as an input chosen nondeterministically. Connections share nothing but the immutable Config, so one connection is modelled.

## 2. Modules

### ServerAuth (`ServerAuth.tla`, instance `MC_ServerAuth.tla`)

**State:**
- `state`, `methods`, `current`, `rejection_count`: `enc.state` and its `AuthRequest`.
- `auth_user`: `common.auth_user`. The empty string is the constant `EmptyUser`.
- `out`: every packet written to `enc.write`, with payloads abstracted.
- `status`: running, closed (an `Err` or DISCONNECT), or panicked.
- `npkts`: the model bound on peer packets.
- Two history variables:
  - `approved`: the `<<user, credential>>` pairs some handler answered Accept to.
  - `authedBy`: the pair that the success stands for.

**Actions.** There is one action per branch of `server_read_encrypted` / `server_read_auth_request`:
- `ServerAcceptService`
- `ReadAuthRequestPassword`
- `ReadAuthRequestPkSigned`
- `ReadAuthRequestPkProbe`
- `ReadAuthRequestPkBadKey` (CouldNotReadKey)
- `ReadAuthRequestKbdInteractive`
- `ReadAuthRequestOther` ("none", "hostbased", unknown methods)
- `ReadUserauthInfoResponse`
- `FatalError`: unknown service, a parse error or a handler `Err`.
- `OtherPacket`: the silent fall-through at line 109 and every packet once Authenticated.

Shared pieces are their own operators:
- `RejectAuthRequest`: `reject_auth_request`. The `delay_until` is timing only.
- `ServerAuthRequestSuccess`
- `ReplyUserauthInfoResponse`, whose Accept/Reject/Partial/UnsupportedMethod cases are the code's match.
- `InstallIfReplied`: the caller installs Authenticated from the returned bool.

Inputs:
- Users, keys, and whether a signature verifies.
- The handler's decision: Accept, Reject, Partial or UnsupportedMethod.

`Receive(A)` is one iteration of `run_stream`'s read arm. `Disconnect` is DISCONNECT, end of stream or timeout. `Init` is the state that NEWKEYS installs (`reply`, mod.rs 613–626): WaitingServiceRequest with the empty `auth_user` from `read_ssh_id`.

### ServerChannels (`ServerChannels.tla`, instance `MC_ServerChannels.tla`)

**State:**
- `channels`: `enc.channels`, a function from local id to recipient id, recipient window and `wants_reply`.
- `wants_reply`: `common.wants_reply`.
- `out`, `status`, `npkts`: as in ServerAuth.
- Environment and history variables:
  - `peerView`: the channels the peer believes open. It is built from the confirmations it read and the closes it sent.
  - `opens`: the sender ids of the CHANNEL_OPENs.
  - `requests`: the want_reply flags of the requests the core answers itself.
  - `lastCall`: the last handler callback and its channel.

**Actions:**
- `ChannelOpen`, `ChannelOpenMalformed` (an x11/direct-tcpip tail that fails to parse after `confirm_channel_open`) and `ChannelOpenUnknown`.
- `ChannelClose`, `ChannelEof`, `ChannelData`.
- `WindowAdjust`: a `WindowBits`-bit unsigned sum. It panics or wraps according to the build constant `OverflowChecks`.
- `ChannelRequest`, `GlobalRequest`, `FatalError`, `OtherPacket`.

`NewChannelIds` models `new_channel_id` (session.rs) from spec 4.B as "any id not in the map".

### ServerDriver (`ServerDriver.tla`)

This module models the server's connection task: `run_stream` (mod.rs 453–540) and the kex slot of `reply` (582–657). It sits around ServerAuth and ServerChannels. A packet that reaches `server_read_encrypted` is only its kind (`DATA`) here. What that dispatch does is the business of the other two modules.

**State:**
- `kex`: `session.common.kex`, one of None, KexInit, KexDh or NewKeys.
- `exchange`: whether `enc.exchange` is Some.
- `encrypted`: whether `common.encrypted` is Some.
- `status`: running, error, disconnected or timedout.
- `timer`: ticks since the current `timeout(delay)` was armed.
- `idle`: ticks since the last packet read. It saturates at `IdleCap`.
- `toServer`, `toClient`: the two directions of the TCP stream, as FIFO queues of packet kinds.
- `appMsgs`, `held`: the application's outbound queue, and the data that `write_buffer` holds back during a key exchange.
- `srekeys`: rekeys that the flush has started.
- `pk`, `cEncrypted`, `csent`: the client's key-exchange state and its send budget.

**Actions.** There is one action per arm of the `select!`:
- `ServerRead`: the read arm, the IGNORE and DISCONNECT filter, `reply`, and the flush.
- `AppMessage`: the outbound-queue arm.
- `Timeout`: the timeout arm.
- `Tick`: time passing.

`reply` is `Reply(p, w)`. It is a CASE over the slot with one operator per arm:
- `KexInitStep`, including the fall-through that drops an unanswered KexInit (606);
- `KexDhStep`;
- `NewKeysStep`, where any packet but NEWKEYS is `Error::Kex`;
- `NoKexStep`, covering a peer's KEXINIT with and without `enc.exchange` (633–653) and the dispatch.

`Flush` is the write-buffer flush that ends each iteration. It may start a server rekey when `Config::limits` are reached. That rekey is modelled from spec 4.E, because it lives in session.rs.

The client is an RFC 4253 conforming peer:
- `ClientStartKex`, `ClientData`, `ClientIgnore`, `ClientDisconnect`;
- `ClientRead`, which answers KEXINIT and KEXDH_REPLY.

### ClientAuth (`ClientAuth.tla`, instance `MC_ClientAuth.tla`)

This module models the client's `EncryptedState` from NEWKEYS to Authenticated (`client/encrypted.rs`).

**State:**
- `cstate`, `accepted`: `enc.state`, and the `accepted` flag of WaitingServiceRequest.
- `auth_user`, `auth_method`: the request queued in `common`.
- `out`, `replies`: the packets written for the server, and the replies sent to the application.
- `signing`: the Msg::Signed wait.
- `appGone`: the application has dropped its Handle.

**Actions.** One action per packet branch of `client_read_encrypted`:
- `ReadServiceAccept`, `ReadUserauthSuccess`, `ReadUserauthBanner`, `ReadUserauthFailure`;
- `ReadUserauthPkOk`, for PublicKey and FuturePublicKey;
- `FatalPacket`, `AuthenticatedPacket`.

The remaining actions:
- `WriteAuthRequestIfNeeded`: the application's authenticate call.
- `SignedReply`, `SignWaitOther`: the steps of the loop that waits for an external signature. While it runs, the task reads no packets.
- `DropHandle`: the application goes away.

The server is arbitrary: each packet it may send is an input chosen with `\E`.

### ClientServerAuth (`ClientServerAuth.tla`, instance `MC_ClientServerAuth.tla`)

This module composes `ClientAuth` (as `C`) and `ServerAuth` (as `S`) by INSTANCE over the two directions of one connection. `sread` and `cread` count the packets each side has read of the other's trace.

**Actions:**
- `ServerRead` and `ClientRead`: each side handles the other's next packet.
- `AppAuthenticate`: the client application calls authenticate. It does so only when no call of its own is outstanding.
- `AgentSigns`: the agent answers a SignRequest.

### ClientChannels (`ClientChannels.tla`, instance `MC_ClientChannels.tla`)

This module models `client_read_authenticated`.

**State:**
- `channels`: `enc.channels`, with each channel's confirmed flag, recipient id and recipient window.
- `lastCall`: the last handler callback.

**Actions:**
- One action per packet: `ChannelOpenConfirmation`, `ChannelClose`, `ChannelEof`, `ChannelOpenFailure`, `ChannelData`, `ChannelRequest`, `WindowAdjust`, `IgnoredPacket`, `FatalError`.
- `WindowAdjust` is a `WindowBits`-bit sum that panics or wraps according to `OverflowChecks`.
- `ChannelOpenFailure` panics on a reason code outside 1..4.
- `AppChannelOpen`: the application's channel open. It lives in session.rs and is modelled from spec 4.B.

### The proof modules

ServerAuthProofs, ServerChannelsProofs, ClientChannelsProofs, ServerDriverProofs, ServerDriverKexProofs and ClientAuthProofs hold the TLAPS proofs (section 4).

## 3. Runs

Every run explores every behaviour up to its bounds. Each property states what the code must do. A violation run checks one property. That property states what the spec, the RFC or the code's own comments say, and TLC finds it broken by what the code does. The violation runs are listed under "findings" in PROJECT.json.

| Run | Module / cfg | Checks | Result |
|---|---|---|---|
| `server_auth_safety` | MC_ServerAuth / ServerAuth.cfg | TypeOK, UserApproved, SuccessOnce | pass (21,369 states) |
| `server_auth_key_approved` | MC_ServerAuth / ServerAuth_KeyApproved.cfg | KeyApproved | violation |
| `server_channels_safety` | MC_ServerChannels / ServerChannels.cfg | TypeOK, TableAgreesWithPeer, OpenRepliesInOrder | pass (184,270) |
| `client_auth_safety` | MC_ClientAuth / ClientAuth.cfg | TypeOK, SignedAfterProbe, QueuedWritten | pass (196,830) |
| `client_auth_sign_wait` | MC_ClientAuth / ClientAuth_SignWaitEnds.cfg | SignWaitEnds (liveness) | violation |
| `client_server_auth` | MC_ClientServerAuth / ClientServerAuth.cfg | ClientAuthImpliesServer, CallAnswered (liveness) | pass (260) |
| `client_server_accepted_logs_in` | MC_ClientServerAuth / ClientServerAuth_AcceptedLogsIn.cfg | AcceptedLogsIn (liveness) | violation |
| `client_channels_safety` | MC_ClientChannels / ClientChannels.cfg | TypeOK | pass (8,212) |
| `client_channels_no_panic` | MC_ClientChannels / ClientChannels_NoPeerPanic.cfg | NoPeerPanic | violation |
| `server_driver_kex` | ServerDriver / ServerDriver.cfg | NoKexError, RekeyCompletes (liveness) | pass (2,154) |
| `server_driver_timeout` | ServerDriver / ServerDriver_Timeout.cfg | NoKexError, NoEarlyTimeout | pass (30,565) |
| `server_driver_rekey_lost` | ServerDriver / ServerDriver_RekeyLost.cfg | RekeyCompletes (liveness) | violation |

Every property of a passing run has a mutant under PROJECT.json "mutants". A mutant is a plausible bug in the mapped code, and TLC finds the property broken under the run's own cfg. Between them, the passing runs fire every action of every module.

Some properties are deliberately not in any run:
- The composed module's type invariant would only repeat those of ServerAuth and ClientAuth, because every composed step is a step of one component.
- ServerDriver's type invariant has no conjunct that a plausible bug in `run_stream` or `reply` could break: its bounds are those of the model's own counters. It is proved (`DriverTypeCorrect`) because the key-exchange proofs rest on it.

### What the passing runs show

- **UserApproved:** an Authenticated server connection's user was accepted by a handler call for that user name. It holds across any mix of probes, PK_OK bookkeeping, `auth_user` clearing and keyboard-interactive continuations.
- **SuccessOnce:** USERAUTH_SUCCESS is written exactly once, as the last authentication reply, and exactly when the state is Authenticated.
- **TableAgreesWithPeer:** while the connection runs, the server's channel table and the confirmations the peer has read name the same local ids bound to the same remote ids.
- **OpenRepliesInOrder:** every CHANNEL_OPEN is answered once, in arrival order.
- **SignedAfterProbe:** the client sends a signed publickey request only for a user and key it has just probed, and never twice for one probe.
- **QueuedWritten:** the method queued after SERVICE_ACCEPT is the last request written, whichever came first: the accept or the application's call.
- **ClientAuthImpliesServer:** when the client tells its application AuthSuccess, the server is Authenticated for the same user.
- **CallAnswered:** every authenticate call gets AuthFailure or success, or the connection ends. This holds through PK_OK, the agent's signature and the signed request.
- **TypeOK (ClientChannels):** in a build with overflow checks, CHANNEL_WINDOW_ADJUST never leaves a recipient window outside the u32 range. The off-by-one mutant of the overflow test stores the unreduced sum and breaks it.
- **NoKexError:** a conforming client never drives `reply` into `Error::Kex`. This holds with server-started rekeys too (the timeout run).
- **RekeyCompletes:** with no server-started rekey, every key exchange the client enters completes.
- **NoEarlyTimeout:** the idle timeout never fires within `Delay` ticks of a packet read.

### What the violations show

- **KeyApproved (an authentication bypass, server encrypted.rs:278).** A signed publickey request is valid once a PK_OK was sent for the same user. The signed key is never compared with the probed one. A client that knows one authorised public key of a user can probe with it and then sign with any key of its own.
- **SignWaitEnds (client encrypted.rs:173).** If the application drops its Handle while the client waits for an external signature, the loop treats `recv() == None` as an unrelated message and spins forever.
- **AcceptedLogsIn (client encrypted.rs:385).** When SERVICE_ACCEPT is read before the application calls authenticate, the request is written but the state stays WaitingServiceRequest. The server's USERAUTH_SUCCESS is then `Error::Inconsistent`, so a password the server accepts never logs the client in.
- **NoPeerPanic (client encrypted.rs:257).** `ChannelOpenFailure::from_u32(..).unwrap()` panics the client task on a reason code outside 1..4.
- **RekeyCompletes (server mod.rs:606).** The server's flush starts a rekey. A packet the client sent before it saw that KEXINIT then reaches the KexInit slot, which takes the KexInit out, drops it and dispatches the packet. `enc.exchange` goes with it. The client's own KEXINIT is then ignored at :639. The client waits for KEXDH_REPLY forever, with `connection_timeout = None`.

### Bounds and why they suffice

**MC_ServerAuth:**
- Two users and two keys, with symmetry over each set.
- Every method offered, and a banner configured.
- `MaxAuthAttempts = 2`.
- 5 packets. This reaches:
  - probe(u1, k1) then signed(u1, k2);
  - a password rejected then retried;
  - keyboard-interactive with Partial;
  - three rejections.

Two users and two keys are the fewest that tell "same user, other key" from "other user". The symmetry is sound because no definition distinguishes one user or one key from another.

**MC_ServerChannels:**
- Three channel numbers shared by both id spaces.
- A 2-bit window with adjusts of 1 and 2, so that one adjust can overflow.
- 4 packets: enough for open, open, close and reopen, or open, adjust, adjust.

**MC_ClientAuth:**
- Two users, two keys, 6 packets and calls.
- Enough for an authenticate call before or after SERVICE_ACCEPT, a probe, PK_OK, the signature wait and a retry after FAILURE.

**MC_ClientServerAuth:**
- One good key and one key the server cannot read.
- Password, PublicKey and FuturePublicKey as the application's methods.
- The handler answers Accept or Reject.
- Two authenticate calls, so that a rejection is followed by a retry.

**MC_ClientChannels:**
- Two channel ids and a 2-bit window.
- Confirmation windows and adjusts of 1 and 2.
- 6 steps: open, confirm, adjust, close, reopen and confirm again reuse a local id.

**ServerDriver:**
- The kex run lets the client run two key exchanges around two data packets and an IGNORE, with one application message. This covers the first exchange and a rekey.
- The timeout run uses a delay of 2 ticks and one server-started rekey, with two application messages, so that the rekey races the client's traffic.

### Fairness

- **ClientAuth:** `WF` of the signature-wait loop. The task is runnable whenever it waits.
- **ClientServerAuth:** `WF` of each side's read, of the agent and of the application's authenticate. The application means to log in.
- **ServerDriver:** `WF` of `ServerRead`, `ClientRead`, `Tick` and `Timeout`. The single connection task runs an arm of `select!` whenever one is ready. Tokio picks among the ready arms at random, and time passes. The application's queue arm carries no fairness: an application may write nothing.

The server modules' safety runs assume no fairness.

## 4. What is proved (TLAPS)

### ServerAuthProofs

- **`TypeCorrect`: `Spec => []TypeOK`.** The argument is induction over `Next`. `StepCases` splits the step into its actions, and `TypeStep` has one case per action. It rests on `AppendMsg`, `ConcatMsgs` and `ReplyType`.
- **`UserApprovedHolds`: `Spec => []UserApproved`.** UserApproved is not inductive, because a signed request validated through `sent_pk_ok` does not ask the handler again. The inductive invariant is `IInv == TypeOK /\ PkOkApproved /\ AuthenticatedApproved`. `PkOkApproved` says that while not Authenticated, a remembered publickey request names a key the handler accepted for the current `auth_user`. TLC checked `IInv` before it was proved.
- **`SuccessOnceHolds`: `Spec => []SuccessOnce`.** SuccessOnce is stated over the set of indices of `out` that hold a success, and the proof restates it per state as `SuccessLast`:
  - while not Authenticated, no packet of `out` is a success (`NoSuccess`);
  - once Authenticated, the last packet is a success and no earlier one is.

  `SInv == TypeOK /\ SuccessLast` is inductive. `SuccessStep` has one case per action. Every handler that writes a packet requires a waiting state, so it starts from a trace with no success (`WaitingClean`). It then does one of two things:
  - it writes the success and installs Authenticated in the same step (`WritesSuccess`);
  - it writes something else, or nothing, and leaves the state waiting (`WritesOther`, `RejectWrites`).

  In Authenticated only FatalError, OtherPacket and Disconnect are left, and none of them writes.

### ServerChannelsProofs

- **`ChannelsTypeCorrect`.** The type invariant holds for every id space, window width and build, including the `% 2^WindowBits` of `WindowAdjust`.
- **`TableAgreesWithPeerHolds`.** `TableAgreesWithPeer /\ TypeOK` is inductive. Every step that changes the table does one of three things:
  - it puts the same id into the peer's view;
  - it removes the same id from the peer's view;
  - it keeps domain and recipients.

  The malformed open breaks the agreement, but it ends the connection.

### ClientChannelsProofs

- **`ClientChannelsTypeCorrect`.** The type invariant holds for every id space, window width and build.
  The assumption `ClientChannelsAssumption` gives `WindowMax` as a positive number. The provers do not evaluate `2^n`.

### ServerDriverProofs

- **`DriverTypeCorrect`.** `Spec => []TypeOK` holds for every delay, with or without a timeout, and every bound. The inductive invariant adds `held + appMsgs <= MaxAppMsgs`: the data held back during a kex never exceeds what the application produced, which is what keeps `held` bounded. It rests on these lemmas:
  - `ReplyType`: each arm of `reply` returns a well-typed result;
  - `FlushType`: the flush appends well-typed packets;
  - `HeldKept`, `HeldOneMore`: the queue arithmetic.
- **`ErrSame`.** Whether `reply` fails does not depend on what the dispatch writes. ServerDriverKexProofs cites it.

An earlier invariant, that `enc.exchange` is present on an encrypted session exactly when no kex is pending, is not part of the project. It holds only if the server never starts a rekey. With a server rekey, the fall-through at mod.rs:606 breaks it, which is what the rekey_lost run shows. Proving it under `MaxServerRekeys = 0` would exclude the very code it is about.

### ServerDriverKexProofs

- **`NoKexErrorHolds`: `Spec => []NoKexError`.** This holds for every configuration, server-started rekeys included. NoKexError is not inductive: it is about `reply`'s next answer, which depends on what is in flight. The inductive invariant is `KInv == TypeInv /\ KexChain /\ NoKexError`. `KexChain` takes the word `Cat(SrvPrev, toServer, CliNext)`:
  - `SrvPrev` is the key-exchange token the server's kex slot last took (`SrvPosition`);
  - `toServer` holds the packets in flight;
  - `CliNext` is the token the client will send next (`CliPosition`).

  `KexChain` says the word is a chain. Between any two tokens that are not noise, with only noise between them, the second is the successor of the first: START, KEXINIT, KEXDH_INIT, NEWKEYS. Noise is IGNORE, DISCONNECT and application data. A server rekey that drops the slot back to KexInit while encrypted maps to position "DATA", which constrains nothing. That is why no rekey bound is needed.

  The word lemmas are stated over plain sequences of `Tokens`: `CatFacts`, `CatAppend`, `CatTail`, `NoiseAppended`, `PushLast`, `DropNoise`, `TakeHead` and `FirstFollows`. The model lemmas are:
  - `ErrMismatch`: `reply` fails only on a packet that does not follow the server's position;
  - `ReplyPosition` and `FlushPosition`: where `reply` and the flush leave the position;
  - `ServerReadChain`, `ClientChain` and `AppMessageChain`: one per kind of step.
- **`NoEarlyTimeoutHolds`: `Spec => []NoEarlyTimeout`.** The inductive invariant is `TInvT == TypeInv /\ TimeInv`. While running, the timer never exceeds the idle time. Once timed out, the idle time has reached `Delay`.

TLC checked `KexChain` and `TimeInv` as invariants before they were proved. It used four instances, with up to two server rekeys, delays of 1 and more, and up to 149,824 states.

### ClientAuthProofs

- **`ClientAuthTypeCorrect`: `Spec => []TypeOK`.** The inductive invariant is `TInv == TypeOK /\ QueuedUser`: a queued method always has a user from `Users`, never the empty string `auth_user` starts with. `TInvStep` splits the step into the two Boolean flags (`FlagsStep`) and the rest (`DataStep`, one case per action).
- **`QueuedWrittenHolds`: `Spec => []QueuedWritten`.** The inductive invariant is `QInv == TInv /\ WaitEmptiesQueue /\ QueuedWritten`. `WaitEmptiesQueue` says that the Msg::Signed wait runs only after USERAUTH_PK_OK took the queued method. Without it, `SignedReply` could seem to write a request that is not the queued one. `QueuedStep` has one case per action. Both orders of SERVICE_ACCEPT and `write_auth_request_if_needed` are cases of it.
- **`SignedAfterProbeHolds`: `Spec => []SignedAfterProbe`.** SignedAfterProbe is not inductive. A PK_OK for the queued PublicKey writes a signed request, and nothing in SignedAfterProbe says that the queued key still has an unused probe. The proof counts probe credits. `Credit(u, k)` is the number of probes written for `<<u, k>>` minus the number of signed requests written for it. The inductive invariant is `SInv == TInv /\ WaitEmptiesQueue /\ CreditKept /\ SignedAfterProbe`, where `CreditKept` has three parts:
  - every credit is at least 0;
  - in WaitingAuthRequest, a queued PublicKey or FuturePublicKey method has credit at least 1;
  - a running signature wait has credit at least 1 for its user and key.

  `CreditStep` has one case per action. A probe (`KeptProbe`) adds one credit to the method it queues. A signed request (`KeptSigned`) uses up one credit, and only where one exists. The counting lemmas are stated over plain sequences (`Cnt`, `CreditOf`, `SignedOK`), not over the state: `CntPrefix`, `CntLast`, `CreditProbe`, `CreditSigned`, `CreditOther` and `SignedAppend`. TLC checked `QInv` and `SInv` on the client_auth_safety instance (196,830 states) before they were proved.

  Two definitions of ClientAuth were restated so that the provers can reason about them, with the same meaning:
  - `ClientMsgs` is a union of record sets instead of a set of `PkRequest(u, k, s)` values;
  - the PK_OK branch on the method kind is an IF chain instead of a CASE.

  TLC gives the same state count and the same mutant results after the change.

Each theorem's assumptions are the ASSUMEs of its module: `ConstantsAssumption` and `ConfigMethodsAssumption`, `ClientChannelsAssumption`, `DriverAssumption`, and `ClientConstantsAssumption`. `DriverAssumption` is restated for the provers as the lemma `ConstantsNat`.

**What stays with TLC:**
- every liveness property (SignWaitEnds, CallAnswered, AcceptedLogsIn, RekeyCompletes), because TLAPS does not reason about ENABLED or fairness here;
- OpenRepliesInOrder. It is a statement about `SelectSeq`, whose recursion the provers cannot unfold. Proving it would mean restating it with an explicit count of open replies. It would also need a lemma that relates that count to the `opens` queue across every channel action.
- the composed ClientServerAuth property ClientAuthImpliesServer. Its proof needs invariants of both components, carried across `INSTANCE`. It also needs a chain argument like KexChain over the two packet queues of the composition. That argument is not written yet (section 6).

## 5. What is not modelled, and why

- **The key exchange itself, ciphers, keys and the byte codec** (kex.rs, cipher, thrussh_keys, encoding). These are outside `src/`. ServerDriver models each kex step as "takes the packet it expects, or fails" (spec 2.B, 4.E).
- **The client's KEXINIT rekey branch** (client encrypted.rs 40–61). Its key exchange is outside `src/`.
- **session.rs:** handler effects on the session inside callbacks, the local window accounting of `adjust_window_size`, and `new_channel_id`. Channel ids are modelled from spec 4.B.
- **Byte-level parsing** (pty modes, name-lists, UTF-8). Each parse is abstracted to "parses" or "fails, and the connection is torn down".
- **The rejection delay** (`delay_until`). It is timing only.

**Divergences found while modelling that have no run.** The project keeps its violation runs to the five above. These further disagreements came up while modelling. They are read off the code at the lines given, and no current run checks them:
- **Server encrypted.rs:163.** `auth_request.methods` is never consulted, so a method removed after a rejection still authenticates (spec 3).
- **Server encrypted.rs:368.** `config.max_auth_attempts` is never compared with `rejection_count` (spec 6).
- **Server encrypted.rs:660, 682, 707.** Unknown channel requests and every global request are answered whatever `want_reply` says (spec 4.D). The `requests` history variable of ServerChannels records these answers.
- **Server encrypted.rs:467.** eof, data and request callbacks fire for channels that are not open (spec 6). This is what `lastCall` records.
- **Server encrypted.rs:507 and client encrypted.rs:361.** `recipient_window_size += amount` on a u32 wraps in release builds and panics in debug builds.
- **Client encrypted.rs:217.** CHANNEL_OPEN_CONFIRMATION updates an already confirmed channel (spec 4.D).
- **Server mod.rs:496.** Each `select!` iteration re-arms `timeout(delay)`. A silent client is therefore never timed out while the application keeps writing (spec 5: a deadline from the last inbound activity).

## 6. Plan for the next sittings

1. An abstract authentication spec ("Authenticated only after an Accept for that user"), with ServerAuth shown to implement it by INSTANCE ... WITH and a TLAPS refinement proof.
2. A proof of ClientAuthImpliesServer for the composition, from ServerAuth's `SInv` and ClientAuth's `QInv` and an invariant over the packets in flight.
3. OpenRepliesInOrder restated with a count of open replies, and proved.
4. Composing ServerDriver with ServerAuth, so that a rekey is shown to leave `EncryptedState` unchanged (spec 3).
