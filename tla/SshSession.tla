----------------------------- MODULE SshSession -----------------------------
(***************************************************************************)
(* One terminal: the SshSession Durable Object (src/src/session.ts), the   *)
(* set-up half of its SshClient (src/src/ssh/connection.ts, connect,       *)
(* handshake and openShell), the Worker requests that claim and open it    *)
(* (src/src/index.ts, handleWebSocket), and around them the browser, the   *)
(* clock, the SSH server and a platform that may restart the object.       *)
(*                                                                         *)
(* Grain of atomicity.  A Durable Object runs one event at a time up to    *)
(* its next `await', and its input gate holds further events back while it *)
(* waits for its own storage.  So configure, claim, fetch and alarm are    *)
(* single steps, except where they wait for the network: the handshake,    *)
(* openShell, `await socket.close()' after a failed connect, and the       *)
(* CHANNEL_CLOSE that a teardown sends.  Those waits are the interleavings.*)
(*                                                                         *)
(* Time is kept as ages and countdowns rather than as Date.now(): "now -   *)
(* lastActivity" is idleAge, and a timer is the number of ticks it has     *)
(* left.  Ages stop at one above the limit they are compared with, the     *)
(* only thing the code can tell about them.                                *)
(***************************************************************************)
EXTENDS Integers, FiniteSets

CONSTANTS
    Keys,               \* host keys a server may present
    NoKey,              \* no host key: nothing pinned, nothing presented
    Users, Owner,       \* accounts; the one that asked for this terminal
    Reqs,               \* requests to /ws that carry this terminal's ticket
    HANDSHAKE_TIMEOUT,  \* connection.ts:103, 20 s unless the caller says
    ALARM_INTERVAL,     \* session.ts:52
    UNCLAIMED_TTL,      \* session.ts:54
    HOSTKEY_TIMEOUT,    \* session.ts:181
    IDLE_TIMEOUT,       \* session.ts:50
    MAX_SESSION         \* session.ts:51

ASSUME KeysAssumption == NoKey \notin Keys
ASSUME OwnerAssumption == Owner \in Users
ASSUME DelaysAssumption ==
    /\ HANDSHAKE_TIMEOUT \in Nat \ {0} /\ ALARM_INTERVAL \in Nat \ {0}
    /\ UNCLAIMED_TTL \in Nat \ {0}     /\ HOSTKEY_TIMEOUT \in Nat \ {0}
    /\ IDLE_TIMEOUT \in Nat \ {0}      /\ MAX_SESSION \in Nat \ {0}

VARIABLES
    (* The object: what configure() provisioned and how far it has come.   *)
    ticket,         \* FALSE until /api/connect has called configure()
    params,         \* "none", "full" with the credential, or "scrubbed"
    pinned,         \* params.pinnedFingerprint, or NoKey
    claimed, unclaimedAge,
    alarm,          \* the storage alarm: NoTimer, or ticks until it is due
    (* The object: the open terminal.                                      *)
    socket,         \* this.socket is not null
    idleAge, sessionAge,
    torndown,
    closing,        \* how far the one teardown that ran has come
    ssh,            \* this.ssh is not null
    (* SshClient.connect() and the handshake() coroutine it started, which *)
    (* outlives it when withTimeout() gives up first.                      *)
    conn, hs, handshakeTimer,
    hostKey,        \* what the server presented, once its signature is good
    promptTimer,    \* runs exactly while hostKeyDecision is not null
    zeroed,         \* packets.destroy() has run
    tcp,            \* the socket to the SSH server
    (* The browser and the Worker requests.                                *)
    ws, prompt, pc,
    (* History, for the properties only.                                   *)
    sentTo,         \* host keys of the servers the credential was sent to
    accepted        \* host keys the user answered "accept" to

objVars  == <<ticket, params, pinned, claimed, unclaimedAge, alarm>>
termVars == <<socket, idleAge, sessionAge, torndown, closing, ssh>>
connVars == <<conn, hs, handshakeTimer, hostKey, promptTimer, zeroed, tcp>>
envVars  == <<ws, prompt, pc>>
histVars == <<sentTo, accepted>>
vars == <<objVars, termVars, connVars, envVars, histVars>>

-----------------------------------------------------------------------------
NoTimer == -1

(* An age never counts beyond one more than the limit it is held against.  *)
Older(age, limit) == IF age > limit THEN age ELSE age + 1

(* Operators whose comment begins "Fault:" are not the code.  Each is the  *)
(* definition after it with a plausible mistake, and is there to show that *)
(* a property would notice.                                                *)

(* A countdown stays at zero, due, until its handler runs.                 *)
Down(timer) == IF timer > 0 THEN timer - 1 ELSE timer

(* Packets.send() refuses once destroy() has run.                          *)
CanSend == ~zeroed

(* Fault: any key will do once something is pinned.                        *)
AnyPin(k) == pinned # NoKey

(* The pin check of the handshake.                                         *)
PinMatches(k) == pinned = k

ObjTypeOK ==
    /\ ticket \in BOOLEAN
    /\ params \in {"none", "full", "scrubbed"}
    /\ pinned \in Keys \cup {NoKey}
    /\ claimed \in BOOLEAN
    /\ unclaimedAge \in 0..(UNCLAIMED_TTL + 1)
    /\ alarm \in Nat \cup {NoTimer}

TermTypeOK ==
    /\ socket \in BOOLEAN
    /\ idleAge \in 0..(IDLE_TIMEOUT + 1)
    /\ sessionAge \in 0..(MAX_SESSION + 1)
    /\ torndown \in BOOLEAN
    /\ closing \in {"no", "sending", "done"}
    /\ ssh \in BOOLEAN

ConnTypeOK ==
    /\ conn \in {"none", "handshake", "closing", "shell", "up", "over"}
    /\ hs \in {"none", "kex", "asking", "secure", "auth", "ok", "failed"}
    /\ handshakeTimer \in 0..HANDSHAKE_TIMEOUT \cup {NoTimer}
    /\ hostKey \in Keys \cup {NoKey}
    /\ promptTimer \in 0..HOSTKEY_TIMEOUT \cup {NoTimer}
    /\ zeroed \in BOOLEAN
    /\ tcp \in {"none", "open", "closed"}

EnvTypeOK ==
    /\ ws \in {"none", "open", "leaving", "closed"}
    /\ prompt \in {"none", "shown", "answered"}
    /\ pc \in [Reqs -> {"start", "claimed", "refused", "open"}]
    /\ sentTo \subseteq Keys
    /\ accepted \subseteq Keys

TypeOK == ObjTypeOK /\ TermTypeOK /\ ConnTypeOK /\ EnvTypeOK

(* A fresh object, before configure().  Its zero timestamps lie further    *)
(* back than every limit.                                                  *)
Init ==
    /\ ticket = FALSE /\ params = "none" /\ pinned = NoKey
    /\ claimed = FALSE /\ unclaimedAge = UNCLAIMED_TTL + 1 /\ alarm = NoTimer
    /\ socket = FALSE /\ torndown = FALSE /\ closing = "no" /\ ssh = FALSE
    /\ idleAge = IDLE_TIMEOUT + 1 /\ sessionAge = MAX_SESSION + 1
    /\ conn = "none" /\ hs = "none" /\ hostKey = NoKey /\ zeroed = FALSE
    /\ handshakeTimer = NoTimer /\ promptTimer = NoTimer /\ tcp = "none"
    /\ ws = "none" /\ prompt = "none" /\ pc = [r \in Reqs |-> "start"]
    /\ sentTo = {} /\ accepted = {}

-----------------------------------------------------------------------------
(* teardown(), called by a handler that leaves the alarm at `a' and        *)
(* connect() at `c'.  The first call refuses a pending host-key prompt,    *)
(* which fails the handshake that waits for it; it forgets the client and  *)
(* the parameters; and, if there was a live client, waits for its          *)
(* CHANNEL_CLOSE before it lets go of the browser and the alarm            *)
(* (TeardownFinishes).  Without one it runs to its end at once.  A later   *)
(* call returns immediately.                                               *)
Teardown(a, c) ==
    IF torndown
    THEN /\ alarm' = a /\ conn' = c
         /\ zeroed' = (zeroed \/ c = "over")
         /\ UNCHANGED <<params, socket, torndown, closing, ssh, hs,
                        handshakeTimer, promptTimer>>
    ELSE LET waits   == ssh /\ c = "up"
             refuses == promptTimer # NoTimer
         IN  /\ torndown' = TRUE /\ params' = "none" /\ ssh' = FALSE
             /\ closing' = IF waits THEN "sending" ELSE "done"
             /\ socket' = (socket /\ waits)
             /\ alarm' = IF waits THEN a ELSE NoTimer
             /\ promptTimer' = NoTimer
             /\ hs' = IF refuses THEN "failed" ELSE hs
             /\ zeroed' = (zeroed \/ refuses \/ c = "over")
             /\ IF refuses /\ c = "handshake"
                THEN conn' = "closing" /\ handshakeTimer' = NoTimer
                ELSE conn' = c /\ UNCHANGED handshakeTimer

(* Fault: this.socket dropped without being closed.                        *)
BrowserForgotten == ws' = ws

(* Letting go of this.socket closes the browser's WebSocket.               *)
BrowserReleased == ws' = IF socket' \/ ws = "none" THEN ws ELSE "closed"

(* handshake() settles with an error.  If connect() still waits for it,    *)
(* the packet layer is destroyed and the socket is being closed; if it     *)
(* gave up before, nobody looks at the outcome.                            *)
HandshakeFails ==
    /\ hs' = "failed"
    /\ zeroed' = TRUE
    /\ IF conn = "handshake"
       THEN conn' = "closing" /\ handshakeTimer' = NoTimer
       ELSE UNCHANGED <<conn, handshakeTimer>>

(* The host key stands: handshake() goes on to send NEWKEYS.               *)
KeyStands ==
    IF CanSend
    THEN hs' = "secure" /\ UNCHANGED <<conn, handshakeTimer, zeroed>>
    ELSE HandshakeFails

-----------------------------------------------------------------------------
(* Provisioning: POST /api/connect calls configure() on a fresh object.    *)
Configure(pin) ==
    /\ ~ticket /\ params = "none"
    /\ ticket' = TRUE /\ params' = "full" /\ pinned' = pin
    /\ unclaimedAge' = 0
    /\ alarm' = UNCLAIMED_TTL + 1
    /\ UNCHANGED <<claimed, termVars, connVars, envVars, histVars>>

(* Fault: a claim that does not look for an earlier one.                   *)
ClaimRefusedOnce(u) == params = "none" \/ torndown \/ u # Owner

(* claim(): the conditions that turn user u away.                          *)
ClaimRefused(u) == params = "none" \/ claimed \/ torndown \/ u # Owner

(* handleWebSocket, first half: claim() over RPC, for signed-in user u.    *)
Claim(r, u) ==
    /\ ticket /\ pc[r] = "start"
    /\ IF ClaimRefused(u)
       THEN /\ pc' = [pc EXCEPT ![r] = "refused"]
            /\ UNCHANGED <<objVars, termVars, connVars, ws>>
       ELSE IF unclaimedAge > UNCLAIMED_TTL
       THEN /\ pc' = [pc EXCEPT ![r] = "refused"]
            /\ Teardown(alarm, conn)
            /\ UNCHANGED <<ticket, pinned, claimed, unclaimedAge, idleAge,
                           sessionAge, hostKey, tcp, ws>>
       ELSE /\ pc' = [pc EXCEPT ![r] = "claimed"]
            /\ claimed' = TRUE
            /\ UNCHANGED <<ticket, params, pinned, unclaimedAge, alarm,
                           termVars, connVars, ws>>
    /\ UNCHANGED <<prompt, histVars>>

(* Fault: an upgrade that does not look for parameters.                    *)
InUse == socket

(* fetch(): the conditions of its two 409 replies.                         *)
OpenRefused == params = "none" \/ socket

(* handleWebSocket, second half: fetch() accepts the upgrade and starts    *)
(* startSsh(), which runs connect() up to its first wait.                  *)
Open(r) ==
    /\ pc[r] = "claimed"
    /\ IF OpenRefused
       THEN /\ pc' = [pc EXCEPT ![r] = "refused"]
            /\ UNCHANGED <<objVars, termVars, connVars, ws>>
       ELSE /\ pc' = [pc EXCEPT ![r] = "open"]
            /\ socket' = TRUE /\ ws' = "open"
            /\ idleAge' = 0 /\ sessionAge' = 0
            /\ alarm' = ALARM_INTERVAL
            /\ conn' = "handshake" /\ hs' = "kex" /\ tcp' = "open"
            /\ handshakeTimer' = HANDSHAKE_TIMEOUT
            /\ zeroed' = FALSE /\ hostKey' = NoKey
            /\ UNCHANGED <<ticket, params, pinned, claimed, unclaimedAge,
                           torndown, closing, ssh, promptTimer>>
    /\ UNCHANGED <<prompt, histVars>>

-----------------------------------------------------------------------------
(* handshake(): the server's signature over the exchange verifies, and its *)
(* key is held against the pin or shown to the user (askAboutHostKey).  A  *)
(* handshake that connect() gave up on may still get here, with bytes it   *)
(* had already read.                                                       *)
PresentKey(k) ==
    /\ hs = "kex"
    /\ hostKey' = k
    /\ IF pinned = NoKey
       THEN /\ hs' = "asking"
            /\ promptTimer' = HOSTKEY_TIMEOUT
            /\ prompt' = IF socket THEN "shown" ELSE prompt
            /\ UNCHANGED <<conn, handshakeTimer, zeroed>>
       ELSE /\ IF PinMatches(k) THEN KeyStands ELSE HandshakeFails
            /\ UNCHANGED <<promptTimer, prompt>>
    /\ UNCHANGED <<objVars, termVars, tcp, ws, pc, histVars>>

(* setTimeout in askAboutHostKey: no answer counts as a refusal.           *)
PromptTimeout ==
    /\ promptTimer = 0
    /\ promptTimer' = NoTimer
    /\ HandshakeFails
    /\ UNCHANGED <<objVars, termVars, hostKey, tcp, envVars, histVars>>

(* NEWKEYS and the service request are through: authenticate() sends the   *)
(* credential, or finds the packet layer destroyed.                        *)
SendCredential ==
    /\ hs = "secure"
    /\ IF CanSend
       THEN /\ hs' = "auth" /\ sentTo' = sentTo \cup {hostKey}
            /\ UNCHANGED <<conn, handshakeTimer, zeroed>>
       ELSE HandshakeFails /\ UNCHANGED sentTo
    /\ UNCHANGED <<objVars, termVars, hostKey, promptTimer, tcp, envVars, accepted>>

(* USERAUTH_SUCCESS.  connect() goes on to openShell() if it still waits.  *)
Authenticated ==
    /\ hs = "auth"
    /\ hs' = "ok"
    /\ IF conn = "handshake"
       THEN conn' = "shell" /\ handshakeTimer' = NoTimer
       ELSE UNCHANGED <<conn, handshakeTimer>>
    /\ UNCHANGED <<objVars, termVars, hostKey, promptTimer, zeroed, tcp, envVars, histVars>>

(* Any error of a handshake that is reading: a refused or broken           *)
(* connection, no shared algorithm, a bad signature, USERAUTH_FAILURE.  A  *)
(* handshake that waits for the user reads nothing and notices nothing.    *)
HandshakeError ==
    /\ hs \in {"kex", "secure", "auth"}
    /\ HandshakeFails
    /\ UNCHANGED <<objVars, termVars, hostKey, promptTimer, tcp, envVars, histVars>>

(* withTimeout(): connect() gives up; the handshake is not cancelled.      *)
HandshakeTimeout ==
    /\ handshakeTimer = 0
    /\ handshakeTimer' = NoTimer
    /\ conn' = "closing" /\ zeroed' = TRUE
    /\ UNCHANGED <<objVars, termVars, hs, hostKey, promptTimer, tcp, envVars, histVars>>

(* openShell() is refused, or the server goes away during it.              *)
ShellFails ==
    /\ conn = "shell"
    /\ conn' = "closing" /\ zeroed' = TRUE
    /\ UNCHANGED <<objVars, termVars, hs, handshakeTimer, hostKey, promptTimer,
                   tcp, envVars, histVars>>

(* openShell() is done: connect() returns the client and startSsh() keeps  *)
(* it, replaces the parameters and reports "connected".                    *)
ShellReady ==
    /\ conn = "shell"
    /\ conn' = "up" /\ ssh' = TRUE /\ params' = "scrubbed"
    /\ UNCHANGED <<ticket, pinned, claimed, unclaimedAge, alarm, socket, idleAge,
                   sessionAge, torndown, closing, hs, handshakeTimer, hostKey,
                   promptTimer, zeroed, tcp, envVars, histVars>>

(* connect() has closed its socket and throws; startSsh() reports the      *)
(* error and tears down.                                                   *)
ConnectFailed ==
    /\ conn = "closing"
    /\ tcp' = "closed"
    /\ Teardown(alarm, "over")
    /\ BrowserReleased
    /\ UNCHANGED <<ticket, pinned, claimed, unclaimedAge, idleAge, sessionAge,
                   hostKey, prompt, pc, histVars>>

(* The channel or the connection ends: finish(), and through onClose the   *)
(* teardown, whose own close() then has nothing left to do.                *)
ServerCloses ==
    /\ conn = "up"
    /\ tcp' = "closed"
    /\ Teardown(alarm, "over")
    /\ BrowserReleased
    /\ UNCHANGED <<ticket, pinned, claimed, unclaimedAge, idleAge, sessionAge,
                   hostKey, prompt, pc, histVars>>

(* Fault: finish() without socket.close().                                 *)
FinishKeepsSocket == conn' = "over" /\ zeroed' = TRUE /\ UNCHANGED tcp

(* SshClient.finish().                                                     *)
Finish == conn' = "over" /\ zeroed' = TRUE /\ tcp' = "closed"

(* The teardown's CHANNEL_CLOSE is written, or the connection died under   *)
(* it: finish() closes the TCP socket, then the browser and the alarm go.  *)
TeardownFinishes ==
    /\ closing = "sending"
    /\ closing' = "done"
    /\ Finish
    /\ socket' = FALSE /\ alarm' = NoTimer
    /\ BrowserReleased
    /\ UNCHANGED <<ticket, params, pinned, claimed, unclaimedAge, idleAge,
                   sessionAge, torndown, ssh, hs, handshakeTimer, hostKey,
                   promptTimer, prompt, pc, histVars>>

(* Output of the server, which expect() hands on during openShell() and    *)
(* the pump from then on: sendBinary() counts as activity.                 *)
Output ==
    /\ conn \in {"shell", "up"}
    /\ idleAge' = 0
    /\ UNCHANGED <<objVars, socket, sessionAge, torndown, closing, ssh, connVars,
                   envVars, histVars>>

-----------------------------------------------------------------------------
Listening == ws \in {"open", "leaving"}

(* onMessage(): keystrokes or a resize.                                    *)
Input ==
    /\ Listening
    /\ idleAge' = 0
    /\ UNCHANGED <<objVars, socket, sessionAge, torndown, closing, ssh, connVars,
                   envVars, histVars>>

(* onMessage(): the answer to the prompt, which does not say which key it  *)
(* answers.  It counts only while hostKeyDecision is set.                  *)
Answer(accept) ==
    /\ Listening /\ prompt = "shown"
    /\ prompt' = "answered"
    /\ idleAge' = 0
    /\ accepted' = IF accept THEN accepted \cup {hostKey} ELSE accepted
    /\ promptTimer' = NoTimer
    /\ IF promptTimer = NoTimer
       THEN UNCHANGED <<conn, hs, handshakeTimer, zeroed>>
       ELSE IF accept THEN KeyStands ELSE HandshakeFails
    /\ UNCHANGED <<objVars, socket, sessionAge, torndown, closing, ssh, hostKey, tcp,
                   ws, pc, sentTo>>

(* The browser closes its end, and later the object hears of it.           *)
BrowserLeaves ==
    /\ ws = "open"
    /\ ws' = "leaving"
    /\ UNCHANGED <<objVars, termVars, connVars, prompt, pc, histVars>>

BrowserGone ==
    /\ ws = "leaving"
    /\ ws' = "closed"
    /\ Teardown(alarm, conn)
    /\ UNCHANGED <<ticket, pinned, claimed, unclaimedAge, idleAge, sessionAge,
                   hostKey, tcp, prompt, pc, histVars>>

-----------------------------------------------------------------------------
(* Fault: only idleness ends a session.                                    *)
IdleTooLong == idleAge > IDLE_TIMEOUT

(* The two limits alarm() holds an open terminal against.                  *)
TooLong == sessionAge > MAX_SESSION \/ idleAge > IDLE_TIMEOUT

(* Fault: the alarm is not set again while a terminal is open.             *)
RearmedUnused == IF torndown \/ socket THEN NoTimer ELSE UNCLAIMED_TTL - unclaimedAge + 1

(* The alarm that a run of alarm() with nothing to end leaves behind.      *)
Rearmed == IF torndown THEN NoTimer
           ELSE IF socket THEN ALARM_INTERVAL
           ELSE UNCLAIMED_TTL - unclaimedAge + 1

(* alarm(): the storage alarm is consumed when it fires.                   *)
Alarm ==
    /\ alarm = 0
    /\ IF ~torndown /\ IF socket THEN TooLong ELSE unclaimedAge > UNCLAIMED_TTL
       THEN Teardown(NoTimer, conn) /\ BrowserReleased
       ELSE /\ alarm' = Rearmed
            /\ UNCHANGED <<params, socket, torndown, closing, ssh, conn, hs,
                           handshakeTimer, promptTimer, ws, zeroed>>
    /\ UNCHANGED <<ticket, pinned, claimed, unclaimedAge, idleAge, sessionAge,
                   hostKey, tcp, prompt, pc, histVars>>

(* Time.  The isolate's own timers run in the order of their deadlines, so *)
(* time does not pass one that is due; the storage alarm may be late.      *)
Tick ==
    /\ handshakeTimer # 0 /\ promptTimer # 0
    /\ unclaimedAge' = Older(unclaimedAge, UNCLAIMED_TTL)
    /\ idleAge' = Older(idleAge, IDLE_TIMEOUT)
    /\ sessionAge' = Older(sessionAge, MAX_SESSION)
    /\ alarm' = Down(alarm)
    /\ handshakeTimer' = Down(handshakeTimer)
    /\ promptTimer' = Down(promptTimer)
    /\ UNCHANGED <<ticket, params, pinned, claimed, socket, torndown, closing, ssh,
                   conn, hs, hostKey, zeroed, tcp, envVars, histVars>>

(* The platform moves or restarts the object.  Everything but the storage  *)
(* alarm was in memory, and its sockets close.  An alarm whose handler was *)
(* still waiting for a teardown is run again.                              *)
Restart ==
    /\ ticket
    /\ params' = "none" /\ claimed' = FALSE /\ unclaimedAge' = UNCLAIMED_TTL + 1
    /\ socket' = FALSE /\ torndown' = FALSE /\ closing' = "no" /\ ssh' = FALSE
    /\ idleAge' = IDLE_TIMEOUT + 1 /\ sessionAge' = MAX_SESSION + 1
    /\ conn' = "none" /\ hs' = "none" /\ hostKey' = NoKey /\ zeroed' = FALSE
    /\ handshakeTimer' = NoTimer /\ promptTimer' = NoTimer
    /\ tcp' = IF tcp = "none" THEN tcp ELSE "closed"
    /\ ws' = IF ws = "none" THEN ws ELSE "closed"
    /\ alarm' \in {alarm} \cup IF closing = "sending" THEN {0} ELSE {}
    /\ UNCHANGED <<ticket, pinned, prompt, pc, histVars>>

-----------------------------------------------------------------------------
Server == \/ \E k \in Keys : PresentKey(k)
          \/ SendCredential \/ Authenticated \/ HandshakeError
          \/ ShellFails \/ ShellReady \/ ServerCloses \/ Output

Next ==
    \/ \E pin \in Keys \cup {NoKey} : Configure(pin)
    \/ \E r \in Reqs, u \in Users : Claim(r, u)
    \/ \E r \in Reqs : Open(r)
    \/ Server
    \/ PromptTimeout \/ HandshakeTimeout \/ ConnectFailed \/ TeardownFinishes
    \/ Input \/ BrowserLeaves \/ BrowserGone
    \/ \E accept \in BOOLEAN : Answer(accept)
    \/ Alarm \/ Tick \/ Restart

Spec == Init /\ [][Next]_vars

(* What the platform and the object owe whoever the other side is: time    *)
(* passes, timers fire, a close event is delivered, `await socket.close()' *)
(* returns, and a send that waits on a dead connection returns.  Nothing   *)
(* is assumed of the server, the user or a restart.                        *)
Fairness ==
    /\ WF_vars(Tick) /\ WF_vars(Alarm)
    /\ WF_vars(HandshakeTimeout) /\ WF_vars(PromptTimeout)
    /\ WF_vars(ConnectFailed) /\ WF_vars(BrowserGone)
    /\ WF_vars(conn = "over" /\ TeardownFinishes)

(* The server, moreover, goes on reading, so that CHANNEL_CLOSE leaves.    *)
ServerReads == WF_vars(TeardownFinishes)

(* The server, moreover, answers: a handshake or a shell request that can  *)
(* go on does.                                                             *)
ServerAnswers ==
    /\ WF_vars(\E k \in Keys : PresentKey(k))
    /\ WF_vars(SendCredential) /\ WF_vars(Authenticated) /\ WF_vars(ShellReady)

FairSpec == Spec /\ Fairness
AnsweringSpec == FairSpec /\ ServerReads /\ ServerAnswers

-----------------------------------------------------------------------------
(* Safety.                                                                 *)

(* The credential has only ever gone to a server whose key the pin names,  *)
(* or, with no pin, to one whose key the user accepted.                    *)
CredentialGuarded ==
    \A k \in sentTo : IF pinned = NoKey THEN k \in accepted ELSE k = pinned

(* A handshake that outlives its connect() sends the credential to no one. *)
SilentAfterGivingUp == [][sentTo' # sentTo => conn = "handshake"]_vars

(* However claims, upgrades, expiry, teardown and restarts interleave, at  *)
(* most one request is ever let through with a ticket.                     *)
OneTerminal ==
    \A q, r \in Reqs :
        pc[q] \in {"claimed", "open"} /\ pc[r] \in {"claimed", "open"} => q = r

(* Whatever the object still holds, parameters or a browser, an alarm is   *)
(* pending that will come back for it, until a teardown takes over.        *)
HeldIsWatched ==
    ~torndown /\ (params # "none" \/ socket) => alarm # NoTimer

(* Once a teardown has run to its end nothing brings the session back: no  *)
(* browser is attached, no alarm is set, and the browser end is closed.    *)
TornDownIsOver ==
    closing = "done" => ~socket /\ alarm = NoTimer /\ ws \in {"none", "closed"}

(* The handshake has its own, shorter limit: by the time the question to   *)
(* the user runs out connect() has long given up, so that the two minutes  *)
(* of askAboutHostKey never decide.                                        *)
HandshakeEndsFirst == promptTimer = 0 => conn # "handshake"

-----------------------------------------------------------------------------
(* The session as its page and its user see it.                            *)

(* How far it has come; it is over as soon as connect() is failing.        *)
Phase ==
    IF ~ticket THEN "none"
    ELSE IF torndown \/ params = "none" \/ conn \in {"closing", "over"} THEN "over"
    ELSE IF conn = "none" THEN "provisioned"
    ELSE IF conn = "up" THEN "up"
    ELSE IF hs = "kex" THEN "checking"
    ELSE IF hs = "asking" THEN "asking"
    ELSE "going"

Presented == IF Phase \in {"asking", "going", "up"} THEN hostKey ELSE NoKey

Promise == INSTANCE Terminal WITH
    None <- NoKey, phase <- Phase, key <- Presented

(* Whatever zombies, expiries, teardowns and restarts there are, a session *)
(* is one terminal: used once, its key settled first, over for good.       *)
KeepsPromise == Promise!Spec

-----------------------------------------------------------------------------
(* Liveness.                                                               *)

(* A provisioned credential does not stay in this.params, used or not,     *)
(* whatever the server and the browser do.                                 *)
ParamsForgotten == params = "full" ~> params # "full"

(* No terminal outlives its limits: neither server nor user can keep it on *)
(* its way for ever, as TerminalView assumes of every session, and one     *)
(* that is open is torn down, however busy it is kept.                     *)
SessionEnds == Promise!MovesOn /\ ((socket /\ ~torndown) ~> (torndown \/ ~socket))

(* "If the SSH side drops, the browser must not be left waiting"           *)
(* (session.ts:245).                                                       *)
BrowserNotLeftWaiting == conn \in {"closing", "over"} ~> ws \in {"none", "closed"}

(* A teardown waits for ever for the send of its CHANNEL_CLOSE, behind a    *)
(* frame that a server which has stopped reading never takes.  As torndown *)
(* is set by then, no later alarm comes to the rescue.                     *)
Stuck == <>[](closing = "sending")

(* "Sessions are capped at one hour" (README.md:379), but for a session    *)
(* that is stuck: no browser stays attached for ever, and a teardown that  *)
(* found a live client closes the connection to the server as well.        *)
SessionsCapped ==
    \/ Stuck
    \/ /\ ws = "open" ~> ws # "open"
       /\ closing = "sending" ~> (tcp = "closed" /\ ~socket)

-----------------------------------------------------------------------------
(* A claim of the repository that the code does not keep.                  *)

(* "Both halves die together. If the browser drops, the TCP socket must    *)
(* not be left open" (session.ts:243-245).                                 *)
BothHalvesDie == torndown ~> tcp # "open"
=============================================================================
