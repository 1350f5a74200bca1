# SSH Tunnel in TLA+

SSH Tunnel is a Cloudflare Worker that gives a browser a terminal on an SSH
server: it speaks SSH itself, over an outbound TCP socket, from a Durable Object
per terminal. This directory models its concurrent core, checks the models with
TLC and proves their main invariants with TLAPS. Paths below are relative to the
repository; most of the program is under `src/` there.

- [The system](#the-system): components, their state, how they interact
- [Modules](#modules): what models what, and at which grain
- [Runs](#runs): what each run checks, its bounds, its fairness
- [Findings](#findings): where the code and its docs disagree
- [Proofs](#proofs)
- [What only TLC checks](#what-only-tlc-checks), [what is not modelled](#what-is-not-modelled), [plan](#plan)

## The system

| Component | Source | State it keeps | Operations | What makes it correct |
|---|---|---|---|---|
| Worker entry, WebSocket route | `src/index.ts`, `src/api/index.ts` | none | `fetch`, `handleWebSocket` (claim, then upgrade), routing, scoring of responses | a ticket lets in one request, of the account it was issued to |
| Session provisioning | `src/api/connect.ts` | none | resolve target, `configure()` a fresh Durable Object | what is handed over is what the user saved |
| SshSession Durable Object | `src/session.ts` | parameters with the credential, claim, browser socket, SSH client, clocks; only the alarm survives a restart | `configure`, `claim`, `fetch`, `startSsh`, `askAboutHostKey`, `onMessage`, `alarm`, `teardown` | one terminal per ticket, every session ends, both ends are released, the credential is dropped |
| SSH client: set-up | `src/ssh/connection.ts` (`connect`, `handshake`, `authenticate`, `openShell`) | phase, pending host-key decision, timeout | a timed handshake that may outlive its caller | the credential only goes to a confirmed host key |
| SSH client: channel | `src/ssh/connection.ts` (`pump` to `finish`) | two windows, waiters, closed | `pump`, `write`, `resize`, `close` | flow control both ways, nothing lost or reordered, nobody left waiting |
| Packet layer, byte stream | `src/ssh/packet.ts`, `src/ssh/stream.ts` | send chain, cipher state, writer, read buffer | `send`, `receive`, `enableGcm`, `destroy` | no IV twice, frames in the order and form the other side expects, no reader left behind |
| Rate limiter Durable Object | `src/rate-limit.ts`, `src/security/suspicion.ts` | a window and a strike record per key, one alarm | `hit`, `strike`, `blockStatus`, `reset`, `pardon`, `alarm` | blocks stand, scores are remembered, stale keys go |
| Accounts | `src/api/auth.ts`, `src/auth/`, `src/db/users.ts`, `src/db/invites.ts`, `src/api/invites.ts` | tables `users`, `sessions`, `invites` | register, login with re-hash, change password, sign out, invite | invites are used once, the key stays readable, old sessions end |
| Saved servers and pins | `src/api/servers.ts`, `src/db/servers.ts`, `web/components/TerminalView.tsx` | table `servers` | create, update, remove, pin | the pin belongs to the host it was accepted for |
| Egress guard | `src/net/guard.ts` | none | decide whether a host and port may be dialled | private addresses are refused in any notation |
| Key exchange, wire codec, private keys | `src/ssh/kex.ts`, `wire.ts`, `privatekey.ts` | none | parse, verify, derive | covered by the repository's unit tests |
| Hashing, breach check, audit, headers, HTTP helpers | `src/auth/password.ts`, `breach.ts`, `src/db/audit.ts`, `src/security/headers.ts`, `src/api/http.ts` | none (audit: write-only) | | |
| Terminal page | `web/components/TerminalView.tsx`, `web/app/servers/page.tsx`, `web/lib/api.ts` | ticket, socket, status, the question and the warning on the screen | open, answer, forget the pin, reconnect, leave | an answer belongs to the session that asked, no session outlives its page |
| Web client, other pages | `web/` | forms | | |

How they interact:

- `POST /api/connect` resolves a target and calls `configure()` on a fresh
  SshSession object, whose name is the ticket. `GET /ws` calls `claim()` and then
  `fetch()` on it: two separate calls, between which another request, the expiry
  alarm or a restart may come.
- `fetch()` accepts the browser's WebSocket and starts `startSsh()` without
  waiting. `SshClient.connect()` races `handshake()` against a timer and does not
  cancel it. The host-key prompt goes through the browser and comes back as a
  message.
- After that the pump, one `write()` per browser message, resizes, a close and
  the alarm all run in one JavaScript thread and interleave at every `await`.
  They meet in `Packets.send()`, a chain of promises.
- Every API request first asks the RateLimiter object of its address, and leaves
  a strike there with `waitUntil()` once it has been answered. Login asks those
  of address and account, and strikes or pardons the latter.
- The page makes calls that it waits for or not, and holds one WebSocket per
  ticket. Its effect closes the old socket and opens the next.
- Requests share the database. There are no transactions: each handler is a
  series of statements.

What is hard here: interleaving at `await`s, a timeout that does not cancel what
it gives up on, restarts that lose memory and keep an alarm, promises that
nobody settles, windows and counters read before an `await` and written after
it, and handlers cut between two statements. `PROJECT.json` lists these hazards
with the line where each bites and the properties that watch it.

## Modules

| Module | Models |
|---|---|
| `SshSession` | SshSession, the set-up half of SshClient, the two-step WebSocket route; with browser, server, clock and restarts |
| `Terminal` | what one session promises to the page: its phases, and when its host key is settled; implemented by `SshSession`, and by every session of `TerminalView` |
| `PacketOrder` | what `Packets.send()` promises: in order, at most once, an answer to everyone |
| `Packets` | the packet layer; implements `PacketOrder` |
| `SshChannel` | the open channel; uses of `Packets` what `PacketOrder` promises |
| `Transport` | the dialogue between client and SSH server from the version line to the shell, packet by packet, over a stream that delivers pieces |
| `LimiterKey`, `Limiter` | one key as callers of the rate limiter see it, and what the object promises them |
| `RateLimiter` | the rate limiter object of one key, its clock and its alarm; implements `Limiter` |
| `Gate` | `fetch()` and `login()` between several objects that are what `Limiter` says |
| `TerminalView` | the terminal page, its calls, and one session per ticket at the far end of a WebSocket |
| `Accounts` | registration, login, password change, sign-out and invites over the database |
| `Servers` | saved servers with their pins, from the API over the guard to the terminal that reads them and the browser that pins |
| `MC*` | constants and symmetry for TLC |
| `*_proofs` | theorems and proofs of the module of that name; `Limits_proofs` of `RateLimiter` and `Gate` |

Conventions. Names follow the source. An action is what the code does between
two awaits that others can get in between. Calls on a Durable Object that only
await its own storage are one step (its input gate holds other events back). A
definition whose comment begins "Fault:" is not the code but a plausible mistake
in the definition after it; `PROJECT.json` ("mutants") pairs each with the
property that notices it, so that no property holds whatever the code does.
Variables marked "History" only serve properties; no guard reads them.

**SshSession.** `ticket, params, pinned, claimed, unclaimedAge, alarm` are what
`configure()` and `claim()` keep; `socket, idleAge, sessionAge, torndown,
closing, ssh` the open terminal; `conn, hs, handshakeTimer, hostKey,
promptTimer, zeroed, tcp` the client. `conn` follows the caller of `connect()`,
`hs` the handshake coroutine: after a timeout they part, and `hs` goes on as a
zombie until its next send is refused. Time is ages and countdowns. `Restart`
forgets everything but the storage alarm. The server may present any key, fail
at any moment, or never answer. `Phase` and `Presented` are what the page and the
user see of all this; under them it is a `Terminal`.

**Packets / PacketOrder.** The promise chain is a sequence, whose head is being
encrypted or written (`turn`). `destroy()` may come at any moment. `sealed`
records the counter of every encryption. Counters are modulo `IVs`, for 2^64.

**SshChannel.** Each write has a `state`, an `offset` and the `size` of the
chunk it awaits; `queue` is the promise chain, `windowWaiters` the list of
resolvers. `remoteWindow` is what the client believes of the server's window,
`credit` what the server will still take; likewise `localWindow` and
`sendWindow`. `overlapped` says that a write began before an earlier one had
returned; several properties hold only as long as it is false, and one finding
is what happens when it is true.

**Transport.** `Dialogue` lists the nine things the client says and what it waits
for each time. `doing` follows the coroutine (`saying`, `reading`, `asking` the
user, `installing` keys), `outcome` the caller of `connect()`: after a timeout
they part. A packet is a type and the counter it was sealed with, or `Clear`; its
bytes come in two pieces, the length and the rest, so a read may wait in the
middle of a packet and a packet may arrive before its keys are installed. The
server keeps to the RFCs, and is otherwise free: it may speak unasked (up to
`MAX_ASIDES` times), ask for an answer and hold back its own until it has one,
refuse, hang up or fall silent. Two things the RFCs allow it count as its own
end of the connection, because the client has no way to go on: to exchange keys
anew, which the repository names as a limitation, and to open a channel before
the shell is there, at which `expect()` throws (`Early`); a channel it opens
later is passed over by the pump. `expectDuringHandshake()`, `authenticate()`,
`expect()` and `dispatch()` are the four readers behind `Passes` and `Declines`;
what the pump does with channel data is `SshChannel`.

**RateLimiter.** A deadline is kept as the time left until it. Calls are atomic,
except that a restart may cut a call after its `put` and before its `setAlarm`
(`CutShort`), or an alarm between its two deletions. An alarm may be
late. `promised`, `score` and `admitted` record what callers have been told;
`admitted[b]` is how many hits have been allowed since `b` ticks before the last
one.

**Limiter, Gate.** `Limiter` keeps of a key the hits of its window, its score, cut
off at the first level, and whether it is blocked; time ends each of them at some
moment (`Lapse`), but never a score under a block. `Gate` has an object `ip:` and
`login:` per address and one `login:acct:`, and steps through `fetch()` and
`login()` from one call on an object to the next; all slots interleave there.
An address of `ROTATING` stands for ever new ones: its objects are always fresh.
The budget of the whole API, shared with requests that are not in the model, may
be used up at any time (`MAX_MISHAPS`). `guesses` counts the wrong passwords that
were verified and answered since the account's score was last clear or a block
of it ended. A wrong password whose strike throws is answered 500 and is no
answered guess (`Fails`).

**TerminalView.** A click, the answer to a call, a message and the end of a socket
are one step each, as in a browser; a call is made, carried out and answered in
three, so that calls overtake each other. A page that has gone ignores the
answers of its handlers (`Heeded`), but the listeners of a socket outlive the
effect that made it, as in the code. A session is reduced to its phases; inside
it is `SshSession`: both implement `Terminal`, and what `TerminalView` assumes of a
session's progress, `SshSession` is checked to keep (`MovesOn`, part of
`SessionEnds`). A host may be reinstalled, and a PATCH or a Connect may take
effect and be answered with an error all the same, when a later statement of its
handler throws. Connect is
never disabled: the user may click it again before the first click has been
answered, and the late answer then changes the `serverId` of a page that is
already there, whose ticket stays (a mounted `TerminalView` does not look at a
new one). `pinTo` is the `serverId` that the effect of a ticket was created with,
and so the server its accepted key is saved for. `home`, `consent` and `approved`
record who opened a socket and what the user saw when accepting; `renamed` that
the page on the screen was turned into another server's, `misled` what was
accepted on such a page for one server and saved for another.

**Accounts.** A request is a program counter over its database statements; any
other request may run between two of them, and a request may die there (`Dies`).
Login and `changePassword` read a row, hash for some hundred milliseconds, and
then write. A password hash is abstracted to the password it accepts, the wrapped
data key to the password that opens it. Accounts are named for their
registrations, and session tokens for the requests that made them. The initial
state is an empty deployment, or one with accounts hashed under the older
iteration count. `user.disabled` is left out: nothing in the code sets it.

**Servers.** One row per creation request, since ids are never used again. A
terminal reads a whole row, has its name resolved, is shown a key, and may end
up pinning it with a `PATCH` of its own; edits and removals may come between any
two of these. What the terminal does inside is `SshSession`, of which only the
verdict on the key is kept. `host` stands for host and port, `secret` for
everything that belongs to the credential; which addresses are refused is the
constant `Blocked`. A patch sets a field, or leaves it (`Same`). `logins`,
`accepted` and `late` record what the user saved or typed, and which keys for
which host; `late` the pins that a browser saved for a host it had not seen.

## Runs

| Run | Distinct states | Checks |
|---|---|---|
| `session` | 72,862 | the credential, the ticket, teardown, how every terminal ends, and refinement of `Terminal` |
| `session_orphan` | | finding: a client that nobody closes |
| `packets` | 6,276 | IVs, framing, refinement of `PacketOrder`, an answer to every call |
| `channel` | 277,582 | flow control, order, wake-ups, close |
| `channel_overrun` | | finding: two writes spend one window |
| `transport` | 171,998 | no end without a cause, each request of the server answered once, nobody left waiting |
| `rate_limiter` | 33,274 | blocks, bursts, eviction, and refinement of `Limiter` |
| `gate` | 759,237 | how many guesses an account answers, and that its owner gets in |
| `accounts` | 3,686,067 | invites, roll-back, data key, sign-out |
| `servers` | 1,151,055 | where credentials go, whose key a pin is, the limit |
| `terminal` | 169,213 | consent, pins, sessions left behind, a page left waiting, sessions as `Terminal` promises |
| `terminal_mixed` | | finding: a key accepted for one server and pinned for another |

The type invariants of the modules are proved rather than run; further
invariants that are proved and not run (`HeldIsWatched`, `HandshakeEndsFirst`,
`SilentAfterGivingUp`, `NoLostWakeup`, `NothingAfterDestroy`, `ScoreKept`,
`AlarmPending`) are in the table of [Proofs](#proofs).

**session.** Two host keys, one possibly pinned; two accounts and two requests
race for the ticket. The delays are small but in the order of the code:
handshake 1 < alarm interval 2 < unclaimed 3 < prompt 4 < idle 5 < session 6
(20 s, 30 s, 60 s, 2 min, 10 min, 1 h in the code). Safety: the credential only
went to a pinned or accepted key (`CredentialGuarded`), one request was let in
(`OneTerminal`), a teardown is final (`TornDownIsOver`), and to the page a session is one `Terminal`
(`KeepsPromise`): once over, by an error, a teardown or a restart, no zombie, late
answer or second request brings it back. Liveness: `ParamsForgotten`,
`SessionEnds` (an open session is torn down, and one on its way to a shell stays
nowhere for ever, which is `MovesOn` of `Terminal`), `BrowserNotLeftWaiting`,
`SessionsCapped`.

Fairness: time passes, timers and alarms fire, events are delivered, closing a
socket returns, and a send on a dead connection returns. All of that is the
platform's. Nothing is assumed of user, server or restarts. `SessionsCapped` has one
exception, and names it: with a server that has stopped reading, `await
ssh.close()` in `teardown()` never returns, since CHANNEL_CLOSE queues behind
the frame the socket writer still holds, and `torndown` keeps every later alarm
from helping (`Stuck`). Nothing else lets a browser outlast the limits.

**packets.** One clear message, NEWKEYS, four encrypted ones, counter values
0..2 starting at 2: the counter wraps, and comes all the way round once. Each
payload is sent at most once, as a call. Fairness: a call whose turn it is begins,
and encryption ends. Nothing is assumed of the writer: with a server that does
not read it may keep a frame for ever, and the limits of the session do not end
that, since their teardown waits behind that very frame (`Stuck`).
`ServedInOrder` is the safety of the calls, and needs no fairness; `CallsAnswered`
says that the writer is the only one that can keep a caller waiting: every call
is answered, those queued at `destroy()` included, unless one frame stays in the
writer for ever.

**channel.** A paste of 4 bytes and a keystroke of 1, against a window of 3 and
chunks of 2: the paste needs two chunks and may have to wait for window in the
middle; credit is bounded by 3 (`MAX_CREDIT`, the only cap on counters). The
receive window is 3 with a refill at 1. One resize, requests of the server at
any time, a close. Fairness: the send chain as above, nothing of the writer (both
liveness properties except a run in which it never lets go of a frame, `Stuck`),
and strong fairness for reading what has arrived, since the stream is read in
order and requests in between cannot hold it up for ever. The second half of `WritesGoOn`
also assumes, in the formula, a server that grants window when it can.

**rate_limiter.** Two hits allowed in a window of 2; strikes of weight 1 and 2
against levels 2, 3, 4 with blocks of 2, 3, 4; decay 4, alarm slack 1. As in the
code the longest block is as long as the decay (24 h), and weights can skip a
level. `MAX_COUNT` and `MAX_STRIKES` bound the two counters above the highest
limit and level, beyond which nothing changes. Fairness: time passes and a due
alarm runs; it may run late. `Evicted` is about a key nobody calls any more
(`Stop`) whose last call was not cut short.

**transport.** Two lines before the version is given up (32 in the code), two
messages nobody asked for (a channel of its own among them), at any two of the
places where the RFCs allow them: enough for a request in every stage, and for
one that meets a notice or a second request. No cap on packets is needed, since
both sides follow the dialogue.
`EndsForCause` is that no such server, and no cut of its bytes, makes the client
give up. `AnsweredOnce` weighs what the server is owed against the requests in the
stream and the replies under way, so it fails as soon as a reader passes a request
over; that the reply then comes is part of `Settles`.
Fairness: the coroutines run, the stream delivers, the question is
answered or runs out, and the server hears and answers unless it waits for an
answer itself. Without that exception `Settles` would say nothing of
`declineGlobalRequest()`. The time limit may fire but is not relied on.

**gate.** The weights are those of a wrong password and of a 404
(2 each) and of a refusal (5), the threshold is 4 in place of 10, the budget of
logins 3 in place of 8: the second wrong password blocks and two that overlap go
one over. Two slots are two requests at once; guessers send four guesses, one more
than the bound, which is enough to block account and address, let both end, and
block again. Probes and reads are left to the theorem: a probe does to the
address what a guess does whose strike on the account has been forgotten, and a
read does nothing. `AccountBounded` is the bound of the comment in
`auth.ts:102-104` made precise: the guesses that fit under the threshold, and
those under way at once; once a block has ended, only the latter, since the
score stays at the threshold until it is forgotten or pardoned. `OwnerGetsIn` assumes
that requests go on, that windows and blocks end, and that the owner keeps
trying; it does not assume that a score is ever forgotten, and does not need it.
The run stops once the owner is in.

**terminal.** One server, or none saved (Quick connect), two host keys, two tickets,
two handlers that make calls, one reinstall: a session and its successor, by
reconnect, by forgetting the pin or by leaving and coming back, with a call in
flight across the change. Fairness: handlers run and messages arrive, tickets
expire, the handshake and the question have their limits (20 s, 120 s). A session
that is up has none in this model; `NoneStranded` rests on the page alone.
`Settles` needs no answer of the user: the service ends a question by itself.

**terminal_mixed.** To mix up two servers it takes both of them, three tickets (a
click for each and a reconnect) and three calls, which is the size of this
finding. With one server beside Quick connect `PinApproved` meets no key that
was accepted for the wrong server (`misled`), so `terminal` shows it without
its exception; with any number of servers, tickets and calls it is a theorem. A
state constraint (`MCOnePage`) and the symmetry of the servers shorten the
search.

**accounts.** Registration is closed, the interesting case: two registrations
for one invite and two addresses, two logins, a password change, a sign-out,
one request dying, one earlier account with an old iteration count or none.
Registrations and logins are symmetric. No liveness is claimed, so no fairness
is assumed; requests end, so deadlock is not checked. With the registration
open `Gated` is false and the registration is the same with `Redeem` left out.

**servers.** Two creations with room for one, a terminal that is opened again
and again, two hosts, credentials and keys, one allowed address and one
refused. A server may move together with its credential, so that a mixture
would show, or have a pin typed in. One terminal is enough for a stale read,
since edits and removals come from elsewhere; the proofs are for any number.
Servers and keys are symmetric. `LimitKept` speaks of histories in which no two
creations overlap, and `PinBelongs` of pins other than those a browser saved
late; [Findings](#findings) has what happens otherwise.

Deadlock is checked in `session` and `rate_limiter`, where time never stops, and
not in the others, where everything may have been said and done.

## Findings

Three runs end in a counterexample. Each shows the code doing something else
than a comment or a doc says, with a passing run beside it for what does hold.

1. `session_orphan`: "Both halves die together" (`src/session.ts:243`), but a
   browser that leaves during the handshake triggers a teardown that does not yet
   know the client; the client that `connect()` returns later is never closed.
   `AnsweringSpec` assumes a server that answers.
2. `channel_overrun`: `write()` promises to honour the server's window
   (`src/ssh/connection.ts:259`), but reads `remoteWindow` before an `await` and
   subtracts after it, and writes overlap. `WindowKept` holds while they do not.
3. `terminal_mixed`: on the first connection the fingerprint "must be confirmed
   explicitly" (`README.md:344`), but if Connect is clicked for two servers, a key
   accepted for the one may be pinned for the other: the answer to the second
   click changes the `serverId` of the mounted page, and a reconnect of the first
   is opened under it. `PinApproved` excepts just these (`misled`).

Further disagreements, for which no run is kept. The formula named is at the end
of its module, states the claim, and is violated on the instance of the passing
run within a few steps; the properties of that run are worded so as to say what
does hold.

- `FirstIsAdmin` (`Accounts`): "The first account created becomes the
  administrator" (`README.md:137`), but `register()` counts the accounts long
  before it inserts one (`src/api/auth.ts:52`), and two registrations may both
  count none.
- `OthersSignedOut` (`Accounts`): "Every other session was signed out"
  (`web/app/account/page.tsx:108`), but a login that verified the old password may
  create its session afterwards (`src/api/auth.ts:143`). `ChangeSignsOut` is about
  the sessions there were when the password was written.
- `PasswordStays` (`Accounts`): a login that "transparently" strengthens an old
  hash (`src/api/auth.ts:136-138`) writes back the password it verified, over a
  password change that came in between. `KeyOpens` holds all the same.
- `PinOfItsHost` (`Servers`): "Editing a server's host or port clears the pin"
  (`README.md:348`), but the browser saves an accepted key with a `PATCH` that
  names no host (`web/components/TerminalView.tsx:133`), which may come after such
  an edit. `PinBelongs` excepts such late pins.
- `LimitHeld` (`Servers`): "You can save at most ${MAX_SERVERS} servers"
  (`src/api/servers.ts:53`), but they are counted before the insert.
- `SessionsCapped` without `Stuck` (`SshSession`): "sessions are capped at one
  hour" (`README.md:379`), but a teardown may wait for ever (see **session** above).
- `askAboutHostKey` waits up to 120 s for an answer (`src/session.ts:174-188`)
  inside a handshake that is given up after 20 s (`src/ssh/connection.ts:103`);
  `HandshakeEndsFirst` is the theorem.
- The `close` event of the old socket sets the page to `closed` although the new
  session runs (`web/components/TerminalView.tsx:148`).

## Proofs

All proofs hold for every value of the constants that satisfies the named
assumptions in the modules: delays and windows are natural numbers in the
stated ranges, kinds of requests and payloads are disjoint, `None`-like values
are not members of what they stand beside. Each `*_proofs` module defines
`IndInv`, proves that `Init` implies it and that every step preserves it (one
lemma per conjunct, one step per action), and concludes.

| Module | Theorem | Property |
|---|---|---|
| `SshSession_proofs` | `TypeCorrect`, `CredentialSafe`, `SingleTerminal`, `AlwaysWatched`, `TeardownIsFinal`, `SilentAfterwards`, `HandshakeDecides`, `PromiseKept` | `TypeOK`, `CredentialGuarded`, `OneTerminal`, `HeldIsWatched`, `TornDownIsOver`, `SilentAfterGivingUp`, `HandshakeEndsFirst` if `HANDSHAKE_TIMEOUT < HOSTKEY_TIMEOUT`, `KeepsPromise` (refinement of `Terminal`) |
| `Packets_proofs` | `TypeCorrect`, `IVsNeverRepeat`, `ServerStaysInStep`, `DestroyIsFinal`, `KeepsPromise` | `TypeOK`, `IVsDistinct`, `ServerInStep`, `NothingAfterDestroy`, `ServedInOrder` (refinement of `PacketOrder`) |
| `SshChannel_proofs` | `TypeCorrect`, `WindowRespected`, `NoSleeper`, `InputDelivered`, `OutputConserved`, `CloseIsLast` | `TypeOK`, `WindowKept`, `NoLostWakeup`, `InputInOrder`, `OutputAccounted`, `NothingAfterChannelClose` |
| `Limits_proofs` | `TypeCorrect`, `BlocksStand`, `ScoreRemembered`, `AlwaysScheduled`, `SpansBounded`, `PromiseKept` | of `RateLimiter`: `TypeOK`, `BlockKept`, `ScoreKept`, `AlarmPending`, `SpanBounded`, `KeepsPromise` (refinement of `Limiter`) |
| | `GateTypeCorrect`, `GuessesBounded` | of `Gate`: `GateTypeOK`, `AccountBounded` |
| `Transport_proofs` | `TypeCorrect`, `EndsOnlyForCause`, `RequestsAnsweredOnce` | `TypeOK`, `EndsForCause`, `AnsweredOnce` |
| `Accounts_proofs` | `TypeCorrect`, `OneInviteEach`, `CleanRefusal`, `KeyNeverLost`, `SignsEveryoneOut` | `TypeOK`, `InviteHeld`, `RefusedLeavesNothing`, `KeyOpens`, `ChangeSignsOut` |
| `TerminalView_proofs` | `TypeCorrect`, `OwnConsent`, `PinsApproved`, `SessionsKept` | `TypeOK`, `ConsentIsOwn`, `PinApproved`, `SessionsAsPromised` (refinement of `Terminal`) |
| `Servers_proofs` | `TypeCorrect`, `CredentialsFit`, `PinsBelong`, `LimitHolds` | `TypeOK`, `CredentialFits`, `PinBelongs`, `LimitKept` |

Why the properties are not inductive alone:

- **SshSession.** `OneTerminal` needs that before anyone is let in nothing has
  started (`StartInv`); `CredentialGuarded` that a handshake about to send has a
  confirmed key and that no second handshake follows a zombie (`HandshakeInv`);
  `HeldIsWatched` and `TornDownIsOver` how `torndown`, `closing`, `conn` and
  `socket` go together (`TeardownInv`). `HandshakeEndsFirst` follows since the
  two timers count down together and the question's starts later and higher
  (`TimersInv`); with 20 s and 120 s this means that nobody ever has the two
  minutes. `PromiseKept` maps the flags to a phase (`Phase`); it needs that an
  active handshake is connect()'s own or a zombie's, and that no connection is
  made without parameters (`PhaseInv`), so that what a zombie does is a stutter
  and a restart is an end.
- **Packets.** Before the keys are installed calls do not overlap (`ChainInv`),
  which is what lets `enableGcm()` switch between two frames; the counter is the
  number of encryptions, and these run one frame ahead of the wire exactly
  while a frame is in the writer's hands (`CounterInv`). For `NothingAfterDestroy`
  a closed writer never opens again (`DestroyInv`).
- **SshChannel.** While writes do not overlap at most one is under way, its
  chunk is the only one queued and fits what is left of write and window, and it
  waits only while the window is zero (`SoleInv`). That is the interference
  argument for `WindowKept` and `NoLostWakeup`. `OutputInv` says that a refill
  under way is counted once. For `InputInOrder` the bytes must be followed from
  the caller to the server: writes begin in their order (`BeginInOrder`), and what
  is next to arrive is either the chunk on its way or, when none is, the first
  byte that the write under way has not sent (`Prompt`, with `Expected` for the
  byte after the last that arrived).
- **RateLimiter.** The stored record agrees with the history of strikes
  (`RecordInv`). `BlockKept` follows since a stale record has no block left.
  `PromiseKept` maps each call to the action of `Limiter` it counts as, and a
  tick or an alarm to `Lapse` or a stutter; it needs that a block never outlasts
  the decay of the score that brought it (`BlockInDecay`), which is where the
  assumption on `Levels` enters (24 h is the longest block and the decay). For
  `SpanBounded` the bound depends on how far back one looks (`SpanInv`): as far
  as the running window reaches, only its own hits count; further back, one
  window before it at most, since a span is shorter than two windows.
- **Gate.** `AccountInv` relates score and guesses: before the first
  block, each guess has left its weight in the score; after it, the score stays
  at the threshold, so that every strike blocks again; blocked, those answered and those already let
  through are within the budget. The count of slots let through is a
  cardinality, and changes by one with each step. The proof is for any addresses,
  slots, weights and mishaps, and needs no property of `ip:` and `login:`.
- **Transport.** While nothing has happened that may end a connection, the
  packets under way are consecutive: each has the counter and the place in the
  dialogue that the client will have come to when it reads it, so what is read is
  awaited, passed over or declined (`InStep`); and nothing has been destroyed or
  hung up (`Alive`). `AnsweredOnce` is inductive with these: that a request is
  declined and not passed over at the step it meets follows from its place in the
  dialogue. It counts packets in two queues, so it rests on what a count becomes
  when a queue grows at its end or loses its head (`CountAppend`, `CountTail`).
- **TerminalView.** `ConsentIsOwn` is about a socket, its two wires and a screen,
  while the code only looks at the screen. What makes it hold is that at most one
  socket is open or connecting, that of the ticket on the screen (`Windows`), that
  tickets are used once (`TicketsInv`), and that whatever speaks of a key between
  the two ends, a message under way, the question shown, an answer under way,
  speaks of the key of that session, in an order in which an `accept` can only
  follow the question (`KeyInv`, `Shows`); on a new ticket the screen starts
  afresh. `PinApproved` adds where pins travel: an accepted key comes from a
  session whose key was approved for the server its effect was created with, or
  was accepted on a page that had been turned into another server's (`PinInv`).
  The socket on the screen is for the server its effect was created with unless
  there was such a turn (`Aimed`), since until then the calls that a page has
  pending are for its own server (`CallsInv`). `Kinds` sorts the actions by what
  they do to one session (`SessionMove`, `PageMove`, `ServedMove`), so that the
  invariants are proved for these and not for each of thirty actions.
- **Accounts.** A registration has no row before it is inserted or once it is
  refused (`RegInv`), sessions refer to rows (`SessInv`), the sessions a password
  change saw belong to its account and to requests that have answered, so that
  none of them can appear again (`SignedInv`), and what a request writes it has
  read (`GivenInv`).
- **Servers.** Pins and credentials travel from row to terminal and back, so the
  invariant follows them: rows and targets go back to something saved or typed
  as a whole (`RowsLogged`, `TargetsLogged`), pins and the keys terminals trust
  to something accepted or late (`PinsTrusted`, `StagesKnow`). `LimitKept` needs
  that, short of a race, one creation has counted, and there was room
  (`RoomCounted`).

## What only TLC checks

- Liveness, in all modules: TLAPS does not reason about fairness here.
- The findings: counterexamples need no proof.

## What is not modelled

- Cryptography and parsing (`kex.ts`, `wire.ts`, `privatekey.ts`, `password.ts`,
  `dek.ts`): sequential, covered by unit tests; the models use their outcome.
  Padding and the checks of lengths in `packet.ts` likewise.
- The contents and wording of messages, HTTP parsing, headers, cookies.
- Audit rows, and sliding idle expiry of sign-in sessions beyond "a session may
  end at any time".
- Of saved servers: the label, the time of last use, and that every statement
  names its caller's account (the model has one account).
- Which addresses the guard refuses: a table of ranges, covered by unit tests.
- The limits of registration, of the password change and of `connect()`: one
  `hit()` each, before anything else.
- The web client beyond `TerminalView` and the buttons that lead to it: forms that
  make one call and show what the API answers. Of React only what the page
  relies on is modelled: state set by a component that is gone is ignored, and
  an effect has run before the next event.

## Plan

Written, in this order: `SshSession`, `PacketOrder` and `Packets`, `SshChannel`,
`RateLimiter`, `Accounts`, `Servers`, `TerminalView`, `Transport`, `Limiter` and
`Gate`, each with its runs and its proofs, and `Terminal` to join two of them.
Every safety property of the runs is a theorem. Next:

1. That what `SshChannel` uses of `Packets` is no more than `PacketOrder`
   promises, as a refinement.
