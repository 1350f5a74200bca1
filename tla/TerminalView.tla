---------------------------- MODULE TerminalView ----------------------------
(***************************************************************************)
(* The terminal page (src/web/components/TerminalView.tsx) together with   *)
(* what it talks to: the page before it, whose Connect button leads here   *)
(* (src/web/app/servers/page.tsx), POST /api/connect and PATCH             *)
(* /api/servers/<id> as calls that are answered later or not at all, and   *)
(* one SshSession per ticket at the far end of a WebSocket.                *)
(*                                                                         *)
(* Grain of atomicity.  A page runs one handler at a time up to its next   *)
(* `await'; a change of state is on the screen, and its effect has run,    *)
(* before the next event.  So a click, the answer to a call and a message  *)
(* are one step each.  A call is three: it is made, it is carried out at   *)
(* the service, its answer comes back; calls overlap and overtake each     *)
(* other.                                                                  *)
(*                                                                         *)
(* A key stands for its fingerprint.  Keystrokes, sizes and the terminal's *)
(* output are the business of SshChannel, the text of errors is left out.  *)
(***************************************************************************)
EXTENDS Integers, Sequences

CONSTANTS
    Servers,        \* saved servers
    Unsaved,        \* in place of a server: what Quick connect dials
    Keys,           \* host keys
    None,           \* no key
    MAX_SESSIONS,   \* bound of the model: tickets
    MAX_CALLS,      \* bound of the model: handlers that make calls
    MAX_REBUILDS    \* bound of the model: hosts reinstalled

Targets == Servers \cup {Unsaved}
Tickets == 1..MAX_SESSIONS
NoTicket == 0

ASSUME TargetsAssumption == Unsaved \notin Servers /\ None \notin Keys
ASSUME KeysAssumption == Keys # {}
ASSUME BoundsAssumption ==
    MAX_SESSIONS \in Nat \ {0} /\ MAX_CALLS \in Nat \ {0} /\ MAX_REBUILDS \in Nat

VARIABLES
    (* The service and the hosts.                                          *)
    pin,            \* the fingerprint stored with a server, or None
    hostKey,        \* what a host presents
    rebuilds,
    session,        \* of each ticket: what it is for and how far it has come
    pinning,        \* updates of a pin that nobody waits for
    (* The wires of a ticket's WebSocket.                                  *)
    toPage, toSession,
    (* The browser.                                                        *)
    calls,          \* handlers that wait for an answer
    socket,         \* of each ticket
    page,           \* how many terminal pages have been opened
    open,           \* the last of them is on the screen
    serverId,       \* its property, from the address bar
    pinTo,          \* the serverId that the effect of a ticket was created with
    activeTicket, status, pendingFingerprint, mismatch, reconnecting,
    (* History, for the properties only.                                   *)
    home,           \* the page that opened a ticket's socket
    consent,        \* the key on the screen when Accept was sent to a session
    approved,       \* <<server, key>> that were accepted, or pinned from the start
    renamed,        \* the page on the screen was turned into another server's
    misled          \* <<server, key>> accepted on such a page for another server

service == <<pin, hostKey, rebuilds, session, pinning>>
wires == <<toPage, toSession>>
shown == <<status, pendingFingerprint, mismatch>>
view == <<page, open, serverId, pinTo, activeTicket, shown, reconnecting>>
history == <<home, consent, approved, renamed, misled>>
vars == <<service, wires, calls, socket, view, history>>

-----------------------------------------------------------------------------
(* Messages of a session, and the end of its stream.                       *)
Say(type) == <<type, None>>
Status == {"connecting", "connected", "closed"}
Messages ==
    ({"hostkey", "hostkey-accepted", "hostkey-mismatch"} \X Keys) \cup
        {Say(type) : type \in Status \cup {"end"}}

(* What a session hears: the two answers, and that the page has gone.      *)
Heard == {"accept", "refuse", "bye"}

Phases == {"none", "provisioned", "checking", "asking", "going", "up", "over"}
Session == [target : Targets, pinned : Keys \cup {None}, key : Keys \cup {None}, phase : Phases]
Steps == {"free", "patch", "patched", "connect", "connected", "refused", "done"}
Call == [kind : {"open", "forget", "reconnect"}, target : Targets, step : Steps,
         ticket : Tickets \cup {NoTicket}, by : Nat]

TypeOK ==
    /\ pin \in [Servers -> Keys \cup {None}] /\ hostKey \in [Targets -> Keys]
    /\ rebuilds \in 0..MAX_REBUILDS
    /\ session \in [Tickets -> Session]
    /\ pinning \subseteq Servers \X Keys
    /\ toPage \in [Tickets -> Seq(Messages)]
    /\ toSession \in [Tickets -> Seq(Heard)]
    /\ calls \in [1..MAX_CALLS -> Call]
    /\ socket \in [Tickets -> {"none", "connecting", "open", "closing", "closed"}]
    /\ page \in Nat /\ open \in BOOLEAN
    /\ serverId \in Targets /\ pinTo \in [Tickets -> Targets]
    /\ activeTicket \in Tickets \cup {NoTicket}
    /\ status \in Status
    /\ pendingFingerprint \in Keys \cup {None} /\ mismatch \in Keys \cup {None}
    /\ reconnecting \in BOOLEAN
    /\ home \in [Tickets -> Nat]
    /\ consent \in [Tickets -> Keys \cup {None}]
    /\ approved \subseteq Targets \X Keys /\ misled \subseteq Targets \X Keys
    /\ renamed \in BOOLEAN
    (* Nothing is asked, or warned of, where there is no page.             *)
    /\ open \/ (pendingFingerprint = None /\ mismatch = None)

NoCall(step) == [kind |-> "open", target |-> Unsaved, step |-> step, ticket |-> NoTicket, by |-> 0]

Init ==
    /\ hostKey = [s \in Targets |-> CHOOSE k \in Keys : TRUE]
    /\ pin \in [Servers -> Keys \cup {None}]
    /\ \A s \in Servers : pin[s] \in {None, hostKey[s]}
    /\ rebuilds = 0 /\ pinning = {}
    /\ session = [t \in Tickets |->
          [target |-> Unsaved, pinned |-> None, key |-> None, phase |-> "none"]]
    /\ toPage = [t \in Tickets |-> <<>>] /\ toSession = [t \in Tickets |-> <<>>]
    /\ calls = [c \in 1..MAX_CALLS |-> NoCall("free")]
    /\ socket = [t \in Tickets |-> "none"]
    /\ page = 0 /\ open = FALSE /\ serverId = Unsaved
    /\ pinTo = [t \in Tickets |-> Unsaved]
    /\ activeTicket = NoTicket /\ status = "connecting"
    /\ pendingFingerprint = None /\ mismatch = None /\ reconnecting = FALSE
    /\ home = [t \in Tickets |-> 0] /\ consent = [t \in Tickets |-> None]
    /\ approved = {<<s, hostKey[s]>> : s \in {s \in Servers : pin[s] # None}}
    /\ renamed = FALSE /\ misled = {}

-----------------------------------------------------------------------------
(* The hosts and the sessions.                                             *)

(* A host is reinstalled: it presents another key.                         *)
Rebuild(s) ==
    /\ rebuilds < MAX_REBUILDS
    /\ rebuilds' = rebuilds + 1
    /\ \E k \in Keys \ {hostKey[s]} : hostKey' = [hostKey EXCEPT ![s] = k]
    /\ UNCHANGED <<pin, session, pinning, wires, calls, socket, view, history>>

Moves(t, phase) == session' = [session EXCEPT ![t].phase = phase]

(* What is sent to a page that has closed the socket is never delivered,   *)
(* and neither is what is said to a session that is over.                  *)
Listens(t) == socket[t] \in {"connecting", "open"}
Sends(t, messages) ==
    toPage' = IF Listens(t) THEN [toPage EXCEPT ![t] = @ \o messages] ELSE toPage
Hears(t, what) ==
    toSession' = IF session[t].phase = "over" THEN toSession
                 ELSE [toSession EXCEPT ![t] = Append(@, what)]

(* teardown(): the state `closed', then the end of the WebSocket.          *)
Ends(t, messages) ==
    /\ Moves(t, "over")
    /\ Sends(t, messages \o <<Say("closed"), Say("end")>>)
    /\ toSession' = [toSession EXCEPT ![t] = <<>>]

SessionStep == UNCHANGED <<pin, hostKey, rebuilds, pinning, calls, socket, view, history>>

(* The ticket was not used within its minute.                              *)
Expires(t) ==
    /\ session[t].phase = "provisioned"
    /\ Moves(t, "over")
    /\ toSession' = [toSession EXCEPT ![t] = <<>>]
    /\ UNCHANGED toPage /\ SessionStep

(* claim() and fetch(): the ticket is good, the host is dialled.           *)
Claimed(t) ==
    /\ socket[t] \in {"connecting", "closing"} /\ session[t].phase = "provisioned"
    /\ session' = [session EXCEPT ![t].phase = "checking", ![t].key = hostKey[session[t].target]]
    /\ Sends(t, <<Say("connecting")>>)
    /\ UNCHANGED toSession /\ SessionStep

(* handshake(): a pinned key must match, another is put to the user.       *)
ChecksKey(t) ==
    /\ session[t].phase = "checking"
    /\ LET key == session[t].key
       IN  IF session[t].pinned = None
           THEN Moves(t, "asking") /\ Sends(t, <<<<"hostkey", key>>>>) /\ UNCHANGED toSession
           ELSE IF session[t].pinned = key
           THEN Moves(t, "going") /\ UNCHANGED wires
           ELSE Ends(t, <<<<"hostkey-mismatch", key>>>>)
    /\ SessionStep

(* onMessage(): the answer decides, unless nothing is asked (any more).    *)
Answered(t) ==
    /\ toSession[t] # <<>> /\ session[t].phase # "provisioned"
    /\ LET heard == Head(toSession[t])
           asked == session[t].phase = "asking"
       IN  IF heard = "bye" \/ (heard = "refuse" /\ asked)
           THEN Ends(t, <<>>)
           ELSE /\ IF heard = "accept" /\ asked THEN Moves(t, "going") ELSE UNCHANGED session
                /\ toSession' = [toSession EXCEPT ![t] = Tail(@)]
                /\ UNCHANGED toPage
    /\ SessionStep

(* startSsh(), once the shell is there.                                    *)
GoesUp(t) ==
    /\ session[t].phase = "going"
    /\ Moves(t, "up")
    /\ Sends(t, IF session[t].pinned = None
                THEN <<<<"hostkey-accepted", session[t].key>>, Say("connected")>>
                ELSE <<Say("connected")>>)
    /\ UNCHANGED toSession /\ SessionStep

(* The connection fails, the question goes unanswered, the server hangs    *)
(* up, the user logs out of the shell, a limit is reached.                 *)
Over(t) ==
    /\ session[t].phase \in {"checking", "asking", "going", "up"}
    /\ Ends(t, <<>>)
    /\ SessionStep

(* PATCH /api/servers/<id> for a key that was accepted; or it is lost.     *)
Pinned(s, k) ==
    /\ <<s, k>> \in pinning
    /\ pinning' = pinning \ {<<s, k>>}
    /\ \/ pin' = [pin EXCEPT ![s] = k]
       \/ UNCHANGED pin
    /\ UNCHANGED <<hostKey, rebuilds, session, wires, calls, socket, view, history>>

-----------------------------------------------------------------------------
(* The calls of the page, as the service carries them out.                 *)
Free == {c \in 1..MAX_CALLS : calls[c].step = "free"}

(* Fault: the object of a session that is over is configured again.        *)
UnusedOrOver == {t \in Tickets : session[t].phase \in {"none", "over"}}

Unused == {t \in Tickets : session[t].phase = "none"}
Lowest(S) == CHOOSE x \in S : \A y \in S : x <= y

Makes(kind, target, step) ==
    /\ Free # {}
    /\ calls' = [calls EXCEPT ![Lowest(Free)] = [kind |-> kind, target |-> target,
           step |-> step, ticket |-> NoTicket, by |-> page]]

Goes(c, step) == calls' = [calls EXCEPT ![c].step = step]

Returns(c) == calls' = [calls EXCEPT ![c] = NoCall("done")]

(* Fault: the key that did not match is saved on the way through.          *)
PatchSaves(c) ==
    /\ calls[c].step = "patch"
    /\ \/ /\ pin' = [pin EXCEPT ![calls[c].target] = mismatch]
          /\ Goes(c, "patched") \/ Returns(c)
       \/ Returns(c) /\ UNCHANGED pin
    /\ UNCHANGED <<hostKey, rebuilds, session, pinning, wires, socket, view, history>>

(* PATCH /api/servers/<id>, to forget the pin.  It may fail instead,       *)
(* before the row was updated or after: the page then shows an error and   *)
(* goes no further.                                                        *)
PatchServed(c) ==
    /\ calls[c].step = "patch"
    /\ \/ /\ pin' = [pin EXCEPT ![calls[c].target] = None]
          /\ Goes(c, "patched") \/ Returns(c)
       \/ Returns(c) /\ UNCHANGED pin
    /\ UNCHANGED <<hostKey, rebuilds, session, pinning, wires, socket, view, history>>

(* POST /api/connect: a session is provisioned with the pin as it stands,  *)
(* and the page gets its ticket unless the answer is lost; or the call is  *)
(* refused.                                                                *)
ConnectServed(c) ==
    LET target == calls[c].target
        pinned == IF target = Unsaved THEN None ELSE pin[target]
        ticket == Lowest(Unused)
    IN  /\ calls[c].step = "connect"
        /\ \/ /\ Unused # {}
              /\ session' = [session EXCEPT ![ticket] = [target |-> target, pinned |-> pinned,
                     key |-> None, phase |-> "provisioned"]]
              /\ \/ calls' = [calls EXCEPT ![c].step = "connected", ![c].ticket = ticket]
                 \/ Goes(c, "refused")
           \/ Goes(c, "refused") /\ UNCHANGED session
        /\ UNCHANGED <<pin, hostKey, rebuilds, pinning, wires, socket, view, history>>

-----------------------------------------------------------------------------
(* The browser.                                                            *)

(* Fault: nothing is closed, the next effect just opens another.           *)
HangsNever(t) == FALSE

(* Cleanup: socket.close(), which the far end hears of sooner or later.    *)
Hangs(t) == t = activeTicket /\ Listens(t)
Hung == [t \in Tickets |-> IF Hangs(t) THEN "closing" ELSE socket[t]]
Cleanup ==
    /\ toPage' = [t \in Tickets |-> IF Hangs(t) THEN <<>> ELSE toPage[t]]
    /\ IF \E t \in Tickets : Hangs(t) THEN Hears(activeTicket, "bye") ELSE UNCHANGED toSession

(* Fault: a question stays on the screen when its session has gone.        *)
AfreshButAsking == status' = "connecting" /\ mismatch' = None /\ UNCHANGED pendingFingerprint

(* What the effect of a new ticket starts from.                            *)
Afresh == status' = "connecting" /\ pendingFingerprint' = None /\ mismatch' = None

(* The effect: the old session is torn down, the new one's ticket is used. *)
Effect(ticket, server, number) ==
    /\ activeTicket' = ticket
    /\ socket' = [Hung EXCEPT ![ticket] = "connecting"]
    /\ Cleanup
    /\ Afresh
    /\ pinTo' = [pinTo EXCEPT ![ticket] = server]
    /\ home' = [home EXCEPT ![ticket] = number]
    /\ UNCHANGED <<service, consent, approved, misled>>

(* Connect, or Quick connect, on the page before.  Neither button waits    *)
(* for the answer to a click before it.                                    *)
ConnectClicked(target) ==
    /\ ~open
    /\ Makes("open", target, "connect")
    /\ UNCHANGED <<service, wires, socket, view, history>>

(* Its answer: router.push().  A terminal page that is there already is    *)
(* kept, only its properties change, and it does not look at the ticket.   *)
Opened(c) ==
    /\ calls[c].kind = "open" /\ calls[c].step = "connected"
    /\ Returns(c)
    /\ serverId' = calls[c].target
    /\ renamed' = (open /\ (renamed \/ calls[c].target # serverId))
    /\ IF open
       THEN UNCHANGED <<service, wires, socket, page, open, pinTo, activeTicket, shown,
                        reconnecting, home, consent, approved, misled>>
       ELSE /\ page' = page + 1 /\ open' = TRUE /\ reconnecting' = FALSE
            /\ Effect(calls[c].ticket, calls[c].target, page + 1)

(* The user goes elsewhere.                                                *)
Leaves ==
    /\ open
    /\ open' = FALSE /\ serverId' = Unsaved /\ activeTicket' = NoTicket
    /\ socket' = Hung /\ Cleanup
    /\ Afresh /\ reconnecting' = FALSE
    /\ UNCHANGED <<service, calls, page, pinTo, history>>

(* forgetHostKey(), under a mismatch.                                      *)
ForgetClicked ==
    /\ open /\ mismatch # None /\ serverId \in Servers
    /\ Makes("forget", serverId, "patch")
    /\ UNCHANGED <<service, wires, socket, view, history>>

(* reconnect(), once the session has ended.                                *)
ReconnectClicked ==
    /\ open /\ status = "closed" /\ serverId \in Servers /\ ~reconnecting
    /\ Makes("reconnect", serverId, "connect")
    /\ reconnecting' = TRUE
    /\ UNCHANGED <<service, wires, socket, page, open, serverId, pinTo, activeTicket, shown, history>>

(* A page that has gone takes no notice of what its handlers set.          *)
Heeded(c) == open /\ calls[c].by = page

(* forgetHostKey() goes on to reconnect().                                 *)
Forgotten(c) ==
    /\ calls[c].step = "patched"
    /\ Goes(c, "connect")
    /\ IF Heeded(c) THEN mismatch' = None /\ reconnecting' = TRUE
       ELSE UNCHANGED <<mismatch, reconnecting>>
    /\ UNCHANGED <<service, wires, socket, page, open, serverId, pinTo, activeTicket, status,
                   pendingFingerprint, history>>

(* reconnect() has a new ticket.                                           *)
Reconnected(c) ==
    /\ calls[c].kind # "open" /\ calls[c].step = "connected"
    /\ Returns(c)
    /\ UNCHANGED <<page, open, serverId, renamed>>
    /\ IF Heeded(c)
       THEN reconnecting' = FALSE /\ Effect(calls[c].ticket, serverId, page)
       ELSE UNCHANGED <<service, wires, socket, pinTo, activeTicket, shown, reconnecting, history>>

(* /api/connect has refused: an error is shown.                            *)
Refused(c) ==
    /\ calls[c].step = "refused"
    /\ Returns(c)
    /\ reconnecting' = IF calls[c].kind # "open" /\ Heeded(c) THEN FALSE ELSE reconnecting
    /\ UNCHANGED <<service, wires, socket, page, open, serverId, pinTo, activeTicket, shown, history>>

-----------------------------------------------------------------------------
(* The WebSocket.                                                          *)
Mine(t) == open /\ home[t] = page

SocketStep == UNCHANGED <<pin, hostKey, rebuilds, session, calls, page, open, serverId, pinTo,
                          activeTicket, reconnecting>>

(* The upgrade was accepted.                                               *)
Opens(t) ==
    /\ socket[t] = "connecting" /\ toPage[t] # <<>>
    /\ socket' = [socket EXCEPT ![t] = "open"]
    /\ UNCHANGED <<pinning, wires, shown, history>> /\ SocketStep

(* Fault: nothing listens for the end of a socket.                         *)
ClosesSilently(t) ==
    /\ socket' = [socket EXCEPT ![t] = "closed"]
    /\ toPage' = [toPage EXCEPT ![t] = <<>>]
    /\ UNCHANGED <<pinning, shown, history>> /\ SocketStep

(* The listeners for `close' and `error', which outlive the effect.        *)
Closes(t) ==
    /\ socket' = [socket EXCEPT ![t] = "closed"]
    /\ toPage' = [toPage EXCEPT ![t] = <<>>]
    /\ status' = IF Mine(t) THEN "closed" ELSE status
    /\ UNCHANGED <<pinning, pendingFingerprint, mismatch, history>> /\ SocketStep

(* ... at the end of a stream that either side has closed,                 *)
Closed(t) == socket[t] = "closing" /\ Closes(t) /\ UNCHANGED toSession

(* ... when the upgrade is refused for want of a good ticket,              *)
UpgradeRefused(t) ==
    /\ socket[t] = "connecting" /\ session[t].phase = "over" /\ toPage[t] = <<>>
    /\ Closes(t) /\ UNCHANGED toSession

(* ... or when the connection breaks.                                      *)
Breaks(t) ==
    /\ Listens(t)
    /\ Closes(t) /\ Hears(t, "bye")

(* The listener for `message'.  A socket that is being closed delivers no  *)
(* more of them.                                                           *)
Receives(t) ==
    /\ socket[t] = "open" /\ toPage[t] # <<>>
    /\ toPage' = [toPage EXCEPT ![t] = Tail(@)]
    /\ LET type == Head(toPage[t])[1]
           key  == Head(toPage[t])[2]
       IN  /\ socket' = IF type = "end" THEN [socket EXCEPT ![t] = "closing"] ELSE socket
           /\ status' = IF type \in Status THEN type ELSE status
           /\ pendingFingerprint' = IF type = "hostkey" THEN key ELSE pendingFingerprint
           /\ mismatch' = IF type = "hostkey-mismatch" THEN key ELSE mismatch
           /\ pinning' = IF type = "hostkey-accepted" /\ pinTo[t] \in Servers
                         THEN pinning \cup {<<pinTo[t], key>>} ELSE pinning
    /\ UNCHANGED <<toSession, history>> /\ SocketStep

(* History: whose key it was that the user judged.                         *)
Judged(t, k) ==
    /\ approved' = approved \cup {<<session[t].target, k>>}
    /\ misled' = IF renamed /\ pinTo[t] # session[t].target
                 THEN misled \cup {<<pinTo[t], k>>} ELSE misled

(* answerHostKey(), under the question: to the socket there is now.        *)
Answers(answer) ==
    /\ open /\ pendingFingerprint # None
    /\ pendingFingerprint' = None
    /\ IF socket[activeTicket] = "open"
       THEN /\ Hears(activeTicket, answer)
            /\ consent' = IF answer = "accept" THEN [consent EXCEPT ![activeTicket] = pendingFingerprint]
                          ELSE consent
            /\ IF answer = "accept" THEN Judged(activeTicket, pendingFingerprint)
               ELSE UNCHANGED <<approved, misled>>
       ELSE UNCHANGED <<toSession, consent, approved, misled>>
    /\ UNCHANGED <<pinning, toPage, socket, status, mismatch, home, renamed>> /\ SocketStep

-----------------------------------------------------------------------------
Next ==
    \/ \E s \in Targets : Rebuild(s) \/ ConnectClicked(s)
    \/ \E t \in Tickets :
          \/ Expires(t) \/ Claimed(t) \/ ChecksKey(t) \/ Answered(t) \/ GoesUp(t) \/ Over(t)
          \/ Opens(t) \/ Closed(t) \/ UpgradeRefused(t) \/ Breaks(t) \/ Receives(t)
    \/ \E s \in Servers, k \in Keys : Pinned(s, k)
    \/ \E c \in 1..MAX_CALLS :
          \/ PatchServed(c) \/ ConnectServed(c)
          \/ Opened(c) \/ Forgotten(c) \/ Reconnected(c) \/ Refused(c)
    \/ Leaves \/ ForgetClicked \/ ReconnectClicked
    \/ \E answer \in {"accept", "refuse"} : Answers(answer)

Spec == Init /\ [][Next]_vars

(* Handlers run and messages arrive; a ticket expires, a handshake and a   *)
(* question have their time limits.  A terminal that is up has none here:  *)
(* it lasts until one of its ends lets go.                                 *)
Fairness ==
    /\ \A t \in Tickets :
          /\ WF_vars(\/ Claimed(t) \/ Expires(t) \/ ChecksKey(t)
                     \/ session[t].phase # "up" /\ (GoesUp(t) \/ Over(t)))
          /\ WF_vars(Answered(t)) /\ WF_vars(Receives(t))
          /\ WF_vars(Opens(t) \/ Closed(t) \/ UpgradeRefused(t))

FairSpec == Spec /\ Fairness

-----------------------------------------------------------------------------
(* A session goes on with a key that was not pinned only if the user, with *)
(* that very key on the screen, accepted it: no answer to a question of an *)
(* earlier session is taken for this one's.                                *)
ConsentIsOwn ==
    \A t \in Tickets :
        session[t].phase \in {"going", "up"} /\ session[t].pinned = None =>
            consent[t] = session[t].key

(* What is pinned for a server is a key that the user accepted for that    *)
(* server; the one exception is a page that the late answer to a second    *)
(* click on Connect has turned into another server's, where a key accepted *)
(* for the first is pinned for the second.  In particular a key that did   *)
(* not match is not saved on the way through forgetHostKey().              *)
PinApproved == \A s \in Servers : pin[s] # None => <<s, pin[s]>> \in approved \cup misled

(* What is shown of a session's key, once there is something to decide.    *)
Presented(t) == IF session[t].phase \in {"asking", "going", "up"} THEN session[t].key ELSE None

Promise(t) == INSTANCE Terminal WITH
    phase <- session[t].phase, pinned <- session[t].pinned, key <- Presented(t)

(* Every session here is a terminal as SshSession promises one.            *)
SessionsAsPromised ==
    /\ \A t \in Tickets : Promise(t)!Init
    /\ [][\A t \in Tickets : Promise(t)!Next \/ UNCHANGED Promise(t)!vars]_session

(* No session outlives the page that showed it, nor the one that took its  *)
(* place there ("leaving it open would strand a live SSH session").        *)
Live(t) == session[t].phase \in {"checking", "asking", "going", "up"}
NoneStranded ==
    \A t \in Tickets : (Live(t) /\ ~(open /\ activeTicket = t)) ~> ~Live(t)

(* The page does not go on saying `connecting' for ever.                   *)
Settles == (open /\ status = "connecting") ~> (~open \/ status # "connecting")

-----------------------------------------------------------------------------
(* A claim of the repository that the code does not keep.                  *)

(* "A saved server pins its host key fingerprint. On the first connection  *)
(* the fingerprint is shown in the browser and must be confirmed           *)
(* explicitly" (README.md:344): PinApproved without its exception.         *)
PinConfirmed == \A s \in Servers : pin[s] # None => <<s, pin[s]>> \in approved
=============================================================================
