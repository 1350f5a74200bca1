----------------------------- MODULE Transport ------------------------------
(***************************************************************************)
(* The way to a shell as a dialogue: SshClient.connect(), handshake(),     *)
(* authenticate(), openShell() and the pump (src/src/ssh/connection.ts) on *)
(* one side, an SSH server on the other, and between them a TCP connection *)
(* that delivers a byte stream in pieces (src/src/ssh/stream.ts), read     *)
(* packet by packet, in the clear up to NEWKEYS and sealed from then on    *)
(* (src/src/ssh/packet.ts).                                                *)
(*                                                                         *)
(* The client says one thing and waits for its answer, nine times over     *)
(* (Dialogue); while it waits, the server may say other things.  The       *)
(* server keeps to the RFCs: no packet before its NEWKEYS is sealed, every *)
(* one after it is, and what is no part of the key exchange waits for the  *)
(* end of it.  It may hold back its answers for as long as a request of    *)
(* its own is unanswered, and it may refuse or hang up at any time.  Two   *)
(* things that the RFCs allow it end the connection here: keys exchanged   *)
(* anew, and a channel of its own before the shell is there.               *)
(*                                                                         *)
(* The bytes of a packet come in two pieces, the length that is read first *)
(* and the rest.  Sends are one at a time here; what becomes of those that *)
(* overlap is the subject of Packets, and of the windows of SshChannel.    *)
(***************************************************************************)
EXTENDS Integers, Sequences, FiniteSets

CONSTANTS
    MAX_LINES,  \* connection.ts:366: lines read in search of the server's version
    MAX_ASIDES  \* bound of the model: what the server says that was not asked for

ASSUME LinesAssumption == MAX_LINES \in Nat \ {0} /\ MAX_ASIDES \in Nat

(* What the client says and what it waits for.                             *)
Dialogue == <<
    [say |-> "version",         want |-> "version"],
    [say |-> "kexinit",         want |-> "kexinit"],
    [say |-> "ecdh-init",       want |-> "ecdh-reply"],
    [say |-> "newkeys",         want |-> "newkeys"],
    [say |-> "service-request", want |-> "service-accept"],
    [say |-> "userauth",        want |-> "userauth-success"],
    [say |-> "channel-open",    want |-> "channel-confirmation"],
    [say |-> "pty-req",         want |-> "channel-success"],
    [say |-> "shell",           want |-> "channel-success"]>>

KeyExchange == 3    \* the step whose answer holds the host key
Keys == 4           \* the step that ends with the keys installed
Auth == 6           \* the last step of handshake(), under its time limit
Channel == 7        \* the first step of openShell()
Pump == 10          \* beyond the dialogue: the session runs

VARIABLES
    (* The client.                                                         *)
    step,       \* of the dialogue
    doing,      \* what connect() and the coroutines it started wait for
    outcome,    \* what the caller of connect() has been told
    gcmIn,      \* the counter of the next packet once the keys are there
    lengthRead, \* the first piece of a packet has been read
    lines,      \* read in search of the version
    destroyed,  \* packets.destroy() has run
    (* The connection.                                                     *)
    s2c,        \* packets sent and not read, oldest first
    arrived,    \* pieces of them that have been delivered
    hungUp,     \* nothing follows them
    c2s,        \* what the server has not heard yet
    (* The server.                                                         *)
    heard,      \* steps of the client it has heard
    answered,   \* ... and answered
    gcmOut,     \* the counter of its next packet once it has sent NEWKEYS
    owed,       \* answers to its own requests it waits for
    asides,     \* how often it has spoken unasked
    (* History, for the properties only.                                   *)
    causes,     \* what has happened that may end a connection
    stray       \* the server got an answer to nothing

client == <<step, doing, outcome, gcmIn, lengthRead, lines, destroyed>>
server == <<heard, answered, gcmOut, owed, asides>>
wires == <<s2c, arrived, hungUp, c2s>>
vars == <<client, server, wires, causes, stray>>

Clear == -1     \* in place of a counter

Asides == {"line", "noise", "notice", "request", "banner", "channel-open", "channel",
           "channel-request"}
Ends == {"disconnect", "refusal", "close", "rekey"}
Types == {Dialogue[i].want : i \in 1..9} \cup Asides \cup Ends

(* A packet, and how many answers went before it, for the proofs only.     *)
Packet == [type : Types, iv : {Clear} \cup Nat, at : 0..9]

TypeOK ==
    /\ step \in 1..Pump
    /\ doing \in {"saying", "reading", "asking", "installing", "done"}
    /\ outcome \in {"pending", "ready", "failed", "over"}
    /\ gcmIn \in {Clear} \cup Nat /\ lengthRead \in BOOLEAN /\ lines \in Nat
    /\ destroyed \in BOOLEAN
    /\ s2c \in Seq(Packet) /\ arrived \in Nat /\ hungUp \in BOOLEAN
    /\ c2s \in Seq({Dialogue[i].say : i \in 1..9} \cup {"failure"})
    /\ heard \in Nat /\ answered \in 0..9 /\ gcmOut \in {Clear} \cup Nat
    /\ owed \in Nat /\ asides \in 0..MAX_ASIDES
    /\ causes \subseteq {"server", "user", "timeout"} /\ stray \in BOOLEAN

Init ==
    /\ step = 1 /\ doing = "saying" /\ outcome = "pending"
    /\ gcmIn = Clear /\ lengthRead = FALSE /\ lines = 0 /\ destroyed = FALSE
    /\ s2c = <<>> /\ arrived = 0 /\ hungUp = FALSE /\ c2s = <<>>
    /\ heard = 0 /\ answered = 0 /\ gcmOut = Clear /\ owed = 0 /\ asides = 0
    /\ causes = {} /\ stray = FALSE

-----------------------------------------------------------------------------
(* The server, which is not this program's.                                *)
Following(iv) == IF iv = Clear THEN Clear ELSE iv + 1

Puts(type) ==
    /\ ~hungUp
    /\ s2c' = Append(s2c, [type |-> type, iv |-> gcmOut, at |-> answered])
    /\ UNCHANGED <<arrived, hungUp, c2s>>

(* It hears the client's next message.                                     *)
ServerHears ==
    /\ c2s # <<>>
    /\ c2s' = Tail(c2s)
    /\ IF Head(c2s) = "failure"
       THEN /\ owed' = IF owed > 0 THEN owed - 1 ELSE owed
            /\ stray' = (stray \/ owed = 0)
            /\ UNCHANGED heard
       ELSE heard' = heard + 1 /\ UNCHANGED <<owed, stray>>
    /\ UNCHANGED <<client, answered, gcmOut, asides, s2c, arrived, hungUp, causes>>

(* Its own version and KEXINIT wait for nothing, its NEWKEYS for nothing   *)
(* but its reply, the rest for the client.                                 *)
MayAnswer == answered < 9 /\ (answered + 1 \in {1, 2, 4} \/ heard > answered)

ServerAnswers ==
    /\ MayAnswer
    /\ Puts(Dialogue[answered + 1].want)
    /\ answered' = answered + 1
    /\ gcmOut' = IF answered + 1 = Keys THEN 0 ELSE Following(gcmOut)
    /\ UNCHANGED <<client, heard, owed, asides, causes, stray>>

(* What it may say unasked, and from when on.                              *)
MayAside(type, after) ==
    \/ type = "line" /\ after = 0
    \/ type = "noise" /\ after > 0
    \/ type \in {"notice", "request"} /\ after >= Keys
    \/ type = "banner" /\ after = Auth - 1
    \/ type = "channel-open" /\ after >= Auth
    \/ type \in {"channel", "channel-request"} /\ after >= Channel

(* A channel that it opens itself is never answered: the pump passes it    *)
(* over, but expect() before it throws.                                    *)
Early(type, after) == type = "channel-open" /\ after < Pump - 1

ServerAside(type) ==
    /\ asides < MAX_ASIDES /\ MayAside(type, answered)
    /\ Puts(type)
    /\ asides' = asides + 1
    /\ gcmOut' = Following(gcmOut)
    /\ owed' = IF type \in {"request", "channel-request"} THEN owed + 1 ELSE owed
    /\ causes' = IF Early(type, answered) THEN causes \cup {"server"} ELSE causes
    /\ UNCHANGED <<client, heard, answered, stray>>

(* What it may say to end it: and then it hangs up.  To exchange keys anew *)
(* is one of them, as nothing but the exchange may follow.                 *)
MayEnd(type) ==
    \/ type = "disconnect" /\ answered > 0
    \/ type = "refusal" /\ answered \in (Auth - 1)..8 /\ MayAnswer
    \/ type = "close" /\ answered >= Channel
    \/ type = "rekey" /\ answered >= Keys

ServerEnds(type) ==
    /\ ~hungUp /\ MayEnd(type)
    /\ s2c' = Append(s2c, [type |-> type, iv |-> gcmOut, at |-> answered])
    /\ hungUp' = TRUE
    /\ causes' = causes \cup {"server"}
    /\ UNCHANGED <<client, server, arrived, c2s, stray>>

(* The connection is lost; what is under way may still arrive.             *)
HangsUp ==
    /\ ~hungUp
    /\ hungUp' = TRUE
    /\ causes' = causes \cup {"server"}
    /\ UNCHANGED <<client, server, s2c, arrived, c2s, stray>>

-----------------------------------------------------------------------------
(* The TCP stream, and how the client reads it.                            *)
InFlight == 2 * Len(s2c) - (IF lengthRead THEN 1 ELSE 0) - arrived

Arrives ==
    /\ InFlight > 0
    /\ arrived' = arrived + 1
    /\ UNCHANGED <<client, server, s2c, hungUp, c2s, causes, stray>>

(* readExact(), for the length; it may wait in the middle of a packet.     *)
ReadsLength ==
    /\ doing = "reading" /\ ~lengthRead /\ arrived > 0
    /\ lengthRead' = TRUE /\ arrived' = arrived - 1
    /\ UNCHANGED <<step, doing, outcome, gcmIn, lines, destroyed, server, s2c, hungUp, c2s,
                   causes, stray>>

(* The coroutine throws.  connect() destroys what there is and tells its   *)
(* caller, unless it has given up on the coroutine before; the pump ends   *)
(* the session.                                                            *)
Told == CASE outcome = "pending" -> "failed" [] outcome = "ready" -> "over" [] OTHER -> outcome

Throws ==
    /\ doing' = "done" /\ outcome' = Told /\ destroyed' = TRUE
    /\ UNCHANGED <<step, c2s>>

(* An answer that was waited for, and what comes next.                     *)
Advances ==
    /\ step' = step + 1
    /\ doing' = CASE step = KeyExchange -> "asking"
                  [] step = Keys -> "installing"
                  [] step = Pump - 1 -> "reading"
                  [] OTHER -> "saying"
    /\ outcome' = IF step = Pump - 1 /\ outcome = "pending" THEN "ready" ELSE outcome
    /\ UNCHANGED <<c2s, destroyed>>

(* declineGlobalRequest(), and dispatch() for a request on the channel.    *)
Declines(type) ==
    \/ type = "request" /\ step > 1
    \/ type = "channel-request" /\ step >= Channel

(* Fault: nothing but noise may come before the answer.                    *)
PassesNoiseOnly(type) ==
    IF step = 1 THEN type = "line" /\ lines + 1 < MAX_LINES ELSE type = "noise" \/ step = Pump

(* What is passed over, or only moves a window: by readLine()'s caller,    *)
(* expectDuringHandshake(), authenticate(), expect(), and the pump.        *)
Passes(type) ==
    IF step = 1 THEN type = "line" /\ lines + 1 < MAX_LINES
    ELSE \/ type \in {"noise", "notice"}
         \/ type = "banner" /\ step = Auth
         \/ type = "channel" /\ step >= Channel
         \/ type \notin Ends /\ step = Pump

(* Fault: requests are passed over like noise, at every stage ...          *)
RepliesNever(type) == FALSE

(* Fault: ... or by every reader but dispatch().                           *)
RepliesOnceOpen(type) == Declines(type) /\ step >= Channel

(* The reply to a request that wants one.                                  *)
Replies(type) == Declines(type)

Takes(type) ==
    IF step < Pump /\ type = Dialogue[step].want THEN Advances
    ELSE IF Replies(type)
    THEN c2s' = Append(c2s, "failure") /\ UNCHANGED <<step, doing, outcome, destroyed>>
    ELSE IF Passes(type) \/ Declines(type)
    THEN UNCHANGED <<step, doing, outcome, destroyed, c2s>>
    ELSE Throws

(* readClear() or readGcm(), as it was chosen when the read began: one     *)
(* that does not fit the packet, or the wrong counter, opens nothing.      *)
Reads ==
    /\ doing = "reading" /\ lengthRead /\ arrived > 0
    /\ lengthRead' = FALSE /\ arrived' = arrived - 1 /\ s2c' = Tail(s2c)
    /\ IF Head(s2c).iv = gcmIn
       THEN Takes(Head(s2c).type)
       ELSE Throws
    /\ gcmIn' = Following(gcmIn)
    /\ lines' = IF step = 1 THEN lines + 1 ELSE lines
    /\ causes' = IF step = 1 /\ lines + 1 >= MAX_LINES THEN causes \cup {"server"} ELSE causes
    /\ UNCHANGED <<server, hungUp, stray>>

(* Fault: nobody cancels the stream.                                       *)
StreamEndsByServer ==
    /\ doing = "reading"
    /\ hungUp /\ arrived = 0 /\ InFlight = 0
    /\ Throws
    /\ UNCHANGED <<gcmIn, lengthRead, lines, server, s2c, arrived, hungUp, causes, stray>>

(* The stream has been cancelled, or ends before the packet does.          *)
StreamEnds ==
    /\ doing = "reading"
    /\ destroyed \/ (hungUp /\ arrived = 0 /\ InFlight = 0)
    /\ Throws
    /\ UNCHANGED <<gcmIn, lengthRead, lines, server, s2c, arrived, hungUp, causes, stray>>

-----------------------------------------------------------------------------
(* The client.                                                             *)

(* send(), refused once the packet layer is destroyed or the connection    *)
(* broken; then the answer is waited for.                                  *)
Says ==
    /\ doing = "saying"
    /\ \/ /\ ~destroyed
          /\ c2s' = Append(c2s, Dialogue[step].say)
          /\ doing' = "reading"
          /\ UNCHANGED <<step, outcome, destroyed>>
       \/ (destroyed \/ hungUp) /\ Throws
    /\ UNCHANGED <<gcmIn, lengthRead, lines, server, s2c, arrived, hungUp, causes, stray>>

(* The host key is the one pinned, or the user accepts it ...              *)
Confirmed ==
    /\ doing = "asking"
    /\ doing' = "saying"
    /\ UNCHANGED <<step, outcome, gcmIn, lengthRead, lines, destroyed, server, wires, causes, stray>>

(* ... or it is another, or the user refuses or does not answer.           *)
NotConfirmed ==
    /\ doing = "asking"
    /\ causes' = causes \cup {"user"}
    /\ Throws
    /\ UNCHANGED <<gcmIn, lengthRead, lines, server, s2c, arrived, hungUp, stray>>

(* enableGcm(): the imports of the keys and their derivation are awaited,  *)
(* while sealed packets may have arrived.                                  *)
Installs ==
    /\ doing = "installing"
    /\ doing' = "saying" /\ gcmIn' = 0
    /\ UNCHANGED <<step, outcome, lengthRead, lines, destroyed, server, wires, causes, stray>>

(* withTimeout(): connect() gives up, destroys and tells its caller; the   *)
(* coroutine does not know yet.                                            *)
TimesOut ==
    /\ outcome = "pending" /\ step <= Auth
    /\ outcome' = "failed" /\ destroyed' = TRUE
    /\ causes' = causes \cup {"timeout"}
    /\ UNCHANGED <<step, doing, gcmIn, lengthRead, lines, server, wires, stray>>

(* close(), for whoever holds the client once it is ready.                 *)
Closes ==
    /\ outcome = "ready"
    /\ outcome' = "over" /\ destroyed' = TRUE
    /\ causes' = causes \cup {"user"}
    /\ UNCHANGED <<step, doing, gcmIn, lengthRead, lines, server, wires, stray>>

-----------------------------------------------------------------------------
Next ==
    \/ ServerHears \/ ServerAnswers \/ HangsUp
    \/ \E type \in Asides : ServerAside(type)
    \/ \E type \in Ends : ServerEnds(type)
    \/ Arrives \/ ReadsLength \/ Reads \/ StreamEnds
    \/ Says \/ Confirmed \/ NotConfirmed \/ Installs \/ TimesOut \/ Closes

Spec == Init /\ [][Next]_vars

(* The client's coroutines run on, the stream delivers, the question is    *)
(* answered or runs out.  The server hears and answers, but not while it   *)
(* is owed an answer itself; the time limit is not relied on.              *)
Fairness ==
    /\ WF_vars(Arrives) /\ WF_vars(ReadsLength) /\ WF_vars(Reads) /\ WF_vars(StreamEnds)
    /\ WF_vars(Says) /\ WF_vars(Confirmed \/ NotConfirmed) /\ WF_vars(Installs)
    /\ WF_vars(ServerHears) /\ WF_vars(owed = 0 /\ ServerAnswers)

FairSpec == Spec /\ Fairness

-----------------------------------------------------------------------------
(* The connection does not come to an end, whatever a server within the    *)
(* RFCs says and however its packets are cut up, but for a reason: the     *)
(* server ended it (with new keys or too early a channel, too), the user   *)
(* refused or closed it, or time was up.  In particular a packet sealed    *)
(* while the client still waits for the user, or sits in enableGcm(), is   *)
(* opened as one.                                                          *)
EndsForCause == outcome \in {"failed", "over"} => causes # {}

(* Nobody is left waiting.  connect() comes to an answer, also with a      *)
(* server that says nothing more until it has been answered ("a request    *)
(* with want_reply set leaves the server waiting for an answer"); and the  *)
(* server does get its answers, or the connection ends.                    *)
Settles ==
    /\ outcome = "pending" ~> outcome # "pending"
    /\ owed > 0 ~> (owed = 0 \/ doing = "done")

(* Each request of the server that wants an answer is answered once, at    *)
(* whichever stage it arrives, and nothing else is: what the server is     *)
(* owed is what the client has not read or has under way, until something  *)
(* ends the connection; and then it is never less than that.               *)
Count(seq, S) == Cardinality({i \in 1..Len(seq) : seq[i] \in S})
Wanting == {p \in Packet : p.type \in {"request", "channel-request"}}

AnsweredOnce ==
    /\ Count(s2c, Wanting) + Count(c2s, {"failure"}) <= owed
    /\ causes = {} => Count(s2c, Wanting) + Count(c2s, {"failure"}) = owed
    /\ ~stray

(* After the time limit, or a close(), no coroutine waits for ever: not in *)
(* a read that nothing will end, nor with the user's answer in hand.       *)
Unwinds == destroyed ~> doing = "done"
=============================================================================
