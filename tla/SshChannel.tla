----------------------------- MODULE SshChannel -----------------------------
(***************************************************************************)
(* The open shell (src/src/ssh/connection.ts): the pump that reads from    *)
(* the server, the writes and resizes of the browser (session.ts,          *)
(* onMessage), the close of a teardown, and the flow control in both       *)
(* directions.                                                             *)
(*                                                                         *)
(* The browser's events do not wait for one another: each keystroke or     *)
(* paste runs a write() of its own, and a second may begin while the first *)
(* waits for window or for its packet.  Between two awaits a step is       *)
(* atomic, and so are the continuations that one event sets off.           *)
(*                                                                         *)
(* Sends go through the promise chain of Packets, of which only what       *)
(* PacketOrder promises is used here: calls settle in order, the oldest    *)
(* may be in the writer's hands.  What is on its way from the server is    *)
(* counted, not queued: a server may cut its output and its window         *)
(* adjustments into any pieces.                                            *)
(***************************************************************************)
EXTENDS Integers, Sequences

CONSTANTS
    Lengths,            \* bytes of the writes, in the order of the browser's events
    Resizes,            \* resize events
    Pump, Closer,       \* the two other callers of Packets.send()
    REMOTE_WINDOW,      \* the window of CHANNEL_OPEN_CONFIRMATION
    MAX_CHUNK,          \* connection.ts:268, MAX_PACKET - 64
    LOCAL_WINDOW,       \* connection.ts:68
    WINDOW_REFILL_AT,   \* connection.ts:69
    MAX_CREDIT          \* bound of the model: no server grants beyond it

Writes == 1..Len(Lengths)

ASSUME LengthsAssumption == Lengths \in Seq(Nat \ {0})
ASSUME CallersAssumption ==
    /\ Pump \notin Resizes \cup Writes \cup {Closer}
    /\ Closer \notin Resizes \cup Writes
    /\ Resizes \cap Writes = {}
ASSUME WindowsAssumption ==
    /\ REMOTE_WINDOW \in Nat /\ MAX_CHUNK \in Nat \ {0}
    /\ LOCAL_WINDOW \in Nat \ {0}
    /\ WINDOW_REFILL_AT \in 0..(LOCAL_WINDOW - 1)
    /\ MAX_CREDIT \in Nat

VARIABLES
    closed,         \* finish() has run
    closing,        \* a teardown has called close()
    remoteWindow, localWindow,
    windowWaiters,  \* writes that wait for window, longest first
    state,          \* of each write
    offset, size,   \* of each write: its progress, and the chunk it last sent
    resized,        \* resize events handled
    replying,       \* the pump waits for a send of its own ...
    refill,         \* ... which grants the server that much (0: a refusal)
    queue,          \* unsettled calls of Packets.send(), oldest first
    held,           \* the oldest is with the stream's writer
    broken,         \* the writer's stream has failed
    (* The server.                                                         *)
    credit,         \* bytes it will still take
    granting,       \* window adjustments on their way to the client
    sendWindow,     \* bytes it may still send
    arriving,       \* bytes on their way to the client
    (* History, for the properties only.                                   *)
    got,            \* bytes the server got, while no two writes overlapped
    closeSent,      \* it got CHANNEL_CLOSE
    overlapped      \* a write began before the one before it had ended

writeVars == <<state, offset, size, windowWaiters>>
pumpVars == <<replying, refill, localWindow>>
serverVars == <<credit, granting, sendWindow, arriving>>
vars == <<closed, closing, remoteWindow, writeVars, resized, pumpVars,
          queue, held, broken, serverVars, got, closeSent, overlapped>>

-----------------------------------------------------------------------------
Least(a, b) == IF a < b THEN a ELSE b

Callers == Writes \cup Resizes \cup {Pump, Closer}

TypeOK ==
    /\ closed \in BOOLEAN /\ closing \in BOOLEAN
    /\ remoteWindow \in Int /\ localWindow \in Int
    /\ windowWaiters \in Seq(Writes)
    /\ state \in [Writes -> {"unsent", "waiting", "sending", "done", "dropped"}]
    /\ offset \in [Writes -> Int] /\ size \in [Writes -> Int]
    /\ resized \subseteq Resizes
    /\ replying \in BOOLEAN /\ refill \in Nat
    /\ queue \in Seq(Callers) /\ held \in BOOLEAN /\ broken \in BOOLEAN
    /\ credit \in Int /\ granting \in Nat
    /\ sendWindow \in Nat /\ arriving \in Nat
    /\ got \in Seq(Writes \X Nat)
    /\ closeSent \in BOOLEAN /\ overlapped \in BOOLEAN

(* openShell() has been granted its shell.                                 *)
Init ==
    /\ closed = FALSE /\ closing = FALSE
    /\ remoteWindow = REMOTE_WINDOW /\ localWindow = LOCAL_WINDOW
    /\ windowWaiters = <<>> /\ state = [w \in Writes |-> "unsent"]
    /\ offset = [w \in Writes |-> 0] /\ size = [w \in Writes |-> 0]
    /\ resized = {} /\ replying = FALSE /\ refill = 0
    /\ queue = <<>> /\ held = FALSE /\ broken = FALSE
    /\ credit = REMOTE_WINDOW /\ granting = 0
    /\ sendWindow = LOCAL_WINDOW /\ arriving = 0
    /\ got = <<>> /\ closeSent = FALSE /\ overlapped = FALSE

-----------------------------------------------------------------------------
(* Fault: the window is not looked at.                                     *)
ChunkUnbounded(w, o, window) == Least(Lengths[w] - o, MAX_CHUNK)

(* The next chunk of write w at offset o: everything that is left, but no  *)
(* more than the window and a packet hold.  A negative window gives a      *)
(* negative size.                                                          *)
ChunkSize(w, o, window) ==
    Least(Lengths[w] - o, Least(window, MAX_CHUNK))

(* TypedArray.subarray(): an index below zero counts from the end.         *)
Index(i, length) ==
    IF i >= 0 THEN Least(i, length) ELSE IF length + i > 0 THEN length + i ELSE 0

(* Fault: subarray() taken to be given a start and a length.               *)
ChunkByLength(w) ==
    [i \in 1..(IF size[w] > offset[w] THEN size[w] - offset[w] ELSE 0) |->
        <<w, offset[w] + i - 1>>]

(* The bytes of write w that the chunk in its call carries.                *)
Chunk(w) ==
    LET from == Index(offset[w], Lengths[w])
        to   == Index(offset[w] + size[w], Lengths[w])
    IN  [i \in 1..(IF to > from THEN to - from ELSE 0) |-> <<w, from + i - 1>>]

(* write(), from the head of its loop at offset o: it is through, or waits *)
(* for window, or sends a chunk.  `rest' are the calls queued before it.   *)
Continue(w, o, window, rest) ==
    /\ offset' = [offset EXCEPT ![w] = o]
    /\ IF o >= Lengths[w]
       THEN /\ state' = [state EXCEPT ![w] = "done"]
            /\ queue' = rest
            /\ UNCHANGED <<size, windowWaiters>>
       ELSE IF window = 0
       THEN /\ state' = [state EXCEPT ![w] = "waiting"]
            /\ windowWaiters' = Append(windowWaiters, w)
            /\ queue' = rest
            /\ UNCHANGED size
       ELSE /\ state' = [state EXCEPT ![w] = "sending"]
            /\ size' = [size EXCEPT ![w] = ChunkSize(w, o, window)]
            /\ queue' = Append(rest, w)
            /\ UNCHANGED windowWaiters

(* finish() wakes the waiters, which find the session closed and return.   *)
WaitersReturn ==
    /\ windowWaiters' = <<>>
    /\ state' = [w \in Writes |->
                    IF state[w] = "waiting" THEN "dropped" ELSE state[w]]

(* finish(): the packet layer takes no more calls, the waiters return.     *)
Finish ==
    IF closed THEN UNCHANGED <<closed, state, windowWaiters>>
    ELSE closed' = TRUE /\ WaitersReturn

-----------------------------------------------------------------------------
(* write() has been called and has not returned.                           *)
Unsettled(w) == state[w] \in {"waiting", "sending"}

(* onMessage() with terminal input: write() up to its first await.  After  *)
(* finish() or close() the session has let go of its client.               *)
StartWrite(w) ==
    /\ state[w] = "unsent" /\ \A v \in 1..(w - 1) : state[v] # "unsent"
    /\ ~closed /\ ~closing
    /\ Continue(w, 0, remoteWindow, queue)
    /\ overlapped' = (overlapped \/ \E v \in Writes : Unsettled(v))
    /\ UNCHANGED <<closed, closing, remoteWindow, resized, pumpVars, held, broken,
                   serverVars, got, closeSent>>

(* onMessage() with a resize.                                              *)
Resize(z) ==
    /\ z \notin resized /\ ~closed /\ ~closing
    /\ resized' = resized \cup {z}
    /\ queue' = Append(queue, z)
    /\ UNCHANGED <<closed, closing, remoteWindow, writeVars, pumpVars, held, broken,
                   serverVars, got, closeSent, overlapped>>

(* close(), by a teardown.                                                 *)
Close ==
    /\ ~closed /\ ~closing
    /\ closing' = TRUE
    /\ queue' = Append(queue, Closer)
    /\ UNCHANGED <<closed, remoteWindow, writeVars, resized, pumpVars, held, broken,
                   serverVars, got, closeSent, overlapped>>

-----------------------------------------------------------------------------
(* Packets.send() of the oldest call.                                      *)

(* Fault: a packet layer that takes calls after destroy().                 *)
TakenAlways == ~broken

(* The packet layer takes it, unless destroy() has run or the writer has   *)
(* failed.                                                                 *)
CanSend == ~closed /\ ~broken

Hand ==
    /\ queue # <<>> /\ ~held /\ CanSend
    /\ held' = TRUE
    /\ UNCHANGED <<closed, closing, remoteWindow, writeVars, resized, pumpVars, queue,
                   broken, serverVars, got, closeSent, overlapped>>

(* The call is rejected.  write() and resize() throw, which onMessage()    *)
(* ignores; the pump and close() go on to finish().                        *)
Reject ==
    LET c == Head(queue)
    IN  /\ queue' = Tail(queue)
        /\ replying' = (replying /\ c # Pump)
        /\ refill' = IF c = Pump THEN 0 ELSE refill
        /\ IF c \in Writes
           THEN /\ state' = [state EXCEPT ![c] = "dropped"]
                /\ UNCHANGED <<closed, windowWaiters>>
           ELSE IF c \in {Pump, Closer} THEN Finish
           ELSE UNCHANGED <<closed, state, windowWaiters>>

Refused ==
    /\ queue # <<>> /\ ~held /\ ~CanSend
    /\ Reject
    /\ UNCHANGED <<closing, remoteWindow, offset, size, resized, localWindow, held,
                   broken, serverVars, got, closeSent, overlapped>>

(* The write fails under the call.                                         *)
WriteFails ==
    /\ held
    /\ held' = FALSE /\ broken' = TRUE
    /\ Reject
    /\ UNCHANGED <<closing, remoteWindow, offset, size, resized, localWindow,
                   serverVars, got, closeSent, overlapped>>

(* A chunk of write w is written and reaches the server; write() counts it *)
(* and goes on.                                                            *)
ChunkWritten(w) ==
    /\ held /\ Head(queue) = w
    /\ held' = FALSE
    /\ remoteWindow' = remoteWindow - size[w]
    /\ credit' = credit - Len(Chunk(w))
    /\ got' = IF overlapped THEN got ELSE got \o Chunk(w)
    /\ IF closed
       THEN /\ offset' = [offset EXCEPT ![w] = @ + size[w]]
            /\ state' = [state EXCEPT ![w] =
                            IF offset'[w] >= Lengths[w] THEN "done" ELSE "dropped"]
            /\ queue' = Tail(queue)
            /\ UNCHANGED <<size, windowWaiters>>
       ELSE Continue(w, offset[w] + size[w], remoteWindow', Tail(queue))
    /\ UNCHANGED <<closed, closing, resized, pumpVars, broken, granting, sendWindow,
                   arriving, closeSent, overlapped>>

(* The pump's own message is out, and it goes on reading.                  *)
ReplyWritten ==
    /\ held /\ Head(queue) = Pump
    /\ held' = FALSE /\ queue' = Tail(queue)
    /\ replying' = FALSE /\ refill' = 0
    /\ sendWindow' = sendWindow + refill
    /\ UNCHANGED <<closed, closing, remoteWindow, writeVars, resized, localWindow, broken,
                   credit, granting, arriving, got, closeSent, overlapped>>

ResizeWritten ==
    /\ held /\ Head(queue) \in Resizes
    /\ held' = FALSE /\ queue' = Tail(queue)
    /\ UNCHANGED <<closed, closing, remoteWindow, writeVars, resized, pumpVars, broken,
                   serverVars, got, closeSent, overlapped>>

(* CHANNEL_CLOSE is out: close() goes on to finish().                      *)
CloseWritten ==
    /\ held /\ Head(queue) = Closer
    /\ held' = FALSE /\ closeSent' = TRUE /\ queue' = Tail(queue)
    /\ Finish
    /\ UNCHANGED <<closing, remoteWindow, offset, size, resized, pumpVars, broken,
                   serverVars, got, overlapped>>

-----------------------------------------------------------------------------
(* pump() and dispatch(): one packet at a time.                            *)
Reading == ~closed /\ ~replying

(* Fault: the window is only refilled once it is overdrawn.                *)
DrainedBelow(window) == window < 0

(* consumeWindow(): time to grant the server more.                         *)
Drained(window) == window <= WINDOW_REFILL_AT

(* Fault: the whole window is granted again, not what has been used.       *)
WholeWindow(window) == LOCAL_WINDOW

(* consumeWindow(): how much it is granted.                                *)
Increment(window) == LOCAL_WINDOW - window

(* CHANNEL_DATA or CHANNEL_EXTENDED_DATA of n bytes.                       *)
PumpData(n) ==
    /\ Reading /\ n <= arriving
    /\ arriving' = arriving - n
    /\ LET window == localWindow - n
       IN  IF Drained(window)
           THEN /\ localWindow' = LOCAL_WINDOW
                /\ replying' = TRUE /\ refill' = Increment(window)
                /\ queue' = Append(queue, Pump)
           ELSE localWindow' = window /\ UNCHANGED <<replying, refill, queue>>
    /\ UNCHANGED <<closed, closing, remoteWindow, writeVars, resized, held, broken,
                   credit, granting, sendWindow, got, closeSent, overlapped>>

(* Fault: an adjustment is counted and nobody told.                        *)
NoneWoken == <<>>

(* The waiters that a window adjustment wakes.                             *)
Woken == windowWaiters

(* CHANNEL_WINDOW_ADJUST by n: every waiter wakes and looks at the window, *)
(* which none of them has used yet.                                        *)
PumpAdjust(n) ==
    /\ Reading /\ n <= granting
    /\ granting' = granting - n
    /\ remoteWindow' = remoteWindow + n
    /\ IF remoteWindow' = 0
       THEN UNCHANGED <<state, size, windowWaiters, queue>>
       ELSE LET woken == {Woken[i] : i \in 1..Len(Woken)}
            IN  /\ state' = [w \in Writes |->
                                IF w \in woken THEN "sending" ELSE state[w]]
                /\ size' = [w \in Writes |->
                                IF w \in woken
                                THEN ChunkSize(w, offset[w], remoteWindow')
                                ELSE size[w]]
                /\ queue' = queue \o Woken
                /\ windowWaiters' = SubSeq(windowWaiters, Len(Woken) + 1, Len(windowWaiters))
    /\ UNCHANGED <<closed, closing, offset, resized, pumpVars, held, broken, credit,
                   sendWindow, arriving, got, closeSent, overlapped>>

(* A channel or global request that wants an answer gets a refusal.        *)
PumpRequest ==
    /\ Reading
    /\ replying' = TRUE
    /\ queue' = Append(queue, Pump)
    /\ UNCHANGED <<closed, closing, remoteWindow, writeVars, resized, refill, localWindow,
                   held, broken, serverVars, got, closeSent, overlapped>>

(* CHANNEL_CLOSE, DISCONNECT, a rekey, or a stream that has ended.         *)
PumpEnds ==
    /\ Reading
    /\ Finish
    /\ UNCHANGED <<closing, remoteWindow, offset, size, resized, pumpVars, queue, held,
                   broken, serverVars, got, closeSent, overlapped>>

-----------------------------------------------------------------------------
(* The server grants n bytes more, or sends n bytes, within its window.    *)
(* What it does once the socket is closed nobody sees.                     *)
Grant(n) ==
    /\ ~closed /\ credit + n <= MAX_CREDIT
    /\ credit' = credit + n /\ granting' = granting + n
    /\ UNCHANGED <<closed, closing, remoteWindow, writeVars, resized, pumpVars, queue,
                   held, broken, sendWindow, arriving, got, closeSent, overlapped>>

ServerSends(n) ==
    /\ ~closed /\ n <= sendWindow
    /\ sendWindow' = sendWindow - n /\ arriving' = arriving + n
    /\ UNCHANGED <<closed, closing, remoteWindow, writeVars, resized, pumpVars, queue,
                   held, broken, credit, granting, got, closeSent, overlapped>>

Settle == \/ Refused \/ WriteFails \/ ReplyWritten \/ ResizeWritten \/ CloseWritten
          \/ \E w \in Writes : ChunkWritten(w)

Next ==
    \/ \E w \in Writes : StartWrite(w)
    \/ \E z \in Resizes : Resize(z)
    \/ Close \/ Hand \/ Settle
    \/ \E n \in 1..arriving : PumpData(n)
    \/ \E n \in 1..granting : PumpAdjust(n)
    \/ PumpRequest \/ PumpEnds
    \/ \E n \in 1..MAX_CREDIT : Grant(n)
    \/ \E n \in 1..LOCAL_WINDOW : ServerSends(n)

Spec == Init /\ [][Next]_vars

(* A call in its turn is handed over or refused.  Its write need not end:  *)
(* nothing in the client takes a frame back from the writer when a server  *)
(* neither reads nor hangs up.  What has arrived is read: requests of the  *)
(* server come in between, but the stream is read in order, so that they   *)
(* cannot hold it up for ever.                                             *)
Fairness ==
    /\ WF_vars(Hand) /\ WF_vars(Refused)
    /\ SF_vars(\E n \in 1..arriving : PumpData(n))
    /\ SF_vars(\E n \in 1..granting : PumpAdjust(n))

(* The server, moreover, grants more when it can.                          *)
ServerGrants == WF_vars(\E n \in 1..MAX_CREDIT : Grant(n))

FairSpec == Spec /\ Fairness

-----------------------------------------------------------------------------
(* As long as no two writes overlap, the client never sends more than the  *)
(* server has granted: what it takes for the server's window, and what is  *)
(* still on its way to it, are together what the server will take.         *)
WindowKept ==
    ~overlapped => remoteWindow >= 0 /\ credit = remoteWindow + granting

(* As long as no two writes overlap, what the user typed arrives once and  *)
(* in order: after a byte comes the next of its write or, when that was    *)
(* its last, the first of the next write.                                  *)
InputInOrder ==
    ~overlapped =>
        /\ got # <<>> => got[1] = <<1, 0>>
        /\ \A k \in 1..(Len(got) - 1) :
            LET w == got[k][1]
                b == got[k][2]
            IN  got[k + 1] = IF b + 1 < Lengths[w] THEN <<w, b + 1>> ELSE <<w + 1, 0>>

(* No wake-up is lost: a closed session has no waiters, and, as long as no *)
(* two writes overlap, a write only waits while there is no window.        *)
NoLostWakeup ==
    (\E w \in Writes : state[w] = "waiting") =>
        /\ ~closed
        /\ ~overlapped => remoteWindow = 0

(* Flow control of the output: the window the client thinks the server has *)
(* is what the server thinks, once what is under way in either direction   *)
(* has arrived, and it is never left nearly empty.                         *)
OutputAccounted ==
    /\ localWindow > WINDOW_REFILL_AT
    /\ ~closed => localWindow = sendWindow + arriving + refill

(* CHANNEL_CLOSE is the last thing the server hears: nothing is handed to  *)
(* the writer after it, also if writes and replies were queued behind it.  *)
NothingAfterChannelClose == closeSent => ~held

(* The writer never lets go of one frame: the server does not read.        *)
Stuck == <>[]held

(* A server that has used up its window and goes on reading gets a new     *)
(* one, or the session ends: the pump's refill never gets lost behind the  *)
(* browser's writes.                                                       *)
ServerNotStarved == Stuck \/ (sendWindow = 0 ~> (sendWindow > 0 \/ closed))

(* With a server that goes on reading no write() waits for ever: each      *)
(* returns once the session is closed, and one that waits for window goes  *)
(* on if the server grants some and no two writes overlap.                 *)
WritesGoOn ==
    \/ Stuck
    \/ /\ closed ~> \A w \in Writes : ~Unsettled(w)
       /\ ServerGrants /\ []~overlapped =>
              \A w \in Writes : state[w] = "waiting" ~> state[w] # "waiting"

(* "Keystrokes and pasted text, honouring the server's advertised window"  *)
(* (connection.ts:259), which write() does not when two of them overlap.   *)
WindowHonoured == credit >= 0
=============================================================================
