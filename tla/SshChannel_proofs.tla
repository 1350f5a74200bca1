-------------------------- MODULE SshChannel_proofs --------------------------
(***************************************************************************)
(* Proofs about SshChannel, for any number of writes of any length and any *)
(* windows.                                                                *)
(***************************************************************************)
EXTENDS SshChannel, TLAPS

(* What a call in the writer's hands, a broken stream and a closed session *)
(* exclude.                                                                *)
StreamInv ==
    /\ held => queue # <<>>
    /\ closeSent => closed /\ ~held
    /\ \A w \in Writes : state[w] = "waiting" => ~closed

(* The refill is under way exactly once, and the window is never overfull. *)
OutputInv ==
    /\ OutputAccounted
    /\ ~replying => refill = 0
    /\ localWindow <= LOCAL_WINDOW

(* Without overlap one write at a time is under way ...                    *)
AtMostOne == \A v, w \in Writes : Unsettled(v) /\ Unsettled(w) => v = w

(* ... its chunk is the only one queued ...                                *)
QueueSole ==
    /\ \A i \in 1..Len(queue) : queue[i] \in Writes => state[queue[i]] = "sending"
    /\ \A i, j \in 1..Len(queue) : queue[i] \in Writes /\ queue[j] \in Writes => i = j

(* ... it waits only while there is no window ...                          *)
WaiterSole ==
    /\ \A i \in 1..Len(windowWaiters) : state[windowWaiters[i]] = "waiting"
    /\ \A w \in Writes : state[w] = "waiting" =>
          /\ windowWaiters = <<w>>
          /\ remoteWindow = 0
          /\ offset[w] \in 0..(Lengths[w] - 1)

(* ... and sends only what it has and the window holds.                    *)
SizesFit ==
    \A w \in Writes : state[w] = "sending" =>
        /\ offset[w] >= 0
        /\ size[w] \in 1..(Lengths[w] - offset[w])
        /\ size[w] <= remoteWindow

SoleInv == ~overlapped => AtMostOne /\ QueueSole /\ WaiterSole /\ SizesFit

IndInv == TypeOK /\ StreamInv /\ OutputInv /\ SoleInv /\ WindowKept

-----------------------------------------------------------------------------
(* The lengths, as the assumption gives them.                              *)
LEMMA LengthsType == \A w \in Writes : Lengths[w] \in Nat /\ Lengths[w] > 0
BY LengthsAssumption DEF Writes

(* An index of subarray() is one of the array.                             *)
LEMMA IndexType ==
  ASSUME NEW i \in Int, NEW length \in Nat
  PROVE  Index(i, length) \in 0..length
BY DEF Index, Least

(* A chunk is a piece of its write.                                        *)
LEMMA ChunkType ==
  ASSUME TypeOK, NEW w \in Writes
  PROVE  Chunk(w) \in Seq(Writes \X Nat)
<1> DEFINE from == Index(offset[w], Lengths[w])
           to   == Index(offset[w] + size[w], Lengths[w])
           n    == IF to > from THEN to - from ELSE 0
<1>1. offset[w] \in Int /\ offset[w] + size[w] \in Int /\ Lengths[w] \in Nat
  BY LengthsType DEF TypeOK
<1>2. from \in Nat /\ to \in Nat
  <2>1. from \in 0..Lengths[w]
    BY <1>1, IndexType
  <2>2. to \in 0..Lengths[w]
    BY <1>1, IndexType
  <2> QED
    BY <1>1, <2>1, <2>2
<1> HIDE DEF from, to
<1>3. n \in Nat
  BY <1>2
<1>4. \A i \in 1..n : <<w, from + i - 1>> \in Writes \X Nat
  BY <1>2, <1>3
<1>5. Chunk(w) = [i \in 1..n |-> <<w, from + i - 1>>]
  BY DEF Chunk, from, to
<1> HIDE DEF n
<1> QED
  BY <1>3, <1>4, <1>5

(* A chunk sized within its write is carried whole.                        *)
LEMMA ChunkLength ==
  ASSUME TypeOK, NEW w \in Writes,
         offset[w] >= 0, size[w] \in 1..(Lengths[w] - offset[w])
  PROVE  /\ Chunk(w) = [i \in 1..size[w] |-> <<w, offset[w] + i - 1>>]
         /\ Len(Chunk(w)) = size[w]
<1>1. offset[w] \in Int /\ size[w] \in Int /\ Lengths[w] \in Nat
  BY LengthsType DEF TypeOK
<1>2. /\ Index(offset[w], Lengths[w]) = offset[w]
      /\ Index(offset[w] + size[w], Lengths[w]) = offset[w] + size[w]
  BY <1>1 DEF Index, Least
<1>3. Chunk(w) = [i \in 1..size[w] |-> <<w, offset[w] + i - 1>>]
  BY <1>1, <1>2 DEF Chunk
<1> QED
  BY <1>1, <1>3

(* What finish() leaves of the writes.                                     *)
LEMMA FinishFacts ==
  ASSUME TypeOK, StreamInv, Finish
  PROVE  /\ closed' = TRUE
         /\ state' \in [Writes -> {"unsent", "waiting", "sending", "done", "dropped"}]
         /\ windowWaiters' \in Seq(Writes)
         /\ \A w \in Writes : /\ state'[w] # "waiting"
                              /\ state'[w] = "sending" <=> state[w] = "sending"
         /\ closed => windowWaiters' = windowWaiters /\ state' = state
         /\ ~closed => windowWaiters' = <<>>
<1>1. CASE closed
  BY <1>1 DEF Finish, TypeOK, StreamInv
<1>2. CASE ~closed
  BY <1>2 DEF Finish, WaitersReturn, TypeOK, StreamInv
<1> QED
  BY <1>1, <1>2

(* The chunk that write() computes from an open window fits it.            *)
LEMMA ChunkSizeFacts ==
  ASSUME NEW w \in Writes, NEW o \in Int, NEW window \in Int
  PROVE  /\ ChunkSize(w, o, window) \in Int
         /\ 0 <= o /\ o < Lengths[w] /\ window > 0 =>
              /\ ChunkSize(w, o, window) \in 1..(Lengths[w] - o)
              /\ ChunkSize(w, o, window) <= window
BY LengthsType, WindowsAssumption DEF ChunkSize, Least

(* write() keeps the types.                                                *)
LEMMA ContinueType ==
  ASSUME TypeOK, NEW w \in Writes, NEW o \in Int, NEW window \in Int,
         NEW rest \in Seq(Callers), Continue(w, o, window, rest)
  PROVE  /\ state' \in [Writes -> {"unsent", "waiting", "sending", "done", "dropped"}]
         /\ offset' \in [Writes -> Int] /\ size' \in [Writes -> Int]
         /\ windowWaiters' \in Seq(Writes)
         /\ queue' \in Seq(Callers)
<1>1. ChunkSize(w, o, window) \in Int
  BY ChunkSizeFacts
<1>2. w \in Callers
  BY DEF Callers
<1>3. CASE o >= Lengths[w]
  BY <1>3 DEF Continue, TypeOK
<1>4. CASE ~(o >= Lengths[w]) /\ window = 0
  <2>1. windowWaiters' = Append(windowWaiters, w) /\ queue' = rest
    BY <1>4 DEF Continue
  <2>2. windowWaiters' \in Seq(Writes)
    BY <2>1 DEF TypeOK
  <2> QED
    BY <1>4, <2>1, <2>2 DEF Continue, TypeOK
<1>5. CASE ~(o >= Lengths[w]) /\ window # 0
  <2>1. queue' = Append(rest, w)
    BY <1>5 DEF Continue
  <2>2. queue' \in Seq(Callers)
    BY <1>2, <2>1
  <2>3. size' \in [Writes -> Int]
    BY <1>1, <1>5 DEF Continue, TypeOK
  <2> QED
    BY <1>5, <2>2, <2>3 DEF Continue, TypeOK
<1> QED
  BY <1>3, <1>4, <1>5

-----------------------------------------------------------------------------
(* The type invariant: Packets.send() settles a call only if one is        *)
(* pending, and no window or count of bytes under way becomes negative.    *)
LEMMA TypeStep ==
  ASSUME TypeOK, StreamInv, OutputInv, [Next]_vars
  PROVE  TypeOK'
<1> USE DEF writeVars, pumpVars, serverVars
<1>1. ASSUME NEW w \in Writes, StartWrite(w)  PROVE TypeOK'
  <2>1. Continue(w, 0, remoteWindow, queue) /\ remoteWindow \in Int /\ queue \in Seq(Callers)
    BY <1>1 DEF StartWrite, TypeOK
  <2>2. overlapped' \in BOOLEAN
    BY <1>1 DEF StartWrite, TypeOK
  <2> QED
    BY <1>1, <2>1, <2>2, ContinueType DEF StartWrite, TypeOK
<1>2. ASSUME NEW z \in Resizes, Resize(z)  PROVE TypeOK'
  BY <1>2 DEF Resize, TypeOK, Callers
<1>3. CASE Close
  BY <1>3 DEF Close, TypeOK, Callers
<1>4. CASE Hand
  BY <1>4 DEF Hand, TypeOK
<1>5. ASSUME Reject, queue # <<>>
      PROVE  /\ queue' \in Seq(Callers)
             /\ replying' \in BOOLEAN /\ refill' \in Nat /\ closed' \in BOOLEAN
             /\ state' \in [Writes -> {"unsent", "waiting", "sending", "done", "dropped"}]
             /\ windowWaiters' \in Seq(Writes)
  <2>1. queue' \in Seq(Callers) /\ replying' \in BOOLEAN /\ refill' \in Nat
    BY <1>5 DEF Reject, TypeOK
  <2>2. CASE Head(queue) \in Writes
    BY <1>5, <2>1, <2>2 DEF Reject, TypeOK
  <2>3. CASE Finish
    BY <2>1, <2>3, FinishFacts DEF TypeOK
  <2>4. CASE UNCHANGED <<closed, state, windowWaiters>>
    BY <2>1, <2>4 DEF TypeOK
  <2> QED
    BY <1>5, <2>2, <2>3, <2>4 DEF Reject
<1>6. CASE Refused
  BY <1>5, <1>6 DEF Refused, TypeOK
<1>7. CASE WriteFails
  BY <1>5, <1>7 DEF WriteFails, TypeOK, StreamInv
<1>8. ASSUME NEW w \in Writes, ChunkWritten(w)  PROVE TypeOK'
  <2>1. queue # <<>> /\ Tail(queue) \in Seq(Callers)
    BY <1>8 DEF ChunkWritten, TypeOK, StreamInv
  <2>2. remoteWindow' \in Int /\ credit' \in Int /\ got' \in Seq(Writes \X Nat)
    BY <1>8, ChunkType DEF ChunkWritten, TypeOK
  <2>3. offset[w] + size[w] \in Int
    BY DEF TypeOK
  <2>4. /\ state' \in [Writes -> {"unsent", "waiting", "sending", "done", "dropped"}]
        /\ offset' \in [Writes -> Int] /\ size' \in [Writes -> Int]
        /\ windowWaiters' \in Seq(Writes)
        /\ queue' \in Seq(Callers)
    <3>1. CASE closed
      BY <1>8, <2>1, <2>3, <3>1 DEF ChunkWritten, TypeOK
    <3>2. CASE ~closed
      <4>1. Continue(w, offset[w] + size[w], remoteWindow', Tail(queue))
        BY <1>8, <3>2 DEF ChunkWritten
      <4> QED
        BY <2>1, <2>2, <2>3, <4>1, ContinueType
    <3> QED
      BY <3>1, <3>2
  <2> QED
    BY <1>8, <2>2, <2>4 DEF ChunkWritten, TypeOK
<1>9. ASSUME held  PROVE Tail(queue) \in Seq(Callers)
  BY <1>9 DEF TypeOK, StreamInv
<1>10. CASE ReplyWritten
  <2>1. sendWindow' \in Nat
    BY <1>10 DEF ReplyWritten, TypeOK
  <2> QED
    BY <1>9, <1>10, <2>1 DEF ReplyWritten, TypeOK
<1>11. CASE ResizeWritten
  BY <1>9, <1>11 DEF ResizeWritten, TypeOK
<1>19. CASE CloseWritten
  <2>1. closed' \in BOOLEAN
    BY <1>19, FinishFacts DEF CloseWritten
  <2> QED
    BY <1>9, <1>19, <2>1, FinishFacts DEF CloseWritten, TypeOK
<1>12. ASSUME NEW n \in 1..arriving, PumpData(n)  PROVE TypeOK'
  <2>1. /\ arriving - n \in Nat /\ localWindow - n \in Int
        /\ LOCAL_WINDOW - (localWindow - n) \in Nat
        /\ LOCAL_WINDOW \in Int
    BY WindowsAssumption DEF TypeOK, OutputInv
  <2>2. /\ localWindow' \in Int /\ replying' \in BOOLEAN /\ refill' \in Nat
        /\ queue' \in Seq(Callers)
    <3>1. CASE Drained(localWindow - n)
      <4>1. queue' = Append(queue, Pump) /\ Pump \in Callers
        BY <1>12, <3>1 DEF PumpData, Callers
      <4> QED
        BY <1>12, <2>1, <3>1, <4>1 DEF PumpData, Increment, TypeOK
    <3>2. CASE ~Drained(localWindow - n)
      BY <1>12, <2>1, <3>2 DEF PumpData, TypeOK
    <3> QED
      BY <3>1, <3>2
  <2> QED
    BY <1>12, <2>1, <2>2 DEF PumpData, TypeOK
<1>13. ASSUME NEW n \in 1..granting, PumpAdjust(n)  PROVE TypeOK'
  <2>1. granting' \in Nat /\ remoteWindow' \in Int
    BY <1>13 DEF PumpAdjust, TypeOK
  <2>2. \A w \in Writes : offset[w] \in Int /\ ChunkSize(w, offset[w], remoteWindow') \in Int
    BY <2>1, ChunkSizeFacts DEF TypeOK
  <2>3. windowWaiters \in Seq(Callers) /\ queue \in Seq(Callers)
    BY DEF TypeOK, Callers
  <2>4. /\ state' \in [Writes -> {"unsent", "waiting", "sending", "done", "dropped"}]
        /\ size' \in [Writes -> Int]
    BY <1>13, <2>2 DEF PumpAdjust, TypeOK
  <2>5. windowWaiters' \in Seq(Writes) /\ queue' \in Seq(Callers)
    <3>1. CASE remoteWindow' = 0
      BY <1>13, <3>1 DEF PumpAdjust, TypeOK
    <3>2. CASE remoteWindow' # 0
      <4>1. /\ queue' = queue \o windowWaiters
            /\ windowWaiters' = SubSeq(windowWaiters, Len(windowWaiters) + 1,
                                         Len(windowWaiters))
        BY <1>13, <3>2 DEF PumpAdjust, Woken
      <4>2. queue' \in Seq(Callers)
        BY <2>3, <4>1
      <4>3. windowWaiters' \in Seq(Writes)
        BY <4>1 DEF TypeOK
      <4> QED
        BY <4>2, <4>3
    <3> QED
      BY <3>1, <3>2
  <2> QED
    BY <1>13, <2>1, <2>4, <2>5 DEF PumpAdjust, TypeOK
<1>14. CASE PumpRequest
  BY <1>14 DEF PumpRequest, TypeOK, Callers
<1>15. CASE PumpEnds
  BY <1>15, FinishFacts DEF PumpEnds, TypeOK
<1>16. ASSUME NEW n \in 1..MAX_CREDIT, Grant(n)  PROVE TypeOK'
  BY <1>16, WindowsAssumption DEF Grant, TypeOK
<1>17. ASSUME NEW n \in 1..LOCAL_WINDOW, ServerSends(n)  PROVE TypeOK'
  BY <1>17, WindowsAssumption DEF ServerSends, TypeOK
<1>18. CASE UNCHANGED vars
  BY <1>18 DEF vars, TypeOK
<1> QED
  BY <1>1, <1>2, <1>3, <1>4, <1>6, <1>7, <1>8, <1>9, <1>10, <1>11, <1>19, <1>12, <1>13,
     <1>14, <1>15, <1>16, <1>17, <1>18 DEF Next, Settle

(* The stream: nothing is in the writer's hands once CHANNEL_CLOSE is out, *)
(* and nobody waits on a closed session.                                   *)
LEMMA StreamStep ==
  ASSUME TypeOK, StreamInv, [Next]_vars
  PROVE  StreamInv'
<1> USE DEF writeVars, pumpVars, serverVars
<1>1. ASSUME NEW w \in Writes, StartWrite(w)  PROVE StreamInv'
  <2>1. ~closed /\ ~closed' /\ UNCHANGED <<held, closeSent>>
    BY <1>1 DEF StartWrite
  <2>2. held => queue' # <<>>
    BY <1>1 DEF StartWrite, Continue, StreamInv, TypeOK
  <2> QED
    BY <2>1, <2>2 DEF StreamInv
<1>17. \A c \in Callers : Append(queue, c) # <<>>
  <2> TAKE c \in Callers
  <2>1. queue \in Seq(Callers)
    BY DEF TypeOK
  <2>2. Len(Append(queue, c)) = Len(queue) + 1 /\ Len(queue) \in Nat
    BY <2>1
  <2> QED
    BY <2>2
<1>2. ASSUME NEW z \in Resizes, Resize(z)  PROVE StreamInv'
  BY <1>2, <1>17 DEF Resize, StreamInv, Callers
<1>3. CASE Close
  BY <1>3, <1>17 DEF Close, StreamInv, Callers
<1>4. CASE Hand
  BY <1>4 DEF Hand, CanSend, StreamInv
<1>5. ASSUME Reject
      PROVE  /\ closed => closed'
             /\ \A w \in Writes : state'[w] = "waiting" => ~closed'
  <2>1. CASE Head(queue) \in Writes
    BY <1>5, <2>1 DEF Reject, StreamInv, TypeOK
  <2>2. CASE Finish
    BY <2>2, FinishFacts
  <2>3. CASE UNCHANGED <<closed, state, windowWaiters>>
    BY <2>3 DEF StreamInv
  <2> QED
    BY <1>5, <2>1, <2>2, <2>3 DEF Reject
<1>6. CASE Refused
  BY <1>5, <1>6 DEF Refused, StreamInv
<1>7. CASE WriteFails
  BY <1>5, <1>7 DEF WriteFails, StreamInv
<1>8. ASSUME NEW w \in Writes, ChunkWritten(w)  PROVE StreamInv'
  <2>1. CASE closed
    BY <1>8, <2>1 DEF ChunkWritten, StreamInv, TypeOK
  <2>2. CASE ~closed
    BY <1>8, <2>2 DEF ChunkWritten, StreamInv
  <2> QED
    BY <2>1, <2>2
<1>9. CASE ReplyWritten
  BY <1>9 DEF ReplyWritten, StreamInv
<1>10. CASE ResizeWritten
  BY <1>10 DEF ResizeWritten, StreamInv
<1>11. CASE CloseWritten
  BY <1>11, FinishFacts DEF CloseWritten, StreamInv
<1>12. ASSUME NEW n \in 1..arriving, PumpData(n)  PROVE StreamInv'
  <2>1. held => queue' # <<>>
    BY <1>12 DEF PumpData, StreamInv, TypeOK
  <2> QED
    BY <1>12, <2>1 DEF PumpData, StreamInv
<1>13. ASSUME NEW n \in 1..granting, PumpAdjust(n)  PROVE StreamInv'
  <2>1. ~closed /\ ~closed' /\ UNCHANGED <<held, closeSent>>
    BY <1>13 DEF PumpAdjust, Reading
  <2>2. held => queue' # <<>>
    <3>1. queue \o windowWaiters = <<>> => queue = <<>>
      BY DEF TypeOK
    <3> QED
      BY <1>13, <3>1 DEF PumpAdjust, Woken, StreamInv
  <2> QED
    BY <2>1, <2>2 DEF StreamInv
<1>14. CASE PumpRequest
  BY <1>14, <1>17 DEF PumpRequest, StreamInv, Callers
<1>15. CASE PumpEnds
  BY <1>15, FinishFacts DEF PumpEnds, Reading, StreamInv
<1>16. CASE UNCHANGED <<closed, state, queue, held, closeSent>>
  BY <1>16 DEF StreamInv
<1> QED
  BY <1>1, <1>2, <1>3, <1>4, <1>6, <1>7, <1>8, <1>9, <1>10, <1>11, <1>12, <1>13,
     <1>14, <1>15, <1>16 DEF Next, Settle, Grant, ServerSends, vars

(* Output: bytes move between the server's window, the wire, our window    *)
(* and the refill, and none is lost or made up.                            *)
LEMMA OutputStep ==
  ASSUME TypeOK, StreamInv, OutputInv, [Next]_vars
  PROVE  OutputInv'
<1> USE DEF writeVars, pumpVars, serverVars
<1>1. ASSUME NEW n \in 1..arriving, PumpData(n)  PROVE OutputInv'
  <2>1. /\ n \in Nat /\ localWindow \in Int /\ arriving \in Nat /\ sendWindow \in Nat
        /\ LOCAL_WINDOW \in Int /\ WINDOW_REFILL_AT \in Int
        /\ WINDOW_REFILL_AT < LOCAL_WINDOW
    BY WindowsAssumption DEF TypeOK
  <2>2. /\ ~closed /\ refill = 0 /\ localWindow = sendWindow + arriving
        /\ localWindow <= LOCAL_WINDOW
    BY <1>1, <2>1 DEF PumpData, Reading, OutputInv, OutputAccounted
  <2>3. CASE Drained(localWindow - n)
    BY <1>1, <2>1, <2>2, <2>3 DEF PumpData, Increment, OutputInv, OutputAccounted
  <2>4. CASE ~Drained(localWindow - n)
    BY <1>1, <2>1, <2>2, <2>4 DEF PumpData, Drained, OutputInv, OutputAccounted, Reading
  <2> QED
    BY <2>3, <2>4
<1>2. CASE ReplyWritten
  BY <1>2 DEF ReplyWritten, OutputInv, OutputAccounted, TypeOK
<1>3. ASSUME NEW n \in 1..LOCAL_WINDOW, ServerSends(n)  PROVE OutputInv'
  BY <1>3, WindowsAssumption DEF ServerSends, OutputInv, OutputAccounted, TypeOK
<1>4. ASSUME Reject, UNCHANGED <<localWindow, sendWindow, arriving>>  PROVE OutputInv'
  <2>1. CASE Head(queue) = Pump
    <3>1. Finish
      BY <1>4, <2>1, CallersAssumption DEF Reject
    <3>2. closed'
      BY <3>1, FinishFacts
    <3> QED
      BY <1>4, <2>1, <3>2 DEF Reject, OutputInv, OutputAccounted
  <2>2. CASE Head(queue) # Pump
    <3>1. UNCHANGED refill /\ replying' = replying
      BY <1>4, <2>2 DEF Reject, TypeOK
    <3>2. closed => closed'
      BY <1>4 DEF Reject, Finish
    <3> QED
      BY <1>4, <3>1, <3>2 DEF OutputInv, OutputAccounted
  <2> QED
    BY <2>1, <2>2
<1>5. CASE Refused
  BY <1>4, <1>5 DEF Refused
<1>6. CASE WriteFails
  BY <1>4, <1>6 DEF WriteFails
<1>7. CASE PumpRequest
  BY <1>7 DEF PumpRequest, OutputInv, OutputAccounted
<1>8. ASSUME UNCHANGED <<pumpVars, sendWindow, arriving>>, closed => closed'
      PROVE  OutputInv'
  BY <1>8 DEF OutputInv, OutputAccounted
<1>9. CASE CloseWritten
  BY <1>8, <1>9, FinishFacts DEF CloseWritten
<1>10. CASE PumpEnds
  BY <1>8, <1>10, FinishFacts DEF PumpEnds
<1>11. ASSUME NEW w \in Writes, ChunkWritten(w)  PROVE OutputInv'
  BY <1>8, <1>11 DEF ChunkWritten
<1>12. ASSUME NEW w \in Writes, StartWrite(w)  PROVE OutputInv'
  BY <1>8, <1>12 DEF StartWrite
<1>13. ASSUME NEW n \in 1..granting, PumpAdjust(n)  PROVE OutputInv'
  BY <1>8, <1>13 DEF PumpAdjust
<1>14. CASE \/ Close \/ Hand \/ ResizeWritten \/ UNCHANGED vars
            \/ \E z \in Resizes : Resize(z)
            \/ \E n \in 1..MAX_CREDIT : Grant(n)
  BY <1>8, <1>14 DEF Close, Hand, ResizeWritten, Resize, Grant, vars
<1> QED
  BY <1>1, <1>2, <1>3, <1>5, <1>6, <1>7, <1>9, <1>10, <1>11, <1>12, <1>13, <1>14
  DEF Next, Settle

-----------------------------------------------------------------------------
(* What is left of the queue when its head settles.                        *)
LEMMA TailFacts ==
  ASSUME TypeOK, queue # <<>>
  PROVE  /\ Head(queue) = queue[1] /\ 1 \in 1..Len(queue)
         /\ Len(Tail(queue)) = Len(queue) - 1 /\ Len(queue) \in Nat
         /\ \A i \in 1..Len(Tail(queue)) :
               i + 1 \in 1..Len(queue) /\ Tail(queue)[i] = queue[i + 1]
BY DEF TypeOK

(* The queue after a call that is not a write joins it.                    *)
LEMMA AppendSole ==
  ASSUME TypeOK, QueueSole, NEW c \in Callers \ Writes, queue' = Append(queue, c),
         UNCHANGED state
  PROVE  QueueSole'
<1>1. /\ Len(queue') = Len(queue) + 1 /\ Len(queue) \in Nat
      /\ queue'[Len(queue) + 1] = c
      /\ \A i \in 1..Len(queue) : queue'[i] = queue[i]
  BY DEF TypeOK
<1>2. \A i \in 1..Len(queue') : queue'[i] \in Writes =>
            i \in 1..Len(queue) /\ queue'[i] = queue[i]
  BY <1>1
<1> QED
  BY <1>2 DEF QueueSole

(* The queue after its head has settled.                                   *)
LEMMA TailSole ==
  ASSUME TypeOK, QueueSole, queue # <<>>, queue' = Tail(queue),
         \A w \in Writes : w # Head(queue) /\ state[w] = "sending" => state'[w] = "sending"
  PROVE  /\ QueueSole'
         /\ Head(queue) \in Writes =>
               \A i \in 1..Len(Tail(queue)) : Tail(queue)[i] \notin Writes
<1>1. \A i \in 1..Len(queue') : /\ i + 1 \in 1..Len(queue)
                                /\ queue'[i] = queue[i + 1] /\ i + 1 # 1 /\ i \in Nat
  BY TailFacts
<1>2. \A i \in 1..Len(queue') : queue'[i] \in Writes => Head(queue) \notin Writes
  BY <1>1, TailFacts DEF QueueSole
<1>3. ASSUME NEW i \in 1..Len(queue'), queue'[i] \in Writes
      PROVE  state'[queue'[i]] = "sending"
  <2>1. state[queue'[i]] = "sending"
    BY <1>1, <1>3 DEF QueueSole
  <2> QED
    BY <1>2, <1>3, <2>1
<1>4. ASSUME NEW i \in 1..Len(queue'), NEW j \in 1..Len(queue'),
             queue'[i] \in Writes, queue'[j] \in Writes
      PROVE  i = j
  <2>1. i + 1 = j + 1
    BY <1>1, <1>4 DEF QueueSole
  <2> QED
    BY <2>1
<1> QED
  BY <1>2, <1>3, <1>4 DEF QueueSole

(* write() goes on alone, in a window that is not negative.                *)
LEMMA ContinueSole ==
  ASSUME TypeOK, NEW w \in Writes, NEW o \in Nat, NEW window \in Nat,
         NEW rest \in Seq(Callers),
         \A i \in 1..Len(rest) : rest[i] \notin Writes,
         windowWaiters = <<>>,
         \A v \in Writes : v # w => ~Unsettled(v),
         Continue(w, o, window, rest), remoteWindow' = window
  PROVE  (AtMostOne /\ QueueSole /\ WaiterSole /\ SizesFit)'
<1> USE LengthsType
<1>1. /\ offset' = [offset EXCEPT ![w] = o] /\ offset'[w] = o
      /\ \A v \in Writes : v # w => state'[v] = state[v]
  BY DEF Continue, TypeOK
<1>2. \A v \in Writes : v # w => state'[v] \notin {"waiting", "sending"}
  BY <1>1 DEF Unsettled
<1>3. AtMostOne'
  BY <1>2 DEF AtMostOne, Unsettled
<1>4. CASE o >= Lengths[w]
  <2>1. state'[w] = "done" /\ queue' = rest /\ windowWaiters' = <<>>
    BY <1>4 DEF Continue, TypeOK
  <2> QED
    BY <1>2, <1>3, <2>1 DEF QueueSole, WaiterSole, SizesFit
<1>5. CASE ~(o >= Lengths[w]) /\ window = 0
  <2>1. state'[w] = "waiting" /\ queue' = rest /\ windowWaiters' = <<w>>
    BY <1>5 DEF Continue, TypeOK
  <2>2. \A i \in 1..Len(<<w>>) : <<w>>[i] = w
    OBVIOUS
  <2>3. WaiterSole'
    BY <1>1, <1>2, <1>5, <2>1, <2>2 DEF WaiterSole
  <2> QED
    BY <1>2, <1>3, <2>1, <2>3 DEF QueueSole, SizesFit
<1>6. CASE ~(o >= Lengths[w]) /\ window # 0
  <2>1. /\ state'[w] = "sending" /\ queue' = Append(rest, w) /\ windowWaiters' = <<>>
        /\ size'[w] = ChunkSize(w, o, window)
    BY <1>6 DEF Continue, TypeOK
  <2>2. SizesFit'
    <3>1. /\ ChunkSize(w, o, window) \in 1..(Lengths[w] - o)
          /\ ChunkSize(w, o, window) <= window
      <4>1. 0 <= o /\ o < Lengths[w] /\ window > 0
        BY <1>6
      <4> QED
        BY <4>1, ChunkSizeFacts
    <3>2. /\ offset'[w] >= 0
          /\ size'[w] \in 1..(Lengths[w] - offset'[w])
          /\ size'[w] <= remoteWindow'
      BY <1>1, <2>1, <3>1
    <3> QED
      BY <1>2, <3>2 DEF SizesFit
  <2>3. w \in Callers
    BY DEF Callers
  <2>4. /\ Len(queue') = Len(rest) + 1 /\ Len(rest) \in Nat
        /\ queue'[Len(rest) + 1] = w
        /\ \A i \in 1..Len(rest) : queue'[i] = rest[i]
    BY <2>1, <2>3
  <2>5. \A i \in 1..Len(queue') : queue'[i] \in Writes => i = Len(rest) + 1
    BY <2>4
  <2>6. QueueSole'
    BY <2>1, <2>4, <2>5 DEF QueueSole
  <2> QED
    BY <1>2, <1>3, <2>1, <2>2, <2>6 DEF WaiterSole
<1> QED
  BY <1>4, <1>5, <1>6

(* A call settles, and write() does not go on: what is queued, waits and   *)
(* sends without overlap is what it was, or less.                          *)
LEMMA SettledSole ==
  ASSUME TypeOK, AtMostOne, QueueSole, WaiterSole, SizesFit,
         queue # <<>>, queue' = Tail(queue), UNCHANGED <<offset, size, remoteWindow>>,
         \A v \in Writes : state'[v] = "sending" => state[v] = "sending",
         \A v \in Writes : state'[v] = "waiting" => state[v] = "waiting",
         \A v \in Writes : v # Head(queue) /\ state[v] = "sending" => state'[v] = "sending",
         \/ /\ windowWaiters' = windowWaiters
            /\ \A v \in Writes : state[v] = "waiting" => state'[v] = "waiting"
         \/ /\ windowWaiters' = <<>>
            /\ \A v \in Writes : state'[v] # "waiting"
  PROVE  (AtMostOne /\ QueueSole /\ WaiterSole /\ SizesFit)'
<1>1. QueueSole'
  BY TailSole
<1>2. AtMostOne'
  BY DEF AtMostOne, Unsettled
<1>3. SizesFit'
  BY DEF SizesFit
<1>4. WaiterSole'
  <2>1. CASE /\ windowWaiters' = windowWaiters
             /\ \A v \in Writes : state[v] = "waiting" => state'[v] = "waiting"
    BY <2>1 DEF WaiterSole, TypeOK
  <2>2. CASE windowWaiters' = <<>> /\ \A v \in Writes : state'[v] # "waiting"
    BY <2>2 DEF WaiterSole
  <2> QED
    BY <2>1, <2>2
<1> QED
  BY <1>1, <1>2, <1>3, <1>4

(* Without overlap, a write that sends is alone: nobody waits, and nobody  *)
(* else is under way.                                                      *)
LEMMA SenderAlone ==
  ASSUME TypeOK, AtMostOne, WaiterSole, NEW w \in Writes, state[w] = "sending"
  PROVE  /\ windowWaiters = <<>>
         /\ \A v \in Writes : v # w => ~Unsettled(v)
<1>1. \A v \in Writes : v # w => ~Unsettled(v)
  BY DEF AtMostOne, Unsettled
<1>2. ASSUME windowWaiters # <<>>  PROVE FALSE
  <2>1. 1 \in 1..Len(windowWaiters) /\ windowWaiters[1] \in Writes
    BY <1>2 DEF TypeOK
  <2>2. state[windowWaiters[1]] = "waiting"
    BY <2>1 DEF WaiterSole
  <2> QED
    BY <1>1, <2>1, <2>2 DEF Unsettled
<1> QED
  BY <1>1, <1>2

(* When nobody is under way, no write is queued and nobody waits.          *)
LEMMA NobodyUnderWay ==
  ASSUME TypeOK, QueueSole, WaiterSole, \A v \in Writes : ~Unsettled(v)
  PROVE  /\ windowWaiters = <<>>
         /\ \A i \in 1..Len(queue) : queue[i] \notin Writes
<1>1. ASSUME windowWaiters # <<>>  PROVE FALSE
  <2>1. 1 \in 1..Len(windowWaiters) /\ windowWaiters[1] \in Writes
    BY <1>1 DEF TypeOK
  <2> QED
    BY <2>1 DEF WaiterSole, Unsettled
<1> QED
  BY <1>1 DEF QueueSole, Unsettled

(* A chunk is written, with nobody else under way.                         *)
LEMMA ChunkWrittenSole ==
  ASSUME TypeOK, StreamInv, SoleInv, WindowKept, ~overlapped,
         NEW w \in Writes, ChunkWritten(w)
  PROVE  (AtMostOne /\ QueueSole /\ WaiterSole /\ SizesFit)'
<1>1. AtMostOne /\ QueueSole /\ WaiterSole /\ SizesFit /\ remoteWindow >= 0
  BY DEF SoleInv, WindowKept
<1>2. queue # <<>> /\ Head(queue) = w /\ remoteWindow' = remoteWindow - size[w]
  BY DEF ChunkWritten, StreamInv
<1>3. state[w] = "sending"
  BY <1>1, <1>2, TailFacts DEF QueueSole
<1>4. windowWaiters = <<>> /\ \A v \in Writes : v # w => ~Unsettled(v)
  BY <1>1, <1>3, SenderAlone
<1>5. /\ offset[w] \in Nat /\ size[w] \in Nat /\ size[w] <= remoteWindow
      /\ remoteWindow \in Int
  BY <1>1, <1>3 DEF SizesFit, TypeOK
<1>6. /\ Tail(queue) \in Seq(Callers)
      /\ \A i \in 1..Len(Tail(queue)) : Tail(queue)[i] \notin Writes
  <2>1. Tail(queue) \in Seq(Callers)
    BY <1>2 DEF TypeOK
  <2>2. ASSUME NEW i \in 1..Len(Tail(queue)), Tail(queue)[i] \in Writes  PROVE FALSE
    <3>1. /\ i + 1 \in 1..Len(queue) /\ queue[i + 1] \in Writes /\ i + 1 # 1
          /\ 1 \in 1..Len(queue) /\ queue[1] \in Writes
      BY <1>2, <2>2, TailFacts
    <3> QED
      BY <1>1, <3>1 DEF QueueSole
  <2> QED
    BY <2>1, <2>2
<1>7. CASE ~closed
  <2>1. Continue(w, offset[w] + size[w], remoteWindow', Tail(queue))
    BY <1>7 DEF ChunkWritten
  <2>2. offset[w] + size[w] \in Nat /\ remoteWindow' \in Nat
    BY <1>2, <1>5
  <2> QED
    BY <1>4, <1>6, <2>1, <2>2, ContinueSole
<1>8. CASE closed
  <2>1. /\ queue' = Tail(queue) /\ windowWaiters' = <<>>
        /\ state'[w] \in {"done", "dropped"}
        /\ \A v \in Writes : v # w => state'[v] = state[v]
    BY <1>4, <1>8 DEF ChunkWritten, TypeOK
  <2>2. \A v \in Writes : state'[v] \notin {"waiting", "sending"}
    BY <1>4, <2>1 DEF Unsettled
  <2>3. QueueSole'
    BY <1>6, <2>1 DEF QueueSole
  <2> QED
    BY <2>1, <2>2, <2>3 DEF AtMostOne, Unsettled, WaiterSole, SizesFit
<1> QED
  BY <1>7, <1>8

(* An adjustment comes in, with at most one write under way.               *)
LEMMA PumpAdjustSole ==
  ASSUME TypeOK, SoleInv, WindowKept, ~overlapped,
         NEW n \in 1..granting, PumpAdjust(n)
  PROVE  (AtMostOne /\ QueueSole /\ WaiterSole /\ SizesFit)'
<1>1. AtMostOne /\ QueueSole /\ WaiterSole /\ SizesFit /\ remoteWindow >= 0
  BY DEF SoleInv, WindowKept
<1>2. /\ remoteWindow' = remoteWindow + n /\ remoteWindow \in Int /\ n \in Int /\ n > 0
      /\ remoteWindow' # 0 /\ remoteWindow' \in Int
  BY <1>1 DEF PumpAdjust, TypeOK
<1>3. /\ state' = [w \in Writes |-> IF w \in {windowWaiters[i] : i \in 1..Len(windowWaiters)}
                                   THEN "sending" ELSE state[w]]
      /\ size' = [w \in Writes |-> IF w \in {windowWaiters[i] : i \in 1..Len(windowWaiters)}
                                  THEN ChunkSize(w, offset[w], remoteWindow')
                                  ELSE size[w]]
      /\ queue' = queue \o windowWaiters
      /\ windowWaiters' = SubSeq(windowWaiters, Len(windowWaiters) + 1, Len(windowWaiters))
      /\ offset' = offset
  BY <1>2 DEF PumpAdjust, Woken
<1>4. windowWaiters' = <<>>
  BY <1>3 DEF TypeOK
<1>5. CASE windowWaiters = <<>>
  <2>1. /\ {windowWaiters[i] : i \in 1..Len(windowWaiters)} = {}
        /\ queue \o windowWaiters = queue
    BY <1>5 DEF TypeOK
  <2>2. queue' = queue /\ \A v \in Writes : state'[v] = state[v] /\ size'[v] = size[v]
    BY <1>3, <2>1
  <2>3. \A v \in Writes : state[v] # "waiting"
    BY <1>1, <1>5 DEF WaiterSole
  <2>4. AtMostOne' /\ QueueSole'
    BY <1>1, <2>2 DEF AtMostOne, Unsettled, QueueSole, TypeOK
  <2>5. WaiterSole'
    BY <1>4, <2>2, <2>3 DEF WaiterSole
  <2>6. SizesFit'
    BY <1>1, <1>2, <1>3, <2>2 DEF SizesFit, TypeOK
  <2> QED
    BY <2>4, <2>5, <2>6
<1>6. CASE windowWaiters # <<>>
  <2>1. PICK w \in Writes : state[w] = "waiting"
    <3>1. 1 \in 1..Len(windowWaiters) /\ windowWaiters[1] \in Writes
      BY <1>6 DEF TypeOK
    <3> QED
      BY <1>1, <3>1 DEF WaiterSole
  <2>2. /\ windowWaiters = <<w>> /\ remoteWindow = 0
        /\ offset[w] \in 0..(Lengths[w] - 1)
    BY <1>1, <2>1 DEF WaiterSole
  <2>3. {windowWaiters[i] : i \in 1..Len(windowWaiters)} = {w}
    <3>1. Len(<<w>>) = 1 /\ <<w>>[1] = w
      OBVIOUS
    <3> QED
      BY <2>2, <3>1
  <2>4. /\ state'[w] = "sending" /\ size'[w] = ChunkSize(w, offset[w], remoteWindow')
        /\ \A v \in Writes : v # w => state'[v] = state[v]
    BY <1>3, <2>3
  <2>5. \A v \in Writes : v # w => state'[v] \notin {"waiting", "sending"}
    BY <1>1, <2>1, <2>4 DEF AtMostOne, Unsettled
  <2>6. \A i \in 1..Len(queue) : queue[i] \notin Writes
    <3>1. ASSUME NEW i \in 1..Len(queue), queue[i] \in Writes  PROVE FALSE
      <4>1. state[queue[i]] = "sending"
        BY <1>1, <3>1 DEF QueueSole
      <4>2. queue[i] = w
        BY <1>1, <2>1, <3>1, <4>1 DEF AtMostOne, Unsettled
      <4> QED
        BY <2>1, <4>1, <4>2
    <3> QED
      BY <3>1
  <2>7. QueueSole'
    <3>1. w \in Callers /\ queue' = queue \o <<w>> /\ queue \in Seq(Callers)
      BY <1>3, <2>2 DEF Callers, TypeOK
    <3>2. /\ Len(queue') = Len(queue) + 1 /\ Len(queue) \in Nat
          /\ queue'[Len(queue) + 1] = w
          /\ \A i \in 1..Len(queue) : queue'[i] = queue[i]
      BY <3>1
    <3>3. \A i \in 1..Len(queue') : queue'[i] \in Writes => i = Len(queue) + 1
      BY <2>6, <3>2
    <3> QED
      BY <2>4, <3>2, <3>3 DEF QueueSole
  <2>8. SizesFit'
    <3>1. offset[w] \in Int /\ Lengths[w] \in Nat /\ 0 <= offset[w] /\ offset[w] < Lengths[w]
      BY <2>2, LengthsType
    <3>2. /\ ChunkSize(w, offset[w], remoteWindow') \in 1..(Lengths[w] - offset[w])
          /\ ChunkSize(w, offset[w], remoteWindow') <= remoteWindow'
      BY <1>2, <2>2, <3>1, ChunkSizeFacts
    <3>3. /\ offset'[w] >= 0 /\ size'[w] \in 1..(Lengths[w] - offset'[w])
          /\ size'[w] <= remoteWindow'
      BY <1>3, <2>4, <3>1, <3>2
    <3> QED
      BY <2>5, <3>3 DEF SizesFit
  <2>9. AtMostOne'
    BY <2>5 DEF AtMostOne, Unsettled
  <2>10. WaiterSole'
    BY <1>4, <2>4, <2>5 DEF WaiterSole
  <2> QED
    BY <2>7, <2>8, <2>9, <2>10
<1> QED
  BY <1>5, <1>6

(* Without overlap, at most one write is under way at a time, and its      *)
(* chunk fits the window, whatever step is taken.                          *)
LEMMA SoleStep ==
  ASSUME TypeOK, StreamInv, SoleInv, WindowKept, [Next]_vars
  PROVE  SoleInv'
<1> USE DEF writeVars, pumpVars, serverVars
<1> DEFINE Sole == AtMostOne /\ QueueSole /\ WaiterSole /\ SizesFit
<1> SUFFICES ASSUME ~overlapped'  PROVE Sole'
  BY DEF SoleInv
<1>1. ~overlapped
  BY DEF Next, Settle, vars, StartWrite, Resize, Close, Hand, Refused, WriteFails,
         ReplyWritten, ResizeWritten, CloseWritten, ChunkWritten, PumpData, PumpAdjust,
         PumpRequest, PumpEnds, Grant, ServerSends
<1>2. Sole /\ remoteWindow >= 0
  BY <1>1 DEF SoleInv, WindowKept
<1> HIDE DEF Sole
<1>3. AtMostOne /\ QueueSole /\ WaiterSole /\ SizesFit
  BY <1>2 DEF Sole
<1>4. ASSUME NEW w \in Writes, StartWrite(w)  PROVE Sole'
  <2>1. \A v \in Writes : ~Unsettled(v)
    BY <1>4 DEF StartWrite
  <2>2. windowWaiters = <<>> /\ \A i \in 1..Len(queue) : queue[i] \notin Writes
    BY <1>3, <2>1, NobodyUnderWay
  <2>3. /\ Continue(w, 0, remoteWindow, queue) /\ remoteWindow' = remoteWindow
        /\ remoteWindow \in Nat /\ queue \in Seq(Callers) /\ 0 \in Nat
    BY <1>2, <1>4 DEF StartWrite, TypeOK
  <2> QED
    BY <2>1, <2>2, <2>3, ContinueSole DEF Sole
<1>5. ASSUME NEW c \in Callers \ Writes, queue' = Append(queue, c),
             UNCHANGED <<writeVars, remoteWindow>>
      PROVE  Sole'
  <2>1. QueueSole'
    BY <1>3, <1>5, AppendSole
  <2> QED
    BY <1>3, <1>5, <2>1 DEF Sole, AtMostOne, Unsettled, WaiterSole, SizesFit
<1>6. /\ Pump \in Callers \ Writes /\ Closer \in Callers \ Writes
      /\ \A z \in Resizes : z \in Callers \ Writes
  BY CallersAssumption DEF Callers
<1>7. ASSUME NEW z \in Resizes, Resize(z)  PROVE Sole'
  BY <1>5, <1>6, <1>7 DEF Resize
<1>8. CASE Close
  BY <1>5, <1>6, <1>8 DEF Close
<1>9. CASE PumpRequest
  BY <1>5, <1>6, <1>9 DEF PumpRequest
<1>10. ASSUME UNCHANGED <<writeVars, remoteWindow, queue>>  PROVE Sole'
  BY <1>3, <1>10 DEF Sole, AtMostOne, Unsettled, QueueSole, WaiterSole, SizesFit
<1>11. ASSUME NEW n \in 1..arriving, PumpData(n)  PROVE Sole'
  BY <1>5, <1>6, <1>10, <1>11 DEF PumpData
<1>12. CASE UNCHANGED vars
  BY <1>10, <1>12 DEF vars
<1>22. CASE Hand
  BY <1>10, <1>22 DEF Hand
<1>23. ASSUME NEW n \in 1..MAX_CREDIT, Grant(n)  PROVE Sole'
  BY <1>10, <1>23 DEF Grant
<1>24. ASSUME NEW n \in 1..LOCAL_WINDOW, ServerSends(n)  PROVE Sole'
  BY <1>10, <1>24 DEF ServerSends
<1>13. ASSUME NEW n \in 1..granting, PumpAdjust(n)  PROVE Sole'
  BY <1>1, <1>13, PumpAdjustSole DEF Sole
<1>14. ASSUME NEW w \in Writes, ChunkWritten(w)  PROVE Sole'
  BY <1>1, <1>14, ChunkWrittenSole DEF Sole
<1>15. ASSUME queue # <<>>, queue' = Tail(queue),
              Finish \/ UNCHANGED <<closed, state, windowWaiters>>,
              UNCHANGED <<offset, size, remoteWindow>>
       PROVE  Sole'
  <2>1. CASE UNCHANGED <<closed, state, windowWaiters>>
    BY <1>3, <1>15, <2>1, SettledSole DEF Sole
  <2>2. CASE Finish
    <3>1. /\ \A w \in Writes : state'[w] # "waiting"
          /\ \A w \in Writes : state'[w] = "sending" <=> state[w] = "sending"
          /\ (windowWaiters' = windowWaiters /\ state' = state) \/ windowWaiters' = <<>>
      BY <2>2, FinishFacts
    <3>2. CASE windowWaiters' = windowWaiters /\ state' = state
      BY <1>3, <1>15, <3>2, SettledSole DEF Sole
    <3>3. CASE windowWaiters' = <<>>
      BY <1>3, <1>15, <3>1, <3>3, SettledSole DEF Sole
    <3> QED
      BY <3>1, <3>2, <3>3
  <2> QED
    BY <1>15, <2>1, <2>2
<1>16. ASSUME queue # <<>>, Reject, UNCHANGED <<offset, size, remoteWindow>>  PROVE Sole'
  <2>1. CASE Head(queue) \in Writes
    <3>1. /\ queue' = Tail(queue) /\ windowWaiters' = windowWaiters
          /\ state' = [state EXCEPT ![Head(queue)] = "dropped"]
          /\ state[Head(queue)] = "sending"
      BY <1>3, <1>16, <2>1, TailFacts DEF Reject, QueueSole
    <3>2. /\ \A v \in Writes : state'[v] = "sending" => state[v] = "sending"
          /\ \A v \in Writes : state'[v] = "waiting" <=> state[v] = "waiting"
          /\ \A v \in Writes : v # Head(queue) /\ state[v] = "sending" =>
                                     state'[v] = "sending"
      BY <2>1, <3>1 DEF TypeOK
    <3> QED
      BY <1>3, <1>16, <3>1, <3>2, SettledSole DEF Sole
  <2>2. CASE Head(queue) \notin Writes
    BY <1>15, <1>16, <2>2 DEF Reject
  <2> QED
    BY <2>1, <2>2
<1>17. CASE Refused
  BY <1>16, <1>17 DEF Refused
<1>18. CASE WriteFails
  BY <1>16, <1>18 DEF WriteFails, StreamInv
<1>19. CASE ReplyWritten \/ ResizeWritten
  BY <1>15, <1>19 DEF ReplyWritten, ResizeWritten, StreamInv
<1>20. CASE CloseWritten
  BY <1>15, <1>20 DEF CloseWritten, StreamInv
<1>21. CASE PumpEnds
  <2>1. /\ \A w \in Writes : state'[w] # "waiting"
        /\ \A w \in Writes : state'[w] = "sending" <=> state[w] = "sending"
        /\ windowWaiters' = <<>> /\ queue' = queue
        /\ UNCHANGED <<offset, size, remoteWindow>>
    BY <1>21, FinishFacts DEF PumpEnds, Reading
  <2> QED
    BY <1>3, <2>1 DEF Sole, AtMostOne, Unsettled, QueueSole, WaiterSole, SizesFit
<1> QED
  BY <1>4, <1>7, <1>8, <1>9, <1>11, <1>12, <1>13, <1>14, <1>17, <1>18, <1>19, <1>20, <1>21,
     <1>22, <1>23, <1>24
  DEF Next, Settle

(* The window: a chunk takes as much of the server's window as of ours,    *)
(* and an adjustment adds here what was granted there.                     *)
LEMMA WindowStep ==
  ASSUME TypeOK, StreamInv, SoleInv, WindowKept, [Next]_vars
  PROVE  WindowKept'
<1> USE DEF writeVars, pumpVars, serverVars
<1> SUFFICES ASSUME ~overlapped'  PROVE (remoteWindow >= 0 /\ credit = remoteWindow + granting)'
  BY DEF WindowKept
<1> DEFINE Kept == remoteWindow >= 0 /\ credit = remoteWindow + granting
<1>1. ~overlapped
  BY DEF Next, Settle, vars, StartWrite, Resize, Close, Hand, Refused, WriteFails,
         ReplyWritten, ResizeWritten, CloseWritten, ChunkWritten, PumpData, PumpAdjust,
         PumpRequest, PumpEnds, Grant, ServerSends
<1>2. Kept /\ remoteWindow \in Int /\ credit \in Int /\ granting \in Int
  BY <1>1 DEF WindowKept, TypeOK
<1>3. ASSUME NEW w \in Writes, ChunkWritten(w)  PROVE Kept'
  <2>1. queue # <<>> /\ Head(queue) = w
    BY <1>3 DEF ChunkWritten, StreamInv
  <2>2. state[w] = "sending"
    BY <1>1, <2>1, TailFacts DEF SoleInv, QueueSole
  <2>3. /\ offset[w] >= 0 /\ size[w] \in 1..(Lengths[w] - offset[w])
        /\ size[w] <= remoteWindow
    BY <1>1, <2>2 DEF SoleInv, SizesFit
  <2>4. Len(Chunk(w)) = size[w] /\ size[w] \in Int
    BY <2>3, ChunkLength DEF TypeOK
  <2>5. /\ remoteWindow' = remoteWindow - size[w] /\ credit' = credit - size[w]
        /\ granting' = granting
    BY <1>3, <2>4 DEF ChunkWritten
  <2> QED
    BY <1>2, <2>3, <2>4, <2>5
<1>4. ASSUME NEW n \in 1..granting, PumpAdjust(n)  PROVE Kept'
  <2>1. /\ remoteWindow' = remoteWindow + n /\ granting' = granting - n
        /\ credit' = credit
    BY <1>4 DEF PumpAdjust
  <2> QED
    BY <1>2, <2>1
<1>5. ASSUME NEW n \in 1..MAX_CREDIT, Grant(n)  PROVE Kept'
  <2>1. /\ remoteWindow' = remoteWindow /\ granting' = granting + n
        /\ credit' = credit + n
    BY <1>5 DEF Grant
  <2> QED
    BY <1>2, <2>1
<1>6. CASE UNCHANGED <<remoteWindow, credit, granting>>
  BY <1>2, <1>6
<1> QED
  BY <1>3, <1>4, <1>5, <1>6
  DEF Next, Settle, vars, StartWrite, Resize, Close, Hand, Refused, WriteFails,
      ReplyWritten, ResizeWritten, CloseWritten, PumpData, PumpRequest, PumpEnds,
      ServerSends

-----------------------------------------------------------------------------
(* The input: what is expected next, and who may send it.                  *)

(* The byte that the server gets next, if the user's input is in order.    *)
Follows(byte) ==
    IF byte[2] + 1 < Lengths[byte[1]] THEN <<byte[1], byte[2] + 1>> ELSE <<byte[1] + 1, 0>>

Expected == IF got = <<>> THEN <<1, 0>> ELSE Follows(got[Len(got)])

(* Writes begin in order, and without overlap none is under way when the   *)
(* next begins.                                                            *)
BeginInOrder ==
    \A v, w \in Writes : v < w =>
        /\ state[w] # "unsent" => state[v] # "unsent"
        /\ Unsettled(v) => state[w] = "unsent"

(* A chunk may still reach the server.                                     *)
MaySend == ~broken /\ (~closed \/ (held /\ Head(queue) \in Writes))

(* As long as one may, the byte it begins with is the one expected.        *)
Prompt ==
    MaySend => \A w \in Writes :
        /\ Unsettled(w) => Expected = <<w, offset[w]>>
        /\ /\ state[w] = "unsent"
           /\ \A v \in 1..(w - 1) : state[v] # "unsent"
           /\ \A v \in Writes : ~Unsettled(v)
           => Expected = <<w, 0>>

InputInv ==
    /\ broken => ~held
    /\ ~overlapped => BeginInOrder /\ Prompt

(* Only StartWrite takes a write from the unsent ones.                     *)
LEMMA StateMoves ==
  ASSUME TypeOK, StreamInv, SoleInv, ~overlapped, [Next]_vars,
         \A w \in Writes : ~StartWrite(w)
  PROVE  \A v \in Writes : /\ state'[v] = "unsent" <=> state[v] = "unsent"
                           /\ Unsettled(v)' => Unsettled(v)
<1> USE DEF writeVars, pumpVars, serverVars, Unsettled
<1> DEFINE Moves == \A v \in Writes : /\ state'[v] = "unsent" <=> state[v] = "unsent"
                                      /\ Unsettled(v)' => Unsettled(v)
<1>1. QueueSole /\ WaiterSole
  BY DEF SoleInv
<1>2. ASSUME Finish  PROVE Moves
  <2>1. CASE closed
    BY <1>2, <2>1 DEF Finish
  <2>2. CASE ~closed
    BY <1>2, <2>2 DEF Finish, WaitersReturn
  <2> QED
    BY <2>1, <2>2
<1>3. ASSUME queue # <<>>, Reject  PROVE Moves
  <2>1. CASE Head(queue) \in Writes
    <3>1. state[Head(queue)] = "sending"
      BY <1>1, <1>3, <2>1, TailFacts DEF QueueSole
    <3>2. state' = [state EXCEPT ![Head(queue)] = "dropped"]
      BY <1>3, <2>1 DEF Reject
    <3> QED
      BY <3>1, <3>2 DEF TypeOK
  <2>2. CASE Head(queue) \notin Writes
    BY <1>2, <1>3, <2>2 DEF Reject
  <2> QED
    BY <2>1, <2>2
<1>4. CASE Refused
  BY <1>3, <1>4 DEF Refused
<1>5. CASE WriteFails
  BY <1>3, <1>5 DEF WriteFails, StreamInv
<1>6. CASE CloseWritten
  BY <1>2, <1>6 DEF CloseWritten
<1>7. CASE PumpEnds
  BY <1>2, <1>7 DEF PumpEnds
<1>8. ASSUME NEW w \in Writes, ChunkWritten(w)  PROVE Moves
  <2>1. state[w] = "sending"
    BY <1>1, <1>8, TailFacts DEF ChunkWritten, StreamInv, QueueSole
  <2>2. \A v \in Writes : v # w => state'[v] = state[v]
    BY <1>8 DEF ChunkWritten, Continue, TypeOK
  <2>3. state'[w] # "unsent"
    BY <1>8 DEF ChunkWritten, Continue, TypeOK
  <2> QED
    BY <2>1, <2>2, <2>3
<1>9. ASSUME NEW n \in 1..granting, PumpAdjust(n)  PROVE Moves
  <2>1. CASE state' = state
    BY <2>1
  <2>2. CASE state' # state
    <3>1. state' = [w \in Writes |-> IF w \in {windowWaiters[i] : i \in 1..Len(windowWaiters)}
                                     THEN "sending" ELSE state[w]]
      BY <1>9, <2>2 DEF PumpAdjust, Woken
    <3>2. \A w \in {windowWaiters[i] : i \in 1..Len(windowWaiters)} : state[w] = "waiting"
      BY <1>1 DEF WaiterSole
    <3> QED
      BY <3>1, <3>2
  <2> QED
    BY <2>1, <2>2
<1>10. CASE UNCHANGED state
  BY <1>10
<1> QED
  BY <1>4, <1>5, <1>6, <1>7, <1>8, <1>9, <1>10
  DEF Next, Settle, vars, Resize, Close, Hand, ReplyWritten, ResizeWritten, PumpData,
      PumpRequest, Grant, ServerSends

LEMMA BeginStep ==
  ASSUME TypeOK, StreamInv, SoleInv, BeginInOrder, ~overlapped, ~overlapped', [Next]_vars
  PROVE  BeginInOrder'
<1>1. CASE \A w \in Writes : ~StartWrite(w)
  BY <1>1, StateMoves DEF BeginInOrder
<1>2. ASSUME NEW w \in Writes, StartWrite(w)  PROVE BeginInOrder'
  <2>1. /\ \A v \in Writes : ~Unsettled(v)
        /\ \A v \in Writes : v < w => state[v] # "unsent"
        /\ state[w] = "unsent"
    <3>1. ASSUME NEW v \in Writes, v < w  PROVE v \in 1..(w - 1)
      BY <3>1, LengthsAssumption DEF Writes
    <3>2. \A v \in Writes : ~Unsettled(v)
      BY <1>2 DEF StartWrite
    <3> QED
      BY <1>2, <3>1, <3>2 DEF StartWrite
  <2>2. \A v \in Writes : v # w => state'[v] = state[v]
    BY <1>2 DEF StartWrite, Continue, TypeOK
  <2>3. state'[w] # "unsent"
    BY <1>2 DEF StartWrite, Continue, TypeOK
  <2>4. \A v \in Writes : w < v => state[v] = "unsent"
    BY <2>1 DEF BeginInOrder
  <2>5. ASSUME NEW u \in Writes, NEW v \in Writes, u < v
        PROVE  /\ state'[v] # "unsent" => state'[u] # "unsent"
               /\ Unsettled(u)' => state'[v] = "unsent"
    <3>1. CASE v = w
      BY <2>1, <2>2, <2>5, <3>1 DEF Unsettled, Writes
    <3>2. CASE u = w
      BY <2>3, <2>2, <2>4, <2>5, <3>2 DEF Writes
    <3>3. CASE u # w /\ v # w
      BY <2>1, <2>2, <2>5, <3>3 DEF Unsettled, BeginInOrder
    <3> QED
      BY <3>1, <3>2, <3>3
  <2> QED
    BY <2>5 DEF BeginInOrder
<1> QED
  BY <1>1, <1>2

(* As long as a chunk may still reach the server, no other step changes    *)
(* what is expected, or who has it.                                        *)
LEMMA OtherSteps ==
  ASSUME TypeOK, StreamInv, SoleInv, ~overlapped, [Next]_vars, MaySend', broken => ~held,
         \A w \in Writes : ~StartWrite(w), \A w \in Writes : ~ChunkWritten(w)
  PROVE  /\ MaySend /\ UNCHANGED <<got, offset>>
         /\ \A v \in Writes : Unsettled(v)' <=> Unsettled(v)
<1> USE DEF writeVars, pumpVars, serverVars, Unsettled
<1> DEFINE Same == /\ MaySend /\ UNCHANGED <<got, offset>>
                   /\ \A v \in Writes : Unsettled(v)' <=> Unsettled(v)
<1>1. AtMostOne /\ QueueSole /\ WaiterSole
  BY DEF SoleInv
<1>2. ~broken' /\ (closed' => held' /\ Head(queue') \in Writes)
  BY DEF MaySend
<1>3. ASSUME NEW c \in Callers, queue' = Append(queue, c),
             UNCHANGED <<state, offset, got, closed, broken, held>>
      PROVE  Same
  <2>1. queue # <<>> => Head(queue') = Head(queue)
    BY <1>3 DEF TypeOK
  <2> QED
    BY <1>2, <1>3, <2>1 DEF MaySend, StreamInv
<1>4. ASSUME UNCHANGED <<state, offset, got, closed, broken, held, queue>>  PROVE Same
  BY <1>2, <1>4 DEF MaySend
<1>5. /\ Pump \in Callers /\ Closer \in Callers /\ \A z \in Resizes : z \in Callers
  BY DEF Callers
<1>6. ASSUME NEW z \in Resizes, Resize(z)  PROVE Same
  BY <1>3, <1>5, <1>6 DEF Resize
<1>7. CASE Close \/ PumpRequest
  BY <1>3, <1>5, <1>7 DEF Close, PumpRequest
<1>8. ASSUME NEW n \in 1..arriving, PumpData(n)  PROVE Same
  BY <1>3, <1>4, <1>5, <1>8 DEF PumpData
<1>9. CASE Hand
  BY <1>2, <1>9 DEF Hand, CanSend, MaySend
<1>10. CASE Refused
  BY <1>2, <1>10 DEF Refused, Reject, Finish, CanSend
<1>11. CASE WriteFails
  BY <1>2, <1>11 DEF WriteFails
<1>12. CASE ReplyWritten \/ ResizeWritten
  BY <1>2, <1>12 DEF ReplyWritten, ResizeWritten, MaySend
<1>13. CASE CloseWritten
  BY <1>2, <1>13, FinishFacts DEF CloseWritten
<1>14. ASSUME NEW n \in 1..granting, PumpAdjust(n)  PROVE Same
  <2>1. MaySend /\ UNCHANGED <<got, offset>>
    BY <1>2, <1>14 DEF PumpAdjust, Reading, MaySend
  <2>2. CASE state' = state
    BY <2>1, <2>2
  <2>3. CASE state' # state
    <3>1. state' = [w \in Writes |-> IF w \in {windowWaiters[i] : i \in 1..Len(windowWaiters)}
                                     THEN "sending" ELSE state[w]]
      BY <1>14, <2>3 DEF PumpAdjust, Woken
    <3>2. \A w \in {windowWaiters[i] : i \in 1..Len(windowWaiters)} : state[w] = "waiting"
      BY <1>1 DEF WaiterSole
    <3> QED
      BY <2>1, <3>1, <3>2
  <2> QED
    BY <2>2, <2>3
<1>15. CASE PumpEnds
  <2>1. /\ Finish /\ closed' = TRUE /\ ~closed
        /\ UNCHANGED <<got, offset, broken, held, queue>>
    BY <1>15, FinishFacts DEF PumpEnds, Reading
  <2>2. held /\ Head(queue) \in Writes /\ MaySend
    BY <1>2, <2>1 DEF MaySend
  <2>3. state[Head(queue)] = "sending"
    BY <1>1, <2>2, TailFacts DEF StreamInv, QueueSole
  <2>4. \A v \in Writes : state[v] # "waiting"
    BY <1>1, <2>2, <2>3 DEF AtMostOne
  <2>5. \A v \in Writes : state'[v] = state[v]
    BY <2>1, <2>4 DEF Finish, WaitersReturn
  <2> QED
    BY <2>1, <2>2, <2>5
<1>16. ASSUME NEW n \in 1..MAX_CREDIT, Grant(n)  PROVE Same
  BY <1>4, <1>16 DEF Grant
<1>17. ASSUME NEW n \in 1..LOCAL_WINDOW, ServerSends(n)  PROVE Same
  BY <1>4, <1>17 DEF ServerSends
<1>18. CASE UNCHANGED vars
  BY <1>4, <1>18 DEF vars
<1> QED
  BY <1>6, <1>7, <1>8, <1>9, <1>10, <1>11, <1>12, <1>13, <1>14, <1>15, <1>16, <1>17, <1>18
  DEF Next, Settle

(* A chunk reaches the server, without overlap: it is what was expected,   *)
(* and what is expected next is what follows its last byte.                *)
LEMMA ChunkAppended ==
  ASSUME TypeOK, StreamInv, SoleInv, InputInv, ~overlapped,
         NEW w \in Writes, ChunkWritten(w)
  PROVE  /\ state[w] = "sending" /\ offset[w] \in Nat /\ Lengths[w] \in Nat
         /\ size[w] \in Nat /\ 1 <= size[w] /\ offset[w] + size[w] <= Lengths[w]
         /\ Expected = <<w, offset[w]>>
         /\ got' \in Seq(Writes \X Nat) /\ Len(got') = Len(got) + size[w]
         /\ \A k \in 1..Len(got) : got'[k] = got[k]
         /\ \A i \in 1..size[w] : got'[Len(got) + i] = <<w, offset[w] + i - 1>>
<1>1. held /\ Head(queue) = w /\ queue # <<>> /\ got' = got \o Chunk(w)
  BY DEF ChunkWritten, StreamInv
<1>2. state[w] = "sending"
  BY <1>1, TailFacts DEF SoleInv, QueueSole
<1>3. MaySend
  BY <1>1 DEF InputInv, MaySend
<1>4. Expected = <<w, offset[w]>>
  BY <1>2, <1>3 DEF InputInv, Prompt, Unsettled
<1>5. offset[w] \in Nat /\ Lengths[w] \in Nat /\ size[w] \in 1..(Lengths[w] - offset[w])
  BY <1>2, LengthsType DEF SoleInv, SizesFit, TypeOK
<1>6. /\ Chunk(w) = [i \in 1..size[w] |-> <<w, offset[w] + i - 1>>]
      /\ Len(Chunk(w)) = size[w]
  BY <1>5, ChunkLength
<1>7. got \in Seq(Writes \X Nat) /\ Chunk(w) \in Seq(Writes \X Nat)
  BY ChunkType DEF TypeOK
<1>8. /\ got' \in Seq(Writes \X Nat) /\ Len(got') = Len(got) + Len(Chunk(w))
      /\ \A k \in 1..Len(got) : got'[k] = got[k]
      /\ \A i \in 1..Len(Chunk(w)) : got'[Len(got) + i] = Chunk(w)[i]
  BY <1>1, <1>7
<1>9. size[w] \in Nat /\ 1 <= size[w] /\ offset[w] + size[w] <= Lengths[w]
  <2> DEFINE o == offset[w]
             n == size[w]
  <2>1. o \in Nat /\ Lengths[w] \in Nat /\ n \in 1..(Lengths[w] - o)
    BY <1>5
  <2> HIDE DEF o, n
  <2>2. n \in Nat /\ 1 <= n /\ o + n <= Lengths[w]
    BY <2>1
  <2> QED
    BY <2>2 DEF o, n
<1> QED
  BY <1>2, <1>4, <1>5, <1>6, <1>8, <1>9

LEMMA PromptStep ==
  ASSUME TypeOK, StreamInv, SoleInv, InputInv, ~overlapped, ~overlapped', [Next]_vars
  PROVE  Prompt'
<1> SUFFICES ASSUME MaySend'
             PROVE  (\A w \in Writes :
                       /\ Unsettled(w) => Expected = <<w, offset[w]>>
                       /\ /\ state[w] = "unsent"
                          /\ \A v \in 1..(w - 1) : state[v] # "unsent"
                          /\ \A v \in Writes : ~Unsettled(v)
                          => Expected = <<w, 0>>)'
  BY DEF Prompt
<1>1. BeginInOrder /\ Prompt /\ (broken => ~held)
  BY DEF InputInv
<1>2. ASSUME NEW w \in Writes, StartWrite(w)
      PROVE  \A v \in Writes : /\ Unsettled(v)' => Expected' = <<v, offset'[v]>>
                               /\ \E u \in Writes : Unsettled(u)'
  <2>1. /\ state[w] = "unsent" /\ \A v \in 1..(w - 1) : state[v] # "unsent"
        /\ \A v \in Writes : ~Unsettled(v)
        /\ ~closed /\ broken' = broken /\ got' = got
        /\ Continue(w, 0, remoteWindow, queue)
    BY <1>2 DEF StartWrite
  <2>2. Expected = <<w, 0>>
    BY <1>1, <2>1 DEF MaySend, Prompt
  <2>3. /\ offset'[w] = 0 /\ state'[w] \in {"waiting", "sending"}
        /\ \A v \in Writes : v # w => state'[v] = state[v]
    <3>1. ~(0 >= Lengths[w])
      BY LengthsType
    <3> QED
      BY <2>1, <3>1 DEF Continue, TypeOK
  <2>4. Expected' = Expected
    BY <2>1 DEF Expected, Follows
  <2> QED
    BY <2>1, <2>2, <2>3, <2>4 DEF Unsettled
<1>3. ASSUME NEW w \in Writes, ChunkWritten(w), NEW v \in Writes
      PROVE  /\ Unsettled(v)' => Expected' = <<v, offset'[v]>>
             /\ /\ state'[v] = "unsent"
                /\ \A u \in 1..(v - 1) : state'[u] # "unsent"
                /\ \A u \in Writes : ~Unsettled(u)'
                => Expected' = <<v, 0>>
  <2> DEFINE o == offset[w] + size[w]
  <2>1. ~closed /\ Continue(w, o, remoteWindow', Tail(queue))
    BY <1>3 DEF ChunkWritten, MaySend
  <2>2. /\ state[w] = "sending" /\ Lengths[w] \in Nat /\ o \in 1..Lengths[w]
        /\ got' # <<>> /\ got'[Len(got')] = <<w, o - 1>>
    <3> DEFINE n == size[w]
               before == offset[w]
               length == Len(got)
    <3>1. /\ state[w] = "sending" /\ before \in Nat /\ Lengths[w] \in Nat
          /\ n \in Nat /\ 1 <= n /\ before + n <= Lengths[w]
          /\ got' \in Seq(Writes \X Nat) /\ Len(got') = length + n
          /\ \A i \in 1..n : got'[length + i] = <<w, before + i - 1>>
      BY <1>3, ChunkAppended
    <3>2. length \in Nat
      BY DEF TypeOK
    <3>3. o = before + n
      OBVIOUS
    <3> HIDE DEF n, before, length, o
    <3>4. n \in 1..n /\ o \in 1..Lengths[w] /\ length + n > 0
      BY <3>1, <3>2, <3>3
    <3>5. got' # <<>>
      BY <3>1, <3>4
    <3>6. got'[length + n] = <<w, o - 1>>
      BY <3>1, <3>4, <3>3
    <3> QED
      BY <3>1, <3>4, <3>5, <3>6
  <2> HIDE DEF o
  <2>3. Expected' = IF o < Lengths[w] THEN <<w, o>> ELSE <<w + 1, 0>>
    <3>1. Expected' = Follows(<<w, o - 1>>)
      BY <2>2 DEF Expected, Follows
    <3>2. o - 1 + 1 = o
      BY <2>2
    <3> QED
      BY <3>1, <3>2 DEF Follows
  <2>4. o \in Int /\ Lengths[w] \in Int
    BY <2>2
  <2>5. \A u \in Writes : u # w => ~Unsettled(u) /\ state'[u] = state[u]
    <3>1. \A u \in Writes : u # w => ~Unsettled(u)
      BY <2>2 DEF SoleInv, AtMostOne, Unsettled
    <3> QED
      BY <2>1, <3>1 DEF Continue, TypeOK
  <2>6. CASE o < Lengths[w]
    <3>1. ~(o >= Lengths[w])
      BY <2>4, <2>6
    <3>2. offset'[w] = o /\ state'[w] \in {"waiting", "sending"}
      BY <2>1, <3>1 DEF Continue, TypeOK
    <3> QED
      BY <2>3, <2>5, <2>6, <3>2 DEF Unsettled
  <2>7. CASE ~(o < Lengths[w])
    <3>1. state'[w] = "done"
      <4>1. o >= Lengths[w]
        BY <2>4, <2>7
      <4> QED
        BY <2>1, <4>1 DEF Continue, TypeOK
    <3>2. ~Unsettled(v)'
      BY <2>5, <3>1 DEF Unsettled
    <3>3. ASSUME state'[v] = "unsent", \A u \in 1..(v - 1) : state'[u] # "unsent"
          PROVE  v = w + 1
      <4>1. v # w /\ state[v] = "unsent"
        BY <2>5, <3>1, <3>3
      <4>2. w < v
        <5>1. v \in Int /\ w \in Int
          BY LengthsAssumption DEF Writes
        <5>2. ~(v < w)
          BY <2>2, <4>1, <1>1 DEF BeginInOrder
        <5> QED
          BY <4>1, <5>1, <5>2
      <4>3. ASSUME w + 1 < v  PROVE FALSE
        <5>1. w + 1 \in Writes /\ w + 1 \in 1..(v - 1) /\ w < w + 1
          BY <4>3, LengthsAssumption DEF Writes
        <5>2. state[w + 1] = "unsent"
          BY <1>1, <2>2, <5>1 DEF BeginInOrder, Unsettled
        <5>3. state'[w + 1] = "unsent"
          BY <2>5, <5>1, <5>2
        <5> QED
          BY <3>3, <5>1, <5>3
      <4> QED
        BY <4>2, <4>3, LengthsAssumption DEF Writes
    <3> QED
      BY <2>3, <2>7, <3>2, <3>3
  <2> QED
    BY <2>6, <2>7
<1>4. CASE /\ \A w \in Writes : ~StartWrite(w)
           /\ \A w \in Writes : ~ChunkWritten(w)
  <2>1. /\ MaySend /\ UNCHANGED <<got, offset>>
        /\ \A v \in Writes : Unsettled(v)' <=> Unsettled(v)
    BY <1>1, <1>4, OtherSteps
  <2>2. \A v \in Writes : state'[v] = "unsent" <=> state[v] = "unsent"
    BY <1>4, StateMoves
  <2>3. Expected' = Expected
    BY <2>1 DEF Expected, Follows
  <2>4. ASSUME NEW w \in Writes, \A v \in 1..(w - 1) : state'[v] # "unsent"
        PROVE  \A v \in 1..(w - 1) : state[v] # "unsent"
    <3>1. ASSUME NEW v \in 1..(w - 1)  PROVE v \in Writes
      BY <3>1, LengthsAssumption DEF Writes
    <3> QED
      BY <2>2, <2>4, <3>1
  <2> QED
    BY <1>1, <2>1, <2>2, <2>3, <2>4 DEF Prompt
<1> QED
  BY <1>2, <1>3, <1>4

LEMMA InputStep ==
  ASSUME TypeOK, StreamInv, SoleInv, InputInv, [Next]_vars
  PROVE  InputInv'
<1> USE DEF writeVars, pumpVars, serverVars
<1>1. broken' => ~held'
  BY DEF InputInv, Next, Settle, vars, StartWrite, Resize, Close, Hand, CanSend, Refused,
         WriteFails, ReplyWritten, ResizeWritten, CloseWritten, ChunkWritten, PumpData,
         PumpAdjust, PumpRequest, PumpEnds, Grant, ServerSends
<1>2. ASSUME ~overlapped'  PROVE ~overlapped
  BY <1>2 DEF Next, Settle, vars, StartWrite, Resize, Close, Hand, Refused, WriteFails,
         ReplyWritten, ResizeWritten, CloseWritten, ChunkWritten, PumpData, PumpAdjust,
         PumpRequest, PumpEnds, Grant, ServerSends
<1> QED
  BY <1>1, <1>2, BeginStep, PromptStep DEF InputInv

(* What the server gets grows by the bytes that are expected.              *)
LEMMA OrderStep ==
  ASSUME TypeOK, StreamInv, SoleInv, InputInv, InputInOrder, [Next]_vars
  PROVE  InputInOrder'
<1> USE DEF writeVars, pumpVars, serverVars
<1> SUFFICES ASSUME ~overlapped'
             PROVE  /\ got' # <<>> => got'[1] = <<1, 0>>
                    /\ \A k \in 1..(Len(got') - 1) : got'[k + 1] = Follows(got'[k])
  BY DEF InputInOrder, Follows
<1>1. ~overlapped
  BY DEF Next, Settle, vars, StartWrite, Resize, Close, Hand, Refused, WriteFails,
         ReplyWritten, ResizeWritten, CloseWritten, ChunkWritten, PumpData, PumpAdjust,
         PumpRequest, PumpEnds, Grant, ServerSends
<1>2. /\ got # <<>> => got[1] = <<1, 0>>
      /\ \A k \in 1..(Len(got) - 1) : got[k + 1] = Follows(got[k])
  BY <1>1 DEF InputInOrder, Follows
<1>3. ASSUME NEW w \in Writes, ChunkWritten(w)
      PROVE  /\ got' # <<>> => got'[1] = <<1, 0>>
             /\ \A k \in 1..(Len(got') - 1) : got'[k + 1] = Follows(got'[k])
  <2> DEFINE o == offset[w]
             n == size[w]
             length == Len(got)
  <2>1. /\ o \in Nat /\ n \in Nat /\ 1 <= n /\ Lengths[w] \in Nat /\ o + n <= Lengths[w]
        /\ Expected = <<w, o>>
        /\ got' \in Seq(Writes \X Nat) /\ Len(got') = length + n
        /\ \A k \in 1..length : got'[k] = got[k]
        /\ \A i \in 1..n : got'[length + i] = <<w, o + i - 1>>
    BY <1>1, <1>3, ChunkAppended
  <2>2. /\ length \in Nat /\ (got = <<>> <=> length = 0)
        /\ Expected = IF got = <<>> THEN <<1, 0>> ELSE Follows(got[length])
        /\ \A k \in 1..(length - 1) : got[k + 1] = Follows(got[k])
    BY <1>2 DEF TypeOK, Expected
  <2> HIDE DEF o, n, length
  <2>3. got'[length + 1] = Expected
    <3>1. 1 \in 1..n /\ o + 1 - 1 = o
      BY <2>1
    <3> QED
      BY <2>1, <3>1
  <2>4. got' # <<>> => got'[1] = <<1, 0>>
    <3>1. CASE got = <<>>
      BY <2>2, <2>3, <3>1
    <3>2. CASE got # <<>>
      <4>1. 1 \in 1..length
        BY <2>2, <3>2
      <4> QED
        BY <1>2, <2>1, <3>2, <4>1
    <3> QED
      BY <3>1, <3>2
  <2>5. ASSUME NEW k \in 1..(length + n - 1)  PROVE got'[k + 1] = Follows(got'[k])
    <3>1. CASE k < length
      <4>1. k \in 1..length /\ k + 1 \in 1..length /\ k \in 1..(length - 1)
        BY <2>1, <2>2, <3>1
      <4> QED
        BY <2>1, <2>2, <4>1
    <3>2. CASE k = length
      <4>1. length \in 1..length /\ got # <<>>
        BY <2>1, <2>2, <3>2
      <4> QED
        BY <2>1, <2>2, <2>3, <3>2, <4>1
    <3>3. CASE k > length
      <4> DEFINE i == k - length
      <4>1. i \in 1..n /\ i + 1 \in 1..n /\ k = length + i /\ k + 1 = length + (i + 1)
        BY <2>1, <2>2, <3>3
      <4> HIDE DEF i
      <4>2. got'[k] = <<w, o + i - 1>> /\ got'[k + 1] = <<w, o + (i + 1) - 1>>
        BY <2>1, <4>1
      <4>3. o + i - 1 + 1 = o + i /\ o + i < Lengths[w] /\ o + (i + 1) - 1 = o + i
        BY <2>1, <4>1
      <4> QED
        BY <4>2, <4>3 DEF Follows
    <3> QED
      BY <2>1, <2>2, <3>1, <3>2, <3>3
  <2>6. Len(got') - 1 = length + n - 1
    BY <2>1, <2>2
  <2> QED
    BY <2>4, <2>5, <2>6
<1>4. CASE UNCHANGED got
  BY <1>2, <1>4
<1> QED
  BY <1>3, <1>4
  DEF Next, Settle, vars, StartWrite, Resize, Close, Hand, Refused, WriteFails,
      ReplyWritten, ResizeWritten, CloseWritten, PumpData, PumpAdjust, PumpRequest, PumpEnds,
      Grant, ServerSends

-----------------------------------------------------------------------------
(* The initial states satisfy the inductive invariant.                     *)
LEMMA Initially == Init => IndInv
<1> SUFFICES ASSUME Init  PROVE IndInv
  OBVIOUS
<1>1. TypeOK
  <2>1. /\ remoteWindow \in Int /\ localWindow \in Int /\ credit \in Int
        /\ sendWindow \in Nat
    BY WindowsAssumption DEF Init
  <2>2. windowWaiters \in Seq(Writes) /\ queue \in Seq(Callers) /\ got \in Seq(Writes \X Nat)
    BY DEF Init
  <2>3. /\ state \in [Writes -> {"unsent", "waiting", "sending", "done", "dropped"}]
        /\ offset \in [Writes -> Int] /\ size \in [Writes -> Int]
    BY DEF Init
  <2> QED
    BY <2>1, <2>2, <2>3 DEF Init, TypeOK
<1>2. StreamInv
  BY DEF Init, StreamInv
<1>3. OutputInv
  BY WindowsAssumption DEF Init, OutputInv, OutputAccounted
<1>4. SoleInv
  BY DEF Init, SoleInv, AtMostOne, Unsettled, QueueSole, WaiterSole, SizesFit
<1>5. WindowKept
  BY WindowsAssumption DEF Init, WindowKept
<1> QED
  BY <1>1, <1>2, <1>3, <1>4, <1>5 DEF IndInv

(* Every step preserves it.                                                *)
LEMMA Inductive == IndInv /\ [Next]_vars => IndInv'
BY TypeStep, StreamStep, OutputStep, SoleStep, WindowStep DEF IndInv

(* It therefore holds in every reachable state of the open shell.          *)
LEMMA Invariance == Spec => []IndInv
BY Initially, Inductive, PTL DEF Spec

(* Types of the open shell's state (connection.ts:72-101): no count of     *)
(* bytes under way is negative, and a settled call was pending.            *)
THEOREM TypeCorrect == Spec => []TypeOK
BY Invariance, PTL DEF IndInv

(* For writes of any length, and whatever windows and adjustments the      *)
(* server picks: as long as no two write() calls overlap, the client never *)
(* sends beyond the window it was granted (connection.ts:260-276).         *)
THEOREM WindowRespected == Spec => []WindowKept
BY Invariance, PTL DEF IndInv

(* No wake-up of a write that waits for window is lost, also not to the    *)
(* end of the session (connection.ts:371-376, 499-505).                    *)
THEOREM NoSleeper == Spec => []NoLostWakeup
<1>1. IndInv => NoLostWakeup
  BY DEF IndInv, StreamInv, SoleInv, WaiterSole, NoLostWakeup
<1> QED
  BY <1>1, Invariance, PTL

(* The flow control of the output neither loses nor makes up a byte, for   *)
(* any window and threshold (connection.ts:446-456).                       *)
THEOREM OutputConserved == Spec => []OutputAccounted
<1>1. IndInv => OutputAccounted
  BY DEF IndInv, OutputInv
<1> QED
  BY <1>1, Invariance, PTL

(* For writes of any length, and windows and packets of any size: as long  *)
(* as no two write() calls overlap, the server gets what was typed, byte   *)
(* after byte, through waits for window, failures and a close              *)
(* (connection.ts:259-277).                                                *)
THEOREM InputDelivered == Spec => []InputInOrder
<1>1. Init => InputInv /\ InputInOrder
  <2> SUFFICES ASSUME Init  PROVE InputInv /\ InputInOrder
    OBVIOUS
  <2>1. got = <<>> /\ Expected = <<1, 0>> /\ InputInOrder
    BY DEF Init, Expected, InputInOrder
  <2>2. ASSUME NEW w \in Writes, \A v \in 1..(w - 1) : state[v] # "unsent"  PROVE w = 1
    <3>1. w # 1 => 1 \in 1..(w - 1) /\ 1 \in Writes
      BY LengthsAssumption DEF Writes
    <3> QED
      BY <2>2, <3>1 DEF Init
  <2>3. BeginInOrder /\ Prompt
    BY <2>1, <2>2 DEF Init, BeginInOrder, Prompt, Unsettled
  <2> QED
    BY <2>1, <2>3 DEF Init, InputInv
<1>2. Spec => [](InputInv /\ InputInOrder)
  <2>1. IndInv /\ InputInv /\ InputInOrder /\ [Next]_vars => (InputInv /\ InputInOrder)'
    BY InputStep, OrderStep DEF IndInv
  <2> QED
    BY <1>1, <2>1, Invariance, PTL DEF Spec
<1> QED
  BY <1>2, PTL

(* After CHANNEL_CLOSE nothing more is handed to the socket, however many  *)
(* writes were queued behind it (connection.ts:284-295, 499-505).          *)
THEOREM CloseIsLast == Spec => []NothingAfterChannelClose
<1>1. IndInv => NothingAfterChannelClose
  BY DEF IndInv, StreamInv, NothingAfterChannelClose
<1> QED
  BY <1>1, Invariance, PTL

=============================================================================
