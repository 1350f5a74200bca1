-------------------------- MODULE Transport_proofs --------------------------
(***************************************************************************)
(* Proofs about Transport, for every number of lines before the version    *)
(* and of packets that the client has not asked for.                       *)
(***************************************************************************)
EXTENDS Transport, SequenceTheorems, FiniteSetTheorems, TLAPS

USE LinesAssumption DEF Clear, KeyExchange, Keys, Auth, Channel, Pump

-----------------------------------------------------------------------------
(* The dialogue.                                                           *)
LEMMA DialogueWants ==
  ASSUME NEW i \in 1..9
  PROVE  /\ Dialogue[i].want \in Types /\ Dialogue[i].want \notin Asides \cup Ends
         /\ Dialogue[i].want = "newkeys" <=> i = 4
         /\ Dialogue[i].say # "failure"
<1>1. \/ i = 1 \/ i = 2 \/ i = 3 \/ i = 4 \/ i = 5
      \/ i = 6 \/ i = 7 \/ i = 8 \/ i = 9
  OBVIOUS
<1>2. Dialogue[i].want \in Types
  BY DEF Types
<1> QED
  BY <1>1, <1>2 DEF Dialogue, Asides, Ends

-----------------------------------------------------------------------------
(* Type correctness, with what is left to read.                            *)

(* No more has arrived than was sent, and what the client says is part of  *)
(* the dialogue.                                                           *)
Shape ==
    /\ arrived + (IF lengthRead THEN 1 ELSE 0) <= 2 * Len(s2c)
    /\ doing \in {"saying", "asking", "installing"} => step < Pump

LEMMA AppendType ==
  ASSUME TypeOK, Shape, NEW type \in Types,
         s2c' = Append(s2c, [type |-> type, iv |-> gcmOut, at |-> answered])
  PROVE  s2c' \in Seq(Packet) /\ Len(s2c') = Len(s2c) + 1
BY DEF TypeOK, Packet

Sayings == {Dialogue[i].say : i \in 1..9} \cup {"failure"}

LEMMA TailType ==
  ASSUME NEW S, NEW seq \in Seq(S), seq # <<>>
  PROVE  Tail(seq) \in Seq(S) /\ Len(Tail(seq)) = Len(seq) - 1 /\ Head(seq) \in S
OBVIOUS

(* What a packet, or an error in place of one, does to the client.         *)
LEMMA ThrowsType ==
  ASSUME TypeOK, Throws
  PROVE  /\ step' \in 1..Pump /\ outcome' \in {"pending", "ready", "failed", "over"}
         /\ doing' = "done" /\ destroyed' \in BOOLEAN /\ c2s' \in Seq(Sayings)
BY DEF TypeOK, Throws, Told, Sayings

LEMMA AdvancesType ==
  ASSUME TypeOK, step < Pump, Advances
  PROVE  /\ step' \in 1..Pump /\ outcome' \in {"pending", "ready", "failed", "over"}
         /\ doing' \in {"saying", "reading", "asking", "installing", "done"}
         /\ doing' \in {"saying", "asking", "installing"} => step' < Pump
         /\ destroyed' \in BOOLEAN /\ c2s' \in Seq(Sayings)
<1>1. step \in 1..9
  BY DEF TypeOK
<1>2. step' = step + 1 /\ (step = 9 => doing' = "reading")
  BY <1>1 DEF Advances
<1>3. doing' \in {"saying", "reading", "asking", "installing"}
  BY DEF Advances
<1>4. /\ outcome' \in {"pending", "ready", "failed", "over"}
      /\ destroyed' \in BOOLEAN /\ c2s' \in Seq(Sayings)
  BY DEF Advances, TypeOK, Sayings
<1> QED
  BY <1>1, <1>2, <1>3, <1>4

LEMMA TakesType ==
  ASSUME TypeOK, doing = "reading", NEW type \in Types, Takes(type)
  PROVE  /\ step' \in 1..Pump /\ outcome' \in {"pending", "ready", "failed", "over"}
         /\ doing' \in {"saying", "reading", "asking", "installing", "done"}
         /\ doing' \in {"saying", "asking", "installing"} => step' < Pump
         /\ destroyed' \in BOOLEAN /\ c2s' \in Seq(Sayings)
<1>1. CASE step < Pump /\ type = Dialogue[step].want
  BY <1>1, AdvancesType DEF Takes
<1>2. CASE ~(step < Pump /\ type = Dialogue[step].want)
  <2>1. CASE Replies(type)
    <3>1. c2s' = Append(c2s, "failure") /\ UNCHANGED <<step, doing, outcome, destroyed>>
      BY <1>2, <2>1 DEF Takes
    <3>2. c2s \in Seq(Sayings) /\ "failure" \in Sayings
      BY DEF TypeOK, Sayings
    <3>3. c2s' \in Seq(Sayings)
      BY <3>1, <3>2
    <3> QED
      BY <3>1, <3>3 DEF TypeOK
  <2>2. CASE ~Replies(type) /\ (Passes(type) \/ Declines(type))
    BY <1>2, <2>2 DEF Takes, TypeOK, Sayings
  <2>3. CASE ~Replies(type) /\ ~(Passes(type) \/ Declines(type))
    <3>1. Throws
      BY <1>2, <2>3 DEF Takes
    <3> QED
      BY <3>1, ThrowsType
  <2> QED
    BY <2>1, <2>2, <2>3
<1> QED
  BY <1>1, <1>2

(* TypeOK, with the variables that Takes changes apart.                    *)
RestOK ==
    /\ gcmIn \in {Clear} \cup Nat /\ lengthRead \in BOOLEAN /\ lines \in Nat
    /\ s2c \in Seq(Packet) /\ arrived \in Nat /\ hungUp \in BOOLEAN
    /\ heard \in Nat /\ answered \in 0..9 /\ gcmOut \in {Clear} \cup Nat
    /\ owed \in Nat /\ asides \in 0..MAX_ASIDES
    /\ causes \subseteq {"server", "user", "timeout"} /\ stray \in BOOLEAN

CoroutineOK ==
    /\ step \in 1..Pump
    /\ doing \in {"saying", "reading", "asking", "installing", "done"}
    /\ outcome \in {"pending", "ready", "failed", "over"}
    /\ destroyed \in BOOLEAN /\ c2s \in Seq(Sayings)

LEMMA TypeParts == TypeOK <=> RestOK /\ CoroutineOK
BY DEF TypeOK, RestOK, CoroutineOK, Sayings

LEMMA FollowingType ==
  ASSUME NEW iv \in {Clear} \cup Nat
  PROVE  Following(iv) \in {Clear} \cup Nat
BY DEF Following

LEMMA InitType == Init => TypeOK /\ Shape
<1> SUFFICES ASSUME Init  PROVE TypeOK /\ Shape
  OBVIOUS
<1>1. CoroutineOK
  <2>1. c2s \in Seq(Sayings)
    <3>1. c2s = <<>>
      BY DEF Init
    <3> QED
      BY <3>1
  <2>2. step = 1 /\ doing = "saying" /\ outcome = "pending"
    BY DEF Init
  <2>3. destroyed \in BOOLEAN
    BY DEF Init
  <2> QED
    BY <2>1, <2>2, <2>3 DEF CoroutineOK
<1>2. RestOK
  <2>1. s2c \in Seq(Packet)
    <3>1. s2c = <<>>
      BY DEF Init
    <3> QED
      BY <3>1
  <2>2. /\ gcmIn = Clear /\ lines = 0 /\ arrived = 0 /\ heard = 0 /\ answered = 0
        /\ gcmOut = Clear /\ owed = 0 /\ asides = 0 /\ causes = {}
    BY DEF Init
  <2>3. lengthRead \in BOOLEAN /\ hungUp \in BOOLEAN /\ stray \in BOOLEAN
    BY DEF Init
  <2> QED
    BY <2>1, <2>2, <2>3 DEF RestOK
<1> QED
  BY <1>1, <1>2, TypeParts DEF Init, Shape

LEMMA TypeStep ==
  ASSUME TypeOK, Shape, [Next]_vars
  PROVE  TypeOK' /\ Shape'
<1> USE DEF client, server, wires
<1>0. RestOK /\ CoroutineOK
  BY TypeParts
<1> SUFFICES RestOK' /\ CoroutineOK' /\ Shape'
  BY PTL, TypeParts
<1>1. CASE ServerHears
  <2>1. c2s' \in Seq(Sayings)
    BY <1>0, <1>1, TailType DEF ServerHears, CoroutineOK
  <2>2. CoroutineOK'
    BY <1>0, <1>1, <2>1 DEF ServerHears, CoroutineOK
  <2>3. owed' \in Nat /\ heard' \in Nat /\ stray' \in BOOLEAN
    <3>1. CASE Head(c2s) = "failure"
      BY <1>0, <1>1, <3>1 DEF ServerHears, RestOK
    <3>2. CASE Head(c2s) # "failure"
      BY <1>0, <1>1, <3>2 DEF ServerHears, RestOK
    <3> QED
      BY <3>1, <3>2
  <2>4. RestOK'
    BY <1>0, <1>1, <2>3 DEF ServerHears, RestOK
  <2> QED
    BY <1>1, <2>2, <2>4 DEF ServerHears, Shape
<1>2. CASE ServerAnswers
  <2>1. answered + 1 \in 1..9 /\ answered' = answered + 1
    BY <1>0, <1>2 DEF ServerAnswers, MayAnswer, RestOK
  <2>2. Dialogue[answered + 1].want \in Types
    BY <2>1, DialogueWants
  <2>3. s2c' \in Seq(Packet) /\ Len(s2c') = Len(s2c) + 1
    BY <1>2, <2>2, AppendType DEF ServerAnswers, Puts
  <2>4. gcmOut' \in {Clear} \cup Nat
    BY <1>0, <1>2, FollowingType DEF ServerAnswers, RestOK
  <2>5. RestOK' /\ CoroutineOK'
    BY <1>0, <1>2, <2>1, <2>3, <2>4 DEF ServerAnswers, Puts, RestOK, CoroutineOK
  <2> QED
    BY <1>0, <1>2, <2>3, <2>5 DEF ServerAnswers, Puts, RestOK, Shape
<1>3. ASSUME NEW type \in Asides, ServerAside(type)  PROVE RestOK' /\ CoroutineOK' /\ Shape'
  <2>1. s2c' \in Seq(Packet) /\ Len(s2c') = Len(s2c) + 1
    BY <1>3, AppendType DEF ServerAside, Puts, Types
  <2>2. gcmOut' \in {Clear} \cup Nat
    BY <1>0, <1>3, FollowingType DEF ServerAside, RestOK
  <2>3. owed' \in Nat /\ asides' \in 0..MAX_ASIDES
    BY <1>0, <1>3 DEF ServerAside, RestOK
  <2>4. RestOK' /\ CoroutineOK'
    BY <1>0, <1>3, <2>1, <2>2, <2>3 DEF ServerAside, Puts, RestOK, CoroutineOK
  <2> QED
    BY <1>0, <1>3, <2>1, <2>4 DEF ServerAside, Puts, RestOK, Shape
<1>4. ASSUME NEW type \in Ends, ServerEnds(type)  PROVE RestOK' /\ CoroutineOK' /\ Shape'
  <2>1. s2c' \in Seq(Packet) /\ Len(s2c') = Len(s2c) + 1
    BY <1>4, AppendType DEF ServerEnds, Types
  <2>2. RestOK' /\ CoroutineOK'
    BY <1>0, <1>4, <2>1 DEF ServerEnds, RestOK, CoroutineOK
  <2> QED
    BY <1>0, <1>4, <2>1, <2>2 DEF ServerEnds, RestOK, Shape
<1>5. CASE HangsUp
  BY <1>0, <1>5 DEF HangsUp, RestOK, CoroutineOK, Shape
<1>6. CASE Arrives
  <2>1. RestOK' /\ CoroutineOK'
    BY <1>0, <1>6 DEF Arrives, RestOK, CoroutineOK
  <2> QED
    BY <1>0, <1>6, <2>1 DEF Arrives, InFlight, RestOK, Shape
<1>7. CASE ReadsLength
  BY <1>0, <1>7 DEF ReadsLength, RestOK, CoroutineOK, Shape
<1>8. CASE Reads
  <2>1. Len(s2c) \in Nat /\ s2c # <<>>
    BY <1>0, <1>8 DEF Reads, RestOK, Shape
  <2>2. s2c' \in Seq(Packet) /\ Len(s2c') = Len(s2c) - 1 /\ Head(s2c) \in Packet
    BY <1>0, <1>8, <2>1, TailType DEF Reads, RestOK
  <2>3. Head(s2c).type \in Types
    BY <2>2 DEF Packet
  <2>4. Takes(Head(s2c).type) \/ Throws
    BY <1>8 DEF Reads
  <2>5. CoroutineOK' /\ (doing' \in {"saying", "asking", "installing"} => step' < Pump)
    BY <1>8, <2>3, <2>4, TakesType, ThrowsType DEF Reads, CoroutineOK
  <2>6. gcmIn' \in {Clear} \cup Nat /\ lines' \in Nat /\ arrived' \in Nat
    BY <1>0, <1>8, FollowingType DEF Reads, RestOK
  <2>7. RestOK'
    BY <1>0, <1>8, <2>2, <2>6 DEF Reads, RestOK
  <2>8. arrived' + (IF lengthRead' THEN 1 ELSE 0) <= 2 * Len(s2c')
    BY <1>0, <1>8, <2>1, <2>2 DEF Reads, RestOK, Shape
  <2> QED
    BY <2>5, <2>7, <2>8 DEF Shape
<1>9. CASE StreamEnds \/ NotConfirmed
  <2>1. Throws
    BY <1>9 DEF StreamEnds, NotConfirmed
  <2>2. CoroutineOK' /\ doing' = "done"
    BY <2>1, ThrowsType DEF CoroutineOK
  <2>3. RestOK'
    BY <1>0, <1>9 DEF StreamEnds, NotConfirmed, RestOK
  <2> QED
    BY <1>9, <2>2, <2>3 DEF StreamEnds, NotConfirmed, Shape
<1>10. CASE Says
  <2>1. CASE Throws
    <3>1. CoroutineOK' /\ doing' = "done"
      BY <2>1, ThrowsType DEF CoroutineOK
    <3> QED
      BY <1>0, <1>10, <3>1 DEF Says, RestOK, Shape
  <2>2. CASE ~Throws
    <3>1. step \in 1..9
      BY <1>0, <1>10 DEF Says, Shape, CoroutineOK
    <3>2. Dialogue[step].say \in Sayings
      BY <3>1 DEF Sayings
    <3>3. /\ c2s' = Append(c2s, Dialogue[step].say) /\ doing' = "reading"
          /\ UNCHANGED <<step, outcome, destroyed>>
      BY <1>10, <2>2 DEF Says
    <3>4. c2s' \in Seq(Sayings)
      BY <1>0, <3>2, <3>3 DEF CoroutineOK
    <3> QED
      BY <1>0, <1>10, <3>3, <3>4 DEF Says, RestOK, CoroutineOK, Shape
  <2> QED
    BY <2>1, <2>2
<1>11. CASE Confirmed \/ Installs
  <2>1. CASE Confirmed
    BY <1>0, <2>1 DEF Confirmed, RestOK, CoroutineOK, Shape
  <2>2. CASE Installs
    BY <1>0, <2>2 DEF Installs, RestOK, CoroutineOK, Shape
  <2> QED
    BY <1>11, <2>1, <2>2
<1>12. CASE TimesOut \/ Closes
  <2>1. CASE TimesOut
    BY <1>0, <2>1 DEF TimesOut, RestOK, CoroutineOK, Shape
  <2>2. CASE Closes
    BY <1>0, <2>2 DEF Closes, RestOK, CoroutineOK, Shape
  <2> QED
    BY <1>12, <2>1, <2>2
<1>13. CASE UNCHANGED vars
  BY <1>0, <1>13 DEF vars, RestOK, CoroutineOK, Shape
<1> QED
  BY <1>1, <1>2, <1>3, <1>4, <1>5, <1>6, <1>7, <1>8, <1>9, <1>10, <1>11, <1>12, <1>13
  DEF Next

(* Every variable keeps its type: in particular every step that expects an *)
(* answer has one in the dialogue, and no packet is taken from a stream    *)
(* that holds none (connection.ts:87-163, stream.ts:19-56).                *)
THEOREM TypeCorrect == Spec => []TypeOK
<1>1. TypeOK /\ Shape /\ [Next]_vars => TypeOK' /\ Shape'
  BY TypeStep
<1> QED
  BY <1>1, InitType, PTL DEF Spec

-----------------------------------------------------------------------------
(* What is on the way to the client is what the client waits for.          *)

(* How many answers have gone, and the counter, after a packet.            *)
AtAfter(p) == IF p.type \in Asides THEN p.at ELSE p.at + 1
IvAfter(p) == IF p.type = "newkeys" THEN 0 ELSE Following(p.iv)

At(i) == IF i \in 1..Len(s2c) THEN s2c[i].at ELSE answered
Iv(i) == IF i \in 1..Len(s2c) THEN s2c[i].iv ELSE gcmOut

(* The counter that the client will have for the next packet it reads.     *)
NextIv == IF doing = "installing" THEN 0 ELSE gcmIn

(* A packet that a server within the RFCs may send after so many answers,  *)
(* and that does not end the connection.                                   *)
Lawful(p) ==
    \/ p.at \in 0..8 /\ p.type = Dialogue[p.at + 1].want
    \/ p.type \in Asides /\ MayAside(p.type, p.at) /\ ~Early(p.type, p.at)

InStep ==
    /\ At(1) = step - 1 /\ Iv(1) = NextIv
    /\ \A i \in 1..Len(s2c) :
           Lawful(s2c[i]) /\ At(i + 1) = AtAfter(s2c[i]) /\ Iv(i + 1) = IvAfter(s2c[i])

(* As long as nothing has happened that may end it, the connection lives   *)
(* and both ends are in step.                                              *)
Alive ==
    causes = {} => /\ InStep
                   /\ ~destroyed /\ ~hungUp /\ doing # "done"
                   /\ outcome \in {"pending", "ready"}

(* One packet more is on the way.                                          *)
LEMMA InStepSent ==
  ASSUME TypeOK, InStep, NEW type \in Types, UNCHANGED <<step, doing, gcmIn>>,
         LET p == [type |-> type, iv |-> gcmOut, at |-> answered]
         IN  s2c' = Append(s2c, p) /\ Lawful(p)
             /\ answered' = AtAfter(p) /\ gcmOut' = IvAfter(p)
  PROVE  InStep'
<1> DEFINE p == [type |-> type, iv |-> gcmOut, at |-> answered]
           n == Len(s2c)
<1>1. /\ s2c \in Seq(Packet) /\ p \in Packet /\ n \in Nat
      /\ s2c' = Append(s2c, p) /\ Lawful(p)
      /\ answered' = AtAfter(p) /\ gcmOut' = IvAfter(p)
  BY DEF TypeOK, Packet
<1>2. p.at = answered /\ p.iv = gcmOut
  OBVIOUS
<1> HIDE DEF p
<1>3. /\ Len(s2c') = n + 1 /\ s2c'[n + 1] = p
      /\ \A i \in 1..n : s2c'[i] = s2c[i]
  BY <1>1
<1>4. \A i \in 1..(n + 1) : At(i)' = At(i) /\ Iv(i)' = Iv(i)
  BY <1>1, <1>2, <1>3 DEF At, Iv
<1>5. At(n + 2)' = AtAfter(p) /\ Iv(n + 2)' = IvAfter(p)
  BY <1>1, <1>3 DEF At, Iv
<1>6. At(1)' = step' - 1 /\ Iv(1)' = NextIv'
  BY <1>1, <1>4 DEF InStep, NextIv
<1>7. ASSUME NEW i \in 1..Len(s2c')
      PROVE  /\ Lawful(s2c'[i]) /\ At(i + 1)' = AtAfter(s2c'[i])
             /\ Iv(i + 1)' = IvAfter(s2c'[i])
  <2>1. CASE i \in 1..n
    <3>1. i + 1 \in 1..(n + 1) /\ s2c'[i] = s2c[i]
      BY <1>1, <1>3, <2>1
    <3> QED
      BY <1>4, <2>1, <3>1 DEF InStep
  <2>2. CASE i = n + 1
    <3>1. i + 1 = n + 2
      BY <1>1, <2>2
    <3> QED
      <4>1. At(i + 1)' = AtAfter(p) /\ Iv(i + 1)' = IvAfter(p)
        BY <1>1, <1>3, <3>1 DEF At, Iv
      <4>2. s2c'[i] = p
        BY <1>3, <2>2
      <4> QED
        BY <1>1, <1>5, <4>1, <4>2
  <2> QED
    BY <1>1, <1>3, <2>1, <2>2
<1> QED
  BY <1>6, <1>7 DEF InStep

(* The first packet is read.                                               *)
LEMMA InStepRead ==
  ASSUME TypeOK, InStep, s2c # <<>>, s2c' = Tail(s2c), UNCHANGED <<answered, gcmOut>>,
         step' - 1 = AtAfter(Head(s2c)), NextIv' = IvAfter(Head(s2c))
  PROVE  InStep'
<1> DEFINE n == Len(s2c)
<1>1. s2c \in Seq(Packet) /\ n \in Nat /\ n >= 1 /\ Head(s2c) = s2c[1]
  BY DEF TypeOK
<1>2. Len(s2c') = n - 1 /\ \A i \in 1..(n - 1) : s2c'[i] = s2c[i + 1]
  BY <1>1
<1>3. \A i \in 1..n : At(i)' = At(i + 1) /\ Iv(i)' = Iv(i + 1)
  BY <1>1, <1>2 DEF At, Iv
<1>4. At(1)' = step' - 1 /\ Iv(1)' = NextIv'
  <2>1. At(1 + 1) = AtAfter(s2c[1]) /\ Iv(1 + 1) = IvAfter(s2c[1])
    BY <1>1 DEF InStep
  <2> QED
    BY <1>1, <1>3, <2>1
<1>5. ASSUME NEW i \in 1..Len(s2c')
      PROVE  /\ Lawful(s2c'[i]) /\ At(i + 1)' = AtAfter(s2c'[i])
             /\ Iv(i + 1)' = IvAfter(s2c'[i])
  <2>1. i \in 1..(n - 1) /\ i + 1 \in 1..n /\ s2c'[i] = s2c[i + 1]
    BY <1>1, <1>2
  <2>2. /\ Lawful(s2c[i + 1]) /\ At(i + 1 + 1) = AtAfter(s2c[i + 1])
        /\ Iv(i + 1 + 1) = IvAfter(s2c[i + 1])
    BY <2>1 DEF InStep
  <2> QED
    BY <1>3, <2>1, <2>2
<1> QED
  BY <1>4, <1>5 DEF InStep

(* Nothing is sent or read.                                                *)
LEMMA InStepKept ==
  ASSUME InStep, UNCHANGED <<s2c, answered, gcmOut, step>>, NextIv' = NextIv
  PROVE  InStep'
BY DEF InStep, At, Iv

(* The head of the stream opens, and is what the client waits for or what  *)
(* it passes over or answers, unless it has read too many lines.           *)
LEMMA HeadTaken ==
  ASSUME TypeOK, InStep, doing = "reading", s2c # <<>>
  PROVE  LET p == Head(s2c)
         IN  /\ p \in Packet /\ p.iv = gcmIn /\ p.at = step - 1 /\ Lawful(p)
<1>1. s2c \in Seq(Packet) /\ Len(s2c) \in Nat /\ Len(s2c) >= 1 /\ Head(s2c) = s2c[1]
  BY DEF TypeOK
<1>2. At(1) = s2c[1].at /\ Iv(1) = s2c[1].iv /\ Lawful(s2c[1]) /\ s2c[1] \in Packet
  BY <1>1 DEF At, Iv, InStep
<1> QED
  BY <1>1, <1>2 DEF InStep, NextIv

LEMMA AsidePasses ==
  ASSUME step \in 1..Pump, lines \in Nat, ~(step = 1 /\ lines + 1 >= MAX_LINES),
         NEW type \in Asides, MayAside(type, step - 1), ~Early(type, step - 1)
  PROVE  Passes(type) \/ Declines(type)
BY DEF MayAside, Early, Passes, Declines, Asides, Ends

LEMMA ReadsInStep ==
  ASSUME TypeOK, Shape, InStep, Reads, causes' = {}
  PROVE  /\ InStep' /\ doing' # "done" /\ destroyed' = destroyed
         /\ outcome' \in {outcome, "ready"}
<1> DEFINE p == Head(s2c)
<1>1. doing = "reading" /\ s2c # <<>> /\ s2c' = Tail(s2c) /\ step \in 1..10
  BY DEF Reads, Shape, TypeOK
<1>2. p \in Packet /\ p.iv = gcmIn /\ p.at = step - 1 /\ Lawful(p)
  BY <1>1, HeadTaken
<1>3. Takes(p.type) /\ gcmIn' = Following(gcmIn) /\ UNCHANGED <<answered, gcmOut>>
  BY <1>2 DEF Reads, server
<1>4. ~(step = 1 /\ lines + 1 >= MAX_LINES)
  BY DEF Reads, TypeOK
<1>5. CASE step < Pump /\ p.type = Dialogue[step].want
  <2>1. Advances
    BY <1>3, <1>5 DEF Takes
  <2>2. p.type \notin Asides /\ (p.type = "newkeys" <=> step = 4)
    BY <1>1, <1>5, DialogueWants
  <2>3. step' = step + 1 /\ (doing' = "installing" <=> step = 4) /\ doing' # "done"
        /\ destroyed' = destroyed /\ outcome' \in {outcome, "ready"}
    BY <1>1, <2>1 DEF Advances
  <2>4. step' - 1 = AtAfter(p)
    BY <1>1, <1>2, <2>2, <2>3 DEF AtAfter
  <2>5. NextIv' = IvAfter(p)
    BY <1>2, <1>3, <2>2, <2>3 DEF IvAfter, NextIv
  <2> QED
    BY <1>1, <1>3, <2>3, <2>4, <2>5, InStepRead
<1>6. CASE ~(step < Pump /\ p.type = Dialogue[step].want)
  <2>1. p.type \in Asides /\ MayAside(p.type, step - 1) /\ ~Early(p.type, step - 1)
    BY <1>1, <1>2, <1>6 DEF Lawful
  <2>2. Passes(p.type) \/ Declines(p.type)
    <3>1. lines \in Nat
      BY DEF TypeOK
    <3> QED
      BY <1>1, <1>4, <2>1, <3>1, AsidePasses
  <2>3. UNCHANGED <<step, doing, outcome, destroyed>>
    BY <1>3, <1>6, <2>2 DEF Takes
  <2>4. step' - 1 = AtAfter(p)
    BY <1>2, <2>1, <2>3 DEF AtAfter
  <2>5. NextIv' = IvAfter(p)
    BY <1>1, <1>2, <1>3, <2>1, <2>3 DEF IvAfter, NextIv, Asides
  <2> QED
    BY <1>1, <1>3, <2>3, <2>4, <2>5, InStepRead
<1> QED
  BY <1>5, <1>6

LEMMA AliveInit == Init => Alive
<1> SUFFICES ASSUME Init  PROVE Alive
  OBVIOUS
<1>1. Len(s2c) = 0
  BY DEF Init
<1>2. step = 1 /\ answered = 0 /\ gcmIn = Clear /\ gcmOut = Clear /\ doing = "saying"
      /\ outcome = "pending" /\ ~destroyed /\ ~hungUp
  BY DEF Init
<1> QED
  BY <1>1, <1>2 DEF Alive, InStep, At, Iv, NextIv

LEMMA AliveStep ==
  ASSUME TypeOK, Shape, Alive, [Next]_vars
  PROVE  Alive'
<1> USE DEF client, server, wires
<1> SUFFICES ASSUME causes' = {}
             PROVE  /\ InStep' /\ ~destroyed' /\ ~hungUp' /\ doing' # "done"
                    /\ outcome' \in {"pending", "ready"}
  BY DEF Alive
<1>1. causes = {}
  BY DEF Next, ServerHears, ServerAnswers, ServerAside, ServerEnds, HangsUp, Arrives,
         ReadsLength, Reads, StreamEnds, Says, Confirmed, NotConfirmed, Installs,
         TimesOut, Closes, vars
<1>2. /\ InStep /\ ~destroyed /\ ~hungUp /\ doing # "done"
      /\ outcome \in {"pending", "ready"}
  BY <1>1 DEF Alive
<1>3. CASE ServerAnswers
  <2> DEFINE p == [type |-> Dialogue[answered + 1].want, iv |-> gcmOut, at |-> answered]
  <2>1. answered \in 0..8 /\ answered + 1 \in 1..9
    BY <1>3 DEF ServerAnswers, MayAnswer, TypeOK
  <2>2. /\ p.type \in Types /\ p.type \notin Asides
        /\ p.type = "newkeys" <=> answered + 1 = 4
    BY <2>1, DialogueWants
  <2>3. Lawful(p) /\ answered' = AtAfter(p) /\ gcmOut' = IvAfter(p)
    BY <1>3, <2>1, <2>2 DEF ServerAnswers, Lawful, AtAfter, IvAfter
  <2>4. InStep'
    BY <1>2, <1>3, <2>2, <2>3, InStepSent DEF ServerAnswers, Puts
  <2> QED
    BY <1>2, <1>3, <2>4 DEF ServerAnswers, Puts
<1>4. ASSUME NEW type \in Asides, ServerAside(type)
      PROVE  /\ InStep' /\ ~destroyed' /\ ~hungUp' /\ doing' # "done"
             /\ outcome' \in {"pending", "ready"}
  <2> DEFINE p == [type |-> type, iv |-> gcmOut, at |-> answered]
  <2>1. type \in Types /\ type # "newkeys"
    BY DEF Types, Asides
  <2>2. Lawful(p) /\ answered' = AtAfter(p) /\ gcmOut' = IvAfter(p)
    BY <1>4, <2>1 DEF ServerAside, Lawful, AtAfter, IvAfter
  <2>3. InStep'
    BY <1>2, <1>4, <2>1, <2>2, InStepSent DEF ServerAside, Puts
  <2> QED
    BY <1>2, <1>4, <2>3 DEF ServerAside, Puts
<1>5. CASE Reads
  <2>1. /\ InStep' /\ doing' # "done" /\ destroyed' = destroyed
        /\ outcome' \in {outcome, "ready"}
    BY <1>2, <1>5, ReadsInStep
  <2> QED
    BY <1>2, <1>5, <2>1 DEF Reads
<1>6. CASE Says
  <2>1. /\ doing = "saying" /\ doing' = "reading"
        /\ UNCHANGED <<step, outcome, destroyed, gcmIn, s2c, hungUp, answered, gcmOut>>
    BY <1>2, <1>6 DEF Says
  <2>2. NextIv' = NextIv
    BY <2>1 DEF NextIv
  <2> QED
    BY <1>2, <2>1, <2>2, InStepKept
<1>7. CASE Confirmed \/ Installs
  <2>1. /\ doing' = "saying"
        /\ UNCHANGED <<step, outcome, destroyed, s2c, hungUp, answered, gcmOut>>
    BY <1>7 DEF Confirmed, Installs
  <2>2. NextIv' = NextIv
    BY <1>7 DEF Confirmed, Installs, NextIv
  <2> QED
    BY <1>2, <2>1, <2>2, InStepKept
<1>8. CASE ServerHears \/ Arrives \/ ReadsLength \/ UNCHANGED vars
  <2>1. UNCHANGED <<step, doing, outcome, destroyed, gcmIn, s2c, hungUp, answered, gcmOut>>
    BY <1>8 DEF ServerHears, Arrives, ReadsLength, vars
  <2>2. NextIv' = NextIv
    BY <2>1 DEF NextIv
  <2> QED
    BY <1>2, <2>1, <2>2, InStepKept
<1>9. ASSUME NEW type \in Ends, ServerEnds(type)  PROVE FALSE
  BY <1>9 DEF ServerEnds
<1>10. ~(HangsUp \/ NotConfirmed \/ TimesOut \/ Closes)
  BY DEF HangsUp, NotConfirmed, TimesOut, Closes
<1>11. ~StreamEnds
  BY <1>2 DEF StreamEnds
<1> QED
  BY <1>3, <1>4, <1>5, <1>6, <1>7, <1>8, <1>9, <1>10, <1>11 DEF Next

(* A connection ends for a cause, whatever a server within the RFCs says   *)
(* and however its packets arrive: the client reads each with the cipher   *)
(* and counter that it was sealed with, also across NEWKEYS, and never     *)
(* meets one that it cannot place (connection.ts:300-466, 581-615,         *)
(* packet.ts:138-181).                                                     *)
THEOREM EndsOnlyForCause == Spec => []EndsForCause
<1>1. TypeOK /\ Shape /\ Alive /\ [Next]_vars => TypeOK' /\ Shape' /\ Alive'
  BY TypeStep, AliveStep
<1>2. Alive => EndsForCause
  BY DEF Alive, EndsForCause
<1> QED
  BY <1>1, <1>2, AliveInit, InitType, PTL DEF Spec

-----------------------------------------------------------------------------
(* Every request of the server has one answer.                             *)

(* Counting along a queue: what is added at its end, what leaves its head. *)
LEMMA CountType ==
  ASSUME NEW E, NEW seq \in Seq(E), NEW S
  PROVE  IsFiniteSet({i \in 1..Len(seq) : seq[i] \in S}) /\ Count(seq, S) \in Nat
<1>1. IsFiniteSet(1..Len(seq))
  BY FS_Interval
<1>2. {i \in 1..Len(seq) : seq[i] \in S} \in SUBSET (1..Len(seq))
  OBVIOUS
<1>3. IsFiniteSet({i \in 1..Len(seq) : seq[i] \in S})
  BY <1>1, <1>2, FS_Subset
<1> QED
  BY <1>3, FS_CardinalityType DEF Count

LEMMA CountAppend ==
  ASSUME NEW E, NEW seq \in Seq(E), NEW x \in E, NEW S
  PROVE  Count(Append(seq, x), S) = Count(seq, S) + (IF x \in S THEN 1 ELSE 0)
<1> DEFINE n == Len(seq)
           longer == Append(seq, x)
           A == {i \in 1..n : seq[i] \in S}
           B == {i \in 1..Len(longer) : longer[i] \in S}
<1>1. n \in Nat /\ Len(longer) = n + 1 /\ longer[n + 1] = x
      /\ \A i \in 1..n : longer[i] = seq[i]
  OBVIOUS
<1>2. IsFiniteSet(A) /\ Cardinality(A) \in Nat
  BY CountType DEF Count
<1>3. n + 1 \notin A
  BY <1>1
<1>4. CASE x \in S
  <2>1. B = A \cup {n + 1}
    BY <1>1, <1>4
  <2>2. Cardinality(A \cup {n + 1}) = Cardinality(A) + 1
    BY <1>2, <1>3, FS_AddElement
  <2> QED
    BY <1>4, <2>1, <2>2 DEF Count
<1>5. CASE x \notin S
  <2>1. B = A
    BY <1>1, <1>5
  <2>2. Count(longer, S) = Count(seq, S)
    BY <2>1 DEF Count
  <2>3. Count(seq, S) \in Nat
    BY CountType
  <2> QED
    BY <1>5, <2>2, <2>3
<1> QED
  BY <1>4, <1>5

LEMMA CountTail ==
  ASSUME NEW E, NEW seq \in Seq(E), seq # <<>>, NEW S
  PROVE  Count(Tail(seq), S) = Count(seq, S) - (IF Head(seq) \in S THEN 1 ELSE 0)
<1> DEFINE n == Len(seq)
           A == {i \in 1..n : seq[i] \in S}
           B == {i \in 1..Len(Tail(seq)) : Tail(seq)[i] \in S}
           f == [i \in B |-> i + 1]
<1>1. n \in Nat /\ n >= 1 /\ Head(seq) = seq[1] /\ Len(Tail(seq)) = n - 1
      /\ \A i \in 1..(n - 1) : Tail(seq)[i] = seq[i + 1]
  OBVIOUS
<1>2. Tail(seq) \in Seq(E)
  OBVIOUS
<1>3. IsFiniteSet(A) /\ Cardinality(A) \in Nat /\ IsFiniteSet(B)
  BY <1>2, CountType DEF Count
<1>4. f \in Bijection(B, A \ {1})
  <2>1. \A i \in B : i \in 1..(n - 1) /\ seq[i + 1] \in S
    BY <1>1
  <2>2. \A i \in B : f[i] \in A \ {1}
    BY <1>1, <2>1
  <2>3. f \in [B -> A \ {1}]
    BY <2>2
  <2>4. \A i, j \in B : f[i] = f[j] => i = j
    BY <2>1
  <2>5. ASSUME NEW k \in A \ {1}  PROVE \E i \in B : f[i] = k
    <3>1. k \in 2..n /\ k - 1 \in 1..(n - 1) /\ (k - 1) + 1 = k
      BY <1>1, <2>5
    <3>2. k - 1 \in B
      BY <1>1, <2>5, <3>1
    <3> QED
      BY <3>1, <3>2
  <2> HIDE DEF f, A, B
  <2>6. f \in Injection(B, A \ {1})
    BY <2>3, <2>4 DEF Injection, IsInjective
  <2>7. f \in Surjection(B, A \ {1})
    BY <2>3, <2>5 DEF Surjection
  <2> QED
    BY <2>6, <2>7 DEF Bijection
<1>5. Cardinality(A \ {1}) = Cardinality(B)
  <2> HIDE DEF f, A, B
  <2>1. ExistsBijection(B, A \ {1})
    BY <1>4 DEF ExistsBijection
  <2> QED
    BY <1>3, <2>1, FS_Bijection
<1>6. Cardinality(A \ {1}) = Cardinality(A) - (IF Head(seq) \in S THEN 1 ELSE 0)
  <2>1. 1 \in A <=> Head(seq) \in S
    BY <1>1
  <2> HIDE DEF A, B
  <2>2. Cardinality(A \ {1}) = IF 1 \in A THEN Cardinality(A) - 1 ELSE Cardinality(A)
    BY <1>3, FS_RemoveElement
  <2> QED
    BY <1>3, <2>1, <2>2
<1> QED
  BY <1>5, <1>6 DEF Count

(* The requests that the client has not read, its answers that the server  *)
(* has not heard.                                                          *)
Unread == Count(s2c, Wanting)
UnderWay == Count(c2s, {"failure"})

LEMMA CountedType ==
  ASSUME TypeOK
  PROVE  Unread \in Nat /\ UnderWay \in Nat /\ owed \in Nat
BY CountType DEF TypeOK, Unread, UnderWay

(* What the client puts on its way for a packet: a reply, if the packet is *)
(* a request, and otherwise nothing.                                       *)
LEMMA TakesReplies ==
  ASSUME NEW type, Takes(type)
  PROVE  \/ c2s' = c2s
         \/ c2s' = Append(c2s, "failure") /\ type \in {"request", "channel-request"}
BY DEF Takes, Advances, Throws, Replies, Declines

(* In step, it answers every request.                                      *)
LEMMA RequestsTaken ==
  ASSUME TypeOK, InStep, doing = "reading", s2c # <<>>, Takes(Head(s2c).type),
         Head(s2c).type \in {"request", "channel-request"}
  PROVE  c2s' = Append(c2s, "failure")
<1> DEFINE p == Head(s2c)
<1>1. Lawful(p) /\ p.at = step - 1 /\ step \in 1..10
  BY HeadTaken DEF TypeOK
<1>2. p.type \in Asides
  BY DEF Asides
<1>3. ~(p.at \in 0..8 /\ p.type = Dialogue[p.at + 1].want)
  BY <1>2, DialogueWants
<1>4. MayAside(p.type, step - 1)
  BY <1>1, <1>3 DEF Lawful
<1>5. Declines(p.type)
  BY <1>1, <1>4 DEF MayAside, Declines
<1>6. ~(step < Pump /\ p.type = Dialogue[step].want)
  BY <1>1, <1>2, DialogueWants
<1> QED
  BY <1>5, <1>6 DEF Takes, Replies

(* The counts after a packet is sent, and after one is read.               *)
LEMMA UnreadSent ==
  ASSUME TypeOK, NEW type \in Types, UNCHANGED c2s,
         s2c' = Append(s2c, [type |-> type, iv |-> gcmOut, at |-> answered])
  PROVE  /\ Unread' = Unread + (IF type \in {"request", "channel-request"} THEN 1 ELSE 0)
         /\ UnderWay' = UnderWay
<1> DEFINE p == [type |-> type, iv |-> gcmOut, at |-> answered]
<1>1. p \in Packet /\ s2c \in Seq(Packet)
  BY DEF TypeOK, Packet
<1>2. p \in Wanting <=> type \in {"request", "channel-request"}
  BY <1>1 DEF Wanting
<1>3. Count(Append(s2c, p), Wanting) = Count(s2c, Wanting) + (IF p \in Wanting THEN 1 ELSE 0)
  <2> HIDE DEF p
  <2> QED
    BY <1>1, CountAppend
<1>4. Unread' = Count(Append(s2c, p), Wanting)
  BY DEF Unread
<1>5. UnderWay' = UnderWay
  BY DEF UnderWay
<1> QED
  BY <1>2, <1>3, <1>4, <1>5 DEF Unread

LEMMA UnreadRead ==
  ASSUME TypeOK, s2c # <<>>, s2c' = Tail(s2c)
  PROVE  Unread' = Unread - (IF Head(s2c).type \in {"request", "channel-request"} THEN 1 ELSE 0)
<1>1. s2c \in Seq(Packet) /\ Head(s2c) \in Packet
  BY DEF TypeOK
<1>2. Head(s2c) \in Wanting <=> Head(s2c).type \in {"request", "channel-request"}
  BY <1>1 DEF Wanting
<1>3. Count(Tail(s2c), Wanting) = Count(s2c, Wanting) - (IF Head(s2c) \in Wanting THEN 1 ELSE 0)
  BY <1>1, CountTail
<1>4. Unread' = Count(Tail(s2c), Wanting)
  BY DEF Unread
<1> QED
  BY <1>2, <1>3, <1>4 DEF Unread

LEMMA UnderWaySaid ==
  ASSUME TypeOK, NEW saying \in Sayings, c2s' = Append(c2s, saying)
  PROVE  UnderWay' = UnderWay + (IF saying = "failure" THEN 1 ELSE 0)
<1>1. c2s \in Seq(Sayings)
  BY DEF TypeOK, Sayings
<1>2. Count(Append(c2s, saying), {"failure"})
        = Count(c2s, {"failure"}) + (IF saying \in {"failure"} THEN 1 ELSE 0)
  BY <1>1, CountAppend
<1>3. UnderWay' = Count(Append(c2s, saying), {"failure"})
  BY DEF UnderWay
<1> QED
  BY <1>2, <1>3 DEF UnderWay

LEMMA UnderWayHeard ==
  ASSUME TypeOK, c2s # <<>>, c2s' = Tail(c2s)
  PROVE  /\ UnderWay' = UnderWay - (IF Head(c2s) = "failure" THEN 1 ELSE 0)
         /\ UnderWay' \in Nat
<1>1. c2s \in Seq(Sayings) /\ Tail(c2s) \in Seq(Sayings)
  BY DEF TypeOK, Sayings
<1>2. Count(Tail(c2s), {"failure"})
        = Count(c2s, {"failure"}) - (IF Head(c2s) \in {"failure"} THEN 1 ELSE 0)
  BY <1>1, CountTail
<1>3. UnderWay' = Count(Tail(c2s), {"failure"})
  BY DEF UnderWay
<1>4. Count(Tail(c2s), {"failure"}) \in Nat
  BY <1>1, CountType
<1> QED
  BY <1>2, <1>3, <1>4 DEF UnderWay

LEMMA AnsweredStep ==
  ASSUME TypeOK, Shape, Alive, AnsweredOnce, [Next]_vars
  PROVE  AnsweredOnce'
<1> USE DEF client, server, wires
<1>0. /\ Unread \in Nat /\ UnderWay \in Nat /\ owed \in Nat
      /\ Unread + UnderWay <= owed /\ (causes = {} => Unread + UnderWay = owed)
      /\ ~stray
  BY CountedType DEF AnsweredOnce, Unread, UnderWay
<1> SUFFICES /\ Unread' + UnderWay' <= owed'
             /\ causes' = {} => Unread' + UnderWay' = owed'
             /\ ~stray'
  BY DEF AnsweredOnce, Unread, UnderWay
<1>1. CASE ServerHears
  <2>1. Unread' = Unread
    BY <1>1 DEF ServerHears, Unread
  <2>2. /\ UnderWay' = UnderWay - (IF Head(c2s) = "failure" THEN 1 ELSE 0)
        /\ UnderWay' \in Nat
    BY <1>1, UnderWayHeard DEF ServerHears
  <2>3. CASE Head(c2s) = "failure"
    <3>1. owed > 0
      BY <1>0, <2>2, <2>3
    <3>2. /\ owed' = IF owed > 0 THEN owed - 1 ELSE owed
          /\ stray' = (stray \/ owed = 0) /\ causes' = causes
      BY <1>1, <2>3 DEF ServerHears
    <3>3. ~stray'
      <4>1. owed # 0
        BY <1>0, <3>1
      <4> QED
        BY <1>0, <3>2, <4>1, Zenon
    <3>4. owed' = owed - 1
      BY <1>0, <3>1, <3>2
    <3> QED
      BY <1>0, <2>1, <2>2, <2>3, <3>2, <3>3, <3>4
  <2>4. CASE Head(c2s) # "failure"
    <3>1. owed' = owed /\ stray' = stray /\ causes' = causes
      BY <1>1, <2>4 DEF ServerHears
    <3> QED
      BY <1>0, <2>1, <2>2, <2>4, <3>1
  <2> QED
    BY <2>3, <2>4
<1>2. CASE ServerAnswers
  <2> DEFINE type == Dialogue[answered + 1].want
  <2>1. type \in Types /\ type \notin Asides
    BY <1>2, DialogueWants DEF ServerAnswers, MayAnswer, TypeOK
  <2>2. Unread' = Unread /\ UnderWay' = UnderWay
    BY <1>0, <1>2, <2>1, UnreadSent DEF ServerAnswers, Puts, Asides
  <2> QED
    BY <1>0, <1>2, <2>2 DEF ServerAnswers
<1>3. ASSUME NEW type \in Asides, ServerAside(type)
      PROVE  /\ Unread' + UnderWay' <= owed'
             /\ causes' = {} => Unread' + UnderWay' = owed'
             /\ ~stray'
  <2>1. type \in Types
    BY DEF Types
  <2>2. /\ Unread' = Unread + (IF type \in {"request", "channel-request"} THEN 1 ELSE 0)
        /\ UnderWay' = UnderWay
    BY <1>3, <2>1, UnreadSent DEF ServerAside, Puts
  <2> QED
    BY <1>0, <1>3, <2>2 DEF ServerAside
<1>4. ASSUME NEW type \in Ends, ServerEnds(type)
      PROVE  /\ Unread' + UnderWay' <= owed'
             /\ causes' = {} => Unread' + UnderWay' = owed'
             /\ ~stray'
  <2>1. type \in Types /\ type \notin {"request", "channel-request"}
    BY DEF Types, Ends
  <2>2. Unread' = Unread /\ UnderWay' = UnderWay
    BY <1>0, <1>4, <2>1, UnreadSent DEF ServerEnds
  <2> QED
    BY <1>0, <1>4, <2>2 DEF ServerEnds
<1>5. CASE Reads
  <2> DEFINE type == Head(s2c).type
  <2>1. doing = "reading" /\ s2c' = Tail(s2c) /\ causes \subseteq causes'
        /\ owed' = owed /\ stray' = stray
    BY <1>5 DEF Reads
  <2>2. s2c # <<>> /\ s2c \in Seq(Packet)
    BY <1>5 DEF Reads, Shape, TypeOK
  <2>3. Unread' = Unread - (IF type \in {"request", "channel-request"} THEN 1 ELSE 0)
    BY <2>1, <2>2, UnreadRead
  <2>4. Takes(type) \/ Throws
    BY <1>5 DEF Reads
  <2>5. \/ UnderWay' = UnderWay
        \/ UnderWay' = UnderWay + 1 /\ type \in {"request", "channel-request"}
    <3>1. \/ c2s' = c2s
          \/ c2s' = Append(c2s, "failure") /\ type \in {"request", "channel-request"}
      BY <2>4, TakesReplies DEF Throws
    <3>2. CASE c2s' = c2s
      BY <3>2 DEF UnderWay
    <3>3. CASE c2s' = Append(c2s, "failure") /\ type \in {"request", "channel-request"}
      BY <3>3, UnderWaySaid DEF Sayings
    <3> QED
      BY <3>1, <3>2, <3>3
  <2>6. ASSUME causes' = {}
        PROVE  type \in {"request", "channel-request"} => UnderWay' = UnderWay + 1
    <3>1. causes = {} /\ InStep
      BY <2>1, <2>6 DEF Alive
    <3>2. Head(s2c).iv = gcmIn
      BY <2>1, <2>2, <3>1, HeadTaken
    <3>3. Takes(type)
      BY <1>5, <3>2 DEF Reads
    <3>4. type \in {"request", "channel-request"} => c2s' = Append(c2s, "failure")
      BY <2>1, <2>2, <3>1, <3>3, RequestsTaken
    <3> QED
      BY <3>4, UnderWaySaid DEF Sayings
  <2> QED
    BY <1>0, <2>1, <2>3, <2>5, <2>6
<1>6. CASE Says
  <2>1. Unread' = Unread /\ owed' = owed /\ stray' = stray /\ causes' = causes
    BY <1>6 DEF Says, Unread
  <2>2. CASE Throws
    <3>1. UnderWay' = UnderWay
      BY <2>2 DEF Throws, UnderWay
    <3> QED
      BY <1>0, <2>1, <3>1
  <2>3. CASE ~Throws
    <3>1. step \in 1..9 /\ c2s' = Append(c2s, Dialogue[step].say)
      BY <1>6, <2>3 DEF Says, Shape, TypeOK
    <3>2. Dialogue[step].say \in Sayings /\ Dialogue[step].say # "failure"
      BY <3>1, DialogueWants DEF Sayings
    <3>3. UnderWay' = UnderWay
      BY <1>0, <3>1, <3>2, UnderWaySaid
    <3> QED
      BY <1>0, <2>1, <3>3
  <2> QED
    BY <2>2, <2>3
<1>7. CASE StreamEnds \/ NotConfirmed
  <2>1. /\ UNCHANGED <<s2c, c2s, owed, stray>> /\ causes \subseteq causes'
    BY <1>7 DEF StreamEnds, NotConfirmed, Throws
  <2> QED
    BY <1>0, <2>1 DEF Unread, UnderWay
<1>8. CASE HangsUp \/ Arrives \/ ReadsLength \/ Confirmed \/ Installs \/ TimesOut \/ Closes
           \/ UNCHANGED vars
  <2>1. /\ UNCHANGED <<s2c, c2s, owed, stray>> /\ causes \subseteq causes'
    BY <1>8 DEF HangsUp, Arrives, ReadsLength, Confirmed, Installs, TimesOut, Closes, vars
  <2> QED
    BY <1>0, <2>1 DEF Unread, UnderWay
<1> QED
  BY <1>1, <1>2, <1>3, <1>4, <1>5, <1>6, <1>7, <1>8 DEF Next

(* Every request of the server is answered once and nothing else is: as    *)
(* long as nothing ends the connection, what the server is owed lies       *)
(* unread in the stream or under way as a reply, at every stage of the     *)
(* dialogue (connection.ts:205-229, 330-345, 505-520, 585-613).            *)
THEOREM RequestsAnsweredOnce == Spec => []AnsweredOnce
<1>1. Init => AnsweredOnce
  <2> SUFFICES ASSUME Init  PROVE AnsweredOnce
    OBVIOUS
  <2>1. /\ {i \in 1..Len(s2c) : s2c[i] \in Wanting} = {}
        /\ {i \in 1..Len(c2s) : c2s[i] \in {"failure"}} = {}
    BY DEF Init
  <2>2. Count(s2c, Wanting) = 0 /\ Count(c2s, {"failure"}) = 0
    BY <2>1, FS_EmptySet DEF Count
  <2> QED
    BY <2>2 DEF Init, AnsweredOnce
<1>2. /\ TypeOK /\ Shape /\ Alive /\ AnsweredOnce /\ [Next]_vars
      => TypeOK' /\ Shape' /\ Alive' /\ AnsweredOnce'
  BY TypeStep, AliveStep, AnsweredStep
<1> QED
  BY <1>1, <1>2, AliveInit, InitType, PTL DEF Spec
=============================================================================
