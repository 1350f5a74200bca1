---------------------------- MODULE Limits_proofs ----------------------------
(***************************************************************************)
(* Proofs about RateLimiter, for any budget, weights, levels and decay,    *)
(* and about Gate, which is built on what RateLimiter promises, for every  *)
(* set of addresses and of slots, every limit and every weight.            *)
(***************************************************************************)
EXTENDS RateLimiter, Gate, FiniteSetTheorems, TLAPS

-----------------------------------------------------------------------------
(*                               RateLimiter                               *)

(* While there is a record it is the whole memory of the strikes; without  *)
(* one there is nothing to remember, and nothing was promised.             *)
RecordInv ==
    /\ strikes # None => strikes.idle = quiet /\ strikes.count = score
    /\ strikes = None => quiet > DECAY

IndInv == TypeOK /\ RecordInv /\ BlockKept /\ AlarmPending

-----------------------------------------------------------------------------
(* A record of one kind is not None.                                       *)
LEMMA NotNone ==
  /\ \A r \in Window : r # None
  /\ \A r \in Strikes : r # None
  /\ \A t \in Nat : t # None
BY NoneAssumption

(* blockDurationFor() returns a duration.                                  *)
LEMMA DurationType == \A count \in Nat : blockDurationFor(count) \in Nat
BY StrikesAssumption DEF blockDurationFor

(* The alarm that scheduleCleanup() leaves is one.                         *)
LEMMA LaterType ==
  ASSUME TypeOK, NEW target \in Nat
  PROVE  Later(target) \in Nat /\ Later(target) # None
BY NotNone DEF TypeOK, Later

(* The record that a strike leaves, and the block in it: not shorter than  *)
(* before, also when the decay has wiped the score.                        *)
LEMMA StrikeFacts ==
  ASSUME TypeOK, RecordInv, NEW weight \in Weights, Strike(weight)
  PROVE  /\ strikes' \in Strikes
         /\ strikes'.idle = 0
         /\ strikes'.count = weight + IF quiet > DECAY THEN 0 ELSE score
         /\ strikes # None => strikes'.left >= strikes.left
         /\ \/ promised' = promised
            \/ promised' = Greater(promised, strikes'.left)
         /\ alarm' \in Nat \/ (cut' = TRUE /\ alarm' = alarm)
<1> DEFINE count == Decayed(Record) + weight
           left  == Block(Record.left, count)
<1>1. Record \in Strikes /\ weight \in Nat
  BY StrikesAssumption DEF Record, TypeOK, Strikes
<1>2. count \in Nat /\ count = weight + IF quiet > DECAY THEN 0 ELSE score
  <2>1. CASE strikes = None
    BY <1>1, <2>1, StrikesAssumption DEF Decayed, Record, RecordInv, TypeOK
  <2>2. CASE strikes # None
    BY <1>1, <2>2 DEF Decayed, Record, RecordInv, TypeOK, Strikes
  <2> QED
    BY <2>1, <2>2
<1> HIDE DEF count
<1>3. blockDurationFor(count) \in Nat
  BY <1>2, DurationType
<1>4. left \in Nat /\ left >= Record.left
  BY <1>1, <1>3 DEF Block, Greater, Strikes
<1> HIDE DEF left
<1>5. strikes' = [count |-> count, left |-> left, idle |-> 0]
  BY DEF Strike, count, left
<1>6. \/ /\ promised' = Greater(promised, left)
         /\ alarm' = Later(Greater(left, DECAY) + SLACK)
      \/ promised' = promised /\ cut' = TRUE /\ alarm' = alarm
  BY DEF Strike, count, left, Schedule, CutShort
<1>7. Later(Greater(left, DECAY) + SLACK) \in Nat
  <2>1. Greater(left, DECAY) + SLACK \in Nat
    BY <1>4, StrikesAssumption DEF Greater
  <2> QED
    BY <2>1, LaterType
<1>8. strikes # None => left >= strikes.left
  BY <1>4 DEF Record
<1> QED
  BY <1>2, <1>4, <1>5, <1>6, <1>7, <1>8 DEF Strikes

(* The window that a hit leaves, and its alarm.                            *)
LEMMA HitFacts ==
  ASSUME TypeOK, Hit
  PROVE  /\ window' \in Window
         /\ admitted' \in [0..(WINDOW - 1) -> Nat]
         /\ alarm' \in Nat \/ (cut' = TRUE /\ alarm' = alarm)
<1>1. Current \in Window
  BY BudgetAssumption DEF Current, TypeOK, Window
<1>2. window' \in Window
  BY <1>1 DEF Hit, Window
<1>3. admitted' \in [0..(WINDOW - 1) -> Nat]
  BY BudgetAssumption DEF Hit, TypeOK
<1>4. Later(Current.left + SLACK) \in Nat
  <2>1. Current.left + SLACK \in Nat
    BY <1>1, StrikesAssumption DEF Window
  <2> QED
    BY <2>1, LaterType
<1> QED
  BY <1>2, <1>3, <1>4 DEF Hit, Schedule, CutShort

(* Countdowns and ages stay natural numbers.                               *)
LEMMA ClockType == \A t \in Nat : Down(t) \in Nat /\ Up(t) \in Nat
BY DEF Down, Up

-----------------------------------------------------------------------------
(* The type invariant.                                                     *)
LEMMA TypeStep ==
  ASSUME TypeOK, RecordInv, [Next]_vars
  PROVE  TypeOK'
<1> USE DEF history
<1>1. CASE Hit
  BY <1>1, HitFacts DEF Hit, Schedule, CutShort, TypeOK
<1>2. CASE Reset
  BY <1>2 DEF Reset, NoneAdmitted, TypeOK
<1>3. ASSUME NEW weight \in Weights, Strike(weight)  PROVE TypeOK'
  <2>1. /\ promised' \in Nat /\ score' \in Nat /\ quiet' \in Nat
    <3>1. strikes'.left \in Nat /\ weight \in Nat
      BY <1>3, StrikeFacts, StrikesAssumption DEF Strikes
    <3>2. promised' \in Nat
      BY <1>3, <3>1, StrikeFacts DEF TypeOK, Greater
    <3> QED
      BY <1>3, <3>1, <3>2 DEF Strike, TypeOK
  <2>2. cut' \in BOOLEAN
    BY <1>3 DEF Strike, Schedule, CutShort
  <2> QED
    BY <1>3, <2>1, <2>2, StrikeFacts DEF Strike, TypeOK
<1>4. CASE BlockStatus
  BY <1>4 DEF BlockStatus, Greater, TypeOK, Strikes
<1>5. CASE Pardon
  BY <1>5, StrikesAssumption DEF Pardon, TypeOK
<1>6. CASE Alarm
  BY <1>6, StrikesAssumption DEF Alarm, Rearmed, TypeOK
<1>7. CASE AlarmCutShort
  BY <1>7 DEF AlarmCutShort, TypeOK
<1>8. CASE Stop
  BY <1>8 DEF Stop, TypeOK
<1>9. CASE Tick
  <2>1. window' \in Window \cup {None}
    BY <1>9, ClockType DEF Tick, TypeOK, Window
  <2>2. strikes' \in Strikes \cup {None}
    BY <1>9, ClockType DEF Tick, TypeOK, Strikes
  <2>3. admitted' \in [0..(WINDOW - 1) -> Nat]
    BY <1>9, BudgetAssumption DEF Tick, TypeOK
  <2>4. alarm' \in Nat \cup {None} /\ promised' \in Nat /\ quiet' \in Nat
    BY <1>9, ClockType DEF Tick, TypeOK
  <2> QED
    BY <1>9, <2>1, <2>2, <2>3, <2>4 DEF Tick, TypeOK
<1>10. CASE UNCHANGED vars
  BY <1>10 DEF vars, TypeOK
<1> QED
  BY <1>1, <1>2, <1>3, <1>4, <1>5, <1>6, <1>7, <1>8, <1>9, <1>10 DEF Next

(* The record and the history agree.                                       *)
LEMMA RecordStep ==
  ASSUME TypeOK, RecordInv, [Next]_vars
  PROVE  RecordInv'
<1> USE DEF history
<1>1. ASSUME NEW weight \in Weights, Strike(weight)  PROVE RecordInv'
  <2>1. strikes' # None
    BY <1>1, StrikeFacts, NotNone
  <2> QED
    BY <1>1, <2>1, StrikeFacts DEF Strike, RecordInv
<1>2. CASE Pardon
  BY <1>2, StrikesAssumption DEF Pardon, RecordInv
<1>3. CASE Alarm
  <2>1. CASE Stale
    BY <1>3, <2>1 DEF Alarm, Stale, RecordInv
  <2>2. CASE ~Stale
    BY <1>3, <2>2 DEF Alarm, RecordInv
  <2> QED
    BY <2>1, <2>2
<1>4. CASE Tick
  <2>1. CASE strikes = None
    BY <1>4, <2>1 DEF Tick, RecordInv, Up, TypeOK
  <2>2. CASE strikes # None
    <3>1. strikes \in Strikes
      BY <2>2 DEF TypeOK
    <3>2. strikes' = [strikes EXCEPT !.left = Down(@), !.idle = Up(@)]
      BY <1>4, <2>2 DEF Tick
    <3>3. /\ strikes'.count = strikes.count /\ strikes'.idle = Up(strikes.idle)
          /\ strikes' \in Strikes
      BY <3>1, <3>2, ClockType DEF Strikes
    <3> QED
      BY <1>4, <2>2, <3>3, NotNone DEF Tick, RecordInv
  <2> QED
    BY <2>1, <2>2
<1>5. CASE UNCHANGED <<strikes, score, quiet>>
  BY <1>5 DEF RecordInv
<1> QED
  BY <1>1, <1>2, <1>3, <1>4, <1>5
  DEF Next, Hit, Reset, BlockStatus, AlarmCutShort, Stop, vars

(* A promised block stands: strikes never shorten it, and the alarm only   *)
(* evicts a record whose block is over.                                    *)
LEMMA BlockStep ==
  ASSUME TypeOK, RecordInv, BlockKept, [Next]_vars
  PROVE  BlockKept'
<1> USE DEF history
<1>1. ASSUME NEW weight \in Weights, Strike(weight)  PROVE BlockKept'
  <2>1. strikes' # None /\ strikes'.left \in Nat
    BY <1>1, StrikeFacts, NotNone DEF Strikes
  <2>2. promised > 0 => strikes'.left >= promised
    <3>1. strikes # None => strikes.left \in Nat
      BY DEF TypeOK, Strikes
    <3>2. strikes # None => strikes'.left >= strikes.left
      BY <1>1, StrikeFacts
    <3>3. promised > 0 => strikes # None /\ strikes.left >= promised
      BY DEF BlockKept
    <3> QED
      BY <2>1, <3>1, <3>2, <3>3 DEF TypeOK
  <2>3. promised' = promised \/ promised' = Greater(promised, strikes'.left)
    BY <1>1, StrikeFacts
  <2> QED
    BY <2>1, <2>2, <2>3 DEF BlockKept, Greater, TypeOK
<1>2. CASE BlockStatus
  <2>1. strikes' = strikes /\ strikes # None /\ strikes.left \in Nat
    BY <1>2 DEF BlockStatus, TypeOK, Strikes
  <2> QED
    BY <1>2, <2>1 DEF BlockStatus, BlockKept, Greater, TypeOK
<1>3. CASE Pardon
  BY <1>3 DEF Pardon, BlockKept
<1>4. CASE Alarm
  <2>1. CASE Stale
    BY <1>4, <2>1 DEF Alarm, Stale, BlockKept, TypeOK
  <2>2. CASE ~Stale
    BY <1>4, <2>2 DEF Alarm, BlockKept
  <2> QED
    BY <2>1, <2>2
<1>5. CASE Tick
  <2>1. ASSUME promised' > 0  PROVE strikes' # None /\ strikes'.left >= promised'
    <3>1. promised > 0 /\ promised' = promised - 1
      BY <1>5, <2>1 DEF Tick, Down, TypeOK
    <3>2. strikes # None /\ strikes.left >= promised /\ strikes \in Strikes
      BY <3>1 DEF BlockKept, TypeOK
    <3>3. strikes' = [strikes EXCEPT !.left = Down(@), !.idle = Up(@)]
      BY <1>5, <3>2 DEF Tick
    <3>4. strikes' \in Strikes /\ strikes'.left = Down(strikes.left)
      BY <3>2, <3>3, ClockType DEF Strikes
    <3>5. strikes.left \in Nat /\ promised \in Nat
      BY <3>2 DEF Strikes, TypeOK
    <3>6. strikes'.left >= promised'
      BY <3>1, <3>2, <3>4, <3>5 DEF Down
    <3> QED
      BY <3>4, <3>6, NotNone
  <2> QED
    BY <2>1 DEF BlockKept
<1>6. CASE UNCHANGED <<strikes, promised>>
  BY <1>6 DEF BlockKept
<1> QED
  BY <1>1, <1>2, <1>3, <1>4, <1>5, <1>6
  DEF Next, Hit, Reset, AlarmCutShort, Stop, vars

(* What is stored has an alarm, unless a call was cut short.               *)
LEMMA AlarmStep ==
  ASSUME TypeOK, RecordInv, AlarmPending, [Next]_vars
  PROVE  AlarmPending'
<1> USE DEF history
<1>1. CASE Hit
  BY <1>1, HitFacts, NotNone DEF AlarmPending
<1>2. ASSUME NEW weight \in Weights, Strike(weight)  PROVE AlarmPending'
  BY <1>2, StrikeFacts, NotNone DEF AlarmPending
<1>3. CASE Reset
  BY <1>3 DEF Reset, AlarmPending
<1>4. CASE Pardon
  BY <1>4 DEF Pardon, AlarmPending
<1>5. CASE Alarm
  BY <1>5, NotNone, StrikesAssumption DEF Alarm, Rearmed, AlarmPending
<1>6. CASE AlarmCutShort
  BY <1>6, NotNone DEF AlarmCutShort, AlarmPending
<1>7. CASE Tick
  <2>1. alarm # None => alarm' # None
    BY <1>7, ClockType, NotNone DEF Tick, TypeOK
  <2> QED
    BY <1>7, <2>1 DEF Tick, AlarmPending
<1>8. CASE UNCHANGED <<window, strikes, alarm, cut>>
  BY <1>8 DEF AlarmPending
<1> QED
  BY <1>1, <1>2, <1>3, <1>4, <1>5, <1>6, <1>7, <1>8 DEF Next, BlockStatus, Stop, vars

-----------------------------------------------------------------------------
(* The initial state satisfies the inductive invariant.                    *)
LEMMA Initially == Init => IndInv
<1> SUFFICES ASSUME Init  PROVE IndInv
  OBVIOUS
<1>1. TypeOK
  <2>1. quiet \in Nat /\ admitted \in [0..(WINDOW - 1) -> Nat]
    BY StrikesAssumption DEF Init, NoneAdmitted
  <2> QED
    BY <2>1 DEF Init, TypeOK
<1>2. RecordInv
  BY StrikesAssumption DEF Init, RecordInv
<1>3. BlockKept /\ AlarmPending
  BY DEF Init, BlockKept, AlarmPending
<1> QED
  BY <1>1, <1>2, <1>3 DEF IndInv

(* Every step preserves it.                                                *)
LEMMA Inductive == IndInv /\ [Next]_vars => IndInv'
BY TypeStep, RecordStep, BlockStep, AlarmStep DEF IndInv

(* It therefore holds in every reachable state of a rate limiter.          *)
LEMMA Invariance == Spec => []IndInv
BY Initially, Inductive, PTL DEF Spec

(* The records of a rate limiter (rate-limit.ts:34-44) keep their types.   *)
THEOREM TypeCorrect == Spec => []TypeOK
BY Invariance, PTL DEF IndInv

(* Whatever the levels, the weights and the decay: a block that a caller   *)
(* was told of stands until its end or a pardon.  "Never shorten an        *)
(* existing block by striking again" (rate-limit.ts:87), nor evict it with *)
(* a stale window (:130).                                                  *)
THEOREM BlocksStand == Spec => []BlockKept
BY Invariance, PTL DEF IndInv

(* The score is only forgotten by a pardon or a quiet DECAY                *)
(* (rate-limit.ts:46, 81).                                                 *)
THEOREM ScoreRemembered == Spec => []ScoreKept
<1>1. IndInv => ScoreKept
  BY StrikesAssumption DEF IndInv, RecordInv, ScoreKept, TypeOK
<1> QED
  BY <1>1, Invariance, PTL

(* The chain of cleanup alarms never breaks while something is stored,     *)
(* unless a call was cut short before it set its own                       *)
(* (rate-limit.ts:122-142).                                                *)
THEOREM AlwaysScheduled == Spec => []AlarmPending
BY Invariance, PTL DEF IndInv

-----------------------------------------------------------------------------
(* What has been allowed since some moment, if that is less than a window  *)
(* ago.                                                                    *)

Running == window # None /\ window.left > 0

Counted == Lesser(window.count, LIMIT)

(* Since the running window began, only its own hits; from before, also    *)
(* those of one other; once it is over, no window but it can matter.       *)
Bound(back) ==
    IF ~Running THEN LIMIT
    ELSE IF back < WINDOW - window.left THEN Counted
    ELSE LIMIT + Counted

SpanInv ==
    /\ window # None => window.left <= WINDOW
    /\ \A back \in 0..(WINDOW - 1) : admitted[back] <= Bound(back)

(* A hit: in a new window, one before it is over; in the running one, the  *)
(* count goes with what is allowed.                                        *)
LEMMA SpanHit ==
  ASSUME TypeOK, SpanInv, Hit
  PROVE  SpanInv'
<1>1. LIMIT \in Nat /\ WINDOW \in Nat \ {0}
  BY BudgetAssumption
<1>2. /\ Current \in Window /\ Current.left > 0 /\ Current.left <= WINDOW
      /\ Running => Current = window
      /\ ~Running => Current = [count |-> 0, left |-> WINDOW]
  BY <1>1 DEF Current, Running, SpanInv, TypeOK, Window
<1>3. window' = [Current EXCEPT !.count = @ + 1]
  BY DEF Hit
<1>4. /\ window' \in Window /\ window'.left = Current.left
      /\ window'.count = Current.count + 1 /\ Current.count \in Nat /\ Current.left \in Nat
  BY <1>2, <1>3 DEF Window
<1>5. Running'
  BY <1>2, <1>4, NotNone DEF Running
<1>6. ASSUME NEW back \in 0..(WINDOW - 1)
      PROVE  /\ admitted[back] \in Nat
             /\ \/ admitted'[back] = admitted[back]
                \/ admitted'[back] = admitted[back] + 1 /\ Current.count + 1 <= LIMIT
  BY <1>6 DEF Hit, TypeOK, Allowed
<1>7. ASSUME NEW back \in 0..(WINDOW - 1)  PROVE admitted'[back] <= Bound(back)'
  <2>1. CASE Running
    <3>1. Bound(back) = IF back < WINDOW - Current.left THEN Lesser(Current.count, LIMIT)
                        ELSE LIMIT + Lesser(Current.count, LIMIT)
      BY <2>1, <1>2 DEF Bound, Counted
    <3>2. Bound(back)' = IF back < WINDOW - Current.left THEN Lesser(Current.count + 1, LIMIT)
                         ELSE LIMIT + Lesser(Current.count + 1, LIMIT)
      BY <1>4, <1>5 DEF Bound, Counted
    <3>3. admitted[back] <= Bound(back)
      BY DEF SpanInv
    <3> QED
      BY <1>1, <1>4, <1>6, <3>1, <3>2, <3>3 DEF Lesser
  <2>2. CASE ~Running
    <3>1. admitted[back] <= LIMIT
      BY <2>2 DEF SpanInv, Bound
    <3>2. Current.count = 0 /\ Current.left = WINDOW
      BY <1>2, <2>2
    <3>3. Bound(back)' = LIMIT + Lesser(1, LIMIT)
      BY <1>1, <1>4, <1>5, <3>2 DEF Bound, Counted
    <3> QED
      BY <1>1, <1>6, <3>1, <3>2, <3>3 DEF Lesser
  <2> QED
    BY <2>1, <2>2
<1> QED
  BY <1>2, <1>4, <1>7 DEF SpanInv

(* A tick: what was within `back' is now within back + 1, the window is a  *)
(* tick older, and if that ends it, the whole span is its own.             *)
LEMMA SpanTick ==
  ASSUME TypeOK, SpanInv, Tick
  PROVE  SpanInv'
<1>1. LIMIT \in Nat /\ WINDOW \in Nat \ {0}
  BY BudgetAssumption
<1>2. ASSUME window # None
      PROVE  /\ window' # None /\ window'.left = Down(window.left) /\ window'.count = window.count
             /\ window.left \in Nat /\ window.count \in Nat /\ window.left <= WINDOW
  <2>1. window \in Window /\ window' = [window EXCEPT !.left = Down(@)]
    BY <1>2 DEF TypeOK, Tick
  <2>2. window' \in Window
    BY <2>1, ClockType DEF Window
  <2> QED
    BY <1>2, <2>1, <2>2, NotNone DEF Window, SpanInv
<1>3. window = None => window' = None
  BY DEF Tick
<1>4. ASSUME NEW back \in 0..(WINDOW - 1)  PROVE admitted'[back] <= Bound(back)'
  <2>1. admitted'[back] = IF back = 0 THEN 0 ELSE admitted[back - 1]
    BY DEF Tick
  <2>2. CASE back = 0
    BY <1>1, <1>2, <1>3, <2>1, <2>2 DEF Bound, Counted, Running, Lesser, Down
  <2>3. CASE back # 0
    <3>1. back - 1 \in 0..(WINDOW - 1) /\ admitted[back - 1] <= Bound(back - 1)
      BY <2>3, <1>1 DEF SpanInv
    <3>2. admitted[back - 1] \in Nat
      BY <3>1 DEF TypeOK
    <3>3. Bound(back - 1) <= Bound(back)'
      <4>1. CASE window = None
        BY <1>1, <1>3, <4>1 DEF Bound, Running
      <4>2. CASE window # None /\ window.left = 0
        BY <1>1, <1>2, <4>2 DEF Bound, Running, Down
      <4>3. CASE window # None /\ window.left = 1
        BY <1>1, <1>2, <4>3 DEF Bound, Running, Down, Counted, Lesser
      <4>4. CASE window # None /\ window.left > 1
        BY <1>1, <1>2, <4>4 DEF Bound, Running, Down, Counted, Lesser
      <4> QED
        BY <1>2, <4>1, <4>2, <4>3, <4>4
    <3>4. Bound(back - 1) \in Nat /\ Bound(back)' \in Nat
      BY <1>1, <1>2, <1>3 DEF Bound, Counted, Running, Lesser
    <3> QED
      BY <2>1, <2>3, <3>1, <3>2, <3>3, <3>4
  <2> QED
    BY <2>2, <2>3
<1>5. window' # None => window'.left <= WINDOW
  BY <1>1, <1>2, <1>3 DEF Down
<1> QED
  BY <1>4, <1>5 DEF SpanInv

(* An eviction takes a window that is over: nothing changes.               *)
LEMMA SpanEviction ==
  ASSUME SpanInv, UNCHANGED admitted,
         window' = IF WindowOver THEN None ELSE window
  PROVE  SpanInv'
BY DEF SpanInv, Bound, Running, Counted, WindowOver

LEMMA SpanStep ==
  ASSUME TypeOK, SpanInv, [Next]_vars
  PROVE  SpanInv'
<1> USE DEF history
<1>1. CASE Hit
  BY <1>1, SpanHit
<1>2. CASE Reset
  BY <1>2, BudgetAssumption DEF Reset, NoneAdmitted, SpanInv, Bound, Running
<1>3. CASE Alarm \/ AlarmCutShort
  BY <1>3, SpanEviction DEF Alarm, AlarmCutShort
<1>4. CASE Tick
  BY <1>4, SpanTick
<1>5. CASE UNCHANGED <<window, admitted>>
  BY <1>5 DEF SpanInv, Bound, Running, Counted
<1> QED
  BY <1>1, <1>2, <1>3, <1>4, <1>5 DEF Next, Strike, BlockStatus, Pardon, Stop, vars

(* However the hits fall, and whenever the alarm runs: no span as long as  *)
(* a window sees more than two budgets allowed (rate-limit.ts:54-66).      *)
THEOREM SpansBounded == Spec => []SpanBounded
<1>1. Init => SpanInv
  BY BudgetAssumption DEF Init, NoneAdmitted, SpanInv, Bound, Running
<1>2. TypeOK /\ SpanInv => SpanBounded
  <2> SUFFICES ASSUME TypeOK, SpanInv, NEW back \in 0..(WINDOW - 1)
               PROVE  admitted[back] <= 2 * LIMIT
    BY DEF SpanBounded
  <2>1. admitted[back] <= Bound(back) /\ admitted[back] \in Nat
    BY DEF SpanInv, TypeOK
  <2>2. Running => window.count \in Nat
    BY DEF Running, TypeOK, Window
  <2>3. Bound(back) \in Nat /\ Bound(back) <= 2 * LIMIT
    BY <2>2, BudgetAssumption DEF Bound, Counted, Lesser
  <2> QED
    BY <2>1, <2>3, BudgetAssumption
<1>3. Spec => []SpanInv
  BY <1>1, SpanStep, TypeCorrect, PTL DEF Spec
<1> QED
  BY <1>2, <1>3, TypeCorrect, PTL

-----------------------------------------------------------------------------
(* RateLimiter implements Limiter.                                         *)

(* A block and the time since the strike that set it fit in a decay: what  *)
(* is blocked is remembered.                                               *)
BlockInDecay ==
    strikes # None =>
        /\ strikes.left <= DECAY
        /\ strikes.left > 0 => strikes.left + strikes.idle <= DECAY

(* The levels are the same as a threshold to the score and a block that is *)
(* no longer than the decay.                                               *)
LEMMA DurationFacts ==
  \A count \in Nat :
      /\ blockDurationFor(count) \in Nat /\ blockDurationFor(count) <= DECAY
      /\ blockDurationFor(count) > 0 <=> count >= Levels[1].strikes
<1> SUFFICES ASSUME NEW count \in Nat
             PROVE  /\ blockDurationFor(count) \in Nat /\ blockDurationFor(count) <= DECAY
                    /\ blockDurationFor(count) > 0 <=> count >= Levels[1].strikes
  OBVIOUS
<1>1. \A l \in 1..3 : /\ Levels[l].strikes \in Nat /\ Levels[l].duration \in Nat
                      /\ 0 < Levels[l].duration /\ Levels[l].duration <= DECAY
  BY StrikesAssumption, LevelsAssumption
<1>2. Levels[1].strikes <= Levels[2].strikes /\ Levels[2].strikes <= Levels[3].strikes
  BY LevelsAssumption
<1> QED
  BY <1>1, <1>2, StrikesAssumption DEF blockDurationFor

(* What a strike does to the record, in full.                              *)
LEMMA StrikeRecord ==
  ASSUME TypeOK, BlockInDecay, NEW weight \in Weights, Strike(weight)
  PROVE  LET old == IF strikes = None THEN 0 ELSE Decayed(strikes)
             was == strikes # None /\ strikes.left > 0
         IN  /\ strikes' # None /\ strikes' \in Strikes
             /\ strikes'.count = old + weight /\ strikes'.idle = 0
             /\ strikes'.left <= DECAY
             /\ strikes'.left > 0 <=> was \/ old + weight >= Levels[1].strikes
<1> DEFINE old == IF strikes = None THEN 0 ELSE Decayed(strikes)
           was == strikes # None /\ strikes.left > 0
           count == Decayed(Record) + weight
           left == Block(Record.left, count)
<1>1. weight \in Nat /\ DECAY \in Nat
  BY StrikesAssumption
<1>2. Record \in Strikes /\ Record.left <= DECAY /\ (Record.left > 0 <=> was)
  <2>1. CASE strikes = None
    BY <2>1, <1>1 DEF Record, Strikes
  <2>2. CASE strikes # None
    BY <2>2 DEF Record, TypeOK, Strikes, BlockInDecay
  <2> QED
    BY <2>1, <2>2
<1>3. Decayed(Record) = old /\ old \in Nat
  <2>1. CASE strikes = None
    BY <2>1, <1>1 DEF Record, Decayed
  <2>2. CASE strikes # None
    BY <2>2 DEF Record, Decayed, TypeOK, Strikes
  <2> QED
    BY <2>1, <2>2
<1>4. count = old + weight /\ count \in Nat
  BY <1>1, <1>3
<1>5. strikes' = [count |-> count, left |-> left, idle |-> 0]
  BY DEF Strike
<1> HIDE DEF count, old, was
<1>6. Record.left \in Nat
  BY <1>2 DEF Strikes
<1>7. left \in Nat /\ left <= DECAY /\ (left > 0 <=> was \/ count >= Levels[1].strikes)
  BY <1>1, <1>2, <1>4, <1>6, DurationFacts DEF Block, Greater
<1> HIDE DEF left
<1>8. strikes' \in Strikes /\ strikes'.count = count /\ strikes'.left = left /\ strikes'.idle = 0
  BY <1>4, <1>5, <1>7 DEF Strikes
<1> QED
  BY <1>4, <1>7, <1>8, NotNone DEF old, was

(* The invariant of the mapping.                                           *)
LEMMA BlockInDecayStep ==
  ASSUME TypeOK, BlockInDecay, [Next]_vars
  PROVE  BlockInDecay'
<1> USE DEF history
<1>1. ASSUME NEW weight \in Weights, Strike(weight)  PROVE BlockInDecay'
  <2>1. /\ strikes' \in Strikes /\ strikes'.idle = 0 /\ strikes'.left <= DECAY
    BY <1>1, StrikeRecord
  <2> QED
    BY <2>1, StrikesAssumption DEF BlockInDecay, Strikes
<1>2. CASE Pardon
  BY <1>2 DEF Pardon, BlockInDecay
<1>3. CASE Alarm
  BY <1>3 DEF Alarm, BlockInDecay
<1>4. CASE Tick
  <2>1. ASSUME strikes # None  PROVE BlockInDecay'
    <3>1. strikes \in Strikes /\ strikes' = [strikes EXCEPT !.left = Down(@), !.idle = Up(@)]
      BY <1>4, <2>1 DEF TypeOK, Tick
    <3>2. /\ strikes'.left = Down(strikes.left) /\ strikes'.idle = Up(strikes.idle)
          /\ strikes.left \in Nat /\ strikes.idle \in Nat
      BY <3>1 DEF Strikes
    <3> QED
      BY <2>1, <3>2, StrikesAssumption DEF BlockInDecay, Down, Up
  <2>2. strikes = None => BlockInDecay'
    BY <1>4 DEF Tick, BlockInDecay
  <2> QED
    BY <2>1, <2>2
<1>5. CASE UNCHANGED strikes
  BY <1>5 DEF BlockInDecay
<1> QED
  BY <1>1, <1>2, <1>3, <1>4, <1>5
  DEF Next, Hit, Reset, BlockStatus, AlarmCutShort, Stop, vars

(* What callers see has its type.                                          *)
LEMMA SeenType ==
  ASSUME TypeOK
  PROVE  SeenHits \in Nat /\ SeenScore \in Nat /\ SeenBlocked \in BOOLEAN
<1>1. window # None => window \in Window
  BY DEF TypeOK
<1>2. strikes # None => strikes \in Strikes
  BY DEF TypeOK
<1>3. LIMIT + 1 \in Nat /\ Levels[1].strikes \in Nat
  BY BudgetAssumption, StrikesAssumption
<1>4. SeenHits \in Nat
  BY <1>1, <1>3 DEF SeenHits, Lesser, Window
<1>5. SeenScore \in Nat
  BY <1>2, <1>3 DEF SeenScore, Lesser, Decayed, Strikes
<1> QED
  BY <1>4, <1>5 DEF SeenBlocked

(* A hit counts, also the first of a new window.                           *)
LEMMA SeenHit ==
  ASSUME TypeOK, Hit
  PROVE  SeenHits' = Lesser(SeenHits + 1, LIMIT + 1)
<1>1. Current \in Window /\ Current.left > 0
  BY BudgetAssumption DEF Current, TypeOK, Window
<1>2. window' = [Current EXCEPT !.count = @ + 1]
  BY DEF Hit
<1>3. /\ window' \in Window /\ window' # None
      /\ window'.count = Current.count + 1 /\ window'.left > 0
  BY <1>1, <1>2, NotNone DEF Window
<1>4. SeenHits' = Lesser(Current.count + 1, LIMIT + 1)
  BY <1>3 DEF SeenHits
<1>5. SeenHits = Lesser(Current.count, LIMIT + 1)
  <2>1. CASE window = None \/ window.left = 0
    BY <2>1, BudgetAssumption DEF SeenHits, Current, Lesser
  <2>2. CASE ~(window = None \/ window.left = 0)
    BY <2>2 DEF SeenHits, Current
  <2> QED
    BY <2>1, <2>2
<1>6. Current.count \in Nat /\ LIMIT \in Nat
  BY <1>1, BudgetAssumption DEF Window
<1> QED
  BY <1>4, <1>5, <1>6 DEF Lesser

(* A strike counts in full, and blocks from the first level on.            *)
LEMMA SeenStrike ==
  ASSUME TypeOK, BlockInDecay, NEW weight \in Weights, Strike(weight)
  PROVE  /\ SeenScore' = Lesser(SeenScore + weight, Levels[1].strikes)
         /\ SeenBlocked' <=> SeenBlocked \/ SeenScore' = Levels[1].strikes
<1> DEFINE old == IF strikes = None THEN 0 ELSE Decayed(strikes)
<1>1. /\ strikes' # None /\ strikes' \in Strikes
      /\ strikes'.count = old + weight /\ strikes'.idle = 0
      /\ strikes'.left > 0 <=> SeenBlocked \/ old + weight >= Levels[1].strikes
  BY StrikeRecord DEF SeenBlocked
<1>2. weight \in Nat /\ DECAY \in Nat /\ Levels[1].strikes \in Nat
  BY StrikesAssumption
<1>3. old \in Nat
  BY DEF Decayed, TypeOK, Strikes
<1>4. SeenScore = Lesser(old, Levels[1].strikes)
  BY <1>2 DEF SeenScore, Lesser
<1>5. SeenScore' = Lesser(old + weight, Levels[1].strikes)
  BY <1>1, <1>2 DEF SeenScore, Decayed
<1>6. SeenBlocked' <=> strikes'.left > 0
  BY <1>1 DEF SeenBlocked
<1> HIDE DEF old
<1> QED
  BY <1>1, <1>2, <1>3, <1>4, <1>5, <1>6 DEF Lesser

(* Time ends a window, a block, or a score that is not under a block, and  *)
(* of the last two only one at a time.                                     *)
LEMMA SeenTick ==
  ASSUME TypeOK, BlockInDecay, Tick
  PROVE  /\ SeenHits' \in {SeenHits, 0}
         /\ \/ SeenScore' = SeenScore /\ (SeenBlocked' => SeenBlocked)
            \/ SeenScore' = 0 /\ ~SeenBlocked /\ ~SeenBlocked'
<1>1. SeenHits' \in {SeenHits, 0}
  <2>1. CASE window = None
    BY <2>1 DEF Tick, SeenHits
  <2>2. CASE window # None
    <3>1. window \in Window /\ window' = [window EXCEPT !.left = Down(@)]
      BY <2>2 DEF TypeOK, Tick
    <3>2. /\ window' \in Window /\ window'.count = window.count
          /\ window'.left = Down(window.left)
      BY <3>1, ClockType DEF Window
    <3> QED
      BY <2>2, <3>1, <3>2, NotNone DEF SeenHits, Down
  <2> QED
    BY <2>1, <2>2
<1>2. CASE strikes = None
  BY <1>1, <1>2 DEF Tick, SeenScore, SeenBlocked
<1>3. CASE strikes # None
  <2>1. strikes \in Strikes /\ strikes' = [strikes EXCEPT !.left = Down(@), !.idle = Up(@)]
    BY <1>3 DEF TypeOK, Tick
  <2>2. /\ strikes' \in Strikes /\ strikes'.count = strikes.count
        /\ strikes'.left = Down(strikes.left) /\ strikes'.idle = Up(strikes.idle)
        /\ strikes.left \in Nat /\ strikes.idle \in Nat /\ strikes.count \in Nat
    BY <2>1, ClockType DEF Strikes
  <2>3. strikes' # None
    BY <2>2, NotNone
  <2>4. SeenBlocked' => SeenBlocked
    BY <1>3, <2>2, <2>3 DEF SeenBlocked, Down
  <2>5. CASE strikes'.idle > DECAY /\ strikes.idle <= DECAY
    <3>1. strikes.left = 0
      BY <1>3, <2>2, <2>5, StrikesAssumption DEF BlockInDecay, Up
    <3>2. SeenScore' = 0
      BY <2>3, <2>5, StrikesAssumption DEF SeenScore, Decayed, Lesser
    <3> QED
      BY <1>1, <2>4, <3>1, <3>2 DEF SeenBlocked
  <2>6. CASE ~(strikes'.idle > DECAY /\ strikes.idle <= DECAY)
    <3>1. strikes'.idle > DECAY <=> strikes.idle > DECAY
      BY <2>2, <2>6, StrikesAssumption DEF Up
    <3>2. SeenScore' = SeenScore
      BY <1>3, <2>2, <2>3, <3>1 DEF SeenScore, Decayed
    <3> QED
      BY <1>1, <2>4, <3>2
  <2> QED
    BY <2>5, <2>6
<1> QED
  BY <1>1, <1>2, <1>3

(* The alarm evicts nothing that callers see.                              *)
LEMMA SeenAlarm ==
  ASSUME TypeOK, Alarm \/ AlarmCutShort
  PROVE  UNCHANGED <<SeenHits, SeenScore, SeenBlocked>>
<1>1. SeenHits' = SeenHits
  BY DEF Alarm, AlarmCutShort, WindowOver, SeenHits
<1>2. SeenScore' = SeenScore /\ (SeenBlocked' <=> SeenBlocked)
  <2>1. CASE strikes' = strikes
    BY <2>1 DEF SeenScore, SeenBlocked
  <2>2. CASE Stale /\ strikes' = None
    BY <2>2, StrikesAssumption DEF Stale, SeenScore, SeenBlocked, Decayed, Lesser
  <2> QED
    BY <2>1, <2>2 DEF Alarm, AlarmCutShort
<1> QED
  BY <1>1, <1>2 DEF SeenBlocked

-----------------------------------------------------------------------------
(* The operators of Limiter on what callers see.                           *)
LEMMA LesserIsLeast == \A a, b \in Nat : Promise!Least(a, b) = Lesser(a, b)
BY DEF Promise!Least, Lesser

LEMMA OnSeen ==
  ASSUME TypeOK
  PROVE  /\ Promise!HitBy(Seen, LIMIT) =
              [Seen EXCEPT !.hits = Lesser(SeenHits + 1, LIMIT + 1)]
         /\ Promise!Emptied(Seen) = [Seen EXCEPT !.hits = 0]
         /\ Promise!Pardoned(Seen) = [hits |-> SeenHits, score |-> 0, blocked |-> FALSE]
<1>1. SeenHits + 1 \in Nat /\ LIMIT + 1 \in Nat
  BY SeenType, BudgetAssumption
<1>2. Promise!Least(SeenHits + 1, LIMIT + 1) = Lesser(SeenHits + 1, LIMIT + 1)
  BY <1>1, LesserIsLeast
<1> QED
  BY <1>2 DEF Seen, Promise!HitBy, Promise!Emptied, Promise!Pardoned

LEMMA StruckSeen ==
  ASSUME TypeOK, NEW weight \in Nat
  PROVE  LET level == Lesser(SeenScore + weight, Levels[1].strikes)
         IN  Promise!Struck(Seen, weight) =
                 [hits |-> SeenHits, score |-> level,
                  blocked |-> SeenBlocked \/ level = Levels[1].strikes]
<1> DEFINE level == Lesser(SeenScore + weight, Levels[1].strikes)
<1>1. SeenScore + weight \in Nat /\ Levels[1].strikes \in Nat
  BY SeenType, StrikesAssumption
<1>2. Promise!Least(SeenScore + weight, Levels[1].strikes) = level
  BY <1>1, LesserIsLeast
<1> QED
  BY <1>2, SeenType DEF Seen, Promise!Struck

(* What time may make of what callers see.                                 *)
LEMMA LapsesSeen ==
  ASSUME TypeOK, NEW hits \in {SeenHits, 0}
  PROVE  /\ [hits |-> hits, score |-> SeenScore, blocked |-> SeenBlocked]
              \in Promise!Lapses(Seen)
         /\ [hits |-> hits, score |-> SeenScore, blocked |-> FALSE]
              \in Promise!Lapses(Seen)
         /\ ~SeenBlocked => [hits |-> hits, score |-> 0, blocked |-> SeenBlocked]
                                 \in Promise!Lapses(Seen)
<1> DEFINE k == [hits |-> hits, score |-> SeenScore, blocked |-> SeenBlocked]
<1>1. k \in {Seen, Promise!Emptied(Seen)}
  BY DEF Seen, Promise!Emptied
<1>2. /\ k \in Promise!Lapses(Seen)
      /\ Promise!Released(k) \in Promise!Lapses(Seen)
      /\ Promise!Forgotten(k) \in Promise!Lapses(Seen)
  BY <1>1 DEF Promise!Lapses
<1>3. Promise!Released(k) = [hits |-> hits, score |-> SeenScore, blocked |-> FALSE]
  BY DEF Promise!Released
<1>4. ~SeenBlocked =>
          Promise!Forgotten(k) = [hits |-> hits, score |-> 0, blocked |-> SeenBlocked]
  BY DEF Promise!Forgotten
<1> QED
  BY <1>2, <1>3, <1>4

-----------------------------------------------------------------------------
(* Each call does what Limiter says ...                                    *)
LEMMA CallsStep ==
  ASSUME TypeOK, BlockInDecay
  PROVE  CallsCount
<1>1. ASSUME Hit  PROVE Promise!Hit
  <2>1. SeenScore' = SeenScore /\ SeenBlocked' = SeenBlocked
    BY <1>1 DEF Hit, SeenScore, SeenBlocked
  <2>2. SeenHits' = Lesser(SeenHits + 1, LIMIT + 1)
    BY <1>1, SeenHit
  <2>3. Seen' = [Seen EXCEPT !.hits = Lesser(SeenHits + 1, LIMIT + 1)]
    BY <2>1, <2>2 DEF Seen
  <2> QED
    BY <2>3, OnSeen DEF Promise!Hit
<1>2. ASSUME NEW weight \in Weights, Strike(weight)
      PROVE  Seen' = Promise!Struck(Seen, weight)
  <2> DEFINE level == Lesser(SeenScore + weight, Levels[1].strikes)
  <2>1. SeenHits' = SeenHits
    BY <1>2 DEF Strike, SeenHits
  <2>2. SeenScore' = level /\ (SeenBlocked' <=> SeenBlocked \/ level = Levels[1].strikes)
    BY <1>2, SeenStrike
  <2>3. SeenBlocked' = (SeenBlocked \/ level = Levels[1].strikes)
    BY <2>2 DEF SeenBlocked
  <2>4. Seen' = [hits |-> SeenHits, score |-> level,
                 blocked |-> SeenBlocked \/ level = Levels[1].strikes]
    BY <2>1, <2>2, <2>3 DEF Seen
  <2>5. weight \in Nat
    BY StrikesAssumption
  <2> QED
    BY <2>4, <2>5, StruckSeen
<1>3. ASSUME Reset  PROVE Promise!Reset
  <2>1. SeenScore' = SeenScore /\ SeenBlocked' = SeenBlocked /\ SeenHits' = 0
    BY <1>3 DEF Reset, SeenHits, SeenScore, SeenBlocked
  <2>2. Seen' = [Seen EXCEPT !.hits = 0]
    BY <2>1 DEF Seen
  <2> QED
    BY <2>2, OnSeen DEF Promise!Reset
<1>4. ASSUME Pardon  PROVE Promise!Pardon
  <2>1. SeenHits' = SeenHits /\ SeenScore' = 0 /\ SeenBlocked' = FALSE
    BY <1>4 DEF Pardon, SeenHits, SeenScore, SeenBlocked
  <2>2. Seen' = [hits |-> SeenHits, score |-> 0, blocked |-> FALSE]
    BY <2>1 DEF Seen
  <2> QED
    BY <2>2, OnSeen DEF Promise!Pardon
<1> QED
  BY <1>1, <1>2, <1>3, <1>4 DEF CallsCount

(* ... and every other step at most lets time pass.                        *)
LEMMA PromiseStep ==
  ASSUME TypeOK, BlockInDecay, [Next]_vars
  PROVE  [Promise!Next]_Seen
<1> USE DEF history
<1>1. CASE Hit \/ Reset \/ Pardon
  BY <1>1, CallsStep DEF CallsCount, Promise!Next
<1>2. ASSUME NEW weight \in Weights, Strike(weight)  PROVE Promise!Next
  BY <1>2, CallsStep DEF CallsCount, Promise!Next, Promise!Strike
<1>3. CASE Alarm \/ AlarmCutShort
  BY <1>3, SeenAlarm DEF Seen
<1>4. CASE Tick
  <2>1. Seen' \in Promise!Lapses(Seen)
    <3>1. SeenHits' \in {SeenHits, 0}
      BY <1>4, SeenTick
    <3>2. CASE SeenScore' = SeenScore /\ (SeenBlocked' => SeenBlocked)
      <4>1. SeenBlocked' = SeenBlocked \/ SeenBlocked' = FALSE
        BY <3>2 DEF SeenBlocked
      <4>2. \/ Seen' = [hits |-> SeenHits', score |-> SeenScore, blocked |-> SeenBlocked]
            \/ Seen' = [hits |-> SeenHits', score |-> SeenScore, blocked |-> FALSE]
        BY <3>2, <4>1 DEF Seen
      <4> QED
        BY <3>1, <4>2, LapsesSeen
    <3>3. CASE SeenScore' = 0 /\ ~SeenBlocked /\ ~SeenBlocked'
      <4>1. SeenBlocked' = SeenBlocked
        BY <3>3 DEF SeenBlocked
      <4>2. Seen' = [hits |-> SeenHits', score |-> 0, blocked |-> SeenBlocked]
        BY <3>3, <4>1 DEF Seen
      <4> QED
        BY <3>1, <3>3, <4>2, LapsesSeen
    <3> QED
      BY <1>4, <3>2, <3>3, SeenTick
  <2> QED
    BY <2>1 DEF Promise!Next, Promise!Lapse
<1>5. CASE UNCHANGED <<window, strikes>>
  <2>1. SeenHits' = SeenHits /\ SeenScore' = SeenScore /\ SeenBlocked' = SeenBlocked
    BY <1>5 DEF SeenHits, SeenScore, SeenBlocked
  <2>2. Seen' = Seen
    BY <2>1 DEF Seen
  <2> QED
    BY <2>2
<1> QED
  BY <1>1, <1>2, <1>3, <1>4, <1>5 DEF Next, BlockStatus, Stop, vars

(* A RateLimiter object keeps the promise that Gate relies on: for any     *)
(* budget, weights and levels, as long as no block is longer than the      *)
(* decay, each call counts at once and in full, and neither the clock nor  *)
(* an alarm, late or run twice, takes away what callers still rely on      *)
(* (rate-limit.ts:55-143).                                                 *)
THEOREM PromiseKept == Spec => KeepsPromise
<1>1. Init => BlockInDecay /\ Promise!Init
  <2> SUFFICES ASSUME Init  PROVE BlockInDecay /\ Promise!Init
    OBVIOUS
  <2>1. SeenHits = 0 /\ SeenScore = 0 /\ SeenBlocked = FALSE
    BY DEF Init, SeenHits, SeenScore, SeenBlocked
  <2> QED
    BY <2>1 DEF Init, BlockInDecay, Seen, Promise!Init, Promise!Fresh
<1>2. TypeOK /\ BlockInDecay /\ [Next]_vars => BlockInDecay'
  BY BlockInDecayStep
<1>3. TypeOK /\ BlockInDecay /\ [Next]_vars => [Promise!Next]_Seen /\ [CallsCount]_vars
  BY PromiseStep, CallsStep
<1> QED
  BY <1>1, <1>2, <1>3, TypeCorrect, PTL DEF Spec, KeepsPromise, Promise!Spec

-----------------------------------------------------------------------------
(*                                  Gate                                   *)

USE GateAssumption

-----------------------------------------------------------------------------
(* The operators of LimiterKey, field by field.                            *)
LEMMA FreshType == Fresh \in Key
BY DEF Fresh, Key

LEMMA HitByFields ==
  ASSUME NEW k \in Key, NEW limit \in Nat
  PROVE  /\ HitBy(k, limit) \in Key
         /\ HitBy(k, limit).score = k.score
         /\ HitBy(k, limit).blocked = k.blocked
BY DEF HitBy, Key, Least

LEMMA EmptiedFields ==
  ASSUME NEW k \in Key
  PROVE  /\ Emptied(k) \in Key
         /\ Emptied(k).score = k.score
         /\ Emptied(k).blocked = k.blocked
BY DEF Emptied, Key

LEMMA StruckFields ==
  ASSUME NEW k \in Key, NEW weight \in Nat
  PROVE  /\ Struck(k, weight) \in Key
         /\ Struck(k, weight).score = Least(k.score + weight, THRESHOLD)
         /\ Struck(k, weight).blocked =
                (k.blocked \/ Struck(k, weight).score = THRESHOLD)
<1>1. k.hits \in Nat /\ k.score \in Nat /\ k.blocked \in BOOLEAN
  BY DEF Key
<1>2. Least(k.score + weight, THRESHOLD) \in Nat
  BY <1>1 DEF Least
<1> QED
  BY <1>1, <1>2 DEF Struck, Key

LEMMA PardonedFields ==
  ASSUME NEW k \in Key
  PROVE  /\ Pardoned(k) \in Key
         /\ Pardoned(k).score = 0
         /\ Pardoned(k).blocked = FALSE
BY DEF Pardoned, Key

LEMMA ReleasedFields ==
  ASSUME NEW k \in Key
  PROVE  /\ Released(k) \in Key
         /\ Released(k).score = k.score
         /\ Released(k).blocked = FALSE
BY DEF Released, Key

LEMMA ForgottenFields ==
  ASSUME NEW k \in Key
  PROVE  /\ Forgotten(k) \in Key
         /\ ~k.blocked => Forgotten(k).score = 0 /\ Forgotten(k).blocked = FALSE
BY DEF Forgotten, Key

-----------------------------------------------------------------------------
(* The type invariant.                                                     *)
LEMMA AnswerType ==
  ASSUME GateTypeOK, NEW s \in Slots, NEW status \in Nat, Answer(s, status)
  PROVE  request' \in [Slots -> Request]
<1>1. request[s] \in Request /\ NoRequest \in Request
  BY DEF GateTypeOK, NoRequest, Request, Steps, Asks
<1>2. Suspicion(request[s].ask, status) \in Nat
  BY DEF Suspicion
<1> DEFINE weight == Suspicion(request[s].ask, status)
<1>3. [request[s] EXCEPT !.step = "scoring", !.weight = weight] \in Request
  BY <1>1, <1>2 DEF Request, Steps
<1> QED
  BY <1>1, <1>3 DEF Answer, Scored, GateTypeOK

LEMMA ScoredType ==
  ASSUME GateTypeOK, NEW s \in Slots, NEW weight \in Nat, Scored(s, weight)
  PROVE  request' \in [Slots -> Request]
<1>1. request[s] \in Request /\ NoRequest \in Request
  BY DEF GateTypeOK, NoRequest, Request, Steps, Asks
<1>2. [request[s] EXCEPT !.step = "scoring", !.weight = weight] \in Request
  BY <1>1 DEF Request, Steps
<1> QED
  BY <1>1, <1>2 DEF Scored, GateTypeOK

LEMMA GoesToType ==
  ASSUME GateTypeOK, NEW s \in Slots, NEW step \in Steps, GoesTo(s, step)
  PROVE  request' \in [Slots -> Request]
BY DEF GoesTo, GateTypeOK, Request

LEMMA BecomesType ==
  ASSUME GateTypeOK, NEW objects \in [Addresses -> Key], NEW s \in Slots, NEW key \in Key
  PROVE  Becomes(objects, s, key) \in [Addresses -> Key]
BY DEF Becomes, GateTypeOK

LEMMA AddressType ==
  ASSUME GateTypeOK, NEW s \in Slots
  PROVE  Address(s) \in Addresses /\ request[s].weight \in Nat
BY DEF Address, GateTypeOK, Request

LEMMA InitType == GateInit => GateTypeOK
<1> SUFFICES ASSUME GateInit  PROVE GateTypeOK
  OBVIOUS
<1>1. NoRequest \in Request
  BY DEF NoRequest, Request, Steps, Asks
<1>2. ip \in [Addresses -> Key] /\ login \in [Addresses -> Key] /\ account \in Key
  BY FreshType DEF GateInit
<1>3. request \in [Slots -> Request]
  BY <1>1 DEF GateInit
<1> QED
  BY <1>2, <1>3 DEF GateInit, GateTypeOK

LEMMA GateTypeStep ==
  ASSUME GateTypeOK, [GateNext]_gateVars
  PROVE  GateTypeOK'
<1> USE DEF keys, gateHistory
<1>1. ASSUME NEW s \in Slots, NEW a \in Addresses, NEW ask \in ASKED, Send(s, a, ask)
      PROVE  GateTypeOK'
  <2>1. ask \in Asks
    OBVIOUS
  <2>2. [step |-> "arrived", address |-> a, ask |-> ask, weight |-> 0] \in Request
    BY <2>1 DEF Request, Steps
  <2>3. request' \in [Slots -> Request]
    BY <1>1, <2>2 DEF Send, GateTypeOK
  <2> QED
    BY <1>1, <2>3 DEF Send, GateTypeOK
<1>2. ASSUME NEW s \in Slots, OwnerTries(s)  PROVE GateTypeOK'
  BY <1>2 DEF OwnerTries, GateTypeOK, Request, Steps, Asks
<1>3. ASSUME NEW s \in Slots, CheckAddress(s)  PROVE GateTypeOK'
  <2>1. request' \in [Slots -> Request]
    BY <1>3, ScoredType, AnswerType, GoesToType DEF CheckAddress, Steps
  <2>2. mishaps' \in Nat
    BY <1>3 DEF CheckAddress, GateTypeOK
  <2> QED
    BY <1>3, <2>1, <2>2 DEF CheckAddress, GateTypeOK
<1>4. ASSUME NEW s \in Slots, SpendLogin(s)  PROVE GateTypeOK'
  <2>1. login[Address(s)] \in Key
    BY AddressType DEF GateTypeOK
  <2>2. login' \in [Addresses -> Key]
    BY <1>4, <2>1, HitByFields, BecomesType DEF SpendLogin, GateTypeOK
  <2>3. request' \in [Slots -> Request]
    BY <1>4, AnswerType, GoesToType DEF SpendLogin, Steps
  <2> QED
    BY <1>4, <2>2, <2>3 DEF SpendLogin, GateTypeOK
<1>5. ASSUME NEW s \in Slots, CheckAccount(s)  PROVE GateTypeOK'
  <2>1. request' \in [Slots -> Request]
    BY <1>5, AnswerType, GoesToType DEF CheckAccount, Steps
  <2> QED
    BY <1>5, <2>1 DEF CheckAccount, GateTypeOK
<1>6. ASSUME NEW s \in Slots, SpendAccount(s)  PROVE GateTypeOK'
  <2>1. request' \in [Slots -> Request]
    BY <1>6, GoesToType DEF SpendAccount, Steps
  <2>2. account' \in Key
    BY <1>6, HitByFields DEF SpendAccount, GateTypeOK
  <2> QED
    BY <1>6, <2>1, <2>2 DEF SpendAccount, GateTypeOK
<1>7. ASSUME NEW s \in Slots, StrikeOver(s) \/ StrikeWrong(s)  PROVE GateTypeOK'
  <2>1. request' \in [Slots -> Request]
    BY <1>7, AnswerType DEF StrikeOver, StrikeWrong
  <2>2. account' \in Key
    <3>1. OVER \in Nat /\ WRONG \in Nat /\ account \in Key
      BY DEF GateTypeOK
    <3>2. account' = Struck(account, OVER) \/ account' = Struck(account, WRONG)
      BY <1>7 DEF StrikeOver, StrikeWrong, StruckAccount
    <3> QED
      BY <3>1, <3>2, StruckFields
  <2> QED
    BY <1>7, <2>1, <2>2 DEF StrikeOver, StrikeWrong, GateTypeOK
<1>8. ASSUME NEW s \in Slots, ResetAccount(s)  PROVE GateTypeOK'
  <2>1. request' \in [Slots -> Request]
    BY <1>8, GoesToType DEF ResetAccount, Steps
  <2> QED
    BY <1>8, <2>1, EmptiedFields DEF ResetAccount, GateTypeOK
<1>9. ASSUME NEW s \in Slots, PardonAccount(s)  PROVE GateTypeOK'
  <2>1. request' \in [Slots -> Request]
    BY <1>9, AnswerType DEF PardonAccount
  <2> QED
    BY <1>9, <2>1, PardonedFields DEF PardonAccount, GateTypeOK
<1>10. ASSUME NEW s \in Slots, Fails(s)  PROVE GateTypeOK'
  <2>1. request' \in [Slots -> Request]
    BY <1>10, AnswerType DEF Fails
  <2> QED
    BY <1>10, <2>1 DEF Fails, GateTypeOK
<1>11. ASSUME NEW s \in Slots, StrikeAddress(s)  PROVE GateTypeOK'
  <2>1. ip[Address(s)] \in Key
    BY AddressType DEF GateTypeOK
  <2>2. ip' \in [Addresses -> Key]
    BY <1>11, <2>1, AddressType, StruckFields, BecomesType DEF StrikeAddress, GateTypeOK
  <2> QED
    BY <1>11, <2>2 DEF StrikeAddress, GateTypeOK, NoRequest, Request, Steps, Asks
<1>12. ASSUME NEW a \in Addresses, Passes(a) \/ ScoreForgotten(a)  PROVE GateTypeOK'
  <2>1. ip[a] \in Key /\ login[a] \in Key
    BY DEF GateTypeOK
  <2>2. Emptied(login[a]) \in Key /\ Released(ip[a]) \in Key /\ Forgotten(ip[a]) \in Key
    BY <2>1, EmptiedFields, ReleasedFields, ForgottenFields
  <2> QED
    BY <1>12, <2>2 DEF Passes, LoginWindowEnds, BlockEnds, ScoreForgotten, GateTypeOK
<1>13. CASE AccountWindowEnds \/ AccountBlockEnds \/ AccountForgotten
  <2>1. Emptied(account) \in Key /\ Released(account) \in Key /\ Forgotten(account) \in Key
    BY EmptiedFields, ReleasedFields, ForgottenFields DEF GateTypeOK
  <2>2. CASE AccountWindowEnds
    BY <2>1, <2>2 DEF AccountWindowEnds, GateTypeOK
  <2>3. CASE AccountBlockEnds
    BY <2>1, <2>3 DEF AccountBlockEnds, GateTypeOK
  <2>4. CASE AccountForgotten
    BY <2>1, <2>4 DEF AccountForgotten, GateTypeOK
  <2> QED
    BY <1>13, <2>2, <2>3, <2>4
<1>14. CASE UNCHANGED gateVars
  BY <1>14 DEF gateVars, GateTypeOK
<1> QED
  BY <1>1, <1>2, <1>3, <1>4, <1>5, <1>6, <1>7, <1>8, <1>9, <1>10, <1>11, <1>12, <1>13, <1>14
  DEF GateNext, Goes

(* Requests, keys and counters keep their types (index.ts:30-76,           *)
(* auth.ts:91-155).                                                        *)
THEOREM GateTypeCorrect == GateSpec => []GateTypeOK
<1>1. GateTypeOK /\ [GateNext]_gateVars => GateTypeOK'
  BY GateTypeStep
<1> QED
  BY <1>1, InitType, PTL DEF GateSpec

-----------------------------------------------------------------------------
(* How many guesses an account answers.                                    *)

(* Guesses that have found the account not blocked and will be answered,   *)
(* or turned away by the limit, whatever happens to it now.                *)
Through == {s \in Slots : request[s].step \in {"count", "verify"} /\ request[s].ask = "guess"}

Budget == AtOnce + IF ended THEN 0 ELSE Free

(* A blocked account lets nothing more through; one whose block has ended  *)
(* is blocked again by the first strike; one that has not been blocked has *)
(* every answered guess in its score.                                      *)
AccountInv ==
    /\ account.blocked => account.score = THRESHOLD /\ guesses + Cardinality(Through) <= Budget
    /\ ~account.blocked /\ ended => account.score = THRESHOLD /\ guesses = 0
    /\ ~account.blocked /\ ~ended => account.score < THRESHOLD /\ WRONG * guesses <= account.score

LEMMA DivBound ==
  ASSUME NEW n \in Nat, NEW w \in Nat \ {0}, NEW t \in Nat, w * n <= t
  PROVE  n <= t \div w
OBVIOUS

LEMMA FreeBound ==
  /\ Free \in Nat
  /\ \A n \in Nat, s \in Nat : s < THRESHOLD /\ WRONG * n <= s => n <= Free
<1>1. WRONG \in Nat \ {0} /\ THRESHOLD - 1 \in Nat
  OBVIOUS
<1>2. Free \in Nat
  BY <1>1 DEF Free
<1>3. ASSUME NEW n \in Nat, NEW s \in Nat, s < THRESHOLD, WRONG * n <= s
      PROVE  n <= Free
  <2>1. WRONG * n \in Nat
    BY <1>1
  <2>2. WRONG * n <= THRESHOLD - 1
    BY <1>1, <1>3, <2>1
  <2> QED
    BY <1>1, <2>2, DivBound DEF Free
<1> QED
  BY <1>2, <1>3

(* No more than all the slots are through at once.                         *)
LEMMA ThroughCounted ==
  /\ IsFiniteSet(Through) /\ Cardinality(Through) \in Nat
  /\ AtOnce \in Nat /\ Cardinality(Through) <= AtOnce
<1>1. Through \in SUBSET Slots
  BY DEF Through
<1> QED
  BY <1>1, FS_Subset, FS_CardinalityType DEF AtOnce

(* Only CheckAccount lets a guess through.                                 *)
LEMMA ThroughLess ==
  ASSUME GateTypeOK, Through' \subseteq Through
  PROVE  Cardinality(Through') \in Nat /\ Cardinality(Through') <= Cardinality(Through)
BY ThroughCounted, FS_Subset, FS_CardinalityType

LEMMA ThroughRest ==
  ASSUME GateTypeOK, [GateNext]_gateVars, ~(\E s \in Slots : CheckAccount(s) /\ ~Locked)
  PROVE  Through' \subseteq Through
<1> USE DEF keys, gateHistory
<1>1. CASE UNCHANGED request
  BY <1>1 DEF Through
<1>2. ASSUME NEW s \in Slots, request' = [request EXCEPT ![s] = request'[s]],
             request'[s].step \notin {"count", "verify"}
      PROVE  Through' \subseteq Through
  BY <1>2 DEF Through, GateTypeOK
<1>3. ASSUME NEW s \in Slots, NEW status \in Nat, Answer(s, status)
      PROVE  Through' \subseteq Through
  BY <1>3 DEF Answer, Scored, Through, GateTypeOK, NoRequest, Request
<1>4. ASSUME NEW s \in Slots, SpendAccount(s)  PROVE Through' \subseteq Through
  BY <1>4 DEF SpendAccount, GoesTo, At, Through, GateTypeOK, Request
<1>5. ASSUME NEW s \in Slots, NEW weight \in Nat, Scored(s, weight)
      PROVE  Through' \subseteq Through
  BY <1>5 DEF Scored, Through, GateTypeOK, NoRequest, Request
<1>6. ASSUME NEW s \in Slots, NEW step, GoesTo(s, step), step \notin {"count", "verify"}
      PROVE  Through' \subseteq Through
  BY <1>6 DEF GoesTo, Through, GateTypeOK, Request
<1>7. ASSUME NEW s \in Slots, Goes(s) \/ Fails(s)  PROVE Through' \subseteq Through
  <2>1. CASE CheckAddress(s)
    BY <2>1, <1>3, <1>5, <1>6 DEF CheckAddress
  <2>2. CASE SpendLogin(s)
    BY <2>2, <1>3, <1>6 DEF SpendLogin
  <2>3. CASE CheckAccount(s)
    BY <2>3, <1>3 DEF CheckAccount
  <2>4. CASE SpendAccount(s)
    BY <2>4, <1>4
  <2>5. CASE StrikeOver(s) \/ StrikeWrong(s) \/ PardonAccount(s) \/ Fails(s)
    BY <2>5, <1>3 DEF StrikeOver, StrikeWrong, PardonAccount, Fails
  <2>6. CASE ResetAccount(s)
    BY <2>6, <1>6 DEF ResetAccount
  <2>7. CASE StrikeAddress(s)
    BY <2>7 DEF StrikeAddress, Through, GateTypeOK, NoRequest
  <2> QED
    BY <1>7, <2>1, <2>2, <2>3, <2>4, <2>5, <2>6, <2>7 DEF Goes
<1>8. ASSUME NEW s \in Slots, NEW a \in Addresses, NEW ask \in ASKED, Send(s, a, ask)
      PROVE  Through' \subseteq Through
  BY <1>8 DEF Send, Through, GateTypeOK
<1>9. ASSUME NEW s \in Slots, OwnerTries(s)  PROVE Through' \subseteq Through
  BY <1>9 DEF OwnerTries, Through, GateTypeOK
<1>10. ASSUME NEW a \in Addresses, Passes(a) \/ ScoreForgotten(a)  PROVE UNCHANGED request
  BY <1>10 DEF Passes, LoginWindowEnds, BlockEnds, ScoreForgotten
<1>11. CASE AccountWindowEnds \/ AccountBlockEnds \/ AccountForgotten \/ UNCHANGED gateVars
  BY <1>11, <1>1 DEF AccountWindowEnds, AccountBlockEnds, AccountForgotten, gateVars
<1> QED
  BY <1>1, <1>7, <1>8, <1>9, <1>10, <1>11 DEF GateNext

(* An answered guess is through no more.                                   *)
LEMMA GuessAnswered ==
  ASSUME GateTypeOK, NEW s \in Slots, StrikeWrong(s)
  PROVE  Cardinality(Through') \in Nat /\ Cardinality(Through') + 1 = Cardinality(Through)
<1>1. s \in Through
  BY DEF StrikeWrong, At, Through
<1>2. Through' = Through \ {s}
  BY DEF StrikeWrong, Answer, Scored, At, Through, GateTypeOK, NoRequest, Request
<1>3. Cardinality(Through \ {s}) = Cardinality(Through) - 1 /\ IsFiniteSet(Through \ {s})
  BY <1>1, ThroughCounted, FS_RemoveElement
<1>4. Cardinality(Through \ {s}) \in Nat
  BY <1>3, FS_CardinalityType
<1> QED
  BY <1>2, <1>3, <1>4, ThroughCounted

(* The invariant where neither the account nor the gateHistory changes, ...    *)
LEMMA AccountInvKept ==
  ASSUME GateTypeOK, AccountInv, UNCHANGED <<guesses, ended>>,
         account'.score = account.score, account'.blocked = account.blocked,
         account.blocked => Through' \subseteq Through
  PROVE  AccountInv'
<1>1. guesses \in Nat /\ Budget \in Nat /\ Budget' = Budget
  BY ThroughCounted, FreeBound DEF GateTypeOK, Budget
<1>2. account.blocked => Cardinality(Through') \in Nat
                         /\ Cardinality(Through') <= Cardinality(Through)
  BY ThroughLess
<1> QED
  BY <1>1, <1>2, ThroughCounted DEF AccountInv

(* ... where its score is cleared, ...                                     *)
LEMMA AccountInvCleared ==
  ASSUME guesses' = 0, ended' = FALSE, account'.score = 0, account'.blocked = FALSE
  PROVE  AccountInv'
BY DEF AccountInv

(* ... and where it is struck.                                             *)
LEMMA AccountInvStruck ==
  ASSUME GateTypeOK, AccountInv, NEW weight \in Nat, account' = Struck(account, weight),
         UNCHANGED ended, NEW more \in {0, 1}, guesses' = guesses + more,
         WRONG * more <= weight, 0 < weight,
         Cardinality(Through') \in Nat, Cardinality(Through') + more <= Cardinality(Through)
  PROVE  AccountInv'
<1>1. /\ account.score \in Nat /\ account.blocked \in BOOLEAN
      /\ guesses \in Nat /\ Budget \in Nat /\ Budget' = Budget
      /\ Cardinality(Through) \in Nat /\ Cardinality(Through) <= AtOnce /\ AtOnce \in Nat
  BY ThroughCounted, FreeBound DEF GateTypeOK, Key, Budget
<1>2. /\ account'.score = Least(account.score + weight, THRESHOLD)
      /\ account'.blocked = (account.blocked \/ account'.score = THRESHOLD)
  BY StruckFields DEF GateTypeOK
<1> DEFINE blocks == /\ account'.score = THRESHOLD /\ account'.blocked
                      /\ guesses + more + Cardinality(Through') <= Budget
<1>3. blocks => AccountInv'
  BY <1>1 DEF AccountInv
<1>4. CASE account.blocked
  <2>1. account.score = THRESHOLD /\ guesses + Cardinality(Through) <= Budget
    BY <1>4 DEF AccountInv
  <2>2. account'.score = THRESHOLD /\ account'.blocked
    <3>1. account'.score = THRESHOLD
      BY <1>1, <1>2, <2>1 DEF Least
    <3> QED
      BY <1>2, <3>1
  <2> QED
    BY <1>1, <1>3, <2>1, <2>2
<1>5. CASE ~account.blocked /\ ended
  <2>1. account.score = THRESHOLD /\ guesses = 0
    BY <1>5 DEF AccountInv
  <2>2. account'.score = THRESHOLD /\ account'.blocked
    <3>1. account'.score = THRESHOLD
      BY <1>1, <1>2, <2>1 DEF Least
    <3> QED
      BY <1>2, <3>1
  <2>3. Budget = AtOnce
    BY <1>1, <1>5 DEF Budget
  <2> QED
    BY <1>1, <1>3, <2>1, <2>2, <2>3
<1>6. CASE ~account.blocked /\ ~ended
  <2>1. account.score < THRESHOLD /\ WRONG * guesses <= account.score /\ guesses <= Free
    BY <1>1, <1>6, FreeBound DEF AccountInv
  <2>2. CASE account'.score = THRESHOLD
    <3>1. account'.blocked
      BY <1>2, <2>2
    <3>2. Budget = AtOnce + Free
      BY <1>6 DEF Budget
    <3> QED
      BY <1>1, <1>3, <2>1, <2>2, <3>1, <3>2, FreeBound
  <2>3. CASE account'.score # THRESHOLD
    <3>1. account'.score = account.score + weight /\ account'.score < THRESHOLD
      BY <1>1, <1>2, <2>3 DEF Least
    <3>2. WRONG * (guesses + more) = WRONG * guesses + WRONG * more
      BY <1>1
    <3>3. WRONG * guesses' <= account'.score
      BY <1>1, <2>1, <3>1, <3>2
    <3> QED
      BY <1>2, <1>6, <2>3, <3>1, <3>3 DEF AccountInv
  <2> QED
    BY <2>2, <2>3
<1> QED
  BY <1>1, <1>4, <1>5, <1>6

LEMMA AccountInvStep ==
  ASSUME GateTypeOK, AccountInv, [GateNext]_gateVars
  PROVE  AccountInv'
<1> USE DEF gateHistory
<1>1. account \in Key
  BY DEF GateTypeOK
<1>2. ASSUME NEW s \in Slots, CheckAccount(s), ~Locked  PROVE AccountInv'
  BY <1>2, AccountInvKept DEF CheckAccount, keys, Locked, Blocked
<1>3. CASE ~(\E s \in Slots : CheckAccount(s) /\ ~Locked)
  <2>1. Through' \subseteq Through
    BY <1>3, ThroughRest
  <2>2. Cardinality(Through') \in Nat /\ Cardinality(Through') <= Cardinality(Through)
    BY <2>1, ThroughLess
  <2>3. ASSUME UNCHANGED <<account, guesses, ended>>  PROVE AccountInv'
    BY <2>1, <2>3, AccountInvKept
  <2>4. ASSUME NEW s \in Slots, NEW a \in Addresses, NEW ask \in ASKED, Send(s, a, ask)
        PROVE  AccountInv'
    BY <2>3, <2>4 DEF Send, keys
  <2>5. ASSUME NEW s \in Slots, OwnerTries(s) \/ CheckAddress(s) \/ SpendLogin(s)
                                \/ CheckAccount(s) \/ StrikeAddress(s) \/ Fails(s)
        PROVE  AccountInv'
    BY <2>3, <2>5
    DEF OwnerTries, CheckAddress, SpendLogin, CheckAccount, StrikeAddress, Fails, keys
  <2>6. ASSUME NEW s \in Slots, SpendAccount(s)  PROVE AccountInv'
    BY <1>1, <2>1, <2>6, HitByFields, AccountInvKept DEF SpendAccount
  <2>7. ASSUME NEW s \in Slots, StrikeOver(s)  PROVE AccountInv'
    <3>1. /\ OVER \in Nat /\ 0 < OVER /\ WRONG * 0 = 0 /\ guesses + 0 = guesses
          /\ Cardinality(Through') + 0 = Cardinality(Through')
      BY <2>2 DEF GateTypeOK
    <3> QED
      BY <2>2, <2>7, <3>1, AccountInvStruck DEF StrikeOver, StruckAccount
  <2>8. ASSUME NEW s \in Slots, StrikeWrong(s)  PROVE AccountInv'
    <3>1. WRONG \in Nat /\ 0 < WRONG /\ WRONG * 1 = WRONG /\ WRONG <= WRONG
      OBVIOUS
    <3>2. Cardinality(Through') \in Nat
          /\ Cardinality(Through') + 1 <= Cardinality(Through)
      BY <2>8, GuessAnswered, ThroughCounted
    <3> QED
      BY <2>8, <3>1, <3>2, AccountInvStruck DEF StrikeWrong, StruckAccount
  <2>9. ASSUME NEW s \in Slots, ResetAccount(s)  PROVE AccountInv'
    BY <1>1, <2>1, <2>9, EmptiedFields, AccountInvKept DEF ResetAccount
  <2>10. ASSUME NEW s \in Slots, PardonAccount(s)  PROVE AccountInv'
    BY <1>1, <2>10, PardonedFields, AccountInvCleared DEF PardonAccount
  <2>11. ASSUME NEW a \in Addresses, Passes(a) \/ ScoreForgotten(a)  PROVE AccountInv'
    BY <2>3, <2>11 DEF Passes, LoginWindowEnds, BlockEnds, ScoreForgotten
  <2>12. CASE AccountWindowEnds
    BY <1>1, <2>1, <2>12, EmptiedFields, AccountInvKept DEF AccountWindowEnds
  <2>13. CASE AccountBlockEnds
    BY <1>1, <2>13, ReleasedFields DEF AccountBlockEnds, AccountInv
  <2>14. CASE AccountForgotten
    BY <1>1, <2>14, ForgottenFields, AccountInvCleared DEF AccountForgotten
  <2>15. CASE UNCHANGED gateVars
    BY <2>3, <2>15 DEF gateVars, keys
  <2> QED
    BY <2>4, <2>5, <2>6, <2>7, <2>8, <2>9, <2>10, <2>11, <2>12, <2>13, <2>14, <2>15
    DEF GateNext, Goes
<1> QED
  BY <1>2, <1>3

(* An account answers a bounded number of guesses, for any number of       *)
(* addresses and of slots and any weights and threshold: those that one    *)
(* after the other do not block it and those under way at once, and after  *)
(* each block that has ended those under way at once (auth.ts:107-135).    *)
THEOREM GuessesBounded == GateSpec => []AccountBounded
<1>1. GateInit => AccountInv
  BY AccountInvCleared DEF GateInit, AccountInv, Fresh
<1>2. GateTypeOK /\ AccountInv /\ [GateNext]_gateVars => AccountInv'
  BY AccountInvStep
<1>3. GateTypeOK /\ AccountInv => AccountBounded
  <2> SUFFICES ASSUME GateTypeOK, AccountInv  PROVE AccountBounded
    OBVIOUS
  <2>1. /\ guesses \in Nat /\ account.score \in Nat /\ ended \in BOOLEAN
        /\ account.blocked \in BOOLEAN
    BY DEF GateTypeOK, Key
  <2>2. ~account.blocked /\ ~ended => guesses <= Free
    BY <2>1, FreeBound DEF AccountInv
  <2> QED
    BY <2>1, <2>2, ThroughCounted, FreeBound DEF AccountInv, AccountBounded, Budget
<1> QED
  BY <1>1, <1>2, <1>3, GateTypeCorrect, PTL DEF GateSpec

=============================================================================
