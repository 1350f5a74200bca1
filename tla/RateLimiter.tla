---------------------------- MODULE RateLimiter -----------------------------
(***************************************************************************)
(* The RateLimiter Durable Object of one key (src/src/rate-limit.ts): a    *)
(* fixed window of hits, a score of strikes that blocks, and the alarm     *)
(* that evicts both once they have expired.                                *)
(*                                                                         *)
(* Calls to an object do not interleave: it waits for nothing but its own  *)
(* storage.  A restart may cut a call short between two writes, and the    *)
(* caller then gets an error in place of a verdict.                        *)
(*                                                                         *)
(* A time is kept as what is left until it, or has passed since.           *)
(***************************************************************************)
EXTENDS Integers

CONSTANTS
    LIMIT, WINDOW,      \* the budget that the callers of this key name
    Weights,            \* of the strikes
    Levels,             \* suspicion.ts:20-25, least first: [strikes, duration]
    DECAY,              \* rate-limit.ts:47
    SLACK,              \* rate-limit.ts:124
    None,               \* nothing stored, no alarm
    MAX_COUNT,          \* bound of the model: hits counted in one window
    MAX_STRIKES         \* bound of the model: the score

Window == [count : Nat, left : Nat]
Strikes == [count : Nat, left : Nat, idle : Nat]

ASSUME BudgetAssumption ==
    LIMIT \in Nat /\ WINDOW \in Nat \ {0} /\ MAX_COUNT \in Nat /\ MAX_STRIKES \in Nat
ASSUME StrikesAssumption ==
    /\ Weights \subseteq Nat /\ DECAY \in Nat /\ SLACK \in Nat
    /\ Levels \in [1..3 -> [strikes : Nat, duration : Nat]]
ASSUME LevelsAssumption ==
    /\ 0 < Levels[1].strikes /\ Levels[1].strikes <= Levels[2].strikes
    /\ Levels[2].strikes <= Levels[3].strikes
    /\ \A level \in 1..3 : 0 < Levels[level].duration /\ Levels[level].duration <= DECAY
ASSUME NoneAssumption == None \notin Window \cup Strikes \cup Nat

VARIABLES
    window,     \* stored as 'w': hits counted, time to its reset
    strikes,    \* stored as 's': the score, time left of the block, time since the last
    alarm,      \* time left until the alarm is due
    stopped,    \* nobody calls any more
    (* History, for the properties only.                                   *)
    admitted,   \* allowed hits since that many ticks before the last, but for a reset()
    promised,   \* the longest block a caller was told of that still runs, unless pardoned
    score,      \* weight of the strikes, since a pardon or a quiet DECAY
    quiet,      \* time since the last strike, unless pardoned
    cut         \* the last call that stored something did not set the alarm

history == <<admitted, promised, score, quiet>>
vars == <<window, strikes, alarm, stopped, history, cut>>

TypeOK ==
    /\ window \in Window \cup {None}
    /\ strikes \in Strikes \cup {None}
    /\ alarm \in Nat \cup {None}
    /\ stopped \in BOOLEAN
    /\ admitted \in [0..(WINDOW - 1) -> Nat]
    /\ promised \in Nat /\ score \in Nat /\ quiet \in Nat
    /\ cut \in BOOLEAN

NoneAdmitted == [back \in 0..(WINDOW - 1) |-> 0]

Init ==
    /\ window = None /\ strikes = None /\ alarm = None /\ stopped = FALSE
    /\ admitted = NoneAdmitted /\ promised = 0 /\ score = 0 /\ quiet = DECAY + 1
    /\ cut = FALSE

-----------------------------------------------------------------------------
Greater(a, b) == IF a > b THEN a ELSE b

Lesser(a, b) == IF a < b THEN a ELSE b

(* A time that is over stays so.                                           *)
Down(t) == IF t = 0 THEN 0 ELSE t - 1

(* Nothing tells times beyond DECAY apart.                                 *)
Up(t) == IF t > DECAY THEN t ELSE t + 1

(* scheduleCleanup(): the alarm is set, or moved back.                     *)
Later(target) == IF alarm = None \/ alarm < target THEN target ELSE alarm

Schedule(notBefore) == alarm' = Later(notBefore + SLACK) /\ cut' = FALSE

CutShort == cut' = TRUE /\ UNCHANGED alarm

-----------------------------------------------------------------------------
(* Fault: one too many.                                                    *)
AllowedOneMore(count) == count <= LIMIT + 1

Allowed(count) == count <= LIMIT

(* Fault: the hits of a window that is over count on.                      *)
CurrentForEver ==
    IF window = None THEN [count |-> 0, left |-> WINDOW] ELSE window

(* The window that a hit counts in: a new one if the last has been reset.  *)
Current ==
    IF window = None \/ window.left = 0 THEN [count |-> 0, left |-> WINDOW] ELSE window

(* hit().                                                                  *)
Hit ==
    /\ ~stopped /\ Current.count < MAX_COUNT
    /\ window' = [Current EXCEPT !.count = @ + 1]
    /\ \/ /\ Schedule(Current.left)
          /\ admitted' = IF Allowed(Current.count + 1)
                         THEN [back \in DOMAIN admitted |-> admitted[back] + 1] ELSE admitted
       \/ CutShort /\ UNCHANGED admitted
    /\ UNCHANGED <<strikes, stopped, promised, score, quiet>>

(* reset(), after a login has succeeded.                                   *)
Reset ==
    /\ ~stopped
    /\ window' = None /\ admitted' = NoneAdmitted
    /\ UNCHANGED <<strikes, alarm, stopped, promised, score, quiet, cut>>

-----------------------------------------------------------------------------
blockDurationFor(count) ==
    IF count >= Levels[3].strikes THEN Levels[3].duration
    ELSE IF count >= Levels[2].strikes THEN Levels[2].duration
    ELSE IF count >= Levels[1].strikes THEN Levels[1].duration
    ELSE 0

(* The record that a strike adds to.                                       *)
Record == IF strikes = None THEN [count |-> 0, left |-> 0, idle |-> DECAY + 1] ELSE strikes

(* What is left of the block after a strike: never less than before.       *)
Block(left, count) == Greater(left, blockDurationFor(count))

(* The score, which a quiet DECAY wipes.                                   *)
Decayed(s) == IF s.idle > DECAY THEN 0 ELSE s.count

(* strike().                                                               *)
Strike(weight) ==
    LET count == Decayed(Record) + weight
        left  == Block(Record.left, count)
    IN  /\ ~stopped /\ count <= MAX_STRIKES
        /\ strikes' = [count |-> count, left |-> left, idle |-> 0]
        /\ \/ Schedule(Greater(left, DECAY)) /\ promised' = Greater(promised, left)
           \/ CutShort /\ UNCHANGED promised
        /\ score' = weight + IF quiet > DECAY THEN 0 ELSE score
        /\ quiet' = 0
        /\ UNCHANGED <<window, stopped, admitted>>

(* blockStatus(): a caller is told of the block.                           *)
BlockStatus ==
    /\ ~stopped /\ strikes # None
    /\ promised' = Greater(promised, strikes.left)
    /\ UNCHANGED <<window, strikes, alarm, stopped, admitted, score, quiet, cut>>

(* pardon(), after a login has succeeded.                                  *)
Pardon ==
    /\ ~stopped
    /\ strikes' = None
    /\ promised' = 0 /\ score' = 0 /\ quiet' = DECAY + 1
    /\ UNCHANGED <<window, alarm, stopped, admitted, cut>>

-----------------------------------------------------------------------------
WindowOver == window # None /\ window.left = 0

(* Fault: everything goes, "an active block along with a stale window".    *)
StaleAtOnce == strikes # None

Stale == strikes # None /\ strikes.left = 0 /\ strikes.idle > DECAY

(* Fault: the alarm does not look after what it leaves.                    *)
RearmedNever(remaining) == None

(* Something is left: the alarm comes back for it.                         *)
Rearmed(remaining) == IF remaining THEN DECAY ELSE None

(* alarm(): what has expired goes.  Before it runs, its time is cleared.   *)
Alarm ==
    /\ alarm = 0
    /\ window' = IF WindowOver THEN None ELSE window
    /\ strikes' = IF Stale THEN None ELSE strikes
    /\ alarm' = Rearmed(window' # None \/ strikes' # None)
    /\ cut' = FALSE
    /\ UNCHANGED <<stopped, history>>

(* A restart cuts it short after the window: the platform runs it again.   *)
AlarmCutShort ==
    /\ alarm = 0
    /\ window' = IF WindowOver THEN None ELSE window
    /\ UNCHANGED <<strikes, alarm, stopped, history, cut>>

(* The callers lose interest.                                              *)
Stop ==
    /\ ~stopped
    /\ stopped' = TRUE
    /\ UNCHANGED <<window, strikes, alarm, history, cut>>

(* Time passes.  An alarm may be late.                                     *)
Tick ==
    /\ window' = IF window = None THEN None ELSE [window EXCEPT !.left = Down(@)]
    /\ strikes' = IF strikes = None THEN None
                  ELSE [strikes EXCEPT !.left = Down(@), !.idle = Up(@)]
    /\ alarm' = IF alarm = None THEN None ELSE Down(alarm)
    /\ admitted' = [back \in 0..(WINDOW - 1) |-> IF back = 0 THEN 0 ELSE admitted[back - 1]]
    /\ promised' = Down(promised) /\ quiet' = Up(quiet)
    /\ UNCHANGED <<stopped, score, cut>>

Next ==
    \/ Hit \/ Reset
    \/ \E weight \in Weights : Strike(weight)
    \/ BlockStatus \/ Pardon
    \/ Alarm \/ AlarmCutShort \/ Stop \/ Tick

Spec == Init /\ [][Next]_vars

(* Time passes, and the platform runs an alarm that is due.                *)
FairSpec == Spec /\ WF_vars(Tick) /\ WF_vars(Alarm)

-----------------------------------------------------------------------------
(* A block that a caller was told of holds until its end, or a pardon:     *)
(* neither strikes and decay nor the alarm of an older window end it.      *)
BlockKept == promised > 0 => strikes # None /\ strikes.left >= promised

(* However the hits fall, no span as long as a window sees more than two   *)
(* windows' worth of them allowed.                                         *)
SpanBounded == \A back \in 0..(WINDOW - 1) : admitted[back] <= 2 * LIMIT

(* The score is remembered: it only drops by a pardon or a quiet DECAY,    *)
(* not with a block that ends, a window that is reset or an eviction.      *)
ScoreKept == quiet <= DECAY => strikes # None /\ strikes.count = score

(* What is stored will be looked after, unless a call was cut short.       *)
AlarmPending == (window # None \/ strikes # None) /\ ~cut => alarm # None

(* What callers see of the key.                                            *)
SeenHits == IF window = None \/ window.left = 0 THEN 0 ELSE Lesser(window.count, LIMIT + 1)
SeenScore == IF strikes = None THEN 0 ELSE Lesser(Decayed(strikes), Levels[1].strikes)
SeenBlocked == strikes # None /\ strikes.left > 0
Seen == [hits |-> SeenHits, score |-> SeenScore, blocked |-> SeenBlocked]

Promise == INSTANCE Limiter WITH key <- Seen, THRESHOLD <- Levels[1].strikes

(* Each call does in full what Limiter says it does.                       *)
CallsCount ==
    /\ Hit => Promise!Hit
    /\ \A weight \in Weights : Strike(weight) => Seen' = Promise!Struck(Seen, weight)
    /\ Reset => Promise!Reset
    /\ Pardon => Promise!Pardon

(* The object keeps the promise of Limiter: every call counts at once and  *)
(* in full, and neither the clock nor the alarm, on time, late or run      *)
(* twice, ends a window, a block or a score that callers still rely on.    *)
KeepsPromise == Promise!Spec /\ [][CallsCount]_vars

(* A key that nobody uses any more is forgotten.                           *)
Evicted == stopped /\ ~cut ~> window = None /\ strikes = None
=============================================================================
