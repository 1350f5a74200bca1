----------------------------- MODULE LimiterKey -----------------------------
(***************************************************************************)
(* What the callers of a RateLimiter object (src/src/rate-limit.ts) may    *)
(* take one key to be: the hits of its window, its score and whether it is *)
(* blocked.  Times are left out: a window, a block and a score end at some *)
(* moment.  Nothing tells hits beyond the limit, or scores beyond the      *)
(* first level, apart.                                                     *)
(***************************************************************************)
EXTENDS Integers

CONSTANT THRESHOLD          \* suspicion.ts:23, the score that blocks

Key == [hits : Nat, score : Nat, blocked : BOOLEAN]

Fresh == [hits |-> 0, score |-> 0, blocked |-> FALSE]

Least(a, b) == IF a < b THEN a ELSE b

HitBy(k, limit) == [k EXCEPT !.hits = Least(@ + 1, limit + 1)]

(* The verdict on the hit that was counted last.                           *)
WithinLimit(k, limit) == k.hits <= limit

Struck(k, weight) ==
    LET score == Least(k.score + weight, THRESHOLD)
    IN  [hits |-> k.hits, score |-> score, blocked |-> k.blocked \/ score = THRESHOLD]

(* Fault: as long as the score is remembered.                              *)
BlockedByScore(k) == k.score = THRESHOLD

Blocked(k) == k.blocked

Emptied(k) == [k EXCEPT !.hits = 0]

Pardoned(k) == [hits |-> k.hits, score |-> 0, blocked |-> FALSE]

Released(k) == [hits |-> k.hits, score |-> k.score, blocked |-> FALSE]

(* A score is not forgotten before the block it brought is over.           *)
Forgotten(k) == IF k.blocked THEN k ELSE [k EXCEPT !.score = 0]

(* What time may make of a key in one moment.                              *)
Lapses(k) ==
    LET windowed == {k, Emptied(k)}
    IN  windowed \cup {Released(w) : w \in windowed} \cup {Forgotten(w) : w \in windowed}
=============================================================================
