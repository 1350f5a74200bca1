------------------------------ MODULE Limiter -------------------------------
(***************************************************************************)
(* The promise of a RateLimiter object to its callers: every call counts   *)
(* at once and in full, and between calls time only ends windows, blocks   *)
(* and, for a key that is not blocked, the score.  RateLimiter implements  *)
(* it; Gate is built on it.                                                *)
(***************************************************************************)
EXTENDS LimiterKey

CONSTANTS
    LIMIT,      \* that the callers of this key name
    Weights     \* of the strikes

VARIABLE key

Init == key = Fresh

Hit == key' = HitBy(key, LIMIT)

Strike == \E weight \in Weights : key' = Struck(key, weight)

Reset == key' = Emptied(key)

Pardon == key' = Pardoned(key)

Lapse == key' \in Lapses(key)

Next == Hit \/ Strike \/ Reset \/ Pardon \/ Lapse

Spec == Init /\ [][Next]_key
=============================================================================
