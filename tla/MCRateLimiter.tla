--------------------------- MODULE MCRateLimiter ---------------------------
(***************************************************************************)
(* RateLimiter for TLC, with the times and thresholds of the code scaled   *)
(* down in their order: the longest block is as long as the decay.         *)
(***************************************************************************)
EXTENDS RateLimiter

MCLevels == <<[strikes |-> 2, duration |-> 2],
              [strikes |-> 3, duration |-> 3],
              [strikes |-> 4, duration |-> 4]>>
=============================================================================
