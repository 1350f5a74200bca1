------------------------------- MODULE MCGate -------------------------------
(***************************************************************************)
(* Gate for TLC: the limits, weights and threshold scaled down, so that    *)
(* the third wrong password in a row meets a block and the fourth login of *)
(* a window its limit.                                                     *)
(***************************************************************************)
EXTENDS Gate
=============================================================================
