----------------------------- MODULE MCPackets -----------------------------
(***************************************************************************)
(* Packets for TLC: one message of the key exchange, NEWKEYS, and enough   *)
(* later ones for the counter to come all the way round.                   *)
(***************************************************************************)
EXTENDS Packets

CONSTANTS e1, p1, p2, p3, p4

MCEarly == {e1}
MCLate == {p1, p2, p3, p4}
=============================================================================
