---------------------------- MODULE MCSshChannel ----------------------------
(***************************************************************************)
(* SshChannel for TLC: a paste that takes several chunks and windows, and  *)
(* a keystroke after it.                                                   *)
(***************************************************************************)
EXTENDS SshChannel

CONSTANT z1

MCLengths == <<4, 1>>
MCResizes == {z1}
=============================================================================
