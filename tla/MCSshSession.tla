---------------------------- MODULE MCSshSession ----------------------------
(***************************************************************************)
(* SshSession for TLC: two host keys, two accounts, two requests with the  *)
(* ticket.                                                                 *)
(***************************************************************************)
EXTENDS SshSession

CONSTANTS k1, k2, u1, u2, r1, r2

MCKeys == {k1, k2}
MCUsers == {u1, u2}
MCReqs == {r1, r2}
=============================================================================
