----------------------------- MODULE MCServers ------------------------------
(***************************************************************************)
(* Servers for TLC: two creations with room for one, a terminal that is    *)
(* opened again and again, and servers that may move, with another         *)
(* credential, or have a pin typed in.                                     *)
(***************************************************************************)
EXTENDS Servers, TLC

CONSTANTS s1, s2, t1, h1, h2, x1, x2, k1, k2, a1, b1

MCIds == {s1, s2}
MCTerminals == {t1}
MCHosts == {h1, h2}
MCSecrets == {x1, x2}
MCKeys == {k1, k2}
MCAddresses == {a1, b1}
MCBlocked == {b1}

MCEntries == {[host |-> h1, secret |-> x1, pin |-> None]}

MCEdits == {[host |-> h2, secret |-> x2, pin |-> Same]}
           \cup {[host |-> Same, secret |-> Same, pin |-> k] : k \in MCKeys}

MCSymmetry == Permutations(MCIds) \cup Permutations(MCKeys)
=============================================================================
