------------------------------ MODULE Terminal ------------------------------
(***************************************************************************)
(* What one terminal session promises to those around it: a ticket is used *)
(* at most once, the host's key is settled by the pin or by the user       *)
(* before anything else, and what is over stays over.  SshSession          *)
(* implements it; every session of TerminalView is one.                    *)
(***************************************************************************)
CONSTANTS
    Keys,       \* host keys
    None        \* no key

VARIABLES
    phase,
    pinned,     \* the key that the host must have, or None
    key         \* the key it has presented, while that matters

vars == <<phase, pinned, key>>

Ended == phase' = "over" /\ key' = None /\ UNCHANGED pinned

Init == phase = "none" /\ pinned = None /\ key = None

(* POST /api/connect.                                                      *)
Provision ==
    /\ phase = "none" /\ phase' = "provisioned"
    /\ pinned' \in Keys \cup {None} /\ UNCHANGED key

(* The one upgrade that the ticket is good for: the host is dialled.       *)
Dial ==
    /\ phase = "provisioned" /\ phase' = "checking"
    /\ UNCHANGED <<pinned, key>>

(* The host presents a key.  One that is not pinned is put to the user ... *)
Ask ==
    /\ phase = "checking" /\ pinned = None
    /\ phase' = "asking" /\ key' \in Keys /\ UNCHANGED pinned

(* ... and a pin must match.                                               *)
Match ==
    /\ phase = "checking" /\ pinned # None
    /\ phase' = "going" /\ key' = pinned /\ UNCHANGED pinned

Accept ==
    /\ phase = "asking" /\ phase' = "going"
    /\ UNCHANGED <<pinned, key>>

(* The shell is there.                                                     *)
Start ==
    /\ phase = "going" /\ phase' = "up"
    /\ UNCHANGED <<pinned, key>>

(* It expires, fails, is refused, closed by either side, or forgotten.     *)
End == phase \notin {"none", "over"} /\ Ended

Next == Provision \/ Dial \/ Ask \/ Match \/ Accept \/ Start \/ End

Spec == Init /\ [][Next]_vars

(* On its way to a shell it stays nowhere for ever.                        *)
MovesOn ==
    \A p \in {"provisioned", "checking", "asking", "going"} : phase = p ~> phase # p
=============================================================================
