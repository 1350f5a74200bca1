---------------------------- MODULE PacketOrder ----------------------------
(***************************************************************************)
(* What Packets.send() (src/src/ssh/packet.ts) promises its callers: the   *)
(* packets of the calls reach the wire whole, at most once and in the      *)
(* order of the calls; a call either has its packet on the wire or is      *)
(* told that it has not; and once one has failed no later one succeeds.    *)
(***************************************************************************)
EXTENDS Sequences

CONSTANT Payloads

VARIABLES
    waiting,    \* payloads whose call has not settled, oldest first
    wire,       \* payloads on the wire, oldest first
    rejected,   \* payloads whose call failed
    over        \* nothing more is accepted

vars == <<waiting, wire, rejected, over>>

Init == waiting = <<>> /\ wire = <<>> /\ rejected = {} /\ over = FALSE

(* A caller hands over a packet and waits.                                 *)
Call(p) ==
    /\ waiting' = Append(waiting, p)
    /\ UNCHANGED <<wire, rejected, over>>

(* The oldest call settles: its packet is on the wire ...                  *)
Deliver ==
    /\ waiting # <<>> /\ ~over
    /\ wire' = Append(wire, Head(waiting))
    /\ waiting' = Tail(waiting)
    /\ UNCHANGED <<rejected, over>>

(* ... or it is refused, and so is every one after it.                     *)
Refuse ==
    /\ waiting # <<>>
    /\ rejected' = rejected \cup {Head(waiting)}
    /\ waiting' = Tail(waiting)
    /\ over' = TRUE
    /\ UNCHANGED wire

Next == (\E p \in Payloads : Call(p)) \/ Deliver \/ Refuse

Spec == Init /\ [][Next]_vars
=============================================================================
