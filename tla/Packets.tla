------------------------------ MODULE Packets ------------------------------
(***************************************************************************)
(* The SSH binary packet layer (src/src/ssh/packet.ts): sends from several *)
(* callers queue up behind one promise chain; each in its turn is framed,  *)
(* in the clear or, once enableGcm() has installed the keys, under         *)
(* AES-GCM with an invocation counter for its IV, and written to the TCP   *)
(* stream.  destroy() may come at any moment.                              *)
(*                                                                         *)
(* A payload is a model value, a frame a record of the payload and the     *)
(* counter it was sealed with.  The promise chain is the sequence of the   *)
(* calls that have not settled; its head is the one that runs.  Its turn   *)
(* may wait twice, for the encryption and for the writer.                  *)
(*                                                                         *)
(* How it is called (src/src/ssh/connection.ts): handshake() awaits each   *)
(* send before the next, up to NEWKEYS, and then calls enableGcm(); from   *)
(* then on the pump, the keystrokes, a resize and a close overlap.         *)
(***************************************************************************)
EXTENDS Integers, Sequences, FiniteSets

CONSTANTS
    Early,      \* payloads of the key exchange, sent in the clear
    NewKeys,    \* the NEWKEYS message, the last in the clear
    Late,       \* payloads sent once the keys are installed
    IVs,        \* the counter takes the values 0 .. IVs - 1 (2^64 of them)
    IV0         \* the value derived for the first frame

Payloads == Early \cup {NewKeys} \cup Late

ASSUME PayloadsAssumption ==
    /\ NewKeys \notin Early \cup Late
    /\ Early \cap Late = {}
ASSUME IVsAssumption == IVs \in Nat \ {0} /\ IV0 \in 0..(IVs - 1)

VARIABLES
    chain,      \* unsettled calls of send(), oldest first
    turn,       \* how far the oldest has come
    fate,       \* of each payload: never sent, or how its call settled
    installed,  \* enableGcm() has run
    counter,    \* gcmOut's invocation counter
    zeroed,     \* destroy() has run
    writer,     \* the TCP stream's writer
    wire,       \* frames written, oldest first
    (* History, for the properties only.                                   *)
    sealed,     \* the counter of every encryption, oldest first
    atInstall,  \* how many frames were on the wire before the keys came
    atDestroy   \* how many the writer had been handed before destroy()

histVars == <<sealed, atInstall, atDestroy>>
vars == <<chain, turn, fate, installed, counter, zeroed, writer, wire, histVars>>

-----------------------------------------------------------------------------
Clear == -1     \* instead of a counter, for a frame that is not encrypted

(* Fault: the counter sticks at its last value.                            *)
Stuck(c) == IF c = IVs - 1 THEN c ELSE c + 1

(* GcmDirection.bump(): the counter wraps at its width.                    *)
Bump(c) == IF c = IVs - 1 THEN 0 ELSE c + 1

Frames == [payload : Payloads, iv : {Clear} \cup 0..(IVs - 1)]

TypeOK ==
    /\ chain \in Seq(Payloads)
    /\ turn \in {"idle", "sealing", "writing"}
    /\ fate \in [Payloads -> {"unsent", "pending", "sent", "rejected"}]
    /\ installed \in BOOLEAN
    /\ counter \in 0..(IVs - 1)
    /\ zeroed \in BOOLEAN
    /\ writer \in {"open", "closing", "failed"}
    /\ wire \in Seq(Frames)
    /\ sealed \in Seq(0..(IVs - 1))
    /\ atInstall \in Nat
    /\ atDestroy \in Nat

Init ==
    /\ chain = <<>> /\ turn = "idle"
    /\ fate = [p \in Payloads |-> "unsent"]
    /\ installed = FALSE /\ counter = IV0
    /\ zeroed = FALSE /\ writer = "open"
    /\ wire = <<>> /\ sealed = <<>> /\ atInstall = 0 /\ atDestroy = 0

(* The oldest call settles and the chain moves on, also past a rejection.  *)
Settle(outcome) ==
    /\ fate' = [fate EXCEPT ![Head(chain)] = outcome]
    /\ chain' = Tail(chain)
    /\ turn' = "idle"

(* Fault: a writer that has been closed still takes frames.                *)
WriteAnyway == turn' = "writing" /\ UNCHANGED <<chain, fate>>

(* writer.write(): a writer that has been closed or has failed refuses.    *)
Write ==
    IF writer = "open"
    THEN turn' = "writing" /\ UNCHANGED <<chain, fate>>
    ELSE Settle("rejected")

-----------------------------------------------------------------------------
(* send(): the call joins the chain.  The handshake's calls come one at a  *)
(* time, the rest once the keys are installed.                             *)
Send(p) ==
    /\ fate[p] = "unsent"
    /\ \/ p \in Early /\ chain = <<>> /\ fate[NewKeys] = "unsent"
       \/ p = NewKeys /\ chain = <<>>
       \/ p \in Late /\ installed
    /\ chain' = Append(chain, p)
    /\ fate' = [fate EXCEPT ![p] = "pending"]
    /\ UNCHANGED <<turn, installed, counter, zeroed, writer, wire, histVars>>

(* Fault: the chain is dropped with the streams, and the calls in it.      *)
TurnUntilDestroy == chain # <<>> /\ turn = "idle" /\ ~zeroed

(* The oldest call has its turn once the one before it has settled.        *)
Turn == chain # <<>> /\ turn = "idle"

(* A call's turn: refused after destroy(), sealed if there are keys, else  *)
(* framed in the clear.                                                    *)
Begin ==
    /\ Turn
    /\ IF zeroed THEN Settle("rejected")
       ELSE IF installed THEN turn' = "sealing" /\ UNCHANGED <<chain, fate>>
       ELSE Write
    /\ UNCHANGED <<installed, counter, zeroed, writer, wire, histVars>>

(* frameGcm(): the encryption is done, under the counter as it stands,     *)
(* which then moves on; the frame goes to the writer.                      *)
Sealed ==
    /\ turn = "sealing"
    /\ sealed' = Append(sealed, counter)
    /\ counter' = Bump(counter)
    /\ Write
    /\ UNCHANGED <<installed, zeroed, writer, wire, atInstall, atDestroy>>

(* Which counter the frame in the writer's hands was sealed with.          *)
FrameIV == IF installed THEN sealed[Len(sealed)] ELSE Clear

(* The platform has taken the frame.                                       *)
Written ==
    /\ turn = "writing"
    /\ wire' = Append(wire, [payload |-> Head(chain), iv |-> FrameIV])
    /\ Settle("sent")
    /\ UNCHANGED <<installed, counter, zeroed, writer, histVars>>

(* The connection breaks, or is closed under a write.  A failed stream     *)
(* stays failed.                                                           *)
WriteFails ==
    /\ turn = "writing"
    /\ writer' = "failed"
    /\ Settle("rejected")
    /\ UNCHANGED <<installed, counter, zeroed, wire, histVars>>

(* enableGcm(): handshake() calls it when its NEWKEYS is out and the       *)
(* server's is in, be it after a destroy() it has not noticed.             *)
EnableGcm ==
    /\ ~installed /\ fate[NewKeys] = "sent"
    /\ installed' = TRUE
    /\ atInstall' = Len(wire)
    /\ UNCHANGED <<chain, turn, fate, counter, zeroed, writer, wire, sealed, atDestroy>>

(* destroy(): no further call is let through, the writer is closed.        *)
Destroy ==
    /\ ~zeroed
    /\ zeroed' = TRUE
    /\ writer' = IF writer = "open" THEN "closing" ELSE writer
    /\ atDestroy' = IF turn = "writing" THEN Len(wire) + 1 ELSE Len(wire)
    /\ UNCHANGED <<chain, turn, fate, installed, counter, wire, sealed, atInstall>>

Next ==
    \/ \E p \in Payloads : Send(p)
    \/ Begin \/ Sealed \/ Written \/ WriteFails
    \/ EnableGcm \/ Destroy

Spec == Init /\ [][Next]_vars

(* A call in its turn goes on, and an encryption ends.  A write need not:  *)
(* a server that neither reads nor hangs up leaves its frame with the      *)
(* writer for ever, and nothing in the client ends that.  The limits of    *)
(* the session do not: its teardown waits for the send of a CHANNEL_CLOSE, *)
(* which queues behind that very frame, before it comes to destroy().      *)
Fairness == WF_vars(Begin) /\ WF_vars(Sealed)

FairSpec == Spec /\ Fairness

-----------------------------------------------------------------------------
(* The value of the counter for the n-th encryption, n = 1, 2, ..., before *)
(* it has gone round.                                                      *)
NthIV(n) == IF IV0 + n - 1 < IVs THEN IV0 + n - 1 ELSE IV0 + n - 1 - IVs

(* No two encryptions share an IV until the counter has gone all the way   *)
(* round (sendQueue: "race for the GCM invocation counter - which would    *)
(* repeat an IV").                                                         *)
IVsDistinct ==
    Len(sealed) <= IVs =>
        \A i, j \in 1..Len(sealed) : sealed[i] = sealed[j] => i = j

(* The server can read every frame that reaches it: frames are in the      *)
(* clear up to and including NEWKEYS, and the n-th one after it is sealed  *)
(* with the n-th value of the counter, which is what the server expects,   *)
(* although a frame that was sealed may have failed to be written.         *)
ServerInStep ==
    /\ installed => atInstall > 0 /\ wire[atInstall].payload = NewKeys
    /\ \A i \in 1..Len(wire) :
        IF installed /\ i > atInstall
        THEN /\ wire[i].payload \in Late
             /\ i - atInstall <= IVs => wire[i].iv = NthIV(i - atInstall)
        ELSE wire[i].payload \notin Late /\ wire[i].iv = Clear

(* After destroy() nothing reaches the wire but the frame that the writer  *)
(* held by then, not even one that was being encrypted.                    *)
NothingAfterDestroy == zeroed => Len(wire) <= atDestroy

(* The calls are served as PacketOrder promises: in order, at most once,   *)
(* each told truly how it went, and none after one that failed.            *)
Promise == INSTANCE PacketOrder WITH
    waiting <- chain,
    wire <- [i \in 1..Len(wire) |-> wire[i].payload],
    rejected <- {p \in Payloads : fate[p] = "rejected"},
    over <- \E p \in Payloads : fate[p] = "rejected"

ServedInOrder == Promise!Spec

(* Every call is answered, also one that was queued when destroy() ran or  *)
(* when the one before it failed, unless the writer never lets go of one   *)
(* frame (sendQueue: "Keep the chain alive even when this send rejects").  *)
CallsAnswered ==
    \/ <>[](turn = "writing")
    \/ \A p \in Payloads : fate[p] = "pending" ~> fate[p] # "pending"
=============================================================================
