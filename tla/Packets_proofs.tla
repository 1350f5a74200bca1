--------------------------- MODULE Packets_proofs ---------------------------
(***************************************************************************)
(* Proofs about Packets, for every set of payloads and every width of the  *)
(* invocation counter.                                                     *)
(***************************************************************************)
EXTENDS Packets, TLAPS

(* What the chain holds, and when: one call at a time until the keys are   *)
(* in, only later payloads from then on.                                   *)
ChainInv ==
    /\ turn # "idle" => chain # <<>>
    /\ ~installed => /\ Len(chain) <= 1
                     /\ turn # "sealing"
                     /\ sealed = <<>>
                     /\ \A i \in 1..Len(chain) : chain[i] \notin Late
                     /\ chain # <<>> /\ fate[NewKeys] = "sent" => FALSE
                     /\ fate[NewKeys] = "sent" =>
                          wire # <<>> /\ wire[Len(wire)].payload = NewKeys
    /\ installed => /\ fate[NewKeys] = "sent"
                    /\ atInstall <= Len(wire)
                    /\ \A i \in 1..Len(chain) : chain[i] \in Late

(* How far the counter has come, and the wire behind it.                   *)
CounterInv ==
    /\ \A n \in 1..Len(sealed) : n <= IVs => sealed[n] = NthIV(n)
    /\ Len(sealed) <= IVs => counter = NthIV(Len(sealed) + 1)
    /\ installed /\ turn = "writing" => Len(sealed) = Len(wire) - atInstall + 1
    /\ installed /\ turn # "writing" /\ writer = "open" =>
            Len(sealed) = Len(wire) - atInstall

(* destroy() closes the writer for good, and counts what it still held.    *)
DestroyInv ==
    zeroed => /\ writer # "open"
              /\ Len(wire) + (IF turn = "writing" THEN 1 ELSE 0) <= atDestroy

(* A call fails only when the writer takes no more.                        *)
RejectInv ==
    (\E p \in Payloads : fate[p] = "rejected") =>
        writer # "open" /\ turn # "writing"

IndInv ==
    /\ TypeOK /\ ChainInv /\ CounterInv /\ DestroyInv /\ RejectInv
    /\ ServerInStep

USE PayloadsAssumption, IVsAssumption

-----------------------------------------------------------------------------
(* What is at the end of a sequence that one element joins, and before it. *)
LEMMA AppendFacts ==
  ASSUME NEW S, NEW s \in Seq(S), NEW e \in S
  PROVE  /\ Append(s, e) \in Seq(S)
         /\ Append(s, e) # <<>>
         /\ Len(Append(s, e)) = Len(s) + 1
         /\ Append(s, e)[Len(Append(s, e))] = e
         /\ \A i \in 1..Len(s) : Append(s, e)[i] = s[i]
<1>1. Append(s, e) \in Seq(S)
  OBVIOUS
<1>2. Len(Append(s, e)) = Len(s) + 1 /\ Len(s) \in Nat
  OBVIOUS
<1>3. Append(s, e)[Len(s) + 1] = e
  OBVIOUS
<1>4. \A i \in 1..Len(s) : Append(s, e)[i] = s[i]
  OBVIOUS
<1> QED
  BY <1>1, <1>2, <1>3, <1>4

(* A frame that is written joins the wire at its end.                      *)
LEMMA WrittenFacts ==
  ASSUME TypeOK, ChainInv, CounterInv, Written
  PROVE  /\ Len(wire') = Len(wire) + 1
         /\ wire' # <<>>
         /\ wire'[Len(wire')] = [payload |-> Head(chain), iv |-> FrameIV]
         /\ \A i \in 1..Len(wire) : wire'[i] = wire[i]
<1> DEFINE frame == [payload |-> Head(chain), iv |-> FrameIV]
<1>1. Head(chain) \in Payloads
  BY DEF Written, TypeOK, ChainInv
<1>2. FrameIV \in {Clear} \cup 0..(IVs - 1)
  <2>1. CASE installed
    <3>1. Len(sealed) \in 1..Len(sealed)
      BY <2>1 DEF Written, CounterInv, ChainInv, TypeOK
    <3> QED
      BY <2>1, <3>1 DEF FrameIV, TypeOK
  <2>2. CASE ~installed
    BY <2>2 DEF FrameIV
  <2> QED
    BY <2>1, <2>2 DEF TypeOK
<1>3. frame \in Frames
  BY <1>1, <1>2 DEF Frames
<1>4. wire' = Append(wire, frame) /\ wire \in Seq(Frames)
  BY DEF Written, TypeOK
<1> HIDE DEF frame
<1>5. /\ Len(wire') = Len(wire) + 1 /\ wire' # <<>>
      /\ wire'[Len(wire')] = frame
      /\ \A i \in 1..Len(wire) : wire'[i] = wire[i]
  BY <1>3, <1>4, AppendFacts
<1> QED
  BY <1>5 DEF frame

(* What a call that settles leaves: the rest of the chain, and its fate.   *)
LEMMA SettleFacts ==
  ASSUME TypeOK, chain # <<>>, NEW o \in {"sent", "rejected"}, Settle(o)
  PROVE  /\ Head(chain) \in Payloads /\ Head(chain) = chain[1]
         /\ chain' \in Seq(Payloads) /\ Len(chain') = Len(chain) - 1
         /\ \A i \in 1..Len(chain') : chain'[i] = chain[i + 1]
         /\ turn' = "idle"
         /\ fate' \in [Payloads -> {"unsent", "pending", "sent", "rejected"}]
         /\ fate'[Head(chain)] = o
         /\ \A p \in Payloads \ {Head(chain)} : fate'[p] = fate[p]
<1>1. Head(chain) \in Payloads /\ Head(chain) = chain[1]
  BY DEF TypeOK
<1>2. /\ chain' \in Seq(Payloads) /\ Len(chain') = Len(chain) - 1
      /\ \A i \in 1..Len(chain') : chain'[i] = chain[i + 1]
  BY DEF TypeOK, Settle
<1>3. /\ fate' \in [Payloads -> {"unsent", "pending", "sent", "rejected"}]
      /\ fate'[Head(chain)] = o
      /\ \A p \in Payloads \ {Head(chain)} : fate'[p] = fate[p]
  BY <1>1 DEF TypeOK, Settle
<1> QED
  BY <1>1, <1>2, <1>3 DEF Settle

(* A turn that goes to the writer either waits there or settles.           *)
LEMMA WriteFacts ==
  ASSUME Write
  PROVE  \/ writer = "open" /\ turn' = "writing" /\ UNCHANGED <<chain, fate>>
         \/ writer # "open" /\ Settle("rejected")
BY DEF Write

(* A call that settles leaves the chain as it should be: empty before the  *)
(* keys are in, with later payloads only after.                            *)
LEMMA SettleKeepsChain ==
  ASSUME TypeOK, ChainInv, chain # <<>>,
         NEW o \in {"sent", "rejected"}, Settle(o),
         UNCHANGED <<installed, atInstall>>, UNCHANGED sealed \/ installed,
         \/ UNCHANGED wire /\ o = "rejected"
         \/ /\ wire' # <<>> /\ Len(wire') = Len(wire) + 1
            /\ wire'[Len(wire')].payload = Head(chain)
  PROVE  ChainInv'
<1> USE DEF TypeOK, ChainInv
<1>1. turn' = "idle" /\ NewKeys \in Payloads
  BY SettleFacts DEF Payloads
<1>2. CASE ~installed
  <2>1. chain' = <<>>
    BY <1>2, SettleFacts
  <2>2. fate[NewKeys] # "sent"
    BY <1>2
  <2>3. fate'[NewKeys] = "sent" => NewKeys = Head(chain) /\ o = "sent"
    BY <1>1, <2>2, SettleFacts
  <2> QED
    BY <1>1, <1>2, <2>1, <2>3
<1>3. CASE installed
  <2>1. Head(chain) \in Late
    BY <1>3, SettleFacts
  <2>2. fate'[NewKeys] = "sent"
    BY <1>1, <1>3, <2>1, SettleFacts
  <2>3. \A i \in 1..Len(chain') : chain'[i] \in Late
    <3>1. \A i \in 1..Len(chain') : i + 1 \in 1..Len(chain)
      BY SettleFacts
    <3>2. \A i \in 1..Len(chain') : chain'[i] = chain[i + 1]
      BY SettleFacts
    <3> QED
      BY <1>3, <3>1, <3>2
  <2>4. atInstall' <= Len(wire')
    BY <1>3
  <2> QED
    BY <1>1, <1>3, <2>2, <2>3, <2>4
<1> QED
  BY <1>2, <1>3

(* The type invariant: the chain is never emptied twice, the counter stays *)
(* within its width.                                                       *)
LEMMA TypeStep ==
  ASSUME TypeOK, ChainInv, CounterInv, [Next]_vars
  PROVE  TypeOK'
<1> USE DEF TypeOK, histVars, Bump, Frames, Clear
<1>1. ASSUME NEW p \in Payloads, Send(p)  PROVE TypeOK'
  BY <1>1 DEF Send
<1>2. ASSUME Begin  PROVE TypeOK'
  <2>1. CASE UNCHANGED <<chain, fate>> /\ turn' \in {"writing", "sealing"}
    BY <1>2, <2>1 DEF Begin, Turn
  <2>2. CASE Settle("rejected")
    BY <1>2, <2>2, SettleFacts DEF Begin, Turn
  <2> QED
    BY <1>2, <2>1, <2>2, WriteFacts DEF Begin, Turn
<1>3. ASSUME Sealed  PROVE TypeOK'
  <2>0. chain # <<>>
    BY <1>3 DEF Sealed, ChainInv
  <2>1. counter' \in 0..(IVs - 1) /\ sealed' \in Seq(0..(IVs - 1))
    BY <1>3 DEF Sealed
  <2>2. CASE turn' = "writing" /\ UNCHANGED <<chain, fate>>
    BY <1>3, <2>1, <2>2 DEF Sealed
  <2>3. CASE Settle("rejected")
    BY <1>3, <2>0, <2>1, <2>3, SettleFacts DEF Sealed
  <2> QED
    BY <1>3, <2>2, <2>3, WriteFacts DEF Sealed
<1>4. ASSUME Written  PROVE TypeOK'
  <2>1. chain # <<>> /\ Settle("sent")
    BY <1>4 DEF Written, ChainInv
  <2>2. FrameIV \in {Clear} \cup 0..(IVs - 1)
    <3>1. installed => Len(sealed) > 0
      BY <1>4 DEF Written, CounterInv, ChainInv
    <3> QED
      BY <3>1 DEF FrameIV
  <2>3. wire' \in Seq(Frames)
    BY <1>4, <2>1, <2>2, SettleFacts DEF Written
  <2> QED
    BY <1>4, <2>1, <2>3, SettleFacts DEF Written
<1>5. ASSUME WriteFails  PROVE TypeOK'
  <2>1. chain # <<>> /\ Settle("rejected")
    BY <1>5 DEF WriteFails, ChainInv
  <2> QED
    BY <1>5, <2>1, SettleFacts DEF WriteFails
<1>6. ASSUME EnableGcm  PROVE TypeOK'
  BY <1>6 DEF EnableGcm
<1>7. ASSUME Destroy  PROVE TypeOK'
  BY <1>7 DEF Destroy
<1>8. CASE UNCHANGED vars
  BY <1>8 DEF vars
<1> QED
  BY <1>1, <1>2, <1>3, <1>4, <1>5, <1>6, <1>7, <1>8 DEF Next, vars

(* What send() leaves of the queue.                                        *)
LEMMA Queued ==
  ASSUME TypeOK, NEW p \in Payloads, chain' = Append(chain, p)
  PROVE  /\ Len(chain') = Len(chain) + 1 /\ chain' # <<>> /\ chain'[Len(chain) + 1] = p
         /\ \A i \in 1..Len(chain) : chain'[i] = chain[i]
<1>1. chain \in Seq(Payloads)
  BY DEF TypeOK
<1> QED
  BY <1>1

(* One call at a time until the keys are in.                               *)
LEMMA ChainStep ==
  ASSUME TypeOK, ChainInv, CounterInv, [Next]_vars
  PROVE  ChainInv'
<1> USE DEF TypeOK, ChainInv, histVars, Payloads
<1>1. ASSUME NEW p \in Payloads, Send(p)  PROVE ChainInv'
  <2>1. /\ Len(chain') = Len(chain) + 1 /\ chain' # <<>> /\ chain'[Len(chain) + 1] = p
        /\ \A i \in 1..Len(chain) : chain'[i] = chain[i]
    BY <1>1, Queued DEF Send
  <2>2. fate'[NewKeys] = "sent" <=> fate[NewKeys] = "sent"
    BY <1>1 DEF Send
  <2>3. CASE p \in Early \cup {NewKeys} /\ chain = <<>> /\ fate[NewKeys] = "unsent"
    BY <1>1, <2>1, <2>2, <2>3, PayloadsAssumption DEF Send
  <2>4. CASE p \in Late /\ installed
    BY <1>1, <2>1, <2>2, <2>4 DEF Send
  <2> QED
    BY <1>1, <2>3, <2>4 DEF Send
<1>2. ASSUME Begin  PROVE ChainInv'
  <2>1. CASE UNCHANGED <<chain, fate>> /\ turn' \in {"writing", "sealing"}
    BY <1>2, <2>1 DEF Begin, Turn, Write, Settle
  <2>2. CASE Settle("rejected")
    BY <1>2, <2>2, SettleKeepsChain DEF Begin, Turn
  <2> QED
    BY <1>2, <2>1, <2>2, WriteFacts DEF Begin, Turn
<1>3. ASSUME Sealed  PROVE ChainInv'
  <2>0. chain # <<>> /\ installed
    BY <1>3 DEF Sealed
  <2>1. CASE turn' = "writing" /\ UNCHANGED <<chain, fate>>
    BY <1>3, <2>0, <2>1 DEF Sealed
  <2>2. CASE Settle("rejected")
    BY <1>3, <2>0, <2>2, SettleKeepsChain DEF Sealed
  <2> QED
    BY <1>3, <2>1, <2>2, WriteFacts DEF Sealed
<1>4. ASSUME Written  PROVE ChainInv'
  <2>1. chain # <<>> /\ Settle("sent")
    BY <1>4 DEF Written
  <2>2. /\ Len(wire') = Len(wire) + 1
        /\ wire'[Len(wire')].payload = Head(chain) /\ wire' # <<>>
    BY <1>4, WrittenFacts
  <2> QED
    BY <1>4, <2>1, <2>2, SettleKeepsChain DEF Written
<1>5. ASSUME WriteFails  PROVE ChainInv'
  <2>1. chain # <<>> /\ Settle("rejected")
    BY <1>5 DEF WriteFails
  <2> QED
    BY <1>5, <2>1, SettleKeepsChain DEF WriteFails
<1>6. ASSUME EnableGcm  PROVE ChainInv'
  BY <1>6 DEF EnableGcm
<1>7. ASSUME Destroy  PROVE ChainInv'
  BY <1>7 DEF Destroy
<1>8. CASE UNCHANGED vars
  BY <1>8 DEF vars
<1> QED
  BY <1>1, <1>2, <1>3, <1>4, <1>5, <1>6, <1>7, <1>8 DEF Next, vars

(* The counter is as far on as there were encryptions.                     *)
LEMMA CounterStep ==
  ASSUME TypeOK, ChainInv, CounterInv, [Next]_vars
  PROVE  CounterInv'
<1> USE DEF TypeOK, ChainInv, CounterInv, histVars, NthIV, Bump
<1>1. ASSUME NEW p \in Payloads, Send(p)  PROVE CounterInv'
  BY <1>1 DEF Send
<1>2. ASSUME Begin  PROVE CounterInv'
  BY <1>2 DEF Begin, Turn, Settle, Write
<1>3. ASSUME Sealed  PROVE CounterInv'
  <2>1. /\ Len(sealed') = Len(sealed) + 1
        /\ \A n \in 1..Len(sealed) : sealed'[n] = sealed[n]
        /\ sealed'[Len(sealed) + 1] = counter
    BY <1>3 DEF Sealed
  <2>2. \A n \in 1..Len(sealed') : n <= IVs => sealed'[n] = NthIV(n)
    BY <1>3, <2>1 DEF Sealed
  <2>3. Len(sealed') <= IVs => counter' = NthIV(Len(sealed') + 1)
    BY <1>3, <2>1 DEF Sealed
  <2>4. installed /\ Len(wire') = Len(wire)
    BY <1>3 DEF Sealed
  <2>5. writer = "open" => turn' = "writing" /\ Len(sealed) = Len(wire) - atInstall
    BY <1>3, <2>4 DEF Sealed, Write
  <2>6. writer # "open" => turn' # "writing"
    BY <1>3 DEF Sealed, Write, Settle
  <2> QED
    BY <1>3, <2>1, <2>2, <2>3, <2>4, <2>5, <2>6 DEF Sealed
<1>4. ASSUME Written  PROVE CounterInv'
  BY <1>4 DEF Written, Settle, FrameIV
<1>5. ASSUME WriteFails  PROVE CounterInv'
  BY <1>5 DEF WriteFails, Settle
<1>6. ASSUME EnableGcm  PROVE CounterInv'
  BY <1>6 DEF EnableGcm
<1>7. ASSUME Destroy  PROVE CounterInv'
  BY <1>7 DEF Destroy
<1>8. CASE UNCHANGED vars
  BY <1>8 DEF vars
<1> QED
  BY <1>1, <1>2, <1>3, <1>4, <1>5, <1>6, <1>7, <1>8 DEF Next, vars

(* destroy() is final.                                                     *)
LEMMA DestroyStep ==
  ASSUME TypeOK, ChainInv, DestroyInv, [Next]_vars
  PROVE  DestroyInv'
<1> USE DEF TypeOK, ChainInv, DestroyInv, histVars
<1>1. ASSUME NEW p \in Payloads, Send(p)  PROVE DestroyInv'
  BY <1>1 DEF Send
<1>2. ASSUME Begin  PROVE DestroyInv'
  BY <1>2 DEF Begin, Turn, Settle, Write
<1>3. ASSUME Sealed  PROVE DestroyInv'
  BY <1>3 DEF Sealed, Settle, Write
<1>4. ASSUME Written  PROVE DestroyInv'
  BY <1>4 DEF Written, Settle, FrameIV
<1>5. ASSUME WriteFails  PROVE DestroyInv'
  BY <1>5 DEF WriteFails, Settle
<1>6. ASSUME EnableGcm  PROVE DestroyInv'
  BY <1>6 DEF EnableGcm
<1>7. ASSUME Destroy  PROVE DestroyInv'
  BY <1>7 DEF Destroy
<1>8. CASE UNCHANGED vars
  BY <1>8 DEF vars
<1> QED
  BY <1>1, <1>2, <1>3, <1>4, <1>5, <1>6, <1>7, <1>8 DEF Next, vars

(* Nothing is written after a call has failed.                             *)
LEMMA RejectStep ==
  ASSUME TypeOK, ChainInv, DestroyInv, RejectInv, [Next]_vars
  PROVE  RejectInv'
<1> USE DEF TypeOK, RejectInv, histVars
<1>1. ASSUME NEW p \in Payloads, Send(p)  PROVE RejectInv'
  BY <1>1 DEF Send
<1>2. ASSUME Begin  PROVE RejectInv'
  BY <1>2 DEF Begin, Turn, Settle, Write, DestroyInv
<1>3. ASSUME Sealed  PROVE RejectInv'
  BY <1>3 DEF Sealed, Settle, Write
<1>4. ASSUME Written  PROVE RejectInv'
  BY <1>4 DEF Written, Settle, FrameIV
<1>5. ASSUME WriteFails  PROVE RejectInv'
  BY <1>5 DEF WriteFails, Settle
<1>6. ASSUME EnableGcm  PROVE RejectInv'
  BY <1>6 DEF EnableGcm
<1>7. ASSUME Destroy  PROVE RejectInv'
  BY <1>7 DEF Destroy
<1>8. CASE UNCHANGED vars
  BY <1>8 DEF vars
<1> QED
  BY <1>1, <1>2, <1>3, <1>4, <1>5, <1>6, <1>7, <1>8 DEF Next, vars

(* A frame joins the wire with the counter the server expects.             *)
LEMMA InStepStep ==
  ASSUME TypeOK, ChainInv, CounterInv, ServerInStep, [Next]_vars
  PROVE  ServerInStep'
<1> USE DEF TypeOK, ChainInv, histVars
<1>1. ASSUME Written  PROVE ServerInStep'
  <2>1. /\ Len(wire') = Len(wire) + 1
        /\ \A i \in 1..Len(wire) : wire'[i] = wire[i]
        /\ wire'[Len(wire')] = [payload |-> Head(chain), iv |-> FrameIV]
        /\ UNCHANGED <<installed, atInstall>>
    BY <1>1, WrittenFacts DEF Written
  <2>2. chain # <<>> /\ Head(chain) = chain[1] /\ 1 \in 1..Len(chain)
    BY <1>1 DEF Written
  <2>3. CASE ~installed
    <3>1. Head(chain) \notin Late /\ FrameIV = Clear
      BY <2>2, <2>3 DEF FrameIV
    <3> QED
      BY <2>1, <2>3, <3>1 DEF ServerInStep
  <2>4. CASE installed
    <3>1. Head(chain) \in Late
      BY <2>2, <2>4
    <3>2. Len(sealed) = Len(wire') - atInstall
      BY <1>1, <2>1, <2>4 DEF Written, CounterInv
    <3>3. Len(wire') - atInstall <= IVs => FrameIV = NthIV(Len(wire') - atInstall)
      <4>1. FrameIV = sealed[Len(sealed)]
        BY <2>4 DEF FrameIV
      <4>2. Len(sealed) \in 1..Len(sealed)
        BY <2>1, <2>4, <3>2
      <4>3. Len(sealed) <= IVs => sealed[Len(sealed)] = NthIV(Len(sealed))
        BY <4>2 DEF CounterInv
      <4> QED
        BY <3>2, <4>1, <4>3
    <3>4. \A i \in 1..Len(wire) : wire'[i] = wire[i]
      BY <2>1
    <3>5. atInstall > 0 /\ atInstall <= Len(wire) /\ wire'[atInstall].payload = NewKeys
      BY <2>4, <3>4 DEF ServerInStep
    <3>6. /\ wire'[Len(wire')].payload \in Late
          /\ Len(wire') - atInstall <= IVs =>
                wire'[Len(wire')].iv = NthIV(Len(wire') - atInstall)
      BY <2>1, <3>1, <3>3
    <3>7. \A i \in 1..Len(wire') : i \in 1..Len(wire) \/ i = Len(wire')
      BY <2>1
    <3>8. \A i \in 1..Len(wire) :
            IF i > atInstall
            THEN /\ wire'[i].payload \in Late
                 /\ i - atInstall <= IVs => wire'[i].iv = NthIV(i - atInstall)
            ELSE wire'[i].payload \notin Late /\ wire'[i].iv = Clear
      BY <2>4, <3>4 DEF ServerInStep
    <3>9. Len(wire') > atInstall
      BY <2>1, <3>5
    <3> QED
      BY <2>1, <2>4, <3>5, <3>6, <3>7, <3>8, <3>9 DEF ServerInStep
  <2> QED
    BY <2>3, <2>4
<1>2. ASSUME EnableGcm  PROVE ServerInStep'
  BY <1>2 DEF EnableGcm, ServerInStep
<1>3. CASE UNCHANGED <<wire, installed, atInstall>>
  BY <1>3 DEF ServerInStep
<1> QED
  BY <1>1, <1>2, <1>3 DEF Next, vars, Send, Begin, Turn, Sealed, WriteFails,
         Destroy

-----------------------------------------------------------------------------
(* The invariant is inductive.                                             *)
LEMMA Inductive == IndInv /\ [Next]_vars => IndInv'
BY TypeStep, ChainStep, CounterStep, DestroyStep,
   RejectStep, InStepStep DEF IndInv

(* It holds at the start, with nothing sent.                               *)
LEMMA Initially == Init => IndInv
<1> SUFFICES ASSUME Init  PROVE IndInv
  OBVIOUS
<1>1. TypeOK
  <2>1. IV0 \in 0..(IVs - 1) /\ chain \in Seq(Payloads) /\ wire \in Seq(Frames)
        /\ sealed \in Seq(0..(IVs - 1))
    BY DEF Init
  <2>2. fate \in [Payloads -> {"unsent", "pending", "sent", "rejected"}]
    BY DEF Init
  <2> QED
    BY <2>1, <2>2 DEF Init, TypeOK
<1>2. ChainInv /\ DestroyInv /\ RejectInv
  BY DEF Init, ChainInv, DestroyInv, RejectInv, Payloads
<1>3. CounterInv /\ ServerInStep
  BY DEF Init, CounterInv, ServerInStep, NthIV
<1> QED
  BY <1>1, <1>2, <1>3 DEF IndInv

(* It holds throughout.                                                    *)
THEOREM Invariance == Spec => []IndInv
BY Initially, Inductive, PTL DEF Spec

(* Counters that are as far on as their number differ within one round.    *)
LEMMA Distinct == IndInv => IVsDistinct
<1> SUFFICES ASSUME IndInv, Len(sealed) <= IVs,
                    NEW i \in 1..Len(sealed), NEW j \in 1..Len(sealed),
                    sealed[i] = sealed[j]
             PROVE  i = j
  BY DEF IVsDistinct
<1>1. Len(sealed) \in Nat
  BY DEF IndInv, TypeOK
<1>2. i \in 1..IVs /\ j \in 1..IVs
  BY <1>1
<1>3. NthIV(i) = NthIV(j)
  BY <1>2 DEF IndInv, CounterInv
<1> QED
  BY <1>2, <1>3 DEF NthIV

(* Every variable keeps its type: in particular the counter of             *)
(* GcmDirection stays within its 64 bits, and send() settles calls only    *)
(* from a chain that has some.                                             *)
THEOREM TypeCorrect == Spec => []TypeOK
BY Invariance, PTL DEF IndInv

(* No two packets are encrypted under one IV before the counter has gone   *)
(* all the way round, however send(), enableGcm() and destroy() interleave. *)
THEOREM IVsNeverRepeat == Spec => []IVsDistinct
BY Invariance, Distinct, PTL

(* The server can read every frame on the wire: the switch from clear to   *)
(* encrypted falls right after NEWKEYS, and the n-th encrypted frame bears *)
(* the n-th counter, whatever failed before it.                            *)
THEOREM ServerStaysInStep == Spec => []ServerInStep
BY Invariance, PTL DEF IndInv

(* The bound kept by destroy() is the one the property speaks of.          *)
LEMMA Finality == IndInv => NothingAfterDestroy
BY DEF IndInv, TypeOK, DestroyInv, NothingAfterDestroy

(* After destroy() no frame reaches the wire but the one already handed    *)
(* to the writer.                                                          *)
THEOREM DestroyIsFinal == Spec => []NothingAfterDestroy
BY Invariance, Finality, PTL

-----------------------------------------------------------------------------
(* Every step of the packet layer is a call, a delivery or a refusal of    *)
(* PacketOrder, or none of its business.                                   *)
LEMMA PromiseStep ==
  ASSUME IndInv, [Next]_vars
  PROVE  [Promise!Next]_(Promise!vars)
<1> USE DEF IndInv, Promise!vars, Promise!Next
<1>1. ASSUME NEW p \in Payloads, Send(p)  PROVE Promise!Call(p)
  <2>1. \A q \in Payloads : fate'[q] = "rejected" <=> fate[q] = "rejected"
    BY <1>1 DEF Send, TypeOK
  <2>2. wire' = wire /\ chain' = Append(chain, p)
    BY <1>1 DEF Send
  <2> QED
    BY <2>1, <2>2 DEF Promise!Call
<1>2. ASSUME chain # <<>>, Settle("rejected"), UNCHANGED wire  PROVE Promise!Refuse
  <2>1. {p \in Payloads : fate'[p] = "rejected"}
          = {p \in Payloads : fate[p] = "rejected"} \cup {Head(chain)}
    BY <1>2, SettleFacts
  <2>2. \E p \in Payloads : fate'[p] = "rejected"
    BY <1>2, SettleFacts
  <2> QED
    BY <1>2, <2>1, <2>2 DEF Promise!Refuse, Settle
<1>3. ASSUME Written  PROVE Promise!Deliver
  <2>1. chain # <<>> /\ Settle("sent")
    BY <1>3 DEF Written, ChainInv
  <2>2. \A p \in Payloads : fate[p] # "rejected" /\ fate'[p] # "rejected"
    BY <1>3, <2>1, SettleFacts DEF Written, RejectInv
  <2>3. /\ Len(wire') = Len(wire) + 1 /\ Len(wire) \in Nat
        /\ \A i \in 1..Len(wire) : wire'[i] = wire[i]
        /\ wire'[Len(wire')].payload = Head(chain)
    BY <1>3 DEF Written, TypeOK
  <2>4. [i \in 1..Len(wire') |-> wire'[i].payload]
          = Append([i \in 1..Len(wire) |-> wire[i].payload], Head(chain))
    BY <2>3
  <2> QED
    BY <2>1, <2>2, <2>4 DEF Promise!Deliver, Settle
<1>4. CASE UNCHANGED <<chain, fate, wire>>
  BY <1>4
<1>5. ASSUME Begin  PROVE Promise!Refuse \/ UNCHANGED <<chain, fate, wire>>
  BY <1>2, <1>5 DEF Begin, Turn, Write
<1>6. ASSUME Sealed  PROVE Promise!Refuse \/ UNCHANGED <<chain, fate, wire>>
  BY <1>2, <1>6 DEF Sealed, Write, ChainInv
<1>7. ASSUME WriteFails  PROVE Promise!Refuse
  BY <1>2, <1>7 DEF WriteFails, ChainInv
<1> QED
  BY <1>1, <1>3, <1>4, <1>5, <1>6, <1>7 DEF Next, EnableGcm, Destroy, vars

(* The calls of send() are served as PacketOrder promises: the packet      *)
(* layer starts as it does and takes only its steps.                       *)
THEOREM KeepsPromise == Spec => ServedInOrder
<1>1. Init => Promise!Init
  BY DEF Init, Promise!Init
<1> QED
  BY <1>1, Invariance, PromiseStep, PTL DEF Spec, ServedInOrder, Promise!Spec
=============================================================================
