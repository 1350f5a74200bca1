--------------------------- MODULE Servers_proofs ---------------------------
(***************************************************************************)
(* Proofs about Servers, for any servers, terminals, hosts, credentials,   *)
(* keys, addresses and edits.                                              *)
(*                                                                         *)
(* Pins and credentials travel: from a row to a terminal that reads it,    *)
(* and a key from the terminal back to the row.  The invariant follows     *)
(* them: every row and every target goes back to something saved or typed  *)
(* as a whole, and every pin and every key in use to one accepted for that *)
(* host, or pinned late.  The limit needs to know that without a race one  *)
(* creation at a time has counted, and counted room.                       *)
(***************************************************************************)
EXTENDS Servers, FiniteSetTheorems, TLAPS

Trusts(server, host, k) == <<server, host, k>> \in accepted \cup late

RowsLogged == \A s \in Ids : row[s] # None => <<s, row[s].host, row[s].secret>> \in logins

PinsTrusted == \A s \in Ids : row[s] # None =>
    (row[s].pin # None => Trusts(s, row[s].host, row[s].pin))

TargetsLogged == \A t \in Terminals : target[t] # None =>
    /\ <<target[t].server, target[t].host, target[t].secret>> \in logins
    /\ target[t].pin # None => /\ target[t].server # None
                               /\ Trusts(target[t].server, target[t].host, target[t].pin)

StagesKnow == \A t \in Terminals :
    /\ stage[t] # "closed" => target[t] # None
    /\ stage[t] \in {"open", "asking", "trusted"} => address[t] \in Addresses \ Blocked
    /\ stage[t] \in {"asking", "trusted", "accepted", "mismatch"} => key[t] # None
    /\ stage[t] \in {"accepted", "mismatch"} => target[t].server # None
    /\ stage[t] \in {"trusted", "accepted"} =>
          Trusts(target[t].server, target[t].host, key[t])

IndInv == TypeOK /\ RowsLogged /\ PinsTrusted /\ TargetsLogged /\ StagesKnow /\ CredentialFits
-----------------------------------------------------------------------------
LEMMA InitInv == Init => IndInv
<1> SUFFICES ASSUME Init PROVE IndInv
  OBVIOUS
<1>1. TypeOK
  BY DEF Init, TypeOK
<1>2. RowsLogged /\ PinsTrusted
  BY DEF Init, RowsLogged, PinsTrusted
<1>3. TargetsLogged /\ StagesKnow
  BY DEF Init, TargetsLogged, StagesKnow
<1>4. CredentialFits
  BY DEF Init, CredentialFits
<1> QED
  BY <1>1, <1>2, <1>3, <1>4 DEF IndInv

LEMMA CountInv ==
  ASSUME IndInv, NEW s \in Ids, Count(s)
  PROVE  IndInv'
<1> USE NoneAssumption, EditsAssumption
<1>1. TypeOK'
  BY DEF IndInv, TypeOK, Count, Full, Saved, terminals, history
<1>2. RowsLogged' /\ PinsTrusted'
  BY DEF IndInv, TypeOK, RowsLogged, PinsTrusted, StagesKnow, Trusts, Count, terminals, history
<1>3. TargetsLogged' /\ StagesKnow'
  BY DEF IndInv, TypeOK, RowsLogged, PinsTrusted, TargetsLogged, StagesKnow, Trusts, Count, terminals, history
<1>4. CredentialFits'
  BY DEF IndInv, TypeOK, TargetsLogged, StagesKnow, CredentialFits, Trusts, Count, Full, Saved, terminals, history
<1> QED
  BY <1>1, <1>2, <1>3, <1>4 DEF IndInv

LEMMA InsertInv ==
  ASSUME IndInv, NEW s \in Ids, NEW entry \in Entries, Insert(s, entry)
  PROVE  IndInv'
<1> USE NoneAssumption, EditsAssumption
<1>1. TypeOK'
  BY DEF IndInv, TypeOK, Insert, Vouched, Row, terminals, history
<1>2. RowsLogged' /\ PinsTrusted'
  BY DEF IndInv, TypeOK, RowsLogged, PinsTrusted, StagesKnow, Trusts, Insert, Vouched, Row, terminals, history
<1>3. TargetsLogged' /\ StagesKnow'
  BY DEF IndInv, TypeOK, RowsLogged, PinsTrusted, TargetsLogged, StagesKnow, Trusts, Insert, Vouched, Row, terminals, history
<1>4. CredentialFits'
  BY DEF IndInv, TypeOK, TargetsLogged, StagesKnow, CredentialFits, Trusts, Insert, Vouched, Row, terminals, history
<1> QED
  BY <1>1, <1>2, <1>3, <1>4 DEF IndInv

LEMMA EditInv ==
  ASSUME IndInv, NEW s \in Ids, NEW patch \in Edits, Edit(s, patch)
  PROVE  IndInv'
<1> USE NoneAssumption, EditsAssumption
<1>1. TypeOK'
  BY DEF IndInv, TypeOK, Edit, Update, Patched, NewPin, Chosen, Vouched, Patch, Row, terminals, history
<1>2. RowsLogged' /\ PinsTrusted'
  BY DEF IndInv, TypeOK, RowsLogged, PinsTrusted, StagesKnow, Trusts, Edit, Update, Patched, NewPin, Chosen, Vouched, Patch, Row, terminals, history
<1>3. TargetsLogged' /\ StagesKnow'
  BY DEF IndInv, TypeOK, RowsLogged, PinsTrusted, TargetsLogged, StagesKnow, Trusts, Edit, Update, Patched, NewPin, Chosen, Vouched, Patch, Row, terminals, history
<1>4. CredentialFits'
  BY DEF IndInv, TypeOK, TargetsLogged, StagesKnow, CredentialFits, Trusts, Edit, Update, Patched, NewPin, Chosen, Vouched, Patch, Row, terminals, history
<1> QED
  BY <1>1, <1>2, <1>3, <1>4 DEF IndInv

LEMMA RemoveInv ==
  ASSUME IndInv, NEW s \in Ids, Remove(s)
  PROVE  IndInv'
<1> USE NoneAssumption, EditsAssumption
<1>1. TypeOK'
  BY DEF IndInv, TypeOK, Remove, Full, Saved, terminals, history
<1>2. RowsLogged' /\ PinsTrusted'
  BY DEF IndInv, TypeOK, RowsLogged, PinsTrusted, StagesKnow, Trusts, Remove, Full, Saved, terminals, history
<1>3. TargetsLogged' /\ StagesKnow'
  BY DEF IndInv, TypeOK, RowsLogged, PinsTrusted, TargetsLogged, StagesKnow, Trusts, Remove, Full, Saved, terminals, history
<1>4. CredentialFits'
  BY DEF IndInv, TypeOK, TargetsLogged, StagesKnow, CredentialFits, Trusts, Remove, Full, Saved, terminals, history
<1> QED
  BY <1>1, <1>2, <1>3, <1>4 DEF IndInv

LEMMA ConnectInv ==
  ASSUME IndInv, NEW t \in Terminals, NEW s \in Ids, Connect(t, s)
  PROVE  IndInv'
<1> USE NoneAssumption, EditsAssumption
<1>1. TypeOK'
  BY DEF IndInv, TypeOK, Connect, Reads, Goes, AsTarget, Row, Target, terminals, history
<1>2. RowsLogged' /\ PinsTrusted'
  BY DEF IndInv, TypeOK, RowsLogged, PinsTrusted, StagesKnow, Trusts, Connect, Reads, Goes, AsTarget, Row, Target, terminals, history
<1>3. TargetsLogged' /\ StagesKnow'
  BY DEF IndInv, TypeOK, RowsLogged, PinsTrusted, TargetsLogged, StagesKnow, Trusts, Connect, Reads, Goes, AsTarget, Row, Target, terminals, history
<1>4. CredentialFits'
  BY DEF IndInv, TypeOK, TargetsLogged, StagesKnow, CredentialFits, Trusts, Connect, Reads, Goes, AsTarget, Row, Target, terminals, history
<1> QED
  BY <1>1, <1>2, <1>3, <1>4 DEF IndInv

LEMMA QuickConnectInv ==
  ASSUME IndInv, NEW t \in Terminals, NEW entry \in Entries, QuickConnect(t, entry)
  PROVE  IndInv'
<1> USE NoneAssumption, EditsAssumption
<1>1. TypeOK'
  BY DEF IndInv, TypeOK, QuickConnect, Reads, Goes, Row, Target, terminals, history
<1>2. RowsLogged' /\ PinsTrusted'
  BY DEF IndInv, TypeOK, RowsLogged, PinsTrusted, StagesKnow, Trusts, QuickConnect, Reads, Goes, Row, Target, terminals, history
<1>3. TargetsLogged' /\ StagesKnow'
  BY DEF IndInv, TypeOK, RowsLogged, PinsTrusted, TargetsLogged, StagesKnow, Trusts, QuickConnect, Reads, Goes, Row, Target, terminals, history
<1>4. CredentialFits'
  BY DEF IndInv, TypeOK, TargetsLogged, StagesKnow, CredentialFits, Trusts, QuickConnect, Reads, Goes, Row, Target, terminals, history
<1> QED
  BY <1>1, <1>2, <1>3, <1>4 DEF IndInv

LEMMA ResolveInv ==
  ASSUME IndInv, NEW t \in Terminals, NEW answers \in SUBSET Addresses, Resolve(t, answers)
  PROVE  IndInv'
<1> USE NoneAssumption, EditsAssumption
<1>1. TypeOK'
  BY DEF IndInv, TypeOK, Resolve, Closes, Goes, Acceptable, terminals, history
<1>2. RowsLogged' /\ PinsTrusted'
  BY DEF IndInv, TypeOK, RowsLogged, PinsTrusted, StagesKnow, Trusts, Resolve, Closes, Goes, Acceptable, terminals, history
<1>3. TargetsLogged' /\ StagesKnow'
  BY DEF IndInv, TypeOK, RowsLogged, PinsTrusted, TargetsLogged, StagesKnow, Trusts, Resolve, Closes, Goes, Acceptable, terminals, history
<1>4. CredentialFits'
  BY DEF IndInv, TypeOK, TargetsLogged, StagesKnow, CredentialFits, Trusts, Resolve, Closes, Goes, Acceptable, terminals, history
<1> QED
  BY <1>1, <1>2, <1>3, <1>4 DEF IndInv

LEMMA PresentInv ==
  ASSUME IndInv, NEW t \in Terminals, NEW k \in Keys, Present(t, k)
  PROVE  IndInv'
<1> USE NoneAssumption, EditsAssumption
<1>1. TypeOK'
  BY DEF IndInv, TypeOK, Present, Goes, terminals, history
<1>2. RowsLogged' /\ PinsTrusted'
  BY DEF IndInv, TypeOK, RowsLogged, PinsTrusted, StagesKnow, Trusts, Present, Goes, terminals, history
<1>3. TargetsLogged' /\ StagesKnow'
  BY DEF IndInv, TypeOK, RowsLogged, PinsTrusted, TargetsLogged, StagesKnow, Trusts, Present, Goes, terminals, history
<1>4. CredentialFits'
  BY DEF IndInv, TypeOK, TargetsLogged, StagesKnow, CredentialFits, Trusts, Present, Goes, terminals, history
<1> QED
  BY <1>1, <1>2, <1>3, <1>4 DEF IndInv

LEMMA AcceptInv ==
  ASSUME IndInv, NEW t \in Terminals, Accept(t)
  PROVE  IndInv'
<1> USE NoneAssumption, EditsAssumption
<1>1. TypeOK'
  BY DEF IndInv, TypeOK, TargetsLogged, StagesKnow, Accept, Goes, Target, terminals, history
<1>2. RowsLogged' /\ PinsTrusted'
  BY DEF IndInv, TypeOK, RowsLogged, PinsTrusted, StagesKnow, Trusts, Accept, Goes, Target, terminals, history
<1>3. TargetsLogged' /\ StagesKnow'
  BY DEF IndInv, TypeOK, RowsLogged, PinsTrusted, TargetsLogged, StagesKnow, Trusts, Accept, Goes, Target, terminals, history
<1>4. CredentialFits'
  BY DEF IndInv, TypeOK, TargetsLogged, StagesKnow, CredentialFits, Trusts, Accept, Goes, Target, terminals, history
<1> QED
  BY <1>1, <1>2, <1>3, <1>4 DEF IndInv

LEMMA LogInInv ==
  ASSUME IndInv, NEW t \in Terminals, LogIn(t)
  PROVE  IndInv'
<1> USE NoneAssumption, EditsAssumption
<1>1. TypeOK'
  BY DEF IndInv, TypeOK, TargetsLogged, StagesKnow, LogIn, Goes, Target, Sent, terminals, history
<1>2. RowsLogged' /\ PinsTrusted'
  BY DEF IndInv, TypeOK, RowsLogged, PinsTrusted, StagesKnow, Trusts, LogIn, Goes, Target, Sent, terminals, history
<1>3. TargetsLogged' /\ StagesKnow'
  BY DEF IndInv, TypeOK, RowsLogged, PinsTrusted, TargetsLogged, StagesKnow, Trusts, LogIn, Goes, Target, Sent, terminals, history
<1>4. CredentialFits'
  BY DEF IndInv, TypeOK, TargetsLogged, StagesKnow, CredentialFits, Trusts, LogIn, Goes, Target, Sent, terminals, history
<1> QED
  BY <1>1, <1>2, <1>3, <1>4 DEF IndInv

LEMMA SavePinInv ==
  ASSUME IndInv, NEW t \in Terminals, SavePin(t)
  PROVE  IndInv'
<1> USE NoneAssumption, EditsAssumption
<1>1. TypeOK'
  BY DEF IndInv, TypeOK, TargetsLogged, StagesKnow, SavePin, Update, Patched, NewPin, Chosen, Goes, Row, Target, terminals, history
<1>2. RowsLogged' /\ PinsTrusted'
  BY DEF IndInv, TypeOK, RowsLogged, PinsTrusted, StagesKnow, Trusts, SavePin, Update, Patched, NewPin, Chosen, Goes, Row, Target, terminals, history
<1>3. TargetsLogged' /\ StagesKnow'
  BY DEF IndInv, TypeOK, RowsLogged, PinsTrusted, TargetsLogged, StagesKnow, Trusts, SavePin, Update, Patched, NewPin, Chosen, Goes, Row, Target, terminals, history
<1>4. CredentialFits'
  BY DEF IndInv, TypeOK, TargetsLogged, StagesKnow, CredentialFits, Trusts, SavePin, Update, Patched, NewPin, Chosen, Goes, Row, Target, terminals, history
<1> QED
  BY <1>1, <1>2, <1>3, <1>4 DEF IndInv

LEMMA ForgetHostKeyInv ==
  ASSUME IndInv, NEW t \in Terminals, ForgetHostKey(t)
  PROVE  IndInv'
<1> USE NoneAssumption, EditsAssumption
<1>1. TypeOK'
  BY DEF IndInv, TypeOK, TargetsLogged, StagesKnow, ForgetHostKey, Update, Patched, NewPin, Chosen, Goes, Row, Target, terminals, history
<1>2. RowsLogged' /\ PinsTrusted'
  BY DEF IndInv, TypeOK, RowsLogged, PinsTrusted, StagesKnow, Trusts, ForgetHostKey, Update, Patched, NewPin, Chosen, Goes, Row, Target, terminals, history
<1>3. TargetsLogged' /\ StagesKnow'
  BY DEF IndInv, TypeOK, RowsLogged, PinsTrusted, TargetsLogged, StagesKnow, Trusts, ForgetHostKey, Update, Patched, NewPin, Chosen, Goes, Row, Target, terminals, history
<1>4. CredentialFits'
  BY DEF IndInv, TypeOK, TargetsLogged, StagesKnow, CredentialFits, Trusts, ForgetHostKey, Update, Patched, NewPin, Chosen, Goes, Row, Target, terminals, history
<1> QED
  BY <1>1, <1>2, <1>3, <1>4 DEF IndInv

LEMMA EndInv ==
  ASSUME IndInv, NEW t \in Terminals, End(t)
  PROVE  IndInv'
<1> USE NoneAssumption, EditsAssumption
<1>1. TypeOK'
  BY DEF IndInv, TypeOK, End, Closes, Goes, terminals, history
<1>2. RowsLogged' /\ PinsTrusted'
  BY DEF IndInv, TypeOK, RowsLogged, PinsTrusted, StagesKnow, Trusts, End, Closes, Goes, terminals, history
<1>3. TargetsLogged' /\ StagesKnow'
  BY DEF IndInv, TypeOK, RowsLogged, PinsTrusted, TargetsLogged, StagesKnow, Trusts, End, Closes, Goes, terminals, history
<1>4. CredentialFits'
  BY DEF IndInv, TypeOK, TargetsLogged, StagesKnow, CredentialFits, Trusts, End, Closes, Goes, terminals, history
<1> QED
  BY <1>1, <1>2, <1>3, <1>4 DEF IndInv

LEMMA StutterInv == IndInv /\ UNCHANGED vars => IndInv'
BY DEF IndInv, TypeOK, RowsLogged, PinsTrusted, TargetsLogged, StagesKnow, CredentialFits, Trusts,
   vars, terminals, history

LEMMA StepInv == IndInv /\ [Next]_vars => IndInv'
BY CountInv, InsertInv, EditInv, RemoveInv, ConnectInv, QuickConnectInv, ResolveInv, PresentInv,
   AcceptInv, LogInInv, SavePinInv, ForgetHostKeyInv, EndInv, StutterInv DEF Next

THEOREM Invariant == Spec => []IndInv
BY InitInv, StepInv, PTL DEF Spec

(* What the terminals read and the table holds are whole rows, targets and *)
(* pins, whatever patches the users send (updateServer()).                 *)
THEOREM TypeCorrect == Spec => []TypeOK
<1>1. IndInv => TypeOK
  BY DEF IndInv
<1> QED
  BY Invariant, <1>1, PTL

(* However servers are edited and removed while terminals connect, no      *)
(* credential goes to an address the guard refuses, to a host it was never *)
(* saved or typed with, or to a key nobody accepted for it or pinned late. *)
THEOREM CredentialsFit == Spec => []CredentialFits
<1>1. IndInv => CredentialFits
  BY DEF IndInv
<1> QED
  BY Invariant, <1>1, PTL

(* A saved pin is a key accepted for the host beside it, unless a browser  *)
(* saved it after the server had moved there.                              *)
THEOREM PinsBelong == Spec => []PinBelongs
<1>1. IndInv => PinBelongs
  BY DEF IndInv, PinsTrusted, PinBelongs, Saved, Trusts
<1> QED
  BY Invariant, <1>1, PTL

-----------------------------------------------------------------------------
(* Without a race one creation at a time has counted, and there is room.   *)
RoomCounted ==
    /\ \A s \in Ids : pc[s] # "saved" => row[s] = None
    /\ ~raced =>
        /\ \A s, other \in Ids : pc[s] = "counted" /\ pc[other] = "counted" => s = other
        /\ \A s \in Ids : pc[s] = "counted" => Cardinality(Saved) < MAX_SERVERS

LimitInv == TypeOK /\ RoomCounted /\ LimitKept

LEMMA SavedFinite == IsFiniteSet(Saved) /\ Cardinality(Saved) \in Nat
BY LimitAssumption, FS_Subset, FS_CardinalityType DEF Saved

LEMMA PatchedRow ==
  ASSUME NEW r \in Row, NEW patch \in Patch
  PROVE  Patched(r, patch) \in Row
BY DEF Patched, NewPin, Chosen, Row, Patch

(* A patch neither adds a row nor takes one away.                          *)
LEMMA UpdateKeeps ==
  ASSUME TypeOK, NEW s \in Ids, NEW patch \in Patch, Update(s, patch)
  PROVE  \A o \in Ids : row'[o] = None <=> row[o] = None
BY PatchedRow, NoneAssumption DEF Update, TypeOK

LEMMA LimitStep ==
  ASSUME LimitInv, IndInv, TypeOK', [Next]_vars
  PROVE  LimitInv'
<1>a. ASSUME \A o \in Ids : row'[o] = None <=> row[o] = None, UNCHANGED <<pc, raced>>
      PROVE  LimitInv'
  <2>1. Saved' = Saved
    BY <1>a DEF Saved
  <2> QED
    BY <1>a, <2>1 DEF LimitInv, RoomCounted, LimitKept
<1>1. ASSUME NEW s \in Ids, Count(s) PROVE LimitInv'
  <2>1. Saved' = Saved
    BY <1>1 DEF Count, Saved
  <2>2. RoomCounted'
    <3>1. ~raced' => ~raced /\ \A o \in Ids : pc[o] # "counted"
      BY <1>1 DEF LimitInv, TypeOK, Count
    <3>2. \A o \in Ids : pc'[o] = "counted" => \/ pc[o] = "counted"
                                               \/ o = s /\ Cardinality(Saved) < MAX_SERVERS
      BY <1>1, SavedFinite, LimitAssumption DEF LimitInv, TypeOK, Count, Full
    <3>3. \A o \in Ids : pc'[o] # "saved" => pc[o] # "saved"
      BY <1>1 DEF LimitInv, TypeOK, Count
    <3>4. row' = row
      BY <1>1 DEF Count
    <3> QED
      BY <2>1, <3>1, <3>2, <3>3, <3>4 DEF LimitInv, RoomCounted
  <2>3. LimitKept'
    BY <1>1, <2>1 DEF LimitInv, TypeOK, LimitKept, Count
  <2> QED
    BY <2>2, <2>3 DEF LimitInv
<1>2. ASSUME NEW s \in Ids, NEW entry \in Entries, Insert(s, entry) PROVE LimitInv'
  <2>1. Saved' = Saved \cup {s} /\ s \notin Saved
    BY <1>2, NoneAssumption, EditsAssumption DEF LimitInv, TypeOK, RoomCounted, Insert, Saved
  <2>2. Cardinality(Saved') = Cardinality(Saved) + 1
    BY <2>1, SavedFinite, FS_AddElement
  <2>3. RoomCounted'
    BY <1>2, <2>1 DEF LimitInv, TypeOK, RoomCounted, Insert
  <2>4. LimitKept'
    BY <1>2, <2>2, SavedFinite, LimitAssumption DEF LimitInv, TypeOK, RoomCounted, LimitKept, Insert
  <2> QED
    BY <2>3, <2>4 DEF LimitInv
<1>3. ASSUME NEW s \in Ids, Remove(s) PROVE LimitInv'
  <2>1. Saved' = Saved \ {s} /\ s \in Saved
    BY <1>3 DEF LimitInv, TypeOK, Remove, Saved
  <2>2. Cardinality(Saved') = Cardinality(Saved) - 1
    BY <2>1, SavedFinite, FS_RemoveElement
  <2>3. RoomCounted'
    BY <1>3, <2>2, SavedFinite, LimitAssumption DEF LimitInv, TypeOK, RoomCounted, Remove, history
  <2>4. LimitKept'
    BY <1>3, <2>2, SavedFinite, LimitAssumption DEF LimitInv, LimitKept, Remove, history
  <2> QED
    BY <2>3, <2>4 DEF LimitInv
<1>4. ASSUME NEW s \in Ids, NEW patch \in Edits, Edit(s, patch) PROVE LimitInv'
  BY <1>a, <1>4, UpdateKeeps, EditsAssumption DEF Edit, LimitInv
<1>5. ASSUME NEW t \in Terminals, SavePin(t) \/ ForgetHostKey(t) PROVE LimitInv'
  <2>1. ASSUME NEW s \in Ids, NEW k \in Keys \cup {None},
               Update(s, [host |-> Same, secret |-> Same, pin |-> k])
        PROVE  \A o \in Ids : row'[o] = None <=> row[o] = None
    BY <2>1, UpdateKeeps DEF LimitInv, Patch
  <2>2. target[t].server \in Ids /\ key[t] \in Keys
    BY <1>5 DEF IndInv, TypeOK, StagesKnow, SavePin, ForgetHostKey, Target
  <2>3. CASE SavePin(t)
    BY <1>a, <2>1, <2>2, <2>3 DEF SavePin
  <2>4. CASE ForgetHostKey(t)
    BY <1>a, <2>1, <2>2, <2>4 DEF ForgetHostKey
  <2> QED
    BY <1>5, <2>3, <2>4
<1> QED
  BY <1>a, <1>1, <1>2, <1>3, <1>4, <1>5 DEF Next, Connect, QuickConnect, Resolve, Present, Accept, LogIn, End,
     vars, history, terminals

(* The limit on saved servers holds as long as no two creations of one     *)
(* account overlap (create()): only the race can break it.                 *)
THEOREM LimitHolds == Spec => []LimitKept
<1>1. Init => LimitInv
  <2>1. Init => Saved = {}
    BY DEF Init, Saved
  <2> QED
    BY <2>1, InitInv, FS_EmptySet, LimitAssumption DEF Init, IndInv, LimitInv, RoomCounted, LimitKept
<1>2. IndInv => TypeOK
  BY DEF IndInv
<1>3. LimitInv /\ IndInv /\ TypeOK' /\ [Next]_vars => LimitInv'
  BY LimitStep
<1>4. LimitInv => LimitKept
  BY DEF LimitInv
<1> QED
  BY Invariant, <1>1, <1>2, <1>3, <1>4, PTL DEF Spec
=============================================================================
