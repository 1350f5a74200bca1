-------------------------- MODULE Accounts_proofs --------------------------
(***************************************************************************)
(* Proofs about Accounts, for any requests, accounts, invites and bounds,  *)
(* with an open registration or without.                                   *)
(***************************************************************************)
EXTENDS Accounts, TLAPS

(* Until its row is written, and once it is turned away, a registration    *)
(* has no account.  Behind the gate it names an invite.                    *)
RegInv ==
    \A r \in Regs :
        /\ pc[r] \in {"start", "counted", "free", "refused"} => row[r] = None
        /\ Gated(r) /\ pc[r] \notin {"start", "refused"} => code[r] # None

(* What a request writes, and where, it knows by then.                     *)
GivenInv ==
    \A q \in Requests :
        /\ pc[q] \in {"counted", "free", "rehash", "checked"} => given[q] # None
        /\ pc[q] \in {"rehash", "authed", "checked", "updated"} => account[q] # None

(* The foreign key of the sessions holds, and a token belongs to a request *)
(* that has answered.                                                      *)
SessInv == \A s \in sessions : row[s.user] # None /\ pc[s.token] = "done"

(* So do the tokens that a password change found, all of its own account.  *)
SignedInv ==
    \A c \in Changes :
        /\ pc[c] = "start" => signedIn[c] = {}
        /\ \A s \in signedIn[c] : pc[s.token] = "done" /\ s.user = account[c]

IndInv ==
    /\ TypeOK /\ GivenInv /\ RegInv /\ SessInv /\ SignedInv
    /\ InviteHeld /\ KeyOpens /\ ChangeSignsOut

-----------------------------------------------------------------------------
(* What the steps share.                                                   *)
LEMMA NewRow ==
  \A p \in Passwords : \A old \in BOOLEAN :
    /\ [pw |-> p, dek |-> p, old |-> old] \in Rows
    /\ [pw |-> p, dek |-> p, old |-> old] # None
<1>1. \A p \in Passwords : \A old \in BOOLEAN : [pw |-> p, dek |-> p, old |-> old] \in Rows
  BY DEF Rows
<1> QED
  BY <1>1, DataAssumption

LEMMA CredentialsType ==
  ASSUME TypeOK, NEW u \in Ids, NEW p \in Passwords, UpdateCredentials(u, p)
  PROVE  /\ row' \in [Ids -> Rows \cup {None}]
         /\ \A v \in Ids : row'[v] = None <=> row[v] = None
BY NewRow DEF UpdateCredentials, TypeOK

LEMMA SessionsType ==
  ASSUME TypeOK, NEW u
  PROVE  /\ SessionsOf(u) \subseteq sessions
         /\ SessionsWithout(u) \subseteq sessions
         /\ DestroyAllSessions(u) \subseteq sessions
BY DEF SessionsOf, SessionsWithout, DestroyAllSessions

-----------------------------------------------------------------------------
(* The type invariant.                                                     *)
LEMMA TypeStep ==
  ASSUME TypeOK, GivenInv, [Next]_vars
  PROVE  TypeOK'
<1> USE DEF users, invites, request
<1>1. ASSUME NEW r \in Regs, NEW f \in Forms, Register(r, f)  PROVE TypeOK'
  BY <1>1, FormsAssumption DEF Register, Goes, TypeOK, NoAccounts, Requests, Ids
<1>2. ASSUME NEW r \in Regs, FindEmail(r)  PROVE TypeOK'
  BY <1>2 DEF FindEmail, Goes, TypeOK
<1>3. ASSUME NEW r \in Regs, CreateUser(r)  PROVE TypeOK'
  <2>1. given[r] \in Passwords
    BY <1>3 DEF CreateUser, GivenInv, TypeOK, Requests
  <2>2. [pw |-> given[r], dek |-> given[r], old |-> FALSE] \in Rows
    BY <2>1, NewRow
  <2> QED
    <3>1. row' \in [Ids -> Rows \cup {None}] /\ admin' \subseteq Ids
      BY <1>3, <2>2 DEF CreateUser, TypeOK, Ids
    <3>2. pc' \in [Requests -> {"start", "counted", "free", "created", "unclaimed",
                                "rehash", "authed", "checked", "updated", "entering",
                                "done", "refused", "failed"}]
      BY <1>3 DEF CreateUser, Goes, TypeOK
    <3> QED
      BY <1>3, <3>1, <3>2 DEF CreateUser, TypeOK
<1>4. ASSUME NEW r \in Regs, Redeem(r)  PROVE TypeOK'
  BY <1>4 DEF Redeem, Redeemable, Goes, TypeOK, Ids
<1>5. ASSUME NEW r \in Regs, RollBack(r)  PROVE TypeOK'
  BY <1>5, SessionsType DEF RollBack, Goes, TypeOK
<1>6. ASSUME NEW l \in Logins, NEW e \in Emails, NEW p \in Passwords, Login(l, e, p)
      PROVE  TypeOK'
  BY <1>6 DEF Login, Goes, TypeOK, Present
<1>7. ASSUME NEW l \in Logins, Rehash(l)  PROVE TypeOK'
  <2>1. account[l] \in Ids /\ given[l] \in Passwords
    BY <1>7 DEF Rehash, GivenInv, TypeOK, Requests
  <2> QED
    BY <1>7, <2>1, CredentialsType DEF Rehash, Goes, TypeOK
<1>8. ASSUME NEW q \in Requests, NEW s \in sessions, Authenticate(q, s)  PROVE TypeOK'
  BY <1>8 DEF Authenticate, Goes, TypeOK, Sessions
<1>9. ASSUME NEW q \in Requests, Enter(q)  PROVE TypeOK'
  BY <1>9 DEF Enter, Goes, TypeOK, Sessions, Present
<1>10. ASSUME NEW q \in Requests, SignOut(q)  PROVE TypeOK'
  BY <1>10, SessionsType DEF SignOut, Goes, TypeOK
<1>11. ASSUME NEW q \in Requests, Dies(q)  PROVE TypeOK'
  BY <1>11 DEF Dies, Goes, TypeOK
<1>12. ASSUME NEW c \in Changes, NEW p \in Passwords, NEW n \in Passwords, Check(c, p, n)
       PROVE  TypeOK'
  BY <1>12 DEF Check, Goes, TypeOK
<1>13. ASSUME NEW c \in Changes, Change(c)  PROVE TypeOK'
  <2>1. account[c] \in Ids /\ given[c] \in Passwords
    BY <1>13 DEF Change, GivenInv, TypeOK, Requests
  <2>2. row' \in [Ids -> Rows \cup {None}]
    BY <1>13, <2>1, CredentialsType DEF Change
  <2>3. signedIn' \in [Changes -> SUBSET Sessions]
    BY <1>13, SessionsType DEF Change, TypeOK
  <2> QED
    BY <1>13, <2>2, <2>3 DEF Change, Goes, TypeOK
<1>14. ASSUME NEW s \in sessions, SessionEnds(s)  PROVE TypeOK'
  BY <1>14 DEF SessionEnds, TypeOK
<1>15. ASSUME NEW c \in Codes, CreateInvite(c)  PROVE TypeOK'
  BY <1>15 DEF CreateInvite, TypeOK
<1>16. ASSUME NEW c \in Codes, InviteExpires(c)  PROVE TypeOK'
  BY <1>16 DEF InviteExpires, TypeOK
<1>17. CASE UNCHANGED vars
  BY <1>17 DEF vars, TypeOK
<1> QED
  BY <1>1, <1>2, <1>3, <1>4, <1>5, <1>6, <1>7, <1>8, <1>9, <1>10, <1>11,
     <1>12, <1>13, <1>14, <1>15, <1>16, <1>17 DEF Next

(* What a request has read.                                                *)
LEMMA GivenStep ==
  ASSUME TypeOK, GivenInv, [Next]_vars
  PROVE  GivenInv'
<1> USE DEF users, invites, request, GivenInv
<1>1. ASSUME NEW r \in Regs, NEW f \in Forms, Register(r, f)  PROVE GivenInv'
  BY <1>1, FormsAssumption, DataAssumption DEF Register, Goes, TypeOK, Requests
<1>2. ASSUME NEW r \in Regs, FindEmail(r)  PROVE GivenInv'
  BY <1>2 DEF FindEmail, Goes, TypeOK
<1>3. ASSUME NEW r \in Regs, CreateUser(r)  PROVE GivenInv'
  BY <1>3 DEF CreateUser, Goes, TypeOK
<1>4. ASSUME NEW r \in Regs, Redeem(r)  PROVE GivenInv'
  BY <1>4 DEF Redeem, Goes, TypeOK
<1>5. ASSUME NEW r \in Regs, RollBack(r)  PROVE GivenInv'
  BY <1>5 DEF RollBack, Goes, TypeOK
<1>6. ASSUME NEW l \in Logins, NEW e \in Emails, NEW p \in Passwords, Login(l, e, p)
      PROVE  GivenInv'
  BY <1>6, DataAssumption DEF Login, Goes, TypeOK, Present, Requests
<1>7. ASSUME NEW l \in Logins, Rehash(l)  PROVE GivenInv'
  BY <1>7 DEF Rehash, Goes, TypeOK
<1>8. ASSUME NEW q \in Requests, NEW s \in sessions, Authenticate(q, s)  PROVE GivenInv'
  BY <1>8, DataAssumption DEF Authenticate, Goes, TypeOK, Sessions
<1>9. ASSUME NEW q \in Requests, Enter(q)  PROVE GivenInv'
  BY <1>9 DEF Enter, Goes, TypeOK
<1>10. ASSUME NEW q \in Requests, SignOut(q)  PROVE GivenInv'
  BY <1>10 DEF SignOut, Goes, TypeOK
<1>11. ASSUME NEW q \in Requests, Dies(q)  PROVE GivenInv'
  BY <1>11 DEF Dies, Goes, TypeOK
<1>12. ASSUME NEW c \in Changes, NEW p \in Passwords, NEW n \in Passwords, Check(c, p, n)
       PROVE  GivenInv'
  BY <1>12, DataAssumption DEF Check, Goes, TypeOK, Requests
<1>13. ASSUME NEW c \in Changes, Change(c)  PROVE GivenInv'
  BY <1>13 DEF Change, Goes, TypeOK
<1>14. ASSUME NEW s \in sessions, SessionEnds(s)  PROVE GivenInv'
  BY <1>14 DEF SessionEnds
<1>15. ASSUME NEW c \in Codes, CreateInvite(c) \/ InviteExpires(c)  PROVE GivenInv'
  BY <1>15 DEF CreateInvite, InviteExpires
<1>16. CASE UNCHANGED vars
  BY <1>16 DEF vars
<1> QED
  BY <1>1, <1>2, <1>3, <1>4, <1>5, <1>6, <1>7, <1>8, <1>9, <1>10, <1>11,
     <1>12, <1>13, <1>14, <1>15, <1>16 DEF Next
-----------------------------------------------------------------------------
(* The writes of credentials leave every account where it is.              *)
LEMMA WritersKeepRows ==
  ASSUME TypeOK, GivenInv, NEW q \in Requests, Rehash(q) \/ Change(q)
  PROVE  \A u \in Ids : row'[u] = None <=> row[u] = None
<1>1. account[q] \in Ids /\ given[q] \in Passwords
  BY DEF Rehash, Change, GivenInv, TypeOK
<1> QED
  BY <1>1, CredentialsType DEF Rehash, Change

(* A registration gets its row when it is to, and names its invite.        *)
LEMMA RegStep ==
  ASSUME TypeOK, GivenInv, RegInv, [Next]_vars
  PROVE  RegInv'
<1> USE DEF users, invites, request
<1>0. \A q \in Requests : q \in Regs => q \notin Logins \cup Changes \cup Outs
  BY RequestsAssumption
<1>1. ASSUME NEW r \in Regs, NEW f \in Forms, Register(r, f)  PROVE RegInv'
  BY <1>1 DEF Register, Goes, TypeOK, RegInv, Gated, Requests
<1>2. ASSUME NEW r \in Regs, FindEmail(r)  PROVE RegInv'
  BY <1>2 DEF FindEmail, Goes, TypeOK, RegInv, Gated, Requests
<1>3. ASSUME NEW r \in Regs, CreateUser(r)  PROVE RegInv'
  BY <1>3 DEF CreateUser, Goes, TypeOK, RegInv, Gated, Requests, Ids
<1>4. ASSUME NEW r \in Regs, Redeem(r)  PROVE RegInv'
  BY <1>4 DEF Redeem, Goes, TypeOK, RegInv, Gated, Requests
<1>5. ASSUME NEW r \in Regs, RollBack(r)  PROVE RegInv'
  BY <1>5 DEF RollBack, Goes, TypeOK, RegInv, Gated, Requests, Ids
<1>6. ASSUME NEW l \in Logins, NEW e \in Emails, NEW p \in Passwords, Login(l, e, p)
      PROVE  RegInv'
  BY <1>0, <1>6 DEF Login, Goes, TypeOK, RegInv, Gated, Requests
<1>7. ASSUME NEW l \in Logins, Rehash(l)  PROVE RegInv'
  <2>1. \A u \in Ids : row'[u] = None <=> row[u] = None
    BY <1>7, WritersKeepRows DEF Requests
  <2> QED
    BY <1>0, <1>7, <2>1 DEF Rehash, Goes, TypeOK, RegInv, Gated, Requests, Ids
<1>8. ASSUME NEW q \in Requests, NEW s \in sessions, Authenticate(q, s)  PROVE RegInv'
  BY <1>0, <1>8 DEF Authenticate, Goes, TypeOK, RegInv, Gated, Requests
<1>9. ASSUME NEW q \in Requests, Enter(q)  PROVE RegInv'
  BY <1>9 DEF Enter, Goes, TypeOK, RegInv, Gated, Requests
<1>10. ASSUME NEW q \in Requests, SignOut(q)  PROVE RegInv'
  BY <1>0, <1>10 DEF SignOut, Goes, TypeOK, RegInv, Gated, Requests
<1>11. ASSUME NEW q \in Requests, Dies(q)  PROVE RegInv'
  BY <1>11 DEF Dies, Goes, TypeOK, RegInv, Gated, Requests
<1>12. ASSUME NEW c \in Changes, NEW p \in Passwords, NEW n \in Passwords, Check(c, p, n)
       PROVE  RegInv'
  BY <1>0, <1>12 DEF Check, Goes, TypeOK, RegInv, Gated, Requests
<1>13. ASSUME NEW c \in Changes, Change(c)  PROVE RegInv'
  <2>1. \A u \in Ids : row'[u] = None <=> row[u] = None
    BY <1>13, WritersKeepRows DEF Requests
  <2> QED
    BY <1>0, <1>13, <2>1 DEF Change, Goes, TypeOK, RegInv, Gated, Requests, Ids
<1>14. ASSUME UNCHANGED <<row, pc, code, first>>  PROVE RegInv'
  BY <1>14 DEF RegInv, Gated
<1> QED
  BY <1>1, <1>2, <1>3, <1>4, <1>5, <1>6, <1>7, <1>8, <1>9, <1>10, <1>11, <1>12,
     <1>13, <1>14 DEF Next, vars, SessionEnds, CreateInvite, InviteExpires
-----------------------------------------------------------------------------
(* A request that has answered stays so, and none starts twice.            *)
LEMMA OnlyOnwards ==
  ASSUME TypeOK, [Next]_vars, NEW q \in Requests
  PROVE  /\ pc[q] = "done" => pc'[q] = "done"
         /\ pc'[q] = "start" => pc[q] = "start"
<1> USE DEF Goes, TypeOK
<1>1. ASSUME NEW r \in Regs, \/ \E f \in Forms : Register(r, f)
                             \/ FindEmail(r) \/ CreateUser(r) \/ Redeem(r) \/ RollBack(r)
      PROVE  /\ pc[q] = "done" => pc'[q] = "done"
             /\ pc'[q] = "start" => pc[q] = "start"
  BY <1>1 DEF Register, FindEmail, CreateUser, Redeem, RollBack
<1>2. ASSUME NEW l \in Logins, \/ \E e \in Emails, p \in Passwords : Login(l, e, p)
                               \/ Rehash(l)
      PROVE  /\ pc[q] = "done" => pc'[q] = "done"
             /\ pc'[q] = "start" => pc[q] = "start"
  BY <1>2 DEF Login, Rehash
<1>3. ASSUME NEW x \in Requests, \/ \E z \in sessions : Authenticate(x, z)
                                 \/ Enter(x) \/ SignOut(x) \/ Dies(x)
      PROVE  /\ pc[q] = "done" => pc'[q] = "done"
             /\ pc'[q] = "start" => pc[q] = "start"
  BY <1>3 DEF Authenticate, Enter, SignOut, Dies
<1>4. ASSUME NEW c \in Changes, \/ \E p, n \in Passwords : Check(c, p, n)
                                \/ Change(c)
      PROVE  /\ pc[q] = "done" => pc'[q] = "done"
             /\ pc'[q] = "start" => pc[q] = "start"
  BY <1>4 DEF Check, Change
<1> QED
  BY <1>1, <1>2, <1>3, <1>4 DEF Next, vars, SessionEnds, CreateInvite, InviteExpires

(* The foreign key of the sessions: an account goes with its sessions, and *)
(* none is started for an account that has gone.                           *)
LEMMA SessStep ==
  ASSUME TypeOK, GivenInv, SessInv, [Next]_vars
  PROVE  SessInv'
<1> USE DEF users
<1>0. \A s \in sessions : s.user \in Ids /\ s.token \in Requests
  BY DEF TypeOK, Sessions
<1>1. \A s \in sessions : pc'[s.token] = "done"
  BY <1>0, OnlyOnwards DEF SessInv
<1>2. ASSUME NEW r \in Regs, CreateUser(r)  PROVE SessInv'
  <2>1. \A u \in Ids : row[u] # None => row'[u] # None
    <3>0. given[r] \in Passwords /\ r \in Ids
      BY <1>2 DEF CreateUser, GivenInv, TypeOK, Requests, Ids
    <3>1. row'[r] # None \/ UNCHANGED row
      BY <1>2, <3>0, NewRow DEF CreateUser, TypeOK
    <3> QED
      BY <1>2, <3>1 DEF CreateUser, TypeOK
  <2> QED
    BY <1>0, <1>1, <1>2, <2>1 DEF CreateUser, SessInv
<1>3. ASSUME NEW r \in Regs, RollBack(r)  PROVE SessInv'
  BY <1>0, <1>1, <1>3 DEF RollBack, SessionsWithout, SessionsOf, SessInv, TypeOK
<1>4. ASSUME NEW q \in Requests, Enter(q)  PROVE SessInv'
  <2>1. row' = row
    BY <1>4 DEF Enter
  <2>2. ASSUME NEW s \in sessions', s \notin sessions
        PROVE  row[s.user] # None /\ pc'[s.token] = "done"
    <3>1. s = [token |-> q, user |-> account[q]] /\ account[q] \in Present /\ Goes(q, "done")
      BY <1>4, <2>2 DEF Enter
    <3> QED
      BY <3>1 DEF Present, Goes, TypeOK
  <2> QED
    BY <1>1, <2>1, <2>2 DEF SessInv
<1>5. ASSUME NEW q \in Requests, Rehash(q) \/ Change(q)  PROVE SessInv'
  BY <1>0, <1>1, <1>5, WritersKeepRows DEF Rehash, Change, SessInv
<1>6. ASSUME row' = row, sessions' \subseteq sessions  PROVE SessInv'
  BY <1>1, <1>6 DEF SessInv
<1>7. ASSUME NEW r \in Regs, \/ \E f \in Forms : Register(r, f)
                             \/ FindEmail(r) \/ Redeem(r)
      PROVE  SessInv'
  BY <1>6, <1>7 DEF Register, FindEmail, Redeem
<1>8. ASSUME NEW q \in Requests, \/ \E s \in sessions : Authenticate(q, s)
                                 \/ SignOut(q) \/ Dies(q)
      PROVE  SessInv'
  BY <1>6, <1>8, SessionsType DEF Authenticate, SignOut, Dies
<1>9. ASSUME \/ \E l \in Logins, e \in Emails, p \in Passwords : Login(l, e, p)
             \/ \E c \in Changes, p, n \in Passwords : Check(c, p, n)
             \/ \E s \in sessions : SessionEnds(s)
             \/ \E c \in Codes : CreateInvite(c) \/ InviteExpires(c)
             \/ UNCHANGED vars
      PROVE  SessInv'
  BY <1>6, <1>9 DEF Login, Check, SessionEnds, CreateInvite, InviteExpires, vars
<1> QED
  BY <1>2, <1>3, <1>4, <1>5, <1>7, <1>8, <1>9 DEF Next, Requests

(* The tokens that a password change found do not change afterwards.       *)
LEMMA SignedStep ==
  ASSUME TypeOK, SessInv, SignedInv, [Next]_vars
  PROVE  SignedInv'
<1> USE DEF users, invites, request
<1>0. \A c \in Changes : \A s \in signedIn[c] : pc'[s.token] = "done"
  <2>1. \A c \in Changes : \A s \in signedIn[c] : s.token \in Requests
    BY DEF TypeOK, Sessions
  <2> QED
    BY <2>1, OnlyOnwards DEF SignedInv
<1>1. \A c \in Changes : pc'[c] = "start" => pc[c] = "start"
  BY OnlyOnwards DEF Requests
<1>2. ASSUME NEW c \in Changes, Change(c)  PROVE SignedInv'
  <2>1. signedIn' = [signedIn EXCEPT ![c] = SessionsOf(account[c])] /\ account' = account
    BY <1>2 DEF Change
  <2>2. \A s \in SessionsOf(account[c]) : pc'[s.token] = "done" /\ s.user = account[c]
    <3>1. \A s \in SessionsOf(account[c]) : s \in sessions /\ s.user = account[c]
      BY DEF SessionsOf
    <3>2. \A s \in sessions : s.token \in Requests
      BY DEF TypeOK, Sessions
    <3> QED
      BY <3>1, <3>2, OnlyOnwards DEF SessInv
  <2>3. pc'[c] # "start"
    BY <1>2 DEF Change, Goes, TypeOK, Requests
  <2> QED
    BY <1>0, <1>1, <2>1, <2>2, <2>3 DEF SignedInv, TypeOK
<1>3. ASSUME signedIn' = signedIn, NEW q \in Requests, pc[q] = "start",
             \A x \in Requests \ {q} : account'[x] = account[x]
      PROVE  SignedInv'
  BY <1>0, <1>1, <1>3 DEF SignedInv, Requests
<1>4. ASSUME NEW l \in Logins, NEW e \in Emails, NEW p \in Passwords, Login(l, e, p)
      PROVE  SignedInv'
  BY <1>3, <1>4 DEF Login, TypeOK, Requests
<1>5. ASSUME NEW q \in Requests, NEW s \in sessions, Authenticate(q, s)  PROVE SignedInv'
  BY <1>3, <1>5 DEF Authenticate, TypeOK
<1>6. ASSUME UNCHANGED <<account, signedIn>>  PROVE SignedInv'
  BY <1>0, <1>1, <1>6 DEF SignedInv
<1> QED
  BY <1>2, <1>4, <1>5, <1>6 DEF Next, vars, Register, FindEmail, CreateUser, Redeem,
     RollBack, Rehash, Enter, SignOut, Dies, Check, SessionEnds, CreateInvite,
     InviteExpires
-----------------------------------------------------------------------------
(* The properties themselves.                                              *)
LEMMA KeyStep ==
  ASSUME TypeOK, KeyOpens, [Next]_vars
  PROVE  KeyOpens'
<1> USE DEF users, KeyOpens, Present
<1>1. ASSUME NEW r \in Regs, CreateUser(r)  PROVE KeyOpens'
  BY <1>1 DEF CreateUser, TypeOK
<1>2. ASSUME NEW r \in Regs, RollBack(r)  PROVE KeyOpens'
  BY <1>2 DEF RollBack, TypeOK
<1>3. ASSUME NEW q \in Requests, Rehash(q) \/ Change(q)  PROVE KeyOpens'
  BY <1>3 DEF Rehash, Change, UpdateCredentials, TypeOK
<1>4. CASE UNCHANGED row
  BY <1>4
<1> QED
  BY <1>1, <1>2, <1>3, <1>4 DEF Next, vars, Requests, Register, FindEmail, Redeem, Login,
     Authenticate, Enter, SignOut, Dies, Check, SessionEnds, CreateInvite, InviteExpires

LEMMA SignsOutStep ==
  ASSUME TypeOK, SessInv, SignedInv, ChangeSignsOut, [Next]_vars
  PROVE  ChangeSignsOut'
<1> USE DEF users, invites, request
<1>0. Changes \subseteq Requests /\ Changes \cap (Regs \cup Logins \cup Outs) = {}
  BY RequestsAssumption DEF Requests
<1>1. ASSUME NEW q \in Requests, Enter(q)  PROVE ChangeSignsOut'
  <2>1. signedIn' = signedIn /\ pc[q] = "entering"
    BY <1>1 DEF Enter
  <2>2. ASSUME NEW c \in Changes, NEW s \in signedIn[c]  PROVE s.token # q
    BY <2>1, <2>2 DEF SignedInv
  <2>3. \A s \in sessions' : s \in sessions \/ s.token = q
    BY <1>1 DEF Enter
  <2>4. \A c \in Changes : pc'[c] \in {"entering", "done"} => pc[c] \in {"entering", "done"}
    BY <1>0, <1>1 DEF Enter, Goes, TypeOK
  <2> QED
    BY <2>1, <2>2, <2>3, <2>4 DEF ChangeSignsOut
<1>2. ASSUME NEW q \in Requests, SignOut(q)  PROVE ChangeSignsOut'
  <2>1. /\ signedIn' = signedIn /\ sessions' \subseteq sessions
        /\ \A s \in sessions' : s.user # account[q]
    BY <1>2 DEF SignOut, DestroyAllSessions, SessionsOf
  <2>2. \A s \in signedIn[q] : q \in Changes => s.user = account[q]
    BY DEF SignedInv
  <2>3. \A c \in Changes : c # q => pc'[c] = pc[c]
    BY <1>0, <1>2 DEF SignOut, Goes, TypeOK
  <2> QED
    BY <2>1, <2>2, <2>3 DEF ChangeSignsOut
<1>3. ASSUME NEW c \in Changes, Change(c)  PROVE ChangeSignsOut'
  BY <1>0, <1>3 DEF Change, Goes, TypeOK, ChangeSignsOut
<1>4. ASSUME NEW c \in Changes, NEW p \in Passwords, NEW n \in Passwords, Check(c, p, n)
      PROVE  ChangeSignsOut'
  BY <1>0, <1>4 DEF Check, Goes, TypeOK, ChangeSignsOut
<1>5. ASSUME signedIn' = signedIn, sessions' \subseteq sessions, NEW q \in Requests,
             pc'[q] \notin {"entering", "done"} \/ q \notin Changes,
             \A x \in Requests \ {q} : pc'[x] = pc[x]
      PROVE  ChangeSignsOut'
  BY <1>0, <1>5 DEF ChangeSignsOut
<1>6. ASSUME NEW r \in Regs, \/ \E f \in Forms : Register(r, f)
                             \/ FindEmail(r) \/ CreateUser(r) \/ Redeem(r) \/ RollBack(r)
      PROVE  ChangeSignsOut'
  BY <1>0, <1>5, <1>6, SessionsType
  DEF Register, FindEmail, CreateUser, Redeem, RollBack, Goes, TypeOK, Requests
<1>7. ASSUME NEW l \in Logins, \/ \E e \in Emails, p \in Passwords : Login(l, e, p)
                               \/ Rehash(l)
      PROVE  ChangeSignsOut'
  BY <1>0, <1>5, <1>7 DEF Login, Rehash, Goes, TypeOK, Requests
<1>8. ASSUME NEW q \in Requests, Dies(q) \/ \E s \in sessions : Authenticate(q, s)
      PROVE  ChangeSignsOut'
  BY <1>5, <1>8 DEF Authenticate, Dies, Goes, TypeOK
<1>9. ASSUME UNCHANGED <<signedIn, pc>>, sessions' \subseteq sessions  PROVE ChangeSignsOut'
  BY <1>9 DEF ChangeSignsOut
<1> QED
  BY <1>1, <1>2, <1>3, <1>4, <1>6, <1>7, <1>8, <1>9
  DEF Next, vars, SessionEnds, CreateInvite, InviteExpires

LEMMA InviteStep ==
  ASSUME TypeOK, GivenInv, RegInv, InviteHeld, [Next]_vars
  PROVE  InviteHeld'
<1> USE DEF users, invites, request, Gated
<1>0. Regs \subseteq Requests /\ Regs \subseteq Ids /\ Regs \cap (Logins \cup Changes \cup Outs) = {}
  BY RequestsAssumption DEF Requests, Ids
<1>1. ASSUME NEW r \in Regs, NEW f \in Forms, Register(r, f)  PROVE InviteHeld'
  BY <1>0, <1>1 DEF Register, Goes, TypeOK, RegInv, InviteHeld
<1>2. ASSUME NEW r \in Regs, CreateUser(r)  PROVE InviteHeld'
  BY <1>0, <1>2 DEF CreateUser, Goes, TypeOK, InviteHeld
<1>3. ASSUME NEW r \in Regs, Redeem(r)  PROVE InviteHeld'
  <2>1. CASE ~Redeemable(code[r])
    BY <1>0, <1>3, <2>1 DEF Redeem, Goes, TypeOK, InviteHeld
  <2>2. CASE Redeemable(code[r])
    <3>1. code[r] \in Codes /\ usedBy[code[r]] = None
      BY <2>2 DEF Redeemable, TypeOK
    <3>2. usedBy'[code[r]] = r
      BY <1>3, <2>2, <3>1 DEF Redeem, TypeOK
    <3>3. \A x \in Regs : code[x] # None /\ usedBy[code[x]] = x => usedBy'[code[x]] = x
      <4>1. usedBy' = [usedBy EXCEPT ![code[r]] = r]
        BY <1>3, <2>2 DEF Redeem
      <4>2. \A x \in Regs : usedBy[code[x]] = x => code[x] # code[r]
        BY <1>0, <3>1, DataAssumption
      <4>3. \A x \in Regs : code[x] # None => code[x] \in Codes
        BY DEF TypeOK
      <4> QED
        BY <4>1, <4>2, <4>3 DEF TypeOK
    <3>4. \A x \in Regs \ {r} : pc'[x] = pc[x]
      BY <1>0, <1>3 DEF Redeem, Goes, TypeOK
    <3> QED
      BY <1>3, <3>2, <3>3, <3>4 DEF Redeem, InviteHeld, RegInv
  <2> QED
    BY <2>1, <2>2
<1>4. ASSUME NEW r \in Regs, RollBack(r)  PROVE InviteHeld'
  <2>1. \A x \in Regs \ {r} : pc'[x] = pc[x] /\ row'[x] = row[x]
    BY <1>0, <1>4 DEF RollBack, Goes, TypeOK
  <2>2. row'[r] = None
    BY <1>0, <1>4 DEF RollBack, TypeOK
  <2>3. \A x \in Regs \ {r} : code[x] # None /\ usedBy[code[x]] = x => usedBy'[code[x]] = x
    BY <1>4 DEF RollBack, TypeOK
  <2>4. \A x \in Regs : row[x] # None /\ Gated(x) => code[x] # None
    BY DEF RegInv
  <2> QED
    BY <1>4, <2>1, <2>2, <2>3, <2>4 DEF RollBack, InviteHeld
<1>5. ASSUME NEW q \in Requests, Rehash(q) \/ Change(q), q \notin Regs  PROVE InviteHeld'
  <2>1. \A x \in Regs : pc'[x] = pc[x]
    BY <1>0, <1>5 DEF Rehash, Change, Goes, TypeOK
  <2> QED
    BY <1>0, <1>5, <2>1, WritersKeepRows DEF Rehash, Change, InviteHeld
<1>6. ASSUME NEW q \in Requests, Enter(q)  PROVE InviteHeld'
  <2>1. \A x \in Regs : pc'[x] \in {pc[x], "failed"} \/ pc[x] = "entering"
    BY <1>0, <1>6 DEF Enter, Goes, TypeOK
  <2> QED
    BY <1>6, <2>1 DEF Enter, InviteHeld
<1>7. ASSUME UNCHANGED <<row, usedBy, code, first>>,
             \A x \in Regs : pc'[x] \in {pc[x], "failed"} \/ pc[x] \in {"counted", "free"}
      PROVE  InviteHeld'
  BY <1>7, DataAssumption DEF InviteHeld, RegInv
<1>8. ASSUME NEW r \in Regs, FindEmail(r)  PROVE InviteHeld'
  BY <1>0, <1>7, <1>8 DEF FindEmail, Goes, TypeOK
<1>9. ASSUME NEW l \in Logins, NEW e \in Emails, NEW p \in Passwords, Login(l, e, p)
      PROVE  InviteHeld'
  BY <1>0, <1>7, <1>9 DEF Login, Goes, TypeOK, Requests
<1>10. ASSUME NEW q \in Requests, NEW s \in sessions, Authenticate(q, s)  PROVE InviteHeld'
  BY <1>0, <1>7, <1>10 DEF Authenticate, Goes, TypeOK
<1>11. ASSUME NEW q \in Requests, SignOut(q)  PROVE InviteHeld'
  BY <1>0, <1>7, <1>11 DEF SignOut, Goes, TypeOK
<1>12. ASSUME NEW q \in Requests, Dies(q)  PROVE InviteHeld'
  BY <1>0, <1>7, <1>12 DEF Dies, Goes, TypeOK
<1>13. ASSUME NEW c \in Changes, NEW p \in Passwords, NEW n \in Passwords, Check(c, p, n)
       PROVE  InviteHeld'
  BY <1>0, <1>7, <1>13 DEF Check, Goes, TypeOK, Requests
<1>14. CASE UNCHANGED <<row, usedBy, code, first, pc>>
  BY <1>7, <1>14
<1> QED
  BY <1>0, <1>1, <1>2, <1>3, <1>4, <1>5, <1>6, <1>8, <1>9, <1>10, <1>11, <1>12, <1>13, <1>14
  DEF Next, vars, Requests, SessionEnds, CreateInvite, InviteExpires

-----------------------------------------------------------------------------
(* The initial state satisfies the inductive invariant.                    *)
LEMMA Initially == Init => IndInv
<1> SUFFICES ASSUME Init  PROVE IndInv
  OBVIOUS
<1>0. Regs \cap Earlier = {} /\ Changes \subseteq Requests /\ None \notin Ids
  BY RequestsAssumption, DataAssumption DEF Requests
<1>1. PICK present \in {{}, Earlier} : \E password \in [Earlier -> Passwords] :
        /\ row = [u \in Ids |->
                    IF u \in present
                    THEN [pw |-> password[u], dek |-> password[u], old |-> TRUE]
                    ELSE None]
        /\ IF present = {} THEN admin = {} ELSE \E u \in present : admin = {u}
  BY DEF Init
<1>2. PICK password \in [Earlier -> Passwords] :
        row = [u \in Ids |->
                 IF u \in present
                 THEN [pw |-> password[u], dek |-> password[u], old |-> TRUE]
                 ELSE None]
  BY <1>1
<1>3. row \in [Ids -> Rows \cup {None}]
  BY <1>2, NewRow
<1>4. admin \subseteq Earlier
  BY <1>1
<1>5. TypeOK
  BY <1>3, <1>4, DataAssumption DEF Init, TypeOK, Ids, Requests
<1>6. RegInv /\ InviteHeld
  <2>1. \A r \in Regs : row[r] = None /\ pc[r] = "start"
    BY <1>0, <1>1, <1>2 DEF Init, Ids, Requests
  <2> QED
    BY <2>1 DEF RegInv, InviteHeld
<1>7. GivenInv /\ SessInv /\ SignedInv /\ ChangeSignsOut
  BY <1>0 DEF Init, GivenInv, SessInv, SignedInv, ChangeSignsOut
<1>8. KeyOpens
  BY <1>2 DEF KeyOpens, Present
<1> QED
  BY <1>5, <1>6, <1>7, <1>8 DEF IndInv

(* Every step preserves it.                                                *)
LEMMA Inductive == IndInv /\ [Next]_vars => IndInv'
BY TypeStep, GivenStep, RegStep, SessStep, SignedStep, KeyStep, SignsOutStep,
   InviteStep DEF IndInv

(* It therefore holds in every reachable state.                            *)
LEMMA Invariance == Spec => []IndInv
BY Initially, Inductive, PTL DEF Spec

(* Rows, sessions and invites keep the types of the schema                 *)
(* (0001_init.sql), in particular no session outlives its account as NULL. *)
THEOREM TypeCorrect == Spec => []TypeOK
BY Invariance, PTL DEF IndInv

(* For any number of registrations and invites: behind the gate, an        *)
(* account whose registration has answered holds an invite of its own      *)
(* (auth.ts:67-75, db/invites.ts:30: two concurrent registrations cannot   *)
(* share one).                                                             *)
THEOREM OneInviteEach == Spec => []InviteHeld
BY Invariance, PTL DEF IndInv

(* A registration that is turned away has no account and no session,       *)
(* whoever signed in to it before the roll-back (auth.ts:72).              *)
THEOREM CleanRefusal == Spec => []RefusedLeavesNothing
<1>1. IndInv => RefusedLeavesNothing
  BY DEF IndInv, RegInv, SessInv, SessionsOf, RefusedLeavesNothing
<1> QED
  BY <1>1, Invariance, PTL

(* Verifier and data key always go together, whatever re-hashes and        *)
(* password changes overlap (auth.ts:129-138, 206).                        *)
THEOREM KeyNeverLost == Spec => []KeyOpens
BY Invariance, PTL DEF IndInv

(* A password change that answers has ended all the sessions there were    *)
(* when it wrote the password (auth.ts:206-213).                           *)
THEOREM SignsEveryoneOut == Spec => []ChangeSignsOut
BY Invariance, PTL DEF IndInv
=============================================================================
