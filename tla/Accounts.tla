------------------------------ MODULE Accounts ------------------------------
(***************************************************************************)
(* Registration, login, password change and sign-out (src/src/api/auth.ts) *)
(* over the tables users, sessions and invites.                            *)
(*                                                                         *)
(* Requests run concurrently, on any number of isolates; what they share   *)
(* is the database, and the database runs one statement at a time.  So an  *)
(* action is one statement and what the handler computes up to its next.   *)
(* There are no transactions: a request may die between two statements.    *)
(* The rate limits a request passes first are in RateLimiter.              *)
(***************************************************************************)
EXTENDS Integers, FiniteSets

CONSTANTS
    Regs, Logins, Changes, Outs,    \* requests, by what they ask for
    Earlier,            \* accounts that exist before all of them, if any
    EarlierEmail,       \* their addresses
    Emails, Passwords, Codes,
    Forms,              \* bodies of registrations: [email, password, code]
    None,               \* no row, no invite code, no account
    OPEN_REGISTRATION,  \* wrangler.toml
    MAX_DEATHS          \* bound of the model: requests that die

Requests == Regs \cup Logins \cup Changes \cup Outs

(* An account is named for the registration that created it.               *)
Ids == Regs \cup Earlier

(* What login needs of a row of users: the password that the verifier      *)
(* accepts, the one that opens the wrapped data key, and whether the       *)
(* verifier has an iteration count of old.                                 *)
Rows == [pw : Passwords, dek : Passwords, old : BOOLEAN]

ASSUME RequestsAssumption ==
    /\ Regs \cap (Logins \cup Changes \cup Outs \cup Earlier) = {}
    /\ Logins \cap (Changes \cup Outs) = {} /\ Changes \cap Outs = {}
ASSUME FormsAssumption ==
    Forms \subseteq [email : Emails, password : Passwords, code : Codes \cup {None}]
ASSUME DataAssumption ==
    /\ EarlierEmail \in [Earlier -> Emails]
    /\ \A u, v \in Earlier : EarlierEmail[u] = EarlierEmail[v] => u = v
    /\ None \notin Ids \cup Rows \cup Emails \cup Codes \cup Passwords
    /\ OPEN_REGISTRATION \in BOOLEAN

VARIABLES
    (* The tables.                                                         *)
    row, email, admin,          \* users, by account
    minted, expired, usedBy,    \* invites, by code
    sessions,                   \* a token is named for the request that made it
    (* The requests.                                                       *)
    pc,
    code,       \* of a registration, the invite code it names
    first,      \* of a registration, whether it found no accounts
    account,    \* of a login, change or sign-out, the account it is for
    given,      \* of a login or change, the password it is to write
    (* History, for the properties only.                                   *)
    signedIn    \* of a change, the sessions when it wrote the new password

users == <<row, email, admin>>
invites == <<minted, expired, usedBy>>
request == <<code, first, account, given>>
vars == <<users, invites, sessions, pc, request, signedIn>>

Sessions == [token : Requests, user : Ids]

TypeOK ==
    /\ row \in [Ids -> Rows \cup {None}] /\ email \in [Ids -> Emails \cup {None}]
    /\ admin \subseteq Ids
    /\ minted \subseteq Codes /\ expired \subseteq Codes
    /\ usedBy \in [Codes -> Ids \cup {None}]
    /\ sessions \subseteq Sessions
    /\ pc \in [Requests -> {"start", "counted", "free", "created", "unclaimed",
                            "rehash", "authed", "checked", "updated", "entering",
                            "done", "refused", "failed"}]
    /\ code \in [Regs -> Codes \cup {None}] /\ first \in [Regs -> BOOLEAN]
    /\ account \in [Requests -> Ids \cup {None}]
    /\ given \in [Requests -> Passwords \cup {None}]
    /\ signedIn \in [Changes -> SUBSET Sessions]

(* An empty deployment, or one with accounts from before the iteration     *)
(* count was raised, one of them the administrator.  Nobody is signed in.  *)
Init ==
    /\ \E present \in {{}, Earlier}, password \in [Earlier -> Passwords] :
        /\ row = [u \in Ids |->
                    IF u \in present
                    THEN [pw |-> password[u], dek |-> password[u], old |-> TRUE]
                    ELSE None]
        /\ IF present = {} THEN admin = {} ELSE \E u \in present : admin = {u}
    /\ email = [u \in Ids |-> IF u \in Earlier THEN EarlierEmail[u] ELSE None]
    /\ minted = {} /\ expired = {} /\ usedBy = [c \in Codes |-> None]
    /\ sessions = {}
    /\ pc = [q \in Requests |-> "start"]
    /\ code = [r \in Regs |-> None] /\ first = [r \in Regs |-> FALSE]
    /\ account = [q \in Requests |-> IF q \in Regs THEN q ELSE None]
    /\ given = [q \in Requests |-> None]
    /\ signedIn = [c \in Changes |-> {}]

-----------------------------------------------------------------------------
Present == {u \in Ids : row[u] # None}

Taken(e) == \E u \in Present : email[u] = e

SessionsOf(u) == {s \in sessions : s.user = u}

Goes(q, next) == pc' = [pc EXCEPT ![q] = next]

(* countUsers() === 0.                                                     *)
NoAccounts == Present = {}

(* register(), up to countUsers(): without an open registration a code is  *)
(* needed.                                                                 *)
Register(r, f) ==
    /\ pc[r] = "start"
    /\ email' = [email EXCEPT ![r] = f.email] /\ given' = [given EXCEPT ![r] = f.password]
    /\ code' = [code EXCEPT ![r] = f.code]
    /\ first' = [first EXCEPT ![r] = NoAccounts]
    /\ Goes(r, IF OPEN_REGISTRATION \/ NoAccounts \/ f.code # None THEN "counted" ELSE "refused")
    /\ UNCHANGED <<row, admin, invites, sessions, account, signedIn>>

(* The registration must name an invite.                                   *)
Gated(r) == ~OPEN_REGISTRATION /\ ~first[r]

(* findByEmail().                                                          *)
FindEmail(r) ==
    /\ pc[r] = "counted"
    /\ Goes(r, IF Taken(email[r]) THEN "refused" ELSE "free")
    /\ UNCHANGED <<users, invites, sessions, request, signedIn>>

(* createUser(), which the unique index refuses if the address has been    *)
(* taken since.                                                            *)
CreateUser(r) ==
    /\ pc[r] = "free"
    /\ IF Taken(email[r])
       THEN Goes(r, "failed") /\ UNCHANGED <<row, admin>>
       ELSE /\ row' = [row EXCEPT ![r] = [pw |-> given[r], dek |-> given[r], old |-> FALSE]]
            /\ admin' = IF first[r] THEN admin \cup {r} ELSE admin
            /\ Goes(r, IF Gated(r) THEN "created" ELSE "entering")
    /\ UNCHANGED <<email, invites, sessions, request, signedIn>>

(* Fault: a code may be redeemed until it expires.                         *)
RedeemableAgain(c) == c \in minted /\ c \notin expired

(* The WHERE clause of redeemInvite().                                     *)
Redeemable(c) == c \in minted /\ usedBy[c] = None /\ c \notin expired

(* redeemInvite().                                                         *)
Redeem(r) ==
    /\ pc[r] = "created"
    /\ IF Redeemable(code[r])
       THEN usedBy' = [usedBy EXCEPT ![code[r]] = r] /\ Goes(r, "entering")
       ELSE Goes(r, "unclaimed") /\ UNCHANGED usedBy
    /\ UNCHANGED <<users, minted, expired, sessions, request, signedIn>>

(* Fault: the foreign key of sessions does not cascade.                    *)
SessionsLeft(u) == sessions

(* What a deleted account leaves of the sessions.                          *)
SessionsWithout(u) == sessions \ SessionsOf(u)

(* The account goes again, and what refers to it.                          *)
RollBack(r) ==
    /\ pc[r] = "unclaimed"
    /\ row' = [row EXCEPT ![r] = None] /\ admin' = admin \ {r}
    /\ sessions' = SessionsWithout(r)
    /\ usedBy' = [c \in Codes |-> IF usedBy[c] = r THEN None ELSE usedBy[c]]
    /\ Goes(r, "refused")
    /\ UNCHANGED <<email, minted, expired, request, signedIn>>

-----------------------------------------------------------------------------
(* login(), with findByEmail(): the password is held against the row that  *)
(* was read, and the data key unwrapped.                                   *)
Login(l, e, p) ==
    /\ pc[l] = "start"
    /\ \/ /\ ~\E u \in Present : email[u] = e /\ row[u].pw = p
          /\ Goes(l, "refused")
          /\ UNCHANGED <<account, given>>
       \/ \E u \in Present :
          /\ email[u] = e /\ row[u].pw = p
          /\ account' = [account EXCEPT ![l] = u] /\ given' = [given EXCEPT ![l] = p]
          /\ Goes(l, IF row[u].dek # p THEN "failed"
                     ELSE IF row[u].old THEN "rehash" ELSE "entering")
    /\ UNCHANGED <<users, invites, sessions, code, first, signedIn>>

(* Fault: the data key stays wrapped as it was.                            *)
KeyNotWrapped(u, p) ==
    row' = [row EXCEPT ![u] = IF @ = None THEN None ELSE [@ EXCEPT !.pw = p, !.old = FALSE]]

(* updateCredentials(): one statement for the verifier and the key.        *)
UpdateCredentials(u, p) ==
    row' = [row EXCEPT ![u] = IF @ = None THEN None ELSE [pw |-> p, dek |-> p, old |-> FALSE]]

(* The login of an account with an old iteration count writes it anew.     *)
Rehash(l) ==
    /\ pc[l] = "rehash"
    /\ UpdateCredentials(account[l], given[l])
    /\ Goes(l, "entering")
    /\ UNCHANGED <<email, admin, invites, sessions, request, signedIn>>

(* createSession(), the last statement of a registration, a login or a     *)
(* password change.  The account may be gone: the foreign key fails.       *)
Enter(q) ==
    /\ pc[q] = "entering"
    /\ IF account[q] \in Present
       THEN /\ sessions' = sessions \cup {[token |-> q, user |-> account[q]]}
            /\ Goes(q, "done")
       ELSE Goes(q, "failed") /\ UNCHANGED sessions
    /\ UNCHANGED <<users, invites, request, signedIn>>

-----------------------------------------------------------------------------
(* lookupSession(), for a request that needs to be signed in.              *)
Authenticate(q, s) ==
    /\ q \in Changes \cup Outs /\ pc[q] = "start"
    /\ s \in sessions
    /\ account' = [account EXCEPT ![q] = s.user]
    /\ Goes(q, "authed")
    /\ UNCHANGED <<users, invites, sessions, code, first, given, signedIn>>

(* changePassword(), with findById(): the current password is p, the new   *)
(* one is to be n.                                                         *)
Check(c, p, n) ==
    /\ c \in Changes /\ pc[c] = "authed"
    /\ given' = [given EXCEPT ![c] = n]
    /\ LET r == row[account[c]]
       IN  Goes(c, IF r = None THEN "refused" ELSE IF r.pw # p THEN "refused"
                   ELSE IF r.dek # p THEN "failed" ELSE "checked")
    /\ UNCHANGED <<users, invites, sessions, code, first, account, signedIn>>

(* updateCredentials().                                                    *)
Change(c) ==
    /\ c \in Changes /\ pc[c] = "checked"
    /\ UpdateCredentials(account[c], given[c])
    /\ signedIn' = [signedIn EXCEPT ![c] = SessionsOf(account[c])]
    /\ Goes(c, "updated")
    /\ UNCHANGED <<email, admin, invites, sessions, request>>

(* Fault: only the sessions of other logins are ended.                     *)
DestroyLogins(u) == sessions \ {s \in SessionsOf(u) : s.token \in Logins}

(* destroyAllSessions().                                                   *)
DestroyAllSessions(u) == sessions \ SessionsOf(u)

SignOut(q) ==
    /\ \/ q \in Changes /\ pc[q] = "updated" /\ Goes(q, "entering")
       \/ q \in Outs /\ pc[q] = "authed" /\ Goes(q, "done")
    /\ sessions' = DestroyAllSessions(account[q])
    /\ UNCHANGED <<users, invites, request, signedIn>>

-----------------------------------------------------------------------------
(* A session ends by itself or by logout().                                *)
SessionEnds(s) ==
    /\ s \in sessions
    /\ sessions' = sessions \ {s}
    /\ UNCHANGED <<users, invites, pc, request, signedIn>>

(* create() of api/invites.ts, for an administrator who is signed in.  The *)
(* lookups before it are part of the step: nothing makes an administrator  *)
(* of an account or ends one that has signed in.                           *)
CreateInvite(c) ==
    /\ c \notin minted
    /\ \E s \in sessions : s.user \in admin
    /\ minted' = minted \cup {c}
    /\ UNCHANGED <<users, expired, usedBy, sessions, pc, request, signedIn>>

(* Once it is used it no longer matters whether an invite has expired.     *)
InviteExpires(c) ==
    /\ c \in minted \ expired /\ usedBy[c] = None
    /\ expired' = expired \cup {c}
    /\ UNCHANGED <<users, minted, usedBy, sessions, pc, request, signedIn>>

(* A request dies between two statements: its isolate is gone, or the      *)
(* database does not answer.                                               *)
Dies(q) ==
    /\ pc[q] \notin {"start", "done", "refused", "failed"}
    /\ Cardinality({d \in Requests : pc[d] = "failed"}) < MAX_DEATHS
    /\ Goes(q, "failed")
    /\ UNCHANGED <<users, invites, sessions, request, signedIn>>

Next ==
    \/ \E r \in Regs :
        \/ \E f \in Forms : Register(r, f)
        \/ FindEmail(r) \/ CreateUser(r) \/ Redeem(r) \/ RollBack(r)
    \/ \E l \in Logins :
        \/ \E e \in Emails, p \in Passwords : Login(l, e, p)
        \/ Rehash(l)
    \/ \E q \in Requests : \/ \E s \in sessions : Authenticate(q, s)
                           \/ Enter(q) \/ SignOut(q) \/ Dies(q)
    \/ \E c \in Changes : \/ \E p, n \in Passwords : Check(c, p, n)
                          \/ Change(c)
    \/ \E s \in sessions : SessionEnds(s)
    \/ \E c \in Codes : CreateInvite(c) \/ InviteExpires(c)

Spec == Init /\ [][Next]_vars

-----------------------------------------------------------------------------
(* Behind a gate, an account has an invite of its own, unless its          *)
(* registration is still under way or has died under way.                  *)
InviteHeld ==
    \A r \in Regs : row[r] # None /\ Gated(r) =>
        usedBy[code[r]] = r \/ pc[r] \in {"created", "unclaimed", "failed"}

(* A registration that is turned away leaves nothing behind: no account,   *)
(* nor a session of one who signed in to it meanwhile.                     *)
RefusedLeavesNothing ==
    \A r \in Regs : pc[r] = "refused" => row[r] = None /\ SessionsOf(r) = {}

(* The password that signs in also opens the data key, however re-hashes   *)
(* and password changes overlap: nobody can sign in and not read their     *)
(* servers ("the row is inconsistent", auth.ts:130).                       *)
KeyOpens == \A u \in Present : row[u].dek = row[u].pw

(* A password change that answers has ended every session there was when   *)
(* the new password was written.                                           *)
ChangeSignsOut ==
    \A c \in Changes : pc[c] \in {"entering", "done"} => signedIn[c] \cap sessions = {}

-----------------------------------------------------------------------------
(* Claims of the repository that the code does not keep.                   *)

(* "The first account created becomes the administrator" (README.md:137),  *)
(* and no later one: two registrations may both have counted none.         *)
FirstIsAdmin == [][\A u \in admin' \ admin : Present = {}]_vars

(* "Password changed. Every other session was signed out"                  *)
(* (web/app/account/page.tsx:108): once the change has answered, a session *)
(* that came of a login came of one with the new password.  A login may    *)
(* have verified the old one and create its session after the sign-out.    *)
OthersSignedOut ==
    \A c \in Changes :
        pc[c] = "done" /\ (\A d \in Changes \ {c} : account[d] # account[c]) =>
            \A l \in Logins :
                [token |-> l, user |-> account[c]] \in sessions => given[l] = given[c]

(* "Transparently strengthen accounts" (auth.ts:136): only a change of the *)
(* password changes the password.  A login's re-hash writes the one that   *)
(* it verified, over one that was changed since.                           *)
PasswordStays ==
    [][\A u \in Present :
           row'[u] # None /\ row'[u].pw # row[u].pw =>
               \E c \in Changes : account[c] = u /\ Change(c)]_vars
=============================================================================
