----------------------------- MODULE MCAccounts -----------------------------
(***************************************************************************)
(* Accounts for TLC: two registrations, two logins, a password change and  *)
(* a sign-out, with one account from before or none.                       *)
(***************************************************************************)
EXTENDS Accounts, TLC

CONSTANTS r1, r2, l1, l2, c1, o1, u0, e0, e1, e2, p1, p2, i1

MCRegs == {r1, r2}
MCLogins == {l1, l2}
MCChanges == {c1}
MCOuts == {o1}
MCEarlier == {u0}
MCEarlierEmail == [u \in MCEarlier |-> e0]
MCEmails == {e0, e1, e2}
MCPasswords == {p1, p2}
MCCodes == {i1}

(* Two addresses and one invite; any registration may take either address. *)
MCForms == {[email |-> e1, password |-> p1, code |-> i1],
            [email |-> e2, password |-> p1, code |-> i1]}

MCSymmetry == Permutations(MCRegs) \cup Permutations(MCLogins)
=============================================================================
