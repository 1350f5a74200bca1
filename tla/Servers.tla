------------------------------ MODULE Servers -------------------------------
(***************************************************************************)
(* Saved servers and their pinned host keys: the API that creates, edits   *)
(* and removes them (src/src/api/servers.ts, src/src/db/servers.ts), the   *)
(* provisioning of a terminal from one (src/src/api/connect.ts, with       *)
(* src/src/net/guard.ts), and the browser, which saves the key that the    *)
(* user accepted with a request of its own                                 *)
(* (src/web/components/TerminalView.tsx).                                  *)
(*                                                                         *)
(* Each statement is atomic and whatever lies between two of one request,  *)
(* or between a terminal's reading of a server and its saving of the key,  *)
(* may take long.  One account: every statement is confined to the rows of *)
(* its caller.  What goes on inside the terminal is in SshSession; here it *)
(* ends up trusting the key or not.                                        *)
(***************************************************************************)
EXTENDS Integers, FiniteSets

CONSTANTS
    Ids,                \* servers, by the request that creates them
    Terminals,
    Hosts,              \* host and port
    Secrets, Keys,
    Addresses, Blocked, \* what a name may resolve to; guard.ts refuses some of it
    Entries,            \* what the user may type in: rows
    Edits,              \* patches the user may send: [host, secret, pin]
    None,               \* no row, no pin, no server
    Same,               \* in a patch: leave it
    MAX_SERVERS         \* api/servers.ts:17

Row == [host : Hosts, secret : Secrets, pin : Keys \cup {None}]
Patch == [host : Hosts \cup {Same}, secret : Secrets \cup {Same}, pin : Keys \cup {None, Same}]

(* What a terminal is to connect to, as it was read or typed.              *)
Target == [server : Ids \cup {None}, host : Hosts, secret : Secrets, pin : Keys \cup {None}]

ASSUME EditsAssumption == Entries \subseteq Row /\ Edits \subseteq Patch
ASSUME NoneAssumption ==
    /\ None \notin Row \cup Target \cup Ids \cup Keys \cup Addresses
    /\ Same \notin Hosts \cup Secrets \cup Keys \cup {None}
ASSUME LimitAssumption == MAX_SERVERS \in Nat /\ IsFiniteSet(Ids)
ASSUME BlockedAssumption == Blocked \subseteq Addresses

VARIABLES
    row,        \* the table servers
    pc,         \* of each creation
    stage,      \* of each terminal
    target,     \* of each terminal, what it read
    address,    \* of each terminal, what the guard let through
    key,        \* of each terminal, what the server presented
    (* History, for the properties only.                                   *)
    logins,     \* <<server, host, secret>> there have been, as saved or typed
    accepted,   \* <<server, host, key>> the user accepted
    late,       \* <<server, host, key>> saved by a terminal that had read another host
    sent,       \* of each terminal, where its credential went last
    raced       \* two creations overlapped

terminals == <<stage, target, address, key>>
history == <<logins, accepted, late, sent, raced>>
vars == <<row, pc, terminals, history>>

Sent == [server : Ids \cup {None}, host : Hosts, secret : Secrets, key : Keys, address : Addresses]

(* Type invariant: what is read, kept and saved is a whole row, target or  *)
(* pin, never a part that a patch (updateServer()) left out.               *)
TypeOK ==
    /\ row \in [Ids -> Row \cup {None}]
    /\ pc \in [Ids -> {"start", "counted", "saved", "refused"}]
    /\ stage \in [Terminals -> {"closed", "resolved", "open", "asking", "trusted",
                                "accepted", "up", "mismatch", "again"}]
    /\ target \in [Terminals -> Target \cup {None}]
    /\ address \in [Terminals -> Addresses \cup {None}]
    /\ key \in [Terminals -> Keys \cup {None}]
    /\ logins \subseteq (Ids \cup {None}) \X Hosts \X Secrets
    /\ accepted \cup late \subseteq (Ids \cup {None}) \X Hosts \X Keys
    /\ sent \in [Terminals -> Sent \cup {None}]
    /\ raced \in BOOLEAN

Init ==
    /\ row = [s \in Ids |-> None] /\ pc = [s \in Ids |-> "start"]
    /\ stage = [t \in Terminals |-> "closed"] /\ target = [t \in Terminals |-> None]
    /\ address = [t \in Terminals |-> None] /\ key = [t \in Terminals |-> None]
    /\ logins = {} /\ accepted = {} /\ late = {} /\ sent = [t \in Terminals |-> None] /\ raced = FALSE

-----------------------------------------------------------------------------
(* countServers().                                                         *)
Saved == {s \in Ids : row[s] # None}

(* Fault: one more than there may be.                                      *)
FullLater == Cardinality(Saved) > MAX_SERVERS

Full == Cardinality(Saved) >= MAX_SERVERS

(* create(): the servers are counted ...                                   *)
Count(s) ==
    /\ pc[s] = "start"
    /\ pc' = [pc EXCEPT ![s] = IF Full THEN "refused" ELSE "counted"]
    /\ raced' = (raced \/ \E other \in Ids : pc[other] = "counted")
    /\ UNCHANGED <<row, terminals, logins, accepted, late, sent>>

(* History: a pin that the user types is as good as one accepted.          *)
Vouched(s, host, pin) ==
    IF pin \in Keys THEN accepted \cup {<<s, host, pin>>} ELSE accepted

(* ... and one is added.  A pin that comes with it the user vouches for.   *)
Insert(s, entry) ==
    /\ pc[s] = "counted"
    /\ row' = [row EXCEPT ![s] = entry]
    /\ accepted' = Vouched(s, entry.host, entry.pin)
    /\ logins' = logins \cup {<<s, entry.host, entry.secret>>}
    /\ pc' = [pc EXCEPT ![s] = "saved"]
    /\ UNCHANGED <<terminals, late, sent, raced>>

Chosen(value, old) == IF value = Same THEN old ELSE value

(* Fault: a pin stays with a server that moves.                            *)
PinStays(r, patch) == Chosen(patch.pin, r.pin)

(* A server that moves loses its pin, unless it is given one.              *)
NewPin(r, patch) ==
    IF patch.pin = Same /\ patch.host # Same THEN None ELSE Chosen(patch.pin, r.pin)

Patched(r, patch) ==
    [host |-> Chosen(patch.host, r.host), secret |-> Chosen(patch.secret, r.secret),
     pin |-> NewPin(r, patch)]

(* update(), with updateServer(): one statement, if there is such a row.   *)
Update(s, patch) ==
    /\ row' = IF row[s] = None THEN row ELSE [row EXCEPT ![s] = Patched(row[s], patch)]
    /\ logins' = IF row[s] = None THEN logins
                 ELSE logins \cup {<<s, row'[s].host, row'[s].secret>>}

(* The user edits a server.                                                *)
Edit(s, patch) ==
    /\ row[s] # None
    /\ Update(s, patch)
    /\ accepted' = Vouched(s, row'[s].host, patch.pin)
    /\ UNCHANGED <<pc, terminals, late, sent, raced>>

(* remove().                                                               *)
Remove(s) ==
    /\ row[s] # None
    /\ row' = [row EXCEPT ![s] = None]
    /\ UNCHANGED <<pc, terminals, history>>

-----------------------------------------------------------------------------
Goes(t, next) == stage' = [stage EXCEPT ![t] = next]

Reads(t, what) ==
    /\ target' = [target EXCEPT ![t] = what]
    /\ address' = [address EXCEPT ![t] = None] /\ key' = [key EXCEPT ![t] = None]
    /\ sent' = [sent EXCEPT ![t] = None]
    /\ Goes(t, "resolved")

(* Nothing is left of what the terminal knew.                              *)
Closes(t) ==
    /\ target' = [target EXCEPT ![t] = None]
    /\ address' = [address EXCEPT ![t] = None] /\ key' = [key EXCEPT ![t] = None]
    /\ sent' = [sent EXCEPT ![t] = None]
    /\ Goes(t, "closed")

AsTarget(s, r) == [server |-> s, host |-> r.host, secret |-> r.secret, pin |-> r.pin]

(* connect(), fromSavedServer(): all of the row in one statement.  The     *)
(* terminal is new, or connects again to the same server.                  *)
Connect(t, s) ==
    /\ stage[t] \in {"closed", "again"} /\ (stage[t] = "again" => s = target[t].server)
    /\ row[s] # None
    /\ Reads(t, AsTarget(s, row[s]))
    /\ UNCHANGED <<row, pc, logins, accepted, late, raced>>

(* connect(), fromRequestBody(): nothing is saved, nothing pinned.         *)
QuickConnect(t, entry) ==
    /\ stage[t] = "closed"
    /\ Reads(t, [server |-> None, host |-> entry.host, secret |-> entry.secret, pin |-> None])
    /\ logins' = logins \cup {<<None, entry.host, entry.secret>>}
    /\ UNCHANGED <<row, pc, accepted, late, raced>>

(* Fault: one good answer will do.                                         *)
SomeAcceptable(answers) == answers \ Blocked # {}

(* "one bad record is enough to refuse" (guard.ts:57).                     *)
Acceptable(answers) == answers # {} /\ answers \cap Blocked = {}

(* resolveTarget() and configure(): the address that was judged is the one *)
(* to dial.                                                                *)
Resolve(t, answers) ==
    /\ stage[t] = "resolved"
    /\ IF Acceptable(answers)
       THEN /\ \E a \in answers : address' = [address EXCEPT ![t] = a]
            /\ Goes(t, "open") /\ UNCHANGED <<target, key, sent>>
       ELSE Closes(t)
    /\ UNCHANGED <<row, pc, logins, accepted, late, raced>>

(* The handshake: the server presents k, which is pinned, or changed, or   *)
(* for the user to judge.                                                  *)
Present(t, k) ==
    /\ stage[t] = "open"
    /\ key' = [key EXCEPT ![t] = k]
    /\ Goes(t, IF target[t].pin = None THEN "asking"
               ELSE IF target[t].pin = k THEN "trusted" ELSE "mismatch")
    /\ UNCHANGED <<row, pc, target, address, history>>

Accept(t) ==
    /\ stage[t] = "asking"
    /\ accepted' = accepted \cup {<<target[t].server, target[t].host, key[t]>>}
    /\ Goes(t, "trusted")
    /\ UNCHANGED <<row, pc, target, address, key, logins, late, sent, raced>>

(* The credential goes out, and the server lets the user in.  If the key   *)
(* was not pinned the browser hears `hostkey-accepted'.                    *)
LogIn(t) ==
    /\ stage[t] = "trusted"
    /\ sent' = [sent EXCEPT ![t] =
                  [server |-> target[t].server, host |-> target[t].host,
                   secret |-> target[t].secret, key |-> key[t], address |-> address[t]]]
    /\ Goes(t, IF target[t].pin = None /\ target[t].server # None THEN "accepted" ELSE "up")
    /\ UNCHANGED <<row, pc, target, address, key, logins, accepted, late, raced>>

(* The browser's PATCH with the key the user accepted.                     *)
SavePin(t) ==
    LET s == target[t].server
    IN  /\ stage[t] = "accepted"
        /\ Update(s, [host |-> Same, secret |-> Same, pin |-> key[t]])
        /\ late' = IF row[s] # None /\ row[s].host # target[t].host
                   THEN late \cup {<<s, row[s].host, key[t]>>} ELSE late
        /\ Goes(t, "up")
        /\ UNCHANGED <<pc, target, address, key, accepted, sent, raced>>

(* forgetHostKey(): a PATCH that clears the pin, and a terminal anew.  If  *)
(* there is no such server any more the browser leaves it at a message.    *)
ForgetHostKey(t) ==
    LET s == target[t].server
    IN  /\ stage[t] = "mismatch" /\ row[s] # None
        /\ Update(s, [host |-> Same, secret |-> Same, pin |-> None])
        /\ Goes(t, "again")
        /\ UNCHANGED <<pc, target, address, key, accepted, late, sent, raced>>

(* A terminal ends, or a request of its browser is lost, at any point.     *)
End(t) ==
    /\ stage[t] # "closed"
    /\ Closes(t)
    /\ UNCHANGED <<row, pc, logins, accepted, late, raced>>

Next ==
    \/ \E s \in Ids :
        \/ Count(s) \/ Remove(s)
        \/ \E entry \in Entries : Insert(s, entry)
        \/ \E patch \in Edits : Edit(s, patch)
    \/ \E t \in Terminals :
        \/ \E s \in Ids : Connect(t, s)
        \/ \E entry \in Entries : QuickConnect(t, entry)
        \/ \E answers \in SUBSET Addresses : Resolve(t, answers)
        \/ \E k \in Keys : Present(t, k)
        \/ Accept(t) \/ LogIn(t) \/ SavePin(t) \/ ForgetHostKey(t) \/ End(t)

Spec == Init /\ [][Next]_vars

-----------------------------------------------------------------------------
(* A credential only goes where its owner sent it: to an address that the  *)
(* guard allows, for a host that it was once saved or typed together with, *)
(* however the server is edited meanwhile; and to a key that the user      *)
(* accepted for that host, or that a browser pinned late.                  *)
CredentialFits ==
    \A t \in Terminals : sent[t] # None =>
        /\ sent[t].address \notin Blocked
        /\ <<sent[t].server, sent[t].host, sent[t].secret>> \in logins
        /\ <<sent[t].server, sent[t].host, sent[t].key>> \in accepted \cup late

(* A pin is a key that the user accepted for the host it stands beside,    *)
(* unless a browser saved it when the server had already moved there.      *)
PinBelongs ==
    \A s \in Saved : row[s].pin # None =>
        <<s, row[s].host, row[s].pin>> \in accepted \cup late

(* As long as no two creations overlap, nobody saves too many.             *)
LimitKept == ~raced => Cardinality(Saved) <= MAX_SERVERS

-----------------------------------------------------------------------------
(* Claims of the repository that the code does not keep.                   *)

(* "Editing a server's host or port clears the pin, since the old          *)
(* fingerprint belonged to a different machine" (README.md:348): a pin is  *)
(* a key that the user accepted for the host beside it.  The browser's     *)
(* PATCH with an accepted key may come after such an edit.                 *)
PinOfItsHost ==
    \A s \in Saved : row[s].pin # None => <<s, row[s].host, row[s].pin>> \in accepted

(* "You can save at most ${MAX_SERVERS} servers" (api/servers.ts:53): two  *)
(* creations may both count one too few.                                   *)
LimitHeld == Cardinality(Saved) <= MAX_SERVERS
=============================================================================
