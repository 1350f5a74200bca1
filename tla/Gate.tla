-------------------------------- MODULE Gate --------------------------------
(***************************************************************************)
(* What stands before every request (src/src/index.ts) and before a login  *)
(* (src/src/api/auth.ts): requests from several addresses, interleaved at  *)
(* every call to a RateLimiter object, each object being what Limiter says *)
(* it is.  Guessers want one account; its owner wants to sign in.          *)
(*                                                                         *)
(* A slot is one request from its arrival until the strike that it leaves  *)
(* behind with waitUntil() has landed; a client that sends more uses more  *)
(* slots.                                                                  *)
(***************************************************************************)
EXTENDS LimiterKey, FiniteSets

CONSTANTS
    Addresses,
    Slots,              \* for requests that are under way at once
    HOME,               \* the owner's address, which others may share
    ROTATING,           \* stands for ever new addresses, each used for one request
    LOGIN,              \* rate-limit.ts:150-157, LIMITS.login.limit
    OVER, WRONG, PROBE, \* suspicion.ts:45-66, weights of 429, 401 and 403 or 404
    ASKED,              \* what guessers ask for
    MAX_REQUESTS,       \* bound of the model: what guessers send
    MAX_MISHAPS         \* bound of the model: handlers that throw, API budgets used up

Asks == {"read", "probe", "guess", "password"}

ASSUME GateAssumption ==
    /\ IsFiniteSet(Slots) /\ HOME \in Addresses \ ROTATING /\ ASKED \subseteq Asks \ {"password"}
    /\ LOGIN \in Nat /\ MAX_REQUESTS \in Nat /\ MAX_MISHAPS \in Nat
    /\ {OVER, WRONG, PROBE, THRESHOLD} \subseteq Nat \ {0}

VARIABLES
    ip,         \* the objects `ip:' of the addresses
    login,      \* the objects `login:'
    account,    \* the object `login:acct:'
    request,    \* of every slot
    signedIn,   \* the owner has a session
    sent,       \* requests of guessers
    mishaps,    \* handlers that threw, API budgets used up
    (* History, for the properties only.                                   *)
    guesses,    \* answered since the account's score was last clear, or a block ended
    ended       \* a block of the account has ended since its score was last clear

keys == <<ip, login, account>>
gateHistory == <<guesses, ended>>
gateVars == <<keys, request, signedIn, sent, mishaps, gateHistory>>

Steps == {"idle", "arrived", "gate", "lock", "count", "struck",
          "verify", "pardon", "scoring"}
Request == [step : Steps, address : Addresses, ask : Asks, weight : Nat]

GateTypeOK ==
    /\ ip \in [Addresses -> Key] /\ login \in [Addresses -> Key] /\ account \in Key
    /\ request \in [Slots -> Request]
    /\ signedIn \in BOOLEAN
    /\ sent \in Nat /\ mishaps \in Nat /\ guesses \in Nat /\ ended \in BOOLEAN

NoRequest == [step |-> "idle", address |-> HOME, ask |-> "read", weight |-> 0]

GateInit ==
    /\ ip = [a \in Addresses |-> Fresh] /\ login = ip /\ account = Fresh
    /\ request = [s \in Slots |-> NoRequest]
    /\ signedIn = FALSE /\ sent = 0 /\ mishaps = 0
    /\ guesses = 0 /\ ended = FALSE

-----------------------------------------------------------------------------
At(s, step) == request[s].step = step
Address(s) == request[s].address

(* An object of the address of a request, which nobody asks again if the   *)
(* address is not used again.                                              *)
Becomes(objects, s, key) ==
    IF Address(s) \in ROTATING THEN objects ELSE [objects EXCEPT ![Address(s)] = key]
GoesTo(s, step) == request' = [request EXCEPT ![s].step = step]

(* suspicionWeight(): what an answer says of the address it goes to.       *)
Suspicion(ask, status) ==
    CASE ask = "read" -> 0
      [] status = 429 -> OVER
      [] ask = "probe" /\ status = 404 -> PROBE
      [] ask \in {"guess", "password"} /\ status = 401 -> WRONG
      [] OTHER -> 0

(* The request is answered; a strike on its address may be left to do.     *)
Scored(s, weight) ==
    request' = [request EXCEPT ![s] = IF weight = 0 THEN NoRequest
                                      ELSE [@ EXCEPT !.step = "scoring", !.weight = weight]]

Answer(s, status) == Scored(s, Suspicion(request[s].ask, status))

-----------------------------------------------------------------------------
(* A request of a guesser arrives, from any address.  The model ends with  *)
(* the owner's success, which leaves the account as it was in the          *)
(* beginning.                                                              *)
Send(s, address, ask) ==
    /\ At(s, "idle") /\ ~signedIn /\ sent < MAX_REQUESTS
    /\ request' = [request EXCEPT ![s] =
           [step |-> "arrived", address |-> address, ask |-> ask, weight |-> 0]]
    /\ sent' = sent + 1
    /\ UNCHANGED <<keys, signedIn, mishaps, gateHistory>>

(* The owner tries, and once that is answered tries again.                 *)
OwnerTries(s) ==
    /\ At(s, "idle") /\ ~signedIn
    /\ \A other \in Slots : At(other, "idle") \/ request[other].ask # "password"
    /\ request' = [request EXCEPT ![s] =
           [step |-> "arrived", address |-> HOME, ask |-> "password", weight |-> 0]]
    /\ UNCHANGED <<keys, signedIn, sent, mishaps, gateHistory>>

(* A blocked address is refused, and not scored for it.  The budget of the *)
(* whole API, which other requests of the address share, not in the model, *)
(* may be used up, which is scored.  A handler other than login() asks no  *)
(* object that is in the model.                                            *)
CheckAddress(s) ==
    /\ At(s, "arrived")
    /\ IF Blocked(ip[Address(s)]) THEN Scored(s, 0) /\ UNCHANGED mishaps
       ELSE \/ /\ mishaps < MAX_MISHAPS /\ mishaps' = mishaps + 1
               /\ Scored(s, OVER)
            \/ /\ CASE request[s].ask = "read" -> Answer(s, 200)
                    [] request[s].ask = "probe" -> Answer(s, 404)
                    [] OTHER -> GoesTo(s, "gate")
               /\ UNCHANGED mishaps
    /\ UNCHANGED <<keys, signedIn, sent, gateHistory>>

-----------------------------------------------------------------------------
(* login(): the logins of the address.                                     *)
SpendLogin(s) ==
    /\ At(s, "gate")
    /\ LET key == HitBy(login[Address(s)], LOGIN)
       IN  /\ login' = Becomes(login, s, key)
           /\ IF WithinLimit(key, LOGIN) THEN GoesTo(s, "lock") ELSE Answer(s, 429)
    /\ UNCHANGED <<ip, account, signedIn, sent, mishaps, gateHistory>>

(* A strike on the account is on record before the answer that it is for.  *)
StruckAccount(weight) == Struck(account, weight)

(* Fault: nobody looks whether the account is blocked.                     *)
LockedNever == FALSE

Locked == Blocked(account)

(* A blocked account is refused to everybody.                              *)
CheckAccount(s) ==
    /\ At(s, "lock")
    /\ IF Locked THEN Answer(s, 429) ELSE GoesTo(s, "count")
    /\ UNCHANGED <<keys, signedIn, sent, mishaps, gateHistory>>

(* The logins of the account, from wherever they come.                     *)
SpendAccount(s) ==
    /\ At(s, "count")
    /\ account' = HitBy(account, LOGIN)
    /\ GoesTo(s, IF WithinLimit(account', LOGIN) THEN "verify" ELSE "struck")
    /\ UNCHANGED <<ip, login, signedIn, sent, mishaps, gateHistory>>

(* One login too many is a strike on the account, before the answer.       *)
StrikeOver(s) ==
    /\ At(s, "struck")
    /\ account' = StruckAccount(OVER)
    /\ Answer(s, 429)
    /\ UNCHANGED <<ip, login, signedIn, sent, mishaps, gateHistory>>

(* A wrong password is a strike on the account, before the answer.         *)
StrikeWrong(s) ==
    /\ At(s, "verify") /\ request[s].ask = "guess"
    /\ account' = StruckAccount(WRONG)
    /\ Answer(s, 401)
    /\ guesses' = guesses + 1
    /\ UNCHANGED <<ip, login, signedIn, sent, mishaps, ended>>

(* A right one starts a session, empties the window of the account ...     *)
ResetAccount(s) ==
    /\ At(s, "verify") /\ request[s].ask = "password"
    /\ account' = Emptied(account)
    /\ GoesTo(s, "pardon")
    /\ UNCHANGED <<ip, login, signedIn, sent, mishaps, gateHistory>>

(* ... and clears its score.                                               *)
PardonAccount(s) ==
    /\ At(s, "pardon")
    /\ account' = Pardoned(account)
    /\ guesses' = 0 /\ ended' = FALSE
    /\ Answer(s, 200)
    /\ signedIn' = TRUE
    /\ UNCHANGED <<ip, login, sent, mishaps>>

(* A handler throws: 500, which no weight is given to.  So is a wrong      *)
(* password answered whose strike on the account threw: its answer does    *)
(* not say that the password was wrong, and it is not counted as a guess.  *)
Fails(s) ==
    /\ mishaps < MAX_MISHAPS
    /\ request[s].step \notin {"idle", "arrived", "scoring"}
    /\ Answer(s, 500)
    /\ mishaps' = mishaps + 1
    /\ UNCHANGED <<keys, signedIn, sent, gateHistory>>

-----------------------------------------------------------------------------
(* The strike that an answer left behind lands on the address.             *)
StrikeAddress(s) ==
    /\ At(s, "scoring")
    /\ ip' = Becomes(ip, s, Struck(ip[Address(s)], request[s].weight))
    /\ request' = [request EXCEPT ![s] = NoRequest]
    /\ UNCHANGED <<login, account, signedIn, sent, mishaps, gateHistory>>

-----------------------------------------------------------------------------
(* Time: windows and blocks end, and scores are forgotten.                 *)
LoginWindowEnds(a) ==
    /\ login[a].hits > 0 /\ login' = [login EXCEPT ![a] = Emptied(@)]
    /\ UNCHANGED <<ip, account, request, signedIn, sent, mishaps, gateHistory>>

AccountWindowEnds ==
    /\ account.hits > 0 /\ account' = Emptied(account)
    /\ UNCHANGED <<ip, login, request, signedIn, sent, mishaps, gateHistory>>

BlockEnds(a) ==
    /\ ip[a].blocked /\ ip' = [ip EXCEPT ![a] = Released(@)]
    /\ UNCHANGED <<login, account, request, signedIn, sent, mishaps, gateHistory>>

AccountBlockEnds ==
    /\ account.blocked /\ account' = Released(account)
    /\ guesses' = 0 /\ ended' = TRUE
    /\ UNCHANGED <<ip, login, request, signedIn, sent, mishaps>>

ScoreForgotten(a) ==
    /\ ip[a].score > 0 /\ ~ip[a].blocked /\ ip' = [ip EXCEPT ![a] = Forgotten(@)]
    /\ UNCHANGED <<login, account, request, signedIn, sent, mishaps, gateHistory>>

AccountForgotten ==
    /\ account.score > 0 /\ ~account.blocked /\ account' = Forgotten(account)
    /\ guesses' = 0 /\ ended' = FALSE
    /\ UNCHANGED <<ip, login, request, signedIn, sent, mishaps>>

-----------------------------------------------------------------------------
(* What the Worker does next for a request.                                *)
Goes(s) ==
    \/ CheckAddress(s) \/ SpendLogin(s) \/ CheckAccount(s)
    \/ SpendAccount(s) \/ StrikeOver(s) \/ StrikeWrong(s) \/ ResetAccount(s)
    \/ PardonAccount(s) \/ StrikeAddress(s)

Passes(a) == LoginWindowEnds(a) \/ BlockEnds(a)

GateNext ==
    \/ \E s \in Slots, a \in Addresses, ask \in ASKED : Send(s, a, ask)
    \/ \E s \in Slots : OwnerTries(s) \/ Goes(s) \/ Fails(s)
    \/ \E a \in Addresses : Passes(a) \/ ScoreForgotten(a)
    \/ AccountWindowEnds \/ AccountBlockEnds \/ AccountForgotten

GateSpec == GateInit /\ [][GateNext]_gateVars

(* Requests go on, windows and blocks end, and the owner keeps trying.     *)
(* Nothing says that a score is ever forgotten.                            *)
GateFairSpec ==
    /\ GateSpec
    /\ \A s \in Slots : WF_gateVars(Goes(s))
    /\ \A a \in Addresses :
           WF_gateVars(LoginWindowEnds(a)) /\ WF_gateVars(BlockEnds(a))
    /\ WF_gateVars(AccountWindowEnds) /\ WF_gateVars(AccountBlockEnds)
    /\ WF_gateVars(\E s \in Slots : OwnerTries(s))

-----------------------------------------------------------------------------
(* Wrong passwords that are answered before the first one blocks, if they  *)
(* come one at a time.                                                     *)
Free == (THRESHOLD - 1) \div WRONG

AtOnce == Cardinality(Slots)

(* However many addresses the guesses come from, and through windows that  *)
(* end and handlers that fail: an account answers those few, and those     *)
(* under way at once; and from then on, after each block that ends, no     *)
(* more than were under way at once, until its owner signs in or its score *)
(* is forgotten.                                                           *)
AccountBounded == guesses <= AtOnce + IF ended THEN 0 ELSE Free

(* Whatever the guessers did before they stopped, to the account and to    *)
(* the address they share with its owner, and although refusals of the     *)
(* owner are scored as well: an owner who keeps trying gets in.            *)
OwnerGetsIn == <>signedIn
=============================================================================
