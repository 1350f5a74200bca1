------------------------- MODULE SshSession_proofs -------------------------
(***************************************************************************)
(* Proofs about SshSession, for every set of keys, accounts and requests   *)
(* and every choice of the delays.                                         *)
(***************************************************************************)
EXTENDS SshSession, TLAPS

(* Nobody has opened the terminal yet.                                     *)
Untouched ==
    /\ conn = "none" /\ hs = "none" /\ ws = "none" /\ prompt = "none"
    /\ ~socket /\ sentTo = {}

LetIn(r) == pc[r] \in {"claimed", "open"}

(* A session starts with configure() and, as far as the server and the     *)
(* browser are concerned, with the one request that gets through.          *)
StartInv ==
    /\ ~ticket => /\ params = "none" /\ ~torndown /\ closing = "no"
                  /\ alarm = NoTimer
                  /\ \A r \in Reqs : pc[r] = "start"
    /\ \A r \in Reqs : pc[r] = "claimed" => Untouched
    /\ (\A r \in Reqs : ~LetIn(r)) => Untouched
    /\ (\E r \in Reqs : LetIn(r)) /\ ~claimed => params = "none" /\ conn = "none"

(* How the teardown flags relate.                                          *)
TeardownInv ==
    /\ torndown <=> closing # "no"
    /\ closing = "sending" => conn \in {"up", "over"}
    /\ torndown /\ conn = "none" => params = "none"
    /\ ~torndown /\ conn \notin {"none", "over"} => socket

(* The handshake coroutine, its timers and its prompt.                     *)
HandshakeInv ==
    /\ handshakeTimer # NoTimer => conn = "handshake"
    /\ promptTimer # NoTimer <=> hs = "asking"
    /\ hs = "asking" => pinned = NoKey
    /\ hs \in {"asking", "secure"} => hostKey \in Keys
    /\ hs = "secure" => IF pinned = NoKey THEN hostKey \in accepted
                                          ELSE hostKey = pinned
    /\ hs \in {"kex", "asking", "secure", "auth"} /\ ~zeroed => conn = "handshake"
    /\ prompt = "shown" /\ Listening => hostKey \in Keys

IndInv ==
    /\ TypeOK
    /\ StartInv /\ TeardownInv /\ HandshakeInv
    /\ OneTerminal /\ CredentialGuarded /\ HeldIsWatched /\ TornDownIsOver

USE DelaysAssumption, KeysAssumption

-----------------------------------------------------------------------------
(* The type invariant, one group of variables at a time.                   *)

(* What configure() set up keeps its type.                                 *)
LEMMA ObjTypeStep ==
  ASSUME TypeOK, [Next]_vars
  PROVE  ObjTypeOK'
<1> USE DEF TypeOK, ObjTypeOK, TermTypeOK, ConnTypeOK, EnvTypeOK, NoTimer,
       objVars, termVars, connVars, envVars, histVars
<1>1. ASSUME NEW pin \in Keys \cup {NoKey}, Configure(pin)  PROVE ObjTypeOK'
  BY <1>1 DEF Configure
<1>2. ASSUME NEW r \in Reqs, NEW u \in Users, Claim(r, u)  PROVE ObjTypeOK'
  BY <1>2 DEF Claim, Teardown
<1>3. ASSUME NEW r \in Reqs, Open(r)  PROVE ObjTypeOK'
  BY <1>3 DEF Open
<1>4. ASSUME ShellReady  PROVE ObjTypeOK'
  BY <1>4 DEF ShellReady
<1>5. ASSUME ConnectFailed  PROVE ObjTypeOK'
  BY <1>5 DEF ConnectFailed, Teardown, BrowserReleased
<1>6. ASSUME ServerCloses  PROVE ObjTypeOK'
  BY <1>6 DEF ServerCloses, Teardown, BrowserReleased
<1>7. ASSUME TeardownFinishes  PROVE ObjTypeOK'
  BY <1>7 DEF TeardownFinishes, Finish, BrowserReleased
<1>8. ASSUME BrowserGone  PROVE ObjTypeOK'
  BY <1>8 DEF BrowserGone, Teardown
<1>9. ASSUME Alarm  PROVE ObjTypeOK'
  BY <1>9 DEF Alarm, Teardown, BrowserReleased, Rearmed
<1>10. ASSUME Tick  PROVE ObjTypeOK'
  BY <1>10 DEF Tick, Older, Down
<1>11. ASSUME Restart  PROVE ObjTypeOK'
  <2>1. alarm' \in Nat \cup {NoTimer}
    BY <1>11 DEF Restart
  <2>2. unclaimedAge' \in 0..(UNCLAIMED_TTL + 1)
    BY <1>11 DEF Restart
  <2>3. ticket' \in BOOLEAN /\ claimed' \in BOOLEAN
    BY <1>11 DEF Restart
  <2>4. params' \in {"none", "full", "scrubbed"} /\ pinned' \in Keys \cup {NoKey}
    BY <1>11 DEF Restart
  <2> QED
    BY <2>1, <2>2, <2>3, <2>4
<1>12. CASE UNCHANGED objVars
  BY <1>12
<1> QED
  BY <1>1, <1>2, <1>3, <1>4, <1>5, <1>6, <1>7, <1>8, <1>9, <1>10, <1>11,
         <1>12 DEF Next, Server, vars, PresentKey, PromptTimeout,
         SendCredential, Authenticated, HandshakeError, HandshakeTimeout,
         ShellFails, Output, Input, Answer, BrowserLeaves

(* The state of the open terminal keeps its type.                          *)
LEMMA TermTypeStep ==
  ASSUME TypeOK, [Next]_vars
  PROVE  TermTypeOK'
<1> USE DEF TypeOK, ObjTypeOK, TermTypeOK, ConnTypeOK, EnvTypeOK, NoTimer,
       objVars, termVars, connVars, envVars, histVars
<1>1. ASSUME NEW r \in Reqs, NEW u \in Users, Claim(r, u)  PROVE TermTypeOK'
  BY <1>1 DEF Claim, Teardown
<1>2. ASSUME NEW r \in Reqs, Open(r)  PROVE TermTypeOK'
  <2>1. socket' \in BOOLEAN /\ torndown' \in BOOLEAN /\ ssh' \in BOOLEAN
    BY <1>2 DEF Open
  <2>2. idleAge' \in 0..(IDLE_TIMEOUT + 1)
    BY <1>2 DEF Open
  <2>3. sessionAge' \in 0..(MAX_SESSION + 1)
    BY <1>2 DEF Open
  <2>4. closing' \in {"no", "sending", "done"}
    BY <1>2 DEF Open
  <2> QED
    BY <2>1, <2>2, <2>3, <2>4
<1>3. ASSUME ShellReady  PROVE TermTypeOK'
  BY <1>3 DEF ShellReady
<1>4. ASSUME ConnectFailed  PROVE TermTypeOK'
  BY <1>4 DEF ConnectFailed, Teardown, BrowserReleased
<1>5. ASSUME ServerCloses  PROVE TermTypeOK'
  BY <1>5 DEF ServerCloses, Teardown, BrowserReleased
<1>6. ASSUME TeardownFinishes  PROVE TermTypeOK'
  BY <1>6 DEF TeardownFinishes, Finish, BrowserReleased
<1>7. ASSUME Output  PROVE TermTypeOK'
  BY <1>7 DEF Output
<1>8. ASSUME Input  PROVE TermTypeOK'
  BY <1>8 DEF Input
<1>9. ASSUME NEW accept \in BOOLEAN, Answer(accept)  PROVE TermTypeOK'
  BY <1>9 DEF Answer, KeyStands, HandshakeFails, CanSend
<1>10. ASSUME BrowserGone  PROVE TermTypeOK'
  BY <1>10 DEF BrowserGone, Teardown
<1>11. ASSUME Alarm  PROVE TermTypeOK'
  BY <1>11 DEF Alarm, Teardown, BrowserReleased, Rearmed
<1>12. ASSUME Tick  PROVE TermTypeOK'
  BY <1>12 DEF Tick, Older, Down
<1>13. ASSUME Restart  PROVE TermTypeOK'
  <2>1. socket' \in BOOLEAN /\ torndown' \in BOOLEAN /\ ssh' \in BOOLEAN
    BY <1>13 DEF Restart
  <2>2. idleAge' \in 0..(IDLE_TIMEOUT + 1)
    BY <1>13 DEF Restart
  <2>3. sessionAge' \in 0..(MAX_SESSION + 1)
    BY <1>13 DEF Restart
  <2>4. closing' \in {"no", "sending", "done"}
    BY <1>13 DEF Restart
  <2> QED
    BY <2>1, <2>2, <2>3, <2>4
<1>14. CASE UNCHANGED termVars
  BY <1>14
<1> QED
  BY <1>1, <1>2, <1>3, <1>4, <1>5, <1>6, <1>7, <1>8, <1>9, <1>10, <1>11,
         <1>12, <1>13, <1>14 DEF Next, Server, vars, Configure, PresentKey,
         PromptTimeout, SendCredential, Authenticated, HandshakeError,
         HandshakeTimeout, ShellFails, BrowserLeaves

(* The state of connect() and of its handshake keeps its type.             *)
LEMMA ConnTypeStep ==
  ASSUME TypeOK, [Next]_vars
  PROVE  ConnTypeOK'
<1> USE DEF TypeOK, ObjTypeOK, TermTypeOK, ConnTypeOK, EnvTypeOK, NoTimer,
       objVars, termVars, connVars, envVars, histVars
<1>1. ASSUME NEW r \in Reqs, NEW u \in Users, Claim(r, u)  PROVE ConnTypeOK'
  BY <1>1 DEF Claim, Teardown
<1>2. ASSUME NEW r \in Reqs, Open(r)  PROVE ConnTypeOK'
  <2>1. conn' \in {"none", "handshake", "closing", "shell", "up", "over"}
    BY <1>2 DEF Open
  <2>2. hs' \in {"none", "kex", "asking", "secure", "auth", "ok", "failed"}
    BY <1>2 DEF Open
  <2>3. handshakeTimer' \in 0..HANDSHAKE_TIMEOUT \cup {NoTimer}
    BY <1>2 DEF Open
  <2>4. hostKey' \in Keys \cup {NoKey}
    BY <1>2 DEF Open
  <2>5. promptTimer' \in 0..HOSTKEY_TIMEOUT \cup {NoTimer}
    BY <1>2 DEF Open
  <2>6. zeroed' \in BOOLEAN /\ tcp' \in {"none", "open", "closed"}
    BY <1>2 DEF Open
  <2> QED
    BY <2>1, <2>2, <2>3, <2>4, <2>5, <2>6
<1>3. ASSUME NEW k \in Keys, PresentKey(k)  PROVE ConnTypeOK'
  <2>1. conn' \in {"none", "handshake", "closing", "shell", "up", "over"}
    BY <1>3 DEF PresentKey, KeyStands, HandshakeFails, CanSend
  <2>2. hs' \in {"none", "kex", "asking", "secure", "auth", "ok", "failed"}
    BY <1>3 DEF PresentKey, KeyStands, HandshakeFails, CanSend
  <2>3. handshakeTimer' \in 0..HANDSHAKE_TIMEOUT \cup {NoTimer}
    BY <1>3 DEF PresentKey, KeyStands, HandshakeFails, CanSend
  <2>4. hostKey' \in Keys \cup {NoKey}
    BY <1>3 DEF PresentKey, KeyStands, HandshakeFails, CanSend
  <2>5. promptTimer' \in 0..HOSTKEY_TIMEOUT \cup {NoTimer}
    BY <1>3 DEF PresentKey, KeyStands, HandshakeFails, CanSend
  <2>6. zeroed' \in BOOLEAN /\ tcp' \in {"none", "open", "closed"}
    BY <1>3 DEF PresentKey, KeyStands, HandshakeFails, CanSend
  <2> QED
    BY <2>1, <2>2, <2>3, <2>4, <2>5, <2>6
<1>4. ASSUME PromptTimeout  PROVE ConnTypeOK'
  BY <1>4 DEF PromptTimeout, HandshakeFails
<1>5. ASSUME SendCredential  PROVE ConnTypeOK'
  BY <1>5 DEF SendCredential, HandshakeFails, CanSend
<1>6. ASSUME Authenticated  PROVE ConnTypeOK'
  BY <1>6 DEF Authenticated
<1>7. ASSUME HandshakeError  PROVE ConnTypeOK'
  BY <1>7 DEF HandshakeError, HandshakeFails
<1>8. ASSUME HandshakeTimeout  PROVE ConnTypeOK'
  BY <1>8 DEF HandshakeTimeout
<1>9. ASSUME ShellFails  PROVE ConnTypeOK'
  BY <1>9 DEF ShellFails
<1>10. ASSUME ShellReady  PROVE ConnTypeOK'
  BY <1>10 DEF ShellReady
<1>11. ASSUME ConnectFailed  PROVE ConnTypeOK'
  BY <1>11 DEF ConnectFailed, Teardown, BrowserReleased
<1>12. ASSUME ServerCloses  PROVE ConnTypeOK'
  BY <1>12 DEF ServerCloses, Teardown, BrowserReleased
<1>13. ASSUME TeardownFinishes  PROVE ConnTypeOK'
  BY <1>13 DEF TeardownFinishes, Finish, BrowserReleased
<1>14. ASSUME NEW accept \in BOOLEAN, Answer(accept)  PROVE ConnTypeOK'
  BY <1>14 DEF Answer, KeyStands, HandshakeFails, CanSend
<1>15. ASSUME BrowserGone  PROVE ConnTypeOK'
  BY <1>15 DEF BrowserGone, Teardown
<1>16. ASSUME Alarm  PROVE ConnTypeOK'
  BY <1>16 DEF Alarm, Teardown, BrowserReleased, Rearmed
<1>17. ASSUME Tick  PROVE ConnTypeOK'
  BY <1>17 DEF Tick, Older, Down
<1>18. ASSUME Restart  PROVE ConnTypeOK'
  <2>1. conn' \in {"none", "handshake", "closing", "shell", "up", "over"}
    BY <1>18 DEF Restart
  <2>2. hs' \in {"none", "kex", "asking", "secure", "auth", "ok", "failed"}
    BY <1>18 DEF Restart
  <2>3. handshakeTimer' \in 0..HANDSHAKE_TIMEOUT \cup {NoTimer}
    BY <1>18 DEF Restart
  <2>4. hostKey' \in Keys \cup {NoKey}
    BY <1>18 DEF Restart
  <2>5. promptTimer' \in 0..HOSTKEY_TIMEOUT \cup {NoTimer}
    BY <1>18 DEF Restart
  <2>6. zeroed' \in BOOLEAN /\ tcp' \in {"none", "open", "closed"}
    BY <1>18 DEF Restart
  <2> QED
    BY <2>1, <2>2, <2>3, <2>4, <2>5, <2>6
<1>19. CASE UNCHANGED connVars
  BY <1>19
<1> QED
  BY <1>1, <1>2, <1>3, <1>4, <1>5, <1>6, <1>7, <1>8, <1>9, <1>10, <1>11,
         <1>12, <1>13, <1>14, <1>15, <1>16, <1>17, <1>18, <1>19 DEF Next,
         Server, vars, Configure, Output, Input, BrowserLeaves

(* The environment and the history keep their type: the key a handshake    *)
(* sends the credential to, or a user accepts, is a host key.              *)
LEMMA EnvTypeStep ==
  ASSUME TypeOK, HandshakeInv, [Next]_vars
  PROVE  EnvTypeOK'
<1> USE DEF TypeOK, ObjTypeOK, TermTypeOK, ConnTypeOK, EnvTypeOK, NoTimer,
       objVars, termVars, connVars, envVars, histVars
<1>1. ASSUME NEW r \in Reqs, NEW u \in Users, Claim(r, u)  PROVE EnvTypeOK'
  BY <1>1 DEF Claim, Teardown
<1>2. ASSUME NEW r \in Reqs, Open(r)  PROVE EnvTypeOK'
  BY <1>2 DEF Open
<1>3. ASSUME NEW k \in Keys, PresentKey(k)  PROVE EnvTypeOK'
  BY <1>3 DEF PresentKey, KeyStands, HandshakeFails, CanSend
<1>4. ASSUME SendCredential  PROVE EnvTypeOK'
  BY <1>4 DEF SendCredential, HandshakeFails, CanSend, HandshakeInv
<1>5. ASSUME ConnectFailed  PROVE EnvTypeOK'
  BY <1>5 DEF ConnectFailed, Teardown, BrowserReleased
<1>6. ASSUME ServerCloses  PROVE EnvTypeOK'
  BY <1>6 DEF ServerCloses, Teardown, BrowserReleased
<1>7. ASSUME TeardownFinishes  PROVE EnvTypeOK'
  BY <1>7 DEF TeardownFinishes, Finish, BrowserReleased
<1>8. ASSUME NEW accept \in BOOLEAN, Answer(accept)  PROVE EnvTypeOK'
  BY <1>8 DEF Answer, KeyStands, HandshakeFails, CanSend, HandshakeInv,
         Listening
<1>9. ASSUME BrowserLeaves  PROVE EnvTypeOK'
  BY <1>9 DEF BrowserLeaves
<1>10. ASSUME BrowserGone  PROVE EnvTypeOK'
  BY <1>10 DEF BrowserGone, Teardown
<1>11. ASSUME Alarm  PROVE EnvTypeOK'
  BY <1>11 DEF Alarm, Teardown, BrowserReleased, Rearmed
<1>12. ASSUME Restart  PROVE EnvTypeOK'
  BY <1>12 DEF Restart
<1>13. CASE UNCHANGED <<envVars, histVars>>
  BY <1>13
<1> QED
  BY <1>1, <1>2, <1>3, <1>4, <1>5, <1>6, <1>7, <1>8, <1>9, <1>10, <1>11,
         <1>12, <1>13 DEF Next, Server, vars, Configure, PromptTimeout,
         Authenticated, HandshakeError, HandshakeTimeout, ShellFails,
         ShellReady, Output, Input, Tick

-----------------------------------------------------------------------------
(* The other conjuncts.                                                    *)

(* Untouched until one request is let in; inert after a restart.           *)
LEMMA StartStep ==
  ASSUME TypeOK, StartInv, TeardownInv, HandshakeInv, OneTerminal, [Next]_vars
  PROVE  StartInv'
<1> USE DEF TypeOK, ObjTypeOK, TermTypeOK, ConnTypeOK, EnvTypeOK, NoTimer,
       objVars, termVars, connVars, envVars, histVars, Untouched, LetIn,
       StartInv, TeardownInv, HandshakeInv, Listening, OneTerminal
<1>1. ASSUME NEW pin \in Keys \cup {NoKey}, Configure(pin)  PROVE StartInv'
  BY <1>1 DEF Configure
<1>2. ASSUME NEW r \in Reqs, NEW u \in Users, Claim(r, u)  PROVE StartInv'
  <2>1. CASE ClaimRefused(u)
    BY <1>2, <2>1 DEF Claim
  <2>2. CASE ~ClaimRefused(u) /\ unclaimedAge > UNCLAIMED_TTL
    <3>1. \A q \in Reqs : ~LetIn(q)
      BY <2>2 DEF ClaimRefused
    <3>2. Untouched
      BY <3>1
    <3> QED
      BY <1>2, <2>2, <3>1, <3>2 DEF Claim, Teardown
  <2>3. CASE ~ClaimRefused(u) /\ ~(unclaimedAge > UNCLAIMED_TTL)
    <3>1. \A q \in Reqs : ~LetIn(q)
      BY <2>3 DEF ClaimRefused
    <3>2. Untouched
      BY <3>1
    <3> QED
      BY <1>2, <2>3, <3>1, <3>2 DEF Claim
  <2> QED
    BY <2>1, <2>2, <2>3
<1>3. ASSUME NEW r \in Reqs, Open(r)  PROVE StartInv'
  BY <1>3 DEF Open, OpenRefused
<1>4. ASSUME NEW k \in Keys, PresentKey(k)  PROVE StartInv'
  BY <1>4 DEF PresentKey, KeyStands, HandshakeFails, CanSend
<1>5. ASSUME PromptTimeout  PROVE StartInv'
  BY <1>5 DEF PromptTimeout, HandshakeFails
<1>6. ASSUME SendCredential  PROVE StartInv'
  BY <1>6 DEF SendCredential, HandshakeFails, CanSend
<1>7. ASSUME Authenticated  PROVE StartInv'
  BY <1>7 DEF Authenticated
<1>8. ASSUME HandshakeError  PROVE StartInv'
  BY <1>8 DEF HandshakeError, HandshakeFails
<1>9. ASSUME HandshakeTimeout  PROVE StartInv'
  BY <1>9 DEF HandshakeTimeout
<1>10. ASSUME ShellFails  PROVE StartInv'
  BY <1>10 DEF ShellFails
<1>11. ASSUME ShellReady  PROVE StartInv'
  BY <1>11 DEF ShellReady
<1>12. ASSUME ConnectFailed  PROVE StartInv'
  BY <1>12 DEF ConnectFailed, Teardown, BrowserReleased
<1>13. ASSUME ServerCloses  PROVE StartInv'
  BY <1>13 DEF ServerCloses, Teardown, BrowserReleased
<1>14. ASSUME TeardownFinishes  PROVE StartInv'
  BY <1>14 DEF TeardownFinishes, Finish, BrowserReleased
<1>15. ASSUME NEW accept \in BOOLEAN, Answer(accept)  PROVE StartInv'
  BY <1>15 DEF Answer, KeyStands, HandshakeFails, CanSend
<1>16. ASSUME BrowserLeaves  PROVE StartInv'
  BY <1>16 DEF BrowserLeaves
<1>17. ASSUME BrowserGone  PROVE StartInv'
  BY <1>17 DEF BrowserGone, Teardown
<1>18. ASSUME Alarm  PROVE StartInv'
  <2>1. CASE torndown' = torndown
    BY <1>18, <2>1 DEF Alarm, Teardown, Rearmed
  <2>2. CASE torndown' # torndown
    <3>1. /\ torndown' /\ params' = "none" /\ closing' # "no" /\ pc' = pc
          /\ ticket' = ticket /\ claimed' = claimed /\ prompt' = prompt
          /\ sentTo' = sentTo /\ ticket
      BY <1>18, <2>2 DEF Alarm, Teardown
    <3>2. conn = "none" => conn' = "none"
      BY <1>18, <2>2 DEF Alarm, Teardown
    <3>3. Untouched => Untouched'
      BY <1>18, <2>2, <3>1, <3>2 DEF Alarm, Teardown, BrowserReleased
    <3> QED
      BY <3>1, <3>2, <3>3
  <2> QED
    BY <2>1, <2>2
<1>19. ASSUME Tick  PROVE StartInv'
  BY <1>19 DEF Tick, Older, Down
<1>20. ASSUME Restart  PROVE StartInv'
  BY <1>20 DEF Restart
<1>21. CASE UNCHANGED <<ticket, params, claimed, alarm, pc, conn, hs, ws, prompt,
                     socket, torndown, closing, sentTo>>
  BY <1>21
<1> QED
  BY <1>1, <1>2, <1>3, <1>4, <1>5, <1>6, <1>7, <1>8, <1>9, <1>10, <1>11,
         <1>12, <1>13, <1>14, <1>15, <1>16, <1>17, <1>18, <1>19, <1>20,
         <1>21 DEF Next, Server, vars, Output, Input

(* claimed, or after a restart the lack of parameters, keeps a second      *)
(* request out.                                                            *)
LEMMA OneTerminalStep ==
  ASSUME TypeOK, StartInv, OneTerminal, [Next]_vars
  PROVE  OneTerminal'
<1> USE DEF TypeOK, ObjTypeOK, TermTypeOK, ConnTypeOK, EnvTypeOK, NoTimer,
       objVars, termVars, connVars, envVars, histVars, Untouched, LetIn,
       StartInv, OneTerminal
<1>1. ASSUME NEW r \in Reqs, NEW u \in Users, Claim(r, u)  PROVE OneTerminal'
  <2>1. CASE ClaimRefused(u)
    BY <1>1, <2>1 DEF Claim
  <2>2. CASE ~ClaimRefused(u) /\ unclaimedAge > UNCLAIMED_TTL
    <3>1. \A q \in Reqs : ~LetIn(q)
      BY <2>2 DEF ClaimRefused
    <3>2. Untouched
      BY <3>1
    <3> QED
      BY <1>1, <2>2, <3>1, <3>2 DEF Claim, Teardown
  <2>3. CASE ~ClaimRefused(u) /\ ~(unclaimedAge > UNCLAIMED_TTL)
    <3>1. \A q \in Reqs : ~LetIn(q)
      BY <2>3 DEF ClaimRefused
    <3>2. Untouched
      BY <3>1
    <3> QED
      BY <1>1, <2>3, <3>1, <3>2 DEF Claim
  <2> QED
    BY <2>1, <2>2, <2>3
<1>2. ASSUME NEW r \in Reqs, Open(r)  PROVE OneTerminal'
  <2>1. pc[r] = "claimed" /\ \A q \in Reqs : q # r => pc'[q] = pc[q]
    BY <1>2 DEF Open
  <2> QED
    BY <1>2, <2>1
<1>3. CASE UNCHANGED pc
  BY <1>3
<1> QED
  BY <1>1, <1>2, <1>3 DEF Next, Server, vars, Configure, PresentKey,
         PromptTimeout, SendCredential, Authenticated, HandshakeError,
         HandshakeTimeout, ShellFails, ShellReady, ConnectFailed,
         ServerCloses, TeardownFinishes, Output, Input, Answer,
         BrowserLeaves, BrowserGone, Alarm, Tick, Restart

(* The flags of a teardown stay in step with each other.                   *)
LEMMA TeardownStep ==
  ASSUME TypeOK, StartInv, TeardownInv, HandshakeInv, [Next]_vars
  PROVE  TeardownInv'
<1> USE DEF TypeOK, ObjTypeOK, TermTypeOK, ConnTypeOK, EnvTypeOK, NoTimer,
       objVars, termVars, connVars, envVars, histVars, Untouched, LetIn,
       StartInv, TeardownInv, HandshakeInv
<1>1. ASSUME NEW pin \in Keys \cup {NoKey}, Configure(pin)  PROVE TeardownInv'
  BY <1>1 DEF Configure
<1>2. ASSUME NEW r \in Reqs, NEW u \in Users, Claim(r, u)  PROVE TeardownInv'
  BY <1>2 DEF Claim, Teardown, ClaimRefused
<1>3. ASSUME NEW r \in Reqs, Open(r)  PROVE TeardownInv'
  BY <1>3 DEF Open, OpenRefused
<1>4. ASSUME NEW k \in Keys, PresentKey(k)  PROVE TeardownInv'
  BY <1>4 DEF PresentKey, KeyStands, HandshakeFails, CanSend
<1>5. ASSUME PromptTimeout  PROVE TeardownInv'
  BY <1>5 DEF PromptTimeout, HandshakeFails
<1>6. ASSUME SendCredential  PROVE TeardownInv'
  BY <1>6 DEF SendCredential, HandshakeFails, CanSend
<1>7. ASSUME Authenticated  PROVE TeardownInv'
  BY <1>7 DEF Authenticated
<1>8. ASSUME HandshakeError  PROVE TeardownInv'
  BY <1>8 DEF HandshakeError, HandshakeFails
<1>9. ASSUME HandshakeTimeout  PROVE TeardownInv'
  BY <1>9 DEF HandshakeTimeout
<1>10. ASSUME ShellFails  PROVE TeardownInv'
  BY <1>10 DEF ShellFails
<1>11. ASSUME ShellReady  PROVE TeardownInv'
  BY <1>11 DEF ShellReady
<1>12. ASSUME ConnectFailed  PROVE TeardownInv'
  BY <1>12 DEF ConnectFailed, Teardown, BrowserReleased
<1>13. ASSUME ServerCloses  PROVE TeardownInv'
  BY <1>13 DEF ServerCloses, Teardown, BrowserReleased
<1>14. ASSUME TeardownFinishes  PROVE TeardownInv'
  BY <1>14 DEF TeardownFinishes, Finish, BrowserReleased
<1>15. ASSUME NEW accept \in BOOLEAN, Answer(accept)  PROVE TeardownInv'
  BY <1>15 DEF Answer, KeyStands, HandshakeFails, CanSend
<1>16. ASSUME BrowserGone  PROVE TeardownInv'
  BY <1>16 DEF BrowserGone, Teardown
<1>17. ASSUME Alarm  PROVE TeardownInv'
  BY <1>17 DEF Alarm, Teardown, BrowserReleased, Rearmed
<1>18. ASSUME Restart  PROVE TeardownInv'
  BY <1>18 DEF Restart
<1>19. CASE UNCHANGED <<params, conn, socket, torndown, closing>>
  BY <1>19
<1> QED
  BY <1>1, <1>2, <1>3, <1>4, <1>5, <1>6, <1>7, <1>8, <1>9, <1>10, <1>11,
         <1>12, <1>13, <1>14, <1>15, <1>16, <1>17, <1>18, <1>19 DEF Next,
         Server, vars, Output, Input, BrowserLeaves, Tick

(* The handshake only gets past a key that stands, and alone only when its *)
(* packet layer is gone.                                                   *)
LEMMA HandshakeStep ==
  ASSUME TypeOK, StartInv, TeardownInv, HandshakeInv, [Next]_vars
  PROVE  HandshakeInv'
<1> USE DEF TypeOK, ObjTypeOK, TermTypeOK, ConnTypeOK, EnvTypeOK, NoTimer,
       objVars, termVars, connVars, envVars, histVars, Untouched, LetIn,
       StartInv, TeardownInv, HandshakeInv, Listening
<1>1. ASSUME NEW pin \in Keys \cup {NoKey}, Configure(pin)  PROVE HandshakeInv'
  <2>1. Untouched
    BY <1>1 DEF Configure
  <2> QED
    BY <1>1, <2>1 DEF Configure
<1>2. ASSUME NEW r \in Reqs, NEW u \in Users, Claim(r, u)  PROVE HandshakeInv'
  BY <1>2 DEF Claim, Teardown
<1>3. ASSUME NEW r \in Reqs, Open(r)  PROVE HandshakeInv'
  BY <1>3 DEF Open
<1>4. ASSUME NEW k \in Keys, PresentKey(k)  PROVE HandshakeInv'
  BY <1>4 DEF PresentKey, KeyStands, HandshakeFails, CanSend, PinMatches
<1>5. ASSUME PromptTimeout  PROVE HandshakeInv'
  BY <1>5 DEF PromptTimeout, HandshakeFails
<1>6. ASSUME SendCredential  PROVE HandshakeInv'
  BY <1>6 DEF SendCredential, HandshakeFails, CanSend
<1>7. ASSUME Authenticated  PROVE HandshakeInv'
  BY <1>7 DEF Authenticated
<1>8. ASSUME HandshakeError  PROVE HandshakeInv'
  BY <1>8 DEF HandshakeError, HandshakeFails
<1>9. ASSUME HandshakeTimeout  PROVE HandshakeInv'
  BY <1>9 DEF HandshakeTimeout
<1>10. ASSUME ShellFails  PROVE HandshakeInv'
  BY <1>10 DEF ShellFails
<1>11. ASSUME ShellReady  PROVE HandshakeInv'
  BY <1>11 DEF ShellReady
<1>12. ASSUME ConnectFailed  PROVE HandshakeInv'
  BY <1>12 DEF ConnectFailed, Teardown, BrowserReleased
<1>13. ASSUME ServerCloses  PROVE HandshakeInv'
  BY <1>13 DEF ServerCloses, Teardown, BrowserReleased
<1>14. ASSUME TeardownFinishes  PROVE HandshakeInv'
  BY <1>14 DEF TeardownFinishes, Finish, BrowserReleased
<1>15. ASSUME NEW accept \in BOOLEAN, Answer(accept)  PROVE HandshakeInv'
  BY <1>15 DEF Answer, KeyStands, HandshakeFails, CanSend
<1>16. ASSUME BrowserLeaves  PROVE HandshakeInv'
  BY <1>16 DEF BrowserLeaves
<1>17. ASSUME BrowserGone  PROVE HandshakeInv'
  BY <1>17 DEF BrowserGone, Teardown
<1>18. ASSUME Alarm  PROVE HandshakeInv'
  BY <1>18 DEF Alarm, Teardown, BrowserReleased, Rearmed
<1>19. ASSUME Tick  PROVE HandshakeInv'
  BY <1>19 DEF Tick, Older, Down
<1>20. ASSUME Restart  PROVE HandshakeInv'
  BY <1>20 DEF Restart
<1>21. CASE UNCHANGED <<pinned, connVars, ws, prompt, accepted>>
  BY <1>21
<1> QED
  BY <1>1, <1>2, <1>3, <1>4, <1>5, <1>6, <1>7, <1>8, <1>9, <1>10, <1>11,
         <1>12, <1>13, <1>14, <1>15, <1>16, <1>17, <1>18, <1>19, <1>20,
         <1>21 DEF Next, Server, vars, Output, Input

(* The credential goes out from a handshake whose key stands; a pin is     *)
(* never changed after that, nor an acceptance taken back.                 *)
LEMMA CredentialStep ==
  ASSUME TypeOK, StartInv, HandshakeInv, CredentialGuarded, [Next]_vars
  PROVE  CredentialGuarded'
<1> USE DEF TypeOK, ObjTypeOK, TermTypeOK, ConnTypeOK, EnvTypeOK, NoTimer,
       objVars, termVars, connVars, envVars, histVars, Untouched, LetIn,
       StartInv, HandshakeInv, CredentialGuarded
<1>1. ASSUME NEW pin \in Keys \cup {NoKey}, Configure(pin)  PROVE CredentialGuarded'
  <2>1. Untouched
    BY <1>1 DEF Configure
  <2> QED
    BY <1>1, <2>1 DEF Configure
<1>2. ASSUME SendCredential  PROVE CredentialGuarded'
  BY <1>2 DEF SendCredential, HandshakeFails, CanSend
<1>3. ASSUME NEW accept \in BOOLEAN, Answer(accept)  PROVE CredentialGuarded'
  BY <1>3 DEF Answer, KeyStands, HandshakeFails, CanSend
<1>4. CASE UNCHANGED <<pinned, sentTo, accepted>>
  BY <1>4
<1> QED
  BY <1>1, <1>2, <1>3, <1>4 DEF Next, Server, vars, Claim, Open, PresentKey,
         PromptTimeout, Authenticated, HandshakeError, HandshakeTimeout,
         ShellFails, ShellReady, ConnectFailed, ServerCloses,
         TeardownFinishes, Output, Input, BrowserLeaves, BrowserGone, Alarm,
         Tick, Restart

(* Every step that leaves something held leaves an alarm with it.          *)
LEMMA WatchedStep ==
  ASSUME TypeOK, StartInv, TeardownInv, HeldIsWatched, [Next]_vars
  PROVE  HeldIsWatched'
<1> USE DEF TypeOK, ObjTypeOK, TermTypeOK, ConnTypeOK, EnvTypeOK, NoTimer,
       objVars, termVars, connVars, envVars, histVars, Untouched, LetIn,
       StartInv, TeardownInv, HeldIsWatched
<1>1. ASSUME NEW pin \in Keys \cup {NoKey}, Configure(pin)  PROVE HeldIsWatched'
  BY <1>1 DEF Configure
<1>2. ASSUME NEW r \in Reqs, NEW u \in Users, Claim(r, u)  PROVE HeldIsWatched'
  BY <1>2 DEF Claim, Teardown
<1>3. ASSUME NEW r \in Reqs, Open(r)  PROVE HeldIsWatched'
  BY <1>3 DEF Open
<1>4. ASSUME ShellReady  PROVE HeldIsWatched'
  BY <1>4 DEF ShellReady
<1>5. ASSUME ConnectFailed  PROVE HeldIsWatched'
  BY <1>5 DEF ConnectFailed, Teardown, BrowserReleased
<1>6. ASSUME ServerCloses  PROVE HeldIsWatched'
  BY <1>6 DEF ServerCloses, Teardown, BrowserReleased
<1>7. ASSUME TeardownFinishes  PROVE HeldIsWatched'
  BY <1>7 DEF TeardownFinishes, Finish, BrowserReleased
<1>8. ASSUME BrowserGone  PROVE HeldIsWatched'
  BY <1>8 DEF BrowserGone, Teardown
<1>9. ASSUME Alarm  PROVE HeldIsWatched'
  BY <1>9 DEF Alarm, Teardown, BrowserReleased, Rearmed
<1>10. ASSUME Tick  PROVE HeldIsWatched'
  BY <1>10 DEF Tick, Older, Down
<1>11. ASSUME Restart  PROVE HeldIsWatched'
  BY <1>11 DEF Restart
<1>12. CASE UNCHANGED <<torndown, params, socket, alarm>>
  BY <1>12
<1> QED
  BY <1>1, <1>2, <1>3, <1>4, <1>5, <1>6, <1>7, <1>8, <1>9, <1>10, <1>11,
         <1>12 DEF Next, Server, vars, PresentKey, PromptTimeout,
         SendCredential, Authenticated, HandshakeError, HandshakeTimeout,
         ShellFails, Output, Input, Answer, BrowserLeaves

(* Nothing after a finished teardown attaches a browser or sets an alarm.  *)
LEMMA OverStep ==
  ASSUME TypeOK, StartInv, TeardownInv, TornDownIsOver, [Next]_vars
  PROVE  TornDownIsOver'
<1> USE DEF TypeOK, ObjTypeOK, TermTypeOK, ConnTypeOK, EnvTypeOK, NoTimer,
       objVars, termVars, connVars, envVars, histVars, Untouched, LetIn,
       StartInv, TeardownInv, TornDownIsOver
<1>1. ASSUME NEW pin \in Keys \cup {NoKey}, Configure(pin)  PROVE TornDownIsOver'
  BY <1>1 DEF Configure
<1>2. ASSUME NEW r \in Reqs, NEW u \in Users, Claim(r, u)  PROVE TornDownIsOver'
  BY <1>2 DEF Claim, Teardown, ClaimRefused
<1>3. ASSUME NEW r \in Reqs, Open(r)  PROVE TornDownIsOver'
  BY <1>3 DEF Open, OpenRefused
<1>4. ASSUME ConnectFailed  PROVE TornDownIsOver'
  BY <1>4 DEF ConnectFailed, Teardown, BrowserReleased
<1>5. ASSUME ServerCloses  PROVE TornDownIsOver'
  BY <1>5 DEF ServerCloses, Teardown, BrowserReleased
<1>6. ASSUME TeardownFinishes  PROVE TornDownIsOver'
  BY <1>6 DEF TeardownFinishes, Finish, BrowserReleased
<1>7. ASSUME BrowserLeaves  PROVE TornDownIsOver'
  BY <1>7 DEF BrowserLeaves
<1>8. ASSUME BrowserGone  PROVE TornDownIsOver'
  BY <1>8 DEF BrowserGone, Teardown
<1>9. ASSUME Alarm  PROVE TornDownIsOver'
  BY <1>9 DEF Alarm, Teardown, BrowserReleased, Rearmed
<1>10. ASSUME Tick  PROVE TornDownIsOver'
  BY <1>10 DEF Tick, Older, Down
<1>11. ASSUME Restart  PROVE TornDownIsOver'
  BY <1>11 DEF Restart
<1>12. CASE UNCHANGED <<closing, socket, alarm, ws>>
  BY <1>12
<1> QED
  BY <1>1, <1>2, <1>3, <1>4, <1>5, <1>6, <1>7, <1>8, <1>9, <1>10, <1>11,
         <1>12 DEF Next, Server, vars, PresentKey, PromptTimeout,
         SendCredential, Authenticated, HandshakeError, HandshakeTimeout,
         ShellFails, ShellReady, Output, Input, Answer

-----------------------------------------------------------------------------
(* All conjuncts together.                                                 *)
LEMMA Inductive == IndInv /\ [Next]_vars => IndInv'
BY ObjTypeStep, TermTypeStep, ConnTypeStep, EnvTypeStep, StartStep,
   OneTerminalStep, TeardownStep, HandshakeStep, CredentialStep, WatchedStep,
   OverStep DEF IndInv, TypeOK

(* A fresh object satisfies them.                                          *)
LEMMA Initially == Init => IndInv
<1> SUFFICES ASSUME Init  PROVE IndInv
  OBVIOUS
<1> USE DEF Init, NoTimer
<1>1. TypeOK
  <2>1. ObjTypeOK
    <3>1. unclaimedAge \in 0..(UNCLAIMED_TTL + 1)
      OBVIOUS
    <3> QED
      BY <3>1 DEF ObjTypeOK
  <2>2. TermTypeOK
    <3>1. /\ idleAge \in 0..(IDLE_TIMEOUT + 1)
          /\ sessionAge \in 0..(MAX_SESSION + 1)
      OBVIOUS
    <3> QED
      BY <3>1 DEF TermTypeOK
  <2>3. ConnTypeOK /\ EnvTypeOK
    BY DEF ConnTypeOK, EnvTypeOK
  <2> QED
    BY <2>1, <2>2, <2>3 DEF TypeOK
<1>2. StartInv /\ TeardownInv /\ HandshakeInv
  BY DEF StartInv, Untouched, LetIn, TeardownInv, HandshakeInv, Listening
<1>3. OneTerminal /\ CredentialGuarded /\ HeldIsWatched /\ TornDownIsOver
  BY DEF OneTerminal, CredentialGuarded, HeldIsWatched, TornDownIsOver
<1> QED
  BY <1>1, <1>2, <1>3 DEF IndInv

(* The inductive invariant: what a session's flags, timers, coroutines and *)
(* requests have to do with each other, in every reachable state.          *)
THEOREM Invariance == Spec => []IndInv
<1> QED
  BY Initially, Inductive, PTL DEF Spec

(* Every variable of the object, its connection and its environment keeps  *)
(* its type; ages and countdowns stay within the delays they count.        *)
THEOREM TypeCorrect == Spec => []TypeOK
BY Invariance, PTL DEF IndInv

(* The credential only ever goes to a server whose host key is the pinned  *)
(* one or was accepted by the user (handshake() and authenticate()).       *)
THEOREM CredentialSafe == Spec => []CredentialGuarded
BY Invariance, PTL DEF IndInv

(* A ticket lets at most one request through, across expiry, teardown and  *)
(* restarts (claim() and fetch()).                                         *)
THEOREM SingleTerminal == Spec => []OneTerminal
BY Invariance, PTL DEF IndInv

(* As long as the object holds parameters or a browser and no teardown has *)
(* begun, its alarm is set (configure(), fetch() and alarm()).             *)
THEOREM AlwaysWatched == Spec => []HeldIsWatched
BY Invariance, PTL DEF IndInv

(* After a teardown has finished no browser is attached and no alarm set,  *)
(* not even by a connect() that succeeds afterwards (teardown()).          *)
THEOREM TeardownIsFinal == Spec => []TornDownIsOver
BY Invariance, PTL DEF IndInv

(* A step that sends the credential is one of a connect() still waiting.   *)
LEMMA SilentStep ==
  ASSUME IndInv, [Next]_vars
  PROVE  [sentTo' # sentTo => conn = "handshake"]_vars
<1> USE DEF IndInv, HandshakeInv
<1>1. ASSUME SendCredential  PROVE sentTo' # sentTo => conn = "handshake"
  BY <1>1 DEF SendCredential, CanSend
<1>2. CASE UNCHANGED sentTo
  BY <1>2
<1> QED
  BY <1>1, <1>2 DEF Next, Server, vars, histVars, Configure, Claim, Open,
     PresentKey, PromptTimeout, Authenticated, HandshakeError,
     HandshakeTimeout, ShellFails, ShellReady, ConnectFailed, ServerCloses,
     TeardownFinishes, Output, Input, Answer, BrowserLeaves, BrowserGone,
     Alarm, Tick, Restart

(* A handshake that connect() has given up on, which nothing cancels, can  *)
(* no longer send the credential (withTimeout() and Packets.destroy()).    *)
THEOREM SilentAfterwards == Spec => SilentAfterGivingUp
BY Invariance, SilentStep, PTL DEF Spec, SilentAfterGivingUp

-----------------------------------------------------------------------------
(* The two time limits of a handshake.                                     *)

(* While connect() waits its timer runs, ahead of that of the question.    *)
TimersInv ==
    conn = "handshake" =>
        /\ handshakeTimer # NoTimer
        /\ promptTimer # NoTimer => handshakeTimer < promptTimer

(* The question is asked after the handshake began and has the longer      *)
(* limit; from then on the two count down together.                        *)
LEMMA TimersStep ==
  ASSUME HANDSHAKE_TIMEOUT < HOSTKEY_TIMEOUT, IndInv, TimersInv, [Next]_vars
  PROVE  TimersInv'
<1> USE DEF TypeOK, ConnTypeOK, NoTimer, IndInv, HandshakeInv, TimersInv,
       objVars, termVars, connVars, envVars, histVars
<1>1. ASSUME NEW r \in Reqs, NEW u \in Users, Claim(r, u)  PROVE TimersInv'
  BY <1>1 DEF Claim, Teardown
<1>2. ASSUME NEW r \in Reqs, Open(r)  PROVE TimersInv'
  <2>1. CASE OpenRefused
    BY <1>2, <2>1 DEF Open
  <2>2. CASE ~OpenRefused
    <3>1. hs = "none"
      BY <1>2 DEF Open, StartInv, Untouched
    <3> QED
      BY <1>2, <2>2, <3>1 DEF Open
  <2> QED
    BY <2>1, <2>2
<1>3. ASSUME NEW k \in Keys, PresentKey(k)  PROVE TimersInv'
  BY <1>3 DEF PresentKey, KeyStands, HandshakeFails
<1>4. ASSUME PromptTimeout \/ SendCredential \/ Authenticated \/ HandshakeError
      PROVE  TimersInv'
  BY <1>4 DEF PromptTimeout, SendCredential, Authenticated, HandshakeError, HandshakeFails
<1>5. ASSUME HandshakeTimeout \/ ShellFails \/ ShellReady  PROVE TimersInv'
  BY <1>5 DEF HandshakeTimeout, ShellFails, ShellReady
<1>6. ASSUME ConnectFailed \/ ServerCloses  PROVE TimersInv'
  BY <1>6 DEF ConnectFailed, ServerCloses, Teardown
<1>7. ASSUME TeardownFinishes  PROVE TimersInv'
  BY <1>7 DEF TeardownFinishes, Finish
<1>8. ASSUME NEW accept \in BOOLEAN, Answer(accept)  PROVE TimersInv'
  BY <1>8 DEF Answer, KeyStands, HandshakeFails
<1>9. ASSUME BrowserGone \/ Alarm  PROVE TimersInv'
  BY <1>9 DEF BrowserGone, Alarm, Teardown
<1>10. ASSUME Tick  PROVE TimersInv'
  BY <1>10 DEF Tick, Down
<1>11. ASSUME Restart  PROVE TimersInv'
  BY <1>11 DEF Restart
<1>12. CASE UNCHANGED connVars
  BY <1>12
<1> QED
  BY <1>1, <1>2, <1>3, <1>4, <1>5, <1>6, <1>7, <1>8, <1>9, <1>10, <1>11, <1>12
     DEF Next, Server, vars, Configure, Output, Input, BrowserLeaves

(* With the limits of the code, 20 s and 120 s, connect() has given up     *)
(* before the question to the user runs out, whenever it was asked         *)
(* (withTimeout() and askAboutHostKey()).                                  *)
THEOREM HandshakeDecides ==
  HANDSHAKE_TIMEOUT < HOSTKEY_TIMEOUT => (Spec => []HandshakeEndsFirst)
<1> SUFFICES ASSUME HANDSHAKE_TIMEOUT < HOSTKEY_TIMEOUT  PROVE Spec => []HandshakeEndsFirst
  OBVIOUS
<1>1. Init => TimersInv
  BY DEF Init, TimersInv
<1>2. IndInv /\ TimersInv => HandshakeEndsFirst
  BY DEF IndInv, TypeOK, ConnTypeOK, TimersInv, HandshakeEndsFirst, NoTimer
<1>3. IndInv /\ TimersInv /\ [Next]_vars => TimersInv'
  BY TimersStep
<1> QED
  BY <1>1, <1>2, <1>3, Invariance, PTL DEF Spec

-----------------------------------------------------------------------------
(* SshSession implements Terminal.                                         *)

Active == {"kex", "asking", "secure", "auth"}

(* A handshake is active while connect() waits for it, and as a zombie;    *)
(* a connection is only ever made with parameters.                         *)
PhaseInv ==
    /\ conn = "handshake" => hs \in Active
    /\ hs \in Active => conn \in {"handshake", "closing", "over"}
    /\ conn # "none" /\ ~torndown => params # "none"

LEMMA PhaseInvStep ==
  ASSUME IndInv, PhaseInv, [Next]_vars
  PROVE  PhaseInv'
<1> USE DEF TypeOK, ObjTypeOK, ConnTypeOK, NoTimer, IndInv, HandshakeInv, TeardownInv, PhaseInv,
       Active, objVars, termVars, connVars, envVars, histVars
<1>1. ASSUME NEW pin \in Keys \cup {NoKey}, Configure(pin)  PROVE PhaseInv'
  BY <1>1 DEF Configure
<1>2. ASSUME NEW r \in Reqs, NEW u \in Users, Claim(r, u)  PROVE PhaseInv'
  BY <1>2 DEF Claim, Teardown
<1>3. ASSUME NEW r \in Reqs, Open(r)  PROVE PhaseInv'
  BY <1>3 DEF Open, OpenRefused
<1>4. ASSUME NEW k \in Keys, PresentKey(k)  PROVE PhaseInv'
  BY <1>4 DEF PresentKey, KeyStands, HandshakeFails
<1>5. ASSUME PromptTimeout \/ SendCredential \/ Authenticated \/ HandshakeError
      PROVE  PhaseInv'
  BY <1>5 DEF PromptTimeout, SendCredential, Authenticated, HandshakeError, HandshakeFails
<1>6. ASSUME HandshakeTimeout \/ ShellFails \/ ShellReady  PROVE PhaseInv'
  BY <1>6 DEF HandshakeTimeout, ShellFails, ShellReady
<1>7. ASSUME ConnectFailed \/ ServerCloses  PROVE PhaseInv'
  BY <1>7 DEF ConnectFailed, ServerCloses, Teardown
<1>8. ASSUME TeardownFinishes  PROVE PhaseInv'
  BY <1>8 DEF TeardownFinishes, Finish
<1>9. ASSUME NEW accept \in BOOLEAN, Answer(accept)  PROVE PhaseInv'
  BY <1>9 DEF Answer, KeyStands, HandshakeFails
<1>10. ASSUME BrowserGone \/ Alarm  PROVE PhaseInv'
  BY <1>10 DEF BrowserGone, Alarm, Teardown
<1>11. ASSUME Restart  PROVE PhaseInv'
  BY <1>11 DEF Restart
<1>12. CASE UNCHANGED <<params, torndown, conn, hs>>
  BY <1>12
<1> QED
  BY <1>1, <1>2, <1>3, <1>4, <1>5, <1>6, <1>7, <1>8, <1>9, <1>10, <1>11, <1>12
     DEF Next, Server, vars, Output, Input, BrowserLeaves, Tick

(* A step after which the session is over, and it was provisioned before.  *)
LEMMA EndsWell ==
  ASSUME ticket, UNCHANGED <<ticket, pinned>>, Phase' = "over"
  PROVE  [Promise!Next]_(Promise!vars)
<1>1. Phase # "none"
  BY DEF Phase
<1>2. Presented' = NoKey /\ (Phase = "over" => Presented = NoKey)
  BY DEF Presented
<1> QED
  BY <1>1, <1>2 DEF Promise!Next, Promise!End, Promise!Ended, Promise!vars

(* A step that does not concern it.                                        *)
LEMMA StaysSo ==
  ASSUME UNCHANGED <<ticket, pinned, torndown, params, conn, hs, hostKey>>
  PROVE  [Promise!Next]_(Promise!vars)
BY DEF Promise!vars, Phase, Presented

(* What is over stays so, unless a step undid that.                        *)
LEMMA TerminalStep ==
  ASSUME IndInv, PhaseInv, [Next]_vars
  PROVE  [Promise!Next]_(Promise!vars)
<1> DEFINE Goal == [Promise!Next]_(Promise!vars)
<1> USE DEF TypeOK, ObjTypeOK, ConnTypeOK, NoTimer, IndInv, HandshakeInv, TeardownInv, PhaseInv,
       Active, objVars, termVars, connVars, envVars, histVars
<1>0. ~ticket => conn = "none" /\ hs = "none" /\ params = "none"
  BY DEF StartInv, Untouched, LetIn
<1>1. ASSUME NEW pin \in Keys \cup {NoKey}, Configure(pin)  PROVE Goal
  <2>1. Phase = "none" /\ Phase' = "provisioned"
    BY <1>0, <1>1 DEF Configure, Phase, StartInv
  <2> QED
    BY <1>1, <2>1 DEF Configure, Presented, Promise!Next, Promise!Provision
<1>2. ASSUME NEW r \in Reqs, NEW u \in Users, Claim(r, u)  PROVE Goal
  <2>1. CASE UNCHANGED <<params, torndown, conn, hs, hostKey>>
    BY <1>2, <2>1, StaysSo DEF Claim, Teardown
  <2>2. CASE Teardown(alarm, conn) /\ ~torndown
    BY <1>2, <2>2, EndsWell DEF Claim, Teardown, Phase
  <2> QED
    BY <1>2, <2>1, <2>2 DEF Claim, ClaimRefused
<1>3. ASSUME NEW r \in Reqs, Open(r)  PROVE Goal
  <2>1. CASE OpenRefused
    BY <1>3, <2>1, StaysSo DEF Open
  <2>2. CASE ~OpenRefused
    <3>1. conn = "none" /\ hs = "none" /\ ticket /\ ~torndown /\ params # "none"
      BY <1>0, <1>3, <2>2 DEF Open, OpenRefused, StartInv, Untouched
    <3>2. Phase = "provisioned" /\ Phase' = "checking" /\ UNCHANGED pinned
      BY <1>3, <2>2, <3>1 DEF Open, Phase
    <3> QED
      BY <3>2 DEF Presented, Promise!Next, Promise!Dial
  <2> QED
    BY <2>1, <2>2
<1>4. ASSUME NEW k \in Keys, PresentKey(k)  PROVE Goal
  <2>0. ticket /\ UNCHANGED <<ticket, pinned, torndown, params>>
    BY <1>0, <1>4 DEF PresentKey
  <2>1. CASE Phase = "over"
    <3>1. Phase' = "over"
      BY <1>4, <2>0, <2>1 DEF PresentKey, KeyStands, HandshakeFails, Phase
    <3> QED
      BY <2>0, <3>1, EndsWell
  <2>2. CASE Phase # "over"
    <3>1. conn = "handshake" /\ Phase = "checking" /\ params # "none" /\ ~torndown
      BY <1>4, <2>0, <2>2 DEF PresentKey, Phase
    <3>2. CASE pinned = NoKey
      <4>1. Phase' = "asking" /\ hostKey' = k
        BY <1>4, <2>0, <3>1, <3>2 DEF PresentKey, Phase
      <4> QED
        BY <2>0, <3>1, <3>2, <4>1 DEF Presented, Promise!Next, Promise!Ask
    <3>3. CASE pinned = k /\ CanSend
      <4>1. Phase' = "going" /\ hostKey' = k
        BY <1>4, <2>0, <3>1, <3>3 DEF PresentKey, PinMatches, KeyStands, Phase
      <4> QED
        BY <2>0, <3>1, <3>3, <4>1 DEF Presented, Promise!Next, Promise!Match
    <3>4. CASE pinned # NoKey /\ ~(pinned = k /\ CanSend)
      <4>1. Phase' = "over"
        BY <1>4, <2>0, <3>1, <3>4 DEF PresentKey, PinMatches, KeyStands, HandshakeFails, Phase
      <4> QED
        BY <2>0, <4>1, EndsWell
    <3> QED
      BY <3>2, <3>3, <3>4
  <2> QED
    BY <2>1, <2>2
<1>5. ASSUME HandshakeFails, hs \in Active,
             UNCHANGED <<ticket, pinned, torndown, params, hostKey>>
      PROVE  Goal
  <2>1. ticket /\ Phase' = "over"
    BY <1>0, <1>5 DEF HandshakeFails, Phase
  <2> QED
    BY <1>5, <2>1, EndsWell
<1>6. ASSUME PromptTimeout  PROVE Goal
  BY <1>5, <1>6 DEF PromptTimeout
<1>7. ASSUME SendCredential  PROVE Goal
  <2>1. CASE CanSend
    <3>1. Phase' = Phase /\ Presented' = Presented /\ UNCHANGED pinned
      BY <1>7, <2>1 DEF SendCredential, Phase, Presented
    <3> QED
      BY <3>1 DEF Promise!vars
  <2>2. CASE ~CanSend
    BY <1>5, <1>7, <2>2 DEF SendCredential
  <2> QED
    BY <2>1, <2>2
<1>8. ASSUME Authenticated  PROVE Goal
  <2>1. Phase' = Phase /\ UNCHANGED <<hostKey, pinned>>
    BY <1>8 DEF Authenticated, Phase
  <2> QED
    BY <2>1 DEF Presented, Promise!vars
<1>9. ASSUME HandshakeError  PROVE Goal
  BY <1>5, <1>9 DEF HandshakeError
<1>10. ASSUME HandshakeTimeout \/ ShellFails  PROVE Goal
  <2>1. ticket /\ UNCHANGED <<ticket, pinned>> /\ Phase' = "over"
    BY <1>0, <1>10 DEF HandshakeTimeout, ShellFails, Phase
  <2> QED
    BY <2>1, EndsWell
<1>11. ASSUME ShellReady  PROVE Goal
  <2>1. ticket /\ hs \notin Active /\ UNCHANGED <<ticket, pinned, torndown, hs, hostKey>>
    BY <1>0, <1>11 DEF ShellReady
  <2>2. CASE torndown
    <3>1. Phase' = "over"
      BY <2>1, <2>2 DEF Phase
    <3> QED
      BY <2>1, <3>1, EndsWell
  <2>3. CASE ~torndown
    <3>1. Phase = "going" /\ Phase' = "up"
      BY <1>11, <2>1, <2>3 DEF ShellReady, Phase
    <3> QED
      BY <2>1, <3>1 DEF Presented, Promise!Next, Promise!Start
  <2> QED
    BY <2>2, <2>3
<1>12. ASSUME ConnectFailed \/ ServerCloses \/ TeardownFinishes  PROVE Goal
  <2>1. ticket /\ UNCHANGED <<ticket, pinned>>
    BY <1>0, <1>12 DEF ConnectFailed, ServerCloses, TeardownFinishes, StartInv
  <2>2. Phase' = "over"
    BY <1>12, <2>1 DEF ConnectFailed, ServerCloses, TeardownFinishes, Teardown, Finish, Phase
  <2> QED
    BY <2>1, <2>2, EndsWell
<1>13. ASSUME NEW accept \in BOOLEAN, Answer(accept)  PROVE Goal
  <2>0. UNCHANGED <<ticket, pinned, torndown, params, hostKey>>
    BY <1>13 DEF Answer
  <2>1. CASE promptTimer = NoTimer
    BY <1>13, <2>0, <2>1, StaysSo DEF Answer
  <2>2. CASE promptTimer # NoTimer /\ ~(accept /\ CanSend)
    BY <1>5, <1>13, <2>0, <2>2 DEF Answer, KeyStands
  <2>3. CASE promptTimer # NoTimer /\ accept /\ CanSend
    <3>1. hs = "asking" /\ hs' = "secure" /\ UNCHANGED conn /\ ticket
      BY <1>0, <1>13, <2>3 DEF Answer, KeyStands
    <3>2. \/ Phase = "asking" /\ Phase' = "going"
          \/ Phase' = "over"
      BY <2>0, <3>1 DEF Phase
    <3>3. Phase = "asking" /\ Phase' = "going" => Promise!Accept
      BY <2>0 DEF Presented, Promise!Accept
    <3> QED
      BY <2>0, <3>1, <3>2, <3>3, EndsWell DEF Promise!Next
  <2> QED
    BY <2>1, <2>2, <2>3
<1>14. ASSUME BrowserGone \/ Alarm  PROVE Goal
  <2>0. UNCHANGED <<ticket, pinned, hostKey>>
    BY <1>14 DEF BrowserGone, Alarm
  <2>1. CASE UNCHANGED <<torndown, params, conn, hs>>
    BY <2>0, <2>1, StaysSo
  <2>2. CASE torndown'
    <3>1. ticket
      BY <1>0, <1>14 DEF BrowserGone, Alarm, StartInv, Untouched, LetIn
    <3>2. Phase' = "over"
      BY <2>0, <2>2, <3>1 DEF Phase
    <3> QED
      BY <2>0, <3>1, <3>2, EndsWell
  <2> QED
    BY <1>14, <2>1, <2>2 DEF BrowserGone, Alarm, Teardown
<1>15. ASSUME Restart  PROVE Goal
  <2>1. ticket /\ UNCHANGED <<ticket, pinned>> /\ Phase' = "over"
    BY <1>15 DEF Restart, Phase
  <2> QED
    BY <2>1, EndsWell
<1>16. CASE UNCHANGED <<ticket, pinned, torndown, params, conn, hs, hostKey>>
  BY <1>16, StaysSo
<1> QED
  BY <1>1, <1>2, <1>3, <1>4, <1>6, <1>7, <1>8, <1>9, <1>10, <1>11, <1>12, <1>13, <1>14,
     <1>15, <1>16 DEF Next, Server, vars, Output, Input, BrowserLeaves, Tick

(* A session implements Terminal: one ticket is one terminal, its host key *)
(* is settled before anything else, and nothing, no zombie, no late answer *)
(* and no restart, brings back what is over (session.ts).                  *)
THEOREM PromiseKept == Spec => KeepsPromise
<1>1. Init => PhaseInv /\ Promise!Init
  BY DEF Init, PhaseInv, Active, Phase, Presented, Promise!Init
<1> QED
  BY <1>1, PhaseInvStep, TerminalStep, Invariance, PTL DEF Spec, KeepsPromise, Promise!Spec
=============================================================================
