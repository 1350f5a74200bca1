------------------------- MODULE TerminalView_proofs -------------------------
(***************************************************************************)
(* Proofs about TerminalView, for any number of servers, keys, sessions    *)
(* and calls.                                                              *)
(***************************************************************************)
EXTENDS TerminalView, SequenceTheorems, WellFoundedInduction, TLAPS

(* Only the session on the screen has a socket that is not closed or being *)
(* closed; before its socket there is nothing on its wires.                *)
Windows ==
    /\ open => activeTicket \in Tickets
    /\ \A t \in Tickets :
          /\ Listens(t) => open /\ t = activeTicket
          /\ socket[t] = "none" =>
                /\ toPage[t] = <<>> /\ toSession[t] = <<>>
                /\ session[t].phase \in {"none", "provisioned", "over"}
          /\ session[t].phase = "none" => socket[t] = "none"

(* The answer to a call brings a ticket that is nobody else's.             *)
Answer(c) == calls[c].step = "connected"
TicketsInv ==
    /\ \A c \in 1..MAX_CALLS : Answer(c) =>
          /\ calls[c].ticket \in Tickets
          /\ socket[calls[c].ticket] = "none"
          /\ session[calls[c].ticket].phase # "none"
          /\ session[calls[c].ticket].target = calls[c].target
    /\ \A c, d \in 1..MAX_CALLS :
          Answer(c) /\ Answer(d) /\ calls[c].ticket = calls[d].ticket => c = d

(* A session's key is what its messages say, what is on the screen is the  *)
(* key of the session on the screen, and an Accept under way is for it.    *)
KeyInv(t) ==
    /\ session[t].phase \in {"none", "provisioned"} =>
          /\ session[t].key = None /\ toPage[t] = <<>> /\ socket[t] # "open"
          /\ "accept" \notin Range(toSession[t])
    /\ session[t].phase = "over" => toSession[t] = <<>>
    /\ Live(t) => session[t].key # None
    /\ \A m \in Range(toPage[t]) :
          m[1] \in {"hostkey", "hostkey-accepted"} => m[2] = session[t].key
    /\ "accept" \in Range(toSession[t]) => consent[t] = session[t].key
KeysInv ==
    /\ \A t \in Tickets : KeyInv(t)
    /\ open /\ pendingFingerprint # None /\ Listens(activeTicket) =>
          socket[activeTicket] = "open" /\ pendingFingerprint = session[activeTicket].key

SessionInv == TypeOK /\ Windows /\ TicketsInv /\ KeysInv

-----------------------------------------------------------------------------
LEMMA LowestType ==
  ASSUME NEW S, S \subseteq Nat, S # {}
  PROVE  Lowest(S) \in S
<1>1. OpToRel(<, Nat) = {ss \in Nat \X Nat : ss[1] < ss[2]}
  BY Zenon DEF OpToRel
<1>2. PICK x \in S : \A y \in S : <<y, x>> \notin OpToRel(<, Nat)
  BY NatLessThanWellFounded, WFMin
<1>3. \A y \in S : x <= y
  <2> SUFFICES ASSUME NEW y \in S  PROVE ~(y < x)
    OBVIOUS
  <2>1. <<y, x>> \notin {ss \in Nat \X Nat : ss[1] < ss[2]}
    BY <1>1, <1>2
  <2> QED
    BY <2>1
<1> QED
  BY <1>3 DEF Lowest

(* A free call and an unused ticket are among the calls and the tickets.   *)
LEMMA LowestFree ==
  ASSUME Free # {}
  PROVE  Lowest(Free) \in 1..MAX_CALLS /\ calls[Lowest(Free)].step = "free"
BY LowestType DEF Free

LEMMA LowestUnused ==
  ASSUME Unused # {}
  PROVE  Lowest(Unused) \in Tickets /\ session[Lowest(Unused)].phase = "none"
BY LowestType DEF Unused, Tickets

(* A session that moves on and a call that goes on are still ones.          *)
LEMMA MovesType ==
  ASSUME TypeOK, NEW t \in Tickets, NEW phase \in Phases, Moves(t, phase)
  PROVE  session' \in [Tickets -> Session]
<1>1. [session[t] EXCEPT !.phase = phase] \in Session
  BY DEF TypeOK, Session
<1>2. session' = [session EXCEPT ![t] = [@ EXCEPT !.phase = phase]]
  BY DEF Moves
<1> QED
  BY <1>1, <1>2 DEF TypeOK

LEMMA CallsType ==
  ASSUME TypeOK, NEW c \in 1..MAX_CALLS, NEW step \in Steps
  PROVE  /\ Goes(c, step) => calls' \in [1..MAX_CALLS -> Call]
         /\ Returns(c) => calls' \in [1..MAX_CALLS -> Call]
         /\ \A kind \in {"open", "forget", "reconnect"}, target \in Targets :
                Makes(kind, target, step) => calls' \in [1..MAX_CALLS -> Call]
<1>1. ASSUME Goes(c, step)  PROVE calls' \in [1..MAX_CALLS -> Call]
  <2>1. calls[c] \in Call
    BY DEF TypeOK
  <2>2. [calls[c] EXCEPT !.step = step] \in Call
    BY <2>1 DEF Call
  <2>3. calls' = [calls EXCEPT ![c] = [@ EXCEPT !.step = step]]
    BY <1>1 DEF Goes
  <2> QED
    BY <2>2, <2>3 DEF TypeOK
<1>2. ASSUME Returns(c)  PROVE calls' \in [1..MAX_CALLS -> Call]
  <2>1. NoCall("done") \in Call
    BY DEF NoCall, Call, Steps, Targets
  <2> QED
    BY <1>2, <2>1 DEF Returns, TypeOK
<1>3. ASSUME NEW kind \in {"open", "forget", "reconnect"}, NEW target \in Targets,
             Makes(kind, target, step)
      PROVE  calls' \in [1..MAX_CALLS -> Call]
  <2> DEFINE call == [kind |-> kind, target |-> target, step |-> step, ticket |-> NoTicket,
                      by |-> page]
  <2>1. call \in Call
    BY DEF TypeOK, Call
  <2>2. calls' = [calls EXCEPT ![Lowest(Free)] = call]
    BY <1>3 DEF Makes
  <2> QED
    BY <2>1, <2>2 DEF TypeOK
<1> QED
  BY <1>1, <1>2, <1>3

(* What is sent is a message.                                              *)
LEMMA Messaged ==
  \A m, n \in Messages : <<m>> \in Seq(Messages) /\ <<m, n>> \in Seq(Messages)
OBVIOUS

LEMMA MessageTypes ==
  /\ \A type \in Status \cup {"end"} : Say(type) \in Messages
  /\ \A k \in Keys, type \in {"hostkey", "hostkey-accepted", "hostkey-mismatch"} :
        <<type, k>> \in Messages
  /\ \A m \in Messages : m[2] \in Keys \cup {None}
BY DEF Messages, Say

LEMMA SendsType ==
  ASSUME TypeOK, NEW t \in Tickets, NEW messages \in Seq(Messages), Sends(t, messages)
  PROVE  toPage' \in [Tickets -> Seq(Messages)]
<1>1. toPage[t] \o messages \in Seq(Messages)
  BY DEF TypeOK
<1> QED
  BY <1>1 DEF Sends, TypeOK

LEMMA EndsType ==
  ASSUME TypeOK, NEW t \in Tickets, NEW messages \in Seq(Messages), Ends(t, messages)
  PROVE  /\ toPage' \in [Tickets -> Seq(Messages)]
         /\ toSession' \in [Tickets -> Seq(Heard)]
         /\ session' \in [Tickets -> Session]
<1>1. <<Say("closed"), Say("end")>> \in Seq(Messages)
  BY MessageTypes DEF Status
<1>2. messages \o <<Say("closed"), Say("end")>> \in Seq(Messages)
  BY <1>1
<1>3. toPage' \in [Tickets -> Seq(Messages)]
  BY <1>2, SendsType DEF Ends
<1>4. toSession' \in [Tickets -> Seq(Heard)]
  BY DEF Ends, TypeOK
<1>5. session' \in [Tickets -> Session]
  BY MovesType DEF Ends, Phases
<1> QED
  BY <1>3, <1>4, <1>5

LEMMA HearsType ==
  ASSUME TypeOK, NEW t \in Tickets, NEW answer \in Heard, Hears(t, answer)
  PROVE  toSession' \in [Tickets -> Seq(Heard)]
<1>1. Append(toSession[t], answer) \in Seq(Heard)
  BY DEF TypeOK
<1> QED
  BY <1>1 DEF Hears, TypeOK

LEMMA CleanupType ==
  ASSUME TypeOK, Windows, Cleanup
  PROVE  /\ toPage' \in [Tickets -> Seq(Messages)]
         /\ toSession' \in [Tickets -> Seq(Heard)]
         /\ Hung \in [Tickets -> {"none", "connecting", "open", "closing", "closed"}]
<1>1. toPage' \in [Tickets -> Seq(Messages)]
  BY DEF Cleanup, TypeOK
<1>2. toSession' \in [Tickets -> Seq(Heard)]
  <2>1. CASE \E t \in Tickets : Hangs(t)
    <3>1. activeTicket \in Tickets /\ Hears(activeTicket, "bye")
      BY <2>1 DEF Cleanup, Hangs
    <3> QED
      BY <3>1, HearsType DEF Heard
  <2>2. CASE ~\E t \in Tickets : Hangs(t)
    BY <2>2 DEF Cleanup, TypeOK
  <2> QED
    BY <2>1, <2>2
<1> QED
  BY <1>1, <1>2 DEF Hung, TypeOK

(* The first of a session's messages, and what is left.                    *)
LEMMA HeadType ==
  ASSUME TypeOK, NEW t \in Tickets
  PROVE  /\ toPage[t] # <<>> => Head(toPage[t]) \in Messages /\ Tail(toPage[t]) \in Seq(Messages)
         /\ toSession[t] # <<>> => Head(toSession[t]) \in Heard /\ Tail(toSession[t]) \in Seq(Heard)
BY DEF TypeOK

-----------------------------------------------------------------------------
(* Each step keeps the types: a session's ...                              *)
LEMMA SessionTypes ==
  ASSUME SessionInv, NEW t \in Tickets,
         Expires(t) \/ Claimed(t) \/ ChecksKey(t) \/ Answered(t) \/ GoesUp(t) \/ Over(t)
  PROVE  TypeOK'
<1> USE DEF SessionInv
<1> SUFFICES /\ toPage' \in [Tickets -> Seq(Messages)]
             /\ toSession' \in [Tickets -> Seq(Heard)]
             /\ session' \in [Tickets -> Session]
             /\ SessionStep
  <2>1. SessionStep
    BY DEF Expires, Claimed, ChecksKey, Answered, GoesUp, Over
  <2> QED
    BY <2>1 DEF SessionStep, view, shown, history, TypeOK
<1>0. /\ session[t].key \in Keys \cup {None} /\ session[t].target \in Targets
      /\ <<>> \in Seq(Messages)
  BY DEF TypeOK, Session
<1>1. CASE Expires(t)
  BY <1>1, MovesType DEF Expires, Phases, TypeOK
<1>2. CASE Claimed(t)
  <2> DEFINE k == hostKey[session[t].target]
  <2>1. k \in Keys
    BY <1>0 DEF TypeOK
  <2> HIDE DEF k
  <2>0. session[t] \in Session
    BY DEF TypeOK
  <2>2. [session[t] EXCEPT !.phase = "checking", !.key = k] \in Session
    BY <2>0, <2>1 DEF Session, Phases
  <2>3. session' = [session EXCEPT ![t] = [@ EXCEPT !.phase = "checking", !.key = k]]
    BY <1>2 DEF Claimed, k
  <2>4. <<Say("connecting")>> \in Seq(Messages)
    BY MessageTypes DEF Status
  <2> QED
    BY <1>2, <2>2, <2>3, <2>4, SendsType DEF Claimed, TypeOK
<1>3. CASE ChecksKey(t)
  <2>1. session[t].key \in Keys
    BY <1>0, <1>3 DEF ChecksKey, KeysInv, KeyInv, Live
  <2>2. /\ <<<<"hostkey", session[t].key>>>> \in Seq(Messages)
        /\ <<<<"hostkey-mismatch", session[t].key>>>> \in Seq(Messages)
    BY <2>1, MessageTypes, Messaged
  <2>3. CASE session[t].pinned = None
    BY <1>3, <2>2, <2>3, MovesType, SendsType DEF ChecksKey, Phases, TypeOK
  <2>4. CASE session[t].pinned # None /\ session[t].pinned = session[t].key
    BY <1>3, <2>4, MovesType DEF ChecksKey, Phases, TypeOK, wires
  <2>5. CASE session[t].pinned # None /\ session[t].pinned # session[t].key
    BY <1>3, <2>2, <2>5, EndsType DEF ChecksKey
  <2> QED
    BY <1>3, <2>3, <2>4, <2>5 DEF ChecksKey
<1>4. CASE Answered(t)
  <2>1. CASE Ends(t, <<>>)
    BY <1>0, <1>4, <2>1, EndsType DEF Answered
  <2>2. CASE /\ Moves(t, "going") \/ UNCHANGED session
             /\ toSession' = [toSession EXCEPT ![t] = Tail(@)] /\ UNCHANGED toPage
    <3>1. Tail(toSession[t]) \in Seq(Heard)
      BY <1>4, HeadType DEF Answered
    <3>2. session' \in [Tickets -> Session]
      BY <2>2, MovesType DEF Phases, TypeOK
    <3> QED
      BY <1>4, <2>2, <3>1, <3>2 DEF Answered, TypeOK
  <2> QED
    BY <1>4, <2>1, <2>2 DEF Answered
<1>5. CASE GoesUp(t)
  <2>1. session[t].key \in Keys
    BY <1>0, <1>5 DEF GoesUp, KeysInv, KeyInv, Live
  <2>2. /\ <<<<"hostkey-accepted", session[t].key>>, Say("connected")>> \in Seq(Messages)
        /\ <<Say("connected")>> \in Seq(Messages)
    BY <2>1, MessageTypes, Messaged DEF Status
  <2> QED
    BY <1>5, <2>2, MovesType, SendsType DEF GoesUp, Phases, TypeOK
<1>6. CASE Over(t)
  BY <1>0, <1>6, EndsType DEF Over
<1> QED
  BY <1>1, <1>2, <1>3, <1>4, <1>5, <1>6

(* ... the service's ...                                                   *)
LEMMA ServiceTypes ==
  ASSUME SessionInv,
         \/ \E s \in Targets : Rebuild(s)
         \/ \E s \in Servers, k \in Keys : Pinned(s, k)
         \/ \E c \in 1..MAX_CALLS : PatchServed(c) \/ ConnectServed(c)
  PROVE  TypeOK'
<1> USE DEF SessionInv, view, shown, wires, history
<1>1. CASE \E s \in Targets : Rebuild(s)
  BY <1>1, BoundsAssumption DEF Rebuild, TypeOK
<1>2. ASSUME NEW s \in Servers, NEW k \in Keys, Pinned(s, k)  PROVE TypeOK'
  <2>1. pin' \in [Servers -> Keys \cup {None}] /\ pinning' \subseteq Servers \X Keys
    BY <1>2 DEF Pinned, TypeOK
  <2> QED
    BY <1>2, <2>1 DEF Pinned, TypeOK
<1>3. ASSUME NEW c \in 1..MAX_CALLS, PatchServed(c)  PROVE TypeOK'
  <2>1. calls' \in [1..MAX_CALLS -> Call]
    BY <1>3, CallsType DEF PatchServed, Steps
  <2>2. pin' \in [Servers -> Keys \cup {None}]
    BY <1>3 DEF PatchServed, TypeOK
  <2> QED
    BY <1>3, <2>1, <2>2 DEF PatchServed, TypeOK
<1>4. ASSUME NEW c \in 1..MAX_CALLS, ConnectServed(c)  PROVE TypeOK'
  <2> DEFINE target == calls[c].target
             pinned == IF target = Unsaved THEN None ELSE pin[target]
             ticket == Lowest(Unused)
             new == [target |-> target, pinned |-> pinned, key |-> None, phase |-> "provisioned"]
  <2>0. calls[c] \in Call
    BY DEF TypeOK
  <2>1. target \in Targets /\ pinned \in Keys \cup {None}
    BY <2>0 DEF TypeOK, Call, Targets
  <2>2. new \in Session
    BY <2>1 DEF Session, Phases
  <2>3. CASE /\ Unused # {} /\ session' = [session EXCEPT ![ticket] = new]
             /\ \/ calls' = [calls EXCEPT ![c] = [@ EXCEPT !.step = "connected", !.ticket = ticket]]
                \/ Goes(c, "refused")
    <3>1. ticket \in Tickets
      BY <2>3, LowestUnused
    <3> HIDE DEF ticket, new
    <3>2. [calls[c] EXCEPT !.step = "connected", !.ticket = ticket] \in Call
      BY <2>0, <3>1 DEF Call, Steps
    <3>3. Goes(c, "refused") => calls' \in [1..MAX_CALLS -> Call]
      BY CallsType DEF Steps
    <3>4. calls' \in [1..MAX_CALLS -> Call]
      BY <2>3, <3>2, <3>3 DEF TypeOK
    <3>5. session' \in [Tickets -> Session]
      BY <2>2, <2>3, <3>1 DEF TypeOK
    <3> QED
      BY <1>4, <3>4, <3>5 DEF ConnectServed, TypeOK
  <2>4. CASE Goes(c, "refused") /\ UNCHANGED session
    <3>1. calls' \in [1..MAX_CALLS -> Call]
      BY <2>4, CallsType DEF Steps
    <3> QED
      BY <1>4, <2>4, <3>1 DEF ConnectServed, TypeOK
  <2> QED
    BY <1>4, <2>3, <2>4 DEF ConnectServed
<1> QED
  BY <1>1, <1>2, <1>3, <1>4

(* ... the page's ...                                                      *)
LEMMA EffectType ==
  ASSUME SessionInv, NEW ticket \in Tickets, NEW server \in Targets, NEW number \in Nat,
         Effect(ticket, server, number)
  PROVE  /\ toPage' \in [Tickets -> Seq(Messages)]
         /\ toSession' \in [Tickets -> Seq(Heard)]
         /\ socket' \in [Tickets -> {"none", "connecting", "open", "closing", "closed"}]
         /\ pinTo' \in [Tickets -> Targets] /\ home' \in [Tickets -> Nat]
         /\ activeTicket' = ticket
         /\ status' \in Status /\ pendingFingerprint' = None /\ mismatch' = None
         /\ UNCHANGED <<service, consent, approved, misled>>
<1>1. Cleanup
  BY DEF Effect
<1>2. /\ toPage' \in [Tickets -> Seq(Messages)]
      /\ toSession' \in [Tickets -> Seq(Heard)]
      /\ Hung \in [Tickets -> {"none", "connecting", "open", "closing", "closed"}]
  BY <1>1, CleanupType DEF SessionInv
<1>3. socket' = [Hung EXCEPT ![ticket] = "connecting"]
  BY DEF Effect
<1>4. /\ pinTo' = [pinTo EXCEPT ![ticket] = server] /\ home' = [home EXCEPT ![ticket] = number]
      /\ activeTicket' = ticket /\ Afresh /\ UNCHANGED <<service, consent, approved, misled>>
  BY DEF Effect
<1> QED
  BY <1>2, <1>3, <1>4 DEF Afresh, Status, SessionInv, TypeOK

LEMMA PageTypes ==
  ASSUME SessionInv,
         \/ \E s \in Targets : ConnectClicked(s)
         \/ Leaves \/ ForgetClicked \/ ReconnectClicked
         \/ \E c \in 1..MAX_CALLS : Opened(c) \/ Forgotten(c) \/ Reconnected(c) \/ Refused(c)
  PROVE  TypeOK'
<1> USE DEF SessionInv, service, wires, view, shown, history
<1>1. CASE (\E s \in Targets : ConnectClicked(s)) \/ ForgetClicked \/ ReconnectClicked
  <2>1. PICK kind \in {"open", "forget", "reconnect"}, target \in Targets, step \in Steps :
            Makes(kind, target, step)
    BY <1>1 DEF ConnectClicked, ForgetClicked, ReconnectClicked, Steps, Targets
  <2>2. calls' \in [1..MAX_CALLS -> Call]
    BY <2>1, BoundsAssumption, CallsType
  <2>3. reconnecting' \in BOOLEAN
    BY <1>1 DEF ConnectClicked, ForgetClicked, ReconnectClicked, TypeOK
  <2> QED
    BY <1>1, <2>2, <2>3 DEF ConnectClicked, ForgetClicked, ReconnectClicked, TypeOK
<1>2. CASE Leaves
  <2>1. Cleanup /\ Afresh /\ socket' = Hung
    BY <1>2 DEF Leaves
  <2>2. /\ toPage' \in [Tickets -> Seq(Messages)]
        /\ toSession' \in [Tickets -> Seq(Heard)]
        /\ Hung \in [Tickets -> {"none", "connecting", "open", "closing", "closed"}]
    BY <2>1, CleanupType
  <2> QED
    BY <1>2, <2>1, <2>2 DEF Leaves, Afresh, Status, Targets, TypeOK
<1>3. ASSUME NEW c \in 1..MAX_CALLS, Opened(c)  PROVE TypeOK'
  <2>1. calls' \in [1..MAX_CALLS -> Call]
    BY <1>3, CallsType DEF Opened, Steps
  <2>2. calls[c].target \in Targets /\ calls[c].ticket \in Tickets /\ page + 1 \in Nat
    <3>1. calls[c] \in Call /\ page \in Nat
      BY DEF TypeOK
    <3>2. calls[c].ticket \in Tickets
      BY <1>3 DEF Opened, TicketsInv, Answer
    <3> QED
      BY <3>1, <3>2 DEF Call
  <2>3. CASE open
    BY <1>3, <2>1, <2>2, <2>3 DEF Opened, TypeOK
  <2>4. CASE ~open
    <3>1. /\ Effect(calls[c].ticket, calls[c].target, page + 1)
          /\ page' = page + 1 /\ open' = TRUE /\ reconnecting' = FALSE
          /\ serverId' = calls[c].target /\ renamed' = FALSE
      BY <1>3, <2>4 DEF Opened
    <3> QED
      BY <2>1, <2>2, <3>1, EffectType DEF TypeOK
  <2> QED
    BY <2>3, <2>4
<1>4. ASSUME NEW c \in 1..MAX_CALLS, Forgotten(c)  PROVE TypeOK'
  <2>1. calls' \in [1..MAX_CALLS -> Call]
    BY <1>4, CallsType DEF Forgotten, Steps
  <2>2. mismatch' \in {mismatch, None} /\ reconnecting' \in BOOLEAN
    BY <1>4 DEF Forgotten, TypeOK
  <2> QED
    BY <1>4, <2>1, <2>2 DEF Forgotten, TypeOK
<1>5. ASSUME NEW c \in 1..MAX_CALLS, Reconnected(c)  PROVE TypeOK'
  <2>1. calls' \in [1..MAX_CALLS -> Call]
    BY <1>5, CallsType DEF Reconnected, Steps
  <2>2. serverId \in Targets /\ calls[c].ticket \in Tickets /\ page \in Nat
    BY <1>5 DEF Reconnected, TicketsInv, Answer, TypeOK
  <2>3. CASE Heeded(c)
    <3>1. Effect(calls[c].ticket, serverId, page) /\ reconnecting' = FALSE
      BY <1>5, <2>3 DEF Reconnected
    <3> QED
      BY <1>5, <2>1, <2>2, <3>1, EffectType DEF Reconnected, TypeOK
  <2>4. CASE ~Heeded(c)
    BY <1>5, <2>1, <2>4 DEF Reconnected, TypeOK
  <2> QED
    BY <2>3, <2>4
<1>6. ASSUME NEW c \in 1..MAX_CALLS, Refused(c)  PROVE TypeOK'
  <2>1. calls' \in [1..MAX_CALLS -> Call]
    BY <1>6, CallsType DEF Refused, Steps
  <2>2. reconnecting' \in BOOLEAN
    BY <1>6 DEF Refused, TypeOK
  <2> QED
    BY <1>6, <2>1, <2>2 DEF Refused, TypeOK
<1> QED
  BY <1>1, <1>2, <1>3, <1>4, <1>5, <1>6

(* ... and a socket's.                                                     *)
LEMMA ClosesType ==
  ASSUME TypeOK, NEW t \in Tickets, Closes(t), toSession' \in [Tickets -> Seq(Heard)]
  PROVE  TypeOK'
<1>1. /\ socket' \in [Tickets -> {"none", "connecting", "open", "closing", "closed"}]
      /\ toPage' \in [Tickets -> Seq(Messages)]
      /\ status' \in Status
  BY DEF Closes, Status, TypeOK
<1> QED
  BY <1>1 DEF Closes, SocketStep, history, TypeOK

LEMMA SocketTypes ==
  ASSUME SessionInv,
         \/ \E t \in Tickets :
               Opens(t) \/ Closed(t) \/ UpgradeRefused(t) \/ Breaks(t) \/ Receives(t)
         \/ \E answer \in {"accept", "refuse"} : Answers(answer)
  PROVE  TypeOK'
<1> USE DEF SessionInv, SocketStep, wires, shown, history
<1>1. ASSUME NEW t \in Tickets, Opens(t)  PROVE TypeOK'
  BY <1>1 DEF Opens, TypeOK
<1>2. ASSUME NEW t \in Tickets, Closed(t) \/ UpgradeRefused(t)  PROVE TypeOK'
  BY <1>2, ClosesType DEF Closed, UpgradeRefused, TypeOK
<1>3. ASSUME NEW t \in Tickets, Breaks(t)  PROVE TypeOK'
  <2>1. toSession' \in [Tickets -> Seq(Heard)]
    BY <1>3, HearsType DEF Breaks, Heard
  <2> QED
    BY <1>3, <2>1, ClosesType DEF Breaks
<1>4. ASSUME NEW t \in Tickets, Receives(t)  PROVE TypeOK'
  <2> DEFINE m == Head(toPage[t])
  <2>1. m \in Messages /\ Tail(toPage[t]) \in Seq(Messages)
    BY <1>4, HeadType DEF Receives
  <2>2. m[2] \in Keys \cup {None} /\ (m[1] = "hostkey-accepted" => m[2] \in Keys)
    BY <2>1 DEF Messages, Say, Status
  <2>3. open
    BY <1>4 DEF Receives, Windows, Listens
  <2>4. toPage' \in [Tickets -> Seq(Messages)]
    BY <1>4, <2>1 DEF Receives, TypeOK
  <2>5. socket' \in [Tickets -> {"none", "connecting", "open", "closing", "closed"}]
    BY <1>4 DEF Receives, TypeOK
  <2>6. status' \in Status
    BY <1>4 DEF Receives, TypeOK
  <2>7. pendingFingerprint' \in Keys \cup {None} /\ mismatch' \in Keys \cup {None}
    BY <1>4, <2>2 DEF Receives, TypeOK
  <2>8. pinning' \subseteq Servers \X Keys
    BY <1>4, <2>2 DEF Receives, TypeOK
  <2> QED
    BY <1>4, <2>3, <2>4, <2>5, <2>6, <2>7, <2>8 DEF Receives, TypeOK
<1>5. ASSUME NEW answer \in {"accept", "refuse"}, Answers(answer)  PROVE TypeOK'
  <2>1. open /\ activeTicket \in Tickets /\ pendingFingerprint \in Keys
    BY <1>5 DEF Answers, Windows, TypeOK
  <2>2. toSession' \in [Tickets -> Seq(Heard)]
    <3>1. CASE socket[activeTicket] = "open"
      BY <1>5, <2>1, <3>1, HearsType DEF Answers, Heard
    <3>2. CASE socket[activeTicket] # "open"
      BY <1>5, <3>2 DEF Answers, TypeOK
    <3> QED
      BY <3>1, <3>2
  <2>3. consent' \in [Tickets -> Keys \cup {None}]
    BY <1>5, <2>1 DEF Answers, TypeOK
  <2>4. approved' \subseteq Targets \X Keys /\ misled' \subseteq Targets \X Keys
    <3>1. session[activeTicket].target \in Targets /\ pinTo[activeTicket] \in Targets
      BY <2>1 DEF TypeOK, Session
    <3> QED
      BY <1>5, <2>1, <3>1 DEF Answers, Judged, TypeOK
  <2> QED
    BY <1>5, <2>2, <2>3, <2>4 DEF Answers, TypeOK
<1> QED
  BY <1>1, <1>2, <1>3, <1>4, <1>5

LEMMA TypeStep ==
  ASSUME SessionInv, [Next]_vars
  PROVE  TypeOK'
<1>1. CASE UNCHANGED vars
  BY <1>1 DEF vars, service, wires, view, shown, history, SessionInv, TypeOK
<1>2. CASE Next
  BY <1>2, SessionTypes, ServiceTypes, PageTypes, SocketTypes DEF Next
<1> QED
  BY <1>1, <1>2

-----------------------------------------------------------------------------
(* What a session's step may do.                                           *)
SessionMove(t) ==
    /\ SessionStep
    /\ \A u \in Tickets : u # t =>
          session'[u] = session[u] /\ toPage'[u] = toPage[u] /\ toSession'[u] = toSession[u]
    /\ session[t].phase # "none" /\ session'[t].phase \notin {"none", "provisioned"}
    /\ socket[t] = "none" => toPage'[t] = toPage[t] /\ session'[t].phase = "over"
    /\ session'[t].phase = "over" => toSession'[t] = <<>>
    /\ session'[t].target = session[t].target /\ session'[t].pinned = session[t].pinned
    /\ session[t].phase # "provisioned" => session'[t].key = session[t].key
    /\ Live(t)' => session'[t].key # None
    /\ Range(toSession'[t]) \subseteq Range(toSession[t])
    /\ \A m \in Range(toPage'[t]) :
          \/ m \in Range(toPage[t]) \/ m[1] \in Status \cup {"end", "hostkey-mismatch"}
          \/ m[2] = session[t].key /\ session'[t].key = session[t].key /\
                (m[1] = "hostkey-accepted" => session[t].phase = "going" /\ session[t].pinned = None)
    /\ session'[t].phase \in {"going", "up"} /\ session[t].pinned = None =>
          \/ session[t].phase \in {"going", "up"}
          \/ session[t].phase = "asking" /\ "accept" \in Range(toSession[t])

(* The user has judged the session's key to be that of the server that the *)
(* session's page pins it to, misled or not.                               *)
Own(t) == <<pinTo[t], session[t].key>> \in approved \cup misled

(* A ticket pins to the server that it is for, unless its page was turned  *)
(* into another server's.                                                  *)
Aimed(t) == pinTo[t] = session[t].target \/ renamed

(* What the other steps may do, but for that of ConnectServed.             *)
PageMove ==
    /\ UNCHANGED session /\ approved \subseteq approved' /\ misled \subseteq misled'
    /\ open' => activeTicket' \in Tickets
    /\ \A u \in Tickets :
          /\ Listens(u)' => open' /\ u = activeTicket'
          /\ socket'[u] = "none" => socket[u] = "none"
          /\ session[u].phase = "none" => socket'[u] = "none"
          /\ socket'[u] = "open" => socket[u] = "open" \/ toPage[u] # <<>>
          /\ toPage[u] = <<>> => toPage'[u] = <<>>
          /\ Range(toPage'[u]) \subseteq Range(toPage[u])
          /\ socket[u] = "none" \/ session[u].phase = "over" => toSession'[u] = toSession[u]
          /\ "accept" \in Range(toSession'[u]) =>
                \/ "accept" \in Range(toSession[u])
                \/ consent'[u] = session[u].key /\ socket[u] = "open" /\ (Aimed(u) => Own(u)')
          /\ consent'[u] # consent[u] => consent'[u] = session[u].key
          /\ socket[u] # "none" => pinTo'[u] = pinTo[u]

LEMMA RangeEmpty == Range(<<>>) = {}
BY DEF Range

LEMMA RangeFacts ==
  ASSUME NEW S, NEW s \in Seq(S)
  PROVE  /\ \A e \in S : Range(Append(s, e)) = Range(s) \cup {e}
         /\ s # <<>> => Head(s) \in Range(s) /\ Range(Tail(s)) \subseteq Range(s)
         /\ \A a, b \in S : /\ Range(s \o <<a>>) = Range(s) \cup {a}
                            /\ Range(s \o <<a, b>>) = Range(s) \cup {a, b}
<1>1. ASSUME NEW e \in S  PROVE Range(Append(s, e)) = Range(s) \cup {e}
  <2>1. <<e>> \in Seq(S) /\ Append(s, e) = s \o <<e>>
    OBVIOUS
  <2>2. Range(<<e>>) = {e}
    BY DEF Range
  <2>3. Range(s \o <<e>>) = Range(s) \cup Range(<<e>>)
    BY <2>1, RangeConcatenation
  <2> QED
    BY <2>1, <2>2, <2>3, Zenon
<1>2. ASSUME s # <<>>  PROVE Head(s) \in Range(s) /\ Range(Tail(s)) \subseteq Range(s)
  <2>1. Head(s) = s[1] /\ 1 \in DOMAIN s
    BY <1>2
  <2>2. \A i \in DOMAIN Tail(s) : Tail(s)[i] = s[i + 1] /\ i + 1 \in DOMAIN s
    BY <1>2
  <2> QED
    BY <2>1, <2>2 DEF Range
<1>3. ASSUME NEW a \in S, NEW b \in S
      PROVE  /\ Range(s \o <<a>>) = Range(s) \cup {a}
             /\ Range(s \o <<a, b>>) = Range(s) \cup {a, b}
  <2>1. <<a>> \in Seq(S) /\ <<a, b>> \in Seq(S)
    OBVIOUS
  <2>2. Range(<<a>>) = {a} /\ Range(<<a, b>>) = {a, b}
    BY DEF Range
  <2>3. Range(s \o <<a>>) = Range(s) \cup Range(<<a>>)
    BY <2>1, RangeConcatenation
  <2>4. Range(s \o <<a, b>>) = Range(s) \cup Range(<<a, b>>)
    BY <2>1, RangeConcatenation
  <2> QED
    BY <2>2, <2>3, <2>4
<1> QED
  BY <1>1, <1>2, <1>3

(* What is sent comes after what was.                                      *)
LEMMA SendsRange ==
  ASSUME TypeOK, NEW t \in Tickets, NEW messages \in Seq(Messages), Sends(t, messages)
  PROVE  /\ \A u \in Tickets : u # t => toPage'[u] = toPage[u]
         /\ ~Listens(t) => toPage'[t] = toPage[t]
         /\ Range(toPage'[t]) \subseteq Range(toPage[t]) \cup Range(messages)
<1>1. toPage[t] \in Seq(Messages) /\ Range(toPage[t] \o messages) = Range(toPage[t]) \cup Range(messages)
  BY RangeConcatenation DEF TypeOK
<1>2. toPage'[t] \in {toPage[t], toPage[t] \o messages}
  BY DEF Sends, TypeOK
<1> QED
  BY <1>1, <1>2 DEF Sends, TypeOK

LEMMA EndsMove ==
  ASSUME SessionInv, NEW t \in Tickets, NEW messages \in Seq(Messages), Ends(t, messages),
         SessionStep, session[t].phase \notin {"none", "provisioned", "over"},
         \A m \in Range(messages) : m[1] = "hostkey-mismatch"
  PROVE  SessionMove(t)
<1> USE DEF SessionInv
<1> DEFINE last == <<Say("closed"), Say("end")>>
<1>1. last \in Seq(Messages) /\ messages \o last \in Seq(Messages)
  BY MessageTypes, Messaged DEF Status
<1>2. Range(messages \o last) = Range(messages) \cup Range(last)
  BY <1>1, RangeConcatenation
<1>3. \A m \in Range(last) : m[1] \in Status \cup {"end"}
  BY DEF Range, Say, Status
<1>4. /\ \A u \in Tickets : u # t => toPage'[u] = toPage[u]
      /\ Range(toPage'[t]) \subseteq Range(toPage[t]) \cup Range(messages \o last)
  BY <1>1, SendsRange DEF Ends
<1> HIDE DEF last
<1>5. /\ \A u \in Tickets : u # t => session'[u] = session[u] /\ toSession'[u] = toSession[u]
      /\ session'[t] = [session[t] EXCEPT !.phase = "over"] /\ toSession'[t] = <<>>
  BY DEF Ends, Moves, TypeOK
<1>6. /\ session'[t].phase = "over" /\ session'[t].target = session[t].target
      /\ session'[t].pinned = session[t].pinned /\ session'[t].key = session[t].key
  BY <1>5 DEF TypeOK, Session
<1>7. socket[t] # "none" /\ Range(toSession'[t]) = {}
  BY <1>5, RangeEmpty DEF Windows
<1> QED
  BY <1>2, <1>3, <1>4, <1>5, <1>6, <1>7 DEF SessionMove, Live

LEMMA SessionMoves ==
  ASSUME SessionInv, NEW t \in Tickets,
         Expires(t) \/ Claimed(t) \/ ChecksKey(t) \/ Answered(t) \/ GoesUp(t) \/ Over(t)
  PROVE  SessionMove(t)
<1> USE DEF SessionInv
<1>1. SessionStep
  BY DEF Expires, Claimed, ChecksKey, Answered, GoesUp, Over
<1>2. /\ session[t] \in Session /\ <<>> \in Seq(Messages) /\ KeyInv(t)
      /\ Range(<<>>) = {}
      /\ toSession[t] # <<>> => Head(toSession[t]) \in Range(toSession[t]) /\
            Range(Tail(toSession[t])) \subseteq Range(toSession[t])
  BY RangeEmpty, RangeFacts DEF TypeOK, KeysInv
<1>3. ASSUME NEW phase \in Phases, Moves(t, phase)
      PROVE  /\ \A u \in Tickets : u # t => session'[u] = session[u]
             /\ session'[t].phase = phase /\ session'[t].target = session[t].target
             /\ session'[t].pinned = session[t].pinned /\ session'[t].key = session[t].key
  <2>1. /\ \A u \in Tickets : u # t => session'[u] = session[u]
        /\ session'[t] = [session[t] EXCEPT !.phase = phase]
    BY <1>3 DEF Moves, TypeOK
  <2> QED
    BY <1>2, <2>1 DEF Session
<1>4. CASE Expires(t)
  <2>1. /\ Moves(t, "over") /\ session[t].phase = "provisioned"
        /\ toSession' = [toSession EXCEPT ![t] = <<>>] /\ UNCHANGED toPage
    BY <1>4 DEF Expires
  <2>2. /\ \A u \in Tickets : u # t => toSession'[u] = toSession[u]
        /\ toSession'[t] = <<>>
    BY <2>1 DEF TypeOK
  <2> QED
    BY <1>1, <1>2, <1>3, <2>1, <2>2 DEF SessionMove, Live, Phases
<1>5. CASE Claimed(t)
  <2> DEFINE k == hostKey[session[t].target]
  <2>1. k \in Keys
    BY <1>2 DEF TypeOK, Session
  <2>2. /\ session[t].phase = "provisioned" /\ socket[t] # "none" /\ UNCHANGED toSession
        /\ Sends(t, <<Say("connecting")>>)
    BY <1>5 DEF Claimed
  <2>3. session' = [session EXCEPT ![t] = [@ EXCEPT !.phase = "checking", !.key = k]]
    BY <1>5 DEF Claimed
  <2> HIDE DEF k
  <2>4. /\ \A u \in Tickets : u # t => session'[u] = session[u]
        /\ session'[t].phase = "checking" /\ session'[t].key = k
        /\ session'[t].target = session[t].target /\ session'[t].pinned = session[t].pinned
    BY <1>2, <2>3 DEF TypeOK, Session
  <2>5. /\ \A u \in Tickets : u # t => toPage'[u] = toPage[u]
        /\ Range(toPage'[t]) \subseteq Range(toPage[t]) \cup Range(<<Say("connecting")>>)
    BY <2>2, SendsRange, MessageTypes, Messaged DEF Status
  <2>6. \A m \in Range(<<Say("connecting")>>) : m[1] \in Status
    BY DEF Range, Say, Status
  <2> QED
    BY <1>1, <1>2, <2>1, <2>2, <2>4, <2>5, <2>6, TargetsAssumption DEF SessionMove, Live
<1>6. CASE ChecksKey(t)
  <2>1. /\ session[t].phase = "checking" /\ session[t].key \in Keys /\ socket[t] # "none"
    BY <1>2, <1>6 DEF ChecksKey, Windows, KeyInv, Live, Session
  <2>2. CASE session[t].pinned = None
    <3>1. Moves(t, "asking") /\ Sends(t, <<<<"hostkey", session[t].key>>>>) /\ UNCHANGED toSession
      BY <1>6, <2>2 DEF ChecksKey
    <3>2. /\ \A u \in Tickets : u # t => toPage'[u] = toPage[u]
          /\ Range(toPage'[t]) \subseteq Range(toPage[t]) \cup Range(<<<<"hostkey", session[t].key>>>>)
      BY <2>1, <3>1, SendsRange, MessageTypes, Messaged
    <3>3. \A m \in Range(<<<<"hostkey", session[t].key>>>>) : m[1] = "hostkey" /\ m[2] = session[t].key
      BY DEF Range
    <3> QED
      BY <1>1, <1>2, <1>3, <2>1, <3>1, <3>2, <3>3 DEF SessionMove, Live, KeyInv, Phases
  <2>3. CASE session[t].pinned # None /\ session[t].pinned = session[t].key
    <3>1. Moves(t, "going") /\ UNCHANGED wires
      BY <1>6, <2>3 DEF ChecksKey
    <3> QED
      BY <1>1, <1>2, <1>3, <2>1, <2>3, <3>1 DEF SessionMove, Live, KeyInv, Phases, wires
  <2>4. CASE session[t].pinned # None /\ session[t].pinned # session[t].key
    <3>1. Ends(t, <<<<"hostkey-mismatch", session[t].key>>>>)
      BY <1>6, <2>4 DEF ChecksKey
    <3>2. <<<<"hostkey-mismatch", session[t].key>>>> \in Seq(Messages)
      BY <2>1, MessageTypes, Messaged
    <3>3. \A m \in Range(<<<<"hostkey-mismatch", session[t].key>>>>) : m[1] = "hostkey-mismatch"
      BY DEF Range
    <3> QED
      BY <1>1, <2>1, <3>1, <3>2, <3>3, EndsMove
  <2> QED
    BY <2>2, <2>3, <2>4
<1>7. CASE Answered(t)
  <2>1. /\ toSession[t] # <<>> /\ session[t].phase \notin {"none", "provisioned", "over"}
        /\ socket[t] # "none"
    BY <1>2, <1>7 DEF Answered, Windows, KeyInv
  <2>2. CASE Ends(t, <<>>)
    BY <1>1, <1>2, <2>1, <2>2, EndsMove
  <2>3. CASE /\ \/ Moves(t, "going") /\ Head(toSession[t]) = "accept" /\ session[t].phase = "asking"
                \/ UNCHANGED session
             /\ toSession' = [toSession EXCEPT ![t] = Tail(@)] /\ UNCHANGED toPage
    <3>1. /\ \A u \in Tickets : u # t => toSession'[u] = toSession[u]
          /\ toSession'[t] = Tail(toSession[t])
      BY <2>3 DEF TypeOK
    <3>2. CASE Moves(t, "going") /\ Head(toSession[t]) = "accept" /\ session[t].phase = "asking"
      BY <1>1, <1>2, <1>3, <2>1, <2>3, <3>1, <3>2 DEF SessionMove, Live, KeyInv, Phases
    <3>3. CASE UNCHANGED session
      BY <1>1, <1>2, <2>1, <2>3, <3>1, <3>3 DEF SessionMove, Live, KeyInv
    <3> QED
      BY <2>3, <3>2, <3>3
  <2> QED
    BY <1>7, <2>2, <2>3 DEF Answered
<1>8. CASE GoesUp(t)
  <2> DEFINE said == IF session[t].pinned = None
                     THEN <<<<"hostkey-accepted", session[t].key>>, Say("connected")>>
                     ELSE <<Say("connected")>>
  <2>1. session[t].phase = "going" /\ session[t].key \in Keys /\ socket[t] # "none"
    BY <1>2, <1>8 DEF GoesUp, Windows, KeyInv, Live, Session
  <2>2. Moves(t, "up") /\ Sends(t, said) /\ UNCHANGED toSession
    BY <1>8 DEF GoesUp
  <2>3. said \in Seq(Messages)
    BY <2>1, MessageTypes, Messaged DEF Status
  <2>4. \A m \in Range(said) :
            \/ m[1] = "connected"
            \/ m[1] = "hostkey-accepted" /\ m[2] = session[t].key /\ session[t].pinned = None
    BY DEF Range, Say
  <2> HIDE DEF said
  <2>5. /\ \A u \in Tickets : u # t => toPage'[u] = toPage[u]
        /\ Range(toPage'[t]) \subseteq Range(toPage[t]) \cup Range(said)
    BY <2>2, <2>3, SendsRange
  <2> QED
    BY <1>1, <1>2, <1>3, <2>1, <2>2, <2>4, <2>5 DEF SessionMove, Live, KeyInv, Phases, Status
<1>9. CASE Over(t)
  <2>1. Ends(t, <<>>) /\ session[t].phase \notin {"none", "provisioned", "over"}
    BY <1>9 DEF Over
  <2> QED
    BY <1>1, <1>2, <2>1, EndsMove
<1> QED
  BY <1>4, <1>5, <1>6, <1>7, <1>8, <1>9

LEMMA HearsRange ==
  ASSUME TypeOK, NEW t \in Tickets, NEW answer \in Heard, Hears(t, answer)
  PROVE  /\ \A u \in Tickets : u # t => toSession'[u] = toSession[u]
         /\ session[t].phase = "over" => toSession'[t] = toSession[t]
         /\ Range(toSession'[t]) \subseteq Range(toSession[t]) \cup {answer}
<1>1. toSession[t] \in Seq(Heard)
  BY DEF TypeOK
<1>2. Range(Append(toSession[t], answer)) = Range(toSession[t]) \cup {answer}
  BY <1>1, RangeFacts
<1> QED
  BY <1>2 DEF Hears, TypeOK

(* A cleanup leaves nothing to listen, and the session hears of it.        *)
LEMMA CleanupMove ==
  ASSUME SessionInv, Cleanup
  PROVE  \A u \in Tickets :
            /\ Hung[u] \notin {"connecting", "open"}
            /\ Hung[u] = "none" <=> socket[u] = "none"
            /\ toPage'[u] \in {toPage[u], <<>>}
            /\ socket[u] = "none" \/ session[u].phase = "over" => toSession'[u] = toSession[u]
            /\ Range(toSession'[u]) \subseteq Range(toSession[u]) \cup {"bye"}
<1> USE DEF SessionInv
<1> TAKE u \in Tickets
<1>1. /\ Hung[u] \notin {"connecting", "open"} /\ (Hung[u] = "none" <=> socket[u] = "none")
      /\ toPage'[u] \in {toPage[u], <<>>}
  BY DEF Cleanup, Hung, Hangs, Listens, Windows, TypeOK
<1>2. CASE \E t \in Tickets : Hangs(t)
  <2>1. activeTicket \in Tickets /\ Listens(activeTicket) /\ Hears(activeTicket, "bye")
    BY <1>2 DEF Cleanup, Hangs
  <2>2. socket[activeTicket] # "none"
    BY <2>1 DEF Listens
  <2> QED
    BY <1>1, <2>1, <2>2, HearsRange DEF Heard
<1>3. CASE ~\E t \in Tickets : Hangs(t)
  BY <1>1, <1>3 DEF Cleanup
<1> QED
  BY <1>2, <1>3

LEMMA EffectMove ==
  ASSUME SessionInv, NEW ticket \in Tickets, NEW server, NEW number,
         Effect(ticket, server, number), open', session[ticket].phase # "none",
         socket[ticket] = "none"
  PROVE  PageMove /\ pendingFingerprint' = None /\ socket' = [Hung EXCEPT ![ticket] = "connecting"]
<1> USE DEF SessionInv
<1>1. /\ Cleanup /\ socket' = [Hung EXCEPT ![ticket] = "connecting"] /\ activeTicket' = ticket
      /\ pendingFingerprint' = None /\ UNCHANGED <<session, consent, approved, misled>>
      /\ \A u \in Tickets : socket[u] # "none" => pinTo'[u] = pinTo[u]
  BY DEF Effect, Afresh, service, TypeOK
<1>2. Hung \in [Tickets -> {"none", "connecting", "open", "closing", "closed"}]
  BY <1>1, CleanupType
<1>3. /\ socket'[ticket] = "connecting"
      /\ \A u \in Tickets : u # ticket => socket'[u] = Hung[u]
  BY <1>1, <1>2
<1>4. Range(<<>>) = {} /\ \A u \in Tickets : session[u].phase = "none" => socket[u] = "none"
  BY RangeEmpty DEF Windows
<1> QED
  BY <1>1, <1>3, <1>4, CleanupMove DEF PageMove, Listens

LEMMA ClosesMove ==
  ASSUME SessionInv, NEW t \in Tickets, Closes(t), socket[t] # "none",
         \/ UNCHANGED toSession
         \/ Hears(t, "bye")
  PROVE  PageMove
<1> USE DEF SessionInv
<1>1. /\ socket' = [socket EXCEPT ![t] = "closed"] /\ toPage' = [toPage EXCEPT ![t] = <<>>]
      /\ UNCHANGED <<session, open, activeTicket, consent, approved, misled, pinTo>>
  BY DEF Closes, SocketStep, history
<1>2. /\ socket'[t] = "closed" /\ toPage'[t] = <<>>
      /\ \A u \in Tickets : u # t => socket'[u] = socket[u] /\ toPage'[u] = toPage[u]
  BY <1>1 DEF TypeOK
<1>3. \A u \in Tickets :
          /\ Range(toSession'[u]) \subseteq Range(toSession[u]) \cup {"bye"}
          /\ u # t \/ session[u].phase = "over" => toSession'[u] = toSession[u]
  BY HearsRange DEF Heard
<1>4. Range(<<>>) = {}
  BY RangeEmpty
<1> QED
  BY <1>1, <1>2, <1>3, <1>4 DEF PageMove, Listens, Windows

(* Steps that leave the sessions, the wires and the sockets alone.         *)
LEMMA Aside ==
  ASSUME SessionInv, UNCHANGED <<session, wires, socket, open, activeTicket, pinTo, consent, approved, misled>>
  PROVE  PageMove
BY DEF SessionInv, PageMove, Windows, Listens, wires

LEMMA PageMoves ==
  ASSUME SessionInv,
         \/ \E s \in Targets : Rebuild(s) \/ ConnectClicked(s)
         \/ \E s \in Servers, k \in Keys : Pinned(s, k)
         \/ \E c \in 1..MAX_CALLS :
               PatchServed(c) \/ Opened(c) \/ Forgotten(c) \/ Reconnected(c) \/ Refused(c)
         \/ \E t \in Tickets :
               Opens(t) \/ Closed(t) \/ UpgradeRefused(t) \/ Breaks(t) \/ Receives(t)
         \/ Leaves \/ ForgetClicked \/ ReconnectClicked
         \/ \E answer \in {"accept", "refuse"} : Answers(answer)
  PROVE  PageMove
<1> USE DEF SessionInv
<1>1. CASE \/ \E s \in Targets : Rebuild(s) \/ ConnectClicked(s)
           \/ \E s \in Servers, k \in Keys : Pinned(s, k)
           \/ \E c \in 1..MAX_CALLS : PatchServed(c) \/ Forgotten(c) \/ Refused(c)
           \/ ForgetClicked \/ ReconnectClicked
  BY <1>1, Aside DEF Rebuild, ConnectClicked, Pinned, PatchServed, Forgotten, Refused,
        ForgetClicked, ReconnectClicked, service, view, history
<1>2. CASE Leaves
  <2>1. /\ Cleanup /\ socket' = Hung /\ open' = FALSE /\ UNCHANGED <<session, pinTo, consent, approved, misled>>
    BY <1>2 DEF Leaves, service, history
  <2>2. Range(<<>>) = {} /\ \A u \in Tickets : session[u].phase = "none" => socket[u] = "none"
    BY RangeEmpty DEF Windows
  <2> QED
    BY <2>1, <2>2, CleanupMove DEF PageMove, Listens
<1>3. ASSUME NEW c \in 1..MAX_CALLS, Opened(c)  PROVE PageMove
  <2>1. CASE open
    BY <1>3, <2>1, Aside DEF Opened, service, history
  <2>2. CASE ~open
    <3>1. open' /\ Effect(calls[c].ticket, calls[c].target, page + 1) /\ Answer(c)
      BY <1>3, <2>2 DEF Opened, Answer
    <3> QED
      BY <3>1, EffectMove DEF TicketsInv
  <2> QED
    BY <2>1, <2>2
<1>4. ASSUME NEW c \in 1..MAX_CALLS, Reconnected(c)  PROVE PageMove
  <2>1. CASE ~Heeded(c)
    BY <1>4, <2>1, Aside DEF Reconnected, service, history
  <2>2. CASE Heeded(c)
    <3>1. open' /\ Effect(calls[c].ticket, serverId, page) /\ Answer(c)
      BY <1>4, <2>2 DEF Reconnected, Heeded, Answer
    <3> QED
      BY <3>1, EffectMove DEF TicketsInv
  <2> QED
    BY <2>1, <2>2
<1>5. ASSUME NEW t \in Tickets, Opens(t)  PROVE PageMove
  <2>1. /\ socket[t] = "connecting" /\ toPage[t] # <<>> /\ socket' = [socket EXCEPT ![t] = "open"]
        /\ UNCHANGED <<session, wires, open, activeTicket, pinTo, consent, approved, misled>>
    BY <1>5 DEF Opens, SocketStep, history
  <2>2. socket'[t] = "open" /\ \A u \in Tickets : u # t => socket'[u] = socket[u]
    BY <2>1 DEF TypeOK
  <2> QED
    BY <2>1, <2>2 DEF PageMove, Windows, Listens, wires
<1>6. ASSUME NEW t \in Tickets, Closed(t) \/ UpgradeRefused(t) \/ Breaks(t)  PROVE PageMove
  BY <1>6, ClosesMove DEF Closed, UpgradeRefused, Breaks, Listens
<1>7. ASSUME NEW t \in Tickets, Receives(t)  PROVE PageMove
  <2>1. /\ socket[t] = "open" /\ toPage[t] # <<>> /\ toPage' = [toPage EXCEPT ![t] = Tail(@)]
        /\ socket' \in {socket, [socket EXCEPT ![t] = "closing"]}
        /\ UNCHANGED <<session, toSession, open, activeTicket, pinTo, consent, approved, misled>>
    BY <1>7 DEF Receives, SocketStep, history
  <2>2. /\ socket'[t] \in {"open", "closing"} /\ toPage'[t] = Tail(toPage[t])
        /\ \A u \in Tickets : u # t => socket'[u] = socket[u] /\ toPage'[u] = toPage[u]
    BY <2>1 DEF TypeOK
  <2>3. Range(Tail(toPage[t])) \subseteq Range(toPage[t])
    BY <2>1, RangeFacts DEF TypeOK
  <2> QED
    BY <2>1, <2>2, <2>3 DEF PageMove, Windows, Listens
<1>8. ASSUME NEW answer \in {"accept", "refuse"}, Answers(answer)  PROVE PageMove
  <2>1. /\ open /\ activeTicket \in Tickets /\ pendingFingerprint # None
        /\ UNCHANGED <<session, toPage, socket, open, activeTicket, pinTo>>
    BY <1>8 DEF Answers, SocketStep, Windows
  <2>2. CASE socket[activeTicket] # "open"
    BY <1>8, <2>1, <2>2, Aside DEF Answers, wires
  <2>3. CASE socket[activeTicket] = "open"
    <3>1. pendingFingerprint = session[activeTicket].key
      BY <2>1, <2>3 DEF KeysInv, Listens
    <3>2. /\ \A u \in Tickets : u # activeTicket => toSession'[u] = toSession[u]
          /\ session[activeTicket].phase = "over" => toSession'[activeTicket] = toSession[activeTicket]
          /\ Range(toSession'[activeTicket]) \subseteq Range(toSession[activeTicket]) \cup {answer}
      BY <1>8, <2>1, <2>3, HearsRange DEF Answers, Heard
    <3>3. /\ \A u \in Tickets : u # activeTicket => consent'[u] = consent[u]
          /\ consent'[activeTicket] # consent[activeTicket] =>
                consent'[activeTicket] = session[activeTicket].key
          /\ answer = "accept" => consent'[activeTicket] = session[activeTicket].key
      BY <1>8, <2>1, <2>3, <3>1 DEF Answers, TypeOK
    <3>4. /\ approved \subseteq approved' /\ misled \subseteq misled'
          /\ answer = "accept" /\ Aimed(activeTicket) => Own(activeTicket)'
      BY <1>8, <2>1, <2>3, <3>1 DEF Answers, Judged, Aimed, Own
    <3> QED
      BY <2>1, <2>3, <3>2, <3>3, <3>4 DEF PageMove, Windows, Listens
  <2> QED
    BY <2>2, <2>3
<1> QED
  BY <1>1, <1>2, <1>3, <1>4, <1>5, <1>6, <1>7, <1>8

-----------------------------------------------------------------------------
(* A call that goes on keeps what it is for, one that has returned is done, *)
(* and the others are left alone.                                          *)
LEMMA CallMoves ==
  ASSUME TypeOK, NEW c \in 1..MAX_CALLS
  PROVE  /\ \A step : Goes(c, step) =>
              /\ calls'[c].step = step /\ calls'[c].target = calls[c].target
              /\ calls'[c].ticket = calls[c].ticket /\ calls'[c].kind = calls[c].kind
              /\ calls'[c].by = calls[c].by
              /\ \A d \in 1..MAX_CALLS : d # c => calls'[d] = calls[d]
         /\ Returns(c) =>
              /\ calls'[c].step = "done"
              /\ \A d \in 1..MAX_CALLS : d # c => calls'[d] = calls[d]
<1>1. calls[c] \in Call
  BY DEF TypeOK
<1>2. ASSUME NEW step, Goes(c, step)
      PROVE  /\ calls'[c] = [calls[c] EXCEPT !.step = step]
             /\ \A d \in 1..MAX_CALLS : d # c => calls'[d] = calls[d]
  BY <1>2 DEF Goes, TypeOK
<1>3. ASSUME Returns(c)
      PROVE  /\ calls'[c] = NoCall("done")
             /\ \A d \in 1..MAX_CALLS : d # c => calls'[d] = calls[d]
  BY <1>3 DEF Returns, TypeOK
<1>4. NoCall("done").step = "done"
  BY DEF NoCall
<1>5. ASSUME NEW step, Goes(c, step)
      PROVE  /\ calls'[c].step = step /\ calls'[c].target = calls[c].target
             /\ calls'[c].ticket = calls[c].ticket /\ calls'[c].kind = calls[c].kind
             /\ calls'[c].by = calls[c].by
  <2>1. calls'[c] = [calls[c] EXCEPT !.step = step]
    BY <1>2, <1>5
  <2> QED
    BY <1>1, <2>1 DEF Call
<1> QED
  BY <1>2, <1>3, <1>4, <1>5

(* A new session is provisioned for a ticket that nobody has.              *)
ServedMove(c, ticket) ==
    /\ ticket \in Tickets /\ session[ticket].phase = "none"
    /\ \A u \in Tickets : u # ticket => session'[u] = session[u]
    /\ session'[ticket].target = calls[c].target /\ session'[ticket].key = None
    /\ session'[ticket].phase = "provisioned"
    /\ calls'[c].step = "refused" \/ (calls'[c].step = "connected" /\ calls'[c].ticket = ticket)
    /\ calls'[c].target = calls[c].target /\ calls'[c].kind = calls[c].kind
    /\ calls'[c].by = calls[c].by
    /\ \A d \in 1..MAX_CALLS : d # c => calls'[d] = calls[d]

LEMMA ServedMoves ==
  ASSUME SessionInv, NEW c \in 1..MAX_CALLS, ConnectServed(c)
  PROVE  /\ UNCHANGED <<pin, hostKey, rebuilds, pinning, wires, socket, view, history>>
         /\ calls[c].step = "connect"
         /\ \/ \E ticket \in Tickets : ServedMove(c, ticket)
            \/ Goes(c, "refused") /\ UNCHANGED session
<1> USE DEF SessionInv
<1> DEFINE target == calls[c].target
           pinned == IF target = Unsaved THEN None ELSE pin[target]
           ticket == Lowest(Unused)
<1>1. CASE /\ Unused # {}
           /\ session' = [session EXCEPT ![ticket] = [target |-> target, pinned |-> pinned,
                  key |-> None, phase |-> "provisioned"]]
           /\ \/ calls' = [calls EXCEPT ![c] = [@ EXCEPT !.step = "connected", !.ticket = ticket]]
              \/ Goes(c, "refused")
  <2>1. ticket \in Tickets /\ session[ticket].phase = "none"
    BY <1>1, LowestUnused
  <2> HIDE DEF ticket, pinned
  <2>2. /\ session'[ticket] = [target |-> target, pinned |-> pinned, key |-> None, phase |-> "provisioned"]
        /\ \A u \in Tickets : u # ticket => session'[u] = session[u]
    BY <1>1, <2>1 DEF TypeOK
  <2>3. calls[c] \in Call
    BY DEF TypeOK
  <2>4. ASSUME Goes(c, "refused")  PROVE ServedMove(c, ticket)
    BY <1>1, <2>1, <2>2, <2>4, CallMoves DEF ServedMove
  <2>5. ASSUME calls' = [calls EXCEPT ![c] = [@ EXCEPT !.step = "connected", !.ticket = ticket]]
        PROVE  ServedMove(c, ticket)
    <3>1. /\ calls'[c] = [calls[c] EXCEPT !.step = "connected", !.ticket = ticket]
          /\ \A d \in 1..MAX_CALLS : d # c => calls'[d] = calls[d]
      BY <2>5 DEF TypeOK
    <3>2. /\ calls'[c].step = "connected" /\ calls'[c].ticket = ticket
          /\ calls'[c].target = calls[c].target /\ calls'[c].kind = calls[c].kind
          /\ calls'[c].by = calls[c].by
      BY <2>3, <3>1 DEF Call
    <3> QED
      BY <2>1, <2>2, <3>1, <3>2 DEF ServedMove
  <2>6. ServedMove(c, ticket)
    BY <1>1, <2>4, <2>5
  <2> QED
    BY <2>1, <2>6 DEF ConnectServed
<1> QED
  BY <1>1 DEF ConnectServed

LEMMA MakesMove ==
  ASSUME TypeOK, NEW kind, NEW target, NEW step, Makes(kind, target, step)
  PROVE  \E c \in 1..MAX_CALLS :
            /\ calls[c].step = "free" /\ calls'[c].step = step /\ calls'[c].kind = kind
            /\ calls'[c].target = target /\ calls'[c].by = page
            /\ \A d \in 1..MAX_CALLS : d # c => calls'[d] = calls[d]
<1> DEFINE c == Lowest(Free)
           call == [kind |-> kind, target |-> target, step |-> step, ticket |-> NoTicket, by |-> page]
<1>1. c \in 1..MAX_CALLS /\ calls[c].step = "free"
  BY LowestFree DEF Makes
<1>2. calls' = [calls EXCEPT ![c] = call]
  BY DEF Makes
<1> HIDE DEF c
<1>3. calls'[c] = call /\ \A d \in 1..MAX_CALLS : d # c => calls'[d] = calls[d]
  BY <1>1, <1>2 DEF TypeOK
<1> QED
  BY <1>1, <1>3

-----------------------------------------------------------------------------
(* The parts of the invariant, over the three kinds of steps.              *)
LEMMA WindowsStep ==
  ASSUME SessionInv,
         \/ \E t \in Tickets : SessionMove(t)
         \/ PageMove
         \/ \E c \in 1..MAX_CALLS : ConnectServed(c)
  PROVE  Windows'
<1> USE DEF SessionInv
<1>1. ASSUME NEW t \in Tickets, SessionMove(t)  PROVE Windows'
  <2>1. UNCHANGED <<socket, open, activeTicket>>
    BY <1>1 DEF SessionMove, SessionStep, view
  <2>2. /\ \A u \in Tickets : u # t =>
              session'[u] = session[u] /\ toPage'[u] = toPage[u] /\ toSession'[u] = toSession[u]
        /\ socket[t] = "none" => toPage'[t] = toPage[t] /\ session'[t].phase = "over" /\ toSession'[t] = <<>>
        /\ session'[t].phase # "none"
    BY <1>1 DEF SessionMove
  <2> QED
    BY <2>1, <2>2 DEF Windows, Listens
<1>2. CASE PageMove
  BY <1>2 DEF PageMove, Windows, Listens
<1>3. ASSUME NEW c \in 1..MAX_CALLS, ConnectServed(c)  PROVE Windows'
  <2>1. UNCHANGED <<socket, open, activeTicket, toPage, toSession>>
    BY <1>3, ServedMoves DEF wires, view
  <2>2. CASE UNCHANGED session
    BY <2>1, <2>2 DEF Windows, Listens
  <2>3. ASSUME NEW ticket \in Tickets, ServedMove(c, ticket)  PROVE Windows'
    BY <2>1, <2>3 DEF ServedMove, Windows, Listens
  <2> QED
    BY <1>3, <2>2, <2>3, ServedMoves
<1> QED
  BY <1>1, <1>2, <1>3

(* Where no new answer has come and no socket is made, tickets stay apart. *)
LEMMA TicketsKept ==
  ASSUME SessionInv,
         \A t \in Tickets : session'[t].target = session[t].target /\
             (session'[t].phase = "none" => session[t].phase = "none"),
         \A c \in 1..MAX_CALLS : Answer(c)' =>
             /\ Answer(c) /\ calls'[c].ticket = calls[c].ticket /\ calls'[c].target = calls[c].target
             /\ socket'[calls[c].ticket] = "none"
  PROVE  TicketsInv'
BY DEF SessionInv, TicketsInv

(* No step but an effect of the page makes a socket.                       *)
LEMMA NoSocket ==
  ASSUME SessionInv,
         \/ Leaves
         \/ \E t \in Tickets :
               Opens(t) \/ Closed(t) \/ UpgradeRefused(t) \/ Breaks(t) \/ Receives(t)
         \/ \E answer \in {"accept", "refuse"} : Answers(answer)
  PROVE  \A u \in Tickets : socket[u] = "none" => socket'[u] = "none"
<1> USE DEF SessionInv
<1>1. CASE Leaves
  BY <1>1, CleanupMove DEF Leaves
<1>2. ASSUME NEW t \in Tickets, Opens(t)
      PROVE  \A u \in Tickets : socket[u] = "none" => socket'[u] = "none"
  BY <1>2 DEF Opens, TypeOK
<1>3. ASSUME NEW t \in Tickets, Closed(t) \/ UpgradeRefused(t) \/ Breaks(t)
      PROVE  \A u \in Tickets : socket[u] = "none" => socket'[u] = "none"
  <2>1. socket[t] # "none" /\ socket' = [socket EXCEPT ![t] = "closed"]
    BY <1>3 DEF Closed, UpgradeRefused, Breaks, Closes, Listens
  <2> QED
    BY <2>1 DEF TypeOK
<1>4. ASSUME NEW t \in Tickets, Receives(t)
      PROVE  \A u \in Tickets : socket[u] = "none" => socket'[u] = "none"
  <2>1. socket[t] # "none" /\ socket' \in {socket, [socket EXCEPT ![t] = "closing"]}
    BY <1>4 DEF Receives
  <2> QED
    BY <2>1 DEF TypeOK
<1>5. CASE \E answer \in {"accept", "refuse"} : Answers(answer)
  BY <1>5 DEF Answers
<1> QED
  BY <1>1, <1>2, <1>3, <1>4, <1>5

(* An effect takes the ticket of the call that has just returned.          *)
LEMMA EffectTickets ==
  ASSUME SessionInv, NEW c \in 1..MAX_CALLS, Answer(c), Returns(c), open',
         NEW server, NEW number, Effect(calls[c].ticket, server, number)
  PROVE  TicketsInv'
<1> USE DEF SessionInv
<1>1. calls[c].ticket \in Tickets /\ session[calls[c].ticket].phase # "none"
  BY DEF TicketsInv
<1>2. UNCHANGED session /\ socket' = [Hung EXCEPT ![calls[c].ticket] = "connecting"] /\ Cleanup
  BY DEF Effect, service
<1>3. Hung \in [Tickets -> {"none", "connecting", "open", "closing", "closed"}]
  BY <1>2, CleanupType
<1>4. \A u \in Tickets : u # calls[c].ticket /\ socket[u] = "none" => socket'[u] = "none"
  BY <1>2, <1>3, CleanupMove
<1>5. ASSUME NEW d \in 1..MAX_CALLS, Answer(d)'
      PROVE  /\ Answer(d) /\ calls'[d].ticket = calls[d].ticket /\ calls'[d].target = calls[d].target
             /\ socket'[calls[d].ticket] = "none"
  <2>1. d # c /\ calls'[d] = calls[d]
    BY <1>5, CallMoves DEF Answer
  <2>2. Answer(d) /\ calls[d].ticket # calls[c].ticket
    BY <1>5, <2>1 DEF Answer, TicketsInv
  <2> QED
    BY <1>4, <2>1, <2>2 DEF TicketsInv
<1> QED
  BY <1>2, <1>5, TicketsKept

LEMMA TicketsStep ==
  ASSUME SessionInv, [Next]_vars
  PROVE  TicketsInv'
<1> USE DEF SessionInv
<1>1. CASE UNCHANGED vars
  BY <1>1 DEF vars, service, TicketsInv, Answer
<1>2. CASE UNCHANGED <<session, socket, calls>>
  BY <1>2 DEF TicketsInv, Answer
<1>3. ASSUME NEW t \in Tickets,
             Expires(t) \/ Claimed(t) \/ ChecksKey(t) \/ Answered(t) \/ GoesUp(t) \/ Over(t)
      PROVE  TicketsInv'
  <2>1. SessionMove(t)
    BY <1>3, SessionMoves
  <2>2. UNCHANGED <<socket, calls>>
    BY <2>1 DEF SessionMove, SessionStep
  <2>3. \A u \in Tickets : session'[u].target = session[u].target /\
             (session'[u].phase = "none" => session[u].phase = "none")
    BY <2>1 DEF SessionMove
  <2> QED
    BY <2>2, <2>3, TicketsKept DEF Answer, TicketsInv
<1>4. CASE (\E s \in Targets : Rebuild(s)) \/ (\E s \in Servers, k \in Keys : Pinned(s, k))
  BY <1>2, <1>4 DEF Rebuild, Pinned
<1>5. CASE \/ Leaves
           \/ \E t \in Tickets :
                 Opens(t) \/ Closed(t) \/ UpgradeRefused(t) \/ Breaks(t) \/ Receives(t)
           \/ \E answer \in {"accept", "refuse"} : Answers(answer)
  <2>1. UNCHANGED <<session, calls>>
    BY <1>5 DEF Leaves, Opens, Closed, UpgradeRefused, Breaks, Closes, Receives, Answers,
          SocketStep, service
  <2>2. \A u \in Tickets : socket[u] = "none" => socket'[u] = "none"
    BY <1>5, NoSocket
  <2> QED
    BY <2>1, <2>2, TicketsKept DEF Answer, TicketsInv
<1>6. CASE (\E s \in Targets : ConnectClicked(s)) \/ ForgetClicked \/ ReconnectClicked
  <2>1. /\ UNCHANGED <<session, socket>>
        /\ \E kind, target, step : step # "connected" /\ Makes(kind, target, step)
    BY <1>6 DEF ConnectClicked, ForgetClicked, ReconnectClicked, service
  <2>2. \A d \in 1..MAX_CALLS : Answer(d)' => calls'[d] = calls[d]
    BY <2>1, MakesMove DEF Answer
  <2> QED
    BY <2>1, <2>2, TicketsKept DEF Answer, TicketsInv
<1>7. ASSUME NEW c \in 1..MAX_CALLS, PatchServed(c) \/ Forgotten(c) \/ Refused(c)
      PROVE  TicketsInv'
  <2>1. /\ UNCHANGED <<session, socket>>
        /\ \/ \E step : step # "connected" /\ Goes(c, step)
           \/ Returns(c)
    BY <1>7 DEF PatchServed, Forgotten, Refused, service
  <2>2. \A d \in 1..MAX_CALLS : Answer(d)' => calls'[d] = calls[d]
    BY <2>1, CallMoves DEF Answer
  <2> QED
    BY <2>1, <2>2, TicketsKept DEF Answer, TicketsInv
<1>8. ASSUME NEW c \in 1..MAX_CALLS, Opened(c) \/ Reconnected(c)  PROVE TicketsInv'
  <2>1. Answer(c) /\ Returns(c)
    BY <1>8 DEF Opened, Reconnected, Answer
  <2>2. CASE open' /\ \E server, number : Effect(calls[c].ticket, server, number)
    BY <2>1, <2>2, EffectTickets
  <2>3. CASE UNCHANGED <<session, socket>>
    <3>1. \A d \in 1..MAX_CALLS : Answer(d)' => calls'[d] = calls[d]
      BY <2>1, CallMoves DEF Answer
    <3> QED
      BY <2>3, <3>1, TicketsKept DEF Answer, TicketsInv
  <2> QED
    BY <1>8, <2>2, <2>3 DEF Opened, Reconnected, Heeded, service
<1>9. ASSUME NEW c \in 1..MAX_CALLS, ConnectServed(c)  PROVE TicketsInv'
  <2>1. UNCHANGED socket /\ calls[c].step = "connect"
    BY <1>9, ServedMoves
  <2>2. CASE Goes(c, "refused") /\ UNCHANGED session
    <3>1. \A d \in 1..MAX_CALLS : Answer(d)' => calls'[d] = calls[d]
      BY <2>2, CallMoves DEF Answer
    <3> QED
      BY <2>1, <2>2, <3>1, TicketsKept DEF Answer, TicketsInv
  <2>3. ASSUME NEW ticket \in Tickets, ServedMove(c, ticket)  PROVE TicketsInv'
    <3>1. socket'[ticket] = "none"
      BY <2>1, <2>3 DEF ServedMove, Windows
    <3>2. \A d \in 1..MAX_CALLS : d # c /\ Answer(d)' =>
              /\ calls'[d] = calls[d] /\ Answer(d) /\ calls[d].ticket # ticket
      BY <2>3 DEF ServedMove, TicketsInv, Answer
    <3> QED
      BY <2>1, <2>3, <3>1, <3>2 DEF ServedMove, TicketsInv, Answer
  <2> QED
    BY <1>9, <2>2, <2>3, ServedMoves
<1> QED
  BY <1>1, <1>3, <1>4, <1>5, <1>6, <1>7, <1>8, <1>9 DEF Next

(* What is on the screen is from the session on the screen.                *)
Shows ==
    open /\ pendingFingerprint # None /\ Listens(activeTicket) =>
        socket[activeTicket] = "open" /\ pendingFingerprint = session[activeTicket].key

LEMMA ShowsStep ==
  ASSUME SessionInv, [Next]_vars
  PROVE  Shows'
<1> USE DEF SessionInv
<1>1. Shows
  BY DEF KeysInv, Shows
<1>2. CASE UNCHANGED <<open, pendingFingerprint, socket, session, activeTicket>>
  BY <1>1, <1>2 DEF Shows, Listens
<1>3. CASE ~open' \/ pendingFingerprint' = None
  BY <1>3 DEF Shows
<1>4. ASSUME NEW t \in Tickets,
             Expires(t) \/ Claimed(t) \/ ChecksKey(t) \/ Answered(t) \/ GoesUp(t) \/ Over(t)
      PROVE  Shows'
  <2>1. SessionMove(t)
    BY <1>4, SessionMoves
  <2>2. UNCHANGED <<open, pendingFingerprint, socket, activeTicket>>
    BY <2>1 DEF SessionMove, SessionStep, view, shown
  <2>3. CASE session[t].phase = "provisioned" /\ t = activeTicket
    <3>1. socket[t] # "open"
      BY <2>3 DEF KeysInv, KeyInv
    <3> QED
      BY <1>1, <2>2, <2>3, <3>1 DEF Shows, Listens
  <2>4. CASE session[t].phase # "provisioned" \/ t # activeTicket
    <3>1. open => session'[activeTicket].key = session[activeTicket].key
      BY <2>1, <2>4 DEF SessionMove, Windows
    <3> QED
      BY <1>1, <2>2, <3>1 DEF Shows, Listens
  <2> QED
    BY <2>3, <2>4
<1>5. CASE \/ \E s \in Targets : Rebuild(s) \/ ConnectClicked(s)
           \/ \E s \in Servers, k \in Keys : Pinned(s, k)
           \/ \E c \in 1..MAX_CALLS : PatchServed(c) \/ Forgotten(c) \/ Refused(c)
           \/ ForgetClicked \/ ReconnectClicked
  BY <1>2, <1>5 DEF Rebuild, ConnectClicked, Pinned, PatchServed, Forgotten, Refused,
        ForgetClicked, ReconnectClicked, service, view, shown
<1>6. CASE Leaves \/ \E answer \in {"accept", "refuse"} : Answers(answer)
  BY <1>3, <1>6 DEF Leaves, Answers, Afresh
<1>7. ASSUME NEW c \in 1..MAX_CALLS, Opened(c) \/ Reconnected(c)  PROVE Shows'
  BY <1>2, <1>3, <1>7 DEF Opened, Reconnected, Effect, Afresh, service, shown
<1>8. ASSUME NEW c \in 1..MAX_CALLS, ConnectServed(c)  PROVE Shows'
  <2>1. UNCHANGED <<open, pendingFingerprint, socket, activeTicket>>
    BY <1>8, ServedMoves DEF view, shown
  <2>2. ASSUME NEW ticket \in Tickets, ServedMove(c, ticket)  PROVE Shows'
    <3>1. socket[ticket] = "none"
      BY <2>2 DEF ServedMove, Windows
    <3>2. open /\ activeTicket # ticket => session'[activeTicket] = session[activeTicket]
      BY <2>2 DEF ServedMove, Windows
    <3> QED
      BY <1>1, <2>1, <3>1, <3>2 DEF Shows, Listens
  <2> QED
    BY <1>2, <1>8, <2>1, <2>2, ServedMoves
<1>9. ASSUME NEW t \in Tickets, Opens(t)  PROVE Shows'
  <2>1. t = activeTicket /\ open /\ socket[t] = "connecting"
    BY <1>9 DEF Opens, Windows, Listens
  <2>2. pendingFingerprint = None
    BY <1>1, <2>1 DEF Shows, Listens
  <2> QED
    BY <1>3, <1>9, <2>2 DEF Opens, shown
<1>10. ASSUME NEW t \in Tickets, Closed(t) \/ UpgradeRefused(t) \/ Breaks(t)  PROVE Shows'
  <2>1. /\ socket' = [socket EXCEPT ![t] = "closed"]
        /\ UNCHANGED <<open, pendingFingerprint, session, activeTicket>>
    BY <1>10 DEF Closed, UpgradeRefused, Breaks, Closes, SocketStep
  <2>2. open => socket'[activeTicket] \in {socket[activeTicket], "closed"}
    BY <2>1 DEF Windows, TypeOK
  <2> QED
    BY <1>1, <2>1, <2>2 DEF Shows, Listens
<1>11. ASSUME NEW t \in Tickets, Receives(t)  PROVE Shows'
  <2> DEFINE m == Head(toPage[t])
  <2>1. t = activeTicket /\ open /\ socket[t] = "open" /\ m \in Range(toPage[t])
    BY <1>11, RangeFacts DEF Receives, Windows, Listens, TypeOK
  <2>2. /\ UNCHANGED <<open, session, activeTicket>>
        /\ pendingFingerprint' = IF m[1] = "hostkey" THEN m[2] ELSE pendingFingerprint
        /\ socket' \in {socket, [socket EXCEPT ![t] = "closing"]}
    BY <1>11 DEF Receives, SocketStep
  <2>3. m[1] = "hostkey" => m[2] = session[t].key
    BY <2>1 DEF KeysInv, KeyInv
  <2>4. socket'[t] \in {"open", "closing"}
    BY <2>1, <2>2 DEF TypeOK
  <2> HIDE DEF m
  <2> QED
    BY <1>1, <2>1, <2>2, <2>3, <2>4 DEF Shows, Listens
<1>12. CASE UNCHANGED vars
  BY <1>2, <1>12 DEF vars, service, view, shown
<1> QED
  BY <1>4, <1>5, <1>6, <1>7, <1>8, <1>9, <1>10, <1>11, <1>12 DEF Next

LEMMA KeysStep ==
  ASSUME SessionInv,
         \/ \E t \in Tickets : SessionMove(t)
         \/ PageMove
         \/ \E c \in 1..MAX_CALLS : ConnectServed(c)
  PROVE  \A u \in Tickets : KeyInv(u)'
<1> USE DEF SessionInv
<1>1. ASSUME NEW t \in Tickets, SessionMove(t), NEW u \in Tickets  PROVE KeyInv(u)'
  <2>1. UNCHANGED <<socket, consent>> /\ KeyInv(u)
    BY <1>1 DEF SessionMove, SessionStep, history, KeysInv
  <2>2. CASE u # t
    BY <1>1, <2>1, <2>2 DEF SessionMove, KeyInv, Live
  <2>3. CASE u = t
    <3>1. session'[t].phase \notin {"none", "provisioned"}
      BY <1>1 DEF SessionMove
    <3>2. ASSUME NEW m \in Range(toPage'[t]), m[1] \in {"hostkey", "hostkey-accepted"}
          PROVE  m[2] = session'[t].key
      <4>1. \/ m \in Range(toPage[t]) /\ m[2] = session[t].key
            \/ m[2] = session[t].key /\ session'[t].key = session[t].key
        BY <1>1, <2>1, <2>3, <3>2 DEF SessionMove, KeyInv, Status
      <4>2. m \in Range(toPage[t]) => session[t].phase # "provisioned"
        BY <2>1, <2>3, RangeEmpty DEF KeyInv
      <4> QED
        BY <1>1, <4>1, <4>2 DEF SessionMove
    <3>3. ASSUME "accept" \in Range(toSession'[t])  PROVE consent'[t] = session'[t].key
      <4>1. "accept" \in Range(toSession[t]) /\ consent[t] = session[t].key
        BY <1>1, <2>1, <2>3, <3>3 DEF SessionMove, KeyInv
      <4>2. session[t].phase # "provisioned"
        BY <2>1, <2>3, <4>1 DEF KeyInv
      <4> QED
        BY <1>1, <2>1, <4>1, <4>2 DEF SessionMove
    <3>4. session'[t].phase = "over" => toSession'[t] = <<>>
      BY <1>1 DEF SessionMove
    <3>5. Live(t)' => session'[t].key # None
      BY <1>1 DEF SessionMove
    <3> QED
      BY <2>3, <3>1, <3>2, <3>3, <3>4, <3>5 DEF KeyInv
  <2> QED
    BY <2>2, <2>3
<1>2. ASSUME PageMove, NEW u \in Tickets  PROVE KeyInv(u)'
  <2>1. KeyInv(u) /\ session'[u] = session[u]
    BY <1>2 DEF PageMove, KeysInv
  <2>2. /\ socket'[u] = "open" => socket[u] = "open" \/ toPage[u] # <<>>
        /\ toPage[u] = <<>> => toPage'[u] = <<>>
        /\ Range(toPage'[u]) \subseteq Range(toPage[u])
        /\ session[u].phase = "over" => toSession'[u] = toSession[u]
        /\ "accept" \in Range(toSession'[u]) =>
              \/ "accept" \in Range(toSession[u])
              \/ consent'[u] = session[u].key /\ socket[u] = "open" /\ (Aimed(u) => Own(u)')
        /\ consent'[u] # consent[u] => consent'[u] = session[u].key
    BY <1>2 DEF PageMove
  <2> QED
    BY <2>1, <2>2 DEF KeyInv, Live
<1>3. ASSUME NEW c \in 1..MAX_CALLS, ConnectServed(c), NEW u \in Tickets  PROVE KeyInv(u)'
  <2>1. UNCHANGED <<socket, consent, toPage, toSession>> /\ KeyInv(u)
    BY <1>3, ServedMoves DEF wires, history, KeysInv
  <2>2. CASE UNCHANGED session
    BY <2>1, <2>2 DEF KeyInv, Live
  <2>3. ASSUME NEW ticket \in Tickets, ServedMove(c, ticket)  PROVE KeyInv(u)'
    <3>1. socket[ticket] = "none" /\ toPage[ticket] = <<>> /\ toSession[ticket] = <<>>
      BY <2>3 DEF ServedMove, Windows
    <3>2. /\ u # ticket => session'[u] = session[u]
          /\ session'[ticket].key = None /\ session'[ticket].phase = "provisioned"
      BY <2>3 DEF ServedMove
    <3> QED
      BY <2>1, <3>1, <3>2, RangeEmpty DEF KeyInv, Live
  <2> QED
    BY <1>3, <2>2, <2>3, ServedMoves
<1> QED
  BY <1>1, <1>2, <1>3

(* Every step is of one of the three kinds, or changes nothing.            *)
LEMMA Kinds ==
  ASSUME SessionInv, Next
  PROVE  \/ \E t \in Tickets : SessionMove(t)
         \/ PageMove
         \/ \E c \in 1..MAX_CALLS : ConnectServed(c)
BY SessionMoves, PageMoves DEF Next

LEMMA SessionInit == Init => SessionInv
<1> SUFFICES ASSUME Init  PROVE SessionInv
  OBVIOUS
<1>1. (CHOOSE k \in Keys : TRUE) \in Keys
  BY KeysAssumption
<1>2. TypeOK
  <2>1. hostKey \in [Targets -> Keys]
    BY <1>1 DEF Init
  <2>2. pin \in [Servers -> Keys \cup {None}] /\ approved \subseteq Targets \X Keys
    BY <2>1 DEF Init, Targets
  <2>3. calls \in [1..MAX_CALLS -> Call]
    BY DEF Init, NoCall, Call, Steps, Targets
  <2>4. session \in [Tickets -> Session]
    BY DEF Init, Session, Phases, Targets
  <2>5. toPage \in [Tickets -> Seq(Messages)] /\ toSession \in [Tickets -> Seq(Heard)]
    BY DEF Init
  <2>6. rebuilds \in 0..MAX_REBUILDS /\ page \in Nat
    BY BoundsAssumption DEF Init
  <2>7. /\ open \in BOOLEAN
        /\ serverId \in Targets /\ activeTicket \in Tickets \cup {NoTicket}
        /\ status \in Status /\ reconnecting \in BOOLEAN
        /\ pendingFingerprint \in Keys \cup {None} /\ mismatch \in Keys \cup {None}
        /\ open \/ (pendingFingerprint = None /\ mismatch = None)
    BY DEF Init, Status, Targets
  <2>8. /\ socket \in [Tickets -> {"none", "connecting", "open", "closing", "closed"}]
        /\ pinTo \in [Tickets -> Targets] /\ home \in [Tickets -> Nat]
        /\ consent \in [Tickets -> Keys \cup {None}] /\ pinning \subseteq Servers \X Keys
        /\ renamed \in BOOLEAN /\ misled \subseteq Targets \X Keys
    BY DEF Init, Targets
  <2> QED
    BY <2>1, <2>2, <2>3, <2>4, <2>5, <2>6, <2>7, <2>8 DEF TypeOK
<1>3. Windows
  BY DEF Init, Windows, Listens
<1>4. TicketsInv
  BY DEF Init, TicketsInv, Answer, NoCall
<1>5. KeysInv
  BY RangeEmpty DEF Init, KeysInv, KeyInv, Live
<1> QED
  BY <1>2, <1>3, <1>4, <1>5 DEF SessionInv

LEMMA SessionNext ==
  ASSUME SessionInv, [Next]_vars
  PROVE  SessionInv'
<1>1. TypeOK' /\ TicketsInv' /\ Shows'
  BY TypeStep, TicketsStep, ShowsStep
<1>2. CASE Next
  <2>1. Windows' /\ \A u \in Tickets : KeyInv(u)'
    BY <1>2, Kinds, WindowsStep, KeysStep
  <2> QED
    BY <1>1, <2>1 DEF SessionInv, KeysInv, Shows
<1>3. CASE UNCHANGED vars
  BY <1>1, <1>3 DEF SessionInv, Windows, Listens, KeysInv, KeyInv, Live, Shows, vars, service,
        wires, view, history
<1> QED
  BY <1>2, <1>3

LEMMA SessionInvariant == Spec => []SessionInv
<1>1. Init => SessionInv
  BY SessionInit
<1>2. SessionInv /\ [Next]_vars => SessionInv'
  BY SessionNext
<1> QED
  BY <1>1, <1>2, PTL DEF Spec

(* The variables keep their types, and nothing is asked, or warned of,     *)
(* where there is no page.                                                 *)
THEOREM TypeCorrect == Spec => []TypeOK
<1>1. SessionInv => TypeOK
  BY DEF SessionInv
<1> QED
  BY <1>1, SessionInvariant, PTL

-----------------------------------------------------------------------------
(* An Accept that a session hears was given with its own key on the screen. *)
LEMMA ConsentStep ==
  ASSUME SessionInv, ConsentIsOwn, [Next]_vars
  PROVE  ConsentIsOwn'
<1> USE DEF SessionInv
<1> SUFFICES ASSUME NEW u \in Tickets,
                    session'[u].phase \in {"going", "up"}, session'[u].pinned = None
             PROVE  consent'[u] = session'[u].key
  BY DEF ConsentIsOwn
<1>1. KeyInv(u)
  BY DEF KeysInv
<1>2. ASSUME NEW t \in Tickets, SessionMove(t)  PROVE consent'[u] = session'[u].key
  <2>1. UNCHANGED consent
    BY <1>2 DEF SessionMove, SessionStep, history
  <2>2. CASE u # t
    BY <1>2, <2>1, <2>2 DEF SessionMove, ConsentIsOwn
  <2>3. CASE u = t
    <3>1. session[t].pinned = None
      BY <1>2, <2>3 DEF SessionMove
    <3>2. session[t].phase \in {"going", "up", "asking"} /\ consent[t] = session[t].key
      BY <1>1, <1>2, <2>3, <3>1 DEF SessionMove, ConsentIsOwn, KeyInv
    <3> QED
      BY <1>2, <2>1, <2>3, <3>2 DEF SessionMove
  <2> QED
    BY <2>2, <2>3
<1>3. ASSUME PageMove  PROVE consent'[u] = session'[u].key
  BY <1>3 DEF PageMove, ConsentIsOwn
<1>4. ASSUME NEW c \in 1..MAX_CALLS, ConnectServed(c)  PROVE consent'[u] = session'[u].key
  <2>1. UNCHANGED consent
    BY <1>4, ServedMoves DEF history
  <2>2. CASE UNCHANGED session
    BY <2>1, <2>2 DEF ConsentIsOwn
  <2>3. ASSUME NEW ticket \in Tickets, ServedMove(c, ticket)  PROVE consent'[u] = session'[u].key
    BY <2>1, <2>3 DEF ServedMove, ConsentIsOwn
  <2> QED
    BY <1>4, <2>2, <2>3, ServedMoves
<1>5. CASE UNCHANGED vars
  BY <1>5 DEF vars, service, history, ConsentIsOwn
<1> QED
  BY <1>2, <1>3, <1>4, <1>5, Kinds

(* A session goes on with a key that was not pinned only if the user, with *)
(* that very key on the screen, accepted it.                               *)
THEOREM OwnConsent == Spec => []ConsentIsOwn
<1>1. Init => ConsentIsOwn
  BY DEF Init, ConsentIsOwn
<1>2. SessionInv /\ ConsentIsOwn /\ [Next]_vars => ConsentIsOwn'
  BY ConsentStep
<1> QED
  BY <1>1, <1>2, SessionInvariant, PTL DEF Spec

-----------------------------------------------------------------------------
(* The calls of the page on the screen are for its server, unless it was   *)
(* turned into another's.                                                  *)
Pending(c) == calls[c].step \notin {"free", "done"}
CallsInv ==
    \A c \in 1..MAX_CALLS : Pending(c) =>
          /\ calls[c].by <= page
          /\ calls[c].kind # "open" /\ Heeded(c) => calls[c].target = serverId \/ renamed

LEMMA CallsKept ==
  ASSUME SessionInv, CallsInv, NEW c \in 1..MAX_CALLS, Pending(c),
         UNCHANGED <<page, open, serverId, renamed>>,
         \/ \E step : Goes(c, step)
         \/ Returns(c)
         \/ \E ticket \in Tickets : ServedMove(c, ticket)
  PROVE  CallsInv'
<1> USE DEF SessionInv
<1>1. /\ Pending(c)' => /\ calls'[c].target = calls[c].target /\ calls'[c].kind = calls[c].kind
                        /\ calls'[c].by = calls[c].by
      /\ \A d \in 1..MAX_CALLS : d # c => calls'[d] = calls[d]
  BY CallMoves DEF ServedMove, Pending
<1> QED
  BY <1>1 DEF CallsInv, Pending, Heeded

LEMMA CallsStep ==
  ASSUME SessionInv, CallsInv, [Next]_vars
  PROVE  CallsInv'
<1> USE DEF SessionInv
<1>0. page \in Nat
  BY DEF TypeOK
<1>1. CASE UNCHANGED <<calls, page, open, serverId, renamed>>
  BY <1>1 DEF CallsInv, Pending, Heeded
<1>2. ASSUME NEW t \in Tickets,
             Expires(t) \/ Claimed(t) \/ ChecksKey(t) \/ Answered(t) \/ GoesUp(t) \/ Over(t)
      PROVE  CallsInv'
  <2>1. SessionMove(t)
    BY <1>2, SessionMoves
  <2> QED
    BY <1>1, <2>1 DEF SessionMove, SessionStep, view, history
<1>3. CASE \/ \E s \in Targets : Rebuild(s)
           \/ \E s \in Servers, k \in Keys : Pinned(s, k)
           \/ \E t \in Tickets :
                 Opens(t) \/ Closed(t) \/ UpgradeRefused(t) \/ Breaks(t) \/ Receives(t)
           \/ \E answer \in {"accept", "refuse"} : Answers(answer)
  BY <1>1, <1>3 DEF Rebuild, Pinned, Opens, Closed, UpgradeRefused, Breaks, Closes, Receives,
        Answers, SocketStep, view, history
<1>4. ASSUME NEW s \in Targets, ConnectClicked(s)  PROVE CallsInv'
  <2>1. Makes("open", s, "connect") /\ UNCHANGED <<page, open, serverId, renamed>>
    BY <1>4 DEF ConnectClicked, view, history
  <2>2. PICK c \in 1..MAX_CALLS :
            /\ calls'[c].kind = "open" /\ calls'[c].by = page
            /\ \A d \in 1..MAX_CALLS : d # c => calls'[d] = calls[d]
    BY <2>1, MakesMove
  <2> QED
    BY <1>0, <2>1, <2>2 DEF CallsInv, Pending, Heeded
<1>5. CASE ForgetClicked \/ ReconnectClicked
  <2>1. /\ UNCHANGED <<page, open, serverId, renamed>>
        /\ \E kind, step : kind # "open" /\ Makes(kind, serverId, step)
    BY <1>5 DEF ForgetClicked, ReconnectClicked, view, history
  <2>2. PICK c \in 1..MAX_CALLS :
            /\ calls'[c].kind # "open" /\ calls'[c].by = page /\ calls'[c].target = serverId
            /\ \A d \in 1..MAX_CALLS : d # c => calls'[d] = calls[d]
    BY <2>1, MakesMove
  <2> QED
    BY <1>0, <2>1, <2>2 DEF CallsInv, Pending, Heeded
<1>6. ASSUME NEW c \in 1..MAX_CALLS,
             PatchServed(c) \/ Forgotten(c) \/ Reconnected(c) \/ Refused(c)
      PROVE  CallsInv'
  <2>1. /\ Pending(c) /\ UNCHANGED <<page, open, serverId, renamed>>
        /\ (\E step : Goes(c, step)) \/ Returns(c)
    BY <1>6 DEF PatchServed, Forgotten, Reconnected, Refused, Pending, view, history
  <2> QED
    BY <2>1, CallsKept
<1>7. ASSUME NEW c \in 1..MAX_CALLS, ConnectServed(c)  PROVE CallsInv'
  <2>1. Pending(c) /\ UNCHANGED <<page, open, serverId, renamed>>
    BY <1>7, ServedMoves DEF Pending, view, history
  <2> QED
    BY <1>7, <2>1, ServedMoves, CallsKept
<1>8. ASSUME NEW c \in 1..MAX_CALLS, Opened(c)  PROVE CallsInv'
  <2>1. Returns(c) /\ serverId' = calls[c].target
    BY <1>8 DEF Opened
  <2>2. ASSUME NEW d \in 1..MAX_CALLS, Pending(d)'
        PROVE  calls'[d] = calls[d] /\ Pending(d) /\ calls[d].by \in Nat
    BY <2>1, <2>2, CallMoves DEF Pending, TypeOK, Call
  <2>3. CASE open
    <3>1. UNCHANGED <<page, open>> /\ (renamed' \/ (~renamed /\ serverId' = serverId))
      BY <1>8, <2>3 DEF Opened
    <3> QED
      BY <2>2, <3>1 DEF CallsInv, Heeded
  <2>4. CASE ~open
    <3>1. page' = page + 1
      BY <1>8, <2>4 DEF Opened
    <3> QED
      BY <1>0, <2>2, <3>1 DEF CallsInv, Heeded
  <2> QED
    BY <2>3, <2>4
<1>9. CASE Leaves
  <2>1. open' = FALSE /\ UNCHANGED <<calls, page>>
    BY <1>9 DEF Leaves
  <2> QED
    BY <2>1 DEF CallsInv, Pending, Heeded
<1>10. CASE UNCHANGED vars
  BY <1>1, <1>10 DEF vars, view, history
<1> QED
  BY <1>2, <1>3, <1>4, <1>5, <1>6, <1>7, <1>8, <1>9, <1>10 DEF Next

(* The page pins what was accepted, for the server that it was accepted    *)
(* for, unless the user was misled.                                        *)
PinInv(t) ==
    /\ session[t].phase \in {"going", "up"} /\ session[t].pinned = None => Own(t)
    /\ "accept" \in Range(toSession[t]) => Own(t)
    /\ \A m \in Range(toPage[t]) : m[1] = "hostkey-accepted" => Own(t)
    /\ Listens(t) => Aimed(t)
PinsInv ==
    /\ \A t \in Tickets : PinInv(t)
    /\ pinning \subseteq approved \cup misled
    /\ PinApproved

(* The socket of a ticket stays aimed at what the ticket is for.           *)
LEMMA AimedStep ==
  ASSUME SessionInv, CallsInv, PinsInv, [Next]_vars, NEW u \in Tickets, Listens(u)'
  PROVE  Aimed(u)'
<1> USE DEF SessionInv
<1>0. Listens(u) => Aimed(u)
  BY DEF PinsInv, PinInv
<1>1. CASE UNCHANGED <<session, pinTo>> /\ (renamed => renamed') /\ (Listens(u)' => Listens(u))
  BY <1>0, <1>1 DEF Aimed
<1>2. ASSUME NEW t \in Tickets,
             Expires(t) \/ Claimed(t) \/ ChecksKey(t) \/ Answered(t) \/ GoesUp(t) \/ Over(t)
      PROVE  Aimed(u)'
  <2>1. SessionMove(t)
    BY <1>2, SessionMoves
  <2>2. UNCHANGED <<socket, pinTo, renamed>> /\ session'[u].target = session[u].target
    BY <2>1 DEF SessionMove, SessionStep, view, history
  <2> QED
    BY <1>0, <2>2 DEF Listens, Aimed
<1>3. CASE \/ \E s \in Targets : Rebuild(s) \/ ConnectClicked(s)
           \/ \E s \in Servers, k \in Keys : Pinned(s, k)
           \/ \E c \in 1..MAX_CALLS : PatchServed(c) \/ Forgotten(c) \/ Refused(c)
           \/ ForgetClicked \/ ReconnectClicked
           \/ \E answer \in {"accept", "refuse"} : Answers(answer)
           \/ UNCHANGED vars
  <2>1. UNCHANGED <<session, socket, pinTo, renamed>>
    BY <1>3 DEF Rebuild, ConnectClicked, Pinned, PatchServed, Forgotten, Refused,
          ForgetClicked, ReconnectClicked, Answers, SocketStep, service, view, history, vars
  <2> QED
    BY <1>1, <2>1 DEF Listens
<1>4. CASE Leaves
  BY <1>4, CleanupMove DEF Leaves, Listens
<1>5. ASSUME NEW c \in 1..MAX_CALLS, Answer(c), NEW number,
             NEW server, server = calls[c].target \/ renamed',
             Effect(calls[c].ticket, server, number)
      PROVE  Aimed(u)'
  <2> DEFINE ticket == calls[c].ticket
  <2>1. ticket \in Tickets /\ session[ticket].target = calls[c].target
    BY <1>5 DEF TicketsInv
  <2>2. /\ UNCHANGED session /\ socket' = [Hung EXCEPT ![ticket] = "connecting"] /\ Cleanup
        /\ pinTo' = [pinTo EXCEPT ![ticket] = server]
    BY <1>5 DEF Effect, service
  <2>3. u = ticket
    BY <2>2, CleanupMove, CleanupType DEF Listens
  <2> QED
    BY <1>5, <2>1, <2>2, <2>3 DEF TypeOK, Aimed
<1>6. ASSUME NEW c \in 1..MAX_CALLS, Opened(c)  PROVE Aimed(u)'
  <2>1. CASE open
    <3>1. /\ UNCHANGED <<session, pinTo, socket>> /\ (renamed => renamed')
      BY <1>6, <2>1 DEF Opened, service
    <3> QED
      BY <1>1, <3>1 DEF Listens
  <2>2. CASE ~open
    <3>1. Answer(c) /\ Effect(calls[c].ticket, calls[c].target, page + 1)
      BY <1>6, <2>2 DEF Opened, Answer
    <3> QED
      BY <1>5, <3>1
  <2> QED
    BY <2>1, <2>2
<1>7. ASSUME NEW c \in 1..MAX_CALLS, Reconnected(c)  PROVE Aimed(u)'
  <2>1. CASE Heeded(c)
    <3>1. Answer(c) /\ (serverId = calls[c].target \/ renamed') /\ Effect(calls[c].ticket, serverId, page)
      BY <1>7, <2>1 DEF Reconnected, Answer, CallsInv, Pending
    <3> QED
      BY <1>5, <3>1
  <2>2. CASE ~Heeded(c)
    BY <1>1, <1>7, <2>2 DEF Reconnected, service, history, Listens
  <2> QED
    BY <2>1, <2>2
<1>8. ASSUME NEW c \in 1..MAX_CALLS, ConnectServed(c)  PROVE Aimed(u)'
  <2>1. UNCHANGED <<socket, pinTo, renamed>>
    BY <1>8, ServedMoves DEF view, history
  <2>2. ASSUME NEW ticket \in Tickets, ServedMove(c, ticket)  PROVE session'[u] = session[u]
    <3>1. socket[ticket] = "none"
      BY <2>2 DEF ServedMove, Windows
    <3> QED
      BY <2>1, <2>2, <3>1 DEF ServedMove, Listens
  <2> QED
    BY <1>0, <1>8, <2>1, <2>2, ServedMoves DEF Listens, Aimed
<1>9. ASSUME NEW t \in Tickets,
             Opens(t) \/ Closed(t) \/ UpgradeRefused(t) \/ Breaks(t) \/ Receives(t)
      PROVE  Aimed(u)'
  <2>1. UNCHANGED <<session, pinTo, renamed>>
    BY <1>9 DEF Opens, Closed, UpgradeRefused, Breaks, Receives, Closes, SocketStep, history
  <2>2. socket[t] # "none" /\ \E s \in {"open", "closing", "closed"} :
            /\ socket' = [socket EXCEPT ![t] = s] \/ UNCHANGED socket
            /\ s = "open" => Listens(t)
    BY <1>9 DEF Opens, Closed, UpgradeRefused, Breaks, Receives, Closes, Listens
  <2>3. Listens(u)' => Listens(u)
    BY <2>2 DEF Listens, TypeOK
  <2> QED
    BY <1>1, <2>1, <2>3
<1> QED
  BY <1>2, <1>3, <1>4, <1>6, <1>7, <1>8, <1>9 DEF Next

LEMMA PinStep ==
  ASSUME SessionInv, CallsInv, PinsInv, [Next]_vars, NEW u \in Tickets
  PROVE  PinInv(u)'
<1> USE DEF SessionInv
<1>0. PinInv(u) /\ KeyInv(u) /\ (Listens(u)' => Aimed(u)')
  BY AimedStep DEF PinsInv, KeysInv
<1>1. ASSUME NEW t \in Tickets, SessionMove(t)  PROVE PinInv(u)'
  <2>1. UNCHANGED <<approved, misled, pinTo>>
    BY <1>1 DEF SessionMove, SessionStep, view, history
  <2>2. CASE u # t
    BY <1>0, <1>1, <2>1, <2>2 DEF SessionMove, PinInv, Own
  <2>3. CASE u = t
    <3>1. ASSUME session[t].phase # "provisioned"  PROVE Own(t)' <=> Own(t)
      BY <1>1, <2>1, <3>1 DEF SessionMove, Own
    <3>2. ASSUME session'[t].phase \in {"going", "up"}, session'[t].pinned = None  PROVE Own(t)'
      <4>1. Own(t) /\ session[t].phase # "provisioned"
        BY <1>0, <1>1, <2>3, <3>2 DEF SessionMove, PinInv
      <4> QED
        BY <3>1, <4>1
    <3>3. ASSUME "accept" \in Range(toSession'[t])  PROVE Own(t)'
      <4>1. "accept" \in Range(toSession[t])
        BY <1>1, <3>3 DEF SessionMove
      <4> QED
        BY <1>0, <2>3, <3>1, <4>1 DEF PinInv, KeyInv
    <3>4. ASSUME NEW m \in Range(toPage'[t]), m[1] = "hostkey-accepted"  PROVE Own(t)'
      <4>1. \/ m \in Range(toPage[t])
            \/ session[t].phase = "going" /\ session[t].pinned = None
        BY <1>1, <3>4 DEF SessionMove, Status
      <4>2. Own(t) /\ session[t].phase # "provisioned"
        BY <1>0, <2>3, <3>4, <4>1, RangeEmpty DEF PinInv, KeyInv
      <4> QED
        BY <3>1, <4>2
    <3> QED
      BY <1>0, <2>3, <3>2, <3>3, <3>4 DEF PinInv
  <2> QED
    BY <2>2, <2>3
<1>2. ASSUME PageMove  PROVE PinInv(u)'
  <2>1. socket[u] # "none" /\ Own(u) => Own(u)'
    BY <1>2 DEF PageMove, Own
  <2>2. session[u].phase \in {"going", "up"} \/ toPage[u] # <<>> \/ toSession[u] # <<>> =>
            socket[u] # "none"
    BY DEF Windows
  <2>3. session'[u] = session[u]
    BY <1>2 DEF PageMove
  <2>4. "accept" \in Range(toSession'[u]) => Own(u)'
    <3>1. CASE "accept" \in Range(toSession[u])
      BY <1>0, <2>1, <2>2, <3>1, RangeEmpty DEF PinInv
    <3>2. CASE "accept" \notin Range(toSession[u])
      BY <1>0, <1>2, <3>2 DEF PageMove, PinInv, Listens
    <3> QED
      BY <3>1, <3>2
  <2>5. \A m \in Range(toPage'[u]) : m[1] = "hostkey-accepted" => Own(u)'
    BY <1>0, <1>2, <2>1, <2>2, RangeEmpty DEF PageMove, PinInv
  <2> QED
    BY <1>0, <2>1, <2>2, <2>3, <2>4, <2>5 DEF PinInv
<1>3. ASSUME NEW c \in 1..MAX_CALLS, ConnectServed(c)  PROVE PinInv(u)'
  <2>1. UNCHANGED <<approved, misled, pinTo, toPage, toSession>>
    BY <1>3, ServedMoves DEF wires, view, history
  <2>2. CASE UNCHANGED session
    BY <1>0, <2>1, <2>2 DEF PinInv, Own
  <2>3. ASSUME NEW ticket \in Tickets, ServedMove(c, ticket)  PROVE PinInv(u)'
    <3>1. toPage[ticket] = <<>> /\ toSession[ticket] = <<>>
      BY <2>3 DEF ServedMove, Windows
    <3>2. CASE u = ticket
      BY <1>0, <2>1, <2>3, <3>1, <3>2, RangeEmpty DEF ServedMove, PinInv
    <3>3. CASE u # ticket
      BY <1>0, <2>1, <2>3, <3>3 DEF ServedMove, PinInv, Own
    <3> QED
      BY <3>2, <3>3
  <2> QED
    BY <1>3, <2>2, <2>3, ServedMoves
<1>4. CASE UNCHANGED vars
  BY <1>0, <1>4 DEF vars, service, wires, view, history, PinInv, Own
<1> QED
  BY <1>1, <1>2, <1>3, <1>4, Kinds

(* A pin is changed by an update that the page has asked for, and an       *)
(* update is asked for by the session that says its key was accepted.      *)
LEMMA PinningStep ==
  ASSUME SessionInv, PinsInv, [Next]_vars, approved \subseteq approved', misled \subseteq misled'
  PROVE  pinning' \subseteq (approved \cup misled)' /\ PinApproved'
<1> USE DEF SessionInv
<1>0. pinning \subseteq approved \cup misled /\ PinApproved
  BY DEF PinsInv
<1>1. CASE UNCHANGED <<pin, pinning>>
  BY <1>0, <1>1 DEF PinApproved
<1>2. ASSUME NEW s \in Servers, NEW k \in Keys, Pinned(s, k)
      PROVE  pinning' \subseteq (approved \cup misled)' /\ PinApproved'
  <2>1. <<s, k>> \in (approved \cup misled)' /\ pinning' \subseteq (approved \cup misled)'
    BY <1>0, <1>2 DEF Pinned
  <2>2. \A r \in Servers : pin'[r] = pin[r] \/ (r = s /\ pin'[r] = k)
    BY <1>2 DEF Pinned, TypeOK
  <2> QED
    BY <1>0, <2>1, <2>2 DEF PinApproved
<1>3. ASSUME NEW c \in 1..MAX_CALLS, PatchServed(c)
      PROVE  pinning' \subseteq (approved \cup misled)' /\ PinApproved'
  <2>1. UNCHANGED pinning /\ \A r \in Servers : pin'[r] \in {pin[r], None}
    BY <1>3 DEF PatchServed, TypeOK
  <2> QED
    BY <1>0, <2>1 DEF PinApproved
<1>4. ASSUME NEW t \in Tickets, Receives(t)
      PROVE  pinning' \subseteq (approved \cup misled)' /\ PinApproved'
  <2> DEFINE m == Head(toPage[t])
  <2>1. socket[t] = "open" /\ m \in Range(toPage[t])
    BY <1>4, RangeFacts DEF Receives, TypeOK
  <2>2. KeyInv(t) /\ PinInv(t)
    BY DEF PinsInv, KeysInv
  <2>3. /\ UNCHANGED pin
        /\ pinning' = IF m[1] = "hostkey-accepted" /\ pinTo[t] \in Servers
                      THEN pinning \cup {<<pinTo[t], m[2]>>} ELSE pinning
    BY <1>4 DEF Receives, SocketStep
  <2>4. m[1] = "hostkey-accepted" => <<pinTo[t], m[2]>> \in approved \cup misled
    BY <2>1, <2>2 DEF KeyInv, PinInv, Own
  <2> HIDE DEF m
  <2> QED
    BY <1>0, <2>3, <2>4 DEF PinApproved
<1>5. CASE \/ \E t \in Tickets :
                 Expires(t) \/ Claimed(t) \/ ChecksKey(t) \/ Answered(t) \/ GoesUp(t) \/ Over(t)
           \/ \E c \in 1..MAX_CALLS : ConnectServed(c)
  BY <1>1, <1>5 DEF Expires, Claimed, ChecksKey, Answered, GoesUp, Over, ConnectServed, SessionStep
<1>6. CASE \/ \E s \in Targets : Rebuild(s) \/ ConnectClicked(s)
           \/ \E c \in 1..MAX_CALLS : Forgotten(c) \/ Refused(c)
           \/ Leaves \/ ForgetClicked \/ ReconnectClicked
           \/ UNCHANGED vars
  BY <1>1, <1>6 DEF Rebuild, ConnectClicked, Forgotten, Refused, Leaves, ForgetClicked,
        ReconnectClicked, service, vars
<1>7. CASE \E c \in 1..MAX_CALLS : Opened(c) \/ Reconnected(c)
  BY <1>1, <1>7 DEF Opened, Reconnected, Effect, service
<1>8. CASE \/ \E t \in Tickets : Opens(t) \/ Closed(t) \/ UpgradeRefused(t) \/ Breaks(t)
           \/ \E answer \in {"accept", "refuse"} : Answers(answer)
  BY <1>1, <1>8 DEF Opens, Closed, UpgradeRefused, Breaks, Closes, Answers, SocketStep
<1> QED
  BY <1>2, <1>3, <1>4, <1>5, <1>6, <1>7, <1>8 DEF Next

LEMMA ApprovedStays ==
  ASSUME SessionInv, [Next]_vars
  PROVE  approved \subseteq approved' /\ misled \subseteq misled'
<1>1. ASSUME NEW t \in Tickets, SessionMove(t)  PROVE approved \subseteq approved' /\ misled \subseteq misled'
  BY <1>1 DEF SessionMove, SessionStep, history
<1>2. ASSUME NEW c \in 1..MAX_CALLS, ConnectServed(c)  PROVE approved \subseteq approved' /\ misled \subseteq misled'
  BY <1>2, ServedMoves DEF history
<1>3. CASE UNCHANGED vars
  BY <1>3 DEF vars, history
<1> QED
  BY <1>1, <1>2, <1>3, Kinds DEF PageMove

LEMMA PinsInit ==
  ASSUME Init
  PROVE  CallsInv /\ PinsInv
<1>1. CallsInv
  BY DEF Init, CallsInv, Pending, NoCall
<1>2. PinApproved
  BY DEF Init, PinApproved
<1>3. PinsInv
  BY <1>2, RangeEmpty DEF Init, PinsInv, PinInv, Listens
<1> QED
  BY <1>1, <1>3

(* What is pinned for a server is a key that the user accepted for it, or  *)
(* accepted on a page that the answer to another click had turned into its *)
(* page.                                                                   *)
THEOREM PinsApproved == Spec => []PinApproved
<1>1. Init => CallsInv /\ PinsInv
  BY PinsInit
<1>2. SessionInv /\ CallsInv /\ PinsInv /\ [Next]_vars => CallsInv' /\ PinsInv'
  BY CallsStep, PinStep, ApprovedStays, PinningStep DEF PinsInv
<1>3. PinsInv => PinApproved
  BY DEF PinsInv
<1> QED
  BY <1>1, <1>2, <1>3, SessionInvariant, PTL DEF Spec

-----------------------------------------------------------------------------
(* Every session is a Terminal.                                            *)

Promised(t) == Promise(t)!Next \/ UNCHANGED Promise(t)!vars

(* A step that moves a session from phase to phase, and nothing else.      *)
LEMMA PhaseMove ==
  ASSUME TypeOK, NEW t \in Tickets, NEW phase \in Phases, Moves(t, phase)
  PROVE  /\ \A u \in Tickets : u # t => session'[u] = session[u]
         /\ session'[t].phase = phase /\ session'[t].key = session[t].key
         /\ session'[t].pinned = session[t].pinned
<1>1. session[t] \in Session
  BY DEF TypeOK
<1>2. /\ \A u \in Tickets : u # t => session'[u] = session[u]
      /\ session'[t] = [session[t] EXCEPT !.phase = phase]
  BY DEF Moves, TypeOK
<1> QED
  BY <1>1, <1>2 DEF Session

(* The end of a session that there was.                                    *)
LEMMA PhaseEnds ==
  ASSUME TypeOK, NEW t \in Tickets, Moves(t, "over"), session[t].phase \notin {"none", "over"}
  PROVE  Promised(t)
<1>1. session'[t].phase = "over" /\ session'[t].pinned = session[t].pinned
  BY PhaseMove DEF Phases
<1> QED
  BY <1>1 DEF Promised, Presented, Promise!Next, Promise!End, Promise!Ended

(* What a session does, by itself or as it is told, a Terminal may.        *)
LEMMA PromisedMoves ==
  ASSUME SessionInv, NEW t \in Tickets,
         Expires(t) \/ Claimed(t) \/ ChecksKey(t) \/ Answered(t) \/ GoesUp(t) \/ Over(t)
  PROVE  Promised(t)
<1> USE DEF SessionInv
<1>1. KeyInv(t) /\ session[t] \in Session
  BY DEF KeysInv, TypeOK
<1>2. CASE Expires(t) \/ Over(t)
  BY <1>2, PhaseEnds DEF Expires, Over, Ends
<1>3. CASE Claimed(t)
  <2>1. /\ session[t].phase = "provisioned" /\ session'[t].phase = "checking"
        /\ session'[t].pinned = session[t].pinned
    BY <1>1, <1>3 DEF Claimed, TypeOK, Session
  <2> QED
    BY <2>1 DEF Promised, Presented, Promise!Next, Promise!Dial
<1>4. CASE ChecksKey(t)
  <2>1. session[t].phase = "checking" /\ session[t].key \in Keys
    BY <1>1, <1>4 DEF ChecksKey, KeyInv, Live, Session
  <2>2. CASE session[t].pinned = None
    <3>1. Moves(t, "asking")
      BY <1>4, <2>2 DEF ChecksKey
    <3>2. /\ session'[t].phase = "asking" /\ session'[t].key = session[t].key
          /\ session'[t].pinned = session[t].pinned
      BY <3>1, PhaseMove DEF Phases
    <3> QED
      BY <2>1, <2>2, <3>2 DEF Promised, Presented, Promise!Next, Promise!Ask
  <2>3. CASE session[t].pinned # None /\ session[t].pinned = session[t].key
    <3>1. Moves(t, "going")
      BY <1>4, <2>3 DEF ChecksKey
    <3>2. /\ session'[t].phase = "going" /\ session'[t].key = session[t].key
          /\ session'[t].pinned = session[t].pinned
      BY <3>1, PhaseMove DEF Phases
    <3> QED
      BY <2>1, <2>3, <3>2 DEF Promised, Presented, Promise!Next, Promise!Match
  <2>4. CASE session[t].pinned # None /\ session[t].pinned # session[t].key
    BY <1>4, <2>1, <2>4, PhaseEnds DEF ChecksKey, Ends
  <2> QED
    BY <2>2, <2>3, <2>4
<1>5. CASE Answered(t)
  <2>1. session[t].phase \notin {"none", "provisioned", "over"}
    BY <1>1, <1>5 DEF Answered, Windows, KeyInv
  <2>2. CASE Ends(t, <<>>)
    BY <2>1, <2>2, PhaseEnds DEF Ends
  <2>3. CASE Moves(t, "going") /\ session[t].phase = "asking"
    <3>1. /\ session'[t].phase = "going" /\ session'[t].key = session[t].key
          /\ session'[t].pinned = session[t].pinned
      BY <2>3, PhaseMove DEF Phases
    <3> QED
      BY <2>3, <3>1 DEF Promised, Presented, Promise!Next, Promise!Accept
  <2>4. CASE UNCHANGED session
    BY <2>4 DEF Promised, Presented, Promise!vars
  <2> QED
    BY <1>5, <2>2, <2>3, <2>4 DEF Answered
<1>6. CASE GoesUp(t)
  <2>1. session[t].phase = "going" /\ Moves(t, "up")
    BY <1>6 DEF GoesUp
  <2>2. /\ session'[t].phase = "up" /\ session'[t].key = session[t].key
        /\ session'[t].pinned = session[t].pinned
    BY <2>1, PhaseMove DEF Phases
  <2> QED
    BY <2>1, <2>2 DEF Promised, Presented, Promise!Next, Promise!Start
<1> QED
  BY <1>2, <1>3, <1>4, <1>5, <1>6

LEMMA PromisedStep ==
  ASSUME SessionInv, [Next]_vars, NEW t \in Tickets
  PROVE  Promised(t)
<1> USE DEF SessionInv
<1>1. CASE session'[t] = session[t]
  BY <1>1 DEF Promised, Presented, Promise!vars
<1>2. ASSUME NEW u \in Tickets,
             Expires(u) \/ Claimed(u) \/ ChecksKey(u) \/ Answered(u) \/ GoesUp(u) \/ Over(u)
      PROVE  Promised(t)
  <2>1. u # t => session'[t] = session[t]
    BY <1>2, SessionMoves DEF SessionMove
  <2> QED
    BY <1>1, <1>2, <2>1, PromisedMoves
<1>3. ASSUME NEW c \in 1..MAX_CALLS, NEW ticket \in Tickets, ServedMove(c, ticket)
      PROVE  Promised(t)
  <2>1. CASE t # ticket
    BY <1>1, <1>3, <2>1 DEF ServedMove
  <2>2. CASE t = ticket
    <3>1. session'[t].pinned \in Keys \cup {None}
      BY TypeStep DEF TypeOK, Session
    <3>2. session[t].phase = "none" /\ session'[t].phase = "provisioned"
      BY <1>3, <2>2 DEF ServedMove
    <3> QED
      BY <3>1, <3>2 DEF Promised, Presented, Promise!Next, Promise!Provision
  <2> QED
    BY <2>1, <2>2
<1>4. CASE UNCHANGED session
  BY <1>1, <1>4
<1>5. ASSUME NEW c \in 1..MAX_CALLS, ConnectServed(c)  PROVE Promised(t)
  BY <1>3, <1>4, <1>5, ServedMoves
<1>6. CASE PageMove
  BY <1>4, <1>6 DEF PageMove
<1>7. CASE Next
  BY <1>2, <1>5, <1>6, <1>7, PageMoves DEF Next
<1> QED
  BY <1>4, <1>7 DEF vars, service

(* Every session that the page can meet is a Terminal, which SshSession is *)
(* shown to implement (session.ts).                                        *)
THEOREM SessionsKept == Spec => SessionsAsPromised
<1>1. Init => \A t \in Tickets : Promise(t)!Init
  BY DEF Init, Presented, Promise!Init
<1>2. SessionInv /\ [Next]_vars =>
          [\A t \in Tickets : Promise(t)!Next \/ UNCHANGED Promise(t)!vars]_session
  BY PromisedStep DEF Promised
<1> QED
  BY <1>1, <1>2, SessionInvariant, PTL DEF Spec, SessionsAsPromised
=============================================================================
