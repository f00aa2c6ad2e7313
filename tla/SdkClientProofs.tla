--------------------------- MODULE SdkClientProofs ---------------------------
(***************************************************************************)
(* The SDK's promises to the application, for any number of requests,      *)
(* sockets, calls of connect and lost connections.                         *)
(*                                                                         *)
(* A cancelJob leaves the client once: neither a queued one nor a new one  *)
(* has ever been sent, and what was sent is on one socket or with the      *)
(* agent (SentOnce).  That alone does not say where a request waits:       *)
(* for that, a client that is connected has a socket that is open, and as  *)
(* long as connect was called once, one connection attempt, one open       *)
(* socket or one sleeping #reconnectLoop exists at a time (OneAttempt).    *)
(***************************************************************************)
EXTENDS SdkClient, FiniteSetTheorems, TLAPS

\* A cancelJob that waits to be sent was never sent; a sent one is in one place.
SentOnce ==
  \A r \in Requests \ Prints :
    /\ req[r] \in {"new", "queued"} => r \notin got /\ \A s \in Sockets : r \notin sent[s]
    /\ r \in got => \A s \in Sockets : r \notin sent[s]
    /\ \A s, t \in Sockets : r \in sent[s] /\ r \in sent[t] => s = t

\* #ws is an open socket, and a connected client has one.
CurrentIsOpen ==
  /\ ws # NoSocket => socket[ws] = "open"
  /\ state = "connected" => ws # NoSocket

Live(s) == socket[s] \in {"connect", "loop", "open"}

\* One call of connect leads to one attempt, one socket or one sleep at a time.
OneAttempt ==
  /\ connects = 0 => sleeping = 0 /\ \A s \in Sockets : ~Live(s)
  /\ connects <= 1 =>
       /\ sleeping <= 1
       /\ sleeping = 1 => \A s \in Sockets : ~Live(s)
       /\ \A s, t \in Sockets : Live(s) /\ Live(t) => s = t
       /\ \A s \in Sockets : socket[s] = "open" => s = ws
       /\ \A r \in Requests : req[r] = "in_flight" => on[r] # NoSocket /\ on[r] = ws

SdkInv ==
  /\ TypeOK /\ SentOnce /\ CurrentIsOpen /\ ConnectedQueueIsEmpty /\ OneAttempt

-----------------------------------------------------------------------------

\* Nothing has happened yet.
LEMMA SdkInitInv == ASSUME Init PROVE SdkInv
<1> USE SdkAssumption DEF Init
<1>1. TypeOK
  <2>1. socket \in [Sockets -> SocketStates] /\ req \in [Requests -> RequestStates]
    BY DEF SocketStates, RequestStates
  <2>2. connects \in 0..MaxConnects /\ disconnects \in 0..MaxDisconnects /\ losses \in 0..MaxLosses
    OBVIOUS
  <2>3. /\ on \in [Requests -> Sockets \cup {NoSocket}]
        /\ sent \in [Sockets -> SUBSET Requests] /\ answers \in [Sockets -> SUBSET Requests]
        /\ got \in SUBSET Requests /\ ws \in Sockets \cup {NoSocket} /\ sleeping \in Nat
    OBVIOUS
  <2> QED BY <2>1, <2>2, <2>3 DEF TypeOK
<1>2. SentOnce /\ CurrentIsOpen /\ ConnectedQueueIsEmpty /\ OneAttempt
  BY DEF SentOnce, CurrentIsOpen, ConnectedQueueIsEmpty, OneAttempt, Live
<1> QED BY <1>1, <1>2 DEF SdkInv

\* A rejected request is settled.
LEMMA RejectedSettles ==
  ASSUME NEW r, NEW outcome \in {"NOT_PRINTED", "UNKNOWN"}
  PROVE Rejected(r, outcome) \in Settled
BY DEF Rejected, Settled

\* Settled requests wait for nothing.
LEMMA SettledWaits ==
  /\ Settled \subseteq RequestStates
  /\ "new" \notin Settled /\ "queued" \notin Settled /\ "in_flight" \notin Settled
BY DEF Settled, RequestStates

\* #failAll settles what is pending and leaves the rest alone.
LEMMA FailAllSettles ==
  ASSUME TypeOK, FailAll
  PROVE /\ on' = on
        /\ req' \in [Requests -> RequestStates]
        /\ \A r \in Requests : /\ req[r] \in {"queued", "in_flight"} => req'[r] \in Settled
                               /\ req[r] \notin {"queued", "in_flight"} => req'[r] = req[r]
<1>0. on' = on
  BY DEF FailAll
<1>1. ASSUME NEW r \in Requests, req[r] \in {"queued", "in_flight"} PROVE req'[r] \in Settled
  <2>1. req'[r] = Rejected(r, IF on[r] = NoSocket THEN "NOT_PRINTED" ELSE "UNKNOWN")
    BY <1>1 DEF FailAll
  <2> QED BY <2>1, RejectedSettles
<1>2. ASSUME NEW r \in Requests, req[r] \notin {"queued", "in_flight"} PROVE req'[r] = req[r]
  BY <1>2 DEF FailAll
<1>3. DOMAIN req' = Requests /\ req' = [r \in Requests |-> req'[r]]
  BY DEF FailAll
<1>4. req' \in [Requests -> RequestStates]
  BY <1>1, <1>2, <1>3, SettledWaits DEF TypeOK
<1> QED BY <1>0, <1>1, <1>2, <1>4

-----------------------------------------------------------------------------

\* connect
LEMMA ConnectInv ==
  ASSUME SdkInv, NEW s \in Sockets, Connect(s) PROVE SdkInv'
<1> USE DEF SdkInv, Connect, reqVars, wireVars
<1>1. TypeOK'
  <2>1. socket' \in [Sockets -> SocketStates]
    BY DEF TypeOK, SocketStates
  <2>2. connects' \in 0..MaxConnects
    BY SdkAssumption DEF TypeOK
  <2> QED BY <2>1, <2>2 DEF TypeOK
<1>2. SentOnce'
  BY DEF SentOnce
<1>3. CurrentIsOpen'
  BY DEF CurrentIsOpen, TypeOK
<1>4. ConnectedQueueIsEmpty'
  BY DEF ConnectedQueueIsEmpty
<1>5. OneAttempt'
  BY DEF OneAttempt, TypeOK, Live
<1> QED BY <1>1, <1>2, <1>3, <1>4, <1>5

\* disconnect
LEMMA DisconnectInv ==
  ASSUME SdkInv, Disconnect PROVE SdkInv'
<1>0. /\ on' = on
      /\ req' \in [Requests -> RequestStates]
      /\ \A r \in Requests : /\ req[r] \in {"queued", "in_flight"} => req'[r] \in Settled
                             /\ req[r] \notin {"queued", "in_flight"} => req'[r] = req[r]
  BY FailAllSettles DEF SdkInv, Disconnect
<1>a. /\ state' = "disconnected" /\ ws' = NoSocket /\ intentional' = TRUE
      /\ socket' = [s \in Sockets |-> IF s = ws THEN "closed" ELSE socket[s]]
      /\ UNCHANGED <<sleeping, sent, answers, got, connects, losses>>
      /\ disconnects < MaxDisconnects /\ disconnects' = disconnects + 1
  BY DEF Disconnect, wireVars
<1>1. TypeOK'
  BY <1>0, <1>a, SdkAssumption DEF SdkInv, TypeOK, SocketStates
<1>2. SentOnce'
  BY <1>0, <1>a, SettledWaits DEF SdkInv, SentOnce
<1>3. CurrentIsOpen' /\ ConnectedQueueIsEmpty'
  BY <1>a DEF CurrentIsOpen, ConnectedQueueIsEmpty
<1>4. OneAttempt'
  BY <1>0, <1>a, SettledWaits DEF SdkInv, OneAttempt, TypeOK, Live
<1> QED BY <1>1, <1>2, <1>3, <1>4 DEF SdkInv

\* The handshake succeeds: what is queued is sent.
LEMMA HelloAcceptedInv ==
  ASSUME SdkInv, NEW s \in Sockets, HelloAccepted(s) PROVE SdkInv'
<1> DEFINE rs == {r \in Requests : req[r] = "queued"}
<1>a. /\ Opening(s) /\ socket' = [socket EXCEPT ![s] = "open"] /\ ws' = s
      /\ UNCHANGED <<intentional, sleeping, answers, got, connects, disconnects, losses>>
  BY DEF HelloAccepted, counters
<1>b. \/ /\ state' = "connected"
         /\ req' = [r \in Requests |-> IF r \in rs THEN "in_flight" ELSE req[r]]
         /\ on' = [r \in Requests |-> IF r \in rs THEN s ELSE on[r]]
         /\ sent' = [sent EXCEPT ![s] = @ \cup rs]
      \/ UNCHANGED <<state, req, on, sent>>
  BY DEF HelloAccepted, AfterConnect, SendAll, reqVars
<1>c. Live(s) /\ socket[s] # "open"
  BY <1>a DEF Opening, Live
<1>1. TypeOK'
  BY <1>a, <1>b, SdkAssumption DEF SdkInv, TypeOK, SocketStates, RequestStates
<1>2. SentOnce'
  BY <1>a, <1>b DEF SdkInv, SentOnce, TypeOK
<1>3. CurrentIsOpen'
  BY <1>a, SdkAssumption DEF CurrentIsOpen, SdkInv, TypeOK
<1>4. ConnectedQueueIsEmpty'
  BY <1>b DEF SdkInv, ConnectedQueueIsEmpty
<1>5. OneAttempt'
  <2>1. connects' = connects /\ sleeping' = sleeping /\ connects # 0
    BY <1>a, <1>c DEF SdkInv, OneAttempt
  <2>2. \A t \in Sockets : Live(t)' <=> Live(t)
    BY <1>a, <1>c DEF SdkInv, TypeOK, Live
  <2>3. ASSUME connects <= 1 PROVE \A t \in Sockets : socket'[t] = "open" => t = s
    BY <1>a, <1>c, <2>3 DEF SdkInv, OneAttempt, Live, TypeOK
  <2>4. ASSUME connects <= 1, NEW r \in Requests, req'[r] = "in_flight"
        PROVE on'[r] # NoSocket /\ on'[r] = s
    <3>1. CASE req[r] = "in_flight"
      <4>1. on[r] # NoSocket /\ on[r] = ws
        BY <3>1, <2>4 DEF SdkInv, OneAttempt
      <4>2. ws \in Sockets /\ socket[ws] = "open"
        BY <4>1 DEF SdkInv, CurrentIsOpen, TypeOK
      <4>3. ws = s
        BY <4>2, <1>c, <2>4 DEF SdkInv, OneAttempt, Live
      <4> QED BY <4>2, <4>3, <1>c
    <3>2. CASE req[r] # "in_flight"
      BY <1>b, <2>4, <3>2, SdkAssumption
    <3> QED BY <3>1, <3>2
  <2> QED BY <1>a, <2>1, <2>2, <2>3, <2>4 DEF SdkInv, OneAttempt
<1> QED BY <1>1, <1>2, <1>3, <1>4, <1>5 DEF SdkInv

\* The handshake fails.
LEMMA HelloFailsInv ==
  ASSUME SdkInv, NEW s \in Sockets, HelloFails(s) PROVE SdkInv'
<1>a. /\ Opening(s) /\ socket' = [socket EXCEPT ![s] = "closed"]
      /\ losses < MaxLosses /\ losses' = losses + 1
      /\ UNCHANGED <<intentional, ws, sent, answers, got, connects, disconnects>>
  BY DEF HelloFails, wireVars
<1>c. Live(s) /\ socket[s] # "open"
  BY <1>a DEF Opening, Live
<1>1. CASE state' = "disconnected" /\ FailAll /\ UNCHANGED sleeping
  <2>0. /\ on' = on
        /\ req' \in [Requests -> RequestStates]
        /\ \A r \in Requests : /\ req[r] \in {"queued", "in_flight"} => req'[r] \in Settled
                               /\ req[r] \notin {"queued", "in_flight"} => req'[r] = req[r]
    BY <1>1, FailAllSettles DEF SdkInv
  <2>1. TypeOK'
    BY <1>a, <1>1, <2>0, SdkAssumption DEF SdkInv, TypeOK, SocketStates
  <2>2. SentOnce'
    BY <1>a, <2>0, SettledWaits DEF SdkInv, SentOnce
  <2>3. CurrentIsOpen' /\ ConnectedQueueIsEmpty'
    BY <1>a, <1>1, <1>c DEF SdkInv, CurrentIsOpen, ConnectedQueueIsEmpty, TypeOK
  <2>4. OneAttempt'
    BY <1>a, <1>1, <1>c, <2>0, SettledWaits DEF SdkInv, OneAttempt, TypeOK, Live
  <2> QED BY <2>1, <2>2, <2>3, <2>4 DEF SdkInv
<1>2. CASE sleeping' = sleeping + 1 /\ UNCHANGED <<state, reqVars>>
  <2>1. TypeOK'
    BY <1>a, <1>2, SdkAssumption DEF SdkInv, TypeOK, SocketStates, reqVars
  <2>2. SentOnce'
    BY <1>a, <1>2 DEF SdkInv, SentOnce, reqVars
  <2>3. CurrentIsOpen' /\ ConnectedQueueIsEmpty'
    BY <1>a, <1>2, <1>c DEF SdkInv, CurrentIsOpen, ConnectedQueueIsEmpty, TypeOK, reqVars
  <2>4. OneAttempt'
    <3>1. connects # 0
      BY <1>c DEF SdkInv, OneAttempt
    <3>2. connects <= 1 => sleeping = 0
      BY <1>c DEF SdkInv, OneAttempt, TypeOK
    <3>3. ASSUME connects <= 1 PROVE \A t \in Sockets : ~Live(t)'
      BY <1>a, <1>c, <3>3 DEF SdkInv, OneAttempt, TypeOK, Live
    <3> QED BY <1>a, <1>2, <1>c, <3>1, <3>2, <3>3 DEF SdkInv, OneAttempt, TypeOK, Live, reqVars
  <2> QED BY <2>1, <2>2, <2>3, <2>4 DEF SdkInv
<1> QED BY <1>1, <1>2 DEF HelloFails

\* #reconnectLoop wakes up.
LEMMA LoopWakesInv ==
  ASSUME SdkInv, NEW s \in Sockets, LoopWakes(s) PROVE SdkInv'
<1>a. /\ sleeping > 0 /\ sleeping' = sleeping - 1
      /\ \/ UNCHANGED socket
         \/ socket[s] = "unused" /\ socket' = [socket EXCEPT ![s] = "loop"]
      /\ UNCHANGED <<state, intentional, ws, req, on, sent, answers, got, connects, disconnects, losses>>
  BY DEF LoopWakes, reqVars, wireVars, counters
<1>1. TypeOK'
  BY <1>a DEF SdkInv, TypeOK, SocketStates
<1>2. SentOnce'
  BY <1>a DEF SdkInv, SentOnce
<1>3. CurrentIsOpen' /\ ConnectedQueueIsEmpty'
  BY <1>a DEF SdkInv, CurrentIsOpen, ConnectedQueueIsEmpty, TypeOK
<1>4. OneAttempt'
  <2>1. connects # 0
    BY <1>a DEF SdkInv, OneAttempt
  <2>2. connects <= 1 => sleeping = 1 /\ sleeping' = 0 /\ \A t \in Sockets : ~Live(t)
    BY <1>a DEF SdkInv, OneAttempt, TypeOK
  <2> QED BY <1>a, <2>1, <2>2 DEF SdkInv, OneAttempt, TypeOK, Live
<1> QED BY <1>1, <1>2, <1>3, <1>4 DEF SdkInv

\* What #onClose does to a request.
LEMMA AfterLossCases ==
  ASSUME TypeOK, NEW s \in Sockets, NEW r \in Requests
  PROVE /\ AfterLoss(s, r) \in RequestStates
        /\ req[r] = "in_flight" /\ on[r] = s => AfterLoss(s, r) \in Settled \cup {"queued"}
        /\ AfterLoss(s, r) = "queued" => r \in Prints \/ req[r] = "queued"
        /\ AfterLoss(s, r) = "in_flight" => req[r] = "in_flight" /\ on[r] # s
        /\ AfterLoss(s, r) = "new" => req[r] = "new"
        /\ AfterLoss(s, r) = "queued" => Resends
        /\ req[r] \in Settled => AfterLoss(s, r) = req[r]
<1>0. req[r] \in RequestStates
  BY DEF TypeOK
<1>1. CASE req[r] = "in_flight" /\ on[r] = s /\ Resends
  <2>1. AfterLoss(s, r) = IF r \in Prints THEN "queued" ELSE "failed"
    BY <1>1, Zenon DEF AfterLoss
  <2> QED BY <1>0, <1>1, <2>1 DEF Settled, RequestStates
<1>2. CASE req[r] = "in_flight" /\ ~Resends
  <2>1. AfterLoss(s, r) = Rejected(r, "UNKNOWN")
    BY <1>2, Zenon DEF AfterLoss
  <2> QED BY <1>0, <1>2, <2>1 DEF Settled, RequestStates, Rejected
<1>3. CASE req[r] = "queued" /\ ~Resends
  <2>1. AfterLoss(s, r) = Rejected(r, "NOT_PRINTED")
    BY <1>3, Zenon DEF AfterLoss
  <2> QED BY <1>0, <1>3, <2>1 DEF Settled, RequestStates, Rejected
<1>4. CASE /\ ~(req[r] = "in_flight" /\ on[r] = s /\ Resends)
           /\ ~(req[r] = "in_flight" /\ ~Resends)
           /\ ~(req[r] = "queued" /\ ~Resends)
  <2>1. AfterLoss(s, r) = req[r]
    BY <1>4, Zenon DEF AfterLoss
  <2> QED BY <1>0, <1>4, <2>1 DEF Settled, RequestStates
<1> QED BY <1>1, <1>2, <1>3, <1>4

\* A connection is lost.
LEMMA OnCloseInv ==
  ASSUME SdkInv, NEW s \in Sockets, OnClose(s) PROVE SdkInv'
<1>a. /\ socket[s] = "open" /\ socket' = [socket EXCEPT ![s] = "closed"]
      /\ losses < MaxLosses /\ losses' = losses + 1
      /\ UNCHANGED <<intentional, sent, answers, got, connects, disconnects>>
  BY DEF OnClose, wireVars
<1>1. CASE s # ws
  <2>0. UNCHANGED <<state, ws, sleeping, req, on>>
    BY <1>1 DEF OnClose, reqVars
  <2>1. TypeOK'
    BY <1>a, <2>0, SdkAssumption DEF SdkInv, TypeOK, SocketStates
  <2>2. SentOnce'
    BY <1>a, <2>0 DEF SdkInv, SentOnce
  <2>3. CurrentIsOpen' /\ ConnectedQueueIsEmpty'
    BY <1>a, <1>1, <2>0 DEF SdkInv, CurrentIsOpen, ConnectedQueueIsEmpty, TypeOK
  <2>4. OneAttempt'
    <3>1. connects > 1
      BY <1>a, <1>1 DEF SdkInv, OneAttempt, TypeOK
    <3> QED BY <1>a, <3>1, SdkAssumption DEF SdkInv, OneAttempt, TypeOK
  <2> QED BY <2>1, <2>2, <2>3, <2>4 DEF SdkInv
<1>2. CASE s = ws
  <2>0. /\ ws' = NoSocket
        /\ req' = [r \in Requests |-> AfterLoss(s, r)]
        /\ on' = [r \in Requests |->
                    IF on[r] = s /\ req[r] = "in_flight" THEN NoSocket ELSE on[r]]
        /\ \/ Resends /\ state' = "reconnecting" /\ sleeping' = sleeping + 1
           \/ ~Resends /\ state' = "disconnected" /\ sleeping' = sleeping
    BY <1>2 DEF OnClose
  <2>1. TypeOK'
    <3>1. req' \in [Requests -> RequestStates]
      BY <2>0, AfterLossCases DEF SdkInv
    <3>2. on' \in [Requests -> Sockets \cup {NoSocket}] /\ socket' \in [Sockets -> SocketStates]
      BY <1>a, <2>0 DEF SdkInv, TypeOK, SocketStates
    <3>3. losses' \in 0..MaxLosses /\ sleeping' \in Nat
      BY <1>a, <2>0, SdkAssumption DEF SdkInv, TypeOK
    <3> QED BY <1>a, <2>0, <3>1, <3>2, <3>3 DEF SdkInv, TypeOK
  <2>2. SentOnce'
    <3>1. \A r \in Requests \ Prints : req'[r] \in {"new", "queued"} => req[r] \in {"new", "queued"}
      BY <2>0, AfterLossCases DEF SdkInv
    <3> QED BY <1>a, <3>1 DEF SdkInv, SentOnce
  <2>3. CurrentIsOpen' /\ ConnectedQueueIsEmpty'
    BY <2>0 DEF CurrentIsOpen, ConnectedQueueIsEmpty
  <2>4. OneAttempt'
    <3>1. connects # 0
      BY <1>a DEF SdkInv, OneAttempt, Live
    <3>2. connects <= 1 => sleeping = 0
      BY <1>a DEF SdkInv, OneAttempt, TypeOK, Live
    <3>3. ASSUME connects <= 1 PROVE \A t \in Sockets : ~Live(t)'
      BY <1>a, <3>3 DEF SdkInv, OneAttempt, TypeOK, Live
    <3>4. ASSUME connects <= 1, NEW r \in Requests PROVE req'[r] # "in_flight"
      <4>1. req[r] = "in_flight" => on[r] = s
        BY <1>2, <3>4 DEF SdkInv, OneAttempt
      <4>2. req'[r] = AfterLoss(s, r)
        BY <2>0
      <4> QED BY <4>1, <4>2, AfterLossCases DEF SdkInv
    <3>5. sleeping' \in {sleeping, sleeping + 1} /\ connects' = connects
      BY <1>a, <2>0
    <3>6. \A t \in Sockets : socket'[t] = "open" => Live(t)'
      BY DEF Live
    <3> QED BY <3>1, <3>2, <3>3, <3>4, <3>5, <3>6 DEF OneAttempt
  <2> QED BY <2>1, <2>2, <2>3, <2>4 DEF SdkInv
<1> QED BY <1>1, <1>2

\* A new request.
LEMMA RequestInv ==
  ASSUME SdkInv, NEW r \in Requests, Request(r) PROVE SdkInv'
<1>a. /\ req[r] = "new"
      /\ UNCHANGED <<state, intentional, ws, socket, sleeping, answers, got, connects, disconnects, losses>>
  BY DEF Request, connVars, counters
<1>b. \/ /\ state = "disconnected" /\ req' = [req EXCEPT ![r] = Rejected(r, "NOT_PRINTED")]
         /\ UNCHANGED <<on, sent>>
      \/ /\ state = "connected" /\ ws # NoSocket
         /\ req' = [q \in Requests |-> IF q \in {r} THEN "in_flight" ELSE req[q]]
         /\ on' = [q \in Requests |-> IF q \in {r} THEN ws ELSE on[q]]
         /\ sent' = [sent EXCEPT ![ws] = @ \cup {r}]
      \/ /\ ~(state = "connected" /\ ws # NoSocket)
         /\ req' = [req EXCEPT ![r] = "queued"] /\ UNCHANGED <<on, sent>>
  BY DEF Request, SendAll
<1>c. Rejected(r, "NOT_PRINTED") \in Settled
  BY RejectedSettles
<1>d. state = "connected" => ws # NoSocket
  BY DEF SdkInv, CurrentIsOpen
<1>1. TypeOK'
  <2>1. req' \in [Requests -> RequestStates]
    BY <1>b, <1>c, SettledWaits DEF SdkInv, TypeOK, RequestStates
  <2>2. on' \in [Requests -> Sockets \cup {NoSocket}] /\ sent' \in [Sockets -> SUBSET Requests]
    BY <1>b DEF SdkInv, TypeOK
  <2> QED BY <1>a, <2>1, <2>2 DEF SdkInv, TypeOK
<1>2. SentOnce'
  BY <1>a, <1>b, <1>c, SettledWaits DEF SdkInv, SentOnce, TypeOK
<1>3. CurrentIsOpen'
  BY <1>a DEF SdkInv, CurrentIsOpen
<1>4. ConnectedQueueIsEmpty'
  BY <1>a, <1>b, <1>c, <1>d, SettledWaits DEF SdkInv, ConnectedQueueIsEmpty, TypeOK
<1>5. OneAttempt'
  <2>1. ASSUME connects <= 1, NEW q \in Requests, req'[q] = "in_flight"
        PROVE on'[q] # NoSocket /\ on'[q] = ws
    BY <1>a, <1>b, <1>c, <2>1, SettledWaits DEF SdkInv, OneAttempt, TypeOK
  <2>2. \A t \in Sockets : Live(t)' <=> Live(t)
    BY <1>a DEF Live
  <2> QED BY <1>a, <2>1, <2>2 DEF SdkInv, OneAttempt
<1> QED BY <1>1, <1>2, <1>3, <1>4, <1>5 DEF SdkInv

\* A request that settles, by its timer or by a response, waits for nothing.
LEMMA SettlesInv ==
  ASSUME SdkInv, NEW r \in Requests, NEW x \in Settled \cup {req[r]},
         req' = [req EXCEPT ![r] = x],
         UNCHANGED <<on, state, intentional, ws, socket, sleeping, sent, got, connects, disconnects, losses>>,
         answers' \in [Sockets -> SUBSET Requests]
  PROVE SdkInv'
<1>0. x \in RequestStates /\ (x \in {"new", "queued", "in_flight"} => x = req[r])
  BY SettledWaits DEF SdkInv, TypeOK
<1>1. TypeOK'
  <2>1. req' \in [Requests -> RequestStates]
    BY <1>0 DEF SdkInv, TypeOK
  <2> QED BY <2>1 DEF SdkInv, TypeOK
<1>2. \A q \in Requests : req'[q] \in {"new", "queued", "in_flight"} => req'[q] = req[q]
  BY <1>0 DEF SdkInv, TypeOK
<1>3. SentOnce' /\ CurrentIsOpen' /\ ConnectedQueueIsEmpty'
  BY <1>2 DEF SdkInv, SentOnce, CurrentIsOpen, ConnectedQueueIsEmpty
<1>4. OneAttempt'
  BY <1>2 DEF SdkInv, OneAttempt, Live
<1> QED BY <1>1, <1>3, <1>4 DEF SdkInv

LEMMA TimerFiresInv ==
  ASSUME SdkInv, NEW r \in Requests, TimerFires(r) PROVE SdkInv'
<1>1. PICK x \in Settled : req' = [req EXCEPT ![r] = x]
  BY RejectedSettles DEF TimerFires
<1>2. UNCHANGED <<on, state, intentional, ws, socket, sleeping, sent, got, connects, disconnects, losses>>
      /\ answers' \in [Sockets -> SUBSET Requests]
  BY DEF TimerFires, connVars, wireVars, counters, SdkInv, TypeOK
<1> QED BY <1>1, <1>2, SettlesInv

LEMMA OnMessageInv ==
  ASSUME SdkInv, NEW s \in Sockets, NEW r \in Requests, OnMessage(s, r) PROVE SdkInv'
<1>1. PICK x \in Settled \cup {req[r]} : req' = [req EXCEPT ![r] = x]
  BY DEF OnMessage, Settled
<1>2. UNCHANGED <<on, state, intentional, ws, socket, sleeping, sent, got, connects, disconnects, losses>>
  BY DEF OnMessage, connVars, counters
<1>3. answers' \in [Sockets -> SUBSET Requests]
  BY DEF OnMessage, SdkInv, TypeOK
<1> QED BY <1>1, <1>2, <1>3, SettlesInv

\* The agent takes a request off the wire.
LEMMA AgentActsInv ==
  ASSUME SdkInv, NEW s \in Sockets, NEW r \in Requests, AgentActs(s, r) PROVE SdkInv'
<1>a. /\ r \in sent[s] /\ sent' = [sent EXCEPT ![s] = @ \ {r}] /\ got' = got \cup {r}
      /\ answers' = [answers EXCEPT ![s] = @ \cup {r}]
      /\ UNCHANGED <<state, intentional, ws, socket, sleeping, req, on, connects, disconnects, losses>>
  BY DEF AgentActs, connVars, reqVars, counters
<1>1. TypeOK'
  BY <1>a DEF SdkInv, TypeOK
<1>2. SentOnce'
  BY <1>a DEF SdkInv, SentOnce, TypeOK
<1>3. CurrentIsOpen' /\ ConnectedQueueIsEmpty'
  BY <1>a DEF SdkInv, CurrentIsOpen, ConnectedQueueIsEmpty
<1>4. OneAttempt'
  BY <1>a DEF SdkInv, OneAttempt, Live
<1> QED BY <1>1, <1>2, <1>3, <1>4 DEF SdkInv

\* A step that changes nothing.
LEMMA SdkStutters == ASSUME SdkInv, UNCHANGED vars PROVE SdkInv'
<1> USE DEF vars, connVars, reqVars, wireVars, counters
<1>1. TypeOK'
  BY DEF SdkInv, TypeOK
<1>2. SentOnce' /\ CurrentIsOpen' /\ ConnectedQueueIsEmpty'
  BY DEF SdkInv, SentOnce, CurrentIsOpen, ConnectedQueueIsEmpty
<1>3. OneAttempt'
  BY DEF SdkInv, OneAttempt, Live
<1> QED BY <1>1, <1>2, <1>3 DEF SdkInv

\* The invariant of the SDK.
THEOREM ClientHolds == Spec => []SdkInv
<1>1. Init => SdkInv
  BY SdkInitInv
<1>2. SdkInv /\ [Next]_vars => SdkInv'
  <2> SUFFICES ASSUME SdkInv, [Next]_vars PROVE SdkInv'
    OBVIOUS
  <2>1. ASSUME NEW s \in Sockets,
               Connect(s) \/ HelloAccepted(s) \/ HelloFails(s) \/ LoopWakes(s) \/ OnClose(s)
        PROVE SdkInv'
    BY <2>1, ConnectInv, HelloAcceptedInv, HelloFailsInv, LoopWakesInv, OnCloseInv
  <2>2. ASSUME NEW s \in Sockets, NEW r \in Requests, AgentActs(s, r) \/ OnMessage(s, r)
        PROVE SdkInv'
    BY <2>2, AgentActsInv, OnMessageInv
  <2>3. ASSUME NEW r \in Requests, Request(r) \/ TimerFires(r) PROVE SdkInv'
    BY <2>3, RequestInv, TimerFiresInv
  <2> QED BY <2>1, <2>2, <2>3, DisconnectInv, SdkStutters DEF Next
<1> QED BY <1>1, <1>2, PTL DEF Spec

\* For any requests, sockets and losses: no request waits in the queue of a
\* connected client, and while connect was called once, none is in flight on a
\* socket that is gone (#afterConnect, #onClose).
THEOREM RequestsAreNotForgotten == Spec => []NoneForgotten
<1>1. SdkInv => NoneForgotten
  <2> SUFFICES ASSUME SdkInv PROVE NoneForgotten
    OBVIOUS
  <2>1. LostIsNoticed
    <3> SUFFICES ASSUME connects <= 1, NEW r \in Requests, req[r] = "in_flight"
                 PROVE socket[on[r]] = "open"
      BY DEF LostIsNoticed
    <3> QED BY DEF SdkInv, OneAttempt, CurrentIsOpen
  <2> QED BY <2>1 DEF SdkInv, NoneForgotten
<1> QED BY <1>1, ClientHolds, PTL

\* For any requests, sockets and losses: at most one copy of a cancelJob ever
\* leaves the client (#send, #onClose; "cancelJob is never resent").
THEOREM CancelsLeaveOnce == Spec => []CancelSentOnce
<1>1. SdkInv => CancelSentOnce
  <2> SUFFICES ASSUME SdkInv, NEW r \in Requests \ Prints
               PROVE Cardinality({s \in Sockets : r \in sent[s]}) + (IF r \in got THEN 1 ELSE 0) <= 1
    BY DEF CancelSentOnce
  <2> DEFINE S == {s \in Sockets : r \in sent[s]}
  <2>1. CASE S = {}
    <3>1. Cardinality(S) = 0
      BY <2>1, FS_EmptySet
    <3> QED BY <3>1
  <2>2. CASE S # {}
    <3>1. PICK s \in S : TRUE
      BY <2>2
    <3>2. S = {s}
      BY DEF SdkInv, SentOnce
    <3>3. Cardinality(S) = 1
      BY <3>2, FS_Singleton
    <3>4. r \notin got
      BY <3>1 DEF SdkInv, SentOnce
    <3> QED BY <3>3, <3>4
  <2> QED BY <2>1, <2>2
<1> QED BY <1>1, ClientHolds, PTL

-----------------------------------------------------------------------------

\* What a step does to a request that is settled.
StaysSettled ==
  \A r \in Requests :
    req[r] \in Settled => /\ req'[r] = req[r]
                          /\ \A s \in Sockets : r \in sent'[s] => r \in sent[s]

\* Sending requests that are not settled sends no settled one.
LEMMA SendsUnsettled ==
  ASSUME TypeOK, NEW s \in Sockets, NEW rs \in SUBSET Requests,
         \A r \in rs : req[r] \notin Settled, SendAll(rs, s)
  PROVE StaysSettled
BY DEF TypeOK, SendAll, StaysSettled

\* #failAll, and steps that change one request that is not settled.
LEMMA OthersStaySettled ==
  ASSUME TypeOK, sent' = sent,
         \A r \in Requests : req[r] \in Settled => req'[r] = req[r]
  PROVE StaysSettled
BY DEF StaysSettled

\* A promise settles once: for any requests, sockets and losses no late
\* response, reconnect or disconnect changes what the application was told, or
\* sends the request again (#onMessage, #onClose, #failAll, #afterConnect).
THEOREM PromisesSettleOnce == Spec => SettledIsFinal
<1>1. SdkInv /\ [Next]_vars => [StaysSettled]_vars
  <2> SUFFICES ASSUME SdkInv, Next PROVE StaysSettled
    OBVIOUS
  <2>0. TypeOK
    BY DEF SdkInv
  <2>1. ASSUME NEW s \in Sockets, Connect(s) \/ LoopWakes(s) PROVE StaysSettled
    BY <2>1 DEF Connect, LoopWakes, reqVars, wireVars, StaysSettled
  <2>2. ASSUME NEW s \in Sockets, HelloAccepted(s) PROVE StaysSettled
    <3>1. CASE AfterConnect(s)
      <4>1. \A r \in {r \in Requests : req[r] = "queued"} : req[r] \notin Settled
        BY SettledWaits
      <4> QED BY <3>1, <4>1, <2>0, SendsUnsettled DEF AfterConnect
    <3>2. CASE UNCHANGED <<state, reqVars, sent>>
      BY <3>2 DEF reqVars, StaysSettled
    <3> QED BY <2>2, <3>1, <3>2 DEF HelloAccepted
  <2>3. ASSUME FailAll, sent' = sent PROVE StaysSettled
    BY <2>3, <2>0, FailAllSettles, SettledWaits, OthersStaySettled
  <2>4. ASSUME NEW s \in Sockets, HelloFails(s) PROVE StaysSettled
    <3>1. sent' = sent
      BY <2>4 DEF HelloFails, wireVars
    <3>2. CASE FailAll
      BY <3>1, <3>2, <2>3
    <3>3. CASE UNCHANGED reqVars
      BY <3>1, <3>3 DEF reqVars, StaysSettled
    <3> QED BY <2>4, <3>2, <3>3 DEF HelloFails
  <2>5. ASSUME NEW s \in Sockets, OnClose(s) PROVE StaysSettled
    <3>1. sent' = sent
      BY <2>5 DEF OnClose, wireVars
    <3>2. req' = req \/ req' = [r \in Requests |-> AfterLoss(s, r)]
      BY <2>5 DEF OnClose, reqVars
    <3> QED BY <3>1, <3>2, <2>0, AfterLossCases, OthersStaySettled
  <2>6. ASSUME NEW s \in Sockets, NEW r \in Requests, AgentActs(s, r) PROVE StaysSettled
    <3>1. sent' = [sent EXCEPT ![s] = @ \ {r}] /\ req' = req
      BY <2>6 DEF AgentActs, reqVars
    <3> QED BY <3>1, <2>0 DEF StaysSettled, TypeOK
  <2>7. ASSUME NEW s \in Sockets, NEW r \in Requests, OnMessage(s, r) PROVE StaysSettled
    <3>1. sent' = sent
          /\ req' = [req EXCEPT ![r] = IF req[r] = "in_flight" /\ on[r] = s THEN "answered" ELSE @]
      BY <2>7 DEF OnMessage
    <3> QED BY <3>1, <2>0, SettledWaits, OthersStaySettled DEF TypeOK
  <2>8. CASE Disconnect
    BY <2>8, <2>3 DEF Disconnect, wireVars
  <2>9. ASSUME NEW r \in Requests, Request(r) PROVE StaysSettled
    <3>1. req[r] \notin Settled
      BY <2>9, SettledWaits DEF Request
    <3>2. CASE sent' = sent
      <4>1. \A q \in Requests : q # r => req'[q] = req[q]
        BY <2>9, <2>0 DEF Request, SendAll, TypeOK
      <4> QED BY <3>1, <3>2, <4>1, <2>0, OthersStaySettled
    <3>3. CASE ws # NoSocket /\ SendAll({r}, ws)
      <4>1. ws \in Sockets
        BY <3>3, <2>0 DEF TypeOK
      <4> QED BY <3>1, <3>3, <4>1, <2>0, SendsUnsettled
    <3> QED BY <2>9, <3>2, <3>3 DEF Request
  <2>10. ASSUME NEW r \in Requests, TimerFires(r) PROVE StaysSettled
    <3>1. req[r] \notin Settled /\ sent' = sent
      BY <2>10, SettledWaits DEF TimerFires, wireVars
    <3>2. \A q \in Requests : q # r => req'[q] = req[q]
      BY <2>10, <2>0 DEF TimerFires, TypeOK
    <3> QED BY <3>1, <3>2, <2>0, OthersStaySettled
  <2> QED BY <2>1, <2>2, <2>4, <2>5, <2>6, <2>7, <2>8, <2>9, <2>10 DEF Next
<1> QED BY <1>1, ClientHolds, PTL DEF Spec, SettledIsFinal, StaysSettled
=============================================================================
