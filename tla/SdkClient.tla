------------------------------ MODULE SdkClient ------------------------------
(***************************************************************************)
(* The connection and the requests of the TypeScript SDK's PrintClient     *)
(* (sdk/typescript/src/client.ts) against an agent that may be unreachable *)
(* or lose the connection at any time.                                     *)
(*                                                                         *)
(* JavaScript runs one callback at a time, so an action is one callback    *)
(* with the promise continuations it triggers: a call of the application,  *)
(* an event of a socket or a timer.  Several sockets can exist: one per    *)
(* call of #open.  The agent deduplicates prints by idempotency key        *)
(* (PrintEngine: KeyPrintsOnce), so receiving a print again changes        *)
(* nothing and `got` is a set.                                             *)
(*                                                                         *)
(* A definition marked "Mutant" is a plausible mistake in the definition   *)
(* that follows it and is not part of the specification.                   *)
(***************************************************************************)
EXTENDS Naturals, FiniteSets

CONSTANTS
  Requests,      \* calls of the request methods
  Prints,        \* those that print; the others are cancelJob, never resent
  Sockets,       \* identities for the calls of #open
  NoSocket,
  Reconnects,    \* options.reconnect is not false
  GivesUp,       \* options.reconnect.maxAttempts is finite
  MaxConnects,   \* bound: calls of connect
  MaxDisconnects,\* bound: calls of disconnect
  MaxLosses      \* bound: failed handshakes and lost connections

ASSUME SdkAssumption ==
  /\ Prints \subseteq Requests
  /\ NoSocket \notin Sockets
  /\ Reconnects \in BOOLEAN
  /\ GivesUp \in BOOLEAN
  /\ MaxConnects \in Nat
  /\ MaxDisconnects \in Nat
  /\ MaxLosses \in Nat

VARIABLES
  state,        \* #state
  intentional,  \* #intentionalClose
  ws,           \* #ws
  socket,       \* each socket: see SocketStates
  sleeping,     \* how many runs of #reconnectLoop are in their sleep
  req,          \* each request: see RequestStates
  on,           \* Pending.socket
  sent,         \* per socket, the requests on their way to the agent
  answers,      \* per socket, the responses on their way back
  got,          \* the requests the agent has acted on
  connects, disconnects, losses  \* how often the bounded events happened

connVars == <<state, intentional, ws, socket, sleeping>>
reqVars  == <<req, on>>
wireVars == <<sent, answers, got>>
counters == <<connects, disconnects, losses>>
vars == <<connVars, reqVars, wireVars, counters>>

\* "connect", "loop": in its handshake, opened by connect or #reconnectLoop.
SocketStates == {"unused", "connect", "loop", "open", "closed"}

Opening(s) == socket[s] \in {"connect", "loop"}

\* A rejected print says NOT_PRINTED or UNKNOWN; "failed" is the rejection of a
\* cancelJob, which has no outcome.
Settled == {"answered", "NOT_PRINTED", "UNKNOWN", "failed"}
RequestStates == {"new", "queued", "in_flight"} \cup Settled

TypeOK ==
  /\ state \in {"disconnected", "connecting", "reconnecting", "connected"}
  /\ intentional \in BOOLEAN
  /\ ws \in Sockets \cup {NoSocket}
  /\ socket \in [Sockets -> SocketStates]
  /\ sleeping \in Nat
  /\ req \in [Requests -> RequestStates]
  /\ on \in [Requests -> Sockets \cup {NoSocket}]
  /\ sent \in [Sockets -> SUBSET Requests]
  /\ answers \in [Sockets -> SUBSET Requests]
  /\ got \in SUBSET Requests
  /\ connects \in 0..MaxConnects
  /\ disconnects \in 0..MaxDisconnects
  /\ losses \in 0..MaxLosses

Init ==
  /\ state = "disconnected"
  /\ intentional = FALSE
  /\ ws = NoSocket
  /\ socket = [s \in Sockets |-> "unused"]
  /\ sleeping = 0
  /\ req = [r \in Requests |-> "new"]
  /\ on = [r \in Requests |-> NoSocket]
  /\ sent = [s \in Sockets |-> {}]
  /\ answers = [s \in Sockets |-> {}]
  /\ got = {}
  /\ connects = 0 /\ disconnects = 0 /\ losses = 0

-----------------------------------------------------------------------------
(* What callbacks do to the pending requests.                              *)

Rejected(r, outcome) == IF r \in Prints THEN outcome ELSE "failed"

\* #failAll: what is queued "never reached the agent".
FailAll ==
  /\ req' = [r \in Requests |->
               CASE req[r] \in {"queued", "in_flight"} ->
                      Rejected(r, IF on[r] = NoSocket THEN "NOT_PRINTED" ELSE "UNKNOWN")
                 [] OTHER -> req[r]]
  /\ UNCHANGED on

\* #send of every request in rs on socket s
SendAll(rs, s) ==
  /\ req' = [r \in Requests |-> IF r \in rs THEN "in_flight" ELSE req[r]]
  /\ on' = [r \in Requests |-> IF r \in rs THEN s ELSE on[r]]
  /\ sent' = [sent EXCEPT ![s] = @ \cup rs]

\* #afterConnect
AfterConnect(s) ==
  /\ state' = "connected"
  /\ SendAll({r \in Requests : req[r] = "queued"}, s)

-----------------------------------------------------------------------------
(* The connection.                                                         *)

\* connect: nothing new while connected or while an earlier call is pending.
Connect(s) ==
  /\ connects < MaxConnects
  /\ state # "connected"
  /\ \A t \in Sockets : socket[t] # "connect"
  /\ socket[s] = "unused"
  /\ connects' = connects + 1
  /\ intentional' = FALSE
  /\ state' = "connecting"
  /\ socket' = [socket EXCEPT ![s] = "connect"]
  /\ UNCHANGED <<ws, sleeping, reqVars, wireVars, disconnects, losses>>

\* disconnect: only the current socket is closed, one that is still in its
\* handshake is not known here.
Disconnect ==
  /\ disconnects < MaxDisconnects
  /\ disconnects' = disconnects + 1
  /\ intentional' = TRUE
  /\ state' = "disconnected"
  /\ ws' = NoSocket
  /\ socket' = [s \in Sockets |-> IF s = ws THEN "closed" ELSE socket[s]]
  /\ FailAll
  /\ UNCHANGED <<sleeping, wireVars, connects, losses>>

\* The agent accepts session.hello.  #reconnectLoop looks at #intentionalClose
\* again, connect does not.
HelloAccepted(s) ==
  /\ Opening(s)
  /\ socket' = [socket EXCEPT ![s] = "open"]
  /\ ws' = s
  /\ \/ /\ socket[s] = "connect" \/ ~intentional
        /\ AfterConnect(s)
     \/ /\ socket[s] = "loop" /\ intentional
        /\ UNCHANGED <<state, reqVars, sent>>
  /\ UNCHANGED <<intentional, sleeping, answers, got, counters>>

\* Refused, timed out or cut off.  connect gives up; #reconnectLoop only after
\* a fatal error or its last attempt.
HelloFails(s) ==
  /\ losses < MaxLosses
  /\ losses' = losses + 1
  /\ Opening(s)
  /\ socket' = [socket EXCEPT ![s] = "closed"]
  /\ \/ /\ socket[s] = "connect" \/ GivesUp
        /\ state' = "disconnected"
        /\ FailAll
        /\ UNCHANGED sleeping
     \/ /\ socket[s] = "loop"
        /\ sleeping' = sleeping + 1
        /\ UNCHANGED <<state, reqVars>>
  /\ UNCHANGED <<intentional, ws, wireVars, connects, disconnects>>

\* The sleep of #reconnectLoop is over.
LoopWakes(s) ==
  /\ sleeping > 0
  /\ sleeping' = sleeping - 1
  /\ \/ /\ intentional
        /\ UNCHANGED socket
     \/ /\ ~intentional
        /\ socket[s] = "unused"
        /\ socket' = [socket EXCEPT ![s] = "loop"]
  /\ UNCHANGED <<state, intentional, ws, reqVars, wireVars, counters>>

\* #onClose looks at the option and at #intentionalClose.
Resends == Reconnects /\ ~intentional

\* Mutant: every request counts as safe to send again.
AfterLossResendsAll(s, r) == IF req[r] = "in_flight" /\ on[r] = s THEN "queued" ELSE req[r]

\* What #onClose does to the requests: what may be sent again is queued, what
\* may not is rejected, and without a reconnect #failAll rejects all the others.
AfterLoss(s, r) ==
  CASE req[r] = "in_flight" /\ on[r] = s /\ Resends ->
         IF r \in Prints THEN "queued" ELSE "failed"
    [] req[r] = "in_flight" /\ ~Resends -> Rejected(r, "UNKNOWN")
    [] req[r] = "queued" /\ ~Resends    -> Rejected(r, "NOT_PRINTED")
    [] OTHER -> req[r]

\* Mutant: no run of #reconnectLoop is started.
OnCloseStaysDown(s) ==
  /\ losses < MaxLosses
  /\ losses' = losses + 1
  /\ socket[s] = "open" /\ s = ws
  /\ socket' = [socket EXCEPT ![s] = "closed"]
  /\ ws' = NoSocket
  /\ req' = [r \in Requests |-> AfterLoss(s, r)]
  /\ state' = "reconnecting"
  /\ UNCHANGED <<intentional, sleeping, on, wireVars, connects, disconnects>>

\* Mutant: what was in flight is left where it is.
OnCloseForgets(s) ==
  /\ losses < MaxLosses
  /\ losses' = losses + 1
  /\ socket[s] = "open" /\ s = ws
  /\ socket' = [socket EXCEPT ![s] = "closed"]
  /\ ws' = NoSocket
  /\ state' = "reconnecting"
  /\ sleeping' = sleeping + 1
  /\ UNCHANGED <<intentional, reqVars, wireVars, connects, disconnects>>

OnClose(s) ==
  /\ losses < MaxLosses
  /\ losses' = losses + 1
  /\ socket[s] = "open"
  /\ socket' = [socket EXCEPT ![s] = "closed"]
  /\ \/ /\ s = ws
        /\ ws' = NoSocket
        /\ req' = [r \in Requests |-> AfterLoss(s, r)]
        /\ on' = [r \in Requests |->
                    IF on[r] = s /\ req[r] = "in_flight" THEN NoSocket ELSE on[r]]
        /\ IF Resends
           THEN state' = "reconnecting" /\ sleeping' = sleeping + 1
           ELSE state' = "disconnected" /\ UNCHANGED sleeping
     \/ /\ s # ws
        /\ UNCHANGED <<state, ws, sleeping, reqVars>>
  /\ UNCHANGED <<intentional, wireVars, connects, disconnects>>

-----------------------------------------------------------------------------
(* Requests.                                                               *)

\* #request: refused, sent or queued.
Request(r) ==
  /\ req[r] = "new"
  /\ \/ /\ state = "disconnected"
        /\ req' = [req EXCEPT ![r] = Rejected(r, "NOT_PRINTED")]
        /\ UNCHANGED <<on, sent>>
     \/ /\ state = "connected" /\ ws # NoSocket
        /\ SendAll({r}, ws)
     \/ /\ state # "disconnected" /\ ~(state = "connected" /\ ws # NoSocket)
        /\ req' = [req EXCEPT ![r] = "queued"]
        /\ UNCHANGED <<on, sent>>
  /\ UNCHANGED <<connVars, answers, got, counters>>

\* The request's timer: socket === null is read as "not sent".
TimerFires(r) ==
  /\ req[r] \in {"queued", "in_flight"}
  /\ req' = [req EXCEPT ![r] =
               Rejected(r, IF on[r] = NoSocket THEN "NOT_PRINTED" ELSE "UNKNOWN")]
  /\ UNCHANGED <<on, connVars, wireVars, counters>>

\* The agent acts on a request.  One that was under way when its socket closed
\* may still arrive.
AgentActs(s, r) ==
  /\ r \in sent[s]
  /\ sent' = [sent EXCEPT ![s] = @ \ {r}]
  /\ got' = got \cup {r}
  /\ answers' = [answers EXCEPT ![s] = @ \cup {r}]
  /\ UNCHANGED <<connVars, reqVars, counters>>

\* Mutant: the answer to a request is delivered whatever became of it.
OnMessageIgnoresPending(s, r) ==
  /\ r \in answers[s]
  /\ socket[s] = "open"
  /\ answers' = [answers EXCEPT ![s] = @ \ {r}]
  /\ req' = [req EXCEPT ![r] = "answered"]
  /\ UNCHANGED <<on, connVars, sent, got, counters>>

\* #onMessage: a response settles a request that is in flight on its socket.
OnMessage(s, r) ==
  /\ r \in answers[s]
  /\ socket[s] = "open"
  /\ answers' = [answers EXCEPT ![s] = @ \ {r}]
  /\ req' = [req EXCEPT ![r] =
               IF req[r] = "in_flight" /\ on[r] = s THEN "answered" ELSE @]
  /\ UNCHANGED <<on, connVars, sent, got, counters>>

-----------------------------------------------------------------------------
Next ==
  \/ \E s \in Sockets :
       \/ Connect(s) \/ HelloAccepted(s) \/ HelloFails(s) \/ LoopWakes(s) \/ OnClose(s)
       \/ \E r \in Requests : AgentActs(s, r) \/ OnMessage(s, r)
  \/ Disconnect
  \/ \E r \in Requests : Request(r) \/ TimerFires(r)

Spec == Init /\ [][Next]_vars

\* The sleep of #reconnectLoop ends, and a handshake ends one way or the other
\* (it has a timer).  No fairness of the request's own timer is assumed.
Fairness ==
  /\ WF_vars(\E s \in Sockets : LoopWakes(s))
  /\ \A s \in Sockets : WF_vars(HelloAccepted(s) \/ HelloFails(s))

FairSpec == Spec /\ Fairness

-----------------------------------------------------------------------------
(* Properties.                                                             *)

\* A print the application is told was NOT_PRINTED has not reached the agent and
\* is not on its way: the outcome #failAll and the timer derive from
\* Pending.socket is the truth.
NotPrintedIsTrue ==
  \A r \in Prints :
    req[r] = "NOT_PRINTED" => r \notin got /\ \A s \in Sockets : r \notin sent[s]

\* "cancelJob is never resent": at most one copy of it ever leaves the client,
\* over any number of reconnects.
CancelSentOnce ==
  \A r \in Requests \ Prints :
    Cardinality({s \in Sockets : r \in sent[s]}) + (IF r \in got THEN 1 ELSE 0) <= 1

\* A promise settles once: no late response, no reconnect and no disconnect
\* changes what the application was told, or sends the request again.
SettledIsFinal ==
  [][\A r \in Requests :
       req[r] \in Settled => /\ req'[r] = req[r]
                             /\ \A s \in Sockets : r \in sent'[s] => r \in sent[s]]_vars

\* Nothing stays in the queue of a connected client: #afterConnect empties it
\* and #request does not add to it.
ConnectedQueueIsEmpty == state = "connected" => \A r \in Requests : req[r] # "queued"

\* "Prints lost with a dropped connection are resent automatically": no request
\* is left in flight on a socket that has closed.  A second call of connect can
\* leave two sockets, and #onClose ignores the loss of the older one.
LostIsNoticed ==
  connects <= 1 =>
    \A r \in Requests : req[r] = "in_flight" => socket[on[r]] = "open"

\* No request is forgotten: none waits in the queue of a client that is
\* connected or for an answer on a socket that is gone (#afterConnect,
\* #onClose).
NoneForgotten == TypeOK /\ ConnectedQueueIsEmpty /\ LostIsNoticed

\* After disconnect the client stays disconnected until connect is called.
DisconnectHolds == intentional => state # "connected"

\* A request queued while the client reconnects is sent or rejected, without
\* the help of its own timer.
QueuedIsServed == \A r \in Requests : req[r] = "queued" ~> req[r] # "queued"
=============================================================================
