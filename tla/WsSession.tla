------------------------------ MODULE WsSession ------------------------------
(***************************************************************************)
(* One WebSocket connection of the agent (agent/src/api/ws.rs) from the    *)
(* moment it holds a connection slot to the moment it returns it.          *)
(*                                                                         *)
(* Three kinds of tasks share it: the session task (handshake, then the    *)
(* select loop of `run`), one task per request being dispatched, and the   *)
(* writer, which takes messages from the bounded outbound queue and writes *)
(* them to the socket.  A response or a close frame waits for room in the  *)
(* queue and holds its task up while it waits; events and pings are        *)
(* dropped when there is none.                                             *)
(*                                                                         *)
(* A definition marked "Mutant" is a plausible mistake in the definition   *)
(* that follows it and is not part of the specification.                   *)
(***************************************************************************)
EXTENDS Naturals, Sequences, SequencesExt, FiniteSets

CONSTANTS
  Ids,          \* request ids the client uses
  Recent,       \* RECENT_REQUEST_IDS
  InFlight,     \* server.max_in_flight_per_connection
  Capacity,     \* OUTBOUND_CAPACITY
  SilentTicks,  \* heartbeats without a message that are tolerated
  MaxFrames,    \* bound: requests the client sends
  MaxEvents,    \* bound: engine events the client may see
  MayStall      \* the client may stop reading

ASSUME WsAssumption ==
  /\ Recent \in Nat \ {0}
  /\ InFlight \in Nat \ {0}
  /\ Capacity \in Nat /\ Capacity >= 2
  /\ SilentTicks \in Nat
  /\ MaxFrames \in Nat
  /\ MaxEvents \in Nat
  /\ MayStall \in BOOLEAN

VARIABLES
  phase,      \* of the session task: see Phases
  todo,       \* messages it is waiting to put into the outbound queue
  leaving,    \* it leaves `run` once it has done so
  out,        \* the outbound queue
  writer,     \* "on" or "done"
  frames,     \* the id of every request received
  recent,     \* recent_ids, oldest first
  tasks,      \* the requests being dispatched, each with its permit
  dispatched, \* the requests that were ever dispatched
  silent,     \* heartbeats since last_seen
  events,     \* engine events so far
  stopping,   \* the agent is shutting down
  open, reads, mute, \* the client: connected, reading, silent for good
  answered    \* the requests whose response the client has

sessionVars == <<phase, todo, leaving, silent>>
queueVars   == <<out, writer, answered>>
requestVars == <<frames, recent, tasks, dispatched>>
clientVars  == <<open, reads, mute>>
vars == <<sessionVars, queueVars, requestVars, clientVars, events, stopping>>

Phases == {"handshake", "run", "closing", "gone"}

Response(n) == [kind |-> "response", frame |-> n]
Hello == [kind |-> "hello"]
Event == [kind |-> "event"]
Ping  == [kind |-> "ping"]
Close == [kind |-> "close"]

Messages == {Response(n) : n \in 1..MaxFrames} \cup {Hello, Event, Ping, Close}

TypeOK ==
  /\ phase \in Phases
  /\ todo \in Seq(Messages) /\ Len(todo) <= 1
  /\ leaving \in BOOLEAN
  /\ out \in Seq(Messages) /\ Len(out) <= Capacity
  /\ writer \in {"on", "done"}
  /\ frames \in Seq(Ids) /\ Len(frames) <= MaxFrames
  /\ recent \in Seq(Ids) /\ Len(recent) <= Recent
  /\ dispatched \in SUBSET (1..Len(frames))
  /\ tasks \in SUBSET dispatched /\ Cardinality(tasks) <= InFlight
  /\ silent \in 0..SilentTicks + 1
  /\ events \in 0..MaxEvents
  /\ {stopping, open, reads, mute} \subseteq BOOLEAN
  /\ answered \in SUBSET (1..Len(frames))

Init ==
  /\ phase = "handshake" /\ todo = <<>> /\ leaving = FALSE /\ silent = 0
  /\ out = <<>> /\ writer = "on" /\ answered = {}
  /\ frames = <<>> /\ recent = <<>> /\ tasks = {} /\ dispatched = {}
  /\ open = TRUE /\ reads = TRUE /\ mute = FALSE
  /\ events = 0 /\ stopping = FALSE

-----------------------------------------------------------------------------
(* The handshake.  The queue is empty then, so nothing has to wait.        *)

HelloAccepted ==
  /\ phase = "handshake" /\ open /\ ~mute
  /\ phase' = "run"
  /\ out' = Append(out, Hello)
  /\ UNCHANGED <<todo, leaving, silent, writer, answered, requestVars, clientVars, events, stopping>>

\* A refused hello is answered and the connection closed.
HelloRefused ==
  /\ phase = "handshake" /\ open /\ ~mute
  /\ phase' = "closing"
  /\ out' = out \o <<Hello, Close>>
  /\ UNCHANGED <<todo, leaving, silent, writer, answered, requestVars, clientVars, events, stopping>>

HelloTimesOut ==
  /\ phase = "handshake"
  /\ phase' = "closing"
  /\ out' = Append(out, Close)
  /\ UNCHANGED <<todo, leaving, silent, writer, answered, requestVars, clientVars, events, stopping>>

-----------------------------------------------------------------------------
(* The select loop of `run`.                                               *)

AtSelect == phase = "run" /\ todo = <<>>

\* The stream ended, in the handshake or in `run`.
StreamEnds ==
  /\ phase = "handshake" \/ AtSelect
  /\ ~open
  /\ phase' = "closing"
  /\ UNCHANGED <<todo, leaving, silent, queueVars, requestVars, clientVars, events, stopping>>

\* A pong, or anything else that is not a request.
OtherMessage ==
  /\ AtSelect /\ open /\ ~mute
  /\ silent' = 0
  /\ UNCHANGED <<phase, todo, leaving, queueVars, requestVars, clientVars, events, stopping>>

\* Mutant: one id fewer is remembered than RECENT_REQUEST_IDS.
RememberFewer(id) ==
  LET ids == Append(recent, id) IN IF Len(ids) >= Recent THEN Tail(ids) ELSE ids

\* The ids remembered after id was added.
Remember(id) ==
  LET ids == Append(recent, id) IN IF Len(ids) > Recent THEN Tail(ids) ELSE ids

Receives(id) ==
  /\ AtSelect /\ open /\ ~mute
  /\ Len(frames) < MaxFrames
  /\ frames' = Append(frames, id)
  /\ silent' = 0
  /\ UNCHANGED <<phase, leaving, queueVars, clientVars, events, stopping>>

\* handle_text refuses a request: a bad envelope (the id is not looked at), an
\* id that was used, the client's rate limit or no free permit.
RequestRefused(id) ==
  /\ Receives(id)
  /\ todo' = <<Response(Len(frames'))>>
  /\ recent' \in {recent} \cup (IF Contains(recent, id) THEN {} ELSE {Remember(id)})
  /\ UNCHANGED <<tasks, dispatched>>

\* Mutant: a used id is answered with an error and dispatched all the same.
RequestDispatchedTwice(id) ==
  /\ Receives(id)
  /\ Cardinality(tasks) < InFlight
  /\ recent' = Remember(id)
  /\ tasks' = tasks \cup {Len(frames')}
  /\ dispatched' = dispatched \cup {Len(frames')}
  /\ todo' = IF Contains(recent, id) THEN <<Response(Len(frames'))>> ELSE <<>>

\* handle_text spawns a task for the request.
RequestDispatched(id) ==
  /\ Receives(id)
  /\ ~Contains(recent, id)
  /\ Cardinality(tasks) < InFlight
  /\ recent' = Remember(id)
  /\ tasks' = tasks \cup {Len(frames')}
  /\ dispatched' = dispatched \cup {Len(frames')}
  /\ UNCHANGED todo

\* tx.try_send: dropped when the queue is full or the writer has ended
TrySend(m) ==
  out' = IF writer = "on" /\ Len(out) < Capacity THEN Append(out, m) ELSE out

\* An engine event this client may see.
EngineEvent ==
  /\ AtSelect /\ events < MaxEvents
  /\ events' = events + 1
  /\ TrySend(Event)
  /\ UNCHANGED <<sessionVars, writer, answered, requestVars, clientVars, stopping>>

\* The heartbeat's tick.
Tick ==
  /\ AtSelect
  /\ \/ /\ silent > SilentTicks
        /\ todo' = <<Close>> /\ leaving' = TRUE
        /\ UNCHANGED <<silent, out>>
     \/ /\ silent <= SilentTicks
        /\ silent' = silent + 1
        /\ TrySend(Ping)
        /\ UNCHANGED <<todo, leaving>>
  /\ UNCHANGED <<phase, writer, answered, requestVars, clientVars, events, stopping>>

\* The loop sees the shutdown token.
SeesShutdown ==
  /\ AtSelect /\ stopping
  /\ todo' = <<Close>> /\ leaving' = TRUE
  /\ UNCHANGED <<phase, silent, queueVars, requestVars, clientVars, events, stopping>>

\* tx.send: waits for room, and fails at once when the writer has ended.
CanSend == writer = "done" \/ Len(out) < Capacity
Send(m) == out' = IF writer = "done" THEN out ELSE Append(out, m)

\* Mutant: the end of the writer is not noticed.
PushWaits ==
  /\ todo # <<>> /\ writer = "on" /\ Len(out) < Capacity
  /\ out' = Append(out, Head(todo))
  /\ todo' = Tail(todo)
  /\ phase' = IF leaving THEN "closing" ELSE phase
  /\ UNCHANGED <<leaving, silent, writer, answered, requestVars, clientVars, events, stopping>>

\* The session task puts its message into the queue and goes on, or leaves.
Push ==
  /\ todo # <<>> /\ CanSend
  /\ Send(Head(todo))
  /\ todo' = Tail(todo)
  /\ phase' = IF leaving THEN "closing" ELSE phase
  /\ UNCHANGED <<leaving, silent, writer, answered, requestVars, clientVars, events, stopping>>

\* A dispatched request is done, its response is queued, its permit released.
TaskAnswers(n) ==
  /\ n \in tasks /\ CanSend
  /\ Send(Response(n))
  /\ tasks' = tasks \ {n}
  /\ UNCHANGED <<sessionVars, writer, answered, frames, recent, dispatched, clientVars, events, stopping>>

-----------------------------------------------------------------------------
(* The writer and the end of the session.                                  *)

\* The client takes the next message; a close frame is the last one.
Write ==
  /\ writer = "on" /\ out # <<>> /\ open /\ reads
  /\ out' = Tail(out)
  /\ writer' = IF Head(out) = Close THEN "done" ELSE "on"
  /\ answered' = IF Head(out).kind = "response"
                 THEN answered \cup {Head(out).frame} ELSE answered
  /\ UNCHANGED <<sessionVars, requestVars, clientVars, events, stopping>>

WriteFails ==
  /\ writer = "on" /\ out # <<>> /\ ~open
  /\ writer' = "done" /\ out' = <<>>
  /\ UNCHANGED <<sessionVars, answered, requestVars, clientVars, events, stopping>>

\* Every sender is gone: the session task's and those of the requests.
WriterEnds ==
  /\ writer = "on" /\ out = <<>> /\ phase = "closing" /\ tasks = {}
  /\ writer' = "done"
  /\ UNCHANGED <<sessionVars, out, answered, requestVars, clientVars, events, stopping>>

\* writer.await is over and the slot is returned.
SessionEnds ==
  /\ phase = "closing" /\ writer = "done"
  /\ phase' = "gone"
  /\ UNCHANGED <<todo, leaving, silent, queueVars, requestVars, clientVars, events, stopping>>

-----------------------------------------------------------------------------
(* The environment.                                                        *)

ClientCloses ==
  /\ open /\ open' = FALSE
  /\ UNCHANGED <<sessionVars, queueVars, requestVars, reads, mute, events, stopping>>

ClientGoesMute ==
  /\ ~mute /\ mute' = TRUE
  /\ UNCHANGED <<sessionVars, queueVars, requestVars, open, reads, events, stopping>>

ClientStalls ==
  /\ MayStall /\ reads /\ reads' = FALSE
  /\ UNCHANGED <<sessionVars, queueVars, requestVars, open, mute, events, stopping>>

AgentStops ==
  /\ ~stopping /\ stopping' = TRUE
  /\ UNCHANGED <<sessionVars, queueVars, requestVars, clientVars, events>>

-----------------------------------------------------------------------------
Next ==
  \/ HelloAccepted \/ HelloRefused \/ HelloTimesOut
  \/ StreamEnds \/ OtherMessage \/ EngineEvent \/ Tick \/ SeesShutdown \/ Push
  \/ \E id \in Ids : RequestRefused(id) \/ RequestDispatched(id)
  \/ \E n \in 1..MaxFrames : TaskAnswers(n)
  \/ Write \/ WriteFails \/ WriterEnds \/ SessionEnds
  \/ ClientCloses \/ ClientGoesMute \/ ClientStalls \/ AgentStops

Spec == Init /\ [][Next]_vars

\* tokio runs every task that can run, select! takes a ready branch at random,
\* timers fire and a dispatched request returns.  Nothing is assumed of the
\* client, except that one that reads goes on reading.
Fairness ==
  /\ WF_vars(HelloTimesOut) /\ SF_vars(StreamEnds)
  /\ SF_vars(Tick) /\ SF_vars(SeesShutdown)
  /\ WF_vars(Push) /\ WF_vars(Write) /\ WF_vars(WriteFails)
  /\ WF_vars(WriterEnds) /\ WF_vars(SessionEnds)
  /\ SF_vars(\E n \in 1..MaxFrames : TaskAnswers(n))

FairSpec == Spec /\ Fairness

-----------------------------------------------------------------------------
(* Properties.                                                             *)

\* How many responses to request n exist or are still to come.
Responses(n) ==
  LET In(queue) == Cardinality({i \in 1..Len(queue) : queue[i] = Response(n)}) IN
  In(todo) + In(out) + (IF n \in answered THEN 1 ELSE 0) + (IF n \in tasks THEN 1 ELSE 0)

\* Every request gets exactly one response, whether handle_text refuses it or a
\* task dispatches it; none at all only once the session is over.
OneResponse ==
  \A n \in 1..Len(frames) :
    /\ Responses(n) <= 1
    /\ phase = "run" /\ writer = "on" => Responses(n) = 1

\* The exchange is well formed: the queues keep their bounds and every request
\* has its one response (handle_text, dispatch, the writer).
ExchangeIsSound == TypeOK /\ OneResponse

\* After request m and before request n the client has used Recent different
\* ids other than that of m.
OthersBetween(m, n) ==
  \E s \in [1..Recent -> Ids] :
    /\ \A i, k \in 1..Recent : s[i] = s[k] => i = k
    /\ \A i \in 1..Recent : s[i] # frames[m] /\ \E k \in (m + 1)..(n - 1) : frames[k] = s[i]

\* How far "a request id is processed once" (ws.rs:385) reaches: an id is
\* dispatched again only after RECENT_REQUEST_IDS different other ids, whichever
\* requests in between were refused, repeated or rate limited.
ReplayWindow ==
  \A m, n \in dispatched : m < n /\ frames[m] = frames[n] => OthersBetween(m, n)

\* Not true of the code: "a request id is processed once", no two requests with one id are dispatched.
ProcessedOnce ==
  \A m, n \in dispatched : frames[m] = frames[n] => m = n

\* The connection slot is returned after the client closes, stays silent for
\* good, or the agent shuts down, at whatever point of the handshake, a request
\* or a full queue; a client that stays connected without reading is the
\* exception (SilentIsClosed).
SlotReturned == ~open \/ mute \/ stopping ~> phase = "gone" \/ (open /\ ~reads)

\* The agent "closes connections that are silent for three intervals", also that
\* of a client that no longer reads what it is sent.
SilentIsClosed == mute /\ phase = "run" ~> phase = "gone"
=============================================================================
