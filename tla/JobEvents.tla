------------------------------ MODULE JobEvents ------------------------------
(***************************************************************************)
(* How an application learns what became of its job: from the engine's     *)
(* mutate (print-core/src/engine/mod.rs) through the broadcast channel,    *)
(* the session loop and its outbound queue (agent/src/api/ws.rs) to the    *)
(* job cache and waitForJob of the SDK (sdk/typescript/src/client.ts).     *)
(*                                                                         *)
(* One job goes through the versions 1..Last, the last one terminal.  A    *)
(* version is committed under the engine's lock and published after it is  *)
(* released, so events may be published out of order.  An event can also   *)
(* be overwritten in the broadcast channel, be dropped at a full outbound  *)
(* queue or be lost with the connection, and a request for the job may be  *)
(* refused or time out, which the SDK does not tell anybody.               *)
(*                                                                         *)
(* A definition marked "Mutant" is a plausible mistake in the definition   *)
(* that follows it and is not part of the specification.                   *)
(***************************************************************************)
EXTENDS Naturals, Sequences, FiniteSets

CONSTANTS
  Last,       \* the terminal version
  UpdatedAt,  \* updated_at of each version, read from the system clock
  Publishers, \* bound: threads between committing and publishing
  RingCap,    \* capacity of the broadcast channel
  OutCap,     \* OUTBOUND_CAPACITY
  MaxLosses,  \* bound: lost connections
  MaxRefusals \* bound: requests for the job that fail

Versions == 1..Last

ASSUME EventsAssumption ==
  /\ Last \in Nat \ {0}
  /\ UpdatedAt \in [Versions -> Nat]
  /\ {Publishers, RingCap, OutCap} \subseteq Nat \ {0}
  /\ MaxLosses \in Nat /\ MaxRefusals \in Nat

VARIABLES
  ver,        \* the job's committed version, 0 before it is tracked
  unpub,      \* committed, not yet published
  ring,       \* the session's part of the broadcast channel
  missed,     \* events overwritten before the session received them
  up,         \* the client is connected
  out,        \* the session's outbound queue
  asked,      \* requests on their way to the agent that return the job
  answering,  \* versions read for such a request, on their way to `out`
  known,      \* the version in the client's cache (#jobs), 0 for none
  watch,      \* the call of waitForJob: see Watches
  losses,
  refusals,   \* requests for the job that have failed
  gaveUp      \* history: one has failed since the job was last changed or read

agentVars  == <<ver, unpub>>
streamVars == <<ring, missed, out>>
envVars    == <<losses, refusals, gaveUp>>
vars == <<agentVars, streamVars, up, asked, answering, known, watch, envVars>>

Watches == {"no", "waiting", "resolved", "timed_out"}
Item(k, v) == [kind |-> k, version |-> v]
Lagged == Item("lagged", 0)
Items == {Item(k, v) : k \in {"event", "response"}, v \in Versions} \cup {Lagged}

TypeOK ==
  /\ ver \in 0..Last
  /\ unpub \in SUBSET (1..ver) /\ Cardinality(unpub) <= Publishers
  /\ ring \in Seq(Versions) /\ Len(ring) <= RingCap
  /\ missed \in Nat
  /\ up \in BOOLEAN
  /\ out \in Seq(Items) /\ Len(out) <= OutCap
  /\ asked \in Nat
  /\ answering \in SUBSET (1..ver)
  /\ known \in 0..ver
  /\ watch \in Watches
  /\ losses \in 0..MaxLosses
  /\ refusals \in 0..MaxRefusals /\ gaveUp \in BOOLEAN

\* The print request that creates the job is the first one asked.
Init ==
  /\ ver = 0 /\ unpub = {}
  /\ ring = <<>> /\ missed = 0 /\ out = <<>>
  /\ up = TRUE /\ asked = 1 /\ answering = {}
  /\ known = 0 /\ watch = "no" /\ losses = 0 /\ refusals = 0 /\ gaveUp = FALSE

-----------------------------------------------------------------------------
(* The agent.                                                              *)

\* mutate (track for version 1): under the lock
Commit ==
  /\ ver < Last /\ Cardinality(unpub) < Publishers
  /\ ver' = ver + 1
  /\ unpub' = unpub \cup {ver + 1}
  /\ gaveUp' = FALSE
  /\ UNCHANGED <<streamVars, up, asked, answering, known, watch, losses, refusals>>

\* mutate, after the lock is released: a full channel overwrites its oldest event
Publish(v) ==
  /\ v \in unpub
  /\ unpub' = unpub \ {v}
  /\ \/ /\ ~up
        /\ UNCHANGED <<ring, missed>>
     \/ /\ up /\ Len(ring) < RingCap
        /\ ring' = Append(ring, v)
        /\ UNCHANGED missed
     \/ /\ up /\ Len(ring) = RingCap
        /\ ring' = Append(Tail(ring), v)
        /\ missed' = missed + 1
  /\ UNCHANGED <<ver, out, up, asked, answering, known, watch, envVars>>

\* Outbound::event: dropped when the queue is full
TryEvent(item) == out' = IF Len(out) < OutCap THEN Append(out, item) ELSE out

\* RecvError::Lagged in `run`
ForwardLag ==
  /\ missed > 0
  /\ missed' = 0
  /\ TryEvent(Lagged)
  /\ UNCHANGED <<agentVars, ring, up, asked, answering, known, watch, envVars>>

\* An event in `run`
ForwardEvent ==
  /\ missed = 0 /\ ring # <<>>
  /\ ring' = Tail(ring)
  /\ TryEvent(Item("event", Head(ring)))
  /\ UNCHANGED <<agentVars, missed, up, asked, answering, known, watch, envVars>>

\* A dispatched jobs.get (or the print itself) reads the job.  One that fails is
\* RefreshFails.
ReadJob ==
  /\ up /\ asked > 0 /\ ver > 0
  /\ asked' = asked - 1
  /\ answering' = answering \cup {ver}
  /\ gaveUp' = FALSE
  /\ UNCHANGED <<agentVars, streamVars, up, known, watch, losses, refusals>>

\* Outbound::response waits for room.
Respond(v) ==
  /\ v \in answering /\ Len(out) < OutCap
  /\ answering' = answering \ {v}
  /\ out' = Append(out, Item("response", v))
  /\ UNCHANGED <<agentVars, ring, missed, up, asked, known, watch, envVars>>

-----------------------------------------------------------------------------
(* The client.                                                             *)

\* Mutant: the cache takes whatever arrives.
StaleNever(v) == FALSE

\* #recordJob: older than what is known, the same, or known to be over
Stale(v) ==
  /\ known # 0
  /\ UpdatedAt[known] > UpdatedAt[v] \/ known = v \/ known = Last

\* #recordJob with the listener of waitForJob
RecordJob(v) ==
  /\ known' = IF Stale(v) THEN known ELSE v
  /\ watch' = IF watch = "waiting" /\ ~Stale(v) /\ v = Last THEN "resolved" ELSE watch

\* #onEvent "session.lagged": #resyncWatchedJobs
ReceiveLagged ==
  /\ out # <<>> /\ Head(out) = Lagged
  /\ out' = Tail(out)
  /\ asked' = IF watch = "waiting" THEN asked + 1 ELSE asked
  /\ UNCHANGED <<agentVars, ring, missed, up, answering, known, watch, envVars>>

\* #onEvent of a job, or the response that carries it
ReceiveJob ==
  /\ out # <<>> /\ Head(out) # Lagged
  /\ out' = Tail(out)
  /\ RecordJob(Head(out).version)
  /\ UNCHANGED <<agentVars, ring, missed, up, asked, answering, envVars>>

IsResponse(item) == item.kind = "response"

\* A request for the job is refused (RATE_LIMITED) or its timer fires before the
\* answer is there, which then finds nobody waiting for it.  The callers of
\* getJob drop the error.
RefreshFails ==
  /\ refusals < MaxRefusals
  /\ refusals' = refusals + 1 /\ gaveUp' = TRUE
  /\ \/ asked > 0 /\ asked' = asked - 1 /\ UNCHANGED out
     \/ /\ out # <<>> /\ IsResponse(Head(out))
        /\ out' = Tail(out) /\ UNCHANGED asked
  /\ UNCHANGED <<agentVars, ring, missed, up, answering, known, watch, losses>>

\* Mutant: the cached job is not replayed to a new listener.
WaitForJobSkipsCache ==
  /\ watch = "no" /\ known # 0
  /\ watch' = "waiting"
  /\ asked' = asked + 1
  /\ UNCHANGED <<agentVars, streamVars, up, answering, known, envVars>>

\* waitForJob, once the job is known: replays what is cached and asks.
WaitForJob ==
  /\ watch = "no" /\ known # 0
  /\ watch' = IF known = Last THEN "resolved" ELSE "waiting"
  /\ asked' = asked + 1
  /\ UNCHANGED <<agentVars, streamVars, up, answering, known, envVars>>

WaitTimesOut ==
  /\ watch = "waiting"
  /\ watch' = "timed_out"
  /\ UNCHANGED <<agentVars, streamVars, up, asked, answering, known, envVars>>

\* The connection is lost; prints and jobs.get will be sent again.
Lose ==
  /\ up /\ losses < MaxLosses
  /\ losses' = losses + 1
  /\ up' = FALSE
  /\ asked' = asked + Cardinality(answering)
              + Cardinality({i \in 1..Len(out) : IsResponse(out[i])})
  /\ answering' = {}
  /\ ring' = <<>> /\ missed' = 0 /\ out' = <<>>
  /\ UNCHANGED <<agentVars, known, watch, refusals, gaveUp>>

\* Mutant: a new connection does not fetch watched jobs again.
ReconnectOnly ==
  /\ ~up /\ up' = TRUE
  /\ UNCHANGED <<agentVars, streamVars, asked, answering, known, watch, envVars>>

\* The session subscribes before it takes requests, so the #resyncWatchedJobs of
\* #afterConnect reads the job later.
Reconnect ==
  /\ ~up /\ up' = TRUE
  /\ asked' = IF watch = "waiting" THEN asked + 1 ELSE asked
  /\ UNCHANGED <<agentVars, streamVars, answering, known, watch, envVars>>

-----------------------------------------------------------------------------
Next ==
  \/ Commit \/ ForwardLag \/ ForwardEvent \/ ReadJob
  \/ \E v \in Versions : Publish(v) \/ Respond(v)
  \/ ReceiveLagged \/ ReceiveJob \/ WaitForJob \/ WaitTimesOut \/ Lose \/ Reconnect
  \/ RefreshFails

Spec == Init /\ [][Next]_vars

\* Every task of the agent runs, the client reads and reconnects.  The job need
\* not go on and the timer of waitForJob need not fire.
Fairness ==
  /\ WF_vars(ForwardLag) /\ WF_vars(ForwardEvent) /\ WF_vars(ReadJob)
  /\ \A v \in Versions : WF_vars(Publish(v)) /\ SF_vars(Respond(v))
  /\ WF_vars(ReceiveLagged) /\ WF_vars(ReceiveJob) /\ WF_vars(Reconnect)

FairSpec == Spec /\ Fairness

-----------------------------------------------------------------------------
(* Properties.                                                             *)

Quiet ==
  /\ up /\ unpub = {} /\ ring = <<>> /\ missed = 0 /\ out = <<>>
  /\ asked = 0 /\ answering = {}

\* When nothing is under way, an application that waits for a job knows its
\* latest version: whatever was overwritten, reordered or lost with a connection
\* has been made good, unless the request that should have done so failed.
QuietIsCurrent == Quiet /\ watch = "waiting" /\ ~gaveUp => known = ver

\* The channels keep their bounds and still nothing is lost for good: ring and
\* outbound queue are bounded, and a waiting application ends up with the
\* latest version (publish, the lag frame, #afterConnect).
NothingIsMissed == TypeOK /\ QuietIsCurrent

\* Listeners never see a job go back: #recordJob undoes the reordering of events
\* and responses.
KnownNeverGoesBack == [][known' >= known]_vars

\* waitForJob "resolves when the job reaches COMPLETED, FAILED or CANCELLED",
\* before its timer, unless a failed request for the job is the last there was.
WaiterResolves ==
  []<>~gaveUp => (watch = "waiting" /\ ver = Last ~> watch # "waiting")

\* The same as the SDK says it, without the exception.
WaiterIsTold == watch = "waiting" /\ ver = Last ~> watch # "waiting"
=============================================================================
