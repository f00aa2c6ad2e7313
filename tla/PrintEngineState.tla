-------------------------- MODULE PrintEngineState --------------------------
(***************************************************************************)
(* The state of the print engine (print-core/src/engine/mod.rs, struct     *)
(* Inner), of its tasks, of the job repository and of the OS spooler, and  *)
(* the storage operations every engine step is made of.                    *)
(***************************************************************************)
EXTENDS JobLifecycle, Integers, Sequences, FiniteSets

CONSTANTS
  Jobs,            \* job ids: one per print request that may arrive
  Printers,
  Callers,         \* concurrent calls of PrintEngine::cancel
  PrinterOf,       \* the printer each request selects
  KeyOf,           \* the idempotency key of each request, or NoKey
  NoKey,
  Size,            \* payload bytes of each request
  SpoolPrinters,   \* printers behind an OS spooler; the others are direct (TCP)
  QueueCapacity,   \* EngineConfig::queue_capacity_per_printer
  MaxQueuedBytes,  \* EngineConfig::max_queued_bytes
  Permits,         \* EngineConfig::provider_concurrency
  MaxCrashes,      \* bound: process deaths explored
  MaxFaults,       \* bound: failing repository writes explored
  GracefulStop,    \* whether PrintEngine::shutdown may be called
  Retention,       \* whether EngineConfig::job_retention is set
  Disconnects,     \* whether a REST client may hang up during a request
  DiscoveryFails   \* whether the discovery of a restart may miss printers

ASSUME ConstantsAssumption ==
  /\ PrinterOf \in [Jobs -> Printers]
  /\ Size \in [Jobs -> Nat \ {0}]
  /\ SpoolPrinters \subseteq Printers
  /\ QueueCapacity \in Nat \ {0}
  /\ MaxQueuedBytes \in Nat
  /\ Permits \in Nat \ {0}
  /\ MaxCrashes \in Nat
  /\ MaxFaults \in Nat
  /\ GracefulStop \in BOOLEAN
  /\ Retention \in BOOLEAN
  /\ Disconnects \in BOOLEAN
  /\ DiscoveryFails \in BOOLEAN

\* The absence of a job record, or of a job in a slot that can hold one.
Absent == [status |-> "ABSENT"]
NoJob == "NO_JOB"

ASSUME NoJobAssumption == NoJob \notin Jobs

VARIABLES
  phase,      \* of the process, see Phases
  todo,       \* jobs the running shutdown or reconciliation has yet to settle
  active,     \* Inner::active, the jobs in memory
  repo,       \* the job repository: SQLite in the agent, it survives a crash
  req,        \* the task running PrintEngine::submit for each request
  used,       \* ByteBudget::used
  queue,      \* the mpsc channel of each printer
  wpc, wjob,  \* each printer's worker and the job it is processing
  call,       \* provider.submit on the blocking pool, per job
  handed,     \* history: how often a job's bytes went to a spooler or device
  spool,      \* the OS spooler's view of each job; it survives a crash
  monitor,    \* the monitor task of each job
  cpc, cjob,  \* calls of PrintEngine::cancel and the job each is about
  cancelling, \* Inner::cancelling
  crashes, faults  \* how often the bounded failures have happened

storeVars  == <<active, repo, faults>>
workerVars == <<queue, wpc, wjob>>
cancelVars == <<cpc, cjob, cancelling>>
procVars   == <<phase, todo, crashes>>
deviceVars == <<call, handed, spool>>
vars == <<storeVars, workerVars, cancelVars, procVars, deviceVars,
          req, used, monitor>>

\* "stopping": the shutdown token is cancelled; "sweeping": the jobs to fail
\* have been collected; "draining": they are failed and shutdown waits for
\* tasks; "down": no process; "starting": a new process is reconciling.
Phases == {"up", "stopping", "sweeping", "draining", "down", "starting"}

SubmitSteps ==
  {"new", "tracked", "preparing", "reserved", "marked", "failing", "done"}

\* "none": no worker task, the channel is closed or was never created;
\* "waiting": in the select on the provider call; "late": past its timeout.
WorkerSteps == {"none", "idle", "taken", "claimed", "waiting", "late"}

CallSteps == {"none", "running", "wrote"}

SpoolLive == {"pending", "printing", "blocked"}
SpoolStates ==
  SpoolLive \cup {"none", "printed", "failed", "retired",
                  "deleted_by_agent", "deleted_by_user"}

ProviderJobState ==
  {"Pending", "Printing", "Blocked", "Printed", "Failed", "Cancelled", "Gone"}

\* A monitor sleeps ("wait") or holds the state it has just polled; a job that
\* is Gone was deleted by the agent ("Deleted") or not ("Retired").
Applicable == (ProviderJobState \ {"Gone"}) \cup {"Deleted", "Retired"}
MonitorSteps == {"off", "wait", "Gone"} \cup Applicable

CancelSteps == {"idle", "drop", "resolve", "announced", "ok", "unmark"}

Running == phase \in {"up", "stopping", "sweeping", "draining"}
Stopping == phase \in {"stopping", "sweeping", "draining"}

\* The type of every variable but `used`, whose value BudgetIsExact gives, and
\* the capacity of the channels (mpsc::channel(capacity)).
TypeOK ==
  /\ phase \in Phases
  /\ todo \in SUBSET Jobs
  /\ active \in [Jobs -> JobRecord \cup {Absent}]
  /\ repo \in [Jobs -> JobRecord \cup {Absent}]
  /\ req \in [Jobs -> SubmitSteps]
  /\ queue \in [Printers -> Seq(Jobs)]
  /\ \A p \in Printers : Len(queue[p]) <= QueueCapacity
  /\ wpc \in [Printers -> WorkerSteps]
  /\ wjob \in [Printers -> Jobs \cup {NoJob}]
  /\ call \in [Jobs -> CallSteps]
  /\ handed \in [Jobs -> Nat]
  /\ spool \in [Jobs -> SpoolStates]
  /\ monitor \in [Jobs -> MonitorSteps]
  /\ cpc \in [Callers -> CancelSteps]
  /\ cjob \in [Callers -> Jobs \cup {NoJob}]
  /\ cancelling \in SUBSET Jobs
  /\ crashes \in 0..MaxCrashes
  /\ faults \in 0..MaxFaults

Init ==
  /\ phase = "up"
  /\ todo = {}
  /\ active = [j \in Jobs |-> Absent]
  /\ repo = [j \in Jobs |-> Absent]
  /\ req = [j \in Jobs |-> "new"]
  /\ used = 0
  /\ queue = [p \in Printers |-> <<>>]
  /\ wpc = [p \in Printers |-> "none"]
  /\ wjob = [p \in Printers |-> NoJob]
  /\ call = [j \in Jobs |-> "none"]
  /\ handed = [j \in Jobs |-> 0]
  /\ spool = [j \in Jobs |-> "none"]
  /\ monitor = [j \in Jobs |-> "off"]
  /\ cpc = [c \in Callers |-> "idle"]
  /\ cjob = [c \in Callers |-> NoJob]
  /\ cancelling = {}
  /\ crashes = 0
  /\ faults = 0

-----------------------------------------------------------------------------
(* Storage: Inner::mutate and what it calls.                               *)

Active(j) == active[j] # Absent

Stored(j) == repo[j] # Absent

\* repo.update: skipped for an unchanged job; a failure is only logged.
Persist(j, before, after) ==
  \/ /\ before = after
     /\ UNCHANGED <<repo, faults>>
  \/ /\ before # after
     /\ repo' = [repo EXCEPT ![j] = after]
     /\ UNCHANGED faults
  \/ /\ before # after
     /\ faults < MaxFaults
     /\ faults' = faults + 1
     /\ UNCHANGED repo

\* Under the lock of `active`: nothing happens to a job that is not active,
\* and a job that became terminal is no longer active.
Mutate(j, after) ==
  \/ /\ ~Active(j)
     /\ UNCHANGED storeVars
  \/ /\ Active(j)
     /\ active' = [active EXCEPT ![j] = IF IsTerminal(after) THEN Absent ELSE after]
     /\ Persist(j, active[j], after)

\* The bytes of the payloads of some jobs, each with its job and its place.
PayloadBytes(jobs) == UNION {{j} \X (1..Size[j]) : j \in jobs}

\* The drop of a ByteReservation.
Release(j) == used' = used - Size[j]

-----------------------------------------------------------------------------
(* Reading the state.                                                      *)

\* find_by_idempotency_key: keys are compared within a client.
SameKey(i, j) == KeyOf[j] # NoKey /\ KeyOf[i] = KeyOf[j]

\* A submission or a cancellation needs one of the provider permits; a
\* submission keeps it until the provider returns, timeout or not.
PermitFree == Cardinality({j \in Jobs : call[j] # "none"}) < Permits

\* monitor::apply
Observed(job, state) ==
  CASE state = "Pending"   -> [job EXCEPT !.condition = FALSE]
    [] state = "Printing"  ->
         LET clear == [job EXCEPT !.condition = FALSE]
         IN  IF job.status = "QUEUED" THEN Transition(clear, "PRINTING") ELSE clear
    [] state = "Blocked"   -> [job EXCEPT !.condition = TRUE]
    [] state = "Printed"   -> Complete(job, "SPOOLER_REPORTED_PRINTED")
    [] state = "Retired"   -> Complete(job, "SPOOLER_JOB_RETIRED")
    [] state = "Failed"    -> Fail(job, "absent")
    [] state \in {"Cancelled", "Deleted"} -> Transition(job, "CANCELLED")
=============================================================================
