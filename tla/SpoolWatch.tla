------------------------------ MODULE SpoolWatch ------------------------------
(***************************************************************************)
(* How the Windows provider tells the engine what became of a spooled job  *)
(* (providers/windows/src/watch.rs, status.rs, jobs.rs, provider.rs).      *)
(*                                                                         *)
(* A job leaves the queue soon after it was printed or deleted, so a       *)
(* watcher thread per printer collects the status bits every job has       *)
(* shown, under the spooler's job id.  The engine's monitor polls: it      *)
(* reads the job's current status, then the bits collected so far.  The    *)
(* spooler, the watcher and the monitors run concurrently; jobs of other   *)
(* applications share the printer and its ids.                             *)
(*                                                                         *)
(* A definition marked "Mutant" is a plausible mistake in the definition   *)
(* that follows it and is not part of the specification.                   *)
(***************************************************************************)
EXTENDS Naturals, Sequences, FiniteSets

CONSTANTS
  Jobs,              \* all print jobs of one printer
  Kiln,              \* those the agent submits
  MaxId,             \* spooler ids are 1..MaxId
  Unavailable,       \* a subscription may be refused or take over two seconds
  ReusesIds,         \* a restarted spooler begins again with the first id
  MaxTracked,        \* MAX_TRACKED
  MaxSpoolerRestarts,\* bound
  MaxAgentRestarts   \* bound

ASSUME WatchAssumption ==
  /\ Kiln \subseteq Jobs
  /\ {MaxId, MaxTracked, MaxSpoolerRestarts, MaxAgentRestarts} \subseteq Nat
  /\ {Unavailable, ReusesIds} \subseteq BOOLEAN

VARIABLES
  id,        \* the spooler's id of each job, 0 before it is spooled
  queued,    \* the jobs in the spooler's queue
  flags,     \* JOB_INFO_1W.Status of each job, see Bits
  nextId,    \* ids below it were given out since the spooler started
  notes,     \* change notifications the watcher has not taken yet
  watcher,   \* see Watchers
  history,   \* Shared.history: bits per id
  poll,      \* what a poll of each job has read: Idle, Absent or flags
  report,    \* the last word of job_state on each job
  spoolerRestarts, agentRestarts

spoolVars == <<id, queued, flags, nextId>>
watchVars == <<notes, watcher, history>>
pollVars  == <<poll, report>>
restartVars == <<spoolerRestarts, agentRestarts>>
vars == <<spoolVars, watchVars, pollVars, restartVars>>

Ids == 1..MaxId
\* PRINTED stands for PRINTED and COMPLETE, DELETED for DELETING and DELETED.
Bits == {"PRINTING", "PRINTED", "DELETED"}

\* "deaf": running and not stopped, but its subscription is dead
Watchers == {"stopped", "starting", "armed", "deaf"}

\* a poll that is not under way, and one that found no job
Idle == {"idle"}
Absent == {"absent"}

Reports == {"none", "Printed", "Cancelled", "Gone"}

TypeOK ==
  /\ id \in [Jobs -> 0..MaxId]
  /\ queued \in SUBSET Jobs
  /\ flags \in [Jobs -> SUBSET Bits]
  /\ nextId \in 1..MaxId + 1
  /\ \A i \in 1..Len(notes) : notes[i] \in Ids \X SUBSET Bits
  /\ watcher \in Watchers
  /\ history \in [Ids -> SUBSET Bits]
  /\ poll \in [Jobs -> {Idle, Absent} \cup SUBSET Bits]
  /\ report \in [Jobs -> Reports]
  /\ \A j, k \in queued : id[j] = id[k] => j = k
  /\ notes # <<>> => watcher = "armed"
  /\ spoolerRestarts \in 0..MaxSpoolerRestarts
  /\ agentRestarts \in 0..MaxAgentRestarts

NoHistory == [i \in Ids |-> {}]

Init ==
  /\ id = [j \in Jobs |-> 0] /\ queued = {} /\ nextId = 1
  /\ flags = [j \in Jobs |-> {}]
  /\ notes = <<>> /\ watcher = "stopped" /\ history = NoHistory
  /\ poll = [j \in Jobs |-> Idle] /\ report = [j \in Jobs |-> "none"]
  /\ spoolerRestarts = 0 /\ agentRestarts = 0

-----------------------------------------------------------------------------
(* The spooler.                                                            *)

Notify(i, fs) == notes' = IF watcher = "armed" THEN Append(notes, <<i, fs>>) ELSE notes

\* The spooler takes a job and gives it the next id that is not in use.
Spooled(j) ==
  /\ id[j] = 0
  /\ \E i \in nextId..MaxId :
       /\ \A k \in queued : id[k] # i
       /\ \A h \in nextId..i - 1 : \E k \in queued : id[k] = h
       /\ id' = [id EXCEPT ![j] = i]
       /\ nextId' = i + 1
  /\ queued' = queued \cup {j}
  /\ UNCHANGED <<flags, notes, pollVars, restartVars>>

OtherJob(j) ==
  /\ j \notin Kiln
  /\ Spooled(j)
  /\ UNCHANGED <<watcher, history>>

Becomes(j, fs) ==
  /\ j \in queued
  /\ flags' = [flags EXCEPT ![j] = fs]
  /\ Notify(id[j], fs)
  /\ UNCHANGED <<id, nextId, watcher, history, pollVars, restartVars>>

Prints(j) == flags[j] = {} /\ Becomes(j, {"PRINTING"}) /\ UNCHANGED queued
HasPrinted(j) == flags[j] = {"PRINTING"} /\ Becomes(j, {"PRINTED"}) /\ UNCHANGED queued

\* A printed job is removed at once, or a little later.
Retires(j) ==
  /\ flags[j] = {"PRINTED"}
  /\ Becomes(j, {"PRINTED", "DELETED"})
  /\ queued' = queued \ {j}

\* In the queue's window, or by jobs::cancel
Deleted(j) ==
  /\ flags[j] \in {{}, {"PRINTING"}}
  /\ Becomes(j, {"DELETED"})
  /\ queued' = queued \ {j}

\* The service restarts: the queue survives, subscriptions do not, and ids that
\* are not in use may be given out again.
SpoolerRestarts ==
  /\ spoolerRestarts < MaxSpoolerRestarts
  /\ spoolerRestarts' = spoolerRestarts + 1
  /\ flags' = [j \in Jobs |-> IF j \in queued /\ flags[j] = {"PRINTING"} THEN {} ELSE flags[j]]
  /\ nextId' = IF ReusesIds THEN 1 ELSE nextId
  /\ notes' = <<>>
  /\ watcher' = IF watcher = "armed" THEN "deaf" ELSE watcher
  /\ UNCHANGED <<id, queued, history, pollVars, agentRestarts>>

-----------------------------------------------------------------------------
(* The watcher thread.                                                     *)

\* JobWatchers::ensure starts a watcher unless one is running.  It waits two
\* seconds for the subscription and goes on without it; the thread ends when
\* the subscription is refused.
Ensure ==
  \/ /\ watcher # "stopped"
     /\ UNCHANGED <<watcher, history>>
  \/ /\ watcher = "stopped"
     /\ \/ watcher' = "armed"
        \/ Unavailable /\ watcher' \in {"starting", "stopped"}
     /\ history' = NoHistory

\* submit_inner
Submit(j) ==
  /\ j \in Kiln
  /\ Ensure
  /\ Spooled(j)

Arm ==
  /\ watcher = "starting"
  /\ watcher' = "armed"
  /\ UNCHANGED <<spoolVars, notes, history, pollVars, restartVars>>

Tracked == {i \in Ids : history[i] # {}}

\* history before new bits are added to it
Kept == IF Cardinality(Tracked) > MaxTracked THEN NoHistory ELSE history

\* run: the watcher takes a notification and adds its bits.
TakeNote ==
  /\ watcher = "armed" /\ notes # <<>>
  /\ LET n == Head(notes) IN history' = [Kept EXCEPT ![n[1]] = @ \cup n[2]]
  /\ notes' = Tail(notes)
  /\ UNCHANGED <<spoolVars, watcher, pollVars, restartVars>>

\* run: the spooler has discarded notifications; a refresh reports the jobs
\* that are still in the queue.
Refresh ==
  /\ watcher = "armed" /\ notes # <<>>
  /\ notes' = <<>>
  /\ history' = [i \in Ids |->
                   Kept[i] \cup UNION {flags[j] : j \in {k \in queued : id[k] = i}}]
  /\ UNCHANGED <<spoolVars, watcher, pollVars, restartVars>>

\* Two minutes without a question about this printer: no job is being polled.
IdleExit ==
  /\ watcher # "stopped"
  /\ \A j \in Kiln : id[j] # 0 => report[j] # "none"
  /\ watcher' = "stopped" /\ notes' = <<>>
  /\ UNCHANGED <<spoolVars, history, pollVars, restartVars>>

-----------------------------------------------------------------------------
(* The provider's job_state, polled by the engine.                         *)

\* jobs::current
PollReads(j) ==
  /\ j \in Kiln /\ id[j] # 0 /\ report[j] = "none" /\ poll[j] = Idle
  /\ \/ /\ \A k \in queued : id[k] # id[j]
        /\ poll' = [poll EXCEPT ![j] = Absent]
     \/ \E k \in queued : id[k] = id[j] /\ poll' = [poll EXCEPT ![j] = flags[k]]
  /\ UNCHANGED <<spoolVars, watchVars, report, restartVars>>

\* Mutant: a deletion is looked for before a print.
ResolveDeletedFirst(current, seen) ==
  IF "DELETED" \in current \cup seen THEN "Cancelled"
  ELSE IF "PRINTED" \in current \cup seen THEN "Printed"
  ELSE IF current = Absent THEN "Gone"
  ELSE "none"

\* resolve_job_state and job_state: of what was seen earlier, a job that is
\* still there uses only the printed bits.
Resolve(current, seen) ==
  IF "PRINTED" \in current \cup seen THEN "Printed"
  ELSE IF "DELETED" \in current \/ (current = Absent /\ "DELETED" \in seen) THEN "Cancelled"
  ELSE IF current = Absent THEN "Gone"
  ELSE "none"

\* WindowsPrintProvider::job_state: the bits of a job that is over are forgotten.
PollResolves(j) ==
  /\ poll[j] # Idle
  /\ LET r == Resolve(poll[j], history[id[j]]) IN
       /\ report' = [report EXCEPT ![j] = r]
       /\ history' = IF r = "none" THEN history ELSE [history EXCEPT ![id[j]] = {}]
  /\ poll' = [poll EXCEPT ![j] = Idle]
  /\ UNCHANGED <<spoolVars, notes, watcher, restartVars>>

\* The agent restarts: what was collected is gone, and the jobs it takes up
\* again are polled without a watcher until something is submitted.
AgentRestarts ==
  /\ agentRestarts < MaxAgentRestarts
  /\ agentRestarts' = agentRestarts + 1
  /\ watcher' = "stopped" /\ notes' = <<>> /\ history' = NoHistory
  /\ poll' = [j \in Jobs |-> Idle]
  /\ UNCHANGED <<spoolVars, report, spoolerRestarts>>

-----------------------------------------------------------------------------
Next ==
  \/ \E j \in Jobs :
       \/ Submit(j) \/ OtherJob(j)
       \/ Prints(j) \/ HasPrinted(j) \/ Retires(j) \/ Deleted(j)
       \/ PollReads(j) \/ PollResolves(j)
  \/ Arm \/ TakeNote \/ Refresh \/ IdleExit \/ SpoolerRestarts \/ AgentRestarts

Spec == Init /\ [][Next]_vars

-----------------------------------------------------------------------------
(* Properties.                                                             *)

\* What job_state says is true of this job: Printed only if the spooler flagged
\* it as printed, Cancelled only if it was deleted before that.
ReportIsTrue ==
  \A j \in Kiln :
    /\ report[j] = "Printed" => "PRINTED" \in flags[j]
    /\ report[j] = "Cancelled" => flags[j] = {"DELETED"}

\* The watcher holds its handles and its history as it should, and what it says
\* of a job is true (watch.rs, job_state).
WatchIsTrue == TypeOK /\ ReportIsTrue

\* Every deletion and print of a watched job is told apart: "Gone", which the
\* engine takes for a completion, "remains only when notifications are
\* unavailable".
GoneOnlyUnwatched == ~Unavailable => \A j \in Kiln : report[j] # "Gone"
=============================================================================
