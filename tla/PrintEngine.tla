----------------------------- MODULE PrintEngine -----------------------------
(***************************************************************************)
(* The print engine of print-core/src/engine: the submission path          *)
(* (submit, prepare, enqueue), one worker per printer, one monitor per     *)
(* spooled job, cancellation, graceful shutdown, a crash and the           *)
(* reconciliation that follows it, and the hourly retention purge.         *)
(*                                                                         *)
(* One action is one step between two points where another task or thread  *)
(* can interleave: a critical section of the `active` map (Inner::mutate), *)
(* of `submit_gate` or of `cancelling`, a channel operation, or the start, *)
(* the effect or the return of a provider call on the blocking pool.       *)
(*                                                                         *)
(* A definition marked "Mutant" is a plausible mistake in the action that  *)
(* follows it.  It is not part of the specification: it serves to show     *)
(* that a checked property would notice a mistake of its kind.             *)
(***************************************************************************)
EXTENDS PrintEngineState

-----------------------------------------------------------------------------
(* PrintEngine::submit                                                     *)

\* Mutant: The key is looked up among the jobs in memory only.
SubmitChecksMemoryOnly(j) ==
  /\ Running
  /\ req[j] = "new"
  /\ \A i \in Jobs : Active(i) => ~SameKey(i, j)
  /\ repo' = [repo EXCEPT ![j] = NewJob]
  /\ active' = [active EXCEPT ![j] = NewJob]
  /\ req' = [req EXCEPT ![j] = "tracked"]
  /\ UNCHANGED <<faults, workerVars, cancelVars, procVars, deviceVars, used, monitor>>

\* Under submit_gate: look the key up in the repository, then track the job.
\* A failing insert refuses the request before any job exists.
Submit(j) ==
  /\ Running
  /\ req[j] = "new"
  /\ \A i \in Jobs : Stored(i) => ~SameKey(i, j)
  /\ \/ /\ repo' = [repo EXCEPT ![j] = NewJob]
        /\ active' = [active EXCEPT ![j] = NewJob]
        /\ req' = [req EXCEPT ![j] = "tracked"]
        /\ UNCHANGED faults
     \/ /\ faults < MaxFaults
        /\ faults' = faults + 1
        /\ req' = [req EXCEPT ![j] = "done"]
        /\ UNCHANGED <<active, repo>>
  /\ UNCHANGED <<workerVars, cancelVars, procVars, deviceVars, used, monitor>>

\* The key names a stored job: that job is returned and nothing is created.
SubmitDuplicate(j) ==
  /\ Running
  /\ req[j] = "new"
  /\ \E i \in Jobs : Stored(i) /\ SameKey(i, j)
  /\ req' = [req EXCEPT ![j] = "done"]
  /\ UNCHANGED <<storeVars, workerVars, cancelVars, procVars, deviceVars, used,
                 monitor>>

Validate(j) ==
  /\ Running
  /\ req[j] = "tracked"
  /\ req' = [req EXCEPT ![j] = "preparing"]
  /\ Mutate(j, Transition(active[j], "VALIDATING"))
  /\ UNCHANGED <<workerVars, cancelVars, procVars, deviceVars, used, monitor>>

\* The limits, the printer, its scope, the language, the renderer or the
\* rendering itself turned the request down.
PrepareFails(j) ==
  /\ Running
  /\ req[j] = "preparing"
  /\ req' = [req EXCEPT ![j] = "failing"]
  /\ UNCHANGED <<storeVars, workerVars, cancelVars, procVars, deviceVars, used,
                 monitor>>

\* axum drops the handler of a REST client that hangs up, at the awaits of
\* prepare: neither enqueue nor the failure path runs.
Abandon(j) ==
  /\ Disconnects
  /\ Running
  /\ req[j] = "preparing"
  /\ req' = [req EXCEPT ![j] = "done"]
  /\ UNCHANGED <<storeVars, workerVars, cancelVars, procVars, deviceVars, used,
                 monitor>>

\* prepare succeeded; budget.try_reserve
Reserve(j) ==
  /\ Running
  /\ req[j] = "preparing"
  /\ \/ /\ used + Size[j] <= MaxQueuedBytes
        /\ used' = used + Size[j]
        /\ req' = [req EXCEPT ![j] = "reserved"]
     \/ /\ used + Size[j] > MaxQueuedBytes
        /\ req' = [req EXCEPT ![j] = "failing"]
        /\ UNCHANGED used
  /\ UNCHANGED <<storeVars, workerVars, cancelVars, procVars, deviceVars, monitor>>

\* QUEUED before the hand-over to the worker.  A job that was settled while it
\* was validated is reported as stored and its reservation dropped.
MarkQueued(j) ==
  /\ Running
  /\ req[j] = "reserved"
  /\ Mutate(j, Transition(active[j], "QUEUED"))
  /\ \/ /\ Active(j)
        /\ req' = [req EXCEPT ![j] = "marked"]
        /\ UNCHANGED used
     \/ /\ ~Active(j)
        /\ req' = [req EXCEPT ![j] = "done"]
        /\ Release(j)
  /\ UNCHANGED <<workerVars, cancelVars, procVars, deviceVars, monitor>>

\* sender_for creates the channel and its worker on first use, and again when
\* the old worker has gone; try_send fills the channel.
Send(j) ==
  LET p == PrinterOf[j] IN
  /\ Running
  /\ req[j] = "marked"
  /\ Len(queue[p]) < QueueCapacity
  /\ queue' = [queue EXCEPT ![p] = Append(@, j)]
  /\ wpc' = [wpc EXCEPT ![p] = IF @ = "none" THEN "idle" ELSE @]
  /\ req' = [req EXCEPT ![j] = "done"]
  /\ UNCHANGED <<storeVars, wjob, cancelVars, procVars, deviceVars, used, monitor>>

\* Mutant: A refused queue item is forgotten without dropping its reservation.
SendFailsLeaks(j) ==
  /\ Running
  /\ req[j] = "marked"
  /\ Len(queue[PrinterOf[j]]) = QueueCapacity
  /\ req' = [req EXCEPT ![j] = "failing"]
  /\ UNCHANGED <<storeVars, workerVars, cancelVars, procVars, deviceVars, used,
                 monitor>>

\* try_send failed: the channel is full, or a worker that sees the cancelled
\* shutdown token closed it after sender_for.  The reservation is dropped with
\* the queue item.
SendFails(j) ==
  LET p == PrinterOf[j] IN
  /\ Running
  /\ req[j] = "marked"
  /\ \/ Len(queue[p]) = QueueCapacity
     \/ Stopping /\ wpc[p] = "none"
  /\ req' = [req EXCEPT ![j] = "failing"]
  /\ Release(j)
  /\ UNCHANGED <<storeVars, workerVars, cancelVars, procVars, deviceVars, monitor>>

\* Mutant: The error goes back to the client, the job is not failed.
SubmitFailsSilently(j) ==
  /\ Running
  /\ req[j] = "failing"
  /\ req' = [req EXCEPT ![j] = "done"]
  /\ UNCHANGED <<storeVars, workerVars, cancelVars, procVars, deviceVars, used,
                 monitor>>

\* Every error of prepare and enqueue ends here.  One of the HTML renderer may
\* carry NOT_PRINTED, which reads the same at this delivery stage.
SubmitFails(j) ==
  /\ Running
  /\ req[j] = "failing"
  /\ req' = [req EXCEPT ![j] = "done"]
  /\ Mutate(j, Fail(active[j], "absent"))
  /\ UNCHANGED <<workerVars, cancelVars, procVars, deviceVars, used, monitor>>

-----------------------------------------------------------------------------
(* worker::run and worker::process                                         *)

\* The biased select looks at the shutdown token first.
TakeJob(p) ==
  /\ phase = "up"
  /\ wpc[p] = "idle"
  /\ queue[p] # <<>>
  /\ wpc' = [wpc EXCEPT ![p] = "taken"]
  /\ wjob' = [wjob EXCEPT ![p] = Head(queue[p])]
  /\ queue' = [queue EXCEPT ![p] = Tail(@)]
  /\ UNCHANGED <<storeVars, cancelVars, procVars, deviceVars, req, used, monitor>>

\* The loop ends; the channel is closed and what is left in it dropped.
WorkerStops(p) ==
  /\ Stopping
  /\ wpc[p] = "idle"
  /\ wpc' = [wpc EXCEPT ![p] = "none"]
  /\ queue' = [queue EXCEPT ![p] = <<>>]
  /\ used' = used - Cardinality(PayloadBytes({queue[p][i] : i \in 1..Len(queue[p])}))
  /\ UNCHANGED <<storeVars, wjob, cancelVars, procVars, deviceVars, req, monitor>>

\* Claim the job, or skip it if it was settled while it was queued.
Claim(p) ==
  LET j == wjob[p] IN
  /\ Running
  /\ wpc[p] = "taken"
  /\ Mutate(j, [active[j] EXCEPT !.delivery = "SUBMITTING"])
  /\ \/ /\ Active(j)
        /\ wpc' = [wpc EXCEPT ![p] = "claimed"]
        /\ UNCHANGED <<wjob, used>>
     \/ /\ ~Active(j)
        /\ wpc' = [wpc EXCEPT ![p] = "idle"]
        /\ wjob' = [wjob EXCEPT ![p] = NoJob]
        /\ Release(j)
  /\ UNCHANGED <<queue, cancelVars, procVars, deviceVars, req, monitor>>

StartCall(p) ==
  LET j == wjob[p] IN
  /\ Running
  /\ wpc[p] = "claimed"
  /\ PermitFree
  /\ wpc' = [wpc EXCEPT ![p] = "waiting"]
  /\ call' = [call EXCEPT ![j] = "running"]
  /\ UNCHANGED <<storeVars, queue, wjob, cancelVars, procVars, handed, spool,
                 req, used, monitor>>

\* The provider's side of submit: the spool job is complete, or the first
\* bytes are on their way to a direct printer (or through a Windows queue that
\* prints directly).  It may still return an error.
HandOver(j) ==
  /\ Running
  /\ call[j] = "running"
  /\ call' = [call EXCEPT ![j] = "wrote"]
  /\ handed' = [handed EXCEPT ![j] = @ + 1]
  /\ spool' = [spool EXCEPT ![j] =
                 IF PrinterOf[j] \in SpoolPrinters THEN "pending" ELSE @]
  /\ UNCHANGED <<storeVars, workerVars, cancelVars, procVars, req, used, monitor>>

\* Mutant: The permit is not given back when the provider call ends.
CallEndsKeepsPermit(p) ==
  /\ wpc' = [wpc EXCEPT ![p] = "idle"]
  /\ wjob' = [wjob EXCEPT ![p] = NoJob]
  /\ Release(wjob[p])
  /\ UNCHANGED <<call, queue, cancelVars, procVars, handed, spool, req>>

\* The blocking task ends: permit and reservation are released, the worker
\* turns to its next job.
CallEnds(p) ==
  /\ call' = [call EXCEPT ![wjob[p]] = "none"]
  /\ wpc' = [wpc EXCEPT ![p] = "idle"]
  /\ wjob' = [wjob EXCEPT ![p] = NoJob]
  /\ Release(wjob[p])
  /\ UNCHANGED <<queue, cancelVars, procVars, handed, spool, req>>

\* Ok(Delivered) from a direct printer
Delivered(p) ==
  LET j == wjob[p] IN
  /\ Running
  /\ wpc[p] = "waiting"
  /\ call[j] = "wrote"
  /\ p \notin SpoolPrinters
  /\ Mutate(j, Complete([active[j] EXCEPT !.delivery = "DEVICE_DELIVERED"],
                        "BYTES_DELIVERED"))
  /\ CallEnds(p)
  /\ UNCHANGED monitor

\* Ok(Spooled): the monitor is spawned whether or not the job is still active.
Spooled(p) ==
  LET j == wjob[p] IN
  /\ Running
  /\ wpc[p] = "waiting"
  /\ call[j] = "wrote"
  /\ p \in SpoolPrinters
  /\ Mutate(j, [active[j] EXCEPT !.delivery = "SPOOLER_ACCEPTED"])
  /\ monitor' = [monitor EXCEPT ![j] = "wait"]
  /\ CallEnds(p)

\* What the error of a submission says of its outcome.  The Windows provider
\* never sets one.  The TCP provider refuses a payload without one, says
\* NOT_PRINTED when it could not connect and UNKNOWN once it has.  A provider
\* that panics is UNKNOWN.
ProviderErrors(p, wrote) ==
  {"UNKNOWN"} \cup
    (IF p \in SpoolPrinters THEN {"absent"}
     ELSE IF wrote THEN {} ELSE {"absent", "NOT_PRINTED"})

\* Mutant: A provider error is taken for a job that was not printed.
SubmitErrAsUnsent(p, err) ==
  LET j == wjob[p] IN
  /\ Running
  /\ wpc[p] = "waiting"
  /\ call[j] # "none"
  /\ err \in ProviderErrors(p, call[j] = "wrote")
  /\ Mutate(j, Fail(active[j], "NOT_PRINTED"))
  /\ CallEnds(p)
  /\ UNCHANGED monitor

\* Err(..), recorded as the provider returned it, or a panic.
SubmitErr(p, err) ==
  LET j == wjob[p] IN
  /\ Running
  /\ wpc[p] = "waiting"
  /\ call[j] # "none"
  /\ err \in ProviderErrors(p, call[j] = "wrote")
  /\ Mutate(j, Fail(active[j], err))
  /\ CallEnds(p)
  /\ UNCHANGED monitor

\* Mutant: After a timeout the worker goes straight to its next job.
SubmitTimeoutMovesOn(p) ==
  /\ Running
  /\ wpc[p] = "waiting"
  /\ wpc' = [wpc EXCEPT ![p] = "idle"]
  /\ wjob' = [wjob EXCEPT ![p] = NoJob]
  /\ Release(wjob[p])
  /\ Mutate(wjob[p], Fail(active[wjob[p]], "UNKNOWN"))
  /\ UNCHANGED <<queue, cancelVars, procVars, deviceVars, req, monitor>>

\* submit_timeout: the job fails at once, the worker keeps waiting for the
\* provider so that the next job does not start on a printer still in use.
SubmitTimeout(p) ==
  LET j == wjob[p] IN
  /\ Running
  /\ wpc[p] = "waiting"
  /\ wpc' = [wpc EXCEPT ![p] = "late"]
  /\ Mutate(j, Fail(active[j], "UNKNOWN"))
  /\ UNCHANGED <<queue, wjob, cancelVars, procVars, deviceVars, req, used, monitor>>

\* Mutant: A late success is written over the failure already reported.
LateReturnRecords(p) ==
  /\ Running
  /\ wpc[p] = "late"
  /\ repo' = [repo EXCEPT ![wjob[p]] =
                IF call[wjob[p]] = "wrote" /\ Stored(wjob[p])
                THEN [@ EXCEPT !.status = "COMPLETED"] ELSE @]
  /\ call' = [call EXCEPT ![wjob[p]] = "none"]
  /\ wpc' = [wpc EXCEPT ![p] = "idle"]
  /\ wjob' = [wjob EXCEPT ![p] = NoJob]
  /\ Release(wjob[p])
  /\ UNCHANGED <<active, faults, queue, cancelVars, procVars, handed, spool, req,
                 monitor>>

\* A result after the timeout is only logged.
LateReturn(p) ==
  /\ Running
  /\ wpc[p] = "late"
  /\ CallEnds(p)
  /\ UNCHANGED <<storeVars, monitor>>

-----------------------------------------------------------------------------
(* The OS spooler, and monitor::run.                                       *)

\* What the spooler, the printer or a person at the OS queue can do.
SpoolNext ==
  [ s \in SpoolStates |->
      CASE s = "pending"  -> {"printing", "blocked", "deleted_by_user"}
        [] s = "printing" -> {"blocked", "printed", "failed", "retired",
                              "deleted_by_user"}
        [] s = "blocked"  -> {"pending", "printing", "deleted_by_user"}
        [] s = "printed"  -> {"retired"}
        [] OTHER          -> {} ]

SpoolMoves(j) ==
  /\ \E s \in SpoolNext[spool[j]] : spool' = [spool EXCEPT ![j] = s]
  /\ UNCHANGED <<storeVars, workerVars, cancelVars, procVars, call, handed, req,
                 used, monitor>>

\* provider.job_state.  A job that left the queue is Gone unless a watcher saw
\* the bits it showed last.
Observable(s) ==
  CASE s = "pending"  -> {"Pending"}
    [] s = "printing" -> {"Printing"}
    [] s = "blocked"  -> {"Blocked"}
    [] s = "printed"  -> {"Printed"}
    [] s = "failed"   -> {"Failed"}
    [] s = "retired"  -> {"Gone", "Printed"}
    [] s \in {"deleted_by_agent", "deleted_by_user"} -> {"Gone", "Cancelled"}
    [] OTHER          -> {"Gone"}

MonitorPoll(j) ==
  /\ phase \in {"up", "starting"}
  /\ monitor[j] = "wait"
  /\ Active(j)
  /\ \E s \in Observable(spool[j]) : monitor' = [monitor EXCEPT ![j] = s]
  /\ UNCHANGED <<storeVars, workerVars, cancelVars, procVars, deviceVars, req, used>>

\* The shutdown token, or a job settled elsewhere, ends the task.
MonitorStops(j) ==
  /\ monitor[j] = "wait"
  /\ Stopping \/ ~Active(j)
  /\ monitor' = [monitor EXCEPT ![j] = "off"]
  /\ UNCHANGED <<storeVars, workerVars, cancelVars, procVars, deviceVars, req, used>>

\* apply asks is_cancelling before it takes the lock of `active`: the queue
\* entry of a job the agent is deleting vanishes because of the deletion.
MonitorSeesGone(j) ==
  /\ monitor[j] = "Gone"
  /\ monitor' = [monitor EXCEPT ![j] =
                   IF j \in cancelling THEN "Deleted" ELSE "Retired"]
  /\ UNCHANGED <<storeVars, workerVars, cancelVars, procVars, deviceVars, req, used>>

\* Mutant: The monitor ends after its first answer.
MonitorAppliesOnce(j) ==
  /\ monitor[j] \in Applicable
  /\ Mutate(j, Observed(active[j], monitor[j]))
  /\ monitor' = [monitor EXCEPT ![j] = "off"]
  /\ UNCHANGED <<workerVars, cancelVars, procVars, deviceVars, req, used>>

MonitorApply(j) ==
  LET after == Observed(active[j], monitor[j])
  IN  /\ monitor[j] \in Applicable
      /\ Mutate(j, after)
      /\ monitor' = [monitor EXCEPT ![j] =
                       IF Active(j) /\ ~IsTerminal(after) THEN "wait" ELSE "off"]
      /\ UNCHANGED <<workerVars, cancelVars, procVars, deviceVars, req, used>>

-----------------------------------------------------------------------------
(* PrintEngine::cancel.  Refusals that change nothing are left out.        *)

\* PrintEngine::job: the active copy, or else the stored one.
Lookup(j) == IF Active(j) THEN active[j] ELSE repo[j]

CancelBegins(c, j) ==
  /\ Running
  /\ cpc[c] = "idle"
  /\ Active(j) \/ Stored(j)
  /\ ~IsTerminal(Lookup(j))
  /\ \/ /\ Lookup(j).delivery = "REQUEST_ACCEPTED"
        /\ cpc' = [cpc EXCEPT ![c] = "drop"]
     \/ /\ Lookup(j).delivery = "SPOOLER_ACCEPTED"
        /\ cpc' = [cpc EXCEPT ![c] = "resolve"]
  /\ cjob' = [cjob EXCEPT ![c] = j]
  /\ UNCHANGED <<storeVars, workerVars, cancelling, procVars, deviceVars, req,
                 used, monitor>>

\* The job was in the agent's hands; check that it still is, and drop it.
CancelDrops(c) ==
  LET j == cjob[c] IN
  /\ Running
  /\ cpc[c] = "drop"
  /\ cpc' = [cpc EXCEPT ![c] = "idle"]
  /\ cjob' = [cjob EXCEPT ![c] = NoJob]
  /\ Mutate(j, IF active[j].delivery = "REQUEST_ACCEPTED"
               THEN Transition(active[j], "CANCELLED")
               ELSE active[j])
  /\ UNCHANGED <<workerVars, cancelling, procVars, deviceVars, req, used, monitor>>

\* resolve_printer found the printer (an await); or it did not.
CancelAnnounces(c) ==
  /\ Running
  /\ cpc[c] = "resolve"
  /\ \/ /\ cpc' = [cpc EXCEPT ![c] = "announced"]
        /\ cancelling' = cancelling \cup {cjob[c]}
        /\ UNCHANGED cjob
     \/ /\ cpc' = [cpc EXCEPT ![c] = "idle"]
        /\ cjob' = [cjob EXCEPT ![c] = NoJob]
        /\ UNCHANGED cancelling
  /\ UNCHANGED <<storeVars, workerVars, procVars, deviceVars, req, used, monitor>>

\* Mutant: The mark is removed as soon as the provider call is back, before the job is
\* settled.
CancelUnmarksFirst(c) ==
  LET j == cjob[c] IN
  /\ Running
  /\ cpc[c] = "announced"
  /\ PermitFree
  /\ \/ /\ spool[j] \in SpoolLive
        /\ spool' = [spool EXCEPT ![j] = "deleted_by_agent"]
        /\ cancelling' = cancelling \ {j}
        /\ cpc' = [cpc EXCEPT ![c] = "ok"]
     \/ /\ cpc' = [cpc EXCEPT ![c] = "unmark"]
        /\ UNCHANGED <<spool, cancelling>>
  /\ UNCHANGED <<storeVars, workerVars, cjob, procVars, call, handed, req, used,
                 monitor>>

\* provider.cancel deletes a job that is still in the OS queue, or fails: the
\* job has left the queue, or the spooler refuses.
CancelCalls(c) ==
  LET j == cjob[c] IN
  /\ Running
  /\ cpc[c] = "announced"
  /\ PermitFree
  /\ \/ /\ spool[j] \in SpoolLive \cup {"printed", "failed"}
        /\ spool' = [spool EXCEPT ![j] = "deleted_by_agent"]
        /\ cpc' = [cpc EXCEPT ![c] = "ok"]
     \/ /\ cpc' = [cpc EXCEPT ![c] = "unmark"]
        /\ UNCHANGED spool
  /\ UNCHANGED <<storeVars, workerVars, cjob, cancelling, procVars, call, handed,
                 req, used, monitor>>

CancelSettles(c) ==
  LET j == cjob[c] IN
  /\ Running
  /\ cpc[c] = "ok"
  /\ cpc' = [cpc EXCEPT ![c] = "unmark"]
  /\ Mutate(j, Transition(active[j], "CANCELLED"))
  /\ UNCHANGED <<workerVars, cjob, cancelling, procVars, deviceVars, req, used,
                 monitor>>

CancelUnmarks(c) ==
  /\ Running
  /\ cpc[c] = "unmark"
  /\ cpc' = [cpc EXCEPT ![c] = "idle"]
  /\ cjob' = [cjob EXCEPT ![c] = NoJob]
  /\ cancelling' = cancelling \ {cjob[c]}
  /\ UNCHANGED <<storeVars, workerVars, procVars, deviceVars, req, used, monitor>>

\* The REST handler is dropped at one of the awaits of cancel.
CancelAbandoned(c) ==
  /\ Disconnects
  /\ Running
  /\ cpc[c] \in {"resolve", "announced", "ok"}
  /\ cpc' = [cpc EXCEPT ![c] = "idle"]
  /\ cjob' = [cjob EXCEPT ![c] = NoJob]
  /\ UNCHANGED <<storeVars, workerVars, cancelling, procVars, deviceVars, req,
                 used, monitor>>

-----------------------------------------------------------------------------
(* PrintEngine::shutdown                                                   *)

StopBegins ==
  /\ GracefulStop
  /\ phase = "up"
  /\ phase' = "stopping"
  /\ UNCHANGED <<storeVars, workerVars, cancelVars, todo, crashes, deviceVars,
                 req, used, monitor>>

\* active_jobs copies the jobs that have not left the agent.
StopCollects ==
  /\ phase = "stopping"
  /\ phase' = "sweeping"
  /\ todo' = {j \in Jobs : Active(j) /\ active[j].delivery = "REQUEST_ACCEPTED"}
  /\ UNCHANGED <<storeVars, workerVars, cancelVars, crashes, deviceVars, req,
                 used, monitor>>

\* One of them is failed, whatever its delivery stage is by now.
StopFails(j) ==
  /\ phase = "sweeping"
  /\ j \in todo
  /\ todo' = todo \ {j}
  /\ Mutate(j, Fail(active[j], "NOT_PRINTED"))
  /\ UNCHANGED <<workerVars, cancelVars, phase, crashes, deviceVars, req, used,
                 monitor>>

StopDrains ==
  /\ phase = "sweeping"
  /\ todo = {}
  /\ phase' = "draining"
  /\ UNCHANGED <<storeVars, workerVars, cancelVars, todo, crashes, deviceVars,
                 req, used, monitor>>

-----------------------------------------------------------------------------
(* The end of the process and its restart.                                 *)

\* Memory is lost; the repository, the spooler and the paper stay.
ProcessEnds ==
  /\ phase' = "down"
  /\ todo' = {}
  /\ active' = [j \in Jobs |-> Absent]
  /\ req' = [j \in Jobs |-> IF req[j] = "new" THEN "new" ELSE "done"]
  /\ used' = 0
  /\ queue' = [p \in Printers |-> <<>>]
  /\ wpc' = [p \in Printers |-> "none"]
  /\ wjob' = [p \in Printers |-> NoJob]
  /\ call' = [j \in Jobs |-> "none"]
  /\ monitor' = [j \in Jobs |-> "off"]
  /\ cpc' = [c \in Callers |-> "idle"]
  /\ cjob' = [c \in Callers |-> NoJob]
  /\ cancelling' = {}
  /\ UNCHANGED <<repo, faults, handed, spool>>

\* shutdown waited for its tasks, or for ten seconds.
Exit ==
  /\ phase = "draining"
  /\ ProcessEnds
  /\ UNCHANGED crashes

Crash ==
  /\ phase # "down"
  /\ crashes < MaxCrashes
  /\ crashes' = crashes + 1
  /\ ProcessEnds

\* PrintEngine::start: discovery has run, reconciliation begins.
Restart ==
  /\ phase = "down"
  /\ phase' = "starting"
  /\ todo' = {j \in Jobs : Stored(j) /\ ~IsTerminal(repo[j])}
  /\ UNCHANGED <<storeVars, workerVars, cancelVars, crashes, deviceVars, req,
                 used, monitor>>

\* Mutant: A job caught in SUBMITTING is taken for one that never left the agent.
SettledAsUnsent(job) ==
  IF job.delivery = "DEVICE_DELIVERED"
  THEN Complete(job, "BYTES_DELIVERED") ELSE Fail(job, "NOT_PRINTED")

\* How reconcile_after_restart settles a stored job it does not monitor.
Settled(job) ==
  CASE job.delivery = "REQUEST_ACCEPTED" -> Fail(job, "NOT_PRINTED")
    [] job.delivery = "DEVICE_DELIVERED" -> Complete(job, "BYTES_DELIVERED")
    [] OTHER -> Fail(job, "UNKNOWN")

\* A spooled job whose printer the discovery found is monitored again.
Resume(j) ==
  /\ phase = "starting"
  /\ j \in todo
  /\ repo[j].delivery = "SPOOLER_ACCEPTED"
  /\ todo' = todo \ {j}
  /\ active' = [active EXCEPT ![j] = repo[j]]
  /\ monitor' = [monitor EXCEPT ![j] = "wait"]
  /\ UNCHANGED <<repo, faults, workerVars, cancelVars, phase, crashes,
                 deviceVars, req, used>>

\* Mutant: A job caught in SUBMITTING is queued again.
ReconcileResends(j) ==
  LET p == PrinterOf[j] IN
  /\ phase = "starting"
  /\ j \in todo
  /\ repo[j].delivery = "SUBMITTING"
  /\ todo' = todo \ {j}
  /\ active' = [active EXCEPT ![j] = repo[j]]
  /\ queue' = [queue EXCEPT ![p] = Append(@, j)]
  /\ wpc' = [wpc EXCEPT ![p] = "idle"]
  /\ used' = used + Size[j]
  /\ UNCHANGED <<repo, faults, wjob, cancelVars, phase, crashes, deviceVars, req,
                 monitor>>

Reconcile(j) ==
  /\ phase = "starting"
  /\ j \in todo
  /\ repo[j].delivery = "SPOOLER_ACCEPTED" => DiscoveryFails
  /\ todo' = todo \ {j}
  /\ Persist(j, repo[j], Settled(repo[j]))
  /\ active' = [active EXCEPT ![j] =
                  IF IsTerminal(Settled(repo[j])) THEN Absent ELSE Settled(repo[j])]
  /\ UNCHANGED <<workerVars, cancelVars, phase, crashes, deviceVars, req, used,
                 monitor>>

Started ==
  /\ phase = "starting"
  /\ todo = {}
  /\ phase' = "up"
  /\ UNCHANGED <<storeVars, workerVars, cancelVars, todo, crashes, deviceVars,
                 req, used, monitor>>

\* retention_loop: purge_terminal_before, for a job old enough.
Purge(j) ==
  /\ Retention
  /\ phase = "up"
  /\ Stored(j)
  /\ IsTerminal(repo[j])
  /\ repo' = [repo EXCEPT ![j] = Absent]
  /\ UNCHANGED <<active, faults, workerVars, cancelVars, procVars, deviceVars,
                 req, used, monitor>>

-----------------------------------------------------------------------------
SubmitStep(j) ==
  \/ Submit(j) \/ SubmitDuplicate(j) \/ Validate(j) \/ PrepareFails(j)
  \/ Abandon(j) \/ Reserve(j) \/ MarkQueued(j) \/ Send(j) \/ SendFails(j)
  \/ SubmitFails(j)

WorkerStep(p) ==
  \/ TakeJob(p) \/ WorkerStops(p) \/ Claim(p) \/ StartCall(p)
  \/ Delivered(p) \/ Spooled(p)
  \/ \E err \in {"absent", "NOT_PRINTED", "UNKNOWN"} : SubmitErr(p, err)
  \/ SubmitTimeout(p) \/ LateReturn(p)

MonitorStep(j) ==
  MonitorPoll(j) \/ MonitorStops(j) \/ MonitorSeesGone(j) \/ MonitorApply(j)

CancelStep(c) ==
  \/ \E j \in Jobs : CancelBegins(c, j)
  \/ CancelDrops(c) \/ CancelAnnounces(c) \/ CancelCalls(c)
  \/ CancelSettles(c) \/ CancelUnmarks(c) \/ CancelAbandoned(c)

ProcessStep ==
  \/ StopBegins \/ StopCollects \/ StopDrains \/ Exit \/ Crash
  \/ Restart \/ Started
  \/ \E j \in Jobs : StopFails(j) \/ Resume(j) \/ Reconcile(j) \/ Purge(j)

Next ==
  \/ \E j \in Jobs : SubmitStep(j) \/ MonitorStep(j) \/ HandOver(j) \/ SpoolMoves(j)
  \/ \E p \in Printers : WorkerStep(p)
  \/ \E c \in Callers : CancelStep(c)
  \/ ProcessStep

Spec == Init /\ [][Next]_vars

-----------------------------------------------------------------------------
(* Safety                                                                  *)

\* ADR 0003: the engine never retries provider.submit and never resends a job
\* after a restart.  However submissions, timeouts, late answers, crashes and
\* lost writes interleave, the bytes of one job are handed over at most once.
AtMostOnce == \A j \in Jobs : handed[j] <= 1

\* A failure that tells the client nothing was sent is the truth: outcome
\* NOT_PRINTED, or no outcome on a job still REQUEST_ACCEPTED, never stands on a
\* job whose bytes were handed to a spooler or device (not_printed, enqueue,
\* reconcile_after_restart, the provider's own errors).
NothingSentIsTrue ==
  \A j \in Jobs : Stored(j) /\ SaysUnsent(repo[j]) => handed[j] = 0

\* docs/print-job-lifecycle.md, outcome table: an absent outcome means that
\* nothing was sent.  The error of a Windows submission that failed half-way
\* and of a job the spooler failed have none either.
AbsentIsUnsent ==
  \A j \in Jobs :
    Stored(j) /\ repo[j].status = "FAILED" /\ repo[j].error = "absent"
      => handed[j] = 0

\* cancel reports a job CANCELLED with delivery REQUEST_ACCEPTED only if the
\* worker will never hand it over: the check of cancel and the claim of the
\* worker cannot both succeed.
DroppedNeverPrints ==
  \A j \in Jobs :
    /\ Stored(j)
    /\ repo[j].status = "CANCELLED"
    /\ repo[j].delivery = "REQUEST_ACCEPTED"
    => handed[j] = 0

\* A job is never COMPLETED just because the agent accepted it: its bytes were
\* handed over, and the evidence is of the kind its printer can give.
CompletedWasHandedOver ==
  \A j \in Jobs :
    Stored(j) /\ repo[j].status = "COMPLETED" =>
      /\ handed[j] = 1
      /\ (repo[j].completion = "BYTES_DELIVERED") <=> (PrinterOf[j] \notin SpoolPrinters)

\* What the record of a job says is true of the paper, whatever crash, restart,
\* timeout, cancellation, failing write or dropped request came before (the
\* outcome table of docs/print-job-lifecycle.md): nothing was sent if it says
\* so, a job that was dropped is never printed, a completed one was handed over.
ReportsAreTrue == NothingSentIsTrue /\ DroppedNeverPrints /\ CompletedWasHandedOver

\* At no time do two provider.submit calls write to the same printer, not even
\* when one of them has outlived its timeout (worker::process awaits it).
OneWriterPerPrinter ==
  \A i, j \in Jobs :
    call[i] # "none" /\ call[j] # "none" /\ PrinterOf[i] = PrinterOf[j] => i = j

\* Who still holds a ByteReservation for the job.
HoldsBytes(j) ==
  \/ req[j] \in {"reserved", "marked"}
  \/ \E p \in Printers : j \in {queue[p][i] : i \in 1..Len(queue[p])}
  \/ \E p \in Printers : wjob[p] = j

\* The byte budget is exactly what the live reservations add up to, on every
\* error path, and never above the limit.
BudgetIsExact ==
  /\ used = Cardinality(PayloadBytes({j \in Jobs : HoldsBytes(j)}))
  /\ used <= MaxQueuedBytes

\* While the engine runs, every job in memory has a task that will move it: its
\* request, its printer's worker (directly or through the queue) or a monitor.
NoOrphan ==
  phase = "up" =>
    \A j \in Jobs : Active(j) =>
      \/ req[j] \notin {"new", "done"}
      \/ HoldsBytes(j)
      \/ monitor[j] # "off"

\* An idempotency key never prints twice while its job is retained.
KeyPrintsOnce ==
  \A i, j \in Jobs : i # j /\ SameKey(i, j) => handed[i] = 0 \/ handed[j] = 0

\* A cancellation the agent itself requested is not mistaken for a completion:
\* Gone is not read as SPOOLER_JOB_RETIRED when the agent deleted the job.
DeletionIsNotCompletion ==
  \A j \in Jobs :
    spool[j] = "deleted_by_agent" /\ Stored(j)
      => repo[j].completion # "SPOOLER_JOB_RETIRED"

\* Terminal states are final: a stored terminal job is never written again, it
\* can only be purged.
TerminalIsFinal ==
  [][\A j \in Jobs :
       Stored(j) /\ IsTerminal(repo[j]) => repo'[j] \in {repo[j], Absent}]_vars

\* docs/print-job-lifecycle.md on a graceful shutdown: once its tasks have
\* ended, no job is left in the agent's hands (shutdown: "stops accepting work,
\* fails jobs that never left the agent").
StoppedHoldsNothing ==
  /\ phase = "draining"
  /\ \A j \in Jobs : req[j] \in {"new", "done"}
  /\ \A p \in Printers : wpc[p] = "none"
  => \A j \in Jobs : Active(j) => active[j].delivery # "REQUEST_ACCEPTED"

\* docs/print-job-lifecycle.md, restart table: a SPOOLER_ACCEPTED job whose
\* printer still exists is monitored again.  No printer is ever removed here.
SpooledJobsResume ==
  [][\A j \in Jobs :
       phase = "starting" /\ phase' = "starting" /\ j \in todo /\ j \notin todo'
         /\ repo[j].delivery = "SPOOLER_ACCEPTED"
       => monitor'[j] = "wait"]_vars

-----------------------------------------------------------------------------
(* The contract with the client: PrintContract, read off the repository.   *)

\* The outcome table of docs/print-job-lifecycle.md, with an absent outcome read
\* together with the delivery stage (AbsentIsUnsent says why).
ReportOf(job) ==
  CASE job.status = "COMPLETED" -> "completed"
    [] job.status = "FAILED" ->
         IF SaysUnsent(job) THEN "unsent" ELSE "unknown"
    [] job.status = "CANCELLED" ->
         IF job.delivery = "REQUEST_ACCEPTED" THEN "dropped" ELSE "cancelled"
    [] OTHER -> "open"

ClientView(j) ==
  IF Stored(j) THEN ReportOf(repo[j]) ELSE IF req[j] = "new" THEN "none" ELSE "gone"

Contract == INSTANCE PrintContract
  WITH view <- [j \in Jobs |-> ClientView(j)], sent <- handed

\* Every step of the engine, crashes and restarts included, is a step the
\* contract allows or no visible step at all.
ImplementsContract == Contract!Spec

-----------------------------------------------------------------------------
(* Liveness                                                                *)

\* tokio keeps polling tasks that are ready; its semaphore is fair (StartCall);
\* a provider call returns in the end; a stopped agent is started again.  No
\* client, no printer, no spooler and no OS user is assumed to do anything.
Fairness ==
  /\ \A j \in Jobs :
       /\ WF_vars(Validate(j) \/ PrepareFails(j) \/ Reserve(j) \/ MarkQueued(j)
                  \/ Send(j) \/ SendFails(j) \/ SubmitFails(j))
       /\ WF_vars(MonitorStep(j))
       /\ WF_vars(Resume(j) \/ Reconcile(j))
  /\ \A p \in Printers :
       /\ WF_vars(TakeJob(p) \/ Claim(p) \/ SubmitTimeout(p) \/ LateReturn(p))
       /\ SF_vars(StartCall(p))
  /\ WF_vars(Restart \/ Started)

FairSpec == Spec /\ Fairness

Unsettled(j) == Stored(j) /\ ~IsTerminal(repo[j])

\* A job in the agent's hands gets out of them: it is handed to the printer or
\* settled, whatever the jobs before it and the other printers do, also when
\* the agent is restarted in between.
LeavesTheAgent ==
  \A j \in Jobs :
    (Unsettled(j) /\ repo[j].delivery \in {"REQUEST_ACCEPTED", "SUBMITTING"})
      ~> ~(Unsettled(j) /\ repo[j].delivery \in {"REQUEST_ACCEPTED", "SUBMITTING"})

\* Once the spooler is done with a job the agent owns, the job is settled.
SpoolerOutcomeIsReported ==
  \A j \in Jobs :
    (Unsettled(j) /\ spool[j] \notin SpoolLive \cup {"none"}) ~> ~Unsettled(j)
=============================================================================
