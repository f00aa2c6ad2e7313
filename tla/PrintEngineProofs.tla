-------------------------- MODULE PrintEngineProofs ---------------------------
(***************************************************************************)
(* Proofs about PrintEngine for every value of its constants: where a job  *)
(* is and what was done with its payload (Custody), and that what the      *)
(* engine reports about a job is true of the paper.  The invariant behind  *)
(* the second relates the copy of a job in memory, its stored record and   *)
(* what was done with its payload.  Last, that the byte budget is exact.   *)
(***************************************************************************)
EXTENDS PrintEngine, FiniteSetTheorems, TLAPS

-----------------------------------------------------------------------------
(* Types of the job operations.                                            *)

LEMMA TransitionType ==
  ASSUME NEW job \in JobRecord, NEW next \in Statuses
  PROVE  Transition(job, next) \in JobRecord
BY DEF Transition, JobRecord, Statuses, Terminal

LEMMA FailType ==
  ASSUME NEW job \in JobRecord, NEW err \in Errors
  PROVE  Fail(job, err) \in JobRecord
<1>1. Transition(job, "FAILED") \in JobRecord
  BY TransitionType DEF Statuses, Terminal
<1>2. QED
  BY <1>1 DEF Fail, JobRecord

LEMMA CompleteType ==
  ASSUME NEW job \in JobRecord, NEW evidence \in Evidence
  PROVE  Complete(job, evidence) \in JobRecord
<1>1. Transition(job, "COMPLETED") \in JobRecord
  BY TransitionType DEF Statuses, Terminal
<1>2. QED
  BY <1>1 DEF Complete, JobRecord

LEMMA ObservedType ==
  ASSUME NEW job \in JobRecord, NEW state \in Applicable
  PROVE  Observed(job, state) \in JobRecord
<1>1. [job EXCEPT !.condition = FALSE] \in JobRecord
  BY DEF JobRecord
<1>2. [job EXCEPT !.condition = TRUE] \in JobRecord
  BY DEF JobRecord
<1>3. Transition([job EXCEPT !.condition = FALSE], "PRINTING") \in JobRecord
  BY <1>1, TransitionType DEF Statuses, Terminal
<1>4. Transition(job, "CANCELLED") \in JobRecord
  BY TransitionType DEF Statuses, Terminal
<1>5. Complete(job, "SPOOLER_REPORTED_PRINTED") \in JobRecord
  BY CompleteType DEF Evidence
<1>6. Complete(job, "SPOOLER_JOB_RETIRED") \in JobRecord
  BY CompleteType DEF Evidence
<1>7. Fail(job, "absent") \in JobRecord
  BY FailType DEF Errors
<1>8. QED
  BY <1>1, <1>2, <1>3, <1>4, <1>5, <1>6, <1>7 DEF Observed, Applicable, ProviderJobState

LEMMA SettledType ==
  ASSUME NEW job \in JobRecord
  PROVE  Settled(job) \in JobRecord
<1>1. Complete(job, "BYTES_DELIVERED") \in JobRecord
  BY CompleteType DEF Evidence
<1>2. Fail(job, "NOT_PRINTED") \in JobRecord /\ Fail(job, "UNKNOWN") \in JobRecord
  BY FailType DEF Errors
<1>3. QED
  BY <1>1, <1>2 DEF Settled

-----------------------------------------------------------------------------
(* Type correctness.                                                       *)

Records == [Jobs -> JobRecord \cup {Absent}]

\* A worker past recv and a cancellation in progress have a job.
SlotsFilled ==
  /\ \A p \in Printers : wpc[p] \in WorkerSteps \ {"none", "idle"} => wjob[p] \in Jobs
  /\ \A c \in Callers : cpc[c] # "idle" => cjob[c] \in Jobs

TypeInv == TypeOK /\ SlotsFilled

\* What a restart has yet to reconcile is still in the repository.
TodoStored == phase = "starting" => \A j \in todo : Stored(j)

LEMMA NewJobType == NewJob \in JobRecord
BY DEF NewJob, JobRecord, Statuses, Deliveries, Evidence, Errors

LEMMA RecordSet ==
  ASSUME NEW j \in Jobs, NEW table \in Records, NEW record \in JobRecord
  PROVE  [table EXCEPT ![j] = record] \in Records
BY DEF Records

LEMMA PersistType ==
  ASSUME NEW j \in Jobs, NEW before, NEW after \in JobRecord,
         repo \in Records, faults \in 0..MaxFaults, Persist(j, before, after)
  PROVE  repo' \in Records /\ faults' \in 0..MaxFaults
BY ConstantsAssumption DEF Persist, Records

LEMMA MutateType ==
  ASSUME NEW j \in Jobs, NEW after, Active(j) => after \in JobRecord,
         active \in Records, repo \in Records, faults \in 0..MaxFaults,
         Mutate(j, after)
  PROVE  active' \in Records /\ repo' \in Records /\ faults' \in 0..MaxFaults
<1>1. CASE ~Active(j)
  BY <1>1 DEF Mutate, storeVars
<1>2. CASE Active(j)
  BY <1>2, PersistType DEF Mutate, Records
<1>3. QED
  BY <1>1, <1>2

\* What Mutate is applied to.
LEMMA AfterTypes ==
  ASSUME TypeOK, NEW j \in Jobs, Active(j)
  PROVE  /\ active[j] \in JobRecord
         /\ \A s \in Statuses : Transition(active[j], s) \in JobRecord
         /\ \A e \in Errors : Fail(active[j], e) \in JobRecord
         /\ \A d \in Deliveries : [active[j] EXCEPT !.delivery = d] \in JobRecord
<1>1. active[j] \in JobRecord
  BY DEF TypeOK, Active
<1>2. \A d \in Deliveries : [active[j] EXCEPT !.delivery = d] \in JobRecord
  BY <1>1 DEF JobRecord
<1>3. QED
  BY <1>1, <1>2, TransitionType, FailType

LEMMA TypeInit == Init => TypeInv
BY ConstantsAssumption
   DEF Init, TypeInv, TypeOK, SlotsFilled, Phases, SubmitSteps, WorkerSteps,
       CallSteps, SpoolStates, MonitorSteps, CancelSteps

LEMMA SubmitStepType ==
  ASSUME TypeInv, NEW j \in Jobs, SubmitStep(j)
  PROVE  TypeInv'
<1> USE DEF TypeInv, TypeOK, SlotsFilled, workerVars, cancelVars, procVars,
            deviceVars
<1>1. CASE Submit(j)
  <2>1. active' \in Records /\ repo' \in Records
    <3>1. \/ /\ repo' = [repo EXCEPT ![j] = NewJob]
             /\ active' = [active EXCEPT ![j] = NewJob]
          \/ UNCHANGED <<active, repo>>
      BY <1>1 DEF Submit
    <3>2. active \in Records /\ repo \in Records
      BY DEF Records
    <3>3. QED
      BY <3>1, <3>2, NewJobType, RecordSet
  <2>2. faults' \in 0..MaxFaults
    BY <1>1, ConstantsAssumption DEF Submit
  <2>3. req' \in [Jobs -> SubmitSteps]
    BY <1>1 DEF Submit, SubmitSteps
  <2>4. QED
    BY <1>1, <2>1, <2>2, <2>3 DEF Submit, Records
<1>2. CASE SubmitDuplicate(j)
  BY <1>2 DEF SubmitDuplicate, SubmitSteps, storeVars
<1>3. CASE Validate(j)
  <2>1. Active(j) => Transition(active[j], "VALIDATING") \in JobRecord
    BY AfterTypes DEF Statuses
  <2>2. active' \in Records /\ repo' \in Records /\ faults' \in 0..MaxFaults
    BY <1>3, <2>1, MutateType DEF Validate, Records
  <2>3. QED
    BY <1>3, <2>2 DEF Validate, SubmitSteps, Records
<1>4. CASE PrepareFails(j)
  BY <1>4 DEF PrepareFails, SubmitSteps, storeVars
<1>5. CASE Abandon(j)
  BY <1>5 DEF Abandon, SubmitSteps, storeVars
<1>6. CASE Reserve(j)
  BY <1>6 DEF Reserve, SubmitSteps, storeVars
<1>7. CASE MarkQueued(j)
  <2>1. Active(j) => Transition(active[j], "QUEUED") \in JobRecord
    BY AfterTypes DEF Statuses
  <2>2. active' \in Records /\ repo' \in Records /\ faults' \in 0..MaxFaults
    BY <1>7, <2>1, MutateType DEF MarkQueued, Records
  <2>3. QED
    BY <1>7, <2>2 DEF MarkQueued, SubmitSteps, Records
<1>8. CASE Send(j)
  <2> DEFINE p == PrinterOf[j]
  <2>0. p \in Printers /\ queue[p] \in Seq(Jobs)
    BY ConstantsAssumption
  <2>1. queue' \in [Printers -> Seq(Jobs)]
    <3>1. Append(queue[p], j) \in Seq(Jobs)
      BY <2>0
    <3>2. QED
      BY <1>8, <2>0, <3>1 DEF Send
  <2>2. \A q \in Printers : Len(queue'[q]) <= QueueCapacity
    BY <1>8, <2>0, ConstantsAssumption DEF Send
  <2>3. wpc' \in [Printers -> WorkerSteps]
    BY <1>8 DEF Send, WorkerSteps
  <2>4. SlotsFilled'
    BY <1>8 DEF Send, WorkerSteps
  <2>5. QED
    BY <1>8, <2>1, <2>2, <2>3, <2>4 DEF Send, SubmitSteps, storeVars
<1>9. CASE SendFails(j)
  BY <1>9 DEF SendFails, SubmitSteps, storeVars
<1>10. CASE SubmitFails(j)
  <2>1. Active(j) => Fail(active[j], "absent") \in JobRecord
    BY AfterTypes DEF Errors
  <2>2. active' \in Records /\ repo' \in Records /\ faults' \in 0..MaxFaults
    BY <1>10, <2>1, MutateType DEF SubmitFails, Records
  <2>3. QED
    BY <1>10, <2>2 DEF SubmitFails, SubmitSteps, Records
<1>11. QED
  BY <1>1, <1>2, <1>3, <1>4, <1>5, <1>6, <1>7, <1>8, <1>9, <1>10 DEF SubmitStep

LEMMA WorkerStepType ==
  ASSUME TypeInv, NEW p \in Printers, WorkerStep(p)
  PROVE  TypeInv'
<1> USE DEF TypeInv, TypeOK, SlotsFilled, WorkerSteps, CallSteps, cancelVars,
            procVars
<1>1. CASE TakeJob(p)
  <2>1. queue' \in [Printers -> Seq(Jobs)] /\ Head(queue[p]) \in Jobs
    BY <1>1 DEF TakeJob
  <2>2. \A q \in Printers : Len(queue'[q]) <= QueueCapacity
    BY <1>1, ConstantsAssumption DEF TakeJob
  <2>3. QED
    BY <1>1, <2>1, <2>2 DEF TakeJob, storeVars, deviceVars
<1>2. CASE WorkerStops(p)
  BY <1>2, ConstantsAssumption DEF WorkerStops, storeVars, deviceVars
<1>3. CASE Claim(p)
  <2>1. Active(wjob[p]) =>
          [active[wjob[p]] EXCEPT !.delivery = "SUBMITTING"] \in JobRecord
    BY <1>3, AfterTypes DEF Claim, Deliveries
  <2>2. active' \in Records /\ repo' \in Records /\ faults' \in 0..MaxFaults
    BY <1>3, <2>1, MutateType DEF Claim, Records
  <2>3. QED
    BY <1>3, <2>2 DEF Claim, Records, deviceVars
<1>4. CASE StartCall(p)
  BY <1>4 DEF StartCall, storeVars
<1>5. CASE Delivered(p)
  <2>1. Active(wjob[p]) =>
          Complete([active[wjob[p]] EXCEPT !.delivery = "DEVICE_DELIVERED"],
                   "BYTES_DELIVERED") \in JobRecord
    BY <1>5, AfterTypes, CompleteType DEF Delivered, Deliveries, Evidence
  <2>2. active' \in Records /\ repo' \in Records /\ faults' \in 0..MaxFaults
    BY <1>5, <2>1, MutateType DEF Delivered, Records
  <2>3. QED
    BY <1>5, <2>2 DEF Delivered, CallEnds, Records
<1>6. CASE Spooled(p)
  <2>1. Active(wjob[p]) =>
          [active[wjob[p]] EXCEPT !.delivery = "SPOOLER_ACCEPTED"] \in JobRecord
    BY <1>6, AfterTypes DEF Spooled, Deliveries
  <2>2. active' \in Records /\ repo' \in Records /\ faults' \in 0..MaxFaults
    BY <1>6, <2>1, MutateType DEF Spooled, Records
  <2>3. QED
    BY <1>6, <2>2 DEF Spooled, CallEnds, Records, MonitorSteps
<1>7. ASSUME NEW err \in {"absent", "NOT_PRINTED", "UNKNOWN"}, SubmitErr(p, err)
      PROVE  TypeInv'
  <2>1. Active(wjob[p]) => Fail(active[wjob[p]], err) \in JobRecord
    BY <1>7, AfterTypes DEF SubmitErr, Errors
  <2>2. active' \in Records /\ repo' \in Records /\ faults' \in 0..MaxFaults
    BY <1>7, <2>1, MutateType DEF SubmitErr, Records
  <2>3. QED
    BY <1>7, <2>2 DEF SubmitErr, CallEnds, Records
<1>8. CASE SubmitTimeout(p)
  <2>1. Active(wjob[p]) => Fail(active[wjob[p]], "UNKNOWN") \in JobRecord
    BY <1>8, AfterTypes DEF SubmitTimeout, Errors
  <2>2. active' \in Records /\ repo' \in Records /\ faults' \in 0..MaxFaults
    BY <1>8, <2>1, MutateType DEF SubmitTimeout, Records
  <2>3. QED
    BY <1>8, <2>2 DEF SubmitTimeout, Records, deviceVars
<1>9. CASE LateReturn(p)
  BY <1>9 DEF LateReturn, CallEnds, storeVars
<1>10. QED
  BY <1>1, <1>2, <1>3, <1>4, <1>5, <1>6, <1>7, <1>8, <1>9 DEF WorkerStep

LEMMA MonitorStepType ==
  ASSUME TypeInv, NEW j \in Jobs, MonitorStep(j)
  PROVE  TypeInv'
<1> USE DEF TypeInv, TypeOK, SlotsFilled, MonitorSteps, workerVars, cancelVars,
            procVars, deviceVars
<1>1. CASE MonitorPoll(j)
  <2>1. Observable(spool[j]) \subseteq ProviderJobState
    BY DEF Observable, ProviderJobState
  <2>2. monitor' \in [Jobs -> MonitorSteps]
    BY <1>1, <2>1 DEF MonitorPoll, Applicable
  <2>3. QED
    BY <1>1, <2>2 DEF MonitorPoll, storeVars
<1>2. CASE MonitorStops(j)
  BY <1>2 DEF MonitorStops, storeVars
<1>3. CASE MonitorApply(j)
  <2> DEFINE after == Observed(active[j], monitor[j])
  <2>1. Active(j) => after \in JobRecord
    BY <1>3, AfterTypes, ObservedType DEF MonitorApply
  <2>2. Mutate(j, after)
    BY <1>3 DEF MonitorApply
  <2>3. monitor' \in [Jobs -> MonitorSteps]
    <3> HIDE DEF after
    <3>1. monitor' = [monitor EXCEPT ![j] =
                        IF Active(j) /\ ~IsTerminal(after) THEN "wait" ELSE "off"]
      BY <1>3 DEF MonitorApply, after
    <3>2. QED
      BY <3>1
  <2>4. active' \in Records /\ repo' \in Records /\ faults' \in 0..MaxFaults
    <3> HIDE DEF after
    <3>1. QED
      BY <2>1, <2>2, MutateType DEF Records
  <2>5. QED
    BY <1>3, <2>3, <2>4 DEF MonitorApply, Records
<1>4. CASE MonitorSeesGone(j)
  BY <1>4 DEF MonitorSeesGone, storeVars, Applicable
<1>5. QED
  BY <1>1, <1>2, <1>3, <1>4 DEF MonitorStep

LEMMA CancelStepType ==
  ASSUME TypeInv, NEW c \in Callers, CancelStep(c)
  PROVE  TypeInv'
<1> USE DEF TypeInv, TypeOK, SlotsFilled, CancelSteps, workerVars, procVars
<1>1. ASSUME NEW j \in Jobs, CancelBegins(c, j)
      PROVE  TypeInv'
  BY <1>1 DEF CancelBegins, storeVars, deviceVars
<1>2. CASE CancelDrops(c)
  <2> DEFINE after == IF active[cjob[c]].delivery = "REQUEST_ACCEPTED"
                      THEN Transition(active[cjob[c]], "CANCELLED")
                      ELSE active[cjob[c]]
  <2>1. cjob[c] \in Jobs
    BY <1>2 DEF CancelDrops
  <2>2. Active(cjob[c]) => after \in JobRecord
    BY <2>1, AfterTypes DEF Statuses, Terminal
  <2>3. active' \in Records /\ repo' \in Records /\ faults' \in 0..MaxFaults
    <3>1. Mutate(cjob[c], after)
      BY <1>2 DEF CancelDrops
    <3> HIDE DEF after
    <3>2. QED
      BY <2>1, <2>2, <3>1, MutateType DEF Records
  <2>4. QED
    BY <1>2, <2>3 DEF CancelDrops, Records, deviceVars
<1>3. CASE CancelAnnounces(c)
  BY <1>3 DEF CancelAnnounces, storeVars, deviceVars
<1>4. CASE CancelCalls(c)
  <2>1. spool' \in [Jobs -> SpoolStates]
    <3>1. spool' = spool \/ spool' = [spool EXCEPT ![cjob[c]] = "deleted_by_agent"]
      BY <1>4 DEF CancelCalls
    <3>2. "deleted_by_agent" \in SpoolStates
      BY DEF SpoolStates
    <3>3. QED
      BY <3>1, <3>2
  <2>2. cpc[c] # "idle" /\ cpc' \in [Callers -> CancelSteps]
    BY <1>4 DEF CancelCalls
  <2>3. \A d \in Callers : cpc'[d] # "idle" => cjob[d] \in Jobs
    BY <1>4, <2>2 DEF CancelCalls
  <2>4. /\ UNCHANGED <<active, repo, faults, queue, wpc, wjob, cjob, cancelling>>
        /\ UNCHANGED <<phase, todo, crashes, call, handed, req, monitor>>
    BY <1>4 DEF CancelCalls, storeVars
  <2>5. QED
    BY <2>1, <2>2, <2>3, <2>4
<1>5. CASE CancelSettles(c)
  <2>1. cjob[c] \in Jobs
    BY <1>5 DEF CancelSettles
  <2>2. Active(cjob[c]) => Transition(active[cjob[c]], "CANCELLED") \in JobRecord
    BY <2>1, AfterTypes DEF Statuses, Terminal
  <2>3. active' \in Records /\ repo' \in Records /\ faults' \in 0..MaxFaults
    BY <1>5, <2>1, <2>2, MutateType DEF CancelSettles, Records
  <2>4. QED
    BY <1>5, <2>3 DEF CancelSettles, Records, deviceVars
<1>6. CASE CancelUnmarks(c)
  BY <1>6 DEF CancelUnmarks, storeVars, deviceVars
<1>7. CASE CancelAbandoned(c)
  BY <1>7 DEF CancelAbandoned, storeVars, deviceVars
<1>8. QED
  BY <1>1, <1>2, <1>3, <1>4, <1>5, <1>6, <1>7 DEF CancelStep

LEMMA ProcessEndsType ==
  ASSUME TypeInv, ProcessEnds, crashes' \in 0..MaxCrashes
  PROVE  TypeInv'
BY ConstantsAssumption
   DEF TypeInv, TypeOK, SlotsFilled, ProcessEnds, Phases, SubmitSteps, WorkerSteps,
       CallSteps, MonitorSteps, CancelSteps

LEMMA ProcessStepType ==
  ASSUME TypeInv, TodoStored, ProcessStep
  PROVE  TypeInv'
<1> USE DEF TypeInv, TypeOK, SlotsFilled, Phases, workerVars, cancelVars,
            deviceVars
<1>1. CASE StopBegins
  BY <1>1 DEF StopBegins, storeVars
<1>2. CASE StopCollects
  BY <1>2 DEF StopCollects, storeVars
<1>3. CASE StopDrains
  BY <1>3 DEF StopDrains, storeVars
<1>4. CASE Exit
  BY <1>4, ProcessEndsType DEF Exit
<1>5. CASE Crash
  <2>1. crashes' \in 0..MaxCrashes
    BY <1>5, ConstantsAssumption DEF Crash
  <2>2. QED
    BY <1>5, <2>1, ProcessEndsType DEF Crash
<1>6. CASE Restart
  BY <1>6 DEF Restart, storeVars
<1>7. CASE Started
  BY <1>7 DEF Started, storeVars
<1>8. ASSUME NEW j \in Jobs, StopFails(j)
      PROVE  TypeInv'
  <2>1. Active(j) => Fail(active[j], "NOT_PRINTED") \in JobRecord
    BY AfterTypes DEF Errors
  <2>2. active' \in Records /\ repo' \in Records /\ faults' \in 0..MaxFaults
    BY <1>8, <2>1, MutateType DEF StopFails, Records
  <2>3. QED
    BY <1>8, <2>2 DEF StopFails, Records
<1>9. ASSUME NEW j \in Jobs, Resume(j)
      PROVE  TypeInv'
  BY <1>9 DEF Resume, MonitorSteps
<1>10. ASSUME NEW j \in Jobs, Reconcile(j)
       PROVE  TypeInv'
  <2>1. Settled(repo[j]) \in JobRecord
    BY <1>10, SettledType DEF Reconcile, TodoStored, Stored
  <2>2. repo' \in Records /\ faults' \in 0..MaxFaults
    BY <1>10, <2>1, PersistType DEF Reconcile, Records
  <2>3. active' \in Records
    BY <1>10, <2>1 DEF Reconcile, Records
  <2>4. QED
    BY <1>10, <2>2, <2>3 DEF Reconcile, Records
<1>11. ASSUME NEW j \in Jobs, Purge(j)
       PROVE  TypeInv'
  BY <1>11 DEF Purge, procVars
<1>12. QED
  BY <1>1, <1>2, <1>3, <1>4, <1>5, <1>6, <1>7, <1>8, <1>9, <1>10, <1>11
     DEF ProcessStep

LEMMA DeviceStepType ==
  ASSUME TypeInv, NEW j \in Jobs, HandOver(j) \/ SpoolMoves(j)
  PROVE  TypeInv'
<1> USE DEF TypeInv, TypeOK, SlotsFilled, CallSteps, storeVars, workerVars,
            cancelVars, procVars
<1>1. CASE HandOver(j)
  <2>1. spool' \in [Jobs -> SpoolStates]
    <3>1. "pending" \in SpoolStates
      BY DEF SpoolStates, SpoolLive
    <3>2. QED
      BY <1>1, <3>1 DEF HandOver
  <2>2. QED
    BY <1>1, <2>1 DEF HandOver
<1>2. CASE SpoolMoves(j)
  <2>1. SpoolNext[spool[j]] \subseteq SpoolStates
    <3>1. spool[j] \in SpoolStates
      OBVIOUS
    <3>2. SpoolNext[spool[j]] \subseteq
            {"pending", "printing", "blocked", "printed", "failed", "retired",
             "deleted_by_user"}
      BY <3>1 DEF SpoolNext
    <3>3. QED
      BY <3>2 DEF SpoolStates, SpoolLive
  <2>2. spool' \in [Jobs -> SpoolStates]
    BY <1>2, <2>1 DEF SpoolMoves
  <2>3. QED
    BY <1>2, <2>2 DEF SpoolMoves
<1>3. QED
  BY <1>1, <1>2

\* Nothing but the purge removes a job from the repository.
LEMMA MutateKeeps ==
  ASSUME NEW j \in Jobs, NEW after, Active(j) => after \in JobRecord,
         repo \in Records, Mutate(j, after), NEW k \in Jobs, Stored(k)
  PROVE  repo'[k] # Absent
<1>1. \A r \in JobRecord : r # Absent
  BY DEF JobRecord, Absent, Statuses, Terminal
<1>2. CASE ~Active(j)
  BY <1>2 DEF Mutate, storeVars, Stored
<1>3. CASE Active(j)
  BY <1>1, <1>3 DEF Mutate, Persist, Records, Stored
<1>4. QED
  BY <1>2, <1>3

\* Requests, workers and cancellations act only while the agent runs, and
\* leave its phase alone.
LEMMA RunningSteps ==
  ASSUME \/ \E j \in Jobs : SubmitStep(j)
         \/ \E p \in Printers : WorkerStep(p)
         \/ \E c \in Callers : CancelStep(c)
  PROVE  UNCHANGED phase /\ Running
<1> USE DEF procVars
<1>1. ASSUME NEW j \in Jobs, SubmitStep(j)
      PROVE  UNCHANGED phase /\ Running
  BY <1>1 DEF SubmitStep, Submit, SubmitDuplicate, Validate, PrepareFails, Abandon,
     Reserve, MarkQueued, Send, SendFails, SubmitFails
<1>2. ASSUME NEW p \in Printers, WorkerStep(p)
      PROVE  UNCHANGED phase /\ Running
  BY <1>2 DEF WorkerStep, TakeJob, WorkerStops, Claim, StartCall, Delivered, Spooled,
     SubmitErr, SubmitTimeout, LateReturn, CallEnds, Running, Stopping
<1>3. ASSUME NEW c \in Callers, CancelStep(c)
      PROVE  UNCHANGED phase /\ Running
  BY <1>3 DEF CancelStep, CancelBegins, CancelDrops, CancelAnnounces, CancelCalls,
     CancelSettles, CancelUnmarks, CancelAbandoned
<1>4. QED
  BY <1>1, <1>2, <1>3

LEMMA TodoStoredStep ==
  ASSUME TypeInv, TodoStored, [Next]_vars
  PROVE  TodoStored'
<1> USE DEF TodoStored, Stored, procVars, storeVars
<1>1. CASE \/ \E j \in Jobs : SubmitStep(j)
           \/ \E p \in Printers : WorkerStep(p)
           \/ \E c \in Callers : CancelStep(c)
  BY <1>1, RunningSteps DEF Running
<1>2. CASE UNCHANGED vars
  BY <1>2 DEF vars
<1>3. ASSUME NEW j \in Jobs, HandOver(j) \/ SpoolMoves(j)
      PROVE  TodoStored'
  BY <1>3 DEF HandOver, SpoolMoves
<1>4. ASSUME NEW j \in Jobs, MonitorStep(j)
      PROVE  TodoStored'
  <2>1. CASE MonitorApply(j)
    <3> DEFINE after == Observed(active[j], monitor[j])
    <3>1. Active(j) => after \in JobRecord
      BY <2>1, AfterTypes, ObservedType DEF MonitorApply, TypeInv
    <3>2. Mutate(j, after) /\ UNCHANGED <<phase, todo>>
      BY <2>1 DEF MonitorApply
    <3>3. repo \in Records /\ todo \subseteq Jobs
      BY DEF TypeInv, TypeOK, Records
    <3> HIDE DEF after
    <3>4. QED
      BY <3>1, <3>2, <3>3, MutateKeeps
  <2>2. CASE MonitorPoll(j) \/ MonitorStops(j) \/ MonitorSeesGone(j)
    BY <2>2 DEF MonitorPoll, MonitorStops, MonitorSeesGone
  <2>3. QED
    BY <1>4, <2>1, <2>2 DEF MonitorStep
<1>5. ASSUME NEW j \in Jobs, StopFails(j) \/ Resume(j) \/ Reconcile(j) \/ Purge(j)
      PROVE  TodoStored'
  <2>1. CASE StopFails(j) \/ Purge(j)
    BY <2>1 DEF StopFails, Purge
  <2>2. CASE Resume(j)
    BY <2>2 DEF Resume
  <2>3. CASE Reconcile(j)
    BY <2>3 DEF Reconcile, Persist, TypeInv, TypeOK
  <2>4. QED
    BY <1>5, <2>1, <2>2, <2>3
<1>6. CASE \/ StopBegins \/ StopCollects \/ StopDrains \/ Exit \/ Crash
           \/ Restart \/ Started
  BY <1>6 DEF StopBegins, StopCollects, StopDrains, Exit, Crash, ProcessEnds,
     Restart, Started
<1>7. QED
  BY <1>1, <1>2, <1>3, <1>4, <1>5, <1>6 DEF Next, ProcessStep

LEMMA TypeStep == TypeInv /\ TodoStored /\ [Next]_vars => TypeInv'
<1> SUFFICES ASSUME TypeInv, TodoStored, [Next]_vars
             PROVE  TypeInv'
  OBVIOUS
<1>1. CASE UNCHANGED vars
  BY <1>1 DEF TypeInv, TypeOK, SlotsFilled, vars, storeVars, workerVars,
              cancelVars, procVars, deviceVars
<1>2. CASE Next
  BY <1>2, SubmitStepType, WorkerStepType, MonitorStepType, CancelStepType,
     ProcessStepType, DeviceStepType DEF Next
<1>3. QED
  BY <1>1, <1>2

\* The engine, its repository and the spooler stay in the states their types
\* name, in every run with crashes, failing writes, shutdowns and purges, and
\* no channel ever holds more than its capacity.
THEOREM TypeCorrect == Spec => []TypeOK
<1>1. Init => TypeInv /\ TodoStored
  BY TypeInit DEF Init, TodoStored
<1>2. TypeInv /\ TodoStored /\ [Next]_vars => TypeInv' /\ TodoStored'
  BY TypeStep, TodoStoredStep
<1>3. QED
  BY <1>1, <1>2, PTL DEF Spec, TypeInv

-----------------------------------------------------------------------------
(* Custody: at each time at most one party holds a job's payload, and what *)
(* a party has done with it can be told from the party's state.  This is   *)
(* the invariant behind AtMostOnce and OneWriterPerPrinter.                *)

\* A queued job is in the channel of its own printer, once, and untouched.
QueueCustody ==
  \A p \in Printers : \A i \in 1..Len(queue[p]) :
    /\ PrinterOf[queue[p][i]] = p
    /\ req[queue[p][i]] = "done"
    /\ wjob[p] # queue[p][i]
    /\ handed[queue[p][i]] = 0
    /\ \A k \in 1..Len(queue[p]) : queue[p][k] = queue[p][i] => k = i

\* What the worker's step says of its job.
WorkerCustody ==
  \A p \in Printers :
    /\ wpc[p] \in {"none", "idle"} => wjob[p] = NoJob
    /\ wpc[p] \in {"taken", "claimed", "waiting", "late"} =>
         /\ PrinterOf[wjob[p]] = p
         /\ req[wjob[p]] = "done"
    /\ wpc[p] \in {"taken", "claimed"} =>
         call[wjob[p]] = "none" /\ handed[wjob[p]] = 0
    /\ wpc[p] \in {"waiting", "late"} =>
         \/ call[wjob[p]] = "running" /\ handed[wjob[p]] = 0
         \/ call[wjob[p]] = "wrote" /\ handed[wjob[p]] = 1

\* A provider call belongs to the worker of its job's printer.
CallCustody ==
  \A j \in Jobs : call[j] # "none" =>
    wjob[PrinterOf[j]] = j /\ wpc[PrinterOf[j]] \in {"waiting", "late"}

\* A request that is still in submit has been handed to nobody.
RequestCustody == \A j \in Jobs : req[j] # "done" => handed[j] = 0

Custody ==
  QueueCustody /\ WorkerCustody /\ CallCustody /\ RequestCustody /\ AtMostOnce

LEMMA CustodyInit == Init => Custody
BY ConstantsAssumption DEF Init, Custody, QueueCustody, WorkerCustody, CallCustody,
   RequestCustody, AtMostOnce

\* Steps that move no payload.
LEMMA CustodyFrame ==
  ASSUME Custody, UNCHANGED <<queue, wpc, wjob, call, handed>>,
         \A j \in Jobs : req[j] = "done" => req'[j] = "done",
         TypeInv
  PROVE  Custody'
<1>1. QueueCustody'
  <2>1. \A p \in Printers : \A i \in 1..Len(queue[p]) : queue[p][i] \in Jobs
    BY DEF TypeInv, TypeOK
  <2>2. QED
    BY <2>1 DEF Custody, QueueCustody
<1>2. WorkerCustody'
  BY DEF Custody, WorkerCustody, TypeInv, TypeOK, SlotsFilled, WorkerSteps
<1>3. CallCustody' /\ RequestCustody' /\ AtMostOnce'
  BY DEF Custody, CallCustody, RequestCustody, AtMostOnce
<1>4. QED
  BY <1>1, <1>2, <1>3 DEF Custody

LEMMA CustodySend ==
  ASSUME TypeInv, Custody, NEW j \in Jobs, Send(j)
  PROVE  Custody'
<1> DEFINE p == PrinterOf[j]
<1>1. p \in Printers /\ queue[p] \in Seq(Jobs) /\ Len(queue[p]) \in Nat
  BY ConstantsAssumption DEF TypeInv, TypeOK
<1>2. /\ req[j] # "done" /\ req' = [req EXCEPT ![j] = "done"]
      /\ queue' = [queue EXCEPT ![p] = Append(queue[p], j)]
      /\ wpc' = [wpc EXCEPT ![p] = IF wpc[p] = "none" THEN "idle" ELSE wpc[p]]
      /\ UNCHANGED <<wjob, call, handed>>
  BY DEF Send, deviceVars
<1>3. handed[j] = 0
  BY <1>2 DEF Custody, RequestCustody
<1>4. wjob[p] # j
  BY <1>1, <1>2, NoJobAssumption
     DEF Custody, WorkerCustody, TypeInv, TypeOK, WorkerSteps
<1>5. \A q \in Printers : \A i \in 1..Len(queue[q]) : queue[q][i] \in Jobs \ {j}
  BY <1>2 DEF Custody, QueueCustody, TypeInv, TypeOK
<1>6. QueueCustody'
  <2> SUFFICES ASSUME NEW q \in Printers, NEW i \in 1..Len(queue'[q])
               PROVE  /\ PrinterOf[queue'[q][i]] = q
                      /\ req'[queue'[q][i]] = "done"
                      /\ wjob[q] # queue'[q][i]
                      /\ handed[queue'[q][i]] = 0
                      /\ \A k \in 1..Len(queue'[q]) :
                           queue'[q][k] = queue'[q][i] => k = i
    BY <1>2 DEF QueueCustody
  <2>1. CASE q # p
    <3>1. queue'[q] = queue[q]
      BY <1>2, <2>1 DEF TypeInv, TypeOK
    <3>2. QED
      BY <1>2, <1>5, <3>1 DEF Custody, QueueCustody, TypeInv, TypeOK
  <2>2. CASE q = p
    <3>1. queue'[q] = Append(queue[p], j)
      BY <1>2, <2>2 DEF TypeInv, TypeOK
    <3>2. /\ Len(queue'[q]) = Len(queue[p]) + 1
          /\ queue'[q][Len(queue[p]) + 1] = j
          /\ \A k \in 1..Len(queue[p]) : queue'[q][k] = queue[p][k]
      BY <1>1, <3>1
    <3>3. CASE i = Len(queue[p]) + 1
      <4>1. queue'[q][i] = j
        BY <3>2, <3>3
      <4>2. req'[j] = "done"
        BY <1>2 DEF TypeInv, TypeOK
      <4>3. \A k \in 1..Len(queue'[q]) : queue'[q][k] = j => k = i
        BY <1>1, <1>5, <3>2, <3>3
      <4>4. QED
        BY <1>3, <1>4, <2>2, <4>1, <4>2, <4>3
    <3>4. CASE i \in 1..Len(queue[p])
      <4>1. queue'[q][i] = queue[p][i] /\ queue[p][i] \in Jobs \ {j}
        BY <1>1, <1>5, <3>2, <3>4
      <4>2. \A k \in 1..Len(queue'[q]) : queue'[q][k] = queue[p][i] => k = i
        BY <1>1, <3>2, <3>4, <4>1 DEF Custody, QueueCustody
      <4>3. /\ PrinterOf[queue[p][i]] = p
            /\ req[queue[p][i]] = "done"
            /\ wjob[p] # queue[p][i]
            /\ handed[queue[p][i]] = 0
        BY <1>1, <3>4 DEF Custody, QueueCustody
      <4>4. req'[queue[p][i]] = "done"
        BY <1>2, <4>1, <4>3 DEF TypeInv, TypeOK
      <4>5. QED
        BY <2>2, <4>1, <4>2, <4>3, <4>4
    <3>5. QED
      BY <1>1, <3>2, <3>3, <3>4
  <2>3. QED
    BY <2>1, <2>2
<1>7. WorkerCustody'
  BY <1>1, <1>2, <1>4
     DEF Custody, WorkerCustody, TypeInv, TypeOK, SlotsFilled, WorkerSteps
<1>8. CallCustody'
  BY <1>1, <1>2, ConstantsAssumption DEF Custody, CallCustody, TypeInv, TypeOK
<1>9. RequestCustody' /\ AtMostOnce'
  BY <1>2 DEF Custody, RequestCustody, AtMostOnce, TypeInv, TypeOK
<1>10. QED
  BY <1>6, <1>7, <1>8, <1>9 DEF Custody

LEMMA CustodyTake ==
  ASSUME TypeInv, Custody, NEW p \in Printers, TakeJob(p)
  PROVE  Custody'
<1> DEFINE j == queue[p][1]
<1>1. queue[p] \in Seq(Jobs) /\ Len(queue[p]) \in Nat /\ Len(queue[p]) >= 1
  BY DEF TypeInv, TypeOK, TakeJob
<1>2. /\ wpc[p] = "idle" /\ wpc' = [wpc EXCEPT ![p] = "taken"]
      /\ wjob' = [wjob EXCEPT ![p] = j]
      /\ queue' = [queue EXCEPT ![p] = Tail(queue[p])]
      /\ UNCHANGED <<call, handed, req>>
  BY <1>1 DEF TakeJob, deviceVars
<1>3. j \in Jobs /\ PrinterOf[j] = p /\ req[j] = "done" /\ handed[j] = 0
  BY <1>1 DEF Custody, QueueCustody
<1>4. call[j] = "none"
  BY <1>2, <1>3 DEF Custody, CallCustody
<1>5. /\ \A k \in 1..Len(queue'[p]) : /\ k + 1 \in 1..Len(queue[p])
                                      /\ queue'[p][k] = queue[p][k + 1]
      /\ Len(queue'[p]) \in Nat
  BY <1>1, <1>2 DEF TypeInv, TypeOK
<1>6. QueueCustody'
  <2> SUFFICES ASSUME NEW q \in Printers, NEW i \in 1..Len(queue'[q])
               PROVE  /\ PrinterOf[queue'[q][i]] = q
                      /\ req[queue'[q][i]] = "done"
                      /\ wjob'[q] # queue'[q][i]
                      /\ handed[queue'[q][i]] = 0
                      /\ \A k \in 1..Len(queue'[q]) :
                           queue'[q][k] = queue'[q][i] => k = i
    BY <1>2 DEF QueueCustody
  <2>1. CASE q # p
    <3>1. queue'[q] = queue[q] /\ wjob'[q] = wjob[q]
      BY <1>2, <2>1 DEF TypeInv, TypeOK
    <3>2. QED
      BY <3>1 DEF Custody, QueueCustody
  <2>2. CASE q = p
    <3>1. i + 1 \in 1..Len(queue[p]) /\ queue'[q][i] = queue[p][i + 1] /\ i + 1 # 1
      BY <1>5, <2>2
    <3>2. wjob'[q] = j
      BY <1>2, <2>2 DEF TypeInv, TypeOK
    <3>3. j # queue[p][i + 1]
      BY <1>1, <3>1 DEF Custody, QueueCustody
    <3>4. \A k \in 1..Len(queue'[q]) : queue'[q][k] = queue'[q][i] => k = i
      <4> SUFFICES ASSUME NEW k \in 1..Len(queue'[p]), queue'[p][k] = queue'[p][i]
                   PROVE  k = i
        BY <2>2
      <4>1. queue[p][k + 1] = queue[p][i + 1] /\ k + 1 \in 1..Len(queue[p])
        BY <1>5, <2>2, <3>1
      <4>2. k + 1 = i + 1
        BY <3>1, <4>1 DEF Custody, QueueCustody
      <4>3. QED
        BY <1>5, <4>2
    <3>5. QED
      BY <2>2, <3>1, <3>2, <3>3, <3>4 DEF Custody, QueueCustody
  <2>3. QED
    BY <2>1, <2>2
<1>7. WorkerCustody'
  BY <1>2, <1>3, <1>4 DEF Custody, WorkerCustody, TypeInv, TypeOK, SlotsFilled
<1>8. CallCustody'
  BY <1>2, <1>3, <1>4, ConstantsAssumption
     DEF Custody, CallCustody, TypeInv, TypeOK
<1>9. RequestCustody' /\ AtMostOnce'
  BY <1>2 DEF Custody, RequestCustody, AtMostOnce
<1>10. QED
  BY <1>6, <1>7, <1>8, <1>9 DEF Custody

\* Steps of a worker that leave the channels as they are or empty its own.
LEMMA CustodyWorkerStops ==
  ASSUME TypeInv, Custody, NEW p \in Printers, WorkerStops(p)
  PROVE  Custody'
<1>1. /\ wpc[p] = "idle" /\ wpc' = [wpc EXCEPT ![p] = "none"]
      /\ queue' = [queue EXCEPT ![p] = <<>>]
      /\ UNCHANGED <<wjob, call, handed, req>>
  BY DEF WorkerStops, deviceVars
<1>2. QueueCustody'
  BY <1>1 DEF Custody, QueueCustody, TypeInv, TypeOK
<1>3. WorkerCustody'
  BY <1>1 DEF Custody, WorkerCustody, TypeInv, TypeOK
<1>4. CallCustody'
  BY <1>1, ConstantsAssumption DEF Custody, CallCustody, TypeInv, TypeOK
<1>5. RequestCustody' /\ AtMostOnce'
  BY <1>1 DEF Custody, RequestCustody, AtMostOnce
<1>6. QED
  BY <1>2, <1>3, <1>4, <1>5 DEF Custody

LEMMA CustodyClaim ==
  ASSUME TypeInv, Custody, NEW p \in Printers, Claim(p)
  PROVE  Custody'
<1>1. /\ wpc[p] = "taken"
      /\ \/ wpc' = [wpc EXCEPT ![p] = "claimed"] /\ wjob' = wjob
         \/ /\ wpc' = [wpc EXCEPT ![p] = "idle"]
            /\ wjob' = [wjob EXCEPT ![p] = NoJob]
      /\ UNCHANGED <<queue, call, handed, req>>
  BY DEF Claim, deviceVars
<1>2. QueueCustody'
  BY <1>1, NoJobAssumption DEF Custody, QueueCustody, TypeInv, TypeOK
<1>3. WorkerCustody'
  BY <1>1 DEF Custody, WorkerCustody, TypeInv, TypeOK
<1>4. CallCustody'
  <2> SUFFICES ASSUME NEW k \in Jobs, call[k] # "none"
               PROVE  /\ wjob'[PrinterOf[k]] = k
                      /\ wpc'[PrinterOf[k]] \in {"waiting", "late"}
    BY <1>1 DEF CallCustody
  <2>1. /\ PrinterOf[k] \in Printers
        /\ wjob[PrinterOf[k]] = k
        /\ wpc[PrinterOf[k]] \in {"waiting", "late"}
    BY ConstantsAssumption DEF Custody, CallCustody
  <2>2. PrinterOf[k] # p
    BY <1>1, <2>1
  <2>3. wjob'[PrinterOf[k]] = wjob[PrinterOf[k]] /\ wpc'[PrinterOf[k]] = wpc[PrinterOf[k]]
    BY <1>1, <2>1, <2>2 DEF TypeInv, TypeOK
  <2>4. QED
    BY <2>1, <2>3
<1>5. RequestCustody' /\ AtMostOnce'
  BY <1>1 DEF Custody, RequestCustody, AtMostOnce
<1>6. QED
  BY <1>2, <1>3, <1>4, <1>5 DEF Custody

LEMMA CustodyStartCall ==
  ASSUME TypeInv, Custody, NEW p \in Printers, StartCall(p)
  PROVE  Custody'
<1>1. /\ wpc[p] = "claimed" /\ wpc' = [wpc EXCEPT ![p] = "waiting"]
      /\ call' = [call EXCEPT ![wjob[p]] = "running"]
      /\ UNCHANGED <<queue, wjob, handed, req>>
  BY DEF StartCall
<1>2. wjob[p] \in Jobs /\ PrinterOf[wjob[p]] = p /\ handed[wjob[p]] = 0
  BY <1>1 DEF Custody, WorkerCustody, TypeInv, SlotsFilled, WorkerSteps
<1>3. QueueCustody'
  BY <1>1 DEF Custody, QueueCustody
<1>4. WorkerCustody'
  BY <1>1, <1>2
     DEF Custody, WorkerCustody, TypeInv, TypeOK, SlotsFilled, WorkerSteps
<1>5. CallCustody'
  BY <1>1, <1>2, ConstantsAssumption DEF Custody, CallCustody, TypeInv, TypeOK
<1>6. RequestCustody' /\ AtMostOnce'
  BY <1>1 DEF Custody, RequestCustody, AtMostOnce
<1>7. QED
  BY <1>3, <1>4, <1>5, <1>6 DEF Custody

LEMMA CustodyHandOver ==
  ASSUME TypeInv, Custody, NEW j \in Jobs, HandOver(j)
  PROVE  Custody'
<1> DEFINE p == PrinterOf[j]
<1>1. /\ call[j] = "running" /\ call' = [call EXCEPT ![j] = "wrote"]
      /\ handed' = [handed EXCEPT ![j] = handed[j] + 1]
      /\ UNCHANGED <<queue, wpc, wjob, req>>
  BY DEF HandOver, workerVars
<1>2. p \in Printers /\ wjob[p] = j /\ wpc[p] \in {"waiting", "late"}
  BY <1>1, ConstantsAssumption DEF Custody, CallCustody
<1>3. handed[j] = 0 /\ req[j] = "done"
  BY <1>1, <1>2 DEF Custody, WorkerCustody
<1>4. handed' = [handed EXCEPT ![j] = 1]
  BY <1>1, <1>3
<1>5. QueueCustody'
  <2>1. \A q \in Printers : \A i \in 1..Len(queue[q]) : queue[q][i] # j
    BY <1>2 DEF Custody, QueueCustody
  <2>2. QED
    BY <1>1, <1>4, <2>1 DEF Custody, QueueCustody, TypeInv, TypeOK
<1>6. WorkerCustody'
  <2>1. ASSUME NEW q \in Printers, wjob[q] = j
        PROVE  q = p
    <3>1. wpc[q] \notin {"none", "idle"}
      BY <2>1, NoJobAssumption DEF Custody, WorkerCustody
    <3>2. wpc[q] \in {"taken", "claimed", "waiting", "late"}
      BY <3>1 DEF TypeInv, TypeOK, WorkerSteps
    <3>3. QED
      BY <2>1, <3>2 DEF Custody, WorkerCustody
  <2>2. QED
    BY <1>1, <1>2, <1>3, <1>4, <2>1
       DEF Custody, WorkerCustody, TypeInv, TypeOK, SlotsFilled, WorkerSteps
<1>7. CallCustody'
  BY <1>1, <1>2 DEF Custody, CallCustody, TypeInv, TypeOK
<1>8. RequestCustody' /\ AtMostOnce'
  BY <1>1, <1>3, <1>4 DEF Custody, RequestCustody, AtMostOnce, TypeInv, TypeOK
<1>9. QED
  BY <1>5, <1>6, <1>7, <1>8 DEF Custody

LEMMA CustodyCallEnds ==
  ASSUME TypeInv, Custody, NEW p \in Printers, wpc[p] \in {"waiting", "late"},
         CallEnds(p)
  PROVE  Custody'
<1>1. /\ call' = [call EXCEPT ![wjob[p]] = "none"]
      /\ wpc' = [wpc EXCEPT ![p] = "idle"]
      /\ wjob' = [wjob EXCEPT ![p] = NoJob]
      /\ UNCHANGED <<queue, handed, req>>
  BY DEF CallEnds
<1>2. wjob[p] \in Jobs /\ PrinterOf[wjob[p]] = p
  BY DEF Custody, WorkerCustody, TypeInv, SlotsFilled, WorkerSteps
<1>3. QueueCustody'
  BY <1>1, NoJobAssumption DEF Custody, QueueCustody, TypeInv, TypeOK
<1>4. WorkerCustody'
  BY <1>1, <1>2
     DEF Custody, WorkerCustody, TypeInv, TypeOK, SlotsFilled, WorkerSteps
<1>5. CallCustody'
  BY <1>1, <1>2, ConstantsAssumption DEF Custody, CallCustody, TypeInv, TypeOK
<1>6. RequestCustody' /\ AtMostOnce'
  BY <1>1 DEF Custody, RequestCustody, AtMostOnce
<1>7. QED
  BY <1>3, <1>4, <1>5, <1>6 DEF Custody

LEMMA CustodyTimeout ==
  ASSUME TypeInv, Custody, NEW p \in Printers, SubmitTimeout(p)
  PROVE  Custody'
<1>1. /\ wpc[p] = "waiting" /\ wpc' = [wpc EXCEPT ![p] = "late"]
      /\ UNCHANGED <<queue, wjob, call, handed, req>>
  BY DEF SubmitTimeout, deviceVars
<1>2. QueueCustody'
  BY <1>1 DEF Custody, QueueCustody
<1>3. WorkerCustody'
  BY <1>1 DEF Custody, WorkerCustody, TypeInv, TypeOK
<1>4. CallCustody'
  BY <1>1, ConstantsAssumption DEF Custody, CallCustody, TypeInv, TypeOK
<1>5. RequestCustody' /\ AtMostOnce'
  BY <1>1 DEF Custody, RequestCustody, AtMostOnce
<1>6. QED
  BY <1>2, <1>3, <1>4, <1>5 DEF Custody

LEMMA CustodyProcessEnds ==
  ASSUME TypeInv, Custody, ProcessEnds
  PROVE  Custody'
BY ConstantsAssumption
   DEF Custody, QueueCustody, WorkerCustody, CallCustody, RequestCustody, AtMostOnce,
       ProcessEnds

LEMMA CustodyStep == TypeInv /\ Custody /\ [Next]_vars => Custody'
<1> SUFFICES ASSUME TypeInv, Custody, [Next]_vars
             PROVE  Custody'
  OBVIOUS
<1> USE DEF workerVars, deviceVars
<1>1. CASE UNCHANGED vars
  BY <1>1, CustodyFrame DEF vars
<1>2. ASSUME NEW j \in Jobs, SubmitStep(j)
      PROVE  Custody'
  <2>1. CASE Send(j)
    BY <2>1, CustodySend
  <2>2. CASE ~Send(j)
    <3>1. /\ UNCHANGED <<queue, wpc, wjob, call, handed>>
          /\ req[j] # "done"
          /\ \E s \in SubmitSteps : req' = [req EXCEPT ![j] = s]
      BY <1>2, <2>2 DEF SubmitStep, Submit, SubmitDuplicate, Validate, PrepareFails,
         Abandon, Reserve, MarkQueued, SendFails, SubmitFails, SubmitSteps
    <3>2. \A k \in Jobs : req[k] = "done" => req'[k] = "done"
      BY <3>1 DEF TypeInv, TypeOK
    <3>3. QED
      BY <3>1, <3>2, CustodyFrame
  <2>3. QED
    BY <2>1, <2>2
<1>3. ASSUME NEW p \in Printers, WorkerStep(p)
      PROVE  Custody'
  <2>1. CASE \/ Delivered(p) \/ Spooled(p) \/ LateReturn(p)
             \/ \E err \in {"absent", "NOT_PRINTED", "UNKNOWN"} : SubmitErr(p, err)
    BY <2>1, CustodyCallEnds DEF Delivered, Spooled, LateReturn, SubmitErr
  <2>2. QED
    BY <1>3, <2>1, CustodyTake, CustodyWorkerStops, CustodyClaim, CustodyStartCall,
       CustodyTimeout DEF WorkerStep
<1>4. ASSUME NEW j \in Jobs, MonitorStep(j) \/ SpoolMoves(j)
      PROVE  Custody'
  BY <1>4, CustodyFrame
     DEF MonitorStep, MonitorPoll, MonitorStops, MonitorSeesGone, MonitorApply, SpoolMoves
<1>5. ASSUME NEW c \in Callers, CancelStep(c)
      PROVE  Custody'
  BY <1>5, CustodyFrame
     DEF CancelStep, CancelBegins, CancelDrops, CancelAnnounces, CancelCalls,
         CancelSettles, CancelUnmarks, CancelAbandoned
<1>6. CASE ProcessStep
  <2>1. CASE Exit \/ Crash
    BY <2>1, CustodyProcessEnds DEF Exit, Crash
  <2>2. CASE ~(Exit \/ Crash)
    BY <1>6, <2>2, CustodyFrame
       DEF ProcessStep, StopBegins, StopCollects, StopDrains, Restart, Started,
           StopFails, Resume, Reconcile, Purge
  <2>3. QED
    BY <2>1, <2>2
<1>7. QED
  BY <1>1, <1>2, <1>3, <1>4, <1>5, <1>6, CustodyHandOver DEF Next

\* Where a job is and what was done with it, in every run of the engine.
THEOREM CustodyHolds == Spec => []Custody
<1>1. Init => TypeInv /\ TodoStored /\ Custody
  BY TypeInit, CustodyInit DEF Init, TodoStored
<1>2. /\ TypeInv /\ TodoStored /\ Custody /\ [Next]_vars
      => TypeInv' /\ TodoStored' /\ Custody'
  BY TypeStep, TodoStoredStep, CustodyStep
<1>3. QED
  BY <1>1, <1>2, PTL DEF Spec

\* ADR 0003, for any number of jobs, printers, clients, crashes, failing writes
\* and shutdowns: the bytes of one job are handed over at most once.
THEOREM NeverPrintsTwice == Spec => []AtMostOnce
<1>1. Custody => AtMostOnce
  BY DEF Custody
<1>2. QED
  BY <1>1, CustodyHolds, PTL

\* Two provider calls never write to one printer at the same time: the worker
\* waits for a call that outlived its timeout before it starts another.
THEOREM OneWriter == Spec => []OneWriterPerPrinter
<1>1. Custody => OneWriterPerPrinter
  BY DEF Custody, CallCustody, OneWriterPerPrinter
<1>2. QED
  BY <1>1, CustodyHolds, PTL

-----------------------------------------------------------------------------
(* Reports: the invariant.                                                 *)

\* The worker has claimed the job and is not done with it.
Claimed(j) ==
  /\ wjob[PrinterOf[j]] = j
  /\ wpc[PrinterOf[j]] \in {"claimed", "waiting", "late"}

\* What a record says is true when the job's bytes were handed over `sent`
\* times and its worker still holds it or not.
TrueReport(job, j, sent, held) ==
  /\ job.delivery = "SPOOLER_ACCEPTED" => sent = 1 /\ PrinterOf[j] \in SpoolPrinters
  /\ job.delivery = "DEVICE_DELIVERED" => sent = 1 /\ PrinterOf[j] \notin SpoolPrinters
  /\ job.status = "COMPLETED" =>
       /\ sent = 1 /\ ~held
       /\ (job.completion = "BYTES_DELIVERED") <=> (PrinterOf[j] \notin SpoolPrinters)
  /\ job.status = "CANCELLED" =>
       /\ ~held
       /\ job.delivery = "REQUEST_ACCEPTED" => sent = 0
       /\ job.delivery # "REQUEST_ACCEPTED" => sent = 1
  /\ job.status = "FAILED" /\ job.error = "absent" /\ job.delivery = "REQUEST_ACCEPTED" =>
       sent = 0 /\ ~held

\* The copy in memory is unsettled, and its delivery stage keeps up with the
\* worker and the monitor: the stage is what cancel decides on.
KeepsUp(job, sent, held, watched) ==
  /\ ~IsTerminal(job)
  /\ held => job.delivery = "SUBMITTING"
  /\ sent = 1 => job.delivery # "REQUEST_ACCEPTED"
  /\ watched => job.delivery = "SPOOLER_ACCEPTED"

RecordOf(j) ==
  /\ Stored(j) => TrueReport(repo[j], j, handed[j], Claimed(j))
  /\ Active(j) =>
       /\ TrueReport(active[j], j, handed[j], Claimed(j))
       /\ KeepsUp(active[j], handed[j], Claimed(j), monitor[j] # "off")
       /\ Stored(j) /\ ~IsTerminal(repo[j])
       /\ phase # "down"
  /\ req[j] = "new" => ~Stored(j)
  /\ monitor[j] # "off" => handed[j] = 1 /\ PrinterOf[j] \in SpoolPrinters
  /\ Claimed(j) => Running
  /\ phase = "starting" /\ j \in todo =>
       ~Active(j) /\ Stored(j) /\ ~IsTerminal(repo[j])

\* A cancellation that found its job in the spooler still does.
CancelOf(c) ==
  cpc[c] # "idle" =>
    /\ Running
    /\ req[cjob[c]] # "new"
    /\ cpc[c] \in {"resolve", "announced", "ok"} /\ Active(cjob[c]) =>
         active[cjob[c]].delivery = "SPOOLER_ACCEPTED"

RecordsAgree == \A j \in Jobs : RecordOf(j)

CancelsAgree == \A c \in Callers : CancelOf(c)

-----------------------------------------------------------------------------
(* What the job operations do to an unsettled record.                      *)

LEMMA TransitionEffect ==
  ASSUME NEW job \in JobRecord, ~IsTerminal(job), NEW next \in Statuses
  PROVE  LET t == Transition(job, next) IN
         /\ t.delivery = job.delivery
         /\ t.completion = job.completion
         /\ t.error = job.error
         /\ t.status \in {job.status, next}
         /\ next \in {"FAILED", "CANCELLED"} => t.status = next
BY DEF Transition, CanTransition, JobRecord, Statuses, Terminal, IsTerminal

LEMMA FailEffect ==
  ASSUME NEW job \in JobRecord, ~IsTerminal(job), NEW err \in Errors
  PROVE  LET f == Fail(job, err) IN
         /\ f.delivery = job.delivery
         /\ f.completion = job.completion
         /\ f.status = "FAILED"
         /\ f.error = err
<1>1. CanTransition(job.status, "FAILED")
  BY DEF CanTransition, IsTerminal
<1>2. Transition(job, "FAILED") =
        [job EXCEPT !.status = "FAILED", !.condition = FALSE]
  BY <1>1 DEF Transition, Terminal
<1>3. QED
  BY <1>1, <1>2 DEF Fail, JobRecord

LEMMA CompleteEffect ==
  ASSUME NEW job \in JobRecord, ~IsTerminal(job), NEW evidence \in Evidence
  PROVE  LET d == Complete(job, evidence) IN
         /\ d.delivery = job.delivery
         /\ \/ d = job /\ job.status \notin {"QUEUED", "PRINTING"}
            \/ /\ job.status \in {"QUEUED", "PRINTING"}
               /\ d.status = "COMPLETED"
               /\ d.completion = evidence
<1>1. CASE CanTransition(job.status, "COMPLETED")
  <2>1. Transition(job, "COMPLETED") =
          [job EXCEPT !.status = "COMPLETED", !.condition = FALSE]
    BY <1>1 DEF Transition, Terminal
  <2>2. job.status \in {"QUEUED", "PRINTING"}
    BY <1>1 DEF CanTransition, IsTerminal, Terminal
  <2>3. QED
    BY <1>1, <2>1, <2>2 DEF Complete, JobRecord
<1>2. CASE ~CanTransition(job.status, "COMPLETED")
  BY <1>2 DEF Complete, CanTransition, IsTerminal, Terminal
<1>3. QED
  BY <1>1, <1>2

LEMMA ObservedEffect ==
  ASSUME NEW job \in JobRecord, ~IsTerminal(job), NEW state \in Applicable
  PROVE  LET o == Observed(job, state) IN
         /\ o.delivery = job.delivery
         /\ \/ ~IsTerminal(o) /\ o.completion = job.completion
            \/ /\ o.status = "COMPLETED"
               /\ \/ o.completion = "SPOOLER_REPORTED_PRINTED"
                  \/ o.completion = "SPOOLER_JOB_RETIRED" /\ state = "Retired"
            \/ /\ o.status = "FAILED" /\ o.error = "absent"
               /\ o.completion = job.completion
            \/ o.status = "CANCELLED" /\ o.completion = job.completion
<1> DEFINE clear == [job EXCEPT !.condition = FALSE]
<1>1. /\ clear \in JobRecord /\ clear.status = job.status
      /\ clear.delivery = job.delivery /\ clear.completion = job.completion
  BY DEF JobRecord
<1>2. CASE state = "Pending"
  BY <1>1, <1>2 DEF Observed, IsTerminal
<1>3. CASE state = "Printing"
  <2>1. LET t == Transition(clear, "PRINTING") IN
        /\ t.delivery = job.delivery /\ t.completion = job.completion
        /\ t.status \in {job.status, "PRINTING"}
    BY <1>1, TransitionEffect DEF Statuses, Terminal, IsTerminal
  <2>2. Observed(job, state) \in {clear, Transition(clear, "PRINTING")}
    BY <1>3 DEF Observed
  <2> HIDE DEF clear
  <2>3. QED
    BY <1>1, <2>1, <2>2 DEF IsTerminal, Terminal
<1>4. CASE state = "Blocked"
  BY <1>4 DEF Observed, IsTerminal, JobRecord
<1>5. CASE state = "Printed"
  BY <1>5, CompleteEffect DEF Observed, Evidence
<1>6. CASE state = "Retired"
  BY <1>6, CompleteEffect DEF Observed, Evidence
<1>7. CASE state = "Failed"
  BY <1>7, FailEffect DEF Observed, Errors
<1>8. CASE state \in {"Cancelled", "Deleted"}
  BY <1>8, TransitionEffect DEF Observed, Statuses, Terminal
<1>9. QED
  BY <1>2, <1>3, <1>4, <1>5, <1>6, <1>7, <1>8 DEF Applicable, ProviderJobState

LEMMA SettledEffect ==
  ASSUME NEW job \in JobRecord, ~IsTerminal(job)
  PROVE  LET s == Settled(job) IN
         /\ s.delivery = job.delivery
         /\ \/ s = job /\ job.delivery = "DEVICE_DELIVERED"
            \/ /\ s.status = "COMPLETED" /\ s.completion = "BYTES_DELIVERED"
               /\ job.delivery = "DEVICE_DELIVERED"
            \/ /\ s.status = "FAILED" /\ s.error = "NOT_PRINTED"
               /\ job.delivery = "REQUEST_ACCEPTED"
            \/ /\ s.status = "FAILED" /\ s.error = "UNKNOWN"
               /\ job.delivery \in {"SUBMITTING", "SPOOLER_ACCEPTED"}
<1>1. CASE job.delivery = "REQUEST_ACCEPTED"
  <2>1. Settled(job) = Fail(job, "NOT_PRINTED")
    BY <1>1 DEF Settled
  <2>2. QED
    BY <1>1, <2>1, FailEffect DEF Errors
<1>2. CASE job.delivery = "DEVICE_DELIVERED"
  <2>1. Settled(job) = Complete(job, "BYTES_DELIVERED")
    BY <1>2 DEF Settled
  <2>2. QED
    BY <1>2, <2>1, CompleteEffect DEF Evidence
<1>3. CASE job.delivery \in {"SUBMITTING", "SPOOLER_ACCEPTED"}
  <2>1. Settled(job) = Fail(job, "UNKNOWN")
    BY <1>3 DEF Settled
  <2>2. QED
    BY <1>3, <2>1, FailEffect DEF Errors
<1>4. QED
  BY <1>1, <1>2, <1>3 DEF JobRecord, Deliveries

-----------------------------------------------------------------------------
(* What a step does to the records.                                        *)

\* Inner::mutate touches one job, and that one only if it is in memory.
LEMMA MutateEffect ==
  ASSUME TypeInv, NEW j \in Jobs, NEW after, Mutate(j, after)
  PROVE  /\ \A k \in Jobs \ {j} : active'[k] = active[k] /\ repo'[k] = repo[k]
         /\ ~Active(j) => active'[j] = active[j] /\ repo'[j] = repo[j]
         /\ Active(j) =>
              /\ active'[j] = IF IsTerminal(after) THEN Absent ELSE after
              /\ \/ repo'[j] = after
                 \/ repo'[j] = repo[j] /\ (active[j] = after \/ MaxFaults # 0)
BY ConstantsAssumption DEF TypeInv, TypeOK, Mutate, Persist, storeVars

LEMMA RecordFrame ==
  ASSUME NEW k \in Jobs, RecordOf(k),
         active'[k] = active[k], repo'[k] = repo[k], handed'[k] = handed[k],
         req'[k] = "new" => req[k] = "new",
         monitor'[k] # "off" => monitor[k] # "off",
         Claimed(k)' => Claimed(k) /\ Running',
         phase' = "down" => phase = "down",
         phase' = "starting" /\ k \in todo' => phase = "starting" /\ k \in todo
  PROVE  RecordOf(k)'
<1>1. (Stored(k)' <=> Stored(k)) /\ (Active(k)' <=> Active(k))
  BY DEF Stored, Active
<1> HIDE DEF Claimed
<1>2. QED
  BY <1>1 DEF RecordOf, TrueReport, KeepsUp

LEMMA AbsentIsNoRecord == \A r \in JobRecord : r # Absent
BY DEF JobRecord, Absent, Statuses, Terminal

LEMMA RecordMutate ==
  ASSUME TypeInv, NEW j \in Jobs, RecordOf(j), NEW after, Mutate(j, after),
         Active(j) =>
           /\ after \in JobRecord
           /\ TrueReport(after, j, handed[j], Claimed(j)')
           /\ ~IsTerminal(after) =>
                KeepsUp(after, handed[j], Claimed(j)', monitor'[j] # "off"),
         ~Active(j) => (Claimed(j)' => Claimed(j)),
         monitor'[j] # "off" => handed[j] = 1 /\ PrinterOf[j] \in SpoolPrinters,
         Claimed(j)' => Running',
         handed'[j] = handed[j], req'[j] = "new" => req[j] = "new",
         phase' = phase, phase = "starting" => todo' = todo
  PROVE  RecordOf(j)'
<1>1. CASE ~Active(j)
  <2>1. active'[j] = active[j] /\ repo'[j] = repo[j]
    BY <1>1, MutateEffect
  <2>2. ~Active(j)' /\ (Stored(j)' <=> Stored(j))
    BY <1>1, <2>1 DEF Active, Stored
  <2>3. QED
    BY <1>1, <2>1, <2>2 DEF RecordOf, TrueReport
<1>2. CASE Active(j)
  <2>1. /\ active'[j] = IF IsTerminal(after) THEN Absent ELSE after
        /\ repo'[j] = after \/ repo'[j] = repo[j]
    BY <1>2, MutateEffect
  <2>2. after \in JobRecord /\ after # Absent /\ repo[j] # Absent
    BY <1>2, AbsentIsNoRecord DEF RecordOf, Stored
  <2>3. Stored(j)' /\ (Active(j)' <=> ~IsTerminal(after))
    BY <2>1, <2>2 DEF Stored, Active
  <2>4. TrueReport(repo[j], j, handed[j], Claimed(j)')
    <3>1. TrueReport(repo[j], j, handed[j], Claimed(j)) /\ ~IsTerminal(repo[j])
      BY <1>2 DEF RecordOf
    <3>2. QED
      BY <3>1 DEF TrueReport, IsTerminal, Terminal
  <2>5. TrueReport(repo'[j], j, handed'[j], Claimed(j)')
    BY <1>2, <2>1, <2>4
  <2>6. ~IsTerminal(after) =>
          /\ active'[j] = after
          /\ TrueReport(active'[j], j, handed'[j], Claimed(j)')
          /\ KeepsUp(active'[j], handed'[j], Claimed(j)', monitor'[j] # "off")
          /\ repo'[j] = after \/ repo'[j] = repo[j]
    BY <1>2, <2>1
  <2>7. ~IsTerminal(after) => ~IsTerminal(repo'[j])
    BY <1>2, <2>6 DEF RecordOf
  <2>8. phase # "down" /\ ~(phase = "starting" /\ j \in todo)
        /\ req'[j] # "new"
    BY <1>2 DEF RecordOf
  <2>9. QED
    BY <2>3, <2>5, <2>6, <2>7, <2>8 DEF RecordOf
<1>3. QED
  BY <1>1, <1>2

-----------------------------------------------------------------------------
(* Steps of the specification.                                             *)

\* Steps that change no record and hand nothing over.
LEMMA RecordsQuiet ==
  ASSUME RecordsAgree, UNCHANGED <<active, repo, handed, phase, todo>>,
         \A k \in Jobs : req'[k] = "new" => req[k] = "new",
         \A k \in Jobs : monitor'[k] # "off" => monitor[k] # "off",
         \A k \in Jobs : Claimed(k)' => Claimed(k)
  PROVE  RecordsAgree'
<1> SUFFICES ASSUME NEW k \in Jobs
             PROVE  RecordOf(k)'
  BY DEF RecordsAgree
<1>1. RecordOf(k)
  BY DEF RecordsAgree
<1>2. Claimed(k)' => Claimed(k) /\ Running'
  BY <1>1 DEF RecordOf, Running
<1>3. QED
  BY <1>1, <1>2, RecordFrame

\* Steps that mutate one job and leave the others alone.
LEMMA RecordsMutate ==
  ASSUME TypeInv, RecordsAgree, NEW j \in Jobs, NEW after, Mutate(j, after),
         Active(j) =>
           /\ after \in JobRecord
           /\ TrueReport(after, j, handed[j], Claimed(j)')
           /\ ~IsTerminal(after) =>
                KeepsUp(after, handed[j], Claimed(j)', monitor'[j] # "off"),
         ~Active(j) => (Claimed(j)' => Claimed(j)),
         monitor'[j] # "off" => handed[j] = 1 /\ PrinterOf[j] \in SpoolPrinters,
         Claimed(j)' => Running',
         UNCHANGED <<handed, phase>>,
         phase = "starting" => todo' = todo,
         \A k \in Jobs : req'[k] = "new" => req[k] = "new",
         \A k \in Jobs \ {j} : monitor'[k] # "off" => monitor[k] # "off",
         \A k \in Jobs \ {j} : Claimed(k)' => Claimed(k)
  PROVE  RecordsAgree'
<1>1. RecordOf(j)'
  BY RecordMutate DEF RecordsAgree
<1>2. ASSUME NEW k \in Jobs \ {j}
      PROVE  RecordOf(k)'
  <2>1. active'[k] = active[k] /\ repo'[k] = repo[k]
    BY MutateEffect
  <2>2. RecordOf(k)
    BY DEF RecordsAgree
  <2>3. Claimed(k)' => Claimed(k) /\ Running'
    BY <2>2 DEF RecordOf, Running
  <2>4. QED
    BY <2>1, <2>2, <2>3, RecordFrame
<1>3. QED
  BY <1>1, <1>2 DEF RecordsAgree

\* What is known of a job in memory.
LEMMA ActiveFacts ==
  ASSUME TypeInv, RecordsAgree, NEW j \in Jobs, Active(j)
  PROVE  /\ active[j] \in JobRecord
         /\ ~IsTerminal(active[j])
         /\ TrueReport(active[j], j, handed[j], Claimed(j))
         /\ KeepsUp(active[j], handed[j], Claimed(j), monitor[j] # "off")
BY AfterTypes DEF TypeInv, RecordsAgree, RecordOf, KeepsUp

LEMMA ClaimedFrame ==
  ASSUME UNCHANGED <<wpc, wjob>>
  PROVE  \A k \in Jobs : Claimed(k)' <=> Claimed(k)
BY DEF Claimed

LEMMA SubmitKeepsClaims ==
  ASSUME TypeInv, NEW j \in Jobs, SubmitStep(j)
  PROVE  \A k \in Jobs : Claimed(k)' <=> Claimed(k)
<1>1. CASE Send(j)
  <2>1. \A p \in Printers : \/ wpc'[p] = wpc[p]
                            \/ wpc[p] = "none" /\ wpc'[p] = "idle"
    BY <1>1 DEF Send, TypeInv, TypeOK
  <2>2. wjob' = wjob
    BY <1>1 DEF Send
  <2>3. QED
    BY <2>1, <2>2, ConstantsAssumption DEF Claimed
<1>2. CASE ~Send(j)
  <2>1. UNCHANGED <<wpc, wjob>>
    BY <1>2 DEF SubmitStep, Submit, SubmitDuplicate, Validate, PrepareFails, Abandon,
       Reserve, MarkQueued, SendFails, SubmitFails, workerVars
  <2>2. QED
    BY <2>1, ClaimedFrame
<1>3. QED
  BY <1>1, <1>2

LEMMA RecordsSubmit ==
  ASSUME TypeInv, Custody, RecordsAgree, NEW j \in Jobs, SubmitStep(j)
  PROVE  RecordsAgree'
<1>1. \A k \in Jobs \ {j} : req'[k] = req[k]
  BY DEF SubmitStep, Submit, SubmitDuplicate, Validate, PrepareFails, Abandon, Reserve,
     MarkQueued, Send, SendFails, SubmitFails, TypeInv, TypeOK
<1>2. req'[j] # "new"
  BY DEF SubmitStep, Submit, SubmitDuplicate, Validate, PrepareFails, Abandon, Reserve,
     MarkQueued, Send, SendFails, SubmitFails, TypeInv, TypeOK
<1>3. UNCHANGED <<handed, phase, todo, monitor>> /\ Running
  BY DEF SubmitStep, Submit, SubmitDuplicate, Validate, PrepareFails, Abandon, Reserve,
     MarkQueued, Send, SendFails, SubmitFails, deviceVars, procVars
<1>4. \A k \in Jobs : Claimed(k)' <=> Claimed(k)
  BY SubmitKeepsClaims
<1>5. CASE \/ SubmitDuplicate(j) \/ PrepareFails(j) \/ Abandon(j) \/ Reserve(j)
           \/ Send(j) \/ SendFails(j)
  <2>1. UNCHANGED <<active, repo>>
    BY <1>5 DEF SubmitDuplicate, PrepareFails, Abandon, Reserve, Send, SendFails,
       storeVars
  <2>2. QED
    BY <1>1, <1>2, <1>3, <1>4, <2>1, RecordsQuiet
<1>6. ASSUME NEW after, Mutate(j, after), req[j] # "done",
             Active(j) =>
               /\ after \in JobRecord /\ after.delivery = active[j].delivery
               /\ \/ ~IsTerminal(after)
                  \/ after.status = "FAILED"
      PROVE  RecordsAgree'
  <2>1. handed[j] = 0
    BY <1>6 DEF Custody, RequestCustody
  <2>2. ~Claimed(j)
    <3>1. PrinterOf[j] \in Printers
      BY ConstantsAssumption
    <3>2. QED
      BY <1>6, <3>1 DEF Claimed, Custody, WorkerCustody
  <2>3. RecordOf(j)
    BY DEF RecordsAgree
  <2>4. Active(j) =>
          /\ after \in JobRecord
          /\ TrueReport(after, j, handed[j], Claimed(j)')
          /\ ~IsTerminal(after) =>
               KeepsUp(after, handed[j], Claimed(j)', monitor'[j] # "off")
    <3> SUFFICES ASSUME Active(j)
                 PROVE  /\ after \in JobRecord
                        /\ TrueReport(after, j, handed[j], FALSE)
                        /\ ~IsTerminal(after) =>
                             KeepsUp(after, handed[j], FALSE, monitor[j] # "off")
      BY <1>3, <1>4, <2>2 DEF TrueReport, KeepsUp
    <3>1. /\ TrueReport(active[j], j, handed[j], Claimed(j))
          /\ KeepsUp(active[j], handed[j], Claimed(j), monitor[j] # "off")
      BY ActiveFacts
    <3>2. QED
      BY <1>6, <2>1, <3>1 DEF TrueReport, KeepsUp, IsTerminal, Terminal
  <2>5. monitor'[j] # "off" => handed[j] = 1 /\ PrinterOf[j] \in SpoolPrinters
    BY <1>3, <2>3 DEF RecordOf
  <2>6. QED
    BY <1>1, <1>2, <1>3, <1>4, <1>6, <2>2, <2>4, <2>5, RecordsMutate DEF Running
<1>7. CASE Validate(j)
  <2>1. Active(j) => /\ Transition(active[j], "VALIDATING") \in JobRecord
                     /\ Transition(active[j], "VALIDATING").delivery = active[j].delivery
                     /\ ~IsTerminal(Transition(active[j], "VALIDATING"))
    BY ActiveFacts, TransitionType, TransitionEffect DEF Statuses, IsTerminal, Terminal
  <2>2. QED
    BY <1>6, <1>7, <2>1 DEF Validate
<1>8. CASE MarkQueued(j)
  <2>1. Active(j) => /\ Transition(active[j], "QUEUED") \in JobRecord
                     /\ Transition(active[j], "QUEUED").delivery = active[j].delivery
                     /\ ~IsTerminal(Transition(active[j], "QUEUED"))
    BY ActiveFacts, TransitionType, TransitionEffect DEF Statuses, IsTerminal, Terminal
  <2>2. QED
    BY <1>6, <1>8, <2>1 DEF MarkQueued
<1>9. CASE SubmitFails(j)
  <2>1. Active(j) => /\ Fail(active[j], "absent") \in JobRecord
                     /\ Fail(active[j], "absent").delivery = active[j].delivery
                     /\ Fail(active[j], "absent").status = "FAILED"
    BY ActiveFacts, FailType, FailEffect DEF Errors
  <2>2. QED
    BY <1>6, <1>9, <2>1 DEF SubmitFails
<1>10. CASE Submit(j)
  <2>1. /\ req[j] = "new"
        /\ \/ /\ repo' = [repo EXCEPT ![j] = NewJob]
              /\ active' = [active EXCEPT ![j] = NewJob]
           \/ UNCHANGED <<active, repo>>
    BY <1>10 DEF Submit
  <2>2. handed[j] = 0 /\ ~Claimed(j)
    BY <2>1, ConstantsAssumption DEF Claimed, Custody, WorkerCustody, RequestCustody
  <2>3. CASE UNCHANGED <<active, repo>>
    BY <1>1, <1>2, <1>3, <1>4, <2>3, RecordsQuiet
  <2>4. CASE /\ repo' = [repo EXCEPT ![j] = NewJob]
             /\ active' = [active EXCEPT ![j] = NewJob]
    <3>1. active'[j] = NewJob /\ repo'[j] = NewJob
      BY <2>4 DEF TypeInv, TypeOK
    <3>2. NewJob # Absent
      BY NewJobType, AbsentIsNoRecord
    <3>3. RecordOf(j)'
      <4>1. Active(j)' /\ Stored(j)'
        BY <3>1, <3>2 DEF Active, Stored
      <4>2. ~Claimed(j)' /\ handed'[j] = 0 /\ Running'
        BY <1>3, <1>4, <2>2 DEF Running
      <4>3. TrueReport(NewJob, j, 0, FALSE) /\ ~IsTerminal(NewJob)
        BY DEF TrueReport, NewJob, IsTerminal, Terminal
      <4>4. monitor'[j] = "off"
        BY <1>3, <2>2 DEF RecordsAgree, RecordOf
      <4>5. TrueReport(NewJob, j, handed'[j], Claimed(j)')
        BY <4>2, <4>3 DEF TrueReport
      <4>6. KeepsUp(NewJob, handed'[j], Claimed(j)', monitor'[j] # "off")
        BY <4>2, <4>3, <4>4 DEF KeepsUp
      <4>7. QED
        BY <1>2, <3>1, <4>1, <4>2, <4>3, <4>4, <4>5, <4>6 DEF RecordOf, Running
    <3>4. ASSUME NEW k \in Jobs \ {j}
          PROVE  RecordOf(k)'
      <4>1. active'[k] = active[k] /\ repo'[k] = repo[k]
        BY <2>4 DEF TypeInv, TypeOK
      <4>2. RecordOf(k) /\ Running'
        BY <1>3 DEF RecordsAgree, Running
      <4>3. QED
        BY <1>1, <1>3, <1>4, <4>1, <4>2, RecordFrame
    <3>5. QED
      BY <3>3, <3>4 DEF RecordsAgree
  <2>5. QED
    BY <2>1, <2>3, <2>4
<1>11. QED
  BY <1>5, <1>7, <1>8, <1>9, <1>10 DEF SubmitStep

\* The worker turns away from its job.
LEMMA ClaimedEnds ==
  ASSUME NEW p \in Printers, TypeInv, wjob' = [wjob EXCEPT ![p] = NoJob],
         \E s \in WorkerSteps : wpc' = [wpc EXCEPT ![p] = s]
  PROVE  \A k \in Jobs : Claimed(k)' => Claimed(k) /\ PrinterOf[k] # p
BY ConstantsAssumption, NoJobAssumption DEF Claimed, TypeInv, TypeOK

LEMMA RecordsWorker ==
  ASSUME TypeInv, Custody, RecordsAgree, NEW p \in Printers, WorkerStep(p)
  PROVE  RecordsAgree'
<1>0. PICK j : j = wjob[p]
  OBVIOUS
<1>1. UNCHANGED <<handed, phase, todo, req>> /\ Running
  BY DEF WorkerStep, TakeJob, WorkerStops, Claim, StartCall, Delivered, Spooled,
     SubmitErr, SubmitTimeout, LateReturn, CallEnds, deviceVars, procVars, Running, Stopping
<1>2. wpc[p] \in {"taken", "claimed", "waiting", "late"} =>
        j \in Jobs /\ PrinterOf[j] = p
  BY <1>0 DEF TypeInv, SlotsFilled, WorkerSteps, Custody, WorkerCustody
<1>3. Running'
  BY <1>1 DEF Running
<1>4. CASE TakeJob(p) \/ WorkerStops(p) \/ StartCall(p)
  <2>1. \A k \in Jobs : Claimed(k)' => Claimed(k)
    BY <1>4, ConstantsAssumption
       DEF TakeJob, WorkerStops, StartCall, Claimed, TypeInv, TypeOK
  <2>2. UNCHANGED <<active, repo, monitor>>
    BY <1>4 DEF TakeJob, WorkerStops, StartCall, storeVars
  <2>3. QED
    BY <1>1, <2>1, <2>2, RecordsQuiet
<1>5. CASE Claim(p)
  <2> DEFINE after == [active[j] EXCEPT !.delivery = "SUBMITTING"]
  <2>1. /\ wpc[p] = "taken" /\ UNCHANGED monitor /\ Mutate(j, after)
        /\ \/ Active(j) /\ wpc' = [wpc EXCEPT ![p] = "claimed"] /\ wjob' = wjob
           \/ /\ ~Active(j) /\ wpc' = [wpc EXCEPT ![p] = "idle"]
              /\ wjob' = [wjob EXCEPT ![p] = NoJob]
    BY <1>0, <1>5 DEF Claim
  <2>2. j \in Jobs /\ PrinterOf[j] = p /\ handed[j] = 0
    BY <1>0, <1>2, <2>1 DEF Custody, WorkerCustody
  <2>3. \A k \in Jobs \ {j} : Claimed(k)' => Claimed(k)
    BY <1>0, <2>1, <2>2, ConstantsAssumption DEF Claimed, TypeInv, TypeOK
  <2>4. ~Active(j) => (Claimed(j)' => Claimed(j))
    BY <2>1, <2>2, NoJobAssumption DEF Claimed, TypeInv, TypeOK
  <2>5. monitor'[j] = "off"
    BY <2>1, <2>2 DEF RecordsAgree, RecordOf
  <2>6. Active(j) =>
          /\ after \in JobRecord
          /\ after.delivery = "SUBMITTING" /\ after.status = active[j].status
          /\ ~IsTerminal(active[j])
    BY <2>2, ActiveFacts DEF JobRecord, Deliveries
  <2> HIDE DEF after
  <2>7. Active(j) =>
          /\ TrueReport(after, j, handed[j], Claimed(j)')
          /\ KeepsUp(after, handed[j], Claimed(j)', monitor'[j] # "off")
    BY <2>2, <2>5, <2>6 DEF TrueReport, KeepsUp, IsTerminal, Terminal
  <2>8. QED
    BY <1>1, <1>3, <2>1, <2>2, <2>3, <2>4, <2>5, <2>6, <2>7, RecordsMutate
<1>6. ASSUME NEW after, Mutate(j, after), wpc[p] \in {"waiting", "late"},
             wjob' = [wjob EXCEPT ![p] = NoJob], wpc' = [wpc EXCEPT ![p] = "idle"],
             Active(j) =>
               /\ after \in JobRecord
               /\ TrueReport(after, j, handed[j], FALSE)
               /\ ~IsTerminal(after) =>
                    KeepsUp(after, handed[j], FALSE, monitor'[j] # "off"),
             monitor'[j] # "off" => handed[j] = 1 /\ PrinterOf[j] \in SpoolPrinters,
             \A k \in Jobs \ {j} : monitor'[k] = monitor[k]
      PROVE  RecordsAgree'
  <2>1. j \in Jobs /\ PrinterOf[j] = p
    BY <1>2, <1>6
  <2>2. \A k \in Jobs : Claimed(k)' => Claimed(k) /\ PrinterOf[k] # p
    BY <1>6, ClaimedEnds DEF WorkerSteps
  <2>3. ~Claimed(j)'
    BY <2>1, <2>2
  <2>4. Active(j) =>
          /\ TrueReport(after, j, handed[j], Claimed(j)')
          /\ ~IsTerminal(after) =>
               KeepsUp(after, handed[j], Claimed(j)', monitor'[j] # "off")
    BY <1>6, <2>3 DEF TrueReport, KeepsUp
  <2>5. QED
    BY <1>1, <1>3, <1>6, <2>1, <2>2, <2>3, <2>4, RecordsMutate
<1>7. CASE Delivered(p)
  <2> DEFINE sent == [active[j] EXCEPT !.delivery = "DEVICE_DELIVERED"]
             after == Complete(sent, "BYTES_DELIVERED")
  <2>1. /\ wpc[p] = "waiting" /\ call[j] = "wrote" /\ p \notin SpoolPrinters
        /\ Mutate(j, after) /\ UNCHANGED monitor
        /\ wjob' = [wjob EXCEPT ![p] = NoJob] /\ wpc' = [wpc EXCEPT ![p] = "idle"]
    BY <1>0, <1>7 DEF Delivered, CallEnds
  <2>2. j \in Jobs /\ PrinterOf[j] = p /\ handed[j] = 1
    BY <1>0, <1>2, <2>1 DEF Custody, WorkerCustody
  <2>3. monitor[j] = "off"
    BY <2>1, <2>2 DEF RecordsAgree, RecordOf
  <2>4. Active(j) => /\ sent \in JobRecord /\ ~IsTerminal(sent)
                     /\ sent.delivery = "DEVICE_DELIVERED"
    BY <2>2, ActiveFacts DEF JobRecord, Deliveries, IsTerminal
  <2>5. Active(j) =>
          /\ after \in JobRecord
          /\ after.delivery = "DEVICE_DELIVERED"
          /\ \/ ~IsTerminal(after)
             \/ after.status = "COMPLETED" /\ after.completion = "BYTES_DELIVERED"
    <3> HIDE DEF sent
    <3>1. QED
      BY <2>4, CompleteEffect, CompleteType DEF Evidence
  <2> HIDE DEF after
  <2>6. Active(j) => /\ TrueReport(after, j, handed[j], FALSE)
                     /\ ~IsTerminal(after) =>
                          KeepsUp(after, handed[j], FALSE, monitor'[j] # "off")
    BY <2>1, <2>2, <2>3, <2>5 DEF TrueReport, KeepsUp, IsTerminal, Terminal
  <2>7. QED
    BY <1>6, <2>1, <2>3, <2>5, <2>6
<1>8. CASE Spooled(p)
  <2> DEFINE after == [active[j] EXCEPT !.delivery = "SPOOLER_ACCEPTED"]
  <2>1. /\ wpc[p] = "waiting" /\ call[j] = "wrote" /\ p \in SpoolPrinters
        /\ Mutate(j, after) /\ monitor' = [monitor EXCEPT ![j] = "wait"]
        /\ wjob' = [wjob EXCEPT ![p] = NoJob] /\ wpc' = [wpc EXCEPT ![p] = "idle"]
    BY <1>0, <1>8 DEF Spooled, CallEnds
  <2>2. j \in Jobs /\ PrinterOf[j] = p /\ handed[j] = 1
    BY <1>0, <1>2, <2>1 DEF Custody, WorkerCustody
  <2>3. \A k \in Jobs \ {j} : monitor'[k] = monitor[k]
    BY <2>1 DEF TypeInv, TypeOK
  <2>4. Active(j) => /\ after \in JobRecord /\ ~IsTerminal(after)
                     /\ after.delivery = "SPOOLER_ACCEPTED"
    BY <2>2, ActiveFacts DEF JobRecord, Deliveries, IsTerminal
  <2> HIDE DEF after
  <2>5. Active(j) => /\ TrueReport(after, j, handed[j], FALSE)
                     /\ KeepsUp(after, handed[j], FALSE, monitor'[j] # "off")
    BY <2>1, <2>2, <2>4 DEF TrueReport, KeepsUp, IsTerminal, Terminal
  <2>6. QED
    BY <1>6, <2>1, <2>2, <2>3, <2>4, <2>5
<1>9. ASSUME NEW err \in {"absent", "NOT_PRINTED", "UNKNOWN"}, wpc[p] = "waiting"
      PROVE  Active(j) =>
               /\ Fail(active[j], err) \in JobRecord
               /\ IsTerminal(Fail(active[j], err))
               /\ TrueReport(Fail(active[j], err), j, handed[j], Claimed(j))
               /\ TrueReport(Fail(active[j], err), j, handed[j], FALSE)
  <2> SUFFICES ASSUME Active(j)
               PROVE  /\ Fail(active[j], err) \in JobRecord
                      /\ IsTerminal(Fail(active[j], err))
                      /\ TrueReport(Fail(active[j], err), j, handed[j], Claimed(j))
                      /\ TrueReport(Fail(active[j], err), j, handed[j], FALSE)
    OBVIOUS
  <2> DEFINE after == Fail(active[j], err)
  <2>1. j \in Jobs
    BY <1>2, <1>9
  <2>2. /\ active[j] \in JobRecord /\ ~IsTerminal(active[j])
        /\ TrueReport(active[j], j, handed[j], Claimed(j))
    BY <2>1, ActiveFacts
  <2>3. /\ after \in JobRecord /\ after.status = "FAILED" /\ after.error = err
        /\ after.delivery = active[j].delivery
    BY <2>2, FailEffect, FailType DEF Errors
  <2>a. active[j].delivery = "SUBMITTING"
    BY <1>0, <1>2, <1>9, <2>1, ActiveFacts DEF Claimed, KeepsUp
  <2> HIDE DEF after
  <2>4. IsTerminal(after) /\ TrueReport(after, j, handed[j], Claimed(j))
        /\ TrueReport(after, j, handed[j], FALSE)
    BY <2>2, <2>3, <2>a DEF TrueReport, IsTerminal, Terminal
  <2>5. QED
    BY <2>3, <2>4 DEF after
<1>10. ASSUME NEW err \in {"absent", "NOT_PRINTED", "UNKNOWN"}, SubmitErr(p, err)
       PROVE  RecordsAgree'
  <2>1. /\ wpc[p] = "waiting" /\ Mutate(j, Fail(active[j], err)) /\ UNCHANGED monitor
        /\ wjob' = [wjob EXCEPT ![p] = NoJob] /\ wpc' = [wpc EXCEPT ![p] = "idle"]
    BY <1>0, <1>10 DEF SubmitErr, CallEnds
  <2>2. monitor'[j] # "off" => handed[j] = 1 /\ PrinterOf[j] \in SpoolPrinters
    BY <1>2, <2>1 DEF RecordsAgree, RecordOf
  <2>3. QED
    BY <1>6, <1>9, <2>1, <2>2
<1>11. CASE SubmitTimeout(p)
  <2>1. /\ wpc[p] = "waiting" /\ Mutate(j, Fail(active[j], "UNKNOWN"))
        /\ UNCHANGED <<monitor, wjob>> /\ wpc' = [wpc EXCEPT ![p] = "late"]
    BY <1>0, <1>11 DEF SubmitTimeout
  <2>2. j \in Jobs
    BY <1>2, <2>1
  <2>3. \A k \in Jobs : Claimed(k)' <=> Claimed(k)
    BY <2>1, ConstantsAssumption DEF Claimed, TypeInv, TypeOK
  <2>4. monitor'[j] # "off" => handed[j] = 1 /\ PrinterOf[j] \in SpoolPrinters
    BY <2>1, <2>2 DEF RecordsAgree, RecordOf
  <2>5. Active(j) =>
          /\ Fail(active[j], "UNKNOWN") \in JobRecord
          /\ IsTerminal(Fail(active[j], "UNKNOWN"))
          /\ TrueReport(Fail(active[j], "UNKNOWN"), j, handed[j], Claimed(j)')
    BY <1>9, <2>1, <2>2, <2>3 DEF TrueReport
  <2>6. QED
    BY <1>1, <1>3, <2>1, <2>2, <2>3, <2>4, <2>5, RecordsMutate
<1>12. CASE LateReturn(p)
  <2>1. /\ UNCHANGED <<active, repo, monitor>> /\ wjob' = [wjob EXCEPT ![p] = NoJob]
        /\ wpc' = [wpc EXCEPT ![p] = "idle"]
    BY <1>12 DEF LateReturn, CallEnds, storeVars
  <2>2. \A k \in Jobs : Claimed(k)' => Claimed(k)
    BY <2>1, ClaimedEnds DEF WorkerSteps
  <2>3. QED
    BY <1>1, <2>1, <2>2, RecordsQuiet
<1>13. QED
  BY <1>4, <1>5, <1>7, <1>8, <1>10, <1>11, <1>12 DEF WorkerStep

LEMMA RecordsMonitor ==
  ASSUME TypeInv, RecordsAgree, NEW j \in Jobs, MonitorStep(j) \/ SpoolMoves(j)
  PROVE  RecordsAgree'
<1>1. /\ UNCHANGED <<handed, phase, todo, req, wpc, wjob>>
      /\ \A k \in Jobs \ {j} : monitor'[k] = monitor[k]
  BY DEF MonitorStep, MonitorPoll, MonitorStops, MonitorSeesGone, MonitorApply, SpoolMoves,
     deviceVars, procVars, workerVars, TypeInv, TypeOK
<1>2. \A k \in Jobs : Claimed(k)' <=> Claimed(k)
  BY <1>1, ClaimedFrame
<1>3. CASE MonitorPoll(j) \/ MonitorStops(j) \/ MonitorSeesGone(j) \/ SpoolMoves(j)
  <2>1. UNCHANGED <<active, repo>>
    BY <1>3 DEF MonitorPoll, MonitorStops, MonitorSeesGone, SpoolMoves, storeVars
  <2>2. monitor'[j] # "off" => monitor[j] # "off"
    BY <1>3 DEF MonitorPoll, MonitorStops, MonitorSeesGone, SpoolMoves, TypeInv, TypeOK
  <2>3. QED
    BY <1>1, <1>2, <2>1, <2>2, RecordsQuiet
<1>4. CASE MonitorApply(j)
  <2> DEFINE after == Observed(active[j], monitor[j])
  <2>1. /\ monitor[j] \in Applicable /\ Mutate(j, after)
    BY <1>4 DEF MonitorApply
  <2>2. monitor[j] # "off"
    BY <2>1 DEF Applicable, ProviderJobState
  <2>3. /\ handed[j] = 1 /\ PrinterOf[j] \in SpoolPrinters
        /\ Claimed(j) => Running
    BY <2>2 DEF RecordsAgree, RecordOf
  <2>4. Active(j) => /\ active[j] \in JobRecord /\ ~IsTerminal(active[j])
                     /\ active[j].delivery = "SPOOLER_ACCEPTED" /\ ~Claimed(j)
    BY <2>2, ActiveFacts DEF KeepsUp
  <2>5. Active(j) =>
          /\ after \in JobRecord /\ after.delivery = "SPOOLER_ACCEPTED"
          /\ \/ ~IsTerminal(after)
             \/ /\ after.status = "COMPLETED"
                /\ after.completion \in {"SPOOLER_REPORTED_PRINTED", "SPOOLER_JOB_RETIRED"}
             \/ after.status = "FAILED" /\ after.error = "absent"
             \/ after.status = "CANCELLED"
    BY <2>1, <2>4, ObservedType, ObservedEffect
  <2> HIDE DEF after
  <2>6. Active(j) =>
          /\ TrueReport(after, j, handed[j], Claimed(j)')
          /\ ~IsTerminal(after) =>
               KeepsUp(after, handed[j], Claimed(j)', monitor'[j] # "off")
    BY <1>2, <2>3, <2>4, <2>5 DEF TrueReport, KeepsUp, IsTerminal, Terminal
  <2>7. Claimed(j)' => Running'
    BY <1>1, <1>2, <2>3 DEF Running
  <2>8. QED
    BY <1>1, <1>2, <2>1, <2>3, <2>5, <2>6, <2>7, RecordsMutate
<1>5. QED
  BY <1>3, <1>4 DEF MonitorStep

LEMMA RecordsHandOver ==
  ASSUME TypeInv, Custody, RecordsAgree, NEW j \in Jobs, HandOver(j)
  PROVE  RecordsAgree'
<1>1. /\ call[j] = "running" /\ handed' = [handed EXCEPT ![j] = handed[j] + 1]
      /\ UNCHANGED <<active, repo, phase, todo, req, wpc, wjob, monitor>>
  BY DEF HandOver, storeVars, procVars, workerVars
<1>2. \A k \in Jobs : Claimed(k)' <=> Claimed(k)
  BY <1>1, ClaimedFrame
<1>3. Claimed(j) /\ handed[j] = 0
  BY <1>1, ConstantsAssumption DEF Claimed, Custody, CallCustody, WorkerCustody
<1>4. handed'[j] = 1 /\ \A k \in Jobs \ {j} : handed'[k] = handed[k]
  BY <1>1, <1>3 DEF TypeInv, TypeOK
<1>5. RecordOf(j) /\ Running
  BY <1>3 DEF RecordsAgree, RecordOf
<1>6. monitor[j] = "off"
  BY <1>3, <1>5 DEF RecordOf
<1>7. (Stored(j)' <=> Stored(j)) /\ (Active(j)' <=> Active(j)) /\ (Running' <=> Running)
  BY <1>1 DEF Stored, Active, Running
<1>8. Stored(j) => TrueReport(repo[j], j, 1, Claimed(j)')
  <2>1. Stored(j) => TrueReport(repo[j], j, 0, TRUE) /\ repo[j] \in JobRecord
    BY <1>3, <1>5 DEF RecordOf, TrueReport, Stored, TypeInv, TypeOK
  <2>2. QED
    BY <2>1 DEF TrueReport
<1>9. Active(j) => /\ TrueReport(active[j], j, 1, Claimed(j)')
                   /\ KeepsUp(active[j], 1, Claimed(j)', FALSE)
  <2>1. Active(j) => /\ TrueReport(active[j], j, 0, TRUE)
                     /\ ~IsTerminal(active[j]) /\ active[j].delivery = "SUBMITTING"
    BY <1>3, ActiveFacts DEF TrueReport, KeepsUp
  <2>2. QED
    BY <2>1 DEF TrueReport, KeepsUp
<1>10. RecordOf(j)'
  <2>1. Active(j)' => KeepsUp(active'[j], handed'[j], Claimed(j)', monitor'[j] # "off")
    BY <1>1, <1>4, <1>6, <1>7, <1>9 DEF KeepsUp
  <2>2. QED
    BY <1>1, <1>4, <1>5, <1>6, <1>7, <1>8, <1>9, <2>1 DEF RecordOf
<1>11. ASSUME NEW k \in Jobs \ {j}
       PROVE  RecordOf(k)'
  <2>1. RecordOf(k) /\ Running'
    BY <1>5, <1>7 DEF RecordsAgree
  <2>2. QED
    BY <1>1, <1>2, <1>4, <2>1, RecordFrame
<1>12. QED
  BY <1>10, <1>11 DEF RecordsAgree

LEMMA RecordsCancel ==
  ASSUME TypeInv, Custody, RecordsAgree, CancelsAgree, NEW c \in Callers, CancelStep(c)
  PROVE  RecordsAgree'
<1>1. UNCHANGED <<handed, phase, todo, req, wpc, wjob, monitor>>
  BY DEF CancelStep, CancelBegins, CancelDrops, CancelAnnounces, CancelCalls,
     CancelSettles, CancelUnmarks, CancelAbandoned, deviceVars, procVars, workerVars
<1>2. \A k \in Jobs : Claimed(k)' <=> Claimed(k)
  BY <1>1, ClaimedFrame
<1>3. PICK j : j = cjob[c]
  OBVIOUS
<1>4. CASE ~(CancelDrops(c) \/ CancelSettles(c))
  <2>1. UNCHANGED <<active, repo>>
    BY <1>4 DEF CancelStep, CancelBegins, CancelAnnounces, CancelCalls, CancelUnmarks,
       CancelAbandoned, storeVars
  <2>2. QED
    BY <1>1, <1>2, <2>1, RecordsQuiet
<1>5. ASSUME NEW after, Mutate(j, after), j \in Jobs,
             Active(j) =>
               \/ after = active[j]
               \/ /\ after = Transition(active[j], "CANCELLED")
                  /\ active[j].delivery \in {"REQUEST_ACCEPTED", "SPOOLER_ACCEPTED"}
      PROVE  RecordsAgree'
  <2>1. Active(j) => /\ active[j] \in JobRecord
                     /\ ~IsTerminal(active[j])
                     /\ TrueReport(active[j], j, handed[j], Claimed(j))
                     /\ KeepsUp(active[j], handed[j], Claimed(j), monitor[j] # "off")
    BY <1>5, ActiveFacts
  <2>2. handed[j] \in {0, 1}
    BY <1>5 DEF Custody, AtMostOnce, TypeInv, TypeOK
  <2>3. RecordOf(j)
    BY <1>5 DEF RecordsAgree
  <2>4. Active(j) =>
          /\ after \in JobRecord
          /\ TrueReport(after, j, handed[j], Claimed(j)')
          /\ ~IsTerminal(after) =>
               KeepsUp(after, handed[j], Claimed(j)', monitor'[j] # "off")
    <3> SUFFICES ASSUME Active(j)
                 PROVE  /\ after \in JobRecord
                        /\ TrueReport(after, j, handed[j], Claimed(j)')
                        /\ ~IsTerminal(after) =>
                             KeepsUp(after, handed[j], Claimed(j)', monitor'[j] # "off")
      OBVIOUS
    <3>1. CASE after = active[j]
      BY <1>1, <1>2, <1>5, <2>1, <3>1 DEF TrueReport, KeepsUp
    <3>2. CASE /\ after = Transition(active[j], "CANCELLED")
               /\ active[j].delivery \in {"REQUEST_ACCEPTED", "SPOOLER_ACCEPTED"}
      <4>1. /\ after \in JobRecord /\ after.status = "CANCELLED"
            /\ after.delivery = active[j].delivery
        BY <2>1, <3>2, TransitionType, TransitionEffect DEF Statuses, Terminal
      <4>2. ~Claimed(j)
        BY <2>1, <3>2 DEF KeepsUp
      <4>3. TrueReport(after, j, handed[j], Claimed(j)') /\ IsTerminal(after)
        BY <1>2, <1>5, <2>1, <2>2, <3>2, <4>1, <4>2
           DEF TrueReport, KeepsUp, IsTerminal, Terminal
      <4>4. QED
        BY <4>1, <4>3
    <3>3. QED
      BY <1>5, <3>1, <3>2
  <2>5. Claimed(j)' => Running'
    BY <1>1, <1>2, <1>5, <2>3 DEF RecordOf, Running
  <2>6. monitor'[j] # "off" => handed[j] = 1 /\ PrinterOf[j] \in SpoolPrinters
    BY <1>1, <2>3 DEF RecordOf
  <2>7. QED
    BY <1>1, <1>2, <1>5, <2>4, <2>5, <2>6, RecordsMutate
<1>6. CASE CancelDrops(c)
  <2>1. /\ cpc[c] = "drop"
        /\ Mutate(j, IF active[j].delivery = "REQUEST_ACCEPTED"
                     THEN Transition(active[j], "CANCELLED")
                     ELSE active[j])
    BY <1>3, <1>6 DEF CancelDrops
  <2>2. j \in Jobs
    BY <1>3, <2>1 DEF TypeInv, SlotsFilled
  <2>3. QED
    BY <1>5, <2>1, <2>2
<1>7. CASE CancelSettles(c)
  <2>1. cpc[c] = "ok" /\ Mutate(j, Transition(active[j], "CANCELLED"))
    BY <1>3, <1>7 DEF CancelSettles
  <2>2. j \in Jobs
    BY <1>3, <2>1 DEF TypeInv, SlotsFilled
  <2>3. Active(j) => active[j].delivery = "SPOOLER_ACCEPTED"
    BY <1>3, <2>1 DEF CancelsAgree, CancelOf
  <2>4. QED
    BY <1>5, <2>1, <2>2, <2>3
<1>8. QED
  BY <1>4, <1>6, <1>7

LEMMA RecordsProcessEnds ==
  ASSUME RecordsAgree, ProcessEnds
  PROVE  RecordsAgree'
<1> SUFFICES ASSUME NEW k \in Jobs
             PROVE  RecordOf(k)'
  BY DEF RecordsAgree
<1>1. /\ repo' = repo /\ handed' = handed /\ phase' = "down" /\ active'[k] = Absent
      /\ monitor'[k] = "off" /\ (req'[k] = "new" => req[k] = "new")
      /\ wjob' = [p \in Printers |-> NoJob]
  BY DEF ProcessEnds
<1>2. ~Claimed(k)'
  BY <1>1, ConstantsAssumption, NoJobAssumption DEF Claimed
<1>3. ~Active(k)' /\ (Stored(k)' <=> Stored(k))
  BY <1>1 DEF Active, Stored
<1>4. RecordOf(k)
  BY DEF RecordsAgree
<1>5. QED
  BY <1>1, <1>2, <1>3, <1>4 DEF RecordOf, TrueReport

LEMMA RecordsProcess ==
  ASSUME TypeInv, Custody, RecordsAgree, ProcessStep
  PROVE  RecordsAgree'
<1>1. CASE Exit \/ Crash
  BY <1>1, RecordsProcessEnds DEF Exit, Crash
<1>2. CASE \/ StopBegins \/ StopCollects \/ StopDrains \/ Restart \/ Started
           \/ \E j \in Jobs : StopFails(j) \/ Resume(j) \/ Reconcile(j) \/ Purge(j)
  <2>1. UNCHANGED <<handed, req, wpc, wjob>>
    BY <1>2 DEF StopBegins, StopCollects, StopDrains, Restart, Started, StopFails, Resume,
       Reconcile, Purge, deviceVars, workerVars
  <2>2. \A k \in Jobs : Claimed(k)' <=> Claimed(k)
    BY <2>1, ClaimedFrame
  <2>3. CASE StopBegins \/ StopCollects \/ StopDrains \/ Restart \/ Started
    <3> SUFFICES ASSUME NEW k \in Jobs
                 PROVE  RecordOf(k)'
      BY DEF RecordsAgree
    <3>1. UNCHANGED <<active, repo, monitor>>
      BY <2>3 DEF StopBegins, StopCollects, StopDrains, Restart, Started, storeVars
    <3>2. RecordOf(k)
      BY DEF RecordsAgree
    <3>3. phase' # "down"
      BY <2>3 DEF StopBegins, StopCollects, StopDrains, Restart, Started
    <3>4. Claimed(k) => Running'
      BY <2>3, <3>2
         DEF StopBegins, StopCollects, StopDrains, Restart, Started, RecordOf, Running
    <3>5. phase' = "starting" /\ k \in todo' =>
            ~Active(k) /\ Stored(k) /\ ~IsTerminal(repo[k])
      BY <2>3, <3>2
         DEF StopBegins, StopCollects, StopDrains, Restart, Started, RecordOf
    <3>6. (Stored(k)' <=> Stored(k)) /\ (Active(k)' <=> Active(k))
      BY <3>1 DEF Stored, Active
    <3>7. QED
      BY <2>1, <2>2, <3>1, <3>2, <3>3, <3>4, <3>5, <3>6 DEF RecordOf, TrueReport, KeepsUp
  <2>4. ASSUME NEW j \in Jobs, StopFails(j)
        PROVE  RecordsAgree'
    <3> DEFINE after == Fail(active[j], "NOT_PRINTED")
    <3>1. Mutate(j, after) /\ UNCHANGED <<phase, monitor>> /\ phase = "sweeping"
      BY <2>4 DEF StopFails
    <3>2. Active(j) =>
            /\ active[j] \in JobRecord /\ ~IsTerminal(active[j])
            /\ TrueReport(active[j], j, handed[j], Claimed(j))
      BY ActiveFacts
    <3>3. Active(j) =>
            /\ after \in JobRecord /\ after.status = "FAILED"
            /\ after.error = "NOT_PRINTED" /\ after.delivery = active[j].delivery
      BY <3>2, FailType, FailEffect DEF Errors
    <3> HIDE DEF after
    <3>4. Active(j) => TrueReport(after, j, handed[j], Claimed(j)') /\ IsTerminal(after)
      BY <2>2, <3>2, <3>3 DEF TrueReport, IsTerminal, Terminal
    <3>5. monitor'[j] # "off" => handed[j] = 1 /\ PrinterOf[j] \in SpoolPrinters
      BY <3>1 DEF RecordsAgree, RecordOf
    <3>6. Running'
      BY <3>1 DEF Running
    <3>7. QED
      BY <2>1, <2>2, <3>1, <3>3, <3>4, <3>5, <3>6, RecordsMutate
  <2>5. ASSUME NEW j \in Jobs, Resume(j) \/ Reconcile(j) \/ Purge(j)
        PROVE  RecordsAgree'
    <3>1. ASSUME NEW k \in Jobs \ {j}
          PROVE  RecordOf(k)'
      <4>1. /\ active'[k] = active[k] /\ repo'[k] = repo[k]
            /\ monitor'[k] = monitor[k] /\ phase' = phase
            /\ (k \in todo' => k \in todo)
        BY <2>5 DEF Resume, Reconcile, Persist, Purge, TypeInv, TypeOK, procVars
      <4>2. RecordOf(k)
        BY DEF RecordsAgree
      <4>3. Claimed(k)' => Claimed(k) /\ Running'
        BY <2>2, <4>1, <4>2 DEF RecordOf, Running
      <4>4. QED
        BY <2>1, <4>1, <4>2, <4>3, RecordFrame
    <3>2. RecordOf(j)
      BY DEF RecordsAgree
    <3>3. CASE Resume(j)
      <4>1. /\ phase = "starting" /\ j \in todo /\ phase' = phase /\ j \notin todo'
            /\ repo[j].delivery = "SPOOLER_ACCEPTED" /\ repo' = repo
            /\ active'[j] = repo[j] /\ monitor'[j] = "wait"
        BY <3>3 DEF Resume, TypeInv, TypeOK
      <4>2. /\ Stored(j) /\ ~IsTerminal(repo[j]) /\ ~Claimed(j)
            /\ TrueReport(repo[j], j, handed[j], Claimed(j))
        BY <3>2, <4>1 DEF RecordOf, Running
      <4>3. Stored(j)' /\ Active(j)'
        BY <4>1, <4>2 DEF Stored, Active
      <4>4. /\ TrueReport(repo'[j], j, handed'[j], Claimed(j)')
            /\ TrueReport(active'[j], j, handed'[j], Claimed(j)')
            /\ KeepsUp(active'[j], handed'[j], Claimed(j)', monitor'[j] # "off")
            /\ handed'[j] = 1 /\ PrinterOf[j] \in SpoolPrinters
        BY <2>1, <2>2, <4>1, <4>2 DEF TrueReport, KeepsUp
      <4>5. RecordOf(j)'
        BY <2>1, <2>2, <3>2, <4>1, <4>2, <4>3, <4>4 DEF RecordOf
      <4>6. QED
        BY <3>1, <4>5 DEF RecordsAgree
    <3>4. CASE Reconcile(j)
      <4>1. PICK job : job = repo[j]
        OBVIOUS
      <4>2. PICK after : after = Settled(job)
        OBVIOUS
      <4>3. /\ phase = "starting" /\ j \in todo /\ phase' = phase /\ j \notin todo'
            /\ monitor' = monitor /\ repo'[j] \in {job, after}
            /\ active'[j] = IF IsTerminal(after) THEN Absent ELSE after
        BY <3>4, <4>1, <4>2 DEF Reconcile, Persist, TypeInv, TypeOK
      <4>4. /\ Stored(j) /\ ~IsTerminal(job) /\ ~Claimed(j)
            /\ TrueReport(job, j, handed[j], FALSE)
            /\ monitor[j] # "off" => PrinterOf[j] \in SpoolPrinters
        BY <3>2, <4>1, <4>3 DEF RecordOf, Running, TrueReport
      <4>5. job \in JobRecord
        BY <4>1, <4>4 DEF Stored, TypeInv, TypeOK
      <4>6. /\ after \in JobRecord /\ after.delivery = job.delivery
            /\ \/ after = job /\ job.delivery = "DEVICE_DELIVERED"
               \/ /\ after.status = "COMPLETED" /\ after.completion = "BYTES_DELIVERED"
                  /\ job.delivery = "DEVICE_DELIVERED"
               \/ after.status = "FAILED" /\ after.error \in {"NOT_PRINTED", "UNKNOWN"}
        BY <4>2, <4>4, <4>5, SettledType, SettledEffect
      <4>7. TrueReport(after, j, handed[j], FALSE)
        BY <4>4, <4>6 DEF TrueReport, IsTerminal, Terminal
      <4>8. ~IsTerminal(after) => /\ after = job
                                  /\ KeepsUp(after, handed[j], FALSE, monitor[j] # "off")
        BY <4>4, <4>6 DEF TrueReport, KeepsUp, IsTerminal, Terminal
      <4>9. job # Absent /\ after # Absent
        BY <4>5, <4>6, AbsentIsNoRecord
      <4>10. Stored(j)' /\ (Active(j)' <=> ~IsTerminal(after))
        BY <4>3, <4>9 DEF Stored, Active
      <4>11. TrueReport(repo'[j], j, handed'[j], Claimed(j)')
        BY <2>1, <2>2, <4>3, <4>4, <4>7 DEF TrueReport
      <4>12. ~IsTerminal(after) =>
               /\ active'[j] = after /\ repo'[j] = after
               /\ TrueReport(active'[j], j, handed'[j], Claimed(j)')
               /\ KeepsUp(active'[j], handed'[j], Claimed(j)', monitor'[j] # "off")
        BY <2>1, <2>2, <4>3, <4>4, <4>7, <4>8 DEF TrueReport, KeepsUp
      <4>13. RecordOf(j)'
        BY <2>1, <2>2, <3>2, <4>3, <4>4, <4>10, <4>11, <4>12 DEF RecordOf
      <4>14. QED
        BY <3>1, <4>13 DEF RecordsAgree
    <3>5. CASE Purge(j)
      <4>1. /\ phase = "up" /\ phase' = phase /\ IsTerminal(repo[j]) /\ repo'[j] = Absent
            /\ active' = active /\ monitor' = monitor /\ Stored(j)
        BY <3>5 DEF Purge, procVars, TypeInv, TypeOK
      <4>2. ~Active(j)' /\ ~Stored(j)' /\ Running'
        BY <3>2, <4>1 DEF RecordOf, Active, Stored, Running
      <4>3. RecordOf(j)'
        BY <2>1, <2>2, <3>2, <4>1, <4>2 DEF RecordOf
      <4>4. QED
        BY <3>1, <4>3 DEF RecordsAgree
    <3>6. QED
      BY <2>5, <3>3, <3>4, <3>5
  <2>6. QED
    BY <1>2, <2>3, <2>4, <2>5
<1>3. QED
  BY <1>1, <1>2 DEF ProcessStep

LEMMA RecordsStep ==
  ASSUME TypeInv, Custody, RecordsAgree, CancelsAgree, [Next]_vars
  PROVE  RecordsAgree'
<1>1. CASE UNCHANGED vars
  <2>1. UNCHANGED <<active, repo, handed, phase, todo, req, monitor, wpc, wjob>>
    BY <1>1 DEF vars, storeVars, workerVars, procVars, deviceVars
  <2>2. QED
    BY <2>1, ClaimedFrame, RecordsQuiet
<1>2. CASE Next
  BY <1>2, RecordsSubmit, RecordsWorker, RecordsMonitor, RecordsHandOver, RecordsCancel,
     RecordsProcess DEF Next
<1>3. QED
  BY <1>1, <1>2

\* While the agent runs no other job enters the memory than a new one, and one
\* that is in the spooler stays there as far as its record goes.
LEMMA SpooledStays ==
  ASSUME TypeInv, Custody, RecordsAgree, CancelsAgree, [Next]_vars, Running,
         NEW k \in Jobs, req[k] # "new"
  PROVE  Active(k)' =>
           /\ Active(k)
           /\ active[k].delivery = "SPOOLER_ACCEPTED" =>
                active'[k].delivery = "SPOOLER_ACCEPTED"
<1> DEFINE Stays == Active(k)' =>
                      /\ Active(k)
                      /\ active[k].delivery = "SPOOLER_ACCEPTED" =>
                           active'[k].delivery = "SPOOLER_ACCEPTED"
<1>1. ASSUME active'[k] = active[k] \/ active'[k] = Absent
      PROVE  Stays
  BY <1>1 DEF Active
<1>2. ASSUME NEW j \in Jobs, NEW after, Mutate(j, after),
             j = k /\ Active(k) /\ active[k].delivery = "SPOOLER_ACCEPTED" =>
               after.delivery = "SPOOLER_ACCEPTED"
      PROVE  Stays
  <2>1. CASE j # k
    BY <1>1, <1>2, <2>1, MutateEffect
  <2>2. CASE j = k /\ ~Active(k)
    BY <1>1, <1>2, <2>2, MutateEffect
  <2>3. CASE j = k /\ Active(k)
    <3>1. active'[k] = Absent \/ active'[k] = after
      BY <1>2, <2>3, MutateEffect
    <3>2. QED
      BY <1>1, <1>2, <2>3, <3>1 DEF Active
  <2>4. QED
    BY <2>1, <2>2, <2>3
<1>3. Active(k) =>
        /\ active[k] \in JobRecord
        /\ ~IsTerminal(active[k])
        /\ TrueReport(active[k], k, handed[k], Claimed(k))
        /\ KeepsUp(active[k], handed[k], Claimed(k), monitor[k] # "off")
  BY ActiveFacts
<1>4. Active(k) =>
        /\ \A s \in Statuses : Transition(active[k], s).delivery = active[k].delivery
        /\ \A e \in Errors : Fail(active[k], e).delivery = active[k].delivery
        /\ \A o \in Applicable : Observed(active[k], o).delivery = active[k].delivery
  BY <1>3, TransitionEffect, FailEffect, ObservedEffect
<1>5. CASE UNCHANGED vars
  BY <1>1, <1>5 DEF vars, storeVars
<1>6. ASSUME NEW j \in Jobs, SubmitStep(j)
      PROVE  Stays
  <2>1. CASE Submit(j)
    <3>1. active'[k] = active[k]
      BY <2>1 DEF Submit, TypeInv, TypeOK
    <3>2. QED
      BY <1>1, <3>1
  <2>2. CASE Validate(j)
    BY <1>2, <1>4, <2>2 DEF Validate, Statuses
  <2>3. CASE MarkQueued(j)
    BY <1>2, <1>4, <2>3 DEF MarkQueued, Statuses
  <2>4. CASE SubmitFails(j)
    BY <1>2, <1>4, <2>4 DEF SubmitFails, Errors
  <2>5. CASE \/ SubmitDuplicate(j) \/ PrepareFails(j) \/ Abandon(j) \/ Reserve(j)
             \/ Send(j) \/ SendFails(j)
    BY <1>1, <2>5 DEF SubmitDuplicate, PrepareFails, Abandon, Reserve, Send, SendFails,
       storeVars
  <2>6. QED
    BY <1>6, <2>1, <2>2, <2>3, <2>4, <2>5 DEF SubmitStep
<1>7. ASSUME NEW p \in Printers, WorkerStep(p)
      PROVE  Stays
  <2>1. PICK j : j = wjob[p]
    OBVIOUS
  <2>2. wpc[p] \in {"taken", "claimed", "waiting", "late"} =>
          j \in Jobs /\ PrinterOf[j] = p
    BY <2>1 DEF TypeInv, SlotsFilled, WorkerSteps, Custody, WorkerCustody
  <2>3. CASE TakeJob(p) \/ WorkerStops(p) \/ StartCall(p) \/ LateReturn(p)
    BY <1>1, <2>3 DEF TakeJob, WorkerStops, StartCall, LateReturn, storeVars
  <2>4. CASE Claim(p)
    <3>1. /\ wpc[p] = "taken"
          /\ Mutate(j, [active[j] EXCEPT !.delivery = "SUBMITTING"])
      BY <2>1, <2>4 DEF Claim
    <3>2. handed[j] = 0
      BY <2>1, <3>1 DEF Custody, WorkerCustody
    <3>3. j = k /\ Active(k) => active[k].delivery # "SPOOLER_ACCEPTED"
      BY <1>3, <3>2 DEF TrueReport
    <3>4. QED
      BY <1>2, <2>2, <3>1, <3>3
  <2>5. CASE Delivered(p) \/ Spooled(p)
    <3>1. /\ wpc[p] = "waiting"
          /\ \E after : Mutate(j, after)
      BY <2>1, <2>5 DEF Delivered, Spooled
    <3>2. Claimed(j)
      BY <2>1, <2>2, <3>1 DEF Claimed
    <3>3. j = k /\ Active(k) => active[k].delivery # "SPOOLER_ACCEPTED"
      BY <1>3, <3>2 DEF KeepsUp
    <3>4. QED
      BY <1>2, <2>2, <3>1, <3>3
  <2>6. CASE \E err \in {"absent", "NOT_PRINTED", "UNKNOWN"} : SubmitErr(p, err)
    <3>1. PICK err \in {"absent", "NOT_PRINTED", "UNKNOWN"} :
            wpc[p] = "waiting" /\ Mutate(j, Fail(active[j], err))
      BY <2>1, <2>6 DEF SubmitErr
    <3>2. QED
      BY <1>2, <1>4, <2>2, <3>1 DEF Errors
  <2>7. CASE SubmitTimeout(p)
    <3>1. wpc[p] = "waiting" /\ Mutate(j, Fail(active[j], "UNKNOWN"))
      BY <2>1, <2>7 DEF SubmitTimeout
    <3>2. QED
      BY <1>2, <1>4, <2>2, <3>1 DEF Errors
  <2>8. QED
    BY <1>7, <2>3, <2>4, <2>5, <2>6, <2>7 DEF WorkerStep
<1>8. ASSUME NEW j \in Jobs, MonitorStep(j) \/ HandOver(j) \/ SpoolMoves(j)
      PROVE  Stays
  <2>1. CASE MonitorApply(j)
    BY <1>2, <1>4, <2>1 DEF MonitorApply
  <2>2. CASE ~MonitorApply(j)
    BY <1>1, <1>8, <2>2 DEF MonitorStep, MonitorPoll, MonitorStops, MonitorSeesGone,
       HandOver, SpoolMoves, storeVars
  <2>3. QED
    BY <2>1, <2>2
<1>9. ASSUME NEW c \in Callers, CancelStep(c)
      PROVE  Stays
  <2>1. PICK j : j = cjob[c]
    OBVIOUS
  <2>2. CASE CancelDrops(c)
    <3>1. /\ cpc[c] = "drop"
          /\ Mutate(j, IF active[j].delivery = "REQUEST_ACCEPTED"
                       THEN Transition(active[j], "CANCELLED")
                       ELSE active[j])
      BY <2>1, <2>2 DEF CancelDrops
    <3>2. j \in Jobs
      BY <2>1, <3>1 DEF TypeInv, SlotsFilled
    <3>3. QED
      BY <1>2, <3>1, <3>2
  <2>3. CASE CancelSettles(c)
    <3>1. cpc[c] = "ok" /\ Mutate(j, Transition(active[j], "CANCELLED"))
      BY <2>1, <2>3 DEF CancelSettles
    <3>2. j \in Jobs
      BY <2>1, <3>1 DEF TypeInv, SlotsFilled
    <3>3. QED
      BY <1>2, <1>4, <3>1, <3>2 DEF Statuses, Terminal
  <2>4. CASE ~(CancelDrops(c) \/ CancelSettles(c))
    BY <1>1, <1>9, <2>4 DEF CancelStep, CancelBegins, CancelAnnounces, CancelCalls,
       CancelUnmarks, CancelAbandoned, storeVars
  <2>5. QED
    BY <2>2, <2>3, <2>4
<1>10. CASE ProcessStep
  <2>1. CASE Exit \/ Crash
    BY <1>1, <2>1 DEF Exit, Crash, ProcessEnds
  <2>2. ASSUME NEW j \in Jobs, StopFails(j)
        PROVE  Stays
    BY <1>2, <1>4, <2>2 DEF StopFails, Errors
  <2>3. CASE \/ StopBegins \/ StopCollects \/ StopDrains \/ Restart \/ Started
             \/ \E j \in Jobs : Resume(j) \/ Reconcile(j) \/ Purge(j)
    BY <1>1, <2>3 DEF StopBegins, StopCollects, StopDrains, Restart, Started, Resume,
       Reconcile, Purge, storeVars, Running
  <2>4. QED
    BY <1>10, <2>1, <2>2, <2>3 DEF ProcessStep
<1>11. QED
  BY <1>5, <1>6, <1>7, <1>8, <1>9, <1>10 DEF Next

LEMMA CancelsStep ==
  ASSUME TypeInv, Custody, RecordsAgree, CancelsAgree, [Next]_vars
  PROVE  CancelsAgree'
<1> SUFFICES ASSUME NEW d \in Callers, cpc'[d] # "idle"
             PROVE  CancelOf(d)'
  BY DEF CancelsAgree, CancelOf
<1>1. CancelOf(d)
  BY DEF CancelsAgree
<1>2. PICK k : k = cjob'[d]
  OBVIOUS
<1>3. ASSUME cpc[d] # "idle", cjob'[d] = cjob[d], Running', req'[k] # "new",
             cpc'[d] \in {"resolve", "announced", "ok"} =>
               cpc[d] \in {"resolve", "announced", "ok"}
      PROVE  CancelOf(d)'
  <2>1. k \in Jobs /\ k = cjob[d] /\ Running /\ req[k] # "new"
    BY <1>1, <1>2, <1>3 DEF TypeInv, SlotsFilled, CancelOf
  <2>2. Active(k)' => /\ Active(k)
                      /\ active[k].delivery = "SPOOLER_ACCEPTED" =>
                           active'[k].delivery = "SPOOLER_ACCEPTED"
    BY <2>1, SpooledStays
  <2>3. cpc'[d] \in {"resolve", "announced", "ok"} /\ Active(k)' =>
          active'[k].delivery = "SPOOLER_ACCEPTED"
    BY <1>1, <1>3, <2>1, <2>2 DEF CancelOf
  <2>4. QED
    BY <1>2, <1>3, <2>3 DEF CancelOf, Active
<1>4. ASSUME UNCHANGED <<cpc, cjob>>, Running => Running',
             \A i \in Jobs : req'[i] = "new" => req[i] = "new"
      PROVE  CancelOf(d)'
  <2>1. k \in Jobs /\ Running /\ req[k] # "new"
    BY <1>1, <1>2, <1>4 DEF TypeInv, SlotsFilled, CancelOf
  <2>2. QED
    BY <1>3, <1>4, <2>1
<1>5. CASE UNCHANGED vars
  BY <1>4, <1>5 DEF vars, cancelVars, procVars, Running
<1>6. ASSUME NEW j \in Jobs, SubmitStep(j)
      PROVE  CancelOf(d)'
  <2>1. UNCHANGED <<cpc, cjob, phase>> /\ \A i \in Jobs : req'[i] = "new" => req[i] = "new"
    BY <1>6 DEF SubmitStep, Submit, SubmitDuplicate, Validate, PrepareFails, Abandon,
       Reserve, MarkQueued, Send, SendFails, SubmitFails, cancelVars, procVars,
       TypeInv, TypeOK
  <2>2. QED
    BY <1>4, <2>1 DEF Running
<1>7. ASSUME NEW p \in Printers, WorkerStep(p)
      PROVE  CancelOf(d)'
  <2>1. UNCHANGED <<cpc, cjob, phase, req>>
    BY <1>7 DEF WorkerStep, TakeJob, WorkerStops, Claim, StartCall, Delivered, Spooled,
       SubmitErr, SubmitTimeout, LateReturn, CallEnds, cancelVars, procVars
  <2>2. QED
    BY <1>4, <2>1 DEF Running
<1>8. ASSUME NEW j \in Jobs, MonitorStep(j) \/ HandOver(j) \/ SpoolMoves(j)
      PROVE  CancelOf(d)'
  <2>1. UNCHANGED <<cpc, cjob, phase, req>>
    BY <1>8 DEF MonitorStep, MonitorPoll, MonitorStops, MonitorSeesGone, MonitorApply,
       HandOver, SpoolMoves, cancelVars, procVars
  <2>2. QED
    BY <1>4, <2>1 DEF Running
<1>9. ASSUME NEW c \in Callers, CancelStep(c)
      PROVE  CancelOf(d)'
  <2>1. UNCHANGED <<phase, req>> /\ Running
    BY <1>9 DEF CancelStep, CancelBegins, CancelDrops, CancelAnnounces, CancelCalls,
       CancelSettles, CancelUnmarks, CancelAbandoned, procVars
  <2>2. Running'
    BY <2>1 DEF Running
  <2>3. CASE \E j \in Jobs : CancelBegins(c, j) /\ c = d
    <3>1. PICK j \in Jobs : CancelBegins(d, j)
      BY <2>3
    <3>2. /\ cjob'[d] = j /\ UNCHANGED active /\ (Active(j) \/ Stored(j))
          /\ \/ cpc'[d] = "drop"
             \/ cpc'[d] = "resolve" /\ Lookup(j).delivery = "SPOOLER_ACCEPTED"
      BY <3>1 DEF CancelBegins, TypeInv, TypeOK, storeVars
    <3>3. req[j] # "new"
      BY <3>2 DEF RecordsAgree, RecordOf
    <3>4. cpc'[d] \in {"resolve", "announced", "ok"} /\ Active(j) =>
            active[j].delivery = "SPOOLER_ACCEPTED"
      BY <3>2 DEF Lookup
    <3>5. QED
      BY <2>1, <2>2, <3>2, <3>3, <3>4 DEF CancelOf, Active
  <2>4. CASE c # d
    <3>1. cpc'[d] = cpc[d] /\ cjob'[d] = cjob[d]
      BY <1>9, <2>4 DEF CancelStep, CancelBegins, CancelDrops, CancelAnnounces, CancelCalls,
         CancelSettles, CancelUnmarks, CancelAbandoned, TypeInv, TypeOK
    <3>2. QED
      BY <1>1, <1>2, <1>3, <2>1, <2>2, <3>1 DEF CancelOf
  <2>5. CASE c = d /\ ~\E j \in Jobs : CancelBegins(c, j)
    <3>1. /\ cpc[d] # "idle" /\ cjob'[d] = cjob[d]
          /\ cpc'[d] \in {"resolve", "announced", "ok"} =>
               cpc[d] \in {"resolve", "announced", "ok"}
      BY <1>9, <2>5 DEF CancelStep, CancelDrops, CancelAnnounces, CancelCalls,
         CancelSettles, CancelUnmarks, CancelAbandoned, TypeInv, TypeOK
    <3>2. QED
      BY <1>1, <1>2, <1>3, <2>1, <2>2, <3>1 DEF CancelOf
  <2>6. QED
    BY <2>3, <2>4, <2>5
<1>10. CASE ProcessStep
  <2>1. CASE Exit \/ Crash
    BY <2>1 DEF Exit, Crash, ProcessEnds
  <2>2. CASE ~(Exit \/ Crash)
    <3>1. UNCHANGED <<cpc, cjob, req>> /\ (Running => Running')
      BY <1>10, <2>2 DEF ProcessStep, StopBegins, StopCollects, StopDrains, Restart,
         Started, StopFails, Resume, Reconcile, Purge, cancelVars, procVars, Running
    <3>2. QED
      BY <1>4, <3>1
  <2>3. QED
    BY <2>1, <2>2
<1>11. QED
  BY <1>5, <1>6, <1>7, <1>8, <1>9, <1>10 DEF Next

-----------------------------------------------------------------------------
(* Theorems that hold whatever the constants are.                          *)

LEMMA RecordsInit == Init => RecordsAgree /\ CancelsAgree
<1> SUFFICES ASSUME Init
             PROVE  RecordsAgree /\ CancelsAgree
  OBVIOUS
<1>1. ASSUME NEW j \in Jobs
      PROVE  RecordOf(j)
  <2>1. ~Active(j) /\ ~Stored(j) /\ monitor[j] = "off" /\ phase = "up"
    BY DEF Init, Active, Stored
  <2>2. QED
    BY <2>1 DEF RecordOf, Running
<1>2. QED
  BY <1>1 DEF Init, RecordsAgree, CancelsAgree, CancelOf

EngineInv == TypeInv /\ TodoStored /\ Custody /\ RecordsAgree /\ CancelsAgree

LEMMA EngineInit == Init => EngineInv
BY TypeInit, CustodyInit, RecordsInit DEF Init, TodoStored, EngineInv

LEMMA EngineStep == EngineInv /\ [Next]_vars => EngineInv'
BY TypeStep, TodoStoredStep, CustodyStep, RecordsStep, CancelsStep DEF EngineInv

\* The copy of a job in memory, its stored record, its worker, its monitor and
\* the cancellations under way agree, in every run of the engine.
THEOREM RecordsHold == Spec => []EngineInv
<1>1. QED
  BY EngineInit, EngineStep, PTL DEF Spec

\* A request that was refused before a worker claimed it (no outcome in its
\* error, delivery stage REQUEST_ACCEPTED) was handed to nobody.
RejectedNeverPrints ==
  \A j \in Jobs :
    /\ Stored(j)
    /\ repo[j].status = "FAILED"
    /\ repo[j].error = "absent"
    /\ repo[j].delivery = "REQUEST_ACCEPTED"
    => handed[j] = 0

\* Crashes, lost writes, shutdowns and clients that hang up do not matter: a
\* rejected or dropped job never prints, and a completed one was handed over and
\* completed on the evidence its kind of printer gives.
THEOREM SettledReportsAreTrue ==
  Spec => [](RejectedNeverPrints /\ DroppedNeverPrints /\ CompletedWasHandedOver)
<1>1. EngineInv => RejectedNeverPrints /\ DroppedNeverPrints /\ CompletedWasHandedOver
  BY DEF EngineInv, RecordsAgree, RecordOf, TrueReport, RejectedNeverPrints,
     DroppedNeverPrints, CompletedWasHandedOver
<1>2. QED
  BY <1>1, RecordsHold, PTL

-----------------------------------------------------------------------------
(* What a step can do to the repository and to the paper.                  *)

\* Nothing that a client could see.
Unseen ==
  /\ UNCHANGED <<repo, handed>>
  /\ \A k \in Jobs : req'[k] = "new" <=> req[k] = "new"

Others(j) ==
  \A k \in Jobs \ {j} : repo'[k] = repo[k] /\ (req'[k] = "new" <=> req[k] = "new")

Arrives(j) ==
  /\ req[j] = "new" /\ req'[j] # "new"
  /\ \/ repo'[j] = repo[j]
     \/ repo'[j] = NewJob /\ \A i \in Jobs : Stored(i) => ~SameKey(i, j)
  /\ UNCHANGED handed /\ Others(j)

Written(j) ==
  /\ Stored(j) /\ ~IsTerminal(repo[j]) /\ repo'[j] \in JobRecord
  /\ req[j] # "new" /\ req'[j] # "new"
  /\ UNCHANGED handed /\ Others(j)

Leaves(j) ==
  /\ Claimed(j) /\ handed[j] = 0 /\ handed' = [handed EXCEPT ![j] = 1]
  /\ UNCHANGED <<repo, req>>

Forgotten(j) ==
  /\ Retention
  /\ Stored(j) /\ IsTerminal(repo[j]) /\ repo'[j] = Absent
  /\ req[j] # "new" /\ req'[j] # "new"
  /\ UNCHANGED handed /\ Others(j)

LEMMA VisibleStep ==
  ASSUME EngineInv, [Next]_vars
  PROVE  \/ Unseen
         \/ \E j \in Jobs : Arrives(j) \/ Written(j) \/ Leaves(j) \/ Forgotten(j)
<1> DEFINE Seen == \E j \in Jobs : Arrives(j) \/ Written(j) \/ Leaves(j) \/ Forgotten(j)
<1> USE DEF EngineInv
<1>1. ASSUME NEW j \in Jobs, NEW after, Mutate(j, after),
             Active(j) => after \in JobRecord, UNCHANGED handed,
             \A k \in Jobs : req'[k] = "new" <=> req[k] = "new"
      PROVE  Unseen \/ Seen
  <2>1. CASE ~Active(j)
    BY <1>1, <2>1 DEF Mutate, storeVars, Unseen
  <2>2. CASE Active(j)
    <3>1. /\ Stored(j) /\ ~IsTerminal(repo[j]) /\ req[j] # "new"
          /\ repo[j] \in JobRecord
      BY <2>2 DEF RecordsAgree, RecordOf, Stored, TypeInv, TypeOK
    <3>2. /\ repo'[j] = after \/ repo'[j] = repo[j]
          /\ \A k \in Jobs \ {j} : repo'[k] = repo[k]
      BY <1>1, <2>2, MutateEffect
    <3>3. Written(j)
      BY <1>1, <2>2, <3>1, <3>2 DEF Written, Others
    <3>4. QED
      BY <3>3
  <2>3. QED
    BY <2>1, <2>2
<1>2. \A j \in Jobs : Active(j) =>
        /\ active[j] \in JobRecord
        /\ \A s \in Statuses : Transition(active[j], s) \in JobRecord
        /\ \A e \in Errors : Fail(active[j], e) \in JobRecord
        /\ \A d \in Deliveries : [active[j] EXCEPT !.delivery = d] \in JobRecord
        /\ \A o \in Applicable : Observed(active[j], o) \in JobRecord
  BY AfterTypes, ObservedType DEF TypeInv
<1>3. CASE UNCHANGED vars
  BY <1>3 DEF vars, storeVars, deviceVars, Unseen
<1>4. ASSUME NEW j \in Jobs, SubmitStep(j)
      PROVE  Unseen \/ Seen
  <2>1. UNCHANGED handed /\ \A k \in Jobs \ {j} : req'[k] = req[k]
    BY <1>4 DEF SubmitStep, Submit, SubmitDuplicate, Validate, PrepareFails, Abandon,
       Reserve, MarkQueued, Send, SendFails, SubmitFails, deviceVars, TypeInv, TypeOK
  <2>2. req'[j] # "new"
    BY <1>4 DEF SubmitStep, Submit, SubmitDuplicate, Validate, PrepareFails, Abandon,
       Reserve, MarkQueued, Send, SendFails, SubmitFails, TypeInv, TypeOK
  <2>3. CASE Submit(j) \/ SubmitDuplicate(j)
    <3>1. /\ req[j] = "new"
          /\ \/ repo'[j] = repo[j]
             \/ repo'[j] = NewJob /\ \A i \in Jobs : Stored(i) => ~SameKey(i, j)
          /\ \A k \in Jobs \ {j} : repo'[k] = repo[k]
      BY <2>3 DEF Submit, SubmitDuplicate, storeVars, TypeInv, TypeOK
    <3>2. Arrives(j)
      BY <2>1, <2>2, <3>1 DEF Arrives, Others
    <3>3. QED
      BY <3>2
  <2>4. CASE ~(Submit(j) \/ SubmitDuplicate(j))
    <3>1. req[j] # "new"
      BY <1>4, <2>4 DEF SubmitStep, Validate, PrepareFails, Abandon,
         Reserve, MarkQueued, Send, SendFails, SubmitFails
    <3>2. \A k \in Jobs : req'[k] = "new" <=> req[k] = "new"
      BY <2>1, <2>2, <3>1
    <3>3. CASE Validate(j)
      <4>1. Mutate(j, Transition(active[j], "VALIDATING"))
        BY <3>3 DEF Validate
      <4>2. QED
        BY <1>1, <1>2, <2>1, <3>2, <4>1 DEF Statuses
    <3>4. CASE MarkQueued(j)
      <4>1. Mutate(j, Transition(active[j], "QUEUED"))
        BY <3>4 DEF MarkQueued
      <4>2. QED
        BY <1>1, <1>2, <2>1, <3>2, <4>1 DEF Statuses
    <3>5. CASE SubmitFails(j)
      <4>1. Mutate(j, Fail(active[j], "absent"))
        BY <3>5 DEF SubmitFails
      <4>2. QED
        BY <1>1, <1>2, <2>1, <3>2, <4>1 DEF Errors
    <3>6. CASE PrepareFails(j) \/ Abandon(j) \/ Reserve(j) \/ Send(j) \/ SendFails(j)
      <4>1. UNCHANGED repo
        BY <3>6 DEF PrepareFails, Abandon, Reserve, Send, SendFails, storeVars
      <4>2. QED
        BY <2>1, <3>2, <4>1 DEF Unseen
    <3>7. QED
      BY <1>4, <2>4, <3>3, <3>4, <3>5, <3>6 DEF SubmitStep
  <2>5. QED
    BY <2>3, <2>4
<1>5. ASSUME NEW p \in Printers, WorkerStep(p)
      PROVE  Unseen \/ Seen
  <2>1. UNCHANGED <<handed, req>>
    BY <1>5 DEF WorkerStep, TakeJob, WorkerStops, Claim, StartCall, Delivered, Spooled,
       SubmitErr, SubmitTimeout, LateReturn, CallEnds, deviceVars
  <2>2. CASE TakeJob(p) \/ WorkerStops(p) \/ StartCall(p) \/ LateReturn(p)
    BY <2>1, <2>2 DEF TakeJob, WorkerStops, StartCall, LateReturn, storeVars, Unseen
  <2>3. PICK j : j = wjob[p]
    OBVIOUS
  <2>4. wpc[p] \in {"taken", "waiting"} => j \in Jobs
    BY <2>3 DEF TypeInv, SlotsFilled, WorkerSteps
  <2>5. CASE Claim(p)
    <3>1. /\ wpc[p] = "taken"
          /\ Mutate(j, [active[j] EXCEPT !.delivery = "SUBMITTING"])
      BY <2>3, <2>5 DEF Claim
    <3>2. QED
      BY <1>1, <1>2, <2>1, <2>4, <3>1 DEF Deliveries
  <2>6. CASE Delivered(p)
    <3> DEFINE sent == [active[j] EXCEPT !.delivery = "DEVICE_DELIVERED"]
    <3>1. wpc[p] = "waiting" /\ Mutate(j, Complete(sent, "BYTES_DELIVERED"))
      BY <2>3, <2>6 DEF Delivered
    <3>2. Active(j) => sent \in JobRecord
      BY <1>2, <2>4, <3>1 DEF Deliveries
    <3> HIDE DEF sent
    <3>3. Active(j) => Complete(sent, "BYTES_DELIVERED") \in JobRecord
      BY <3>2, CompleteType DEF Evidence
    <3>4. QED
      BY <1>1, <2>1, <2>4, <3>1, <3>3
  <2>7. CASE Spooled(p)
    <3>1. /\ wpc[p] = "waiting"
          /\ Mutate(j, [active[j] EXCEPT !.delivery = "SPOOLER_ACCEPTED"])
      BY <2>3, <2>7 DEF Spooled
    <3>2. QED
      BY <1>1, <1>2, <2>1, <2>4, <3>1 DEF Deliveries
  <2>8. CASE \E err \in {"absent", "NOT_PRINTED", "UNKNOWN"} : SubmitErr(p, err)
    <3>1. PICK err \in {"absent", "NOT_PRINTED", "UNKNOWN"} :
            wpc[p] = "waiting" /\ Mutate(j, Fail(active[j], err))
      BY <2>3, <2>8 DEF SubmitErr
    <3>2. QED
      BY <1>1, <1>2, <2>1, <2>4, <3>1 DEF Errors
  <2>9. CASE SubmitTimeout(p)
    <3>1. wpc[p] = "waiting" /\ Mutate(j, Fail(active[j], "UNKNOWN"))
      BY <2>3, <2>9 DEF SubmitTimeout
    <3>2. QED
      BY <1>1, <1>2, <2>1, <2>4, <3>1 DEF Errors
  <2>10. QED
    BY <1>5, <2>2, <2>5, <2>6, <2>7, <2>8, <2>9 DEF WorkerStep
<1>6. ASSUME NEW j \in Jobs, MonitorStep(j) \/ SpoolMoves(j)
      PROVE  Unseen \/ Seen
  <2>1. UNCHANGED <<handed, req>>
    BY <1>6 DEF MonitorStep, MonitorPoll, MonitorStops, MonitorSeesGone, MonitorApply,
       SpoolMoves, deviceVars
  <2>2. CASE MonitorApply(j)
    <3>1. monitor[j] \in Applicable /\ Mutate(j, Observed(active[j], monitor[j]))
      BY <2>2 DEF MonitorApply
    <3>2. QED
      BY <1>1, <1>2, <2>1, <3>1
  <2>3. CASE ~MonitorApply(j)
    BY <1>6, <2>1, <2>3 DEF MonitorStep, MonitorPoll, MonitorStops, MonitorSeesGone,
       SpoolMoves, storeVars, Unseen
  <2>4. QED
    BY <2>2, <2>3
<1>7. ASSUME NEW j \in Jobs, HandOver(j)
      PROVE  Unseen \/ Seen
  <2>1. /\ call[j] = "running" /\ handed' = [handed EXCEPT ![j] = handed[j] + 1]
        /\ UNCHANGED <<repo, req>>
    BY <1>7 DEF HandOver, storeVars
  <2>2. Claimed(j) /\ handed[j] = 0
    BY <2>1, ConstantsAssumption DEF Claimed, Custody, CallCustody, WorkerCustody
  <2>3. Leaves(j)
    BY <2>1, <2>2 DEF Leaves
  <2>4. QED
    BY <2>3
<1>8. ASSUME NEW c \in Callers, CancelStep(c)
      PROVE  Unseen \/ Seen
  <2>1. UNCHANGED <<handed, req>>
    BY <1>8 DEF CancelStep, CancelBegins, CancelDrops, CancelAnnounces, CancelCalls,
       CancelSettles, CancelUnmarks, CancelAbandoned, deviceVars
  <2>2. PICK j : j = cjob[c]
    OBVIOUS
  <2>3. cpc[c] # "idle" => j \in Jobs
    BY <2>2 DEF TypeInv, SlotsFilled
  <2>4. CASE CancelDrops(c)
    <3>1. /\ cpc[c] = "drop"
          /\ \/ Mutate(j, active[j])
             \/ Mutate(j, Transition(active[j], "CANCELLED"))
      BY <2>2, <2>4 DEF CancelDrops
    <3>2. QED
      BY <1>1, <1>2, <2>1, <2>3, <3>1 DEF Statuses, Terminal
  <2>5. CASE CancelSettles(c)
    <3>1. cpc[c] = "ok" /\ Mutate(j, Transition(active[j], "CANCELLED"))
      BY <2>2, <2>5 DEF CancelSettles
    <3>2. QED
      BY <1>1, <1>2, <2>1, <2>3, <3>1 DEF Statuses, Terminal
  <2>6. CASE ~(CancelDrops(c) \/ CancelSettles(c))
    BY <1>8, <2>1, <2>6 DEF CancelStep, CancelBegins, CancelAnnounces, CancelCalls,
       CancelUnmarks, CancelAbandoned, storeVars, Unseen
  <2>7. QED
    BY <2>4, <2>5, <2>6
<1>9. CASE ProcessStep
  <2>1. CASE Exit \/ Crash
    BY <2>1 DEF Exit, Crash, ProcessEnds, Unseen
  <2>2. CASE StopBegins \/ StopCollects \/ StopDrains \/ Restart \/ Started
    BY <2>2 DEF StopBegins, StopCollects, StopDrains, Restart, Started, storeVars,
       deviceVars, Unseen
  <2>3. ASSUME NEW j \in Jobs, StopFails(j)
        PROVE  Unseen \/ Seen
    <3>1. Mutate(j, Fail(active[j], "NOT_PRINTED")) /\ UNCHANGED <<handed, req>>
      BY <2>3 DEF StopFails, deviceVars
    <3>2. QED
      BY <1>1, <1>2, <3>1 DEF Errors
  <2>4. ASSUME NEW j \in Jobs, Resume(j)
        PROVE  Unseen \/ Seen
    BY <2>4 DEF Resume, deviceVars, Unseen
  <2>5. ASSUME NEW j \in Jobs, Reconcile(j)
        PROVE  Unseen \/ Seen
    <3>1. /\ Stored(j) /\ ~IsTerminal(repo[j]) /\ req[j] # "new"
          /\ repo[j] \in JobRecord
      BY <2>5 DEF Reconcile, RecordsAgree, RecordOf, Stored, TypeInv, TypeOK
    <3>2. Settled(repo[j]) \in JobRecord
      BY <3>1, SettledType
    <3>3. /\ repo'[j] \in {repo[j], Settled(repo[j])} /\ UNCHANGED <<handed, req>>
          /\ \A k \in Jobs \ {j} : repo'[k] = repo[k]
      BY <2>5 DEF Reconcile, Persist, deviceVars, TypeInv, TypeOK
    <3>4. Written(j)
      BY <3>1, <3>2, <3>3 DEF Written, Others
    <3>5. QED
      BY <3>4
  <2>6. ASSUME NEW j \in Jobs, Purge(j)
        PROVE  Unseen \/ Seen
    <3>1. /\ Retention /\ Stored(j) /\ IsTerminal(repo[j]) /\ repo'[j] = Absent
          /\ UNCHANGED <<handed, req>> /\ \A k \in Jobs \ {j} : repo'[k] = repo[k]
      BY <2>6 DEF Purge, deviceVars, TypeInv, TypeOK
    <3>2. req[j] # "new"
      BY <3>1 DEF RecordsAgree, RecordOf
    <3>3. Forgotten(j)
      BY <3>1, <3>2 DEF Forgotten, Others
    <3>4. QED
      BY <3>3
  <2>7. QED
    BY <1>9, <2>1, <2>2, <2>3, <2>4, <2>5, <2>6 DEF ProcessStep
<1>10. QED
  BY <1>3, <1>4, <1>5, <1>6, <1>7, <1>8, <1>9 DEF Next

\* A settled record is final, for any number of jobs, crashes, failing writes,
\* late answers, cancellations and shutdowns: it is never written again.
THEOREM SettledIsNeverRewritten == Spec => TerminalIsFinal
<1> DEFINE Final == \A j \in Jobs : Stored(j) /\ IsTerminal(repo[j])
                                      => repo'[j] \in {repo[j], Absent}
<1>1. ASSUME EngineInv, [Next]_vars
      PROVE  Final
  <2> SUFFICES ASSUME NEW j \in Jobs, Stored(j), IsTerminal(repo[j])
               PROVE  repo'[j] \in {repo[j], Absent}
    OBVIOUS
  <2>1. CASE Unseen
    BY <2>1 DEF Unseen
  <2>2. ASSUME NEW k \in Jobs, Arrives(k) \/ Written(k) \/ Leaves(k) \/ Forgotten(k)
        PROVE  repo'[j] \in {repo[j], Absent}
    <3>1. CASE k # j
      BY <2>2, <3>1 DEF Arrives, Written, Leaves, Forgotten, Others
    <3>2. CASE k = j
      <4>1. req[j] # "new"
        BY <1>1 DEF EngineInv, RecordsAgree, RecordOf
      <4>2. QED
        BY <2>2, <3>2, <4>1 DEF Arrives, Written, Leaves, Forgotten
    <3>3. QED
      BY <3>1, <3>2
  <2>3. QED
    BY <1>1, <2>1, <2>2, VisibleStep
<1>2. EngineInv /\ [Next]_vars => [Final]_vars
  BY <1>1
<1>3. QED
  BY <1>2, RecordsHold, PTL DEF Spec, TerminalIsFinal

-----------------------------------------------------------------------------
(* The byte budget.  It is a sum over the jobs that hold a reservation;    *)
(* counted byte by byte it is the size of a set, so that reserving and     *)
(* releasing are adding to a set and taking away from it.                  *)

Holders == {j \in Jobs : HoldsBytes(j)}

\* The invariant: the bytes held are finitely many, and counted exactly.
BudgetInv == IsFiniteSet(PayloadBytes(Holders)) /\ BudgetIsExact

\* Who holds the bytes of a job, given where jobs are.
AtRequest(j) == req[j] \in {"reserved", "marked"}
InChannel(j) == \E p \in Printers : \E i \in 1..Len(queue[p]) : queue[p][i] = j
AtWorker(j) == \E p \in Printers : wjob[p] = j

LEMMA HoldsIs == \A j : HoldsBytes(j) <=> AtRequest(j) \/ InChannel(j) \/ AtWorker(j)
BY DEF HoldsBytes, AtRequest, InChannel, AtWorker

\* One party at a time holds them.
LEMMA OneHolder ==
  ASSUME TypeInv, Custody, NEW j \in Jobs
  PROVE  /\ InChannel(j) \/ AtWorker(j) => req[j] = "done"
         /\ \A p \in Printers : wjob[p] = j => p = PrinterOf[j]
         /\ \A p \in Printers : \A i \in 1..Len(queue[p]) :
              queue[p][i] = j => p = PrinterOf[j] /\ ~AtWorker(j)
<1>1. \A p \in Printers : wjob[p] = j => p = PrinterOf[j] /\ req[j] = "done"
  <2> SUFFICES ASSUME NEW p \in Printers, wjob[p] = j
               PROVE  p = PrinterOf[j] /\ req[j] = "done"
    OBVIOUS
  <2>1. wpc[p] \in {"none", "idle", "taken", "claimed", "waiting", "late"} /\ j # NoJob
    BY NoJobAssumption DEF TypeInv, TypeOK, WorkerSteps
  <2> QED BY <2>1 DEF Custody, WorkerCustody
<1>2. \A p \in Printers : \A i \in 1..Len(queue[p]) :
        queue[p][i] = j => p = PrinterOf[j] /\ req[j] = "done" /\ wjob[p] # j
  BY DEF Custody, QueueCustody
<1> QED BY <1>1, <1>2 DEF InChannel, AtWorker

-----------------------------------------------------------------------------
(* Bytes of sets of jobs.                                                  *)

LEMMA BytesOfOne ==
  ASSUME NEW j \in Jobs
  PROVE  IsFiniteSet(PayloadBytes({j})) /\ Cardinality(PayloadBytes({j})) = Size[j]
<1>1. PayloadBytes({j}) = {j} \X (1..Size[j])
  BY DEF PayloadBytes
<1>2. Size[j] \in Nat /\ Size[j] >= 1
  BY ConstantsAssumption
<1>3. IsFiniteSet(1..Size[j]) /\ Cardinality(1..Size[j]) = Size[j]
  BY <1>2, FS_Interval
<1>4. IsFiniteSet({j}) /\ Cardinality({j}) = 1
  BY FS_Singleton
<1>5. /\ IsFiniteSet({j} \X (1..Size[j]))
      /\ Cardinality({j} \X (1..Size[j])) = Cardinality({j}) * Cardinality(1..Size[j])
  <2> DEFINE one == {j}
             bytes == 1..Size[j]
  <2>1. IsFiniteSet(one) /\ IsFiniteSet(bytes)
    BY <1>3, <1>4
  <2> HIDE DEF one, bytes
  <2>2. /\ IsFiniteSet(one \X bytes)
        /\ Cardinality(one \X bytes) = Cardinality(one) * Cardinality(bytes)
    BY <2>1, FS_Product
  <2> QED BY <2>2 DEF one, bytes
<1>6. IsFiniteSet(PayloadBytes({j})) /\ Cardinality(PayloadBytes({j})) = 1 * Size[j]
  <2>1. Cardinality({j}) * Cardinality(1..Size[j]) = 1 * Size[j]
    BY <1>3, <1>4, Zenon
  <2> QED BY <1>1, <1>5, <2>1, Zenon
<1> QED BY <1>2, <1>6

LEMMA BytesOfMany ==
  ASSUME NEW S \in SUBSET Jobs, NEW T \in SUBSET Jobs
  PROVE  /\ PayloadBytes(S \cup T) = PayloadBytes(S) \cup PayloadBytes(T)
         /\ PayloadBytes(S \ T) = PayloadBytes(S) \ PayloadBytes(T)
         /\ S \cap T = {} => PayloadBytes(S) \cap PayloadBytes(T) = {}
         /\ T \subseteq S => PayloadBytes(S) \cap PayloadBytes(T) = PayloadBytes(T)
<1>0. \A j \in Jobs : Size[j] \in Nat
  BY ConstantsAssumption
<1>1. ASSUME NEW X \in SUBSET Jobs
      PROVE  \A b : b \in PayloadBytes(X) <=>
               \E j \in X : \E n \in 1..Size[j] : b = <<j, n>>
  BY DEF PayloadBytes
<1>2. \A X \in SUBSET Jobs : \A b : b \in PayloadBytes(X) <=>
        \E j \in X : \E n \in 1..Size[j] : b = <<j, n>>
  BY <1>1
<1>3. S \cup T \in SUBSET Jobs /\ S \ T \in SUBSET Jobs
  OBVIOUS
<1>4. PayloadBytes(S \cup T) = PayloadBytes(S) \cup PayloadBytes(T)
  BY <1>2, <1>3
<1>5. ASSUME NEW b, b \in PayloadBytes(S), b \in PayloadBytes(T)
      PROVE  \E j \in S \cap T : b \in PayloadBytes({j})
  <2>1. PICK j \in S : \E n \in 1..Size[j] : b = <<j, n>>
    BY <1>2, <1>5
  <2>2. PICK k \in T : \E m \in 1..Size[k] : b = <<k, m>>
    BY <1>2, <1>5
  <2>3. j = k
    BY <2>1, <2>2
  <2> QED BY <1>2, <2>1, <2>2, <2>3
<1>6. PayloadBytes(S \ T) = PayloadBytes(S) \ PayloadBytes(T)
  <2>1. ASSUME NEW b \in PayloadBytes(S \ T) PROVE b \in PayloadBytes(S) /\ b \notin PayloadBytes(T)
    <3>1. PICK j \in S \ T : \E n \in 1..Size[j] : b = <<j, n>>
      BY <1>2, <1>3
    <3>2. b \in PayloadBytes(S)
      BY <1>2, <3>1
    <3>3. ASSUME b \in PayloadBytes(T) PROVE FALSE
      <4>1. PICK k \in T : \E m \in 1..Size[k] : b = <<k, m>>
        BY <1>2, <3>3
      <4> QED BY <3>1, <4>1
    <3> QED BY <3>2, <3>3
  <2>2. ASSUME NEW b \in PayloadBytes(S), b \notin PayloadBytes(T) PROVE b \in PayloadBytes(S \ T)
    <3>1. PICK j \in S : \E n \in 1..Size[j] : b = <<j, n>>
      BY <1>2
    <3>2. j \notin T
      BY <1>2, <2>2, <3>1
    <3> QED BY <1>2, <1>3, <3>1, <3>2
  <2> QED BY <2>1, <2>2
<1>7. S \cap T = {} => PayloadBytes(S) \cap PayloadBytes(T) = {}
  BY <1>5
<1>8. T \subseteq S => PayloadBytes(S) \cap PayloadBytes(T) = PayloadBytes(T)
  BY <1>2
<1> QED BY <1>4, <1>6, <1>7, <1>8

-----------------------------------------------------------------------------
(* The three things that happen to the budget.                             *)

\* Nobody reserves or releases.
LEMMA BudgetFrame ==
  ASSUME BudgetInv, used' = used, \A k \in Jobs : HoldsBytes(k)' <=> HoldsBytes(k)
  PROVE  BudgetInv'
<1>1. Holders' = Holders
  BY DEF Holders
<1>2. PayloadBytes(Holders)' = PayloadBytes(Holders)
  BY <1>1 DEF PayloadBytes
<1>3. BudgetInv <=> /\ IsFiniteSet(PayloadBytes(Holders))
                    /\ used = Cardinality(PayloadBytes(Holders)) /\ used <= MaxQueuedBytes
  BY DEF BudgetInv, BudgetIsExact, Holders
<1>4. BudgetInv' <=> /\ IsFiniteSet(PayloadBytes(Holders)')
                     /\ used' = Cardinality(PayloadBytes(Holders)') /\ used' <= MaxQueuedBytes
  BY DEF BudgetInv, BudgetIsExact, Holders, PayloadBytes
<1> QED BY <1>2, <1>3, <1>4

LEMMA BudgetReserve ==
  ASSUME BudgetInv, NEW j \in Jobs, ~HoldsBytes(j),
         used' = used + Size[j], used' <= MaxQueuedBytes,
         \A k \in Jobs : HoldsBytes(k)' <=> HoldsBytes(k) \/ k = j
  PROVE  BudgetInv'
<1>1. Holders' = Holders \cup {j} /\ Holders \in SUBSET Jobs /\ j \notin Holders
  BY DEF Holders
<1>2. PayloadBytes(Holders)' = PayloadBytes(Holders \cup {j})
  BY <1>1 DEF PayloadBytes
<1>3. /\ IsFiniteSet(PayloadBytes(Holders))
      /\ used = Cardinality(PayloadBytes(Holders)) /\ used <= MaxQueuedBytes
  BY DEF BudgetInv, BudgetIsExact, Holders
<1>4. /\ PayloadBytes(Holders \cup {j}) = PayloadBytes(Holders) \cup PayloadBytes({j})
      /\ PayloadBytes(Holders) \cap PayloadBytes({j}) = {}
  BY <1>1, BytesOfMany
<1>5. IsFiniteSet(PayloadBytes({j})) /\ Cardinality(PayloadBytes({j})) = Size[j] /\ Size[j] \in Nat
  BY BytesOfOne, ConstantsAssumption
<1>6. /\ IsFiniteSet(PayloadBytes(Holders \cup {j}))
      /\ Cardinality(PayloadBytes(Holders \cup {j}))
           = Cardinality(PayloadBytes(Holders)) + Cardinality(PayloadBytes({j})) - Cardinality({})
  <2> DEFINE held == PayloadBytes(Holders)
             new == PayloadBytes({j})
  <2> HIDE DEF held, new
  <2>1. IsFiniteSet(held) /\ IsFiniteSet(new)
    BY <1>3, <1>5 DEF held, new
  <2>2. /\ IsFiniteSet(held \cup new)
        /\ Cardinality(held \cup new)
             = Cardinality(held) + Cardinality(new) - Cardinality(held \cap new)
    BY <2>1, FS_Union
  <2>3. held \cap new = {} /\ PayloadBytes(Holders \cup {j}) = held \cup new
    BY <1>4 DEF held, new
  <2> QED BY <2>2, <2>3 DEF held, new
<1>7. Cardinality({}) = 0 /\ Cardinality(PayloadBytes(Holders)) \in Nat
  BY <1>3, FS_EmptySet, FS_CardinalityType
<1>8. used' = Cardinality(PayloadBytes(Holders \cup {j}))
  BY <1>3, <1>5, <1>6, <1>7
<1> QED BY <1>2, <1>6, <1>8 DEF BudgetInv, BudgetIsExact, Holders, PayloadBytes

LEMMA BudgetRelease ==
  ASSUME BudgetInv, NEW S \in SUBSET Jobs, \A k \in S : HoldsBytes(k),
         used' = used - Cardinality(PayloadBytes(S)),
         \A k \in Jobs : HoldsBytes(k)' <=> HoldsBytes(k) /\ k \notin S
  PROVE  BudgetInv'
<1>1. Holders' = Holders \ S /\ Holders \in SUBSET Jobs /\ S \subseteq Holders
  BY DEF Holders
<1>2. PayloadBytes(Holders)' = PayloadBytes(Holders \ S)
  BY <1>1 DEF PayloadBytes
<1>3. /\ IsFiniteSet(PayloadBytes(Holders))
      /\ used = Cardinality(PayloadBytes(Holders)) /\ used <= MaxQueuedBytes
  BY DEF BudgetInv, BudgetIsExact, Holders
<1>4. /\ PayloadBytes(Holders \ S) = PayloadBytes(Holders) \ PayloadBytes(S)
      /\ PayloadBytes(Holders) \cap PayloadBytes(S) = PayloadBytes(S)
  BY <1>1, BytesOfMany
<1>5. /\ IsFiniteSet(PayloadBytes(Holders \ S))
      /\ Cardinality(PayloadBytes(Holders \ S))
           = Cardinality(PayloadBytes(Holders)) - Cardinality(PayloadBytes(S))
  <2> DEFINE held == PayloadBytes(Holders)
             freed == PayloadBytes(S)
  <2> HIDE DEF held, freed
  <2>1. IsFiniteSet(held)
    BY <1>3 DEF held
  <2>2. /\ IsFiniteSet(held \ freed)
        /\ Cardinality(held \ freed) = Cardinality(held) - Cardinality(held \cap freed)
    BY <2>1, FS_Difference
  <2>3. held \cap freed = freed /\ PayloadBytes(Holders \ S) = held \ freed
    BY <1>4 DEF held, freed
  <2> QED BY <2>2, <2>3 DEF held, freed
<1>6. Cardinality(PayloadBytes(Holders)) \in Nat /\ Cardinality(PayloadBytes(S)) \in Nat
  <2>1. PayloadBytes(S) \in SUBSET PayloadBytes(Holders)
    BY <1>4
  <2> QED BY <1>3, <2>1, FS_Subset, FS_CardinalityType
<1>7. used' = Cardinality(PayloadBytes(Holders \ S)) /\ used' <= used
  BY <1>3, <1>5, <1>6
<1>8. used' <= MaxQueuedBytes
  BY <1>3, <1>6, <1>7, ConstantsAssumption
<1> QED BY <1>2, <1>5, <1>7, <1>8 DEF BudgetInv, BudgetIsExact, Holders, PayloadBytes

LEMMA BudgetReleaseOne ==
  ASSUME BudgetInv, NEW j \in Jobs, HoldsBytes(j), Release(j),
         \A k \in Jobs : HoldsBytes(k)' <=> HoldsBytes(k) /\ k # j
  PROVE  BudgetInv'
<1>1. used' = used - Cardinality(PayloadBytes({j}))
  BY BytesOfOne DEF Release
<1> QED BY <1>1, BudgetRelease

-----------------------------------------------------------------------------
(* Step by step.                                                           *)

\* Steps that leave the channels, the workers' jobs and the budget alone, and
\* move a request neither into the two states that hold bytes nor out of them.
LEMMA BudgetQuiet ==
  ASSUME BudgetInv, UNCHANGED <<used, queue, wjob>>,
         \A k \in Jobs : AtRequest(k)' <=> AtRequest(k)
  PROVE  BudgetInv'
<1>1. \A k \in Jobs : HoldsBytes(k)' <=> HoldsBytes(k)
  BY DEF HoldsBytes, AtRequest
<1> QED BY <1>1, BudgetFrame

LEMMA BudgetSubmit ==
  ASSUME TypeInv, Custody, BudgetInv, NEW j \in Jobs, SubmitStep(j)
  PROVE  BudgetInv'
<1>0. /\ req \in [Jobs -> SubmitSteps]
      /\ InChannel(j) \/ AtWorker(j) => req[j] = "done"
  BY OneHolder DEF TypeInv, TypeOK
<1>1. CASE /\ UNCHANGED <<used, queue, wjob>>
           /\ req[j] \notin {"reserved", "marked"}
           /\ \E s \in SubmitSteps \ {"reserved", "marked"} : req' = [req EXCEPT ![j] = s]
  BY <1>0, <1>1, BudgetQuiet DEF AtRequest
<1>2. CASE Reserve(j) /\ used + Size[j] <= MaxQueuedBytes /\ used' = used + Size[j]
           /\ req' = [req EXCEPT ![j] = "reserved"]
  <2>1. req[j] = "preparing" /\ UNCHANGED <<queue, wjob>>
    BY <1>2 DEF Reserve, workerVars
  <2>2. ~HoldsBytes(j)
    BY <1>0, <2>1, HoldsIs DEF AtRequest
  <2>3. \A k \in Jobs : HoldsBytes(k)' <=> HoldsBytes(k) \/ k = j
    BY <1>0, <1>2, <2>1 DEF HoldsBytes
  <2> QED BY <1>2, <2>2, <2>3, BudgetReserve
<1>3. CASE MarkQueued(j) /\ UNCHANGED used /\ req' = [req EXCEPT ![j] = "marked"]
  <2>1. req[j] = "reserved" /\ UNCHANGED <<queue, wjob>>
    BY <1>3 DEF MarkQueued, workerVars
  <2> QED BY <1>0, <1>3, <2>1, BudgetQuiet DEF AtRequest
<1>4. CASE /\ req[j] \in {"reserved", "marked"} /\ Release(j) /\ UNCHANGED <<queue, wjob>>
           /\ \E s \in {"done", "failing"} : req' = [req EXCEPT ![j] = s]
  <2>1. HoldsBytes(j) /\ ~InChannel(j) /\ ~AtWorker(j)
    BY <1>0, <1>4 DEF HoldsBytes
  <2>2. \A k \in Jobs : AtRequest(k)' <=> AtRequest(k) /\ k # j
    BY <1>0, <1>4 DEF AtRequest
  <2>3. \A k : (InChannel(k)' <=> InChannel(k)) /\ (AtWorker(k)' <=> AtWorker(k))
    BY <1>4 DEF InChannel, AtWorker
  <2>4. \A k \in Jobs : HoldsBytes(k)' <=> AtRequest(k)' \/ InChannel(k)' \/ AtWorker(k)'
    BY DEF HoldsBytes, AtRequest, InChannel, AtWorker
  <2>5. \A k \in Jobs : HoldsBytes(k)' <=> HoldsBytes(k) /\ k # j
    BY <2>1, <2>2, <2>3, <2>4, HoldsIs
  <2> QED BY <1>4, <2>1, <2>5, BudgetReleaseOne
<1>5. CASE Send(j)
  <2> DEFINE p == PrinterOf[j]
  <2>1. /\ req[j] = "marked" /\ UNCHANGED <<used, wjob>>
        /\ queue' = [queue EXCEPT ![p] = Append(queue[p], j)]
        /\ req' = [req EXCEPT ![j] = "done"]
    BY <1>5 DEF Send
  <2>2. p \in Printers /\ queue \in [Printers -> Seq(Jobs)] /\ queue[p] \in Seq(Jobs)
    BY ConstantsAssumption DEF TypeInv, TypeOK
  <2>3. /\ \A q \in Printers \ {p} : queue'[q] = queue[q]
        /\ Len(queue'[p]) = Len(queue[p]) + 1
        /\ queue'[p][Len(queue[p]) + 1] = j
        /\ \A i \in 1..Len(queue[p]) : queue'[p][i] = queue[p][i]
    BY <2>1, <2>2
  <2>4. \A k \in Jobs : InChannel(k)' <=> InChannel(k) \/ k = j
    <3> SUFFICES ASSUME NEW k \in Jobs PROVE InChannel(k)' <=> InChannel(k) \/ k = j
      OBVIOUS
    <3>1. ASSUME InChannel(k)' PROVE InChannel(k) \/ k = j
      <4>1. PICK q \in Printers : \E i \in 1..Len(queue'[q]) : queue'[q][i] = k
        BY <3>1 DEF InChannel
      <4>2. PICK i \in 1..Len(queue'[q]) : queue'[q][i] = k
        BY <4>1
      <4>3. CASE q # p
        BY <2>3, <4>2, <4>3 DEF InChannel
      <4>4. CASE q = p /\ i \in 1..Len(queue[p])
        BY <2>2, <2>3, <4>2, <4>4 DEF InChannel
      <4>5. CASE q = p /\ i = Len(queue[p]) + 1
        BY <2>3, <4>2, <4>5
      <4> QED BY <2>2, <2>3, <4>2, <4>3, <4>4, <4>5
    <3>2. ASSUME InChannel(k) PROVE InChannel(k)'
      <4>1. PICK q \in Printers : \E i \in 1..Len(queue[q]) : queue[q][i] = k
        BY <3>2 DEF InChannel
      <4>2. PICK i \in 1..Len(queue[q]) : queue[q][i] = k
        BY <4>1
      <4>3. i \in 1..Len(queue'[q]) /\ queue'[q][i] = k
        BY <2>2, <2>3, <4>2
      <4> QED BY <4>3 DEF InChannel
    <3>3. ASSUME k = j PROVE InChannel(k)'
      <4>1. Len(queue[p]) + 1 \in 1..Len(queue'[p])
        BY <2>2, <2>3
      <4> QED BY <2>2, <2>3, <3>3, <4>1 DEF InChannel
    <3> QED BY <3>1, <3>2, <3>3
  <2>5. \A k \in Jobs : AtRequest(k)' <=> AtRequest(k) /\ k # j
    BY <1>0, <2>1 DEF AtRequest
  <2>6. AtRequest(j) /\ \A k \in Jobs : AtWorker(k)' <=> AtWorker(k)
    BY <2>1 DEF AtRequest, AtWorker
  <2>7. \A k \in Jobs : HoldsBytes(k)' <=> AtRequest(k)' \/ InChannel(k)' \/ AtWorker(k)'
    BY DEF HoldsBytes, AtRequest, InChannel, AtWorker
  <2>8. \A k \in Jobs : HoldsBytes(k)' <=> HoldsBytes(k)
    BY <2>4, <2>5, <2>6, <2>7, HoldsIs
  <2> QED BY <2>1, <2>8, BudgetFrame
<1> QED
  BY <1>1, <1>2, <1>3, <1>4, <1>5
     DEF SubmitStep, Submit, SubmitDuplicate, Validate, PrepareFails, Abandon, Reserve,
         MarkQueued, SendFails, SubmitFails, SubmitSteps, workerVars

\* The jobs in the channel of a printer.
Channel(p) == {queue[p][i] : i \in 1..Len(queue[p])}

LEMMA ChannelIs == \A k : InChannel(k) <=> \E p \in Printers : k \in Channel(p)
BY DEF InChannel, Channel

LEMMA BudgetTake ==
  ASSUME TypeInv, Custody, BudgetInv, NEW p \in Printers, TakeJob(p)
  PROVE  BudgetInv'
<1> DEFINE j == queue[p][1]
<1>1. queue \in [Printers -> Seq(Jobs)] /\ queue[p] \in Seq(Jobs) /\ Len(queue[p]) >= 1
  BY DEF TypeInv, TypeOK, TakeJob
<1>2. /\ wpc[p] = "idle" /\ UNCHANGED <<used, req>>
      /\ wjob' = [wjob EXCEPT ![p] = j]
      /\ queue' = [queue EXCEPT ![p] = Tail(queue[p])]
  BY <1>1 DEF TakeJob
<1>3. wjob \in [Printers -> Jobs \cup {NoJob}] /\ wjob[p] = NoJob
  BY <1>2 DEF Custody, WorkerCustody, TypeInv, TypeOK
<1>4. Channel(p) = Channel(p)' \cup {j}
  <2>1. /\ Len(queue'[p]) = Len(queue[p]) - 1 /\ Len(queue[p]) \in Nat
        /\ \A i \in 1..Len(queue'[p]) : queue'[p][i] = queue[p][i + 1]
    BY <1>1, <1>2
  <2>2. ASSUME NEW i \in 1..Len(queue[p]) PROVE queue[p][i] \in Channel(p)' \cup {j}
    <3>1. CASE i = 1
      BY <3>1
    <3>2. CASE i # 1
      <4>1. i - 1 \in 1..Len(queue'[p]) /\ (i - 1) + 1 = i
        BY <2>1, <2>2, <3>2
      <4> QED BY <2>1, <4>1 DEF Channel
    <3> QED BY <3>1, <3>2
  <2>3. ASSUME NEW i \in 1..Len(queue'[p]) PROVE queue'[p][i] \in Channel(p)
    <3>1. i + 1 \in 1..Len(queue[p]) /\ queue'[p][i] = queue[p][i + 1]
      BY <2>1, <2>3
    <3> QED BY <3>1 DEF Channel
  <2>4. j \in Channel(p)
    BY <1>1 DEF Channel
  <2>5. Channel(p)' = {queue'[p][i] : i \in 1..Len(queue'[p])}
    BY DEF Channel
  <2>6. Channel(p) = {queue[p][i] : i \in 1..Len(queue[p])}
    BY DEF Channel
  <2> QED BY <2>2, <2>3, <2>4, <2>5, <2>6
<1>5. \A q \in Printers \ {p} : Channel(q)' = Channel(q) /\ wjob'[q] = wjob[q]
  BY <1>1, <1>2, <1>3 DEF Channel
<1>6. wjob'[p] = j
  BY <1>2, <1>3
<1>7. ASSUME NEW k \in Jobs PROVE HoldsBytes(k)' <=> HoldsBytes(k)
  <2>1. HoldsBytes(k) <=> \/ req[k] \in {"reserved", "marked"}
                          \/ \E q \in Printers : k \in Channel(q) \/ wjob[q] = k
    BY DEF HoldsBytes, Channel
  <2>2. HoldsBytes(k)' <=> \/ req'[k] \in {"reserved", "marked"}
                           \/ \E q \in Printers : k \in Channel(q)' \/ wjob'[q] = k
    BY DEF HoldsBytes, Channel
  <2>3. \A q \in Printers : k \in Channel(q)' \/ wjob'[q] = k <=> k \in Channel(q) \/ wjob[q] = k
    BY <1>3, <1>4, <1>5, <1>6, NoJobAssumption
  <2> QED BY <1>2, <2>1, <2>2, <2>3
<1> QED BY <1>2, <1>7, BudgetFrame

LEMMA BudgetWorkerStops ==
  ASSUME TypeInv, Custody, BudgetInv, NEW p \in Printers, WorkerStops(p)
  PROVE  BudgetInv'
<1>1. /\ queue' = [queue EXCEPT ![p] = <<>>] /\ UNCHANGED <<req, wjob>>
      /\ used' = used - Cardinality(PayloadBytes(Channel(p)))
  BY DEF WorkerStops, Channel
<1>2. queue \in [Printers -> Seq(Jobs)] /\ Channel(p) \in SUBSET Jobs
  BY DEF TypeInv, TypeOK, Channel
<1>3. \A k \in Channel(p) : HoldsBytes(k)
  BY DEF HoldsBytes, Channel
<1>4. Channel(p)' = {} /\ \A q \in Printers \ {p} : Channel(q)' = Channel(q)
  BY <1>1, <1>2 DEF Channel
<1>5. ASSUME NEW k \in Jobs PROVE HoldsBytes(k)' <=> HoldsBytes(k) /\ k \notin Channel(p)
  <2>1. HoldsBytes(k) <=> \/ req[k] \in {"reserved", "marked"}
                          \/ \E q \in Printers : k \in Channel(q) \/ wjob[q] = k
    BY DEF HoldsBytes, Channel
  <2>2. HoldsBytes(k)' <=> \/ req'[k] \in {"reserved", "marked"}
                           \/ \E q \in Printers : k \in Channel(q)' \/ wjob'[q] = k
    BY DEF HoldsBytes, Channel
  <2>3. k \in Channel(p) => /\ req[k] = "done"
                            /\ \A q \in Printers : k \in Channel(q) => q = p
                            /\ \A q \in Printers : wjob[q] # k
    <3>1. \A q \in Printers : k \in Channel(q) => q = PrinterOf[k] /\ ~AtWorker(k)
      BY OneHolder DEF Channel
    <3>2. k \in Channel(p) => req[k] = "done"
      BY OneHolder, ChannelIs
    <3> QED BY <3>1, <3>2 DEF AtWorker
  <2> QED BY <1>1, <1>4, <2>1, <2>2, <2>3
<1> QED BY <1>1, <1>2, <1>3, <1>5, BudgetRelease

\* The worker lets go of its job.
LEMMA BudgetLetsGo ==
  ASSUME TypeInv, Custody, BudgetInv, NEW p \in Printers,
         wpc[p] \in {"taken", "waiting", "late"},
         Release(wjob[p]), wjob' = [wjob EXCEPT ![p] = NoJob], UNCHANGED <<queue, req>>
  PROVE  BudgetInv'
<1> DEFINE j == wjob[p]
<1>1. j \in Jobs /\ wjob \in [Printers -> Jobs \cup {NoJob}]
  BY DEF TypeInv, TypeOK, SlotsFilled, WorkerSteps
<1>2. /\ req[j] = "done" /\ HoldsBytes(j)
      /\ \A q \in Printers : j \notin Channel(q)
      /\ \A q \in Printers : wjob[q] = j => q = p
  <2>1. AtWorker(j) /\ HoldsBytes(j)
    BY DEF AtWorker, HoldsBytes
  <2>2. \A q \in Printers : j \notin Channel(q)
    BY <1>1, <2>1, OneHolder DEF Channel
  <2> QED BY <1>1, <2>1, <2>2, OneHolder
<1>3. \A q \in Printers : Channel(q)' = Channel(q)
  BY DEF Channel
<1>4. ASSUME NEW k \in Jobs PROVE HoldsBytes(k)' <=> HoldsBytes(k) /\ k # j
  <2>1. HoldsBytes(k) <=> \/ req[k] \in {"reserved", "marked"}
                          \/ \E q \in Printers : k \in Channel(q) \/ wjob[q] = k
    BY DEF HoldsBytes, Channel
  <2>2. HoldsBytes(k)' <=> \/ req'[k] \in {"reserved", "marked"}
                           \/ \E q \in Printers : k \in Channel(q)' \/ wjob'[q] = k
    BY DEF HoldsBytes, Channel
  <2>3. wjob'[p] = NoJob /\ NoJob \notin Jobs /\ \A q \in Printers \ {p} : wjob'[q] = wjob[q]
    BY <1>1, NoJobAssumption
  <2> QED BY <1>1, <1>2, <1>3, <2>1, <2>2, <2>3
<1> QED BY <1>1, <1>2, <1>4, BudgetReleaseOne

LEMMA BudgetWorker ==
  ASSUME TypeInv, Custody, BudgetInv, NEW p \in Printers, WorkerStep(p)
  PROVE  BudgetInv'
<1>1. CASE TakeJob(p)
  BY <1>1, BudgetTake
<1>2. CASE WorkerStops(p)
  BY <1>2, BudgetWorkerStops
<1>3. CASE Claim(p)
  <2>1. CASE UNCHANGED <<wjob, used>>
    BY <1>3, <2>1, BudgetQuiet DEF Claim, AtRequest
  <2>2. CASE Release(wjob[p]) /\ wjob' = [wjob EXCEPT ![p] = NoJob]
    BY <1>3, <2>2, BudgetLetsGo DEF Claim
  <2> QED BY <1>3, <2>1, <2>2 DEF Claim
<1>4. CASE StartCall(p) \/ SubmitTimeout(p)
  BY <1>4, BudgetQuiet DEF StartCall, SubmitTimeout, AtRequest
<1>5. CASE CallEnds(p) /\ wpc[p] \in {"waiting", "late"}
  BY <1>5, BudgetLetsGo DEF CallEnds
<1> QED
  BY <1>1, <1>2, <1>3, <1>4, <1>5 DEF WorkerStep, Delivered, Spooled, SubmitErr, LateReturn

LEMMA BudgetProcessEnds ==
  ASSUME ProcessEnds
  PROVE  BudgetInv'
<1>1. \A k \in Jobs : ~HoldsBytes(k)'
  BY NoJobAssumption DEF ProcessEnds, HoldsBytes
<1>2. PayloadBytes(Holders)' = {}
  <2>1. Holders' = {}
    BY <1>1 DEF Holders
  <2> QED BY <2>1 DEF PayloadBytes
<1>3. IsFiniteSet({}) /\ Cardinality({}) = 0
  BY FS_EmptySet
<1>4. used' = 0 /\ used' <= MaxQueuedBytes
  BY ConstantsAssumption DEF ProcessEnds
<1>5. BudgetInv' <=> /\ IsFiniteSet(PayloadBytes(Holders)')
                     /\ used' = Cardinality(PayloadBytes(Holders)') /\ used' <= MaxQueuedBytes
  BY DEF BudgetInv, BudgetIsExact, Holders, PayloadBytes
<1> QED BY <1>2, <1>3, <1>4, <1>5

LEMMA BudgetInit == Init => BudgetInv
<1> SUFFICES ASSUME Init PROVE BudgetInv
  OBVIOUS
<1>1. \A k \in Jobs : ~HoldsBytes(k)
  BY NoJobAssumption DEF Init, HoldsBytes
<1>2. PayloadBytes(Holders) = {}
  <2>1. Holders = {}
    BY <1>1 DEF Holders
  <2> QED BY <2>1 DEF PayloadBytes
<1>3. IsFiniteSet({}) /\ Cardinality({}) = 0
  BY FS_EmptySet
<1>4. used = 0 /\ used <= MaxQueuedBytes
  BY ConstantsAssumption DEF Init
<1>5. BudgetInv <=> /\ IsFiniteSet(PayloadBytes(Holders))
                    /\ used = Cardinality(PayloadBytes(Holders)) /\ used <= MaxQueuedBytes
  BY DEF BudgetInv, BudgetIsExact, Holders
<1> QED BY <1>2, <1>3, <1>4, <1>5

LEMMA BudgetStep == TypeInv /\ Custody /\ BudgetInv /\ [Next]_vars => BudgetInv'
<1> SUFFICES ASSUME TypeInv, Custody, BudgetInv, [Next]_vars
             PROVE  BudgetInv'
  OBVIOUS
<1> USE DEF workerVars, AtRequest
<1>1. CASE UNCHANGED vars
  BY <1>1, BudgetQuiet DEF vars
<1>2. ASSUME NEW j \in Jobs, MonitorStep(j) \/ SpoolMoves(j) \/ HandOver(j)
      PROVE  BudgetInv'
  BY <1>2, BudgetQuiet
     DEF MonitorStep, MonitorPoll, MonitorStops, MonitorSeesGone, MonitorApply,
         SpoolMoves, HandOver
<1>3. ASSUME NEW c \in Callers, CancelStep(c)
      PROVE  BudgetInv'
  BY <1>3, BudgetQuiet
     DEF CancelStep, CancelBegins, CancelDrops, CancelAnnounces, CancelCalls,
         CancelSettles, CancelUnmarks, CancelAbandoned
<1>4. CASE ProcessStep
  <2>1. CASE Exit \/ Crash
    BY <2>1, BudgetProcessEnds DEF Exit, Crash
  <2>2. CASE ~(Exit \/ Crash)
    BY <1>4, <2>2, BudgetQuiet
       DEF ProcessStep, StopBegins, StopCollects, StopDrains, Restart, Started,
           StopFails, Resume, Reconcile, Purge
  <2> QED BY <2>1, <2>2
<1> QED BY <1>1, <1>2, <1>3, <1>4, BudgetSubmit, BudgetWorker DEF Next

\* The byte budget is what the live reservations add up to, and never above
\* the limit, for every size of every job and on every way a job can leave the
\* engine's hands: an error of the request, a full or closed channel, a job
\* settled while it was queued, a provider call that ends or outlives its
\* timeout, a shutdown that drops a channel, a crash.  So nothing leaks and no
\* reservation is given back twice.
THEOREM BudgetStaysExact == Spec => []BudgetIsExact
<1>1. Init => TypeInv /\ TodoStored /\ Custody /\ BudgetInv
  BY TypeInit, CustodyInit, BudgetInit DEF Init, TodoStored
<1>2. TypeInv /\ TodoStored /\ Custody /\ BudgetInv /\ [Next]_vars
      => TypeInv' /\ TodoStored' /\ Custody' /\ BudgetInv'
  BY TypeStep, TodoStoredStep, CustodyStep, BudgetStep
<1>3. BudgetInv => BudgetIsExact
  BY DEF BudgetInv
<1>4. QED
  BY <1>1, <1>2, <1>3, PTL DEF Spec

===============================================================================
