------------------------- MODULE PrintContractProofs --------------------------
(***************************************************************************)
(* Proofs that the engine keeps its promises to its clients: a job that is *)
(* reported as not printed was not, and every step is one PrintContract    *)
(* allows; every job in memory has a task that will move it, a key stands  *)
(* for one job, and a deletion by the agent is not taken for a completion. *)
(*                                                                         *)
(* Two behaviours of the code stand in the way of the contract, and the    *)
(* theorems name them: a graceful shutdown fails jobs whatever their stage *)
(* has become (StopFails), and a crash after a lost write leaves a record  *)
(* that is behind the paper.                                               *)
(***************************************************************************)
EXTENDS PrintEngineProofs

\* No graceful shutdown; lost writes, or crashes, but not both.
HonestRun == ~GracefulStop /\ (MaxFaults = 0 \/ MaxCrashes = 0)

-----------------------------------------------------------------------------
(* The contract: the invariant.                                            *)

\* NOT_PRINTED is true; without lost writes the stored record is the one in
\* memory, and REQUEST_ACCEPTED, from which a restart concludes that nothing was
\* printed, is true as well.
HonestOf(j) ==
  /\ Stored(j) /\ repo[j].status = "FAILED" /\ repo[j].error = "NOT_PRINTED" =>
       handed[j] = 0 /\ ~Claimed(j)
  /\ MaxFaults = 0 =>
       /\ Active(j) => repo[j] = active[j]
       /\ Stored(j) /\ repo[j].delivery = "REQUEST_ACCEPTED" =>
            handed[j] = 0 /\ ~Claimed(j)

HonestPhase == ~Stopping /\ (MaxCrashes = 0 => phase = "up")

HonestRecords == \A j \in Jobs : HonestOf(j)

Honest == HonestPhase /\ HonestRecords

LEMMA HonestPhaseStep ==
  ASSUME HonestRun, EngineInv, HonestPhase, [Next]_vars
  PROVE  HonestPhase'
<1> USE DEF HonestPhase, HonestRun, Stopping, procVars
<1>1. CASE UNCHANGED vars
  BY <1>1 DEF vars
<1>2. CASE \/ \E j \in Jobs : SubmitStep(j)
           \/ \E p \in Printers : WorkerStep(p)
           \/ \E c \in Callers : CancelStep(c)
  BY <1>2, RunningSteps
<1>3. ASSUME NEW j \in Jobs, MonitorStep(j) \/ HandOver(j) \/ SpoolMoves(j)
      PROVE  HonestPhase'
  BY <1>3 DEF MonitorStep, MonitorPoll, MonitorStops, MonitorSeesGone, MonitorApply,
     HandOver, SpoolMoves
<1>4. CASE ProcessStep
  <2>1. CASE Crash
    <3>1. MaxCrashes # 0 /\ phase' = "down"
      BY <2>1 DEF Crash, ProcessEnds, EngineInv, TypeInv, TypeOK
    <3>2. QED
      BY <3>1
  <2>2. CASE ~Crash
    BY <1>4, <2>2 DEF ProcessStep, StopBegins, StopCollects, StopDrains, Exit, Restart,
       Started, StopFails, Resume, Reconcile, Purge
  <2>3. QED
    BY <2>1, <2>2
<1>5. QED
  BY <1>1, <1>2, <1>3, <1>4 DEF Next

LEMMA HonestFrame ==
  ASSUME NEW k \in Jobs, HonestOf(k), active'[k] = active[k], repo'[k] = repo[k],
         handed'[k] = handed[k], Claimed(k)' => Claimed(k)
  PROVE  HonestOf(k)'
<1>1. (Stored(k)' <=> Stored(k)) /\ (Active(k)' <=> Active(k))
  BY DEF Stored, Active
<1>2. QED
  BY <1>1 DEF HonestOf

\* A mutation that reports NOT_PRINTED only when it is true, and does not take
\* the delivery stage back.
LEMMA HonestMutate ==
  ASSUME EngineInv, HonestRecords, NEW j \in Jobs, NEW after, Mutate(j, after),
         Active(j) =>
           /\ after \in JobRecord
           /\ after.delivery = "REQUEST_ACCEPTED" =>
                /\ active[j].delivery = "REQUEST_ACCEPTED"
                /\ Claimed(j)' => Claimed(j)
           /\ after.status = "FAILED" /\ after.error = "NOT_PRINTED" =>
                handed[j] = 0 /\ ~Claimed(j)',
         ~Active(j) => (Claimed(j)' => Claimed(j)),
         \A k \in Jobs \ {j} : Claimed(k)' => Claimed(k),
         UNCHANGED handed
  PROVE  HonestRecords'
<1> USE DEF EngineInv
<1>1. ASSUME NEW k \in Jobs \ {j}
      PROVE  HonestOf(k)'
  <2>1. active'[k] = active[k] /\ repo'[k] = repo[k]
    BY MutateEffect
  <2>2. QED
    BY <2>1, HonestFrame DEF HonestRecords
<1>2. CASE ~Active(j)
  <2>1. active'[j] = active[j] /\ repo'[j] = repo[j]
    BY <1>2, MutateEffect
  <2>2. HonestOf(j)'
    BY <1>2, <2>1, HonestFrame DEF HonestRecords
  <2>3. QED
    BY <1>1, <2>2 DEF HonestRecords
<1>3. CASE Active(j)
  <2>1. /\ active'[j] = IF IsTerminal(after) THEN Absent ELSE after
        /\ \/ repo'[j] = after
           \/ repo'[j] = repo[j] /\ (active[j] = after \/ MaxFaults # 0)
    BY <1>3, MutateEffect
  <2>2. HonestOf(j)
    BY DEF HonestRecords
  <2>3. MaxFaults = 0 => repo'[j] = after
    BY <1>3, <2>1, <2>2 DEF HonestOf
  <2>4. ~IsTerminal(repo[j])
    BY <1>3 DEF RecordsAgree, RecordOf
  <2>5. repo'[j].status = "FAILED" /\ repo'[j].error = "NOT_PRINTED" =>
          handed[j] = 0 /\ ~Claimed(j)'
    BY <1>3, <2>1, <2>4 DEF IsTerminal, Terminal
  <2>6. after.delivery = "REQUEST_ACCEPTED" => handed[j] = 0 /\ ~Claimed(j)'
    <3>1. KeepsUp(active[j], handed[j], Claimed(j), monitor[j] # "off")
      BY <1>3, ActiveFacts
    <3>2. handed[j] \in {0, 1}
      BY DEF Custody, AtMostOnce, TypeInv, TypeOK
    <3>3. QED
      BY <1>3, <3>1, <3>2 DEF KeepsUp
  <2>7. Active(j)' => active'[j] = after
    BY <2>1 DEF Active
  <2>8. HonestOf(j)'
    BY <2>3, <2>5, <2>6, <2>7 DEF HonestOf
  <2>9. QED
    BY <1>1, <2>8 DEF HonestRecords
<1>4. QED
  BY <1>2, <1>3

LEMMA HonestQuiet ==
  ASSUME HonestRecords, UNCHANGED <<active, repo, handed>>,
         \A k \in Jobs : Claimed(k)' => Claimed(k)
  PROVE  HonestRecords'
BY HonestFrame DEF HonestRecords

LEMMA HonestSubmit ==
  ASSUME EngineInv, HonestRecords, NEW j \in Jobs, SubmitStep(j)
  PROVE  HonestRecords'
<1> USE DEF EngineInv
<1>1. UNCHANGED handed
  BY DEF SubmitStep, Submit, SubmitDuplicate, Validate, PrepareFails, Abandon, Reserve,
     MarkQueued, Send, SendFails, SubmitFails, deviceVars
<1>2. req[j] # "done"
  BY DEF SubmitStep, Submit, SubmitDuplicate, Validate, PrepareFails, Abandon, Reserve,
     MarkQueued, Send, SendFails, SubmitFails
<1>3. \A k \in Jobs : Claimed(k)' <=> Claimed(k)
  BY SubmitKeepsClaims
<1>4. handed[j] = 0 /\ ~Claimed(j)
  BY <1>2, ConstantsAssumption DEF Claimed, Custody, WorkerCustody, RequestCustody
<1>5. \A s \in Statuses : Active(j) =>
        /\ Transition(active[j], s) \in JobRecord
        /\ Transition(active[j], s).delivery = active[j].delivery
  BY ActiveFacts, TransitionType, TransitionEffect
<1>6. CASE Validate(j)
  <2>1. Mutate(j, Transition(active[j], "VALIDATING"))
    BY <1>6 DEF Validate
  <2>2. QED
    BY <1>1, <1>3, <1>4, <1>5, <2>1, HonestMutate DEF Statuses
<1>7. CASE MarkQueued(j)
  <2>1. Mutate(j, Transition(active[j], "QUEUED"))
    BY <1>7 DEF MarkQueued
  <2>2. QED
    BY <1>1, <1>3, <1>4, <1>5, <2>1, HonestMutate DEF Statuses
<1>8. CASE SubmitFails(j)
  <2>1. Mutate(j, Fail(active[j], "absent"))
    BY <1>8 DEF SubmitFails
  <2>2. Active(j) => /\ Fail(active[j], "absent") \in JobRecord
                     /\ Fail(active[j], "absent").delivery = active[j].delivery
    BY ActiveFacts, FailType, FailEffect DEF Errors
  <2>3. QED
    BY <1>1, <1>3, <1>4, <2>1, <2>2, HonestMutate
<1>9. CASE \/ SubmitDuplicate(j) \/ PrepareFails(j) \/ Abandon(j) \/ Reserve(j)
           \/ Send(j) \/ SendFails(j)
  <2>1. UNCHANGED <<active, repo>>
    BY <1>9 DEF SubmitDuplicate, PrepareFails, Abandon, Reserve, Send, SendFails,
       storeVars
  <2>2. QED
    BY <1>1, <1>3, <2>1, HonestQuiet
<1>10. CASE Submit(j)
  <2>1. \/ /\ repo' = [repo EXCEPT ![j] = NewJob]
           /\ active' = [active EXCEPT ![j] = NewJob]
        \/ UNCHANGED <<active, repo>>
    BY <1>10 DEF Submit
  <2>2. CASE UNCHANGED <<active, repo>>
    BY <1>1, <1>3, <2>2, HonestQuiet
  <2>3. CASE /\ repo' = [repo EXCEPT ![j] = NewJob]
             /\ active' = [active EXCEPT ![j] = NewJob]
    <3>1. active'[j] = NewJob /\ repo'[j] = NewJob
      BY <2>3 DEF TypeInv, TypeOK
    <3>2. HonestOf(j)'
      BY <1>1, <1>3, <1>4, <3>1 DEF HonestOf
    <3>3. ASSUME NEW k \in Jobs \ {j}
          PROVE  HonestOf(k)'
      <4>1. active'[k] = active[k] /\ repo'[k] = repo[k]
        BY <2>3 DEF TypeInv, TypeOK
      <4>2. QED
        BY <1>1, <1>3, <4>1, HonestFrame DEF HonestRecords
    <3>4. QED
      BY <3>2, <3>3 DEF HonestRecords
  <2>4. QED
    BY <2>1, <2>2, <2>3
<1>11. QED
  BY <1>6, <1>7, <1>8, <1>9, <1>10 DEF SubmitStep

LEMMA HonestWorker ==
  ASSUME EngineInv, HonestRecords, NEW p \in Printers, WorkerStep(p)
  PROVE  HonestRecords'
<1> USE DEF EngineInv
<1>0. PICK j : j = wjob[p]
  OBVIOUS
<1>1. UNCHANGED handed
  BY DEF WorkerStep, TakeJob, WorkerStops, Claim, StartCall, Delivered, Spooled,
     SubmitErr, SubmitTimeout, LateReturn, CallEnds, deviceVars
<1>2. wpc[p] \in {"taken", "claimed", "waiting", "late"} =>
        j \in Jobs /\ PrinterOf[j] = p
  BY <1>0 DEF TypeInv, SlotsFilled, WorkerSteps, Custody, WorkerCustody
<1>3. CASE TakeJob(p) \/ WorkerStops(p) \/ StartCall(p)
  <2>1. \A k \in Jobs : Claimed(k)' => Claimed(k)
    BY <1>3, ConstantsAssumption
       DEF TakeJob, WorkerStops, StartCall, Claimed, TypeInv, TypeOK
  <2>2. UNCHANGED <<active, repo>>
    BY <1>3 DEF TakeJob, WorkerStops, StartCall, storeVars
  <2>3. QED
    BY <1>1, <2>1, <2>2, HonestQuiet
<1>4. CASE LateReturn(p)
  <2>1. /\ UNCHANGED <<active, repo>> /\ wjob' = [wjob EXCEPT ![p] = NoJob]
        /\ wpc' = [wpc EXCEPT ![p] = "idle"]
    BY <1>4 DEF LateReturn, CallEnds, storeVars
  <2>2. \A k \in Jobs : Claimed(k)' => Claimed(k)
    BY <2>1, ClaimedEnds DEF WorkerSteps
  <2>3. QED
    BY <1>1, <2>1, <2>2, HonestQuiet
<1>5. CASE Claim(p)
  <2> DEFINE after == [active[j] EXCEPT !.delivery = "SUBMITTING"]
  <2>1. /\ wpc[p] = "taken" /\ Mutate(j, after)
        /\ \/ Active(j) /\ wpc' = [wpc EXCEPT ![p] = "claimed"] /\ wjob' = wjob
           \/ /\ ~Active(j) /\ wpc' = [wpc EXCEPT ![p] = "idle"]
              /\ wjob' = [wjob EXCEPT ![p] = NoJob]
    BY <1>0, <1>5 DEF Claim
  <2>2. j \in Jobs /\ PrinterOf[j] = p
    BY <1>2, <2>1
  <2>3. \A k \in Jobs \ {j} : Claimed(k)' => Claimed(k)
    BY <1>0, <2>1, <2>2, ConstantsAssumption DEF Claimed, TypeInv, TypeOK
  <2>4. ~Active(j) => (Claimed(j)' => Claimed(j))
    BY <2>1, <2>2, NoJobAssumption DEF Claimed, TypeInv, TypeOK
  <2>5. Active(j) =>
          /\ after \in JobRecord
          /\ after.delivery = "SUBMITTING" /\ after.status # "FAILED"
    BY <2>2, ActiveFacts DEF JobRecord, Deliveries, IsTerminal, Terminal
  <2> HIDE DEF after
  <2>6. QED
    BY <1>1, <2>1, <2>2, <2>3, <2>4, <2>5, HonestMutate
<1>6. ASSUME NEW after, Mutate(j, after), wpc[p] = "waiting",
             \/ /\ wjob' = [wjob EXCEPT ![p] = NoJob]
                /\ wpc' = [wpc EXCEPT ![p] = "idle"]
             \/ UNCHANGED wjob /\ wpc' = [wpc EXCEPT ![p] = "late"],
             Active(j) =>
               /\ after \in JobRecord /\ after.delivery # "REQUEST_ACCEPTED"
               /\ after.status = "FAILED" /\ after.error = "NOT_PRINTED" =>
                    handed[j] = 0 /\ wjob' = [wjob EXCEPT ![p] = NoJob]
      PROVE  HonestRecords'
  <2>1. j \in Jobs /\ PrinterOf[j] = p
    BY <1>2, <1>6
  <2>2. \A k \in Jobs : Claimed(k)' => Claimed(k)
    <3>1. CASE wjob' = [wjob EXCEPT ![p] = NoJob] /\ wpc' = [wpc EXCEPT ![p] = "idle"]
      BY <3>1, ClaimedEnds DEF WorkerSteps
    <3>2. CASE UNCHANGED wjob /\ wpc' = [wpc EXCEPT ![p] = "late"]
      BY <1>6, <3>2, ConstantsAssumption DEF Claimed, TypeInv, TypeOK
    <3>3. QED
      BY <1>6, <3>1, <3>2
  <2>3. wjob' = [wjob EXCEPT ![p] = NoJob] => ~Claimed(j)'
    BY <2>1, NoJobAssumption DEF Claimed, TypeInv, TypeOK
  <2>4. QED
    BY <1>1, <1>6, <2>1, <2>2, <2>3, HonestMutate
<1>7. wpc[p] = "waiting" /\ Active(j) =>
        /\ active[j] \in JobRecord /\ ~IsTerminal(active[j])
        /\ active[j].delivery = "SUBMITTING"
  BY <1>0, <1>2, ActiveFacts DEF Claimed, KeepsUp
<1>8. CASE Delivered(p)
  <2> DEFINE sent == [active[j] EXCEPT !.delivery = "DEVICE_DELIVERED"]
             after == Complete(sent, "BYTES_DELIVERED")
  <2>1. /\ wpc[p] = "waiting" /\ Mutate(j, after)
        /\ wjob' = [wjob EXCEPT ![p] = NoJob] /\ wpc' = [wpc EXCEPT ![p] = "idle"]
    BY <1>0, <1>8 DEF Delivered, CallEnds
  <2>2. Active(j) => /\ sent \in JobRecord /\ ~IsTerminal(sent)
                     /\ sent.delivery = "DEVICE_DELIVERED"
    BY <1>7, <2>1 DEF JobRecord, Deliveries, IsTerminal
  <2>3. Active(j) =>
          /\ after \in JobRecord /\ after.delivery = "DEVICE_DELIVERED"
          /\ after.status # "FAILED"
    <3> HIDE DEF sent
    <3>1. QED
      BY <2>2, CompleteEffect, CompleteType DEF Evidence, IsTerminal, Terminal
  <2> HIDE DEF after
  <2>4. QED
    BY <1>6, <2>1, <2>3
<1>9. CASE Spooled(p)
  <2> DEFINE after == [active[j] EXCEPT !.delivery = "SPOOLER_ACCEPTED"]
  <2>1. /\ wpc[p] = "waiting" /\ Mutate(j, after)
        /\ wjob' = [wjob EXCEPT ![p] = NoJob] /\ wpc' = [wpc EXCEPT ![p] = "idle"]
    BY <1>0, <1>9 DEF Spooled, CallEnds
  <2>2. Active(j) => /\ after \in JobRecord /\ after.status # "FAILED"
                     /\ after.delivery = "SPOOLER_ACCEPTED"
    BY <1>7, <2>1 DEF JobRecord, Deliveries, IsTerminal, Terminal
  <2> HIDE DEF after
  <2>3. QED
    BY <1>6, <2>1, <2>2
<1>10. \A err \in Errors : wpc[p] = "waiting" /\ Active(j) =>
         /\ Fail(active[j], err) \in JobRecord
         /\ Fail(active[j], err).delivery = "SUBMITTING"
         /\ Fail(active[j], err).error = err
  BY <1>7, FailType, FailEffect
<1>11. ASSUME NEW err \in {"absent", "NOT_PRINTED", "UNKNOWN"}, SubmitErr(p, err)
       PROVE  HonestRecords'
  <2>1. /\ wpc[p] = "waiting" /\ Mutate(j, Fail(active[j], err))
        /\ wjob' = [wjob EXCEPT ![p] = NoJob] /\ wpc' = [wpc EXCEPT ![p] = "idle"]
        /\ call[j] # "none" /\ err \in ProviderErrors(p, call[j] = "wrote")
    BY <1>0, <1>11 DEF SubmitErr, CallEnds
  <2>a. err = "NOT_PRINTED" => call[j] = "running"
    BY <1>2, <2>1 DEF ProviderErrors, TypeInv, TypeOK, CallSteps
  <2>2. err = "NOT_PRINTED" => handed[j] = 0
    BY <1>0, <2>1, <2>a DEF Custody, WorkerCustody
  <2>3. QED
    BY <1>6, <1>10, <2>1, <2>2 DEF Errors
<1>12. CASE SubmitTimeout(p)
  <2>1. /\ wpc[p] = "waiting" /\ Mutate(j, Fail(active[j], "UNKNOWN"))
        /\ UNCHANGED wjob /\ wpc' = [wpc EXCEPT ![p] = "late"]
    BY <1>0, <1>12 DEF SubmitTimeout
  <2>2. QED
    BY <1>6, <1>10, <2>1 DEF Errors
<1>13. QED
  BY <1>3, <1>4, <1>5, <1>8, <1>9, <1>11, <1>12 DEF WorkerStep

LEMMA HonestDevice ==
  ASSUME EngineInv, HonestRecords, NEW j \in Jobs,
         MonitorStep(j) \/ HandOver(j) \/ SpoolMoves(j)
  PROVE  HonestRecords'
<1> USE DEF EngineInv
<1>1. UNCHANGED <<wpc, wjob>>
  BY DEF MonitorStep, MonitorPoll, MonitorStops, MonitorSeesGone, MonitorApply, HandOver,
     SpoolMoves, workerVars
<1>2. \A k \in Jobs : Claimed(k)' <=> Claimed(k)
  BY <1>1, ClaimedFrame
<1>3. CASE MonitorPoll(j) \/ MonitorStops(j) \/ MonitorSeesGone(j) \/ SpoolMoves(j)
  <2>1. UNCHANGED <<active, repo, handed>>
    BY <1>3 DEF MonitorPoll, MonitorStops, MonitorSeesGone, SpoolMoves, storeVars,
       deviceVars
  <2>2. QED
    BY <1>2, <2>1, HonestQuiet
<1>4. CASE HandOver(j)
  <2>1. /\ call[j] = "running" /\ handed' = [handed EXCEPT ![j] = handed[j] + 1]
        /\ UNCHANGED <<active, repo>>
    BY <1>4 DEF HandOver, storeVars
  <2>2. Claimed(j)
    BY <2>1, ConstantsAssumption DEF Claimed, Custody, CallCustody
  <2>3. HonestOf(j) /\ (Stored(j)' <=> Stored(j)) /\ (Active(j)' <=> Active(j))
    BY <2>1 DEF HonestRecords, Stored, Active
  <2>4. HonestOf(j)'
    BY <2>1, <2>2, <2>3 DEF HonestOf
  <2>5. ASSUME NEW k \in Jobs \ {j}
        PROVE  HonestOf(k)'
    <3>1. handed'[k] = handed[k]
      BY <2>1 DEF TypeInv, TypeOK
    <3>2. QED
      BY <1>2, <2>1, <3>1, HonestFrame DEF HonestRecords
  <2>6. QED
    BY <2>4, <2>5 DEF HonestRecords
<1>5. CASE MonitorApply(j)
  <2> DEFINE after == Observed(active[j], monitor[j])
  <2>1. /\ monitor[j] \in Applicable /\ Mutate(j, after) /\ UNCHANGED handed
    BY <1>5 DEF MonitorApply, deviceVars
  <2>2. monitor[j] # "off"
    BY <2>1 DEF Applicable, ProviderJobState
  <2>3. Active(j) => /\ active[j] \in JobRecord /\ ~IsTerminal(active[j])
                     /\ active[j].delivery = "SPOOLER_ACCEPTED"
    BY <2>2, ActiveFacts DEF KeepsUp
  <2>4. Active(j) =>
          /\ after \in JobRecord /\ after.delivery = "SPOOLER_ACCEPTED"
          /\ after.status = "FAILED" => after.error = "absent"
    BY <2>1, <2>3, ObservedType, ObservedEffect DEF IsTerminal, Terminal
  <2> HIDE DEF after
  <2>5. QED
    BY <1>2, <2>1, <2>4, HonestMutate
<1>6. QED
  BY <1>3, <1>4, <1>5 DEF MonitorStep

LEMMA HonestCancel ==
  ASSUME EngineInv, HonestRecords, NEW c \in Callers, CancelStep(c)
  PROVE  HonestRecords'
<1> USE DEF EngineInv
<1>1. UNCHANGED <<handed, wpc, wjob>>
  BY DEF CancelStep, CancelBegins, CancelDrops, CancelAnnounces, CancelCalls,
     CancelSettles, CancelUnmarks, CancelAbandoned, deviceVars, workerVars
<1>2. \A k \in Jobs : Claimed(k)' <=> Claimed(k)
  BY <1>1, ClaimedFrame
<1>3. PICK j : j = cjob[c]
  OBVIOUS
<1>4. CASE ~(CancelDrops(c) \/ CancelSettles(c))
  <2>1. UNCHANGED <<active, repo>>
    BY <1>4 DEF CancelStep, CancelBegins, CancelAnnounces, CancelCalls, CancelUnmarks,
       CancelAbandoned, storeVars
  <2>2. QED
    BY <1>1, <1>2, <2>1, HonestQuiet
<1>5. CASE CancelDrops(c) \/ CancelSettles(c)
  <2>1. /\ cpc[c] # "idle"
        /\ \/ Mutate(j, active[j])
           \/ Mutate(j, Transition(active[j], "CANCELLED"))
    BY <1>3, <1>5 DEF CancelDrops, CancelSettles
  <2>2. j \in Jobs
    BY <1>3, <2>1 DEF TypeInv, SlotsFilled
  <2>3. Active(j) =>
          /\ active[j] \in JobRecord /\ ~IsTerminal(active[j])
          /\ Transition(active[j], "CANCELLED") \in JobRecord
          /\ Transition(active[j], "CANCELLED").delivery = active[j].delivery
          /\ Transition(active[j], "CANCELLED").status = "CANCELLED"
    BY <2>2, ActiveFacts, TransitionType, TransitionEffect DEF Statuses, Terminal
  <2>4. CASE Mutate(j, active[j])
    BY <1>1, <1>2, <2>2, <2>3, <2>4, HonestMutate DEF IsTerminal, Terminal
  <2>5. CASE Mutate(j, Transition(active[j], "CANCELLED"))
    BY <1>1, <1>2, <2>2, <2>3, <2>5, HonestMutate
  <2>6. QED
    BY <2>1, <2>4, <2>5
<1>6. QED
  BY <1>4, <1>5

LEMMA HonestProcess ==
  ASSUME HonestRun, EngineInv, Honest, ProcessStep
  PROVE  HonestRecords'
<1> USE DEF EngineInv, Honest
<1>1. CASE Exit \/ Crash
  <2> SUFFICES ASSUME NEW k \in Jobs
               PROVE  HonestOf(k)'
    BY DEF HonestRecords
  <2>1. /\ repo' = repo /\ handed' = handed /\ active'[k] = Absent
        /\ wjob' = [p \in Printers |-> NoJob]
    BY <1>1 DEF Exit, Crash, ProcessEnds
  <2>2. ~Claimed(k)'
    BY <2>1, ConstantsAssumption, NoJobAssumption DEF Claimed
  <2>3. ~Active(k)' /\ (Stored(k)' <=> Stored(k)) /\ HonestOf(k)
    BY <2>1 DEF Active, Stored, HonestRecords
  <2>4. QED
    BY <2>1, <2>2, <2>3 DEF HonestOf
<1>2. CASE StopBegins \/ StopCollects \/ StopDrains \/ Restart \/ Started
  <2>1. UNCHANGED <<active, repo, handed, wpc, wjob>>
    BY <1>2 DEF StopBegins, StopCollects, StopDrains, Restart, Started, storeVars,
       deviceVars, workerVars
  <2>2. QED
    BY <2>1, ClaimedFrame, HonestQuiet
<1>3. ASSUME NEW j \in Jobs, StopFails(j)
      PROVE  FALSE
  BY <1>3 DEF StopFails, HonestPhase, Stopping
<1>4. ASSUME NEW j \in Jobs, Resume(j) \/ Reconcile(j) \/ Purge(j)
      PROVE  HonestRecords'
  <2>1. UNCHANGED <<handed, wpc, wjob>>
    BY <1>4 DEF Resume, Reconcile, Purge, deviceVars, workerVars
  <2>2. \A k \in Jobs : Claimed(k)' <=> Claimed(k)
    BY <2>1, ClaimedFrame
  <2>3. ASSUME NEW k \in Jobs \ {j}
        PROVE  HonestOf(k)'
    <3>1. active'[k] = active[k] /\ repo'[k] = repo[k]
      BY <1>4 DEF Resume, Reconcile, Persist, Purge, TypeInv, TypeOK
    <3>2. QED
      BY <2>1, <2>2, <3>1, HonestFrame DEF HonestRecords
  <2>4. HonestOf(j) /\ RecordOf(j)
    BY DEF HonestRecords, RecordsAgree
  <2>5. CASE Resume(j)
    <3>1. active'[j] = repo[j] /\ repo' = repo
      BY <2>5 DEF Resume, TypeInv, TypeOK
    <3>2. Stored(j)' <=> Stored(j)
      BY <3>1 DEF Stored
    <3>3. HonestOf(j)'
      BY <2>1, <2>2, <2>4, <3>1, <3>2 DEF HonestOf
    <3>4. QED
      BY <2>3, <3>3 DEF HonestRecords
  <2>6. CASE Reconcile(j)
    <3>1. PICK job : job = repo[j]
      OBVIOUS
    <3>2. PICK after : after = Settled(job)
      OBVIOUS
    <3>3. MaxFaults = 0
      BY <2>6 DEF Reconcile, HonestPhase, HonestRun
    <3>4. /\ phase = "starting" /\ j \in todo /\ repo'[j] = after
          /\ active'[j] = IF IsTerminal(after) THEN Absent ELSE after
      BY <2>6, <3>1, <3>2, <3>3 DEF Reconcile, Persist, TypeInv, TypeOK
    <3>5. Stored(j) /\ ~IsTerminal(job) /\ job \in JobRecord
      BY <2>4, <3>1, <3>4 DEF RecordOf, Stored, TypeInv, TypeOK
    <3>6. /\ after.delivery = job.delivery
          /\ after.status = "FAILED" /\ after.error = "NOT_PRINTED" =>
               job.delivery = "REQUEST_ACCEPTED"
      BY <3>2, <3>5, SettledEffect DEF IsTerminal, Terminal
    <3>7. job.delivery = "REQUEST_ACCEPTED" => handed[j] = 0 /\ ~Claimed(j)
      BY <2>4, <3>1, <3>3, <3>5 DEF HonestOf
    <3>8. Active(j)' => active'[j] = after
      BY <3>4 DEF Active
    <3>9. HonestOf(j)'
      BY <2>1, <2>2, <3>4, <3>6, <3>7, <3>8 DEF HonestOf
    <3>10. QED
      BY <2>3, <3>9 DEF HonestRecords
  <2>7. CASE Purge(j)
    <3>1. IsTerminal(repo[j]) /\ repo'[j] = Absent /\ active' = active /\ Stored(j)
      BY <2>7 DEF Purge, TypeInv, TypeOK
    <3>2. ~Active(j)' /\ ~Stored(j)'
      BY <2>4, <3>1 DEF RecordOf, Active, Stored
    <3>3. HonestOf(j)'
      BY <3>2 DEF HonestOf
    <3>4. QED
      BY <2>3, <3>3 DEF HonestRecords
  <2>8. QED
    BY <1>4, <2>5, <2>6, <2>7
<1>5. QED
  BY <1>1, <1>2, <1>3, <1>4 DEF ProcessStep

LEMMA HonestStep ==
  ASSUME HonestRun, EngineInv, Honest, [Next]_vars
  PROVE  Honest'
<1>1. HonestPhase'
  BY HonestPhaseStep DEF Honest
<1>2. HonestRecords'
  <2>1. CASE UNCHANGED vars
    <3>1. UNCHANGED <<active, repo, handed, wpc, wjob>>
      BY <2>1 DEF vars, storeVars, workerVars, deviceVars
    <3>2. QED
      BY <3>1, ClaimedFrame, HonestQuiet DEF Honest
  <2>2. CASE Next
    BY <2>2, HonestSubmit, HonestWorker, HonestDevice, HonestCancel, HonestProcess
       DEF Next, Honest
  <2>3. QED
    BY <2>1, <2>2
<1>3. QED
  BY <1>1, <1>2 DEF Honest

LEMMA HonestInit == Init => Honest
BY DEF Init, Honest, HonestPhase, Stopping, HonestRecords, HonestOf, Stored, Active

LEMMA HonestHolds ==
  ASSUME HonestRun
  PROVE  Spec => [](EngineInv /\ Honest)
<1>1. Init => EngineInv /\ Honest
  BY EngineInit, HonestInit
<1>2. EngineInv /\ Honest /\ [Next]_vars => EngineInv' /\ Honest'
  BY EngineStep, HonestStep
<1>3. QED
  BY <1>1, <1>2, PTL DEF Spec

\* The outcome table of docs/print-job-lifecycle.md, for any number of jobs,
\* printers, clients and cancellations, with crashes and restarts or with
\* failing writes: a job reported as not printed was not handed over, nor was
\* one that failed without an outcome before it was delivered; a dropped one
\* never is, and a completed one was.
THEOREM ReportsHold ==
  ASSUME HonestRun
  PROVE  Spec => []ReportsAreTrue
<1>1. EngineInv /\ Honest => ReportsAreTrue
  <2> SUFFICES ASSUME EngineInv, Honest
               PROVE  ReportsAreTrue
    OBVIOUS
  <2>1. NothingSentIsTrue
    BY DEF EngineInv, RecordsAgree, RecordOf, TrueReport, Honest, HonestRecords, HonestOf,
       NothingSentIsTrue, SaysUnsent
  <2>2. DroppedNeverPrints /\ CompletedWasHandedOver
    BY DEF EngineInv, RecordsAgree, RecordOf, TrueReport, DroppedNeverPrints,
       CompletedWasHandedOver
  <2>3. QED
    BY <2>1, <2>2 DEF ReportsAreTrue
<1>2. QED
  BY <1>1, HonestHolds, PTL

-----------------------------------------------------------------------------
(* The engine implements its contract.                                     *)

LEMMA ReportCases ==
  ASSUME NEW job
  PROVE  /\ job.status \notin Terminal => ReportOf(job) = "open"
         /\ job.status = "COMPLETED" => ReportOf(job) = "completed"
         /\ job.status = "FAILED" /\ SaysUnsent(job) => ReportOf(job) = "unsent"
         /\ job.status = "FAILED" /\ ~SaysUnsent(job) =>
              ReportOf(job) = "unknown"
         /\ job.status = "CANCELLED" /\ job.delivery = "REQUEST_ACCEPTED" =>
              ReportOf(job) = "dropped"
         /\ job.status = "CANCELLED" /\ job.delivery # "REQUEST_ACCEPTED" =>
              ReportOf(job) = "cancelled"
<1>1. job.status \notin Terminal => ReportOf(job) = "open"
  BY Zenon DEF ReportOf, Terminal
<1>2. job.status = "COMPLETED" => ReportOf(job) = "completed"
  BY Zenon DEF ReportOf
<1>3. job.status = "FAILED" =>
        ReportOf(job) = IF SaysUnsent(job) THEN "unsent" ELSE "unknown"
  BY Zenon DEF ReportOf
<1>4. job.status = "CANCELLED" =>
        ReportOf(job) = IF job.delivery = "REQUEST_ACCEPTED" THEN "dropped"
                        ELSE "cancelled"
  BY Zenon DEF ReportOf
<1>5. QED
  BY <1>1, <1>2, <1>3, <1>4

\* What the contract calls view, after a step that another job is the subject of.
LEMMA ViewFrame ==
  ASSUME NEW j \in Jobs, repo'[j] = repo[j], req'[j] = "new" <=> req[j] = "new"
  PROVE  ClientView(j)' = ClientView(j)
BY DEF ClientView, Stored

LEMMA ViewStep ==
  ASSUME NEW j \in Jobs, Others(j), NEW from, NEW to, ClientView(j) \in from,
         ClientView(j)' = to, UNCHANGED handed
  PROVE  Contract!Tell(j, from, to)
<1>1. \A k \in Jobs \ {j} : ClientView(k)' = ClientView(k)
  BY ViewFrame DEF Others
<1>2. [k \in Jobs |-> ClientView(k)]' =
        [[k \in Jobs |-> ClientView(k)] EXCEPT ![j] = to]
  BY <1>1
<1>3. QED
  BY <1>2 DEF Contract!Tell

LEMMA ContractStep ==
  ASSUME EngineInv, Honest, EngineInv', Honest', [Next]_vars
  PROVE  [Contract!Next]_(Contract!contractVars)
<1>1. CASE Unseen
  <2>1. \A k \in Jobs : ClientView(k)' = ClientView(k)
    BY <1>1, ViewFrame DEF Unseen
  <2>2. UNCHANGED Contract!contractVars
    BY <1>1, <2>1 DEF Unseen, Contract!contractVars
  <2>3. QED
    BY <2>2
<1>2. ASSUME NEW j \in Jobs, Arrives(j)
      PROVE  [Contract!Next]_(Contract!contractVars)
  <2>1. ~Stored(j) /\ ClientView(j) = "none"
    BY <1>2 DEF Arrives, EngineInv, RecordsAgree, RecordOf, ClientView
  <2>2. CASE repo'[j] = NewJob
    <3>1. NewJob \in JobRecord
      BY DEF NewJob, JobRecord, Statuses, Deliveries, Evidence, Errors
    <3>2. Stored(j)'
      BY <2>2, <3>1, AbsentIsNoRecord DEF Stored
    <3>3. ClientView(j)' = "open"
      BY <2>2, <3>2, ReportCases DEF ClientView, NewJob, Terminal
    <3>4. Contract!Accept(j)
      BY <1>2, <2>1, <3>3, ViewStep DEF Arrives, Contract!Accept
    <3>5. QED
      BY <3>4 DEF Contract!Next
  <2>3. CASE repo'[j] = repo[j]
    <3>1. ClientView(j)' = "gone"
      BY <1>2, <2>1, <2>3 DEF Arrives, ClientView, Stored
    <3>2. Contract!Refuse(j)
      BY <1>2, <2>1, <3>1, ViewStep DEF Arrives, Contract!Refuse
    <3>3. QED
      BY <3>2 DEF Contract!Next
  <2>4. QED
    BY <1>2, <2>2, <2>3 DEF Arrives
<1>3. ASSUME NEW j \in Jobs, Written(j)
      PROVE  [Contract!Next]_(Contract!contractVars)
  <2> DEFINE job == repo'[j]
  <2>1. ClientView(j) = "open"
    BY <1>3, ReportCases DEF Written, ClientView, IsTerminal
  <2>2. Stored(j)' /\ job \in JobRecord /\ handed'[j] = handed[j]
    BY <1>3, AbsentIsNoRecord DEF Written, Stored
  <2>3. ClientView(j)' = ReportOf(job)
    BY <2>2 DEF ClientView
  <2>4. handed[j] \in {0, 1}
    BY DEF EngineInv, Custody, AtMostOnce, TypeInv, TypeOK
  <2>5. TrueReport(job, j, handed[j], Claimed(j)')
    BY <2>2 DEF EngineInv, RecordsAgree, RecordOf
  <2>6. job.status = "FAILED" /\ job.error = "NOT_PRINTED" => handed[j] = 0
    BY <2>2 DEF Honest, HonestRecords, HonestOf
  <2>7. Others(j) /\ UNCHANGED handed
    BY <1>3 DEF Written
  <2> HIDE DEF job
  <2>8. CASE job.status \notin Terminal
    <3>1. ClientView(j)' = ClientView(j)
      BY <2>1, <2>3, <2>8, ReportCases
    <3>2. \A k \in Jobs : ClientView(k)' = ClientView(k)
      BY <2>7, <3>1, ViewFrame DEF Others
    <3>3. UNCHANGED Contract!contractVars
      BY <2>7, <3>2 DEF Contract!contractVars
    <3>4. QED
      BY <3>3
  <2>9. CASE job.status = "COMPLETED"
    <3>1. ClientView(j)' = "completed" /\ handed[j] = 1
      BY <2>3, <2>5, <2>9, ReportCases DEF TrueReport
    <3>2. Contract!ReportCompleted(j)
      BY <2>1, <2>7, <3>1, ViewStep DEF Contract!ReportCompleted
    <3>3. QED
      BY <3>2 DEF Contract!Next
  <2>10. CASE job.status = "FAILED" /\ SaysUnsent(job)
    <3>1. ClientView(j)' = "unsent" /\ handed[j] = 0
      BY <2>3, <2>5, <2>6, <2>10, ReportCases DEF TrueReport, SaysUnsent
    <3>2. Contract!ReportUnsent(j)
      BY <2>1, <2>7, <3>1, ViewStep DEF Contract!ReportUnsent
    <3>3. QED
      BY <3>2 DEF Contract!Next
  <2>11. CASE job.status = "FAILED" /\ ~SaysUnsent(job)
    <3>1. ClientView(j)' = "unknown"
      BY <2>3, <2>11, ReportCases
    <3>2. Contract!ReportUnknown(j)
      BY <2>1, <2>7, <3>1, ViewStep DEF Contract!ReportUnknown
    <3>3. QED
      BY <3>2 DEF Contract!Next
  <2>12. CASE job.status = "CANCELLED" /\ job.delivery = "REQUEST_ACCEPTED"
    <3>1. ClientView(j)' = "dropped" /\ handed[j] = 0
      BY <2>3, <2>5, <2>12, ReportCases DEF TrueReport
    <3>2. Contract!ReportDropped(j)
      BY <2>1, <2>7, <3>1, ViewStep DEF Contract!ReportDropped
    <3>3. QED
      BY <3>2 DEF Contract!Next
  <2>13. CASE job.status = "CANCELLED" /\ job.delivery # "REQUEST_ACCEPTED"
    <3>1. ClientView(j)' = "cancelled" /\ handed[j] = 1
      BY <2>3, <2>5, <2>13, ReportCases DEF TrueReport
    <3>2. Contract!ReportCancelled(j)
      BY <2>1, <2>7, <3>1, ViewStep DEF Contract!ReportCancelled
    <3>3. QED
      BY <3>2 DEF Contract!Next
  <2>14. QED
    BY <2>8, <2>9, <2>10, <2>11, <2>12, <2>13 DEF Terminal
<1>4. ASSUME NEW j \in Jobs, Leaves(j)
      PROVE  [Contract!Next]_(Contract!contractVars)
  <2>1. req[j] = "done"
    BY <1>4, ConstantsAssumption
       DEF Leaves, Claimed, EngineInv, Custody, WorkerCustody
  <2>2. \A k \in Jobs : ClientView(k)' = ClientView(k)
    BY <1>4, ViewFrame DEF Leaves
  <2>3. ClientView(j) \in {"open", "unknown", "gone"}
    <3>1. CASE ~Stored(j)
      BY <2>1, <3>1 DEF ClientView
    <3>2. CASE Stored(j)
      <4>1. repo[j].status \notin {"COMPLETED", "CANCELLED"}
        BY <1>4, <3>2 DEF Leaves, EngineInv, RecordsAgree, RecordOf, TrueReport
      <4>2. repo[j].status = "FAILED" => ~SaysUnsent(repo[j])
        BY <1>4, <3>2 DEF Leaves, EngineInv, RecordsAgree, RecordOf, TrueReport, Honest,
           HonestRecords, HonestOf, SaysUnsent
      <4>3. ReportOf(repo[j]) \in {"open", "unknown"}
        BY <4>1, <4>2, ReportCases DEF Terminal
      <4>4. QED
        BY <3>2, <4>3 DEF ClientView
    <3>3. QED
      BY <3>1, <3>2
  <2>4. Contract!Leave(j)
    BY <1>4, <2>2, <2>3 DEF Leaves, Contract!Leave
  <2>5. QED
    BY <2>4 DEF Contract!Next
<1>5. ASSUME NEW j \in Jobs, Forgotten(j)
      PROVE  [Contract!Next]_(Contract!contractVars)
  <2>1. ReportOf(repo[j]) \in Contract!Settled
    BY <1>5, ReportCases DEF Forgotten, IsTerminal, Terminal, Contract!Settled
  <2>2. ClientView(j) \in Contract!Settled /\ ClientView(j)' = "gone"
    BY <1>5, <2>1 DEF Forgotten, ClientView, Stored
  <2>3. Contract!Forget(j)
    BY <1>5, <2>2, ViewStep DEF Forgotten, Contract!Forget
  <2>4. QED
    BY <2>3 DEF Contract!Next
<1>6. QED
  BY <1>1, <1>2, <1>3, <1>4, <1>5, VisibleStep

LEMMA ContractInit == Init => Contract!Init
BY DEF Init, Contract!Init, ClientView, Stored

\* Refinement: every step of the engine, whatever its tasks, its providers, its
\* clients and its repository do, is one the contract allows or changes nothing a
\* client can see.
THEOREM EngineKeepsContract ==
  ASSUME HonestRun
  PROVE  Spec => ImplementsContract
<1>1. Init => Contract!Init
  BY ContractInit
<1>2. (EngineInv /\ Honest) /\ (EngineInv /\ Honest)' /\ [Next]_vars
        => [Contract!Next]_(Contract!contractVars)
  BY ContractStep
<1>3. QED
  BY <1>1, <1>2, HonestHolds, PTL DEF Spec, ImplementsContract, Contract!Spec

-----------------------------------------------------------------------------
(* Who holds a job's payload.                                              *)

InQueue(j) == \E i \in 1..Len(queue[PrinterOf[j]]) : queue[PrinterOf[j]][i] = j

InWorker(j) == wjob[PrinterOf[j]] = j

Held(j) == InQueue(j) \/ InWorker(j)

\* Its provider call has outlived the timeout.
Late(j) == InWorker(j) /\ wpc[PrinterOf[j]] = "late"

\* The task running PrintEngine::submit for it is under way.
Busy(j) == req[j] \notin {"new", "done"}

LEMMA HeldFrame ==
  ASSUME UNCHANGED <<queue, wpc, wjob>>
  PROVE  \A k \in Jobs : (Held(k)' <=> Held(k)) /\ (Late(k)' <=> Late(k))
BY DEF Held, Late, InQueue, InWorker

LEMMA HeldWas ==
  ASSUME TypeInv, Custody, NEW j \in Jobs
  PROVE  /\ Held(j) => req[j] = "done"
         /\ InQueue(j) => handed[j] = 0 /\ ~InWorker(j)
         /\ InWorker(j) => wpc[PrinterOf[j]] \in {"taken", "claimed", "waiting", "late"}
<1>1. PrinterOf[j] \in Printers
  BY ConstantsAssumption
<1>2. InQueue(j) => req[j] = "done" /\ handed[j] = 0 /\ ~InWorker(j)
  BY <1>1 DEF InQueue, InWorker, Custody, QueueCustody
<1>3. InWorker(j) => /\ wpc[PrinterOf[j]] \in {"taken", "claimed", "waiting", "late"}
                     /\ req[j] = "done"
  <2>1. PICK p \in Printers : p = PrinterOf[j]
    BY <1>1
  <2>2. wpc[p] \in WorkerSteps
    BY DEF TypeInv, TypeOK
  <2>3. wjob[p] = j => wpc[p] \notin {"none", "idle"}
    BY NoJobAssumption DEF Custody, WorkerCustody
  <2>4. QED
    BY <2>1, <2>2, <2>3 DEF InWorker, Custody, WorkerCustody, WorkerSteps
<1>4. QED
  BY <1>2, <1>3 DEF Held

LEMMA HeldSend ==
  ASSUME TypeInv, NEW j \in Jobs, Send(j)
  PROVE  /\ Held(j)'
         /\ \A k \in Jobs \ {j} : Held(k)' <=> Held(k)
         /\ \A k \in Jobs : Late(k)' <=> Late(k)
<1>1. PICK p : p = PrinterOf[j]
  OBVIOUS
<1>2. /\ p \in Printers /\ queue' = [queue EXCEPT ![p] = Append(queue[p], j)]
      /\ wjob' = wjob
      /\ \A q \in Printers : wpc'[q] = wpc[q] \/ (wpc[q] = "none" /\ wpc'[q] = "idle")
  BY <1>1, ConstantsAssumption DEF Send, TypeInv, TypeOK
<1>3. /\ queue'[p] = Append(queue[p], j) /\ queue[p] \in Seq(Jobs)
      /\ \A q \in Printers \ {p} : queue'[q] = queue[q]
  BY <1>2 DEF TypeInv, TypeOK
<1>4. /\ Len(queue'[p]) = Len(queue[p]) + 1 /\ Len(queue[p]) \in Nat
      /\ queue'[p][Len(queue[p]) + 1] = j
      /\ \A i \in 1..Len(queue[p]) : queue'[p][i] = queue[p][i]
  BY <1>3
<1>5. InQueue(j)'
  BY <1>1, <1>4 DEF InQueue
<1>6. ASSUME NEW k \in Jobs \ {j}
      PROVE  InQueue(k)' <=> InQueue(k)
  <2>1. CASE PrinterOf[k] = p
    <3>1. ASSUME NEW i \in 1..Len(queue'[p]), queue'[p][i] = k
          PROVE  i \in 1..Len(queue[p]) /\ queue[p][i] = k
      BY <1>4, <3>1
    <3>2. \A i \in 1..Len(queue[p]) : i \in 1..Len(queue'[p])
      BY <1>4
    <3>3. QED
      BY <1>4, <2>1, <3>1, <3>2 DEF InQueue
  <2>2. CASE PrinterOf[k] # p
    BY <1>3, <2>2, ConstantsAssumption DEF InQueue
  <2>3. QED
    BY <2>1, <2>2
<1>7. \A k \in Jobs : (InWorker(k)' <=> InWorker(k)) /\ (Late(k)' <=> Late(k))
  BY <1>2, ConstantsAssumption DEF InWorker, Late
<1>8. QED
  BY <1>5, <1>6, <1>7 DEF Held

LEMMA HeldTake ==
  ASSUME TypeInv, Custody, NEW p \in Printers, TakeJob(p)
  PROVE  \A k \in Jobs : (Held(k)' <=> Held(k)) /\ (Late(k)' <=> Late(k))
<1>1. PICK h : h = Head(queue[p])
  OBVIOUS
<1>2. /\ wpc[p] = "idle" /\ queue[p] # <<>> /\ queue[p] \in Seq(Jobs)
      /\ wpc' = [wpc EXCEPT ![p] = "taken"]
      /\ wjob' = [wjob EXCEPT ![p] = h]
      /\ queue' = [queue EXCEPT ![p] = Tail(queue[p])]
  BY <1>1 DEF TakeJob, TypeInv, TypeOK
<1>3. /\ queue'[p] = Tail(queue[p]) /\ wjob'[p] = h /\ wpc'[p] = "taken"
      /\ \A q \in Printers \ {p} :
           queue'[q] = queue[q] /\ wjob'[q] = wjob[q] /\ wpc'[q] = wpc[q]
  BY <1>2 DEF TypeInv, TypeOK
<1>4. /\ Len(queue[p]) \in Nat \ {0} /\ queue[p][1] = h
      /\ Len(queue'[p]) = Len(queue[p]) - 1
      /\ \A i \in 1..(Len(queue[p]) - 1) : queue'[p][i] = queue[p][i + 1]
  <2>1. PICK s \in Seq(Jobs) : s = queue[p]
    BY <1>2
  <2>2. Len(s) \in Nat \ {0} /\ s[1] = Head(s)
    BY <1>2, <2>1
  <2>3. /\ Len(Tail(s)) = Len(s) - 1
        /\ \A i \in 1..(Len(s) - 1) : Tail(s)[i] = s[i + 1]
    BY <1>2, <2>1, <2>2
  <2>4. QED
    BY <1>1, <1>3, <2>1, <2>2, <2>3
<1>5. wjob[p] = NoJob
  BY <1>2 DEF Custody, WorkerCustody
<1>6. ASSUME NEW k \in Jobs, PrinterOf[k] = p
      PROVE  (Held(k)' <=> Held(k)) /\ (Late(k)' <=> Late(k))
  <2>1. ~InWorker(k) /\ ~Late(k) /\ ~Late(k)' /\ (InWorker(k)' <=> k = h)
    BY <1>3, <1>5, <1>6, NoJobAssumption DEF InWorker, Late
  <2>2. InQueue(k)' => InQueue(k)
    <3>1. ASSUME NEW i \in 1..Len(queue'[p]), queue'[p][i] = k
          PROVE  InQueue(k)
      <4>1. i + 1 \in 1..Len(queue[p]) /\ queue[p][i + 1] = k
        BY <1>4, <3>1
      <4>2. QED
        BY <1>6, <4>1 DEF InQueue
    <3>2. QED
      BY <1>6, <3>1 DEF InQueue
  <2>3. InQueue(k) => k = h \/ InQueue(k)'
    <3>1. ASSUME NEW i \in 1..Len(queue[p]), queue[p][i] = k, i # 1
          PROVE  InQueue(k)'
      <4>1. i - 1 \in 1..Len(queue'[p]) /\ queue'[p][i - 1] = k
        BY <1>4, <3>1
      <4>2. QED
        BY <1>6, <4>1 DEF InQueue
    <3>2. QED
      BY <1>4, <1>6, <3>1 DEF InQueue
  <2>4. k = h => InQueue(k)
    BY <1>4, <1>6 DEF InQueue
  <2>5. QED
    BY <2>1, <2>2, <2>3, <2>4 DEF Held
<1>7. ASSUME NEW k \in Jobs, PrinterOf[k] # p
      PROVE  (Held(k)' <=> Held(k)) /\ (Late(k)' <=> Late(k))
  BY <1>3, <1>7, ConstantsAssumption DEF Held, Late, InQueue, InWorker
<1>8. QED
  BY <1>6, <1>7

\* The worker is done with its job.
LEMMA HeldEnds ==
  ASSUME TypeInv, Custody, NEW p \in Printers, NEW j \in Jobs, j = wjob[p],
         wpc[p] \in {"taken", "claimed", "waiting", "late"},
         wjob' = [wjob EXCEPT ![p] = NoJob], wpc' = [wpc EXCEPT ![p] = "idle"],
         UNCHANGED queue
  PROVE  /\ ~Held(j)' /\ ~Late(j)'
         /\ \A k \in Jobs \ {j} : (Held(k)' <=> Held(k)) /\ (Late(k)' <=> Late(k))
<1>1. PrinterOf[j] = p
  BY DEF Custody, WorkerCustody
<1>2. /\ wjob'[p] = NoJob
      /\ \A q \in Printers \ {p} : wjob'[q] = wjob[q] /\ wpc'[q] = wpc[q]
  BY DEF TypeInv, TypeOK
<1>3. ~InQueue(j)
  BY <1>1, HeldWas DEF InWorker
<1>4. ~InWorker(j)' /\ ~InQueue(j)'
  BY <1>1, <1>2, <1>3, NoJobAssumption DEF InWorker, InQueue
<1>5. ASSUME NEW k \in Jobs \ {j}
      PROVE  (Held(k)' <=> Held(k)) /\ (Late(k)' <=> Late(k))
  <2>1. InWorker(k)' <=> InWorker(k)
    BY <1>2, ConstantsAssumption, NoJobAssumption DEF InWorker
  <2>2. InWorker(k) => PrinterOf[k] # p
    BY DEF InWorker
  <2>3. InQueue(k)' <=> InQueue(k)
    BY DEF InQueue
  <2>4. QED
    BY <1>2, <2>1, <2>2, <2>3, ConstantsAssumption DEF Held, Late
<1>6. QED
  BY <1>4, <1>5 DEF Held, Late

\* The loop of an idle worker ends, with what is left in its channel.
LEMMA HeldStops ==
  ASSUME TypeInv, NEW p \in Printers, WorkerStops(p)
  PROVE  \A k \in Jobs : (Held(k)' => Held(k)) /\ (Late(k)' <=> Late(k))
<1>1. /\ wpc[p] = "idle" /\ queue' = [queue EXCEPT ![p] = <<>>] /\ wjob' = wjob
      /\ wpc' = [wpc EXCEPT ![p] = "none"]
  BY DEF WorkerStops
<1>2. /\ queue'[p] = <<>> /\ wpc'[p] = "none"
      /\ \A q \in Printers \ {p} : queue'[q] = queue[q] /\ wpc'[q] = wpc[q]
  BY <1>1 DEF TypeInv, TypeOK
<1>3. Len(queue'[p]) = 0
  BY <1>2
<1>4. ASSUME NEW k \in Jobs
      PROVE  InQueue(k)' => InQueue(k)
  <2>1. CASE PrinterOf[k] = p
    BY <1>3, <2>1 DEF InQueue
  <2>2. CASE PrinterOf[k] # p
    BY <1>2, <2>2, ConstantsAssumption DEF InQueue
  <2>3. QED
    BY <2>1, <2>2
<1>5. \A k \in Jobs : (InWorker(k)' <=> InWorker(k)) /\ (Late(k)' <=> Late(k))
  BY <1>1, <1>2, ConstantsAssumption DEF InWorker, Late
<1>6. QED
  BY <1>4, <1>5 DEF Held

\* The worker moves on to another step with the same job.
LEMMA HeldStays ==
  ASSUME TypeInv, Custody, NEW p \in Printers, NEW j \in Jobs, j = wjob[p],
         wpc[p] \in {"taken", "claimed", "waiting"}, NEW step,
         wpc' = [wpc EXCEPT ![p] = step], UNCHANGED <<queue, wjob>>
  PROVE  /\ Held(j) /\ (Late(j)' <=> step = "late") /\ ~Late(j)
         /\ \A k \in Jobs : Held(k)' <=> Held(k)
         /\ \A k \in Jobs \ {j} : Late(k)' <=> Late(k)
<1>1. PrinterOf[j] = p
  BY DEF Custody, WorkerCustody
<1>2. wpc'[p] = step /\ \A q \in Printers \ {p} : wpc'[q] = wpc[q]
  BY DEF TypeInv, TypeOK
<1>3. \A k \in Jobs : (InWorker(k)' <=> InWorker(k)) /\ (InQueue(k)' <=> InQueue(k))
  BY DEF InWorker, InQueue
<1>4. \A k \in Jobs \ {j} : InWorker(k) => PrinterOf[k] # p
  BY DEF InWorker
<1>5. \A k \in Jobs \ {j} : Late(k)' <=> Late(k)
  BY <1>2, <1>3, <1>4, ConstantsAssumption DEF Late
<1>6. QED
  BY <1>1, <1>2, <1>3, <1>5 DEF Held, Late, InWorker

\* Only submit brings a job into the agent's hands.
LEMMA InHandsStep ==
  ASSUME EngineInv, [Next]_vars, NEW k \in Jobs, (Busy(k) \/ Held(k))'
  PROVE  Busy(k) \/ Held(k) \/ repo'[k] = NewJob
<1> USE DEF EngineInv
<1>1. ASSUME UNCHANGED <<queue, wpc, wjob, req>>
      PROVE  Busy(k) \/ Held(k)
  BY <1>1, HeldFrame DEF Busy
<1>2. CASE UNCHANGED vars
  BY <1>1, <1>2 DEF vars, workerVars
<1>3. ASSUME NEW j \in Jobs, MonitorStep(j) \/ HandOver(j) \/ SpoolMoves(j)
      PROVE  Busy(k) \/ Held(k)
  BY <1>1, <1>3 DEF MonitorStep, MonitorPoll, MonitorStops, MonitorSeesGone,
     MonitorApply, HandOver, SpoolMoves, workerVars
<1>4. ASSUME NEW c \in Callers, CancelStep(c)
      PROVE  Busy(k) \/ Held(k)
  BY <1>1, <1>4 DEF CancelStep, CancelBegins, CancelDrops, CancelAnnounces, CancelCalls,
     CancelSettles, CancelUnmarks, CancelAbandoned, workerVars
<1>5. ASSUME NEW j \in Jobs, SubmitStep(j)
      PROVE  Busy(k) \/ Held(k) \/ repo'[k] = NewJob
  <2>1. CASE Send(j)
    <3>1. req[j] = "marked" /\ \A i \in Jobs \ {j} : req'[i] = req[i]
      BY <2>1 DEF Send, TypeInv, TypeOK
    <3>2. QED
      BY <2>1, <3>1, HeldSend DEF Busy
  <2>2. CASE ~Send(j)
    <3>1. Held(k)' => Held(k)
      <4>1. UNCHANGED <<queue, wpc, wjob>>
        BY <1>5, <2>2 DEF SubmitStep, Submit, SubmitDuplicate, Validate, PrepareFails,
           Abandon, Reserve, MarkQueued, SendFails, SubmitFails, workerVars
      <4>2. QED
        BY <4>1, HeldFrame
    <3>2. \A i \in Jobs \ {j} : req'[i] = req[i]
      BY <1>5, <2>2 DEF SubmitStep, Submit, SubmitDuplicate, Validate, PrepareFails,
         Abandon, Reserve, MarkQueued, SendFails, SubmitFails, TypeInv, TypeOK
    <3>3. CASE Submit(j) \/ SubmitDuplicate(j)
      <4>1. req'[j] = "done" \/ repo'[j] = NewJob
        BY <3>3 DEF Submit, SubmitDuplicate, TypeInv, TypeOK
      <4>2. QED
        BY <3>1, <3>2, <4>1 DEF Busy
    <3>4. CASE ~(Submit(j) \/ SubmitDuplicate(j))
      <4>1. Busy(j)
        BY <1>5, <2>2, <3>4 DEF SubmitStep, Validate, PrepareFails, Abandon, Reserve,
           MarkQueued, SendFails, SubmitFails, Busy
      <4>2. QED
        BY <3>1, <3>2, <4>1 DEF Busy
    <3>5. QED
      BY <3>3, <3>4
  <2>3. QED
    BY <2>1, <2>2
<1>6. ASSUME NEW p \in Printers, WorkerStep(p)
      PROVE  Busy(k) \/ Held(k)
  <2>1. req' = req
    BY <1>6 DEF WorkerStep, TakeJob, WorkerStops, Claim, StartCall, Delivered, Spooled,
       SubmitErr, SubmitTimeout, LateReturn, CallEnds
  <2>2. PICK j : j = wjob[p]
    OBVIOUS
  <2>3. wpc[p] \in {"taken", "claimed", "waiting", "late"} => j \in Jobs
    BY <2>2 DEF TypeInv, SlotsFilled, WorkerSteps
  <2>4. CASE TakeJob(p)
    BY <2>1, <2>4, HeldTake DEF Busy
  <2>5. CASE WorkerStops(p)
    BY <2>1, <2>5, HeldStops DEF Busy
  <2>6. CASE ~(TakeJob(p) \/ WorkerStops(p))
    <3>1. /\ wpc[p] \in {"taken", "claimed", "waiting", "late"} /\ queue' = queue
          /\ \/ /\ wjob' = [wjob EXCEPT ![p] = NoJob]
                /\ wpc' = [wpc EXCEPT ![p] = "idle"]
             \/ /\ wjob' = wjob /\ wpc[p] # "late"
                /\ \E step \in WorkerSteps : wpc' = [wpc EXCEPT ![p] = step]
      BY <1>6, <2>6 DEF WorkerStep, Claim, StartCall, Delivered, Spooled, SubmitErr,
         SubmitTimeout, LateReturn, CallEnds, WorkerSteps
    <3>2. CASE wjob' = [wjob EXCEPT ![p] = NoJob] /\ wpc' = [wpc EXCEPT ![p] = "idle"]
      BY <2>1, <2>2, <2>3, <3>1, <3>2, HeldEnds DEF Busy
    <3>3. CASE /\ wjob' = wjob /\ wpc[p] # "late"
               /\ \E step \in WorkerSteps : wpc' = [wpc EXCEPT ![p] = step]
      BY <2>1, <2>2, <2>3, <3>1, <3>3, HeldStays DEF Busy
    <3>4. QED
      BY <3>1, <3>2, <3>3
  <2>7. QED
    BY <2>4, <2>5, <2>6
<1>7. CASE ProcessStep
  <2>1. CASE Exit \/ Crash
    <3>1. /\ req'[k] \in {"new", "done"} /\ wjob' = [p \in Printers |-> NoJob]
          /\ queue' = [p \in Printers |-> <<>>]
      BY <2>1 DEF Exit, Crash, ProcessEnds
    <3>2. ~InWorker(k)'
      BY <3>1, ConstantsAssumption, NoJobAssumption DEF InWorker
    <3>3. Len(queue'[PrinterOf[k]]) = 0
      BY <3>1, ConstantsAssumption
    <3>4. ~InQueue(k)'
      BY <3>3 DEF InQueue
    <3>5. QED
      BY <3>1, <3>2, <3>4 DEF Busy, Held
  <2>2. CASE ~(Exit \/ Crash)
    BY <1>1, <1>7, <2>2 DEF ProcessStep, StopBegins, StopCollects, StopDrains, Restart,
       Started, StopFails, Resume, Reconcile, Purge, workerVars
  <2>3. QED
    BY <2>1, <2>2
<1>8. QED
  BY <1>2, <1>3, <1>4, <1>5, <1>6, <1>7 DEF Next

-----------------------------------------------------------------------------
(* An idempotency key stands for one job.                                  *)

\* Two requests with one key are never both kept: find_by_idempotency_key and the
\* insert are one step under submit_gate.
OneJobPerKey ==
  \A i, j \in Jobs : i # j /\ SameKey(i, j) => ~Stored(i) \/ ~Stored(j)

\* Without the retention purge a job that the agent holds, or that left it, is on
\* record.
KeptOnRecord ==
  ~Retention => \A j \in Jobs : Busy(j) \/ Held(j) \/ handed[j] > 0 => Stored(j)

LEMMA KeyStep == EngineInv /\ OneJobPerKey /\ [Next]_vars => OneJobPerKey'
<1> SUFFICES ASSUME EngineInv, OneJobPerKey, [Next]_vars,
                    NEW i \in Jobs, NEW j \in Jobs, i # j, SameKey(i, j)
             PROVE  ~Stored(i)' \/ ~Stored(j)'
  BY DEF OneJobPerKey, SameKey
<1>1. SameKey(j, i)
  BY DEF SameKey
<1>2. CASE Unseen
  BY <1>2 DEF Unseen, OneJobPerKey, Stored
<1>3. ASSUME NEW k \in Jobs, Arrives(k) \/ Written(k) \/ Leaves(k) \/ Forgotten(k)
      PROVE  ~Stored(i)' \/ ~Stored(j)'
  <2>1. \A m \in Jobs : Stored(m)' => Stored(m) \/ m = k
    BY <1>3 DEF Arrives, Written, Leaves, Forgotten, Others, Stored
  <2>2. Stored(k)' /\ ~Stored(k) => \A m \in Jobs : Stored(m) => ~SameKey(m, k)
    BY <1>3 DEF Arrives, Written, Leaves, Forgotten, Stored
  <2>3. QED
    BY <1>1, <2>1, <2>2 DEF OneJobPerKey
<1>4. QED
  BY <1>2, <1>3, VisibleStep

LEMMA KeptStep == EngineInv /\ KeptOnRecord /\ [Next]_vars => KeptOnRecord'
<1> SUFFICES ASSUME EngineInv, KeptOnRecord, [Next]_vars, ~Retention,
                    NEW j \in Jobs, Busy(j)' \/ Held(j)' \/ handed'[j] > 0
             PROVE  Stored(j)'
  BY DEF KeptOnRecord
<1>1. Stored(j) => Stored(j)'
  <2>1. CASE Unseen
    BY <2>1 DEF Unseen, Stored
  <2>2. ASSUME NEW k \in Jobs, Arrives(k) \/ Written(k) \/ Leaves(k) \/ Forgotten(k)
        PROVE  Stored(j) => Stored(j)'
    <3>1. NewJob # Absent
      BY NewJobType, AbsentIsNoRecord
    <3>2. QED
      BY <2>2, <3>1, AbsentIsNoRecord
         DEF Arrives, Written, Leaves, Forgotten, Others, Stored
  <2>3. QED
    BY <2>1, <2>2, VisibleStep
<1>2. CASE Busy(j)' \/ Held(j)'
  <2>1. Busy(j) \/ Held(j) \/ repo'[j] = NewJob
    BY <1>2, InHandsStep
  <2>2. CASE repo'[j] = NewJob
    BY <2>2, NewJobType, AbsentIsNoRecord DEF Stored
  <2>3. QED
    BY <1>1, <2>1, <2>2 DEF KeptOnRecord
<1>3. CASE handed'[j] > 0
  <2>1. handed[j] > 0 \/ Claimed(j)
    BY <1>3, VisibleStep DEF Unseen, Arrives, Written, Leaves, Forgotten, EngineInv,
       TypeInv, TypeOK
  <2>2. Claimed(j) => Held(j)
    BY DEF Claimed, Held, InWorker
  <2>3. QED
    BY <1>1, <2>1, <2>2 DEF KeptOnRecord
<1>4. QED
  BY <1>2, <1>3

\* However submissions with one key race, fail, crash and restart: no two of them
\* are on record at the same time.
THEOREM KeysAreUnique == Spec => []OneJobPerKey
<1>1. Init => OneJobPerKey
  BY DEF Init, OneJobPerKey, Stored
<1>2. QED
  BY <1>1, KeyStep, RecordsHold, PTL DEF Spec

\* While jobs are retained, a key prints once, for every number of requests,
\* crashes and failing writes.
THEOREM KeyNeverPrintsTwice ==
  ASSUME ~Retention
  PROVE  Spec => []KeyPrintsOnce
<1>1. Init => KeptOnRecord
  <2> SUFFICES ASSUME Init, NEW j \in Jobs
               PROVE  ~Busy(j) /\ ~Held(j) /\ ~(handed[j] > 0)
    BY DEF KeptOnRecord
  <2>1. PrinterOf[j] \in Printers
    BY ConstantsAssumption
  <2>2. Len(queue[PrinterOf[j]]) = 0
    BY <2>1 DEF Init
  <2>3. ~InQueue(j) /\ ~InWorker(j)
    BY <2>1, <2>2, NoJobAssumption DEF Init, InQueue, InWorker
  <2>4. QED
    BY <2>3 DEF Init, Busy, Held
<1>2. EngineInv /\ KeptOnRecord /\ OneJobPerKey => KeyPrintsOnce
  <2> SUFFICES ASSUME EngineInv, KeptOnRecord, OneJobPerKey, NEW i \in Jobs,
                      NEW j \in Jobs, i # j, SameKey(i, j)
               PROVE  handed[i] = 0 \/ handed[j] = 0
    BY DEF KeyPrintsOnce
  <2>1. handed[i] \in Nat /\ handed[j] \in Nat
    BY DEF EngineInv, TypeInv, TypeOK
  <2>2. (handed[i] > 0 => Stored(i)) /\ (handed[j] > 0 => Stored(j))
    BY DEF KeptOnRecord
  <2>3. ~Stored(i) \/ ~Stored(j)
    BY DEF OneJobPerKey
  <2>4. QED
    BY <2>1, <2>2, <2>3
<1>3. QED
  BY <1>1, <1>2, KeptStep, RecordsHold, KeysAreUnique, PTL DEF Spec

-----------------------------------------------------------------------------
(* Every job in memory has a task that will move it.                       *)

\* The status of a job in memory is the one its holder needs: the worker's
\* `complete` is refused for a job that is not QUEUED or PRINTING, and would leave
\* it in memory with nobody to move it.
StatusFits(job, step, held, late) ==
  /\ job.delivery # "DEVICE_DELIVERED"
  /\ step = "tracked" => job.status = "RECEIVED"
  /\ step \in {"preparing", "reserved"} => job.status = "VALIDATING"
  /\ step = "marked" \/ held => job.status = "QUEUED"
  /\ ~late

LookedAfter(j) == Busy(j) \/ Held(j) \/ monitor[j] # "off"

TaskOf(j) ==
  /\ Stored(j) /\ repo[j].delivery = "DEVICE_DELIVERED" => IsTerminal(repo[j])
  /\ Busy(j) \/ Held(j) => Running
  /\ Active(j) => StatusFits(active[j], req[j], Held(j), Late(j))
  /\ Active(j) /\ ~Disconnects /\ ~Stopping => LookedAfter(j)

TasksAgree == \A j \in Jobs : TaskOf(j)

LEMMA TaskFrame ==
  ASSUME NEW k \in Jobs, TaskOf(k), active'[k] = active[k], repo'[k] = repo[k],
         req'[k] = req[k], Held(k)' => Held(k), Late(k)' => Late(k),
         Busy(k) \/ Held(k)' => Running',
         ~Stopping' => /\ ~Stopping /\ (Held(k)' <=> Held(k))
                       /\ Active(k) /\ monitor[k] # "off" => monitor'[k] # "off"
  PROVE  TaskOf(k)'
<1>1. (Stored(k)' <=> Stored(k)) /\ (Active(k)' <=> Active(k)) /\ (Busy(k)' <=> Busy(k))
  BY DEF Stored, Active, Busy
<1>2. Active(k)' => StatusFits(active'[k], req'[k], Held(k)', Late(k)')
  BY <1>1 DEF TaskOf, StatusFits
<1>3. Active(k)' /\ ~Disconnects /\ ~Stopping' => LookedAfter(k)'
  BY <1>1 DEF TaskOf, LookedAfter
<1>4. QED
  BY <1>1, <1>2, <1>3 DEF TaskOf

LEMMA TaskMutate ==
  ASSUME TypeInv, NEW j \in Jobs, TaskOf(j), NEW after, Mutate(j, after),
         Active(j) => after \in JobRecord /\ ~IsTerminal(repo[j]),
         Active(j) /\ ~IsTerminal(after) =>
           /\ StatusFits(after, req'[j], Held(j)', Late(j)')
           /\ ~Disconnects /\ ~Stopping => LookedAfter(j)',
         Busy(j)' \/ Held(j)' => Running,
         UNCHANGED phase
  PROVE  TaskOf(j)'
<1>1. (Running' <=> Running) /\ (Stopping' <=> Stopping)
  BY DEF Running, Stopping
<1>2. CASE ~Active(j)
  <2>1. active'[j] = active[j] /\ repo'[j] = repo[j]
    BY <1>2, MutateEffect
  <2>2. ~Active(j)' /\ (Stored(j)' <=> Stored(j))
    BY <1>2, <2>1 DEF Active, Stored
  <2>3. QED
    BY <1>1, <2>1, <2>2 DEF TaskOf
<1>3. CASE Active(j)
  <2>1. /\ active'[j] = IF IsTerminal(after) THEN Absent ELSE after
        /\ repo'[j] = after \/ repo'[j] = repo[j]
    BY <1>3, MutateEffect
  <2>2. Active(j)' => active'[j] = after /\ ~IsTerminal(after)
    BY <2>1 DEF Active
  <2>3. Stored(j)' /\ repo'[j].delivery = "DEVICE_DELIVERED" => IsTerminal(repo'[j])
    <3>1. ~IsTerminal(after) => after.delivery # "DEVICE_DELIVERED"
      BY <1>3 DEF StatusFits
    <3>2. repo'[j] = repo[j] => (Stored(j)' <=> Stored(j))
      BY DEF Stored
    <3>3. QED
      BY <2>1, <3>1, <3>2 DEF TaskOf
  <2>4. Active(j)' => StatusFits(active'[j], req'[j], Held(j)', Late(j)')
    BY <1>3, <2>2
  <2>5. Active(j)' /\ ~Disconnects /\ ~Stopping' => LookedAfter(j)'
    BY <1>1, <1>3, <2>2
  <2>6. QED
    BY <1>1, <2>3, <2>4, <2>5 DEF TaskOf
<1>4. QED
  BY <1>2, <1>3

\* Steps that touch no record and, unless the engine stops, take a job from nobody.
LEMMA TasksQuiet ==
  ASSUME TasksAgree, UNCHANGED <<active, repo, req, phase>>,
         \A k \in Jobs :
           /\ (Held(k)' => Held(k)) /\ (Late(k)' => Late(k))
           /\ ~Stopping => (Held(k) => Held(k)')
           /\ ~Stopping /\ Active(k) /\ monitor[k] # "off" => monitor'[k] # "off"
  PROVE  TasksAgree'
<1> SUFFICES ASSUME NEW k \in Jobs
             PROVE  TaskOf(k)'
  BY DEF TasksAgree
<1>1. TaskOf(k) /\ (Running' <=> Running) /\ (Stopping' <=> Stopping)
  BY DEF TasksAgree, Running, Stopping
<1>2. Busy(k) \/ Held(k)' => Running'
  BY <1>1 DEF TaskOf
<1>3. QED
  BY <1>1, <1>2, TaskFrame

\* Steps that mutate one job and leave the others alone.
LEMMA TasksMutate ==
  ASSUME EngineInv, TasksAgree, NEW j \in Jobs, NEW after, Mutate(j, after),
         Active(j) => after \in JobRecord,
         Active(j) /\ ~IsTerminal(after) =>
           /\ StatusFits(after, req'[j], Held(j)', Late(j)')
           /\ ~Disconnects /\ ~Stopping => LookedAfter(j)',
         Busy(j)' \/ Held(j)' => Running,
         UNCHANGED phase,
         \A k \in Jobs \ {j} :
           /\ req'[k] = req[k] /\ monitor'[k] = monitor[k]
           /\ (Held(k)' <=> Held(k)) /\ (Late(k)' <=> Late(k))
  PROVE  TasksAgree'
<1>1. (Running' <=> Running) /\ (Stopping' <=> Stopping)
  BY DEF Running, Stopping
<1>2. TaskOf(j)'
  <2>1. Active(j) => ~IsTerminal(repo[j])
    BY DEF EngineInv, RecordsAgree, RecordOf
  <2>2. TaskOf(j) /\ TypeInv
    BY DEF TasksAgree, EngineInv
  <2>3. QED
    BY <2>1, <2>2, TaskMutate
<1>3. ASSUME NEW k \in Jobs \ {j}
      PROVE  TaskOf(k)'
  <2>1. active'[k] = active[k] /\ repo'[k] = repo[k]
    BY MutateEffect DEF EngineInv
  <2>2. TaskOf(k)
    BY DEF TasksAgree
  <2>3. Busy(k) \/ Held(k)' => Running'
    BY <1>1, <2>2 DEF TaskOf
  <2>4. QED
    BY <1>1, <2>1, <2>2, <2>3, TaskFrame
<1>4. QED
  BY <1>2, <1>3 DEF TasksAgree

\* What is known of a job in memory and its holders.
LEMMA TaskFacts ==
  ASSUME EngineInv, TasksAgree, NEW j \in Jobs
  PROVE  /\ Held(j) => req[j] = "done"
         /\ monitor[j] # "off" => ~Busy(j)
         /\ Active(j) =>
              /\ active[j] \in JobRecord /\ ~IsTerminal(active[j])
              /\ StatusFits(active[j], req[j], Held(j), Late(j))
              /\ monitor[j] # "off" => ~Held(j)
<1> USE DEF EngineInv
<1>1. Held(j) => req[j] = "done"
  BY HeldWas
<1>2. monitor[j] # "off" => handed[j] = 1 /\ ~Busy(j)
  BY DEF RecordsAgree, RecordOf, Custody, RequestCustody, Busy
<1>3. ASSUME Active(j), monitor[j] # "off"
      PROVE  ~Held(j)
  <2>1. handed[j] = 1 /\ ~Claimed(j)
    BY <1>2, <1>3, ActiveFacts DEF KeepsUp
  <2>2. ~InQueue(j)
    BY <2>1, HeldWas
  <2>3. ~InWorker(j)
    <3>1. PICK p \in Printers : p = PrinterOf[j]
      BY ConstantsAssumption
    <3>2. InWorker(j) => wjob[p] = j /\ wpc[p] = "taken"
      BY <2>1, <3>1, HeldWas DEF InWorker, Claimed
    <3>3. wjob[p] = j /\ wpc[p] = "taken" => handed[j] = 0
      BY DEF Custody, WorkerCustody
    <3>4. QED
      BY <2>1, <3>2, <3>3
  <2>4. QED
    BY <2>2, <2>3 DEF Held
<1>4. Active(j) => StatusFits(active[j], req[j], Held(j), Late(j))
  BY DEF TasksAgree, TaskOf
<1>5. QED
  BY <1>1, <1>2, <1>3, <1>4, ActiveFacts

LEMMA TasksSubmit ==
  ASSUME EngineInv, TasksAgree, NEW j \in Jobs, SubmitStep(j)
  PROVE  TasksAgree'
<1> USE DEF EngineInv
<1>1. /\ UNCHANGED <<phase, monitor>> /\ Running /\ req[j] # "done"
      /\ \A k \in Jobs \ {j} : req'[k] = req[k]
  BY DEF SubmitStep, Submit, SubmitDuplicate, Validate, PrepareFails, Abandon, Reserve,
     MarkQueued, Send, SendFails, SubmitFails, procVars, TypeInv, TypeOK
<1>2. ~Held(j) /\ ~Late(j) /\ monitor[j] = "off"
  <2>1. ~Held(j) /\ handed[j] = 0
    BY <1>1, TaskFacts DEF Custody, RequestCustody
  <2>2. QED
    BY <2>1 DEF Held, Late, RecordsAgree, RecordOf
<1>3. CASE Send(j)
  <2>1. /\ req[j] = "marked" /\ req'[j] = "done" /\ UNCHANGED <<active, repo>>
    BY <1>3 DEF Send, storeVars, TypeInv, TypeOK
  <2>2. /\ Held(j)' /\ \A k \in Jobs \ {j} : Held(k)' <=> Held(k)
        /\ \A k \in Jobs : Late(k)' <=> Late(k)
    BY <1>3, HeldSend
  <2>3. (Running' <=> Running) /\ (Stopping' <=> Stopping)
    BY <1>1 DEF Running, Stopping
  <2>4. ASSUME NEW k \in Jobs \ {j}
        PROVE  TaskOf(k)'
    BY <1>1, <2>1, <2>2, <2>3, TaskFrame DEF TasksAgree
  <2>5. TaskOf(j)'
    <3>1. (Stored(j)' <=> Stored(j)) /\ (Active(j)' <=> Active(j))
      BY <2>1 DEF Stored, Active
    <3>2. Active(j)' => StatusFits(active'[j], req'[j], Held(j)', Late(j)')
      BY <1>2, <2>1, <2>2, <3>1, TaskFacts DEF StatusFits
    <3>3. QED
      BY <1>1, <2>1, <2>2, <2>3, <3>1, <3>2 DEF TasksAgree, TaskOf, LookedAfter
  <2>6. QED
    BY <2>4, <2>5 DEF TasksAgree
<1>4. CASE ~Send(j)
  <2>1. UNCHANGED <<queue, wpc, wjob>>
    BY <1>4 DEF SubmitStep, Submit, SubmitDuplicate, Validate, PrepareFails,
       Abandon, Reserve, MarkQueued, SendFails, SubmitFails, workerVars
  <2>2. \A k \in Jobs : (Held(k)' <=> Held(k)) /\ (Late(k)' <=> Late(k))
    BY <2>1, HeldFrame
  <2>3. ~Held(j)' /\ ~Late(j)'
    BY <1>2, <2>2
  <2>4. Active(j) => /\ active[j] \in JobRecord /\ ~IsTerminal(active[j])
                     /\ StatusFits(active[j], req[j], FALSE, FALSE)
    BY <1>2, TaskFacts DEF StatusFits
  <2>5. CASE Validate(j)
    <3> DEFINE after == Transition(active[j], "VALIDATING")
    <3>1. req[j] = "tracked" /\ req'[j] = "preparing" /\ Mutate(j, after)
      BY <2>5 DEF Validate, TypeInv, TypeOK
    <3>2. Active(j) => /\ after \in JobRecord /\ after.status = "VALIDATING"
                       /\ after.delivery = active[j].delivery
      <4>1. Active(j) => CanTransition(active[j].status, "VALIDATING")
        BY <2>4, <3>1 DEF StatusFits, CanTransition, Terminal
      <4>2. QED
        BY <2>4, <4>1, TransitionType DEF Transition, JobRecord, Statuses
    <3> HIDE DEF after
    <3>3. QED
      BY <1>1, <2>2, <2>3, <2>4, <3>1, <3>2, TasksMutate DEF StatusFits, LookedAfter, Busy
  <2>6. CASE MarkQueued(j)
    <3> DEFINE after == Transition(active[j], "QUEUED")
    <3>1. /\ req[j] = "reserved" /\ Mutate(j, after)
          /\ req'[j] = IF Active(j) THEN "marked" ELSE "done"
      BY <2>6 DEF MarkQueued, TypeInv, TypeOK
    <3>2. Active(j) => /\ after \in JobRecord /\ after.status = "QUEUED"
                       /\ after.delivery = active[j].delivery
      <4>1. Active(j) => CanTransition(active[j].status, "QUEUED")
        BY <2>4, <3>1 DEF StatusFits, CanTransition, Terminal
      <4>2. QED
        BY <2>4, <4>1, TransitionType DEF Transition, JobRecord, Statuses
    <3> HIDE DEF after
    <3>3. QED
      BY <1>1, <2>2, <2>3, <2>4, <3>1, <3>2, TasksMutate DEF StatusFits, LookedAfter, Busy
  <2>7. CASE SubmitFails(j)
    <3>1. Mutate(j, Fail(active[j], "absent"))
      BY <2>7 DEF SubmitFails
    <3>2. Active(j) => /\ Fail(active[j], "absent") \in JobRecord
                       /\ IsTerminal(Fail(active[j], "absent"))
      BY <2>4, FailType, FailEffect DEF Errors, IsTerminal, Terminal
    <3>3. QED
      BY <1>1, <2>2, <2>3, <3>1, <3>2, TasksMutate
  <2>8. CASE Submit(j) /\ repo' # repo
    <3>1. /\ repo' = [repo EXCEPT ![j] = NewJob]
          /\ active' = [active EXCEPT ![j] = NewJob]
          /\ req'[j] = "tracked"
      BY <2>8 DEF Submit, TypeInv, TypeOK
    <3>2. (Running' <=> Running) /\ (Stopping' <=> Stopping)
      BY <1>1 DEF Running, Stopping
    <3>3. TaskOf(j)'
      <4>1. repo'[j] = NewJob /\ active'[j] = NewJob
        BY <3>1 DEF TypeInv, TypeOK
      <4>2. QED
        BY <1>1, <2>3, <3>1, <3>2, <4>1 DEF TaskOf, StatusFits, NewJob, LookedAfter, Busy
    <3>4. ASSUME NEW k \in Jobs \ {j}
          PROVE  TaskOf(k)'
      <4>1. active'[k] = active[k] /\ repo'[k] = repo[k]
        BY <3>1 DEF TypeInv, TypeOK
      <4>2. QED
        BY <1>1, <2>2, <3>2, <4>1, TaskFrame DEF TasksAgree
    <3>5. QED
      BY <3>3, <3>4 DEF TasksAgree
  <2>9. CASE /\ ~(Validate(j) \/ MarkQueued(j) \/ SubmitFails(j))
             /\ ~(Submit(j) /\ repo' # repo)
    <3>1. UNCHANGED <<active, repo>>
      <4>1. CASE Submit(j)
        <5>1. (repo' = [repo EXCEPT ![j] = NewJob]) \/ UNCHANGED <<active, repo>>
          BY <4>1 DEF Submit
        <5>2. repo[j] = Absent
          BY <4>1 DEF Submit, RecordsAgree, RecordOf, Stored
        <5>3. repo' = [repo EXCEPT ![j] = NewJob] => repo' # repo
          BY <5>2, NewJobType, AbsentIsNoRecord DEF TypeInv, TypeOK
        <5>4. QED
          BY <2>9, <4>1, <5>1, <5>3
      <4>2. CASE ~Submit(j)
        BY <1>4, <2>9, <4>2 DEF SubmitStep, SubmitDuplicate, PrepareFails, Abandon,
           Reserve, SendFails, storeVars
      <4>3. QED
        BY <4>1, <4>2
    <3>2. /\ \/ req[j] = "new" /\ req'[j] = "done"
             \/ req[j] \in {"preparing", "marked"} /\ req'[j] = "failing"
             \/ req[j] = "preparing" /\ req'[j] = "reserved"
             \/ Disconnects /\ req'[j] = "done"
      <4>1. CASE Submit(j)
        <5>1. req[j] = "new" /\ (req'[j] = "done" \/ repo' = [repo EXCEPT ![j] = NewJob])
          BY <4>1 DEF Submit, TypeInv, TypeOK
        <5>2. repo[j] = Absent
          BY <4>1 DEF Submit, RecordsAgree, RecordOf, Stored
        <5>3. repo' = [repo EXCEPT ![j] = NewJob] => repo' # repo
          BY <5>2, NewJobType, AbsentIsNoRecord DEF TypeInv, TypeOK
        <5>4. QED
          BY <3>1, <5>1, <5>3
      <4>2. CASE ~Submit(j)
        BY <1>4, <2>9, <4>2 DEF SubmitStep, SubmitDuplicate, PrepareFails, Abandon,
           Reserve, SendFails, TypeInv, TypeOK
      <4>3. QED
        BY <4>1, <4>2
    <3>3. (Running' <=> Running) /\ (Stopping' <=> Stopping)
      BY <1>1 DEF Running, Stopping
    <3>4. ASSUME NEW k \in Jobs \ {j}
          PROVE  TaskOf(k)'
      BY <1>1, <2>2, <3>1, <3>3, TaskFrame DEF TasksAgree
    <3>5. req[j] = "new" => ~Active(j)
      BY DEF RecordsAgree, RecordOf
    <3>6. (Stored(j)' <=> Stored(j)) /\ (Active(j)' <=> Active(j))
      BY <3>1 DEF Stored, Active
    <3>7. Active(j)' => StatusFits(active'[j], req'[j], Held(j)', Late(j)')
      BY <2>3, <2>4, <3>1, <3>2, <3>5, <3>6 DEF StatusFits
    <3>8. Active(j)' /\ ~Disconnects => LookedAfter(j)'
      BY <3>2, <3>5, <3>6 DEF LookedAfter, Busy
    <3>9. TaskOf(j)'
      BY <1>1, <3>1, <3>3, <3>6, <3>7, <3>8 DEF TasksAgree, TaskOf
    <3>10. QED
      BY <3>4, <3>9 DEF TasksAgree
  <2>10. QED
    BY <2>5, <2>6, <2>7, <2>8, <2>9
<1>5. QED
  BY <1>3, <1>4

LEMMA TasksWorker ==
  ASSUME EngineInv, TasksAgree, NEW p \in Printers, WorkerStep(p)
  PROVE  TasksAgree'
<1> USE DEF EngineInv
<1>0. PICK j : j = wjob[p]
  OBVIOUS
<1>1. UNCHANGED <<phase, req>> /\ Running
  BY DEF WorkerStep, TakeJob, WorkerStops, Claim, StartCall, Delivered, Spooled,
     SubmitErr, SubmitTimeout, LateReturn, CallEnds, procVars, Running, Stopping
<1>2. wpc[p] \in {"taken", "claimed", "waiting", "late"} =>
        j \in Jobs /\ PrinterOf[j] = p /\ InWorker(j) /\ Held(j)
  BY <1>0 DEF TypeInv, SlotsFilled, WorkerSteps, Custody, WorkerCustody, InWorker, Held
<1>3. CASE TakeJob(p)
  <2>1. UNCHANGED <<active, repo, monitor>>
    BY <1>3 DEF TakeJob, storeVars
  <2>2. QED
    BY <1>1, <1>3, <2>1, HeldTake, TasksQuiet
<1>4. CASE WorkerStops(p)
  <2>1. UNCHANGED <<active, repo, monitor>> /\ Stopping
    BY <1>4 DEF WorkerStops, storeVars
  <2>2. QED
    BY <1>1, <1>4, <2>1, HeldStops, TasksQuiet
<1>5. CASE StartCall(p)
  <2>1. /\ UNCHANGED <<active, repo, monitor>> /\ wpc[p] = "claimed"
        /\ UNCHANGED <<queue, wjob>> /\ wpc' = [wpc EXCEPT ![p] = "waiting"]
    BY <1>5 DEF StartCall, storeVars
  <2>2. \A k \in Jobs : (Held(k)' <=> Held(k)) /\ (Late(k)' => Late(k))
    <3>1. j \in Jobs
      BY <1>2, <2>1
    <3>2. PICK step : step = "waiting"
      OBVIOUS
    <3>3. /\ (Late(j)' <=> step = "late") /\ \A k \in Jobs : Held(k)' <=> Held(k)
          /\ \A k \in Jobs \ {j} : Late(k)' <=> Late(k)
      BY <1>0, <2>1, <3>1, <3>2, HeldStays
    <3>4. QED
      BY <3>2, <3>3
  <2>3. QED
    BY <1>1, <2>1, <2>2, TasksQuiet
<1>6. CASE LateReturn(p)
  <2>1. /\ UNCHANGED <<active, repo, monitor, queue>> /\ wpc[p] = "late"
        /\ wjob' = [wjob EXCEPT ![p] = NoJob] /\ wpc' = [wpc EXCEPT ![p] = "idle"]
    BY <1>6 DEF LateReturn, CallEnds, storeVars
  <2>2. /\ ~Held(j)' /\ ~Late(j)'
        /\ \A k \in Jobs \ {j} : (Held(k)' <=> Held(k)) /\ (Late(k)' <=> Late(k))
    BY <1>0, <1>2, <2>1, HeldEnds
  <2>3. j \in Jobs /\ Late(j)
    BY <1>2, <2>1 DEF Late
  <2>4. ~Active(j)
    BY <2>3, TaskFacts DEF StatusFits
  <2>5. (Running' <=> Running) /\ (Stopping' <=> Stopping)
    BY <1>1 DEF Running, Stopping
  <2>6. \A k \in Jobs \ {j} : TaskOf(k)'
    BY <1>1, <2>1, <2>2, <2>5, TaskFrame DEF TasksAgree
  <2>7. TaskOf(j)'
    <3>1. ~Active(j)' /\ (Stored(j)' <=> Stored(j))
      BY <2>1, <2>4 DEF Active, Stored
    <3>2. QED
      BY <1>1, <2>1, <2>3, <2>5, <3>1 DEF TasksAgree, TaskOf
  <2>8. QED
    BY <2>6, <2>7 DEF TasksAgree
<1>7. CASE Claim(p)
  <2> DEFINE after == [active[j] EXCEPT !.delivery = "SUBMITTING"]
  <2>1. /\ wpc[p] = "taken" /\ UNCHANGED <<monitor, queue>> /\ Mutate(j, after)
        /\ \/ Active(j) /\ wpc' = [wpc EXCEPT ![p] = "claimed"] /\ wjob' = wjob
           \/ /\ ~Active(j) /\ wpc' = [wpc EXCEPT ![p] = "idle"]
              /\ wjob' = [wjob EXCEPT ![p] = NoJob]
    BY <1>0, <1>7 DEF Claim
  <2>2. j \in Jobs /\ Held(j)
    BY <1>2, <2>1
  <2>3. Active(j) =>
          /\ after \in JobRecord /\ after.delivery = "SUBMITTING"
          /\ after.status = active[j].status
          /\ StatusFits(active[j], req[j], Held(j), Late(j))
    BY <2>2, TaskFacts DEF JobRecord, Deliveries
  <2> HIDE DEF after
  <2>4. CASE Active(j) /\ wpc' = [wpc EXCEPT ![p] = "claimed"] /\ wjob' = wjob
    <3>1. /\ ~Late(j)' /\ \A k \in Jobs : Held(k)' <=> Held(k)
          /\ \A k \in Jobs \ {j} : Late(k)' <=> Late(k)
      BY <1>0, <2>1, <2>2, <2>4, HeldStays
    <3>2. StatusFits(after, req'[j], Held(j)', Late(j)') /\ LookedAfter(j)'
      BY <1>1, <2>2, <2>3, <2>4, <3>1 DEF StatusFits, LookedAfter
    <3>3. QED
      BY <1>1, <2>1, <2>2, <2>3, <3>1, <3>2, TasksMutate
  <2>5. CASE /\ ~Active(j) /\ wpc' = [wpc EXCEPT ![p] = "idle"]
             /\ wjob' = [wjob EXCEPT ![p] = NoJob]
    <3>1. /\ ~Held(j)' /\ ~Late(j)'
          /\ \A k \in Jobs \ {j} : (Held(k)' <=> Held(k)) /\ (Late(k)' <=> Late(k))
      BY <1>0, <2>1, <2>2, <2>5, HeldEnds
    <3>2. QED
      BY <1>1, <2>1, <2>2, <2>5, <3>1, TasksMutate
  <2>6. QED
    BY <2>1, <2>4, <2>5
<1>8. ASSUME NEW after, Mutate(j, after), wpc[p] = "waiting", UNCHANGED queue,
             wjob' = [wjob EXCEPT ![p] = NoJob], wpc' = [wpc EXCEPT ![p] = "idle"],
             Active(j) =>
               /\ after \in JobRecord
               /\ ~IsTerminal(after) =>
                    after.delivery # "DEVICE_DELIVERED" /\ monitor'[j] # "off",
             \A k \in Jobs \ {j} : monitor'[k] = monitor[k]
      PROVE  TasksAgree'
  <2>1. j \in Jobs /\ Held(j) /\ req[j] = "done"
    BY <1>2, <1>8, TaskFacts
  <2>2. /\ ~Held(j)' /\ ~Late(j)'
        /\ \A k \in Jobs \ {j} : (Held(k)' <=> Held(k)) /\ (Late(k)' <=> Late(k))
    BY <1>0, <1>8, <2>1, HeldEnds
  <2>3. Active(j) /\ ~IsTerminal(after) =>
          StatusFits(after, req'[j], Held(j)', Late(j)') /\ LookedAfter(j)'
    BY <1>1, <1>8, <2>1, <2>2 DEF StatusFits, LookedAfter
  <2>4. QED
    BY <1>1, <1>8, <2>1, <2>2, <2>3, TasksMutate
<1>9. wpc[p] = "waiting" /\ Active(j) =>
        /\ active[j] \in JobRecord /\ ~IsTerminal(active[j])
        /\ active[j].status = "QUEUED"
  BY <1>2, TaskFacts DEF StatusFits
<1>10. CASE Delivered(p)
  <2> DEFINE sent == [active[j] EXCEPT !.delivery = "DEVICE_DELIVERED"]
             after == Complete(sent, "BYTES_DELIVERED")
  <2>1. /\ wpc[p] = "waiting" /\ Mutate(j, after) /\ UNCHANGED <<monitor, queue>>
        /\ wjob' = [wjob EXCEPT ![p] = NoJob] /\ wpc' = [wpc EXCEPT ![p] = "idle"]
    BY <1>0, <1>10 DEF Delivered, CallEnds
  <2>2. Active(j) => sent \in JobRecord /\ ~IsTerminal(sent) /\ sent.status = "QUEUED"
    BY <1>9, <2>1 DEF JobRecord, Deliveries, IsTerminal, Terminal
  <2>3. Active(j) => after \in JobRecord /\ IsTerminal(after)
    <3> HIDE DEF sent
    <3>1. QED
      BY <2>2, CompleteEffect, CompleteType DEF Evidence, IsTerminal, Terminal
  <2> HIDE DEF after
  <2>4. QED
    BY <1>8, <2>1, <2>3
<1>11. CASE Spooled(p)
  <2> DEFINE after == [active[j] EXCEPT !.delivery = "SPOOLER_ACCEPTED"]
  <2>1. /\ wpc[p] = "waiting" /\ Mutate(j, after) /\ UNCHANGED queue
        /\ monitor' = [monitor EXCEPT ![j] = "wait"]
        /\ wjob' = [wjob EXCEPT ![p] = NoJob] /\ wpc' = [wpc EXCEPT ![p] = "idle"]
    BY <1>0, <1>11 DEF Spooled, CallEnds
  <2>2. monitor'[j] = "wait" /\ \A k \in Jobs \ {j} : monitor'[k] = monitor[k]
    BY <1>2, <2>1 DEF TypeInv, TypeOK
  <2>3. Active(j) => after \in JobRecord /\ after.delivery = "SPOOLER_ACCEPTED"
    BY <1>9, <2>1 DEF JobRecord, Deliveries
  <2> HIDE DEF after
  <2>4. QED
    BY <1>8, <2>1, <2>2, <2>3
<1>12. \A err \in Errors : wpc[p] = "waiting" /\ Active(j) =>
         Fail(active[j], err) \in JobRecord /\ IsTerminal(Fail(active[j], err))
  BY <1>9, FailType, FailEffect DEF IsTerminal, Terminal
<1>13. ASSUME NEW err \in {"absent", "NOT_PRINTED", "UNKNOWN"}, SubmitErr(p, err)
       PROVE  TasksAgree'
  <2>1. /\ wpc[p] = "waiting" /\ Mutate(j, Fail(active[j], err))
        /\ UNCHANGED <<monitor, queue>>
        /\ wjob' = [wjob EXCEPT ![p] = NoJob] /\ wpc' = [wpc EXCEPT ![p] = "idle"]
    BY <1>0, <1>13 DEF SubmitErr, CallEnds
  <2>2. QED
    BY <1>8, <1>12, <2>1 DEF Errors
<1>14. CASE SubmitTimeout(p)
  <2>1. /\ wpc[p] = "waiting" /\ Mutate(j, Fail(active[j], "UNKNOWN"))
        /\ UNCHANGED <<monitor, queue, wjob>> /\ wpc' = [wpc EXCEPT ![p] = "late"]
    BY <1>0, <1>14 DEF SubmitTimeout
  <2>2. j \in Jobs
    BY <1>2, <2>1
  <2>3. /\ \A k \in Jobs : Held(k)' <=> Held(k)
        /\ \A k \in Jobs \ {j} : Late(k)' <=> Late(k)
    BY <1>0, <2>1, <2>2, HeldStays
  <2>4. QED
    BY <1>1, <1>12, <2>1, <2>2, <2>3, TasksMutate DEF Errors
<1>15. QED
  BY <1>3, <1>4, <1>5, <1>6, <1>7, <1>10, <1>11, <1>13, <1>14 DEF WorkerStep

LEMMA TasksDevice ==
  ASSUME EngineInv, TasksAgree, NEW j \in Jobs,
         MonitorStep(j) \/ HandOver(j) \/ SpoolMoves(j)
  PROVE  TasksAgree'
<1> USE DEF EngineInv
<1>1. UNCHANGED <<queue, wpc, wjob, req, phase>>
  BY DEF MonitorStep, MonitorPoll, MonitorStops, MonitorSeesGone, MonitorApply, HandOver,
     SpoolMoves, workerVars, procVars
<1>2. \A k \in Jobs : (Held(k)' <=> Held(k)) /\ (Late(k)' <=> Late(k))
  BY <1>1, HeldFrame
<1>3. CASE MonitorApply(j)
  <2> DEFINE after == Observed(active[j], monitor[j])
  <2>1. /\ monitor[j] \in Applicable /\ Mutate(j, after)
        /\ monitor' = [monitor EXCEPT ![j] =
                         IF Active(j) /\ ~IsTerminal(after) THEN "wait" ELSE "off"]
    BY <1>3 DEF MonitorApply
  <2>2. monitor[j] # "off"
    BY <2>1 DEF Applicable, ProviderJobState
  <2>3. Active(j) =>
          /\ active[j] \in JobRecord /\ ~IsTerminal(active[j]) /\ ~Held(j)
          /\ active[j].delivery = "SPOOLER_ACCEPTED" /\ req[j] \in {"new", "done"}
    BY <2>2, TaskFacts, ActiveFacts DEF KeepsUp, Busy
  <2>4. Active(j) => /\ after \in JobRecord /\ after.delivery = "SPOOLER_ACCEPTED"
    BY <2>1, <2>3, ObservedType, ObservedEffect
  <2>5. /\ \A k \in Jobs \ {j} : monitor'[k] = monitor[k]
        /\ Active(j) /\ ~IsTerminal(after) => monitor'[j] = "wait"
    BY <2>1 DEF TypeInv, TypeOK
  <2> HIDE DEF after
  <2>6. Active(j) /\ ~IsTerminal(after) =>
          StatusFits(after, req'[j], Held(j)', Late(j)') /\ LookedAfter(j)'
    BY <1>1, <1>2, <2>3, <2>4, <2>5 DEF StatusFits, LookedAfter, Held, Late
  <2>7. Busy(j)' \/ Held(j)' => Running
    BY <1>1, <1>2 DEF TasksAgree, TaskOf, Busy
  <2>8. QED
    BY <1>1, <1>2, <2>1, <2>4, <2>5, <2>6, <2>7, TasksMutate
<1>4. CASE ~MonitorApply(j)
  <2>1. UNCHANGED <<active, repo>>
    BY <1>4 DEF MonitorStep, MonitorPoll, MonitorStops, MonitorSeesGone, HandOver,
       SpoolMoves, storeVars
  <2>2. \A k \in Jobs \ {j} : monitor'[k] = monitor[k]
    BY <1>4 DEF MonitorStep, MonitorPoll, MonitorStops, MonitorSeesGone, HandOver,
       SpoolMoves, TypeInv, TypeOK
  <2>3. ~Stopping /\ Active(j) /\ monitor[j] # "off" => monitor'[j] # "off"
    <3>1. CASE MonitorPoll(j)
      <4>1. PICK s \in Observable(spool[j]) : monitor' = [monitor EXCEPT ![j] = s]
        BY <3>1 DEF MonitorPoll
      <4>2. s # "off"
        <5>1. Observable(spool[j]) \subseteq ProviderJobState
          BY DEF Observable, ProviderJobState
        <5>2. QED
          BY <5>1 DEF ProviderJobState
      <4>3. QED
        BY <4>1, <4>2 DEF TypeInv, TypeOK
    <3>2. CASE MonitorSeesGone(j)
      BY <3>2 DEF MonitorSeesGone, TypeInv, TypeOK
    <3>3. CASE MonitorStops(j)
      BY <3>3 DEF MonitorStops
    <3>4. CASE HandOver(j) \/ SpoolMoves(j)
      BY <3>4 DEF HandOver, SpoolMoves
    <3>5. QED
      BY <1>4, <3>1, <3>2, <3>3, <3>4 DEF MonitorStep
  <2>4. QED
    BY <1>1, <1>2, <2>1, <2>2, <2>3, TasksQuiet
<1>5. QED
  BY <1>3, <1>4

LEMMA TasksCancel ==
  ASSUME EngineInv, TasksAgree, NEW c \in Callers, CancelStep(c)
  PROVE  TasksAgree'
<1> USE DEF EngineInv
<1>1. UNCHANGED <<queue, wpc, wjob, req, phase, monitor>>
  BY DEF CancelStep, CancelBegins, CancelDrops, CancelAnnounces, CancelCalls,
     CancelSettles, CancelUnmarks, CancelAbandoned, workerVars, procVars
<1>2. \A k \in Jobs : (Held(k)' <=> Held(k)) /\ (Late(k)' <=> Late(k))
  BY <1>1, HeldFrame
<1>3. PICK j : j = cjob[c]
  OBVIOUS
<1>4. CASE ~(CancelDrops(c) \/ CancelSettles(c))
  <2>1. UNCHANGED <<active, repo>>
    BY <1>4 DEF CancelStep, CancelBegins, CancelAnnounces, CancelCalls, CancelUnmarks,
       CancelAbandoned, storeVars
  <2>2. QED
    BY <1>1, <1>2, <2>1, TasksQuiet
<1>5. CASE CancelDrops(c) \/ CancelSettles(c)
  <2>1. /\ cpc[c] # "idle"
        /\ \/ Mutate(j, active[j])
           \/ Mutate(j, Transition(active[j], "CANCELLED"))
    BY <1>3, <1>5 DEF CancelDrops, CancelSettles
  <2>2. j \in Jobs
    BY <1>3, <2>1 DEF TypeInv, SlotsFilled
  <2>3. TaskOf(j)
    BY <2>2 DEF TasksAgree
  <2>4. Busy(j)' \/ Held(j)' => Running
    BY <1>1, <1>2, <2>2, <2>3 DEF TaskOf, Busy
  <2>5. Active(j) =>
          /\ active[j] \in JobRecord
          /\ StatusFits(active[j], req'[j], Held(j)', Late(j)')
          /\ ~Disconnects /\ ~Stopping => LookedAfter(j)'
    BY <1>1, <1>2, <2>2, <2>3, TaskFacts DEF TaskOf, StatusFits, LookedAfter, Busy
  <2>6. Active(j) => /\ Transition(active[j], "CANCELLED") \in JobRecord
                     /\ IsTerminal(Transition(active[j], "CANCELLED"))
    BY <2>2, ActiveFacts, TransitionType, TransitionEffect
       DEF Statuses, Terminal, IsTerminal
  <2>7. CASE Mutate(j, active[j])
    BY <1>1, <1>2, <2>2, <2>4, <2>5, <2>7, TasksMutate
  <2>8. CASE Mutate(j, Transition(active[j], "CANCELLED"))
    BY <1>1, <1>2, <2>2, <2>4, <2>6, <2>8, TasksMutate
  <2>9. QED
    BY <2>1, <2>7, <2>8
<1>6. QED
  BY <1>4, <1>5

LEMMA TasksProcess ==
  ASSUME EngineInv, TasksAgree, ProcessStep
  PROVE  TasksAgree'
<1> USE DEF EngineInv
<1>1. CASE Exit \/ Crash
  <2> SUFFICES ASSUME NEW k \in Jobs
               PROVE  TaskOf(k)'
    BY DEF TasksAgree
  <2>1. /\ repo' = repo /\ active'[k] = Absent /\ req'[k] \in {"new", "done"}
        /\ wjob' = [p \in Printers |-> NoJob] /\ queue' = [p \in Printers |-> <<>>]
    BY <1>1 DEF Exit, Crash, ProcessEnds
  <2>2. ~InWorker(k)'
    BY <2>1, ConstantsAssumption, NoJobAssumption DEF InWorker
  <2>3. Len(queue'[PrinterOf[k]]) = 0
    BY <2>1, ConstantsAssumption
  <2>4. ~Held(k)' /\ ~Busy(k)'
    BY <2>1, <2>2, <2>3 DEF Held, InQueue, Busy
  <2>5. ~Active(k)' /\ (Stored(k)' <=> Stored(k)) /\ TaskOf(k)
    BY <2>1 DEF Active, Stored, TasksAgree
  <2>6. QED
    BY <2>1, <2>4, <2>5 DEF TaskOf
<1>2. CASE ~(Exit \/ Crash)
  <2>1. UNCHANGED <<queue, wpc, wjob, req>>
    BY <1>2 DEF ProcessStep, StopBegins, StopCollects, StopDrains, Restart, Started,
       StopFails, Resume, Reconcile, Purge, workerVars
  <2>2. \A k \in Jobs : /\ (Held(k)' <=> Held(k)) /\ (Late(k)' <=> Late(k))
                        /\ (Busy(k)' <=> Busy(k))
    BY <2>1, HeldFrame DEF Busy
  <2>3. CASE StopBegins \/ StopCollects \/ StopDrains \/ Restart \/ Started
    <3>1. UNCHANGED <<active, repo, monitor>>
      BY <2>3 DEF StopBegins, StopCollects, StopDrains, Restart, Started, storeVars
    <3>2. (Running => Running') /\ (~Stopping' => ~Stopping)
      BY <2>3 DEF StopBegins, StopCollects, StopDrains, Restart, Started, Running, Stopping
    <3>3. ASSUME NEW k \in Jobs
          PROVE  TaskOf(k)'
      <4>1. TaskOf(k)
        BY DEF TasksAgree
      <4>2. Busy(k) \/ Held(k)' => Running'
        BY <2>2, <3>2, <4>1 DEF TaskOf
      <4>3. QED
        BY <2>1, <2>2, <3>1, <3>2, <4>1, <4>2, TaskFrame
    <3>4. QED
      BY <3>3 DEF TasksAgree
  <2>4. ASSUME NEW j \in Jobs, StopFails(j)
        PROVE  TasksAgree'
    <3>1. Mutate(j, Fail(active[j], "NOT_PRINTED")) /\ UNCHANGED <<phase, monitor>>
      BY <2>4 DEF StopFails
    <3>2. Active(j) => /\ Fail(active[j], "NOT_PRINTED") \in JobRecord
                       /\ IsTerminal(Fail(active[j], "NOT_PRINTED"))
      BY ActiveFacts, FailType, FailEffect DEF Errors, IsTerminal, Terminal
    <3>3. Busy(j)' \/ Held(j)' => Running
      BY <2>2 DEF TasksAgree, TaskOf
    <3>4. QED
      BY <2>1, <2>2, <3>1, <3>2, <3>3, TasksMutate
  <2>5. ASSUME NEW j \in Jobs, Resume(j) \/ Reconcile(j) \/ Purge(j)
        PROVE  TasksAgree'
    <3>1. /\ UNCHANGED phase /\ \A k \in Jobs \ {j} :
               active'[k] = active[k] /\ repo'[k] = repo[k] /\ monitor'[k] = monitor[k]
      BY <2>5 DEF Resume, Reconcile, Persist, Purge, procVars, TypeInv, TypeOK
    <3>2. (Running' <=> Running) /\ (Stopping' <=> Stopping)
      BY <3>1 DEF Running, Stopping
    <3>3. ASSUME NEW k \in Jobs \ {j}
          PROVE  TaskOf(k)'
      <4>1. TaskOf(k)
        BY DEF TasksAgree
      <4>2. Busy(k) \/ Held(k)' => Running'
        BY <2>2, <3>2, <4>1 DEF TaskOf
      <4>3. QED
        BY <2>1, <2>2, <3>1, <3>2, <4>1, <4>2, TaskFrame
    <3>4. TaskOf(j) /\ RecordOf(j) /\ (Busy(j)' \/ Held(j)' => Running')
      BY <2>2, <3>2 DEF TasksAgree, TaskOf, RecordsAgree
    <3>5. CASE Resume(j)
      <4>1. /\ phase = "starting" /\ repo[j].delivery = "SPOOLER_ACCEPTED"
            /\ active'[j] = repo[j] /\ monitor'[j] = "wait" /\ repo' = repo
        BY <3>5 DEF Resume, TypeInv, TypeOK
      <4>2. ~Busy(j)' /\ ~Held(j)'
        BY <3>2, <3>4, <4>1 DEF Running
      <4>3. StatusFits(active'[j], req'[j], Held(j)', Late(j)')
        BY <4>1, <4>2 DEF StatusFits, Busy, Held, Late
      <4>4. Stored(j)' <=> Stored(j)
        BY <4>1 DEF Stored
      <4>5. TaskOf(j)'
        BY <3>4, <4>1, <4>3, <4>4 DEF TaskOf, LookedAfter
      <4>6. QED
        BY <3>3, <4>5 DEF TasksAgree
    <3>6. CASE Reconcile(j)
      <4>1. PICK job : job = repo[j]
        OBVIOUS
      <4>2. PICK after : after = Settled(job)
        OBVIOUS
      <4>3. /\ phase = "starting" /\ j \in todo /\ repo'[j] \in {job, after}
            /\ active'[j] = IF IsTerminal(after) THEN Absent ELSE after
        BY <3>6, <4>1, <4>2 DEF Reconcile, Persist, TypeInv, TypeOK
      <4>4. Stored(j) /\ ~IsTerminal(job) /\ job \in JobRecord
        BY <3>4, <4>1, <4>3 DEF RecordOf, Stored, TypeInv, TypeOK
      <4>5. job.delivery # "DEVICE_DELIVERED"
        BY <3>4, <4>1, <4>4 DEF TaskOf
      <4>6. IsTerminal(after) /\ after.delivery = job.delivery
        BY <4>2, <4>4, <4>5, SettledEffect DEF IsTerminal, Terminal
      <4>7. ~Active(j)' /\ repo'[j].delivery # "DEVICE_DELIVERED"
        BY <4>3, <4>5, <4>6 DEF Active
      <4>8. TaskOf(j)'
        BY <3>4, <4>7 DEF TaskOf
      <4>9. QED
        BY <3>3, <4>8 DEF TasksAgree
    <3>7. CASE Purge(j)
      <4>1. IsTerminal(repo[j]) /\ repo'[j] = Absent /\ active' = active /\ Stored(j)
        BY <3>7 DEF Purge, TypeInv, TypeOK
      <4>2. ~Active(j)' /\ ~Stored(j)'
        BY <3>4, <4>1 DEF RecordOf, Active, Stored
      <4>3. TaskOf(j)'
        BY <3>4, <4>2 DEF TaskOf
      <4>4. QED
        BY <3>3, <4>3 DEF TasksAgree
    <3>8. QED
      BY <2>5, <3>5, <3>6, <3>7
  <2>6. QED
    BY <1>2, <2>3, <2>4, <2>5 DEF ProcessStep
<1>3. QED
  BY <1>1, <1>2

LEMMA TasksStep == EngineInv /\ TasksAgree /\ [Next]_vars => TasksAgree'
<1> SUFFICES ASSUME EngineInv, TasksAgree, [Next]_vars
             PROVE  TasksAgree'
  OBVIOUS
<1>1. CASE UNCHANGED vars
  <2>1. UNCHANGED <<active, repo, req, phase, monitor, queue, wpc, wjob>>
    BY <1>1 DEF vars, storeVars, workerVars, procVars
  <2>2. QED
    BY <2>1, HeldFrame, TasksQuiet
<1>2. CASE Next
  BY <1>2, TasksSubmit, TasksWorker, TasksDevice, TasksCancel, TasksProcess DEF Next
<1>3. QED
  BY <1>1, <1>2

LEMMA TasksInit == Init => TasksAgree
<1> SUFFICES ASSUME Init, NEW j \in Jobs
             PROVE  TaskOf(j)
  BY DEF TasksAgree
<1>1. PrinterOf[j] \in Printers
  BY ConstantsAssumption
<1>2. Len(queue[PrinterOf[j]]) = 0
  BY <1>1 DEF Init
<1>3. ~InQueue(j) /\ ~InWorker(j)
  BY <1>1, <1>2, NoJobAssumption DEF Init, InQueue, InWorker
<1>4. QED
  BY <1>3 DEF Init, TaskOf, Busy, Held, Stored, Active

\* The status of a job fits the task that holds it, in every run.
THEOREM TasksHold == Spec => []TasksAgree
<1>1. QED
  BY TasksInit, TasksStep, RecordsHold, PTL DEF Spec

\* As long as no client hangs up, no job is forgotten: while the engine runs every
\* job in memory is held by its request, its printer's queue or worker, or a
\* monitor, after any crashes, failing writes, timeouts and cancellations.
THEOREM NoJobIsForgotten ==
  ASSUME ~Disconnects
  PROVE  Spec => []NoOrphan
<1>1. TasksAgree => NoOrphan
  <2> SUFFICES ASSUME TasksAgree, phase = "up", NEW j \in Jobs, Active(j)
               PROVE  \/ req[j] \notin {"new", "done"}
                      \/ HoldsBytes(j)
                      \/ monitor[j] # "off"
    BY DEF NoOrphan
  <2>1. Busy(j) \/ Held(j) \/ monitor[j] # "off"
    BY DEF TasksAgree, TaskOf, LookedAfter, Stopping
  <2>2. InQueue(j) => HoldsBytes(j)
    BY ConstantsAssumption DEF InQueue, HoldsBytes
  <2>3. InWorker(j) => HoldsBytes(j)
    BY ConstantsAssumption DEF InWorker, HoldsBytes
  <2>4. QED
    BY <2>1, <2>2, <2>3 DEF Busy, Held
<1>2. QED
  BY <1>1, TasksHold, PTL

-----------------------------------------------------------------------------
(* A deletion by the agent is not taken for a completion.                  *)

\* Nobody cancels a job that is being cancelled.
CancelsApart ==
  \A c, d \in Callers :
    cpc[c] # "idle" /\ cpc[d] # "idle" /\ cjob[c] = cjob[d] => c = d

\* The job left the spooler's queue, and not because the agent deleted it.
LeftQueue(j) == spool[j] \in {"retired", "deleted_by_user"}

\* provider.cancel deleted the job and cancel has yet to settle it.
Deleting(j) == \E c \in Callers : cpc[c] = "ok" /\ cjob[c] = j

DeletionOf(j) ==
  /\ monitor[j] = "Gone" => LeftQueue(j) \/ spool[j] = "deleted_by_agent"
  /\ monitor[j] = "Retired" => LeftQueue(j) \/ ~Active(j)
  /\ spool[j] = "deleted_by_agent" => ~Active(j) \/ Deleting(j)
  /\ Stored(j) /\ repo[j].completion = "SPOOLER_JOB_RETIRED" => LeftQueue(j)
  /\ spool[j] # "none" <=> handed[j] = 1 /\ PrinterOf[j] \in SpoolPrinters
  /\ Active(j) => active[j].completion = "none"

MarksKept ==
  \A c \in Callers : cpc[c] \in {"announced", "ok", "unmark"} => cjob[c] \in cancelling

DeletionsTold == phase = "up" /\ MarksKept /\ \A j \in Jobs : DeletionOf(j)

LEMMA DeletionFrame ==
  ASSUME NEW k \in Jobs, DeletionOf(k),
         Active(k)' => Active(k) /\ active'[k].completion = "none",
         Stored(k)' /\ repo'[k].completion = "SPOOLER_JOB_RETIRED" => LeftQueue(k),
         spool'[k] = spool[k], handed'[k] = handed[k],
         monitor'[k] \in {monitor[k], "off", "wait"},
         Deleting(k) /\ Active(k)' => Deleting(k)'
  PROVE  DeletionOf(k)'
<1>1. LeftQueue(k)' <=> LeftQueue(k)
  BY DEF LeftQueue
<1>2. QED
  BY <1>1 DEF DeletionOf

\* Steps that settle or move one job without touching the spooler.
LEMMA DeletionsMutate ==
  ASSUME EngineInv, \A k \in Jobs : DeletionOf(k),
         NEW j \in Jobs, NEW after, Mutate(j, after),
         Active(j) =>
           /\ ~IsTerminal(after) => after.completion = "none"
           /\ after.completion = "SPOOLER_JOB_RETIRED" => LeftQueue(j),
         UNCHANGED <<spool, handed>>,
         \A k \in Jobs : monitor'[k] \in {monitor[k], "off", "wait"},
         \A k \in Jobs : Deleting(k) /\ Active(k)' => Deleting(k)'
  PROVE  \A k \in Jobs : DeletionOf(k)'
<1> SUFFICES ASSUME NEW k \in Jobs
             PROVE  DeletionOf(k)'
  OBVIOUS
<1>1. DeletionOf(k)
  OBVIOUS
<1>2. CASE k # j \/ ~Active(j)
  <2>1. active'[k] = active[k] /\ repo'[k] = repo[k]
    BY <1>2, MutateEffect DEF EngineInv
  <2>2. (Active(k)' <=> Active(k)) /\ (Stored(k)' <=> Stored(k))
    BY <2>1 DEF Active, Stored
  <2>3. Active(k)' => Active(k) /\ active'[k].completion = "none"
    BY <1>1, <2>1, <2>2 DEF DeletionOf
  <2>4. Stored(k)' /\ repo'[k].completion = "SPOOLER_JOB_RETIRED" => LeftQueue(k)
    BY <1>1, <2>1, <2>2 DEF DeletionOf
  <2>5. QED
    BY <1>1, <2>3, <2>4, DeletionFrame
<1>3. CASE k = j /\ Active(j)
  <2>1. /\ active'[k] = IF IsTerminal(after) THEN Absent ELSE after
        /\ repo'[k] = after \/ repo'[k] = repo[k]
    BY <1>3, MutateEffect DEF EngineInv
  <2>2. Active(k)' => Active(k) /\ active'[k].completion = "none"
    BY <1>3, <2>1 DEF Active
  <2>3. repo'[k] = repo[k] => (Stored(k)' <=> Stored(k))
    BY DEF Stored
  <2>4. Stored(k)' /\ repo'[k].completion = "SPOOLER_JOB_RETIRED" => LeftQueue(k)
    BY <1>1, <1>3, <2>1, <2>3 DEF DeletionOf
  <2>5. QED
    BY <1>1, <2>2, <2>4, DeletionFrame
<1>4. QED
  BY <1>2, <1>3

\* Steps that move no record.
LEMMA DeletionsQuiet ==
  ASSUME NEW k \in Jobs, DeletionOf(k), UNCHANGED <<active, repo, handed>>,
         spool'[k] = spool[k], monitor'[k] \in {monitor[k], "off", "wait"},
         Deleting(k) /\ Active(k) => Deleting(k)'
  PROVE  DeletionOf(k)'
<1>1. (Active(k)' <=> Active(k)) /\ (Stored(k)' <=> Stored(k))
  BY DEF Active, Stored
<1>2. Active(k)' => active'[k].completion = "none"
  BY <1>1 DEF DeletionOf
<1>3. Stored(k)' /\ repo'[k].completion = "SPOOLER_JOB_RETIRED" => LeftQueue(k)
  BY <1>1 DEF DeletionOf
<1>4. QED
  BY <1>1, <1>2, <1>3, DeletionFrame

LEMMA DeletionsSubmit ==
  ASSUME EngineInv, DeletionsTold, NEW j \in Jobs, SubmitStep(j)
  PROVE  \A k \in Jobs : DeletionOf(k)'
<1> USE DEF EngineInv
<1>1. UNCHANGED <<spool, handed, monitor, cpc, cjob>>
  BY DEF SubmitStep, Submit, SubmitDuplicate, Validate, PrepareFails, Abandon, Reserve,
     MarkQueued, Send, SendFails, SubmitFails, deviceVars, cancelVars
<1>2. \A k \in Jobs : DeletionOf(k) /\ (Deleting(k)' <=> Deleting(k))
  BY <1>1 DEF DeletionsTold, Deleting
<1>3. Active(j) =>
        /\ active[j] \in JobRecord /\ ~IsTerminal(active[j])
        /\ active[j].completion = "none"
  BY <1>2, ActiveFacts DEF DeletionOf
<1>4. CASE Validate(j)
  <2>1. Mutate(j, Transition(active[j], "VALIDATING"))
    BY <1>4 DEF Validate
  <2>2. Active(j) => Transition(active[j], "VALIDATING").completion = "none"
    BY <1>3, TransitionEffect DEF Statuses
  <2>3. QED
    BY <1>1, <1>2, <2>1, <2>2, DeletionsMutate
<1>5. CASE MarkQueued(j)
  <2>1. Mutate(j, Transition(active[j], "QUEUED"))
    BY <1>5 DEF MarkQueued
  <2>2. Active(j) => Transition(active[j], "QUEUED").completion = "none"
    BY <1>3, TransitionEffect DEF Statuses
  <2>3. QED
    BY <1>1, <1>2, <2>1, <2>2, DeletionsMutate
<1>6. CASE SubmitFails(j)
  <2>1. Mutate(j, Fail(active[j], "absent"))
    BY <1>6 DEF SubmitFails
  <2>2. Active(j) => Fail(active[j], "absent").completion = "none"
    BY <1>3, FailEffect DEF Errors
  <2>3. QED
    BY <1>1, <1>2, <2>1, <2>2, DeletionsMutate
<1>7. CASE ~(Validate(j) \/ MarkQueued(j) \/ SubmitFails(j)) /\ UNCHANGED <<active, repo>>
  BY <1>1, <1>2, <1>7, DeletionsQuiet
<1>8. CASE Submit(j) /\ repo' = [repo EXCEPT ![j] = NewJob]
                     /\ active' = [active EXCEPT ![j] = NewJob]
  <2>1. req[j] = "new"
    BY <1>8 DEF Submit
  <2>2. handed[j] = 0 /\ monitor[j] = "off"
    BY <2>1 DEF Custody, RequestCustody, RecordsAgree, RecordOf
  <2>3. spool[j] = "none"
    BY <1>2, <2>2 DEF DeletionOf
  <2>4. active'[j] = NewJob /\ repo'[j] = NewJob
    BY <1>8 DEF TypeInv, TypeOK
  <2>5. DeletionOf(j)'
    BY <1>1, <2>2, <2>3, <2>4 DEF DeletionOf, NewJob
  <2>6. ASSUME NEW k \in Jobs \ {j}
        PROVE  DeletionOf(k)'
    <3>1. active'[k] = active[k] /\ repo'[k] = repo[k]
      BY <1>8 DEF TypeInv, TypeOK
    <3>2. (Active(k)' <=> Active(k)) /\ (Stored(k)' <=> Stored(k))
      BY <3>1 DEF Active, Stored
    <3>3. /\ Active(k)' => active'[k].completion = "none"
          /\ Stored(k)' /\ repo'[k].completion = "SPOOLER_JOB_RETIRED" => LeftQueue(k)
      BY <1>2, <3>1, <3>2 DEF DeletionOf
    <3>4. QED
      BY <1>1, <1>2, <3>2, <3>3, DeletionFrame
  <2>7. QED
    BY <2>5, <2>6
<1>9. \/ Validate(j) \/ MarkQueued(j) \/ SubmitFails(j) \/ UNCHANGED <<active, repo>>
      \/ /\ Submit(j) /\ repo' = [repo EXCEPT ![j] = NewJob]
         /\ active' = [active EXCEPT ![j] = NewJob]
  BY DEF SubmitStep, Submit, SubmitDuplicate, PrepareFails, Abandon, Reserve, Send,
     SendFails, storeVars
<1>10. QED
  BY <1>4, <1>5, <1>6, <1>7, <1>8, <1>9

LEMMA DeletionsWorker ==
  ASSUME EngineInv, DeletionsTold, NEW p \in Printers, WorkerStep(p)
  PROVE  \A k \in Jobs : DeletionOf(k)'
<1> USE DEF EngineInv
<1>0. PICK j : j = wjob[p]
  OBVIOUS
<1>1. UNCHANGED <<spool, handed, cpc, cjob>>
  BY DEF WorkerStep, TakeJob, WorkerStops, Claim, StartCall, Delivered, Spooled,
     SubmitErr, SubmitTimeout, LateReturn, CallEnds, deviceVars, cancelVars
<1>2. \A k \in Jobs : DeletionOf(k) /\ (Deleting(k)' <=> Deleting(k))
  BY <1>1 DEF DeletionsTold, Deleting
<1>3. wpc[p] \in {"taken", "waiting"} => j \in Jobs
  BY <1>0 DEF TypeInv, SlotsFilled, WorkerSteps
<1>4. wpc[p] \in {"taken", "waiting"} /\ Active(j) =>
        /\ active[j] \in JobRecord /\ ~IsTerminal(active[j])
        /\ active[j].completion = "none"
  BY <1>2, <1>3, ActiveFacts DEF DeletionOf
<1>5. CASE TakeJob(p) \/ WorkerStops(p) \/ StartCall(p) \/ LateReturn(p)
  <2>1. UNCHANGED <<active, repo, monitor>>
    BY <1>5 DEF TakeJob, WorkerStops, StartCall, LateReturn, storeVars
  <2>2. QED
    BY <1>1, <1>2, <2>1, DeletionsQuiet
<1>6. CASE Claim(p)
  <2> DEFINE after == [active[j] EXCEPT !.delivery = "SUBMITTING"]
  <2>1. wpc[p] = "taken" /\ Mutate(j, after) /\ UNCHANGED monitor
    BY <1>0, <1>6 DEF Claim
  <2>2. Active(j) => after.completion = "none"
    BY <1>4, <2>1 DEF JobRecord
  <2> HIDE DEF after
  <2>3. QED
    BY <1>1, <1>2, <1>3, <2>1, <2>2, DeletionsMutate
<1>7. CASE Delivered(p)
  <2> DEFINE sent == [active[j] EXCEPT !.delivery = "DEVICE_DELIVERED"]
             after == Complete(sent, "BYTES_DELIVERED")
  <2>1. wpc[p] = "waiting" /\ Mutate(j, after) /\ UNCHANGED monitor
    BY <1>0, <1>7 DEF Delivered
  <2>2. Active(j) => /\ sent \in JobRecord /\ ~IsTerminal(sent)
                     /\ sent.completion = "none"
    BY <1>4, <2>1 DEF JobRecord, Deliveries, IsTerminal
  <2>3. Active(j) => /\ ~IsTerminal(after) => after.completion = "none"
                     /\ after.completion # "SPOOLER_JOB_RETIRED"
    <3> HIDE DEF sent
    <3>1. QED
      BY <2>2, CompleteEffect DEF Evidence, IsTerminal, Terminal
  <2> HIDE DEF after
  <2>4. QED
    BY <1>1, <1>2, <1>3, <2>1, <2>3, DeletionsMutate
<1>8. CASE Spooled(p)
  <2> DEFINE after == [active[j] EXCEPT !.delivery = "SPOOLER_ACCEPTED"]
  <2>1. /\ wpc[p] = "waiting" /\ Mutate(j, after)
        /\ monitor' = [monitor EXCEPT ![j] = "wait"]
    BY <1>0, <1>8 DEF Spooled
  <2>2. \A k \in Jobs : monitor'[k] \in {monitor[k], "off", "wait"}
    BY <2>1 DEF TypeInv, TypeOK
  <2>3. Active(j) => after.completion = "none"
    BY <1>4, <2>1 DEF JobRecord
  <2> HIDE DEF after
  <2>4. QED
    BY <1>1, <1>2, <1>3, <2>1, <2>2, <2>3, DeletionsMutate
<1>9. ASSUME NEW err \in Errors, wpc[p] = "waiting", Mutate(j, Fail(active[j], err)),
             UNCHANGED monitor
      PROVE  \A k \in Jobs : DeletionOf(k)'
  <2>1. Active(j) => Fail(active[j], err).completion = "none"
    BY <1>4, <1>9, FailEffect
  <2>2. QED
    BY <1>1, <1>2, <1>3, <1>9, <2>1, DeletionsMutate
<1>10. ASSUME NEW err \in {"absent", "NOT_PRINTED", "UNKNOWN"}, SubmitErr(p, err)
       PROVE  \A k \in Jobs : DeletionOf(k)'
  <2>1. wpc[p] = "waiting" /\ Mutate(j, Fail(active[j], err)) /\ UNCHANGED monitor
    BY <1>0, <1>10 DEF SubmitErr
  <2>2. QED
    BY <1>9, <2>1 DEF Errors
<1>11. CASE SubmitTimeout(p)
  <2>1. /\ wpc[p] = "waiting" /\ Mutate(j, Fail(active[j], "UNKNOWN"))
        /\ UNCHANGED monitor
    BY <1>0, <1>11 DEF SubmitTimeout
  <2>2. QED
    BY <1>9, <2>1 DEF Errors
<1>12. QED
  BY <1>5, <1>6, <1>7, <1>8, <1>10, <1>11 DEF WorkerStep

LEMMA DeletionsDevice ==
  ASSUME EngineInv, DeletionsTold, NEW j \in Jobs,
         MonitorStep(j) \/ HandOver(j) \/ SpoolMoves(j)
  PROVE  \A k \in Jobs : DeletionOf(k)'
<1> USE DEF EngineInv
<1>1. UNCHANGED <<cpc, cjob>>
  BY DEF MonitorStep, MonitorPoll, MonitorStops, MonitorSeesGone, MonitorApply, HandOver,
     SpoolMoves, cancelVars
<1>2. \A k \in Jobs : DeletionOf(k) /\ (Deleting(k)' <=> Deleting(k))
  BY <1>1 DEF DeletionsTold, Deleting
<1>3. ASSUME ~MonitorApply(j)
      PROVE  UNCHANGED <<active, repo>>
  BY <1>3 DEF MonitorStep, MonitorPoll, MonitorStops, MonitorSeesGone, HandOver,
     SpoolMoves, storeVars
<1>4. ASSUME ~MonitorApply(j), \A k \in Jobs \ {j} :
               spool'[k] = spool[k] /\ handed'[k] = handed[k] /\ monitor'[k] = monitor[k]
      PROVE  \A k \in Jobs \ {j} : DeletionOf(k)'
  <2> SUFFICES ASSUME NEW k \in Jobs \ {j}
               PROVE  DeletionOf(k)'
    OBVIOUS
  <2>1. active'[k] = active[k] /\ repo'[k] = repo[k]
    BY <1>3, <1>4
  <2>2. (Active(k)' <=> Active(k)) /\ (Stored(k)' <=> Stored(k))
    BY <2>1 DEF Active, Stored
  <2>3. /\ Active(k)' => active'[k].completion = "none"
        /\ Stored(k)' /\ repo'[k].completion = "SPOOLER_JOB_RETIRED" => LeftQueue(k)
    BY <1>2, <2>1, <2>2 DEF DeletionOf
  <2>4. QED
    BY <1>2, <1>4, <2>2, <2>3, DeletionFrame
<1>5. CASE MonitorApply(j)
  <2> DEFINE after == Observed(active[j], monitor[j])
  <2>1. /\ monitor[j] \in Applicable /\ Mutate(j, after) /\ UNCHANGED <<spool, handed>>
        /\ \A k \in Jobs : monitor'[k] \in {monitor[k], "off", "wait"}
    BY <1>5 DEF MonitorApply, deviceVars, TypeInv, TypeOK
  <2>2. Active(j) =>
          /\ active[j] \in JobRecord /\ ~IsTerminal(active[j])
          /\ active[j].completion = "none"
    BY <1>2, ActiveFacts DEF DeletionOf
  <2>3. Active(j) =>
          /\ ~IsTerminal(after) => after.completion = "none"
          /\ after.completion = "SPOOLER_JOB_RETIRED" => monitor[j] = "Retired"
    BY <2>1, <2>2, ObservedEffect DEF IsTerminal, Terminal
  <2> HIDE DEF after
  <2>4. Active(j) /\ monitor[j] = "Retired" => LeftQueue(j)
    BY <1>2 DEF DeletionOf
  <2>5. QED
    BY <1>2, <2>1, <2>3, <2>4, DeletionsMutate
<1>6. CASE MonitorStops(j)
  <2>1. UNCHANGED <<active, repo, spool, handed>>
        /\ \A k \in Jobs : monitor'[k] \in {monitor[k], "off", "wait"}
    BY <1>6 DEF MonitorStops, storeVars, deviceVars, TypeInv, TypeOK
  <2>2. QED
    BY <1>2, <2>1, DeletionsQuiet
<1>7. CASE MonitorPoll(j)
  <2>1. PICK s \in Observable(spool[j]) : monitor' = [monitor EXCEPT ![j] = s]
    BY <1>7 DEF MonitorPoll
  <2>2. /\ UNCHANGED <<active, repo, spool, handed>> /\ monitor'[j] = s
        /\ \A k \in Jobs \ {j} : monitor'[k] = monitor[k]
        /\ monitor[j] = "wait"
    BY <1>7, <2>1 DEF MonitorPoll, storeVars, deviceVars, TypeInv, TypeOK
  <2>3. spool[j] # "none"
    BY <1>2, <2>2 DEF RecordsAgree, RecordOf, DeletionOf
  <2>4. s # "Retired" /\ (s = "Gone" => LeftQueue(j) \/ spool[j] = "deleted_by_agent")
    <3>1. spool[j] \in SpoolStates
      BY DEF TypeInv, TypeOK
    <3>2. spool[j] \in {"pending", "printing", "blocked", "printed", "failed"} =>
            s \notin {"Retired", "Gone"}
      BY DEF Observable
    <3>3. LeftQueue(j) \/ spool[j] = "deleted_by_agent" => s # "Retired"
      BY DEF Observable, LeftQueue
    <3>4. QED
      BY <2>3, <3>1, <3>2, <3>3 DEF SpoolStates, SpoolLive, LeftQueue
  <2>5. DeletionOf(j)'
    <3>1. /\ (Active(j)' <=> Active(j)) /\ (Stored(j)' <=> Stored(j))
          /\ (LeftQueue(j)' <=> LeftQueue(j))
      BY <2>2 DEF Active, Stored, LeftQueue
    <3>2. QED
      BY <1>2, <2>2, <2>4, <3>1 DEF DeletionOf
  <2>6. \A k \in Jobs \ {j} : DeletionOf(k)'
    BY <1>4, <1>7, <2>2 DEF MonitorPoll, MonitorApply, Applicable, ProviderJobState
  <2>7. QED
    BY <2>5, <2>6
<1>8. CASE MonitorSeesGone(j)
  <2>1. /\ UNCHANGED <<active, repo, spool, handed>>
        /\ monitor[j] = "Gone"
        /\ monitor'[j] = IF j \in cancelling THEN "Deleted" ELSE "Retired"
        /\ \A k \in Jobs \ {j} : monitor'[k] = monitor[k]
    BY <1>8 DEF MonitorSeesGone, storeVars, deviceVars, TypeInv, TypeOK
  <2>2. Deleting(j) => j \in cancelling
    BY DEF DeletionsTold, MarksKept, Deleting
  <2>3. monitor'[j] = "Retired" => LeftQueue(j) \/ ~Active(j)
    BY <1>2, <2>1, <2>2 DEF DeletionOf
  <2>4. DeletionOf(j)'
    <3>1. /\ (Active(j)' <=> Active(j)) /\ (Stored(j)' <=> Stored(j))
          /\ (LeftQueue(j)' <=> LeftQueue(j))
      BY <2>1 DEF Active, Stored, LeftQueue
    <3>2. QED
      BY <1>2, <2>1, <2>3, <3>1 DEF DeletionOf
  <2>5. \A k \in Jobs \ {j} : DeletionOf(k)'
    BY <1>4, <2>1 DEF MonitorApply, Applicable, ProviderJobState
  <2>6. QED
    BY <2>4, <2>5
<1>9. CASE HandOver(j)
  <2>1. /\ call[j] = "running" /\ UNCHANGED <<active, repo, monitor>>
        /\ handed' = [handed EXCEPT ![j] = handed[j] + 1]
        /\ spool' = [spool EXCEPT ![j] =
                       IF PrinterOf[j] \in SpoolPrinters THEN "pending" ELSE spool[j]]
    BY <1>9 DEF HandOver, storeVars
  <2>2. handed[j] = 0
    BY <2>1, ConstantsAssumption DEF Custody, CallCustody, WorkerCustody
  <2>3. /\ handed'[j] = 1 /\ spool[j] = "none" /\ monitor[j] = "off"
        /\ spool'[j] = IF PrinterOf[j] \in SpoolPrinters THEN "pending" ELSE "none"
        /\ \A k \in Jobs \ {j} : spool'[k] = spool[k] /\ handed'[k] = handed[k]
    BY <1>2, <2>1, <2>2 DEF DeletionOf, RecordsAgree, RecordOf, TypeInv, TypeOK
  <2>4. DeletionOf(j)'
    <3>1. (Active(j)' <=> Active(j)) /\ (Stored(j)' <=> Stored(j)) /\ ~LeftQueue(j)
      BY <2>1, <2>3 DEF Active, Stored, LeftQueue
    <3>2. QED
      BY <1>2, <2>1, <2>3, <3>1 DEF DeletionOf
  <2>5. ~MonitorApply(j)
    BY <2>3 DEF MonitorApply, Applicable, ProviderJobState
  <2>6. \A k \in Jobs \ {j} : DeletionOf(k)'
    BY <1>4, <2>1, <2>3, <2>5
  <2>7. QED
    BY <2>4, <2>6
<1>10. CASE SpoolMoves(j)
  <2>1. PICK s \in SpoolNext[spool[j]] : spool' = [spool EXCEPT ![j] = s]
    BY <1>10 DEF SpoolMoves
  <2>2. spool'[j] = s /\ \A k \in Jobs \ {j} : spool'[k] = spool[k]
    BY <2>1 DEF TypeInv, TypeOK
  <2>3. UNCHANGED <<active, repo, monitor, handed>>
    BY <1>10 DEF SpoolMoves, storeVars
  <2>4. /\ ~LeftQueue(j) /\ spool[j] \notin {"deleted_by_agent", "none"}
        /\ s \notin {"deleted_by_agent", "none"}
    <3>1. spool[j] \in SpoolStates
      BY DEF TypeInv, TypeOK
    <3>2. spool[j] \in {"pending", "printing", "blocked", "printed"}
      BY <2>1, <3>1 DEF SpoolNext, SpoolStates, SpoolLive
    <3>3. s \in {"pending", "printing", "blocked", "printed", "failed", "retired",
                 "deleted_by_user"}
      BY <2>1, <3>1, <3>2 DEF SpoolNext
    <3>4. QED
      BY <3>2, <3>3 DEF LeftQueue
  <2>5. DeletionOf(j)'
    <3>1. (Active(j)' <=> Active(j)) /\ (Stored(j)' <=> Stored(j))
      BY <2>3 DEF Active, Stored
    <3>2. QED
      BY <1>2, <2>2, <2>3, <2>4, <3>1 DEF DeletionOf
  <2>6. QED
    <3>1. \A k \in Jobs \ {j} : DeletionOf(k)'
      BY <1>2, <2>2, <2>3, DeletionsQuiet
    <3>2. QED
      BY <2>5, <3>1
<1>11. QED
  BY <1>5, <1>6, <1>7, <1>8, <1>9, <1>10 DEF MonitorStep

LEMMA DeletionsCancel ==
  ASSUME ~Disconnects, EngineInv, DeletionsTold, CancelsApart, NEW c \in Callers,
         CancelStep(c)
  PROVE  MarksKept' /\ \A k \in Jobs : DeletionOf(k)'
<1> USE DEF EngineInv
<1>1. UNCHANGED <<monitor, handed>> /\ \A k \in Jobs : DeletionOf(k)
  BY DEF DeletionsTold, CancelStep, CancelBegins, CancelDrops, CancelAnnounces,
     CancelCalls, CancelSettles, CancelUnmarks, CancelAbandoned, deviceVars
<1>2. PICK j : j = cjob[c]
  OBVIOUS
<1>3. cpc[c] # "idle" => j \in Jobs
  BY <1>2 DEF TypeInv, SlotsFilled
<1>4. \A d \in Callers \ {c} : cpc'[d] = cpc[d] /\ cjob'[d] = cjob[d]
  BY DEF CancelStep, CancelBegins, CancelDrops, CancelAnnounces, CancelCalls,
     CancelSettles, CancelUnmarks, CancelAbandoned, TypeInv, TypeOK
<1>5. MarksKept'
  <2>1. CASE CancelUnmarks(c)
    <3>1. /\ cpc[c] = "unmark" /\ cpc'[c] = "idle" /\ cancelling' = cancelling \ {j}
      BY <1>2, <2>1 DEF CancelUnmarks, TypeInv, TypeOK
    <3>2. \A d \in Callers \ {c} : cpc[d] # "idle" => cjob[d] # j
      BY <1>2, <3>1 DEF CancelsApart
    <3>3. QED
      BY <1>4, <3>1, <3>2 DEF DeletionsTold, MarksKept
  <2>2. CASE CancelAnnounces(c)
    <3>1. /\ cpc'[c] = "idle" \/ (cpc'[c] = "announced" /\ cjob'[c] \in cancelling')
          /\ cancelling \subseteq cancelling'
      BY <2>2 DEF CancelAnnounces, TypeInv, TypeOK
    <3>2. QED
      BY <1>4, <3>1 DEF DeletionsTold, MarksKept
  <2>3. CASE CancelBegins(c, cjob'[c]) \/ CancelDrops(c)
    <3>1. cpc'[c] \in {"idle", "drop", "resolve"} /\ cancelling' = cancelling
      BY <2>3 DEF CancelBegins, CancelDrops, TypeInv, TypeOK
    <3>2. QED
      BY <1>4, <3>1 DEF DeletionsTold, MarksKept
  <2>4. CASE CancelCalls(c) \/ CancelSettles(c)
    <3>1. /\ cpc[c] \in {"announced", "ok"} /\ cjob' = cjob /\ cancelling' = cancelling
      BY <2>4 DEF CancelCalls, CancelSettles
    <3>2. QED
      BY <1>4, <3>1 DEF DeletionsTold, MarksKept
  <2>5. ASSUME NEW k \in Jobs, CancelBegins(c, k)
        PROVE  CancelBegins(c, cjob'[c])
    <3>1. cjob'[c] = k
      BY <2>5 DEF CancelBegins, TypeInv, TypeOK
    <3>2. QED
      BY <2>5, <3>1
  <2>6. QED
    BY <2>1, <2>2, <2>3, <2>4, <2>5 DEF CancelStep, CancelAbandoned
<1>6. ASSUME cpc[c] # "ok"
      PROVE  \A k \in Jobs : Deleting(k) => Deleting(k)'
  BY <1>4, <1>6 DEF Deleting
<1>7. CASE CancelDrops(c)
  <2>1. /\ cpc[c] = "drop" /\ UNCHANGED spool
        /\ \/ Mutate(j, active[j])
           \/ Mutate(j, Transition(active[j], "CANCELLED"))
    BY <1>2, <1>7 DEF CancelDrops, deviceVars
  <2>2. j \in Jobs
    BY <1>3, <2>1
  <2>3. Active(j) => /\ active[j].completion = "none"
                     /\ Transition(active[j], "CANCELLED").completion = "none"
    BY <1>1, <2>2, ActiveFacts, TransitionEffect DEF DeletionOf, Statuses, Terminal
  <2>4. \A k \in Jobs : DeletionOf(k)'
    <3>1. CASE Mutate(j, active[j])
      BY <1>1, <1>6, <2>1, <2>2, <2>3, <3>1, DeletionsMutate
    <3>2. CASE Mutate(j, Transition(active[j], "CANCELLED"))
      BY <1>1, <1>6, <2>1, <2>2, <2>3, <3>2, DeletionsMutate
    <3>3. QED
      BY <2>1, <3>1, <3>2
  <2>5. QED
    BY <1>5, <2>4
<1>8. CASE CancelSettles(c)
  <2> DEFINE after == Transition(active[j], "CANCELLED")
  <2>1. cpc[c] = "ok" /\ UNCHANGED <<spool, cjob>> /\ Mutate(j, after)
    BY <1>2, <1>8 DEF CancelSettles, deviceVars
  <2>2. j \in Jobs
    BY <1>3, <2>1
  <2>3. Active(j) => IsTerminal(after) /\ after.completion = "none"
    BY <1>1, <2>2, ActiveFacts, TransitionEffect
       DEF DeletionOf, Statuses, Terminal, IsTerminal
  <2> HIDE DEF after
  <2>4. ~Active(j)'
    BY <2>1, <2>2, <2>3, MutateEffect DEF Active
  <2>5. \A k \in Jobs : Deleting(k) /\ Active(k)' => Deleting(k)'
    BY <1>2, <1>4, <2>4 DEF Deleting
  <2>6. QED
    BY <1>1, <1>5, <2>1, <2>2, <2>3, <2>5, DeletionsMutate
<1>9. CASE CancelCalls(c)
  <2>1. /\ cpc[c] = "announced" /\ UNCHANGED <<active, repo, cjob>>
        /\ \/ /\ spool[j] \in SpoolLive \cup {"printed", "failed"}
              /\ spool' = [spool EXCEPT ![j] = "deleted_by_agent"]
              /\ cpc' = [cpc EXCEPT ![c] = "ok"]
           \/ UNCHANGED spool
    BY <1>2, <1>9 DEF CancelCalls, storeVars
  <2>2. j \in Jobs
    BY <1>3, <2>1
  <2>3. CASE UNCHANGED spool
    BY <1>1, <1>5, <1>6, <2>1, <2>3, DeletionsQuiet
  <2>4. CASE /\ spool[j] \in SpoolLive \cup {"printed", "failed"}
             /\ spool' = [spool EXCEPT ![j] = "deleted_by_agent"]
             /\ cpc' = [cpc EXCEPT ![c] = "ok"]
    <3>1. /\ spool'[j] = "deleted_by_agent" /\ ~LeftQueue(j) /\ spool[j] # "none"
          /\ \A k \in Jobs \ {j} : spool'[k] = spool[k]
      BY <2>2, <2>4 DEF SpoolLive, LeftQueue, TypeInv, TypeOK
    <3>2. \A k \in Jobs \ {j} : DeletionOf(k)'
      BY <1>1, <1>6, <2>1, <3>1, DeletionsQuiet
    <3>3. Deleting(j)'
      BY <1>2, <2>1, <2>4 DEF Deleting, TypeInv, TypeOK
    <3>4. DeletionOf(j)'
      <4>1. (Active(j)' <=> Active(j)) /\ (Stored(j)' <=> Stored(j))
        BY <2>1 DEF Active, Stored
      <4>2. QED
        BY <1>1, <2>1, <2>2, <3>1, <3>3, <4>1 DEF DeletionOf
    <3>5. QED
      BY <1>5, <3>2, <3>4
  <2>5. QED
    BY <2>1, <2>3, <2>4
<1>10. CASE ~(CancelDrops(c) \/ CancelSettles(c) \/ CancelCalls(c))
  <2>1. cpc[c] # "ok" /\ UNCHANGED <<active, repo, spool>>
    BY <1>10 DEF CancelStep, CancelBegins, CancelAnnounces, CancelUnmarks,
       CancelAbandoned, storeVars, deviceVars
  <2>2. QED
    BY <1>1, <1>5, <1>6, <2>1, DeletionsQuiet
<1>11. QED
  BY <1>7, <1>8, <1>9, <1>10

LEMMA DeletionsStep ==
  ASSUME ~Disconnects, ~GracefulStop, MaxCrashes = 0,
         EngineInv, DeletionsTold, CancelsApart, [Next]_vars
  PROVE  DeletionsTold'
<1> USE DEF EngineInv
<1>1. CASE UNCHANGED vars
  BY <1>1 DEF vars, storeVars, cancelVars, procVars, deviceVars, DeletionsTold, MarksKept,
     DeletionOf, Active, Stored, LeftQueue, Deleting
<1>2. ASSUME UNCHANGED <<phase, cpc, cjob, cancelling>>, \A k \in Jobs : DeletionOf(k)'
      PROVE  DeletionsTold'
  BY <1>2 DEF DeletionsTold, MarksKept
<1>3. ASSUME NEW j \in Jobs, SubmitStep(j)
      PROVE  DeletionsTold'
  <2>1. UNCHANGED <<phase, cpc, cjob, cancelling>>
    BY <1>3 DEF SubmitStep, Submit, SubmitDuplicate, Validate, PrepareFails, Abandon,
       Reserve, MarkQueued, Send, SendFails, SubmitFails, procVars, cancelVars
  <2>2. QED
    BY <1>2, <1>3, <2>1, DeletionsSubmit
<1>4. ASSUME NEW p \in Printers, WorkerStep(p)
      PROVE  DeletionsTold'
  <2>1. UNCHANGED <<phase, cpc, cjob, cancelling>>
    BY <1>4 DEF WorkerStep, TakeJob, WorkerStops, Claim, StartCall, Delivered, Spooled,
       SubmitErr, SubmitTimeout, LateReturn, CallEnds, procVars, cancelVars
  <2>2. QED
    BY <1>2, <1>4, <2>1, DeletionsWorker
<1>5. ASSUME NEW j \in Jobs, MonitorStep(j) \/ HandOver(j) \/ SpoolMoves(j)
      PROVE  DeletionsTold'
  <2>1. UNCHANGED <<phase, cpc, cjob, cancelling>>
    BY <1>5 DEF MonitorStep, MonitorPoll, MonitorStops, MonitorSeesGone, MonitorApply,
       HandOver, SpoolMoves, procVars, cancelVars
  <2>2. QED
    BY <1>2, <1>5, <2>1, DeletionsDevice
<1>6. ASSUME NEW c \in Callers, CancelStep(c)
      PROVE  DeletionsTold'
  <2>1. UNCHANGED phase
    BY <1>6 DEF CancelStep, CancelBegins, CancelDrops, CancelAnnounces, CancelCalls,
       CancelSettles, CancelUnmarks, CancelAbandoned, procVars
  <2>2. QED
    BY <1>6, <2>1, DeletionsCancel DEF DeletionsTold
<1>7. CASE ProcessStep
  <2>1. PICK j \in Jobs : Purge(j)
    <3>1. ~Crash
      BY DEF Crash, TypeInv, TypeOK
    <3>2. QED
      BY <1>7, <3>1 DEF ProcessStep, StopBegins, StopCollects, StopDrains, Exit, Restart,
         Started, StopFails, Resume, Reconcile, DeletionsTold
  <2>2. /\ UNCHANGED <<active, phase, cpc, cjob, cancelling, monitor, spool, handed>>
        /\ repo'[j] = Absent /\ \A k \in Jobs \ {j} : repo'[k] = repo[k]
    BY <2>1 DEF Purge, procVars, cancelVars, deviceVars, TypeInv, TypeOK
  <2>3. ASSUME NEW k \in Jobs
        PROVE  DeletionOf(k)'
    <3>1. DeletionOf(k) /\ (Active(k)' <=> Active(k)) /\ (Deleting(k)' <=> Deleting(k))
      BY <2>2 DEF DeletionsTold, Active, Deleting
    <3>2. Stored(k)' => Stored(k) /\ repo'[k] = repo[k]
      BY <2>2 DEF Stored
    <3>3. /\ Active(k)' => active'[k].completion = "none"
          /\ Stored(k)' /\ repo'[k].completion = "SPOOLER_JOB_RETIRED" => LeftQueue(k)
      BY <2>2, <3>1, <3>2 DEF DeletionOf
    <3>4. QED
      BY <2>2, <3>1, <3>3, DeletionFrame
  <2>4. QED
    BY <1>2, <2>2, <2>3
<1>8. QED
  BY <1>1, <1>3, <1>4, <1>5, <1>6, <1>7 DEF Next

\* As long as no client hangs up, no job is cancelled twice at a time and the
\* process lives, a spooler entry that vanished because cancel deleted it is never
\* read as a completed job, however polls, deletions and settlements interleave.
THEOREM DeletionsAreTold ==
  ASSUME ~Disconnects, ~GracefulStop, MaxCrashes = 0
  PROVE  Spec /\ []CancelsApart => []DeletionIsNotCompletion
<1>1. Init => DeletionsTold
  BY DEF Init, DeletionsTold, MarksKept, DeletionOf, Active, Stored
<1>2. EngineInv /\ DeletionsTold /\ CancelsApart /\ [Next]_vars => DeletionsTold'
  BY DeletionsStep
<1>3. DeletionsTold => DeletionIsNotCompletion
  BY DEF DeletionsTold, DeletionOf, LeftQueue, DeletionIsNotCompletion
<1>4. QED
  BY <1>1, <1>2, <1>3, RecordsHold, PTL DEF Spec
===============================================================================
