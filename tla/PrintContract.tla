---------------------------- MODULE PrintContract ----------------------------
(***************************************************************************)
(* What the engine promises a client about each print request, without     *)
(* queues, workers, monitors or crashes: the client sees a view of the     *)
(* job, and paper may or may not come out.  The promises are those of      *)
(* docs/adr/0003-no-automatic-print-retries.md and of the outcome table of *)
(* docs/print-job-lifecycle.md:                                            *)
(*                                                                         *)
(*   - a job's bytes leave the agent at most once;                         *)
(*   - a job that was reported as not sent, or as dropped by a             *)
(*     cancellation, had not left the agent and does not while that report *)
(*     is kept;                                                            *)
(*   - a job is reported as completed, or as cancelled in the spooler,     *)
(*     only after its bytes have left;                                     *)
(*   - a settled job stays as it was reported until it is forgotten.       *)
(***************************************************************************)
EXTENDS Naturals

CONSTANT Jobs

VARIABLES
  view,  \* what the client is told about the job
  sent   \* how often the job's bytes left the agent

contractVars == <<view, sent>>

Settled == {"completed", "unsent", "dropped", "cancelled", "unknown"}

Views == {"none", "open", "gone"} \cup Settled

ContractTypeOK ==
  /\ view \in [Jobs -> Views]
  /\ sent \in [Jobs -> 0..1]

Init ==
  /\ view = [j \in Jobs |-> "none"]
  /\ sent = [j \in Jobs |-> 0]

Tell(j, from, to) ==
  /\ view[j] \in from
  /\ view' = [view EXCEPT ![j] = to]
  /\ UNCHANGED sent

Accept(j) == Tell(j, {"none"}, "open")

\* A refused request: its key names another job, or it could not be recorded.
Refuse(j) == Tell(j, {"none"}, "gone")

\* A submission that the agent gave up on (unknown) may still go through.
Leave(j) ==
  /\ view[j] \in {"open", "unknown", "gone"}
  /\ sent[j] = 0
  /\ sent' = [sent EXCEPT ![j] = 1]
  /\ UNCHANGED view

ReportUnsent(j) == sent[j] = 0 /\ Tell(j, {"open"}, "unsent")

ReportDropped(j) == sent[j] = 0 /\ Tell(j, {"open"}, "dropped")

ReportCompleted(j) == sent[j] = 1 /\ Tell(j, {"open"}, "completed")

ReportCancelled(j) == sent[j] = 1 /\ Tell(j, {"open"}, "cancelled")

ReportUnknown(j) == Tell(j, {"open"}, "unknown")

Forget(j) == Tell(j, Settled, "gone")

Next ==
  \E j \in Jobs :
    \/ Accept(j) \/ Refuse(j) \/ Leave(j)
    \/ ReportUnsent(j) \/ ReportDropped(j) \/ ReportCompleted(j)
    \/ ReportCancelled(j) \/ ReportUnknown(j) \/ Forget(j)

Spec == Init /\ [][Next]_contractVars
=============================================================================
