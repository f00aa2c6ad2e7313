---------------------------- MODULE JobLifecycle ----------------------------
(***************************************************************************)
(* The job record of print-core/src/model/job.rs and the operations that   *)
(* move it: can_transition_to, transition, fail and complete.              *)
(*                                                                         *)
(* A record keeps the fields the engine decides on.  Names, sizes, copies  *)
(* and timestamps are left out; spooler_job_id is set exactly when         *)
(* delivery becomes SPOOLER_ACCEPTED and is therefore not a field.  The    *)
(* error of a failed job is reduced to what it tells the client about the  *)
(* paper: see Errors.                                                      *)
(***************************************************************************)

Terminal == {"COMPLETED", "FAILED", "CANCELLED"}

Statuses == {"RECEIVED", "VALIDATING", "QUEUED", "PRINTING"} \cup Terminal

Deliveries ==
  {"REQUEST_ACCEPTED", "SUBMITTING", "SPOOLER_ACCEPTED", "DEVICE_DELIVERED"}

Evidence ==
  {"none", "SPOOLER_REPORTED_PRINTED", "SPOOLER_JOB_RETIRED", "BYTES_DELIVERED"}

\* "NOT_PRINTED", "UNKNOWN": the two values of details.outcome;
\* "absent": an error without details.outcome, which is what a validation
\* error, an error of the Windows provider and a job the spooler failed record.
Errors == {"none", "absent", "NOT_PRINTED", "UNKNOWN"}

JobRecord ==
  [status : Statuses, delivery : Deliveries, condition : BOOLEAN,
   completion : Evidence, error : Errors]

NewJob ==
  [status |-> "RECEIVED", delivery |-> "REQUEST_ACCEPTED", condition |-> FALSE,
   completion |-> "none", error |-> "none"]

IsTerminal(job) == job.status \in Terminal

\* The failed records that tell a client nothing was sent: by their outcome, or,
\* where there is none, by a delivery stage that no worker ever changed.
SaysUnsent(job) ==
  /\ job.status = "FAILED"
  /\ \/ job.error = "NOT_PRINTED"
     \/ job.error = "absent" /\ job.delivery = "REQUEST_ACCEPTED"

\* Allowed forward transitions; a status may also "move" to itself unless it
\* is terminal.
CanTransition(from, to) ==
  /\ from \notin Terminal
  /\ \/ to \in {"FAILED", "CANCELLED"}
     \/ <<from, to>> \in { <<"RECEIVED", "VALIDATING">>,
                           <<"VALIDATING", "QUEUED">>,
                           <<"QUEUED", "PRINTING">>,
                           <<"QUEUED", "COMPLETED">>,
                           <<"PRINTING", "COMPLETED">> }
     \/ from = to

\* Changes nothing for an illegal transition; a terminal status clears the
\* condition that was holding the job.
Transition(job, next) ==
  IF CanTransition(job.status, next)
  THEN [job EXCEPT !.status = next,
                   !.condition = IF next \in Terminal THEN FALSE ELSE @]
  ELSE job

Fail(job, err) ==
  IF CanTransition(job.status, "FAILED")
  THEN [Transition(job, "FAILED") EXCEPT !.error = err]
  ELSE job

Complete(job, evidence) ==
  IF CanTransition(job.status, "COMPLETED")
  THEN [Transition(job, "COMPLETED") EXCEPT !.completion = evidence]
  ELSE job
=============================================================================
