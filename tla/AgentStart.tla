------------------------------ MODULE AgentStart ------------------------------
(***************************************************************************)
(* Starting the agent (agent/src/lib.rs start, persistence.rs init,        *)
(* security/token.rs load_or_create_admin_token, main.rs).                 *)
(*                                                                         *)
(* The database and the token file of a user's data directory outlive the  *)
(* agent, and processes may meet there: an agent that is killed and        *)
(* started again, the command that shows the token, and, when Twice, a     *)
(* second agent started while one runs.  A second agent gets as far as the *)
(* port: by then it has settled the unfinished jobs it found.              *)
(*                                                                         *)
(* Of a job only what settling it needs is kept: whether it is stored as   *)
(* waiting, as being handed over, as with the printer or as ended; paper   *)
(* is what really was handed over.  PrintEngine has the rest.              *)
(*                                                                         *)
(* A definition marked "Mutant" is a plausible mistake in the definition   *)
(* that follows it and is not part of the specification.                   *)
(***************************************************************************)
EXTENDS Naturals, FiniteSets

CONSTANTS
  Procs,        \* processes: agents and uses of the token command
  Jobs,
  Migrations,   \* MIGRATIONS.len()
  Twice,        \* a second agent may be started while one is up
  KilledWriting,\* a process may die between creating and writing the token
  MaxStarts     \* processes started in a behaviour

ASSUME StartAssumption ==
  /\ Migrations \in Nat /\ MaxStarts \in Nat
  /\ Twice \in BOOLEAN /\ KilledWriting \in BOOLEAN

VARIABLES
  pc,      \* per process, where start is; "off" before it and after it failed
  kind,    \* per process: agent or the token command
  version, \* per process, user_version as it read it
  found,   \* per process, the unfinished jobs it read and has still to settle
  memory,  \* per process, the jobs it holds and their stage
  token,   \* per process, the admin token it uses or shows
  schema,  \* the database: user_version and the migrations applied
  rows,    \* the database: the stage of each job
  file,    \* the token file
  port,    \* the processes that listen: at most one can
  paper,   \* jobs handed to a printer
  starts,  \* processes started so far
  made     \* tokens generated so far

startVars == <<pc, kind, version, found, memory, token, schema, rows, file, port,
               paper, starts, made>>

Ended == {"completed", "not_printed", "unknown"}
Stages == {"none", "accepted", "submitting", "sent"} \cup Ended
NoFile == 0   \* a token is a number from 2 on
Empty == 1
NoJobs == [j \in Jobs |-> "none"]
Past(p) == pc[p] \in {"reading", "settling", "binding", "running", "shown"}

StartInit ==
  /\ pc = [p \in Procs |-> "off"] /\ kind = [p \in Procs |-> "agent"]
  /\ version = [p \in Procs |-> 0]
  /\ found = [p \in Procs |-> NoJobs] /\ memory = [p \in Procs |-> NoJobs]
  /\ token = [p \in Procs |-> NoFile]
  /\ schema \in {[version |-> n, applied |-> n] : n \in 0..Migrations + 1}
  /\ rows = NoJobs /\ file = NoFile /\ port = {} /\ paper = {} /\ starts = 0
  /\ made = 0

Goes(p, where) == pc' = [pc EXCEPT ![p] = where]

\* The process ends, by an error of start or from outside: its memory and its
\* listener are gone.
Ends(p) ==
  /\ Goes(p, "off")
  /\ found' = [found EXCEPT ![p] = NoJobs]
  /\ memory' = [memory EXCEPT ![p] = NoJobs]
  /\ token' = [token EXCEPT ![p] = NoFile]
  /\ port' = port \ {p}

\* kiln-agent run: start opens the database
Start(p) ==
  /\ pc[p] = "off" /\ starts < MaxStarts
  /\ Twice \/ \A q \in Procs : pc[q] = "off" \/ kind[q] = "token"
  /\ starts' = starts + 1 /\ kind' = [kind EXCEPT ![p] = "agent"]
  /\ Goes(p, "opening")
  /\ UNCHANGED <<version, found, memory, token, schema, rows, file, port, paper, made>>

\* kiln-agent token: no database, only the token file
TokenCommand(p) ==
  /\ pc[p] = "off" /\ starts < MaxStarts
  /\ starts' = starts + 1 /\ kind' = [kind EXCEPT ![p] = "token"]
  /\ Goes(p, "token")
  /\ UNCHANGED <<version, found, memory, token, schema, rows, file, port, paper, made>>

\* init reads user_version and refuses a database of a newer agent
ReadVersion(p) ==
  /\ pc[p] = "opening"
  /\ IF schema.version > Migrations
       THEN Ends(p) /\ UNCHANGED version
       ELSE /\ version' = [version EXCEPT ![p] = schema.version]
            /\ Goes(p, "migrating")
            /\ UNCHANGED <<found, memory, token, port>>
  /\ UNCHANGED <<kind, schema, rows, file, paper, starts, made>>

\* One migration: its tables and user_version in one transaction.  It fails if
\* its tables are there already, because another process was faster.
Migrate(p) ==
  /\ pc[p] = "migrating" /\ version[p] < Migrations
  /\ IF schema.applied > version[p]
       THEN Ends(p) /\ UNCHANGED <<version, schema>>
       ELSE /\ schema' = [version |-> version[p] + 1, applied |-> version[p] + 1]
            /\ version' = [version EXCEPT ![p] = @ + 1]
            /\ UNCHANGED <<pc, found, memory, token, port>>
  /\ UNCHANGED <<kind, rows, file, paper, starts, made>>

Opened(p) ==
  /\ pc[p] = "migrating" /\ version[p] = Migrations
  /\ Goes(p, "token")
  /\ UNCHANGED <<kind, version, found, memory, token, schema, rows, file, port, paper, starts, made>>

WithToken(p, t) ==
  /\ token' = [token EXCEPT ![p] = t]
  /\ Goes(p, IF kind[p] = "token" THEN "shown" ELSE "reading")

\* load_or_create_admin_token: an existing file is used, one that is too short
\* is an error
ReadToken(p) ==
  /\ pc[p] = "token"
  /\ CASE file = NoFile -> Goes(p, "creating") /\ UNCHANGED <<found, memory, token, port>>
       [] file = Empty  -> Ends(p)
       [] OTHER         -> WithToken(p, file) /\ UNCHANGED <<found, memory, port>>
  /\ UNCHANGED <<kind, version, schema, rows, file, paper, starts, made>>

\* Mutant: the file is opened with create and truncate
CreateTruncates(p) ==
  /\ pc[p] = "creating"
  /\ file' = Empty /\ Goes(p, "writing") /\ UNCHANGED <<found, memory, token, port>>
  /\ UNCHANGED <<kind, version, schema, rows, paper, starts, made>>

\* write_private: create_new fails if somebody else has created the file
CreateToken(p) ==
  /\ pc[p] = "creating"
  /\ IF file = NoFile
       THEN file' = Empty /\ Goes(p, "writing") /\ UNCHANGED <<found, memory, token, port>>
       ELSE Ends(p) /\ UNCHANGED file
  /\ UNCHANGED <<kind, version, schema, rows, paper, starts, made>>

\* the generated token is written, to the file this process has open
WriteToken(p) ==
  /\ pc[p] = "writing"
  /\ made' = made + 1 /\ file' = made + 2 /\ WithToken(p, made + 2)
  /\ UNCHANGED <<kind, version, found, memory, schema, rows, port, paper, starts>>

\* engine.start: reconcile_after_restart reads the unfinished jobs
ReadUnfinished(p) ==
  /\ pc[p] = "reading"
  /\ found' = [found EXCEPT ![p] = [j \in Jobs |-> IF rows[j] \in Ended THEN "none" ELSE rows[j]]]
  /\ Goes(p, "settling")
  /\ UNCHANGED <<kind, version, memory, token, schema, rows, file, port, paper, starts, made>>

\* How a job found at a stage is settled.  One that was sent is followed again,
\* has lost its printer, or was delivered to a device and is complete.
Settled(stage) ==
  CASE stage = "accepted"   -> {"not_printed"}
    [] stage = "submitting" -> {"unknown"}
    [] stage = "sent"       -> {"sent", "unknown", "completed"}

\* ... and settles them one by one from the copy it read
Settle(p, j) ==
  /\ pc[p] = "settling" /\ found[p][j] # "none"
  /\ \E s \in Settled(found[p][j]) :
     /\ memory' = [memory EXCEPT ![p][j] = IF s \in Ended THEN "none" ELSE s]
     /\ rows' = IF s \in Ended THEN [rows EXCEPT ![j] = s] ELSE rows
  /\ found' = [found EXCEPT ![p][j] = "none"]
  /\ UNCHANGED <<pc, kind, version, token, schema, file, port, paper, starts, made>>

SettledAll(p) ==
  /\ pc[p] = "settling" /\ found[p] = NoJobs
  /\ Goes(p, "binding")
  /\ UNCHANGED <<kind, version, found, memory, token, schema, rows, file, port, paper, starts, made>>

\* the listener: the last thing start tries
Bind(p) ==
  /\ pc[p] = "binding"
  /\ IF port = {}
       THEN port' = {p} /\ Goes(p, "running") /\ UNCHANGED <<found, memory, token>>
       ELSE Ends(p)
  /\ UNCHANGED <<kind, version, schema, rows, file, paper, starts, made>>

\* A job's record is replaced by what the process holds in memory.
Stored(p, j, from, to) ==
  /\ pc[p] = "running" /\ memory[p][j] = from
  /\ memory' = [memory EXCEPT ![p][j] = IF to \in Ended THEN "none" ELSE to]
  /\ rows' = [rows EXCEPT ![j] = to]
  /\ UNCHANGED <<pc, kind, version, found, token, schema, file, port, starts, made>>

Accept(p, j) == rows[j] = "none" /\ Stored(p, j, "none", "accepted") /\ UNCHANGED paper
BeginSubmit(p, j) == Stored(p, j, "accepted", "submitting") /\ UNCHANGED paper
HandOver(p, j) ==
  /\ pc[p] = "running" /\ memory[p][j] = "submitting" /\ j \notin paper
  /\ paper' = paper \cup {j}
  /\ UNCHANGED <<pc, kind, version, found, memory, token, schema, rows, file, port, starts, made>>
RecordSent(p, j) == j \in paper /\ Stored(p, j, "submitting", "sent") /\ UNCHANGED paper
Complete(p, j) == Stored(p, j, "sent", "completed") /\ UNCHANGED paper

\* The process is killed, or the token command is done.
Dies(p) ==
  /\ pc[p] # "off" /\ (pc[p] = "writing" => KilledWriting)
  /\ Ends(p)
  /\ UNCHANGED <<kind, version, schema, rows, file, paper, starts, made>>

StartNext ==
  \E p \in Procs :
    \/ Start(p) \/ TokenCommand(p) \/ Dies(p)
    \/ ReadVersion(p) \/ Migrate(p) \/ Opened(p)
    \/ ReadToken(p) \/ CreateToken(p) \/ WriteToken(p)
    \/ ReadUnfinished(p) \/ SettledAll(p) \/ Bind(p)
    \/ \E j \in Jobs : \/ Settle(p, j) \/ Accept(p, j) \/ BeginSubmit(p, j)
                       \/ HandOver(p, j) \/ RecordSent(p, j) \/ Complete(p, j)

StartSpec == StartInit /\ [][StartNext]_startVars

-----------------------------------------------------------------------------

\* The state is well formed.
StartTypeOK ==
  /\ pc \in [Procs -> {"off", "opening", "migrating", "token", "creating", "writing",
                       "reading", "settling", "binding", "running", "shown"}]
  /\ kind \in [Procs -> {"agent", "token"}] /\ version \in [Procs -> 0..Migrations]
  /\ found \in [Procs -> [Jobs -> Stages \ Ended]]
  /\ memory \in [Procs -> [Jobs -> Stages \ Ended]]
  /\ token \in [Procs -> Nat] /\ file \in Nat /\ rows \in [Jobs -> Stages]
  /\ schema \in [version : 0..Migrations + 1, applied : 0..Migrations + 1]
  /\ port \subseteq Procs /\ paper \subseteq Jobs /\ starts \in 0..MaxStarts
  /\ made \in 0..MaxStarts

\* Whoever got a token got the one in the file: an agent accepts what the
\* token command shows, however the two raced to create it (write_private).
TokenIsTheFile == \A p \in Procs : Past(p) => token[p] = file

\* What is left of a start that was interrupted lets the next one through: a
\* migration is applied if and only if it is counted (init), and the token
\* file is whole unless somebody is about to write it.
CanStartAgain ==
  /\ schema.version = schema.applied
  /\ file = Empty => \E p \in Procs : pc[p] = "writing"

\* A record that says NOT_PRINTED is of a job that never reached the printer
\* (reconcile_after_restart; docs/print-job-lifecycle.md: "Never handed to the
\* spooler or device").
NotPrintedIsUnsent == \A j \in Jobs : rows[j] = "not_printed" => j \notin paper

\* A start, wherever an earlier one was killed, finds a usable data directory,
\* agrees with the token command on the token and reports no printed job as
\* not printed (init, load_or_create_admin_token, reconcile_after_restart).
RestartIsSafe == StartTypeOK /\ TokenIsTheFile /\ CanStartAgain /\ NotPrintedIsUnsent
=============================================================================
