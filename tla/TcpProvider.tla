----------------------------- MODULE TcpProvider -----------------------------
(***************************************************************************)
(* Direct RAW TCP printing (providers/tcp/src/lib.rs, status.rs).          *)
(*                                                                         *)
(* One configured printer.  The printer's worker calls submit, one job at  *)
(* a time; a discovery thread asks the printer for its status over the     *)
(* same port.  They share Runtime, under a lock that neither holds while   *)
(* it uses the network.  The printer and its network are external: it may  *)
(* become unreachable, and its conditions change, at any time.             *)
(*                                                                         *)
(* A definition marked "Mutant" is a plausible mistake in the definition   *)
(* that follows it and is not part of the specification.                   *)
(***************************************************************************)
EXTENDS Naturals, Sequences, FiniteSets

CONSTANTS
  Copies,     \* SubmitSpec.copies
  Blocks,     \* partial writes it takes to hand over one copy
  StatusTtl,  \* STATUS_TTL in ticks
  MaxJobs,    \* bound on jobs
  MaxChanges  \* bound on changes of the printer or its network

ASSUME TcpAssumption ==
  /\ {Copies, Blocks, StatusTtl} \subseteq Nat \ {0}
  /\ {MaxJobs, MaxChanges} \subseteq Nat

VARIABLES
  protocol,   \* TcpPrinterConfig.status_query
  device,     \* [up, conds]: reachable, and the conditions it is in
  changes,    \* changes of the device so far
  send,       \* the worker in submit: [pc, sent, outcome, jobs]
  runtime,    \* Runtime: [busy, status], status NoStatus or [age, answer]
  query,      \* the discovery thread: [pc, open, cut, answer, truth]; open: the
              \* printer was there when the query began, cut: part of the
              \* answer is missing
  shown       \* the printer of the last discover: [online, state, conds]

tcpVars == <<protocol, device, changes, send, runtime, query, shown>>

Conditions == {"Offline", "PaperOut", "HeadOpen", "RibbonOut", "Error",
               "Paused", "PaperLow"}
Serious == {"PaperOut", "HeadOpen", "RibbonOut", "Error"}
Unanswered == [conds |-> {}, state |-> "none"]
NoStatus == [age |-> 0, answer |-> [conds |-> {}, state |-> "absent"]]
Total == Copies * Blocks

(***************************************************************************)
(* Status answers.  A byte is the set of its one bits; a ZPL string is the *)
(* sequence of its fields.                                                 *)
(***************************************************************************)
from_conditions(conds) ==
  [conds |-> conds,
   state |-> IF "Offline" \in conds THEN "Offline"
             ELSE IF conds \cap Serious # {} THEN "Error"
             ELSE IF "Paused" \in conds THEN "Paused" ELSE "Ready"]

\* A string cut short by the end of the answer counts with the fields it has.
parse_zpl_host_status(blocks) ==
  LET flag(b, i) == blocks[b][i + 1] = "1"
      If(c, cond) == IF c THEN {cond} ELSE {}
  IN  IF \/ Len(blocks) < 2
         \/ Len(blocks[1]) < 12
         \/ Len(blocks[2]) < 4
      THEN Unanswered
      ELSE from_conditions(
             If(flag(1, 1), "PaperOut") \cup If(flag(1, 2), "Paused")
             \cup If(\E i \in 9..11 : flag(1, i), "Error")
             \cup If(flag(2, 2), "HeadOpen") \cup If(flag(2, 3), "RibbonOut"))

parse_escpos_status(answers) ==
  LET If(c, cond) == IF c THEN {cond} ELSE {}
  IN  IF \E i \in 1..3 : answers[i] \cap {0, 1, 4, 7} # {1, 4}
      THEN Unanswered
      ELSE from_conditions(
             If(3 \in answers[1], "Offline") \cup If(2 \in answers[2], "HeadOpen")
             \cup If(5 \in answers[2] \/ answers[3] \cap {5, 6} # {}, "PaperOut")
             \cup If(6 \in answers[2], "Error")
             \cup If(answers[3] \cap {2, 3} # {}, "PaperLow"))

\* External: what a printer in these conditions sends.
ZplAnswer(conds) ==
  LET Bit(c) == IF c \in conds THEN "1" ELSE "0"
  IN  << <<"030", Bit("PaperOut"), Bit("Paused"), "0", "0", "0", "0", "0", "0",
           "0", Bit("Error"), "0">>,
         <<"001", "0", Bit("HeadOpen"), Bit("RibbonOut"), "1">>,
         <<"1234", "0">> >>
EscPosAnswer(conds) ==
  LET If(cond, bits) == IF cond \in conds THEN bits ELSE {}
  IN  << {1, 4} \cup If("Offline", {3}),
         {1, 4} \cup If("HeadOpen", {2}) \cup If("PaperOut", {5}) \cup If("Error", {6}),
         {1, 4} \cup If("PaperLow", {2, 3}) \cup If("PaperOut", {5, 6}) >>

\* The conditions a protocol can tell of.
Tells == [Zpl |-> {"PaperOut", "Paused", "Error", "HeadOpen", "RibbonOut"},
          EscPos |-> {"Offline", "PaperOut", "HeadOpen", "Error", "PaperLow"}]

\* Where an answer may end: after a number of whole strings (or bytes) and of
\* tokens of the next string, its fields and the commas between them.
Whole == [strings |-> 3, tokens |-> 0]
FieldsOf == <<12, 5, 2>>
Cuts ==
  {Whole} \cup UNION {[strings : {k}, tokens : 0..2 * FieldsOf[k + 1] - 1] : k \in 0..2}

\* A string that ends after t tokens, t > 0: after a comma comes an empty field.
EmptyField == "empty"
CutString(string, t) ==
  [i \in 1..(t \div 2) + 1 |-> IF 2 * i <= t + 1 THEN string[i] ELSE EmptyField]

Received(answer, cut) ==
  SubSeq(answer, 1, cut.strings)
  \o (IF cut.tokens = 0 THEN <<>>
      ELSE <<CutString(answer[cut.strings + 1], cut.tokens)>>)

\* What query_status makes of an answer that ends there.
Understood(conds, cut) ==
  IF protocol = "Zpl"
  THEN parse_zpl_host_status(Received(ZplAnswer(conds), cut))
  ELSE IF cut = Whole THEN parse_escpos_status(EscPosAnswer(conds)) ELSE Unanswered

-----------------------------------------------------------------------------
OfflineNow == [online |-> FALSE, state |-> "Offline", conds |-> {"Offline"}]

\* discover's reading of a device status
Shows(status) ==
  IF protocol = "None" THEN [online |-> TRUE, state |-> "Unknown", conds |-> {}]
  ELSE IF status = Unanswered THEN OfflineNow
  ELSE [online |-> status.state # "Offline", state |-> status.state,
        conds |-> status.conds]

TcpInit ==
  /\ protocol \in {"None", "Zpl", "EscPos"}
  /\ \E c \in {{}, {"PaperOut"}} : device = [up |-> TRUE, conds |-> c]
  /\ changes = 0
  /\ send = [pc |-> "idle", sent |-> 0, outcome |-> "none", jobs |-> 0]
  /\ runtime = [busy |-> FALSE, status |-> NoStatus]
  /\ query = [pc |-> "idle", open |-> FALSE, cut |-> FALSE,
              answer |-> Unanswered, truth |-> {}]
  /\ shown = Shows(Unanswered)

(***************************************************************************)
(* submit.                                                                 *)
(***************************************************************************)
\* Only RAW payloads get as far as the busy mark.
TcpSubmit(kind) ==
  /\ send.pc = "idle" /\ send.jobs < MaxJobs
  /\ IF kind = "Raw"
     THEN /\ send' = [send EXCEPT !.pc = "connecting", !.sent = 0,
                                  !.outcome = "none", !.jobs = @ + 1]
          /\ runtime' = [runtime EXCEPT !.busy = TRUE]
     ELSE /\ send' = [send EXCEPT !.sent = 0, !.outcome = "Refused", !.jobs = @ + 1]
          /\ UNCHANGED runtime
  /\ UNCHANGED <<protocol, device, changes, query, shown>>

\* deliver: no connection within connect_timeout
ConnectFails ==
  /\ send.pc = "connecting"
  /\ ~device.up \/ query.pc = "asking"
  /\ send' = [send EXCEPT !.pc = "returning", !.outcome = "NOT_PRINTED"]
  /\ UNCHANGED <<protocol, device, changes, runtime, query, shown>>

Connects ==
  /\ send.pc = "connecting" /\ device.up
  /\ send' = [send EXCEPT !.pc = "sending"]
  /\ UNCHANGED <<protocol, device, changes, runtime, query, shown>>

WriteBlock ==
  /\ send.pc = "sending" /\ send.sent < Total /\ device.up
  /\ send' = [send EXCEPT !.sent = @ + 1]
  /\ UNCHANGED <<protocol, device, changes, runtime, query, shown>>

\* Mutant: a failure before the last byte counts as nothing printed
PartialUnsent ==
  IF send.sent < Total THEN "NOT_PRINTED" ELSE "UNKNOWN"

\* the outcome in the error `partial` makes of any failure after connecting
partial == "UNKNOWN"

\* The connection is reset, or the printer stops reading and write_timeout
\* passes.
SendFails ==
  /\ send.pc = "sending" /\ (~device.up \/ device.conds # {})
  /\ send' = [send EXCEPT !.pc = "returning", !.outcome = partial]
  /\ UNCHANGED <<protocol, device, changes, runtime, query, shown>>

\* All copies written: flush, half-close, and drain for at most two seconds.
Flushes ==
  /\ send.pc = "sending" /\ send.sent = Total
  /\ send' = [send EXCEPT !.pc = "returning", !.outcome = "Delivered"]
  /\ UNCHANGED <<protocol, device, changes, runtime, query, shown>>

\* Mutant: a failed delivery returns before set_busy(false)
SubmitReturnsEarly ==
  /\ send.pc = "returning"
  /\ send' = [send EXCEPT !.pc = "idle"]
  /\ runtime' = IF send.outcome = "Delivered"
                THEN [busy |-> FALSE, status |-> NoStatus] ELSE runtime
  /\ UNCHANGED <<protocol, device, changes, query, shown>>

\* set_busy(false) forgets the status, then submit returns.
SubmitReturns ==
  /\ send.pc = "returning"
  /\ send' = [send EXCEPT !.pc = "idle"]
  /\ runtime' = [busy |-> FALSE, status |-> NoStatus]
  /\ UNCHANGED <<protocol, device, changes, query, shown>>

(***************************************************************************)
(* discover and device_status.                                             *)
(***************************************************************************)
Cached == runtime.status.answer.state # "absent"
Fresh == Cached /\ runtime.status.age < StatusTtl

\* No query without a protocol, while a job is written or with a fresh answer.
LooksUp ==
  /\ query.pc = "idle"
  /\ protocol = "None" \/ runtime.busy \/ Fresh
  /\ shown' = Shows(IF Cached THEN runtime.status.answer ELSE Unanswered)
  /\ UNCHANGED <<protocol, device, changes, send, runtime, query>>

\* The lock is released and the printer asked.
Asks ==
  /\ query.pc = "idle"
  /\ protocol # "None" /\ ~runtime.busy /\ ~Fresh
  /\ query' = [query EXCEPT !.pc = "asking", !.open = device.up]
  /\ UNCHANGED <<protocol, device, changes, send, runtime, shown>>

\* query_status: the whole answer, part of it, or no connection.  A printer
\* may serve one connection at a time.
Answered(cut) ==
  /\ query.pc = "asking"
  /\ protocol = "EscPos" => cut.tokens = 0
  /\ cut = Whole \/ ~device.up \/ send.pc = "sending"
  /\ cut = Whole => device.up
  /\ cut \notin {Whole, [strings |-> 0, tokens |-> 0]} => query.open
  /\ query' = [query EXCEPT !.pc = "answered", !.truth = device.conds,
                            !.cut = (cut # Whole),
                            !.answer = Understood(device.conds, cut)]
  /\ UNCHANGED <<protocol, device, changes, send, runtime, shown>>

\* The answer is stored whatever happened since, and discover shows it.
Stores ==
  /\ query.pc = "answered"
  /\ runtime' = [runtime EXCEPT !.status = [age |-> 0, answer |-> query.answer]]
  /\ shown' = Shows(query.answer)
  /\ query' = [query EXCEPT !.pc = "idle"]
  /\ UNCHANGED <<protocol, device, changes, send>>

\* A cached answer grows older.
Ages ==
  /\ Cached /\ runtime.status.age < StatusTtl
  /\ runtime' = [runtime EXCEPT !.status.age = @ + 1]
  /\ UNCHANGED <<protocol, device, changes, send, query, shown>>

\* External: somebody takes out the paper, opens the head, pulls the plug.
DeviceChanges ==
  /\ changes < MaxChanges
  /\ changes' = changes + 1
  /\ \/ device' = [device EXCEPT !.up = ~@]
     \/ \E c \in {{}, {"Paused"}, {"HeadOpen", "PaperLow"}, {"Offline", "Error"},
                  {"RibbonOut"}} :
          device' = [device EXCEPT !.conds = c]
  /\ UNCHANGED <<protocol, send, runtime, query, shown>>

TcpNext ==
  \/ \E kind \in {"Raw", "Pages"} : TcpSubmit(kind)
  \/ ConnectFails \/ Connects \/ WriteBlock \/ SendFails \/ Flushes \/ SubmitReturns
  \/ LooksUp \/ Asks \/ (\E cut \in Cuts : Answered(cut)) \/ Stores \/ Ages
  \/ DeviceChanges

\* Timeouts end every network call, and discovery runs for ever.
TcpFairness ==
  /\ WF_tcpVars(ConnectFails \/ Connects \/ WriteBlock \/ SendFails \/ Flushes
                \/ SubmitReturns)
  /\ WF_tcpVars(LooksUp \/ Asks)
  /\ WF_tcpVars((\E cut \in Cuts : Answered(cut)) \/ Stores)
  /\ WF_tcpVars(Ages)

TcpSpec == TcpInit /\ [][TcpNext]_tcpVars /\ TcpFairness
-----------------------------------------------------------------------------
Statuses == {Unanswered} \cup {from_conditions(c) : c \in SUBSET Conditions}

\* The worker, the runtime record and the discovery thread have their types.
TcpTypeOK ==
  /\ protocol \in {"None", "Zpl", "EscPos"}
  /\ device \in [up : BOOLEAN, conds : SUBSET Conditions]
  /\ changes \in 0..MaxChanges
  /\ send \in [pc : {"idle", "connecting", "sending", "returning"},
               sent : 0..Total, jobs : 0..MaxJobs,
               outcome : {"none", "Refused", "NOT_PRINTED", "UNKNOWN", "Delivered"}]
  /\ runtime.busy \in BOOLEAN
  /\ runtime.status.age \in 0..StatusTtl
  /\ runtime.status.answer \in Statuses \cup {NoStatus.answer}
  /\ query.pc \in {"idle", "asking", "answered"}

\* What submit tells the engine is true of the printer: NOT_PRINTED (which the
\* engine may retry) and Refused mean that no byte was handed over, Delivered
\* that all copies were (lib.rs:8-10, ADR 0003).
OutcomeIsTrue ==
  /\ send.outcome \in {"NOT_PRINTED", "Refused"} => send.sent = 0
  /\ send.outcome = "Delivered" => send.sent = Total

\* The conditions the protocol could tell of when the printer answered.
TrueConditions == query.truth \cap Tells[protocol]

\* A status answer says of the printer what was true when it answered, as far
\* as its protocol can tell.  A cut answer is refused, or misses no more than a
\* ribbon that ran out: query_status never invents a condition and never loses
\* paper, head, pause or error (status.rs, parse_zpl_host_status).
AnswerIsTrue ==
  query.pc = "answered" /\ query.answer # Unanswered =>
    \/ query.answer = from_conditions(TrueConditions)
    \/ /\ query.cut /\ protocol = "Zpl"
       /\ query.answer = from_conditions(TrueConditions \ {"RibbonOut"})

\* What the provider says, of a job and of the printer, is true (submit,
\* query_status).
TcpIsTrue == TcpTypeOK /\ OutcomeIsTrue /\ AnswerIsTrue

\* Discovery comes to show the printer as it is once it stops changing and no
\* job is left, whatever queries overlapped jobs before.
ShownBecomesRight ==
  <>[](protocol # "None" =>
         shown = IF device.up
                 THEN Shows(from_conditions(device.conds \cap Tells[protocol]))
                 ELSE OfflineNow)

\* Not true of the code: a printer that takes a job is not shown offline.
\* The job before forgot the status and no query is made during a job.
BusyIsOnline ==
  [][LooksUp /\ send.pc = "sending" /\ device.up /\ "Offline" \notin device.conds
       => shown'.online]_tcpVars

\* Not true of the code: an answer that does not tell everything is no valid one
\* (lib.rs:148, "no valid answer").  One that ends at the comma before the
\* ribbon's flag has the four fields the parser asks for.
CutAnswerIsRefused ==
  query.pc = "answered" /\ query.answer # Unanswered =>
    query.answer = from_conditions(TrueConditions)

\* Not true of the code: no status query is under way while a job is written
\* (lib.rs:64-65).
NoQueryDuringJob == query.pc = "asking" => send.pc # "sending"
=============================================================================
