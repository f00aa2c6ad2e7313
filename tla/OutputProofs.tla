----------------------------- MODULE OutputProofs -----------------------------
(***************************************************************************)
(* What the providers tell the engine is true, for any number of jobs,     *)
(* copies, blocks, notifications and restarts; what the Windows provider   *)
(* accepts is on paper as it was asked for, whichever call fails; and the  *)
(* HTML renderer keeps its document to itself, for any deadlines and any   *)
(* resources, and the label renderer drops no element of a label.          *)
(***************************************************************************)
EXTENDS TcpProvider, SpoolWatch, SpoolSubmit, HtmlRender, LabelEncode,
  SequenceTheorems, WellFoundedInduction, TLAPS

-----------------------------------------------------------------------------
(* The direct TCP provider.                                                *)

\* A job that is connecting has sent nothing and, like one that is being
\* written, has no outcome yet; only a printer with a protocol is asked.
TcpProgress ==
  /\ send.pc = "connecting" => send.sent = 0
  /\ send.pc \in {"connecting", "sending"} => send.outcome = "none"
  /\ query.pc # "idle" => protocol # "None"

TcpRecords ==
  /\ runtime \in [busy : BOOLEAN,
                  status : [age : 0..StatusTtl, answer : Statuses \cup {NoStatus.answer}]]
  /\ query \in [pc : {"idle", "asking", "answered"}, open : BOOLEAN, cut : BOOLEAN,
                answer : Statuses, truth : SUBSET Conditions]

TcpInv == TcpIsTrue /\ TcpProgress /\ TcpRecords

\* The printers' own conditions are among the conditions.
LEMMA ConditionsHold ==
  /\ \A c \in SUBSET Conditions : from_conditions(c) \in Statuses
  /\ Unanswered \in Statuses
  /\ Total \in Nat
  /\ NoStatus \in [age : 0..StatusTtl, answer : Statuses \cup {NoStatus.answer}]
<1>1. \A c \in SUBSET Conditions : from_conditions(c) \in Statuses
  BY DEF Statuses
<1>2. Unanswered \in Statuses
  BY DEF Statuses
<1>3. Copies \in Nat /\ Blocks \in Nat
  BY TcpAssumption
<1>4. Total \in Nat
  BY <1>3 DEF Total
<1>5. StatusTtl \in Nat
  BY TcpAssumption
<1>6. NoStatus \in [age : 0..StatusTtl, answer : Statuses \cup {NoStatus.answer}]
  BY <1>5 DEF NoStatus
<1> QED BY <1>1, <1>2, <1>4, <1>6

\* Two strings of which the first is whole and the second has its head flag:
\* parse_zpl_host_status reads what the printer meant, apart from a ribbon flag
\* that is missing.
LEMMA ZplReads ==
  ASSUME NEW conds \in SUBSET Conditions, NEW b, NEW n \in Nat, Len(b) = n, n >= 2,
         b[1] = ZplAnswer(conds)[1],
         NEW y, b[2] = y, NEW m \in Nat, Len(y) = m, m >= 4,
         y[3] = ZplAnswer(conds)[2][3],
         y[4] = ZplAnswer(conds)[2][4] \/ y[4] = "empty"
  PROVE \/ parse_zpl_host_status(b) = from_conditions(conds \cap Tells["Zpl"])
        \/ /\ y[4] = "empty"
           /\ parse_zpl_host_status(b)
                = from_conditions((conds \cap Tells["Zpl"]) \ {"RibbonOut"})
<1> DEFINE Bit(c) == IF c \in conds THEN "1" ELSE "0"
<1>0. PICK first, second, third :
        /\ first = <<"030", Bit("PaperOut"), Bit("Paused"), "0", "0", "0", "0", "0", "0",
                     "0", Bit("Error"), "0">>
        /\ second = <<"001", "0", Bit("HeadOpen"), Bit("RibbonOut"), "1">>
        /\ third = <<"1234", "0">>
  OBVIOUS
<1>1. ZplAnswer(conds) = <<first, second, third>>
  BY <1>0 DEF ZplAnswer
<1>2. b[1] = first /\ y[3] = second[3] /\ (y[4] = second[4] \/ y[4] = "empty")
  BY <1>1
<1>3. /\ first[2] = Bit("PaperOut") /\ first[3] = Bit("Paused")
      /\ first[10] = "0" /\ first[11] = Bit("Error") /\ first[12] = "0"
      /\ second[3] = Bit("HeadOpen") /\ second[4] = Bit("RibbonOut")
      /\ Len(first) = 12
  BY <1>0
<1> DEFINE If(c, cond) == IF c THEN {cond} ELSE {}
<1> DEFINE found == If(b[1][1 + 1] = "1", "PaperOut") \cup If(b[1][2 + 1] = "1", "Paused")
             \cup If(\E i \in 9..11 : b[1][i + 1] = "1", "Error")
             \cup If(y[2 + 1] = "1", "HeadOpen") \cup If(y[3 + 1] = "1", "RibbonOut")
<1>4. ~(Len(b) < 2 \/ Len(b[1]) < 12 \/ Len(b[2]) < 4)
  <2>1. Len(b[1]) = 12
    BY <1>2, <1>3, Zenon
  <2>2. Len(b[2]) = m
    BY Zenon
  <2> QED BY <2>1, <2>2
<1>5. parse_zpl_host_status(b) = from_conditions(found)
  BY <1>4, Zenon DEF parse_zpl_host_status
<1>6. /\ b[1][1 + 1] = "1" <=> "PaperOut" \in conds
      /\ b[1][2 + 1] = "1" <=> "Paused" \in conds
      /\ y[2 + 1] = "1" <=> "HeadOpen" \in conds
  BY <1>2, <1>3
<1>7. \/ y[3 + 1] = "1" <=> "RibbonOut" \in conds
      \/ y[4] = "empty" /\ y[3 + 1] # "1"
  BY <1>2, <1>3
<1>8. (\E i \in 9..11 : b[1][i + 1] = "1") <=> "Error" \in conds
  <2>1. \A i \in 9..11 : i = 9 \/ i = 10 \/ i = 11
    OBVIOUS
  <2>2. b[1][9 + 1] = "0" /\ b[1][10 + 1] = Bit("Error") /\ b[1][11 + 1] = "0"
    BY <1>2, <1>3
  <2> QED BY <2>1, <2>2
<1>9. Tells["Zpl"] = {"PaperOut", "Paused", "Error", "HeadOpen", "RibbonOut"}
  BY DEF Tells
<1>10. CASE y[3 + 1] = "1" <=> "RibbonOut" \in conds
  <2>1. found = conds \cap Tells["Zpl"]
    BY <1>6, <1>8, <1>9, <1>10
  <2> QED BY <1>5, <2>1
<1>11. CASE y[4] = "empty" /\ y[3 + 1] # "1"
  <2>1. found = (conds \cap Tells["Zpl"]) \ {"RibbonOut"}
    BY <1>6, <1>8, <1>9, <1>11
  <2> QED BY <1>5, <1>11, <2>1
<1> QED BY <1>7, <1>10, <1>11

\* A string cut after some of its fields and commas.
LEMMA CutStrings ==
  ASSUME NEW s, NEW t \in 1..9
  PROVE /\ Len(CutString(s, t)) = (t \div 2) + 1
        /\ t >= 6 => /\ CutString(s, t)[3] = s[3]
                     /\ CutString(s, t)[4] \in {s[4], "empty"}
<1>1. (t \div 2) + 1 \in Nat
  OBVIOUS
<1>2. t >= 6 => {3, 4} \subseteq 1..(t \div 2) + 1
  OBVIOUS
<1> QED BY <1>1, <1>2 DEF CutString, EmptyField

\* What arrives of an answer: less than two strings, the first two whole, or
\* the first whole and the second cut.
LEMMA ReceivedStrings ==
  ASSUME NEW x, NEW s, NEW z, NEW cut \in Cuts,
         NEW b, b = Received(<<x, s, z>>, cut)
  PROVE \/ Len(b) < 2
        \/ Len(b) \in Nat /\ Len(b) >= 2 /\ b[1] = x /\ b[2] = s
        \/ /\ cut # Whole /\ Len(b) = 2 /\ b[1] = x
           /\ \E t \in 1..9 : b[2] = CutString(s, t)
<1>1. \/ cut = Whole
      \/ cut.strings = 0 /\ cut.tokens \in 0..23
      \/ cut.strings = 1 /\ cut.tokens \in 0..9
      \/ cut.strings = 2 /\ cut.tokens \in 0..3
  BY DEF Cuts, FieldsOf
<1>2. CASE cut.strings = 0
  <2>1. b = <<>> \/ \E w : b = <<w>>
    BY <1>2 DEF Received
  <2> QED BY <2>1
<1>3. CASE cut.strings = 1
  <2>1. PICK t : t = cut.tokens
    OBVIOUS
  <2>2. t \in 0..9
    BY <1>1, <1>3, <2>1 DEF Whole
  <2>3. cut # Whole
    BY <1>3 DEF Whole
  <2>4. CASE t = 0
    <3>1. Len(b) = 1
      BY <1>3, <2>1, <2>4 DEF Received
    <3> QED BY <3>1
  <2>5. CASE t # 0
    <3>1. Len(b) = 2 /\ b[1] = x /\ b[2] = CutString(s, t)
      BY <1>3, <2>1, <2>5 DEF Received
    <3>2. t \in 1..9
      BY <2>2, <2>5
    <3> QED BY <2>3, <3>1, <3>2
  <2> QED BY <2>4, <2>5
<1>4. CASE cut.strings = 2
  <2>1. CASE cut.tokens = 0
    BY <1>4, <2>1 DEF Received
  <2>2. CASE cut.tokens # 0
    <3>1. Len(b) = 3 /\ b[1] = x /\ b[2] = s
      BY <1>4, <2>2 DEF Received
    <3> QED BY <3>1
  <2> QED BY <2>1, <2>2
<1>5. CASE cut = Whole
  <2>1. Len(b) = 3 /\ b[1] = x /\ b[2] = s
    BY <1>5 DEF Received, Whole
  <2> QED BY <2>1
<1> QED BY <1>1, <1>2, <1>3, <1>4, <1>5

\* A ZPL answer, cut short or not, is understood as what the printer meant or
\* not at all, but one cut before its ribbon flag may pass for a whole one.
LEMMA ZplIsTrue ==
  ASSUME NEW conds \in SUBSET Conditions, NEW cut \in Cuts
  PROVE LET a == parse_zpl_host_status(Received(ZplAnswer(conds), cut)) IN
        \/ a = Unanswered
        \/ a = from_conditions(conds \cap Tells["Zpl"])
        \/ cut # Whole /\ a = from_conditions((conds \cap Tells["Zpl"]) \ {"RibbonOut"})
<1>1. PICK first, second, third : ZplAnswer(conds) = <<first, second, third>>
  BY DEF ZplAnswer
<1>2. PICK sentence : sentence = ZplAnswer(conds)
  OBVIOUS
<1>3. PICK b : b = Received(sentence, cut)
  OBVIOUS
<1>4. sentence[1] = first /\ sentence[2] = second
  BY <1>1, <1>2
<1>5. Len(second) = 5
  BY <1>1 DEF ZplAnswer
<1>6. sentence = <<first, second, third>>
  BY <1>1, <1>2
<1>7. CASE Len(b) < 2
  BY <1>2, <1>3, <1>7 DEF parse_zpl_host_status
<1>8. CASE Len(b) \in Nat /\ Len(b) >= 2 /\ b[1] = first /\ b[2] = second
  <2>1. second[4] # "empty"
    BY <1>1 DEF ZplAnswer
  <2>2. /\ second[3] = ZplAnswer(conds)[2][3] /\ second[4] = ZplAnswer(conds)[2][4]
        /\ b[1] = ZplAnswer(conds)[1]
    BY <1>2, <1>4, <1>8
  <2>3. Len(second) \in Nat /\ Len(second) >= 4
    BY <1>5
  <2>4. parse_zpl_host_status(b) = from_conditions(conds \cap Tells["Zpl"])
    BY <1>8, <2>1, <2>2, <2>3, ZplReads
  <2> QED BY <1>2, <1>3, <2>4
<1>9. CASE /\ cut # Whole /\ Len(b) = 2 /\ b[1] = first
           /\ \E t \in 1..9 : b[2] = CutString(second, t)
  <2>1. PICK t \in 1..9 : b[2] = CutString(second, t)
    BY <1>9
  <2>2. PICK y : y = b[2]
    OBVIOUS
  <2>3. /\ Len(y) = (t \div 2) + 1
        /\ t >= 6 => y[3] = second[3] /\ y[4] \in {second[4], "empty"}
    BY <2>1, <2>2, CutStrings
  <2>4. CASE t < 6
    <3>1. Len(y) < 4
      BY <2>3, <2>4
    <3> QED BY <1>2, <1>3, <2>2, <3>1 DEF parse_zpl_host_status
  <2>5. CASE t >= 6
    <3>1. Len(y) \in Nat /\ Len(y) >= 4
      BY <2>3, <2>5
    <3>2. Len(b) \in Nat /\ Len(b) >= 2
      BY <1>9
    <3>3. /\ y[3] = ZplAnswer(conds)[2][3] /\ b[1] = ZplAnswer(conds)[1]
          /\ y[4] = ZplAnswer(conds)[2][4] \/ y[4] = "empty"
      BY <1>2, <1>4, <1>9, <2>3, <2>5
    <3>4. \/ parse_zpl_host_status(b) = from_conditions(conds \cap Tells["Zpl"])
          \/ parse_zpl_host_status(b)
               = from_conditions((conds \cap Tells["Zpl"]) \ {"RibbonOut"})
      BY <2>2, <3>1, <3>2, <3>3, ZplReads
    <3> QED BY <1>2, <1>3, <1>9, <3>4
  <2> QED BY <2>4, <2>5
<1>10. \/ Len(b) < 2
       \/ Len(b) \in Nat /\ Len(b) >= 2 /\ b[1] = first /\ b[2] = second
       \/ /\ cut # Whole /\ Len(b) = 2 /\ b[1] = first
          /\ \E t \in 1..9 : b[2] = CutString(second, t)
  BY <1>3, <1>6, ReceivedStrings
<1> QED BY <1>7, <1>8, <1>9, <1>10

\* The same of an ESC/POS answer (parse_escpos_status).
LEMMA EscPosIsTrue ==
  ASSUME NEW conds \in SUBSET Conditions
  PROVE LET a == parse_escpos_status(EscPosAnswer(conds)) IN
        a = Unanswered \/ a = from_conditions(conds \cap Tells["EscPos"])
<1> DEFINE If(cond, bits) == IF cond \in conds THEN bits ELSE {}
<1> DEFINE Of(c, cond) == IF c THEN {cond} ELSE {}
<1>0. PICK x, y, z : /\ x = {1, 4} \cup If("Offline", {3})
                     /\ y = {1, 4} \cup If("HeadOpen", {2}) \cup If("PaperOut", {5}) \cup If("Error", {6})
                     /\ z = {1, 4} \cup If("PaperLow", {2, 3}) \cup If("PaperOut", {5, 6})
  OBVIOUS
<1>1. PICK a : a = EscPosAnswer(conds) /\ a = <<x, y, z>>
  BY <1>0 DEF EscPosAnswer
<1>2. a[1] = x /\ a[2] = y /\ a[3] = z
  BY <1>1
<1>3. CASE \E i \in 1..3 : a[i] \cap {0, 1, 4, 7} # {1, 4}
  BY <1>1, <1>3 DEF parse_escpos_status
<1>4. CASE ~(\E i \in 1..3 : a[i] \cap {0, 1, 4, 7} # {1, 4})
  <2> DEFINE found == Of(3 \in a[1], "Offline") \cup Of(2 \in a[2], "HeadOpen")
             \cup Of(5 \in a[2] \/ a[3] \cap {5, 6} # {}, "PaperOut")
             \cup Of(6 \in a[2], "Error") \cup Of(a[3] \cap {2, 3} # {}, "PaperLow")
  <2>1. parse_escpos_status(a) = from_conditions(found)
    BY <1>4 DEF parse_escpos_status
  <2>2. /\ 3 \in a[1] <=> "Offline" \in conds
        /\ 2 \in a[2] <=> "HeadOpen" \in conds
        /\ 5 \in a[2] \/ a[3] \cap {5, 6} # {} <=> "PaperOut" \in conds
        /\ 6 \in a[2] <=> "Error" \in conds
        /\ a[3] \cap {2, 3} # {} <=> "PaperLow" \in conds
    BY <1>0, <1>2
  <2>3. Tells["EscPos"] = {"Offline", "PaperOut", "HeadOpen", "Error", "PaperLow"}
    BY DEF Tells
  <2>4. found = conds \cap Tells["EscPos"]
    BY <2>2, <2>3
  <2> QED BY <1>1, <2>1, <2>4
<1> QED BY <1>3, <1>4

\* What query_status makes of an answer is what the printer meant, or nothing,
\* or all of it but the ribbon.
LEMMA UnderstoodIsTrue ==
  ASSUME protocol \in {"Zpl", "EscPos"}, NEW conds \in SUBSET Conditions, NEW cut \in Cuts
  PROVE \/ Understood(conds, cut) \in {Unanswered, from_conditions(conds \cap Tells[protocol])}
        \/ /\ cut # Whole /\ protocol = "Zpl"
           /\ Understood(conds, cut)
                = from_conditions((conds \cap Tells[protocol]) \ {"RibbonOut"})
<1>1. CASE protocol = "Zpl"
  BY <1>1, ZplIsTrue DEF Understood
<1>2. CASE protocol = "EscPos"
  BY <1>2, EscPosIsTrue DEF Understood
<1> QED BY <1>1, <1>2

\* Initially nothing is sent, asked or known.
LEMMA TcpInitInv == ASSUME TcpInit PROVE TcpInv
<1> USE TcpAssumption, ConditionsHold DEF TcpInit
<1>1. TcpRecords
  BY DEF TcpRecords
<1>a. device \in [up : BOOLEAN, conds : SUBSET Conditions]
  BY DEF Conditions
<1>b. /\ changes \in 0..MaxChanges
      /\ send \in [pc : {"idle", "connecting", "sending", "returning"},
                   sent : 0..Total, jobs : 0..MaxJobs,
                   outcome : {"none", "Refused", "NOT_PRINTED", "UNKNOWN", "Delivered"}]
  OBVIOUS
<1>c. TcpTypeOK
  BY <1>1, <1>a, <1>b DEF TcpTypeOK, TcpRecords
<1>2. OutcomeIsTrue /\ AnswerIsTrue /\ TcpProgress
  BY DEF OutcomeIsTrue, AnswerIsTrue, TcpProgress
<1> QED BY <1>1, <1>2, <1>c DEF TcpInv, TcpIsTrue

\* The steps of submit.
LEMMA TcpSendInv ==
  ASSUME TcpInv,
         \/ \E kind \in {"Raw", "Pages"} : TcpSubmit(kind)
         \/ ConnectFails \/ Connects \/ WriteBlock \/ SendFails \/ Flushes \/ SubmitReturns
  PROVE TcpInv'
<1> USE ConditionsHold
<1>0. /\ send \in [pc : {"idle", "connecting", "sending", "returning"},
                   sent : 0..Total, jobs : 0..MaxJobs,
                   outcome : {"none", "Refused", "NOT_PRINTED", "UNKNOWN", "Delivered"}]
      /\ MaxJobs \in Nat /\ StatusTtl \in Nat
  BY TcpAssumption DEF TcpInv, TcpIsTrue, TcpTypeOK
<1>1. /\ UNCHANGED <<protocol, device, changes, query, shown>>
      /\ \/ UNCHANGED runtime
         \/ runtime' = [runtime EXCEPT !.busy = TRUE]
         \/ runtime' = [busy |-> FALSE, status |-> NoStatus]
  BY DEF TcpSubmit, ConnectFails, Connects, WriteBlock, SendFails, Flushes, SubmitReturns
<1>2. TcpRecords'
  <2> DEFINE Status == [age : 0..StatusTtl, answer : Statuses \cup {NoStatus.answer}]
  <2>1. NoStatus \in Status /\ runtime \in [busy : BOOLEAN, status : Status]
    BY DEF TcpInv, TcpRecords
  <2> HIDE DEF Status
  <2>2. runtime' \in [busy : BOOLEAN, status : Status]
    <3>1. CASE UNCHANGED runtime
      BY <2>1, <3>1
    <3>2. CASE runtime' = [runtime EXCEPT !.busy = TRUE]
      BY <2>1, <3>2
    <3>3. CASE runtime' = [busy |-> FALSE, status |-> NoStatus]
      BY <2>1, <3>3
    <3> QED BY <1>1, <3>1, <3>2, <3>3
  <2> QED BY <1>1, <2>2 DEF TcpInv, TcpRecords, Status
<1>3. /\ send' \in [pc : {"idle", "connecting", "sending", "returning"},
                    sent : 0..Total, jobs : 0..MaxJobs,
                    outcome : {"none", "Refused", "NOT_PRINTED", "UNKNOWN", "Delivered"}]
      /\ send'.pc = "connecting" => send'.sent = 0
      /\ send'.pc \in {"connecting", "sending"} => send'.outcome = "none"
      /\ send'.outcome \in {"NOT_PRINTED", "Refused"} => send'.sent = 0
      /\ send'.outcome = "Delivered" => send'.sent = Total
  <2> USE DEF TcpInv, TcpProgress, TcpIsTrue, OutcomeIsTrue
  <2>1. ASSUME NEW kind, TcpSubmit(kind) PROVE <1>3!:
    <3>1. send.jobs < MaxJobs
      BY <2>1 DEF TcpSubmit
    <3>a. send.jobs + 1 \in 0..MaxJobs /\ 0 \in 0..Total
      BY <1>0, <3>1
    <3>2. CASE send' = [send EXCEPT !.pc = "connecting", !.sent = 0, !.outcome = "none",
                                    !.jobs = send.jobs + 1]
      <4>1. send' \in [pc : {"idle", "connecting", "sending", "returning"},
                       sent : 0..Total, jobs : 0..MaxJobs,
                       outcome : {"none", "Refused", "NOT_PRINTED", "UNKNOWN", "Delivered"}]
        BY <1>0, <3>a, <3>2
      <4>2. send'.pc = "connecting" /\ send'.sent = 0 /\ send'.outcome = "none"
        BY <1>0, <3>2
      <4> QED BY <4>1, <4>2
    <3>3. CASE send' = [send EXCEPT !.sent = 0, !.outcome = "Refused", !.jobs = send.jobs + 1] /\ send.pc = "idle"
      <4>1. send' \in [pc : {"idle", "connecting", "sending", "returning"},
                       sent : 0..Total, jobs : 0..MaxJobs,
                       outcome : {"none", "Refused", "NOT_PRINTED", "UNKNOWN", "Delivered"}]
        BY <1>0, <3>a, <3>3
      <4>2. send'.pc = "idle" /\ send'.sent = 0 /\ send'.outcome = "Refused"
        BY <1>0, <3>3
      <4> QED BY <4>1, <4>2
    <3> QED BY <2>1, <3>2, <3>3 DEF TcpSubmit
  <2>2. CASE ConnectFails
    BY <1>0, <2>2 DEF ConnectFails
  <2>3. CASE Connects
    BY <1>0, <2>3 DEF Connects
  <2>4. CASE WriteBlock
    BY <1>0, <2>4 DEF WriteBlock
  <2>5. CASE SendFails
    BY <1>0, <2>5 DEF SendFails, partial
  <2>6. CASE Flushes
    BY <1>0, <2>6 DEF Flushes
  <2>7. CASE SubmitReturns
    BY <1>0, <2>7 DEF SubmitReturns
  <2> QED BY <2>1, <2>2, <2>3, <2>4, <2>5, <2>6, <2>7
<1>4. TcpTypeOK'
  BY <1>1, <1>2, <1>3 DEF TcpInv, TcpIsTrue, TcpTypeOK, TcpRecords
<1>5. OutcomeIsTrue' /\ TcpProgress'
  BY <1>1, <1>3 DEF TcpInv, OutcomeIsTrue, TcpProgress
<1>6. AnswerIsTrue'
  BY <1>1 DEF TcpInv, TcpIsTrue, AnswerIsTrue, TrueConditions
<1> QED BY <1>2, <1>4, <1>5, <1>6 DEF TcpInv, TcpIsTrue

\* The steps of discover and of the printer.
LEMMA TcpAskInv ==
  ASSUME TcpInv,
         \/ LooksUp \/ Asks \/ (\E cut \in Cuts : Answered(cut)) \/ Stores \/ Ages
         \/ DeviceChanges \/ UNCHANGED tcpVars
  PROVE TcpInv'
<1> USE ConditionsHold, TcpAssumption
<1>0. UNCHANGED <<protocol, send>>
  BY DEF LooksUp, Asks, Answered, Stores, Ages, DeviceChanges, tcpVars
<1>1. device' \in [up : BOOLEAN, conds : SUBSET Conditions] /\ changes' \in 0..MaxChanges
  <2>1. CASE DeviceChanges
    <3>1. /\ changes < MaxChanges /\ changes' = changes + 1
          /\ \/ device' = [device EXCEPT !.up = ~@]
             \/ \E c \in SUBSET Conditions : device' = [device EXCEPT !.conds = c]
      BY <2>1 DEF DeviceChanges, Conditions
    <3>2. device \in [up : BOOLEAN, conds : SUBSET Conditions] /\ changes \in 0..MaxChanges
      BY DEF TcpInv, TcpIsTrue, TcpTypeOK
    <3>3. changes' \in 0..MaxChanges
      BY <3>1, <3>2
    <3>4. device' \in [up : BOOLEAN, conds : SUBSET Conditions]
      BY <3>1, <3>2
    <3> QED BY <3>3, <3>4
  <2>2. CASE UNCHANGED <<device, changes>>
    BY <2>2 DEF TcpInv, TcpIsTrue, TcpTypeOK
  <2> QED BY <2>1, <2>2 DEF LooksUp, Asks, Answered, Stores, Ages, tcpVars
<1>2. /\ TcpRecords' /\ (query'.pc # "idle" => protocol # "None")
      /\ query'.pc = "answered" /\ query'.answer # Unanswered =>
           \/ query'.answer = from_conditions(query'.truth \cap Tells[protocol])
           \/ /\ query'.cut /\ protocol = "Zpl"
              /\ query'.answer
                   = from_conditions((query'.truth \cap Tells[protocol]) \ {"RibbonOut"})
  <2> USE DEF TcpInv, TcpProgress, TcpRecords, TcpIsTrue, AnswerIsTrue, TrueConditions
  <2>1. CASE UNCHANGED <<runtime, query>>
    BY <2>1
  <2>2. CASE Asks
    BY <2>2 DEF Asks, TcpTypeOK
  <2>3. ASSUME NEW cut \in Cuts, Answered(cut) PROVE <1>2!:
    <3>1. /\ query' = [query EXCEPT !.pc = "answered", !.truth = device.conds,
                                    !.cut = (cut # Whole),
                                    !.answer = Understood(device.conds, cut)]
          /\ query.pc = "asking" /\ runtime' = runtime
      BY <2>3 DEF Answered
    <3>2. device.conds \in SUBSET Conditions /\ protocol \in {"Zpl", "EscPos"}
      BY <3>1 DEF TcpTypeOK
    <3> DEFINE told == device.conds \cap Tells[protocol]
    <3>3. \/ Understood(device.conds, cut) \in {Unanswered, from_conditions(told)}
          \/ /\ cut # Whole /\ protocol = "Zpl"
             /\ Understood(device.conds, cut) = from_conditions(told \ {"RibbonOut"})
      BY <3>2, UnderstoodIsTrue
    <3>4. /\ from_conditions(told) \in Statuses
          /\ from_conditions(told \ {"RibbonOut"}) \in Statuses
      BY <3>2
    <3>5. Understood(device.conds, cut) \in Statuses
      BY <3>3, <3>4
    <3>6. query \in [pc : {"idle", "asking", "answered"}, open : BOOLEAN, cut : BOOLEAN,
                     answer : Statuses, truth : SUBSET Conditions]
      OBVIOUS
    <3>7. /\ query'.pc = "answered" /\ query'.truth = device.conds
          /\ query'.cut = (cut # Whole) /\ query'.answer = Understood(device.conds, cut)
      BY <3>1, <3>6
    <3>8. query' \in [pc : {"idle", "asking", "answered"}, open : BOOLEAN, cut : BOOLEAN,
                      answer : Statuses, truth : SUBSET Conditions]
      BY <3>1, <3>2, <3>5, <3>6
    <3> QED BY <3>1, <3>2, <3>3, <3>7, <3>8
  <2>4. CASE Stores
    BY <2>4 DEF Stores
  <2>5. CASE Ages
    BY <2>5 DEF Ages
  <2> QED BY <2>1, <2>2, <2>3, <2>4, <2>5 DEF LooksUp, DeviceChanges, tcpVars
<1>3. TcpTypeOK'
  BY <1>0, <1>1, <1>2 DEF TcpInv, TcpIsTrue, TcpTypeOK, TcpRecords
<1>4. OutcomeIsTrue' /\ TcpProgress' /\ AnswerIsTrue'
  BY <1>0, <1>2
     DEF TcpInv, TcpIsTrue, OutcomeIsTrue, TcpProgress, AnswerIsTrue, TrueConditions
<1> QED BY <1>2, <1>3, <1>4 DEF TcpInv, TcpIsTrue

\* For any number of jobs, copies and blocks: what submit reports of a job is
\* true of the bytes that were written, and what a status query reports of the
\* printer was true when it answered, however the query and the job overlap and
\* wherever the connection fails, in the middle of an answer too, which may then
\* miss that the ribbon ran out (submit, deliver, query_status, the parsers).
THEOREM TcpTellsTheTruth == TcpSpec => []TcpIsTrue
<1>1. TcpInit => TcpInv
  BY TcpInitInv
<1>2. TcpInv /\ [TcpNext]_tcpVars => TcpInv'
  BY TcpSendInv, TcpAskInv DEF TcpNext
<1>3. TcpInv => TcpIsTrue
  BY DEF TcpInv
<1> QED BY <1>1, <1>2, <1>3, PTL DEF TcpSpec

-----------------------------------------------------------------------------
(* Following a job of the Windows spooler.                                 *)

\* Every job has an id of its own, and nothing is kept under ids to come.
IdsAreOwn ==
  /\ \A j \in Jobs : id[j] < nextId
  /\ \A j, k \in Jobs : id[j] = id[k] /\ id[j] # 0 => j = k
  /\ \A j \in queued : id[j] # 0
  /\ \A i \in Ids : nextId <= i => history[i] = {}
  /\ \A n \in 1..Len(notes) : notes[n][1] < nextId

\* A deleted job is out of the queue; one without an id has not begun.
FlagsAreFinal ==
  \A j \in Jobs :
    /\ "DELETED" \in flags[j] => j \notin queued /\ flags[j] \in {{"DELETED"}, {"PRINTED", "DELETED"}}
    /\ id[j] = 0 => flags[j] = {} /\ poll[j] = Idle

\* What was seen of a job is true of it, and a deletion is not seen without
\* the print that came before it.
Told(fs, view) ==
  /\ "PRINTED" \in view => "PRINTED" \in fs
  /\ "DELETED" \in view => /\ "DELETED" \in fs
                           /\ "PRINTED" \in fs => "PRINTED" \in view

\* That holds of what the watcher has collected, of what it has still to take,
\* and of what a poll has read, which is never the status of a deleted job.
BitsAreTrue ==
  \A j \in Jobs :
    /\ id[j] # 0 => Told(flags[j], history[id[j]])
    /\ \A n \in 1..Len(notes) : notes[n][1] = id[j] => Told(flags[j], notes[n][2])
    /\ Told(flags[j], poll[j]) /\ "DELETED" \notin poll[j]

WatchInv ==
  /\ TypeOK /\ notes \in Seq(Ids \X SUBSET Bits)
  /\ ReportIsTrue /\ IdsAreOwn /\ FlagsAreFinal /\ BitsAreTrue

\* Nothing seen is true of every job.
LEMMA ToldNothing == \A fs : Told(fs, {})
BY DEF Told

\* What was seen at two times is true together.
LEMMA ToldJoins == \A fs, a, b : Told(fs, a) /\ Told(fs, b) => Told(fs, a \cup b)
BY DEF Told

\* A job's status is true of it.
LEMMA ToldItself == \A fs : Told(fs, fs)
BY DEF Told

\* A status that changes takes neither the print nor the deletion back, and
\* that of a deleted job does not change.
LEMMA ToldStill ==
  ASSUME NEW fs, NEW gs, NEW view, Told(fs, view), "DELETED" \notin fs,
         "PRINTED" \in fs => "PRINTED" \in gs
  PROVE Told(gs, view)
BY DEF Told

\* Nothing is spooled, seen or told.
LEMMA WatchInitInv == ASSUME Init PROVE WatchInv
<1> USE WatchAssumption DEF Init
<1>1. TypeOK
  <2>1. nextId \in 1..MaxId + 1 /\ id \in [Jobs -> 0..MaxId]
    OBVIOUS
  <2>2. history \in [Ids -> SUBSET Bits] /\ flags \in [Jobs -> SUBSET Bits]
    BY DEF NoHistory
  <2>3. report \in [Jobs -> Reports] /\ poll \in [Jobs -> {Idle, Absent} \cup SUBSET Bits]
    BY DEF Reports
  <2>4. spoolerRestarts \in 0..MaxSpoolerRestarts /\ agentRestarts \in 0..MaxAgentRestarts
    OBVIOUS
  <2> QED BY <2>1, <2>2, <2>3, <2>4 DEF TypeOK, Watchers
<1>2. notes \in Seq(Ids \X SUBSET Bits) /\ ReportIsTrue /\ IdsAreOwn
  BY DEF ReportIsTrue, IdsAreOwn, NoHistory, Ids
<1>3. FlagsAreFinal /\ BitsAreTrue
  BY DEF FlagsAreFinal, BitsAreTrue, Told, Idle
<1> QED BY <1>1, <1>2, <1>3 DEF WatchInv

\* A spooler that does not reuse ids gives a job one that nothing is kept under.
LEMMA SpooledInv ==
  ASSUME WatchInv, NEW j \in Jobs, Spooled(j), Ensure \/ UNCHANGED <<watcher, history>>
  PROVE WatchInv'
<1>0. TypeOK /\ IdsAreOwn /\ FlagsAreFinal /\ BitsAreTrue /\ ReportIsTrue
  BY DEF WatchInv
<1>1. PICK i \in nextId..MaxId : id' = [id EXCEPT ![j] = i] /\ nextId' = i + 1
  BY DEF Spooled
<1>2. /\ id[j] = 0 /\ queued' = queued \cup {j}
      /\ UNCHANGED <<flags, notes, poll, report, spoolerRestarts, agentRestarts>>
  BY DEF Spooled, pollVars, restartVars
<1>3. /\ history' = history \/ history' = NoHistory
      /\ watcher' \in Watchers /\ (watcher' = watcher \/ watcher = "stopped")
  BY <1>0 DEF Ensure, TypeOK, Watchers
<1>4. /\ nextId \in 1..MaxId + 1 /\ MaxId \in Nat /\ i \in Ids /\ i # 0 /\ nextId <= i
      /\ nextId' \in 1..MaxId + 1 /\ i < nextId' /\ nextId < nextId'
      /\ id'[j] = i /\ \A k \in Jobs : k # j => id'[k] = id[k]
  BY <1>0, <1>1, WatchAssumption DEF TypeOK, Ids
<1>5. \A k \in Jobs : id[k] # i
  BY <1>0, <1>4 DEF IdsAreOwn, TypeOK
<1>6. history[i] = {} /\ \A h \in Ids : history'[h] \in {history[h], {}}
  BY <1>0, <1>3, <1>4 DEF IdsAreOwn, NoHistory
<1>7. TypeOK'
  <2>1. id' \in [Jobs -> 0..MaxId] /\ queued' \in SUBSET Jobs
    BY <1>0, <1>1, <1>2, <1>4 DEF TypeOK, Ids
  <2>2. history' \in [Ids -> SUBSET Bits]
    BY <1>0, <1>3 DEF TypeOK, NoHistory
  <2>3. \A k, l \in queued' : id'[k] = id'[l] => k = l
    BY <1>0, <1>2, <1>4, <1>5 DEF TypeOK
  <2>4. notes' # <<>> => watcher' = "armed"
    BY <1>0, <1>2, <1>3 DEF TypeOK
  <2> QED BY <1>0, <1>2, <1>3, <1>4, <2>1, <2>2, <2>3, <2>4 DEF TypeOK
<1>8. IdsAreOwn'
  <2>1. \A k \in Jobs : id[k] \in Nat /\ id[k] < nextId
    BY <1>0, WatchAssumption DEF IdsAreOwn, TypeOK
  <2>2. \A k \in Jobs : id'[k] < nextId'
    BY <1>4, <2>1
  <2>3. \A k, l \in Jobs : id'[k] = id'[l] /\ id'[k] # 0 => k = l
    BY <1>0, <1>4, <1>5 DEF IdsAreOwn
  <2>4. \A k \in queued' : id'[k] # 0
    BY <1>0, <1>2, <1>4 DEF IdsAreOwn, TypeOK
  <2>5. \A h \in Ids : nextId' <= h => history'[h] = {}
    BY <1>0, <1>4, <1>6 DEF IdsAreOwn, Ids
  <2>6. \A n \in 1..Len(notes) : notes[n][1] < nextId'
    BY <1>0, <1>4 DEF IdsAreOwn, TypeOK, Ids
  <2> QED BY <1>2, <2>2, <2>3, <2>4, <2>5, <2>6 DEF IdsAreOwn
<1>9. FlagsAreFinal'
  BY <1>0, <1>2, <1>4 DEF FlagsAreFinal
<1>10. BitsAreTrue'
  <2>1. ASSUME NEW k \in Jobs PROVE id'[k] # 0 => Told(flags[k], history[id[k]])'
    <3>1. id'[k] \in Ids \/ id'[k] = 0
      BY <1>0, <1>4 DEF TypeOK, Ids
    <3>2. CASE k = j
      BY <1>4, <1>6, <3>2, ToldNothing
    <3>3. CASE k # j /\ id'[k] # 0
      <4>1. Told(flags[k], history[id[k]]) /\ id'[k] = id[k] /\ flags' = flags
        BY <1>0, <1>2, <1>4, <3>3 DEF BitsAreTrue
      <4>2. history'[id'[k]] \in {history[id[k]], {}}
        BY <1>6, <3>1, <3>3, <4>1
      <4> QED BY <4>1, <4>2, ToldNothing
    <3> QED BY <3>2, <3>3
  <2>2. ASSUME NEW k \in Jobs, NEW n \in 1..Len(notes), notes[n][1] = id'[k]
        PROVE Told(flags[k], notes[n][2])'
    <3>1. notes[n][1] < nextId /\ notes[n][1] \in Nat
      BY <1>0 DEF IdsAreOwn, TypeOK, Ids
    <3>2. k # j
      BY <1>4, <2>2, <3>1
    <3> QED BY <1>0, <1>2, <1>4, <2>2, <3>2 DEF BitsAreTrue
  <2>3. ASSUME NEW k \in Jobs PROVE Told(flags[k], poll[k])' /\ "DELETED" \notin poll'[k]
    BY <1>0, <1>2 DEF BitsAreTrue
  <2> QED BY <1>2, <2>1, <2>2, <2>3 DEF BitsAreTrue
<1>11. notes' \in Seq(Ids \X SUBSET Bits) /\ ReportIsTrue'
  BY <1>0, <1>2 DEF WatchInv, ReportIsTrue
<1> QED BY <1>7, <1>8, <1>9, <1>10, <1>11 DEF WatchInv

\* What a job in the queue becomes is told to the watcher and to no one else.
LEMMA BecomesInv ==
  ASSUME WatchInv, NEW j \in Jobs, NEW fs \in SUBSET Bits, Becomes(j, fs),
         "PRINTED" \in flags[j] => "PRINTED" \in fs,
         \/ queued' = queued /\ "DELETED" \notin fs
         \/ queued' = queued \ {j} /\ fs \in {{"DELETED"}, {"PRINTED", "DELETED"}}
  PROVE WatchInv'
<1>0. /\ TypeOK /\ IdsAreOwn /\ FlagsAreFinal /\ BitsAreTrue /\ ReportIsTrue
      /\ notes \in Seq(Ids \X SUBSET Bits)
  BY DEF WatchInv
<1>1. /\ j \in queued /\ flags' = [flags EXCEPT ![j] = fs]
      /\ UNCHANGED <<id, nextId, watcher, history, poll, report, spoolerRestarts, agentRestarts>>
  BY DEF Becomes, pollVars, restartVars
<1>2. "DELETED" \notin flags[j] /\ id[j] # 0 /\ id[j] \in Ids
  BY <1>0, <1>1 DEF FlagsAreFinal, IdsAreOwn, TypeOK, Ids
<1>3. PICK n0 : n0 = <<id[j], fs>>
  OBVIOUS
<1>4. n0 \in Ids \X SUBSET Bits /\ n0[1] = id[j] /\ n0[2] = fs
  BY <1>2, <1>3
<1>5. notes' = notes \/ (watcher = "armed" /\ notes' = Append(notes, n0))
  BY <1>3 DEF Becomes, Notify
<1>6. /\ notes' \in Seq(Ids \X SUBSET Bits)
      /\ \A n \in 1..Len(notes') : \/ n \in 1..Len(notes) /\ notes'[n] = notes[n]
                                   \/ notes'[n] = n0
  <2>1. CASE notes' = notes
    BY <1>0, <2>1
  <2>2. CASE notes' = Append(notes, n0)
    <3>1. notes' \in Seq(Ids \X SUBSET Bits) /\ Len(notes') = Len(notes) + 1 /\ Len(notes) \in Nat
      BY <1>0, <1>4, <2>2
    <3>2. \A n \in 1..Len(notes) : notes'[n] = notes[n]
      BY <1>0, <1>4, <2>2
    <3>3. notes'[Len(notes) + 1] = n0
      BY <1>0, <1>4, <2>2
    <3> QED BY <3>1, <3>2, <3>3
  <2> QED BY <1>5, <2>1, <2>2
<1>7. /\ flags'[j] = fs /\ \A k \in Jobs : k # j => flags'[k] = flags[k]
      /\ flags' \in [Jobs -> SUBSET Bits]
  BY <1>0, <1>1 DEF TypeOK
<1>8. \A k \in Jobs : \A view : Told(flags[k], view) => Told(flags'[k], view)
  BY <1>2, <1>7, ToldStill
<1>9. TypeOK'
  <2>1. queued' \subseteq queued
    OBVIOUS
  <2>2. \A n \in 1..Len(notes') : notes'[n] \in Ids \X SUBSET Bits
    BY <1>6
  <2>3. notes' # <<>> => watcher' = "armed"
    BY <1>0, <1>1, <1>5 DEF TypeOK
  <2> QED BY <1>0, <1>1, <1>7, <2>1, <2>2, <2>3 DEF TypeOK
<1>10. IdsAreOwn'
  <2>1. \A n \in 1..Len(notes') : notes'[n][1] < nextId
    BY <1>0, <1>4, <1>6 DEF IdsAreOwn
  <2> QED BY <1>0, <1>1, <2>1 DEF IdsAreOwn
<1>11. FlagsAreFinal'
  BY <1>0, <1>1, <1>2, <1>7 DEF FlagsAreFinal
<1>12. BitsAreTrue'
  <2>1. ASSUME NEW k \in Jobs PROVE id'[k] # 0 => Told(flags[k], history[id[k]])'
    BY <1>0, <1>1, <1>8 DEF BitsAreTrue
  <2>2. ASSUME NEW k \in Jobs, NEW n \in 1..Len(notes'), notes'[n][1] = id'[k]
        PROVE Told(flags[k], notes[n][2])'
    <3>1. CASE n \in 1..Len(notes) /\ notes'[n] = notes[n]
      <4>1. Told(flags[k], notes[n][2])
        BY <1>0, <1>1, <2>2, <3>1 DEF BitsAreTrue
      <4> QED BY <1>8, <3>1, <4>1
    <3>2. CASE notes'[n] = n0
      <4>1. k = j
        BY <1>0, <1>1, <1>2, <1>4, <2>2, <3>2 DEF IdsAreOwn
      <4> QED BY <1>4, <1>7, <3>2, <4>1, ToldItself
    <3> QED BY <1>6, <3>1, <3>2
  <2>3. ASSUME NEW k \in Jobs PROVE Told(flags[k], poll[k])' /\ "DELETED" \notin poll'[k]
    BY <1>0, <1>1, <1>8 DEF BitsAreTrue
  <2> QED BY <2>1, <2>2, <2>3 DEF BitsAreTrue
<1>13. ReportIsTrue'
  BY <1>0, <1>1, <1>2, <1>7, WatchAssumption DEF ReportIsTrue
<1> QED BY <1>6, <1>9, <1>10, <1>11, <1>12, <1>13 DEF WatchInv

\* The spooler's own steps: no id is given out twice, so what is kept under an
\* id stays that of its job.
LEMMA SpoolerInv ==
  ASSUME WatchInv, ~ReusesIds,
         \/ \E j \in Jobs : Prints(j) \/ HasPrinted(j) \/ Retires(j) \/ Deleted(j)
         \/ SpoolerRestarts
  PROVE WatchInv'
<1>0. /\ TypeOK /\ IdsAreOwn /\ FlagsAreFinal /\ BitsAreTrue /\ ReportIsTrue
  BY DEF WatchInv
<1>1. ASSUME NEW j \in Jobs, Prints(j) PROVE WatchInv'
  BY <1>1, BecomesInv DEF Prints, Bits
<1>2. ASSUME NEW j \in Jobs, HasPrinted(j) PROVE WatchInv'
  BY <1>2, BecomesInv DEF HasPrinted, Bits
<1>3. ASSUME NEW j \in Jobs, Retires(j) PROVE WatchInv'
  BY <1>3, BecomesInv DEF Retires, Bits
<1>4. ASSUME NEW j \in Jobs, Deleted(j) PROVE WatchInv'
  BY <1>4, BecomesInv DEF Deleted, Bits
<1>5. ASSUME SpoolerRestarts PROVE WatchInv'
  <2>1. /\ notes' = <<>> /\ watcher' = (IF watcher = "armed" THEN "deaf" ELSE watcher)
        /\ nextId' = nextId /\ spoolerRestarts' \in 0..MaxSpoolerRestarts
        /\ UNCHANGED <<id, queued, history, poll, report, agentRestarts>>
    BY <1>0, <1>5, WatchAssumption DEF SpoolerRestarts, pollVars, TypeOK
  <2>2. /\ flags' \in [Jobs -> SUBSET Bits]
        /\ \A k \in Jobs : \/ flags'[k] = flags[k]
                           \/ flags[k] = {"PRINTING"} /\ flags'[k] = {}
    BY <1>0, <1>5 DEF SpoolerRestarts, TypeOK
  <2>3. \A k \in Jobs : \A view : Told(flags[k], view) => Told(flags'[k], view)
    BY <2>2, ToldStill
  <2>4. TypeOK'
    BY <1>0, <2>1, <2>2 DEF TypeOK, Watchers
  <2>5. IdsAreOwn' /\ FlagsAreFinal'
    BY <1>0, <2>1, <2>2 DEF IdsAreOwn, FlagsAreFinal
  <2>6. BitsAreTrue'
    <3> SUFFICES ASSUME NEW j \in Jobs
                 PROVE  /\ id'[j] # 0 => Told(flags'[j], history'[id'[j]])
                        /\ \A n \in 1..Len(notes') :
                             notes'[n][1] = id'[j] => Told(flags'[j], notes'[n][2])
                        /\ Told(flags'[j], poll'[j]) /\ "DELETED" \notin poll'[j]
      BY Zenon DEF BitsAreTrue, Told
    <3>1. 1..Len(notes') = {}
      BY <2>1
    <3>2. /\ id[j] # 0 => Told(flags[j], history[id[j]])
          /\ Told(flags[j], poll[j]) /\ "DELETED" \notin poll[j]
      BY <1>0 DEF BitsAreTrue
    <3> QED BY <2>1, <2>3, <3>1, <3>2
  <2>7. ReportIsTrue' /\ notes' \in Seq(Ids \X SUBSET Bits)
    BY <1>0, <2>1, <2>2, WatchAssumption DEF ReportIsTrue
  <2> QED BY <2>4, <2>5, <2>6, <2>7 DEF WatchInv
<1> QED BY <1>1, <1>2, <1>3, <1>4, <1>5

\* A step leaves the invariant if the jobs are as before, notifications are
\* only taken, and what is kept under an id is true of the job that has it.
LEMMA WatcherFrame ==
  ASSUME WatchInv,
         UNCHANGED <<id, queued, flags, nextId, report, spoolerRestarts>>,
         poll' = poll \/ poll' = [j \in Jobs |-> Idle],
         agentRestarts' \in 0..MaxAgentRestarts,
         watcher' \in Watchers, notes' # <<>> => watcher' = "armed",
         notes' \in Seq(Ids \X SUBSET Bits),
         \A n \in 1..Len(notes') : \E m \in 1..Len(notes) : notes'[n] = notes[m],
         history' \in [Ids -> SUBSET Bits],
         \A i \in Ids : nextId <= i => history'[i] = {},
         \A j \in Jobs : id[j] # 0 => Told(flags[j], history'[id[j]])
  PROVE WatchInv'
<1>0. /\ TypeOK /\ IdsAreOwn /\ FlagsAreFinal /\ BitsAreTrue /\ ReportIsTrue
      /\ notes \in Seq(Ids \X SUBSET Bits)
  BY DEF WatchInv
<1>1. poll' \in [Jobs -> {Idle, Absent} \cup SUBSET Bits]
      /\ \A j \in Jobs : poll'[j] \in {poll[j], Idle}
  BY <1>0 DEF TypeOK
<1>2. TypeOK'
  <2>1. \A n \in 1..Len(notes') : notes'[n] \in Ids \X SUBSET Bits
    OBVIOUS
  <2> QED BY <1>0, <1>1, <2>1 DEF TypeOK
<1>3. IdsAreOwn' /\ FlagsAreFinal'
  <2>1. \A n \in 1..Len(notes') : notes'[n][1] < nextId
    BY <1>0 DEF IdsAreOwn
  <2>2. IdsAreOwn'
    BY <1>0, <2>1 DEF IdsAreOwn
  <2>3. FlagsAreFinal'
    BY <1>0, <1>1 DEF FlagsAreFinal
  <2> QED BY <2>2, <2>3
<1>4. BitsAreTrue'
  <2>1. ASSUME NEW j \in Jobs PROVE Told(flags[j], poll[j])' /\ "DELETED" \notin poll'[j]
    BY <1>0, <1>1 DEF BitsAreTrue, Told, Idle
  <2>2. ASSUME NEW j \in Jobs, NEW n \in 1..Len(notes'), notes'[n][1] = id'[j]
        PROVE Told(flags[j], notes[n][2])'
    BY <1>0, <2>2 DEF BitsAreTrue
  <2> QED BY <2>1, <2>2 DEF BitsAreTrue
<1> QED BY <1>0, <1>2, <1>3, <1>4 DEF WatchInv, ReportIsTrue

\* The watcher adds to an id what was told of it, or forgets everything.
LEMMA WatcherInv ==
  ASSUME WatchInv, Arm \/ TakeNote \/ Refresh \/ IdleExit \/ AgentRestarts
  PROVE WatchInv'
<1>0. /\ TypeOK /\ IdsAreOwn /\ FlagsAreFinal /\ BitsAreTrue /\ ReportIsTrue
      /\ notes \in Seq(Ids \X SUBSET Bits)
  BY DEF WatchInv
<1>1. \A i \in Ids : Kept[i] \in {history[i], {}}
  BY DEF Kept, NoHistory
<1>2. Kept \in [Ids -> SUBSET Bits]
  BY <1>0 DEF Kept, NoHistory, TypeOK
<1>3. ASSUME TakeNote \/ Refresh PROVE notes # <<>> /\ Head(notes) = notes[1] /\ 1 \in 1..Len(notes)
  BY <1>0, <1>3 DEF TakeNote, Refresh
<1>4. CASE Arm
  <2>1. /\ UNCHANGED <<id, queued, flags, nextId, report, poll, notes, history, spoolerRestarts, agentRestarts>>
        /\ watcher' = "armed"
    BY <1>4 DEF Arm, spoolVars, pollVars, restartVars
  <2> QED BY <1>0, <2>1, WatcherFrame DEF TypeOK, Watchers, IdsAreOwn, BitsAreTrue
<1>5. CASE IdleExit
  <2>1. /\ UNCHANGED <<id, queued, flags, nextId, report, poll, history, spoolerRestarts, agentRestarts>>
        /\ watcher' = "stopped" /\ notes' = <<>>
    BY <1>5 DEF IdleExit, spoolVars, pollVars, restartVars
  <2> QED BY <1>0, <2>1, WatcherFrame DEF TypeOK, Watchers, IdsAreOwn, BitsAreTrue
<1>6. CASE AgentRestarts
  <2>1. history' \in [Ids -> SUBSET Bits] /\ \A i \in Ids : history'[i] = {}
    BY <1>6 DEF AgentRestarts, NoHistory
  <2>2. \A j \in Jobs : id[j] # 0 => history'[id[j]] = {}
    BY <1>0, <2>1 DEF TypeOK, Ids
  <2>3. agentRestarts' \in 0..MaxAgentRestarts
    BY <1>0, <1>6, WatchAssumption DEF AgentRestarts, TypeOK
  <2>4. \A j \in Jobs : id[j] # 0 => Told(flags[j], history'[id[j]])
    BY <2>2, ToldNothing
  <2>5. /\ UNCHANGED <<id, queued, flags, nextId, report, spoolerRestarts>>
        /\ poll' = [j \in Jobs |-> Idle] /\ watcher' = "stopped" /\ notes' = <<>>
    BY <1>6 DEF AgentRestarts, spoolVars
  <2> QED BY <2>1, <2>3, <2>4, <2>5, WatcherFrame DEF Watchers
<1>7. CASE TakeNote
  <2>1. PICK i, fs : i = notes[1][1] /\ fs = notes[1][2]
    OBVIOUS
  <2>2. i \in Ids /\ fs \in SUBSET Bits /\ i < nextId
    BY <1>0, <1>3, <1>7, <2>1 DEF TypeOK, IdsAreOwn
  <2>3. history' = [Kept EXCEPT ![i] = Kept[i] \cup fs] /\ notes' = Tail(notes)
    BY <1>3, <1>7, <2>1 DEF TakeNote
  <2>4. /\ history' \in [Ids -> SUBSET Bits] /\ history'[i] = Kept[i] \cup fs
        /\ \A h \in Ids : h # i => history'[h] = Kept[h]
    BY <1>2, <2>2, <2>3
  <2>5. \A h \in Ids : nextId <= h => history'[h] = {}
    <3>1. \A h \in Ids : nextId <= h => h # i
      BY <1>0, <2>2 DEF Ids, TypeOK
    <3> QED BY <1>0, <1>1, <2>4, <3>1 DEF IdsAreOwn
  <2>6. ASSUME NEW j \in Jobs, id[j] # 0 PROVE Told(flags[j], history'[id[j]])
    <3>1. id[j] \in Ids /\ Told(flags[j], history[id[j]])
      BY <1>0, <2>6 DEF BitsAreTrue, TypeOK, Ids
    <3>2. Told(flags[j], Kept[id[j]])
      BY <1>1, <3>1, ToldNothing
    <3>3. i = id[j] => Told(flags[j], fs)
      BY <1>0, <1>3, <1>7, <2>1 DEF BitsAreTrue
    <3> QED BY <2>4, <3>1, <3>2, <3>3, ToldJoins
  <2>7. /\ notes' \in Seq(Ids \X SUBSET Bits)
        /\ \A n \in 1..Len(notes') : n + 1 \in 1..Len(notes) /\ notes'[n] = notes[n + 1]
    BY <1>0, <1>3, <1>7, <2>3
  <2>8. /\ UNCHANGED <<id, queued, flags, nextId, report, poll, watcher, spoolerRestarts, agentRestarts>>
        /\ watcher = "armed"
    BY <1>7 DEF TakeNote, spoolVars, pollVars, restartVars
  <2>9. \A n \in 1..Len(notes') : \E m \in 1..Len(notes) : notes'[n] = notes[m]
    BY <2>7
  <2>10. /\ agentRestarts' \in 0..MaxAgentRestarts /\ watcher' \in Watchers
         /\ notes' # <<>> => watcher' = "armed"
    BY <1>0, <2>8 DEF TypeOK
  <2> QED BY <2>4, <2>5, <2>6, <2>7, <2>8, <2>9, <2>10, WatcherFrame
<1>8. CASE Refresh
  <2> DEFINE Now(i) == UNION {flags[k] : k \in {l \in queued : id[l] = i}}
  <2>1. history' = [i \in Ids |-> Kept[i] \cup Now(i)] /\ notes' = <<>>
    BY <1>8 DEF Refresh
  <2>2. \A i \in Ids : Now(i) \in SUBSET Bits
    BY <1>0 DEF TypeOK
  <2>3. ASSUME NEW j \in Jobs, id[j] # 0 PROVE Now(id[j]) \in {flags[j], {}}
    <3>1. \A l \in queued : id[l] = id[j] => l = j
      BY <1>0, <2>3 DEF IdsAreOwn, TypeOK
    <3>2. CASE j \in queued
      BY <3>1, <3>2
    <3>3. CASE j \notin queued
      BY <3>1, <3>3
    <3> QED BY <3>2, <3>3
  <2>4. \A i \in Ids : nextId <= i => Now(i) = {}
    BY <1>0 DEF IdsAreOwn, TypeOK, Ids
  <2> HIDE DEF Now
  <2>5. history' \in [Ids -> SUBSET Bits]
    BY <1>2, <2>1, <2>2
  <2>6. \A i \in Ids : nextId <= i => history'[i] = {}
    BY <1>0, <1>1, <2>1, <2>4 DEF IdsAreOwn
  <2>7. ASSUME NEW j \in Jobs, id[j] # 0 PROVE Told(flags[j], history'[id[j]])
    <3>1. id[j] \in Ids /\ Told(flags[j], history[id[j]])
      BY <1>0, <2>7 DEF BitsAreTrue, TypeOK, Ids
    <3>2. Told(flags[j], Kept[id[j]])
      BY <1>1, <3>1, ToldNothing
    <3>3. Told(flags[j], Now(id[j]))
      BY <2>3, <2>7, ToldNothing, ToldItself
    <3>4. history'[id[j]] = Kept[id[j]] \cup Now(id[j])
      BY <2>1, <3>1
    <3> QED BY <3>2, <3>3, <3>4, ToldJoins
  <2>8. UNCHANGED <<id, queued, flags, nextId, report, poll, watcher, spoolerRestarts, agentRestarts>>
    BY <1>8 DEF Refresh, spoolVars, pollVars, restartVars
  <2>9. /\ agentRestarts' \in 0..MaxAgentRestarts /\ watcher' \in Watchers
        /\ notes' \in Seq(Ids \X SUBSET Bits) /\ Len(notes') = 0 /\ notes' = <<>>
    BY <1>0, <2>1, <2>8 DEF TypeOK
  <2> QED BY <2>5, <2>6, <2>7, <2>8, <2>9, WatcherFrame
<1> QED BY <1>4, <1>5, <1>6, <1>7, <1>8

\* A poll reads the status of its own job, and what it concludes is true of it.
LEMMA PollInv ==
  ASSUME WatchInv, NEW j \in Jobs, PollReads(j) \/ PollResolves(j)
  PROVE WatchInv'
<1>0. /\ TypeOK /\ IdsAreOwn /\ FlagsAreFinal /\ BitsAreTrue /\ ReportIsTrue
      /\ notes \in Seq(Ids \X SUBSET Bits)
  BY DEF WatchInv
<1>1. /\ UNCHANGED <<id, queued, flags, nextId, notes, watcher, spoolerRestarts, agentRestarts>>
  BY DEF PollReads, PollResolves, spoolVars, watchVars, restartVars
<1>2. id[j] # 0 /\ id[j] \in Ids
  BY <1>0 DEF PollReads, PollResolves, FlagsAreFinal, TypeOK, Ids
<1>3. CASE PollReads(j)
  <2>1. history' = history /\ report' = report
    BY <1>3 DEF PollReads, watchVars
  <2>2. PICK view \in {Absent} \cup SUBSET Bits :
          /\ poll' = [poll EXCEPT ![j] = view]
          /\ view = Absent \/ (view = flags[j] /\ j \in queued)
    <3>1. CASE poll' = [poll EXCEPT ![j] = Absent]
      BY <3>1
    <3>2. CASE \E k \in queued : id[k] = id[j] /\ poll' = [poll EXCEPT ![j] = flags[k]]
      BY <1>0, <1>2, <3>2 DEF IdsAreOwn, TypeOK
    <3> QED BY <1>3, <3>1, <3>2 DEF PollReads
  <2>3. Told(flags[j], view) /\ "DELETED" \notin view
    BY <1>0, <2>2, ToldItself DEF Told, Absent, FlagsAreFinal
  <2>4. /\ poll' \in [Jobs -> {Idle, Absent} \cup SUBSET Bits]
        /\ poll'[j] = view /\ \A k \in Jobs : k # j => poll'[k] = poll[k]
    BY <1>0, <2>2 DEF TypeOK
  <2>5. TypeOK'
    BY <1>0, <1>1, <2>1, <2>4 DEF TypeOK
  <2>6. IdsAreOwn' /\ FlagsAreFinal'
    BY <1>0, <1>1, <1>2, <2>1, <2>4 DEF IdsAreOwn, FlagsAreFinal
  <2>7. BitsAreTrue'
    BY <1>0, <1>1, <2>1, <2>3, <2>4 DEF BitsAreTrue
  <2> QED BY <1>0, <1>1, <2>1, <2>5, <2>6, <2>7 DEF WatchInv, ReportIsTrue
<1>4. CASE PollResolves(j)
  <2>1. PICK r : r = Resolve(poll[j], history[id[j]])
    OBVIOUS
  <2>2. /\ report' = [report EXCEPT ![j] = r] /\ poll' = [poll EXCEPT ![j] = Idle]
        /\ history' = (IF r = "none" THEN history ELSE [history EXCEPT ![id[j]] = {}])
    BY <1>4, <2>1 DEF PollResolves
  <2>3. Told(flags[j], history[id[j]]) /\ Told(flags[j], poll[j]) /\ "DELETED" \notin poll[j]
    BY <1>0, <1>2 DEF BitsAreTrue
  <2>4. /\ r \in Reports
        /\ r = "Printed" => "PRINTED" \in flags[j]
        /\ r = "Cancelled" => "DELETED" \in flags[j] /\ "PRINTED" \notin flags[j]
    BY <2>1, <2>3 DEF Resolve, Told, Reports
  <2>5. r = "Cancelled" => flags[j] = {"DELETED"}
    BY <1>0, <2>4 DEF FlagsAreFinal
  <2>6. /\ poll' \in [Jobs -> {Idle, Absent} \cup SUBSET Bits]
        /\ poll'[j] = Idle /\ \A k \in Jobs : k # j => poll'[k] = poll[k]
        /\ report' \in [Jobs -> Reports]
        /\ report'[j] = r /\ \A k \in Jobs : k # j => report'[k] = report[k]
    BY <1>0, <2>2, <2>4 DEF TypeOK
  <2>7. /\ history' \in [Ids -> SUBSET Bits]
        /\ \A i \in Ids : history'[i] \in {history[i], {}}
    BY <1>0, <1>2, <2>2 DEF TypeOK
  <2>8. TypeOK'
    BY <1>0, <1>1, <2>6, <2>7 DEF TypeOK
  <2>9. IdsAreOwn' /\ FlagsAreFinal'
    BY <1>0, <1>1, <1>2, <2>6, <2>7 DEF IdsAreOwn, FlagsAreFinal
  <2>10. BitsAreTrue'
    <3>1. ASSUME NEW k \in Jobs, id[k] # 0 PROVE Told(flags[k], history'[id[k]])
      <4>1. id[k] \in Ids /\ Told(flags[k], history[id[k]])
        BY <1>0, <3>1 DEF BitsAreTrue, TypeOK, Ids
      <4> QED BY <2>7, <4>1, ToldNothing
    <3>2. \A k \in Jobs : Told(flags[k], poll'[k]) /\ "DELETED" \notin poll'[k]
      BY <1>0, <2>6 DEF BitsAreTrue, Told, Idle
    <3> QED BY <1>0, <1>1, <3>1, <3>2 DEF BitsAreTrue
  <2>11. ReportIsTrue'
    BY <1>0, <1>1, <2>4, <2>5, <2>6, WatchAssumption DEF ReportIsTrue
  <2> QED BY <1>0, <1>1, <2>8, <2>9, <2>10, <2>11 DEF WatchInv
<1> QED BY <1>3, <1>4

\* Whatever the spooler, other applications, the watcher and the polls do in
\* whatever order, and however often the agent and the spooler restart, a job
\* is reported printed only if it was, and cancelled only if it was deleted
\* unprinted (job_state, resolve_job_state, watch.rs).  The spooler must not
\* give out an id again: with ReusesIds TLC shows one job told of another's end.
THEOREM WatchTellsTheTruth == ASSUME ~ReusesIds PROVE Spec => []WatchIsTrue
<1>1. Init => WatchInv
  BY WatchInitInv
<1>2. WatchInv /\ [Next]_vars => WatchInv'
  <2> SUFFICES ASSUME WatchInv, [Next]_vars PROVE WatchInv'
    OBVIOUS
  <2>1. ASSUME NEW j \in Jobs, Submit(j) \/ OtherJob(j) PROVE WatchInv'
    BY <2>1, SpooledInv DEF Submit, OtherJob
  <2>2. ASSUME NEW j \in Jobs, Prints(j) \/ HasPrinted(j) \/ Retires(j) \/ Deleted(j) PROVE WatchInv'
    BY <2>2, SpoolerInv
  <2>3. ASSUME NEW j \in Jobs, PollReads(j) \/ PollResolves(j) PROVE WatchInv'
    BY <2>3, PollInv
  <2>4. CASE Arm \/ TakeNote \/ Refresh \/ IdleExit \/ AgentRestarts
    BY <2>4, WatcherInv
  <2>5. CASE SpoolerRestarts
    BY <2>5, SpoolerInv
  <2>6. CASE UNCHANGED vars
    <3>1. UNCHANGED <<id, queued, flags, nextId, report, poll, watcher, notes, history, spoolerRestarts, agentRestarts>>
      BY <2>6 DEF vars, spoolVars, watchVars, pollVars, restartVars
    <3> QED BY <3>1, WatcherFrame DEF WatchInv, TypeOK, IdsAreOwn, BitsAreTrue
  <2> QED BY <2>1, <2>2, <2>3, <2>4, <2>5, <2>6 DEF Next
<1>3. WatchInv => WatchIsTrue
  BY DEF WatchInv, WatchIsTrue
<1> QED BY <1>1, <1>2, <1>3, PTL DEF Spec

-----------------------------------------------------------------------------
(* The HTML renderer.                                                      *)

Methods ==
  {"createTarget", "attach", "Page.enable", "noScripts", "Fetch.enable", "frameTree",
   "setContent", "load", "fonts", "printToPDF", "failRequest", "Browser.close"}
Values == Resources \cup {"", "ok", "error"}
Commands == {<<i, m, a>> : i \in Nat, m \in Methods, a \in Values}
Messages == [kind : {"answer", "paused", "load"}, id : Nat, value : Values]

\* What is sent beside the script.
Aside == {"failRequest", "Browser.close"}

\* What of the script the proofs use.
LEMMA ScriptFacts ==
  ASSUME javascript \in BOOLEAN
  PROVE  /\ Script \in Seq(Methods \ Aside) /\ Len(Script) \in Nat \ {0}
         /\ Script[1] # "load"
         /\ \A k \in 1..Len(Script) : Script[k] = "load" => k + 1 \in 1..Len(Script)
         /\ \A k \in 1..Len(Script) : Script[k] = "setContent" =>
              /\ \E i \in 1..Len(Script) : i < k /\ Script[i] = "Fetch.enable"
              /\ javascript \/ \E i \in 1..Len(Script) : i < k /\ Script[i] = "noScripts"
         /\ \E k \in 1..Len(Script) : Script[k] = "setContent" /\ k < Len(Script)
<1> DEFINE M == Methods \ Aside
           a == <<"createTarget", "attach", "Page.enable">>
           b == IF javascript THEN <<>> ELSE <<"noScripts">>
           c == <<"Fetch.enable", "frameTree", "setContent", "load", "fonts", "printToPDF">>
<1>1. /\ a \in Seq(M) /\ Len(a) = 3 /\ a[1] = "createTarget"
      /\ a[2] = "attach" /\ a[3] = "Page.enable"
  BY DEF Methods, Aside
<1>2. /\ b \in Seq(M)
      /\ javascript => Len(b) = 0
      /\ ~javascript => Len(b) = 1 /\ b[1] = "noScripts"
  <2>1. CASE javascript
    BY <2>1
  <2>2. CASE ~javascript
    BY <2>2 DEF Methods, Aside
  <2> QED BY <2>1, <2>2
<1>3. /\ c \in Seq(M) /\ Len(c) = 6 /\ c[1] = "Fetch.enable" /\ c[2] = "frameTree"
      /\ c[3] = "setContent" /\ c[4] = "load" /\ c[5] = "fonts" /\ c[6] = "printToPDF"
  BY DEF Methods, Aside
<1>4. Script = (a \o b) \o c
  BY DEF Script
<1> HIDE DEF M, a, b, c
<1>5. /\ a \o b \in Seq(M) /\ Len(a \o b) = Len(a) + Len(b)
      /\ \A i \in 1..Len(a) + Len(b) : (a \o b)[i] = IF i <= Len(a) THEN a[i] ELSE b[i - Len(a)]
  BY <1>1, <1>2, ConcatProperties
<1> DEFINE d == a \o b
<1>d. d \in Seq(M)
  BY <1>5
<1> HIDE DEF d
<1>6. /\ d \o c \in Seq(M) /\ Len(d \o c) = Len(d) + Len(c)
      /\ \A i \in 1..Len(d) + Len(c) : (d \o c)[i] = IF i <= Len(d) THEN d[i] ELSE c[i - Len(d)]
  BY <1>3, <1>d, ConcatProperties
<1> DEFINE e == d \o c
<1>7. /\ e = Script /\ e \in Seq(M) /\ Len(e) = Len(d) + 6
      /\ \A i \in 1..Len(d) + 6 : e[i] = IF i <= Len(d) THEN d[i] ELSE c[i - Len(d)]
  BY <1>3, <1>4, <1>6 DEF d
<1> HIDE DEF e
<1>8. Script \in Seq(Methods \ Aside)
  BY <1>7 DEF M
<1>9. CASE javascript
  <2>1. Len(d) = 3
    BY <1>1, <1>2, <1>5, <1>9 DEF d
  <2>2. Len(e) = 9 /\ \A i \in 1..9 : e[i] = IF i <= 3 THEN d[i] ELSE c[i - 3]
    BY <1>7, <2>1
  <2>3. \A i \in 1..3 : e[i] = a[i]
    <3>1. \A i \in 1..3 : d[i] = a[i]
      BY <1>1, <1>2, <1>5, <1>9 DEF d
    <3> QED BY <2>2, <3>1
  <2>4. \A i \in 4..9 : e[i] = c[i - 3]
    BY <2>2
  <2>5. /\ e[1] = "createTarget" /\ e[2] = "attach" /\ e[3] = "Page.enable"
        /\ e[4] = "Fetch.enable" /\ e[5] = "frameTree" /\ e[6] = "setContent"
        /\ e[7] = "load" /\ e[8] = "fonts" /\ e[9] = "printToPDF"
    BY <1>1, <1>3, <2>3, <2>4
  <2>6. /\ Len(e) \in Nat \ {0} /\ e[1] # "load"
        /\ \A k \in 1..Len(e) : e[k] = "load" => k + 1 \in 1..Len(e)
    BY <2>2, <2>5
  <2>7. \A k \in 1..Len(e) : e[k] = "setContent" =>
          \E i \in 1..Len(e) : i < k /\ e[i] = "Fetch.enable"
    BY <2>2, <2>5
  <2>8. \E k \in 1..Len(e) : e[k] = "setContent" /\ k < Len(e)
    BY <2>2, <2>5
  <2>9. e = Script
    BY <1>7
  <2> QED BY <1>8, <1>9, <2>6, <2>7, <2>8, <2>9, Zenon
<1>10. CASE ~javascript
  <2>0. Len(b) = 1 /\ b[1] = "noScripts"
    BY <1>2, <1>10, Zenon
  <2>1. Len(d) = 4
    BY <1>1, <1>5, <2>0 DEF d
  <2>2. Len(e) = 10 /\ \A i \in 1..10 : e[i] = IF i <= 4 THEN d[i] ELSE c[i - 4]
    BY <1>7, <2>1
  <2>3. e[1] = a[1] /\ e[2] = a[2] /\ e[3] = a[3] /\ e[4] = b[1]
    <3>1. \A i \in 1..4 : d[i] = IF i <= 3 THEN a[i] ELSE b[i - 3]
      BY <1>1, <1>5, <2>0 DEF d
    <3>2. d[1] = a[1] /\ d[2] = a[2] /\ d[3] = a[3] /\ d[4] = b[1]
      BY <3>1
    <3> QED BY <2>2, <3>2
  <2>4. \A i \in 5..10 : e[i] = c[i - 4]
    BY <2>2
  <2>5. /\ e[1] = "createTarget" /\ e[2] = "attach" /\ e[3] = "Page.enable" /\ e[4] = "noScripts"
        /\ e[5] = "Fetch.enable" /\ e[6] = "frameTree" /\ e[7] = "setContent"
        /\ e[8] = "load" /\ e[9] = "fonts" /\ e[10] = "printToPDF"
    BY <1>1, <1>3, <2>0, <2>3, <2>4
  <2>6. /\ Len(e) \in Nat \ {0} /\ e[1] # "load"
        /\ \A k \in 1..Len(e) : e[k] = "load" => k + 1 \in 1..Len(e)
    BY <2>2, <2>5
  <2>7. \A k \in 1..Len(e) : e[k] = "setContent" =>
          \E i \in 1..Len(e) : i < k /\ e[i] = "Fetch.enable"
    BY <2>2, <2>5
  <2>8. \E k \in 1..Len(e) : e[k] = "setContent" /\ k < Len(e)
    BY <2>2, <2>5
  <2>9. \A k \in 1..Len(e) : e[k] = "setContent" =>
          \E i \in 1..Len(e) : i < k /\ e[i] = "noScripts"
    BY <2>2, <2>5
  <2>10. e = Script
    BY <1>7
  <2>11. \A k \in 1..Len(Script) : Script[k] = "setContent" =>
           /\ \E i \in 1..Len(Script) : i < k /\ Script[i] = "Fetch.enable"
           /\ javascript \/ \E i \in 1..Len(Script) : i < k /\ Script[i] = "noScripts"
    <3> SUFFICES ASSUME NEW k \in 1..Len(Script), Script[k] = "setContent"
                 PROVE  /\ \E i \in 1..Len(Script) : i < k /\ Script[i] = "Fetch.enable"
                        /\ \E i \in 1..Len(Script) : i < k /\ Script[i] = "noScripts"
      BY Zenon
    <3> QED BY <2>7, <2>9, <2>10
  <2> QED BY <1>8, <2>6, <2>8, <2>10, <2>11, Zenon
<1> QED BY <1>9, <1>10

-----------------------------------------------------------------------------
(* The invariant.                                                          *)

Content == page.content
Fetching == page.fetch
Scriptless == page.noScripts \/ javascript

\* What an answered command of the script has brought about in the page.
Effect(m) ==
  /\ m = "noScripts" => page.noScripts
  /\ m = "Fetch.enable" => page.fetch
  /\ m = "setContent" => page.content

EffectAt(k) == Effect(Script[k])

Pcs == {"launching", "endpoint", "connecting", "calling", "waiting", "dropping", "returned"}
Results == {"none", "unsupported", "startup", "timeout", "render", "pdf"}

HtmlShape ==
  /\ now \in 0..(Timeout + 1)
  /\ client \in [pc : Pcs, attempt : 1..2, startBy : Nat, cmd : 0..Len(Script),
                 waits : 0..next_id, result : Results]
  /\ browser \in {"none", "starting", "up", "dead"}
  /\ open \in [loading : SUBSET Resources, paused : SUBSET Resources, leaked : SUBSET Resources]
  /\ commands \in Seq(Commands)
  /\ stream \in Seq(Messages)
  /\ next_id \in Nat

HtmlFlags ==
  /\ javascript \in BOOLEAN /\ profile \in BOOLEAN
  /\ page \in [enabled : BOOLEAN, noScripts : BOOLEAN, fetch : BOOLEAN, content : BOOLEAN,
               blank : BOOLEAN, loaded : BOOLEAN]

\* Ids are given out once; an answered command is no longer under way.
IdsFit ==
  /\ \A i \in 1..Len(commands) : commands[i][1] \in 1..next_id
  /\ \A i, j \in 1..Len(commands) : commands[i][1] = commands[j][1] => i = j
  /\ \A i \in 1..Len(stream) : stream[i].kind = "answer" =>
       /\ stream[i].id \in 1..next_id
       /\ \A j \in 1..Len(commands) : commands[j][1] # stream[i].id

\* One command of the script is under way at a time: the one the client waits
\* for, or gave up on.
OneCall ==
  \A i \in 1..Len(commands) :
    /\ commands[i][2] \notin Aside =>
         /\ commands[i][1] = client.waits /\ commands[i][2] = Script[client.cmd]
         /\ client.pc \in {"calling", "dropping", "returned"} /\ client.result # "pdf"
         /\ client.cmd # 0
    /\ client.pc = "calling" /\ commands[i][1] = client.waits => commands[i][2] \notin Aside

\* The commands before the current one have had their effect, and the current
\* one has if its answer says so.
CallsAnswered ==
  /\ client.pc = "calling" =>
       /\ client.cmd # 0
       /\ \A i \in 1..Len(stream) :
            stream[i].kind = "answer" /\ stream[i].id = client.waits /\ stream[i].value = "ok" =>
              \A k \in 1..Len(Script) : k = client.cmd => EffectAt(k)
  /\ client.pc = "waiting" => client.cmd # 0 /\ Script[client.cmd] = "load"
  /\ \A k \in 1..Len(Script) : k < client.cmd => EffectAt(k)

\* A browser that did not start has been told nothing.
FreshBrowser ==
  client.pc \in {"launching", "endpoint", "connecting"} \/ client.result = "startup" =>
    client.cmd = 0 /\ commands = <<>> /\ ~Content

\* There is a result once render is done with the browser, and a PDF only of a
\* page that has the document.
ResultFits ==
  /\ client.pc \notin {"dropping", "returned"} => client.result = "none"
  /\ client.result = "pdf" => Content

\* DocumentIsIsolated, and nothing loads but what the document asks for.
Isolated ==
  /\ Content => Fetching /\ Scriptless
  /\ open.loading # {} => Content
  /\ open.leaked = {}

HtmlInv == HtmlShape /\ IdsFit /\ OneCall /\ CallsAnswered /\ FreshBrowser /\ ResultFits /\ Isolated

-----------------------------------------------------------------------------
(* Queues.                                                                 *)

LEMMA AppendsOne ==
  ASSUME NEW S, NEW s \in Seq(S), NEW m \in S
  PROVE /\ Append(s, m) \in Seq(S) /\ Len(Append(s, m)) = Len(s) + 1 /\ Len(s) \in Nat
        /\ \A i \in 1..Len(s) : Append(s, m)[i] = s[i]
        /\ Append(s, m)[Len(s) + 1] = m
        /\ \A i \in 1..Len(Append(s, m)) : i \in 1..Len(s) \/ i = Len(s) + 1
OBVIOUS

LEMMA DropsOne ==
  ASSUME NEW S, NEW s \in Seq(S), s # <<>>
  PROVE /\ Tail(s) \in Seq(S) /\ Len(Tail(s)) = Len(s) - 1 /\ Len(s) \in Nat \ {0}
        /\ \A i \in 1..Len(Tail(s)) : Tail(s)[i] = s[i + 1] /\ i + 1 \in 1..Len(s)
        /\ Head(s) = s[1] /\ Head(s) \in S /\ 1 \in 1..Len(s)
OBVIOUS

\* The stream holds nothing new.
NoNews ==
  /\ stream' \in Seq(Messages)
  /\ \A i \in 1..Len(stream') : \E j \in 1..Len(stream) : stream'[i] = stream[j]

LEMMA TailIsNoNews ==
  ASSUME HtmlShape, stream # <<>>, stream' = Tail(stream)
  PROVE  NoNews /\ Head(stream) \in Messages /\ \E j \in 1..Len(stream) : Head(stream) = stream[j]
BY DropsOne DEF HtmlShape, NoNews

LEMMA SameIsNoNews == ASSUME HtmlShape, stream' = stream PROVE NoNews
BY DEF HtmlShape, NoNews

LEMMA PageFrame ==
  ASSUME UNCHANGED <<javascript, page>>
  PROVE  /\ Script' = Script /\ (Content' <=> Content)
         /\ \A k : EffectAt(k)' <=> EffectAt(k)
         /\ (Content => Fetching /\ Scriptless) => (Content' => Fetching' /\ Scriptless')
<1>1. Script' = Script
  BY DEF Script
<1>2. Content' <=> Content
  BY DEF Content
<1>3. \A k : EffectAt(k)' <=> EffectAt(k)
  BY <1>1 DEF EffectAt, Effect
<1>4. (Fetching' <=> Fetching) /\ (Scriptless' <=> Scriptless)
  BY Zenon DEF Fetching, Scriptless
<1> QED BY <1>1, <1>2, <1>3, <1>4

LEMMA PlainEffects == Effect("load") /\ Effect("fonts")
BY DEF Effect

-----------------------------------------------------------------------------
(* Steps of the renderer that send nothing.                                *)

\* Where the renderer may turn without sending anything.
Turns ==
  \/ client'.pc = client.pc /\ client'.result = client.result
  \/ client.pc = "endpoint" /\ client'.pc = "connecting" /\ client'.result = client.result
  \/ /\ client.pc \in {"endpoint", "connecting"} /\ client'.pc = "dropping"
     /\ client'.result = "startup"
  \/ /\ client.pc = "calling" /\ client'.pc = "dropping"
     /\ client'.result \in {"timeout", "render"}
  \/ client.pc = "dropping" /\ client'.pc = "returned" /\ client'.result = client.result
  \/ /\ client.pc = "dropping" /\ client.result = "startup"
     /\ client'.pc = "launching" /\ client'.result = "none"

LEMMA TurnKeeps ==
  ASSUME HtmlInv, HtmlShape', NoNews, Turns,
         UNCHANGED <<javascript, page, open, commands, next_id>>,
         client'.cmd = client.cmd, client'.waits = client.waits
  PROVE  HtmlInv'
<1>0. /\ HtmlShape /\ IdsFit /\ OneCall /\ CallsAnswered /\ FreshBrowser /\ ResultFits /\ Isolated
      /\ client.pc \in Pcs /\ client.result \in Results
  BY DEF HtmlInv, HtmlShape
<1>1. /\ Script' = Script /\ (Content' <=> Content)
      /\ \A k : EffectAt(k)' <=> EffectAt(k)
      /\ (Content => Fetching /\ Scriptless) => (Content' => Fetching' /\ Scriptless')
  BY PageFrame
<1>2. IdsFit'
  BY <1>0 DEF IdsFit, NoNews
<1>3. OneCall'
  <2>1. client'.pc = "calling" => client.pc = "calling"
    BY DEF Turns
  <2>2. client.pc \in {"calling", "dropping", "returned"} /\ client.result # "pdf" /\ client.cmd # 0 =>
          client'.pc \in {"calling", "dropping", "returned"} /\ client'.result # "pdf"
    BY <1>0 DEF Turns, FreshBrowser
  <2> QED BY <1>0, <1>1, <2>1, <2>2 DEF OneCall
<1>4. CallsAnswered'
  <2>1. client'.pc = "calling" => client.pc = "calling"
    BY DEF Turns
  <2>2. client'.pc = "waiting" => client.pc = "waiting"
    BY DEF Turns
  <2>3. \A k \in 1..Len(Script') : k < client'.cmd => EffectAt(k)'
    BY <1>0, <1>1 DEF CallsAnswered
  <2>4. ASSUME client'.pc = "calling", NEW i \in 1..Len(stream'),
               stream'[i].kind = "answer", stream'[i].id = client'.waits, stream'[i].value = "ok",
               NEW k \in 1..Len(Script'), k = client'.cmd
        PROVE  EffectAt(k)'
    <3>1. PICK j \in 1..Len(stream) : stream'[i] = stream[j]
      BY DEF NoNews
    <3>2. EffectAt(k)
      BY <1>0, <1>1, <2>1, <2>4, <3>1 DEF CallsAnswered
    <3> QED BY <1>1, <3>2
  <2> QED BY <1>0, <1>1, <2>1, <2>2, <2>3, <2>4 DEF CallsAnswered
<1>5. FreshBrowser'
  <2>1. client'.pc \in {"launching", "endpoint", "connecting"} \/ client'.result = "startup" =>
          client.pc \in {"launching", "endpoint", "connecting"} \/ client.result = "startup"
    BY DEF Turns
  <2> QED BY <1>0, <1>1, <2>1 DEF FreshBrowser
<1>6. ResultFits'
  <2>1. client'.pc \notin {"dropping", "returned"} => client'.result = "none"
    BY <1>0 DEF Turns, ResultFits
  <2>2. client'.result = "pdf" => client.result = "pdf"
    BY DEF Turns
  <2> QED BY <1>0, <1>1, <2>1, <2>2 DEF ResultFits
<1>7. Isolated'
  BY <1>0, <1>1 DEF Isolated
<1> QED BY <1>2, <1>3, <1>4, <1>5, <1>6, <1>7 DEF HtmlInv

\* The fields of the client under EXCEPT.
LEMMA FailFields ==
  ASSUME HtmlInv, NEW r \in {"startup", "timeout", "render"},
         client' = [client EXCEPT !.pc = "dropping", !.result = r]
  PROVE  /\ client' \in [pc : Pcs, attempt : 1..2, startBy : Nat, cmd : 0..Len(Script),
                         waits : 0..next_id, result : Results]
         /\ client'.pc = "dropping" /\ client'.result = r
         /\ client'.cmd = client.cmd /\ client'.waits = client.waits
BY DEF HtmlInv, HtmlShape, Pcs, Results

LEMMA FailsKeep ==
  ASSUME HtmlInv, NEW r \in {"startup", "timeout", "render"}, FailsWith(r),
         \/ r = "startup" /\ client.pc \in {"endpoint", "connecting"}
         \/ r # "startup" /\ client.pc = "calling"
  PROVE  HtmlInv'
<1>1. /\ client' = [client EXCEPT !.pc = "dropping", !.result = r]
      /\ UNCHANGED <<javascript, now, browser, page, open, commands, stream, next_id>>
  BY DEF FailsWith
<1>2. /\ client' \in [pc : Pcs, attempt : 1..2, startBy : Nat, cmd : 0..Len(Script),
                      waits : 0..next_id, result : Results]
      /\ client'.pc = "dropping" /\ client'.result = r
      /\ client'.cmd = client.cmd /\ client'.waits = client.waits
  BY <1>1, FailFields
<1>3. Script' = Script /\ HtmlShape
  BY <1>1, PageFrame DEF HtmlInv
<1>4. HtmlShape'
  BY <1>1, <1>2, <1>3 DEF HtmlShape
<1>5. NoNews
  BY <1>1, <1>3, SameIsNoNews
<1>6. Turns
  BY <1>2 DEF Turns
<1> QED BY <1>1, <1>2, <1>4, <1>5, <1>6, TurnKeeps

LEMMA GivesUpKeeps ==
  ASSUME HtmlInv, EndpointLate \/ CallTimesOut \/ ConnectionLost \/ CdpConnects(FALSE)
  PROVE  HtmlInv'
<1>1. CASE EndpointLate
  BY <1>1, FailsKeep DEF EndpointLate
<1>2. CASE CallTimesOut
  BY <1>2, FailsKeep DEF CallTimesOut
<1>3. CASE ConnectionLost
  BY <1>3, FailsKeep DEF ConnectionLost
<1>4. CASE CdpConnects(FALSE)
  <2>1. client.pc = "connecting" /\ FailsWith("startup")
    BY <1>4, Zenon DEF CdpConnects
  <2> QED BY <2>1, FailsKeep
<1> QED BY <1>1, <1>2, <1>3, <1>4

LEMMA TurnsKeep ==
  ASSUME HtmlInv, FindsEndpoint \/ Drops
  PROVE  HtmlInv'
<1>1. /\ UNCHANGED <<javascript, now, page, open, commands, stream, next_id>>
      /\ browser' \in {"none", "starting", "up", "dead"}
  <2>1. CASE FindsEndpoint
    BY <2>1 DEF FindsEndpoint, HtmlInv, HtmlShape
  <2>2. CASE Drops
    BY <2>2 DEF Drops, Kill
  <2> QED BY <2>1, <2>2
<1>2. HtmlShape /\ Script' = Script
  BY <1>1, PageFrame DEF HtmlInv
<1>3. /\ client' \in [pc : Pcs, attempt : 1..2, startBy : Nat, cmd : 0..Len(Script),
                      waits : 0..next_id, result : Results]
      /\ client'.cmd = client.cmd /\ client'.waits = client.waits /\ Turns
  <2>1. CASE FindsEndpoint
    BY <1>2, <2>1 DEF FindsEndpoint, HtmlShape, Pcs, Turns
  <2>2. CASE Drops
    <3>1. client.pc = "dropping"
      BY <2>2 DEF Drops
    <3>2. CASE Retries
      <4>1. client' = [client EXCEPT !.pc = "launching", !.attempt = @ + 1, !.result = "none"]
        BY <2>2, <3>2 DEF Drops
      <4>2. client.result = "startup" /\ client.attempt = 1
        BY <3>2 DEF Retries
      <4>3. client'.attempt = 2 /\ 2 \in 1..2
        BY <1>2, <4>1, <4>2 DEF HtmlShape
      <4> QED BY <1>2, <3>1, <4>1, <4>2, <4>3 DEF HtmlShape, Pcs, Results, Turns
    <3>3. CASE ~Retries
      <4>1. client' = [client EXCEPT !.pc = "returned"]
        BY <2>2, <3>3 DEF Drops
      <4> QED BY <1>2, <3>1, <4>1 DEF HtmlShape, Pcs, Turns
    <3> QED BY <3>2, <3>3
  <2> QED BY <2>1, <2>2
<1>4. HtmlShape'
  BY <1>1, <1>2, <1>3 DEF HtmlShape
<1>5. NoNews
  BY <1>1, <1>2, SameIsNoNews
<1> QED BY <1>1, <1>3, <1>4, <1>5, TurnKeeps

\* Time passes, the browser starts or dies.
LEMMA WorldKeeps ==
  ASSUME HtmlInv, Tick \/ BrowserStarts \/ BrowserDies
  PROVE  HtmlInv'
<1>1. UNCHANGED <<javascript, client, page, open, commands, stream, next_id>>
  BY DEF Tick, BrowserStarts, BrowserDies
<1>2. HtmlShape /\ Script' = Script
  BY <1>1, PageFrame DEF HtmlInv
<1>3. now' \in 0..(Timeout + 1) /\ browser' \in {"none", "starting", "up", "dead"}
  BY <1>2, HtmlAssumption DEF Tick, BrowserStarts, BrowserDies, HtmlShape
<1>4. HtmlShape'
  BY <1>1, <1>2, <1>3 DEF HtmlShape
<1>5. NoNews
  BY <1>1, <1>2, SameIsNoNews
<1>6. Turns
  BY <1>1 DEF Turns
<1> QED BY <1>1, <1>4, <1>5, <1>6, TurnKeeps

-----------------------------------------------------------------------------
(* Steps of the renderer that send a command.                              *)

\* A command put at the end of the queue with the next id.
Sends(method, arg) ==
  /\ next_id' = next_id + 1
  /\ commands' = Append(commands, <<next_id + 1, method, arg>>)

LEMMA SendIs ==
  ASSUME HtmlShape, NEW m \in Methods, NEW a \in Values, Sends(m, a)
  PROVE  /\ commands' \in Seq(Commands) /\ next_id' \in Nat /\ next_id' = next_id + 1
         /\ \A i \in 1..Len(commands') :
              \/ i \in 1..Len(commands) /\ commands'[i] = commands[i]
              \/ i = Len(commands) + 1 /\ commands'[i][1] = next_id + 1 /\ commands'[i][2] = m
         /\ Len(commands) \in Nat /\ next_id \in Nat
<1> DEFINE c == <<next_id + 1, m, a>>
<1>1. next_id \in Nat /\ next_id + 1 \in Nat /\ commands \in Seq(Commands)
  BY DEF HtmlShape
<1>2. c \in Commands
  BY <1>1 DEF Commands
<1>3. c[1] = next_id + 1 /\ c[2] = m
  OBVIOUS
<1> HIDE DEF c
<1>4. commands' = Append(commands, c) /\ next_id' = next_id + 1
  BY DEF Sends, c
<1> QED BY <1>1, <1>2, <1>3, <1>4, AppendsOne

LEMMA SendKeepsIds ==
  ASSUME HtmlShape, IdsFit, NoNews, NEW m \in Methods, NEW a \in Values, Sends(m, a)
  PROVE  IdsFit'
<1>1. /\ next_id' = next_id + 1
      /\ \A i \in 1..Len(commands') :
           \/ i \in 1..Len(commands) /\ commands'[i] = commands[i]
           \/ i = Len(commands) + 1 /\ commands'[i][1] = next_id + 1
      /\ Len(commands) \in Nat /\ next_id \in Nat
  BY SendIs
<1>2. \A i \in 1..Len(commands') : commands'[i][1] \in 1..next_id'
  BY <1>1 DEF IdsFit
<1>3. ASSUME NEW i \in 1..Len(commands'), NEW j \in 1..Len(commands'), commands'[i][1] = commands'[j][1]
      PROVE  i = j
  BY <1>1, <1>3 DEF IdsFit
<1>4. ASSUME NEW i \in 1..Len(stream'), stream'[i].kind = "answer"
      PROVE  /\ stream'[i].id \in 1..next_id'
             /\ \A j \in 1..Len(commands') : commands'[j][1] # stream'[i].id
  <2>1. PICK l \in 1..Len(stream) : stream'[i] = stream[l]
    BY DEF NoNews
  <2>2. /\ stream'[i].id \in 1..next_id
        /\ \A j \in 1..Len(commands) : commands[j][1] # stream'[i].id
    BY <1>4, <2>1 DEF IdsFit
  <2>3. stream'[i].id \in 1..next_id'
    BY <1>1, <2>2
  <2>4. ASSUME NEW j \in 1..Len(commands') PROVE commands'[j][1] # stream'[i].id
    <3>1. CASE j \in 1..Len(commands) /\ commands'[j] = commands[j]
      BY <2>2, <3>1
    <3>2. CASE commands'[j][1] = next_id + 1
      BY <1>1, <2>2, <3>2
    <3> QED BY <1>1, <3>1, <3>2
  <2> QED BY <2>3, <2>4
<1> QED BY <1>2, <1>3, <1>4 DEF IdsFit

\* No command of the script is under way.
Free == \A i \in 1..Len(commands) : commands[i][2] \in Aside

\* A paused request is failed, or the browser is told to close: the client
\* stays where it is or has its PDF.
LEMMA AsideKeeps ==
  ASSUME HtmlInv, HtmlShape', NoNews, NEW m \in Aside, NEW a \in Values, Sends(m, a),
         UNCHANGED <<javascript, page, open>>,
         client'.cmd = client.cmd, client'.waits = client.waits,
         \/ /\ client'.pc = client.pc /\ client'.result = client.result
            /\ client.pc \in {"calling", "waiting"}
         \/ client'.pc = "dropping" /\ client'.result = "pdf" /\ Free /\ Content
  PROVE  HtmlInv'
<1>0. /\ HtmlShape /\ IdsFit /\ OneCall /\ CallsAnswered /\ FreshBrowser /\ ResultFits /\ Isolated
      /\ m \in Methods
  BY DEF HtmlInv, Aside, Methods
<1>1. /\ Script' = Script /\ (Content' <=> Content)
      /\ \A k : EffectAt(k)' <=> EffectAt(k)
      /\ (Content => Fetching /\ Scriptless) => (Content' => Fetching' /\ Scriptless')
  BY PageFrame
<1>2. IdsFit'
  BY <1>0, SendKeepsIds
<1>3. /\ \A i \in 1..Len(commands') :
           \/ i \in 1..Len(commands) /\ commands'[i] = commands[i]
           \/ i = Len(commands) + 1 /\ commands'[i][1] = next_id + 1 /\ commands'[i][2] = m
      /\ next_id \in Nat /\ client.waits \in 0..next_id
  <2>1. client.waits \in 0..next_id
    BY <1>0 DEF HtmlShape
  <2> QED BY <1>0, <2>1, SendIs
<1>4. OneCall'
  <2>1. ASSUME NEW i \in 1..Len(commands'), commands'[i][2] \notin Aside
        PROVE  /\ commands'[i][1] = client'.waits /\ commands'[i][2] = Script'[client'.cmd]
               /\ client'.pc \in {"calling", "dropping", "returned"} /\ client'.result # "pdf"
               /\ client'.cmd # 0
    <3>1. i \in 1..Len(commands) /\ commands'[i] = commands[i]
      BY <1>3, <2>1
    <3> QED BY <1>0, <1>1, <2>1, <3>1 DEF OneCall, Free
  <2>2. ASSUME NEW i \in 1..Len(commands'), client'.pc = "calling", commands'[i][1] = client'.waits
        PROVE  commands'[i][2] \notin Aside
    <3>1. i \in 1..Len(commands) /\ commands'[i] = commands[i]
      BY <1>3, <2>2
    <3> QED BY <1>0, <2>2, <3>1 DEF OneCall
  <2> QED BY <2>1, <2>2 DEF OneCall
<1>5. CallsAnswered'
  <2>1. ASSUME client'.pc = "calling", NEW i \in 1..Len(stream'),
               stream'[i].kind = "answer", stream'[i].id = client'.waits, stream'[i].value = "ok",
               NEW k \in 1..Len(Script'), k = client'.cmd
        PROVE  EffectAt(k)'
    <3>1. PICK j \in 1..Len(stream) : stream'[i] = stream[j]
      BY DEF NoNews
    <3>2. EffectAt(k)
      BY <1>0, <1>1, <2>1, <3>1 DEF CallsAnswered
    <3> QED BY <1>1, <3>2
  <2>2. \A k \in 1..Len(Script') : k < client'.cmd => EffectAt(k)'
    BY <1>0, <1>1 DEF CallsAnswered
  <2> QED BY <1>0, <1>1, <2>1, <2>2 DEF CallsAnswered
<1>6. FreshBrowser' /\ ResultFits'
  BY <1>0, <1>1 DEF FreshBrowser, ResultFits
<1>7. Isolated'
  BY <1>0, <1>1 DEF Isolated
<1> QED BY <1>2, <1>4, <1>5, <1>6, <1>7 DEF HtmlInv

\* The next command of the script, once those before it have had their effect.
LEMMA CallKeeps ==
  ASSUME HtmlInv, javascript \in BOOLEAN, NEW k \in 1..Len(Script), Calls(k), NoNews, Free,
         client.result = "none",
         \A j \in 1..Len(Script) : j < k => EffectAt(j),
         UNCHANGED <<javascript, now, browser, page, open>>
  PROVE  HtmlInv'
<1>0. /\ HtmlShape /\ IdsFit /\ OneCall /\ CallsAnswered /\ FreshBrowser /\ ResultFits /\ Isolated
  BY DEF HtmlInv
<1>1. /\ Script' = Script /\ (Content' <=> Content)
      /\ \A j : EffectAt(j)' <=> EffectAt(j)
      /\ (Content => Fetching /\ Scriptless) => (Content' => Fetching' /\ Scriptless')
  BY PageFrame
<1>2. /\ Script[k] \in Methods /\ Script[k] \notin Aside /\ "" \in Values /\ Len(Script) \in Nat
  BY ScriptFacts DEF Values
<1>k. k \in 0..Len(Script) /\ k # 0
  <2>1. Len(Script) \in Nat /\ k \in 1..Len(Script)
    BY <1>2
  <2> QED BY <2>1
<1>3. Sends(Script[k], "") /\ client' = [client EXCEPT !.pc = "calling", !.cmd = k, !.waits = next_id + 1]
  BY DEF Calls, Sends
<1>4. /\ commands' \in Seq(Commands) /\ next_id' \in Nat /\ next_id' = next_id + 1
      /\ \A i \in 1..Len(commands') :
           \/ i \in 1..Len(commands) /\ commands'[i] = commands[i]
           \/ i = Len(commands) + 1 /\ commands'[i][1] = next_id + 1 /\ commands'[i][2] = Script[k]
      /\ next_id \in Nat
  BY <1>0, <1>2, <1>3, SendIs
<1>5. /\ client'.pc = "calling" /\ client'.cmd = k /\ client'.waits = next_id + 1
      /\ client'.result = "none"
      /\ client' \in [pc : Pcs, attempt : 1..2, startBy : Nat, cmd : 0..Len(Script),
                      waits : 0..next_id', result : Results]
  <2>1. k \in 0..Len(Script) /\ next_id + 1 \in 0..next_id'
    BY <1>4, <1>k
  <2>2. client \in [pc : Pcs, attempt : 1..2, startBy : Nat, cmd : 0..Len(Script),
                    waits : 0..next_id, result : Results]
    BY <1>0 DEF HtmlShape
  <2> QED BY <1>3, <2>1, <2>2 DEF Pcs
<1>6. HtmlShape'
  BY <1>0, <1>1, <1>4, <1>5 DEF HtmlShape, NoNews
<1>7. IdsFit'
  BY <1>0, <1>2, <1>3, SendKeepsIds
<1>8. OneCall'
  <2>1. ASSUME NEW i \in 1..Len(commands'), commands'[i][2] \notin Aside
        PROVE  /\ commands'[i][1] = client'.waits /\ commands'[i][2] = Script'[client'.cmd]
               /\ client'.pc \in {"calling", "dropping", "returned"} /\ client'.result # "pdf"
               /\ client'.cmd # 0
    <3>1. commands'[i][1] = next_id + 1 /\ commands'[i][2] = Script[k]
      BY <1>4, <2>1 DEF Free
    <3> QED BY <1>1, <1>5, <1>k, <3>1
  <2>2. ASSUME NEW i \in 1..Len(commands'), client'.pc = "calling", commands'[i][1] = client'.waits
        PROVE  commands'[i][2] \notin Aside
    <3>1. CASE i \in 1..Len(commands) /\ commands'[i] = commands[i]
      <4>1. commands[i][1] \in 1..next_id
        BY <1>0, <3>1 DEF IdsFit
      <4> QED BY <1>4, <1>5, <2>2, <3>1, <4>1
    <3> QED BY <1>2, <1>4, <3>1
  <2> QED BY <2>1, <2>2 DEF OneCall
<1>9. CallsAnswered'
  <2>1. ASSUME NEW i \in 1..Len(stream'), stream'[i].kind = "answer", stream'[i].id = client'.waits
        PROVE  FALSE
    <3>1. PICK j \in 1..Len(stream) : stream'[i] = stream[j]
      BY DEF NoNews
    <3>2. stream'[i].id \in 1..next_id
      BY <1>0, <2>1, <3>1 DEF IdsFit
    <3> QED BY <1>4, <1>5, <2>1, <3>2
  <2>2. \A j \in 1..Len(Script') : j < client'.cmd => EffectAt(j)'
    BY <1>1, <1>5
  <2> QED BY <1>5, <2>1, <2>2 DEF CallsAnswered
<1>10. FreshBrowser' /\ ResultFits'
  BY <1>5 DEF FreshBrowser, ResultFits
<1>11. Isolated'
  BY <1>0, <1>1 DEF Isolated
<1> QED BY <1>6, <1>7, <1>8, <1>9, <1>10, <1>11 DEF HtmlInv

LEMMA ConnectKeeps ==
  ASSUME HtmlInv, javascript \in BOOLEAN, CdpConnects(TRUE) \/ WaitEnds
  PROVE  HtmlInv'
<1>0. HtmlShape /\ OneCall /\ CallsAnswered /\ FreshBrowser /\ ResultFits
  BY DEF HtmlInv
<1>1. Len(Script) \in Nat \ {0} /\ \A k \in 1..Len(Script) : Script[k] = "load" => k + 1 \in 1..Len(Script)
  BY ScriptFacts
<1>2. CASE CdpConnects(TRUE)
  <2>1. client.pc = "connecting" /\ Calls(1) /\ UNCHANGED <<javascript, now, browser, page, open, stream>>
    BY <1>2, Zenon DEF CdpConnects
  <2>2. commands = <<>> /\ client.result = "none"
    BY <1>0, <2>1 DEF FreshBrowser, ResultFits
  <2>3. Free
    BY <2>2 DEF Free
  <2>4. NoNews /\ 1 \in 1..Len(Script)
    BY <1>0, <1>1, <2>1, SameIsNoNews
  <2>5. \A j \in 1..Len(Script) : j < 1 => EffectAt(j)
    BY <1>1
  <2> QED BY <2>1, <2>2, <2>3, <2>4, <2>5, CallKeeps
<1>3. CASE WaitEnds
  <2>1. /\ client.pc = "waiting" /\ Calls(client.cmd + 1)
        /\ UNCHANGED <<javascript, now, browser, page, open, stream>>
    BY <1>3 DEF WaitEnds
  <2>2. client.result = "none" /\ client.cmd \in 1..Len(Script) /\ Script[client.cmd] = "load"
    <3>1. client.cmd \in 0..Len(Script)
      BY <1>0 DEF HtmlShape
    <3> QED BY <1>0, <1>1, <2>1, <3>1 DEF CallsAnswered, ResultFits
  <2>3. Free
    BY <1>0, <2>1 DEF OneCall, Free
  <2>4. NoNews /\ client.cmd + 1 \in 1..Len(Script)
    BY <1>0, <1>1, <2>1, <2>2, SameIsNoNews
  <2>5. EffectAt(client.cmd)
    BY <2>2, PlainEffects DEF EffectAt
  <2>6. \A j \in 1..Len(Script) : j < client.cmd + 1 => EffectAt(j)
    BY <1>0, <1>1, <2>2, <2>5 DEF CallsAnswered
  <2> QED BY <2>1, <2>2, <2>3, <2>4, <2>6, CallKeeps
<1> QED BY <1>2, <1>3

\* The call that was answered had its effect; the renderer goes on.
LEMMA ProceedKeeps ==
  ASSUME HtmlInv, javascript \in BOOLEAN, Proceeds, NoNews, Free, client.pc = "calling",
         \A k \in 1..Len(Script) : k = client.cmd => EffectAt(k),
         UNCHANGED <<javascript, now, browser, page, open>>
  PROVE  HtmlInv'
<1> DEFINE n == client.cmd + 1
<1>0. HtmlShape /\ OneCall /\ CallsAnswered /\ ResultFits /\ IdsFit /\ Isolated
  BY DEF HtmlInv
<1>1. /\ Len(Script) \in Nat \ {0}
      /\ \A k \in 1..Len(Script) : Script[k] = "load" => k + 1 \in 1..Len(Script)
      /\ \E k \in 1..Len(Script) : Script[k] = "setContent" /\ k < Len(Script)
  BY ScriptFacts, Zenon
<1>2. client.cmd \in 1..Len(Script) /\ client.result = "none"
  <2>1. client.cmd \in 0..Len(Script)
    BY <1>0 DEF HtmlShape
  <2> QED BY <1>0, <1>1, <2>1 DEF CallsAnswered, ResultFits
<1>3. \A j \in 1..Len(Script) : j < n => EffectAt(j)
  BY <1>0, <1>1, <1>2 DEF CallsAnswered
<1>4. Script' = Script
  BY PageFrame
<1>p. n <= Len(Script) =>
        \/ /\ Script[n] = "load" /\ "load" \notin seen
           /\ client' = [client EXCEPT !.pc = "waiting", !.cmd = n]
           /\ UNCHANGED <<commands, next_id>>
        \/ Script[n] = "load" /\ "load" \in seen /\ Calls(n + 1)
        \/ Script[n] # "load" /\ Calls(n)
  <2> SUFFICES ASSUME ~(n > Len(Script))
               PROVE  \/ /\ Script[n] = "load" /\ "load" \notin seen
                         /\ client' = [client EXCEPT !.pc = "waiting", !.cmd = n]
                         /\ UNCHANGED <<commands, next_id>>
                      \/ Script[n] = "load" /\ "load" \in seen /\ Calls(n + 1)
                      \/ Script[n] # "load" /\ Calls(n)
    BY <1>1, <1>2
  <2>1. IF Script[n] = "load" /\ "load" \notin seen
        THEN /\ client' = [client EXCEPT !.pc = "waiting", !.cmd = n]
             /\ UNCHANGED <<commands, next_id>>
        ELSE Calls(IF Script[n] = "load" THEN n + 1 ELSE n)
    BY Zenon DEF Proceeds
  <2>2. CASE Script[n] = "load" /\ "load" \notin seen
    BY <2>1, <2>2, Zenon
  <2>3. CASE Script[n] = "load" /\ "load" \in seen
    BY <2>1, <2>3, Zenon
  <2>4. CASE Script[n] # "load"
    BY <2>1, <2>4, Zenon
  <2> QED BY <2>2, <2>3, <2>4, Zenon
<1>5. CASE n > Len(Script)
  <2>1. /\ Sends("Browser.close", "")
        /\ client' = [client EXCEPT !.pc = "dropping", !.result = "pdf"]
    BY <1>5 DEF Proceeds, Sends
  <2>2. /\ client'.pc = "dropping" /\ client'.result = "pdf"
        /\ client'.cmd = client.cmd /\ client'.waits = client.waits
        /\ client' \in [pc : Pcs, attempt : 1..2, startBy : Nat, cmd : 0..Len(Script),
                        waits : 0..next_id, result : Results]
    BY <1>0, <2>1 DEF HtmlShape, Pcs, Results
  <2>3. Content
    <3>1. PICK k \in 1..Len(Script) : Script[k] = "setContent" /\ k < Len(Script)
      BY <1>1
    <3>2. EffectAt(k)
      BY <1>1, <1>2, <1>3, <1>5, <3>1
    <3> QED BY <3>1, <3>2 DEF EffectAt, Effect, Content
  <2>4. /\ commands' \in Seq(Commands) /\ next_id' \in Nat /\ next_id' = next_id + 1
        /\ "" \in Values /\ "Browser.close" \in Aside
    <3>1. "" \in Values /\ "Browser.close" \in Methods /\ "Browser.close" \in Aside
      BY DEF Values, Methods, Aside
    <3> QED BY <1>0, <2>1, <3>1, SendIs
  <2>5. client' \in [pc : Pcs, attempt : 1..2, startBy : Nat, cmd : 0..Len(Script),
                     waits : 0..next_id', result : Results]
    <3>1. next_id \in Nat
      BY <1>0 DEF HtmlShape
    <3>2. \A w \in 0..next_id : w \in 0..next_id'
      <4>1. next_id' = next_id + 1
        BY <2>4
      <4> QED BY <3>1, <4>1
    <3> QED BY <2>2, <3>2
  <2>6. HtmlShape'
    BY <1>0, <1>4, <2>4, <2>5 DEF HtmlShape, NoNews
  <2> QED BY <2>1, <2>2, <2>3, <2>4, <2>6, AsideKeeps
<1>6. CASE n <= Len(Script) /\ Script[n] = "load" /\ "load" \notin seen
  <2>1. /\ client' = [client EXCEPT !.pc = "waiting", !.cmd = n]
        /\ UNCHANGED <<commands, next_id>>
    BY <1>6, <1>p, Zenon
  <2>2. n \in 0..Len(Script) /\ n # 0
    BY <1>1, <1>2, <1>6
  <2>3. /\ client'.pc = "waiting" /\ client'.cmd = n /\ client'.result = "none"
        /\ client' \in [pc : Pcs, attempt : 1..2, startBy : Nat, cmd : 0..Len(Script),
                        waits : 0..next_id, result : Results]
    BY <1>0, <1>2, <2>1, <2>2 DEF HtmlShape, Pcs
  <2>4. HtmlShape'
    BY <1>0, <1>4, <2>1, <2>3 DEF HtmlShape, NoNews
  <2>5. /\ (Content' <=> Content) /\ \A j : EffectAt(j)' <=> EffectAt(j)
        /\ (Content => Fetching /\ Scriptless) => (Content' => Fetching' /\ Scriptless')
    BY PageFrame
  <2>6. IdsFit'
    BY <1>0, <2>1 DEF IdsFit, NoNews
  <2>7. OneCall'
    BY <2>1, <2>3 DEF OneCall, Free
  <2>8. CallsAnswered'
    <3>1. \A j \in 1..Len(Script') : j < client'.cmd => EffectAt(j)'
      BY <1>3, <1>4, <2>3, <2>5
    <3> QED BY <1>4, <1>6, <2>2, <2>3, <3>1 DEF CallsAnswered
  <2>9. FreshBrowser' /\ ResultFits'
    BY <2>3 DEF FreshBrowser, ResultFits
  <2>10. Isolated'
    BY <1>0, <2>5 DEF Isolated
  <2> QED BY <2>4, <2>6, <2>7, <2>8, <2>9, <2>10 DEF HtmlInv
<1>7. CASE n <= Len(Script) /\ Script[n] = "load" /\ "load" \in seen
  <2>1. Calls(n + 1)
    BY <1>7, <1>p, Zenon
  <2>2. n \in 1..Len(Script) /\ n + 1 \in 1..Len(Script)
    BY <1>1, <1>2, <1>7
  <2>3. EffectAt(n)
    BY <1>7, PlainEffects DEF EffectAt
  <2>4. \A j \in 1..Len(Script) : j < n + 1 => EffectAt(j)
    BY <1>1, <1>3, <2>2, <2>3
  <2> QED BY <1>2, <2>1, <2>2, <2>4, CallKeeps
<1>8. CASE n <= Len(Script) /\ Script[n] # "load"
  <2>1. Calls(n)
    BY <1>8, <1>p, Zenon
  <2>2. n \in 1..Len(Script)
    BY <1>1, <1>2, <1>8
  <2> QED BY <1>2, <1>3, <2>1, <2>2, CallKeeps
<1>9. n \in Nat
  BY <1>1, <1>2
<1> QED BY <1>1, <1>5, <1>6, <1>7, <1>8, <1>9

LEMMA ReadKeeps == ASSUME HtmlInv, javascript \in BOOLEAN, Reads PROVE HtmlInv'
<1> DEFINE m == Head(stream)
<1>0. HtmlShape /\ IdsFit /\ OneCall /\ CallsAnswered /\ ResultFits
  BY DEF HtmlInv
<1>1. /\ client.pc \in {"calling", "waiting"} /\ stream # <<>> /\ stream' = Tail(stream)
      /\ UNCHANGED <<javascript, now, browser, page, open>>
  BY DEF Reads
<1>2. NoNews /\ m \in Messages /\ \E j \in 1..Len(stream) : m = stream[j]
  BY <1>0, <1>1, TailIsNoNews
<1>3. Script' = Script
  BY <1>1, PageFrame
<1>4. client.pc = "calling" /\ Answers(m) => Free
  <2> SUFFICES ASSUME client.pc = "calling", Answers(m) PROVE Free
    BY Zenon
  <2>1. PICK j \in 1..Len(stream) : m = stream[j]
    BY <1>2
  <2>2. \A i \in 1..Len(commands) : commands[i][1] # client.waits
    BY <1>0, <2>1 DEF IdsFit, Answers
  <2> QED BY <1>0, <2>2 DEF OneCall, Free
<1>5. CASE Intercepts(m)
  <2>1. Sends("failRequest", m.value) /\ client' = client
    BY <1>5 DEF Intercepts, Sends
  <2>2. m.value \in Values /\ "failRequest" \in Methods /\ "failRequest" \in Aside
    BY <1>2 DEF Messages, Methods, Aside
  <2>3. commands' \in Seq(Commands) /\ next_id' \in Nat /\ next_id' = next_id + 1
    BY <1>0, <2>1, <2>2, SendIs
  <2>4. client \in [pc : Pcs, attempt : 1..2, startBy : Nat, cmd : 0..Len(Script),
                    waits : 0..next_id', result : Results]
    <3>1. next_id \in Nat
      BY <1>0 DEF HtmlShape
    <3>2. next_id' = next_id + 1
      BY <2>3
    <3>3. \A w \in 0..next_id : w \in 0..next_id'
      BY <3>1, <3>2
    <3>4. client \in [pc : Pcs, attempt : 1..2, startBy : Nat, cmd : 0..Len(Script),
                      waits : 0..next_id, result : Results]
      BY <1>0 DEF HtmlShape
    <3> QED BY <3>3, <3>4
  <2>5. HtmlShape'
    BY <1>0, <1>1, <1>2, <1>3, <2>1, <2>3, <2>4 DEF HtmlShape, NoNews
  <2> QED BY <1>1, <1>2, <2>1, <2>2, <2>5, AsideKeeps
<1>6. CASE client.pc = "calling" /\ Answers(m) /\ m.value = "ok" /\ Proceeds
  <2>1. PICK j \in 1..Len(stream) : m = stream[j]
    BY <1>2
  <2>2. \A k \in 1..Len(Script) : k = client.cmd => EffectAt(k)
    BY <1>0, <1>6, <2>1 DEF CallsAnswered, Answers
  <2> QED BY <1>1, <1>2, <1>4, <1>6, <2>2, ProceedKeeps
<1>7. CASE client.pc = "calling" /\ Answers(m) /\ Script[client.cmd] = "fonts" /\ Proceeds
  <2>1. \A k \in 1..Len(Script) : k = client.cmd => EffectAt(k)
    BY <1>7, PlainEffects DEF EffectAt
  <2> QED BY <1>1, <1>2, <1>4, <1>7, <2>1, ProceedKeeps
<1>8. CASE /\ client.pc = "calling"
           /\ client' = [client EXCEPT !.pc = "dropping", !.result = "render"]
           /\ UNCHANGED <<commands, next_id>>
  <2>1. /\ client' \in [pc : Pcs, attempt : 1..2, startBy : Nat, cmd : 0..Len(Script),
                        waits : 0..next_id, result : Results]
        /\ client'.pc = "dropping" /\ client'.result = "render"
        /\ client'.cmd = client.cmd /\ client'.waits = client.waits
    BY <1>8, FailFields
  <2>2. HtmlShape'
    BY <1>0, <1>1, <1>2, <1>3, <1>8, <2>1 DEF HtmlShape, NoNews
  <2>3. Turns
    BY <1>8, <2>1 DEF Turns
  <2> QED BY <1>1, <1>2, <1>8, <2>1, <2>2, <2>3, TurnKeeps
<1>9. CASE UNCHANGED <<client, commands, next_id>>
  <2>1. HtmlShape'
    BY <1>0, <1>1, <1>2, <1>3, <1>9 DEF HtmlShape, NoNews
  <2>2. Turns
    BY <1>9 DEF Turns
  <2> QED BY <1>1, <1>2, <1>9, <2>1, <2>2, TurnKeeps
<1>10. CASE client.pc = "waiting" /\ Calls(client.cmd + 1)
  <2>1. Len(Script) \in Nat /\ \A k \in 1..Len(Script) : Script[k] = "load" => k + 1 \in 1..Len(Script)
    BY ScriptFacts
  <2>2. client.result = "none" /\ client.cmd \in 1..Len(Script) /\ Script[client.cmd] = "load"
    <3>1. client.cmd \in 0..Len(Script)
      BY <1>0 DEF HtmlShape
    <3> QED BY <1>0, <1>10, <2>1, <3>1 DEF CallsAnswered, ResultFits
  <2>3. Free
    BY <1>0, <1>10 DEF OneCall, Free
  <2>4. client.cmd + 1 \in 1..Len(Script)
    BY <2>1, <2>2
  <2>5. EffectAt(client.cmd)
    BY <2>2, PlainEffects DEF EffectAt
  <2>6. \A j \in 1..Len(Script) : j < client.cmd + 1 => EffectAt(j)
    BY <1>0, <2>1, <2>2, <2>5 DEF CallsAnswered
  <2> QED BY <1>1, <1>2, <1>10, <2>2, <2>3, <2>4, <2>6, CallKeeps
<1>11. \/ Intercepts(m)
       \/ client.pc = "calling" /\ Answers(m) /\ m.value = "ok" /\ Proceeds
       \/ client.pc = "calling" /\ Answers(m) /\ Script[client.cmd] = "fonts" /\ Proceeds
       \/ /\ client.pc = "calling"
          /\ client' = [client EXCEPT !.pc = "dropping", !.result = "render"]
          /\ UNCHANGED <<commands, next_id>>
       \/ UNCHANGED <<client, commands, next_id>>
       \/ client.pc = "waiting" /\ Calls(client.cmd + 1)
  BY Zenon DEF Reads
<1> QED BY <1>5, <1>6, <1>7, <1>8, <1>9, <1>10, <1>11

\* A new profile and a new browser, which has been told nothing.
LEMMA LaunchKeeps == ASSUME HtmlInv, NEW ok \in BOOLEAN, Launch(ok) PROVE HtmlInv'
<1>0. HtmlShape /\ FreshBrowser /\ ResultFits
  BY DEF HtmlInv
<1>1. /\ client.pc = "launching" /\ page' = NoPage /\ open' = Nothing
      /\ commands' = <<>> /\ stream' = <<>> /\ next_id' = 0 /\ UNCHANGED <<javascript, now>>
  BY DEF Launch
<1>2. browser' \in {"none", "starting", "up", "dead"}
  BY DEF Launch
<1>3. Script' = Script
  BY <1>1 DEF Script
<1>4. client.cmd = 0 /\ client.result = "none"
  BY <1>0, <1>1 DEF FreshBrowser, ResultFits
<1>5. /\ client' \in [pc : Pcs, attempt : 1..2, startBy : Nat, cmd : 0..Len(Script),
                      waits : 0..0, result : Results]
      /\ client'.pc \in {"endpoint", "dropping"} /\ client'.cmd = 0
      /\ client'.result \in {"none", "unsupported"}
      /\ client'.pc = "endpoint" => client'.result = "none"
  <2>0. /\ client \in [pc : Pcs, attempt : 1..2, startBy : Nat, cmd : 0..Len(Script),
                       waits : 0..next_id, result : Results]
        /\ client.cmd \in 0..Len(Script) /\ 0 \in 0..0
    BY <1>0 DEF HtmlShape
  <2>1. CASE ok
    <3> DEFINE by == IF now + StartupLimit < Timeout THEN now + StartupLimit ELSE Timeout
    <3>1. client' = [client EXCEPT !.pc = "endpoint", !.cmd = 0, !.waits = 0, !.startBy = by]
      BY <2>1, Zenon DEF Launch
    <3>2. by \in Nat
      BY <1>0, HtmlAssumption DEF HtmlShape
    <3> HIDE DEF by
    <3> QED BY <1>4, <2>0, <3>1, <3>2 DEF Pcs
  <2>2. CASE ~ok
    <3>1. client' = [client EXCEPT !.pc = "dropping", !.result = "unsupported", !.waits = 0]
      BY <2>2, Zenon DEF Launch
    <3> QED BY <1>4, <2>0, <3>1 DEF Pcs, Results
  <2> QED BY <2>1, <2>2
<1>6. HtmlShape'
  <2>1. open' \in [loading : SUBSET Resources, paused : SUBSET Resources, leaked : SUBSET Resources]
    BY <1>1 DEF Nothing
  <2> QED BY <1>0, <1>1, <1>2, <1>3, <1>5, <2>1 DEF HtmlShape
<1>7. ~Content'
  BY <1>1 DEF Content, NoPage
<1>8. open'.loading = {} /\ open'.leaked = {}
  BY <1>1 DEF Nothing
<1>9. IdsFit' /\ OneCall'
  BY <1>1 DEF IdsFit, OneCall
<1>10. CallsAnswered'
  <2>1. \A k \in 1..Len(Script') : ~(k < client'.cmd)
    BY <1>5
  <2> QED BY <1>5, <2>1 DEF CallsAnswered
<1>11. FreshBrowser' /\ ResultFits'
  BY <1>1, <1>5, <1>7 DEF FreshBrowser, ResultFits
<1>12. Isolated'
  BY <1>7, <1>8 DEF Isolated
<1> QED BY <1>6, <1>9, <1>10, <1>11, <1>12 DEF HtmlInv

-----------------------------------------------------------------------------
(* The browser and its page.                                               *)

\* What a handled command does to the page, and what it leaves alone.
LEMMA HandledPage ==
  ASSUME HtmlFlags, NEW v \in {"ok", "error"}, BrowserHandles(v)
  PROVE  /\ Content => Content'
         /\ Fetching => Fetching'
         /\ Scriptless => Scriptless'
         /\ Content' => Content \/ Head(commands)[2] = "setContent"
         /\ \A k : EffectAt(k) => EffectAt(k)'
         /\ v = "ok" => \A k : Head(commands)[2] = Script[k] => EffectAt(k)'
<1> DEFINE c == Head(commands)
<1>1. /\ javascript' = javascript
      /\ page' = [page EXCEPT
              !.enabled   = @ \/ (v = "ok" /\ c[2] = "Page.enable"),
              !.noScripts = @ \/ (v = "ok" /\ c[2] = "noScripts"),
              !.fetch     = @ \/ (v = "ok" /\ c[2] = "Fetch.enable"),
              !.content   = @ \/ (v = "ok" /\ c[2] = "setContent")]
  BY Zenon DEF BrowserHandles
<1>2. page \in [enabled : BOOLEAN, noScripts : BOOLEAN, fetch : BOOLEAN, content : BOOLEAN,
                blank : BOOLEAN, loaded : BOOLEAN]
  BY Zenon DEF HtmlFlags
<1>3. /\ page'.noScripts <=> page.noScripts \/ (v = "ok" /\ c[2] = "noScripts")
      /\ page'.fetch <=> page.fetch \/ (v = "ok" /\ c[2] = "Fetch.enable")
      /\ page'.content <=> page.content \/ (v = "ok" /\ c[2] = "setContent")
  BY <1>1, <1>2
<1> HIDE DEF c
<1>4. Script' = Script
  BY <1>1 DEF Script
<1>5. (Content => Content') /\ (Fetching => Fetching') /\ (Content' => Content \/ c[2] = "setContent")
  BY <1>3, Zenon DEF Content, Fetching
<1>6. Scriptless => Scriptless'
  BY <1>1, <1>3, Zenon DEF Scriptless
<1>7. \A k : EffectAt(k) => EffectAt(k)'
  BY <1>3, <1>4, Zenon DEF EffectAt, Effect
<1>8. v = "ok" => \A k : c[2] = Script[k] => EffectAt(k)'
  BY <1>3, <1>4, Zenon DEF EffectAt, Effect
<1> QED BY <1>5, <1>6, <1>7, <1>8, Zenon DEF c

LEMMA HandleKeeps ==
  ASSUME HtmlInv, HtmlFlags, NEW v \in {"ok", "error"}, BrowserHandles(v)
  PROVE  HtmlInv'
<1> DEFINE c == Head(commands)
           ans == Message("answer", c[1], v)
<1>0. /\ HtmlShape /\ IdsFit /\ OneCall /\ CallsAnswered /\ FreshBrowser /\ ResultFits /\ Isolated
  BY DEF HtmlInv
<1>1. /\ commands # <<>> /\ commands' = Tail(commands) /\ stream' = Append(stream, ans)
      /\ UNCHANGED <<javascript, now, client, browser, next_id>>
  BY DEF BrowserHandles
<1>2. /\ Content => Content'
      /\ Fetching => Fetching'
      /\ Scriptless => Scriptless'
      /\ Content' => Content \/ c[2] = "setContent"
      /\ \A k : EffectAt(k) => EffectAt(k)'
      /\ v = "ok" => \A k : c[2] = Script[k] => EffectAt(k)'
  BY HandledPage
<1>3. Script' = Script
  BY <1>1 DEF Script
<1>4. /\ commands' \in Seq(Commands) /\ Len(commands') = Len(commands) - 1
      /\ \A i \in 1..Len(commands') : commands'[i] = commands[i + 1] /\ i + 1 \in 1..Len(commands)
      /\ c = commands[1] /\ 1 \in 1..Len(commands)
  BY <1>0, <1>1, DropsOne DEF HtmlShape
<1>5. c[1] \in 1..next_id /\ next_id \in Nat
  BY <1>0, <1>4 DEF IdsFit, HtmlShape
<1>6. ans \in Messages /\ ans.kind = "answer" /\ ans.id = c[1] /\ ans.value = v
  <2>1. c[1] \in Nat
    BY <1>5
  <2>2. v \in Values
    BY DEF Values
  <2> QED BY <2>1, <2>2 DEF Messages, Message
<1> HIDE DEF c, ans
<1>7. /\ stream' \in Seq(Messages)
      /\ \A i \in 1..Len(stream') :
           \/ i \in 1..Len(stream) /\ stream'[i] = stream[i]
           \/ stream'[i] = ans
  BY <1>0, <1>1, <1>6, AppendsOne DEF HtmlShape
<1>8. /\ open' \in [loading : SUBSET Resources, paused : SUBSET Resources, leaked : SUBSET Resources]
      /\ open'.leaked = open.leaked
      /\ open'.loading = open.loading \/ (v = "ok" /\ c[2] = "setContent")
  <2>1. open' = CASE v = "ok" /\ c[2] = "setContent" -> [open EXCEPT !.loading = Resources]
                  [] c[2] = "failRequest" -> [open EXCEPT !.paused = @ \ {c[3]}]
                  [] OTHER -> open
    BY Zenon DEF BrowserHandles, c
  <2>2. open \in [loading : SUBSET Resources, paused : SUBSET Resources, leaked : SUBSET Resources]
    BY <1>0 DEF HtmlShape
  <2>3. CASE v = "ok" /\ c[2] = "setContent"
    <3>1. open' = [open EXCEPT !.loading = Resources]
      BY <2>1, <2>3
    <3> QED BY <2>2, <2>3, <3>1
  <2>4. CASE ~(v = "ok" /\ c[2] = "setContent") /\ c[2] = "failRequest"
    <3>1. open' = [open EXCEPT !.paused = @ \ {c[3]}]
      BY <2>1, <2>4
    <3> QED BY <2>2, <3>1
  <2>5. CASE ~(v = "ok" /\ c[2] = "setContent") /\ c[2] # "failRequest"
    <3>1. open' = open
      BY <2>1, <2>5
    <3> QED BY <2>2, <3>1
  <2> QED BY <2>3, <2>4, <2>5
<1>9. HtmlShape'
  BY <1>0, <1>1, <1>3, <1>4, <1>7, <1>8 DEF HtmlShape
<1>10. IdsFit'
  <2>1. \A i \in 1..Len(commands') : commands'[i][1] \in 1..next_id'
    BY <1>0, <1>1, <1>4 DEF IdsFit
  <2>2. ASSUME NEW i \in 1..Len(commands'), NEW j \in 1..Len(commands'), commands'[i][1] = commands'[j][1]
        PROVE  i = j
    <3>1. i + 1 = j + 1
      BY <1>0, <1>4, <2>2 DEF IdsFit
    <3>2. i \in Nat /\ j \in Nat
      BY <1>4
    <3> QED BY <3>1, <3>2
  <2>3. ASSUME NEW i \in 1..Len(stream'), stream'[i].kind = "answer"
        PROVE  /\ stream'[i].id \in 1..next_id'
               /\ \A j \in 1..Len(commands') : commands'[j][1] # stream'[i].id
    <3>1. CASE i \in 1..Len(stream) /\ stream'[i] = stream[i]
      BY <1>0, <1>1, <1>4, <2>3, <3>1 DEF IdsFit
    <3>2. CASE stream'[i] = ans
      <4>1. ASSUME NEW j \in 1..Len(commands'), commands'[j][1] = c[1] PROVE FALSE
        <5>1. j + 1 = 1
          BY <1>0, <1>4, <4>1 DEF IdsFit
        <5>2. j \in Nat /\ j > 0
          BY <1>4
        <5> QED BY <5>1, <5>2
      <4> QED BY <1>1, <1>5, <1>6, <3>2, <4>1
    <3> QED BY <1>7, <3>1, <3>2
  <2> QED BY <2>1, <2>2, <2>3 DEF IdsFit
<1>11. OneCall'
  BY <1>0, <1>1, <1>3, <1>4 DEF OneCall
<1>12. CallsAnswered'
  <2>1. ASSUME client'.pc = "calling", NEW i \in 1..Len(stream'),
               stream'[i].kind = "answer", stream'[i].id = client'.waits, stream'[i].value = "ok",
               NEW k \in 1..Len(Script'), k = client'.cmd
        PROVE  EffectAt(k)'
    <3>1. CASE i \in 1..Len(stream) /\ stream'[i] = stream[i]
      <4>1. EffectAt(k)
        BY <1>0, <1>1, <1>3, <2>1, <3>1 DEF CallsAnswered
      <4> QED BY <1>2, <4>1
    <3>2. CASE stream'[i] = ans
      <4>1. c[1] = client.waits /\ v = "ok" /\ client.pc = "calling" /\ k = client.cmd
        BY <1>1, <1>6, <2>1, <3>2
      <4>2. c[2] = Script[k]
        BY <1>0, <1>4, <4>1 DEF OneCall
      <4> QED BY <1>2, <4>1, <4>2
    <3> QED BY <1>7, <3>1, <3>2
  <2>2. \A k \in 1..Len(Script') : k < client'.cmd => EffectAt(k)'
    BY <1>0, <1>1, <1>2, <1>3 DEF CallsAnswered
  <2> QED BY <1>0, <1>1, <1>3, <2>1, <2>2 DEF CallsAnswered
<1>13. FreshBrowser' /\ ResultFits'
  BY <1>0, <1>1, <1>2 DEF FreshBrowser, ResultFits
<1>14. c[2] = "setContent" => Fetching /\ Scriptless
  <2> SUFFICES ASSUME c[2] = "setContent" PROVE Fetching /\ Scriptless
    OBVIOUS
  <2>1. client.cmd \in 1..Len(Script) /\ Script[client.cmd] = "setContent"
    <3>1. c[2] \notin Aside
      BY DEF Aside
    <3>2. client.cmd \in 0..Len(Script) /\ Len(Script) \in Nat
      BY <1>0, ScriptFacts DEF HtmlShape, HtmlFlags
    <3> QED BY <1>0, <1>4, <3>1, <3>2 DEF OneCall
  <2>2. PICK f \in 1..Len(Script) : f < client.cmd /\ Script[f] = "Fetch.enable"
    BY <2>1, ScriptFacts DEF HtmlFlags
  <2>3. Fetching
    BY <1>0, <2>2 DEF CallsAnswered, EffectAt, Effect, Fetching
  <2>4. Scriptless
    <3>1. javascript \/ \E i \in 1..Len(Script) : i < client.cmd /\ Script[i] = "noScripts"
      BY <2>1, ScriptFacts, Zenon DEF HtmlFlags
    <3>2. CASE javascript
      BY <3>2, Zenon DEF Scriptless
    <3>3. ASSUME NEW i \in 1..Len(Script), i < client.cmd, Script[i] = "noScripts" PROVE Scriptless
      <4>1. EffectAt(i)
        BY <1>0, <3>3 DEF CallsAnswered
      <4>2. page.noScripts
        BY <3>3, <4>1, Zenon DEF EffectAt, Effect
      <4> QED BY <4>2, Zenon DEF Scriptless
    <3> QED BY <3>1, <3>2, <3>3
  <2> QED BY <2>3, <2>4
<1>15. Isolated'
  <2>1. Content' => Fetching' /\ Scriptless'
    BY <1>0, <1>2, <1>14 DEF Isolated
  <2>2. open'.loading # {} => Content'
    <3>1. v = "ok" /\ c[2] = "setContent" => Content'
      <4> SUFFICES ASSUME v = "ok", c[2] = "setContent" PROVE Content'
        BY Zenon
      <4>1. PICK k \in 1..Len(Script) : Script[k] = "setContent"
        BY ScriptFacts DEF HtmlFlags
      <4>2. EffectAt(k)'
        BY <1>2, <4>1
      <4> QED BY <1>3, <4>1, <4>2, Zenon DEF EffectAt, Effect, Content
    <3> QED BY <1>0, <1>2, <1>8, <3>1 DEF Isolated
  <2> QED BY <1>0, <1>8, <2>1, <2>2 DEF Isolated
<1> QED BY <1>9, <1>10, <1>11, <1>12, <1>13, <1>15 DEF HtmlInv

\* The page asks for its resources and loads.
LEMMA PageKeeps ==
  ASSUME HtmlInv, HtmlFlags, PageLoads \/ \E r \in Resources : PageRequests(r)
  PROVE  HtmlInv'
<1>0. /\ HtmlShape /\ IdsFit /\ OneCall /\ CallsAnswered /\ FreshBrowser /\ ResultFits /\ Isolated
  BY DEF HtmlInv
<1>1. UNCHANGED <<javascript, now, client, browser, commands, next_id>>
  BY DEF PageLoads, PageRequests
<1>2. /\ Script' = Script /\ (Content' <=> Content) /\ (Fetching' <=> Fetching)
      /\ (Scriptless' <=> Scriptless) /\ \A k : EffectAt(k)' <=> EffectAt(k)
  <2>1. Script' = Script
    BY <1>1 DEF Script
  <2>2. /\ page'.noScripts = page.noScripts /\ page'.fetch = page.fetch
        /\ page'.content = page.content
    <3>1. page \in [enabled : BOOLEAN, noScripts : BOOLEAN, fetch : BOOLEAN, content : BOOLEAN,
                    blank : BOOLEAN, loaded : BOOLEAN]
      BY Zenon DEF HtmlFlags
    <3>2. \/ page' = [page EXCEPT !.blank = TRUE]
          \/ page' = [page EXCEPT !.loaded = TRUE]
          \/ page' = page
      BY Zenon DEF PageLoads, PageRequests
    <3> QED BY <3>1, <3>2
  <2>3. javascript' = javascript
    BY <1>1
  <2> QED BY <2>1, <2>2, <2>3, Zenon DEF Content, Fetching, Scriptless, EffectAt, Effect
<1>3. /\ stream' \in Seq(Messages)
      /\ \A i \in 1..Len(stream') :
           \/ i \in 1..Len(stream) /\ stream'[i] = stream[i]
           \/ stream'[i].kind # "answer"
      /\ Len(stream) \in Nat
  <2>1. CASE stream' = stream
    BY <1>0, <2>1 DEF HtmlShape
  <2>2. ASSUME NEW kind \in {"paused", "load"}, NEW value \in Values,
               stream' = Append(stream, Message(kind, 0, value))
        PROVE  /\ stream' \in Seq(Messages)
               /\ \A i \in 1..Len(stream') :
                    \/ i \in 1..Len(stream) /\ stream'[i] = stream[i]
                    \/ stream'[i].kind # "answer"
               /\ Len(stream) \in Nat
    <3> DEFINE m == Message(kind, 0, value)
    <3>1. m \in Messages /\ m.kind # "answer" /\ stream \in Seq(Messages)
      BY <1>0 DEF Messages, Message, HtmlShape
    <3> HIDE DEF m
    <3>2. stream' = Append(stream, m)
      BY <2>2 DEF m
    <3> QED BY <3>1, <3>2, AppendsOne
  <2>3. CASE PageLoads
    <3>1. stream' = Append(stream, Message("load", 0, "")) /\ "" \in Values
      BY <2>3 DEF PageLoads, Values
    <3> QED BY <2>2, <3>1
  <2>4. ASSUME NEW r \in Resources, PageRequests(r)
        PROVE  /\ stream' \in Seq(Messages)
               /\ \A i \in 1..Len(stream') :
                    \/ i \in 1..Len(stream) /\ stream'[i] = stream[i]
                    \/ stream'[i].kind # "answer"
               /\ Len(stream) \in Nat
    <3>1. stream' = stream \/ stream' = Append(stream, Message("paused", 0, r))
      BY <2>4, Zenon DEF PageRequests
    <3>2. r \in Values
      BY DEF Values
    <3> QED BY <2>1, <2>2, <3>1, <3>2
  <2> QED BY <2>3, <2>4
<1>4. /\ open' \in [loading : SUBSET Resources, paused : SUBSET Resources, leaked : SUBSET Resources]
      /\ open'.leaked = {} /\ (open'.loading # {} => open.loading # {})
  <2>0. /\ open \in [loading : SUBSET Resources, paused : SUBSET Resources, leaked : SUBSET Resources]
        /\ open.leaked = {}
    BY <1>0 DEF HtmlShape, Isolated
  <2>1. CASE PageLoads
    <3>1. open' = open
      BY <2>1 DEF PageLoads
    <3> QED BY <2>0, <3>1
  <2>2. ASSUME NEW r \in Resources, PageRequests(r)
        PROVE  /\ open' \in [loading : SUBSET Resources, paused : SUBSET Resources,
                             leaked : SUBSET Resources]
               /\ open'.leaked = {} /\ (open'.loading # {} => open.loading # {})
    <3>1. r \in open.loading
      BY <2>2 DEF PageRequests
    <3>2. Fetching
      BY <1>0, <3>1 DEF Isolated
    <3>3. open' = [open EXCEPT !.loading = @ \ {r}, !.paused = @ \cup {r}]
      BY <2>2, <3>2, Zenon DEF PageRequests, Fetching
    <3> QED BY <2>0, <3>1, <3>3
  <2> QED BY <2>1, <2>2
<1>5. HtmlShape'
  BY <1>0, <1>1, <1>2, <1>3, <1>4 DEF HtmlShape
<1>6. IdsFit'
  BY <1>0, <1>1, <1>3 DEF IdsFit
<1>7. OneCall'
  BY <1>0, <1>1, <1>2 DEF OneCall
<1>8. CallsAnswered'
  <2>1. ASSUME client'.pc = "calling", NEW i \in 1..Len(stream'),
               stream'[i].kind = "answer", stream'[i].id = client'.waits, stream'[i].value = "ok",
               NEW k \in 1..Len(Script'), k = client'.cmd
        PROVE  EffectAt(k)'
    <3>1. i \in 1..Len(stream) /\ stream'[i] = stream[i]
      BY <1>3, <2>1
    <3>2. EffectAt(k)
      BY <1>0, <1>1, <1>2, <2>1, <3>1 DEF CallsAnswered
    <3> QED BY <1>2, <3>2
  <2>2. \A k \in 1..Len(Script') : k < client'.cmd => EffectAt(k)'
    BY <1>0, <1>1, <1>2 DEF CallsAnswered
  <2> QED BY <1>0, <1>1, <1>2, <2>1, <2>2 DEF CallsAnswered
<1>9. FreshBrowser' /\ ResultFits'
  BY <1>0, <1>1, <1>2 DEF FreshBrowser, ResultFits
<1>10. Isolated'
  BY <1>0, <1>2, <1>4 DEF Isolated
<1> QED BY <1>5, <1>6, <1>7, <1>8, <1>9, <1>10 DEF HtmlInv

-----------------------------------------------------------------------------
(* The Boolean state, and what is left behind.                             *)

LEMMA HtmlFlagsStep == ASSUME HtmlFlags, [HtmlNext]_htmlVars PROVE HtmlFlags'
<1> DEFINE Pages == [enabled : BOOLEAN, noScripts : BOOLEAN, fetch : BOOLEAN, content : BOOLEAN,
                     blank : BOOLEAN, loaded : BOOLEAN]
<1>0. page \in Pages /\ javascript \in BOOLEAN /\ profile \in BOOLEAN
  BY Zenon DEF HtmlFlags
<1>1. javascript' = javascript
  BY Zenon DEF HtmlNext, RenderSteps, Launch, CdpConnects, EndpointLate, FindsEndpoint, Reads,
     WaitEnds, CallTimesOut, ConnectionLost, Drops, FailsWith, Tick, BrowserStarts, BrowserDies,
     PageLoads, BrowserHandles, PageRequests, htmlVars
<1>2. profile' = profile \/ profile' = TRUE \/ profile' = FALSE
  BY Zenon DEF HtmlNext, RenderSteps, Launch, CdpConnects, EndpointLate, FindsEndpoint, Reads,
     WaitEnds, CallTimesOut, ConnectionLost, Drops, FailsWith, Tick, BrowserStarts, BrowserDies,
     PageLoads, BrowserHandles, PageRequests, htmlVars
<1>3. page' \in Pages
  <2>1. CASE \E ok \in BOOLEAN : Launch(ok)
    <3>1. page' = NoPage
      BY <2>1 DEF Launch
    <3> QED BY <3>1 DEF NoPage
  <2>2. CASE PageLoads
    <3>1. page' = [page EXCEPT !.blank = TRUE] \/ page' = [page EXCEPT !.loaded = TRUE]
      BY <2>2, Zenon DEF PageLoads
    <3> QED BY <1>0, <3>1
  <2>3. ASSUME NEW v \in {"ok", "error"}, BrowserHandles(v) PROVE page' \in Pages
    <3> DEFINE c == Head(commands)
    <3>1. page' = [page EXCEPT
              !.enabled   = @ \/ (v = "ok" /\ c[2] = "Page.enable"),
              !.noScripts = @ \/ (v = "ok" /\ c[2] = "noScripts"),
              !.fetch     = @ \/ (v = "ok" /\ c[2] = "Fetch.enable"),
              !.content   = @ \/ (v = "ok" /\ c[2] = "setContent")]
      BY <2>3, Zenon DEF BrowserHandles
    <3> HIDE DEF c
    <3> QED BY <1>0, <3>1
  <2>4. CASE page' = page
    BY <1>0, <2>4
  <2>5. \/ \E ok \in BOOLEAN : Launch(ok)
        \/ PageLoads \/ (\E v \in {"ok", "error"} : BrowserHandles(v)) \/ page' = page
    BY Zenon DEF HtmlNext, RenderSteps, CdpConnects, EndpointLate, FindsEndpoint, Reads,
       WaitEnds, CallTimesOut, ConnectionLost, Drops, FailsWith, Tick, BrowserStarts,
       BrowserDies, PageRequests, htmlVars
  <2> QED BY <2>1, <2>2, <2>3, <2>4, <2>5
<1> QED BY <1>0, <1>1, <1>2, <1>3, Zenon DEF HtmlFlags

\* A new pc is one of a renderer at work, unless the browser was dropped.
LEMMA NothingLeftStep == ASSUME HtmlShape, NothingLeft, [HtmlNext]_htmlVars PROVE NothingLeft'
<1>1. CASE Drops
  <2>1. browser' \in {"none", "dead"}
    BY <1>1 DEF Drops, Kill
  <2>2. ~profile'
    BY <1>1, Zenon DEF Drops
  <2> QED BY <2>1, <2>2 DEF NothingLeft
<1>2. CASE UNCHANGED <<client, profile>> /\ (client.pc \in {"launching", "returned"} /\ browser \in {"none", "dead"} => browser' \in {"none", "dead"})
  <2>1. (profile' <=> profile) /\ client'.pc = client.pc
    BY <1>2, Zenon
  <2> QED BY <1>2, <2>1 DEF NothingLeft
<1>3. CASE client'.pc \notin {"launching", "returned"}
  BY <1>3 DEF NothingLeft
<1>4. ASSUME NEW k, Calls(k) PROVE client'.pc \notin {"launching", "returned"}
  BY <1>4 DEF Calls, HtmlShape
<1>5. ASSUME NEW r, FailsWith(r) PROVE client'.pc \notin {"launching", "returned"}
  BY <1>5 DEF FailsWith, HtmlShape
<1>6. ASSUME NEW ok \in BOOLEAN, Launch(ok) PROVE client'.pc \notin {"launching", "returned"}
  <2>1. \/ \E by : client' = [client EXCEPT !.pc = "endpoint", !.cmd = 0, !.waits = 0, !.startBy = by]
        \/ client' = [client EXCEPT !.pc = "dropping", !.result = "unsupported", !.waits = 0]
    BY <1>6, Zenon DEF Launch
  <2> QED BY <2>1 DEF HtmlShape
<1>7. ASSUME NEW ok \in BOOLEAN, CdpConnects(ok) PROVE client'.pc \notin {"launching", "returned"}
  BY <1>4, <1>5, <1>7, Zenon DEF CdpConnects
<1>8. CASE EndpointLate \/ CallTimesOut \/ ConnectionLost \/ WaitEnds
  BY <1>3, <1>4, <1>5, <1>8, Zenon DEF EndpointLate, CallTimesOut, ConnectionLost, WaitEnds
<1>9. CASE FindsEndpoint
  <2>1. client'.pc = "connecting"
    BY <1>9 DEF FindsEndpoint, HtmlShape
  <2> QED BY <1>3, <2>1
<1>10. CASE Reads
  <2>1. client.pc \in {"calling", "waiting"}
    BY <1>10 DEF Reads
  <2>2. \/ Intercepts(Head(stream)) \/ Proceeds
        \/ client' = [client EXCEPT !.pc = "dropping", !.result = "render"]
        \/ client' = client \/ Calls(client.cmd + 1)
    BY <1>10, Zenon DEF Reads
  <2>3. CASE Proceeds
    <3>1. \/ client' = [client EXCEPT !.pc = "dropping", !.result = "pdf"]
          \/ client' = [client EXCEPT !.pc = "waiting", !.cmd = client.cmd + 1]
          \/ \E k : Calls(k)
      BY <2>3, Zenon DEF Proceeds
    <3>2. client'.pc \notin {"launching", "returned"}
      BY <1>4, <3>1 DEF HtmlShape
    <3> QED BY <1>3, <3>2
  <2>4. CASE client' = client \/ Intercepts(Head(stream))
    <3>1. client' = client
      BY <2>4 DEF Intercepts
    <3> QED BY <1>3, <2>1, <3>1
  <2>5. CASE client' = [client EXCEPT !.pc = "dropping", !.result = "render"]
    <3>1. client'.pc = "dropping"
      BY <2>5 DEF HtmlShape
    <3> QED BY <1>3, <3>1
  <2> QED BY <1>3, <1>4, <2>2, <2>3, <2>4, <2>5
<1>11. CASE Tick \/ BrowserStarts \/ BrowserDies \/ PageLoads
  BY <1>2, <1>11 DEF Tick, BrowserStarts, BrowserDies, PageLoads
<1>12. CASE \/ \E v \in {"ok", "error"} : BrowserHandles(v)
            \/ \E r \in Resources : PageRequests(r)
  BY <1>2, <1>12 DEF BrowserHandles, PageRequests
<1>13. CASE UNCHANGED htmlVars
  BY <1>2, <1>13 DEF htmlVars
<1> QED
  BY <1>1, <1>3, <1>6, <1>7, <1>8, <1>9, <1>10, <1>11, <1>12, <1>13 DEF HtmlNext, RenderSteps

-----------------------------------------------------------------------------
(* The theorems.                                                           *)

RenderInv == HtmlInv /\ HtmlFlags /\ NothingLeft

LEMMA HtmlInitInv == HtmlInit => RenderInv
<1> SUFFICES ASSUME HtmlInit PROVE RenderInv
  OBVIOUS
<1>1. /\ now = 0 /\ browser = "none" /\ page = NoPage /\ open = Nothing
      /\ client = [pc |-> "launching", attempt |-> 1, startBy |-> 0, cmd |-> 0,
                   waits |-> 0, result |-> "none"]
      /\ commands = <<>> /\ stream = <<>> /\ next_id = 0
  BY DEF HtmlInit
<1>2. HtmlFlags
  <2>1. page \in [enabled : BOOLEAN, noScripts : BOOLEAN, fetch : BOOLEAN, content : BOOLEAN,
                  blank : BOOLEAN, loaded : BOOLEAN]
    BY <1>1 DEF NoPage
  <2> QED BY <2>1, Zenon DEF HtmlInit, HtmlFlags
<1>3. Len(Script) \in Nat
  BY <1>2, ScriptFacts DEF HtmlFlags
<1>4. HtmlShape
  <2>1. open \in [loading : SUBSET Resources, paused : SUBSET Resources, leaked : SUBSET Resources]
    BY <1>1 DEF Nothing
  <2>2. client \in [pc : Pcs, attempt : 1..2, startBy : Nat, cmd : 0..Len(Script),
                    waits : 0..next_id, result : Results]
    BY <1>1, <1>3 DEF Pcs, Results
  <2> QED BY <1>1, <2>1, <2>2, HtmlAssumption DEF HtmlShape
<1>5. ~Content /\ open.loading = {} /\ open.leaked = {} /\ client.cmd = 0 /\ client.pc = "launching"
      /\ client.result = "none"
  BY <1>1 DEF Content, NoPage, Nothing
<1>6. IdsFit /\ OneCall
  BY <1>1 DEF IdsFit, OneCall
<1>7. CallsAnswered
  BY <1>5 DEF CallsAnswered
<1>8. FreshBrowser /\ ResultFits /\ Isolated
  BY <1>1, <1>5 DEF FreshBrowser, ResultFits, Isolated
<1>9. NothingLeft
  <2>1. ~profile
    BY Zenon DEF HtmlInit
  <2> QED BY <1>1, <2>1 DEF NothingLeft
<1> QED BY <1>2, <1>4, <1>6, <1>7, <1>8, <1>9 DEF RenderInv, HtmlInv

LEMMA HtmlStep == RenderInv /\ [HtmlNext]_htmlVars => RenderInv'
<1> SUFFICES ASSUME RenderInv, [HtmlNext]_htmlVars PROVE RenderInv'
  OBVIOUS
<1>0. HtmlInv /\ HtmlFlags /\ NothingLeft /\ HtmlShape /\ javascript \in BOOLEAN
  BY Zenon DEF RenderInv, HtmlInv, HtmlFlags
<1>1. HtmlFlags' /\ NothingLeft'
  BY <1>0, HtmlFlagsStep, NothingLeftStep
<1>2. ASSUME HtmlNext PROVE HtmlInv'
  <2>1. CASE \E ok \in BOOLEAN : Launch(ok) \/ CdpConnects(ok)
    <3>1. ASSUME NEW ok \in BOOLEAN, Launch(ok) PROVE HtmlInv'
      BY <1>0, <3>1, LaunchKeeps
    <3>2. CASE CdpConnects(TRUE)
      BY <1>0, <3>2, ConnectKeeps
    <3>3. CASE CdpConnects(FALSE)
      BY <1>0, <3>3, GivesUpKeeps
    <3> QED BY <2>1, <3>1, <3>2, <3>3, Zenon
  <2>2. CASE EndpointLate \/ CallTimesOut \/ ConnectionLost
    BY <1>0, <2>2, GivesUpKeeps
  <2>3. CASE FindsEndpoint \/ Drops
    BY <1>0, <2>3, TurnsKeep
  <2>4. CASE Reads
    BY <1>0, <2>4, ReadKeeps
  <2>5. CASE WaitEnds
    BY <1>0, <2>5, ConnectKeeps
  <2>6. CASE Tick \/ BrowserStarts \/ BrowserDies
    BY <1>0, <2>6, WorldKeeps
  <2>7. CASE PageLoads \/ \E r \in Resources : PageRequests(r)
    BY <1>0, <2>7, PageKeeps
  <2>8. CASE \E v \in {"ok", "error"} : BrowserHandles(v)
    BY <1>0, <2>8, HandleKeeps
  <2> QED
    BY <1>2, <2>1, <2>2, <2>3, <2>4, <2>5, <2>6, <2>7, <2>8, Zenon DEF HtmlNext, RenderSteps
<1>3. CASE UNCHANGED htmlVars
  <2>1. UNCHANGED <<javascript, now, client, browser, page, open, commands, stream, next_id>>
    BY <1>3 DEF htmlVars
  <2>2. Script' = Script
    BY <2>1 DEF Script
  <2>3. HtmlShape'
    BY <1>0, <2>1, <2>2 DEF HtmlShape
  <2>4. NoNews /\ Turns
    BY <1>0, <2>1, SameIsNoNews DEF Turns
  <2>5. HtmlInv'
    BY <1>0, <2>1, <2>3, <2>4, TurnKeeps
  <2> QED BY <1>1, <2>5 DEF RenderInv
<1> QED BY <1>1, <1>2, <1>3 DEF RenderInv

LEMMA RenderHolds == HtmlSpec => []RenderInv
BY HtmlInitInv, HtmlStep, PTL DEF HtmlSpec

\* Whatever the browser sends and in whichever order, for any deadline and any
\* resources: the document reaches the page only once requests are intercepted
\* and scripts are off, none of its requests gets out, a PDF that is returned was
\* made after the page had the document, and when render is not at work no
\* browser runs and no profile is left (cdp.rs, html/mod.rs).
THEOREM HtmlStaysContained == HtmlSpec => []HtmlIsContained
<1>1. RenderInv => HtmlIsContained
  <2> SUFFICES ASSUME RenderInv PROVE HtmlIsContained
    OBVIOUS
  <2>0. /\ HtmlShape /\ OneCall /\ ResultFits /\ Isolated /\ HtmlFlags /\ NothingLeft
        /\ profile \in BOOLEAN
    BY Zenon DEF RenderInv, HtmlInv, HtmlFlags
  <2>1. HtmlTypeOK
    BY <2>0 DEF HtmlShape, HtmlTypeOK, Pcs
  <2>2. DocumentIsIsolated
    BY <2>0, Zenon DEF Isolated, Content, Fetching, Scriptless, DocumentIsIsolated
  <2>3. PdfIsTheDocument
    <3> SUFFICES ASSUME client.result = "pdf"
                 PROVE  page.content /\ \A i \in DOMAIN commands : commands[i][2] # "printToPDF"
      BY Zenon DEF PdfIsTheDocument
    <3>1. page.content
      BY <2>0, Zenon DEF ResultFits, Content
    <3>2. DOMAIN commands = 1..Len(commands)
      BY <2>0 DEF HtmlShape
    <3>3. \A i \in 1..Len(commands) : commands[i][2] # "printToPDF"
      BY <2>0 DEF OneCall, Aside
    <3> QED BY <3>1, <3>2, <3>3, Zenon
  <2> QED BY <2>0, <2>1, <2>2, <2>3 DEF HtmlIsContained
<1> QED BY <1>1, RenderHolds, PTL

\* A second browser is started only if the first never had the document, and
\* not after the deadline (render in html/mod.rs).
THEOREM SecondBrowserIsSafe == HtmlSpec => RetryIsSafe
<1>1. RenderInv /\ [HtmlNext]_htmlVars =>
        [client'.attempt # client.attempt => ~page.content /\ now < Timeout]_htmlVars
  <2> SUFFICES ASSUME RenderInv, HtmlNext, client'.attempt # client.attempt
               PROVE  ~page.content /\ now < Timeout
    BY Zenon
  <2>0. HtmlShape /\ FreshBrowser
    BY DEF RenderInv, HtmlInv
  <2>1. ASSUME NEW k, Calls(k) PROVE client'.attempt = client.attempt
    BY <2>0, <2>1 DEF Calls, HtmlShape
  <2>2. ASSUME NEW r, FailsWith(r) PROVE client'.attempt = client.attempt
    BY <2>0, <2>2 DEF FailsWith, HtmlShape
  <2>3. ASSUME NEW ok \in BOOLEAN, Launch(ok) PROVE client'.attempt = client.attempt
    <3>1. \/ \E by : client' = [client EXCEPT !.pc = "endpoint", !.cmd = 0, !.waits = 0, !.startBy = by]
          \/ client' = [client EXCEPT !.pc = "dropping", !.result = "unsupported", !.waits = 0]
      BY <2>3, Zenon DEF Launch
    <3> QED BY <2>0, <3>1 DEF HtmlShape
  <2>4. ASSUME NEW ok \in BOOLEAN, CdpConnects(ok) PROVE client'.attempt = client.attempt
    BY <2>1, <2>2, <2>4, Zenon DEF CdpConnects
  <2>5. CASE EndpointLate \/ CallTimesOut \/ ConnectionLost \/ WaitEnds
    BY <2>1, <2>2, <2>5, Zenon DEF EndpointLate, CallTimesOut, ConnectionLost, WaitEnds
  <2>6. CASE FindsEndpoint
    BY <2>0, <2>6 DEF FindsEndpoint, HtmlShape
  <2>7. CASE Reads
    <3>1. \/ Intercepts(Head(stream)) \/ Proceeds
          \/ client' = [client EXCEPT !.pc = "dropping", !.result = "render"]
          \/ client' = client \/ Calls(client.cmd + 1)
      BY <2>7, Zenon DEF Reads
    <3>2. CASE Proceeds
      <4>1. \/ client' = [client EXCEPT !.pc = "dropping", !.result = "pdf"]
            \/ client' = [client EXCEPT !.pc = "waiting", !.cmd = client.cmd + 1]
            \/ \E k : Calls(k)
        BY <3>2, Zenon DEF Proceeds
      <4> QED BY <2>0, <2>1, <4>1 DEF HtmlShape
    <3>3. CASE Intercepts(Head(stream))
      BY <3>3 DEF Intercepts
    <3> QED BY <2>0, <2>1, <3>1, <3>2, <3>3 DEF HtmlShape
  <2>8. CASE Drops
    <3>1. Retries
      <4>1. CASE ~Retries
        BY <2>0, <2>8, <4>1 DEF Drops, HtmlShape
      <4> QED BY <4>1
    <3>2. client.result = "startup" /\ now < Timeout
      BY <3>1 DEF Retries
    <3>3. ~Content
      BY <2>0, <3>2 DEF FreshBrowser
    <3> QED BY <3>2, <3>3, Zenon DEF Content
  <2>9. CASE Tick \/ BrowserStarts \/ BrowserDies \/ PageLoads
    BY <2>9 DEF Tick, BrowserStarts, BrowserDies, PageLoads
  <2>10. CASE \/ \E v \in {"ok", "error"} : BrowserHandles(v)
              \/ \E r \in Resources : PageRequests(r)
    BY <2>10 DEF BrowserHandles, PageRequests
  <2> QED
    BY <2>3, <2>4, <2>5, <2>6, <2>7, <2>8, <2>9, <2>10, Zenon DEF HtmlNext, RenderSteps
<1> QED BY <1>1, RenderHolds, PTL DEF HtmlSpec, RetryIsSafe
-----------------------------------------------------------------------------
(* Handing a document to the Windows spooler.                              *)

\* The pages of a layout, the pieces of a page, the commands of a label.
Entries(pages) == {pages[i] : i \in 1..Len(pages)}
IsLayout(pages) ==
  /\ Len(pages) \in Nat /\ pages \in Seq(Entries(pages))
  /\ \A p \in Entries(pages) : Len(p) \in Nat /\ p \in Seq(Entries(p))

LEMMA LayoutsAreLaidOut ==
  ASSUME NEW d \in Documents, NEW v \in Devices
  PROVE IsLayout(PagesOf(d, v))
<1> DEFINE pages == PagesOf(d, v)
<1>1. /\ Len(pages) \in Nat /\ pages = [i \in 1..Len(pages) |-> pages[i]]
      /\ \A i \in 1..Len(pages) :
           Len(pages[i]) \in Nat /\ pages[i] = [k \in 1..Len(pages[i]) |-> pages[i][k]]
  BY LayoutAssumption
<1> HIDE DEF pages
<1>2. \A i \in 1..Len(pages) : pages[i] \in Entries(pages)
  BY DEF Entries
<1>3. pages \in Seq(Entries(pages))
  BY <1>1, <1>2
<1>4. ASSUME NEW p \in Entries(pages) PROVE Len(p) \in Nat /\ p \in Seq(Entries(p))
  <2>1. Len(p) \in Nat /\ p = [k \in 1..Len(p) |-> p[k]]
    BY <1>1 DEF Entries
  <2>2. \A k \in 1..Len(p) : p[k] \in Entries(p)
    BY DEF Entries
  <2> QED BY <2>1, <2>2
<1>5. IsLayout(pages)
  BY <1>1, <1>3, <1>4 DEF IsLayout
<1> QED BY <1>5 DEF pages

\* The copies follow one another.
LEMMA ModOfCopies ==
  ASSUME NEW k \in Nat, NEW L \in Nat, NEW i \in 0..(L - 1)
  PROVE (k * L + i) % L = i
OBVIOUS

\* A nonempty set of places has a first one.
LEMMA FirstPlace ==
  ASSUME NEW n \in Nat, NEW I, I \subseteq 1..n, I # {}
  PROVE Min(I) \in I
<1> DEFINE R == OpToRel(<, Nat)
<1>1. R = {ss \in Nat \X Nat : ss[1] < ss[2]}
  BY Zenon DEF OpToRel
<1>2. IsWellFoundedOn(R, Nat)
  BY NatLessThanWellFounded, Zenon
<1> HIDE DEF R
<1>3. PICK x \in I : \A y \in I : ~(<<y, x>> \in R)
  <2>1. I \subseteq Nat
    OBVIOUS
  <2> QED BY <1>2, <2>1, WFMin
<1>4. ASSUME NEW y \in I PROVE x <= y
  <2> SUFFICES ASSUME y < x PROVE FALSE
    OBVIOUS
  <2>1. PICK ss : ss = <<y, x>>
    OBVIOUS
  <2>2. ss \in Nat \X Nat /\ ss[1] = y /\ ss[2] = x
    BY <2>1
  <2>3. ss \in R
    BY <2>2, <1>1
  <2> QED BY <2>1, <2>3, <1>3
<1> QED BY <1>4 DEF Min

\* The paper a request settles on is one it names or fits, or the size it asks
\* for (resolve_paper).
PaperFits(request, papers, paperId) ==
  /\ request.how = "named" =>
       \E p \in ToSet(papers) : <<p.id>> = paperId /\ request.name \in {p.id, p.name, p.first}
  /\ request.how = "custom" =>
       \/ paperId = <<request.w, request.h>>
       \/ \E p \in ToSet(papers) : /\ <<p.id>> = paperId
                                   /\ p.w - request.w \in -1..1 /\ p.h - request.h \in -1..1

LEMMA ResolvedPaperFits ==
  ASSUME NEW request, NEW papers, Len(papers) \in Nat, DOMAIN papers = 1..Len(papers),
         resolve_paper(request, papers).ok
  PROVE PaperFits(request, papers, resolve_paper(request, papers).paper)
<1> DEFINE Exact == {i \in 1..Len(papers) : request.name \in {papers[i].id, papers[i].name}}
           Word == {i \in 1..Len(papers) : request.name = papers[i].first}
           Near == {i \in 1..Len(papers) : /\ papers[i].w - request.w \in -1..1
                                           /\ papers[i].h - request.h \in -1..1}
           Place(I) == IF I # {} THEN Min(I) ELSE 0
           native(k) == [ok |-> TRUE, paper |-> <<papers[k].id>>]
<1>1. ASSUME NEW I, I \subseteq 1..Len(papers), Place(I) # 0
      PROVE Place(I) \in I
  BY <1>1, FirstPlace
<1>2. ASSUME NEW i \in 1..Len(papers) PROVE papers[i] \in ToSet(papers)
  BY DEF ToSet
<1>3. resolve_paper(request, papers) =
        CASE request.how = "default" -> [ok |-> TRUE, paper |-> <<>>]
          [] request.how = "named" ->
               IF Place(Exact) # 0 THEN native(Place(Exact))
               ELSE IF Place(Word) # 0 THEN native(Place(Word)) ELSE Refused
          [] request.how = "custom" ->
               IF Place(Near) # 0 THEN native(Place(Near))
               ELSE [ok |-> TRUE, paper |-> <<request.w, request.h>>]
  BY Zenon DEF resolve_paper, SelectInSeq
<1> HIDE DEF Place
<1>4. CASE request.how = "named"
  <2>1. resolve_paper(request, papers) =
          IF Place(Exact) # 0 THEN native(Place(Exact))
          ELSE IF Place(Word) # 0 THEN native(Place(Word)) ELSE Refused
    BY <1>3, <1>4
  <2>2. CASE Place(Exact) # 0
    <3>1. Place(Exact) \in Exact
      BY <1>1, <2>2
    <3>2. resolve_paper(request, papers).paper = <<papers[Place(Exact)].id>>
      BY <2>1, <2>2
    <3> QED BY <3>1, <3>2, <1>2, <1>4 DEF PaperFits
  <2>3. CASE Place(Exact) = 0
    <3>1. Place(Word) # 0
      <4>1. ~Refused.ok
        BY Zenon DEF Refused
      <4>2. Place(Word) = 0 => resolve_paper(request, papers) = Refused
        BY <2>1, <2>3, Zenon
      <4> QED BY <4>1, <4>2, Zenon
    <3>2. Place(Word) \in Word
      BY <1>1, <3>1
    <3>3. resolve_paper(request, papers).paper = <<papers[Place(Word)].id>>
      BY <2>1, <2>3, <3>1
    <3> QED BY <3>2, <3>3, <1>2, <1>4 DEF PaperFits
  <2> QED BY <2>2, <2>3
<1>5. CASE request.how = "custom"
  <2>1. resolve_paper(request, papers) =
          IF Place(Near) # 0 THEN native(Place(Near))
          ELSE [ok |-> TRUE, paper |-> <<request.w, request.h>>]
    BY <1>3, <1>5
  <2>2. CASE Place(Near) # 0
    <3>1. Place(Near) \in Near
      BY <1>1, <2>2
    <3>2. resolve_paper(request, papers).paper = <<papers[Place(Near)].id>>
      BY <2>1, <2>2
    <3> QED BY <3>1, <3>2, <1>2, <1>5 DEF PaperFits
  <2>3. CASE Place(Near) = 0
    BY <2>1, <2>3, <1>5 DEF PaperFits
  <2> QED BY <2>2, <2>3
<1>6. CASE request.how \notin {"named", "custom"}
  BY <1>6 DEF PaperFits
<1> QED BY <1>4, <1>5, <1>6

\* Settings that are accepted are the ones asked for (devmode::build).
LEMMA BuiltAsAsked ==
  ASSUME NEW s, NEW caps, Len(caps.papers) \in Nat, DOMAIN caps.papers = 1..Len(caps.papers),
         build(s, caps).ok
  PROVE LET b == build(s, caps) IN
        /\ PaperFits(s.paper, caps.papers, b.paper)
        /\ s.duplex \in {"LongEdge", "ShortEdge"} => caps.duplex # "no"
        /\ s.color = "Color" => caps.color # "no"
        /\ <<s.duplex, s.color, s.tray>> = <<b.duplex, b.color, b.tray>>
<1> DEFINE r == resolve_paper(s.paper, caps.papers)
           no == \/ ~r.ok
                 \/ s.duplex \notin {"default", "Simplex"} /\ caps.duplex = "no"
                 \/ s.color = "Color" /\ caps.color = "no"
                 \/ s.tray \notin caps.trays \cup {"default"}
           yes == [ok |-> TRUE, paper |-> r.paper, duplex |-> s.duplex,
                   color |-> s.color, tray |-> s.tray]
<1>1. build(s, caps) = IF no THEN Refused ELSE yes
  BY Zenon DEF build
<1>2. ASSUME no PROVE FALSE
  <2>1. build(s, caps) = Refused
    BY <1>1, <1>2, Zenon
  <2>2. ~Refused.ok
    BY Zenon DEF Refused
  <2> QED BY <2>1, <2>2, Zenon
<1>3. build(s, caps) = yes
  BY <1>1, <1>2, Zenon
<1>4. r.ok
  BY <1>2
<1>5. PaperFits(s.paper, caps.papers, r.paper)
  BY <1>4, ResolvedPaperFits
<1> HIDE DEF r
<1> QED BY <1>2, <1>3, <1>5

-----------------------------------------------------------------------------

SubmitKinds ==
  /\ doc \in Documents /\ printer \in Devices
  /\ stage \in {"opening", "between", "writing", "returned"}
  /\ answer \in [ok : BOOLEAN, recoverable : BOOLEAN]

\* There is a plan, with the settings asked for, once the spool job is there.
SubmitPlan ==
  /\ plan = <<>> \/ /\ plan = PagesOf(doc, printer)
                    /\ devmode = DevmodeOf(doc, printer.caps) /\ devmode.ok
  /\ stage \in {"between", "writing"} => plan # <<>>
  /\ stage = "opening" => plan = <<>>
  /\ plan = <<>> => finished = 0 /\ spool = <<>> /\ paper = <<>>
  /\ stage # "returned" => answer = NoAnswer

\* The open page holds the beginning of the page the plan has at this place,
\* and the spool job the pages before it.
PlannedPage(i) == plan[(i % Len(plan)) + 1]
SpoolIsPlanned ==
  /\ spool \in Seq(Entries(plan)) /\ Len(spool) = finished
  /\ \A i \in 1..finished : spool[i] = PlannedPage(i - 1)
SubmitWritten ==
  /\ finished \in 0..AllPages
  /\ Len(spool) \in {0, finished}
  /\ stage = "writing" =>
       /\ finished < AllPages
       /\ Len(current) \in 0..Len(NextPage) /\ current = SubSeq(NextPage, 1, Len(current))
  /\ stage \in {"between", "writing"} \/ answer.ok => SpoolIsPlanned

SubmitPrinted ==
  /\ ~printer.direct /\ ~answer.ok => paper = <<>>
  /\ answer.ok => plan # <<>> /\ paper = spool /\ finished = AllPages

SubmitInv == SubmitKinds /\ SubmitPlan /\ SubmitWritten /\ SubmitPrinted

LEMMA SubmitInvInit == ASSUME SubmitInit PROVE SubmitInv
<1>0. NoAnswer \in [ok : BOOLEAN, recoverable : BOOLEAN] /\ ~NoAnswer.ok
  BY Zenon DEF NoAnswer
<1>1. SubmitKinds
  BY <1>0 DEF SubmitInit, SubmitKinds
<1>2. SubmitPlan
  BY DEF SubmitInit, SubmitPlan
<1>3. SubmitWritten
  <2>1. Len(<<>>) = 0
    OBVIOUS
  <2>2. doc.copies \in Nat
    BY SubmitAssumption DEF SubmitInit
  <2> QED BY <1>0, <2>1, <2>2 DEF SubmitInit, SubmitWritten, AllPages
<1>4. SubmitPrinted
  BY <1>0 DEF SubmitInit, SubmitPrinted
<1> QED BY <1>1, <1>2, <1>3, <1>4 DEF SubmitInv

\* A page that is written in parts holds its beginning.
LEMMA BeginningGrows ==
  ASSUME NEW S, NEW p \in Seq(S), NEW m \in 0..Len(p), NEW n \in 1..(Len(p) - m)
  PROVE /\ SubSeq(p, 1, m) \o SubSeq(p, m + 1, m + n) = SubSeq(p, 1, m + n)
        /\ Len(SubSeq(p, 1, m + n)) = m + n
<1> DEFINE a == SubSeq(p, 1, m)
           b == SubSeq(p, m + 1, m + n)
           c == SubSeq(p, 1, m + n)
<1>0. Len(p) \in Nat /\ \A i \in 1..Len(p) : p[i] \in S
  BY LenProperties, ElementOfSeq
<1>1. a \in Seq(S) /\ Len(a) = m /\ \A i \in 1..m : a[i] = p[i]
  <2>1. \A i \in 1..m : p[i] \in S
    BY <1>0
  <2>2. /\ a \in Seq(S) /\ Len(a) = (IF 1 <= m THEN m - 1 + 1 ELSE 0)
        /\ \A i \in 1..(m - 1 + 1) : a[i] = p[1 + i - 1]
    BY <2>1, SubSeqProperties
  <2> QED BY <2>2
<1>2. b \in Seq(S) /\ Len(b) = n /\ \A i \in 1..n : b[i] = p[m + i]
  <2>1. \A i \in (m + 1)..(m + n) : p[i] \in S
    BY <1>0
  <2>2. /\ b \in Seq(S) /\ Len(b) = (IF m + 1 <= m + n THEN m + n - (m + 1) + 1 ELSE 0)
        /\ \A i \in 1..(m + n - (m + 1) + 1) : b[i] = p[m + 1 + i - 1]
    BY <1>0, <2>1, SubSeqProperties
  <2> HIDE DEF b
  <2> QED BY <1>0, <2>2
<1>3. c \in Seq(S) /\ Len(c) = m + n /\ \A i \in 1..(m + n) : c[i] = p[i]
  <2>1. \A i \in 1..(m + n) : p[i] \in S
    BY <1>0
  <2>2. /\ c \in Seq(S) /\ Len(c) = (IF 1 <= m + n THEN m + n - 1 + 1 ELSE 0)
        /\ \A i \in 1..(m + n - 1 + 1) : c[i] = p[1 + i - 1]
    BY <1>0, <2>1, SubSeqProperties
  <2> HIDE DEF c
  <2> QED BY <1>0, <2>2
<1> HIDE DEF a, b, c
<1>4. /\ a \o b \in Seq(S) /\ Len(a \o b) = m + n
      /\ \A i \in 1..(m + n) : (a \o b)[i] = IF i <= m THEN a[i] ELSE b[i - m]
  BY <1>1, <1>2, ConcatProperties
<1>5. PICK d : d = a \o b
  OBVIOUS
<1>6. /\ d \in Seq(S) /\ Len(d) = m + n
      /\ \A i \in 1..(m + n) : d[i] = IF i <= m THEN a[i] ELSE b[i - m]
  BY <1>4, <1>5
<1>7. ASSUME NEW i \in 1..(m + n) PROVE d[i] = c[i]
  <2>1. CASE i <= m
    <3>1. i \in 1..m
      BY <1>0, <2>1
    <3>2. a[i] = p[i] /\ d[i] = a[i] /\ c[i] = p[i]
      BY <1>1, <1>3, <1>6, <2>1, <3>1
    <3> QED BY <3>2
  <2>2. CASE i > m
    <3>1. i - m \in 1..n /\ m + (i - m) = i
      BY <1>0, <2>2
    <3>2. b[i - m] = p[i]
      BY <1>2, <3>1
    <3> QED BY <1>0, <1>3, <1>6, <2>2, <3>2
  <2> QED BY <1>0, <2>1, <2>2
<1>8. d = c
  BY <1>3, <1>6, <1>7, SeqEqual
<1> QED BY <1>3, <1>5, <1>8 DEF a, b, c

\* The plan is a layout that has a page for every place.
LEMMA PlanFacts ==
  ASSUME SubmitInv, plan # <<>>
  PROVE /\ IsLayout(plan) /\ Len(plan) \in Nat \ {0} /\ AllPages \in Nat
        /\ \A i \in Nat : PlannedPage(i) \in Entries(plan)
<1>1. IsLayout(plan)
  BY LayoutsAreLaidOut DEF SubmitInv, SubmitKinds, SubmitPlan
<1>2. Len(plan) \in Nat \ {0}
  BY <1>1, EmptySeq DEF IsLayout
<1>3. AllPages \in Nat
  <2>1. doc.copies \in Nat
    BY SubmitAssumption DEF SubmitInv, SubmitKinds
  <2> QED BY <1>2, <2>1 DEF AllPages
<1>4. ASSUME NEW i \in Nat PROVE PlannedPage(i) \in Entries(plan)
  <2>1. (i % Len(plan)) + 1 \in 1..Len(plan)
    BY <1>2
  <2> QED BY <2>1 DEF PlannedPage, Entries
<1> QED BY <1>1, <1>2, <1>3, <1>4

\* A return that is not a success leaves the plan and the counters alone.
LEMMA ReturnsErrorKeeps ==
  ASSUME SubmitInv, ~answer.ok, NEW rpc \in BOOLEAN,
         UNCHANGED <<doc, printer, devmode, plan, finished, current>>,
         Returns(Error(rpc)) \/ Returns(NoAnswer),
         spool' \in {spool, <<>>},
         paper' = paper \/ (printer.direct /\ plan # <<>>)
  PROVE SubmitInv'
<1>1. answer' \in [ok : BOOLEAN, recoverable : BOOLEAN] /\ ~answer'.ok /\ stage' = "returned"
  <2>1. PICK b \in BOOLEAN : answer' = [ok |-> FALSE, recoverable |-> b] /\ stage' = "returned"
    <3>1. NoAnswer = [ok |-> FALSE, recoverable |-> FALSE]
      BY DEF NoAnswer
    <3>2. \E b \in BOOLEAN : Error(rpc) = [ok |-> FALSE, recoverable |-> b]
      BY Zenon DEF Error
    <3> QED BY <3>1, <3>2 DEF Returns
  <2> QED BY <2>1, Zenon
<1>2. SubmitKinds'
  BY <1>1 DEF SubmitInv, SubmitKinds
<1>3. SubmitPlan'
  BY <1>1 DEF SubmitInv, SubmitPlan
<1>4. SubmitWritten'
  <2>1. AllPages' = AllPages
    BY DEF AllPages
  <2>2. Len(<<>>) = 0
    OBVIOUS
  <2> QED BY <1>1, <2>1, <2>2 DEF SubmitInv, SubmitWritten
<1>5. SubmitPrinted'
  BY <1>1 DEF SubmitInv, SubmitPrinted
<1> QED BY <1>2, <1>3, <1>4, <1>5 DEF SubmitInv

LEMMA SubmitInvNext ==
  ASSUME SubmitInv, [SubmitNext]_submitVars
  PROVE SubmitInv'
<1> USE DEF SubmitInv
<1>0. NoAnswer \in [ok : BOOLEAN, recoverable : BOOLEAN] /\ ~NoAnswer.ok
  BY Zenon DEF NoAnswer
<1>1. stage # "returned" => ~answer.ok
  BY <1>0 DEF SubmitPlan
<1>2. CASE Rejects
  BY <1>2, <1>1, ReturnsErrorKeeps, Zenon DEF Rejects
<1>3. CASE \E rpc \in BOOLEAN : OpenFails(rpc)
  <2>1. PICK rpc \in BOOLEAN : OpenFails(rpc)
    BY <1>3
  <2> QED BY <2>1, <1>1, ReturnsErrorKeeps, Zenon DEF OpenFails
<1>4. CASE \E rpc \in BOOLEAN : Fails(rpc)
  <2>1. PICK rpc \in BOOLEAN : Fails(rpc)
    BY <1>4
  <2>2. /\ stage # "returned" /\ plan # <<>> /\ Returns(Error(rpc)) /\ spool' = <<>>
        /\ UNCHANGED <<doc, printer, devmode, plan, finished, current>>
    BY <2>1, Zenon DEF Fails, SubmitPlan
  <2>3. paper' = paper \/ printer.direct
    BY <2>1, Zenon DEF Fails
  <2> QED BY <2>2, <2>3, <1>1, ReturnsErrorKeeps
<1>5. CASE StartDoc
  <2>1. /\ stage' = "between" /\ plan' = PagesOf(doc, printer) /\ plan' # <<>>
        /\ devmode' = DevmodeOf(doc, printer.caps) /\ devmode'.ok
        /\ UNCHANGED <<doc, printer, finished, current, spool, paper, answer>>
        /\ stage = "opening"
    BY <1>5, Zenon DEF StartDoc
  <2>2. finished = 0 /\ spool = <<>> /\ paper = <<>> /\ answer = NoAnswer
    BY <2>1 DEF SubmitPlan
  <2>3. SubmitKinds'
    BY <2>1 DEF SubmitKinds
  <2>4. SubmitPlan'
    BY <2>1, <2>2 DEF SubmitPlan
  <2>5. SubmitWritten'
    <3>1. IsLayout(plan')
      BY <2>1, LayoutsAreLaidOut DEF SubmitKinds
    <3>2. AllPages' \in Nat
      <4>1. doc.copies \in Nat
        BY SubmitAssumption DEF SubmitKinds
      <4> QED BY <4>1, <3>1, <2>1 DEF AllPages, IsLayout
    <3>3. spool' \in Seq(Entries(plan')) /\ Len(spool') = 0 /\ finished' = 0
      BY <2>1, <2>2, EmptySeq
    <3>4. SpoolIsPlanned'
      BY <3>3 DEF SpoolIsPlanned
    <3> QED BY <3>2, <3>3, <3>4, <2>1 DEF SubmitWritten
  <2>6. SubmitPrinted'
    BY <2>1, <2>2, <1>0 DEF SubmitPrinted
  <2> QED BY <2>3, <2>4, <2>5, <2>6
<1>6. CASE StartPage
  <2>1. /\ stage = "between" /\ stage' = "writing" /\ finished < AllPages /\ current' = <<>>
        /\ UNCHANGED <<doc, printer, devmode, plan, finished, spool, paper, answer>>
    BY <1>6 DEF StartPage
  <2>2. SubmitKinds' /\ SubmitPlan' /\ SubmitPrinted'
    BY <2>1 DEF SubmitKinds, SubmitPlan, SubmitPrinted, AllPages
  <2>3. AllPages' = AllPages /\ NextPage' = NextPage /\ (SpoolIsPlanned <=> SpoolIsPlanned')
    BY <2>1 DEF AllPages, NextPage, SpoolIsPlanned, PlannedPage
  <2>4. Len(NextPage) \in Nat
    <3>1. plan # <<>> /\ finished \in Nat
      BY <2>1 DEF SubmitPlan, SubmitWritten
    <3> QED BY <3>1, PlanFacts DEF IsLayout, NextPage, PlannedPage
  <2>5. SubSeq(NextPage, 1, 0) = <<>> /\ Len(<<>>) = 0
    BY SubSeqEmpty
  <2>6. SubmitWritten'
    BY <2>1, <2>3, <2>4, <2>5 DEF SubmitWritten
  <2> QED BY <2>2, <2>6
<1>7. CASE \E n \in 1..Chunk : Writes(n)
  <2>1. PICK n \in 1..Chunk : Writes(n)
    BY <1>7
  <2>2. /\ stage = "writing" /\ n \in 1..(Len(NextPage) - Len(current))
        /\ current' = current \o SubSeq(NextPage, Len(current) + 1, Len(current) + n)
        /\ UNCHANGED <<doc, printer, stage, devmode, plan, finished, spool, paper, answer>>
    BY <2>1 DEF Writes
  <2>3. SubmitKinds' /\ SubmitPlan' /\ SubmitPrinted'
    BY <2>2 DEF SubmitKinds, SubmitPlan, SubmitPrinted, AllPages
  <2>4. AllPages' = AllPages /\ NextPage' = NextPage /\ (SpoolIsPlanned <=> SpoolIsPlanned')
    BY <2>2 DEF AllPages, NextPage, SpoolIsPlanned, PlannedPage
  <2>5. NextPage \in Seq(Entries(NextPage)) /\ Len(NextPage) \in Nat
    <3>1. plan # <<>> /\ finished \in Nat
      BY <2>2 DEF SubmitPlan, SubmitWritten
    <3> QED BY <3>1, PlanFacts DEF IsLayout, NextPage, PlannedPage
  <2>6. Len(current) \in 0..Len(NextPage) /\ current = SubSeq(NextPage, 1, Len(current))
    BY <2>2 DEF SubmitWritten
  <2>7. /\ current' = SubSeq(NextPage, 1, Len(current) + n)
        /\ Len(SubSeq(NextPage, 1, Len(current) + n)) = Len(current) + n
    BY <2>2, <2>5, <2>6, BeginningGrows
  <2>8. Len(current') \in 0..Len(NextPage) /\ current' = SubSeq(NextPage, 1, Len(current'))
    <3>1. Len(current') = Len(current) + n
      BY <2>7
    <3> QED BY <2>2, <2>5, <2>6, <2>7, <3>1
  <2>9. SubmitWritten'
    BY <2>2, <2>4, <2>8 DEF SubmitWritten
  <2> QED BY <2>3, <2>9
<1>8. CASE EndPage
  <2>1. /\ stage = "writing" /\ Len(current) = Len(NextPage)
        /\ stage' = "between" /\ finished' = finished + 1 /\ spool' = Append(spool, current)
        /\ paper' = IF printer.direct THEN Append(paper, current) ELSE paper
        /\ UNCHANGED <<doc, printer, devmode, plan, current, answer>>
    BY <1>8 DEF EndPage
  <2>2. plan # <<>> /\ answer = NoAnswer
    BY <2>1 DEF SubmitPlan
  <2>3. /\ IsLayout(plan) /\ Len(plan) \in Nat \ {0} /\ AllPages \in Nat
        /\ \A i \in Nat : PlannedPage(i) \in Entries(plan)
    BY <2>2, PlanFacts
  <2>4. finished \in Nat /\ finished < AllPages /\ SpoolIsPlanned
    BY <2>1, <2>3 DEF SubmitWritten
  <2>5. NextPage = PlannedPage(finished) /\ NextPage \in Entries(plan)
    BY <2>3, <2>4 DEF NextPage, PlannedPage
  <2>6. current = NextPage
    <3>1. NextPage \in Seq(Entries(NextPage))
      BY <2>3, <2>5 DEF IsLayout
    <3> QED BY <2>1, <3>1, SubSeqFull DEF SubmitWritten
  <2>7. SubmitKinds' /\ SubmitPlan'
    BY <2>1, <2>2 DEF SubmitKinds, SubmitPlan
  <2>8. SpoolIsPlanned'
    <3>1. /\ spool' \in Seq(Entries(plan)) /\ Len(spool') = finished + 1
          /\ \A i \in 1..finished : spool'[i] = spool[i]
          /\ spool'[finished + 1] = NextPage
      BY <2>1, <2>4, <2>5, <2>6, AppendProperties DEF SpoolIsPlanned
    <3>2. ASSUME NEW i \in 1..(finished + 1) PROVE spool'[i] = PlannedPage(i - 1)
      <4>1. CASE i = finished + 1
        <5>1. i - 1 = finished
          BY <4>1, <2>4
        <5> QED BY <4>1, <3>1, <2>5, <5>1
      <4>2. CASE i \in 1..finished
        BY <4>2, <3>1, <2>4 DEF SpoolIsPlanned
      <4> QED BY <4>1, <4>2, <2>4
    <3>3. \A i : PlannedPage(i)' = PlannedPage(i)
      BY <2>1 DEF PlannedPage
    <3> QED BY <3>1, <3>2, <3>3, <2>1 DEF SpoolIsPlanned, PlannedPage
  <2>9. SubmitWritten'
    <3>1. AllPages' = AllPages
      BY <2>1 DEF AllPages
    <3>2. Len(spool') = finished'
      BY <2>8 DEF SpoolIsPlanned
    <3> QED BY <2>1, <2>3, <2>4, <2>8, <3>1, <3>2 DEF SubmitWritten
  <2>10. SubmitPrinted'
    <3>1. ~printer.direct => paper' = paper
      BY <2>1
    <3> QED BY <2>1, <2>2, <3>1, <1>0 DEF SubmitPrinted
  <2> QED BY <2>7, <2>9, <2>10
<1>9. CASE EndDoc
  <2>1. /\ stage = "between" /\ finished = AllPages /\ stage' = "returned"
        /\ answer' = [ok |-> TRUE, recoverable |-> FALSE] /\ paper' = spool
        /\ UNCHANGED <<doc, printer, devmode, plan, finished, current, spool>>
    BY <1>9 DEF EndDoc, Returns
  <2>2. answer' \in [ok : BOOLEAN, recoverable : BOOLEAN] /\ answer'.ok
    BY <2>1, Zenon
  <2>3. plan # <<>> /\ SpoolIsPlanned
    BY <2>1 DEF SubmitPlan, SubmitWritten
  <2>4. SubmitKinds' /\ SubmitPlan'
    BY <2>1, <2>2, <2>3 DEF SubmitKinds, SubmitPlan
  <2>5. AllPages' = AllPages /\ SpoolIsPlanned'
    BY <2>1, <2>3 DEF AllPages, SpoolIsPlanned, PlannedPage
  <2>6. SubmitWritten'
    BY <2>1, <2>5 DEF SubmitWritten
  <2>7. SubmitPrinted'
    BY <2>1, <2>2, <2>3, <2>5 DEF SubmitPrinted
  <2> QED BY <2>4, <2>6, <2>7
<1>10. CASE UNCHANGED submitVars
  BY <1>10 DEF submitVars, SubmitKinds, SubmitPlan, SubmitWritten, SubmitPrinted, SpoolIsPlanned,
     PlannedPage, AllPages, NextPage
<1> QED BY <1>2, <1>3, <1>4, <1>5, <1>6, <1>7, <1>8, <1>9, <1>10 DEF SubmitNext

\* What was accepted is on paper whole, copy after copy.
LEMMA AcceptedIsComplete == ASSUME SubmitInv PROVE CopiesAreComplete
<1> SUFFICES ASSUME answer.ok
             PROVE /\ Len(paper) = doc.copies * Len(PagesOf(doc, printer))
                   /\ \A k \in 1..doc.copies : Copy(k) = PagesOf(doc, printer)
  BY DEF CopiesAreComplete
<1>1. plan # <<>> /\ plan = PagesOf(doc, printer) /\ paper = spool /\ finished = AllPages
  BY DEF SubmitInv, SubmitPrinted, SubmitPlan
<1>2. /\ IsLayout(plan) /\ Len(plan) \in Nat \ {0} /\ AllPages \in Nat
      /\ \A i \in Nat : PlannedPage(i) \in Entries(plan)
  BY <1>1, PlanFacts
<1>3. SpoolIsPlanned
  BY DEF SubmitInv, SubmitWritten
<1>4. /\ paper \in Seq(Entries(plan)) /\ Len(paper) = AllPages
      /\ \A i \in 1..AllPages : paper[i] = PlannedPage(i - 1)
  BY <1>1, <1>3 DEF SpoolIsPlanned
<1>5. doc.copies \in Nat
  BY SubmitAssumption DEF SubmitInv, SubmitKinds
<1>6. ASSUME NEW k \in 1..doc.copies PROVE Copy(k) = plan
  <2> DEFINE L == Len(plan)
             from == (k - 1) * L + 1
             to == k * L
  <2>1. /\ from \in Int /\ to \in Int /\ to - from + 1 = L /\ from <= to
        /\ from >= 1 /\ to <= AllPages
    <3>1. k \in Nat \ {0} /\ k <= doc.copies /\ L \in Nat \ {0}
      BY <1>2, <1>5
    <3>2. (k - 1) * L = k * L - L /\ k * L \in Nat /\ (k - 1) * L \in Nat
      BY <3>1
    <3>3. k * L <= doc.copies * L
      BY <3>1, <1>5
    <3> QED BY <3>1, <3>2, <3>3 DEF AllPages
  <2>2. \A i \in from..to : i \in 1..AllPages /\ paper[i] \in Entries(plan)
    <3> HIDE DEF from, to
    <3>1. \A i \in from..to : i \in 1..AllPages
      BY <2>1, <1>2
    <3> QED BY <3>1, <1>4, ElementOfSeq
  <2>3. /\ Copy(k) \in Seq(Entries(plan)) /\ Len(Copy(k)) = L
        /\ \A i \in 1..L : Copy(k)[i] = paper[from + i - 1]
    <3>1. Copy(k) = SubSeq(paper, from, to)
      BY DEF Copy
    <3> HIDE DEF from, to, L
    <3>2. /\ SubSeq(paper, from, to) \in Seq(Entries(plan))
          /\ Len(SubSeq(paper, from, to)) = (IF from <= to THEN to - from + 1 ELSE 0)
          /\ \A i \in 1..(to - from + 1) : SubSeq(paper, from, to)[i] = paper[from + i - 1]
      BY <2>1, <2>2, SubSeqProperties
    <3> QED BY <2>1, <3>1, <3>2
  <2>4. ASSUME NEW i \in 1..L PROVE Copy(k)[i] = plan[i]
    <3>1. from + i - 1 \in 1..AllPages
      <4> HIDE DEF from, to, L
      <4>1. L \in Nat
        BY <1>2 DEF L
      <4> QED BY <2>1, <4>1, <1>2
    <3>2. (from + i - 1) - 1 = (k - 1) * L + (i - 1)
      <4>1. k \in Nat \ {0} /\ L \in Nat \ {0} /\ i \in Nat
        BY <1>2, <1>5
      <4>2. (k - 1) * L \in Nat
        BY <4>1
      <4> QED BY <4>1, <4>2
    <3>3. ((k - 1) * L + (i - 1)) % L = i - 1
      <4>1. k - 1 \in Nat /\ L \in Nat /\ i - 1 \in 0..(L - 1)
        BY <1>2, <1>5
      <4> HIDE DEF L
      <4> QED BY <4>1, ModOfCopies
    <3>4. (i - 1) + 1 = i
      BY <1>2
    <3>5. Copy(k)[i] = PlannedPage((from + i - 1) - 1)
      BY <2>3, <3>1, <1>4
    <3>6. PlannedPage((k - 1) * L + (i - 1)) = plan[(i - 1) + 1]
      BY <3>3 DEF PlannedPage
    <3> HIDE DEF from, to, L
    <3> QED BY <3>2, <3>4, <3>5, <3>6
  <2>5. plan \in Seq(Entries(plan))
    BY <1>2 DEF IsLayout
  <2> QED BY <2>3, <2>4, <2>5, SeqEqual
<1> QED BY <1>1, <1>4, <1>6 DEF AllPages

\* What reached the paper was printed with the settings asked for.
LEMMA PrintedAsSet == ASSUME SubmitInv PROVE SetupIsHonoured
<1> SUFFICES ASSUME paper # <<>> PROVE SetupIsHonoured
  BY DEF SetupIsHonoured
<1> DEFINE s == SetupOf(doc)
           caps == printer.caps
           chosen == {p \in ToSet(caps.papers) : <<p.id>> = devmode.paper}
<1>1. devmode = build(s, caps) /\ devmode.ok
  <2>1. devmode = DevmodeOf(doc, caps) /\ devmode.ok
    BY DEF SubmitInv, SubmitPlan
  <2>2. doc.kind = "Raw" => s = Defaults
    BY DEF SetupOf
  <2> QED BY <2>1, <2>2 DEF DevmodeOf
<1>2. Len(caps.papers) \in Nat /\ DOMAIN caps.papers = 1..Len(caps.papers)
  BY SubmitAssumption DEF SubmitInv, SubmitKinds
<1>3. /\ PaperFits(s.paper, caps.papers, devmode.paper)
      /\ s.duplex \in {"LongEdge", "ShortEdge"} => caps.duplex # "no"
      /\ s.color = "Color" => caps.color # "no"
      /\ <<s.duplex, s.color, s.tray>> = <<devmode.duplex, devmode.color, devmode.tray>>
  BY <1>1, <1>2, BuiltAsAsked
<1>4. s.paper.how = "named" =>
        \E p \in chosen : s.paper.name \in {p.id, p.name, p.first}
  BY <1>3, Zenon DEF PaperFits
<1>5. s.paper.how = "custom" =>
        \/ devmode.paper = <<s.paper.w, s.paper.h>>
        \/ \E p \in chosen : p.w - s.paper.w \in -1..1 /\ p.h - s.paper.h \in -1..1
  BY <1>3, Zenon DEF PaperFits
<1> QED BY <1>3, <1>4, <1>5, Zenon DEF SetupIsHonoured

LEMMA SubmitInvKeepsPromise == ASSUME SubmitInv PROVE PrintsAsAskedOrNot
<1>1. SubmitTypeOK
  BY DEF SubmitInv, SubmitKinds, SubmitWritten, SubmitTypeOK
<1>2. WholeOrNothing
  BY DEF SubmitInv, SubmitPrinted, WholeOrNothing
<1> QED BY <1>1, <1>2, AcceptedIsComplete, PrintedAsSet DEF PrintsAsAskedOrNot

\* For any documents, printers and size of a chunk, and whichever call into
\* Windows fails, a job that was accepted is on paper in all its copies, whole
\* and with the settings its client asked for, and one that was not leaves
\* nothing on a printer that spools (submit_inner, raw.rs, gdi.rs, raster.rs,
\* devmode.rs).
THEOREM SubmissionsPrintAsAsked == SubmitSpec => []PrintsAsAskedOrNot
<1>1. SubmitInit => SubmitInv
  BY SubmitInvInit
<1>2. SubmitInv /\ [SubmitNext]_submitVars => SubmitInv'
  BY SubmitInvNext
<1>3. SubmitInv => PrintsAsAskedOrNot
  BY SubmitInvKeepsPromise
<1> QED BY <1>1, <1>2, <1>3, PTL DEF SubmitSpec
-----------------------------------------------------------------------------
(* Labels.                                                                 *)

\* A run of commands, none of which changes the darkness.
CommandRun(s) == Len(s) \in Nat /\ s \in Seq(Entries(s))
Calm(s) == CommandRun(s) /\ \A c \in Entries(s) : c.op # "darkness"

LEMMA CommandsJoin ==
  ASSUME NEW s, NEW t, CommandRun(s), CommandRun(t)
  PROVE CommandRun(s \o t) /\ Entries(s \o t) \subseteq Entries(s) \cup Entries(t)
<1> DEFINE S == Entries(s) \cup Entries(t)
<1>1. s \in Seq(S) /\ t \in Seq(S) /\ Len(s) \in Nat /\ Len(t) \in Nat
  BY DEF CommandRun
<1> HIDE DEF S
<1>2. PICK u : u = s \o t
  OBVIOUS
<1>3. /\ u \in Seq(S) /\ Len(u) = Len(s) + Len(t)
      /\ \A i \in 1..(Len(s) + Len(t)) : u[i] = IF i <= Len(s) THEN s[i] ELSE t[i - Len(s)]
  BY <1>1, <1>2, ConcatProperties
<1>4. \A i \in 1..Len(u) : u[i] \in S
  BY <1>3, ElementOfSeq
<1>5. Entries(u) \subseteq S
  BY <1>4 DEF Entries
<1>6. u \in Seq(Entries(u)) /\ Len(u) \in Nat
  <2>1. \A i \in 1..Len(u) : u[i] \in Entries(u)
    BY DEF Entries
  <2>2. Len(u) \in Nat /\ u = [i \in 1..Len(u) |-> u[i]]
    BY <1>1, <1>3, LenProperties
  <2> QED BY <2>1, <2>2
<1> QED BY <1>2, <1>5, <1>6 DEF CommandRun, S

LEMMA OneCommand ==
  ASSUME NEW c, c.op # "darkness" PROVE Calm(<<c>>) /\ <<c>> # <<>>
<1>1. Len(<<c>>) = 1 /\ <<c>>[1] = c
  OBVIOUS
<1>2. Entries(<<c>>) = {c}
  BY <1>1 DEF Entries
<1>3. <<c>> \in Seq({c})
  OBVIOUS
<1> QED BY <1>1, <1>2, <1>3 DEF Calm, CommandRun

LEMMA ThreeCommands ==
  ASSUME NEW a, NEW b, NEW c
  PROVE CommandRun(<<a, b, c>>) /\ Entries(<<a, b, c>>) = {a, b, c}
<1>1. Len(<<a, b, c>>) = 3 /\ <<a, b, c>>[1] = a /\ <<a, b, c>>[2] = b /\ <<a, b, c>>[3] = c
  OBVIOUS
<1>2. Entries(<<a, b, c>>) = {a, b, c}
  <2>1. \A x : x \in Entries(<<a, b, c>>) <=> \E i \in 1..3 : x = <<a, b, c>>[i]
    BY <1>1 DEF Entries
  <2> QED BY <1>1, <2>1
<1>3. <<a, b, c>> \in Seq({a, b, c})
  OBVIOUS
<1> QED BY <1>1, <1>2, <1>3 DEF CommandRun

LEMMA ModeOps == ASSUME NEW op, NEW n PROVE Mode(op, n).op = op /\ Mode(op, n).n = n
BY DEF Mode

LEMMA WithinIsCalm ==
  ASSUME NEW op, NEW n, NEW c, op # "darkness", c.op # "darkness"
  PROVE Calm(Within(op, n, c)) /\ Within(op, n, c) # <<>>
<1>1. Within(op, n, c) = <<Mode(op, n), c, Mode(op, 0)>>
  BY DEF Within
<1>2. Mode(op, n).op # "darkness" /\ Mode(op, 0).op # "darkness"
  BY ModeOps
<1>3. <<Mode(op, n), c, Mode(op, 0)>> # <<>>
  OBVIOUS
<1> QED BY <1>1, <1>2, <1>3, ThreeCommands DEF Calm

LEMMA CommandOps ==
  ASSUME NEW op, NEW e, NEW data
  PROVE /\ Command(op, e, data).op = op
        /\ \A font, mult : Sized(Command(op, e, data), font, mult).op = op
BY DEF Command, Sized

LEMMA BoxOps ==
  ASSUME NEW e PROVE Corners(e).op = "Box" /\ RawCommand(e).op = "Raw"
BY DEF Corners, RawCommand

ElementTypes == {"Text", "Barcode", "Qr", "DataMatrix", "Box", "Raw"}

LEMMA ZplIsCalm ==
  ASSUME NEW e, e.type \in ElementTypes PROVE Calm(ZplElement(e))
<1>1. CASE e.type = "Text"
  <2>1. PICK c : ZplElement(e) = <<c>> /\ c.op = "Text"
    BY <1>1, CommandOps DEF ZplElement
  <2> QED BY <2>1, OneCommand
<1>2. CASE e.type = "Barcode"
  <2>1. PICK c : ZplElement(e) = <<c>> /\ c.op = "Barcode"
    BY <1>2, CommandOps DEF ZplElement
  <2> QED BY <2>1, OneCommand
<1>3. CASE e.type \in {"Qr", "DataMatrix"}
  <2>1. PICK c : ZplElement(e) = <<c>> /\ c.op = e.type
    BY <1>3, CommandOps DEF ZplElement
  <2> QED BY <1>3, <2>1, OneCommand
<1>4. CASE e.type = "Box"
  <2>1. PICK c : ZplElement(e) = <<c>> /\ c.op = "Box"
    BY <1>4 DEF ZplElement
  <2> QED BY <2>1, OneCommand
<1>5. CASE e.type = "Raw"
  <2>1. ZplElement(e) = <<RawCommand(e)>>
    BY <1>5 DEF ZplElement
  <2> QED BY <2>1, BoxOps, OneCommand
<1> QED BY <1>1, <1>2, <1>3, <1>4, <1>5 DEF ElementTypes

LEMMA EplIsCalm ==
  ASSUME NEW e, e.type \in ElementTypes, EplElement(e) # <<>>
  PROVE Calm(EplElement(e)) /\ e.type # "DataMatrix"
<1>1. CASE e.type = "Text"
  <2>1. PICK c : EplElement(e) = <<c>> /\ c.op = "Text"
    BY <1>1, CommandOps DEF EplElement
  <2> QED BY <1>1, <2>1, OneCommand
<1>2. CASE e.type = "Barcode"
  <2>1. PICK c : EplElement(e) = <<c>> /\ c.op = "Barcode"
    BY <1>2, CommandOps DEF EplElement
  <2> QED BY <1>2, <2>1, OneCommand
<1>3. CASE e.type = "Qr"
  <2>1. PICK c : EplElement(e) = <<c>> /\ c.op = "Qr"
    BY <1>3, CommandOps DEF EplElement
  <2> QED BY <1>3, <2>1, OneCommand
<1>4. CASE e.type = "DataMatrix"
  <2>1. EplElement(e) = <<>>
    BY <1>4 DEF EplElement, Unsupported
  <2> QED BY <2>1
<1>5. CASE e.type = "Box"
  <2>1. EplElement(e) = <<Corners(e)>>
    BY <1>5 DEF EplElement
  <2> QED BY <1>5, <2>1, BoxOps, OneCommand
<1>6. CASE e.type = "Raw"
  <2>1. EplElement(e) = <<RawCommand(e)>>
    BY <1>6 DEF EplElement
  <2> QED BY <1>6, <2>1, BoxOps, OneCommand
<1> QED BY <1>1, <1>2, <1>3, <1>4, <1>5, <1>6 DEF ElementTypes

LEMMA TsplIsCalm ==
  ASSUME NEW e, e.type \in ElementTypes PROVE Calm(TsplElement(e))
<1>1. CASE e.type = "Text"
  <2>1. PICK c : TsplElement(e) = <<c>> /\ c.op = "Text"
    BY <1>1, CommandOps DEF TsplElement
  <2> QED BY <2>1, OneCommand
<1>2. CASE e.type = "Barcode"
  <2>1. PICK c : TsplElement(e) = <<c>> /\ c.op = "Barcode"
    BY <1>2, CommandOps DEF TsplElement
  <2> QED BY <2>1, OneCommand
<1>3. CASE e.type \in {"Qr", "DataMatrix"}
  <2>1. PICK c : TsplElement(e) = <<c>> /\ c.op = e.type
    BY <1>3, CommandOps DEF TsplElement
  <2> QED BY <1>3, <2>1, OneCommand
<1>4. CASE e.type = "Box"
  <2>1. TsplElement(e) = <<Corners(e)>>
    BY <1>4 DEF TsplElement
  <2> QED BY <2>1, BoxOps, OneCommand
<1>5. CASE e.type = "Raw"
  <2>1. TsplElement(e) = <<RawCommand(e)>>
    BY <1>5 DEF TsplElement
  <2> QED BY <2>1, BoxOps, OneCommand
<1> QED BY <1>1, <1>2, <1>3, <1>4, <1>5 DEF ElementTypes

LEMMA CpclIsCalm ==
  ASSUME NEW e, e.type \in ElementTypes, CpclElement(e) # <<>>,
         e.type = "Barcode" => e.rotation \in {0, 90, 180, 270}
  PROVE /\ Calm(CpclElement(e)) /\ e.type # "DataMatrix"
        /\ e.type = "Barcode" => e.rotation \in {0, 90}
<1>1. CASE e.type = "Text"
  <2>1. PICK c, n : CpclElement(e) \in {Within("mag", n, c), <<c>>} /\ c.op = "Text"
    <3> DEFINE name == IF e.font # <<>> THEN Head(e.font) ELSE <<"7", " ", "0">>
               c == Sized(Command("Text", e, single_line(e.data)), name, 1)
               n == IF e.font # <<>> THEN 1 ELSE Magnification(e)
    <3>1. CpclElement(e) = IF n > 1 THEN Within("mag", n, c) ELSE <<c>>
      BY <1>1 DEF CpclElement
    <3>2. c.op = "Text"
      <4> HIDE DEF name
      <4> QED BY CommandOps
    <3> HIDE DEF c, n
    <3> QED BY <3>1, <3>2
  <2> QED BY <1>1, <2>1, OneCommand, WithinIsCalm
<1>2. CASE e.type = "Barcode"
  <2>1. quarter_turns(0) = 0 /\ quarter_turns(90) = 1 /\ quarter_turns(180) = 2 /\ quarter_turns(270) = 3
    BY DEF quarter_turns
  <2>2. CASE quarter_turns(e.rotation) <= 1
    <3> DEFINE c == Command("Barcode", e, single_line(barcode_payload(e.symbology, e.data)))
    <3>1. ~(quarter_turns(e.rotation) > 1)
      BY <1>2, <2>1, <2>2
    <3>2. CpclElement(e) = IF e.readable THEN Within("hri", 1, c) ELSE <<c>>
      BY <1>2, <2>2, <3>1 DEF CpclElement
    <3>3. c.op = "Barcode"
      BY CommandOps
    <3>4. e.rotation \in {0, 90}
      BY <1>2, <2>1, <2>2
    <3> HIDE DEF c
    <3>5. Calm(CpclElement(e))
      BY <3>2, <3>3, OneCommand, WithinIsCalm
    <3> QED BY <1>2, <3>4, <3>5
  <2>3. CASE quarter_turns(e.rotation) > 1
    <3>1. ~(quarter_turns(e.rotation) <= 1)
      BY <1>2, <2>1, <2>3
    <3>2. CpclElement(e) = <<>>
      BY <1>2, <2>3, <3>1 DEF CpclElement, Unsupported
    <3> QED BY <3>2
  <2> QED BY <1>2, <2>1, <2>2, <2>3
<1>3. CASE e.type = "Qr"
  <2>1. PICK c : CpclElement(e) = <<c>> /\ c.op = "Qr"
    BY <1>3, CommandOps DEF CpclElement
  <2> QED BY <1>3, <2>1, OneCommand
<1>4. CASE e.type = "DataMatrix"
  <2>1. CpclElement(e) = <<>>
    BY <1>4 DEF CpclElement, Unsupported
  <2> QED BY <2>1
<1>5. CASE e.type = "Box"
  <2>1. CpclElement(e) = <<Corners(e)>>
    BY <1>5 DEF CpclElement
  <2> QED BY <1>5, <2>1, BoxOps, OneCommand
<1>6. CASE e.type = "Raw"
  <2>1. CpclElement(e) = <<RawCommand(e)>>
    BY <1>6 DEF CpclElement
  <2> QED BY <1>6, <2>1, BoxOps, OneCommand
<1> QED BY <1>1, <1>2, <1>3, <1>4, <1>5, <1>6 DEF ElementTypes

\* A darkness on the scale of a language.
OnScale(l, n) ==
  LET most == CASE l = "ZPL" -> 30 [] l = "CPCL" -> 3 [] OTHER -> 15
  IN  n \in 0..most /\ (label.darkness = 30 => n = most)

LEMMA HeadIsOnScale ==
  ASSUME NEW l \in LabelLanguages, label.darkness \in 0..30
  PROVE /\ CommandRun(HeadOf(l))
        /\ \A c \in Entries(HeadOf(l)) : c.op = "darkness" => OnScale(l, c.n)
<1> DEFINE d == label.darkness
<1>1. /\ d \in 0..30 /\ (d * 15) \div 30 \in 0..15 /\ (d * 3) \div 30 \in 0..3
      /\ (30 * 15) \div 30 = 15 /\ (30 * 3) \div 30 = 3
  OBVIOUS
<1> HIDE DEF d
<1>2. CASE l = "ZPL"
  <2>1. HeadOf(l) = <<Mode("clear", 0), Mode("darkness", d), Mode("speed", Clamp(label.speed, 2, 14))>>
    BY <1>2 DEF HeadOf, ZplHead, d
  <2>2. OnScale(l, d)
    BY <1>1, <1>2 DEF OnScale, d
  <2> QED BY <2>1, <2>2, ThreeCommands, ModeOps
<1>3. CASE l = "EPL"
  <2>1. HeadOf(l) = <<Mode("clear", 0), Mode("darkness", (d * 15) \div 30),
                      Mode("speed", Clamp(label.speed, 1, 6))>>
    BY <1>3 DEF HeadOf, EplHead, d
  <2>2. OnScale(l, (d * 15) \div 30)
    BY <1>1, <1>3 DEF OnScale, d
  <2> QED BY <2>1, <2>2, ThreeCommands, ModeOps
<1>4. CASE l = "TSPL"
  <2>1. HeadOf(l) = <<Mode("darkness", (d * 15) \div 30), Mode("speed", label.speed), Mode("clear", 0)>>
    BY <1>4 DEF HeadOf, TsplHead, d
  <2>2. OnScale(l, (d * 15) \div 30)
    BY <1>1, <1>4 DEF OnScale, d
  <2> QED BY <2>1, <2>2, ThreeCommands, ModeOps
<1>5. CASE l = "CPCL"
  <2>1. HeadOf(l) = <<Mode("clear", 0), Mode("speed", Clamp(label.speed, 0, 5)),
                      Mode("darkness", (d * 3) \div 30)>>
    BY <1>5 DEF HeadOf, CpclHead, d
  <2>2. OnScale(l, (d * 3) \div 30)
    BY <1>1, <1>5 DEF OnScale, d
  <2> QED BY <2>1, <2>2, ThreeCommands, ModeOps
<1> QED BY <1>2, <1>3, <1>4, <1>5 DEF LabelLanguages

-----------------------------------------------------------------------------

\* What a language can express.
Expressible(l, e) ==
  /\ l \in {"EPL", "CPCL"} => e.type # "DataMatrix"
  /\ l = "CPCL" /\ e.type = "Barcode" => e.rotation \in {0, 90}

LabelProgress ==
  /\ label \in Labels /\ element \in 0..Len(label.elements)
  /\ outcome \in {"submitted", "valid", "rejected", "encoding", "failed", "encoded", "printed"}
  /\ outcome \in {"valid", "encoding", "encoded", "printed"} => LabelValid
  /\ outcome \in {"submitted", "valid"} => element = 0 /\ sent = <<>>
  /\ outcome \in {"encoding", "encoded", "printed"} => language \in LabelLanguages
  /\ outcome \in {"encoded", "printed"} => element = Len(label.elements)
  /\ outcome # "printed" => labelPrinter.labels = <<>>

\* Every element encoded so far is one its language has.
EncodedExpressibly ==
  outcome \in {"encoding", "encoded", "printed"} =>
    \A i \in 1..element : Expressible(language, label.elements[i])

\* Every darkness sent so far is on the scale of its language.
SentOnScale ==
  CommandRun(sent) /\ \A c \in Entries(sent) : c.op = "darkness" => OnScale(language, c.n)

LabelInv == LabelProgress /\ EncodedExpressibly /\ SentOnScale

LEMMA LabelInvInit == ASSUME LabelInit PROVE LabelInv
<1>1. Len(label.elements) \in Nat /\ label \in Labels
  BY LabelAssumption DEF LabelInit
<1>2. labelPrinter.labels = <<>>
  <2>1. PICK b : labelPrinter = [buffer |-> b, mag |-> 1, hri |-> FALSE, labels |-> <<>>]
    BY DEF LabelInit
  <2> QED BY <2>1
<1>3. LabelProgress
  BY <1>1, <1>2 DEF LabelInit, LabelProgress
<1>4. EncodedExpressibly
  BY DEF LabelInit, EncodedExpressibly
<1>5. SentOnScale
  <2>1. Len(<<>>) = 0 /\ <<>> \in Seq(Entries(<<>>))
    OBVIOUS
  <2>2. Entries(<<>>) = {}
    BY <2>1 DEF Entries
  <2> QED BY <2>1, <2>2 DEF LabelInit, SentOnScale, CommandRun
<1> QED BY <1>3, <1>4, <1>5 DEF LabelInv

\* Whether a label is valid depends on the label.
LEMMA ValidityKept == ASSUME UNCHANGED label PROVE LabelValid <=> LabelValid'
<1>1. MediaValid <=> MediaValid'
  BY DEF MediaValid
<1>2. SettingsValid <=> SettingsValid'
  BY DEF SettingsValid
<1>3. \A e : ValidElement(e) <=> ValidElement(e)'
  BY DEF ValidElement
<1> QED BY <1>1, <1>2, <1>3, Zenon DEF LabelValid

\* An element is encoded, or fails the label.
LEMMA EncodingKeeps ==
  ASSUME LabelInv, NEW l \in LabelLanguages, NextElement(l), NEW added,
         Encodes(l, added),
         added # <<>> => Calm(added) /\ Expressible(l, label.elements[element + 1])
  PROVE LabelInv'
<1>0. /\ outcome = "encoding" /\ language = l /\ element < Len(label.elements)
      /\ UNCHANGED <<label, language, labelPrinter>>
  BY DEF NextElement, Encodes
<1>1. element \in Nat /\ Len(label.elements) \in Nat
  BY LabelAssumption DEF LabelInv, LabelProgress
<1>2. CASE outcome' = "failed" /\ UNCHANGED <<element, sent>>
  BY <1>0, <1>2 DEF LabelInv, LabelProgress, EncodedExpressibly, SentOnScale, OnScale
<1>3. CASE /\ added # <<>> /\ sent' = sent \o added
           /\ element' = element + 1 /\ UNCHANGED outcome
  <2>1. LabelProgress'
    <3>1. LabelValid => LabelValid'
      BY <1>0, ValidityKept
    <3> QED BY <1>0, <1>1, <1>3, <3>1 DEF LabelInv, LabelProgress
  <2>2. EncodedExpressibly'
    <3>1. \A i \in 1..(element + 1) : Expressible(l, label.elements[i])
      <4> SUFFICES ASSUME NEW i \in 1..(element + 1) PROVE Expressible(l, label.elements[i])
        OBVIOUS
      <4>1. CASE i = element + 1
        BY <1>3, <4>1
      <4>2. CASE i \in 1..element
        BY <1>0, <4>2 DEF LabelInv, EncodedExpressibly
      <4> QED BY <1>1, <4>1, <4>2
    <3> QED BY <1>0, <1>3, <3>1 DEF EncodedExpressibly
  <2>3. SentOnScale'
    <3>1. CommandRun(sent) /\ Calm(added)
      BY <1>3 DEF LabelInv, SentOnScale
    <3>2. CommandRun(sent') /\ Entries(sent') \subseteq Entries(sent) \cup Entries(added)
      BY <1>3, <3>1, CommandsJoin DEF Calm
    <3>3. \A n : OnScale(language, n) => OnScale(language, n)'
      BY <1>0 DEF OnScale
    <3>4. ASSUME NEW c \in Entries(sent'), c.op = "darkness" PROVE OnScale(language, c.n)
      BY <3>1, <3>2, <3>4 DEF Calm, LabelInv, SentOnScale
    <3> QED BY <1>0, <3>2, <3>4 DEF SentOnScale, OnScale
  <2> QED BY <2>1, <2>2, <2>3 DEF LabelInv
<1> QED BY <1>2, <1>3 DEF Encodes

LEMMA LabelInvNext == ASSUME LabelInv, [LabelNext]_labelVars PROVE LabelInv'
<1>0. /\ label \in Labels /\ Len(label.elements) \in Nat /\ element \in Nat
      /\ DOMAIN label.elements = 1..Len(label.elements)
      /\ \A i \in 1..Len(label.elements) : label.elements[i].type \in ElementTypes
  BY LabelAssumption DEF LabelInv, LabelProgress, ElementTypes
<1>1. UNCHANGED label => (LabelValid <=> LabelValid')
  BY ValidityKept
<1>2. CASE LabelValidates
  <2>1. /\ outcome = "submitted" /\ UNCHANGED <<label, language, element, sent, labelPrinter>>
        /\ (LabelValid /\ outcome' = "valid") \/ outcome' = "rejected"
    BY <1>2 DEF LabelValidates
  <2>2. LabelProgress'
    BY <1>1, <2>1 DEF LabelInv, LabelProgress
  <2>3. EncodedExpressibly' /\ SentOnScale'
    BY <2>1 DEF LabelInv, EncodedExpressibly, SentOnScale, OnScale
  <2> QED BY <2>2, <2>3 DEF LabelInv
<1>3. CASE ChoosesLanguage
  <2>1. /\ outcome = "valid" /\ UNCHANGED <<label, element, labelPrinter>>
        /\ LabelValid /\ element = 0 /\ sent = <<>>
        /\ \/ language' \in LabelLanguages /\ outcome' = "encoding" /\ sent' = HeadOf(language')
           \/ outcome' = "failed" /\ UNCHANGED sent
    <3>1. /\ outcome = "valid" /\ UNCHANGED <<label, element, labelPrinter>>
          /\ \/ language' \in LabelLanguages /\ outcome' = "encoding" /\ sent' = HeadOf(language')
             \/ outcome' = "failed" /\ UNCHANGED sent
      BY <1>3, Zenon DEF ChoosesLanguage
    <3> QED BY <3>1 DEF LabelInv, LabelProgress
  <2>2. LabelProgress'
    BY <1>1, <2>1 DEF LabelInv, LabelProgress
  <2>3. EncodedExpressibly'
    BY <2>1 DEF EncodedExpressibly
  <2>4. SentOnScale'
    <3>1. CASE sent' = <<>>
      <4>1. Len(<<>>) = 0 /\ <<>> \in Seq(Entries(<<>>))
        OBVIOUS
      <4>2. Entries(<<>>) = {}
        BY <4>1 DEF Entries
      <4> QED BY <3>1, <4>1, <4>2 DEF SentOnScale, CommandRun
    <3>2. CASE language' \in LabelLanguages /\ sent' = HeadOf(language')
      <4>1. label.darkness \in 0..30
        <5>1. SettingsValid
          BY <2>1, Zenon DEF LabelValid
        <5> QED BY <5>1 DEF SettingsValid
      <4>2. /\ CommandRun(sent')
            /\ \A c \in Entries(sent') : c.op = "darkness" => OnScale(language', c.n)
        BY <3>2, <4>1, HeadIsOnScale
      <4> QED BY <2>1, <4>2 DEF SentOnScale, OnScale
    <3> QED BY <2>1, <3>1, <3>2
  <2> QED BY <2>2, <2>3, <2>4 DEF LabelInv
<1>4. ASSUME NEW l, NextElement(l)
      PROVE /\ label.elements[element + 1].type \in ElementTypes
            /\ label.elements[element + 1].type = "Barcode" =>
                 label.elements[element + 1].rotation \in {0, 90, 180, 270}
  <2>1. element + 1 \in 1..Len(label.elements) /\ LabelValid
    BY <1>0, <1>4 DEF NextElement, LabelInv, LabelProgress
  <2>2. ValidElement(label.elements[element + 1])
    <3>1. \A i \in DOMAIN label.elements : ValidElement(label.elements[i])
      BY <2>1, Zenon DEF LabelValid
    <3> QED BY <1>0, <2>1, <3>1
  <2> QED BY <1>0, <2>1, <2>2 DEF ValidElement
<1>5. CASE EncodesZpl
  <2> DEFINE e == label.elements[element + 1]
  <2>1. "ZPL" \in LabelLanguages /\ Expressible("ZPL", e)
    BY DEF LabelLanguages, Expressible
  <2>2. NextElement("ZPL") /\ Encodes("ZPL", ZplElement(e))
    BY <1>5 DEF EncodesZpl
  <2>3. Calm(ZplElement(e))
    BY <1>4, <2>2, ZplIsCalm
  <2> QED BY <2>1, <2>2, <2>3, EncodingKeeps
<1>6. CASE EncodesEpl
  <2> DEFINE e == label.elements[element + 1]
  <2>1. "EPL" \in LabelLanguages /\ (e.type # "DataMatrix" => Expressible("EPL", e))
    BY DEF LabelLanguages, Expressible
  <2>2. NextElement("EPL") /\ Encodes("EPL", EplElement(e))
    BY <1>6 DEF EncodesEpl
  <2>3. EplElement(e) # <<>> => Calm(EplElement(e)) /\ e.type # "DataMatrix"
    BY <1>4, <2>2, EplIsCalm
  <2> HIDE DEF e
  <2>4. EplElement(e) # <<>> => Calm(EplElement(e)) /\ Expressible("EPL", e)
    BY <2>1, <2>3
  <2> QED BY <2>1, <2>2, <2>4, EncodingKeeps DEF e
<1>7. CASE EncodesTspl
  <2> DEFINE e == label.elements[element + 1]
  <2>1. "TSPL" \in LabelLanguages /\ Expressible("TSPL", e)
    BY DEF LabelLanguages, Expressible
  <2>2. NextElement("TSPL") /\ Encodes("TSPL", TsplElement(e))
    BY <1>7 DEF EncodesTspl
  <2>3. Calm(TsplElement(e))
    BY <1>4, <2>2, TsplIsCalm
  <2> QED BY <2>1, <2>2, <2>3, EncodingKeeps
<1>8. CASE EncodesCpcl
  <2> DEFINE e == label.elements[element + 1]
  <2>1. "CPCL" \in LabelLanguages
    BY DEF LabelLanguages
  <2>2. NextElement("CPCL") /\ Encodes("CPCL", CpclElement(e))
    BY <1>8 DEF EncodesCpcl
  <2>3. CpclElement(e) # <<>> =>
          /\ Calm(CpclElement(e)) /\ e.type # "DataMatrix"
          /\ e.type = "Barcode" => e.rotation \in {0, 90}
    BY <1>4, <2>2, CpclIsCalm
  <2> HIDE DEF e
  <2>4. CpclElement(e) # <<>> => Calm(CpclElement(e)) /\ Expressible("CPCL", e)
    BY <2>3 DEF Expressible
  <2> QED BY <2>1, <2>2, <2>4, EncodingKeeps DEF e
<1>9. CASE LabelEnds
  <2>1. /\ outcome = "encoding" /\ outcome' = "encoded" /\ element = Len(label.elements)
        /\ sent' = sent \o <<Mode("print", 1)>>
        /\ UNCHANGED <<label, language, element, labelPrinter>>
    BY <1>9 DEF LabelEnds, Ends
  <2>2. LabelProgress'
    BY <1>1, <2>1 DEF LabelInv, LabelProgress
  <2>3. EncodedExpressibly'
    BY <2>1 DEF LabelInv, EncodedExpressibly
  <2>4. SentOnScale'
    <3>1. Calm(<<Mode("print", 1)>>)
      BY OneCommand, ModeOps
    <3>2. /\ CommandRun(sent')
          /\ Entries(sent') \subseteq Entries(sent) \cup Entries(<<Mode("print", 1)>>)
      BY <2>1, <3>1, CommandsJoin DEF Calm, LabelInv, SentOnScale
    <3>3. ASSUME NEW c \in Entries(sent'), c.op = "darkness" PROVE OnScale(language, c.n)
      BY <3>1, <3>2, <3>3 DEF Calm, LabelInv, SentOnScale
    <3> QED BY <2>1, <3>2, <3>3 DEF SentOnScale, OnScale
  <2> QED BY <2>2, <2>3, <2>4 DEF LabelInv
<1>10. CASE LabelPrints
  <2>1. /\ outcome = "encoded" /\ outcome' = "printed"
        /\ UNCHANGED <<label, language, element, sent>>
    BY <1>10 DEF LabelPrints
  <2>2. LabelProgress'
    BY <1>1, <2>1 DEF LabelInv, LabelProgress
  <2>3. EncodedExpressibly' /\ SentOnScale'
    BY <2>1 DEF LabelInv, EncodedExpressibly, SentOnScale, OnScale
  <2> QED BY <2>2, <2>3 DEF LabelInv
<1>11. CASE UNCHANGED labelVars
  <2>1. LabelProgress'
    BY <1>1, <1>11 DEF labelVars, LabelInv, LabelProgress
  <2>2. EncodedExpressibly' /\ SentOnScale'
    BY <1>11 DEF labelVars, LabelInv, EncodedExpressibly, SentOnScale, OnScale
  <2> QED BY <2>1, <2>2 DEF LabelInv
<1> QED BY <1>2, <1>3, <1>5, <1>6, <1>7, <1>8, <1>9, <1>10, <1>11 DEF LabelNext

LEMMA LabelInvKeepsPromise == ASSUME LabelInv PROVE NothingIsDropped /\ SettingsAreInRange
<1>1. DOMAIN label.elements = 1..Len(label.elements)
  BY LabelAssumption DEF LabelInv, LabelProgress
<1>2. NothingIsDropped
  BY <1>1 DEF LabelInv, LabelProgress, EncodedExpressibly, Expressible, NothingIsDropped
<1>3. ASSUME NEW i \in DOMAIN sent PROVE sent[i] \in Entries(sent)
  <2>1. DOMAIN sent = 1..Len(sent)
    BY LenProperties DEF LabelInv, SentOnScale, CommandRun
  <2> QED BY <2>1 DEF Entries
<1>4. \A i \in DOMAIN sent : sent[i].op = "darkness" => OnScale(language, sent[i].n)
  BY <1>3 DEF LabelInv, SentOnScale
<1>5. SettingsAreInRange
  BY <1>4 DEF OnScale, SettingsAreInRange
<1> QED BY <1>2, <1>5

\* For any label of any elements, whatever language its printer speaks: a label
\* that is sent has every element its client drew, because one the language
\* cannot express, a DataMatrix in EPL or CPCL or a barcode upside down in
\* CPCL, fails it before anything is sent; and its darkness is on the scale of
\* the language (label/mod.rs, zpl.rs, epl.rs, tspl.rs, cpcl.rs).
THEOREM LabelsDropNothing == LabelSpec => [](NothingIsDropped /\ SettingsAreInRange)
<1>1. LabelInit => LabelInv
  BY LabelInvInit
<1>2. LabelInv /\ [LabelNext]_labelVars => LabelInv'
  BY LabelInvNext
<1>3. LabelInv => NothingIsDropped /\ SettingsAreInRange
  BY LabelInvKeepsPromise
<1> QED BY <1>1, <1>2, <1>3, PTL DEF LabelSpec
=============================================================================
