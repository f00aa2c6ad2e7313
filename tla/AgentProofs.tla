----------------------------- MODULE AgentProofs -----------------------------
(***************************************************************************)
(* What the parts of the agent around the engine keep, for every number of *)
(* clients, jobs, processes and migrations.                                *)
(*                                                                         *)
(* The rate limiter: a bucket is a potential: as long as something was     *)
(* admitted in the window, what was admitted and what is left never exceed *)
(* the burst and the time from the start of the window to the bucket's     *)
(* clock, corrected by the time callers set it back.  A dropped bucket     *)
(* counts as empty; being idle for Idle has paid for the full one that     *)
(* replaces it.                                                            *)
(*                                                                         *)
(* Start-up is safe as long as one agent runs at a time and nothing dies   *)
(* between creating and writing the token file.                            *)
(*                                                                         *)
(* The service answers a client from what the client may see: every        *)
(* handler is shown to give the same answer in a world without the rest.   *)
(*                                                                         *)
(* The two job repositories hold the same jobs under the same keys, and    *)
(* give them in the same lists: a row's place in a list is the number of   *)
(* newer rows, every place is taken once, and what a reader of pages has   *)
(* yet to see stays ahead of it.                                           *)
(***************************************************************************)
EXTENDS RateLimiter, AgentStart, ApiService, JobStore, WellFoundedInduction,
        FiniteSetTheorems, TLAPS

-----------------------------------------------------------------------------
(* The rate limiter.                                                       *)

\* The bucket's clock is the history's while the bucket exists.
MarkIsLast == \A k \in present : mark[k] = last[k]

\* What one client was admitted, and the tokens it has left, are paid for.
Paid(k) ==
  spent[k] > 0 =>
    spent[k] + (IF k \in present THEN tokens[k] ELSE 0)
      <= (IF k \in present THEN Burst ELSE 0) + (mark[k] - from) + back[k]

\* What a client has not used of its burst is still in its bucket.
Unspent(k) == from = 0 /\ k \in present => Burst <= tokens[k] + spent[k]

LimiterInv ==
  /\ LimiterTypeOK
  /\ MarkIsLast
  /\ \A k \in Keys : Paid(k) /\ Unspent(k)
  /\ BurstIsHonoured

\* The initial state: no bucket, nothing admitted.
LEMMA LimiterInitInv == ASSUME LimiterInit PROVE LimiterInv
<1> USE LimiterAssumption DEF LimiterInit
<1>1. LimiterTypeOK
  BY DEF LimiterTypeOK, NoCall
<1>2. MarkIsLast /\ BurstIsHonoured
  BY DEF MarkIsLast, BurstIsHonoured
<1>3. \A k \in Keys : Paid(k) /\ Unspent(k)
  BY DEF Paid, Unspent
<1> QED BY <1>1, <1>2, <1>3 DEF LimiterInv

\* The refill never exceeds the burst and never takes tokens away.
LEMMA FilledRange ==
  ASSUME LimiterInv, NEW k \in Keys, NEW at \in Nat, NEW kept \in SUBSET present
  PROVE /\ Filled(k, at, kept) \in 0..Burst
        /\ k \in kept => Filled(k, at, kept) <= tokens[k] + Elapsed(at, last[k])
        /\ k \in kept => tokens[k] <= Filled(k, at, kept)
        /\ k \notin kept => Filled(k, at, kept) = Burst
        /\ Elapsed(at, last[k]) \in Nat
BY LimiterAssumption DEF LimiterInv, LimiterTypeOK, Filled, AtMost, Elapsed

\* check_at preserves the invariant.
LEMMA CheckInv ==
  ASSUME LimiterInv, NEW t \in Threads, Check(t)
  PROVE LimiterInv'
<1>p. PICK k \in Keys, at \in 0..now : k = call[t].key /\ at = call[t].at
  BY DEF LimiterInv, LimiterTypeOK
<1> DEFINE gone == Dropped(at)
<1> DEFINE kept == present \ gone
<1> DEFINE filled == Filled(k, at, kept)
<1> DEFINE moved(i) == IF i = k \/ i \in gone THEN at ELSE mark[i]
<1> USE LimiterAssumption
<1>t. LimiterTypeOK /\ MarkIsLast /\ BurstIsHonoured /\ \A i \in Keys : Paid(i) /\ Unspent(i)
  BY DEF LimiterInv
<1>k. at \in 0..now /\ at \in Nat /\ now \in Nat /\ from \in 0..now
  BY <1>t DEF LimiterTypeOK
<1>g. gone \subseteq present /\ \A i \in gone : Elapsed(at, last[i]) >= Idle
  BY DEF Dropped
<1>f. /\ filled \in 0..Burst
      /\ k \in kept => filled <= tokens[k] + Elapsed(at, last[k])
      /\ k \in kept => tokens[k] <= filled
      /\ k \notin kept => filled = Burst
  <2>1. kept \in SUBSET present
    BY <1>g
  <2> QED BY <2>1, <1>k, FilledRange
<1>c. /\ present' = kept \cup {k}
      /\ call' = [call EXCEPT ![t] = NoCall(k)]
      /\ last' = [last EXCEPT ![k] = at]
      /\ tokens' = [tokens EXCEPT ![k] = IF filled >= Cost THEN filled - Cost ELSE filled]
      /\ spent' = [spent EXCEPT ![k] =
                     IF filled >= Cost /\ at >= from THEN spent[k] + Cost ELSE spent[k]]
      /\ refused' = IF filled < Cost THEN refused \cup {k} ELSE refused
      /\ mark' = [i \in Keys |-> moved(i)]
      /\ back' = [i \in Keys |-> back[i] + Elapsed(mark[i], moved(i))]
      /\ now' = now /\ from' = from
  BY <1>p DEF Check
<1> HIDE DEF filled, gone
<1>m. \A i \in Keys : moved(i) \in 0..now /\ Elapsed(mark[i], moved(i)) \in Nat
  BY <1>t, <1>k DEF LimiterTypeOK, Elapsed
<1>1. LimiterTypeOK'
  <2>1. now' \in 0..MaxTime /\ from' \in 0..now' /\ present' \subseteq Keys /\ refused' \subseteq Keys
    BY <1>t, <1>c, <1>k DEF LimiterTypeOK
  <2>2. tokens' \in [Keys -> 0..Burst] /\ last' \in [Keys -> 0..now']
    BY <1>t, <1>c, <1>k, <1>f DEF LimiterTypeOK
  <2>3. call' \in [Threads -> [on : BOOLEAN, key : Keys, at : 0..now']]
    BY <1>t, <1>c, <1>k DEF LimiterTypeOK, NoCall
  <2>4. spent' \in [Keys -> Nat]
    BY <1>t, <1>c, <1>k DEF LimiterTypeOK
  <2>5. mark' \in [Keys -> 0..now'] /\ back' \in [Keys -> Nat]
    <3> HIDE DEF moved
    <3> QED BY <1>t, <1>c, <1>m DEF LimiterTypeOK
  <2> QED BY <2>1, <2>2, <2>3, <2>4, <2>5 DEF LimiterTypeOK
<1>2. MarkIsLast'
  BY <1>t, <1>c, <1>k, <1>g DEF MarkIsLast, LimiterTypeOK
<1>3. ASSUME NEW i \in Keys, i # k PROVE Paid(i)' /\ Unspent(i)'
  <2>0. /\ spent'[i] = spent[i] /\ tokens'[i] = tokens[i]
        /\ tokens[i] \in 0..Burst /\ spent[i] \in Nat /\ back[i] \in Nat
        /\ mark[i] \in Nat /\ last[i] \in Nat
    BY <1>3, <1>t, <1>c DEF LimiterTypeOK
  <2>1. CASE i \in gone
    <3>1. i \notin present' /\ i \in present
      BY <2>1, <1>c, <1>g, <1>3
    <3>2. at >= mark[i] + Idle
      BY <2>0, <2>1, <3>1, <1>g, <1>t, <1>k DEF MarkIsLast, Elapsed
    <3>3. mark'[i] = at /\ back'[i] = back[i]
      BY <2>0, <2>1, <3>2, <1>c, <1>k DEF Elapsed
    <3> QED BY <2>0, <3>1, <3>2, <3>3, <1>t, <1>c, <1>k DEF Paid, Unspent
  <2>2. CASE i \notin gone
    <3>1. (i \in present') <=> (i \in present)
      BY <2>2, <1>c, <1>3
    <3>2. mark'[i] = mark[i] /\ back'[i] = back[i]
      BY <2>0, <2>2, <1>c, <1>3 DEF Elapsed
    <3> QED BY <2>0, <3>1, <3>2, <1>t, <1>c DEF Paid, Unspent
  <2> QED BY <2>1, <2>2
<1>4. Paid(k)' /\ Unspent(k)'
  <2>0. /\ k \in present'
        /\ tokens[k] \in 0..Burst /\ spent[k] \in Nat /\ back[k] \in Nat
        /\ mark[k] \in Nat /\ last[k] \in Nat
        /\ tokens'[k] = (IF filled >= Cost THEN filled - Cost ELSE filled)
        /\ spent'[k] = (IF filled >= Cost /\ at >= from THEN spent[k] + Cost ELSE spent[k])
        /\ mark'[k] = at
        /\ back'[k] = back[k] + Elapsed(mark[k], at)
    BY <1>t, <1>c, <1>k DEF LimiterTypeOK
  <2>1. at + Elapsed(mark[k], at) >= mark[k] /\ Elapsed(mark[k], at) \in Nat
    BY <2>0, <1>k DEF Elapsed
  <2>2. k \in kept => filled <= tokens[k] + (at + Elapsed(mark[k], at) - mark[k])
    BY <2>0, <1>f, <1>t, <1>k DEF MarkIsLast, Elapsed
  <2>3. k \in present /\ k \notin kept => at >= mark[k] + Idle
    BY <2>0, <1>g, <1>t, <1>k DEF MarkIsLast, Elapsed
  <2>4. spent[k] > 0 => spent[k] + filled <= Burst + (at - from) + back'[k]
    BY <2>0, <2>1, <2>2, <2>3, <1>f, <1>t, <1>k DEF Paid
  <2>5. Paid(k)'
    BY <2>0, <2>1, <2>4, <1>f, <1>k, <1>c DEF Paid
  <2>6. Unspent(k)'
    BY <2>0, <1>f, <1>t, <1>k, <1>c DEF Unspent
  <2> QED BY <2>5, <2>6
<1>5. BurstIsHonoured'
  <2>1. spent[k] \in Nat /\ tokens[k] \in 0..Burst
    BY <1>t, <1>k DEF LimiterTypeOK
  <2>2. from = 0 /\ filled < Cost => spent[k] > Burst - Cost
    BY <2>1, <1>f, <1>t, <1>k DEF Unspent
  <2>3. \A i \in Keys : spent'[i] >= spent[i]
    BY <1>t, <1>c, <1>k DEF LimiterTypeOK
  <2>4. \A i \in refused : i \in Keys /\ spent[i] \in Nat /\ spent'[i] \in Nat
    BY <1>t, <1>1, <1>k DEF LimiterTypeOK
  <2> QED BY <2>1, <2>2, <2>3, <2>4, <1>1, <1>t, <1>c, <1>k DEF BurstIsHonoured, LimiterTypeOK
<1> QED BY <1>1, <1>2, <1>3, <1>4, <1>5 DEF LimiterInv

\* The other steps: reading the clock, time, and a new window.
LEMMA OtherInv ==
  ASSUME LimiterInv,
         \/ \E t \in Threads : ReadClock(t)
         \/ Tick \/ OpenWindow \/ UNCHANGED limiterVars
  PROVE LimiterInv'
<1> USE LimiterAssumption DEF buckets, history
<1>1. CASE \E t \in Threads : ReadClock(t)
  <2>1. LimiterTypeOK'
    BY <1>1 DEF LimiterInv, LimiterTypeOK, ReadClock
  <2> QED BY <1>1, <2>1 DEF LimiterInv, ReadClock, MarkIsLast, Paid, Unspent, BurstIsHonoured
<1>2. CASE Tick
  <2>1. LimiterTypeOK'
    BY <1>2 DEF LimiterInv, LimiterTypeOK, Tick
  <2> QED BY <1>2, <2>1 DEF LimiterInv, Tick, MarkIsLast, Paid, Unspent, BurstIsHonoured
<1>3. CASE OpenWindow
  <2>1. LimiterTypeOK'
    BY <1>3 DEF LimiterInv, LimiterTypeOK, OpenWindow
  <2>2. from' > 0
    BY <1>3 DEF LimiterInv, LimiterTypeOK, OpenWindow
  <2> QED BY <1>3, <2>1, <2>2 DEF LimiterInv, OpenWindow, MarkIsLast, Paid, Unspent, BurstIsHonoured
<1>4. CASE UNCHANGED limiterVars
  BY <1>4 DEF limiterVars, LimiterInv, LimiterTypeOK, MarkIsLast, Paid, Unspent, BurstIsHonoured
<1> QED BY <1>1, <1>2, <1>3, <1>4

\* The invariant holds in every reachable state.
THEOREM LimiterInvariant == LimiterSpec => []LimiterInv
<1>1. LimiterInit => LimiterInv
  BY LimiterInitInv
<1>2. LimiterInv /\ [LimiterNext]_limiterVars => LimiterInv'
  BY CheckInv, OtherInv DEF LimiterNext
<1> QED BY <1>1, <1>2, PTL DEF LimiterSpec

\* In any window a client is admitted for at most the burst and the refill.
THEOREM LimiterRateBound == LimiterSpec => []RateBound
<1>1. LimiterInv => RateBound
  <2> SUFFICES ASSUME LimiterInv, NEW k \in Keys
               PROVE spent[k] <= Burst + (now - from) + back[k]
    BY DEF RateBound
  <2>1. /\ spent[k] \in Nat /\ mark[k] \in 0..now /\ back[k] \in Nat /\ tokens[k] \in 0..Burst
        /\ from \in 0..now /\ now \in Nat /\ Burst \in Nat
    BY LimiterAssumption DEF LimiterInv, LimiterTypeOK
  <2> QED BY <2>1 DEF LimiterInv, Paid
<1> QED BY <1>1, LimiterInvariant, PTL

\* A client is refused only once it has used its burst.
THEOREM LimiterBurst == LimiterSpec => []BurstIsHonoured
<1>1. LimiterInv => BurstIsHonoured
  BY DEF LimiterInv
<1> QED BY <1>1, LimiterInvariant, PTL

-----------------------------------------------------------------------------
(* Starting the agent.                                                     *)

\* Two processes that are both up are not both agents.
OneAgent ==
  \A p, q \in Procs :
    pc[p] # "off" /\ pc[q] # "off" /\ kind[p] = "agent" /\ kind[q] = "agent" => p = q

\* The token command uses no database.
CommandsStayOut ==
  \A p \in Procs : kind[p] = "token" => pc[p] \in {"off", "token", "creating", "writing", "shown"}

\* The token file is empty while its one creator writes, and has a token once
\* anybody uses one; tokens are counted when they are written.
FileIsOwned ==
  /\ \A p \in Procs : pc[p] = "writing" => file = Empty
  /\ \A p, q \in Procs : pc[p] = "writing" /\ pc[q] = "writing" => p = q
  /\ \A p \in Procs : Past(p) => 2 <= file
  /\ 2 <= file \/ made = 0
  /\ made <= 1
  /\ \A p \in Procs : pc[p] # "off" => 1 <= starts

\* What an agent read and has still to settle, and what it holds, is what is
\* stored; only an agent at those steps has any.
MemoryIsStored ==
  \A p \in Procs, j \in Jobs :
    /\ found[p][j] # "none" => pc[p] = "settling" /\ rows[j] = found[p][j]
    /\ memory[p][j] # "none" =>
         pc[p] \in {"settling", "binding", "running"} /\ rows[j] = memory[p][j]

\* A job stored as not handed over was not.
UnsentIsUnsent == \A j \in Jobs : rows[j] \in {"none", "accepted", "not_printed"} => j \notin paper

StartInv ==
  /\ RestartIsSafe /\ OneAgent /\ CommandsStayOut
  /\ FileIsOwned /\ MemoryIsStored /\ UnsentIsUnsent

-----------------------------------------------------------------------------

\* An empty data directory, or the database of some version, satisfies it.
LEMMA StartInitInv == ASSUME StartInit PROVE StartInv
<1> USE StartAssumption DEF StartInit
<1>1. StartTypeOK
  BY DEF StartTypeOK, NoJobs, NoFile, Stages, Ended
<1>2. TokenIsTheFile /\ CanStartAgain /\ NotPrintedIsUnsent
  BY DEF TokenIsTheFile, CanStartAgain, NotPrintedIsUnsent, Past, NoFile, Empty
<1>3. OneAgent /\ CommandsStayOut /\ FileIsOwned /\ MemoryIsStored /\ UnsentIsUnsent
  BY DEF OneAgent, CommandsStayOut, FileIsOwned, MemoryIsStored, UnsentIsUnsent, Past, NoJobs
<1> QED
  BY <1>1, <1>2, <1>3 DEF StartInv, RestartIsSafe

\* A process that ends, anywhere but while it writes the token.
LEMMA EndsInv ==
  ASSUME StartInv, NEW p \in Procs,
         Ends(p), pc[p] # "writing",
         version' = version, UNCHANGED <<kind, schema, rows, file, paper, starts, made>>
  PROVE  StartInv'
<1> USE StartAssumption DEF Ends, Goes
<1>0. /\ StartTypeOK /\ TokenIsTheFile /\ CanStartAgain /\ NotPrintedIsUnsent
      /\ OneAgent /\ CommandsStayOut /\ FileIsOwned /\ MemoryIsStored /\ UnsentIsUnsent
  BY DEF StartInv, RestartIsSafe
<1>1. StartTypeOK'
  BY <1>0 DEF FileIsOwned, StartTypeOK, NoJobs, NoFile, Empty, Stages, Ended
<1>2. TokenIsTheFile'
  BY <1>0 DEF StartTypeOK, TokenIsTheFile, FileIsOwned, Past, NoFile, Empty
<1>3. CanStartAgain'
  BY <1>0 DEF StartTypeOK, CanStartAgain, FileIsOwned, NoFile, Empty
<1>4. NotPrintedIsUnsent'
  BY <1>0 DEF StartTypeOK, NotPrintedIsUnsent, UnsentIsUnsent, MemoryIsStored, Stages, Ended
<1>5. OneAgent'
  BY <1>0 DEF StartTypeOK, OneAgent
<1>6. CommandsStayOut'
  BY <1>0 DEF StartTypeOK, CommandsStayOut
<1>7. FileIsOwned'
  BY <1>0 DEF StartTypeOK, FileIsOwned, CanStartAgain, Past, NoFile, Empty
<1>8. MemoryIsStored'
  BY <1>0 DEF StartTypeOK, MemoryIsStored, OneAgent, CommandsStayOut, NoJobs, Stages, Ended
<1>9. UnsentIsUnsent'
  BY <1>0 DEF StartTypeOK, UnsentIsUnsent, MemoryIsStored, Stages, Ended
<1> QED
  BY <1>1, <1>2, <1>3, <1>4, <1>5, <1>6, <1>7, <1>8, <1>9 DEF StartInv, RestartIsSafe

\* A process that is started, if it is the only agent.
LEMMA BeginsInv ==
  ASSUME StartInv, NEW p \in Procs,
         ~Twice, Start(p) \/ TokenCommand(p)
  PROVE  StartInv'
<1> USE StartAssumption DEF Start, TokenCommand, Goes
<1>0. /\ StartTypeOK /\ TokenIsTheFile /\ CanStartAgain /\ NotPrintedIsUnsent
      /\ OneAgent /\ CommandsStayOut /\ FileIsOwned /\ MemoryIsStored /\ UnsentIsUnsent
  BY DEF StartInv, RestartIsSafe
<1>1. StartTypeOK'
  <2>1. CASE Start(p)
    BY <1>0, <2>1 DEF StartTypeOK, NoJobs, NoFile, Empty, Stages, Ended
  <2>2. CASE TokenCommand(p)
    BY <1>0, <2>2 DEF StartTypeOK, NoJobs, NoFile, Empty, Stages, Ended
  <2> QED
    BY <2>1, <2>2
<1>2. TokenIsTheFile'
  BY <1>0 DEF StartTypeOK, TokenIsTheFile, FileIsOwned, Past, NoFile, Empty
<1>3. CanStartAgain'
  BY <1>0 DEF StartTypeOK, CanStartAgain, FileIsOwned, NoFile, Empty
<1>4. NotPrintedIsUnsent'
  BY <1>0 DEF StartTypeOK, NotPrintedIsUnsent, UnsentIsUnsent, MemoryIsStored, Stages, Ended
<1>5. OneAgent'
  BY <1>0 DEF StartTypeOK, OneAgent
<1>6. CommandsStayOut'
  BY <1>0 DEF StartTypeOK, CommandsStayOut
<1>7. FileIsOwned'
  <2>1. CASE Start(p)
    BY <1>0, <2>1 DEF StartTypeOK, FileIsOwned, Past, NoFile, Empty
  <2>2. CASE TokenCommand(p)
    BY <1>0, <2>2 DEF StartTypeOK, FileIsOwned, Past, NoFile, Empty
  <2> QED
    BY <2>1, <2>2
<1>8. MemoryIsStored'
  BY <1>0 DEF StartTypeOK, MemoryIsStored, OneAgent, CommandsStayOut, NoJobs, Stages, Ended
<1>9. UnsentIsUnsent'
  BY <1>0 DEF StartTypeOK, UnsentIsUnsent, MemoryIsStored, Stages, Ended
<1> QED
  BY <1>1, <1>2, <1>3, <1>4, <1>5, <1>6, <1>7, <1>8, <1>9 DEF StartInv, RestartIsSafe

\* An agent that opens the database and migrates it.
LEMMA OpensInv ==
  ASSUME StartInv, NEW p \in Procs,
         \/ ReadVersion(p) /\ pc'[p] # "off"
         \/ Migrate(p) /\ pc'[p] # "off"
         \/ Opened(p)
  PROVE  StartInv'
<1> USE StartAssumption DEF ReadVersion, Migrate, Opened, Ends, Goes
<1>0. /\ StartTypeOK /\ TokenIsTheFile /\ CanStartAgain /\ NotPrintedIsUnsent
      /\ OneAgent /\ CommandsStayOut /\ FileIsOwned /\ MemoryIsStored /\ UnsentIsUnsent
  BY DEF StartInv, RestartIsSafe
<1>1. StartTypeOK'
  <2>1. CASE ReadVersion(p) /\ pc'[p] # "off"
    <3>1. /\ schema.version <= Migrations /\ version' = [version EXCEPT ![p] = schema.version]
          /\ pc' = [pc EXCEPT ![p] = "migrating"]
          /\ UNCHANGED <<kind, found, memory, token, schema, rows, file, port, paper, starts, made>>
      BY <1>0, <2>1 DEF StartTypeOK
    <3> HIDE DEF ReadVersion, Migrate, Opened, Ends, Goes, ReadToken, CreateToken, WriteToken, WithToken
    <3> QED
      BY <1>0, <3>1 DEF StartTypeOK, NoFile, Empty, NoJobs, Stages, Ended
  <2>2. CASE Migrate(p) /\ pc'[p] # "off"
    <3>1. /\ version[p] < Migrations /\ version' = [version EXCEPT ![p] = version[p] + 1]
          /\ schema' = [version |-> version[p] + 1, applied |-> version[p] + 1]
          /\ UNCHANGED <<pc, kind, found, memory, token, rows, file, port, paper, starts, made>>
      BY <1>0, <2>2 DEF StartTypeOK
    <3> HIDE DEF ReadVersion, Migrate, Opened, Ends, Goes, ReadToken, CreateToken, WriteToken, WithToken
    <3> QED
      BY <1>0, <3>1 DEF StartTypeOK, NoFile, Empty, NoJobs, Stages, Ended
  <2>3. CASE Opened(p)
    BY <1>0, <2>3 DEF StartTypeOK, NoJobs, NoFile, Empty, Stages, Ended
  <2> QED
    BY <2>1, <2>2, <2>3
<1>2. TokenIsTheFile'
  BY <1>0 DEF StartTypeOK, TokenIsTheFile, FileIsOwned, Past, NoFile, Empty
<1>3. CanStartAgain'
  BY <1>0 DEF StartTypeOK, CanStartAgain, FileIsOwned, NoFile, Empty
<1>4. NotPrintedIsUnsent'
  BY <1>0 DEF StartTypeOK, NotPrintedIsUnsent, UnsentIsUnsent, MemoryIsStored, Stages, Ended
<1>5. OneAgent'
  BY <1>0 DEF StartTypeOK, OneAgent
<1>6. CommandsStayOut'
  BY <1>0 DEF StartTypeOK, CommandsStayOut
<1>7. FileIsOwned'
  <2>1. /\ pc[p] \in {"opening", "migrating"} /\ UNCHANGED <<file, made, starts>>
        /\ pc' = pc \/ \E w \in {"migrating", "token"} : pc' = [pc EXCEPT ![p] = w]
    BY <1>0 DEF StartTypeOK
  <2> HIDE DEF ReadVersion, Migrate, Opened, Ends, Goes
  <2> QED
    BY <1>0, <2>1 DEF StartTypeOK, FileIsOwned, Past
<1>8. MemoryIsStored'
  BY <1>0 DEF StartTypeOK, MemoryIsStored, OneAgent, CommandsStayOut, NoJobs, Stages, Ended
<1>9. UnsentIsUnsent'
  BY <1>0 DEF StartTypeOK, UnsentIsUnsent, MemoryIsStored, Stages, Ended
<1> QED
  BY <1>1, <1>2, <1>3, <1>4, <1>5, <1>6, <1>7, <1>8, <1>9 DEF StartInv, RestartIsSafe

\* A process that reads, creates or writes the token file.
LEMMA TokenInv ==
  ASSUME StartInv, NEW p \in Procs,
         \/ ReadToken(p) /\ pc'[p] # "off"
         \/ CreateToken(p) /\ pc'[p] # "off"
         \/ WriteToken(p)
  PROVE  StartInv'
<1> USE StartAssumption DEF ReadToken, CreateToken, WriteToken, WithToken, Ends, Goes
<1>0. /\ StartTypeOK /\ TokenIsTheFile /\ CanStartAgain /\ NotPrintedIsUnsent
      /\ OneAgent /\ CommandsStayOut /\ FileIsOwned /\ MemoryIsStored /\ UnsentIsUnsent
  BY DEF StartInv, RestartIsSafe
<1>1. StartTypeOK'
  <2>1. CASE ReadToken(p) /\ pc'[p] # "off"
    <3>1. /\ \E w \in {"creating", "shown", "reading"} : pc' = [pc EXCEPT ![p] = w]
          /\ token' = token \/ token' = [token EXCEPT ![p] = file]
          /\ UNCHANGED <<kind, version, found, memory, schema, rows, file, port, paper, starts, made>>
      BY <1>0, <2>1 DEF StartTypeOK
    <3> HIDE DEF ReadVersion, Migrate, Opened, Ends, Goes, ReadToken, CreateToken, WriteToken, WithToken
    <3> QED
      BY <1>0, <3>1 DEF StartTypeOK, NoFile, Empty, NoJobs, Stages, Ended
  <2>2. CASE CreateToken(p) /\ pc'[p] # "off"
    <3>1. /\ file' = Empty /\ pc' = [pc EXCEPT ![p] = "writing"]
          /\ UNCHANGED <<kind, version, found, memory, token, schema, rows, port, paper, starts, made>>
      BY <1>0, <2>2 DEF StartTypeOK
    <3> HIDE DEF ReadVersion, Migrate, Opened, Ends, Goes, ReadToken, CreateToken, WriteToken, WithToken
    <3> QED
      BY <1>0, <3>1 DEF StartTypeOK, NoFile, Empty, NoJobs, Stages, Ended
  <2>3. CASE WriteToken(p)
    BY <1>0, <2>3 DEF StartTypeOK, NoJobs, NoFile, Empty, Stages, Ended, FileIsOwned
  <2> QED
    BY <2>1, <2>2, <2>3
<1>2. TokenIsTheFile'
  BY <1>0 DEF StartTypeOK, TokenIsTheFile, FileIsOwned, Past, NoFile, Empty
<1>3. CanStartAgain'
  BY <1>0 DEF StartTypeOK, CanStartAgain, FileIsOwned, NoFile, Empty
<1>4. NotPrintedIsUnsent'
  BY <1>0 DEF StartTypeOK, NotPrintedIsUnsent, UnsentIsUnsent, MemoryIsStored, Stages, Ended
<1>5. OneAgent'
  BY <1>0 DEF StartTypeOK, OneAgent
<1>6. CommandsStayOut'
  BY <1>0 DEF StartTypeOK, CommandsStayOut
<1>7. FileIsOwned'
  BY <1>0 DEF StartTypeOK, FileIsOwned, CanStartAgain, Past, NoFile, Empty
<1>8. MemoryIsStored'
  BY <1>0 DEF StartTypeOK, MemoryIsStored, OneAgent, CommandsStayOut, NoJobs, Stages, Ended
<1>9. UnsentIsUnsent'
  BY <1>0 DEF StartTypeOK, UnsentIsUnsent, MemoryIsStored, Stages, Ended
<1> QED
  BY <1>1, <1>2, <1>3, <1>4, <1>5, <1>6, <1>7, <1>8, <1>9 DEF StartInv, RestartIsSafe

\* An agent that reads the unfinished jobs, is done with them, or listens.
LEMMA ReadsInv ==
  ASSUME StartInv, NEW p \in Procs,
         \/ ReadUnfinished(p) \/ SettledAll(p)
         \/ Bind(p) /\ pc'[p] # "off"
  PROVE  StartInv'
<1> USE StartAssumption DEF ReadUnfinished, SettledAll, Bind, Ends, Goes
<1>0. /\ StartTypeOK /\ TokenIsTheFile /\ CanStartAgain /\ NotPrintedIsUnsent
      /\ OneAgent /\ CommandsStayOut /\ FileIsOwned /\ MemoryIsStored /\ UnsentIsUnsent
  BY DEF StartInv, RestartIsSafe
<1>1. StartTypeOK'
  <2>1. CASE ReadUnfinished(p)
    BY <1>0, <2>1 DEF StartTypeOK, NoJobs, NoFile, Empty, Stages, Ended
  <2>2. CASE SettledAll(p)
    BY <1>0, <2>2 DEF StartTypeOK, NoJobs, NoFile, Empty, Stages, Ended
  <2>3. CASE Bind(p) /\ pc'[p] # "off"
    BY <1>0, <2>3 DEF StartTypeOK, NoJobs, NoFile, Empty, Stages, Ended
  <2> QED
    BY <2>1, <2>2, <2>3
<1>2. TokenIsTheFile'
  BY <1>0 DEF StartTypeOK, TokenIsTheFile, FileIsOwned, Past, NoFile, Empty
<1>3. CanStartAgain'
  BY <1>0 DEF StartTypeOK, CanStartAgain, FileIsOwned, NoFile, Empty
<1>4. NotPrintedIsUnsent'
  BY <1>0 DEF StartTypeOK, NotPrintedIsUnsent, UnsentIsUnsent, MemoryIsStored, Stages, Ended
<1>5. OneAgent'
  <2>1. CASE ReadUnfinished(p)
    BY <1>0, <2>1 DEF StartTypeOK, OneAgent
  <2>2. CASE SettledAll(p)
    BY <1>0, <2>2 DEF StartTypeOK, OneAgent
  <2>3. CASE Bind(p) /\ pc'[p] # "off"
    BY <1>0, <2>3 DEF StartTypeOK, OneAgent
  <2> QED
    BY <2>1, <2>2, <2>3
<1>6. CommandsStayOut'
  BY <1>0 DEF StartTypeOK, CommandsStayOut
<1>7. FileIsOwned'
  BY <1>0 DEF StartTypeOK, FileIsOwned, CanStartAgain, Past, NoFile, Empty
<1>8. MemoryIsStored'
  BY <1>0 DEF StartTypeOK, MemoryIsStored, OneAgent, CommandsStayOut, NoJobs, Stages, Ended
<1>9. UnsentIsUnsent'
  BY <1>0 DEF StartTypeOK, UnsentIsUnsent, MemoryIsStored, Stages, Ended
<1> QED
  BY <1>1, <1>2, <1>3, <1>4, <1>5, <1>6, <1>7, <1>8, <1>9 DEF StartInv, RestartIsSafe

\* An agent that settles a job it found.
LEMMA SettleInv ==
  ASSUME StartInv, NEW p \in Procs,
         NEW j \in Jobs, Settle(p, j)
  PROVE  StartInv'
<1> USE StartAssumption DEF Settle, Settled
<1>0. /\ StartTypeOK /\ TokenIsTheFile /\ CanStartAgain /\ NotPrintedIsUnsent
      /\ OneAgent /\ CommandsStayOut /\ FileIsOwned /\ MemoryIsStored /\ UnsentIsUnsent
  BY DEF StartInv, RestartIsSafe
<1>1. StartTypeOK'
  BY <1>0 DEF FileIsOwned, StartTypeOK, NoJobs, NoFile, Empty, Stages, Ended
<1>2. TokenIsTheFile'
  BY <1>0 DEF StartTypeOK, TokenIsTheFile, FileIsOwned, Past, NoFile, Empty
<1>3. CanStartAgain'
  BY <1>0 DEF StartTypeOK, CanStartAgain, FileIsOwned, NoFile, Empty
<1>4. NotPrintedIsUnsent'
  BY <1>0 DEF StartTypeOK, NotPrintedIsUnsent, UnsentIsUnsent, MemoryIsStored, Stages, Ended
<1>5. OneAgent'
  BY <1>0 DEF StartTypeOK, OneAgent
<1>6. CommandsStayOut'
  BY <1>0 DEF StartTypeOK, CommandsStayOut
<1>7. FileIsOwned'
  BY <1>0 DEF StartTypeOK, FileIsOwned, CanStartAgain, Past, NoFile, Empty
<1>8. MemoryIsStored'
  <2> SUFFICES ASSUME NEW q \in Procs, NEW i \in Jobs
               PROVE  /\ found'[q][i] # "none" => pc'[q] = "settling" /\ rows'[i] = found'[q][i]
                      /\ memory'[q][i] # "none" =>
                           /\ pc'[q] \in {"settling", "binding", "running"}
                           /\ rows'[i] = memory'[q][i]
    BY DEF MemoryIsStored
  <2>1. CASE q = p
    BY <1>0, <2>1 DEF StartTypeOK, MemoryIsStored, Ended, Stages
  <2>2. CASE q # p
    <3>1. kind[p] = "agent" /\ pc[p] # "off"
      BY <1>0 DEF StartTypeOK, CommandsStayOut
    <3>2. pc[q] \notin {"settling", "binding", "running"}
      BY <1>0, <2>2, <3>1 DEF StartTypeOK, OneAgent, CommandsStayOut
    <3>3. found[q][i] = "none" /\ memory[q][i] = "none"
      BY <1>0, <3>2 DEF MemoryIsStored
    <3>4. found'[q][i] = found[q][i] /\ memory'[q][i] = memory[q][i]
      BY <1>0, <2>2 DEF StartTypeOK
    <3> QED
      BY <3>3, <3>4
  <2> QED
    BY <2>1, <2>2
<1>9. UnsentIsUnsent'
  BY <1>0 DEF StartTypeOK, UnsentIsUnsent, MemoryIsStored, Stages, Ended
<1> QED
  BY <1>1, <1>2, <1>3, <1>4, <1>5, <1>6, <1>7, <1>8, <1>9 DEF StartInv, RestartIsSafe

\* A running agent that takes, sends and follows a job.
LEMMA RunsInv ==
  ASSUME StartInv, NEW p \in Procs,
         NEW j \in Jobs,
         \/ Accept(p, j) \/ BeginSubmit(p, j) \/ HandOver(p, j)
         \/ RecordSent(p, j) \/ Complete(p, j)
  PROVE  StartInv'
<1> USE StartAssumption DEF Accept, BeginSubmit, HandOver, RecordSent, Complete, Stored
<1>0. /\ StartTypeOK /\ TokenIsTheFile /\ CanStartAgain /\ NotPrintedIsUnsent
      /\ OneAgent /\ CommandsStayOut /\ FileIsOwned /\ MemoryIsStored /\ UnsentIsUnsent
  BY DEF StartInv, RestartIsSafe
<1>1. StartTypeOK'
  <2>1. CASE Accept(p, j)
    BY <1>0, <2>1 DEF StartTypeOK, NoJobs, NoFile, Empty, Stages, Ended
  <2>2. CASE BeginSubmit(p, j)
    BY <1>0, <2>2 DEF StartTypeOK, NoJobs, NoFile, Empty, Stages, Ended
  <2>3. CASE HandOver(p, j)
    BY <1>0, <2>3 DEF StartTypeOK, NoJobs, NoFile, Empty, Stages, Ended
  <2>4. CASE RecordSent(p, j)
    BY <1>0, <2>4 DEF StartTypeOK, NoJobs, NoFile, Empty, Stages, Ended
  <2>5. CASE Complete(p, j)
    BY <1>0, <2>5 DEF StartTypeOK, NoJobs, NoFile, Empty, Stages, Ended
  <2> QED
    BY <2>1, <2>2, <2>3, <2>4, <2>5
<1>2. TokenIsTheFile'
  BY <1>0 DEF StartTypeOK, TokenIsTheFile, FileIsOwned, Past, NoFile, Empty
<1>3. CanStartAgain'
  BY <1>0 DEF StartTypeOK, CanStartAgain, FileIsOwned, NoFile, Empty
<1>4. NotPrintedIsUnsent'
  BY <1>0 DEF StartTypeOK, NotPrintedIsUnsent, UnsentIsUnsent, MemoryIsStored, Stages, Ended
<1>5. OneAgent'
  BY <1>0 DEF StartTypeOK, OneAgent
<1>6. CommandsStayOut'
  BY <1>0 DEF StartTypeOK, CommandsStayOut
<1>7. FileIsOwned'
  BY <1>0 DEF StartTypeOK, FileIsOwned, CanStartAgain, Past, NoFile, Empty
<1>8. MemoryIsStored'
  <2> SUFFICES ASSUME NEW q \in Procs, NEW i \in Jobs
               PROVE  /\ found'[q][i] # "none" => pc'[q] = "settling" /\ rows'[i] = found'[q][i]
                      /\ memory'[q][i] # "none" =>
                           /\ pc'[q] \in {"settling", "binding", "running"}
                           /\ rows'[i] = memory'[q][i]
    BY DEF MemoryIsStored
  <2>1. CASE q = p
    BY <1>0, <2>1 DEF StartTypeOK, MemoryIsStored, Ended, Stages
  <2>2. CASE q # p
    <3>1. kind[p] = "agent" /\ pc[p] # "off"
      BY <1>0 DEF StartTypeOK, CommandsStayOut
    <3>2. pc[q] \notin {"settling", "binding", "running"}
      BY <1>0, <2>2, <3>1 DEF StartTypeOK, OneAgent, CommandsStayOut
    <3>3. found[q][i] = "none" /\ memory[q][i] = "none"
      BY <1>0, <3>2 DEF MemoryIsStored
    <3>4. found'[q][i] = found[q][i] /\ memory'[q][i] = memory[q][i]
      BY <1>0, <2>2 DEF StartTypeOK
    <3> QED
      BY <3>3, <3>4
  <2> QED
    BY <2>1, <2>2
<1>9. UnsentIsUnsent'
  BY <1>0 DEF StartTypeOK, UnsentIsUnsent, MemoryIsStored, Stages, Ended
<1> QED
  BY <1>1, <1>2, <1>3, <1>4, <1>5, <1>6, <1>7, <1>8, <1>9 DEF StartInv, RestartIsSafe

\* Every step of every process keeps it.
LEMMA StartNextInv ==
  ASSUME StartInv, ~Twice, ~KilledWriting, StartNext
  PROVE  StartInv'
<1>1. PICK p \in Procs :
        \/ Start(p) \/ TokenCommand(p) \/ Dies(p)
        \/ ReadVersion(p) \/ Migrate(p) \/ Opened(p)
        \/ ReadToken(p) \/ CreateToken(p) \/ WriteToken(p)
        \/ ReadUnfinished(p) \/ SettledAll(p) \/ Bind(p)
        \/ \E j \in Jobs : \/ Settle(p, j) \/ Accept(p, j) \/ BeginSubmit(p, j)
                           \/ HandOver(p, j) \/ RecordSent(p, j) \/ Complete(p, j)
  BY DEF StartNext
<1>2. pc \in [Procs -> {"off", "opening", "migrating", "token", "creating", "writing",
                        "reading", "settling", "binding", "running", "shown"}]
  BY DEF StartInv, RestartIsSafe, StartTypeOK
<1>3. CASE Dies(p)
  BY <1>3, EndsInv DEF Dies
<1>4. CASE Start(p) \/ TokenCommand(p)
  BY <1>4, BeginsInv
<1>5. CASE ReadVersion(p)
  <2>1. CASE pc'[p] = "off"
    <3>1. Ends(p) /\ UNCHANGED <<version, kind, schema, rows, file, paper, starts, made>>
      BY <1>2, <1>5, <2>1 DEF ReadVersion, Goes
    <3> QED
      BY <1>5, <3>1, EndsInv DEF ReadVersion
  <2> QED
    BY <1>5, <2>1, OpensInv
<1>6. CASE Migrate(p)
  <2>1. CASE pc'[p] = "off"
    <3>1. Ends(p) /\ UNCHANGED <<version, kind, schema, rows, file, paper, starts, made>>
      BY <1>2, <1>6, <2>1 DEF Migrate
    <3> QED
      BY <1>6, <3>1, EndsInv DEF Migrate
  <2> QED
    BY <1>6, <2>1, OpensInv
<1>7. CASE Opened(p)
  BY <1>7, OpensInv
<1>8. CASE ReadToken(p)
  <2>1. CASE pc'[p] = "off"
    <3>1. Ends(p) /\ UNCHANGED <<version, kind, schema, rows, file, paper, starts, made>>
      BY <1>2, <1>8, <2>1 DEF ReadToken, WithToken, Goes, NoFile, Empty
    <3> QED
      BY <1>8, <3>1, EndsInv DEF ReadToken
  <2> QED
    BY <1>8, <2>1, TokenInv
<1>9. CASE CreateToken(p)
  <2>1. CASE pc'[p] = "off"
    <3>1. Ends(p) /\ UNCHANGED <<version, kind, schema, rows, file, paper, starts, made>>
      BY <1>2, <1>9, <2>1 DEF CreateToken, Goes
    <3> QED
      BY <1>9, <3>1, EndsInv DEF CreateToken
  <2> QED
    BY <1>9, <2>1, TokenInv
<1>10. CASE WriteToken(p)
  BY <1>10, TokenInv
<1>11. CASE ReadUnfinished(p) \/ SettledAll(p)
  BY <1>11, ReadsInv
<1>12. CASE Bind(p)
  <2>1. CASE pc'[p] = "off"
    <3>1. Ends(p) /\ UNCHANGED <<version, kind, schema, rows, file, paper, starts, made>>
      BY <1>2, <1>12, <2>1 DEF Bind, Goes
    <3> QED
      BY <1>12, <3>1, EndsInv DEF Bind
  <2> QED
    BY <1>12, <2>1, ReadsInv
<1>13. ASSUME NEW j \in Jobs, Settle(p, j) PROVE StartInv'
  BY <1>13, SettleInv
<1>14. ASSUME NEW j \in Jobs,
              \/ Accept(p, j) \/ BeginSubmit(p, j) \/ HandOver(p, j)
              \/ RecordSent(p, j) \/ Complete(p, j)
       PROVE  StartInv'
  BY <1>14, RunsInv
<1> QED
  BY <1>1, <1>3, <1>4, <1>5, <1>6, <1>7, <1>8, <1>9, <1>10, <1>11, <1>12, <1>13, <1>14

\* A step that changes nothing keeps it.
LEMMA StartStutters == ASSUME StartInv, UNCHANGED startVars PROVE StartInv'
<1> USE DEF startVars
<1>1. RestartIsSafe'
  BY DEF StartInv, RestartIsSafe, StartTypeOK, TokenIsTheFile, CanStartAgain,
         NotPrintedIsUnsent, Past
<1>2. (OneAgent /\ CommandsStayOut /\ FileIsOwned /\ MemoryIsStored /\ UnsentIsUnsent)'
  BY DEF StartInv, OneAgent, CommandsStayOut, FileIsOwned, MemoryIsStored, UnsentIsUnsent, Past
<1> QED
  BY <1>1, <1>2 DEF StartInv

\* For any processes, jobs and migrations: with one agent at a time, and unless a
\* process dies between creating and writing the token file, every start finds a
\* usable data directory, agent and token command agree on the token, and no job
\* that reached a printer is settled as not printed (start, init,
\* load_or_create_admin_token, reconcile_after_restart).
THEOREM StartsAreSafe ==
  ASSUME ~Twice, ~KilledWriting PROVE StartSpec => []RestartIsSafe
<1>1. StartInit => StartInv
  BY StartInitInv
<1>2. StartInv /\ [StartNext]_startVars => StartInv'
  BY StartNextInv, StartStutters
<1>3. StartInv => RestartIsSafe
  BY DEF StartInv
<1> QED
  BY <1>1, <1>2, <1>3, PTL DEF StartSpec

-----------------------------------------------------------------------------
(* The service.                                                            *)

\* Printers are told apart by their names, in whatever case they are written.
OneNameEach == \A p, q \in Printers : Fold[NameOf[p]] = Fold[NameOf[q]] => p = q

\* Answers that differ at most in the printerId of an error.
Alike(a, b) == a.ok = b.ok /\ a.value = b.value

\* No client is called what a list that asks for nobody is told.
AnyIsNobody == "any" \notin Principals

ServiceInv ==
  /\ ApiTypeOK
  /\ known = [j \in DOMAIN known |-> known[j]]

-----------------------------------------------------------------------------

\* A job is in a client's view if the client may see it.
LEMMA SeenIsOwn ==
  ASSUME NEW c, NEW j \in DOMAIN known
  PROVE /\ DOMAIN JobsFor(c) \subseteq DOMAIN known
        /\ \A i \in DOMAIN JobsFor(c) : JobsFor(c)[i] = known[i]
        /\ j \in DOMAIN JobsFor(c) <=> Has(c, "jobs.read.all") \/ known[j].client = c
        /\ CanSee(c, known[j]) => j \in DOMAIN JobsFor(c)
BY DEF JobsFor, CanSee

\* The view of a client that may read all jobs is all of them.
LEMMA AllIsKnown ==
  ASSUME ServiceInv, NEW c, Has(c, "jobs.read.all")
  PROVE JobsFor(c) = known
BY DEF JobsFor, ServiceInv

\* get_job does not tell a foreign job from none.
LEMMA SameJob ==
  ASSUME NEW c, NEW j
  PROVE GetJob(c, j, known) = GetJob(c, j, JobsFor(c))
<1>1. CASE j \in DOMAIN known
  <2>1. CASE CanSee(c, known[j])
    BY <1>1, <2>1, SeenIsOwn DEF GetJob
  <2>2. CASE ~CanSee(c, known[j])
    BY <1>1, <2>2, SeenIsOwn DEF GetJob
  <2> QED BY <2>1, <2>2
<1>2. CASE j \notin DOMAIN known
  <2>1. j \notin DOMAIN JobsFor(c)
    BY <1>2 DEF JobsFor
  <2> QED BY <1>2, <2>1 DEF GetJob
<1> QED BY <1>1, <1>2

\* At most one printer is meant, and it is meant as well if the others do not
\* exist.
LEMMA ChosenOwn ==
  ASSUME OneNameEach, NEW c, NEW sel \in Selectors
  PROVE /\ Chosen(sel, PrintersFor(c)) = Chosen(sel, Printers) \cap Scopes[c]
        /\ \A p, q \in Chosen(sel, Printers) : p = q
<1>1. CASE sel.by = "id"
  BY <1>1 DEF Chosen, PrintersFor
<1>2. CASE sel.by # "id"
  <2> DEFINE Exact(S) == {p \in S : NameOf[p] = sel.what}
  <2> DEFINE Like(S) == {p \in S : Fold[NameOf[p]] = Fold[sel.what]}
  <2>1. \A p, q \in Like(Printers) : p = q
    BY DEF OneNameEach
  <2>2. ASSUME NEW S \in SUBSET Printers PROVE Chosen(sel, S) = Like(S)
    <3>1. Chosen(sel, S) = IF Exact(S) # {} THEN Exact(S) ELSE Like(S)
      BY <1>2 DEF Chosen
    <3>2. Exact(S) \subseteq Like(S) /\ Like(S) \subseteq Like(Printers)
      OBVIOUS
    <3>3. Exact(S) # {} => Exact(S) = Like(S)
      BY <2>1, <3>2
    <3> QED BY <3>1, <3>3
  <2>3. Chosen(sel, Printers) = Like(Printers) /\ Chosen(sel, PrintersFor(c)) = Like(PrintersFor(c))
    BY <2>2 DEF PrintersFor
  <2>4. Like(PrintersFor(c)) = Like(Printers) \cap Scopes[c]
    BY DEF PrintersFor
  <2> QED BY <2>1, <2>3, <2>4
<1> QED BY <1>1, <1>2

\* visible_printer does not tell a hidden printer from none, but for the
\* printerId.
LEMMA SamePrinter ==
  ASSUME OneNameEach, NEW c, NEW sel \in Selectors
  PROVE /\ Alike(Visible(c, sel, Printers), Visible(c, sel, PrintersFor(c)))
        /\ Visible(c, sel, Printers).ok \in BOOLEAN
<1> DEFINE all == Chosen(sel, Printers)
<1> DEFINE own == Chosen(sel, PrintersFor(c))
<1>1. own = all \cap Scopes[c] /\ \A p, q \in all : p = q
  BY ChosenOwn
<1>2. all # {} => (CHOOSE p \in all : TRUE) \in all
  OBVIOUS
<1>3. /\ Unknown(sel).ok = FALSE /\ Unknown(sel).value = <<"NotFound", sel.what>>
      /\ Missing(sel.what).ok = FALSE /\ Missing(sel.what).value = <<"NotFound", sel.what>>
      /\ \A p : Ok(p).ok = TRUE
  BY DEF Unknown, Missing, Ok
<1>4. CASE own = {}
  <2>1. Visible(c, sel, PrintersFor(c)) = Unknown(sel)
    BY <1>4 DEF Visible
  <2>2. Visible(c, sel, Printers) \in {Unknown(sel), Missing(sel.what)}
    BY <1>1, <1>2, <1>4 DEF Visible
  <2> HIDE DEF own, all
  <2> QED BY <1>3, <2>1, <2>2 DEF Alike
<1>5. CASE own # {}
  <2>1. own = all
    BY <1>1, <1>5
  <2>2. Visible(c, sel, Printers) = Visible(c, sel, PrintersFor(c))
    BY <2>1 DEF Visible
  <2>3. (CHOOSE p \in all : TRUE) \in Scopes[c] /\ all # {}
    BY <1>1, <1>2, <1>5, <2>1
  <2>4. Visible(c, sel, Printers) = Ok(CHOOSE p \in all : TRUE)
    BY <2>3 DEF Visible
  <2> HIDE DEF own, all
  <2> QED BY <1>3, <2>2, <2>4 DEF Alike
<1> QED BY <1>4, <1>5

\* list_jobs shows what is in the client's view.
LEMMA SameList ==
  ASSUME ServiceInv, AnyIsNobody, NEW c \in Principals, NEW whose
  PROVE ListJobs(c, whose, known) = ListJobs(c, whose, JobsFor(c))
<1>1. CASE Has(c, "jobs.read.all")
  BY <1>1, AllIsKnown
<1>2. CASE ~Has(c, "jobs.read.all")
  <2>0. c # "any"
    BY DEF AnyIsNobody
  <2>1. {j \in DOMAIN known : known[j].client = c} = {j \in DOMAIN JobsFor(c) : JobsFor(c)[j].client = c}
    BY <1>2 DEF JobsFor
  <2>2. \A j \in {i \in DOMAIN known : known[i].client = c} : JobsFor(c)[j] = known[j]
    BY <1>2 DEF JobsFor
  <2>3. {<<j, known[j]>> : j \in {i \in DOMAIN known : known[i].client = c}}
          = {<<j, JobsFor(c)[j]>> : j \in {i \in DOMAIN JobsFor(c) : JobsFor(c)[i].client = c}}
    BY <2>1, <2>2
  <2> QED BY <1>2, <2>0, <2>3 DEF ListJobs
<1> QED BY <1>1, <1>2

\* cancel_job decides from the client's view.
LEMMA SameCancel ==
  ASSUME NEW c, NEW j
  PROVE MayCancel(c, j, known) = MayCancel(c, j, JobsFor(c))
BY SameJob, Zenon DEF MayCancel

\* queue shows the client's own jobs that wait in the agent, and places.
LEMMA SameQueue ==
  ASSUME ServiceInv, OneNameEach, NEW c \in Principals, NEW sel \in Selectors
  PROVE Alike(Queue(c, sel, known, Printers), Queue(c, sel, JobsFor(c), PrintersFor(c)))
<1>1. /\ Alike(Visible(c, sel, Printers), Visible(c, sel, PrintersFor(c)))
      /\ Visible(c, sel, Printers).ok \in BOOLEAN
  BY SamePrinter
<1> DEFINE at(p, jobs) == {<<j, jobs[j]>> : j \in {j \in DOMAIN jobs : jobs[j].printer = p /\ jobs[j].stage = "accepted"}}
<1> DEFINE mine(p, jobs) == {e \in at(p, jobs) : Has(c, "jobs.read.all") \/ e[2].client = c}
<1>2. ASSUME NEW p PROVE mine(p, known) = mine(p, JobsFor(c))
  <2>1. CASE Has(c, "jobs.read.all")
    BY <2>1, AllIsKnown
  <2>2. CASE ~Has(c, "jobs.read.all")
    <3>1. ASSUME NEW e \in mine(p, known) PROVE e \in mine(p, JobsFor(c))
      <4>1. PICK j \in DOMAIN known : e = <<j, known[j]>> /\ known[j].printer = p /\ known[j].stage = "accepted"
        OBVIOUS
      <4>2. known[j].client = c
        BY <2>2, <4>1
      <4>3. j \in DOMAIN JobsFor(c) /\ JobsFor(c)[j] = known[j]
        BY <4>2 DEF JobsFor
      <4> QED BY <4>1, <4>2, <4>3
    <3>2. ASSUME NEW e \in mine(p, JobsFor(c)) PROVE e \in mine(p, known)
      <4>1. PICK j \in DOMAIN JobsFor(c) : e = <<j, JobsFor(c)[j]>> /\ JobsFor(c)[j].printer = p /\ JobsFor(c)[j].stage = "accepted"
        OBVIOUS
      <4>2. j \in DOMAIN known /\ JobsFor(c)[j] = known[j]
        BY <4>1 DEF JobsFor
      <4> QED BY <4>1, <4>2, <2>2
    <3> QED BY <3>1, <3>2
  <2> QED BY <2>1, <2>2
<1>3. mine(Visible(c, sel, Printers).value, known) = mine(Visible(c, sel, Printers).value, JobsFor(c))
  BY <1>2
<1>4. PICK s, o : s = Visible(c, sel, Printers) /\ o = Visible(c, sel, PrintersFor(c))
  OBVIOUS
<1>5. s.ok = o.ok /\ s.value = o.value
  BY <1>1, <1>4 DEF Alike
<1>6. CASE ~Has(c, "queue.read")
  BY <1>6 DEF Queue, Alike
<1>7. CASE Has(c, "queue.read") /\ ~s.ok
  <2>1. ~o.ok
    BY <1>5, <1>7
  <2>2. Queue(c, sel, known, Printers) = s
    BY <1>4, <1>7 DEF Queue
  <2>3. Queue(c, sel, JobsFor(c), PrintersFor(c)) = o
    BY <1>4, <1>7, <2>1 DEF Queue
  <2> QED BY <1>5, <2>2, <2>3 DEF Alike
<1>8. CASE Has(c, "queue.read") /\ s.ok
  <2>1. o.ok
    BY <1>5, <1>8
  <2>2. Queue(c, sel, known, Printers)
          = Ok([agent |-> mine(s.value, known), spooler |-> Redact(c, SpoolerQueue(s.value))])
    BY <1>4, <1>8 DEF Queue
  <2>3. Queue(c, sel, JobsFor(c), PrintersFor(c))
          = Ok([agent |-> mine(o.value, JobsFor(c)), spooler |-> Redact(c, SpoolerQueue(o.value))])
    BY <1>4, <1>8, <2>1 DEF Queue
  <2>4. mine(s.value, known) = mine(o.value, JobsFor(c))
    BY <1>3, <1>4, <1>5
  <2> HIDE DEF mine
  <2> QED BY <1>5, <2>2, <2>3, <2>4 DEF Alike
<1> QED BY <1>6, <1>7, <1>8

\* A redacted queue has every place and names nobody but the client itself.
LEMMA Redacted ==
  ASSUME NEW c, NEW sel, ~Has(c, "jobs.read.all"), Queue(c, sel, known, Printers).ok
  PROVE LET shown == Queue(c, sel, known, Printers).value.spooler
            all == SpoolerQueue(Visible(c, sel, Printers).value)
        IN /\ {e.spooler_job_id : e \in shown} = {e.spooler_job_id : e \in all}
           /\ \A e \in shown : \/ e.kiln_job.client = c
                              \/ /\ e.kiln_job = Nobody
                                 /\ e.document_name = "none" /\ e.status_text = "none"
<1>0. PICK seen : seen = Visible(c, sel, Printers)
  OBVIOUS
<1>1. Has(c, "queue.read") /\ seen.ok
  BY <1>0 DEF Queue, Denied, Err
<1>2. PICK all : all = SpoolerQueue(seen.value)
  OBVIOUS
<1>3. Queue(c, sel, known, Printers).value.spooler = Redact(c, all)
  BY <1>0, <1>1, <1>2 DEF Queue, Ok
<1> DEFINE Blank(e) ==
      [e EXCEPT !.document_name = "none", !.status_text = "none", !.kiln_job = Nobody]
<1> DEFINE Shown(e) == IF e.kiln_job.client = c THEN e ELSE Blank(e)
<1>4. Redact(c, all) = {Shown(e) : e \in all}
  BY DEF Redact
<1>5. \A e \in all : \E id, job : e = Entry(id, job)
  BY <1>2 DEF SpoolerQueue
<1>6. ASSUME NEW e \in all
      PROVE /\ Shown(e).spooler_job_id = e.spooler_job_id
            /\ \/ Shown(e).kiln_job.client = c
               \/ /\ Shown(e).kiln_job = Nobody
                  /\ Shown(e).document_name = "none" /\ Shown(e).status_text = "none"
  <2>1. PICK id, job : e = Entry(id, job)
    BY <1>5
  <2>2. CASE e.kiln_job.client = c
    BY <2>2
  <2>3. CASE e.kiln_job.client # c
    <3>1. Shown(e) = Blank(e)
      BY <2>3
    <3>2. /\ Blank(e).spooler_job_id = e.spooler_job_id /\ Blank(e).kiln_job = Nobody
          /\ Blank(e).document_name = "none" /\ Blank(e).status_text = "none"
      BY <2>1 DEF Entry
    <3> QED BY <3>1, <3>2
  <2> QED BY <2>2, <2>3
<1> HIDE DEF Shown
<1>7. {e.spooler_job_id : e \in Redact(c, all)} = {e.spooler_job_id : e \in all}
  BY <1>4, <1>6
<1> QED BY <1>0, <1>2, <1>3, <1>4, <1>6, <1>7

LEMMA SameAnswer ==
  ASSUME ServiceInv, OneNameEach, AnyIsNobody, NEW c \in Principals, NEW q \in Queries
  PROVE Alike(Answer(c, q, known, Printers), Answer(c, q, JobsFor(c), PrintersFor(c)))
<1>0. PrintersFor(c) = Printers \cap Scopes[c]
  BY DEF PrintersFor
<1>1. CASE q.op = "printers.list"
  <2>1. Printers \cap Scopes[c] = PrintersFor(c) \cap Scopes[c]
    BY <1>0
  <2> QED BY <1>1, <2>1, Zenon DEF Answer, Alike
<1>2. CASE q.op = "printers.default"
  <2>1. {DefaultPrinter} \cap Printers \cap Scopes[c] = {DefaultPrinter} \cap PrintersFor(c) \cap Scopes[c]
    BY <1>0
  <2> QED BY <1>2, <2>1, Zenon DEF Answer, Alike
<1>3. CASE q.op = "printers.get"
  <2>1. Alike(Visible(c, q.sel, Printers), Visible(c, q.sel, PrintersFor(c)))
    BY <1>3, SamePrinter DEF Queries
  <2> QED BY <1>3, <2>1, Zenon DEF Answer, Alike
<1>4. CASE q.op = "printers.capabilities"
  <2>1. Alike(Visible(c, q.sel, Printers), Visible(c, q.sel, PrintersFor(c)))
    BY <1>4, SamePrinter DEF Queries
  <2> QED BY <1>4, <2>1, Zenon DEF Answer, Alike
<1>5. CASE q.op = "jobs.list"
  <2>1. ListJobs(c, q.whose, known) = ListJobs(c, q.whose, JobsFor(c))
    BY SameList
  <2> QED BY <1>5, <2>1, Zenon DEF Answer, Alike
<1>6. CASE q.op = "jobs.get"
  <2>1. GetJob(c, q.job, known) = GetJob(c, q.job, JobsFor(c))
    BY SameJob
  <2> QED BY <1>6, <2>1, Zenon DEF Answer, Alike
<1>7. CASE q.op = "jobs.cancel"
  <2>1. MayCancel(c, q.job, known) = MayCancel(c, q.job, JobsFor(c))
    BY SameCancel
  <2> QED BY <1>7, <2>1, Zenon DEF Answer, Alike
<1>8. CASE q.op = "queue.list"
  <2>1. Printers \cap Scopes[c] = PrintersFor(c) \cap Scopes[c]
    BY <1>0
  <2> QED BY <1>8, <2>1, Zenon DEF Answer, Alike
<1>9. CASE q.op = "queue.get"
  <2>1. Alike(Queue(c, q.sel, known, Printers), Queue(c, q.sel, JobsFor(c), PrintersFor(c)))
    BY <1>9, SameQueue DEF Queries
  <2> QED BY <1>9, <2>1, Zenon DEF Answer, Alike
<1>10. CASE q.op = "clients.list"
  BY <1>10, Zenon DEF Answer, Alike
<1>11. CASE q.op = "audit"
  BY <1>11, Zenon DEF Answer, Alike
<1> QED
  BY <1>1, <1>2, <1>3, <1>4, <1>5, <1>6, <1>7, <1>8, <1>9, <1>10, <1>11 DEF Queries

-----------------------------------------------------------------------------

\* A set of positions that is not empty has a last one.
LEMMA LastPosition ==
  ASSUME NEW n \in Nat, NEW T \in SUBSET (1..n), T # {}
  PROVE \E i \in T : \A k \in T : k <= i
<1> DEFINE down == {n - k : k \in T}
<1>1. down \subseteq Nat /\ down # {}
  <2>1. \A k \in T : n - k \in Nat
    OBVIOUS
  <2> QED BY <2>1
<1> HIDE DEF down
<1> DEFINE R == OpToRel(<, Nat)
<1>2. R = {ss \in Nat \X Nat : ss[1] < ss[2]}
  BY Zenon DEF OpToRel
<1>3. IsWellFoundedOn(R, Nat)
  BY NatLessThanWellFounded, Zenon
<1> HIDE DEF R
<1>4. PICK x \in down : \A y \in down : ~(<<y, x>> \in R)
  BY <1>1, <1>3, WFMin
<1>5. ASSUME NEW y \in down PROVE x <= y
  <2> SUFFICES ASSUME y < x PROVE FALSE
    BY <1>1
  <2>1. PICK ss : ss = <<y, x>>
    OBVIOUS
  <2>2. ss \in Nat \X Nat /\ ss[1] = y /\ ss[2] = x
    BY <1>1, <2>1
  <2>3. ss \in R
    BY <2>2, <1>2
  <2> QED BY <2>1, <2>3, <1>4
<1>6. PICK i \in T : x = n - i
  BY DEF down
<1>7. ASSUME NEW k \in T PROVE k <= i
  <2>1. n - k \in down
    BY DEF down
  <2>2. n - i <= n - k
    BY <2>1, <1>5, <1>6
  <2> QED BY <2>2
<1> QED BY <1>7

\* Who is let in is the principal whose token was presented, from nowhere or
\* from one of its origins.
LEMMA LetIn ==
  ASSUME NEW conn, Authed(conn, FALSE).ok
  PROVE /\ Authed(conn, FALSE).value = conn.token
        /\ conn.token \in Principals
        /\ conn.origin = "none" \/ conn.origin \in Origins[conn.token]
        /\ Remote \/ (conn.loopback /\ conn.host)
<1>0. PICK a : a = Authed(conn, FALSE)
  BY Zenon
<1>a. a.ok
  BY <1>0, Zenon
<1>1. GuardPasses(conn) /\ a = Authenticate(conn)
  <2>1. CASE ~GuardPasses(conn)
    <3>1. a = Err("Forbidden")
      BY <1>0, <2>1, Zenon DEF Authed
    <3> QED BY <3>1, <1>a DEF Err
  <2>2. CASE GuardPasses(conn) /\ conn.token = "none"
    <3>1. a = Err("AuthenticationRequired")
      BY <1>0, <2>2, Zenon DEF Authed
    <3> QED BY <3>1, <1>a DEF Err
  <2>3. CASE GuardPasses(conn) /\ conn.token # "none"
    BY <1>0, <2>3, Zenon DEF Authed
  <2> QED BY <2>1, <2>2, <2>3
<1> DEFINE at == {i \in DOMAIN Entries : Entries[i] = conn.token}
<1> DEFINE c == Entries[CHOOSE i \in at : \A k \in at : k <= i]
<1>2. Authenticate(conn).ok
  BY <1>1, <1>a
<1>3. at # {}
  <2> SUFFICES ASSUME at = {} PROVE FALSE
    OBVIOUS
  <2>1. Authenticate(conn) = Err("ClientNotTrusted")
    BY Zenon DEF Authenticate
  <2> QED BY <2>1, <1>2 DEF Err
<1>4. conn.origin = "none" \/ conn.origin \in Origins[c]
  <2> SUFFICES ASSUME ~(conn.origin = "none" \/ conn.origin \in Origins[c]) PROVE FALSE
    OBVIOUS
  <2>1. Authenticate(conn) = Denied
    BY <1>3, Zenon DEF Authenticate
  <2> QED BY <2>1, <1>2 DEF Denied, Err
<1>5. Authenticate(conn) = Ok(c)
  BY <1>3, <1>4, Zenon DEF Authenticate
<1>6. c = conn.token
  <2>1. at \in SUBSET (1..Len(Entries)) /\ Len(Entries) \in Nat
    BY ApiAssumption
  <2>2. \E i \in at : \A k \in at : k <= i
    BY <2>1, <1>3, LastPosition
  <2>3. (CHOOSE i \in at : \A k \in at : k <= i) \in at
    BY <2>2
  <2> QED BY <2>3
<1>7. conn.token \in Principals
  BY <1>3 DEF Principals
<1> HIDE DEF c, at
<1>8. a.value = conn.token
  BY <1>1, <1>5, <1>6 DEF Ok
<1>9. Authed(conn, FALSE).value = conn.token
  BY <1>0, <1>8, Zenon
<1>10. Remote \/ (conn.loopback /\ conn.host)
  BY <1>1 DEF GuardPasses
<1>11. conn.origin = "none" \/ conn.origin \in Origins[conn.token]
  BY <1>4, <1>6
<1> QED BY <1>7, <1>9, <1>10, <1>11, Zenon

\* Every step keeps the jobs well formed.
LEMMA ServiceInvStep ==
  ASSUME ServiceInv, [ApiNext]_apiVars
  PROVE ServiceInv'
<1> DEFINE Record == [client : Principals, printer : Printers \cup {"none"},
                      stage : {"accepted", "spooled", "done"}]
<1>0. /\ perms \in [Principals -> SUBSET Permission] /\ audit \in BOOLEAN
      /\ DOMAIN known \subseteq JobIds
      /\ \A j \in DOMAIN known : known[j] \in Record
      /\ known = [j \in DOMAIN known |-> known[j]]
  BY DEF ServiceInv, ApiTypeOK
<1> SUFFICES /\ perms' \in [Principals -> SUBSET Permission] /\ audit' \in BOOLEAN
             /\ DOMAIN known' \subseteq JobIds
             /\ \A j \in DOMAIN known' : known'[j] \in Record
             /\ known' = [j \in DOMAIN known' |-> known'[j]]
  BY DEF ServiceInv, ApiTypeOK
<1>1. ASSUME NEW conn, Refused(conn)
      PROVE perms' = perms /\ known' = known /\ audit' \in BOOLEAN
  BY <1>1, <1>0 DEF Refused
<1>2. ASSUME NEW conn, NEW j \in JobIds, CancelJob(conn, j)
      PROVE /\ perms' = perms /\ audit' = audit
            /\ DOMAIN known' = DOMAIN known
            /\ \A i \in DOMAIN known : known'[i] \in Record
            /\ known' = [i \in DOMAIN known' |-> known'[i]]
  <2>1. /\ known' = [known EXCEPT ![j].stage = "done"]
        /\ j \in DOMAIN known /\ perms' = perms /\ audit' = audit
    BY <1>2, Zenon DEF CancelJob
  <2>2. PICK s \in {"done"} :
          /\ known' = [known EXCEPT ![j] = [known[j] EXCEPT !.stage = s]]
          /\ j \in DOMAIN known /\ perms' = perms /\ audit' = audit
    BY <2>1
  <2>3. [known[j] EXCEPT !.stage = s] \in Record
    BY <1>0, <2>2
  <2> QED BY <1>0, <2>2, <2>3
<1>3. ASSUME NEW j \in JobIds, EngineMoves(j)
      PROVE /\ perms' = perms /\ audit' = audit
            /\ DOMAIN known' = DOMAIN known
            /\ \A i \in DOMAIN known : known'[i] \in Record
            /\ known' = [i \in DOMAIN known' |-> known'[i]]
  <2>1. PICK s \in {"spooled", "done"} :
          /\ known' = [known EXCEPT ![j] = [known[j] EXCEPT !.stage = s]]
          /\ j \in DOMAIN known /\ perms' = perms /\ audit' = audit
    BY <1>3 DEF EngineMoves
  <2>2. [known[j] EXCEPT !.stage = s] \in Record
    BY <1>0, <2>1
  <2> QED BY <1>0, <2>1, <2>2
<1>4. ASSUME NEW conn, NEW d \in Documents, NEW p \in Printers, NEW j \in JobIds, Submit(conn, d, p, j)
      PROVE /\ perms' = perms /\ audit' = audit
            /\ DOMAIN known' \subseteq JobIds
            /\ \A i \in DOMAIN known' : known'[i] \in Record
            /\ known' = [i \in DOMAIN known' |-> known'[i]]
  <2>1. PICK c \in Principals : c = Authed(conn, FALSE).value
    BY <1>4, LetIn, Zenon DEF Submit
  <2>2. known' = IF Resolve(d).ok THEN Created(c, p, j) ELSE known
    BY <1>4, <2>1, Zenon DEF Submit
  <2>3. perms' = perms /\ audit' = audit
    BY <1>4, Zenon DEF Submit
  <2> QED BY <2>2, <2>3, <1>0 DEF Created
<1>5. CASE UNCHANGED apiVars
  BY <1>5, <1>0 DEF apiVars
<1>6. ASSUME NEW conn \in Connections,
             \/ Refused(conn)
             \/ \E j \in JobIds : CancelJob(conn, j)
             \/ \E d \in Documents, p \in Printers, j \in JobIds : Submit(conn, d, p, j)
      PROVE /\ perms' \in [Principals -> SUBSET Permission] /\ audit' \in BOOLEAN
            /\ DOMAIN known' \subseteq JobIds
            /\ \A j \in DOMAIN known' : known'[j] \in Record
            /\ known' = [j \in DOMAIN known' |-> known'[j]]
  <2>1. CASE Refused(conn)
    BY <2>1, <1>1, <1>0
  <2>2. CASE \E j \in JobIds : CancelJob(conn, j)
    BY <2>2, <1>2, <1>0
  <2>3. CASE \E d \in Documents, p \in Printers, j \in JobIds : Submit(conn, d, p, j)
    BY <2>3, <1>4, <1>0
  <2> QED BY <1>6, <2>1, <2>2, <2>3
<1>7. CASE \E j \in JobIds : EngineMoves(j)
  BY <1>7, <1>3, <1>0
<1> QED BY <1>5, <1>6, <1>7 DEF ApiNext

\* After a step, what was accepted was let in.
LEMMA TrustedStep ==
  ASSUME ServiceInv, PrintsAreTrusted, [ApiNext]_apiVars
  PROVE PrintsAreTrusted'
<1>1. ASSUME NEW conn, Refused(conn) PROVE PrintsAreTrusted'
  BY <1>1, Zenon DEF Refused, PrintsAreTrusted
<1>2. ASSUME NEW conn, NEW j, CancelJob(conn, j) PROVE PrintsAreTrusted'
  BY <1>2, Zenon DEF CancelJob, PrintsAreTrusted
<1>3. ASSUME NEW j, EngineMoves(j) PROVE PrintsAreTrusted'
  BY <1>3, Zenon DEF EngineMoves, PrintsAreTrusted
<1>4. CASE UNCHANGED apiVars
  BY <1>4 DEF apiVars, PrintsAreTrusted
<1>5. ASSUME NEW conn, NEW d, NEW p, NEW j, Submit(conn, d, p, j)
      PROVE PrintsAreTrusted'
  <2>1. PICK c \in Principals : c = Authed(conn, FALSE).value
    BY <1>5, LetIn, Zenon DEF Submit
  <2>2. /\ known' = IF Resolve(d).ok THEN Created(c, p, j) ELSE known
        /\ latest' = [by |-> c, over |-> conn, reads |-> Opens(d), what |-> d,
                      job |-> IF Resolve(d).ok THEN {j} ELSE {}]
        /\ Has(c, "print") /\ perms' = perms
    BY <1>5, <2>1, Zenon DEF Submit
  <2>3. /\ conn.token = c
        /\ conn.origin = "none" \/ conn.origin \in Origins[c]
        /\ Remote \/ (conn.loopback /\ conn.host)
    <3>1. Authed(conn, FALSE).ok
      BY <1>5, Zenon DEF Submit
    <3>2. Authed(conn, FALSE).value = conn.token
      BY <3>1, LetIn, Zenon
    <3>3. conn.token = c
      BY <3>2, <2>1, Zenon
    <3>4. /\ conn.origin = "none" \/ conn.origin \in Origins[conn.token]
          /\ Remote \/ (conn.loopback /\ conn.host)
      BY <3>1, LetIn, Zenon
    <3> QED BY <3>3, <3>4
  <2>4. /\ latest'.by = c /\ latest'.over = conn /\ latest'.what = d
        /\ latest'.reads = Opens(d)
        /\ latest'.job = IF Resolve(d).ok THEN {j} ELSE {}
    BY <2>2
  <2>5. \A i \in latest'.job : /\ known'[i].client = c
                                 /\ known'[i].stage # "done" => known'[i].printer \in Scopes[c]
    BY <2>2, <2>4 DEF Created
  <2>6. "print" \in perms'[c]
    BY <2>2 DEF Has
  <2>7. ASSUME latest'.reads
        PROVE CASE latest'.what.from = "path" -> latest'.what.inside
                [] latest'.what.from = "url" -> latest'.what.prefix
    <3>1. \/ d.from = "path" /\ d.inside
          \/ d.from = "url" /\ d.prefix
      BY <2>4, <2>7 DEF Opens
    <3> QED BY <3>1, <2>4, Zenon
  <2> QED BY <2>3, <2>4, <2>5, <2>6, <2>7, Zenon DEF PrintsAreTrusted
<1> QED BY <1>1, <1>2, <1>3, <1>4, <1>5, Zenon DEF ApiNext

-----------------------------------------------------------------------------

\* What a text is: base64 is padded, hex and base64 are ASCII.  Latin1 is
\* limited to ASCII as well, because the estimate counts UTF-8 bytes.
TextsAreText ==
  \A d \in Texts :
    /\ d.low \in Nat /\ d.high \in Nat /\ d.size \in Nat
    /\ d.encoding \in {"base64", "hex", "utf8", "latin1"}
    /\ d.encoding # "utf8" => d.high = 0
    /\ d.encoding = "base64" => d.low = 4 * ((d.size + 2) \div 3)

\* The check before the buffer is allocated refuses nothing within the limit.
LEMMA LimitIsExact == ASSUME TextsAreText PROVE AcceptsUpToTheLimit
<1> SUFFICES ASSUME NEW d \in Texts, d.valid
             PROVE Decode(d).ok <=> DecodedBytes(d) <= MaxDocument
  BY DEF AcceptsUpToTheLimit
<1>0. /\ d.low \in Nat /\ d.high \in Nat /\ d.size \in Nat /\ MaxDocument \in Nat
      /\ d.encoding \in {"base64", "hex", "utf8", "latin1"}
      /\ d.encoding # "utf8" => d.high = 0
      /\ d.encoding = "base64" => d.low = 4 * ((d.size + 2) \div 3)
  BY ApiAssumption DEF TextsAreText
<1>1. DecodedBytes(d) \in Nat /\ (DecodedBytes(d) <= MaxDocument => EstimateFits(d))
  <2>1. CASE d.encoding = "base64"
    <3>1. DecodedBytes(d) = d.size
      BY <2>1, Zenon DEF DecodedBytes
    <3>2. EstimateFits(d) <=> (TextBytes(d) \div 4) * 3 <= MaxDocument + 3
      BY <2>1 DEF EstimateFits
    <3>3. TextBytes(d) \div 4 = (d.size + 2) \div 3
      BY <1>0, <2>1 DEF TextBytes
    <3>4. ((d.size + 2) \div 3) * 3 <= d.size + 2
      BY <1>0
    <3> QED BY <1>0, <3>1, <3>2, <3>3, <3>4
  <2>2. CASE d.encoding = "hex"
    <3>1. DecodedBytes(d) = (d.low + d.high) \div 2
      BY <2>2, Zenon DEF DecodedBytes
    <3>2. EstimateFits(d) <=> TextBytes(d) \div 2 <= MaxDocument + 3
      BY <2>2 DEF EstimateFits
    <3>3. TextBytes(d) = d.low + d.high
      BY <1>0, <2>2 DEF TextBytes
    <3> QED BY <1>0, <3>1, <3>2, <3>3
  <2>3. CASE d.encoding = "utf8"
    <3>1. DecodedBytes(d) = TextBytes(d)
      BY <2>3, Zenon DEF DecodedBytes
    <3>2. EstimateFits(d) <=> TextBytes(d) <= MaxDocument + 3
      BY <2>3 DEF EstimateFits
    <3> QED BY <1>0, <3>1, <3>2 DEF TextBytes
  <2>4. CASE d.encoding = "latin1"
    <3>1. DecodedBytes(d) = d.low + d.high
      BY <2>4, Zenon DEF DecodedBytes
    <3>2. EstimateFits(d) <=> TextBytes(d) <= MaxDocument + 3
      BY <2>4 DEF EstimateFits
    <3> QED BY <1>0, <2>4, <3>1, <3>2 DEF TextBytes
  <2> QED BY <1>0, <2>1, <2>2, <2>3, <2>4
<1>2. CASE ~EstimateFits(d)
  <2>1. Decode(d) = Err("PayloadTooLarge")
    BY <1>2, Zenon DEF Decode
  <2> QED BY <1>1, <1>2, <2>1 DEF Err
<1>3. CASE EstimateFits(d)
  <2>1. Decode(d) = IF DecodedBytes(d) > MaxDocument THEN Err("PayloadTooLarge") ELSE Ok(DecodedBytes(d))
    BY <1>3, Zenon DEF Decode
  <2>2. DecodedBytes(d) > MaxDocument <=> ~(DecodedBytes(d) <= MaxDocument)
    BY <1>0, <1>1
  <2> QED BY <2>1, <2>2 DEF Err, Ok
<1> QED BY <1>2, <1>3

-----------------------------------------------------------------------------

\* The service's jobs are well formed from the start.
LEMMA ServiceInitInv == ASSUME ApiInit PROVE ServiceInv /\ PrintsAreTrusted
<1>1. known = [j \in {} |-> 0] /\ latest = NoSubmission /\ audit = FALSE /\ perms \in Grants
  BY DEF ApiInit, NoJobYet
<1>2. perms \in [Principals -> SUBSET Permission]
  BY <1>1, ApiAssumption
<1>3. ServiceInv
  BY <1>1, <1>2 DEF ServiceInv, ApiTypeOK
<1>4. PrintsAreTrusted
  BY <1>1, Zenon DEF PrintsAreTrusted
<1> QED BY <1>3, <1>4

\* For any clients, permissions, scopes, printers and jobs: if printers' names
\* differ in more than case, every answer, cancellation and queue a client is
\* given is the one it would get if other clients' jobs and the printers outside
\* its scope did not exist, but for the printerId of an error; a queue has every
\* place and shows what is in it only for the client's own jobs (service.rs).
THEOREM AnswersAreOwn ==
  ASSUME OneNameEach, AnyIsNobody PROVE ApiSpec => []ClientsSeeTheirOwn
<1>1. ApiInit => ServiceInv
  BY ServiceInitInv
<1>2. ServiceInv /\ [ApiNext]_apiVars => ServiceInv'
  BY ServiceInvStep
<1>3. ServiceInv => ClientsSeeTheirOwn
  <2> SUFFICES ASSUME ServiceInv PROVE ClientsSeeTheirOwn
    OBVIOUS
  <2>1. AnswersFromOwnView
    BY SameAnswer, Zenon DEF AnswersFromOwnView, Alike
  <2>2. QueueIsRedacted
    BY Redacted DEF QueueIsRedacted
  <2> QED BY <2>1, <2>2 DEF ClientsSeeTheirOwn
<1> QED BY <1>1, <1>2, <1>3, PTL DEF ApiSpec

\* For any clients, origins, permissions, scopes and documents: what is accepted
\* came over a connection the guard let through, with the client's own token,
\* from no origin or one of the client's, and waits on a printer in its scope;
\* files and URLs are opened only inside the allow-lists, and the size check
\* before decoding refuses no document within the limit (Authed, authenticate,
\* submit_pending, resolve, decode).
THEOREM OnlyTrustedPrints ==
  ASSUME TextsAreText PROVE ApiSpec => []PrintsAsAdmitted
<1> DEFINE I == ServiceInv /\ PrintsAreTrusted
<1>1. ApiInit => I
  BY ServiceInitInv
<1>2. I /\ [ApiNext]_apiVars => I'
  BY ServiceInvStep, TrustedStep
<1>3. I => PrintsAsAdmitted
  BY LimitIsExact DEF ServiceInv, PrintsAsAdmitted
<1> QED BY <1>1, <1>2, <1>3, PTL DEF ApiSpec

-----------------------------------------------------------------------------
(* The job repository.                                                     *)

\* A row's columns are those of the job it holds, and it holds the job as it is
\* in memory.
RowsAreJobs ==
  /\ DOMAIN table = DOMAIN heap
  /\ \A r \in DOMAIN heap :
       /\ table[r].data = heap[r]
       /\ table[r].client = heap[r].client /\ table[r].printer = heap[r].printer
       /\ table[r].status = heap[r].status /\ table[r].created = heap[r].created
       /\ table[r].key = heap[r].key

Job == [id : Records, client : Owners, printer : Destinations \cup {NoDestination},
        status : Statuses \cup {"RECEIVED"}, created : 0..MaxClock, key : {KeyOf[r] : r \in Records}]
Row == [client : Owners, printer : Destinations \cup {NoDestination},
        status : Statuses \cup {"RECEIVED"}, created : 0..MaxClock,
        key : {KeyOf[r] : r \in Records}, data : Job, rowid : Nat]

\* No two rows have one client and key.
KeysDiffer ==
  \A r, q \in DOMAIN table :
    r # q /\ table[r].key # NoKey => ~(table[r].client = table[q].client /\ table[r].key = table[q].key)

StoreInv ==
  /\ heap \in [DOMAIN heap -> Job] /\ table \in [DOMAIN table -> Row]
  /\ DOMAIN heap \subseteq Records
  /\ \A r \in DOMAIN heap : heap[r].id = r
  /\ clock \in 0..MaxClock /\ issued \in Nat
  /\ KeysDiffer
  /\ RowsAreJobs

-----------------------------------------------------------------------------

\* A job that is inserted gets a row of its own; the engine has looked for its
\* key, so that the index never refuses it.
LEMMA InsertStores ==
  ASSUME StoreInv, NEW r \in Records, NEW c \in Owners, Insert(r, c)
  PROVE StoreInv'
<1> DEFINE job == [id |-> r, client |-> c, printer |-> NoDestination, status |-> "RECEIVED",
                   created |-> clock, key |-> KeyOf[r]]
<1>0. /\ r \notin DOMAIN heap /\ r \notin DOMAIN table
      /\ table' = Upsert(table, job) /\ heap' = Put(heap, r, job)
      /\ issued' = issued + 1 /\ clock' = clock
      /\ KeyOf[r] = NoKey \/ FindByKey(c, KeyOf[r]) = {}
  BY DEF Insert, StoreInv, RowsAreJobs
<1>1. job \in Job /\ NewRow(job) \in Row
  BY DEF Job, Row, NewRow, StoreInv
<1>2. ~Conflicts(table, job)
  <2> SUFFICES ASSUME Conflicts(table, job) PROVE FALSE
    OBVIOUS
  <2>1. PICK q \in DOMAIN table : table[q].client = c /\ table[q].key = KeyOf[r]
    BY DEF Conflicts
  <2>2. KeyOf[r] # NoKey
    BY DEF Conflicts
  <2>3. table[q].data \in FindByKey(c, KeyOf[r])
    BY <2>1 DEF FindByKey
  <2> QED BY <1>0, <2>2, <2>3
<1>3. table' = Put(table, r, NewRow(job))
  <2>1. Upsert(table, job) = Put(table, job.id, NewRow(job))
    <3>1. job.id \notin DOMAIN table
      BY <1>0
    <3> QED BY <3>1, <1>2 DEF Upsert
  <2> QED BY <2>1, <1>0
<1>4. NewRow(job).data = job /\ NewRow(job).client = c /\ NewRow(job).printer = NoDestination
      /\ NewRow(job).status = "RECEIVED" /\ NewRow(job).created = clock /\ NewRow(job).key = KeyOf[r]
  BY DEF NewRow
<1>5. PICK row : row = NewRow(job)
  OBVIOUS
<1>6. /\ DOMAIN heap' = DOMAIN heap \cup {r} /\ DOMAIN table' = DOMAIN table \cup {r}
      /\ heap'[r] = job /\ table'[r] = row
      /\ \A q \in DOMAIN heap : heap'[q] = heap[q]
      /\ \A q \in DOMAIN table : table'[q] = table[q]
      /\ heap' = [q \in DOMAIN heap' |-> heap'[q]] /\ table' = [q \in DOMAIN table' |-> table'[q]]
  BY <1>0, <1>3, <1>5 DEF Put
<1>7. heap' \in [DOMAIN heap' -> Job] /\ table' \in [DOMAIN table' -> Row]
  BY <1>1, <1>5, <1>6 DEF StoreInv
<1>8. DOMAIN heap' \subseteq Records /\ (\A q \in DOMAIN heap' : heap'[q].id = q)
      /\ clock' \in 0..MaxClock /\ issued' \in Nat
  BY <1>0, <1>6 DEF StoreInv
<1>9. RowsAreJobs'
  BY <1>4, <1>5, <1>6 DEF StoreInv, RowsAreJobs
<1>10. KeysDiffer'
  <2>1. \A q \in DOMAIN table : KeyOf[r] # NoKey => ~(table[q].client = c /\ table[q].key = KeyOf[r])
    BY <1>2 DEF Conflicts
  <2>2. row.client = c /\ row.key = KeyOf[r]
    BY <1>4, <1>5
  <2> QED BY <1>0, <1>6, <2>1, <2>2 DEF StoreInv, KeysDiffer
<1> QED BY <1>7, <1>8, <1>9, <1>10 DEF StoreInv

\* An update reaches every column a query selects by.
LEMMA UpdateStores ==
  ASSUME StoreInv, NEW r \in Records, NEW s \in Statuses, NEW p \in Destinations, Update(r, s, p)
  PROVE StoreInv'
<1> DEFINE job == [heap[r] EXCEPT !.status = s, !.printer = p]
<1>0. /\ r \in DOMAIN heap /\ r \in DOMAIN table
      /\ table' = Upsert(table, job) /\ heap' = Put(heap, r, job)
      /\ issued' = issued /\ clock' = clock
  BY DEF Update, StoreInv, RowsAreJobs
<1>1. /\ heap[r] \in Job /\ table[r] \in Row /\ heap[r].id = r
  BY <1>0 DEF StoreInv
<1>2. /\ job \in Job /\ job.id = r /\ job.printer = p /\ job.status = s
      /\ job.client = heap[r].client /\ job.created = heap[r].created /\ job.key = heap[r].key
  BY <1>1 DEF Job
<1> HIDE DEF job
<1> DEFINE row == [table[r] EXCEPT !.printer = job.printer, !.status = job.status, !.data = job]
<1>3. table' = [table EXCEPT ![r] = row]
  BY <1>0, <1>2 DEF Upsert
<1>4. /\ row \in Row /\ row.data = job /\ row.printer = p /\ row.status = s
      /\ row.client = table[r].client /\ row.created = table[r].created /\ row.key = table[r].key
  BY <1>1, <1>2 DEF Row
<1> HIDE DEF row
<1>6. /\ DOMAIN heap' = DOMAIN heap /\ DOMAIN table' = DOMAIN table
      /\ heap'[r] = job /\ table'[r] = row
      /\ \A q \in DOMAIN heap : q # r => heap'[q] = heap[q]
      /\ \A q \in DOMAIN table : q # r => table'[q] = table[q]
      /\ heap' = [q \in DOMAIN heap' |-> heap'[q]] /\ table' = [q \in DOMAIN table' |-> table'[q]]
  BY <1>0, <1>3 DEF Put, StoreInv
<1>7. heap' \in [DOMAIN heap' -> Job] /\ table' \in [DOMAIN table' -> Row]
  BY <1>2, <1>4, <1>6 DEF StoreInv
<1>8. DOMAIN heap' \subseteq Records /\ (\A q \in DOMAIN heap' : heap'[q].id = q)
      /\ clock' \in 0..MaxClock /\ issued' \in Nat
  BY <1>0, <1>2, <1>6 DEF StoreInv
<1>9. RowsAreJobs'
  BY <1>0, <1>2, <1>4, <1>6 DEF StoreInv, RowsAreJobs
<1>10. KeysDiffer'
  BY <1>0, <1>4, <1>6 DEF StoreInv, KeysDiffer
<1> QED BY <1>7, <1>8, <1>9, <1>10 DEF StoreInv

\* A purge deletes the same jobs from both.
LEMMA PurgeStores ==
  ASSUME StoreInv, NEW cutoff, Purge(cutoff)
  PROVE StoreInv'
<1> DEFINE left == {r \in DOMAIN heap : ~(heap[r].created < cutoff /\ heap[r].status \in Closed)}
<1>1. {r \in DOMAIN table : ~Purged(table[r], cutoff)} = left
  BY DEF StoreInv, RowsAreJobs, Purged
<1>2. /\ DOMAIN heap' = left /\ DOMAIN table' = left
      /\ \A q \in left : heap'[q] = heap[q] /\ table'[q] = table[q]
      /\ heap' = [q \in left |-> heap[q]] /\ table' = [q \in left |-> table[q]]
      /\ clock' = clock /\ issued' = issued
  BY <1>1 DEF Purge, Keep
<1>3. left \subseteq DOMAIN heap /\ left \subseteq DOMAIN table
  BY DEF StoreInv, RowsAreJobs
<1> HIDE DEF left
<1>4. heap' \in [DOMAIN heap' -> Job] /\ table' \in [DOMAIN table' -> Row]
  BY <1>2, <1>3 DEF StoreInv
<1>5. DOMAIN heap' \subseteq Records /\ (\A q \in DOMAIN heap' : heap'[q].id = q)
      /\ clock' \in 0..MaxClock /\ issued' \in Nat
  BY <1>2, <1>3 DEF StoreInv
<1>6. RowsAreJobs'
  BY <1>2, <1>3 DEF StoreInv, RowsAreJobs
<1>7. KeysDiffer'
  BY <1>2, <1>3 DEF StoreInv, KeysDiffer
<1> QED BY <1>4, <1>5, <1>6, <1>7 DEF StoreInv

\* Reading, and time, leave the stores alone.
LEMMA ReadsStore ==
  ASSUME StoreInv, table' = table, heap' = heap, issued' = issued, clock' \in 0..MaxClock
  PROVE StoreInv'
BY DEF StoreInv, RowsAreJobs, KeysDiffer

\* The two repositories hold the same jobs after any calls.
THEOREM StoresHold == StoreSpec => []StoreInv
<1>1. StoreInit => StoreInv
  BY StoreAssumption DEF StoreInit, StoreInv, RowsAreJobs, KeysDiffer
<1>2. StoreInv /\ [StoreNext]_storeVars => StoreInv'
  <2> SUFFICES ASSUME StoreInv, [StoreNext]_storeVars PROVE StoreInv'
    OBVIOUS
  <2>1. CASE \E r \in Records, c \in Owners : Insert(r, c)
    BY <2>1, InsertStores
  <2>2. CASE \E r \in Records, s \in Statuses, p \in Destinations : Update(r, s, p)
    BY <2>2, UpdateStores
  <2>3. CASE \E cutoff \in 0..MaxClock : Purge(cutoff)
    BY <2>3, PurgeStores
  <2>4. CASE \E c \in Owners \cup {Whichever}, n \in {0, 1, MaxLimit + 1} : BeginWalk(c, n)
    <3>1. UNCHANGED <<table, heap, clock, issued>>
      BY <2>4 DEF BeginWalk
    <3> QED BY <3>1, ReadsStore DEF StoreInv
  <2>5. CASE Advance
    <3>1. clock' \in 0..MaxClock
      BY <2>5, StoreAssumption DEF Advance, StoreInv
    <3> QED BY <3>1, <2>5, ReadsStore DEF Advance
  <2>6. CASE ReadPage \/ EndWalk
    <3>1. UNCHANGED <<table, heap, clock, issued>>
      BY <2>6 DEF ReadPage, EndWalk
    <3> QED BY <3>1, ReadsStore DEF StoreInv
  <2>7. CASE UNCHANGED storeVars
    BY <2>7, ReadsStore DEF storeVars, StoreInv
  <2> QED BY <2>1, <2>2, <2>3, <2>4, <2>5, <2>6, <2>7 DEF StoreNext
<1> QED BY <1>1, <1>2, PTL DEF StoreSpec

\* For any clients, printers, keys and numbers of jobs: after any calls SQLite
\* holds one row for each job, no two of one client and key, and finds the
\* unfinished jobs and the job of a key as the repository in memory does; a
\* filter selects the same jobs (upsert, non_terminal, find_by_idempotency_key,
\* purge_terminal_before).
THEOREM QueriesAgree ==
  StoreSpec => [](/\ KeysDiffer /\ Unfinished = HeapUnfinished
                  /\ \A c, k : FindByKey(c, k) = HeapByKey(c, k)
                  /\ \A f : {table[r].data : r \in {r \in DOMAIN table : Selects(f, table[r])}} = HeapMatches(f))
<1> DEFINE Q == /\ KeysDiffer /\ Unfinished = HeapUnfinished
                /\ \A c, k : FindByKey(c, k) = HeapByKey(c, k)
                /\ \A f : {table[r].data : r \in {r \in DOMAIN table : Selects(f, table[r])}} = HeapMatches(f)
<1>1. StoreInv => Q
  <2> SUFFICES ASSUME StoreInv PROVE Q
    OBVIOUS
  <2>1. Unfinished = HeapUnfinished
    BY DEF StoreInv, RowsAreJobs, Unfinished, HeapUnfinished
  <2>2. ASSUME NEW c, NEW k PROVE FindByKey(c, k) = HeapByKey(c, k)
    BY DEF StoreInv, RowsAreJobs, FindByKey, HeapByKey
  <2>3. ASSUME NEW f
        PROVE {table[r].data : r \in {r \in DOMAIN table : Selects(f, table[r])}} = HeapMatches(f)
    BY DEF StoreInv, RowsAreJobs, Selects, HeapMatches
  <2> QED BY <2>1, <2>2, <2>3 DEF StoreInv
<1> QED BY <1>1, StoresHold, PTL

-----------------------------------------------------------------------------
(* Lists: a row's place is the number of the selected rows newer than it.  *)

Before(S, r) == {q \in S : Newer(q, r)}
Place(S, r) == Cardinality(Before(S, r))

\* Newer orders the rows.
Ordered(S) ==
  /\ IsFiniteSet(S)
  /\ \A a, b \in S : a # b => Newer(a, b) \/ Newer(b, a)
  /\ \A a, b \in S : ~(Newer(a, b) /\ Newer(b, a))
  /\ \A a, b, c \in S : Newer(a, b) /\ Newer(b, c) => Newer(a, c)

LEMMA PlaceBounds ==
  ASSUME NEW S, Ordered(S), NEW r \in S
  PROVE  Place(S, r) \in Nat /\ Place(S, r) < Cardinality(S) /\ Cardinality(S) \in Nat
<1>1. IsFiniteSet(S) /\ Before(S, r) \in SUBSET S /\ r \notin Before(S, r)
  BY DEF Ordered, Before
<1>2. /\ IsFiniteSet(Before(S, r)) /\ Cardinality(Before(S, r)) <= Cardinality(S)
      /\ Cardinality(S) = Cardinality(Before(S, r)) => S = Before(S, r)
  BY <1>1, FS_Subset
<1>3. Cardinality(S) \in Nat /\ Cardinality(Before(S, r)) \in Nat
  BY <1>1, <1>2, FS_CardinalityType
<1>4. S # Before(S, r)
  BY <1>1
<1> QED BY <1>2, <1>3, <1>4 DEF Place

LEMMA PlaceOrder ==
  ASSUME NEW S, Ordered(S), NEW a \in S, NEW b \in S, Newer(a, b)
  PROVE  Place(S, a) < Place(S, b)
<1>1. Before(S, a) \in SUBSET Before(S, b) /\ a \in Before(S, b) /\ a \notin Before(S, a)
  BY DEF Ordered, Before
<1>2. IsFiniteSet(Before(S, b)) /\ IsFiniteSet(S)
  <2>1. IsFiniteSet(S) /\ Before(S, b) \in SUBSET S
    BY DEF Ordered, Before
  <2> QED BY <2>1, FS_Subset
<1>3. /\ Cardinality(Before(S, a)) <= Cardinality(Before(S, b))
      /\ Cardinality(Before(S, b)) = Cardinality(Before(S, a)) => Before(S, b) = Before(S, a)
  BY <1>1, <1>2, FS_Subset
<1>4. Place(S, a) \in Nat /\ Place(S, b) \in Nat
  BY PlaceBounds
<1> QED BY <1>1, <1>3, <1>4 DEF Place

\* Of two rows the newer has the smaller place, and different rows have
\* different places.
LEMMA PlaceDecides ==
  ASSUME NEW S, Ordered(S), NEW a \in S, NEW b \in S
  PROVE  /\ Newer(a, b) <=> Place(S, a) < Place(S, b)
         /\ a = b <=> Place(S, a) = Place(S, b)
<1>1. Place(S, a) \in Nat /\ Place(S, b) \in Nat
  BY PlaceBounds
<1>2. Newer(a, b) => Place(S, a) < Place(S, b)
  BY PlaceOrder
<1>3. Newer(b, a) => Place(S, b) < Place(S, a)
  BY PlaceOrder
<1>4. a # b => Newer(a, b) \/ Newer(b, a)
  BY DEF Ordered
<1> QED BY <1>1, <1>2, <1>3, <1>4

\* The rows of a part that takes in, with a row, all newer ones, are the first
\* ones: the oldest of them has the last place among so many.
LEMMA OldestOf ==
  ASSUME NEW S, Ordered(S), NEW D \in SUBSET S, D # {},
         \A x \in D : Before(S, x) \subseteq D
  PROVE  \E q \in D : Place(S, q) = Cardinality(D) - 1
<1> DEFINE T == {Place(S, x) + 1 : x \in D}
           n == Cardinality(S)
<1>1. \A x \in D : Place(S, x) \in Nat /\ Place(S, x) < n /\ n \in Nat
  BY PlaceBounds
<1>2. n \in Nat /\ T \in SUBSET (1..n) /\ T # {}
  <2>1. \A x \in D : Place(S, x) + 1 \in 1..n
    BY <1>1
  <2> QED BY <1>1, <2>1
<1> HIDE DEF T, n
<1>3. PICK i \in T : \A k \in T : k <= i
  BY <1>2, LastPosition
<1>4. PICK q \in D : i = Place(S, q) + 1
  BY <1>3 DEF T
<1>5. ASSUME NEW x \in D PROVE Place(S, x) <= Place(S, q)
  <2>1. Place(S, x) + 1 \in T
    BY DEF T
  <2> QED BY <1>1, <1>3, <1>4, <2>1
<1>6. Before(S, q) = D \ {q}
  <2>1. \A x \in D \ {q} : Newer(x, q)
    <3> SUFFICES ASSUME NEW x \in D, x # q, ~Newer(x, q) PROVE FALSE
      OBVIOUS
    <3>1. Newer(q, x)
      BY DEF Ordered
    <3>2. Place(S, q) < Place(S, x)
      BY <3>1, PlaceOrder
    <3> QED BY <1>1, <1>5, <3>2
  <2>2. ~Newer(q, q)
    BY DEF Ordered
  <2> QED BY <2>1, <2>2 DEF Before
<1>7. IsFiniteSet(D)
  BY FS_Subset DEF Ordered
<1>8. Cardinality(D \ {q}) = Cardinality(D) - 1
  BY <1>7, FS_RemoveElement
<1> QED BY <1>6, <1>8 DEF Place

\* There is a row at every place.
LEMMA EveryPlace ==
  ASSUME NEW S, Ordered(S), NEW n \in Nat, n < Cardinality(S)
  PROVE  \E q \in S : Place(S, q) = n
<1> SUFFICES ASSUME \A q \in S : Place(S, q) # n PROVE FALSE
  OBVIOUS
<1> DEFINE m == Cardinality(S)
           T == {x \in S : Place(S, x) > n}
<1>0. IsFiniteSet(S) /\ m \in Nat /\ n < m
  BY FS_CardinalityType DEF Ordered
<1>1. \A x \in S : Place(S, x) \in Nat /\ Place(S, x) < m
  BY PlaceBounds
<1>2. ASSUME NEW D \in SUBSET S, \A x \in D : Before(S, x) \subseteq D,
             Cardinality(D) > n, \A x \in D : Place(S, x) < n
      PROVE  FALSE
  <2>1. IsFiniteSet(D) /\ Cardinality(D) \in Nat
    BY <1>0, FS_Subset, FS_CardinalityType
  <2>2. D # {}
    BY <1>2, <2>1, FS_EmptySet
  <2>3. PICK q \in D : Place(S, q) = Cardinality(D) - 1
    BY <1>2, <2>2, OldestOf
  <2> QED BY <1>2, <2>1, <2>3
<1>3. CASE T = {}
  <2>1. \A x \in S : Place(S, x) < n
    BY <1>1, <1>3
  <2>2. \A x \in S : Before(S, x) \subseteq S
    BY DEF Before
  <2>3. S \in SUBSET S /\ Cardinality(S) > n
    BY <1>0
  <2> QED BY <1>2, <2>1, <2>2, <2>3
<1>4. CASE T # {}
  <2> DEFINE up == {m - Place(S, x) : x \in T}
  <2>1. up \in SUBSET (1..m) /\ up # {}
    <3>1. \A x \in T : m - Place(S, x) \in 1..m
      BY <1>0, <1>1
    <3> QED BY <1>4, <3>1
  <2> HIDE DEF up, T
  <2>2. PICK i \in up : \A k \in up : k <= i
    BY <1>0, <2>1, LastPosition
  <2>3. PICK r \in T : i = m - Place(S, r)
    BY <2>2 DEF up
  <2>4. r \in S /\ Place(S, r) > n
    BY <2>3 DEF T
  <2>5. ASSUME NEW x \in T PROVE Place(S, r) <= Place(S, x)
    <3>1. m - Place(S, x) \in up
      BY DEF up
    <3>2. x \in S
      BY DEF T
    <3> QED BY <1>0, <1>1, <2>2, <2>3, <2>4, <3>1, <3>2
  <2>6. \A x \in Before(S, r) : x \in S /\ Place(S, x) < n
    <3> SUFFICES ASSUME NEW x \in Before(S, r) PROVE x \in S /\ Place(S, x) < n
      OBVIOUS
    <3>1. x \in S /\ Newer(x, r)
      BY DEF Before
    <3>2. Place(S, x) < Place(S, r)
      BY <2>4, <3>1, PlaceOrder
    <3>3. x \notin T
      BY <1>1, <2>4, <2>5, <3>1, <3>2
    <3> QED BY <1>1, <3>1, <3>3 DEF T
  <2>7. \A x \in Before(S, r) : Before(S, x) \subseteq Before(S, r)
    BY <2>4 DEF Before, Ordered
  <2>8. Cardinality(Before(S, r)) > n /\ Before(S, r) \in SUBSET S
    BY <2>4 DEF Place, Before
  <2> QED BY <1>2, <2>6, <2>7, <2>8
<1> QED BY <1>3, <1>4

\* ORDER BY puts the row of each place there, once.
LEMMA SortedIs ==
  ASSUME NEW S, Ordered(S)
  PROVE  /\ Sorted(S) \in Seq(S) /\ Len(Sorted(S)) = Cardinality(S) /\ Cardinality(S) \in Nat
         /\ \A i \in 1..Cardinality(S) : Sorted(S)[i] \in S /\ Place(S, Sorted(S)[i]) = i - 1
         /\ \A r \in S : Sorted(S)[Place(S, r) + 1] = r
<1> DEFINE n == Cardinality(S)
<1>1. n \in Nat
  BY FS_CardinalityType DEF Ordered
<1>2. Sorted(S) = [i \in 1..n |-> CHOOSE r \in S : Place(S, r) = i - 1]
  BY DEF Sorted, Place, Before
<1>3. ASSUME NEW i \in 1..n
      PROVE  Sorted(S)[i] \in S /\ Place(S, Sorted(S)[i]) = i - 1
  <2>1. i - 1 \in Nat /\ i - 1 < n
    BY <1>1
  <2>2. \E r \in S : Place(S, r) = i - 1
    BY <2>1, EveryPlace
  <2>3. Sorted(S)[i] = CHOOSE r \in S : Place(S, r) = i - 1
    BY <1>2
  <2> QED BY <2>2, <2>3
<1>4. Sorted(S) \in Seq(S) /\ Len(Sorted(S)) = n
  BY <1>1, <1>2, <1>3
<1>5. ASSUME NEW r \in S PROVE Sorted(S)[Place(S, r) + 1] = r
  <2>1. Place(S, r) + 1 \in 1..n /\ Place(S, r) \in Nat
    BY PlaceBounds
  <2>2. /\ Sorted(S)[Place(S, r) + 1] \in S
        /\ Place(S, Sorted(S)[Place(S, r) + 1]) = (Place(S, r) + 1) - 1
    BY <1>3, <2>1
  <2> QED BY <2>1, <2>2, PlaceDecides
<1> QED BY <1>1, <1>3, <1>4, <1>5

LEMMA LimitType ==
  ASSUME NEW n \in Nat
  PROVE  EffectiveLimit(n) \in Nat \ {0} /\ EffectiveLimit(MaxLimit) = MaxLimit
BY StoreAssumption DEF EffectiveLimit

\* The rows of a list.
Selected(f) == {r \in DOMAIN table : Selects(f, table[r])}

\* A page holds the rows of the places it covers.
PageCovers(f, limit, offset) ==
  LET page == List(f, limit, offset)
      S == Selected(f)
  IN  /\ Len(page) \in Nat /\ DOMAIN page = 1..Len(page)
      /\ Len(page) <= EffectiveLimit(limit)
      /\ page = <<>> <=> Len(page) = 0
      /\ \A i \in DOMAIN page :
           \E r \in S : page[i] = table[r].data /\ Place(S, r) = offset + i - 1
      /\ \A r \in S : offset <= Place(S, r) /\ Place(S, r) < offset + EffectiveLimit(limit) =>
           \E i \in DOMAIN page : i = Place(S, r) - offset + 1 /\ page[i] = table[r].data
      /\ \A r \in S : offset <= Place(S, r) => Len(page) > 0

LEMMA ListIs ==
  ASSUME NEW f, NEW limit \in Nat, NEW offset \in Nat, Ordered(Selected(f))
  PROVE  PageCovers(f, limit, offset)
<1> DEFINE page == List(f, limit, offset)
           S == Selected(f)
           all == Sorted(S)
           n == Cardinality(S)
           m == EffectiveLimit(limit)
           size == IF offset + m < n THEN m ELSE IF offset < n THEN n - offset ELSE 0
<1>1. /\ all \in Seq(S) /\ Len(all) = n /\ n \in Nat
      /\ \A i \in 1..n : all[i] \in S /\ Place(S, all[i]) = i - 1
      /\ \A r \in S : all[Place(S, r) + 1] = r
  BY SortedIs
<1>2. m \in Nat \ {0}
  BY LimitType
<1>3. page = [i \in 1..size |-> table[all[offset + i]].data]
  <2> DEFINE slice == Slice(all, offset, m)
  <2>1. slice = [i \in 1..size |-> all[offset + i]]
    BY <1>1 DEF Slice
  <2>2. page = [i \in DOMAIN slice |-> table[slice[i]].data]
    BY DEF List, Selected
  <2> HIDE DEF slice, page, all, size
  <2>3. DOMAIN slice = 1..size /\ \A i \in 1..size : slice[i] = all[offset + i]
    BY <2>1
  <2> QED BY <2>2, <2>3
<1>4. \A r \in S : Place(S, r) \in Nat /\ Place(S, r) < n
  BY PlaceBounds
<1> HIDE DEF page, all, n, m, S
<1>6. size \in Nat /\ size <= m /\ (\A i \in 1..size : offset + i \in 1..n)
  BY <1>1, <1>2
<1>7. \A k \in Nat : offset <= k /\ k < n => size > 0
  BY <1>1, <1>2
<1>8. \A k \in Nat : offset <= k /\ k < n /\ k < offset + m => k - offset + 1 \in 1..size
  BY <1>1, <1>2
<1> HIDE DEF size
<1>9. DOMAIN page = 1..size /\ Len(page) = size /\ (page = <<>> <=> size = 0)
  <2>1. DOMAIN page = 1..size
    BY <1>3
  <2>2. Len(page) = size
    BY <1>3, <1>6
  <2>3. size = 0 => page = <<>>
    <3> DEFINE X == {page[i] : i \in 1..size}
    <3>1. page = [i \in 1..size |-> page[i]]
      BY <1>3, <2>1
    <3>2. \A i \in 1..size : page[i] \in X
      OBVIOUS
    <3> HIDE DEF X
    <3>3. page \in Seq(X)
      BY <1>6, <3>1, <3>2
    <3> QED BY <2>2, <3>3
  <2>4. size # 0 => page # <<>>
    BY <1>6, <2>1, <2>2
  <2> QED BY <2>1, <2>2, <2>3, <2>4
<1>10. ASSUME NEW i \in DOMAIN page
       PROVE  \E r \in S : page[i] = table[r].data /\ Place(S, r) = offset + i - 1
  <2>1. i \in 1..size /\ page[i] = table[all[offset + i]].data
    BY <1>3, <1>9
  <2>2. PICK k \in 1..n : k = offset + i
    BY <1>6, <2>1
  <2>3. all[k] \in S /\ Place(S, all[k]) = k - 1
    BY <1>1
  <2> QED BY <2>1, <2>2, <2>3
<1>11. ASSUME NEW r \in S, offset <= Place(S, r), Place(S, r) < offset + m
       PROVE  \E i \in DOMAIN page : i = Place(S, r) - offset + 1 /\ page[i] = table[r].data
  <2> DEFINE i == Place(S, r) - offset + 1
  <2>1. i \in 1..size
    BY <1>4, <1>8, <1>11
  <2>2. page[i] = table[all[offset + i]].data /\ offset + i = Place(S, r) + 1
    BY <1>3, <1>4, <2>1
  <2>3. all[offset + i] = r
    BY <1>1, <2>2
  <2> QED BY <1>9, <2>1, <2>2, <2>3
<1>12. \A r \in S : offset <= Place(S, r) => size > 0
  BY <1>4, <1>7
<1> QED BY <1>6, <1>9, <1>10, <1>11, <1>12 DEF PageCovers, page, S, m

-----------------------------------------------------------------------------
(* The rows of the table, and a client that reads pages.                   *)

\* Rows are numbered in the order they came, and there are no more of them
\* than ids were used.
RowsNumbered ==
  /\ issued \in 0..Cardinality(Records)
  /\ Cardinality(DOMAIN table) <= issued
  /\ \A r \in DOMAIN table : table[r].rowid < issued
  /\ \A r, q \in DOMAIN table : r # q => table[r].rowid # table[q].rowid

WalkRecord ==
  [on : BOOLEAN, client : Owners \cup {Whichever}, limit : Nat, offset : Nat,
   seen : SUBSET Records, watched : SUBSET Records]

\* What a client that reads pages has yet to see lies ahead of it; one that has
\* come to the end has seen it all.
WalkAhead ==
  /\ walk \in WalkRecord
  /\ walk.on => \A r \in walk.watched \ walk.seen :
       /\ r \in Selected(ByClient(walk.client))
       /\ Place(Selected(ByClient(walk.client)), r) >= walk.offset
  /\ ~walk.on => walk.watched \subseteq walk.seen

LEMMA RowsFinite ==
  ASSUME StoreInv
  PROVE  \A S \in SUBSET DOMAIN table :
           /\ IsFiniteSet(S) /\ Cardinality(S) \in Nat
           /\ Cardinality(S) <= Cardinality(DOMAIN table) /\ Cardinality(DOMAIN table) \in Nat
<1>1. IsFiniteSet(Records) /\ DOMAIN table \in SUBSET Records
  BY StoreAssumption DEF StoreInv, RowsAreJobs
<1>2. IsFiniteSet(DOMAIN table)
  BY <1>1, FS_Subset
<1> QED BY <1>2, FS_Subset, FS_CardinalityType

LEMMA RowsOrdered ==
  ASSUME StoreInv, RowsNumbered, NEW S \in SUBSET DOMAIN table
  PROVE  Ordered(S)
<1>1. \A r \in S : table[r].created \in Nat /\ table[r].rowid \in Nat
  BY DEF StoreInv, Row
<1>2. \A r, q \in S : r # q => table[r].rowid # table[q].rowid
  BY DEF RowsNumbered
<1>3. IsFiniteSet(S)
  BY RowsFinite
<1> QED BY <1>1, <1>2, <1>3 DEF Ordered, Newer

\* The jobs of a client.
LEMMA ByClientIs ==
  ASSUME StoreInv, NEW c
  PROVE  Selected(ByClient(c)) = {r \in DOMAIN table : c = Whichever \/ table[r].client = c}
<1>1. \A r \in DOMAIN table : table[r].created \in 0..MaxClock
  BY DEF StoreInv, Row
<1>2. \A x : x.created \in 0..MaxClock =>
        (Selects(ByClient(c), x) <=> c = Whichever \/ x.client = c)
  BY StoreAssumption DEF Selects, ByClient
<1> QED BY <1>1, <1>2 DEF Selected

-----------------------------------------------------------------------------

LEMMA InsertRows ==
  ASSUME StoreInv, NEW r \in Records, NEW c \in Owners, Insert(r, c)
  PROVE  /\ r \notin DOMAIN table /\ DOMAIN table' = DOMAIN table \cup {r}
         /\ table'[r].rowid = issued
         /\ \A q \in DOMAIN table : table'[q] = table[q]
         /\ issued' = issued + 1 /\ walk' = walk /\ issued < Cardinality(Records)
<1> DEFINE job == [id |-> r, client |-> c, printer |-> NoDestination, status |-> "RECEIVED",
                   created |-> clock, key |-> KeyOf[r]]
<1>0. /\ r \notin DOMAIN heap /\ r \notin DOMAIN table
      /\ table' = Upsert(table, job) /\ walk' = walk
      /\ issued' = issued + 1 /\ issued < Cardinality(Records)
      /\ DOMAIN heap' = DOMAIN heap \cup {r}
  BY DEF Insert, StoreInv, RowsAreJobs, Put
<1>1. StoreInv'
  BY InsertStores
<1>2. DOMAIN table' = DOMAIN table \cup {r}
  BY <1>0, <1>1 DEF StoreInv, RowsAreJobs
<1>3. table' = Put(table, r, NewRow(job))
  <2>1. ~Conflicts(table, job)
    <3> SUFFICES ASSUME Conflicts(table, job) PROVE FALSE
      OBVIOUS
    <3>1. job.id \notin DOMAIN table /\ Upsert(table, job) = table
      BY <1>0 DEF Upsert
    <3> QED BY <1>0, <1>2, <3>1
  <2> QED BY <1>0, <2>1 DEF Upsert
<1>4. NewRow(job).rowid = issued
  BY DEF NewRow
<1>5. table'[r] = NewRow(job) /\ \A q \in DOMAIN table : table'[q] = table[q]
  BY <1>0, <1>3 DEF Put
<1> QED BY <1>0, <1>2, <1>4, <1>5

LEMMA UpdateRows ==
  ASSUME StoreInv, NEW r \in Records, NEW s \in Statuses, NEW p \in Destinations, Update(r, s, p)
  PROVE  /\ DOMAIN table' = DOMAIN table /\ issued' = issued /\ walk' = walk
         /\ \A q \in DOMAIN table :
              /\ table'[q].rowid = table[q].rowid /\ table'[q].created = table[q].created
              /\ table'[q].client = table[q].client
<1> DEFINE job == [heap[r] EXCEPT !.status = s, !.printer = p]
<1>0. /\ r \in DOMAIN heap /\ r \in DOMAIN table
      /\ table' = Upsert(table, job) /\ issued' = issued /\ walk' = walk
  BY DEF Update, StoreInv, RowsAreJobs
<1>1. heap[r] \in Job /\ table[r] \in Row /\ heap[r].id = r
  BY <1>0 DEF StoreInv
<1>2. job.id = r
  BY <1>1 DEF Job
<1> HIDE DEF job
<1> DEFINE row == [table[r] EXCEPT !.printer = job.printer, !.status = job.status, !.data = job]
<1>3. table' = [table EXCEPT ![r] = row]
  BY <1>0, <1>2 DEF Upsert
<1>4. row.rowid = table[r].rowid /\ row.created = table[r].created /\ row.client = table[r].client
  BY <1>1 DEF Row
<1> HIDE DEF row
<1>5. DOMAIN table' = DOMAIN table /\ table'[r] = row /\ \A q \in DOMAIN table : q # r => table'[q] = table[q]
  BY <1>0, <1>3
<1> QED BY <1>0, <1>4, <1>5

LEMMA PurgeRows ==
  ASSUME StoreInv, NEW cutoff, Purge(cutoff)
  PROVE  /\ DOMAIN table' \subseteq DOMAIN table /\ issued' = issued /\ walk' = walk
         /\ \A q \in DOMAIN table' : table'[q] = table[q]
BY DEF Purge, Keep

\* New rows get new numbers.
LEMMA NumberedInsert ==
  ASSUME StoreInv, RowsNumbered, NEW r \in Records, NEW c \in Owners, Insert(r, c)
  PROVE  RowsNumbered'
<1>1. /\ r \notin DOMAIN table /\ DOMAIN table' = DOMAIN table \cup {r}
      /\ table'[r].rowid = issued
      /\ \A q \in DOMAIN table : table'[q] = table[q]
      /\ issued' = issued + 1 /\ issued < Cardinality(Records)
  BY InsertRows
<1>2. IsFiniteSet(DOMAIN table) /\ Cardinality(DOMAIN table) \in Nat
  BY RowsFinite
<1>3. Cardinality(DOMAIN table') = Cardinality(DOMAIN table) + 1
  BY <1>1, <1>2, FS_AddElement
<1>4. Cardinality(Records) \in Nat
  BY StoreAssumption, FS_CardinalityType
<1>5. \A q \in DOMAIN table : table[q].rowid \in Nat
  BY DEF StoreInv, Row
<1>6. issued' \in 0..Cardinality(Records) /\ Cardinality(DOMAIN table') <= issued'
  BY <1>1, <1>2, <1>3, <1>4 DEF RowsNumbered
<1>7. \A q \in DOMAIN table' : table'[q].rowid < issued'
  BY <1>1, <1>5 DEF RowsNumbered
<1>8. \A p, q \in DOMAIN table' : p # q => table'[p].rowid # table'[q].rowid
  BY <1>1, <1>5 DEF RowsNumbered
<1> QED BY <1>6, <1>7, <1>8 DEF RowsNumbered

LEMMA NumberedKept ==
  ASSUME StoreInv, RowsNumbered, issued' = issued, DOMAIN table' \subseteq DOMAIN table,
         \A q \in DOMAIN table' : table'[q].rowid = table[q].rowid
  PROVE  RowsNumbered'
<1>1. Cardinality(DOMAIN table') <= Cardinality(DOMAIN table) /\ Cardinality(DOMAIN table') \in Nat
      /\ Cardinality(DOMAIN table) \in Nat
  BY RowsFinite
<1>2. issued \in Nat
  BY DEF StoreInv
<1> QED BY <1>1, <1>2 DEF RowsNumbered

\* A new job comes before the others: what the client has yet to see moves
\* away from it.
LEMMA WalkInsert ==
  ASSUME StoreInv, RowsNumbered, WalkAhead, NEW r \in Records, NEW c \in Owners, Insert(r, c)
  PROVE  WalkAhead'
<1>1. /\ DOMAIN table' = DOMAIN table \cup {r} /\ walk' = walk
      /\ \A q \in DOMAIN table : table'[q] = table[q]
  BY InsertRows
<1>2. StoreInv'
  BY InsertStores
<1> DEFINE f == ByClient(walk.client)
           S == Selected(f)
           S2 == {q \in DOMAIN table' : walk.client = Whichever \/ table'[q].client = walk.client}
<1>3. S = {q \in DOMAIN table : walk.client = Whichever \/ table[q].client = walk.client}
  BY ByClientIs
<1>4. Selected(ByClient(walk.client))' = S2
  <2>1. \A q \in DOMAIN table' : table'[q].created \in 0..MaxClock
    BY <1>2 DEF StoreInv, Row
  <2>2. \A x : x.created \in 0..MaxClock =>
          (Selects(ByClient(walk'.client), x) <=> walk'.client = Whichever \/ x.client = walk'.client)
    BY StoreAssumption DEF Selects, ByClient
  <2>3. Selected(ByClient(walk.client))'
          = {q \in DOMAIN table' : Selects(ByClient(walk'.client), table'[q])}
    BY DEF Selected, ByClient, Selects
  <2> QED BY <1>1, <2>1, <2>2, <2>3
<1>5. S \subseteq S2 /\ S \subseteq DOMAIN table /\ S2 \subseteq DOMAIN table'
  BY <1>1, <1>3
<1>6. IsFiniteSet(S2)
  <2>1. IsFiniteSet(Records) /\ S2 \in SUBSET Records
    BY <1>2, <1>5, StoreAssumption DEF StoreInv, RowsAreJobs
  <2> QED BY <2>1, FS_Subset
<1> HIDE DEF S, S2
<1> DEFINE newer(q) == {x \in S2 : Newer(x, q)'}
<1>7. ASSUME NEW q \in S PROVE Place(S, q) <= Cardinality(newer(q)) /\ Cardinality(newer(q)) \in Nat
                               /\ Place(S, q) \in Nat
  <2>1. Before(S, q) \subseteq newer(q)
    BY <1>1, <1>5 DEF Before, Newer
  <2>2. IsFiniteSet(newer(q))
    BY <1>6, FS_Subset
  <2>3. /\ Cardinality(Before(S, q)) <= Cardinality(newer(q)) /\ IsFiniteSet(Before(S, q))
    BY <2>1, <2>2, FS_Subset
  <2> QED BY <2>2, <2>3, FS_CardinalityType DEF Place
<1>8. \A q : Place(Selected(ByClient(walk.client)), q)' = Cardinality(newer(q))
  BY <1>4 DEF Place, Before
<1> HIDE DEF newer
<1>9. walk \in WalkRecord /\ walk.offset \in Nat
  BY Zenon DEF WalkAhead, WalkRecord
<1>10. ASSUME walk.on, NEW q \in walk.watched \ walk.seen
       PROVE  q \in S2 /\ Cardinality(newer(q)) >= walk.offset
  <2>1. q \in S /\ Place(S, q) >= walk.offset
    BY <1>10, Zenon DEF WalkAhead, S
  <2> QED BY <1>5, <1>7, <1>9, <2>1
<1>11. walk'.on => \A q \in walk'.watched \ walk'.seen :
         /\ q \in Selected(ByClient(walk.client))'
         /\ Place(Selected(ByClient(walk.client)), q)' >= walk'.offset
  BY <1>1, <1>4, <1>8, <1>10
<1>12. ~walk'.on => walk'.watched \subseteq walk'.seen
  BY <1>1, Zenon DEF WalkAhead
<1> QED BY <1>1, <1>9, <1>11, <1>12, Zenon DEF WalkAhead, WalkRecord

\* The client and the order of a row never change.
LEMMA WalkKept ==
  ASSUME StoreInv, StoreInv', WalkAhead, DOMAIN table' = DOMAIN table, walk' = walk,
         \A q \in DOMAIN table :
           /\ table'[q].rowid = table[q].rowid /\ table'[q].created = table[q].created
           /\ table'[q].client = table[q].client
  PROVE  WalkAhead'
<1> DEFINE S == Selected(ByClient(walk.client))
<1>1. Selected(ByClient(walk.client))' = S
  <2>1. \A x, y : x.created = y.created /\ x.client = y.client =>
          (Selects(ByClient(walk.client), x) <=> Selects(ByClient(walk.client), y))
    BY DEF Selects, ByClient
  <2>2. Selected(ByClient(walk.client))'
          = {q \in DOMAIN table' : Selects(ByClient(walk'.client), table'[q])}
    BY DEF Selected, ByClient, Selects
  <2> QED BY <2>1, <2>2 DEF Selected
<1>2. S \subseteq DOMAIN table
  BY DEF Selected
<1>3. \A x, q \in DOMAIN table : Newer(x, q)' <=> Newer(x, q)
  BY DEF Newer
<1>4. \A q \in S : Place(Selected(ByClient(walk.client)), q)' = Place(S, q)
  <2> SUFFICES ASSUME NEW q \in S PROVE Place(Selected(ByClient(walk.client)), q)' = Place(S, q)
    OBVIOUS
  <2>1. {x \in S : Newer(x, q)'} = Before(S, q)
    BY <1>2, <1>3 DEF Before
  <2>2. Place(Selected(ByClient(walk.client)), q)' = Cardinality({x \in S : Newer(x, q)'})
    BY <1>1 DEF Place, Before
  <2> QED BY <2>1, <2>2 DEF Place
<1> HIDE DEF S
<1>5. /\ walk.on => \A q \in walk.watched \ walk.seen : q \in S /\ Place(S, q) >= walk.offset
      /\ ~walk.on => walk.watched \subseteq walk.seen
  BY Zenon DEF WalkAhead, S
<1>6. walk' \in WalkRecord
  BY Zenon DEF WalkAhead, WalkRecord
<1>7. walk'.on => \A q \in walk'.watched \ walk'.seen :
         /\ q \in Selected(ByClient(walk.client))'
         /\ Place(Selected(ByClient(walk.client)), q)' >= walk'.offset
  BY <1>1, <1>4, <1>5
<1> QED BY <1>5, <1>6, <1>7, Zenon DEF WalkAhead, WalkRecord

\* With no purge under way while pages are read, nothing is watched that goes.
LEMMA WalkStill ==
  ASSUME WalkAhead, ~walk.on, walk' = walk
  PROVE  WalkAhead'
<1>1. walk' \in WalkRecord /\ ~walk'.on /\ walk'.watched \subseteq walk'.seen
  BY Zenon DEF WalkAhead, WalkRecord
<1> QED BY <1>1, Zenon DEF WalkAhead, WalkRecord

LEMMA WalkBegins ==
  ASSUME StoreInv, RowsNumbered, NEW c \in Owners \cup {Whichever}, NEW n \in Nat, BeginWalk(c, n)
  PROVE  WalkAhead'
<1> DEFINE S == Selected(ByClient(c))
<1>1. /\ walk' = [on |-> TRUE, client |-> c, limit |-> EffectiveLimit(n), offset |-> 0, seen |-> {},
                  watched |-> {j.id : j \in HeapMatches(ByClient(c))}]
      /\ table' = table
  BY DEF BeginWalk
<1>2. S \subseteq DOMAIN table /\ S \subseteq Records
  BY DEF Selected, StoreInv, RowsAreJobs
<1>3. {j.id : j \in HeapMatches(ByClient(c))} = S
  <2>1. \A r \in DOMAIN heap : Selects(ByClient(c), heap[r]) <=> Selects(ByClient(c), table[r])
    BY DEF Selects, ByClient, StoreInv, RowsAreJobs
  <2>2. \A r \in DOMAIN heap : heap[r].id = r
    BY DEF StoreInv
  <2>3. DOMAIN heap = DOMAIN table
    BY DEF StoreInv, RowsAreJobs
  <2> QED BY <2>1, <2>2, <2>3 DEF HeapMatches, Selected
<1>4. Selected(ByClient(walk.client))' = S
  <2>1. Selected(ByClient(walk.client))'
          = {q \in DOMAIN table' : Selects(ByClient(walk'.client), table'[q])}
    BY DEF Selected, ByClient, Selects
  <2>2. walk'.client = c
    BY <1>1
  <2> QED BY <1>1, <2>1, <2>2 DEF Selected
<1>5. Ordered(S)
  BY <1>2, RowsOrdered
<1>6. \A q \in S : Place(S, q) \in Nat
  BY <1>5, PlaceBounds
<1>7. \A q \in S : Place(Selected(ByClient(walk.client)), q)' = Place(S, q)
  BY <1>1, <1>4 DEF Place, Before, Newer
<1>8. walk' \in WalkRecord
  BY <1>1, <1>2, <1>3, LimitType DEF WalkRecord
<1>9. walk'.on /\ walk'.watched = S /\ walk'.offset = 0
  BY <1>1, <1>3
<1> HIDE DEF S
<1>10. \A q \in walk'.watched \ walk'.seen :
         /\ q \in Selected(ByClient(walk.client))'
         /\ Place(Selected(ByClient(walk.client)), q)' >= walk'.offset
  BY <1>4, <1>6, <1>7, <1>9
<1> QED BY <1>8, <1>9, <1>10, Zenon DEF WalkAhead, WalkRecord

\* A page brings what is at its places; an empty one means that nothing is
\* left ahead.
LEMMA WalkReads ==
  ASSUME StoreInv, RowsNumbered, WalkAhead, ReadPage
  PROVE  WalkAhead'
<1> DEFINE f == ByClient(walk.client)
           S == Selected(f)
           page == List(f, walk.limit, walk.offset)
           m == EffectiveLimit(walk.limit)
           ids == {j.id : j \in Range(page)}
<1>1. /\ walk.on /\ table' = table
      /\ walk' = [walk EXCEPT !.offset = @ + Len(page), !.on = page # <<>>, !.seen = @ \cup ids]
  BY Zenon DEF ReadPage
<1>2. walk \in WalkRecord /\ \A q \in walk.watched \ walk.seen : q \in S /\ Place(S, q) >= walk.offset
  BY <1>1, Zenon DEF WalkAhead, WalkRecord
<1>3. walk.offset \in Nat /\ walk.limit \in Nat /\ walk.seen \in SUBSET Records
  BY <1>2 DEF WalkRecord
<1>4. S \subseteq DOMAIN table /\ Ordered(S)
  BY RowsOrdered DEF Selected
<1>5. /\ Len(page) \in Nat /\ DOMAIN page = 1..Len(page) /\ Len(page) <= m
      /\ page = <<>> <=> Len(page) = 0
      /\ \A i \in DOMAIN page :
           \E r \in S : page[i] = table[r].data /\ Place(S, r) = walk.offset + i - 1
      /\ \A r \in S : walk.offset <= Place(S, r) /\ Place(S, r) < walk.offset + m =>
           \E i \in DOMAIN page : i = Place(S, r) - walk.offset + 1 /\ page[i] = table[r].data
      /\ \A r \in S : walk.offset <= Place(S, r) => Len(page) > 0
  <2>1. PageCovers(f, walk.limit, walk.offset)
    BY <1>3, <1>4, ListIs
  <2> QED BY <2>1 DEF PageCovers
<1>6. \A q \in S : Place(S, q) \in Nat
  BY <1>4, PlaceBounds
<1>7. m \in Nat \ {0}
  BY <1>3, LimitType
<1>8. \A r \in S : table[r].data.id = r /\ r \in Records
  BY <1>4 DEF StoreInv, RowsAreJobs
<1> HIDE DEF page, m, S
<1>9. ids \subseteq Records
  <2> SUFFICES ASSUME NEW i \in DOMAIN page PROVE page[i].id \in Records
    BY DEF Range
  <2>1. PICK r \in S : page[i] = table[r].data
    BY <1>5
  <2> QED BY <1>8, <2>1
<1>10. \A q \in S : walk.offset <= Place(S, q) /\ Place(S, q) < walk.offset + m => q \in ids
  <2> SUFFICES ASSUME NEW q \in S, walk.offset <= Place(S, q), Place(S, q) < walk.offset + m
               PROVE  q \in ids
    OBVIOUS
  <2>1. PICK i \in DOMAIN page : page[i] = table[q].data
    BY <1>5
  <2>2. page[i].id = q /\ page[i] \in Range(page)
    BY <1>8, <2>1 DEF Range
  <2> QED BY <2>2
<1> HIDE DEF ids
<1>11. /\ walk' \in WalkRecord /\ walk'.offset = walk.offset + Len(page)
       /\ walk'.on = (page # <<>>) /\ walk'.seen = walk.seen \cup ids
       /\ walk'.client = walk.client /\ walk'.watched = walk.watched
  <2> DEFINE b == page # <<>>
             o == walk.offset + Len(page)
             s == walk.seen \cup ids
  <2>1. b \in BOOLEAN /\ o \in Nat /\ s \in SUBSET Records
    BY <1>3, <1>5, <1>9
  <2>2. walk' = [walk EXCEPT !.offset = o, !.on = b, !.seen = s]
    BY <1>1, Zenon
  <2> HIDE DEF b, o, s
  <2>3. /\ walk' \in WalkRecord /\ walk'.offset = o /\ walk'.on = b /\ walk'.seen = s
        /\ walk'.client = walk.client /\ walk'.watched = walk.watched
    BY <1>2, <2>1, <2>2 DEF WalkRecord
  <2> QED BY <2>3 DEF b, o, s
<1>12. Selected(ByClient(walk.client))' = S
  <2>1. Selected(ByClient(walk.client))'
          = {q \in DOMAIN table' : Selects(ByClient(walk'.client), table'[q])}
    BY DEF Selected, ByClient, Selects
  <2> QED BY <1>1, <1>11, <2>1 DEF Selected, S
<1>13. \A q : Place(Selected(ByClient(walk.client)), q)' = Place(S, q)
  BY <1>1, <1>12 DEF Place, Before, Newer
<1>14. \A q \in walk'.watched \ walk'.seen : q \in S /\ Place(S, q) >= walk.offset + m
  BY <1>2, <1>3, <1>6, <1>7, <1>10, <1>11
<1>15. \A q \in walk'.watched \ walk'.seen : q \in S /\ Place(S, q) >= walk'.offset
  BY <1>3, <1>5, <1>6, <1>7, <1>11, <1>14
<1>16. ~walk'.on => walk'.watched \subseteq walk'.seen
  <2>1. page = <<>> => \A q \in S : ~(walk.offset <= Place(S, q))
    BY <1>5
  <2> QED BY <1>2, <1>3, <1>6, <1>11, <2>1
<1>17. \A q \in walk'.watched \ walk'.seen :
         /\ q \in Selected(ByClient(walk.client))'
         /\ Place(Selected(ByClient(walk.client)), q)' >= walk'.offset
  BY <1>12, <1>13, <1>15
<1> QED BY <1>11, <1>16, <1>17, Zenon DEF WalkAhead, WalkRecord

LEMMA WalkEnds ==
  ASSUME EndWalk
  PROVE  WalkAhead'
<1>1. walk' = NoWalk
  BY DEF EndWalk
<1>2. walk' \in WalkRecord /\ ~walk'.on /\ walk'.watched = {}
  BY <1>1 DEF NoWalk, WalkRecord
<1> QED BY <1>2, Zenon DEF WalkAhead

-----------------------------------------------------------------------------

LEMMA ListsInit == StoreInit => RowsNumbered /\ WalkAhead
<1> SUFFICES ASSUME StoreInit PROVE RowsNumbered /\ WalkAhead
  OBVIOUS
<1>1. DOMAIN table = {} /\ issued = 0 /\ walk = NoWalk
  BY DEF StoreInit
<1>2. Cardinality({}) = 0 /\ Cardinality(Records) \in Nat
  BY FS_EmptySet, FS_CardinalityType, StoreAssumption
<1>3. walk \in WalkRecord /\ ~walk.on /\ walk.watched = {}
  BY <1>1 DEF NoWalk, WalkRecord
<1>4. RowsNumbered
  BY <1>1, <1>2 DEF RowsNumbered
<1>5. WalkAhead
  BY <1>3, Zenon DEF WalkAhead
<1> QED BY <1>4, <1>5

LEMMA ListsStep ==
  ASSUME ~WalkPurged, StoreInv, StoreInv', RowsNumbered, WalkAhead, [StoreNext]_storeVars
  PROVE  RowsNumbered' /\ WalkAhead'
<1>1. ASSUME NEW r \in Records, NEW c \in Owners, Insert(r, c)
      PROVE  RowsNumbered' /\ WalkAhead'
  BY <1>1, NumberedInsert, WalkInsert
<1>2. ASSUME NEW r \in Records, NEW s \in Statuses, NEW p \in Destinations, Update(r, s, p)
      PROVE  RowsNumbered' /\ WalkAhead'
  <2>1. /\ DOMAIN table' = DOMAIN table /\ issued' = issued /\ walk' = walk
        /\ \A q \in DOMAIN table :
             /\ table'[q].rowid = table[q].rowid /\ table'[q].created = table[q].created
             /\ table'[q].client = table[q].client
    BY <1>2, UpdateRows
  <2>2. DOMAIN table' \subseteq DOMAIN table /\ \A q \in DOMAIN table' : table'[q].rowid = table[q].rowid
    BY <2>1
  <2>3. RowsNumbered'
    BY <2>1, <2>2, NumberedKept
  <2> QED BY <2>1, <2>3, WalkKept
<1>3. ASSUME NEW cutoff, Purge(cutoff)
      PROVE  RowsNumbered' /\ WalkAhead'
  <2>1. /\ DOMAIN table' \subseteq DOMAIN table /\ issued' = issued /\ walk' = walk
        /\ \A q \in DOMAIN table' : table'[q] = table[q]
    BY <1>3, PurgeRows
  <2>2. \A q \in DOMAIN table' : table'[q].rowid = table[q].rowid
    BY <2>1
  <2>3. RowsNumbered'
    BY <2>1, <2>2, NumberedKept
  <2>4. ~walk.on
    BY <1>3, Zenon DEF Purge
  <2> QED BY <2>1, <2>3, <2>4, WalkStill
<1>4. ASSUME UNCHANGED <<table, issued>> PROVE RowsNumbered'
  BY <1>4 DEF RowsNumbered
<1>5. ASSUME NEW c \in Owners \cup {Whichever}, NEW n \in {0, 1, MaxLimit + 1}, BeginWalk(c, n)
      PROVE  RowsNumbered' /\ WalkAhead'
  <2>1. n \in Nat
    BY StoreAssumption
  <2>2. WalkAhead'
    BY <1>5, <2>1, WalkBegins
  <2>3. UNCHANGED <<table, issued>>
    BY <1>5 DEF BeginWalk
  <2> QED BY <1>4, <2>2, <2>3
<1>6. CASE Advance \/ UNCHANGED storeVars
  <2>1. UNCHANGED <<table, issued, walk>>
    BY <1>6 DEF Advance, storeVars
  <2>2. WalkAhead'
    BY <2>1, WalkKept
  <2> QED BY <1>4, <2>1, <2>2
<1>7. CASE ReadPage
  <2>1. UNCHANGED <<table, issued>>
    BY <1>7 DEF ReadPage
  <2> QED BY <1>4, <1>7, <2>1, WalkReads
<1>8. CASE EndWalk
  <2>1. UNCHANGED <<table, issued>>
    BY <1>8 DEF EndWalk
  <2> QED BY <1>4, <1>8, <2>1, WalkEnds
<1> QED
  BY <1>1, <1>2, <1>3, <1>5, <1>6, <1>7, <1>8 DEF StoreNext

\* What the pages of a list bring, wherever they begin: the rows and their
\* places, all of them and nothing else.
LEMMA EntriesAre ==
  ASSUME StoreInv, RowsNumbered, NEW f
  PROVE  UNION {PageEntries(f, o) : o \in 0..issued}
           = {<<Place(Selected(f), r) + 1, heap[r]>> : r \in Selected(f)}
<1> DEFINE S == Selected(f)
           page(o) == List(f, MaxLimit, o)
<1>1. S \in SUBSET DOMAIN table /\ Ordered(S)
  BY RowsOrdered DEF Selected
<1>2. \A r \in S : Place(S, r) \in Nat /\ Place(S, r) < Cardinality(S) /\ Cardinality(S) \in Nat
  BY <1>1, PlaceBounds
<1>3. \A r \in S : table[r].data = heap[r]
  BY <1>1 DEF StoreInv, RowsAreJobs
<1>4. MaxLimit \in Nat \ {0} /\ EffectiveLimit(MaxLimit) = MaxLimit /\ issued \in Nat
  BY StoreAssumption, LimitType DEF StoreInv
<1>5. \A r \in S : Place(S, r) \in 0..issued
  <2>1. Cardinality(S) <= Cardinality(DOMAIN table) /\ Cardinality(DOMAIN table) \in Nat
        /\ Cardinality(DOMAIN table) <= issued
    BY <1>1, RowsFinite DEF RowsNumbered
  <2> QED BY <1>2, <1>4, <2>1
<1>6. ASSUME NEW o \in Nat
      PROVE  /\ \A i \in DOMAIN page(o) :
                  i \in Nat /\ \E r \in S : page(o)[i] = table[r].data /\ Place(S, r) = o + i - 1
             /\ \A r \in S : o <= Place(S, r) /\ Place(S, r) < o + MaxLimit =>
                  \E i \in DOMAIN page(o) : i = Place(S, r) - o + 1 /\ page(o)[i] = table[r].data
  <2>1. /\ Len(page(o)) \in Nat /\ DOMAIN page(o) = 1..Len(page(o))
        /\ \A i \in DOMAIN page(o) :
             \E r \in S : page(o)[i] = table[r].data /\ Place(S, r) = o + i - 1
        /\ \A r \in S : o <= Place(S, r) /\ Place(S, r) < o + EffectiveLimit(MaxLimit) =>
             \E i \in DOMAIN page(o) : i = Place(S, r) - o + 1 /\ page(o)[i] = table[r].data
    <3>1. PageCovers(f, MaxLimit, o)
      BY <1>1, <1>4, ListIs
    <3> QED BY <3>1 DEF PageCovers
  <2> HIDE DEF page, S
  <2>2. \A i \in DOMAIN page(o) : i \in Nat
    BY <2>1
  <2> QED BY <1>4, <2>1, <2>2
<1>7. \A o : PageEntries(f, o) = {<<o + i, page(o)[i]>> : i \in DOMAIN page(o)}
  BY DEF PageEntries
<1> HIDE DEF page, S
<1>8. ASSUME NEW o \in 0..issued, NEW i \in DOMAIN page(o)
      PROVE  \E r \in S : <<o + i, page(o)[i]>> = <<Place(S, r) + 1, heap[r]>>
  <2>0. o \in Nat
    BY <1>4
  <2>1. i \in Nat /\ \E r \in S : page(o)[i] = table[r].data /\ Place(S, r) = o + i - 1
    BY <1>6, <2>0
  <2>2. PICK r \in S : page(o)[i] = table[r].data /\ Place(S, r) = o + i - 1
    BY <2>1
  <2>3. page(o)[i] = heap[r] /\ o + i = Place(S, r) + 1
    BY <1>3, <2>0, <2>1, <2>2
  <2> QED BY <2>3
<1>9. ASSUME NEW r \in S
      PROVE  \E o \in 0..issued : <<Place(S, r) + 1, heap[r]>> \in PageEntries(f, o)
  <2> DEFINE o == Place(S, r)
  <2>1. o \in 0..issued /\ o \in Nat /\ o < o + MaxLimit /\ o <= o
    BY <1>2, <1>4, <1>5
  <2>2. PICK i \in DOMAIN page(o) : i = o - o + 1 /\ page(o)[i] = table[r].data
    BY <1>6, <2>1
  <2>3. o + i = o + 1 /\ page(o)[i] = heap[r]
    BY <1>3, <2>1, <2>2
  <2>4. <<o + i, page(o)[i]>> \in PageEntries(f, o)
    BY <1>7, <2>2
  <2> QED BY <2>1, <2>3, <2>4
<1>10. \A b : b \in UNION {PageEntries(f, o) : o \in 0..issued} <=>
         b \in {<<Place(S, r) + 1, heap[r]>> : r \in S}
  <2>1. ASSUME NEW b, b \in UNION {PageEntries(f, o) : o \in 0..issued}
        PROVE  b \in {<<Place(S, r) + 1, heap[r]>> : r \in S}
    <3>1. PICK o \in 0..issued : b \in PageEntries(f, o)
      BY <2>1
    <3>2. PICK i \in DOMAIN page(o) : b = <<o + i, page(o)[i]>>
      BY <1>7, <3>1
    <3> QED BY <1>8, <3>2
  <2>2. ASSUME NEW b, b \in {<<Place(S, r) + 1, heap[r]>> : r \in S}
        PROVE  b \in UNION {PageEntries(f, o) : o \in 0..issued}
    <3>1. PICK r \in S : b = <<Place(S, r) + 1, heap[r]>>
      BY <2>2
    <3> QED BY <1>9, <3>1
  <2> QED BY <2>1, <2>2
<1> QED BY <1>10 DEF S

LEMMA FaithfulLists ==
  ASSUME StoreInv, RowsNumbered, NEW f
  PROVE  LET read == UNION {PageEntries(f, o) : o \in 0..issued} IN
         /\ {e[2] : e \in read} = HeapMatches(f)
         /\ \A d, e \in read :
              (d[1] = e[1] <=> d[2] = e[2]) /\ (d[1] < e[1] => d[2].created >= e[2].created)
<1> DEFINE read == UNION {PageEntries(f, o) : o \in 0..issued}
           S == Selected(f)
<1>1. read = {<<Place(S, r) + 1, heap[r]>> : r \in S}
  BY EntriesAre
<1>2. S \in SUBSET DOMAIN table /\ Ordered(S)
  BY RowsOrdered DEF Selected
<1>3. S = {r \in DOMAIN heap : Selects(f, heap[r])}
  <2>1. \A r \in DOMAIN heap : Selects(f, heap[r]) <=> Selects(f, table[r])
    BY DEF StoreInv, RowsAreJobs, Selects
  <2> QED BY <2>1 DEF Selected, StoreInv, RowsAreJobs
<1>4. \A r \in S : heap[r].id = r /\ heap[r].created = table[r].created /\ table[r].created \in Nat
  BY <1>2 DEF StoreInv, RowsAreJobs, Row
<1> HIDE DEF read, S
<1>5. {e[2] : e \in read} = {heap[r] : r \in S}
  <2>1. ASSUME NEW e \in read PROVE e[2] \in {heap[r] : r \in S}
    <3>1. PICK r \in S : e = <<Place(S, r) + 1, heap[r]>>
      BY <1>1
    <3> QED BY <3>1
  <2>2. ASSUME NEW r \in S PROVE \E e \in read : e[2] = heap[r]
    <3>1. PICK e : e = <<Place(S, r) + 1, heap[r]>>
      OBVIOUS
    <3>2. e \in read /\ e[2] = heap[r]
      BY <1>1, <3>1
    <3> QED BY <3>2
  <2> QED BY <2>1, <2>2
<1>6. {e[2] : e \in read} = HeapMatches(f)
  BY <1>3, <1>5 DEF HeapMatches
<1>7. ASSUME NEW d \in read, NEW e \in read
      PROVE  (d[1] = e[1] <=> d[2] = e[2]) /\ (d[1] < e[1] => d[2].created >= e[2].created)
  <2>1. PICK a \in S : d = <<Place(S, a) + 1, heap[a]>>
    BY <1>1
  <2>2. PICK b \in S : e = <<Place(S, b) + 1, heap[b]>>
    BY <1>1
  <2>3. Place(S, a) \in Nat /\ Place(S, b) \in Nat
    BY <1>2, PlaceBounds
  <2>4. /\ Newer(a, b) <=> Place(S, a) < Place(S, b)
        /\ a = b <=> Place(S, a) = Place(S, b)
    BY <1>2, PlaceDecides
  <2>5. heap[a] = heap[b] <=> a = b
    BY <1>4
  <2>6. Newer(a, b) => heap[a].created >= heap[b].created
    BY <1>4 DEF Newer
  <2>7. d[1] = Place(S, a) + 1 /\ d[2] = heap[a] /\ e[1] = Place(S, b) + 1 /\ e[2] = heap[b]
    BY <2>1, <2>2
  <2> QED BY <2>3, <2>4, <2>5, <2>6, <2>7
<1> QED BY <1>6, <1>7 DEF read

\* For any number of jobs, clients, printers and filters and any page size: as
\* long as no purge falls between two pages of one reader, SQLite answers every
\* query as the jobs in memory would; pages read at any offsets are parts of
\* one list of the matching jobs, newest first, each once; and a client that
\* reads to the end misses no job that was there when it began, although new
\* ones move the offsets (upsert, list, non_terminal, find_by_idempotency_key,
\* purge_terminal_before).
THEOREM StoreStaysFaithful ==
  ASSUME ~WalkPurged
  PROVE  StoreSpec => []StoreIsFaithful
<1>1. StoreInit => RowsNumbered /\ WalkAhead
  BY ListsInit
<1>2. /\ StoreInv /\ StoreInv' /\ RowsNumbered /\ WalkAhead /\ [StoreNext]_storeVars
      => RowsNumbered' /\ WalkAhead'
  BY ListsStep
<1>3. StoreInv /\ RowsNumbered /\ WalkAhead => StoreIsFaithful
  <2> SUFFICES ASSUME StoreInv, RowsNumbered, WalkAhead PROVE StoreIsFaithful
    OBVIOUS
  <2>1. StoreTypeOK
    <3>1. \A r, q \in DOMAIN table : r # q /\ table[r].key # NoKey =>
            <<table[r].client, table[r].key>> # <<table[q].client, table[q].key>>
      BY DEF StoreInv, KeysDiffer
    <3> QED BY <3>1 DEF StoreTypeOK, StoreInv, RowsAreJobs, RowsNumbered
  <2>2. Unfinished = HeapUnfinished
    BY DEF StoreInv, RowsAreJobs, Unfinished, HeapUnfinished
  <2>3. \A c, k : FindByKey(c, k) = HeapByKey(c, k)
    BY DEF StoreInv, RowsAreJobs, FindByKey, HeapByKey
  <2>4. RepositoriesAgree
    BY <2>2, <2>3, FaithfulLists, Zenon DEF RepositoriesAgree
  <2>5. PagesMissNothing
    BY Zenon DEF WalkAhead, PagesMissNothing
  <2> QED BY <2>1, <2>4, <2>5 DEF StoreIsFaithful
<1> QED BY <1>1, <1>2, <1>3, StoresHold, PTL DEF StoreSpec
=============================================================================
