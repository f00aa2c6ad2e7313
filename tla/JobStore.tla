------------------------------- MODULE JobStore -------------------------------
(***************************************************************************)
(* The job repository: SQLite (agent/src/persistence.rs) and the one in    *)
(* memory (print-core/src/repository.rs), given the same calls.            *)
(*                                                                         *)
(* A row has columns to select by and the whole job as data.  upsert        *)
(* writes every column of a new row but only some of an old one; queries   *)
(* select by the columns and answer with the data.                         *)
(*                                                                         *)
(* A definition marked "Mutant" is a plausible mistake in the definition   *)
(* that follows it and is not part of the specification.                   *)
(***************************************************************************)
EXTENDS Naturals, Sequences, FiniteSets, Functions

CONSTANTS
  Records,       \* job ids
  Owners,        \* client ids
  Destinations,  \* printer ids
  KeyOf,         \* the idempotency key each job's request carries, or NoKey
  NoKey, Whichever,
  Statuses,      \* statuses a job is moved to
  NoDestination, \* a job whose printer is not resolved yet
  DefaultLimit,  \* what limit 0 stands for (100)
  MaxLimit,      \* JobFilter::MAX_LIMIT (500)
  MaxClock,
  WalkPurged     \* a purge may happen while a client reads pages

ASSUME StoreAssumption ==
  /\ IsFiniteSet(Records)
  /\ DefaultLimit \in Nat \ {0} /\ MaxLimit \in Nat \ {0} /\ MaxClock \in Nat
  /\ NoDestination \notin Destinations /\ WalkPurged \in BOOLEAN

VARIABLES
  table,   \* SQLite: the rows, a function on the stored ids
  heap,    \* in memory: the jobs, a function on the stored ids
  clock,
  issued,  \* ids used so far
  walk     \* a client that reads a list page by page

storeVars == <<table, heap, clock, issued, walk>>

Closed == {"COMPLETED", "FAILED", "CANCELLED"}

\* The entry of a function at one more point, or in place of the old entry
Put(f, i, v) == [x \in DOMAIN f \cup {i} |-> IF x = i THEN v ELSE f[x]]
Keep(f, S) == [x \in S |-> f[x]]

NoWalk == [on |-> FALSE, client |-> Whichever, limit |-> 1, offset |-> 0, seen |-> {}, watched |-> {}]

StoreInit ==
  /\ table = [r \in {} |-> 0] /\ heap = [r \in {} |-> 0]
  /\ clock = 0 /\ issued = 0 /\ walk = NoWalk

\* the unique index on (client_id, idempotency_key)
Conflicts(t, job) ==
  job.key # NoKey /\ \E r \in DOMAIN t : t[r].client = job.client /\ t[r].key = job.key

NewRow(job) ==
  [client |-> job.client, printer |-> job.printer, status |-> job.status,
   created |-> job.created, key |-> job.key, data |-> job, rowid |-> issued]

\* Mutant: ON CONFLICT leaves the status column as it was
UpsertStale(t, job) ==
  IF job.id \in DOMAIN t
  THEN [t EXCEPT ![job.id] = [@ EXCEPT !.printer = job.printer, !.data = job]]
  ELSE IF Conflicts(t, job) THEN t ELSE Put(t, job.id, NewRow(job))

\* upsert; a conflict of a new row on the key is an error that changes nothing
Upsert(t, job) ==
  IF job.id \in DOMAIN t
  THEN [t EXCEPT ![job.id] = [@ EXCEPT !.printer = job.printer, !.status = job.status,
                                       !.data = job]]
  ELSE IF Conflicts(t, job) THEN t ELSE Put(t, job.id, NewRow(job))

\* JobFilter: a filter is [client, printer, statuses, since, until], Whichever where
\* it does not ask
Selects(f, x) ==
  /\ f.client = Whichever \/ x.client = f.client
  /\ f.printer = Whichever \/ x.printer = f.printer
  /\ f.statuses = {} \/ x.status \in f.statuses
  /\ x.created >= f.since /\ x.created < f.until

\* JobFilter::effective_limit
EffectiveLimit(limit) ==
  IF limit = 0 THEN DefaultLimit ELSE IF limit < MaxLimit THEN limit ELSE MaxLimit

Slice(s, offset, limit) ==
  LET size == IF offset + limit < Len(s) THEN limit
              ELSE IF offset < Len(s) THEN Len(s) - offset ELSE 0
  IN [i \in 1..size |-> s[offset + i]]

\* ORDER BY created_at DESC; rows of one instant come in the index's order
Newer(a, b) ==
  \/ table[a].created > table[b].created
  \/ table[a].created = table[b].created /\ table[a].rowid > table[b].rowid
Sorted(S) ==
  [i \in 1..Cardinality(S) |-> CHOOSE r \in S : Cardinality({q \in S : Newer(q, r)}) = i - 1]

\* Database::list
List(f, limit, offset) ==
  LET page == Slice(Sorted({r \in DOMAIN table : Selects(f, table[r])}), offset, EffectiveLimit(limit))
  IN [i \in DOMAIN page |-> table[page[i]].data]

\* Database::non_terminal, find_by_idempotency_key
Unfinished == {table[r].data : r \in {r \in DOMAIN table : table[r].status \notin Closed}}
FindByKey(c, k) ==
  {table[r].data : r \in {r \in DOMAIN table : table[r].client = c /\ table[r].key = k}}

\* InMemoryJobRepository: list without its order, non_terminal and
\* find_by_idempotency_key, on the jobs themselves
HeapMatches(f) == {heap[r] : r \in {r \in DOMAIN heap : Selects(f, heap[r])}}
HeapUnfinished == {heap[r] : r \in {r \in DOMAIN heap : heap[r].status \notin Closed}}
HeapByKey(c, k) ==
  {heap[r] : r \in {r \in DOMAIN heap : heap[r].client = c /\ heap[r].key = k}}

\* insert: the engine looks for the key first, in both cases under its lock
Insert(r, c) ==
  /\ r \notin DOMAIN heap
  /\ issued < Cardinality(Records)
  /\ KeyOf[r] = NoKey \/ FindByKey(c, KeyOf[r]) = {}
  /\ LET job == [id |-> r, client |-> c, printer |-> NoDestination, status |-> "RECEIVED",
                 created |-> clock, key |-> KeyOf[r]] IN
     table' = Upsert(table, job) /\ heap' = Put(heap, r, job)
  /\ issued' = issued + 1
  /\ UNCHANGED <<clock, walk>>

\* update: the engine moves a job on and stores it
Update(r, s, p) ==
  /\ r \in DOMAIN heap /\ heap[r].status \notin Closed
  /\ heap[r].printer \in {p, NoDestination} /\ <<s, p>> # <<heap[r].status, heap[r].printer>>
  /\ LET job == [heap[r] EXCEPT !.status = s, !.printer = p] IN
     table' = Upsert(table, job) /\ heap' = Put(heap, r, job)
  /\ UNCHANGED <<clock, issued, walk>>

\* what purge_terminal_before deletes
Purged(x, cutoff) == x.created < cutoff /\ x.status \in Closed

Purge(cutoff) ==
  /\ WalkPurged \/ ~walk.on
  /\ table' = Keep(table, {r \in DOMAIN table : ~Purged(table[r], cutoff)})
  /\ heap' = Keep(heap, {r \in DOMAIN heap : ~(heap[r].created < cutoff /\ heap[r].status \in Closed)})
  /\ table' # table
  /\ UNCHANGED <<clock, issued, walk>>

Advance == clock < MaxClock /\ clock' = clock + 1 /\ UNCHANGED <<table, heap, issued, walk>>

ByClient(c) == [client |-> c, printer |-> Whichever, statuses |-> {}, since |-> 0, until |-> MaxClock + 1]

\* jobs.list, page after page: a client asks again where the last page ended
BeginWalk(c, n) ==
  /\ ~walk.on
  /\ walk' = [on |-> TRUE, client |-> c, limit |-> EffectiveLimit(n), offset |-> 0, seen |-> {},
              watched |-> {j.id : j \in HeapMatches(ByClient(c))}]
  /\ walk'.watched # {}
  /\ UNCHANGED <<table, heap, clock, issued>>

ReadPage ==
  /\ walk.on
  /\ LET page == List(ByClient(walk.client), walk.limit, walk.offset) IN
     walk' = [walk EXCEPT !.offset = @ + Len(page), !.on = page # <<>>,
                          !.seen = @ \cup {j.id : j \in Range(page)}]
  /\ UNCHANGED <<table, heap, clock, issued>>

EndWalk == ~walk.on /\ walk # NoWalk /\ walk' = NoWalk /\ UNCHANGED <<table, heap, clock, issued>>

StoreNext ==
  \/ \E r \in Records, c \in Owners : Insert(r, c)
  \/ \E r \in Records, s \in Statuses, p \in Destinations : Update(r, s, p)
  \/ \E cutoff \in 0..MaxClock : Purge(cutoff)
  \/ \E c \in Owners \cup {Whichever}, n \in {0, 1, MaxLimit + 1} : BeginWalk(c, n)
  \/ Advance \/ ReadPage \/ EndWalk

StoreSpec == StoreInit /\ [][StoreNext]_storeVars

-----------------------------------------------------------------------------

\* The state is well formed, and no two rows have one client and key.
StoreTypeOK ==
  /\ DOMAIN table \subseteq Records /\ DOMAIN heap \subseteq Records
  /\ clock \in 0..MaxClock /\ issued \in 0..Cardinality(Records)
  /\ \A r, q \in DOMAIN table :
       r # q /\ table[r].key # NoKey => <<table[r].client, table[r].key>> # <<table[q].client, table[q].key>>

Filters ==
  [client : Owners \cup {Whichever}, printer : Destinations \cup {Whichever},
   statuses : {{}, {"RECEIVED"}}, since : {0}, until : {MaxClock + 1}]
  \cup [client : {Whichever}, printer : {Whichever}, statuses : {Closed},
        since : {0, 1}, until : {1, MaxClock + 1}]

\* A page of a list, each job with its place in the whole list
PageEntries(f, offset) ==
  LET page == List(f, MaxLimit, offset) IN {<<offset + i, page[i]>> : i \in DOMAIN page}

\* SQLite answers every query as the repository in memory does: what it selects
\* by is what the job says now, after any order of inserts, updates and purges,
\* and pages read at any offsets are parts of one list of the matching jobs,
\* newest first, each of them once (upsert, list, non_terminal,
\* find_by_idempotency_key, purge_terminal_before).
RepositoriesAgree ==
  /\ \A f \in Filters :
       LET read == UNION {PageEntries(f, o) : o \in 0..issued} IN
       /\ {e[2] : e \in read} = HeapMatches(f)
       /\ \A d, e \in read :
            (d[1] = e[1] <=> d[2] = e[2]) /\ (d[1] < e[1] => d[2].created >= e[2].created)
  /\ Unfinished = HeapUnfinished
  /\ \A c \in Owners, r \in Records : FindByKey(c, KeyOf[r]) = HeapByKey(c, KeyOf[r])

\* A client that reads a list to its end has seen every job that was there when
\* it began, although new jobs arrive meanwhile and move the offsets (list,
\* effective_limit; jobs.list has limit and offset).
PagesMissNothing == ~walk.on => walk.watched \subseteq walk.seen

\* The repository that outlives the agent answers as the jobs themselves would,
\* page by page too (persistence.rs).
StoreIsFaithful == StoreTypeOK /\ RepositoriesAgree /\ PagesMissNothing
=============================================================================
