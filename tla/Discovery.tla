------------------------------ MODULE Discovery ------------------------------
(***************************************************************************)
(* The engine's printer cache (print-core/src/engine/discovery.rs) and a   *)
(* listener that keeps its own list from printers.list and the printer     *)
(* events.                                                                 *)
(*                                                                         *)
(* Refreshes are started by the discovery loop and, for printers that are  *)
(* not in the cache, by requests.  A refresh asks one provider after the   *)
(* other, holding refresh_lock all along, writes the cache at once and     *)
(* publishes the differences one by one.  Printers come and go at any      *)
(* time, and a provider's discovery may fail.                              *)
(*                                                                         *)
(* A definition marked "Mutant" is a plausible mistake in the definition   *)
(* that follows it and is not part of the specification.                   *)
(***************************************************************************)
EXTENDS Naturals

CONSTANTS
  Providers,
  Printers,
  Owner,       \* the provider of each printer
  Statuses,    \* what status_differs tells apart
  Absent,      \* the "status" of a printer that is not there
  Loop,        \* the discovery loop
  Callers,     \* requests that look for an unknown printer
  Nobody,      \* holds the lock when it is free
  MaxChanges,  \* bound: changes of printers
  MaxFailures  \* bound: failed discoveries

ASSUME DiscoveryAssumption ==
  /\ Owner \in [Printers -> Providers]
  /\ Absent \notin Statuses
  /\ Loop \notin Callers
  /\ Nobody \notin Callers \cup {Loop}
  /\ MaxChanges \in Nat
  /\ MaxFailures \in Nat

Refreshers == Callers \cup {Loop}
Views == [Printers -> Statuses \cup {Absent}]

VARIABLES
  actual,    \* the printers there are
  cache,     \* PrinterCache.by_id
  refreshed, \* PrinterCache.last_refresh is set
  recent,    \* ... and less than discovery_min_gap ago
  lock,      \* refresh_lock
  pc,        \* of each refresher: see Steps
  asked,     \* the providers that have answered or failed in this refresh
  failed,    \* `failed`
  found,     \* `discovered`
  events,    \* per refresher, the printers it has still to publish, as it saw them
  listed,    \* the listener has called printers.list
  mirror,    \* the listener's list
  changes, failures

refreshVars == <<lock, pc, asked, failed, found, events>>
cacheVars   == <<cache, refreshed, recent>>
listenVars  == <<listed, mirror>>
envVars     == <<actual, changes, failures>>
vars == <<refreshVars, cacheVars, listenVars, envVars>>

Steps == {"idle", "waiting", "asking", "publishing"}

TypeOK ==
  /\ actual \in Views /\ cache \in Views /\ found \in Views /\ mirror \in Views
  /\ refreshed \in BOOLEAN /\ recent \in BOOLEAN /\ listed \in BOOLEAN
  /\ lock \in Refreshers \cup {Nobody}
  /\ pc \in [Refreshers -> Steps]
  /\ failed \subseteq asked /\ asked \subseteq Providers
  /\ events \in [Refreshers -> SUBSET (Printers \X (Statuses \cup {Absent}))]
  /\ changes \in 0..MaxChanges
  /\ failures \in 0..MaxFailures
  /\ \A r \in Refreshers : pc[r] \in {"asking", "publishing"} => lock = r

Empty == [p \in Printers |-> Absent]

Init ==
  /\ actual \in Views
  /\ cache = Empty /\ refreshed = FALSE /\ recent = FALSE
  /\ lock = Nobody /\ pc = [r \in Refreshers |-> "idle"]
  /\ asked = {} /\ failed = {} /\ found = Empty
  /\ events = [r \in Refreshers |-> {}]
  /\ listed = FALSE /\ mirror = Empty
  /\ changes = 0 /\ failures = 0

-----------------------------------------------------------------------------
\* The loop's sleep is over (or start), or a request finds its printer unknown
\* and the cache stale.
Begin(r) ==
  /\ pc[r] = "idle"
  /\ r = Loop \/ ~recent
  /\ pc' = [pc EXCEPT ![r] = "waiting"]
  /\ UNCHANGED <<lock, asked, failed, found, events, cacheVars, listenVars, envVars>>

TakeLock(r) ==
  /\ pc[r] = "waiting" /\ lock = Nobody
  /\ lock' = r
  /\ pc' = [pc EXCEPT ![r] = "asking"]
  /\ asked' = {} /\ failed' = {} /\ found' = Empty
  /\ UNCHANGED <<events, cacheVars, listenVars, envVars>>

Answers(r, v) ==
  /\ pc[r] = "asking" /\ v \notin asked
  /\ asked' = asked \cup {v}
  /\ found' = [p \in Printers |-> IF Owner[p] = v THEN actual[p] ELSE found[p]]
  /\ UNCHANGED <<lock, pc, failed, events, cacheVars, listenVars, envVars>>

Fails(r, v) ==
  /\ pc[r] = "asking" /\ v \notin asked
  /\ failures < MaxFailures
  /\ failures' = failures + 1
  /\ asked' = asked \cup {v}
  /\ failed' = failed \cup {v}
  /\ UNCHANGED <<lock, pc, found, events, cacheVars, listenVars, actual, changes>>

\* Mutant: the printers of a provider that failed are dropped.
FoundOnly == found

\* Mutant: a printer that was not found stays in the cache.
FoundAndKnown == [p \in Printers |-> IF found[p] = Absent THEN cache[p] ELSE found[p]]

\* The next cache: a provider that failed keeps its printers.
NextCache == [p \in Printers |-> IF Owner[p] \in failed THEN cache[p] ELSE found[p]]

\* Mutant: nothing is said of printers that are gone.
DifferencesHere ==
  {<<p, NextCache[p]>> : p \in {q \in Printers : NextCache[q] \notin {cache[q], Absent}}}

\* Connected, StatusChanged and Disconnected; the first refresh has no events.
Differences ==
  {<<p, NextCache[p]>> : p \in {q \in Printers : refreshed /\ cache[q] # NextCache[q]}}

\* The cache is written.
Commit(r) ==
  /\ pc[r] = "asking" /\ asked = Providers
  /\ cache' = NextCache
  /\ events' = [events EXCEPT ![r] = Differences]
  /\ refreshed' = TRUE /\ recent' = TRUE
  /\ pc' = [pc EXCEPT ![r] = "publishing"]
  /\ UNCHANGED <<lock, asked, failed, found, listenVars, envVars>>

\* An event is published, and the listener applies it.
Publish(r) ==
  /\ pc[r] = "publishing"
  /\ \E e \in events[r] :
       /\ events' = [events EXCEPT ![r] = @ \ {e}]
       /\ mirror' = IF listed THEN [mirror EXCEPT ![e[1]] = e[2]] ELSE mirror
  /\ UNCHANGED <<lock, pc, asked, failed, found, cacheVars, listed, envVars>>

Finish(r) ==
  /\ pc[r] = "publishing" /\ events[r] = {}
  /\ pc' = [pc EXCEPT ![r] = "idle"]
  /\ lock' = Nobody
  /\ UNCHANGED <<asked, failed, found, events, cacheVars, listenVars, envVars>>

\* printers(): the cache, once there has been a refresh
ListPrinters ==
  /\ refreshed /\ ~listed
  /\ listed' = TRUE
  /\ mirror' = cache
  /\ UNCHANGED <<refreshVars, cacheVars, envVars>>

GapPasses ==
  /\ recent /\ recent' = FALSE
  /\ UNCHANGED <<refreshVars, cache, refreshed, listenVars, envVars>>

PrinterChanges(p) ==
  /\ changes < MaxChanges
  /\ changes' = changes + 1
  /\ \E s \in Statuses \cup {Absent} : s # actual[p] /\ actual' = [actual EXCEPT ![p] = s]
  /\ UNCHANGED <<refreshVars, cacheVars, listenVars, failures>>

-----------------------------------------------------------------------------
Next ==
  \/ \E r \in Refreshers :
       \/ Begin(r) \/ TakeLock(r) \/ Commit(r) \/ Publish(r) \/ Finish(r)
       \/ \E v \in Providers : Answers(r, v) \/ Fails(r, v)
  \/ ListPrinters \/ GapPasses
  \/ \E p \in Printers : PrinterChanges(p)

Spec == Init /\ [][Next]_vars

\* The loop's timer fires, the lock is fair, providers answer or fail, and the
\* listener lists the printers some time.
Fairness ==
  /\ WF_vars(Begin(Loop)) /\ WF_vars(ListPrinters)
  /\ \A r \in Refreshers :
       /\ SF_vars(TakeLock(r)) /\ WF_vars(Commit(r))
       /\ WF_vars(Publish(r)) /\ WF_vars(Finish(r))
       /\ \A v \in Providers : WF_vars(Answers(r, v) \/ Fails(r, v))

FairSpec == Spec /\ Fairness

-----------------------------------------------------------------------------
(* Properties.                                                             *)

\* A listener that follows the events has the agent's list whenever no event is
\* on its way, wherever it called printers.list between two steps of a refresh.
MirrorMatches ==
  listed /\ (\A r \in Refreshers : events[r] = {}) => mirror = cache

\* "Keep the previous snapshot for this provider rather than reporting every
\* printer as disconnected because of one transient failure": a printer leaves
\* the cache only in a refresh in which its provider answered without it.
FailureKeepsPrinters ==
  [][\A p \in Printers :
       cache[p] # Absent /\ cache'[p] = Absent =>
         Owner[p] \notin failed /\ found[p] = Absent]_vars

\* Once printers stop changing and providers stop failing, the listener's list is
\* right for good.
EventuallyRight == <>[](mirror = actual)

\* A request refreshes "unless another refresh happened within
\* discovery_min_gap".
RefreshesAreSpaced == \A c \in Callers : pc[c] = "asking" => ~recent
=============================================================================
