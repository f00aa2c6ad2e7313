--------------------------- MODULE DiscoveryProofs ---------------------------
(***************************************************************************)
(* For any providers, printers, refreshers and bounds: a listener follows  *)
(* the agent's list of printers, and a provider that fails loses none.     *)
(*                                                                         *)
(* MirrorMatches is not inductive: it says nothing while events are on     *)
(* their way.  Follows says of every printer that the listener is right    *)
(* about it or the event that corrects it is still to come; it needs that  *)
(* all such events belong to the holder of the lock and carry what the     *)
(* cache holds.                                                            *)
(***************************************************************************)
EXTENDS Discovery, TLAPS

\* Events on their way are those of a refresher that is publishing.
PublisherOnly == \A r \in Refreshers : events[r] # {} => pc[r] = "publishing"

\* An event that is on its way shows the printer as it is in the cache.
EventsCurrent == \A r \in Refreshers : \A e \in events[r] : e[2] = cache[e[1]]

Follows ==
  /\ listed => refreshed
  /\ listed => \A p \in Printers :
       mirror[p] = cache[p] \/ \E r \in Refreshers : <<p, cache[p]>> \in events[r]

IInv == TypeOK /\ PublisherOnly /\ EventsCurrent /\ Follows

\* What a refresh writes and publishes is well typed.
LEMMA RefreshTypes ==
  ASSUME TypeOK
  PROVE  /\ NextCache \in Views
         /\ Differences \in SUBSET (Printers \X (Statuses \cup {Absent}))
<1>1. NextCache \in Views
  BY DEF TypeOK, NextCache, Views
<1>2. QED
  BY <1>1 DEF Differences, Views

\* Every step keeps the state well typed.
LEMMA TypeStep == ASSUME TypeOK, [Next]_vars PROVE TypeOK'
<1> USE DiscoveryAssumption
<1>1. ASSUME NEW r \in Refreshers, Begin(r) PROVE TypeOK'
  BY <1>1 DEF TypeOK, Begin, Steps, cacheVars, listenVars, envVars
<1>2. ASSUME NEW r \in Refreshers, TakeLock(r) PROVE TypeOK'
  <2>1. Empty \in Views
    BY DEF Empty, Views
  <2>2. \A q \in Refreshers : pc'[q] \in {"asking", "publishing"} => lock' = q
    BY <1>2 DEF TypeOK, TakeLock, Refreshers
  <2>3. QED
    BY <1>2, <2>1, <2>2 DEF TypeOK, TakeLock, Steps, cacheVars, listenVars, envVars
<1>3. ASSUME NEW r \in Refreshers, NEW v \in Providers, Answers(r, v) PROVE TypeOK'
  <2>1. found' \in Views
    BY <1>3 DEF TypeOK, Answers, Views
  <2>2. QED
    BY <1>3, <2>1 DEF TypeOK, Answers, cacheVars, listenVars, envVars
<1>4. ASSUME NEW r \in Refreshers, NEW v \in Providers, Fails(r, v) PROVE TypeOK'
  BY <1>4 DEF TypeOK, Fails, cacheVars, listenVars
<1>5. ASSUME NEW r \in Refreshers, Commit(r) PROVE TypeOK'
  BY <1>5, RefreshTypes DEF TypeOK, Commit, Steps, listenVars, envVars
<1>6. ASSUME NEW r \in Refreshers, Publish(r) PROVE TypeOK'
  <2>1. PICK e \in events[r] :
          /\ events' = [events EXCEPT ![r] = @ \ {e}]
          /\ mirror' = IF listed THEN [mirror EXCEPT ![e[1]] = e[2]] ELSE mirror
    BY <1>6 DEF Publish
  <2>2. e[1] \in Printers /\ e[2] \in Statuses \cup {Absent}
    BY <2>1 DEF TypeOK
  <2>3. mirror' \in Views
    BY <2>1, <2>2 DEF TypeOK, Views
  <2>4. events' \in [Refreshers -> SUBSET (Printers \X (Statuses \cup {Absent}))]
    BY <2>1 DEF TypeOK
  <2>5. QED
    BY <1>6, <2>3, <2>4 DEF TypeOK, Publish, cacheVars, envVars
<1>7. ASSUME NEW r \in Refreshers, Finish(r) PROVE TypeOK'
  BY <1>7 DEF TypeOK, Finish, Steps, cacheVars, listenVars, envVars
<1>8. CASE ListPrinters
  BY <1>8 DEF TypeOK, ListPrinters, refreshVars, cacheVars, envVars
<1>9. CASE GapPasses
  BY <1>9 DEF TypeOK, GapPasses, refreshVars, listenVars, envVars
<1>10. ASSUME NEW p \in Printers, PrinterChanges(p) PROVE TypeOK'
  <2>1. actual' \in Views
    BY <1>10 DEF TypeOK, PrinterChanges, Views
  <2>2. QED
    BY <1>10, <2>1 DEF TypeOK, PrinterChanges, refreshVars, cacheVars, listenVars
<1>11. CASE UNCHANGED vars
  BY <1>11 DEF TypeOK, vars, refreshVars, cacheVars, listenVars, envVars
<1>12. QED
  BY <1>1, <1>2, <1>3, <1>4, <1>5, <1>6, <1>7, <1>8, <1>9, <1>10, <1>11 DEF Next

\* While a refresher holds the lock and asks, no event is on its way.
LEMMA AskingIsQuiet ==
  ASSUME IInv, NEW r \in Refreshers, pc[r] = "asking"
  PROVE  \A q \in Refreshers : events[q] = {}
<1>1. lock = r
  BY DEF IInv, TypeOK
<1>2. \A q \in Refreshers : pc[q] # "publishing"
  BY <1>1 DEF IInv, TypeOK
<1>3. QED
  BY <1>2 DEF IInv, PublisherOnly

\* The refresh that writes the cache has an event for every change.
LEMMA CommitFollows ==
  ASSUME IInv, NEW r \in Refreshers, Commit(r)
  PROVE  PublisherOnly' /\ EventsCurrent' /\ Follows'
<1>1. /\ \A q \in Refreshers : events[q] = {}
      /\ pc[r] = "asking"
  BY AskingIsQuiet DEF Commit
<1>2. /\ cache' = NextCache
      /\ events' = [events EXCEPT ![r] = Differences]
      /\ pc' = [pc EXCEPT ![r] = "publishing"]
      /\ refreshed' = TRUE
      /\ UNCHANGED <<listed, mirror>>
  BY DEF Commit, listenVars
<1>3. events \in [Refreshers -> SUBSET (Printers \X (Statuses \cup {Absent}))]
      /\ pc \in [Refreshers -> Steps]
  BY DEF IInv, TypeOK
<1>4. events'[r] = Differences /\ \A q \in Refreshers \ {r} : events'[q] = {}
  BY <1>1, <1>2, <1>3
<1>5. PublisherOnly'
  BY <1>2, <1>3, <1>4 DEF PublisherOnly
<1>6. EventsCurrent'
  <2>1. \A e \in Differences : e[2] = NextCache[e[1]]
    BY DEF Differences
  <2>2. QED
    BY <1>2, <1>4, <2>1 DEF EventsCurrent
<1>7. Follows'
  <2>1. listed' => refreshed'
    BY <1>2
  <2>2. SUFFICES ASSUME listed, NEW p \in Printers, mirror[p] # NextCache[p]
                 PROVE  <<p, NextCache[p]>> \in events'[r]
    BY <1>2, <2>1 DEF Follows
  <2>3. mirror[p] = cache[p] /\ refreshed
    BY <1>1, <2>2 DEF IInv, Follows
  <2>4. QED
    BY <1>4, <2>2, <2>3 DEF Differences
<1>8. QED
  BY <1>5, <1>6, <1>7

\* An event that is published corrects the listener.
LEMMA PublishFollows ==
  ASSUME IInv, NEW r \in Refreshers, Publish(r)
  PROVE  PublisherOnly' /\ EventsCurrent' /\ Follows'
<1>1. PICK e \in events[r] :
        /\ events' = [events EXCEPT ![r] = @ \ {e}]
        /\ mirror' = IF listed THEN [mirror EXCEPT ![e[1]] = e[2]] ELSE mirror
  BY DEF Publish
<1>2. UNCHANGED <<pc, cache, refreshed, listed>> /\ pc[r] = "publishing"
  BY DEF Publish, cacheVars
<1>3. /\ events \in [Refreshers -> SUBSET (Printers \X (Statuses \cup {Absent}))]
      /\ mirror \in Views
  BY DEF IInv, TypeOK
<1>4. /\ e \in Printers \X (Statuses \cup {Absent})
      /\ e[2] = cache[e[1]]
  BY <1>1, <1>3 DEF IInv, EventsCurrent
<1>5. \A q \in Refreshers : events'[q] \subseteq events[q]
  BY <1>1, <1>3
<1>6. PublisherOnly'
  BY <1>2, <1>5 DEF IInv, PublisherOnly
<1>7. EventsCurrent'
  BY <1>2, <1>5 DEF IInv, EventsCurrent
<1>8. Follows'
  <2>1. SUFFICES ASSUME listed, NEW p \in Printers, mirror'[p] # cache[p]
                 PROVE  \E q \in Refreshers : <<p, cache[p]>> \in events'[q]
    BY <1>2 DEF IInv, Follows
  <2>2. p # e[1]
    BY <1>1, <1>3, <1>4, <2>1 DEF Views
  <2>3. mirror[p] # cache[p]
    BY <1>1, <1>3, <1>4, <2>1, <2>2 DEF Views
  <2>4. PICK q \in Refreshers : <<p, cache[p]>> \in events[q]
    BY <2>1, <2>3 DEF IInv, Follows
  <2>5. <<p, cache[p]>> # e
    BY <2>2
  <2>6. <<p, cache[p]>> \in events'[q]
    BY <1>1, <1>3, <2>4, <2>5
  <2>7. QED
    BY <2>6
<1>9. QED
  BY <1>6, <1>7, <1>8

\* IInv is inductive.
LEMMA InductiveStep == ASSUME IInv, [Next]_vars PROVE IInv'
<1>1. TypeOK'
  BY TypeStep DEF IInv
<1>2. ASSUME UNCHANGED <<cache, refreshed, listed, mirror, events>>,
             \A r \in Refreshers : pc[r] = "publishing" /\ events[r] # {} => pc'[r] = "publishing"
      PROVE  PublisherOnly' /\ EventsCurrent' /\ Follows'
  BY <1>2 DEF IInv, PublisherOnly, EventsCurrent, Follows
<1>3. pc \in [Refreshers -> Steps]
  BY DEF IInv, TypeOK
<1>4. ASSUME NEW r \in Refreshers, Begin(r) \/ TakeLock(r) \/ Finish(r)
      PROVE  PublisherOnly' /\ EventsCurrent' /\ Follows'
  BY <1>2, <1>3, <1>4 DEF Begin, TakeLock, Finish, cacheVars, listenVars
<1>5. ASSUME NEW r \in Refreshers, NEW v \in Providers, Answers(r, v) \/ Fails(r, v)
      PROVE  PublisherOnly' /\ EventsCurrent' /\ Follows'
  BY <1>2, <1>5 DEF Answers, Fails, cacheVars, listenVars
<1>6. ASSUME ListPrinters PROVE PublisherOnly' /\ EventsCurrent' /\ Follows'
  BY <1>6 DEF ListPrinters, refreshVars, cacheVars, IInv, PublisherOnly, EventsCurrent, Follows
<1>7. ASSUME GapPasses PROVE PublisherOnly' /\ EventsCurrent' /\ Follows'
  BY <1>2, <1>7 DEF GapPasses, refreshVars, listenVars
<1>8. ASSUME NEW p \in Printers, PrinterChanges(p)
      PROVE  PublisherOnly' /\ EventsCurrent' /\ Follows'
  BY <1>2, <1>8 DEF PrinterChanges, refreshVars, cacheVars, listenVars
<1>9. ASSUME UNCHANGED vars PROVE PublisherOnly' /\ EventsCurrent' /\ Follows'
  BY <1>2, <1>9 DEF vars, refreshVars, cacheVars, listenVars
<1>10. PublisherOnly' /\ EventsCurrent' /\ Follows'
  BY CommitFollows, PublishFollows, <1>4, <1>5, <1>6, <1>7, <1>8, <1>9 DEF Next
<1>11. QED
  BY <1>1, <1>10 DEF IInv

\* The inductive invariant holds of every behaviour.
LEMMA Invariant == Spec => []IInv
<1>1. Init => IInv
  <2>1. Empty \in Views
    BY DEF Empty, Views
  <2>2. Init => TypeOK
    <3>1. SUFFICES ASSUME Init PROVE TypeOK
      OBVIOUS
    <3>2. events \in [Refreshers -> SUBSET (Printers \X (Statuses \cup {Absent}))]
      BY <3>1 DEF Init
    <3>3. /\ pc \in [Refreshers -> Steps]
          /\ \A r \in Refreshers : pc[r] = "idle"
      BY <3>1 DEF Init, Steps
    <3>4. changes \in 0..MaxChanges /\ failures \in 0..MaxFailures
      BY <3>1, DiscoveryAssumption DEF Init
    <3>5. QED
      BY <2>1, <3>1, <3>2, <3>3, <3>4 DEF Init, TypeOK
  <2>3. Init => PublisherOnly /\ EventsCurrent /\ Follows
    BY DEF Init, PublisherOnly, EventsCurrent, Follows
  <2>4. QED
    BY <2>2, <2>3 DEF IInv
<1>2. IInv /\ [Next]_vars => IInv'
  BY InductiveStep
<1>3. QED
  BY <1>1, <1>2, PTL DEF Spec

\* A listener that follows the printer events has the agent's list whenever no
\* event is on its way.
THEOREM ListenerFollows == Spec => []MirrorMatches
<1>1. IInv => MirrorMatches
  <2>1. SUFFICES ASSUME IInv, listed, \A r \in Refreshers : events[r] = {}
                 PROVE  mirror = cache
    BY DEF MirrorMatches
  <2>2. ASSUME NEW p \in Printers PROVE mirror[p] = cache[p]
    <3>1. mirror[p] = cache[p] \/ \E r \in Refreshers : <<p, cache[p]>> \in events[r]
      BY <2>1 DEF IInv, Follows
    <3>2. QED
      BY <2>1, <3>1
  <2>3. mirror \in Views /\ cache \in Views
    BY <2>1 DEF IInv, TypeOK
  <2>4. QED
    BY <2>2, <2>3 DEF Views
<1>2. QED
  BY <1>1, Invariant, PTL

\* A printer leaves the cache only when its provider answered without it: one
\* that failed keeps its printers.
THEOREM FailuresLoseNothing == Spec => FailureKeepsPrinters
<1>1. ASSUME IInv, [Next]_vars, NEW p \in Printers, cache[p] # Absent, cache'[p] = Absent
      PROVE  Owner[p] \notin failed /\ found[p] = Absent
  <2>1. cache' # cache
    BY <1>1
  <2>2. PICK r \in Refreshers : Commit(r)
    BY <1>1, <2>1 DEF Next, vars, Begin, TakeLock, Answers, Fails, Publish, Finish,
       ListPrinters, GapPasses, PrinterChanges, cacheVars
  <2>3. cache'[p] = IF Owner[p] \in failed THEN cache[p] ELSE found[p]
    BY <2>2 DEF Commit, NextCache
  <2>4. QED
    BY <1>1, <2>3
<1>2. IInv /\ [Next]_vars =>
        [\A p \in Printers :
           cache[p] # Absent /\ cache'[p] = Absent =>
             Owner[p] \notin failed /\ found[p] = Absent]_vars
  BY <1>1
<1>3. QED
  BY <1>2, Invariant, PTL DEF Spec, FailureKeepsPrinters
=============================================================================
