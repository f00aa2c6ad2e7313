-------------------------------- MODULE MCApi --------------------------------
(* Instances of the agent's API and storage for TLC.  The four parts share  *)
(* no state here, so a behaviour is one of a single part.                   *)
EXTENDS RateLimiter, AgentStart, JobStore, ApiService, TLC

CONSTANTS r1, r2, r3, k1, k2, c1, c2, key1, proc1, proc2, t1, t2, j1, j2, Latin1High

VARIABLE active

MCKeyOf == [r \in Records |-> IF r = r3 THEN NoKey ELSE key1]

MCEntries == <<"admin", "shop", "desk">>
MCOrigins == [admin |-> {}, shop |-> {"https://shop"}, desk |-> {"https://desk"}]
MCPrinters == {"p1", "p2"}
MCNameOf == [p1 |-> "Zebra", p2 |-> "Laser"]
AlikeNames == [p1 |-> "Zebra", p2 |-> "ZEBRA"]
MCFold == [Zebra |-> "zebra", ZEBRA |-> "zebra", Laser |-> "laser", laser |-> "laser", Ghost |-> "ghost"]
MCScopes == [admin |-> MCPrinters, shop |-> {"p1"}, desk |-> MCPrinters]
MCGrants ==
  {[admin |-> Permission, shop |-> p,
    desk |-> {"printers.read", "print", "jobs.read", "jobs.cancel", "queue.read"}] :
     p \in {{"print", "jobs.read", "queue.read"}, {"jobs.read", "jobs.cancel.all", "printers.read"},
            {"print", "jobs.read.all", "queue.read"}, {"jobs.read.all", "jobs.cancel.all"}}}

Inline(e, l, h, n) ==
  [from |-> "inline", encoding |-> e, low |-> l, high |-> h, size |-> n, valid |-> TRUE]
MCDocuments ==
  {Inline("utf8", 9, 0, 0)}
  \cup [from : {"path"}, absolute : {TRUE}, exists : {TRUE}, inside : BOOLEAN, isFile : {TRUE}, size : {5}]
  \cup [from : {"url"}, prefix : BOOLEAN, status : {200}, size : {5, 7}]
MCTexts ==
  {Inline("base64", 4 * ((n + 2) \div 3), 0, n) : n \in 0..12}
  \cup {Inline("hex", 2 * n, 0, 0) : n \in 0..12}
  \cup {Inline("utf8", l, h, 0) : l \in 0..6, h \in 0..3}
  \cup {Inline("latin1", l, h, 0) : l \in 0..10, h \in IF Latin1High THEN 0..10 ELSE {0}}

Symmetry ==
  Permutations({r1, r2}) \cup Permutations({c1, c2}) \cup Permutations({k1, k2})
  \cup Permutations({t1, t2}) \cup Permutations({j1, j2})

Parts == {"limiter", "start", "store", "service"}

ApiAtRest == known = NoJobYet /\ audit = FALSE /\ latest = NoSubmission
             /\ perms = [c \in Principals |-> {}]

MCInit ==
  /\ active \in Parts
  /\ IF active = "limiter" THEN LimiterInit ELSE LimiterInit /\ \A t \in Threads : call[t].key = CHOOSE k \in Keys : TRUE
  /\ IF active = "start" THEN StartInit ELSE StartInit /\ schema.version = 0
  /\ StoreInit
  /\ IF active = "service" THEN ApiInit ELSE ApiAtRest

MCNext ==
  /\ UNCHANGED active
  /\ \/ active = "limiter" /\ LimiterNext /\ UNCHANGED <<startVars, storeVars, apiVars>>
     \/ active = "start" /\ StartNext /\ UNCHANGED <<limiterVars, storeVars, apiVars>>
     \/ active = "store" /\ StoreNext /\ UNCHANGED <<limiterVars, startVars, apiVars>>
     \/ active = "service" /\ ApiNext /\ UNCHANGED <<limiterVars, startVars, storeVars>>

MCSpec == MCInit /\ [][MCNext]_<<active, limiterVars, startVars, storeVars, apiVars>>
=============================================================================
