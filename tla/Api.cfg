SPECIFICATION MCSpec
CONSTANTS
  k1 = k1
  k2 = k2
  Keys = {k1, k2}
  Threads = {t1, t2}
  t1 = t1
  t2 = t2
  Burst = 2
  Cost = 1
  Idle = 2
  MaxBuckets = 1
  MaxTime = 2
  Procs = {proc1, proc2}
  proc1 = proc1
  proc2 = proc2
  Jobs = {r3}
  Migrations = 1
  Twice = FALSE
  KilledWriting = FALSE
  MaxStarts = 3
  r1 = r1
  r2 = r2
  r3 = r3
  c1 = c1
  c2 = c2
  key1 = key1
  NoKey = NoKey
  NoDestination = NoDestination
  Whichever = Whichever
  Records = {r1, r2, r3}
  Owners = {c1, c2}
  Destinations = {key1}
  KeyOf <- MCKeyOf
  Statuses = {"COMPLETED"}
  DefaultLimit = 2
  MaxLimit = 2
  MaxClock = 1
  WalkPurged = FALSE
  Entries <- MCEntries
  Admin = "admin"
  Tokens = {"admin", "shop", "desk", "stranger"}
  Origins <- MCOrigins
  Remote = FALSE
  Printers <- MCPrinters
  NameOf <- MCNameOf
  Fold <- MCFold
  DefaultPrinter = "p2"
  Scopes <- MCScopes
  Grants <- MCGrants
  j1 = j1
  j2 = j2
  JobIds = {j1, j2}
  MaxDocument = 5
  Documents <- MCDocuments
  Texts <- MCTexts
  Latin1High = FALSE
SYMMETRY Symmetry
INVARIANT RateBound
INVARIANT BurstIsHonoured
INVARIANT RestartIsSafe
INVARIANT StoreIsFaithful
INVARIANT ClientsSeeTheirOwn
INVARIANT PrintsAsAdmitted
CHECK_DEADLOCK FALSE
