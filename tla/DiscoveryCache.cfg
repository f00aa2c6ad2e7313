SPECIFICATION FairSpec
CONSTANTS
  a = a
  b = b
  pa = pa
  pb = pb
  ready = ready
  offline = offline
  Loop = Loop
  Nobody = Nobody
  Absent = Absent
  c1 = c1
  Providers = {a, b}
  Printers = {pa, pb}
  Owner <- OwnerAB
  Statuses = {ready, offline}
  Callers = {c1}
  MaxChanges = 2
  MaxFailures = 1
INVARIANT MirrorMatches
PROPERTY FailureKeepsPrinters
PROPERTY EventuallyRight
