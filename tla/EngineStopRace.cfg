\* Finding: shutdown against a worker that has just taken a job.
CONSTANTS
  j1 = j1  j2 = j2  p1 = p1  p2 = p2  c1 = c1  c2 = c2  k1 = k1
  NoKey = NoKey
  Jobs = {j1, j2}
  Printers = {p1}
  Callers = {}
  PrinterOf <- OnePrinter
  KeyOf <- Unkeyed
  Size <- UnitSize
  SpoolPrinters = {p1}
  QueueCapacity = 1
  MaxQueuedBytes = 2
  Permits = 2
  MaxCrashes = 0
  MaxFaults = 0
  GracefulStop = TRUE
  Retention = FALSE
  Disconnects = FALSE
  DiscoveryFails = FALSE
SPECIFICATION Spec
INVARIANT NothingSentIsTrue
CHECK_DEADLOCK FALSE
