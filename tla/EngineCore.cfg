\* Two jobs compete for one spooler printer's queue and for the byte budget
\* while a client cancels.
CONSTANTS
  j1 = j1  j2 = j2  p1 = p1  p2 = p2  c1 = c1  c2 = c2  k1 = k1
  NoKey = NoKey
  Jobs = {j1, j2}
  Printers = {p1}
  Callers = {c1}
  PrinterOf <- OnePrinter
  KeyOf <- Unkeyed
  Size <- MixedSize
  SpoolPrinters = {p1}
  QueueCapacity = 1
  MaxQueuedBytes = 3
  Permits = 2
  MaxCrashes = 0
  MaxFaults = 1
  GracefulStop = FALSE
  Retention = FALSE
  Disconnects = FALSE
  DiscoveryFails = FALSE
SPECIFICATION Spec
INVARIANTS BudgetIsExact NoOrphan DeletionIsNotCompletion OneWriterPerPrinter ReportsAreTrue
CHECK_DEADLOCK FALSE
