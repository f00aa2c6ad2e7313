\* A spooler printer and a direct one, a crash at any point, a restart, a
\* purge, and REST clients that hang up.
CONSTANTS
  j1 = j1  j2 = j2  p1 = p1  p2 = p2  c1 = c1  c2 = c2  k1 = k1
  NoKey = NoKey
  Jobs = {j1, j2}
  Printers = {p1, p2}
  Callers = {c1}
  PrinterOf <- TwoPrinters
  KeyOf <- Unkeyed
  Size <- UnitSize
  SpoolPrinters = {p1}
  QueueCapacity = 1
  MaxQueuedBytes = 1
  Permits = 2
  MaxCrashes = 1
  MaxFaults = 0
  GracefulStop = FALSE
  Retention = TRUE
  Disconnects = TRUE
  DiscoveryFails = FALSE
SPECIFICATION Spec
INVARIANTS AtMostOnce
PROPERTIES TerminalIsFinal ImplementsContract
CHECK_DEADLOCK FALSE
