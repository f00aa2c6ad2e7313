\* Two printers share one provider permit; a crash in between.
CONSTANTS
  j1 = j1  j2 = j2  p1 = p1  p2 = p2  c1 = c1  c2 = c2  k1 = k1
  NoKey = NoKey
  Jobs = {j1, j2}
  Printers = {p1, p2}
  Callers = {}
  PrinterOf <- TwoPrinters
  KeyOf <- Unkeyed
  Size <- UnitSize
  SpoolPrinters = {p1}
  QueueCapacity = 1
  MaxQueuedBytes = 2
  Permits = 1
  MaxCrashes = 1
  MaxFaults = 0
  GracefulStop = FALSE
  Retention = FALSE
  Disconnects = FALSE
  DiscoveryFails = FALSE
SPECIFICATION FairSpec
PROPERTIES LeavesTheAgent SpoolerOutcomeIsReported
CHECK_DEADLOCK FALSE
