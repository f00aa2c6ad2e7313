SPECIFICATION ProvidersSpec
CONSTANTS
  k1 = k1
  o1 = o1
  Jobs = {k1, o1}
  Kiln = {k1}
  MaxId = 2
  Unavailable = TRUE
  ReusesIds = FALSE
  MaxTracked = 1
  MaxSpoolerRestarts = 1
  MaxAgentRestarts = 1
  Copies = 2
  Blocks = 1
  StatusTtl = 1
  MaxJobs = 2
  MaxChanges = 2
  Documents <- MCDocuments
  Devices <- MCDevices
  Chunk = 2
INVARIANT WatchIsTrue
INVARIANT TcpIsTrue
INVARIANT PrintsAsAskedOrNot
INVARIANT PaperIsTheDocument
PROPERTY ShownBecomesRight
CHECK_DEADLOCK FALSE
