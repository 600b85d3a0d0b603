SPECIFICATION FairSpec
CONSTANTS
  Engines = {"postgres", "mysql", "mongodb", "redis"}
  Rows <- OneByOne
  Lsn <- InOrderLsn2
  SharedLsn = FALSE
  Callers = {c1}
  Ops = {"start", "stop", "remove"}
  Faults = {"open", "pipeline", "ledger", "network", "history", "crash"}
  MaxStarts = 1
  MaxCalls = 2
  MaxFaults = 2
  MaxStreams = 3
INVARIANTS RestIsClean
PROPERTIES ChangesArrive
CHECK_DEADLOCK FALSE
