SPECIFICATION Spec
CONSTANTS
  Engines = {"postgres", "mysql", "mongodb", "redis"}
  Rows <- TwoRowsThenOne
  Lsn <- InOrderLsn
  SharedLsn = FALSE
  Callers = {c1, c2}
  Ops = {"start", "stop", "edit", "remove"}
  Faults = {"open", "pipeline", "network", "history", "slot", "crash"}
  MaxStarts = 1
  MaxCalls = 2
  MaxFaults = 1
  MaxStreams = 3
INVARIANTS NothingSkipped RepeatsBounded
PROPERTIES LedgerFollowsLog
CHECK_DEADLOCK FALSE
