SPECIFICATION FairSpec
CONSTANTS
  Keys = {k1, k2}
  Hooks <- LiveHooks
  Callers = {c1}
  Ops = {"start"}
  Changes = {"insert"}
  Faults = {"source", "store", "crash"}
  CooldownPolls = 2
  MaxClock = 2
  MaxCalls = 2
  MaxFaults = 2
  NullsFirst = TRUE
INVARIANTS ListeningIsScheduled
PROPERTIES RowsArrive
CHECK_DEADLOCK FALSE
