SPECIFICATION Spec
CONSTANTS
  Keys = {k1, k2}
  Hooks <- EditedHooks
  Callers = {c1, c2}
  Ops = {"start", "stop", "edit"}
  Changes = {"insert"}
  Faults = {"source", "store", "request", "crash"}
  CooldownPolls = 1
  MaxClock = 2
  MaxCalls = 2
  MaxFaults = 1
  NullsFirst = TRUE
SYMMETRY BothSymmetry
INVARIANTS TypeOK PassedWasSent
CHECK_DEADLOCK FALSE
