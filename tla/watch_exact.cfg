SPECIFICATION Spec
CONSTANTS
  Keys = {k1, k2, k3, k4}
  Hooks <- AllHooks
  Callers = {c1}
  Ops = {"start", "stop"}
  Changes = {"insert", "tie"}
  Faults = {"source"}
  CooldownPolls = 1
  MaxClock = 2
  MaxCalls = 3
  MaxFaults = 1
  NullsFirst = TRUE
SYMMETRY KeySymmetry
INVARIANTS PassedWasSent SentOnce NowIgnoresRows
PROPERTIES NumberingHolds FastWhileFlowing
CHECK_DEADLOCK FALSE
