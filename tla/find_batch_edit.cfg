SPECIFICATION Spec
CONSTANTS
  NumRows = 3
  Configs <- TwoBatches
  Callers = {c1}
  Ops = {"start", "resume"}
  Faults = {"stream"}
  MaxCalls = 2
  MaxCrashes = 0
INVARIANTS CompletedCovered
CHECK_DEADLOCK FALSE
