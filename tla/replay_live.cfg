SPECIFICATION FairSpec
CONSTANTS
  NumRows = 3
  Configs <- OneBatch
  Callers = {c1}
  Ops = {"start", "skip", "stop", "resend"}
  Faults = {"stream"}
  MaxCalls = 4
  MaxCrashes = 1
INVARIANTS ActiveHasJob
PROPERTIES ActiveSettles
CHECK_DEADLOCK FALSE
