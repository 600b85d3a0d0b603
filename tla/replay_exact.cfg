SPECIFICATION Spec
CONSTANTS
  NumRows = 3
  Configs <- OneBatch
  Callers = {c1, c2}
  Ops = {"start", "resume", "retry", "cancel", "skip", "stop"}
  Faults = {"open", "stream", "enqueue"}
  MaxCalls = 3
  MaxCrashes = 1
SYMMETRY CallerSymmetry
INVARIANTS NoRedelivery CountersExact CanceledIsAsked
PROPERTIES SuccessIsFinal KeepsContract
CHECK_DEADLOCK FALSE
