SPECIFICATION Spec
CONSTANTS
  NumRows = 3
  Configs <- OneBatch
  Callers = {c1, c2}
  Ops = {"start", "resume", "retry", "cancel", "skip", "resend", "stop"}
  Faults = {"open", "stream", "enqueue", "shutdown"}
  MaxCalls = 3
  MaxCrashes = 1
SYMMETRY CallerSymmetry
INVARIANTS TypeOK CursorCovered CompletedCovered
CHECK_DEADLOCK FALSE
