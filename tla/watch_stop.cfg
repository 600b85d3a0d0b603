SPECIFICATION FairSpec
CONSTANTS
  Keys = {k1}
  Hooks <- OnOffHooks
  Callers = {c1, c2}
  Ops = {"start", "stop", "edit"}
  Changes = {"insert", "tie", "late", "null", "update"}
  Faults = {}
  CooldownPolls = 1
  MaxClock = 1
  MaxCalls = 2
  MaxFaults = 0
  NullsFirst = TRUE
PROPERTIES StoppedRetires
CHECK_DEADLOCK FALSE
