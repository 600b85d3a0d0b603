SPECIFICATION MCFairSpec
CONSTANTS
  Kinds = {"replay", "watch", "cdc"}
  Ops = {"start", "resume", "retry", "cancel", "listen", "stop", "edit", "remove", "workspace"}
  Callers = {c1}
  MaxStarts = 1
  SwitchActive = FALSE
  MaxCalls = 4
  MaxRuns = 3
  MaxBatches = 1
  MaxCrashes = 1
  Dbs = {d1}
  Requests = {r1, r2}
  MaxAdapters = 3
  MaxEdits = 1
  Default = dw
  Others = {w1}
  Conns = {k1, k2}
  Hooks = {h1}
  Clients = {u1, u2}
  Texts = {p1}
  MaxBoots = 2
  Browsers = {b1, b2}
  Names = {"ann", "bob"}
  Passwords = {"p", "q"}
  Settings = {"ttl", "cap"}
  Values = {1, 2}
  DefaultOf <- MCDefaultOf
  MaxVersion = 2
  MaxTime = 2
  MaxPatches = 2
INVARIANTS PoolSafe AccountsSafe
PROPERTIES HookRunsPromise RemovedIsClosed CatalogPromise
CHECK_DEADLOCK FALSE
