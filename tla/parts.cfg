SPECIFICATION MCSpec
CONSTANTS
  srv = srv
  doc = doc
  file = file
  log = log
  e1 = e1
  e2 = e2
  k1 = k1
  k2 = k2
  k3 = k3
  k4 = k4
  Entries = {e1, e2}
  Tables = {srv, doc, file, log}
  Keys = {k1, k2, k3, k4}
  Setups <- SinkSetups
  MaxFaults = 2
  MaxAttempts = 2
  MaxSends = 2
  Answers = {"ok", "retryable", "refused"}
  NumKeys = 4
  Sources <- StreamSources
  PageSize = 2
  MaxChanges = 2
  MaxBreaks = 2
  Jobs <- PayloadJobs
  Ids = {1, 2, 3}
  Contents = {"x", "y"}
  FetchBatch = 1
  RestoreBatch = 2
  MaxRowChanges = 2
  MaxFailures = 1
  MaxRuns = 2
  Cells = 2
  Failing = {0}
  Window = 1
  MaxMoves = 2
  Relations = {"t1", "t2"}
  RowKeys = {1, 2}
  Texts = {"x", "y"}
  Limit = 1
  Engine = "sql"
  MaxWrites = 1
  MaxSteps = 3
  Hooks = {"h1", "h2"}
  Starts <- MCStarts
  SourceTables = {"t1", "t2"}
  Columns <- MCColumns
  Identity <- MCIdentity
  MaxOpens = 2
  MaxClicks = 2
  Homes <- MCHomes
  Schemas = {"main", "db"}
  DefaultSchema = "main"
  Listed = {"t"}
  MaxTabIds = 4
  MaxActs = 4
INVARIANTS StreamSafe PayloadSafe BackupSafe StudioSafe
PROPERTIES SinkPromise HttpSafe AbortEndsSend RunViewPromise GridPromise FormPromise
CHECK_DEADLOCK FALSE
