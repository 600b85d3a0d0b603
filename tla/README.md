# Data Bridge: a formal model

Data Bridge connects databases and sends their rows elsewhere. A *hook* (a bridge, in
the UI) has a source (a table or a query of a connection), a destination (an HTTP
endpoint or tables of another database) and a trigger: `replay` (send everything once),
`watch` (poll for new rows) or `cdc` (follow the change stream). Every attempt is a
*run* with a ledger of *deliveries*. This directory holds TLA+ modules that model that
machinery, TLC configurations that check them and TLAPS proofs about them. Paths below
are relative to the repository.

## 1. Inventory

`apps/api` is a NestJS server with a SQLite database (Prisma), a Redis job queue
(BullMQ) and in-process workers; `packages/core` has the adapters and the pure
functions of hooks; `apps/web` is the UI.

| Component | State | Operations | What is hard | What makes it correct |
|---|---|---|---|---|
| Replay service (`hooks/hook-run.service.ts`) | `hook_runs` row: status, cursor, counters, config snapshot; `hook_deliveries` rows | prepare, start, resume, retryFailed, resendFailed, cancel, skipDeliveries, recordDelivery, setCursor, finalize, boot recovery | every operation reads the row, awaits, and writes it unconditionally; database and queue are two stores without a common transaction | no row lost, none delivered twice, counters exact, an active run has a job, a cancel holds |
| Replay worker (`hooks/hook-run.processor.ts`, `run-registry.service.ts`) | position, buffer, skip-set `done`, abort signal | process, execute, flush | crash between deliver, record and checkpoint; polls throttled to 750 ms; abort versus error | the cursor never runs ahead of the ledger; completed means everything is accounted for |
| Row stream (`streamTable`, `streamQuery` of the worker) | keyset bound or offset, index | page, send, checkpoint | rows come and go between pages, the stream breaks and goes on | rows that stay are sent, and sent once |
| Job queue (BullMQ) | jobs by run id: waiting, active, failed | add (no-op if it exists), take, complete, fail, stalled check, remove | a kept failed job blocks a new one; the stalled check races the recovery | the run's lifecycle is the job's |
| Runs of a hook (`hooks.controller.ts`, `hook-run.service.ts`) | the rows of all runs, drafts | prepare, start, edit, remove, removal of the workspace | the three triggers meet over one table; check then create | one active run; nothing outlives a removed hook |
| Watch (`hooks/hook-watch.service.ts`, `packages/core/src/hooks/watch.ts`) | watermark or snapshot in the run's row, scheduler job | start, stop, edit, poll, boot | watermark ties, late rows, crash between record and watermark, stop racing a poll | each new row delivered once; no livelock |
| CDC (`hooks/hook-cdc.service.ts`, `hooks/cdc/*`) | one stream per hook in memory, cursor in the run's row, the slot in the source | start, stop, cleanup, handleChange, boot; per engine: open, read, acknowledge, reconnect | check-then-await on the stream map; callbacks after a stop; acknowledging by position | one stream per hook; the cursor never passes an undelivered change |
| Sinks (`delivery.service.ts`, `database-sink.service.ts`, `hook-sink.service.ts`) | cache of ensured tables | deliver with retries, write rows | timeouts with a late answer, backoff, partial batches | at least once, attempts bounded, outcome as reported |
| Transform, bridge (`packages/core/src/hooks`) | none | projection, templates, mapping, inferred and target types | the table's types come from the first row; a resend works on captured JSON | each row arrives with its own values; the table takes the rows |
| Adapter pool (`connections/adapter-pool.service.ts`) | open adapters, opens in flight, use times | acquire, withAdapter, sweep, evict, test | joins of an older revision's open, an open that ends after the evict | one adapter per connection, nothing leaks |
| Stores of connections, hooks, workspaces; `crypto.service.ts` | rows, secrets, the key | create, update, remove | read then write, a sentinel that comes back, the key made twice | a secret stays what was typed; nothing is removed that is in use |
| Auth, settings | user, sessions, settings cache | setup, login, change of password, update | slow hashes between a read and a write, lost update | a session proves today's password; the cache is the row |
| Database adapters (`packages/core/src/adapters`) | driver connections | browse, write rows, transactions, backup, restore, query, DDL | paging while rows change; restore that fails half-way | a backup holds the rows that stayed; a restored table is whole |
| Web UI (`apps/web`) | selection, cached answers, forms | panels of runs and deliveries, grid, form of a hook, workbench | answers that land after the user has gone on | what is shown comes to agree with the server; a write hits what was clicked |

How they interact: the controller calls the services; the replay service writes the
row, then adds a job; the worker takes the job, reads the row, and from then on the two
talk through the row's status (polled), the abort controller (same process) and the
`skipped` rows of the ledger. Watch and CDC share the ledger (`recordDelivery`,
`finalize`) but not the job. The stop endpoint and the removal of a hook call
`HookWatchService.stop`, which pauses whatever run of the hook is active, a replay run
included. Worker, poll and stream hand batches to the sinks, which get their adapters
from the pool; the browser asks the controller and keeps the answers.

The hazards of this code, each at its line, are listed in `PROJECT.json`.

## 2. Plan

Done: one replay run and its abstract contract (RunLedger, ReplayRun, ReplayContract);
the watch trigger (WatchEngine, WatchRun); the CDC trigger with its providers
(CdcStream); the runs of a hook over all triggers (HookRuns); the way of a row (RowStream,
Payload, HttpDelivery, DatabaseSink); backups (Backup); the services beside it
(AdapterPool, Catalog, Accounts); the web application (RunView, GridEdit, HookForm,
Studio). Proofs for ReplayRun and its contract, WatchRun, CdcStream, RowStream, Payload,
HttpDelivery, Backup, AdapterPool, Accounts, Catalog and Studio.

Left: theorems for HookRuns; an at-least-once stream as the abstract specification of
WatchRun and CdcStream both; the rest of section 7.

## 3. Modules

### RunLedger
Constant-level vocabulary of `hook_runs` and `hook_deliveries`: the status sets, a
ledger as a function from sequence to entry, and what the two ledger transactions
(`recordDelivery`, `skipDeliveries`) and `rowCountFor` compute.

### ReplayRun
One run, from the draft `prepare` creates. The state is the database row (`status`,
`cursor`, `config`, `counters`, `ledger`), the job (`job`, `stalls`), the process
(`proc`), the abort controller (`controller`), the worker's locals (`worker`) and each
request's locals (`call`). Every `await` that reads or writes shared state is a step
boundary:

| Code | Actions |
|---|---|
| `HookRunProcessor.process` | TakeJob, FetchRun, (execute), Finalize, AckJob |
| `execute` | MarkRunning, OpenStream / OpenFails, StopOnAbort / PollControl / SkipPoll, Flush, Advance, Finish, StreamFails |
| `flush`, `recordDelivery` | Deliver, ReadExisting, RecordDelivery |
| `start` (a draft), `resume`, `retryFailed` | AskStart / AskResume / AskRetry, then StartDraft / Resume / RetryFailed, then Enqueue / EnqueueFails |
| `cancel` | AskCancel, CancelRun, AbortAndRemove |
| `skipDeliveries` | AskSkip, SkipDeliveries |
| `resendFailed` | AskResend, then ResendDeliver, ResendReadExisting, ResendRecord for each failure |
| `HookWatchService.stop` on a replay run | AskStop, StopRun |
| `onModuleInit` | RecoverRun, RecoverEnqueue |
| BullMQ | AddJob, TakeJob, StalledCheck, AckJob |
| the process | Crash, Shutdown, Boot |

Abstracted: a source row is its index, and the source does not change during the run
(RowStream is about that);
`totalCount` is the number of rows; a delivery's outcome is a choice between success and
failure; HTTP bodies, keys and messages are left out. A request's first reads (the row,
the failures, the sequences taken) are one step, its writes are later steps.
A batch's rows are gathered in one step, with the poll that precedes them repeated any
number of times, for `stopRequested` runs before each row. The worker may skip a poll
only after one has happened (`lastControlCheck` starts at 0).

### ReplayContract
What a user is promised, with neither cursor, queue nor crash: batches are pending,
delivered, failed or skipped; delivered is final; completed is announced only when
nothing is pending.

### WatchEngine
`watchQuery` and `advanceCursor` as operators on a table (a function from keys to the
tracked value, Null the least) and a cursor: the pages the source may answer with
(`Pages`: the order the query asks for, and every order it leaves open), the rows of a
page that are new, the next cursor. `NullsFirst` says how the source sorts.

### WatchRun
One watch hook. The state is the source (`table`, `clock`), the database rows (`hook`,
`runs`, `ledger`), the queue (`scheduler`, `fire`), the process (`proc`, and its maps
`cadence`, which is `scheduledEvery`, and `streak`, which is `emptyStreak`), the poll's
and the requests' locals (`poll`, `call`). `sent` records the deliveries made, `baseline`
and `meanwhile` what a start from now found in the source when it looked first and what
came before it looked again.

| Code | Actions |
|---|---|
| `poll`, `runPoll` | SkipOverlap, BeginPoll, ResolveHook, QueryPage, then DeliverRow, RecordRow, CheckpointRow for each row, SaveCursor, Adapt; or Retire; or RejectRun, Retire; PollFails |
| `start` | AskStart, CheckActive, ReadLatest, then ResumeRun, or SeedCursor, SeedBoundary and WriteRun, then Schedule |
| `stop`, `HooksController.update` | AskStop, FindRunning, PauseRun, EditHook, which goes on with a start |
| a request whose services fail | CallFails |
| `onModuleInit` | Boot |
| BullMQ's scheduler, the process | Fire, Crash |
| users of the source | Insert, InsertTie, TakeValue, InsertLate, InsertNull, Update |

Abstracted: the table has a primary key; a delivery counts whatever its outcome, for the
poll goes on either way; intervals are fast or idle; the tracked column is a small
number, and the page limits (`maxPerPoll`, and `maxTracked` with its cap of 1000) are one
number. A step that changes the process's maps and then calls Redis is one action, as
nothing of the process runs in between. Left out: a cursor that does not parse. The
hook's removal and edits of its trigger's kind are in HookRuns.

### CdcStream
One cdc hook over a change log. The log is a sequence of events with a number of captured
rows each (`Rows`): a binlog event, a WAL record, an oplog entry, a notification. The
state is the source (`tip`, `slot`), the database rows (`runs`, `ledger`), the map of live
streams (`live`), what `beginStream` made (`stream`: the provider's position and the
chain of pending changes), the providers' loops (`reader`, which outlive a stop until
they notice it) and the requests' locals (`call`, the boot being one of them).

| Code | Actions |
|---|---|
| `start`, `beginStream` | AskStart, Provision, UpdateRun, CheckStream, OpenStream / OpenFails |
| `stop`, `cleanup` | AskStop, FindRun, PauseRun and the removal of the slot |
| the providers' callbacks | OnWalRecord, OnBinlogEvent, OnOplogEntry, OnNotification with BuildRow, Reconnect |
| `handleChange` and the chain | Deliver, Record, Save, Drop, and on errors RecordFailure, GiveUp |
| `onModuleInit`, the process | Boot, Crash |

The cursor discipline of each engine is in the reading actions: Postgres acknowledges a
position of the slot and drops what lies at or below it after a restart (`Lsn` is where
an event lies, which need not be its place in commit order); MySQL knows the place of the
next event only; MongoDB has a token for each entry; Redis has no position at all.
`missed` and `traced` say which changes lie behind a place where a stream opened
without a cursor, are the rest of a cut event, or have an entry. A cut has two sides:
`RestOf` is what MySQL skips when it resumes behind the event, `CutIn` the row that a stop
drops in its chain while the loop goes on to hand the rows behind it to the next stream.

### HookRuns
One hook and all its runs: what `HooksController` and the services do to the rows of
`hook_runs` and to the three kinds of listener. What happens inside a run is in the
modules above; the stop of a listener is one step here.

| Code | Actions |
|---|---|
| `start`, `prepare` | FindDraft, QueueDraft, or CheckActive, PickRun, CreateRun, then Enqueue |
| start of watch and cdc | CheckListener, BeginListening |
| stop, cancel | CdcStops, WatchStops; CancelListener, CancelRun, AbortRun |
| `update` | StopOld, WriteHook, DropDrafts, WriteDraft, Restart |
| `remove`, removal of a workspace | CleanUp, Unwatch, ListRuns, CancelSeen, RemoveHook; StopListed, RemoveWorkspace |
| the worker | TakeJob, MarkRunning, Send, RecordBatch, StopRequested, EndRun |
| watch's poll, CDC's callback, the boot | Poll, Change, Restarted |

### RowStream
`streamTable` and `streamQuery` page by page over four sources (a table with and without
a key, a query with a cap, MongoDB and Redis keys): OpenTable, OpenQuery, FetchPage,
SendRow, RecordRow, SetCursor, PageEnds, Break, RowAppears, RowGoes. A batch has one row,
so that a row's index is the sequence of its entry. A result is the set of its keys; the
order and the page that the engine makes of it are places in it (KeyOrder).

### KeyOrder
What RowStream and Backup share: the place of a key in a result (`KeyRank`), the result in
its order (`Ordered`) and the page that LIMIT and OFFSET make of it (`Slice`).

### HttpDelivery
`DeliveryService.send` for one entry, sent up to `MaxSends` times: BeginSend, Attempt,
Throw, Receive, Answered, GivesUp, BackoffEnds, Wakes, Lose, AbortRun. `wire` holds the
requests whose answer nobody awaits any more and which may still arrive.

### DatabaseSink
`deliver` over several targets, for the runners of two hooks and a resend, with the
transactions the engines have (a server's is its own, SQLite's one handle is shared,
MongoDB and Redis have none): Deliver, Resend, Skip, Probe, CreateTable, Begin, WriteRow,
RowFails, Commit, Record, Crash, DropTable. `Setups` are the scenarios; `ensured` is the
cache of tables known to exist.

### Payload
The data: a value is named by its row and column and has a JavaScript type, which the
ledger's JSON changes. Flush renders (projection, then the template, for HTTP) or maps
(for a table, which the first batch makes, with inferred types translated to the
target's); SendCaptured is the resend.

### Backup
`backup` reads in steps while others write (pages by OFFSET, a cursor, or a scan of keys
and then their values; of a key the type and the value are two calls, one step here);
`restore` inserts in batches (SQL), all at once (MongoDB), or deletes and sets each key
(Redis). It may fail in any statement and be sent again, but for MongoDB's `insertMany`,
whose errors it swallows: InsertsAreLost puts some of the rows and goes on to success, and
`write.lost` remembers it; only a connect that fails (GetDbFails) fails that restore.

### AdapterPool
The adapters of one connection: a request reads the connection (ReadConnection) and then
hits, joins or opens (AcquireHit, AcquireJoin, AcquireOpen); Connected, ConnectFails,
Answer; GoIdle and Sweep; the handlers TestBegins, StoreEdit, BeginRemoval, EvictBegins,
EvictEnds.

### Catalog
Workspaces, connections and hooks with their secrets, which a client sees as a sentinel
and sends back, and the key, which a start reads or makes: Boot, CreateWorkspace,
DeleteWorkspace, Create, OpenForm, SendForm, EditReads, EditWrites, DeleteHook,
CheckUnused, RemoveConn. `typed` is what users meant the secret to be.

### Accounts
SetupCounts and SetupCreates, Login, ChangeReads and ChangeWrites, Issue, Logout and the
guard of the account; UpdateReads, UpdateWrites and UpdateCaches of the settings; Minute.
A cookie carries the version of the account it was issued for.

### RunView
The panel of a hook's runs: the cached list, and the cache of windows of deliveries, one
of which is on the screen. PollAsks, PollReads, PollLands and, for a window, FetchAsks,
FetchReads, FetchLands are the requests, Press, ServerHandles, MutationLands a button and
its answer, TurnPage the user, Work the server.

The cache is TanStack Query's, whose source is not in the repository; the module and
GridEdit take from it that a query which is mounted joins a request under way (`Joins`,
`Opened`); that `invalidateQueries` and `refetch` give up the request of a query that has
data and ask anew, but keep the first load of one that has none (`Invalidated`,
`Refetched`); that a query off the screen is only marked (`MadeInvalid`), and that what
lands clears the mark. `behind` remembers that a request was kept although the server had
read it.

### GridEdit
The data grid and what the adapters do with an edit: LoadReads and LoadLands for each
page, SelectTable, NextPage, PreviousPage, Refresh, OpenCell, CommitEdit, AskDelete,
ConfirmDelete, SaveRow, Applies, WriteLands, OtherWrites. The pages are cached: one that is
gone back to is asked again or not (`staleTime`), unless a write made it invalid. A new table
is first opened at the old offset, which an effect resets. `aim` is the row the user saw
when clicking.

### HookForm
The form of a hook, which stays mounted: its reset, the answer for the hook to edit, the
page of the table whose columns it lists, and the save.

### Studio
The selection, confirmations and operations of the schema tree, query tabs and their
results, and the dialog of a connection; what a handler kept of the render it was
clicked in against what the store holds by then.

### MCReplayRun, MCWatchRun, MCCdcStream
The instances for TLC: configurations, hooks and logs, and the symmetry of keys and
requests (used only where no liveness is checked).

### MCServices, MCParts
They put the parts that share no state into one run each. `focus` says which part moves
in a behaviour; the others stand still, in one initial state (`Still`). Their bounds keep
histories apart that do not concern each other: in MCServices secrets are looked at
without removals and the other way round (SecretsStep, RemovalStep), and sessions without
updates of the settings (SessionStep, SettingStep; overlapping setups may make a second
account, after which nobody changes a password); in MCParts one given-up request is on
the wire at a time (HttpStep), a form opened again is changed once (FormStep), and
statements, operations and the dialog are not under way together (StudioStep). In RunView a
listener's log is paged once, a second run of a replay is the one move there is, and the user
acts while one request at most is under way (RunsStep); the third step in the grid goes to a
page that was opened before, and then the other client is silent (GridStep).

Each part's properties are joined into one (`HookRunsPromise`, `PoolSafe`, ...), whose
definition names its conjuncts, each stated on its own with a comment.

## 4. Runs

| Run | Shows |
|---|---|
| replay_core | with every operation and fault: no row before the cursor and no row of a completed run is missing from the ledger |
| replay_exact | without resends and shutdowns: no redelivery, exact counters, no unasked cancel, delivered stays delivered, and the run implements ReplayContract |
| replay_live | without cancel, resume and retry, an active run has its job and comes to rest, one crash included |
| find_batch_edit | a run resumed with another batch size drops rows (section 6) |
| watch_core | two requests, edits between strategies, a crash or failure anywhere: no cursor passes a row that was not sent |
| watch_exact | all strategies, without a crash, rows that share a timestamp included: each row sent once, under a key of its own; existing rows ignored; no record overwritten; fast while rows flow |
| watch_live | a listening hook has its scheduler and delivers every row, through crashes and failures |
| watch_stop | whatever requests and the source do, a scheduler nobody listens to is retired |
| cdc_core | starts, stops, edits and removals that race the stream, one fault anywhere, four engines: no cursor or acknowledged position passes a change without an entry; changes keep their order; repeats are bounded by the interruptions |
| cdc_live | one request at a time, two faults: at rest a run is running exactly when its stream is live, every change of a running hook gets its entry, a removed hook leaves no slot |
| services | HookRuns, AdapterPool, Catalog and Accounts, each under the requests and crashes that concern it |
| parts | the way of a row and the web application, part by part |

What the joined properties of `services` and `parts` consist of, types aside:

| Property | Conjuncts |
|---|---|
| HookRunsPromise | OneActive: one run of the hook is active over the three triggers; NoZombie: after an edit no listener of the old trigger goes on; QueuedIsCurrent: a run starts with the config of the last edit before it; RemovedRetires: what a removed hook leaves goes |
| PoolSafe, RemovedIsClosed | NoAdapterLeaks: an open adapter is the entry of its database; NoneEscapesEvict: an edit leaves none open that it saw; FreshAdapter: a request gets the configuration it read; the adapters of a removed connection are closed in the end |
| CatalogPromise | SentinelIsNoSecret; EditKeepsSecret: a secret is what was typed last; SecretsReadable: with the key on disk; RemovalSparesUsers; DefaultStays |
| AccountsSafe | SessionProvesPassword: an accepted cookie was issued for the password of today; SettingsKept: row and cache are what was patched |
| StreamSafe | StayersArrive: a row that was there all the time is sent; SentTwiceByBreak: twice only after an interruption between delivery and entry |
| PayloadSafe | OwnValues, PreviewIsSent, ResendWritesSame, TableHoldsRows |
| HttpSafe, AbortEndsSend | OneEffect: the receiver that honours the key applies an entry once; FailsWithReason; NothingAfterAbort; send ends once the run is aborted |
| SinkPromise | AtomicBatch where there are transactions; NoDoubleWrite; SuccessIsApplied |
| BackupSafe | StayersBackedUp, RestoreIsWhole |
| RunViewPromise | StatusesArrive, WindowArrives: what is shown comes to agree with the server, but for a first load that an invalidation kept; RunsStayListed; SkipSparesSettled |
| GridPromise | WriteHitsSeen: a write hits the row that was clicked; EditMakesNoRow; PageArrives, with the same exception |
| FormPromise | RowsAreOfTable: picked rows belong to the table that is saved; SaveKeepsRest; EnabledStays |
| StudioSafe | ResultsOfConnection, ActsAsConfirmed, SelectionInWorkspace, OwnSettings |

Each exclusion, in an `Ops`, `Faults` or `Changes` or in a history variable of a
property, is there because what is excluded breaks the property in the code, and section 6
says how.

Bounds of the replay runs: `NumRows = 3` with a batch of 2 gives a full batch and a short last one, which
take different branches of `execute`; with a batch of 1, three full batches and no tail.
Two requests are enough for each race the code has (a request against a request, or a
request against the worker); `MaxCalls = 3` or 4 allows start, an intervention and a
resumption; `MaxCrashes` 1 puts a crash at every step, 2 is what the queue's
stalled counter needs.

Bounds of the watch runs: pages of 1 to 4 rows over 2 to 4 keys cut pages and leave rows
over (`watch_stop`, which is not about rows, has one key and one value); `MaxClock` 2
gives values at and above a cursor; one or two requests and two or three calls allow a start, a stop or an edit, and another start; one fault is enough
to put a crash or failure at every step. `CooldownPolls` is 1 or 2 where the code has 4:
the streak saturates there. The column of an increment hook has no ties, as ids and sequences have none, and the
`late`, `null` and `update` changes happen in `watch_stop` only: with them a row can be
lost or repeated. `watch_live` has pages large enough for the rows that share a
timestamp, and its hooks are not edited, for the reasons section 6 gives.

Bounds of the CDC runs: the log `<<2, 0, 1>>` has an event of two rows, one the hook does
not want and another one; two calls are a start and a stop, edit or removal that races it,
with one start at a time (`MaxStarts`); three streams are two replacements. An event of
three rows (`Rows <- <<1, 3>>`) makes `cdc_core` too large for a run that is repeated at each
change; checked once, its properties hold there too.

Bounds of `services`: one request at a time in HookRuns against the worker, polls,
callbacks and boots, with four calls over three runs (start, intervention, restart,
removal); two requests, one edit and three adapters in the pool are an open, one that
joins or replaces it, and one after the evict; two connections, a hook, two clients and two
starts; two browsers, two names and two passwords, two patches of two settings.

Bounds of `parts`: two batches of two rows and two faults in the sink; two attempts in
each of two sends; four keys in pages of two with two breaks or changes; three rows of
every pair of types; three rows, two changes and one failure in a backup; two openings and
two clicks in HookForm; three connections in two workspaces, four tabs and four clicks in
Studio; two runs of two deliveries, a window of one and two moves in RunView; two
tables of two keys with pages of one, one write of the browser and three other steps in
GridEdit. A page or window that is left and gone back to takes two moves.

An idle server with no more calls stops, and so does a user who has nothing more to do,
so deadlock is not checked.

Fairness, always weak, and only of what the code keeps going by itself. Nobody is
obliged to call, and no fault, crash or lost message has to happen.

- ReplayRun: the worker, the stalled check, the boot after a crash, the end of a process
  that is stopping, and a request under way: each is an event loop callback or a timer
  that is always re-armed.
- WatchRun: a due poll fires (BullMQ's scheduler re-arms itself), a poll and a request
  under way go on, a dead process is started again; a poll that fails or is skipped is
  nobody's duty.
- CdcStream: requests go on, a loop reads what its source has, the chain of pending
  changes goes on, a dead process is started again.
- HookRuns: requests go on, a worker and a poll go on.
- AdapterPool: a request goes on, an open ends one way or the other, an adapter nobody
  uses becomes idle and the sweep, an interval timer, comes round.
- HttpDelivery: an abort ends a fetch or a sleep, and an answer that was heard is
  handled. No timer of a backoff, no timeout and no answer is promised.
- RunView, GridEdit: an interval asks again as long as the code re-arms it, a request
  for what is on the screen is read and lands, a mutation under way is answered.

## 5. Proofs

Each is for every value of the constants that the named assumption of its module admits,
without the bounds MC modules add.

- `ReplayRun_proofs`. Each theorem adds a layer to the same invariant.
  - `TypeCorrect` from `TypeInv`: the types, and what each step says of the worker's and
    requests' locals.
  - `CursorIsBacked` and `RowsAccountedFor` under `OneBatchSize` (no configuration
    differs in batch size), with every operation and fault. The invariant is `Progress`:
    each entry accounts for the rows of its batch, cursor and worker position are
    multiples of the batch size below which every row is covered, and what the skip-set
    and a resend name is recorded. `CursorCovered` alone is not inductive, for it says
    nothing of the worker, whose position becomes the cursor.
  - `NothingDeliveredTwice` and `GreenIsFinal` without resends, from `SkipSet`: whatever
    is green is in the skip-set or behind the worker.
  - `ContractKept`, the refinement: only `RecordDelivery`, `SkipDeliveries` and
    `Finalize` move the contract's state; each is one of its actions.
  - `CountsAreExact` under the same assumption, skips included, from `CountInv`: what
    a writer has read of the entry it replaces is still there when it moves the counters. A
    counter is a sum over the ledger. To need no induction, the sum is taken as the size of
    a set (the rows of the entries that count), which one entry makes larger or smaller by a
    set of known size.
  - `CanceledWasAsked` without an orderly shutdown, from `CancelInv`: an abort, a
    `canceling` row and a worker that is about to write `canceled` all come from a cancel.
  - `ActiveRunHasJob` under `OneAtATime`, from `JobInv`: the worker holds the job it
    works on, and only a crash leaves one to nobody.
- `WatchRun_proofs`: `TypeCorrect` (the pages a source may answer with and the cursors
  computed from them included), and `NoRowLost` under `AppendOnly`, from `BackedInv`: what
  a saved cursor, a poll's cursor or a start's has passed was sent, is among the rows
  still to send, or was there before a start from now. A page may be cut in the middle
  of a timestamp: what `advanceCursor` filters is taken by the least index that is wrong.
  Of deliveries: `SequencesNumber` (all of `NumberingHolds`) under `PollsFinish`,
  from `NumberInv`: a poll works with the offset its run has saved, and the run's entries
  are those below it. `FlowingIsFast` from `CadenceKnown`: the process knows the interval
  its scheduler has. `ListenersScheduled` under `OnlyStarts`, from `ListenInv`.
  `SentExactlyOnce` and `NowIgnores` under `Undisturbed`, from `OnceInv`: with each
  strategy, no row the source may still answer with has been sent.
- `CdcStream_proofs`: `NothingIsSkipped` and `EntriesInOrder` under `Orderly`, for
  PostgreSQL, MongoDB and Redis. `CdcInv` says of every position that reading may go on
  from (a run's cursor, a request's copy of it, a watermark, a loop's next event, what a
  reconnect goes back to, the slot) that all before it is excused. That is inductive
  only with what keeps a loop from moving past a change that was dropped: a loop waits for
  one change of one chain (`ChainsBelong`), reads on only for the live stream
  (`ReadersBelong`), nothing is open while a start is under way (`StartsAlone`), and
  MongoDB has one loop for a stream (`OneTail`).
  `RestKept`, all of `RestIsClean`, for every engine under `OneRequest`. At rest is not
  inductive: `RestInv` says for each step of a request what holds while it is there (nothing
  is live or reads until the stream of a start has been registered, then its run is
  running exactly while that stream is live, and nothing is live again once a stop has
  begun), and that, where the ledger may fail, only the live stream or one of a hook that
  is being removed is left to give up. The rows of an event are bounded
  (`RowsMax`), without which a loop's place after a row would have no type.
  `RepeatsArePaid`, which is `RepeatsBounded`, under `Orderly` and without Redis. The
  invariant counts: as long as nobody stopped the stream, the repeats so far, with those
  that may still come (`Again`: what was sent, lies beyond the run's cursor and is not in
  flight) and a change that is about to fail, are no more than the interruptions
  (`Counted`). It needs the order of the positions (`CursorBehind`, `TailBeyond`): what a
  loop has still to deliver lies beyond the cursor, and all but its head was never sent.
  `LogIsFollowed`, which is `LedgerFollowsLog`, under the same assumptions: `EntriesInOrder`
  and that no sequence is used for a second change. `NamesInv` has two parts for the two
  exceptions the property grants. Until something stops, crashes or fails, what was recorded
  lies below the sequence of the live stream (`Fresh`). For MongoDB, until a stream has opened
  past a change, everything that counts does count the log (`Numbered`): a cursor and its
  offset belong together (`Counts`), a change has the number of the changes before it
  (`Behind`), and these are as many as its stream has done when it is handed over, because a
  stream has one loop; so a sequence that is used again has the same change
  (`BehindApart`). For PostgreSQL the property promises the first part only.
- `Rows_proofs`. What counting a set from below gives (`KeyRank` of a row, of the next one,
  of the last) is proved once as lemmas and used for both.
  - `StreamKept`, all of `StreamSafe`, under `Steady`. Two invariants, for a source nobody
    writes to and for a run nobody interrupts. In the first a row's place in the result is
    the sequence of its entry (`SentByPlace`), so that the row a resumed run seeks is the
    last one it counted. In the second the rows that were sent are those up to the last
    key of the loop, and a page is followed by everything beyond it.
  - `BackupKept`, all of `BackupSafe`. `BackupInv` says that a row nobody touched is in the
    backup or *ahead* of the scan, which is what the offset, the last key or the list of
    keys left says for each engine (`StayersRead`; a row deleted before an offset moves all
    others back, one inserted moves them on and is what SQL may read twice). For a restore:
    Redis's keys are in the backup once (`KeysOnce`), for a set would undo an earlier one,
    and what is before `write.at` is in the target, again after each new beginning. Of
    MongoDB that holds unless the restore under way swallowed an error (`write.lost`),
    which a new beginning forgets: its `insertMany` finds what is there and puts the rest.
- `Payload_proofs`: `PayloadKept`, all of `PayloadSafe`. A ledger's entry is the body of
  the rows it stands for, whatever its outcome was (`Entry`); entries follow each other
  (`Linked`), so that sequences number rows; what the table took is a row of the source
  as it was mapped or as it comes back from JSON, and what the table was made from is one of
  those (`MadeInv`), which for columns of one type decides what fits.
- `HttpDelivery_proofs`: `HttpKept`, all of `HttpSafe`. The invariant counts requests
  against the sends made (at most `MaxAttempts` for each that ended, plus those of the
  one under way), which bounds their identifiers, and says that whatever was heard has
  arrived.
- `Services_proofs`.
  - `PoolKept`, all of `PoolSafe`. The invariant `PoolInv` says that the tables and the
    states agree (an entry is open, a pending adapter is opening, and nothing else is), that
    a request has the adapter it was given, that what an evict waits for is no newer than
    the edit, and that nothing older is under way beside a request that found nothing
    older. `NoAdapterLeaks` alone says nothing of opens under way, which become entries.
  - `AccountsKept`, all of `AccountsSafe`. Whatever a request or cookie holds *stands*: its
    version is not above the account's, and with the same version it is for the same
    password. Accounts only grow, in which what stands goes on standing. For the settings:
    as long as no two updates overlap, one browser at most is in an update, and what it
    read is the row.
  - `CatalogKept`, all of `CatalogPromise`. Every secret, in a row or read by an edit, is
    encrypted with the one key on disk, a process that has a key has that one, and whoever
    read a row before another's edit knows that it was raced.
- `Studio_proofs`: `StudioKept`, all of `StudioSafe`. An operation keeps what the user saw
  when confirming it (`Confirmed`). A result may only be shown in a tab that is open, so
  `TabsBelong` speaks of the statements under way: those of another connection have a
  tab whose number was given before the tabs were made anew, and is never given again.
  `FormBelongs` ties the dialog to the connection it was opened for.

The named assumptions are needed; section 6 has what happens without most of them.

| Assumption | What it excludes, and what the code does then |
|---|---|
| `OneBatchSize` | an edit of the batch size, after which a resume reads the cursor in other batches (`find_batch_edit`) |
| `Undisturbed` of ReplayRun | also resends, which overwrite what a resumed worker records |
| no shutdown | an orderly shutdown aborts as a cancel does |
| `OneAtATime` | a cancel, which removes a waiting job; a resume or retry that finds the old job, adds none, and sees it removed by its acknowledgement; a second request that does the same; a queue or a source that fails while the run is active; a second crash, after which the stalled job fails |
| `AppendOnly` | rows changed or committed late, which the cursor has passed; a tie (two rows with one value) when the strategy is edited to one that has no boundary |
| `PollsFinish` | a crash or a failure between sending and saving the offset, which is used again |
| no crash (`FlowingIsFast`) | a restart, which forgets the interval it had set; `CooldownPolls > 0` is what the code has |
| `OnlyStarts` | a stop, which races the poll that removes the scheduler; a start that fails half-way |
| `Undisturbed` of WatchRun | all of these, and a table larger than its snapshot, which is sent again |
| `Orderly` | MySQL, which resumes behind a whole event; rows that share an LSN, or lie in the WAL in another order than they commit; two starts at once, which open two streams. For `RepeatsArePaid` and `LogIsFollowed` also Redis, which does not go on from its cursor |
| `OneRequest` | a second request, which finds the other half-way; five attempts to drop a slot that all fail; a ledger that fails for a stream that was replaced by a stop or an edit, or whose end cannot be saved: it takes the live one along, or leaves the run running |
| `Steady` | an engine that does not compare keys (MongoDB's ObjectIds, Redis); a source that changes while the run is interrupted, whose cursor is a place and no key, or while it is paged by OFFSET |

`BackupKept`, `PayloadKept`, `HttpKept`, `StudioKept` and the three theorems of
`Services_proofs` assume no more than the typing of the constants, and so do both
`TypeCorrect`. That of Payload says what a hook may be (`JobOK`): rows of the same columns,
none of which has the name of a helper of the templates, and batches that are not empty.

Only model-checked:

- liveness (`ActiveSettles`, `RowsArrive`, `StoppedRetires`, `ChangesArrive` and those of
  `services` and `parts`): out of the prover's reach, as is whatever needs ENABLED;
- `NothingSkipped` and `LedgerFollowsLog` of CdcStream for MySQL, and the second for Redis
  beyond its order;
- HookRuns, DatabaseSink, RunView, GridEdit and HookForm: their promises
  join safety with action or liveness properties and have no proof yet.

## 6. Where code and documentation disagree, and what the passing runs leave out

`find_batch_edit` has a run of its own: a resume with another batch size drops rows
(`hook-run.processor.ts:166` against `hook-run.service.ts:301-302`). The others are what
the passing runs leave out. Each line of these tables with a configuration shows in TLC
as a violation of the property named, once the named constants are changed and the property is
put in place of the run's own.

### Replay and watch

| What the code does | Configuration and change | Property |
|---|---|---|
| a cancel that lands before `markRunning` is overwritten (`hook-run.processor.ts:78`) | `replay_core`: `Ops = {"start", "cancel"}` | CancelSticks |
| cancelling a waiting run leaves it canceling for good (`hook-run.service.ts:356`) | `replay_live`: `Ops = {"start", "cancel"}` | CancelSettles |
| two crashes leave a running run without a job (`hook-run.service.ts:658`) | `replay_live`: `MaxCrashes = 2` | ActiveSettles |
| a resume that finds the old job queues nothing (`hook-run.service.ts:312`) | `replay_live`: `Ops = {"start", "resume"}` | ActiveHasJob |
| a source that cannot be opened leaves the run running (`hook-run.processor.ts:86`) | `replay_live`: `Faults = {"open"}` | ActiveHasJob |
| a skip racing a record leaves `skippedCount` too high (`hook-run.service.ts:571`) | `replay_exact` | SkippedCountExact |
| a resend and a resumed worker overwrite each other (`hook-run.service.ts:73`) | `replay_exact`: `Ops = {"start", "resume", "resend"}` | SuccessIsFinal |
| an orderly shutdown cancels the run it should resume (`run-registry.service.ts:31`) | `replay_exact`: `Faults = {"shutdown"}` | CanceledIsAsked |
| a row updated while its key is remembered at the boundary is never sent again (`watch.ts:190-191` against `:12-14`) | `watch_exact`: `Hooks <- PairTimestamp`, `Changes = {"insert", "update"}`, `MaxClock = 3`, three keys | PassedWasSent |
| a poll under way undoes the rebuilt cursor of an edit (`hook-watch.service.ts:244-247` against `:92-94`) | `watch_core`: `Hooks <- TwoStrategies`, `Ops = {"start", "edit"}`, `Faults = {}`, `MaxCalls = 3` | CursorFits |
| a row committed late is never sent (`watch.ts:137`) | `watch_exact`: `Changes = {"insert", "late"}` | PassedWasSent |
| a page of NULLs is sent at every poll (`watch.ts:175`) | `watch_exact`: `Changes = {"insert", "null"}` | SentOnce |
| NULLs that come first in descending order make a start from now send the rows that are there (`hook-watch.service.ts:295`) | the same, `NullsFirst = FALSE`, `Hooks <- NowIncrement` | NowIgnoresRows |
| a table larger than its snapshot is sent again and again (`hook-watch.service.ts:187`) | `watch_exact`: `Hooks <- NarrowSnapshot` | SentOnce |
| a page full of one timestamp keeps later rows out (`watch.ts:149`) | `watch_live`: `Hooks <- OneTimestamp`, `Changes = {"insert", "tie"}` | RowsArrive |
| a crash reuses a sequence, for the ledger (`hook-watch.service.ts:237`) and for the receiver (`:213`) | `watch_exact`: `Faults = {"crash"}` | RecordStays, KeyNamesRow |
| a poll that found nothing removes the scheduler of a start (`hook-watch.service.ts:165`) | `watch_live`: `Ops = {"start", "stop"}`, `MaxCalls = 3` | ListeningIsScheduled |
| a start that fails halfway leaves the run running unscheduled (`hook-watch.service.ts:117`) | `watch_live`: `Faults = {"request"}` | ListeningIsScheduled |
| two starts make two listeners (`hook-watch.service.ts:71`) | `watch_core` | OneListener |
| a restart keeps a busy hook at the idle cadence (`hook-watch.service.ts:394`) | `watch_exact`: `Faults = {"crash"}` | FastWhileFlowing |

### The runs of a hook

| What the code does | Configuration and change | Property |
|---|---|---|
| removing a hook pauses its replay run and so passes it over; the worker goes on sending (`hooks.controller.ts:127-129`) | `services` | RemovedIsQuiet |
| two starts at once make two active runs (`hook-run.service.ts:193`) | `services`: `Callers = {c1, c2}`, `MaxStarts = 2` | OneActive |
| a start of listening that races the removal leaves a listener without a hook | `services`: `Callers = {c1, c2}` | NoZombie, RemovedRetires, OneActive |
| an edit that races a start queues the draft of before the edit | `services`: `Callers = {c1, c2}`, `MaxStarts = 2` | QueuedIsCurrent |
| the kind of trigger edited while a replay run is active: the boot opens a CDC stream on the replay's run (`hook-cdc.service.ts:393-408`); a cancel pauses it and `markRunning` overwrites that | `services`: `SwitchActive = TRUE` | OneActive |

Beyond these: a resume or retry by id never asks for another active run, nor does the
start of a draft (OneActive counts no run that was `picked`); a crash in an edit leaves
a draft of the old config; a paused run of a listener resumed as a replay starts from the
listener's offset and ledger (`hook-run.service.ts:300`).

### CDC

| What the code does | Configuration and change | Property |
|---|---|---|
| two starts open two streams (`hook-cdc.service.ts:235-236`) | `cdc_core`: `MaxStarts = 2` | RepeatsBounded, NothingSkipped, LedgerFollowsLog |
| a stop between `UpdateRun` and the registration leaves a paused run with a live stream | `cdc_live`: `Callers = {c1, c2}` | RestIsClean |
| giving up a stream that was replaced ends the run of the new one (`hook-cdc.service.ts:382-383`) | `cdc_live`: `Ops` with `"edit"` | RestIsClean |
| Postgres drops transactions that committed in another order than they were written (`postgres-cdc.provider.ts:219`) | `cdc_core`: `Lsn <- Interleaved`, `Rows <- OneByOne` | NothingSkipped |
| ... and the further rows of one WAL record | `cdc_core`: `SharedLsn = TRUE` | NothingSkipped |

What `Excused`, `stops` and `interrupts` leave out of the properties: MySQL resumes behind
the event it was cut in, so its other rows are lost (`mysql-cdc.provider.ts:199`, against
its comments `:5-6` and `:283`), and a row of an event that waits in its chain when a stop
comes is lost too when the loop hands the rows behind it to the stream of a quick restart
(`hook-cdc.service.ts:318`; with three rows the stream's cursor passes it); MySQL and MongoDB streams that reconnect before a first
cursor was saved open at the tip (`mysql-cdc.provider.ts:282-290`,
`mongodb-cdc.provider.ts:177`); after a crash before the first cursor was saved, sequence 0
is used again; a failed delivery recorded without its cursor is overwritten after a crash
(`hook-cdc.service.ts:374`), a delivered one by a failure when storing the cursor
fails, and a late write of the cursor by a stream that was stopped sets back its
successor's; values of Redis come in another order than their notifications
(`redis-cdc.provider.ts:182-185` against `hook-cdc.service.ts:294-298`); a `finalize` or a
boot that fails leaves a run running without a stream.

### The way of a row

| What the code does | Change of `parts` | Property |
|---|---|---|
| rows of two deliveries to one SQLite file share a transaction (`sqlite-adapter.ts:155-156`, `base-sql-adapter.ts:211-218`) | `Setups <- SharedFile` | AtomicBatch |
| a failed delete sent again is an upsert, recorded as a success | `Setups <- DeleteAgain` | SuccessIsApplied |
| a captured body that was cut is not what is sent again (`hook-run.service.ts:99-105` against `README.md:37-40`) | `Setups <- CutBody` | SuccessIsApplied |
| one failing target of two makes a resend insert again into the other | `Setups <- TwoLogs` | NoDoubleWrite |
| a keyset bound that is not a plain value ends the table after its first page: MongoDB (`mongodb-adapter.ts:438-544`, `hook-run.processor.ts:239-259,329-330`) | `Sources <- ObjectIds` | StayersArrive |
| ... and Redis, whose scan has no order (`redis-adapter.ts:200-203`) | `Sources <- RedisKeys` | StayersArrive |
| a run that breaks while rows are deleted resumes behind rows it never sent, by keyset or OFFSET (`hook-run.processor.ts:208-237`) | `Sources <- Shifted`, `Sources <- Offsets` | StayersArrive |
| the table is typed by its first row: wide or other values do not fit | as is | TableHoldsAll |
| the key columns of a table made for JSON or text keys cannot be indexed (`bridge.ts:123-126`) | as is | KeysAreIndexable |
| `renderBatch` is "used when batchSize > 1" (`transform.ts:167`), but a last batch of one row goes out without the array (`hook-sink.service.ts:63-65`) | as is | ArraysThroughout |
| the preview of a hook with change capture does not have `$op` | as is | PreviewIsSentAlways |
| MongoDB's restore swallows every error of `insertMany` and reports the number of rows of the backup (`mongodb-adapter.ts:416-423`) | as is, without `~write.lost` | RestoreIsWhole |
| a page by OFFSET loses a row that stays when an earlier one is deleted (`base-sql-adapter.ts:600-626`, against the comment there that "the OUTPUT is unchanged") | as is, without `~deleted` | StayersBackedUp |

Not told apart by a property: an outcome that failed at once reports all attempts
(`delivery.service.ts:122`); an HTTP body that was cut is resent as a JSON string;
`inferType` and its comment differ on dates (`database-sink.service.ts:243-246`); a table
known to exist is never looked for again (`:59-64`); MongoDB deletes with an empty filter
when the row has no key; a resend for several targets uses the first one's mapping
(`database-sink.service.ts:96`, `hook-run.service.ts:104`), parses JSON, which leaves
strings where dates and buffers were (`:91`), and sets a target back when a newer change
succeeded before; two filters on one MongoDB column keep the last; MySQL's
`longtext` and `longblob` become a bigint (`bridge.ts:116` against `:105-107`); a restore
that makes the SQL table makes no key, so that repeating it doubles rows, and one into a
table with a key cannot be repeated after it failed half-way; a Redis key that goes
between scan and read is restored empty, and its restore deletes before it sets.

### Services

| What the code does | Change of `services` | Property |
|---|---|---|
| a request that read the connection before an edit opens after its evict, and later ones join or hit it (`adapter-pool.service.ts:127-134`) | as is, without `clean` | FreshAdapter |
| overlapping edits lose a secret that was typed (`connection-store.service.ts:121`) | as is, without `raced` | EditKeepsSecret |
| two updates of the settings lose one, a failed read at the boot caches the defaults and one in an update drops the overrides (`settings-store.service.ts:61-89`) | as is, without `mixed` | SettingsKept |

Not told apart by a property: the sweep closes an adapter that has been in use for longer
than `poolIdleMs` (`adapter-pool.service.ts:43-52`), and the end of the process forgets
opens under way (`:35-41`); a hook saved between the check and the removal of its
connection, and the removal of a workspace, leave hooks whose connection is gone
(`connections.controller.ts:104-124`); an edit of a hook does not move it to another
workspace; two first setups at once make two accounts when their names differ
(`auth.service.ts:60-72`).

### Web application

| What the code does | Change of `parts` | Property |
|---|---|---|
| the log's last page is not the latest deliveries (`delivery-log.tsx:119-121,169-170` against the ascending order of `hook-run.service.ts:416-425`) | as is | TailIsLatest |
| a delivery recorded after the stop was asked for is not fetched any more | as is, without `late` | WindowArrives |
| the first load of a window is read before the run's last delivery and kept when the run ends, or is skipped or retried: the window stays behind, against "so deliveries written between the last poll and completion show up" (`queries.ts:427-437`); it rests on the library as modelled (section 3) | as is | EndShowsUp |
| "Next" right after a write was sent: the next page is read before the write applies, and its first load is kept by the invalidation (`data-grid.tsx:174,206,475`) | as is, without `behind` | PageArrives |
| a write on placeholder rows of the last table hits the same key of the new one (`data-grid.tsx:187`) | as is, without `hasty` | WriteHitsSeen |
| an update of a removed Redis key makes it again | `Engine = "redis"` | EditMakesNoRow |
| the banner says a listener takes all columns (`hook-builder.tsx:847-856`), which a saved selection does not | as is | ListenerTakesAll |
| a form opened again with the table it had before has no column ticked, against "include ALL of them by default" (`hook-builder.tsx:247-268`) | as is | LoadedIsWhole |
| a hook is saved with a key column that its mapping does not write | as is | KeysAreWritten |
| results carry the connection, not the database they came from (`query-editor.tsx:75-76`) | as is | ResultsOfDatabase |
| a dropped database leaves a selection made elsewhere meanwhile (`schema-tree.tsx:219`) | as is | LandsWhereAsked |
| a deleted connection stays selected if selected while it was being deleted (`connection-list.tsx:37-41`) | as is | DeletedIsLeft |
| the settings of one connection land in the dialog of another (`connection-dialog.tsx:59-80`) | as is, without `~outran` | OwnSettings |

Not told apart by a property. Runs: one started elsewhere is not noticed while the
list is idle (`automations-view.tsx:88`); the grid of deliveries never follows the run
(`delivery-log.tsx:105-113`) and hides rows beyond the planned total; a cancel shows
`active: false` with `canceling`; a last fetch that fails is not repeated. Grid: a cell is
committed by its index after a refetch moved the rows; an update of a removed row says
"Row updated"; "Next" twice on a stale `hasMore`; leaving a cell writes the old value
back; drafts are strings. Form: a save before or after an answer that failed re-enables
a disabled hook (`hook-builder.tsx:185`), a save while another table's page is shown mixes
both (`strayed`), a save cancelled while pending closes the editor opened next and selects a hook of
another workspace (`:627-643`), the readiness check has no guard against late answers
(`:606-625`), and loading a hook drops sources that are no tables, filters, sort,
template, backoff, page limits and constants of the mapping. Workbench: a save pending when
the dialog is left closes the next one, a save before the settings came writes blanks,
results of two runs of a query land in either order (`query-editor.tsx:81-113`), tabs of
the browser share what is kept locally.

## 7. Not modelled, and why

- Two workers on one run: BullMQ gives a job whose lock expired to another worker
  (`hook-run.processor.ts:53`), which takes an event loop blocked for 30 s.
- Database errors in the middle of the worker's bookkeeping, and the retention of finished jobs.
- A `schedule` of the watch trigger that is rejected by Redis after its maps were set
  (`hook-watch.service.ts:115-117`, `:266-268`), and an `unschedule` whose failure is
  swallowed (`:357`): the faults of WatchRun come between the calls, and a `schedule` sets
  the maps and the scheduler in one step.
- Between `registry.abort` and the awaited `queue.remove` of a cancel
  (`hook-run.service.ts:355-356`), which ReplayRun does in one step, the worker may take
  the job: as if it had taken it just before, for the abort found no controller and the
  removal leaves a locked job alone.
- A CDC hook that is disabled: a boot passes it over (`hook-cdc.service.ts:403`), a start
  does not ask. The hooks of CdcStream are enabled; HookRuns has the switch.
- An HTTP destination without `idempotency`, which is the default
  (`hook-config.ts:56`, `delivery.service.ts:36`): HttpDelivery is about one that has it,
  for without a key nothing can be said of effects.
- A cursor of a watch run that does not parse; CDC's check of prerequisites, and the decoding of rows.
  SQLite has no change stream.
- Interpolation inside strings, nested templates, the validation schemas: text and
  shape, without state.
- The adapters' introspection, DDL, free queries and dialects: text generation and driver calls.
- The encryption and hashing algorithms, taken as they should be; logging,
  configuration and error formatting; renaming and counting of workspaces.
- The UI of settings, login and the workspace map, and layout.
- The sweep of an adapter in use, and a deletion in a backup's origin or in a source
  that breaks: modelled, and left out of the properties (section 6).
