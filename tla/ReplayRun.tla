------------------------------ MODULE ReplayRun ------------------------------
(***************************************************************************)
(* One replay run: its database row and delivery ledger (HookRunService),   *)
(* its BullMQ job, the worker that executes it (HookRunProcessor), the      *)
(* abort controller (RunRegistryService) and the API calls that act on it   *)
(* while the worker runs.  Every await of the code is a step boundary.      *)
(*                                                                         *)
(* The row moves with two authorities that no transaction ties together:    *)
(* the database status and the Redis job.  The rows of the source do not    *)
(* change here; a row is its index.                                         *)
(***************************************************************************)
EXTENDS RunLedger, FiniteSets

CONSTANTS
  NumRows,     \* rows of the source, in stream order
  Configs,     \* delivery configurations the hook goes through as users edit it
  Callers,     \* concurrent API requests
  Ops,         \* operations users invoke
  Faults,      \* faults that may happen
  MaxCalls,    \* bound: API calls made
  MaxCrashes   \* bound: times the process dies

AllOps    == {"start", "resume", "retry", "cancel", "skip", "resend", "stop"}
AllFaults == {"open", "stream", "enqueue", "shutdown"}

ASSUME NumRowsAssumption == NumRows \in Nat \ {0}
ASSUME ConfigsAssumption ==
  /\ Configs # {}
  /\ Configs \subseteq [batch : Nat \ {0}, onError : {"continue", "abort"}]
ASSUME OpsAssumption == Ops \subseteq AllOps /\ Faults \subseteq AllFaults
ASSUME BoundsAssumption == MaxCalls \in Nat /\ MaxCrashes \in Nat

MaxStalledCount == 1          \* BullMQ's default, which the repository keeps
Seqs == 0 .. NumRows - 1      \* every sequence a batch size of 1 or more gives

VARIABLES
  status, cursor, config, counters,  \* the hook_runs row; config is its snapshot
  ledger,        \* the hook_deliveries rows of the run
  job, stalls,   \* the BullMQ job named after the run, and its stalled counter
  proc,          \* the API process, which also hosts the worker
  controller,    \* the run's AbortController in the registry
  worker,        \* the worker's local state
  call,          \* each API request's local state
  cancelAsked,   \* history: some cancel call has written `canceling`
  made, crashes  \* calls made and crashes so far, for the bounds

rowVars   == <<status, cursor, config, counters, ledger>>
queueVars == <<job, stalls>>
histVars  == <<cancelAsked, made, crashes>>
vars == <<rowVars, queueVars, proc, controller, worker, call, histVars>>

WorkerSteps == {"idle", "fetch", "mark", "open", "stream", "ready", "deliver",
                "read", "record", "advance", "finalize", "ack"}
CallSteps   == {"idle", "start", "resume", "retry", "enqueue", "cancel", "abort",
                "skip", "stop", "deliver", "read", "record"}

WorkerState == [step : WorkerSteps, next : Nat, config : Configs,
                done : SUBSET Seqs, polled : BOOLEAN, seen : Entry,
                outcome : Outcome \union Terminal \union {"none"}]
CallState   == [step : CallSteps, seqs : SUBSET Seqs, config : Configs,
                seen : Entry, outcome : Outcome \union {"none"}]

TypeOK ==
  /\ status \in RunStatus
  /\ cursor \in Nat
  /\ config \in Configs
  /\ counters = [k \in DeliveryStatus |-> counters[k]]
  /\ ledger \in [Seqs -> Entry]
  /\ job \in {"none", "waiting", "active", "failed"}
  /\ stalls \in 0 .. MaxStalledCount
  /\ proc \in {"down", "booting", "recovering", "up", "stopping"}
  /\ controller \in {"none", "live", "aborted"}
  /\ worker \in WorkerState
  /\ call \in [Callers -> CallState]
  /\ cancelAsked \in BOOLEAN
  /\ made \in 0 .. MaxCalls
  /\ crashes \in 0 .. MaxCrashes

AnyConfig  == CHOOSE c \in Configs : TRUE
IdleWorker == [step |-> "idle", next |-> 0, config |-> AnyConfig,
               done |-> {}, polled |-> FALSE, seen |-> NoEntry, outcome |-> "none"]
IdleCall   == [step |-> "idle", seqs |-> {}, config |-> AnyConfig, seen |-> NoEntry,
               outcome |-> "none"]

\* A run as prepare() leaves it; a run created by start() goes on from there.
Init ==
  /\ status = "draft"
  /\ cursor = 0
  /\ config \in Configs
  /\ counters = NoCounters
  /\ ledger = [s \in Seqs |-> NoEntry]
  /\ job = "none"
  /\ stalls = 0
  /\ proc = "up"
  /\ controller = "none"
  /\ worker = IdleWorker
  /\ call = [c \in Callers |-> IdleCall]
  /\ cancelAsked = FALSE
  /\ made = 0
  /\ crashes = 0
------------------------------------------------------------------------------
(***************************************************************************)
(* The job queue.                                                           *)
(***************************************************************************)

\* queue.add with jobId = runId: nothing happens when a job of that name exists.
AddJob ==
  /\ job' = IF job = "none" THEN "waiting" ELSE job
  /\ stalls' = IF job = "none" THEN 0 ELSE stalls

\* The worker takes the job.
TakeJob ==
  /\ proc \notin {"down", "stopping"}
  /\ job = "waiting"
  /\ worker.step = "idle"
  /\ job' = "active"
  /\ worker' = [worker EXCEPT !.step = "fetch"]
  /\ UNCHANGED <<rowVars, stalls, proc, controller, call, histVars>>

\* The stalled check finds an active job nobody holds the lock of: it goes back
\* to waiting, or fails once it has stalled more than MaxStalledCount times.
StalledCheck ==
  /\ proc \notin {"down", "stopping"}
  /\ job = "active"
  /\ worker.step = "idle"
  /\ IF stalls = MaxStalledCount
     THEN job' = "failed" /\ UNCHANGED stalls
     ELSE job' = "waiting" /\ stalls' = stalls + 1
  /\ UNCHANGED <<rowVars, proc, controller, worker, call, histVars>>
------------------------------------------------------------------------------
(***************************************************************************)
(* The worker: HookRunProcessor.process, execute and flush.                 *)
(***************************************************************************)
SeqOf(w)   == w.next \div w.config.batch
RowsOf(w)  == IF w.next + w.config.batch <= NumRows
              THEN w.config.batch ELSE NumRows - w.next
IsFull(w)  == RowsOf(w) = w.config.batch
\* Mutant of Exhausted: the rows left in the buffer at the end are dropped.
DropsTail(w) == w.next + w.config.batch > NumRows
Exhausted(w) == w.next >= NumRows
AtRow(w)   == w.step = "stream" \/ (w.step = "ready" /\ ~Exhausted(w))
CancelRequested == status \in {"canceling", "canceled"}

\* getRunRow: a settled run is left alone, a canceled one is finalized, and any
\* other one gets an AbortController and is executed from its cursor.
FetchRun ==
  /\ proc # "down"
  /\ worker.step = "fetch"
  /\ IF status \in Terminal
     THEN /\ worker' = [worker EXCEPT !.step = "ack"]
          /\ UNCHANGED controller
     ELSE IF status = "canceling"
     THEN /\ worker' = [worker EXCEPT !.step = "finalize", !.outcome = "canceled"]
          /\ UNCHANGED controller
     ELSE /\ worker' = [worker EXCEPT !.step = "mark", !.next = cursor,
                                      !.config = config]
          /\ controller' = "live"
  /\ UNCHANGED <<rowVars, queueVars, proc, call, histVars>>

\* markRunning writes the status whatever it is by now.
MarkRunning ==
  /\ proc # "down"
  /\ worker.step = "mark"
  /\ status' = "running"
  /\ worker' = [worker EXCEPT !.step = "open"]
  /\ UNCHANGED <<cursor, config, counters, ledger, queueVars, proc, controller,
                 call, histVars>>

\* resolvePk and settledSequences.
OpenStream ==
  /\ proc # "down"
  /\ worker.step = "open"
  /\ worker' = [worker EXCEPT !.step = "stream", !.polled = FALSE,
                              !.done = SettledSequences(ledger)]
  /\ UNCHANGED <<rowVars, queueVars, proc, controller, call, histVars>>

\* resolvePk throws: execute has not entered its try block, so process rejects,
\* BullMQ fails the job (attempts: 1), and nobody finalizes the run.
OpenFails ==
  /\ "open" \in Faults
  /\ proc # "down"
  /\ worker.step = "open"
  /\ job' = "failed"
  /\ controller' = "none"
  /\ worker' = IdleWorker
  /\ UNCHANGED <<rowVars, stalls, proc, call, histVars>>

Finalizing(result) ==
  worker' = [worker EXCEPT !.step = "finalize", !.outcome = result]

\* stopRequested, which runs before every row of a batch and once more at the
\* end of the stream, sees the abort signal.
StopOnAbort ==
  /\ proc # "down"
  /\ AtRow(worker)
  /\ controller = "aborted"
  /\ Finalizing("canceled")
  /\ UNCHANGED <<rowVars, queueVars, proc, controller, call, histVars>>

\* stopRequested reads the database: a cancel ends the run, new skips are noted.
PollControl ==
  /\ proc # "down"
  /\ AtRow(worker)
  /\ controller # "aborted"
  /\ IF CancelRequested
     THEN Finalizing("canceled")
     ELSE worker' = [worker EXCEPT !.step = "ready", !.polled = TRUE,
                       !.done = @ \union SkippedSequences(ledger)]
  /\ UNCHANGED <<rowVars, queueVars, proc, controller, call, histVars>>

\* Within 750 ms of the last poll stopRequested answers without reading.
SkipPoll ==
  /\ proc # "down"
  /\ worker.step = "stream"
  /\ controller # "aborted"
  /\ worker.polled
  /\ worker' = [worker EXCEPT !.step = "ready"]
  /\ UNCHANGED <<rowVars, queueVars, proc, controller, call, histVars>>

\* Mutant of StreamFails: every error is taken for a cancel.
ErrorIsCancel ==
  /\ "stream" \in Faults
  /\ proc # "down"
  /\ worker.step = "stream"
  /\ Finalizing("canceled")
  /\ UNCHANGED <<rowVars, queueVars, proc, controller, call, histVars>>

\* The source fails while a page is read: the catch block of execute.
StreamFails ==
  /\ "stream" \in Faults
  /\ proc # "down"
  /\ worker.step = "stream"
  /\ Finalizing(IF controller = "aborted" \/ CancelRequested
                THEN "canceled" ELSE "failed")
  /\ UNCHANGED <<rowVars, queueVars, proc, controller, call, histVars>>

\* Mutant of Flush: the cursor is checkpointed before the batch is sent.
CheckpointFirst ==
  /\ proc # "down"
  /\ worker.step = "ready"
  /\ ~Exhausted(worker)
  /\ cursor' = worker.next + RowsOf(worker)
  /\ worker' = [worker EXCEPT !.outcome = "none", !.step = "deliver"]
  /\ UNCHANGED <<status, config, counters, ledger, queueVars, proc, controller,
                 call, histVars>>

\* The batch is gathered.  flush sends nothing for a sequence in the done set.
Flush ==
  /\ proc # "down"
  /\ worker.step = "ready"
  /\ ~Exhausted(worker)
  /\ worker' = [worker EXCEPT !.outcome = "none",
                  !.step = IF SeqOf(worker) \in worker.done THEN "advance" ELSE "deliver"]
  /\ UNCHANGED <<rowVars, queueVars, proc, controller, call, histVars>>

\* sink.deliver resolves with an outcome; only the run's abort makes it throw.
Deliver ==
  /\ proc # "down"
  /\ worker.step = "deliver"
  /\ \/ \E result \in Outcome :
          worker' = [worker EXCEPT !.step = "read", !.outcome = result]
     \/ /\ controller = "aborted"
        /\ Finalizing("canceled")
  /\ UNCHANGED <<rowVars, queueVars, proc, controller, call, histVars>>

\* recordDelivery's read of the existing row, outside its transaction.
ReadExisting ==
  /\ proc # "down"
  /\ worker.step = "read"
  /\ worker' = [worker EXCEPT !.step = "record", !.seen = ledger[SeqOf(worker)]]
  /\ UNCHANGED <<rowVars, queueVars, proc, controller, call, histVars>>

\* recordDelivery's transaction.
RecordDelivery ==
  /\ proc # "down"
  /\ worker.step = "record"
  /\ ledger' = Upsert(ledger, SeqOf(worker), worker.next, RowsOf(worker),
                       worker.outcome)
  /\ counters' = MoveCounters(counters, worker.seen, RowsOf(worker), worker.outcome)
  /\ worker' = [worker EXCEPT !.step = "advance"]
  /\ UNCHANGED <<status, cursor, config, queueVars, proc, controller, call, histVars>>

\* After a full batch the cursor moves past it, whatever its outcome; the short
\* last batch leaves the cursor.  onError = abort then ends the run as failed.
Advance ==
  /\ proc # "down"
  /\ worker.step = "advance"
  /\ cursor' = IF IsFull(worker) THEN worker.next + worker.config.batch ELSE cursor
  /\ LET moved == [worker EXCEPT !.next = @ + RowsOf(worker)]
         stop  == worker.outcome = "failed" /\ worker.config.onError = "abort"
     IN  worker' = IF stop
                   THEN [moved EXCEPT !.step = "finalize", !.outcome = "failed"]
                   ELSE [moved EXCEPT !.step = "stream"]
  /\ UNCHANGED <<status, config, counters, ledger, queueVars, proc, controller,
                 call, histVars>>

\* No row is left and the last stopRequested said no.
Finish ==
  /\ proc # "down"
  /\ worker.step = "ready"
  /\ Exhausted(worker)
  /\ Finalizing("completed")
  /\ UNCHANGED <<rowVars, queueVars, proc, controller, call, histVars>>

\* finalize writes the status whatever it is by now; process releases the controller.
Finalize ==
  /\ proc # "down"
  /\ worker.step = "finalize"
  /\ status' = worker.outcome
  /\ controller' = "none"
  /\ worker' = [worker EXCEPT !.step = "ack"]
  /\ UNCHANGED <<cursor, config, counters, ledger, queueVars, proc, call, histVars>>

\* BullMQ completes the job and removes it (removeOnComplete).
AckJob ==
  /\ proc # "down"
  /\ worker.step = "ack"
  /\ job' = "none"
  /\ stalls' = 0
  /\ worker' = IdleWorker
  /\ UNCHANGED <<rowVars, proc, controller, call, histVars>>

WorkerNext ==
  \/ TakeJob \/ FetchRun \/ MarkRunning \/ OpenStream \/ OpenFails
  \/ StopOnAbort \/ PollControl \/ SkipPoll \/ StreamFails \/ Flush \/ Deliver
  \/ ReadExisting \/ RecordDelivery \/ Advance \/ Finish \/ Finalize \/ AckJob
------------------------------------------------------------------------------
(***************************************************************************)
(* The API calls of HookRunService (and HookWatchService.stop, which the    *)
(* stop endpoint and the removal of a hook apply to any run).  A call reads *)
(* the row, decides, and writes later, unconditionally.                     *)
(***************************************************************************)
\* A call begins: it takes what it read along, the batch size included.
Begin(c, step, seqs) ==
  /\ proc = "up"
  /\ call[c].step = "idle"
  /\ made < MaxCalls
  /\ call' = [call EXCEPT ![c] =
       [IdleCall EXCEPT !.step = step, !.config = config, !.seqs = seqs]]
  /\ made' = made + 1
  /\ UNCHANGED <<rowVars, queueVars, proc, controller, worker, cancelAsked, crashes>>

\* start of the prepared draft.
AskStart(c) == "start" \in Ops /\ status = "draft" /\ Begin(c, "start", {})

\* resume, which start calls too when the hook's latest run was cut short.
AskResume(c) == "resume" \in Ops /\ status \in Resumable /\ Begin(c, "resume", {})

AskRetry(c) ==
  /\ "retry" \in Ops
  /\ status \in Terminal
  /\ FailedSequences(ledger) # {}
  /\ Begin(c, "retry", {})

AskCancel(c) == "cancel" \in Ops /\ status \notin Terminal /\ Begin(c, "cancel", {})

\* Sequences recorded already are left out; with none left the call returns.
AskSkip(c) ==
  /\ "skip" \in Ops
  /\ \E S \in SUBSET {s \in Seqs : ~Recorded(ledger, s)} \ {{}} : Begin(c, "skip", S)

AskResend(c) ==
  /\ "resend" \in Ops
  /\ status \notin Active
  /\ FailedSequences(ledger) # {}
  /\ Begin(c, "deliver", FailedSequences(ledger))

AskStop(c) == "stop" \in Ops /\ status \in Active /\ Begin(c, "stop", {})

Ask(c) ==
  \/ AskStart(c) \/ AskResume(c) \/ AskRetry(c) \/ AskCancel(c)
  \/ AskSkip(c) \/ AskResend(c) \/ AskStop(c)

Done(c) == call' = [call EXCEPT ![c] = IdleCall]

\* The run goes back to queued.
Requeued(c) ==
  /\ status' = "queued"
  /\ call' = [call EXCEPT ![c].step = "enqueue"]
  /\ UNCHANGED <<counters, ledger, queueVars, proc, controller, worker, histVars>>

\* A started draft keeps the configuration it was prepared with.
StartDraft(c) ==
  /\ proc # "down"
  /\ call[c].step = "start"
  /\ Requeued(c)
  /\ UNCHANGED <<cursor, config>>

\* A resumed run goes on from its cursor with the hook's current configuration.
Resume(c) ==
  /\ proc # "down"
  /\ call[c].step = "resume"
  /\ config' \in Configs
  /\ Requeued(c)
  /\ UNCHANGED cursor

\* retryFailed: from the top, with the hook's current configuration.
RetryFailed(c) ==
  /\ proc # "down"
  /\ call[c].step = "retry"
  /\ config' \in Configs
  /\ cursor' = 0
  /\ Requeued(c)

Requeue(c) == StartDraft(c) \/ Resume(c) \/ RetryFailed(c)

Enqueue(c) ==
  /\ proc # "down"
  /\ call[c].step = "enqueue"
  /\ AddJob
  /\ Done(c)
  /\ UNCHANGED <<rowVars, proc, controller, worker, histVars>>

\* Redis goes away between the update and the add: the call reports an error.
EnqueueFails(c) ==
  /\ "enqueue" \in Faults
  /\ proc # "down"
  /\ call[c].step = "enqueue"
  /\ Done(c)
  /\ UNCHANGED <<rowVars, queueVars, proc, controller, worker, histVars>>

CancelRun(c) ==
  /\ proc # "down"
  /\ call[c].step = "cancel"
  /\ status' = "canceling"
  /\ cancelAsked' = TRUE
  /\ call' = [call EXCEPT ![c].step = "abort"]
  /\ UNCHANGED <<cursor, config, counters, ledger, queueVars, proc, controller,
                 worker, made, crashes>>

\* registry.abort, then queue.remove, which a job locked by a worker refuses.
AbortAndRemove(c) ==
  /\ proc # "down"
  /\ call[c].step = "abort"
  /\ controller' = IF controller = "live" THEN "aborted" ELSE controller
  /\ job' = IF job = "active" THEN job ELSE "none"
  /\ stalls' = IF job = "active" THEN stalls ELSE 0
  /\ Done(c)
  /\ UNCHANGED <<rowVars, proc, worker, histVars>>

\* Mutant of SkipDeliveries: the unique key is not there to roll it back.
SkipOverwrites(c) ==
  /\ proc # "down"
  /\ call[c].step = "skip"
  /\ ledger' = SkipEntries(ledger, call[c].seqs, NumRows, call[c].config.batch)
  /\ counters' = AddSkipped(counters, call[c].seqs, NumRows, call[c].config.batch)
  /\ Done(c)
  /\ UNCHANGED <<status, cursor, config, queueVars, proc, controller, worker, histVars>>

\* One transaction: it is rolled back if a sequence was recorded meanwhile, for
\* (runId, sequence) is unique.
SkipDeliveries(c) ==
  /\ proc # "down"
  /\ call[c].step = "skip"
  /\ IF \A s \in call[c].seqs : ~Recorded(ledger, s)
     THEN LET batch == call[c].config.batch
          IN  /\ ledger' = SkipEntries(ledger, call[c].seqs, NumRows, batch)
              /\ counters' = AddSkipped(counters, call[c].seqs, NumRows, batch)
     ELSE UNCHANGED <<ledger, counters>>
  /\ Done(c)
  /\ UNCHANGED <<status, cursor, config, queueVars, proc, controller, worker, histVars>>

\* HookWatchService.stop: the hook's active run becomes paused.
StopRun(c) ==
  /\ proc # "down"
  /\ call[c].step = "stop"
  /\ status' = "paused"
  /\ Done(c)
  /\ UNCHANGED <<cursor, config, counters, ledger, queueVars, proc, controller,
                 worker, histVars>>

\* resendFailed sends the captured failures again, in order, one by one.
First(S) == {s \in S : \A t \in S : s <= t}

ResendDeliver(c) ==
  /\ proc # "down"
  /\ call[c].step = "deliver"
  /\ \E result \in Outcome :
       call' = [call EXCEPT ![c] = [@ EXCEPT !.step = "read", !.outcome = result]]
  /\ UNCHANGED <<rowVars, queueVars, proc, controller, worker, histVars>>

ResendReadExisting(c) ==
  /\ proc # "down"
  /\ call[c].step = "read"
  /\ \E s \in First(call[c].seqs) :
       call' = [call EXCEPT ![c] = [@ EXCEPT !.step = "record", !.seen = ledger[s]]]
  /\ UNCHANGED <<rowVars, queueVars, proc, controller, worker, histVars>>

ResendRecord(c) ==
  /\ proc # "down"
  /\ call[c].step = "record"
  /\ \E s \in First(call[c].seqs) :
       LET d    == ledger[s]
           left == call[c].seqs \ {s}
       IN  /\ ledger' = Upsert(ledger, s, d.rowIndex, d.rowCount, call[c].outcome)
           /\ counters' = MoveCounters(counters, call[c].seen, d.rowCount,
                                       call[c].outcome)
           /\ call' = [call EXCEPT ![c] =
                IF left = {} THEN IdleCall
                ELSE [@ EXCEPT !.step = "deliver", !.seqs = left]]
  /\ UNCHANGED <<status, cursor, config, queueVars, proc, controller, worker, histVars>>

CallerNext(c) ==
  \/ Ask(c) \/ Requeue(c) \/ Enqueue(c) \/ EnqueueFails(c) \/ CancelRun(c)
  \/ AbortAndRemove(c) \/ SkipDeliveries(c) \/ StopRun(c)
  \/ ResendDeliver(c) \/ ResendReadExisting(c) \/ ResendRecord(c)
------------------------------------------------------------------------------
(***************************************************************************)
(* The process: crash, orderly shutdown, boot and recovery.                 *)
(***************************************************************************)

\* Everything in memory is lost; the database and Redis are not.
Crash ==
  /\ proc # "down"
  /\ crashes < MaxCrashes
  /\ crashes' = crashes + 1
  /\ proc' = "down"
  /\ controller' = "none"
  /\ worker' = IdleWorker
  /\ call' = [c \in Callers |-> IdleCall]
  /\ UNCHANGED <<rowVars, queueVars, cancelAsked, made>>

\* SIGTERM: RunRegistryService.onModuleDestroy aborts every controller, and the
\* process lives on until its worker is done (or it is killed: Crash).
Shutdown ==
  /\ "shutdown" \in Faults
  /\ proc = "up"
  /\ crashes < MaxCrashes
  /\ proc' = "stopping"
  /\ controller' = IF controller = "live" THEN "aborted" ELSE controller
  /\ UNCHANGED <<rowVars, queueVars, worker, call, histVars>>

Boot ==
  /\ proc = "down"
  /\ proc' = "booting"
  /\ UNCHANGED <<rowVars, queueVars, controller, worker, call, histVars>>

\* Mutant of RecoverRun: only the running runs are recovered.
RecoversRunning ==
  /\ proc = "booting"
  /\ proc' = IF status = "running" THEN "recovering" ELSE "up"
  /\ UNCHANGED <<rowVars, queueVars, controller, worker, call, histVars>>

\* onModuleInit: a run still active has a lingering failed job cleared ...
RecoverRun ==
  /\ proc = "booting"
  /\ IF status \in Active
     THEN /\ proc' = "recovering"
          /\ job' = IF job = "failed" THEN "none" ELSE job
          /\ stalls' = IF job = "failed" THEN 0 ELSE stalls
     ELSE proc' = "up" /\ UNCHANGED queueVars
  /\ UNCHANGED <<rowVars, controller, worker, call, histVars>>

\* ... and is enqueued again.
RecoverEnqueue ==
  /\ proc = "recovering"
  /\ AddJob
  /\ proc' = "up"
  /\ UNCHANGED <<rowVars, controller, worker, call, histVars>>

ProcessNext == Crash \/ Shutdown \/ Boot \/ RecoverRun \/ RecoverEnqueue
------------------------------------------------------------------------------
Next ==
  \/ WorkerNext
  \/ StalledCheck
  \/ ProcessNext
  \/ \E c \in Callers : CallerNext(c)

Spec == Init /\ [][Next]_vars

(***************************************************************************)
(* A worker, the stalled check, the boot and a request under way go on; no  *)
(* user has to call, and nothing has to crash or fail.                      *)
(***************************************************************************)
CallerGoesOn(c) ==
  \/ Requeue(c) \/ Enqueue(c) \/ CancelRun(c) \/ AbortAndRemove(c)
  \/ SkipDeliveries(c) \/ StopRun(c) \/ ResendDeliver(c)
  \/ ResendReadExisting(c) \/ ResendRecord(c)

Fairness ==
  /\ WF_vars(WorkerNext)
  /\ WF_vars(StalledCheck)
  /\ WF_vars(Boot \/ RecoverRun \/ RecoverEnqueue)
  /\ WF_vars(proc = "stopping" /\ Crash)
  /\ \A c \in Callers : WF_vars(CallerGoesOn(c))

FairSpec == Spec /\ Fairness
------------------------------------------------------------------------------
(***************************************************************************)
(* Properties.                                                              *)
(***************************************************************************)

\* Resumability: every source row before the checkpointed cursor is accounted
\* for by a delivery, so resuming from the cursor drops none of them.
CursorCovered == \A r \in 0 .. cursor - 1 : Covered(ledger, r)

\* A run is announced completed only when each row of the source was delivered,
\* skipped, or is there as a failure the user can retry.
CompletedCovered ==
  status = "completed" => \A r \in 0 .. NumRows - 1 : Covered(ledger, r)

\* The skip-set of execute: the worker never delivers a batch again that the
\* ledger holds as delivered, through crashes, recoveries, resumes and retries.
NoRedelivery ==
  worker.step = "deliver" => ledger[SeqOf(worker)].status # "success"

\* A delivered (green) cell never turns red, amber or blank again.
SuccessIsFinal ==
  [][\A s \in Seqs : ledger[s].status = "success" =>
                        ledger'[s].status = "success"]_vars

\* recordDelivery's delta keeps sentCount and failedCount equal to the rows of
\* the delivered and of the failed cells, whatever was retried in between.
CountersExact ==
  \A k \in Outcome : counters[k] = RowsWithStatus(ledger, k)

\* The same of skippedCount.
SkippedCountExact == counters["skipped"] = RowsWithStatus(ledger, "skipped")

\* A run ends up canceled only when somebody asked to cancel it.
CanceledIsAsked == status = "canceled" => cancelAsked

\* "The run's lifecycle is the job's lifecycle": once no request and no boot is
\* under way, an active run has a job that will be executed.
ActiveHasJob ==
  (/\ status \in Active
   /\ proc = "up"
   /\ \A c \in Callers : call[c].step = "idle")
    => job \in {"waiting", "active"}

\* Every run that is queued, running or canceling comes to rest.
ActiveSettles == status \in Active ~> status \notin Active

\* A cancel that was written is not undone by the worker starting the run.
CancelSticks == [][status = "canceling" => status' # "running"]_vars

\* A canceled run comes to rest.
CancelSettles == status = "canceling" ~> status # "canceling"

(***************************************************************************)
(* With one batch size the batches of the source are fixed, and the run     *)
(* implements what a replay promises.                                       *)
(***************************************************************************)
Batches == {s \in Seqs : s * AnyConfig.batch < NumRows}

\* What the user sees of the run: the outcome of each batch, and the announcement.
Outcomes == [b \in Batches |-> IF ledger[b].status = "none"
                              THEN "pending" ELSE ledger[b].status]
Announced == status = "completed"

Contract == INSTANCE ReplayContract WITH outcome <- Outcomes, announced <- Announced

\* Whatever crashes, recoveries, resumes, skips and retries interleave, the user
\* sees a run that keeps the contract of ReplayContract.
KeepsContract == Contract!Spec
==============================================================================
