------------------------------ MODULE WatchRun -------------------------------
(***************************************************************************)
(* One watch hook (HookWatchService): its runs, the scheduler that fires    *)
(* polls, the poll, the API calls that start, stop and edit the hook while  *)
(* polls go on, the users of the source, and crashes of the process.        *)
(*                                                                         *)
(* Every await of the code is a step boundary.  A delivery of one row to    *)
(* the destination counts whatever its outcome: a poll records it as        *)
(* delivered or failed and goes on to the next row.                         *)
(***************************************************************************)
EXTENDS WatchEngine

CONSTANTS
  Keys,          \* primary keys of source rows
  Hooks,         \* configurations of the hook as users edit it
  Callers,       \* concurrent API requests
  Ops,           \* operations users invoke
  Changes,       \* what happens to the source
  Faults,        \* faults that may happen
  CooldownPolls, \* COOLDOWN_POLLS
  MaxClock,      \* bound: values of the tracked column
  MaxCalls,      \* bound: API calls made
  MaxFaults      \* bound: faults that happen

AllOps     == {"start", "stop", "edit"}
AllChanges == {"insert", "tie", "late", "null", "update"}
AllFaults  == {"source", "store", "request", "crash"}

Trigger == [strategy : Strategies, from : {"beginning", "now"}, max : Nat \ {0}]
Hook    == [enabled : BOOLEAN, trigger : Trigger]

ASSUME HooksAssumption == Hooks # {} /\ Hooks \subseteq Hook
ASSUME ChoicesAssumption ==
  Ops \subseteq AllOps /\ Changes \subseteq AllChanges /\ Faults \subseteq AllFaults
ASSUME BoundsAssumption ==
  {CooldownPolls, MaxClock, MaxCalls, MaxFaults} \subseteq Nat

VARIABLES
  table,      \* the source: the tracked value of each row, by key
  clock,      \* the greatest tracked value handed out
  hook,       \* the hooks row
  runs,       \* the hook_runs rows of the hook, oldest first
  ledger,     \* their hook_deliveries
  scheduler,  \* the BullMQ job scheduler: none, or its cadence
  fire,       \* a poll job waits in the queue
  proc,       \* the API process, which also hosts the worker
  cadence,    \* scheduledEvery: what the process knows of the scheduler
  streak,     \* emptyStreak
  poll,       \* local state of the poll; `polling` holds the hook unless idle
  call,       \* each API request's local state
  sent,       \* history: the deliveries made to the destination
  baseline,   \* history: the rows there when a start from now looked first
  meanwhile,  \* history: the rows that came while such a start was looking
  made, faults   \* calls made and faults so far, for the bounds

sourceVars == <<table, clock>>
storeVars  == <<hook, runs, ledger>>
queueVars  == <<scheduler, fire>>
procVars   == <<proc, cadence, streak>>
histVars   == <<sent, baseline, meanwhile>>
boundVars  == <<made, faults>>
vars == <<sourceVars, storeVars, queueVars, procVars, poll, call, histVars, boundVars>>

Row      == [key : Keys, at : Nat]
Delivery == [run : Nat, seq : Nat, row : Row]
Run      == [status : {"running", "paused", "canceled"}, cursor : Cursor(Keys), offset : Nat]
Cadence  == {"none", "fast", "idle"}

PollSteps == {"idle", "retire", "resolve", "reject", "query", "deliver", "record",
              "checkpoint", "advance", "adapt"}
CallSteps == {"idle", "check", "latest", "resume", "seed", "boundary", "write",
              "schedule", "find", "pause", "edit"}

PollState == [step : PollSteps, run : Nat, seq : Nat, trigger : Trigger,
              cursor : Cursor(Keys), page : Seq(Row), flowing : BOOLEAN]
CallState == [step : CallSteps, op : Ops \union {"none"}, run : Nat, trigger : Trigger,
              cursor : Cursor(Keys), old : SUBSET Row, new : SUBSET Row,
              live : BOOLEAN]

TypeOK ==
  /\ DOMAIN table \subseteq Keys
  /\ \A k \in DOMAIN table : table[k] \in 0 .. clock
  /\ clock \in 0 .. MaxClock
  /\ hook \in Hooks
  /\ runs \in Seq(Run)
  /\ ledger \subseteq Delivery
  /\ scheduler \in Cadence
  /\ fire \in BOOLEAN
  /\ proc \in {"down", "up"}
  /\ cadence \in Cadence
  /\ streak \in 0 .. CooldownPolls
  /\ poll \in PollState
  /\ poll.step \notin {"idle", "retire"} => poll.run \in DOMAIN runs
  /\ call \in [Callers -> CallState]
  /\ sent \subseteq Delivery
  /\ baseline \subseteq Row
  /\ meanwhile \subseteq Row
  /\ made \in 0 .. MaxCalls
  /\ faults \in 0 .. MaxFaults

AnyTrigger == (CHOOSE h \in Hooks : TRUE).trigger
NoCursor   == EmptyCursor("snapshot")
IdlePoll   == [step |-> "idle", run |-> 0, seq |-> 0, trigger |-> AnyTrigger,
               cursor |-> NoCursor, page |-> <<>>, flowing |-> FALSE]
IdleCall   == [step |-> "idle", op |-> "none", run |-> 0, trigger |-> AnyTrigger,
               cursor |-> NoCursor, old |-> {}, new |-> {}, live |-> FALSE]

\* A watch hook just created over an empty table: prepare() makes it no draft.
Init ==
  /\ table = <<>>
  /\ clock = 0
  /\ hook \in Hooks
  /\ runs = <<>>
  /\ ledger = {}
  /\ scheduler = "none"
  /\ fire = FALSE
  /\ proc = "up"
  /\ cadence = "none"
  /\ streak = 0
  /\ poll = IdlePoll
  /\ call = [c \in Callers |-> IdleCall]
  /\ sent = {}
  /\ baseline = {}
  /\ meanwhile = {}
  /\ made = 0
  /\ faults = 0

Running   == {i \in DOMAIN runs : runs[i].status = "running"}
Listening == Running # {}
Rows      == {[key |-> k, at |-> table[k]] : k \in DOMAIN table}
SentRows  == {d.row : d \in sent}
------------------------------------------------------------------------------
(***************************************************************************)
(* The users of the source.                                                 *)
(***************************************************************************)
Put(k, at) ==
  /\ table' = [x \in DOMAIN table \union {k} |-> IF x = k THEN at ELSE table[x]]
  /\ UNCHANGED <<storeVars, queueVars, procVars, poll, call, histVars, boundVars>>

Fresh == Keys \ DOMAIN table

\* The column increases with every insert ...
Insert == /\ "insert" \in Changes /\ clock < MaxClock
          /\ clock' = clock + 1
          /\ \E k \in Fresh : Put(k, clock + 1)

\* ... two rows get the same timestamp, which ids and sequences do not ...
InsertTie == /\ "tie" \in Changes /\ clock > 0
             /\ hook.trigger.strategy # "increment"
             /\ UNCHANGED clock
             /\ \E k \in Fresh : Put(k, clock)

\* ... a transaction takes the next value, and commits its row after later ones ...
TakeValue == /\ "late" \in Changes /\ clock < MaxClock
             /\ clock' = clock + 1
             /\ UNCHANGED <<table, storeVars, queueVars, procVars, poll, call, histVars,
                            boundVars>>

InsertLate == /\ "late" \in Changes
              /\ UNCHANGED clock
              /\ \E k \in Fresh, at \in (1 .. clock) \ Range(table) : Put(k, at)

InsertNull == /\ "null" \in Changes
              /\ UNCHANGED clock
              /\ \E k \in Fresh : Put(k, Null)

\* ... or a row is updated, and its updated_at with it.
Update == /\ "update" \in Changes /\ clock < MaxClock
          /\ clock' = clock + 1
          /\ \E k \in DOMAIN table : Put(k, clock + 1)

SourceNext == Insert \/ InsertTie \/ TakeValue \/ InsertLate \/ InsertNull \/ Update
------------------------------------------------------------------------------
(***************************************************************************)
(* The queue and the poll: HookWatchService.poll, runPoll and adapt.        *)
(***************************************************************************)

\* The scheduler's next job is due.
Fire ==
  /\ scheduler # "none"
  /\ ~fire
  /\ fire' = TRUE
  /\ UNCHANGED <<sourceVars, storeVars, scheduler, procVars, poll, call, histVars,
                 boundVars>>

\* A worker takes the job while an earlier poll is still under way: skipped.
SkipOverlap ==
  /\ proc = "up" /\ fire
  /\ poll.step # "idle"
  /\ fire' = FALSE
  /\ UNCHANGED <<sourceVars, storeVars, scheduler, procVars, poll, call, histVars,
                 boundVars>>

\* Mutant of BeginPoll: a poll with nothing to do leaves the scheduler alone.
PollNothing ==
  /\ proc = "up" /\ fire
  /\ poll.step = "idle"
  /\ fire' = FALSE
  /\ poll' = IF Listening
             THEN LET i == Max(Running)
                  IN  [poll EXCEPT !.step = "resolve", !.run = i,
                         !.cursor = runs[i].cursor, !.seq = runs[i].offset]
             ELSE poll
  /\ UNCHANGED <<sourceVars, storeVars, scheduler, procVars, call, histVars, boundVars>>

\* The poll looks for the newest running run.
BeginPoll ==
  /\ proc = "up" /\ fire
  /\ poll.step = "idle"
  /\ fire' = FALSE
  /\ poll' = IF Listening
             THEN LET i == Max(Running)
                  IN  [poll EXCEPT !.step = "resolve", !.run = i,
                         !.cursor = runs[i].cursor, !.seq = runs[i].offset]
             ELSE [poll EXCEPT !.step = "retire"]
  /\ UNCHANGED <<sourceVars, storeVars, scheduler, procVars, call, histVars, boundVars>>

\* The process forgets the cadence, and the scheduler is removed from the queue.
Unscheduled == scheduler' = "none" /\ cadence' = "none" /\ streak' = 0

\* Nothing was listening when the poll looked, or it has just canceled the run.
Retire ==
  /\ poll.step = "retire"
  /\ Unscheduled
  /\ poll' = IdlePoll
  /\ UNCHANGED <<sourceVars, storeVars, fire, proc, call, histVars, boundVars>>

\* The poll goes on with the hook's current configuration.
ResolveHook ==
  /\ poll.step = "resolve"
  /\ poll' = IF hook.enabled
             THEN [poll EXCEPT !.step = "query", !.trigger = hook.trigger]
             ELSE [poll EXCEPT !.step = "reject"]
  /\ UNCHANGED <<sourceVars, storeVars, queueVars, procVars, call, histVars, boundVars>>

\* Mutant of RejectRun: it ends as failed.
RejectFails ==
  /\ poll.step = "reject"
  /\ runs' = [runs EXCEPT ![poll.run].status = "failed"]
  /\ poll' = [poll EXCEPT !.step = "retire"]
  /\ UNCHANGED <<sourceVars, hook, ledger, queueVars, procVars, call, histVars,
                 boundVars>>

\* The run of a disabled hook is canceled.
RejectRun ==
  /\ poll.step = "reject"
  /\ runs' = [runs EXCEPT ![poll.run].status = "canceled"]
  /\ poll' = [poll EXCEPT !.step = "retire"]
  /\ UNCHANGED <<sourceVars, hook, ledger, queueVars, procVars, call, histVars,
                 boundVars>>

\* The source answers with a page; what follows works on the rows as read here.
QueryPage ==
  /\ poll.step = "query"
  /\ \E page \in Pages(table, poll.trigger, poll.cursor) :
       LET new == NewRows(poll.trigger, poll.cursor, page)
       IN  poll' = [poll EXCEPT
             !.step    = IF new = <<>> THEN "advance" ELSE "deliver",
             !.page    = [i \in DOMAIN new |-> [key |-> new[i], at |-> table[new[i]]]],
             !.flowing = new # <<>>,
             !.cursor  = NextCursor(table, poll.trigger, poll.cursor, page)]
  /\ UNCHANGED <<sourceVars, storeVars, queueVars, procVars, call, histVars, boundVars>>

Fails(fault) ==
  /\ fault \in Faults
  /\ faults < MaxFaults
  /\ faults' = faults + 1
  /\ UNCHANGED made

\* The source or the database of the server fails: the poll ends there, and the
\* next one starts over from the cursor.
PollFails ==
  /\ \/ poll.step = "query" /\ Fails("source")
     \/ poll.step \in {"resolve", "reject", "record", "checkpoint", "advance"}
        /\ Fails("store")
  /\ poll' = IdlePoll
  /\ UNCHANGED <<sourceVars, storeVars, queueVars, procVars, call, histVars>>

\* The first row left goes to the destination, under the run's next sequence,
\* which is its idempotency key.
DeliverRow ==
  /\ poll.step = "deliver"
  /\ sent' = sent \union {[run |-> poll.run, seq |-> poll.seq, row |-> Head(poll.page)]}
  /\ poll' = [poll EXCEPT !.step = "record"]
  /\ UNCHANGED <<sourceVars, storeVars, queueVars, procVars, call, baseline, meanwhile,
                 boundVars>>

\* Mutant of RecordRow: an upsert by run.
RecordsByRun ==
  /\ poll.step = "record"
  /\ ledger' = {d \in ledger : d.run # poll.run}
       \union {[run |-> poll.run, seq |-> poll.seq, row |-> Head(poll.page)]}
  /\ poll' = [poll EXCEPT !.step = "checkpoint"]
  /\ UNCHANGED <<sourceVars, hook, runs, queueVars, procVars, call, histVars, boundVars>>

\* recordDelivery: an upsert by run and sequence.
RecordRow ==
  /\ poll.step = "record"
  /\ ledger' = {d \in ledger : d.run # poll.run \/ d.seq # poll.seq}
       \union {[run |-> poll.run, seq |-> poll.seq, row |-> Head(poll.page)]}
  /\ poll' = [poll EXCEPT !.step = "checkpoint"]
  /\ UNCHANGED <<sourceVars, hook, runs, queueVars, procVars, call, histVars, boundVars>>

\* Mutants of CheckpointRow: the cursor is saved along ...
SavesCursorEarly ==
  /\ poll.step = "checkpoint"
  /\ runs' = [runs EXCEPT ![poll.run].cursor = poll.cursor,
                          ![poll.run].offset = poll.seq + 1]
  /\ poll' = [poll EXCEPT !.seq = @ + 1, !.page = Tail(@),
                !.step = IF Len(poll.page) = 1 THEN "advance" ELSE "deliver"]
  /\ UNCHANGED <<sourceVars, hook, ledger, queueVars, procVars, call, histVars,
                 boundVars>>

\* ... or the poll keeps the sequence it has just used.
KeepsSequence ==
  /\ poll.step = "checkpoint"
  /\ runs' = [runs EXCEPT ![poll.run].offset = poll.seq + 1]
  /\ poll' = [poll EXCEPT !.page = Tail(@),
                !.step = IF Len(poll.page) = 1 THEN "advance" ELSE "deliver"]
  /\ UNCHANGED <<sourceVars, hook, ledger, queueVars, procVars, call, histVars,
                 boundVars>>

\* The next sequence is saved after every row.
CheckpointRow ==
  /\ poll.step = "checkpoint"
  /\ runs' = [runs EXCEPT ![poll.run].offset = poll.seq + 1]
  /\ poll' = [poll EXCEPT !.seq = @ + 1, !.page = Tail(@),
                !.step = IF Len(poll.page) = 1 THEN "advance" ELSE "deliver"]
  /\ UNCHANGED <<sourceVars, hook, ledger, queueVars, procVars, call, histVars,
                 boundVars>>

\* The cursor is saved after the last one, whatever the run's status is by now.
SaveCursor ==
  /\ poll.step = "advance"
  /\ runs' = [runs EXCEPT ![poll.run].cursor = poll.cursor, ![poll.run].offset = poll.seq]
  /\ poll' = [poll EXCEPT !.step = "adapt"]
  /\ UNCHANGED <<sourceVars, hook, ledger, queueVars, procVars, call, histVars,
                 boundVars>>

\* Mutant of Adapt: rows do not end the streak of empty polls.
StreakGoesOn ==
  /\ poll.step = "adapt"
  /\ IF cadence = "none"
     THEN UNCHANGED <<scheduler, cadence, streak>>
     ELSE LET empty   == IF streak < CooldownPolls THEN streak + 1 ELSE streak
              desired == IF empty < CooldownPolls THEN "fast" ELSE "idle"
          IN  /\ streak' = empty
              /\ cadence' = desired
              /\ scheduler' = IF cadence = desired THEN scheduler ELSE desired
  /\ poll' = IdlePoll
  /\ UNCHANGED <<sourceVars, storeVars, fire, proc, call, histVars, boundVars>>

\* adapt: fast while rows flow and a few polls longer.  A watcher stopped
\* meanwhile (nothing is known of its scheduler) is not scheduled again.
Adapt ==
  /\ poll.step = "adapt"
  /\ IF cadence = "none"
     THEN UNCHANGED <<scheduler, cadence, streak>>
     ELSE LET empty   == IF poll.flowing THEN 0
                         ELSE IF streak < CooldownPolls THEN streak + 1 ELSE streak
              desired == IF empty < CooldownPolls THEN "fast" ELSE "idle"
          IN  /\ streak' = empty
              /\ cadence' = desired
              /\ scheduler' = IF cadence = desired THEN scheduler ELSE desired
  /\ poll' = IdlePoll
  /\ UNCHANGED <<sourceVars, storeVars, fire, proc, call, histVars, boundVars>>

PollNext ==
  \/ BeginPoll \/ Retire \/ ResolveHook \/ RejectRun \/ QueryPage
  \/ DeliverRow \/ RecordRow \/ CheckpointRow \/ SaveCursor \/ Adapt
------------------------------------------------------------------------------
(***************************************************************************)
(* The API calls.                                                           *)
(***************************************************************************)
Goto(c, step) == call' = [call EXCEPT ![c].step = step]
Done(c) == call' = [call EXCEPT ![c] = IdleCall]

Asked(c, op) ==
  /\ op \in Ops
  /\ proc = "up"
  /\ call[c].step = "idle"
  /\ made < MaxCalls
  /\ made' = made + 1
  /\ UNCHANGED faults

AskStart(c) ==
  /\ Asked(c, "start")
  /\ call' = [call EXCEPT ![c].step = "check", ![c].op = "start"]
  /\ UNCHANGED <<sourceVars, storeVars, queueVars, procVars, poll, histVars>>

\* stop, and an edit of the hook, which stops it first, begin by unscheduling it.
AskStop(c) ==
  /\ \E op \in {"stop", "edit"} :
       /\ Asked(c, op)
       /\ call' = [call EXCEPT ![c].step = "find", ![c].op = op]
  /\ Unscheduled
  /\ UNCHANGED <<sourceVars, storeVars, fire, proc, poll, histVars>>

\* A start gives up when a run is active; it goes on with the hook it has read.
CheckActive(c) ==
  /\ call[c].step = "check"
  /\ IF Listening THEN Done(c)
     ELSE call' = [call EXCEPT ![c].step = "latest", ![c].trigger = hook.trigger]
  /\ UNCHANGED <<sourceVars, storeVars, queueVars, procVars, poll, histVars, boundVars>>

\* The latest run is resumed if its cursor fits the strategy, and gets a new
\* cursor otherwise; without a run there will be one.
ReadLatest(c) ==
  /\ call[c].step = "latest"
  /\ LET i    == Len(runs)
         fits == i # 0 /\ runs[i].cursor.strategy = call[c].trigger.strategy
     IN  call' = [call EXCEPT ![c].run = i, ![c].step = IF fits THEN "resume" ELSE "seed"]
  /\ UNCHANGED <<sourceVars, storeVars, queueVars, procVars, poll, histVars, boundVars>>

\* Mutant of ResumeRun: the sequence starts over.
ResumesFromZero(c) ==
  /\ call[c].step = "resume"
  /\ runs' = [runs EXCEPT ![call[c].run].status = "running", ![call[c].run].offset = 0]
  /\ Goto(c, "schedule")
  /\ UNCHANGED <<sourceVars, hook, ledger, queueVars, procVars, poll, histVars, boundVars>>

ResumeRun(c) ==
  /\ call[c].step = "resume"
  /\ runs' = [runs EXCEPT ![call[c].run].status = "running"]
  /\ Goto(c, "schedule")
  /\ UNCHANGED <<sourceVars, hook, ledger, queueVars, procVars, poll, histVars, boundVars>>

\* The first row in descending order of the tracked column.
LastAt ==
  IF ~NullsFirst /\ Null \in Range(table) THEN Null ELSE Max(Range(table) \union {Null})

Seeded(c, step, cursor) ==
  call' = [call EXCEPT ![c].step = step, ![c].cursor = cursor,
             ![c].old = IF call[c].trigger.from = "now" THEN Rows ELSE {}]

\* initialCursor: from the beginning, after the newest row, or with the keys of a
\* page remembered.  The timestamp strategy needs a second query.
SeedCursor(c) ==
  LET strategy == call[c].trigger.strategy
      empty    == EmptyCursor(strategy)
  IN  /\ call[c].step = "seed"
      /\ \/ /\ call[c].trigger.from = "beginning"
            /\ Seeded(c, "write", empty)
         \/ /\ call[c].trigger.from = "now"
            /\ strategy # "snapshot"
            /\ Seeded(c, IF strategy = "timestamp" /\ LastAt # Null
                         THEN "boundary" ELSE "write", [empty EXCEPT !.at = LastAt])
         \/ /\ call[c].trigger.from = "now"
            /\ strategy = "snapshot"
            /\ \E page \in Pages(table, call[c].trigger, empty) :
                 Seeded(c, "write", [empty EXCEPT !.seen = page])
      /\ UNCHANGED <<sourceVars, storeVars, queueVars, procVars, poll, histVars, boundVars>>

\* Mutant of SeedBoundary: the rows at that timestamp are not remembered.
NoBoundary(c) ==
  /\ call[c].step = "boundary"
  /\ Goto(c, "write")
  /\ UNCHANGED <<sourceVars, storeVars, queueVars, procVars, poll, histVars, boundVars>>

\* The keys of the rows from that timestamp on.
SeedBoundary(c) ==
  /\ call[c].step = "boundary"
  /\ call' = [call EXCEPT ![c].step = "write", ![c].new = Rows \ call[c].old,
       ![c].cursor.keys = {k \in DOMAIN table : table[k] >= call[c].cursor.at}]
  /\ UNCHANGED <<sourceVars, storeVars, queueVars, procVars, poll, histVars, boundVars>>

\* A run is created, or the latest one is given the new cursor.
WriteRun(c) ==
  /\ call[c].step = "write"
  /\ runs' = IF call[c].run = 0
             THEN Append(runs, [status |-> "running", cursor |-> call[c].cursor,
                                offset |-> 0])
             ELSE [runs EXCEPT ![call[c].run].status = "running",
                               ![call[c].run].cursor = call[c].cursor]
  /\ baseline' = baseline \union call[c].old
  /\ meanwhile' = meanwhile \union call[c].new
  /\ Goto(c, "schedule")
  /\ UNCHANGED <<sourceVars, hook, ledger, queueVars, procVars, poll, sent, boundVars>>

Schedule(c) ==
  /\ call[c].step = "schedule"
  /\ scheduler' = "fast" /\ cadence' = "fast" /\ streak' = 0
  /\ Done(c)
  /\ UNCHANGED <<sourceVars, storeVars, fire, proc, poll, histVars, boundVars>>

\* stop finds the newest active run ...
FindRunning(c) ==
  /\ call[c].step = "find"
  /\ IF Listening
     THEN call' = [call EXCEPT ![c].step = "pause", ![c].run = Max(Running),
                               ![c].live = TRUE]
     ELSE IF call[c].op = "edit" THEN Goto(c, "edit") ELSE Done(c)
  /\ UNCHANGED <<sourceVars, storeVars, queueVars, procVars, poll, histVars, boundVars>>

\* ... and pauses it.
PauseRun(c) ==
  /\ call[c].step = "pause"
  /\ runs' = [runs EXCEPT ![call[c].run].status = "paused"]
  /\ IF call[c].op = "edit" THEN Goto(c, "edit") ELSE Done(c)
  /\ UNCHANGED <<sourceVars, hook, ledger, queueVars, procVars, poll, histVars, boundVars>>

\* The configuration changes, and a hook that was live is started again.
EditHook(c) ==
  /\ call[c].step = "edit"
  /\ \E h \in Hooks :
       /\ hook' = h
       /\ IF call[c].live /\ h.enabled THEN Goto(c, "check") ELSE Done(c)
  /\ UNCHANGED <<sourceVars, runs, ledger, queueVars, procVars, poll, histVars, boundVars>>

\* A service the request needs fails: what it has done so far stays done.  An
\* edit takes a stop that failed for a hook that was not live.
CallFails(c) ==
  /\ call[c].step # "idle"
  /\ Fails("request")
  /\ IF call[c].op = "edit" /\ call[c].step \in {"find", "pause"}
     THEN call' = [call EXCEPT ![c].step = "edit", ![c].live = FALSE]
     ELSE Done(c)
  /\ UNCHANGED <<sourceVars, storeVars, queueVars, procVars, poll, histVars>>

CallGoesOn(c) ==
  \/ CheckActive(c) \/ ReadLatest(c) \/ ResumeRun(c) \/ SeedCursor(c) \/ SeedBoundary(c)
  \/ WriteRun(c) \/ Schedule(c) \/ FindRunning(c) \/ PauseRun(c) \/ EditHook(c)

CallerNext(c) == AskStart(c) \/ AskStop(c) \/ CallGoesOn(c) \/ CallFails(c)
------------------------------------------------------------------------------
(***************************************************************************)
(* The process.                                                             *)
(***************************************************************************)

\* Memory is lost; the poll's job stalls and goes back to the queue.
Crash ==
  /\ proc = "up"
  /\ Fails("crash")
  /\ proc' = "down" /\ cadence' = "none" /\ streak' = 0
  /\ fire' = (fire \/ poll.step # "idle")
  /\ poll' = IdlePoll
  /\ call' = [c \in Callers |-> IdleCall]
  /\ UNCHANGED <<sourceVars, storeVars, scheduler, histVars>>

\* Mutant of Boot: the scheduler is trusted to be there still.
BootOnly ==
  /\ proc = "down"
  /\ proc' = "up"
  /\ UNCHANGED <<sourceVars, storeVars, queueVars, cadence, streak, poll, call, histVars,
                 boundVars>>

\* onModuleInit registers the scheduler of a listening hook, at the idle cadence,
\* and does not note it in scheduledEvery.
Boot ==
  /\ proc = "down"
  /\ proc' = "up"
  /\ scheduler' = IF Listening /\ hook.enabled THEN "idle" ELSE scheduler
  /\ UNCHANGED <<sourceVars, storeVars, fire, cadence, streak, poll, call, histVars,
                 boundVars>>
------------------------------------------------------------------------------
Next ==
  \/ SourceNext \/ Fire \/ SkipOverlap \/ PollNext \/ PollFails \/ Crash \/ Boot
  \/ \E c \in Callers : CallerNext(c)

Spec == Init /\ [][Next]_vars

(***************************************************************************)
(* Due polls fire and are taken, a poll and a request under way go on, and  *)
(* a dead process is started again.  Nobody has to call or to touch the     *)
(* source, and nothing has to fail.                                         *)
(***************************************************************************)
Fairness ==
  /\ WF_vars(Fire)
  /\ WF_vars(PollNext)
  /\ WF_vars(Boot)
  /\ \A c \in Callers : WF_vars(CallGoesOn(c))

FairSpec == Spec /\ Fairness
------------------------------------------------------------------------------
(***************************************************************************)
(* Properties.                                                              *)
(***************************************************************************)

\* A cursor has passed a row that no later poll will look at as a new one.
Passed(cursor, k) ==
  CASE cursor.strategy = "increment" -> table[k] \in 1 .. cursor.at
    [] cursor.strategy = "timestamp" -> \/ table[k] \in 1 .. cursor.at - 1
                                        \/ table[k] # Null /\ k \in cursor.keys
    [] OTHER -> k \in Range(cursor.seen)

\* No row is lost: whatever stops, crashes, failures and edits interleave with
\* the polls, a row a saved cursor has passed was delivered, or was there by the
\* time a start from now had looked.
PassedWasSent ==
  \A i \in DOMAIN runs, k \in DOMAIN table :
    Passed(runs[i].cursor, k) =>
      [key |-> k, at |-> table[k]] \in SentRows \union baseline \union meanwhile

\* Without a crash a row is delivered once, through stops, restarts and polls
\* that overlap them.
SentOnce == \A d, e \in sent : d.row = e.row => d = e

\* A start from now ignores the rows that are there.
NowIgnoresRows == SentRows \cap baseline = {}

\* The pair of run and sequence, the idempotency key of a delivery, stands for
\* one row for good.
KeyNamesRow == \A d, e \in sent : (d.run = e.run /\ d.seq = e.seq) => d.row = e.row

\* A delivered row of the ledger is not overwritten with new data.
RecordStays == [][ledger \subseteq ledger']_vars

\* A listening hook is polled: once no request and no poll is under way, it has
\* a scheduler.
ListeningIsScheduled ==
  (/\ Listening /\ hook.enabled
   /\ proc = "up"
   /\ poll.step = "idle"
   /\ \A c \in Callers : call[c].step = "idle")
    => scheduler # "none"

\* One run per hook: never are two running.
OneListener == Cardinality(Running) <= 1

\* A run that resumes has a cursor of the hook's strategy, unless a request is
\* under way.
CursorFits ==
  (\A c \in Callers : call[c].step = "idle") =>
    \A i \in Running : runs[i].cursor.strategy = hook.trigger.strategy

\* A poll that found rows leaves a scheduled hook polling fast.
FastWhileFlowing ==
  [][(poll.step = "adapt" /\ poll'.step = "idle" /\ poll.flowing /\ proc' = "up")
       => scheduler' # "idle"]_vars

\* Rows are delivered as they show up, if the hook goes on listening.
RowsArrive ==
  \A k \in Keys :
    (k \in DOMAIN table /\ Listening) ~>
      (k \in {r.key : r \in SentRows \union baseline \union meanwhile} \/ ~Listening)

\* The scheduler of a hook that has stopped listening is retired.
StoppedRetires ==
  (scheduler # "none" /\ ~Listening) ~> (scheduler = "none" \/ Listening)

\* Sequences number what was sent: one row each, and what was recorded stays.
NumberingHolds == []KeyNamesRow /\ RecordStays
==============================================================================
