------------------------------ MODULE CdcStream ------------------------------
(***************************************************************************)
(* A hook with the cdc trigger: HookCdcService (hook-cdc.service.ts), its  *)
(* map of live streams and its change pipeline, over the cursor discipline *)
(* of each provider (cdc/providers).  The source's change log is a         *)
(* sequence of events (a binlog event, a WAL record, an oplog entry, a     *)
(* keyspace notification), each with a number of captured rows: zero for   *)
(* an event of another table or of an operation the hook does not want.    *)
(* The hook is enabled, which a boot asks and a start does not.            *)
(***************************************************************************)
EXTENDS Integers, Sequences, FiniteSets, FiniteSetsExt

CONSTANTS
  Engines,       \* the engines a behaviour may have
  Rows,          \* Rows[p]: captured rows of the p-th event of the log
  Lsn,           \* Lsn[p]: where the p-th event, in commit order, lies in the WAL
  SharedLsn,     \* whether the rows of one WAL record are told apart
  Callers,       \* requests that may be under way at once
  Ops,           \* subset of {"start", "stop", "edit", "remove"}
  Faults,        \* subset of {"open", "pipeline", "ledger", "finalize", "network", "history",
                 \*            "slot", "crash"}
  MaxStarts,     \* starts and edits that may be under way at once
  MaxCalls, MaxFaults, MaxStreams

None == <<0, 0>>   \* no cursor, and no change

ASSUME CdcConstants ==
  /\ Engines \subseteq {"postgres", "mysql", "mongodb", "redis"}
  /\ Rows \in Seq(Nat) /\ Lsn \in [DOMAIN Rows -> Nat] /\ SharedLsn \in BOOLEAN
  /\ "boot" \notin Callers
  /\ MaxStarts \in Nat /\ MaxCalls \in Nat /\ MaxFaults \in Nat /\ MaxStreams \in Nat \ {0}

VARIABLES
  engine,
  tip,         \* events in the source's log
  slot,        \* postgres: events the slot has confirmed; -1: there is no slot
  runs,        \* the hook's runs, oldest first: status, cursorOffset, cursorJson
  ledger,      \* hook_deliveries: <<run, sequence>> -> [change, ok]
  live,        \* HookCdcService.streams: the hook's entry, 0 when there is none
  stream,      \* stream id -> what beginStream made, and the provider's position
  reader,      \* reader id -> a loop of a provider that reads the log
  call,        \* the requests' locals; "boot" is onModuleInit
  proc,        \* "up" or "down"
  removed,     \* the hook's row has been deleted
  calls, faults,
  sent,        \* history: times each change was handed to the sink
  traced,      \* history: changes with an entry in the ledger
  missed,      \* history: changes that opening a stream passed over, and why
  stops, interrupts   \* history: stops, and crashes and failures, so far

source == <<engine, tip, slot>>
database == <<runs, ledger, removed>>
memory == <<live, stream, reader>>
history == <<sent, traced, missed, stops, interrupts>>
vars == <<source, database, memory, call, proc, calls, faults, history>>

Active == {"queued", "running", "canceling"}
Changes == {c \in (DOMAIN Rows) \X (1 .. Max({0} \union {Rows[p] : p \in DOMAIN Rows})) :
              c[2] <= Rows[c[1]]}
Streams == 1 .. MaxStreams
Readers == 1 .. 2 * MaxStreams
Actors == Callers \union {"boot"}
Precedes(a, b) == a[1] < b[1] \/ (a[1] = b[1] /\ a[2] < b[2])
Start(p) == <<p, 1>>                        \* the first row of event p
After(c) == IF c[2] < Rows[c[1]] THEN <<c[1], c[2] + 1>> ELSE Start(c[1] + 1)

\* A provider's cursorAfter(c, w).  The rows of one WAL record share their LSN.
LsnAfter(c, w) ==
  \/ Lsn[c[1]] > Lsn[w[1]]
  \/ Lsn[c[1]] = Lsn[w[1]] /\ ~SharedLsn /\ c[2] > w[2]
PositionAfter(c, w) == Precedes(w, c)

\* Mutant of CursorAfter: whatever a reconnect repeats is delivered again.
NoWatermark(c, w) == TRUE

\* Tokens and notifications are never taken for repeats.
CursorAfter(c, w) ==
  w # None => CASE engine = "mysql" -> PositionAfter(c, w)
                [] engine = "postgres" -> LsnAfter(c, w)
                [] OTHER -> TRUE

Idle == [step |-> "idle", op |-> "", run |-> 0, offset |-> 0, cursor |-> None, stream |-> 0]
NoStream == [run |-> 0, seq |-> 0, watermark |-> None, chain |-> <<>>, step |-> "idle",
             handle |-> FALSE, pos |-> None]
NoReader == [of |-> 0, mode |-> "free", at |-> Start(1), out |-> {}]

Init ==
  /\ engine \in Engines /\ tip = 0 /\ slot = -1
  /\ runs = <<>> /\ ledger = <<>> /\ removed = FALSE
  /\ live = 0 /\ stream = [s \in Streams |-> NoStream] /\ reader = [r \in Readers |-> NoReader]
  /\ call = [c \in Actors |-> Idle] /\ proc = "up" /\ calls = 0 /\ faults = 0
  /\ sent = [c \in Changes |-> 0] /\ traced = {}
  /\ missed = [tip |-> {}, event |-> {}] /\ stops = 0 /\ interrupts = 0

\* A promise callback runs before anything else of the process does: a change that is
\* at the head of its chain is looked at at once, the next row of a binlog event is
\* handed over as soon as the one before it is done, and beginStream goes on as soon as
\* the provider's loop is started (redis subscribes before that).
MidEvent(r) == engine = "mysql" /\ reader[r].mode # "free" /\ reader[r].at[2] > 1 /\ reader[r].out = {}
Settled ==
  /\ \A s \in Streams : stream[s].step = "idle" => stream[s].chain = <<>>
  /\ \A r \in Readers : ~MidEvent(r)
  /\ engine = "redis" \/ \A c \in Actors : call[c].step # "opened"

Fault(kind) == kind \in Faults /\ faults < MaxFaults /\ faults' = faults + 1
Resumes(c, step) == Settled /\ call[c].step = step
Goto(c, step) == call' = [call EXCEPT ![c].step = step]
Return(c) == call' = [call EXCEPT ![c] = Idle]
Finalize(run, status) ==
  runs' = IF run \in DOMAIN runs THEN [runs EXCEPT ![run].status = status] ELSE runs
ActiveRuns == {n \in DOMAIN runs : runs[n].status \in Active}

(***************************** the source *********************************)

Commit == /\ Settled /\ tip < Len(Rows) /\ tip' = tip + 1
          /\ UNCHANGED <<engine, slot, database, memory, call, proc, calls, faults, history>>

\* provision: postgres creates the slot, at the end of the log, unless it is there.
Blind == {c \in Changes : c[1] <= tip}
Provisioned ==
  IF engine = "postgres" /\ slot = -1
  THEN slot' = tip /\ missed' = [missed EXCEPT !.tip = @ \union Blind]
  ELSE UNCHANGED <<slot, missed>>

(***************************** start **************************************)

Ask(c, op, step) ==
  /\ c \in Callers /\ proc = "up" /\ ~removed /\ call["boot"].step = "idle"
  /\ op \in Ops /\ calls < MaxCalls /\ calls' = calls + 1
  /\ Resumes(c, "idle") /\ call' = [call EXCEPT ![c] = [Idle EXCEPT !.step = step, !.op = op]]

Starting == Cardinality({c \in Callers : call[c].op \in {"start", "edit"}})
AskStart(c) ==
  /\ Ask(c, "start", "provision") /\ Starting < MaxStarts /\ ActiveRuns = {}
  /\ UNCHANGED <<source, database, memory, proc, faults, history>>

Provision(c) ==
  /\ Resumes(c, "provision") /\ Goto(c, "run") /\ Provisioned
  /\ UNCHANGED <<engine, tip, database, memory, proc, calls, faults, sent, traced, interrupts, stops>>

\* Mutant of UpdateRun: the run is put back to queued, as a replay run is.
StartsQueued(c) ==
  /\ Resumes(c, "run") /\ ~removed
  /\ LET n == IF runs = <<>> THEN 1 ELSE Len(runs)
     IN /\ runs' = IF runs = <<>>
                   THEN <<[status |-> "queued", offset |-> 0, cursor |-> None]>>
                   ELSE [runs EXCEPT ![n].status = "queued"]
        /\ call' = [call EXCEPT ![c].run = n, ![c].offset = runs'[n].offset,
                                ![c].cursor = runs'[n].cursor, ![c].step = "check"]
  /\ UNCHANGED <<source, ledger, removed, memory, proc, calls, faults, history>>

\* The latest run is resumed in place; the first start creates one.
UpdateRun(c) ==
  /\ Resumes(c, "run") /\ ~removed
  /\ LET n == IF runs = <<>> THEN 1 ELSE Len(runs)
     IN /\ runs' = IF runs = <<>>
                   THEN <<[status |-> "running", offset |-> 0, cursor |-> None]>>
                   ELSE [runs EXCEPT ![n].status = "running"]
        /\ call' = [call EXCEPT ![c].run = n, ![c].offset = runs'[n].offset,
                                ![c].cursor = runs'[n].cursor, ![c].step = "check"]
  /\ UNCHANGED <<source, ledger, removed, memory, proc, calls, faults, history>>

\* beginStream: the check, then (an await later) the registration.
CheckStream(c) ==
  /\ Resumes(c, "check")
  /\ IF live = 0 THEN Goto(c, "register") ELSE Return(c)
  /\ UNCHANGED <<source, database, memory, proc, calls, faults, history>>

Register(c) ==
  /\ Resumes(c, "register")
  /\ \E s \in Streams :
       /\ stream[s].run = 0 /\ \A t \in Streams : t < s => stream[t].run # 0
       /\ stream' = [stream EXCEPT ![s] = [NoStream EXCEPT !.run = call[c].run,
                        !.seq = call[c].offset, !.watermark = call[c].cursor]]
       /\ live' = s /\ call' = [call EXCEPT ![c].stream = s, ![c].step = "open"]
  /\ UNCHANGED <<source, database, reader, proc, calls, faults, history>>

\* Where a provider begins to read: after what the slot has confirmed, at the end of
\* the cursor's binlog event, after the token; without a cursor at the end of the log.
Tip == Start(tip + 1)
SlotPosition == Start(slot + 1)
BinlogPosition(cursor) == IF cursor = None THEN Tip ELSE Start(cursor[1] + 1)
TokenPosition(cursor) == IF cursor = None THEN Tip ELSE After(cursor)
OpensAt(cursor) ==
  CASE engine = "postgres" -> SlotPosition
    [] engine = "mysql" -> BinlogPosition(cursor)
    [] engine = "mongodb" -> TokenPosition(cursor)
    [] engine = "redis" -> Tip
\* What that leaves behind: the rest of a binlog event that was cut, or all there is.
RestOf(c) == {d \in Changes : d[1] = c[1] /\ Precedes(c, d)}
Missing(cursor) ==
  CASE engine = "mysql" /\ cursor # None ->
         [missed EXCEPT !.event = @ \union RestOf(cursor)]
    [] engine = "redis" \/ (engine # "postgres" /\ cursor = None) ->
         [missed EXCEPT !.tip = @ \union Blind]
    [] OTHER -> missed
FreeReader == CHOOSE r \in Readers : reader[r].mode = "free"
HasFreeReader == \E r \in Readers : reader[r].mode = "free"
NewReader(s, cursor) == [NoReader EXCEPT !.of = s, !.mode = "reading", !.at = OpensAt(cursor)]

OpenStream(c) ==
  /\ Resumes(c, "open") /\ HasFreeReader
  /\ engine = "postgres" => slot # -1
  /\ reader' = [reader EXCEPT ![FreeReader] = NewReader(call[c].stream, call[c].cursor)]
  /\ stream' = [stream EXCEPT ![call[c].stream].pos = call[c].cursor]
  /\ missed' = Missing(call[c].cursor) /\ Goto(c, "opened")
  /\ UNCHANGED <<source, database, live, proc, calls, faults, sent, traced, interrupts, stops>>

\* Mutant of OpenFails: the run stays running behind the placeholder.
OpenFailsSilently(c) ==
  /\ Resumes(c, "open") /\ Fault("open") /\ Return(c) /\ interrupts' = interrupts + 1
  /\ live' = IF live = call[c].stream THEN 0 ELSE live
  /\ UNCHANGED <<source, database, stream, reader, proc, calls, sent, traced, missed, stops>>

OpenFails(c) ==
  /\ Resumes(c, "open") /\ Fault("open")
  /\ live' = IF live = call[c].stream THEN 0 ELSE live
  /\ Finalize(call[c].run, "failed") /\ Return(c) /\ interrupts' = interrupts + 1
  /\ UNCHANGED <<source, ledger, removed, stream, reader, proc, calls, sent, traced, missed, stops>>

\* A loop that is told to stop still waits for the onChange it is in.
Stopped(s) ==
  [r \in Readers |->
     IF reader[r].of # s \/ reader[r].mode = "free" THEN reader[r]
     ELSE IF reader[r].out = {} THEN NoReader
     ELSE [reader[r] EXCEPT !.mode = "draining"]]

\* Mutant of AfterOpen: a stream that lost the race against stop keeps its provider.
LeaksHandle(c) ==
  /\ call[c].step = "opened" /\ Return(c)
  /\ stream' = IF live = call[c].stream THEN [stream EXCEPT ![live].handle = TRUE] ELSE stream
  /\ UNCHANGED <<source, database, live, reader, proc, calls, faults, history>>

\* The handle replaces the placeholder, unless stop or another start was faster.
AfterOpen(c) ==
  /\ call[c].step = "opened" /\ Return(c)
  /\ IF live = call[c].stream
     THEN stream' = [stream EXCEPT ![live].handle = TRUE] /\ UNCHANGED reader
     ELSE reader' = Stopped(call[c].stream) /\ UNCHANGED stream
  /\ UNCHANGED <<source, database, live, proc, calls, faults, history>>

(***************************** stop, edit, remove *************************)

\* teardown: the entry goes, and whatever handle it has is stopped.
Torn == /\ live' = 0
        /\ reader' = IF live # 0 /\ stream[live].handle THEN Stopped(live) ELSE reader

AskStop(c) ==
  /\ \/ Ask(c, "stop", "find")
     \/ Starting < MaxStarts /\ Ask(c, "edit", "find")
     \/ Ask(c, "remove", "deprovision")
  /\ Torn /\ stops' = stops + 1
  /\ UNCHANGED <<source, database, stream, proc, faults, sent, traced, missed, interrupts>>

\* stop pauses the latest active run; an edit of a hook that was live starts it again.
FindRun(c) ==
  /\ Resumes(c, "find")
  /\ IF ActiveRuns = {} THEN Return(c)
     ELSE call' = [call EXCEPT ![c].run = Max(ActiveRuns), ![c].step = "pause"]
  /\ UNCHANGED <<source, database, memory, proc, calls, faults, history>>

PauseRun(c) ==
  /\ Resumes(c, "pause") /\ ~removed /\ Finalize(call[c].run, "paused")
  /\ IF call[c].op = "edit" THEN Goto(c, "restart") ELSE Return(c)
  /\ UNCHANGED <<source, ledger, removed, memory, proc, calls, faults, history>>

Restart(c) ==
  /\ Resumes(c, "restart")
  /\ IF ActiveRuns = {} THEN Goto(c, "provision") ELSE Return(c)
  /\ UNCHANGED <<source, database, memory, proc, calls, faults, history>>

\* Mutant of Deprovision: the connection that still holds the slot is not ended.
KeepsActiveSlot(c) ==
  /\ Resumes(c, "deprovision") /\ Goto(c, "delete")
  /\ slot' = IF \E r \in Readers : reader[r].mode # "free" THEN slot ELSE -1
  /\ UNCHANGED <<engine, tip, database, memory, proc, calls, faults, history>>

\* cleanup drops the slot, or has tried five times; the hook's row takes its runs and
\* their ledger with it.
Deprovision(c) ==
  /\ Resumes(c, "deprovision") /\ Goto(c, "delete")
  /\ \/ slot' = -1 /\ UNCHANGED faults
     \/ slot # -1 /\ Fault("slot") /\ UNCHANGED slot
  /\ UNCHANGED <<engine, tip, database, memory, proc, calls, history>>

DeleteHook(c) ==
  /\ Resumes(c, "delete") /\ Return(c) /\ removed' = TRUE
  /\ runs' = <<>> /\ ledger' = <<>>
  /\ UNCHANGED <<source, memory, proc, calls, faults, history>>

(***************************** providers **********************************)

\* What a loop does once the onChange of c has returned.
Finished(loop, c) ==
  LET d == [loop EXCEPT !.out = @ \ {c}]
      last == IF engine = "redis" THEN d.out = {} ELSE engine # "mysql" \/ c[2] = Rows[c[1]]
  IN CASE loop.mode = "free" -> loop
       [] loop.mode = "draining" /\ last -> NoReader
       [] OTHER -> IF engine = "redis" THEN d ELSE [d EXCEPT !.at = After(c)]
\* The position a reconnect goes back to: an event's end, or the token just handled.
Position(r, c) ==
  LET s == reader[r].of
  IN IF engine # "mysql" \/ c[2] = Rows[c[1]]
     THEN [stream EXCEPT ![s].pos = c] ELSE stream

\* handleChange: the change joins the chain of the entry the map has by now.
Joins(s, r, c) ==
  /\ stream' = IF s = 0 THEN Position(r, c)
               ELSE [stream EXCEPT ![s].chain = Append(@, <<r, c>>)]
  /\ reader' = [reader EXCEPT ![r] = IF s = 0 THEN Finished(@, c) ELSE [@ EXCEPT !.out = {c}]]

Ready(r) == Settled /\ reader[r].mode = "reading" /\ reader[r].at[1] <= tip

\* One change at a time: the loop waits for onChange before it reads on.
HandsOver(r) ==
  /\ Ready(r) \/ MidEvent(r)
  /\ reader[r].out = {} /\ Rows[reader[r].at[1]] > 0 /\ Joins(live, r, reader[r].at)
\* Events of other tables, and operations the hook does not want.
PassesOver(r) ==
  /\ Ready(r) /\ (engine = "redis" \/ reader[r].out = {}) /\ Rows[reader[r].at[1]] = 0
  /\ reader' = [reader EXCEPT ![r].at = Start(@[1] + 1)]
ReadsOn == UNCHANGED <<source, database, live, call, proc, calls, faults, history>>

OnWalRecord(r) ==
  /\ engine = "postgres" /\ (HandsOver(r) \/ (PassesOver(r) /\ UNCHANGED stream)) /\ ReadsOn
OnBinlogEvent(r) ==
  /\ engine = "mysql" /\ ReadsOn
  /\ \/ HandsOver(r)
     \/ /\ PassesOver(r)
        /\ stream' = [stream EXCEPT ![reader[r].of].pos = <<reader[r].at[1], 0>>]
OnOplogEntry(r) ==
  /\ engine = "mongodb" /\ (HandsOver(r) \/ (PassesOver(r) /\ UNCHANGED stream)) /\ ReadsOn

\* A notification is not waited for: its value is read out of band, and the reads
\* answer in any order.
OnNotification(r) ==
  /\ engine = "redis" /\ UNCHANGED stream /\ ReadsOn
  /\ \/ PassesOver(r)
     \/ /\ Ready(r) /\ Rows[reader[r].at[1]] > 0
        /\ reader' = [reader EXCEPT ![r].out = @ \union {reader[r].at}, ![r].at = After(@)]

Queued(r, c) == \E s \in Streams : \E i \in DOMAIN stream[s].chain : stream[s].chain[i] = <<r, c>>
BuildRow(r, c) ==
  /\ engine = "redis" /\ Settled /\ c \in reader[r].out /\ ~Queued(r, c)
  /\ IF live = 0
     THEN reader' = [reader EXCEPT ![r] = Finished(@, c)] /\ UNCHANGED stream
     ELSE stream' = [stream EXCEPT ![live].chain = Append(@, <<r, c>>)] /\ UNCHANGED reader
  /\ UNCHANGED <<source, database, live, call, proc, calls, faults, history>>

\* Mutant of Acknowledge: the event that is being delivered is confirmed too.
AcknowledgesRead(r) ==
  /\ engine = "postgres" /\ Settled /\ reader[r].mode = "reading" /\ slot # -1
  /\ reader[r].at[1] <= tip /\ reader[r].at[1] > slot /\ slot' = reader[r].at[1]
  /\ UNCHANGED <<engine, tip, database, memory, call, proc, calls, faults, history>>

\* The server learns what was handled: every event before the reader's next one.
Acknowledge(r) ==
  /\ engine = "postgres" /\ Settled /\ reader[r].mode = "reading" /\ slot # -1
  /\ reader[r].at[1] - 1 > slot /\ slot' = reader[r].at[1] - 1
  /\ UNCHANGED <<engine, tip, database, memory, call, proc, calls, faults, history>>

\* A transport error: a new loop goes back to the position pos; the old one ends once
\* the rows it is delivering are done.
Reopens(r, pos) ==
  LET s == reader[r].of
      n == IF reader[r].out # {} THEN FreeReader ELSE r
  IN /\ Settled /\ reader[r].mode = "reading" /\ (reader[r].out # {} => HasFreeReader)
     /\ reader' = [Stopped(s) EXCEPT ![n] = NewReader(s, pos)] /\ missed' = Missing(pos)
     /\ stream' = [stream EXCEPT ![s].pos = pos]
     /\ UNCHANGED <<source, database, live, call, proc, calls, sent, traced, stops, interrupts>>

Resubscribe(r) ==
  engine = "postgres" /\ slot # -1 /\ Fault("network") /\ Reopens(r, stream[reader[r].of].pos)
RestartInstance(r) ==
  engine = "mysql" /\ Fault("network") /\ Reopens(r, stream[reader[r].of].pos)
\* The error comes out of the iterator, between two changes.  A token that the oplog
\* no longer reaches is given up.
Rewatch(r) ==
  /\ engine = "mongodb" /\ reader[r].out = {}
  /\ \/ Fault("network") /\ Reopens(r, stream[reader[r].of].pos)
     \/ Fault("history") /\ Reopens(r, None)
Reconnect(r) == engine = "redis" /\ Fault("network") /\ Reopens(r, None)

(***************************** the change pipeline ************************)

Head1(s) == stream[s].chain[1]
\* The chain moves on, and with it the loop that waited for this change.
Done(s, rec) ==
  LET r == Head1(s)[1]
      c == Head1(s)[2]
  IN /\ reader' = [reader EXCEPT ![r] = Finished(@, c)]
     /\ stream' = [(IF reader[r].mode = "free" THEN stream ELSE Position(r, c))
                     EXCEPT ![s].chain = Tail(@), ![s].step = "idle",
                            ![s].seq = rec.seq, ![s].watermark = rec.watermark]

At(s, step) == /\ stream[s].step = step /\ stream[s].chain # <<>>
               /\ step # "idle" => Settled
StepTo(s, step) == stream' = [stream EXCEPT ![s].step = step]

\* A row of a binlog event that a stop drops in its chain is passed by those behind it,
\* which its loop goes on to hand to whatever stream is the hook's by then.
CutIn(s) ==
  LET c == Head1(s)[2]
  IN IF engine = "mysql" /\ live # s /\ c[2] < Rows[c[1]]
     THEN [missed EXCEPT !.event = @ \union {c}] ELSE missed

\* Dropped: the stream is no longer the hook's, or the position is a repeat.
Drop(s) ==
  /\ At(s, "idle") /\ (live # s \/ ~CursorAfter(Head1(s)[2], stream[s].watermark))
  /\ Done(s, stream[s]) /\ missed' = CutIn(s)
  /\ UNCHANGED <<source, database, live, call, proc, calls, faults, sent, traced, stops, interrupts>>

Deliver(s) ==
  /\ At(s, "idle") /\ live = s /\ CursorAfter(Head1(s)[2], stream[s].watermark)
  /\ sent' = [sent EXCEPT ![Head1(s)[2]] = @ + 1] /\ StepTo(s, "record")
  /\ UNCHANGED <<source, database, live, reader, call, proc, calls, faults, traced, missed, interrupts, stops>>

Entry(s, ok) ==
  /\ LET key == <<stream[s].run, stream[s].seq>>
     IN  ledger' = [k \in DOMAIN ledger \union {key} |->
                      IF k = key THEN [change |-> Head1(s)[2], ok |-> ok] ELSE ledger[k]]
  /\ traced' = traced \union {Head1(s)[2]}

Record(s) ==
  /\ At(s, "record") /\ ~removed /\ Entry(s, TRUE) /\ StepTo(s, "save")
  /\ UNCHANGED <<source, runs, removed, live, reader, call, proc, calls, faults, sent, missed, interrupts, stops>>

Moved(s) == [stream[s] EXCEPT !.seq = @ + 1, !.watermark = Head1(s)[2]]
\* Mutant of Save: the sequence is counted on in memory only.
SavesCursorOnly(s) ==
  /\ At(s, "save") /\ ~removed
  /\ runs' = [runs EXCEPT ![stream[s].run].cursor = Head1(s)[2]]
  /\ Done(s, Moved(s))
  /\ UNCHANGED <<source, ledger, removed, live, call, proc, calls, faults, history>>

Save(s) ==
  /\ At(s, "save") /\ ~removed
  /\ runs' = [runs EXCEPT ![stream[s].run].offset = stream[s].seq + 1,
                          ![stream[s].run].cursor = Head1(s)[2]]
  /\ Done(s, Moved(s))
  /\ UNCHANGED <<source, ledger, removed, live, call, proc, calls, faults, history>>

\* An error of the sink, the ledger or the update of the run; all three fail when
\* the hook, and its run with it, is gone.
Throws(s) ==
  /\ \E step \in {"idle", "record", "save"} : At(s, step)
  /\ stream[s].step = "idle" => live = s /\ CursorAfter(Head1(s)[2], stream[s].watermark)
  /\ \/ Fault("pipeline") /\ interrupts' = interrupts + 1
     \/ removed /\ stream[s].step # "idle" /\ UNCHANGED <<faults, interrupts>>
  /\ StepTo(s, "failed")
  /\ UNCHANGED <<source, database, live, reader, call, proc, calls, sent, traced, missed, stops>>

\* Mutant of RecordFailure: nothing that waits behind a failed change runs.
ChainBreaks(s) ==
  /\ At(s, "failed") /\ ~removed /\ Entry(s, FALSE) /\ StepTo(s, "broken")
  /\ UNCHANGED <<source, runs, removed, live, reader, call, proc, calls, faults, sent, missed, interrupts, stops>>

\* The failure becomes an entry; the run's own cursor is left for the next change.
RecordFailure(s) ==
  /\ At(s, "failed") /\ ~removed /\ Entry(s, FALSE) /\ Done(s, Moved(s))
  /\ UNCHANGED <<source, runs, removed, live, call, proc, calls, faults, sent, missed, interrupts, stops>>

\* The failure cannot even be recorded: the stream ends, the run fails.
GiveUp(s) ==
  /\ At(s, "failed")
  /\ \/ Fault("ledger") /\ interrupts' = interrupts + 1
     \/ removed /\ UNCHANGED <<faults, interrupts>>
  /\ live' = 0
  /\ LET r == Head1(s)[1]
         stop == IF live # 0 /\ stream[live].handle THEN Stopped(live) ELSE reader
     IN reader' = [stop EXCEPT ![r] = Finished(@, Head1(s)[2])]
  /\ stream' = [stream EXCEPT ![s].chain = Tail(@), ![s].step = "idle"]
  /\ IF removed THEN UNCHANGED runs
     ELSE \/ Finalize(stream[s].run, "failed")
          \/ "finalize" \in Faults /\ UNCHANGED runs
  /\ UNCHANGED <<source, ledger, removed, call, proc, calls, sent, traced, missed, stops>>

(***************************** the process ********************************)

\* A crash, or onModuleDestroy, which closes every stream and finalizes no run.
Crash ==
  /\ Settled /\ proc = "up" /\ Fault("crash") /\ proc' = "down" /\ live' = 0 /\ interrupts' = interrupts + 1
  /\ stream' = [s \in Streams |-> NoStream] /\ reader' = [r \in Readers |-> NoReader]
  /\ call' = [c \in Actors |-> Idle]
  /\ UNCHANGED <<source, database, calls, sent, traced, missed, stops>>

\* onModuleInit resumes the run that was running, before any request is served.
Boot ==
  /\ proc = "down" /\ proc' = "up"
  /\ LET running == {n \in DOMAIN runs : runs[n].status = "running"}
     IN IF running = {} THEN UNCHANGED <<call, slot, missed>>
        ELSE LET n == Max(running)
             IN /\ Provisioned
                /\ call' = [call EXCEPT !["boot"] = [Idle EXCEPT !.step = "check", !.run = n,
                              !.offset = runs[n].offset, !.cursor = runs[n].cursor]]
  /\ UNCHANGED <<engine, tip, database, memory, calls, faults, sent, traced, interrupts, stops>>

(***************************** the specification **************************)

RequestNext(c) ==
  \/ AskStart(c) \/ Provision(c) \/ UpdateRun(c) \/ CheckStream(c) \/ Register(c)
  \/ OpenStream(c) \/ OpenFails(c) \/ AfterOpen(c)
  \/ AskStop(c) \/ FindRun(c) \/ PauseRun(c) \/ Restart(c) \/ Deprovision(c) \/ DeleteHook(c)
ReaderNext(r) ==
  \/ OnWalRecord(r) \/ OnBinlogEvent(r) \/ OnOplogEntry(r) \/ OnNotification(r)
  \/ Acknowledge(r) \/ Resubscribe(r) \/ RestartInstance(r) \/ Rewatch(r) \/ Reconnect(r)
  \/ \E c \in Changes : BuildRow(r, c)
PipelineNext(s) ==
  \/ Drop(s) \/ Deliver(s) \/ Record(s) \/ Save(s) \/ Throws(s) \/ RecordFailure(s) \/ GiveUp(s)

Next ==
  \/ Commit \/ Crash \/ Boot
  \/ \E c \in Actors : RequestNext(c)
  \/ \E r \in Readers : ReaderNext(r)
  \/ \E s \in Streams : PipelineNext(s)

Spec == Init /\ [][Next]_vars

\* Requests under way, providers and the pipeline go on, and a dead process is
\* started again; nobody has to call, to write to the source, or to fail.
FairSpec ==
  /\ Spec /\ WF_vars(Boot)
  /\ \A c \in Actors : WF_vars(call[c].step # "idle" /\ RequestNext(c) /\ faults' = faults)
  /\ \A r \in Readers : WF_vars(OnWalRecord(r) \/ OnBinlogEvent(r) \/ OnOplogEntry(r) \/ OnNotification(r)
                                \/ \E c \in Changes : BuildRow(r, c))
  /\ \A s \in Streams : WF_vars(Drop(s) \/ Deliver(s) \/ Record(s) \/ Save(s) \/ RecordFailure(s))

(***************************** properties *********************************)

Cursor == {None} \union Changes
TypeOK ==
  /\ engine \in Engines /\ tip \in 0 .. Len(Rows) /\ slot \in -1 .. Len(Rows)
  /\ runs \in Seq([status : {"running", "paused", "failed"}, offset : Nat, cursor : Cursor])
  /\ \A k \in DOMAIN ledger : ledger[k] \in [change : Changes, ok : BOOLEAN]
  /\ live \in {0} \union Streams /\ traced \subseteq Changes
  /\ \A s \in Streams :
       /\ stream[s].step \in {"idle", "record", "save", "failed"}
       /\ stream[s].watermark \in Cursor /\ stream[s].chain \in Seq(Readers \X Changes)
  /\ \A r \in Readers : reader[r].mode \in {"free", "reading", "draining"}

Excused == traced \union missed.tip \union missed.event

\* A position that a restart goes on from, the run's cursor or the slot's, is behind
\* nothing that was captured and has no entry in the ledger: crashes, failures,
\* reconnects and stops in mid-change do not lose a change, except what is behind the
\* place where a stream without a cursor opened, and the rest of a binlog event.
NothingSkipped ==
  \A c \in Changes :
    /\ engine # "redis" /\ (\E n \in DOMAIN runs : c = runs[n].cursor \/ Precedes(c, runs[n].cursor))
         => c \in Excused
    /\ c[1] <= slot => c \in Excused

\* Changes are delivered in the order of the log, those of a loop that was told to
\* stop and of the stream that replaced it included; of a binlog event that was cut,
\* the rows may come without those before them, and redis has no order to keep.
Earlier(b, c) == IF engine = "mysql" THEN b[1] < c[1] ELSE engine # "redis" /\ Precedes(b, c)
InOrder ==
  [][\A c \in traced' \ traced : \A b \in Changes : Earlier(b, c) => b \in Excused']_vars

\* Nothing is sent again because a provider reconnects; as long as nobody stopped the
\* stream, each crash or failure repeats the one change that was under way.
Repeated == UNION {{c} \X (2 .. sent[c]) : c \in Changes}
Repeats == Cardinality(Repeated)
RepeatsBounded == stops = 0 => Repeats <= interrupts

\* A sequence stands for one change, notifications that arrive together included.
\* Another one takes its ledger entry only after an interruption, and never where the
\* source repeats exactly what comes after the cursor and no stream opened without one.
SequenceNamesChange ==
  [][\A k \in DOMAIN ledger \intersect DOMAIN ledger' :
       ledger'[k].change # ledger[k].change =>
         stops + interrupts > 0 /\ (engine = "mongodb" => missed.tip # {})]_vars

\* At rest a run is running exactly when the hook has a live stream, and no provider
\* reads on for a stream that is not the hook's.
AtRest == proc = "up" /\ (\A c \in Actors : call[c].step = "idle")
StreamIsRun ==
  AtRest =>
    /\ (\E n \in DOMAIN runs : runs[n].status = "running") <=> live # 0
    /\ \A r \in Readers : reader[r].mode = "reading" => reader[r].of = live

\* A removed hook leaves no replication slot that pins the source's log.
NoOrphanedSlot == AtRest /\ removed => slot = -1

\* While a run goes on, each change of the source gets its entry.
ChangesArrive ==
  \A c \in Changes :
    (c[1] <= tip /\ live # 0) ~> (c \in Excused \/ ActiveRuns = {})

\* The ledger follows the log of the source: in its order, one sequence for one change.
LedgerFollowsLog == InOrder /\ SequenceNamesChange

\* Between requests nothing is half-way: the runs, the streams and the slots agree.
RestIsClean == TypeOK /\ StreamIsRun /\ NoOrphanedSlot
==============================================================================
