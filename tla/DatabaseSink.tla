----------------------------- MODULE DatabaseSink -----------------------------
(***************************************************************************)
(* DatabaseSinkService.deliver (database-sink.service.ts) over the write   *)
(* paths of the adapters: batches of rows written to one target after      *)
(* another, each in a transaction where the engine has one, by the runners *)
(* of several hooks and by a resend of what failed.  Servers lend a        *)
(* transaction a connection of its own; SQLite has one handle, which every *)
(* delivery to that file shares; MongoDB and Redis have no transaction.    *)
(***************************************************************************)
EXTENDS Naturals, Sequences, FiniteSets, SequencesExt, TLC

CONSTANTS
  Entries,     \* entries of the delivery log, each for one batch
  Tables,      \* tables that some target names
  Keys,
  Setups,      \* the scenarios a behaviour may have (see SetupType)
  MaxFaults

\* A scenario: what each entry delivers, to which targets, and what may go wrong.
SetupType == [batch : [Entries -> Seq(Keys)],           \* keys of the batch's rows
              op : [Entries -> {"write", "delete"}],    \* "delete": of a change stream
              targets : [Entries -> Seq(Tables)],       \* the hook's targets, in order
              after : [Entries -> SUBSET Entries],      \* entries of its runner before it
              engine : [Tables -> {"server", "sqlite", "mongodb", "redis"}],
              appends : SUBSET Tables,                  \* writeMode "insert", no key columns
              creates : SUBSET Tables,                  \* createMissingTable
              provided : SUBSET Tables,                 \* there from the start, as every collection is
              large : SUBSET Entries,                   \* bodies longer than SUMMARY_LIMIT
              resends : Nat,
              faults : SUBSET {"probe", "row", "commit", "crash", "drop"}]

ASSUME SinkConstants == MaxFaults \in Nat

VARIABLES
  setup,
  stored,      \* table -> key -> the entries whose rows are there under that key
  tables,      \* tables that exist
  handle,      \* table -> undo image of the transaction open on its SQLite handle
  ensured,     \* DatabaseSinkService.ensured
  at,          \* entry -> the locals of its deliver()
  ledger,      \* entry -> its row of hook_deliveries: status and request body
  sinkFaults, resends

sinkVars == <<setup, stored, tables, handle, ensured, at, ledger, sinkFaults, resends>>

NoImage == <<"none">>
Resting == [step |-> "rest", n |-> 0, row |-> 0, rows |-> <<>>, op |-> "write", error |-> FALSE]
Unsent == [status |-> "none", body |-> "none"]

SinkInit ==
  /\ setup \in Setups
  /\ stored = [t \in Tables |-> [k \in Keys |-> <<>>]]
  /\ tables = setup.provided /\ handle = [t \in Tables |-> NoImage] /\ ensured = {}
  /\ at = [e \in Entries |-> Resting] /\ ledger = [e \in Entries |-> Unsent]
  /\ sinkFaults = 0 /\ resends = 0

Targets(e) == setup.targets[e]
Target(e) == Targets(e)[at[e].n]
\* acquireTransactionConnection: a connection of the pool, or the one handle of a file.
OwnConnection(t) == setup.engine[t] = "server"
SharedHandle(t) == setup.engine[t] = "sqlite"
\* capabilities.transactions.
Transactional(t) == OwnConnection(t) \/ SharedHandle(t)
At(e, step) == at[e].step = step
Move(e, step) == at' = [at EXCEPT ![e].step = step]

SinkFault(kind) ==
  kind \in setup.faults /\ sinkFaults < MaxFaults /\ sinkFaults' = sinkFaults + 1
NoSinkFault == UNCHANGED sinkFaults

(************************** the rows of a table ***************************)

\* insertRow, upsertRow and deleteRow of the SQL adapters: INSERT, INSERT ... ON CONFLICT
\* (ON DUPLICATE KEY), DELETE ... WHERE.
SqlWritten(rows, appends, op, e) ==
  CASE op = "delete" -> <<>> [] op = "write" /\ appends -> Append(rows, e) [] OTHER -> <<e>>

\* insertOne, updateOne with upsert, deleteOne: only the first document that matches.
MongoWritten(rows, appends, op, e) ==
  CASE op = "delete" -> SubSeq(rows, 2, Len(rows))
    [] op = "write" /\ appends -> Append(rows, e)
    [] OTHER -> <<e>> \o SubSeq(rows, 2, Len(rows))

\* SET and DEL: an insert replaces the key too.
RedisWritten(op, e) == IF op = "delete" THEN <<>> ELSE <<e>>

\* Mutant of Written: an upsert adds a row beside the one that is there.
WrittenTwice(image, t, k, op, e) ==
  [image EXCEPT ![k] = IF op = "delete" THEN <<>> ELSE Append(@, e)]

\* One row is written to the table t, of which image is the content.
Written(image, t, k, op, e) ==
  [image EXCEPT ![k] =
     CASE setup.engine[t] = "redis" -> RedisWritten(op, e)
       [] setup.engine[t] = "mongodb" -> MongoWritten(@, t \in setup.appends, op, e)
       [] OTHER -> SqlWritten(@, t \in setup.appends, op, e)]

\* The writes of a whole batch, when they become visible at once.
AllWritten(e) ==
  FoldLeft(LAMBDA image, k : Written(image, Target(e), k, at[e].op, e),
           stored[Target(e)], at[e].rows)

(**************************** a delivery **********************************)

Begins(e, rows, op) ==
  at' = [at EXCEPT ![e] = [Resting EXCEPT !.step = "target", !.n = 1, !.rows = rows, !.op = op]]

\* A runner delivers a batch that has no entry yet, after the ones before it.
Deliver(e) ==
  /\ At(e, "rest") /\ ledger[e].status = "none"
  /\ \A b \in setup.after[e] : ledger[b].status # "none" /\ At(b, "rest")
  /\ Begins(e, setup.batch[e], setup.op[e])
  /\ UNCHANGED <<setup, stored, tables, handle, ensured, ledger, sinkFaults, resends>>

\* A body cut at SUMMARY_LIMIT is no JSON: resendFailed keeps it as a string, and then
\* filters it out of the rows.
CapturedRows(e) == IF ledger[e].body = "cut" THEN <<>> ELSE setup.batch[e]

\* resendFailed, once the run has ended: the rows are read from the captured body, and
\* the operation is not passed on.
Resend(e) ==
  /\ resends < setup.resends /\ resends' = resends + 1
  /\ \A b \in Entries : At(b, "rest") /\ ledger[b].status # "none"
  /\ ledger[e].status = "failed" /\ Begins(e, CapturedRows(e), "write")
  /\ UNCHANGED <<setup, stored, tables, handle, ensured, ledger, sinkFaults>>

\* Mutant of TargetDone: the error of a target is forgotten at the next one.
LastError(e, failed) ==
  at' = [at EXCEPT ![e] = [@ EXCEPT !.step = "target", !.n = @ + 1, !.row = 0, !.error = failed]]

\* The loop over the targets goes on whether or not one failed.
TargetDone(e, failed) ==
  at' = [at EXCEPT ![e] = [@ EXCEPT !.step = "target", !.n = @ + 1, !.row = 0, !.error = @ \/ failed]]

\* ensureTarget: known tables are not probed, and a probe that fails means "missing".
Skip(e) ==
  /\ At(e, "target") /\ at[e].n <= Len(Targets(e)) /\ Target(e) \in ensured /\ Move(e, "begin")
  /\ UNCHANGED <<setup, stored, tables, handle, ensured, ledger, sinkFaults, resends>>

Probe(e) ==
  /\ At(e, "target") /\ at[e].n <= Len(Targets(e)) /\ Target(e) \notin ensured
  /\ \/ /\ Target(e) \in tables /\ Move(e, "begin")
        /\ ensured' = ensured \union {Target(e)} /\ NoSinkFault
     \/ /\ \/ Target(e) \notin tables /\ NoSinkFault
           \/ Target(e) \in tables /\ SinkFault("probe")
        /\ IF Target(e) \in setup.creates /\ at[e].rows # <<>>
           THEN Move(e, "create") ELSE TargetDone(e, TRUE)
        /\ UNCHANGED ensured
  /\ UNCHANGED <<setup, stored, tables, handle, ledger, resends>>

\* createTable has no IF NOT EXISTS: it fails when another delivery was faster.
CreateTable(e) ==
  /\ At(e, "create")
  /\ \/ /\ Target(e) \in tables /\ TargetDone(e, TRUE) /\ UNCHANGED <<tables, ensured>>
     \/ /\ Target(e) \notin tables /\ Move(e, "begin")
        /\ tables' = tables \union {Target(e)} /\ ensured' = ensured \union {Target(e)}
  /\ UNCHANGED <<setup, stored, handle, ledger, sinkFaults, resends>>

\* withTransaction: BEGIN.  On SQLite's handle it fails while a transaction is open
\* there, and the catch clause then rolls that one back.
Begin(e) ==
  /\ At(e, "begin")
  /\ IF SharedHandle(Target(e)) /\ handle[Target(e)] # NoImage
     THEN /\ stored' = [stored EXCEPT ![Target(e)] = handle[Target(e)]]
          /\ handle' = [handle EXCEPT ![Target(e)] = NoImage] /\ TargetDone(e, TRUE)
     ELSE /\ handle' = IF SharedHandle(Target(e))
                       THEN [handle EXCEPT ![Target(e)] = stored[Target(e)]] ELSE handle
          /\ at' = [at EXCEPT ![e].step = "rows", ![e].row = 1] /\ UNCHANGED stored
  /\ UNCHANGED <<setup, tables, ensured, ledger, sinkFaults, resends>>

\* One statement.  A server's transaction keeps its writes to itself until COMMIT.
WriteRow(e) ==
  /\ At(e, "rows") /\ at[e].row <= Len(at[e].rows) /\ Target(e) \in tables
  /\ ~(at[e].op = "delete" /\ Target(e) \in setup.appends)
  /\ stored' = IF OwnConnection(Target(e)) THEN stored
               ELSE [stored EXCEPT ![Target(e)] =
                       Written(@, Target(e), at[e].rows[at[e].row], at[e].op, e)]
  /\ at' = [at EXCEPT ![e].row = @ + 1]
  /\ UNCHANGED <<setup, tables, handle, ensured, ledger, sinkFaults, resends>>

\* Mutant of RollBack: an error leaves what was written.
KeepPrefix(t) == UNCHANGED stored /\ handle' = [handle EXCEPT ![t] = NoImage]

\* ROLLBACK on the handle of t, when a transaction is open there.
RollBack(t) ==
  /\ stored' = IF handle[t] = NoImage THEN stored ELSE [stored EXCEPT ![t] = handle[t]]
  /\ handle' = [handle EXCEPT ![t] = NoImage]

\* A statement fails: a fault, a table that was dropped, a delete without key columns.
RowFails(e) ==
  /\ At(e, "rows") /\ at[e].row <= Len(at[e].rows)
  /\ \/ SinkFault("row")
     \/ /\ Target(e) \notin tables \/ (at[e].op = "delete" /\ Target(e) \in setup.appends)
        /\ NoSinkFault
  /\ RollBack(Target(e)) /\ TargetDone(e, TRUE)
  /\ UNCHANGED <<setup, tables, ensured, ledger, resends>>

\* COMMIT, or the end of a batch without a transaction.  It fails on a handle whose
\* transaction is gone; the answer of a server may be lost after or before it commits.
Commit(e) ==
  /\ At(e, "rows") /\ at[e].row > Len(at[e].rows)
  /\ \/ /\ OwnConnection(Target(e)) /\ NoSinkFault /\ TargetDone(e, FALSE)
        /\ stored' = [stored EXCEPT ![Target(e)] = AllWritten(e)] /\ UNCHANGED handle
     \/ /\ OwnConnection(Target(e)) /\ SinkFault("commit") /\ TargetDone(e, TRUE)
        /\ stored' \in {stored, [stored EXCEPT ![Target(e)] = AllWritten(e)]}
        /\ UNCHANGED handle
     \/ /\ ~OwnConnection(Target(e)) /\ NoSinkFault /\ UNCHANGED stored
        /\ TargetDone(e, SharedHandle(Target(e)) /\ handle[Target(e)] = NoImage)
        /\ handle' = [handle EXCEPT ![Target(e)] = NoImage]
  /\ UNCHANGED <<setup, tables, ensured, ledger, resends>>

\* Mutant of SendOutcome: a delivery that reached some targets is neither.
PartialSendOutcome(e) == IF at[e].error THEN "partial" ELSE "success"

\* One outcome for all the targets.
SendOutcome(e) == IF at[e].error THEN "failed" ELSE "success"

\* recordDelivery, in a step of its own: the status and the body, cut at SUMMARY_LIMIT.
Record(e) ==
  /\ At(e, "target") /\ at[e].n > Len(Targets(e))
  /\ ledger' = [ledger EXCEPT ![e] = [status |-> SendOutcome(e),
                  body |-> IF e \in setup.large /\ at[e].rows # <<>> THEN "cut" ELSE "rows"]]
  /\ at' = [at EXCEPT ![e] = Resting]
  /\ UNCHANGED <<setup, stored, tables, handle, ensured, sinkFaults, resends>>

\* The process dies: open transactions roll back, and runners deliver again what has no
\* entry.  A resend that was under way is not taken up again.
Crash ==
  /\ SinkFault("crash")
  /\ stored' = [t \in Tables |-> IF handle[t] = NoImage THEN stored[t] ELSE handle[t]]
  /\ handle' = [t \in Tables |-> NoImage] /\ ensured' = {}
  /\ at' = [e \in Entries |-> Resting]
  /\ UNCHANGED <<setup, tables, ledger, resends>>

\* Somebody drops a target's table, when no transaction holds it.
DropTable(t) ==
  /\ t \in tables /\ OwnConnection(t) /\ SinkFault("drop")
  /\ \A e \in Entries : ~(At(e, "rows") /\ Target(e) = t)
  /\ tables' = tables \ {t}
  /\ stored' = [stored EXCEPT ![t] = [k \in Keys |-> <<>>]]
  /\ UNCHANGED <<setup, handle, ensured, at, ledger, resends>>

SinkNext ==
  \/ \E e \in Entries : \/ Deliver(e) \/ Resend(e) \/ Skip(e) \/ Probe(e) \/ CreateTable(e)
                        \/ Begin(e) \/ WriteRow(e) \/ RowFails(e) \/ Commit(e) \/ Record(e)
  \/ Crash
  \/ \E t \in Tables : DropTable(t)

SinkSpec == SinkInit /\ [][SinkNext]_sinkVars

(***************************** properties *********************************)

\* The types of the sink's state and of the delivery log's rows.
SinkTypeOK ==
  /\ stored \in [Tables -> [Keys -> Seq(Entries)]]
  /\ tables \subseteq Tables /\ ensured \subseteq Tables
  /\ \A t \in Tables : handle[t] = NoImage \/ handle[t] \in [Keys -> Seq(Entries)]
  /\ \A e \in Entries : /\ at[e].step \in {"rest", "target", "create", "begin", "rows"}
                        /\ at[e].n <= Len(Targets(e)) + 1
                        /\ ledger[e].status \in {"none", "failed", "success"}

\* An entry that turns to success, by a runner or by a resend, stands for a batch that
\* every target now holds, or, for the delete of a change stream, holds no more.  This is
\* the one outcome for N targets that the head comment of database-sink.service.ts states.
SuccessIsApplied ==
  [][\A e \in Entries :
       ledger'[e].status = "success" /\ ledger[e].status # "success" =>
         \A t \in Range(Targets(e)) \intersect tables', k \in Range(setup.batch[e]) :
           IF setup.op[e] = "delete" THEN stored'[t][k] = <<>>
           ELSE e \in Range(stored'[t][k])]_sinkVars

Writing(e, t) == At(e, "rows") /\ Target(e) = t
Copies(e, t, k) == Cardinality({i \in DOMAIN stored[t][k] : stored[t][k][i] = e})
OwnKeys(e) == Range(setup.batch[e]) \ UNION {Range(setup.batch[b]) : b \in Entries \ {e}}

\* A target with transactions holds all the rows of a batch or none of them, as soon as
\* no transaction for that batch is open: base-sql-adapter.ts's withTransaction around
\* the whole batch, also when a statement fails, the process dies or the batch is sent
\* again.
AtomicBatch ==
  \A e \in Entries : \A t \in Range(Targets(e)) :
    Transactional(t) /\ ~Writing(e, t) =>
      \A k, l \in OwnKeys(e) : Copies(e, t, k) = Copies(e, t, l)

\* A batch that was sent again after a failure is not in a table twice: by the upsert's
\* key, and, in a table that only gets inserts, because the failed batch rolled back.
NoDoubleWrite ==
  \A e \in Entries : \A t \in Range(Targets(e)) :
    \A k \in Range(setup.batch[e]) :
      (t \in setup.appends => Transactional(t)) => Copies(e, t, k) <= 1

\* What the sink promises the run and the resend.
SinkPromise == []SinkTypeOK /\ []AtomicBatch /\ []NoDoubleWrite /\ SuccessIsApplied
==============================================================================
