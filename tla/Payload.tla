------------------------------- MODULE Payload -------------------------------
(***************************************************************************)
(* How rows become bodies and target rows (transform.ts, bridge.ts), what  *)
(* a run keeps of them for a resend (HookSinkService, DatabaseSinkService, *)
(* HookRunService.resendFailed), and the table made for them.              *)
(*                                                                         *)
(* A value is named by its row and column, and has the JavaScript type it  *)
(* has by now: the ledger keeps JSON.  No adapter hands out a bigint.  A   *)
(* template is the token {{$row}} or an object of single tokens.           *)
(***************************************************************************)
EXTENDS Integers, FiniteSets, Sequences

CONSTANT Jobs  \* hooks, each with the rows of its source

VARIABLES job,   \* the hook and the rows
          cursor,    \* rows flushed
          entries,   \* the ledger: of each delivery its place, what was captured, and its status
          made,      \* the columns of the target table; << >> before it exists
          kept       \* target rows that the table took

payloadVars == <<job, cursor, entries, made, kept>>

Types == {"boolean", "int", "wide", "real", "date", "object", "string", "null", "absent"}

\* order: the place of each column in a row.  No column of a source has the name of a helper.
JobOK(j) ==
  LET columns == DOMAIN j.order
  IN  /\ j.rows \in Seq([columns \ {"$op"} -> Types]) /\ j.batch \in Nat \ {0}
      /\ j.order \in [columns -> 1 .. Cardinality(columns)] /\ IsFiniteSet(columns)
      /\ "$op" \in columns /\ columns \intersect {"$index", "$table"} = {}
      /\ j.op \in {"none", "insert", "update", "delete"} /\ j.dest \in {"http", "database"}

ASSUME PayloadAssumption == \A j \in Jobs : JobOK(j)

NullValue == <<0, "null", "null">>
Value(i, c) == IF job.rows[i][c] = "null" THEN NullValue ELSE <<i, c, job.rows[i][c]>>
Has(i, c) == job.rows[i][c] # "absent"
RowOf(i) == [c \in {d \in DOMAIN job.rows[i] : Has(i, d)} |-> Value(i, c)]
NoTableYet == << >>

PayloadInit ==
  /\ job \in Jobs /\ cursor = 0 /\ entries = <<>> /\ made = NoTableYet /\ kept = {}

(********************************* bodies **********************************)

\* A change stream's rows carry its operation.
Scoped(i) == IF job.op = "none" THEN RowOf(i)
             ELSE [c \in DOMAIN RowOf(i) \union {"$op"} |-> IF c = "$op" THEN <<0, job.op, "string">> ELSE RowOf(i)[c]]
\* fields, then rename; of columns that get one name the last stays (job.order).
RenameOf(c) == IF c \in DOMAIN job.rename THEN job.rename[c] ELSE c
ProjectRow(row) ==
  LET names == {c \in DOMAIN row : job.fields = {} \/ c \in job.fields}
      Last(k) == CHOOSE c \in names :
                   /\ RenameOf(c) = k
                   /\ \A d \in names : RenameOf(d) = k => job.order[d] <= job.order[c]
  IN  [k \in {RenameOf(c) : c \in names} |-> row[Last(k)]]

\* A token that names nothing is null.  The helpers hide columns of their name.
Substitute(row, index) ==
  IF job.template = "$row" THEN ProjectRow(row)
  ELSE [k \in DOMAIN job.tokens |->
          LET token == job.tokens[k]
          IN  CASE token = "$index" -> <<index, "$index", "int">>
                [] token = "$table" -> <<0, "$table", "string">>
                [] token \in DOMAIN row -> row[token]
                [] OTHER -> NullValue]
Body(wrapped, array, items) == [wrapped |-> wrapped, array |-> array, items |-> items]
RenderRow(row, index) == Body(job.wrap, FALSE, <<Substitute(row, index)>>)

\* Mutant of RenderBatch: each batch counts its rows from 0.
RenderFromZero(start, n) ==
  Body(job.wrap, TRUE, [p \in 1 .. n |-> Substitute(Scoped(start + p), p - 1)])

\* Rows are counted from 1 here, and from 0 by $index.
RenderBatch(start, n) ==
  Body(job.wrap, TRUE, [p \in 1 .. n |-> Substitute(Scoped(start + p), start + p - 1)])

\* An empty mapping keeps every column; a mapped column that is absent is null.
MapRow(row, mapping) ==
  IF mapping = {} THEN row
  ELSE [t \in {m.target : m \in mapping} |->
          LET m == CHOOSE n \in mapping : n.target = t
          IN  IF m.source \in DOMAIN row THEN row[m.source] ELSE NullValue]

\* Mutant of Preview: the fields are left out.
PreviewWhole(i) ==
  IF job.dest = "database" THEN Body(FALSE, FALSE, <<MapRow(RowOf(i), job.mapping)>>)
  ELSE Body(job.wrap, FALSE, <<IF job.template = "$row" THEN RowOf(i) ELSE Substitute(RowOf(i), i - 1)>>)

\* The preview of a saved hook (HooksController.preview).
Preview(i) ==
  IF job.dest = "database" THEN Body(FALSE, FALSE, <<MapRow(RowOf(i), job.mapping)>>)
  ELSE RenderRow(RowOf(i), i - 1)

(****************************** target rows ********************************)

\* Mutant of InferType: every number is an integer.
InferInteger(type) ==
  CASE type = "boolean" -> "boolean" [] type \in {"int", "wide", "real"} -> "integer"
    [] type = "date" -> "timestamp" [] type = "object" -> "json" [] OTHER -> "text"

InferType(type) ==
  CASE type = "boolean" -> "boolean" [] type \in {"int", "wide"} -> "integer" [] type = "real" -> "double"
    [] type = "date" -> "timestamp" [] type = "object" -> "json" [] OTHER -> "text"
NormalizeType(t) == IF t = "double" THEN "number" ELSE t

\* The column types that are told apart: those that cannot be a key, and the values each
\* takes.  Objects are bound as their JSON text (coerceMysqlParam, coerceSqliteParam; of the
\* driver of SQL Server it is assumed), and dates also as ISO text.
EngineColumnType(type, isKey) ==
  IF job.engine = "sqlite" THEN "any"
  ELSE IF type = "text" THEN IF isKey \/ job.engine = "postgres" THEN "varchar" ELSE "longtext"
  ELSE IF type = "json" /\ job.engine = "mssql" THEN "longtext" ELSE type
Indexable(column) == column # "longtext" /\ (column = "json" => job.engine = "postgres")
Takes(column) ==
  CASE column = "boolean" -> {"boolean"} [] column = "integer" -> {"int"}
    [] column = "number" -> {"int", "real"} [] column = "timestamp" -> {"date", "string"}
    [] column = "json" -> {"object"} [] OTHER -> Types

\* The columns of the first row written, each with its type and whether it is in the key.
TargetColumns(mapped) ==
  [t \in DOMAIN mapped |->
     [key |-> t \in job.keys,
      type |-> EngineColumnType(NormalizeType(InferType(mapped[t][3])), t \in job.keys)]]
Creatable(columns) == \A t \in DOMAIN columns : columns[t].key => Indexable(columns[t].type)
Fits(mapped, columns) ==
  /\ DOMAIN mapped \subseteq DOMAIN columns
  /\ \A t \in DOMAIN columns :
       IF t \notin DOMAIN mapped \/ mapped[t] = NullValue THEN ~columns[t].key
       ELSE mapped[t][3] \in Takes(columns[t].type)

\* A batch for one target: the table is made if it is missing, and the rows are written in
\* one transaction.  Either may also fail for a reason of its own.
WriteRows(rows, status) ==
  LET columns == IF made = NoTableYet /\ Creatable(TargetColumns(rows[1]))
                 THEN TargetColumns(rows[1]) ELSE made
  IN  IF status = "success"
      THEN /\ columns # NoTableYet /\ \A p \in DOMAIN rows : Fits(rows[p], columns)
           /\ made' = columns /\ kept' = kept \union {rows[p] : p \in DOMAIN rows}
      ELSE made' \in {made, columns} /\ UNCHANGED kept
Delivers(rows, status) == IF job.dest = "database" THEN WriteRows(rows, status) ELSE UNCHANGED <<made, kept>>

(******************************** the run **********************************)

\* Mutant of CountRows: a full batch is counted.
CountFullBatch(n) == cursor' = cursor + job.batch

CountRows(n) == cursor' = cursor + n

\* DatabaseSinkService.deliver keeps the rows as they were mapped, DeliveryService.send
\* the body it sent.
MappedRows(start, n) == [p \in 1 .. n |-> MapRow(RowOf(start + p), job.mapping)]
BodyOf(start, n) ==
  IF job.dest = "database" THEN Body(FALSE, n > 1, MappedRows(start, n))
  ELSE IF n = 1 THEN RenderRow(Scoped(start + 1), start) ELSE RenderBatch(start, n)

Flush ==
  /\ cursor < Len(job.rows)
  /\ LET left == Len(job.rows) - cursor
         n == IF left < job.batch THEN left ELSE job.batch
     IN  /\ \E status \in {"success", "failed"} :
              /\ Delivers(MappedRows(cursor, n), status)
              /\ entries' = Append(entries,
                   [start |-> cursor, count |-> n, status |-> status, captured |-> BodyOf(cursor, n)])
         /\ CountRows(n)
  /\ UNCHANGED job

\* JSON has no dates.
Parsed(row) == [k \in DOMAIN row |-> IF row[k][3] = "date" THEN [row[k] EXCEPT ![3] = "string"] ELSE row[k]]

\* Mutant of Retried: the mapping of the target is used again.
RetriedMapped(rows) == [p \in DOMAIN rows |-> MapRow(Parsed(rows[p]), job.mapping)]

\* resendFailed writes what was captured with an empty mapping.
Retried(rows) == [p \in DOMAIN rows |-> MapRow(Parsed(rows[p]), {})]

SendCaptured(e) ==
  /\ entries[e].status = "failed" /\ cursor = Len(job.rows)
  /\ \E status \in {"success", "failed"} :
       /\ Delivers(Retried(entries[e].captured.items), status)
       /\ entries' = [entries EXCEPT ![e].status = status]
  /\ UNCHANGED <<job, cursor>>

PayloadNext == Flush \/ \E e \in DOMAIN entries : SendCaptured(e)
PayloadSpec == PayloadInit /\ [][PayloadNext]_payloadVars

(******************************* properties ********************************)

PayloadTypeOK ==
  /\ cursor \in 0 .. Len(job.rows)
  /\ \A e \in DOMAIN entries :
       /\ entries[e].status \in {"success", "failed"}
       /\ Len(entries[e].captured.items) = entries[e].count /\ entries[e].count \in 1 .. job.batch
       \* The entries follow each other and end where the run has come to.
       /\ entries[e].start + entries[e].count = IF e = Len(entries) THEN cursor ELSE entries[e + 1].start
  /\ made # NoTableYet => job.dest = "database"

\* Whatever the batches, an object of a body is made of one row, and $index is the place of
\* that row "across the whole run" (transform.ts).
OwnValues ==
  job.dest = "http" =>
    \A e \in DOMAIN entries : \A p \in 1 .. entries[e].count :
      LET object == entries[e].captured.items[p]
          index == entries[e].start + p - 1
      IN  \A k \in DOMAIN object :
            IF object[k][2] = "$index" THEN object[k][1] = index ELSE object[k][1] \in {0, index + 1}

SentAsShown(e) ==
  LET shown(p) == Preview(entries[e].start + p)
  IN  IF entries[e].count = 1 THEN entries[e].captured = shown(1)
      ELSE \A p \in 1 .. entries[e].count : entries[e].captured.items[p] = shown(p).items[1]
\* "so the web preview can render the exact same mapping the runner will perform"
\* (bridge.ts), "runs identically in the API runner and the web preview" (transform.ts):
\* what the preview shows of a row is what a run sends of it, except in a change stream.
PreviewIsSent ==
  job.op = "none" => \A e \in DOMAIN entries : SentAsShown(e)

\* A failed delivery is sent again as the rows of its first target: what was renamed for it
\* is not renamed again (HookRunService.resendFailed).
ResendWritesSame ==
  \A r \in kept : \E i \in DOMAIN job.rows : Parsed(r) = Parsed(MapRow(RowOf(i), job.mapping))

\* A table that is made for a hook takes every row of the source, if the columns keep
\* their type, no number is wide and no key is null.
Uniform ==
  \A c \in DOMAIN job.rows[1] : \A i \in DOMAIN job.rows :
    job.rows[i][c] = job.rows[1][c] /\ job.rows[i][c] \notin {"wide", "absent"}
NullKey == \E t \in job.keys : MapRow(RowOf(1), job.mapping)[t] = NullValue
TableHoldsRows ==
  made # NoTableYet /\ Uniform /\ ~NullKey =>
    \A i \in DOMAIN job.rows : Fits(MapRow(RowOf(i), job.mapping), made)

\* Not kept by the code: the same of rows whose types differ, of wide numbers ("int" is
\* inferred from any integer), and of keys that are objects ("key columns get an indexable
\* type", bridge.ts).
TableHoldsAll ==
  made # NoTableYet => \A i \in DOMAIN job.rows : Fits(MapRow(RowOf(i), job.mapping), made)
KeysAreIndexable ==
  job.dest = "database" /\ cursor > 0 => Creatable(TargetColumns(MapRow(RowOf(1), job.mapping)))
ArraysThroughout ==  \* renderBatch is "used when `batchSize > 1`"
  job.batch > 1 => \A e \in DOMAIN entries : entries[e].captured.array
PreviewIsSentAlways == \A e \in DOMAIN entries : SentAsShown(e)

\* What payloads promise the receiver, the preview and the resend.
PayloadSafe == PayloadTypeOK /\ OwnValues /\ PreviewIsSent /\ ResendWritesSame /\ TableHoldsRows
=============================================================================
