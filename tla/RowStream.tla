------------------------------ MODULE RowStream ------------------------------
(***************************************************************************)
(* The row stream of a replay run (streamTable and streamQuery of          *)
(* hook-run.processor.ts) and its position, over the browse() of each      *)
(* engine's adapter, while others write to the source and while the run is *)
(* interrupted and taken up again.  Batches are of one row, so that a      *)
(* row's index is the sequence of its entry.  A result is the set of its   *)
(* keys, which are read in ascending order.                                *)
(***************************************************************************)
EXTENDS KeyOrder, FiniteSetsExt

CONSTANTS
  NumKeys,       \* the source's rows have primary keys 1 .. NumKeys
  Sources,       \* scenarios: see SourceType
  PageSize,      \* hook.delivery.pageSize
  MaxChanges, MaxBreaks

Rowids == 1 .. NumKeys

\* kind: how the source is read; breaks and changes: what may happen meanwhile.
SourceType == [kind : {"sql", "objectid", "redis", "query"},
               keyset : BOOLEAN, cap : Nat, breaks : Nat, changes : SUBSET {"insert", "delete"}]

ASSUME StreamConstants ==
  /\ NumKeys \in Nat /\ PageSize \in Nat \ {0} /\ MaxChanges \in Nat /\ MaxBreaks \in Nat
  /\ Sources \subseteq SourceType

VARIABLES
  source,      \* the scenario
  present,     \* keys of the rows in the source
  stayed,      \* history: keys that were there all the time
  reader,      \* the generator's and the loop's locals
  position,    \* the run's row: cursorOffset, status
  settled,     \* hook_deliveries: sequence -> key of the row it was sent with
  delivered,   \* history: key -> times sent
  changes, breaks, unrecorded   \* unrecorded: interruptions between a delivery and its entry

streamVars ==
  <<source, present, stayed, reader, position, settled, delivered, changes, breaks, unrecorded>>

NoKey == 0
Closed == [step |-> "closed", page |-> {}, more |-> FALSE, lastKey |-> NoKey, index |-> 0]

StreamInit ==
  /\ source \in Sources /\ present \in {1 .. n : n \in {NumKeys - 1, NumKeys}} /\ stayed = present
  /\ reader = Closed /\ position = [offset |-> 0, status |-> "queued"]
  /\ settled = [i \in {} |-> NoKey] /\ delivered = [k \in Rowids |-> 0]
  /\ changes = 0 /\ breaks = 0 /\ unrecorded = 0

StreamAt(step) == reader.step = step

\* browse with the filter `key > bound` (no filter for NoKey).
SqlRows(bound) == {k \in present : k > bound}
\* ObjectIds are handed out as strings, and a string bound matches strings only.
MongoRows(bound) == IF bound = NoKey THEN present ELSE {}
\* SCAN with MATCH *bound*: a filter on "key" is taken as a pattern, whatever its operator.
RedisRows(bound) == IF bound = NoKey THEN present ELSE present \intersect {bound}

Bounded(bound) ==
  CASE source.kind = "objectid" -> MongoRows(bound)
    [] source.kind = "redis" -> RedisRows(bound)
    [] OTHER -> SqlRows(bound)

\* One page, and whether a row was found beyond it (the probe of limit + 1).
Page(bound, offset) ==
  [rows |-> Slice(Bounded(bound), offset, PageSize),
   more |-> Cardinality(Bounded(bound)) > offset + PageSize]

\* A run that is taken up seeks the row before its cursor.
SeekKey(offset) ==
  LET row == Slice(present, offset - 1, 1) IN IF row = {} THEN NoKey ELSE Min(row)

\* process: the run is running, and the stream starts at the cursor.
OpenTable ==
  /\ StreamAt("closed") /\ position.status = "queued" /\ source.kind # "query"
  /\ position' = [position EXCEPT !.status = "running"]
  /\ reader' = [Closed EXCEPT !.step = "fetch", !.index = position.offset,
                 !.lastKey = IF source.keyset /\ position.offset > 0
                             THEN SeekKey(position.offset) ELSE NoKey]
  /\ UNCHANGED <<source, present, stayed, settled, delivered, changes, breaks, unrecorded>>

\* streamQuery: the statement runs once more; a result that was capped fails the run.
OpenQuery ==
  /\ StreamAt("closed") /\ position.status = "queued" /\ source.kind = "query"
  /\ \/ /\ Cardinality(present) > source.cap
        /\ position' = [position EXCEPT !.status = "failed"] /\ UNCHANGED reader
     \/ /\ Cardinality(present) <= source.cap
        /\ position' = [position EXCEPT !.status = "running"]
        /\ reader' = [Closed EXCEPT !.step = "rows", !.index = position.offset,
                       !.page = Slice(present, position.offset, Cardinality(present))]
  /\ UNCHANGED <<source, present, stayed, settled, delivered, changes, breaks, unrecorded>>

\* Mutant of FetchPage: each page goes on at an offset.
FetchByOffset ==
  /\ StreamAt("fetch")
  /\ LET page == Page(NoKey, reader.index) IN
     reader' = [reader EXCEPT !.step = "rows", !.page = page.rows, !.more = page.more]
  /\ UNCHANGED <<source, present, stayed, position, settled, delivered, changes, breaks, unrecorded>>

\* The next page: after the last key, or at the offset of the next index.
FetchPage ==
  /\ StreamAt("fetch")
  /\ LET page == IF source.keyset THEN Page(reader.lastKey, 0) ELSE Page(NoKey, reader.index) IN
     reader' = [reader EXCEPT !.step = "rows", !.page = page.rows, !.more = page.more]
  /\ UNCHANGED <<source, present, stayed, position, settled, delivered, changes, breaks, unrecorded>>

\* The row the loop is at: the first of the page that is left.
Row == Min(reader.page)

\* Mutant of SendRow: what an earlier attempt of the run settled is sent again.
SendAgain ==
  /\ StreamAt("rows") /\ reader.page # {}
  /\ delivered' = [delivered EXCEPT ![Row] = @ + 1]
  /\ reader' = [reader EXCEPT !.step = "record"]
  /\ UNCHANGED <<source, present, stayed, position, settled, changes, breaks, unrecorded>>

\* flush: a settled sequence is passed over, whatever row has its index now.
SendRow ==
  /\ StreamAt("rows") /\ reader.page # {}
  /\ IF reader.index \in DOMAIN settled
     THEN UNCHANGED delivered /\ reader' = [reader EXCEPT !.step = "cursor"]
     ELSE /\ delivered' = [delivered EXCEPT ![Row] = @ + 1]
          /\ reader' = [reader EXCEPT !.step = "record"]
  /\ UNCHANGED <<source, present, stayed, position, settled, changes, breaks, unrecorded>>

\* recordDelivery: the entry, with the row's key.
RecordRow ==
  /\ StreamAt("record") /\ reader' = [reader EXCEPT !.step = "cursor"]
  /\ settled' = [i \in DOMAIN settled \union {reader.index} |->
                   IF i = reader.index THEN Row ELSE settled[i]]
  /\ UNCHANGED <<source, present, stayed, position, delivered, changes, breaks, unrecorded>>

\* Mutant of SetCursor: the cursor counts whole pages.
SetCursorToPage ==
  /\ StreamAt("cursor") /\ position' = [position EXCEPT !.offset = @ + PageSize]
  /\ reader' = [reader EXCEPT !.step = "rows", !.page = @ \ {Row}, !.index = @ + 1,
                              !.lastKey = Row]
  /\ UNCHANGED <<source, present, stayed, settled, delivered, changes, breaks, unrecorded>>

\* setCursor: the run goes on after this row when it is taken up again.
SetCursor ==
  /\ StreamAt("cursor") /\ position' = [position EXCEPT !.offset = reader.index + 1]
  /\ reader' = [reader EXCEPT !.step = "rows", !.page = @ \ {Row}, !.index = @ + 1,
                              !.lastKey = Row]
  /\ UNCHANGED <<source, present, stayed, settled, delivered, changes, breaks, unrecorded>>

\* A page without a successor is the end of the table; a query's only page always is.
PageEnds ==
  /\ StreamAt("rows") /\ reader.page = {}
  /\ IF reader.more THEN reader' = [reader EXCEPT !.step = "fetch"] /\ UNCHANGED position
     ELSE reader' = Closed /\ position' = [position EXCEPT !.status = "completed"]
  /\ UNCHANGED <<source, present, stayed, settled, delivered, changes, breaks, unrecorded>>

\* A crash, or a stop: the run is queued again and starts over at its cursor.
Break ==
  /\ ~StreamAt("closed") /\ breaks < Min({MaxBreaks, source.breaks}) /\ breaks' = breaks + 1
  /\ reader' = Closed /\ position' = [position EXCEPT !.status = "queued"]
  /\ unrecorded' = unrecorded + (IF StreamAt("record") THEN 1 ELSE 0)
  /\ UNCHANGED <<source, present, stayed, settled, delivered, changes>>

ChangeRow(kind) ==
  /\ kind \in source.changes /\ changes < MaxChanges /\ changes' = changes + 1
  /\ UNCHANGED <<source, reader, position, settled, delivered, breaks, unrecorded>>

RowAppears(k) == /\ ChangeRow("insert") /\ k \notin present
                /\ present' = present \union {k} /\ UNCHANGED stayed
RowGoes(k) == /\ ChangeRow("delete") /\ k \in present
                /\ present' = present \ {k} /\ stayed' = stayed \ {k}

StreamNext ==
  \/ OpenTable \/ OpenQuery \/ FetchPage \/ SendRow \/ RecordRow \/ SetCursor \/ PageEnds \/ Break
  \/ \E k \in Rowids : RowAppears(k) \/ RowGoes(k)

StreamSpec == StreamInit /\ [][StreamNext]_streamVars

(***************************** properties *********************************)

\* The types of the reader's locals and of the run's row.
StreamTypeOK ==
  /\ present \subseteq Rowids /\ stayed \subseteq present
  /\ reader.step \in {"closed", "fetch", "rows", "record", "cursor"}
  /\ reader.page \subseteq Rowids /\ reader.lastKey \in {NoKey} \union Rowids
  /\ position.status \in {"queued", "running", "failed", "completed"}
  /\ position.offset \in 0 .. NumKeys

\* A completed run has sent every row that was in the source from its start to its end:
\* over page bounds, rows that others insert and delete meanwhile, and interruptions
\* ("replay every row", hook-run.processor.ts:281-283 and :330).
StayersArrive ==
  position.status = "completed" => \A k \in stayed : delivered[k] > 0

\* One for each time a row was sent again.
Again == UNION {{k} \X (2 .. delivered[k]) : k \in Rowids}
\* A row is sent twice only when the run was interrupted between sending it and recording
\* it: pages do not overlap, and a settled sequence is not sent again.
SentTwiceByBreak ==
  Cardinality(Again) <= unrecorded

\* What the stream of rows promises the run.
StreamSafe == StreamTypeOK /\ StayersArrive /\ SentTwiceByBreak
==============================================================================
