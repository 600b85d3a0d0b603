-------------------------------- MODULE Backup --------------------------------
(***************************************************************************)
(* Backup and restore of one table (backup and restore of the adapters).   *)
(*                                                                         *)
(* A backup reads its origin in steps while others write to it: pages by   *)
(* LIMIT and OFFSET in the order of the key (SQL), a cursor (MongoDB), or  *)
(* first the keys and then their values (Redis).  A restore writes what    *)
(* was read in steps too, none of which is undone when a later one fails;  *)
(* MongoDB's does not even tell when its insert fails.                     *)
(***************************************************************************)
EXTENDS KeyOrder, Sequences, Functions

CONSTANTS Ids,          \* keys of rows, in order
          Contents,     \* what a row holds
          FetchBatch,   \* BACKUP_FETCH_BATCH, or the chunk of keys
          RestoreBatch, \* RESTORE_BATCH
          MaxRowChanges,\* bound: writes of others during the backup
          MaxFailures   \* bound: statements that fail

ASSUME BackupAssumption ==
  /\ Ids \subseteq Nat \ {0} /\ IsFiniteSet(Ids) /\ Contents # {} /\ {FetchBatch, RestoreBatch} \subseteq Nat \ {0}
  /\ {MaxRowChanges, MaxFailures} \subseteq Nat /\ Contents \intersect {"gone", "empty"} = {}

VARIABLES engine,   \* "sql", "mongodb" or "redis"
          origin,   \* content of each row, "gone" if there is none
          dump,     \* what the backup holds: a sequence of rows
          scan,     \* where it is: its step, the offset or the last key, the keys to read
          target,   \* the database restored into: its rows, and whether it knows the key
          write,    \* the restore: its step and outcome, the rows written, and whether an error was swallowed
          rowChanges, failures,  \* count towards MaxRowChanges and MaxFailures
          steady,   \* history: rows that nobody touched since the backup began
          deleted   \* history: others deleted a row

backupVars == <<engine, origin, dump, scan, target, write, rowChanges, failures, steady, deleted>>

Held == Contents \union {"gone", "empty"}
DumpRows == [key : Ids, content : Held]
BackupTypeOK ==
  /\ engine \in {"sql", "mongodb", "redis"} /\ origin \in [Ids -> Contents \union {"gone"}]
  /\ dump \in Seq(DumpRows)
  /\ scan.step \in {"keys", "rows", "done"} /\ scan.at \in Nat /\ scan.left \in Seq(Ids)
  /\ target.rows \in [Ids -> Held] /\ target.keyed \in BOOLEAN /\ \A k \in Ids : target.more[k] \in Nat
  /\ write.step \in {"idle", "rows", "set", "ok", "failed"} /\ write.at \in 0 .. Len(dump) /\ write.tries \in Nat
  /\ write.lost \in BOOLEAN
  /\ steady \subseteq Ids /\ deleted \in BOOLEAN
  /\ rowChanges \in 0 .. MaxRowChanges /\ failures \in 0 .. MaxFailures
  \* A restore starts from a whole backup, and Redis sets only what it deleted.
  /\ write.step # "idle" => scan.step = "done"
  /\ write.lost => engine = "mongodb"
  /\ write.step = "set" => engine = "redis" /\ target.rows[dump[write.at + 1].key] = "gone"

Gone == [k \in Ids |-> "gone"]
Kept(t) == {k \in Ids : t[k] # "gone"}

BackupInit ==
  /\ engine \in {"sql", "mongodb", "redis"} /\ origin \in [Ids -> {CHOOSE c \in Contents : TRUE, "gone"}]
  /\ dump = <<>> /\ scan = [step |-> IF engine = "redis" THEN "keys" ELSE "rows", at |-> 0, left |-> <<>>]
  /\ \E rows \in {Gone, origin}, keyed \in BOOLEAN :
       target = [rows |-> rows, keyed |-> keyed, more |-> [k \in Ids |-> 0]]
  /\ target.keyed \/ (target.rows = Gone /\ engine = "sql")
  /\ write = [step |-> "idle", at |-> 0, tries |-> 0, lost |-> FALSE] /\ rowChanges = 0 /\ failures = 0
  /\ steady = Ids /\ deleted = FALSE

RowsOf(ks) == [i \in DOMAIN ks |-> [key |-> ks[i], content |-> origin[ks[i]]]]
Upto(n, s) == SubSeq(s, 1, IF n < Len(s) THEN n ELSE Len(s))
Past(n, s) == SubSeq(s, n + 1, Len(s))

\* Others write to the database that is backed up.
Changes ==
  /\ scan.step # "done" /\ rowChanges < MaxRowChanges /\ rowChanges' = rowChanges + 1
  /\ \E k \in Ids, c \in Contents \union {"gone"} :
       /\ origin[k] # c /\ origin' = [origin EXCEPT ![k] = c]
       /\ steady' = steady \ {k}
       /\ deleted' = (deleted \/ c = "gone")
  /\ UNCHANGED <<engine, dump, scan, target, write, failures>>

(******************************* backup ************************************)

Reads(rows, next) ==
  /\ dump' = dump \o rows /\ scan' = next
  /\ UNCHANGED <<engine, origin, target, write, rowChanges, failures, steady, deleted>>

\* Mutant of PageReads: a full page is taken for the last one.
FullPageReads ==
  /\ engine = "sql" /\ scan.step = "rows"
  /\ LET ks == Upto(FetchBatch, Past(scan.at, Ordered(Kept(origin))))
     IN  Reads(RowsOf(ks), [scan EXCEPT !.at = @ + Len(ks),
                                        !.step = IF Len(ks) <= FetchBatch THEN "done" ELSE @])

\* forEachRowBatch: a short page is the last one.
PageReads ==
  /\ engine = "sql" /\ scan.step = "rows"
  /\ LET ks == Upto(FetchBatch, Past(scan.at, Ordered(Kept(origin))))
     IN  Reads(RowsOf(ks), [scan EXCEPT !.at = @ + Len(ks),
                                        !.step = IF Len(ks) < FetchBatch THEN "done" ELSE @])

\* MongoDB's cursor goes on after the last document it handed out.
CursorReads ==
  /\ engine = "mongodb" /\ scan.step = "rows"
  /\ LET ks == Upto(FetchBatch, Ordered({k \in Kept(origin) : k > scan.at}))
     IN  Reads(RowsOf(ks), IF ks = <<>> THEN [scan EXCEPT !.step = "done"]
                           ELSE [scan EXCEPT !.at = ks[Len(ks)]])

ScanReads ==
  /\ engine = "redis" /\ scan.step = "keys"
  /\ Reads(<<>>, [scan EXCEPT !.step = "rows", !.left = Ordered(Kept(origin))])
\* readKey: a key that is gone by now has no value, and goes into the backup all the same.
\* Of its two calls, TYPE and the value, the first that finds no key decides.
KeysRead ==
  /\ engine = "redis" /\ scan.step = "rows"
  /\ LET left == Past(FetchBatch, scan.left)
     IN  Reads(RowsOf(Upto(FetchBatch, scan.left)),
               [scan EXCEPT !.left = left, !.step = IF left = <<>> THEN "done" ELSE "rows"])

(******************************* restore ***********************************)

restoreStays == <<engine, origin, dump, scan, rowChanges, steady, deleted>>

\* Again from the first row, whatever came of the last time.
RestoreBegins ==
  /\ scan.step = "done" /\ write.step \in {"idle", "failed", "ok"} /\ write.tries <= MaxFailures
  /\ write' = [step |-> "rows", at |-> 0, tries |-> write.tries + 1, lost |-> FALSE]
  /\ UNCHANGED <<restoreStays, target, failures>>

RestoreEnds ==
  /\ write.step = "rows" /\ write.at = Len(dump) /\ write' = [write EXCEPT !.step = "ok"]
  /\ UNCHANGED <<restoreStays, target, failures>>

RestoreFails == write' = [write EXCEPT !.step = "failed"] /\ UNCHANGED target
ABatchIsLeft == write.step = "rows" /\ write.at < Len(dump)
Fault == failures < MaxFailures /\ failures' = failures + 1
\* SQL and Redis: the error of a statement ends the restore.
StatementFails ==
  /\ engine # "mongodb" /\ (ABatchIsLeft \/ write.step = "set")
  /\ Fault /\ RestoreFails
  /\ UNCHANGED restoreStays
\* MongoDB: only getDb, before any insert, can end it with an error.
GetDbFails ==
  /\ engine = "mongodb" /\ ABatchIsLeft
  /\ Fault /\ RestoreFails
  /\ UNCHANGED restoreStays

\* bulkInsert: one statement for a batch.  A table that the restore made has no key, and
\* takes a row again.
BatchInserts ==
  /\ engine = "sql" /\ ABatchIsLeft
  /\ LET rows == Upto(RestoreBatch, Past(write.at, dump))
         ks == {rows[i].key : i \in DOMAIN rows}
     IN  IF target.keyed /\ (ks \intersect Kept(target.rows) # {} \/ Cardinality(ks) < Len(rows))
         THEN RestoreFails
         ELSE /\ target' = [target EXCEPT
                   !.rows = [k \in Ids |-> IF k \in ks THEN (CHOOSE r \in Range(rows) : r.key = k).content ELSE @[k]],
                   !.more = [k \in Ids |-> IF k \in ks /\ target.rows[k] # "gone" THEN @[k] + 1 ELSE @[k]]]
              /\ write' = [write EXCEPT !.at = @ + Len(rows)]
  /\ UNCHANGED <<restoreStays, failures>>

\* Mutant of ManyInserts: an ordered insert stops at the first key that is taken.
OrderedInserts ==
  /\ engine = "mongodb" /\ ABatchIsLeft
  /\ LET taken(r) == target.rows[r.key] # "gone"
         rows == IF \E r \in Range(dump) : taken(r) THEN {} ELSE Range(dump)
     IN  target' = [target EXCEPT !.rows = [k \in Ids |->
                     IF \E r \in rows : r.key = k THEN (CHOOSE r \in rows : r.key = k).content ELSE @[k]]]
  /\ write' = [write EXCEPT !.at = Len(dump)]
  /\ UNCHANGED <<restoreStays, failures>>

Missing == {r \in Range(dump) : target.rows[r.key] = "gone"}
Inserts(rows) ==
  target' = [target EXCEPT !.rows = [k \in Ids |->
              IF \E r \in rows : r.key = k THEN (CHOOSE r \in rows : r.key = k).content ELSE @[k]]]

\* insertMany, unordered, of every document; keys that are taken are passed over in silence.
ManyInserts ==
  /\ engine = "mongodb" /\ ABatchIsLeft
  /\ Inserts(Missing) /\ write' = [write EXCEPT !.at = Len(dump)]
  /\ UNCHANGED <<restoreStays, failures>>
\* A lost connection or rejected documents: some are inserted, the error is swallowed like
\* that of a taken key, and the restore goes on.
InsertsAreLost ==
  /\ engine = "mongodb" /\ ABatchIsLeft /\ Fault
  /\ \E rows \in SUBSET Missing : Inserts(rows)
  /\ write' = [write EXCEPT !.at = Len(dump), !.lost = TRUE]
  /\ UNCHANGED restoreStays

\* Mutant of KeyDeletes: the key is not deleted.
KeyStays ==
  /\ engine = "redis" /\ ABatchIsLeft /\ write' = [write EXCEPT !.step = "set"]
  /\ UNCHANGED target
  /\ UNCHANGED <<restoreStays, failures>>

\* writeKey: a key is deleted, and then set.
KeyDeletes ==
  /\ engine = "redis" /\ ABatchIsLeft /\ write' = [write EXCEPT !.step = "set"]
  /\ target' = [target EXCEPT !.rows[dump[write.at + 1].key] = "gone"]
  /\ UNCHANGED <<restoreStays, failures>>
\* What has no value is an empty string for a key that TYPE did not find, and not set at
\* all for a list, a set or a hash whose value was gone.
Sets(content) == IF content = "gone" THEN {"empty", "gone"} ELSE {content}

\* Mutant of KeySets: after a failure, only new rows are written.
NextSets ==
  /\ write.step = "set" /\ write' = [write EXCEPT !.step = "rows", !.at = @ + 1]
  /\ LET r == dump[write.at + 1]
     IN  \E c \in Sets(r.content) :
           target' = IF write.tries > 1 THEN target ELSE [target EXCEPT !.rows[r.key] = c]
  /\ UNCHANGED <<restoreStays, failures>>

KeySets ==
  /\ write.step = "set" /\ write' = [write EXCEPT !.step = "rows", !.at = @ + 1]
  /\ LET r == dump[write.at + 1]
     IN  \E c \in Sets(r.content) : target' = [target EXCEPT !.rows[r.key] = c]
  /\ UNCHANGED <<restoreStays, failures>>

BackupNext ==
  \/ Changes \/ PageReads \/ CursorReads \/ ScanReads \/ KeysRead
  \/ RestoreBegins \/ RestoreEnds \/ StatementFails \/ GetDbFails
  \/ BatchInserts \/ ManyInserts \/ InsertsAreLost \/ KeyDeletes \/ KeySets
BackupSpec == BackupInit /\ [][BackupNext]_backupVars

(******************************* properties ********************************)

\* "the OUTPUT is unchanged from the previous single-SELECT * implementation"
\* (base-sql-adapter.ts): a row that was there all the time is in the backup as it is,
\* and once, whatever others insert, update and, but for SQL, delete meanwhile.
StayersBackedUp ==
  scan.step = "done" /\ (engine = "sql" => ~deleted) =>
    \A k \in steady \intersect Kept(origin) : [key |-> k, content |-> origin[k]] \in Range(dump)

\* A restore that ends well and swallowed no error leaves every row of the backup in the
\* target, also when it follows one that failed half-way or lost rows in silence; in Redis
\* with the backup's content, and but for keys that were gone before their values were
\* read.  Of a restore of MongoDB that swallowed an error the code tells the user the same
\* number of rows, and it does not hold.
RestoreIsWhole ==
  write.step = "ok" /\ ~write.lost =>
    \A r \in Range(dump) :
      /\ r.content # "gone" => target.rows[r.key] # "gone"
      /\ engine = "redis" /\ ~deleted => target.rows[r.key] = r.content

\* What backup and restore promise.
BackupSafe == BackupTypeOK /\ StayersBackedUp /\ RestoreIsWhole
==============================================================================
