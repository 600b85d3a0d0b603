----------------------------- MODULE WatchEngine -----------------------------
(***************************************************************************)
(* The change detection of watch hooks (packages/core/src/hooks/watch.ts):  *)
(* which page of the source a poll reads, which of its rows are new, and    *)
(* where the cursor goes.                                                   *)
(*                                                                         *)
(* A source table is a function from the keys of its rows to the value of   *)
(* the tracked column; Null is below every value.  A trigger has a strategy *)
(* and the greatest page (maxPerPoll, or maxTracked for a snapshot).        *)
(***************************************************************************)
EXTENDS Naturals, Sequences, FiniteSetsExt, Functions

CONSTANT NullsFirst   \* the source sorts NULLs before the values, ascending

ASSUME NullsFirstAssumption == NullsFirst \in BOOLEAN

Null == 0
Strategies == {"increment", "timestamp", "snapshot"}

\* value or ts, boundaryKeys, and seen, the oldest key first.
Cursor(Keys) == [strategy : Strategies, at : Nat, keys : SUBSET Keys, seen : Seq(Keys)]

EmptyCursor(strategy) ==
  [strategy |-> strategy, at |-> Null, keys |-> {}, seen |-> <<>>]

\* Neither the snapshot strategy nor a cursor of another strategy has a column
\* to filter and to sort by.
Follows(trigger, cursor) ==
  trigger.strategy = cursor.strategy /\ trigger.strategy # "snapshot"

\* Mutant of Candidates: the timestamp strategy asks for greater values only.
StrictlyGreater(table, trigger, cursor) ==
  {k \in DOMAIN table : (Follows(trigger, cursor) /\ cursor.at # Null) =>
                           table[k] > cursor.at}

\* watchQuery's filter; NULL compares with nothing.
Candidates(table, trigger, cursor) ==
  {k \in DOMAIN table : (Follows(trigger, cursor) /\ cursor.at # Null) =>
     \/ table[k] > cursor.at
     \/ trigger.strategy = "timestamp" /\ table[k] = cursor.at}

Precedes(u, v) ==
  IF NullsFirst THEN u < v ELSE u # Null /\ (v = Null \/ u < v)

PageSize(trigger, rows) ==
  IF Cardinality(rows) < trigger.max THEN Cardinality(rows) ELSE trigger.max

\* The pages the source may answer with: the first rows in ascending order of
\* the tracked column, equal ones in any order.  runPoll passes watchQuery no
\* primary key, so there are no tiebreakers, and no order at all in a snapshot.
Pages(table, trigger, cursor) ==
  LET rows == Candidates(table, trigger, cursor)
      Sorted(k, l) == Follows(trigger, cursor) => ~Precedes(table[l], table[k])
  IN  {page \in [1 .. PageSize(trigger, rows) -> rows] :
         \A i \in DOMAIN page :
           /\ \A j \in DOMAIN page : i < j => page[i] # page[j] /\ Sorted(page[i], page[j])
           /\ \A k \in rows \ Range(page) : Sorted(page[i], k)}

\* The keys advanceCursor filters out of the page.
Emitted(trigger, cursor) ==
  IF Follows(trigger, cursor) THEN cursor.keys ELSE Range(cursor.seen)

\* The page without some keys, in its order (Array.filter).
Without(page, keys) ==
  LET kept[i \in 0 .. Len(page)] ==
        IF i = 0 THEN <<>>
        ELSE IF page[i] \in keys THEN kept[i - 1] ELSE Append(kept[i - 1], page[i])
  IN  kept[Len(page)]

NewRows(trigger, cursor, page) == Without(page, Emitted(trigger, cursor))

\* Mutant of TopOf: the cursor skips to the end of the table.
TopOfTable(table, page) == Max({table[k] : k \in DOMAIN table} \union {Null})

\* The greatest tracked value of the page; Null if it has none.
TopOf(table, page) == Max({table[k] : k \in Range(page)} \union {Null})

\* Mutant of Boundary: the keys remembered are replaced at an equal timestamp.
ReplacedBoundary(table, cursor, page, top) == {k \in Range(page) : table[k] = top}

\* The keys emitted at timestamp top.
Boundary(table, cursor, page, top) ==
  {k \in Range(page) : table[k] = top}
    \union (IF top = cursor.at THEN cursor.keys ELSE {})

Newest(keys, n) ==
  IF Len(keys) > n THEN SubSeq(keys, Len(keys) - n + 1, Len(keys)) ELSE keys

\* advanceCursor: a page without a value leaves the cursor where it is.
NextCursor(table, trigger, cursor, page) ==
  LET top  == TopOf(table, page)
      seen == cursor.seen \o NewRows(trigger, cursor, page)
  IN  IF ~Follows(trigger, cursor)
      THEN [EmptyCursor("snapshot") EXCEPT !.seen =
              IF trigger.strategy = "snapshot" THEN Newest(seen, trigger.max) ELSE seen]
      ELSE IF top = Null THEN cursor
      ELSE [cursor EXCEPT !.at = top,
              !.keys = IF trigger.strategy = "timestamp"
                       THEN Boundary(table, cursor, page, top) ELSE {}]
==============================================================================
