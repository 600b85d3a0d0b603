------------------------------- MODULE GridEdit -------------------------------
(***************************************************************************)
(* Browsing and editing a table (data-grid.tsx, row-editor-dialog.tsx) and *)
(* what the adapters do with an edit (insertRow, updateRow, deleteRow).    *)
(*                                                                         *)
(* The browser caches the pages it got and shows the last one while        *)
(* another page or table is under way (placeholderData).  A cell under     *)
(* edit is known by its place in the grid, a row to delete by the row that *)
(* was clicked.  Writes are sent with the primary key; when one has been   *)
(* answered every page is invalid, and the one on the screen is asked      *)
(* again.  The cache is TanStack Query's: a request that is under way is   *)
(* given up for a new one only when its page has data.  Another client     *)
(* writes to the same tables.                                              *)
(***************************************************************************)
EXTENDS Integers, FiniteSets, FiniteSetsExt, Sequences

CONSTANTS Relations,    \* tables
          RowKeys,      \* values of the primary key, which rows are ordered by
          Texts,        \* values of the other column
          Limit,        \* rows of a page
          Engine,       \* "sql", "mongodb" or "redis"
          MaxWrites,    \* bound: writes sent
          MaxSteps      \* bound: pages and tables gone to, refreshes, writes of the other client

ASSUME GridAssumption ==
  /\ RowKeys \subseteq Nat /\ Limit \in Nat \ {0} /\ Engine \in {"sql", "mongodb", "redis"}
  /\ {MaxWrites, MaxSteps} \subseteq Nat

VARIABLES database, \* of each table and key the value of the row, "gone" if there is none
          place,    \* the table selected, and the offset
          grid,     \* the page shown and the table it was read from
          pages,    \* of each place its page and its request
          editing,  \* the cell under edit: its row in the grid, the draft, and the row it was opened on
          asking,   \* the row whose removal waits for the user's confirmation
          writes,   \* writes under way
          steps,    \* counts towards MaxSteps
          alone     \* history: the other client wrote nothing yet

gridVars == <<database, place, grid, pages, editing, asking, writes, steps, alone>>

Places == 0 .. Cardinality(RowKeys)
WriteIds == 1 .. MaxWrites
NoAim == [table |-> CHOOSE t \in Relations : TRUE, key |-> CHOOSE k \in RowKeys : TRUE]
NoPage == [table |-> NoAim.table, rows |-> <<>>, more |-> FALSE]
Visitable == [table : Relations, offset : Places]
\* behind, history: the request was kept by an invalidation although it had been read.
NotRead == [has |-> FALSE, page |-> NoPage, at |-> "idle", answer |-> NoPage, behind |-> FALSE]
NoEdit == [row |-> 0, column |-> "value", draft |-> "none", to |-> NoAim.key, aim |-> NoAim]
NoAsk == [on |-> FALSE, table |-> NoAim.table, key |-> NoAim.key, hasty |-> FALSE]
NoWrite == [at |-> "none", op |-> "update", table |-> NoAim.table, key |-> NoAim.key, value |-> "none",
            to |-> NoAim.key, aim |-> NoAim, hasty |-> FALSE]

Aims == [table : Relations, key : RowKeys]
Rows == [key : RowKeys, value : Texts]
PageOf == [table : Relations, rows : UNION {[1 .. n -> Rows] : n \in 0 .. Limit}, more : BOOLEAN]
GridTypeOK ==
  /\ database \in [Relations -> [RowKeys -> Texts \union {"gone"}]]
  /\ place \in Visitable /\ grid \in PageOf
  /\ \A p \in Visitable : pages[p] \in [has : BOOLEAN, page : PageOf, answer : PageOf, behind : BOOLEAN,
                                        at : {"idle", "invalid", "asked", "read"}]
  /\ editing \in [row : 0 .. Limit, column : {"value", "key"}, aim : Aims,
                 draft : Texts \union {"none"}, to : RowKeys]
  /\ asking \in [on : BOOLEAN, table : Relations, key : RowKeys, hasty : BOOLEAN]
  /\ \A i \in WriteIds : writes[i] \in
       [at : {"none", "sent", "done", "failed", "over"}, op : {"update", "rekey", "delete", "insert"}, to : RowKeys,
        table : Relations, key : RowKeys, value : Texts \union {"none"}, aim : Aims, hasty : BOOLEAN]
  /\ steps \in 0 .. MaxSteps /\ alone \in BOOLEAN
  \* Somebody edits or confirms, not both: either takes the focus.
  /\ ~(asking.on /\ editing.row # 0)

IsThere(t, k) == database[t][k] # "gone"
Rank(t, k) == Cardinality({q \in RowKeys : q < k /\ IsThere(t, q)})
Nth(t, i) == CHOOSE k \in RowKeys : IsThere(t, k) /\ Rank(t, k) = i

\* Mutant of Browse: the row more is handed out.
BrowseProbe(p) ==
  LET count == Cardinality({k \in RowKeys : IsThere(p.table, k)})
      size == Min({Limit + 1, Max({count - p.offset, 0})})
  IN  [table |-> p.table, more |-> count > p.offset + Limit,
       rows |-> [i \in 1 .. size |->
                   LET k == Nth(p.table, p.offset + i - 1) IN [key |-> k, value |-> database[p.table][k]]]]

\* browse: one row more than the page tells whether there is a next one.
Browse(p) ==
  LET count == Cardinality({k \in RowKeys : IsThere(p.table, k)})
      size == Min({Limit, Max({count - p.offset, 0})})
  IN  [table |-> p.table, more |-> count > p.offset + Limit,
       rows |-> [i \in 1 .. size |->
                   LET k == Nth(p.table, p.offset + i - 1) IN [key |-> k, value |-> database[p.table][k]]]]

\* The grid of a table that was just opened.
GridInit ==
  /\ database \in {[t \in Relations |-> [k \in RowKeys |-> v]] : v \in Texts}
  /\ place = [table |-> NoAim.table, offset |-> 0] /\ grid = Browse(place)
  /\ pages = [p \in Visitable |-> IF p = place THEN [NotRead EXCEPT !.has = TRUE, !.page = grid] ELSE NotRead]
  /\ editing = NoEdit /\ asking = NoAsk /\ writes = [i \in WriteIds |-> NoWrite]
  /\ steps = 0 /\ alone = TRUE

\* The cache.  A page that is opened joins its request; a page it has may be fresh enough
\* (staleTime) unless it is invalid.  A refetch gives up the request of a page with data.
AsksAnew(e) == [e EXCEPT !.at = "asked", !.answer = NoPage, !.behind = FALSE]
Opened(e) ==
  CASE e.at \in {"asked", "read"} -> {e}
    [] e.has /\ e.at = "idle" -> {e, AsksAnew(e)}
    [] OTHER -> {AsksAnew(e)}
Refetched(e) == IF e.has \/ e.at = "idle" THEN AsksAnew(e) ELSE [e EXCEPT !.behind = @ \/ e.at = "read"]
MadeInvalid(e) == [e EXCEPT !.at = IF @ = "idle" /\ e.has THEN "invalid" ELSE @, !.behind = @ \/ e.at = "read"]

\* Mutant of Invalidates: the page on the screen only.
InvalidatesShown == pages' = [pages EXCEPT ![place] = Refetched(@)]

\* After a write every page of the connection is invalid.
Invalidates ==
  pages' = [p \in Visitable |-> IF p = place THEN Refetched(pages[p]) ELSE MadeInvalid(pages[p])]

\* What the grid shows when p is opened: its page, or what it showed.
ShownAt(p, before) == IF pages[p].has THEN pages[p].page ELSE before

LoadReads(p) ==
  /\ pages[p].at = "asked" /\ pages' = [pages EXCEPT ![p].at = "read", ![p].answer = Browse(p)]
  /\ UNCHANGED <<database, place, grid, editing, asking, writes, steps, alone>>
LoadLands(p) ==
  /\ pages[p].at = "read"
  /\ pages' = [pages EXCEPT ![p] = [@ EXCEPT !.has = TRUE, !.page = pages[p].answer, !.at = "idle",
                                            !.answer = NoPage]]
  /\ grid' = IF p = place THEN pages[p].answer ELSE grid
  /\ UNCHANGED <<database, place, editing, asking, writes, steps, alone>>

\* The focus leaves a cell under edit before anything else is clicked.
Free == editing.row = 0 /\ ~asking.on
\* The rows shown are not of the table selected.
Stale == grid.table # place.table

Goes ==
  /\ Free /\ steps < MaxSteps /\ steps' = steps + 1
  /\ UNCHANGED <<database, editing, asking, writes, alone>>
Visit(p) ==
  /\ Goes /\ place' = p /\ grid' = ShownAt(p, grid)
  /\ \E e \in Opened(pages[p]) : pages' = [pages EXCEPT ![p] = e]
\* The offset is reset by an effect: the new table is first opened at the old one.
SelectTable ==
  \E t \in Relations \ {place.table} :
    LET first == [place EXCEPT !.table = t]
        p == [first EXCEPT !.offset = 0]
    IN  /\ Goes /\ place' = p /\ grid' = ShownAt(p, ShownAt(first, grid))
        /\ \E e \in Opened(pages[first]), f \in Opened(pages[p]) :
             pages' = [pages EXCEPT ![first] = e, ![p] = f]
NextPage == grid.more /\ place.offset + Limit \in Places /\ Visit([place EXCEPT !.offset = @ + Limit])
PreviousPage == place.offset > 0 /\ Visit([place EXCEPT !.offset = Max({0, @ - Limit})])
Refresh == Goes /\ pages' = [pages EXCEPT ![place] = Refetched(@)] /\ UNCHANGED <<place, grid>>

(******************************* editing ***********************************)

HasFreeWrite == \E i \in WriteIds : writes[i].at = "none"
FreeWrite == Min({i \in WriteIds : writes[i].at = "none"})
Send(w) == writes' = [writes EXCEPT ![FreeWrite] = w]

\* A double click on a cell, and what is typed into it.
OpenCell(i, column) ==
  /\ Free /\ HasFreeWrite /\ i <= Len(grid.rows)
  /\ editing' = [row |-> i, column |-> column, aim |-> [table |-> grid.table, key |-> grid.rows[i].key],
                 draft |-> grid.rows[i].value, to |-> grid.rows[i].key]
  /\ UNCHANGED <<database, place, grid, pages, asking, writes, steps, alone>>
Type ==
  /\ editing.row # 0
  /\ IF editing.column = "key" THEN \E k \in RowKeys : editing' = [editing EXCEPT !.to = k]
     ELSE \E text \in Texts : editing' = [editing EXCEPT !.draft = text]
  /\ UNCHANGED <<database, place, grid, pages, asking, writes, steps, alone>>
Escape ==
  /\ editing.row # 0 /\ editing' = NoEdit
  /\ UNCHANGED <<database, place, grid, pages, asking, writes, steps, alone>>

\* The row that the grid shows now at the place of the cell, and a table that is
\* selected now, are what is written to.
EditTarget == [table |-> place.table, key |-> grid.rows[editing.row].key]
\* The rows moved under the cell, or were another table's.
Moved == EditTarget # editing.aim

\* draft === original.
Unchanged ==
  LET row == grid.rows[editing.row]
  IN  IF editing.column = "key" THEN editing.to = row.key ELSE editing.draft = row.value

CommitEdit ==
  /\ editing.row # 0 /\ editing' = NoEdit
  /\ IF editing.row > Len(grid.rows) \/ Unchanged THEN UNCHANGED writes
     ELSE Send([NoWrite EXCEPT !.at = "sent", !.table = EditTarget.table, !.key = EditTarget.key,
                  !.aim = editing.aim, !.hasty = Moved,
                  !.op = IF editing.column = "key" THEN "rekey" ELSE "update",
                  !.value = editing.draft, !.to = editing.to])
  /\ UNCHANGED <<database, place, grid, pages, asking, steps, alone>>

\* The click on the bin captures the row and the selected table, which the dialog keeps.
AskDelete(i) ==
  /\ Free /\ HasFreeWrite /\ i <= Len(grid.rows)
  /\ asking' = [on |-> TRUE, table |-> place.table, key |-> grid.rows[i].key, hasty |-> Stale]
  /\ UNCHANGED <<database, place, grid, pages, editing, writes, steps, alone>>
\* Mutant of ConfirmDelete: the first row the grid shows by now is removed.
ConfirmFirst(yes) ==
  /\ asking.on /\ asking' = NoAsk
  /\ IF yes /\ grid.rows # <<>>
     THEN Send([NoWrite EXCEPT !.at = "sent", !.op = "delete", !.table = asking.table,
                  !.key = grid.rows[1].key, !.aim = [table |-> asking.table, key |-> asking.key],
                  !.hasty = asking.hasty])
     ELSE UNCHANGED writes
  /\ UNCHANGED <<database, place, grid, pages, editing, steps, alone>>

ConfirmDelete(yes) ==
  /\ asking.on /\ asking' = NoAsk
  /\ IF yes THEN Send([NoWrite EXCEPT !.at = "sent", !.op = "delete", !.table = asking.table,
                         !.key = asking.key, !.aim = [table |-> asking.table, key |-> asking.key],
                         !.hasty = asking.hasty])
     ELSE UNCHANGED writes
  /\ UNCHANGED <<database, place, grid, pages, editing, steps, alone>>

SaveRow(k, v) ==
  /\ Free /\ HasFreeWrite
  /\ Send([NoWrite EXCEPT !.at = "sent", !.op = "insert", !.table = place.table, !.key = k,
             !.value = v, !.aim = [table |-> place.table, key |-> k]])
  /\ UNCHANGED <<database, place, grid, pages, editing, asking, steps, alone>>

(******************************* the adapters ******************************)

\* What an adapter makes of the table, or an error: redis sets and never fails, mongodb
\* does not change an _id, and no engine tells the grid that there was no row.
InsertRow(w) ==
  IF IsThere(w.table, w.key) /\ Engine # "redis" THEN {}
  ELSE {[database[w.table] EXCEPT ![w.key] = w.value]}
\* Mutant of UpdateRow: the update inserts a row that is not there.
UpdateOrInsert(w) == {[database[w.table] EXCEPT ![w.key] = w.value]}

UpdateRow(w) ==
  IF IsThere(w.table, w.key) \/ Engine = "redis"
  THEN {[database[w.table] EXCEPT ![w.key] = w.value]} ELSE {database[w.table]}
ChangeKey(w) ==
  CASE Engine = "mongodb" -> {}
    [] Engine = "redis" -> {database[w.table]}
    [] OTHER ->
         IF ~IsThere(w.table, w.key) THEN {database[w.table]}
         ELSE IF IsThere(w.table, w.to) THEN {}
         ELSE {[database[w.table] EXCEPT ![w.to] = database[w.table][w.key], ![w.key] = "gone"]}
DeleteRow(w) == {[database[w.table] EXCEPT ![w.key] = "gone"]}
Effects(w) ==
  CASE w.op = "insert" -> InsertRow(w) [] w.op = "update" -> UpdateRow(w)
    [] w.op = "rekey" -> ChangeKey(w) [] w.op = "delete" -> DeleteRow(w)

Applies(i) ==
  /\ writes[i].at = "sent"
  /\ IF Effects(writes[i]) = {}
     THEN UNCHANGED database /\ writes' = [writes EXCEPT ![i].at = "failed"]
     ELSE /\ \E rows \in Effects(writes[i]) : database' = [database EXCEPT ![writes[i].table] = rows]
          /\ writes' = [writes EXCEPT ![i].at = "done"]
  /\ UNCHANGED <<place, grid, pages, editing, asking, steps, alone>>

\* The answer: a toast, and after a success the invalidation.
WriteLands(i) ==
  /\ writes[i].at \in {"done", "failed"}
  /\ writes' = [writes EXCEPT ![i] = [NoWrite EXCEPT !.at = "over"]]
  /\ IF writes[i].at = "done" THEN Invalidates ELSE UNCHANGED pages
  /\ UNCHANGED <<database, place, grid, editing, asking, steps, alone>>

OtherWrites ==
  /\ steps < MaxSteps /\ steps' = steps + 1 /\ alone' = FALSE
  /\ \E t \in Relations, k \in RowKeys, v \in Texts \union {"gone"} :
       database[t][k] # v /\ database' = [database EXCEPT ![t][k] = v]
  /\ UNCHANGED <<place, grid, pages, editing, asking, writes>>

GridNext ==
  \/ \E p \in Visitable : LoadReads(p) \/ LoadLands(p)
  \/ SelectTable \/ NextPage \/ PreviousPage \/ Refresh
  \/ \E i \in 1 .. Limit : AskDelete(i) \/ \E column \in {"key", "value"} : OpenCell(i, column)
  \/ Type \/ Escape \/ CommitEdit
  \/ \E yes \in BOOLEAN : ConfirmDelete(yes)
  \/ \E k \in RowKeys, v \in Texts : SaveRow(k, v)
  \/ \E i \in WriteIds : Applies(i) \/ WriteLands(i)
  \/ OtherWrites

\* The requests of the page on the screen and of the writes are answered.
GridFairness ==
  /\ WF_gridVars(\E p \in {place} : LoadReads(p) \/ LoadLands(p))
  /\ WF_gridVars(\E i \in WriteIds : Applies(i) \/ WriteLands(i))
GridSpec == GridInit /\ [][GridNext]_gridVars /\ GridFairness

(******************************* properties ********************************)

\* A write touches the row the user clicked, however late the confirmation comes and
\* whatever page has landed by then, unless the rows shown were still another table's
\* (hasty) or moved under an open cell.
WriteHitsSeen ==
  \A i \in WriteIds :
    writes[i].at # "none" /\ ~writes[i].hasty =>
      writes[i].aim = [table |-> writes[i].table, key |-> writes[i].key]

\* An edit makes no row: one that another client removed stays removed ("cannot update a
\* row without a primary key identity", updateRow of the adapters).
EditMakesNoRow ==
  [][\A i \in WriteIds :
       writes[i].at = "sent" /\ writes'[i].at = "done" /\ writes[i].op # "insert" =>
         Cardinality({k \in RowKeys : database'[writes[i].table][k] # "gone"})
           <= Cardinality({k \in RowKeys : IsThere(writes[i].table, k)})]_gridVars

\* After all writes were answered, the grid comes to show what the database holds, as far
\* as this browser changed it, whichever pages it has cached; unless the first load of the
\* page was read before the write and kept by the invalidation.
PageArrives == []<>(alone => grid = Browse(place) \/ pages[place].behind)

\* What the grid promises the user.
GridPromise == []GridTypeOK /\ []WriteHitsSeen /\ EditMakesNoRow /\ PageArrives
==============================================================================
