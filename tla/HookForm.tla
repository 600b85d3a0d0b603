------------------------------- MODULE HookForm -------------------------------
(***************************************************************************)
(* The form that makes and edits a hook (hook-builder.tsx).                *)
(*                                                                         *)
(* The form stays mounted, so that what it held before is there when it    *)
(* opens again: an effect resets it, and asks for the hook to edit.  The   *)
(* columns come from a page of the selected table; while that is under way *)
(* the last page goes on being shown.  Columns are kept or dropped by name *)
(* in a second effect, which remembers what it was last applied to.        *)
(***************************************************************************)
EXTENDS Integers, FiniteSets

CONSTANTS Hooks,       \* ids of hooks
          Starts,      \* the hooks there are at first
          SourceTables, Columns, Identity,  \* source tables, their columns, and their key (a column or "none")
          MaxOpens,    \* bound: times the form is opened
          MaxClicks    \* bound: changes made in the form

NoTable == "none"

ASSUME FormAssumption ==
  /\ {MaxOpens, MaxClicks} \subseteq Nat /\ NoTable \notin SourceTables
  /\ \A t \in SourceTables : Identity[t] \in Columns[t] \union {"none"}

VARIABLES hooks,    \* server: the hooks, a subset of the ids to their configurations
          editor,   \* the store: open or not, and the hook under edit
          form,     \* the fields of the form
          included, \* columns ticked
          applied,  \* appliedKey: what the columns were last initialised for
          page,     \* the table whose page is shown
          gets,     \* requests for a hook, one of each opening
          save,     \* the request that saves
          opens, clicks,  \* count towards MaxOpens and MaxClicks
          touched,  \* history: the user changed the form since it opened
          strayed   \* history: a click or a save met the page of another table

formVars == <<hooks, editor, form, included, applied, page, gets, save, opens, clicks, touched, strayed>>

AllColumns == UNION {Columns[t] : t \in SourceTables}
\* Columns of a target: a source column, under its name or another one.
TargetNames == [column : AllColumns, renamed : BOOLEAN]
\* The rows picked, by their key; which table they are of is history.
PickedRows == [table : SourceTables, row : {1}]

\* A configuration; fields = {} stands for all columns, rows = {} for no filter.
Configs == [table : SourceTables, rows : SUBSET PickedRows, fields : SUBSET AllColumns,
            trigger : {"replay", "watch", "cdc"}, sink : {"http", "database"},
            mapping : SUBSET TargetNames, keys : SUBSET TargetNames, enabled : BOOLEAN]
EmptyForm == [table |-> NoTable, mode |-> "all", picked |-> {}, pref |-> {}, trigger |-> "replay",
          sink |-> "http", keys |-> {}, renames |-> {}, enabled |-> TRUE]
Forms == [table : SourceTables \union {NoTable}, mode : {"all", "selected"}, picked : SUBSET PickedRows,
          pref : SUBSET AllColumns, trigger : {"replay", "watch", "cdc"}, sink : {"http", "database"},
          keys : SUBSET TargetNames, renames : SUBSET AllColumns, enabled : BOOLEAN]
Nobody == "nobody"
NoSave == [at |-> "idle"]
NoGets == [i \in 1 .. MaxOpens |-> [at |-> "none"]]

FormTypeOK ==
  /\ \A h \in DOMAIN hooks : h \in Hooks /\ hooks[h] \in Configs
  /\ editor \in [open : BOOLEAN, id : Hooks \union {Nobody}]
  /\ form \in Forms /\ included \subseteq AllColumns
  /\ applied \in [sig : SourceTables \union {NoTable}, pref : SUBSET AllColumns]
  /\ page \in SourceTables \union {NoTable}
  /\ opens \in 0 .. MaxOpens /\ clicks \in 0 .. MaxClicks
  /\ touched \in BOOLEAN /\ strayed \in BOOLEAN
  /\ save.at \in {"idle", "sent", "done", "failed"}
  /\ \A i \in 1 .. MaxOpens : gets[i].at \in {"none", "asked", "read", "over", "failed"}
  \* Rows are picked from a page, and a page is only shown for a table.
  /\ editor.open /\ form.picked # {} => page # NoTable \/ editor.id # Nobody

FormInit ==
  /\ hooks \in Starts
  /\ editor = [open |-> FALSE, id |-> Nobody] /\ form = EmptyForm /\ included = {}
  /\ applied = [sig |-> NoTable, pref |-> {}] /\ page = NoTable
  /\ gets = NoGets /\ save = NoSave /\ opens = 0 /\ clicks = 0
  /\ touched = FALSE /\ strayed = FALSE

(******************************* the effects *******************************)

\* The form renders with fields f, ticked columns i and page p.  The second effect ticks
\* the preferred columns, or all, once for each page and preference.
Renders(f, i, p) ==
  LET key == [sig |-> p, pref |-> f.pref]
  IN  /\ form' = f /\ page' = p
      /\ IF p = NoTable \/ applied = key
         THEN included' = i /\ UNCHANGED applied
         ELSE /\ applied' = key
              /\ included' = IF f.pref = {} THEN Columns[p] ELSE Columns[p] \intersect f.pref

\* The page of a table, or, while that is under way, the one there was.
PageLands ==
  /\ form.table \notin {NoTable, page} /\ Renders(form, included, form.table)
  /\ UNCHANGED <<hooks, editor, gets, save, opens, clicks, touched, strayed>>

\* Mutant of Opens: the rows picked before stay picked.
OpensPicked(id, f) ==
  /\ ~editor.open /\ opens < MaxOpens /\ opens' = opens + 1
  /\ editor' = [open |-> TRUE, id |-> id] /\ Renders([f EXCEPT !.picked = form.picked], {}, page)
  /\ touched' = FALSE
  /\ gets' = IF id = Nobody THEN gets
             ELSE [gets EXCEPT ![opens'] = [at |-> "asked", id |-> id]]
  /\ UNCHANGED <<hooks, save, clicks, strayed>>

\* The form opens: it is reset, and a hook to edit is asked for.
Opens(id, f) ==
  /\ ~editor.open /\ opens < MaxOpens /\ opens' = opens + 1
  /\ editor' = [open |-> TRUE, id |-> id] /\ Renders(f, {}, page)
  /\ touched' = FALSE
  /\ gets' = IF id = Nobody THEN gets
             ELSE [gets EXCEPT ![opens'] = [at |-> "asked", id |-> id]]
  /\ UNCHANGED <<hooks, save, clicks, strayed>>
OpenNew == \E t \in SourceTables \union {NoTable} : Opens(Nobody, [EmptyForm EXCEPT !.table = t])
OpenHook == \E h \in DOMAIN hooks : Opens(h, EmptyForm)

GetReads(i) ==
  /\ gets[i].at = "asked" /\ gets' = [gets EXCEPT ![i] = [at |-> "read", id |-> @.id, config |-> hooks[@.id]]]
  /\ UNCHANGED <<hooks, editor, form, included, applied, page, save, opens, clicks, touched, strayed>>

\* Mutant of LoadHook: the filter on rows is left behind.
LoadAllRows(c) ==
  [EmptyForm EXCEPT !.table = c.table, !.pref = c.fields, !.trigger = c.trigger, !.sink = c.sink,
                !.keys = c.keys, !.renames = {n.column : n \in {m \in c.mapping : m.renamed}},
                !.enabled = c.enabled]

LoadHook(c) ==
  [EmptyForm EXCEPT !.table = c.table, !.pref = c.fields, !.trigger = c.trigger, !.sink = c.sink,
                !.mode = IF c.rows = {} THEN "all" ELSE "selected", !.picked = c.rows,
                !.keys = c.keys, !.renames = {n.column : n \in {m \in c.mapping : m.renamed}},
                !.enabled = c.enabled]

\* Mutant of IsCurrent: every answer fills the form.
IsAnyAnswer(i) == editor.open

\* stale: the cleanup of the effect that asked.
IsCurrent(i) == editor.open /\ editor.id = gets[i].id /\ i = opens

GetLands(i) ==
  /\ gets[i].at = "read" /\ gets' = [gets EXCEPT ![i] = [at |-> "over"]]
  /\ IF IsCurrent(i) THEN Renders(LoadHook(gets[i].config), included, page)
     ELSE UNCHANGED <<form, included, applied, page>>
  /\ UNCHANGED <<hooks, editor, save, opens, clicks, touched, strayed>>
GetFails(i) ==
  /\ gets[i].at \in {"asked", "read"} /\ gets' = [gets EXCEPT ![i] = [at |-> "failed"]]
  /\ UNCHANGED <<hooks, editor, form, included, applied, page, save, opens, clicks, touched, strayed>>

(******************************* the fields ********************************)

Shown == IF page = NoTable THEN {} ELSE Columns[page]
SinglePk == IF page = NoTable THEN "none" ELSE Identity[page]
Ticked == Shown \intersect included
NameOf(c) == [column |-> c, renamed |-> c \in form.renames]

Click(f, i) ==
  /\ editor.open /\ clicks < MaxClicks /\ clicks' = clicks + 1 /\ touched' = TRUE
  /\ Renders(f, i, page) /\ UNCHANGED <<hooks, editor, gets, save, opens>>
ClickForm(f) == f # form /\ Click(f, included) /\ UNCHANGED strayed
\* A click in the grid meets the page that is shown.
ClickPage(f, i) == form.table # NoTable /\ Click(f, i) /\ strayed' = (strayed \/ page # form.table)

\* Another database, which keeps the rows picked, or another connection.
LeaveTable ==
  /\ form.table # NoTable /\ UNCHANGED strayed
  /\ \E picked \in {form.picked, {}} :
       Click([form EXCEPT !.table = NoTable, !.pref = {}, !.picked = picked], {})
\* Mutant of PickTable: what was picked in the last table stays picked.
PickKeeping(t) ==
  t # form.table /\ Click([form EXCEPT !.table = t, !.pref = {}], {}) /\ UNCHANGED strayed

PickTable(t) ==
  t # form.table /\ Click([form EXCEPT !.table = t, !.pref = {}, !.picked = {}], {}) /\ UNCHANGED strayed

SetMode(m) ==
  form.trigger = "replay" /\ (m = "selected" => SinglePk # "none") /\ ClickForm([form EXCEPT !.mode = m])
ToggleRow ==
  /\ form.mode = "selected" /\ SinglePk # "none"
  /\ LET r == [table |-> page, row |-> 1]
     IN  ClickPage([form EXCEPT !.picked = IF r \in @ THEN @ \ {r} ELSE @ \union {r}], included)
ToggleColumn(c) ==
  c \in Shown /\ ClickPage(form, IF c \in included THEN included \ {c} ELSE included \union {c})
SetTrigger(k) == ClickForm([form EXCEPT !.trigger = k])
\* The first target is keyed by the source's key.
SetSink(k) ==
  ClickForm([form EXCEPT !.sink = k,
               !.keys = IF k = "database" /\ @ = {} /\ SinglePk # "none"
                        THEN {[column |-> SinglePk, renamed |-> FALSE]} ELSE @])
ToggleKey(c) ==
  /\ form.sink = "database" /\ c \in Ticked
  /\ ClickForm([form EXCEPT !.keys = IF NameOf(c) \in @ THEN @ \ {NameOf(c)} ELSE @ \union {NameOf(c)}])
ToggleRename(c) ==
  /\ form.sink = "database" /\ c \in Ticked
  /\ ClickForm([form EXCEPT !.renames = IF c \in @ THEN @ \ {c} ELSE @ \union {c}])

(******************************* saving ************************************)

CanSave ==
  /\ form.table # NoTable /\ Ticked # {} /\ (form.sink = "database" => form.keys # {})
  /\ (form.mode = "selected" => SinglePk # "none" /\ form.picked # {})

\* Mutant of BuildInput: a saved hook is enabled.
BuildEnabled ==
  [table |-> form.table, rows |-> IF form.mode = "selected" /\ SinglePk # "none" THEN form.picked ELSE {},
   fields |-> IF Ticked = Shown THEN {} ELSE Ticked, trigger |-> form.trigger, sink |-> form.sink,
   mapping |-> IF form.sink = "database" THEN {NameOf(c) : c \in Ticked} ELSE {},
   keys |-> IF form.sink = "database" THEN form.keys ELSE {}, enabled |-> TRUE]

BuildInput ==
  [table |-> form.table, rows |-> IF form.mode = "selected" /\ SinglePk # "none" THEN form.picked ELSE {},
   fields |-> IF Ticked = Shown THEN {} ELSE Ticked, trigger |-> form.trigger, sink |-> form.sink,
   mapping |-> IF form.sink = "database" THEN {NameOf(c) : c \in Ticked} ELSE {},
   keys |-> IF form.sink = "database" THEN form.keys ELSE {}, enabled |-> form.enabled]

HandleSave ==
  /\ editor.open /\ save.at = "idle" /\ CanSave
  /\ save' = [at |-> "sent", id |-> editor.id, input |-> BuildInput, touched |-> touched,
              loaded |-> editor.id = Nobody \/ gets[opens].at = "over"]
  /\ strayed' = (strayed \/ page # form.table)
  /\ UNCHANGED <<hooks, editor, form, included, applied, page, gets, opens, clicks, touched>>

NewHook == CHOOSE h \in Hooks : h \notin DOMAIN hooks
SaveArrives ==
  /\ save.at = "sent"
  /\ IF save.id = Nobody /\ DOMAIN hooks = Hooks
     THEN UNCHANGED hooks /\ save' = [save EXCEPT !.at = "failed"]
     ELSE LET h == IF save.id = Nobody THEN NewHook ELSE save.id
          IN  /\ hooks' = [x \in DOMAIN hooks \union {h} |-> IF x = h THEN save.input ELSE hooks[x]]
              /\ save' = [save EXCEPT !.at = "done"]
  /\ UNCHANGED <<editor, form, included, applied, page, gets, opens, clicks, touched, strayed>>

\* After a save the form closes, whichever hook it is open for by now.
SaveLands ==
  /\ save.at \in {"done", "failed"} /\ save' = NoSave
  /\ IF save.at = "done" THEN editor' = [open |-> FALSE, id |-> Nobody] ELSE UNCHANGED editor
  /\ UNCHANGED <<hooks, form, included, applied, page, gets, opens, clicks, touched, strayed>>

Cancel ==
  /\ editor.open /\ editor' = [open |-> FALSE, id |-> Nobody]
  /\ UNCHANGED <<hooks, form, included, applied, page, gets, save, opens, clicks, touched, strayed>>

FormNext ==
  \/ PageLands \/ OpenNew \/ OpenHook \/ Cancel
  \/ \E i \in 1 .. MaxOpens : GetReads(i) \/ GetLands(i) \/ GetFails(i)
  \/ LeaveTable \/ \E t \in SourceTables : PickTable(t)
  \/ \E m \in {"all", "selected"} : SetMode(m)
  \/ ToggleRow \/ \E c \in AllColumns : ToggleColumn(c) \/ ToggleKey(c) \/ ToggleRename(c)
  \/ \E k \in {"replay", "watch", "cdc"} : SetTrigger(k)
  \/ \E k \in {"http", "database"} : SetSink(k)
  \/ HandleSave \/ SaveArrives \/ SaveLands

FormSpec == FormInit /\ [][FormNext]_formVars

(******************************* properties ********************************)

\* The change that a save makes to the hook it edits.
Edits(P(_, _)) ==
  \A h \in Hooks :
    h \in DOMAIN hooks /\ save.at = "sent" /\ save.id = h /\ save'.at = "done" => P(hooks[h], hooks'[h])

\* A hook that is opened and saved without a change stays as it is: its pinned columns,
\* the rows picked, its targets, and whether it is enabled.  No answer for another hook
\* fills the form, and no column of the form's last table is taken over ("ignore the
\* response if the editor moved on", hook-builder.tsx), unless it is saved while the
\* page of another table is still shown.
SaveKeepsRest ==
  [][Edits(LAMBDA old, new : ~save.touched /\ ~strayed => new = old)]_formVars

\* "preserved on edit so saving doesn't silently re-enable a disabled bridge"
\* (hook-builder.tsx): once the hook was loaded, whatever else is changed.
EnabledStays ==
  [][Edits(LAMBDA old, new : save.loaded => new.enabled = old.enabled)]_formVars

\* The rows a saved hook selects were picked in its own table, however the form got
\* there, if no click met the page of another table.
RowsAreOfTable ==
  save.at # "idle" /\ ~strayed =>
    \A r \in save.input.rows : r.table = save.input.table

\* Not kept by the code: "no row selection needed" for a hook that listens, "include ALL
\* of them by default" when the columns of a table load, and a key that is written.
ListenerTakesAll ==
  \A h \in DOMAIN hooks : hooks[h].trigger # "replay" => hooks[h].rows = {}
LoadedIsWhole ==
  editor.open /\ ~touched /\ form.table \notin {NoTable} /\ page = form.table /\ form.pref = {}
    => included = Columns[page]
KeysAreWritten ==
  \A h \in DOMAIN hooks : hooks[h].keys \subseteq hooks[h].mapping

\* What the form promises the user.
FormPromise == []FormTypeOK /\ []RowsAreOfTable /\ SaveKeepsRest /\ EnabledStays
==============================================================================
