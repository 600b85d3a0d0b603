-------------------------------- MODULE Studio --------------------------------
(***************************************************************************)
(* The workbench: what is selected (store.ts), the schema tree and the     *)
(* connections it acts on (schema-tree.tsx, connection-list.tsx), query    *)
(* tabs and their results (query-editor.tsx), and the dialog of a          *)
(* connection (connection-dialog.tsx).                                     *)
(*                                                                         *)
(* A handler keeps the selection of the render it was clicked in, while    *)
(* the store goes on changing: by the user, after the confirmation was     *)
(* given, and by handlers that end.  Hooks are only told apart by the      *)
(* workspace they belong to.                                               *)
(***************************************************************************)
EXTENDS Integers, FiniteSets

CONSTANTS Homes,      \* the workspace of each connection
          Schemas,    \* databases of a connection; it opens with DefaultSchema
          DefaultSchema,
          Listed,     \* tables of a database
          MaxTabIds,  \* bound: query tabs made
          MaxActs     \* bound: clicks

ASSUME StudioAssumption ==
  /\ DOMAIN Homes # {} /\ DefaultSchema \in Schemas /\ MaxTabIds \in Nat \ {0} /\ MaxActs \in Nat
  /\ "none" \notin DOMAIN Homes \union Listed \union {Homes[c] : c \in DOMAIN Homes}

Connections == DOMAIN Homes
Spaces == {Homes[c] : c \in Connections}
TabIds == 1 .. MaxTabIds
Calls == {"first", "second"}  \* what is under way at a time

VARIABLES known,    \* server: the connections there are
          config,   \* server: the connection whose settings each one has
          standing, \* server: tables that were not dropped
          store,    \* useStudio: workspace, connection, database, table, and the workspace of the hook
          tabs,     \* query tabs: open, active, and the last id given
          outputs,  \* of each tab the connection and database it was run on
          queries,  \* statements under way
          ask,      \* the confirmation asked for
          ops,      \* operations under way
          dialog,   \* the dialog of a connection, and the settings it shows
          loads,    \* requests for the settings of a connection
          acts,     \* counts towards MaxActs
          outran    \* history: an answer came after the user had left its place

selectVars == <<store, tabs, outputs>>
dialogVars == <<dialog, loads, config>>
studioVars == <<known, config, standing, store, tabs, outputs, queries, ask, ops, dialog, loads, acts, outran>>

Nowhere == [workspace |-> "none", conn |-> "none", db |-> DefaultSchema, table |-> "none", hook |-> "none"]
NoResult == [conn |-> "none", db |-> DefaultSchema]
NoQuery == [at |-> "none"]
NoOp == [at |-> "none"]
NothingRuns == [c \in Calls |-> NoOp]

StudioTypeOK ==
  /\ known \subseteq Connections /\ config \in [Connections -> Connections \union {"blank"}]
  /\ standing \subseteq Connections \X Schemas \X Listed
  /\ store \in [workspace : Spaces, conn : Connections \union {"none"}, db : Schemas,
                table : Listed \union {"none"}, hook : Spaces \union {"none"}]
  /\ tabs.open \subseteq TabIds /\ tabs.active \in tabs.open /\ tabs.last \in TabIds
  /\ outputs \in [TabIds -> [conn : Connections \union {"none"}, db : Schemas]]
  /\ \A c \in Calls : queries[c].at \in {"none", "sent"} /\ ops[c].at \in {"none", "sent", "done", "failed"}
  /\ ask.at \in {"none", "shown"} /\ acts \in 0 .. MaxActs /\ outran \in BOOLEAN
  /\ dialog \in [open : BOOLEAN, editing : Connections \union {"none"},
                 form : Connections \union {"blank"}]
  /\ loads \subseteq Connections
  \* A table is only selected in a connection, and a tab is only shown that was made.
  /\ store.table # "none" => store.conn # "none"
  /\ \A i \in tabs.open : i <= tabs.last

StudioInit ==
  /\ known = Connections /\ config = [c \in Connections |-> c]
  /\ standing = Connections \X Schemas \X Listed
  /\ store = [Nowhere EXCEPT !.workspace = CHOOSE w \in Spaces : TRUE]
  /\ tabs = [open |-> {1}, active |-> 1, last |-> 1] /\ outputs = [i \in TabIds |-> NoResult]
  /\ queries = NothingRuns /\ ask = NoOp /\ ops = NothingRuns
  /\ dialog = [open |-> FALSE, editing |-> "none", form |-> "blank"] /\ loads = {}
  /\ acts = 0 /\ outran = FALSE

(******************************* the store *********************************)

\* The effect of query-editor.tsx: results go when the connection changes.
Selects(s) ==
  /\ store' = s
  /\ outputs' = IF s.conn # store.conn THEN [i \in TabIds |-> NoResult] ELSE outputs

\* Mutant of FreshTabs: the id is given again.
FreshTabsUncounted == tabs' = [open |-> {tabs.last + 1}, active |-> tabs.last + 1, last |-> tabs.last]

FreshTabs == tabs' = [open |-> {tabs.last + 1}, active |-> tabs.last + 1, last |-> tabs.last + 1]

\* Mutant of SetActiveWorkspace: what is selected stays.
SetWorkspaceOnly(w) ==
  /\ UNCHANGED tabs
  /\ IF w = store.workspace THEN UNCHANGED <<store, outputs>> ELSE Selects([store EXCEPT !.workspace = w])

SetActiveWorkspace(w) ==
  /\ UNCHANGED tabs
  /\ IF w = store.workspace THEN UNCHANGED <<store, outputs>> ELSE Selects([Nowhere EXCEPT !.workspace = w])

\* Mutant of SetActiveConnection: the tabs stay.
SetConnectionOnly(c) ==
  Selects([store EXCEPT !.conn = c, !.db = DefaultSchema, !.table = "none"]) /\ UNCHANGED tabs

SetActiveConnection(c) ==
  /\ tabs.last < MaxTabIds /\ FreshTabs
  /\ Selects([store EXCEPT !.conn = c, !.db = DefaultSchema, !.table = "none"])
SetActiveDatabase(d) == Selects([store EXCEPT !.db = d, !.table = "none"]) /\ UNCHANGED tabs
SelectRelation(t) == Selects([store EXCEPT !.table = t, !.hook = "none"]) /\ UNCHANGED tabs
SelectHook(w) == Selects([store EXCEPT !.hook = w, !.table = "none"]) /\ UNCHANGED tabs
ClearSelection == Selects([store EXCEPT !.table = "none"]) /\ UNCHANGED tabs

\* Nothing else is clicked while a dialog is open.
Acts == ask.at = "none" /\ ~dialog.open /\ acts < MaxActs /\ acts' = acts + 1
othersStay == <<known, standing, queries, ask, ops, dialogVars, outran>>

SwitchWorkspace(w) == Acts /\ w # store.workspace /\ SetActiveWorkspace(w) /\ UNCHANGED othersStay
PickConnection(c) ==
  /\ Acts /\ c \in known /\ Homes[c] = store.workspace /\ SetActiveConnection(c)
  /\ UNCHANGED othersStay
PickDatabase(d) == Acts /\ store.conn # "none" /\ d # store.db /\ SetActiveDatabase(d) /\ UNCHANGED othersStay
PickRelation(t) == Acts /\ store.conn # "none" /\ t # store.table /\ SelectRelation(t) /\ UNCHANGED othersStay
PickHook == Acts /\ store.hook = "none" /\ SelectHook(store.workspace) /\ UNCHANGED othersStay

(******************************* query tabs ********************************)

AddQueryTab ==
  /\ Acts /\ tabs.last < MaxTabIds /\ UNCHANGED <<store, outputs, othersStay>>
  /\ tabs' = [open |-> tabs.open \union {tabs.last + 1}, active |-> tabs.last + 1, last |-> tabs.last + 1]
CloseQueryTab(i) ==
  /\ Acts /\ i \in tabs.open /\ outputs' = [outputs EXCEPT ![i] = NoResult]
  /\ IF tabs.open = {i} THEN tabs.last < MaxTabIds /\ FreshTabs
     ELSE \E j \in tabs.open \ {i} :
            tabs' = [tabs EXCEPT !.open = @ \ {i}, !.active = IF @ = i THEN j ELSE @]
  /\ UNCHANGED <<store, othersStay>>
SetActiveQueryTab(i) ==
  /\ Acts /\ i \in tabs.open \ {tabs.active} /\ tabs' = [tabs EXCEPT !.active = i]
  /\ UNCHANGED <<store, outputs, othersStay>>

\* The keyboard runs a statement also while another one of the tab is under way.
Run(c) ==
  /\ Acts /\ store.conn # "none" /\ queries[c].at = "none"
  /\ queries' = [queries EXCEPT ![c] =
                   [at |-> "sent", tab |-> tabs.active, conn |-> store.conn, db |-> store.db]]
  /\ UNCHANGED <<selectVars, known, standing, ask, ops, dialogVars, outran>>
ResultLands(c) ==
  /\ queries[c].at = "sent" /\ queries' = [queries EXCEPT ![c] = NoQuery]
  /\ \/ outputs' = [outputs EXCEPT ![queries[c].tab] = [conn |-> queries[c].conn, db |-> queries[c].db]]
     \/ UNCHANGED outputs
  /\ UNCHANGED <<store, tabs, known, standing, ask, ops, dialogVars, acts, outran>>

(******************************* operations ********************************)

\* An item of a menu: the handler keeps what is selected by now.
Choose(kind, t) ==
  /\ Acts /\ store.conn # "none"
  /\ ask' = [at |-> "shown", kind |-> kind, table |-> t, conn |-> store.conn, db |-> store.db,
             selected |-> store.table]
  /\ UNCHANGED <<selectVars, known, standing, queries, ops, dialogVars, outran>>

\* Mutant of Confirm: the handler reads the store when the answer is given.
ConfirmCurrent(c, yes) ==
  /\ ask.at = "shown" /\ ask' = NoOp /\ ops[c].at = "none"
  /\ ops' = IF yes THEN [ops EXCEPT ![c] = [at |-> "sent", kind |-> ask.kind, table |-> ask.table,
                           conn |-> store.conn, db |-> store.db, selected |-> store.table, seen |-> ask]]
            ELSE ops
  /\ UNCHANGED <<selectVars, known, standing, queries, dialogVars, acts, outran>>

Confirm(c, yes) ==
  /\ ask.at = "shown" /\ ask' = NoOp /\ ops[c].at = "none"
  /\ ops' = IF yes THEN [ops EXCEPT ![c] = [at |-> "sent", kind |-> ask.kind, table |-> ask.table,
                           conn |-> ask.conn, db |-> ask.db, selected |-> ask.selected, seen |-> ask]]
            ELSE ops
  /\ UNCHANGED <<selectVars, known, standing, queries, dialogVars, acts, outran>>

\* The menu of the connections asks for no confirmation, and the form of a hook may be
\* left while it is being saved.
StartOp(c, kind, conn) ==
  /\ Acts /\ ops[c].at = "none"
  /\ ops' = [ops EXCEPT ![c] = [at |-> "sent", kind |-> kind, table |-> "none", conn |-> conn, db |-> store.db,
                                selected |-> store.conn, home |-> store.workspace]]
  /\ UNCHANGED <<selectVars, known, standing, queries, ask, dialogVars, outran>>
DeleteConnection(c, conn) == conn \in known /\ Homes[conn] = store.workspace /\ StartOp(c, "connection", conn)
CreateHook(c) == StartOp(c, "hook", "none")

OpArrives(c) ==
  /\ ops[c].at = "sent"
  /\ \E at \in {"done", "failed"} : ops' = [ops EXCEPT ![c].at = at]
  /\ LET o == ops[c]
         done == ops'[c].at = "done"
     IN  /\ standing' = IF ~done THEN standing
                        ELSE standing \ CASE o.kind = "drop"     -> {<<o.conn, o.db, o.table>>}
                                          [] o.kind = "database" -> {o.conn} \X {o.db} \X Listed
                                          [] OTHER               -> {}
         /\ known' = IF done /\ o.kind = "connection" THEN known \ {o.conn} ELSE known
  /\ UNCHANGED <<selectVars, queries, ask, dialogVars, acts, outran>>

\* What a handler does after the answer: with what it kept, on the store as it is by now.
OpLands(c) ==
  /\ ops[c].at \in {"done", "failed"} /\ ops' = [ops EXCEPT ![c] = NoOp]
  /\ LET o == ops[c]
     IN  /\ IF o.at = "failed" THEN UNCHANGED selectVars
            ELSE CASE o.kind = "drop" ->
                        IF o.selected = o.table THEN ClearSelection ELSE UNCHANGED selectVars
                   [] o.kind = "database" -> SetActiveDatabase(DefaultSchema)
                   [] o.kind = "connection" ->
                        IF o.selected = o.conn THEN SetActiveConnection("none") ELSE UNCHANGED selectVars
                   [] o.kind = "hook" -> SelectHook(o.home)
                   [] OTHER -> UNCHANGED selectVars
         /\ outran' = (outran \/ (o.kind = "hook" /\ o.at = "done" /\ o.home # store.workspace))
  /\ UNCHANGED <<known, standing, queries, ask, dialogVars, acts>>

(******************************* connections *******************************)

\* Mutant of OpenDialog: the form keeps what it showed.
OpenFilled(c) ==
  /\ Acts /\ c \in known /\ dialog' = [dialog EXCEPT !.open = TRUE, !.editing = c]
  /\ loads' = loads \union {c}
  /\ UNCHANGED <<selectVars, known, config, standing, queries, ask, ops, outran>>

\* "always start from a clean slate so a failed load can't leave the previous
\* connection's values behind".
OpenDialog(c) ==
  /\ Acts /\ c \in known /\ dialog' = [open |-> TRUE, editing |-> c, form |-> "blank"]
  /\ loads' = loads \union {c}
  /\ UNCHANGED <<selectVars, known, config, standing, queries, ask, ops, outran>>

dialogOnly == <<selectVars, known, standing, queries, ask, ops, acts>>
CloseDialog ==
  /\ dialog.open /\ dialog' = [dialog EXCEPT !.open = FALSE, !.editing = "none"]
  /\ UNCHANGED <<dialogOnly, loads, config, outran>>
\* No answer is told from that of an earlier opening; a failure closes the dialog.
LoadSettles(c) ==
  /\ c \in loads /\ loads' = loads \ {c} /\ outran' = (outran \/ (dialog.open /\ dialog.editing # c))
  /\ \/ dialog' = [dialog EXCEPT !.form = config[c]]
     \/ dialog' = [dialog EXCEPT !.open = FALSE, !.editing = "none"]
  /\ UNCHANGED <<dialogOnly, config>>
\* The dialog may be saved before its settings came.
SaveConnection ==
  /\ dialog.open /\ config' = [config EXCEPT ![dialog.editing] = dialog.form]
  /\ dialog' = [dialog EXCEPT !.open = FALSE, !.editing = "none"]
  /\ UNCHANGED <<dialogOnly, loads, outran>>

StudioNext ==
  \/ \E w \in Spaces : SwitchWorkspace(w)
  \/ \E c \in Connections : PickConnection(c) \/ OpenDialog(c) \/ LoadSettles(c)
  \/ \E d \in Schemas : PickDatabase(d)
  \/ \E t \in Listed : PickRelation(t) \/ Choose("drop", t) \/ Choose("truncate", t)
  \/ PickHook \/ AddQueryTab \/ \E i \in TabIds : CloseQueryTab(i) \/ SetActiveQueryTab(i)
  \/ Choose("database", "none") \/ Choose("restore", "none")
  \/ \E c \in Calls :
       \/ Run(c) \/ ResultLands(c) \/ CreateHook(c) \/ OpArrives(c) \/ OpLands(c)
       \/ \E conn \in Connections : DeleteConnection(c, conn)
       \/ \E yes \in BOOLEAN : Confirm(c, yes)
  \/ CloseDialog \/ SaveConnection

StudioSpec == StudioInit /\ [][StudioNext]_studioVars

(******************************* properties ********************************)

\* "a stale result set never shows against another database's tabs" (query-editor.tsx):
\* a result on the screen was run on the connection in view, however late it came and
\* even after the user went to another connection and back.
ResultsOfConnection ==
  \A i \in tabs.open :
    store.conn # "none" /\ outputs[i].conn # "none" => outputs[i].conn = store.conn

\* What is dropped, truncated or restored into is in the connection and database the
\* user saw when asking for it, whatever handlers changed the selection while the
\* confirmation was open (schema-tree.tsx).
ActsAsConfirmed ==
  \A c \in Calls :
    ops[c].at = "sent" /\ ops[c].kind \in {"drop", "truncate", "database", "restore"} =>
      ops[c].conn = ops[c].seen.conn /\ ops[c].db = ops[c].seen.db

\* "actually switching workspace drops the selected bridge, table and connection (they
\* live in another one)" (store.ts), unless a hook's answer came after the switch.
SelectionInWorkspace ==
  /\ store.conn # "none" => Homes[store.conn] = store.workspace
  /\ ~outran => store.hook \in {"none", store.workspace}

\* A connection is never saved with another connection's settings, if no answer of an
\* earlier opening of the dialog arrived in a later one.
OwnSettings == ~outran => \A c \in Connections : config[c] \in {c, "blank"}

\* Not kept by the code: results of another database, the database that somebody went to
\* while a drop was under way, and a deleted connection that was activated meanwhile.
ResultsOfDatabase ==
  \A i \in tabs.open : outputs[i].conn = store.conn /\ store.conn # "none" => outputs[i].db = store.db
LandsWhereAsked ==
  [][\A c \in Calls : ops[c].at = "done" /\ ops'[c].at = "none" /\ ops[c].kind = "database"
        /\ store.conn # ops[c].conn => store' = store]_studioVars
DeletedIsLeft ==
  (\A c \in Calls : ops[c].at = "none") => store.conn \in known \union {"none"}

\* What the workbench promises the user.
StudioSafe ==
  StudioTypeOK /\ ResultsOfConnection /\ ActsAsConfirmed /\ SelectionInWorkspace /\ OwnSettings
==============================================================================
