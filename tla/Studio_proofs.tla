---------------------------- MODULE Studio_proofs ----------------------------
(***************************************************************************)
(* Proofs about Studio, for every set of connections, tables and clicks:   *)
(* what answers and handlers that end late may do to the selection they    *)
(* no longer belong to.                                                    *)
(***************************************************************************)
EXTENDS Studio, TLAPS

(***************************************************************************)
(* What the variables hold: a confirmation, an operation that was asked    *)
(* for, one of a menu, a statement.                                        *)
(***************************************************************************)
AskKinds == {"drop", "truncate", "database", "restore"}
Conns == Connections \union {"none"}
Relations == Listed \union {"none"}
StoreRow == [workspace : Spaces, conn : Conns, db : Schemas, table : Relations,
             hook : Spaces \union {"none"}]
TabsRow == [open : SUBSET TabIds, active : TabIds, last : TabIds]
QueryRow == [at : {"sent"}, tab : TabIds, conn : Connections, db : Schemas]
AskRow == [at : {"shown"}, kind : AskKinds, table : Relations, conn : Connections, db : Schemas,
           selected : Relations]
AskedRow == [at : {"sent", "done", "failed"}, kind : AskKinds, table : Relations, conn : Connections,
             db : Schemas, selected : Relations, seen : AskRow]
MenuRow == [at : {"sent", "done", "failed"}, kind : {"connection", "hook"}, table : {"none"},
            conn : Conns, db : Schemas, selected : Conns, home : Spaces]
DialogRow == [open : BOOLEAN, editing : Conns, form : Connections \union {"blank"}]

ServerTypes ==
  /\ known \subseteq Connections /\ config \in [Connections -> Connections \union {"blank"}]
  /\ standing \subseteq Connections \X Schemas \X Listed
StoreTypes ==
  /\ store \in StoreRow /\ (store.table # "none" => store.conn # "none")
TabTypes ==
  /\ tabs \in TabsRow /\ tabs.active \in tabs.open /\ \A i \in tabs.open : i <= tabs.last
  /\ outputs \in [TabIds -> [conn : Conns, db : Schemas]]
OpTypes ==
  /\ queries \in [Calls -> {NoQuery} \union QueryRow] /\ ask \in {NoOp} \union AskRow
  /\ ops \in [Calls -> {NoOp} \union AskedRow \union MenuRow]
DialogTypes ==
  /\ dialog \in DialogRow /\ loads \subseteq Connections
CountTypes == acts \in 0 .. MaxActs /\ outran \in BOOLEAN
Types == ServerTypes /\ StoreTypes /\ TabTypes /\ OpTypes /\ DialogTypes /\ CountTypes

\* What an operation goes by is what was seen when it was asked for, at each step of it.
Confirmed ==
  \A c \in Calls : ops[c] \in AskedRow => ops[c].conn = ops[c].seen.conn /\ ops[c].db = ops[c].seen.db

\* A tab that is open, and the statements of one, belong to the connection that is
\* selected, if any is: those of another one have a tab that was closed, whose number is
\* never given again.
TabsBelong ==
  /\ ResultsOfConnection
  /\ \A c \in Calls : queries[c].at = "sent" =>
       /\ queries[c].tab <= tabs.last
       /\ queries[c].tab \in tabs.open /\ store.conn # "none" => queries[c].conn = store.conn
  /\ \A i \in TabIds : i > tabs.last => outputs[i].conn = "none"

\* A form that is open shows the settings of the connection it was opened for.
FormBelongs ==
  /\ dialog.open => dialog.editing \in Connections
  /\ dialog.open /\ ~outran => dialog.form \in {dialog.editing, "blank"}
  /\ OwnSettings

StudioInv == Types /\ Confirmed /\ TabsBelong /\ SelectionInWorkspace /\ FormBelongs
------------------------------------------------------------------------------
\* The name that stands for none is no connection's, table's or workspace's.
LEMMA NoneIsNone == "none" \notin Connections /\ "none" \notin Listed /\ "none" \notin Spaces
BY StudioAssumption DEF Connections, Spaces

\* What is nowhere is selected by nobody.
LEMMA NowhereOK ==
  ASSUME NEW w \in Spaces
  PROVE  [Nowhere EXCEPT !.workspace = w] = [workspace |-> w, conn |-> "none", db |-> DefaultSchema,
                                              table |-> "none", hook |-> "none"]
BY DEF Nowhere

\* The invariant says what the runs check.
LEMMA InvIsSafe == StudioInv => StudioSafe
<1> SUFFICES ASSUME StudioInv PROVE StudioSafe
  OBVIOUS
<1>1. \A c \in Calls : queries[c].at \in {"none", "sent"} /\ ops[c].at \in {"none", "sent", "done", "failed"}
  <2> TAKE c \in Calls
  <2>1. queries[c] \in {NoQuery} \union QueryRow /\ ops[c] \in {NoOp} \union AskedRow \union MenuRow
    BY DEF StudioInv, Types, OpTypes
  <2> QED BY <2>1 DEF NoQuery, NoOp, QueryRow, AskedRow, MenuRow
<1>2. ask.at \in {"none", "shown"}
  BY DEF StudioInv, Types, OpTypes, NoOp, AskRow
<1>3. StudioTypeOK
  BY <1>1, <1>2 DEF StudioInv, Types, ServerTypes, StoreTypes, TabTypes, DialogTypes, CountTypes,
     StudioTypeOK, StoreRow, TabsRow, DialogRow, Conns, Relations
<1>4. ActsAsConfirmed
  <2> SUFFICES ASSUME NEW c \in Calls, ops[c].at = "sent", ops[c].kind \in AskKinds
               PROVE  ops[c] \in AskedRow
    BY DEF StudioInv, Confirmed, ActsAsConfirmed, AskKinds
  <2>1. ops[c] \in {NoOp} \union AskedRow \union MenuRow
    BY DEF StudioInv, Types, OpTypes
  <2> QED BY <2>1 DEF NoOp, MenuRow, AskKinds
<1> QED BY <1>3, <1>4 DEF StudioInv, StudioSafe, TabsBelong, FormBelongs

\* Where the workbench starts.
LEMMA InitOK == StudioInit => StudioInv
<1> SUFFICES ASSUME StudioInit PROVE StudioInv
  OBVIOUS
<1>1. PICK w \in Spaces : store = [workspace |-> w, conn |-> "none", db |-> DefaultSchema,
                                   table |-> "none", hook |-> "none"]
  <2>1. Spaces # {}
    BY StudioAssumption DEF Spaces, Connections
  <2> QED BY <2>1, NowhereOK DEF StudioInit
<1>2. 1 \in TabIds
  BY StudioAssumption DEF TabIds
<1>3. ServerTypes
  BY DEF StudioInit, ServerTypes
<1>4. StoreTypes
  BY <1>1, StudioAssumption DEF StoreTypes, StoreRow, Conns, Relations
<1>5. TabTypes
  BY <1>2, StudioAssumption DEF StudioInit, TabTypes, TabsRow, NoResult, Conns, TabIds
<1>6. OpTypes
  BY DEF StudioInit, OpTypes, NothingRuns, NoOp, NoQuery
<1>7. DialogTypes /\ CountTypes
  <2>1. DialogTypes
    BY DEF StudioInit, DialogTypes, DialogRow, Conns
  <2>2. CountTypes
    <3>1. acts \in 0 .. MaxActs
      BY StudioAssumption DEF StudioInit
    <3>2. outran \in BOOLEAN
      BY Zenon DEF StudioInit
    <3> QED BY <3>1, <3>2 DEF CountTypes
  <2> QED BY <2>1, <2>2
<1>8. \A c \in Calls : ops[c] \notin AskedRow /\ queries[c].at # "sent"
  BY DEF StudioInit, NothingRuns, NoOp, AskedRow
<1>9. TabsBelong
  <2>1. \A i \in TabIds : outputs[i].conn = "none"
    BY DEF StudioInit, NoResult
  <2>2. tabs.open \subseteq TabIds
    BY <1>2 DEF StudioInit
  <2> QED BY <1>8, <2>1, <2>2 DEF TabsBelong, ResultsOfConnection
<1>10. SelectionInWorkspace /\ FormBelongs
  BY <1>1 DEF SelectionInWorkspace, FormBelongs, OwnSettings, StudioInit
<1> QED BY <1>3, <1>4, <1>5, <1>6, <1>7, <1>8, <1>9, <1>10 DEF StudioInv, Types, Confirmed
------------------------------------------------------------------------------
(***************************************************************************)
(* The selection.  What becomes selected is what is there, and a handler   *)
(* that keeps the connection, or gives it up, keeps the tabs.              *)
(***************************************************************************)

\* What may become selected.
Selectable(s) ==
  /\ s \in StoreRow /\ (s.table # "none" => s.conn # "none")
  /\ s.conn # "none" => Homes[s.conn] = s.workspace

\* Results go when the connection does; a tab that stays is of the connection or of none.
LEMMA SelectsOK ==
  ASSUME StudioInv, NEW s, Selectable(s), Selects(s), s.conn \in {store.conn, "none"},
         UNCHANGED <<tabs, queries>>
  PROVE  StoreTypes' /\ TabTypes' /\ TabsBelong'
<1>1. store' = s /\ StoreTypes'
  BY DEF Selects, Selectable, StoreTypes
<1>2. outputs' = outputs \/ outputs' = [i \in TabIds |-> NoResult]
  BY DEF Selects
<1>3. TabTypes'
  BY <1>2, StudioAssumption DEF StudioInv, Types, TabTypes, NoResult, Conns
<1>4. s.conn # "none" => s.conn = store.conn /\ outputs' = outputs
  BY DEF Selects
<1>5. TabsBelong'
  BY <1>1, <1>2, <1>4, StudioAssumption DEF StudioInv, Types, TabTypes, TabsBelong, ResultsOfConnection, NoResult
<1> QED BY <1>1, <1>3, <1>5

\* A tab that is made has a number that none had.
LEMMA FreshOK ==
  ASSUME StudioInv, tabs.last < MaxTabIds
  PROVE  /\ tabs.last + 1 \in TabIds /\ tabs.last \in TabIds /\ tabs.last + 1 <= tabs.last + 1
         /\ outputs[tabs.last + 1].conn = "none"
         /\ \A c \in Calls : queries[c].at = "sent" => queries[c].tab # tabs.last + 1 /\ queries[c].tab \in TabIds
         /\ \A i \in TabIds : i > tabs.last + 1 => outputs[i].conn = "none"
         /\ \A i \in TabIds : i <= tabs.last => i <= tabs.last + 1
<1>1. tabs.last \in TabIds /\ tabs.last + 1 \in TabIds
  BY StudioAssumption DEF StudioInv, Types, TabTypes, TabsRow, TabIds
<1>2. \A c \in Calls : queries[c].at = "sent" => queries[c].tab \in TabIds
  <2> SUFFICES ASSUME NEW c \in Calls, queries[c].at = "sent" PROVE queries[c].tab \in TabIds
    OBVIOUS
  <2>1. queries[c] \in {NoQuery} \union QueryRow
    BY DEF StudioInv, Types, OpTypes
  <2> QED BY <2>1 DEF NoQuery, QueryRow
<1> QED BY <1>1, <1>2 DEF StudioInv, TabsBelong, TabIds

\* Another connection, or none, opens a tab of its own.
LEMMA SetConnectionOK ==
  ASSUME StudioInv, NEW c \in Conns, SetActiveConnection(c), UNCHANGED queries,
         c # "none" => Homes[c] = store.workspace
  PROVE  /\ StoreTypes' /\ TabTypes' /\ TabsBelong'
         /\ store'.conn = c /\ store'.workspace = store.workspace /\ store'.hook = store.hook
<1> DEFINE s == [store EXCEPT !.conn = c, !.db = DefaultSchema, !.table = "none"]
<1>1. store' = s /\ s \in StoreRow /\ s.conn = c /\ s.table = "none"
      /\ s.workspace = store.workspace /\ s.hook = store.hook
  BY StudioAssumption DEF SetActiveConnection, Selects, StudioInv, Types, StoreTypes, StoreRow, Relations
<1>2. tabs' = [open |-> {tabs.last + 1}, active |-> tabs.last + 1, last |-> tabs.last + 1]
      /\ tabs.last < MaxTabIds
  BY DEF SetActiveConnection, FreshTabs
<1>3. outputs' = outputs \/ outputs' = [i \in TabIds |-> NoResult]
  BY DEF SetActiveConnection, Selects
<1>4. TabTypes'
  BY <1>2, <1>3, FreshOK, StudioAssumption DEF StudioInv, Types, TabTypes, TabsRow, NoResult, Conns, TabIds
<1>5. outputs'[tabs.last + 1].conn = "none"
  BY <1>2, <1>3, FreshOK DEF NoResult
<1>6. ResultsOfConnection'
  BY <1>2, <1>5 DEF ResultsOfConnection
<1>7. \A i \in TabIds : i > tabs.last + 1 => outputs'[i].conn = "none"
  BY <1>2, <1>3, FreshOK DEF NoResult
<1>8. \A k \in Calls : queries[k].at = "sent" => queries[k].tab <= tabs.last + 1 /\ queries[k].tab # tabs.last + 1
  BY <1>2, FreshOK DEF StudioInv, TabsBelong, TabIds
<1>9. TabsBelong'
  BY <1>2, <1>6, <1>7, <1>8 DEF TabsBelong
<1> QED BY <1>1, <1>4, <1>9 DEF StoreTypes

\* What the steps of the selection leave alone.
OthersKept == UNCHANGED <<known, config, standing, queries, ask, ops, dialog, loads>>
LEMMA SelectionKeeps ==
  ASSUME StudioInv, OthersKept, StoreTypes', TabTypes', CountTypes', TabsBelong',
         SelectionInWorkspace', outran => outran'
  PROVE  StudioInv'
<1>1. ServerTypes' /\ OpTypes' /\ DialogTypes'
  BY DEF OthersKept, StudioInv, Types, ServerTypes, OpTypes, DialogTypes
<1>2. Confirmed' /\ FormBelongs'
  BY DEF OthersKept, StudioInv, Confirmed, FormBelongs, OwnSettings
<1> QED BY <1>1, <1>2 DEF StudioInv, Types

\* A click counts.
LEMMA ActsOK == StudioInv /\ Acts /\ UNCHANGED outran => CountTypes'
BY StudioAssumption DEF StudioInv, Types, CountTypes, Acts

\* A handler that keeps the connection and the workspace may select what it likes in it.
LEMMA SelectsKeeps ==
  ASSUME StudioInv, NEW s, Selectable(s), Selects(s), s.conn \in {store.conn, "none"},
         UNCHANGED tabs, OthersKept, CountTypes', outran => outran',
         ~outran' => s.hook \in {"none", s.workspace}
  PROVE  StudioInv'
<1>1. UNCHANGED queries
  BY DEF OthersKept
<1>2. StoreTypes' /\ TabTypes' /\ TabsBelong'
  BY <1>1, SelectsOK
<1>3. SelectionInWorkspace'
  BY DEF Selects, SelectionInWorkspace, Selectable
<1> QED BY <1>2, <1>3, SelectionKeeps

\* What is selected may be selected, also without its table or in another database.
LEMMA StoreSelectable ==
  ASSUME StudioInv
  PROVE  /\ Selectable(store) /\ store.workspace \in Spaces
         /\ \A d \in Schemas : Selectable([store EXCEPT !.db = d, !.table = "none"])
         /\ Selectable([store EXCEPT !.table = "none"])
         /\ \A w \in Spaces : Selectable([store EXCEPT !.hook = w, !.table = "none"])
<1>1. store \in StoreRow /\ (store.table # "none" => store.conn # "none")
      /\ (store.conn # "none" => Homes[store.conn] = store.workspace)
  BY DEF StudioInv, Types, StoreTypes, SelectionInWorkspace
<1> QED BY <1>1 DEF Selectable, StoreRow, Relations

\* The clicks that change what is selected.
LEMMA SelectSteps ==
  ASSUME StudioInv,
         \/ \E w \in Spaces : SwitchWorkspace(w)
         \/ \E c \in Connections : PickConnection(c)
         \/ \E d \in Schemas : PickDatabase(d)
         \/ \E t \in Listed : PickRelation(t)
         \/ PickHook
  PROVE  StudioInv'
<1>1. store \in StoreRow /\ (~outran => store.hook \in {"none", store.workspace})
  BY DEF StudioInv, Types, StoreTypes, SelectionInWorkspace
<1>2. ASSUME NEW w \in Spaces, SwitchWorkspace(w) PROVE StudioInv'
  <2> DEFINE s == [Nowhere EXCEPT !.workspace = w]
  <2>1. s = [workspace |-> w, conn |-> "none", db |-> DefaultSchema, table |-> "none", hook |-> "none"]
    BY NowhereOK
  <2>2. Selects(s) /\ UNCHANGED tabs
    BY <1>2 DEF SwitchWorkspace, SetActiveWorkspace
  <2> HIDE DEF s
  <2>3. Selectable(s) /\ s.conn = "none" /\ s.hook = "none"
    BY <2>1, StudioAssumption DEF Selectable, StoreRow, Conns, Relations
  <2>4. OthersKept /\ CountTypes' /\ UNCHANGED outran
    BY <1>2, ActsOK DEF SwitchWorkspace, othersStay, dialogVars, OthersKept
  <2> QED BY <2>2, <2>3, <2>4, SelectsKeeps
<1>3. ASSUME NEW c \in Connections, PickConnection(c) PROVE StudioInv'
  <2>1. OthersKept /\ CountTypes' /\ UNCHANGED outran
    BY <1>3, ActsOK DEF PickConnection, othersStay, dialogVars, OthersKept
  <2>2. SetActiveConnection(c) /\ Homes[c] = store.workspace /\ UNCHANGED queries
    BY <1>3, <2>1 DEF PickConnection, OthersKept
  <2>3. /\ StoreTypes' /\ TabTypes' /\ TabsBelong' /\ store'.conn = c
        /\ store'.workspace = store.workspace /\ store'.hook = store.hook
    BY <2>2, SetConnectionOK DEF Conns
  <2>4. SelectionInWorkspace'
    BY <1>1, <2>1, <2>2, <2>3 DEF SelectionInWorkspace
  <2> QED BY <2>1, <2>3, <2>4, SelectionKeeps
<1>4. ASSUME NEW d \in Schemas, PickDatabase(d) PROVE StudioInv'
  <2> DEFINE s == [store EXCEPT !.db = d, !.table = "none"]
  <2>1. Selects(s) /\ UNCHANGED tabs /\ OthersKept /\ CountTypes' /\ UNCHANGED outran
    BY <1>4, ActsOK DEF PickDatabase, SetActiveDatabase, othersStay, dialogVars, OthersKept
  <2>2. Selectable(s) /\ s.conn = store.conn /\ s.hook = store.hook /\ s.workspace = store.workspace
    BY <1>1, StoreSelectable DEF StoreRow
  <2> HIDE DEF s
  <2> QED BY <1>1, <2>1, <2>2, SelectsKeeps
<1>5. ASSUME NEW t \in Listed, PickRelation(t) PROVE StudioInv'
  <2> DEFINE s == [store EXCEPT !.table = t, !.hook = "none"]
  <2>1. Selects(s) /\ UNCHANGED tabs /\ OthersKept /\ CountTypes' /\ UNCHANGED outran
    BY <1>5, ActsOK DEF PickRelation, SelectRelation, othersStay, dialogVars, OthersKept
  <2>2. Selectable(s) /\ s.conn = store.conn /\ s.hook = "none"
    BY <1>1, <1>5, StoreSelectable DEF StoreRow, Selectable, Relations, PickRelation
  <2> HIDE DEF s
  <2> QED BY <2>1, <2>2, SelectsKeeps
<1>6. ASSUME PickHook PROVE StudioInv'
  <2> DEFINE s == [store EXCEPT !.hook = store.workspace, !.table = "none"]
  <2>1. Selects(s) /\ UNCHANGED tabs /\ OthersKept /\ CountTypes' /\ UNCHANGED outran
    BY <1>6, ActsOK DEF PickHook, SelectHook, othersStay, dialogVars, OthersKept
  <2>2. Selectable(s) /\ s.conn = store.conn /\ s.hook = s.workspace
    BY <1>1, StoreSelectable DEF StoreRow
  <2> HIDE DEF s
  <2> QED BY <2>1, <2>2, SelectsKeeps
<1> QED BY <1>2, <1>3, <1>4, <1>5, <1>6
------------------------------------------------------------------------------
(***************************************************************************)
(* Query tabs.                                                             *)
(***************************************************************************)

\* A tab is opened, closed or shown.
LEMMA TabSteps ==
  ASSUME StudioInv,
         \/ AddQueryTab
         \/ \E i \in TabIds : CloseQueryTab(i) \/ SetActiveQueryTab(i)
  PROVE  StudioInv'
<1>1. OthersKept /\ CountTypes' /\ UNCHANGED <<store, outran>>
  BY ActsOK DEF AddQueryTab, CloseQueryTab, SetActiveQueryTab, othersStay, dialogVars, OthersKept
<1>2. StoreTypes' /\ SelectionInWorkspace'
  BY <1>1 DEF StudioInv, Types, StoreTypes, SelectionInWorkspace
<1>3. /\ tabs.open \subseteq TabIds /\ tabs.active \in tabs.open /\ tabs.last \in TabIds
      /\ \A i \in tabs.open : i <= tabs.last
      /\ outputs \in [TabIds -> [conn : Conns, db : Schemas]]
      /\ tabs = [open |-> tabs.open, active |-> tabs.active, last |-> tabs.last]
  BY DEF StudioInv, Types, TabTypes, TabsRow
<1>4. NoResult \in [conn : Conns, db : Schemas] /\ NoResult.conn = "none"
  BY StudioAssumption DEF NoResult, Conns
<1>5. ASSUME AddQueryTab PROVE TabTypes' /\ TabsBelong'
  <2>1. /\ tabs' = [open |-> tabs.open \union {tabs.last + 1}, active |-> tabs.last + 1, last |-> tabs.last + 1]
        /\ tabs.last < MaxTabIds /\ UNCHANGED <<outputs, queries, store>>
    BY <1>1, <1>5 DEF AddQueryTab, OthersKept
  <2>2. TabTypes'
    <3>1. \A i \in tabs'.open : i <= tabs'.last
      BY <1>3, <2>1, FreshOK
    <3>2. tabs' \in TabsRow /\ tabs'.active \in tabs'.open
      BY <1>3, <2>1, FreshOK DEF TabsRow
    <3> QED BY <1>3, <2>1, <3>1, <3>2 DEF TabTypes
  <2>3. TabsBelong'
    <3>1. ResultsOfConnection'
      BY <2>1, FreshOK DEF StudioInv, TabsBelong, ResultsOfConnection
    <3>2. \A c \in Calls : queries[c].at = "sent" => queries[c].tab <= tabs.last + 1 /\ queries[c].tab # tabs.last + 1
      BY <1>3, <2>1, FreshOK DEF StudioInv, TabsBelong, TabIds
    <3> QED BY <2>1, <3>1, <3>2, FreshOK DEF StudioInv, TabsBelong
  <2> QED BY <2>2, <2>3
<1>6. ASSUME NEW i \in TabIds, CloseQueryTab(i) PROVE TabTypes' /\ TabsBelong'
  <2>1. outputs' = [outputs EXCEPT ![i] = NoResult] /\ UNCHANGED <<queries, store>>
    BY <1>1, <1>6 DEF CloseQueryTab, OthersKept
  <2>2. CASE tabs.last < MaxTabIds /\ FreshTabs
    <3>1. tabs' = [open |-> {tabs.last + 1}, active |-> tabs.last + 1, last |-> tabs.last + 1]
      BY <2>2 DEF FreshTabs
    <3>2. TabTypes'
      <4>1. \A j \in tabs'.open : j <= tabs'.last
        BY <2>2, <3>1, FreshOK
      <4>2. tabs' \in TabsRow /\ tabs'.active \in tabs'.open
        BY <2>2, <3>1, FreshOK DEF TabsRow
      <4> QED BY <1>3, <1>4, <2>1, <4>1, <4>2 DEF TabTypes
    <3>3. \A c \in Calls : queries[c].at = "sent" => queries[c].tab <= tabs.last + 1 /\ queries[c].tab # tabs.last + 1
      BY <1>3, <2>2, FreshOK DEF StudioInv, TabsBelong, TabIds
    <3>4. \A j \in TabIds : j > tabs.last => outputs'[j].conn = "none"
      BY <1>3, <1>4, <2>1 DEF StudioInv, TabsBelong
    <3>5. ResultsOfConnection'
      BY <1>3, <2>2, <3>1, <3>4, FreshOK DEF ResultsOfConnection, TabIds
    <3> QED BY <1>3, <2>1, <2>2, <3>1, <3>2, <3>3, <3>4, <3>5, FreshOK DEF TabsBelong, TabIds
  <2>3. CASE \E j \in tabs.open \ {i} :
               tabs' = [tabs EXCEPT !.open = @ \ {i}, !.active = IF @ = i THEN j ELSE @]
    <3>1. PICK j \in tabs.open \ {i} :
             tabs' = [open |-> tabs.open \ {i}, active |-> IF tabs.active = i THEN j ELSE tabs.active,
                      last |-> tabs.last]
      BY <1>3, <2>3
    <3>2. TabTypes'
      BY <1>3, <1>4, <2>1, <3>1 DEF TabTypes, TabsRow
    <3>3. ResultsOfConnection'
      BY <1>3, <2>1, <3>1 DEF StudioInv, TabsBelong, ResultsOfConnection
    <3>4. \A k \in TabIds : k > tabs.last => outputs'[k].conn = "none"
      BY <1>3, <1>4, <2>1 DEF StudioInv, TabsBelong
    <3> QED BY <2>1, <3>1, <3>2, <3>3, <3>4 DEF StudioInv, TabsBelong
  <2> QED BY <1>6, <2>2, <2>3 DEF CloseQueryTab
<1>7. ASSUME NEW i \in TabIds, SetActiveQueryTab(i) PROVE TabTypes' /\ TabsBelong'
  <2>1. /\ tabs' = [open |-> tabs.open, active |-> i, last |-> tabs.last] /\ i \in tabs.open
        /\ UNCHANGED <<outputs, queries, store>>
    BY <1>1, <1>3, <1>7 DEF SetActiveQueryTab, OthersKept
  <2> QED BY <1>3, <2>1 DEF TabTypes, TabsRow, StudioInv, TabsBelong, ResultsOfConnection
<1> QED BY <1>1, <1>2, <1>5, <1>6, <1>7, SelectionKeeps

\* A statement is sent for what is shown; its answer goes into that tab, if it is there.
LEMMA QuerySteps ==
  ASSUME StudioInv, NEW c \in Calls, Run(c) \/ ResultLands(c)
  PROVE  StudioInv'
<1>1. UNCHANGED <<store, tabs, known, config, standing, ask, ops, dialog, loads, outran>>
  BY DEF Run, ResultLands, selectVars, dialogVars
<1>2. ServerTypes' /\ StoreTypes' /\ DialogTypes' /\ Confirmed' /\ SelectionInWorkspace' /\ FormBelongs'
  BY <1>1 DEF StudioInv, Types, ServerTypes, StoreTypes, DialogTypes, Confirmed, SelectionInWorkspace,
     FormBelongs, OwnSettings
<1>3. /\ tabs.open \subseteq TabIds /\ tabs.active \in tabs.open /\ tabs.active \in TabIds
      /\ tabs.active <= tabs.last /\ store.conn \in Conns /\ store.db \in Schemas
  BY DEF StudioInv, Types, TabTypes, TabsRow, StoreTypes, StoreRow
<1>4. \A k \in Calls : queries[k] \in {NoQuery} \union QueryRow
  BY DEF StudioInv, Types, OpTypes
<1>5. ASSUME Run(c) PROVE StudioInv'
  <2> DEFINE q == [at |-> "sent", tab |-> tabs.active, conn |-> store.conn, db |-> store.db]
  <2>1. queries' = [queries EXCEPT ![c] = q] /\ UNCHANGED outputs /\ store.conn # "none"
    BY <1>5 DEF Run, selectVars
  <2>2. q \in QueryRow
    BY <1>3, <2>1 DEF QueryRow, Conns
  <2>3. OpTypes'
    BY <1>1, <2>1, <2>2 DEF StudioInv, Types, OpTypes
  <2>4. TabTypes' /\ CountTypes'
    BY <1>1, <1>5, <2>1, ActsOK DEF StudioInv, Types, TabTypes, Run
  <2>5. \A k \in Calls : queries'[k] = IF k = c THEN q ELSE queries[k]
    BY <2>1 DEF StudioInv, Types, OpTypes
  <2>6. TabsBelong'
    BY <1>1, <1>3, <2>1, <2>5 DEF StudioInv, TabsBelong, ResultsOfConnection
  <2> QED BY <1>2, <2>3, <2>4, <2>6 DEF StudioInv, Types
<1>6. ASSUME ResultLands(c) PROVE StudioInv'
  <2> DEFINE q == queries[c]
  <2>1. /\ queries' = [queries EXCEPT ![c] = NoQuery] /\ q.at = "sent" /\ UNCHANGED acts
        /\ outputs' = outputs \/ outputs' = [outputs EXCEPT ![q.tab] = [conn |-> q.conn, db |-> q.db]]
    BY <1>6 DEF ResultLands
  <2>2. q.tab \in TabIds /\ q.conn \in Connections /\ q.db \in Schemas
    BY <1>4, <2>1 DEF NoQuery, QueryRow
  <2>3. q.tab <= tabs.last /\ (q.tab \in tabs.open /\ store.conn # "none" => q.conn = store.conn)
    BY <2>1 DEF StudioInv, TabsBelong
  <2>4. \A k \in Calls : queries'[k] = IF k = c THEN NoQuery ELSE queries[k]
    BY <2>1 DEF StudioInv, Types, OpTypes
  <2> HIDE DEF q
  <2>5. OpTypes' /\ CountTypes'
    BY <1>1, <2>1 DEF StudioInv, Types, OpTypes, CountTypes
  <2>6. TabTypes'
    BY <1>1, <2>1, <2>2 DEF StudioInv, Types, TabTypes, Conns
  <2>7. ResultsOfConnection'
    BY <1>1, <1>3, <2>1, <2>2, <2>3 DEF StudioInv, Types, TabTypes, TabsBelong, ResultsOfConnection
  <2>8. \A i \in TabIds : i > tabs.last => outputs'[i].conn = "none"
    <3> SUFFICES ASSUME NEW i \in TabIds, i > tabs.last PROVE outputs'[i].conn = "none"
      OBVIOUS
    <3>1. tabs.last \in TabIds /\ outputs[i].conn = "none"
      BY DEF StudioInv, Types, TabTypes, TabsRow, TabsBelong
    <3>2. i # q.tab
      BY <2>2, <2>3, <3>1 DEF TabIds
    <3> QED BY <1>3, <2>1, <2>2, <3>1, <3>2 DEF StudioInv, Types, TabTypes
  <2>9. TabsBelong'
    BY <1>1, <2>4, <2>7, <2>8 DEF StudioInv, TabsBelong, NoQuery
  <2> QED BY <1>2, <2>5, <2>6, <2>9 DEF StudioInv, Types
<1> QED BY <1>5, <1>6
------------------------------------------------------------------------------
(***************************************************************************)
(* Operations: asked for, confirmed, carried out, and ended on a selection *)
(* that has gone on meanwhile.                                             *)
(***************************************************************************)

\* What an operation is.
LEMMA OpOK ==
  ASSUME StudioInv, NEW c \in Calls
  PROVE  /\ ops[c] \in {NoOp} \union AskedRow \union MenuRow
         /\ ops[c].at # "none" => ops[c] \in AskedRow \/ ops[c] \in MenuRow
         /\ ops[c].kind \in AskKinds /\ ops[c].at # "none" => ops[c] \in AskedRow
         /\ ops[c].kind \in {"connection", "hook"} /\ ops[c].at # "none" => ops[c] \in MenuRow
<1>1. ops[c] \in {NoOp} \union AskedRow \union MenuRow
  BY DEF StudioInv, Types, OpTypes
<1>2. NoOp.at = "none"
  BY DEF NoOp
<1>3. ops[c] \in MenuRow => ops[c].kind \notin AskKinds
  BY DEF MenuRow, AskKinds
<1>4. ops[c] \in AskedRow => ops[c].kind \notin {"connection", "hook"}
  BY DEF AskedRow, AskKinds
<1> QED BY <1>1, <1>2, <1>3, <1>4

\* One operation moves on; nothing else is touched but by it.
LEMMA OpMoves ==
  ASSUME StudioInv, NEW c \in Calls, NEW o \in {NoOp} \union AskedRow \union MenuRow,
         ops' = [ops EXCEPT ![c] = o],
         o \in AskedRow => o.conn = o.seen.conn /\ o.db = o.seen.db,
         ask' \in {NoOp} \union AskRow, UNCHANGED queries
  PROVE  OpTypes' /\ Confirmed'
<1>1. OpTypes'
  BY DEF StudioInv, Types, OpTypes
<1>2. \A k \in Calls : ops'[k] = IF k = c THEN o ELSE ops[k]
  BY DEF StudioInv, Types, OpTypes
<1>3. Confirmed'
  BY <1>2 DEF StudioInv, Confirmed
<1> QED BY <1>1, <1>3

\* What the steps of an operation leave alone before it ends.
LEMMA OpKeeps ==
  ASSUME StudioInv, OpTypes', Confirmed', ServerTypes', CountTypes',
         UNCHANGED <<selectVars, queries, dialog, loads, config, outran>>
  PROVE  StudioInv'
<1>1. UNCHANGED <<store, tabs, outputs, queries, dialog, loads, config, outran>>
  BY DEF selectVars
<1>2. StoreTypes' /\ TabTypes' /\ DialogTypes'
  BY <1>1 DEF StudioInv, Types, StoreTypes, TabTypes, DialogTypes
<1>3. TabsBelong' /\ SelectionInWorkspace' /\ FormBelongs'
  BY <1>1 DEF StudioInv, TabsBelong, ResultsOfConnection, SelectionInWorkspace, FormBelongs, OwnSettings
<1> QED BY <1>2, <1>3 DEF StudioInv, Types

\* A menu asks, the user confirms, or an operation starts without being confirmed.
LEMMA AskSteps ==
  ASSUME StudioInv,
         \/ \E t \in Listed : Choose("drop", t) \/ Choose("truncate", t)
         \/ Choose("database", "none") \/ Choose("restore", "none")
         \/ \E c \in Calls : \/ CreateHook(c)
                             \/ \E conn \in Connections : DeleteConnection(c, conn)
                             \/ \E yes \in BOOLEAN : Confirm(c, yes)
  PROVE  StudioInv'
<1>1. /\ store.conn \in Conns /\ store.db \in Schemas /\ store.table \in Relations
      /\ store.workspace \in Spaces /\ ask \in {NoOp} \union AskRow
  BY DEF StudioInv, Types, StoreTypes, StoreRow, OpTypes
<1>2. ASSUME NEW kind \in AskKinds, NEW t \in Relations, Choose(kind, t) PROVE StudioInv'
  <2> DEFINE a == [at |-> "shown", kind |-> kind, table |-> t, conn |-> store.conn, db |-> store.db,
                   selected |-> store.table]
  <2>1. /\ ask' = a /\ store.conn # "none" /\ CountTypes'
        /\ UNCHANGED <<selectVars, known, standing, queries, ops, dialog, loads, config, outran>>
    BY <1>2, ActsOK DEF Choose, dialogVars
  <2>2. a \in AskRow
    BY <1>1, <2>1 DEF AskRow, Conns
  <2> HIDE DEF a
  <2>3. OpTypes' /\ Confirmed' /\ ServerTypes'
    BY <2>1, <2>2 DEF StudioInv, Types, OpTypes, Confirmed, ServerTypes
  <2> QED BY <2>1, <2>3, OpKeeps
<1>3. ASSUME NEW c \in Calls, NEW kind \in {"connection", "hook"}, NEW conn \in Conns, StartOp(c, kind, conn)
      PROVE  StudioInv'
  <2> DEFINE o == [at |-> "sent", kind |-> kind, table |-> "none", conn |-> conn, db |-> store.db,
                   selected |-> store.conn, home |-> store.workspace]
  <2>1. /\ ops' = [ops EXCEPT ![c] = o] /\ CountTypes'
        /\ UNCHANGED <<selectVars, known, standing, queries, ask, dialog, loads, config, outran>>
    BY <1>3, ActsOK DEF StartOp, dialogVars
  <2>2. o \in MenuRow /\ o \notin AskedRow
    BY <1>1 DEF MenuRow, AskedRow, AskKinds
  <2> HIDE DEF o
  <2>3. OpTypes' /\ Confirmed'
    BY <1>1, <2>1, <2>2, OpMoves
  <2>4. ServerTypes'
    BY <2>1 DEF StudioInv, Types, ServerTypes
  <2> QED BY <2>1, <2>3, <2>4, OpKeeps
<1>4. ASSUME NEW c \in Calls, NEW yes \in BOOLEAN, Confirm(c, yes) PROVE StudioInv'
  <2> DEFINE o == [at |-> "sent", kind |-> ask.kind, table |-> ask.table, conn |-> ask.conn,
                   db |-> ask.db, selected |-> ask.selected, seen |-> ask]
  <2>1. /\ ask.at = "shown" /\ ask' = NoOp /\ (ops' = ops \/ ops' = [ops EXCEPT ![c] = o])
        /\ UNCHANGED <<selectVars, known, standing, queries, dialog, loads, config, acts, outran>>
    BY <1>4 DEF Confirm, dialogVars
  <2>2. ask \in AskRow
    BY <1>1, <2>1 DEF NoOp
  <2>3. o \in AskedRow /\ o.conn = o.seen.conn /\ o.db = o.seen.db
    BY <2>2 DEF AskRow, AskedRow
  <2> HIDE DEF o
  <2>4. OpTypes' /\ Confirmed'
    <3>1. CASE ops' = ops
      BY <2>1, <3>1 DEF StudioInv, Types, OpTypes, Confirmed
    <3>2. CASE ops' = [ops EXCEPT ![c] = o]
      BY <2>1, <2>3, <3>2, OpMoves
    <3> QED BY <2>1, <3>1, <3>2
  <2>5. ServerTypes' /\ CountTypes'
    BY <2>1 DEF StudioInv, Types, ServerTypes, CountTypes
  <2> QED BY <2>1, <2>4, <2>5, OpKeeps
<1>5. "none" \in Relations /\ "none" \in Conns /\ Listed \subseteq Relations /\ Connections \subseteq Conns
  BY DEF Relations, Conns
<1>6. {"drop", "truncate", "database", "restore"} = AskKinds
  BY DEF AskKinds
<1> QED BY <1>2, <1>3, <1>4, <1>5, <1>6 DEF CreateHook, DeleteConnection

\* The server carries an operation out, or refuses it.
LEMMA ArrivesStep ==
  ASSUME StudioInv, NEW c \in Calls, OpArrives(c)
  PROVE  StudioInv'
<1>1. PICK at \in {"done", "failed"} : ops' = [ops EXCEPT ![c].at = at]
  BY DEF OpArrives
<1> DEFINE o == [ops[c] EXCEPT !.at = at]
<1>2. ops[c].at = "sent" /\ UNCHANGED <<selectVars, queries, ask, dialog, loads, config, acts, outran>>
  BY DEF OpArrives, dialogVars
<1>3. ops[c] \in AskedRow \/ ops[c] \in MenuRow
  BY <1>2, OpOK
<1>4. o \in AskedRow \/ o \in MenuRow
  BY <1>3 DEF AskedRow, MenuRow
<1>5. o \in AskedRow => o.conn = o.seen.conn /\ o.db = o.seen.db
  <2>1. ops[c] \in MenuRow => o \notin AskedRow
    BY DEF MenuRow, AskedRow, AskKinds
  <2>2. ops[c] \in AskedRow => ops[c].conn = ops[c].seen.conn /\ ops[c].db = ops[c].seen.db
    BY DEF StudioInv, Confirmed
  <2>3. ops[c] \in AskedRow => o.conn = ops[c].conn /\ o.db = ops[c].db /\ o.seen = ops[c].seen
    BY DEF AskedRow
  <2> QED BY <1>3, <2>1, <2>2, <2>3
<1>6. ops' = [ops EXCEPT ![c] = o]
  BY <1>1
<1> HIDE DEF o
<1>7. OpTypes' /\ Confirmed'
  <2>1. ask' \in {NoOp} \union AskRow
    BY <1>2 DEF StudioInv, Types, OpTypes
  <2> QED BY <1>2, <1>4, <1>5, <1>6, <2>1, OpMoves
<1>8. known' \subseteq known /\ standing' \subseteq standing
  BY DEF OpArrives
<1>9. ServerTypes' /\ CountTypes'
  BY <1>2, <1>8 DEF StudioInv, Types, ServerTypes, CountTypes
<1> QED BY <1>2, <1>7, <1>9, OpKeeps

\* A handler ends: what it changes of the selection keeps the connection, or gives it up.
LEMMA LandsStep ==
  ASSUME StudioInv, NEW c \in Calls, OpLands(c)
  PROVE  StudioInv'
<1> DEFINE o == ops[c]
<1>1. /\ o.at \in {"done", "failed"} /\ ops' = [ops EXCEPT ![c] = NoOp]
      /\ UNCHANGED <<known, standing, queries, ask, dialog, loads, config, acts>>
      /\ outran' = (outran \/ (o.kind = "hook" /\ o.at = "done" /\ o.home # store.workspace))
  BY DEF OpLands, dialogVars
<1>2. o \in AskedRow \/ o \in MenuRow
  BY <1>1, OpOK
<1>3. /\ o.kind \in {"connection", "hook"} => o \in MenuRow
      /\ o \in MenuRow => o.home \in Spaces
  BY <1>1, OpOK DEF MenuRow
<1>4. /\ \/ UNCHANGED selectVars
         \/ ClearSelection
         \/ SetActiveDatabase(DefaultSchema)
         \/ SetActiveConnection("none")
         \/ o.kind = "hook" /\ o.at = "done" /\ SelectHook(o.home)
  <2>1. o.kind \in {"drop", "truncate", "database", "restore", "connection", "hook"}
    BY <1>2 DEF AskedRow, MenuRow, AskKinds
  <2> HIDE DEF o
  <2>2. CASE o.at = "failed"
    BY <2>2 DEF OpLands, o
  <2>3. CASE o.at = "done"
    BY <2>1, <2>3 DEF OpLands, o
  <2> QED BY <1>1, <2>2, <2>3
<1>5. OpTypes' /\ Confirmed'
  <2>1. NoOp \notin AskedRow
    BY DEF NoOp, AskedRow
  <2>2. ask' \in {NoOp} \union AskRow
    BY <1>1 DEF StudioInv, Types, OpTypes
  <2> QED BY <1>1, <2>1, <2>2, OpMoves
<1>6. ServerTypes' /\ DialogTypes'
  BY <1>1 DEF StudioInv, Types, ServerTypes, DialogTypes
<1>7. CountTypes' /\ (outran => outran')
  <2>1. outran' \in BOOLEAN /\ (outran => outran')
    BY <1>1, Zenon DEF StudioInv, Types, CountTypes
  <2> QED BY <1>1, <2>1 DEF StudioInv, Types, CountTypes
<1>8. FormBelongs'
  BY <1>1, <1>7 DEF StudioInv, FormBelongs, OwnSettings
<1>9. StoreTypes' /\ TabTypes' /\ TabsBelong' /\ SelectionInWorkspace'
  <2> DEFINE Kept(s) == Selectable(s) /\ Selects(s) /\ UNCHANGED tabs /\ s.conn = store.conn
                        /\ (~outran' => s.hook \in {"none", s.workspace})
  <2>1. ~outran' => store.hook \in {"none", store.workspace}
    BY <1>7 DEF StudioInv, SelectionInWorkspace
  <2>2. store \in StoreRow
    BY DEF StudioInv, Types, StoreTypes
  <2>3. ASSUME NEW s, Kept(s) PROVE StoreTypes' /\ TabTypes' /\ TabsBelong' /\ SelectionInWorkspace'
    <3>1. StoreTypes' /\ TabTypes' /\ TabsBelong'
      BY <1>1, <2>3, SelectsOK
    <3>2. SelectionInWorkspace'
      BY <2>3 DEF Selects, SelectionInWorkspace, Selectable
    <3> QED BY <3>1, <3>2
  <2>4. CASE UNCHANGED selectVars
    <3>1. Kept(store)
      BY <2>1, <2>4, StoreSelectable DEF selectVars, Selects
    <3> HIDE DEF Kept
    <3> QED BY <2>3, <3>1
  <2>5. CASE ClearSelection
    <3> DEFINE s == [store EXCEPT !.table = "none"]
    <3>1. s.conn = store.conn /\ s.hook = store.hook /\ s.workspace = store.workspace
      BY <2>2 DEF StoreRow
    <3>2. Selectable(s) /\ Selects(s) /\ UNCHANGED tabs
      BY <2>5, StoreSelectable DEF ClearSelection
    <3> HIDE DEF s
    <3>3. Kept(s)
      BY <2>1, <3>1, <3>2
    <3> HIDE DEF Kept
    <3> QED BY <2>3, <3>3
  <2>6. CASE SetActiveDatabase(DefaultSchema)
    <3> DEFINE s == [store EXCEPT !.db = DefaultSchema, !.table = "none"]
    <3>1. s.conn = store.conn /\ s.hook = store.hook /\ s.workspace = store.workspace
      BY <2>2 DEF StoreRow
    <3>2. Selectable(s) /\ Selects(s) /\ UNCHANGED tabs
      BY <2>6, StoreSelectable, StudioAssumption DEF SetActiveDatabase
    <3> HIDE DEF s
    <3>3. Kept(s)
      BY <2>1, <3>1, <3>2
    <3> HIDE DEF Kept
    <3> QED BY <2>3, <3>3
  <2>7. CASE SetActiveConnection("none")
    <3>1. /\ StoreTypes' /\ TabTypes' /\ TabsBelong' /\ store'.conn = "none"
          /\ store'.workspace = store.workspace /\ store'.hook = store.hook
      BY <1>1, <2>7, SetConnectionOK DEF Conns
    <3> QED BY <2>1, <3>1 DEF SelectionInWorkspace
  <2>8. CASE o.kind = "hook" /\ o.at = "done" /\ SelectHook(o.home)
    <3> DEFINE s == [store EXCEPT !.hook = o.home, !.table = "none"]
    <3>1. o.home \in Spaces
      BY <1>3, <2>8
    <3>2. ~outran' => o.home = store.workspace
      BY <1>1, <2>8
    <3> HIDE DEF o
    <3>3. s.conn = store.conn /\ s.hook = o.home /\ s.workspace = store.workspace
      BY <2>2 DEF StoreRow
    <3>4. Selectable(s) /\ Selects(s) /\ UNCHANGED tabs
      BY <2>8, <3>1, StoreSelectable DEF SelectHook
    <3> HIDE DEF s
    <3>5. Kept(s)
      BY <3>2, <3>3, <3>4
    <3> HIDE DEF Kept
    <3> QED BY <2>3, <3>5
  <2> QED BY <1>4, <2>4, <2>5, <2>6, <2>7, <2>8
<1> QED BY <1>5, <1>6, <1>7, <1>8, <1>9 DEF StudioInv, Types
------------------------------------------------------------------------------
(***************************************************************************)
(* The dialog of a connection.                                             *)
(***************************************************************************)

\* A dialog opens, closes, gets its settings, and saves them.
LEMMA DialogSteps ==
  ASSUME StudioInv,
         \/ \E c \in Connections : OpenDialog(c) \/ LoadSettles(c)
         \/ CloseDialog \/ SaveConnection
  PROVE  StudioInv'
<1>1. UNCHANGED <<store, tabs, outputs, known, standing, queries, ask, ops>> /\ (outran => outran')
  <2>1. UNCHANGED <<store, tabs, outputs, known, standing, queries, ask, ops>>
    BY DEF OpenDialog, LoadSettles, CloseDialog, SaveConnection, selectVars, dialogOnly
  <2>2. outran => outran'
    BY Zenon DEF OpenDialog, LoadSettles, CloseDialog, SaveConnection
  <2> QED BY <2>1, <2>2
<1>2. StoreTypes' /\ TabTypes' /\ OpTypes' /\ Confirmed' /\ TabsBelong' /\ SelectionInWorkspace'
  BY <1>1 DEF StudioInv, Types, StoreTypes, TabTypes, OpTypes, Confirmed, TabsBelong,
     ResultsOfConnection, SelectionInWorkspace
<1>3. /\ dialog = [open |-> dialog.open, editing |-> dialog.editing, form |-> dialog.form]
      /\ dialog.open \in BOOLEAN /\ dialog.editing \in Conns /\ dialog.form \in Connections \union {"blank"}
      /\ config \in [Connections -> Connections \union {"blank"}] /\ loads \subseteq Connections
      /\ known \subseteq Connections
  BY DEF StudioInv, Types, DialogTypes, DialogRow, ServerTypes
<1>4. /\ dialog.open => dialog.editing \in Connections
      /\ dialog.open /\ ~outran => dialog.form \in {dialog.editing, "blank"}
      /\ ~outran => \A c \in Connections : config[c] \in {c, "blank"}
  BY DEF StudioInv, FormBelongs, OwnSettings
<1>5. ASSUME NEW c \in Connections, OpenDialog(c) PROVE StudioInv'
  <2>1. /\ dialog' = [open |-> TRUE, editing |-> c, form |-> "blank"] /\ loads' = loads \union {c}
        /\ UNCHANGED <<config, outran>> /\ CountTypes'
    BY <1>5, ActsOK DEF OpenDialog
  <2>2. ServerTypes' /\ DialogTypes'
    BY <1>1, <1>3, <2>1 DEF StudioInv, Types, ServerTypes, DialogTypes, DialogRow, Conns
  <2>3. FormBelongs'
    BY <1>4, <2>1 DEF FormBelongs, OwnSettings
  <2> QED BY <1>2, <2>1, <2>2, <2>3 DEF StudioInv, Types
<1>6. ASSUME NEW c \in Connections, LoadSettles(c) PROVE StudioInv'
  <2>1. /\ loads' = loads \ {c} /\ UNCHANGED <<config, acts>>
        /\ outran' = (outran \/ (dialog.open /\ dialog.editing # c))
        /\ \/ dialog' = [open |-> dialog.open, editing |-> dialog.editing, form |-> config[c]]
           \/ dialog' = [open |-> FALSE, editing |-> "none", form |-> dialog.form]
    BY <1>3, <1>6 DEF LoadSettles, dialogOnly
  <2>2. ServerTypes' /\ DialogTypes'
    <3>1. config[c] \in Connections \union {"blank"} /\ loads \ {c} \subseteq Connections
      BY <1>3
    <3>2. [open |-> dialog.open, editing |-> dialog.editing, form |-> config[c]] \in DialogRow
      BY <1>3, <3>1 DEF DialogRow
    <3>3. [open |-> FALSE, editing |-> "none", form |-> dialog.form] \in DialogRow
      BY <1>3 DEF DialogRow, Conns
    <3>4. dialog' \in DialogRow
      BY <2>1, <3>2, <3>3
    <3> QED BY <1>1, <2>1, <3>1, <3>4 DEF StudioInv, Types, ServerTypes, DialogTypes
  <2>3. CountTypes'
    <3>1. outran' \in BOOLEAN
      BY <1>3, <2>1, Zenon DEF StudioInv, Types, CountTypes
    <3> QED BY <2>1, <3>1 DEF StudioInv, Types, CountTypes
  <2>4. FormBelongs'
    <3>1. CASE dialog' = [open |-> dialog.open, editing |-> dialog.editing, form |-> config[c]]
      BY <1>1, <1>4, <2>1, <3>1 DEF FormBelongs, OwnSettings
    <3>2. CASE dialog' = [open |-> FALSE, editing |-> "none", form |-> dialog.form]
      BY <1>1, <1>4, <2>1, <3>2 DEF FormBelongs, OwnSettings
    <3> QED BY <2>1, <3>1, <3>2
  <2> QED BY <1>2, <2>2, <2>3, <2>4 DEF StudioInv, Types
<1>7. ASSUME CloseDialog PROVE StudioInv'
  <2>1. /\ dialog' = [open |-> FALSE, editing |-> "none", form |-> dialog.form]
        /\ UNCHANGED <<config, loads, acts, outran>>
    BY <1>3, <1>7 DEF CloseDialog, dialogOnly
  <2>2. ServerTypes' /\ DialogTypes' /\ CountTypes'
    BY <1>1, <1>3, <2>1 DEF StudioInv, Types, ServerTypes, DialogTypes, DialogRow, Conns, CountTypes
  <2>3. FormBelongs'
    BY <1>4, <2>1 DEF FormBelongs, OwnSettings
  <2> QED BY <1>2, <2>2, <2>3 DEF StudioInv, Types
<1>8. ASSUME SaveConnection PROVE StudioInv'
  <2>1. /\ dialog' = [open |-> FALSE, editing |-> "none", form |-> dialog.form] /\ dialog.open
        /\ config' = [config EXCEPT ![dialog.editing] = dialog.form]
        /\ UNCHANGED <<loads, acts, outran>>
    BY <1>3, <1>8 DEF SaveConnection, dialogOnly
  <2>2. ServerTypes' /\ DialogTypes' /\ CountTypes'
    BY <1>1, <1>3, <2>1 DEF StudioInv, Types, ServerTypes, DialogTypes, DialogRow, Conns, CountTypes
  <2>3. FormBelongs'
    BY <1>3, <1>4, <2>1 DEF FormBelongs, OwnSettings
  <2> QED BY <1>2, <2>2, <2>3 DEF StudioInv, Types
<1> QED BY <1>5, <1>6, <1>7, <1>8
------------------------------------------------------------------------------
\* Every step keeps it.
LEMMA NextOK == StudioInv /\ [StudioNext]_studioVars => StudioInv'
<1> SUFFICES ASSUME StudioInv, [StudioNext]_studioVars PROVE StudioInv'
  OBVIOUS
<1>1. CASE UNCHANGED studioVars
  <2>1. UNCHANGED <<known, config, standing, store, tabs, outputs, queries, ask, ops, dialog, loads, acts, outran>>
    BY <1>1 DEF studioVars
  <2> QED BY <2>1 DEF StudioInv, Types, ServerTypes, StoreTypes, TabTypes, OpTypes, DialogTypes, CountTypes,
         Confirmed, TabsBelong, ResultsOfConnection, SelectionInWorkspace, FormBelongs, OwnSettings
<1>2. CASE StudioNext
  BY <1>2, SelectSteps, TabSteps, QuerySteps, AskSteps, ArrivesStep, LandsStep, DialogSteps DEF StudioNext
<1> QED BY <1>1, <1>2

(***************************************************************************)
(* Whatever the user clicks and whenever the answers come: a result on the *)
(* screen was run on the connection in view, what is dropped or truncated  *)
(* is what the user saw when asking, the selection lies in the workspace,  *)
(* and no connection is saved with another one's settings, unless an       *)
(* answer outran the user (store.ts, schema-tree.tsx, query-editor.tsx,    *)
(* connection-dialog.tsx).                                                 *)
(***************************************************************************)
THEOREM StudioKept == StudioSpec => []StudioSafe
<1>1. StudioInit => StudioInv
  BY InitOK
<1>2. StudioInv /\ [StudioNext]_studioVars => StudioInv'
  BY NextOK
<1>3. StudioInv => StudioSafe
  BY InvIsSafe
<1> QED BY <1>1, <1>2, <1>3, PTL DEF StudioSpec
==============================================================================
