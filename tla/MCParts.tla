------------------------------- MODULE MCParts -------------------------------
(* The parts of the data path and of the web application for TLC: in each behaviour one *)
(* of them moves. *)
EXTENDS DatabaseSink, HttpDelivery, RowStream, Payload, Backup, RunView, GridEdit, HookForm, Studio, TLC

VARIABLE focus

(* Scenarios of the sink: two tables of each engine, and batches of two rows. *)
CONSTANTS srv, doc, file, log, e1, e2, k1, k2, k3, k4

Alone == [e \in {e1, e2} |-> {}]
InTurn == [Alone EXCEPT ![e2] = {e1}]
Two == (e1 :> <<k1, k2>>) @@ (e2 :> <<k3, k4>>)
OneSent == (e1 :> <<k1, k2>>) @@ (e2 :> <<>>)
Writes == [e \in {e1, e2} |-> "write"]
Deletes == [Writes EXCEPT ![e2] = "delete"]
Into(first, second) == (e1 :> first) @@ (e2 :> second)

Base == [batch |-> Two, op |-> Writes, targets |-> Into(<<srv, doc>>, <<srv, doc>>), after |-> InTurn,
         engine |-> srv :> "server" @@ doc :> "mongodb" @@ file :> "sqlite" @@ log :> "server",
         appends |-> {log}, creates |-> {srv}, provided |-> {doc, file, log}, large |-> {},
         resends |-> 1, faults |-> {"probe", "row", "crash", "drop"}]

\* One hook with two targets; the same with a table of its own, without createMissingTable;
\* a table that gets inserts only; a change stream that deletes; two hooks whose target is
\* missing; a SQLite file that one hook writes to.
SinkSetups == {
  Base,
  [Base EXCEPT !.targets = Into(<<srv>>, <<srv>>), !.provided = {srv}, !.creates = {},
               !.faults = {"commit", "drop"}],
  [Base EXCEPT !.batch = OneSent, !.targets = Into(<<log>>, <<>>), !.resends = 2,
               !.faults = {"probe", "row"}],
  [Base EXCEPT !.batch = (e1 :> <<k1>>) @@ (e2 :> <<k1>>), !.op = Deletes,
               !.targets = Into(<<doc, file>>, <<doc, file>>), !.resends = 0,
               !.faults = {"probe", "row", "crash"}],
  [Base EXCEPT !.targets = Into(<<srv>>, <<srv>>), !.after = Alone, !.faults = {"row", "crash"}],
  [Base EXCEPT !.batch = OneSent, !.targets = Into(<<file>>, <<>>), !.faults = {"row", "crash"}] }

\* Two hooks that write to one SQLite file.
SharedFile == {[Base EXCEPT !.targets = Into(<<file>>, <<file>>), !.after = Alone, !.faults = {}]}
\* The failed delete of a change stream is sent again.
DeleteAgain == {[Base EXCEPT !.batch = (e1 :> <<k1>>) @@ (e2 :> <<k1>>), !.op = Deletes,
                             !.faults = {"row"}]}
\* A captured body that was cut.
CutBody == {[Base EXCEPT !.large = {e1}, !.faults = {"row"}]}
\* Two tables that get inserts only.
TwoLogs == {[Base EXCEPT !.appends = {log, srv}, !.targets = Into(<<log, srv>>, <<>>),
                         !.batch = OneSent, !.provided = {log, srv}, !.faults = {"row"}]}

(* Scenarios of the stream. *)
Table == [kind |-> "sql", keyset |-> TRUE, cap |-> 0, breaks |-> 0, changes |-> {}]
StreamSources == {
  [Table EXCEPT !.changes = {"insert", "delete"}],
  [Table EXCEPT !.breaks = 2],
  [Table EXCEPT !.keyset = FALSE, !.breaks = 2],
  [Table EXCEPT !.kind = "query", !.keyset = FALSE, !.cap = NumKeys, !.changes = {"insert", "delete"}],
  [Table EXCEPT !.kind = "query", !.keyset = FALSE, !.cap = NumKeys - 1, !.breaks = 2] }

\* Sources whose rows are lost: keys that are no SQL values, and a key that moved.
ObjectIds == {[Table EXCEPT !.kind = "objectid"]}
RedisKeys == {[Table EXCEPT !.kind = "redis"]}
Shifted   == {[Table EXCEPT !.breaks = 1, !.changes = {"delete"}]}
Offsets   == {[Table EXCEPT !.keyset = FALSE, !.changes = {"delete"}]}

(* Rows and hooks of the payload. *)
Typed(n, id, a) == [i \in 1 .. n |-> ("id" :> id) @@ ("a" :> a)]
Order == ("id" :> 1) @@ ("a" :> 2) @@ ("$op" :> 3)
NoRename == [x \in {} |-> "none"]
Plain == [rows |-> Typed(4, "int", "string"), order |-> Order, op |-> "none", dest |-> "http", batch |-> 1,
          template |-> "$row", tokens |-> NoRename, fields |-> {}, rename |-> NoRename, wrap |-> FALSE,
          mapping |-> {}, keys |-> {}, engine |-> "postgres"]
To(s, t) == [source |-> s, target |-> t]
\* Sources whose columns keep their type, and sources whose first row has another one.
Rowsets == {Typed(3, id, a) : id \in {"int", "string", "object"}, a \in Types \ {"absent"}}
           \union {[Typed(3, "int", "int") EXCEPT ![1]["a"] = x] : x \in {"absent", "null", "real"}}
PayloadJobs ==
  {[Plain EXCEPT !.batch = b, !.op = o, !.template = t, !.fields = f, !.rename = r, !.wrap = w,
                 !.tokens = ("x" :> "a") @@ ("i" :> "$index") @@ ("m" :> "gone")] :
     b \in 1 .. 3, o \in {"none", "insert"}, t \in {"$row", "object"}, f \in {{}, {"a"}},
     r \in {NoRename, "a" :> "id", ("a" :> "id") @@ ("id" :> "a")}, w \in BOOLEAN}
  \union
  {[Plain EXCEPT !.rows = s, !.dest = "database", !.batch = b, !.mapping = m[1], !.keys = m[2], !.engine = e] :
     s \in Rowsets, b \in {1, 2}, e \in {"postgres", "mysql", "mssql", "sqlite"},
     m \in {<<{}, {"id"}>>, <<{To("id", "id"), To("a", "x")}, {"id"}>>,
            <<{To("id", "a"), To("a", "id")}, {"a"}>>}}

(* Hooks to edit: drafts of both destinations, one with rows picked, two disabled. *)
MCColumns == [t \in SourceTables |-> IF t = "t1" THEN {"id", "a"} ELSE {"id", "b"}]
MCIdentity == [t \in SourceTables |-> "id"]
Made(t) == [table |-> t, rows |-> {}, fields |-> {}, trigger |-> "replay", sink |-> "http",
            mapping |-> {}, keys |-> {}, enabled |-> TRUE]
IdKey == {[column |-> "id", renamed |-> FALSE]}
MCStarts == {
  ("h1" :> [Made("t1") EXCEPT !.enabled = FALSE])
    @@ ("h2" :> [Made("t2") EXCEPT !.rows = {[table |-> "t2", row |-> 1]}, !.fields = {"id"}]),
  "h1" :> [Made("t1") EXCEPT !.sink = "database", !.mapping = IdKey, !.fields = {"id"}, !.keys = IdKey,
                             !.trigger = "watch", !.enabled = FALSE] }

MCHomes == "c1" :> "w1" @@ "c2" :> "w1" @@ "c3" :> "w2"

\* A part that stands still has one initial state; the texts of the grid are alike.
Still(part, P) == IF focus # part THEN P ELSE TRUE
MCInit ==
  /\ focus \in {"sink", "http", "stream", "payload", "backup", "runs", "grid", "form", "studio"}
  /\ Still("sink", setup = CHOOSE s \in Setups : TRUE)
  /\ Still("stream", source = (CHOOSE s \in Sources : TRUE) /\ present = 1 .. NumKeys)
  /\ Still("payload", job = CHOOSE j \in Jobs : TRUE)
  /\ Still("backup", engine = "sql" /\ origin = Gone)
  /\ Still("runs", kind = "replay" /\ status = NoRuns)
  /\ database = [t \in Relations |-> [k \in RowKeys |-> CHOOSE v \in Texts : TRUE]]
  /\ Still("form", hooks = CHOOSE s \in Starts : TRUE)
  /\ SinkInit /\ HttpInit /\ StreamInit /\ PayloadInit
  /\ BackupInit /\ (focus # "backup" => target.keyed)
  /\ RunViewInit /\ GridInit /\ FormInit /\ StudioInit

\* Bounds on what goes on together.  One late request of an entry at a time.  A listener's
\* log is paged once; a second run of a replay is the first and the only move there is; and
\* the user acts while one request at most is under way.  The third step in the grid goes to
\* a page that was opened before, and the other client is silent.  The second time the form
\* is opened it is changed once at most.  What is truncated or restored into is asked for
\* first, and statements, operations and the dialog of a connection are not under way
\* together.
HttpStep == Cardinality(wire') <= 1
RequestsOfRuns ==
  Cardinality({w \in Windows : cache[w].at # "idle"})
    + Cardinality({i \in {1, 2} : <<poll.at # "idle", call.at # "idle">>[i]})
SecondRun == Exists(2) \/ status' # status \/ (Exists(1) /\ call'.op = "start")
RunsStep ==
  moves' # moves => /\ kind = "listener" \/ SecondRun => moves = 0
                    /\ RequestsOfRuns <= 1
GridStep == steps' # steps /\ steps = 2 => alone' /\ place' # place /\ pages[place'] # NotRead
FormStep == opens' = 2 => clicks' <= 1
StudioStep ==
  /\ ask'.at = "none" \/ ask'.kind \in {"drop", "database"} \/ ask = ask' \/ acts' = 1
  /\ Cardinality({i \in 1 .. 3 : << \E c \in Calls : queries'[c].at # "none",
                                    ask'.at # "none" \/ \E c \in Calls : ops'[c].at # "none",
                                    loads' # {} >>[i]}) <= 1
  /\ \A c \in Calls : c # "first" =>
       /\ ops[c].at = "none" /\ ops'[c].at # "none" => ops["first"].at # "none"
       /\ queries[c].at = "none" /\ queries'[c].at # "none" => queries["first"].at # "none"
MCNext ==
  /\ UNCHANGED focus
  /\ IF focus = "sink" THEN SinkNext ELSE UNCHANGED sinkVars
  /\ IF focus = "http" THEN HttpNext /\ HttpStep ELSE UNCHANGED httpVars
  /\ IF focus = "stream" THEN StreamNext ELSE UNCHANGED streamVars
  /\ IF focus = "payload" THEN PayloadNext ELSE UNCHANGED payloadVars
  /\ IF focus = "backup" THEN BackupNext ELSE UNCHANGED backupVars
  /\ IF focus = "runs" THEN RunViewNext /\ RunsStep ELSE UNCHANGED runViewVars
  /\ IF focus = "grid" THEN GridNext /\ GridStep ELSE UNCHANGED gridVars
  /\ IF focus = "form" THEN FormNext /\ FormStep ELSE UNCHANGED formVars
  /\ IF focus = "studio" THEN StudioNext /\ StudioStep ELSE UNCHANGED studioVars

partVars == <<focus, sinkVars, httpVars, streamVars, payloadVars, backupVars, runViewVars, gridVars,
              formVars, studioVars>>
MCSpec == MCInit /\ [][MCNext]_partVars
          /\ HttpFairness /\ RunViewFairness /\ GridFairness
==============================================================================
