----------------------------- MODULE AdapterPool -----------------------------
(***************************************************************************)
(* The pool of live adapters of one connection                             *)
(* (src/apps/api/src/connections/adapter-pool.service.ts) and the handlers *)
(* of the connections controller that edit, remove and test it.            *)
(*                                                                         *)
(* A request reads the connection from the settings database and only then *)
(* looks into the pool, so an edit can pass between the two.  An adapter   *)
(* is a number, used once; it is closed from the moment close() is called. *)
(***************************************************************************)
EXTENDS Integers, FiniteSets

CONSTANTS Dbs,          \* databases the connection's adapters are bound to
          Requests,     \* requests that use adapters
          MaxAdapters,  \* bound: adapters opened
          MaxEdits      \* bound: edits of the connection

ASSUME PoolAssumption ==
  /\ Dbs # {} /\ MaxAdapters \in Nat \ {0} /\ MaxEdits \in Nat

NoAdapter == 0
Adapters == 1 .. MaxAdapters

VARIABLES connection,  \* the stored connection: is it there, and its updatedAt
          entries,     \* the adapter kept for a database, or NoAdapter
          pending,     \* the adapter being opened for a database, or NoAdapter
          adapters,    \* of each adapter: its state, its database, the config it was opened with
          idle,        \* adapters not acquired for longer than poolIdleMs
          request,     \* of each request: where it is, what it read, its adapter
          admin        \* the handler that edits, removes or drops: where it is, what evict waits for

poolVars == <<connection, entries, pending, adapters, idle, request, admin>>

NoRequest == [at |-> "none", db |-> CHOOSE d \in Dbs : TRUE, rev |-> 0, adapter |-> NoAdapter, clean |-> TRUE]
NoAdmin == [at |-> "none", op |-> "none", opening |-> {}, before |-> {}]

Kept == {entries[d] : d \in Dbs} \ {NoAdapter}
Opening == {pending[d] : d \in Dbs} \ {NoAdapter}

PoolTypeOK ==
  /\ connection \in [there : BOOLEAN, rev : 0 .. MaxEdits]
  /\ entries \in [Dbs -> Adapters \cup {NoAdapter}]
  /\ pending \in [Dbs -> Adapters \cup {NoAdapter}]
  /\ adapters \in [Adapters -> [state : {"unused", "opening", "open", "failed", "closed"}, db : Dbs,
                                rev : 0 .. MaxEdits, tested : BOOLEAN]]
  /\ idle \subseteq Kept
  /\ request \in [Requests -> [at : {"none", "read", "waits", "uses"}, db : Dbs, rev : 0 .. MaxEdits,
                               adapter : Adapters \cup {NoAdapter}, clean : BOOLEAN]]
  /\ admin \in [at : {"none", "evict", "waits", "evicted"}, op : {"none", "edit", "remove", "drop"},
                opening : SUBSET Adapters, before : SUBSET Adapters]
  /\ \A d \in Dbs : /\ entries[d] # NoAdapter => adapters[entries[d]].state = "open"
                    /\ pending[d] # NoAdapter => adapters[pending[d]].state = "opening"
  /\ \A r \in Requests : request[r].at = "waits" => adapters[request[r].adapter].state = "opening"

PoolInit ==
  /\ connection = [there |-> TRUE, rev |-> 0]
  /\ entries = [d \in Dbs |-> NoAdapter] /\ pending = entries
  /\ adapters = [a \in Adapters |-> [state |-> "unused", db |-> NoRequest.db, rev |-> 0, tested |-> FALSE]]
  /\ idle = {}
  /\ request = [r \in Requests |-> NoRequest]
  /\ admin = NoAdmin

Unused == {a \in Adapters : adapters[a].state = "unused"}
Fresh == CHOOSE a \in Unused : TRUE
Closing(as, closed) == [a \in Adapters |-> IF a \in closed THEN [as[a] EXCEPT !.state = "closed"] ELSE as[a]]

\* Some request, or an open it began, still works with an older config than the stored one.
OlderUnderWay ==
  \/ \E r \in Requests : request[r].at = "read" /\ request[r].rev < connection.rev
  \/ \E a \in Opening : adapters[a].rev < connection.rev

\* A request reads the connection; without one it fails with NotFound.
ReadConnection(r, d) ==
  /\ request[r].at = "none" /\ connection.there
  /\ request' = [request EXCEPT ![r] = [at |-> "read", db |-> d, rev |-> connection.rev,
                                        adapter |-> NoAdapter, clean |-> ~OlderUnderWay]]
  /\ UNCHANGED <<connection, entries, pending, adapters, idle, admin>>

\* Mutant of Hits: the revision of the entry is not looked at.
HitsAny(q) == entries[q.db] # NoAdapter

\* What acquire finds: an adapter of the config it read ...
Hits(q) == entries[q.db] # NoAdapter /\ adapters[entries[q.db]].rev = q.rev
\* Mutant of Joins: every miss opens an adapter of its own.
JoinsNone(q) == ~Hits(q) /\ FALSE

\* ... or an open under way, whichever config that one read.
Joins(q) == ~Hits(q) /\ pending[q.db] # NoAdapter

AcquireHit(r) ==
  LET q == request[r] IN
  /\ q.at = "read" /\ Hits(q)
  /\ idle' = idle \ {entries[q.db]}
  /\ request' = [request EXCEPT ![r].at = "uses", ![r].adapter = entries[q.db]]
  /\ UNCHANGED <<connection, entries, pending, adapters, admin>>

AcquireJoin(r) ==
  LET q == request[r] IN
  /\ q.at = "read" /\ Joins(q)
  /\ request' = [request EXCEPT ![r].at = "waits", ![r].adapter = pending[q.db]]
  /\ UNCHANGED <<connection, entries, pending, adapters, idle, admin>>

\* Otherwise it opens one, and closes the entry of another config first.
AcquireOpen(r) ==
  LET q == request[r] IN
  /\ q.at = "read" /\ ~Hits(q) /\ ~Joins(q) /\ Unused # {}
  /\ LET a == Fresh IN
     /\ adapters' = [Closing(adapters, {entries[q.db]} \ {NoAdapter}) EXCEPT
                       ![a] = [state |-> "opening", db |-> q.db, rev |-> q.rev, tested |-> FALSE]]
     /\ entries' = [entries EXCEPT ![q.db] = NoAdapter]
     /\ pending' = [pending EXCEPT ![q.db] = a]
     /\ request' = [request EXCEPT ![r].at = "waits", ![r].adapter = a]
  /\ idle' = idle \ {entries[q.db]}
  /\ UNCHANGED <<connection, admin>>

Opens(a) == adapters[a].state = "opening" /\ ~adapters[a].tested
\* Mutant of Settle: the open stays in pending.
SettleNothing(a) == a \in Adapters /\ UNCHANGED pending

Settle(a) == pending' = [d \in Dbs |-> IF pending[d] = a THEN NoAdapter ELSE pending[d]]

Connected(a) ==
  /\ Opens(a) /\ Settle(a)
  /\ adapters' = [adapters EXCEPT ![a].state = "open"]
  /\ entries' = [entries EXCEPT ![adapters[a].db] = a]
  /\ request' = [r \in Requests |-> IF request[r].at = "waits" /\ request[r].adapter = a
                                    THEN [request[r] EXCEPT !.at = "uses"] ELSE request[r]]
  /\ UNCHANGED <<connection, idle, admin>>

\* The adapter of a connect that failed is dropped, and not closed.
ConnectFails(a) ==
  /\ Opens(a) /\ Settle(a)
  /\ adapters' = [adapters EXCEPT ![a].state = "failed"]
  /\ request' = [r \in Requests |-> IF request[r].at = "waits" /\ request[r].adapter = a
                                    THEN NoRequest ELSE request[r]]
  /\ UNCHANGED <<connection, entries, idle, admin>>

\* The operation on the adapter ends, or fails because the adapter was closed.
FinishUse(r) ==
  /\ request[r].at = "uses"
  /\ request' = [request EXCEPT ![r] = NoRequest]
  /\ UNCHANGED <<connection, entries, pending, adapters, idle, admin>>

\* poolIdleMs passes since an adapter was acquired; its use may go on.
GoIdle(a) ==
  /\ a \in Kept \ idle
  /\ idle' = idle \cup {a}
  /\ UNCHANGED <<connection, entries, pending, adapters, request, admin>>

\* Mutant of Drop: the entries are forgotten and not closed.
DropUnclosed(dropped) ==
  /\ UNCHANGED adapters
  /\ entries' = [d \in Dbs |-> IF entries[d] \in dropped THEN NoAdapter ELSE entries[d]]
  /\ idle' = idle \ dropped

Drop(dropped) ==
  /\ adapters' = Closing(adapters, dropped)
  /\ entries' = [d \in Dbs |-> IF entries[d] \in dropped THEN NoAdapter ELSE entries[d]]
  /\ idle' = idle \ dropped

Sweep ==
  /\ Kept \cap idle # {}
  /\ Drop(Kept \cap idle)
  /\ UNCHANGED <<connection, pending, request, admin>>

\* PUT stores the edit, DELETE has found no hook that uses the connection, and
\* drop-database begins: each evicts next.
StoreEdit ==
  /\ admin.at = "none" /\ connection.there /\ connection.rev < MaxEdits
  /\ connection' = [connection EXCEPT !.rev = @ + 1]
  /\ admin' = [NoAdmin EXCEPT !.at = "evict", !.op = "edit"]
  /\ UNCHANGED <<entries, pending, adapters, idle, request>>

BeginRemoval(op) ==
  /\ admin.at = "none" /\ connection.there
  /\ admin' = [NoAdmin EXCEPT !.at = "evict", !.op = op]
  /\ UNCHANGED <<connection, entries, pending, adapters, idle, request>>

\* Mutant of EvictBegins: the opens under way are not waited for.
EvictAtOnce ==
  /\ admin.at = "evict"
  /\ admin' = [admin EXCEPT !.at = "waits", !.before = Kept \cup Opening]
  /\ UNCHANGED <<connection, entries, pending, adapters, idle, request>>

\* evict collects the opens under way and waits for these.
EvictBegins ==
  /\ admin.at = "evict"
  /\ admin' = [admin EXCEPT !.at = "waits", !.opening = Opening, !.before = Kept \cup Opening]
  /\ UNCHANGED <<connection, entries, pending, adapters, idle, request>>

EvictEnds ==
  /\ admin.at = "waits" /\ admin.opening \cap Opening = {}
  /\ Drop(Kept)
  /\ admin' = [admin EXCEPT !.at = "evicted"]
  /\ UNCHANGED <<connection, pending, request>>

\* DELETE then removes the row.
Answer ==
  /\ admin.at = "evicted"
  /\ connection' = [connection EXCEPT !.there = @ /\ admin.op # "remove"]
  /\ admin' = NoAdmin
  /\ UNCHANGED <<entries, pending, adapters, idle, request>>

\* "Test connection": an adapter of its own, closed whether it connects or not.
TestBegins ==
  /\ Unused # {} /\ \A a \in Adapters : adapters[a].state = "opening" => ~adapters[a].tested
  /\ adapters' = [adapters EXCEPT ![Fresh] =
                    [state |-> "opening", db |-> NoRequest.db, rev |-> connection.rev, tested |-> TRUE]]
  /\ UNCHANGED <<connection, entries, pending, idle, request, admin>>

TestEnds(a) ==
  /\ adapters[a].state = "opening" /\ adapters[a].tested
  /\ adapters' = [adapters EXCEPT ![a].state = "closed", ![a].tested = FALSE]
  /\ UNCHANGED <<connection, entries, pending, idle, request, admin>>

PoolNext ==
  \/ \E r \in Requests :
       \/ \E d \in Dbs : ReadConnection(r, d)
       \/ AcquireHit(r) \/ AcquireJoin(r) \/ AcquireOpen(r) \/ FinishUse(r)
  \/ \E a \in Adapters : Connected(a) \/ ConnectFails(a) \/ GoIdle(a) \/ TestEnds(a)
  \/ Sweep \/ TestBegins
  \/ StoreEdit \/ (\E op \in {"remove", "drop"} : BeginRemoval(op))
  \/ EvictBegins \/ EvictEnds \/ Answer

\* Continuations run, connects end (drivers time out), timers fire and the sweep is periodic.
PoolFairness ==
  /\ \A r \in Requests : WF_poolVars(AcquireHit(r) \/ AcquireJoin(r) \/ AcquireOpen(r))
  /\ \A a \in Adapters : WF_poolVars(Connected(a) \/ ConnectFails(a)) /\ WF_poolVars(GoIdle(a))
  /\ WF_poolVars(Sweep)

PoolSpec == PoolInit /\ [][PoolNext]_poolVars /\ PoolFairness

(* Properties. *)

\* An open adapter is the entry of its database: two requests that miss at once
\* share one connect, and no entry is overwritten while its adapter is open.
NoAdapterLeaks ==
  \A a \in Adapters : adapters[a].state = "open" => entries[adapters[a].db] = a

\* What was open or opening when evict looked is closed when it returns, or never got a
\* connection: no adapter escapes the evict by being still in its connect.
NoneEscapesEvict ==
  admin.at = "evicted" => \A a \in admin.before : adapters[a].state \in {"closed", "failed"}

\* A request works with the config it read or a newer one, unless a request that read
\* an older one was still under way when it asked (it joins that one's connect).
FreshAdapter ==
  \A r \in Requests :
    request[r].at = "uses" /\ request[r].clean => adapters[request[r].adapter].rev >= request[r].rev

\* The adapters of a removed connection are all closed in the end, also the one that
\* a request opened between evict and the removal of the row.
\* (A removed connection never comes back: to be closed again and again is to be closed.)
RemovedIsClosed ==
  []<>(~connection.there => \A a \in Adapters : adapters[a].state # "open")

\* What the pool promises its requests and those who edit the connection.
PoolSafe == PoolTypeOK /\ NoAdapterLeaks /\ NoneEscapesEvict /\ FreshAdapter
==============================================================================
