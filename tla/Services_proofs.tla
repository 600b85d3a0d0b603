--------------------------- MODULE Services_proofs ---------------------------
(***************************************************************************)
(* Theorems about the services beside the runs, for any number of clients, *)
(* objects, adapters and edits: AdapterPool (no adapter is lost, none      *)
(* escapes an evict, a request works with the configuration it read or a   *)
(* newer one), Catalog (secrets stay what was typed and readable, what is  *)
(* in use is not removed, the default workspace stays) and Accounts (a     *)
(* session proves the password of today, settings are what was patched).   *)
(***************************************************************************)
EXTENDS AdapterPool, Catalog, Accounts, TLAPS

(***************************************************************************)
(* Adapters and connections.                                               *)
(***************************************************************************)

\* The states of an adapter, of a request and of the handler that edits.
AdapterState == [state : {"unused", "opening", "open", "failed", "closed"}, db : Dbs,
                 rev : 0 .. MaxEdits, tested : BOOLEAN]
RequestState == [at : {"none", "read", "waits", "uses"}, db : Dbs, rev : 0 .. MaxEdits,
                 adapter : Adapters \cup {NoAdapter}, clean : BOOLEAN]
AdminState == [at : {"none", "evict", "waits", "evicted"}, op : {"none", "edit", "remove", "drop"},
               opening : SUBSET Adapters, before : SUBSET Adapters]

\* The types of the variables.
PoolTypes ==
  /\ connection \in [there : BOOLEAN, rev : 0 .. MaxEdits]
  /\ entries \in [Dbs -> Adapters \cup {NoAdapter}]
  /\ pending \in [Dbs -> Adapters \cup {NoAdapter}]
  /\ adapters \in [Adapters -> AdapterState]
  /\ request \in [Requests -> RequestState]
  /\ admin \in AdminState

IdleKept == idle \subseteq Kept

\* The two tables of the pool and the states of the adapters say the same: an open or
\* opening adapter of the pool stands under its database, and never both.
Agree ==
  /\ \A d \in Dbs : entries[d] # NoAdapter =>
       adapters[entries[d]].state = "open" /\ adapters[entries[d]].db = d
  /\ \A d \in Dbs : pending[d] # NoAdapter =>
       /\ adapters[pending[d]].state = "opening" /\ ~adapters[pending[d]].tested
       /\ adapters[pending[d]].db = d /\ entries[d] = NoAdapter
  /\ NoAdapterLeaks
  /\ \A a \in Adapters : Opens(a) => pending[adapters[a].db] = a

\* A request that waits or works has an adapter.
Served ==
  \A r \in Requests :
    /\ request[r].at \in {"waits", "uses"} =>
         request[r].adapter \in Adapters /\ adapters[request[r].adapter].state # "unused"
    /\ request[r].at = "waits" => Opens(request[r].adapter)

\* What evict saw is closed or never connected, or open and kept, or opening and waited for.
Seen ==
  /\ admin.at = "waits" => \A a \in admin.before :
       \/ adapters[a].state \in {"open", "failed", "closed"}
       \/ Opens(a) /\ a \in admin.opening
  /\ NoneEscapesEvict

\* While a request that found nothing older under way looks for its adapter, nothing
\* older than its configuration is under way: requests that read later read newer ones.
NothingOlder ==
  /\ \A r \in Requests : request[r].at = "read" => request[r].rev <= connection.rev
  /\ \A a \in Adapters : Opens(a) => adapters[a].rev <= connection.rev
  /\ \A r \in Requests : request[r].at = "read" /\ request[r].clean =>
       /\ \A o \in Requests : request[o].at = "read" => request[o].rev >= request[r].rev
       /\ \A a \in Adapters : Opens(a) => adapters[a].rev >= request[r].rev
  /\ \A r \in Requests : request[r].at \in {"waits", "uses"} /\ request[r].clean =>
       adapters[request[r].adapter].rev >= request[r].rev

PoolInv == PoolTypes /\ IdleKept /\ Agree /\ Served /\ Seen /\ NothingOlder
------------------------------------------------------------------------------
\* The database that stands for none is one of them.
LEMMA SomeDb == NoRequest.db \in Dbs
  BY PoolAssumption DEF NoRequest

\* No adapter has the number that stands for none.
LEMMA NoneIsNoAdapter == NoAdapter \notin Adapters
  BY DEF NoAdapter, Adapters

\* A new adapter is one that was not used.
LEMMA FreshIsUnused ==
  ASSUME Unused # {} PROVE Fresh \in Adapters /\ adapters[Fresh].state = "unused"
  BY DEF Fresh, Unused

\* A request, an adapter or the handler that changes in some fields keeps its type.
LEMMA RequestTypes ==
  ASSUME PoolTypes, NEW r \in Requests
  PROVE  /\ NoRequest \in RequestState /\ request[r] \in RequestState
         /\ request[r].db \in Dbs /\ request[r].rev \in 0 .. MaxEdits
         /\ \A at \in {"waits", "uses"} : [request[r] EXCEPT !.at = at] \in RequestState
         /\ \A at \in {"waits", "uses"}, a \in Adapters \cup {NoAdapter} :
              [request[r] EXCEPT !.at = at, !.adapter = a] \in RequestState
<1>1. NoRequest \in RequestState
  BY SomeDb, PoolAssumption DEF RequestState, NoRequest
<1>2. request[r] \in RequestState
  BY DEF PoolTypes
<1>3. request[r].db \in Dbs /\ request[r].rev \in 0 .. MaxEdits
  BY <1>2 DEF RequestState
<1>4. \A at \in {"waits", "uses"} : [request[r] EXCEPT !.at = at] \in RequestState
  BY <1>2 DEF RequestState
<1>5. \A at \in {"waits", "uses"}, a \in Adapters \cup {NoAdapter} :
        [request[r] EXCEPT !.at = at, !.adapter = a] \in RequestState
  BY <1>2 DEF RequestState
<1>6. QED
  BY <1>1, <1>2, <1>3, <1>4, <1>5

\* An adapter that changes in some fields keeps its type.
LEMMA AdapterTypes ==
  ASSUME PoolTypes, NEW a \in Adapters
  PROVE  /\ adapters[a] \in AdapterState /\ adapters[a].db \in Dbs
         /\ \A s \in {"open", "failed", "closed"} : [adapters[a] EXCEPT !.state = s] \in AdapterState
  BY DEF PoolTypes, AdapterState

\* Revisions can be compared.
LEMMA RevsAreNumbers ==
  ASSUME PoolTypes
  PROVE  /\ connection.rev \in Nat
         /\ \A r \in Requests : request[r].rev \in Nat
         /\ \A a \in Adapters : adapters[a].rev \in Nat
  BY PoolAssumption DEF PoolTypes, RequestState, AdapterState

\* What AcquireOpen changes of the tables: the database's old adapter is closed and a
\* new one is opened in its place.
LEMMA OpensNew ==
  ASSUME PoolTypes, NEW r \in Requests, AcquireOpen(r)
  PROVE  /\ Fresh \in Adapters /\ adapters[Fresh].state = "unused"
         /\ request[r].at = "read" /\ request[r].db \in Dbs /\ pending[request[r].db] = NoAdapter
         /\ request'[r].at = "waits" /\ request'[r].adapter = Fresh
         /\ request'[r].rev = request[r].rev /\ request'[r].clean = request[r].clean
         /\ \A o \in Requests \ {r} : request'[o] = request[o]
         /\ pending'[request[r].db] = Fresh /\ entries'[request[r].db] = NoAdapter
         /\ \A d \in Dbs \ {request[r].db} : pending'[d] = pending[d] /\ entries'[d] = entries[d]
         /\ adapters'[Fresh].state = "opening" /\ ~adapters'[Fresh].tested
         /\ adapters'[Fresh].db = request[r].db /\ adapters'[Fresh].rev = request[r].rev
         /\ \A a \in Adapters \ {Fresh} :
              /\ adapters'[a].tested = adapters[a].tested
              /\ adapters'[a].db = adapters[a].db /\ adapters'[a].rev = adapters[a].rev
              /\ adapters'[a].state = IF a = entries[request[r].db] THEN "closed" ELSE adapters[a].state
<1>1. Fresh \in Adapters /\ adapters[Fresh].state = "unused" /\ request[r].db \in Dbs
  BY FreshIsUnused, RequestTypes DEF AcquireOpen
<1>2. request[r].at = "read" /\ pending[request[r].db] = NoAdapter
  BY DEF AcquireOpen, Joins
<1>3. request' = [request EXCEPT ![r] = [request[r] EXCEPT !.at = "waits", !.adapter = Fresh]]
  BY DEF AcquireOpen
<1>4. /\ request'[r].at = "waits" /\ request'[r].adapter = Fresh
      /\ request'[r].rev = request[r].rev /\ request'[r].clean = request[r].clean
  BY <1>3 DEF PoolTypes, RequestState
<1>5. \A o \in Requests \ {r} : request'[o] = request[o]
  BY <1>3 DEF PoolTypes
<1>6. /\ pending'[request[r].db] = Fresh /\ entries'[request[r].db] = NoAdapter
      /\ \A d \in Dbs \ {request[r].db} : pending'[d] = pending[d] /\ entries'[d] = entries[d]
  BY <1>1 DEF AcquireOpen, PoolTypes
<1>7. adapters' = [Closing(adapters, {entries[request[r].db]} \ {NoAdapter}) EXCEPT
                     ![Fresh] = [state |-> "opening", db |-> request[r].db, rev |-> request[r].rev,
                                 tested |-> FALSE]]
  BY DEF AcquireOpen
<1>8. \A a \in Adapters \ {Fresh} :
        adapters'[a] = IF a = entries[request[r].db]
                       THEN [adapters[a] EXCEPT !.state = "closed"] ELSE adapters[a]
  BY <1>1, <1>7, NoneIsNoAdapter DEF Closing
<1>9. ASSUME NEW a \in Adapters \ {Fresh}
      PROVE  /\ adapters'[a].tested = adapters[a].tested
             /\ adapters'[a].db = adapters[a].db /\ adapters'[a].rev = adapters[a].rev
             /\ adapters'[a].state = IF a = entries[request[r].db] THEN "closed" ELSE adapters[a].state
  <2>1. adapters[a] \in AdapterState
    BY AdapterTypes
  <2>2. QED
    BY <1>8, <2>1 DEF AdapterState
<1>10. adapters'[Fresh] = [state |-> "opening", db |-> request[r].db, rev |-> request[r].rev,
                           tested |-> FALSE]
  BY <1>1, <1>7 DEF Closing
<1>11. QED
  BY <1>1, <1>2, <1>4, <1>5, <1>6, <1>9, <1>10

\* What is kept and what is being opened are adapters.
LEMMA KeptAreAdapters ==
  ASSUME PoolTypes PROVE Kept \subseteq Adapters /\ Opening \subseteq Adapters
  BY DEF PoolTypes, Kept, Opening

\* The types hold after every step.
LEMMA PoolTypesStep ==
  ASSUME PoolInv, [PoolNext]_poolVars PROVE PoolTypes'
<1> USE NoneIsNoAdapter DEF PoolInv
<1>1. ASSUME NEW r \in Requests, NEW d \in Dbs, ReadConnection(r, d) PROVE PoolTypes'
  BY <1>1 DEF ReadConnection, RequestState, PoolTypes
<1>2. ASSUME NEW r \in Requests, AcquireHit(r) PROVE PoolTypes'
  <2>1. request' = [request EXCEPT ![r] = [request[r] EXCEPT !.at = "uses", !.adapter = entries[request[r].db]]]
    BY <1>2 DEF AcquireHit, PoolTypes
  <2>2. request' \in [Requests -> RequestState]
    BY <2>1, RequestTypes DEF PoolTypes
  <2>3. QED
    BY <1>2, <2>2 DEF AcquireHit, PoolTypes
<1>3. ASSUME NEW r \in Requests, AcquireJoin(r) PROVE PoolTypes'
  <2>1. request' = [request EXCEPT ![r] = [request[r] EXCEPT !.at = "waits", !.adapter = pending[request[r].db]]]
    BY <1>3 DEF AcquireJoin, PoolTypes
  <2>2. request' \in [Requests -> RequestState]
    BY <2>1, RequestTypes DEF PoolTypes
  <2>3. QED
    BY <1>3, <2>2 DEF AcquireJoin, PoolTypes
<1>4. ASSUME NEW r \in Requests, AcquireOpen(r) PROVE PoolTypes'
  <2>1. Fresh \in Adapters /\ request[r].db \in Dbs /\ request[r].rev \in 0 .. MaxEdits
    BY <1>4, FreshIsUnused, RequestTypes DEF AcquireOpen, PoolTypes
  <2>2. request' = [request EXCEPT ![r] = [request[r] EXCEPT !.at = "waits", !.adapter = Fresh]]
    BY <1>4 DEF AcquireOpen, PoolTypes
  <2>3. request' \in [Requests -> RequestState]
    BY <2>1, <2>2, RequestTypes DEF PoolTypes
  <2>4. Closing(adapters, {entries[request[r].db]} \ {NoAdapter}) \in [Adapters -> AdapterState]
    BY AdapterTypes DEF Closing, PoolTypes
  <2>5. [state |-> "opening", db |-> request[r].db, rev |-> request[r].rev, tested |-> FALSE] \in AdapterState
    BY <2>1 DEF AdapterState, PoolTypes
  <2>6. adapters' \in [Adapters -> AdapterState]
    BY <1>4, <2>1, <2>4, <2>5 DEF AcquireOpen, PoolTypes
  <2>7. QED
    BY <1>4, <2>1, <2>3, <2>6 DEF AcquireOpen, PoolTypes
<1>5. ASSUME NEW r \in Requests, FinishUse(r) PROVE PoolTypes'
  BY <1>5, RequestTypes DEF FinishUse, PoolTypes
<1>6. ASSUME NEW a \in Adapters, Connected(a) PROVE PoolTypes'
  <2>1. request' \in [Requests -> RequestState]
    BY <1>6, RequestTypes DEF Connected, PoolTypes
  <2>2. adapters' \in [Adapters -> AdapterState]
    BY <1>6, AdapterTypes DEF Connected, PoolTypes
  <2>3. pending' \in [Dbs -> Adapters \cup {NoAdapter}]
    BY <1>6 DEF Connected, Settle, PoolTypes
  <2>4. QED
    BY <1>6, <2>1, <2>2, <2>3, AdapterTypes DEF Connected, PoolTypes
<1>7. ASSUME NEW a \in Adapters, ConnectFails(a) PROVE PoolTypes'
  <2>1. request' \in [Requests -> RequestState]
    BY <1>7, RequestTypes DEF ConnectFails, PoolTypes
  <2>2. adapters' \in [Adapters -> AdapterState]
    BY <1>7, AdapterTypes DEF ConnectFails, Closing, PoolTypes
  <2>3. pending' \in [Dbs -> Adapters \cup {NoAdapter}]
    BY <1>7 DEF ConnectFails, Settle, PoolTypes
  <2>4. QED
    BY <1>7, <2>1, <2>2, <2>3, AdapterTypes DEF ConnectFails, PoolTypes
<1>8. ASSUME NEW a \in Adapters, TestEnds(a) PROVE PoolTypes'
  BY <1>8 DEF TestEnds, AdapterState, PoolTypes
<1>9. CASE Sweep
  <2>1. adapters' \in [Adapters -> AdapterState]
    BY <1>9, AdapterTypes DEF Sweep, Drop, Closing, PoolTypes
  <2>2. entries' \in [Dbs -> Adapters \cup {NoAdapter}]
    BY <1>9 DEF Sweep, Drop, PoolTypes
  <2>3. QED
    BY <1>9, <2>1, <2>2 DEF Sweep, PoolTypes
<1>10. CASE TestBegins
  BY <1>10, FreshIsUnused, SomeDb DEF TestBegins, AdapterState, PoolTypes
<1>11. CASE StoreEdit
  <2>1. connection' \in [there : BOOLEAN, rev : 0 .. MaxEdits]
    BY <1>11, PoolAssumption DEF StoreEdit, PoolTypes
  <2>2. admin' \in AdminState
    BY <1>11 DEF StoreEdit, NoAdmin, AdminState, PoolTypes
  <2>3. QED
    BY <1>11, <2>1, <2>2 DEF StoreEdit, PoolTypes
<1>12. ASSUME NEW op \in {"remove", "drop"}, BeginRemoval(op) PROVE PoolTypes'
  BY <1>12 DEF BeginRemoval, NoAdmin, AdminState, PoolTypes
<1>13. CASE EvictBegins
  BY <1>13, KeptAreAdapters DEF EvictBegins, AdminState, PoolTypes
<1>14. CASE EvictEnds
  <2>1. adapters' \in [Adapters -> AdapterState]
    BY <1>14, AdapterTypes DEF EvictEnds, Drop, Closing, PoolTypes
  <2>2. entries' \in [Dbs -> Adapters \cup {NoAdapter}]
    BY <1>14 DEF EvictEnds, Drop, PoolTypes
  <2>3. QED
    BY <1>14, <2>1, <2>2 DEF EvictEnds, AdminState, PoolTypes
<1>15. CASE Answer
  BY <1>15 DEF Answer, NoAdmin, AdminState, PoolTypes
<1>16. CASE UNCHANGED <<adapters, admin, connection, entries, pending, request>>
  BY <1>16 DEF PoolTypes
<1>17. QED
  BY <1>1, <1>2, <1>3, <1>4, <1>5, <1>6, <1>7, <1>8, <1>9, <1>10, <1>11, <1>12, <1>13, <1>14, <1>15, <1>16
     DEF PoolTypes, PoolNext, poolVars, GoIdle

\* What is idle is kept.
LEMMA IdleKeptStep ==
  ASSUME PoolInv, [PoolNext]_poolVars PROVE IdleKept'
<1> USE NoneIsNoAdapter DEF PoolInv
<1>1. ASSUME NEW r \in Requests, AcquireHit(r) PROVE IdleKept'
  BY <1>1 DEF AcquireHit, Hits, Kept, PoolTypes, AdapterState, RequestState, IdleKept, Agree
<1>2. ASSUME NEW r \in Requests, AcquireOpen(r) PROVE IdleKept'
  BY <1>2, FreshIsUnused DEF AcquireOpen, Joins, Closing, Kept, PoolTypes, AdapterState,
     RequestState, IdleKept, Agree
<1>3. ASSUME NEW a \in Adapters, Connected(a) PROVE IdleKept'
  BY <1>3 DEF Connected, Settle, Opens, Kept, PoolTypes, AdapterState, RequestState, IdleKept, Agree
<1>4. ASSUME NEW a \in Adapters, GoIdle(a) PROVE IdleKept'
  BY <1>4 DEF GoIdle, Kept, PoolTypes, AdapterState, RequestState, IdleKept, Agree
<1>5. CASE Sweep
  BY <1>5 DEF Sweep, Drop, Closing, Kept, PoolTypes, AdapterState, RequestState, IdleKept, Agree
<1>6. CASE EvictEnds
  BY <1>6 DEF EvictEnds, Drop, Closing, Kept, PoolTypes, AdapterState, RequestState, IdleKept, Agree
<1>7. CASE UNCHANGED <<entries, idle>>
  BY <1>7 DEF PoolTypes, AdapterState, RequestState, IdleKept, Agree, Kept
<1>8. QED
  BY <1>1, <1>2, <1>3, <1>4, <1>5, <1>6, <1>7
     DEF PoolTypes, AdapterState, RequestState, IdleKept, Agree, Kept, PoolNext, poolVars, ReadConnection, AcquireJoin, FinishUse, ConnectFails, TestEnds, TestBegins, StoreEdit, BeginRemoval, EvictBegins, Answer

\* Every step keeps the tables and the states together.
LEMMA AgreeStep ==
  ASSUME PoolInv, [PoolNext]_poolVars PROVE Agree'
<1> USE NoneIsNoAdapter DEF PoolInv
<1>1. ASSUME NEW r \in Requests, AcquireOpen(r) PROVE Agree'
  <2>1. \A a \in Adapters : adapters[a].db \in Dbs
    BY AdapterTypes
  <2>2. ASSUME NEW a \in Adapters, adapters'[a].state = "open" PROVE entries'[adapters'[a].db] = a
    <3>1. a # Fresh /\ a # entries[request[r].db] /\ adapters[a].state = "open"
      BY <1>1, <2>2, OpensNew
    <3>2. entries[adapters[a].db] = a /\ adapters'[a].db = adapters[a].db
      BY <1>1, <3>1, OpensNew DEF Agree, NoAdapterLeaks
    <3>3. QED
      BY <1>1, <2>1, <3>1, <3>2, OpensNew
  <2>3. ASSUME NEW a \in Adapters, Opens(a)' PROVE pending'[adapters'[a].db] = a
    <3>1. CASE a = Fresh
      BY <1>1, <3>1, OpensNew
    <3>2. CASE a # Fresh
      <4>1. Opens(a) /\ adapters'[a].db = adapters[a].db
        BY <1>1, <2>3, <3>2, OpensNew DEF Opens
      <4>2. pending[adapters[a].db] = a
        BY <4>1 DEF Agree
      <4>3. QED
        BY <1>1, <2>1, <4>1, <4>2, OpensNew
    <3>3. QED
      BY <3>1, <3>2
  <2>4. ASSUME NEW d \in Dbs, entries'[d] # NoAdapter
        PROVE  adapters'[entries'[d]].state = "open" /\ adapters'[entries'[d]].db = d
    BY <1>1, <2>4, OpensNew DEF Agree, PoolTypes
  <2>5. ASSUME NEW d \in Dbs, pending'[d] # NoAdapter
        PROVE  /\ adapters'[pending'[d]].state = "opening" /\ ~adapters'[pending'[d]].tested
               /\ adapters'[pending'[d]].db = d /\ entries'[d] = NoAdapter
    BY <1>1, <2>5, OpensNew DEF Agree, PoolTypes
  <2>6. QED
    BY <2>2, <2>3, <2>4, <2>5 DEF Agree, NoAdapterLeaks
<1>2. ASSUME NEW a \in Adapters, Connected(a) PROVE Agree'
  BY <1>2 DEF Connected, Settle, PoolTypes, AdapterState, RequestState, AdminState, Agree,
     NoAdapterLeaks, Opens
<1>3. ASSUME NEW a \in Adapters, ConnectFails(a) PROVE Agree'
  BY <1>3 DEF ConnectFails, Settle, Closing, NoRequest, PoolTypes, AdapterState, RequestState,
     AdminState, Agree, NoAdapterLeaks, Opens
<1>4. ASSUME NEW a \in Adapters, TestEnds(a) PROVE Agree'
  BY <1>4 DEF TestEnds, PoolTypes, AdapterState, RequestState, AdminState, Agree, NoAdapterLeaks,
     Opens
<1>5. CASE Sweep
  BY <1>5 DEF Sweep, Drop, Closing, Kept, PoolTypes, AdapterState, RequestState, AdminState, Agree,
     NoAdapterLeaks, Opens
<1>6. CASE TestBegins
  BY <1>6, FreshIsUnused DEF TestBegins, PoolTypes, AdapterState, RequestState, AdminState, Agree,
     NoAdapterLeaks, Opens
<1>7. CASE EvictEnds
  BY <1>7 DEF EvictEnds, Drop, Closing, Kept, PoolTypes, AdapterState, RequestState, AdminState,
     Agree, NoAdapterLeaks, Opens
<1>8. CASE UNCHANGED <<adapters, entries, pending>>
  BY <1>8 DEF PoolTypes, AdapterState, RequestState, AdminState, Agree, NoAdapterLeaks, Opens
<1>9. QED
  BY <1>1, <1>2, <1>3, <1>4, <1>5, <1>6, <1>7, <1>8
     DEF PoolTypes, AdapterState, RequestState, AdminState, Agree, NoAdapterLeaks, Opens, PoolNext, poolVars, ReadConnection, AcquireHit, AcquireJoin, FinishUse, GoIdle, StoreEdit, BeginRemoval, EvictBegins, Answer

\* Every step leaves the requests with their adapters.
LEMMA ServedStep ==
  ASSUME PoolInv, [PoolNext]_poolVars PROVE Served'
<1> USE NoneIsNoAdapter DEF PoolInv
<1>1. ASSUME NEW r \in Requests, NEW d \in Dbs, ReadConnection(r, d) PROVE Served'
  BY <1>1 DEF ReadConnection, PoolTypes, AdapterState, RequestState, AdminState, Agree, Served,
     Opens
<1>2. ASSUME NEW r \in Requests, AcquireHit(r) PROVE Served'
  BY <1>2 DEF AcquireHit, Hits, PoolTypes, AdapterState, RequestState, AdminState, Agree, Served,
     Opens
<1>3. ASSUME NEW r \in Requests, AcquireJoin(r) PROVE Served'
  BY <1>3 DEF AcquireJoin, Joins, PoolTypes, AdapterState, RequestState, AdminState, Agree, Served,
     Opens
<1>4. ASSUME NEW r \in Requests, AcquireOpen(r) PROVE Served'
  BY <1>4, OpensNew DEF Agree, Served, Opens
<1>5. ASSUME NEW r \in Requests, FinishUse(r) PROVE Served'
  BY <1>5 DEF FinishUse, NoRequest, PoolTypes, AdapterState, RequestState, AdminState, Agree,
     Served, Opens
<1>6. ASSUME NEW a \in Adapters, Connected(a) PROVE Served'
  BY <1>6 DEF Connected, Settle, PoolTypes, AdapterState, RequestState, AdminState, Agree, Served,
     Opens
<1>7. ASSUME NEW a \in Adapters, ConnectFails(a) PROVE Served'
  BY <1>7 DEF ConnectFails, Settle, Closing, NoRequest, PoolTypes, AdapterState, RequestState,
     AdminState, Agree, Served, Opens
<1>8. ASSUME NEW a \in Adapters, TestEnds(a) PROVE Served'
  BY <1>8 DEF TestEnds, PoolTypes, AdapterState, RequestState, AdminState, Agree, Served, Opens
<1>9. CASE Sweep
  BY <1>9 DEF Sweep, Drop, Closing, Kept, PoolTypes, AdapterState, RequestState, AdminState, Agree,
     Served, Opens
<1>10. CASE TestBegins
  BY <1>10, FreshIsUnused DEF TestBegins, PoolTypes, AdapterState, RequestState, AdminState, Agree,
     Served, Opens
<1>11. CASE EvictEnds
  BY <1>11 DEF EvictEnds, Drop, Closing, Kept, PoolTypes, AdapterState, RequestState, AdminState,
     Agree, Served, Opens
<1>12. CASE UNCHANGED <<adapters, request>>
  BY <1>12 DEF PoolTypes, AdapterState, RequestState, AdminState, Agree, Served, Opens
<1>13. QED
  BY <1>1, <1>2, <1>3, <1>4, <1>5, <1>6, <1>7, <1>8, <1>9, <1>10, <1>11, <1>12
     DEF PoolTypes, AdapterState, RequestState, AdminState, Agree, Served, Opens, PoolNext, poolVars, GoIdle, StoreEdit, BeginRemoval, EvictBegins, Answer

\* No step opens what evict waited for.
LEMMA SeenStep ==
  ASSUME PoolInv, [PoolNext]_poolVars PROVE Seen'
<1> USE NoneIsNoAdapter DEF PoolInv
<1>1. ASSUME NEW r \in Requests, AcquireOpen(r) PROVE Seen'
  <2>1. UNCHANGED admin /\ admin.before \subseteq Adapters
    BY <1>1 DEF AcquireOpen, PoolTypes, AdminState
  <2>2. QED
    BY <1>1, <2>1, OpensNew DEF Seen, NoneEscapesEvict, Opens
<1>2. ASSUME NEW a \in Adapters, Connected(a) PROVE Seen'
  BY <1>2 DEF Connected, Settle, PoolTypes, AdapterState, RequestState, AdminState, Agree,
     NoAdapterLeaks, Seen, NoneEscapesEvict, Opens
<1>3. ASSUME NEW a \in Adapters, ConnectFails(a) PROVE Seen'
  BY <1>3 DEF ConnectFails, Settle, Closing, NoRequest, PoolTypes, AdapterState, RequestState,
     AdminState, Agree, NoAdapterLeaks, Seen, NoneEscapesEvict, Opens
<1>4. ASSUME NEW a \in Adapters, TestEnds(a) PROVE Seen'
  BY <1>4 DEF TestEnds, PoolTypes, AdapterState, RequestState, AdminState, Agree, NoAdapterLeaks,
     Seen, NoneEscapesEvict, Opens
<1>5. CASE Sweep
  BY <1>5 DEF Sweep, Drop, Closing, Kept, PoolTypes, AdapterState, RequestState, AdminState, Agree,
     NoAdapterLeaks, Seen, NoneEscapesEvict, Opens
<1>6. CASE TestBegins
  BY <1>6, FreshIsUnused DEF TestBegins, PoolTypes, AdapterState, RequestState, AdminState, Agree,
     NoAdapterLeaks, Seen, NoneEscapesEvict, Opens
<1>7. CASE StoreEdit
  BY <1>7 DEF StoreEdit, NoAdmin, PoolTypes, AdapterState, RequestState, AdminState, Agree,
     NoAdapterLeaks, Seen, NoneEscapesEvict, Opens
<1>8. ASSUME NEW op \in {"remove", "drop"}, BeginRemoval(op) PROVE Seen'
  BY <1>8 DEF BeginRemoval, NoAdmin, PoolTypes, AdapterState, RequestState, AdminState, Agree,
     NoAdapterLeaks, Seen, NoneEscapesEvict, Opens
<1>9. CASE EvictBegins
  BY <1>9, KeptAreAdapters DEF EvictBegins, Kept, Opening, PoolTypes, AdapterState, RequestState,
     AdminState, Agree, NoAdapterLeaks, Seen, NoneEscapesEvict, Opens
<1>10. CASE EvictEnds
  BY <1>10 DEF EvictEnds, Drop, Closing, Kept, Opening, PoolTypes, AdapterState, RequestState,
     AdminState, Agree, NoAdapterLeaks, Seen, NoneEscapesEvict, Opens
<1>11. CASE Answer
  BY <1>11 DEF Answer, NoAdmin, PoolTypes, AdapterState, RequestState, AdminState, Agree,
     NoAdapterLeaks, Seen, NoneEscapesEvict, Opens
<1>12. CASE UNCHANGED <<adapters, admin>>
  BY <1>12 DEF PoolTypes, AdapterState, RequestState, AdminState, Agree, NoAdapterLeaks, Seen, NoneEscapesEvict, Opens
<1>13. QED
  BY <1>1, <1>2, <1>3, <1>4, <1>5, <1>6, <1>7, <1>8, <1>9, <1>10, <1>11, <1>12
     DEF PoolNext, poolVars, ReadConnection, AcquireHit, AcquireJoin, FinishUse, GoIdle

\* No step brings something older under way beside a request that found nothing older.
LEMMA NothingOlderStep ==
  ASSUME PoolInv, [PoolNext]_poolVars PROVE NothingOlder'
<1> USE NoneIsNoAdapter DEF PoolInv
<1>1. ASSUME NEW r \in Requests, NEW d \in Dbs, ReadConnection(r, d) PROVE NothingOlder'
  <2>1. /\ UNCHANGED <<connection, adapters>> /\ connection.rev \in Nat
        /\ request'[r].at = "read" /\ request'[r].rev = connection.rev
        /\ request'[r].clean = ~OlderUnderWay
        /\ \A o \in Requests \ {r} : request'[o] = request[o]
    BY <1>1, RevsAreNumbers DEF ReadConnection, PoolTypes
  <2>2. \A a \in Adapters : Opens(a) => a \in Opening
    <3>1. SUFFICES ASSUME NEW a \in Adapters, Opens(a) PROVE a \in Opening
      OBVIOUS
    <3>2. pending[adapters[a].db] = a
      BY <3>1 DEF Agree
    <3>3. adapters[a].db \in Dbs
      BY AdapterTypes
    <3>4. QED
      BY <3>2, <3>3 DEF Opening
  <2>3. request'[r].clean =>
          /\ \A o \in Requests : request[o].at = "read" => request[o].rev >= connection.rev
          /\ \A a \in Adapters : Opens(a) => adapters[a].rev >= connection.rev
    <3>1. request'[r].clean => ~OlderUnderWay
      BY <2>1
    <3>2. /\ connection.rev \in Nat
          /\ \A o \in Requests : request[o].rev \in Nat
          /\ \A a \in Adapters : adapters[a].rev \in Nat
      BY RevsAreNumbers
    <3>3. ASSUME ~OlderUnderWay, NEW o \in Requests, request[o].at = "read"
          PROVE  request[o].rev >= connection.rev
      BY <3>2, <3>3 DEF OlderUnderWay
    <3>4. ASSUME ~OlderUnderWay, NEW a \in Adapters, Opens(a)
          PROVE  adapters[a].rev >= connection.rev
      BY <2>2, <3>2, <3>4 DEF OlderUnderWay
    <3>5. QED
      BY <3>1, <3>3, <3>4
  <2>4. QED
    BY <2>1, <2>3, RevsAreNumbers DEF NothingOlder, Opens
<1>2. ASSUME NEW r \in Requests, AcquireHit(r) PROVE NothingOlder'
  BY <1>2 DEF AcquireHit, Hits, PoolTypes, AdapterState, RequestState, AdminState, Agree, Served,
     NothingOlder, Opens
<1>3. ASSUME NEW r \in Requests, AcquireJoin(r) PROVE NothingOlder'
  BY <1>3 DEF AcquireJoin, Joins, PoolTypes, AdapterState, RequestState, AdminState, Agree, Served,
     NothingOlder, Opens
<1>4. ASSUME NEW r \in Requests, AcquireOpen(r) PROVE NothingOlder'
  <2>1. UNCHANGED connection /\ request[r].rev \in Nat /\ request[r].rev <= connection.rev
    BY <1>4, RevsAreNumbers, OpensNew DEF AcquireOpen, NothingOlder
  <2>2. \A o \in Requests \ {r} : request'[o] = request[o]
    BY <1>4, OpensNew
  <2>3. /\ request'[r].at = "waits" /\ request'[r].adapter = Fresh /\ request'[r].clean = request[r].clean
        /\ adapters'[Fresh].rev = request[r].rev
    BY <1>4, OpensNew
  <2>4. \A a \in Adapters : Opens(a)' => a = Fresh \/ (Opens(a) /\ adapters'[a].rev = adapters[a].rev)
    BY <1>4, OpensNew DEF Opens
  <2>5. \A a \in Adapters : adapters[a].state # "unused" => adapters'[a].rev = adapters[a].rev
    BY <1>4, OpensNew
  <2>6. /\ \A o \in Requests : request'[o].at = "read" => o # r /\ request[o].rev <= connection.rev
        /\ \A a \in Adapters : Opens(a)' => adapters'[a].rev <= connection.rev
    BY <2>1, <2>2, <2>3, <2>4 DEF NothingOlder
  <2>7. ASSUME NEW o \in Requests, request'[o].at = "read", request'[o].clean
        PROVE  /\ \A q \in Requests : request'[q].at = "read" => request'[q].rev >= request'[o].rev
               /\ \A a \in Adapters : Opens(a)' => adapters'[a].rev >= request'[o].rev
    <3>1. o # r /\ request[o].at = "read" /\ request[o].clean /\ request'[o].rev = request[o].rev
      BY <2>2, <2>6, <2>7
    <3>2. request[r].rev >= request[o].rev
      BY <1>4, <3>1, OpensNew DEF NothingOlder
    <3>3. QED
      BY <2>2, <2>3, <2>4, <2>6, <3>1, <3>2 DEF NothingOlder
  <2>8. ASSUME NEW o \in Requests, request'[o].at \in {"waits", "uses"}, request'[o].clean
        PROVE  adapters'[request'[o].adapter].rev >= request'[o].rev
    <3>1. CASE o = r
      BY <1>4, <2>1, <2>3, <3>1, OpensNew
    <3>2. CASE o # r
      BY <2>2, <2>5, <2>8, <3>2 DEF NothingOlder, Served
    <3>3. QED
      BY <3>1, <3>2
  <2>9. QED
    BY <2>1, <2>2, <2>6, <2>7, <2>8 DEF NothingOlder
<1>5. ASSUME NEW r \in Requests, FinishUse(r) PROVE NothingOlder'
  BY <1>5 DEF FinishUse, NoRequest, PoolTypes, AdapterState, RequestState, AdminState, Agree,
     Served, NothingOlder, Opens
<1>6. ASSUME NEW a \in Adapters, Connected(a) PROVE NothingOlder'
  BY <1>6 DEF Connected, Settle, PoolTypes, AdapterState, RequestState, AdminState, Agree, Served,
     NothingOlder, Opens
<1>7. ASSUME NEW a \in Adapters, ConnectFails(a) PROVE NothingOlder'
  BY <1>7 DEF ConnectFails, Settle, Closing, NoRequest, PoolTypes, AdapterState, RequestState,
     AdminState, Agree, Served, NothingOlder, Opens
<1>8. ASSUME NEW a \in Adapters, TestEnds(a) PROVE NothingOlder'
  BY <1>8 DEF TestEnds, PoolTypes, AdapterState, RequestState, AdminState, Agree, Served,
     NothingOlder, Opens
<1>9. CASE Sweep
  BY <1>9 DEF Sweep, Drop, Closing, PoolTypes, AdapterState, RequestState, AdminState, Agree,
     Served, NothingOlder, Opens
<1>10. CASE TestBegins
  BY <1>10, FreshIsUnused DEF TestBegins, PoolTypes, AdapterState, RequestState, AdminState, Agree,
     Served, NothingOlder, Opens
<1>11. CASE StoreEdit
  BY <1>11 DEF StoreEdit, NoAdmin, PoolTypes, AdapterState, RequestState, AdminState, Agree, Served,
     NothingOlder, Opens
<1>12. CASE EvictEnds
  BY <1>12 DEF EvictEnds, Drop, Closing, PoolTypes, AdapterState, RequestState, AdminState, Agree,
     Served, NothingOlder, Opens
<1>13. CASE Answer
  BY <1>13 DEF Answer, NoAdmin, PoolTypes, AdapterState, RequestState, AdminState, Agree, Served,
     NothingOlder, Opens
<1>14. CASE UNCHANGED <<adapters, connection, request>>
  BY <1>14 DEF PoolTypes, AdapterState, RequestState, AdminState, Agree, Served, NothingOlder, Opens
<1>15. QED
  BY <1>1, <1>2, <1>3, <1>4, <1>5, <1>6, <1>7, <1>8, <1>9, <1>10, <1>11, <1>12, <1>13, <1>14
     DEF PoolTypes, AdapterState, RequestState, AdminState, Agree, Served, NothingOlder, Opens, PoolNext, poolVars, GoIdle, BeginRemoval, EvictBegins

------------------------------------------------------------------------------
\* The pool is empty in the beginning.
LEMMA PoolInvInit ==
  ASSUME PoolInit PROVE PoolInv
<1>1. PoolTypes
  BY SomeDb, PoolAssumption, NoneIsNoAdapter
     DEF PoolInit, PoolTypes, NoAdmin, AdminState, NoRequest, RequestState, AdapterState
<1>2. IdleKept /\ Agree /\ Served /\ Seen /\ NothingOlder
  BY SomeDb DEF PoolInit, IdleKept, Agree, NoAdapterLeaks, Served, Seen, NoneEscapesEvict,
     NothingOlder, NoAdmin, NoRequest, Opens
<1>3. QED
  BY <1>1, <1>2 DEF PoolInv

\* What the invariant says of the tables and the requests includes what the pool promises.
LEMMA PoolInvSuffices ==
  ASSUME PoolInv PROVE PoolSafe
<1>1. PoolTypeOK
  BY DEF PoolInv, PoolTypes, IdleKept, Agree, Served, Opens, PoolTypeOK, AdapterState, RequestState, AdminState
<1>2. FreshAdapter
  BY DEF PoolInv, NothingOlder, FreshAdapter
<1>3. QED
  BY <1>1, <1>2 DEF PoolInv, PoolSafe, Agree, Seen

\* Whatever requests, edits, removals, tests and sweeps overlap, the pool keeps what it
\* promises: every open adapter is an entry, evict leaves nothing open that it saw, and a
\* request gets the configuration it read unless an older open was under way
\* (acquire, open and evict of adapter-pool.service.ts).
THEOREM PoolKept == PoolSpec => []PoolSafe
<1>1. PoolInit => PoolInv
  BY PoolInvInit
<1>2. PoolInv /\ [PoolNext]_poolVars => PoolInv'
  BY PoolTypesStep, IdleKeptStep, AgreeStep, ServedStep, SeenStep, NothingOlderStep DEF PoolInv
<1>3. PoolInv => PoolSafe
  BY PoolInvSuffices
<1>4. QED
  BY <1>1, <1>2, <1>3, PTL DEF PoolSpec

(***************************************************************************)
(* Hooks, connections, workspaces and the key of their secrets.            *)
(***************************************************************************)

Spaces == {Default} \union Others
Row == [there : BOOLEAN, ws : Spaces, secret : Secrets, source : SUBSET Conns, targets : SUBSET Conns,
        saved : BOOLEAN]
Form == [at : {"none", "open", "sent", "read"}, object : Objects, read : Secrets,
         shown : {Nothing, Sentinel}, sent : Texts \union {Nothing, Sentinel}, targets : SUBSET Conns]

CatTypes ==
  /\ workspaces \subseteq Spaces /\ rows \in [Objects -> Row]
  /\ typed \in [Objects -> Texts \union {Nothing}] /\ raced \subseteq Objects
  /\ form \in [Clients -> Form]
  /\ removing \subseteq Conns
  /\ keyFile \in Keys /\ cached \in Keys /\ boots \in 0 .. MaxBoots

\* A row lives in a workspace there is; an object that is gone uses nothing.
Homes == \A o \in Objects : rows[o].there => rows[o].ws \in workspaces
Gone == \A o \in Objects : ~rows[o].there => rows[o].source = {} /\ rows[o].targets = {}

\* Whoever uses a connection that is about to be removed was saved after the look.
Spares == \A c \in removing, h \in Hooks : c \in rows[h].source \union rows[h].targets => rows[h].saved

\* The key in memory is the one on disk, and every secret was encrypted with it.
KeyHeld == cached \in {NoKey, keyFile}
Good(secret) == secret = <<>> \/ (keyFile # NoKey /\ \E t \in Texts : secret = <<keyFile, t>>)
RowsGood == \A o \in Objects : Good(rows[o].secret)
FormsGood == \A c \in Clients : Good(form[c].read)

\* Forms are opened while the process runs.
Started == Up \/ \A c \in Clients : form[c].at = "none"

CatInv == /\ CatTypes /\ Homes /\ Gone /\ Spares /\ Started
          /\ KeyHeld /\ RowsGood /\ FormsGood /\ EditKeepsSecret
------------------------------------------------------------------------------
\* There is an object, and the empty row and form have their types.
LEMMA Empty ==
  /\ NoRow \in Row /\ ~NoRow.there /\ NoRow.secret = <<>> /\ NoRow.source = {} /\ NoRow.targets = {}
  /\ NoForm \in Form /\ NoForm.at = "none" /\ NoForm.read = <<>>
<1>1. <<>> \in Secrets
  BY DEF Secrets
<1>2. (CHOOSE o \in Objects : TRUE) \in Objects
  <2>1. PICK c \in Conns : TRUE
    BY CatalogAssumption
  <2>2. QED
    BY <2>1 DEF Objects
<1>3. NoRow \in Row /\ ~NoRow.there /\ NoRow.secret = <<>> /\ NoRow.source = {} /\ NoRow.targets = {}
  BY <1>1 DEF NoRow, Row, Spaces
<1>4. NoForm \in Form /\ NoForm.at = "none" /\ NoForm.read = <<>>
  BY <1>1, <1>2 DEF NoForm, Form
<1>5. QED
  BY <1>3, <1>4

\* The key a use of it finds or makes.
LEMMA TheKey ==
  ASSUME CatTypes, KeyHeld, Up
  PROVE  /\ LoadedKey \in Keys \ {NoKey}
         /\ keyFile # NoKey => LoadedKey = keyFile
<1>1. boots \in Keys \ {NoKey}
  BY DEF CatTypes, Keys, NoKey, Up
<1>2. QED
  BY <1>1 DEF CatTypes, KeyHeld, LoadedKey

\* What was encrypted before can be decrypted after, as long as the key on disk stays.
LEMMA GoodStays ==
  ASSUME NEW secret, Good(secret), keyFile = NoKey \/ keyFile' = keyFile
  PROVE  secret = <<>> \/ (keyFile' # NoKey /\ \E t \in Texts : secret = <<keyFile', t>>)
BY DEF Good

\* The fields of a row.
LEMMA RowTypes ==
  ASSUME CatTypes, NEW o \in Objects
  PROVE  /\ rows[o] \in Row /\ rows[o].there \in BOOLEAN /\ rows[o].ws \in Spaces
         /\ rows[o].secret \in Secrets /\ rows[o].source \in SUBSET Conns
         /\ rows[o].targets \in SUBSET Conns /\ rows[o].saved \in BOOLEAN
  BY DEF CatTypes, Row
\* ... of a form.
LEMMA FormTypes ==
  ASSUME CatTypes, NEW c \in Clients
  PROVE  /\ form[c] \in Form /\ form[c].object \in Objects /\ form[c].read \in Secrets
         /\ form[c].sent \in Texts \union {Nothing, Sentinel} /\ form[c].targets \in SUBSET Conns
         /\ form[c].shown \in {Nothing, Sentinel}
  BY DEF CatTypes, Form
\* ... when one row changes.
LEMMA OneRow ==
  ASSUME CatTypes, NEW o \in Objects, NEW r \in Row, rows' = [rows EXCEPT ![o] = r]
  PROVE  /\ rows' \in [Objects -> Row] /\ rows'[o] = r
         /\ \A p \in Objects \ {o} : rows'[p] = rows[p]
  BY DEF CatTypes
\* ... when one form changes.
LEMMA OneForm ==
  ASSUME CatTypes, NEW c \in Clients, NEW f \in Form, form' = [form EXCEPT ![c] = f]
  PROVE  /\ form' \in [Clients -> Form] /\ form'[c] = f
         /\ \A d \in Clients \ {c} : form'[d] = form[d]
  BY DEF CatTypes
\* ... when the secret meant for one object changes.
LEMMA OneTyped ==
  ASSUME CatTypes, NEW o \in Objects, NEW t \in Texts \union {Nothing}, typed' = [typed EXCEPT ![o] = t]
  PROVE  /\ typed' \in [Objects -> Texts \union {Nothing}] /\ typed'[o] = t
         /\ \A p \in Objects \ {o} : typed'[p] = typed[p]
  BY DEF CatTypes

\* The secret that a use of the key encrypts.
LEMMA Encryption ==
  ASSUME CatTypes, KeyHeld, Up, NEW t \in Texts, LoadKey
  PROVE  /\ Encrypted(t) \in Secrets /\ Encrypted(t) # <<>> /\ Encrypted(t)[2] = t
         /\ Encrypted(t) = <<keyFile', t>> /\ keyFile' # NoKey
         /\ keyFile' \in Keys /\ cached' \in Keys /\ cached' = keyFile'
         /\ keyFile = NoKey \/ keyFile' = keyFile
<1>1. LoadedKey \in Keys \ {NoKey} /\ (keyFile # NoKey => LoadedKey = keyFile)
  BY TheKey
<1>2. keyFile' = LoadedKey /\ cached' = LoadedKey
  BY DEF LoadKey
<1>3. Encrypted(t) = <<LoadedKey, t>>
  BY DEF Encrypted
<1>4. <<LoadedKey, t>> \in Secrets
  BY <1>1 DEF Secrets
<1>5. <<LoadedKey, t>> # <<>> /\ <<LoadedKey, t>>[2] = t
  OBVIOUS
<1>6. QED
  BY <1>1, <1>2, <1>3, <1>4, <1>5

\* One row changes, the others and the forms stay what they were.
LEMMA OneRowStep ==
  ASSUME CatInv, NEW o \in Objects, NEW r \in Row, rows' = [rows EXCEPT ![o] = r],
         NEW t \in Texts \union {Nothing}, typed' = [typed EXCEPT ![o] = t],
         UNCHANGED <<workspaces, boots>>, raced' \subseteq Objects, raced \subseteq raced' \union {o},
         removing' \subseteq removing, form' \in [Clients -> Form],
         \A c \in Clients : form'[c].read \in {form[c].read, <<>>},
         keyFile' \in Keys, cached' \in {NoKey, keyFile'}, keyFile = NoKey \/ keyFile' = keyFile,
         Started', r.there => r.ws \in workspaces, ~r.there => r.source = {} /\ r.targets = {},
         o \in Hooks => r.saved \/ (r.source = {} /\ r.targets = {}),
         r.secret = <<>> \/ (keyFile' # NoKey /\ \E x \in Texts : r.secret = <<keyFile', x>>),
         r.there /\ o \notin raced' => IF t = Nothing THEN r.secret = <<>>
                                     ELSE r.secret # <<>> /\ r.secret[2] = t
  PROVE  CatInv'
<1> USE DEF CatInv
<1>1. /\ rows' \in [Objects -> Row] /\ rows'[o] = r /\ \A p \in Objects \ {o} : rows'[p] = rows[p]
  BY OneRow
<1>2. /\ typed' \in [Objects -> Texts \union {Nothing}] /\ typed'[o] = t
      /\ \A p \in Objects \ {o} : typed'[p] = typed[p]
  BY OneTyped
<1>3. cached' \in Keys
  BY CatalogAssumption DEF Keys, NoKey
<1>4. CatTypes'
  BY <1>1, <1>2, <1>3 DEF CatTypes
<1>5. Homes' /\ Gone'
  BY <1>1 DEF Homes, Gone
<1>6. Spares'
  BY <1>1 DEF Spares, Objects
<1>7. KeyHeld'
  BY DEF KeyHeld
<1>8. ASSUME NEW p \in Objects PROVE Good(rows[p].secret)'
  <2>1. CASE p = o
    BY <1>1, <2>1 DEF Good
  <2>2. CASE p # o
    BY <1>1, <2>2, GoodStays DEF RowsGood, Good
  <2>3. QED
    BY <2>1, <2>2
<1>9. ASSUME NEW c \in Clients PROVE Good(form[c].read)'
  <2>1. form'[c].read = <<>> \/ (form'[c].read = form[c].read /\ Good(form[c].read))
    BY DEF FormsGood
  <2>2. QED
    BY <2>1, GoodStays DEF Good
<1>10. RowsGood' /\ FormsGood'
  BY <1>8, <1>9 DEF RowsGood, FormsGood
<1>11. EditKeepsSecret'
  BY <1>1, <1>2 DEF EditKeepsSecret
<1>12. QED
  BY <1>4, <1>5, <1>6, <1>7, <1>10, <1>11

\* The rows stay.
LEMMA NoRowStep ==
  ASSUME CatInv, UNCHANGED <<rows, typed, raced, keyFile>>, workspaces \subseteq workspaces',
         workspaces' \subseteq Spaces, removing' \subseteq removing, cached' \in {NoKey, keyFile},
         boots' \in 0 .. MaxBoots, Started', form' \in [Clients -> Form],
         \A c \in Clients : form'[c].read \in {form[c].read, <<>>} \/ Good(form'[c].read)
  PROVE  CatInv'
<1> USE DEF CatInv
<1>1. cached' \in Keys
  BY CatalogAssumption DEF Keys, NoKey, CatTypes
<1>2. CatTypes'
  BY <1>1 DEF CatTypes
<1>3. Homes' /\ Gone'
  BY DEF Homes, Gone
<1>4. Spares' /\ KeyHeld' /\ EditKeepsSecret'
  BY DEF Spares, KeyHeld, EditKeepsSecret
<1>5. ASSUME NEW c \in Clients PROVE Good(form[c].read)'
  <2>1. Good(form'[c].read)
    BY DEF FormsGood, Good
  <2>2. QED
    BY <2>1 DEF Good
<1>6. RowsGood' /\ FormsGood'
  BY <1>5 DEF RowsGood, FormsGood, Good
<1>7. QED
  BY <1>2, <1>3, <1>4, <1>6

------------------------------------------------------------------------------
\* A start of the process.
LEMMA BootStep ==
  ASSUME CatInv, NEW ensured \in BOOLEAN, Boot(ensured) PROVE CatInv'
<1>1. UNCHANGED <<rows, typed, raced, keyFile>> /\ removing' = {} /\ cached' = NoKey
  BY DEF Boot
<1>2. workspaces \subseteq workspaces' /\ workspaces' \subseteq Spaces
  BY DEF Boot, CatInv, CatTypes, Spaces
<1>3. boots' \in 0 .. MaxBoots /\ Started'
  BY CatalogAssumption DEF Boot, CatInv, CatTypes, Started, Up
<1>4. form' \in [Clients -> Form] /\ \A c \in Clients : form'[c].read \in {form[c].read, <<>>}
  <2>1. form' = [c \in Clients |-> IF form[c].at = "open" THEN form[c] ELSE NoForm]
    BY DEF Boot
  <2>2. QED
    BY <2>1, Empty, FormTypes DEF CatInv
<1>5. QED
  BY <1>1, <1>2, <1>3, <1>4, NoRowStep

\* A workspace is made.
LEMMA CreateWorkspaceStep ==
  ASSUME CatInv, NEW w \in Others, CreateWorkspace(w) PROVE CatInv'
<1>1. /\ UNCHANGED <<rows, typed, raced, keyFile, removing, cached, boots, form>>
      /\ workspaces \subseteq workspaces' /\ workspaces' \subseteq Spaces
  BY DEF CreateWorkspace, CatInv, CatTypes, Spaces
<1>2. /\ cached' \in {NoKey, keyFile} /\ boots' \in 0 .. MaxBoots /\ form' \in [Clients -> Form]
      /\ Started'
  BY <1>1 DEF CatInv, CatTypes, KeyHeld, Started, Up
<1>3. QED
  BY <1>1, <1>2, NoRowStep

\* A client opens a form and sends it, and the handler reads the row.
LEMMA FormSteps ==
  ASSUME CatInv, NEW c \in Clients,
         \/ \E o \in Objects : OpenForm(c, o)
         \/ \E s \in Texts \union {Nothing, Sentinel}, t \in SUBSET Conns : SendForm(c, s, t)
         \/ EditReads(c)
  PROVE  CatInv'
<1>1. /\ UNCHANGED <<rows, typed, raced, keyFile, removing, cached, boots, workspaces>>
  BY DEF OpenForm, SendForm, EditReads
<1>2. /\ workspaces' \subseteq Spaces /\ cached' \in {NoKey, keyFile} /\ boots' \in 0 .. MaxBoots
      /\ Started'
  <2>1. Up
    BY DEF OpenForm, SendForm, EditReads, CatInv, Started
  <2>2. QED
    BY <1>1, <2>1 DEF CatInv, CatTypes, KeyHeld, Started, Up
<1>3. CatTypes /\ form \in [Clients -> Form]
  BY DEF CatInv, CatTypes
<1>4. ASSUME NEW o \in Objects, OpenForm(c, o)
      PROVE  \E f \in Form : form' = [form EXCEPT ![c] = f] /\ f.read = <<>>
  <2> DEFINE f == [NoForm EXCEPT !.at = "open", !.object = o, !.targets = rows[o].targets,
                                 !.shown = View(rows[o].secret)]
  <2>1. form' = [form EXCEPT ![c] = f]
    BY <1>4 DEF OpenForm
  <2>2. f \in Form /\ f.read = <<>>
    <3>1. rows[o].targets \in SUBSET Conns /\ View(rows[o].secret) \in {Nothing, Sentinel}
      BY <1>3, RowTypes DEF View
    <3>2. QED
      BY <3>1, Empty DEF Form
  <2>3. QED
    BY <2>1, <2>2
<1>5. ASSUME NEW s \in Texts \union {Nothing, Sentinel}, NEW t \in SUBSET Conns, SendForm(c, s, t)
      PROVE  \E f \in Form : form' = [form EXCEPT ![c] = f] /\ f.read = form[c].read
  <2> DEFINE f == [[[form[c] EXCEPT !.at = "sent"] EXCEPT !.sent = s] EXCEPT !.targets = t]
  <2>1. form' = [form EXCEPT ![c] = f]
    BY <1>3, <1>5 DEF SendForm
  <2>2. f \in Form /\ f.read = form[c].read
    BY <1>3, FormTypes DEF Form
  <2>3. QED
    BY <2>1, <2>2
<1>6. ASSUME EditReads(c)
      PROVE  \E f \in Form : form' = [form EXCEPT ![c] = f]
                             /\ (f.read = <<>> \/ \E o \in Objects : f.read = rows[o].secret)
  <2> DEFINE o == form[c].object
             g == [form[c] EXCEPT !.at = "read", !.read = rows[o].secret]
  <2>1. form' = [form EXCEPT ![c] = IF rows[o].there THEN g ELSE NoForm]
    BY <1>6 DEF EditReads
  <2>2. o \in Objects /\ rows[o].secret \in Secrets /\ form[c] \in Form
    BY <1>3, FormTypes, RowTypes
  <2>3. g \in Form /\ g.read = rows[o].secret
    BY <2>2 DEF Form
  <2> HIDE DEF g
  <2>4. QED
    BY <2>1, <2>2, <2>3, Empty
<1>7. \E f \in Form : form' = [form EXCEPT ![c] = f]
                      /\ (f.read \in {form[c].read, <<>>} \/ \E o \in Objects : f.read = rows[o].secret)
  BY <1>4, <1>5, <1>6
<1>8. PICK f \in Form : form' = [form EXCEPT ![c] = f]
                      /\ (f.read \in {form[c].read, <<>>} \/ \E o \in Objects : f.read = rows[o].secret)
  BY <1>7
<1>9. /\ form' \in [Clients -> Form] /\ form'[c] = f
      /\ \A d \in Clients \ {c} : form'[d] = form[d]
  BY <1>3, <1>8, OneForm
<1>10. \A d \in Clients : form'[d].read \in {form[d].read, <<>>} \/ Good(form'[d].read)
  BY <1>8, <1>9 DEF CatInv, RowsGood
<1>11. QED
  BY <1>1, <1>2, <1>9, <1>10, NoRowStep

\* An object is created.
LEMMA CreateStep ==
  ASSUME CatInv, NEW o \in Objects, NEW w \in Spaces, NEW t \in Texts \union {Nothing},
         NEW source \in SUBSET Conns, NEW targets \in SUBSET Conns, Create(o, w, t, source, targets)
  PROVE  CatInv'
<1> DEFINE s == IF t = Nothing THEN <<>> ELSE Encrypted(t)
           r == [there |-> TRUE, ws |-> w, source |-> source, targets |-> targets, saved |-> TRUE,
                 secret |-> s]
<1>1. /\ rows' = [rows EXCEPT ![o] = r] /\ typed' = [typed EXCEPT ![o] = t] /\ raced' = raced \ {o}
      /\ Encrypts(t) /\ Up /\ w \in workspaces
      /\ UNCHANGED <<workspaces, form, removing, boots>>
  BY DEF Create
<1>2. CatTypes /\ KeyHeld /\ raced \subseteq Objects /\ form \in [Clients -> Form]
  BY DEF CatInv, CatTypes
<1>3. /\ s \in Secrets /\ (IF t = Nothing THEN s = <<>> ELSE s # <<>> /\ s[2] = t)
      /\ s = <<>> \/ (keyFile' # NoKey /\ \E x \in Texts : s = <<keyFile', x>>)
      /\ keyFile' \in Keys /\ cached' \in {NoKey, keyFile'} /\ (keyFile = NoKey \/ keyFile' = keyFile)
  <2>1. CASE t = Nothing
    BY <1>1, <1>2, <2>1, CatalogAssumption DEF Encrypts, Secrets, CatTypes, KeyHeld
  <2>2. CASE t # Nothing
    <3>1. t \in Texts /\ LoadKey
      BY <1>1, <2>2 DEF Encrypts
    <3>2. QED
      BY <1>1, <1>2, <2>2, <3>1, Encryption
  <2>3. QED
    BY <2>1, <2>2
<1> HIDE DEF s
<1>4. /\ r \in Row /\ r.there /\ r.ws = w /\ r.saved /\ r.secret = s /\ Started'
  BY <1>1, <1>3 DEF Row, Started, Up
<1> HIDE DEF r
<1>5. QED
  BY <1>1, <1>2, <1>3, <1>4, OneRowStep

\* An edit writes the secret the client typed, or the one the handler read.
LEMMA EditWritesStep ==
  ASSUME CatInv, NEW c \in Clients, EditWrites(c) PROVE CatInv'
<1> DEFINE f == form[c]
           o == f.object
           s == SecretOf(f)
           r == [[[rows[o] EXCEPT !.secret = s] EXCEPT !.targets = f.targets] EXCEPT !.saved = TRUE]
           t == IF f.sent = Sentinel THEN typed[o] ELSE f.sent
<1>1. CatTypes /\ KeyHeld /\ raced \subseteq Objects /\ form \in [Clients -> Form]
      /\ o \in Objects /\ f \in Form /\ rows[o] \in Row /\ cached \in Keys /\ keyFile \in Keys
      /\ f.read \in Secrets /\ f.sent \in Texts \union {Nothing, Sentinel} /\ f.targets \in SUBSET Conns
  BY FormTypes, RowTypes DEF CatInv, CatTypes
<1>2. form' = [form EXCEPT ![c] = NoForm] /\ UNCHANGED <<workspaces, removing, boots>> /\ f.at = "read"
  BY DEF EditWrites
<1>3. form' \in [Clients -> Form] /\ \A d \in Clients : form'[d].read \in {form[d].read, <<>>}
  BY <1>1, <1>2, OneForm, Empty
<1>4. Up /\ Started'
  BY <1>2 DEF CatInv, Up, Started
<1>5. CASE ~rows[o].there
  <2>1. UNCHANGED <<rows, typed, raced, keyFile, cached>>
    BY <1>5 DEF EditWrites
  <2>2. workspaces' \subseteq Spaces /\ cached' \in {NoKey, keyFile} /\ boots' \in 0 .. MaxBoots
    BY <1>1, <1>2, <2>1 DEF CatTypes, KeyHeld
  <2>3. QED
    BY <1>2, <1>3, <1>4, <2>1, <2>2, NoRowStep
<1> HIDE DEF s, t
<1>6. CASE rows[o].there
  <2>1. /\ rows' = [rows EXCEPT ![o].secret = s, ![o].targets = f.targets, ![o].saved = TRUE]
        /\ typed' = [typed EXCEPT ![o] = IF f.sent = Sentinel THEN @ ELSE f.sent]
        /\ raced' = IF f.read # rows[o].secret THEN raced \union {o} ELSE raced
        /\ Encrypts(f.sent)
    BY <1>6 DEF EditWrites, s
  <2>2. typed' = [typed EXCEPT ![o] = t] /\ t \in Texts \union {Nothing}
    BY <1>1, <2>1 DEF CatTypes, t
  <2>3. raced' \subseteq Objects /\ raced \subseteq raced' \union {o}
        /\ (o \notin raced' => o \notin raced /\ f.read = rows[o].secret)
    BY <1>1, <2>1
  <2>4. Good(f.read)
    BY DEF CatInv, FormsGood
  <2>5. /\ s \in Secrets
        /\ s = <<>> \/ (keyFile' # NoKey /\ \E x \in Texts : s = <<keyFile', x>>)
        /\ keyFile' \in Keys /\ cached' \in {NoKey, keyFile'} /\ (keyFile = NoKey \/ keyFile' = keyFile)
        /\ f.sent = Sentinel => s = f.read
        /\ f.sent = Nothing => s = <<>>
        /\ f.sent \in Texts => s # <<>> /\ s[2] = f.sent
    <3>1. CASE f.sent \in Texts
      <4>1. LoadKey /\ f.sent # Sentinel /\ f.sent # Nothing
        BY <2>1, <3>1, CatalogAssumption DEF Encrypts
      <4>2. s = Encrypted(f.sent)
        BY <4>1 DEF s, SecretOf
      <4>3. QED
        BY <1>1, <1>4, <3>1, <4>1, <4>2, Encryption
    <3>2. CASE f.sent \notin Texts
      <4>1. UNCHANGED <<keyFile, cached>> /\ cached \in {NoKey, keyFile}
        BY <1>1, <2>1, <3>2 DEF Encrypts, KeyHeld
      <4>2. s = IF f.sent = Sentinel THEN f.read ELSE <<>>
        BY <1>1, <3>2 DEF s, SecretOf
      <4>3. s = <<>> \/ (keyFile' # NoKey /\ \E x \in Texts : s = <<keyFile', x>>)
        BY <2>4, <4>1, <4>2 DEF Good
      <4>4. <<>> \in Secrets /\ Sentinel # Nothing
        BY DEF Secrets, Sentinel, Nothing
      <4>5. QED
        BY <1>1, <3>2, <4>1, <4>2, <4>3, <4>4
    <3>3. QED
      BY <3>1, <3>2
  <2>6. rows' = [rows EXCEPT ![o] = r]
    BY <1>1, <2>1 DEF CatTypes
  <2>7. /\ r \in Row /\ r.there /\ r.ws = rows[o].ws /\ r.saved /\ r.secret = s
    BY <1>1, <1>6, <2>5 DEF Row
  <2> HIDE DEF r
  <2>8. r.ws \in workspaces
    BY <1>1, <1>6, <2>7 DEF CatInv, Homes
  <2>9. r.there /\ o \notin raced' => IF t = Nothing THEN r.secret = <<>>
                                    ELSE r.secret # <<>> /\ r.secret[2] = t
    <3>1. CASE f.sent = Sentinel
      <4>1. t = typed[o]
        BY <3>1 DEF t
      <4>2. o \notin raced' => s = rows[o].secret /\ o \notin raced
        BY <2>3, <2>5, <3>1
      <4>3. o \notin raced => IF typed[o] = Nothing THEN rows[o].secret = <<>>
                            ELSE rows[o].secret # <<>> /\ rows[o].secret[2] = typed[o]
        BY <1>1, <1>6 DEF CatInv, EditKeepsSecret
      <4>4. QED
        BY <2>7, <4>1, <4>2, <4>3
    <3>2. CASE f.sent # Sentinel
      <4>1. t = f.sent
        BY <3>2 DEF t
      <4>2. QED
        BY <1>1, <2>5, <2>7, <3>2, <4>1, CatalogAssumption
    <3>3. QED
      BY <3>1, <3>2
  <2>10. removing' \subseteq removing
    BY <1>2
  <2>11. QED
    BY <1>1, <1>2, <1>3, <1>4, <2>2, <2>3, <2>5, <2>6, <2>7, <2>8, <2>9, <2>10, OneRowStep
<1>7. QED
  BY <1>5, <1>6

\* A hook is deleted, and a connection that was found unused.
LEMMA DeleteSteps ==
  ASSUME CatInv, NEW o \in Objects, DeleteHook(o) \/ RemoveConn(o) PROVE CatInv'
<1>1. /\ rows' = [rows EXCEPT ![o] = NoRow] /\ typed' = [typed EXCEPT ![o] = Nothing]
      /\ UNCHANGED <<workspaces, raced, form, keyFile, cached, boots>> /\ removing' \subseteq removing
  BY DEF DeleteHook, RemoveConn
<1>2. /\ raced' \subseteq Objects /\ raced \subseteq raced' \union {o} /\ form' \in [Clients -> Form]
      /\ keyFile' \in Keys /\ cached' \in {NoKey, keyFile'} /\ Started'
  BY <1>1 DEF CatInv, CatTypes, KeyHeld, Started, Up
<1>3. \A c \in Clients : form'[c].read \in {form[c].read, <<>>}
  BY <1>1
<1>4. Nothing \in Texts \union {Nothing}
  OBVIOUS
<1>5. QED
  BY <1>1, <1>2, <1>3, <1>4, Empty, OneRowStep

\* A workspace is deleted, with its connections and hooks.
LEMMA DeleteWorkspaceStep ==
  ASSUME CatInv, NEW w \in Spaces, DeleteWorkspace(w) PROVE CatInv'
<1>1. /\ workspaces' = workspaces \ {w}
      /\ rows' = [o \in Objects |-> IF rows[o].ws = w THEN NoRow ELSE rows[o]]
      /\ typed' = [o \in Objects |-> IF rows[o].ws = w THEN Nothing ELSE typed[o]]
      /\ UNCHANGED <<raced, form, removing, keyFile, cached, boots>>
  BY DEF DeleteWorkspace
<1> USE DEF CatInv
<1>2. \A o \in Objects : rows'[o] = NoRow \/ (rows'[o] = rows[o] /\ rows[o].ws # w /\ typed'[o] = typed[o])
  BY <1>1
<1>3. CatTypes'
  <2>1. rows' \in [Objects -> Row]
    BY <1>1, Empty, RowTypes
  <2>2. typed' \in [Objects -> Texts \union {Nothing}]
    BY <1>1 DEF CatTypes
  <2>3. QED
    BY <1>1, <2>1, <2>2 DEF CatTypes
<1>4. Homes' /\ Gone'
  BY <1>1, <1>2, Empty DEF Homes, Gone
<1>5. Spares'
  BY <1>1, <1>2, Empty DEF Spares, Objects
<1>6. KeyHeld' /\ Started'
  BY <1>1 DEF KeyHeld, Started, Up
<1>7. RowsGood' /\ FormsGood'
  BY <1>1, <1>2, Empty DEF RowsGood, FormsGood, Good
<1>8. EditKeepsSecret'
  BY <1>1, <1>2, Empty DEF EditKeepsSecret
<1>9. QED
  BY <1>3, <1>4, <1>5, <1>6, <1>7, <1>8

\* The handler of DELETE counts the hooks.
LEMMA CheckUnusedStep ==
  ASSUME CatInv, NEW k \in Conns, CheckUnused(k) PROVE CatInv'
<1>1. /\ removing' = {k} /\ UsedBy(k) = {}
      /\ rows' = [o \in Objects |-> IF o \in Hooks THEN [rows[o] EXCEPT !.saved = FALSE] ELSE rows[o]]
      /\ UNCHANGED <<workspaces, typed, raced, form, keyFile, cached, boots>>
  BY DEF CheckUnused
<1> USE DEF CatInv
<1>2. ASSUME NEW o \in Objects
      PROVE  /\ rows'[o] \in Row /\ rows'[o].there = rows[o].there /\ rows'[o].ws = rows[o].ws
             /\ rows'[o].secret = rows[o].secret /\ rows'[o].source = rows[o].source
             /\ rows'[o].targets = rows[o].targets
  <2>1. rows[o] \in Row
    BY RowTypes
  <2>2. [rows[o] EXCEPT !.saved = FALSE] \in Row
    BY <2>1 DEF Row
  <2>3. rows'[o] = IF o \in Hooks THEN [rows[o] EXCEPT !.saved = FALSE] ELSE rows[o]
    BY <1>1
  <2>4. QED
    BY <2>1, <2>2, <2>3 DEF Row
<1>3. CatTypes'
  <2>1. rows' \in [Objects -> Row]
    BY <1>1, <1>2
  <2>2. QED
    BY <1>1, <2>1 DEF CatTypes
<1>4. Homes' /\ Gone'
  BY <1>1, <1>2 DEF Homes, Gone
<1>5. Spares'
  <2>1. \A h \in Hooks : k \notin rows[h].source \union rows[h].targets
    BY <1>1 DEF UsedBy, Gone, Objects
  <2>2. QED
    BY <1>1, <1>2, <2>1 DEF Spares, Objects
<1>6. KeyHeld' /\ Started'
  BY <1>1 DEF KeyHeld, Started, Up
<1>7. RowsGood' /\ FormsGood'
  BY <1>1, <1>2 DEF RowsGood, FormsGood, Good
<1>8. EditKeepsSecret'
  BY <1>1, <1>2 DEF EditKeepsSecret
<1>9. QED
  BY <1>3, <1>4, <1>5, <1>6, <1>7, <1>8
------------------------------------------------------------------------------
\* There is nothing in the beginning.
LEMMA CatInvInit ==
  ASSUME CatalogInit PROVE CatInv
<1>1. \A o \in Objects : rows[o] = NoRow
  BY DEF CatalogInit
<1>2. \A c \in Clients : form[c] = NoForm
  BY DEF CatalogInit
<1>3. CatTypes
  BY Empty, CatalogAssumption DEF CatalogInit, CatTypes, Spaces, Keys, NoKey
<1>4. Homes /\ Gone /\ Spares /\ Started
  BY <1>1, <1>2, Empty DEF Homes, Gone, Spares, Objects, Started
<1>5. KeyHeld /\ RowsGood /\ FormsGood /\ EditKeepsSecret
  BY <1>1, <1>2, Empty DEF CatalogInit, KeyHeld, RowsGood, FormsGood, EditKeepsSecret, Good
<1>6. QED
  BY <1>3, <1>4, <1>5 DEF CatInv

\* The invariant survives every step.
LEMMA CatStep ==
  ASSUME CatInv, [CatalogNext]_catalogVars PROVE CatInv'
<1>1. CASE UNCHANGED catalogVars
  <2>1. UNCHANGED <<workspaces, rows, typed, raced, form, removing, keyFile, cached, boots>>
    BY <1>1 DEF catalogVars
  <2>2. CatTypes' /\ Homes' /\ Gone' /\ Spares' /\ Started'
    BY <2>1 DEF CatInv, CatTypes, Homes, Gone, Spares, Started, Up
  <2>3. KeyHeld' /\ RowsGood' /\ FormsGood' /\ EditKeepsSecret'
    BY <2>1 DEF CatInv, KeyHeld, RowsGood, FormsGood, EditKeepsSecret, Good
  <2>4. QED
    BY <2>2, <2>3 DEF CatInv
<1>2. ASSUME NEW b \in BOOLEAN, Boot(b) PROVE CatInv'
  BY <1>2, BootStep
<1>3. ASSUME NEW w \in Others, CreateWorkspace(w) PROVE CatInv'
  BY <1>3, CreateWorkspaceStep
<1>4. ASSUME NEW w \in Spaces, DeleteWorkspace(w) PROVE CatInv'
  BY <1>4, DeleteWorkspaceStep
<1>5. ASSUME NEW o \in Objects, NEW w \in Spaces, NEW t \in Texts \union {Nothing},
             NEW source \in SUBSET Conns, NEW targets \in SUBSET Conns, Create(o, w, t, source, targets)
      PROVE  CatInv'
  BY <1>5, CreateStep
<1>6. ASSUME NEW c \in Clients,
             \/ \E o \in Objects : OpenForm(c, o)
             \/ \E s \in Texts \union {Nothing, Sentinel}, t \in SUBSET Conns : SendForm(c, s, t)
             \/ EditReads(c)
      PROVE  CatInv'
  BY <1>6, FormSteps
<1>7. ASSUME NEW c \in Clients, EditWrites(c) PROVE CatInv'
  BY <1>7, EditWritesStep
<1>8. ASSUME NEW o \in Objects, DeleteHook(o) \/ RemoveConn(o) PROVE CatInv'
  BY <1>8, DeleteSteps
<1>9. ASSUME NEW k \in Conns, CheckUnused(k) PROVE CatInv'
  BY <1>9, CheckUnusedStep
<1>10. QED
  BY <1>1, <1>2, <1>3, <1>4, <1>5, <1>6, <1>7, <1>8, <1>9 DEF CatalogNext, Spaces, Objects

\* What the stores promise follows.
LEMMA CatInvSuffices ==
  ASSUME CatInv PROVE CatalogSafe
<1> USE DEF CatInv
<1>1. CatalogTypeOK
  BY DEF CatTypes, CatalogTypeOK, Row, Form, Spaces, Homes
<1>2. SentinelIsNoSecret
  <2>1. ASSUME NEW o \in Objects, rows[o].secret # <<>> PROVE rows[o].secret[2] # Sentinel
    <3>1. PICK t \in Texts : rows[o].secret = <<keyFile, t>>
      BY <2>1 DEF RowsGood, Good
    <3>2. QED
      BY <3>1, CatalogAssumption
  <2>2. QED
    BY <2>1 DEF SentinelIsNoSecret
<1>3. SecretsReadable
  <2>1. ASSUME NEW o \in Objects, rows[o].secret # <<>> PROVE rows[o].secret[1] = LoadedKey
    <3>1. keyFile # NoKey /\ \E t \in Texts : rows[o].secret = <<keyFile, t>>
      BY <2>1 DEF RowsGood, Good
    <3>2. LoadedKey = keyFile
      BY <3>1 DEF LoadedKey, KeyHeld
    <3>3. QED
      BY <3>1, <3>2
  <2>2. QED
    BY <2>1 DEF SecretsReadable, Readable
<1>4. QED
  BY <1>1, <1>2, <1>3 DEF CatalogSafe

\* However edits, removals and starts of the process overlap: no secret is lost by an edit
\* that did not touch it or becomes unreadable, DELETE of a connection removes none in use
\* but by a hook saved meanwhile, and the default workspace stays
\* (connection-store, hook-store and workspace-store.service.ts, crypto.service.ts).
THEOREM CatalogKept == CatalogSpec => CatalogPromise
<1>1. CatalogInit => CatInv
  BY CatInvInit
<1>2. CatInv /\ [CatalogNext]_catalogVars => CatInv'
  BY CatStep
<1>3. CatInv => CatalogSafe
  BY CatInvSuffices
<1>4. CatInv /\ [CatalogNext]_catalogVars =>
        [\A c \in Conns, h \in Hooks :
           RemoveConn(c) /\ c \in rows[h].source \cup rows[h].targets => rows[h].saved]_catalogVars
  BY DEF CatInv, Spares, RemoveConn
<1>5. [CatalogNext]_catalogVars => [(Default \in workspaces) => Default \in workspaces']_catalogVars
  BY DEF CatalogNext, Boot, CreateWorkspace, DeleteWorkspace, Deletable, Create, OpenForm, SendForm,
         EditReads, EditWrites, DeleteHook, CheckUnused, RemoveConn
<1>6. QED
  BY <1>1, <1>2, <1>3, <1>4, <1>5, PTL DEF CatalogSpec, CatalogPromise, RemovalSparesUsers, DefaultStays

(***************************************************************************)
(* Accounts, sessions and settings.                                        *)
(***************************************************************************)

Account == [password : Passwords, version : 0 .. MaxVersion]
Cookie == [name : Names \union {""}, version : 0 .. MaxVersion, issued : 0 .. MaxTime,
           password : Passwords \union {""}]
Work == [at : {"none", "setup", "issue", "change"}, name : Names \union {""}, version : 0 .. MaxVersion,
         password : Passwords \union {""}, cookie : Cookie]
Updating == [at : {"none", "read", "written"}, patch : Patches, read : Patches]

AccountTypes ==
  /\ DOMAIN accounts \subseteq Names /\ \A n \in DOMAIN accounts : accounts[n] \in Account
  /\ browser \in [Browsers -> Work]
  /\ now \in 0 .. MaxTime

SettingTypes ==
  /\ stored \in Patches /\ cache \in [Settings -> Values] /\ wanted \in Patches
  /\ update \in [Browsers -> Updating]
  /\ mixed \in BOOLEAN /\ patches \in 0 .. MaxPatches

\* The version and the password a request or a cookie holds: while the account still has
\* the version, it has the password.
Stands(k) ==
  /\ k.name \in DOMAIN accounts /\ k.version <= accounts[k.name].version
  /\ accounts[k.name].version = k.version => k.password = accounts[k.name].password

\* Who is about to get a cookie, and who has one; a new password is written to an account.
Issuable == \A b \in Browsers : At(b, "issue") => Stands(browser[b])
Upheld(k) == Stands(k) /\ k.issued <= now
CookiesStand == \A b \in Browsers : browser[b].cookie # NoCookie => Upheld(browser[b].cookie)
SettingUp == \A b \in Browsers : At(b, "setup") =>
               browser[b].name \in Names /\ browser[b].password \in Passwords
Changing == \A b \in Browsers : At(b, "change") => browser[b].name \in DOMAIN accounts

\* Without overlap one update at most is under way, and it has read the row there is.
OneUpdate == ~mixed =>
  \A b \in Browsers : update[b].at # "none" =>
    update[b].read = stored /\ \A o \in Browsers \ {b} : update[o].at = "none"
CacheFollows == ~mixed => stored = wanted /\
  ((\A b \in Browsers : update[b].at # "written") => cache = Merged(stored))

AccountsInv == /\ AccountTypes /\ SettingTypes
               /\ Issuable /\ CookiesStand /\ SettingUp /\ Changing
               /\ OneUpdate /\ CacheFollows
------------------------------------------------------------------------------
\* Rows and patches are functions of the settings.
LEMMA Rows ==
  /\ Unstored \in Patches
  /\ \A row, patch \in Patches : Patched(row, patch) \in Patches
  /\ \A row \in Patches : Merged(row) \in [Settings -> Values]
<1>1. Unstored \in Patches
  BY DEF Unstored, Patches
<1>2. ASSUME NEW row \in Patches, NEW patch \in Patches PROVE Patched(row, patch) \in Patches
  BY DEF Patched, Patches
<1>3. ASSUME NEW row \in Patches PROVE Merged(row) \in [Settings -> Values]
  BY AccountsAssumption DEF Merged, Patches
<1>4. QED
  BY <1>1, <1>2, <1>3

\* The fields of a request, and of the account it reads.
LEMMA Fields ==
  ASSUME AccountTypes, NEW b \in Browsers
  PROVE  /\ browser[b] \in Work /\ browser[b].cookie \in Cookie
         /\ browser[b].name \in Names \union {""} /\ browser[b].version \in 0 .. MaxVersion
         /\ browser[b].password \in Passwords \union {""}
         /\ \A n \in DOMAIN accounts : /\ n \in Names /\ accounts[n].password \in Passwords
                                       /\ accounts[n].version \in 0 .. MaxVersion
  BY DEF AccountTypes, Work, Account

\* Ages and versions of cookies are numbers.
LEMMA CookieTypes ==
  ASSUME NEW k \in Cookie PROVE k.version \in 0 .. MaxVersion /\ k.issued \in Nat
<1>1. k.version \in 0 .. MaxVersion /\ k.issued \in 0 .. MaxTime
  BY DEF Cookie
<1>2. QED
  BY <1>1, AccountsAssumption

\* A client gets a cookie, or loses it.
LEMMA CookieFields ==
  ASSUME NEW k \in Cookie
  PROVE  /\ [NoWork EXCEPT !.cookie = k] \in Work /\ [NoWork EXCEPT !.cookie = k].at = "none"
         /\ [NoWork EXCEPT !.cookie = k].cookie = k
<1>1. 0 \in 0 .. MaxVersion
  BY AccountsAssumption
<1>2. QED
  BY <1>1 DEF NoWork, Work

\* No cookie has the fields of one.
LEMMA NoCookieIsCookie == NoCookie \in Cookie
<1>1. 0 \in 0 .. MaxVersion /\ 0 \in 0 .. MaxTime
  BY AccountsAssumption
<1>2. QED
  BY <1>1 DEF NoCookie, Cookie

\* Accounts are never removed, and a row that changes gets a later version.
Grows == /\ DOMAIN accounts' \subseteq Names /\ \A n \in DOMAIN accounts' : accounts'[n] \in Account
         /\ DOMAIN accounts \subseteq DOMAIN accounts'
         /\ \A n \in DOMAIN accounts :
              accounts'[n] = accounts[n] \/ accounts'[n].version > accounts[n].version

\* What a client holds stands after the step.
StandsNow(k) ==
  /\ k.name \in DOMAIN accounts' /\ k.version <= accounts'[k.name].version
  /\ accounts'[k.name].version = k.version => k.password = accounts'[k.name].password

SessionInv == AccountTypes /\ Issuable /\ CookiesStand /\ SettingUp /\ Changing

\* While the accounts grow, what stood for a password of today still does.
LEMMA StandsOn ==
  ASSUME AccountTypes, Grows, NEW k, k.version \in 0 .. MaxVersion, Stands(k)
  PROVE  StandsNow(k)
<1> DEFINE n == k.name
           v == k.version
<1>1. /\ n \in DOMAIN accounts /\ v <= accounts[n].version /\ n \in DOMAIN accounts'
      /\ accounts[n].version = v => k.password = accounts[n].password
  BY DEF Stands, Grows
<1>2. accounts[n].version \in Nat /\ accounts'[n].version \in Nat /\ v \in Nat
  BY <1>1, AccountsAssumption DEF AccountTypes, Account, Grows
<1>3. accounts'[n] = accounts[n] \/ accounts'[n].version > accounts[n].version
  BY <1>1 DEF Grows
<1> HIDE DEF n, v
<1>4. v <= accounts'[n].version /\ (accounts'[n].version = v => k.password = accounts'[n].password)
  BY <1>1, <1>2, <1>3
<1>5. QED
  BY <1>1, <1>4 DEF n, v, StandsNow

\* A step of one client keeps the sessions, if what it holds itself afterwards stands.
LEMMA OneMoves ==
  ASSUME SessionInv, Grows, now' \in 0 .. MaxTime, now' >= now, NEW b \in Browsers,
         NEW w \in Work, browser' = [browser EXCEPT ![b] = w],
         w.at = "issue" => StandsNow(w),
         w.at = "setup" => w.name \in Names /\ w.password \in Passwords,
         w.at = "change" => w.name \in DOMAIN accounts',
         w.cookie \in {browser[b].cookie, NoCookie} \/ (StandsNow(w.cookie) /\ w.cookie.issued <= now')
  PROVE  SessionInv'
<1> USE DEF SessionInv
<1>1. browser' \in [Browsers -> Work] /\ browser'[b] = w
      /\ \A o \in Browsers \ {b} : browser'[o] = browser[o]
  BY DEF AccountTypes
<1>2. AccountTypes'
  BY <1>1 DEF AccountTypes, Grows
<1>3. ASSUME NEW o \in Browsers, At(o, "issue")' PROVE Stands(browser[o])'
  <2>1. StandsNow(browser'[o])
    <3>1. CASE o = b
      BY <1>1, <1>3, <3>1 DEF At
    <3>2. CASE o # b
      <4>1. browser'[o] = browser[o]
        BY <1>1, <3>2
      <4>2. Stands(browser[o]) /\ browser[o].version \in 0 .. MaxVersion
        BY <1>3, <4>1, Fields DEF At, Issuable
      <4>3. QED
        BY <4>1, <4>2, StandsOn
    <3>3. QED
      BY <3>1, <3>2
  <2>2. QED
    BY <2>1 DEF Stands, StandsNow
<1>4. ASSUME NEW o \in Browsers, At(o, "setup")'
      PROVE  browser'[o].name \in Names /\ browser'[o].password \in Passwords
  BY <1>1, <1>4 DEF At, SettingUp
<1>5. ASSUME NEW o \in Browsers, At(o, "change")' PROVE browser'[o].name \in DOMAIN accounts'
  BY <1>1, <1>5 DEF At, Changing, Grows
<1>6. ASSUME NEW o \in Browsers, browser'[o].cookie # NoCookie PROVE Upheld(browser[o].cookie)'
  <2>1. StandsNow(browser'[o].cookie) /\ browser'[o].cookie.issued <= now'
    <3>1. CASE browser'[o].cookie = browser[o].cookie
      <4> DEFINE k == browser[o].cookie
      <4>1. k \in Cookie
        BY Fields
      <4>2. k.version \in 0 .. MaxVersion /\ k.issued \in Nat
        BY <4>1, CookieTypes
      <4>3. Stands(k) /\ k.issued <= now
        BY <1>6, <3>1 DEF CookiesStand, Upheld
      <4>4. now \in Nat /\ now' \in Nat
        BY AccountsAssumption DEF AccountTypes
      <4> HIDE DEF k
      <4>5. StandsNow(k) /\ k.issued <= now'
        BY <4>2, <4>3, <4>4, StandsOn
      <4>6. QED
        BY <3>1, <4>5 DEF k
    <3>2. QED
      BY <1>1, <1>6, <3>1
  <2>2. QED
    BY <2>1 DEF Stands, StandsNow, Upheld
<1>7. Issuable' /\ SettingUp' /\ Changing' /\ CookiesStand'
  BY <1>3, <1>4, <1>5, <1>6 DEF Issuable, SettingUp, Changing, CookiesStand
<1>8. QED
  BY <1>2, <1>7

\* A client that works stays on the clock and among the accounts.
LEMMA Standing ==
  ASSUME SessionInv
  PROVE  /\ now \in 0 .. MaxTime /\ now >= now /\ 0 \in 0 .. MaxVersion
         /\ UNCHANGED accounts => Grows
<1>1. now \in 0 .. MaxTime /\ now \in Nat /\ 0 \in 0 .. MaxVersion
  BY AccountsAssumption DEF SessionInv, AccountTypes
<1>2. UNCHANGED accounts => Grows
  BY DEF SessionInv, AccountTypes, Grows
<1>3. QED
  BY <1>1, <1>2

\* The handlers that only read the account.
LEMMA ReadingSteps ==
  ASSUME SessionInv, NEW b \in Browsers, UNCHANGED <<accounts, now>>,
         \/ \E n \in Names, p \in Passwords : SetupCounts(b, n, p) \/ Login(b, n, p)
         \/ \E p \in Passwords : ChangeReads(b, p)
  PROVE  SessionInv'
<1>1. Grows /\ now' \in 0 .. MaxTime /\ now' >= now /\ 0 \in 0 .. MaxVersion
  BY Standing
<1>2. AccountTypes
  BY DEF SessionInv
<1>3. ASSUME NEW n \in Names, NEW p \in Passwords, SetupCounts(b, n, p) PROVE SessionInv'
  <2> DEFINE w == [browser[b] EXCEPT !.at = "setup", !.name = n, !.version = 0, !.password = p]
  <2>1. browser' = [browser EXCEPT ![b] = w]
    BY <1>3 DEF SetupCounts, Works
  <2>2. w \in Work /\ w.at = "setup" /\ w.name = n /\ w.password = p /\ w.cookie = browser[b].cookie
    BY <1>1, <1>2, Fields DEF Work
  <2> HIDE DEF w
  <2>3. QED
    BY <1>1, <2>1, <2>2, OneMoves
<1>4. ASSUME NEW n \in Names, NEW p \in Passwords, Login(b, n, p) PROVE SessionInv'
  <2> DEFINE v == accounts[n].version
             w == [browser[b] EXCEPT !.at = "issue", !.name = n, !.version = v, !.password = p]
  <2>1. browser' = [browser EXCEPT ![b] = w] /\ n \in DOMAIN accounts /\ accounts[n].password = p
    BY <1>4 DEF Login, Works
  <2>2. v \in 0 .. MaxVersion /\ v <= v
    <3>1. v \in 0 .. MaxVersion
      BY <1>2, <2>1, Fields
    <3>2. QED
      BY <3>1, AccountsAssumption
  <2>3. /\ w \in Work /\ w.at = "issue" /\ w.name = n /\ w.version = v /\ w.password = p
        /\ w.cookie = browser[b].cookie
    BY <1>2, <2>2, Fields DEF Work
  <2> HIDE DEF w
  <2>4. StandsNow(w)
    BY <2>1, <2>2, <2>3 DEF StandsNow
  <2>5. QED
    BY <1>1, <2>1, <2>3, <2>4, OneMoves
<1>5. ASSUME NEW p \in Passwords, ChangeReads(b, p) PROVE SessionInv'
  <2> DEFINE n == browser[b].cookie.name
             v == accounts[n].version
             w == [browser[b] EXCEPT !.at = "change", !.name = n, !.version = v, !.password = p]
  <2>1. browser' = [browser EXCEPT ![b] = w] /\ n \in DOMAIN accounts
    BY <1>5 DEF ChangeReads, Works, Accepted
  <2>2. n \in Names /\ v \in 0 .. MaxVersion
    BY <1>2, <2>1, Fields
  <2>3. w \in Work /\ w.at = "change" /\ w.name = n /\ w.cookie = browser[b].cookie
    BY <1>2, <2>2, Fields DEF Work
  <2> HIDE DEF w
  <2>4. QED
    BY <1>1, <2>1, <2>3, OneMoves
<1>6. QED
  BY <1>3, <1>4, <1>5

\* The first account is created, unless its name is taken.
LEMMA SetupStep ==
  ASSUME SessionInv, NEW b \in Browsers, SetupCreates(b) PROVE SessionInv'
<1> DEFINE n == browser[b].name
           p == browser[b].password
           new == [password |-> p, version |-> 0]
<1>1. n \in Names /\ p \in Passwords /\ UNCHANGED now
  BY DEF SessionInv, SettingUp, SetupCreates
<1>2. AccountTypes /\ now' \in 0 .. MaxTime /\ now' >= now /\ 0 \in 0 .. MaxVersion
  BY <1>1, Standing DEF SessionInv
<1>3. CASE n \in DOMAIN accounts
  <2> DEFINE w == [browser[b] EXCEPT !.at = "none", !.name = "", !.version = 0, !.password = ""]
  <2>1. browser' = [browser EXCEPT ![b] = w] /\ UNCHANGED accounts
    BY <1>3 DEF SetupCreates, Works
  <2>2. w \in Work /\ w.at = "none" /\ w.cookie = browser[b].cookie
    BY <1>2, Fields DEF Work
  <2> HIDE DEF w
  <2>3. Grows
    BY <2>1, Standing
  <2>4. QED
    BY <1>2, <2>1, <2>2, <2>3, OneMoves
<1>4. CASE n \notin DOMAIN accounts
  <2> DEFINE w == [browser[b] EXCEPT !.at = "issue", !.name = n, !.version = 0, !.password = p]
  <2>1. /\ accounts' = [m \in DOMAIN accounts \cup {n} |-> IF m = n THEN new ELSE accounts[m]]
        /\ browser' = [browser EXCEPT ![b] = w]
    BY <1>4 DEF SetupCreates, Works
  <2>2. /\ w \in Work /\ w.at = "issue" /\ w.name = n /\ w.version = 0 /\ w.password = p
        /\ w.cookie = browser[b].cookie
    BY <1>1, <1>2, Fields DEF Work
  <2>3. new \in Account /\ new.password = p /\ new.version = 0 /\ 0 <= 0
    BY <1>1, <1>2 DEF Account
  <2> HIDE DEF w, new
  <2>4. Grows
    BY <1>1, <1>2, <1>4, <2>1, <2>3 DEF AccountTypes, Grows
  <2>5. n \in DOMAIN accounts' /\ accounts'[n] = new
    BY <2>1
  <2>6. StandsNow(w)
    BY <2>2, <2>3, <2>5 DEF StandsNow
  <2>7. QED
    BY <1>2, <2>1, <2>2, <2>4, <2>6, OneMoves
<1>5. QED
  BY <1>3, <1>4

\* A change of the password ends what stood for the one before.
LEMMA ChangeStep ==
  ASSUME SessionInv, NEW b \in Browsers, NEW p \in Passwords, ChangeWrites(b, p) PROVE SessionInv'
<1> DEFINE n == browser[b].name
           v == accounts[n].version + 1
           new == [password |-> p, version |-> v]
           w == [browser[b] EXCEPT !.at = "issue", !.name = n, !.version = v, !.password = p]
<1>1. n \in DOMAIN accounts /\ accounts[n].version < MaxVersion /\ UNCHANGED now
  BY DEF SessionInv, Changing, ChangeWrites
<1>2. AccountTypes /\ now' \in 0 .. MaxTime /\ now' >= now
  BY <1>1, Standing DEF SessionInv
<1>3. n \in Names /\ accounts[n].version \in 0 .. MaxVersion
  BY <1>1, <1>2, Fields
<1>4. v \in 0 .. MaxVersion /\ v > accounts[n].version /\ v <= v
  BY <1>1, <1>3, AccountsAssumption
<1>5. accounts' = [accounts EXCEPT ![n] = new] /\ browser' = [browser EXCEPT ![b] = w]
  <2>1. /\ accounts' = [accounts EXCEPT ![n] = Changed(@, p)]
        /\ Works(b, "issue", n, Changed(accounts[n], p).version, p)
    BY DEF ChangeWrites
  <2>2. Changed(accounts[n], p) = new /\ new.version = v
    BY DEF Changed
  <2>3. QED
    BY <2>1, <2>2 DEF Works
<1>6. new \in Account /\ new.password = p /\ new.version = v
  BY <1>4 DEF Account
<1>7. /\ w \in Work /\ w.at = "issue" /\ w.name = n /\ w.version = v /\ w.password = p
      /\ w.cookie = browser[b].cookie
  BY <1>2, <1>3, <1>4, Fields DEF Work
<1> HIDE DEF new, w, v
<1>8. DOMAIN accounts' = DOMAIN accounts /\ accounts'[n] = new
      /\ \A m \in DOMAIN accounts \ {n} : accounts'[m] = accounts[m]
  BY <1>1, <1>5
<1>9. Grows
  BY <1>2, <1>4, <1>6, <1>8 DEF AccountTypes, Grows
<1>10. StandsNow(w)
  BY <1>1, <1>4, <1>6, <1>7, <1>8 DEF StandsNow
<1>11. QED
  BY <1>2, <1>5, <1>7, <1>9, <1>10, OneMoves

\* A cookie is issued or given up.
LEMMA CookieSteps ==
  ASSUME SessionInv, NEW b \in Browsers, Issue(b) \/ Logout(b) PROVE SessionInv'
<1>1. UNCHANGED <<accounts, now>>
  BY DEF Issue, Logout
<1>2. AccountTypes /\ now' \in 0 .. MaxTime /\ now' >= now /\ Grows
  BY <1>1, Standing DEF SessionInv
<1>3. CASE Issue(b)
  <2> DEFINE k == CookieOf(browser[b])
             w == [NoWork EXCEPT !.cookie = k]
  <2>1. /\ k.name = browser[b].name /\ k.version = browser[b].version
        /\ k.password = browser[b].password /\ k.issued = now
    BY DEF CookieOf
  <2>2. k \in Cookie
    BY <1>1, <1>2, Fields DEF CookieOf, Cookie
  <2>3. w \in Work /\ w.at = "none" /\ w.cookie = k
    BY <2>2, CookieFields
  <2>4. browser' = [browser EXCEPT ![b] = w]
    BY <1>3 DEF Issue
  <2>5. Stands(browser[b]) /\ browser[b].version \in 0 .. MaxVersion
    BY <1>2, <1>3, Fields DEF Issue, SessionInv, Issuable
  <2>6. StandsNow(browser[b])
    BY <1>2, <2>5, StandsOn
  <2> HIDE DEF k, w
  <2>7. StandsNow(k) /\ k.issued <= now'
    BY <1>1, <1>2, <2>1, <2>6 DEF StandsNow
  <2>8. QED
    BY <1>2, <2>3, <2>4, <2>7, OneMoves
<1>4. CASE Logout(b)
  <2>1. browser' = [browser EXCEPT ![b] = NoWork]
    BY <1>4 DEF Logout
  <2>2. NoWork \in Work /\ NoWork.at = "none" /\ NoWork.cookie = NoCookie
    BY <1>2, Standing, NoCookieIsCookie DEF NoWork, Work
  <2>3. QED
    BY <1>2, <2>1, <2>2, OneMoves
<1>5. QED
  BY <1>3, <1>4

\* Sessions survive every step.
LEMMA SessionStep ==
  ASSUME SessionInv, [AccountsNext]_accountVars PROVE SessionInv'
<1>1. CASE UNCHANGED <<accounts, browser, now>>
  BY <1>1 DEF SessionInv, AccountTypes, Issuable, CookiesStand, SettingUp, Changing, Upheld, Stands, At
<1>2. CASE Minute
  <2>1. UNCHANGED <<accounts, browser>> /\ now' = now + 1 /\ now' \in 0 .. MaxTime /\ now \in Nat
    BY <1>2, AccountsAssumption DEF Minute, sessionVars, SessionInv, AccountTypes
  <2>2. ASSUME NEW b \in Browsers, browser[b].cookie # NoCookie PROVE browser[b].cookie.issued <= now'
    <3>1. browser[b].cookie \in Cookie /\ browser[b].cookie.issued <= now
      BY <2>2, Fields DEF SessionInv, CookiesStand, Upheld
    <3>2. browser[b].cookie.issued \in Nat
      BY <3>1, CookieTypes
    <3>3. QED
      BY <2>1, <3>1, <3>2
  <2>3. QED
    BY <2>1, <2>2 DEF SessionInv, AccountTypes, Issuable, CookiesStand, SettingUp, Changing, Upheld, Stands, At
<1>3. ASSUME NEW b \in Browsers, NEW p \in Passwords, ChangeWrites(b, p) PROVE SessionInv'
  BY <1>3, ChangeStep
<1>4. ASSUME NEW b \in Browsers, SetupCreates(b) \/ Issue(b) \/ Logout(b) PROVE SessionInv'
  BY <1>4, SetupStep, CookieSteps
<1>5. ASSUME NEW b \in Browsers,
             \/ \E n \in Names, p \in Passwords : SetupCounts(b, n, p) \/ Login(b, n, p)
             \/ \E p \in Passwords : ChangeReads(b, p)
      PROVE  SessionInv'
  <2>1. UNCHANGED <<accounts, now>>
    BY <1>5 DEF SetupCounts, Works, Login, ChangeReads
  <2>2. QED
    BY <1>5, <2>1, ReadingSteps
<1>6. ASSUME NEW b \in Browsers,
             \/ \E patch \in Patches, failed \in BOOLEAN : UpdateReads(b, patch, failed)
             \/ UpdateWrites(b) \/ UpdateCaches(b)
      PROVE  UNCHANGED <<accounts, browser, now>>
  BY <1>6 DEF UpdateReads, UpdateWrites, UpdateCaches, sessionVars
<1>7. QED
  BY <1>1, <1>2, <1>3, <1>4, <1>5, <1>6 DEF AccountsNext, accountVars

------------------------------------------------------------------------------
SettingInv == SettingTypes /\ OneUpdate /\ CacheFollows

\* The fields of an update that moves on.
LEMMA Updates ==
  ASSUME SettingTypes, NEW b \in Browsers
  PROVE  /\ update[b].patch \in Patches /\ update[b].read \in Patches
         /\ \A u \in Updating : /\ [update EXCEPT ![b] = u] \in [Browsers -> Updating]
                                /\ [update EXCEPT ![b] = u][b] = u
                                /\ \A o \in Browsers \ {b} : [update EXCEPT ![b] = u][o] = update[o]
  BY DEF SettingTypes, Updating

\* An update reads the row.
LEMMA ReadsStep ==
  ASSUME SettingInv, NEW b \in Browsers, NEW patch \in Patches, NEW failed \in BOOLEAN,
         UpdateReads(b, patch, failed)
  PROVE  SettingInv'
<1> DEFINE u == [at |-> "read", patch |-> patch, read |-> IF failed THEN Unstored ELSE stored]
<1>1. SettingTypes
  BY DEF SettingInv
<1>2. update' = [update EXCEPT ![b] = u] /\ update[b].at = "none"
      /\ UNCHANGED <<stored, cache, wanted>>
  BY DEF UpdateReads
<1>3. u \in Updating /\ u.at = "read" /\ (failed \/ u.read = stored)
  BY <1>1, Rows DEF Updating, SettingTypes
<1>4. mixed' = (mixed \/ failed \/ \E o \in Browsers : update[o].at # "none")
  BY DEF UpdateReads
<1> HIDE DEF u
<1>5. update' \in [Browsers -> Updating] /\ update'[b] = u
      /\ \A o \in Browsers \ {b} : update'[o] = update[o]
  BY <1>1, <1>2, <1>3, Updates
<1>6. SettingTypes'
  <2>1. patches' \in 0 .. MaxPatches
    BY <1>1, AccountsAssumption DEF SettingTypes, UpdateReads
  <2>2. mixed' \in BOOLEAN
    BY <1>4
  <2>3. QED
    BY <1>1, <1>2, <1>5, <2>1, <2>2 DEF SettingTypes
<1>7. ~mixed' => ~mixed /\ ~failed /\ \A o \in Browsers : update[o].at = "none"
  BY <1>4
<1>8. OneUpdate'
  BY <1>2, <1>3, <1>5, <1>7 DEF OneUpdate
<1>9. CacheFollows'
  <2>1. ~mixed' => stored = wanted /\ cache = Merged(stored)
    BY <1>7 DEF SettingInv, CacheFollows
  <2>2. QED
    BY <1>2, <2>1 DEF CacheFollows
<1>10. QED
  BY <1>6, <1>8, <1>9 DEF SettingInv

\* An update writes the row it has read with its patch.
LEMMA WritesStep ==
  ASSUME SettingInv, NEW b \in Browsers, UpdateWrites(b) PROVE SettingInv'
<1> DEFINE row == Patched(update[b].read, update[b].patch)
           u == [[update[b] EXCEPT !.at = "written"] EXCEPT !.read = row]
<1>1. SettingTypes
  BY DEF SettingInv
<1>2. update[b].at = "read" /\ stored' = row /\ wanted' = Patched(wanted, update[b].patch)
      /\ UNCHANGED <<cache, mixed, patches>>
  BY DEF UpdateWrites
<1>3. row \in Patches /\ Patched(wanted, update[b].patch) \in Patches
  BY <1>1, Updates, Rows DEF SettingTypes
<1>4. update' = [update EXCEPT ![b] = u]
  <2>1. update' = [update EXCEPT ![b].at = "written", ![b].read = row]
    BY <1>2 DEF UpdateWrites
  <2> HIDE DEF row
  <2>2. QED
    BY <1>1, <2>1 DEF SettingTypes
<1>5. u \in Updating /\ u.at = "written" /\ u.read = row
  <2>1. update[b] \in Updating
    BY <1>1 DEF SettingTypes
  <2> HIDE DEF row
  <2>2. QED
    BY <1>3, <2>1 DEF Updating
<1> HIDE DEF u, row
<1>6. update' \in [Browsers -> Updating] /\ update'[b] = u
      /\ \A o \in Browsers \ {b} : update'[o] = update[o]
  BY <1>1, <1>4, <1>5, Updates
<1>7. SettingTypes'
  BY <1>1, <1>2, <1>3, <1>6 DEF SettingTypes
<1>8. ~mixed => update[b].read = stored /\ stored = wanted /\ \A o \in Browsers \ {b} : update[o].at = "none"
  BY <1>2 DEF SettingInv, OneUpdate, CacheFollows
<1>9. OneUpdate'
  BY <1>2, <1>5, <1>6, <1>8 DEF OneUpdate
<1>10. CacheFollows'
  <2>1. ~mixed => stored' = wanted'
    BY <1>2, <1>8 DEF row
  <2>2. update'[b].at = "written"
    BY <1>5, <1>6
  <2>3. QED
    BY <1>2, <2>1, <2>2 DEF CacheFollows
<1>11. QED
  BY <1>7, <1>9, <1>10 DEF SettingInv

\* The process works with what was written.
LEMMA CachesStep ==
  ASSUME SettingInv, NEW b \in Browsers, UpdateCaches(b) PROVE SettingInv'
<1>1. SettingTypes
  BY DEF SettingInv
<1>2. /\ update[b].at = "written" /\ cache' = Merged(update[b].read)
      /\ update' = [update EXCEPT ![b] = NoUpdate]
      /\ UNCHANGED <<stored, wanted, mixed, patches>>
  BY DEF UpdateCaches
<1>3. NoUpdate \in Updating /\ NoUpdate.at = "none"
  BY Rows DEF NoUpdate, Updating
<1>4. update' \in [Browsers -> Updating] /\ update'[b] = NoUpdate
      /\ \A o \in Browsers \ {b} : update'[o] = update[o]
  BY <1>1, <1>2, <1>3, Updates
<1>5. SettingTypes'
  BY <1>1, <1>2, <1>4, Updates, Rows DEF SettingTypes
<1>6. ~mixed => update[b].read = stored /\ stored = wanted /\ \A o \in Browsers \ {b} : update[o].at = "none"
  BY <1>2 DEF SettingInv, OneUpdate, CacheFollows
<1>7. OneUpdate'
  BY <1>2, <1>3, <1>4, <1>6 DEF OneUpdate
<1>8. CacheFollows'
  <2>1. Merged(stored)' = Merged(stored)
    BY <1>2 DEF Merged
  <2>2. QED
    BY <1>2, <1>6, <2>1 DEF CacheFollows
<1>9. QED
  BY <1>5, <1>7, <1>8 DEF SettingInv

\* The settings survive every step.
LEMMA SettingStep ==
  ASSUME SettingInv, [AccountsNext]_accountVars PROVE SettingInv'
<1>1. CASE UNCHANGED settingVars
  <2>1. Merged(stored)' = Merged(stored)
    BY <1>1 DEF settingVars, Merged
  <2>2. QED
    BY <1>1, <2>1 DEF settingVars, SettingInv, SettingTypes, OneUpdate, CacheFollows
<1>2. ASSUME NEW b \in Browsers, NEW patch \in Patches, NEW failed \in BOOLEAN,
             UpdateReads(b, patch, failed)
      PROVE  SettingInv'
  BY <1>2, ReadsStep
<1>3. ASSUME NEW b \in Browsers, UpdateWrites(b) \/ UpdateCaches(b) PROVE SettingInv'
  BY <1>3, WritesStep, CachesStep
<1>4. ASSUME NEW b \in Browsers,
             \/ \E n \in Names, p \in Passwords : SetupCounts(b, n, p) \/ Login(b, n, p)
             \/ \E p \in Passwords : ChangeReads(b, p) \/ ChangeWrites(b, p)
             \/ SetupCreates(b) \/ Issue(b) \/ Logout(b)
      PROVE  UNCHANGED settingVars
  BY <1>4 DEF SetupCounts, Login, ChangeReads, ChangeWrites, SetupCreates, Issue, Logout
<1>5. CASE Minute
  BY <1>1, <1>5 DEF Minute
<1>6. CASE UNCHANGED accountVars
  BY <1>1, <1>6 DEF accountVars, settingVars
<1>7. QED
  BY <1>1, <1>2, <1>3, <1>4, <1>5, <1>6 DEF AccountsNext
------------------------------------------------------------------------------
\* In the beginning nobody has a cookie, and nothing is patched.
LEMMA AccountsInvInit ==
  ASSUME AccountsInit PROVE AccountsInv
<1>1. NoWork \in Work /\ NoWork.at = "none" /\ NoWork.cookie = NoCookie
  <2>1. 0 \in 0 .. MaxVersion
    BY AccountsAssumption
  <2>2. QED
    BY <2>1, NoCookieIsCookie DEF NoWork, Work
<1>2. browser \in [Browsers -> Work] /\ \A b \in Browsers : browser[b] = NoWork
  BY <1>1 DEF AccountsInit
<1>3. DOMAIN accounts = {} /\ now \in 0 .. MaxTime
  BY AccountsAssumption DEF AccountsInit
<1>4. AccountTypes /\ Issuable /\ CookiesStand /\ SettingUp /\ Changing
  BY <1>1, <1>2, <1>3 DEF AccountTypes, Issuable, CookiesStand, SettingUp, Changing, At
<1>5. stored \in Patches
  <2>1. Unstored \in Patches
    BY Rows
  <2>2. ASSUME NEW v \in Values PROVE [Unstored EXCEPT !["ttl"] = v] \in Patches
    BY <2>2, <2>1, AccountsAssumption DEF Patches
  <2>3. QED
    BY <2>1, <2>2 DEF AccountsInit
<1>6. NoUpdate \in Updating /\ NoUpdate.at = "none"
  BY Rows DEF NoUpdate, Updating
<1>7. update \in [Browsers -> Updating] /\ \A b \in Browsers : update[b] = NoUpdate
  BY <1>6 DEF AccountsInit
<1>8. PICK failed \in BOOLEAN : cache = Merged(IF failed THEN Unstored ELSE stored) /\ mixed = failed
  BY DEF AccountsInit
<1>9. cache \in [Settings -> Values] /\ mixed \in BOOLEAN /\ (~mixed => cache = Merged(stored))
  <2>1. (IF failed THEN Unstored ELSE stored) \in Patches
    BY <1>5, Rows
  <2>2. QED
    BY <1>8, <2>1, Rows
<1>10. wanted = stored /\ patches \in 0 .. MaxPatches
  BY AccountsAssumption DEF AccountsInit
<1>11. SettingTypes /\ OneUpdate /\ CacheFollows
  BY <1>5, <1>6, <1>7, <1>9, <1>10 DEF SettingTypes, OneUpdate, CacheFollows
<1>12. QED
  BY <1>4, <1>11 DEF AccountsInv

\* What is promised follows.
LEMMA AccountsInvSuffices ==
  ASSUME AccountsInv PROVE AccountsSafe
<1>1. AccountsTypeOK
  <2>1. AccountTypes /\ SettingTypes
    BY DEF AccountsInv
  <2>2. ASSUME NEW b \in Browsers
        PROVE  /\ browser[b].at \in {"none", "setup", "issue", "change"}
               /\ browser[b].cookie # NoCookie =>
                    /\ browser[b].cookie.name \in DOMAIN accounts
                    /\ browser[b].cookie.version <= accounts[browser[b].cookie.name].version
                    /\ browser[b].cookie.issued <= now
    <3>1. browser[b].at \in {"none", "setup", "issue", "change"}
      BY <2>1, Fields DEF Work
    <3>2. QED
      BY <3>1 DEF AccountsInv, CookiesStand, Upheld, Stands
  <2>3. QED
    BY <2>1, <2>2 DEF AccountsTypeOK, AccountTypes, Account, SettingTypes, Patches
<1>2. SessionProvesPassword
  BY DEF AccountsInv, CookiesStand, Upheld, Stands, SessionProvesPassword, Accepted
<1>3. SettingsKept
  BY DEF AccountsInv, CacheFollows, SettingsKept
<1>4. QED
  BY <1>1, <1>2, <1>3 DEF AccountsSafe

\* However logins, changes of the password, cookies and updates of the settings overlap: a
\* session that is accepted proves the password of today, and without overlapping updates
\* the settings are what was patched (auth.service.ts, settings-store.service.ts).
THEOREM AccountsKept == AccountsSpec => []AccountsSafe
<1>1. AccountsInit => AccountsInv
  BY AccountsInvInit
<1>2. AccountsInv /\ [AccountsNext]_accountVars => AccountsInv'
  BY SessionStep, SettingStep DEF AccountsInv, SessionInv, SettingInv
<1>3. AccountsInv => AccountsSafe
  BY AccountsInvSuffices
<1>4. QED
  BY <1>1, <1>2, <1>3, PTL DEF AccountsSpec
==============================================================================
