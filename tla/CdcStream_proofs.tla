-------------------------- MODULE CdcStream_proofs --------------------------
(***************************************************************************)
(* Proofs about CdcStream: what a change stream goes on from leaves nothing*)
(* behind.  CdcInv says of every position reading may go on from later      *)
(* (a run's cursor, a request's copy of it, a stream's watermark, a loop's *)
(* next event, the position a reconnect goes back to, the slot) that all   *)
(* before it is excused; the rest of it says which loop may hand what to   *)
(* which chain, without which a loop that was told to stop could move a    *)
(* cursor past a change that its stream had dropped.                       *)
(***************************************************************************)
EXTENDS CdcStream, FiniteSetTheorems, SequenceTheorems, WellFoundedInduction, TLAPS

(***************************************************************************)
(* What the theorems assume.  The cursors of the engine tell rows apart    *)
(* (MySQL resumes behind a whole event), the log lies in the WAL in the    *)
(* order of its commits, and one start or edit is under way at a time.     *)
(***************************************************************************)
Orderly ==
  /\ "mysql" \notin Engines
  /\ ~SharedLsn
  /\ \A p, q \in DOMAIN Rows : p < q => Lsn[p] < Lsn[q]
  /\ MaxStarts <= 1
  /\ IsFiniteSet(Callers)

Places == (DOMAIN Rows) \X Nat
Resume == {None} \union Places

\* What a restart that goes on from a cursor, or a loop at a position, leaves behind
\* is excused.
Accounted(E, w) == \A d \in Changes : d = w \/ Precedes(d, w) => d \in E
Reached(E, p)   == \A d \in Changes : Precedes(d, p) => d \in E
Logs(E, n)      == \A d \in Changes : d[1] <= n => d \in E

Steps == {"idle", "provision", "run", "check", "register", "open", "opened",
          "find", "pause", "restart", "deprovision", "delete"}
StartSteps == {"provision", "run", "check", "register", "open", "opened", "restart"}

RunRecord == [status : {"running", "paused", "failed"}, offset : Nat, cursor : Resume]
StreamRecord == [run : Nat, seq : Nat, watermark : Resume, chain : Seq(Readers \X Places),
                 step : {"idle", "record", "save", "failed"}, handle : BOOLEAN, pos : Resume]
ReaderRecord == [of : {0} \union Streams, mode : {"free", "reading", "draining"},
                 at : (Nat \ {0}) \X Nat, out : SUBSET Places]
CallRecord == [step : Steps, op : {"", "start", "stop", "edit", "remove"}, run : Nat,
               offset : Nat, cursor : Resume, stream : {0} \union Streams]

Types ==
  /\ tip \in 0 .. Len(Rows)
  /\ slot \in Nat \union {-1}
  /\ runs \in Seq(RunRecord) /\ Len(runs) <= 1
  /\ live \in {0} \union Streams
  /\ stream \in [Streams -> StreamRecord]
  /\ reader \in [Readers -> ReaderRecord]
  /\ call \in [Actors -> CallRecord]
  /\ missed \in [tip : SUBSET Changes, event : SUBSET Changes]

\* One start, edit or boot is under way at a time.
Starter(c) == call[c].op \in {"start", "edit"} \/ (c = "boot" /\ call[c].step # "idle")
OneStarter ==
  /\ \A c \in Actors : call[c].step \in StartSteps => Starter(c)
  /\ \A b, c \in Actors : Starter(b) /\ Starter(c) => b = c
  /\ call["boot"].op = ""
  /\ proc = "down" => \A c \in Actors : call[c] = Idle

\* It has found no live stream, and the one it registers is live, if any is, until it
\* has been opened.
StartsAlone ==
  \A c \in Actors :
    /\ call[c].step \in {"check", "register"} => call[c].run # 0
    /\ call[c].step = "register" => live = 0
    /\ call[c].step \in {"open", "opened"} =>
         /\ call[c].stream \in Streams /\ live \in {0, call[c].stream}
         /\ ~stream[call[c].stream].handle /\ stream[call[c].stream].run # 0
    /\ call[c].step = "open" =>
         \A r \in Readers : reader[r].mode # "free" => reader[r].of # call[c].stream

\* A loop that reads on does so for the live stream, or for one being opened.
ReadersBelong ==
  \A r \in Readers : reader[r].mode # "free" =>
    /\ reader[r].of \in Streams /\ stream[reader[r].of].run # 0
    /\ reader[r].mode = "reading" =>
         \/ reader[r].of = live /\ stream[live].handle
         \/ \E c \in Actors : call[c].step = "opened" /\ call[c].stream = reader[r].of

\* A change that waits in a chain is the one its loop waits for, and that loop reads on
\* only if the chain is the live stream's; a loop has one in all chains.
Waits(s, e) ==
  /\ reader[e[1]].mode # "free"
  /\ reader[e[1]].at = e[2] /\ reader[e[1]].out = {e[2]}
  /\ reader[e[1]].mode = "reading" => live = s
EntriesWait == \A s \in Streams : \A i \in DOMAIN stream[s].chain : Waits(s, stream[s].chain[i])
EntriesApart ==
  \A s, t \in Streams : \A i \in DOMAIN stream[s].chain, j \in DOMAIN stream[t].chain :
    stream[s].chain[i][1] = stream[t].chain[j][1] => s = t /\ i = j
HeadsWork ==
  \A s \in Streams :
    /\ stream[s].step # "idle" => stream[s].chain # <<>>
    /\ stream[s].step = "save" => stream[s].chain[1][2] \in traced
ChainsBelong == EntriesWait /\ EntriesApart /\ HeadsWork

\* MongoDB reads with one cursor at a time, and reconnects to what was handled.
Tailing(r) ==
  /\ Accounted(Excused, stream[reader[r].of].pos)
  /\ \A q \in Readers : reader[q].mode # "free" /\ reader[q].of = reader[r].of => q = r
OneTail == engine = "mongodb" => \A r \in Readers : reader[r].mode = "reading" => Tailing(r)

\* Whatever reading goes on from leaves nothing behind.
CursorsHold ==
  /\ \A n \in DOMAIN runs : Accounted(Excused, runs[n].cursor)
  /\ \A c \in Actors : Accounted(Excused, call[c].cursor)
  /\ \A s \in Streams : Accounted(Excused, stream[s].watermark)
  /\ \A r \in Readers : reader[r].mode # "free" => Reached(Excused, reader[r].at)
  /\ Logs(Excused, slot)

Logged == engine \in {"postgres", "mongodb"}
SlotIsPostgres == engine # "postgres" => slot = -1
LoggedInv == Types /\ OneStarter /\ StartsAlone /\ ReadersBelong /\ ChainsBelong /\ OneTail /\ CursorsHold
CdcInv == engine \in Engines /\ SlotIsPostgres /\ (Logged => LoggedInv)
------------------------------------------------------------------------------
(***************************************************************************)
(* Places in the log.                                                      *)
(***************************************************************************)

\* A captured row is a place in the log.
LEMMA ChangeOK ==
  ASSUME NEW d \in Changes
  PROVE  d \in Places /\ d[1] \in Nat \ {0} /\ d[2] \in Nat \ {0} /\ d[2] <= Rows[d[1]]
<1> DEFINE n == Max({0} \union {Rows[p] : p \in DOMAIN Rows})
<1>1. d \in (DOMAIN Rows) \X (1 .. n) /\ d[2] <= Rows[d[1]]
  BY DEF Changes
<1> HIDE DEF n
<1>2. d[2] \in Nat \ {0} /\ d[1] \in DOMAIN Rows /\ d = <<d[1], d[2]>>
  BY <1>1
<1>3. DOMAIN Rows \subseteq Nat \ {0}
  BY CdcConstants
<1> QED BY <1>1, <1>2, <1>3 DEF Places

\* A place names an event of the log.
LEMMA PlaceOK ==
  ASSUME NEW c \in Places
  PROVE  /\ c[1] \in DOMAIN Rows /\ c[1] \in Nat \ {0} /\ c[2] \in Nat
         /\ c = <<c[1], c[2]>> /\ Rows[c[1]] \in Nat /\ c # None
BY CdcConstants DEF Places, None

\* What is excused stays excused.
LEMMA AccountedGrows ==
  ASSUME NEW E, NEW F, E \subseteq F
  PROVE  /\ \A w : Accounted(E, w) => Accounted(F, w)
         /\ \A p : Reached(E, p) => Reached(F, p)
         /\ \A n : Logs(E, n) => Logs(F, n)
BY DEF Accounted, Reached, Logs

\* A run without a cursor has nothing behind it.
LEMMA AccountedNone ==
  ASSUME NEW E
  PROVE  Accounted(E, None)
<1> SUFFICES ASSUME NEW d \in Changes PROVE d # None /\ ~Precedes(d, None)
  BY DEF Accounted
<1> QED BY ChangeOK DEF Precedes, None

\* A loop that goes on after what was handled.
LEMMA ReachedAfter ==
  ASSUME NEW E, NEW c \in Places, Accounted(E, c)
  PROVE  Reached(E, After(c)) /\ After(c) \in (Nat \ {0}) \X Nat
<1>1. ASSUME NEW d \in Changes, Precedes(d, After(c)) PROVE d = c \/ Precedes(d, c)
  <2>1. d[1] \in Nat /\ d[2] \in Nat \ {0} /\ d[2] <= Rows[d[1]] /\ d = <<d[1], d[2]>>
    BY ChangeOK, PlaceOK
  <2>2. c[1] \in Nat /\ c[2] \in Nat /\ c = <<c[1], c[2]>> /\ Rows[c[1]] \in Nat
    BY PlaceOK
  <2> QED BY <1>1, <2>1, <2>2 DEF After, Start, Precedes
<1>2. After(c) \in (Nat \ {0}) \X Nat
  BY PlaceOK DEF After, Start
<1> QED BY <1>1, <1>2 DEF Accounted, Reached

\* One that starts behind an event.
LEMMA ReachedStart ==
  ASSUME NEW E, NEW n \in Int, Logs(E, n)
  PROVE  Reached(E, Start(n + 1))
<1> SUFFICES ASSUME NEW d \in Changes, Precedes(d, Start(n + 1)) PROVE d[1] <= n
  BY DEF Logs, Reached
<1> QED BY ChangeOK DEF Start, Precedes

\* A loop at an event has handled those before it: what Acknowledge confirms.
LEMMA LogsReached ==
  ASSUME NEW E, NEW p \in (Nat \ {0}) \X Nat, Reached(E, p)
  PROVE  Logs(E, p[1] - 1)
BY ChangeOK DEF Reached, Logs, Precedes

\* One that passes over an event without rows of the hook.
LEMMA ReachedOver ==
  ASSUME NEW E, NEW p \in (Nat \ {0}) \X Nat, Reached(E, p), Rows[p[1]] = 0
  PROVE  Reached(E, Start(p[1] + 1)) /\ Start(p[1] + 1) \in (Nat \ {0}) \X Nat
<1>1. ASSUME NEW d \in Changes, Precedes(d, Start(p[1] + 1)) PROVE Precedes(d, p)
  BY <1>1, ChangeOK DEF Start, Precedes
<1> QED BY <1>1 DEF Reached, Start

\* The next change, once it has its entry.
LEMMA AccountedNext ==
  ASSUME NEW E, NEW c, Reached(E, c), c \in E
  PROVE  Accounted(E, c)
BY DEF Accounted, Reached

\* What the watermark takes for a repeat lies at or before it.
LEMMA RepeatAccounted ==
  ASSUME Orderly, Logged, NEW E, NEW c \in Places, NEW w \in Resume,
         Reached(E, c), Accounted(E, w), ~CursorAfter(c, w)
  PROVE  Accounted(E, c)
<1>1. engine = "postgres" /\ w \in Places /\ ~LsnAfter(c, w)
  BY DEF CursorAfter, Logged, Resume
<1>2. /\ c[1] \in DOMAIN Rows /\ w[1] \in DOMAIN Rows /\ c[1] \in Nat /\ w[1] \in Nat
      /\ c[2] \in Nat /\ w[2] \in Nat /\ c = <<c[1], c[2]>> /\ w = <<w[1], w[2]>>
  BY <1>1, PlaceOK
<1>3. Lsn[c[1]] \in Nat /\ Lsn[w[1]] \in Nat
  BY <1>2, CdcConstants
<1>4. c[1] < w[1] \/ (c[1] = w[1] /\ c[2] <= w[2])
  <2>1. w[1] < c[1] => Lsn[w[1]] < Lsn[c[1]]
    BY <1>2 DEF Orderly
  <2> QED BY <1>1, <1>2, <1>3, <2>1 DEF LsnAfter, Orderly
<1>5. c = w \/ Precedes(c, w)
  BY <1>2, <1>4 DEF Precedes
<1>6. c \in Changes => c \in E
  BY <1>5 DEF Accounted
<1> QED BY <1>6 DEF Accounted, Reached
------------------------------------------------------------------------------
(***************************************************************************)
(* Steps of the requests that leave stream and loops alone.                *)
(***************************************************************************)

\* The locals of who is idle.
LEMMA IdleOK == Idle \in CallRecord /\ Idle.step = "idle" /\ Idle.op = "" /\ Idle.cursor = None
BY DEF Idle, CallRecord, Steps, Resume

\* While a stream is being opened only its provider's promise goes on.
LEMMA NothingOpens ==
  ASSUME Logged, Settled, NEW c \in Actors
  PROVE  call[c].step # "opened"
BY DEF Logged, Settled

\* The part of the invariant about loops and chains, when they do not move.
LEMMA ListenersStay ==
  ASSUME LoggedInv, UNCHANGED <<engine, live, stream, reader>>,
         Excused \subseteq Excused', traced \subseteq traced',
         \A c \in Actors : call[c].step = "opened" => call'[c] = call[c]
  PROVE  ReadersBelong' /\ ChainsBelong' /\ OneTail'
<1>1. ReadersBelong'
  BY DEF LoggedInv, ReadersBelong
<1>2. ChainsBelong'
  BY DEF LoggedInv, ChainsBelong, EntriesWait, EntriesApart, HeadsWork, Waits
<1>3. OneTail'
  BY AccountedGrows DEF LoggedInv, OneTail, Tailing
<1> QED BY <1>1, <1>2, <1>3

\* The first call of a request, and each later one.
LEMMA StarterAsks ==
  ASSUME Orderly, LoggedInv, NEW c, NEW op, NEW step \in Steps, Ask(c, op, step),
         op \in {"start", "stop", "edit", "remove"},
         op \in {"start", "edit"} => Starting < MaxStarts,
         step \in StartSteps => op \in {"start", "edit"},
         proc' = proc
  PROVE  OneStarter' /\ c \in Actors /\ c # "boot" /\ call[c].step = "idle" /\ Settled
         /\ call' = [call EXCEPT ![c] = [Idle EXCEPT !.step = step, !.op = op]]
<1>1. /\ c \in Callers /\ c # "boot" /\ c \in Actors /\ call[c].step = "idle" /\ Settled
      /\ call["boot"].step = "idle" /\ proc = "up"
      /\ call' = [call EXCEPT ![c] = [Idle EXCEPT !.step = step, !.op = op]]
  BY CdcConstants DEF Ask, Resumes, Actors
<1>2. op \in {"start", "edit"} => \A b \in Actors : ~Starter(b)
  <2> DEFINE S == {b \in Callers : call[b].op \in {"start", "edit"}}
  <2>1. IsFiniteSet(S)
    BY FS_Subset DEF Orderly
  <2>2. Cardinality(S) \in Nat /\ (Cardinality(S) = 0 <=> S = {})
    BY <2>1, FS_CardinalityType, FS_EmptySet
  <2>3. Starting < MaxStarts => Cardinality(S) = 0
    BY <2>2, CdcConstants DEF Starting, Orderly
  <2>4. Starting < MaxStarts => \A b \in Callers : ~Starter(b)
    BY <2>2, <2>3, CdcConstants DEF Starter
  <2>5. ~Starter("boot")
    BY <1>1 DEF LoggedInv, OneStarter, Starter
  <2> QED BY <2>4, <2>5 DEF Actors
<1>3. /\ call'[c] = [Idle EXCEPT !.step = step, !.op = op]
      /\ \A b \in Actors \ {c} : call'[b] = call[b]
  BY <1>1 DEF LoggedInv, Types
<1>4. call'[c].step = step /\ call'[c].op = op
  BY <1>3 DEF Idle
<1>5. OneStarter'
  <2>1. \A b \in Actors \ {c} : Starter(b)' <=> Starter(b)
    BY <1>3 DEF Starter
  <2>2. Starter(c)' => op \in {"start", "edit"}
    BY <1>1, <1>4 DEF Starter
  <2>3. \A a, b \in Actors : Starter(a)' /\ Starter(b)' => a = b
    BY <1>2, <2>1, <2>2 DEF LoggedInv, OneStarter
  <2>4. \A b \in Actors : call'[b].step \in StartSteps => Starter(b)'
    <3>1. \A b \in Actors \ {c} : call'[b].step \in StartSteps => Starter(b)'
      BY <1>3, <2>1 DEF LoggedInv, OneStarter
    <3>2. step \in StartSteps => Starter(c)'
      BY <1>4 DEF Starter
    <3> QED BY <1>4, <3>1, <3>2
  <2>5. call'["boot"].op = "" /\ proc' = "up"
    BY <1>1, <1>3 DEF LoggedInv, OneStarter, Actors
  <2> QED BY <2>3, <2>4, <2>5 DEF OneStarter
<1> QED BY <1>1, <1>5

\* A request that moves on is still the one start under way, or no start.
LEMMA StarterMoves ==
  ASSUME LoggedInv, NEW c \in Actors, NEW X \in CallRecord, call' = [call EXCEPT ![c] = X],
         proc' = proc, call[c].step # "idle", X.op \in {"", call[c].op},
         X.step \in StartSteps => /\ X.op = call[c].op
                                  /\ call[c].step \in StartSteps \/ X.op = "edit"
  PROVE  OneStarter'
<1>1. call'[c] = X /\ \A b \in Actors \ {c} : call'[b] = call[b]
  BY DEF LoggedInv, Types
<1>2. proc # "down"
  BY IdleOK DEF LoggedInv, OneStarter
<1>3. call[c].step \in StartSteps => Starter(c)
  BY DEF LoggedInv, OneStarter
<1>4. \A b \in Actors : Starter(b)' => Starter(b)
  BY <1>1 DEF Starter
<1>5. \A b \in Actors : call'[b].step \in StartSteps => Starter(b)'
  <2>1. \A b \in Actors \ {c} : call'[b].step \in StartSteps => Starter(b)'
    BY <1>1 DEF LoggedInv, OneStarter, Starter
  <2>2. X.step \in StartSteps => Starter(c)'
    BY <1>1, <1>3 DEF Starter, StartSteps
  <2> QED BY <1>1, <2>1, <2>2
<1>6. call'["boot"].op = ""
  BY <1>1 DEF LoggedInv, OneStarter, Actors
<1> QED BY <1>2, <1>4, <1>5, <1>6 DEF LoggedInv, OneStarter

\* The hook has one run at most.
LEMMA OnlyRun ==
  ASSUME Types, NEW S, S \subseteq DOMAIN runs, S # {}
  PROVE  Max(S) = 1 /\ 1 \in DOMAIN runs /\ 1 \in S
<1>1. DOMAIN runs \subseteq {1}
  BY DEF Types
<1>2. S = {1}
  BY <1>1
<1> QED BY <1>1, <1>2 DEF Max

\* finalize, and stop, change a status.
LEMMA FinalizeOK ==
  ASSUME LoggedInv, NEW n, NEW status \in {"paused", "failed"}, Finalize(n, status) \/ UNCHANGED runs
  PROVE  /\ runs' \in Seq(RunRecord) /\ Len(runs') <= 1 /\ DOMAIN runs' = DOMAIN runs
         /\ \A m \in DOMAIN runs : runs'[m].cursor = runs[m].cursor
<1>0. runs \in Seq(RunRecord) /\ Len(runs) <= 1
  BY DEF LoggedInv, Types
<1>1. CASE runs' = runs
  BY <1>0, <1>1
<1>2. CASE n \in DOMAIN runs /\ runs' = [runs EXCEPT ![n].status = status]
  <2>1. /\ [runs[n] EXCEPT !.status = status] \in RunRecord
        /\ [runs[n] EXCEPT !.status = status].cursor = runs[n].cursor
    <3>1. runs[n] \in RunRecord
      BY <1>0, <1>2
    <3> QED BY <3>1 DEF RunRecord
  <2>2. runs' = [runs EXCEPT ![n] = [runs[n] EXCEPT !.status = status]]
    BY <1>2
  <2>3. runs' \in Seq(RunRecord) /\ Len(runs') = Len(runs) /\ DOMAIN runs' = DOMAIN runs
    BY <1>0, <1>2, <2>1, <2>2
  <2> QED BY <1>0, <1>2, <2>1, <2>2, <2>3
<1> QED BY <1>1, <1>2 DEF Finalize

\* What a request that moves on leaves as it was, as long as it neither registers nor
\* opens a stream.
LEMMA RequestFrame ==
  ASSUME LoggedInv, NEW c \in Actors, NEW X \in CallRecord,
         call' = [call EXCEPT ![c] = X], \A b \in Actors : call[b].step # "opened",
         UNCHANGED <<engine, live, stream, reader, traced>>, tip' \in 0 .. Len(Rows),
         OneStarter',
         missed' \in [tip : SUBSET Changes, event : SUBSET Changes],
         Excused \subseteq Excused',
         slot' \in Nat \union {-1}, Logs(Excused', slot'),
         runs' \in Seq(RunRecord), Len(runs') <= 1,
         \A n \in DOMAIN runs' : Accounted(Excused', runs'[n].cursor),
         Accounted(Excused', X.cursor),
         X.step \notin {"open", "opened"},
         X.step \in {"check", "register"} => X.run # 0,
         X.step = "register" => live = 0
  PROVE  LoggedInv'
<1>1. call'[c] = X /\ \A b \in Actors \ {c} : call'[b] = call[b]
  BY DEF LoggedInv, Types
<1>2. Types'
  BY DEF LoggedInv, Types
<1>3. StartsAlone'
  <2>1. \A b \in Actors : call'[b].step \in {"open", "opened"} => b # c
    BY <1>1
  <2> QED BY <1>1, <2>1 DEF LoggedInv, StartsAlone
<1>4. ReadersBelong' /\ ChainsBelong' /\ OneTail'
  BY ListenersStay
<1>5. CursorsHold'
  <2>1. \A b \in Actors : Accounted(Excused', call'[b].cursor)
    BY <1>1, AccountedGrows DEF LoggedInv, CursorsHold
  <2>2. \A s \in Streams : Accounted(Excused', stream'[s].watermark)
    BY AccountedGrows DEF LoggedInv, CursorsHold
  <2>3. \A r \in Readers : reader'[r].mode # "free" => Reached(Excused', reader'[r].at)
    BY AccountedGrows DEF LoggedInv, CursorsHold
  <2> QED BY <2>1, <2>2, <2>3 DEF CursorsHold
<1> QED BY <1>2, <1>3, <1>4, <1>5 DEF LoggedInv

\* The slot is made where the log ends.
LEMMA ProvisionedOK ==
  ASSUME LoggedInv, Provisioned, UNCHANGED <<tip, traced>>
  PROVE  /\ missed' \in [tip : SUBSET Changes, event : SUBSET Changes]
         /\ Excused \subseteq Excused'
         /\ slot' \in Nat \union {-1} /\ Logs(Excused', slot')
<1>1. CASE slot' = tip /\ missed' = [missed EXCEPT !.tip = @ \union Blind]
  <2>1. Blind \subseteq Changes
    BY DEF Blind
  <2>2. /\ missed' \in [tip : SUBSET Changes, event : SUBSET Changes]
        /\ missed'.tip = missed.tip \union Blind /\ missed'.event = missed.event
    BY <1>1, <2>1 DEF LoggedInv, Types
  <2>3. Blind \subseteq Excused' /\ Excused \subseteq Excused'
    BY <2>2 DEF Excused
  <2>4. slot' \in Nat /\ Logs(Excused', slot')
    BY <1>1, <2>3, CdcConstants DEF LoggedInv, Types, Logs, Blind
  <2> QED BY <2>2, <2>3, <2>4
<1>2. CASE UNCHANGED <<slot, missed>>
  <2>1. Excused' = Excused
    BY <1>2 DEF Excused
  <2> QED BY <1>2, <2>1 DEF LoggedInv, Types, CursorsHold
<1> QED BY <1>1, <1>2 DEF Provisioned

\* The steps of a start, a stop, an edit and a removal that only touch the database.
LEMMA RequestSteps ==
  ASSUME Orderly, Logged, LoggedInv, NEW c \in Actors,
         \/ AskStart(c) \/ Provision(c) \/ UpdateRun(c) \/ CheckStream(c)
         \/ FindRun(c) \/ PauseRun(c) \/ Restart(c) \/ Deprovision(c) \/ DeleteHook(c)
  PROVE  LoggedInv'
<1>0. /\ call \in [Actors -> CallRecord] /\ runs \in Seq(RunRecord) /\ Len(runs) <= 1
      /\ missed \in [tip : SUBSET Changes, event : SUBSET Changes]
      /\ tip \in 0 .. Len(Rows) /\ slot \in Nat \union {-1} /\ Logs(Excused, slot)
      /\ \A n \in DOMAIN runs : Accounted(Excused, runs[n].cursor)
      /\ \A b \in Actors : Accounted(Excused, call[b].cursor)
  BY DEF LoggedInv, Types, CursorsHold
<1>b. Settled => \A b \in Actors : call[b].step # "opened"
  BY NothingOpens
<1>a. ASSUME UNCHANGED <<slot, traced, missed>>
      PROVE  Excused' = Excused /\ Logs(Excused', slot') /\ slot' \in Nat \union {-1}
             /\ missed' \in [tip : SUBSET Changes, event : SUBSET Changes]
  BY <1>0, <1>a DEF Excused
<1>1. CASE AskStart(c)
  <2> DEFINE X == [Idle EXCEPT !.step = "provision", !.op = "start"]
  <2>1. X \in CallRecord /\ X.step = "provision" /\ X.cursor = None
    BY DEF Idle, CallRecord, Steps, Resume
  <2>2. OneStarter' /\ Settled /\ call' = [call EXCEPT ![c] = X]
    BY <1>1, StarterAsks DEF AskStart, Steps, StartSteps, Ask
  <2>3. Accounted(Excused', None)
    BY AccountedNone
  <2>4. UNCHANGED <<engine, tip, slot, runs, live, stream, reader, traced, missed>>
    BY <1>1 DEF AskStart, source, database, memory, history
  <2> HIDE DEF X
  <2> QED BY <1>0, <1>a, <2>1, <2>2, <2>3, <2>4, <1>b, RequestFrame
<1>2. CASE Provision(c)
  <2> DEFINE X == [call[c] EXCEPT !.step = "run"]
  <2>1. X \in CallRecord /\ X.step = "run" /\ X.cursor = call[c].cursor /\ X.op = call[c].op
    BY <1>0 DEF CallRecord, Steps
  <2>2. /\ Settled /\ call' = [call EXCEPT ![c] = X] /\ call[c].step = "provision" /\ proc' = proc
        /\ UNCHANGED <<engine, tip, runs, live, stream, reader, traced>> /\ Provisioned
    BY <1>2 DEF Provision, Resumes, Goto, database, memory
  <2> HIDE DEF X
  <2>3. OneStarter'
    BY <2>1, <2>2, StarterMoves DEF StartSteps
  <2>4. /\ Excused \subseteq Excused' /\ slot' \in Nat \union {-1} /\ Logs(Excused', slot')
        /\ missed' \in [tip : SUBSET Changes, event : SUBSET Changes]
    BY <2>2, ProvisionedOK
  <2>5. /\ Accounted(Excused', X.cursor)
        /\ \A n \in DOMAIN runs' : Accounted(Excused', runs'[n].cursor)
    BY <1>0, <2>1, <2>2, <2>4, AccountedGrows
  <2> QED BY <1>0, <2>1, <2>2, <2>3, <2>4, <2>5, <1>b, RequestFrame
<1>3. CASE UpdateRun(c)
  <2> DEFINE n == IF runs = <<>> THEN 1 ELSE Len(runs)
  <2>1. /\ Settled /\ call[c].step = "run" /\ proc' = proc
        /\ call' = [call EXCEPT ![c].run = n, ![c].offset = runs'[n].offset,
                                ![c].cursor = runs'[n].cursor, ![c].step = "check"]
        /\ runs' = IF runs = <<>> THEN <<[status |-> "running", offset |-> 0, cursor |-> None]>>
                   ELSE [runs EXCEPT ![n].status = "running"]
        /\ UNCHANGED <<engine, tip, slot, live, stream, reader, traced, missed>>
    BY <1>3 DEF UpdateRun, Resumes, source, memory, history
  <2>2. /\ runs' \in Seq(RunRecord) /\ Len(runs') = 1 /\ n = 1
        /\ Accounted(Excused, runs'[1].cursor)
        /\ runs'[1].offset \in Nat /\ runs'[1].cursor \in Resume
    <3>1. CASE runs = <<>>
      BY <2>1, <3>1, AccountedNone DEF RunRecord, Resume
    <3>2. CASE runs # <<>>
      <4>1. Len(runs) = 1 /\ 1 \in DOMAIN runs
        <5>1. Len(runs) \in Nat /\ Len(runs) # 0 /\ DOMAIN runs = 1 .. Len(runs)
          BY <1>0, <3>2, EmptySeq, LenProperties
        <5>2. Len(runs) <= 1
          BY <1>0
        <5> QED BY <5>1, <5>2
      <4>2. runs[1] \in RunRecord /\ runs' = [runs EXCEPT ![1].status = "running"]
        BY <1>0, <2>1, <3>2, <4>1
      <4>3. runs'[1] \in RunRecord /\ runs'[1].cursor = runs[1].cursor
        BY <1>0, <4>1, <4>2 DEF RunRecord
      <4>4. runs' \in Seq(RunRecord) /\ Len(runs') = 1
        BY <1>0, <4>1, <4>2, <4>3 DEF RunRecord
      <4> QED BY <1>0, <3>2, <4>1, <4>3, <4>4 DEF RunRecord
    <3> QED BY <3>1, <3>2
  <2> HIDE DEF n
  <2>3. PICK X \in CallRecord :
          /\ call' = [call EXCEPT ![c] = X]
          /\ X.op = call[c].op /\ X.cursor = runs'[1].cursor /\ X.step = "check" /\ X.run = 1
    <3> DEFINE X == [call[c] EXCEPT !.run = 1, !.offset = runs'[1].offset,
                                    !.cursor = runs'[1].cursor, !.step = "check"]
    <3>1. "check" \in Steps /\ 1 \in Nat
      BY DEF Steps
    <3>2. /\ X \in CallRecord /\ X.op = call[c].op /\ X.cursor = runs'[1].cursor
          /\ X.step = "check" /\ X.run = 1
          /\ [call EXCEPT ![c].run = 1, ![c].offset = runs'[1].offset,
                          ![c].cursor = runs'[1].cursor, ![c].step = "check"]
               = [call EXCEPT ![c] = X]
      <4>1. PICK o \in Nat, w \in Resume : o = runs'[1].offset /\ w = runs'[1].cursor
        BY <2>2
      <4>2. call[c] \in CallRecord
        BY <1>0
      <4> QED BY <1>0, <3>1, <4>1, <4>2 DEF CallRecord
    <3> HIDE DEF X
    <3> QED BY <2>1, <2>2, <3>2
  <2>4. OneStarter'
    BY <2>1, <2>3, StarterMoves DEF StartSteps
  <2>5. \A m \in DOMAIN runs' : m = 1
    BY <2>2
  <2>6. /\ Accounted(Excused', X.cursor)
        /\ \A m \in DOMAIN runs' : Accounted(Excused', runs'[m].cursor)
    BY <1>a, <2>1, <2>2, <2>3, <2>5
  <2>7. /\ slot' \in Nat \union {-1} /\ Logs(Excused', slot')
        /\ missed' \in [tip : SUBSET Changes, event : SUBSET Changes]
        /\ Excused' = Excused /\ Len(runs') <= 1
        /\ X.step \notin {"open", "opened", "register"} /\ X.run # 0
    BY <1>a, <2>1, <2>2, <2>3
  <2> QED BY <1>0, <2>1, <2>2, <2>3, <2>4, <2>6, <2>7, <1>b, RequestFrame
<1>4. CASE CheckStream(c) \/ FindRun(c) \/ Restart(c)
  <2>1. PICK X \in CallRecord :
           /\ call' = [call EXCEPT ![c] = X]
           /\ X.cursor \in {None, call[c].cursor} /\ X.op \in {"", call[c].op}
           /\ \/ X.step = "idle" \/ X.step = "pause"
              \/ X.step = "provision" /\ call[c].step = "restart" /\ X.op = call[c].op
              \/ /\ X.step = "register" /\ call[c].step = "check"
                 /\ live = 0 /\ X.run = call[c].run /\ X.op = call[c].op
    <3>1. CASE call' = [call EXCEPT ![c] = Idle]
      BY <3>1, IdleOK
    <3>2. CASE FindRun(c) /\ call' # [call EXCEPT ![c] = Idle]
      <4> DEFINE X == [call[c] EXCEPT !.run = Max(ActiveRuns), !.step = "pause"]
      <4>1. Max(ActiveRuns) = 1
        <5>1. ActiveRuns # {} /\ ActiveRuns \subseteq DOMAIN runs
          BY <3>2 DEF FindRun, Return, ActiveRuns
        <5> QED BY <5>1, OnlyRun DEF LoggedInv
      <4>2. call' = [call EXCEPT ![c] = X]
        BY <1>0, <3>2 DEF FindRun, Return
      <4>3. Max(ActiveRuns) \in Nat /\ "pause" \in Steps /\ call[c] \in CallRecord
        BY <1>0, <4>1 DEF Steps
      <4>4. X \in CallRecord /\ X.cursor = call[c].cursor /\ X.op = call[c].op /\ X.step = "pause"
        BY <4>3 DEF CallRecord
      <4> HIDE DEF X
      <4> QED BY <4>2, <4>4
    <3>3. CASE CheckStream(c) /\ call' # [call EXCEPT ![c] = Idle]
      <4> DEFINE X == [call[c] EXCEPT !.step = "register"]
      <4>1. call' = [call EXCEPT ![c] = X] /\ call[c].step = "check" /\ live = 0
        BY <3>3 DEF CheckStream, Return, Goto, Resumes
      <4>2. X \in CallRecord /\ X.cursor = call[c].cursor /\ X.op = call[c].op /\ X.step = "register"
            /\ X.run = call[c].run
        BY <1>0 DEF CallRecord, Steps
      <4> HIDE DEF X
      <4> QED BY <4>1, <4>2
    <3>4. CASE Restart(c) /\ call' # [call EXCEPT ![c] = Idle]
      <4> DEFINE X == [call[c] EXCEPT !.step = "provision"]
      <4>1. call' = [call EXCEPT ![c] = X] /\ call[c].step = "restart"
        BY <3>4 DEF Restart, Return, Goto, Resumes
      <4>2. X \in CallRecord /\ X.cursor = call[c].cursor /\ X.op = call[c].op /\ X.step = "provision"
        BY <1>0 DEF CallRecord, Steps
      <4> HIDE DEF X
      <4> QED BY <4>1, <4>2
    <3> QED BY <1>4, <3>1, <3>2, <3>3, <3>4
  <2>2. /\ Settled /\ call[c].step # "idle" /\ proc' = proc
        /\ UNCHANGED <<engine, tip, slot, runs, live, stream, reader, traced, missed>>
    BY <1>4 DEF CheckStream, FindRun, Restart, Resumes, source, database, memory, history
  <2>3. OneStarter'
    BY <2>1, <2>2, StarterMoves DEF StartSteps
  <2>4. /\ Accounted(Excused, X.cursor)
        /\ X.step = "register" => X.run # 0 /\ live = 0
    BY <1>0, <2>1, AccountedNone DEF LoggedInv, StartsAlone
  <2>5. Excused' = Excused /\ X.step \notin {"open", "opened", "check"}
    BY <1>a, <2>1, <2>2
  <2>6. \A n \in DOMAIN runs' : Accounted(Excused', runs'[n].cursor)
    BY <1>0, <2>2, <2>5
  <2> QED BY <1>0, <1>a, <2>1, <2>2, <2>3, <2>4, <2>5, <2>6, <1>b, RequestFrame
<1>5. CASE PauseRun(c) \/ Deprovision(c) \/ DeleteHook(c)
  <2>1. PICK X \in CallRecord :
           /\ call' = [call EXCEPT ![c] = X]
           /\ X.cursor \in {None, call[c].cursor} /\ X.op \in {"", call[c].op}
           /\ \/ X.step = "idle" \/ X.step = "delete"
              \/ X.step = "restart" /\ X.op = call[c].op /\ X.op = "edit"
    <3>1. CASE call' = [call EXCEPT ![c] = Idle]
      BY <3>1, IdleOK
    <3>2. ASSUME NEW step \in {"restart", "delete"}, call' = [call EXCEPT ![c].step = step],
                 step = "restart" => call[c].op = "edit"
          PROVE  \E X \in CallRecord :
                   /\ call' = [call EXCEPT ![c] = X]
                   /\ X.cursor = call[c].cursor /\ X.op = call[c].op /\ X.step = step
      <4> DEFINE X == [call[c] EXCEPT !.step = step]
      <4>1. X \in CallRecord /\ X.cursor = call[c].cursor /\ X.op = call[c].op /\ X.step = step
        BY <1>0 DEF CallRecord, Steps
      <4>2. call' = [call EXCEPT ![c] = X]
        BY <3>2
      <4> HIDE DEF X
      <4> QED BY <4>1, <4>2
    <3>3. \/ call' = [call EXCEPT ![c] = Idle]
          \/ call' = [call EXCEPT ![c].step = "delete"]
          \/ call' = [call EXCEPT ![c].step = "restart"] /\ call[c].op = "edit"
      BY <1>5 DEF PauseRun, Deprovision, DeleteHook, Goto, Return
    <3> QED BY <3>1, <3>2, <3>3
  <2>2. /\ Settled /\ call[c].step # "idle" /\ proc' = proc
        /\ UNCHANGED <<engine, tip, live, stream, reader, traced, missed>>
        /\ slot' \in {slot, -1}
    BY <1>5 DEF PauseRun, Deprovision, DeleteHook, Resumes, source, database, memory, history
  <2>3. OneStarter'
    BY <2>1, <2>2, StarterMoves DEF StartSteps
  <2>4. Excused' = Excused /\ slot' \in Nat \union {-1} /\ Logs(Excused', slot')
    BY <1>0, <2>2, ChangeOK DEF Excused, Logs
  <2>5. /\ runs' \in Seq(RunRecord) /\ Len(runs') <= 1
        /\ \A n \in DOMAIN runs' : Accounted(Excused', runs'[n].cursor)
    <3>1. CASE runs' = <<>>
      BY <3>1
    <3>2. CASE runs' = runs
      BY <1>0, <2>4, <3>2
    <3>3. CASE PauseRun(c)
      <4>1. Finalize(call[c].run, "paused")
        BY <3>3 DEF PauseRun
      <4> QED BY <1>0, <2>4, <4>1, FinalizeOK
    <3> QED BY <1>5, <3>1, <3>2, <3>3 DEF Deprovision, DeleteHook, database
  <2>6. Accounted(Excused', X.cursor)
    BY <1>0, <2>1, <2>4, AccountedNone
  <2>7. X.step \notin {"open", "opened", "check", "register"}
    BY <2>1
  <2> QED BY <1>0, <2>1, <2>2, <2>3, <2>4, <2>5, <2>6, <2>7, <1>b, RequestFrame
<1> QED BY <1>1, <1>2, <1>3, <1>4, <1>5

\* The source moves on, the server confirms, the process starts again.
LEMMA SourceSteps ==
  ASSUME Orderly, Logged, LoggedInv, SlotIsPostgres,
         Commit \/ Boot \/ (\E r \in Readers : Acknowledge(r))
  PROVE  LoggedInv'
<1>0. /\ call \in [Actors -> CallRecord] /\ runs \in Seq(RunRecord) /\ Len(runs) <= 1
      /\ missed \in [tip : SUBSET Changes, event : SUBSET Changes]
      /\ tip \in 0 .. Len(Rows) /\ slot \in Nat \union {-1} /\ Logs(Excused, slot)
      /\ \A n \in DOMAIN runs : Accounted(Excused, runs[n].cursor)
      /\ \A b \in Actors : Accounted(Excused, call[b].cursor)
      /\ "boot" \in Actors
  BY DEF LoggedInv, Types, CursorsHold, Actors
<1>1. CASE Commit \/ \E r \in Readers : Acknowledge(r)
  <2>1. /\ Settled /\ UNCHANGED <<engine, call, runs, live, stream, reader, traced, missed, proc>>
        /\ tip' \in 0 .. Len(Rows)
    BY <1>0, <1>1, CdcConstants DEF Commit, Acknowledge, database, memory, history
  <2>2. Excused' = Excused
    BY <2>1 DEF Excused
  <2>3. slot' \in Nat \union {-1} /\ Logs(Excused, slot')
    <3>1. CASE Commit
      BY <1>0, <3>1 DEF Commit
    <3>2. ASSUME NEW r \in Readers, Acknowledge(r)
          PROVE  slot' \in Nat \union {-1} /\ Logs(Excused, slot')
      <4>1. /\ reader[r].at \in (Nat \ {0}) \X Nat /\ Reached(Excused, reader[r].at)
            /\ slot' = reader[r].at[1] - 1
        BY <3>2 DEF Acknowledge, LoggedInv, Types, ReaderRecord, CursorsHold
      <4> QED BY <4>1, LogsReached
    <3> QED BY <1>1, <3>1, <3>2
  <2>4. OneStarter'
    BY <2>1 DEF LoggedInv, OneStarter, Starter
  <2>5. Types'
    BY <1>0, <2>1, <2>3 DEF LoggedInv, Types
  <2>6. StartsAlone'
    BY <2>1 DEF LoggedInv, StartsAlone
  <2>7. ReadersBelong' /\ ChainsBelong' /\ OneTail'
    BY <2>1, <2>2, ListenersStay
  <2>8. CursorsHold'
    BY <2>1, <2>2, <2>3 DEF LoggedInv, CursorsHold
  <2> QED BY <2>4, <2>5, <2>6, <2>7, <2>8 DEF LoggedInv
<1>2. CASE Boot
  <2>1. /\ \A b \in Actors : call[b] = Idle
        /\ proc' = "up"
        /\ UNCHANGED <<engine, tip, runs, live, stream, reader, traced>>
    BY <1>2 DEF Boot, LoggedInv, OneStarter, database, memory
  <2>2. \A b \in Actors : call[b].step # "opened"
    BY <2>1, IdleOK
  <2>3. PICK X \in CallRecord :
          /\ call' = [call EXCEPT !["boot"] = X]
          /\ X.op = "" /\ Accounted(Excused, X.cursor)
          /\ X.step = "idle" \/ (X.step = "check" /\ X.run = 1)
    <3> DEFINE running == {n \in DOMAIN runs : runs[n].status = "running"}
    <3>1. CASE running = {}
      <4>1. call' = [call EXCEPT !["boot"] = Idle]
        BY <1>0, <1>2, <2>1, <3>1 DEF Boot
      <4> QED BY <4>1, IdleOK, AccountedNone
    <3>2. CASE running # {}
      <4>1. Max(running) = 1 /\ 1 \in DOMAIN runs
        <5>1. running \subseteq DOMAIN runs
          OBVIOUS
        <5> HIDE DEF running
        <5> QED BY <3>2, <5>1, OnlyRun DEF LoggedInv
      <4>2. PICK o \in Nat, w \in Resume : o = runs[1].offset /\ w = runs[1].cursor
        <5>1. runs[1] \in RunRecord
          BY <1>0, <4>1
        <5> QED BY <5>1 DEF RunRecord
      <4> DEFINE X == [Idle EXCEPT !.step = "check", !.run = 1, !.offset = o, !.cursor = w]
      <4>3. X \in CallRecord /\ X.op = "" /\ X.step = "check" /\ X.run = 1 /\ X.cursor = w
        <5>1. Idle \in CallRecord /\ Idle.op = ""
          BY IdleOK
        <5>2. X \in CallRecord
          BY <5>1 DEF CallRecord, Steps
        <5>3. X.op = "" /\ X.step = "check" /\ X.run = 1 /\ X.cursor = w
          BY <5>1 DEF CallRecord
        <5> QED BY <5>2, <5>3
      <4> HIDE DEF X
      <4>4. call' = [call EXCEPT !["boot"] = X]
        BY <1>2, <3>2, <4>1, <4>2 DEF Boot, X
      <4>5. Accounted(Excused, X.cursor)
        BY <1>0, <4>1, <4>2, <4>3
      <4> QED BY <4>3, <4>4, <4>5
    <3> QED BY <3>1, <3>2
  <2>4. \/ Provisioned
        \/ UNCHANGED <<slot, missed>>
    BY <1>2 DEF Boot
  <2>5. /\ missed' \in [tip : SUBSET Changes, event : SUBSET Changes]
        /\ Excused \subseteq Excused'
        /\ slot' \in Nat \union {-1} /\ Logs(Excused', slot')
    <3>1. CASE Provisioned
      BY <2>1, <3>1, ProvisionedOK
    <3>2. CASE UNCHANGED <<slot, missed>>
      <4>1. Excused' = Excused
        BY <2>1, <3>2 DEF Excused
      <4> QED BY <1>0, <3>2, <4>1
    <3> QED BY <2>4, <3>1, <3>2
  <2>6. OneStarter'
    <3>1. call'["boot"] = X /\ \A b \in Actors \ {"boot"} : call'[b] = Idle
      BY <1>0, <2>1, <2>3
    <3>2. \A b \in Actors : Starter(b)' => b = "boot"
      BY <3>1, IdleOK DEF Starter
    <3>3. \A b \in Actors : call'[b].step \in StartSteps => b = "boot" /\ call'[b].step # "idle"
      BY <3>1, IdleOK DEF StartSteps
    <3> QED BY <2>1, <2>3, <3>1, <3>2, <3>3 DEF OneStarter, Starter
  <2>7. /\ Accounted(Excused', X.cursor)
        /\ \A n \in DOMAIN runs' : Accounted(Excused', runs'[n].cursor)
    BY <1>0, <2>1, <2>3, <2>5, AccountedGrows
  <2>8. /\ X.step \notin {"open", "opened", "register"}
        /\ X.step = "check" => X.run # 0
    <3>1. 1 # 0
      OBVIOUS
    <3> QED BY <2>3, <3>1
  <2> QED BY <1>0, <2>1, <2>2, <2>3, <2>5, <2>6, <2>7, <2>8, RequestFrame
<1> QED BY <1>1, <1>2

\* A crash leaves the database and the slot.
LEMMA CrashStep ==
  ASSUME LoggedInv, Crash
  PROVE  LoggedInv'
<1>1. /\ live' = 0 /\ proc' = "down"
      /\ stream' = [s \in Streams |-> NoStream] /\ reader' = [r \in Readers |-> NoReader]
      /\ call' = [c \in Actors |-> Idle]
      /\ UNCHANGED <<engine, tip, slot, runs, traced, missed>>
  BY DEF Crash, source, database
<1>2. NoStream \in StreamRecord /\ NoReader \in ReaderRecord
  BY DEF NoStream, NoReader, StreamRecord, ReaderRecord, Start, Resume
<1>3. Types'
  BY <1>1, <1>2, IdleOK DEF LoggedInv, Types
<1>4. OneStarter' /\ StartsAlone'
  <2>1. \A c \in Actors : call'[c].step = "idle" /\ call'[c].op = "" /\ call'[c] = Idle
    BY <1>1, IdleOK
  <2> QED BY <2>1 DEF OneStarter, StartsAlone, Starter, StartSteps, Actors
<1>5. ReadersBelong' /\ OneTail'
  <2>1. \A r \in Readers : reader'[r].mode = "free"
    BY <1>1 DEF NoReader
  <2> QED BY <2>1 DEF ReadersBelong, OneTail
<1>6. ChainsBelong'
  <2>1. \A s \in Streams : stream'[s].chain = <<>> /\ stream'[s].step = "idle"
    BY <1>1 DEF NoStream
  <2> QED BY <2>1 DEF ChainsBelong, EntriesWait, EntriesApart, HeadsWork
<1>7. CursorsHold'
  <2>1. Excused' = Excused
    BY <1>1 DEF Excused
  <2>2. \A s \in Streams : stream'[s].watermark = None
    BY <1>1 DEF NoStream
  <2>3. \A r \in Readers : reader'[r].mode = "free"
    BY <1>1 DEF NoReader
  <2>4. \A c \in Actors : call'[c].cursor = None
    BY <1>1, IdleOK
  <2> QED BY <1>1, <2>1, <2>2, <2>3, <2>4, AccountedNone DEF LoggedInv, CursorsHold
<1> QED BY <1>3, <1>4, <1>5, <1>6, <1>7 DEF LoggedInv
------------------------------------------------------------------------------
(***************************************************************************)
(* A stream is registered, opened and stopped.                             *)
(***************************************************************************)

\* What telling the loops of a stream to stop does to each.
LEMMA StoppedOK ==
  ASSUME Types, NEW s
  PROVE  /\ Stopped(s) \in [Readers -> ReaderRecord]
         /\ \A r \in Readers :
              \/ /\ Stopped(s)[r] = reader[r]
                 /\ reader[r].mode = "free" \/ reader[r].of # s
              \/ /\ Stopped(s)[r].mode = "free"
                 /\ reader[r].out = {} /\ reader[r].of = s /\ reader[r].mode # "free"
              \/ /\ Stopped(s)[r].mode = "draining" /\ Stopped(s)[r].of = reader[r].of
                 /\ Stopped(s)[r].at = reader[r].at /\ Stopped(s)[r].out = reader[r].out
                 /\ reader[r].of = s /\ reader[r].mode # "free"
<1>1. ASSUME NEW r \in Readers
      PROVE  /\ reader[r] \in ReaderRecord /\ NoReader \in ReaderRecord /\ NoReader.mode = "free"
             /\ Stopped(s)[r] = IF reader[r].of # s \/ reader[r].mode = "free" THEN reader[r]
                                ELSE IF reader[r].out = {} THEN NoReader
                                ELSE [reader[r] EXCEPT !.mode = "draining"]
  <2>1. reader[r] \in ReaderRecord
    BY DEF Types
  <2>2. NoReader \in ReaderRecord /\ NoReader.mode = "free"
    BY DEF NoReader, ReaderRecord, Start
  <2> QED BY <2>1, <2>2 DEF Stopped
<1>2. ASSUME NEW r \in Readers
      PROVE  LET d == [reader[r] EXCEPT !.mode = "draining"]
             IN  /\ d \in ReaderRecord /\ d.mode = "draining" /\ d.of = reader[r].of
                 /\ d.at = reader[r].at /\ d.out = reader[r].out
  BY <1>1 DEF ReaderRecord
<1>3. DOMAIN Stopped(s) = Readers /\ Stopped(s) = [r \in Readers |-> Stopped(s)[r]]
  BY DEF Stopped
<1>4. \A r \in Readers : Stopped(s)[r] \in ReaderRecord
  BY <1>1, <1>2
<1>5. Stopped(s) \in [Readers -> ReaderRecord]
  BY <1>3, <1>4
<1>6. ASSUME NEW r \in Readers
      PROVE  \/ /\ Stopped(s)[r] = reader[r]
                /\ reader[r].mode = "free" \/ reader[r].of # s
             \/ /\ Stopped(s)[r].mode = "free"
                /\ reader[r].out = {} /\ reader[r].of = s /\ reader[r].mode # "free"
             \/ /\ Stopped(s)[r].mode = "draining" /\ Stopped(s)[r].of = reader[r].of
                /\ Stopped(s)[r].at = reader[r].at /\ Stopped(s)[r].out = reader[r].out
                /\ reader[r].of = s /\ reader[r].mode # "free"
  <2> DEFINE d == [reader[r] EXCEPT !.mode = "draining"]
  <2>1. /\ d.mode = "draining" /\ d.of = reader[r].of
        /\ d.at = reader[r].at /\ d.out = reader[r].out
    BY <1>2
  <2> HIDE DEF d
  <2>2. Stopped(s)[r] = IF reader[r].of # s \/ reader[r].mode = "free" THEN reader[r]
                        ELSE IF reader[r].out = {} THEN NoReader ELSE d
    BY <1>1 DEF d
  <2> QED BY <1>1, <2>1, <2>2
<1> QED BY <1>5, <1>6

\* A loop goes on as it was, ends, or is told to.
Quieter(r) ==
  \/ reader'[r] = reader[r]
  \/ reader'[r].mode = "free" /\ reader[r].out = {}
  \/ /\ reader'[r].mode = "draining" /\ reader[r].mode # "free" /\ reader'[r].of = reader[r].of
     /\ reader'[r].at = reader[r].at /\ reader'[r].out = reader[r].out

\* The part of the invariant about loops and chains when nothing of a chain moves.
LEMMA LoopsQuieten ==
  ASSUME LoggedInv, UNCHANGED <<engine, traced>>, Excused \subseteq Excused',
         \A s \in Streams : stream'[s].chain = stream[s].chain /\ stream'[s].step = stream[s].step,
         \A s \in Streams : stream'[s].pos = stream[s].pos,
         \A r \in Readers : Quieter(r),
         \A r \in Readers : reader'[r].mode = "reading" => reader[r].mode = "reading" /\ live' = live
  PROVE  /\ ChainsBelong' /\ OneTail'
         /\ \A r \in Readers : reader'[r].mode # "free" =>
              reader[r].mode # "free" /\ reader'[r].of = reader[r].of
              /\ Reached(Excused', reader'[r].at)
<1>1. \A r \in Readers : reader'[r].mode # "free" =>
        /\ reader[r].mode # "free" /\ reader'[r].of = reader[r].of
        /\ Reached(Excused', reader'[r].at)
  BY AccountedGrows DEF Quieter, LoggedInv, CursorsHold
<1>2. EntriesWait'
  <2> SUFFICES ASSUME NEW s \in Streams, NEW i \in DOMAIN stream[s].chain
               PROVE  Waits(s, stream[s].chain[i])'
    BY DEF EntriesWait
  <2> DEFINE e == stream[s].chain[i]
  <2>1. e = stream'[s].chain[i] /\ e[1] \in Readers
    BY DEF LoggedInv, Types, StreamRecord
  <2>2. Waits(s, e)
    BY DEF LoggedInv, ChainsBelong, EntriesWait
  <2> HIDE DEF e
  <2>3. Quieter(e[1]) /\ (reader'[e[1]].mode = "reading" => reader[e[1]].mode = "reading" /\ live' = live)
    BY <2>1
  <2>4. /\ reader'[e[1]].mode # "free"
        /\ reader'[e[1]].at = e[2] /\ reader'[e[1]].out = {e[2]}
        /\ reader'[e[1]].mode = "reading" => live' = s
    BY <2>2, <2>3 DEF Quieter, Waits
  <2> QED BY <2>1, <2>4 DEF Waits
<1>3. EntriesApart' /\ HeadsWork'
  BY DEF LoggedInv, ChainsBelong, EntriesApart, HeadsWork
<1>4. ASSUME engine = "mongodb", NEW r \in Readers, reader'[r].mode = "reading"
      PROVE  Tailing(r)'
  <2>1. reader[r].mode = "reading" /\ reader'[r].of = reader[r].of /\ reader[r].of \in Streams
    BY <1>1, <1>4 DEF LoggedInv, ReadersBelong
  <2>2. Tailing(r)
    BY <1>4, <2>1 DEF LoggedInv, OneTail
  <2>3. Accounted(Excused', stream'[reader'[r].of].pos)
    BY <2>1, <2>2, AccountedGrows DEF Tailing
  <2>4. ASSUME NEW q \in Readers, reader'[q].mode # "free", reader'[q].of = reader'[r].of
        PROVE  q = r
    BY <1>1, <2>1, <2>2, <2>4 DEF Tailing
  <2> QED BY <2>3, <2>4 DEF Tailing
<1>5. OneTail'
  BY <1>4 DEF OneTail
<1> QED BY <1>1, <1>2, <1>3, <1>5 DEF ChainsBelong

\* Of the requests that start a stream there is one.
LEMMA OthersRest ==
  ASSUME LoggedInv, NEW c \in Actors, call[c].step \in StartSteps
  PROVE  \A b \in Actors \ {c} : call[b].step \notin StartSteps
BY DEF LoggedInv, OneStarter

\* While nothing is open no loop reads on.
LEMMA NothingReads ==
  ASSUME Logged, LoggedInv, Settled, live = 0 \/ ~stream[live].handle
  PROVE  \A r \in Readers : reader[r].mode # "reading"
<1>1. \A c \in Actors : call[c].step # "opened"
  BY NothingOpens
<1>2. \A r \in Readers : reader[r].mode = "reading" => reader[r].of \in Streams
  BY DEF LoggedInv, ReadersBelong
<1>3. 0 \notin Streams
  BY CdcConstants DEF Streams
<1> QED BY <1>1, <1>2, <1>3 DEF LoggedInv, ReadersBelong

\* beginStream takes a new entry: no loop of an earlier one reads on.
LEMMA RegisterStep ==
  ASSUME Orderly, Logged, LoggedInv, NEW c \in Actors, Register(c)
  PROVE  LoggedInv'
<1>1. PICK s \in Streams :
        /\ stream[s].run = 0
        /\ stream' = [stream EXCEPT ![s] = [NoStream EXCEPT !.run = call[c].run,
                        !.seq = call[c].offset, !.watermark = call[c].cursor]]
        /\ live' = s /\ call' = [call EXCEPT ![c].stream = s, ![c].step = "open"]
  BY DEF Register
<1>2. /\ Settled /\ call[c].step = "register" /\ proc' = proc
      /\ UNCHANGED <<engine, tip, slot, runs, reader, traced, missed>>
  BY DEF Register, Resumes, source, database, history
<1>3. /\ call[c] \in CallRecord /\ call \in [Actors -> CallRecord] /\ call[c].run # 0
      /\ stream \in [Streams -> StreamRecord] /\ live = 0
  BY <1>2 DEF LoggedInv, Types, StartsAlone
<1> DEFINE X == [call[c] EXCEPT !.stream = s, !.step = "open"]
           Y == [NoStream EXCEPT !.run = call[c].run, !.seq = call[c].offset, !.watermark = call[c].cursor]
<1>4. /\ X \in CallRecord /\ X.step = "open" /\ X.op = call[c].op /\ X.stream = s
      /\ X.cursor = call[c].cursor
  BY <1>3 DEF CallRecord, Steps
<1>5. call' = [call EXCEPT ![c] = X]
  BY <1>1, <1>3
<1>6. /\ Y \in StreamRecord /\ Y.run = call[c].run /\ Y.watermark = call[c].cursor
      /\ Y.chain = <<>> /\ Y.step = "idle" /\ ~Y.handle
  <2>1. call[c].run \in Nat /\ call[c].offset \in Nat /\ call[c].cursor \in Resume
    BY <1>3 DEF CallRecord
  <2>2. None \in Resume /\ <<>> \in Seq(Readers \X Places)
    BY EmptySeq DEF Resume
  <2> QED BY <2>1, <2>2 DEF StreamRecord, NoStream
<1>7. stream'[s] = Y /\ \A t \in Streams \ {s} : stream'[t] = stream[t]
  BY <1>1, <1>3
<1>8. stream' \in [Streams -> StreamRecord]
  BY <1>1, <1>3, <1>6
<1> HIDE DEF X, Y
<1>9. call'[c] = X /\ \A b \in Actors \ {c} : call'[b] = call[b]
  BY <1>3, <1>5
<1>10. OneStarter'
  BY <1>2, <1>4, <1>5, StarterMoves DEF StartSteps
<1>11. Types'
  BY <1>1, <1>2, <1>3, <1>4, <1>5, <1>8 DEF LoggedInv, Types
<1>12. \A r \in Readers : reader[r].mode # "reading"
  BY <1>2, <1>3, NothingReads
<1>13. \A r \in Readers : reader[r].mode # "free" =>
          reader[r].of \in Streams /\ reader[r].of # s /\ stream'[reader[r].of].run # 0
  BY <1>1, <1>7 DEF LoggedInv, ReadersBelong
<1>14. StartsAlone'
  <2>1. \A b \in Actors \ {c} : call'[b].step \notin StartSteps
    BY <1>2, <1>9, OthersRest DEF StartSteps
  <2>2. \A b \in Actors : call'[b].step \in {"check", "register", "open", "opened"} => b = c
    BY <2>1 DEF StartSteps
  <2>3. /\ call'[c].step = "open" /\ call'[c].stream = s
        /\ ~stream'[s].handle /\ stream'[s].run # 0
    BY <1>3, <1>4, <1>6, <1>7, <1>9
  <2> QED BY <1>1, <1>2, <1>13, <2>2, <2>3 DEF StartsAlone
<1>15. ReadersBelong' /\ OneTail'
  BY <1>2, <1>12, <1>13 DEF ReadersBelong, OneTail
<1>16. ChainsBelong'
  <2>1. \A t \in Streams : t # s => stream'[t] = stream[t]
    BY <1>7
  <2>2. DOMAIN stream'[s].chain = {}
    BY <1>6, <1>7
  <2>3. EntriesWait'
    <3> SUFFICES ASSUME NEW t \in Streams, NEW i \in DOMAIN stream'[t].chain
                 PROVE  Waits(t, stream[t].chain[i])'
      BY DEF EntriesWait
    <3>1. stream'[t] = stream[t] /\ stream[t].chain \in Seq(Readers \X Places)
      BY <1>3, <2>1, <2>2 DEF StreamRecord
    <3>2. stream[t].chain[i][1] \in Readers /\ Waits(t, stream[t].chain[i])
      BY <3>1 DEF LoggedInv, ChainsBelong, EntriesWait
    <3> QED BY <1>2, <1>12, <3>1, <3>2 DEF Waits
  <2>4. EntriesApart'
    BY <2>1, <2>2 DEF LoggedInv, ChainsBelong, EntriesApart
  <2>5. HeadsWork'
    BY <1>2, <1>6, <1>7, <2>1 DEF LoggedInv, ChainsBelong, HeadsWork
  <2> QED BY <2>3, <2>4, <2>5 DEF ChainsBelong
<1>17. CursorsHold'
  <2>1. Excused' = Excused
    BY <1>2 DEF Excused
  <2>2. Accounted(Excused, call[c].cursor)
    BY DEF LoggedInv, CursorsHold
  <2> QED BY <1>2, <1>4, <1>6, <1>7, <1>9, <2>1, <2>2 DEF LoggedInv, CursorsHold
<1> QED BY <1>10, <1>11, <1>14, <1>15, <1>16, <1>17 DEF LoggedInv

\* Where a loop opens nothing is left behind.
LEMMA OpensReached ==
  ASSUME Logged, LoggedInv, NEW w \in Resume, engine = "mongodb" => Accounted(Excused, w),
         engine = "postgres" => slot # -1, missed' = Missing(w), traced' = traced
  PROVE  /\ missed' \in [tip : SUBSET Changes, event : SUBSET Changes]
         /\ Excused \subseteq Excused'
         /\ OpensAt(w) \in (Nat \ {0}) \X Nat
         /\ Reached(Excused', OpensAt(w))
<1>0. /\ missed \in [tip : SUBSET Changes, event : SUBSET Changes]
      /\ tip \in Nat /\ slot \in Nat \union {-1} /\ Logs(Excused, slot)
  BY CdcConstants DEF LoggedInv, Types, CursorsHold
<1>1. CASE missed' = missed
  <2>1. Excused' = Excused
    BY <1>1 DEF Excused
  <2>2. CASE engine = "postgres"
    <3>1. OpensAt(w) = Start(slot + 1) /\ slot \in Nat
      BY <1>0, <2>2 DEF OpensAt, SlotPosition
    <3> QED BY <1>0, <1>1, <2>1, <3>1, ReachedStart DEF Start
  <2>3. CASE engine = "mongodb" /\ w # None
    <3>1. OpensAt(w) = After(w) /\ w \in Places /\ Accounted(Excused, w)
      BY <2>3 DEF OpensAt, TokenPosition, Resume
    <3> QED BY <1>0, <1>1, <2>1, <3>1, ReachedAfter
  <2>4. CASE engine = "mongodb" /\ w = None
    <3>1. OpensAt(w) = Start(tip + 1) /\ missed = [missed EXCEPT !.tip = @ \union Blind]
      BY <1>1, <2>4 DEF OpensAt, TokenPosition, Missing, Tip
    <3>2. Logs(Excused, tip)
      BY <1>0, <3>1 DEF Logs, Excused, Blind
    <3> QED BY <1>0, <1>1, <2>1, <3>1, <3>2, ReachedStart DEF Start
  <2> QED BY <2>2, <2>3, <2>4 DEF Logged
<1>2. CASE missed' # missed
  <2>1. /\ OpensAt(w) = Start(tip + 1)
        /\ missed' = [missed EXCEPT !.tip = @ \union Blind]
    BY <1>2 DEF OpensAt, TokenPosition, Missing, Tip, Logged
  <2>2. Blind \subseteq Changes
    BY DEF Blind
  <2>3. /\ missed' \in [tip : SUBSET Changes, event : SUBSET Changes]
        /\ missed'.tip = missed.tip \union Blind /\ missed'.event = missed.event
    BY <1>0, <2>1, <2>2
  <2>4. Excused \subseteq Excused' /\ Blind \subseteq Excused'
    BY <2>3 DEF Excused
  <2>5. Logs(Excused', tip)
    BY <2>4 DEF Logs, Blind
  <2> QED BY <1>0, <2>1, <2>3, <2>4, <2>5, ReachedStart DEF Start
<1> QED BY <1>1, <1>2

\* The loop that an open takes is free.
LEMMA FreeReaderOK ==
  ASSUME HasFreeReader
  PROVE  FreeReader \in Readers /\ reader[FreeReader].mode = "free"
BY DEF HasFreeReader, FreeReader

\* It begins where the provider opens.
LEMMA NewReaderOK ==
  ASSUME NEW s \in Streams, NEW w, OpensAt(w) \in (Nat \ {0}) \X Nat
  PROVE  /\ NewReader(s, w) \in ReaderRecord
         /\ NewReader(s, w).of = s /\ NewReader(s, w).mode = "reading"
         /\ NewReader(s, w).at = OpensAt(w) /\ NewReader(s, w).out = {}
BY DEF NewReader, NoReader, ReaderRecord

\* The provider opens: behind nothing that was not excused.
LEMMA OpenStep ==
  ASSUME Orderly, Logged, LoggedInv, NEW c \in Actors, OpenStream(c)
  PROVE  LoggedInv'
<1> DEFINE f == FreeReader
           s == call[c].stream
           w == call[c].cursor
           X == [call[c] EXCEPT !.step = "opened"]
<1>1. /\ Settled /\ call[c].step = "open" /\ HasFreeReader /\ proc' = proc
      /\ engine = "postgres" => slot # -1
      /\ reader' = [reader EXCEPT ![f] = NewReader(s, w)]
      /\ stream' = [stream EXCEPT ![s].pos = w]
      /\ missed' = Missing(w) /\ call' = [call EXCEPT ![c] = X]
      /\ UNCHANGED <<engine, tip, slot, runs, live, traced>>
  BY DEF OpenStream, Resumes, Goto, source, database
<1>2. /\ call[c] \in CallRecord /\ call \in [Actors -> CallRecord]
      /\ stream \in [Streams -> StreamRecord] /\ reader \in [Readers -> ReaderRecord]
      /\ s \in Streams /\ live \in {0, s} /\ ~stream[s].handle /\ stream[s].run # 0
      /\ \A r \in Readers : reader[r].mode # "free" => reader[r].of # s
      /\ w \in Resume /\ Accounted(Excused, w)
  BY <1>1 DEF LoggedInv, Types, StartsAlone, CursorsHold, CallRecord
<1>3. X \in CallRecord /\ X.step = "opened" /\ X.op = call[c].op /\ X.cursor = w /\ X.stream = s
  BY <1>2 DEF CallRecord, Steps
<1> HIDE DEF X
<1>4. call'[c] = X /\ \A b \in Actors \ {c} : call'[b] = call[b]
  BY <1>1, <1>2
<1>5. /\ missed' \in [tip : SUBSET Changes, event : SUBSET Changes]
      /\ Excused \subseteq Excused'
      /\ OpensAt(w) \in (Nat \ {0}) \X Nat /\ Reached(Excused', OpensAt(w))
  BY <1>1, <1>2, OpensReached
<1>6. f \in Readers /\ reader[f].mode = "free"
  BY <1>1, FreeReaderOK
<1> HIDE DEF f, s, w
<1>7. /\ reader' \in [Readers -> ReaderRecord]
      /\ reader'[f].of = s /\ reader'[f].mode = "reading" /\ reader'[f].at = OpensAt(w)
      /\ \A r \in Readers \ {f} : reader'[r] = reader[r]
  BY <1>1, <1>2, <1>5, <1>6, NewReaderOK
<1>8. /\ stream' \in [Streams -> StreamRecord]
      /\ stream'[s].pos = w
      /\ \A t \in Streams : /\ stream'[t].run = stream[t].run /\ stream'[t].handle = stream[t].handle
                            /\ stream'[t].chain = stream[t].chain /\ stream'[t].step = stream[t].step
                            /\ stream'[t].watermark = stream[t].watermark
  BY <1>1, <1>2 DEF StreamRecord
<1>9. \A r \in Readers : reader[r].mode # "reading"
  BY <1>1, <1>2, NothingReads
<1>10. OneStarter'
  BY <1>1, <1>3, StarterMoves DEF StartSteps
<1>11. Types'
  BY <1>1, <1>2, <1>3, <1>5, <1>7, <1>8 DEF LoggedInv, Types
<1>12. StartsAlone'
  <2>1. \A b \in Actors \ {c} : call'[b].step \notin StartSteps
    BY <1>1, <1>4, OthersRest DEF StartSteps
  <2>2. \A b \in Actors : call'[b].step \in {"check", "register", "open", "opened"} => b = c
    BY <2>1 DEF StartSteps
  <2>3. call'[c].step = "opened" /\ call'[c].stream = s
    BY <1>3, <1>4
  <2> QED BY <1>1, <1>2, <1>8, <2>2, <2>3 DEF StartsAlone
<1>13. ReadersBelong'
  <2>1. call'[c].step = "opened" /\ call'[c].stream = s
    BY <1>3, <1>4
  <2>2. \A r \in Readers \ {f} : reader'[r].mode # "free" =>
           /\ reader'[r].of \in Streams /\ stream'[reader'[r].of].run # 0
           /\ reader'[r].mode # "reading"
    BY <1>7, <1>8, <1>9 DEF LoggedInv, ReadersBelong
  <2>3. s \in Streams /\ stream'[s].run # 0
    BY <1>2, <1>8
  <2> QED BY <1>7, <2>1, <2>2, <2>3 DEF ReadersBelong
<1>14. ChainsBelong'
  <2>1. EntriesWait'
    <3> SUFFICES ASSUME NEW t \in Streams, NEW i \in DOMAIN stream[t].chain
                 PROVE  Waits(t, stream[t].chain[i])'
      BY <1>8 DEF EntriesWait
    <3>1. stream[t].chain[i][1] \in Readers /\ Waits(t, stream[t].chain[i])
      BY <1>2 DEF LoggedInv, ChainsBelong, EntriesWait, StreamRecord
    <3>2. stream[t].chain[i][1] # f
      BY <1>6, <3>1 DEF Waits
    <3> QED BY <1>1, <1>7, <1>8, <3>1, <3>2 DEF Waits
  <2>2. EntriesApart' /\ HeadsWork'
    BY <1>1, <1>8 DEF LoggedInv, ChainsBelong, EntriesApart, HeadsWork
  <2> QED BY <2>1, <2>2 DEF ChainsBelong
<1>15. OneTail'
  <2>1. \A r \in Readers : reader'[r].mode = "reading" => r = f
    BY <1>7, <1>9
  <2>2. \A q \in Readers : reader'[q].mode # "free" /\ reader'[q].of = s => q = f
    BY <1>2, <1>7
  <2>3. Accounted(Excused', stream'[s].pos)
    BY <1>2, <1>5, <1>8, AccountedGrows
  <2> QED BY <1>7, <2>1, <2>2, <2>3 DEF OneTail, Tailing
<1>16. CursorsHold'
  <2>1. \A b \in Actors : call'[b].cursor = call[b].cursor
    BY <1>3, <1>4 DEF w
  <2>2. \A r \in Readers : reader'[r].mode # "free" => Reached(Excused', reader'[r].at)
    BY <1>5, <1>7, AccountedGrows DEF LoggedInv, CursorsHold
  <2> QED BY <1>1, <1>5, <1>8, <2>1, <2>2, AccountedGrows DEF LoggedInv, CursorsHold
<1> QED BY <1>10, <1>11, <1>12, <1>13, <1>14, <1>15, <1>16 DEF LoggedInv

\* It does not open: the entry goes, the run fails.
LEMMA OpenFailsStep ==
  ASSUME Orderly, Logged, LoggedInv, NEW c \in Actors, OpenFails(c)
  PROVE  LoggedInv'
<1>1. /\ Settled /\ call[c].step = "open" /\ proc' = proc
      /\ live' = IF live = call[c].stream THEN 0 ELSE live
      /\ Finalize(call[c].run, "failed") /\ call' = [call EXCEPT ![c] = Idle]
      /\ UNCHANGED <<engine, tip, slot, stream, reader, traced, missed>>
  BY DEF OpenFails, Resumes, Return, source
<1>2. /\ live \in {0, call[c].stream} /\ ~stream[call[c].stream].handle
      /\ call \in [Actors -> CallRecord]
  BY <1>1 DEF LoggedInv, StartsAlone, Types
<1>3. live' = 0
  BY <1>1, <1>2
<1>4. call'[c] = Idle /\ \A b \in Actors \ {c} : call'[b] = call[b]
  BY <1>1, <1>2
<1>5. /\ runs' \in Seq(RunRecord) /\ Len(runs') <= 1 /\ DOMAIN runs' = DOMAIN runs
      /\ \A m \in DOMAIN runs : runs'[m].cursor = runs[m].cursor
  BY <1>1, FinalizeOK
<1>6. OneStarter'
  BY <1>1, IdleOK, StarterMoves DEF StartSteps
<1>7. Types'
  BY <1>1, <1>3, <1>5, IdleOK DEF LoggedInv, Types
<1>8. StartsAlone'
  BY <1>1, <1>3, <1>4, IdleOK DEF LoggedInv, StartsAlone
<1>9. \A r \in Readers : reader[r].mode # "reading"
  BY <1>1, <1>2, NothingReads
<1>10. ReadersBelong'
  BY <1>1, <1>9 DEF LoggedInv, ReadersBelong
<1>11. Excused' = Excused
  BY <1>1 DEF Excused
<1>12. ChainsBelong' /\ OneTail'
  BY <1>1, <1>9, <1>11, LoopsQuieten DEF Quieter
<1>13. CursorsHold'
  <2>1. \A b \in Actors : Accounted(Excused, call'[b].cursor)
    BY <1>4, IdleOK, AccountedNone DEF LoggedInv, CursorsHold
  <2> QED BY <1>1, <1>5, <1>11, <2>1 DEF LoggedInv, CursorsHold
<1> QED BY <1>6, <1>7, <1>8, <1>10, <1>12, <1>13 DEF LoggedInv

\* The promise of the open: the handle is kept, or what was opened is stopped.
LEMMA AfterOpenStep ==
  ASSUME Orderly, Logged, LoggedInv, NEW c \in Actors, AfterOpen(c)
  PROVE  LoggedInv'
<1> DEFINE s == call[c].stream
<1>1. /\ call[c].step = "opened" /\ proc' = proc
      /\ call' = [call EXCEPT ![c] = Idle]
      /\ \/ /\ live = s /\ stream' = [stream EXCEPT ![s].handle = TRUE] /\ reader' = reader
         \/ live # s /\ reader' = Stopped(s) /\ stream' = stream
      /\ UNCHANGED <<engine, tip, slot, runs, live, traced, missed>>
  BY DEF AfterOpen, Return, source, database, history
<1>2. /\ live \in {0, s} /\ s \in Streams
      /\ call \in [Actors -> CallRecord] /\ stream \in [Streams -> StreamRecord]
      /\ reader \in [Readers -> ReaderRecord]
  BY <1>1 DEF LoggedInv, StartsAlone, Types
<1> HIDE DEF s
<1>3. call'[c] = Idle /\ \A b \in Actors \ {c} : call'[b] = call[b]
  BY <1>1, <1>2
<1>4. \A b \in Actors \ {c} : call[b].step \notin StartSteps
  BY <1>1, OthersRest DEF StartSteps
<1>5. \A b \in Actors : call'[b].step \notin {"check", "register", "open", "opened"}
  BY <1>3, <1>4, IdleOK DEF StartSteps
<1>6. /\ stream' \in [Streams -> StreamRecord]
      /\ \A t \in Streams : /\ stream'[t].run = stream[t].run /\ stream'[t].pos = stream[t].pos
                            /\ stream'[t].chain = stream[t].chain /\ stream'[t].step = stream[t].step
                            /\ stream'[t].watermark = stream[t].watermark
                            /\ stream[t].handle => stream'[t].handle
      /\ live = s => stream'[s].handle
  <2>1. CASE live = s
    <3>1. stream' = [stream EXCEPT ![s].handle = TRUE]
      BY <1>1, <2>1
    <3> QED BY <1>2, <3>1 DEF StreamRecord
  <2>2. CASE live # s
    BY <1>1, <1>2, <2>2
  <2> QED BY <2>1, <2>2
<1>7. /\ reader' \in [Readers -> ReaderRecord]
      /\ \A r \in Readers : Quieter(r) /\ (reader'[r].mode = "reading" => reader'[r] = reader[r])
      /\ live # s => \A r \in Readers : reader'[r].mode = "reading" => reader[r].of # s
  <2>1. CASE reader' = reader /\ live = s
    BY <1>2, <2>1 DEF Quieter
  <2>2. CASE reader' = Stopped(s)
    <3>1. Types
      BY DEF LoggedInv
    <3> QED BY <2>2, <3>1, StoppedOK DEF Quieter
  <2> QED BY <1>1, <2>1, <2>2
<1>8. \A r \in Readers : reader[r].mode = "reading" =>
        reader[r].of = s \/ (reader[r].of = live /\ live # 0 /\ stream[live].handle)
  <2>1. 0 \notin Streams
    BY CdcConstants DEF Streams
  <2>2. \A b \in Actors : call[b].step = "opened" => b = c
    BY <1>4 DEF StartSteps
  <2> QED BY <2>1, <2>2 DEF LoggedInv, ReadersBelong, s
<1>9. Excused' = Excused
  BY <1>1 DEF Excused
<1>10. /\ ChainsBelong' /\ OneTail'
       /\ \A r \in Readers : reader'[r].mode # "free" =>
            reader[r].mode # "free" /\ reader'[r].of = reader[r].of
            /\ Reached(Excused', reader'[r].at)
  BY <1>1, <1>6, <1>7, <1>9, LoopsQuieten
<1>11. OneStarter'
  BY <1>1, IdleOK, StarterMoves DEF StartSteps
<1>12. Types'
  BY <1>1, <1>6, <1>7, IdleOK DEF LoggedInv, Types
<1>13. StartsAlone'
  BY <1>5 DEF StartsAlone
<1>14. ReadersBelong'
  <2>1. \A r \in Readers : reader'[r].mode # "free" =>
           reader'[r].of \in Streams /\ stream'[reader'[r].of].run # 0
    BY <1>6, <1>10 DEF LoggedInv, ReadersBelong
  <2>2. \A r \in Readers : reader'[r].mode = "reading" => reader'[r].of = live' /\ stream'[live'].handle
    BY <1>1, <1>2, <1>6, <1>7, <1>8
  <2> QED BY <2>1, <2>2 DEF ReadersBelong
<1>15. CursorsHold'
  <2>1. \A b \in Actors : Accounted(Excused, call'[b].cursor)
    BY <1>3, IdleOK, AccountedNone DEF LoggedInv, CursorsHold
  <2> QED BY <1>1, <1>6, <1>9, <1>10, <2>1 DEF LoggedInv, CursorsHold
<1> QED BY <1>10, <1>11, <1>12, <1>13, <1>14, <1>15 DEF LoggedInv

\* A teardown leaves no loop that reads on.
LEMMA TornOK ==
  ASSUME Logged, LoggedInv, Settled,
         reader' = IF live # 0 /\ stream[live].handle THEN Stopped(live) ELSE reader
  PROVE  /\ reader' \in [Readers -> ReaderRecord]
         /\ \A r \in Readers : Quieter(r) /\ reader'[r].mode # "reading"
<1>0. Types
  BY DEF LoggedInv
<1>1. CASE live # 0 /\ stream[live].handle
  <2>1. reader' = Stopped(live)
    BY <1>1
  <2>2. \A r \in Readers : reader[r].mode = "reading" => reader[r].of = live
    BY NothingOpens DEF LoggedInv, ReadersBelong
  <2> QED BY <1>0, <2>1, <2>2, StoppedOK DEF Quieter
<1>2. CASE live = 0 \/ ~stream[live].handle
  BY <1>0, <1>2, NothingReads DEF Quieter, Types
<1> QED BY <1>1, <1>2

\* stop, an edit and a removal tear the stream down first.
LEMMA AskStopStep ==
  ASSUME Orderly, Logged, LoggedInv, NEW c \in Actors, AskStop(c)
  PROVE  LoggedInv'
<1>1. PICK X \in CallRecord :
        /\ OneStarter' /\ call[c].step = "idle" /\ Settled /\ c # "boot"
        /\ call' = [call EXCEPT ![c] = X]
        /\ X.step \in {"find", "deprovision"} /\ X.cursor = None
  <2>1. proc' = proc
    BY DEF AskStop
  <2>2. ASSUME NEW op \in {"stop", "edit", "remove"}, NEW step \in {"find", "deprovision"},
               Ask(c, op, step), op = "edit" => Starting < MaxStarts
        PROVE  \E X \in CallRecord :
                 /\ OneStarter' /\ call[c].step = "idle" /\ Settled /\ c # "boot"
                 /\ call' = [call EXCEPT ![c] = X]
                 /\ X.step \in {"find", "deprovision"} /\ X.cursor = None
    <3> DEFINE X == [Idle EXCEPT !.step = step, !.op = op]
    <3>1. X \in CallRecord /\ X.step = step /\ X.cursor = None
      BY DEF Idle, CallRecord, Steps, Resume
    <3>2. step \in Steps /\ step \notin StartSteps
      BY DEF Steps, StartSteps
    <3>3. /\ OneStarter' /\ call[c].step = "idle" /\ Settled /\ c # "boot"
          /\ call' = [call EXCEPT ![c] = X]
      <4>1. /\ op \in {"start", "stop", "edit", "remove"}
            /\ op \in {"start", "edit"} => Starting < MaxStarts
        BY <2>2
      <4>2. /\ Ask(c, op, step) /\ step \in Steps
            /\ step \in StartSteps => op \in {"start", "edit"}
        BY <2>2, <3>2
      <4>3. /\ OneStarter' /\ c # "boot" /\ call[c].step = "idle" /\ Settled
            /\ call' = [call EXCEPT ![c] = [Idle EXCEPT !.step = step, !.op = op]]
        BY <2>1, <4>1, <4>2, StarterAsks
      <4> QED BY <4>3
    <3> HIDE DEF X
    <3> QED BY <3>1, <3>3
  <2> QED BY <2>2 DEF AskStop
<1>2. /\ live' = 0
      /\ reader' = IF live # 0 /\ stream[live].handle THEN Stopped(live) ELSE reader
      /\ UNCHANGED <<engine, tip, slot, runs, stream, traced, missed>>
  BY DEF AskStop, Torn, source, database
<1>3. /\ reader' \in [Readers -> ReaderRecord]
      /\ \A r \in Readers : Quieter(r) /\ reader'[r].mode # "reading"
  BY <1>1, <1>2, TornOK
<1>4. call'[c] = X /\ \A b \in Actors \ {c} : call'[b] = call[b]
  BY <1>1 DEF LoggedInv, Types
<1>5. Excused' = Excused
  BY <1>2 DEF Excused
<1>6. /\ ChainsBelong' /\ OneTail'
      /\ \A r \in Readers : reader'[r].mode # "free" =>
           reader[r].mode # "free" /\ reader'[r].of = reader[r].of
           /\ Reached(Excused', reader'[r].at)
  BY <1>2, <1>3, <1>5, LoopsQuieten
<1>7. Types'
  BY <1>1, <1>2, <1>3 DEF LoggedInv, Types
<1>8. StartsAlone'
  <2>1. \A b \in Actors : call'[b].step \in {"check", "register", "open", "opened"} => call'[b] = call[b]
    BY <1>1, <1>4
  <2> QED BY <1>2, <1>6, <2>1 DEF LoggedInv, StartsAlone
<1>9. ReadersBelong'
  BY <1>2, <1>3, <1>6 DEF LoggedInv, ReadersBelong
<1>10. CursorsHold'
  <2>1. \A b \in Actors : Accounted(Excused, call'[b].cursor)
    BY <1>1, <1>4, AccountedNone DEF LoggedInv, CursorsHold
  <2> QED BY <1>2, <1>5, <1>6, <2>1 DEF LoggedInv, CursorsHold
<1> QED BY <1>1, <1>6, <1>7, <1>8, <1>9, <1>10 DEF LoggedInv
------------------------------------------------------------------------------
(***************************************************************************)
(* The loops and the pipeline.                                             *)
(***************************************************************************)

\* The starts are not concerned, as long as no loop comes back to a stream.
LEMMA StartsStay ==
  ASSUME LoggedInv, UNCHANGED <<call, proc>>, live' \in {0, live},
         \A s \in Streams : stream'[s].run = stream[s].run /\ stream'[s].handle = stream[s].handle,
         \A r \in Readers : reader'[r].mode # "free" =>
           \E q \in Readers : reader[q].mode # "free" /\ reader[q].of = reader'[r].of
  PROVE  OneStarter' /\ StartsAlone'
<1>1. OneStarter'
  BY DEF LoggedInv, OneStarter, Starter
<1>2. StartsAlone'
  BY DEF LoggedInv, StartsAlone
<1> QED BY <1>1, <1>2

\* Who reads on while nothing is being opened: the loops of the live stream.
LEMMA ReadsLive ==
  ASSUME Logged, LoggedInv, Settled, NEW r \in Readers, reader[r].mode = "reading"
  PROVE  reader[r].of = live /\ live \in Streams /\ live # 0 /\ stream[live].handle
<1>1. 0 \notin Streams
  BY CdcConstants DEF Streams
<1> QED BY <1>1, NothingOpens DEF LoggedInv, ReadersBelong

\* What handing over does: the row is at the end of the live chain.
LEMMA HandsOverOK ==
  ASSUME Logged, LoggedInv, NEW r \in Readers, HandsOver(r)
  PROVE  /\ Settled /\ reader[r].mode = "reading" /\ reader[r].at[1] <= tip /\ reader[r].out = {}
         /\ live \in Streams /\ live # 0 /\ reader[r].of = live /\ reader[r].at \in Places
         /\ reader' \in [Readers -> ReaderRecord]
         /\ reader'[r].out = {reader[r].at} /\ reader'[r].at = reader[r].at
         /\ reader'[r].mode = "reading" /\ reader'[r].of = live
         /\ \A q \in Readers \ {r} : reader'[q] = reader[q]
         /\ stream' \in [Streams -> StreamRecord]
         /\ \A t \in Streams : /\ stream'[t].run = stream[t].run /\ stream'[t].handle = stream[t].handle
                               /\ stream'[t].step = stream[t].step /\ stream'[t].pos = stream[t].pos
                               /\ stream'[t].watermark = stream[t].watermark /\ stream'[t].seq = stream[t].seq
                               /\ t # live => stream'[t].chain = stream[t].chain
         /\ stream[live].chain \in Seq(Readers \X Places)
         /\ DOMAIN stream'[live].chain = 1 .. Len(stream[live].chain) + 1
         /\ DOMAIN stream[live].chain = 1 .. Len(stream[live].chain)
         /\ Len(stream[live].chain) \in Nat
         /\ stream'[live].chain[Len(stream[live].chain) + 1] = <<r, reader[r].at>>
         /\ \A i \in DOMAIN stream[live].chain : stream'[live].chain[i] = stream[live].chain[i]
<1> DEFINE c == reader[r].at
           s == live
<1>1. Settled /\ reader[r].mode = "reading" /\ c[1] <= tip /\ reader[r].out = {} /\ Rows[c[1]] > 0
  BY DEF HandsOver, Ready, MidEvent, Logged
<1>2. /\ s \in Streams /\ s # 0 /\ reader[r].of = s
      /\ reader \in [Readers -> ReaderRecord] /\ stream \in [Streams -> StreamRecord]
  BY <1>1, ReadsLive DEF LoggedInv, Types
<1>3. c \in Places
  <2>1. c \in (Nat \ {0}) \X Nat /\ tip \in 0 .. Len(Rows)
    BY <1>2 DEF ReaderRecord, LoggedInv, Types
  <2>2. DOMAIN Rows = 1 .. Len(Rows) /\ Len(Rows) \in Nat
    BY CdcConstants
  <2> QED BY <1>1, <2>1, <2>2 DEF Places
<1>4. /\ stream' = [stream EXCEPT ![s].chain = Append(@, <<r, c>>)]
      /\ reader' = [reader EXCEPT ![r].out = {c}]
  BY <1>2 DEF HandsOver, Joins
<1>5. /\ reader' \in [Readers -> ReaderRecord]
      /\ reader'[r].out = {c} /\ reader'[r].at = c /\ reader'[r].mode = "reading" /\ reader'[r].of = s
      /\ \A q \in Readers \ {r} : reader'[q] = reader[q]
  BY <1>1, <1>2, <1>3, <1>4 DEF ReaderRecord
<1> HIDE DEF c, s
<1>6. /\ stream' \in [Streams -> StreamRecord]
      /\ stream'[s].chain = Append(stream[s].chain, <<r, c>>)
      /\ \A t \in Streams : /\ stream'[t].run = stream[t].run /\ stream'[t].handle = stream[t].handle
                            /\ stream'[t].step = stream[t].step /\ stream'[t].pos = stream[t].pos
                            /\ stream'[t].watermark = stream[t].watermark /\ stream'[t].seq = stream[t].seq
                            /\ t # s => stream'[t].chain = stream[t].chain
  <2>1. stream[s] \in StreamRecord
    BY <1>2
  <2>2. Append(stream[s].chain, <<r, c>>) \in Seq(Readers \X Places)
    BY <1>3, <2>1 DEF StreamRecord
  <2> QED BY <1>2, <1>4, <2>1, <2>2 DEF StreamRecord
<1>7. /\ stream[s].chain \in Seq(Readers \X Places)
      /\ DOMAIN stream'[s].chain = 1 .. Len(stream[s].chain) + 1
      /\ DOMAIN stream[s].chain = 1 .. Len(stream[s].chain)
      /\ Len(stream[s].chain) \in Nat
      /\ stream'[s].chain[Len(stream[s].chain) + 1] = <<r, c>>
      /\ \A i \in DOMAIN stream[s].chain : stream'[s].chain[i] = stream[s].chain[i]
  <2>1. stream[s].chain \in Seq(Readers \X Places)
    BY <1>2 DEF StreamRecord
  <2> QED BY <1>6, <2>1
<1> QED BY <1>1, <1>2, <1>3, <1>5, <1>6, <1>7 DEF c, s

\* A row joins the chain of the live stream, and its loop waits for it.
LEMMA HandsOverStep ==
  ASSUME Logged, LoggedInv, NEW r \in Readers, HandsOver(r),
         UNCHANGED <<engine, tip, slot, runs, live, call, proc, traced, missed>>
  PROVE  LoggedInv'
<1> DEFINE c == reader[r].at
           s == live
<1>1. Settled /\ reader[r].mode = "reading" /\ c[1] <= tip /\ reader[r].out = {}
  BY HandsOverOK
<1>2. /\ s \in Streams /\ s # 0 /\ reader[r].of = s
      /\ reader \in [Readers -> ReaderRecord] /\ stream \in [Streams -> StreamRecord]
  BY HandsOverOK DEF LoggedInv, Types
<1>5. /\ reader' \in [Readers -> ReaderRecord]
      /\ reader'[r].out = {c} /\ reader'[r].at = c /\ reader'[r].mode = "reading" /\ reader'[r].of = s
      /\ \A q \in Readers \ {r} : reader'[q] = reader[q]
  BY HandsOverOK
<1>6. /\ stream' \in [Streams -> StreamRecord]
      /\ \A t \in Streams : /\ stream'[t].run = stream[t].run /\ stream'[t].handle = stream[t].handle
                            /\ stream'[t].step = stream[t].step /\ stream'[t].pos = stream[t].pos
                            /\ stream'[t].watermark = stream[t].watermark
                            /\ t # s => stream'[t].chain = stream[t].chain
  BY HandsOverOK
<1>7. /\ stream[s].chain \in Seq(Readers \X Places)
      /\ DOMAIN stream'[s].chain = 1 .. Len(stream[s].chain) + 1
      /\ DOMAIN stream[s].chain = 1 .. Len(stream[s].chain)
      /\ Len(stream[s].chain) \in Nat
      /\ stream'[s].chain[Len(stream[s].chain) + 1] = <<r, c>>
      /\ \A i \in DOMAIN stream[s].chain : stream'[s].chain[i] = stream[s].chain[i]
  BY HandsOverOK
<1> HIDE DEF c, s
<1>8. ASSUME NEW t \in Streams, NEW i \in DOMAIN stream[t].chain
      PROVE  /\ Waits(t, stream[t].chain[i]) /\ stream[t].chain[i][1] \in Readers
             /\ stream[t].chain[i][1] # r
  <2>1. Waits(t, stream[t].chain[i]) /\ stream[t].chain[i][1] \in Readers
    BY <1>2 DEF LoggedInv, ChainsBelong, EntriesWait, StreamRecord
  <2> QED BY <1>1, <2>1 DEF Waits
<1>9. ASSUME NEW t \in Streams, NEW i \in DOMAIN stream'[t].chain
      PROVE  \/ /\ i \in DOMAIN stream[t].chain
                /\ stream'[t].chain[i] = stream[t].chain[i]
             \/ /\ t = s /\ i = Len(stream[s].chain) + 1
                /\ stream'[t].chain[i] = <<r, c>>
  <2>1. CASE t = s
    <3>1. i \in 1 .. Len(stream[s].chain) + 1
      BY <1>7, <2>1
    <3>2. i \in DOMAIN stream[s].chain \/ i = Len(stream[s].chain) + 1
      BY <1>7, <3>1
    <3> QED BY <1>7, <2>1, <3>2
  <2>2. CASE t # s
    <3>1. stream'[t].chain = stream[t].chain
      BY <1>6, <2>2
    <3> QED BY <3>1
  <2> QED BY <2>1, <2>2
<1>10. EntriesWait'
  <2> SUFFICES ASSUME NEW t \in Streams, NEW i \in DOMAIN stream'[t].chain,
                      NEW e, e = stream'[t].chain[i]
               PROVE  Waits(t, e)'
    BY DEF EntriesWait
  <2>1. CASE e = <<r, c>> /\ t = s
    BY <1>5, <2>1 DEF Waits, s
  <2>2. CASE i \in DOMAIN stream[t].chain /\ e = stream[t].chain[i]
    BY <1>5, <1>8, <2>2 DEF Waits
  <2> QED BY <1>9, <2>1, <2>2
<1>11. EntriesApart'
  <2> SUFFICES ASSUME NEW t \in Streams, NEW u \in Streams,
                      NEW i \in DOMAIN stream'[t].chain, NEW j \in DOMAIN stream'[u].chain,
                      stream'[t].chain[i][1] = stream'[u].chain[j][1]
               PROVE  t = u /\ i = j
    BY DEF EntriesApart
  <2>1. \/ /\ i \in DOMAIN stream[t].chain
           /\ stream'[t].chain[i] = stream[t].chain[i]
        \/ /\ t = s /\ i = Len(stream[s].chain) + 1
           /\ stream'[t].chain[i] = <<r, c>>
    BY <1>9
  <2>2. \/ /\ j \in DOMAIN stream[u].chain
           /\ stream'[u].chain[j] = stream[u].chain[j]
        \/ /\ u = s /\ j = Len(stream[s].chain) + 1
           /\ stream'[u].chain[j] = <<r, c>>
    BY <1>9
  <2> QED BY <1>8, <2>1, <2>2 DEF LoggedInv, ChainsBelong, EntriesApart
<1>12. HeadsWork'
  <2>1. \A t \in Streams : stream[t].chain # <<>> =>
          stream'[t].chain # <<>> /\ stream'[t].chain[1] = stream[t].chain[1]
    <3>1. \A t \in Streams : t # s => stream'[t].chain = stream[t].chain
      BY <1>6
    <3>2. stream'[s].chain # <<>>
      BY <1>6, <1>7
    <3>3. stream[s].chain # <<>> => 1 \in DOMAIN stream[s].chain
      BY <1>7
    <3> QED BY <1>7, <3>1, <3>2, <3>3
  <2> QED BY <1>6, <2>1 DEF LoggedInv, ChainsBelong, HeadsWork
<1>13. Excused' = Excused
  BY DEF Excused
<1>14. Types'
  BY <1>5, <1>6 DEF LoggedInv, Types
<1>15. \A q \in Readers : reader'[q].mode = reader[q].mode /\ reader'[q].of = reader[q].of
                          /\ reader'[q].at = reader[q].at
  BY <1>1, <1>2, <1>5 DEF c
<1>16. OneStarter' /\ StartsAlone'
  BY <1>6, <1>15, StartsStay
<1>17. ReadersBelong'
  BY <1>1, <1>6, <1>15, ReadsLive DEF LoggedInv, ReadersBelong
<1>18. OneTail'
  BY <1>6, <1>13, <1>15, ReadsLive, <1>1 DEF LoggedInv, OneTail, Tailing
<1>19. CursorsHold'
  BY <1>6, <1>13, <1>15 DEF LoggedInv, CursorsHold
<1> QED BY <1>10, <1>11, <1>12, <1>14, <1>16, <1>17, <1>18, <1>19 DEF LoggedInv, ChainsBelong

\* An event without a row of the hook is passed over.
LEMMA PassesOverStep ==
  ASSUME Logged, LoggedInv, NEW r \in Readers, PassesOver(r),
         UNCHANGED <<engine, tip, slot, runs, live, stream, call, proc, traced, missed>>
  PROVE  LoggedInv'
<1> DEFINE p == reader[r].at
<1>1. /\ Settled /\ reader[r].mode = "reading" /\ reader[r].out = {} /\ Rows[p[1]] = 0
      /\ reader' = [reader EXCEPT ![r].at = Start(p[1] + 1)]
  BY DEF PassesOver, Ready, Logged
<1>2. /\ reader \in [Readers -> ReaderRecord] /\ p \in (Nat \ {0}) \X Nat /\ Reached(Excused, p)
  BY <1>1 DEF LoggedInv, Types, ReaderRecord, CursorsHold
<1> HIDE DEF p
<1>3. Reached(Excused, Start(p[1] + 1)) /\ Start(p[1] + 1) \in (Nat \ {0}) \X Nat
  BY <1>1, <1>2, ReachedOver
<1>4. /\ reader' \in [Readers -> ReaderRecord]
      /\ reader'[r].at = Start(p[1] + 1)
      /\ \A q \in Readers \ {r} : reader'[q] = reader[q]
      /\ \A q \in Readers : /\ reader'[q].mode = reader[q].mode /\ reader'[q].of = reader[q].of
                            /\ reader'[q].out = reader[q].out
  BY <1>1, <1>2, <1>3 DEF ReaderRecord
<1>5. Excused' = Excused
  BY DEF Excused
<1>6. ChainsBelong'
  <2>1. EntriesWait'
    <3> SUFFICES ASSUME NEW t \in Streams, NEW i \in DOMAIN stream[t].chain,
                        NEW e, e = stream[t].chain[i]
                 PROVE  Waits(t, e)'
      BY DEF EntriesWait
    <3>1. e[1] \in Readers /\ Waits(t, e)
      BY DEF LoggedInv, ChainsBelong, EntriesWait, Types, StreamRecord
    <3>2. e[1] # r
      BY <1>1, <3>1 DEF Waits
    <3> QED BY <1>4, <3>1, <3>2 DEF Waits
  <2> QED BY <2>1 DEF LoggedInv, ChainsBelong, EntriesApart, HeadsWork
<1>7. Types'
  BY <1>4 DEF LoggedInv, Types
<1>8. OneStarter' /\ StartsAlone'
  BY <1>4, StartsStay
<1>9. ReadersBelong'
  BY <1>4 DEF LoggedInv, ReadersBelong
<1>10. OneTail'
  BY <1>4, <1>5 DEF LoggedInv, OneTail, Tailing
<1>11. CursorsHold'
  BY <1>3, <1>4, <1>5 DEF LoggedInv, CursorsHold
<1> QED BY <1>6, <1>7, <1>8, <1>9, <1>10, <1>11 DEF LoggedInv

\* A provider reconnects: a new loop, behind nothing that was missed.
LEMMA ReopensStep ==
  ASSUME Logged, LoggedInv, NEW r \in Readers, NEW w \in Resume, Reopens(r, w),
         engine = "postgres" => slot # -1,
         engine = "mongodb" => Accounted(Excused, w) /\ reader[r].out = {}
  PROVE  LoggedInv'
<1> DEFINE s == reader[r].of
           n == IF reader[r].out # {} THEN FreeReader ELSE r
<1>1. /\ Settled /\ reader[r].mode = "reading" /\ (reader[r].out # {} => HasFreeReader)
      /\ reader' = [Stopped(s) EXCEPT ![n] = NewReader(s, w)]
      /\ missed' = Missing(w) /\ stream' = [stream EXCEPT ![s].pos = w]
      /\ UNCHANGED <<engine, tip, slot, runs, live, call, proc, traced>>
  BY DEF Reopens, source, database
<1>2. /\ s = live /\ s \in Streams /\ s # 0 /\ stream[s].handle /\ stream[s].run # 0
      /\ stream \in [Streams -> StreamRecord] /\ reader \in [Readers -> ReaderRecord] /\ Types
  BY <1>1, ReadsLive DEF LoggedInv, Types, ReadersBelong
<1>3. /\ n \in Readers
      /\ reader[n].mode = "free" \/ (n = r /\ reader[r].out = {})
  BY <1>1, FreeReaderOK
<1>4. /\ missed' \in [tip : SUBSET Changes, event : SUBSET Changes]
      /\ Excused \subseteq Excused'
      /\ OpensAt(w) \in (Nat \ {0}) \X Nat /\ Reached(Excused', OpensAt(w))
  BY <1>1, OpensReached
<1> DEFINE z == Stopped(s)
<1>5. /\ z \in [Readers -> ReaderRecord]
      /\ \A q \in Readers :
           \/ z[q] = reader[q] /\ (reader[q].mode = "free" \/ reader[q].of # s)
           \/ z[q].mode = "free" /\ reader[q].out = {} /\ reader[q].of = s /\ reader[q].mode # "free"
           \/ /\ z[q].mode = "draining" /\ z[q].of = reader[q].of
              /\ z[q].at = reader[q].at /\ z[q].out = reader[q].out
              /\ reader[q].of = s /\ reader[q].mode # "free"
  BY <1>2, StoppedOK
<1> HIDE DEF s, n, z
<1>6. /\ reader' \in [Readers -> ReaderRecord]
      /\ reader'[n].of = s /\ reader'[n].mode = "reading" /\ reader'[n].at = OpensAt(w)
      /\ \A q \in Readers \ {n} : reader'[q] = z[q]
  BY <1>1, <1>2, <1>3, <1>4, <1>5, NewReaderOK DEF z
<1>7. \A q \in Readers \ {n} : Quieter(q) /\ reader'[q].mode # "reading"
  <2>1. \A q \in Readers : reader[q].mode = "reading" => reader[q].of = s
    BY <1>1, <1>2, ReadsLive
  <2> QED BY <1>5, <1>6, <2>1 DEF Quieter
<1>8. /\ stream' \in [Streams -> StreamRecord] /\ stream'[s].pos = w
      /\ \A t \in Streams : /\ stream'[t].run = stream[t].run /\ stream'[t].handle = stream[t].handle
                            /\ stream'[t].chain = stream[t].chain /\ stream'[t].step = stream[t].step
                            /\ stream'[t].watermark = stream[t].watermark
  BY <1>1, <1>2 DEF StreamRecord
<1>9. ChainsBelong'
  <2>1. EntriesWait'
    <3> SUFFICES ASSUME NEW t \in Streams, NEW i \in DOMAIN stream[t].chain,
                        NEW e, e = stream[t].chain[i]
                 PROVE  Waits(t, e)'
      BY <1>8 DEF EntriesWait
    <3>1. e[1] \in Readers /\ Waits(t, e)
      BY <1>2 DEF LoggedInv, ChainsBelong, EntriesWait, StreamRecord
    <3>2. e[1] # n /\ reader[e[1]].out # {}
      BY <1>3, <3>1 DEF Waits
    <3>3. Quieter(e[1]) /\ reader'[e[1]].mode # "reading"
      BY <1>7, <3>1, <3>2
    <3> QED BY <3>1, <3>2, <3>3 DEF Waits, Quieter
  <2> QED BY <1>1, <1>8, <2>1 DEF LoggedInv, ChainsBelong, EntriesApart, HeadsWork
<1>10. Types'
  BY <1>1, <1>4, <1>6, <1>8 DEF LoggedInv, Types
<1>11. \A q \in Readers : q # n /\ reader'[q].mode # "free" =>
          reader[q].mode # "free" /\ reader'[q].of = reader[q].of /\ reader'[q].at = reader[q].at
  BY <1>7 DEF Quieter
<1>12. OneStarter' /\ StartsAlone'
  <2>1. reader[r].mode # "free" /\ reader[r].of = s
    BY <1>1 DEF s
  <2> QED BY <1>1, <1>6, <1>8, <1>11, <2>1, StartsStay
<1>13. ReadersBelong'
  BY <1>1, <1>2, <1>6, <1>7, <1>8, <1>11 DEF LoggedInv, ReadersBelong
<1>14. OneTail'
  <2> SUFFICES ASSUME engine = "mongodb", NEW q \in Readers, reader'[q].mode = "reading"
               PROVE  Tailing(q)'
    BY <1>1 DEF OneTail
  <2>0. q = n /\ reader'[q].of = s
    BY <1>6, <1>7
  <2>1. Accounted(Excused', stream'[s].pos)
    BY <1>4, <1>8, AccountedGrows
  <2>2. ASSUME NEW p \in Readers, p # q, reader'[p].mode # "free", reader'[p].of = s PROVE FALSE
    <3>1. reader[p].mode # "free" /\ reader[p].of = s
      BY <1>11, <2>0, <2>2
    <3>2. p = r
      BY <1>1, <3>1 DEF LoggedInv, OneTail, Tailing, s
    <3>3. n = r
      BY DEF n
    <3> QED BY <2>0, <2>2, <3>2, <3>3
  <2>3. \A p \in Readers : reader'[p].mode # "free" /\ reader'[p].of = reader'[q].of => p = q
    BY <2>0, <2>2
  <2>4. Accounted(Excused', stream'[reader'[q].of].pos)
    BY <2>0, <2>1
  <2> QED BY <2>3, <2>4 DEF Tailing
<1>15. CursorsHold'
  <2>1. \A q \in Readers : reader'[q].mode # "free" => Reached(Excused', reader'[q].at)
    BY <1>4, <1>6, <1>11, AccountedGrows DEF LoggedInv, CursorsHold
  <2> QED BY <1>1, <1>4, <1>8, <2>1, AccountedGrows DEF LoggedInv, CursorsHold
<1> QED BY <1>9, <1>10, <1>12, <1>13, <1>14, <1>15 DEF LoggedInv

\* What a loop of an engine with a log does.
LEMMA ReaderSteps ==
  ASSUME Orderly, Logged, LoggedInv, SlotIsPostgres, NEW r \in Readers, ReaderNext(r)
  PROVE  LoggedInv'
<1>1. CASE OnWalRecord(r) \/ OnOplogEntry(r)
  <2>1. UNCHANGED <<engine, tip, slot, runs, live, call, proc, traced, missed>>
    BY <1>1 DEF OnWalRecord, OnOplogEntry, ReadsOn, source, database, history
  <2> QED BY <1>1, <2>1, HandsOverStep, PassesOverStep DEF OnWalRecord, OnOplogEntry
<1>2. CASE Acknowledge(r)
  BY <1>2, SourceSteps
<1>3. CASE Resubscribe(r)
  <2>1. reader[r].of \in Streams
    BY <1>3 DEF Resubscribe, Reopens, LoggedInv, ReadersBelong
  <2>2. stream[reader[r].of].pos \in Resume
    BY <2>1 DEF LoggedInv, Types, StreamRecord
  <2> QED BY <1>3, <2>2, ReopensStep DEF Resubscribe
<1>4. CASE Rewatch(r)
  <2>1. PICK w \in Resume : Reopens(r, w) /\ Accounted(Excused, w)
    <3>1. CASE Reopens(r, stream[reader[r].of].pos)
      <4>1. reader[r].of \in Streams /\ reader[r].mode = "reading"
        BY <3>1 DEF Reopens, LoggedInv, ReadersBelong
      <4>2. stream[reader[r].of].pos \in Resume
        BY <4>1 DEF LoggedInv, Types, StreamRecord
      <4>3. Accounted(Excused, stream[reader[r].of].pos)
        BY <1>4, <4>1 DEF Rewatch, LoggedInv, OneTail, Tailing
      <4> QED BY <3>1, <4>2, <4>3
    <3>2. CASE Reopens(r, None)
      BY <3>2, AccountedNone DEF Resume
    <3> QED BY <1>4, <3>1, <3>2 DEF Rewatch
  <2> QED BY <1>4, <2>1, ReopensStep DEF Rewatch
<1> QED BY <1>1, <1>2, <1>3, <1>4 DEF ReaderNext, Logged, OnBinlogEvent, OnNotification,
          RestartInstance, Reconnect, BuildRow

\* A change goes on through the pipeline: only the step of its stream moves.
LEMMA StepsStep ==
  ASSUME LoggedInv, NEW s \in Streams, NEW step \in {"record", "save", "failed"},
         StepTo(s, step), stream[s].chain # <<>>,
         UNCHANGED <<engine, tip, slot, runs, live, reader, call, proc, missed>>,
         traced \subseteq traced', step = "save" => stream[s].chain[1][2] \in traced'
  PROVE  LoggedInv'
<1>1. Excused \subseteq Excused'
  BY DEF Excused
<1>2. /\ stream' \in [Streams -> StreamRecord] /\ stream'[s].step = step
      /\ \A t \in Streams : /\ stream'[t].run = stream[t].run /\ stream'[t].handle = stream[t].handle
                            /\ stream'[t].chain = stream[t].chain /\ stream'[t].pos = stream[t].pos
                            /\ stream'[t].watermark = stream[t].watermark
                            /\ t # s => stream'[t].step = stream[t].step
  <2>1. stream \in [Streams -> StreamRecord] /\ stream' = [stream EXCEPT ![s].step = step]
    BY DEF LoggedInv, Types, StepTo
  <2> QED BY <2>1 DEF StreamRecord
<1>3. Types'
  BY <1>2 DEF LoggedInv, Types
<1>4. OneStarter' /\ StartsAlone'
  BY <1>2, StartsStay
<1>5. ReadersBelong'
  BY <1>2 DEF LoggedInv, ReadersBelong
<1>6. ChainsBelong'
  <2>1. EntriesWait'
    <3> SUFFICES ASSUME NEW t \in Streams, NEW i \in DOMAIN stream[t].chain,
                        NEW e, e = stream[t].chain[i]
                 PROVE  Waits(t, e)'
      BY <1>2 DEF EntriesWait
    <3>1. Waits(t, e)
      BY DEF LoggedInv, ChainsBelong, EntriesWait
    <3> QED BY <3>1 DEF Waits
  <2>3. EntriesApart'
    BY <1>2 DEF LoggedInv, ChainsBelong, EntriesApart
  <2>2. HeadsWork'
    BY <1>2 DEF LoggedInv, ChainsBelong, HeadsWork
  <2> QED BY <2>1, <2>2, <2>3 DEF ChainsBelong
<1>7. OneTail'
  <2> SUFFICES ASSUME engine = "mongodb", NEW r \in Readers, reader[r].mode = "reading"
               PROVE  Tailing(r)'
    BY DEF OneTail
  <2>1. Tailing(r) /\ reader[r].of \in Streams
    BY DEF LoggedInv, OneTail, ReadersBelong
  <2>2. Accounted(Excused', stream'[reader'[r].of].pos)
    BY <1>1, <1>2, <2>1, AccountedGrows DEF Tailing
  <2> QED BY <2>1, <2>2 DEF Tailing
<1>8. CursorsHold'
  BY <1>1, <1>2, AccountedGrows DEF LoggedInv, CursorsHold
<1> QED BY <1>3, <1>4, <1>5, <1>6, <1>7, <1>8 DEF LoggedInv

\* The change at the head of a chain.
LEMMA HeadOK ==
  ASSUME LoggedInv, NEW s \in Streams, stream[s].chain # <<>>
  PROVE  /\ stream[s].chain \in Seq(Readers \X Places)
         /\ 1 \in DOMAIN stream[s].chain /\ Head1(s) = stream[s].chain[1]
         /\ Head1(s)[1] \in Readers /\ Head1(s)[2] \in Places
         /\ Waits(s, Head1(s))
         /\ reader[Head1(s)[1]].of \in Streams
         /\ Reached(Excused, Head1(s)[2])
<1>1. stream[s].chain \in Seq(Readers \X Places)
  BY DEF LoggedInv, Types, StreamRecord
<1>2. 1 \in DOMAIN stream[s].chain /\ stream[s].chain[1] \in Readers \X Places
  BY <1>1, EmptySeq, LenProperties
<1>3. Waits(s, Head1(s)) /\ Head1(s) = stream[s].chain[1]
  BY <1>2 DEF Head1, LoggedInv, ChainsBelong, EntriesWait
<1>4. Head1(s)[1] \in Readers /\ Head1(s)[2] \in Places
  BY <1>2, <1>3
<1> QED BY <1>1, <1>2, <1>3, <1>4 DEF Waits, LoggedInv, ReadersBelong, CursorsHold

\* The chain moves on; nobody else waits for the loop that the change came from.
LEMMA ChainMoves ==
  ASSUME LoggedInv, NEW s \in Streams, stream[s].chain # <<>>,
         stream'[s].chain = Tail(stream[s].chain), stream'[s].step = "idle",
         \A t \in Streams \ {s} : stream'[t].chain = stream[t].chain /\ stream'[t].step = stream[t].step,
         traced \subseteq traced',
         \A q \in Readers \ {Head1(s)[1]} :
           Quieter(q) /\ (reader'[q].mode = "reading" => live' = live)
  PROVE  ChainsBelong'
<1>1. stream[s].chain \in Seq(Readers \X Places) /\ 1 \in DOMAIN stream[s].chain
      /\ Head1(s) = stream[s].chain[1]
  BY HeadOK
<1>2. ASSUME NEW i \in DOMAIN stream'[s].chain
      PROVE  /\ i \in Nat /\ i + 1 # 1 /\ i + 1 \in DOMAIN stream[s].chain
             /\ stream'[s].chain[i] = stream[s].chain[i + 1]
  <2>1. Len(stream[s].chain) \in Nat /\ DOMAIN stream[s].chain = 1 .. Len(stream[s].chain)
    BY <1>1
  <2>2. /\ DOMAIN Tail(stream[s].chain) = 1 .. Len(stream[s].chain) - 1
        /\ \A j \in 1 .. Len(stream[s].chain) - 1 : Tail(stream[s].chain)[j] = stream[s].chain[j + 1]
    BY <1>1, <2>1
  <2> QED BY <1>2, <2>1, <2>2
<1> DEFINE old(t, i) == IF t = s THEN i + 1 ELSE i
<1>3. ASSUME NEW t \in Streams, NEW i \in DOMAIN stream'[t].chain
      PROVE  /\ old(t, i) \in DOMAIN stream[t].chain
             /\ stream'[t].chain[i] = stream[t].chain[old(t, i)]
             /\ ~(t = s /\ old(t, i) = 1)
  BY <1>2
<1>4. ASSUME NEW t \in Streams, NEW i \in DOMAIN stream'[t].chain
      PROVE  stream'[t].chain[i][1] # Head1(s)[1]
  <2>1. old(t, i) \in DOMAIN stream[t].chain /\ ~(t = s /\ old(t, i) = 1)
        /\ stream'[t].chain[i] = stream[t].chain[old(t, i)]
    BY <1>3
  <2> HIDE DEF old
  <2>2. EntriesApart
    BY DEF LoggedInv, ChainsBelong
  <2> QED BY <1>1, <2>1, <2>2 DEF EntriesApart
<1>5. EntriesWait'
  <2> SUFFICES ASSUME NEW t \in Streams, NEW i \in DOMAIN stream'[t].chain,
                      NEW e, e = stream'[t].chain[i]
               PROVE  Waits(t, e)'
    BY DEF EntriesWait
  <2>1. old(t, i) \in DOMAIN stream[t].chain /\ e = stream[t].chain[old(t, i)]
    BY <1>3
  <2>2. e[1] \in Readers /\ Waits(t, e)
    BY <2>1 DEF LoggedInv, ChainsBelong, EntriesWait, Types, StreamRecord
  <2>3. Quieter(e[1]) /\ (reader'[e[1]].mode = "reading" => live' = live)
    BY <1>4, <2>2
  <2> HIDE DEF old
  <2> QED BY <2>2, <2>3 DEF Waits, Quieter
<1>6. EntriesApart'
  <2> SUFFICES ASSUME NEW t \in Streams, NEW u \in Streams,
                      NEW i \in DOMAIN stream'[t].chain, NEW j \in DOMAIN stream'[u].chain,
                      stream'[t].chain[i][1] = stream'[u].chain[j][1]
               PROVE  t = u /\ i = j
    BY DEF EntriesApart
  <2>1. t = u /\ old(t, i) = old(u, j)
    <3> HIDE DEF old
    <3> QED BY <1>3 DEF LoggedInv, ChainsBelong, EntriesApart
  <2>2. t = s => i \in Nat /\ j \in Nat
    BY <1>2, <2>1
  <2> QED BY <2>1, <2>2
<1>7. HeadsWork'
  BY DEF LoggedInv, ChainsBelong, HeadsWork
<1> QED BY <1>5, <1>6, <1>7 DEF ChainsBelong

\* A loop whose change is done reads on behind it, or ends when it was told to.
LEMMA FinishedOK ==
  ASSUME Logged, NEW l \in ReaderRecord, NEW c \in Places, l.mode # "free", l.out = {c}
  PROVE  /\ Finished(l, c) \in ReaderRecord
         /\ l.mode = "draining" => Finished(l, c).mode = "free"
         /\ l.mode = "reading" => /\ Finished(l, c).mode = "reading" /\ Finished(l, c).of = l.of
                                  /\ Finished(l, c).at = After(c) /\ Finished(l, c).out = {}
<1>1. CASE l.mode = "draining"
  <2>1. Finished(l, c) = NoReader
    BY <1>1 DEF Finished, Logged
  <2> QED BY <1>1, <2>1 DEF NoReader, ReaderRecord, Start
<1>2. CASE l.mode = "reading"
  <2>1. Finished(l, c) = [[l EXCEPT !.out = @ \ {c}] EXCEPT !.at = After(c)]
    BY <1>2 DEF Finished, Logged
  <2>2. After(c) \in (Nat \ {0}) \X Nat
    BY PlaceOK DEF After, Start
  <2>3. l.out \ {c} = {}
    OBVIOUS
  <2> QED BY <1>2, <2>1, <2>2, <2>3 DEF ReaderRecord
<1> QED BY <1>1, <1>2 DEF ReaderRecord

\* What a change that is done leaves of its stream and of its loop.
LEMMA DoneOK ==
  ASSUME Logged, LoggedInv, NEW s \in Streams, NEW rec, Done(s, rec), stream[s].chain # <<>>,
         rec.seq \in Nat, rec.watermark \in Resume,
         NEW r, r = Head1(s)[1], NEW c, c = Head1(s)[2], NEW o, o = reader[r].of
  PROVE  /\ r \in Readers /\ c \in Places /\ o \in Streams
         /\ reader[r].mode # "free" /\ reader[r].out = {c}
         /\ stream' \in [Streams -> StreamRecord]
         /\ stream'[s].chain = Tail(stream[s].chain) /\ stream'[s].step = "idle"
         /\ stream'[s].watermark = rec.watermark /\ stream'[s].seq = rec.seq /\ stream'[o].pos = c
         /\ \A t \in Streams \ {s} : /\ stream'[t].chain = stream[t].chain /\ stream'[t].step = stream[t].step
                                     /\ stream'[t].watermark = stream[t].watermark
                                     /\ stream'[t].seq = stream[t].seq
         /\ \A t \in Streams : /\ stream'[t].run = stream[t].run /\ stream'[t].handle = stream[t].handle
                               /\ t # o => stream'[t].pos = stream[t].pos
         /\ reader' \in [Readers -> ReaderRecord]
         /\ \A q \in Readers \ {r} : reader'[q] = reader[q]
         /\ reader[r].mode = "draining" => reader'[r].mode = "free"
         /\ reader[r].mode = "reading" =>
              reader'[r].mode = "reading" /\ reader'[r].of = o /\ reader'[r].at = After(c)
         /\ reader[r].mode \in {"reading", "draining"}
<1>2. /\ r \in Readers /\ c \in Places /\ o \in Streams
      /\ reader[r].mode # "free" /\ reader[r].out = {c}
      /\ stream \in [Streams -> StreamRecord] /\ reader \in [Readers -> ReaderRecord]
  BY HeadOK DEF Waits, LoggedInv, Types
<1>3. /\ reader' = [reader EXCEPT ![r] = Finished(@, c)]
      /\ stream' = [[stream EXCEPT ![o].pos = c]
                      EXCEPT ![s].chain = Tail(@), ![s].step = "idle",
                             ![s].seq = rec.seq, ![s].watermark = rec.watermark]
  BY <1>2 DEF Done, Position, Logged
<1>5. /\ stream' \in [Streams -> StreamRecord]
      /\ stream'[s].chain = Tail(stream[s].chain) /\ stream'[s].step = "idle"
      /\ stream'[s].watermark = rec.watermark /\ stream'[s].seq = rec.seq /\ stream'[o].pos = c
      /\ \A t \in Streams \ {s} : /\ stream'[t].chain = stream[t].chain /\ stream'[t].step = stream[t].step
                                  /\ stream'[t].watermark = stream[t].watermark
                                  /\ stream'[t].seq = stream[t].seq
      /\ \A t \in Streams : /\ stream'[t].run = stream[t].run /\ stream'[t].handle = stream[t].handle
                            /\ t # o => stream'[t].pos = stream[t].pos
  <2> DEFINE y == [stream EXCEPT ![o].pos = c]
  <2>1. /\ y \in [Streams -> StreamRecord] /\ y[o].pos = c
        /\ \A t \in Streams : /\ y[t].run = stream[t].run /\ y[t].handle = stream[t].handle
                              /\ y[t].chain = stream[t].chain /\ y[t].step = stream[t].step
                              /\ y[t].watermark = stream[t].watermark /\ y[t].seq = stream[t].seq
                              /\ t # o => y[t].pos = stream[t].pos
    BY ONLY <1>2 DEF StreamRecord, Resume
  <2>2. stream' = [y EXCEPT ![s].chain = Tail(@), ![s].step = "idle",
                            ![s].seq = rec.seq, ![s].watermark = rec.watermark]
    BY <1>3
  <2> HIDE DEF y
  <2>3. Tail(y[s].chain) \in Seq(Readers \X Places)
    BY <2>1, HeadOK, EmptySeq, LenProperties
  <2>4. PICK q \in Nat, w \in Resume : q = rec.seq /\ w = rec.watermark
    OBVIOUS
  <2> DEFINE h == [y[s] EXCEPT !.chain = Tail(@), !.step = "idle", !.seq = q, !.watermark = w]
  <2>6. /\ h \in StreamRecord /\ h.chain = Tail(y[s].chain) /\ h.step = "idle" /\ h.watermark = w /\ h.seq = q
        /\ h.run = y[s].run /\ h.handle = y[s].handle /\ h.pos = y[s].pos
    <3>1. y[s] \in StreamRecord
      BY <2>1
    <3> QED BY <2>3, <3>1 DEF StreamRecord
  <2>7. stream' = [y EXCEPT ![s] = h]
    BY <2>1, <2>2, <2>4
  <2> HIDE DEF h
  <2>5. /\ stream' \in [Streams -> StreamRecord]
        /\ stream'[s].chain = Tail(y[s].chain) /\ stream'[s].step = "idle"
        /\ stream'[s].watermark = w /\ stream'[s].seq = q
        /\ \A t \in Streams \ {s} : stream'[t] = y[t]
        /\ \A t \in Streams : /\ stream'[t].run = y[t].run /\ stream'[t].handle = y[t].handle
                              /\ stream'[t].pos = y[t].pos
    BY <2>1, <2>6, <2>7
  <2> QED BY <1>2, <2>1, <2>4, <2>5
<1>6. /\ reader' \in [Readers -> ReaderRecord]
      /\ \A q \in Readers \ {r} : reader'[q] = reader[q]
      /\ reader[r].mode = "draining" => reader'[r].mode = "free"
      /\ reader[r].mode = "reading" =>
           reader'[r].mode = "reading" /\ reader'[r].of = o /\ reader'[r].at = After(c)
      /\ reader[r].mode \in {"reading", "draining"}
  <2>1. reader[r] \in ReaderRecord
    BY <1>2
  <2>2. /\ Finished(reader[r], c) \in ReaderRecord
        /\ reader[r].mode = "draining" => Finished(reader[r], c).mode = "free"
        /\ reader[r].mode = "reading" =>
             /\ Finished(reader[r], c).mode = "reading" /\ Finished(reader[r], c).of = reader[r].of
             /\ Finished(reader[r], c).at = After(c)
    BY <1>2, <2>1, FinishedOK
  <2>3. reader[r].mode \in {"reading", "draining"}
    BY <1>2, <2>1 DEF ReaderRecord
  <2> QED BY <1>2, <1>3, <2>2, <2>3
<1> QED BY <1>2, <1>5, <1>6

\* It is recorded, or dropped, and its loop goes on.
LEMMA DoneStep ==
  ASSUME Logged, LoggedInv, NEW s \in Streams, NEW rec, Done(s, rec), stream[s].chain # <<>>,
         rec.seq \in Nat, rec.watermark \in Resume, Accounted(Excused', rec.watermark),
         reader[Head1(s)[1]].mode = "reading" => Accounted(Excused', Head1(s)[2]),
         UNCHANGED <<engine, tip, slot, live, call, proc, missed>>, traced \subseteq traced',
         runs' \in Seq(RunRecord), Len(runs') <= 1,
         \A n \in DOMAIN runs' : Accounted(Excused', runs'[n].cursor)
  PROVE  LoggedInv'
<1> DEFINE r == Head1(s)[1]
           c == Head1(s)[2]
           o == reader[r].of
<1>1. Excused \subseteq Excused'
  BY DEF Excused
<1>2. /\ r \in Readers /\ c \in Places /\ o \in Streams
      /\ reader[r].mode # "free" /\ reader[r].out = {c}
      /\ stream \in [Streams -> StreamRecord] /\ reader \in [Readers -> ReaderRecord]
  BY HeadOK DEF Waits, LoggedInv, Types
<1>4. reader[r].mode = "reading" => Accounted(Excused', c)
  OBVIOUS
<1>5. /\ stream' \in [Streams -> StreamRecord]
      /\ stream'[s].chain = Tail(stream[s].chain) /\ stream'[s].step = "idle"
      /\ stream'[s].watermark = rec.watermark /\ stream'[o].pos = c
      /\ \A t \in Streams \ {s} : /\ stream'[t].chain = stream[t].chain /\ stream'[t].step = stream[t].step
                                  /\ stream'[t].watermark = stream[t].watermark
      /\ \A t \in Streams : /\ stream'[t].run = stream[t].run /\ stream'[t].handle = stream[t].handle
                            /\ t # o => stream'[t].pos = stream[t].pos
  BY DoneOK
<1>6. /\ reader' \in [Readers -> ReaderRecord]
      /\ \A q \in Readers \ {r} : reader'[q] = reader[q]
      /\ reader'[r].mode # "free" =>
           /\ reader'[r].mode = "reading" /\ reader[r].mode = "reading"
           /\ reader'[r].of = o /\ reader'[r].at = After(c)
  BY DoneOK
<1> HIDE DEF r, c, o
<1>7. \A q \in Readers : reader'[q].mode # "free" =>
        /\ reader[q].mode # "free" /\ reader'[q].of = reader[q].of
        /\ reader'[q].mode = reader[q].mode
  BY <1>2, <1>6 DEF o
<1>8. Types'
  BY <1>5, <1>6 DEF LoggedInv, Types
<1>9. OneStarter' /\ StartsAlone'
  BY <1>5, <1>7, StartsStay
<1>10. ReadersBelong'
  BY <1>5, <1>7 DEF LoggedInv, ReadersBelong
<1>11. ChainsBelong'
  BY <1>5, <1>6, ChainMoves DEF Quieter, r
<1>12. OneTail'
  <2> SUFFICES ASSUME engine = "mongodb", NEW q \in Readers, reader'[q].mode = "reading"
               PROVE  Tailing(q)'
    BY DEF OneTail
  <2>1. Tailing(q) /\ reader[q].of \in Streams /\ reader'[q].of = reader[q].of
    BY <1>7 DEF LoggedInv, OneTail, ReadersBelong
  <2>2. reader[q].of = o => q = r /\ reader[r].mode = "reading"
    BY <1>2, <1>6, <1>7, <2>1 DEF Tailing, o
  <2>3. Accounted(Excused', stream'[reader'[q].of].pos)
    BY <1>1, <1>4, <1>5, <2>1, <2>2, AccountedGrows DEF Tailing
  <2> QED BY <1>7, <2>1, <2>3 DEF Tailing
<1>13. CursorsHold'
  <2>1. reader[r].mode = "reading" => Reached(Excused', After(c))
    BY <1>2, <1>4, ReachedAfter
  <2>2. \A q \in Readers : reader'[q].mode # "free" => Reached(Excused', reader'[q].at)
    BY <1>1, <1>6, <1>7, <2>1, AccountedGrows DEF LoggedInv, CursorsHold
  <2>3. \A t \in Streams : Accounted(Excused', stream'[t].watermark)
    BY <1>1, <1>5, AccountedGrows DEF LoggedInv, CursorsHold
  <2> QED BY <1>1, <2>2, <2>3, AccountedGrows DEF LoggedInv, CursorsHold
<1> QED BY <1>8, <1>9, <1>10, <1>11, <1>12, <1>13 DEF LoggedInv

\* The stream ends: its loops are told to stop, and what it holds of the log stays as
\* it was for the run that is started again.
LEMMA GiveUpStep ==
  ASSUME Logged, LoggedInv, NEW s \in Streams, GiveUp(s)
  PROVE  LoggedInv'
<1> DEFINE r == Head1(s)[1]
           c == Head1(s)[2]
           z == IF live # 0 /\ stream[live].handle THEN Stopped(live) ELSE reader
<1>1. /\ Settled /\ stream[s].chain # <<>> /\ live' = 0
      /\ reader' = [z EXCEPT ![r] = Finished(@, c)]
      /\ stream' = [stream EXCEPT ![s].chain = Tail(@), ![s].step = "idle"]
      /\ UNCHANGED <<engine, tip, slot, call, proc, traced, missed>>
      /\ Finalize(stream[s].run, "failed") \/ UNCHANGED runs
  BY DEF GiveUp, At, source
<1>2. /\ r \in Readers /\ c \in Places /\ reader[r].mode # "free" /\ reader[r].out = {c}
      /\ stream \in [Streams -> StreamRecord] /\ reader \in [Readers -> ReaderRecord] /\ Types
  BY <1>1, HeadOK DEF Waits, LoggedInv, Types
<1>3. /\ z \in [Readers -> ReaderRecord]
      /\ \A q \in Readers :
           /\ z[q].mode # "reading"
           /\ \/ z[q] = reader[q]
              \/ z[q].mode = "free" /\ reader[q].out = {}
              \/ /\ z[q].mode = "draining" /\ reader[q].mode # "free" /\ z[q].of = reader[q].of
                 /\ z[q].at = reader[q].at /\ z[q].out = reader[q].out
  <2>1. CASE live # 0 /\ stream[live].handle
    <3>1. z = Stopped(live)
      BY <2>1
    <3>2. \A q \in Readers : reader[q].mode = "reading" => reader[q].of = live
      BY <1>1, ReadsLive
    <3> HIDE DEF z
    <3> QED BY <1>2, <3>1, <3>2, StoppedOK
  <2>2. CASE live = 0 \/ ~stream[live].handle
    <3>1. z = reader
      BY <2>2
    <3> HIDE DEF z
    <3> QED BY <1>1, <1>2, <2>2, <3>1, NothingReads
  <2> QED BY <2>1, <2>2
<1>4. z[r].mode = "draining" /\ z[r].out = {c}
  <2>1. z[r].mode \in {"reading", "draining"} /\ z[r].out = {c}
    <3>1. reader[r].out # {} /\ reader[r].mode \in {"reading", "draining"}
      BY <1>2 DEF ReaderRecord
    <3> HIDE DEF r, c, z
    <3> QED BY <1>2, <1>3, <3>1
  <2> QED BY <1>2, <1>3, <2>1
<1> HIDE DEF r, c, z
<1>5. /\ reader' \in [Readers -> ReaderRecord]
      /\ reader'[r].mode = "free" /\ \A q \in Readers \ {r} : reader'[q] = z[q]
  <2>1. z[r] \in ReaderRecord
    BY <1>2, <1>3
  <2>2. Finished(z[r], c) \in ReaderRecord /\ Finished(z[r], c).mode = "free"
    BY <1>2, <1>4, <2>1, FinishedOK
  <2> QED BY <1>1, <1>2, <1>3, <2>2
<1>6. \A q \in Readers : reader'[q].mode # "reading"
  BY <1>3, <1>5
<1>7. \A q \in Readers \ {r} : Quieter(q)
  BY <1>3, <1>5 DEF Quieter
<1>8. \A q \in Readers : reader'[q].mode # "free" =>
        reader[q].mode # "free" /\ reader'[q].of = reader[q].of /\ reader'[q].at = reader[q].at
  BY <1>5, <1>7 DEF Quieter
<1>9. /\ stream' \in [Streams -> StreamRecord]
      /\ stream'[s].chain = Tail(stream[s].chain) /\ stream'[s].step = "idle"
      /\ \A t \in Streams \ {s} : stream'[t].chain = stream[t].chain /\ stream'[t].step = stream[t].step
      /\ \A t \in Streams : /\ stream'[t].run = stream[t].run /\ stream'[t].handle = stream[t].handle
                            /\ stream'[t].watermark = stream[t].watermark
  <2>1. Tail(stream[s].chain) \in Seq(Readers \X Places)
    BY <1>1, HeadOK, EmptySeq, LenProperties
  <2> QED BY <1>1, <1>2, <2>1 DEF StreamRecord
<1>10. /\ runs' \in Seq(RunRecord) /\ Len(runs') <= 1 /\ DOMAIN runs' = DOMAIN runs
       /\ \A m \in DOMAIN runs : runs'[m].cursor = runs[m].cursor
  BY <1>1, FinalizeOK
<1>11. Excused' = Excused
  BY <1>1 DEF Excused
<1>12. Types'
  BY <1>1, <1>5, <1>9, <1>10 DEF LoggedInv, Types
<1>13. OneStarter' /\ StartsAlone'
  BY <1>1, <1>8, <1>9, StartsStay
<1>14. ReadersBelong'
  BY <1>6, <1>8, <1>9 DEF LoggedInv, ReadersBelong
<1>15. ChainsBelong'
  BY <1>1, <1>6, <1>7, <1>9, ChainMoves DEF r
<1>16. OneTail'
  BY <1>6 DEF OneTail
<1>17. CursorsHold'
  BY <1>1, <1>8, <1>9, <1>10, <1>11 DEF LoggedInv, CursorsHold
<1> QED BY <1>12, <1>13, <1>14, <1>15, <1>16, <1>17 DEF LoggedInv

\* A stream's pipeline.
LEMMA PipelineSteps ==
  ASSUME Orderly, Logged, LoggedInv, NEW s \in Streams, PipelineNext(s)
  PROVE  LoggedInv'
<1>0. /\ runs \in Seq(RunRecord) /\ Len(runs) <= 1 /\ stream[s] \in StreamRecord
      /\ \A n \in DOMAIN runs : Accounted(Excused, runs[n].cursor)
      /\ Accounted(Excused, stream[s].watermark)
  BY DEF LoggedInv, Types, CursorsHold
<1>1. CASE Deliver(s)
  BY <1>1, StepsStep DEF Deliver, At, source, database
<1>2. CASE Record(s)
  <2>1. Head1(s) = stream[s].chain[1]
    BY DEF Head1
  <2>2. Head1(s)[2] \in traced' /\ traced \subseteq traced'
    BY <1>2 DEF Record, Entry
  <2> QED BY <1>2, <2>1, <2>2, StepsStep DEF Record, At, source
<1>3. CASE Throws(s)
  BY <1>3, StepsStep DEF Throws, At, source, database
<1>4. CASE GiveUp(s)
  BY <1>4, GiveUpStep
<1>5. CASE Drop(s)
  <2>1. /\ stream[s].chain # <<>> /\ Done(s, stream[s])
        /\ UNCHANGED <<engine, tip, slot, live, call, proc, missed, traced, runs>>
    BY <1>5 DEF Drop, At, CutIn, Logged, source, database
  <2>2. Excused' = Excused
    BY <2>1 DEF Excused
  <2>3. reader[Head1(s)[1]].mode = "reading" => Accounted(Excused, Head1(s)[2])
    <3> SUFFICES ASSUME reader[Head1(s)[1]].mode = "reading"
                 PROVE  Accounted(Excused, Head1(s)[2])
      OBVIOUS
    <3>1. /\ Head1(s)[2] \in Places /\ Waits(s, Head1(s)) /\ Reached(Excused, Head1(s)[2])
      BY <2>1, HeadOK
    <3>2. ~CursorAfter(Head1(s)[2], stream[s].watermark)
      BY <1>5, <3>1 DEF Drop, Waits
    <3>3. stream[s].watermark \in Resume
      BY <1>0 DEF StreamRecord
    <3> QED BY <1>0, <3>1, <3>2, <3>3, RepeatAccounted
  <2>4. stream[s].seq \in Nat /\ stream[s].watermark \in Resume
    BY <1>0 DEF StreamRecord
  <2> QED BY <1>0, <2>1, <2>2, <2>3, <2>4, DoneStep
<1>6. ASSUME stream[s].chain # <<>>
      PROVE  /\ Moved(s).seq \in Nat /\ Moved(s).watermark = Head1(s)[2]
             /\ Head1(s)[2] \in Resume
  <2>1. Head1(s)[2] \in Places
    BY <1>6, HeadOK
  <2> QED BY <1>0, <2>1 DEF Moved, StreamRecord, Resume
<1>7. ASSUME stream[s].chain # <<>>, Head1(s)[2] \in traced', traced \subseteq traced', missed' = missed
      PROVE  /\ Accounted(Excused', Head1(s)[2]) /\ Excused \subseteq Excused'
             /\ \A n \in DOMAIN runs : Accounted(Excused', runs[n].cursor)
  <2>1. Excused \subseteq Excused' /\ Head1(s)[2] \in Excused'
    BY <1>7 DEF Excused
  <2>2. Reached(Excused', Head1(s)[2])
    <3>1. Reached(Excused, Head1(s)[2])
      BY <1>7, HeadOK
    <3> QED BY <2>1, <3>1, AccountedGrows
  <2> QED BY <1>0, <2>1, <2>2, AccountedNext, AccountedGrows
<1>8. CASE RecordFailure(s)
  <2>1. /\ stream[s].chain # <<>> /\ Done(s, Moved(s))
        /\ Head1(s)[2] \in traced' /\ traced \subseteq traced'
        /\ UNCHANGED <<engine, tip, slot, live, call, proc, missed, runs>>
    BY <1>8 DEF RecordFailure, Entry, At, source
  <2>2. /\ Moved(s).seq \in Nat /\ Moved(s).watermark \in Resume
        /\ Moved(s).watermark = Head1(s)[2] /\ Accounted(Excused', Head1(s)[2])
        /\ \A n \in DOMAIN runs : Accounted(Excused', runs[n].cursor)
    BY <1>6, <1>7, <2>1
  <2> QED BY <1>0, <2>1, <2>2, DoneStep
<1>9. CASE Save(s)
  <2>1. /\ stream[s].chain # <<>> /\ Done(s, Moved(s)) /\ stream[s].step = "save"
        /\ runs' = [runs EXCEPT ![stream[s].run].offset = stream[s].seq + 1,
                                ![stream[s].run].cursor = Head1(s)[2]]
        /\ UNCHANGED <<engine, tip, slot, live, call, proc, missed, traced>>
    BY <1>9 DEF Save, At, source, history
  <2>2. Head1(s)[2] \in traced
    BY <2>1 DEF LoggedInv, ChainsBelong, HeadsWork, Head1
  <2>3. /\ Moved(s).seq \in Nat /\ Moved(s).watermark \in Resume
        /\ Moved(s).watermark = Head1(s)[2] /\ Accounted(Excused', Head1(s)[2])
        /\ \A n \in DOMAIN runs : Accounted(Excused', runs[n].cursor)
    BY <1>6, <1>7, <2>1, <2>2
  <2>4. /\ runs' \in Seq(RunRecord) /\ Len(runs') <= 1
        /\ \A n \in DOMAIN runs' : Accounted(Excused', runs'[n].cursor)
    <3>1. PICK c \in Resume, q \in Nat : c = Head1(s)[2] /\ q = stream[s].seq + 1
      BY <1>0, <1>6, <2>1 DEF StreamRecord
    <3>2. runs' = [runs EXCEPT ![stream[s].run].offset = q, ![stream[s].run].cursor = c]
      BY <2>1, <3>1
    <3>3. CASE stream[s].run \in DOMAIN runs
      <4> DEFINE y == [runs[stream[s].run] EXCEPT !.offset = q, !.cursor = c]
      <4>1. runs[stream[s].run] \in RunRecord
        BY <1>0, <3>3
      <4>2. y \in RunRecord /\ y.cursor = c
        BY <3>1, <4>1 DEF RunRecord
      <4>3. runs' = [runs EXCEPT ![stream[s].run] = y]
        BY <3>2, <3>3
      <4> HIDE DEF y
      <4>4. runs' \in Seq(RunRecord) /\ Len(runs') = Len(runs) /\ DOMAIN runs' = DOMAIN runs
        BY <1>0, <3>3, <4>2, <4>3
      <4>5. \A n \in DOMAIN runs : runs'[n] = IF n = stream[s].run THEN y ELSE runs[n]
        BY <1>0, <4>3
      <4> QED BY <1>0, <2>3, <3>1, <4>2, <4>4, <4>5
    <3>4. CASE stream[s].run \notin DOMAIN runs
      <4>1. runs' = runs
        BY <1>0, <3>2, <3>4
      <4> QED BY <1>0, <2>3, <4>1
    <3> QED BY <3>3, <3>4
  <2> QED BY <2>1, <2>3, <2>4, DoneStep
<1> QED BY <1>1, <1>2, <1>3, <1>4, <1>5, <1>8, <1>9 DEF PipelineNext
------------------------------------------------------------------------------
(***************************************************************************)
(* The invariant and the theorem.                                          *)
(***************************************************************************)

\* Nothing has been read.
LEMMA InitHolds ==
  ASSUME Orderly, Init
  PROVE  CdcInv
<1>1. engine \in Engines /\ SlotIsPostgres
  BY DEF Init, SlotIsPostgres
<1>2. NoStream \in StreamRecord /\ NoReader \in ReaderRecord
  BY DEF NoStream, NoReader, StreamRecord, ReaderRecord, Start, Resume
<1>3. Types
  <2>1. /\ tip = 0 /\ slot = -1 /\ runs = <<>> /\ live = 0
        /\ stream = [s \in Streams |-> NoStream] /\ reader = [r \in Readers |-> NoReader]
        /\ call = [c \in Actors |-> Idle] /\ missed = [tip |-> {}, event |-> {}]
    BY DEF Init
  <2>2. Len(Rows) \in Nat
    BY CdcConstants
  <2>3. runs \in Seq(RunRecord) /\ Len(runs) <= 1
    BY <2>1, EmptySeq
  <2>4. missed \in [tip : SUBSET Changes, event : SUBSET Changes]
    BY <2>1
  <2>5. /\ stream \in [Streams -> StreamRecord] /\ reader \in [Readers -> ReaderRecord]
        /\ call \in [Actors -> CallRecord]
    BY <1>2, <2>1, IdleOK
  <2> QED BY <2>1, <2>2, <2>3, <2>4, <2>5 DEF Types
<1>4. OneStarter /\ StartsAlone
  <2>1. \A c \in Actors : call[c].step = "idle" /\ call[c].op = "" /\ call[c] = Idle
    BY IdleOK DEF Init
  <2> QED BY <2>1 DEF OneStarter, StartsAlone, Starter, StartSteps, Actors
<1>5. ReadersBelong /\ OneTail
  <2>1. \A r \in Readers : reader[r].mode = "free"
    BY DEF Init, NoReader
  <2> QED BY <2>1 DEF ReadersBelong, OneTail
<1>6. ChainsBelong
  <2>1. \A s \in Streams : stream[s].chain = <<>> /\ stream[s].step = "idle"
    BY DEF Init, NoStream
  <2> QED BY <2>1 DEF ChainsBelong, EntriesWait, EntriesApart, HeadsWork
<1>7. CursorsHold
  <2>1. \A s \in Streams : stream[s].watermark = None
    BY DEF Init, NoStream
  <2>2. \A r \in Readers : reader[r].mode = "free"
    BY DEF Init, NoReader
  <2>3. \A c \in Actors : call[c].cursor = None
    BY IdleOK DEF Init
  <2>4. runs = <<>> /\ Logs(Excused, slot)
    BY ChangeOK DEF Init, Logs
  <2> QED BY <2>1, <2>2, <2>3, <2>4, AccountedNone DEF CursorsHold
<1> QED BY <1>1, <1>3, <1>4, <1>5, <1>6, <1>7 DEF CdcInv, LoggedInv

\* The slot is PostgreSQL's.
LEMMA SlotStays ==
  ASSUME SlotIsPostgres, [Next]_vars
  PROVE  engine' = engine /\ SlotIsPostgres'
<1>1. CASE UNCHANGED vars
  BY <1>1 DEF SlotIsPostgres, vars, source
<1>2. CASE Commit \/ Crash \/ Boot
  BY <1>2 DEF Commit, Crash, Boot, Provisioned, SlotIsPostgres, source
<1>3. ASSUME NEW c \in Actors, RequestNext(c)
      PROVE  engine' = engine /\ SlotIsPostgres'
  BY <1>3 DEF RequestNext, AskStart, Provision, Provisioned, UpdateRun, CheckStream, Register,
     OpenStream, OpenFails, AfterOpen, AskStop, FindRun, PauseRun, Restart, Deprovision,
     DeleteHook, SlotIsPostgres, source
<1>4. ASSUME NEW r \in Readers, ReaderNext(r)
      PROVE  engine' = engine /\ SlotIsPostgres'
  BY <1>4 DEF ReaderNext, OnWalRecord, OnBinlogEvent, OnOplogEntry, OnNotification, ReadsOn,
     Acknowledge, Resubscribe, RestartInstance, Rewatch, Reconnect, Reopens, BuildRow,
     SlotIsPostgres, source
<1>5. ASSUME NEW s \in Streams, PipelineNext(s)
      PROVE  engine' = engine /\ SlotIsPostgres'
  BY <1>5 DEF PipelineNext, Drop, Deliver, Record, Save, Throws, RecordFailure, GiveUp,
     SlotIsPostgres, source
<1> QED BY <1>1, <1>2, <1>3, <1>4, <1>5 DEF Next

\* Every step of the hook, its source and its failures keeps it.
LEMMA NextHolds ==
  ASSUME Orderly, CdcInv, [Next]_vars
  PROVE  CdcInv'
<1>1. engine' = engine /\ SlotIsPostgres'
  BY SlotStays DEF CdcInv
<1>2. ASSUME Logged PROVE LoggedInv'
  <2>1. LoggedInv /\ SlotIsPostgres
    BY <1>2 DEF CdcInv
  <2>2. CASE UNCHANGED vars
    <3>1. UNCHANGED <<engine, tip, slot, runs, live, stream, reader, call, proc, traced, missed>>
      BY <2>2 DEF vars, source, database, memory, history
    <3>2. Excused' = Excused
      BY <3>1 DEF Excused
    <3>3. Types' /\ OneStarter' /\ StartsAlone'
      BY <2>1, <3>1 DEF LoggedInv, Types, OneStarter, Starter, StartsAlone
    <3>4. ReadersBelong' /\ ChainsBelong' /\ OneTail'
      BY <2>1, <3>1, <3>2, ListenersStay
    <3>5. CursorsHold'
      BY <2>1, <3>1, <3>2 DEF LoggedInv, CursorsHold
    <3> QED BY <3>3, <3>4, <3>5 DEF LoggedInv
  <2>3. CASE Commit \/ Crash \/ Boot
    BY <1>2, <2>1, <2>3, SourceSteps, CrashStep
  <2>4. ASSUME NEW c \in Actors, RequestNext(c) PROVE LoggedInv'
    BY <1>2, <2>1, <2>4, RequestSteps, RegisterStep, OpenStep, OpenFailsStep, AfterOpenStep,
       AskStopStep DEF RequestNext
  <2>5. ASSUME NEW r \in Readers, ReaderNext(r) PROVE LoggedInv'
    BY <1>2, <2>1, <2>5, ReaderSteps
  <2>6. ASSUME NEW s \in Streams, PipelineNext(s) PROVE LoggedInv'
    BY <1>2, <2>1, <2>6, PipelineSteps
  <2> QED BY <2>2, <2>3, <2>4, <2>5, <2>6 DEF Next
<1> QED BY <1>1, <1>2 DEF CdcInv, Logged

\* The invariant holds of the specification.
LEMMA InvHolds == Orderly /\ Spec => []CdcInv
<1> SUFFICES ASSUME Orderly PROVE Spec => []CdcInv
  OBVIOUS
<1>1. Init => CdcInv
  BY InitHolds
<1>2. CdcInv /\ [Next]_vars => CdcInv'
  BY NextHolds
<1> QED BY <1>1, <1>2, PTL DEF Spec

\* What it says of the cursors is the property.
LEMMA CursorsSkipNothing ==
  ASSUME Orderly, CdcInv
  PROVE  NothingSkipped
<1>1. CASE Logged
  <2>1. CursorsHold
    BY <1>1 DEF CdcInv, LoggedInv
  <2> QED BY <2>1 DEF CursorsHold, Accounted, Logs, NothingSkipped
<1>2. CASE ~Logged
  <2>1. engine = "redis" /\ slot = -1
    BY <1>2, CdcConstants DEF CdcInv, Orderly, Logged, SlotIsPostgres
  <2>2. \A c \in Changes : ~(c[1] <= slot)
    BY <2>1, ChangeOK
  <2> QED BY <2>1, <2>2 DEF NothingSkipped
<1> QED BY <1>1, <1>2

\* For every log, every number of streams, requests and failures: with one start under
\* way at a time, the cursor of a run and the slot of the server are behind nothing that
\* was captured and not accounted for, on PostgreSQL, MongoDB and Redis.
THEOREM NothingIsSkipped == Orderly /\ Spec => []NothingSkipped
<1> SUFFICES ASSUME Orderly PROVE Spec => []NothingSkipped
  OBVIOUS
<1>2. CdcInv => NothingSkipped
  BY CursorsSkipNothing
<1>3. Spec => []CdcInv
  BY InvHolds
<1> QED BY <1>2, <1>3, PTL

\* A change takes its entry in the ledger when those before it have theirs, or are behind
\* a place where a stream opened without a cursor: no retry, reconnect, crash or stop
\* turns two changes round.
THEOREM EntriesInOrder == Orderly /\ Spec => InOrder
<1> SUFFICES ASSUME Orderly PROVE Spec => InOrder
  OBVIOUS
<1>1. ASSUME CdcInv, [Next]_vars
      PROVE  [\A c \in traced' \ traced : \A b \in Changes : Earlier(b, c) => b \in Excused']_vars
  <2> SUFFICES ASSUME Next, NEW c \in traced' \ traced, NEW b \in Changes, Earlier(b, c)
               PROVE  b \in Excused'
    BY <1>1 DEF Earlier
  <2>1. PICK s \in Streams : /\ stream[s].chain # <<>> /\ c = Head1(s)[2]
                             /\ s \in Streams /\ traced \subseteq traced' /\ missed' = missed
    <3>1. ASSUME Commit \/ Crash \/ Boot PROVE traced' = traced
      BY <3>1 DEF Commit, Crash, Boot, history
    <3>2. ASSUME NEW a \in Actors, RequestNext(a) PROVE traced' = traced
      BY <3>2 DEF RequestNext, AskStart, Provision, UpdateRun, CheckStream, Register, OpenStream,
         OpenFails, AfterOpen, AskStop, FindRun, PauseRun, Restart, Deprovision, DeleteHook, history
    <3>3. ASSUME NEW r \in Readers, ReaderNext(r) PROVE traced' = traced
      BY <3>3 DEF ReaderNext, OnWalRecord, OnBinlogEvent, OnOplogEntry, OnNotification, ReadsOn,
         Acknowledge, Resubscribe, RestartInstance, Rewatch, Reconnect, Reopens, BuildRow, history
    <3>4. PICK s \in Streams : PipelineNext(s)
      BY <3>1, <3>2, <3>3 DEF Next
    <3>5. Record(s) \/ RecordFailure(s)
      BY <3>4 DEF PipelineNext, Drop, Deliver, Save, Throws, GiveUp, history
    <3> QED BY <3>5 DEF Record, RecordFailure, At, Entry
  <2>2. Logged /\ LoggedInv
    BY <1>1, CdcConstants DEF CdcInv, Orderly, Logged, Earlier
  <2>3. Reached(Excused, c) /\ Excused \subseteq Excused'
    BY <2>1, <2>2, HeadOK DEF Excused
  <2>4. Precedes(b, c)
    BY <1>1 DEF Earlier, CdcInv, Orderly
  <2> QED BY <2>3, <2>4 DEF Reached
<1>2. Spec => []CdcInv
  BY InvHolds
<1> QED BY <1>1, <1>2, PTL DEF Spec, InOrder
------------------------------------------------------------------------------
(***************************************************************************)
(* Between requests nothing is half-way.                                   *)
(***************************************************************************)

\* What the theorem assumes: one request at a time, a slot that is dropped when the hook
\* is removed, and, if the ledger may fail, a failure of the run that is saved, with no
\* stream that ends while it goes on delivering: neither by a stop nor by a provider that
\* cannot be opened.
OneRequest ==
  /\ \A a, b \in Callers : a = b
  /\ "slot" \notin Faults
  /\ "ledger" \in Faults =>
       "finalize" \notin Faults /\ "open" \notin Faults /\ Ops \subseteq {"start", "remove"}

\* Where a loop may be: at a captured row, or at the start of an event.
Spots == {p \in (1 .. Len(Rows) + 1) \X Nat : p[2] = 1 \/ p \in Changes}
Marks == (0 .. Len(Rows)) \X Nat
RunRow == [status : {"running", "paused", "failed"}, offset : Nat, cursor : Cursor]
StreamRow == [run : Nat, seq : Nat, watermark : Cursor, chain : Seq(Readers \X Changes),
              step : {"idle", "record", "save", "failed"}, handle : BOOLEAN, pos : Marks]
ReaderRow == [of : {0} \union Streams, mode : {"free", "reading", "draining"},
              at : Spots, out : SUBSET Changes]
CallRow == [step : Steps, op : {"", "start", "stop", "edit", "remove"}, run : Nat,
            offset : Nat, cursor : Cursor, stream : {0} \union Streams]

RestTypes ==
  /\ engine \in Engines /\ tip \in 0 .. Len(Rows) /\ slot \in -1 .. Len(Rows)
  /\ runs \in Seq(RunRow) /\ Len(runs) <= 1
  /\ \A k \in DOMAIN ledger : ledger[k] \in [change : Changes, ok : BOOLEAN]
  /\ live \in {0} \union Streams /\ traced \subseteq Changes
  /\ stream \in [Streams -> StreamRow]
  /\ engine # "mysql" => \A s \in Streams : stream[s].pos \in Cursor
  /\ reader \in [Readers -> ReaderRow]
  /\ call \in [Actors -> CallRow]

Running == \E n \in DOMAIN runs : runs[n].status = "running"
Reads(s) == \A r \in Readers : reader[r].mode = "reading" => reader[r].of = s
NoneReads == \A r \in Readers : reader[r].mode # "reading"

\* One request at a time is under way, or the boot.
OneBusy ==
  /\ \A a, b \in Actors : call[a].step # "idle" /\ call[b].step # "idle" => a = b
  /\ call["boot"].step \in {"idle", "check", "register", "open", "opened"}
  /\ \A c \in Callers : call[c].step # "idle" => call[c].op \in Ops
  /\ proc \in {"up", "down"}
  /\ proc = "down" => /\ \A c \in Actors : call[c].step = "idle"
                      /\ live = 0 /\ NoneReads /\ \A s \in Streams : stream[s].step = "idle"

\* What holds while a request is at a step: nothing is live until its stream has been
\* registered, and nothing is once it has begun to stop.
Starts(c) ==
  /\ call[c].step \in {"provision", "run", "restart"} => live = 0 /\ NoneReads /\ ~Running
  /\ call[c].step \in {"check", "register"} =>
       live = 0 /\ NoneReads /\ Running /\ call[c].run \in DOMAIN runs
  /\ call[c].step \in {"open", "opened"} =>
       /\ call[c].stream \in Streams /\ live \in {0, call[c].stream} /\ (Running <=> live # 0)
       /\ call[c].run \in DOMAIN runs
       /\ Reads(call[c].stream) /\ (call[c].step = "open" => NoneReads)
Stops(c) ==
  /\ call[c].step \in {"find", "pause", "deprovision", "delete"} => live = 0 /\ NoneReads
  /\ call[c].step \in {"find", "pause", "restart"} => call[c].op \in {"stop", "edit"}
  /\ call[c].step \in {"deprovision", "delete"} => call[c].op = "remove"
  /\ call[c].step = "pause" => call[c].run \in DOMAIN runs
  /\ call[c].step = "delete" => slot = -1

RestOK ==
  AtRest => /\ Running <=> live # 0
            /\ live # 0 => stream[live].handle
            /\ Reads(live)
RemovedOK == removed => /\ \A c \in Actors : call[c].step = "idle"
                        /\ live = 0 /\ runs = <<>> /\ slot = -1
LoopsOwned == \A r \in Readers : reader[r].mode = "reading" => reader[r].of \in Streams
LiveRun == live # 0 => stream[live].run \in DOMAIN runs
\* A stream that can give up is the live one.
Leaving == removed \/ \E c \in Actors : call[c].step \in {"deprovision", "delete"}
FailsAlone ==
  "ledger" \in Faults => Leaving \/ \A s \in Streams : stream[s].step # "idle" => s = live

Phases ==
  /\ OneBusy /\ (\A c \in Actors : Starts(c) /\ Stops(c))
  /\ RestOK /\ RemovedOK /\ LoopsOwned /\ LiveRun /\ FailsAlone
RestInv == RestTypes /\ Phases

\* A set of naturals has a least element: what stands for induction below.
LEMMA LeastOf ==
  ASSUME NEW T, T \subseteq Nat, T # {}
  PROVE  \E m \in T : \A n \in T : m <= n
<1> DEFINE R == OpToRel(<, Nat)
<1>1. IsWellFoundedOn(R, Nat)
  BY NatLessThanWellFounded
<1>2. \A m, n \in Nat : n < m => <<n, m>> \in R
  BY DEF OpToRel
<1> HIDE DEF R
<1>3. PICK m \in T : \A n \in T : ~(<<n, m>> \in R)
  BY <1>1, WFMin
<1>4. \A n \in T : ~(n < m)
  BY <1>2, <1>3
<1> QED BY <1>4

\* The rows of the log's events are bounded, and Changes counts up to the bound.
LEMMA RowsMax ==
  LET S == {0} \union {Rows[p] : p \in DOMAIN Rows}
  IN  Max(S) \in Nat /\ \A n \in S : n <= Max(S)
<1> DEFINE S == {0} \union {Rows[p] : p \in DOMAIN Rows}
           Bounds(b, n) == \A p \in DOMAIN Rows : p <= n => Rows[p] <= b
           T == {n \in Nat : ~\E b \in Nat : Bounds(b, n)}
<1>1. DOMAIN Rows = 1 .. Len(Rows) /\ Len(Rows) \in Nat /\ \A p \in DOMAIN Rows : Rows[p] \in Nat
  BY CdcConstants
<1>2. T = {}
  <2> SUFFICES ASSUME T # {} PROVE FALSE
    OBVIOUS
  <2>1. PICK m \in T : \A n \in T : m <= n
    <3>1. T \subseteq Nat
      OBVIOUS
    <3> HIDE DEF T
    <3> QED BY <3>1, LeastOf
  <2>2. m # 0
    <3>1. Bounds(0, 0)
      BY <1>1
    <3> QED BY <3>1
  <2>3. m - 1 \in Nat /\ m - 1 \notin T
    BY <2>1, <2>2
  <2>4. PICK b \in Nat : Bounds(b, m - 1)
    BY <2>3
  <2>5. PICK c \in Nat : b <= c /\ (m \in DOMAIN Rows => Rows[m] <= c)
    <3>1. CASE m \in DOMAIN Rows /\ Rows[m] > b
      <4>1. \A n \in Nat : b < n => b <= n /\ n <= n
        OBVIOUS
      <4>2. Rows[m] \in Nat
        BY <3>1, <1>1
      <4> HIDE DEF T, Bounds
      <4>3. b <= Rows[m] /\ Rows[m] <= Rows[m]
        BY <3>1, <4>1, <4>2
      <4> QED BY <4>2, <4>3
    <3>2. CASE ~(m \in DOMAIN Rows /\ Rows[m] > b)
      <4> HIDE DEF T, Bounds
      <4>1. m \in DOMAIN Rows => Rows[m] \in Nat /\ ~(Rows[m] > b)
        BY <3>2, <1>1
      <4>2. b <= b /\ (m \in DOMAIN Rows => Rows[m] <= b)
        BY <4>1
      <4> QED BY <4>2
    <3> QED BY <3>1, <3>2
  <2>6. Bounds(c, m)
    <3> SUFFICES ASSUME NEW p \in DOMAIN Rows, p <= m PROVE Rows[p] <= c
      OBVIOUS
    <3>1. CASE p = m
      BY <3>1, <2>5
    <3>2. CASE p # m
      <4>1. p <= m - 1
        BY <3>2, <1>1
      <4>2. Rows[p] <= b
        BY <2>4, <4>1
      <4> QED BY <4>2, <2>5, <1>1
    <3> QED BY <3>1, <3>2
  <2>7. m \notin T
    BY <2>5, <2>6
  <2> QED BY <2>1, <2>7
<1>3. PICK b \in Nat : \A p \in DOMAIN Rows : Rows[p] <= b
  <2>1. Len(Rows) \notin T
    BY <1>2
  <2>2. PICK b \in Nat : Bounds(b, Len(Rows))
    BY <1>1, <2>1
  <2> QED BY <1>1, <2>2
<1>4. S \subseteq Nat /\ S # {} /\ \A n \in S : n <= b
  BY <1>1, <1>3
<1> DEFINE U == {n \in Nat : \A i \in S : i <= n}
<1> HIDE DEF S
<1>5. PICK m \in U : \A n \in U : m <= n
  <2>1. U \subseteq Nat /\ b \in U
    BY <1>4
  <2> HIDE DEF U
  <2> QED BY <2>1, LeastOf
<1>6. m \in S
  <2> SUFFICES ASSUME m \notin S PROVE FALSE
    OBVIOUS
  <2>1. PICK i \in S : TRUE
    BY <1>4
  <2>2. \A j \in S : j \in Nat /\ j < m
    BY <1>4, <1>5
  <2>3. m - 1 \in U
    BY <2>1, <2>2, <1>5
  <2> QED BY <2>3, <1>5
<1>7. \E x \in S : \A y \in S : y <= x
  BY <1>5, <1>6
<1>8. Max(S) \in S /\ \A n \in S : n <= Max(S)
  BY <1>7 DEF Max
<1> QED BY <1>4, <1>8 DEF S
------------------------------------------------------------------------------
(* Types. *)

\* A captured row, and the row or the event after it, are places a loop may be at.
LEMMA SpotOK ==
  /\ Changes \subseteq Spots /\ Changes \subseteq Marks /\ Cursor \subseteq Marks
  /\ None \in Cursor /\ None \notin Changes /\ Len(Rows) \in Nat /\ Start(1) \in Spots
  /\ \A n \in 0 .. Len(Rows) : Start(n + 1) \in Spots /\ <<n, 0>> \in Marks
  /\ \A c \in Changes : After(c) \in Spots /\ c[1] \in DOMAIN Rows
<1>1. Len(Rows) \in Nat /\ DOMAIN Rows = 1 .. Len(Rows)
  BY CdcConstants
<1>2. ASSUME NEW c \in Changes
      PROVE  /\ c = <<c[1], c[2]>> /\ c[1] \in 1 .. Len(Rows) /\ c[2] \in Nat \ {0}
             /\ c[2] <= Rows[c[1]] /\ Rows[c[1]] \in Nat
  BY <1>1, ChangeOK, PlaceOK
<1>3. \A c \in Changes : c \in Spots /\ c \in Marks
  <2> TAKE c \in Changes
  <2>1. c[1] \in 1 .. Len(Rows) + 1 /\ c[1] \in 0 .. Len(Rows) /\ c[2] \in Nat
    BY <1>1, <1>2
  <2>2. c \in (1 .. Len(Rows) + 1) \X Nat /\ c \in (0 .. Len(Rows)) \X Nat
    BY <1>2, <2>1
  <2> QED BY <2>2 DEF Spots, Marks
<1>4. Start(1) \in Spots /\ \A n \in 0 .. Len(Rows) : Start(n + 1) \in Spots /\ <<n, 0>> \in Marks
  BY <1>1 DEF Start, Spots, Marks
<1>5. ASSUME NEW c \in Changes PROVE After(c) \in Spots
  <2>1. CASE c[2] < Rows[c[1]]
    <3>1. After(c) = <<c[1], c[2] + 1>> /\ c[2] + 1 \in Nat \ {0} /\ c[2] + 1 <= Rows[c[1]]
      BY <1>2, <2>1 DEF After
    <3>2. <<c[1], c[2] + 1>> \in Changes
      <4> DEFINE n == Max({0} \union {Rows[p] : p \in DOMAIN Rows})
      <4>1. c \in (DOMAIN Rows) \X (1 .. n)
        BY DEF Changes
      <4>2. Rows[c[1]] <= n /\ n \in Int
        <5>1. {0} \union {Rows[p] : p \in DOMAIN Rows} \subseteq Nat
          BY CdcConstants
        <5>2. Rows[c[1]] \in {0} \union {Rows[p] : p \in DOMAIN Rows}
          BY <1>1, <1>2
        <5> QED BY <5>1, <5>2, RowsMax
      <4> HIDE DEF n
      <4>3. <<c[1], c[2] + 1>> \in (DOMAIN Rows) \X (1 .. n)
        BY <1>1, <1>2, <3>1, <4>2
      <4> QED BY <3>1, <4>3 DEF Changes, n
    <3> QED BY <3>1, <3>2, <1>3
  <2>2. CASE ~(c[2] < Rows[c[1]])
    <3>1. c[1] \in 0 .. Len(Rows) /\ After(c) = Start(c[1] + 1)
      BY <1>1, <1>2, <2>2 DEF After
    <3> QED BY <3>1, <1>4
  <2> QED BY <2>1, <2>2
<1>6. None \in Marks /\ None \in Cursor /\ \A c \in Changes : c # None
  BY <1>1, <1>2 DEF None, Marks, Cursor
<1> QED BY <1>1, <1>2, <1>3, <1>4, <1>5, <1>6 DEF Cursor

\* A row that a loop hands over has been captured.
LEMMA HandedOK ==
  ASSUME NEW p \in Spots, p[1] \in DOMAIN Rows, Rows[p[1]] > 0
  PROVE  p \in Changes
<1>1. CASE p \in Changes
  BY <1>1
<1>2. CASE p \notin Changes
  <2>1. p = <<p[1], 1>>
    BY <1>2 DEF Spots
  <2> DEFINE n == Max({0} \union {Rows[q] : q \in DOMAIN Rows})
  <2>2. Rows[p[1]] <= n /\ n \in Int /\ Rows[p[1]] \in Nat
    <3>1. {0} \union {Rows[q] : q \in DOMAIN Rows} \subseteq Nat
      BY CdcConstants
    <3>2. Rows[p[1]] \in {0} \union {Rows[q] : q \in DOMAIN Rows}
      OBVIOUS
    <3> QED BY <3>1, <3>2, RowsMax
  <2> HIDE DEF n
  <2>3. <<p[1], 1>> \in (DOMAIN Rows) \X (1 .. n)
    BY <2>2
  <2> QED BY <2>1, <2>2, <2>3 DEF Changes, n
<1> QED BY <1>1, <1>2

\* A loop that is told to stop.
LEMMA StoppedRow ==
  ASSUME RestTypes, NEW s
  PROVE  /\ Stopped(s) \in [Readers -> ReaderRow]
         /\ \A r \in Readers : Stopped(s)[r].mode = "reading" =>
              Stopped(s)[r] = reader[r] /\ reader[r].of # s /\ reader[r].mode = "reading"
<1>1. ASSUME NEW r \in Readers
      PROVE  LET d == [reader[r] EXCEPT !.mode = "draining"]
             IN  /\ reader[r] \in ReaderRow /\ NoReader \in ReaderRow /\ NoReader.mode = "free"
                 /\ d \in ReaderRow /\ d.mode = "draining"
  <2>1. reader[r] \in ReaderRow
    BY DEF RestTypes
  <2>2. Start(1) \in Spots
    BY SpotOK
  <2>3. NoReader \in ReaderRow /\ NoReader.mode = "free"
    BY <2>2 DEF NoReader, ReaderRow
  <2> QED BY <2>1, <2>3 DEF ReaderRow
<1>2. ASSUME NEW r \in Readers
      PROVE  Stopped(s)[r] = IF reader[r].of # s \/ reader[r].mode = "free" THEN reader[r]
                             ELSE IF reader[r].out = {} THEN NoReader
                             ELSE [reader[r] EXCEPT !.mode = "draining"]
  BY DEF Stopped
<1>3. ASSUME NEW r \in Readers
      PROVE  /\ Stopped(s)[r] \in ReaderRow
             /\ Stopped(s)[r].mode = "reading" =>
                  Stopped(s)[r] = reader[r] /\ reader[r].of # s /\ reader[r].mode = "reading"
  <2> DEFINE d == [reader[r] EXCEPT !.mode = "draining"]
  <2>1. d \in ReaderRow /\ d.mode = "draining" /\ Stopped(s)[r] \in {reader[r], NoReader, d}
    BY <1>1, <1>2
  <2> HIDE DEF d
  <2>2. Stopped(s)[r] = reader[r] \/ Stopped(s)[r] = NoReader \/ Stopped(s)[r] = d
    BY <2>1
  <2>3. Stopped(s)[r] = IF reader[r].of # s \/ reader[r].mode = "free" THEN reader[r]
                        ELSE IF reader[r].out = {} THEN NoReader ELSE d
    BY <1>2 DEF d
  <2> QED BY <1>1, <2>1, <2>3
<1>4. Stopped(s) = [r \in Readers |-> Stopped(s)[r]]
  BY DEF Stopped
<1> QED BY <1>3, <1>4

\* A loop whose change is done.
LEMMA FinishedRow ==
  ASSUME RestTypes, NEW loop \in ReaderRow, NEW c \in Changes
  PROVE  /\ Finished(loop, c) \in ReaderRow
         /\ Finished(loop, c).mode = "reading" =>
              loop.mode = "reading" /\ Finished(loop, c).of = loop.of
<1> DEFINE d == [loop EXCEPT !.out = @ \ {c}]
           a == [d EXCEPT !.at = After(c)]
<1>1. After(c) \in Spots /\ NoReader \in ReaderRow /\ NoReader.mode = "free"
  <2>1. Start(1) \in Spots
    BY SpotOK
  <2> QED BY <2>1, SpotOK DEF NoReader, ReaderRow
<1>2. d \in ReaderRow /\ d.mode = loop.mode /\ d.of = loop.of
  <2>1. loop.out \ {c} \in SUBSET Changes
    BY DEF ReaderRow
  <2> QED BY <2>1 DEF ReaderRow
<1>3. a \in ReaderRow /\ a.mode = loop.mode /\ a.of = loop.of
  <2> HIDE DEF d
  <2> QED BY <1>1, <1>2 DEF ReaderRow
<1>4. Finished(loop, c) = loop \/ Finished(loop, c) = NoReader \/ Finished(loop, c) = d
      \/ Finished(loop, c) = a
  <2> DEFINE last == IF engine = "redis" THEN d.out = {} ELSE engine # "mysql" \/ c[2] = Rows[c[1]]
  <2>1. Finished(loop, c) = CASE loop.mode = "free" -> loop
                              [] loop.mode = "draining" /\ last -> NoReader
                              [] OTHER -> IF engine = "redis" THEN d ELSE a
    BY DEF Finished
  <2> HIDE DEF last, d, a
  <2> QED BY <2>1
<1> HIDE DEF d, a
<1> QED BY <1>1, <1>2, <1>3, <1>4

\* A loop that is opened, or opened again.
LEMMA NewReaderRow ==
  ASSUME RestTypes, NEW s \in Streams, NEW cursor \in Marks,
         engine # "mysql" => cursor \in Cursor, engine = "postgres" => slot # -1
  PROVE  /\ NewReader(s, cursor) \in ReaderRow
         /\ NewReader(s, cursor).mode = "reading" /\ NewReader(s, cursor).of = s
<1>1. OpensAt(cursor) \in Spots
  <2>1. Tip \in Spots
    BY SpotOK DEF Tip, RestTypes
  <2>2. engine = "postgres" => SlotPosition \in Spots
    <3> SUFFICES ASSUME engine = "postgres" PROVE SlotPosition \in Spots
      OBVIOUS
    <3>1. slot \in 0 .. Len(Rows)
      BY SpotOK DEF RestTypes
    <3> QED BY <3>1, SpotOK DEF SlotPosition
  <2>3. BinlogPosition(cursor) \in Spots
    <3>1. cursor[1] \in 0 .. Len(Rows)
      BY DEF Marks
    <3> QED BY <2>1, <3>1, SpotOK DEF BinlogPosition
  <2>4. engine # "mysql" => TokenPosition(cursor) \in Spots
    BY <2>1, SpotOK DEF TokenPosition, Cursor
  <2> HIDE DEF SlotPosition
  <2>5. engine \in {"postgres", "mysql", "mongodb", "redis"}
    BY CdcConstants DEF RestTypes
  <2> QED BY <2>1, <2>2, <2>3, <2>4, <2>5 DEF OpensAt
<1>2. NewReader(s, cursor) = [of |-> s, mode |-> "reading", at |-> OpensAt(cursor), out |-> {}]
  <2> DEFINE at == OpensAt(cursor)
  <2>1. NewReader(s, cursor) = [NoReader EXCEPT !.of = s, !.mode = "reading", !.at = at]
    BY DEF NewReader
  <2> HIDE DEF at
  <2>2. NewReader(s, cursor) = [of |-> s, mode |-> "reading", at |-> at, out |-> {}]
    BY <2>1 DEF NoReader
  <2> QED BY <2>2 DEF at
<1> QED BY <1>1, <1>2 DEF ReaderRow

\* What moves the position that a reconnect goes back to.
LEMMA PositionRow ==
  ASSUME RestTypes, NEW s, NEW p \in Marks, engine # "mysql" => p \in Cursor
  PROVE  LET S == [stream EXCEPT ![s].pos = p] IN
         /\ S \in [Streams -> StreamRow]
         /\ engine # "mysql" => \A t \in Streams : S[t].pos \in Cursor
         /\ \A t \in Streams : /\ S[t].run = stream[t].run /\ S[t].handle = stream[t].handle
                               /\ S[t].step = stream[t].step /\ S[t].chain = stream[t].chain
                               /\ S[t].seq = stream[t].seq
                               /\ S[t].watermark = stream[t].watermark
<1> DEFINE S == [stream EXCEPT ![s].pos = p]
<1>1. stream \in [Streams -> StreamRow]
  BY DEF RestTypes
<1>2. ASSUME NEW t \in Streams
      PROVE  LET X == [stream[t] EXCEPT !.pos = p]
             IN  /\ X \in StreamRow /\ X.pos = p
                 /\ X.run = stream[t].run /\ X.handle = stream[t].handle /\ X.seq = stream[t].seq
                 /\ X.step = stream[t].step /\ X.chain = stream[t].chain
                 /\ X.watermark = stream[t].watermark
  BY <1>1 DEF StreamRow
<1>3. ASSUME NEW t \in Streams
      PROVE  S[t] = IF t = s THEN [stream[t] EXCEPT !.pos = p] ELSE stream[t]
  BY <1>1
<1>4. ASSUME NEW t \in Streams
      PROVE  /\ S[t] \in StreamRow
             /\ engine # "mysql" => S[t].pos \in Cursor
             /\ S[t].run = stream[t].run /\ S[t].handle = stream[t].handle
             /\ S[t].step = stream[t].step /\ S[t].chain = stream[t].chain
             /\ S[t].seq = stream[t].seq /\ S[t].watermark = stream[t].watermark
  <2>1. CASE t = s
    <3> DEFINE X == [stream[t] EXCEPT !.pos = p]
    <3>1. /\ X \in StreamRow /\ X.pos = p
          /\ X.run = stream[t].run /\ X.handle = stream[t].handle /\ X.seq = stream[t].seq
          /\ X.step = stream[t].step /\ X.chain = stream[t].chain
          /\ X.watermark = stream[t].watermark
      BY <1>2
    <3>2. S[t] = X
      BY <2>1, <1>3
    <3> HIDE DEF X, S
    <3> QED BY <3>1, <3>2
  <2>2. CASE t # s
    BY <2>2, <1>1, <1>3 DEF RestTypes
  <2> QED BY <2>1, <2>2
<1>5. DOMAIN S = Streams /\ S = [t \in Streams |-> S[t]]
  BY <1>1
<1>6. S \in [Streams -> StreamRow]
  BY <1>4, <1>5
<1> QED BY <1>4, <1>6

\* finalize changes a status.
LEMMA FinalizeRow ==
  ASSUME RestTypes, NEW n, NEW status \in {"paused", "failed"}, Finalize(n, status)
  PROVE  /\ runs' \in Seq(RunRow) /\ Len(runs') <= 1 /\ DOMAIN runs' = DOMAIN runs
         /\ n \in DOMAIN runs => ~Running'
<1>0. runs \in Seq(RunRow) /\ Len(runs) <= 1 /\ DOMAIN runs = 1 .. Len(runs) /\ Len(runs) \in Nat
  BY DEF RestTypes
<1>1. CASE n \notin DOMAIN runs
  BY <1>0, <1>1 DEF Finalize
<1>2. CASE n \in DOMAIN runs
  <2> DEFINE X == [runs[n] EXCEPT !.status = status]
  <2>1. X \in RunRow /\ X.status = status
    <3>1. runs[n] \in RunRow
      BY <1>0, <1>2
    <3> QED BY <3>1 DEF RunRow
  <2>2. runs' = [runs EXCEPT ![n] = X]
    BY <1>2 DEF Finalize
  <2> HIDE DEF X
  <2>3. runs' \in Seq(RunRow) /\ Len(runs') = Len(runs) /\ DOMAIN runs' = DOMAIN runs
    BY <1>0, <1>2, <2>1, <2>2
  <2>4. \A m \in DOMAIN runs : m = n
    BY <1>0, <1>2
  <2>5. \A m \in DOMAIN runs' : runs'[m].status = status
    BY <1>0, <1>2, <2>1, <2>2, <2>3, <2>4
  <2> QED BY <1>0, <2>3, <2>5 DEF Running
<1> QED BY <1>1, <1>2
------------------------------------------------------------------------------
(* Steps of the source, the loops and the pipeline. *)

\* No loop begins to read for another stream, and no stream but the live one is worked on.
LoopsKept ==
  \A r \in Readers : reader'[r].mode = "reading" =>
    \E q \in Readers : reader[q].mode = "reading" /\ reader[q].of = reader'[r].of
StreamsKept ==
  \A s \in Streams : /\ stream'[s].run = stream[s].run /\ stream'[s].handle = stream[s].handle
                     /\ stream'[s].step # "idle" => stream[s].step # "idle" \/ s = live
RunsKept ==
  DOMAIN runs' = DOMAIN runs /\ (Running' <=> Running) /\ (runs = <<>> => runs' = <<>>)

\* What a step of a loop or of a chain makes of the loops and the streams.
RowsKept ==
  /\ reader' \in [Readers -> ReaderRow] /\ stream' \in [Streams -> StreamRow]
  /\ engine # "mysql" => \A t \in Streams : stream'[t].pos \in Cursor
  /\ LoopsKept /\ StreamsKept

\* What keeps the phases, whatever it does to the log and the ledger.
LEMMA PhasesStay ==
  ASSUME RestTypes, Phases, UNCHANGED <<call, live, proc, removed>>,
         LoopsKept, StreamsKept, RunsKept, slot = -1 => slot' = -1
  PROVE  Phases'
<1>1. (NoneReads => NoneReads') /\ \A s : Reads(s) => Reads(s)'
  BY DEF LoopsKept, NoneReads, Reads
<1>2. 0 \notin Streams
  BY CdcConstants DEF Streams
<1>3. OneBusy'
  BY <1>1, <1>2 DEF Phases, OneBusy, StreamsKept
<1>4. \A c \in Actors : Starts(c)' /\ Stops(c)'
  BY <1>1 DEF Phases, Starts, Stops, RunsKept
<1>5. RestOK'
  <2>1. AtRest' => AtRest
    BY DEF AtRest
  <2>2. live # 0 => live \in Streams
    BY DEF RestTypes
  <2> QED BY <1>1, <2>1, <2>2 DEF Phases, RestOK, RunsKept, StreamsKept
<1>6. RemovedOK'
  BY DEF Phases, RemovedOK, RunsKept
<1>7. LoopsOwned'
  BY DEF Phases, LoopsOwned, LoopsKept
<1>8. LiveRun'
  <2>1. live # 0 => live \in Streams
    BY DEF RestTypes
  <2> QED BY <2>1 DEF Phases, LiveRun, RunsKept, StreamsKept
<1>9. FailsAlone'
  <2>1. Leaving' <=> Leaving
    BY DEF Leaving
  <2> QED BY <2>1 DEF Phases, FailsAlone, StreamsKept
<1> QED BY <1>3, <1>4, <1>5, <1>6, <1>7, <1>8, <1>9 DEF Phases

\* One loop at a time.
LEMMA ReaderSet ==
  ASSUME RestTypes, NEW r \in Readers, NEW X \in ReaderRow, reader' = [reader EXCEPT ![r] = X]
  PROVE  /\ reader' \in [Readers -> ReaderRow]
         /\ reader'[r] = X /\ \A q \in Readers \ {r} : reader'[q] = reader[q]
BY DEF RestTypes

\* One stream at a time.
LEMMA StreamSet ==
  ASSUME RestTypes, NEW s \in Streams, NEW X \in StreamRow, engine # "mysql" => X.pos \in Cursor,
         stream' = [stream EXCEPT ![s] = X]
  PROVE  /\ stream' \in [Streams -> StreamRow]
         /\ engine # "mysql" => \A t \in Streams : stream'[t].pos \in Cursor
         /\ stream'[s] = X /\ \A t \in Streams \ {s} : stream'[t] = stream[t]
BY DEF RestTypes

\* A change joins the live chain.
LEMMA AppendsRow ==
  ASSUME RestTypes, NEW s \in Streams, NEW e \in Readers \X Changes,
         stream' = [stream EXCEPT ![s].chain = Append(@, e)]
  PROVE  /\ stream' \in [Streams -> StreamRow] /\ StreamsKept
         /\ engine # "mysql" => \A t \in Streams : stream'[t].pos \in Cursor
<1> DEFINE X == [stream[s] EXCEPT !.chain = Append(stream[s].chain, e)]
<1>1. stream[s] \in StreamRow /\ (engine # "mysql" => stream[s].pos \in Cursor)
  BY DEF RestTypes
<1>2. Append(stream[s].chain, e) \in Seq(Readers \X Changes)
  <2>1. stream[s].chain \in Seq(Readers \X Changes)
    BY <1>1 DEF StreamRow
  <2> QED BY <2>1
<1>3. /\ X \in StreamRow /\ X.pos = stream[s].pos /\ X.run = stream[s].run
      /\ X.handle = stream[s].handle /\ X.step = stream[s].step
  BY <1>1, <1>2 DEF StreamRow
<1>4. stream' = [stream EXCEPT ![s] = X]
  OBVIOUS
<1> HIDE DEF X
<1>5. /\ stream' \in [Streams -> StreamRow]
      /\ engine # "mysql" => \A t \in Streams : stream'[t].pos \in Cursor
      /\ stream'[s] = X /\ \A t \in Streams \ {s} : stream'[t] = stream[t]
  BY <1>1, <1>3, <1>4, StreamSet
<1>6. StreamsKept
  BY <1>3, <1>5 DEF StreamsKept
<1> QED BY <1>5, <1>6

\* A loop hands over what it is at.
LEMMA HandsOverRow ==
  ASSUME RestTypes, NEW r \in Readers, HandsOver(r)
  PROVE  /\ reader' \in [Readers -> ReaderRow] /\ stream' \in [Streams -> StreamRow]
         /\ engine # "mysql" => \A t \in Streams : stream'[t].pos \in Cursor
         /\ LoopsKept /\ StreamsKept
<1> DEFINE c == reader[r].at
<1>1. reader[r] \in ReaderRow /\ c \in Spots
  BY DEF RestTypes, ReaderRow
<1>2. c \in Changes
  <2>1. c \in Changes \/ c[1] \in DOMAIN Rows
    <3>1. CASE Ready(r)
      <4>1. c[1] \in 1 .. Len(Rows) + 1 /\ c[1] <= tip /\ tip \in 0 .. Len(Rows)
        BY <1>1, <3>1 DEF Spots, Ready, RestTypes
      <4>2. DOMAIN Rows = 1 .. Len(Rows) /\ Len(Rows) \in Nat
        BY CdcConstants
      <4> HIDE DEF c
      <4> QED BY <4>1, <4>2
    <3>2. CASE MidEvent(r)
      <4>1. c[2] > 1
        BY <3>2 DEF MidEvent
      <4>2. c[2] # 1
        BY <4>1
      <4> QED BY <1>1, <4>2 DEF Spots
    <3> QED BY <3>1, <3>2 DEF HandsOver
  <2>2. Rows[c[1]] > 0
    BY DEF HandsOver
  <2> HIDE DEF c
  <2> QED BY <1>1, <2>1, <2>2, HandedOK
<1>3. CASE live = 0
  <2> DEFINE X == Finished(reader[r], c)
  <2>1. reader' = [reader EXCEPT ![r] = X] /\ stream' = Position(r, c)
    BY <1>3 DEF HandsOver, Joins
  <2>2. X \in ReaderRow /\ (X.mode = "reading" => reader[r].mode = "reading" /\ X.of = reader[r].of)
    BY <1>1, <1>2, FinishedRow
  <2> HIDE DEF X, c
  <2>3. /\ reader' \in [Readers -> ReaderRow]
        /\ reader'[r] = X /\ \A q \in Readers \ {r} : reader'[q] = reader[q]
    BY <2>1, <2>2, ReaderSet
  <2>4. LoopsKept
    BY <2>2, <2>3 DEF LoopsKept
  <2>5. /\ stream' \in [Streams -> StreamRow] /\ StreamsKept
        /\ engine # "mysql" => \A t \in Streams : stream'[t].pos \in Cursor
    <3>1. CASE stream' = stream
      BY <3>1 DEF StreamsKept, RestTypes
    <3>2. CASE stream' = [stream EXCEPT ![reader[r].of].pos = c]
      <4>1. c \in Marks /\ c \in Cursor
        BY <1>2, SpotOK DEF Cursor
      <4> QED BY <3>2, <4>1, PositionRow DEF StreamsKept
    <3> QED BY <2>1, <3>1, <3>2 DEF Position
  <2> QED BY <2>3, <2>4, <2>5
<1>4. CASE live # 0
  <2> DEFINE X == [reader[r] EXCEPT !.out = {c}]
  <2>1. /\ reader' = [reader EXCEPT ![r] = X] /\ live \in Streams
        /\ stream' = [stream EXCEPT ![live].chain = Append(@, <<r, c>>)]
    BY <1>4 DEF HandsOver, Joins, RestTypes
  <2>2. X \in ReaderRow /\ X.mode = reader[r].mode /\ X.of = reader[r].of
    BY <1>1, <1>2 DEF ReaderRow
  <2> HIDE DEF X, c
  <2>3. /\ reader' \in [Readers -> ReaderRow]
        /\ reader'[r] = X /\ \A q \in Readers \ {r} : reader'[q] = reader[q]
    BY <2>1, <2>2, ReaderSet
  <2>4. LoopsKept
    BY <2>2, <2>3 DEF LoopsKept
  <2>5. <<r, c>> \in Readers \X Changes
    BY <1>2
  <2> QED BY <2>1, <2>3, <2>4, <2>5, AppendsRow
<1> QED BY <1>3, <1>4

\* A loop passes over an event without rows.
LEMMA PassesOverRow ==
  ASSUME RestTypes, NEW r \in Readers, PassesOver(r)
  PROVE  /\ reader' \in [Readers -> ReaderRow] /\ LoopsKept
         /\ <<reader[r].at[1], 0>> \in Marks
<1>1. reader[r] \in ReaderRow /\ reader[r].at \in Spots /\ Ready(r) /\ tip \in 0 .. Len(Rows)
  BY DEF RestTypes, ReaderRow, PassesOver, Ready, MidEvent
<1>2. reader[r].at[1] \in 0 .. Len(Rows)
  <2>1. reader[r].at[1] \in 1 .. Len(Rows) + 1 /\ reader[r].at[1] <= tip
    BY <1>1 DEF Spots, Ready
  <2> QED BY <1>1, <2>1, SpotOK
<1> DEFINE p == Start(reader[r].at[1] + 1)
           X == [reader[r] EXCEPT !.at = p]
<1>3. p \in Spots /\ <<reader[r].at[1], 0>> \in Marks
  BY <1>2, SpotOK
<1>4. reader' = [reader EXCEPT ![r] = X]
  BY DEF PassesOver
<1> HIDE DEF p
<1>5. X \in ReaderRow /\ X.mode = reader[r].mode /\ X.of = reader[r].of
  BY <1>1, <1>3 DEF ReaderRow
<1> HIDE DEF X
<1>6. /\ reader' \in [Readers -> ReaderRow]
      /\ reader'[r] = X /\ \A q \in Readers \ {r} : reader'[q] = reader[q]
  BY <1>4, <1>5, ReaderSet
<1> QED BY <1>3, <1>5, <1>6 DEF LoopsKept

\* A reconnect.
LEMMA ReopensRow ==
  ASSUME RestTypes, Phases, NEW r \in Readers, NEW pos \in Marks, Reopens(r, pos),
         engine # "mysql" => pos \in Cursor, engine = "postgres" => slot # -1
  PROVE  /\ reader' \in [Readers -> ReaderRow] /\ stream' \in [Streams -> StreamRow]
         /\ engine # "mysql" => \A t \in Streams : stream'[t].pos \in Cursor
         /\ LoopsKept /\ StreamsKept
<1> DEFINE s == reader[r].of
           n == IF reader[r].out # {} THEN FreeReader ELSE r
           X == NewReader(s, pos)
<1>1. reader[r].mode = "reading" /\ s \in Streams
  BY DEF Reopens, Phases, LoopsOwned
<1>2. reader' = [Stopped(s) EXCEPT ![n] = X] /\ stream' = [stream EXCEPT ![s].pos = pos]
  BY DEF Reopens
<1>3. X \in ReaderRow /\ X.mode = "reading" /\ X.of = s
  BY <1>1, NewReaderRow
<1> HIDE DEF n, X, s
<1>4. /\ Stopped(s) \in [Readers -> ReaderRow]
      /\ \A q \in Readers : Stopped(s)[q].mode = "reading" =>
           Stopped(s)[q] = reader[q] /\ reader[q].mode = "reading"
  BY StoppedRow
<1>5. reader' \in [Readers -> ReaderRow]
      /\ \A q \in Readers : reader'[q] = X \/ reader'[q] = Stopped(s)[q]
  BY <1>2, <1>3, <1>4
<1>6. LoopsKept
  <2> SUFFICES ASSUME NEW q \in Readers, reader'[q].mode = "reading"
               PROVE  \E p \in Readers : reader[p].mode = "reading" /\ reader[p].of = reader'[q].of
    BY DEF LoopsKept
  <2>1. CASE reader'[q] = X
    BY <2>1, <1>1, <1>3 DEF s
  <2>2. CASE reader'[q] = Stopped(s)[q]
    BY <2>2, <1>4
  <2> QED BY <2>1, <2>2, <1>5
<1>7. /\ stream' \in [Streams -> StreamRow]
      /\ engine # "mysql" => \A t \in Streams : stream'[t].pos \in Cursor
      /\ \A t \in Streams : /\ stream'[t].run = stream[t].run
                            /\ stream'[t].handle = stream[t].handle
                            /\ stream'[t].step = stream[t].step
  <2> DEFINE S == [stream EXCEPT ![s].pos = pos]
  <2>1. /\ S \in [Streams -> StreamRow]
        /\ engine # "mysql" => \A t \in Streams : S[t].pos \in Cursor
        /\ \A t \in Streams : /\ S[t].run = stream[t].run /\ S[t].handle = stream[t].handle
                              /\ S[t].step = stream[t].step
    BY PositionRow
  <2> HIDE DEF S
  <2>2. stream' = S
    BY <1>2 DEF S
  <2> QED BY <2>1, <2>2
<1>8. StreamsKept
  BY <1>7 DEF StreamsKept
<1> QED BY <1>5, <1>6, <1>7, <1>8

\* What a step that is no request has to type.
LEMMA TypesStay ==
  ASSUME RestTypes, UNCHANGED <<engine, tip, call>>,
         runs' \in Seq(RunRow), Len(runs') <= 1, live' \in {0, live}, traced' \subseteq Changes,
         \A k \in DOMAIN ledger' : ledger'[k] \in [change : Changes, ok : BOOLEAN],
         slot' \in -1 .. Len(Rows),
         reader' \in [Readers -> ReaderRow], stream' \in [Streams -> StreamRow],
         engine # "mysql" => \A t \in Streams : stream'[t].pos \in Cursor
  PROVE  RestTypes'
BY DEF RestTypes

\* Every step of a loop.
LEMMA LoopSteps ==
  ASSUME RestInv, NEW r \in Readers, ReaderNext(r)
  PROVE  RestInv'
<1>0. /\ RestTypes /\ Phases /\ reader[r] \in ReaderRow /\ slot \in -1 .. Len(Rows)
      /\ stream \in [Streams -> StreamRow] /\ reader \in [Readers -> ReaderRow]
      /\ engine # "mysql" => \A t \in Streams : stream[t].pos \in Cursor
  BY DEF RestInv, RestTypes
<1>1. /\ UNCHANGED <<engine, tip, runs, ledger, live, traced, call, proc, removed>>
      /\ slot' = slot \/ Acknowledge(r)
  BY DEF ReaderNext, OnWalRecord, OnBinlogEvent, OnOplogEntry, OnNotification, Acknowledge,
         Resubscribe, RestartInstance, Rewatch, Reconnect, Reopens, BuildRow, ReadsOn,
         source, database, history, memory
<1>2. RunsKept
  BY <1>1 DEF RunsKept, Running
<1>3. slot' \in -1 .. Len(Rows) /\ (slot = -1 => slot' = -1)
  <2>1. CASE slot' = slot
    BY <2>1, <1>0
  <2>2. CASE Acknowledge(r)
    <3>1. /\ reader[r].at[1] \in 1 .. Len(Rows) + 1 /\ slot' = reader[r].at[1] - 1
          /\ slot # -1 /\ Len(Rows) \in Nat
      BY <2>2, <1>0, SpotOK DEF Acknowledge, ReaderRow, Spots
    <3> QED BY <3>1
  <2> QED BY <2>1, <2>2, <1>1
<1>4. UNCHANGED stream => StreamsKept
  BY DEF StreamsKept
<1>5. UNCHANGED reader => LoopsKept
  BY DEF LoopsKept
<1>6. ASSUME HandsOver(r) PROVE RowsKept
  BY <1>6, <1>0, HandsOverRow DEF RowsKept
<1>7. ASSUME PassesOver(r), UNCHANGED stream PROVE RowsKept
  BY <1>7, <1>0, <1>4, PassesOverRow DEF RowsKept
<1>8. ASSUME PassesOver(r), engine = "mysql",
             stream' = [stream EXCEPT ![reader[r].of].pos = <<reader[r].at[1], 0>>]
      PROVE  RowsKept
  <2>1. reader' \in [Readers -> ReaderRow] /\ LoopsKept /\ <<reader[r].at[1], 0>> \in Marks
    BY <1>8, <1>0, PassesOverRow
  <2> DEFINE p == <<reader[r].at[1], 0>>
             S == [stream EXCEPT ![reader[r].of].pos = p]
  <2>2. p \in Marks
    BY <2>1
  <2> HIDE DEF p
  <2>3. /\ S \in [Streams -> StreamRow]
        /\ \A t \in Streams : /\ S[t].run = stream[t].run /\ S[t].handle = stream[t].handle
                              /\ S[t].step = stream[t].step
    <3>1. engine # "mysql" => p \in Cursor
      BY <1>8
    <3> QED BY <2>2, <3>1, <1>0, PositionRow
  <2> HIDE DEF S
  <2>4. stream' = S
    BY <1>8 DEF S, p
  <2> QED BY <2>1, <2>3, <2>4, <1>8 DEF StreamsKept, RowsKept
<1>9. ASSUME OnNotification(r) PROVE RowsKept
  <2>1. CASE PassesOver(r)
    BY <2>1, <1>7, <1>9 DEF OnNotification
  <2>2. CASE /\ Ready(r) /\ Rows[reader[r].at[1]] > 0
             /\ reader' = [reader EXCEPT ![r].out = @ \union {reader[r].at}, ![r].at = After(@)]
    <3> DEFINE c == reader[r].at
               X == [reader[r] EXCEPT !.out = @ \union {c}, !.at = After(c)]
    <3>1. c \in Spots /\ c[1] \in DOMAIN Rows
      <4>1. c[1] \in 1 .. Len(Rows) + 1 /\ c[1] <= tip /\ tip \in 0 .. Len(Rows) /\ c \in Spots
        BY <1>0, <2>2 DEF Spots, Ready, RestTypes, ReaderRow
      <4>2. DOMAIN Rows = 1 .. Len(Rows) /\ Len(Rows) \in Nat
        BY CdcConstants
      <4> HIDE DEF c
      <4> QED BY <4>1, <4>2
    <3>2. c \in Changes /\ After(c) \in Spots
      <4>1. Rows[c[1]] > 0
        BY <2>2
      <4> HIDE DEF c
      <4> QED BY <3>1, <4>1, HandedOK, SpotOK
    <3>3. reader' = [reader EXCEPT ![r] = X]
      BY <2>2
    <3>4. X \in ReaderRow /\ X.mode = reader[r].mode /\ X.of = reader[r].of
      <4> HIDE DEF c
      <4>1. reader[r].out \union {c} \in SUBSET Changes
        BY <1>0, <3>2 DEF ReaderRow
      <4> QED BY <4>1, <1>0, <3>2 DEF ReaderRow
    <3> HIDE DEF X
    <3>5. /\ reader' \in [Readers -> ReaderRow]
          /\ reader'[r] = X /\ \A q \in Readers \ {r} : reader'[q] = reader[q]
      BY <1>0, <3>3, <3>4, ReaderSet
    <3>6. LoopsKept
      BY <3>4, <3>5 DEF LoopsKept
    <3>7. UNCHANGED stream
      BY <1>9 DEF OnNotification
    <3> QED BY <3>5, <3>6, <3>7, <1>0, <1>4 DEF RowsKept
  <2> QED BY <2>1, <2>2, <1>9 DEF OnNotification
<1>10. ASSUME NEW c \in Changes, BuildRow(r, c) PROVE RowsKept
  <2>1. CASE live = 0
    <3> DEFINE X == Finished(reader[r], c)
    <3>1. reader' = [reader EXCEPT ![r] = X] /\ stream' = stream
      BY <2>1, <1>10 DEF BuildRow
    <3>2. X \in ReaderRow /\ (X.mode = "reading" => reader[r].mode = "reading" /\ X.of = reader[r].of)
      BY <1>0, FinishedRow
    <3> HIDE DEF X
    <3>3. /\ reader' \in [Readers -> ReaderRow]
          /\ reader'[r] = X /\ \A q \in Readers \ {r} : reader'[q] = reader[q]
      BY <1>0, <3>1, <3>2, ReaderSet
    <3>4. LoopsKept
      BY <3>2, <3>3 DEF LoopsKept
    <3> QED BY <3>1, <3>3, <3>4, <1>0, <1>4 DEF RowsKept
  <2>2. CASE live # 0
    <3>1. /\ stream' = [stream EXCEPT ![live].chain = Append(@, <<r, c>>)] /\ UNCHANGED reader
          /\ live \in Streams /\ <<r, c>> \in Readers \X Changes
      BY <2>2, <1>0, <1>10 DEF BuildRow, RestTypes
    <3> QED BY <3>1, <1>0, <1>5, AppendsRow DEF RowsKept
  <2> QED BY <2>1, <2>2
<1>11. ASSUME Acknowledge(r) PROVE RowsKept
  <2>1. UNCHANGED <<reader, stream>>
    BY <1>11 DEF Acknowledge, memory
  <2> QED BY <2>1, <1>0, <1>4, <1>5 DEF RowsKept
<1>12. ASSUME Resubscribe(r) \/ RestartInstance(r) \/ Rewatch(r) \/ Reconnect(r)
       PROVE  RowsKept
  <2>1. PICK pos \in {stream[reader[r].of].pos, None} :
          Reopens(r, pos) /\ (engine = "postgres" => slot # -1)
    <3>1. CASE Resubscribe(r)
      BY <3>1 DEF Resubscribe
    <3>2. CASE RestartInstance(r)
      BY <3>2 DEF RestartInstance
    <3>3. CASE Rewatch(r)
      BY <3>3 DEF Rewatch
    <3>4. CASE Reconnect(r)
      BY <3>4 DEF Reconnect
    <3> QED BY <3>1, <3>2, <3>3, <3>4, <1>12
  <2>2. reader[r].of \in Streams
    <3>1. LoopsOwned /\ reader[r].mode = "reading"
      BY <2>1, <1>0 DEF Reopens, Phases
    <3> QED BY <3>1 DEF LoopsOwned
  <2>3. pos \in Marks /\ (engine # "mysql" => pos \in Cursor)
    <3>1. stream[reader[r].of].pos \in Marks
      BY <1>0, <2>2 DEF StreamRow
    <3> QED BY <3>1, <1>0, <2>1, <2>2, SpotOK
  <2>4. engine = "postgres" => slot # -1
    BY <2>1
  <2>5. Reopens(r, pos)
    BY <2>1
  <2> QED BY <2>3, <2>4, <2>5, <1>0, ReopensRow DEF RowsKept
<1>13. RowsKept
  <2>1. CASE OnWalRecord(r)
    BY <2>1, <1>6, <1>7 DEF OnWalRecord
  <2>2. CASE OnBinlogEvent(r)
    BY <2>2, <1>6, <1>8 DEF OnBinlogEvent
  <2>3. CASE OnOplogEntry(r)
    BY <2>3, <1>6, <1>7 DEF OnOplogEntry
  <2> QED BY <2>1, <2>2, <2>3, <1>9, <1>10, <1>11, <1>12 DEF ReaderNext
<1>14. RestTypes'
  <2>1. /\ runs' \in Seq(RunRow) /\ Len(runs') <= 1 /\ live' \in {0, live}
        /\ \A k \in DOMAIN ledger' : ledger'[k] \in [change : Changes, ok : BOOLEAN]
        /\ traced' \subseteq Changes
    BY <1>0, <1>1 DEF RestTypes
  <2> QED BY <1>0, <1>1, <1>3, <1>13, <2>1, TypesStay DEF RowsKept
<1>15. Phases'
  BY <1>0, <1>1, <1>2, <1>3, <1>13, PhasesStay DEF RowsKept
<1> QED BY <1>14, <1>15 DEF RestInv

\* The change at the head of a chain.
LEMMA HeadRow ==
  ASSUME RestTypes, NEW s \in Streams, stream[s].chain # <<>>
  PROVE  /\ Head1(s) \in Readers \X Changes /\ Head1(s)[1] \in Readers /\ Head1(s)[2] \in Changes
         /\ Tail(stream[s].chain) \in Seq(Readers \X Changes)
         /\ Head1(s)[2] \in Cursor /\ Head1(s)[2] \in Marks
<1>1. stream[s].chain \in Seq(Readers \X Changes)
  BY DEF RestTypes, StreamRow
<1>2. Head1(s) \in Readers \X Changes /\ Tail(stream[s].chain) \in Seq(Readers \X Changes)
  BY <1>1 DEF Head1
<1>3. Head1(s)[1] \in Readers /\ Head1(s)[2] \in Changes
  BY <1>2
<1> QED BY <1>2, <1>3, SpotOK DEF Cursor

\* A stream goes to the next step with its change.
LEMMA StepRow ==
  ASSUME RestTypes, NEW s \in Streams, NEW step \in {"idle", "record", "save", "failed"},
         StepTo(s, step), step # "idle" => stream[s].step # "idle" \/ s = live, UNCHANGED reader
  PROVE  RowsKept
<1> DEFINE X == [stream[s] EXCEPT !.step = step]
<1>1. stream[s] \in StreamRow /\ (engine # "mysql" => stream[s].pos \in Cursor)
  BY DEF RestTypes
<1>2. /\ X \in StreamRow /\ X.pos = stream[s].pos /\ X.run = stream[s].run
      /\ X.handle = stream[s].handle /\ X.step = step
  BY <1>1 DEF StreamRow
<1>3. stream' = [stream EXCEPT ![s] = X]
  BY DEF StepTo
<1> HIDE DEF X
<1>4. /\ stream' \in [Streams -> StreamRow]
      /\ engine # "mysql" => \A t \in Streams : stream'[t].pos \in Cursor
      /\ stream'[s] = X /\ \A t \in Streams \ {s} : stream'[t] = stream[t]
  BY <1>1, <1>2, <1>3, StreamSet
<1>5. StreamsKept
  BY <1>2, <1>4 DEF StreamsKept
<1>6. LoopsKept /\ reader' \in [Readers -> ReaderRow]
  BY DEF LoopsKept, RestTypes
<1> QED BY <1>4, <1>5, <1>6 DEF RowsKept

\* A change is done.
LEMMA DoneRow ==
  ASSUME RestTypes, NEW s \in Streams, stream[s].chain # <<>>,
         NEW rec, rec.seq \in Nat, rec.watermark \in Cursor, Done(s, rec)
  PROVE  RowsKept
<1> DEFINE r == Head1(s)[1]
           c == Head1(s)[2]
           X == Finished(reader[r], c)
           S == IF reader[r].mode = "free" THEN stream ELSE Position(r, c)
           Y == [S[s] EXCEPT !.chain = Tail(S[s].chain), !.step = "idle", !.seq = rec.seq,
                             !.watermark = rec.watermark]
<1>1. r \in Readers /\ c \in Changes /\ c \in Cursor /\ c \in Marks
      /\ Tail(stream[s].chain) \in Seq(Readers \X Changes)
  BY HeadRow
<1>2. reader' = [reader EXCEPT ![r] = X] /\ stream' = [S EXCEPT ![s] = Y]
  BY DEF Done
<1>3. X \in ReaderRow /\ (X.mode = "reading" => reader[r].mode = "reading" /\ X.of = reader[r].of)
  <2>1. reader[r] \in ReaderRow
    BY <1>1 DEF RestTypes
  <2> HIDE DEF r, c
  <2> QED BY <1>1, <2>1, FinishedRow
<1> HIDE DEF X, r, c
<1>4. /\ reader' \in [Readers -> ReaderRow]
      /\ reader'[r] = X /\ \A q \in Readers \ {r} : reader'[q] = reader[q]
  BY <1>1, <1>2, <1>3, ReaderSet
<1>5. LoopsKept
  BY <1>1, <1>3, <1>4 DEF LoopsKept
<1>6. /\ S \in [Streams -> StreamRow]
      /\ engine # "mysql" => \A t \in Streams : S[t].pos \in Cursor
      /\ \A t \in Streams : /\ S[t].run = stream[t].run /\ S[t].handle = stream[t].handle
                            /\ S[t].step = stream[t].step /\ S[t].chain = stream[t].chain
  <2>1. CASE S = stream
    BY <2>1 DEF RestTypes
  <2>2. CASE S = [stream EXCEPT ![reader[r].of].pos = c]
    <3> HIDE DEF S
    <3> DEFINE Z == [stream EXCEPT ![reader[r].of].pos = c]
    <3>1. /\ Z \in [Streams -> StreamRow]
          /\ engine # "mysql" => \A t \in Streams : Z[t].pos \in Cursor
          /\ \A t \in Streams : /\ Z[t].run = stream[t].run /\ Z[t].handle = stream[t].handle
                                /\ Z[t].step = stream[t].step /\ Z[t].chain = stream[t].chain
      BY <1>1, PositionRow
    <3> HIDE DEF Z
    <3>2. S = Z
      BY <2>2 DEF Z
    <3> QED BY <3>1, <3>2
  <2> QED BY <2>1, <2>2 DEF Position
<1> HIDE DEF S
<1>7. /\ Y \in StreamRow /\ Y.pos = S[s].pos /\ Y.run = stream[s].run
      /\ Y.handle = stream[s].handle /\ Y.step = "idle"
  <2>1. S[s] \in StreamRow /\ S[s].chain = stream[s].chain
    BY <1>6
  <2>2. Tail(S[s].chain) \in Seq(Readers \X Changes)
    BY <1>1, <2>1
  <2>3. Y \in StreamRow /\ Y.pos = S[s].pos /\ Y.run = S[s].run /\ Y.handle = S[s].handle
        /\ Y.step = "idle"
    BY <2>1, <2>2 DEF StreamRow
  <2> HIDE DEF Y
  <2> QED BY <2>3, <1>6
<1> HIDE DEF Y
<1>8. stream'[s] = Y /\ (\A t \in Streams \ {s} : stream'[t] = S[t])
      /\ stream' \in [Streams -> StreamRow]
  BY <1>2, <1>6, <1>7
<1>9. engine # "mysql" => \A t \in Streams : stream'[t].pos \in Cursor
  BY <1>6, <1>7, <1>8
<1>10. StreamsKept
  BY <1>6, <1>7, <1>8 DEF StreamsKept
<1> QED BY <1>4, <1>5, <1>8, <1>9, <1>10 DEF RowsKept

\* What the chains do, but for a stream that gives up.
LEMMA RowsMove ==
  ASSUME RestTypes, Phases, RowsKept, RunsKept, UNCHANGED <<engine, tip, slot, call, live, proc, removed>>,
         runs' \in Seq(RunRow), Len(runs') <= 1, traced' \subseteq Changes,
         \A k \in DOMAIN ledger' : ledger'[k] \in [change : Changes, ok : BOOLEAN]
  PROVE  RestTypes' /\ Phases'
<1>1. slot' \in -1 .. Len(Rows) /\ live' \in {0, live} /\ (slot = -1 => slot' = -1)
  BY DEF RestTypes
<1>2. RestTypes'
  BY <1>1, TypesStay DEF RowsKept
<1>3. Phases'
  BY <1>1, PhasesStay DEF RowsKept
<1> QED BY <1>2, <1>3

\* Every step of the pipeline but that one.
LEMMA ChainSteps ==
  ASSUME RestInv, NEW s \in Streams, PipelineNext(s), ~GiveUp(s)
  PROVE  RestInv'
<1>0. /\ RestTypes /\ Phases /\ stream[s] \in StreamRow
      /\ runs \in Seq(RunRow) /\ Len(runs) <= 1 /\ traced \subseteq Changes
      /\ \A k \in DOMAIN ledger : ledger[k] \in [change : Changes, ok : BOOLEAN]
  BY DEF RestInv, RestTypes
<1>1. UNCHANGED <<engine, tip, slot, call, live, proc, removed>>
  BY DEF PipelineNext, Drop, Deliver, Record, Save, Throws, RecordFailure, source, database
<1>2. stream[s].chain # <<>>
  BY DEF PipelineNext, Drop, Deliver, Record, Save, Throws, RecordFailure, At
<1>3. /\ Head1(s)[2] \in Changes /\ Head1(s)[2] \in Cursor
      /\ stream[s].seq \in Nat /\ stream[s].watermark \in Cursor
      /\ Moved(s).seq = stream[s].seq + 1 /\ Moved(s).watermark = Head1(s)[2]
  BY <1>0, <1>2, HeadRow DEF StreamRow, Moved
<1>4. /\ Moved(s).seq \in Nat /\ Moved(s).watermark \in Cursor
  BY <1>3
<1>5. UNCHANGED runs => RunsKept
  BY DEF RunsKept, Running
<1>6. ASSUME NEW ok \in BOOLEAN, Entry(s, ok)
      PROVE  /\ traced' \subseteq Changes
             /\ \A k \in DOMAIN ledger' : ledger'[k] \in [change : Changes, ok : BOOLEAN]
  <2> DEFINE key == <<stream[s].run, stream[s].seq>>
             e == [change |-> Head1(s)[2], ok |-> ok]
  <2>1. ledger' = [k \in DOMAIN ledger \union {key} |-> IF k = key THEN e ELSE ledger[k]]
    BY <1>6 DEF Entry
  <2>2. e \in [change : Changes, ok : BOOLEAN]
    BY <1>3
  <2>3. traced' = traced \union {Head1(s)[2]}
    BY <1>6 DEF Entry
  <2> HIDE DEF e, key
  <2>4. \A k \in DOMAIN ledger' : ledger'[k] = e \/ (k \in DOMAIN ledger /\ ledger'[k] = ledger[k])
    BY <2>1
  <2> QED BY <2>2, <2>3, <2>4, <1>0, <1>3
<1>7. CASE Drop(s)
  <2>1. RowsKept
    BY <1>0, <1>2, <1>3, <1>7, DoneRow DEF Drop
  <2>2. UNCHANGED <<runs, ledger, traced>>
    BY <1>7 DEF Drop, database
  <2> QED BY <1>0, <1>1, <1>5, <2>1, <2>2, RowsMove DEF RestInv
<1>8. CASE Deliver(s)
  <2>1. RowsKept
    BY <1>0, <1>8, StepRow DEF Deliver
  <2>2. UNCHANGED <<runs, ledger, traced>>
    BY <1>8 DEF Deliver, database
  <2> QED BY <1>0, <1>1, <1>5, <2>1, <2>2, RowsMove DEF RestInv
<1>9. CASE Record(s)
  <2>1. RowsKept
    <3>1. stream[s].step # "idle"
      BY <1>9 DEF Record, At
    <3> QED BY <3>1, <1>0, <1>9, StepRow DEF Record
  <2>2. UNCHANGED runs /\ Entry(s, TRUE)
    BY <1>9 DEF Record
  <2>3. /\ traced' \subseteq Changes
        /\ \A k \in DOMAIN ledger' : ledger'[k] \in [change : Changes, ok : BOOLEAN]
    BY <1>6, <2>2
  <2> QED BY <1>0, <1>1, <1>5, <2>1, <2>2, <2>3, RowsMove DEF RestInv
<1>10. CASE Save(s)
  <2>1. RowsKept
    BY <1>0, <1>2, <1>4, <1>10, DoneRow DEF Save
  <2>2. UNCHANGED <<ledger, traced>>
    BY <1>10 DEF Save, history
  <2>3. runs' \in Seq(RunRow) /\ Len(runs') <= 1 /\ RunsKept
    <3> DEFINE n == stream[s].run
    <3>1. runs' = [runs EXCEPT ![n].offset = stream[s].seq + 1, ![n].cursor = Head1(s)[2]]
      BY <1>10 DEF Save
    <3>2. CASE n \in DOMAIN runs
      <4> DEFINE X == [runs[n] EXCEPT !.offset = stream[s].seq + 1, !.cursor = Head1(s)[2]]
      <4>1. runs' = [runs EXCEPT ![n] = X]
        BY <3>1, <3>2
      <4>2. X \in RunRow /\ X.status = runs[n].status
        <5>1. runs[n] \in RunRow /\ stream[s].seq + 1 \in Nat
          BY <1>0, <1>3, <3>2
        <5> QED BY <5>1, <1>3 DEF RunRow
      <4> HIDE DEF X, n
      <4>3. runs' \in Seq(RunRow) /\ Len(runs') = Len(runs) /\ DOMAIN runs' = DOMAIN runs
        BY <1>0, <3>2, <4>1, <4>2
      <4>4. \A m \in DOMAIN runs : runs'[m].status = runs[m].status
        BY <1>0, <3>2, <4>1, <4>2
      <4> QED BY <1>0, <4>3, <4>4 DEF RunsKept, Running
    <3>3. CASE n \notin DOMAIN runs
      <4>1. runs' = runs
        BY <3>1, <3>3, <1>0
      <4> QED BY <4>1, <1>0, <1>5
    <3> QED BY <3>2, <3>3
  <2> QED BY <1>0, <1>1, <2>1, <2>2, <2>3, RowsMove DEF RestInv
<1>11. CASE Throws(s)
  <2>1. RowsKept
    <3>1. stream[s].step # "idle" \/ s = live
      BY <1>11 DEF Throws
    <3> QED BY <3>1, <1>0, <1>11, StepRow DEF Throws
  <2>2. UNCHANGED <<runs, ledger, traced>>
    BY <1>11 DEF Throws, database
  <2> QED BY <1>0, <1>1, <1>5, <2>1, <2>2, RowsMove DEF RestInv
<1>12. CASE RecordFailure(s)
  <2>1. RowsKept
    BY <1>0, <1>2, <1>4, <1>12, DoneRow DEF RecordFailure
  <2>2. UNCHANGED runs /\ Entry(s, FALSE)
    BY <1>12 DEF RecordFailure
  <2>3. /\ traced' \subseteq Changes
        /\ \A k \in DOMAIN ledger' : ledger'[k] \in [change : Changes, ok : BOOLEAN]
    BY <1>6, <2>2
  <2> QED BY <1>0, <1>1, <1>5, <2>1, <2>2, <2>3, RowsMove DEF RestInv
<1> QED BY <1>7, <1>8, <1>9, <1>10, <1>11, <1>12 DEF PipelineNext

\* A stream whose failure cannot be recorded ends, and so does its run.
LEMMA GiveUpRow ==
  ASSUME RestTypes, NEW s \in Streams, GiveUp(s)
  PROVE  /\ RowsKept /\ stream'[s].step = "idle"
         /\ live # 0 /\ stream[live].handle /\ Reads(live) => NoneReads'
<1> DEFINE r == Head1(s)[1]
           c == Head1(s)[2]
           Stop == IF live # 0 /\ stream[live].handle THEN Stopped(live) ELSE reader
           X == Finished(Stop[r], c)
           Y == [stream[s] EXCEPT !.chain = Tail(stream[s].chain), !.step = "idle"]
<1>1. r \in Readers /\ c \in Changes /\ Tail(stream[s].chain) \in Seq(Readers \X Changes)
  <2>1. stream[s].chain # <<>>
    BY DEF GiveUp, At
  <2> QED BY <2>1, HeadRow
<1>2. reader' = [Stop EXCEPT ![r] = X] /\ stream' = [stream EXCEPT ![s] = Y]
  BY DEF GiveUp
<1>3. /\ Stop \in [Readers -> ReaderRow]
      /\ \A q \in Readers : Stop[q].mode = "reading" =>
           /\ Stop[q] = reader[q] /\ reader[q].mode = "reading"
           /\ live # 0 /\ stream[live].handle => reader[q].of # live
  <2>1. CASE live # 0 /\ stream[live].handle
    BY <2>1, StoppedRow
  <2>2. CASE ~(live # 0 /\ stream[live].handle)
    BY <2>2 DEF RestTypes
  <2> QED BY <2>1, <2>2
<1> HIDE DEF Stop, r, c
<1>4. X \in ReaderRow /\ (X.mode = "reading" => Stop[r].mode = "reading" /\ X.of = Stop[r].of)
  BY <1>1, <1>3, FinishedRow
<1> HIDE DEF X
<1>5. /\ reader' \in [Readers -> ReaderRow]
      /\ reader'[r] = X /\ \A q \in Readers \ {r} : reader'[q] = Stop[q]
  BY <1>1, <1>2, <1>3, <1>4
<1>6. \A q \in Readers : reader'[q].mode = "reading" =>
        /\ reader[q].mode = "reading" /\ reader'[q].of = reader[q].of
        /\ live # 0 /\ stream[live].handle => reader[q].of # live
  <2> TAKE q \in Readers
  <2>1. CASE q = r
    BY <2>1, <1>1, <1>3, <1>4, <1>5
  <2>2. CASE q # r
    BY <2>2, <1>3, <1>5
  <2> QED BY <2>1, <2>2
<1>7. LoopsKept
  BY <1>6 DEF LoopsKept
<1>8. live # 0 /\ stream[live].handle /\ Reads(live) => NoneReads'
  BY <1>6 DEF Reads, NoneReads
<1>9. /\ stream' \in [Streams -> StreamRow] /\ StreamsKept /\ stream'[s].step = "idle"
      /\ engine # "mysql" => \A t \in Streams : stream'[t].pos \in Cursor
  <2>1. stream[s] \in StreamRow /\ (engine # "mysql" => stream[s].pos \in Cursor)
    BY DEF RestTypes
  <2>2. /\ Y \in StreamRow /\ Y.pos = stream[s].pos /\ Y.run = stream[s].run
        /\ Y.handle = stream[s].handle /\ Y.step = "idle"
    BY <1>1, <2>1 DEF StreamRow
  <2> HIDE DEF Y
  <2>3. /\ stream' \in [Streams -> StreamRow]
        /\ engine # "mysql" => \A t \in Streams : stream'[t].pos \in Cursor
        /\ stream'[s] = Y /\ \A t \in Streams \ {s} : stream'[t] = stream[t]
    BY <1>2, <2>1, <2>2, StreamSet
  <2>4. StreamsKept
    BY <2>2, <2>3 DEF StreamsKept
  <2> QED BY <2>2, <2>3, <2>4
<1> QED BY <1>5, <1>7, <1>8, <1>9 DEF RowsKept

\* A stream that gives up was the live one, or the hook is being removed.
LEMMA GiveUpEnds ==
  ASSUME OneRequest, RestInv, NEW s \in Streams, GiveUp(s)
  PROVE  RestInv'
<1>0. /\ RestTypes /\ Phases /\ live \in {0} \union Streams /\ 0 \notin Streams
      /\ runs \in Seq(RunRow) /\ Len(runs) <= 1 /\ traced \subseteq Changes
      /\ \A k \in DOMAIN ledger : ledger[k] \in [change : Changes, ok : BOOLEAN]
  BY CdcConstants DEF RestInv, RestTypes, Streams
<1>1. UNCHANGED <<engine, tip, slot, call, proc, removed, ledger, traced>> /\ live' = 0
  BY DEF GiveUp, source
<1>2. /\ RowsKept /\ stream'[s].step = "idle" /\ LoopsKept /\ StreamsKept
      /\ live # 0 /\ stream[live].handle /\ Reads(live) => NoneReads'
  BY <1>0, GiveUpRow DEF RowsKept
<1>3. stream[s].step # "idle" /\ proc = "up"
  <2>1. stream[s].step = "failed"
    BY DEF GiveUp, At
  <2>2. OneBusy
    BY <1>0 DEF Phases
  <2> QED BY <2>1, <2>2 DEF OneBusy
<1>4. CASE removed
  <2>1. live = 0 /\ UNCHANGED runs
    BY <1>0, <1>4 DEF GiveUp, Phases, RemovedOK
  <2>2. RunsKept
    BY <2>1 DEF RunsKept, Running
  <2> QED BY <1>0, <1>1, <1>2, <2>1, <2>2, RowsMove DEF RestInv
<1>5. CASE ~removed
  <2>1. "ledger" \in Faults /\ Finalize(stream[s].run, "failed")
    <3>1. "ledger" \in Faults
      BY <1>5 DEF GiveUp, Fault
    <3>2. "finalize" \notin Faults
      BY <3>1 DEF OneRequest
    <3> QED BY <1>5, <3>1, <3>2 DEF GiveUp
  <2>2. /\ runs' \in Seq(RunRow) /\ Len(runs') <= 1 /\ DOMAIN runs' = DOMAIN runs
        /\ stream[s].run \in DOMAIN runs => ~Running'
    BY <1>0, <2>1, FinalizeRow
  <2>3. RestTypes'
    <3>1. slot' \in -1 .. Len(Rows) /\ live' \in {0, live}
      BY <1>0, <1>1 DEF RestTypes
    <3> QED BY <1>0, <1>1, <1>2, <2>2, <3>1, TypesStay DEF RowsKept
  <2>4. (NoneReads => NoneReads') /\ \A t : Reads(t) => Reads(t)'
    BY <1>2 DEF LoopsKept, NoneReads, Reads
  <2>5. OneBusy'
    BY <1>0, <1>1, <1>3 DEF Phases, OneBusy
  <2>6. RemovedOK' /\ LiveRun'
    BY <1>1, <1>5 DEF RemovedOK, LiveRun
  <2>7. LoopsOwned'
    BY <1>0, <1>2 DEF Phases, LoopsOwned, LoopsKept
  <2>8. s = live \/ \E c \in Actors : call[c].step \in {"deprovision", "delete"}
    BY <1>0, <1>3, <1>5, <2>1 DEF Phases, FailsAlone, Leaving
  <2>9. CASE s = live
    <3>1. live # 0 /\ ~Running' /\ live' = 0
      BY <1>0, <1>1, <2>2, <2>9 DEF Phases, LiveRun
    <3>2. \A c \in Actors : Starts(c)' /\ Stops(c)'
      <4> TAKE c \in Actors
      <4>1. Starts(c) /\ Stops(c)
        BY <1>0 DEF Phases
      <4>2. Starts(c)'
        BY <1>1, <2>2, <2>4, <3>1, <4>1 DEF Starts
      <4>3. Stops(c)'
        BY <1>1, <2>2, <2>4, <3>1, <4>1 DEF Stops
      <4> QED BY <4>2, <4>3
    <3>3. RestOK'
      <4> SUFFICES ASSUME AtRest' PROVE Reads(0)'
        BY <3>1 DEF RestOK
      <4>1. AtRest
        BY <1>1 DEF AtRest
      <4>2. stream[live].handle /\ Reads(live)
        BY <1>0, <3>1, <4>1 DEF Phases, RestOK
      <4> QED BY <1>2, <3>1, <4>2 DEF NoneReads, Reads
    <3>4. FailsAlone'
      <4> SUFFICES ASSUME ~Leaving', NEW t \in Streams, stream'[t].step # "idle" PROVE FALSE
        BY DEF FailsAlone
      <4>1. ~Leaving
        BY <1>1 DEF Leaving
      <4>2. t # s /\ (stream[t].step # "idle" \/ t = live)
        BY <1>2 DEF StreamsKept
      <4>3. t = live
        BY <1>0, <2>1, <4>1, <4>2 DEF Phases, FailsAlone
      <4> QED BY <2>9, <4>2, <4>3
    <3> QED BY <2>3, <2>5, <2>6, <2>7, <3>2, <3>3, <3>4 DEF RestInv, Phases
  <2>10. CASE \E c \in Actors : call[c].step \in {"deprovision", "delete"}
    <3> PICK c \in Actors : call[c].step \in {"deprovision", "delete"}
      BY <2>10
    <3>1. live = 0 /\ NoneReads /\ (call[c].step = "delete" => slot = -1) /\ call[c].op = "remove"
      BY <1>0 DEF Phases, Stops
    <3>2. \A a \in Actors : a # c => call[a].step = "idle"
      BY <1>0 DEF Phases, OneBusy
    <3>3. \A a \in Actors : Starts(a)' /\ Stops(a)'
      <4> TAKE a \in Actors
      <4>1. CASE a = c
        BY <4>1, <3>1, <2>4, <1>1 DEF Starts, Stops
      <4>2. CASE a # c
        BY <4>2, <3>2, <1>1 DEF Starts, Stops
      <4> QED BY <4>1, <4>2
    <3>4. RestOK' /\ FailsAlone'
      BY <1>1 DEF RestOK, AtRest, FailsAlone, Leaving
    <3> QED BY <2>3, <2>5, <2>6, <2>7, <3>3, <3>4 DEF RestInv, Phases
  <2> QED BY <2>8, <2>9, <2>10
<1> QED BY <1>4, <1>5

\* What is made new is typed.
LEMMA NewRows ==
  /\ NoStream \in StreamRow /\ NoStream.pos \in Cursor /\ NoStream.step = "idle"
  /\ NoReader \in ReaderRow /\ NoReader.mode = "free"
  /\ Idle \in CallRow /\ Idle.step = "idle" /\ Idle.op = ""
<1>1. None \in Cursor /\ None \in Marks /\ Start(1) \in Spots
  BY SpotOK
<1>2. <<>> \in Seq(Readers \X Changes)
  OBVIOUS
<1>3. NoStream \in StreamRow /\ NoStream.pos \in Cursor /\ NoStream.step = "idle"
  BY <1>1, <1>2 DEF NoStream, StreamRow
<1>4. NoReader \in ReaderRow /\ NoReader.mode = "free"
  BY <1>1 DEF NoReader, ReaderRow
<1>5. Idle \in CallRow /\ Idle.step = "idle" /\ Idle.op = ""
  BY <1>1 DEF Idle, CallRow, Steps
<1> QED BY <1>3, <1>4, <1>5

\* The source writes to its log.
LEMMA CommitKeeps ==
  ASSUME RestInv, Commit
  PROVE  RestInv'
<1>1. /\ UNCHANGED <<engine, slot, runs, ledger, removed, live, stream, reader, call, proc, traced>>
      /\ tip' \in 0 .. Len(Rows)
  <2>1. tip \in 0 .. Len(Rows) /\ Len(Rows) \in Nat
    BY SpotOK DEF RestInv, RestTypes
  <2> QED BY <2>1 DEF Commit, database, memory, history
<1>2. RestTypes'
  BY <1>1 DEF RestInv, RestTypes
<1>3. RunsKept /\ LoopsKept /\ StreamsKept
  BY <1>1 DEF RunsKept, Running, LoopsKept, StreamsKept
<1>4. Phases'
  BY <1>1, <1>3, PhasesStay DEF RestInv
<1> QED BY <1>2, <1>4 DEF RestInv

\* A crash leaves nothing but the database.
LEMMA CrashRests ==
  ASSUME RestInv, Crash
  PROVE  RestInv'
<1>1. /\ UNCHANGED <<engine, tip, slot, runs, ledger, removed, traced>> /\ proc' = "down" /\ live' = 0
      /\ stream' = [s \in Streams |-> NoStream] /\ reader' = [r \in Readers |-> NoReader]
      /\ call' = [c \in Actors |-> Idle]
  BY DEF Crash, source, database
<1>2. /\ \A c \in Actors : call'[c].step = "idle"
      /\ \A s \in Streams : stream'[s].step = "idle"
      /\ \A r \in Readers : reader'[r].mode # "reading"
  BY <1>1, NewRows
<1>3. RestTypes'
  BY <1>1, NewRows DEF RestInv, RestTypes
<1>4. OneBusy' /\ \A c \in Actors : Starts(c)' /\ Stops(c)'
  BY <1>1, <1>2 DEF OneBusy, NoneReads, Starts, Stops, Actors
<1>5. RestOK' /\ RemovedOK' /\ LoopsOwned' /\ LiveRun' /\ FailsAlone'
  BY <1>1, <1>2 DEF RestOK, AtRest, RemovedOK, LoopsOwned, LiveRun, FailsAlone, RestInv, Phases
<1> QED BY <1>3, <1>4, <1>5 DEF RestInv, Phases
------------------------------------------------------------------------------
(* Steps of the requests. *)

\* The request that is under way is the only one.
LEMMA Alone ==
  ASSUME RestInv, NEW c \in Actors, call[c].step # "idle"
  PROVE  /\ RestTypes /\ Phases /\ Starts(c) /\ Stops(c) /\ ~removed /\ proc = "up"
         /\ \A a \in Actors : a # c => call[a].step = "idle"
         /\ call[c].step \notin {"deprovision", "delete"} => ~Leaving
         /\ c = "boot" => call[c].step \in {"check", "register", "open", "opened"}
         /\ c # "boot" => c \in Callers /\ call[c].op \in Ops
<1>1. RestTypes /\ Phases /\ OneBusy /\ RemovedOK /\ Starts(c) /\ Stops(c)
  BY DEF RestInv, Phases
<1>2. ~removed
  BY <1>1 DEF RemovedOK
<1>3. /\ proc = "up" /\ \A a \in Actors : a # c => call[a].step = "idle"
      /\ c = "boot" => call[c].step \in {"check", "register", "open", "opened"}
      /\ c # "boot" => c \in Callers /\ call[c].op \in Ops
  BY <1>1 DEF OneBusy, Actors
<1>4. call[c].step \notin {"deprovision", "delete"} => ~Leaving
  BY <1>2, <1>3 DEF Leaving
<1> QED BY <1>1, <1>2, <1>3, <1>4

\* It moves on, or returns.
LEMMA GotoRow ==
  ASSUME RestTypes, NEW c \in Actors, NEW step \in Steps, Goto(c, step)
  PROVE  /\ call' \in [Actors -> CallRow] /\ \A a \in Actors : a # c => call'[a] = call[a]
         /\ call'[c].step = step /\ call'[c].op = call[c].op /\ call'[c].run = call[c].run
         /\ call'[c].stream = call[c].stream /\ call'[c].cursor = call[c].cursor
<1>1. call[c] \in CallRow /\ call \in [Actors -> CallRow]
  BY DEF RestTypes
<1> DEFINE X == [call[c] EXCEPT !.step = step]
<1>2. /\ X \in CallRow /\ X.step = step /\ X.op = call[c].op /\ X.run = call[c].run
      /\ X.stream = call[c].stream /\ X.cursor = call[c].cursor
  BY <1>1 DEF CallRow
<1>3. call' = [call EXCEPT ![c] = X]
  BY DEF Goto
<1> HIDE DEF X
<1> QED BY <1>1, <1>2, <1>3

\* It returns.
LEMMA ReturnRow ==
  ASSUME RestTypes, NEW c \in Actors, Return(c)
  PROVE  /\ call' \in [Actors -> CallRow] /\ \A a \in Actors : a # c => call'[a] = call[a]
         /\ call'[c].step = "idle"
BY NewRows DEF RestTypes, Return

\* What is to be shown of a request's step.
LEMMA RequestMoves ==
  ASSUME RestInv, NEW c \in Actors, \A a \in Actors : a # c => call[a].step = "idle",
         proc = "up", proc' = "up",
         call' \in [Actors -> CallRow], \A a \in Actors : a # c => call'[a] = call[a],
         c = "boot" => call'[c].step \in {"idle", "check", "register", "open", "opened"},
         c # "boot" => call'[c].step = "idle" \/ call'[c].op \in Ops,
         Starts(c)', Stops(c)', call'[c].step = "idle" => RestOK',
         RemovedOK', LoopsOwned', LiveRun', FailsAlone'
  PROVE  Phases'
<1>1. \A a \in Actors : a # c => call'[a].step = "idle"
  OBVIOUS
<1>2. OneBusy'
  <2>1. "boot" \in Actors /\ "boot" \notin Callers /\ Callers \subseteq Actors
    BY CdcConstants DEF Actors
  <2>2. \A a, b \in Actors : call'[a].step # "idle" /\ call'[b].step # "idle" => a = b
    BY <1>1
  <2>3. call'["boot"].step \in {"idle", "check", "register", "open", "opened"}
    BY <1>1, <2>1
  <2>4. \A a \in Callers : call'[a].step # "idle" => call'[a].op \in Ops
    BY <1>1, <2>1
  <2> QED BY <2>2, <2>3, <2>4 DEF OneBusy
<1>3. \A a \in Actors : Starts(a)' /\ Stops(a)'
  <2> TAKE a \in Actors
  <2>1. CASE a = c
    BY <2>1
  <2>2. CASE a # c
    BY <2>2, <1>1 DEF Starts, Stops
  <2> QED BY <2>1, <2>2
<1>4. RestOK'
  <2>1. CASE call'[c].step # "idle"
    BY <2>1 DEF RestOK, AtRest
  <2> QED BY <2>1
<1> QED BY <1>2, <1>3, <1>4 DEF Phases

\* One that only moves the request.
LEMMA CallMoves ==
  ASSUME RestInv, NEW c \in Actors, \A a \in Actors : a # c => call[a].step = "idle",
         UNCHANGED <<engine, tip, database, memory, proc, traced>>, slot' \in -1 .. Len(Rows),
         proc = "up", ~removed, ~Leaving \/ Leaving',
         call' \in [Actors -> CallRow], \A a \in Actors : a # c => call'[a] = call[a],
         c = "boot" => call'[c].step \in {"idle", "check", "register", "open", "opened"},
         c # "boot" => call'[c].step = "idle" \/ call'[c].op \in Ops,
         Starts(c)', Stops(c)', call'[c].step = "idle" => RestOK'
  PROVE  RestInv'
<1>0. UNCHANGED <<engine, tip, runs, ledger, removed, live, stream, reader, proc, traced>>
  BY DEF database, memory
<1>1. RestTypes'
  BY <1>0 DEF RestInv, RestTypes
<1>2. RemovedOK' /\ LoopsOwned' /\ LiveRun'
  BY <1>0 DEF RestInv, Phases, RemovedOK, LoopsOwned, LiveRun
<1>3. FailsAlone'
  BY <1>0 DEF RestInv, Phases, FailsAlone
<1>4. Phases'
  BY <1>0, <1>2, <1>3, RequestMoves
<1> QED BY <1>1, <1>4 DEF RestInv

\* provision leaves the slot that is there.
LEMMA ProvisionedRow ==
  ASSUME RestTypes, Provisioned
  PROVE  slot' \in -1 .. Len(Rows)
BY DEF RestTypes, Provisioned

\* The hook has one run at most.
LEMMA OneRow ==
  ASSUME RestTypes, NEW S, S \subseteq DOMAIN runs, S # {}
  PROVE  Max(S) \in S /\ Max(S) = 1 /\ DOMAIN runs = {1} /\ Len(runs) = 1
<1>1. DOMAIN runs \subseteq {1} /\ DOMAIN runs = 1 .. Len(runs) /\ Len(runs) \in Nat
  BY DEF RestTypes
<1>2. S = {1} /\ DOMAIN runs = {1} /\ Len(runs) = 1
  BY <1>1
<1> QED BY <1>2 DEF Max

\* No run is left active at rest but one that is running.
LEMMA ActiveRuns1 ==
  ASSUME RestTypes
  PROVE  ActiveRuns \subseteq DOMAIN runs /\ (ActiveRuns = {} <=> ~Running)
<1>1. \A n \in DOMAIN runs : runs[n].status \in {"running", "paused", "failed"}
  <2> TAKE n \in DOMAIN runs
  <2>1. runs \in Seq(RunRow)
    BY DEF RestTypes
  <2>2. runs[n] \in RunRow
    BY <2>1
  <2> QED BY <2>2 DEF RunRow
<1> QED BY <1>1 DEF ActiveRuns, Running, Active

\* onModuleInit checks before it opens, as every start does.
LEMMA BootMoves ==
  ASSUME RestInv, Boot
  PROVE  RestInv'
<1> DEFINE running == {n \in DOMAIN runs : runs[n].status = "running"}
<1>0. /\ RestTypes /\ Phases /\ proc = "down" /\ proc' = "up"
      /\ UNCHANGED <<engine, tip, database, memory, traced>>
      /\ UNCHANGED <<runs, ledger, removed, live, stream, reader>>
  BY DEF RestInv, Boot, database, memory
<1>1. /\ \A c \in Actors : call[c].step = "idle"
      /\ live = 0 /\ NoneReads /\ \A s \in Streams : stream[s].step = "idle"
  BY <1>0 DEF Phases, OneBusy
<1>2. LoopsOwned' /\ LiveRun' /\ FailsAlone'
  BY <1>0, <1>1 DEF Phases, LoopsOwned, LiveRun, FailsAlone
<1>3. CASE running = {}
  <2>1. UNCHANGED <<call, slot>> /\ ~Running'
    BY <1>0, <1>3 DEF Boot, Running
  <2>2. RestTypes'
    BY <1>0, <2>1 DEF RestTypes
  <2>3. OneBusy' /\ \A c \in Actors : Starts(c)' /\ Stops(c)'
    BY <1>0, <1>1, <2>1 DEF OneBusy, Starts, Stops, Actors
  <2>4. RestOK' /\ RemovedOK'
    BY <1>0, <1>1, <2>1 DEF RestOK, Phases, RemovedOK, NoneReads, Reads
  <2> QED BY <1>2, <2>2, <2>3, <2>4 DEF RestInv, Phases
<1>4. CASE running # {}
  <2> DEFINE n == Max(running)
             X == [Idle EXCEPT !.step = "check", !.run = n,
                               !.offset = runs[n].offset, !.cursor = runs[n].cursor]
  <2>1. /\ n \in DOMAIN runs /\ n \in Nat /\ runs[n] \in RunRow /\ Running
    <3>1. n \in running /\ n = 1
      <4>1. running \subseteq DOMAIN runs
        OBVIOUS
      <4> HIDE DEF running
      <4> QED BY <1>0, <1>4, <4>1, OneRow
    <3>2. runs[n] \in RunRow
      <4>1. n \in DOMAIN runs
        BY <3>1
      <4> HIDE DEF n
      <4> QED BY <1>0, <4>1 DEF RestTypes
    <3> QED BY <3>1, <3>2 DEF Running
  <2>2. Provisioned /\ call' = [call EXCEPT !["boot"] = X]
    BY <1>4 DEF Boot
  <2> HIDE DEF n
  <2>3. X \in CallRow /\ X.step = "check" /\ X.run = n
    <3>1. Idle \in CallRow
      BY NewRows
    <3>2. runs[n].offset \in Nat /\ runs[n].cursor \in Cursor
      BY <2>1 DEF RunRow
    <3> QED BY <2>1, <3>1, <3>2 DEF CallRow, Steps
  <2> HIDE DEF X
  <2>4. /\ call' \in [Actors -> CallRow] /\ \A a \in Actors : a # "boot" => call'[a] = call[a]
        /\ call'["boot"] = X /\ "boot" \in Actors
    BY <1>0, <2>2, <2>3 DEF RestTypes, Actors
  <2>5. RestTypes'
    <3>1. slot' \in -1 .. Len(Rows)
      BY <1>0, <2>2, ProvisionedRow
    <3> QED BY <1>0, <2>4, <3>1 DEF RestTypes
  <2>6. \A a \in Actors : a # "boot" => call'[a].step = "idle"
    BY <1>1, <2>4
  <2>7. OneBusy'
    BY <1>0, <2>3, <2>4, <2>6, CdcConstants DEF OneBusy, Actors
  <2>8. \A c \in Actors : Starts(c)' /\ Stops(c)'
    <3> TAKE c \in Actors
    <3>1. CASE c = "boot"
      <4>1. Running' /\ NoneReads' /\ live' = 0 /\ call'[c].run \in DOMAIN runs' /\ call'[c].step = "check"
        BY <1>0, <1>1, <2>1, <2>3, <2>4, <3>1 DEF Running, NoneReads
      <4> QED BY <4>1 DEF Starts, Stops
    <3>2. CASE c # "boot"
      BY <3>2, <2>6 DEF Starts, Stops
    <3> QED BY <3>1, <3>2
  <2>9. RestOK' /\ RemovedOK'
    <3>1. ~removed
      BY <1>0, <2>1 DEF Phases, RemovedOK
    <3> QED BY <1>0, <2>3, <2>4, <3>1 DEF RestOK, AtRest, RemovedOK
  <2> QED BY <1>2, <2>5, <2>7, <2>8, <2>9 DEF RestInv, Phases
<1> QED BY <1>3, <1>4

\* The steps that leave the runs and the streams as they are.
LEMMA ReadsSame ==
  ASSUME UNCHANGED <<runs, live, stream, reader>>
  PROVE  /\ (Running' <=> Running) /\ (NoneReads' <=> NoneReads) /\ \A s : Reads(s)' <=> Reads(s)
BY DEF Running, NoneReads, Reads

\* The requests that only move on.
LEMMA CallSteps ==
  ASSUME RestInv, OneRequest, NEW c \in Actors,
         Provision(c) \/ CheckStream(c) \/ FindRun(c) \/ Restart(c) \/ Deprovision(c)
  PROVE  RestInv'
<1>0. UNCHANGED <<engine, tip, database, memory, proc, traced>>
  BY DEF Provision, CheckStream, FindRun, Restart, Deprovision, source, history
<1>1. /\ call[c].step \in {"provision", "check", "find", "restart", "deprovision"}
      /\ UNCHANGED <<runs, live, stream, reader>>
  BY <1>0 DEF Provision, CheckStream, FindRun, Restart, Deprovision, Resumes, database, memory
<1>2. /\ RestTypes /\ Phases /\ Starts(c) /\ Stops(c) /\ ~removed /\ proc = "up"
      /\ \A a \in Actors : a # c => call[a].step = "idle"
      /\ call[c].step \notin {"deprovision", "delete"} => ~Leaving
      /\ c = "boot" => call[c].step \in {"check", "register", "open", "opened"}
      /\ c # "boot" => c \in Callers /\ call[c].op \in Ops
  BY <1>1, Alone
<1>3. (Running' <=> Running) /\ (NoneReads' <=> NoneReads)
  BY <1>1, ReadsSame
<1>4. slot \in -1 .. Len(Rows) /\ Len(Rows) \in Nat
  BY <1>2, SpotOK DEF RestTypes
<1>5. live = 0 /\ NoneReads
  BY <1>1, <1>2 DEF Starts, Stops
<1>6. ~Running => RestOK'
  BY <1>1, <1>3, <1>5 DEF RestOK, NoneReads, Reads
<1>7. CASE Provision(c)
  <2>1. call[c].step = "provision" /\ Goto(c, "run") /\ slot' \in -1 .. Len(Rows)
    BY <1>2, <1>7, ProvisionedRow DEF Provision, Resumes
  <2>2. /\ call' \in [Actors -> CallRow] /\ \A a \in Actors : a # c => call'[a] = call[a]
        /\ call'[c].step = "run" /\ call'[c].op = call[c].op
    BY <1>2, <2>1, GotoRow DEF Steps
  <2>3. Starts(c)' /\ Stops(c)'
    BY <1>1, <1>2, <1>3, <2>1, <2>2 DEF Starts, Stops
  <2> QED BY <1>0, <1>2, <2>1, <2>2, <2>3, CallMoves
<1>8. CASE CheckStream(c)
  <2>1. call[c].step = "check" /\ Goto(c, "register") /\ slot' \in -1 .. Len(Rows)
    BY <1>4, <1>5, <1>8 DEF CheckStream, Resumes, source
  <2>2. /\ call' \in [Actors -> CallRow] /\ \A a \in Actors : a # c => call'[a] = call[a]
        /\ call'[c].step = "register" /\ call'[c].op = call[c].op /\ call'[c].run = call[c].run
    BY <1>2, <2>1, GotoRow DEF Steps
  <2>3. Starts(c)' /\ Stops(c)'
    BY <1>1, <1>2, <1>3, <2>1, <2>2 DEF Starts, Stops
  <2> QED BY <1>0, <1>2, <2>1, <2>2, <2>3, CallMoves
<1>9. CASE FindRun(c)
  <2>1. call[c].step = "find" /\ slot' \in -1 .. Len(Rows) /\ call[c].op \in {"stop", "edit"}
    BY <1>2, <1>4, <1>9 DEF FindRun, Resumes, source, Stops
  <2>2. CASE ActiveRuns = {}
    <3>1. /\ call' \in [Actors -> CallRow] /\ \A a \in Actors : a # c => call'[a] = call[a]
          /\ call'[c].step = "idle"
      BY <1>2, <1>9, <2>2, ReturnRow DEF FindRun
    <3>2. Starts(c)' /\ Stops(c)'
      BY <3>1 DEF Starts, Stops
    <3>3. RestOK'
      BY <1>2, <1>6, <2>2, ActiveRuns1
    <3> QED BY <1>0, <1>2, <2>1, <3>1, <3>2, <3>3, CallMoves
  <2>3. CASE ActiveRuns # {}
    <3> DEFINE n == Max(ActiveRuns)
               X == [call[c] EXCEPT !.run = n, !.step = "pause"]
    <3>1. n \in DOMAIN runs /\ n \in Nat
      <4>1. ActiveRuns \subseteq DOMAIN runs
        BY <1>2, ActiveRuns1
      <4>2. n \in ActiveRuns /\ n = 1
        BY <1>2, <2>3, <4>1, OneRow
      <4> QED BY <4>1, <4>2
    <3>2. call' = [call EXCEPT ![c] = X]
      BY <1>9, <2>3 DEF FindRun
    <3> HIDE DEF n
    <3>3. X \in CallRow /\ X.step = "pause" /\ X.op = call[c].op /\ X.run = n
      <4>1. call[c] \in CallRow
        BY <1>2 DEF RestTypes
      <4> QED BY <3>1, <4>1 DEF CallRow, Steps
    <3> HIDE DEF X
    <3>4. /\ call' \in [Actors -> CallRow] /\ \A a \in Actors : a # c => call'[a] = call[a]
          /\ call'[c] = X
      BY <1>2, <3>2, <3>3 DEF RestTypes
    <3>5. Starts(c)' /\ Stops(c)'
      BY <1>1, <1>2, <1>3, <1>5, <2>1, <3>1, <3>3, <3>4 DEF Starts, Stops
    <3>6. /\ c = "boot" => call'[c].step \in {"idle", "check", "register", "open", "opened"}
          /\ c # "boot" => call'[c].step = "idle" \/ call'[c].op \in Ops
          /\ call'[c].step = "idle" => RestOK'
      BY <1>2, <2>1, <3>3, <3>4
    <3> QED BY <1>0, <1>2, <2>1, <3>4, <3>5, <3>6, CallMoves
  <2> QED BY <2>2, <2>3
<1>10. CASE Restart(c)
  <2>1. call[c].step = "restart" /\ slot' \in -1 .. Len(Rows)
    BY <1>4, <1>10 DEF Restart, Resumes, source
  <2>2. ~Running /\ Goto(c, "provision")
    <3>1. ~Running
      BY <1>2, <2>1 DEF Starts
    <3> QED BY <1>2, <1>10, <3>1, ActiveRuns1 DEF Restart
  <2>3. /\ call' \in [Actors -> CallRow] /\ \A a \in Actors : a # c => call'[a] = call[a]
        /\ call'[c].step = "provision" /\ call'[c].op = call[c].op
    BY <1>2, <2>2, GotoRow DEF Steps
  <2>4. Starts(c)' /\ Stops(c)'
    BY <1>1, <1>3, <1>5, <2>2, <2>3 DEF Starts, Stops
  <2> QED BY <1>0, <1>2, <2>1, <2>3, <2>4, CallMoves
<1>11. CASE Deprovision(c)
  <2>1. call[c].step = "deprovision" /\ Goto(c, "delete") /\ slot' = -1
    BY <1>11 DEF Deprovision, Resumes, OneRequest, Fault
  <2>2. /\ call' \in [Actors -> CallRow] /\ \A a \in Actors : a # c => call'[a] = call[a]
        /\ call'[c].step = "delete" /\ call'[c].op = call[c].op
    BY <1>2, <2>1, GotoRow DEF Steps
  <2>3. Starts(c)' /\ Stops(c)'
    BY <1>1, <1>2, <1>3, <1>5, <2>1, <2>2 DEF Starts, Stops
  <2>4. Leaving' /\ slot' \in -1 .. Len(Rows)
    BY <1>4, <2>1, <2>2 DEF Leaving
  <2> QED BY <1>0, <1>2, <2>1, <2>2, <2>3, <2>4, CallMoves
<1> QED BY <1>7, <1>8, <1>9, <1>10, <1>11

\* A request that comes in finds all at rest.
LEMMA AsksAtRest ==
  ASSUME RestInv, OneRequest, NEW c \in Actors, NEW op, NEW step \in Steps, Ask(c, op, step),
         op \in {"start", "stop", "edit", "remove"}
  PROVE  /\ RestTypes /\ Phases /\ ~removed /\ proc = "up" /\ c # "boot"
         /\ \A a \in Actors : call[a].step = "idle"
         /\ ~Leaving /\ Reads(live) /\ (live # 0 => stream[live].handle) /\ (Running <=> live # 0)
         /\ call' \in [Actors -> CallRow] /\ \A a \in Actors : a # c => call'[a] = call[a]
         /\ call'[c].step = step /\ call'[c].op = op /\ op \in Ops
<1>1. /\ RestTypes /\ Phases /\ ~removed /\ proc = "up" /\ c \in Callers /\ op \in Ops
      /\ call["boot"].step = "idle" /\ call[c].step = "idle"
      /\ call' = [call EXCEPT ![c] = [Idle EXCEPT !.step = step, !.op = op]]
  BY DEF RestInv, Ask, Resumes
<1>2. c # "boot" /\ \A a \in Actors : call[a].step = "idle"
  BY <1>1, CdcConstants DEF OneRequest, Actors
<1>3. ~Leaving
  BY <1>1, <1>2 DEF Leaving
<1>4. Reads(live) /\ (live # 0 => stream[live].handle) /\ (Running <=> live # 0)
  BY <1>1, <1>2 DEF Phases, RestOK, AtRest
<1> DEFINE X == [Idle EXCEPT !.step = step, !.op = op]
<1>5. X \in CallRow /\ X.step = step /\ X.op = op
  <2>1. Idle \in CallRow
    BY NewRows
  <2> QED BY <2>1 DEF CallRow
<1> HIDE DEF X
<1>6. /\ call' \in [Actors -> CallRow] /\ \A a \in Actors : a # c => call'[a] = call[a]
      /\ call'[c] = X
  BY <1>1, <1>5 DEF RestTypes, X
<1> QED BY <1>1, <1>2, <1>3, <1>4, <1>5, <1>6

\* At rest without a live stream nothing reads.
LEMMA QuietAtRest ==
  ASSUME Phases, Reads(live), live = 0
  PROVE  NoneReads
<1>1. 0 \notin Streams
  BY CdcConstants DEF Streams
<1> QED BY <1>1 DEF Phases, LoopsOwned, NoneReads, Reads

\* A start finds no active run, and so no stream.
LEMMA AskStartMoves ==
  ASSUME RestInv, OneRequest, NEW c \in Actors, AskStart(c)
  PROVE  RestInv'
<1>0. UNCHANGED <<source, database, memory, proc, traced>> /\ Ask(c, "start", "provision")
      /\ ActiveRuns = {}
  BY DEF AskStart, history
<1>1. UNCHANGED <<engine, tip, database, memory, proc, traced, slot, runs, live, stream, reader>>
  BY <1>0 DEF source, database, memory
<1>2. /\ RestTypes /\ Phases /\ ~removed /\ proc = "up" /\ c # "boot"
      /\ \A a \in Actors : call[a].step = "idle"
      /\ ~Leaving /\ Reads(live) /\ (Running <=> live # 0)
      /\ call' \in [Actors -> CallRow] /\ \A a \in Actors : a # c => call'[a] = call[a]
      /\ call'[c].step = "provision" /\ call'[c].op = "start" /\ "start" \in Ops
  BY <1>0, AsksAtRest DEF Steps
<1>3. ~Running /\ live = 0 /\ NoneReads
  BY <1>0, <1>2, ActiveRuns1, QuietAtRest
<1>4. Running' = Running /\ NoneReads' = NoneReads
  BY <1>1 DEF Running, NoneReads
<1>5. Starts(c)' /\ Stops(c)'
  BY <1>1, <1>2, <1>3, <1>4 DEF Starts, Stops
<1>6. slot' \in -1 .. Len(Rows)
  BY <1>1, <1>2 DEF RestTypes
<1> QED BY <1>1, <1>2, <1>5, <1>6, CallMoves

\* The steps that write the runs.
LEMMA RunSteps ==
  ASSUME RestInv, OneRequest, NEW c \in Actors, UpdateRun(c) \/ PauseRun(c) \/ DeleteHook(c)
  PROVE  RestInv'
<1>0. UNCHANGED <<engine, tip, slot, live, stream, reader, proc, traced>>
  BY DEF UpdateRun, PauseRun, DeleteHook, source, history, memory
<1>1. call[c].step \in {"run", "pause", "delete"}
  BY DEF UpdateRun, PauseRun, DeleteHook, Resumes
<1>2. /\ RestTypes /\ Phases /\ Starts(c) /\ Stops(c) /\ ~removed /\ proc = "up"
      /\ \A a \in Actors : a # c => call[a].step = "idle"
      /\ call[c].step \notin {"deprovision", "delete"} => ~Leaving
      /\ c # "boot" /\ call[c].op \in Ops
  BY <1>1, Alone
<1>3. live = 0 /\ NoneReads /\ live' = 0 /\ NoneReads' /\ Reads(live)'
  BY <1>0, <1>1, <1>2 DEF Starts, Stops, NoneReads, Reads
<1>4. LoopsOwned' /\ LiveRun' /\ (~Running' => RestOK')
  <2>1. LoopsOwned'
    BY <1>3 DEF LoopsOwned, NoneReads
  <2>2. LiveRun'
    BY <1>3 DEF LiveRun
  <2>3. ~Running' => RestOK'
    <3> SUFFICES ASSUME ~Running', AtRest' PROVE Reads(live)'
      BY <1>3 DEF RestOK, Running
    <3> QED BY <1>3
  <2> QED BY <2>1, <2>2, <2>3
<1>5. call[c].step # "delete" => FailsAlone'
  BY <1>0, <1>1, <1>2 DEF Phases, FailsAlone
<1>6. CASE UpdateRun(c)
  <2> DEFINE n == IF runs = <<>> THEN 1 ELSE Len(runs)
             X == [call[c] EXCEPT !.run = n, !.offset = runs'[n].offset,
                                  !.cursor = runs'[n].cursor, !.step = "check"]
  <2>1. /\ runs' = IF runs = <<>> THEN <<[status |-> "running", offset |-> 0, cursor |-> None]>>
                   ELSE [runs EXCEPT ![n].status = "running"]
        /\ call' = [call EXCEPT ![c] = X] /\ UNCHANGED <<ledger, removed>>
        /\ call[c].step = "run"
    <3>1. call' = [call EXCEPT ![c].run = n, ![c].offset = runs'[n].offset,
                               ![c].cursor = runs'[n].cursor, ![c].step = "check"]
      BY <1>6 DEF UpdateRun
    <3>2. call' = [call EXCEPT ![c] = X]
      <4> HIDE DEF n
      <4> QED BY <3>1
    <3>3. runs' = IF runs = <<>> THEN <<[status |-> "running", offset |-> 0, cursor |-> None]>>
                  ELSE [runs EXCEPT ![n].status = "running"]
      BY <1>6 DEF UpdateRun
    <3> QED BY <1>6, <3>2, <3>3 DEF UpdateRun, Resumes
  <2>2. /\ runs' \in Seq(RunRow) /\ Len(runs') <= 1 /\ n \in DOMAIN runs' /\ n \in Nat
        /\ runs'[n].status = "running" /\ runs'[n] \in RunRow
    <3>0. runs \in Seq(RunRow) /\ Len(runs) <= 1 /\ DOMAIN runs = 1 .. Len(runs) /\ Len(runs) \in Nat
      BY <1>2 DEF RestTypes
    <3>1. CASE runs = <<>>
      <4> DEFINE N == [status |-> "running", offset |-> 0, cursor |-> None]
      <4>1. N \in RunRow /\ N.status = "running"
        BY SpotOK DEF RunRow
      <4>2. runs' = <<N>> /\ n = 1
        BY <2>1, <3>1
      <4> HIDE DEF N, n
      <4> QED BY <4>1, <4>2
    <3>2. CASE runs # <<>>
      <4> DEFINE N == [runs[n] EXCEPT !.status = "running"]
      <4>1. n = 1 /\ n \in DOMAIN runs /\ Len(runs) = 1
        BY <3>0, <3>2
      <4>2. runs' = [runs EXCEPT ![n] = N]
        BY <2>1, <3>2
      <4> HIDE DEF n
      <4>3. N \in RunRow /\ N.status = "running"
        <5>1. runs[n] \in RunRow
          BY <3>0, <4>1
        <5> QED BY <5>1 DEF RunRow
      <4> HIDE DEF N
      <4>4. runs' \in Seq(RunRow) /\ Len(runs') = Len(runs) /\ DOMAIN runs' = DOMAIN runs
        BY <3>0, <4>1, <4>2, <4>3
      <4>5. runs'[n] = N
        BY <4>1, <4>2
      <4> QED BY <3>0, <4>1, <4>3, <4>4, <4>5
    <3> QED BY <3>1, <3>2
  <2>3. Running'
    BY <2>2 DEF Running
  <2> HIDE DEF n
  <2>4. X \in CallRow /\ X.step = "check" /\ X.op = call[c].op /\ X.run = n
    <3>1. call[c] \in CallRow /\ runs'[n].offset \in Nat /\ runs'[n].cursor \in Cursor
      BY <1>2, <2>2 DEF RestTypes, RunRow
    <3> QED BY <2>2, <3>1 DEF CallRow, Steps
  <2> HIDE DEF X
  <2>5. /\ call' \in [Actors -> CallRow] /\ \A a \in Actors : a # c => call'[a] = call[a]
        /\ call'[c] = X
    BY <1>2, <2>1, <2>4 DEF RestTypes
  <2>6. RestTypes'
    BY <1>0, <1>2, <2>1, <2>2, <2>5 DEF RestTypes
  <2>7. Starts(c)' /\ Stops(c)'
    BY <1>3, <2>2, <2>3, <2>4, <2>5 DEF Starts, Stops
  <2>8. RemovedOK'
    BY <1>2, <2>1 DEF RemovedOK
  <2>9. c # "boot" => call'[c].step = "idle" \/ call'[c].op \in Ops
    BY <1>2, <2>4, <2>5
  <2>10. call'[c].step = "idle" => RestOK'
    BY <2>4, <2>5
  <2>11. Phases'
    BY <1>0, <1>2, <1>4, <1>5, <2>1, <2>5, <2>7, <2>8, <2>9, <2>10, RequestMoves
  <2> QED BY <2>6, <2>11 DEF RestInv
<1>7. CASE PauseRun(c)
  <2>1. /\ call[c].step = "pause" /\ Finalize(call[c].run, "paused") /\ UNCHANGED <<ledger, removed>>
        /\ IF call[c].op = "edit" THEN Goto(c, "restart") ELSE Return(c)
    BY <1>7 DEF PauseRun, Resumes
  <2>2. /\ runs' \in Seq(RunRow) /\ Len(runs') <= 1 /\ ~Running'
    <3>1. call[c].run \in DOMAIN runs
      BY <1>2, <2>1 DEF Stops
    <3> QED BY <1>2, <2>1, <3>1, FinalizeRow
  <2>3. /\ call' \in [Actors -> CallRow] /\ \A a \in Actors : a # c => call'[a] = call[a]
        /\ \/ call'[c].step = "idle"
           \/ call'[c].step = "restart" /\ call'[c].op = call[c].op /\ call[c].op = "edit"
    <3>1. CASE call[c].op = "edit"
      BY <1>2, <2>1, <3>1, GotoRow DEF Steps
    <3>2. CASE call[c].op # "edit"
      BY <1>2, <2>1, <3>2, ReturnRow
    <3> QED BY <3>1, <3>2
  <2>4. RestTypes'
    BY <1>0, <1>2, <2>1, <2>2, <2>3 DEF RestTypes
  <2>5. Starts(c)' /\ Stops(c)'
    BY <1>3, <2>2, <2>3 DEF Starts, Stops
  <2>6. RemovedOK'
    BY <1>2, <2>1 DEF RemovedOK
  <2>7. c # "boot" => call'[c].step = "idle" \/ call'[c].op \in Ops
    BY <1>2, <2>3
  <2>8. Phases'
    BY <1>0, <1>2, <1>4, <1>5, <2>1, <2>2, <2>3, <2>5, <2>6, <2>7, RequestMoves
  <2> QED BY <2>4, <2>8 DEF RestInv
<1>8. CASE DeleteHook(c)
  <2>1. /\ call[c].step = "delete" /\ Return(c) /\ removed' = TRUE /\ runs' = <<>> /\ ledger' = <<>>
    BY <1>8 DEF DeleteHook, Resumes
  <2>2. /\ call' \in [Actors -> CallRow] /\ \A a \in Actors : a # c => call'[a] = call[a]
        /\ call'[c].step = "idle"
    BY <1>2, <2>1, ReturnRow
  <2>3. runs' \in Seq(RunRow) /\ Len(runs') <= 1 /\ ~Running' /\ DOMAIN ledger' = {}
    BY <2>1 DEF Running
  <2>4. RestTypes'
    BY <1>0, <1>2, <2>2, <2>3 DEF RestTypes
  <2>5. Starts(c)' /\ Stops(c)' /\ FailsAlone'
    BY <2>1, <2>2 DEF Starts, Stops, FailsAlone, Leaving
  <2>6. RemovedOK'
    <3>1. slot = -1
      BY <1>2, <2>1 DEF Stops
    <3>2. \A a \in Actors : call'[a].step = "idle"
      BY <1>2, <2>2
    <3> QED BY <1>0, <1>3, <2>1, <3>1, <3>2 DEF RemovedOK
  <2>7. Phases'
    BY <1>0, <1>2, <1>4, <2>2, <2>3, <2>5, <2>6, RequestMoves
  <2> QED BY <2>4, <2>7 DEF RestInv
<1> QED BY <1>6, <1>7, <1>8

\* Nothing is live until the stream of a start has been registered, and then it is the
\* one that is opened.
LEMMA RegisterMoves ==
  ASSUME RestInv, OneRequest, NEW c \in Actors, Register(c)
  PROVE  RestInv'
<1>0. call[c].step = "register"
      /\ UNCHANGED <<engine, tip, slot, runs, ledger, removed, reader, proc, traced>>
  BY DEF Register, Resumes, source, database, history
<1>2. /\ RestTypes /\ Phases /\ Starts(c) /\ Stops(c) /\ ~removed /\ proc = "up" /\ ~Leaving
      /\ \A a \in Actors : a # c => call[a].step = "idle"
      /\ c # "boot" => c \in Callers /\ call[c].op \in Ops
  BY <1>0, Alone
<1>3. live = 0 /\ NoneReads /\ Running /\ call[c].run \in DOMAIN runs /\ 0 \notin Streams
  BY <1>0, <1>2, CdcConstants DEF Starts, Streams
<1>4. PICK s \in Streams :
        /\ stream' = [stream EXCEPT ![s] = [NoStream EXCEPT !.run = call[c].run,
                        !.seq = call[c].offset, !.watermark = call[c].cursor]]
        /\ live' = s /\ call' = [call EXCEPT ![c].stream = s, ![c].step = "open"]
  BY DEF Register
<1> DEFINE X == [call[c] EXCEPT !.stream = s, !.step = "open"]
           Y == [NoStream EXCEPT !.run = call[c].run, !.seq = call[c].offset, !.watermark = call[c].cursor]
<1>5. X \in CallRow /\ X.step = "open" /\ X.op = call[c].op /\ X.stream = s /\ X.run = call[c].run
      /\ call[c] \in CallRow
  <2>1. call[c] \in CallRow
    BY <1>2 DEF RestTypes
  <2> QED BY <2>1 DEF CallRow, Steps
<1>6. Y \in StreamRow /\ Y.step = "idle" /\ Y.pos \in Cursor /\ Y.run = call[c].run
  <2>1. NoStream \in StreamRow /\ NoStream.pos \in Cursor /\ NoStream.step = "idle"
    BY NewRows
  <2>2. call[c].run \in Nat /\ call[c].offset \in Nat /\ call[c].cursor \in Cursor
    BY <1>5 DEF CallRow
  <2> QED BY <2>1, <2>2 DEF StreamRow
<1>7. call' = [call EXCEPT ![c] = X] /\ stream' = [stream EXCEPT ![s] = Y]
  BY <1>4
<1> HIDE DEF X, Y
<1>8. /\ call' \in [Actors -> CallRow] /\ \A a \in Actors : a # c => call'[a] = call[a]
      /\ call'[c] = X
  BY <1>2, <1>5, <1>7 DEF RestTypes
<1>9. /\ stream' \in [Streams -> StreamRow] /\ stream'[s] = Y
      /\ engine # "mysql" => \A t \in Streams : stream'[t].pos \in Cursor
      /\ \A t \in Streams \ {s} : stream'[t] = stream[t]
  BY <1>2, <1>6, <1>7, StreamSet
<1>10. RestTypes'
  BY <1>0, <1>2, <1>4, <1>8, <1>9 DEF RestTypes
<1>11. Running' /\ NoneReads'
  BY <1>0, <1>3 DEF Running, NoneReads
<1>12. Starts(c)' /\ Stops(c)'
  BY <1>0, <1>3, <1>4, <1>5, <1>8, <1>11 DEF Starts, Stops, Reads, NoneReads
<1>13. RemovedOK' /\ LoopsOwned' /\ LiveRun'
  BY <1>0, <1>2, <1>3, <1>4, <1>6, <1>9, <1>11 DEF RemovedOK, LoopsOwned, LiveRun, NoneReads
<1>14. FailsAlone'
  <2>1. "ledger" \in Faults => \A t \in Streams : stream[t].step = "idle"
    BY <1>2, <1>3 DEF Phases, FailsAlone
  <2> QED BY <1>6, <1>9, <2>1 DEF FailsAlone
<1>15. /\ c = "boot" => call'[c].step \in {"idle", "check", "register", "open", "opened"}
       /\ c # "boot" => call'[c].step = "idle" \/ call'[c].op \in Ops
       /\ call'[c].step = "idle" => RestOK'
  BY <1>2, <1>5, <1>8
<1>16. Phases'
  BY <1>0, <1>2, <1>8, <1>12, <1>13, <1>14, <1>15, RequestMoves
<1> QED BY <1>10, <1>16 DEF RestInv

\* What is opened reads for the stream that was registered.
LEMMA OpenMoves ==
  ASSUME RestInv, OneRequest, NEW c \in Actors, OpenStream(c)
  PROVE  RestInv'
<1> DEFINE s == call[c].stream
           f == FreeReader
           X == NewReader(s, call[c].cursor)
<1>0. /\ call[c].step = "open" /\ Goto(c, "opened") /\ HasFreeReader
      /\ engine = "postgres" => slot # -1
      /\ reader' = [reader EXCEPT ![f] = X]
      /\ stream' = [stream EXCEPT ![s].pos = call[c].cursor]
      /\ UNCHANGED <<engine, tip, slot, runs, ledger, removed, live, proc, traced>>
  BY DEF OpenStream, Resumes, source, database
<1>2. /\ RestTypes /\ Phases /\ Starts(c) /\ Stops(c) /\ ~removed /\ proc = "up" /\ ~Leaving
      /\ \A a \in Actors : a # c => call[a].step = "idle"
      /\ c # "boot" => c \in Callers /\ call[c].op \in Ops
  BY <1>0, Alone
<1>3. /\ s \in Streams /\ live \in {0, s} /\ (Running <=> live # 0)
      /\ call[c].run \in DOMAIN runs /\ NoneReads
  BY <1>0, <1>2 DEF Starts
<1>4. f \in Readers /\ call[c].cursor \in Cursor /\ call[c].cursor \in Marks
  <2>1. call[c] \in CallRow
    BY <1>2 DEF RestTypes
  <2>2. call[c].cursor \in Cursor
    BY <2>1 DEF CallRow
  <2> QED BY <1>0, <2>2, FreeReaderOK, SpotOK
<1>5. X \in ReaderRow /\ X.mode = "reading" /\ X.of = s
  BY <1>0, <1>2, <1>3, <1>4, NewReaderRow
<1>6. /\ stream' \in [Streams -> StreamRow] /\ StreamsKept
      /\ engine # "mysql" => \A t \in Streams : stream'[t].pos \in Cursor
  <2> DEFINE S == [stream EXCEPT ![s].pos = call[c].cursor]
  <2>1. /\ S \in [Streams -> StreamRow]
        /\ engine # "mysql" => \A t \in Streams : S[t].pos \in Cursor
        /\ \A t \in Streams : /\ S[t].run = stream[t].run /\ S[t].handle = stream[t].handle
                              /\ S[t].step = stream[t].step
    <3> DEFINE k == call[c].cursor
    <3>1. k \in Marks /\ (engine # "mysql" => k \in Cursor)
      BY <1>4
    <3> HIDE DEF s, k
    <3>2. LET Z == [stream EXCEPT ![s].pos = k] IN
          /\ Z \in [Streams -> StreamRow]
          /\ engine # "mysql" => \A t \in Streams : Z[t].pos \in Cursor
          /\ \A t \in Streams : /\ Z[t].run = stream[t].run /\ Z[t].handle = stream[t].handle
                                /\ Z[t].step = stream[t].step
      BY <1>2, <3>1, PositionRow
    <3> QED BY <3>2 DEF k
  <2> HIDE DEF S
  <2>2. stream' = S
    BY <1>0 DEF S
  <2> QED BY <2>1, <2>2 DEF StreamsKept
<1> HIDE DEF X, f, s
<1>7. /\ reader' \in [Readers -> ReaderRow]
      /\ reader'[f] = X /\ \A q \in Readers \ {f} : reader'[q] = reader[q]
  BY <1>0, <1>2, <1>4, <1>5, ReaderSet
<1>8. \A q \in Readers : reader'[q].mode = "reading" => reader'[q].of = s
  BY <1>3, <1>5, <1>7 DEF NoneReads
<1>9. /\ call' \in [Actors -> CallRow] /\ \A a \in Actors : a # c => call'[a] = call[a]
      /\ call'[c].step = "opened" /\ call'[c].op = call[c].op /\ call'[c].run = call[c].run
      /\ call'[c].stream = s
  BY <1>0, <1>2, GotoRow DEF Steps, s
<1>10. RestTypes'
  BY <1>0, <1>2, <1>6, <1>7, <1>9 DEF RestTypes
<1>11. Running' = Running
  BY <1>0 DEF Running
<1>12. Starts(c)' /\ Stops(c)'
  BY <1>0, <1>3, <1>8, <1>9, <1>11 DEF Starts, Stops, Reads
<1>13. RemovedOK' /\ LoopsOwned' /\ LiveRun'
  <2>1. RemovedOK'
    BY <1>0, <1>2 DEF RemovedOK
  <2>2. LoopsOwned'
    BY <1>3, <1>8 DEF LoopsOwned
  <2>3. LiveRun'
    <3>1. live # 0 => live \in Streams
      BY <1>2 DEF RestTypes
    <3> QED BY <1>0, <1>2, <1>6, <3>1 DEF Phases, LiveRun, StreamsKept
  <2> QED BY <2>1, <2>2, <2>3
<1>14. FailsAlone'
  BY <1>0, <1>2, <1>6 DEF Phases, FailsAlone, StreamsKept
<1>15. /\ c = "boot" => call'[c].step \in {"idle", "check", "register", "open", "opened"}
       /\ c # "boot" => call'[c].step = "idle" \/ call'[c].op \in Ops
       /\ call'[c].step = "idle" => RestOK'
  BY <1>2, <1>9
<1>16. Phases'
  BY <1>0, <1>2, <1>9, <1>12, <1>13, <1>14, <1>15, RequestMoves
<1> QED BY <1>10, <1>16 DEF RestInv

\* A stream that cannot be opened takes its run along.
LEMMA OpenFailsMoves ==
  ASSUME RestInv, OneRequest, NEW c \in Actors, OpenFails(c)
  PROVE  RestInv'
<1>0. /\ call[c].step = "open" /\ Return(c) /\ Finalize(call[c].run, "failed") /\ "open" \in Faults
      /\ live' = IF live = call[c].stream THEN 0 ELSE live
      /\ UNCHANGED <<engine, tip, slot, ledger, removed, stream, reader, proc, traced>>
  BY DEF OpenFails, Resumes, source, Fault
<1>2. /\ RestTypes /\ Phases /\ Starts(c) /\ Stops(c) /\ ~removed /\ proc = "up"
      /\ \A a \in Actors : a # c => call[a].step = "idle"
  BY <1>0, Alone
<1>3. live' = 0 /\ call[c].run \in DOMAIN runs /\ NoneReads
  BY <1>0, <1>2 DEF Starts
<1>4. runs' \in Seq(RunRow) /\ Len(runs') <= 1 /\ ~Running'
  BY <1>0, <1>2, <1>3, FinalizeRow
<1>5. /\ call' \in [Actors -> CallRow] /\ \A a \in Actors : a # c => call'[a] = call[a]
      /\ call'[c].step = "idle"
  BY <1>0, <1>2, ReturnRow
<1>6. RestTypes'
  BY <1>0, <1>2, <1>3, <1>4, <1>5 DEF RestTypes
<1>7. NoneReads' /\ Reads(live)'
  BY <1>0, <1>3 DEF NoneReads, Reads
<1>8. Starts(c)' /\ Stops(c)' /\ RemovedOK' /\ LiveRun' /\ FailsAlone'
  BY <1>0, <1>2, <1>3, <1>5 DEF Starts, Stops, RemovedOK, LiveRun, FailsAlone, OneRequest
<1>9. LoopsOwned'
  BY <1>7 DEF LoopsOwned, NoneReads
<1>10. RestOK'
  <2> SUFFICES ASSUME ~Running', AtRest' PROVE Reads(live)'
    BY <1>3, <1>4 DEF RestOK, Running
  <2> QED BY <1>7
<1>11. Phases'
  BY <1>0, <1>2, <1>5, <1>8, <1>9, <1>10, RequestMoves
<1> QED BY <1>6, <1>11 DEF RestInv

\* The handle is that of the live stream, or its loops end.
LEMMA AfterOpenMoves ==
  ASSUME RestInv, OneRequest, NEW c \in Actors, AfterOpen(c)
  PROVE  RestInv'
<1> DEFINE s == call[c].stream
<1>0. /\ call[c].step = "opened" /\ Return(c)
      /\ UNCHANGED <<engine, tip, slot, runs, ledger, removed, live, proc, traced>>
      /\ \/ live = s /\ stream' = [stream EXCEPT ![live].handle = TRUE] /\ UNCHANGED reader
         \/ live # s /\ reader' = Stopped(s) /\ UNCHANGED stream
  BY DEF AfterOpen, source, database, history
<1>2. /\ RestTypes /\ Phases /\ Starts(c) /\ Stops(c) /\ ~removed /\ proc = "up" /\ ~Leaving
      /\ \A a \in Actors : a # c => call[a].step = "idle"
  BY <1>0, Alone
<1>3. s \in Streams /\ live \in {0, s} /\ (Running <=> live # 0) /\ Reads(s) /\ 0 \notin Streams
  BY <1>0, <1>2, CdcConstants DEF Starts, Streams
<1>4. /\ stream' \in [Streams -> StreamRow]
      /\ engine # "mysql" => \A t \in Streams : stream'[t].pos \in Cursor
      /\ \A t \in Streams : stream'[t].run = stream[t].run /\ stream'[t].step = stream[t].step
      /\ live # 0 => stream'[live].handle
  <2>1. CASE stream' = [stream EXCEPT ![live].handle = TRUE] /\ live = s
    <3> DEFINE X == [stream[live] EXCEPT !.handle = TRUE]
    <3>1. stream[live] \in StreamRow /\ (engine # "mysql" => stream[live].pos \in Cursor)
          /\ live \in Streams
      BY <1>2, <1>3, <2>1 DEF RestTypes
    <3>2. /\ X \in StreamRow /\ X.pos = stream[live].pos /\ X.run = stream[live].run
          /\ X.step = stream[live].step /\ X.handle
      BY <3>1 DEF StreamRow
    <3>3. stream' = [stream EXCEPT ![live] = X]
      BY <2>1
    <3> HIDE DEF X
    <3>4. /\ stream' \in [Streams -> StreamRow]
          /\ engine # "mysql" => \A t \in Streams : stream'[t].pos \in Cursor
          /\ stream'[live] = X /\ \A t \in Streams \ {live} : stream'[t] = stream[t]
      BY <1>2, <3>1, <3>2, <3>3, StreamSet
    <3> QED BY <3>2, <3>4
  <2>2. CASE live # s /\ UNCHANGED stream
    BY <2>2, <1>2, <1>3 DEF RestTypes
  <2> QED BY <2>1, <2>2, <1>0
<1>5. /\ reader' \in [Readers -> ReaderRow]
      /\ \A q \in Readers : reader'[q].mode = "reading" => reader'[q].of = live
  <2>1. CASE live = s /\ UNCHANGED reader
    BY <2>1, <1>2, <1>3 DEF RestTypes, Reads
  <2>2. CASE reader' = Stopped(s)
    <3>1. /\ Stopped(s) \in [Readers -> ReaderRow]
          /\ \A r \in Readers : Stopped(s)[r].mode = "reading" =>
               Stopped(s)[r] = reader[r] /\ reader[r].of # s /\ reader[r].mode = "reading"
      BY <1>2, StoppedRow
    <3> QED BY <2>2, <3>1, <1>3 DEF Reads
  <2> QED BY <2>1, <2>2, <1>0
<1>6. LoopsOwned'
  <2> SUFFICES ASSUME NEW q \in Readers, reader'[q].mode = "reading" PROVE reader'[q].of \in Streams
    BY DEF LoopsOwned
  <2>1. reader'[q].of = live
    BY <1>5
  <2>2. live # 0
    <3>1. CASE live = s
      BY <3>1, <1>3
    <3>2. CASE live # s
      <4>1. reader' = Stopped(s)
        BY <3>2, <1>0
      <4>2. reader[q].mode = "reading" /\ reader[q].of # s
        BY <4>1, <1>2, StoppedRow
      <4> QED BY <4>2, <1>3 DEF Reads
    <3> QED BY <3>1, <3>2
  <2> QED BY <2>1, <2>2, <1>3
<1>7. /\ call' \in [Actors -> CallRow] /\ \A a \in Actors : a # c => call'[a] = call[a]
      /\ call'[c].step = "idle"
  BY <1>0, <1>2, ReturnRow
<1> HIDE DEF s
<1>8. RestTypes'
  BY <1>0, <1>2, <1>4, <1>5, <1>7 DEF RestTypes
<1>9. Starts(c)' /\ Stops(c)' /\ RemovedOK'
  BY <1>0, <1>2, <1>7 DEF Starts, Stops, RemovedOK
<1>10. LiveRun'
  <2>1. live # 0 => live \in Streams
    BY <1>3
  <2> QED BY <1>0, <1>2, <1>4, <2>1 DEF Phases, LiveRun
<1>11. FailsAlone'
  BY <1>0, <1>2, <1>4 DEF Phases, FailsAlone
<1>12. RestOK'
  <2>1. Reads(live)'
    BY <1>0, <1>5 DEF Reads
  <2>2. Running' <=> live' # 0
    BY <1>0, <1>3 DEF Running
  <2>3. live' # 0 => stream'[live'].handle
    BY <1>0, <1>4
  <2> QED BY <2>1, <2>2, <2>3 DEF RestOK
<1>13. Phases'
  BY <1>0, <1>2, <1>6, <1>7, <1>9, <1>10, <1>11, <1>12, RequestMoves
<1> QED BY <1>8, <1>13 DEF RestInv

\* A stop, an edit and a removal begin with the end of the live stream.
LEMMA AskStopMoves ==
  ASSUME RestInv, OneRequest, NEW c \in Actors, AskStop(c)
  PROVE  RestInv'
<1>0. UNCHANGED <<engine, tip, slot, runs, ledger, removed, stream, proc, traced>> /\ Torn
  BY DEF AskStop, source, database
<1>1. PICK op \in {"stop", "edit", "remove"} :
        Ask(c, op, IF op = "remove" THEN "deprovision" ELSE "find")
  BY DEF AskStop
<1> DEFINE step == IF op = "remove" THEN "deprovision" ELSE "find"
<1>2. /\ RestTypes /\ Phases /\ ~removed /\ proc = "up" /\ c # "boot"
      /\ \A a \in Actors : call[a].step = "idle"
      /\ ~Leaving /\ Reads(live) /\ (live # 0 => stream[live].handle) /\ (Running <=> live # 0)
      /\ call' \in [Actors -> CallRow] /\ \A a \in Actors : a # c => call'[a] = call[a]
      /\ call'[c].step = step /\ call'[c].op = op /\ op \in Ops
  BY <1>1, AsksAtRest DEF Steps
<1>3. live' = 0 /\ reader' \in [Readers -> ReaderRow] /\ \A q \in Readers : reader'[q].mode # "reading"
  <2>1. CASE live = 0
    <3>1. NoneReads
      BY <2>1, <1>2, QuietAtRest
    <3> QED BY <1>0, <1>2, <2>1, <3>1 DEF Torn, RestTypes, NoneReads
  <2>2. CASE live # 0
    <3>1. reader' = Stopped(live) /\ live' = 0
      BY <1>0, <1>2, <2>2 DEF Torn
    <3>2. /\ Stopped(live) \in [Readers -> ReaderRow]
          /\ \A r \in Readers : Stopped(live)[r].mode = "reading" =>
               Stopped(live)[r] = reader[r] /\ reader[r].of # live /\ reader[r].mode = "reading"
      BY <1>2, StoppedRow
    <3> QED BY <3>1, <3>2, <1>2 DEF Reads
  <2> QED BY <2>1, <2>2
<1>4. RestTypes'
  BY <1>0, <1>2, <1>3 DEF RestTypes
<1>5. Starts(c)' /\ Stops(c)'
  BY <1>0, <1>2, <1>3 DEF Starts, Stops, NoneReads
<1>6. RemovedOK' /\ LoopsOwned' /\ LiveRun'
  BY <1>0, <1>2, <1>3 DEF RemovedOK, LoopsOwned, LiveRun
<1>7. FailsAlone'
  <2>1. "ledger" \in Faults => op = "remove"
    BY <1>2 DEF OneRequest
  <2>2. op = "remove" => Leaving'
    BY <1>2 DEF Leaving
  <2> QED BY <2>1, <2>2 DEF FailsAlone
<1>8. Phases'
  BY <1>0, <1>2, <1>5, <1>6, <1>7, RequestMoves
<1> QED BY <1>4, <1>8 DEF RestInv
------------------------------------------------------------------------------
\* The invariant holds at first, and every step keeps it.
LEMMA RestInit == Init => RestInv
<1> SUFFICES ASSUME Init PROVE RestInv
  OBVIOUS
<1>1. /\ \A c \in Actors : call[c] = Idle
      /\ \A s \in Streams : stream[s] = NoStream
      /\ \A r \in Readers : reader[r] = NoReader
      /\ runs = <<>> /\ live = 0 /\ removed = FALSE /\ proc = "up"
  BY DEF Init
<1>2. RestTypes
  <2>1. /\ engine \in Engines /\ tip = 0 /\ slot = -1 /\ ledger = <<>> /\ traced = {}
        /\ stream = [s \in Streams |-> NoStream] /\ reader = [r \in Readers |-> NoReader]
        /\ call = [c \in Actors |-> Idle]
    BY DEF Init
  <2>2. 0 \in 0 .. Len(Rows) /\ -1 \in -1 .. Len(Rows)
    BY SpotOK
  <2>3. stream \in [Streams -> StreamRow] /\ \A s \in Streams : stream[s].pos \in Cursor
    BY <2>1, NewRows
  <2>4. reader \in [Readers -> ReaderRow] /\ call \in [Actors -> CallRow]
    BY <2>1, NewRows
  <2>5. runs \in Seq(RunRow) /\ Len(runs) <= 1 /\ DOMAIN ledger = {}
    BY <1>1, <2>1
  <2> QED BY <1>1, <2>1, <2>2, <2>3, <2>4, <2>5 DEF RestTypes
<1>3. OneBusy /\ \A c \in Actors : Starts(c) /\ Stops(c)
  BY <1>1, NewRows DEF OneBusy, Starts, Stops, Actors
<1>4. RestOK /\ RemovedOK /\ LoopsOwned /\ LiveRun /\ FailsAlone
  <2>1. ~Running /\ DOMAIN runs = {}
    BY <1>1 DEF Running
  <2>2. \A r \in Readers : reader[r].mode # "reading"
    BY <1>1, NewRows
  <2>3. \A s \in Streams : stream[s].step = "idle"
    BY <1>1, NewRows
  <2>4. RestOK
    <3>1. Reads(live)
      BY <2>2 DEF Reads
    <3> QED BY <1>1, <2>1, <3>1 DEF RestOK
  <2> QED BY <1>1, <2>2, <2>3, <2>4 DEF RemovedOK, LoopsOwned, LiveRun, FailsAlone
<1> QED BY <1>2, <1>3, <1>4 DEF RestInv, Phases

\* Every step keeps it.
LEMMA RestNext ==
  ASSUME OneRequest, RestInv, [Next]_vars
  PROVE  RestInv'
<1>1. ASSUME NEW c \in Actors, RequestNext(c) PROVE RestInv'
  BY <1>1, CallSteps, AskStartMoves, RunSteps, RegisterMoves, OpenMoves, OpenFailsMoves,
     AfterOpenMoves, AskStopMoves DEF RequestNext
<1>2. ASSUME NEW s \in Streams, PipelineNext(s) PROVE RestInv'
  <2>1. CASE GiveUp(s)
    BY <2>1, GiveUpEnds
  <2>2. CASE ~GiveUp(s)
    BY <2>2, <1>2, ChainSteps
  <2> QED BY <2>1, <2>2
<1>3. CASE UNCHANGED vars
  <2>1. UNCHANGED <<engine, tip, slot, runs, ledger, removed, live, stream, reader, call, proc, traced>>
    BY <1>3 DEF vars, source, database, memory, history
  <2>2. RestTypes'
    BY <2>1 DEF RestInv, RestTypes
  <2>3. RunsKept /\ LoopsKept /\ StreamsKept
    BY <2>1 DEF RunsKept, Running, LoopsKept, StreamsKept
  <2>4. Phases'
    BY <2>1, <2>3, PhasesStay DEF RestInv
  <2> QED BY <2>2, <2>4 DEF RestInv
<1> QED BY <1>1, <1>2, <1>3, CommitKeeps, CrashRests, BootMoves, LoopSteps DEF Next

\* The invariant says of a state at rest what RestIsClean does.
LEMMA RestHolds ==
  ASSUME RestInv
  PROVE  RestIsClean
<1>1. TypeOK
  <2>1. runs \in Seq([status : {"running", "paused", "failed"}, offset : Nat, cursor : Cursor])
    BY DEF RestInv, RestTypes, RunRow
  <2>2. \A s \in Streams :
          /\ stream[s].step \in {"idle", "record", "save", "failed"}
          /\ stream[s].watermark \in Cursor /\ stream[s].chain \in Seq(Readers \X Changes)
    BY DEF RestInv, RestTypes, StreamRow
  <2>3. \A r \in Readers : reader[r].mode \in {"free", "reading", "draining"}
    BY DEF RestInv, RestTypes, ReaderRow
  <2> QED BY <2>1, <2>2, <2>3 DEF TypeOK, RestInv, RestTypes
<1>2. StreamIsRun
  <2> SUFFICES ASSUME AtRest
               PROVE  /\ (\E n \in DOMAIN runs : runs[n].status = "running") <=> live # 0
                      /\ \A r \in Readers : reader[r].mode = "reading" => reader[r].of = live
    BY DEF StreamIsRun
  <2>1. (Running <=> live # 0) /\ Reads(live)
    BY DEF RestInv, Phases, RestOK
  <2> QED BY <2>1 DEF Running, Reads
<1>3. NoOrphanedSlot
  BY DEF NoOrphanedSlot, RestInv, Phases, RemovedOK
<1> QED BY <1>1, <1>2, <1>3 DEF RestIsClean

\* Between requests nothing is half-way: whatever the engine, the log, the interleaving of
\* the streams and the loops, and the crashes and failures, a hook at rest has a live
\* stream exactly when its run is running, nothing reads on for another stream, and a
\* removed hook leaves no slot (HookCdcService start, stop, cleanup, beginStream,
\* processChange and onModuleInit).
THEOREM RestKept == OneRequest /\ Spec => []RestIsClean
<1> SUFFICES ASSUME OneRequest PROVE Spec => []RestIsClean
  OBVIOUS
<1>1. Init => RestInv
  BY RestInit
<1>2. RestInv /\ [Next]_vars => RestInv'
  BY RestNext
<1>3. RestInv => RestIsClean
  BY RestHolds
<1> QED BY <1>1, <1>2, <1>3, PTL DEF Spec
------------------------------------------------------------------------------
(***************************************************************************)
(* Repeats.  While nobody stopped the stream, a change that may be sent    *)
(* again is one beyond the run's cursor that was sent before, and each of  *)
(* these has been paid for by a crash or a failure.                        *)
(***************************************************************************)
NotAfter(a, b) == a = b \/ Precedes(a, b)
Cur == IF runs = <<>> THEN None ELSE runs[1].cursor
Beyond(p) == Precedes(Cur, p)
Sent == {c \in Changes : sent[c] > 0}
\* The change that is being worked on, and whether it has failed.
Flight == IF live # 0 /\ stream[live].step # "idle" THEN {Head1(live)[2]} ELSE {}
Failing == IF live # 0 /\ stream[live].step = "failed" THEN 1 ELSE 0
\* What may be sent again.
Again == {c \in Sent : Beyond(c)} \ Flight

HistoryTypes ==
  /\ sent \in [Changes -> Nat] /\ interrupts \in Nat /\ stops \in Nat
  /\ IsFiniteSet(Sent) /\ IsFiniteSet(Repeated)
Counted == Repeats + Cardinality(Again) + Failing <= interrupts

\* Nobody but a start, or the boot, is under way, and the live stream is the run's.
StartOK(c) ==
  /\ call[c].step \in {"idle", "provision", "run", "check", "register", "open", "opened"}
  /\ call[c].step \in {"provision", "run", "check", "register"} => live = 0
  /\ call[c].step \in {"check", "register", "open"} => call[c].run = 1 /\ call[c].cursor = Cur
  /\ call[c].step \in {"check", "register", "open", "opened"} =>
       runs # <<>> /\ runs[1].status = "running"
  /\ call[c].step \in {"open", "opened"} =>
       live = call[c].stream /\ stream[live].chain = <<>> /\ stream[live].step = "idle"
OnlyStarts ==
  /\ ~removed /\ (proc = "down" => live = 0)
  /\ \A c \in Actors : StartOK(c)
  /\ live # 0 => runs # <<>> /\ runs[1].status = "running" /\ stream[live].run = 1
  /\ \A s \in Streams : stream[s].step # "idle" => s = live

\* The cursor is behind the end of the log and what the live stream works on.
CursorBehind ==
  /\ Cur[1] <= tip
  /\ live # 0 => \A i \in DOMAIN stream[live].chain : stream[live].chain[i][2][1] <= tip
  /\ live # 0 /\ stream[live].step # "idle" => Beyond(Head1(live)[2])
  /\ live # 0 /\ engine = "postgres" => NotAfter(Cur, stream[live].watermark)
\* MongoDB's watermark drops nothing: it is the one loop that goes on beyond the cursor.
TailBeyond ==
  engine = "mongodb" =>
    /\ \A r \in Readers : reader[r].mode = "reading" => Beyond(reader[r].at)
    /\ live # 0 =>
         /\ stream[live].pos = None \/ NotAfter(Cur, stream[live].pos)
         /\ \A r \in Readers : reader[r].mode # "free" /\ reader[r].of = live => reader[r].mode = "reading"
         /\ \A i \in DOMAIN stream[live].chain : reader[stream[live].chain[i][1]].mode = "reading"

Paid == OnlyStarts /\ CursorBehind /\ TailBeyond /\ Counted
RepeatInv == HistoryTypes /\ (stops = 0 => Paid)

\* What a step of a stream that nobody has stopped may rely on.
Unstopped == Orderly /\ Logged /\ LoggedInv /\ LoggedInv' /\ HistoryTypes /\ HistoryTypes' /\ Paid
------------------------------------------------------------------------------
(***************************************************************************)
(* Counting.                                                               *)
(***************************************************************************)

\* What may be sent again is finite, and a change more costs one.
LEMMA AgainOK ==
  ASSUME HistoryTypes
  PROVE  IsFiniteSet(Again) /\ Cardinality(Again) \in Nat /\ Repeats \in Nat /\ Failing \in 0 .. 1
<1>1. Again \subseteq Sent
  BY DEF Again
<1>2. IsFiniteSet(Again) /\ Cardinality(Again) \in Nat
  BY <1>1, FS_Subset, FS_CardinalityType DEF HistoryTypes
<1> QED BY <1>2, FS_CardinalityType DEF HistoryTypes, Repeats, Failing

LEMMA CountSame ==
  ASSUME HistoryTypes, HistoryTypes', Counted, sent' = sent, Again' \subseteq Again,
         Failing' + interrupts <= Failing + interrupts'
  PROVE  Counted'
<1>1. Repeats' = Repeats
  BY DEF Repeats, Repeated
<1> DEFINE A == Again
           B == Again'
<1>2. IsFiniteSet(A) /\ Cardinality(A) \in Nat /\ Repeats \in Nat /\ Failing \in 0 .. 1
  BY AgainOK
<1>3. Failing' \in 0 .. 1
  BY DEF Failing
<1>4. Cardinality(B) <= Cardinality(A) /\ Cardinality(B) \in Nat
  <2>1. B \subseteq A
    OBVIOUS
  <2> HIDE DEF A, B
  <2> QED BY <1>2, <2>1, FS_Subset, FS_CardinalityType
<1>5. interrupts \in Nat /\ interrupts' \in Nat /\ Repeats + Cardinality(A) + Failing <= interrupts
  BY DEF HistoryTypes, Counted
<1> HIDE DEF A, B
<1>6. Failing' + interrupts <= Failing + interrupts' /\ Cardinality(B) <= Cardinality(A)
  BY <1>2, <1>3, <1>4, <1>5
<1>7. Repeats + Cardinality(B) + Failing' <= interrupts'
  <2> DEFINE a == Cardinality(A)
             b == Cardinality(B)
             g == Failing'
             j == interrupts'
  <2>1. /\ Repeats \in Nat /\ a \in Nat /\ b \in Nat /\ interrupts \in Nat /\ j \in Nat
        /\ Failing \in 0 .. 1 /\ g \in 0 .. 1
    BY <1>2, <1>3, <1>4, <1>5
  <2>2. Repeats + a + Failing <= interrupts
    BY <1>5
  <2>3. b <= a /\ g + interrupts <= Failing + j
    BY <1>6
  <2> HIDE DEF a, b, g, j
  <2>4. Repeats + b + g <= j
    BY <2>1, <2>2, <2>3
  <2> QED BY <2>4 DEF a, b, g, j
<1> QED BY <1>1, <1>7 DEF Counted, B

LEMMA CountStays ==
  ASSUME HistoryTypes, HistoryTypes', Counted, UNCHANGED <<sent, interrupts, Failing>>, Again' \subseteq Again
  PROVE  Counted'
<1>1. Failing' + interrupts <= Failing + interrupts'
  BY AgainOK DEF HistoryTypes
<1> QED BY <1>1, CountSame

LEMMA CountOne ==
  ASSUME HistoryTypes, HistoryTypes', Counted, sent' = sent, NEW c, Again' \subseteq Again \union {c},
         Failing' + interrupts + 1 <= Failing + interrupts'
  PROVE  Counted'
<1>1. Repeats' = Repeats
  BY DEF Repeats, Repeated
<1> DEFINE A == Again
           B == Again'
<1>2. IsFiniteSet(A) /\ Cardinality(A) \in Nat /\ Repeats \in Nat /\ Failing \in 0 .. 1
  BY AgainOK
<1>3. Failing' \in 0 .. 1
  BY DEF Failing
<1>4. Cardinality(B) <= Cardinality(A) + 1 /\ Cardinality(B) \in Nat
  <2>1. B \subseteq A \union {c}
    OBVIOUS
  <2> HIDE DEF A, B
  <2>2. IsFiniteSet(A \union {c}) /\ Cardinality(A \union {c}) <= Cardinality(A) + 1
        /\ Cardinality(A \union {c}) \in Nat
    BY <1>2, FS_AddElement, FS_CardinalityType
  <2>3. Cardinality(B) <= Cardinality(A \union {c}) /\ Cardinality(B) \in Nat
    BY <2>1, <2>2, FS_Subset, FS_CardinalityType
  <2> QED BY <1>2, <2>2, <2>3
<1>5. interrupts \in Nat /\ interrupts' \in Nat /\ Repeats + Cardinality(A) + Failing <= interrupts
  BY DEF HistoryTypes, Counted
<1> HIDE DEF A, B
<1>6. Failing' + interrupts + 1 <= Failing + interrupts' /\ Cardinality(B) <= Cardinality(A) + 1
  BY <1>2, <1>3, <1>4, <1>5
<1>7. Repeats + Cardinality(B) + Failing' <= interrupts'
  <2> DEFINE a == Cardinality(A)
             b == Cardinality(B)
             g == Failing'
             j == interrupts'
  <2>1. /\ Repeats \in Nat /\ a \in Nat /\ b \in Nat /\ interrupts \in Nat /\ j \in Nat
        /\ Failing \in 0 .. 1 /\ g \in 0 .. 1
    BY <1>2, <1>3, <1>4, <1>5
  <2>2. Repeats + a + Failing <= interrupts
    BY <1>5
  <2>3. b <= a + 1 /\ g + interrupts + 1 <= Failing + j
    BY <1>6
  <2> HIDE DEF a, b, g, j
  <2>4. Repeats + b + g <= j
    BY <2>1, <2>2, <2>3
  <2> QED BY <2>4 DEF a, b, g, j
<1> QED BY <1>1, <1>7 DEF Counted, B

\* A change that is sent: for the first time, or one that was to be sent again.
LEMMA SentMoves ==
  ASSUME sent \in [Changes -> Nat], NEW c, sent' = [sent EXCEPT ![c] = @ + 1]
  PROVE  /\ sent' \in [Changes -> Nat]
         /\ Sent' \subseteq Sent \union {c} /\ Sent \subseteq Sent'
         /\ c \notin Sent => Repeated' = Repeated
         /\ Repeated' \subseteq Repeated \union {<<c, sent'[c]>>}
<1>1. \A d \in Changes : sent'[d] = IF d = c THEN sent[d] + 1 ELSE sent[d]
  OBVIOUS
<1>2. sent' \in [Changes -> Nat]
  <2>1. \A d \in Changes : sent[d] \in Nat /\ sent'[d] \in Nat
    BY <1>1
  <2>2. DOMAIN sent' = Changes /\ sent' = [d \in Changes |-> sent'[d]]
    OBVIOUS
  <2> QED BY <2>1, <2>2
<1>3. Sent' \subseteq Sent \union {c} /\ Sent \subseteq Sent'
  BY <1>1 DEF Sent
<1>4. ASSUME NEW f \in [Changes -> Nat]
      PROVE  \A p : p \in UNION {{d} \X (2 .. f[d]) : d \in Changes} <=>
                 \E d \in Changes : \E n \in 2 .. f[d] : p = <<d, n>>
  <2> DEFINE D(d) == 2 .. f[d]
             R == UNION {{d} \X D(d) : d \in Changes}
  <2> HIDE DEF D
  <2> SUFFICES \A p : p \in R <=> \E d \in Changes : \E n \in D(d) : p = <<d, n>>
    BY DEF D
  <2>1. ASSUME NEW p, p \in R PROVE \E d \in Changes : \E n \in D(d) : p = <<d, n>>
    <3>1. PICK d \in Changes : p \in {d} \X D(d)
      BY <2>1
    <3> QED BY <3>1
  <2>2. ASSUME NEW d \in Changes, NEW n \in D(d) PROVE <<d, n>> \in R
    <3>1. <<d, n>> \in {d} \X D(d)
      OBVIOUS
    <3> QED BY <3>1
  <2> QED BY <2>1, <2>2
<1>5. \A p : p \in Repeated <=> \E d \in Changes : \E n \in 2 .. sent[d] : p = <<d, n>>
  BY <1>4 DEF Repeated
<1>6. \A p : p \in Repeated' <=> \E d \in Changes : \E n \in 2 .. sent'[d] : p = <<d, n>>
  BY <1>2, <1>4 DEF Repeated
<1>7. Repeated' \subseteq Repeated \union {<<c, sent'[c]>>}
  <2>1. ASSUME NEW d \in Changes, NEW n \in 2 .. sent'[d]
        PROVE  n \in 2 .. sent[d] \/ <<d, n>> = <<c, sent'[c]>>
    <3>1. sent[d] \in Nat
      OBVIOUS
    <3> QED BY <1>1, <2>1, <3>1
  <2> QED BY <1>5, <1>6, <2>1
<1>8. c \notin Sent => Repeated' = Repeated
  <2>1. ASSUME c \notin Sent, NEW d \in Changes, NEW n
        PROVE  n \in 2 .. sent'[d] <=> n \in 2 .. sent[d]
    <3>1. CASE d = c
      <4>1. sent[d] = 0 /\ sent'[d] = 1
        BY <1>1, <2>1, <3>1 DEF Sent
      <4> QED BY <4>1
    <3> QED BY <1>1, <3>1
  <2>2. ASSUME c \notin Sent, NEW p PROVE p \in Repeated' <=> p \in Repeated
    BY <1>5, <1>6, <2>1, <2>2
  <2> QED BY <2>2
<1> QED BY <1>2, <1>3, <1>7, <1>8

\* Only a delivery counts a change; the rest of the history only grows.
LEMMA HistoryMoves ==
  ASSUME HistoryTypes, [Next]_vars
  PROVE  HistoryTypes' /\ (stops' = 0 => stops = 0) /\ (interrupts' = 0 => interrupts = 0)
<1> DEFINE Grows == interrupts' \in {interrupts, interrupts + 1} /\ stops' \in {stops, stops + 1}
           Fewer == (stops' = 0 => stops = 0) /\ (interrupts' = 0 => interrupts = 0)
<1>1. ASSUME Grows, UNCHANGED sent PROVE HistoryTypes' /\ Fewer
  BY <1>1 DEF HistoryTypes, Sent, Repeated
<1>2. ASSUME NEW s \in Streams, Deliver(s) PROVE HistoryTypes' /\ Fewer
  <2> DEFINE c == Head1(s)[2]
  <2>1. sent' = [sent EXCEPT ![c] = @ + 1] /\ UNCHANGED <<stops, interrupts>>
    BY <1>2 DEF Deliver
  <2> HIDE DEF c
  <2>2. /\ sent' \in [Changes -> Nat] /\ Sent' \subseteq Sent \union {c}
        /\ Repeated' \subseteq Repeated \union {<<c, sent'[c]>>}
    BY <2>1, SentMoves DEF HistoryTypes
  <2>3. ASSUME NEW S, NEW T, NEW x, IsFiniteSet(S), T \subseteq S \union {x} PROVE IsFiniteSet(T)
    BY <2>3, FS_AddElement, FS_Subset
  <2>4. IsFiniteSet(Sent') /\ IsFiniteSet(Repeated')
    <3> DEFINE S == Sent
               T == Sent'
               Q == Repeated
               R == Repeated'
               x == <<c, sent'[c]>>
    <3>1. IsFiniteSet(S) /\ IsFiniteSet(Q) /\ T \subseteq S \union {c} /\ R \subseteq Q \union {x}
      BY <2>2 DEF HistoryTypes
    <3> HIDE DEF S, T, Q, R, x
    <3>2. IsFiniteSet(T) /\ IsFiniteSet(R)
      BY <2>3, <3>1
    <3> QED BY <3>2 DEF T, R
  <2> QED BY <2>1, <2>2, <2>4 DEF HistoryTypes
<1>3. ASSUME NEW c \in Actors, RequestNext(c) PROVE Grows /\ UNCHANGED sent
  <2>1. ASSUME AskStart(c) \/ Provision(c) \/ UpdateRun(c) \/ CheckStream(c) \/ Register(c)
               \/ OpenStream(c) \/ OpenFails(c) \/ AfterOpen(c)
        PROVE  Grows /\ UNCHANGED sent
    BY <2>1 DEF HistoryTypes, AskStart, Provision, UpdateRun, CheckStream, Register, OpenStream, OpenFails,
                AfterOpen, history
  <2>2. ASSUME AskStop(c) \/ FindRun(c) \/ PauseRun(c) \/ Restart(c) \/ Deprovision(c) \/ DeleteHook(c)
        PROVE  Grows /\ UNCHANGED sent
    BY <2>2 DEF HistoryTypes, AskStop, FindRun, PauseRun, Restart, Deprovision, DeleteHook, history
  <2> QED BY <1>3, <2>1, <2>2 DEF RequestNext
<1>4. ASSUME NEW r \in Readers, ReaderNext(r) PROVE Grows /\ UNCHANGED sent
  <2>1. ASSUME OnWalRecord(r) \/ OnBinlogEvent(r) \/ OnOplogEntry(r) \/ OnNotification(r) \/ Acknowledge(r)
               \/ \E c \in Changes : BuildRow(r, c)
        PROVE  Grows /\ UNCHANGED sent
    BY <2>1 DEF OnWalRecord, OnBinlogEvent, OnOplogEntry, OnNotification, Acknowledge, BuildRow, ReadsOn, history
  <2>2. ASSUME Resubscribe(r) \/ RestartInstance(r) \/ Rewatch(r) \/ Reconnect(r)
        PROVE  Grows /\ UNCHANGED sent
    <3>1. \E pos : Reopens(r, pos)
      BY <2>2 DEF Resubscribe, RestartInstance, Rewatch, Reconnect
    <3> QED BY <3>1 DEF Reopens
  <2> QED BY <1>4, <2>1, <2>2 DEF ReaderNext
<1>5. ASSUME NEW s \in Streams, PipelineNext(s), ~Deliver(s) PROVE Grows /\ UNCHANGED sent
  BY <1>5 DEF PipelineNext, Drop, Record, Save, Throws, RecordFailure, GiveUp, history
<1>6. ASSUME Commit \/ Crash \/ Boot PROVE Grows /\ UNCHANGED sent
  BY <1>6 DEF Commit, Crash, Boot, history
<1>7. UNCHANGED vars => Grows /\ UNCHANGED sent
  BY DEF vars, history
<1> QED BY <1>1, <1>2, <1>3, <1>4, <1>5, <1>6, <1>7 DEF Next
------------------------------------------------------------------------------
(***************************************************************************)
(* The order of the log, as the cursor cuts it.                            *)
(***************************************************************************)

\* The order is one.
LEMMA OrderOK ==
  ASSUME NEW a \in Nat \X Nat, NEW b \in Nat \X Nat, NEW c \in Nat \X Nat
  PROVE  /\ NotAfter(a, b) /\ Precedes(b, c) => Precedes(a, c)
         /\ Precedes(a, b) => NotAfter(a, b) /\ a # b
         /\ NotAfter(a, a)
BY DEF NotAfter, Precedes

\* Places, and the cursor, are in it.
LEMMA PlacesOrdered ==
  /\ None \in Nat \X Nat /\ Resume \subseteq Nat \X Nat
  /\ \A c \in Changes : c \in Nat \X Nat
  /\ \A c \in Places : /\ c \in Nat \X Nat /\ Precedes(None, c)
                       /\ After(c) \in Nat \X Nat /\ Precedes(c, After(c))
<1>1. None \in Nat \X Nat
  BY DEF None
<1>2. ASSUME NEW c \in Places
      PROVE  c \in Nat \X Nat /\ Precedes(None, c) /\ After(c) \in Nat \X Nat /\ Precedes(c, After(c))
  <2>1. c[1] \in Nat \ {0} /\ c[2] \in Nat /\ c = <<c[1], c[2]>>
    BY PlaceOK
  <2> QED BY <2>1 DEF None, After, Start, Precedes
<1>3. \A c \in Changes : c \in Nat \X Nat
  BY <1>2, ChangeOK
<1> QED BY <1>1, <1>2, <1>3 DEF Resume

\* The run's cursor.
LEMMA CurOK ==
  ASSUME Types
  PROVE  Cur \in Resume /\ Cur \in Nat \X Nat
<1>1. runs # <<>> => runs[1] \in RunRecord
  BY DEF Types
<1>2. Cur \in Resume
  BY <1>1 DEF Cur, RunRecord, Resume
<1> QED BY <1>2, PlacesOrdered

\* Where MongoDB opens again is beyond the cursor.
LEMMA OpensBeyond ==
  ASSUME Types, engine = "mongodb", Cur[1] <= tip, NEW w \in Resume, w = None \/ NotAfter(Cur, w)
  PROVE  Beyond(OpensAt(w))
<1>1. Cur \in Nat \X Nat
  BY CurOK
<1>2. tip \in Nat
  BY CdcConstants DEF Types
<1>3. OpensAt(w) = IF w = None THEN Start(tip + 1) ELSE After(w)
  BY DEF OpensAt, TokenPosition, Tip
<1>4. CASE w = None
  BY <1>1, <1>2, <1>3, <1>4 DEF Beyond, Precedes, Start
<1>5. CASE w # None
  <2>1. w \in Places /\ NotAfter(Cur, w) /\ OpensAt(w) = After(w)
    BY <1>3, <1>5 DEF Resume
  <2> QED BY <1>1, <2>1, PlacesOrdered, OrderOK DEF Beyond
<1> QED BY <1>4, <1>5
------------------------------------------------------------------------------
(***************************************************************************)
(* The steps of a start.                                                   *)
(***************************************************************************)

\* Steps that leave the cursor, the streams, the loops and the requests.
LEMMA PaidStays ==
  ASSUME Unstopped, UNCHANGED <<engine, runs, live, stream, reader, call, proc, removed, sent>>,
         tip' >= tip, interrupts' = interrupts
  PROVE  Paid'
<1>1. UNCHANGED <<Cur, Flight, Failing, Again>>
  BY DEF Cur, Flight, Failing, Again, Sent, Beyond, Head1
<1>2. OnlyStarts'
  BY <1>1 DEF Unstopped, Paid, OnlyStarts, StartOK
<1>3. CursorBehind'
  <2>1. tip \in Nat /\ tip' \in Nat /\ Cur \in Nat \X Nat
    BY CurOK, CdcConstants DEF Unstopped, LoggedInv, Types
  <2>2. live # 0 => \A i \in DOMAIN stream[live].chain : stream[live].chain[i][2][1] \in Nat
    <3> SUFFICES ASSUME live # 0, NEW i \in DOMAIN stream[live].chain
                 PROVE  stream[live].chain[i][2][1] \in Nat
      OBVIOUS
    <3>1. stream[live].chain \in Seq(Readers \X Places)
      BY DEF Unstopped, LoggedInv, Types, StreamRecord
    <3>2. stream[live].chain[i][2] \in Places
      BY <3>1
    <3> QED BY <3>2, PlaceOK
  <2> QED BY <1>1, <2>1, <2>2 DEF Unstopped, Paid, CursorBehind, Beyond, Head1
<1>4. TailBeyond'
  BY <1>1 DEF Unstopped, Paid, TailBeyond, Beyond
<1>5. Counted'
  BY <1>1, CountStays DEF Unstopped, Paid
<1> QED BY <1>2, <1>3, <1>4, <1>5 DEF Paid

\* A request that goes on, while streams and loops stay and nothing is interrupted.
LEMMA StartGoesOn ==
  ASSUME Unstopped, UNCHANGED <<engine, tip, live, stream, reader, removed, sent, interrupts>>,
         Cur' = Cur, OnlyStarts'
  PROVE  Paid'
<1>1. UNCHANGED <<Flight, Failing, Again>>
  BY DEF Flight, Failing, Again, Sent, Beyond, Head1
<1>2. CursorBehind' /\ TailBeyond'
  BY DEF Unstopped, Paid, CursorBehind, TailBeyond, Beyond, Head1
<1>3. Counted'
  BY <1>1, CountStays DEF Unstopped, Paid
<1> QED BY <1>2, <1>3 DEF Paid

\* What a start does before it registers a stream.
LEMMA StartBegins ==
  ASSUME Unstopped, NEW c \in Actors, AskStart(c) \/ Provision(c) \/ CheckStream(c)
  PROVE  Paid'
<1>1. UNCHANGED <<engine, tip, runs, live, stream, reader, removed, sent, interrupts, proc>>
  BY DEF AskStart, Provision, CheckStream, database, memory, source, history
<1>2. Cur' = Cur
  BY <1>1 DEF Cur
<1>3. call \in [Actors -> CallRecord]
  BY DEF Unstopped, LoggedInv, Types
<1>4. /\ \A b \in Actors \ {c} : call'[b] = call[b]
      /\ \/ call'[c].step \in {"idle", "run"} /\ (call'[c].step = "run" => live = 0)
         \/ call'[c].step = "provision" /\ live = 0
         \/ call'[c].step = "register" /\ live = 0 /\ call[c].step = "check"
            /\ call'[c].run = call[c].run /\ call'[c].cursor = call[c].cursor
  <2>1. CASE AskStart(c)
    <3>1. live = 0
      <4>1. runs # <<>> /\ runs[1].status = "running" => 1 \in ActiveRuns
        BY DEF ActiveRuns, Active, Unstopped, LoggedInv, Types
      <4> QED BY <2>1, <4>1 DEF AskStart, Unstopped, Paid, OnlyStarts, StartOK
    <3>2. call' = [call EXCEPT ![c] = [Idle EXCEPT !.step = "provision", !.op = "start"]]
      BY <2>1 DEF AskStart, Ask
    <3> QED BY <1>3, <3>1, <3>2 DEF Idle
  <2>2. CASE Provision(c)
    <3>1. live = 0
      BY <2>2 DEF Provision, Resumes, Unstopped, Paid, OnlyStarts, StartOK
    <3>2. call' = [call EXCEPT ![c].step = "run"]
      BY <2>2 DEF Provision, Goto
    <3> QED BY <1>3, <3>1, <3>2 DEF CallRecord
  <2>3. CASE CheckStream(c)
    <3>1. live = 0 /\ call[c].step = "check"
      BY <2>3 DEF CheckStream, Resumes, Unstopped, Paid, OnlyStarts, StartOK
    <3>2. call' = [call EXCEPT ![c].step = "register"]
      BY <2>3, <3>1 DEF CheckStream, Goto
    <3> QED BY <1>3, <3>1, <3>2 DEF CallRecord
  <2> QED BY <2>1, <2>2, <2>3
<1>5. OnlyStarts'
  <2>1. ~removed' /\ (proc' = "down" => live' = 0)
    BY <1>1 DEF Unstopped, Paid, OnlyStarts, StartOK
  <2>2. ASSUME NEW b \in Actors
        PROVE  StartOK(b)'
    <3>1. CASE b # c
      BY <1>1, <1>2, <1>4, <3>1 DEF Unstopped, Paid, OnlyStarts, StartOK
    <3>2. CASE b = c
      BY <1>1, <1>2, <1>4, <3>2 DEF Unstopped, Paid, OnlyStarts, StartOK
    <3> QED BY <3>1, <3>2
  <2>3. /\ live' # 0 => runs' # <<>> /\ runs'[1].status = "running" /\ stream'[live'].run = 1
        /\ \A s \in Streams : stream'[s].step # "idle" => s = live'
    BY <1>1 DEF Unstopped, Paid, OnlyStarts, StartOK
  <2> QED BY <2>1, <2>2, <2>3 DEF OnlyStarts
<1> QED BY <1>1, <1>2, <1>5, StartGoesOn
\* The run that is started, or resumed in place, is running, its cursor as it was.
LEMMA UpdateRunPaid ==
  ASSUME Unstopped, NEW c \in Actors, UpdateRun(c)
  PROVE  Paid'
<1>1. UNCHANGED <<engine, tip, live, stream, reader, removed, sent, interrupts, proc>>
  BY DEF UpdateRun, memory, source, history
<1>2. call \in [Actors -> CallRecord] /\ call[c].step = "run" /\ runs \in Seq(RunRecord) /\ Len(runs) <= 1
  BY DEF Unstopped, LoggedInv, Types, UpdateRun, Resumes
<1> DEFINE n == IF runs = <<>> THEN 1 ELSE Len(runs)
<1>3. n = 1 /\ (runs # <<>> => 1 \in DOMAIN runs)
  <2>1. ASSUME runs # <<>> PROVE Len(runs) = 1 /\ 1 \in DOMAIN runs
    <3>1. Len(runs) \in Nat /\ Len(runs) # 0 /\ DOMAIN runs = 1 .. Len(runs)
      BY <1>2, <2>1, EmptySeq, LenProperties
    <3>2. Len(runs) <= 1
      BY <1>2
    <3> QED BY <3>1, <3>2
  <2> QED BY <2>1
<1>4. runs' # <<>> /\ runs'[1].status = "running" /\ runs'[1].cursor = Cur /\ Cur' = Cur
  <2>1. CASE runs = <<>>
    <3>1. runs' = <<[status |-> "running", offset |-> 0, cursor |-> None]>>
      BY <2>1 DEF UpdateRun
    <3> QED BY <2>1, <3>1 DEF Cur
  <2>2. CASE runs # <<>>
    <3>1. runs' = [runs EXCEPT ![1].status = "running"]
      BY <1>3, <2>2 DEF UpdateRun
    <3>2. runs[1] \in RunRecord /\ runs' = [runs EXCEPT ![1] = [runs[1] EXCEPT !.status = "running"]]
      BY <1>2, <1>3, <2>2, <3>1
    <3>3. runs'[1] = [runs[1] EXCEPT !.status = "running"] /\ Len(runs') = Len(runs)
      BY <1>2, <1>3, <2>2, <3>2
    <3>4. runs' # <<>> /\ runs'[1].status = "running" /\ runs'[1].cursor = runs[1].cursor
      BY <1>2, <1>3, <2>2, <3>2, <3>3 DEF RunRecord
    <3> QED BY <2>2, <3>4 DEF Cur
  <2> QED BY <2>1, <2>2
<1>5. /\ \A b \in Actors \ {c} : call'[b] = call[b]
      /\ call'[c].step = "check" /\ call'[c].run = 1 /\ call'[c].cursor = runs'[1].cursor
  <2>1. call' = [call EXCEPT ![c].run = 1, ![c].offset = runs'[1].offset,
                             ![c].cursor = runs'[1].cursor, ![c].step = "check"]
    BY <1>3 DEF UpdateRun
  <2> QED BY <1>2, <2>1 DEF CallRecord
<1>6. \A b \in Actors : StartOK(b)'
  <2>1. \A b \in Actors \ {c} : StartOK(b)'
    BY <1>1, <1>4, <1>5 DEF Unstopped, Paid, OnlyStarts, StartOK
  <2>2. live = 0
    BY <1>2 DEF Unstopped, Paid, OnlyStarts, StartOK
  <2>3. StartOK(c)'
    BY <1>1, <1>4, <1>5, <2>2 DEF StartOK
  <2> QED BY <2>1, <2>3
<1>7. OnlyStarts'
  BY <1>1, <1>4, <1>6 DEF Unstopped, Paid, OnlyStarts
<1> QED BY <1>1, <1>4, <1>7, StartGoesOn

\* onModuleInit takes the run up where its cursor is.
LEMMA BootPaid ==
  ASSUME Unstopped, Boot
  PROVE  Paid'
<1>1. UNCHANGED <<engine, tip, runs, live, stream, reader, removed, sent, interrupts>> /\ proc' = "up"
  BY DEF Boot, database, memory
<1>2. Cur' = Cur
  BY <1>1 DEF Cur
<1>3. proc = "down" /\ live = 0 /\ \A b \in Actors : call[b] = Idle
  BY DEF Boot, Unstopped, Paid, OnlyStarts, LoggedInv, OneStarter
<1>4. call \in [Actors -> CallRecord] /\ "boot" \in Actors
  BY DEF Unstopped, LoggedInv, Types, Actors
<1>5. \A b \in Actors : StartOK(b)'
  <2> DEFINE running == {n \in DOMAIN runs : runs[n].status = "running"}
  <2>1. CASE running = {}
    <3>1. call' = call
      BY <2>1 DEF Boot
    <3> QED BY <1>1, <1>2, <3>1 DEF Unstopped, Paid, OnlyStarts, StartOK
  <2>2. CASE running # {}
    <3>1. Max(running) = 1 /\ 1 \in DOMAIN runs /\ 1 \in running
      BY <2>2, OnlyRun DEF Unstopped, LoggedInv
    <3>2. call' = [call EXCEPT !["boot"] = [Idle EXCEPT !.step = "check", !.run = Max(running),
                     !.offset = runs[Max(running)].offset, !.cursor = runs[Max(running)].cursor]]
      BY <2>2 DEF Boot
    <3> HIDE DEF running
    <3>3. call' = [call EXCEPT !["boot"] = [Idle EXCEPT !.step = "check", !.run = 1,
                     !.offset = runs[1].offset, !.cursor = runs[1].cursor]]
      BY <3>1, <3>2
    <3>4. runs # <<>> /\ runs[1].status = "running" /\ Cur = runs[1].cursor
      BY <3>1 DEF running, Cur
    <3>5. /\ \A b \in Actors \ {"boot"} : call'[b] = Idle
          /\ call'["boot"].step = "check" /\ call'["boot"].run = 1 /\ call'["boot"].cursor = runs[1].cursor
      BY <1>3, <1>4, <3>3 DEF Idle
    <3>6. \A b \in Actors \ {"boot"} : StartOK(b)'
      BY <3>5, IdleOK DEF StartOK
    <3>7. StartOK("boot")'
      BY <1>1, <1>2, <1>3, <3>4, <3>5 DEF StartOK
    <3> QED BY <3>6, <3>7
  <2> QED BY <2>1, <2>2
<1>6. OnlyStarts'
  BY <1>1, <1>3, <1>5 DEF Unstopped, Paid, OnlyStarts
<1> QED BY <1>1, <1>2, <1>6, StartGoesOn

\* Nothing is under way but the start that goes on.
LEMMA OneStarts ==
  ASSUME Unstopped, NEW c \in Actors, call[c].step \in StartSteps
  PROVE  \A b \in Actors \ {c} : call[b].step = "idle"
BY OthersRest DEF Unstopped, Paid, OnlyStarts, StartOK, StartSteps

\* A stream is registered behind the cursor, with no loop of its own yet.
LEMMA RegisterPaid ==
  ASSUME Unstopped, NEW c \in Actors, Register(c)
  PROVE  Paid'
<1>1. UNCHANGED <<engine, tip, runs, reader, removed, sent, interrupts, proc>>
  BY DEF Register, database, source, history
<1>2. Cur' = Cur
  BY <1>1 DEF Cur
<1>3. call \in [Actors -> CallRecord] /\ stream \in [Streams -> StreamRecord] /\ call[c].step = "register"
  BY DEF Unstopped, LoggedInv, Types, Register, Resumes
<1>4. /\ live = 0 /\ call[c].run = 1 /\ call[c].cursor = Cur
      /\ runs # <<>> /\ runs[1].status = "running"
  BY <1>3 DEF Unstopped, Paid, OnlyStarts, StartOK
<1>5. PICK s \in Streams :
        /\ stream[s].run = 0
        /\ stream' = [stream EXCEPT ![s] = [NoStream EXCEPT !.run = call[c].run,
                         !.seq = call[c].offset, !.watermark = call[c].cursor]]
        /\ live' = s /\ call' = [call EXCEPT ![c].stream = s, ![c].step = "open"]
  BY DEF Register
<1>6. /\ \A t \in Streams \ {s} : stream'[t] = stream[t]
      /\ stream'[s].run = 1 /\ stream'[s].watermark = Cur /\ stream'[s].chain = <<>>
      /\ stream'[s].step = "idle" /\ stream'[s].pos = None
  BY <1>3, <1>4, <1>5 DEF NoStream
<1>7. /\ \A b \in Actors \ {c} : call'[b] = call[b] /\ call[b].step = "idle"
      /\ call'[c].step = "open" /\ call'[c].stream = s
      /\ call'[c].run = call[c].run /\ call'[c].cursor = call[c].cursor
  BY <1>3, <1>5, OneStarts DEF CallRecord, StartSteps
<1>8. s # 0 /\ \A t \in Streams : t # 0
  BY DEF Streams
<1>9. OnlyStarts'
  <2>1. \A b \in Actors \ {c} : StartOK(b)'
    BY <1>7 DEF StartOK
  <2>2. StartOK(c)'
    BY <1>1, <1>2, <1>4, <1>5, <1>6, <1>7 DEF StartOK
  <2>3. \A t \in Streams : stream'[t].step # "idle" => t = live'
    BY <1>4, <1>6, <1>8 DEF Unstopped, Paid, OnlyStarts
  <2> QED BY <1>1, <1>3, <1>4, <1>5, <1>6, <2>1, <2>2, <2>3, IdleOK
          DEF Unstopped, Paid, OnlyStarts, LoggedInv, OneStarter
<1>10. CursorBehind'
  <2>1. NotAfter(Cur, Cur)
    BY DEF NotAfter
  <2> QED BY <1>1, <1>2, <1>5, <1>6, <2>1 DEF Unstopped, Paid, CursorBehind
<1>11. TailBeyond'
  <2>1. \A r \in Readers : reader[r].mode # "free" => reader[r].of # s
    BY <1>5 DEF Unstopped, LoggedInv, ReadersBelong
  <2> QED BY <1>1, <1>2, <1>5, <1>6, <2>1 DEF Unstopped, Paid, TailBeyond, Beyond
<1>12. Flight = {} /\ Flight' = {} /\ Failing' = Failing
  BY <1>4, <1>5, <1>6, <1>8 DEF Flight, Failing
<1>13. Counted'
  <2>1. Again' \subseteq Again
    BY <1>1, <1>2, <1>12 DEF Again, Sent, Beyond
  <2> QED BY <1>1, <1>12, <2>1, CountStays DEF Unstopped, Paid
<1> QED BY <1>9, <1>10, <1>11, <1>13 DEF Paid
\* Nobody starts a stream while the live one has a change, or reads one.
LEMMA NobodyStarts ==
  ASSUME Unstopped, live # 0,
         \/ stream[live].chain # <<>> \/ stream[live].step # "idle"
         \/ Settled /\ \E r \in Readers : reader[r].mode = "reading"
  PROVE  \A b \in Actors : call[b].step = "idle"
<1>1. CASE stream[live].chain # <<>> \/ stream[live].step # "idle"
  BY <1>1 DEF Unstopped, Paid, OnlyStarts, StartOK
<1>2. CASE Settled /\ \E r \in Readers : reader[r].mode = "reading"
  <2>1. stream[live].handle
    BY <1>2, ReadsLive DEF Unstopped
  <2>2. \A b \in Actors : call[b].step \notin {"open", "opened"}
    BY <2>1 DEF Unstopped, Paid, OnlyStarts, StartOK, LoggedInv, StartsAlone
  <2> QED BY <2>2 DEF Unstopped, Paid, OnlyStarts, StartOK
<1> QED BY <1>1, <1>2

\* The provider opens beyond the cursor.
LEMMA OpenPaid ==
  ASSUME Unstopped, NEW c \in Actors, OpenStream(c)
  PROVE  Paid'
<1>1. UNCHANGED <<engine, tip, runs, live, removed, sent, interrupts, proc>>
  BY DEF OpenStream, database, source
<1>2. Cur' = Cur
  BY <1>1 DEF Cur
<1>3. /\ call \in [Actors -> CallRecord] /\ stream \in [Streams -> StreamRecord]
      /\ reader \in [Readers -> ReaderRecord] /\ call[c].step = "open" /\ Types /\ Types'
      /\ live \in {0} \union Streams
  BY DEF Unstopped, LoggedInv, Types, OpenStream, Resumes
<1>4. /\ live = call[c].stream /\ stream[live].chain = <<>> /\ stream[live].step = "idle"
      /\ runs # <<>> /\ runs[1].status = "running" /\ call[c].cursor = Cur
  BY <1>3 DEF Unstopped, Paid, OnlyStarts, StartOK
<1>5. live \in Streams /\ \A r \in Readers : reader[r].mode # "free" => reader[r].of # live
  BY <1>3, <1>4 DEF Unstopped, LoggedInv, StartsAlone
<1> DEFINE n == FreeReader
           N == NewReader(live, Cur)
<1>6. n \in Readers /\ reader[n].mode = "free"
  BY FreeReaderOK DEF OpenStream
<1>7. /\ reader' = [reader EXCEPT ![n] = N]
      /\ stream' = [stream EXCEPT ![live].pos = Cur]
      /\ call' = [call EXCEPT ![c].step = "opened"]
  BY <1>4 DEF OpenStream, Goto
<1>8. N.of = live /\ N.mode = "reading" /\ N.at = OpensAt(Cur)
  BY DEF NewReader, NoReader
<1> HIDE DEF n, N
<1>9. reader'[n] = N /\ \A r \in Readers \ {n} : reader'[r] = reader[r]
  BY <1>3, <1>6, <1>7
<1>10. /\ \A t \in Streams : /\ stream'[t].run = stream[t].run /\ stream'[t].step = stream[t].step
                             /\ stream'[t].chain = stream[t].chain
                             /\ stream'[t].watermark = stream[t].watermark
       /\ stream'[live].pos = Cur
  BY <1>3, <1>5, <1>7 DEF StreamRecord
<1>11. /\ \A b \in Actors \ {c} : call'[b] = call[b] /\ call[b].step = "idle"
       /\ call'[c].step = "opened" /\ call'[c].stream = call[c].stream
  BY <1>3, <1>7, OneStarts DEF CallRecord, StartSteps
<1>12. OnlyStarts'
  <2>1. \A b \in Actors \ {c} : StartOK(b)'
    BY <1>11 DEF StartOK
  <2>2. StartOK(c)'
    BY <1>1, <1>4, <1>5, <1>10, <1>11 DEF StartOK
  <2> QED BY <1>1, <1>5, <1>10, <2>1, <2>2 DEF Unstopped, Paid, OnlyStarts
<1>13. CursorBehind'
  BY <1>1, <1>2, <1>4, <1>5, <1>10 DEF Unstopped, Paid, CursorBehind
<1>14. TailBeyond'
  <2> SUFFICES ASSUME engine = "mongodb"
               PROVE  /\ \A r \in Readers : reader'[r].mode = "reading" => Beyond(reader'[r].at)
                      /\ NotAfter(Cur, stream'[live].pos)
                      /\ \A r \in Readers : reader'[r].mode # "free" /\ reader'[r].of = live =>
                                              reader'[r].mode = "reading"
    BY <1>1, <1>2, <1>4, <1>5, <1>10 DEF TailBeyond, Beyond
  <2>1. NotAfter(Cur, Cur)
    BY DEF NotAfter
  <2>2. Beyond(OpensAt(Cur))
    BY <1>3, <2>1, CurOK, OpensBeyond DEF Unstopped, Paid, CursorBehind
  <2>3. \A r \in Readers \ {n} : reader[r].mode = "reading" => Beyond(reader[r].at)
    BY DEF Unstopped, Paid, TailBeyond
  <2> QED BY <1>5, <1>6, <1>8, <1>9, <1>10, <2>1, <2>2, <2>3
<1>15. Counted'
  <2>1. Flight = {} /\ Flight' = {} /\ Failing' = Failing
    BY <1>1, <1>4, <1>5, <1>10 DEF Flight, Failing
  <2>2. Again' \subseteq Again
    BY <1>1, <1>2, <2>1 DEF Again, Sent, Beyond
  <2> QED BY <1>1, <2>1, <2>2, CountStays DEF Unstopped, Paid
<1> QED BY <1>12, <1>13, <1>14, <1>15 DEF Paid

\* A live stream is gone with nothing in flight: its run has failed.
LEMMA OpenFailsPaid ==
  ASSUME Unstopped, NEW c \in Actors, OpenFails(c)
  PROVE  Paid'
<1>1. UNCHANGED <<engine, tip, stream, reader, removed, sent, proc>> /\ interrupts' = interrupts + 1
  BY DEF OpenFails, source
<1>2. /\ call \in [Actors -> CallRecord] /\ call[c].step = "open" /\ Types /\ Types'
  BY DEF Unstopped, LoggedInv, Types, OpenFails, Resumes
<1>3. /\ live = call[c].stream /\ stream[live].chain = <<>> /\ stream[live].step = "idle"
      /\ live' = 0 /\ call' = [call EXCEPT ![c] = Idle]
  BY <1>2 DEF Unstopped, Paid, OnlyStarts, StartOK, OpenFails, Return
<1>4. Cur' = Cur
  <2>1. DOMAIN runs' = DOMAIN runs /\ \A m \in DOMAIN runs : runs'[m].cursor = runs[m].cursor
    BY FinalizeOK DEF OpenFails, Unstopped
  <2>2. runs \in Seq(RunRecord) /\ runs' \in Seq(RunRecord)
    BY <1>2 DEF Types
  <2>3. (runs' = <<>> <=> runs = <<>>) /\ (runs # <<>> => 1 \in DOMAIN runs)
    <3>1. /\ DOMAIN runs = 1 .. Len(runs) /\ (runs # <<>> => Len(runs) \in Nat \ {0}) /\ Len(<<>>) = 0
          /\ DOMAIN runs' = 1 .. Len(runs') /\ (runs' # <<>> => Len(runs') \in Nat \ {0})
      BY <2>2, EmptySeq, LenProperties
    <3> QED BY <2>1, <3>1
  <2> QED BY <2>1, <2>3 DEF Cur
<1>5. \A t \in Streams : stream[t].step = "idle"
  BY <1>3 DEF Unstopped, Paid, OnlyStarts
<1>6. \A b \in Actors : call'[b].step = "idle"
  BY <1>2, <1>3, OneStarts, IdleOK DEF StartSteps
<1>7. OnlyStarts'
  BY <1>1, <1>3, <1>5, <1>6 DEF Unstopped, Paid, OnlyStarts, StartOK
<1>8. CursorBehind' /\ TailBeyond'
  BY <1>1, <1>3, <1>4 DEF Unstopped, Paid, CursorBehind, TailBeyond, Beyond
<1>9. Counted'
  <2>1. Flight = {} /\ Flight' = {} /\ Failing = 0 /\ Failing' = 0
    BY <1>3 DEF Flight, Failing
  <2>2. Again' \subseteq Again
    BY <1>1, <1>4, <2>1 DEF Again, Sent, Beyond
  <2>3. Failing' + interrupts <= Failing + interrupts'
    BY <1>1, <2>1 DEF Unstopped, HistoryTypes
  <2> QED BY <1>1, <2>2, <2>3, CountSame DEF Unstopped, Paid
<1> QED BY <1>7, <1>8, <1>9 DEF Paid

\* The handle of a stream that nobody stopped is kept.
LEMMA AfterOpenPaid ==
  ASSUME Unstopped, NEW c \in Actors, AfterOpen(c)
  PROVE  Paid'
<1>1. UNCHANGED <<engine, tip, runs, live, removed, sent, interrupts, proc>>
  BY DEF AfterOpen, database, source, history
<1>2. Cur' = Cur
  BY <1>1 DEF Cur
<1>3. /\ call \in [Actors -> CallRecord] /\ stream \in [Streams -> StreamRecord]
      /\ call[c].step = "opened" /\ live = call[c].stream
  BY DEF Unstopped, Paid, OnlyStarts, StartOK, LoggedInv, Types, AfterOpen
<1>4. reader' = reader /\ stream' = [stream EXCEPT ![live].handle = TRUE] /\ call' = [call EXCEPT ![c] = Idle]
  BY <1>3 DEF AfterOpen, Return
<1>5. live \in Streams /\ stream[live].step = "idle" /\ runs # <<>> /\ runs[1].status = "running"
  BY <1>3 DEF Unstopped, Paid, OnlyStarts, StartOK, LoggedInv, StartsAlone
<1>6. \A t \in Streams : /\ stream'[t].run = stream[t].run /\ stream'[t].step = stream[t].step
                         /\ stream'[t].chain = stream[t].chain /\ stream'[t].pos = stream[t].pos
                         /\ stream'[t].watermark = stream[t].watermark
  BY <1>3, <1>4, <1>5 DEF StreamRecord
<1>7. \A b \in Actors : call'[b].step = "idle"
  BY <1>3, <1>4, OneStarts, IdleOK DEF StartSteps
<1>8. OnlyStarts'
  BY <1>1, <1>5, <1>6, <1>7 DEF Unstopped, Paid, OnlyStarts, StartOK
<1>9. CursorBehind' /\ TailBeyond'
  BY <1>1, <1>2, <1>4, <1>5, <1>6 DEF Unstopped, Paid, CursorBehind, TailBeyond, Beyond, Head1
<1>10. Counted'
  <2>1. Flight' = Flight /\ Failing' = Failing
    BY <1>1, <1>5, <1>6 DEF Flight, Failing, Head1
  <2>2. Again' \subseteq Again
    BY <1>1, <1>2, <2>1 DEF Again, Sent, Beyond
  <2> QED BY <1>1, <2>1, <2>2, CountStays DEF Unstopped, Paid
<1> QED BY <1>8, <1>9, <1>10 DEF Paid

\* A crash repeats the change that is in flight, at most.
LEMMA CrashPaid ==
  ASSUME Unstopped, Crash
  PROVE  Paid'
<1>1. /\ UNCHANGED <<engine, tip, runs, removed, sent>> /\ interrupts' = interrupts + 1
      /\ live' = 0 /\ proc' = "down" /\ stream' = [s \in Streams |-> NoStream]
      /\ reader' = [r \in Readers |-> NoReader] /\ call' = [c \in Actors |-> Idle]
  BY DEF Crash, source, database
<1>2. Cur' = Cur
  BY <1>1 DEF Cur
<1>3. OnlyStarts'
  BY <1>1, IdleOK DEF Unstopped, Paid, OnlyStarts, StartOK, NoStream
<1>4. CursorBehind' /\ TailBeyond'
  BY <1>1, <1>2 DEF Unstopped, Paid, CursorBehind, TailBeyond, NoReader
<1>5. Counted'
  <2> DEFINE c == Head1(live)[2]
  <2>1. Flight \subseteq {c} /\ Flight' = {} /\ Failing' = 0
    BY <1>1 DEF Flight, Failing
  <2>2. Again' \subseteq Again \union {c}
    BY <1>1, <1>2, <2>1 DEF Again, Sent, Beyond
  <2>3. Failing' + interrupts + 1 <= Failing + interrupts'
    BY <1>1, <2>1, AgainOK DEF Unstopped, HistoryTypes
  <2> HIDE DEF c
  <2> QED BY <1>1, <2>2, <2>3, CountOne DEF Unstopped, Paid
<1> QED BY <1>3, <1>4, <1>5 DEF Paid
------------------------------------------------------------------------------
(***************************************************************************)
(* The steps of the loops.                                                 *)
(***************************************************************************)

\* While nobody starts anything, only the live stream is worked on, for its run.
LEMMA StartsSame ==
  ASSUME Unstopped, \A b \in Actors : call[b].step = "idle", UNCHANGED <<call, proc, removed, live>>,
         live # 0, runs' # <<>>, runs'[1].status = "running",
         \A t \in Streams : stream'[t].run = stream[t].run /\ (stream'[t].step # "idle" => t = live)
  PROVE  OnlyStarts'
<1>1. live \in Streams
  BY DEF Unstopped, LoggedInv, Types
<1> QED BY <1>1 DEF Unstopped, Paid, OnlyStarts, StartOK

\* A chain that is not empty begins with its head, which has an event.
LEMMA HeadsTyped ==
  ASSUME Unstopped, live # 0
  PROVE  /\ stream[live].chain \in Seq(Readers \X Places)
         /\ stream[live].chain # <<>> => 1 \in DOMAIN stream[live].chain
         /\ stream[live].step # "idle" => stream[live].chain # <<>>
         /\ live \in Streams
<1>1. live \in Streams /\ stream[live] \in StreamRecord
  BY DEF Unstopped, LoggedInv, Types
<1>2. stream[live].chain \in Seq(Readers \X Places)
  BY <1>1 DEF StreamRecord
<1>3. stream[live].chain # <<>> => 1 \in DOMAIN stream[live].chain
  BY <1>2, EmptySeq, LenProperties
<1> QED BY <1>1, <1>2, <1>3 DEF Unstopped, LoggedInv, ChainsBelong, HeadsWork

\* A row that joins the chain leaves the change in flight, and lies before the log's end.
LEMMA HandsOverPaid ==
  ASSUME Unstopped, NEW r \in Readers, HandsOver(r),
         UNCHANGED <<engine, tip, runs, live, call, proc, removed, sent, interrupts>>
  PROVE  Paid'
<1> DEFINE c == reader[r].at
           old == stream[live].chain
           new == stream'[live].chain
<1>1. /\ Settled /\ reader[r].mode = "reading" /\ c[1] <= tip
      /\ live \in Streams /\ live # 0
      /\ reader'[r].at = c /\ reader'[r].mode = "reading" /\ reader'[r].of = live /\ reader[r].of = live
      /\ \A q \in Readers \ {r} : reader'[q] = reader[q]
      /\ \A t \in Streams : /\ stream'[t].run = stream[t].run /\ stream'[t].step = stream[t].step
                            /\ stream'[t].pos = stream[t].pos /\ stream'[t].watermark = stream[t].watermark
      /\ DOMAIN new = 1 .. Len(old) + 1 /\ DOMAIN old = 1 .. Len(old) /\ Len(old) \in Nat
      /\ new[Len(old) + 1] = <<r, c>> /\ \A i \in DOMAIN old : new[i] = old[i]
  BY HandsOverOK DEF Unstopped
<1>2. Cur' = Cur
  BY DEF Cur
<1>3. \A b \in Actors : call[b].step = "idle"
  BY <1>1, NobodyStarts
<1>4. OnlyStarts'
  BY <1>1, <1>3, StartsSame DEF Unstopped, Paid, OnlyStarts
<1>5. \A i \in DOMAIN new : (i \in DOMAIN old /\ new[i] = old[i]) \/ new[i] = <<r, c>>
  BY <1>1
<1>6. stream[live].step # "idle" => new[1] = old[1]
  BY <1>1, HeadsTyped
<1> HIDE DEF c, old, new
<1>7. CursorBehind'
  <2>1. \A i \in DOMAIN old : old[i][2][1] <= tip
    BY <1>1 DEF Unstopped, Paid, CursorBehind, old
  <2>2. \A i \in DOMAIN new : new[i][2][1] <= tip
    BY <1>1, <1>5, <2>1
  <2>3. stream[live].step # "idle" => Precedes(Cur, new[1][2])
    BY <1>1, <1>6 DEF Unstopped, Paid, CursorBehind, Beyond, Head1, old
  <2> QED BY <1>1, <1>2, <2>2, <2>3 DEF Unstopped, Paid, CursorBehind, Beyond, Head1, new
<1>8. TailBeyond'
  <2> SUFFICES ASSUME engine = "mongodb"
               PROVE  /\ \A q \in Readers : reader'[q].mode = "reading" => Beyond(reader'[q].at)
                      /\ stream'[live].pos = None \/ NotAfter(Cur, stream'[live].pos)
                      /\ \A q \in Readers : reader'[q].mode # "free" /\ reader'[q].of = live =>
                                              reader'[q].mode = "reading"
                      /\ \A i \in DOMAIN new : reader'[new[i][1]].mode = "reading"
    BY <1>2 DEF TailBeyond, Beyond, new
  <2>1. \A q \in Readers : /\ reader'[q].mode = reader[q].mode /\ reader'[q].at = reader[q].at
                           /\ reader'[q].of = reader[q].of
    BY <1>1 DEF c
  <2>2. \A i \in DOMAIN old : old[i][1] \in Readers
    BY <1>1, HeadsTyped DEF old
  <2>3. \A i \in DOMAIN new : reader'[new[i][1]].mode = "reading"
    BY <1>1, <1>5, <2>1, <2>2 DEF Unstopped, Paid, TailBeyond, old
  <2> QED BY <1>1, <2>1, <2>3 DEF Unstopped, Paid, TailBeyond
<1>9. Counted'
  <2>1. Flight' = Flight /\ Failing' = Failing
    BY <1>1, <1>6 DEF Flight, Failing, Head1, old, new
  <2>2. Again' \subseteq Again
    BY <1>2, <2>1 DEF Again, Sent, Beyond
  <2> QED BY <2>1, <2>2, CountStays DEF Unstopped, Paid
<1> QED BY <1>4, <1>7, <1>8, <1>9 DEF Paid

\* An event without rows of the hook is not before the cursor, and neither is the next.
LEMMA PassesOverPaid ==
  ASSUME Unstopped, NEW r \in Readers, PassesOver(r),
         UNCHANGED <<engine, tip, runs, live, stream, call, proc, removed, sent, interrupts>>
  PROVE  Paid'
<1>1. /\ Settled /\ reader[r].mode = "reading"
      /\ reader' = [reader EXCEPT ![r].at = Start(@[1] + 1)] /\ reader \in [Readers -> ReaderRecord]
  BY DEF PassesOver, Ready, Unstopped, LoggedInv, Types
<1>2. /\ \A q \in Readers : reader'[q].mode = reader[q].mode /\ reader'[q].of = reader[q].of
      /\ \A q \in Readers \ {r} : reader'[q].at = reader[q].at
      /\ reader'[r].at = Start(reader[r].at[1] + 1)
  BY <1>1 DEF ReaderRecord
<1>3. live # 0 /\ live \in Streams /\ Cur' = Cur
  BY <1>1, ReadsLive DEF Unstopped, Cur
<1>4. OnlyStarts'
  <2>1. \A b \in Actors : call[b].step = "idle"
    BY <1>1, <1>3, NobodyStarts
  <2> QED BY <1>3, <2>1, StartsSame DEF Unstopped, Paid, OnlyStarts
<1>5. CursorBehind'
  BY <1>3 DEF Unstopped, Paid, CursorBehind, Beyond, Head1
<1>6. Beyond(reader[r].at) => Beyond(reader'[r].at)
  <2>1. reader[r].at \in (Nat \ {0}) \X Nat /\ Cur \in Nat \X Nat
    BY <1>1, CurOK DEF ReaderRecord, Unstopped, LoggedInv
  <2>2. Start(reader[r].at[1] + 1) \in Nat \X Nat /\ Precedes(reader[r].at, Start(reader[r].at[1] + 1))
    BY <2>1 DEF Start, Precedes
  <2> QED BY <1>2, <2>1, <2>2, OrderOK DEF Beyond
<1>7. TailBeyond'
  <2>1. live # 0 => \A i \in DOMAIN stream[live].chain : stream[live].chain[i][1] \in Readers
    BY HeadsTyped
  <2> QED BY <1>2, <1>3, <1>6, <2>1 DEF Unstopped, Paid, TailBeyond, Beyond
<1>8. Counted'
  <2>1. Flight' = Flight /\ Failing' = Failing
    BY DEF Flight, Failing, Head1
  <2>2. Again' \subseteq Again
    BY <1>3, <2>1 DEF Again, Sent, Beyond
  <2> QED BY <2>1, <2>2, CountStays DEF Unstopped, Paid
<1> QED BY <1>4, <1>5, <1>7, <1>8 DEF Paid

\* A reconnect opens beyond the cursor again.
LEMMA ReopensPaid ==
  ASSUME Unstopped, NEW r \in Readers, NEW w \in Resume, Reopens(r, w),
         engine = "mongodb" => reader[r].out = {} /\ (w = None \/ NotAfter(Cur, w)),
         engine = "postgres" => slot # -1
  PROVE  Paid'
<1> DEFINE n == IF reader[r].out # {} THEN FreeReader ELSE r
           N == NewReader(live, w)
<1>1. /\ Settled /\ reader[r].mode = "reading" /\ reader[r].of = live
      /\ live \in Streams /\ live # 0
      /\ reader' = [Stopped(live) EXCEPT ![n] = N]
      /\ stream' = [stream EXCEPT ![live].pos = w]
      /\ UNCHANGED <<engine, tip, runs, removed, live, call, proc, sent, interrupts>>
      /\ reader[r].out # {} => HasFreeReader
  BY ReadsLive DEF Reopens, source, database, Unstopped
<1>2. /\ stream \in [Streams -> StreamRecord] /\ reader \in [Readers -> ReaderRecord] /\ Types
      /\ n \in Readers /\ Cur' = Cur
  BY <1>1, FreeReaderOK DEF Unstopped, LoggedInv, Types, Cur
<1>3. \A t \in Streams : /\ stream'[t].run = stream[t].run /\ stream'[t].step = stream[t].step
                         /\ stream'[t].chain = stream[t].chain
                         /\ stream'[t].watermark = stream[t].watermark
  BY <1>1, <1>2 DEF StreamRecord
<1>4. stream'[live].pos = w
  BY <1>1, <1>2
<1>5. OnlyStarts'
  <2>1. \A b \in Actors : call[b].step = "idle"
    BY <1>1, NobodyStarts
  <2> QED BY <1>1, <1>3, <2>1, StartsSame DEF Unstopped, Paid, OnlyStarts
<1>6. CursorBehind'
  BY <1>1, <1>2, <1>3 DEF Unstopped, Paid, CursorBehind, Beyond, Head1
<1>7. TailBeyond'
  <2> SUFFICES ASSUME engine = "mongodb"
               PROVE  TailBeyond'
    BY <1>1 DEF TailBeyond
  <2>1. n = r /\ Beyond(OpensAt(w))
    BY <1>2, OpensBeyond DEF Unstopped, Paid, CursorBehind
  <2>2. N.of = live /\ N.mode = "reading" /\ N.at = OpensAt(w)
    BY DEF NewReader, NoReader
  <2>3. \A q \in Readers : reader[q].mode # "free" /\ reader[q].of = live => q = r
    BY <1>1 DEF Unstopped, LoggedInv, OneTail, Tailing
  <2> DEFINE z == Stopped(live)
  <2>4. /\ z \in [Readers -> ReaderRecord]
        /\ \A q \in Readers \ {r} : z[q] = reader[q]
    BY <1>2, <2>3, StoppedOK
  <2> HIDE DEF n, N, z
  <2>5. reader'[r] = N /\ \A q \in Readers \ {r} : reader'[q] = reader[q]
    BY <1>1, <2>1, <2>4 DEF z
  <2>6. \A i \in DOMAIN stream[live].chain :
          stream[live].chain[i][1] \in Readers /\ reader[stream[live].chain[i][1]].mode = "reading"
    BY <1>1, HeadsTyped DEF Unstopped, Paid, TailBeyond
  <2>7. \A q \in Readers : reader'[q].mode = "reading" => Beyond(reader'[q].at)
    BY <2>1, <2>2, <2>5 DEF Unstopped, Paid, TailBeyond
  <2>8. \A q \in Readers : reader'[q].mode # "free" /\ reader'[q].of = live => reader'[q].mode = "reading"
    BY <2>2, <2>3, <2>5
  <2>9. \A i \in DOMAIN stream'[live].chain : reader'[stream'[live].chain[i][1]].mode = "reading"
    BY <1>1, <1>3, <2>2, <2>5, <2>6
  <2> QED BY <1>1, <1>2, <1>4, <2>7, <2>8, <2>9 DEF TailBeyond, Beyond
<1>8. Counted'
  <2>1. Flight' = Flight /\ Failing' = Failing
    BY <1>1, <1>3 DEF Flight, Failing, Head1
  <2>2. Again' \subseteq Again
    BY <1>1, <1>2, <2>1 DEF Again, Sent, Beyond
  <2> QED BY <1>1, <2>1, <2>2, CountStays DEF Unstopped, Paid
<1> QED BY <1>5, <1>6, <1>7, <1>8 DEF Paid
------------------------------------------------------------------------------
(***************************************************************************)
(* The steps of the pipeline.                                              *)
(***************************************************************************)

\* What is worked on, or is no repeat, is beyond the cursor.
LEMMA HeadBeyond ==
  ASSUME Unstopped, live # 0, stream[live].chain # <<>>,
         stream[live].step # "idle" \/ CursorAfter(Head1(live)[2], stream[live].watermark)
  PROVE  Beyond(Head1(live)[2])
<1> DEFINE c == Head1(live)[2]
           w == stream[live].watermark
<1>1. /\ live \in Streams /\ c \in Places /\ Waits(live, Head1(live)) /\ Head1(live)[1] \in Readers
      /\ Head1(live) = stream[live].chain[1] /\ 1 \in DOMAIN stream[live].chain
  BY HeadsTyped, HeadOK DEF Unstopped
<1>2. CASE stream[live].step # "idle"
  BY <1>2 DEF Unstopped, Paid, CursorBehind
<1>3. CASE stream[live].step = "idle" /\ engine = "mongodb"
  BY <1>1, <1>3 DEF Unstopped, Paid, TailBeyond, Waits
<1>4. CASE stream[live].step = "idle" /\ engine = "postgres"
  <2>1. CursorAfter(c, w) /\ NotAfter(Cur, w) /\ w \in Resume /\ Cur \in Nat \X Nat /\ c \in Nat \X Nat
    BY <1>1, <1>4, CurOK, PlacesOrdered DEF Unstopped, Paid, CursorBehind, LoggedInv, Types, StreamRecord
  <2>2. CASE w = None
    <3>1. Cur = None
      BY <2>1, <2>2 DEF NotAfter, Precedes, None
    <3> QED BY <1>1, <3>1, PlacesOrdered DEF Beyond
  <2>3. CASE w # None
    <3>1. w \in Places /\ LsnAfter(c, w)
      BY <1>4, <2>1, <2>3 DEF Resume, CursorAfter
    <3>2. /\ c[1] \in DOMAIN Rows /\ w[1] \in DOMAIN Rows /\ c[1] \in Nat /\ w[1] \in Nat
          /\ c[2] \in Nat /\ w[2] \in Nat
      BY <1>1, <3>1, PlaceOK
    <3>3. Lsn[c[1]] \in Nat /\ Lsn[w[1]] \in Nat
      BY <3>2, CdcConstants
    <3>4. /\ c[1] < w[1] => Lsn[c[1]] < Lsn[w[1]]
          /\ w[1] < c[1] => Lsn[w[1]] < Lsn[c[1]]
      BY <3>2 DEF Unstopped, Orderly
    <3> HIDE DEF c, w
    <3>5. Precedes(w, c)
      BY <3>1, <3>2, <3>3, <3>4 DEF LsnAfter, Precedes
    <3> QED BY <2>1, <3>1, <3>5, OrderOK, PlacesOrdered DEF Beyond, c
  <2> QED BY <2>2, <2>3
<1> QED BY <1>2, <1>3, <1>4 DEF Unstopped, Logged

\* The live stream goes on with its change.
LEMMA StepToPaid ==
  ASSUME Unstopped, live # 0, stream[live].chain # <<>>, NEW step \in {"record", "save", "failed"},
         StepTo(live, step), UNCHANGED <<engine, tip, runs, live, reader, call, proc, removed>>,
         Beyond(Head1(live)[2])
  PROVE  /\ OnlyStarts' /\ CursorBehind' /\ TailBeyond' /\ Cur' = Cur
         /\ Flight' = {Head1(live)[2]} /\ Failing' = IF step = "failed" THEN 1 ELSE 0
<1>1. live \in Streams /\ stream \in [Streams -> StreamRecord]
  BY DEF Unstopped, LoggedInv, Types
<1>2. stream' = [stream EXCEPT ![live].step = step]
  BY DEF StepTo
<1>3. /\ \A t \in Streams : /\ stream'[t].run = stream[t].run /\ stream'[t].chain = stream[t].chain
                            /\ stream'[t].watermark = stream[t].watermark /\ stream'[t].pos = stream[t].pos
                            /\ t # live => stream'[t].step = stream[t].step
      /\ stream'[live].step = step
  BY <1>1, <1>2 DEF StreamRecord
<1>4. Cur' = Cur
  BY DEF Cur
<1>5. OnlyStarts'
  <2>1. \A b \in Actors : call[b].step = "idle"
    BY NobodyStarts
  <2> QED BY <1>3, <2>1, StartsSame DEF Unstopped, Paid, OnlyStarts
<1>6. CursorBehind'
  BY <1>1, <1>3, <1>4 DEF Unstopped, Paid, CursorBehind, Beyond, Head1
<1>7. TailBeyond'
  BY <1>1, <1>3, <1>4 DEF Unstopped, Paid, TailBeyond, Beyond
<1>8. Flight' = {Head1(live)[2]} /\ Failing' = IF step = "failed" THEN 1 ELSE 0
  BY <1>1, <1>3 DEF Flight, Failing, Head1
<1> QED BY <1>4, <1>5, <1>6, <1>7, <1>8

\* A change is handed to the sink: for the first time, or again as was to be feared.
LEMMA DeliverPaid ==
  ASSUME Unstopped, NEW s \in Streams, Deliver(s)
  PROVE  Paid'
<1> DEFINE c == Head1(live)[2]
<1>1. /\ s = live /\ live # 0 /\ stream[live].chain # <<>> /\ stream[live].step = "idle"
      /\ CursorAfter(c, stream[live].watermark) /\ StepTo(live, "record")
      /\ sent' = [sent EXCEPT ![c] = @ + 1]
      /\ UNCHANGED <<engine, tip, runs, live, reader, call, proc, removed, interrupts>>
  BY CdcConstants DEF Deliver, At, source, database, Streams
<1>2. Beyond(c)
  BY <1>1, HeadBeyond
<1>3. /\ OnlyStarts' /\ CursorBehind' /\ TailBeyond' /\ Cur' = Cur /\ Flight' = {c} /\ Failing' = 0
  BY <1>1, <1>2, StepToPaid
<1>4. Flight = {} /\ Failing = 0
  BY <1>1 DEF Flight, Failing
<1> HIDE DEF c
<1>5. /\ Sent' \subseteq Sent \union {c}
      /\ c \notin Sent => Repeated' = Repeated
      /\ Repeated' \subseteq Repeated \union {<<c, sent'[c]>>}
  BY <1>1, SentMoves DEF Unstopped, HistoryTypes
<1>6. Again' \subseteq Again \ {c}
  BY <1>3, <1>4, <1>5 DEF Again, Beyond
<1>7. c \in Sent => c \in Again
  BY <1>2, <1>4 DEF Again
<1>8. Counted'
  <2> DEFINE A == Again
             B == Again'
             R == Repeated
             Q == Repeated'
             x == <<c, sent'[c]>>
  <2>1. /\ IsFiniteSet(A) /\ Cardinality(A) \in Nat /\ IsFiniteSet(R) /\ IsFiniteSet(Q)
        /\ B \subseteq A \ {c} /\ Q \subseteq R \union {x} /\ (c \notin A => Q = R)
        /\ interrupts \in Nat /\ Cardinality(R) + Cardinality(A) <= interrupts
    BY <1>4, <1>5, <1>6, <1>7, AgainOK DEF Unstopped, Paid, HistoryTypes, Counted, Repeats
  <2> HIDE DEF A, B, R, Q, x
  <2>2. Cardinality(R) \in Nat /\ Cardinality(Q) \in Nat
    BY <2>1, FS_CardinalityType
  <2>3. Cardinality(Q) + Cardinality(B) <= Cardinality(R) + Cardinality(A) /\ Cardinality(B) \in Nat
    <3>1. CASE c \notin A
      <4>1. B \subseteq A /\ Q = R
        BY <2>1, <3>1
      <4>2. Cardinality(B) <= Cardinality(A) /\ Cardinality(B) \in Nat
        BY <2>1, <4>1, FS_Subset, FS_CardinalityType
      <4> QED BY <2>1, <2>2, <4>1, <4>2
    <3>2. CASE c \in A
      <4>1. IsFiniteSet(A \ {c}) /\ Cardinality(A \ {c}) = Cardinality(A) - 1
        BY <2>1, <3>2, FS_RemoveElement
      <4>2. Cardinality(B) <= Cardinality(A) - 1 /\ Cardinality(B) \in Nat
        BY <2>1, <4>1, FS_Subset, FS_CardinalityType
      <4>3. IsFiniteSet(R \union {x}) /\ Cardinality(R \union {x}) <= Cardinality(R) + 1
        <5>1. IsFiniteSet(R)
          BY <2>1
        <5> QED BY <2>2, <5>1, FS_AddElement
      <4>4. Cardinality(R \union {x}) \in Nat
        BY <4>3, FS_CardinalityType
      <4>5. Cardinality(Q) <= Cardinality(R \union {x})
        BY <2>1, <4>3, FS_Subset
      <4> QED BY <2>1, <2>2, <4>2, <4>3, <4>4, <4>5
    <3> QED BY <3>1, <3>2
  <2>4. Cardinality(Q) + Cardinality(B) <= interrupts
    BY <2>1, <2>2, <2>3
  <2> QED BY <1>1, <1>3, <2>2, <2>3, <2>4 DEF Counted, Repeats, B, Q
<1> QED BY <1>3, <1>8 DEF Paid

\* Its entry is written.
LEMMA RecordPaid ==
  ASSUME Unstopped, NEW s \in Streams, Record(s)
  PROVE  Paid'
<1>1. /\ stream[s].step = "record" /\ stream[s].chain # <<>> /\ StepTo(s, "save")
      /\ UNCHANGED <<engine, tip, runs, live, reader, call, proc, removed, sent, interrupts>>
  BY DEF Record, At, source
<1>2. s = live /\ live # 0
  BY <1>1, CdcConstants DEF Unstopped, Paid, OnlyStarts, Streams
<1>3. /\ OnlyStarts' /\ CursorBehind' /\ TailBeyond' /\ Cur' = Cur
      /\ Flight' = {Head1(live)[2]} /\ Failing' = 0
  BY <1>1, <1>2, HeadBeyond, StepToPaid
<1>4. Flight = {Head1(live)[2]} /\ Failing = 0
  BY <1>1, <1>2 DEF Flight, Failing
<1>5. Again' \subseteq Again
  BY <1>1, <1>3, <1>4 DEF Again, Sent, Beyond
<1> QED BY <1>1, <1>3, <1>4, <1>5, CountStays DEF Unstopped, Paid

\* It fails: that has been counted before anything is sent again.
LEMMA ThrowsPaid ==
  ASSUME Unstopped, NEW s \in Streams, Throws(s)
  PROVE  Paid'
<1>1. /\ stream[s].step \in {"idle", "record", "save"} /\ stream[s].chain # <<>> /\ StepTo(s, "failed")
      /\ stream[s].step = "idle" => live = s /\ CursorAfter(Head1(s)[2], stream[s].watermark)
      /\ UNCHANGED <<engine, tip, runs, live, reader, call, proc, removed, sent>>
      /\ interrupts' = interrupts + 1
  BY DEF Throws, At, source, database, Unstopped, Paid, OnlyStarts
<1>2. s = live /\ live # 0
  BY <1>1, CdcConstants DEF Unstopped, Paid, OnlyStarts, Streams
<1>3. /\ OnlyStarts' /\ CursorBehind' /\ TailBeyond' /\ Cur' = Cur
      /\ Flight' = {Head1(live)[2]} /\ Failing' = 1
  BY <1>1, <1>2, HeadBeyond, StepToPaid
<1>4. Flight \subseteq {Head1(live)[2]} /\ Failing = 0
  BY <1>1, <1>2 DEF Flight, Failing
<1>5. Again' \subseteq Again
  BY <1>1, <1>3, <1>4 DEF Again, Sent, Beyond
<1>6. Failing' + interrupts <= Failing + interrupts'
  BY <1>1, <1>3, <1>4 DEF Unstopped, HistoryTypes
<1> QED BY <1>1, <1>3, <1>5, <1>6, CountSame DEF Unstopped, Paid
\* A change of the live stream is done: its loop goes on behind it, and it behind the cursor.
LEMMA DonePaid ==
  ASSUME Unstopped, live # 0, stream[live].chain # <<>>, NEW rec, Done(live, rec),
         rec.seq \in Nat, rec.watermark \in Resume,
         UNCHANGED <<engine, tip, live, call, proc, removed>>,
         NEW c, c = Head1(live)[2], runs' # <<>>, runs'[1].status = "running",
         Cur' \in {Cur, c}, engine = "postgres" => NotAfter(Cur', rec.watermark),
         engine = "mongodb" => Settled /\ Beyond(c)
  PROVE  OnlyStarts' /\ CursorBehind' /\ TailBeyond' /\ Flight' = {} /\ Failing' = 0
<1> DEFINE r == Head1(live)[1]
           o == reader[r].of
           old == stream[live].chain
<1>1. /\ live \in Streams /\ r \in Readers /\ c \in Places /\ o \in Streams
      /\ stream'[live].chain = Tail(old) /\ stream'[live].step = "idle"
      /\ stream'[live].watermark = rec.watermark /\ stream'[o].pos = c
      /\ \A t \in Streams \ {live} : stream'[t].step = stream[t].step
      /\ \A t \in Streams : stream'[t].run = stream[t].run
      /\ \A q \in Readers \ {r} : reader'[q] = reader[q]
      /\ reader[r].mode = "reading" =>
           reader'[r].mode = "reading" /\ reader'[r].of = o /\ reader'[r].at = After(c)
  BY HeadsTyped, DoneOK DEF Unstopped
<1>2. /\ old \in Seq(Readers \X Places) /\ old # <<>> /\ 1 \in DOMAIN old /\ c = old[1][2] /\ r = old[1][1]
  BY HeadsTyped DEF Head1
<1>3. ASSUME NEW i \in DOMAIN Tail(old) PROVE \E j \in DOMAIN old : Tail(old)[i] = old[j]
  <2>1. Len(old) \in Nat \ {0} /\ DOMAIN old = 1 .. Len(old) /\ DOMAIN Tail(old) = 1 .. (Len(old) - 1)
    BY <1>2, EmptySeq, LenProperties
  <2>2. i + 1 \in DOMAIN old /\ Tail(old)[i] = old[i + 1]
    BY <1>2, <1>3, <2>1
  <2> QED BY <2>2
<1> HIDE DEF r, o, old
<1>4. OnlyStarts'
  <2>1. \A b \in Actors : call[b].step = "idle"
    BY NobodyStarts
  <2> QED BY <1>1, <2>1, StartsSame DEF Unstopped, Paid, OnlyStarts
<1>5. \A j \in DOMAIN old : old[j][2][1] <= tip
  BY DEF Unstopped, Paid, CursorBehind, old
<1>6. CursorBehind'
  <2>1. Cur'[1] <= tip
    BY <1>2, <1>5 DEF Unstopped, Paid, CursorBehind
  <2>2. \A i \in DOMAIN stream'[live].chain : stream'[live].chain[i][2][1] <= tip
    BY <1>1, <1>3, <1>5
  <2> QED BY <1>1, <2>1, <2>2 DEF CursorBehind
<1>7. TailBeyond'
  <2> SUFFICES ASSUME engine = "mongodb" PROVE TailBeyond'
    BY DEF TailBeyond
  <2>1. /\ \A q \in Readers : reader[q].mode = "reading" => Beyond(reader[q].at)
        /\ \A q \in Readers : reader[q].mode # "free" /\ reader[q].of = live => reader[q].mode = "reading"
        /\ \A j \in DOMAIN old : reader[old[j][1]].mode = "reading"
    BY DEF Unstopped, Paid, TailBeyond, old
  <2>2. \A q \in Readers : reader[q].mode = "reading" => reader[q].of = live
    BY ReadsLive DEF Unstopped
  <2>3. reader[r].mode = "reading" /\ o = live
    BY <1>1, <1>2, <2>1, <2>2 DEF o
  <2>4. \A q \in Readers : reader[q].mode = "reading" => q = r
    BY <1>1, <2>2, <2>3 DEF Unstopped, LoggedInv, OneTail, Tailing, o
  <2>5. NotAfter(Cur', c) /\ Precedes(Cur', After(c))
    <3>1. Cur \in Nat \X Nat /\ c \in Nat \X Nat /\ After(c) \in Nat \X Nat /\ Precedes(c, After(c))
      BY <1>1, CurOK, PlacesOrdered DEF Unstopped, LoggedInv
    <3>2. Precedes(Cur, c)
      BY DEF Beyond
    <3>3. CASE Cur' = Cur
      BY <3>1, <3>2, <3>3, OrderOK
    <3>4. CASE Cur' = c
      BY <3>1, <3>4 DEF NotAfter
    <3> QED BY <3>3, <3>4
  <2>6. reader'[r].mode = "reading" /\ reader'[r].of = live /\ reader'[r].at = After(c)
    BY <1>1, <2>3
  <2>7. \A q \in Readers : reader'[q].mode = "reading" => Precedes(Cur', reader'[q].at)
    BY <1>1, <2>4, <2>5, <2>6
  <2>8. \A q \in Readers : reader'[q].mode # "free" /\ reader'[q].of = live => reader'[q].mode = "reading"
    BY <1>1, <2>1, <2>6
  <2>9. \A i \in DOMAIN stream'[live].chain : reader'[stream'[live].chain[i][1]].mode = "reading"
    <3> SUFFICES ASSUME NEW i \in DOMAIN Tail(old) PROVE reader'[Tail(old)[i][1]].mode = "reading"
      BY <1>1
    <3>1. PICK j \in DOMAIN old : Tail(old)[i] = old[j]
      BY <1>3
    <3>2. old[j][1] \in Readers
      BY <1>2
    <3>3. old[j][1] = r
      BY <2>1, <2>4, <3>2
    <3> QED BY <2>6, <3>1, <3>3
  <2> QED BY <1>1, <2>3, <2>5, <2>7, <2>8, <2>9 DEF TailBeyond, Beyond
<1>8. Flight' = {} /\ Failing' = 0
  BY <1>1 DEF Flight, Failing
<1> QED BY <1>4, <1>6, <1>7, <1>8

\* The cursor is saved behind the change in flight, which will not be sent again.
LEMMA SavePaid ==
  ASSUME Unstopped, NEW s \in Streams, Save(s)
  PROVE  Paid'
<1> DEFINE c == Head1(live)[2]
<1>1. /\ stream[s].step = "save" /\ stream[s].chain # <<>> /\ Done(s, Moved(s)) /\ Settled
      /\ runs' = [runs EXCEPT ![stream[s].run].offset = stream[s].seq + 1,
                              ![stream[s].run].cursor = Head1(s)[2]]
      /\ UNCHANGED <<engine, tip, live, call, proc, removed, sent, interrupts>>
  BY DEF Save, At, source, history
<1>2. s = live /\ live # 0 /\ stream[s].run = 1 /\ runs # <<>> /\ runs[1].status = "running"
  BY <1>1, CdcConstants DEF Unstopped, Paid, OnlyStarts, Streams
<1>3. /\ c \in Places /\ Moved(live).seq \in Nat /\ Moved(live).watermark = c
      /\ Moved(live).watermark \in Resume
  <2>1. c \in Places /\ stream[live] \in StreamRecord
    BY <1>1, <1>2, HeadsTyped, HeadOK DEF Unstopped, LoggedInv, Types
  <2> QED BY <2>1 DEF Moved, StreamRecord, Resume
<1>4. Beyond(c)
  BY <1>1, <1>2, HeadBeyond
<1> HIDE DEF c
<1>5. runs' # <<>> /\ runs'[1].status = "running" /\ Cur' = c
  <2>1. runs \in Seq(RunRecord) /\ runs[1] \in RunRecord /\ 1 \in DOMAIN runs
    BY <1>2, EmptySeq, LenProperties DEF Unstopped, LoggedInv, Types
  <2>2. PICK q \in Nat : q = stream[s].seq + 1
    BY DEF Unstopped, LoggedInv, Types, StreamRecord
  <2> DEFINE y == [runs[1] EXCEPT !.offset = q, !.cursor = c]
  <2>3. runs' = [runs EXCEPT ![1] = y]
    BY <1>1, <1>2, <2>1, <2>2 DEF c
  <2>4. y.status = "running" /\ y.cursor = c
    BY <1>2, <2>1 DEF RunRecord
  <2> HIDE DEF y
  <2>5. runs'[1] = y /\ DOMAIN runs' = DOMAIN runs
    BY <2>1, <2>3
  <2>6. runs' # <<>>
    BY <2>1, <2>5
  <2> QED BY <2>4, <2>5, <2>6 DEF Cur
<1>6. OnlyStarts' /\ CursorBehind' /\ TailBeyond' /\ Flight' = {} /\ Failing' = 0
  <2>1. NotAfter(Cur', c)
    BY <1>5 DEF NotAfter
  <2> QED BY <1>1, <1>2, <1>3, <1>4, <1>5, <2>1, DonePaid DEF c
<1>7. Flight = {c} /\ Failing = 0
  BY <1>1, <1>2 DEF Flight, Failing, c
<1>8. Again' \subseteq Again
  <2> SUFFICES ASSUME NEW d, d \in Again' PROVE d \in Again
    OBVIOUS
  <2>1. d \in Sent /\ Precedes(c, d) /\ d \in Nat \X Nat
    BY <1>1, <1>5, PlacesOrdered DEF Again, Sent, Beyond
  <2>2. Precedes(Cur, d) /\ d # c
    BY <1>3, <1>4, <2>1, CurOK, OrderOK, PlacesOrdered DEF Beyond, Unstopped, LoggedInv
  <2> QED BY <1>7, <2>1, <2>2 DEF Again, Beyond
<1> QED BY <1>1, <1>6, <1>7, <1>8, CountStays DEF Unstopped, Paid

\* The failure is recorded, and the cursor left: a restart sends the change once more.
LEMMA RecordFailurePaid ==
  ASSUME Unstopped, NEW s \in Streams, RecordFailure(s)
  PROVE  Paid'
<1> DEFINE c == Head1(live)[2]
<1>1. /\ stream[s].step = "failed" /\ stream[s].chain # <<>> /\ Done(s, Moved(s)) /\ Settled
      /\ UNCHANGED <<engine, tip, runs, live, call, proc, removed, sent, interrupts>>
  BY DEF RecordFailure, At, source
<1>2. s = live /\ live # 0 /\ runs # <<>> /\ runs[1].status = "running" /\ Cur' = Cur
  BY <1>1, CdcConstants DEF Unstopped, Paid, OnlyStarts, Streams, Cur
<1>3. /\ c \in Places /\ Moved(live).seq \in Nat /\ Moved(live).watermark = c
      /\ Moved(live).watermark \in Resume
  <2>1. c \in Places /\ stream[live] \in StreamRecord
    BY <1>1, <1>2, HeadsTyped, HeadOK DEF Unstopped, LoggedInv, Types
  <2> QED BY <2>1 DEF Moved, StreamRecord, Resume
<1>4. Beyond(c) /\ NotAfter(Cur, c)
  BY <1>1, <1>2, HeadBeyond DEF Beyond, NotAfter
<1>5. OnlyStarts' /\ CursorBehind' /\ TailBeyond' /\ Flight' = {} /\ Failing' = 0
  BY <1>1, <1>2, <1>3, <1>4, DonePaid
<1>6. Flight = {c} /\ Failing = 1
  BY <1>1, <1>2 DEF Flight, Failing
<1> HIDE DEF c
<1>7. Again' \subseteq Again \union {c}
  BY <1>1, <1>2, <1>5, <1>6 DEF Again, Sent, Beyond
<1>8. Failing' + interrupts + 1 <= Failing + interrupts'
  BY <1>1, <1>5, <1>6 DEF Unstopped, HistoryTypes
<1> QED BY <1>1, <1>5, <1>7, <1>8, CountOne DEF Unstopped, Paid

\* A repeat that the watermark knows is dropped; so is what waits in the chain of a stream
\* that is not the hook's any more.
LEMMA DropPaid ==
  ASSUME Unstopped, NEW s \in Streams, Drop(s)
  PROVE  Paid'
<1> DEFINE r == Head1(s)[1]
           c == Head1(s)[2]
           o == reader[r].of
<1>1. /\ stream[s].step = "idle" /\ stream[s].chain # <<>> /\ Done(s, stream[s])
      /\ live # s \/ ~CursorAfter(c, stream[s].watermark)
      /\ UNCHANGED <<engine, tip, runs, live, call, proc, removed, sent, interrupts>>
  BY DEF Drop, At, source, database
<1>2. Cur' = Cur
  BY <1>1 DEF Cur
<1>3. stream[s].seq \in Nat /\ stream[s].watermark \in Resume
  BY DEF Unstopped, LoggedInv, Types, StreamRecord
<1>4. CASE live = s
  <2>1. live # 0 /\ runs # <<>> /\ runs[1].status = "running"
    BY <1>4, CdcConstants DEF Unstopped, Paid, OnlyStarts, Streams
  <2>2. engine = "postgres" /\ NotAfter(Cur, stream[s].watermark)
    BY <1>1, <1>4, <2>1 DEF Unstopped, Logged, CursorAfter, Paid, CursorBehind
  <2>3. OnlyStarts' /\ CursorBehind' /\ TailBeyond' /\ Flight' = {} /\ Failing' = 0
    BY <1>1, <1>2, <1>3, <1>4, <2>1, <2>2, DonePaid
  <2>4. Flight = {} /\ Failing = 0
    BY <1>1, <1>4 DEF Flight, Failing
  <2>5. Again' \subseteq Again
    BY <1>1, <1>2, <2>3, <2>4 DEF Again, Sent, Beyond
  <2> QED BY <1>1, <2>3, <2>4, <2>5, CountStays DEF Unstopped, Paid
<1>5. CASE live # s
  <2>1. /\ r \in Readers /\ o \in Streams /\ reader[r].mode # "free" /\ c \in Places
        /\ stream'[s].step = "idle" /\ stream'[o].pos = c
        /\ \A t \in Streams \ {s} : /\ stream'[t].chain = stream[t].chain /\ stream'[t].step = stream[t].step
                                    /\ stream'[t].watermark = stream[t].watermark
        /\ \A t \in Streams : /\ stream'[t].run = stream[t].run
                              /\ t # o => stream'[t].pos = stream[t].pos
        /\ \A q \in Readers \ {r} : reader'[q] = reader[q]
        /\ reader[r].mode = "draining" => reader'[r].mode = "free"
        /\ reader[r].mode \in {"reading", "draining"}
    BY <1>1, <1>3, DoneOK DEF Unstopped
  <2>2. reader[r].mode = "draining" /\ reader'[r].mode = "free"
    <3>1. Waits(s, Head1(s))
      BY <1>1, HeadOK DEF Unstopped
    <3> QED BY <1>5, <2>1, <3>1 DEF Waits
  <2> HIDE DEF r, c, o
  <2>3. OnlyStarts'
    <3>1. \A b \in Actors : StartOK(b)'
      <4> SUFFICES ASSUME NEW b \in Actors PROVE StartOK(b)'
        OBVIOUS
      <4>1. StartOK(b)
        BY DEF Unstopped, Paid, OnlyStarts
      <4>2. call[b].step \in {"open", "opened"} => live \in Streams \ {s}
        BY <1>5, <4>1 DEF StartOK, Unstopped, LoggedInv, StartsAlone
      <4> QED BY <1>1, <1>2, <2>1, <4>1, <4>2 DEF StartOK
    <3>2. live \in {0} \union Streams
      BY DEF Unstopped, LoggedInv, Types
    <3> QED BY <1>1, <1>5, <2>1, <3>1, <3>2 DEF Unstopped, Paid, OnlyStarts
  <2>4. live # 0 => live \in Streams \ {s} /\ stream'[live].chain = stream[live].chain
                    /\ stream'[live].step = stream[live].step
                    /\ stream'[live].watermark = stream[live].watermark
    BY <1>5, <2>1 DEF Unstopped, LoggedInv, Types
  <2>5. CursorBehind'
    BY <1>1, <1>2, <2>4 DEF Unstopped, Paid, CursorBehind, Beyond, Head1
  <2>6. TailBeyond'
    <3> SUFFICES ASSUME engine = "mongodb" PROVE TailBeyond'
      BY <1>1 DEF TailBeyond
    <3>1. /\ \A q \in Readers : reader[q].mode = "reading" => Beyond(reader[q].at)
          /\ live # 0 =>
               /\ stream[live].pos = None \/ NotAfter(Cur, stream[live].pos)
               /\ \A q \in Readers : reader[q].mode # "free" /\ reader[q].of = live => reader[q].mode = "reading"
               /\ \A i \in DOMAIN stream[live].chain : reader[stream[live].chain[i][1]].mode = "reading"
      BY DEF Unstopped, Paid, TailBeyond
    <3>2. live # 0 => o # live
      BY <2>1, <2>2, <3>1 DEF o
    <3>3. live # 0 => stream'[live].pos = stream[live].pos
      BY <2>1, <2>4, <3>2
    <3>4. live # 0 => \A i \in DOMAIN stream[live].chain :
                         /\ stream[live].chain[i][1] \in Readers \ {r}
                         /\ reader[stream[live].chain[i][1]].mode = "reading"
      BY <2>2, <3>1, HeadsTyped
    <3>5. \A q \in Readers : reader'[q].mode # "free" => reader'[q] = reader[q]
      BY <2>1, <2>2
    <3> QED BY <1>1, <1>2, <2>1, <2>4, <3>1, <3>3, <3>4, <3>5 DEF TailBeyond, Beyond
  <2>7. Flight' = Flight /\ Failing' = Failing
    BY <1>1, <2>4 DEF Flight, Failing, Head1
  <2>8. Again' \subseteq Again
    BY <1>1, <1>2, <2>7 DEF Again, Sent, Beyond
  <2> QED BY <1>1, <2>3, <2>5, <2>6, <2>7, <2>8, CountStays DEF Unstopped, Paid
<1> QED BY <1>4, <1>5

\* The stream ends with its change in flight, which a restart sends once more.
LEMMA GiveUpPaid ==
  ASSUME Unstopped, NEW s \in Streams, GiveUp(s)
  PROVE  Paid'
<1> DEFINE c == Head1(live)[2]
<1>1. /\ stream[s].step = "failed" /\ stream[s].chain # <<>> /\ Settled /\ ~removed
      /\ live' = 0 /\ interrupts' = interrupts + 1
      /\ stream' = [stream EXCEPT ![s].chain = Tail(@), ![s].step = "idle"]
      /\ Finalize(stream[s].run, "failed") \/ UNCHANGED runs
      /\ UNCHANGED <<engine, tip, removed, call, proc, sent>>
  BY DEF GiveUp, At, source, Unstopped, Paid, OnlyStarts
<1>2. s = live /\ live # 0
  BY <1>1, CdcConstants DEF Unstopped, Paid, OnlyStarts, Streams
<1>3. Cur' = Cur
  <2>1. DOMAIN runs' = DOMAIN runs /\ \A m \in DOMAIN runs : runs'[m].cursor = runs[m].cursor
    <3>1. stream[s].run \in Nat /\ LoggedInv
      BY DEF Unstopped, LoggedInv, Types, StreamRecord
    <3> QED BY <1>1, <3>1, FinalizeOK
  <2>2. runs \in Seq(RunRecord) /\ runs' \in Seq(RunRecord)
    BY DEF Unstopped, LoggedInv, Types
  <2>3. (runs' = <<>> <=> runs = <<>>) /\ (runs # <<>> => 1 \in DOMAIN runs)
    <3>1. /\ DOMAIN runs = 1 .. Len(runs) /\ (runs # <<>> => Len(runs) \in Nat \ {0}) /\ Len(<<>>) = 0
          /\ DOMAIN runs' = 1 .. Len(runs') /\ (runs' # <<>> => Len(runs') \in Nat \ {0})
      BY <2>2, EmptySeq, LenProperties
    <3> QED BY <2>1, <3>1
  <2> QED BY <2>1, <2>3 DEF Cur
<1>4. \A b \in Actors : call[b].step = "idle"
  BY <1>1, <1>2, NobodyStarts
<1>5. \A t \in Streams : stream'[t].step = "idle"
  <2>1. stream \in [Streams -> StreamRecord] /\ \A t \in Streams : stream[t].step # "idle" => t = live
    BY DEF Unstopped, Paid, OnlyStarts, LoggedInv, Types
  <2>2. \A t \in Streams \ {s} : stream'[t] = stream[t]
    BY <1>1, <2>1
  <2>3. stream'[s].step = "idle"
    BY <1>1, <2>1 DEF StreamRecord
  <2> QED BY <1>2, <2>1, <2>2, <2>3
<1>6. OnlyStarts'
  BY <1>1, <1>4, <1>5 DEF Unstopped, Paid, OnlyStarts, StartOK
<1>7. CursorBehind'
  BY <1>1, <1>3 DEF Unstopped, Paid, CursorBehind
<1>8. TailBeyond'
  <2>1. \A q \in Readers : reader'[q].mode # "reading"
    <3>1. ReadersBelong'
      BY DEF Unstopped, LoggedInv
    <3>2. live' \notin Streams /\ \A b \in Actors : call'[b].step # "opened"
      BY <1>1, <1>4, CdcConstants DEF Streams
    <3> QED BY <3>1, <3>2 DEF ReadersBelong
  <2> QED BY <1>1, <2>1 DEF TailBeyond
<1>9. Flight = {c} /\ Flight' = {} /\ Failing = 1 /\ Failing' = 0
  BY <1>1, <1>2 DEF Flight, Failing
<1> HIDE DEF c
<1>10. Again' \subseteq Again \union {c}
  BY <1>1, <1>3, <1>9 DEF Again, Sent, Beyond
<1>11. Failing' + interrupts + 1 <= Failing + interrupts'
  BY <1>1, <1>9 DEF Unstopped, HistoryTypes
<1> QED BY <1>1, <1>6, <1>7, <1>8, <1>10, <1>11, CountOne DEF Unstopped, Paid
------------------------------------------------------------------------------
(***************************************************************************)
(* The invariant of the counting, and its theorem.                         *)
(***************************************************************************)

\* A stop, an edit and a removal have no step left, once none was ever asked for.
LEMMA NobodyStops ==
  ASSUME Unstopped, NEW c \in Actors, stops' = 0,
         \/ AskStop(c) \/ FindRun(c) \/ PauseRun(c) \/ Restart(c) \/ Deprovision(c) \/ DeleteHook(c)
  PROVE  FALSE
<1>1. call[c].step \in {"idle", "provision", "run", "check", "register", "open", "opened"}
  BY DEF Unstopped, Paid, OnlyStarts, StartOK
<1>2. ~AskStop(c)
  BY DEF AskStop, Unstopped, HistoryTypes
<1> QED BY <1>1, <1>2 DEF FindRun, PauseRun, Restart, Deprovision, DeleteHook, Resumes

\* A loop's step.
LEMMA LoopsPaid ==
  ASSUME Unstopped, SlotIsPostgres, NEW r \in Readers, ReaderNext(r)
  PROVE  Paid'
<1>1. CASE OnWalRecord(r) \/ OnOplogEntry(r)
  <2>1. UNCHANGED <<engine, tip, runs, live, call, proc, removed, sent, interrupts>>
    BY <1>1 DEF OnWalRecord, OnOplogEntry, ReadsOn, source, database, history
  <2> QED BY <1>1, <2>1, HandsOverPaid, PassesOverPaid DEF OnWalRecord, OnOplogEntry
<1>2. CASE Acknowledge(r)
  <2>1. /\ UNCHANGED <<engine, tip, runs, live, stream, reader, call, proc, removed, sent, interrupts>>
        /\ tip \in Nat
    BY <1>2, CdcConstants DEF Acknowledge, database, memory, history, Unstopped, LoggedInv, Types
  <2>2. tip' >= tip
    BY <2>1
  <2> QED BY <2>1, <2>2, PaidStays
<1>3. CASE Resubscribe(r)
  <2>1. reader[r].of \in Streams
    BY <1>3 DEF Resubscribe, Reopens, Unstopped, LoggedInv, ReadersBelong
  <2>2. stream[reader[r].of].pos \in Resume
    BY <2>1 DEF Unstopped, LoggedInv, Types, StreamRecord
  <2> QED BY <1>3, <2>2, ReopensPaid DEF Resubscribe
<1>4. CASE Rewatch(r)
  <2>1. /\ reader[r].out = {} /\ engine = "mongodb"
        /\ Reopens(r, stream[reader[r].of].pos) \/ Reopens(r, None)
    BY <1>4 DEF Rewatch
  <2>2. reader[r].of = live /\ live # 0 /\ live \in Streams
    BY <2>1, ReadsLive DEF Reopens, Unstopped
  <2>3. /\ stream[live].pos \in Resume /\ (stream[live].pos = None \/ NotAfter(Cur, stream[live].pos))
        /\ None \in Resume
    BY <2>1, <2>2 DEF Unstopped, LoggedInv, Types, StreamRecord, Paid, TailBeyond, Resume
  <2> QED BY <2>1, <2>2, <2>3, ReopensPaid
<1> QED BY <1>1, <1>2, <1>3, <1>4 DEF ReaderNext, Unstopped, Logged, OnBinlogEvent, OnNotification,
          RestartInstance, Reconnect, BuildRow

\* Every step of a stream that nobody stops.
LEMMA PaidNext ==
  ASSUME Unstopped, SlotIsPostgres, stops' = 0, [Next]_vars
  PROVE  Paid'
<1>1. CASE Commit
  <2>1. /\ UNCHANGED <<engine, runs, live, stream, reader, call, proc, removed, sent, interrupts>>
        /\ tip' = tip + 1 /\ tip \in Nat
    BY <1>1, CdcConstants DEF Commit, database, memory, history, Unstopped, LoggedInv, Types
  <2>2. tip' >= tip
    BY <2>1
  <2> QED BY <2>1, <2>2, PaidStays
<1>2. ASSUME NEW c \in Actors, RequestNext(c) PROVE Paid'
  <2>1. AskStart(c) \/ Provision(c) \/ CheckStream(c) => Paid'
    BY StartBegins
  <2>2. UpdateRun(c) \/ Register(c) \/ OpenStream(c) \/ OpenFails(c) \/ AfterOpen(c) => Paid'
    BY UpdateRunPaid, RegisterPaid, OpenPaid, OpenFailsPaid, AfterOpenPaid
  <2>3. AskStop(c) \/ FindRun(c) \/ PauseRun(c) \/ Restart(c) \/ Deprovision(c) \/ DeleteHook(c) => Paid'
    BY NobodyStops
  <2> QED BY <1>2, <2>1, <2>2, <2>3 DEF RequestNext
<1>3. ASSUME NEW s \in Streams, PipelineNext(s) PROVE Paid'
  BY <1>3, DropPaid, DeliverPaid, RecordPaid, SavePaid, ThrowsPaid, RecordFailurePaid, GiveUpPaid
     DEF PipelineNext
<1>4. CASE UNCHANGED vars
  <2>1. /\ UNCHANGED <<engine, runs, live, stream, reader, call, proc, removed, sent, interrupts, tip>>
        /\ tip \in Nat
    BY <1>4, CdcConstants DEF vars, source, database, memory, history, Unstopped, LoggedInv, Types
  <2>2. tip' >= tip
    BY <2>1
  <2> QED BY <2>1, <2>2, PaidStays
<1> QED BY <1>1, <1>2, <1>3, <1>4, CrashPaid, BootPaid, LoopsPaid DEF Next

\* Nothing has been sent.
LEMMA RepeatInit ==
  ASSUME Init
  PROVE  RepeatInv
<1>1. /\ sent = [c \in Changes |-> 0] /\ interrupts = 0 /\ live = 0 /\ runs = <<>> /\ ~removed
      /\ proc = "up" /\ tip = 0 /\ call = [c \in Actors |-> Idle]
      /\ stream = [s \in Streams |-> NoStream] /\ reader = [r \in Readers |-> NoReader] /\ stops = 0
  BY DEF Init
<1>2. Sent = {} /\ Flight = {} /\ Again = {} /\ Failing = 0 /\ Cur = None
  BY <1>1 DEF Sent, Flight, Again, Failing, Cur
<1>3. Repeated = {}
  <2>1. \A c \in Changes : 2 .. sent[c] = {}
    BY <1>1
  <2> QED BY <2>1 DEF Repeated
<1>4. HistoryTypes
  BY <1>1, <1>2, <1>3, FS_EmptySet DEF HistoryTypes
<1>5. Counted
  BY <1>1, <1>2, <1>3, FS_EmptySet DEF Counted, Repeats
<1>6. OnlyStarts
  BY <1>1, IdleOK DEF OnlyStarts, StartOK, NoStream
<1>7. CursorBehind /\ TailBeyond
  BY <1>1, <1>2 DEF CursorBehind, TailBeyond, None, NoReader
<1> QED BY <1>4, <1>5, <1>6, <1>7 DEF RepeatInv, Paid

\* Every step of the hook keeps the count.
LEMMA RepeatNext ==
  ASSUME Orderly, CdcInv, CdcInv', "redis" \notin Engines, RepeatInv, [Next]_vars
  PROVE  RepeatInv'
<1>1. HistoryTypes' /\ (stops' = 0 => stops = 0)
  BY HistoryMoves DEF RepeatInv
<1>2. ASSUME stops' = 0 PROVE Paid'
  <2>1. Logged /\ LoggedInv /\ SlotIsPostgres /\ Logged'
    BY CdcConstants DEF CdcInv, Orderly, Logged
  <2>2. Unstopped
    BY <1>1, <1>2, <2>1 DEF Unstopped, RepeatInv, CdcInv
  <2> QED BY <1>2, <2>1, <2>2, PaidNext
<1> QED BY <1>1, <1>2 DEF RepeatInv

\* As long as nobody stops the stream of a hook, each crash and each failure sends one
\* change a second time at most, and a reconnect none, whatever the log, its rows, the
\* number of failures and their order: on PostgreSQL through the watermark, on MongoDB
\* through the token that a reopened cursor goes on from (HookCdcService.processChange,
\* the providers' cursorAfter, onModuleInit).
THEOREM RepeatsArePaid == Orderly /\ "redis" \notin Engines /\ Spec => []RepeatsBounded
<1> SUFFICES ASSUME Orderly, "redis" \notin Engines PROVE Spec => []RepeatsBounded
  OBVIOUS
<1>1. Spec => []CdcInv
  BY InvHolds
<1>2. Init => RepeatInv
  BY RepeatInit DEF Init
<1>3. RepeatInv /\ CdcInv /\ CdcInv' /\ [Next]_vars => RepeatInv'
  BY RepeatNext
<1>4. RepeatInv => RepeatsBounded
  <2> SUFFICES ASSUME RepeatInv, stops = 0 PROVE Repeats <= interrupts
    BY DEF RepeatsBounded
  <2>1. Repeats + Cardinality(Again) + Failing <= interrupts
    BY DEF RepeatInv, Paid, Counted
  <2>2. Repeats \in Nat /\ Cardinality(Again) \in Nat /\ Failing \in 0 .. 1 /\ interrupts \in Nat
    BY AgainOK DEF RepeatInv, HistoryTypes
  <2> QED BY <2>1, <2>2
<1> QED BY <1>1, <1>2, <1>3, <1>4, PTL DEF Spec
------------------------------------------------------------------------------
(***************************************************************************)
(* Sequences.  A stream that nobody interrupts takes each of them once; on *)
(* MongoDB a change has the number of the changes before it.               *)
(***************************************************************************)

\* How many changes lie before a position, and how many are done with the one at it.
Behind(p) == Cardinality({d \in Changes : Precedes(d, p)})
Upto(w) == Cardinality({d \in Changes : NotAfter(d, w)})
\* n changes are done by w, which is none of them or one that was committed.
Counts(n, w) == w \in {None} \union Blind /\ n = Upto(w)

\* The log has finitely many captured rows.
LEMMA ChangesFinite == IsFiniteSet(Changes)
<1> DEFINE n == Max({0} \union {Rows[p] : p \in DOMAIN Rows})
<1>1. n \in Nat
  BY RowsMax
<1>2. DOMAIN Rows = 1 .. Len(Rows) /\ Len(Rows) \in Nat
  BY CdcConstants
<1>3. Changes \subseteq (DOMAIN Rows) \X (1 .. n)
  BY DEF Changes
<1> HIDE DEF n
<1>4. IsFiniteSet(DOMAIN Rows) /\ IsFiniteSet(1 .. n)
  BY <1>1, <1>2, FS_Interval
<1> DEFINE D == DOMAIN Rows
           N == 1 .. n
           C == Changes
<1>5. IsFiniteSet(D) /\ IsFiniteSet(N) /\ C \subseteq D \X N
  BY <1>3, <1>4
<1> HIDE DEF D, N, C
<1>6. IsFiniteSet(D \X N)
  BY <1>5, FS_Product
<1>7. IsFiniteSet(C)
  BY <1>5, <1>6, FS_Subset
<1> QED BY <1>7 DEF C

\* Sets of them can be counted, and one more counts one more.
LEMMA CountOK ==
  ASSUME NEW p
  PROVE  /\ Behind(p) \in Nat /\ Upto(p) \in Nat
         /\ IsFiniteSet({d \in Changes : Precedes(d, p)})
<1> DEFINE C == Changes
           S == {d \in Changes : Precedes(d, p)}
           T == {d \in Changes : NotAfter(d, p)}
<1>1. IsFiniteSet(C) /\ S \subseteq C /\ T \subseteq C
  BY ChangesFinite
<1> HIDE DEF C, S, T
<1>2. IsFiniteSet(S) /\ IsFiniteSet(T)
  BY <1>1, FS_Subset
<1>3. Cardinality(S) \in Nat /\ Cardinality(T) \in Nat
  BY <1>2, FS_CardinalityType
<1> QED BY <1>2, <1>3 DEF S, T, Behind, Upto

\* A run without a cursor has counted nothing.
LEMMA UptoNone == Upto(None) = 0
<1>1. \A d \in Changes : ~NotAfter(d, None)
  BY ChangeOK DEF NotAfter, Precedes, None
<1>2. {d \in Changes : NotAfter(d, None)} = {}
  BY <1>1
<1> QED BY <1>2, FS_EmptySet DEF Upto

\* One change more, which is where a loop goes on.
LEMMA UptoNext ==
  ASSUME NEW c \in Changes
  PROVE  Upto(c) = Behind(c) + 1 /\ Behind(After(c)) = Upto(c)
<1> DEFINE S == {d \in Changes : Precedes(d, c)}
           T == {d \in Changes : NotAfter(d, c)}
           A == {d \in Changes : Precedes(d, After(c))}
<1>1. c \notin S
  BY ChangeOK DEF Precedes
<1>2. T = S \union {c}
  BY DEF NotAfter
<1>3. ASSUME NEW d \in Changes PROVE Precedes(d, After(c)) <=> NotAfter(d, c)
  <2>1. /\ d[1] \in Nat /\ d[2] \in Nat \ {0} /\ d[2] <= Rows[d[1]] /\ d = <<d[1], d[2]>>
        /\ c[1] \in Nat /\ c[2] \in Nat \ {0} /\ c = <<c[1], c[2]>>
        /\ Rows[c[1]] \in Nat /\ Rows[d[1]] \in Nat
    BY ChangeOK, PlaceOK
  <2>2. d = c <=> d[1] = c[1] /\ d[2] = c[2]
    BY <2>1
  <2>3. CASE c[2] < Rows[c[1]]
    <3>1. After(c)[1] = c[1] /\ After(c)[2] = c[2] + 1
      BY <2>3 DEF After
    <3> QED BY <2>1, <2>2, <3>1 DEF Precedes, NotAfter
  <2>4. CASE ~(c[2] < Rows[c[1]])
    <3>1. After(c)[1] = c[1] + 1 /\ After(c)[2] = 1
      BY <2>4 DEF After, Start
    <3>2. d[1] = c[1] => d[2] <= c[2]
      BY <2>1, <2>4
    <3> QED BY <2>1, <2>2, <3>1, <3>2 DEF Precedes, NotAfter
  <2> QED BY <2>3, <2>4
<1>4. A = T
  BY <1>3
<1>5. IsFiniteSet(S)
  BY CountOK
<1> HIDE DEF S, T, A
<1>6. Cardinality(T) = Cardinality(S) + 1
  BY <1>1, <1>2, <1>5, FS_AddElement
<1> QED BY <1>4, <1>6 DEF S, T, A, Behind, Upto

\* Passing over an event of another table counts nothing.
LEMMA BehindOver ==
  ASSUME NEW p \in Spots, Rows[p[1]] = 0
  PROVE  Behind(Start(p[1] + 1)) = Behind(p)
<1>1. ASSUME NEW d \in Changes PROVE Precedes(d, Start(p[1] + 1)) <=> Precedes(d, p)
  <2>1. /\ d[1] \in Nat /\ d[2] \in Nat \ {0} /\ d[2] <= Rows[d[1]] /\ p[1] \in Nat /\ p[2] \in Nat
        /\ Rows[d[1]] \in Nat
    BY ChangeOK, PlaceOK, CdcConstants DEF Spots
  <2>2. d[1] # p[1]
    BY <2>1
  <2> QED BY <2>1, <2>2 DEF Precedes, Start
<1>2. {d \in Changes : Precedes(d, Start(p[1] + 1))} = {d \in Changes : Precedes(d, p)}
  BY <1>1
<1> QED BY <1>2 DEF Behind

\* An end of the log that has nothing behind it.
LEMMA BehindTip ==
  ASSUME Blind = {}, tip \in Nat
  PROVE  Behind(Tip) = 0
<1>1. \A d \in Changes : ~Precedes(d, Tip)
  BY ChangeOK DEF Blind, Tip, Start, Precedes
<1>2. {d \in Changes : Precedes(d, Tip)} = {}
  BY <1>1
<1> QED BY <1>2, FS_EmptySet DEF Behind

\* The number of changes before it tells a change.
LEMMA BehindApart ==
  ASSUME NEW c \in Changes, NEW d \in Changes, Behind(c) = Behind(d)
  PROVE  c = d
<1>1. ASSUME NEW a \in Changes, NEW b \in Changes, Precedes(a, b) PROVE Behind(a) < Behind(b)
  <2> DEFINE T == {e \in Changes : NotAfter(e, a)}
             S == {e \in Changes : Precedes(e, b)}
  <2>1. T \subseteq S
    <3> SUFFICES ASSUME NEW e \in Changes, NotAfter(e, a) PROVE Precedes(e, b)
      OBVIOUS
    <3> QED BY <1>1, ChangeOK DEF NotAfter, Precedes
  <2>2. IsFiniteSet(S)
    BY CountOK
  <2> HIDE DEF T, S
  <2>3. Cardinality(T) <= Cardinality(S)
    BY <2>1, <2>2, FS_Subset
  <2>4. Upto(a) <= Behind(b)
    BY <2>3 DEF T, S, Upto, Behind
  <2>5. Behind(a) \in Nat /\ Behind(b) \in Nat /\ Upto(a) = Behind(a) + 1
    BY CountOK, UptoNext
  <2> QED BY <2>4, <2>5
<1>2. c = d \/ Precedes(c, d) \/ Precedes(d, c)
  <2>1. /\ c[1] \in Nat /\ c[2] \in Nat /\ c = <<c[1], c[2]>>
        /\ d[1] \in Nat /\ d[2] \in Nat /\ d = <<d[1], d[2]>>
    BY ChangeOK, PlaceOK
  <2> QED BY <2>1 DEF Precedes
<1>3. Behind(c) \in Nat /\ Behind(d) \in Nat
  BY CountOK
<1>4. ~(Behind(c) < Behind(d)) /\ ~(Behind(d) < Behind(c))
  BY <1>3
<1> QED BY <1>1, <1>2, <1>4
------------------------------------------------------------------------------
(***************************************************************************)
(* What MongoDB's streams know: everything that counts changes.            *)
(***************************************************************************)

SavesCount ==
  /\ \A n \in DOMAIN runs : Counts(runs[n].offset, runs[n].cursor)
  /\ \A c \in Actors : Counts(call[c].offset, call[c].cursor)
\* A stream that is being opened has what its request found.
StreamsCount ==
  /\ \A s \in Streams : Counts(stream[s].seq, stream[s].watermark)
  /\ \A c \in Actors : call[c].step = "open" =>
       /\ stream[call[c].stream].seq = call[c].offset
       /\ stream[call[c].stream].watermark = call[c].cursor
\* A stream has one loop, which goes on after as many changes as the stream has counted.
LoopsCount ==
  /\ \A q, r \in Readers :
       reader[q].mode # "free" /\ reader[r].mode # "free" /\ reader[q].of = reader[r].of => q = r
  /\ \A r \in Readers :
       /\ reader[r].mode # "free" => reader[r].at \in Spots
       /\ reader[r].mode = "reading" =>
            /\ Behind(reader[r].at) = stream[reader[r].of].seq
            /\ stream[reader[r].of].pos = stream[reader[r].of].watermark
\* The change it waits for has the sequence that the stream gives next.
EntriesCount ==
  \A s \in Streams : \A i \in DOMAIN stream[s].chain :
    /\ stream[s].chain[i][2] \in Blind
    /\ reader[stream[s].chain[i][1]].of = s
    /\ live = s \/ stream[s].step # "idle" => Behind(stream[s].chain[i][2]) = stream[s].seq
LedgerCounts ==
  \A k \in DOMAIN ledger : ledger[k].change \in Changes /\ k[2] = Behind(ledger[k].change)
Numbered == SavesCount /\ StreamsCount /\ LoopsCount /\ EntriesCount /\ LedgerCounts

\* What a step may rely on where no stream has opened past a change.
Numbering ==
  /\ Logged /\ LoggedInv /\ LoggedInv' /\ engine = "mongodb" /\ engine' = "mongodb"
  /\ missed.tip = {} /\ missed'.tip = {} /\ Numbered

\* The log only grows, and what was counted in it stays so.
LEMMA CountsStay ==
  ASSUME tip \in Nat, tip' \in Nat, tip <= tip'
  PROVE  Blind \subseteq Blind' /\ \A n, w : Counts(n, w) => Counts(n, w)'
<1>1. Blind \subseteq Blind'
  BY ChangeOK DEF Blind
<1> QED BY <1>1 DEF Counts, Upto

\* Nothing is counted when nothing runs.
LEMMA CountsNone == Counts(0, None)
BY UptoNone DEF Counts

\* Where a cursor has counted to, the provider opens; if it has none, at the end of a
\* log without changes.
LEMMA OpensCounted ==
  ASSUME engine = "mongodb", tip \in 0 .. Len(Rows),
         missed \in [tip : SUBSET Changes, event : SUBSET Changes], NEW n, NEW w, Counts(n, w), missed' = Missing(w), missed'.tip = {}
  PROVE  Behind(OpensAt(w)) = n /\ OpensAt(w) \in Spots /\ (w = None => Blind = {})
<1>1. CASE w = None
  <2>1. missed' = [missed EXCEPT !.tip = @ \union Blind] /\ OpensAt(w) = Tip
    BY <1>1 DEF Missing, OpensAt, TokenPosition
  <2>2. Blind = {}
    BY <2>1
  <2>3. tip \in Nat /\ Tip \in Spots
    <3>1. Len(Rows) \in Nat /\ \A m \in 0 .. Len(Rows) : Start(m + 1) \in Spots
      BY SpotOK
    <3>2. Start(tip + 1) \in Spots
      BY <3>1
    <3> QED BY <3>1, <3>2 DEF Tip
  <2> QED BY <1>1, <2>1, <2>2, <2>3, BehindTip, UptoNone DEF Counts
<1>2. CASE w # None
  <2>1. w \in Changes /\ OpensAt(w) = After(w)
    BY <1>2 DEF Counts, Blind, OpensAt, TokenPosition
  <2> QED BY <1>2, <2>1, UptoNext, SpotOK DEF Counts
<1> QED BY <1>1, <1>2

\* Steps that move no stream on: loops may end, and what is saved is counted.
LEMMA QuietCounts ==
  ASSUME Numbering, tip' \in Nat, tip <= tip', live' \in {0, live},
         \A s \in Streams : /\ stream'[s].seq = stream[s].seq /\ stream'[s].watermark = stream[s].watermark
                            /\ stream'[s].pos = stream[s].pos /\ stream'[s].chain = stream[s].chain
                            /\ stream'[s].step = stream[s].step,
         \A r \in Readers : Quieter(r),
         SavesCount',
         \A c \in Actors : call'[c].step = "open" => call'[c] = call[c],
         DOMAIN ledger' \subseteq DOMAIN ledger, \A k \in DOMAIN ledger' : ledger'[k] = ledger[k]
  PROVE  Numbered'
<1>1. tip \in Nat
  BY CdcConstants DEF Numbering, LoggedInv, Types
<1>2. Blind \subseteq Blind' /\ \A n, w : Counts(n, w) => Counts(n, w)'
  BY <1>1, CountsStay
<1>4. StreamsCount'
  <2>1. \A c \in Actors : call[c].step = "open" => call[c].stream \in Streams
    BY DEF Numbering, LoggedInv, StartsAlone
  <2> QED BY <1>2, <2>1 DEF StreamsCount, Numbering, Numbered
<1>5. \A r \in Readers : reader'[r].mode # "free" =>
        /\ reader[r].mode # "free" /\ reader'[r].of = reader[r].of /\ reader'[r].at = reader[r].at
        /\ reader'[r].mode = "reading" => reader[r].mode = "reading"
        /\ reader[r].of \in Streams
  BY DEF Quieter, Numbering, LoggedInv, ReadersBelong
<1>6. LoopsCount'
  <2> DEFINE One == \A q, r \in Readers :
         reader'[q].mode # "free" /\ reader'[r].mode # "free" /\ reader'[q].of = reader'[r].of => q = r
  <2>1. One
    BY <1>5 DEF LoopsCount, Numbering, Numbered
  <2>2. ASSUME NEW r \in Readers, reader'[r].mode # "free"
        PROVE  /\ reader'[r].at \in Spots
               /\ reader'[r].mode = "reading" =>
                    /\ Behind(reader'[r].at) = stream'[reader'[r].of].seq
                    /\ stream'[reader'[r].of].pos = stream'[reader'[r].of].watermark
    BY <1>5, <2>2 DEF LoopsCount, Numbering, Numbered
  <2> QED BY <2>1, <2>2 DEF LoopsCount, Behind
<1>7. EntriesCount'
  <2> SUFFICES ASSUME NEW s \in Streams, NEW i \in DOMAIN stream[s].chain, NEW e, e = stream[s].chain[i]
               PROVE  /\ e[2] \in Blind' /\ reader'[e[1]].of = s
                      /\ live' = s \/ stream[s].step # "idle" => Behind(e[2]) = stream[s].seq
    BY DEF EntriesCount, Behind
  <2>1. /\ e[2] \in Blind /\ reader[e[1]].of = s
        /\ live = s \/ stream[s].step # "idle" => Behind(e[2]) = stream[s].seq
    BY DEF EntriesCount, Numbering, Numbered
  <2>2. Waits(s, e)' /\ e[1] \in Readers
    BY DEF Numbering, LoggedInv, ChainsBelong, EntriesWait, Types, StreamRecord
  <2>3. s # 0
    BY CdcConstants DEF Streams
  <2> QED BY <1>2, <1>5, <2>1, <2>2, <2>3 DEF Waits
<1>8. LedgerCounts'
  BY DEF LedgerCounts, Behind, Numbering, Numbered
<1> QED BY <1>4, <1>6, <1>7, <1>8 DEF Numbered
------------------------------------------------------------------------------
(***************************************************************************)
(* The requests, and the process.                                          *)
(***************************************************************************)

\* A request that moves on takes along what was counted.
LEMMA RequestCounts ==
  ASSUME Numbering, NEW c \in Actors, NEW X \in CallRecord, call' = [call EXCEPT ![c] = X],
         X.step # "open", Counts(X.offset, X.cursor)
  PROVE  /\ \A b \in Actors : Counts(call'[b].offset, call'[b].cursor)
         /\ \A b \in Actors : call'[b].step = "open" => call'[b] = call[b]
<1>1. call'[c] = X /\ \A b \in Actors \ {c} : call'[b] = call[b]
  BY DEF Numbering, LoggedInv, Types
<1> QED BY <1>1 DEF Numbering, Numbered, SavesCount

\* The end of a run keeps its offset and its cursor.
LEMMA FinalizeCounts ==
  ASSUME Numbering, NEW n, NEW status \in {"paused", "failed"}, Finalize(n, status) \/ UNCHANGED runs
  PROVE  \A m \in DOMAIN runs' : Counts(runs'[m].offset, runs'[m].cursor)
<1>1. runs \in Seq(RunRecord) /\ \A m \in DOMAIN runs : Counts(runs[m].offset, runs[m].cursor)
  BY DEF Numbering, LoggedInv, Types, Numbered, SavesCount
<1>2. CASE runs' = runs
  BY <1>1, <1>2
<1>3. CASE n \in DOMAIN runs /\ runs' = [runs EXCEPT ![n].status = status]
  <2>1. /\ DOMAIN runs' = DOMAIN runs
        /\ \A m \in DOMAIN runs : /\ runs[m] \in RunRecord
                                  /\ m # n => runs'[m] = runs[m]
        /\ runs'[n] = [runs[n] EXCEPT !.status = status]
    BY <1>1, <1>3
  <2>2. \A m \in DOMAIN runs : runs'[m].offset = runs[m].offset /\ runs'[m].cursor = runs[m].cursor
    BY <1>3, <2>1 DEF RunRecord
  <2> QED BY <1>1, <2>1, <2>2
<1> QED BY <1>2, <1>3 DEF Finalize

\* Requests that leave stream and loops alone.
LEMMA QuietRequests ==
  ASSUME Orderly, Numbering, NEW c \in Actors,
         \/ AskStart(c) \/ Provision(c) \/ UpdateRun(c) \/ CheckStream(c)
         \/ FindRun(c) \/ PauseRun(c) \/ Restart(c) \/ Deprovision(c) \/ DeleteHook(c)
  PROVE  Numbered'
<1>1. /\ UNCHANGED <<tip, live, stream, reader>> /\ DOMAIN ledger' \subseteq DOMAIN ledger
      /\ \A k \in DOMAIN ledger' : ledger'[k] = ledger[k]
  BY DEF AskStart, Provision, Provisioned, UpdateRun, CheckStream, FindRun, PauseRun, Restart,
         Deprovision, DeleteHook, source, database, memory, Numbering
<1>2. /\ call[c] \in CallRecord /\ call \in [Actors -> CallRecord] /\ runs \in Seq(RunRecord)
      /\ Counts(call[c].offset, call[c].cursor) /\ Idle \in CallRecord /\ Counts(Idle.offset, Idle.cursor)
      /\ \A n \in DOMAIN runs : Counts(runs[n].offset, runs[n].cursor)
  BY IdleOK, CountsNone DEF Numbering, LoggedInv, Types, Numbered, SavesCount, Idle
<1>3. Counts(0, None)' /\ \A n, w : Counts(n, w)' <=> Counts(n, w)
  BY <1>1, CountsNone DEF Counts, Blind, Upto
<1>4. PICK X \in CallRecord : /\ call' = [call EXCEPT ![c] = X] /\ X.step # "open"
                              /\ Counts(X.offset, X.cursor)
                              /\ \A n \in DOMAIN runs' : Counts(runs'[n].offset, runs'[n].cursor)
  <2>1. ASSUME NEW op \in Ops, NEW step \in Steps, Ask(c, op, step), step # "open", UNCHANGED runs,
               op \in {"start", "stop", "edit", "remove"}
        PROVE  \E X \in CallRecord : /\ call' = [call EXCEPT ![c] = X] /\ X.step # "open"
                              /\ Counts(X.offset, X.cursor)
                              /\ \A n \in DOMAIN runs' : Counts(runs'[n].offset, runs'[n].cursor)
    <3> DEFINE X == [Idle EXCEPT !.step = step, !.op = op]
    <3>1. X \in CallRecord /\ X.step = step /\ X.offset = 0 /\ X.cursor = None
      BY <2>1, <1>2 DEF CallRecord, Idle
    <3>2. call' = [call EXCEPT ![c] = X]
      BY <2>1 DEF Ask
    <3> HIDE DEF X
    <3> QED BY <1>2, <2>1, <3>1, <3>2, CountsNone
  <2>2. CASE AskStart(c)
    <3>1. Ask(c, "start", "provision") /\ UNCHANGED runs
      BY <2>2 DEF AskStart, database
    <3> QED BY <2>1, <3>1 DEF Ask, Steps
  <2>3. ASSUME NEW step \in Steps \ {"open"}, Goto(c, step),
               \A n \in DOMAIN runs' : Counts(runs'[n].offset, runs'[n].cursor)
        PROVE  \E X \in CallRecord : /\ call' = [call EXCEPT ![c] = X] /\ X.step # "open"
                              /\ Counts(X.offset, X.cursor)
                              /\ \A n \in DOMAIN runs' : Counts(runs'[n].offset, runs'[n].cursor)
    <3> DEFINE X == [call[c] EXCEPT !.step = step]
    <3>1. X \in CallRecord /\ X.step = step /\ X.offset = call[c].offset /\ X.cursor = call[c].cursor
      BY <2>3, <1>2 DEF CallRecord
    <3>2. call' = [call EXCEPT ![c] = X]
      BY <1>2, <2>3 DEF Goto
    <3> HIDE DEF X
    <3> QED BY <1>2, <2>3, <3>1, <3>2
  <2>4. ASSUME Return(c), \A n \in DOMAIN runs' : Counts(runs'[n].offset, runs'[n].cursor)
        PROVE  \E X \in CallRecord : /\ call' = [call EXCEPT ![c] = X] /\ X.step # "open"
                              /\ Counts(X.offset, X.cursor)
                              /\ \A n \in DOMAIN runs' : Counts(runs'[n].offset, runs'[n].cursor)
    <3>1. call' = [call EXCEPT ![c] = Idle] /\ Idle.step = "idle"
      BY <2>4 DEF Return, Idle
    <3> QED BY <1>2, <2>4, <3>1
  <2>5. CASE Provision(c) \/ CheckStream(c) \/ Restart(c) \/ Deprovision(c)
    <3>1. UNCHANGED runs /\ (Return(c) \/ \E step \in Steps \ {"open"} : Goto(c, step))
      BY <2>5 DEF Provision, CheckStream, Restart, Deprovision, database, Steps
    <3> QED BY <1>2, <2>3, <2>4, <3>1
  <2>6. CASE PauseRun(c)
    <3>1. Finalize(call[c].run, "paused") /\ (Goto(c, "restart") \/ Return(c))
      BY <2>6 DEF PauseRun
    <3>2. \A n \in DOMAIN runs' : Counts(runs'[n].offset, runs'[n].cursor)
      BY <3>1, FinalizeCounts
    <3> QED BY <2>3, <2>4, <3>1, <3>2 DEF Steps
  <2>7. CASE DeleteHook(c)
    <3>1. runs' = <<>> /\ Return(c)
      BY <2>7 DEF DeleteHook
    <3> QED BY <2>4, <3>1
  <2>8. CASE FindRun(c)
    <3>1. UNCHANGED runs
      BY <2>8 DEF FindRun, database
    <3>2. CASE Return(c)
      BY <1>2, <2>4, <3>1, <3>2
    <3>3. CASE call' = [call EXCEPT ![c].run = Max(ActiveRuns), ![c].step = "pause"] /\ ActiveRuns # {}
      <4>1. Max(ActiveRuns) \in Nat
        <5>1. Types /\ ActiveRuns \subseteq DOMAIN runs
          BY DEF Numbering, LoggedInv, ActiveRuns
        <5> HIDE DEF ActiveRuns
        <5> QED BY <3>3, <5>1, OnlyRun
      <4> DEFINE m == Max(ActiveRuns)
                 X == [call[c] EXCEPT !.run = m, !.step = "pause"]
      <4>2. call' = [call EXCEPT ![c] = X]
        BY <1>2, <3>3
      <4>3. m \in Nat
        BY <4>1
      <4> HIDE DEF m
      <4>4. X \in CallRecord /\ X.step = "pause" /\ X.offset = call[c].offset /\ X.cursor = call[c].cursor
        BY <1>2, <4>3 DEF CallRecord, Steps
      <4> HIDE DEF X
      <4> QED BY <1>2, <3>1, <4>2, <4>4
    <3> QED BY <2>8, <3>2, <3>3 DEF FindRun
  <2>9. CASE UpdateRun(c)
    <3> DEFINE n == IF runs = <<>> THEN 1 ELSE Len(runs)
    <3>1. /\ runs' = IF runs = <<>> THEN <<[status |-> "running", offset |-> 0, cursor |-> None]>>
                     ELSE [runs EXCEPT ![n].status = "running"]
          /\ call' = [call EXCEPT ![c].run = n, ![c].offset = runs'[n].offset,
                                  ![c].cursor = runs'[n].cursor, ![c].step = "check"]
      BY <2>9 DEF UpdateRun
    <3>2. /\ n \in DOMAIN runs' /\ n \in Nat /\ runs'[n].offset \in Nat /\ runs'[n].cursor \in Resume
          /\ \A m \in DOMAIN runs' : Counts(runs'[m].offset, runs'[m].cursor)
      <4>1. CASE runs = <<>>
        BY <3>1, <4>1, CountsNone DEF Resume
      <4>2. CASE runs # <<>>
        <5>1. n \in DOMAIN runs /\ n = Len(runs) /\ n \in Nat
          BY <1>2, <4>2, EmptySeq, LenProperties
        <5>2. /\ DOMAIN runs' = DOMAIN runs
              /\ \A m \in DOMAIN runs : runs[m] \in RunRecord /\ (m # n => runs'[m] = runs[m])
              /\ runs'[n] = [runs[n] EXCEPT !.status = "running"]
          BY <1>2, <3>1, <4>2, <5>1
        <5>3. \A m \in DOMAIN runs : runs'[m].offset = runs[m].offset /\ runs'[m].cursor = runs[m].cursor
          BY <5>1, <5>2 DEF RunRecord
        <5>4. runs[n].offset \in Nat /\ runs[n].cursor \in Resume
          BY <5>1, <5>2 DEF RunRecord
        <5> QED BY <1>2, <5>1, <5>2, <5>3, <5>4
      <4> QED BY <4>1, <4>2
    <3>3. PICK i \in Nat, f \in Nat, w \in Resume :
            /\ call' = [call EXCEPT ![c].run = i, ![c].offset = f, ![c].cursor = w, ![c].step = "check"]
            /\ Counts(f, w)
      BY <3>1, <3>2
    <3> DEFINE X == [call[c] EXCEPT !.run = i, !.offset = f, !.cursor = w, !.step = "check"]
    <3>4. call' = [call EXCEPT ![c] = X]
      BY <1>2, <3>3
    <3>5. X \in CallRecord /\ X.step = "check" /\ X.offset = f /\ X.cursor = w
      BY <1>2, <3>3 DEF CallRecord, Steps
    <3> HIDE DEF X
    <3> QED BY <3>2, <3>3, <3>4, <3>5
  <2> QED BY <2>2, <2>5, <2>6, <2>7, <2>8, <2>9
<1>5. /\ \A b \in Actors : Counts(call'[b].offset, call'[b].cursor)
      /\ \A b \in Actors : call'[b].step = "open" => call'[b] = call[b]
  BY <1>4, RequestCounts
<1>6. tip \in Nat /\ \A r \in Readers : Quieter(r)
  BY <1>1, CdcConstants DEF Quieter, Numbering, LoggedInv, Types
<1>7. tip' \in Nat /\ tip <= tip' /\ live' \in {0, live}
  BY <1>1, <1>6
<1>8. SavesCount'
  BY <1>3, <1>4, <1>5 DEF SavesCount
<1> QED BY <1>1, <1>5, <1>6, <1>7, <1>8, QuietCounts
\* The source goes on, and a process that is up again takes the run that was running.
LEMMA SourceCounts ==
  ASSUME Orderly, Numbering, Commit \/ Boot
  PROVE  Numbered'
<1>1. /\ UNCHANGED <<live, stream, reader, runs, ledger>> /\ tip' \in {tip, tip + 1} /\ tip \in Nat
      /\ \A r \in Readers : Quieter(r)
  BY CdcConstants DEF Commit, Boot, database, memory, Quieter, Numbering, LoggedInv, Types
<1>2. tip' \in Nat /\ tip <= tip'
  BY <1>1
<1>3. \A n, w : Counts(n, w) => Counts(n, w)'
  BY <1>1, <1>2, CountsStay
<1>4. /\ \A m \in DOMAIN runs : Counts(runs[m].offset, runs[m].cursor)
      /\ \A c \in Actors : Counts(call[c].offset, call[c].cursor)
  BY DEF Numbering, Numbered, SavesCount
<1>5. CASE call' = call
  <2>1. SavesCount'
    BY <1>1, <1>3, <1>4, <1>5 DEF SavesCount
  <2> QED BY <1>1, <1>2, <1>5, <2>1, QuietCounts
<1>6. CASE call' # call
  <2> DEFINE running == {m \in DOMAIN runs : runs[m].status = "running"}
             n == Max(running)
  <2>1. /\ Boot /\ running # {}
        /\ call' = [call EXCEPT !["boot"] = [Idle EXCEPT !.step = "check", !.run = n,
                              !.offset = runs[n].offset, !.cursor = runs[n].cursor]]
    BY <1>6 DEF Boot, Commit
  <2>2. n \in DOMAIN runs /\ n \in Nat
    <3>1. Types /\ running \subseteq DOMAIN runs
      BY DEF Numbering, LoggedInv
    <3> HIDE DEF running
    <3>2. n = 1 /\ 1 \in DOMAIN runs
      BY <2>1, <3>1, OnlyRun
    <3> QED BY <3>2
  <2> HIDE DEF n, running
  <2>3. PICK i, f, w :
          /\ call' = [call EXCEPT !["boot"] = [Idle EXCEPT !.step = "check", !.run = i,
                                               !.offset = f, !.cursor = w]]
          /\ Counts(f, w)
    BY <1>4, <2>1, <2>2
  <2> DEFINE X == [Idle EXCEPT !.step = "check", !.run = i, !.offset = f, !.cursor = w]
  <2>4. X.step = "check" /\ X.offset = f /\ X.cursor = w
    BY DEF Idle
  <2>5. call' = [call EXCEPT !["boot"] = X] /\ "boot" \in Actors /\ call \in [Actors -> CallRecord]
    BY <2>3 DEF Actors, Numbering, LoggedInv, Types
  <2> HIDE DEF X
  <2>6. call'["boot"] = X /\ \A b \in Actors \ {"boot"} : call'[b] = call[b]
    BY <2>5
  <2>7. \A c \in Actors : Counts(call'[c].offset, call'[c].cursor)
    BY <1>4, <2>3, <2>4, <2>6
  <2>8. SavesCount'
    BY <1>1, <1>3, <1>4, <2>7 DEF SavesCount
  <2>9. \A c \in Actors : call'[c].step = "open" => call'[c] = call[c]
    BY <2>4, <2>6
  <2> QED BY <1>1, <1>2, <2>8, <2>9, QuietCounts
<1> QED BY <1>5, <1>6

\* An opening that fails, or is over, and a stop.
LEMMA EndCounts ==
  ASSUME Orderly, Numbering, NEW c \in Actors, OpenFails(c) \/ AfterOpen(c) \/ AskStop(c)
  PROVE  Numbered'
<1>1. UNCHANGED <<tip, ledger>> /\ live' \in {0, live} /\ tip \in Nat
  BY CdcConstants DEF OpenFails, AfterOpen, AskStop, Torn, source, database, Numbering, LoggedInv, Types
<1>2. \A r \in Readers : Quieter(r)
  <2>1. CASE OpenFails(c)
    BY <2>1 DEF OpenFails, Quieter
  <2>2. CASE AfterOpen(c)
    <3>1. reader' = reader \/ reader' = Stopped(call[c].stream)
      BY <2>2 DEF AfterOpen
    <3>2. Types
      BY DEF Numbering, LoggedInv
    <3> QED BY <3>1, <3>2, StoppedOK DEF Quieter
  <2>3. CASE AskStop(c)
    BY <2>3, TornOK DEF AskStop, Ask, Resumes, Torn, Numbering
  <2> QED BY <2>1, <2>2, <2>3
<1>3. \A s \in Streams : /\ stream'[s].seq = stream[s].seq /\ stream'[s].watermark = stream[s].watermark
                         /\ stream'[s].pos = stream[s].pos /\ stream'[s].chain = stream[s].chain
                         /\ stream'[s].step = stream[s].step
  <2>1. stream \in [Streams -> StreamRecord]
    BY DEF Numbering, LoggedInv, Types
  <2>2. stream' = stream \/ stream' = [stream EXCEPT ![live].handle = TRUE]
    BY DEF OpenFails, AfterOpen, AskStop, memory
  <2>3. ASSUME NEW s \in Streams
        PROVE  stream'[s] = stream[s] \/ stream'[s] = [stream[s] EXCEPT !.handle = TRUE]
    BY <2>1, <2>2
  <2>4. ASSUME NEW s \in Streams, stream'[s] = [stream[s] EXCEPT !.handle = TRUE]
        PROVE  /\ stream'[s].seq = stream[s].seq /\ stream'[s].watermark = stream[s].watermark
               /\ stream'[s].pos = stream[s].pos /\ stream'[s].chain = stream[s].chain
               /\ stream'[s].step = stream[s].step
    <3>1. stream[s] \in StreamRecord
      BY <2>1
    <3> QED BY <2>4, <3>1 DEF StreamRecord
  <2> QED BY <2>3, <2>4
<1>4. \A n, w : Counts(n, w)' <=> Counts(n, w)
  BY <1>1 DEF Counts, Blind, Upto
<1>5. \A n \in DOMAIN runs' : Counts(runs'[n].offset, runs'[n].cursor)
  <2>1. Finalize(call[c].run, "failed") \/ UNCHANGED runs
    BY DEF OpenFails, AfterOpen, AskStop, database
  <2> QED BY <2>1, FinalizeCounts
<1>6. PICK X \in CallRecord : call' = [call EXCEPT ![c] = X] /\ X.step # "open" /\ Counts(X.offset, X.cursor)
  <2>1. CASE Return(c)
    BY <2>1, IdleOK, CountsNone DEF Return, Idle
  <2>2. CASE AskStop(c)
    <3>1. PICK op \in {"stop", "edit", "remove"}, step \in {"find", "deprovision"} :
            call' = [call EXCEPT ![c] = [Idle EXCEPT !.step = step, !.op = op]]
      BY <2>2 DEF AskStop, Ask
    <3> DEFINE X == [Idle EXCEPT !.step = step, !.op = op]
    <3>2. X \in CallRecord /\ X.step = step /\ X.offset = 0 /\ X.cursor = None
      BY IdleOK DEF CallRecord, Idle, Steps
    <3>3. call' = [call EXCEPT ![c] = X]
      BY <3>1
    <3> HIDE DEF X
    <3> QED BY <3>2, <3>3, CountsNone
  <2> QED BY <2>1, <2>2 DEF OpenFails, AfterOpen
<1>7. /\ \A b \in Actors : Counts(call'[b].offset, call'[b].cursor)
      /\ \A b \in Actors : call'[b].step = "open" => call'[b] = call[b]
  BY <1>6, RequestCounts
<1>8. tip' \in Nat /\ tip <= tip'
  BY <1>1
<1>9. SavesCount'
  BY <1>4, <1>5, <1>7 DEF SavesCount
<1> QED BY <1>1, <1>2, <1>3, <1>7, <1>8, <1>9, QuietCounts

\* After a crash there are only the run and its ledger.
LEMMA CrashCounts ==
  ASSUME Numbering, Crash
  PROVE  Numbered'
<1>1. /\ UNCHANGED <<tip, runs, ledger>> /\ live' = 0
      /\ stream' = [s \in Streams |-> NoStream] /\ reader' = [r \in Readers |-> NoReader]
      /\ call' = [c \in Actors |-> Idle]
  BY DEF Crash, source, database
<1>2. \A n, w : Counts(n, w)' <=> Counts(n, w)
  BY <1>1 DEF Counts, Blind, Upto
<1>3. SavesCount' /\ StreamsCount'
  BY <1>1, <1>2, CountsNone DEF Numbering, Numbered, SavesCount, StreamsCount, Idle, NoStream
<1>4. LoopsCount'
  BY <1>1 DEF LoopsCount, NoReader
<1>5. EntriesCount'
  BY <1>1 DEF EntriesCount, NoStream
<1>6. LedgerCounts'
  BY <1>1 DEF LedgerCounts, Behind, Numbering, Numbered
<1> QED BY <1>3, <1>4, <1>5, <1>6 DEF Numbered
\* A new stream begins where its request has counted to, and has no loop.
LEMMA RegisterCounts ==
  ASSUME Orderly, Numbering, NEW c \in Actors, Register(c)
  PROVE  Numbered'
<1>1. PICK s \in Streams :
        /\ stream[s].run = 0
        /\ stream' = [stream EXCEPT ![s] = [NoStream EXCEPT !.run = call[c].run,
                        !.seq = call[c].offset, !.watermark = call[c].cursor]]
        /\ live' = s /\ call' = [call EXCEPT ![c].stream = s, ![c].step = "open"]
        /\ UNCHANGED <<tip, runs, ledger, reader>> /\ call[c].step = "register"
  BY DEF Register, Resumes, source, database
<1>2. /\ call[c] \in CallRecord /\ call \in [Actors -> CallRecord] /\ stream \in [Streams -> StreamRecord]
      /\ Counts(call[c].offset, call[c].cursor)
  BY DEF Numbering, LoggedInv, Types, Numbered, SavesCount
<1> DEFINE X == [call[c] EXCEPT !.stream = s, !.step = "open"]
           Y == [NoStream EXCEPT !.run = call[c].run, !.seq = call[c].offset, !.watermark = call[c].cursor]
<1>3. /\ X.step = "open" /\ X.stream = s /\ X.offset = call[c].offset /\ X.cursor = call[c].cursor
      /\ Y.seq = call[c].offset /\ Y.watermark = call[c].cursor /\ Y.chain = <<>> /\ Y.step = "idle"
  BY <1>2 DEF CallRecord, NoStream
<1>4. call' = [call EXCEPT ![c] = X] /\ stream' = [stream EXCEPT ![s] = Y]
  BY <1>1, <1>2
<1> HIDE DEF X, Y
<1>5. /\ call'[c] = X /\ \A b \in Actors \ {c} : call'[b] = call[b]
      /\ stream'[s] = Y /\ \A t \in Streams \ {s} : stream'[t] = stream[t]
  BY <1>2, <1>4
<1>6. \A n, w : Counts(n, w)' <=> Counts(n, w)
  BY <1>1 DEF Counts, Blind, Upto
<1>7. SavesCount'
  <2>1. /\ \A b \in Actors : Counts(call[b].offset, call[b].cursor)
        /\ \A m \in DOMAIN runs : Counts(runs[m].offset, runs[m].cursor)
    BY DEF SavesCount, Numbering, Numbered
  <2>2. ASSUME NEW b \in Actors PROVE Counts(call'[b].offset, call'[b].cursor)
    <3>1. CASE b = c
      BY <1>2, <1>3, <1>5, <3>1
    <3>2. CASE b # c
      BY <1>5, <2>1, <3>2
    <3> QED BY <3>1, <3>2
  <2> QED BY <1>1, <1>6, <2>1, <2>2 DEF SavesCount
<1>8. StreamsCount'
  <2>1. \A b \in Actors \ {c} : call[b].step # "open"
    BY <1>1, OthersRest DEF StartSteps, Numbering
  <2>2. \A t \in Streams : Counts(stream'[t].seq, stream'[t].watermark)
    BY <1>2, <1>3, <1>5 DEF StreamsCount, Numbering, Numbered
  <2> QED BY <1>3, <1>5, <1>6, <2>1, <2>2 DEF StreamsCount
<1>9. \A r \in Readers : reader[r].mode # "free" => reader[r].of \in Streams \ {s}
  BY <1>1 DEF Numbering, LoggedInv, ReadersBelong
<1>10. LoopsCount'
  BY <1>1, <1>5, <1>9 DEF LoopsCount, Behind, Numbering, Numbered
<1>11. EntriesCount'
  <2> SUFFICES ASSUME NEW t \in Streams, NEW i \in DOMAIN stream'[t].chain
               PROVE  /\ stream'[t].chain[i][2] \in Blind
                      /\ reader[stream'[t].chain[i][1]].of = t
                      /\ live' = t \/ stream'[t].step # "idle" =>
                           Behind(stream'[t].chain[i][2]) = stream'[t].seq
    BY <1>1 DEF EntriesCount, Behind, Blind
  <2>1. t # s
    BY <1>3, <1>5
  <2> QED BY <1>1, <1>5, <2>1 DEF EntriesCount, Numbering, Numbered
<1>12. LedgerCounts'
  BY <1>1 DEF LedgerCounts, Behind, Numbering, Numbered
<1> QED BY <1>7, <1>8, <1>10, <1>11, <1>12 DEF Numbered

\* The provider opens the loop of its stream where the cursor has counted to.
LEMMA OpenCounts ==
  ASSUME Orderly, Numbering, NEW c \in Actors, OpenStream(c)
  PROVE  Numbered'
<1> DEFINE f == FreeReader
           s == call[c].stream
           w == call[c].cursor
           N == NewReader(s, w)
<1>1. /\ call[c].step = "open" /\ HasFreeReader
      /\ reader' = [reader EXCEPT ![f] = N]
      /\ stream' = [stream EXCEPT ![s].pos = w]
      /\ missed' = Missing(w) /\ Goto(c, "opened")
      /\ UNCHANGED <<tip, runs, ledger, live>>
  BY DEF OpenStream, Resumes, source, database
<1>2. /\ call[c] \in CallRecord /\ call \in [Actors -> CallRecord] /\ stream \in [Streams -> StreamRecord]
      /\ reader \in [Readers -> ReaderRecord] /\ w \in Resume /\ tip \in 0 .. Len(Rows)
      /\ missed \in [tip : SUBSET Changes, event : SUBSET Changes]
  BY DEF Numbering, LoggedInv, Types, CallRecord
<1>3. /\ Counts(call[c].offset, w) /\ s \in Streams
      /\ stream[s].seq = call[c].offset /\ stream[s].watermark = w
      /\ \A r \in Readers : reader[r].mode # "free" => reader[r].of # s
  BY <1>1 DEF Numbering, LoggedInv, StartsAlone, Numbered, SavesCount, StreamsCount
<1>4. Behind(OpensAt(w)) = stream[s].seq /\ OpensAt(w) \in Spots
  BY <1>1, <1>2, <1>3, OpensCounted DEF Numbering
<1>5. f \in Readers /\ reader[f].mode = "free"
  BY <1>1, FreeReaderOK
<1>6. /\ N.of = s /\ N.mode = "reading" /\ N.at = OpensAt(w)
  BY DEF NewReader, NoReader
<1>7. call' = [call EXCEPT ![c] = [call[c] EXCEPT !.step = "opened"]]
  BY <1>1 DEF Goto
<1> DEFINE X == [call[c] EXCEPT !.step = "opened"]
<1>8. X \in CallRecord /\ X.step # "open" /\ X.offset = call[c].offset /\ X.cursor = w
  BY <1>2 DEF CallRecord, Steps
<1> HIDE DEF f, s, w, N, X
<1>9. /\ reader'[f] = N /\ \A r \in Readers \ {f} : reader'[r] = reader[r]
  BY <1>1, <1>2, <1>5
<1>10. \A t \in Streams : /\ stream'[t].seq = stream[t].seq /\ stream'[t].watermark = stream[t].watermark
                          /\ stream'[t].chain = stream[t].chain /\ stream'[t].step = stream[t].step
                          /\ stream'[t].pos = IF t = s THEN w ELSE stream[t].pos
  BY <1>1, <1>2, <1>3 DEF StreamRecord
<1>11. \A n, v : Counts(n, v)' <=> Counts(n, v)
  BY <1>1 DEF Counts, Blind, Upto
<1>12. SavesCount' /\ StreamsCount'
  <2>1. /\ \A b \in Actors : Counts(call'[b].offset, call'[b].cursor)
        /\ \A b \in Actors : call'[b].step = "open" => call'[b] = call[b]
    <3>1. call' = [call EXCEPT ![c] = X]
      BY <1>7 DEF X
    <3> QED BY <1>3, <1>8, <3>1, RequestCounts
  <2>2. \A b \in Actors : call[b].step = "open" => call[b].stream \in Streams
    BY DEF Numbering, LoggedInv, StartsAlone
  <2> QED BY <1>1, <1>10, <1>11, <2>1, <2>2 DEF SavesCount, StreamsCount, Numbering, Numbered
<1>13. LoopsCount'
  <2>1. ASSUME NEW r \in Readers, reader'[r].mode # "free"
        PROVE  /\ reader'[r].at \in Spots
               /\ reader'[r].mode = "reading" =>
                    /\ Behind(reader'[r].at) = stream'[reader'[r].of].seq
                    /\ stream'[reader'[r].of].pos = stream'[reader'[r].of].watermark
               /\ r = f \/ (reader'[r] = reader[r] /\ reader[r].of # s)
    <3>1. CASE r = f
      BY <1>3, <1>4, <1>6, <1>9, <1>10, <3>1
    <3>2. CASE r # f
      <4>1. reader'[r] = reader[r] /\ reader[r].of \in Streams /\ reader[r].of # s
        BY <1>3, <1>9, <2>1, <3>2 DEF Numbering, LoggedInv, ReadersBelong
      <4> QED BY <1>10, <2>1, <4>1 DEF LoopsCount, Numbering, Numbered
    <3> QED BY <3>1, <3>2
  <2>2. ASSUME NEW q \in Readers, NEW r \in Readers, reader'[q].mode # "free", reader'[r].mode # "free",
               reader'[q].of = reader'[r].of
        PROVE  q = r
    <3>1. CASE q = f \/ r = f
      BY <1>6, <1>9, <2>1, <2>2, <3>1
    <3>2. CASE q # f /\ r # f
      BY <1>9, <2>2, <3>2 DEF LoopsCount, Numbering, Numbered
    <3> QED BY <3>1, <3>2
  <2> QED BY <2>1, <2>2 DEF LoopsCount, Behind
<1>14. EntriesCount'
  <2> SUFFICES ASSUME NEW t \in Streams, NEW i \in DOMAIN stream'[t].chain
               PROVE  /\ stream'[t].chain[i][2] \in Blind
                      /\ reader'[stream'[t].chain[i][1]].of = t
                      /\ live' = t \/ stream'[t].step # "idle" =>
                           Behind(stream'[t].chain[i][2]) = stream'[t].seq
    BY <1>1 DEF EntriesCount, Behind, Blind
  <2> DEFINE e == stream'[t].chain[i]
  <2>0. e = stream[t].chain[i] /\ i \in DOMAIN stream[t].chain
    BY <1>10
  <2> HIDE DEF e
  <2>1. Waits(t, e) /\ e[1] \in Readers
    BY <2>0 DEF Numbering, LoggedInv, ChainsBelong, EntriesWait, Types, StreamRecord
  <2>2. reader'[e[1]] = reader[e[1]]
    BY <1>5, <1>9, <2>1 DEF Waits
  <2>3. /\ e[2] \in Blind /\ reader[e[1]].of = t
        /\ live = t \/ stream[t].step # "idle" => Behind(e[2]) = stream[t].seq
    BY <2>0 DEF EntriesCount, Numbering, Numbered
  <2> QED BY <1>1, <1>10, <2>2, <2>3 DEF e
<1>15. LedgerCounts'
  BY <1>1 DEF LedgerCounts, Behind, Numbering, Numbered
<1> QED BY <1>12, <1>13, <1>14, <1>15 DEF Numbered
------------------------------------------------------------------------------
(***************************************************************************)
(* The loops.                                                              *)
(***************************************************************************)

\* A row that is handed over has the sequence that its stream gives next.
LEMMA HandsOverCounts ==
  ASSUME Numbering, NEW r \in Readers, HandsOver(r),
         UNCHANGED <<tip, runs, ledger, live, call>>
  PROVE  Numbered'
<1> DEFINE p == reader[r].at
           n == Len(stream[live].chain)
<1>1. /\ reader[r].mode = "reading" /\ p[1] <= tip /\ live \in Streams /\ reader[r].of = live
      /\ reader'[r].at = p /\ reader'[r].mode = "reading" /\ reader'[r].of = live
      /\ \A q \in Readers \ {r} : reader'[q] = reader[q]
      /\ \A t \in Streams : /\ stream'[t].step = stream[t].step /\ stream'[t].pos = stream[t].pos
                            /\ stream'[t].watermark = stream[t].watermark /\ stream'[t].seq = stream[t].seq
                            /\ t # live => stream'[t].chain = stream[t].chain
      /\ DOMAIN stream'[live].chain = 1 .. n + 1 /\ DOMAIN stream[live].chain = 1 .. n /\ n \in Nat
      /\ stream'[live].chain[n + 1] = <<r, p>>
      /\ \A i \in DOMAIN stream[live].chain : stream'[live].chain[i] = stream[live].chain[i]
  BY HandsOverOK DEF Numbering
<1>2. p \in Blind
  <2>1. p \in Spots /\ p[1] \in Nat /\ p[1] \in DOMAIN Rows
    <3>1. p \in Spots
      BY <1>1 DEF Numbering, Numbered, LoopsCount
    <3>2. p[1] \in Nat \ {0} /\ p[1] <= Len(Rows)
      <4>1. p[1] \in Nat \ {0}
        BY <3>1, CdcConstants DEF Spots
      <4>2. tip \in 0 .. Len(Rows)
        BY DEF Numbering, LoggedInv, Types
      <4> QED BY <1>1, <4>1, <4>2, CdcConstants
    <3> QED BY <3>1, <3>2, CdcConstants
  <2>2. Rows[p[1]] > 0
    BY DEF HandsOver
  <2> QED BY <1>1, <2>1, <2>2, HandedOK DEF Blind
<1>3. Behind(p) = stream[live].seq
  BY <1>1 DEF Numbering, Numbered, LoopsCount
<1> HIDE DEF p, n
<1>4. \A m, v : Counts(m, v)' <=> Counts(m, v)
  BY DEF Counts, Blind, Upto
<1>5. SavesCount' /\ StreamsCount'
  <2>1. \A c \in Actors : call[c].step = "open" => call[c].stream \in Streams
    BY DEF Numbering, LoggedInv, StartsAlone
  <2> QED BY <1>1, <1>4, <2>1 DEF SavesCount, StreamsCount, Numbering, Numbered
<1>6. LoopsCount'
  <2>1. /\ \A q \in Readers : reader'[q].mode = reader[q].mode /\ reader'[q].of = reader[q].of
                              /\ reader'[q].at = reader[q].at
        /\ \A q \in Readers : reader[q].mode # "free" => reader[q].of \in Streams
    BY <1>1 DEF p, Numbering, LoggedInv, ReadersBelong
  <2>2. ASSUME NEW q \in Readers, reader'[q].mode # "free"
        PROVE  /\ reader'[q].at \in Spots
               /\ reader'[q].mode = "reading" =>
                    /\ Behind(reader'[q].at) = stream'[reader'[q].of].seq
                    /\ stream'[reader'[q].of].pos = stream'[reader'[q].of].watermark
    <3>1. /\ reader[q].at \in Spots /\ reader[q].of \in Streams
          /\ reader[q].mode = "reading" =>
               /\ Behind(reader[q].at) = stream[reader[q].of].seq
               /\ stream[reader[q].of].pos = stream[reader[q].of].watermark
      BY <2>1, <2>2 DEF LoopsCount, Numbering, Numbered
    <3> QED BY <1>1, <2>1, <3>1
  <2>3. \A q, s \in Readers :
       reader'[q].mode # "free" /\ reader'[s].mode # "free" /\ reader'[q].of = reader'[s].of => q = s
    BY <2>1 DEF LoopsCount, Numbering, Numbered
  <2> QED BY <2>2, <2>3 DEF LoopsCount, Behind
<1>7. EntriesCount'
  <2> SUFFICES ASSUME NEW t \in Streams, NEW i \in DOMAIN stream'[t].chain, NEW e, e = stream'[t].chain[i]
               PROVE  /\ e[2] \in Blind /\ reader'[e[1]].of = t
                      /\ live = t \/ stream[t].step # "idle" => Behind(e[2]) = stream[t].seq
    BY <1>1 DEF EntriesCount, Behind, Blind
  <2>1. CASE t = live /\ i = n + 1
    BY <1>1, <1>2, <1>3, <2>1
  <2>2. CASE ~(t = live /\ i = n + 1)
    <3>1. i \in DOMAIN stream[t].chain /\ e = stream[t].chain[i]
      <4>1. CASE t = live
        BY <1>1, <2>2, <4>1
      <4>2. CASE t # live
        BY <1>1, <4>2
      <4> QED BY <4>1, <4>2
    <3>2. e[1] \in Readers
      BY <3>1 DEF Numbering, LoggedInv, Types, StreamRecord
    <3>3. /\ e[2] \in Blind /\ reader[e[1]].of = t
          /\ live = t \/ stream[t].step # "idle" => Behind(e[2]) = stream[t].seq
      BY <3>1 DEF EntriesCount, Numbering, Numbered
    <3> QED BY <1>1, <3>2, <3>3
  <2> QED BY <2>1, <2>2
<1>8. LedgerCounts'
  BY DEF LedgerCounts, Behind, Numbering, Numbered
<1> QED BY <1>5, <1>6, <1>7, <1>8 DEF Numbered

\* A loop that passes over an event has as many changes behind it as before.
LEMMA PassesOverCounts ==
  ASSUME Numbering, NEW r \in Readers, PassesOver(r),
         UNCHANGED <<tip, runs, ledger, live, call, stream>>
  PROVE  Numbered'
<1> DEFINE p == reader[r].at
<1>1. /\ reader[r].mode = "reading" /\ reader[r].out = {} /\ Rows[p[1]] = 0 /\ p[1] <= tip
      /\ reader' = [reader EXCEPT ![r].at = Start(p[1] + 1)]
  BY DEF PassesOver, Ready, Numbering
<1>2. reader \in [Readers -> ReaderRecord] /\ p \in Spots /\ tip \in 0 .. Len(Rows)
  BY <1>1 DEF Numbering, LoggedInv, Types, Numbered, LoopsCount
<1>3. Start(p[1] + 1) \in Spots /\ Behind(Start(p[1] + 1)) = Behind(p)
  <2>1. p[1] \in Nat \ {0} /\ Len(Rows) \in Nat
    BY <1>2, CdcConstants DEF Spots
  <2>2. p[1] \in 0 .. Len(Rows)
    BY <1>1, <1>2, <2>1
  <2> QED BY <1>1, <1>2, <2>2, SpotOK, BehindOver
<1>4. /\ reader'[r].at = Start(p[1] + 1)
      /\ \A q \in Readers \ {r} : reader'[q] = reader[q]
      /\ \A q \in Readers : reader'[q].mode = reader[q].mode /\ reader'[q].of = reader[q].of
  BY <1>1, <1>2 DEF ReaderRecord
<1> DEFINE b == Start(p[1] + 1)
<1>5. reader'[r].at = b /\ b \in Spots /\ Behind(b) = Behind(p)
  BY <1>3, <1>4
<1> HIDE DEF b
<1>6. \A m, v : Counts(m, v)' <=> Counts(m, v)
  BY DEF Counts, Blind, Upto
<1>7. SavesCount' /\ StreamsCount'
  BY <1>6 DEF SavesCount, StreamsCount, Numbering, Numbered
<1>8. LoopsCount'
  <2>1. ASSUME NEW q \in Readers, reader'[q].mode # "free"
        PROVE  /\ reader'[q].at \in Spots
               /\ reader'[q].mode = "reading" =>
                    /\ Behind(reader'[q].at) = stream[reader'[q].of].seq
                    /\ stream[reader'[q].of].pos = stream[reader'[q].of].watermark
    <3>1. CASE q = r
      BY <1>4, <1>5, <2>1, <3>1 DEF LoopsCount, Numbering, Numbered
    <3>2. CASE q # r
      BY <1>4, <2>1, <3>2 DEF LoopsCount, Numbering, Numbered
    <3> QED BY <3>1, <3>2
  <2>2. \A q, s \in Readers :
       reader'[q].mode # "free" /\ reader'[s].mode # "free" /\ reader'[q].of = reader'[s].of => q = s
    BY <1>4 DEF LoopsCount, Numbering, Numbered
  <2> QED BY <2>1, <2>2 DEF LoopsCount, Behind
<1>9. EntriesCount'
  <2>1. \A s \in Streams : \A i \in DOMAIN stream[s].chain : stream[s].chain[i][1] \in Readers
    BY DEF Numbering, LoggedInv, Types, StreamRecord
  <2> SUFFICES ASSUME NEW t \in Streams, NEW i \in DOMAIN stream'[t].chain
               PROVE  /\ stream'[t].chain[i][2] \in Blind
                      /\ reader'[stream'[t].chain[i][1]].of = t
                      /\ live' = t \/ stream'[t].step # "idle" =>
                           Behind(stream'[t].chain[i][2]) = stream'[t].seq
    BY DEF EntriesCount, Behind, Blind
  <2> DEFINE e == stream[t].chain[i]
  <2>2. /\ e[2] \in Blind /\ reader[e[1]].of = t /\ e[1] \in Readers
        /\ live = t \/ stream[t].step # "idle" => Behind(e[2]) = stream[t].seq
    BY <2>1 DEF EntriesCount, Numbering, Numbered
  <2> QED BY <1>4, <2>2
<1>10. LedgerCounts'
  BY DEF LedgerCounts, Behind, Numbering, Numbered
<1> QED BY <1>7, <1>8, <1>9, <1>10 DEF Numbered

\* MongoDB's one loop starts again where its stream has counted to.
LEMMA RewatchCounts ==
  ASSUME Numbering, NEW r \in Readers, Rewatch(r)
  PROVE  Numbered'
<1> DEFINE s == reader[r].of
<1>1. PICK w : /\ reader[r].mode = "reading" /\ reader[r].out = {} /\ Settled
               /\ w \in {stream[s].pos, None}
               /\ reader' = [Stopped(s) EXCEPT ![r] = NewReader(s, w)]
               /\ missed' = Missing(w) /\ stream' = [stream EXCEPT ![s].pos = w]
               /\ UNCHANGED <<tip, runs, ledger, live, call>>
  BY DEF Rewatch, Reopens, source, database
<1>2. /\ s \in Streams /\ s = live /\ stream \in [Streams -> StreamRecord] /\ Types
      /\ reader \in [Readers -> ReaderRecord] /\ tip \in 0 .. Len(Rows)
      /\ missed \in [tip : SUBSET Changes, event : SUBSET Changes]
  BY <1>1, ReadsLive DEF Numbering, LoggedInv, Types
<1>3. /\ Counts(stream[s].seq, stream[s].watermark) /\ stream[s].pos = stream[s].watermark
      /\ stream[s].watermark \in Resume
  BY <1>1, <1>2 DEF Numbering, Numbered, StreamsCount, LoopsCount, StreamRecord
<1> HIDE DEF s
<1>4. w = stream[s].watermark
  <2>1. CASE w = None
    <3>1. Counts(0, None)
      BY CountsNone
    <3>2. Blind = {}
      BY <1>1, <1>2, <2>1, <3>1, OpensCounted DEF Numbering
    <3> QED BY <1>3, <2>1, <3>2 DEF Counts
  <2>2. CASE w # None
    BY <1>1, <1>3, <2>2
  <2> QED BY <2>1, <2>2
<1>5. Behind(OpensAt(w)) = stream[s].seq /\ OpensAt(w) \in Spots
  BY <1>1, <1>2, <1>3, <1>4, OpensCounted DEF Numbering
<1> DEFINE N == NewReader(s, w)
           y == Stopped(s)
<1>6. N.of = s /\ N.mode = "reading" /\ N.at = OpensAt(w)
  BY DEF NewReader, NoReader
<1>7. /\ y \in [Readers -> ReaderRecord]
      /\ \A q \in Readers \ {r} : reader[q].mode = "free" \/ reader[q].of # s
      /\ \A q \in Readers \ {r} : y[q] = reader[q]
  <2>1. \A q \in Readers \ {r} : reader[q].mode = "free" \/ reader[q].of # s
    BY <1>1 DEF s, Numbering, Numbered, LoopsCount
  <2> QED BY <1>2, <2>1, StoppedOK
<1>8. reader' = [y EXCEPT ![r] = N]
  BY <1>1
<1> HIDE DEF N, y
<1>9. reader'[r] = N /\ \A q \in Readers \ {r} : reader'[q] = reader[q]
  BY <1>7, <1>8
<1>10. \A t \in Streams : /\ stream'[t].seq = stream[t].seq /\ stream'[t].watermark = stream[t].watermark
                          /\ stream'[t].chain = stream[t].chain /\ stream'[t].step = stream[t].step
                          /\ stream'[t].pos = IF t = s THEN w ELSE stream[t].pos
  BY <1>1, <1>2 DEF StreamRecord
<1>11. \A n, v : Counts(n, v)' <=> Counts(n, v)
  BY <1>1 DEF Counts, Blind, Upto
<1>12. SavesCount' /\ StreamsCount'
  <2>1. \A c \in Actors : call[c].step = "open" => call[c].stream \in Streams
    BY DEF Numbering, LoggedInv, StartsAlone
  <2> QED BY <1>1, <1>10, <1>11, <2>1 DEF SavesCount, StreamsCount, Numbering, Numbered
<1>13. LoopsCount'
  <2>1. ASSUME NEW q \in Readers, reader'[q].mode # "free"
        PROVE  /\ reader'[q].at \in Spots
               /\ reader'[q].mode = "reading" =>
                    /\ Behind(reader'[q].at) = stream'[reader'[q].of].seq
                    /\ stream'[reader'[q].of].pos = stream'[reader'[q].of].watermark
               /\ q = r \/ (reader'[q] = reader[q] /\ reader[q].of # s)
    <3>1. CASE q = r
      BY <1>2, <1>4, <1>5, <1>6, <1>9, <1>10, <3>1
    <3>2. CASE q # r
      <4>1. reader'[q] = reader[q] /\ reader[q].of \in Streams /\ reader[q].of # s
        BY <1>7, <1>9, <2>1, <3>2 DEF Numbering, LoggedInv, ReadersBelong
      <4> QED BY <1>10, <2>1, <4>1 DEF LoopsCount, Numbering, Numbered
    <3> QED BY <3>1, <3>2
  <2>2. ASSUME NEW p \in Readers, NEW q \in Readers, reader'[p].mode # "free", reader'[q].mode # "free",
               reader'[p].of = reader'[q].of
        PROVE  p = q
    <3>1. CASE p = r \/ q = r
      BY <1>6, <1>9, <2>1, <2>2, <3>1
    <3>2. CASE p # r /\ q # r
      BY <1>9, <2>2, <3>2 DEF LoopsCount, Numbering, Numbered
    <3> QED BY <3>1, <3>2
  <2> QED BY <2>1, <2>2 DEF LoopsCount, Behind
<1>14. EntriesCount'
  <2> SUFFICES ASSUME NEW t \in Streams, NEW i \in DOMAIN stream[t].chain, NEW e, e = stream[t].chain[i]
               PROVE  /\ e[2] \in Blind /\ reader'[e[1]].of = t
                      /\ live = t \/ stream[t].step # "idle" => Behind(e[2]) = stream[t].seq
    BY <1>1, <1>10 DEF EntriesCount, Behind, Blind
  <2>1. Waits(t, e) /\ e[1] \in Readers
    BY DEF Numbering, LoggedInv, ChainsBelong, EntriesWait, Types, StreamRecord
  <2>2. e[1] # r
    BY <1>1, <2>1 DEF Waits
  <2>3. reader'[e[1]] = reader[e[1]]
    BY <1>9, <2>1, <2>2
  <2> QED BY <2>3 DEF EntriesCount, Numbering, Numbered
<1>15. LedgerCounts'
  BY <1>1 DEF LedgerCounts, Behind, Numbering, Numbered
<1> QED BY <1>12, <1>13, <1>14, <1>15 DEF Numbered
------------------------------------------------------------------------------
(***************************************************************************)
(* The pipeline.                                                           *)
(***************************************************************************)

\* The head of a chain has the next sequence of its stream, and nothing waits behind it.
LEMMA HeadCounts ==
  ASSUME Numbering, NEW s \in Streams, stream[s].chain # <<>>,
         NEW r, r = Head1(s)[1], NEW c, c = Head1(s)[2]
  PROVE  /\ c \in Blind /\ c \in Changes /\ r \in Readers /\ reader[r].of = s /\ Waits(s, Head1(s))
         /\ live = s \/ stream[s].step # "idle" => Behind(c) = stream[s].seq
         /\ Tail(stream[s].chain) = <<>>
         /\ \A b \in Actors : call[b].step = "open" => call[b].stream # s
<1>1. /\ stream[s].chain \in Seq(Readers \X Places) /\ 1 \in DOMAIN stream[s].chain
      /\ Head1(s) = stream[s].chain[1] /\ r \in Readers /\ Waits(s, Head1(s))
  BY HeadOK DEF Numbering
<1>2. /\ c \in Blind /\ reader[r].of = s /\ reader[r].mode # "free"
      /\ live = s \/ stream[s].step # "idle" => Behind(c) = stream[s].seq
  BY <1>1 DEF Numbering, Numbered, EntriesCount, Waits
<1>3. ASSUME NEW i \in DOMAIN stream[s].chain PROVE i = 1
  <2> DEFINE q == stream[s].chain[i][1]
  <2>1. q \in Readers /\ reader[q].of = s /\ reader[q].mode # "free"
    <3>1. q \in Readers
      BY <1>1
    <3>2. reader[q].of = s
      BY DEF Numbering, Numbered, EntriesCount
    <3>3. Waits(s, stream[s].chain[i])
      BY DEF Numbering, LoggedInv, ChainsBelong, EntriesWait
    <3> QED BY <3>1, <3>2, <3>3 DEF Waits
  <2>2. q = r
    BY <1>1, <1>2, <2>1 DEF Numbering, Numbered, LoopsCount
  <2> QED BY <1>1, <2>2 DEF Numbering, LoggedInv, ChainsBelong, EntriesApart
<1>4. Len(stream[s].chain) = 1
  <2> DEFINE x == stream[s].chain
  <2>1. x \in Seq(Readers \X Places) /\ 1 \in DOMAIN x /\ \A i \in DOMAIN x : i = 1
    BY <1>1, <1>3
  <2> HIDE DEF x
  <2>2. Len(x) \in Nat /\ DOMAIN x = 1 .. Len(x)
    BY <2>1, LenProperties
  <2>3. Len(x) = 1
    <3>1. Len(x) >= 1 /\ Len(x) \in DOMAIN x
      BY <2>1, <2>2
    <3> QED BY <2>1, <3>1
  <2> QED BY <2>3 DEF x
<1>5. Tail(stream[s].chain) = <<>>
  BY <1>1, <1>4, EmptySeq
<1>6. \A b \in Actors : call[b].step = "open" => call[b].stream # s
  BY <1>1, <1>2 DEF Numbering, LoggedInv, StartsAlone
<1> QED BY <1>1, <1>2, <1>5, <1>6 DEF Blind

\* A change that goes on through the pipeline: the step of its stream, and its entry.
LEMMA StepCounts ==
  ASSUME Numbering, NEW s \in Streams, NEW step \in {"record", "save", "failed"}, StepTo(s, step),
         live = s \/ stream[s].step # "idle", UNCHANGED <<tip, runs, live, reader, call>>, LedgerCounts'
  PROVE  Numbered'
<1>1. \A t \in Streams : /\ stream'[t].seq = stream[t].seq /\ stream'[t].watermark = stream[t].watermark
                         /\ stream'[t].chain = stream[t].chain /\ stream'[t].pos = stream[t].pos
                         /\ t # s => stream'[t].step = stream[t].step
  <2>1. stream \in [Streams -> StreamRecord] /\ stream' = [stream EXCEPT ![s].step = step]
    BY DEF StepTo, Numbering, LoggedInv, Types
  <2> QED BY <2>1 DEF StreamRecord
<1>2. \A n, w : Counts(n, w)' <=> Counts(n, w)
  BY DEF Counts, Blind, Upto
<1>3. SavesCount' /\ StreamsCount'
  <2>1. \A c \in Actors : call[c].step = "open" => call[c].stream \in Streams
    BY DEF Numbering, LoggedInv, StartsAlone
  <2> QED BY <1>1, <1>2, <2>1 DEF SavesCount, StreamsCount, Numbering, Numbered
<1>4. LoopsCount'
  <2>1. \A q \in Readers : reader[q].mode # "free" => reader[q].of \in Streams
    BY DEF Numbering, LoggedInv, ReadersBelong
  <2> QED BY <1>1, <2>1 DEF LoopsCount, Behind, Numbering, Numbered
<1>5. EntriesCount'
  <2> SUFFICES ASSUME NEW t \in Streams, NEW i \in DOMAIN stream'[t].chain
               PROVE  /\ stream'[t].chain[i][2] \in Blind
                      /\ reader'[stream'[t].chain[i][1]].of = t
                      /\ live' = t \/ stream'[t].step # "idle" =>
                           Behind(stream'[t].chain[i][2]) = stream'[t].seq
    BY DEF EntriesCount, Behind, Blind
  <2> DEFINE e == stream'[t].chain[i]
  <2>1. e = stream[t].chain[i] /\ i \in DOMAIN stream[t].chain
    BY <1>1
  <2> HIDE DEF e
  <2>2. /\ e[2] \in Blind /\ reader[e[1]].of = t
        /\ live = t \/ stream[t].step # "idle" => Behind(e[2]) = stream[t].seq
    BY <2>1 DEF EntriesCount, Numbering, Numbered
  <2>3. live = t \/ stream'[t].step # "idle" => live = t \/ stream[t].step # "idle"
    BY <1>1
  <2> QED BY <1>1, <2>2, <2>3 DEF e
<1> QED BY <1>3, <1>4, <1>5 DEF Numbered

\* An entry carries the number of the changes before its own.
LEMMA EntryCounts ==
  ASSUME Numbering, NEW s \in Streams, stream[s].chain # <<>>, stream[s].step # "idle",
         NEW ok, Entry(s, ok)
  PROVE  /\ LedgerCounts'
         /\ \A k \in DOMAIN ledger \intersect DOMAIN ledger' : ledger'[k].change = ledger[k].change
<1> DEFINE key == <<stream[s].run, stream[s].seq>>
           c == Head1(s)[2]
<1>1. c \in Changes /\ Behind(c) = stream[s].seq
  BY HeadCounts
<1>2. key[2] = stream[s].seq
  OBVIOUS
<1>3. /\ DOMAIN ledger' = DOMAIN ledger \union {key}
      /\ ledger'[key] = [change |-> c, ok |-> ok]
      /\ \A k \in DOMAIN ledger : k # key => ledger'[k] = ledger[k]
  BY DEF Entry
<1> HIDE DEF key, c
<1>4. LedgerCounts'
  <2> SUFFICES ASSUME NEW k \in DOMAIN ledger'
               PROVE  ledger'[k].change \in Changes /\ k[2] = Behind(ledger'[k].change)
    BY DEF LedgerCounts, Behind
  <2>1. CASE k = key
    BY <1>1, <1>2, <1>3, <2>1
  <2>2. CASE k # key
    BY <1>3, <2>2 DEF LedgerCounts, Numbering, Numbered
  <2> QED BY <2>1, <2>2
<1>5. ASSUME NEW k \in DOMAIN ledger PROVE ledger'[k].change = ledger[k].change
  <2>1. CASE k = key
    <3>1. ledger[k].change \in Changes /\ Behind(ledger[k].change) = Behind(c)
      BY <1>1, <1>2, <2>1 DEF LedgerCounts, Numbering, Numbered
    <3> DEFINE d == ledger[k].change
    <3>2. d \in Changes /\ Behind(d) = Behind(c)
      BY <3>1
    <3> HIDE DEF d
    <3>3. d = c
      BY <1>1, <3>2, BehindApart
    <3> QED BY <1>3, <2>1, <3>3 DEF d
  <2>2. CASE k # key
    BY <1>3, <2>2
  <2> QED BY <2>1, <2>2
<1> QED BY <1>4, <1>5

\* A change that is done: it was dropped and counts for nobody, or counted by its stream.
LEMMA DoneCounts ==
  ASSUME Numbering, NEW s \in Streams, NEW rec, Done(s, rec), stream[s].chain # <<>>,
         \/ rec = stream[s] /\ live # s
         \/ rec = Moved(s) /\ stream[s].step # "idle",
         UNCHANGED <<tip, live, call>>, LedgerCounts',
         \A n \in DOMAIN runs' : Counts(runs'[n].offset, runs'[n].cursor)
  PROVE  Numbered'
<1> DEFINE r == Head1(s)[1]
           c == Head1(s)[2]
<1>1. /\ c \in Blind /\ c \in Changes /\ r \in Readers /\ reader[r].of = s /\ Waits(s, Head1(s))
      /\ live = s \/ stream[s].step # "idle" => Behind(c) = stream[s].seq
      /\ Tail(stream[s].chain) = <<>>
      /\ \A b \in Actors : call[b].step = "open" => call[b].stream # s
  BY HeadCounts
<1>2. stream[s] \in StreamRecord /\ Counts(stream[s].seq, stream[s].watermark)
  BY DEF Numbering, LoggedInv, Types, Numbered, StreamsCount
<1>3. Moved(s).seq = stream[s].seq + 1 /\ Moved(s).watermark = c
  BY <1>2 DEF Moved, StreamRecord
<1>4. c \in Resume
  BY HeadOK DEF Numbering, Resume
<1> HIDE DEF c, r
<1>5. Upto(c) = Behind(c) + 1 /\ Behind(After(c)) = Upto(c) /\ After(c) \in Spots
  BY <1>1, UptoNext, SpotOK
<1>6. /\ rec.seq \in Nat /\ rec.watermark \in Resume /\ Counts(rec.seq, rec.watermark)
      /\ live = s => rec.watermark = c /\ Behind(After(c)) = rec.seq
  BY <1>1, <1>2, <1>3, <1>4, <1>5 DEF StreamRecord, Counts
<1>7. /\ stream'[s].chain = <<>> /\ stream'[s].step = "idle"
      /\ stream'[s].watermark = rec.watermark /\ stream'[s].seq = rec.seq /\ stream'[s].pos = c
      /\ \A t \in Streams \ {s} : /\ stream'[t].chain = stream[t].chain /\ stream'[t].step = stream[t].step
                                  /\ stream'[t].watermark = stream[t].watermark
                                  /\ stream'[t].seq = stream[t].seq
                                  /\ stream'[t].pos = stream[t].pos
      /\ \A q \in Readers \ {r} : reader'[q] = reader[q]
      /\ reader[r].mode = "draining" => reader'[r].mode = "free"
      /\ reader[r].mode = "reading" => reader'[r].of = s /\ reader'[r].at = After(c)
      /\ reader[r].mode \in {"reading", "draining"}
  <2>1. PICK o : o = reader[r].of
    OBVIOUS
  <2>2. o = s
    BY <1>1, <2>1
  <2>3. /\ stream'[s].chain = Tail(stream[s].chain) /\ stream'[s].step = "idle"
        /\ stream'[s].watermark = rec.watermark /\ stream'[s].seq = rec.seq /\ stream'[o].pos = c
        /\ \A t \in Streams \ {s} : /\ stream'[t].chain = stream[t].chain /\ stream'[t].step = stream[t].step
                                    /\ stream'[t].watermark = stream[t].watermark
                                    /\ stream'[t].seq = stream[t].seq
        /\ \A t \in Streams : t # o => stream'[t].pos = stream[t].pos
        /\ \A q \in Readers \ {r} : reader'[q] = reader[q]
        /\ reader[r].mode = "draining" => reader'[r].mode = "free"
        /\ reader[r].mode = "reading" => reader'[r].of = o /\ reader'[r].at = After(c)
        /\ reader[r].mode \in {"reading", "draining"}
    BY <1>6, <2>1, DoneOK DEF r, c, Numbering
  <2> QED BY <1>1, <2>2, <2>3
<1>8. /\ reader[r].mode = "reading" => live = s
      /\ reader'[r].mode # "free" => reader[r].mode = "reading"
  <2>1. reader[r].mode = "reading" => live = s
    BY <1>1 DEF Waits, r
  <2> QED BY <1>7, <2>1
<1>9. \A n, w : Counts(n, w)' <=> Counts(n, w)
  BY DEF Counts, Blind, Upto
<1>10. SavesCount'
  BY <1>9 DEF SavesCount, Numbering, Numbered
<1>11. StreamsCount'
  <2>1. \A t \in Streams : Counts(stream'[t].seq, stream'[t].watermark)
    BY <1>6, <1>7 DEF Numbering, Numbered, StreamsCount
  <2>2. \A b \in Actors : call[b].step = "open" => call[b].stream \in Streams \ {s}
    BY <1>1 DEF Numbering, LoggedInv, StartsAlone
  <2> QED BY <1>7, <1>9, <2>1, <2>2 DEF StreamsCount, Numbering, Numbered
<1>12. LoopsCount'
  <2>1. ASSUME NEW q \in Readers, reader'[q].mode # "free"
        PROVE  /\ reader'[q].at \in Spots
               /\ reader'[q].mode = "reading" =>
                    /\ Behind(reader'[q].at) = stream'[reader'[q].of].seq
                    /\ stream'[reader'[q].of].pos = stream'[reader'[q].of].watermark
               /\ reader[q].mode # "free" /\ reader'[q].of = reader[q].of
    <3>1. CASE q = r
      BY <1>1, <1>5, <1>6, <1>7, <1>8, <2>1, <3>1
    <3>2. CASE q # r
      <4>1. reader'[q] = reader[q] /\ reader[q].of \in Streams
        BY <1>7, <2>1, <3>2 DEF Numbering, LoggedInv, ReadersBelong
      <4>2. reader[q].of # s
        BY <1>1, <1>7, <2>1, <3>2, <4>1 DEF LoopsCount, Numbering, Numbered
      <4> QED BY <1>7, <2>1, <4>1, <4>2 DEF LoopsCount, Numbering, Numbered
    <3> QED BY <3>1, <3>2
  <2>2. \A p, q \in Readers :
       reader'[p].mode # "free" /\ reader'[q].mode # "free" /\ reader'[p].of = reader'[q].of => p = q
    BY <2>1 DEF LoopsCount, Numbering, Numbered
  <2> QED BY <2>1, <2>2 DEF LoopsCount, Behind
<1>13. EntriesCount'
  <2> SUFFICES ASSUME NEW t \in Streams, NEW i \in DOMAIN stream'[t].chain
               PROVE  /\ stream'[t].chain[i][2] \in Blind
                      /\ reader'[stream'[t].chain[i][1]].of = t
                      /\ live' = t \/ stream'[t].step # "idle" =>
                           Behind(stream'[t].chain[i][2]) = stream'[t].seq
    BY DEF EntriesCount, Behind, Blind
  <2> DEFINE e == stream'[t].chain[i]
  <2>1. t # s
    BY <1>7
  <2>2. e = stream[t].chain[i] /\ i \in DOMAIN stream[t].chain
    BY <1>7, <2>1
  <2> HIDE DEF e
  <2>3. /\ e[1] \in Readers /\ e[2] \in Blind /\ reader[e[1]].of = t
        /\ live = t \/ stream[t].step # "idle" => Behind(e[2]) = stream[t].seq
    BY <2>2 DEF EntriesCount, Numbering, Numbered, LoggedInv, Types, StreamRecord
  <2>4. e[1] # r
    BY <1>1, <2>1, <2>3
  <2> QED BY <1>7, <2>1, <2>3, <2>4 DEF e
<1> QED BY <1>10, <1>11, <1>12, <1>13 DEF Numbered
\* The stream ends, and nothing reads on for it.
LEMMA GiveUpCounts ==
  ASSUME Numbering, NEW s \in Streams, GiveUp(s)
  PROVE  Numbered'
<1> DEFINE r == Head1(s)[1]
           c == Head1(s)[2]
           z == IF live # 0 /\ stream[live].handle THEN Stopped(live) ELSE reader
<1>1. /\ Settled /\ stream[s].chain # <<>> /\ live' = 0
      /\ reader' = [z EXCEPT ![r] = Finished(@, c)]
      /\ stream' = [stream EXCEPT ![s].chain = Tail(@), ![s].step = "idle"]
      /\ UNCHANGED <<tip, ledger, call>>
      /\ Finalize(stream[s].run, "failed") \/ UNCHANGED runs
  BY DEF GiveUp, At, source
<1>2. /\ r \in Readers /\ Tail(stream[s].chain) = <<>> /\ Waits(s, Head1(s))
      /\ stream \in [Streams -> StreamRecord] /\ reader \in [Readers -> ReaderRecord] /\ Types
  BY <1>1, HeadCounts DEF Numbering, LoggedInv, Types
<1>3. \A q \in Readers : reader'[q].mode # "reading"
  <2>1. \A b \in Actors : call'[b].step # "opened"
    BY <1>1, NothingOpens DEF Numbering
  <2>2. 0 \notin Streams
    BY CdcConstants DEF Streams
  <2> QED BY <1>1, <2>1, <2>2 DEF Numbering, LoggedInv, ReadersBelong
<1>4. /\ z \in [Readers -> ReaderRecord]
      /\ \A q \in Readers :
           z[q].mode # "free" => /\ reader[q].mode # "free" /\ z[q].of = reader[q].of /\ z[q].at = reader[q].at
  <2>1. CASE live # 0 /\ stream[live].handle
    <3>1. z = Stopped(live)
      BY <2>1
    <3> QED BY <1>2, <3>1, StoppedOK
  <2>2. CASE ~(live # 0 /\ stream[live].handle)
    BY <1>2, <2>2
  <2> QED BY <2>1, <2>2
<1>5. /\ \A q \in Readers \ {r} : reader'[q] = z[q]
      /\ reader'[r] = Finished(z[r], c)
  BY <1>1, <1>2, <1>4
<1>6. reader'[r].mode = "free"
  <2> DEFINE l == z[r]
  <2>1. l \in ReaderRecord /\ reader'[r] = Finished(l, c) /\ engine = "mongodb"
    BY <1>2, <1>4, <1>5 DEF Numbering
  <2> HIDE DEF l, c
  <2>2. CASE l.mode = "free"
    BY <2>1, <2>2 DEF Finished
  <2>3. CASE l.mode = "draining"
    BY <2>1, <2>3 DEF Finished, NoReader
  <2>4. CASE l.mode = "reading"
    <3>1. Finished(l, c) = [[l EXCEPT !.out = @ \ {c}] EXCEPT !.at = After(c)]
      BY <2>1, <2>4 DEF Finished
    <3>2. Finished(l, c).mode = "reading"
      BY <2>1, <2>4, <3>1 DEF ReaderRecord
    <3> QED BY <1>2, <1>3, <2>1, <3>2
  <2> QED BY <2>1, <2>2, <2>3, <2>4 DEF ReaderRecord
<1> HIDE DEF r, c, z
<1>7. \A q \in Readers : reader'[q].mode # "free" =>
        /\ q # r /\ reader[q].mode # "free" /\ reader'[q].of = reader[q].of /\ reader'[q].at = reader[q].at
  BY <1>4, <1>5, <1>6
<1>8. \A t \in Streams : /\ stream'[t].seq = stream[t].seq /\ stream'[t].watermark = stream[t].watermark
                         /\ t # s => stream'[t].chain = stream[t].chain /\ stream'[t].step = stream[t].step
                         /\ t = s => stream'[t].chain = <<>>
  <2>1. /\ stream'[s] = [stream[s] EXCEPT !.chain = Tail(@), !.step = "idle"]
        /\ \A t \in Streams \ {s} : stream'[t] = stream[t]
    BY <1>1, <1>2
  <2>2. stream[s] \in StreamRecord
    BY <1>2
  <2> QED BY <1>2, <2>1, <2>2 DEF StreamRecord
<1>9. \A n, w : Counts(n, w)' <=> Counts(n, w)
  BY <1>1 DEF Counts, Blind, Upto
<1>10. SavesCount' /\ StreamsCount'
  <2>1. \A n \in DOMAIN runs' : Counts(runs'[n].offset, runs'[n].cursor)
    BY <1>1, FinalizeCounts
  <2>2. \A b \in Actors : call[b].step = "open" => call[b].stream \in Streams
    BY DEF Numbering, LoggedInv, StartsAlone
  <2> QED BY <1>1, <1>8, <1>9, <2>1, <2>2 DEF SavesCount, StreamsCount, Numbering, Numbered
<1>11. LoopsCount'
  BY <1>3, <1>7 DEF LoopsCount, Numbering, Numbered
<1>12. EntriesCount'
  <2> SUFFICES ASSUME NEW t \in Streams, NEW i \in DOMAIN stream'[t].chain
               PROVE  /\ stream'[t].chain[i][2] \in Blind
                      /\ reader'[stream'[t].chain[i][1]].of = t
                      /\ live' = t \/ stream'[t].step # "idle" =>
                           Behind(stream'[t].chain[i][2]) = stream'[t].seq
    <3>1. Blind' = Blind
      BY <1>1 DEF Blind
    <3> QED BY <3>1 DEF EntriesCount, Behind
  <2>0. PICK e : e = stream'[t].chain[i]
    OBVIOUS
  <2>1. t # s
    BY <1>8
  <2>2. /\ e = stream[t].chain[i] /\ i \in DOMAIN stream[t].chain
        /\ e[2] \in Blind /\ reader[e[1]].of = t
        /\ stream[t].step # "idle" => Behind(e[2]) = stream[t].seq
    <3>1. e = stream[t].chain[i] /\ i \in DOMAIN stream[t].chain
      BY <1>8, <2>0, <2>1
    <3> QED BY <3>1 DEF EntriesCount, Numbering, Numbered
  <2>3. Waits(t, e)' /\ e[1] \in Readers
    <3>1. EntriesWait'
      BY DEF Numbering, LoggedInv, ChainsBelong
    <3>2. Waits(t, stream[t].chain[i])'
      BY <3>1 DEF EntriesWait
    <3>3. e[1] \in Readers
      BY <2>2 DEF Numbering, LoggedInv, Types, StreamRecord
    <3> QED BY <2>0, <3>2, <3>3 DEF Waits
  <2>4. live' # t
    BY <1>1, CdcConstants DEF Streams
  <2>5. reader'[e[1]].of = t
    <3>1. reader'[e[1]].mode # "free"
      BY <2>3 DEF Waits
    <3> QED BY <1>7, <2>2, <2>3, <3>1
  <2> QED BY <1>8, <2>0, <2>1, <2>2, <2>4, <2>5
<1>13. LedgerCounts'
  BY <1>1 DEF LedgerCounts, Behind, Numbering, Numbered
<1> QED BY <1>10, <1>11, <1>12, <1>13 DEF Numbered

\* What the pipeline does to a change, and to its entry.
LEMMA PipelineCounts ==
  ASSUME Numbering, NEW s \in Streams, PipelineNext(s)
  PROVE  /\ Numbered'
         /\ \A k \in DOMAIN ledger \intersect DOMAIN ledger' : ledger'[k].change = ledger[k].change
<1>1. LedgerCounts /\ UNCHANGED ledger => LedgerCounts'
  BY DEF LedgerCounts, Behind
<1>2. LedgerCounts
  BY DEF Numbering, Numbered
<1>3. stream[s] \in StreamRecord
  BY DEF Numbering, LoggedInv, Types
<1>4. CASE Drop(s)
  <2>1. /\ stream[s].chain # <<>> /\ Done(s, stream[s]) /\ UNCHANGED <<tip, live, call, runs, ledger>>
        /\ live # s
    <3>1. CursorAfter(Head1(s)[2], stream[s].watermark)
      BY DEF CursorAfter, Numbering
    <3> QED BY <1>4, <3>1 DEF Drop, At, source, database
  <2>2. \A n \in DOMAIN runs' : Counts(runs'[n].offset, runs'[n].cursor)
    BY <2>1 DEF Numbering, Numbered, SavesCount
  <2> QED BY <1>1, <1>2, <2>1, <2>2, DoneCounts
<1>5. CASE Deliver(s)
  <2>1. live = s /\ StepTo(s, "record") /\ UNCHANGED <<tip, live, call, runs, ledger, reader>>
    BY <1>5 DEF Deliver, source, database
  <2> QED BY <1>1, <1>2, <2>1, StepCounts
<1>6. CASE Throws(s)
  <2>1. /\ live = s \/ stream[s].step # "idle"
        /\ StepTo(s, "failed") /\ UNCHANGED <<tip, live, call, runs, ledger, reader>>
    BY <1>6 DEF Throws, source, database
  <2> QED BY <1>1, <1>2, <2>1, StepCounts
<1>7. CASE Record(s)
  <2>1. /\ stream[s].step # "idle" /\ stream[s].chain # <<>> /\ Entry(s, TRUE)
        /\ StepTo(s, "save") /\ UNCHANGED <<tip, live, call, runs, reader>>
    BY <1>7 DEF Record, At, source
  <2>2. /\ LedgerCounts'
        /\ \A k \in DOMAIN ledger \intersect DOMAIN ledger' : ledger'[k].change = ledger[k].change
    BY <2>1, EntryCounts
  <2> QED BY <2>1, <2>2, StepCounts
<1>8. CASE RecordFailure(s)
  <2>1. /\ stream[s].step # "idle" /\ stream[s].chain # <<>> /\ Entry(s, FALSE)
        /\ Done(s, Moved(s)) /\ UNCHANGED <<tip, live, call, runs>>
    BY <1>8 DEF RecordFailure, At, source
  <2>2. /\ LedgerCounts'
        /\ \A k \in DOMAIN ledger \intersect DOMAIN ledger' : ledger'[k].change = ledger[k].change
    BY <2>1, EntryCounts
  <2>3. \A n \in DOMAIN runs' : Counts(runs'[n].offset, runs'[n].cursor)
    BY <2>1 DEF Numbering, Numbered, SavesCount
  <2> QED BY <2>1, <2>2, <2>3, DoneCounts
<1>9. CASE Save(s)
  <2> DEFINE n == stream[s].run
             c == Head1(s)[2]
             q == stream[s].seq + 1
  <2>1. /\ stream[s].step # "idle" /\ stream[s].chain # <<>> /\ Done(s, Moved(s))
        /\ runs' = [runs EXCEPT ![n].offset = q, ![n].cursor = c]
        /\ UNCHANGED <<tip, live, call, ledger>>
    BY <1>9 DEF Save, At, source
  <2>2. Counts(q, c)
    <3>1. c \in Blind /\ c \in Changes /\ Behind(c) = stream[s].seq
      BY <2>1, HeadCounts
    <3> HIDE DEF c
    <3> QED BY <3>1, UptoNext DEF Counts
  <2> HIDE DEF n, c, q
  <2>3. \A m \in DOMAIN runs' : Counts(runs'[m].offset, runs'[m].cursor)
    <3>1. runs \in Seq(RunRecord) /\ \A m \in DOMAIN runs : Counts(runs[m].offset, runs[m].cursor)
      BY DEF Numbering, LoggedInv, Types, Numbered, SavesCount
    <3>2. /\ DOMAIN runs' = DOMAIN runs
          /\ \A m \in DOMAIN runs : /\ runs[m] \in RunRecord
                                    /\ m # n => runs'[m] = runs[m]
      BY <2>1, <3>1
    <3>3. ASSUME NEW m \in DOMAIN runs, m = n PROVE runs'[m].offset = q /\ runs'[m].cursor = c
      BY <2>1, <3>2, <3>3 DEF RunRecord
    <3> QED BY <2>2, <3>1, <3>2, <3>3
  <2> QED BY <1>1, <1>2, <2>1, <2>3, DoneCounts
<1>10. CASE GiveUp(s)
  <2>1. UNCHANGED ledger
    BY <1>10 DEF GiveUp
  <2> QED BY <1>10, <2>1, GiveUpCounts
<1> QED BY <1>4, <1>5, <1>6, <1>7, <1>8, <1>9, <1>10 DEF PipelineNext

\* Every step keeps the numbers, and no entry gets another change.
LEMMA NumbersNext ==
  ASSUME Orderly, Numbering, SlotIsPostgres, [Next]_vars
  PROVE  /\ Numbered'
         /\ \A k \in DOMAIN ledger \intersect DOMAIN ledger' : ledger'[k].change = ledger[k].change
<1>1. ASSUME NEW s \in Streams, PipelineNext(s)
      PROVE  /\ Numbered'
             /\ \A k \in DOMAIN ledger \intersect DOMAIN ledger' : ledger'[k].change = ledger[k].change
  BY <1>1, PipelineCounts
<1>2. ASSUME NEW c \in Actors, RequestNext(c)
      PROVE  Numbered' /\ (UNCHANGED ledger \/ ledger' = <<>>)
  <2>1. Numbered'
    BY <1>2, QuietRequests, RegisterCounts, OpenCounts, EndCounts DEF RequestNext
  <2>2. UNCHANGED ledger \/ ledger' = <<>>
    BY <1>2 DEF RequestNext, AskStart, Provision, UpdateRun, CheckStream, Register, OpenStream, OpenFails,
                AfterOpen, AskStop, FindRun, PauseRun, Restart, Deprovision, DeleteHook, database
  <2> QED BY <2>1, <2>2
<1>3. ASSUME NEW r \in Readers, ReaderNext(r) PROVE Numbered' /\ UNCHANGED ledger
  <2>1. OnOplogEntry(r) \/ Rewatch(r)
    BY <1>3 DEF ReaderNext, OnWalRecord, OnBinlogEvent, OnNotification, Acknowledge, Resubscribe,
                RestartInstance, Reconnect, BuildRow, Numbering
  <2>2. CASE OnOplogEntry(r)
    <3>1. UNCHANGED <<tip, runs, ledger, live, call>> /\ (HandsOver(r) \/ (PassesOver(r) /\ UNCHANGED stream))
      BY <2>2 DEF OnOplogEntry, ReadsOn, source, database
    <3> QED BY <3>1, HandsOverCounts, PassesOverCounts
  <2>3. CASE Rewatch(r)
    <3>1. UNCHANGED ledger
      BY <2>3 DEF Rewatch, Reopens, database
    <3> QED BY <2>3, <3>1, RewatchCounts
  <2> QED BY <2>1, <2>2, <2>3
<1>4. CASE Commit \/ Crash \/ Boot
  <2>1. UNCHANGED ledger
    BY <1>4 DEF Commit, Crash, Boot, database
  <2> QED BY <1>4, <2>1, SourceCounts, CrashCounts
<1>5. CASE UNCHANGED vars
  <2>1. UNCHANGED <<tip, runs, ledger, live, call, stream, reader>>
    BY <1>5 DEF vars, source, database, memory
  <2>2. Numbered'
    <3>1. \A n, w : Counts(n, w)' <=> Counts(n, w)
      BY <2>1 DEF Counts, Blind, Upto
    <3>2. SavesCount' /\ StreamsCount'
      BY <2>1, <3>1 DEF Numbering, Numbered, SavesCount, StreamsCount
    <3>3. LoopsCount' /\ LedgerCounts'
      BY <2>1 DEF Numbering, Numbered, LoopsCount, LedgerCounts, Behind
    <3>4. EntriesCount'
      BY <2>1 DEF Numbering, Numbered, EntriesCount, Behind, Blind
    <3> QED BY <3>2, <3>3, <3>4 DEF Numbered
  <2> QED BY <2>1, <2>2
<1> QED BY <1>1, <1>2, <1>3, <1>4, <1>5 DEF Next
------------------------------------------------------------------------------
(***************************************************************************)
(* A stream that nobody interrupts takes each sequence once.               *)
(***************************************************************************)

\* The entries there are lie below the sequence of the live stream, or at it, once its
\* change has been recorded.
Fresh ==
  \A k \in DOMAIN ledger :
    /\ live # 0
    /\ k[2] \in 0 .. stream[live].seq - 1 \/ (k[2] = stream[live].seq /\ stream[live].step = "save")

\* Steps that neither count nor record.
LEMMA FreshStays ==
  ASSUME Unstopped, Fresh, live' = live, ledger' = ledger,
         \A s \in Streams : stream'[s].seq = stream[s].seq /\ stream'[s].step = stream[s].step
  PROVE  Fresh'
<1>1. live # 0 => live \in Streams
  BY DEF Unstopped, LoggedInv, Types
<1> QED BY <1>1 DEF Fresh

\* A request goes on only with a start, and registers a stream only where nothing was
\* recorded.
LEMMA FreshRequests ==
  ASSUME Unstopped, Fresh, stops' = 0, interrupts' = 0, NEW c \in Actors, RequestNext(c)
  PROVE  Fresh' /\ UNCHANGED ledger
<1>0. stream \in [Streams -> StreamRecord]
  BY DEF Unstopped, LoggedInv, Types
<1>1. CASE AskStart(c) \/ Provision(c) \/ UpdateRun(c) \/ CheckStream(c)
  <2>1. UNCHANGED <<live, stream, ledger>>
    BY <1>1 DEF AskStart, Provision, UpdateRun, CheckStream, database, memory
  <2> QED BY <2>1, FreshStays
<1>2. CASE Register(c)
  <2>1. UNCHANGED ledger /\ call[c].step = "register"
    BY <1>2 DEF Register, Resumes, database
  <2>2. DOMAIN ledger = {}
    BY <2>1 DEF Unstopped, LoggedInv, StartsAlone, Fresh
  <2> QED BY <2>1, <2>2 DEF Fresh
<1>3. CASE OpenStream(c)
  <2>1. UNCHANGED <<live, ledger>> /\ stream' = [stream EXCEPT ![call[c].stream].pos = call[c].cursor]
    BY <1>3 DEF OpenStream, database
  <2>2. ASSUME NEW s \in Streams PROVE stream'[s].seq = stream[s].seq /\ stream'[s].step = stream[s].step
    <3>1. PICK t, w : stream' = [stream EXCEPT ![t].pos = w]
      BY <2>1
    <3>2. stream'[s] = stream[s] \/ stream'[s] = [stream[s] EXCEPT !.pos = w]
      BY <1>0, <3>1
    <3>3. stream[s] \in StreamRecord
      BY <1>0
    <3> QED BY <3>2, <3>3 DEF StreamRecord
  <2> QED BY <2>1, <2>2, FreshStays
<1>4. CASE AfterOpen(c)
  <2>1. UNCHANGED <<live, ledger>> /\ (stream' = stream \/ stream' = [stream EXCEPT ![live].handle = TRUE])
    BY <1>4 DEF AfterOpen, database
  <2>2. ASSUME NEW s \in Streams PROVE stream'[s].seq = stream[s].seq /\ stream'[s].step = stream[s].step
    <3>1. stream'[s] = stream[s] \/ stream'[s] = [stream[s] EXCEPT !.handle = TRUE]
      BY <1>0, <2>1
    <3>2. stream[s] \in StreamRecord
      BY <1>0
    <3> QED BY <3>1, <3>2 DEF StreamRecord
  <2> QED BY <2>1, <2>2, FreshStays
<1>5. ~OpenFails(c)
  BY DEF OpenFails, Unstopped, HistoryTypes
<1> QED BY <1>1, <1>2, <1>3, <1>4, <1>5, NobodyStops DEF RequestNext

\* A loop counts nothing.
LEMMA FreshLoops ==
  ASSUME Unstopped, Fresh, SlotIsPostgres, NEW r \in Readers, ReaderNext(r)
  PROVE  Fresh' /\ UNCHANGED ledger
<1>1. UNCHANGED <<live, ledger>>
  BY DEF ReaderNext, OnWalRecord, OnBinlogEvent, OnOplogEntry, OnNotification, ReadsOn, Acknowledge,
         Resubscribe, RestartInstance, Rewatch, Reconnect, Reopens, BuildRow, database, memory
<1>2. \A s \in Streams : stream'[s].seq = stream[s].seq /\ stream'[s].step = stream[s].step
  <2>1. CASE HandsOver(r)
    BY <2>1, HandsOverOK DEF Unstopped
  <2>2. ASSUME NEW w, Reopens(r, w)
        PROVE  \A s \in Streams : stream'[s].seq = stream[s].seq /\ stream'[s].step = stream[s].step
    <3>1. stream \in [Streams -> StreamRecord] /\ stream' = [stream EXCEPT ![reader[r].of].pos = w]
      BY <2>2 DEF Reopens, Unstopped, LoggedInv, Types
    <3> QED BY <3>1 DEF StreamRecord
  <2>3. HandsOver(r) \/ UNCHANGED stream \/ \E w : Reopens(r, w)
    BY DEF ReaderNext, OnWalRecord, OnBinlogEvent, OnOplogEntry, OnNotification, Acknowledge,
           Resubscribe, RestartInstance, Rewatch, Reconnect, BuildRow, memory, Unstopped, Logged
  <2> QED BY <2>1, <2>2, <2>3
<1> QED BY <1>1, <1>2, FreshStays

\* The pipeline records the change of the live stream under a sequence of its own.
LEMMA FreshPipeline ==
  ASSUME Unstopped, Fresh, stops' = 0, interrupts = 0, interrupts' = 0, NEW s \in Streams, PipelineNext(s)
  PROVE  /\ Fresh'
         /\ \A k \in DOMAIN ledger \intersect DOMAIN ledger' : ledger'[k].change = ledger[k].change
<1>1. /\ stream \in [Streams -> StreamRecord] /\ stream[s] \in StreamRecord /\ stream[s].seq \in Nat
      /\ live \in {0} \union Streams /\ ~removed /\ s # 0
      /\ stream[s].step # "idle" => s = live
  <2>1. stream \in [Streams -> StreamRecord] /\ stream[s] \in StreamRecord /\ live \in {0} \union Streams
    BY DEF Unstopped, LoggedInv, Types
  <2>2. stream[s].seq \in Nat
    BY <2>1 DEF StreamRecord
  <2>3. ~removed
    BY DEF Unstopped, Paid, OnlyStarts
  <2>4. s # 0 /\ (stream[s].step # "idle" => s = live)
    BY CdcConstants DEF Unstopped, Paid, OnlyStarts, Streams
  <2> QED BY <2>1, <2>2, <2>3, <2>4
<1>2. stream[s].step # "failed"
  <2>1. Repeats + Cardinality(Again) + Failing <= 0
    BY DEF Unstopped, Paid, Counted
  <2>2. Failing = 0
    BY <2>1, AgainOK DEF Unstopped
  <2> QED BY <1>1, <2>2 DEF Failing
<1>3. ~Throws(s) /\ ~RecordFailure(s) /\ ~GiveUp(s)
  <2>1. ~RecordFailure(s) /\ ~GiveUp(s)
    BY <1>2 DEF RecordFailure, GiveUp, At
  <2>2. Throws(s) => interrupts' = interrupts + 1
    BY <1>1 DEF Throws
  <2> QED BY <2>1, <2>2
<1>4. CASE Drop(s)
  <2>1. /\ stream[s].step = "idle" /\ stream[s].chain # <<>> /\ Done(s, stream[s])
        /\ UNCHANGED <<live, ledger>> /\ stream[s].watermark \in Resume
    BY <1>1, <1>4 DEF Drop, At, database, StreamRecord
  <2>2. \A t \in Streams : stream'[t].seq = stream[t].seq /\ stream'[t].step = stream[t].step
    BY <1>1, <2>1, DoneOK DEF Unstopped
  <2> QED BY <2>1, <2>2, FreshStays
<1>5. ASSUME NEW step \in {"record", "save"}, StepTo(s, step)
      PROVE  /\ \A t \in Streams : /\ stream'[t].seq = stream[t].seq
                                   /\ t # s => stream'[t].step = stream[t].step
             /\ stream'[s].step = step
  BY <1>1, <1>5 DEF StepTo, StreamRecord
<1>6. CASE Deliver(s)
  <2>1. stream[s].step = "idle" /\ live = s /\ StepTo(s, "record") /\ UNCHANGED <<live, ledger>>
    BY <1>6 DEF Deliver, At, database
  <2> QED BY <1>5, <2>1 DEF Fresh
<1>7. CASE Record(s)
  <2> DEFINE key == <<stream[s].run, stream[s].seq>>
  <2>1. /\ stream[s].step = "record" /\ live = s /\ StepTo(s, "save") /\ UNCHANGED live
        /\ DOMAIN ledger' = DOMAIN ledger \union {key}
        /\ \A k \in DOMAIN ledger : k # key => ledger'[k] = ledger[k]
    BY <1>1, <1>7 DEF Record, At, Entry
  <2>2. key[2] = stream[s].seq
    OBVIOUS
  <2> HIDE DEF key
  <2>3. key \notin DOMAIN ledger
    BY <1>1, <2>1, <2>2 DEF Fresh
  <2>4. Fresh'
    BY <1>1, <1>5, <2>1, <2>2 DEF Fresh
  <2> QED BY <2>1, <2>3, <2>4
<1>8. CASE Save(s)
  <2>1. /\ stream[s].step = "save" /\ live = s /\ stream[s].chain # <<>> /\ Done(s, Moved(s))
        /\ UNCHANGED <<live, ledger>>
    BY <1>1, <1>8 DEF Save, At
  <2>2. /\ Moved(s).seq = stream[s].seq + 1 /\ Moved(s).seq \in Nat /\ Moved(s).watermark \in Resume
    <3>1. Head1(s)[2] \in Resume
      BY <2>1, HeadOK DEF Unstopped, Resume
    <3> QED BY <1>1, <3>1 DEF Moved, StreamRecord
  <2>3. stream'[s].seq = stream[s].seq + 1
    BY <2>1, <2>2, DoneOK DEF Unstopped
  <2>4. Fresh'
    BY <1>1, <2>1, <2>3 DEF Fresh
  <2> QED BY <2>1, <2>4
<1> QED BY <1>3, <1>4, <1>6, <1>7, <1>8 DEF PipelineNext

\* Every step of a stream that nobody interrupts.
LEMMA FreshNext ==
  ASSUME Unstopped, Fresh, SlotIsPostgres, stops' = 0, interrupts = 0, interrupts' = 0, [Next]_vars
  PROVE  /\ Fresh'
         /\ \A k \in DOMAIN ledger \intersect DOMAIN ledger' : ledger'[k].change = ledger[k].change
<1>1. CASE Commit \/ Boot \/ UNCHANGED vars
  <2>1. UNCHANGED <<live, stream, ledger>>
    BY <1>1 DEF Commit, Boot, vars, database, memory
  <2> QED BY <2>1, FreshStays
<1>2. ~Crash
  BY DEF Crash
<1> QED BY <1>1, <1>2, FreshRequests, FreshLoops, FreshPipeline DEF Next
------------------------------------------------------------------------------
(***************************************************************************)
(* The invariant of the sequences, and the theorem.                        *)
(***************************************************************************)

NamesInv ==
  /\ stops = 0 /\ interrupts = 0 => Fresh
  /\ engine = "mongodb" /\ missed.tip = {} => Numbered

\* Once a stream has opened past a change, it has.
LEMMA MissedStays ==
  ASSUME Types, [Next]_vars, missed'.tip = {}
  PROVE  missed.tip = {}
<1> DEFINE Grows == missed' = missed \/ \E S : missed' = [missed EXCEPT !.tip = @ \union S]
                    \/ \E T : missed' = [missed EXCEPT !.event = @ \union T]
<1>1. ASSUME Grows PROVE missed.tip = {}
  BY <1>1 DEF Types
<1>2. ASSUME NEW w, missed' = Missing(w) PROVE Grows
  BY <1>2 DEF Missing
<1>3. Provisioned => Grows
  BY DEF Provisioned
<1>4. UNCHANGED missed => Grows
  OBVIOUS
<1>5. ASSUME NEW c \in Actors, RequestNext(c) PROVE Grows
  <2>1. OpenStream(c) \/ Provision(c) \/ UNCHANGED missed
    BY <1>5 DEF RequestNext, AskStart, UpdateRun, CheckStream, Register, OpenFails, AfterOpen, AskStop,
                FindRun, PauseRun, Restart, Deprovision, DeleteHook, history
  <2>2. OpenStream(c) => missed' = Missing(call[c].cursor)
    BY DEF OpenStream
  <2>3. Provision(c) => Provisioned
    BY DEF Provision
  <2> HIDE DEF Grows
  <2> QED BY <1>2, <1>3, <1>4, <2>1, <2>2, <2>3
<1>6. ASSUME NEW r \in Readers, ReaderNext(r) PROVE Grows
  <2>1. UNCHANGED missed \/ \E w : missed' = Missing(w)
    BY <1>6 DEF ReaderNext, OnWalRecord, OnBinlogEvent, OnOplogEntry, OnNotification, ReadsOn, Acknowledge,
                Resubscribe, RestartInstance, Rewatch, Reconnect, Reopens, BuildRow, history
  <2> HIDE DEF Grows
  <2> QED BY <1>2, <1>4, <2>1
<1>7. ASSUME NEW s \in Streams, PipelineNext(s) PROVE Grows
  <2>1. UNCHANGED missed \/ missed' = CutIn(s)
    <3>1. Drop(s) => missed' = CutIn(s)
      BY DEF Drop
    <3>2. Deliver(s) \/ Throws(s) \/ Record(s) => UNCHANGED missed
      BY DEF Deliver, Throws, Record
    <3>3. RecordFailure(s) => UNCHANGED missed
      BY DEF RecordFailure
    <3>4. Save(s) => UNCHANGED missed
      BY DEF Save, history
    <3>5. GiveUp(s) => UNCHANGED missed
      BY DEF GiveUp
    <3> QED BY <1>7, <3>1, <3>2, <3>3, <3>4, <3>5 DEF PipelineNext
  <2>2. CutIn(s) = missed \/ CutIn(s) = [missed EXCEPT !.event = @ \union {Head1(s)[2]}]
    BY DEF CutIn
  <2> QED BY <2>1, <2>2
<1>8. Commit \/ Crash => UNCHANGED missed
  BY DEF Commit, Crash, history
<1>9. Boot => UNCHANGED missed \/ Provisioned
  BY DEF Boot
<1>10. UNCHANGED vars => UNCHANGED missed
  BY DEF vars, history
<1> HIDE DEF Grows
<1> QED BY <1>1, <1>3, <1>4, <1>5, <1>6, <1>7, <1>8, <1>9, <1>10 DEF Next

\* Nothing has been counted.
LEMMA NamesInit ==
  ASSUME Init
  PROVE  NamesInv
<1>1. /\ ledger = <<>> /\ runs = <<>> /\ call = [c \in Actors |-> Idle]
      /\ stream = [s \in Streams |-> NoStream] /\ reader = [r \in Readers |-> NoReader]
  BY DEF Init
<1>2. Fresh /\ LedgerCounts
  BY <1>1 DEF Fresh, LedgerCounts
<1>3. SavesCount /\ StreamsCount
  <2>1. /\ Idle.offset = 0 /\ Idle.cursor = None /\ Idle.step = "idle"
        /\ NoStream.seq = 0 /\ NoStream.watermark = None
    BY DEF Idle, NoStream
  <2>2. /\ \A c \in Actors : call[c] = Idle
        /\ \A s \in Streams : stream[s] = NoStream
        /\ DOMAIN runs = {}
    BY <1>1
  <2> QED BY <2>1, <2>2, CountsNone DEF SavesCount, StreamsCount
<1>4. LoopsCount /\ EntriesCount
  BY <1>1 DEF LoopsCount, EntriesCount, NoReader, NoStream
<1> QED BY <1>2, <1>3, <1>4 DEF NamesInv, Numbered

\* Every step keeps it, and names no change anew that it should not.
LEMMA NamesNext ==
  ASSUME Orderly, CdcInv, CdcInv', "redis" \notin Engines, RepeatInv, RepeatInv', NamesInv, [Next]_vars
  PROVE  /\ NamesInv'
         /\ [\A k \in DOMAIN ledger \intersect DOMAIN ledger' :
               ledger'[k].change # ledger[k].change =>
                 stops + interrupts > 0 /\ (engine = "mongodb" => missed.tip # {})]_vars
<1>1. Logged /\ LoggedInv /\ LoggedInv' /\ SlotIsPostgres /\ engine' = engine
  <2>1. Logged /\ engine' = engine
    BY SlotStays, CdcConstants DEF CdcInv, Orderly, Logged
  <2> QED BY <2>1 DEF CdcInv, Logged
<1>2. HistoryTypes' /\ (stops' = 0 => stops = 0) /\ (interrupts' = 0 => interrupts = 0)
  BY HistoryMoves DEF RepeatInv
<1>3. stops \in Nat /\ interrupts \in Nat
  BY DEF RepeatInv, HistoryTypes
<1>4. ASSUME stops' = 0, interrupts' = 0 PROVE Fresh'
  <2>1. Unstopped /\ Fresh /\ interrupts = 0
    BY <1>1, <1>2, <1>4 DEF Unstopped, RepeatInv, NamesInv
  <2> QED BY <1>1, <1>4, <2>1, FreshNext
<1>5. ASSUME engine = "mongodb", missed'.tip = {} PROVE Numbered'
  <2>1. missed.tip = {}
    BY <1>1, <1>5, MissedStays DEF LoggedInv
  <2>2. Numbering
    BY <1>1, <1>5, <2>1 DEF Numbering, NamesInv
  <2> QED BY <1>1, <2>2, NumbersNext
<1>6. NamesInv'
  BY <1>1, <1>4, <1>5 DEF NamesInv
<1>7. ASSUME Next, NEW k \in DOMAIN ledger \intersect DOMAIN ledger', ledger'[k].change # ledger[k].change
      PROVE  stops + interrupts > 0 /\ (engine = "mongodb" => missed.tip # {})
  <2>1. PICK s \in Streams : Record(s) \/ RecordFailure(s)
    <3>1. ASSUME NEW c \in Actors, RequestNext(c) PROVE UNCHANGED ledger \/ ledger' = <<>>
      BY <3>1 DEF RequestNext, AskStart, Provision, UpdateRun, CheckStream, Register, OpenStream, OpenFails,
                  AfterOpen, AskStop, FindRun, PauseRun, Restart, Deprovision, DeleteHook, database
    <3>2. ASSUME NEW r \in Readers, ReaderNext(r) PROVE UNCHANGED ledger
      BY <3>2 DEF ReaderNext, OnWalRecord, OnBinlogEvent, OnOplogEntry, OnNotification, ReadsOn, Acknowledge,
                  Resubscribe, RestartInstance, Rewatch, Reconnect, Reopens, BuildRow, database
    <3>3. Commit \/ Crash \/ Boot => UNCHANGED ledger
      BY DEF Commit, Crash, Boot, database
    <3>4. PICK s \in Streams : PipelineNext(s)
      BY <1>7, <3>1, <3>2, <3>3 DEF Next
    <3>5. Record(s) \/ RecordFailure(s)
      BY <1>7, <3>4 DEF PipelineNext, Drop, Deliver, Save, Throws, GiveUp, database
    <3> QED BY <3>5
  <2>2. CASE ~(stops + interrupts > 0)
    <3>1. stops = 0 /\ interrupts = 0
      BY <1>3, <2>2
    <3>2. Unstopped /\ Fresh
      BY <1>1, <1>2, <3>1 DEF Unstopped, RepeatInv, NamesInv
    <3>3. UNCHANGED <<stops, interrupts>>
      BY <2>1 DEF Record, RecordFailure
    <3> QED BY <1>1, <1>7, <3>1, <3>2, <3>3, FreshNext
  <2>3. CASE engine = "mongodb" /\ missed.tip = {}
    <3>1. missed' = missed
      BY <2>1 DEF Record, RecordFailure
    <3>2. Numbering
      BY <1>1, <2>3, <3>1 DEF Numbering, NamesInv
    <3> QED BY <1>1, <1>7, <3>2, NumbersNext
  <2> QED BY <2>2, <2>3
<1> QED BY <1>6, <1>7 DEF vars, database

\* The ledger follows the log, whatever its rows, the streams, crashes and failures: the
\* changes take their entries in its order; as long as nothing stops, crashes or fails,
\* none takes the sequence of another, on PostgreSQL and MongoDB; and on MongoDB none ever
\* does, unless a stream has opened without a token at a log that had changes in it
\* (HookCdcService.processChange, recordDelivery's upsert by run and sequence, beginStream).
THEOREM LogIsFollowed == Orderly /\ "redis" \notin Engines /\ Spec => LedgerFollowsLog
<1> SUFFICES ASSUME Orderly, "redis" \notin Engines PROVE Spec => LedgerFollowsLog
  OBVIOUS
<1>1. Spec => []CdcInv
  BY InvHolds
<1>2. Init => RepeatInv /\ NamesInv
  BY RepeatInit, NamesInit
<1>3. RepeatInv /\ CdcInv /\ CdcInv' /\ [Next]_vars => RepeatInv'
  BY RepeatNext
<1>4. RepeatInv /\ RepeatInv' /\ NamesInv /\ CdcInv /\ CdcInv' /\ [Next]_vars =>
        /\ NamesInv'
        /\ [\A k \in DOMAIN ledger \intersect DOMAIN ledger' :
              ledger'[k].change # ledger[k].change =>
                stops + interrupts > 0 /\ (engine = "mongodb" => missed.tip # {})]_vars
  BY NamesNext
<1>5. Spec => SequenceNamesChange
  BY <1>1, <1>2, <1>3, <1>4, PTL DEF Spec, SequenceNamesChange
<1>6. Spec => InOrder
  BY EntriesInOrder
<1> QED BY <1>5, <1>6 DEF LedgerFollowsLog
=============================================================================
