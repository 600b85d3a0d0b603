--------------------------- MODULE ReplayRun_proofs --------------------------
(***************************************************************************)
(* Theorems about ReplayRun, for every source size, every set of requests,  *)
(* every fault and every number of calls and crashes.                       *)
(***************************************************************************)
EXTENDS ReplayRun, FiniteSetTheorems, WellFoundedInduction, TLAPS

\* What the steps under way say about the worker's and the requests' variables.
StepsOK ==
  /\ cursor <= NumRows
  /\ worker.next <= NumRows
  /\ worker.step \in {"deliver", "read", "record", "advance"} => worker.next < NumRows
  /\ worker.step \in {"read", "record"} => worker.outcome \in Outcome
  /\ worker.step = "finalize" => worker.outcome \in Terminal
  /\ \A c \in Callers : call[c].step \in {"read", "record"} => call[c].outcome \in Outcome

TypeInv == TypeOK /\ StepsOK

B == AnyConfig.batch
OneBatchSize == \A c \in Configs : c.batch = B

\* Every recorded entry accounts for the rows of its batch.
EntriesFit ==
  \A s \in Seqs, r \in 0 .. NumRows - 1 :
    (/\ Recorded(ledger, s)
     /\ s * B <= r
     /\ r < s * B + B)
      => (/\ ledger[s].rowIndex <= r
          /\ r < ledger[s].rowIndex + ledger[s].rowCount)

Aligned(n)      == n < NumRows => B * (n \div B) = n
CoveredBelow(n) == \A r \in 0 .. n - 1 : Covered(ledger, r)

Executing == {"mark", "open", "stream", "ready", "deliver", "read", "record", "advance"}

\* What a request sends again was recorded once.
ResendsRecorded ==
  \A c \in Callers : call[c].step \in {"deliver", "read", "record"} =>
    \A s \in call[c].seqs : Recorded(ledger, s)

\* The worker's progress is backed by the ledger at every step, and so are the
\* cursor and the announcement.
WorkerBacked ==
  /\ worker.step \in Executing => Aligned(worker.next) /\ CoveredBelow(worker.next)
  /\ worker.step = "advance" => Recorded(ledger, SeqOf(worker))
  /\ \A s \in worker.done : Recorded(ledger, s)
  /\ worker.step = "finalize" /\ worker.outcome = "completed" => CoveredBelow(NumRows)

Progress ==
  /\ EntriesFit
  /\ Aligned(cursor) /\ CoveredBelow(cursor)
  /\ WorkerBacked
  /\ ResendsRecorded
  /\ CompletedCovered
------------------------------------------------------------------------------
(***************************************************************************)
(* Arithmetic of sequences.                                                 *)
(***************************************************************************)

\* Math.floor as Euclidean division.
LEMMA DivBounds ==
  ASSUME NEW n \in Nat, NEW b \in Nat \ {0}
  PROVE  n \div b \in Nat /\ b * (n \div b) <= n /\ n < b * (n \div b) + b
<1>1. n = b * (n \div b) + (n % b) /\ n % b \in 0 .. b - 1 /\ n \div b \in Int
  OBVIOUS
<1>2. QED
  BY <1>1

\* The sequence of a row is one of the run's sequences.
LEMMA SequenceInRange ==
  ASSUME NEW n \in Nat, n < NumRows, NEW b \in Nat \ {0}
  PROVE  n \div b \in Seqs
<1>1. n \div b \in Nat /\ b * (n \div b) <= n
  BY DivBounds
<1>2. n \div b <= b * (n \div b)
  BY <1>1
<1>3. QED
  BY <1>1, <1>2, NumRowsAssumption DEF Seqs

\* rowCountFor never gives a batch a negative number of rows.
LEMMA PlannedRowsInNat ==
  ASSUME NEW b \in Nat \ {0}, NEW s \in Seqs
  PROVE  PlannedRows(s, NumRows, b) \in Nat
<1> DEFINE q == (NumRows + b - 1) \div b
<1>1. NumRows + b - 1 \in Nat
  BY NumRowsAssumption
<1>2. q \in Nat /\ b * q <= NumRows + b - 1
  BY <1>1, DivBounds
<1>3. (q - 1) * b = b * q - b
  BY <1>2
<1>4. NumRows - (q - 1) * b \in Nat
  BY <1>2, <1>3, NumRowsAssumption
<1>5. QED
  BY <1>4 DEF PlannedRows

\* There is a configuration.
LEMMA AnyConfigOK == AnyConfig \in Configs
BY ConfigsAssumption DEF AnyConfig

\* A batch has a row at least (hook-config.ts).
LEMMA BatchPositive == \A c \in Configs : c.batch \in Nat \ {0}
BY ConfigsAssumption

\* The locals of who is idle have their types.
LEMMA IdleOK ==
  /\ IdleWorker \in WorkerState
  /\ IdleCall \in CallState
  /\ NoEntry \in Entry
BY AnyConfigOK DEF IdleWorker, IdleCall, NoEntry, Entry, WorkerSteps, CallSteps,
                   WorkerState, CallState
------------------------------------------------------------------------------
(***************************************************************************)
(* Type correctness.                                                        *)
(***************************************************************************)

\* The state a run is created in.
LEMMA TypeInit == Init => TypeInv
<1> SUFFICES ASSUME Init PROVE TypeInv
  OBVIOUS
<1>1. counters = [k \in DeliveryStatus |-> counters[k]]
  BY DEF Init, NoCounters
<1>2. ledger \in [Seqs -> Entry]
  BY IdleOK DEF Init
<1>3. call \in [Callers -> CallState]
  BY IdleOK DEF Init
<1>4. worker \in WorkerState
  BY IdleOK DEF Init
<1>5. made \in 0 .. MaxCalls /\ crashes \in 0 .. MaxCrashes
  BY BoundsAssumption DEF Init
<1>6. /\ status \in RunStatus
      /\ cursor \in Nat
      /\ config \in Configs
      /\ stalls \in 0 .. MaxStalledCount
  BY DEF Init, RunStatus, MaxStalledCount
<1>7. /\ job \in {"none", "waiting", "active", "failed"}
      /\ proc \in {"down", "booting", "recovering", "up", "stopping"}
      /\ controller \in {"none", "live", "aborted"}
      /\ cancelAsked \in BOOLEAN
  BY DEF Init
<1>8. TypeOK
  BY <1>1, <1>2, <1>3, <1>4, <1>5, <1>6, <1>7 DEF TypeOK
<1>9. StepsOK
  BY NumRowsAssumption DEF Init, StepsOK, IdleWorker, IdleCall
<1>10. QED
  BY <1>8, <1>9 DEF TypeInv

\* A batch being handled has a sequence of the run and at least one row.
LEMMA BatchInRange ==
  ASSUME TypeInv, worker.next < NumRows
  PROVE  /\ SeqOf(worker) \in Seqs
         /\ RowsOf(worker) \in Nat \ {0}
         /\ worker.next + RowsOf(worker) \in Nat
         /\ worker.next + RowsOf(worker) <= NumRows
<1>1. worker.next \in Nat /\ worker.config.batch \in Nat \ {0}
  BY BatchPositive DEF TypeInv, TypeOK, WorkerState
<1>2. SeqOf(worker) \in Seqs
  BY <1>1, SequenceInRange DEF SeqOf
<1>3. QED
  BY <1>1, <1>2, NumRowsAssumption DEF RowsOf

\* An upsert or a set of skips leaves a ledger of entries.
LEMMA UpsertType ==
  ASSUME NEW l \in [Seqs -> Entry], NEW s \in Seqs, NEW i \in Nat, NEW n \in Nat,
         NEW o \in Outcome
  PROVE  Upsert(l, s, i, n, o) \in [Seqs -> Entry]
<1>1. [status |-> o, rowIndex |-> i, rowCount |-> n] \in Entry
  BY DEF Entry, DeliveryStatus
<1>2. [l[s] EXCEPT !.status = o] \in Entry
  BY DEF Entry, DeliveryStatus
<1>3. QED
  BY <1>1, <1>2 DEF Upsert

\* skipDeliveries keeps the type of the ledger.
LEMMA SkipEntriesType ==
  ASSUME NEW l \in [Seqs -> Entry], NEW S, NEW b \in Nat \ {0}
  PROVE  SkipEntries(l, S, NumRows, b) \in [Seqs -> Entry]
<1>1. ASSUME NEW s \in Seqs
      PROVE  [status |-> "skipped", rowIndex |-> s * b,
              rowCount |-> PlannedRows(s, NumRows, b)] \in Entry
  <2>1. s * b \in Nat
    BY DEF Seqs
  <2>2. PlannedRows(s, NumRows, b) \in Nat
    BY PlannedRowsInNat
  <2>3. QED
    BY <2>1, <2>2 DEF Entry, DeliveryStatus
<1>2. QED
  BY <1>1 DEF SkipEntries

\* The way out of the stream keeps what the worker has done.
LEMMA FinalizingType ==
  ASSUME TypeInv, NEW result \in Terminal, Finalizing(result)
  PROVE  /\ worker' \in WorkerState
         /\ worker'.step = "finalize" /\ worker'.outcome = result
         /\ worker'.next = worker.next /\ worker'.done = worker.done
BY DEF TypeInv, TypeOK, Finalizing, WorkerState, WorkerSteps

\* The worker's own steps keep the types.
LEMMA TypeWorker == ASSUME TypeInv, WorkerNext PROVE TypeInv'
<1> USE DEF TypeInv, TypeOK, StepsOK, rowVars, queueVars, histVars
<1>1. CASE TakeJob
  BY <1>1 DEF TakeJob, WorkerState, WorkerSteps
<1>2. CASE FetchRun
  <2>1. CASE status \in Terminal
    BY <1>2, <2>1 DEF FetchRun, WorkerState, WorkerSteps
  <2>2. CASE status \notin Terminal /\ status = "canceling"
    <3>1. worker' = [worker EXCEPT !.step = "finalize", !.outcome = "canceled"]
      BY <1>2, <2>2 DEF FetchRun
    <3>2. worker' \in WorkerState /\ worker'.next = worker.next
          /\ worker'.step = "finalize" /\ worker'.outcome = "canceled"
      BY <3>1 DEF WorkerState, WorkerSteps, Terminal
    <3>3. QED
      BY <1>2, <3>2 DEF FetchRun, Terminal
  <2>3. CASE status \notin Terminal /\ status # "canceling"
    <3>1. /\ worker' = [worker EXCEPT !.step = "mark", !.next = cursor, !.config = config]
          /\ controller' = "live"
      BY <1>2, <2>3 DEF FetchRun
    <3>2. worker' \in WorkerState /\ worker'.next = cursor /\ worker'.step = "mark"
      BY <3>1 DEF WorkerState, WorkerSteps
    <3>3. QED
      BY <1>2, <3>1, <3>2 DEF FetchRun
  <2>4. QED
    BY <2>1, <2>2, <2>3
<1>3. CASE MarkRunning
  BY <1>3 DEF MarkRunning, RunStatus, Active, WorkerState, WorkerSteps
<1>4. CASE OpenStream
  BY <1>4 DEF OpenStream, SettledSequences, WorkerState, WorkerSteps
<1>5. CASE OpenFails
  BY <1>5, IdleOK, NumRowsAssumption DEF OpenFails, IdleWorker
<1>6. CASE StopOnAbort
  <2>1. "canceled" \in Terminal
    BY DEF Terminal
  <2>2. QED
    BY <1>6, <2>1, FinalizingType DEF StopOnAbort
<1>7. CASE PollControl
  <2>1. CASE CancelRequested
    <3>1. "canceled" \in Terminal
      BY DEF Terminal
    <3>2. QED
      BY <1>7, <2>1, <3>1, FinalizingType DEF PollControl
  <2>2. CASE ~CancelRequested
    <3> DEFINE noted == worker.done \union SkippedSequences(ledger)
    <3>1. noted \in SUBSET Seqs
      BY DEF SkippedSequences, WorkerState
    <3> HIDE DEF noted
    <3>2. worker' = [worker EXCEPT !.step = "ready", !.polled = TRUE, !.done = noted]
      BY <1>7, <2>2 DEF PollControl, noted
    <3>3. worker' \in WorkerState /\ worker'.next = worker.next /\ worker'.step = "ready"
      BY <3>1, <3>2 DEF WorkerState, WorkerSteps
    <3>4. QED
      BY <1>7, <3>3 DEF PollControl
  <2>3. QED
    BY <2>1, <2>2
<1>8. CASE SkipPoll
  BY <1>8 DEF SkipPoll, WorkerState, WorkerSteps
<1>9. CASE StreamFails
  <2>1. PICK result \in {"canceled", "failed"} : Finalizing(result)
    BY <1>9 DEF StreamFails
  <2>2. result \in Terminal
    BY DEF Terminal
  <2>3. QED
    BY <1>9, <2>1, <2>2, FinalizingType DEF StreamFails
<1>10. CASE Flush
  <2>1. worker' \in WorkerState
    <3>1. PICK step \in {"advance", "deliver"} :
            worker' = [worker EXCEPT !.outcome = "none", !.step = step]
      BY <1>10 DEF Flush
    <3>2. QED
      BY <3>1 DEF WorkerState, WorkerSteps
  <2>2. worker.next < NumRows
    BY <1>10, NumRowsAssumption DEF Flush, Exhausted, WorkerState
  <2>3. worker'.next = worker.next /\ worker'.step \in {"advance", "deliver"}
    BY <1>10 DEF Flush, WorkerState
  <2>4. QED
    BY <1>10, <2>1, <2>2, <2>3 DEF Flush
<1>11. CASE Deliver
  <2>1. CASE Finalizing("canceled")
    <3>1. "canceled" \in Terminal
      BY DEF Terminal
    <3>2. QED
      BY <1>11, <2>1, <3>1, FinalizingType DEF Deliver
  <2>2. ASSUME NEW result \in Outcome,
               worker' = [worker EXCEPT !.step = "read", !.outcome = result]
        PROVE  TypeInv'
    <3>1. /\ worker' \in WorkerState /\ worker'.next = worker.next
          /\ worker'.step = "read" /\ worker'.outcome = result
      BY <2>2 DEF WorkerState, WorkerSteps
    <3>2. QED
      BY <1>11, <3>1 DEF Deliver
  <2>3. QED
    BY <1>11, <2>1, <2>2 DEF Deliver
<1>12. CASE ReadExisting
  BY <1>12, BatchInRange DEF ReadExisting, WorkerState, WorkerSteps
<1>13. CASE RecordDelivery
  <2>1. worker.next \in Nat /\ worker.outcome \in Outcome
    BY <1>13 DEF RecordDelivery, WorkerState
  <2>2. ledger' \in [Seqs -> Entry]
    BY <1>13, <2>1, BatchInRange, UpsertType DEF RecordDelivery
  <2>3. counters' = [k \in DeliveryStatus |-> counters'[k]]
    BY <1>13 DEF RecordDelivery, MoveCounters
  <2>4. QED
    BY <1>13, <2>2, <2>3 DEF RecordDelivery, WorkerState, WorkerSteps
<1>14. CASE Advance
  <2>1. worker.next + RowsOf(worker) \in Nat /\ worker.next + RowsOf(worker) <= NumRows
    BY <1>14, BatchInRange DEF Advance
  <2>2. cursor' \in Nat /\ cursor' <= NumRows
    BY <1>14, <2>1 DEF Advance, IsFull
  <2>3. /\ worker' \in WorkerState
        /\ worker'.next = worker.next + RowsOf(worker)
        /\ \/ worker'.step = "stream"
           \/ worker'.step = "finalize" /\ worker'.outcome = "failed"
    BY <1>14, <2>1 DEF Advance, Terminal, WorkerState, WorkerSteps
  <2>4. QED
    BY <1>14, <2>1, <2>2, <2>3 DEF Advance, Terminal
<1>15. CASE Finish
  <2>1. "completed" \in Terminal
    BY DEF Terminal
  <2>2. QED
    BY <1>15, <2>1, FinalizingType DEF Finish
<1>16. CASE Finalize
  BY <1>16 DEF Finalize, RunStatus, WorkerState, WorkerSteps
<1>17. CASE AckJob
  <2>1. stalls' \in 0 .. MaxStalledCount
    BY <1>17 DEF AckJob, MaxStalledCount
  <2>2. QED
    BY <1>17, <2>1, IdleOK, NumRowsAssumption DEF AckJob, IdleWorker
<1>18. QED
  BY <1>1, <1>2, <1>3, <1>4, <1>5, <1>6, <1>7, <1>8, <1>9, <1>10, <1>11, <1>12,
     <1>13, <1>14, <1>15, <1>16, <1>17 DEF WorkerNext

\* What a request takes along when it begins.
LEMMA AskBegins ==
  ASSUME TypeInv, NEW c \in Callers, Ask(c)
  PROVE  \E step \in CallSteps \ {"read", "record"}, S \in SUBSET Seqs :
           /\ Begin(c, step, S)
           /\ step = "deliver" => "resend" \in Ops /\ S = FailedSequences(ledger)
<1>1. CASE AskSkip(c)
  <2>1. PICK S \in SUBSET {s \in Seqs : ~Recorded(ledger, s)} \ {{}} : Begin(c, "skip", S)
    BY <1>1 DEF AskSkip
  <2>2. S \in SUBSET Seqs
    OBVIOUS
  <2>3. QED
    BY <2>1, <2>2 DEF CallSteps
<1>2. CASE AskResend(c)
  <2>1. FailedSequences(ledger) \in SUBSET DOMAIN ledger
    BY DEF FailedSequences, TypeInv, TypeOK
  <2>2. QED
    BY <1>2, <2>1 DEF AskResend, CallSteps, TypeInv, TypeOK
<1>3. CASE AskStart(c) \/ AskResume(c) \/ AskRetry(c) \/ AskCancel(c) \/ AskStop(c)
  <2>1. PICK step \in {"start", "resume", "retry", "cancel", "stop"} : Begin(c, step, {})
    BY <1>3 DEF AskStart, AskResume, AskRetry, AskCancel, AskStop
  <2>2. QED
    BY <2>1 DEF CallSteps
<1>4. QED
  BY <1>1, <1>2, <1>3 DEF Ask

\* The requests keep the types.
LEMMA TypeCaller ==
  ASSUME TypeInv, NEW c \in Callers, CallerNext(c) PROVE TypeInv'
<1> USE DEF TypeInv, TypeOK, StepsOK, rowVars, queueVars, histVars
<1>1. CASE Ask(c)
  <2>1. PICK step \in CallSteps \ {"read", "record"}, S \in SUBSET Seqs : Begin(c, step, S)
    BY <1>1, AskBegins
  <2>2. [IdleCall EXCEPT !.step = step, !.config = config, !.seqs = S] \in CallState
    BY IdleOK DEF CallState
  <2>3. call' \in [Callers -> CallState]
    BY <2>1, <2>2 DEF Begin
  <2>4. \A d \in Callers : call'[d].step \in {"read", "record"} =>
                             call'[d].outcome \in Outcome
    BY <2>1, IdleOK DEF Begin, CallState
  <2>5. made' \in 0 .. MaxCalls
    BY <2>1, BoundsAssumption DEF Begin
  <2>6. QED
    BY <2>1, <2>3, <2>4, <2>5 DEF Begin
<1>2. CASE Requeue(c)
  <2>1. call' \in [Callers -> CallState] /\ status' \in RunStatus
    BY <1>2 DEF Requeue, StartDraft, Resume, RetryFailed, Requeued, RunStatus, Active,
       CallState, CallSteps
  <2>2. \A d \in Callers : call'[d].step \in {"read", "record"} =>
                             call'[d].outcome \in Outcome
    BY <1>2 DEF Requeue, StartDraft, Resume, RetryFailed, Requeued, CallState
  <2>3. cursor' \in Nat /\ cursor' <= NumRows /\ config' \in Configs
    BY <1>2, NumRowsAssumption DEF Requeue, StartDraft, Resume, RetryFailed
  <2>4. QED
    BY <1>2, <2>1, <2>2, <2>3
       DEF Requeue, StartDraft, Resume, RetryFailed, Requeued
<1>3. CASE Enqueue(c)
  <2>1. stalls' \in 0 .. MaxStalledCount /\ job' \in {"none", "waiting", "active", "failed"}
    BY <1>3 DEF Enqueue, AddJob, MaxStalledCount
  <2>2. QED
    BY <1>3, <2>1, IdleOK DEF Enqueue, Done, IdleCall
<1>4. CASE EnqueueFails(c)
  BY <1>4, IdleOK DEF EnqueueFails, Done, IdleCall
<1>5. CASE CancelRun(c)
  BY <1>5 DEF CancelRun, RunStatus, Active, CallState, CallSteps
<1>6. CASE AbortAndRemove(c)
  <2>1. stalls' \in 0 .. MaxStalledCount /\ job' \in {"none", "waiting", "active", "failed"}
    BY <1>6 DEF AbortAndRemove, MaxStalledCount
  <2>2. QED
    BY <1>6, <2>1, IdleOK DEF AbortAndRemove, Done, IdleCall
<1>7. CASE SkipDeliveries(c)
  <2>1. call[c].config.batch \in Nat \ {0}
    BY BatchPositive DEF CallState
  <2>2. ledger' \in [Seqs -> Entry]
    BY <1>7, <2>1, SkipEntriesType DEF SkipDeliveries
  <2>3. counters' = [k \in DeliveryStatus |-> counters'[k]]
    BY <1>7 DEF SkipDeliveries, AddSkipped
  <2>4. QED
    BY <1>7, <2>2, <2>3, IdleOK DEF SkipDeliveries, Done, IdleCall
<1>8. CASE StopRun(c)
  BY <1>8, IdleOK DEF StopRun, Done, IdleCall, RunStatus
<1>9. CASE ResendDeliver(c)
  <2>1. PICK o \in Outcome :
          call' = [call EXCEPT ![c] = [@ EXCEPT !.step = "read", !.outcome = o]]
    BY <1>9 DEF ResendDeliver
  <2>2. [call[c] EXCEPT !.step = "read", !.outcome = o] \in CallState
    <3>1. call[c] \in CallState
      OBVIOUS
    <3>2. QED
      BY <3>1 DEF CallState, CallSteps
  <2>3. call' \in [Callers -> CallState]
    BY <2>1, <2>2
  <2>4. \A d \in Callers : call'[d].step \in {"read", "record"} =>
                             call'[d].outcome \in Outcome
    BY <2>1 DEF CallState
  <2>5. QED
    BY <1>9, <2>3, <2>4 DEF ResendDeliver
<1>10. CASE ResendReadExisting(c)
  <2>1. PICK s \in First(call[c].seqs) :
          call' = [call EXCEPT ![c] = [@ EXCEPT !.step = "record", !.seen = ledger[s]]]
    BY <1>10 DEF ResendReadExisting
  <2>2. s \in Seqs
    BY DEF First, CallState
  <2>3. [call[c] EXCEPT !.step = "record", !.seen = ledger[s]] \in CallState
    BY <2>2 DEF CallState, CallSteps
  <2>4. call' \in [Callers -> CallState]
    BY <2>1, <2>3
  <2>5. \A d \in Callers : call'[d].step \in {"read", "record"} =>
                             call'[d].outcome \in Outcome
    BY <1>10, <2>1 DEF CallState, ResendReadExisting
  <2>6. QED
    BY <1>10, <2>4, <2>5 DEF ResendReadExisting
<1>11. CASE ResendRecord(c)
  <2>1. PICK s \in First(call[c].seqs) :
          /\ ledger' = Upsert(ledger, s, ledger[s].rowIndex, ledger[s].rowCount,
                              call[c].outcome)
          /\ counters' = MoveCounters(counters, call[c].seen, ledger[s].rowCount,
                                      call[c].outcome)
          /\ call' = [call EXCEPT ![c] =
               IF call[c].seqs \ {s} = {} THEN IdleCall
               ELSE [@ EXCEPT !.step = "deliver", !.seqs = call[c].seqs \ {s}]]
    BY <1>11 DEF ResendRecord
  <2>2. s \in Seqs
    BY DEF First, CallState
  <2>3. ledger' \in [Seqs -> Entry]
    <3>1. /\ ledger[s].rowIndex \in Nat /\ ledger[s].rowCount \in Nat
          /\ call[c].outcome \in Outcome
      BY <1>11, <2>2 DEF Entry, ResendRecord
    <3>2. QED
      BY <2>1, <2>2, <3>1, UpsertType
  <2>4. counters' = [k \in DeliveryStatus |-> counters'[k]]
    BY <2>1 DEF MoveCounters
  <2>5. call' \in [Callers -> CallState]
    BY <2>1, IdleOK DEF CallState, CallSteps
  <2>6. \A d \in Callers : call'[d].step \in {"read", "record"} =>
                             call'[d].outcome \in Outcome
    BY <2>1, IdleOK DEF CallState, IdleCall
  <2>7. QED
    BY <1>11, <2>3, <2>4, <2>5, <2>6 DEF ResendRecord
<1>12. QED
  BY <1>1, <1>2, <1>3, <1>4, <1>5, <1>6, <1>7, <1>8, <1>9, <1>10, <1>11 DEF CallerNext

\* The queue's stalled check, crashes, shutdowns and boots keep the types.
LEMMA TypeProcess == ASSUME TypeInv, StalledCheck \/ ProcessNext PROVE TypeInv'
<1> USE DEF TypeInv, TypeOK, StepsOK, rowVars, queueVars, histVars
<1>1. CASE StalledCheck
  <2>1. stalls' \in 0 .. MaxStalledCount /\ job' \in {"none", "waiting", "active", "failed"}
    BY <1>1 DEF StalledCheck, MaxStalledCount
  <2>2. QED
    BY <1>1, <2>1 DEF StalledCheck
<1>2. CASE Crash
  <2>1. crashes' \in 0 .. MaxCrashes
    BY <1>2, BoundsAssumption DEF Crash
  <2>2. call' \in [Callers -> CallState]
    BY <1>2, IdleOK DEF Crash
  <2>3. QED
    BY <1>2, <2>1, <2>2, IdleOK, NumRowsAssumption DEF Crash, IdleWorker, IdleCall
<1>3. CASE Shutdown
  BY <1>3 DEF Shutdown
<1>4. CASE Boot
  BY <1>4 DEF Boot
<1>5. CASE RecoverRun
  BY <1>5 DEF RecoverRun, MaxStalledCount
<1>6. CASE RecoverEnqueue
  BY <1>6 DEF RecoverEnqueue, AddJob, MaxStalledCount
<1>7. QED
  BY <1>1, <1>2, <1>3, <1>4, <1>5, <1>6 DEF ProcessNext

\* The types hold after every step.
LEMMA TypeStep == TypeInv /\ [Next]_vars => TypeInv'
<1> SUFFICES ASSUME TypeInv, [Next]_vars PROVE TypeInv'
  OBVIOUS
<1>1. CASE UNCHANGED vars
  BY <1>1 DEF vars, rowVars, queueVars, histVars, TypeInv, TypeOK, StepsOK
<1>2. QED
  BY <1>1, TypeWorker, TypeCaller, TypeProcess DEF Next

\* So they do in every state of a behaviour.
LEMMA TypeInvariant == Spec => []TypeInv
BY TypeInit, TypeStep, PTL DEF Spec

\* Every variable of a run keeps its type: the row, the ledger, the job, the
\* worker and the requests, whatever is interleaved, crashes or fails.
THEOREM TypeCorrect == Spec => []TypeOK
<1>1. TypeInv => TypeOK
  BY DEF TypeInv
<1>2. QED
  BY <1>1, TypeInvariant, PTL
------------------------------------------------------------------------------
(***************************************************************************)
(* The ledger only grows, and what it covers stays covered.                 *)
(***************************************************************************)
LedgerGrows ==
  \A s \in Seqs : Recorded(ledger, s) =>
    /\ Recorded(ledger', s)
    /\ ledger'[s].rowIndex = ledger[s].rowIndex
    /\ ledger'[s].rowCount = ledger[s].rowCount

\* recordDelivery records its sequence, and forgets neither an entry nor its rows.
LEMMA UpsertGrows ==
  ASSUME NEW l \in [Seqs -> Entry], NEW s \in Seqs, NEW i, NEW n, NEW o \in Outcome
  PROVE  /\ Recorded(Upsert(l, s, i, n, o), s)
         /\ Upsert(l, s, i, n, o)[s].status = o
         /\ ~Recorded(l, s) => /\ Upsert(l, s, i, n, o)[s].rowIndex = i
                               /\ Upsert(l, s, i, n, o)[s].rowCount = n
         /\ Recorded(l, s) =>
              /\ Upsert(l, s, i, n, o)[s].rowIndex = l[s].rowIndex
              /\ Upsert(l, s, i, n, o)[s].rowCount = l[s].rowCount
         /\ \A t \in Seqs \ {s} : Upsert(l, s, i, n, o)[t] = l[t]
BY DEF Upsert, Recorded, Entry, Outcome

\* Only three steps write the ledger.
LEMMA LedgerFrame ==
  ASSUME [Next]_vars
  PROVE  \/ UNCHANGED ledger
         \/ RecordDelivery
         \/ \E c \in Callers : SkipDeliveries(c) \/ ResendRecord(c)
<1> USE DEF rowVars, queueVars, histVars
<1>1. CASE UNCHANGED vars
  BY <1>1 DEF vars
<1>2. CASE WorkerNext
  BY <1>2 DEF WorkerNext, TakeJob, FetchRun, MarkRunning, OpenStream, OpenFails,
     StopOnAbort, PollControl, SkipPoll, StreamFails, Flush, Deliver, ReadExisting,
     Advance, Finish, Finalize, AckJob
<1>3. CASE StalledCheck \/ ProcessNext
  BY <1>3 DEF StalledCheck, ProcessNext, Crash, Shutdown, Boot, RecoverRun,
     RecoverEnqueue
<1>4. ASSUME NEW c \in Callers, CallerNext(c)
      PROVE  UNCHANGED ledger \/ SkipDeliveries(c) \/ ResendRecord(c)
  BY <1>4 DEF CallerNext, Ask, AskStart, AskResume, AskRetry, AskCancel,
     AskSkip, AskResend, AskStop, Begin,
     Requeue, StartDraft, Resume, RetryFailed, Requeued, Enqueue, EnqueueFails, CancelRun,
     AbortAndRemove, StopRun, ResendDeliver, ResendReadExisting
<1>5. QED
  BY <1>1, <1>2, <1>3, <1>4 DEF Next

\* No step takes a recorded delivery away or changes the rows it accounts for.
LEMMA LedgerOnlyGrows == ASSUME TypeInv, [Next]_vars PROVE LedgerGrows
<1> USE DEF TypeInv, TypeOK, StepsOK
<1>1. CASE UNCHANGED ledger
  BY <1>1 DEF LedgerGrows
<1>2. CASE RecordDelivery
  <2>1. SeqOf(worker) \in Seqs /\ worker.outcome \in Outcome
    BY <1>2, BatchInRange DEF RecordDelivery
  <2>2. QED
    BY <1>2, <2>1, UpsertGrows DEF RecordDelivery, LedgerGrows, Recorded
<1>3. ASSUME NEW c \in Callers, SkipDeliveries(c) PROVE LedgerGrows
  BY <1>3 DEF SkipDeliveries, SkipEntries, LedgerGrows, Recorded
<1>4. ASSUME NEW c \in Callers, ResendRecord(c) PROVE LedgerGrows
  <2>1. PICK s \in First(call[c].seqs) :
          ledger' = Upsert(ledger, s, ledger[s].rowIndex, ledger[s].rowCount,
                           call[c].outcome)
    BY <1>4 DEF ResendRecord
  <2>2. s \in Seqs /\ call[c].outcome \in Outcome
    BY <1>4 DEF First, CallState, ResendRecord
  <2>3. QED
    BY <2>1, <2>2, UpsertGrows DEF LedgerGrows, Recorded
<1>5. QED
  BY <1>1, <1>2, <1>3, <1>4, LedgerFrame

\* A row that was accounted for stays so while the ledger grows ...
LEMMA CoverageKept ==
  ASSUME TypeInv, TypeInv', LedgerGrows, NEW r, Covered(ledger, r)
  PROVE  Covered(ledger', r)
BY DEF Covered, LedgerGrows, TypeInv, TypeOK

\* ... and so do all rows before a position.
LEMMA CoveredBelowKept ==
  ASSUME TypeInv, TypeInv', LedgerGrows, NEW n, CoveredBelow(n)
  PROVE  CoveredBelow(n)'
BY CoverageKept DEF CoveredBelow
------------------------------------------------------------------------------
(***************************************************************************)
(* Progress is backed by the ledger when the batch size never changes.      *)
(***************************************************************************)
LEMMA WorkerBatch ==
  ASSUME TypeInv, OneBatchSize
  PROVE  /\ B \in Nat \ {0}
         /\ worker.config.batch = B
         /\ \A c \in Callers : call[c].config.batch = B
BY BatchPositive, AnyConfigOK
   DEF TypeInv, TypeOK, WorkerState, CallState, OneBatchSize, B

\* A batch of PlannedRows rows reaches the end of its batch or of the source.
LEMMA PlannedRowsFit ==
  ASSUME NEW b \in Nat \ {0}, NEW s \in Seqs, NEW r \in 0 .. NumRows - 1,
         s * b <= r, r < s * b + b
  PROVE  r < s * b + PlannedRows(s, NumRows, b)
<1> DEFINE last == (NumRows + b - 1) \div b - 1
<1>1. CASE s = last
  <2>1. PlannedRows(s, NumRows, b) = NumRows - s * b
    BY <1>1 DEF PlannedRows
  <2>2. s * b \in Nat
    BY DEF Seqs
  <2>3. QED
    BY <2>1, <2>2, NumRowsAssumption
<1>2. CASE s # last
  BY <1>2 DEF PlannedRows
<1>3. QED
  BY <1>1, <1>2

\* The three writers of the ledger record whole batches.
LEMMA EntriesStayFit ==
  ASSUME OneBatchSize, TypeInv, Progress, [Next]_vars
  PROVE  EntriesFit'
<1> USE DEF TypeInv, TypeOK, StepsOK
<1>1. CASE UNCHANGED ledger
  BY <1>1 DEF Progress, EntriesFit
<1>2. CASE RecordDelivery
  <2>1. /\ SeqOf(worker) \in Seqs /\ worker.outcome \in Outcome
        /\ worker.next \in Nat /\ worker.next < NumRows
        /\ worker.config.batch = B /\ B \in Nat \ {0}
    BY <1>2, BatchInRange, WorkerBatch DEF RecordDelivery, WorkerState
  <2>2. SeqOf(worker) * B = worker.next
    BY <1>2, <2>1, DivBounds DEF RecordDelivery, Progress, WorkerBacked, Executing, Aligned, SeqOf
  <2>3. \A r \in 0 .. NumRows - 1 : r < worker.next + B => r < worker.next + RowsOf(worker)
    BY <2>1, NumRowsAssumption DEF RowsOf
  <2>4. ASSUME NEW s \in Seqs, NEW r \in 0 .. NumRows - 1,
               Recorded(ledger', s), s * B <= r, r < s * B + B
        PROVE  ledger'[s].rowIndex <= r /\ r < ledger'[s].rowIndex + ledger'[s].rowCount
    <3>1. CASE s # SeqOf(worker)
      BY <1>2, <2>1, <2>4, <3>1, UpsertGrows
         DEF RecordDelivery, Progress, EntriesFit, Recorded
    <3>2. CASE s = SeqOf(worker) /\ Recorded(ledger, s)
      BY <1>2, <2>1, <2>4, <3>2, UpsertGrows DEF RecordDelivery, Progress, EntriesFit
    <3>3. CASE s = SeqOf(worker) /\ ~Recorded(ledger, s)
      BY <1>2, <2>1, <2>2, <2>3, <2>4, <3>3, UpsertGrows DEF RecordDelivery
    <3>4. QED
      BY <3>1, <3>2, <3>3
  <2>5. QED
    BY <2>4 DEF EntriesFit
<1>3. ASSUME NEW c \in Callers, SkipDeliveries(c) PROVE EntriesFit'
  <2>1. CASE UNCHANGED ledger
    BY <2>1 DEF Progress, EntriesFit
  <2>2. CASE ledger' = SkipEntries(ledger, call[c].seqs, NumRows, call[c].config.batch)
    <3>1. call[c].config.batch = B /\ B \in Nat \ {0}
      BY WorkerBatch
    <3>2. ASSUME NEW s \in Seqs, NEW r \in 0 .. NumRows - 1,
                 Recorded(ledger', s), s * B <= r, r < s * B + B
          PROVE  ledger'[s].rowIndex <= r /\ r < ledger'[s].rowIndex + ledger'[s].rowCount
      <4>1. CASE s \in call[c].seqs
        <5>1. ledger'[s].rowIndex = s * B
          BY <2>2, <3>1, <4>1 DEF SkipEntries
        <5>2. ledger'[s].rowCount = PlannedRows(s, NumRows, B)
          BY <2>2, <3>1, <4>1 DEF SkipEntries
        <5>3. r < s * B + PlannedRows(s, NumRows, B)
          BY <3>1, <3>2, PlannedRowsFit
        <5>4. QED
          BY <3>2, <5>1, <5>2, <5>3
      <4>2. CASE s \notin call[c].seqs
        <5>1. ledger'[s] = ledger[s]
          BY <2>2, <4>2 DEF SkipEntries
        <5>2. QED
          BY <3>2, <5>1 DEF Progress, EntriesFit, Recorded
      <4>3. QED
        BY <4>1, <4>2
    <3>3. QED
      BY <3>2 DEF EntriesFit
  <2>3. QED
    BY <1>3, <2>1, <2>2 DEF SkipDeliveries
<1>4. ASSUME NEW c \in Callers, ResendRecord(c) PROVE EntriesFit'
  <2>1. PICK s \in First(call[c].seqs) :
          ledger' = Upsert(ledger, s, ledger[s].rowIndex, ledger[s].rowCount,
                           call[c].outcome)
    BY <1>4 DEF ResendRecord
  <2>2. s \in Seqs /\ call[c].outcome \in Outcome
    BY <1>4 DEF First, CallState, ResendRecord
  <2>3. ASSUME NEW d \in Seqs
        PROVE  /\ Recorded(ledger', d) => Recorded(ledger, d) \/ d = s
               /\ Recorded(ledger', d) => ledger'[d].rowIndex = ledger[d].rowIndex
               /\ Recorded(ledger', d) => ledger'[d].rowCount = ledger[d].rowCount
    <3>1. CASE d = s
      BY <2>1, <2>2, <3>1, UpsertGrows
    <3>2. CASE d # s
      BY <2>1, <2>2, <3>2, UpsertGrows DEF Recorded
    <3>3. QED
      BY <3>1, <3>2
  <2>4. Recorded(ledger, s)
    BY <1>4 DEF ResendRecord, Progress, ResendsRecorded, First
  <2>5. QED
    BY <2>3, <2>4 DEF Progress, EntriesFit
<1>5. QED
  BY <1>1, <1>2, <1>3, <1>4, LedgerFrame

\* The rows of the batch just handled are covered along with those before it.
LEMMA AdvanceCovers ==
  ASSUME OneBatchSize, TypeInv, Progress, worker.step = "advance"
  PROVE  CoveredBelow(worker.next + RowsOf(worker))
<1> SUFFICES ASSUME NEW r \in 0 .. (worker.next + RowsOf(worker)) - 1
             PROVE  Covered(ledger, r)
  BY DEF CoveredBelow
<1>1. /\ worker.next \in Nat /\ worker.next < NumRows
      /\ worker.config.batch = B /\ B \in Nat \ {0}
      /\ SeqOf(worker) \in Seqs
      /\ RowsOf(worker) \in Nat \ {0} /\ worker.next + RowsOf(worker) <= NumRows
  BY WorkerBatch, BatchInRange DEF WorkerState, TypeInv, TypeOK, StepsOK
<1>2. SeqOf(worker) * B = worker.next
  BY <1>1, DivBounds DEF Progress, WorkerBacked, Executing, Aligned, SeqOf
<1>3. RowsOf(worker) <= B
  BY <1>1, NumRowsAssumption DEF RowsOf
<1>4. CASE r < worker.next
  BY <1>1, <1>4 DEF Progress, WorkerBacked, Executing, CoveredBelow
<1>5. CASE r >= worker.next
  <2>1. /\ r \in 0 .. NumRows - 1
        /\ SeqOf(worker) * B <= r /\ r < SeqOf(worker) * B + B
    BY <1>1, <1>2, <1>3, <1>5, NumRowsAssumption
  <2>2. Recorded(ledger, SeqOf(worker))
    BY DEF Progress, WorkerBacked
  <2>3. QED
    BY <1>1, <2>1, <2>2 DEF Progress, EntriesFit, Covered, TypeInv, TypeOK
<1>6. QED
  BY <1>1, <1>4, <1>5

\* After a full batch the next one starts at a multiple of the batch size, and
\* after a short one the source is exhausted.
LEMMA AdvanceAligns ==
  ASSUME OneBatchSize, TypeInv, Progress, worker.step = "advance"
  PROVE  /\ Aligned(worker.next + RowsOf(worker))
         /\ IsFull(worker) => Aligned(worker.next + worker.config.batch)
<1> USE DEF TypeInv, TypeOK, StepsOK
<1>1. /\ worker.next \in Nat /\ worker.next < NumRows
      /\ worker.config.batch = B /\ B \in Nat \ {0}
  BY WorkerBatch DEF WorkerState
<1> DEFINE k == worker.next \div B
<1>2. k \in Nat /\ B * k = worker.next
  BY <1>1, DivBounds DEF Progress, WorkerBacked, Executing, Aligned
<1>3. (worker.next + B) \div B = k + 1
  <2> DEFINE q == (worker.next + B) \div B
  <2>1. worker.next + B \in Nat
    BY <1>1
  <2>2. q \in Nat /\ B * q <= worker.next + B /\ worker.next + B < B * q + B
    BY <1>1, <2>1, DivBounds
  <2>3. worker.next + B = B * (k + 1)
    BY <1>1, <1>2
  <2> HIDE DEF k, q
  <2>4. ASSUME q < k + 1 PROVE FALSE
    <3>1. B * (q + 1) <= B * (k + 1)
      BY <1>1, <1>2, <2>2, <2>4
    <3>2. QED
      BY <1>1, <2>2, <2>3, <3>1
  <2>5. ASSUME q > k + 1 PROVE FALSE
    <3>1. B * (k + 2) <= B * q
      BY <1>1, <1>2, <2>2, <2>5
    <3>2. QED
      BY <1>1, <1>2, <2>2, <2>3, <3>1
  <2>6. q = k + 1
    BY <1>2, <2>2, <2>4, <2>5
  <2>7. QED
    BY <2>6 DEF q
<1>4. Aligned(worker.next + B)
  BY <1>1, <1>2, <1>3 DEF Aligned
<1>5. CASE IsFull(worker)
  BY <1>1, <1>4, <1>5 DEF IsFull
<1>6. CASE ~IsFull(worker)
  <2>1. worker.next + RowsOf(worker) = NumRows
    BY <1>1, <1>6, NumRowsAssumption DEF IsFull, RowsOf
  <2>2. QED
    BY <1>6, <2>1, NumRowsAssumption DEF Aligned
<1>7. QED
  BY <1>5, <1>6

\* Only Advance and Requeue write the cursor.
LEMMA CursorFrame ==
  ASSUME [Next]_vars
  PROVE  UNCHANGED cursor \/ Advance \/ \E c \in Callers : Requeue(c)
<1> USE DEF rowVars, queueVars, histVars
<1>1. CASE UNCHANGED vars
  BY <1>1 DEF vars
<1>2. CASE WorkerNext
  BY <1>2 DEF WorkerNext, TakeJob, FetchRun, MarkRunning, OpenStream, OpenFails,
     StopOnAbort, PollControl, SkipPoll, StreamFails, Flush, Deliver, ReadExisting,
     RecordDelivery, Finish, Finalize, AckJob
<1>3. CASE StalledCheck \/ ProcessNext
  BY <1>3 DEF StalledCheck, ProcessNext, Crash, Shutdown, Boot, RecoverRun,
     RecoverEnqueue
<1>4. ASSUME NEW c \in Callers, CallerNext(c) PROVE UNCHANGED cursor \/ Requeue(c)
  BY <1>4 DEF CallerNext, Ask, AskStart, AskResume, AskRetry, AskCancel,
     AskSkip, AskResend, AskStop, Begin,
     Enqueue, EnqueueFails, CancelRun, AbortAndRemove,
     SkipDeliveries, StopRun, ResendDeliver, ResendReadExisting, ResendRecord
<1>5. QED
  BY <1>1, <1>2, <1>3, <1>4 DEF Next

\* Only the worker announces a run completed.
LEMMA StatusFrame ==
  ASSUME [Next]_vars
  PROVE  \/ UNCHANGED status
         \/ status' # "completed"
         \/ Finalize
<1> USE DEF rowVars, queueVars, histVars
<1>1. CASE UNCHANGED vars
  BY <1>1 DEF vars
<1>2. CASE WorkerNext
  BY <1>2 DEF WorkerNext, TakeJob, FetchRun, MarkRunning, OpenStream, OpenFails,
     StopOnAbort, PollControl, SkipPoll, StreamFails, Flush, Deliver, ReadExisting,
     RecordDelivery, Advance, Finish, AckJob
<1>3. CASE StalledCheck \/ ProcessNext
  BY <1>3 DEF StalledCheck, ProcessNext, Crash, Shutdown, Boot, RecoverRun,
     RecoverEnqueue
<1>4. ASSUME NEW c \in Callers, CallerNext(c)
      PROVE  UNCHANGED status \/ status' # "completed"
  BY <1>4 DEF CallerNext, Ask, AskStart, AskResume, AskRetry, AskCancel,
     AskSkip, AskResend, AskStop, Begin,
     Requeue, StartDraft, Resume, RetryFailed, Requeued, Enqueue, EnqueueFails, CancelRun,
     AbortAndRemove, SkipDeliveries, StopRun, ResendDeliver, ResendReadExisting,
     ResendRecord
<1>5. QED
  BY <1>1, <1>2, <1>3, <1>4 DEF Next

\* The worker's variables change by its own steps and a crash only.
LEMMA WorkerFrame ==
  ASSUME [Next]_vars
  PROVE  UNCHANGED worker \/ WorkerNext \/ worker' = IdleWorker
<1>1. CASE UNCHANGED vars
  BY <1>1 DEF vars
<1>2. CASE StalledCheck \/ ProcessNext
  BY <1>2 DEF StalledCheck, ProcessNext, Crash, Shutdown, Boot, RecoverRun,
     RecoverEnqueue
<1>3. ASSUME NEW c \in Callers, CallerNext(c) PROVE UNCHANGED worker
  BY <1>3 DEF CallerNext, Ask, AskStart, AskResume, AskRetry, AskCancel,
     AskSkip, AskResend, AskStop, Begin,
     Requeue, StartDraft, Resume, RetryFailed, Requeued, Enqueue, EnqueueFails, CancelRun,
     AbortAndRemove, SkipDeliveries, StopRun, ResendDeliver, ResendReadExisting,
     ResendRecord
<1>4. QED
  BY <1>1, <1>2, <1>3 DEF Next

\* What a request is about to send again has been recorded.
LEMMA ResendsStayRecorded ==
  ASSUME TypeInv, TypeInv', Progress, LedgerGrows, [Next]_vars
  PROVE  ResendsRecorded'
<1> USE DEF TypeInv, TypeOK, StepsOK
<1>1. CASE UNCHANGED call
  BY <1>1 DEF Progress, ResendsRecorded, CallState, LedgerGrows
<1>2. CASE call' = [c \in Callers |-> IdleCall]
  BY <1>2 DEF ResendsRecorded, IdleCall
<1>3. ASSUME NEW c \in Callers, Ask(c) PROVE ResendsRecorded'
  <2>1. PICK step \in CallSteps \ {"read", "record"}, S \in SUBSET Seqs :
          /\ Begin(c, step, S)
          /\ step = "deliver" => "resend" \in Ops /\ S = FailedSequences(ledger)
    BY <1>3, AskBegins
  <2>2. UNCHANGED ledger
    BY <2>1 DEF Begin, rowVars
  <2>3. step = "deliver" => \A s \in S : Recorded(ledger, s)
    BY <2>1 DEF FailedSequences, Recorded
  <2>4. call'[c].step = step /\ call'[c].seqs = S
    BY <2>1, IdleOK DEF Begin, CallState
  <2>5. \A d \in Callers \ {c} : call'[d] = call[d]
    BY <2>1 DEF Begin
  <2>6. QED
    BY <2>2, <2>3, <2>4, <2>5 DEF Progress, ResendsRecorded, Recorded
<1>4. ASSUME NEW c \in Callers,
             \A d \in Callers \ {c} : call'[d] = call[d],
             \/ call'[c].step \notin {"deliver", "read", "record"}
             \/ /\ call[c].step \in {"deliver", "read", "record"}
                /\ call'[c].seqs \subseteq call[c].seqs
      PROVE  ResendsRecorded'
  BY <1>4 DEF Progress, ResendsRecorded, CallState, LedgerGrows
<1>5. ASSUME NEW c \in Callers,
             \/ Requeue(c) \/ Enqueue(c) \/ EnqueueFails(c) \/ CancelRun(c)
             \/ AbortAndRemove(c) \/ SkipDeliveries(c) \/ StopRun(c)
      PROVE  ResendsRecorded'
  <2>1. /\ \A d \in Callers \ {c} : call'[d] = call[d]
        /\ call'[c].step \notin {"deliver", "read", "record"}
    BY <1>5 DEF Requeue, StartDraft, Resume, RetryFailed, Requeued,
       Enqueue, EnqueueFails, CancelRun, AbortAndRemove,
       SkipDeliveries, StopRun, Done, IdleCall, CallState
  <2>2. QED
    BY <1>4, <2>1
<1>6. ASSUME NEW c \in Callers, ResendDeliver(c) PROVE ResendsRecorded'
  <2>1. PICK o \in Outcome :
          call' = [call EXCEPT ![c] = [@ EXCEPT !.step = "read", !.outcome = o]]
    BY <1>6 DEF ResendDeliver
  <2>2. /\ \A d \in Callers \ {c} : call'[d] = call[d]
        /\ call[c].step = "deliver" /\ call'[c].seqs = call[c].seqs
    BY <1>6, <2>1 DEF ResendDeliver, CallState
  <2>3. QED
    BY <1>4, <2>2
<1>7. ASSUME NEW c \in Callers, ResendReadExisting(c) PROVE ResendsRecorded'
  <2>1. PICK s \in First(call[c].seqs) :
          call' = [call EXCEPT ![c] = [@ EXCEPT !.step = "record", !.seen = ledger[s]]]
    BY <1>7 DEF ResendReadExisting
  <2>2. /\ \A d \in Callers \ {c} : call'[d] = call[d]
        /\ call[c].step = "read" /\ call'[c].seqs = call[c].seqs
    BY <1>7, <2>1 DEF ResendReadExisting, CallState
  <2>3. QED
    BY <1>4, <2>2
<1>8. ASSUME NEW c \in Callers, ResendRecord(c) PROVE ResendsRecorded'
  <2>1. PICK s \in First(call[c].seqs) :
          call' = [call EXCEPT ![c] =
               IF call[c].seqs \ {s} = {} THEN IdleCall
               ELSE [@ EXCEPT !.step = "deliver", !.seqs = call[c].seqs \ {s}]]
    BY <1>8 DEF ResendRecord
  <2>2. /\ \A d \in Callers \ {c} : call'[d] = call[d]
        /\ call[c].step = "record" /\ call'[c].seqs \subseteq call[c].seqs
    BY <1>8, <2>1 DEF ResendRecord, CallState, IdleCall
  <2>3. QED
    BY <1>4, <2>2
<1>9. CASE UNCHANGED vars
  BY <1>1, <1>9 DEF vars
<1>10. CASE WorkerNext
  BY <1>1, <1>10 DEF WorkerNext, TakeJob, FetchRun, MarkRunning, OpenStream,
     OpenFails, StopOnAbort, PollControl, SkipPoll, StreamFails, Flush, Deliver,
     ReadExisting, RecordDelivery, Advance, Finish, Finalize, AckJob
<1>11. CASE StalledCheck \/ ProcessNext
  BY <1>1, <1>2, <1>11 DEF StalledCheck, ProcessNext, Crash, Shutdown, Boot,
     RecoverRun, RecoverEnqueue
<1>12. QED
  BY <1>3, <1>5, <1>6, <1>7, <1>8, <1>9, <1>10, <1>11 DEF Next, CallerNext

\* The cursor checkpoints covered rows only.
LEMMA CursorStaysCovered ==
  ASSUME OneBatchSize, TypeInv, TypeInv', Progress, LedgerGrows, [Next]_vars
  PROVE  Aligned(cursor)' /\ CoveredBelow(cursor)'
<1>1. CoveredBelow(cursor) /\ Aligned(cursor)
  BY DEF Progress
<1>2. CASE UNCHANGED cursor
  BY <1>1, <1>2, CoverageKept DEF CoveredBelow, Aligned
<1>3. CASE Advance
  <2>1. UNCHANGED ledger /\ worker.step = "advance"
    BY <1>3 DEF Advance
  <2>2. CASE IsFull(worker)
    <3>1. cursor' = worker.next + worker.config.batch
      BY <1>3, <2>2 DEF Advance
    <3>2. cursor' = worker.next + RowsOf(worker)
      BY <2>2, <3>1 DEF IsFull
    <3>3. CoveredBelow(worker.next + RowsOf(worker)) /\ Aligned(worker.next + RowsOf(worker))
      BY <2>1, AdvanceCovers, AdvanceAligns
    <3>4. QED
      BY <2>1, <3>2, <3>3, Zenon DEF CoveredBelow, Aligned
  <2>3. CASE ~IsFull(worker)
    <3>1. UNCHANGED cursor
      BY <1>3, <2>3 DEF Advance
    <3>2. QED
      BY <1>2, <3>1
  <2>4. QED
    BY <2>2, <2>3
<1>4. ASSUME NEW c \in Callers, Requeue(c)
      PROVE  Aligned(cursor)' /\ CoveredBelow(cursor)'
  <2>1. CASE cursor' = 0
    <3>1. B \in Nat \ {0}
      BY WorkerBatch
    <3>2. 0 \div B \in Nat /\ B * (0 \div B) <= 0
      BY <3>1, DivBounds
    <3>3. B * (0 \div B) = 0
      BY <3>1, <3>2
    <3>4. QED
      BY <2>1, <3>3 DEF Aligned, CoveredBelow
  <2>2. CASE UNCHANGED cursor
    BY <1>2, <2>2
  <2>3. QED
    BY <1>4, <2>1, <2>2 DEF Requeue, StartDraft, Resume, RetryFailed
<1>5. QED
  BY <1>2, <1>3, <1>4, CursorFrame

\* No step of the worker goes past what the ledger holds.
LEMMA WorkerStaysBacked ==
  ASSUME OneBatchSize, TypeInv, TypeInv', Progress, LedgerGrows, [Next]_vars
  PROVE  WorkerBacked'
<1> USE DEF TypeInv, TypeOK, StepsOK
<1>1. CASE UNCHANGED worker
  <2>1. worker.step = "advance" => SeqOf(worker) \in Seqs
    BY BatchInRange
  <2>2. worker.done \subseteq Seqs
    BY DEF WorkerState
  <2>3. CoveredBelow(worker.next) => CoveredBelow(worker.next)'
    BY <1>1, CoverageKept DEF CoveredBelow
  <2>4. CoveredBelow(NumRows) => CoveredBelow(NumRows)'
    BY CoverageKept DEF CoveredBelow
  <2>5. QED
    BY <1>1, <2>1, <2>2, <2>3, <2>4
       DEF Progress, WorkerBacked, Aligned, LedgerGrows, SeqOf
<1>2. CASE worker' = IdleWorker
  BY <1>2 DEF WorkerBacked, IdleWorker, Executing
<1>3. ASSUME UNCHANGED ledger, worker'.done = worker.done, worker'.next = worker.next,
             worker.step \in Executing, worker'.step \in Executing \ {"advance"}
      PROVE  WorkerBacked'
  BY <1>3 DEF Progress, WorkerBacked, Executing, Aligned, CoveredBelow
<1>4. ASSUME UNCHANGED ledger, worker'.done = worker.done,
             worker'.step \notin Executing,
             worker'.step = "finalize" => worker'.outcome # "completed"
      PROVE  WorkerBacked'
  BY <1>4 DEF Progress, WorkerBacked, Executing
<1>5. CASE TakeJob \/ StopOnAbort \/ StreamFails \/ Finalize
  <2>1. CASE TakeJob \/ Finalize
    BY <1>4, <2>1 DEF TakeJob, Finalize, Executing, WorkerState, rowVars
  <2>2. CASE StopOnAbort \/ StreamFails
    <3>1. PICK result \in {"canceled", "failed"} : Finalizing(result)
      BY <2>2 DEF StopOnAbort, StreamFails
    <3>2. result \in Terminal
      BY DEF Terminal
    <3>3. QED
      BY <1>4, <2>2, <3>1, <3>2, FinalizingType
         DEF StopOnAbort, StreamFails, Executing, rowVars
  <2>3. QED
    BY <1>5, <2>1, <2>2
<1>6. CASE FetchRun
  <2>1. CASE worker'.step \in {"ack", "finalize"}
    BY <1>4, <1>6, <2>1 DEF FetchRun, Executing, WorkerState, rowVars
  <2>2. CASE worker'.step \notin {"ack", "finalize"}
    <3>1. /\ worker'.next = cursor /\ worker'.step = "mark"
          /\ worker'.done = worker.done /\ UNCHANGED ledger
      BY <1>6, <2>2 DEF FetchRun, WorkerState, rowVars
    <3>2. QED
      BY <3>1 DEF Progress, WorkerBacked, Aligned, CoveredBelow
  <2>3. QED
    BY <2>1, <2>2
<1>7. CASE MarkRunning \/ SkipPoll \/ ReadExisting
  BY <1>3, <1>7 DEF MarkRunning, SkipPoll, ReadExisting, Executing, WorkerState, rowVars
<1>8. CASE OpenStream
  <2>1. /\ worker'.next = worker.next /\ worker'.step = "stream"
        /\ worker'.done = SettledSequences(ledger)
        /\ worker.step = "open" /\ UNCHANGED ledger
    BY <1>8 DEF OpenStream, WorkerState, rowVars
  <2>2. QED
    BY <2>1 DEF Progress, WorkerBacked, Executing, Aligned, CoveredBelow,
       SettledSequences, Settled, Recorded
<1>9. CASE PollControl
  <2>1. CASE CancelRequested
    BY <1>4, <1>9, <2>1 DEF PollControl, Finalizing, Executing, WorkerState, rowVars
  <2>2. CASE ~CancelRequested
    <3>1. /\ worker'.next = worker.next /\ worker'.step = "ready"
          /\ worker'.done = worker.done \union SkippedSequences(ledger)
          /\ worker.step \in Executing /\ UNCHANGED ledger
      BY <1>9, <2>2 DEF PollControl, AtRow, Executing, WorkerState, rowVars
    <3>2. QED
      BY <3>1 DEF Progress, WorkerBacked, Aligned, CoveredBelow, SkippedSequences,
         Recorded
  <2>3. QED
    BY <2>1, <2>2
<1>10. CASE Flush
  <2>1. /\ worker'.next = worker.next /\ worker'.config = worker.config
        /\ worker'.done = worker.done
        /\ worker.step \in Executing /\ UNCHANGED ledger
    BY <1>10 DEF Flush, Executing, WorkerState, rowVars
  <2>2. \/ worker'.step = "deliver"
        \/ worker'.step = "advance" /\ SeqOf(worker) \in worker.done
    BY <1>10 DEF Flush, WorkerState
  <2>3. QED
    BY <2>1, <2>2 DEF Progress, WorkerBacked, Aligned, CoveredBelow, SeqOf
<1>11. CASE Deliver
  <2>1. CASE worker'.step = "read"
    BY <1>3, <1>11, <2>1 DEF Deliver, Executing, Finalizing, WorkerState, rowVars
  <2>2. CASE worker'.step # "read"
    BY <1>4, <1>11, <2>2 DEF Deliver, Executing, Finalizing, WorkerState, rowVars
  <2>3. QED
    BY <2>1, <2>2
<1>12. CASE RecordDelivery
  <2>1. SeqOf(worker) \in Seqs /\ worker.outcome \in Outcome
    BY <1>12, BatchInRange DEF RecordDelivery
  <2>2. Recorded(ledger', SeqOf(worker))
    BY <1>12, <2>1, UpsertGrows DEF RecordDelivery
  <2>3. /\ worker'.next = worker.next /\ worker'.config = worker.config
        /\ worker'.done = worker.done /\ worker'.step = "advance"
        /\ worker.step \in Executing
    BY <1>12 DEF RecordDelivery, Executing, WorkerState
  <2>4. CoveredBelow(worker.next) /\ Aligned(worker.next)
    BY <2>3 DEF Progress, WorkerBacked
  <2>5. CoveredBelow(worker.next)'
    BY <2>3, <2>4, CoverageKept DEF CoveredBelow
  <2>6. worker.done \subseteq Seqs
    BY DEF WorkerState
  <2>7. QED
    BY <2>2, <2>3, <2>4, <2>5, <2>6
       DEF Progress, WorkerBacked, Aligned, LedgerGrows, SeqOf
<1>13. CASE Advance
  <2>1. worker.step = "advance" /\ UNCHANGED ledger
    BY <1>13 DEF Advance
  <2>2. /\ worker'.next = worker.next + RowsOf(worker) /\ worker'.done = worker.done
        /\ \/ worker'.step = "stream"
           \/ worker'.step = "finalize" /\ worker'.outcome = "failed"
    <3> DEFINE n == worker.next + RowsOf(worker)
    <3>1. \/ worker' = [worker EXCEPT !.next = n, !.step = "finalize", !.outcome = "failed"]
          \/ worker' = [worker EXCEPT !.next = n, !.step = "stream"]
      BY <1>13 DEF Advance, WorkerState
    <3> HIDE DEF n
    <3>2. QED
      BY <3>1 DEF WorkerState, n
  <2>3. CoveredBelow(worker.next + RowsOf(worker)) /\ Aligned(worker.next + RowsOf(worker))
    BY <2>1, AdvanceCovers, AdvanceAligns
  <2>4. CoveredBelow(worker.next)' /\ Aligned(worker.next)'
    BY <2>1, <2>2, <2>3, Zenon DEF CoveredBelow, Aligned
  <2>5. QED
    BY <2>1, <2>2, <2>4 DEF Progress, WorkerBacked
<1>14. CASE Finish
  <2>1. worker.next = NumRows /\ worker.step \in Executing
    BY <1>14, NumRowsAssumption DEF Finish, Exhausted, WorkerState, Executing
  <2>2. CoveredBelow(NumRows)
    BY <2>1 DEF Progress, WorkerBacked
  <2>3. worker'.step = "finalize" /\ worker'.done = worker.done /\ UNCHANGED ledger
    BY <1>14 DEF Finish, Finalizing, WorkerState, rowVars
  <2>4. QED
    BY <2>2, <2>3 DEF Progress, WorkerBacked, Executing, CoveredBelow
<1>15. CASE OpenFails \/ AckJob
  BY <1>2, <1>15 DEF OpenFails, AckJob
<1>16. QED
  BY <1>1, <1>2, <1>5, <1>6, <1>7, <1>8, <1>9, <1>10, <1>11, <1>12, <1>13, <1>14,
     <1>15, WorkerFrame DEF WorkerNext

\* In the beginning there is no progress to back.
LEMMA ProgressInit == OneBatchSize /\ Init => Progress
<1> SUFFICES ASSUME OneBatchSize, Init PROVE Progress
  OBVIOUS
<1>1. \A s \in Seqs : ~Recorded(ledger, s)
  BY DEF Init, Recorded, NoEntry
<1>2. B \in Nat \ {0} /\ B * (0 \div B) = 0
  <2>1. B \in Nat \ {0}
    BY BatchPositive, AnyConfigOK DEF B
  <2>2. 0 \div B \in Nat /\ B * (0 \div B) <= 0
    BY <2>1, DivBounds
  <2>3. QED
    BY <2>1, <2>2
<1>3. Aligned(cursor) /\ CoveredBelow(cursor)
  BY <1>2 DEF Init, Aligned, CoveredBelow
<1>4. WorkerBacked
  BY DEF Init, IdleWorker, WorkerBacked, Executing
<1>5. ResendsRecorded /\ CompletedCovered
  BY DEF Init, IdleCall, ResendsRecorded, CompletedCovered
<1>6. QED
  BY <1>1, <1>3, <1>4, <1>5 DEF Progress, EntriesFit

\* Every step backs its progress by the ledger.
LEMMA ProgressStep ==
  ASSUME OneBatchSize, TypeInv, TypeInv', Progress, [Next]_vars
  PROVE  Progress'
<1>1. LedgerGrows
  BY LedgerOnlyGrows
<1>2. CompletedCovered'
  <2>1. CASE UNCHANGED status \/ status' # "completed"
    BY <1>1, <2>1, CoverageKept DEF Progress, CompletedCovered
  <2>2. CASE Finalize
    <3>1. status' = worker.outcome /\ worker.step = "finalize" /\ UNCHANGED ledger
      BY <2>2 DEF Finalize
    <3>2. QED
      BY <3>1 DEF Progress, WorkerBacked, CoveredBelow, CompletedCovered
  <2>3. QED
    BY <2>1, <2>2, StatusFrame
<1>3. EntriesFit' /\ WorkerBacked' /\ ResendsRecorded'
  BY <1>1, EntriesStayFit, WorkerStaysBacked, ResendsStayRecorded
<1>4. Aligned(cursor)' /\ CoveredBelow(cursor)'
  BY <1>1, CursorStaysCovered
<1>5. QED
  BY <1>2, <1>3, <1>4 DEF Progress

\* So the progress is backed in every state of a behaviour.
LEMMA ProgressInvariant == ASSUME OneBatchSize PROVE Spec => []Progress
<1>1. Init => TypeInv /\ Progress
  BY TypeInit, ProgressInit
<1>2. TypeInv /\ Progress /\ [Next]_vars => (TypeInv /\ Progress)'
  BY TypeStep, ProgressStep
<1>3. QED
  BY <1>1, <1>2, PTL DEF Spec

\* While the batch size of the hook is not edited, a run can be resumed where it stopped:
\* no row before the checkpointed cursor is missing from the ledger, through crashes,
\* recoveries, cancels, skips, retries and resends in any interleaving.
THEOREM CursorIsBacked == ASSUME OneBatchSize PROVE Spec => []CursorCovered
<1>1. Progress => CursorCovered
  BY DEF Progress, CursorCovered, CoveredBelow
<1>2. QED
  BY <1>1, ProgressInvariant, PTL

\* Nor is a row of a run that was announced completed.
THEOREM RowsAccountedFor == ASSUME OneBatchSize PROVE Spec => []CompletedCovered
<1>1. Progress => CompletedCovered
  BY DEF Progress
<1>2. QED
  BY <1>1, ProgressInvariant, PTL
------------------------------------------------------------------------------
(***************************************************************************)
(* Cancels.                                                                 *)
(***************************************************************************)

\* Nothing on the way to canceled but a cancel that was written.
CancelInv ==
  /\ status \in {"canceling", "canceled"} => cancelAsked
  /\ worker.step = "finalize" /\ worker.outcome = "canceled" => cancelAsked
  /\ controller = "aborted" => cancelAsked
  /\ \A c \in Callers : call[c].step = "abort" => cancelAsked

\* Only a shutdown aborts a run nobody canceled.
LEMMA CancelWorker ==
  ASSUME TypeInv, CancelInv, WorkerNext
  PROVE  CancelInv'
<1>1. UNCHANGED <<call, cancelAsked>>
  BY DEF WorkerNext, TakeJob, FetchRun, MarkRunning, OpenStream, OpenFails, StopOnAbort,
     PollControl, SkipPoll, StreamFails, Flush, Deliver, ReadExisting, RecordDelivery,
     Advance, Finish, Finalize, AckJob, histVars
<1>2. (status' = status /\ controller' \in {controller, "live", "none"}) \/ MarkRunning \/ Finalize
  BY DEF WorkerNext, TakeJob, FetchRun, OpenStream, OpenFails, StopOnAbort,
     PollControl, SkipPoll, StreamFails, Flush, Deliver, ReadExisting, RecordDelivery,
     Advance, Finish, AckJob, rowVars
<1>3. status' \in {"canceling", "canceled"} => cancelAsked
  BY <1>2 DEF CancelInv, MarkRunning, Finalize, TypeInv, StepsOK, Terminal
<1>4. controller' = "aborted" => cancelAsked
  BY <1>2 DEF CancelInv, MarkRunning, Finalize
<1>5. worker'.step = "finalize" /\ worker'.outcome = "canceled" =>
        \/ worker.step = "finalize" /\ worker.outcome = "canceled"
        \/ controller = "aborted" \/ CancelRequested
  <2>1. worker \in WorkerState
    BY DEF TypeInv, TypeOK
  <2>2. CASE TakeJob \/ MarkRunning \/ OpenStream
    BY <2>1, <2>2 DEF TakeJob, MarkRunning, OpenStream, WorkerState
  <2>9. CASE OpenFails \/ AckJob
    BY <2>9 DEF OpenFails, AckJob, IdleWorker
  <2>7. CASE FetchRun
    <3>1. \/ worker' = [worker EXCEPT !.step = "ack"]
          \/ status = "canceling"
          \/ worker' = [worker EXCEPT !.step = "mark", !.next = cursor, !.config = config]
      BY <2>7 DEF FetchRun
    <3> QED BY <2>1, <3>1 DEF WorkerState, CancelRequested
  <2>3. CASE StopOnAbort \/ PollControl \/ StreamFails \/ Finish
    BY <2>1, <2>3 DEF StopOnAbort, PollControl, StreamFails, Finish, Finalizing, WorkerState
  <2>4. CASE SkipPoll \/ ReadExisting \/ RecordDelivery \/ Finalize
    BY <2>1, <2>4 DEF SkipPoll, ReadExisting, RecordDelivery, Finalize, WorkerState
  <2>8. CASE Flush
    <3>1. PICK step \in {"advance", "deliver"} :
            worker' = [worker EXCEPT !.outcome = "none", !.step = step]
      BY <2>8 DEF Flush
    <3> QED BY <2>1, <3>1 DEF WorkerState
  <2>5. CASE Deliver
    BY <2>1, <2>5 DEF Deliver, Finalizing, WorkerState
  <2>6. CASE Advance
    <3> DEFINE n == worker.next + RowsOf(worker)
    <3>1. \/ worker' = [worker EXCEPT !.next = n, !.step = "finalize", !.outcome = "failed"]
          \/ worker' = [worker EXCEPT !.next = n, !.step = "stream"]
      BY <2>1, <2>6 DEF Advance, WorkerState
    <3> HIDE DEF n
    <3> QED BY <2>1, <3>1 DEF WorkerState
  <2> QED BY <2>2, <2>3, <2>4, <2>5, <2>6, <2>7, <2>8, <2>9 DEF WorkerNext
<1>6. worker'.step = "finalize" /\ worker'.outcome = "canceled" => cancelAsked
  BY <1>5 DEF CancelInv, CancelRequested
<1> QED BY <1>1, <1>3, <1>4, <1>6 DEF CancelInv

\* A request aborts the run after it has written the cancel.
LEMMA CancelCaller ==
  ASSUME TypeInv, CancelInv, NEW c \in Callers, CallerNext(c)
  PROVE  CancelInv'
<1>1. UNCHANGED worker
  BY DEF CallerNext, Ask, AskStart, AskResume, AskRetry, AskCancel, AskSkip, AskResend,
     AskStop, Begin, Requeue, StartDraft, Resume, RetryFailed, Requeued, Enqueue,
     EnqueueFails, CancelRun, AbortAndRemove, SkipDeliveries, StopRun, ResendDeliver,
     ResendReadExisting, ResendRecord
<1>2. CASE CancelRun(c)
  BY <1>1, <1>2 DEF CancelRun, CancelInv
<1>3. CASE AbortAndRemove(c)
  <2>1. cancelAsked /\ cancelAsked' = cancelAsked /\ status' = status
    BY <1>3 DEF AbortAndRemove, CancelInv, rowVars, histVars
  <2> QED BY <1>1, <2>1 DEF CancelInv
<1>4. CASE Ask(c)
  <2>1. PICK step, S : Begin(c, step, S) /\ step # "abort"
    BY <1>4 DEF Ask, AskStart, AskResume, AskRetry, AskCancel, AskSkip, AskResend, AskStop
  <2>2. call' = [call EXCEPT ![c] =
                   [IdleCall EXCEPT !.step = step, !.config = config, !.seqs = S]]
    BY <2>1 DEF Begin
  <2>3. UNCHANGED <<status, controller, cancelAsked>>
    BY <2>1 DEF Begin, rowVars
  <2>4. \A b \in Callers : call'[b].step = "abort" => call[b].step = "abort"
    <3> DEFINE q == [IdleCall EXCEPT !.step = step, !.config = config, !.seqs = S]
    <3>1. q.step = step
      BY DEF IdleCall
    <3> HIDE DEF q
    <3> QED BY <2>1, <2>2, <3>1 DEF TypeInv, TypeOK, q
  <2> QED BY <1>1, <2>3, <2>4 DEF CancelInv
<1>5. CASE \/ Requeue(c) \/ Enqueue(c) \/ EnqueueFails(c) \/ SkipDeliveries(c)
           \/ StopRun(c) \/ ResendDeliver(c) \/ ResendReadExisting(c) \/ ResendRecord(c)
  <2>1. UNCHANGED <<controller, cancelAsked>> /\ status' \in {status, "queued", "paused"}
    BY <1>5 DEF Requeue, StartDraft, Resume, RetryFailed, Requeued, Enqueue,
       EnqueueFails, SkipDeliveries, StopRun, ResendDeliver, ResendReadExisting,
       ResendRecord, rowVars, histVars
  <2>2. \A b \in Callers : call'[b].step = "abort" => call[b].step = "abort"
    <3>1. call[c] \in CallState /\ IdleCall.step = "idle"
      BY DEF TypeInv, TypeOK, IdleCall
    <3>2. \E q : call' = [call EXCEPT ![c] = q] /\ q.step # "abort"
      <4>1. CASE Requeue(c)
        BY <3>1, <4>1 DEF Requeue, StartDraft, Resume, RetryFailed, Requeued, CallState
      <4>2. CASE Enqueue(c) \/ EnqueueFails(c) \/ SkipDeliveries(c) \/ StopRun(c)
        BY <3>1, <4>2 DEF Enqueue, EnqueueFails, SkipDeliveries, StopRun, Done
      <4>3. CASE ResendDeliver(c)
        <5>1. PICK o \in Outcome :
                call' = [call EXCEPT ![c] = [call[c] EXCEPT !.step = "read", !.outcome = o]]
          BY <4>3 DEF ResendDeliver
        <5>2. [call[c] EXCEPT !.step = "read", !.outcome = o].step # "abort"
          BY <3>1 DEF CallState
        <5> QED BY <5>1, <5>2
      <4>4. CASE ResendReadExisting(c)
        <5>1. PICK e :
                call' = [call EXCEPT ![c] = [call[c] EXCEPT !.step = "record", !.seen = e]]
          BY <4>4 DEF ResendReadExisting
        <5>2. [call[c] EXCEPT !.step = "record", !.seen = e].step # "abort"
          BY <3>1 DEF CallState
        <5> QED BY <5>1, <5>2
      <4>5. CASE ResendRecord(c)
        <5>1. PICK S :
                \/ call' = [call EXCEPT ![c] = IdleCall]
                \/ call' = [call EXCEPT ![c] = [call[c] EXCEPT !.step = "deliver", !.seqs = S]]
          BY <4>5 DEF ResendRecord
        <5>2. [call[c] EXCEPT !.step = "deliver", !.seqs = S].step # "abort"
          BY <3>1 DEF CallState
        <5> QED BY <3>1, <5>1, <5>2
      <4> QED BY <1>5, <4>1, <4>2, <4>3, <4>4, <4>5
    <3> QED BY <3>2 DEF TypeInv, TypeOK
  <2> QED BY <1>1, <2>1, <2>2 DEF CancelInv
<1> QED BY <1>2, <1>3, <1>4, <1>5 DEF CallerNext

LEMMA CancelStep ==
  ASSUME "shutdown" \notin Faults, TypeInv, CancelInv, [Next]_vars
  PROVE  CancelInv'
<1>1. CASE UNCHANGED vars
  BY <1>1 DEF CancelInv, vars, rowVars, histVars
<1>2. CASE StalledCheck \/ ProcessNext
  BY <1>2 DEF StalledCheck, ProcessNext, Crash, Shutdown, Boot, RecoverRun, RecoverEnqueue,
     CancelInv, IdleWorker, IdleCall, rowVars, histVars
<1> QED BY <1>1, <1>2, CancelWorker, CancelCaller DEF Next

\* A run ends up canceled only when somebody asked to cancel it: whatever crashes, fails or
\* is recovered, as long as no orderly shutdown aborts the run.
THEOREM CanceledWasAsked ==
  ASSUME "shutdown" \notin Faults PROVE Spec => []CanceledIsAsked
<1>1. Init => CancelInv
  BY DEF Init, CancelInv, IdleWorker, IdleCall
<1>2. TypeInv /\ CancelInv /\ [Next]_vars => CancelInv'
  BY CancelStep
<1>3. CancelInv => CanceledIsAsked
  BY DEF CancelInv, CanceledIsAsked
<1> QED BY <1>1, <1>2, <1>3, TypeInvariant, PTL DEF Spec
------------------------------------------------------------------------------
(***************************************************************************)
(* The job of an active run.                                                *)
(***************************************************************************)

\* One request at a time starts, skips, stops and resends; a job fails of nothing, and the
\* process dies once at most.
OneAtATime ==
  /\ \A b, c \in Callers : b = c
  /\ Ops \subseteq {"start", "skip", "stop", "resend"}
  /\ Faults \subseteq {"stream", "shutdown"}
  /\ MaxCrashes <= 1

\* The worker has the job it works on, and only a crash leaves one to nobody.
JobHeld ==
  /\ job # "failed"
  /\ worker.step # "idle" => job = "active"
  /\ worker.step = "idle" /\ job = "active" => crashes = 1 /\ stalls = 0
  /\ stalls = 1 => crashes = 1
  /\ proc \in {"down", "booting", "recovering"} => crashes = 1

\* A draft has no job yet, and an active run has one, or somebody about to add it.
JobInv ==
  /\ JobHeld
  /\ status # "canceling"
  /\ status = "draft" => job = "none"
  /\ worker.step = "ack" => status \notin Active
  /\ proc = "recovering" => status # "draft"
  /\ proc \in {"down", "booting", "recovering"} =>
       \A c \in Callers : call[c].step = "idle"
  /\ \A c \in Callers :
       /\ call[c].step \in {"idle", "start", "enqueue", "skip", "stop", "deliver", "read",
                            "record"}
       /\ call[c].step = "start" => status = "draft"
       /\ call[c].step = "enqueue" => job = "none" /\ status = "queued"
  /\ status \in Active /\ proc \in {"up", "stopping"} =>
       job \in {"waiting", "active"} \/ \E c \in Callers : call[c].step = "enqueue"

\* How a step of the worker moves the job and the row.
LEMMA JobWorkerMoves ==
  ASSUME TypeInv, JobInv, WorkerNext, "open" \notin Faults
  PROVE  /\ UNCHANGED <<proc, call, crashes>>
         /\ \/ /\ job = "waiting" /\ job' = "active" /\ worker.step = "idle"
               /\ worker'.step = "fetch" /\ UNCHANGED <<status, stalls>>
            \/ /\ worker.step = "ack" /\ worker'.step = "idle"
               /\ job' = "none" /\ stalls' = 0 /\ UNCHANGED status
            \/ /\ worker.step = "finalize" /\ worker'.step = "ack"
               /\ status' \notin Active \union {"draft"} /\ UNCHANGED <<job, stalls>>
            \/ /\ worker.step # "idle" /\ worker'.step # "idle"
               /\ worker'.step = "ack" => status \notin Active
               /\ status' \in {status, "running"} /\ UNCHANGED <<job, stalls>>
               /\ worker'.step = "ack" => status' = status
<1> USE DEF rowVars, queueVars, histVars
<1>1. UNCHANGED <<proc, call, crashes>>
  BY DEF WorkerNext, TakeJob, FetchRun, MarkRunning, OpenStream, OpenFails, StopOnAbort,
     PollControl, SkipPoll, StreamFails, Flush, Deliver, ReadExisting, RecordDelivery,
     Advance, Finish, Finalize, AckJob
<1>2. worker \in WorkerState
  BY DEF TypeInv, TypeOK
<1>3. CASE TakeJob
  BY <1>1, <1>2, <1>3 DEF TakeJob, WorkerState
<1>4. CASE AckJob
  BY <1>1, <1>2, <1>4 DEF AckJob, IdleWorker
<1>5. CASE Finalize
  BY <1>1, <1>2, <1>5 DEF Finalize, WorkerState, TypeInv, StepsOK, Terminal, Active
<1>6. CASE FetchRun
  <2>1. \/ worker' = [worker EXCEPT !.step = "ack"] /\ status \in Terminal
        \/ worker' = [worker EXCEPT !.step = "finalize", !.outcome = "canceled"]
        \/ worker' = [worker EXCEPT !.step = "mark", !.next = cursor, !.config = config]
    BY <1>6 DEF FetchRun
  <2> QED BY <1>1, <1>2, <1>6, <2>1 DEF FetchRun, WorkerState, Terminal, Active
<1>7. CASE MarkRunning \/ OpenStream \/ SkipPoll \/ ReadExisting \/ RecordDelivery
  BY <1>1, <1>2, <1>7 DEF MarkRunning, OpenStream, SkipPoll, ReadExisting, RecordDelivery,
     WorkerState
<1>8. CASE StopOnAbort \/ PollControl \/ StreamFails \/ Finish \/ Deliver
  BY <1>1, <1>2, <1>8 DEF StopOnAbort, PollControl, StreamFails, Finish, Deliver, AtRow,
     Finalizing, WorkerState
<1>9. CASE Flush
  <2>1. PICK step \in {"advance", "deliver"} :
          worker' = [worker EXCEPT !.outcome = "none", !.step = step]
    BY <1>9 DEF Flush
  <2> QED BY <1>1, <1>2, <1>9, <2>1 DEF Flush, WorkerState
<1>10. CASE Advance
  <2> DEFINE n == worker.next + RowsOf(worker)
  <2>1. \/ worker' = [worker EXCEPT !.next = n, !.step = "finalize", !.outcome = "failed"]
        \/ worker' = [worker EXCEPT !.next = n, !.step = "stream"]
    BY <1>2, <1>10 DEF Advance, WorkerState
  <2> HIDE DEF n
  <2> QED BY <1>1, <1>2, <1>10, <2>1 DEF Advance, WorkerState
<1> QED BY <1>3, <1>4, <1>5, <1>6, <1>7, <1>8, <1>9, <1>10 DEF WorkerNext, OpenFails

\* The worker gives the job up with a run that is at rest.
LEMMA JobWorker ==
  ASSUME OneAtATime, TypeInv, JobInv, WorkerNext
  PROVE  JobInv'
<1>1. "open" \notin Faults
  BY DEF OneAtATime
<1>2. /\ worker.step # "idle" => job = "active"
      /\ status \in RunStatus
  BY DEF JobInv, JobHeld, TypeInv, TypeOK
<1>3. UNCHANGED <<proc, call, crashes>>
  BY <1>1, JobWorkerMoves
<1>4. JobHeld'
  BY <1>1, <1>2, JobWorkerMoves DEF JobInv, JobHeld
<1>5. /\ status' # "canceling"
      /\ status' = "draft" => job' = "none"
      /\ worker'.step = "ack" => status' \notin Active
      /\ proc' = "recovering" => status' # "draft"
  BY <1>1, <1>2, JobWorkerMoves DEF JobInv, Active
<1>6. \A c \in Callers :
        /\ call[c].step = "start" => status' = "draft"
        /\ call[c].step = "enqueue" => job' = "none" /\ status' = "queued"
  <2> SUFFICES ASSUME NEW c \in Callers
               PROVE  /\ call[c].step = "start" => status' = "draft"
                      /\ call[c].step = "enqueue" => job' = "none" /\ status' = "queued"
    OBVIOUS
  <2>1. call[c].step \in {"start", "enqueue"} => job = "none"
    BY DEF JobInv
  <2>2. job # "none"
    BY <1>1, <1>2, JobWorkerMoves
  <2> QED BY <2>1, <2>2
<1>7. status' \in Active => job' \in {"waiting", "active"}
  BY <1>1, <1>2, JobWorkerMoves DEF JobInv, Active
<1> QED BY <1>3, <1>4, <1>5, <1>6, <1>7 DEF JobInv

\* A request starts the run once, and adds the job of the run it started.
LEMMA JobCaller ==
  ASSUME OneAtATime, TypeInv, JobInv, NEW c \in Callers, CallerNext(c)
  PROVE  JobInv'
<1> USE DEF rowVars, queueVars, histVars
<1>1. proc # "down" /\ UNCHANGED <<worker, proc, crashes>>
  BY DEF CallerNext, Ask, AskStart, AskResume, AskRetry, AskCancel, AskSkip, AskResend,
     AskStop, Begin, Requeue, StartDraft, Resume, RetryFailed, Requeued, Enqueue,
     EnqueueFails, CancelRun, AbortAndRemove, SkipDeliveries, StopRun, ResendDeliver,
     ResendReadExisting, ResendRecord
<1>2. Callers = {c} /\ call[c] \in CallState /\ call' = [call EXCEPT ![c] = call'[c]]
  <2>1. Callers = {c} /\ call \in [Callers -> CallState]
    BY DEF OneAtATime, TypeInv, TypeOK
  <2>2. call' \in [Callers -> CallState]
    BY TypeCaller DEF TypeInv, TypeOK
  <2> QED BY <2>1, <2>2
<1>3. call \in [Callers -> CallState]
  BY DEF TypeInv, TypeOK
<1>4. CASE Ask(c)
  <2>1. PICK step, S : /\ step \in {"start", "skip", "deliver", "stop"}
                       /\ Begin(c, step, S)
                       /\ step = "start" => status = "draft"
    BY <1>4 DEF Ask, AskStart, AskResume, AskRetry, AskCancel, AskSkip, AskResend, AskStop,
       OneAtATime
  <2>2. /\ UNCHANGED <<status, job, stalls>> /\ proc = "up" /\ call[c].step = "idle"
        /\ call'[c].step = step
    <3> DEFINE q == [IdleCall EXCEPT !.step = step, !.config = config, !.seqs = S]
    <3>1. q.step = step
      BY DEF IdleCall
    <3>2. call'[c] = q
      BY <1>2, <2>1 DEF Begin, TypeInv, TypeOK
    <3> QED BY <2>1, <3>1, <3>2 DEF Begin
  <2> QED BY <1>1, <1>2, <2>1, <2>2 DEF JobInv, JobHeld
<1>5. CASE Requeue(c)
  <2>1. call[c].step = "start" /\ Requeued(c)
    BY <1>5 DEF Requeue, StartDraft, Resume, RetryFailed, JobInv
  <2>2. /\ status' = "queued" /\ UNCHANGED <<job, stalls>> /\ call'[c].step = "enqueue"
        /\ job = "none"
    <3>1. call' = [call EXCEPT ![c] = [call[c] EXCEPT !.step = "enqueue"]]
      BY <2>1 DEF Requeued
    <3>2. call'[c].step = "enqueue"
      BY <1>2, <1>3, <3>1 DEF CallState
    <3> QED BY <2>1, <3>2 DEF Requeued, JobInv
  <2> QED BY <1>1, <1>2, <2>1, <2>2 DEF JobInv, JobHeld
<1>6. CASE Enqueue(c)
  <2>1. /\ job = "none" /\ status = "queued" /\ status' = "queued"
        /\ job' = "waiting" /\ stalls' = 0 /\ call'[c].step = "idle"
    BY <1>2, <1>6 DEF Enqueue, AddJob, Done, IdleCall, JobInv, TypeInv, TypeOK
  <2> QED BY <1>1, <1>2, <2>1 DEF JobInv, JobHeld
<1>7. CASE StopRun(c)
  <2>1. /\ status' = "paused" /\ UNCHANGED <<job, stalls>> /\ call'[c].step = "idle"
    BY <1>2, <1>7 DEF StopRun, Done, IdleCall, TypeInv, TypeOK
  <2> QED BY <1>1, <1>2, <2>1 DEF JobInv, JobHeld, Active
<1>8. CASE SkipDeliveries(c)
  <2>1. UNCHANGED <<status, job, stalls>> /\ call'[c].step = "idle" /\ call[c].step = "skip"
    BY <1>2, <1>8 DEF SkipDeliveries, Done, IdleCall, TypeInv, TypeOK
  <2> QED BY <1>1, <1>2, <2>1 DEF JobInv, JobHeld
<1>9. CASE ResendDeliver(c) \/ ResendReadExisting(c) \/ ResendRecord(c)
  <2>1. UNCHANGED <<status, job, stalls>> /\ call[c].step \in {"deliver", "read", "record"}
    BY <1>9 DEF ResendDeliver, ResendReadExisting, ResendRecord
  <2>2. call'[c].step \in {"idle", "deliver", "read", "record"}
    <3>1. CASE ResendDeliver(c)
      <4>1. PICK o \in Outcome :
              call' = [call EXCEPT ![c] = [call[c] EXCEPT !.step = "read", !.outcome = o]]
        BY <3>1 DEF ResendDeliver
      <4> QED BY <1>2, <4>1 DEF CallState, TypeInv, TypeOK
    <3>2. CASE ResendReadExisting(c)
      <4>1. PICK e :
              call' = [call EXCEPT ![c] = [call[c] EXCEPT !.step = "record", !.seen = e]]
        BY <3>2 DEF ResendReadExisting
      <4> QED BY <1>2, <4>1 DEF CallState, TypeInv, TypeOK
    <3>3. CASE ResendRecord(c)
      <4>1. PICK S :
              \/ call' = [call EXCEPT ![c] = IdleCall]
              \/ call' = [call EXCEPT ![c] = [call[c] EXCEPT !.step = "deliver", !.seqs = S]]
        BY <3>3 DEF ResendRecord
      <4>2. [call[c] EXCEPT !.step = "deliver", !.seqs = S].step = "deliver"
        BY <1>2 DEF CallState
      <4>3. IdleCall.step = "idle"
        BY DEF IdleCall
      <4>4. \A q : call' = [call EXCEPT ![c] = q] => call'[c] = q
        BY <1>3
      <4> QED BY <4>1, <4>2, <4>3, <4>4
    <3> QED BY <1>9, <3>1, <3>2, <3>3
  <2> QED BY <1>1, <1>2, <2>1, <2>2 DEF JobInv, JobHeld
<1>10. ~EnqueueFails(c) /\ ~CancelRun(c) /\ ~AbortAndRemove(c)
  BY DEF EnqueueFails, CancelRun, AbortAndRemove, OneAtATime, JobInv
<1> QED BY <1>4, <1>5, <1>6, <1>7, <1>8, <1>9, <1>10 DEF CallerNext

\* A crash leaves the job, and the stalled check or the boot's recovery queues it again.
LEMMA JobProcess ==
  ASSUME OneAtATime, TypeInv, JobInv, StalledCheck \/ ProcessNext
  PROVE  JobInv'
<1> USE DEF rowVars, queueVars, histVars
<1>1. /\ crashes \in 0 .. MaxCrashes /\ MaxCrashes \in Nat /\ MaxCrashes <= 1
      /\ stalls \in 0 .. 1 /\ status \in RunStatus
  BY BoundsAssumption DEF OneAtATime, TypeInv, TypeOK, MaxStalledCount
<1>2. CASE StalledCheck
  <2>1. stalls = 0 /\ crashes = 1
    BY <1>2 DEF StalledCheck, JobInv, JobHeld
  <2>2. /\ job = "active" /\ job' = "waiting" /\ stalls' = 1
        /\ UNCHANGED <<status, proc, worker, call, crashes>>
        /\ worker.step = "idle"
    BY <1>2, <2>1 DEF StalledCheck, MaxStalledCount
  <2> QED BY <2>1, <2>2 DEF JobInv, JobHeld
<1>3. CASE Crash
  <2>1. crashes = 0 /\ crashes' = 1
    BY <1>1, <1>3 DEF Crash
  <2>2. stalls = 0
    BY <1>1, <2>1 DEF JobInv, JobHeld
  <2>3. /\ UNCHANGED <<status, job, stalls>> /\ proc' = "down" /\ worker'.step = "idle"
        /\ \A c \in Callers : call'[c].step = "idle"
    BY <1>3 DEF Crash, IdleWorker, IdleCall
  <2> QED BY <2>1, <2>2, <2>3 DEF JobInv, JobHeld
<1>4. CASE Shutdown \/ Boot
  BY <1>4 DEF Shutdown, Boot, JobInv, JobHeld
<1>5. CASE RecoverRun
  <2>1. UNCHANGED <<job, stalls, status, worker, call, crashes>>
    BY <1>5 DEF RecoverRun, JobInv, JobHeld
  <2>2. /\ proc = "booting"
        /\ \/ proc' = "recovering" /\ status \in Active
           \/ proc' = "up" /\ status \notin Active
    BY <1>5 DEF RecoverRun
  <2> QED BY <2>1, <2>2 DEF JobInv, JobHeld, Active
<1>6. CASE RecoverEnqueue
  <2>1. /\ proc = "recovering" /\ proc' = "up"
        /\ UNCHANGED <<status, worker, call, crashes>>
        /\ job' = (IF job = "none" THEN "waiting" ELSE job)
        /\ stalls' = (IF job = "none" THEN 0 ELSE stalls)
    BY <1>6 DEF RecoverEnqueue, AddJob
  <2>2. job \in {"none", "waiting", "active"}
    BY DEF JobInv, JobHeld, TypeInv, TypeOK
  <2> QED BY <2>1, <2>2 DEF JobInv, JobHeld
<1> QED BY <1>2, <1>3, <1>4, <1>5, <1>6 DEF ProcessNext

\* Once no request and no boot is under way, an active run has a job that will be executed:
\* for one caller at a time, who starts, skips, stops and resends, and one crash.
THEOREM ActiveRunHasJob == OneAtATime /\ Spec => []ActiveHasJob
<1>1. Init => JobInv
  BY DEF Init, JobInv, JobHeld, IdleWorker, IdleCall, Active
<1>2. OneAtATime /\ TypeInv /\ JobInv /\ [Next]_vars => JobInv'
  <2> SUFFICES ASSUME OneAtATime, TypeInv, JobInv, [Next]_vars PROVE JobInv'
    OBVIOUS
  <2>1. CASE UNCHANGED vars
    BY <2>1 DEF JobInv, JobHeld, vars, rowVars, queueVars, histVars
  <2> QED BY <2>1, JobWorker, JobCaller, JobProcess DEF Next
<1>3. JobInv => ActiveHasJob
  BY DEF JobInv, ActiveHasJob
<1>4. CASE OneAtATime
  BY <1>1, <1>2, <1>3, <1>4, TypeInvariant, PTL DEF Spec
<1>5. CASE ~OneAtATime
  BY <1>5
<1> QED BY <1>4, <1>5
------------------------------------------------------------------------------
(***************************************************************************)
(* What a run delivers while the batch size of the hook is not edited and   *)
(* nobody resends: nothing twice, and the contract of ReplayContract is     *)
(* kept.                                                                    *)
(***************************************************************************)
Undisturbed == OneBatchSize /\ "resend" \notin Ops

Streaming   == {"stream", "ready", "deliver", "read", "record", "advance"}
ResendSteps == {"deliver", "read", "record"}
NobodyResends == \A c \in Callers : call[c].step \notin ResendSteps

\* The worker alone turns a delivery green, and what was green when it began is in
\* its skip-set; a run that is being executed is not announced completed.
SkipSet ==
  /\ NobodyResends
  /\ worker.step \in {"deliver", "read", "record"} => SeqOf(worker) \notin worker.done
  /\ worker.step \in Streaming =>
       \A s \in Seqs : ledger[s].status = "success" =>
         \/ s \in worker.done
         \/ s * B < worker.next
         \/ worker.step = "advance" /\ s = SeqOf(worker)
  /\ worker.step \in Executing \union {"finalize"} => status # "completed"

Inv == TypeInv /\ Progress /\ SkipSet
------------------------------------------------------------------------------
\* No request gets to the steps of resendFailed.
LEMMA NobodyStartsResending ==
  ASSUME Undisturbed, TypeInv, NobodyResends, [Next]_vars
  PROVE  NobodyResends'
<1> USE DEF TypeInv, TypeOK, NobodyResends, ResendSteps
<1>1. CASE UNCHANGED call
  BY <1>1
<1>2. CASE call' = [c \in Callers |-> IdleCall]
  BY <1>2 DEF IdleCall
<1>3. ASSUME NEW c \in Callers, Ask(c) PROVE NobodyResends'
  <2>1. PICK step \in CallSteps \ {"read", "record"}, S \in SUBSET Seqs :
          /\ Begin(c, step, S)
          /\ step = "deliver" => "resend" \in Ops /\ S = FailedSequences(ledger)
    BY <1>3, AskBegins
  <2>2. step \notin ResendSteps
    BY <2>1 DEF Undisturbed
  <2>3. call'[c].step = step /\ \A d \in Callers \ {c} : call'[d] = call[d]
    BY <2>1, IdleOK DEF Begin, CallState
  <2>4. QED
    BY <2>2, <2>3
<1>4. ASSUME NEW c \in Callers,
             \/ Requeue(c) \/ Enqueue(c) \/ EnqueueFails(c) \/ CancelRun(c)
             \/ AbortAndRemove(c) \/ SkipDeliveries(c) \/ StopRun(c)
      PROVE  NobodyResends'
  <2>1. /\ \A d \in Callers \ {c} : call'[d] = call[d]
        /\ call'[c].step \notin ResendSteps
    BY <1>4 DEF Requeue, StartDraft, Resume, RetryFailed, Requeued,
       Enqueue, EnqueueFails, CancelRun, AbortAndRemove,
       SkipDeliveries, StopRun, Done, IdleCall, CallState
  <2>2. QED
    BY <2>1
<1>5. ASSUME NEW c \in Callers,
             ResendDeliver(c) \/ ResendReadExisting(c) \/ ResendRecord(c)
      PROVE  FALSE
  BY <1>5 DEF ResendDeliver, ResendReadExisting, ResendRecord
<1>6. CASE UNCHANGED vars
  BY <1>1, <1>6 DEF vars
<1>7. CASE WorkerNext
  BY <1>1, <1>7 DEF WorkerNext, TakeJob, FetchRun, MarkRunning, OpenStream,
     OpenFails, StopOnAbort, PollControl, SkipPoll, StreamFails, Flush, Deliver,
     ReadExisting, RecordDelivery, Advance, Finish, Finalize, AckJob
<1>8. CASE StalledCheck \/ ProcessNext
  BY <1>1, <1>2, <1>8 DEF StalledCheck, ProcessNext, Crash, Shutdown, Boot,
     RecoverRun, RecoverEnqueue
<1>9. QED
  BY <1>3, <1>4, <1>5, <1>6, <1>7, <1>8 DEF Next, CallerNext

\* A batch being handled begins at a multiple of the batch size.
LEMMA BatchStart ==
  ASSUME OneBatchSize, TypeInv, Progress,
         worker.step \in {"deliver", "read", "record", "advance"}
  PROVE  /\ SeqOf(worker) \in Seqs /\ SeqOf(worker) * B = worker.next
         /\ worker.next \in Nat /\ worker.next < NumRows
<1>1. /\ worker.next \in Nat /\ worker.next < NumRows
      /\ worker.config.batch = B /\ B \in Nat \ {0}
  BY WorkerBatch DEF TypeInv, TypeOK, StepsOK, WorkerState
<1>2. SeqOf(worker) \in Seqs
  BY <1>1, BatchInRange
<1>3. B * (worker.next \div B) = worker.next
  BY <1>1 DEF Progress, WorkerBacked, Executing, Aligned
<1>4. QED
  BY <1>1, <1>2, <1>3, DivBounds DEF SeqOf

\* What is about to be delivered or recorded is not green.
LEMMA NothingGreenIsHandled ==
  ASSUME OneBatchSize, Inv, worker.step \in {"deliver", "read", "record"}
  PROVE  ledger[SeqOf(worker)].status # "success"
<1>1. SeqOf(worker) \in Seqs /\ SeqOf(worker) * B = worker.next /\ worker.next \in Nat
  BY BatchStart DEF Inv
<1>2. SeqOf(worker) \notin worker.done
  BY DEF Inv, SkipSet
<1>3. QED
  BY <1>1, <1>2 DEF Inv, SkipSet, Streaming

\* Only recordDelivery turns a delivery green.
LEMMA GreenIsRecorded ==
  ASSUME Undisturbed, Inv, [Next]_vars, NEW s \in Seqs,
         ledger'[s].status = "success"
  PROVE  \/ ledger[s].status = "success"
         \/ RecordDelivery /\ s = SeqOf(worker)
<1> USE DEF Inv, TypeInv, TypeOK, StepsOK
<1>1. CASE RecordDelivery
  <2>1. SeqOf(worker) \in Seqs /\ worker.outcome \in Outcome
    BY <1>1, BatchInRange DEF RecordDelivery
  <2>2. s # SeqOf(worker) => ledger'[s] = ledger[s]
    BY <1>1, <2>1, UpsertGrows DEF RecordDelivery
  <2>3. QED
    BY <1>1, <2>2
<1>2. ASSUME NEW c \in Callers, SkipDeliveries(c) PROVE ledger[s].status = "success"
  BY <1>2 DEF SkipDeliveries, SkipEntries
<1>3. ASSUME NEW c \in Callers, ResendRecord(c) PROVE FALSE
  BY <1>3 DEF ResendRecord, SkipSet, NobodyResends, ResendSteps
<1>4. QED
  BY <1>1, <1>2, <1>3, LedgerFrame

\* A green delivery stays green: what a step records was not green.
LEMMA GreenStays ==
  ASSUME Undisturbed, Inv, [Next]_vars, NEW s \in Seqs, ledger[s].status = "success"
  PROVE  ledger'[s].status = "success"
<1> USE DEF Inv, TypeInv, TypeOK, StepsOK
<1>1. CASE RecordDelivery
  <2>1. SeqOf(worker) \in Seqs /\ worker.outcome \in Outcome
    BY <1>1, BatchInRange DEF RecordDelivery
  <2>2. s # SeqOf(worker)
    BY <1>1, NothingGreenIsHandled DEF RecordDelivery, Undisturbed
  <2>3. QED
    BY <1>1, <2>1, <2>2, UpsertGrows DEF RecordDelivery
<1>2. ASSUME NEW c \in Callers, SkipDeliveries(c) PROVE ledger'[s].status = "success"
  <2>1. s \in call[c].seqs => UNCHANGED ledger
    BY <1>2 DEF SkipDeliveries, Recorded
  <2>2. QED
    BY <1>2, <2>1 DEF SkipDeliveries, SkipEntries
<1>3. ASSUME NEW c \in Callers, ResendRecord(c) PROVE FALSE
  BY <1>3 DEF ResendRecord, SkipSet, NobodyResends, ResendSteps
<1>4. QED
  BY <1>1, <1>2, <1>3, LedgerFrame
------------------------------------------------------------------------------
(***************************************************************************)
(* The skip-set is kept by every step.                                      *)
(***************************************************************************)
GreenHandled ==
  worker.step \in Streaming =>
    \A s \in Seqs : ledger[s].status = "success" =>
      \/ s \in worker.done
      \/ s * B < worker.next
      \/ worker.step = "advance" /\ s = SeqOf(worker)

\* The worker's steps, one by one.
LEMMA GreenStaysHandled ==
  ASSUME Undisturbed, Inv, TypeInv', [Next]_vars
  PROVE  /\ GreenHandled'
         /\ (worker.step \in {"deliver", "read", "record"} =>
               SeqOf(worker) \notin worker.done)'
<1> DEFINE Fresh == worker.step \in {"deliver", "read", "record"} =>
                      SeqOf(worker) \notin worker.done
<1> SUFFICES GreenHandled' /\ Fresh'
  OBVIOUS
<1> USE DEF TypeInv, TypeOK, StepsOK
<1>a. TypeInv /\ Progress /\ SkipSet /\ OneBatchSize
  BY DEF Inv, Undisturbed
<1>1. CASE UNCHANGED worker /\ ~RecordDelivery
  <2>1. \A s \in Seqs : ledger'[s].status = "success" => ledger[s].status = "success"
    BY <1>1, GreenIsRecorded
  <2>2. QED
    BY <1>a, <1>1, <2>1 DEF SkipSet, GreenHandled, SeqOf
<1>2. ASSUME worker'.step \notin Streaming PROVE GreenHandled' /\ Fresh'
  BY <1>2 DEF GreenHandled, Streaming
<1>3. CASE worker' = IdleWorker
  BY <1>2, <1>3 DEF IdleWorker, Streaming
<1>4. ASSUME UNCHANGED ledger, worker'.next = worker.next,
             worker.done \subseteq worker'.done,
             worker.step \in Streaming \ {"advance"}
      PROVE  GreenHandled'
  BY <1>a, <1>4 DEF SkipSet, GreenHandled
<1>5. CASE TakeJob \/ FetchRun \/ MarkRunning \/ StopOnAbort \/ StreamFails \/ Finalize
           \/ Finish
  <2>1. worker'.step \notin Streaming
    BY <1>5 DEF TakeJob, FetchRun, MarkRunning, StopOnAbort, StreamFails, Finalizing,
       Finalize, Finish, Streaming, WorkerState
  <2>2. QED
    BY <1>2, <2>1
<1>6. CASE OpenStream
  <2>1. /\ worker'.step = "stream" /\ worker'.done = SettledSequences(ledger)
        /\ UNCHANGED ledger
    BY <1>6 DEF OpenStream, WorkerState, rowVars
  <2>2. QED
    BY <2>1 DEF GreenHandled, SettledSequences, Settled
<1>7. CASE PollControl
  <2>1. CASE CancelRequested
    BY <1>2, <1>7, <2>1 DEF PollControl, Finalizing, Streaming, WorkerState
  <2>2. CASE ~CancelRequested
    <3>1. /\ worker'.next = worker.next /\ worker'.step = "ready"
          /\ worker'.done = worker.done \union SkippedSequences(ledger)
      BY <1>7, <2>2 DEF PollControl, WorkerState
    <3>2. worker.step \in Streaming \ {"advance"} /\ UNCHANGED ledger
      BY <1>7 DEF PollControl, AtRow, Streaming, rowVars
    <3>3. QED
      BY <1>4, <3>1, <3>2
  <2>3. QED
    BY <2>1, <2>2
<1>8. CASE SkipPoll
  BY <1>4, <1>8 DEF SkipPoll, Streaming, WorkerState, rowVars
<1>9. CASE Flush
  <2>1. /\ worker'.next = worker.next /\ worker'.done = worker.done
        /\ worker'.config = worker.config
        /\ worker.step \in Streaming \ {"advance"} /\ UNCHANGED ledger
    BY <1>9 DEF Flush, Streaming, WorkerState, rowVars
  <2>2. SeqOf(worker)' = SeqOf(worker)
    BY <2>1 DEF SeqOf
  <2>3. SeqOf(worker) \in worker.done => worker'.step = "advance"
    BY <1>9 DEF Flush, WorkerState
  <2>4. QED
    BY <1>4, <2>1, <2>2, <2>3
<1>10. CASE Deliver \/ ReadExisting
  <2>1. CASE worker'.step \in {"read", "record"}
    <3>1. /\ worker'.next = worker.next /\ worker'.done = worker.done
          /\ worker'.config = worker.config
          /\ worker.step \in {"deliver", "read"} /\ UNCHANGED ledger
      BY <1>10, <2>1 DEF Deliver, ReadExisting, Finalizing, WorkerState, rowVars
    <3>2. Fresh'
      BY <1>a, <3>1 DEF SkipSet, SeqOf
    <3>3. QED
      BY <1>4, <3>1, <3>2 DEF Streaming
  <2>2. CASE worker'.step \notin {"read", "record"}
    <3>1. worker'.step \notin Streaming
      BY <1>10, <2>2 DEF Deliver, ReadExisting, Finalizing, Streaming, WorkerState
    <3>2. QED
      BY <1>2, <3>1
  <2>3. QED
    BY <2>1, <2>2
<1>11. CASE RecordDelivery
  <2>1. /\ worker'.next = worker.next /\ worker'.done = worker.done
        /\ worker'.config = worker.config /\ worker'.step = "advance"
        /\ worker.step = "record"
    BY <1>11 DEF RecordDelivery, WorkerState
  <2>2. \A s \in Seqs : ledger'[s].status = "success" =>
          ledger[s].status = "success" \/ s = SeqOf(worker)
    BY GreenIsRecorded
  <2>3. QED
    BY <1>a, <2>1, <2>2 DEF SkipSet, GreenHandled, Streaming, SeqOf
<1>12. CASE Advance
  <2>1. worker.step = "advance" /\ UNCHANGED ledger
    BY <1>12 DEF Advance
  <2>2. CASE worker'.step # "stream"
    <3>1. worker'.step \notin Streaming
      BY <1>12, <2>2 DEF Advance, Streaming, WorkerState
    <3>2. QED
      BY <1>2, <3>1
  <2>3. CASE worker'.step = "stream"
    <3>1. worker'.next = worker.next + RowsOf(worker) /\ worker'.done = worker.done
      <4> DEFINE n == worker.next + RowsOf(worker)
      <4>1. \/ worker' = [worker EXCEPT !.next = n, !.step = "finalize",
                                        !.outcome = "failed"]
            \/ worker' = [worker EXCEPT !.next = n, !.step = "stream"]
        BY <1>12 DEF Advance, WorkerState
      <4> HIDE DEF n
      <4>2. worker'.next = n /\ worker'.done = worker.done
        BY <4>1 DEF WorkerState
      <4>3. QED
        BY <4>2 DEF n
    <3>2. /\ SeqOf(worker) * B = worker.next /\ worker.next \in Nat
          /\ worker.next < NumRows
      BY <1>a, <2>1, BatchStart
    <3>3. RowsOf(worker) \in Nat \ {0}
      BY <1>a, <3>2, BatchInRange
    <3>4. B \in Nat
      BY <1>a, WorkerBatch
    <3>5. ASSUME NEW s \in Seqs, ledger[s].status = "success"
          PROVE  s \in worker.done \/ s * B < worker'.next
      <4>1. s * B \in Nat
        BY <3>4 DEF Seqs
      <4>2. s \in worker.done \/ s * B < worker.next \/ s * B = worker.next
        BY <1>a, <2>1, <3>2, <3>5 DEF SkipSet, Streaming
      <4>3. QED
        BY <3>1, <3>2, <3>3, <4>1, <4>2
    <3>6. QED
      BY <2>1, <2>3, <3>1, <3>5 DEF GreenHandled
  <2>4. QED
    BY <2>2, <2>3
<1>13. CASE OpenFails \/ AckJob
  BY <1>3, <1>13 DEF OpenFails, AckJob
<1>14. RecordDelivery => WorkerNext
  BY DEF WorkerNext
<1>15. CASE WorkerNext
  BY <1>5, <1>6, <1>7, <1>8, <1>9, <1>10, <1>11, <1>12, <1>13, <1>15 DEF WorkerNext
<1>16. QED
  BY <1>1, <1>3, <1>14, <1>15, WorkerFrame

\* A run that is being executed was not announced completed when it began, and no
\* request announces it.
LEMMA NotAnnouncedWhileExecuting ==
  ASSUME Inv, TypeInv', [Next]_vars
  PROVE  (worker.step \in Executing \union {"finalize"} => status # "completed")'
<1> USE DEF TypeInv, TypeOK, StepsOK
<1>1. CASE Finalize
  BY <1>1 DEF Finalize, Executing, WorkerState, Inv
<1>2. CASE FetchRun
  BY <1>2 DEF FetchRun, Executing, Terminal, WorkerState, Inv, rowVars
<1>3. CASE status' # "completed"
  BY <1>3
<1>4. CASE /\ UNCHANGED status /\ ~FetchRun /\ ~Finalize
           /\ worker.step \notin Executing \union {"finalize"}
  <2>1. worker'.step \notin Executing \union {"finalize"}
    <3>1. CASE UNCHANGED worker
      BY <1>4, <3>1
    <3>2. CASE worker' = IdleWorker
      BY <3>2 DEF IdleWorker, Executing
    <3>3. CASE WorkerNext
      <4>1. TakeJob \/ AckJob
        BY <1>4, <3>3 DEF WorkerNext, MarkRunning, OpenStream, OpenFails, StopOnAbort,
           PollControl, AtRow, SkipPoll, StreamFails, Flush, Deliver, ReadExisting,
           RecordDelivery, Advance, Finish, Executing
      <4>2. QED
        BY <4>1, IdleOK DEF TakeJob, AckJob, Executing, IdleWorker, WorkerState, Inv
    <3>4. QED
      BY <3>1, <3>2, <3>3, WorkerFrame
  <2>2. QED
    BY <2>1
<1>5. worker.step \in Executing \union {"finalize"} => status # "completed"
  BY DEF Inv, SkipSet
<1>6. QED
  BY <1>1, <1>2, <1>3, <1>4, <1>5, StatusFrame

\* Nothing is green in the beginning.
LEMMA InvInit == Undisturbed /\ Init => Inv
<1> SUFFICES ASSUME Undisturbed, Init PROVE Inv
  OBVIOUS
<1>1. TypeInv /\ Progress
  BY TypeInit, ProgressInit DEF Undisturbed
<1>2. SkipSet
  BY DEF Init, SkipSet, NobodyResends, ResendSteps, IdleCall, IdleWorker, Streaming,
     Executing
<1>3. QED
  BY <1>1, <1>2 DEF Inv

\* The skip-set covers what is green after every step.
LEMMA InvStep == Undisturbed /\ Inv /\ [Next]_vars => Inv'
<1> SUFFICES ASSUME Undisturbed, Inv, [Next]_vars PROVE Inv'
  OBVIOUS
<1>1. TypeInv' /\ Progress'
  BY TypeStep, ProgressStep DEF Inv, Undisturbed
<1>2. NobodyResends'
  BY NobodyStartsResending DEF Inv, SkipSet
<1>3. GreenHandled' /\ (worker.step \in {"deliver", "read", "record"} =>
                          SeqOf(worker) \notin worker.done)'
  BY <1>1, GreenStaysHandled
<1>4. (worker.step \in Executing \union {"finalize"} => status # "completed")'
  BY <1>1, NotAnnouncedWhileExecuting
<1>5. QED
  BY <1>1, <1>2, <1>3, <1>4 DEF Inv, SkipSet, GreenHandled

\* So it does in every state of a behaviour.
LEMMA Invariance == ASSUME Undisturbed PROVE Spec => []Inv
BY InvInit, InvStep, PTL DEF Spec

\* The skip-set does its work: through crashes, recoveries, cancels, resumes and
\* retries, the worker never sends a batch the ledger holds as delivered.
THEOREM NothingDeliveredTwice == ASSUME Undisturbed PROVE Spec => []NoRedelivery
<1>1. Inv => NoRedelivery
  BY NothingGreenIsHandled DEF NoRedelivery, Undisturbed
<1>2. QED
  BY <1>1, Invariance, PTL

\* A cell the user saw green is never overwritten by a failure, a skip or nothing.
THEOREM GreenIsFinal == ASSUME Undisturbed PROVE Spec => SuccessIsFinal
<1>1. Inv /\ [Next]_vars =>
        [\A s \in Seqs : ledger[s].status = "success" =>
                           ledger'[s].status = "success"]_vars
  BY GreenStays
<1>2. QED
  BY <1>1, Invariance, PTL DEF Spec, SuccessIsFinal
------------------------------------------------------------------------------
(***************************************************************************)
(* ReplayRun implements ReplayContract under the same assumptions.          *)
(***************************************************************************)
\* A recorded entry accounts for no row outside its batch.
EntriesInBatch ==
  \A s \in Seqs : Recorded(ledger, s) =>
    ledger[s].rowIndex = s * B /\ ledger[s].rowCount <= B

\* rowCountFor never gives a batch more rows than the batch size.
LEMMA PlannedRowsBound ==
  ASSUME NEW b \in Nat \ {0}, NEW s \in Seqs
  PROVE  PlannedRows(s, NumRows, b) <= b
<1> DEFINE q == (NumRows + b - 1) \div b
<1>1. NumRows + b - 1 \in Nat
  BY NumRowsAssumption
<1>2. q \in Nat /\ NumRows + b - 1 < b * q + b
  BY <1>1, DivBounds
<1> HIDE DEF q
<1>3. (q - 1) * b = b * q - b
  BY <1>2
<1>4. NumRows - (q - 1) * b <= b
  BY <1>2, <1>3, NumRowsAssumption
<1>5. QED
  BY <1>4 DEF PlannedRows, q

\* Every step keeps each entry within the rows of its batch.
LEMMA EntriesInBatchStep ==
  ASSUME Undisturbed, Inv, EntriesInBatch, [Next]_vars
  PROVE  EntriesInBatch'
<1> USE DEF TypeInv, TypeOK, StepsOK
<1>a. TypeInv /\ Progress /\ SkipSet /\ OneBatchSize
  BY DEF Inv, Undisturbed
<1>1. CASE UNCHANGED ledger
  BY <1>1 DEF EntriesInBatch
<1>2. CASE RecordDelivery
  <2>1. /\ SeqOf(worker) \in Seqs /\ SeqOf(worker) * B = worker.next
        /\ worker.next \in Nat /\ worker.next < NumRows
        /\ worker.config.batch = B /\ B \in Nat \ {0}
        /\ worker.outcome \in Outcome
    BY <1>a, <1>2, BatchStart, WorkerBatch DEF RecordDelivery
  <2>2. RowsOf(worker) <= B
    BY <2>1, NumRowsAssumption DEF RowsOf
  <2>3. ASSUME NEW s \in Seqs, Recorded(ledger', s)
        PROVE  ledger'[s].rowIndex = s * B /\ ledger'[s].rowCount <= B
    <3>1. CASE s # SeqOf(worker)
      BY <1>a, <1>2, <2>1, <2>3, <3>1, UpsertGrows DEF RecordDelivery, EntriesInBatch, Recorded
    <3>2. CASE s = SeqOf(worker) /\ Recorded(ledger, s)
      BY <1>a, <1>2, <2>1, <3>2, UpsertGrows DEF RecordDelivery, EntriesInBatch
    <3>3. CASE s = SeqOf(worker) /\ ~Recorded(ledger, s)
      BY <1>a, <1>2, <2>1, <2>2, <3>3, UpsertGrows DEF RecordDelivery
    <3>4. QED
      BY <3>1, <3>2, <3>3
  <2>4. QED
    BY <2>3 DEF EntriesInBatch
<1>3. ASSUME NEW c \in Callers, SkipDeliveries(c) PROVE EntriesInBatch'
  <2>1. call[c].config.batch = B /\ B \in Nat \ {0}
    BY <1>a, WorkerBatch
  <2>2. CASE ledger' = SkipEntries(ledger, call[c].seqs, NumRows, B)
    <3>1. ASSUME NEW s \in Seqs, Recorded(ledger', s)
          PROVE  ledger'[s].rowIndex = s * B /\ ledger'[s].rowCount <= B
      <4>1. CASE s \in call[c].seqs
        <5>1. ledger'[s].rowIndex = s * B
          BY <1>a, <2>2, <4>1 DEF SkipEntries
        <5>2. ledger'[s].rowCount = PlannedRows(s, NumRows, B)
          BY <1>a, <2>2, <4>1 DEF SkipEntries
        <5>3. QED
          BY <2>1, <5>1, <5>2, PlannedRowsBound
      <4>2. CASE s \notin call[c].seqs
        <5>1. ledger'[s] = ledger[s]
          BY <1>a, <2>2, <4>2 DEF SkipEntries
        <5>2. QED
          BY <3>1, <5>1 DEF EntriesInBatch, Recorded
      <4>3. QED
        BY <4>1, <4>2
    <3>2. QED
      BY <3>1 DEF EntriesInBatch
  <2>3. QED
    BY <1>1, <1>3, <2>1, <2>2 DEF SkipDeliveries
<1>4. ASSUME NEW c \in Callers, ResendRecord(c) PROVE FALSE
  BY <1>4 DEF ResendRecord, Inv, SkipSet, NobodyResends, ResendSteps
<1>5. QED
  BY <1>1, <1>2, <1>3, <1>4, LedgerFrame
------------------------------------------------------------------------------
(***************************************************************************)
(* The refinement: each step of the run is a step of the contract.          *)
(***************************************************************************)
\* A batch none of whose rows is recorded by its own sequence is not covered.
LEMMA CoveredBatchIsRecorded ==
  ASSUME OneBatchSize, TypeInv, EntriesInBatch, CoveredBelow(NumRows), NEW b \in Batches
  PROVE  Recorded(ledger, b)
<1>1. /\ b \in Seqs /\ b * B < NumRows /\ B \in Nat \ {0} /\ b \in Nat /\ b * B \in Nat
  BY WorkerBatch DEF Batches, B, Seqs
<1>2. Covered(ledger, b * B)
  BY <1>1, NumRowsAssumption DEF CoveredBelow
<1>3. PICK s \in DOMAIN ledger :
        /\ Recorded(ledger, s)
        /\ ledger[s].rowIndex <= b * B
        /\ b * B < ledger[s].rowIndex + ledger[s].rowCount
  BY <1>2 DEF Covered
<1>4. s \in Seqs /\ s \in Nat
  BY DEF TypeInv, TypeOK, Seqs
<1>5. s * B <= b * B /\ b * B < s * B + B
  BY <1>1, <1>3, <1>4 DEF EntriesInBatch, TypeInv, TypeOK, Entry
<1>6. ASSUME s < b PROVE FALSE
  <2>1. (s + 1) * B <= b * B
    BY <1>1, <1>4, <1>6
  <2>2. QED
    BY <1>1, <1>4, <1>5, <2>1
<1>7. ASSUME s > b PROVE FALSE
  <2>1. (b + 1) * B <= s * B
    BY <1>1, <1>4, <1>7
  <2>2. QED
    BY <1>1, <1>4, <1>5, <2>1
<1>8. s = b
  BY <1>1, <1>4, <1>6, <1>7
<1>9. QED
  BY <1>3, <1>8

\* A draft promises nothing yet.
LEMMA ContractInit == Init => Contract!Init
<1> SUFFICES ASSUME Init PROVE Contract!Init
  OBVIOUS
<1>1. \A b \in Batches : ledger[b].status = "none"
  BY DEF Init, NoEntry, Batches
<1>2. QED
  BY <1>1 DEF Init, Contract!Init, Outcomes, Announced

\* A status that is not written, or written with anything but completed, reopens
\* the contract at most.
LEMMA ReopenStep ==
  ASSUME UNCHANGED ledger, UNCHANGED status \/ status' # "completed"
  PROVE  Contract!Next \/ UNCHANGED <<Outcomes, Announced>>
<1>1. UNCHANGED Outcomes
  BY DEF Outcomes
<1>2. UNCHANGED Announced \/ Announced' = FALSE
  BY DEF Announced
<1>3. QED
  BY <1>1, <1>2 DEF Contract!Next, Contract!Reopen

\* The end of a run announces completion only with every batch settled, or changes nothing.
LEMMA AnnounceStep ==
  ASSUME Undisturbed, Inv, EntriesInBatch, Finalize
  PROVE  Contract!Next \/ UNCHANGED <<Outcomes, Announced>>
<1>1. UNCHANGED ledger /\ status' = worker.outcome /\ worker.step = "finalize"
  BY DEF Finalize
<1>2. CASE worker.outcome # "completed"
  BY <1>1, <1>2, ReopenStep
<1>3. CASE worker.outcome = "completed"
  <2>1. CoveredBelow(NumRows)
    BY <1>1, <1>3 DEF Inv, Progress, WorkerBacked
  <2>2. \A b \in Batches : Recorded(ledger, b)
    BY <2>1, CoveredBatchIsRecorded DEF Inv, Undisturbed
  <2>3. \A b \in Batches : Outcomes[b] # "pending"
    BY <2>2 DEF Outcomes, Recorded, Inv, TypeInv, TypeOK, Entry, DeliveryStatus, Outcome,
       Batches
  <2>4. UNCHANGED Outcomes /\ Announced'
    BY <1>1, <1>3 DEF Outcomes, Announced
  <2>5. QED
    BY <2>3, <2>4 DEF Contract!Next, Contract!Announce, Announced
<1>4. QED
  BY <1>2, <1>3

\* A record is an attempt at one batch.
LEMMA AttemptStep ==
  ASSUME Undisturbed, Inv, RecordDelivery
  PROVE  Contract!Next
<1> DEFINE b == SeqOf(worker)
<1>1. worker.step = "record" /\ UNCHANGED status
  BY DEF RecordDelivery
<1>2. b \in Seqs /\ b * B = worker.next /\ worker.next < NumRows
  BY <1>1, BatchStart DEF Inv, Undisturbed
<1>3. b \in Batches
  BY <1>2 DEF Batches, B
<1>4. ledger[b].status # "success"
  BY <1>1, NothingGreenIsHandled DEF Undisturbed
<1>5. worker.outcome \in Outcome /\ ledger \in [Seqs -> Entry]
  BY <1>1 DEF Inv, TypeInv, TypeOK, StepsOK
<1>6. /\ ledger'[b].status = worker.outcome
      /\ \A d \in Seqs \ {b} : ledger'[d] = ledger[d]
  BY <1>2, <1>5, UpsertGrows DEF RecordDelivery
<1> HIDE DEF b
<1>7. Outcomes' = [Outcomes EXCEPT ![b] = worker.outcome]
  BY <1>3, <1>5, <1>6 DEF Outcomes, Outcome, Batches
<1>8. Outcomes[b] # "success"
  BY <1>3, <1>4 DEF Outcomes
<1>9. ~Announced /\ UNCHANGED Announced
  BY <1>1 DEF Announced, Inv, SkipSet, Executing
<1>10. Contract!Attempt(b)
  BY <1>5, <1>7, <1>8, <1>9 DEF Contract!Attempt, Outcome
<1>11. QED
  BY <1>3, <1>10 DEF Contract!Next

\* A skip settles batches nobody delivered, or changes nothing.
LEMMA SkipStep ==
  ASSUME Undisturbed, Inv, NEW c \in Callers, SkipDeliveries(c)
  PROVE  Contract!Next \/ UNCHANGED <<Outcomes, Announced>>
<1> DEFINE S == call[c].seqs \intersect Batches
<1>1. UNCHANGED status
  BY DEF SkipDeliveries
<1>2. CASE UNCHANGED ledger
  BY <1>1, <1>2, ReopenStep
<1>3. CASE ledger' # ledger
  <2>1. /\ \A s \in call[c].seqs : ~Recorded(ledger, s)
        /\ ledger' = SkipEntries(ledger, call[c].seqs, NumRows, call[c].config.batch)
    BY <1>3 DEF SkipDeliveries
  <2>2. ledger \in [Seqs -> Entry] /\ Batches \subseteq Seqs
    BY DEF Inv, TypeInv, TypeOK, Batches
  <2>3. ASSUME NEW s \in Batches
        PROVE  ledger'[s].status = IF s \in S THEN "skipped" ELSE ledger[s].status
    BY <2>1, <2>2 DEF SkipEntries
  <2>4. \A s \in S : Outcomes[s] = "pending"
    BY <2>1 DEF Outcomes, Recorded
  <2>5. Outcomes' = [s \in Batches |-> IF s \in S THEN "skipped" ELSE Outcomes[s]]
    BY <2>3 DEF Outcomes
  <2>6. UNCHANGED Announced
    BY <1>1 DEF Announced
  <2>7. Contract!Skip(S)
    BY <2>4, <2>5, <2>6 DEF Contract!Skip
  <2>8. QED
    BY <2>7 DEF Contract!Next
<1>4. QED
  BY <1>2, <1>3

\* Every step is one of the contract, or a stutter.
LEMMA ContractStep ==
  ASSUME Undisturbed, Inv, EntriesInBatch, [Next]_vars
  PROVE  [Contract!Next]_<<Outcomes, Announced>>
<1>1. CASE UNCHANGED ledger
  BY <1>1, StatusFrame, ReopenStep, AnnounceStep
<1>2. CASE RecordDelivery
  BY <1>2, AttemptStep
<1>3. ASSUME NEW c \in Callers, SkipDeliveries(c)
      PROVE  [Contract!Next]_<<Outcomes, Announced>>
  BY <1>3, SkipStep
<1>4. ASSUME NEW c \in Callers, ResendRecord(c) PROVE FALSE
  BY <1>4 DEF ResendRecord, Inv, SkipSet, NobodyResends, ResendSteps
<1>5. QED
  BY <1>1, <1>2, <1>3, <1>4, LedgerFrame

\* What the user sees of a run keeps the promise of ReplayContract: a delivered
\* batch is never sent again, only pending batches are skipped, and completed is
\* announced only when no batch is pending, for every source, every interleaving of
\* requests and every crash and recovery.
THEOREM ContractKept == ASSUME Undisturbed PROVE Spec => KeepsContract
<1>1. Undisturbed /\ Init => Inv /\ EntriesInBatch
  <2>1. Init => EntriesInBatch
    BY DEF Init, EntriesInBatch, Recorded, NoEntry
  <2>2. QED
    BY <2>1, InvInit
<1>2. Undisturbed /\ (Inv /\ EntriesInBatch) /\ [Next]_vars => (Inv /\ EntriesInBatch)'
  BY InvStep, EntriesInBatchStep
<1>3. Undisturbed /\ (Inv /\ EntriesInBatch) /\ [Next]_vars =>
        [Contract!Next]_<<Outcomes, Announced>>
  BY ContractStep
<1>4. QED
  BY <1>1, <1>2, <1>3, ContractInit, PTL DEF Spec, KeepsContract, Contract!Spec
------------------------------------------------------------------------------
(***************************************************************************)
(* The counters.  A sum over a finite set is the size of the set of the     *)
(* units summed, which takes the place of an induction.                     *)
(***************************************************************************)

\* The units of f over S, each at most m.
Units(f, S, m) == {p \in S \X (1 .. m) : p[2] <= f[p[1]]}
Total(f, S, m) == Cardinality(Units(f, S, m))

\* One element more adds its own units.
LEMMA TotalStep ==
  ASSUME NEW S, IsFiniteSet(S), NEW m \in Nat, NEW f, NEW x \in S, f[x] \in 0 .. m
  PROVE  /\ Total(f, S, m) \in Nat
         /\ Total(f, S \ {x}, m) \in Nat
         /\ Total(f, S, m) = Total(f, S \ {x}, m) + f[x]
<1> DEFINE V == {x} \X (1 .. f[x])
<1>1. IsFiniteSet(1 .. m) /\ IsFiniteSet(1 .. f[x]) /\ Cardinality(1 .. f[x]) = f[x]
  <2>1. \A n \in Nat : IsFiniteSet(1 .. n) /\ Cardinality(1 .. n) = n
    <3> TAKE n \in Nat
    <3>1. 1 \in Int /\ n \in Int
      OBVIOUS
    <3>2. IsFiniteSet(1 .. n) /\ Cardinality(1 .. n) = IF 1 > n THEN 0 ELSE n - 1 + 1
      BY <3>1, FS_Interval, Zenon
    <3> QED BY <3>2
  <2>2. f[x] \in Nat
    OBVIOUS
  <2> QED BY <2>1, <2>2
<1>2. IsFiniteSet({x}) /\ Cardinality({x}) = 1
  BY FS_Singleton
<1>3. IsFiniteSet(V) /\ Cardinality(V) = f[x]
  <2>1. IsFiniteSet(V) /\ Cardinality(V) = Cardinality({x}) * Cardinality(1 .. f[x])
    BY <1>1, <1>2, FS_Product
  <2> HIDE DEF V
  <2> QED BY <1>1, <1>2, <2>1
<1>4. IsFiniteSet(S \X (1 .. m))
  BY <1>1, FS_Product
<1>5. IsFiniteSet(Units(f, S, m)) /\ IsFiniteSet(Units(f, S \ {x}, m))
  <2>1. Units(f, S, m) \in SUBSET (S \X (1 .. m)) /\ Units(f, S \ {x}, m) \in SUBSET (S \X (1 .. m))
    BY DEF Units
  <2> QED BY <1>4, <2>1, FS_Subset
<1>6. Units(f, S, m) = Units(f, S \ {x}, m) \cup V
  BY DEF Units
<1>7. Units(f, S \ {x}, m) \cap V = {}
  BY DEF Units
<1> HIDE DEF V
<1>8. /\ Cardinality(Units(f, S, m)) = Cardinality(Units(f, S \ {x}, m)) + Cardinality(V)
                                        - Cardinality(Units(f, S \ {x}, m) \cap V)
      /\ Cardinality(Units(f, S, m)) \in Nat /\ Cardinality(Units(f, S \ {x}, m)) \in Nat
  BY <1>3, <1>5, <1>6, FS_Union, FS_CardinalityType
<1>9. Cardinality(Units(f, S \ {x}, m) \cap V) = 0
  BY <1>7, FS_EmptySet
<1> QED BY <1>3, <1>8, <1>9 DEF Total

\* The function MapThenSumSet defines over the subsets of S.
IsSum(g, f, S) ==
  g = [s \in SUBSET S |->
         IF s = {} THEN 0
         ELSE f[CHOOSE x \in s : TRUE] + g[s \ {CHOOSE x \in s : TRUE}]]

\* It is the number of units, whatever order it takes the elements in.
LEMMA SumIsTotal ==
  ASSUME NEW S, IsFiniteSet(S), NEW m \in Nat, NEW f, \A x \in S : f[x] \in 0 .. m
  PROVE  /\ \E g : IsSum(g, f, S)
         /\ \A g : IsSum(g, f, S) => g[S] = Total(f, S, m)
<1> DEFINE c(s) == CHOOSE x \in s : TRUE
<1>1. \A s \in SUBSET S : IsFiniteSet(s)
  BY FS_Subset
<1>2. Total(f, {}, m) = 0
  BY FS_EmptySet DEF Total, Units
<1>3. \A s \in SUBSET S : s # {} =>
        c(s) \in s /\ s \ {c(s)} \in SUBSET S
  OBVIOUS
<1>4. \A s \in SUBSET S : s # {} =>
        Total(f, s, m) = f[c(s)] + Total(f, s \ {c(s)}, m)
  <2> SUFFICES ASSUME NEW s \in SUBSET S, s # {}
               PROVE  Total(f, s, m) = f[c(s)] + Total(f, s \ {c(s)}, m)
    OBVIOUS
  <2>1. PICK y \in s : y = c(s)
    BY <1>3
  <2>2. Total(f, s, m) = Total(f, s \ {y}, m) + f[y] /\ Total(f, s \ {y}, m) \in Nat
    <3>1. IsFiniteSet(s) /\ y \in S /\ f[y] \in 0 .. m
      BY <1>1
    <3> HIDE DEF c
    <3> QED BY <3>1, TotalStep
  <2>3. f[y] \in Int
    OBVIOUS
  <2> HIDE DEF c
  <2> QED BY <2>1, <2>2, <2>3
<1>5. \E g : IsSum(g, f, S)
  <2> DEFINE h == [s \in SUBSET S |-> Total(f, s, m)]
  <2>1. \A s \in SUBSET S :
          h[s] = IF s = {} THEN 0 ELSE f[c(s)] + h[s \ {c(s)}]
    BY <1>2, <1>3, <1>4
  <2>2. h = [s \in SUBSET S |-> h[s]]
    OBVIOUS
  <2> HIDE DEF h
  <2>3. IsSum(h, f, S)
    BY <2>1, <2>2 DEF IsSum
  <2> QED BY <2>3
<1>6. ASSUME NEW g, IsSum(g, f, S) PROVE g[S] = Total(f, S, m)
  <2>1. \A s \in SUBSET S : g[s] = IF s = {} THEN 0 ELSE f[c(s)] + g[s \ {c(s)}]
    BY <1>6 DEF IsSum
  <2> DEFINE T == {s \in SUBSET S : g[s] # Total(f, s, m)}
  <2> SUFFICES ASSUME T # {} PROVE FALSE
    OBVIOUS
  <2>2. T \subseteq FiniteSubsetsOf(S)
    BY <1>1 DEF FiniteSubsetsOf
  <2>3. PICK s \in T : \A t \in T : ~(<<t, s>> \in StrictSubsetOrdering(S))
    <3> HIDE DEF T
    <3> QED BY <2>2, FS_StrictSubsetOrderingWellFounded, WFMin
  <2>4. s # {} /\ s \in SUBSET S
    BY <1>2, <2>1
  <2>5. \A t \in T : ~(t \subseteq s /\ t # s)
    <3> HIDE DEF T
    <3>1. T \subseteq SUBSET S
      BY DEF T
    <3> QED BY <2>3, <2>4, <3>1 DEF StrictSubsetOrdering
  <2>6. PICK y \in s : y = c(s)
    BY <1>3, <2>4
  <2>7. s \ {y} \notin T
    <3>1. s \ {y} \subseteq s /\ s \ {y} # s
      OBVIOUS
    <3> HIDE DEF T
    <3> QED BY <2>5, <3>1
  <2>8. g[s \ {y}] = Total(f, s \ {y}, m)
    BY <2>4, <2>7
  <2>9. g[s] # Total(f, s, m)
    BY <2>3
  <2> HIDE DEF c, T
  <2>10. Total(f, s, m) = f[y] + Total(f, s \ {y}, m)
    BY <1>4, <2>4, <2>6
  <2>11. g[s] = f[y] + g[s \ {y}]
    BY <2>1, <2>4, <2>6
  <2> QED BY <2>8, <2>9, <2>10, <2>11
<1> QED BY <1>5, <1>6

\* The rows under a delivery status, as units of the ledger.
RowCounts(l) == [s \in DOMAIN l |-> l[s].rowCount]
Under(l, k)  == {s \in DOMAIN l : l[s].status = k}

LEMMA RowsAreTotal ==
  ASSUME NEW l, IsFiniteSet(DOMAIN l), NEW m \in Nat, NEW k,
         \A s \in Under(l, k) : l[s].rowCount \in 0 .. m
  PROVE  RowsWithStatus(l, k) = Total(RowCounts(l), Under(l, k), m)
<1> DEFINE S == Under(l, k)
           f == RowCounts(l)
           J(g) == g = [s \in SUBSET S |->
                          IF s = {} THEN 0
                          ELSE l[CHOOSE x \in s : TRUE].rowCount
                                 + g[s \ {CHOOSE x \in s : TRUE}]]
<1>1. IsFiniteSet(S) /\ \A x \in S : f[x] \in 0 .. m
  BY FS_Subset DEF Under, RowCounts
<1>2. RowsWithStatus(l, k) = (CHOOSE g : J(g))[S]
  BY DEF RowsWithStatus, MapThenSumSet, MapThenFoldSet, Under
<1>3. \A g : J(g) <=> IsSum(g, f, S)
  <2>1. \A s \in SUBSET S : s # {} => f[CHOOSE x \in s : TRUE] = l[CHOOSE x \in s : TRUE].rowCount
    BY DEF Under, RowCounts
  <2> QED BY <2>1 DEF IsSum
<1>4. \E g : J(g)
  BY <1>1, <1>3, SumIsTotal
<1>5. J(CHOOSE g : J(g))
  <2> HIDE DEF J
  <2> QED BY <1>4
<1> QED BY <1>1, <1>2, <1>3, <1>5, SumIsTotal

\* A total is a number, and it depends on the values over its set alone.
LEMMA TotalKept ==
  ASSUME NEW S, IsFiniteSet(S), NEW m \in Nat, NEW f, NEW g, \A x \in S : g[x] = f[x]
  PROVE  Total(f, S, m) \in Nat /\ Total(g, S, m) = Total(f, S, m)
<1>1. IsFiniteSet(1 .. m)
  BY FS_Interval
<1>2. IsFiniteSet(S \X (1 .. m))
  BY <1>1, FS_Product
<1>3. Units(f, S, m) \in SUBSET (S \X (1 .. m)) /\ Units(g, S, m) = Units(f, S, m)
  BY DEF Units
<1> QED BY <1>2, <1>3, FS_Subset, FS_CardinalityType DEF Total

\* The rows of entry l under a delivery status.
RowsIf(l, k) == IF l.status = k THEN l.rowCount ELSE 0

\* When one entry changes, only its rows go from one status to another.
LEMMA RowsMove ==
  ASSUME NEW D, IsFiniteSet(D), NEW l \in [D -> Entry], NEW n \in [D -> Entry],
         NEW m \in Nat, NEW k, NEW t \in D,
         \A s \in D : Recorded(l, s) => l[s].rowCount <= m,
         \A s \in D : Recorded(n, s) => n[s].rowCount <= m,
         \A s \in D \ {t} : n[s] = l[s],
         k # "none"
  PROVE  /\ RowsWithStatus(l, k) \in Nat
         /\ RowsWithStatus(n, k) = RowsWithStatus(l, k) - RowsIf(l[t], k) + RowsIf(n[t], k)
<1> DEFINE F(q) == RowCounts(q)
           S(q) == Under(q, k)
<1>1. ASSUME NEW q \in [D -> Entry], \A s \in D : Recorded(q, s) => q[s].rowCount <= m
      PROVE  /\ RowsWithStatus(q, k) = Total(F(q), S(q), m)
             /\ Total(F(q), S(q), m) = Total(F(q), S(q) \ {t}, m) + RowsIf(q[t], k)
             /\ Total(F(q), S(q) \ {t}, m) \in Nat
             /\ RowsIf(q[t], k) \in Nat
             /\ IsFiniteSet(S(q) \ {t})
  <2>1. \A s \in S(q) : q[s].rowCount \in 0 .. m /\ F(q)[s] = q[s].rowCount
    BY <1>1 DEF Under, RowCounts, Recorded, Entry
  <2>2. S(q) \subseteq D /\ IsFiniteSet(S(q)) /\ IsFiniteSet(S(q) \ {t}) /\ DOMAIN q = D
    BY FS_Subset DEF Under
  <2>3. RowsIf(q[t], k) \in Nat
    BY DEF RowsIf, Entry
  <2>4. RowsWithStatus(q, k) = Total(F(q), S(q), m)
    BY <2>1, <2>2, RowsAreTotal
  <2>5. CASE q[t].status = k
    <3>1. t \in S(q) /\ F(q)[t] = RowsIf(q[t], k) /\ F(q)[t] \in 0 .. m
      BY <2>1, <2>5 DEF Under, RowsIf
    <3> HIDE DEF F, S
    <3>2. /\ Total(F(q), S(q), m) = Total(F(q), S(q) \ {t}, m) + F(q)[t]
          /\ Total(F(q), S(q) \ {t}, m) \in Nat
      BY <2>2, <3>1, TotalStep
    <3> QED BY <2>2, <2>3, <2>4, <3>1, <3>2
  <2>6. CASE q[t].status # k
    <3>1. S(q) \ {t} = S(q) /\ RowsIf(q[t], k) = 0
      BY <2>6 DEF Under, RowsIf
    <3> HIDE DEF F, S
    <3>2. Total(F(q), S(q), m) \in Nat
      BY <2>2, TotalKept
    <3> QED BY <2>2, <2>3, <2>4, <3>1, <3>2
  <2> QED BY <2>5, <2>6
<1>2. S(n) \ {t} = S(l) \ {t} /\ \A s \in S(l) \ {t} : F(n)[s] = F(l)[s]
  BY DEF Under, RowCounts
<1> HIDE DEF F, S
<1>3. Total(F(n), S(n) \ {t}, m) = Total(F(l), S(l) \ {t}, m)
  <2>1. IsFiniteSet(S(l) \ {t})
    BY <1>1
  <2>2. Total(F(n), S(l) \ {t}, m) = Total(F(l), S(l) \ {t}, m)
    BY <1>2, <2>1, TotalKept
  <2> QED BY <1>2, <2>2
<1> QED BY <1>1, <1>3

\* When no entry under the status changes, and none comes to it, its rows stay.
LEMMA RowsStay ==
  ASSUME NEW D, IsFiniteSet(D), NEW l \in [D -> Entry], NEW n \in [D -> Entry],
         NEW m \in Nat, NEW k, k # "none",
         \A s \in D : Recorded(l, s) => l[s].rowCount <= m,
         \A s \in D : l[s].status = k \/ n[s].status = k => n[s] = l[s]
  PROVE  RowsWithStatus(n, k) = RowsWithStatus(l, k)
<1>1. Under(n, k) = Under(l, k) /\ IsFiniteSet(Under(l, k))
      /\ IsFiniteSet(DOMAIN l) /\ IsFiniteSet(DOMAIN n)
  BY FS_Subset DEF Under
<1>2. \A s \in Under(l, k) : /\ l[s].rowCount \in 0 .. m /\ n[s].rowCount \in 0 .. m
                             /\ RowCounts(n)[s] = RowCounts(l)[s]
  BY DEF Under, RowCounts, Recorded, Entry
<1>3. Total(RowCounts(n), Under(l, k), m) = Total(RowCounts(l), Under(l, k), m)
  BY <1>1, <1>2, TotalKept
<1> QED BY <1>1, <1>2, <1>3, RowsAreTotal
------------------------------------------------------------------------------
\* The entry recordDelivery read still tells what was sent and what failed; each entry
\* has the rows of its batch.
CountInv ==
  /\ \A s \in Seqs : Recorded(ledger, s) => ledger[s].rowCount = PlannedRows(s, NumRows, B)
  /\ worker.step = "record" =>
       LET read == worker.seen
           now  == ledger[SeqOf(worker)]
       IN  read.status \in Outcome \/ now.status \in Outcome =>
             read.status = now.status /\ read.rowCount = now.rowCount
  /\ CountersExact

\* The rows the worker sends in a batch are those rowCountFor plans for it.
LEMMA RowsArePlanned ==
  ASSUME OneBatchSize, TypeInv, Progress,
         worker.step \in {"deliver", "read", "record", "advance"}
  PROVE  RowsOf(worker) = PlannedRows(SeqOf(worker), NumRows, B)
<1> DEFINE q == SeqOf(worker)
           last == (NumRows + B - 1) \div B
<1>1. /\ q \in Seqs /\ q \in Nat /\ q * B = worker.next /\ worker.next \in Nat
      /\ worker.next < NumRows /\ worker.config.batch = B /\ B \in Nat \ {0} /\ NumRows \in Nat
  BY BatchStart, WorkerBatch, NumRowsAssumption DEF Seqs
<1>2. last \in Nat /\ B * last <= NumRows + B - 1 /\ NumRows + B - 1 < B * last + B
  <2>1. NumRows + B - 1 \in Nat
    BY <1>1
  <2> QED BY <1>1, <2>1, DivBounds
<1> HIDE DEF q, last
<1>3. CASE q = last - 1
  <2>1. q * B = B * last - B
    BY <1>1, <1>2, <1>3
  <2>2. PlannedRows(q, NumRows, B) = NumRows - worker.next
    BY <1>1, <1>3 DEF PlannedRows, last
  <2> QED BY <1>1, <1>2, <2>1, <2>2 DEF RowsOf, q
<1>4. CASE q # last - 1
  <2>1. PlannedRows(q, NumRows, B) = B
    BY <1>4 DEF PlannedRows, last
  <2>2. q < last
    <3> SUFFICES ASSUME q >= last PROVE FALSE
      BY <1>1, <1>2
    <3>1. q * B >= last * B /\ last * B = B * last
      BY <1>1, <1>2
    <3> QED BY <1>1, <1>2, <3>1
  <2>3. (q + 2) * B <= last * B
    BY <1>1, <1>2, <1>4, <2>2
  <2>4. (q + 2) * B = q * B + B + B /\ last * B = B * last
    BY <1>1, <1>2
  <2> QED BY <1>1, <1>2, <2>1, <2>3, <2>4 DEF RowsOf, q
<1> QED BY <1>3, <1>4

\* recordDelivery's delta is what the ledger moves.
LEMMA CountRecord ==
  ASSUME Undisturbed, Inv, EntriesInBatch, CountInv, RecordDelivery, TypeInv'
  PROVE  CountInv'
<1> DEFINE q == SeqOf(worker)
           e == ledger[q]
           n == ledger'[q]
<1>1. /\ TypeInv /\ Progress /\ OneBatchSize
      /\ worker.step = "record" /\ worker.outcome \in Outcome
      /\ ledger \in [Seqs -> Entry] /\ ledger' \in [Seqs -> Entry]
      /\ worker \in WorkerState
  BY DEF Inv, Undisturbed, RecordDelivery, TypeInv, TypeOK, StepsOK
<1>2. /\ q \in Seqs /\ B \in Nat
      /\ RowsOf(worker) = PlannedRows(q, NumRows, B)
      /\ PlannedRows(q, NumRows, B) \in Nat
      /\ PlannedRows(q, NumRows, B) <= B
  BY <1>1, BatchStart, RowsArePlanned, PlannedRowsInNat, PlannedRowsBound, WorkerBatch
<1>3. ledger' = Upsert(ledger, q, worker.next, RowsOf(worker), worker.outcome)
  BY DEF RecordDelivery
<1>4. /\ n.status = worker.outcome /\ n.rowCount = RowsOf(worker)
      /\ \A s \in Seqs \ {q} : ledger'[s] = ledger[s]
  <2>1. Recorded(ledger, q) => ledger[q].rowCount = RowsOf(worker)
    BY <1>2 DEF CountInv
  <2> HIDE DEF q
  <2> QED BY <1>1, <1>2, <1>3, <2>1, UpsertGrows
<1>5. \A s \in Seqs : Recorded(ledger', s) => ledger'[s].rowCount = PlannedRows(s, NumRows, B)
  BY <1>2, <1>4 DEF CountInv, Recorded
<1>6. worker'.step # "record"
  BY <1>1 DEF RecordDelivery, WorkerState
<1>7. ASSUME NEW k \in Outcome PROVE counters'[k] = RowsWithStatus(ledger', k)
  <2>1. counters'[k] = counters[k] - (IF worker.seen.status = k THEN worker.seen.rowCount ELSE 0)
                                   + (IF worker.outcome = k THEN RowsOf(worker) ELSE 0)
    BY DEF RecordDelivery, MoveCounters, DeliveryStatus
  <2>2. (IF worker.seen.status = k THEN worker.seen.rowCount ELSE 0) = RowsIf(e, k)
    BY <1>1 DEF CountInv, RowsIf
  <2>3. (IF worker.outcome = k THEN RowsOf(worker) ELSE 0) = RowsIf(n, k)
    BY <1>4 DEF RowsIf
  <2>4. /\ \A s \in Seqs : Recorded(ledger, s) => ledger[s].rowCount <= B
        /\ \A s \in Seqs : Recorded(ledger', s) => ledger'[s].rowCount <= B
    <3>1. \A s \in Seqs : PlannedRows(s, NumRows, B) <= B
      BY <1>1, PlannedRowsBound, WorkerBatch
    <3> QED BY <1>5, <3>1 DEF CountInv
  <2>5. IsFiniteSet(Seqs) /\ k # "none"
    BY FS_Interval, NumRowsAssumption DEF Seqs, Outcome
  <2>6. RowsWithStatus(ledger', k) = RowsWithStatus(ledger, k) - RowsIf(e, k) + RowsIf(n, k)
    <3> HIDE DEF q
    <3> QED BY <1>1, <1>2, <1>4, <2>4, <2>5, RowsMove
  <2>7. counters[k] = RowsWithStatus(ledger, k)
    BY DEF CountInv, CountersExact
  <2> HIDE DEF e, n
  <2> QED BY <2>1, <2>2, <2>3, <2>6, <2>7
<1> QED BY <1>5, <1>6, <1>7 DEF CountInv, CountersExact

\* A skip records what was not recorded: it moves no counter but its own, and takes nothing
\* from under a delivery that is being recorded.
LEMMA CountSkip ==
  ASSUME Undisturbed, Inv, CountInv, NEW c \in Callers, SkipDeliveries(c), TypeInv'
  PROVE  CountInv'
<1>1. /\ TypeInv /\ OneBatchSize /\ worker' = worker
      /\ ledger \in [Seqs -> Entry] /\ ledger' \in [Seqs -> Entry]
      /\ call[c].config.batch = B /\ B \in Nat \ {0}
      /\ counters = [k \in DeliveryStatus |-> counters[k]]
  BY WorkerBatch DEF Inv, Undisturbed, SkipDeliveries, TypeInv, TypeOK
<1>2. CASE UNCHANGED <<ledger, counters>>
  BY <1>1, <1>2 DEF CountInv, CountersExact, SeqOf
<1>3. CASE /\ \A s \in call[c].seqs : ~Recorded(ledger, s)
           /\ ledger' = SkipEntries(ledger, call[c].seqs, NumRows, B)
           /\ counters' = AddSkipped(counters, call[c].seqs, NumRows, B)
  <2>1. \A s \in Seqs :
          \/ ledger'[s] = ledger[s]
          \/ /\ ledger[s].status = "none" /\ ledger'[s].status = "skipped"
             /\ ledger'[s].rowCount = PlannedRows(s, NumRows, B)
    BY <1>1, <1>3 DEF SkipEntries, Recorded
  <2>2. \A s \in Seqs : Recorded(ledger', s) => ledger'[s].rowCount = PlannedRows(s, NumRows, B)
    BY <2>1 DEF CountInv, Recorded
  <2>3. worker.step = "record" =>
          SeqOf(worker) \in Seqs
    BY <1>1, BatchStart DEF Inv
  <2>4. \A s \in Seqs : ledger[s].status \in Outcome \/ ledger'[s].status \in Outcome =>
          ledger'[s] = ledger[s]
    BY <2>1 DEF Outcome
  <2>5. ASSUME NEW k \in Outcome PROVE counters'[k] = RowsWithStatus(ledger', k)
    <3>1. counters'[k] = counters[k]
      BY <1>1, <1>3 DEF AddSkipped, Outcome, DeliveryStatus
    <3>2. \A s \in Seqs : Recorded(ledger, s) => ledger[s].rowCount <= B
      BY <1>1, PlannedRowsBound DEF CountInv
    <3>3. IsFiniteSet(Seqs) /\ k # "none"
      BY FS_Interval, NumRowsAssumption DEF Seqs, Outcome
    <3>4. RowsWithStatus(ledger', k) = RowsWithStatus(ledger, k)
      BY <1>1, <2>4, <3>2, <3>3, RowsStay
    <3> QED BY <3>1, <3>4 DEF CountInv, CountersExact
  <2>6. SeqOf(worker)' = SeqOf(worker)
    BY <1>1 DEF SeqOf
  <2>7. worker.step = "record" =>
          (worker.seen.status \in Outcome \/ ledger'[SeqOf(worker)].status \in Outcome =>
             /\ worker.seen.status = ledger'[SeqOf(worker)].status
             /\ worker.seen.rowCount = ledger'[SeqOf(worker)].rowCount)
    BY <2>3, <2>4 DEF CountInv
  <2> QED BY <1>1, <2>2, <2>5, <2>6, <2>7 DEF CountInv, CountersExact
<1> QED BY <1>1, <1>2, <1>3 DEF SkipDeliveries

\* The counters move with the ledger.
LEMMA CountersFrame ==
  ASSUME Undisturbed, Inv, [Next]_vars
  PROVE  \/ UNCHANGED <<counters, ledger>>
         \/ RecordDelivery
         \/ \E c \in Callers : SkipDeliveries(c)
<1> USE DEF rowVars, queueVars, histVars
<1>1. CASE UNCHANGED vars
  BY <1>1 DEF vars
<1>2. CASE WorkerNext
  BY <1>2 DEF WorkerNext, TakeJob, FetchRun, MarkRunning, OpenStream, OpenFails,
     StopOnAbort, PollControl, SkipPoll, StreamFails, Flush, Deliver, ReadExisting,
     Advance, Finish, Finalize, AckJob
<1>3. CASE StalledCheck \/ ProcessNext
  BY <1>3 DEF StalledCheck, ProcessNext, Crash, Shutdown, Boot, RecoverRun, RecoverEnqueue
<1>4. ASSUME NEW c \in Callers, CallerNext(c)
      PROVE  UNCHANGED <<counters, ledger>> \/ SkipDeliveries(c)
  <2>1. ~ResendRecord(c)
    BY DEF ResendRecord, Inv, SkipSet, NobodyResends, ResendSteps
  <2> QED BY <1>4, <2>1 DEF CallerNext, Ask, AskStart, AskResume, AskRetry, AskCancel,
     AskSkip, AskResend, AskStop, Begin, Requeue, StartDraft, Resume, RetryFailed, Requeued,
     Enqueue, EnqueueFails, CancelRun, AbortAndRemove, StopRun, ResendDeliver,
     ResendReadExisting
<1> QED BY <1>1, <1>2, <1>3, <1>4 DEF Next

\* The entry that is read is the one that is there.
LEMMA CountRead ==
  ASSUME CountInv, TypeInv, [Next]_vars, UNCHANGED <<counters, ledger>>, ~RecordDelivery
  PROVE  CountInv'
<1>1. worker \in WorkerState
  BY DEF TypeInv, TypeOK
<1>2. \/ UNCHANGED worker
      \/ worker'.step # "record"
      \/ SeqOf(worker)' = SeqOf(worker) /\ worker'.seen = ledger[SeqOf(worker)]
  <2>1. CASE worker' = IdleWorker
    BY <2>1 DEF IdleWorker
  <2>2. CASE ReadExisting
    BY <1>1, <2>2 DEF ReadExisting, WorkerState, SeqOf
  <2>3. CASE \/ TakeJob \/ MarkRunning \/ OpenStream \/ StopOnAbort \/ SkipPoll \/ StreamFails
             \/ Finish \/ Finalize
    BY <1>1, <2>3 DEF TakeJob, MarkRunning, OpenStream, StopOnAbort, SkipPoll, StreamFails,
       Finish, Finalize, Finalizing, WorkerState
  <2>4. CASE FetchRun \/ PollControl \/ Flush \/ Deliver
    BY <1>1, <2>4 DEF FetchRun, PollControl, Flush, Deliver, Finalizing, WorkerState
  <2>5. CASE Advance
    <3> DEFINE n == worker.next + RowsOf(worker)
    <3>1. \/ worker' = [worker EXCEPT !.next = n, !.step = "finalize", !.outcome = "failed"]
          \/ worker' = [worker EXCEPT !.next = n, !.step = "stream"]
      BY <1>1, <2>5 DEF Advance, WorkerState
    <3> HIDE DEF n
    <3> QED BY <1>1, <3>1 DEF WorkerState
  <2>6. WorkerNext => \/ worker' = IdleWorker
                      \/ ReadExisting \/ TakeJob \/ MarkRunning \/ OpenStream \/ StopOnAbort
                      \/ SkipPoll \/ StreamFails \/ Finish \/ Finalize \/ FetchRun
                      \/ PollControl \/ Flush \/ Deliver \/ Advance
    BY DEF WorkerNext, OpenFails, AckJob
  <2> QED BY <2>1, <2>2, <2>3, <2>4, <2>5, <2>6, WorkerFrame
<1>3. CASE UNCHANGED worker
  BY <1>3 DEF CountInv, CountersExact, SeqOf
<1>4. CASE worker'.step # "record"
  BY <1>4 DEF CountInv, CountersExact
<1>5. CASE SeqOf(worker)' = SeqOf(worker) /\ worker'.seen = ledger[SeqOf(worker)]
  BY <1>5 DEF CountInv, CountersExact
<1> QED BY <1>2, <1>3, <1>4, <1>5

\* Nothing is recorded in the beginning.
LEMMA CountInit == Init => CountInv
<1> SUFFICES ASSUME Init PROVE CountInv
  OBVIOUS
<1>1. ASSUME NEW k \in Outcome PROVE counters[k] = RowsWithStatus(ledger, k)
  <2>1. DOMAIN ledger = Seqs /\ IsFiniteSet(Seqs) /\ Under(ledger, k) = {}
    <3>1. IsFiniteSet(Seqs)
      BY FS_Interval, NumRowsAssumption DEF Seqs
    <3>2. DOMAIN ledger = Seqs /\ \A s \in Seqs : ledger[s].status = "none"
      BY DEF Init, NoEntry
    <3> QED BY <3>1, <3>2 DEF Under, Outcome
  <2>2. RowsWithStatus(ledger, k) = Total(RowCounts(ledger), {}, 0)
    BY <2>1, RowsAreTotal
  <2>3. Total(RowCounts(ledger), {}, 0) = 0
    BY FS_EmptySet DEF Total, Units
  <2> QED BY <2>2, <2>3 DEF Init, NoCounters, Outcome, DeliveryStatus
<1> QED BY <1>1 DEF Init, CountInv, CountersExact, Recorded, NoEntry, IdleWorker

\* sentCount and failedCount stay the rows of the delivered and of the failed cells: a retry
\* takes back what it read, and nobody else moved it meanwhile.
THEOREM CountsAreExact == ASSUME Undisturbed PROVE Spec => []CountersExact
<1> DEFINE I == Inv /\ EntriesInBatch /\ CountInv
<1>1. Init => I
  BY InvInit, CountInit DEF Init, EntriesInBatch, Recorded, NoEntry
<1>2. I /\ [Next]_vars => I'
  <2> SUFFICES ASSUME I, [Next]_vars PROVE I'
    OBVIOUS
  <2>1. Inv' /\ EntriesInBatch' /\ TypeInv /\ TypeInv'
    BY InvStep, EntriesInBatchStep DEF Inv
  <2>2. CountInv'
    BY <2>1, CountersFrame, CountRecord, CountSkip, CountRead
  <2> QED BY <2>1, <2>2
<1>3. I => CountersExact
  BY DEF CountInv
<1> QED BY <1>1, <1>2, <1>3, PTL DEF Spec
==============================================================================
