------------------------------ MODULE RunLedger ------------------------------
(***************************************************************************)
(* The vocabulary of a hook run and of its delivery ledger, shared by every *)
(* module that records deliveries.  HookRunService owns all writes to the   *)
(* tables hook_runs and hook_deliveries; here is what its two ledger        *)
(* transactions, recordDelivery and skipDeliveries, do to a run.            *)
(***************************************************************************)
EXTENDS Integers, FiniteSetsExt

Active     == {"queued", "running", "canceling"}
Terminal   == {"completed", "failed", "canceled", "interrupted"}
Resumable  == {"failed", "canceled", "paused", "interrupted"}
RunStatus  == {"draft", "paused"} \union Active \union Terminal

Outcome        == {"success", "failed"}
Settled        == {"success", "skipped"}
DeliveryStatus == Outcome \union {"skipped"}

\* A ledger maps a sequence to its hook_deliveries row, which covers the source
\* rows from rowIndex on; "none" is a missing row.
Entry   == [status : DeliveryStatus \union {"none"}, rowIndex : Nat, rowCount : Nat]
NoEntry == [status |-> "none", rowIndex |-> 0, rowCount |-> 0]

\* The counters sentCount, failedCount and skippedCount, by delivery status.
NoCounters == [k \in DeliveryStatus |-> 0]

Recorded(ledger, s) == ledger[s].status # "none"

\* Some delivery of the run accounts for row r of the source.
Covered(ledger, r) ==
  \E s \in DOMAIN ledger :
    /\ Recorded(ledger, s)
    /\ ledger[s].rowIndex <= r
    /\ r < ledger[s].rowIndex + ledger[s].rowCount

SkippedSequences(ledger) == {s \in DOMAIN ledger : ledger[s].status = "skipped"}
FailedSequences(ledger)  == {s \in DOMAIN ledger : ledger[s].status = "failed"}
\* Mutant of SettledSequences: the skip-set forgets what was delivered.
ForgetsDelivered(ledger) == SkippedSequences(ledger)
SettledSequences(ledger) == {s \in DOMAIN ledger : ledger[s].status \in Settled}

(***************************************************************************)
(* recordDelivery is a read of the existing entry, then a transaction: the  *)
(* upsert, whose update branch leaves rowCount alone, and the counters,     *)
(* moved by the delta from the entry READ to the new outcome.               *)
(***************************************************************************)
Upsert(ledger, s, index, count, outcome) ==
  [ledger EXCEPT ![s] =
     IF @.status = "none"
     THEN [status |-> outcome, rowIndex |-> index, rowCount |-> count]
     ELSE [@ EXCEPT !.status = outcome]]

\* Mutant of MoveCounters: a retry adds without taking the old outcome back.
AddsOnly(counters, existing, count, outcome) ==
  [counters EXCEPT ![outcome] = @ + count]

MoveCounters(counters, existing, count, outcome) ==
  [k \in DeliveryStatus |-> counters[k]
      - (IF existing.status = k THEN existing.rowCount ELSE 0)
      + (IF outcome = k THEN count ELSE 0)]

\* Mutant of PlannedRows: the last sequence is taken to be one too many.
OffByOneRows(s, total, batch) ==
  LET lastSeq == (total + batch - 1) \div batch
  IN  IF s = lastSeq - 1 THEN total - lastSeq * batch ELSE batch

\* rowCountFor: the last batch of the planned total may be a short one.
PlannedRows(s, total, batch) ==
  LET lastSeq == (total + batch - 1) \div batch - 1
  IN  IF s = lastSeq THEN total - lastSeq * batch ELSE batch

SkipEntries(ledger, fresh, total, batch) ==
  [s \in DOMAIN ledger |->
     IF s \in fresh
     THEN [status |-> "skipped", rowIndex |-> s * batch,
           rowCount |-> PlannedRows(s, total, batch)]
     ELSE ledger[s]]

AddSkipped(counters, fresh, total, batch) ==
  [counters EXCEPT !["skipped"] =
     @ + MapThenSumSet(LAMBDA s : PlannedRows(s, total, batch), fresh)]

\* The rows the ledger holds under a delivery status: what a counter stands for.
RowsWithStatus(ledger, k) ==
  MapThenSumSet(LAMBDA s : ledger[s].rowCount,
                {s \in DOMAIN ledger : ledger[s].status = k})
==============================================================================
