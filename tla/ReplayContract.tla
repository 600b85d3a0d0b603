--------------------------- MODULE ReplayContract ----------------------------
(***************************************************************************)
(* What a replay promises its user, without cursors, queues, workers or     *)
(* crashes: each batch of the source is pending until it is delivered,      *)
(* failed or skipped; a delivered batch stays delivered; only a pending one *)
(* can be skipped; and the run is announced completed only when no batch is *)
(* pending.  An announcement is withdrawn when the run is opened again.     *)
(***************************************************************************)
CONSTANT Batches

VARIABLES outcome, announced

Init ==
  /\ outcome = [b \in Batches |-> "pending"]
  /\ announced = FALSE

Attempt(b) ==
  /\ ~announced
  /\ outcome[b] # "success"
  /\ \E o \in {"success", "failed"} : outcome' = [outcome EXCEPT ![b] = o]
  /\ UNCHANGED announced

Skip(S) ==
  /\ \A b \in S : outcome[b] = "pending"
  /\ outcome' = [b \in Batches |-> IF b \in S THEN "skipped" ELSE outcome[b]]
  /\ UNCHANGED announced

Announce ==
  /\ \A b \in Batches : outcome[b] # "pending"
  /\ announced' = TRUE
  /\ UNCHANGED outcome

Reopen ==
  /\ announced' = FALSE
  /\ UNCHANGED outcome

Next ==
  \/ \E b \in Batches : Attempt(b)
  \/ \E S \in SUBSET Batches : Skip(S)
  \/ Announce
  \/ Reopen

Spec == Init /\ [][Next]_<<outcome, announced>>
==============================================================================
