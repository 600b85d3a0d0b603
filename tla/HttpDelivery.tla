----------------------------- MODULE HttpDelivery -----------------------------
(***************************************************************************)
(* DeliveryService.send (delivery.service.ts) for one entry of a delivery  *)
(* log: attempts, timeouts, backoff and the abort signal of the run, over  *)
(* a network in which a request may reach the endpoint late, after its     *)
(* attempt was given up, or never.  An entry may be sent again, by a       *)
(* recovered run or by a resend.  The destination has idempotency switched *)
(* on, so that the key is sent.                                            *)
(***************************************************************************)
EXTENDS Naturals, Sequences, FiniteSets

CONSTANTS
  MaxAttempts,    \* hook.delivery.maxAttempts
  MaxSends,       \* times one entry is sent
  Answers         \* kinds of answers: subset of {"ok", "retryable", "refused"}

ASSUME HttpConstants ==
  MaxAttempts \in Nat \ {0} /\ MaxSends \in Nat \ {0} /\ Answers \subseteq {"ok", "retryable", "refused"}

VARIABLES
  send,        \* the locals of send(): step, attempt, lastStatus, and what it returned
  aborted,     \* the run's signal
  abortable,   \* whether the signal is a run's; a resend's never fires
  wire,        \* requests under way: attempt ids whose answer nobody awaits any more
  arrived,     \* history: requests the endpoint received, in order: [id, key, answer]
  requests,    \* history: requests made, over all sends
  results      \* history: what the sends returned

httpVars == <<send, aborted, abortable, wire, arrived, requests, results>>

Quiet == [step |-> "rest", attempt |-> 0, reached |-> FALSE, status |-> "none"]

HttpInit ==
  /\ send = Quiet /\ aborted = FALSE /\ abortable = TRUE
  /\ wire = {} /\ arrived = <<>> /\ requests = 0 /\ results = <<>>

SendAt(step) == send.step = step
SendMoves(step) == send' = [send EXCEPT !.step = step]

\* Mutant of Key: a key for each attempt.
KeyOfAttempt == <<"run", "sequence", send.attempt>>

\* The idempotency key names the entry: every attempt of every send carries it.
Key == <<"run", "sequence">>

\* The first sends are a run's (flush); the last one may be a resend.
BeginSend(byRun) ==
  /\ SendAt("rest") /\ Len(results) < MaxSends
  /\ \A i \in DOMAIN results : results[i].status # "success"
  /\ ~byRun => results # <<>>
  /\ abortable' = byRun /\ aborted' = FALSE
  /\ send' = [Quiet EXCEPT !.step = "loop", !.attempt = 1]
  /\ UNCHANGED <<wire, arrived, requests, results>>

\* Mutant of Attempt: the signal is not looked at before a request.
AttemptAnyway ==
  /\ SendAt("loop") /\ send.attempt <= MaxAttempts
  /\ requests' = requests + 1
  /\ send' = [send EXCEPT !.step = "flight", !.reached = FALSE]
  /\ UNCHANGED <<aborted, abortable, wire, arrived, results>>

\* for (attempt ...): the next request.
Attempt ==
  /\ SendAt("loop") /\ send.attempt <= MaxAttempts /\ ~aborted
  /\ requests' = requests + 1
  /\ send' = [send EXCEPT !.step = "flight", !.reached = FALSE]
  /\ UNCHANGED <<aborted, abortable, wire, arrived, results>>

Returns(status) ==
  /\ results' = Append(results, [status |-> status,
                                attempts |-> IF status = "failed" THEN MaxAttempts ELSE send.attempt])
  /\ send' = Quiet

\* throwIfAborted at the head of the loop, or fetch rejecting because the run was aborted:
\* the caller finalizes the run as canceled.
Throw ==
  /\ aborted
  /\ \/ SendAt("loop") /\ send.attempt <= MaxAttempts /\ UNCHANGED wire
     \/ SendAt("flight") /\ wire' = IF send.reached THEN wire ELSE wire \union {requests}
  /\ Returns("thrown") /\ UNCHANGED <<aborted, abortable, arrived, requests>>

\* The endpoint gets the request and acts on it, whoever still waits.
Receive(id, answer) ==
  /\ arrived' = Append(arrived, [id |-> id, key |-> Key, answer |-> answer])
  /\ IF id = requests /\ SendAt("flight") /\ ~send.reached
     THEN send' = [send EXCEPT !.reached = TRUE, !.status = answer] /\ UNCHANGED wire
     ELSE id \in wire /\ wire' = wire \ {id} /\ UNCHANGED send
  /\ UNCHANGED <<aborted, abortable, requests, results>>

\* Mutant of Retries: the attempts are not counted.
RetriesForever(status) == status = "retryable"

\* RETRYABLE_STATUS, while attempts are left.
Retries(status) == status = "retryable" /\ send.attempt < MaxAttempts

\* The answer is there: success, another attempt after a backoff, or the end.  A body
\* that cannot be read to its end, for a timeout or an abort, is cut, not an error.
Answered ==
  /\ SendAt("flight") /\ send.reached
  /\ \/ send.status = "ok" /\ Returns("success")
     \/ send.status # "ok" /\ Retries(send.status) /\ SendMoves("backoff") /\ UNCHANGED results
     \/ send.status # "ok" /\ ~Retries(send.status) /\ Returns("failed")
  /\ UNCHANGED <<aborted, abortable, wire, arrived, requests>>

\* Mutant of GivesUp: an attempt that timed out is the last.
NoRetry ==
  /\ SendAt("flight") /\ ~aborted /\ Returns("failed")
  /\ wire' = IF send.reached THEN wire ELSE wire \union {requests}
  /\ UNCHANGED <<aborted, abortable, arrived, requests>>

\* AbortSignal.timeout or a network error: the request may still be on its way, and an
\* answer may be on its way back.
GivesUp ==
  /\ SendAt("flight") /\ ~aborted
  /\ wire' = IF send.reached THEN wire ELSE wire \union {requests}
  /\ IF send.attempt < MaxAttempts THEN SendMoves("backoff") /\ UNCHANGED results
     ELSE Returns("failed")
  /\ UNCHANGED <<aborted, abortable, arrived, requests>>

NextAttempt == send' = [send EXCEPT !.step = "loop", !.attempt = @ + 1, !.status = "none"]

\* The timer of the backoff fires.
BackoffEnds ==
  /\ SendAt("backoff") /\ NextAttempt
  /\ UNCHANGED <<aborted, abortable, wire, arrived, requests, results>>

\* Mutant of Wakes: a sleep is not cut short.
SleepsOn == FALSE /\ UNCHANGED httpVars

\* sleep() resolves early when the run is aborted.
Wakes == aborted /\ BackoffEnds

\* A request that was given up is lost on the way.
Lose(id) == /\ id \in wire /\ wire' = wire \ {id}
            /\ UNCHANGED <<send, aborted, abortable, arrived, requests, results>>

\* RunRegistry.abort, for a cancel or a shutdown of the API.
AbortRun == /\ ~SendAt("rest") /\ abortable /\ ~aborted /\ aborted' = TRUE
            /\ UNCHANGED <<send, abortable, wire, arrived, requests, results>>

HttpNext ==
  \/ \E byRun \in BOOLEAN : BeginSend(byRun)
  \/ Attempt \/ Throw \/ Answered \/ GivesUp \/ BackoffEnds \/ Wakes \/ AbortRun
  \/ \E id \in wire \union {requests}, answer \in Answers : Receive(id, answer)
  \/ \E id \in wire : Lose(id)

\* The process runs its callbacks; no timer, no answer and no timeout is promised.
HttpFairness == WF_httpVars(Throw) /\ WF_httpVars(Wakes) /\ WF_httpVars(Answered)

HttpSpec == HttpInit /\ [][HttpNext]_httpVars /\ HttpFairness

(***************************** properties *********************************)

\* The types of send()'s locals and of the requests on the wire.
HttpTypeOK ==
  /\ send.step \in {"rest", "loop", "flight", "backoff"} /\ send.attempt \in 0 .. MaxAttempts
  /\ wire \subseteq 1 .. requests /\ requests <= MaxSends * MaxAttempts
  /\ aborted \in BOOLEAN /\ abortable \in BOOLEAN

AnswersOf(key) == {arrived[i].answer : i \in {j \in DOMAIN arrived : arrived[j].key = key}}

\* An endpoint that acts once for each idempotency key acts at most once for the entry,
\* and has acted when a send reports success: over retries, requests that arrive after
\* their timeout, and sends of a recovered run (delivery.service.ts:36, `${runId}:${seq}`).
OneEffect ==
  /\ Cardinality({arrived[i].key : i \in DOMAIN arrived}) <= 1
  /\ (\E i \in DOMAIN results : results[i].status = "success") => "ok" \in AnswersOf(Key)

\* A failure is reported only for an endpoint that refused the request, or after every
\* attempt: an answer worth a retry, a timeout or a network error never ends the sending
\* while attempts are left.
FailsWithReason ==
  [][Len(results') > Len(results) /\ results'[Len(results')].status = "failed" =>
       send.attempt = MaxAttempts \/ (send.reached /\ send.status = "refused")]_httpVars

\* Once the run is aborted no further request leaves.
NothingAfterAbort == [][aborted => requests' = requests]_httpVars

\* A cancel never waits out a backoff or a timeout: send ends once the signal has fired,
\* though no timer fires and no answer comes (delivery.service.ts:130-133).  Only the next
\* send takes the signal back, so that this is aborted ~> SendAt("rest").
AbortEndsSend == []<>(aborted => SendAt("rest"))

\* What send promises the run, whatever the network does.
HttpSafe == []HttpTypeOK /\ []OneEffect /\ FailsWithReason /\ NothingAfterAbort
==============================================================================
