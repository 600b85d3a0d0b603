------------------------- MODULE HttpDelivery_proofs -------------------------
(***************************************************************************)
(* Theorems about HttpDelivery, for every number of attempts and sends:    *)
(* one effect for one entry, a reason for every failure, and no request    *)
(* after an abort.                                                         *)
(***************************************************************************)
EXTENDS HttpDelivery, FiniteSetTheorems, TLAPS

Send == [step : {"rest", "loop", "flight", "backoff"}, attempt : 0 .. MaxAttempts,
         reached : BOOLEAN, status : Answers \union {"none"}]
Arrival == [id : Nat, key : {Key}, answer : Answers]
Result == [status : {"success", "failed", "thrown"}, attempts : Nat]

HttpTypes ==
  /\ send \in Send /\ aborted \in BOOLEAN /\ abortable \in BOOLEAN
  /\ requests \in Nat /\ wire \subseteq 1 .. requests
  /\ arrived \in Seq(Arrival) /\ results \in Seq(Result)

\* An attempt is counted when it is begun, and none is made after the last.
Counted ==
  /\ ~SendAt("rest") => send.attempt >= 1
  /\ SendAt("backoff") => send.attempt < MaxAttempts

\* The requests there were: those of the sends that are over, and of this one.
Made == IF SendAt("rest") THEN 0 ELSE IF SendAt("loop") THEN send.attempt - 1 ELSE send.attempt
Bounded ==
  /\ Len(results) <= MaxSends /\ (~SendAt("rest") => Len(results) < MaxSends)
  /\ requests <= Len(results) * MaxAttempts + Made

\* Whose answer has come, or who reported success, was at the endpoint.
Heard ==
  /\ SendAt("flight") /\ send.reached => send.status \in AnswersOf(Key)
  /\ (\E i \in DOMAIN results : results[i].status = "success") => "ok" \in AnswersOf(Key)

\* A request on its way was made.
Begun == SendAt("flight") => requests >= 1

HttpInv == HttpTypes /\ Begun /\ Counted /\ Bounded /\ Heard
------------------------------------------------------------------------------
\* An answer that arrives is one more answer for the entry.
LEMMA Arrives ==
  ASSUME HttpTypes, NEW id \in Nat, NEW answer \in Answers,
         arrived' = Append(arrived, [id |-> id, key |-> Key, answer |-> answer])
  PROVE  AnswersOf(Key)' = AnswersOf(Key) \union {answer}
<1>1. [id |-> id, key |-> Key, answer |-> answer] \in Arrival
  BY DEF Arrival
<1>2. /\ Len(arrived') = Len(arrived) + 1 /\ DOMAIN arrived' = 1 .. Len(arrived) + 1
      /\ DOMAIN arrived = 1 .. Len(arrived) /\ Len(arrived) \in Nat
      /\ \A i \in 1 .. Len(arrived) : arrived'[i] = arrived[i]
      /\ arrived'[Len(arrived) + 1] = [id |-> id, key |-> Key, answer |-> answer]
  BY <1>1 DEF HttpTypes
<1>3. \A i \in DOMAIN arrived : arrived[i].key = Key
  <2>1. \A i \in 1 .. Len(arrived) : arrived[i] \in Arrival
    BY DEF HttpTypes
  <2>2. QED
    BY <1>2, <2>1 DEF Arrival
<1>4. \A i \in DOMAIN arrived' : arrived'[i].key = Key
  BY <1>2, <1>3
<1>5. AnswersOf(Key) = {arrived[i].answer : i \in DOMAIN arrived}
  BY <1>3 DEF AnswersOf
<1>6. AnswersOf(Key)' = {arrived'[i].answer : i \in DOMAIN arrived'}
  BY <1>4 DEF AnswersOf, Key
<1>7. QED
  BY <1>2, <1>5, <1>6

\* The fields of send, and what it is when one or two of them change.
LEMMA SendTypes ==
  ASSUME HttpTypes
  PROVE  /\ send.step \in {"rest", "loop", "flight", "backoff"} /\ send.attempt \in 0 .. MaxAttempts
         /\ send.reached \in BOOLEAN /\ send.status \in Answers \union {"none"}
         /\ \A s \in {"loop", "flight", "backoff"} : [send EXCEPT !.step = s] \in Send
         /\ [send EXCEPT !.step = "flight", !.reached = FALSE] \in Send
         /\ \A answer \in Answers : [send EXCEPT !.reached = TRUE, !.status = answer] \in Send
         /\ send.attempt < MaxAttempts =>
              [send EXCEPT !.step = "loop", !.attempt = @ + 1, !.status = "none"] \in Send
         /\ [Quiet EXCEPT !.step = "loop", !.attempt = 1] \in Send
         /\ [send EXCEPT !.step = "backoff"].step = "backoff"
         /\ [send EXCEPT !.step = "backoff"].attempt = send.attempt
<1> USE HttpConstants DEF HttpTypes
<1>1. /\ send.step \in {"rest", "loop", "flight", "backoff"} /\ send.attempt \in 0 .. MaxAttempts
      /\ send.reached \in BOOLEAN /\ send.status \in Answers \union {"none"}
  BY DEF Send
<1>2. \A s \in {"loop", "flight", "backoff"} : [send EXCEPT !.step = s] \in Send
  BY DEF Send
<1>3. [send EXCEPT !.step = "flight", !.reached = FALSE] \in Send
  BY DEF Send
<1>4. \A answer \in Answers : [send EXCEPT !.reached = TRUE, !.status = answer] \in Send
  BY DEF Send
<1>5. \A a \in 0 .. MaxAttempts :
        [send EXCEPT !.step = "loop", !.attempt = a, !.status = "none"] \in Send
  BY DEF Send
<1>6. send.attempt < MaxAttempts =>
        [send EXCEPT !.step = "loop", !.attempt = @ + 1, !.status = "none"] \in Send
  <2>1. send.attempt < MaxAttempts => send.attempt + 1 \in 0 .. MaxAttempts
    BY <1>1
  <2>2. QED
    BY <1>5, <2>1
<1>7. \A a \in 0 .. MaxAttempts : [Quiet EXCEPT !.step = "loop", !.attempt = a] \in Send
  BY DEF Send, Quiet
<1>8. 1 \in 0 .. MaxAttempts
  OBVIOUS
<1>9. [send EXCEPT !.step = "backoff"].step = "backoff"
      /\ [send EXCEPT !.step = "backoff"].attempt = send.attempt
  BY DEF Send
<1>10. QED
  BY <1>1, <1>2, <1>3, <1>4, <1>6, <1>7, <1>8, <1>9

\* What a send returned is appended.
LEMMA ReturnsOne ==
  ASSUME HttpTypes, NEW s \in {"success", "failed", "thrown"}, Returns(s)
  PROVE  /\ results' \in Seq(Result) /\ Len(results') = Len(results) + 1
         /\ DOMAIN results' = 1 .. Len(results) + 1 /\ DOMAIN results = 1 .. Len(results)
         /\ \A i \in DOMAIN results : results'[i] = results[i]
         /\ results'[Len(results) + 1].status = s
         /\ send' \in Send /\ send'.step = "rest"
<1>1. [status |-> s, attempts |-> IF s = "failed" THEN MaxAttempts ELSE send.attempt] \in Result
  BY HttpConstants DEF HttpTypes, Send, Result
<1>2. send' \in Send /\ send'.step = "rest"
  BY HttpConstants DEF Returns, Quiet, Send
<1>3. QED
  BY <1>1, <1>2 DEF Returns, HttpTypes

\* Multiplication by the number of attempts.
LEMMA Products ==
  \A m, n \in Nat : /\ n * m \in Nat /\ (n + 1) * m = n * m + m
  OBVIOUS

\* More sends, more attempts.
LEMMA Monotone ==
  ASSUME NEW m \in Nat, NEW n \in Nat, NEW k \in Nat, n <= k
  PROVE  n * m <= k * m
<1>1. PICK d \in Nat : k = n + d
  <2>1. k - n \in Nat /\ k = n + (k - n)
    OBVIOUS
  <2>2. QED
    BY <2>1
<1>2. k * m = n * m + d * m /\ d * m \in Nat /\ n * m \in Nat
  BY <1>1
<1>3. QED
  BY <1>2

\* The types hold after every step.
LEMMA HttpTypesStep ==
  ASSUME HttpInv, [HttpNext]_httpVars PROVE HttpTypes'
<1> USE HttpConstants DEF HttpInv
<1>1. ASSUME NEW byRun \in BOOLEAN, BeginSend(byRun) PROVE HttpTypes'
  <2>1. send' \in Send
    BY <1>1, SendTypes DEF BeginSend
  <2>2. QED
    BY <1>1, <2>1 DEF BeginSend, HttpTypes
<1>2. CASE Attempt
  <2>1. send' \in Send
    BY <1>2, SendTypes DEF Attempt
  <2>2. QED
    BY <1>2, <2>1 DEF Attempt, HttpTypes
<1>3. CASE Throw
  <2>1. send' \in Send /\ results' \in Seq(Result)
    BY <1>3, ReturnsOne DEF Throw
  <2>2. wire' \subseteq 1 .. requests
    <3>1. send.step = "flight" => requests \in 1 .. requests
      BY DEF Begun, SendAt, HttpTypes
    <3>2. QED
      BY <1>3, <3>1 DEF Throw, HttpTypes, SendAt
  <2>3. QED
    BY <1>3, <2>1, <2>2 DEF Throw, HttpTypes
<1>4. ASSUME NEW id \in wire \union {requests}, NEW answer \in Answers, Receive(id, answer) PROVE HttpTypes'
  <2>1. id \in Nat /\ [id |-> id, key |-> Key, answer |-> answer] \in Arrival
    BY <1>4 DEF HttpTypes, Arrival
  <2>2. arrived' \in Seq(Arrival)
    BY <1>4, <2>1 DEF Receive, HttpTypes
  <2>3. send' \in Send /\ wire' \subseteq wire
    BY <1>4, SendTypes DEF Receive, HttpTypes
  <2>4. QED
    BY <1>4, <2>2, <2>3 DEF Receive, HttpTypes
<1>5. CASE Answered
  <2>1. send' \in Send /\ results' \in Seq(Result)
    <3>1. CASE SendMoves("backoff") /\ UNCHANGED results
      BY <3>1, SendTypes DEF SendMoves, HttpTypes
    <3>2. CASE Returns("failed") \/ Returns("success")
      BY <3>2, ReturnsOne
    <3>3. QED
      BY <1>5, <3>1, <3>2 DEF Answered
  <2>2. QED
    BY <1>5, <2>1 DEF Answered, HttpTypes
<1>6. CASE GivesUp
  <2>1. send' \in Send /\ results' \in Seq(Result)
    <3>1. CASE SendMoves("backoff") /\ UNCHANGED results
      BY <3>1, SendTypes DEF SendMoves, HttpTypes
    <3>2. CASE Returns("failed")
      BY <3>2, ReturnsOne
    <3>3. QED
      BY <1>6, <3>1, <3>2 DEF GivesUp
  <2>2. wire' \subseteq 1 .. requests
    <3>1. requests \in 1 .. requests
      BY <1>6 DEF Begun, SendAt, HttpTypes, GivesUp
    <3>2. QED
      BY <1>6, <3>1 DEF GivesUp, HttpTypes
  <2>3. QED
    BY <1>6, <2>1, <2>2 DEF GivesUp, HttpTypes
<1>7. CASE BackoffEnds
  <2>1. send' \in Send
    BY <1>7, SendTypes DEF BackoffEnds, NextAttempt, Counted
  <2>2. QED
    BY <1>7, <2>1 DEF BackoffEnds, HttpTypes
<1>8. ASSUME NEW id \in wire, Lose(id) PROVE HttpTypes'
  BY <1>8 DEF Lose, HttpTypes
<1>9. CASE AbortRun
  BY <1>9 DEF AbortRun, SendAt, HttpTypes
<1>10. CASE UNCHANGED <<abortable, aborted, arrived, requests, results, send, wire>>
  BY <1>10 DEF HttpTypes
<1>11. QED
  BY <1>1, <1>2, <1>3, <1>4, <1>5, <1>6, <1>7, <1>8, <1>9, <1>10 DEF HttpNext, httpVars, Wakes

\* A flight begins with a request.
LEMMA BegunStep ==
  ASSUME HttpInv, [HttpNext]_httpVars PROVE Begun'
<1> USE HttpConstants DEF HttpInv
<1>1. ASSUME NEW byRun \in BOOLEAN, BeginSend(byRun) PROVE Begun'
  BY <1>1 DEF BeginSend, SendAt, Quiet, Begun, HttpTypes, Send
<1>2. CASE Attempt
  BY <1>2 DEF Attempt, SendAt, Begun, HttpTypes, Send
<1>3. CASE Throw
  BY <1>3 DEF Throw, SendAt, Returns, Quiet, Begun, HttpTypes, Send
<1>4. ASSUME NEW id \in wire \union {requests}, NEW answer \in Answers, Receive(id, answer) PROVE Begun'
  BY <1>4 DEF Receive, SendAt, Begun, HttpTypes, Send
<1>5. CASE Answered
  BY <1>5 DEF Answered, SendAt, SendMoves, Returns, Quiet, Retries, Begun, HttpTypes, Send
<1>6. CASE GivesUp
  BY <1>6 DEF GivesUp, SendAt, SendMoves, Returns, Quiet, Begun, HttpTypes, Send
<1>7. CASE BackoffEnds
  BY <1>7 DEF BackoffEnds, SendAt, NextAttempt, Begun, HttpTypes, Send
<1>8. CASE UNCHANGED <<requests, send>>
  BY <1>8 DEF Begun, SendAt, HttpTypes, Send
<1>9. QED
  BY <1>1, <1>2, <1>3, <1>4, <1>5, <1>6, <1>7, <1>8 DEF HttpNext, httpVars, Wakes, Lose, AbortRun

\* An attempt begins only while attempts are left.
LEMMA CountedStep ==
  ASSUME HttpInv, [HttpNext]_httpVars PROVE Counted'
<1> USE HttpConstants DEF HttpInv
<1>1. ASSUME NEW byRun \in BOOLEAN, BeginSend(byRun) PROVE Counted'
  BY <1>1 DEF BeginSend, SendAt, Quiet, HttpTypes, Counted, Send
<1>2. CASE Attempt
  BY <1>2 DEF Attempt, SendAt, HttpTypes, Counted, Send
<1>3. CASE Throw
  BY <1>3 DEF Throw, SendAt, Returns, Quiet, HttpTypes, Counted, Send
<1>4. ASSUME NEW id \in wire \union {requests}, NEW answer \in Answers, Receive(id, answer) PROVE Counted'
  BY <1>4 DEF Receive, SendAt, HttpTypes, Counted, Send
<1>5. CASE Answered
  BY <1>5 DEF Answered, SendAt, SendMoves, Returns, Quiet, Retries, HttpTypes, Counted, Send
<1>6. CASE GivesUp
  BY <1>6 DEF GivesUp, SendAt, SendMoves, Returns, Quiet, HttpTypes, Counted, Send
<1>7. CASE BackoffEnds
  BY <1>7 DEF BackoffEnds, SendAt, NextAttempt, HttpTypes, Counted, Send
<1>8. CASE UNCHANGED <<send>>
  BY <1>8 DEF HttpTypes, Counted, SendAt, Send
<1>9. QED
  BY <1>1, <1>2, <1>3, <1>4, <1>5, <1>6, <1>7, <1>8 DEF HttpNext, httpVars, Wakes, Lose, AbortRun

\* Each attempt is paid for by its send.
LEMMA BoundedStep ==
  ASSUME HttpInv, [HttpNext]_httpVars PROVE Bounded'
<1> USE HttpConstants DEF HttpInv
<1>1. ASSUME NEW byRun \in BOOLEAN, BeginSend(byRun) PROVE Bounded'
  BY <1>1 DEF BeginSend, SendAt, Quiet, HttpTypes, Counted, Bounded, Send, Made
<1>2. CASE Attempt
  BY <1>2 DEF Attempt, SendAt, HttpTypes, Counted, Bounded, Send, Made
<1>3. CASE Throw
  <2>1. requests' = requests /\ requests \in Nat /\ Len(results) \in Nat /\ MaxAttempts \in Nat
    BY <1>3, HttpConstants DEF Throw, HttpTypes
  <2>3. CASE \E s \in {"failed", "success", "thrown"} : Returns(s)
    <3>1. Len(results') = Len(results) + 1 /\ send'.step = "rest"
      BY <2>3, ReturnsOne
    <3>2. send.attempt \in 0 .. MaxAttempts /\ send.step \in {"loop", "flight"}
      BY <1>3, SendTypes DEF Throw, SendAt
    <3>3. Made \in Int /\ Made <= MaxAttempts /\ ~SendAt("rest")
      BY <2>1, <3>2 DEF Made, SendAt
    <3>4. Made' = 0
      BY <3>1 DEF Made, SendAt
    <3>5. /\ Len(results) * MaxAttempts \in Nat
          /\ (Len(results) + 1) * MaxAttempts = Len(results) * MaxAttempts + MaxAttempts
      BY <2>1, Products
    <3>6. requests <= Len(results) * MaxAttempts + Made /\ Len(results) < MaxSends
      BY <3>3 DEF Bounded
    <3>7. requests <= (Len(results) + 1) * MaxAttempts
      BY <2>1, <3>3, <3>5, <3>6
    <3>8. Len(results) + 1 <= MaxSends
      BY <2>1, <3>6, HttpConstants
    <3>9. (Len(results) + 1) * MaxAttempts + 0 = (Len(results) + 1) * MaxAttempts
      BY <2>1, <3>5
    <3>10. QED
      BY <2>1, <3>1, <3>4, <3>7, <3>8, <3>9 DEF Bounded, SendAt
  <2>4. QED
    BY <1>3, <2>3 DEF Throw
<1>4. ASSUME NEW id \in wire \union {requests}, NEW answer \in Answers, Receive(id, answer) PROVE Bounded'
  BY <1>4 DEF Receive, SendAt, HttpTypes, Counted, Bounded, Send, Made
<1>5. CASE Answered
  <2>1. requests' = requests /\ requests \in Nat /\ Len(results) \in Nat /\ MaxAttempts \in Nat
    BY <1>5, HttpConstants DEF Answered, HttpTypes
  <2>2. CASE SendMoves("backoff") /\ UNCHANGED results
    <3>1. send'.step = "backoff" /\ send'.attempt = send.attempt /\ send.step = "flight"
      BY <1>5, <2>2, SendTypes DEF Answered, SendMoves, SendAt
    <3>2. Made' = Made
      BY <3>1 DEF Made, SendAt
    <3>3. QED
      BY <2>1, <2>2, <3>1, <3>2 DEF Bounded, SendAt
  <2>3. CASE \E s \in {"failed", "success", "thrown"} : Returns(s)
    <3>1. Len(results') = Len(results) + 1 /\ send'.step = "rest"
      BY <2>3, ReturnsOne
    <3>2. send.attempt \in 0 .. MaxAttempts /\ send.step \in {"loop", "flight"}
      BY <1>5, SendTypes DEF Answered, SendAt
    <3>3. Made \in Int /\ Made <= MaxAttempts /\ ~SendAt("rest")
      BY <2>1, <3>2 DEF Made, SendAt
    <3>4. Made' = 0
      BY <3>1 DEF Made, SendAt
    <3>5. /\ Len(results) * MaxAttempts \in Nat
          /\ (Len(results) + 1) * MaxAttempts = Len(results) * MaxAttempts + MaxAttempts
      BY <2>1, Products
    <3>6. requests <= Len(results) * MaxAttempts + Made /\ Len(results) < MaxSends
      BY <3>3 DEF Bounded
    <3>7. requests <= (Len(results) + 1) * MaxAttempts
      BY <2>1, <3>3, <3>5, <3>6
    <3>8. Len(results) + 1 <= MaxSends
      BY <2>1, <3>6, HttpConstants
    <3>9. (Len(results) + 1) * MaxAttempts + 0 = (Len(results) + 1) * MaxAttempts
      BY <2>1, <3>5
    <3>10. QED
      BY <2>1, <3>1, <3>4, <3>7, <3>8, <3>9 DEF Bounded, SendAt
  <2>4. QED
    BY <1>5, <2>2, <2>3 DEF Answered
<1>6. CASE GivesUp
  <2>1. requests' = requests /\ requests \in Nat /\ Len(results) \in Nat /\ MaxAttempts \in Nat
    BY <1>6, HttpConstants DEF GivesUp, HttpTypes
  <2>2. CASE SendMoves("backoff") /\ UNCHANGED results
    <3>1. send'.step = "backoff" /\ send'.attempt = send.attempt /\ send.step = "flight"
      BY <1>6, <2>2, SendTypes DEF GivesUp, SendMoves, SendAt
    <3>2. Made' = Made
      BY <3>1 DEF Made, SendAt
    <3>3. QED
      BY <2>1, <2>2, <3>1, <3>2 DEF Bounded, SendAt
  <2>3. CASE \E s \in {"failed", "success", "thrown"} : Returns(s)
    <3>1. Len(results') = Len(results) + 1 /\ send'.step = "rest"
      BY <2>3, ReturnsOne
    <3>2. send.attempt \in 0 .. MaxAttempts /\ send.step \in {"loop", "flight"}
      BY <1>6, SendTypes DEF GivesUp, SendAt
    <3>3. Made \in Int /\ Made <= MaxAttempts /\ ~SendAt("rest")
      BY <2>1, <3>2 DEF Made, SendAt
    <3>4. Made' = 0
      BY <3>1 DEF Made, SendAt
    <3>5. /\ Len(results) * MaxAttempts \in Nat
          /\ (Len(results) + 1) * MaxAttempts = Len(results) * MaxAttempts + MaxAttempts
      BY <2>1, Products
    <3>6. requests <= Len(results) * MaxAttempts + Made /\ Len(results) < MaxSends
      BY <3>3 DEF Bounded
    <3>7. requests <= (Len(results) + 1) * MaxAttempts
      BY <2>1, <3>3, <3>5, <3>6
    <3>8. Len(results) + 1 <= MaxSends
      BY <2>1, <3>6, HttpConstants
    <3>9. (Len(results) + 1) * MaxAttempts + 0 = (Len(results) + 1) * MaxAttempts
      BY <2>1, <3>5
    <3>10. QED
      BY <2>1, <3>1, <3>4, <3>7, <3>8, <3>9 DEF Bounded, SendAt
  <2>4. QED
    BY <1>6, <2>2, <2>3 DEF GivesUp
<1>7. CASE BackoffEnds
  BY <1>7 DEF BackoffEnds, SendAt, NextAttempt, HttpTypes, Counted, Bounded, Send, Made
<1>8. CASE UNCHANGED <<requests, results, send>>
  BY <1>8 DEF HttpTypes, Counted, Bounded, SendAt, Send, Made
<1>9. QED
  BY <1>1, <1>2, <1>3, <1>4, <1>5, <1>6, <1>7, <1>8 DEF HttpNext, httpVars, Wakes, Lose, AbortRun

\* What is heard has arrived.
LEMMA HeardStep ==
  ASSUME HttpInv, [HttpNext]_httpVars PROVE Heard'
<1> USE HttpConstants DEF HttpInv
<1>1. ASSUME NEW byRun \in BOOLEAN, BeginSend(byRun) PROVE Heard'
  BY <1>1 DEF BeginSend, SendAt, Quiet, HttpTypes, Heard, Send, AnswersOf
<1>2. CASE Attempt
  BY <1>2 DEF Attempt, SendAt, HttpTypes, Heard, Send, AnswersOf
<1>3. CASE Throw
  <2>1. UNCHANGED arrived
    BY <1>3 DEF Throw
  <2>3. ASSUME NEW s \in {"failed", "success", "thrown"}, Returns(s),
               s = "success" => "ok" \in AnswersOf(Key)
        PROVE  Heard'
    BY <2>1, <2>3, ReturnsOne DEF Heard, AnswersOf, SendAt
  <2>4. QED
    BY <1>3, <2>3 DEF Throw, Heard, SendAt
<1>4. ASSUME NEW id \in wire \union {requests}, NEW answer \in Answers, Receive(id, answer) PROVE Heard'
  <2>1. AnswersOf(Key)' = AnswersOf(Key) \union {answer}
    BY <1>4, Arrives DEF Receive, HttpTypes
  <2>2. UNCHANGED results
    BY <1>4 DEF Receive
  <2>3. SendAt("flight")' /\ send'.reached =>
          send'.status = answer \/ (SendAt("flight") /\ send.reached /\ send'.status = send.status)
    BY <1>4 DEF Receive, SendAt, HttpTypes, Send
  <2>4. QED
    BY <2>1, <2>2, <2>3 DEF Heard
<1>5. CASE Answered
  <2>1. UNCHANGED arrived
    BY <1>5 DEF Answered
  <2>2. CASE SendMoves("backoff") /\ UNCHANGED results
    BY <2>1, <2>2 DEF SendMoves, Heard, AnswersOf, SendAt, HttpTypes, Send
  <2>3. ASSUME NEW s \in {"failed", "success", "thrown"}, Returns(s),
               s = "success" => "ok" \in AnswersOf(Key)
        PROVE  Heard'
    BY <2>1, <2>3, ReturnsOne DEF Heard, AnswersOf, SendAt
  <2>4. QED
    BY <1>5, <2>2, <2>3 DEF Answered, Heard, SendAt
<1>6. CASE GivesUp
  <2>1. UNCHANGED arrived
    BY <1>6 DEF GivesUp
  <2>2. CASE SendMoves("backoff") /\ UNCHANGED results
    BY <2>1, <2>2 DEF SendMoves, Heard, AnswersOf, SendAt, HttpTypes, Send
  <2>3. ASSUME NEW s \in {"failed", "success", "thrown"}, Returns(s),
               s = "success" => "ok" \in AnswersOf(Key)
        PROVE  Heard'
    BY <2>1, <2>3, ReturnsOne DEF Heard, AnswersOf, SendAt
  <2>4. QED
    BY <1>6, <2>2, <2>3 DEF GivesUp, Heard, SendAt
<1>7. CASE BackoffEnds
  BY <1>7 DEF BackoffEnds, SendAt, NextAttempt, HttpTypes, Heard, Send, AnswersOf
<1>8. CASE UNCHANGED <<arrived, results, send>>
  BY <1>8 DEF HttpTypes, Heard, SendAt, Send, AnswersOf
<1>9. QED
  BY <1>1, <1>2, <1>3, <1>4, <1>5, <1>6, <1>7, <1>8 DEF HttpNext, httpVars, Wakes, Lose, AbortRun

------------------------------------------------------------------------------
\* Nothing is sent in the beginning.
LEMMA HttpInvInit ==
  ASSUME HttpInit PROVE HttpInv
<1> USE HttpConstants DEF HttpInit
<1>1. HttpTypes
  <2>1. send \in Send
    BY DEF Send, Quiet
  <2>2. wire \subseteq 1 .. requests /\ arrived \in Seq(Arrival) /\ results \in Seq(Result)
    OBVIOUS
  <2>3. QED
    BY <2>1, <2>2 DEF HttpTypes
<1>2. SendAt("rest")
  BY DEF SendAt, Quiet
<1>3. Begun /\ Counted /\ Heard
  BY <1>2 DEF Begun, Counted, Heard, SendAt
<1>4. Bounded
  <2>1. Len(results) = 0 /\ 0 * MaxAttempts = 0 /\ requests = 0 /\ Made = 0
    BY <1>2 DEF Made
  <2>2. QED
    BY <1>2, <2>1 DEF Bounded
<1>5. QED
  BY <1>1, <1>3, <1>4 DEF HttpInv

\* The requests of all sends: the product of both bounds.
LEMMA RequestsBounded ==
  ASSUME HttpInv PROVE requests <= MaxSends * MaxAttempts
<1> USE HttpConstants DEF HttpInv
<1> DEFINE r == Len(results)
<1>1. r \in Nat /\ requests \in Nat /\ send.attempt \in 0 .. MaxAttempts
  <2>1. send.attempt \in 0 .. MaxAttempts
    BY SendTypes
  <2>2. QED
    BY <2>1 DEF HttpTypes
<1>2. requests <= r * MaxAttempts + Made /\ r <= MaxSends /\ (~SendAt("rest") => r < MaxSends)
  BY DEF Bounded
<1>3. Made \in Int /\ Made <= MaxAttempts /\ (SendAt("rest") => Made = 0)
  BY <1>1 DEF Made
<1> HIDE DEF r
<1>4. r * MaxAttempts \in Nat /\ MaxSends * MaxAttempts \in Nat
  BY <1>1
<1>5. CASE SendAt("rest")
  <2>1. r * MaxAttempts <= MaxSends * MaxAttempts
    BY <1>1, <1>2, Monotone
  <2>2. QED
    BY <1>1, <1>2, <1>3, <1>4, <1>5, <2>1
<1>6. CASE ~SendAt("rest")
  <2>1. r + 1 <= MaxSends /\ r + 1 \in Nat
    BY <1>1, <1>2, <1>6
  <2>2. (r + 1) * MaxAttempts <= MaxSends * MaxAttempts
    BY <2>1, Monotone
  <2>3. (r + 1) * MaxAttempts = r * MaxAttempts + MaxAttempts
    BY <1>1, Products
  <2>4. QED
    BY <1>1, <1>2, <1>3, <1>4, <2>2, <2>3
<1>7. QED
  BY <1>5, <1>6

\* Every request carries the one key of its entry.
LEMMA OneKey ==
  ASSUME HttpTypes PROVE Cardinality({arrived[i].key : i \in DOMAIN arrived}) <= 1
<1> DEFINE keys == {arrived[i].key : i \in DOMAIN arrived}
<1>1. \A i \in DOMAIN arrived : arrived[i].key = Key
  <2>1. \A i \in DOMAIN arrived : arrived[i] \in Arrival
    BY DEF HttpTypes
  <2>2. QED
    BY <2>1 DEF Arrival
<1>2. keys \subseteq {Key}
  BY <1>1
<1> HIDE DEF keys
<1>3. IsFiniteSet({Key}) /\ Cardinality({Key}) = 1
  BY FS_Singleton
<1>4. Cardinality(keys) <= 1
  BY <1>2, <1>3, FS_Subset
<1>5. QED
  BY <1>4 DEF keys

\* A failed send had used all its attempts, or its answer refused the request.
LEMMA FailsStep ==
  ASSUME HttpInv, HttpNext, Len(results') > Len(results),
         results'[Len(results')].status = "failed"
  PROVE  send.attempt = MaxAttempts \/ (send.reached /\ send.status = "refused")
<1> USE HttpConstants DEF HttpInv
<1>1. HttpTypes /\ Len(results) \in Nat /\ send.attempt \in 0 .. MaxAttempts
      /\ send.status \in Answers \union {"none"}
  <2>1. send.attempt \in 0 .. MaxAttempts /\ send.status \in Answers \union {"none"}
    BY SendTypes
  <2>2. QED
    BY <2>1 DEF HttpTypes
<1>2. \A s \in {"success", "thrown"} : ~Returns(s)
  BY <1>1, ReturnsOne
<1>3. results' # results
  BY <1>1
<1>4. CASE Answered
  <2>1. SendAt("flight") /\ send.reached /\ send.status # "ok" /\ ~Retries(send.status)
    BY <1>2, <1>3, <1>4 DEF Answered
  <2>2. send.status # "none"
    <3>1. send.status \in AnswersOf(Key)
      BY <2>1 DEF Heard
    <3>2. \A i \in DOMAIN arrived : arrived[i].answer \in Answers
      <4>1. \A i \in DOMAIN arrived : arrived[i] \in Arrival
        BY DEF HttpTypes
      <4>2. QED
        BY <4>1 DEF Arrival
    <3>3. PICK i \in DOMAIN arrived : arrived[i].answer = send.status
      BY <3>1 DEF AnswersOf
    <3>4. QED
      BY <3>2, <3>3
  <2>3. send.status \in {"retryable", "refused"}
    BY <1>1, <2>1, <2>2
  <2>4. send.status = "retryable" => send.attempt = MaxAttempts
    BY <1>1, <2>1 DEF Retries
  <2>5. QED
    BY <2>1, <2>3, <2>4
<1>5. CASE GivesUp
  BY <1>1, <1>3, <1>5 DEF GivesUp
<1>6. CASE Throw
  BY <1>2, <1>6 DEF Throw
<1>7. QED
  BY <1>3, <1>4, <1>5, <1>6
     DEF HttpNext, BeginSend, Attempt, BackoffEnds, Wakes, AbortRun, Receive, Lose

\* An aborted run makes no request.
LEMMA AbortedStep ==
  ASSUME HttpNext, aborted PROVE requests' = requests
BY DEF HttpNext, BeginSend, Attempt, Throw, Answered, GivesUp, BackoffEnds, Wakes, AbortRun,
       Receive, Lose

\* However late requests and answers come, whichever are lost and whenever the run is
\* aborted: one effect for an entry, a reason for every failure, and no request after an
\* abort (send and attempt of delivery.service.ts).
THEOREM HttpKept == HttpSpec => HttpSafe
<1>1. HttpInit => HttpInv
  BY HttpInvInit
<1>2. HttpInv /\ [HttpNext]_httpVars => HttpInv'
  BY HttpTypesStep, BegunStep, CountedStep, BoundedStep, HeardStep DEF HttpInv
<1>3. HttpInv => HttpTypeOK
  BY SendTypes, RequestsBounded DEF HttpInv, HttpTypes, HttpTypeOK
<1>4. HttpInv => OneEffect
  BY OneKey DEF HttpInv, Heard, OneEffect
<1>5. HttpInv /\ [HttpNext]_httpVars =>
        [Len(results') > Len(results) /\ results'[Len(results')].status = "failed" =>
           send.attempt = MaxAttempts \/ (send.reached /\ send.status = "refused")]_httpVars
  BY FailsStep
<1>6. [HttpNext]_httpVars => [aborted => requests' = requests]_httpVars
  BY AbortedStep
<1>7. QED
  BY <1>1, <1>2, <1>3, <1>4, <1>5, <1>6, PTL DEF HttpSpec, HttpSafe, FailsWithReason, NothingAfterAbort
==============================================================================
