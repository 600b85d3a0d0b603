------------------------------ MODULE HookRuns -------------------------------
(***************************************************************************)
(* One hook and all its runs: HooksController (hooks.controller.ts), the   *)
(* part of HookRunService that makes, starts and cancels runs, and the     *)
(* removal of the hook or of its workspace.  Here the three triggers meet  *)
(* over the same rows of hook_runs.  What happens inside one run is in     *)
(* ReplayRun, WatchRun and CdcStream: the stop of a listener is one step.  *)
(***************************************************************************)
EXTENDS Integers, FiniteSets, FiniteSetsExt

CONSTANTS
  Kinds,       \* the kinds of trigger the hook may be given
  Ops,         \* requests: subset of {"start", "resume", "retry", "cancel", "listen",
               \*                       "stop", "edit", "remove", "workspace"}
  Callers,     \* requests that may be under way at once
  MaxStarts,   \* starts and edits that may be under way at once
  SwitchActive,  \* whether an edit may change the kind while a run is active or has a job
  MaxCalls, MaxRuns, MaxBatches, MaxCrashes

ASSUME HookRunsConstants ==
  /\ Kinds \subseteq {"replay", "watch", "cdc"} /\ SwitchActive \in BOOLEAN
  /\ MaxStarts \in Nat /\ MaxCalls \in Nat
  /\ MaxRuns \in Nat \ {0} /\ MaxBatches \in Nat /\ MaxCrashes \in Nat

VARIABLES
  hook,        \* the hook's row: trigger kind, enabled, and the version of its config
  run,         \* run id -> its row: status, config snapshot, whose cursor, when started
  job,         \* run id -> its job in the queue hook-runs
  worker,      \* run id -> what the worker that holds the job does
  scheduler,   \* whether the watch queue has the hook's job scheduler
  live,        \* the run of the hook's open CDC stream, 0 when there is none
  call,        \* the requests' locals
  calls, crashes,
  sent,        \* history: deliveries, and the version of the config they used
  picked       \* history: whether a request has named the run to resume or retry

listeners == <<scheduler, live>>
queue == <<job, worker>>
history == <<sent, picked>>
vars == <<hook, run, queue, listeners, call, calls, crashes, history>>

Runs == 1 .. MaxRuns
Gone == [kind |-> "gone", enabled |-> FALSE, version |-> 0]
NoRun == [status |-> "none", snap |-> 0, cursor |-> "none", at |-> 0]
Idle == [op |-> "idle", step |-> "idle", run |-> 0, was |-> FALSE, seen |-> {}]
Off == [step |-> "off", snap |-> 0, batches |-> 0, aborted |-> FALSE]

Active == {"queued", "running", "canceling"}
Terminal == {"completed", "failed", "canceled", "interrupted"}
Resumable == {"failed", "canceled", "paused", "interrupted"}
With(statuses) == {n \in Runs : run[n].status \in statuses}
\* findFirst with startedAt descending.
Latest(ids) == CHOOSE n \in ids : \A m \in ids : run[m].at <= run[n].at
Newer == 1 + Max({run[n].at : n \in Runs})
FreeId == CHOOSE n \in Runs : run[n].status = "none" /\ job[n] = "none"
HasFreeId == \E n \in Runs : run[n].status = "none" /\ job[n] = "none"
Alive == hook.kind # "gone"

Init ==
  /\ hook \in [kind : Kinds, enabled : BOOLEAN, version : {1}]
  /\ run = [n \in Runs |-> IF n = 1 /\ hook.kind = "replay"
                           THEN [NoRun EXCEPT !.status = "draft", !.snap = 1, !.at = 1]
                           ELSE NoRun]
  /\ job = [n \in Runs |-> "none"] /\ worker = [n \in Runs |-> Off]
  /\ scheduler = FALSE /\ live = 0
  /\ call = [c \in Callers |-> Idle] /\ calls = 0 /\ crashes = 0 /\ sent = {} /\ picked = FALSE

Resumes(c, step) == call[c].step = step
Goto(c, step) == call' = [call EXCEPT ![c].step = step]
Return(c) == call' = [call EXCEPT ![c] = Idle]
Starts == {"start", "resume", "retry", "listen", "edit"}
Enter(c, op, step) ==
  /\ op \in Ops /\ calls < MaxCalls /\ calls' = calls + 1 /\ Alive /\ call[c].step = "idle"
  /\ op \in Starts =>
       Cardinality({d \in Callers : call[d].op \in Starts}) < MaxStarts
  /\ call' = [call EXCEPT ![c] = [Idle EXCEPT !.op = op, !.step = step]]
SetStatus(n, status) == run' = [run EXCEPT ![n].status = status]

(******************************* start and resume **************************)

\* The web page offers Start for a replay hook, and Listen for the others.
AskStart(c) ==
  /\ hook.kind = "replay" /\ Enter(c, "start", "draft")
  /\ UNCHANGED <<hook, run, queue, listeners, crashes, history>>

FindDraft(c) ==
  /\ Resumes(c, "draft")
  /\ IF With({"draft"}) # {}
     THEN call' = [call EXCEPT ![c].run = Latest(With({"draft"})), ![c].step = "queue draft"]
     ELSE Goto(c, "active")
  /\ UNCHANGED <<hook, run, queue, listeners, calls, crashes, history>>

\* The draft as it was prepared; it is gone when an edit has replaced it.
QueueDraft(c) ==
  /\ Resumes(c, "queue draft")
  /\ IF run[call[c].run].status = "none" THEN Return(c) /\ UNCHANGED run
     ELSE /\ run' = [run EXCEPT ![call[c].run].status = "queued", ![call[c].run].at = Newer]
          /\ Goto(c, "enqueue")
  /\ UNCHANGED <<hook, queue, listeners, calls, crashes, history>>

\* Mutant of CheckActive: nobody looks for an active run.
StartsAnyway(c) ==
  /\ Resumes(c, "active")
  /\ IF With(Resumable) # {}
     THEN call' = [call EXCEPT ![c].run = Latest(With(Resumable)), ![c].step = "resume"]
     ELSE Goto(c, "create")
  /\ UNCHANGED <<hook, run, queue, listeners, calls, crashes, history>>

CheckActive(c) ==
  /\ Resumes(c, "active")
  /\ IF With(Active) # {} THEN Return(c)
     ELSE IF With(Resumable) # {}
     THEN call' = [call EXCEPT ![c].run = Latest(With(Resumable)), ![c].step = "resume"]
     ELSE Goto(c, "create")
  /\ UNCHANGED <<hook, run, queue, listeners, calls, crashes, history>>

\* Resume and retry name the run; nobody looks whether another one is active.
AskResume(c) ==
  /\ hook.kind = "replay" /\ (Enter(c, "resume", "pick") \/ Enter(c, "retry", "pick"))
  /\ UNCHANGED <<hook, run, queue, listeners, crashes, history>>
Fit(c) == With(IF call[c].op = "retry" THEN Terminal ELSE Resumable)
PickRun(c) ==
  /\ Resumes(c, "pick") /\ picked' = TRUE
  /\ \/ \E n \in Fit(c) : call' = [call EXCEPT ![c].run = n, ![c].step = "resume"]
     \/ Fit(c) = {} /\ Return(c)
  /\ UNCHANGED <<hook, run, queue, listeners, calls, crashes, sent>>

\* The rest of the run, or its failed rows, with the hook's current config.
ResumeRun(c) ==
  /\ Resumes(c, "resume")
  /\ IF call[c].run \notin Fit(c) \/ ~Alive THEN Return(c) /\ UNCHANGED run
     ELSE /\ run' = [run EXCEPT ![call[c].run].status = "queued", ![call[c].run].snap = hook.version]
          /\ Goto(c, "enqueue")
  /\ UNCHANGED <<hook, queue, listeners, calls, crashes, history>>

CreateRun(c) ==
  /\ Resumes(c, "create")
  /\ IF ~Alive THEN Return(c) /\ UNCHANGED run
     ELSE /\ HasFreeId
          /\ run' = [run EXCEPT ![FreeId] =
                       [NoRun EXCEPT !.status = "queued", !.snap = hook.version, !.at = Newer]]
          /\ call' = [call EXCEPT ![c].run = FreeId, ![c].step = "enqueue"]
  /\ UNCHANGED <<hook, queue, listeners, calls, crashes, history>>

\* The job's id is the run's: adding it again is a no-op.
Add(n) == job' = [job EXCEPT ![n] = IF @ = "none" THEN "waiting" ELSE @]
Enqueue(c) ==
  /\ Resumes(c, "enqueue") /\ Add(call[c].run) /\ Return(c)
  /\ UNCHANGED <<hook, run, worker, listeners, calls, crashes, history>>

(******************************* listen and stop ***************************)

AskListen(c) ==
  /\ hook.kind # "replay" /\ Enter(c, "listen", "check")
  /\ UNCHANGED <<hook, run, queue, listeners, crashes, history>>

CheckListener(c) ==
  /\ Resumes(c, "check")
  /\ IF With(Active) # {} \/ hook.kind \notin {"watch", "cdc"} THEN Return(c) ELSE Goto(c, "listen")
  /\ UNCHANGED <<hook, run, queue, listeners, calls, crashes, history>>

\* The latest run goes on in place: for cdc whatever it was, for watch when it has a
\* cursor, which is rebuilt if it is another trigger's.
Reused == {n \in Runs : /\ run[n].status # "none" /\ \A m \in Runs : run[m].at <= run[n].at
                        /\ hook.kind = "watch" => run[n].cursor # "none"}
Listens(n, kind) ==
  run' = [run EXCEPT ![n] =
            [@ EXCEPT !.status = "running", !.at = IF n \in Reused THEN @ ELSE Newer,
                      !.cursor = IF kind = "watch" THEN "watch" ELSE @,
                      !.snap = IF n \in Reused /\ (kind = "cdc" \/ run[n].cursor = kind)
                               THEN @ ELSE hook.version]]
BeginListening(c) ==
  /\ Resumes(c, "listen") /\ Return(c)
  /\ IF hook.kind \notin {"watch", "cdc"} THEN UNCHANGED <<run, listeners>>
     ELSE \E n \in Runs :
            /\ IF Reused # {} THEN n \in Reused ELSE HasFreeId /\ n = FreeId
            /\ Listens(n, hook.kind)
            /\ IF hook.kind = "watch" THEN scheduler' = TRUE /\ UNCHANGED live
               ELSE live' = (IF live = 0 THEN n ELSE live) /\ UNCHANGED scheduler
  /\ UNCHANGED <<hook, queue, calls, crashes, history>>

\* stop of either listener pauses the latest active run of the hook, of any kind.
PauseLatest ==
  IF With(Active) = {} THEN UNCHANGED run ELSE SetStatus(Latest(With(Active)), "paused")
StopCdc == live' = 0 /\ UNCHANGED scheduler /\ PauseLatest
StopWatch == scheduler' = FALSE /\ UNCHANGED live /\ PauseLatest

AskStop(c) ==
  /\ hook.kind # "replay" /\ Enter(c, "stop", "stop cdc")
  /\ UNCHANGED <<hook, run, queue, listeners, crashes, history>>
CdcStops(c) ==
  /\ Resumes(c, "stop cdc") /\ StopCdc /\ Goto(c, "stop watch")
  /\ UNCHANGED <<hook, queue, calls, crashes, history>>
WatchStops(c) ==
  /\ Resumes(c, "stop watch") /\ StopWatch /\ Return(c)
  /\ UNCHANGED <<hook, queue, calls, crashes, history>>

(******************************* cancel ************************************)

\* For a hook that listens now, cancel means to stop the listener.
AskCancel(c) ==
  /\ With(Active) # {} /\ Enter(c, "cancel", "cancel")
  /\ UNCHANGED <<hook, run, queue, listeners, crashes, history>>
CancelListener(c) ==
  /\ Resumes(c, "cancel") /\ hook.kind \in {"watch", "cdc"} /\ Return(c)
  /\ IF With(Active) # {} THEN StopCdc ELSE UNCHANGED <<run, listeners>>
  /\ UNCHANGED <<hook, queue, calls, crashes, history>>
CancelRun(c) ==
  /\ Resumes(c, "cancel") /\ hook.kind \notin {"watch", "cdc"}
  /\ \/ /\ With(Active) = {} /\ Return(c) /\ UNCHANGED run
     \/ \E n \in With(Active) :
          SetStatus(n, "canceling") /\ call' = [call EXCEPT ![c].run = n, ![c].step = "abort"]
  /\ UNCHANGED <<hook, queue, listeners, calls, crashes, history>>

\* Mutant of Abort: the job is removed though a worker holds it.
RemovesHeldJob(n) ==
  /\ worker' = [worker EXCEPT ![n].aborted = worker[n].step # "off"]
  /\ job' = [job EXCEPT ![n] = "none"]

\* registry.abort, and the removal of the job, which fails once a worker holds it.
Abort(n) ==
  /\ worker' = [worker EXCEPT ![n].aborted = worker[n].step # "off"]
  /\ job' = [job EXCEPT ![n] = IF @ = "waiting" THEN "none" ELSE @]
AbortRun(c) ==
  /\ Resumes(c, "abort") /\ Abort(call[c].run) /\ Return(c)
  /\ UNCHANGED <<hook, run, listeners, calls, crashes, history>>

(******************************* edit **************************************)

\* A listener is stopped by the trigger the hook had before.
AskEdit(c) ==
  /\ Enter(c, "edit", "stop old")
  /\ UNCHANGED <<hook, run, queue, listeners, crashes, history>>
\* Mutant of StopOld: the run is paused, and the listener goes on.
PausesOnly(c) ==
  /\ Resumes(c, "stop old") /\ UNCHANGED listeners
  /\ call' = [call EXCEPT ![c].was = hook.kind \in {"watch", "cdc"} /\ With(Active) # {},
                          ![c].step = "write"]
  /\ IF hook.kind \in {"watch", "cdc"} THEN PauseLatest ELSE UNCHANGED run
  /\ UNCHANGED <<hook, queue, calls, crashes, history>>

StopOld(c) ==
  /\ Resumes(c, "stop old")
  /\ call' = [call EXCEPT ![c].was = hook.kind \in {"watch", "cdc"} /\ With(Active) # {},
                          ![c].step = "write"]
  /\ CASE hook.kind = "cdc" -> StopCdc
       [] hook.kind = "watch" -> StopWatch
       [] OTHER -> UNCHANGED <<run, listeners>>
  /\ UNCHANGED <<hook, queue, calls, crashes, history>>

WriteHook(c) ==
  /\ Resumes(c, "write")
  /\ IF ~Alive THEN Return(c) /\ UNCHANGED hook
     ELSE /\ hook' \in [kind : Kinds, enabled : BOOLEAN, version : {hook.version + 1}]
          /\ \/ SwitchActive \/ hook'.kind = hook.kind
             \/ With(Active) = {} /\ \A n \in Runs : job[n] = "none"
          /\ Goto(c, "drop drafts")
  /\ UNCHANGED <<run, queue, listeners, calls, crashes, history>>

\* Mutant of DropDrafts: the draft of a hook that is edited stays as it was.
KeepsDrafts(c) ==
  /\ Resumes(c, "drop drafts") /\ Goto(c, "restart")
  /\ UNCHANGED <<hook, run, queue, listeners, calls, crashes, history>>

\* prepare with onlyExisting: a draft is replaced, never added, and not while a run is
\* active.
DropDrafts(c) ==
  /\ Resumes(c, "drop drafts")
  /\ IF hook.kind # "replay" \/ With(Active) # {} \/ With({"draft"}) = {}
     THEN Goto(c, "restart") /\ UNCHANGED run
     ELSE /\ run' = [n \in Runs |-> IF run[n].status = "draft" THEN NoRun ELSE run[n]]
          /\ Goto(c, "write draft")
  /\ UNCHANGED <<hook, queue, listeners, calls, crashes, history>>
WriteDraft(c) ==
  /\ Resumes(c, "write draft") /\ Goto(c, "restart")
  /\ IF ~Alive THEN UNCHANGED run
     ELSE run' = [run EXCEPT ![FreeId] =
                    [NoRun EXCEPT !.status = "draft", !.snap = hook.version, !.at = Newer]]
  /\ UNCHANGED <<hook, queue, listeners, calls, crashes, history>>

Restart(c) ==
  /\ Resumes(c, "restart")
  /\ IF call[c].was /\ hook.enabled THEN Goto(c, "check") ELSE Return(c)
  /\ UNCHANGED <<hook, run, queue, listeners, calls, crashes, history>>

(******************************* remove ************************************)

\* The hook's removal tears both listeners down, whatever its trigger is now.
AskRemove(c) ==
  /\ Enter(c, "remove", "clean up")
  /\ UNCHANGED <<hook, run, queue, listeners, crashes, history>>
CleanUp(c) ==
  /\ Resumes(c, "clean up") /\ live' = 0 /\ Goto(c, "unwatch")
  /\ UNCHANGED <<hook, run, queue, scheduler, calls, crashes, history>>
Unwatch(c) ==
  /\ Resumes(c, "unwatch") /\ StopWatch /\ Goto(c, "list")
  /\ UNCHANGED <<hook, queue, calls, crashes, history>>
ListRuns(c) ==
  /\ Resumes(c, "list")
  /\ call' = [call EXCEPT ![c].seen = With({"queued", "running"}), ![c].step = "cancel seen"]
  /\ UNCHANGED <<hook, run, queue, listeners, calls, crashes, history>>
\* cancel of the runs that were queued or running in the list.
CancelSeen(c) ==
  /\ Resumes(c, "cancel seen") /\ call[c].seen # {}
  /\ LET n == Max(call[c].seen)
     IN /\ IF run[n].status \in Terminal \union {"none"} THEN UNCHANGED <<run, queue>>
           ELSE SetStatus(n, "canceling") /\ Abort(n)
        /\ call' = [call EXCEPT ![c].seen = @ \ {n}]
  /\ UNCHANGED <<hook, listeners, calls, crashes, history>>

\* The rows of its runs go with the hook's.
Deleted == hook' = Gone /\ run' = [n \in Runs |-> NoRun]
RemoveHook(c) ==
  /\ Resumes(c, "cancel seen") /\ call[c].seen = {} /\ Deleted /\ Return(c)
  /\ UNCHANGED <<queue, listeners, calls, crashes, history>>

\* The workspace's removal stops the listener that the trigger names, cancels no run,
\* and takes the hook with it.
AskRemoveWorkspace(c) ==
  /\ Enter(c, "workspace", "stop listed")
  /\ UNCHANGED <<hook, run, queue, listeners, crashes, history>>
\* Mutant of StopListed: the workspace is deleted, and what listens goes on.
DeletesOnly(c) ==
  /\ Resumes(c, "stop listed") /\ Goto(c, "delete workspace")
  /\ UNCHANGED <<hook, run, listeners, queue, calls, crashes, history>>

StopListed(c) ==
  /\ Resumes(c, "stop listed") /\ Goto(c, "delete workspace")
  /\ CASE hook.kind = "cdc" -> live' = 0 /\ UNCHANGED <<run, scheduler>>
       [] hook.kind = "watch" -> StopWatch
       [] OTHER -> UNCHANGED <<run, listeners>>
  /\ UNCHANGED <<hook, queue, calls, crashes, history>>
RemoveWorkspace(c) ==
  /\ Resumes(c, "delete workspace") /\ Deleted /\ Return(c)
  /\ UNCHANGED <<queue, listeners, calls, crashes, history>>

(******************************* the worker ********************************)

\* process: a run that is settled, or gone, is left alone.
TakeJob(n) ==
  /\ job[n] = "waiting"
  /\ IF run[n].status \in Terminal \union {"none", "canceling"}
     THEN /\ job' = [job EXCEPT ![n] = "none"] /\ UNCHANGED worker
          /\ IF run[n].status = "canceling" THEN SetStatus(n, "canceled") ELSE UNCHANGED run
     ELSE /\ job' = [job EXCEPT ![n] = "active"] /\ UNCHANGED run
          /\ worker' = [worker EXCEPT ![n] = [Off EXCEPT !.step = "taken", !.snap = run[n].snap]]
  /\ UNCHANGED <<hook, listeners, call, calls, crashes, history>>

EndJob(n) == job' = [job EXCEPT ![n] = "none"] /\ worker' = [worker EXCEPT ![n] = Off]
MarkRunning(n) ==
  /\ worker[n].step = "taken"
  /\ IF run[n].status = "none" THEN EndJob(n) /\ UNCHANGED run
     ELSE SetStatus(n, "running") /\ worker' = [worker EXCEPT ![n].step = "running"] /\ UNCHANGED job
  /\ UNCHANGED <<hook, listeners, call, calls, crashes, history>>

\* A batch is sent, then recorded: an entry of a run that is gone cannot be written.
Send(n) ==
  /\ worker[n].step = "running" /\ ~worker[n].aborted /\ worker[n].batches < MaxBatches
  /\ worker' = [worker EXCEPT ![n].step = "sent", ![n].batches = @ + 1]
  /\ sent' = sent \union {<<n, worker[n].snap>>}
  /\ UNCHANGED <<hook, run, job, listeners, call, calls, crashes, picked>>
RecordBatch(n) ==
  /\ worker[n].step = "sent"
  /\ IF run[n].status = "none" THEN EndJob(n)
     ELSE worker' = [worker EXCEPT ![n].step = "running"] /\ UNCHANGED job
  /\ UNCHANGED <<hook, run, listeners, call, calls, crashes, history>>

\* Seen between two rows, at most every 750 ms: a cancel, or that the run is gone.
StopRequested(n) ==
  /\ worker[n].step = "running" /\ (worker[n].aborted \/ run[n].status \in {"canceling", "canceled", "none"})
  /\ IF run[n].status = "none" THEN UNCHANGED run ELSE SetStatus(n, "canceled")
  /\ EndJob(n)
  /\ UNCHANGED <<hook, listeners, call, calls, crashes, history>>
\* The last row, or a failed delivery of a hook that aborts on errors.
EndRun(n) ==
  /\ worker[n].step = "running" /\ ~worker[n].aborted /\ EndJob(n)
  /\ IF run[n].status = "none" THEN UNCHANGED run
     ELSE \E status \in {"completed", "failed"} : SetStatus(n, status)
  /\ UNCHANGED <<hook, listeners, call, calls, crashes, history>>

(******************************* the listeners *****************************)

\* A poll of a hook that does not listen any more retires the scheduler.
Listening == {n \in With({"running"}) : run[n].cursor # "none"}
Poll ==
  /\ scheduler
  /\ IF Listening = {} THEN scheduler' = FALSE /\ UNCHANGED run
     ELSE IF ~hook.enabled \/ hook.kind # "watch"
     THEN scheduler' = FALSE /\ SetStatus(Latest(Listening), "canceled")
     ELSE UNCHANGED <<scheduler, run>>
  /\ UNCHANGED <<hook, queue, live, call, calls, crashes, history>>

\* The stream's first change gives its run a cursor.
Change ==
  /\ live # 0 /\ run[live].status # "none" /\ run[live].cursor # "cdc"
  /\ run' = [run EXCEPT ![live].cursor = "cdc"]
  /\ UNCHANGED <<hook, queue, listeners, call, calls, crashes, history>>

(******************************* the process *******************************)

\* A dead process starts again: the jobs it held come back, and each service takes up
\* the runs of its own trigger.
Restarted ==
  /\ crashes < MaxCrashes /\ crashes' = crashes + 1
  /\ call' = [c \in Callers |-> Idle] /\ worker' = [n \in Runs |-> Off]
  /\ job' = [n \in Runs |->
               IF job[n] # "none" \/ (hook.kind = "replay" /\ run[n].status \in Active)
               THEN "waiting" ELSE "none"]
  /\ live' = IF hook.kind = "cdc" /\ hook.enabled /\ With({"running"}) # {}
             THEN Latest(With({"running"})) ELSE 0
  /\ scheduler' = (scheduler \/ (hook.kind = "watch" /\ hook.enabled /\ Listening # {}))
  /\ UNCHANGED <<hook, run, calls, history>>

RequestNext(c) ==
  \/ FindDraft(c) \/ QueueDraft(c) \/ CheckActive(c) \/ PickRun(c) \/ ResumeRun(c)
  \/ CreateRun(c) \/ Enqueue(c) \/ CheckListener(c) \/ BeginListening(c) \/ CdcStops(c)
  \/ WatchStops(c) \/ CancelListener(c) \/ CancelRun(c) \/ AbortRun(c) \/ StopOld(c)
  \/ WriteHook(c) \/ DropDrafts(c) \/ WriteDraft(c) \/ Restart(c) \/ CleanUp(c)
  \/ Unwatch(c) \/ ListRuns(c) \/ CancelSeen(c) \/ RemoveHook(c) \/ StopListed(c)
  \/ RemoveWorkspace(c)
Ask(c) ==
  \/ AskStart(c) \/ AskResume(c) \/ AskListen(c) \/ AskStop(c) \/ AskCancel(c)
  \/ AskEdit(c) \/ AskRemove(c) \/ AskRemoveWorkspace(c)
WorkerNext(n) ==
  \/ TakeJob(n) \/ MarkRunning(n) \/ Send(n) \/ RecordBatch(n) \/ StopRequested(n) \/ EndRun(n)
Next ==
  \/ \E c \in Callers : Ask(c) \/ RequestNext(c)
  \/ \E n \in Runs : WorkerNext(n)
  \/ Poll \/ Change \/ Restarted

Spec == Init /\ [][Next]_vars

\* Requests, the worker and a scheduler that is there go on.
HookFairness ==
  /\ WF_vars(Poll)
  /\ \A c \in Callers : WF_vars(RequestNext(c))
  /\ \A n \in Runs : WF_vars(WorkerNext(n))
FairSpec == Spec /\ HookFairness

(******************************* properties ********************************)

Statuses == Active \union Terminal \union {"none", "draft", "paused"}
TypeOK ==
  /\ hook.kind \in Kinds \union {"gone"} /\ live \in {0} \union Runs /\ scheduler \in BOOLEAN
  /\ \A n \in Runs :
       /\ run[n].status \in Statuses /\ run[n].cursor \in {"none", "watch", "cdc"}
       /\ job[n] \in {"none", "waiting", "active"}
       /\ worker[n].step \in {"off", "taken", "running", "sent"}
       /\ (worker[n].step # "off") <=> (job[n] = "active")

\* A hook has one run at a time, though drafts are started without a look at the others
\* and the three triggers share the rows, until a request names the run to go on with.
OneActive == picked \/ Cardinality(With(Active)) <= 1

\* A replay run is queued with the config the hook has by then, a draft that was
\* prepared before an edit included, unless a crash cut the edit off.
QueuedIsCurrent ==
  [][\A n \in Runs :
       run'[n].status = "queued" /\ run[n].status # "queued" /\ crashes = 0 =>
         run'[n].snap = hook.version]_vars

\* Between two requests a stream is open only for a hook that is cdc now, and a
\* watch hook that listens has its scheduler: no edit across triggers leaves a zombie.
AtRest == \A c \in Callers : call[c].step = "idle"
NoZombie ==
  AtRest =>
    /\ live # 0 => hook.kind = "cdc"
    /\ hook.kind = "watch" /\ hook.enabled /\ Listening # {} => scheduler

\* Nothing is sent for a hook that has been removed.
RemovedIsQuiet == [][sent' # sent => Alive]_vars

\* What a removed hook leaves behind, jobs, a worker, a scheduler or a stream, goes.
\* (A removed hook never comes back, so this is the leads-to from ~Alive.)
RemovedRetires ==
  []<>(~Alive => ~scheduler /\ live = 0 /\ \A n \in Runs : job[n] = "none")

\* What the runs of a hook promise together: one at a time over the three triggers, no
\* zombie of an edit, no stale config, and a removal that ends what goes on.
HookRunsPromise ==
  []TypeOK /\ []OneActive /\ []NoZombie /\ QueuedIsCurrent /\ RemovedRetires
==============================================================================
