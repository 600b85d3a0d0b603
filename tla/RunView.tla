------------------------------- MODULE RunView -------------------------------
(***************************************************************************)
(* What the panel of a hook shows of its runs (queries.ts,                 *)
(* automations-view.tsx, run-detail.tsx, delivery-log.tsx) and the         *)
(* endpoints it asks (hooks.controller.ts, HookRunService).                *)
(*                                                                         *)
(* The browser caches answers: the list of runs, asked again while it      *)
(* shows an active run, and the windows of the delivery ledger, of which   *)
(* the one on the screen is asked again while the selected run shows as    *)
(* active.  A request is asked, read by the server, and then lands, also   *)
(* when its window has left the screen.  The cache is TanStack Query's: an *)
(* invalidation marks every window of a run and asks the one on the screen *)
(* anew, but a window without any data yet keeps the request it has.       *)
(* Drafts are left out.                                                    *)
(***************************************************************************)
EXTENDS RunLedger, FiniteSets

CONSTANTS MaxRuns,      \* bound: runs of the hook
          Cells,        \* sequences of a run, planned in advance for a replay of a table
          Failing,      \* sequences whose delivery fails
          Window,       \* CELLS_PER_PAGE and LIVE_PAGE_SIZE
          MaxMoves      \* bound: buttons pressed, pages turned, requests lost, runs started elsewhere

ASSUME RunViewAssumption ==
  /\ MaxRuns \in Nat \ {0} /\ Cells \in Nat \ {0} /\ Window \in Nat \ {0}
  /\ MaxMoves \in Nat /\ Failing \subseteq 0 .. Cells - 1

RunIds == 1 .. MaxRuns
Seqs == 0 .. Cells - 1
LastPage == (Cells - 1) \div Window
Pages == 0 .. Cells \div Window   \* of a listener's the last may be empty
TailPage == Cells + 1            \* a live listener's window without an offset
Windows == RunIds \X (Pages \union {TailPage})

VARIABLES kind,    \* "replay", whose total is known, or "listener"
          status,  \* server: of each run its status, "none" before it exists
          deliveries,  \* server: of each run and sequence the outcome, "none" before one
          late,    \* history: of each run the sequences recorded after a stop
          list,    \* browser: statuses as the cached list has them
          poll,    \* the request of the list
          view,    \* selected run (0 for none), page, and whether the user turned pages
          cache,   \* browser: of each window its data and its request
          call,    \* the mutation under way
          moves    \* counts towards MaxMoves

Moves == moves < MaxMoves /\ moves' = moves + 1

serverVars == <<status, deliveries, late>>
runViewVars == <<kind, status, deliveries, late, list, poll, view, cache, call, moves>>

Statuses == RunStatus \union {"none"}
Results == DeliveryStatus \union {"none"}
NoRuns == [r \in RunIds |-> "none"]
Blank == [s \in Seqs |-> "none"]
Idle(data) == [at |-> "idle", data |-> data]
Asked(data) == [at |-> "asked", data |-> data]
\* behind, history: the request was kept by an invalidation although it had been read.
NoData == [has |-> FALSE, data |-> Blank, at |-> "idle", answer |-> Blank, behind |-> FALSE]
NoCall == [at |-> "idle", op |-> "none", run |-> 0, targets |-> {}, answer |-> "none"]

RunViewTypeOK ==
  /\ kind \in {"replay", "listener"} /\ moves \in 0 .. MaxMoves
  /\ late \in [RunIds -> SUBSET Seqs]
  /\ status \in [RunIds -> Statuses] /\ list \in [RunIds -> Statuses]
  /\ deliveries \in [RunIds -> [Seqs -> Results]]
  /\ poll \in [at : {"idle", "asked", "read"}, data : [RunIds -> Statuses]]
  /\ \A w \in Windows : cache[w] \in [has : BOOLEAN, data : [Seqs -> Results], at : {"idle", "asked", "read"},
                                     answer : [Seqs -> Results], behind : BOOLEAN]
  /\ view \in [run : {0} \union RunIds, page : Pages, manual : BOOLEAN]
  /\ call \in [at : {"idle", "sent", "done"}, run : {0} \union RunIds, answer : Statuses \union {"refused"},
               op : {"none", "start", "resume", "cancel", "listen", "stop", "retry", "skip"},
               targets : SUBSET Seqs]
  \* What is on the screen is selected from the list.
  /\ view.run # 0 => list[view.run] # "none"
  /\ kind = "replay" => view.page <= LastPage

\* The list of a hook without runs was read, or that of one with a run is on its way.
RunViewInit ==
  /\ kind \in {"replay", "listener"}
  /\ status \in {NoRuns, [NoRuns EXCEPT ![1] = "queued"]} /\ deliveries = [r \in RunIds |-> Blank]
  /\ list = NoRuns /\ poll = (IF status = NoRuns THEN Idle(NoRuns) ELSE Asked(NoRuns)) /\ late = [r \in RunIds |-> {}]
  /\ view = [run |-> 0, page |-> 0, manual |-> FALSE]
  /\ cache = [w \in Windows |-> NoData] /\ call = NoCall
  /\ moves = 0

(******************************* the server ********************************)

Exists(r) == status[r] # "none"
FreshRun == CHOOSE r \in RunIds : ~Exists(r) /\ \A q \in RunIds : q < r => Exists(q)
HasFreshRun == \E r \in RunIds : ~Exists(r)
AnyActive(st) == \E r \in RunIds : st[r] \in Active
\* Runs are listed by the time they started, the newest first.
Newest(st) == CHOOSE r \in RunIds : st[r] # "none" /\ \A q \in RunIds : q > r => st[q] = "none"

\* The deliveries of a window: the planned cells of a page, or, ordered by sequence, the
\* Window rows after an offset, which is 0 when the browser gives none.
Before(r, s) == Cardinality({q \in Seqs : q < s /\ deliveries[r][q] # "none"})
InWindow(r, w, s) ==
  IF kind = "replay" THEN s \div Window = w
  ELSE LET offset == IF w = TailPage THEN 0 ELSE w * Window
       IN  Before(r, s) \in offset .. offset + Window - 1
ListDeliveries(r, w) == [s \in Seqs |-> IF InWindow(r, w, s) THEN deliveries[r][s] ELSE "none"]

\* A stop does not wait for the delivery under way (HookWatchService.tick), which may be
\* recorded after it.
Proceeds(r) ==
  /\ status' = [status EXCEPT ![r] =
       CASE @ = "queued" -> "running" [] @ = "canceling" -> "canceled"
         [] OTHER -> IF kind = "replay" THEN "completed" ELSE "failed"]
  /\ status[r] = "running" /\ kind = "replay" => \A s \in Seqs : deliveries[r][s] # "none"
  /\ UNCHANGED <<deliveries, late>>
Records(r) ==
  \E s \in Seqs :
    /\ deliveries[r][s] = "none" /\ \A q \in Seqs : q < s => deliveries[r][q] # "none"
    /\ deliveries' = [deliveries EXCEPT ![r][s] = IF s \in Failing THEN "failed" ELSE "success"] /\ UNCHANGED status
    /\ late' = IF status[r] = "paused" THEN [late EXCEPT ![r] = @ \union {s}] ELSE late
Work(r) ==
  /\ \/ status[r] \in Active /\ Proceeds(r)
     \/ status[r] \in {"running", "paused"} /\ Records(r)
  /\ UNCHANGED <<kind, list, poll, view, cache, call, moves>>

StartsElsewhere ==
  /\ Moves /\ HasFreshRun /\ ~AnyActive(status)
  /\ status' = [status EXCEPT ![FreshRun] = "queued"]
  /\ UNCHANGED <<kind, deliveries, late, list, poll, view, cache, call>>

\* The handlers of the mutations: the statuses they leave, and the run they answer with.
Responds(r, answer) == call' = [call EXCEPT !.at = "done", !.run = r, !.answer = answer]
Becomes(r, st) == status' = [status EXCEPT ![r] = st] /\ UNCHANGED <<deliveries, late>> /\ Responds(r, st)
Refuses == UNCHANGED serverVars /\ Responds(call.run, "refused")

StartRun ==
  /\ call.op = "start"
  /\ IF AnyActive(status) THEN Refuses ELSE HasFreshRun /\ Becomes(FreshRun, "queued")
ResumeRun ==
  /\ call.op = "resume"
  /\ IF status[call.run] \in Resumable THEN Becomes(call.run, "queued") ELSE Refuses
CancelTheRun ==
  /\ call.op = "cancel"
  /\ IF status[call.run] \in Terminal
     THEN UNCHANGED serverVars /\ Responds(call.run, status[call.run])
     ELSE Becomes(call.run, "canceling")
StartWatch ==
  /\ call.op = "listen"
  /\ IF AnyActive(status) THEN Refuses
     ELSE Becomes(IF Exists(1) THEN Newest(status) ELSE 1, "running")
StopTheWatch ==
  /\ call.op = "stop"
  /\ IF AnyActive(status) THEN Becomes(Newest(status), "paused")
     ELSE UNCHANGED serverVars /\ Responds(0, "none")
RetryFailed ==
  /\ call.op = "retry"
  /\ IF status[call.run] \in Active \/ "failed" \notin {deliveries[call.run][s] : s \in Seqs} THEN Refuses
     ELSE /\ \E sent \in SUBSET {s \in Seqs : deliveries[call.run][s] = "failed"} :
               deliveries' = [deliveries EXCEPT ![call.run] =
                            [s \in Seqs |-> IF s \in sent THEN "success" ELSE @[s]]]
          /\ UNCHANGED <<status, late>> /\ Responds(call.run, status[call.run])
\* Mutant of SkipDeliveries: the entries there are get no look.
SkipAll ==
  /\ call.op = "skip" /\ UNCHANGED <<status, late>> /\ Responds(call.run, status[call.run])
  /\ deliveries' = [deliveries EXCEPT ![call.run] =
                  [s \in Seqs |-> IF s \in call.targets THEN "skipped" ELSE @[s]]]

SkipDeliveries ==
  /\ call.op = "skip" /\ UNCHANGED <<status, late>> /\ Responds(call.run, status[call.run])
  /\ deliveries' = [deliveries EXCEPT ![call.run] =
       [s \in Seqs |-> IF s \in call.targets /\ @[s] = "none" THEN "skipped" ELSE @[s]]]

ServerHandles ==
  /\ call.at = "sent"
  /\ \/ StartRun \/ ResumeRun \/ CancelTheRun \/ StartWatch \/ StopTheWatch \/ RetryFailed
     \/ SkipDeliveries
  /\ UNCHANGED <<kind, list, poll, view, cache, moves>>

(******************************* the panel *********************************)

Live(l, v) == v.run # 0 /\ l[v.run] \in Active
WindowOf(l, v) ==
  IF v.run = 0 THEN <<0, 0>>
  ELSE <<v.run, IF kind = "listener" /\ Live(l, v) /\ ~v.manual THEN TailPage ELSE v.page>>

\* The selected run stays while it is in the list, and else is the newest.
Keeps(l, v) ==
  IF l = NoRuns THEN 0 ELSE IF v.run # 0 /\ l[v.run] # "none" THEN v.run ELSE Newest(l)
\* Another run comes with its first page.
Reset(v, r) == IF r = v.run THEN v ELSE [run |-> r, page |-> 0, manual |-> FALSE]

OnScreen(w) == view.run # 0 /\ w = WindowOf(list, view)
OnPanel == IF view.run = 0 THEN Blank ELSE cache[WindowOf(list, view)].data

\* The cache.  A request that is under way is joined; invalidateQueries cancels it, but
\* not that of a window without data, nor of one that is not on the screen.
Asks(e) == [e EXCEPT !.at = "asked", !.answer = Blank, !.behind = FALSE]
Joins(e) == IF e.at = "idle" THEN Asks(e) ELSE e
Invalidated(e, active) ==
  IF active /\ (e.at = "idle" \/ e.has) THEN Asks(e) ELSE [e EXCEPT !.behind = @ \/ e.at = "read"]

\* Mutant of Ends: a window under way is taken for the last one.
EndsAtRest(l, v) == /\ Live(list, view) /\ ~Live(l, v)
                    /\ cache[WindowOf(list, view)].at = "idle"

\* A run went from active to terminal: its windows are invalidated.
Ends(l, v) == Live(list, view) /\ ~Live(l, v)

\* React renders list l and view v: a window that comes on the screen is asked, unless it
\* is under way; then the windows of the run that ended, and of stale runs, are invalid.
Render(l, v, stale) ==
  LET to == Reset(v, Keeps(l, v))
      invalid == stale \union IF Ends(l, to) THEN {to.run} ELSE {}
      entry(w) == IF to.run # 0 /\ w = WindowOf(l, to) /\ ~OnScreen(w) THEN Joins(cache[w]) ELSE cache[w]
  IN  /\ list' = l /\ view' = to
      /\ cache' = [w \in Windows |-> IF w[1] \in invalid
                                    THEN Invalidated(entry(w), to.run # 0 /\ w = WindowOf(l, to)) ELSE entry(w)]

\* Mutant of Polls: a run that is being canceled counts as done.
PollsUncanceled == \E r \in RunIds : list[r] \in {"queued", "running"}

\* useHookRuns: refetchInterval.
Polls == AnyActive(list)
PollAsks ==
  /\ poll.at = "idle" /\ Polls /\ poll' = Asked(NoRuns)
  /\ UNCHANGED <<kind, serverVars, list, view, cache, call, moves>>
PollReads ==
  /\ poll.at = "asked" /\ poll' = [at |-> "read", data |-> status]
  /\ UNCHANGED <<kind, serverVars, list, view, cache, call, moves>>
PollLands ==
  /\ poll.at = "read" /\ poll' = Idle(NoRuns) /\ Render(poll.data, view, {})
  /\ UNCHANGED <<kind, serverVars, call, moves>>
PollIsLost ==
  /\ poll.at # "idle" /\ AnyActive(list) /\ Moves
  /\ poll' = Idle(NoRuns)
  /\ UNCHANGED <<kind, serverVars, list, view, cache, call>>

\* useHookDeliveries: refetchInterval.
FetchAsks(w) ==
  /\ OnScreen(w) /\ cache[w].at = "idle" /\ Live(list, view)
  /\ cache' = [cache EXCEPT ![w] = Asks(@)]
  /\ UNCHANGED <<kind, serverVars, list, poll, view, call, moves>>
FetchReads(w) ==
  /\ cache[w].at = "asked"
  /\ cache' = [cache EXCEPT ![w].at = "read", ![w].answer = ListDeliveries(w[1], w[2])]
  /\ UNCHANGED <<kind, serverVars, list, poll, view, call, moves>>
FetchLands(w) ==
  /\ cache[w].at = "read"
  /\ cache' = [cache EXCEPT ![w] = [@ EXCEPT !.has = TRUE, !.data = cache[w].answer,
                                            !.at = "idle", !.answer = Blank]]
  /\ UNCHANGED <<kind, serverVars, list, poll, view, call, moves>>
FetchIsLost(w) ==
  /\ OnScreen(w) /\ cache[w].at # "idle" /\ Live(list, view) /\ Moves
  /\ cache' = [cache EXCEPT ![w] = [@ EXCEPT !.at = "idle", !.answer = Blank]]
  /\ UNCHANGED <<kind, serverVars, list, poll, view, call>>
\* gcTime: a window that was off the screen for five minutes is forgotten.
Forgets(w) ==
  /\ ~OnScreen(w) /\ cache[w].has /\ cache[w].at = "idle"
  /\ cache' = [cache EXCEPT ![w] = NoData]
  /\ UNCHANGED <<kind, serverVars, list, poll, view, call, moves>>

\* Paging and "Follow latest".
Turns(v) ==
  /\ view.run # 0 /\ v # view /\ Render(list, v, {})
  /\ Moves
  /\ UNCHANGED <<kind, serverVars, poll, call>>
TurnPage(p) ==
  /\ kind = "replay" /\ p \in {view.page - 1, view.page + 1} \intersect (0 .. LastPage)
  /\ Turns([view EXCEPT !.manual = TRUE, !.page = p])
ShownShort == Cardinality({s \in Seqs : OnPanel[s] # "none"}) < Window
GoOlder ==
  /\ kind = "listener" /\ ~ShownShort
  /\ Turns([view EXCEPT !.manual = TRUE, !.page = @ + 1])
GoNewer ==
  /\ kind = "listener" /\ view.page > 0
  /\ Turns([view EXCEPT !.page = @ - 1, !.manual = @ /\ view.page # 1])
\* Mutant of LatestPage: one page too far.
PageCount == IF kind = "replay" THEN LastPage + 1 ELSE 0

LatestPage == IF kind = "replay" THEN LastPage ELSE 0
FollowLatest ==
  /\ Live(list, view) /\ view.manual
  /\ Turns([view EXCEPT !.manual = FALSE, !.page = LatestPage])

(******************************* mutations *********************************)

\* The buttons the panel offers.
Offered(op) ==
  CASE op = "start"  -> kind = "replay" /\ HasFreshRun
    [] op = "listen" -> kind = "listener" /\ ~AnyActive(list)
    [] op = "stop"   -> kind = "listener" /\ AnyActive(list)
    [] op = "cancel" -> kind = "replay" /\ Live(list, view)
    [] op = "resume" -> kind = "replay" /\ view.run # 0 /\ list[view.run] \in Resumable
    [] op \in {"retry", "skip"} -> view.run # 0
\* Skip sends what the window on the screen has no delivery of.
Press(op, targets) ==
  /\ call.at = "idle" /\ Moves /\ Offered(op)
  /\ (op = "skip") = (targets # {}) /\ \A s \in targets : OnPanel[s] = "none"
  /\ call' = [NoCall EXCEPT !.at = "sent", !.op = op, !.run = view.run, !.targets = targets]
  /\ UNCHANGED <<kind, serverVars, list, poll, view, cache>>

\* Mutant of Refetch: the request under way is not canceled.
RefetchLater == poll' = IF poll.at = "idle" THEN Asked(NoRuns) ELSE poll

\* invalidateQueries cancels the request under way and asks anew: the list has data.
Refetch == poll' = Asked(NoRuns)

UpsertRun(r, answer) == IF r = 0 THEN list ELSE [list EXCEPT ![r] = answer]

\* The answer of a mutation: the run goes into the list, a new run is selected.
MutationLands ==
  /\ call.at = "done" /\ call' = NoCall
  /\ IF call.answer = "refused" THEN UNCHANGED <<list, view, cache, poll>>
     ELSE /\ IF call.op \in {"retry", "skip"} THEN Render(list, view, {call.run})
             ELSE Render(UpsertRun(call.run, call.answer),
                         IF call.op \in {"start", "listen"} THEN Reset(view, call.run) ELSE view, {})
          /\ Refetch
  /\ UNCHANGED <<kind, serverVars, moves>>

RunViewNext ==
  \/ \E r \in RunIds : Work(r)
  \/ StartsElsewhere \/ ServerHandles
  \/ PollAsks \/ PollReads \/ PollLands \/ PollIsLost
  \/ \E w \in Windows : FetchAsks(w) \/ FetchReads(w) \/ FetchLands(w) \/ FetchIsLost(w) \/ Forgets(w)
  \/ \E p \in Pages : TurnPage(p)
  \/ GoOlder \/ GoNewer \/ FollowLatest
  \/ \E op \in {"start", "resume", "cancel", "listen", "stop", "retry"} : Press(op, {})
  \/ \E lo, hi \in Seqs : Press("skip", {s \in lo .. hi : OnPanel[s] = "none"})
  \/ MutationLands

\* Requests are answered, timers fire, and runs proceed.
RunViewFairness ==
  /\ WF_runViewVars(PollAsks \/ PollReads \/ PollLands)
  /\ WF_runViewVars(\E w \in Windows : OnScreen(w) /\ (FetchAsks(w) \/ FetchReads(w) \/ FetchLands(w)))
  /\ WF_runViewVars(ServerHandles \/ MutationLands)
RunViewSpec == RunViewInit /\ [][RunViewNext]_runViewVars /\ RunViewFairness

(******************************* properties ********************************)

\* Whatever the order in which polls and answers arrive, the list comes to agree with
\* the server: a run shown as running that has ended, or the other way round, does not
\* stay (refetchInterval of useHookRuns, upsertHookRun and the invalidations).  A run
\* started in another browser may stay unlisted, as an idle list is not polled.
StatusesArrive == []<>(\A r \in RunIds : list[r] \in {status[r], "none"})

\* The window on the screen shows what the ledger holds; not what a stopped listener
\* records late, which moves the windows too.
InStep ==
  view.run # 0 /\ late[view.run] = {} => OnPanel = ListDeliveries(view.run, WindowOf(list, view)[2])

\* It comes to, also for what was recorded between the last poll and the end of the run
\* (useHookDeliveries), unless the invalidation found its request read already and kept it.
WindowArrives ==
  []<>(InStep \/ \E w \in Windows : OnScreen(w) /\ cache[w].behind)

\* "so deliveries written between the last poll and completion show up" (queries.ts), as
\* it stands; the first load of a window can keep them from it for good.
EndShowsUp == []<>InStep

\* An answer that was under way when a run was started does not take the run out of the
\* list again (upsertHookRun before invalidateQueries).
RunsStayListed == [][\A r \in RunIds : list[r] # "none" => list'[r] # "none"]_runViewVars

\* "Already-settled deliveries are left untouched" (delivery-log.tsx): a skip computed
\* from a window that is behind takes back no delivery.
SkipSparesSettled ==
  [][\A r \in RunIds, s \in Seqs :
       deliveries[r][s] \in Outcome => deliveries'[r][s] \in Outcome]_runViewVars

\* "while live and not manually paged we follow the latest window" (delivery-log.tsx): a
\* window that agrees with the ledger has the latest delivery in it.
TailIsLatest ==
  \A s \in Seqs :
    /\ view.run # 0 /\ WindowOf(list, view)[2] = TailPage /\ OnPanel = ListDeliveries(view.run, TailPage)
    /\ deliveries[view.run][s] # "none" /\ \A q \in Seqs : q > s => deliveries[view.run][q] = "none"
    => OnPanel[s] # "none"

\* What the panel promises the user.
RunViewPromise ==
  []RunViewTypeOK /\ StatusesArrive /\ WindowArrives /\ RunsStayListed /\ SkipSparesSettled
==============================================================================
