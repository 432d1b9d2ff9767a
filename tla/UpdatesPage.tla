----------------------------- MODULE UpdatesPage -----------------------------
(***************************************************************************)
(* The updates page (web/src/server/updates). It follows one run of the    *)
(* update worker from three sources that arrive independently: the SSE     *)
(* "update" topic, GET /updates and, while the panel replaces itself, the  *)
(* restart watch, which probes a process that goes down and comes back.    *)
(* The worker, its journal and the panel's process are external here: they *)
(* move as UpdateWorker lets them. The topic has one slot, which the runs  *)
(* of both targets and the notices of auto-update's checks share; the page *)
(* is modelled as one target sees it, its own row and what it shares with  *)
(* the other.                                                              *)
(*                                                                         *)
(* Start times are run numbers, and the happy path has one phase for each  *)
(* of its milestones that the page tells apart.                            *)
(***************************************************************************)
EXTENDS Naturals, Sequences, FiniteSets

CONSTANTS
    MaxRuns,        \* bound: update runs
    MaxVersion,     \* bound: versions, of which 1 is installed
    MaxUpdClicks,   \* bound: clicks, polls and probes, runs and faults
    WatchTicks      \* RESTART_WATCH_TIMEOUT_MS / HEALTH_POLL_MS

ASSUME UpdatesPageAssumption == {MaxRuns, MaxVersion, MaxUpdClicks, WatchTicks} \subseteq Nat

VARIABLES
    worker,    \* external: the run, its journal and the panel's process
    upd,       \* UpdatesPage, UpdateTarget and usePanelRestartWatch
    updLeft    \* clicks and faults the bound still allows

updVars == <<worker, upd, updLeft>>

HappyPath == <<"installing", "restarting", "health", "done">>
Terminal == {"done", "rolled_back", "failed"}
UpdatePhases == {HappyPath[i] : i \in DOMAIN HappyPath} \union {"rolling_back"} \union Terminal

NoRun == [run |-> 0, phase |-> "none", to |-> 0]

\* A frame of the topic: of this row's target or the other, and the report of a
\* run or a notice, which has no run, no phase and no time in it.
UpdateFrame(mine, notice, report) == [mine |-> mine, notice |-> notice, report |-> report]
EmptySlot == UpdateFrame(FALSE, FALSE, NoRun)

-----------------------------------------------------------------------------
(* updatePhase.helpers.ts, updateRun.helpers.ts, releases.helpers.ts        *)

IsTerminalUpdatePhase(phase) == phase \in Terminal

UpdatePhaseStep(phase) ==
    [stepIndex |-> IF phase \in {"rolling_back", "rolled_back", "failed"} THEN 0
                   ELSE CHOOSE i \in DOMAIN HappyPath : HappyPath[i] = phase,
     outcome |-> CASE phase = "rolling_back" -> "rolling_back"
                   [] phase \in {"rolled_back", "failed"} -> "error"
                   [] phase = "done" -> "success"
                   [] OTHER -> "none"]

\* Mutant: of two reports of one run the last one asked wins.
LastReport(latest, candidate) ==
    IF candidate.run = 0 \/ candidate.run < latest.run THEN latest ELSE candidate

\* Of two reports, the one that is further on.
LaterReport(latest, candidate) ==
    CASE candidate.run = 0 -> latest
      [] candidate.run # 0 /\ candidate.run # latest.run ->
            IF candidate.run >= latest.run THEN candidate ELSE latest
      [] OTHER ->
            IF \/ IsTerminalUpdatePhase(latest.phase) /\ ~IsTerminalUpdatePhase(candidate.phase)
               \/ /\ ~IsTerminalUpdatePhase(candidate.phase)
                  /\ candidate.phase # "rolling_back"
                  /\ \/ latest.phase = "rolling_back"
                     \/ UpdatePhaseStep(candidate.phase).stepIndex
                            < UpdatePhaseStep(latest.phase).stepIndex
            THEN latest ELSE candidate

\* A notice of this target is the first candidate, and no other is later than
\* a time it does not have: it stays, and shows no run.
NoticeHolds(event) == event.mine /\ event.notice

\* What is left of the slot once frames of the other target are skipped.
OwnReport(event) == IF event.mine /\ ~event.notice THEN event.report ELSE NoRun

\* The journal is sorted newest first, so its head stands for it.
SelectUpdateRun(data, event) ==
    IF NoticeHolds(event) THEN NoRun
    ELSE LaterReport(LaterReport(LaterReport(NoRun, OwnReport(event)), data.active), data.head)

\* The releases are the versions other than the installed one; those above it
\* are newer, and the highest is the latest.
Releases(data) == (1..MaxVersion) \ {data.current}
PickLatestRelease(data) ==
    LET newer == {v \in Releases(data) : v > data.current}
    IN  IF newer = {} THEN 0 ELSE CHOOSE v \in newer : \A w \in newer : w <= v

-----------------------------------------------------------------------------
(* restartWatch.helpers.ts, usePanelRestartWatch.ts                         *)

NoWatch == [run |-> 0, to |-> 0, ticks |-> 0, health |-> 0, journal |-> NoRun]
NewWatch(run) == [NoWatch EXCEPT !.run = run.run, !.to = run.to]

\* Only answers to requests sent since the watch began are kept in it; an
\* answered probe that failed leaves no health.
RestartWatchDecision(w) ==
    LET mine == w.journal.run = w.run /\ w.journal.to = w.to
        lost == mine /\ w.journal.phase \in {"rolled_back", "failed"}
    IN  CASE lost -> "failed"
          [] ~lost /\ w.health = w.to -> "reload"
          [] OTHER -> IF w.ticks >= WatchTicks THEN "timeout" ELSE "wait"

-----------------------------------------------------------------------------
(* UpdateTarget.tsx                                                         *)

RunShown(u) == SelectUpdateRun(u.data, u.event)
RunIsActive(u) == RunShown(u).run # 0 /\ ~IsTerminalUpdatePhase(RunShown(u).phase)

\* The panel is going down, or has finished a run that was watched from here.
PanelRestarting(u) ==
    /\ u.target = "panel"
    /\ \/ RunShown(u).phase = "restarting"
       \/ RunShown(u).phase = "done" /\ u.panelRun = RunShown(u).run

SelectedRelease(u) ==
    IF u.picked.to \in Releases(u.data) /\ u.picked.from = u.data.current
    THEN u.picked.to ELSE 0

UpdatesBlocked(u) == u.data.lock \/ RunIsActive(u) \/ u.apply # 0 \/ u.get # << >>
ConfirmationChanged(u) ==
    \/ SelectedRelease(u) = 0 \/ u.confirming.from # u.data.current
    \/ u.confirming.to # SelectedRelease(u)

NoPick == [to |-> 0, from |-> 0]

\* The key of the watch and of its probes: the run, and nothing when none restarts.
WatchKey(u) == IF PanelRestarting(u) THEN RunShown(u) ELSE [run |-> 0, to |-> 0]
KeyHolds(u, key) == u.watch.run = key.run /\ u.watch.to = key.to
WatchFor(key) == IF key.run = 0 THEN NoWatch ELSE NewWatch(key)

\* Mutant: the probes' queries are not keyed by the run.
KeepingProbes(u, key) ==
    IF KeyHolds(u, key) THEN u ELSE [u EXCEPT !.watch = WatchFor(key)]
\* A watch that has another run's key starts over, and so do its probes.
Rewatched(u, key) ==
    IF KeyHolds(u, key) THEN u ELSE [u EXCEPT !.watch = WatchFor(key), !.probing = << >>]

\* What a render of the rows settles: the run being watched, and the watch.
Settled(u) == Rewatched(u, WatchKey(u))
Rendered(u) ==
    IF u.broken THEN u
    ELSE Settled(IF u.target = "panel" /\ RunIsActive(u)
                 THEN [u EXCEPT !.panelRun = RunShown(u).run] ELSE u)

\* A failed list puts the error in the place of the rows, which forget the
\* choice, the run they watched and the watch; a request they sent goes on.
RowsUnmounted(u) ==
    [u EXCEPT !.get = << >>, !.broken = TRUE, !.panelRun = 0, !.watch = NoWatch,
              !.probing = << >>, !.picked = NoPick, !.confirming = NoPick, !.error = FALSE,
              !.orphans = IF u.apply = 0 THEN @ ELSE @ \union {u.apply}, !.apply = 0]

\* TargetState: the pill of a target.
TargetState(u) ==
    LET phase == RunShown(u).phase
    IN  CASE phase = "failed" -> "error"
          [] phase \in {"rolling_back", "rolled_back"} -> "warn"
          [] RunIsActive(u) /\ phase # "rolling_back" -> "running"
          [] OTHER -> IF PickLatestRelease(u.data) # 0 THEN "available" ELSE "noNewer"

\* UpdateStepper shows the watch's failure before the run.
StepperPhase(u) ==
    IF RestartWatchDecision(u.watch) = "failed" /\ u.watch.run # 0
    THEN u.watch.journal.phase ELSE RunShown(u).phase

-----------------------------------------------------------------------------
(* The worker and the panel's process (external)                            *)

StatusOf(w) ==
    [active |-> IF w.run # 0 /\ w.phase \notin Terminal
                THEN [run |-> w.run, phase |-> w.phase, to |-> w.to] ELSE NoRun,
     head |-> w.head, lock |-> w.lock, current |-> w.process, others |-> w.other]

PageMounted(target, data) ==
    [target |-> target, conn |-> "down", event |-> EmptySlot, data |-> data,
     get |-> << >>, panelRun |-> 0, watch |-> NoWatch, probing |-> << >>,
     picked |-> NoPick, confirming |-> NoPick, apply |-> 0, orphans |-> {},
     error |-> FALSE, reloads |-> 0, broken |-> FALSE]

UpdInit ==
    /\ worker = [run |-> 0, phase |-> "idle", to |-> 0, from |-> 1, process |-> 1,
                 up |-> TRUE, served |-> 0, head |-> NoRun, lock |-> FALSE,
                 other |-> FALSE, hub |-> EmptySlot]
    /\ upd \in {PageMounted(t, StatusOf(worker)) : t \in {"panel", "telemt"}}
    /\ updLeft = MaxUpdClicks

UpdSpend == updLeft > 0 /\ updLeft' = updLeft - 1
UpdKeep == UNCHANGED updLeft
UpdRender(u) == upd' = Rendered(u)

\* A phase is written to the journal and published to the topic.
RunStarts(w, to) ==
    LET report == [run |-> w.run + 1, phase |-> "installing", to |-> to]
    IN  [w EXCEPT !.run = @ + 1, !.phase = "installing", !.to = to, !.lock = TRUE,
                  !.from = w.process, !.served = IF to = w.process THEN w.run + 1 ELSE @,
                  !.head = report, !.hub = UpdateFrame(TRUE, FALSE, report)]

PhaseIs(phase) ==
    LET report == [run |-> worker.run, phase |-> phase, to |-> worker.to]
    IN  [worker EXCEPT !.phase = phase, !.lock = phase \notin Terminal,
                       !.head = report, !.hub = UpdateFrame(TRUE, FALSE, report)]

\* Started by auto-update or another administrator.
StartsElsewhere(to) ==
    /\ ~worker.lock /\ worker.run < MaxRuns /\ to # worker.process
    /\ worker' = RunStarts(worker, to) /\ UpdSpend /\ UNCHANGED upd

\* A service command holds the lock and reports no phase.
ServiceCommand ==
    /\ worker.run = 0 \/ worker.phase \in Terminal
    /\ ~worker.other
    /\ worker' = [worker EXCEPT !.lock = ~@]
    /\ IF worker.lock THEN UpdKeep ELSE UpdSpend
    /\ UNCHANGED upd

\* A run of the other target starts on the free lock, or ends.
OtherTargetRuns ==
    /\ worker.lock = worker.other
    /\ worker' = [worker EXCEPT !.lock = ~@, !.other = ~@,
            !.hub = UpdateFrame(FALSE, FALSE, [NoRun EXCEPT !.phase =
                                   IF worker.other THEN "done" ELSE "installing"])]
    /\ IF worker.other THEN UpdKeep ELSE UpdSpend
    /\ UNCHANGED upd

\* Auto-update finds a newer release of a target and says so.
CheckAndPublish(mine) ==
    /\ worker.up /\ mine => worker.process < MaxVersion
    /\ worker' = [worker EXCEPT !.hub = UpdateFrame(mine, TRUE, NoRun)]
    /\ UpdSpend /\ UNCHANGED upd

WorkerAdvances ==
    /\ worker.lock /\ worker.phase \in {"installing", "health"}
    /\ worker' = PhaseIs(HappyPath[UpdatePhaseStep(worker.phase).stepIndex + 1])
    /\ UNCHANGED <<upd, updLeft>>

\* The unit is restarted on the new binary, or on the old one when rolling back.
\* A panel that starts publishes the run it finds.
UnitRestarts ==
    /\ worker.lock /\ worker.phase \in {"restarting", "rolling_back"}
    /\ LET next == IF worker.phase = "restarting" THEN worker.to ELSE worker.from
       IN  IF worker.process # next \/ ~worker.up
           THEN worker' = IF worker.up /\ upd.target = "panel"
                          THEN [worker EXCEPT !.up = FALSE, !.process = next]
                          ELSE [worker EXCEPT !.up = TRUE, !.process = next,
                                !.hub = IF worker.up THEN @
                                        ELSE UpdateFrame(TRUE, FALSE, worker.head),
                                !.served = IF worker.phase = "restarting" THEN worker.run ELSE @]
           ELSE worker' = PhaseIs(IF worker.phase = "restarting"
                                  THEN "health" ELSE "rolled_back")
    /\ UNCHANGED <<upd, updLeft>>

RunGoesWrong ==
    /\ worker.lock /\ worker.up
    /\ \/ worker.phase = "installing" /\ worker' = PhaseIs("failed")
       \/ worker.phase \in {"restarting", "health"} /\ worker' = PhaseIs("rolling_back")
    /\ UpdSpend /\ UNCHANGED upd

-----------------------------------------------------------------------------
(* UpdatesPage.tsx                                                          *)

UpdStreamOpens ==
    /\ upd.conn = "down" /\ worker.up
    /\ UpdRender([upd EXCEPT !.conn = "open"]) /\ UpdKeep /\ UNCHANGED worker

StreamLost ==
    /\ upd.conn = "open"
    /\ IF worker.up THEN UpdSpend ELSE UpdKeep
    /\ UpdRender([upd EXCEPT !.conn = "down"]) /\ UNCHANGED worker

\* A terminal phase of either target asks for the list again.
FrameArrives ==
    /\ upd.conn = "open" /\ worker.up /\ worker.hub # upd.event
    /\ UpdRender([upd EXCEPT !.event = worker.hub,
                        !.get = IF IsTerminalUpdatePhase(worker.hub.report.phase)
                                THEN <<StatusOf(worker)>> ELSE @])
    /\ UpdKeep /\ UNCHANGED worker

\* refetchInterval: while the lock is held and the stream does not tell.
PollsUpdates(u) ==
    u.data.lock /\ (u.conn # "open" \/ (u.data.active = NoRun /\ ~u.data.others))

\* By the interval, or by the retry button of the error.
UpdatesAsked ==
    /\ PollsUpdates(upd) \/ upd.broken
    /\ upd.get = << >> /\ worker.up
    /\ UpdRender([upd EXCEPT !.get = <<StatusOf(worker)>>]) /\ UpdSpend /\ UNCHANGED worker

UpdatesAnswered ==
    /\ upd.get # << >>
    /\ UpdRender([upd EXCEPT !.get = << >>, !.data = upd.get[1], !.broken = FALSE])
    /\ UpdKeep /\ UNCHANGED worker

\* Its answer is lost, or the panel is down.
UpdatesUnanswered ==
    /\ upd.get # << >> \/ (PollsUpdates(upd) /\ ~worker.up)
    /\ UpdRender(RowsUnmounted(upd)) /\ UpdKeep /\ UNCHANGED worker

\* ReleasePicker: one of the releases of the list as it is now.
PickRelease(to) ==
    /\ ~upd.broken /\ ~UpdatesBlocked(upd) /\ to \in Releases(upd.data)
    /\ UpdRender([upd EXCEPT !.picked = [to |-> to, from |-> upd.data.current]])
    /\ UpdSpend /\ UNCHANGED worker

ContinueUpdate ==
    /\ SelectedRelease(upd) # 0 /\ ~UpdatesBlocked(upd) /\ upd.confirming = NoPick
    /\ UpdRender([upd EXCEPT !.confirming = [to |-> SelectedRelease(upd), from |-> upd.data.current],
                        !.error = FALSE])
    /\ UpdSpend /\ UNCHANGED worker

CloseConfirmUpdate ==
    /\ upd.confirming # NoPick
    /\ UpdRender([upd EXCEPT !.confirming = NoPick]) /\ UpdSpend /\ UNCHANGED worker

ConfirmUpdate ==
    /\ upd.confirming # NoPick /\ ~ConfirmationChanged(upd) /\ ~UpdatesBlocked(upd)
    /\ UpdRender([upd EXCEPT !.apply = SelectedRelease(upd)]) /\ UpdSpend /\ UNCHANGED worker

\* The request reaches the panel: the lock is free, or 409.
ApplyAnswered ==
    /\ upd.apply # 0 /\ worker.up
    /\ IF worker.lock \/ worker.run >= MaxRuns
       THEN /\ UpdRender([upd EXCEPT !.apply = 0, !.error = TRUE]) /\ UNCHANGED worker
       ELSE /\ worker' = RunStarts(worker, upd.apply)
            /\ UpdRender([upd EXCEPT !.apply = 0, !.confirming = NoPick, !.picked = NoPick,
                                !.get = <<StatusOf(worker')>>])
    /\ UpdKeep

\* So does one whose row is gone: only the list is asked for.
LateApplyAnswered(to) ==
    /\ to \in upd.orphans /\ worker.up
    /\ IF worker.lock \/ worker.run >= MaxRuns
       THEN /\ UpdRender([upd EXCEPT !.orphans = @ \ {to}]) /\ UNCHANGED worker
       ELSE /\ worker' = RunStarts(worker, to)
            /\ UpdRender([upd EXCEPT !.orphans = @ \ {to}, !.get = <<StatusOf(worker')>>])
    /\ UpdKeep

\* usePanelRestartWatch: both probes, their answers, and the clock. An answer
\* to the journal probe is the page's list too.
Watching == upd.watch.run # 0

ProbeAsked ==
    /\ Watching /\ upd.probing = << >> /\ worker.up
    /\ UpdRender([upd EXCEPT !.probing = <<[health |-> worker.process, data |-> StatusOf(worker)]>>])
    /\ UpdSpend /\ UNCHANGED worker

HealthAnswered ==
    /\ Watching /\ upd.probing # << >>
    /\ UpdRender([upd EXCEPT !.watch.health = upd.probing[1].health, !.probing = << >>])
    /\ UpdKeep /\ UNCHANGED worker

JournalAnswered ==
    /\ Watching /\ upd.probing # << >>
    /\ UpdRender([upd EXCEPT !.watch.journal = upd.probing[1].data.head,
                        !.data = upd.probing[1].data, !.probing = << >>])
    /\ UpdKeep /\ UNCHANGED worker

ProbeFails ==
    /\ Watching /\ ~worker.up
    /\ UpdRender([upd EXCEPT !.probing = << >>, !.watch.health = 0])
    /\ UpdKeep /\ UNCHANGED worker

WatchTick ==
    /\ Watching /\ upd.watch.ticks < WatchTicks
    /\ UpdRender([upd EXCEPT !.watch.ticks = @ + 1]) /\ UpdKeep /\ UNCHANGED worker

WatchRetried ==
    /\ Watching /\ RestartWatchDecision(upd.watch) = "timeout"
    /\ UpdRender([upd EXCEPT !.watch = NewWatch(RunShown(upd)), !.probing = << >>])
    /\ UpdSpend /\ UNCHANGED worker

\* window.location.reload: a new page, which asks for the list before anything.
PageReloads ==
    /\ Watching /\ RestartWatchDecision(upd.watch) = "reload" /\ worker.up
    /\ upd' = Rendered([PageMounted(upd.target, StatusOf(worker)) EXCEPT !.reloads = 1])
    /\ UpdKeep /\ UNCHANGED worker

UpdNext ==
    \/ \E to \in 1..MaxVersion : StartsElsewhere(to) \/ PickRelease(to) \/ LateApplyAnswered(to)
    \/ \E mine \in BOOLEAN : CheckAndPublish(mine)
    \/ ServiceCommand \/ OtherTargetRuns \/ WorkerAdvances \/ UnitRestarts \/ RunGoesWrong
    \/ UpdStreamOpens \/ StreamLost \/ FrameArrives
    \/ UpdatesAsked \/ UpdatesAnswered \/ UpdatesUnanswered
    \/ ContinueUpdate \/ CloseConfirmUpdate \/ ConfirmUpdate \/ ApplyAnswered
    \/ ProbeAsked \/ HealthAnswered \/ JournalAnswered \/ ProbeFails
    \/ WatchTick \/ WatchRetried \/ PageReloads

UpdSpec == UpdInit /\ [][UpdNext]_updVars

-----------------------------------------------------------------------------
(* Properties                                                               *)

Rank(phase) ==
    CASE phase = "none" -> 0
      [] phase = "rolling_back" -> 6
      [] phase \in Terminal -> 7
      [] OTHER -> UpdatePhaseStep(phase).stepIndex

\* A list that was asked for before the one it replaces.
OvertakenList ==
    \/ upd'.data.head.run < upd.data.head.run
    \/ /\ upd'.data.head.run = upd.data.head.run
       /\ Rank(upd'.data.head.phase) < Rank(upd.data.head.phase)

\* The slot is taken by a frame of the other target.
SlotTaken == upd'.event # upd.event /\ ~upd'.event.mine

\* A report that is of a later run, or no earlier in the same one.
Ahead(a, b) == a.run > b.run \/ (a.run = b.run /\ Rank(a.phase) >= Rank(b.phase))

(***************************************************************************)
(* The run on screen never goes back: not to an earlier run, and not to an  *)
(* earlier phase of the same run, although the stream's frames, the polled  *)
(* list and the restart watch's own list overtake each other, frames of the *)
(* other target take the slot and the page is lost to a failed list and     *)
(* rebuilt (selectUpdateRun). The exceptions are those of the code: a list  *)
(* that was asked for before the one it replaces; a reload, which starts    *)
(* over; a notice of this target, which shows no run while it holds the     *)
(* slot; and the step in which a frame of the other target takes the slot,  *)
(* after which the page is still no further back than its list.             *)
(***************************************************************************)
RunNeverGoesBack ==
    upd'.reloads = upd.reloads /\ ~OvertakenList /\ ~NoticeHolds(upd'.event) =>
     \/ Ahead(RunShown(upd'), RunShown(upd))
     \/ SlotTaken /\ Ahead(RunShown(upd'), upd'.data.head)

(***************************************************************************)
(* What the restart watch decides is true of the run it watches: the page   *)
(* is reloaded only once the panel has served the version of this run in it,*)
(* and a failure shown is this run's, even when an earlier attempt at the   *)
(* same version was rolled back (restartWatchDecision, usePanelRestartWatch *)
(* on "an earlier run's cached probes or in-flight requests").              *)
(***************************************************************************)
WatchTellsTheTruth ==
    Watching =>
        /\ RestartWatchDecision(upd.watch) = "reload" => worker.served >= upd.watch.run
        /\ RestartWatchDecision(upd.watch) = "failed" =>
              /\ upd.watch.run <= worker.run
              /\ upd.watch.run = worker.run => worker.phase \in {"failed", "rolled_back"}

=============================================================================
