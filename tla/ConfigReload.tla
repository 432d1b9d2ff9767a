---------------------------- MODULE ConfigReload ----------------------------
(***************************************************************************)
(* What becomes of a saved configuration: the PATCH's answer, the reload it *)
(* may start and its stepper on the configuration page, and the warning on  *)
(* the overview that Telemt runs something other than its file says.        *)
(* Telemt tells of unapplied changes only in the answer to the PATCH; the   *)
(* panel remembers the answer in the browser (pendingChanges.ts) and works  *)
(* out from the statistics topic whether it still applies.                  *)
(*                                                                          *)
(* Time is counted in half seconds: Telemt reports whole seconds, the       *)
(* browser milliseconds.                                                    *)
(***************************************************************************)
EXTENDS Integers, Sequences, SequencesExt

CONSTANTS
    MaxClock,        \* bound: half seconds in a behaviour
    MaxSaves,        \* bound: saves by this administrator
    MaxServed,       \* bound: restarts and reloads, whoever asks for them
    StatsAge         \* bound: the age a statistics frame may reach on screen

ASSUME ConfigReloadAssumption ==
    {MaxClock, MaxSaves, MaxServed, StatsAge} \subseteq Nat

VARIABLES
    clock,
    proc,     \* external: Telemt's process, its reloads and what it has not applied
    note,     \* localStorage "telemt-panel:pending-config:v1"
    saves,    \* the configuration page: result, activeReloadId, the polled status
    banner    \* HealthHero: the note read at mount, and the statistics topic

reloadVars == <<clock, proc, note, saves, banner>>

SecondsOf(t) == 2 * (t \div 2)
START_TIME_SLACK_MS == 4         \* bound: ten seconds in the code

-----------------------------------------------------------------------------
(* The note.                                                                *)

NoNote == [runtimeReload |-> FALSE, processRestart |-> FALSE, at |-> -1]
NothingPending == [runtimeReload |-> FALSE, processRestart |-> FALSE]

RecordPendingChanges(result, now) ==
    LET reload == result.reloadRequired /\ result.reload = 0
    IN  IF ~reload /\ ~result.restartRequired THEN NoNote
        ELSE [runtimeReload |-> reload, processRestart |-> result.restartRequired, at |-> now]

NoStats == [known |-> FALSE, uptime |-> 0, reloadedAt |-> -1, taken |-> 0]
ReloadedSince(pending, stats) == stats.known /\ stats.reloadedAt >= pending.at
RestartedSince(pending, stats, now) ==
    stats.known /\ now - stats.uptime >= pending.at - START_TIME_SLACK_MS

ResolvePendingChanges(pending, stats, now) ==
    IF pending = NoNote THEN NothingPending
    ELSE [runtimeReload |-> /\ pending.runtimeReload /\ ~ReloadedSince(pending, stats)
                            /\ ~RestartedSince(pending, stats, now),
          processRestart |-> pending.processRestart /\ ~RestartedSince(pending, stats, now)]

-----------------------------------------------------------------------------
(* The reload and its stepper.                                              *)

RELOAD_STEPS == <<"accepted", "preparing", "activating", "draining", "succeeded">>
IsTerminalReloadState(s) == s \in {"succeeded", "rolled_back", "failed"}
ReloadStepInfo(s) ==
    [index |-> IF s \in {"rolled_back", "failed"} THEN 0 ELSE SelectInSeq(RELOAD_STEPS, LAMBDA x : x = s),
     terminal |-> IsTerminalReloadState(s),
     outcome |-> CASE s = "succeeded" -> "success" [] s \in {"rolled_back", "failed"} -> "error" [] OTHER -> "none"]

CurrentPhaseIndex(steps) ==
    LET active == SelectInSeq(steps, LAMBDA s : s = "active")
        done == SelectLastInSeq(steps, LAMBDA s : s = "done")
    IN  CASE active > 0 -> active
          [] active = 0 /\ done > 0 -> done
          [] OTHER -> IF steps = <<>> THEN 0 ELSE 1
PhaseSteps(steps) == [caption |-> CurrentPhaseIndex(steps), dots |-> steps]

\* What the card shows of the last status polled ("none": a skeleton). The message of
\* a failed poll, which stands in its place until the next answer, is left out.
ReloadStepper(status) ==
    LET info == ReloadStepInfo(status)
    IN  CASE status = "none" -> [shows |-> "skeleton"]
          [] status # "none" /\ info.outcome = "error" -> [shows |-> "error"]
          [] OTHER -> [shows |-> "steps",
                       steps |-> PhaseSteps([i \in DOMAIN RELOAD_STEPS |->
                                    IF i < info.index THEN "done" ELSE IF i = info.index THEN "active" ELSE "pending"]),
                       succeeded |-> info.outcome = "success"]

-----------------------------------------------------------------------------

ToPatchReloadQuery(mode) == mode # "none"
ReloadModes == {"none", "instant", "drain"}

NoResult == [known |-> FALSE, reloadRequired |-> FALSE, restartRequired |-> FALSE, reload |-> 0]
NoReload == [id |-> 0, state |-> "succeeded"]
ConfigPageMounted ==
    [open |-> TRUE, result |-> NoResult, active |-> 0, status |-> "none",
     reloadNow |-> FALSE, asked |-> 0]

ReloadInit ==
    /\ clock = 8
    /\ proc \in {[start |-> s, reloadedAt |-> -1, run |-> NoReload, unloaded |-> FALSE, deferred |-> FALSE,
                  served |-> 0] : s \in {0, 7}}
    /\ note = NoNote
    /\ saves = [page |-> ConfigPageMounted, sent |-> NoResult, mine |-> FALSE, done |-> 0]
    /\ banner = [open |-> FALSE, pending |-> NoNote, still |-> FALSE, stats |-> NoStats]

\* The page of the configuration. A PATCH under way outlives the page: its
\* answer is still remembered, and shown if the page that sent it is there.
Page == saves.page
PageSays(p) == saves' = [saves EXCEPT !.page = p]

\* Telemt takes a reload: it becomes the run to poll.
AcceptReload(p) == [p EXCEPT !.run = [id |-> @.id + 1, state |-> "accepted"], !.served = @ + 1]
ReloadTaken == proc.served < MaxServed /\ IsTerminalReloadState(proc.run.state)

\* A save; the retry of the conflict banner is one too, of a page that was cleared by
\* the save that met the conflict. submitPatch, under the policy of the picker, accepted by Telemt: some of the changed fields apply at once,
\* others on a reload or on the next start.
SaveConfig(mode) ==
    /\ Page.open /\ ~saves.sent.known /\ saves.done < MaxSaves
    /\ ToPatchReloadQuery(mode) => ReloadTaken
    /\ \E reload, restart \in BOOLEAN :
          LET reloads == ToPatchReloadQuery(mode)
              file == [proc EXCEPT !.unloaded = @ \/ reload, !.deferred = @ \/ restart]
          IN  /\ proc' = IF reloads THEN AcceptReload(file) ELSE file
              /\ saves' = [page |-> [Page EXCEPT !.result = NoResult, !.active = 0, !.status = "none"],
                           sent |-> [known |-> TRUE, reloadRequired |-> reload, restartRequired |-> restart,
                                     reload |-> IF reloads THEN proc'.run.id ELSE 0],
                           mine |-> TRUE, done |-> saves.done + 1]
    /\ UNCHANGED <<clock, note, banner>>

\* onSuccess of the PATCH: the answer is shown and remembered.
NoticeShown(p, result) ==
    IF result.reload = 0 THEN [p EXCEPT !.result = result]
    ELSE [p EXCEPT !.result = result, !.active = result.reload,
                   !.status = IF p.active = result.reload THEN @ ELSE "none"]
ConfigSaveAnswered ==
    /\ saves.sent.known
    /\ note' = RecordPendingChanges(saves.sent, clock)
    /\ saves' = [saves EXCEPT !.sent = NoResult, !.mine = FALSE,
                   !.page = IF saves.mine THEN NoticeShown(Page, saves.sent) ELSE @]
    /\ UNCHANGED <<clock, proc, banner>>

\* What the notice of the last answer still offers.
PatchResultNotice ==
    [reloadNow |-> Page.result.known /\ Page.result.reloadRequired /\ Page.result.reload = 0,
     restartNow |-> Page.result.known /\ Page.result.restartRequired]

ReloadNow ==
    /\ Page.open /\ PatchResultNotice.reloadNow /\ ~Page.reloadNow /\ ReloadTaken
    /\ proc' = AcceptReload(proc)
    /\ PageSays([Page EXCEPT !.reloadNow = TRUE, !.asked = proc'.run.id])
    /\ UNCHANGED <<clock, note, banner>>
ReloadAccepted ==
    /\ Page.open /\ Page.reloadNow
    /\ PageSays([Page EXCEPT !.reloadNow = FALSE, !.active = Page.asked, !.status = "none"])
    /\ UNCHANGED <<clock, proc, note, banner>>

\* Telemt starts anew, by the notice's button or otherwise.
Started(p, now) ==
    [p EXCEPT !.start = now, !.reloadedAt = -1, !.run = [id |-> @.id, state |-> "failed"],
              !.unloaded = FALSE, !.deferred = FALSE, !.served = @ + 1]
Restart ==
    /\ proc.served < MaxServed
    /\ proc' = Started(proc, clock)
    /\ UNCHANGED <<clock, note, saves, banner>>
ReloadByOther ==
    /\ ReloadTaken /\ proc' = AcceptReload(proc) /\ UNCHANGED <<clock, note, saves, banner>>

\* The reload moves on; one that succeeds has loaded the file.
ReloadMoves ==
    /\ ~IsTerminalReloadState(proc.run.state)
    /\ LET i == ReloadStepInfo(proc.run.state).index
           next == RELOAD_STEPS[i + 1]
       IN  \/ proc' = [proc EXCEPT !.run.state = next,
                         !.unloaded = @ /\ next # "succeeded",
                         !.reloadedAt = IF next = "succeeded" THEN clock ELSE @]
           \/ i \in {2, 3} /\ proc' = [proc EXCEPT !.run.state = IF i = 2 THEN "failed" ELSE "rolled_back"]
    /\ UNCHANGED <<clock, note, saves, banner>>

\* useReloadPolling: the status of the active reload, until a terminal one.
PollReload ==
    /\ Page.open /\ Page.active > 0 /\ Page.active = proc.run.id
    /\ Page.status # "none" => ~IsTerminalReloadState(Page.status)
    /\ Page.status # proc.run.state
    /\ PageSays([Page EXCEPT !.status = proc.run.state]) /\ UNCHANGED <<clock, proc, note, banner>>

-----------------------------------------------------------------------------
(* The overview.                                                            *)

Unapplied == ResolvePendingChanges(banner.pending, banner.stats, clock)
PendingWarning ==
    IF Unapplied.processRestart THEN "restart" ELSE IF Unapplied.runtimeReload THEN "reload" ELSE "none"

\* The effect of HealthHero: what no longer applies is forgotten.
Forgets(pending, still) == IF pending # NoNote /\ ~still THEN NoNote ELSE note

\* Navigation: a page that is left is unmounted. The banner reads the note
\* once, when it is mounted.
OpenOverview ==
    /\ Page.open
    /\ saves' = [saves EXCEPT !.page = [ConfigPageMounted EXCEPT !.open = FALSE], !.mine = FALSE]
    /\ LET still == ResolvePendingChanges(note, banner.stats, clock) # NothingPending
       IN  /\ banner' = [banner EXCEPT !.open = TRUE, !.pending = note, !.still = still]
           /\ note' = Forgets(note, still)
    /\ UNCHANGED <<clock, proc>>
OpenConfig ==
    /\ banner.open
    /\ PageSays(ConfigPageMounted)
    /\ banner' = [banner EXCEPT !.open = FALSE, !.pending = NoNote, !.still = FALSE]
    /\ UNCHANGED <<clock, proc, note>>

\* A frame of the statistics topic, which the shell keeps open on every page.
StatsOfNow ==
    [known |-> TRUE, uptime |-> SecondsOf(clock - proc.start), taken |-> clock,
     reloadedAt |-> IF proc.reloadedAt < 0 THEN -1 ELSE SecondsOf(proc.reloadedAt)]
StatsArrive ==
    /\ banner' = [banner EXCEPT !.stats = StatsOfNow]
    /\ UNCHANGED <<clock, proc, note, saves>>

\* A render in which the answer to "does it still apply" has changed.
HeroRenders ==
    /\ banner.open /\ banner.still # (PendingWarning # "none")
    /\ banner' = [banner EXCEPT !.still = ~@]
    /\ note' = Forgets(banner.pending, ~banner.still)
    /\ UNCHANGED <<clock, proc, saves>>

\* Half a second passes; a frame on screen is replaced before it is too old.
ClockMoves ==
    /\ clock < MaxClock
    /\ banner.stats.known => clock - banner.stats.taken < StatsAge
    /\ clock' = clock + 1
    /\ UNCHANGED <<proc, note, saves, banner>>

ReloadNext ==
    \/ \E mode \in ReloadModes : SaveConfig(mode)
    \/ ConfigSaveAnswered \/ ReloadNow \/ ReloadAccepted \/ Restart \/ ReloadByOther
    \/ ReloadMoves \/ PollReload \/ OpenOverview \/ OpenConfig \/ StatsArrive \/ HeroRenders \/ ClockMoves

ReloadSpec == ReloadInit /\ [][ReloadNext]_reloadVars

-----------------------------------------------------------------------------
(* Properties                                                               *)

\* With current statistics, the overview does not warn of what is settled:
\* a process started after the answer has nothing pending, a reload that ended
\* in a later second settles its half and no other, and what the note says has
\* not been settled is warned of.  The note is the last answer's, read at the
\* rule the notice of the configuration page is rendered by.
WarningsAreHonest ==
    /\ banner.open /\ banner.stats = StatsOfNow =>
         /\ proc.start >= banner.pending.at => PendingWarning = "none"
         /\ PendingWarning = "reload" => proc.unloaded \/ SecondsOf(proc.reloadedAt) < banner.pending.at
         /\ PendingWarning = "restart" => proc.deferred \/ proc.start < banner.pending.at
         /\ banner.pending.processRestart /\ proc.start + 1 < banner.pending.at - START_TIME_SLACK_MS =>
              PendingWarning = "restart"
    /\ Page.result.known =>
         /\ PatchResultNotice.reloadNow = note.runtimeReload
         /\ PatchResultNotice.restartNow = note.processRestart

\* A needed restart is forgotten only when the process has been restarted
\* since the save, the slack of the start time, the rounding and the age of the
\* statistics apart: no reload, render or navigation erases it.  The exception is an
\* answer that came after the overview was opened, whose note the banner did
\* not read and erases with the one it did (the effect of HealthHero).
RestartedSinceSave == proc.start + 1 + StatsAge >= note.at - START_TIME_SLACK_MS
RestartIsRemembered ==
    note.processRestart /\ ~note'.processRestart =>
        \/ saves.sent.known /\ ~saves'.sent.known      \* a later answer
        \/ RestartedSinceSave
        \/ banner.open /\ banner.pending # note

\* The stepper of one reload never steps back, and a reload shown as ended
\* stays ended, though it is polled while Telemt moves it and a save or the
\* notice may start another (useReloadPolling, ReloadStepper).
StepperMovesForward ==
    LET shown == ReloadStepper(Page.status)
        next == ReloadStepper(Page'.status)
    IN  /\ Page.open /\ Page'.open /\ Page'.active = Page.active /\ Page.active > 0
        /\ Page.status # Page'.status /\ shown.shows # "skeleton"
        => /\ next.shows # "skeleton"
           /\ shown.shows = "error" => next = shown
           /\ shown.shows = "steps" /\ next.shows = "steps" =>
                next.steps.caption >= shown.steps.caption

\* "a process start newer than the PATCH (now - uptime) clears the restart
\* half" (server/config/pendingChanges.ts): nothing else does, the slack and
\* the rounding of the start time apart.
OnlyRestartClears ==
    [][note.processRestart /\ ~note'.processRestart =>
          ConfigSaveAnswered \/ proc.start + 1 >= note.at - START_TIME_SLACK_MS]_reloadVars

=============================================================================
