--------------------------- MODULE ConsoleProofs ---------------------------
(***************************************************************************)
(* Theorems about the pages of Console, for every value of the bounds.     *)
(***************************************************************************)
EXTENDS Console, DraftProofs, PageProofs, GeographyProofs,
        SequenceTheorems, FiniteSetTheorems, TLAPS

(***************************************************************************)
(* The composition: the screen does not change, and the screen that is     *)
(* open is the only one that steps.                                        *)
(***************************************************************************)

\* One page is open for good; its step is the only one.
LEMMA OnePage ==
    ASSUME Next
    PROVE  /\ screen' = screen
           /\ On("journal") => JournalNext
           /\ On("config") => ConfigNext
           /\ On("updates") => UpdNext
           /\ On("reload") => ReloadNext
           /\ On("geography") => GeoNext
           /\ On("map") => MapNext
           /\ On("settings") => SettingsNext
           /\ On("people") => PeopleListNext
           /\ On("policy") => AutoNext
           /\ On("person") => PersonNext
           /\ On("web") => WebNext
           /\ On("forms") => FormNext
           /\ On("counters") => CountersNext
<1>1. screen' = screen
  BY DEF Next, JournalStep, EditorStep, ReloadStep, FormsStep, UpdatesStep,
         PolicyStep, SettingsStep, PersonStep, PeopleStep, HistoryStep,
         CountersStep, WebStep, GeographyStep, MapStep
<1>2. On("journal") => JournalNext
  BY DEF On, Next, JournalStep, EditorStep, ReloadStep, FormsStep, UpdatesStep,
         PolicyStep, SettingsStep, PersonStep, PeopleStep, HistoryStep,
         CountersStep, WebStep, GeographyStep, MapStep
<1>3. On("config") => ConfigNext
  BY DEF On, Next, JournalStep, EditorStep, ReloadStep, FormsStep, UpdatesStep,
         PolicyStep, SettingsStep, PersonStep, PeopleStep, HistoryStep,
         CountersStep, WebStep, GeographyStep, MapStep
<1>4. On("updates") => UpdNext
  BY DEF On, Next, JournalStep, EditorStep, ReloadStep, FormsStep, UpdatesStep,
         PolicyStep, SettingsStep, PersonStep, PeopleStep, HistoryStep,
         CountersStep, WebStep, GeographyStep, MapStep
<1>5. On("reload") => ReloadNext
  BY DEF On, Next, JournalStep, EditorStep, ReloadStep, FormsStep, UpdatesStep,
         PolicyStep, SettingsStep, PersonStep, PeopleStep, HistoryStep,
         CountersStep, WebStep, GeographyStep, MapStep
<1>6. On("geography") => GeoNext
  BY DEF On, Next, JournalStep, EditorStep, ReloadStep, FormsStep, UpdatesStep,
         PolicyStep, SettingsStep, PersonStep, PeopleStep, HistoryStep,
         CountersStep, WebStep, GeographyStep, MapStep
<1>7. On("map") => MapNext
  BY DEF On, Next, JournalStep, EditorStep, ReloadStep, FormsStep, UpdatesStep,
         PolicyStep, SettingsStep, PersonStep, PeopleStep, HistoryStep,
         CountersStep, WebStep, GeographyStep, MapStep
<1>8. On("settings") => SettingsNext
  BY DEF On, Next, JournalStep, EditorStep, ReloadStep, FormsStep, UpdatesStep,
         PolicyStep, SettingsStep, PersonStep, PeopleStep, HistoryStep,
         CountersStep, WebStep, GeographyStep, MapStep
<1>9. On("people") => PeopleListNext
  BY DEF On, Next, JournalStep, EditorStep, ReloadStep, FormsStep, UpdatesStep,
         PolicyStep, SettingsStep, PersonStep, PeopleStep, HistoryStep,
         CountersStep, WebStep, GeographyStep, MapStep
<1>10. On("policy") => AutoNext
  BY DEF On, Next, JournalStep, EditorStep, ReloadStep, FormsStep, UpdatesStep,
         PolicyStep, SettingsStep, PersonStep, PeopleStep, HistoryStep,
         CountersStep, WebStep, GeographyStep, MapStep
<1>11. On("person") => PersonNext
  BY DEF On, Next, JournalStep, EditorStep, ReloadStep, FormsStep, UpdatesStep,
         PolicyStep, SettingsStep, PersonStep, PeopleStep, HistoryStep,
         CountersStep, WebStep, GeographyStep, MapStep
<1>12. On("web") => WebNext
  BY DEF On, Next, JournalStep, EditorStep, ReloadStep, FormsStep, UpdatesStep,
         PolicyStep, SettingsStep, PersonStep, PeopleStep, HistoryStep,
         CountersStep, WebStep, GeographyStep, MapStep
<1>13. On("forms") => FormNext
  BY DEF On, Next, JournalStep, EditorStep, ReloadStep, FormsStep, UpdatesStep,
         PolicyStep, SettingsStep, PersonStep, PeopleStep, HistoryStep,
         CountersStep, WebStep, GeographyStep, MapStep
<1>14. On("counters") => CountersNext
  BY DEF On, Next, JournalStep, EditorStep, ReloadStep, FormsStep, UpdatesStep,
         PolicyStep, SettingsStep, PersonStep, PeopleStep, HistoryStep,
         CountersStep, WebStep, GeographyStep, MapStep
<1> QED
  BY <1>1, <1>2, <1>3, <1>4, <1>5, <1>6, <1>7, <1>8, <1>9, <1>10, <1>11, <1>12,
     <1>13, <1>14

(***************************************************************************)
(* The journal: createLogStream never leaves the reader behind a dead feed.*)
(***************************************************************************)
Feeds ==
    [es : {"none", "connecting", "open"},
     status : {"connecting", "open", "reconnecting", "error", "closed"},
     stale : BOOLEAN, error : {NoError, "transient", "config"},
     code : {NoError, "limit", "refused"}, timer : BOOLEAN, pending : BOOLEAN,
     watchdog : BOOLEAN, probe : BOOLEAN, held : BOOLEAN, overlaps : BOOLEAN]

\* A reconnection is pending only without a source, and has its timer exactly
\* while the tab is visible; a probe runs only after a refusal, with nothing
\* pending; otherwise a missing source has been reported.
Feeding(s, isHidden) ==
    /\ s \in Feeds
    /\ ~s.overlaps
    /\ s.held => s.es = "none"
    /\ s.pending => s.es = "none"
    /\ s.probe => /\ s.es = "none" /\ ~s.pending /\ ~s.held
                  /\ s.status = "closed"
    /\ s.timer => s.pending /\ ~isHidden
    /\ s.pending /\ ~isHidden => s.timer
    /\ s.es = "none" =>
         s.pending \/ s.probe \/ s.error # NoError \/ s.status = "closed"

\* The inductive invariant of the journal.
JournalInv ==
    /\ hidden \in BOOLEAN
    /\ rung = "stream" => Feeding(st, hidden)

\* A new source, where there was none and nothing was waiting for one.
LEMMA OpenFeeds ==
    ASSUME NEW s \in Feeds, NEW h \in BOOLEAN, s.es = "none", ~s.overlaps,
           ~s.held, ~s.pending, ~s.timer, ~s.probe
    PROVE  Feeding(OpenStream(s, h), h)
BY DEF Feeding, Feeds, OpenStream, NoError

\* A viewer mounts with a feed.
LEMMA NewFeeds == ASSUME NEW h \in BOOLEAN PROVE Feeding(NewStream(h), h)
BY DEF NewStream, Feeding, Feeds, OpenStream, NoError

\* stopConnection leaves no source and no probe, and the timer as it was.
LEMMA StopFeeds ==
    ASSUME NEW s, NEW h \in BOOLEAN, Feeding(s, h), NEW y, y = StopConnection(s)
    PROVE  /\ y \in Feeds /\ y.es = "none" /\ ~y.probe /\ ~y.overlaps
           /\ y.held = s.held /\ y.pending = s.pending /\ y.timer = s.timer
           /\ y.error = s.error
BY DEF Feeding, Feeds, StopConnection

\* scheduleReconnect: a timer, or the wait for the tab to be shown.
LEMMA ScheduleFeeds ==
    ASSUME NEW s \in Feeds, NEW h \in BOOLEAN, s.es = "none", ~s.overlaps,
           ~s.probe
    PROVE  Feeding(ScheduleReconnect(s, h), h)
BY DEF Feeding, Feeds, ScheduleReconnect

\* The timer fires, or the tab is shown with a reconnection pending.
LEMMA ReconnectFeeds ==
    ASSUME NEW s, NEW h \in BOOLEAN, Feeding(s, h) \/ (~h /\ Feeding(s, TRUE)),
           s.pending
    PROVE  Feeding(Reconnect(s, h), h)
<1> DEFINE y == [s EXCEPT !.timer = FALSE, !.pending = FALSE]
<1>1. CASE h
  BY <1>1 DEF Reconnect, Feeding, Feeds
<1>2. CASE ~h /\ s.held
  BY <1>2 DEF Reconnect, Feeding, Feeds
<1>3. CASE ~h /\ ~s.held
  <2>1. Reconnect(s, h) = OpenStream(y, h)
    BY <1>3 DEF Reconnect
  <2>2. y \in Feeds /\ y.es = "none" /\ ~y.overlaps /\ ~y.held /\ ~y.pending
        /\ ~y.timer /\ ~y.probe
    BY <1>3 DEF Feeding, Feeds
  <2> HIDE DEF y
  <2> QED
    BY <2>1, <2>2, OpenFeeds
<1> QED
  BY <1>1, <1>2, <1>3

\* The tab is hidden or shown.
LEMMA VisibilityFeeds ==
    ASSUME NEW s, NEW h \in BOOLEAN, Feeding(s, h)
    PROVE  Feeding(VisibilityChanges(s, ~h), ~h)
<1>1. CASE h
  <2>1. CASE s.pending
    BY <1>1, <2>1, ReconnectFeeds DEF VisibilityChanges
  <2>2. CASE ~s.pending
    BY <1>1, <2>2 DEF VisibilityChanges, Feeding, Feeds
  <2> QED
    BY <2>1, <2>2
<1>2. CASE ~h
  BY <1>2 DEF VisibilityChanges, PauseConnecting, StopConnection, Feeding, Feeds
<1> QED
  BY <1>1, <1>2

\* EventSource's own error, fatal or not.
LEMMA FailsFeeds ==
    ASSUME NEW s, NEW h \in BOOLEAN, Feeding(s, h), s.es # "none",
           NEW closed \in BOOLEAN
    PROVE  Feeding(StreamFails(s, closed, h), h)
BY DEF StreamFails, PauseConnecting, StopConnection, Feeding, Feeds

\* The answer of the probe that tells a refusal from a limit.
LEMMA ProbeFeeds ==
    ASSUME NEW s, NEW h \in BOOLEAN, Feeding(s, h), s.probe,
           NEW answer \in {"limit", "free", "refused", "lost"}
    PROVE  Feeding(ProbeAnswers(s, answer, h), h)
BY DEF ProbeAnswers, ScheduleReconnect, Feeding, Feeds

\* The viewer's retry.
LEMMA RetryFeeds ==
    ASSUME NEW s, NEW h \in BOOLEAN, Feeding(s, h)
    PROVE  Feeding(RetryStream(s, h), h)
<1> DEFINE z == StopConnection(s)
           y == [z EXCEPT !.timer = FALSE, !.pending = FALSE,
                   !.status = "connecting", !.stale = FALSE,
                   !.error = NoError, !.code = NoError]
<1>1. CASE s.held
  BY <1>1 DEF RetryStream, Feeding, Feeds
<1>2. CASE ~s.held
  <2>1. RetryStream(s, h) = OpenStream(y, h)
    BY <1>2 DEF RetryStream
  <2>2. z \in Feeds /\ z.es = "none" /\ ~z.probe /\ ~z.overlaps /\ ~z.held
    BY <1>2, StopFeeds
  <2> HIDE DEF z
  <2>3. y \in Feeds /\ y.es = "none" /\ ~y.overlaps /\ ~y.held /\ ~y.pending
        /\ ~y.timer /\ ~y.probe
    BY <2>2 DEF Feeds
  <2> HIDE DEF y
  <2> QED
    BY <2>1, <2>3, OpenFeeds
<1> QED
  BY <1>1, <1>2

\* The source reports an error of its own.
LEMMA ReportsFeeds ==
    ASSUME NEW s, NEW h \in BOOLEAN, Feeding(s, h), s.es # "none",
           NEW reason \in {"transient", "config"}
    PROVE  Feeding(StreamReports(s, reason, h), h)
BY ZenonT(60) DEF StreamReports, ScheduleReconnect, StopConnection, Feeding, Feeds, NoError

\* The server ends the stream.
LEMMA EndsFeeds ==
    ASSUME NEW s, NEW h \in BOOLEAN, Feeding(s, h)
    PROVE  Feeding(StreamEnds(s, h), h)
BY DEF StreamEnds, ScheduleReconnect, StopConnection, Feeding, Feeds

\* The events of an open or opening source, and the timers beside it.
LEMMA EventsFeed ==
    ASSUME NEW s, NEW h \in BOOLEAN, Feeding(s, h)
    PROVE  /\ s.es # "none" => Feeding(StreamOpens(s), h)
           /\ s.es # "none" => Feeding(StreamFrame(s), h)
           /\ Feeding([s EXCEPT !.watchdog = FALSE, !.stale = TRUE], h)
           /\ Feeding([s EXCEPT !.held = FALSE], h)
BY ZenonT(60) DEF StreamOpens, StreamFrame, Feeding, Feeds

\* The journal's invariant is inductive: each handler maps feeds to feeds.
LEMMA JournalInvStep == JournalInv /\ JournalNext => JournalInv'
<1> SUFFICES ASSUME JournalInv, JournalNext PROVE JournalInv'
  OBVIOUS
<1>1. hidden \in BOOLEAN /\ (rung = "stream" => Feeding(st, hidden))
  BY DEF JournalInv
\* What a step does to the rung, the stream and the visibility.
<1>2. \/ rung' = "stream" /\ st' = NewStream(hidden) /\ hidden' = hidden
      \/ rung' # "stream" /\ hidden' = hidden
      \/ rung' = rung /\ st' = st /\ hidden' = hidden
      \/ /\ hidden' = ~hidden /\ rung' = rung
         /\ rung = "stream" => st' = VisibilityChanges(st, ~hidden)
      \/ /\ rung = "stream" /\ hidden' = hidden
         /\ \/ st.es = "connecting" /\ st' = StreamOpens(st)
            \/ st.es = "open" /\ st' = StreamFrame(st)
            \/ st' = [st EXCEPT !.watchdog = FALSE, !.stale = TRUE]
            \/ \E reason \in {"transient", "config"} :
                 st.es = "open" /\ st' = StreamReports(st, reason, hidden)
            \/ st' = StreamEnds(st, hidden)
            \/ \E closed \in BOOLEAN :
                 st.es # "none" /\ st' = StreamFails(st, closed, hidden)
            \/ \E answer \in {"limit", "free", "refused", "lost"} :
                 st.probe /\ st' = ProbeAnswers(st, answer, hidden)
            \/ st' = [st EXCEPT !.held = FALSE]
            \/ st.timer /\ st' = Reconnect(st, hidden)
            \/ st' = RetryStream(st, hidden)
  BY DEF JournalNext, HostAnswers, SwitchService, OpenEvent, HeartbeatEvent,
         StaleTimer, LogEndEvent, LogEvent, SourceErrorEvent, ErrorEvent,
         ProbeAnswer, RetryAfterPasses, ReconnectTimer, RetryButton,
         TogglePause, ClearButton, VisibilityChange, PressLevel, TypeSearch,
         SetMode, Scroll, ShowEarlierButton, TailButtonPressed, TailAnswer,
         ActionRecorded, AuditAnswer, AuditFails, AuditRetry, FetchNextPage,
         Streams, Filters, Lists, Audits, MountViewer, logVars
<1>3. hidden' \in BOOLEAN
  BY <1>1, <1>2
<1>4. ASSUME rung' = "stream" PROVE Feeding(st', hidden')
  <2>1. st.timer /\ Feeding(st, hidden) => st.pending
    BY DEF Feeding
  <2> QED
    BY <1>1, <1>2, <1>4, <2>1, NewFeeds, VisibilityFeeds, EventsFeed,
       ReportsFeeds, EndsFeeds, FailsFeeds, ProbeFeeds, ReconnectFeeds, RetryFeeds
<1> QED
  BY <1>3, <1>4 DEF JournalInv

\* A feed that is none of the dead ones has its way forward.
LEMMA FeedingMovesOn == JournalInv => WayForward
<1> SUFFICES ASSUME JournalInv, rung = "stream"
             PROVE  /\ ~st.overlaps
                    /\ st.es = "none" /\ ~hidden =>
                         st.timer \/ st.probe \/ "retry" \in ViewerNotices(st)
                    /\ st.es = "none" /\ hidden =>
                         st.pending \/ st.probe \/ "retry" \in ViewerNotices(st)
                    /\ st.held => st.es = "none"
  BY DEF WayForward
<1>1. Feeding(st, hidden) /\ hidden \in BOOLEAN
  BY DEF JournalInv
<1>2. st.error # NoError \/ st.status = "closed" => "retry" \in ViewerNotices(st)
  BY DEF ViewerNotices
<1> QED
  BY <1>1, <1>2 DEF Feeding

(***************************************************************************)
(* The console never shows a journal whose feed has died without a timer, a *)
(* probe or a retry, never holds two streams, and never opens one before    *)
(* its Retry-After has passed (createLogStream, LogStreamViewer).           *)
(***************************************************************************)
THEOREM JournalIsNeverStuck == ConsoleSpec => []JournalMovesOn
<1> DEFINE I == On("journal") => JournalInv
<1>1. Init => I
  BY DEF Init, JournalInit, JournalInv, On
<1>2. I /\ [Next]_consoleVars => I'
  <2> SUFFICES ASSUME I, [Next]_consoleVars PROVE I'
    OBVIOUS
  <2>1. CASE Next
    BY <2>1, OnePage, JournalInvStep DEF On
  <2>2. CASE UNCHANGED consoleVars
    BY <2>2 DEF consoleVars, operationVars, journalVars, logVars, On, JournalInv
  <2> QED
    BY <2>1, <2>2
<1>3. I => JournalMovesOn
  BY FeedingMovesOn DEF JournalMovesOn
<1> QED
  BY <1>1, <1>2, <1>3, PTL DEF ConsoleSpec

(***************************************************************************)
(* The journal shows every line between the first and the last it shows,     *)
(* however long it was paused and however much of the pause buffer was       *)
(* dropped, and the action history skips no action recorded while its pages  *)
(* are read (journalReducer, useAuditLog). The bound on what is held back is *)
(* the ring's own: what is dropped is always older than all that is shown.   *)
(***************************************************************************)
THEOREM JournalSkipsNothing == ConsoleSpec => []JournalHasNoGaps
<1> DEFINE I == On("journal") => JournalInOrder
<1>1. Init => I
  BY OpensInOrder DEF Init, On
<1>2. I /\ [Next]_consoleVars => I'
  <2> SUFFICES ASSUME I, [Next]_consoleVars PROVE I'
    OBVIOUS
  <2>1. CASE Next
    BY <2>1, OnePage, StaysInOrder DEF On
  <2>2. CASE UNCHANGED consoleVars
    BY <2>2 DEF consoleVars, operationVars, journalVars, logVars, On, JournalInOrder
  <2> QED
    BY <2>1, <2>2
<1>3. I => JournalHasNoGaps
  BY InOrderHasNoGaps DEF JournalHasNoGaps
<1> QED
  BY <1>1, <1>2, <1>3, PTL DEF ConsoleSpec

-----------------------------------------------------------------------------
(***************************************************************************)
(* The structured and the TOML editor never both hold unsaved work, whatever*)
(* answers arrive late: saving one would silently drop the other (the tab   *)
(* and `blocked` guards of ConfigPage).                                     *)
(***************************************************************************)
THEOREM EditorsTakeTurns == ConsoleSpec => []OneEditorDraft
<1> DEFINE I == On("config") => EditorInv
<1>1. Init => I
  BY EditorInvInit DEF Init, On
<1>2. I /\ [Next]_consoleVars => I'
  <2> SUFFICES ASSUME I, [Next]_consoleVars PROVE I'
    OBVIOUS
  <2>1. CASE Next
    BY <2>1, OnePage, EditorInvStep DEF On
  <2>2. CASE UNCHANGED consoleVars
    <3>1. screen' = screen /\ ed' = ed /\ tm' = tm
      BY <2>2 DEF consoleVars, operationVars, configVars
    <3> QED
      BY <3>1 DEF On, EditorInv
  <2> QED
    BY <2>1, <2>2
<1>3. I => OneEditorDraft
  BY DEF OneEditorDraft, OneDraftAtATime, EditorInv, TomlBusy, Quiet
<1> QED
  BY <1>1, <1>2, <1>3, PTL DEF ConsoleSpec

-----------------------------------------------------------------------------
(***************************************************************************)
(* The records of the structured editors are numbered by their position,    *)
(* yet a decoy put away comes back to the virtual host it was typed for and *)
(* a card that is open shows the record that was opened, whatever is added, *)
(* duplicated, deleted or replaced by another document (UpstreamsEditor,    *)
(* ListenersEditor, WebEditor).                                             *)
(***************************************************************************)
THEOREM FormsKeepTheirRecords == ConsoleSpec => []FormsStayPaired
<1> DEFINE I == On("forms") => FormInv
<1>1. Init => I
  BY FormStarts DEF Init, On
<1>2. I /\ [Next]_consoleVars => I'
  <2> SUFFICES ASSUME I, [Next]_consoleVars PROVE I'
    OBVIOUS
  <2>1. CASE Next
    BY <2>1, OnePage, FormSteps DEF On
  <2>2. CASE UNCHANGED consoleVars
    <3>1. screen' = screen /\ form' = form
      BY <2>2 DEF consoleVars, operationVars, formVars
    <3> QED
      BY <3>1 DEF On, FormInv
  <2> QED
    BY <2>1, <2>2
<1>3. I => FormsStayPaired
  BY FormsPaired DEF FormsStayPaired
<1> QED
  BY <1>1, <1>2, <1>3, PTL DEF ConsoleSpec

(***************************************************************************)
(* Both: the editors of the configuration lose nothing to each other and    *)
(* mix up nothing (ConfigPage, StructuredSettingsForm).                     *)
(***************************************************************************)
THEOREM EditorsRemainSound == ConsoleSpec => []EditorsStaySound
<1>1. OneEditorDraft /\ FormsStayPaired => EditorsStaySound
  BY DEF EditorsStaySound
<1> QED
  BY <1>1, EditorsTakeTurns, FormsKeepTheirRecords, PTL

-----------------------------------------------------------------------------
(***************************************************************************)
(* The updates page (DraftProofs).                                          *)
(***************************************************************************)

\* The invariant is one of the console.
LEMMA UpdatesHold == ConsoleSpec => [](On("updates") => UpdInv)
<1> DEFINE I == On("updates") => UpdInv
<1>1. Init => I
  BY UpdInvInit DEF Init, On
<1>2. I /\ [Next]_consoleVars => I'
  <2> SUFFICES ASSUME I, [Next]_consoleVars PROVE I'
    OBVIOUS
  <2>1. CASE Next
    BY <2>1, OnePage, WorkerSteps, PageSteps DEF On, UpdInv
  <2>2. CASE UNCHANGED consoleVars
    BY <2>2 DEF consoleVars, operationVars, updVars, On, UpdInv
  <2> QED
    BY <2>1, <2>2
<1> QED
  BY <1>1, <1>2, PTL DEF ConsoleSpec

(***************************************************************************)
(* The restart watch reloads the page only once the panel has served the    *)
(* version of the run it watches in that run or a later one, and a failure  *)
(* it shows is that run's own (restartWatchDecision, usePanelRestartWatch). *)
(***************************************************************************)
THEOREM WatchIsTruthful == ConsoleSpec => []WatchDecidesRight
<1>1. (On("updates") => UpdInv) => WatchDecidesRight
  BY HonestWatch DEF WatchDecidesRight
<1> QED
  BY <1>1, UpdatesHold, PTL

-----------------------------------------------------------------------------
(***************************************************************************)
(* A configuration reload: reloads are numbered, and the stepper follows    *)
(* the states of one of them.                                               *)
(***************************************************************************)
ReloadSteps == {"accepted", "preparing", "activating", "draining", "succeeded"}
ReloadStates == ReloadSteps \cup {"rolled_back", "failed"}

\* The position of a state among the steps.
StepNo(s) ==
    CASE s = "accepted" -> 1 [] s = "preparing" -> 2 [] s = "activating" -> 3
      [] s = "draining" -> 4 [] OTHER -> 5

Results == [known : BOOLEAN, reloadRequired : BOOLEAN, restartRequired : BOOLEAN, reload : Nat]
ConfigPages ==
    [open : BOOLEAN, result : Results, active : Nat,
     status : ReloadStates \cup {"none"}, reloadNow : BOOLEAN, asked : Nat]
SaveStates == [page : ConfigPages, sent : Results, mine : BOOLEAN, done : Nat]
Procs ==
    [start : Nat, reloadedAt : Int, run : [id : Nat, state : ReloadStates],
     unloaded : BOOLEAN, deferred : BOOLEAN, served : Nat]

\* The reload asked for by the notice is neither the one on screen nor the one
\* a save has started, and a status is not ahead of the reload it is of.
ReloadInv ==
    /\ clock \in Nat /\ proc \in Procs /\ saves \in SaveStates
    /\ Page.active <= proc.run.id /\ Page.asked <= proc.run.id
    /\ saves.sent.reload <= proc.run.id
    /\ Page.reloadNow => /\ Page.asked # 0 /\ Page.asked # Page.active
                         /\ Page.asked # saves.sent.reload
    /\ /\ Page.status \in {"accepted", "preparing", "activating", "draining"}
       /\ Page.active = proc.run.id /\ proc.run.state \in ReloadSteps
       => StepNo(Page.status) <= StepNo(proc.run.state)

\* The least of one number.
LEMMA MinOfOne ==
    ASSUME NEW k \in Nat, NEW I, I = {k}
    PROVE  I # {} /\ Min(I) = k
<1>1. \A x \in I : (\A y \in I : x <= y) <=> x = k
  OBVIOUS
<1>2. k \in I /\ \A x \in I : x = k
  OBVIOUS
<1>3. Min(I) = k
  BY <1>1, <1>2 DEF Min
<1> QED
  BY <1>3

\* The steps of a reload are numbered in their order.
LEMMA StepNumbers ==
    ASSUME NEW s \in ReloadSteps
    PROVE  /\ ReloadStepInfo(s).index = StepNo(s) /\ StepNo(s) \in 1..5
           /\ RELOAD_STEPS[StepNo(s)] = s
<1>1. /\ Len(RELOAD_STEPS) = 5
      /\ RELOAD_STEPS[1] = "accepted" /\ RELOAD_STEPS[2] = "preparing"
      /\ RELOAD_STEPS[3] = "activating" /\ RELOAD_STEPS[4] = "draining"
      /\ RELOAD_STEPS[5] = "succeeded"
  BY DEF RELOAD_STEPS
<1>2. StepNo(s) \in 1..5 /\ RELOAD_STEPS[StepNo(s)] = s
  BY <1>1 DEF StepNo, ReloadSteps
<1>3. \A i \in 1..5 : RELOAD_STEPS[i] = s => i = StepNo(s)
  BY <1>1 DEF StepNo
<1> DEFINE I == {i \in 1..5 : RELOAD_STEPS[i] = s}
<1>4. I # {} /\ Min(I) = StepNo(s)
  <2>1. I = {StepNo(s)} /\ StepNo(s) \in Nat
    BY <1>2, <1>3
  <2> QED
    BY <2>1, MinOfOne
<1>5. SelectInSeq(RELOAD_STEPS, LAMBDA x : x = s) = IF I # {} THEN Min(I) ELSE 0
  BY <1>1 DEF SelectInSeq
<1>6. ReloadStepInfo(s).index = SelectInSeq(RELOAD_STEPS, LAMBDA x : x = s)
  BY DEF ReloadStepInfo, ReloadSteps
<1> HIDE DEF I
<1>7. ReloadStepInfo(s).index = StepNo(s)
  BY <1>4, <1>5, <1>6
<1> QED
  BY <1>2, <1>7

\* What the card shows of each status.
LEMMA StepperShows ==
    /\ ReloadStepper("none").shows = "skeleton"
    /\ \A s \in {"rolled_back", "failed"} : ReloadStepper(s).shows = "error"
    /\ \A s \in ReloadSteps : /\ ReloadStepper(s).shows = "steps"
                              /\ ReloadStepper(s).steps.caption = StepNo(s)
<1>1. ReloadStepper("none").shows = "skeleton"
  BY DEF ReloadStepper
<1>2. ASSUME NEW s \in {"rolled_back", "failed"} PROVE ReloadStepper(s).shows = "error"
  <2>1. ReloadStepInfo(s).outcome = "error" /\ s # "none"
    BY <1>2 DEF ReloadStepInfo
  <2>2. ReloadStepper(s) = [shows |-> "error"]
    BY <2>1 DEF ReloadStepper
  <2> QED
    BY <2>2
<1>3. ASSUME NEW s \in ReloadSteps
      PROVE  /\ ReloadStepper(s).shows = "steps"
             /\ ReloadStepper(s).steps.caption = StepNo(s)
  <2> DEFINE k == StepNo(s)
             n == ReloadStepInfo(s).index
             f == [i \in DOMAIN RELOAD_STEPS |->
                     IF i < n THEN "done" ELSE IF i = n THEN "active" ELSE "pending"]
             g == [i \in 1..5 |->
                     IF i < k THEN "done" ELSE IF i = k THEN "active" ELSE "pending"]
             I == {i \in 1..5 : g[i] = "active"}
  <2>1. n = k /\ k \in 1..5
    BY StepNumbers
  <2>2. DOMAIN RELOAD_STEPS = 1..5
    BY DEF RELOAD_STEPS
  <2>3. f = g
    <3> HIDE DEF n, k
    <3> QED
      BY <2>1, <2>2
  <2>4. ReloadStepInfo(s).outcome # "error" /\ s # "none"
    BY DEF ReloadStepInfo, ReloadSteps
  <2>5. ReloadStepper(s).shows = "steps" /\ ReloadStepper(s).steps = PhaseSteps(f)
    <3>1. ReloadStepper(s) = [shows |-> "steps", steps |-> PhaseSteps(f),
                              succeeded |-> ReloadStepInfo(s).outcome = "success"]
      BY <2>4 DEF ReloadStepper
    <3> HIDE DEF f
    <3> QED
      BY <3>1
  <2> HIDE DEF f, n, k
  <2>6. PhaseSteps(f).caption = CurrentPhaseIndex(g)
    BY <2>3 DEF PhaseSteps
  <2>7. g[k] = "active" /\ \A i \in 1..5 : g[i] = "active" => i = k
    BY <2>1
  <2>8. Len(g) = 5 /\ g # << >>
    <3>1. g \in [1..5 -> {"done", "active", "pending"}]
      BY <2>1
    <3>2. g \in Seq({"done", "active", "pending"}) /\ DOMAIN g = 1..5
      <4> HIDE DEF g
      <4> QED
        BY <3>1, SeqDef
    <3> HIDE DEF g
    <3>3. Len(g) = 5
      BY <3>2
    <3> QED
      BY <3>2, <3>3
  <2> HIDE DEF g
  <2>9. I # {} /\ Min(I) = k
    <3>1. I = {k} /\ k \in Nat
      BY <2>1, <2>7
    <3> QED
      BY <3>1, MinOfOne
  <2>10. CurrentPhaseIndex(g) = k
    BY <2>1, <2>8, <2>9 DEF CurrentPhaseIndex, SelectInSeq, SelectLastInSeq
  <2> QED
    BY <2>5, <2>6, <2>10 DEF k
<1> QED
  BY <1>1, <1>2, <1>3

\* Telemt takes a reload: the next number.
LEMMA AcceptNumbers ==
    ASSUME NEW p \in Procs, NEW y, y = AcceptReload(p)
    PROVE  y \in Procs /\ y.run.id = p.run.id + 1 /\ y.run.state = "accepted"
<1> DEFINE r == [id |-> p.run.id + 1, state |-> "accepted"]
           n == p.served + 1
<1>1. r \in [id : Nat, state : ReloadStates] /\ n \in Nat
  BY DEF Procs, ReloadStates, ReloadSteps
<1>2. y = [p EXCEPT !.run = r, !.served = n]
  BY DEF AcceptReload
<1>3. r.id = p.run.id + 1 /\ r.state = "accepted"
  OBVIOUS
<1> HIDE DEF r, n
<1>4. y \in Procs /\ y.run = r
  BY <1>1, <1>2 DEF Procs
<1> QED
  BY <1>3, <1>4

\* The invariant is inductive: what each step does to the reloads of Telemt
\* and to the page.
LEMMA ReloadInvStep == ReloadInv /\ ReloadNext => ReloadInv'
<1> SUFFICES ASSUME ReloadInv, ReloadNext PROVE ReloadInv'
  OBVIOUS
<1> DEFINE Steps(st_, p_) ==
      /\ st_ \in {"accepted", "preparing", "activating", "draining"}
      /\ p_ \in ReloadSteps
      => StepNo(st_) <= StepNo(p_)
<1>1. /\ clock \in Nat /\ proc \in Procs /\ saves \in SaveStates
      /\ Page \in ConfigPages /\ saves.sent \in Results
      /\ proc.run.id \in Nat /\ proc.run.state \in ReloadStates
      /\ Page.active \in Nat /\ Page.asked \in Nat /\ saves.sent.reload \in Nat
  BY DEF ReloadInv, SaveStates, Procs, ConfigPages, Results, Page
<1>2. /\ Page.active <= proc.run.id /\ Page.asked <= proc.run.id
      /\ saves.sent.reload <= proc.run.id
      /\ Page.reloadNow => /\ Page.asked # 0 /\ Page.asked # Page.active
                           /\ Page.asked # saves.sent.reload
      /\ Page.active = proc.run.id => Steps(Page.status, proc.run.state)
  BY DEF ReloadInv
<1> DEFINE Keeps ==
      /\ clock' \in Nat /\ proc' \in Procs /\ saves' \in SaveStates
      /\ Page'.active <= proc'.run.id /\ Page'.asked <= proc'.run.id
      /\ saves'.sent.reload <= proc'.run.id
      /\ Page'.reloadNow => /\ Page'.asked # 0 /\ Page'.asked # Page'.active
                            /\ Page'.asked # saves'.sent.reload
      /\ Page'.active = proc'.run.id => Steps(Page'.status, proc'.run.state)
<1>3. Keeps => ReloadInv'
  BY DEF ReloadInv
<1>4. ASSUME UNCHANGED <<clock, saves>>, proc' \in Procs, proc'.run.id = proc.run.id,
             proc'.run.state = proc.run.state \/ proc'.run.state \notin ReloadSteps
      PROVE  Keeps
  BY <1>1, <1>2, <1>4 DEF Page
<1>5. ASSUME UNCHANGED <<clock, saves>>, proc' \in Procs, proc'.run.id = proc.run.id + 1
      PROVE  Keeps
  BY <1>1, <1>2, <1>5 DEF Page
<1>6. ASSUME UNCHANGED <<clock, proc>>, saves' \in SaveStates, Page'.active = 0,
             Page'.asked = 0, ~Page'.reloadNow, Page'.status = "none",
             saves'.sent.reload = saves.sent.reload
      PROVE  Keeps
  BY <1>1, <1>2, <1>6
<1>7. ASSUME UNCHANGED <<clock, proc, saves>> PROVE Keeps
  BY <1>1, <1>2, <1>7 DEF Page
<1> HIDE DEF Steps
<1>8. CASE \E mode \in ReloadModes : SaveConfig(mode)
  <2>0. PICK mode \in ReloadModes : SaveConfig(mode)
    BY <1>8, Zenon
  <2>1. PICK reload \in BOOLEAN, restart \in BOOLEAN :
          LET reloads == ToPatchReloadQuery(mode)
              file == [proc EXCEPT !.unloaded = @ \/ reload, !.deferred = @ \/ restart]
          IN  /\ proc' = IF reloads THEN AcceptReload(file) ELSE file
              /\ saves' = [page |-> [Page EXCEPT !.result = NoResult, !.active = 0,
                                                 !.status = "none"],
                           sent |-> [known |-> TRUE, reloadRequired |-> reload,
                                     restartRequired |-> restart,
                                     reload |-> IF reloads THEN proc'.run.id ELSE 0],
                           mine |-> TRUE, done |-> saves.done + 1]
              /\ clock' = clock
    BY <2>0, Zenon DEF SaveConfig
  <2> DEFINE a == proc.unloaded \/ reload
             b == proc.deferred \/ restart
             file == [proc EXCEPT !.unloaded = a, !.deferred = b]
             page == [Page EXCEPT !.result = NoResult, !.active = 0, !.status = "none"]
             n == IF ToPatchReloadQuery(mode) THEN proc'.run.id ELSE 0
             sent == [known |-> TRUE, reloadRequired |-> reload,
                      restartRequired |-> restart, reload |-> n]
             done == saves.done + 1
  <2>2. /\ proc' = IF ToPatchReloadQuery(mode) THEN AcceptReload(file) ELSE file
        /\ saves' = [page |-> page, sent |-> sent, mine |-> TRUE, done |-> done]
        /\ clock' = clock
    BY <2>1
  <2>3. a \in BOOLEAN /\ b \in BOOLEAN /\ done \in Nat
    BY <1>1 DEF SaveStates
  <2> HIDE DEF a, b, done
  <2>4. file \in Procs /\ file.run = proc.run
    BY <1>1, <2>3 DEF Procs
  <2> HIDE DEF file
  <2>5. /\ proc' \in Procs /\ proc'.run.id \in Nat
        /\ \/ ToPatchReloadQuery(mode) /\ proc'.run.id = proc.run.id + 1
           \/ ~ToPatchReloadQuery(mode) /\ proc'.run.id = proc.run.id
    BY <1>1, <2>2, <2>4, AcceptNumbers
  <2>6. /\ page \in ConfigPages /\ page.active = 0 /\ page.asked = Page.asked
        /\ page.status = "none" /\ page.reloadNow = Page.reloadNow
    BY <1>1 DEF ConfigPages, NoResult, Results
  <2> HIDE DEF page
  <2>7. n \in Nat /\ (n = 0 \/ n = proc.run.id + 1) /\ n <= proc'.run.id
    BY <1>1, <2>5
  <2> HIDE DEF n
  <2>8. sent \in Results /\ sent.reload = n
    BY <2>7 DEF Results
  <2> HIDE DEF sent
  <2>9. /\ saves' \in SaveStates /\ Page' = page /\ saves'.sent = sent
    BY <2>2, <2>3, <2>6, <2>8 DEF SaveStates, Page
  <2>10. Keeps
    BY <1>1, <1>2, <2>2, <2>5, <2>6, <2>7, <2>8, <2>9 DEF Steps
  <2> QED
    BY <2>10, <1>3
<1>9. CASE ConfigSaveAnswered
  <2> DEFINE r == saves.sent
             p == IF saves.mine THEN NoticeShown(Page, r) ELSE Page
  <2>1. /\ saves' = [saves EXCEPT !.sent = NoResult, !.mine = FALSE, !.page = p]
        /\ clock' = clock /\ proc' = proc
    BY <1>9 DEF ConfigSaveAnswered, Page
  <2>2. /\ NoResult \in Results /\ NoResult.reload = 0
    BY DEF NoResult, Results
  <2>3. NoticeShown(Page, r) \in ConfigPages
    <3> DEFINE q == IF Page.active = r.reload THEN Page.status ELSE "none"
    <3>1. q \in ReloadStates \cup {"none"}
      BY <1>1 DEF ConfigPages
    <3> HIDE DEF q
    <3>2. NoticeShown(Page, r) = IF r.reload = 0 THEN [Page EXCEPT !.result = r]
            ELSE [Page EXCEPT !.result = r, !.active = r.reload, !.status = q]
      BY DEF NoticeShown, q
    <3> QED
      BY <1>1, <3>1, <3>2 DEF ConfigPages
  <2>4. /\ p \in ConfigPages /\ p.asked = Page.asked /\ p.reloadNow = Page.reloadNow
        /\ \/ p.active = Page.active /\ p.status = Page.status
           \/ p.active = r.reload /\ p.status = "none"
    BY <1>1, <2>3 DEF NoticeShown, ConfigPages
  <2> HIDE DEF p, r
  <2>5. saves' \in SaveStates /\ Page' = p /\ saves'.sent = NoResult
    BY <1>1, <2>1, <2>2, <2>4 DEF SaveStates, Page
  <2>6. r = saves.sent
    BY DEF r
  <2>7. Keeps
    BY <1>1, <1>2, <2>1, <2>2, <2>4, <2>5, <2>6 DEF Steps
  <2> QED
    BY <2>7, <1>3
<1>10. CASE ReloadNow
  <2> DEFINE i == proc'.run.id
             p == [Page EXCEPT !.reloadNow = TRUE, !.asked = i]
  <2>1. /\ proc' = AcceptReload(proc) /\ saves' = [saves EXCEPT !.page = p]
        /\ clock' = clock
    BY <1>10 DEF ReloadNow, PageSays
  <2>2. proc' \in Procs /\ i = proc.run.id + 1 /\ i \in Nat
    BY <1>1, <2>1, AcceptNumbers
  <2> HIDE DEF i
  <2>3. /\ p \in ConfigPages /\ p.asked = i /\ p.active = Page.active
        /\ p.status = Page.status
    BY <1>1, <2>2 DEF ConfigPages
  <2> HIDE DEF p
  <2>4. saves' \in SaveStates /\ Page' = p /\ saves'.sent = saves.sent
    BY <1>1, <2>1, <2>3 DEF SaveStates, Page
  <2>5. Keeps
    BY <1>1, <1>2, <2>1, <2>2, <2>3, <2>4 DEF i
  <2> QED
    BY <2>5, <1>3
<1>11. CASE ReloadAccepted
  <2> DEFINE p == [Page EXCEPT !.reloadNow = FALSE, !.active = Page.asked, !.status = "none"]
  <2>1. saves' = [saves EXCEPT !.page = p] /\ clock' = clock /\ proc' = proc
    BY <1>11 DEF ReloadAccepted, PageSays
  <2>2. /\ p \in ConfigPages /\ p.asked = Page.asked /\ p.active = Page.asked
        /\ p.status = "none" /\ ~p.reloadNow
    BY <1>1 DEF ConfigPages
  <2> HIDE DEF p
  <2>3. saves' \in SaveStates /\ Page' = p /\ saves'.sent = saves.sent
    BY <1>1, <2>1, <2>2 DEF SaveStates, Page
  <2>4. Keeps
    BY <1>1, <1>2, <2>1, <2>2, <2>3 DEF Steps
  <2> QED
    BY <2>4, <1>3
<1>12. CASE Restart
  <2> DEFINE r == [id |-> proc.run.id, state |-> "failed"]
             n == proc.served + 1
  <2>1. /\ proc' = [proc EXCEPT !.start = clock, !.reloadedAt = -1, !.run = r,
                                !.unloaded = FALSE, !.deferred = FALSE, !.served = n]
        /\ UNCHANGED <<clock, saves>>
    BY <1>12 DEF Restart, Started
  <2>2. /\ r \in [id : Nat, state : ReloadStates] /\ n \in Nat /\ -1 \in Int
        /\ r.id = proc.run.id /\ r.state \notin ReloadSteps
    BY <1>1 DEF Procs, ReloadStates, ReloadSteps
  <2> HIDE DEF r, n
  <2>3. proc' \in Procs /\ proc'.run = r
    BY <1>1, <2>1, <2>2 DEF Procs
  <2> QED
    BY <1>3, <1>4, <2>1, <2>2, <2>3
<1>13. CASE ReloadByOther
  BY <1>1, <1>3, <1>5, <1>13, AcceptNumbers DEF ReloadByOther
<1>14. CASE ReloadMoves
  <2> DEFINE i == ReloadStepInfo(proc.run.state).index
             next == RELOAD_STEPS[i + 1]
             u == proc.unloaded /\ next # "succeeded"
             t == IF next = "succeeded" THEN clock ELSE proc.reloadedAt
             lost == IF i = 2 THEN "failed" ELSE "rolled_back"
  <2>1. /\ proc.run.state \in ReloadSteps /\ proc.run.state # "succeeded"
        /\ UNCHANGED <<clock, saves>>
        /\ \/ proc' = [proc EXCEPT !.run.state = next, !.unloaded = u, !.reloadedAt = t]
           \/ proc' = [proc EXCEPT !.run.state = lost]
    BY <1>1, <1>14 DEF ReloadMoves, IsTerminalReloadState, ReloadStates
  <2>2. i = StepNo(proc.run.state)
    BY <2>1, StepNumbers
  <2>3. /\ next \in ReloadSteps /\ StepNo(next) = StepNo(proc.run.state) + 1
        /\ lost \in {"failed", "rolled_back"}
    <3>1. /\ RELOAD_STEPS[2] = "preparing" /\ RELOAD_STEPS[3] = "activating"
          /\ RELOAD_STEPS[4] = "draining" /\ RELOAD_STEPS[5] = "succeeded"
      BY DEF RELOAD_STEPS
    <3> HIDE DEF i
    <3> QED
      BY <2>1, <2>2, <3>1 DEF StepNo, ReloadSteps
  <2>4. u \in BOOLEAN /\ t \in Int
    BY <1>1 DEF Procs
  <2> HIDE DEF i, next, u, t, lost
  <2>5. CASE proc' = [proc EXCEPT !.run.state = next, !.unloaded = u, !.reloadedAt = t]
    <3>1. proc' \in Procs /\ proc'.run.id = proc.run.id /\ proc'.run.state = next
      BY <1>1, <2>3, <2>4, <2>5 DEF Procs, ReloadStates
    <3>2. \A s \in ReloadSteps : StepNo(s) \in Nat
      BY StepNumbers
    <3>3. Page.active = proc.run.id => Steps(Page.status, next)
      BY <1>2, <2>1, <2>3, <3>2 DEF Steps, ReloadSteps
    <3>4. Keeps
      BY <1>1, <1>2, <2>1, <3>1, <3>3 DEF Page
    <3> QED
      BY <3>4, <1>3
  <2>6. CASE proc' = [proc EXCEPT !.run.state = lost]
    <3>1. /\ proc' \in Procs /\ proc'.run.id = proc.run.id
          /\ proc'.run.state \notin ReloadSteps
      BY <1>1, <2>3, <2>6 DEF Procs, ReloadStates, ReloadSteps
    <3> QED
      BY <1>3, <1>4, <2>1, <3>1
  <2> QED
    BY <2>1, <2>5, <2>6
<1>15. CASE PollReload
  <2> DEFINE p == [Page EXCEPT !.status = proc.run.state]
  <2>1. saves' = [saves EXCEPT !.page = p] /\ clock' = clock /\ proc' = proc
    BY <1>15 DEF PollReload, PageSays
  <2>2. /\ p \in ConfigPages /\ p.asked = Page.asked /\ p.active = Page.active
        /\ p.status = proc.run.state /\ p.reloadNow = Page.reloadNow
    BY <1>1 DEF ConfigPages
  <2> HIDE DEF p
  <2>3. saves' \in SaveStates /\ Page' = p /\ saves'.sent = saves.sent
    BY <1>1, <2>1, <2>2 DEF SaveStates, Page
  <2>4. Steps(proc.run.state, proc.run.state)
    BY StepNumbers DEF Steps
  <2>5. Keeps
    BY <1>1, <1>2, <2>1, <2>2, <2>3, <2>4
  <2> QED
    BY <2>5, <1>3
<1>16. CASE OpenOverview \/ OpenConfig
  <2>1. /\ ConfigPageMounted \in ConfigPages /\ ConfigPageMounted.active = 0
        /\ ConfigPageMounted.asked = 0 /\ ~ConfigPageMounted.reloadNow
        /\ ConfigPageMounted.status = "none"
    BY DEF ConfigPageMounted, ConfigPages, NoResult, Results
  <2> DEFINE p == [ConfigPageMounted EXCEPT !.open = FALSE]
  <2>2. /\ p \in ConfigPages /\ p.active = 0 /\ p.asked = 0 /\ ~p.reloadNow
        /\ p.status = "none"
    BY <2>1 DEF ConfigPages
  <2>3. /\ clock' = clock /\ proc' = proc
        /\ \/ saves' = [saves EXCEPT !.page = p, !.mine = FALSE]
           \/ saves' = [saves EXCEPT !.page = ConfigPageMounted]
    BY <1>16 DEF OpenOverview, OpenConfig, PageSays
  <2> HIDE DEF p
  <2>4. /\ saves' \in SaveStates /\ saves'.sent = saves.sent
        /\ Page' = p \/ Page' = ConfigPageMounted
    BY <1>1, <2>1, <2>2, <2>3 DEF SaveStates, Page
  <2>5. Keeps
    BY <1>6, <2>1, <2>2, <2>3, <2>4
  <2> QED
    BY <2>5, <1>3
<1>17. CASE StatsArrive \/ HeroRenders
  BY <1>3, <1>7, <1>17 DEF StatsArrive, HeroRenders
<1>18. CASE ClockMoves
  <2>1. clock' \in Nat /\ UNCHANGED <<proc, saves>>
    BY <1>1, <1>18 DEF ClockMoves
  <2>2. Keeps
    BY <1>1, <1>2, <2>1 DEF Page
  <2> QED
    BY <2>2, <1>3
<1> QED
  BY <1>8, <1>9, <1>10, <1>11, <1>12, <1>13, <1>14, <1>15, <1>16, <1>17, <1>18 DEF ReloadNext

\* A poll shows a later state of the same reload; any other step that changes
\* the status changes the reload it is of, or leaves the page.
LEMMA StepperForward == ReloadInv /\ ReloadNext => StepperMovesForward
<1> SUFFICES ASSUME ReloadInv, ReloadNext, Page.open, Page'.open,
                    Page'.active = Page.active, Page.active > 0,
                    Page.status # Page'.status,
                    ReloadStepper(Page.status).shows # "skeleton"
             PROVE  /\ ReloadStepper(Page'.status).shows # "skeleton"
                    /\ ReloadStepper(Page.status).shows = "error" =>
                         ReloadStepper(Page'.status) = ReloadStepper(Page.status)
                    /\ /\ ReloadStepper(Page.status).shows = "steps"
                       /\ ReloadStepper(Page'.status).shows = "steps"
                       => ReloadStepper(Page'.status).steps.caption
                            >= ReloadStepper(Page.status).steps.caption
  BY DEF StepperMovesForward
<1>1. /\ saves \in SaveStates /\ Page \in ConfigPages /\ Page.active \in Nat
      /\ Page.status \in ReloadStates \cup {"none"} /\ proc \in Procs
      /\ proc.run.state \in ReloadStates
      /\ Page.reloadNow => Page.asked # Page.active
      /\ /\ Page.status \in {"accepted", "preparing", "activating", "draining"}
         /\ Page.active = proc.run.id /\ proc.run.state \in ReloadSteps
         => StepNo(Page.status) <= StepNo(proc.run.state)
  BY DEF ReloadInv, SaveStates, ConfigPages, Procs, Page
<1>2. ~\E mode \in ReloadModes : SaveConfig(mode)
  <2> SUFFICES ASSUME NEW mode \in ReloadModes, SaveConfig(mode) PROVE FALSE
    OBVIOUS
  <2> DEFINE p == [Page EXCEPT !.result = NoResult, !.active = 0, !.status = "none"]
  <2>1. saves'.page = p
    BY DEF SaveConfig
  <2>2. p.active = 0
    BY <1>1 DEF ConfigPages
  <2> QED
    BY <2>1, <2>2 DEF Page
<1>3. ~ConfigSaveAnswered
  <2> SUFFICES ASSUME ConfigSaveAnswered PROVE FALSE
    OBVIOUS
  <2> DEFINE r == saves.sent
             p == IF saves.mine THEN NoticeShown(Page, r) ELSE Page
  <2>1. saves' = [saves EXCEPT !.sent = NoResult, !.mine = FALSE, !.page = p]
    BY DEF ConfigSaveAnswered, Page
  <2>2. p.active = Page.active => p.status = Page.status
    BY <1>1 DEF NoticeShown, ConfigPages
  <2> HIDE DEF p
  <2>3. Page' = p
    BY <1>1, <2>1 DEF SaveStates, Page
  <2> QED
    BY <2>2, <2>3
<1>4. ~ReloadNow
  <2> SUFFICES ASSUME ReloadNow PROVE FALSE
    OBVIOUS
  <2> DEFINE p == [Page EXCEPT !.reloadNow = TRUE, !.asked = proc'.run.id]
  <2>1. saves' = [saves EXCEPT !.page = p]
    BY DEF ReloadNow, PageSays
  <2>2. p.status = Page.status
    BY <1>1 DEF ConfigPages
  <2> HIDE DEF p
  <2> QED
    BY <1>1, <2>1, <2>2 DEF SaveStates, Page
<1>5. ~ReloadAccepted
  <2> SUFFICES ASSUME ReloadAccepted PROVE FALSE
    OBVIOUS
  <2> DEFINE p == [Page EXCEPT !.reloadNow = FALSE, !.active = Page.asked, !.status = "none"]
  <2>1. saves' = [saves EXCEPT !.page = p] /\ Page.reloadNow
    BY DEF ReloadAccepted, PageSays
  <2>2. p.active = Page.asked
    BY <1>1 DEF ConfigPages
  <2> HIDE DEF p
  <2>3. Page' = p
    BY <1>1, <2>1 DEF SaveStates, Page
  <2> QED
    BY <1>1, <2>1, <2>2, <2>3
<1>6. ~OpenOverview /\ ~OpenConfig
  <2>1. ASSUME OpenOverview PROVE FALSE
    <3> DEFINE p == [ConfigPageMounted EXCEPT !.open = FALSE]
    <3>1. saves' = [saves EXCEPT !.page = p, !.mine = FALSE]
      BY <2>1 DEF OpenOverview
    <3>2. ~p.open
      BY DEF ConfigPageMounted
    <3> HIDE DEF p
    <3> QED
      BY <1>1, <3>1, <3>2 DEF SaveStates, Page
  <2>2. ASSUME OpenConfig PROVE FALSE
    <3>1. saves' = [saves EXCEPT !.page = ConfigPageMounted]
      BY <2>2 DEF OpenConfig, PageSays
    <3>2. ConfigPageMounted.active = 0
      BY DEF ConfigPageMounted
    <3> QED
      BY <1>1, <3>1, <3>2 DEF SaveStates, Page
  <2> QED
    BY <2>1, <2>2
<1>7. PollReload
  BY <1>2, <1>3, <1>4, <1>5, <1>6
     DEF ReloadNext, Restart, ReloadByOther, ReloadMoves, StatsArrive, HeroRenders,
         ClockMoves, Page
<1>8. /\ Page.active = proc.run.id /\ Page'.status = proc.run.state
      /\ Page.status # "none" => ~IsTerminalReloadState(Page.status)
  <2> DEFINE p == [Page EXCEPT !.status = proc.run.state]
  <2>1. saves' = [saves EXCEPT !.page = p]
    BY <1>7 DEF PollReload, PageSays
  <2>2. p.status = proc.run.state
    BY <1>1 DEF ConfigPages
  <2> HIDE DEF p
  <2>3. Page' = p
    BY <1>1, <2>1 DEF SaveStates, Page
  <2> QED
    BY <1>7, <2>2, <2>3 DEF PollReload
<1>9. Page.status # "none"
  BY StepperShows
<1>10. Page.status \in {"accepted", "preparing", "activating", "draining"}
  BY <1>1, <1>8, <1>9 DEF IsTerminalReloadState, ReloadStates, ReloadSteps
<1>11. /\ ReloadStepper(Page.status).shows = "steps"
       /\ ReloadStepper(Page.status).steps.caption = StepNo(Page.status)
  BY <1>10, StepperShows DEF ReloadSteps
<1>12. CASE proc.run.state \in ReloadSteps
  <2>1. /\ ReloadStepper(Page'.status).shows = "steps"
        /\ ReloadStepper(Page'.status).steps.caption = StepNo(proc.run.state)
    BY <1>8, <1>12, StepperShows
  <2>2. StepNo(Page.status) <= StepNo(proc.run.state)
    BY <1>1, <1>8, <1>10, <1>12
  <2>3. StepNo(Page.status) \in Nat /\ StepNo(proc.run.state) \in Nat
    BY <1>10, <1>12, StepNumbers DEF ReloadSteps
  <2> QED
    BY <1>11, <2>1, <2>2, <2>3
<1>13. CASE proc.run.state \in {"rolled_back", "failed"}
  <2>1. ReloadStepper(Page'.status).shows = "error"
    BY <1>8, <1>13, StepperShows
  <2> QED
    BY <1>11, <2>1
<1> QED
  BY <1>1, <1>12, <1>13 DEF ReloadStates

\* The page opens before any reload.
LEMMA ReloadInvInit == ReloadInit => ReloadInv
<1> SUFFICES ASSUME ReloadInit PROVE ReloadInv
  OBVIOUS
<1>1. /\ clock \in Nat /\ proc \in Procs /\ proc.run.id = 0
  <2>1. PICK s \in {0, 7} :
          proc = [start |-> s, reloadedAt |-> -1, run |-> NoReload, unloaded |-> FALSE,
                  deferred |-> FALSE, served |-> 0]
    BY DEF ReloadInit
  <2>2. /\ NoReload \in [id : Nat, state : ReloadStates] /\ NoReload.id = 0
        /\ -1 \in Int /\ s \in Nat /\ clock \in Nat
    BY DEF ReloadInit, NoReload, ReloadStates, ReloadSteps
  <2> QED
    BY <2>1, <2>2 DEF Procs
<1>2. /\ NoResult \in Results /\ NoResult.reload = 0
      /\ ConfigPageMounted \in ConfigPages /\ ConfigPageMounted.active = 0
      /\ ConfigPageMounted.asked = 0 /\ ~ConfigPageMounted.reloadNow
      /\ ConfigPageMounted.status = "none"
  BY DEF ConfigPageMounted, ConfigPages, NoResult, Results
<1>3. saves = [page |-> ConfigPageMounted, sent |-> NoResult, mine |-> FALSE, done |-> 0]
  BY DEF ReloadInit
<1>4. saves \in SaveStates /\ Page = ConfigPageMounted /\ saves.sent = NoResult
  BY <1>2, <1>3 DEF SaveStates, Page
<1> QED
  BY <1>1, <1>2, <1>4 DEF ReloadInv

\* The invariant is one of the console.
LEMMA ReloadsHold == ConsoleSpec => [](On("reload") => ReloadInv)
<1> DEFINE I == On("reload") => ReloadInv
<1>1. Init => I
  BY ReloadInvInit DEF Init, On
<1>2. I /\ [Next]_consoleVars => I'
  <2> SUFFICES ASSUME I, [Next]_consoleVars PROVE I'
    OBVIOUS
  <2>1. CASE Next
    BY <2>1, OnePage, ReloadInvStep DEF On
  <2>2. CASE UNCHANGED consoleVars
    BY <2>2 DEF consoleVars, operationVars, reloadVars, On, ReloadInv, Page
  <2> QED
    BY <2>1, <2>2
<1> QED
  BY <1>1, <1>2, PTL DEF ConsoleSpec

(***************************************************************************)
(* Neither the run on the updates page nor the stepper of a configuration   *)
(* reload ever steps back, whichever of the stream, the polls, the restart  *)
(* watch and the answers to a save comes last, and whatever runs of the     *)
(* other target and notices of auto-update's checks put into the stream's   *)
(* one slot, with the exceptions that RunNeverGoesBack names                *)
(* (selectUpdateRun, useReloadPolling).                                     *)
(***************************************************************************)
THEOREM RunsOnlyMoveForward == ConsoleSpec => RunsMoveForward
<1> DEFINE A == /\ On("updates") => RunNeverGoesBack
                /\ On("reload") => StepperMovesForward
<1>1. (On("updates") => UpdInv) /\ (On("reload") => ReloadInv) /\ [Next]_consoleVars
      => [A]_consoleVars
  <2> SUFFICES ASSUME On("updates") => UpdInv, On("reload") => ReloadInv, Next PROVE A
    OBVIOUS
  <2> QED
    BY OnePage, RunMovesForward, StepperForward
<1> QED
  BY <1>1, UpdatesHold, ReloadsHold, PTL DEF ConsoleSpec, RunsMoveForward

(***************************************************************************)
(* The geography's totals, selection and people are of one snapshot; the    *)
(* rows of its list are too, or are placeholders of an earlier snapshot of  *)
(* the same scope that cannot be picked; it shows nothing of a snapshot the *)
(* panel has refused and asks for nothing of it; and the map never jumps    *)
(* under the hand, for any number of snapshots, clicks and moves            *)
(* (useGeography, LocationList, LocationInspector, VectorMap).  Proved from *)
(* GeoInv and MapInv of GeographyProofs.                                    *)
(***************************************************************************)
THEOREM GeographyStaysCurrent == ConsoleSpec => []GeographyIsCurrent
<1> DEFINE I == /\ On("geography") => GeoInv
                /\ On("map") => MapInv
<1>1. Init => I
  BY GeoInvInit, MapInvInit DEF Init, On
<1>2. I /\ [Next]_consoleVars => I'
  <2> SUFFICES ASSUME I, [Next]_consoleVars PROVE I'
    OBVIOUS
  <2>1. CASE Next
    BY <2>1, OnePage, GeoInvStep, MapInvStep DEF On
  <2>2. CASE UNCHANGED consoleVars
    BY <2>2 DEF consoleVars, geographyVars, geoVars, chartVars, On, GeoInv, MapInv
  <2> QED
    BY <2>1, <2>2
<1>3. I => GeographyIsCurrent
  BY GeoIsCurrent, MapIsSmooth DEF GeographyIsCurrent
<1> QED
  BY <1>1, <1>2, <1>3, PTL DEF ConsoleSpec

-----------------------------------------------------------------------------
(***************************************************************************)
(* The storage section: the draft covers the list until one read after the  *)
(* save has arrived.                                                        *)
(***************************************************************************)
\* The storage section and the stored policies, whatever their values.
StoredDocs == [doc : Nat, rev : Int]
StorageForms ==
    [data : StoredDocs, draft : Nat, pending : Nat, sent : Nat,
     phase : {"idle", "sent", "landed", "refetch", "refetching"},
     get : StoredDocs, error : BOOLEAN, saved : Nat, off : BOOLEAN]

\* The inductive invariant of the storage section: the draft stays from the
\* first edit until a list read after the save; a read that may replace the
\* list while nothing covers it was asked for after the save.
StorageInv ==
    section = "storage" =>
        /\ stored \in StoredDocs /\ setForm \in StorageForms
        /\ setForm.saved <= stored.rev
        /\ setForm.draft = 0 =>
             /\ setForm.phase = "idle" /\ setForm.pending = 0
             /\ setForm.error \/ setForm.data.rev >= setForm.saved
             /\ setForm.get = NoDoc \/ setForm.get.rev >= setForm.saved
        /\ setForm.phase \in {"refetch", "refetching"} => setForm.pending = 0
        /\ setForm.phase = "refetching" => setForm.get.rev >= setForm.saved

\* Every section starts from what is stored.
LEMMA StorageInvInit == SettingsInit => StorageInv
<1> SUFFICES ASSUME SettingsInit, section = "storage"
             PROVE  StorageInv
  BY DEF StorageInv
<1>1. SettingsStart(section) = [stored |-> FirstDoc, setForm |-> FormMounted]
  BY DEF SettingsStart, FormSections
<1>2. stored = FirstDoc /\ setForm = FormMounted
  BY <1>1 DEF SettingsInit
<1>3. FirstDoc \in StoredDocs /\ FirstDoc.rev = 0 /\ NoDoc \in StoredDocs
  BY DEF FirstDoc, NoDoc, StoredDocs
<1> QED
  BY <1>2, <1>3 DEF StorageInv, FormMounted, StorageForms

\* The admin's clicks, the answers to a save and the reads, in any order.
LEMMA StorageInvStep == StorageInv /\ SettingsNext => StorageInv'
<1> SUFFICES ASSUME StorageInv, SettingsNext, section' = "storage"
             PROVE  StorageInv'
  BY DEF StorageInv
<1>1. section = "storage"
  BY DEF SettingsNext, SetFormNext, AccessNext, SessionsNext, ServiceNext,
         OtherSaves, EditDoc, ResetDoc, SaveDoc, DisableGeoip, ConfirmReduction, CancelReduction,
         SaveLands, SaveAnswered, SaveRefused, DocAsked, DocInvalidated, DocArrives,
         DocFails, EditAccess, OnPrepare, EditSettings, OnApply, OnRestart,
         AccessRefetched, OtherAccess, CloseAccess, PrepareAnswered, PutAccessAnswered,
         PanelRestarts, RestartAnswered, SelectSession, CloseSessionSheet,
         RevokeSession, AskRevoke, RevokeAnswered, ServiceMoves, ServiceAsked,
         CancelCommand, SendCommand, ServiceArrives, CommandAnswered, ChooseCommand,
         SetSpend, SetFree
<1>2. SetFormNext
  BY <1>1 DEF SettingsNext, AccessNext, SessionsNext, ServiceNext, In,
         EditAccess, OnPrepare, EditSettings, OnApply, OnRestart,
         AccessRefetched, OtherAccess, CloseAccess, PrepareAnswered, PutAccessAnswered,
         PanelRestarts, RestartAnswered, SelectSession, CloseSessionSheet,
         RevokeSession, AskRevoke, RevokeAnswered, ServiceMoves, ServiceAsked,
         CancelCommand, SendCommand, ServiceArrives, CommandAnswered, ChooseCommand
<1>0. NoDoc \in StoredDocs /\ NoDoc.rev < 0
  BY DEF NoDoc, StoredDocs
<1> USE <1>0, <1>1 DEF StorageInv, StoredDocs, StorageForms, SetDocs
<1>3. ASSUME NEW doc \in SetDocs, OtherSaves(doc) PROVE StorageInv'
  BY <1>3 DEF OtherSaves, SetSpend
<1>4. ASSUME NEW doc \in SetDocs, EditDoc(doc) PROVE StorageInv'
  BY <1>4, SettingsPageAssumption DEF EditDoc, SetSpend, FormEnabled
<1>5. CASE ResetDoc
  BY <1>5 DEF ResetDoc, In
<1>6. CASE SaveDoc
  <2>1. /\ setForm.draft # 0 /\ ShownDoc(setForm) = setForm.draft
        /\ setForm.phase = "idle"
    BY <1>6 DEF SaveDoc, Changed, ShownDoc, FormEnabled
  <2>2. CASE setForm' = [setForm EXCEPT !.pending = setForm.draft]
    BY <1>6, <2>1, <2>2 DEF SaveDoc, SetSpend
  <2>3. CASE setForm' = [setForm EXCEPT !.phase = "sent", !.sent = setForm.draft]
    BY <1>6, <2>1, <2>3 DEF SaveDoc, SetSpend
  <2> QED
    BY <1>6, <2>1, <2>2, <2>3 DEF SaveDoc, Send
<1>7. CASE ConfirmReduction
  BY <1>7 DEF ConfirmReduction, SetSpend, Send
<1>16. CASE DisableGeoip
  BY <1>16 DEF DisableGeoip, In
<1>8. CASE CancelReduction
  BY <1>8 DEF CancelReduction, SetSpend
<1>9. CASE SaveLands
  <2> DEFINE n == stored.rev + 1
  <2>1. n \in Nat
    OBVIOUS
  <2>2. /\ setForm.phase = "sent" /\ stored' = [doc |-> setForm.sent, rev |-> n]
        /\ setForm' = [setForm EXCEPT !.phase = "landed", !.saved = n]
    BY <1>9 DEF SaveLands
  <2> HIDE DEF n
  <2>3. stored' \in StoredDocs /\ stored'.rev = n
    BY <2>1, <2>2
  <2>4. /\ setForm' \in StorageForms /\ setForm'.phase = "landed"
        /\ setForm'.saved = n /\ setForm'.draft = setForm.draft /\ setForm.draft # 0
    BY <2>1, <2>2
  <2> QED
    BY <2>1, <2>3, <2>4
<1>10. CASE SaveAnswered
  BY <1>10 DEF SaveAnswered, SetFree, StorageSaved
<1>11. CASE SaveRefused
  BY <1>11 DEF SaveRefused, SetSpend
<1>12. CASE DocAsked
  BY <1>12 DEF DocAsked, SetSpend
<1>13. CASE DocInvalidated
  BY <1>13 DEF DocInvalidated, SetFree
<1>14. CASE DocArrives
  <2> DEFINE y == [setForm EXCEPT !.data = setForm.get, !.get = NoDoc, !.error = FALSE]
  <2>1. /\ y \in StorageForms /\ y.data = setForm.get /\ y.get = NoDoc
        /\ y.draft = setForm.draft /\ y.phase = setForm.phase
        /\ y.pending = setForm.pending /\ y.saved = setForm.saved
    OBVIOUS
  <2>2. setForm.get # NoDoc /\ setForm' = AfterFetch(y) /\ stored' = stored
    BY <1>14 DEF DocArrives
  <2> HIDE DEF y
  <2>3. CASE y.phase = "refetching"
    <3>1. setForm' = [y EXCEPT !.phase = "idle", !.draft = 0, !.sent = 0]
      BY <2>2, <2>3 DEF AfterFetch
    <3>2. setForm.draft # 0 /\ setForm.get.rev >= setForm.saved
      BY <2>1, <2>3
    <3> QED
      BY <2>1, <2>2, <2>3, <3>1, <3>2
  <2>4. CASE y.phase # "refetching"
    <3>1. setForm' = y
      BY <2>2, <2>4 DEF AfterFetch
    <3> QED
      BY <2>1, <2>2, <2>4, <3>1
  <2> QED
    BY <2>3, <2>4
<1>15. CASE DocFails
  <2> DEFINE y == [setForm EXCEPT !.get = NoDoc, !.error = TRUE]
  <2>1. /\ y \in StorageForms /\ y.data = setForm.data /\ y.get = NoDoc
        /\ y.draft = setForm.draft /\ y.phase = setForm.phase /\ y.error
        /\ y.pending = setForm.pending /\ y.saved = setForm.saved
    OBVIOUS
  <2>2. setForm.get # NoDoc /\ setForm' = AfterFetch(y) /\ stored' = stored
    BY <1>15 DEF DocFails
  <2> HIDE DEF y
  <2>3. CASE y.phase = "refetching"
    <3>1. setForm' = [y EXCEPT !.phase = "idle", !.draft = 0, !.sent = 0]
      BY <2>2, <2>3 DEF AfterFetch
    <3> QED
      BY <2>1, <2>2, <2>3, <3>1
  <2>4. CASE y.phase # "refetching"
    <3>1. setForm' = y
      BY <2>2, <2>4 DEF AfterFetch
    <3>2. setForm.phase = "refetching" => FALSE
      BY <2>1, <2>4
    <3> QED
      BY <2>1, <2>2, <2>4, <3>1, <3>2
  <2> QED
    BY <2>3, <2>4
<1> QED
  BY <1>2, <1>3, <1>4, <1>5, <1>6, <1>7, <1>8, <1>9, <1>10, <1>11, <1>12, <1>13,
     <1>14, <1>15, <1>16 DEF SetFormNext

-----------------------------------------------------------------------------
(***************************************************************************)
(* The bulk reset: a token is tracked before its request leaves, and        *)
(* forgotten only when the panel has refused it.                            *)
(***************************************************************************)
\* The panel's manager and the page, whatever their values.
Managers ==
    [token : Nat, issued : Nat, op : Nat, running : BOOLEAN, inbox : SUBSET Nat,
     answers : SUBSET [token : Nat, ok : BOOLEAN]]
BulkViews ==
    [screen : {"closed", "menu", "prepare", "result"}, tracked : Nat, previous : Nat,
     prepare : {"idle", "pending", "error", "ready"}, token : Nat, agreed : BOOLEAN,
     start : {"idle", "pending", "error"}, job : Nat, jobRuns : BOOLEAN,
     lost : BOOLEAN, gone : BOOLEAN]

\* Every number the panel hands out is new, and none is used twice.
TokensAreFresh ==
    /\ world.token <= world.issued /\ world.op <= world.issued
    /\ \A t \in world.inbox : 0 < t /\ t <= world.issued
    /\ \A a \in world.answers : a.token <= world.issued
    /\ world.op \notin world.inbox

\* A confirmation on offer has not been used, and nothing runs while it is.
OfferIsUnused ==
    view.screen = "prepare" /\ view.prepare = "ready" =>
        /\ 0 < view.token /\ view.token <= world.issued
        /\ ~world.running /\ world.token \in {0, view.token}
        /\ view.token # world.op /\ view.token \notin world.inbox
        /\ \A a \in world.answers : a.token # view.token

\* A refused start is no longer under way and started nothing.
RefusedIsOver ==
    view.start = "pending" =>
        /\ ~view.gone /\ ~view.lost
        /\ [token |-> view.tracked, ok |-> FALSE] \in world.answers =>
             ~world.running /\ view.tracked \notin world.inbox

\* The inductive invariant of the bulk reset: what runs is tracked, and so is the
\* one request that could still start something.
BulkInv ==
    place = "bulk" =>
        /\ world \in Managers /\ view \in BulkViews
        /\ TokensAreFresh /\ OfferIsUnused /\ RefusedIsOver
        /\ world.running => view.tracked = world.op \/ view.gone
        /\ world.token \in world.inbox => view.tracked = world.token \/ view.gone

\* The page starts with nothing prepared.
LEMMA BulkInvInit == PeopleListInit => BulkInv
<1> SUFFICES ASSUME PeopleListInit, place = "bulk"
             PROVE  BulkInv
  BY DEF BulkInv
<1>1. world = ManagerIdle /\ view = BulkMounted(0)
  BY DEF PeopleListInit, ListStart
<1>2. /\ world \in Managers /\ world.token = 0 /\ world.issued = 0 /\ world.op = 0
      /\ ~world.running /\ world.inbox = {} /\ world.answers = {}
  BY <1>1 DEF ManagerIdle, Managers
<1>3. view \in BulkViews /\ view.screen = "closed" /\ view.start = "idle"
  BY <1>1 DEF BulkMounted, BulkViews
<1> QED
  BY <1>2, <1>3 DEF BulkInv, TokensAreFresh, OfferIsUnused, RefusedIsOver

\* Clicks, answers, losses, expiry and reloads of the page, in any order.
LEMMA BulkInvStep == BulkInv /\ PeopleListNext => BulkInv'
<1> SUFFICES ASSUME BulkInv, PeopleListNext, place' = "bulk"
             PROVE  BulkInv'
  BY DEF BulkInv
<1>1. place = "bulk"
  BY DEF PeopleListNext, BrowseNext, HistoryNext, BulkNext, ShareNext,
         UsersFrame, SetSearchValue, Swipe, OpenActions, OpenPerson, SetFilterValue,
         UpdateSort, CloseActions, BackToList, RestoreScroll, IpArrives, IpFails,
         IpNext, IpPrevious, IpRefresh, IpFilter, IpsObserved, IpPruned, IpSettled, OpenMenu, BeginPrepare,
         ResetPrepared, ConfirmationExpires, Agree, StartReset, StartLost,
         StartHandled, StartAnswered, OperationEnds, StatusRead, ShowCurrent,
         CloseBulk, ReloadPage, AskReissue, CancelReissue, Reissue, Reissued,
         ListSpend, ListFree
<1>2. BulkNext
  BY <1>1 DEF PeopleListNext, BrowseNext, HistoryNext, ShareNext,
         UsersFrame, SetSearchValue, Swipe, OpenActions, OpenPerson, SetFilterValue,
         UpdateSort, CloseActions, BackToList, RestoreScroll, IpArrives, IpFails,
         IpNext, IpPrevious, IpRefresh, IpFilter, IpsObserved, IpPruned, IpSettled, AskReissue, CancelReissue, Reissue,
         Reissued
<1> USE <1>1 DEF BulkInv, TokensAreFresh, OfferIsUnused, RefusedIsOver, Managers, BulkViews
<1>3. CASE OpenMenu
  BY <1>3 DEF OpenMenu
<1>4. CASE BeginPrepare
  BY <1>4 DEF BeginPrepare
<1>5. CASE ResetPrepared
  <2>1. CASE view' = [view EXCEPT !.prepare = "error"] /\ world' = world
    BY <2>1
  <2>2. CASE /\ ~world.running
             /\ world' = [world EXCEPT !.token = world.issued + 1, !.issued = @ + 1]
             /\ view' = [view EXCEPT !.prepare = "ready", !.token = world.issued + 1]
    <3> DEFINE n == world.issued + 1
    <3>0. n \in Nat /\ n = world.issued + 1 /\ world.issued \in Nat
      OBVIOUS
    <3> HIDE DEF n
    <3>8. /\ world' = [world EXCEPT !.token = n, !.issued = n]
          /\ view' = [view EXCEPT !.prepare = "ready", !.token = n]
      BY <2>2, <3>0
    <3>9. world \in Managers /\ ~world.running
      BY <2>2
    <3>10. world' \in Managers
      BY <3>0, <3>8, <3>9 DEF Managers
    <3>1. /\ world' \in Managers /\ world'.token = n
          /\ world'.issued = n /\ world'.op = world.op
          /\ ~world'.running /\ world'.inbox = world.inbox
          /\ world'.answers = world.answers
      BY <3>8, <3>9, <3>10 DEF Managers
    <3>2. /\ view' \in BulkViews /\ view'.token = n
          /\ view'.start = view.start /\ view'.tracked = view.tracked
          /\ view'.gone = view.gone /\ view'.lost = view.lost
      BY <3>0, <3>8
    <3>3. \A a \in world.answers : a.token \in Nat
      OBVIOUS
    <3>4. n \notin world.inbox
      BY <3>0
    <3>5. TokensAreFresh'
      BY <3>0, <3>1, <3>3, <3>4
    <3>6. OfferIsUnused'
      BY <3>0, <3>1, <3>2, <3>3, <3>4
    <3>7. RefusedIsOver'
      BY <3>1, <3>2
    <3> QED
      BY <3>1, <3>2, <3>4, <3>5, <3>6, <3>7
  <2> QED
    BY <1>5, <2>1, <2>2 DEF ResetPrepared
<1>6. CASE ConfirmationExpires
  BY <1>6 DEF ConfirmationExpires
<1>7. CASE Agree
  BY <1>7 DEF Agree
<1>8. CASE StartReset
  <2>1. /\ view.screen = "prepare" /\ view.prepare = "ready"
        /\ view' = [view EXCEPT !.start = "pending", !.previous = view.tracked,
                        !.tracked = view.token, !.screen = "result", !.gone = FALSE,
                        !.job = 0, !.jobRuns = FALSE, !.lost = FALSE]
        /\ world' = [world EXCEPT !.inbox = @ \union {view.token}]
    BY <1>8 DEF StartReset
  <2>2. /\ view' \in BulkViews /\ view'.tracked = view.token /\ ~view'.gone
        /\ ~view'.lost /\ view'.screen = "result"
    BY <2>1
  <2>3. /\ world' \in Managers /\ world'.token = world.token
        /\ world'.issued = world.issued /\ world'.op = world.op
        /\ world'.running = world.running /\ world'.answers = world.answers
        /\ world'.inbox = world.inbox \union {view.token}
    BY <2>1
  <2>4. /\ 0 < view.token /\ view.token <= world.issued
        /\ ~world.running /\ world.token \in {0, view.token}
        /\ view.token # world.op
        /\ \A a \in world.answers : a.token # view.token
    BY <2>1
  <2>5. TokensAreFresh'
    BY <2>3, <2>4
  <2>6. RefusedIsOver' /\ OfferIsUnused'
    BY <2>2, <2>3, <2>4
  <2> QED
    BY <2>2, <2>3, <2>4, <2>5, <2>6
<1>9. CASE StartLost
  BY <1>9 DEF StartLost, StartFailed
<1>10. ASSUME NEW t \in 1..MaxToken, StartHandled(t) PROVE BulkInv'
  <2> DEFINE ok == t = world.token /\ ~world.running
  <2> DEFINE answer == [token |-> t, ok |-> ok]
  <2>1. /\ t \in world.inbox /\ view' = view
        /\ world' = [world EXCEPT !.inbox = @ \ {t}, !.answers = @ \union {answer},
                        !.token = IF ok THEN 0 ELSE @, !.op = IF ok THEN t ELSE @,
                        !.running = @ \/ ok]
    BY <1>10 DEF StartHandled
  <2>2. answer \in [token : Nat, ok : BOOLEAN] /\ answer.token = t /\ answer.ok = ok
    BY <2>1
  <2> HIDE DEF answer
  <2>3. /\ world' \in Managers /\ world'.issued = world.issued
        /\ world'.inbox = world.inbox \ {t}
        /\ world'.answers = world.answers \union {answer}
        /\ world'.token = IF ok THEN 0 ELSE world.token
        /\ world'.op = IF ok THEN t ELSE world.op
        /\ world'.running = (world.running \/ ok)
    BY <2>1, <2>2
  <2>4. 0 < t /\ t <= world.issued /\ t # world.op
    BY <2>1
  <2>5. TokensAreFresh'
    BY <2>2, <2>3, <2>4
  <2>6. OfferIsUnused'
    BY <2>1, <2>2, <2>3, <2>4
  <2>7. RefusedIsOver'
    <3> SUFFICES ASSUME view.start = "pending",
                        [token |-> view.tracked, ok |-> FALSE] \in world'.answers
                 PROVE  ~world'.running /\ view.tracked \notin world'.inbox
      BY <2>1
    <3>1. ~view.gone /\ ~view.lost
      OBVIOUS
    <3>2. CASE [token |-> view.tracked, ok |-> FALSE] \in world.answers
      BY <2>1, <2>3, <3>1, <3>2
    <3>3. CASE [token |-> view.tracked, ok |-> FALSE] = answer
      <4>1. t = view.tracked /\ ~ok
        BY <2>2, <3>3
      <4>2. ~world.running
        BY <2>4, <3>1, <4>1
      <4> QED
        BY <2>3, <4>1, <4>2
    <3> QED
      BY <2>3, <3>2, <3>3
  <2> QED
    BY <2>1, <2>3, <2>4, <2>5, <2>6, <2>7
<1>11. ASSUME NEW a \in [token : 1..MaxToken, ok : BOOLEAN], StartAnswered(a)
       PROVE  BulkInv'
  BY <1>11 DEF StartAnswered, StartFailed
<1>12. CASE OperationEnds
  BY <1>12 DEF OperationEnds
<1>13. CASE StatusRead
  BY <1>13 DEF StatusRead
<1>14. CASE ShowCurrent
  BY <1>14 DEF ShowCurrent
<1>15. CASE CloseBulk
  BY <1>15 DEF CloseBulk
<1>16. CASE ReloadPage
  BY <1>16 DEF ReloadPage, BulkMounted
<1> QED
  BY <1>2, <1>3, <1>4, <1>5, <1>6, <1>7, <1>8, <1>9, <1>10, <1>11, <1>12, <1>13,
     <1>14, <1>15, <1>16 DEF BulkNext

(***************************************************************************)
(* Saved storage policies stay on screen, and a bulk reset that this page   *)
(* has started stays tracked while it runs, for any number of documents,    *)
(* confirmations, clicks and faults: refetches in flight around the save,   *)
(* lost and late answers, expired confirmations and reloads of the page     *)
(* (StorageSettings, BulkQuotaProvider).                                    *)
(***************************************************************************)
THEOREM DoneStaysShown == ConsoleSpec => []DoneIsShown
<1> DEFINE I == /\ On("settings") => StorageInv
                /\ On("people") => BulkInv
<1>1. Init => I
  BY StorageInvInit, BulkInvInit DEF Init, On
<1>2. I /\ [Next]_consoleVars => I'
  <2> SUFFICES ASSUME I, [Next]_consoleVars PROVE I'
    OBVIOUS
  <2>1. CASE Next
    BY <2>1, OnePage, StorageInvStep, BulkInvStep DEF On
  <2>2. CASE UNCHANGED consoleVars
    BY <2>2 DEF consoleVars, operationVars, setVars, peopleVars, listVars, On,
                StorageInv, BulkInv, TokensAreFresh, OfferIsUnused, RefusedIsOver
  <2> QED
    BY <2>1, <2>2
<1>3. I => DoneIsShown
  <2>1. StorageInv => SavedIsShown
    BY DEF StorageInv, SavedIsShown
  <2>2. BulkInv => StartedResetIsTracked
    BY DEF BulkInv, StartedResetIsTracked
  <2> QED
    BY <2>1, <2>2 DEF DoneIsShown
<1> QED
  BY <1>1, <1>2, <1>3, PTL DEF ConsoleSpec

-----------------------------------------------------------------------------
(***************************************************************************)
(* The settings forms.                                                     *)
(***************************************************************************)

\* What is in flight, unless it switches GeoIP off, or waits for its confirmation,
\* is the draft on screen.
FormsInv ==
    section \in FormSections =>
        /\ stored \in StoredDocs /\ stored.rev >= 0 /\ setForm \in StorageForms
        /\ setForm.phase # "idle" => setForm.draft = setForm.sent \/ setForm.off
        /\ setForm.off => section # "storage"
        /\ setForm.pending # 0 => setForm.pending = setForm.draft
        /\ section # "storage" \/ setForm.phase \in {"refetch", "refetching"} =>
             setForm.pending = 0

TlsStates ==
    [active : Nat, configured : Nat,
     state : {"idle", "saved", "restarting", "restart_failed"},
     required : BOOLEAN, prepared : Nat]
AccessForms ==
    [data : TlsStates, draft : Nat, prep : Int, kept : Int, asked : BOOLEAN,
     unconfirmed : BOOLEAN, phase : {"idle", "prepare", "apply", "restart"}, sent : Nat,
     error : BOOLEAN]

\* What is being checked, and what was, is what the admin typed.
AccessInv ==
    section = "access" =>
        /\ stored \in TlsStates /\ setForm \in AccessForms
        /\ setForm.phase = "prepare" /\ setForm.draft # 0 => setForm.sent = setForm.draft
        /\ setForm.prep >= -1
        /\ setForm.prep > 0 /\ setForm.draft # 0 => setForm.prep = setForm.draft

SettingsInv == FormsInv /\ AccessInv

\* Every section opens with nothing typed.
LEMMA SettingsInvInit == SettingsInit => SettingsInv
<1> SUFFICES ASSUME SettingsInit PROVE SettingsInv
  OBVIOUS
<1>1. FormsInv
  <2> SUFFICES ASSUME section \in FormSections PROVE FormsInv
    BY DEF FormsInv
  <2>1. SettingsStart(section) = [stored |-> FirstDoc, setForm |-> FormMounted]
    BY DEF SettingsStart, FormSections
  <2>2. stored = FirstDoc /\ setForm = FormMounted
    BY <2>1 DEF SettingsInit
  <2>3. FirstDoc \in StoredDocs /\ FirstDoc.rev = 0 /\ NoDoc \in StoredDocs
    BY DEF FirstDoc, NoDoc, StoredDocs
  <2> QED
    BY <2>2, <2>3 DEF FormsInv, FormMounted, StorageForms
<1>2. AccessInv
  <2> SUFFICES ASSUME section = "access" PROVE AccessInv
    BY DEF AccessInv
  <2>1. SettingsStart(section) = [stored |-> TlsIdle, setForm |-> AccessMounted(TlsIdle)]
    BY DEF SettingsStart, FormSections
  <2>2. stored = TlsIdle /\ setForm = AccessMounted(TlsIdle)
    BY <2>1 DEF SettingsInit
  <2>3. /\ TlsIdle \in TlsStates /\ TlsIdle.active = 1 /\ TlsIdle.configured = 0
        /\ TlsIdle.state = "idle" /\ ~TlsIdle.required
    BY DEF TlsIdle, TlsStates
  <2> QED
    BY <2>2, <2>3 DEF AccessInv, AccessMounted, AccessForms
<1> QED
  BY <1>1, <1>2 DEF SettingsInv

\* A section is open for good.
LEMMA SectionStays == SettingsNext => section' = section
BY DEF SettingsNext, SetFormNext, AccessNext, SessionsNext, ServiceNext,
       OtherSaves, EditDoc, ResetDoc, SaveDoc, DisableGeoip, ConfirmReduction, CancelReduction,
       SaveLands, SaveAnswered, SaveRefused, DocAsked, DocInvalidated, DocArrives,
       DocFails, EditAccess, OnPrepare, EditSettings, OnApply, OnRestart,
       AccessRefetched, OtherAccess, CloseAccess, PrepareAnswered, PutAccessAnswered,
       PanelRestarts, RestartAnswered, SelectSession, CloseSessionSheet,
       RevokeSession, AskRevoke, RevokeAnswered, ServiceMoves, ServiceAsked,
       CancelCommand, SendCommand, ServiceArrives, CommandAnswered, ChooseCommand,
       SetSpend, SetFree

\* The forms.
LEMMA FormsKeep ==
    ASSUME FormsInv, SettingsNext, section \in FormSections
    PROVE  /\ FormsInv'
           /\ \/ setForm'.draft = setForm.draft \/ EditDoc(setForm'.draft) \/ ResetDoc
              \/ setForm.phase # "idle" /\ (setForm.draft = setForm.sent \/ setForm.off)
<1> DEFINE Kept == \/ setForm'.draft = setForm.draft \/ EditDoc(setForm'.draft) \/ ResetDoc
                   \/ setForm.phase # "idle" /\ (setForm.draft = setForm.sent \/ setForm.off)
<1> SUFFICES FormsInv' /\ Kept
  OBVIOUS
<1>1. SetFormNext
  BY DEF FormSections, SettingsNext, AccessNext, SessionsNext, ServiceNext, In,
         EditAccess, OnPrepare, EditSettings, OnApply, OnRestart,
         AccessRefetched, OtherAccess, CloseAccess, PrepareAnswered, PutAccessAnswered,
         PanelRestarts, RestartAnswered, SelectSession, CloseSessionSheet,
         RevokeSession, AskRevoke, RevokeAnswered, ServiceMoves, ServiceAsked,
         CancelCommand, SendCommand, ServiceArrives, CommandAnswered, ChooseCommand
<1>2. section' = section
  BY SectionStays
<1>3. NoDoc \in StoredDocs
  BY DEF NoDoc, StoredDocs
<1> USE <1>2, <1>3 DEF FormsInv, StoredDocs, StorageForms, SetDocs
<1>4. ASSUME NEW doc \in SetDocs, OtherSaves(doc) PROVE FormsInv' /\ Kept
  BY <1>4 DEF OtherSaves
<1>5. ASSUME NEW doc \in SetDocs, EditDoc(doc) PROVE FormsInv' /\ Kept
  <2>1. setForm' = [setForm EXCEPT !.draft = doc] /\ stored' = stored
        /\ setForm.phase = "idle" /\ setForm.pending = 0
    BY <1>5 DEF EditDoc, FormEnabled
  <2>2. FormsInv' /\ setForm'.draft = doc
    BY <2>1, SettingsPageAssumption
  <2> QED
    BY <1>5, <2>2
<1>6. CASE ResetDoc
  <2>1. /\ setForm' = [setForm EXCEPT !.draft = 0] /\ stored' = stored
        /\ setForm.phase = "idle" /\ section # "storage"
    BY <1>6 DEF ResetDoc, In
  <2>2. FormsInv'
    BY <2>1
  <2> QED
    BY <1>6, <2>2
<1>7. CASE SaveDoc
  <2>1. /\ setForm.draft # 0 /\ ShownDoc(setForm) = setForm.draft
        /\ setForm.phase = "idle" /\ setForm.pending = 0 /\ stored' = stored
    BY <1>7 DEF SaveDoc, Changed, ShownDoc, FormEnabled
  <2>2. CASE section = "storage" /\ setForm' = [setForm EXCEPT !.pending = setForm.draft]
    BY <2>1, <2>2
  <2>3. CASE setForm' = [setForm EXCEPT !.phase = "sent", !.sent = setForm.draft]
    BY <2>1, <2>3
  <2> QED
    BY <1>7, <2>1, <2>2, <2>3 DEF SaveDoc, Send
<1>8. CASE ConfirmReduction
  BY <1>8 DEF ConfirmReduction, Send
<1>9. CASE CancelReduction
  BY <1>9 DEF CancelReduction
<1>10. CASE SaveLands
  <2> DEFINE n == stored.rev + 1
  <2>1. n \in Nat
    OBVIOUS
  <2>2. /\ setForm.phase = "sent" /\ stored' = [doc |-> setForm.sent, rev |-> n]
        /\ setForm' = [setForm EXCEPT !.phase = "landed", !.saved = n]
    BY <1>10 DEF SaveLands
  <2> HIDE DEF n
  <2>3. stored' \in StoredDocs /\ stored'.rev = n
    BY <2>1, <2>2
  <2>4. /\ setForm' \in StorageForms /\ setForm'.phase = "landed"
        /\ setForm'.sent = setForm.sent /\ setForm'.draft = setForm.draft
        /\ setForm'.pending = setForm.pending /\ setForm'.off = setForm.off
    BY <2>1, <2>2
  <2> QED
    BY <2>1, <2>2, <2>3, <2>4
<1>11. CASE SaveAnswered
  <2>1. CASE section = "storage"
    BY <1>11, <2>1 DEF SaveAnswered, StorageSaved
  <2>2. CASE section # "storage"
    <3> DEFINE d == [doc |-> setForm.sent, rev |-> setForm.saved]
    <3>1. d \in StoredDocs
      OBVIOUS
    <3>2. /\ setForm.phase = "landed" /\ stored' = stored
          /\ setForm' = [setForm EXCEPT !.phase = "idle", !.draft = 0, !.sent = 0, !.off = FALSE,
                                         !.data = d]
      BY <1>11, <2>2 DEF SaveAnswered
    <3> HIDE DEF d
    <3> QED
      BY <2>2, <3>1, <3>2
  <2> QED
    BY <2>1, <2>2
<1>12. CASE SaveRefused
  BY <1>12 DEF SaveRefused
<1>13. CASE DocAsked
  BY <1>13 DEF DocAsked
<1>14. CASE DocInvalidated
  BY <1>14 DEF DocInvalidated
<1>15. CASE DocArrives \/ DocFails
  <2> DEFINE e == (section = "storage")
  <2>1. \/ setForm' = AfterFetch([setForm EXCEPT !.data = setForm.get, !.get = NoDoc, !.error = FALSE])
        \/ setForm' = AfterFetch([setForm EXCEPT !.get = NoDoc, !.error = e])
    BY <1>15 DEF DocArrives, DocFails
  <2>2. stored' = stored
    BY <1>15 DEF DocArrives, DocFails
  <2>3. e \in BOOLEAN
    OBVIOUS
  <2> HIDE DEF e
  <2>4. PICK y \in StorageForms : /\ setForm' = AfterFetch(y) /\ y.draft = setForm.draft
                                  /\ y.phase = setForm.phase /\ y.sent = setForm.sent
                                  /\ y.pending = setForm.pending /\ y.off = setForm.off
    <3>1. ASSUME NEW y, \/ y = [setForm EXCEPT !.data = setForm.get, !.get = NoDoc, !.error = FALSE]
                        \/ y = [setForm EXCEPT !.get = NoDoc, !.error = e]
          PROVE  /\ y \in StorageForms /\ y.draft = setForm.draft
                 /\ y.phase = setForm.phase /\ y.sent = setForm.sent
                 /\ y.pending = setForm.pending /\ y.off = setForm.off
      BY <2>3, <3>1
    <3> QED
      BY <2>1, <3>1
  <2>5. CASE y.phase = "refetching"
    <3>1. setForm' = [y EXCEPT !.phase = "idle", !.draft = 0, !.sent = 0]
      BY <2>4, <2>5 DEF AfterFetch
    <3>2. setForm.phase # "idle" /\ (setForm.draft = setForm.sent \/ setForm.off)
      BY <2>4, <2>5
    <3>3. /\ setForm' \in StorageForms /\ setForm'.phase = "idle"
          /\ setForm'.pending = setForm.pending /\ setForm.pending = 0
          /\ setForm'.off = setForm.off
      BY <2>4, <2>5, <3>1
    <3>4. FormsInv'
      BY <2>2, <3>3
    <3> QED
      BY <3>2, <3>4
  <2>6. CASE y.phase # "refetching"
    <3>1. setForm' = y
      BY <2>4, <2>6 DEF AfterFetch
    <3> QED
      BY <2>2, <2>4, <3>1
  <2> QED
    BY <2>5, <2>6
<1>16. CASE DisableGeoip
  <2> DEFINE d == setForm.data.doc
             y == [setForm EXCEPT !.phase = "sent", !.sent = d]
  <2>1. /\ setForm' = [y EXCEPT !.off = TRUE] /\ stored' = stored
        /\ section = "geoip" /\ d \in Nat
    BY <1>16 DEF DisableGeoip, Send, In
  <2> HIDE DEF d
  <2>2. y \in StorageForms /\ y.draft = setForm.draft /\ y.pending = setForm.pending
    BY <2>1
  <2> HIDE DEF y
  <2>3. /\ setForm' \in StorageForms /\ setForm'.off /\ setForm'.pending = setForm.pending
        /\ setForm'.draft = setForm.draft
    BY <2>1, <2>2
  <2>4. FormsInv'
    BY <2>1, <2>3
  <2> QED
    BY <2>3, <2>4
<1> QED
  BY <1>1, <1>4, <1>5, <1>6, <1>7, <1>8, <1>9, <1>10, <1>11, <1>12, <1>13, <1>14,
     <1>15, <1>16 DEF SetFormNext

\* The panel's address.
LEMMA AccessKeeps ==
    ASSUME AccessInv, SettingsNext, section = "access"
    PROVE  AccessInv'
<1>1. AccessNext
  BY DEF FormSections, SettingsNext, SetFormNext, SessionsNext, ServiceNext, In,
         OtherSaves, EditDoc, ResetDoc, SaveDoc, DisableGeoip, ConfirmReduction, CancelReduction,
         SaveLands, SaveAnswered, SaveRefused, DocAsked, DocInvalidated, DocArrives,
         DocFails, SelectSession, CloseSessionSheet,
         RevokeSession, AskRevoke, RevokeAnswered, ServiceMoves, ServiceAsked,
         CancelCommand, SendCommand, ServiceArrives, CommandAnswered, ChooseCommand
<1>2. section' = section
  BY SectionStays
<1> DEFINE Good(x, a) ==
             /\ x \in TlsStates /\ a \in AccessForms
             /\ a.phase = "prepare" /\ a.draft # 0 => a.sent = a.draft
             /\ a.prep >= -1
             /\ a.prep > 0 /\ a.draft # 0 => a.prep = a.draft
<1>3. Good(stored, setForm)
  BY DEF AccessInv
<1>4. SUFFICES Good(stored', setForm')
  BY <1>2 DEF AccessInv
<1>5. /\ AccessDraft(setForm) \in Nat
      /\ setForm.draft # 0 => AccessDraft(setForm) = setForm.draft
  BY <1>3 DEF AccessForms, TlsStates, AccessDraft, CreatePanelAccessDraft
<1>17. setForm \in AccessForms
  BY <1>3
<1>6. ASSUME NEW doc \in SetDocs, EditAccess(doc) PROVE Good(stored', setForm')
  <2> DEFINE o == 0
  <2>1. /\ setForm' = [setForm EXCEPT !.draft = doc, !.prep = o, !.error = FALSE]
        /\ stored' = stored /\ setForm.phase # "prepare" /\ doc \in Nat
    BY <1>6, SettingsPageAssumption, <1>3 DEF EditAccess, AccessEditable, Access, OnServer, SetDocs, TlsStates, AccessForms
  <2>2. /\ setForm' \in AccessForms /\ setForm'.data = setForm.data
        /\ setForm'.phase = setForm.phase /\ setForm'.sent = setForm.sent
        /\ setForm'.prep = o
    <3>1. o \in Int
      OBVIOUS
    <3> HIDE DEF o
    <3> QED
      BY <2>1, <3>1, <1>17 DEF AccessForms
  <2> QED
    BY <2>1, <2>2, <1>3 DEF TlsStates, AccessForms
<1>7. CASE OnPrepare
  <2> DEFINE d == AccessDraft(setForm)
  <2>1. /\ setForm' = [setForm EXCEPT !.phase = "prepare", !.sent = d, !.error = FALSE]
        /\ stored' = stored
    BY <1>7, <1>3 DEF OnPrepare, Access, OnServer, TlsStates, AccessForms
  <2>2. d \in Nat /\ (setForm.draft # 0 => d = setForm.draft)
    BY <1>5, <1>3 DEF TlsStates, AccessForms
  <2> HIDE DEF d
  <2> QED
    BY <2>1, <2>2, <1>3 DEF TlsStates, AccessForms
<1>8. CASE EditSettings
  BY <1>8, <1>3 DEF EditSettings, Access, OnServer, TlsStates, AccessForms
<1>9. CASE OnApply
  <2> DEFINE p == PreparedCandidate(setForm)
  <2>1. /\ setForm' = [setForm EXCEPT !.phase = "apply", !.sent = p, !.error = FALSE]
        /\ stored' = stored
    BY <1>9, <1>3 DEF OnApply, Access, OnServer, TlsStates, AccessForms
  <2>2. p \in Nat
    BY <1>3 DEF PreparedCandidate, TlsStates, AccessForms
  <2> HIDE DEF p
  <2> QED
    BY <2>1, <2>2, <1>3 DEF TlsStates, AccessForms
<1>10. CASE OnRestart
  BY <1>10, <1>3 DEF OnRestart, Access, OnServer, TlsStates, AccessForms
<1>11. CASE AccessRefetched
  BY <1>11, <1>3 DEF AccessRefetched, Access, OnServer, TlsStates, AccessForms
<1>12. CASE CloseAccess
  BY <1>12, <1>3 DEF CloseAccess, AccessMounted, Access, OnServer, TlsStates, AccessForms
<1>13. ASSUME NEW ok \in BOOLEAN, PrepareAnswered(ok) PROVE Good(stored', setForm')
  <2>1. CASE ok
    <3> DEFINE o == 0
               n == setForm.sent
    <3>1. /\ setForm.phase = "prepare"
          /\ stored' = [stored EXCEPT !.prepared = n]
          /\ setForm' = [setForm EXCEPT !.phase = "idle", !.sent = o, !.error = FALSE,
                                       !.prep = n]
      BY <1>13, <2>1, <1>3 DEF PrepareAnswered, Access, TlsStates, AccessForms
    <3>2. /\ stored' \in TlsStates /\ stored'.configured = stored.configured
          /\ stored'.active = stored.active /\ stored'.state = stored.state
          /\ stored'.required = stored.required
      BY <3>1, <1>3 DEF TlsStates, AccessForms
    <3>3. /\ setForm' \in AccessForms /\ setForm'.data = setForm.data
          /\ setForm'.draft = setForm.draft /\ setForm'.phase = "idle"
          /\ setForm'.prep = n
      <4>1. o \in Nat /\ n \in Int
        BY <1>17 DEF AccessForms
      <4> HIDE DEF o, n
      <4> QED
        BY <3>1, <4>1, <1>17 DEF AccessForms
    <3>4. setForm.draft # 0 => setForm.sent = setForm.draft
      BY <3>1, <3>3, <1>3 DEF TlsStates, AccessForms
    <3> QED
      BY <3>2, <3>3, <3>4, <1>3 DEF TlsStates, AccessForms
  <2>2. CASE ~ok
    BY <1>13, <2>2, <1>3 DEF PrepareAnswered, Access, TlsStates, AccessForms
  <2> QED
    BY <2>1, <2>2, <1>3 DEF TlsStates, AccessForms
<1>14. ASSUME NEW ok \in BOOLEAN, PutAccessAnswered(ok) PROVE Good(stored', setForm')
  <2>1. CASE ok
    <3> DEFINE n == setForm.sent
               d == [setForm.data EXCEPT !.configured = n, !.state = "saved", !.required = TRUE]
    <3>1. /\ setForm.phase = "apply"
          /\ stored' = [stored EXCEPT !.configured = n, !.state = "saved",
                                      !.required = TRUE, !.prepared = 0]
          /\ setForm' = [setForm EXCEPT !.phase = "idle", !.kept = n, !.prep = 0,
                             !.sent = 0, !.data.configured = n,
                             !.data.state = "saved", !.data.required = TRUE]
      BY <1>14, <2>1, <1>3 DEF PutAccessAnswered, Access, TlsStates, AccessForms
    <3> DEFINE o == 0
    <3>2. setForm' = [setForm EXCEPT !.phase = "idle", !.kept = n, !.prep = o,
                                     !.sent = o, !.data = d]
      BY <3>1, <1>3 DEF TlsStates, AccessForms
    <3>3. n \in Nat
      BY <3>1, <1>3 DEF TlsStates, AccessForms
    <3>4. d \in TlsStates /\ d.configured = n
      BY <3>3, <1>3 DEF TlsStates, AccessForms
    <3> HIDE DEF n, d
    <3>5. stored' \in TlsStates /\ stored'.configured = n
      BY <3>1, <3>3, <1>3 DEF TlsStates, AccessForms
    <3>6. /\ setForm' \in AccessForms /\ setForm'.data = d /\ setForm'.phase = "idle"
          /\ setForm'.prep = o
      <4>1. o \in Nat /\ o \in Int /\ n \in Int
        BY <3>3
      <4> HIDE DEF o
      <4> QED
        BY <3>2, <3>4, <4>1, <1>17 DEF AccessForms
    <3> QED
      BY <3>3, <3>4, <3>5, <3>6, <1>17 DEF AccessForms
  <2>2. CASE ~ok
    <3>1. /\ setForm' = [setForm EXCEPT !.phase = "idle", !.sent = 0, !.error = TRUE]
          /\ stored' = stored
      BY <1>14, <2>2, <1>3 DEF PutAccessAnswered, Access, OnServer, TlsStates, AccessForms
    <3>2. /\ setForm' \in AccessForms /\ setForm'.data = setForm.data
          /\ setForm'.phase = "idle" /\ setForm'.prep = setForm.prep
          /\ setForm'.draft = setForm.draft
      BY <3>1, <1>17 DEF AccessForms
    <3> QED
      BY <3>1, <3>2, <1>3 DEF TlsStates, AccessForms
  <2> QED
    BY <2>1, <2>2, <1>3 DEF TlsStates, AccessForms
<1>15. ASSUME NEW ok \in BOOLEAN, PanelRestarts(ok) PROVE Good(stored', setForm')
  <2>1. CASE ok
    BY <1>15, <2>1, <1>3 DEF PanelRestarts, TlsStates, AccessForms
  <2>2. CASE ~ok
    BY <1>15, <2>2, <1>3 DEF PanelRestarts, TlsStates, AccessForms
  <2> QED
    BY <2>1, <2>2, <1>3 DEF TlsStates, AccessForms
<1>16. ASSUME NEW how \in {"accepted", "refused", "lost"}, RestartAnswered(how)
       PROVE  Good(stored', setForm')
  <2>1. CASE how = "accepted"
    BY <1>16, <2>1, <1>3 DEF RestartAnswered, Access, TlsStates, AccessForms
  <2>2. CASE how = "refused"
    BY <1>16, <2>2, <1>3 DEF RestartAnswered, Access, TlsStates, AccessForms
  <2>3. CASE how = "lost"
    BY <1>16, <2>3, <1>3 DEF RestartAnswered, Access, TlsStates, AccessForms
  <2> QED
    BY <2>1, <2>2, <2>3, <1>3 DEF TlsStates, AccessForms
<1>18. ASSUME NEW doc \in SetDocs, OtherAccess(doc) PROVE Good(stored', setForm')
  <2>0. doc \in Nat
    BY SettingsPageAssumption DEF SetDocs
  <2>1. /\ setForm' = setForm
        /\ \/ stored' = [stored EXCEPT !.prepared = doc]
           \/ stored' = [stored EXCEPT !.configured = doc, !.state = "saved", !.required = TRUE,
                                       !.prepared = 0]
           \/ stored' = [stored EXCEPT !.state = "restarting"]
    BY <1>18 DEF OtherAccess
  <2> DEFINE o == 0
  <2>2. stored' \in TlsStates
    <3>1. stored \in TlsStates /\ o \in Nat
      BY <1>3
    <3>2. \/ stored' = [stored EXCEPT !.prepared = doc]
          \/ stored' = [stored EXCEPT !.configured = doc, !.state = "saved", !.required = TRUE,
                                      !.prepared = o]
          \/ stored' = [stored EXCEPT !.state = "restarting"]
      BY <2>1
    <3> HIDE DEF o
    <3>3. CASE stored' = [stored EXCEPT !.prepared = doc]
      BY <2>0, <3>1, <3>3 DEF TlsStates
    <3>4. CASE stored' = [stored EXCEPT !.configured = doc, !.state = "saved", !.required = TRUE,
                                        !.prepared = o]
      BY <2>0, <3>1, <3>4 DEF TlsStates
    <3>5. CASE stored' = [stored EXCEPT !.state = "restarting"]
      BY <3>1, <3>5 DEF TlsStates
    <3> QED
      BY <3>2, <3>3, <3>4, <3>5
  <2> QED
    BY <2>1, <2>2, <1>3
<1> QED
  BY <1>1, <1>6, <1>7, <1>8, <1>9, <1>10, <1>11, <1>12, <1>13, <1>14, <1>15,
     <1>16, <1>18 DEF AccessNext

\* No step of the settings costs the admin a draft.
LEMMA SettingsSteps == SettingsInv /\ SettingsNext => SettingsInv' /\ SettingsDraftsKept
<1> SUFFICES ASSUME SettingsInv, SettingsNext PROVE SettingsInv' /\ SettingsDraftsKept
  OBVIOUS
<1>1. section' = section
  BY SectionStays
<1>2. FormsInv'
  BY <1>1, FormsKeep DEF SettingsInv, FormsInv
<1>3. AccessInv'
  BY <1>1, AccessKeeps DEF SettingsInv, AccessInv
<1>4. SettingsDraftsKept
  <2>1. section \in FormSections =>
         \/ setForm'.draft = setForm.draft \/ EditDoc(setForm'.draft) \/ ResetDoc
         \/ setForm.phase # "idle" /\ (setForm.draft = setForm.sent \/ setForm.off)
    BY FormsKeep DEF SettingsInv
  <2>2. section = "access" /\ setForm'.prep > 0 /\ setForm'.draft # 0 =>
          setForm'.prep = setForm'.draft
    BY <1>1, <1>3 DEF AccessInv
  <2> QED
    BY <2>1, <2>2 DEF SettingsDraftsKept
<1> QED
  BY <1>2, <1>3, <1>4 DEF SettingsInv

-----------------------------------------------------------------------------
(***************************************************************************)
(* The note that Telemt needs a restart.                                   *)
(***************************************************************************)

\* The note, the statistics and the banner over them.
Notes == [runtimeReload : BOOLEAN, processRestart : BOOLEAN, at : Int]
StatsFrames == [known : BOOLEAN, uptime : Int, reloadedAt : Int, taken : Int]
Banners == [open : BOOLEAN, pending : Notes, still : BOOLEAN, stats : StatsFrames]

\* The statistics on screen are not older than their bound, and the start of
\* the process worked out at their arrival is not a second after the real one.
StatsAreClose(s, p, now) ==
    s.known => now - s.taken <= StatsAge /\ s.taken - s.uptime <= p.start + 1
NoteInv ==
    /\ note \in Notes /\ banner \in Banners
    /\ proc.start <= clock
    /\ StatsAreClose(banner.stats, proc, clock)

\* An answer that is remembered.
LEMMA NotesAreNotes ==
    NoNote \in Notes /\ \A r \in Results, now \in Int : RecordPendingChanges(r, now) \in Notes
<1>1. NoNote \in Notes
  <2> DEFINE m == -1
  <2>1. m \in Int /\ NoNote = [runtimeReload |-> FALSE, processRestart |-> FALSE, at |-> m]
    BY DEF NoNote
  <2> HIDE DEF m
  <2> QED
    BY <2>1 DEF Notes
<1> QED
  BY <1>1 DEF RecordPendingChanges, Notes, Results

\* The page opens without a note or statistics.
LEMMA NoteInvInit == ReloadInit => NoteInv
<1> SUFFICES ASSUME ReloadInit PROVE NoteInv
  OBVIOUS
<1>1. note \in Notes /\ NoNote \in Notes
  BY NotesAreNotes DEF ReloadInit
<1>2. NoStats \in StatsFrames /\ ~NoStats.known
  <2> DEFINE m == -1
  <2>1. /\ m \in Int
        /\ NoStats = [known |-> FALSE, uptime |-> 0, reloadedAt |-> m, taken |-> 0]
    BY DEF NoStats
  <2> HIDE DEF m
  <2> QED
    BY <2>1 DEF StatsFrames
<1>3. banner = [open |-> FALSE, pending |-> NoNote, still |-> FALSE, stats |-> NoStats]
  BY DEF ReloadInit
<1>4. banner \in Banners /\ banner.stats = NoStats
  BY <1>1, <1>2, <1>3 DEF Banners
<1>5. proc.start <= clock
  BY DEF ReloadInit
<1> QED
  BY <1>1, <1>2, <1>4, <1>5 DEF NoteInv, StatsAreClose

\* The start worked out from the frame on screen.
LEMMA RestartIsSeen ==
    ASSUME ReloadInv, NoteInv, NEW n \in Notes, RestartedSince(n, banner.stats, clock)
    PROVE  proc.start + 1 + StatsAge >= n.at - START_TIME_SLACK_MS
<1> DEFINE s == banner.stats
           b == proc.start
<1>1. s \in StatsFrames /\ b \in Nat /\ clock \in Nat /\ StatsAge \in Nat
  BY ConfigReloadAssumption DEF NoteInv, Banners, ReloadInv, Procs
<1>2. /\ s.known => clock - s.taken <= StatsAge /\ s.taken - s.uptime <= b + 1
      /\ s.known /\ clock - s.uptime >= n.at - START_TIME_SLACK_MS
  BY DEF NoteInv, StatsAreClose, RestartedSince
<1>3. /\ s.uptime \in Int /\ s.taken \in Int /\ n.at \in Int
      /\ START_TIME_SLACK_MS \in Int
  BY <1>1 DEF StatsFrames, Notes, START_TIME_SLACK_MS
<1> HIDE DEF s, b
<1>4. b + 1 + StatsAge >= n.at - START_TIME_SLACK_MS
  BY <1>1, <1>2, <1>3
<1> QED
  BY <1>4 DEF b

\* Every step keeps the invariant and the note of a needed restart.
LEMMA NoteSteps == ReloadInv /\ NoteInv /\ ReloadNext => NoteInv' /\ RestartIsRemembered
<1> SUFFICES ASSUME ReloadInv, NoteInv, ReloadNext PROVE NoteInv' /\ RestartIsRemembered
  OBVIOUS
<1>0. /\ clock \in Nat /\ proc \in Procs /\ saves \in SaveStates /\ StatsAge \in Nat
      /\ proc.start \in Nat /\ saves.sent \in Results
      /\ note \in Notes /\ banner \in Banners /\ proc.start <= clock
      /\ banner.pending \in Notes /\ banner.stats \in StatsFrames
      /\ banner.stats.taken \in Int /\ banner.stats.uptime \in Int
      /\ StatsAreClose(banner.stats, proc, clock)
  BY ConfigReloadAssumption
  DEF ReloadInv, NoteInv, Procs, SaveStates, Banners, StatsFrames
<1>a. ASSUME UNCHANGED <<clock, note, banner>>, proc'.start = proc.start
      PROVE  NoteInv' /\ RestartIsRemembered
  BY <1>0, <1>a DEF NoteInv, StatsAreClose, RestartIsRemembered
<1>b. ASSUME NEW p \in Procs, NEW q, q = AcceptReload(p) PROVE q.start = p.start
  BY <1>b DEF AcceptReload, Procs
<1>1. ASSUME NEW mode \in ReloadModes, SaveConfig(mode) PROVE NoteInv' /\ RestartIsRemembered
  <2>1. PICK reload \in BOOLEAN, restart \in BOOLEAN :
          LET file == [proc EXCEPT !.unloaded = @ \/ reload, !.deferred = @ \/ restart]
          IN  proc' = IF ToPatchReloadQuery(mode) THEN AcceptReload(file) ELSE file
    BY <1>1 DEF SaveConfig
  <2> DEFINE u == proc.unloaded \/ reload
             d == proc.deferred \/ restart
             file == [proc EXCEPT !.unloaded = u, !.deferred = d]
  <2>2. u \in BOOLEAN /\ d \in BOOLEAN
    BY <1>0 DEF Procs
  <2>3. proc' = IF ToPatchReloadQuery(mode) THEN AcceptReload(file) ELSE file
    BY <2>1
  <2> HIDE DEF u, d
  <2>4. file \in Procs /\ file.start = proc.start
    BY <1>0, <2>2 DEF Procs
  <2> HIDE DEF file
  <2>5. proc'.start = proc.start
    BY <1>b, <2>3, <2>4
  <2> QED
    BY <1>1, <1>a, <2>5 DEF SaveConfig
<1>2. CASE ConfigSaveAnswered
  <2>1. /\ saves.sent.known /\ note' = RecordPendingChanges(saves.sent, clock)
        /\ UNCHANGED <<clock, proc, banner>>
    BY <1>2 DEF ConfigSaveAnswered
  <2>2. note' \in Notes
    BY <1>0, <2>1, NotesAreNotes
  <2>3. ~saves'.sent.known
    <3>1. saves'.sent = NoResult
      <4> DEFINE g == IF saves.mine THEN NoticeShown(Page, saves.sent) ELSE saves.page
      <4>1. saves' = [saves EXCEPT !.sent = NoResult, !.mine = FALSE, !.page = g]
        BY <1>2 DEF ConfigSaveAnswered
      <4> HIDE DEF g
      <4> QED
        BY <1>0, <4>1 DEF SaveStates
    <3> QED
      BY <3>1 DEF NoResult
  <2> QED
    BY <1>0, <2>1, <2>2, <2>3 DEF NoteInv, StatsAreClose, RestartIsRemembered
<1>3. CASE ReloadNow
  BY <1>0, <1>3, <1>a, <1>b DEF ReloadNow
<1>4. CASE ReloadAccepted
  BY <1>4, <1>a DEF ReloadAccepted
<1>5. CASE Restart
  <2>1. proc' = Started(proc, clock) /\ UNCHANGED <<clock, note, saves, banner>>
    BY <1>5 DEF Restart
  <2>2. proc'.start = clock
    <3>1. ASSUME NEW q, q = Started(proc, clock) PROVE q.start = clock
      <4> DEFINE m == -1
                 r == [id |-> proc.run.id, state |-> "failed"]
                 n == proc.served + 1
      <4>1. q = [proc EXCEPT !.start = clock, !.reloadedAt = m, !.run = r,
                             !.unloaded = FALSE, !.deferred = FALSE, !.served = n]
        BY <3>1 DEF Started
      <4> HIDE DEF m, r, n
      <4> QED
        BY <1>0, <4>1 DEF Procs
    <3> QED
      BY <2>1, <3>1
  <2> QED
    BY <1>0, <2>1, <2>2 DEF NoteInv, StatsAreClose, RestartIsRemembered
<1>6. CASE ReloadByOther
  BY <1>0, <1>6, <1>a, <1>b DEF ReloadByOther
<1>7. CASE ReloadMoves
  <2>1. proc'.start = proc.start
    <3> DEFINE next == RELOAD_STEPS[ReloadStepInfo(proc.run.state).index + 1]
               u == proc.unloaded /\ next # "succeeded"
               t == IF next = "succeeded" THEN clock ELSE proc.reloadedAt
    <3>1. \/ proc' = [proc EXCEPT !.run.state = next, !.unloaded = u, !.reloadedAt = t]
          \/ \E s \in {"failed", "rolled_back"} : proc' = [proc EXCEPT !.run.state = s]
      BY <1>7 DEF ReloadMoves
    <3> HIDE DEF next, u, t
    <3> QED
      BY <1>0, <3>1 DEF Procs
  <2> QED
    BY <1>7, <1>a, <2>1 DEF ReloadMoves
<1>8. CASE PollReload
  BY <1>8, <1>a DEF PollReload
<1>9. CASE OpenOverview
  <2> DEFINE still == ResolvePendingChanges(note, banner.stats, clock) # NothingPending
  <2>1. /\ banner' = [banner EXCEPT !.open = TRUE, !.pending = note, !.still = still]
        /\ note' = Forgets(note, still)
        /\ UNCHANGED <<clock, proc>>
    BY <1>9 DEF OpenOverview
  <2>2. still \in BOOLEAN
    OBVIOUS
  <2>3. ~still => ~note.processRestart \/ RestartedSince(note, banner.stats, clock)
    <3> SUFFICES ASSUME ~still, note.processRestart
                 PROVE  RestartedSince(note, banner.stats, clock)
      OBVIOUS
    <3>1. note # NoNote
      BY DEF NoNote
    <3>2. ResolvePendingChanges(note, banner.stats, clock).processRestart = FALSE
      BY DEF NothingPending
    <3>3. ResolvePendingChanges(note, banner.stats, clock).processRestart
            = (note.processRestart /\ ~RestartedSince(note, banner.stats, clock))
      BY <3>1 DEF ResolvePendingChanges
    <3> QED
      BY <3>2, <3>3
  <2> HIDE DEF still
  <2>4. banner' \in Banners /\ banner'.stats = banner.stats
    BY <1>0, <2>1, <2>2 DEF Banners
  <2>5. note' \in Notes /\ (note' = note \/ ~still)
    BY <1>0, <2>1, NotesAreNotes DEF Forgets
  <2>6. RestartIsRemembered
    BY <1>0, <2>3, <2>5, RestartIsSeen DEF RestartIsRemembered, RestartedSinceSave
  <2> QED
    BY <1>0, <2>1, <2>4, <2>5, <2>6 DEF NoteInv, StatsAreClose
<1>10. CASE OpenConfig
  <2>1. /\ banner' = [banner EXCEPT !.open = FALSE, !.pending = NoNote, !.still = FALSE]
        /\ UNCHANGED <<clock, proc, note>>
    BY <1>10 DEF OpenConfig
  <2>2. banner' \in Banners /\ banner'.stats = banner.stats
    BY <1>0, <2>1, NotesAreNotes DEF Banners
  <2> QED
    BY <1>0, <2>1, <2>2 DEF NoteInv, StatsAreClose, RestartIsRemembered
<1>11. CASE StatsArrive
  <2> DEFINE d == clock - proc.start
             u == SecondsOf(d)
             t == IF proc.reloadedAt < 0 THEN -1 ELSE SecondsOf(proc.reloadedAt)
             s == StatsOfNow
  <2>1. banner' = [banner EXCEPT !.stats = s] /\ UNCHANGED <<clock, proc, note, saves>>
    BY <1>11 DEF StatsArrive
  <2>2. s = [known |-> TRUE, uptime |-> u, taken |-> clock, reloadedAt |-> t]
    BY DEF StatsOfNow
  <2>3. d \in Int /\ u \in Int /\ d - u <= 1
    BY <1>0 DEF SecondsOf
  <2>4. t \in Int
    BY <1>0 DEF SecondsOf, Procs
  <2>5. clock - u <= proc.start + 1
    <3> HIDE DEF u
    <3> QED
      BY <1>0, <2>3
  <2> HIDE DEF d, u, t, s
  <2>6. s \in StatsFrames /\ s.taken = clock /\ s.uptime = u
    BY <1>0, <2>2, <2>3, <2>4 DEF StatsFrames
  <2>7. banner' \in Banners /\ banner'.stats = s
    BY <1>0, <2>1, <2>6 DEF Banners
  <2>8. StatsAreClose(s, proc, clock)
    BY <1>0, <2>5, <2>6 DEF StatsAreClose
  <2> QED
    BY <1>0, <2>1, <2>7, <2>8 DEF NoteInv, StatsAreClose, RestartIsRemembered
<1>12. CASE HeroRenders
  <2>1. /\ banner.open /\ banner.still # (PendingWarning # "none")
        /\ banner' = [banner EXCEPT !.still = ~banner.still]
        /\ note' = Forgets(banner.pending, ~banner.still)
        /\ UNCHANGED <<clock, proc, saves>>
    BY <1>12 DEF HeroRenders
  <2>2. banner.still \in BOOLEAN
    BY <1>0 DEF Banners
  <2>3. banner' \in Banners /\ banner'.stats = banner.stats
    <3> DEFINE w == ~banner.still
    <3>1. w \in BOOLEAN /\ banner' = [banner EXCEPT !.still = w]
      BY <2>1
    <3> HIDE DEF w
    <3> QED
      BY <1>0, <3>1 DEF Banners
  <2>4. note' \in Notes /\ (note' = note \/ banner.still)
    BY <1>0, <2>1, <2>2, NotesAreNotes DEF Forgets
  <2>5. ASSUME banner.still, banner.pending = note, note.processRestart
        PROVE  RestartedSince(note, banner.stats, clock)
    <3>1. PendingWarning = "none"
      BY <2>1, <2>2, <2>5
    <3>2. ~Unapplied.processRestart
      BY <3>1 DEF PendingWarning
    <3>3. note # NoNote
      BY <2>5 DEF NoNote
    <3> QED
      BY <2>5, <3>2, <3>3 DEF Unapplied, ResolvePendingChanges
  <2>6. RestartIsRemembered
    BY <1>0, <2>1, <2>4, <2>5, RestartIsSeen DEF RestartIsRemembered, RestartedSinceSave
  <2> QED
    BY <1>0, <2>1, <2>3, <2>4, <2>6 DEF NoteInv, StatsAreClose
<1>13. CASE ClockMoves
  <2>1. /\ banner.stats.known => clock - banner.stats.taken < StatsAge
        /\ clock' = clock + 1 /\ UNCHANGED <<proc, note, saves, banner>>
    BY <1>13 DEF ClockMoves
  <2>2. StatsAreClose(banner.stats, proc, clock')
    BY <1>0, <2>1 DEF StatsAreClose
  <2> QED
    BY <1>0, <2>1, <2>2 DEF NoteInv, StatsAreClose, RestartIsRemembered
<1> QED
  BY <1>1, <1>2, <1>3, <1>4, <1>5, <1>6, <1>7, <1>8, <1>9, <1>10, <1>11, <1>12, <1>13
  DEF ReloadNext

-----------------------------------------------------------------------------
(***************************************************************************)
(* The warnings and the notice beside the note.                            *)
(***************************************************************************)

\* The notice of an answer offers what the note of it says.
NoticeIsNoted(r, n) ==
    /\ (r.reloadRequired /\ r.reload = 0) <=> n.runtimeReload
    /\ r.restartRequired <=> n.processRestart

\* An answer on screen is the last there was, and the banner that erases notes
\* is not mounted beside it.
NoticeInv ==
    /\ Page.result.known => /\ ~saves.sent.known /\ ~banner.open
                            /\ NoticeIsNoted(Page.result, note)
    /\ saves.mine => ~banner.open
    /\ banner.open => ~Page.open

\* What is remembered of an answer is what its notice offers.
LEMMA NotedAsShown ==
    ASSUME NEW r \in Results, NEW now \in Int
    PROVE  NoticeIsNoted(r, RecordPendingChanges(r, now))
<1>1. r.reloadRequired \in BOOLEAN /\ r.restartRequired \in BOOLEAN /\ r.reload \in Nat
  BY DEF Results
<1>2. NoNote.runtimeReload = FALSE /\ NoNote.processRestart = FALSE
  BY DEF NoNote
<1> DEFINE a == r.reloadRequired /\ r.reload = 0
           b == r.restartRequired
           n == RecordPendingChanges(r, now)
<1>3. n = IF ~a /\ ~b THEN NoNote ELSE [runtimeReload |-> a, processRestart |-> b, at |-> now]
  BY DEF RecordPendingChanges
<1>4. a \in BOOLEAN /\ b \in BOOLEAN
  BY <1>1
<1> HIDE DEF a, b, n
<1>5. CASE ~a /\ ~b
  <2>1. n = NoNote
    BY <1>3, <1>5
  <2>2. (a <=> n.runtimeReload) /\ (b <=> n.processRestart)
    BY <1>2, <1>5, <2>1
  <2> QED
    BY <2>2 DEF NoticeIsNoted, a, b, n
<1>6. CASE ~(~a /\ ~b)
  <2>1. n = [runtimeReload |-> a, processRestart |-> b, at |-> now]
    BY <1>3, <1>6
  <2>2. n.runtimeReload = a /\ n.processRestart = b
    BY <2>1
  <2> QED
    BY <2>2 DEF NoticeIsNoted, a, b, n
<1> QED
  BY <1>5, <1>6

\* The page opens without an answer.
LEMMA NoticeInit == ReloadInit => NoticeInv
<1> SUFFICES ASSUME ReloadInit PROVE NoticeInv
  OBVIOUS
<1>1. saves.page = ConfigPageMounted /\ saves.mine = FALSE /\ banner.open = FALSE
  BY DEF ReloadInit
<1>2. ~ConfigPageMounted.result.known
  BY DEF ConfigPageMounted, NoResult
<1> QED
  BY <1>1, <1>2 DEF NoticeInv, Page

\* Every step keeps the notice true to the note.
LEMMA NoticeStep == ReloadInv /\ NoteInv /\ NoticeInv /\ ReloadNext => NoticeInv'
<1> SUFFICES ASSUME ReloadInv, NoteInv, NoticeInv, ReloadNext PROVE NoticeInv'
  OBVIOUS
<1>0. /\ clock \in Nat /\ saves \in SaveStates /\ saves.page \in ConfigPages /\ saves.sent \in Results
      /\ banner \in Banners /\ banner.open \in BOOLEAN /\ saves.mine \in BOOLEAN
      /\ saves.page.open \in BOOLEAN
  BY DEF ReloadInv, NoteInv, SaveStates, ConfigPages, Banners
<1>n. NoResult.known = FALSE
  BY DEF NoResult
\* Steps that leave the answer, the note and the mounting alone.
<1>a. ASSUME /\ saves'.page.result = saves.page.result /\ saves'.page.open = saves.page.open
             /\ saves'.sent = saves.sent /\ saves'.mine = saves.mine
             /\ note' = note /\ banner'.open = banner.open
      PROVE  NoticeInv'
  BY <1>a DEF NoticeInv, Page
<1>b. ASSUME UNCHANGED <<saves, note, banner>> PROVE NoticeInv'
  BY <1>b DEF NoticeInv, Page
\* Steps of the page beside its answer.
<1>c. ASSUME NEW p, PageSays(p), p.result = saves.page.result, p.open = saves.page.open,
             UNCHANGED <<note, banner>>
      PROVE  NoticeInv'
  <2>1. saves' = [saves EXCEPT !.page = p]
    BY <1>c DEF PageSays
  <2>2. saves'.page = p /\ saves'.sent = saves.sent /\ saves'.mine = saves.mine
    BY <1>0, <2>1 DEF SaveStates
  <2> QED
    BY <1>a, <1>c, <2>2
<1>1. ASSUME NEW mode \in ReloadModes, SaveConfig(mode) PROVE NoticeInv'
  <2>1. /\ Page.open /\ UNCHANGED <<note, banner>>
        /\ saves'.page = [Page EXCEPT !.result = NoResult, !.active = 0, !.status = "none"]
        /\ saves'.mine = TRUE
    BY <1>1 DEF SaveConfig
  <2>2. saves'.page.result = NoResult
    BY <1>0, <2>1 DEF ConfigPages, Page
  <2>3. ~banner.open
    BY <2>1 DEF NoticeInv
  <2> QED
    BY <1>n, <2>1, <2>2, <2>3 DEF NoticeInv, Page
<1>2. CASE ConfigSaveAnswered
  <2> DEFINE g == IF saves.mine THEN NoticeShown(Page, saves.sent) ELSE saves.page
  <2>1. /\ saves.sent.known /\ note' = RecordPendingChanges(saves.sent, clock)
        /\ saves' = [saves EXCEPT !.sent = NoResult, !.mine = FALSE, !.page = g]
        /\ UNCHANGED banner
    BY <1>2 DEF ConfigSaveAnswered
  <2>2. /\ saves.mine => g.result = saves.sent /\ g.open = saves.page.open
        /\ ~saves.mine => g = saves.page
    BY <1>0 DEF NoticeShown, Page, ConfigPages
  <2> HIDE DEF g
  <2>3. saves'.sent = NoResult /\ saves'.mine = FALSE /\ saves'.page = g
    BY <1>0, <2>1 DEF SaveStates
  <2>4. NoticeIsNoted(saves.sent, note')
    BY <1>0, <2>1, NotedAsShown
  <2>5. ~saves.page.result.known
    BY <2>1 DEF NoticeInv, Page
  <2>6. CASE saves.mine
    <3>1. ~banner.open /\ saves'.page.result = saves.sent
      BY <2>2, <2>3, <2>6 DEF NoticeInv
    <3> QED
      BY <1>n, <2>1, <2>3, <2>4, <3>1 DEF NoticeInv, Page
  <2>7. CASE ~saves.mine
    <3>1. saves'.page = saves.page
      BY <2>2, <2>3, <2>7
    <3> QED
      BY <2>1, <2>3, <2>5, <3>1 DEF NoticeInv, Page
  <2> QED
    BY <1>0, <2>6, <2>7
<1>3. CASE ReloadNow
  <2> DEFINE p == [Page EXCEPT !.reloadNow = TRUE, !.asked = proc'.run.id]
  <2>1. PageSays(p) /\ UNCHANGED <<note, banner>>
    BY <1>3 DEF ReloadNow
  <2>2. p.result = saves.page.result /\ p.open = saves.page.open
    BY <1>0 DEF ConfigPages, Page
  <2> HIDE DEF p
  <2> QED
    BY <1>c, <2>1, <2>2
<1>4. CASE ReloadAccepted
  <2> DEFINE p == [Page EXCEPT !.reloadNow = FALSE, !.active = Page.asked, !.status = "none"]
  <2>1. PageSays(p) /\ UNCHANGED <<note, banner>>
    BY <1>4 DEF ReloadAccepted
  <2>2. p.result = saves.page.result /\ p.open = saves.page.open
    BY <1>0 DEF ConfigPages, Page
  <2> HIDE DEF p
  <2> QED
    BY <1>c, <2>1, <2>2
<1>5. CASE Restart \/ ReloadByOther \/ ReloadMoves \/ ClockMoves
  BY <1>5, <1>b DEF Restart, ReloadByOther, ReloadMoves, ClockMoves
<1>6. CASE PollReload
  <2> DEFINE p == [Page EXCEPT !.status = proc.run.state]
  <2>1. PageSays(p) /\ UNCHANGED <<note, banner>>
    BY <1>6 DEF PollReload
  <2>2. p.result = saves.page.result /\ p.open = saves.page.open
    BY <1>0 DEF ConfigPages, Page
  <2> HIDE DEF p
  <2> QED
    BY <1>c, <2>1, <2>2
<1>7. CASE OpenOverview
  <2> DEFINE p == [ConfigPageMounted EXCEPT !.open = FALSE]
  <2>1. saves' = [saves EXCEPT !.page = p, !.mine = FALSE]
    BY <1>7 DEF OpenOverview
  <2>2. p.result = NoResult /\ p.open = FALSE
    BY DEF ConfigPageMounted
  <2> HIDE DEF p
  <2>3. saves'.page = p /\ saves'.mine = FALSE
    BY <1>0, <2>1 DEF SaveStates
  <2> QED
    BY <1>n, <2>2, <2>3 DEF NoticeInv, Page
<1>8. CASE OpenConfig
  <2>1. /\ saves' = [saves EXCEPT !.page = ConfigPageMounted]
        /\ banner' = [banner EXCEPT !.open = FALSE, !.pending = NoNote, !.still = FALSE]
    BY <1>8 DEF OpenConfig, PageSays
  <2>2. saves'.page = ConfigPageMounted /\ banner'.open = FALSE
    BY <1>0, <2>1 DEF SaveStates, Banners
  <2>3. ConfigPageMounted.result = NoResult
    BY DEF ConfigPageMounted
  <2> QED
    BY <1>n, <2>2, <2>3 DEF NoticeInv, Page
<1>9. CASE StatsArrive
  <2> DEFINE s == StatsOfNow
  <2>1. banner' = [banner EXCEPT !.stats = s] /\ UNCHANGED <<note, saves>>
    BY <1>9 DEF StatsArrive
  <2> HIDE DEF s
  <2>2. banner'.open = banner.open
    BY <1>0, <2>1 DEF Banners
  <2> QED
    BY <1>a, <2>1, <2>2
<1>10. CASE HeroRenders
  <2> DEFINE w == ~banner.still
  <2>1. banner.open /\ banner' = [banner EXCEPT !.still = w] /\ UNCHANGED saves
    BY <1>10 DEF HeroRenders
  <2> HIDE DEF w
  <2>2. banner'.open = banner.open
    BY <1>0, <2>1 DEF Banners
  <2> QED
    BY <2>1, <2>2 DEF NoticeInv, Page
<1> QED
  BY <1>1, <1>2, <1>3, <1>4, <1>5, <1>6, <1>7, <1>8, <1>9, <1>10 DEF ReloadNext

\* Whole seconds are not after the half second they were taken from, and less
\* than one before it.
LEMMA WholeSeconds == ASSUME NEW t \in Int PROVE SecondsOf(t) \in Int /\ SecondsOf(t) <= t /\ t <= SecondsOf(t) + 1
  BY DEF SecondsOf

\* With current statistics the start of the process is known to a half second.
LEMMA WarningIsHonest ==
    ASSUME ReloadInv, NoteInv, banner.stats = StatsOfNow
    PROVE  /\ proc.start >= banner.pending.at => PendingWarning = "none"
           /\ PendingWarning = "reload" => proc.unloaded \/ SecondsOf(proc.reloadedAt) < banner.pending.at
           /\ PendingWarning = "restart" => proc.deferred \/ proc.start < banner.pending.at
           /\ banner.pending.processRestart /\ proc.start + 1 < banner.pending.at - START_TIME_SLACK_MS =>
                PendingWarning = "restart"
<1> DEFINE at == banner.pending.at
           start == proc.start
           s == banner.stats
           up == SecondsOf(clock - start)
           loaded == proc.reloadedAt
<1>1. /\ clock \in Nat /\ start \in Nat /\ loaded \in Int /\ banner.pending \in Notes /\ at \in Int
      /\ banner.pending.runtimeReload \in BOOLEAN /\ banner.pending.processRestart \in BOOLEAN
  BY DEF ReloadInv, NoteInv, Procs, Banners, Notes
<1>2. /\ s.known = TRUE /\ s.uptime = up
      /\ s.reloadedAt = IF loaded < 0 THEN -1 ELSE SecondsOf(loaded)
  BY DEF StatsOfNow
<1>3. up \in Int /\ up <= clock - start /\ clock - start <= up + 1
  BY <1>1, WholeSeconds
<1>4. RestartedSince(banner.pending, s, clock) <=> clock - up >= at - 4
  BY <1>2 DEF RestartedSince, START_TIME_SLACK_MS
<1>5. ReloadedSince(banner.pending, s) <=> s.reloadedAt >= at
  BY <1>2 DEF ReloadedSince
<1> DEFINE R == RestartedSince(banner.pending, s, clock)
           L == ReloadedSince(banner.pending, s)
           p == banner.pending
<1>6. /\ Unapplied.processRestart <=> p # NoNote /\ p.processRestart /\ ~R
      /\ Unapplied.runtimeReload <=> p # NoNote /\ p.runtimeReload /\ ~L /\ ~R
  <2>1. CASE p = NoNote
    <3>1. Unapplied = NothingPending
      BY <2>1 DEF Unapplied, ResolvePendingChanges
    <3> QED
      BY <2>1, <3>1 DEF NothingPending
  <2>2. CASE p # NoNote
    <3> DEFINE a == p.runtimeReload /\ ~L /\ ~R
               b == p.processRestart /\ ~R
    <3>1. Unapplied = [runtimeReload |-> a, processRestart |-> b]
      BY <2>2 DEF Unapplied, ResolvePendingChanges
    <3> HIDE DEF a, b
    <3>2. Unapplied.runtimeReload = a /\ Unapplied.processRestart = b
      BY <3>1
    <3> QED
      BY <2>2, <3>2 DEF a, b
  <2> QED
    BY <2>1, <2>2
<1>7. p.processRestart => p # NoNote
  BY DEF NoNote
<1> HIDE DEF up, start, loaded, at, R, L
<1>8. start >= at => R
  BY <1>1, <1>3, <1>4 DEF R
<1>9. ~R => start < at
  BY <1>8, <1>1
<1>10. start + 1 < at - 4 => ~R
  BY <1>1, <1>3, <1>4 DEF R
<1>11. ~L => SecondsOf(loaded) < at
  <2>1. SecondsOf(loaded) \in Int /\ SecondsOf(loaded) <= loaded
    BY <1>1, WholeSeconds
  <2>2. CASE loaded < 0
    <3> DEFINE m == SecondsOf(loaded)
    <3>1. m \in Int /\ m <= loaded
      BY <2>1
    <3> HIDE DEF m
    <3>2. m < 0
      BY <1>1, <2>2, <3>1
    <3>3. ~L => ~(-1 >= at)
      BY <1>2, <1>5, <2>2 DEF L
    <3>4. ~L => at >= 0
      BY <1>1, <3>3
    <3>5. ~L => m < at
      BY <1>1, <3>1, <3>2, <3>4
    <3> QED
      BY <3>5 DEF m
  <2>3. CASE ~(loaded < 0)
    BY <1>1, <1>2, <1>5, <2>1, <2>3 DEF L
  <2> QED
    BY <2>2, <2>3
<1>12. /\ PendingWarning = "restart" <=> Unapplied.processRestart
       /\ PendingWarning = "reload" => Unapplied.runtimeReload
       /\ ~Unapplied.processRestart /\ ~Unapplied.runtimeReload => PendingWarning = "none"
  BY DEF PendingWarning
<1> QED
  BY <1>6, <1>7, <1>8, <1>9, <1>10, <1>11, <1>12 DEF start, at, loaded, START_TIME_SLACK_MS

\* What the reload page shows is honest.
LEMMA WarningsHold == ReloadInv /\ NoteInv /\ NoticeInv => WarningsAreHonest
<1> SUFFICES ASSUME ReloadInv, NoteInv, NoticeInv PROVE WarningsAreHonest
  OBVIOUS
<1>1. Page.result.known =>
         /\ PatchResultNotice.reloadNow = note.runtimeReload
         /\ PatchResultNotice.restartNow = note.processRestart
  <2> SUFFICES ASSUME Page.result.known
               PROVE  /\ PatchResultNotice.reloadNow = note.runtimeReload
                      /\ PatchResultNotice.restartNow = note.processRestart
    OBVIOUS
  <2> DEFINE r == Page.result
             a == r.known /\ r.reloadRequired /\ r.reload = 0
             b == r.known /\ r.restartRequired
  <2>1. /\ r.known \in BOOLEAN /\ r.reloadRequired \in BOOLEAN /\ r.restartRequired \in BOOLEAN
        /\ note.runtimeReload \in BOOLEAN /\ note.processRestart \in BOOLEAN
    BY DEF ReloadInv, NoteInv, SaveStates, ConfigPages, Results, Notes, Page
  <2>2. NoticeIsNoted(r, note)
    BY DEF NoticeInv
  <2>3. (a <=> note.runtimeReload) /\ (b <=> note.processRestart)
    BY <2>2 DEF NoticeIsNoted
  <2>4. a \in BOOLEAN /\ b \in BOOLEAN
    BY <2>1
  <2>5. PatchResultNotice = [reloadNow |-> a, restartNow |-> b]
    BY DEF PatchResultNotice
  <2> HIDE DEF a, b
  <2>6. PatchResultNotice.reloadNow = a /\ PatchResultNotice.restartNow = b
    BY <2>5
  <2> QED
    BY <2>1, <2>3, <2>4, <2>6
<1> QED
  BY <1>1, WarningIsHonest DEF WarningsAreHonest

(***************************************************************************)
(* A change shown on the counters page is between two answers of one run of  *)
(* Telemt, unless the uptime hid the restart, and its failures agree with    *)
(* the rows beside them (useCounterDeltas, CountersPage); and the warning of *)
(* unapplied changes is true of the process, its notice of the note that is  *)
(* kept (resolvePendingChanges, HealthHero, PatchResultNotice).              *)
(***************************************************************************)
THEOREM FiguresStayHonest == ConsoleSpec => []FiguresAreHonest
<1> DEFINE I == /\ On("counters") => CountersInv
                /\ On("reload") => ReloadInv /\ NoteInv /\ NoticeInv
<1>1. Init => I
  BY CountersOpen, ReloadInvInit, NoteInvInit, NoticeInit DEF Init, On
<1>2. I /\ [Next]_consoleVars => I'
  <2> SUFFICES ASSUME I, [Next]_consoleVars PROVE I'
    OBVIOUS
  <2>1. CASE Next
    <3>1. On("counters") => CountersInv'
      BY <2>1, OnePage, CountersSteps
    <3>2. On("reload") => ReloadInv' /\ NoteInv' /\ NoticeInv'
      BY <2>1, OnePage, ReloadInvStep, NoteSteps, NoticeStep
    <3>3. screen' = screen
      BY <2>1, OnePage
    <3> QED
      BY <3>1, <3>2, <3>3 DEF On
  <2>2. CASE UNCHANGED consoleVars
    <3>1. /\ screen' = screen /\ zero' = zero /\ deltas' = deltas /\ ctrTime' = ctrTime
          /\ clock' = clock /\ proc' = proc /\ saves' = saves /\ note' = note /\ banner' = banner
      BY <2>2 DEF consoleVars, operationVars, diagnosticVars, ctrVars, reloadVars
    <3>2. CountersInv => CountersInv'
      BY <3>1 DEF CountersInv
    <3>3. ReloadInv /\ NoteInv /\ NoticeInv => ReloadInv' /\ NoteInv' /\ NoticeInv'
      BY <3>1 DEF ReloadInv, NoteInv, NoticeInv, Page
    <3> QED
      BY <3>1, <3>2, <3>3 DEF On
  <2> QED
    BY <2>1, <2>2
<1>3. I => FiguresAreHonest
  BY KeptIsHonest, WarningsHold DEF FiguresAreHonest
<1> QED
  BY <1>1, <1>2, <1>3, PTL DEF ConsoleSpec

-----------------------------------------------------------------------------
(***************************************************************************)
(* What a page needs to keep the operator's work: its own invariant.        *)
(***************************************************************************)
KeptInv ==
    /\ On("config") => EditorInv /\ DocsInv
    /\ On("policy") => AutoInv
    /\ On("settings") => SettingsInv
    /\ On("person") => PersonInv
    /\ On("geography") => GeoInv /\ PositionInv
    /\ On("reload") => ReloadInv /\ NoteInv

\* The steps of the open page keep its invariant and the operator's work.
LEMMA KeptSteps == KeptInv /\ Next => KeptInv' /\ WorkIsKept
<1> SUFFICES ASSUME KeptInv, Next PROVE KeptInv' /\ WorkIsKept
  OBVIOUS
<1>0. \A s : On(s)' <=> On(s)
  BY OnePage DEF On
<1>1. On("config") => EditorInv' /\ DocsInv' /\ TypedIsKept
  BY OnePage, EditorInvStep, ConfigSteps DEF KeptInv
<1>2. On("policy") => AutoInv' /\ PolicyDraftKept
  BY OnePage, PolicySteps DEF KeptInv
<1>3. On("settings") => SettingsInv' /\ SettingsDraftsKept
  BY OnePage, SettingsSteps DEF KeptInv
<1>4. On("person") => PersonInv' /\ LateEditsKept /\ AskedIsConfirmed
  BY OnePage, PersonSteps DEF KeptInv
<1>5. On("geography") => GeoInv' /\ PositionInv' /\ GeoDraftKept
  BY OnePage, GeoInvStep, PositionSteps DEF KeptInv
<1>6. On("reload") => ReloadInv' /\ NoteInv' /\ RestartIsRemembered
  BY OnePage, ReloadInvStep, NoteSteps DEF KeptInv
<1>7. KeptInv'
  BY <1>0, <1>1, <1>2, <1>3, <1>4, <1>5, <1>6 DEF KeptInv
<1>8. WorkIsKept
  BY <1>1, <1>2, <1>3, <1>4, <1>5, <1>6 DEF WorkIsKept
<1> QED
  BY <1>7, <1>8

(***************************************************************************)
(* No answer, refetch or frame takes away what the operator typed, chose or *)
(* was told to do, on any page and for any number of documents, values,     *)
(* answers, clicks and faults: neither of the configuration drafts, the     *)
(* update policy, the settings forms, the user, WEB account and schedule    *)
(* forms, the question being confirmed, the server's position, nor the note *)
(* that Telemt needs a restart (draftSession.ts and each form's onSuccess;  *)
(* UserActionSheet; pendingChanges.ts).  The four cases in which the code   *)
(* does lose a draft are steps of the model and are excepted by name: a     *)
(* failed GET of the updates, GeoIP's Disable, a failed poll of the         *)
(* schedule and a user who leaves the users frame.                          *)
(***************************************************************************)
THEOREM WorkStaysKept == ConsoleSpec => DraftsKept
<1>1. Init => KeptInv
  <2>1. ASSUME Init, On("config") PROVE EditorInv /\ DocsInv
    BY <2>1, EditorInvInit, DocsInvInit DEF Init
  <2>2. ASSUME Init, On("policy") PROVE AutoInv
    BY <2>2, AutoInvInit DEF Init
  <2>3. ASSUME Init, On("settings") PROVE SettingsInv
    BY <2>3, SettingsInvInit DEF Init
  <2>4. ASSUME Init, On("person") PROVE PersonInv
    BY <2>4, PersonInvInit DEF Init
  <2>5. ASSUME Init, On("geography") PROVE GeoInv /\ PositionInv
    BY <2>5, GeoInvInit, PositionInvInit DEF Init
  <2>6. ASSUME Init, On("reload") PROVE ReloadInv /\ NoteInv
    BY <2>6, ReloadInvInit, NoteInvInit DEF Init
  <2> QED
    BY <2>1, <2>2, <2>3, <2>4, <2>5, <2>6 DEF KeptInv
<1>2. KeptInv /\ UNCHANGED consoleVars => KeptInv'
  <2> SUFFICES ASSUME KeptInv, UNCHANGED consoleVars PROVE KeptInv'
    OBVIOUS
  <2>1. /\ screen' = screen /\ telemt' = telemt /\ ed' = ed /\ tm' = tm /\ auto' = auto
        /\ section' = section /\ stored' = stored /\ setForm' = setForm
        /\ pane' = pane /\ srv' = srv /\ ppl' = ppl /\ atlas' = atlas /\ geo' = geo
        /\ clock' = clock /\ proc' = proc /\ note' = note /\ saves' = saves
        /\ banner' = banner
    BY DEF consoleVars, operationVars, configVars, reloadVars, autoVars, setVars, peopleVars,
           pplVars, geographyVars, geoVars
  <2>2. (On("config") => EditorInv /\ DocsInv)'
    BY <2>1 DEF KeptInv, On, EditorInv, DocsInv
  <2>3. (On("policy") => AutoInv)'
    BY <2>1 DEF KeptInv, On, AutoInv
  <2>4. (On("settings") => SettingsInv)'
    BY <2>1 DEF KeptInv, On, SettingsInv, FormsInv, AccessInv
  <2>5. (On("person") => PersonInv)'
    BY <2>1 DEF KeptInv, On, PersonInv
  <2>6. (On("geography") => GeoInv /\ PositionInv)'
    BY <2>1 DEF KeptInv, On, GeoInv, PositionInv
  <2>7. (On("reload") => ReloadInv /\ NoteInv)'
    BY <2>1 DEF KeptInv, On, ReloadInv, NoteInv, Page
  <2> QED
    BY <2>2, <2>3, <2>4, <2>5, <2>6, <2>7 DEF KeptInv
<1>3. KeptInv /\ [Next]_consoleVars => KeptInv' /\ [WorkIsKept]_consoleVars
  BY <1>2, KeptSteps
<1> QED
  BY <1>1, <1>3, PTL DEF ConsoleSpec, DraftsKept

-----------------------------------------------------------------------------
(***************************************************************************)
(* The WEB transport page: the sessions a close is asked about.            *)
(***************************************************************************)

\* The registry and the page, whatever the values of most fields.
Registries == [runtime : Nat, live : SUBSET SessionRefs]
WebShape(w) ==
    w = [status |-> w.status, tab |-> w.tab, filter |-> w.filter, query |-> w.query,
         reveal |-> w.reveal, rows |-> w.rows, pages |-> w.pages, more |-> w.more,
         list |-> w.list, fetch |-> w.fetch, intent |-> w.intent, picked |-> w.picked,
         sending |-> w.sending, sent |-> w.sent, asked |-> w.asked, fence |-> w.fence, op |-> w.op]
RowsOK(s) == s \in Seq(ToSet(s))

\* A question takes, of the sessions in memory, the ones it is about.
IntentOK(i) ==
    i # NoIntent =>
        /\ i.kind \in {"session", "refs", "filter", "all"}
        /\ {r \in i.loaded : SelectorTakes(WebCloseSelector(i), r)} = i.seen
        /\ i.kind \in {"session", "refs"} => Cardinality(i.refs) \in 1..WEB_CLOSE_MAX_REFS
Submitted(w) ==
    /\ w.asked # NoIntent /\ IntentOK(w.asked)
    /\ w.sent = WebCloseSelector(w.asked) /\ w.fence # 0
WebInv ==
    /\ registry \in Registries /\ WebShape(web) /\ web.pages \in Nat /\ RowsOK(web.rows)
    /\ IntentOK(web.intent)
    /\ web.sending => Submitted(web)

\* A sequence over some set is one over its own elements, of which there are
\* finitely many.
LEMMA RowsAreFinite ==
    ASSUME NEW V, NEW s \in Seq(V)
    PROVE  RowsOK(s) /\ IsFiniteSet(ToSet(s))
<1> DEFINE n == Len(s)
           f == [i \in 1..n |-> s[i]]
<1>1. n \in Nat /\ DOMAIN s = 1..n /\ s = f
  OBVIOUS
<1>2. ToSet(s) = {s[i] : i \in 1..n}
  BY <1>1 DEF ToSet
<1> HIDE DEF n
<1>3. f \in [1..n -> ToSet(s)]
  BY <1>2
<1>4. RowsOK(s)
  <2>1. s \in [1..n -> ToSet(s)]
    BY <1>1, <1>3
  <2> QED
    BY <1>1, <2>1 DEF RowsOK
<1>5. f \in Surjection(1..n, ToSet(s))
  BY <1>2, <1>3 DEF Surjection
<1>6. IsFiniteSet(1..n)
  <2> DEFINE a == 1
  <2>1. a \in Int /\ n \in Int
    BY <1>1
  <2> HIDE DEF a
  <2>2. IsFiniteSet(a..n)
    BY <2>1, FS_Interval
  <2> QED
    BY <2>2 DEF a
<1> HIDE DEF f
<1>7. IsFiniteSet(ToSet(s))
  BY <1>5, <1>6, FS_Surjection
<1> QED
  BY <1>4, <1>7

\* A page of live sessions is a sequence.
LEMMA PagesAreRows ==
    ASSUME NEW live \in SUBSET SessionRefs, NEW n \in Nat
    PROVE  \E V : PagesOf(live, n) \in Seq(V)
<1> DEFINE all == InOrder(live)
           c == Cardinality(live)
           V == {all[i] : i \in 1..c}
           m == n * SESSIONS_PAGE_SIZE
           k == IF m < Len(all) THEN m ELSE Len(all)
<1>1. c \in Nat
  <2> DEFINE a == 1
             b == 3
  <2>1. a \in Int /\ b \in Int /\ SessionRefs = a..b
    BY DEF SessionRefs
  <2> HIDE DEF a, b
  <2>2. IsFiniteSet(SessionRefs)
    BY <2>1, FS_Interval
  <2> QED
    BY <2>2, FS_Subset, FS_CardinalityType
<1>2. all = [i \in 1..c |-> all[i]]
  <2> DEFINE At(i) == CHOOSE r \in live : Cardinality({q \in live : q <= r}) = i
  <2>1. all = [i \in 1..c |-> At(i)]
    BY DEF InOrder
  <2> HIDE DEF At, all, c
  <2> QED
    BY <2>1
<1>3. PagesOf(live, n) = SubSeq(all, 1, k)
  BY DEF PagesOf
<1>4. m \in Nat
  BY DEF SESSIONS_PAGE_SIZE
<1> HIDE DEF all, c, m
<1>5. all \in Seq(V) /\ Len(all) = c
  BY <1>1, <1>2
<1>6. k \in 0..c
  BY <1>1, <1>4, <1>5
<1> HIDE DEF k
<1>7. SubSeq(all, 1, k) \in Seq(V)
  BY <1>1, <1>6, SubSeqProperties
<1> QED
  BY <1>3, <1>7

\* So is a list with one page more.
LEMMA ListGrows ==
    ASSUME NEW A, NEW s \in Seq(A), NEW B, NEW t \in Seq(B)
    PROVE  s \o t \in Seq(A \cup B)
<1>1. s \in Seq(A \cup B) /\ t \in Seq(A \cup B)
  OBVIOUS
<1> QED
  BY <1>1, ConcatProperties

\* Telemt's match, by the kind of selector.
LEMMA TakenBy ==
    ASSUME NEW sel, NEW r
    PROVE  /\ sel.kind = "refs" => (SelectorTakes(sel, r) <=> r \in sel.refs)
           /\ sel.kind = "all" => SelectorTakes(sel, r)
           /\ sel.kind = "filter" => (SelectorTakes(sel, r) <=> WebSessionMatches(r, sel.filter, ""))
<1>1. CASE sel.kind = "refs"
  <2>1. sel.kind # "all" /\ sel.kind # "filter"
    BY <1>1
  <2> QED
    BY <1>1, <2>1 DEF SelectorTakes
<1>2. CASE sel.kind = "all"
  <2>1. sel.kind # "refs" /\ sel.kind # "filter"
    BY <1>2
  <2> QED
    BY <1>2, <2>1 DEF SelectorTakes
<1>3. CASE sel.kind = "filter"
  <2>1. sel.kind # "refs" /\ sel.kind # "all"
    BY <1>3
  <2> QED
    BY <1>3, <2>1 DEF SelectorTakes
<1> QED
  BY <1>1, <1>2, <1>3

\* The fields of a question.
LEMMA IntentFields ==
    ASSUME NEW k, NEW refs, NEW f, NEW seen, NEW loaded, NEW y,
           y = [kind |-> k, refs |-> refs, filter |-> f, seen |-> seen, loaded |-> loaded]
    PROVE  y.kind = k /\ y.refs = refs /\ y.filter = f /\ y.seen = seen /\ y.loaded = loaded
  OBVIOUS

\* A question about one session takes that session.
LEMMA SessionAsked ==
    ASSUME NEW p, NEW loaded, p \in loaded, NEW i, i = Intent("session", {p}, "all", {p}, loaded)
    PROVE  IntentOK(i)
<1> DEFINE s == {p}
<1>1. Cardinality(s) = 1
  BY FS_Singleton
<1>2. i = [kind |-> "session", refs |-> s, filter |-> "all", seen |-> s, loaded |-> loaded]
  BY DEF Intent
<1>3. \A r : r \in s <=> r = p
  OBVIOUS
<1> HIDE DEF s
<1>4. i.kind = "session" /\ i.refs = s /\ i.seen = s /\ i.loaded = loaded
  BY <1>2
<1>5. WebCloseSelector(i).kind = "refs" /\ WebCloseSelector(i).refs = s
  BY <1>4 DEF WebCloseSelector
<1>6. \A r : SelectorTakes(WebCloseSelector(i), r) <=> r \in s
  BY <1>5, TakenBy
<1> QED
  BY <1>1, <1>3, <1>4, <1>6 DEF IntentOK, WEB_CLOSE_MAX_REFS

\* A question about all takes all the sessions in memory.
LEMMA AllAsked ==
    ASSUME NEW loaded, NEW i, i = Intent("all", {}, "all", loaded, loaded)
    PROVE  IntentOK(i)
<1> DEFINE e == {}
<1>2. i = [kind |-> "all", refs |-> e, filter |-> "all", seen |-> loaded, loaded |-> loaded]
  BY DEF Intent
<1> HIDE DEF e
<1>4. i.kind = "all" /\ i.seen = loaded /\ i.loaded = loaded
  BY <1>2
<1>5. WebCloseSelector(i).kind = "all"
  BY <1>4 DEF WebCloseSelector
<1>6. \A r : SelectorTakes(WebCloseSelector(i), r)
  BY <1>5, TakenBy
<1> QED
  BY <1>4, <1>6 DEF IntentOK

\* The rows found.
Matching(loaded, f, q) == {r \in loaded : WebSessionMatches(r, f, q)}

\* A question about a filter takes the rows it matches.
LEMMA FilterAsked ==
    ASSUME NEW loaded, NEW chosen, NEW refs, NEW found, found = Matching(loaded, chosen, ""),
           NEW i, i = [kind |-> "filter", refs |-> refs, filter |-> chosen, seen |-> found,
                       loaded |-> loaded]
    PROVE  IntentOK(i)
<1>1. i.kind = "filter" /\ i.seen = found /\ i.loaded = loaded /\ i.filter = chosen
  BY IntentFields
<1>2. WebCloseSelector(i).kind = "filter" /\ WebCloseSelector(i).filter = chosen
  BY <1>1 DEF WebCloseSelector
<1>3. \A r : SelectorTakes(WebCloseSelector(i), r) <=> WebSessionMatches(r, chosen, "")
  BY <1>2, TakenBy
<1> QED
  BY <1>1, <1>3 DEF IntentOK, Matching

\* A question about a list takes the list, which fits in one request.
LEMMA RefsAsked ==
    ASSUME NEW loaded, IsFiniteSet(loaded), NEW chosen, NEW found \in SUBSET loaded, found # {},
           ~(Cardinality(found) > WEB_CLOSE_MAX_REFS),
           NEW i, i = [kind |-> "refs", refs |-> found, filter |-> chosen, seen |-> found,
                       loaded |-> loaded]
    PROVE  IntentOK(i)
<1>1. i.kind = "refs" /\ i.seen = found /\ i.loaded = loaded /\ i.refs = found
  BY IntentFields
<1>2. WebCloseSelector(i).kind = "refs" /\ WebCloseSelector(i).refs = found
  BY <1>1 DEF WebCloseSelector
<1>3. \A r : SelectorTakes(WebCloseSelector(i), r) <=> r \in found
  BY <1>2, TakenBy
<1>4. Cardinality(i.refs) \in 1..WEB_CLOSE_MAX_REFS
  <2> DEFINE n == Cardinality(found)
  <2>1. IsFiniteSet(found)
    BY FS_Subset
  <2>2. n \in Nat /\ n # 0
    BY <2>1, FS_CardinalityType, FS_EmptySet
  <2>3. ~(n > WEB_CLOSE_MAX_REFS) /\ Cardinality(i.refs) = n
    BY <1>1
  <2> HIDE DEF n
  <2> QED
    BY <2>2, <2>3 DEF WEB_CLOSE_MAX_REFS
<1> QED
  BY <1>1, <1>3, <1>4 DEF IntentOK

\* A filter stands for the rows found only without a search.
LEMMA FoundAsked ==
    ASSUME NEW loaded, IsFiniteSet(loaded), NEW chosen, NEW query, NEW narrowed \in BOOLEAN,
           ~narrowed => query = "", NEW i,
           i = WebCloseIntent(chosen, Matching(loaded, chosen, query), narrowed, loaded)
    PROVE  IntentOK(i)
<1> DEFINE e == {}
           found == Matching(loaded, chosen, query)
<1>1. \/ i = NoIntent
      \/ /\ ~narrowed
         /\ i = [kind |-> "filter", refs |-> e, filter |-> chosen, seen |-> found, loaded |-> loaded]
      \/ /\ found # {} /\ ~(Cardinality(found) > WEB_CLOSE_MAX_REFS)
         /\ i = [kind |-> "refs", refs |-> found, filter |-> chosen, seen |-> found, loaded |-> loaded]
  BY DEF WebCloseIntent, Intent
<1>2. found \in SUBSET loaded /\ (~narrowed => found = Matching(loaded, chosen, ""))
  BY DEF Matching
<1> HIDE DEF e, found
<1>3. i = NoIntent => IntentOK(i)
  BY DEF IntentOK
<1> QED
  BY <1>1, <1>2, <1>3, FilterAsked, RefsAsked

\* The page opens with no question and no rows.
LEMMA WebInvInit == WebInit => WebInv
<1> SUFFICES ASSUME WebInit PROVE WebInv
  OBVIOUS
<1> DEFINE e == << >>
           l == [kind |-> "loading"]
           n == [kind |-> "none"]
           o == 0
           u == SESSION_REVEAL_SIZE
           none == NoIntent
<1>1. web = [status |-> l, tab |-> "overview", filter |-> "all", query |-> "",
             reveal |-> u, rows |-> e, pages |-> o, more |-> FALSE, list |-> "pending",
             fetch |-> "none", intent |-> none, picked |-> o, sending |-> FALSE, sent |-> n,
             asked |-> none, fence |-> o, op |-> "none"]
  BY DEF WebInit
<1>2. registry \in Registries
  BY DEF WebInit, Registries, SessionRefs
<1>3. e \in Seq({}) /\ o \in Nat
  OBVIOUS
<1>4. RowsOK(e)
  BY <1>3, RowsAreFinite
<1> HIDE DEF e, l, n, o, u, none
<1>5. /\ WebShape(web) /\ web.pages = o /\ web.rows = e /\ web.intent = none /\ ~web.sending
  BY <1>1 DEF WebShape
<1> QED
  BY <1>2, <1>3, <1>4, <1>5 DEF WebInv, IntentOK, none

\* Every step of the page keeps the invariant.
LEMMA WebInvStep == WebInv /\ WebNext => WebInv'
<1> SUFFICES ASSUME WebInv, WebNext PROVE WebInv'
  OBVIOUS
<1>0. /\ registry \in Registries /\ WebShape(web) /\ web.pages \in Nat /\ RowsOK(web.rows)
      /\ IntentOK(web.intent) /\ (web.sending => Submitted(web)) /\ IntentOK(NoIntent)
      /\ IsFiniteSet(ToSet(web.rows))
  BY RowsAreFinite DEF WebInv, RowsOK, IntentOK
\* Steps that ask and submit nothing.
<1>1. ASSUME registry' \in Registries, WebShape(web'), web'.pages \in Nat, RowsOK(web'.rows),
             IntentOK(web'.intent), web'.sending => web.sending, web'.asked = web.asked,
             web'.sent = web.sent, web'.fence = web.fence
      PROVE  WebInv'
  <2>1. web'.sending => Submitted(web')
    BY <1>0, <1>1 DEF Submitted
  <2> QED
    BY <1>1, <2>1 DEF WebInv
\* Steps that do not touch rows, questions or requests.
<1>2. ASSUME NEW w, web' = w, registry' \in Registries, WebShape(w), w.pages = web.pages,
             w.rows = web.rows, w.intent \in {web.intent, NoIntent}, w.sending = web.sending,
             w.asked = web.asked, w.sent = web.sent, w.fence = web.fence
      PROVE  WebInv'
  BY <1>0, <1>1, <1>2
<1>3. CASE WebStatusArrives
  <2>1. PICK s, f : web' = [web EXCEPT !.status = s, !.fetch = f] /\ registry' = registry
    BY <1>3 DEF WebStatusArrives
  <2>2. /\ WebShape(web') /\ web'.pages = web.pages /\ web'.rows = web.rows
        /\ web'.intent = web.intent /\ web'.sending = web.sending /\ web'.asked = web.asked
        /\ web'.sent = web.sent /\ web'.fence = web.fence
    BY <1>0, <2>1 DEF WebShape
  <2> QED
    BY <1>0, <1>1, <2>1, <2>2
<1>4. CASE RegistryMoves
  <2>1. web' = web
    BY <1>4 DEF RegistryMoves
  <2>2. registry' \in Registries
    BY <1>0, <1>4 DEF RegistryMoves, Registries
  <2> QED
    BY <1>0, <1>2, <2>1, <2>2
<1>5. CASE SessionsArrive
  <2> DEFINE n == IF web.fetch = "more" THEN web.pages + 1 ELSE IF web.pages = 0 THEN 1 ELSE web.pages
             more == Beyond(registry.live, web.rows)
             rows == IF web.fetch = "more" THEN web.rows \o PagesOf(more, 1)
                     ELSE PagesOf(registry.live, n)
             b == rows # <<>> /\ Beyond(registry.live, rows) # {}
  <2>1. /\ registry' = registry
        /\ \/ web' = [web EXCEPT !.list = "ready", !.fetch = "none", !.pages = n, !.rows = rows,
                                 !.more = b]
           \/ web' = [web EXCEPT !.list = "error", !.fetch = "none"]
    BY <1>5 DEF SessionsArrive
  <2>2. n \in Nat
    BY <1>0
  <2> HIDE DEF n
  <2>3. registry.live \in SUBSET SessionRefs /\ more \in SUBSET SessionRefs
    BY <1>0 DEF Registries, Beyond
  <2> HIDE DEF more
  <2>4. RowsOK(rows)
    <3> DEFINE one == 1
               p == PagesOf(more, one)
               q == PagesOf(registry.live, n)
    <3>1. rows = q \/ rows = web.rows \o p
      OBVIOUS
    <3>2. one \in Nat
      OBVIOUS
    <3> HIDE DEF one
    <3>3. PICK B : p \in Seq(B)
      BY <2>3, <3>2, PagesAreRows
    <3>4. PICK C : q \in Seq(C)
      BY <2>2, <2>3, PagesAreRows
    <3>5. web.rows \o p \in Seq(ToSet(web.rows) \cup B)
      BY <1>0, <3>3, ListGrows DEF RowsOK
    <3> HIDE DEF p, q
    <3> QED
      BY <3>1, <3>4, <3>5, RowsAreFinite
  <2> HIDE DEF rows, b
  <2>5. CASE web' = [web EXCEPT !.list = "ready", !.fetch = "none", !.pages = n, !.rows = rows,
                                !.more = b]
    <3>1. /\ WebShape(web') /\ web'.pages = n /\ web'.rows = rows /\ web'.intent = web.intent
          /\ web'.sending = web.sending /\ web'.asked = web.asked /\ web'.sent = web.sent
          /\ web'.fence = web.fence
      BY <1>0, <2>5 DEF WebShape
    <3> QED
      BY <1>0, <1>1, <2>1, <2>2, <2>4, <3>1
  <2>6. CASE web' = [web EXCEPT !.list = "error", !.fetch = "none"]
    <3>1. /\ WebShape(web') /\ web'.pages = web.pages /\ web'.rows = web.rows
          /\ web'.intent = web.intent /\ web'.sending = web.sending /\ web'.asked = web.asked
          /\ web'.sent = web.sent /\ web'.fence = web.fence
      BY <1>0, <2>6 DEF WebShape
    <3> QED
      BY <1>0, <1>1, <2>1, <3>1
  <2> QED
    BY <2>1, <2>5, <2>6
<1>6. CASE \/ LoadMore \/ RetrySessions \/ SetWebTab \/ FilterSessions \/ SearchSessions
           \/ RevealSessions \/ OpenSession \/ CloseSurface \/ OperationReported
  <2>1. /\ registry' = registry
        /\ \/ \E x : web' = [web EXCEPT !.fetch = x]
           \/ \E x : web' = [web EXCEPT !.tab = x]
           \/ \E x, y : web' = [web EXCEPT !.filter = x, !.reveal = y]
           \/ \E x, y : web' = [web EXCEPT !.query = x, !.reveal = y]
           \/ \E x : web' = [web EXCEPT !.reveal = x]
           \/ \E x : web' = [web EXCEPT !.picked = x]
           \/ web' = [web EXCEPT !.intent = NoIntent]
           \/ \E x : web' = [web EXCEPT !.op = "none", !.fetch = x]
           \/ web' = [web EXCEPT !.op = "none"]
    BY <1>6 DEF LoadMore, RetrySessions, SetWebTab, FilterSessions, SearchSessions,
         RevealSessions, OpenSession, CloseSurface, OperationReported, Clicked
  <2> DEFINE none == NoIntent
  <2>2. none = NoIntent
    OBVIOUS
  <2> HIDE DEF none
  <2>3. /\ WebShape(web') /\ web'.pages = web.pages /\ web'.rows = web.rows
        /\ web'.intent \in {web.intent, none} /\ web'.sending = web.sending
        /\ web'.asked = web.asked /\ web'.sent = web.sent /\ web'.fence = web.fence
    BY <1>0, <2>1, <2>2 DEF WebShape
  <2> QED
    BY <1>0, <1>1, <2>1, <2>2, <2>3
\* A question is asked.
<1>7. ASSUME NEW i, web' = [web EXCEPT !.intent = i], IntentOK(i), registry' = registry
      PROVE  WebInv'
  <2>1. /\ WebShape(web') /\ web'.pages = web.pages /\ web'.rows = web.rows
        /\ web'.intent = i /\ web'.sending = web.sending
        /\ web'.asked = web.asked /\ web'.sent = web.sent /\ web'.fence = web.fence
    BY <1>0, <1>7 DEF WebShape
  <2> QED
    BY <1>0, <1>1, <1>7, <2>1
<1>8. CASE AskSession
  <2> DEFINE p == web.picked
             l == ToSet(web.rows) \cup {p}
             i == Intent("session", {p}, "all", {p}, l)
  <2>1. web' = [web EXCEPT !.intent = i] /\ registry' = registry
    BY <1>8 DEF AskSession, Clicked
  <2>2. p \in l
    OBVIOUS
  <2>3. IntentOK(i)
    <3> HIDE DEF p, l
    <3> QED
      BY <2>2, SessionAsked
  <2> HIDE DEF i
  <2> QED
    BY <1>7, <2>1, <2>3
<1>9. CASE AskFound
  <2> DEFINE l == ToSet(web.rows)
             f == web.filter
             q == web.query
             narrowed == web.query # ""
             i == WebCloseIntent(f, Matching(l, f, q), narrowed, l)
  <2>1. web' = [web EXCEPT !.intent = i] /\ registry' = registry
    BY <1>9 DEF AskFound, Clicked, FoundRefs, Matching
  <2>2. IsFiniteSet(l) /\ narrowed \in BOOLEAN /\ (~narrowed => q = "")
    BY <1>0
  <2>3. IntentOK(i)
    <3> HIDE DEF l, f, q, narrowed
    <3> QED
      BY <2>2, FoundAsked
  <2> HIDE DEF i
  <2> QED
    BY <1>7, <2>1, <2>3
<1>10. CASE AskAll
  <2> DEFINE l == ToSet(web.rows)
             i == Intent("all", {}, "all", l, l)
  <2>1. web' = [web EXCEPT !.intent = i] /\ registry' = registry
    BY <1>10 DEF AskAll, Clicked
  <2>2. IntentOK(i)
    <3> HIDE DEF l
    <3> QED
      BY AllAsked
  <2> HIDE DEF i
  <2> QED
    BY <1>7, <2>1, <2>2
\* The question as it is when it is confirmed is what is sent.
<1>11. CASE SubmitClose
  <2> DEFINE i == web.intent
             s == WebCloseSelector(web.intent)
             f == RuntimeInstance
  <2>1. /\ web' = [web EXCEPT !.sending = TRUE, !.sent = s, !.asked = i, !.fence = f]
        /\ registry' = registry /\ i # NoIntent /\ f # 0
    BY <1>11 DEF SubmitClose, Clicked, CanClose
  <2>2. s = WebCloseSelector(i) /\ IntentOK(i)
    BY <1>0
  <2> HIDE DEF s, f
  <2>3. /\ WebShape(web') /\ web'.pages = web.pages /\ web'.rows = web.rows
        /\ web'.intent = web.intent /\ web'.asked = i /\ web'.sent = s /\ web'.fence = f
    <3> HIDE DEF i
    <3>1. /\ WebShape(web') /\ web'.pages = web.pages /\ web'.rows = web.rows
          /\ web'.intent = web.intent /\ web'.asked = i /\ web'.sent = s /\ web'.fence = f
      BY <1>0, <2>1 DEF WebShape
    <3> QED
      BY <3>1
  <2> HIDE DEF i
  <2>4. Submitted(web')
    BY <2>1, <2>2, <2>3 DEF Submitted
  <2> QED
    BY <1>0, <2>1, <2>3, <2>4 DEF WebInv
<1>12. CASE CloseAnswered
  <2> DEFINE x == IF web.intent.kind = "session" THEN 0 ELSE web.picked
             none == NoIntent
             l == {r \in registry.live : ~SelectorTakes(web.sent, r)}
  <2>1. /\ \/ web' = [web EXCEPT !.sending = FALSE, !.intent = none, !.op = "running", !.picked = x]
           \/ web' = [web EXCEPT !.sending = FALSE, !.intent = none]
        /\ registry' = registry \/ registry' = [registry EXCEPT !.live = l]
    BY <1>12 DEF CloseAnswered
  <2>2. l \in SUBSET SessionRefs
    BY <1>0 DEF Registries
  <2>3. IntentOK(none)
    BY <1>0
  <2> HIDE DEF x, none, l
  <2>4. registry' \in Registries
    BY <1>0, <2>1, <2>2 DEF Registries
  <2>5. /\ WebShape(web') /\ web'.pages = web.pages /\ web'.rows = web.rows
        /\ web'.intent = none /\ ~web'.sending /\ web'.asked = web.asked /\ web'.sent = web.sent
        /\ web'.fence = web.fence
    BY <1>0, <2>1 DEF WebShape
  <2> QED
    BY <1>0, <1>1, <2>3, <2>4, <2>5
<1> QED
  BY <1>3, <1>4, <1>5, <1>6, <1>8, <1>9, <1>10, <1>11, <1>12 DEF WebNext

\* What is sent is what was asked.
LEMMA WebIsMeant == WebInv => CloseIsWhatWasAsked
<1> SUFFICES ASSUME WebInv, web.sending PROVE CloseIsWhatWasAsked
  BY DEF CloseIsWhatWasAsked
<1>1. Submitted(web)
  BY DEF WebInv
<1> DEFINE i == web.asked
<1>2. /\ i.kind \in {"session", "refs", "filter", "all"}
      /\ {r \in i.loaded : SelectorTakes(web.sent, r)} = i.seen
      /\ i.kind \in {"session", "refs"} => Cardinality(i.refs) \in 1..WEB_CLOSE_MAX_REFS
      /\ web.sent = WebCloseSelector(i) /\ web.fence # 0
  BY <1>1 DEF Submitted, IntentOK
<1> HIDE DEF i
<1>3. web.sent.kind = "refs" => i.kind \in {"session", "refs"} /\ web.sent.refs = i.refs
  BY <1>2 DEF WebCloseSelector
<1> QED
  BY <1>2, <1>3 DEF CloseIsWhatWasAsked, i

(***************************************************************************)
(* What is sent is what the operator meant, for any number of clicks,       *)
(* answers, sessions that come and go and runtimes that restart: a user's   *)
(* PATCH holds the fields they touched, the rule of a schedule that is to   *)
(* take effect was previewed as sent and no invalid rule is ever stored,    *)
(* and a close takes, of the sessions in memory, those it was asked about   *)
(* and no other (buildUserPatch, ScheduleForm, webCloseSelector).           *)
(***************************************************************************)
THEOREM RequestsStayMeant == ConsoleSpec => []RequestsAreMeant
<1> DEFINE I == (On("person") => PersonInv) /\ (On("web") => WebInv)
<1>1. Init => I
  <2>1. ASSUME Init, On("person") PROVE PersonInv
    BY <2>1, PersonInvInit DEF Init
  <2>2. ASSUME Init, On("web") PROVE WebInv
    BY <2>2, WebInvInit DEF Init
  <2> QED
    BY <2>1, <2>2
<1>2. I /\ [Next]_consoleVars => I'
  <2> SUFFICES ASSUME I, [Next]_consoleVars PROVE I'
    OBVIOUS
  <2>1. CASE Next
    BY <2>1, OnePage, PersonSteps, WebInvStep DEF On
  <2>2. CASE UNCHANGED consoleVars
    <3>1. /\ screen' = screen /\ pane' = pane /\ srv' = srv /\ ppl' = ppl
          /\ registry' = registry /\ web' = web
      BY <2>2 DEF consoleVars, peopleVars, pplVars, diagnosticVars, webVars
    <3> QED
      BY <3>1 DEF On, PersonInv, WebInv
  <2> QED
    BY <2>1, <2>2
<1>3. I => RequestsAreMeant
  BY PersonRequests, WebIsMeant DEF RequestsAreMeant
<1> QED
  BY <1>1, <1>2, <1>3, PTL DEF ConsoleSpec

(***************************************************************************)
(* Lists and what stands beside them: the people, one person's addresses    *)
(* and the WEB page.                                                        *)
(***************************************************************************)

\* The users the frames bring, and the state of the list.
ListedUsers == Persons \union {Healthy}
ListViews ==
    [users : [People -> ListedUsers], pending : BOOLEAN, shown : BOOLEAN,
     search : People \union {"none"}, filter : UserFilters,
     sort : [field : {"connections", "name", "traffic"}, asc : BOOLEAN],
     at : People \union {"top"}, back : People \union {"none"},
     swiped : People \union {"none"}, sheet : People \union {"none"}]
RowsInv == place = "list" => view \in ListViews

\* What the figures of a user are.
LEMMA UsersAreCounted ==
    ASSUME NEW u \in ListedUsers
    PROVE  u.used \in Int /\ u.limit \in Int
<1>1. /\ DOMAIN Healthy = {"enabled", "expired", "inRuntime", "used", "limit", "conns", "web"}
      /\ Healthy.used = 1 /\ Healthy.limit = 2
  BY DEF Healthy
<1>2. CASE u = Healthy
  BY <1>1, <1>2
<1>3. CASE \E x \in BOOLEAN : u = [Healthy EXCEPT !.enabled = FALSE, !.expired = x]
  BY <1>1, <1>3
<1>4. CASE \E c \in 0..1 : u = [Healthy EXCEPT !.expired = TRUE, !.conns = c]
  BY <1>1, <1>4
<1>5. CASE \E r \in BOOLEAN : u = [Healthy EXCEPT !.used = -1, !.inRuntime = r]
  <2>1. u.used = -1 /\ u.limit = 2
    BY <1>1, <1>5
  <2> QED
    BY <2>1
<1>6. CASE \E r \in BOOLEAN : u = [Healthy EXCEPT !.used = 2, !.inRuntime = r]
  BY <1>1, <1>6
<1>7. CASE u = [Healthy EXCEPT !.limit = 0, !.used = 2]
  BY <1>1, <1>7
<1>8. CASE u = [Healthy EXCEPT !.conns = 0]
  BY <1>1, <1>8
<1>9. CASE u = [Healthy EXCEPT !.web = TRUE] \/ u = [Healthy EXCEPT !.inRuntime = FALSE]
  BY <1>1, <1>9
<1> DEFINE A == {[Healthy EXCEPT !.enabled = FALSE, !.expired = x] : x \in BOOLEAN}
           B == {[Healthy EXCEPT !.expired = TRUE, !.conns = c] : c \in 0..1}
           C == {[Healthy EXCEPT !.used = -1, !.inRuntime = r] : r \in BOOLEAN}
           E == {[Healthy EXCEPT !.used = 2, !.inRuntime = r] : r \in BOOLEAN}
           D == {[Healthy EXCEPT !.limit = 0, !.used = 2], [Healthy EXCEPT !.conns = 0],
                 [Healthy EXCEPT !.web = TRUE], [Healthy EXCEPT !.inRuntime = FALSE]}
<1>10. Persons = A \union B \union C \union E \union D
  BY DEF Persons
<1>11. CASE u \in A
  BY <1>3, <1>11
<1>12. CASE u \in B
  <2>1. \E c \in 0..1 : u = [Healthy EXCEPT !.expired = TRUE, !.conns = c]
    BY <1>12, Zenon
  <2> QED
    BY <1>4, <2>1
<1>13. CASE u \in C
  BY <1>5, <1>13
<1>14. CASE u \in E
  BY <1>6, <1>14
<1>15. CASE u \in D
  BY <1>7, <1>8, <1>9, <1>15
<1> HIDE DEF A, B, C, D, E
<1> QED
  BY <1>2, <1>10, <1>11, <1>12, <1>13, <1>15, <1>14 DEF ListedUsers

\* A page opens on healthy users, none of them picked.
LEMMA RowsInvInit == PeopleListInit => RowsInv
<1> SUFFICES ASSUME PeopleListInit, place = "list" PROVE view \in ListViews
  BY DEF RowsInv
<1>1. view = ListMounted
  BY DEF PeopleListInit, ListStart
<1>2. [p \in People |-> Healthy] \in [People -> ListedUsers]
  BY DEF ListedUsers
<1>3. SortPresets.activity \in [field : {"connections", "name", "traffic"}, asc : BOOLEAN]
  BY DEF SortPresets
<1> QED
  BY <1>1, <1>2, <1>3 DEF ListMounted, ListViews, UserFilters

\* The open view stays open.
LEMMA PlaceStays == PeopleListNext => place' = place
BY DEF PeopleListNext, BrowseNext, HistoryNext, BulkNext, ShareNext,
       UsersFrame, SetSearchValue, Swipe, OpenActions, OpenPerson, SetFilterValue,
       UpdateSort, CloseActions, BackToList, RestoreScroll, IpArrives, IpFails,
       IpNext, IpPrevious, IpRefresh, IpFilter, IpsObserved, IpPruned, IpSettled, OpenMenu, BeginPrepare,
       ResetPrepared, ConfirmationExpires, Agree, StartReset, StartLost,
       StartHandled, StartAnswered, OperationEnds, StatusRead, ShowCurrent,
       CloseBulk, ReloadPage, AskReissue, CancelReissue, Reissue, Reissued,
       ListSpend, ListFree

\* A tap on a chip leaves one of the orders.
LEMMA OrderStays ==
    ASSUME NEW sort \in [field : {"connections", "name", "traffic"}, asc : BOOLEAN],
           NEW preset \in DOMAIN SortPresets
    PROVE  NextSortState(sort, preset)
             \in [field : {"connections", "name", "traffic"}, asc : BOOLEAN]
<1>1. SortPresets[preset] \in [field : {"connections", "name", "traffic"}, asc : BOOLEAN]
  <2>1. preset \in {"activity", "name", "traffic"}
    BY DEF SortPresets
  <2>2. /\ SortPresets["activity"] = [field |-> "connections", asc |-> FALSE]
        /\ SortPresets["name"] = [field |-> "name", asc |-> TRUE]
        /\ SortPresets["traffic"] = [field |-> "traffic", asc |-> FALSE]
    BY DEF SortPresets
  <2>3. \E f \in {"connections", "name", "traffic"}, d \in BOOLEAN :
          SortPresets[preset] = [field |-> f, asc |-> d]
    BY <2>1, <2>2
  <2> QED
    BY <2>3
<1>2. [sort EXCEPT !.asc = ~@]
        \in [field : {"connections", "name", "traffic"}, asc : BOOLEAN]
  OBVIOUS
<1> QED
  BY <1>1, <1>2 DEF NextSortState

\* Frames, searches, filters and taps keep a user for every name.
LEMMA RowsInvStep == RowsInv /\ PeopleListNext => RowsInv'
<1> SUFFICES ASSUME RowsInv, PeopleListNext, place' = "list" PROVE view' \in ListViews
  BY DEF RowsInv
<1>1. place = "list"
  BY PlaceStays
<1>2. BrowseNext
  BY <1>1 DEF PeopleListNext, HistoryNext, BulkNext, ShareNext, IpArrives, IpFails,
         IpNext, IpPrevious, IpRefresh, IpFilter, IpsObserved, IpPruned, IpSettled, OpenMenu, BeginPrepare,
         ResetPrepared, ConfirmationExpires, Agree, StartReset, StartLost,
         StartHandled, StartAnswered, OperationEnds, StatusRead, ShowCurrent,
         CloseBulk, ReloadPage, AskReissue, CancelReissue, Reissue, Reissued
<1>3. view \in ListViews
  BY <1>1 DEF RowsInv
<1>4. ASSUME NEW p \in People, NEW u \in Persons, UsersFrame(p, u) PROVE view' \in ListViews
  <2>1. view' = [view EXCEPT !.users[p] = u]
    BY <1>4 DEF UsersFrame
  <2>2. [view.users EXCEPT ![p] = u] \in [People -> ListedUsers]
    BY <1>3 DEF ListViews, ListedUsers
  <2> QED
    BY <1>3, <2>1, <2>2 DEF ListViews
<1>5. ASSUME NEW p \in People \union {"none"}, SetSearchValue(p) PROVE view' \in ListViews
  BY <1>3, <1>5 DEF SetSearchValue, ListViews
<1>6. ASSUME NEW p \in People, Swipe(p) PROVE view' \in ListViews
  BY <1>3, <1>6 DEF Swipe, ListViews
<1>7. ASSUME NEW p \in People, OpenActions(p) PROVE view' \in ListViews
  BY <1>3, <1>7 DEF OpenActions, ListViews
<1>8. ASSUME NEW p \in People, OpenPerson(p) PROVE view' \in ListViews
  BY <1>3, <1>8 DEF OpenPerson, ListViews
<1>9. ASSUME NEW f \in UserFilters, SetFilterValue(f) PROVE view' \in ListViews
  BY <1>3, <1>9 DEF SetFilterValue, ListViews
<1>10. ASSUME NEW preset \in DOMAIN SortPresets, UpdateSort(preset)
       PROVE  view' \in ListViews
  <2>1. view' = [view EXCEPT !.sort = NextSortState(view.sort, preset)]
    BY <1>10 DEF UpdateSort
  <2>2. NextSortState(view.sort, preset)
          \in [field : {"connections", "name", "traffic"}, asc : BOOLEAN]
    BY <1>3, OrderStays DEF ListViews
  <2> QED
    BY <1>3, <2>1, <2>2 DEF ListViews
<1>11. ASSUME CloseActions PROVE view' \in ListViews
  BY <1>3, <1>11 DEF CloseActions, ListViews
<1>12. ASSUME BackToList PROVE view' \in ListViews
  BY <1>3, <1>12 DEF BackToList, ListViews
<1>13. ASSUME RestoreScroll PROVE view' \in ListViews
  <2>1. PICK a \in People \union {"top"} : view' = [view EXCEPT !.back = "none", !.at = a]
    <3>1. view.at \in People \union {"top"}
      BY <1>3 DEF ListViews
    <3>2. view.back \in VisibleUsers(view) => view.back \in People
      BY <1>3 DEF VisibleUsers, ListViews
    <3> QED
      BY <1>13, <3>1, <3>2 DEF RestoreScroll
  <2> QED
    BY <1>3, <2>1 DEF ListViews
<1> QED
  BY <1>2, <1>4, <1>5, <1>6, <1>7, <1>8, <1>9, <1>10, <1>11,
     <1>12, <1>13 DEF BrowseNext

\* What a row says of one user.
LEMMA RowIsTrue ==
    ASSUME NEW u
    PROVE  /\ HasIssues(u) <=> PersonBadge(u) \notin {"online", "none"}
           /\ PersonAvatarTone(u) = "alert" => HasIssues(u)
           /\ PersonBadge(u) = "online" => IsOnline(u)
<1> DEFINE s == ComputeUserStatus(u)
<1>1. s \in {"disabled", "expired", "quota_exhausted", "active", "not_in_runtime"}
  BY DEF ComputeUserStatus
<1> HIDE DEF s
<1>2. /\ HasIssues(u) <=> s # "active"
      /\ PersonBadge(u) = IF s # "active" THEN s ELSE IF IsOnline(u) THEN "online" ELSE "none"
  BY DEF s, HasIssues, PersonBadge
<1>3. PersonAvatarTone(u) = "alert" => s \in {"quota_exhausted", "expired"}
  BY DEF s, PersonAvatarTone
<1> QED
  BY <1>1, <1>2, <1>3

\* Nobody is both near their quota and past it, so the two lists fit in the whole.
LEMMA NearAndPast ==
    ASSUME NEW users \in [People -> ListedUsers]
    PROVE  UserListSummary(users).nearQuota
             <= CountUserFilters(users)["all"]
                  - Cardinality({p \in People : IsQuotaExhausted(users[p])})
<1> DEFINE near == {p \in DOMAIN users :
                       /\ users[p].used # -1 /\ users[p].limit # 0
                       /\ users[p].used * 100 >= users[p].limit * 85
                       /\ users[p].used < users[p].limit}
           past == {p \in People : IsQuotaExhausted(users[p])}
<1>1. \A p \in People : users[p].used \in Int /\ users[p].limit \in Int
  BY UsersAreCounted
<1>2. near \cap past = {}
  BY <1>1 DEF IsQuotaExhausted
<1>3. near \subseteq People /\ past \subseteq People
  OBVIOUS
<1>4. UserListSummary(users).nearQuota = Cardinality(near)
  BY DEF UserListSummary
<1>5. CountUserFilters(users)["all"] = Cardinality(People)
  <2>1. {p \in DOMAIN users : MatchesUserFilter(users[p], "all")} = People
    BY DEF MatchesUserFilter
  <2> QED
    BY <2>1 DEF CountUserFilters, UserFilters
<1> HIDE DEF near, past
<1>6. IsFiniteSet(People)
  BY PeopleListAssumption
<1>7. /\ Cardinality(near) \in Nat /\ Cardinality(past) \in Nat
      /\ Cardinality(People) \in Nat
  BY <1>3, <1>6, FS_Subset, FS_CardinalityType
<1>8. ~(Cardinality(near) + Cardinality(past) > Cardinality(People))
  BY <1>2, <1>3, <1>6, FS_MajoritiesIntersect
<1>9. Cardinality(near) <= Cardinality(People) - Cardinality(past)
  BY <1>7, <1>8
<1> QED
  BY <1>4, <1>5, <1>9 DEF past

\* The list's rows, badges and counts agree.
LEMMA RowsAgree == RowsInv => RowsAgreeWithCounts
<1> SUFFICES ASSUME RowsInv, place = "list" PROVE RowsAgreeWithCounts
  BY DEF RowsAgreeWithCounts
<1>1. view.users \in [People -> ListedUsers] /\ view.filter \in UserFilters
  BY DEF RowsInv, ListViews
<1>2. ASSUME view.search = "none"
      PROVE  Cardinality(VisibleUsers(view)) = CountUserFilters(view.users)[view.filter]
  <2>1. VisibleUsers(view)
          = {p \in DOMAIN view.users : MatchesUserFilter(view.users[p], view.filter)}
    BY <1>2 DEF VisibleUsers
  <2> QED
    BY <1>1, <2>1 DEF CountUserFilters
<1>3. UserListSummary(view.users).nearQuota
        <= CountUserFilters(view.users)["all"]
             - Cardinality({p \in People : IsQuotaExhausted(view.users[p])})
  BY <1>1, NearAndPast
<1> QED
  BY <1>2, <1>3, RowIsTrue DEF RowsAgreeWithCounts

\* The label and the banner of the WEB page go through the same cases.
LEMMA PanelsAgree == WebPanelsAgree
BY DEF WebPanelsAgree, WebOverview, ContextBanner, RuntimeLabel

\* What a kept page says of the history that is there now: see PlacedPage for one
\* that was read of it, IpPageOK for an older one.
IpCursors == [filter : {"all", "even"}, ip : Nat, last : Nat, read : Nat]
IpWorldOK(w) ==
    /\ w.clock \in Nat /\ w.seen \in [1..HistoryLength -> Nat]
    /\ \A ip \in 1..HistoryLength : w.seen[ip] <= w.clock

\* The addresses of a page's records.
IpsOf(items) == {r.ip : r \in items}

\* A page read while the history stood as it does now: its addresses are listed
\* behind its cursor, and the next cursor has them and those before in front.
PlacedPage(p, c, w) ==
    /\ IsFiniteSet(p.items) /\ Cardinality(IpsOf(p.items)) = Cardinality(p.items)
    /\ IpsOf(p.items) \subseteq IpsListed(w, c.filter) \ InFrontOfPage(w, c)
    /\ p.matched = Cardinality(IpsListed(w, c.filter))
    /\ p.next.last # 0 =>
         /\ Cardinality(p.items) = PageOf
         /\ InFrontOfPage(w, p.next) = InFrontOfPage(w, c) \union IpsOf(p.items)

\* A page kept for a cursor, however old.
IpPageOK(p, c, w) ==
    /\ p.read \in Nat /\ p.read <= w.clock
    /\ p.next \in IpCursors /\ p.next.filter = c.filter /\ p.next.read <= w.clock
    /\ p.next.last # 0 => p.next.read = p.read
    /\ \A r \in p.items : Matches(c.filter, r.ip) /\ BehindCursor(c, r)
    /\ \A ip \in IpsListed(w, c.filter) :
         /\ w.seen[ip] <= p.read /\ BehindCursor(c, IpRecord(w, ip))
         /\ p.next.last = 0 \/ ~BehindCursor(p.next, IpRecord(w, ip))
         => IpRecord(w, ip) \in p.items
    /\ p.read = w.clock => PlacedPage(p, c, w)

\* As long as the history stands still, a page has its number of addresses in front.
CursorsInStep(cs, w) ==
    \A k \in 1..Len(cs) :
        (\A j \in 2..k : cs[j].read = w.clock)
            => Cardinality(InFrontOfPage(w, cs[k])) = (k - 1) * PageOf
CursorsOK(f, cs, w) ==
    /\ cs \in Seq(IpCursors) /\ cs # << >> /\ cs[1].last = 0
    /\ \A k \in 1..Len(cs) : cs[k].filter = f /\ cs[k].read <= w.clock
    /\ CursorsInStep(cs, w)
IpViewOK(v, w) ==
    /\ v = [filter |-> v.filter, cursors |-> v.cursors, data |-> v.data,
            cache |-> v.cache, error |-> v.error]
    /\ v.filter \in {"all", "even"} /\ CursorsOK(v.filter, v.cursors, w)
    /\ v.data = << >> \/ \E p : v.data = << p >> /\ IpPageOK(p, v.cursors[Len(v.cursors)], w)
    /\ \A e \in v.cache : IpPageOK(e.page, e.key, w)
IpsInv == place = "ips" => IpWorldOK(world) /\ IpViewOK(view, world)

\* The addresses listed are finitely many, those in front of a cursor among them.
LEMMA ListedFinite ==
    ASSUME NEW w, NEW c, NEW f
    PROVE  /\ IsFiniteSet(IpsListed(w, f)) /\ IsFiniteSet(InFrontOfPage(w, c))
           /\ InFrontOfPage(w, c) \subseteq IpsListed(w, c.filter)
<1>1. IsFiniteSet(1..HistoryLength)
  BY FS_Interval, PeopleListAssumption
<1>2. IpsListed(w, f) \subseteq 1..HistoryLength /\ InFrontOfPage(w, c) \subseteq 1..HistoryLength
  BY DEF IpsListed, InFrontOfPage
<1>3. InFrontOfPage(w, c) \subseteq IpsListed(w, c.filter)
  BY DEF InFrontOfPage
<1> QED
  BY <1>1, <1>2, <1>3, FS_Subset

\* Nothing is in front of the first page.
LEMMA FirstInStep ==
    ASSUME NEW f \in {"all", "even"}, NEW w, IpWorldOK(w)
    PROVE  /\ FirstCursor(f) \in IpCursors
           /\ CursorsOK(f, << FirstCursor(f) >>, w)
<1> DEFINE c == FirstCursor(f)
<1>1. c \in IpCursors /\ c.filter = f /\ c.last = 0 /\ c.read = 0
  BY DEF FirstCursor, IpCursors
<1>2. w.clock \in Nat
  BY DEF IpWorldOK
<1> HIDE DEF c
<1>3. InFrontOfPage(w, c) = {}
  BY <1>1 DEF InFrontOfPage, BehindCursor
<1>4. Cardinality(InFrontOfPage(w, c)) = 0
  BY <1>3, FS_EmptySet
<1>5. << c >> \in Seq(IpCursors) /\ Len(<< c >>) = 1 /\ << c >>[1] = c /\ << c >> # << >>
  BY <1>1
<1>6. \A k \in 1..1 : k = 1 /\ (k - 1) * PageOf = 0
  BY DEF PageOf
<1>7. CursorsInStep(<< c >>, w)
  BY <1>4, <1>5, <1>6 DEF CursorsInStep
<1>8. \A k \in 1..Len(<< c >>) : << c >>[k].filter = f /\ << c >>[k].read <= w.clock
  BY <1>1, <1>2, <1>5, <1>6
<1>9. CursorsOK(f, << c >>, w)
  BY <1>1, <1>5, <1>7, <1>8 DEF CursorsOK
<1> QED
  BY <1>1, <1>9 DEF c

\* A page is cut from the records of the moment.
LEMMA PageItems ==
    ASSUME NEW w, IpWorldOK(w), NEW c \in IpCursors, NEW p, IsIpPage(w, c, p)
    PROVE  /\ \A r \in p.items : /\ r.ip \in IpsListed(w, c.filter) /\ r = IpRecord(w, r.ip)
                                 /\ Matches(c.filter, r.ip) /\ BehindCursor(c, r)
                                 /\ r.last \in Nat /\ r.last # 0 /\ r.ip \in Nat
           /\ \A ip \in IpsListed(w, c.filter) :
                BehindCursor(c, IpRecord(w, ip)) =>
                  \/ IpRecord(w, ip) \in p.items
                  \/ \A r \in p.items : InFrontOf(r, IpRecord(w, ip))
           /\ p.matched = Cardinality(IpsListed(w, c.filter)) /\ p.read = w.clock
<1> DEFINE rest == {ip \in IpsListed(w, c.filter) : BehindCursor(c, IpRecord(w, ip))}
<1>1. /\ p.items \subseteq {IpRecord(w, ip) : ip \in rest}
      /\ \A ip \in rest : IpRecord(w, ip) \in p.items
                            \/ \A r \in p.items : InFrontOf(r, IpRecord(w, ip))
      /\ p.matched = Cardinality(IpsListed(w, c.filter)) /\ p.read = w.clock
  BY DEF IsIpPage
<1>2. ASSUME NEW r \in p.items
      PROVE  /\ r.ip \in IpsListed(w, c.filter) /\ r = IpRecord(w, r.ip)
             /\ Matches(c.filter, r.ip) /\ BehindCursor(c, r)
             /\ r.last \in Nat /\ r.last # 0 /\ r.ip \in Nat
  <2>1. PICK ip \in rest : r = IpRecord(w, ip)
    BY <1>1
  <2>2. r.ip = ip /\ r.last = w.seen[ip]
    BY <2>1 DEF IpRecord
  <2>3. ip \in 1..HistoryLength /\ w.seen[ip] # 0 /\ Matches(c.filter, ip)
    BY DEF IpsListed
  <2>4. w.seen[ip] \in Nat /\ ip \in Nat
    BY <2>3, PeopleListAssumption DEF IpWorldOK
  <2> QED
    BY <2>1, <2>2, <2>3, <2>4
<1> QED
  BY <1>1, <1>2

\* The cursor of the next page stands at the last record of this one.
LEMMA NextCursor ==
    ASSUME NEW w, IpWorldOK(w), NEW c \in IpCursors, NEW p, IsIpPage(w, c, p), p.next.last # 0
    PROVE  /\ Cardinality(p.items) = PageOf
           /\ \E r \in p.items :
                /\ \A s \in p.items : s = r \/ InFrontOf(s, r)
                /\ p.next = [filter |-> c.filter, ip |-> r.ip, last |-> r.last, read |-> w.clock]
<1>1. FirstCursor(c.filter).last = 0
  BY DEF FirstCursor
<1> QED
  BY <1>1 DEF IsIpPage

\* A page's records in the order of the cursors.
LEMMA BehindAndInFront ==
    ASSUME NEW c \in IpCursors, NEW n \in IpCursors, n.last # 0,
           NEW r, NEW s, r.ip \in Nat, r.last \in Nat, s.ip \in Nat, s.last \in Nat,
           n.ip = r.ip, n.last = r.last, BehindCursor(c, r)
    PROVE  /\ ~BehindCursor(c, s) => ~BehindCursor(n, s)
           /\ s.last = r.last /\ s.ip = r.ip => ~BehindCursor(n, s)
           /\ InFrontOf(s, r) => ~BehindCursor(n, s)
           /\ InFrontOf(r, s) => BehindCursor(n, s)
BY DEF BehindCursor, InFrontOf, IpCursors

\* A page that has just been read.
LEMMA ArrivedPlaced ==
    ASSUME NEW w, IpWorldOK(w), NEW c \in IpCursors, c.read <= w.clock, NEW p, IsIpPage(w, c, p)
    PROVE  PlacedPage(p, c, w)
<1> DEFINE L == IpsListed(w, c.filter)
           items == p.items
           J == IpsOf(items)
<1>1. \A r \in items : r.ip \in L /\ r = IpRecord(w, r.ip) /\ BehindCursor(c, r)
  BY PageItems
<1>2. J \subseteq L /\ IsFiniteSet(J)
  <2>1. J \subseteq L
    BY <1>1 DEF IpsOf
  <2> QED
    BY <2>1, ListedFinite, FS_Subset
<1>3. IsFiniteSet(items) /\ Cardinality(J) = Cardinality(items)
  <2> DEFINE f == [ip \in J |-> IpRecord(w, ip)]
  <2>1. f \in [J -> items]
    BY <1>1 DEF IpsOf
  <2>2. \A r \in items : r.ip \in J /\ f[r.ip] = r
    BY <1>1 DEF IpsOf
  <2>3. f \in Surjection(J, items)
    BY <2>1, <2>2 DEF Surjection
  <2>4. \A a, b \in J : f[a] = f[b] => a = b
    BY DEF IpRecord
  <2>5. f \in Injection(J, items)
    BY <2>1, <2>4 DEF Injection, IsInjective
  <2> HIDE DEF f
  <2> QED
    BY <1>2, <2>3, <2>5, FS_Surjection
<1>4. J \subseteq L \ InFrontOfPage(w, c)
  <2>1. \A ip \in J : BehindCursor(c, IpRecord(w, ip))
    BY <1>1 DEF IpsOf
  <2> QED
    BY <1>2, <2>1 DEF InFrontOfPage
<1>5. ASSUME p.next.last # 0
      PROVE  /\ Cardinality(items) = PageOf
             /\ InFrontOfPage(w, p.next) = InFrontOfPage(w, c) \union J
  <2>1. Cardinality(items) = PageOf
    BY <1>5, NextCursor
  <2>2. PICK r \in items :
          /\ \A s \in items : s = r \/ InFrontOf(s, r)
          /\ p.next = [filter |-> c.filter, ip |-> r.ip, last |-> r.last, read |-> w.clock]
    BY <1>5, NextCursor
  <2> DEFINE n == p.next
  <2>3. /\ r.ip \in Nat /\ r.last \in Nat /\ r.last # 0 /\ BehindCursor(c, r)
        /\ r = IpRecord(w, r.ip) /\ r.ip \in L
    BY PageItems
  <2>4. n \in IpCursors /\ n.last # 0 /\ n.filter = c.filter /\ n.ip = r.ip /\ n.last = r.last
    BY <2>2, <2>3 DEF IpCursors, IpWorldOK
  <2> HIDE DEF n
  <2>5. ASSUME NEW ip \in L
        PROVE  ~BehindCursor(n, IpRecord(w, ip)) <=> ~BehindCursor(c, IpRecord(w, ip)) \/ ip \in J
    <3> DEFINE s == IpRecord(w, ip)
    <3>1. s.ip = ip /\ s.last = w.seen[ip] /\ s.ip \in Nat /\ s.last \in Nat
      BY PeopleListAssumption DEF IpRecord, IpWorldOK, IpsListed
    <3>2. s \in items <=> ip \in J
      <4>1. s \in items => ip \in J
        BY <3>1 DEF IpsOf
      <4>2. ip \in J => s \in items
        BY <1>1 DEF IpsOf
      <4> QED
        BY <4>1, <4>2
    <3>3. BehindCursor(c, s) => s \in items \/ InFrontOf(r, s)
      BY PageItems
    <3>4. s \in items => s = r \/ InFrontOf(s, r)
      BY <2>2
    <3> HIDE DEF s
    <3>5. /\ ~BehindCursor(c, s) => ~BehindCursor(n, s)
          /\ s = r => ~BehindCursor(n, s)
          /\ InFrontOf(s, r) => ~BehindCursor(n, s)
          /\ InFrontOf(r, s) => BehindCursor(n, s)
      BY <2>3, <2>4, <3>1, BehindAndInFront
    <3>6. ~BehindCursor(n, s) <=> ~BehindCursor(c, s) \/ ip \in J
      BY <3>2, <3>3, <3>4, <3>5
    <3> QED
      BY <3>6 DEF s
  <2>6. InFrontOfPage(w, n) = InFrontOfPage(w, c) \union J
    BY <1>2, <2>4, <2>5 DEF InFrontOfPage
  <2> QED
    BY <2>1, <2>6 DEF n
<1>6. p.matched = Cardinality(L)
  BY PageItems
<1> QED
  BY <1>3, <1>4, <1>5, <1>6 DEF PlacedPage

\* A page that has just been read is one of its cursor.
LEMMA ArrivedPage ==
    ASSUME NEW w, IpWorldOK(w), NEW c \in IpCursors, c.read <= w.clock, NEW p \in IpPages(w, c)
    PROVE  IpPageOK(p, c, w)
<1>1. IsIpPage(w, c, p)
  BY DEF IpPages
<1>2. PlacedPage(p, c, w)
  BY <1>1, ArrivedPlaced
<1>3. w.clock \in Nat /\ p.read = w.clock
  BY <1>1, PageItems DEF IpWorldOK
<1>4. /\ p.next \in IpCursors /\ p.next.filter = c.filter /\ p.next.read <= w.clock
      /\ p.next.last # 0 => p.next.read = p.read
  <2>1. CASE p.next = FirstCursor(c.filter)
    <3>1. c.filter \in {"all", "even"}
      BY DEF IpCursors
    <3> QED
      BY <1>3, <2>1, <3>1 DEF FirstCursor, IpCursors
  <2>2. CASE p.next # FirstCursor(c.filter)
    <3>1. PICK r \in p.items :
            p.next = [filter |-> c.filter, ip |-> r.ip, last |-> r.last, read |-> w.clock]
      BY <1>1, <2>2 DEF IsIpPage
    <3>2. r.ip \in Nat /\ r.last \in Nat /\ c.filter \in {"all", "even"}
      BY <1>1, PageItems DEF IpCursors
    <3> QED
      BY <1>3, <3>1, <3>2 DEF IpCursors
  <2> QED
    BY <2>1, <2>2
<1>5. \A r \in p.items : Matches(c.filter, r.ip) /\ BehindCursor(c, r)
  BY <1>1, PageItems
<1>6. ASSUME NEW ip \in IpsListed(w, c.filter), BehindCursor(c, IpRecord(w, ip)),
             p.next.last = 0 \/ ~BehindCursor(p.next, IpRecord(w, ip))
      PROVE  IpRecord(w, ip) \in p.items
  <2> DEFINE s == IpRecord(w, ip)
  <2>1. s.ip \in Nat /\ s.last \in Nat
    BY PeopleListAssumption DEF IpRecord, IpWorldOK, IpsListed
  <2>2. s \in p.items \/ \A r \in p.items : InFrontOf(r, s)
    BY <1>1, <1>6, PageItems
  <2>3. CASE p.next.last = 0
    <3>1. \A r \in p.items : r.last # 0
      BY <1>1, PageItems
    <3>2. ~\E r \in p.items :
             p.next = [filter |-> c.filter, ip |-> r.ip, last |-> r.last, read |-> w.clock]
      <4> SUFFICES ASSUME NEW r \in p.items,
                          p.next = [filter |-> c.filter, ip |-> r.ip, last |-> r.last,
                                    read |-> w.clock]
                   PROVE  FALSE
        OBVIOUS
      <4>1. p.next.last = r.last
        OBVIOUS
      <4> QED
        BY <2>3, <3>1, <4>1
    <3>3. ip \in {i \in IpsListed(w, c.filter) : BehindCursor(c, IpRecord(w, i))}
      BY <1>6
    <3> QED
      BY <1>1, <3>2, <3>3 DEF IsIpPage
  <2>4. CASE p.next.last # 0
    <3>1. PICK r \in p.items :
            p.next = [filter |-> c.filter, ip |-> r.ip, last |-> r.last, read |-> w.clock]
      BY <1>1, <2>4, NextCursor
    <3>2. r.ip \in Nat /\ r.last \in Nat /\ BehindCursor(c, r)
      BY <1>1, PageItems
    <3>3. p.next.ip = r.ip /\ p.next.last = r.last
      BY <3>1
    <3> HIDE DEF s
    <3>4. InFrontOf(r, s) => BehindCursor(p.next, s)
      BY <1>4, <2>1, <2>4, <3>2, <3>3, BehindAndInFront
    <3>5. ~BehindCursor(p.next, s)
      BY <1>6, <2>4 DEF s
    <3> QED
      BY <2>2, <3>4, <3>5 DEF s
  <2> QED
    BY <2>3, <2>4
<1> QED
  BY <1>2, <1>3, <1>4, <1>5, <1>6 DEF IpPageOK

\* A page of one key is a page of every cursor with that key.
LEMMA PageOfTheKey ==
    ASSUME NEW w, NEW c, NEW d, SameKey(c, d), NEW p, IpPageOK(p, c, w)
    PROVE  IpPageOK(p, d, w)
<1>1. c.filter = d.filter
  BY DEF SameKey
<1>2. \A r : BehindCursor(c, r) <=> BehindCursor(d, r)
  BY DEF SameKey, BehindCursor
<1>3. InFrontOfPage(w, c) = InFrontOfPage(w, d)
  BY <1>1, <1>2 DEF InFrontOfPage
<1>4. PlacedPage(p, c, w) => PlacedPage(p, d, w)
  BY <1>1, <1>3 DEF PlacedPage
<1> QED
  BY <1>1, <1>2, <1>4 DEF IpPageOK

\* The next page turns with the number of addresses in front of it.
LEMMA NextInStep ==
    ASSUME NEW f, NEW w, IpWorldOK(w), NEW cs, CursorsOK(f, cs, w),
           NEW p, IpPageOK(p, cs[Len(cs)], w), p.next.last # 0
    PROVE  CursorsOK(f, Append(cs, p.next), w)
<1> DEFINE m == Len(cs)
           n == p.next
           s == Append(cs, n)
           c == cs[m]
<1>1. /\ cs \in Seq(IpCursors) /\ cs # << >> /\ cs[1].last = 0
      /\ \A k \in 1..m : cs[k].filter = f /\ cs[k].read <= w.clock
      /\ CursorsInStep(cs, w)
  BY DEF CursorsOK
<1>2. m \in Nat /\ m > 0 /\ m \in 1..m /\ c \in IpCursors /\ c.filter = f
  BY <1>1
<1>3. /\ n \in IpCursors /\ n.filter = f /\ n.read <= w.clock /\ n.read = p.read
      /\ p.read = w.clock => PlacedPage(p, c, w)
  BY <1>2 DEF IpPageOK
<1>4. /\ s \in Seq(IpCursors) /\ Len(s) = m + 1 /\ s[m + 1] = n /\ s # << >>
      /\ \A k \in 1..m : s[k] = cs[k]
  BY <1>1, <1>2, <1>3
<1>5. ASSUME \A j \in 2..(m + 1) : s[j].read = w.clock
      PROVE  Cardinality(InFrontOfPage(w, n)) = m * PageOf
  <2>1. n.read = w.clock
    BY <1>2, <1>4, <1>5
  <2>2. PlacedPage(p, c, w)
    BY <1>3, <2>1
  <2>3. Cardinality(InFrontOfPage(w, c)) = (m - 1) * PageOf
    <3>1. \A j \in 2..m : cs[j].read = w.clock
      BY <1>2, <1>4, <1>5
    <3> QED
      BY <1>1, <1>2, <3>1 DEF CursorsInStep
  <2> DEFINE A == InFrontOfPage(w, c)
             J == IpsOf(p.items)
  <2>4. /\ Cardinality(J) = PageOf /\ J \subseteq IpsListed(w, c.filter) \ A
        /\ InFrontOfPage(w, n) = A \union J
    BY <2>2 DEF PlacedPage
  <2>5. IsFiniteSet(A) /\ IsFiniteSet(J)
    BY <2>4, ListedFinite, FS_Subset
  <2>6. A \cap J = {}
    BY <2>4
  <2> HIDE DEF A, J
  <2>7. Cardinality(A \union J) = Cardinality(A) + Cardinality(J) - 0
    BY <2>5, <2>6, FS_Union, FS_EmptySet
  <2>8. (m - 1) * PageOf + PageOf = m * PageOf
    BY <1>2 DEF PageOf
  <2>9. (m - 1) * PageOf \in Int /\ PageOf \in Int
    BY <1>2 DEF PageOf
  <2> QED
    BY <2>3, <2>4, <2>7, <2>8, <2>9 DEF A
<1> HIDE DEF s, n, c, m
<1>6. CursorsInStep(s, w)
  <2> SUFFICES ASSUME NEW k \in 1..(m + 1), \A j \in 2..k : s[j].read = w.clock
               PROVE  Cardinality(InFrontOfPage(w, s[k])) = (k - 1) * PageOf
    BY <1>4 DEF CursorsInStep
  <2>1. CASE k = m + 1
    <3>1. k - 1 = m
      BY <1>2, <2>1
    <3> QED
      BY <1>4, <1>5, <2>1, <3>1
  <2>2. CASE k # m + 1
    <3>1. k \in 1..m /\ \A j \in 2..k : j \in 1..m
      BY <1>2, <2>2
    <3>2. \A j \in 2..k : cs[j].read = w.clock
      BY <1>4, <3>1
    <3> QED
      BY <1>1, <1>4, <3>1, <3>2 DEF CursorsInStep, m
  <2> QED
    BY <2>1, <2>2
<1>7. \A k \in 1..(m + 1) : k = m + 1 \/ k \in 1..m
  BY <1>2
<1>8. s[1].last = 0
  BY <1>1, <1>2, <1>4
<1>9. \A k \in 1..(m + 1) : s[k].filter = f /\ s[k].read <= w.clock
  BY <1>1, <1>3, <1>4, <1>7
<1>10. CursorsOK(f, s, w)
  BY <1>4, <1>6, <1>8, <1>9 DEF CursorsOK
<1> QED
  BY <1>10 DEF s, n

\* Going back to an earlier page leaves the cursors before it.
LEMMA PrefixInStep ==
    ASSUME NEW f, NEW w, NEW cs, CursorsOK(f, cs, w), NEW m \in 1..Len(cs)
    PROVE  CursorsOK(f, SubSeq(cs, 1, m), w) /\ SubSeq(cs, 1, m) # << >>
<1> DEFINE s == SubSeq(cs, 1, m)
<1>1. /\ cs \in Seq(IpCursors) /\ cs[1].last = 0
      /\ \A k \in 1..Len(cs) : cs[k].filter = f /\ cs[k].read <= w.clock
      /\ CursorsInStep(cs, w)
  BY DEF CursorsOK
<1>2. s \in Seq(IpCursors) /\ Len(s) = m /\ \A k \in 1..m : s[k] = cs[k]
  BY <1>1
<1>3. 1 \in 1..m /\ \A k \in 1..m : k \in 1..Len(cs) /\ \A j \in 2..k : j \in 1..m
  BY <1>1
<1> HIDE DEF s
<1>4. s # << >> /\ s[1].last = 0
  BY <1>1, <1>2, <1>3
<1>5. CursorsInStep(s, w)
  <2> SUFFICES ASSUME NEW k \in 1..m, \A j \in 2..k : s[j].read = w.clock
               PROVE  Cardinality(InFrontOfPage(w, s[k])) = (k - 1) * PageOf
    BY <1>2 DEF CursorsInStep
  <2>1. \A j \in 2..k : cs[j].read = w.clock
    BY <1>2, <1>3
  <2> QED
    BY <1>1, <1>2, <1>3, <2>1 DEF CursorsInStep
<1>6. \A k \in 1..Len(s) : s[k].filter = f /\ s[k].read <= w.clock
  BY <1>1, <1>2, <1>3
<1>7. CursorsOK(f, s, w)
  BY <1>2, <1>4, <1>5, <1>6 DEF CursorsOK
<1> QED
  BY <1>4, <1>7 DEF s

\* A later history: some addresses observed now or gone, the rest where they were.
IpsLater(w, x) ==
    /\ x.clock = w.clock + 1 /\ x.seen \in [1..HistoryLength -> Nat]
    /\ \A ip \in 1..HistoryLength : x.seen[ip] \in {0, w.seen[ip], x.clock}

\* What was read before the change still skips nothing that has not moved.
LEMMA PageStays ==
    ASSUME NEW w, NEW x, IpWorldOK(w), IpsLater(w, x), NEW c, NEW p, IpPageOK(p, c, w)
    PROVE  IpPageOK(p, c, x)
<1>1. /\ w.clock \in Nat /\ x.clock = w.clock + 1
      /\ p.read \in Nat /\ p.read <= w.clock /\ p.next.read <= w.clock /\ p.next.read \in Nat
  BY DEF IpWorldOK, IpsLater, IpPageOK, IpCursors
<1>2. p.read <= x.clock /\ p.next.read <= x.clock /\ p.read # x.clock
  BY <1>1
<1>3. ASSUME NEW ip \in IpsListed(x, c.filter), x.seen[ip] <= p.read,
             BehindCursor(c, IpRecord(x, ip)),
             p.next.last = 0 \/ ~BehindCursor(p.next, IpRecord(x, ip))
      PROVE  IpRecord(x, ip) \in p.items
  <2>1. ip \in 1..HistoryLength /\ x.seen[ip] # 0 /\ Matches(c.filter, ip)
    BY DEF IpsListed
  <2>2. x.seen[ip] \in {0, w.seen[ip], x.clock} /\ w.seen[ip] \in Nat
    BY <2>1 DEF IpsLater, IpWorldOK
  <2>3. x.seen[ip] = w.seen[ip]
    BY <1>1, <1>3, <2>1, <2>2
  <2>4. ip \in IpsListed(w, c.filter) /\ IpRecord(x, ip) = IpRecord(w, ip)
    BY <2>1, <2>3 DEF IpsListed, IpRecord
  <2> QED
    BY <1>3, <2>3, <2>4 DEF IpPageOK
<1> QED
  BY <1>2, <1>3 DEF IpPageOK

\* The numbers begin again.
LEMMA CursorsStay ==
    ASSUME NEW w, NEW x, IpWorldOK(w), IpsLater(w, x), NEW f, NEW cs, CursorsOK(f, cs, w)
    PROVE  CursorsOK(f, cs, x)
<1>1. w.clock \in Nat /\ x.clock = w.clock + 1
  BY DEF IpWorldOK, IpsLater
<1>2. /\ cs \in Seq(IpCursors) /\ cs # << >> /\ cs[1].last = 0
      /\ \A k \in 1..Len(cs) : cs[k].filter = f /\ cs[k].read <= w.clock
  BY DEF CursorsOK
<1>3. \A k \in 1..Len(cs) : cs[k].read \in Nat
  <2>1. \A k \in 1..Len(cs) : cs[k] \in IpCursors
    BY <1>2
  <2> QED
    BY <2>1 DEF IpCursors
<1>4. \A k \in 1..Len(cs) : cs[k].read <= x.clock /\ cs[k].read # x.clock
  BY <1>1, <1>2, <1>3
<1>5. CursorsInStep(cs, x)
  <2> SUFFICES ASSUME NEW k \in 1..Len(cs), \A j \in 2..k : cs[j].read = x.clock
               PROVE  Cardinality(InFrontOfPage(x, cs[k])) = (k - 1) * PageOf
    BY DEF CursorsInStep
  <2>1. k = 1
    <3>1. CASE k # 1
      <4>1. k \in 2..k
        BY <1>2, <3>1
      <4> QED
        BY <1>4, <4>1
    <3> QED
      BY <3>1
  <2>2. InFrontOfPage(x, cs[1]) = {}
    BY <1>2 DEF InFrontOfPage, BehindCursor
  <2>3. (k - 1) * PageOf = 0
    BY <2>1 DEF PageOf
  <2> QED
    BY <2>1, <2>2, <2>3, FS_EmptySet
<1> QED
  BY <1>2, <1>4, <1>5 DEF CursorsOK

\* An observation and a pruning leave a later history.
LEMMA IpsMove ==
    ASSUME IpWorldOK(world), NEW ip \in 1..HistoryLength,
           \/ IpPruned(ip) \/ IpsObserved({ip}) \/ IpsObserved({ip, 1})
    PROVE  IpsLater(world, world') /\ IpWorldOK(world') /\ view' = view
<1>1. /\ world.clock \in Nat /\ world.seen \in [1..HistoryLength -> Nat]
      /\ \A a \in 1..HistoryLength : world.seen[a] <= world.clock
  BY DEF IpWorldOK
<1> DEFINE t == world.clock + 1
<1>2. t \in Nat /\ \A a \in 1..HistoryLength : world.seen[a] <= t /\ 0 <= t
  <2>1. \A a \in 1..HistoryLength : world.seen[a] \in Nat
    BY <1>1
  <2> QED
    BY <1>1, <2>1
<1>3. ASSUME NEW ips, IpsObserved(ips)
      PROVE  /\ IpsLater(world, world') /\ IpWorldOK(world') /\ view' = view
  <2> DEFINE g == [a \in 1..HistoryLength |-> IF a \in ips THEN t ELSE world.seen[a]]
  <2>1. world' = [seen |-> g, clock |-> t] /\ view' = view
    BY <1>3 DEF IpsObserved
  <2>2. g \in [1..HistoryLength -> Nat]
    BY <1>1, <1>2
  <2>3. \A a \in 1..HistoryLength : g[a] = t \/ g[a] = world.seen[a]
    OBVIOUS
  <2> HIDE DEF g
  <2>4. world'.seen = g /\ world'.clock = t
    BY <2>1
  <2>5. IpsLater(world, world')
    BY <2>2, <2>3, <2>4 DEF IpsLater
  <2>6. IpWorldOK(world')
    BY <1>2, <2>2, <2>3, <2>4 DEF IpWorldOK
  <2> QED
    BY <2>1, <2>5, <2>6
<1>4. ASSUME IpPruned(ip)
      PROVE  /\ IpsLater(world, world') /\ IpWorldOK(world') /\ view' = view
  <2> DEFINE g == [world.seen EXCEPT ![ip] = 0]
  <2>1. world' = [seen |-> g, clock |-> t] /\ view' = view
    BY <1>4 DEF IpPruned
  <2>2. g \in [1..HistoryLength -> Nat]
    BY <1>1
  <2>3. \A a \in 1..HistoryLength : g[a] = 0 \/ g[a] = world.seen[a]
    BY <1>1
  <2> HIDE DEF g
  <2>4. world'.seen = g /\ world'.clock = t
    BY <2>1
  <2>5. IpsLater(world, world')
    BY <2>2, <2>3, <2>4 DEF IpsLater
  <2>6. IpWorldOK(world')
    BY <1>2, <2>2, <2>3, <2>4 DEF IpWorldOK
  <2> QED
    BY <2>1, <2>5, <2>6
<1> QED
  BY <1>3, <1>4

\* The history opens on its first page.
LEMMA IpsInvInit == PeopleListInit => IpsInv
<1> SUFFICES ASSUME PeopleListInit, place = "ips"
             PROVE  IpWorldOK(world) /\ IpViewOK(view, world)
  BY DEF IpsInv
<1>1. view = HistoryMounted /\ world = HistoryStart
  BY DEF PeopleListInit, ListStart
<1>2. IpWorldOK(world)
  <2> DEFINE g == [ip \in 1..HistoryLength |->
                     CASE ip = HistoryLength -> 0
                       [] ip # HistoryLength -> IF ip > 2 THEN 1 ELSE 2]
  <2>1. world.seen = g /\ world.clock = 2
    BY <1>1 DEF HistoryStart
  <2>2. \A ip \in 1..HistoryLength : g[ip] \in {0, 1, 2}
    OBVIOUS
  <2>3. g \in [1..HistoryLength -> Nat] /\ \A ip \in 1..HistoryLength : g[ip] <= 2
    BY <2>2
  <2> HIDE DEF g
  <2> QED
    BY <2>1, <2>3 DEF IpWorldOK
<1> DEFINE s == << FirstCursor("all") >>
<1>3. CursorsOK("all", s, world)
  BY <1>2, FirstInStep
<1>4. view = [filter |-> "all", cursors |-> s, data |-> << >>, cache |-> {}, error |-> FALSE]
  BY <1>1 DEF HistoryMounted
<1> HIDE DEF s
<1>5. /\ view.filter = "all" /\ view.cursors = s /\ view.data = << >> /\ view.cache = {}
      /\ view.error = FALSE
  BY <1>4
<1> QED
  BY <1>2, <1>3, <1>4, <1>5 DEF IpViewOK

\* The view's fields, read back.
LEMMA IpViewBuilt ==
    ASSUME NEW v, NEW w, NEW f \in {"all", "even"}, NEW cs, CursorsOK(f, cs, w), NEW data,
           data = << >> \/ \E p : data = << p >> /\ IpPageOK(p, cs[Len(cs)], w),
           NEW cache, \A e \in cache : IpPageOK(e.page, e.key, w), NEW error,
           v = [filter |-> f, cursors |-> cs, data |-> data, cache |-> cache, error |-> error]
    PROVE  IpViewOK(v, w)
<1>1. /\ v.filter = f /\ v.cursors = cs /\ v.data = data /\ v.cache = cache
      /\ v.error = error
  OBVIOUS
<1> QED
  BY <1>1 DEF IpViewOK

\* A turned page shows what is kept of its own key.
LEMMA TurnedPage ==
    ASSUME NEW f \in {"all", "even"}, NEW cs, IpWorldOK(world), IpViewOK(view, world),
           CursorsOK(f, cs, world), IpTurned(f, cs)
    PROVE  IpViewOK(view', world)
<1> DEFINE cache == view.cache
           c == cs[Len(cs)]
<1>1. PICK data \in IpKept(view, c) :
        view' = [view EXCEPT !.filter = f, !.cursors = cs, !.data = data, !.error = FALSE]
  BY DEF IpTurned, Last
<1>2. /\ view = [filter |-> view.filter, cursors |-> view.cursors, data |-> view.data,
                 cache |-> cache, error |-> view.error]
      /\ \A e \in cache : IpPageOK(e.page, e.key, world)
  BY DEF IpViewOK
<1>3. data = << >> \/ \E p : data = << p >> /\ IpPageOK(p, c, world)
  <2>1. CASE data # << >>
    <3>1. PICK e \in cache : SameKey(e.key, c) /\ data = << e.page >>
      BY <1>1, <2>1 DEF IpKept
    <3>2. IpPageOK(e.page, c, world)
      BY <1>2, <3>1, PageOfTheKey
    <3> QED
      BY <3>1, <3>2
  <2> QED
    BY <2>1
<1>4. view' = [filter |-> f, cursors |-> cs, data |-> data, cache |-> cache, error |-> FALSE]
  <2> DEFINE a == view.filter
             b == view.cursors
             d == view.data
             e == view.error
  <2>1. view = [filter |-> a, cursors |-> b, data |-> d, cache |-> cache, error |-> e]
    BY <1>2
  <2> HIDE DEF a, b, d, e, cache
  <2> QED
    BY <1>1, <2>1
<1> HIDE DEF cache
<1>5. data = << >> \/ \E p : data = << p >> /\ IpPageOK(p, cs[Len(cs)], world)
  BY <1>3
<1> QED
  BY <1>2, <1>4, <1>5, IpViewBuilt

\* Observations, prunings, answers, failures, filters and turned pages, in any
\* order.
LEMMA IpsInvStep == IpsInv /\ PeopleListNext => IpsInv'
<1> SUFFICES ASSUME IpsInv, PeopleListNext, place' = "ips"
             PROVE  IpWorldOK(world') /\ IpViewOK(view', world')
  BY DEF IpsInv, IpWorldOK, IpViewOK
<1>1. place = "ips"
  BY PlaceStays
<1>2. HistoryNext
  BY <1>1 DEF PeopleListNext, BrowseNext, BulkNext, ShareNext, UsersFrame,
         SetSearchValue, Swipe, OpenActions, OpenPerson, SetFilterValue,
         UpdateSort, CloseActions, BackToList, RestoreScroll, OpenMenu, BeginPrepare,
         ResetPrepared, ConfirmationExpires, Agree, StartReset, StartLost,
         StartHandled, StartAnswered, OperationEnds, StatusRead, ShowCurrent,
         CloseBulk, ReloadPage, AskReissue, CancelReissue, Reissue, Reissued
<1>3. IpWorldOK(world) /\ IpViewOK(view, world)
  BY <1>1 DEF IpsInv
<1> DEFINE f == view.filter
           cs == view.cursors
           d == view.data
           h == view.cache
           e == view.error
           c == cs[Len(cs)]
<1>4. view = [filter |-> f, cursors |-> cs, data |-> d, cache |-> h, error |-> e]
  BY <1>3 DEF IpViewOK
<1>5. /\ f \in {"all", "even"} /\ CursorsOK(f, cs, world)
      /\ d = << >> \/ \E p : d = << p >> /\ IpPageOK(p, c, world)
      /\ \A x \in h : IpPageOK(x.page, x.key, world)
  BY <1>3 DEF IpViewOK
<1>6. cs \in Seq(IpCursors) /\ cs # << >> /\ c \in IpCursors /\ c.read <= world.clock
  BY <1>5 DEF CursorsOK
<1>7. Last(cs) = c /\ Front(cs) = SubSeq(cs, 1, Len(cs) - 1)
  BY DEF Last, Front
<1>8. ASSUME NEW ip \in 1..HistoryLength,
             IpPruned(ip) \/ IpsObserved({ip}) \/ IpsObserved({ip, 1})
      PROVE  IpWorldOK(world') /\ IpViewOK(view', world')
  <2>1. IpsLater(world, world') /\ IpWorldOK(world') /\ view' = view
    BY <1>3, <1>8, IpsMove
  <2> HIDE DEF f, cs, d, h, e, c
  <2>2. CursorsOK(f, cs, world')
    BY <1>3, <1>5, <2>1, CursorsStay
  <2>3. d = << >> \/ \E p : d = << p >> /\ IpPageOK(p, cs[Len(cs)], world')
    BY <1>3, <1>5, <2>1, PageStays DEF c
  <2>4. \A x \in h : IpPageOK(x.page, x.key, world')
    BY <1>3, <1>5, <2>1, PageStays
  <2>5. view' = [filter |-> f, cursors |-> cs, data |-> d, cache |-> h, error |-> e]
    BY <1>4, <2>1
  <2> QED
    BY <1>5, <2>1, <2>2, <2>3, <2>4, <2>5, IpViewBuilt
<1>9. ASSUME IpArrives PROVE world' = world /\ IpViewOK(view', world)
  <2>1. PICK p \in IpPages(world, c) :
          view' = [view EXCEPT !.data = << p >>, !.error = FALSE,
                     !.cache = {x \in @ : ~SameKey(x.key, c)} \union {[key |-> c, page |-> p]}]
    BY <1>7, <1>9 DEF IpArrives
  <2>2. IpPageOK(p, c, world)
    BY <1>3, <1>6, ArrivedPage
  <2> DEFINE g == {x \in h : ~SameKey(x.key, c)} \union {[key |-> c, page |-> p]}
  <2>3. \A x \in g : IpPageOK(x.page, x.key, world)
    BY <1>5, <2>2
  <2>4. world' = world
    BY <1>9 DEF IpArrives
  <2>5. view' = [view EXCEPT !.data = << p >>, !.error = FALSE, !.cache = g]
    BY <2>1
  <2> HIDE DEF f, cs, d, h, e, c, g
  <2>6. view' = [filter |-> f, cursors |-> cs, data |-> << p >>, cache |-> g, error |-> FALSE]
    BY <1>4, <2>5
  <2>7. \E q : << p >> = << q >> /\ IpPageOK(q, cs[Len(cs)], world)
    BY <2>2 DEF c
  <2>8. PICK data : data = << p >>
    OBVIOUS
  <2> QED
    BY <1>5, <2>3, <2>4, <2>6, <2>7, <2>8, IpViewBuilt
<1>10. ASSUME IpFails PROVE world' = world /\ IpViewOK(view', world)
  <2>1. view' = [view EXCEPT !.error = TRUE] /\ world' = world
    BY <1>10 DEF IpFails
  <2> HIDE DEF f, cs, d, h, e, c
  <2>2. view' = [filter |-> f, cursors |-> cs, data |-> d, cache |-> h, error |-> TRUE]
    BY <1>4, <2>1
  <2>3. d = << >> \/ \E p : d = << p >> /\ IpPageOK(p, cs[Len(cs)], world)
    BY <1>5 DEF c
  <2> QED
    BY <1>5, <2>1, <2>2, <2>3, IpViewBuilt
<1>11. ASSUME NEW g \in {"all", "even"}, IpFilter(g)
       PROVE  world' = world /\ IpViewOK(view', world)
  <2> DEFINE s == << FirstCursor(g) >>
  <2>1. IpTurned(g, s) /\ world' = world
    BY <1>11 DEF IpFilter
  <2>2. CursorsOK(g, s, world)
    BY <1>3, FirstInStep
  <2> HIDE DEF s
  <2> QED
    BY <1>3, <2>1, <2>2, TurnedPage
<1>12. ASSUME IpNext PROVE world' = world /\ IpViewOK(view', world)
  <2>1. d # << >> /\ d[1].next.last # 0 /\ IpTurned(f, Append(cs, d[1].next)) /\ world' = world
    BY <1>12 DEF IpNext
  <2>2. PICK p : d = << p >> /\ IpPageOK(p, c, world)
    BY <1>5, <2>1
  <2>3. d[1] = p
    BY <2>2
  <2> DEFINE s == Append(cs, p.next)
  <2>4. IpTurned(f, s) /\ p.next.last # 0
    BY <2>1, <2>3
  <2>5. CursorsOK(f, s, world)
    BY <1>3, <1>5, <2>2, <2>4, NextInStep
  <2> HIDE DEF s, f
  <2> QED
    BY <1>3, <1>5, <2>1, <2>4, <2>5, TurnedPage
<1>13. ASSUME IpPrevious PROVE world' = world /\ IpViewOK(view', world)
  <2> DEFINE s == SubSeq(cs, 1, Len(cs) - 1)
  <2>1. Len(cs) > 1 /\ IpTurned(f, s) /\ world' = world
    BY <1>7, <1>13 DEF IpPrevious
  <2>2. Len(cs) - 1 \in 1..Len(cs)
    BY <1>6, <2>1
  <2>3. CursorsOK(f, s, world)
    BY <1>5, <2>2, PrefixInStep
  <2> HIDE DEF s, f
  <2> QED
    BY <1>3, <1>5, <2>1, <2>3, TurnedPage
<1>14. ASSUME IpRefresh PROVE world' = world /\ IpViewOK(view', world)
  <2> DEFINE s == << FirstCursor(f) >>
  <2>1. IpTurned(f, s) /\ world' = world
    BY <1>14 DEF IpRefresh
  <2>2. CursorsOK(f, s, world)
    BY <1>3, <1>5, FirstInStep
  <2> HIDE DEF s, f
  <2> QED
    BY <1>3, <1>5, <2>1, <2>2, TurnedPage
<1>15. world' = world /\ IpViewOK(view', world) => IpWorldOK(world') /\ IpViewOK(view', world')
  BY <1>3
<1> HIDE DEF f, cs, d, h, e, c
<1> QED
  BY <1>2, <1>8, <1>9, <1>10, <1>11, <1>12, <1>13, <1>14, <1>15 DEF HistoryNext

\* The pages neither overlap nor skip, and are numbered rightly while the
\* history stands still.
LEMMA HistoryFits == IpsInv => HistoryPagesFit
<1> SUFFICES ASSUME IpsInv, place = "ips" PROVE HistoryPagesFit
  BY DEF HistoryPagesFit
<1> DEFINE f == view.filter
           cs == view.cursors
           m == Len(cs)
           c == cs[m]
           from == (m - 1) * PageOf
           w == world
<1>1. /\ IpWorldOK(w) /\ CursorsOK(f, cs, w)
      /\ view.data = << >> \/ \E p : view.data = << p >> /\ IpPageOK(p, c, w)
  BY DEF IpsInv, IpViewOK
<1>2. /\ cs \in Seq(IpCursors) /\ m \in Nat /\ m > 0 /\ m \in 1..m /\ c.filter = f
      /\ CursorsInStep(cs, w)
  BY <1>1 DEF CursorsOK
<1>3. Last(view.cursors) = c
  BY DEF Last
<1>4. ASSUME view.data # << >>
      PROVE  LET page == view.data[1]
             IN  /\ \A r \in page.items : Matches(f, r.ip) /\ BehindCursor(c, r)
                 /\ \A ip \in IpsListed(w, f) :
                      LET r == IpRecord(w, ip)
                      IN  /\ r.last <= page.read /\ BehindCursor(c, r)
                          /\ page.next.last = 0 \/ ~BehindCursor(page.next, r)
                          => r \in page.items
                 /\ HistoryStoodStill(view, w) =>
                      /\ Cardinality(InFrontOfPage(w, c)) = from
                      /\ from + Cardinality(page.items) <= page.matched
  <2>1. PICK p : view.data = << p >> /\ IpPageOK(p, c, w)
    BY <1>1, <1>4
  <2>2. view.data[1] = p
    BY <2>1
  <2>3. \A r \in p.items : Matches(f, r.ip) /\ BehindCursor(c, r)
    BY <1>2, <2>1 DEF IpPageOK
  <2>4. \A ip \in IpsListed(w, f) : IpRecord(w, ip).last = w.seen[ip]
    BY DEF IpRecord
  <2>5. \A ip \in IpsListed(w, f) :
          /\ w.seen[ip] <= p.read /\ BehindCursor(c, IpRecord(w, ip))
          /\ p.next.last = 0 \/ ~BehindCursor(p.next, IpRecord(w, ip))
          => IpRecord(w, ip) \in p.items
    BY <1>2, <2>1 DEF IpPageOK
  <2>6. ASSUME HistoryStoodStill(view, w)
        PROVE  /\ Cardinality(InFrontOfPage(w, c)) = from
               /\ from + Cardinality(p.items) <= p.matched
    <3>1. p.read = w.clock /\ \A k \in 2..m : cs[k].read = w.clock
      BY <2>2, <2>6 DEF HistoryStoodStill
    <3>2. Cardinality(InFrontOfPage(w, c)) = from
      BY <1>2, <3>1 DEF CursorsInStep
    <3> DEFINE A == InFrontOfPage(w, c)
               J == IpsOf(p.items)
               L == IpsListed(w, f)
    <3>3. /\ Cardinality(J) = Cardinality(p.items) /\ J \subseteq L \ A
          /\ p.matched = Cardinality(L)
      BY <1>2, <2>1, <3>1 DEF IpPageOK, PlacedPage
    <3>4. IsFiniteSet(A) /\ IsFiniteSet(L) /\ A \subseteq L /\ IsFiniteSet(J)
      BY <1>2, <3>3, ListedFinite, FS_Subset
    <3>5. A \cap J = {} /\ A \union J \in SUBSET L
      BY <3>3, <3>4
    <3> HIDE DEF A, J, L
    <3>6. Cardinality(A \union J) = Cardinality(A) + Cardinality(J) - 0
      BY <3>4, <3>5, FS_Union, FS_EmptySet
    <3>7. Cardinality(A \union J) <= Cardinality(L)
      BY <3>4, <3>5, FS_Subset
    <3>8. Cardinality(A) \in Nat /\ Cardinality(J) \in Nat
      BY <3>4, FS_CardinalityType
    <3>9. Cardinality(A) + Cardinality(J) <= Cardinality(L)
      BY <3>6, <3>7, <3>8
    <3> HIDE DEF from
    <3> QED
      BY <3>2, <3>3, <3>9 DEF A
  <2> HIDE DEF from
  <2> QED
    BY <2>2, <2>3, <2>4, <2>5, <2>6
<1> HIDE DEF c
<1>5. view.data # << >> => c.filter = f
  BY <1>2
<1> QED
  BY <1>2, <1>3, <1>4 DEF HistoryPagesFit, f, w, from, m, cs

(***************************************************************************)
(* Lists agree with what stands beside them, for any people, frames,        *)
(* filters, searches and walks through a history of any length: a filter's  *)
(* number is the rows behind it, a row asks for attention exactly if the    *)
(* issues filter shows it, the WEB page's label and banner name one         *)
(* condition, and the pages of the address history neither overlap nor skip *)
(* an address that has not moved since, however it moves while they are     *)
(* turned; the numbers under a page are the places of its addresses as long *)
(* as the history stands still (userList.helpers.ts, HistoryContent,        *)
(* UserIPHistory, WebPage.tsx).                                             *)
(***************************************************************************)
THEOREM ListsStayAgreed == ConsoleSpec => []ListsAgree
<1> DEFINE I == On("people") => RowsInv /\ IpsInv
<1>1. Init => I
  BY RowsInvInit, IpsInvInit DEF Init
<1>2. I /\ [Next]_consoleVars => I'
  <2> SUFFICES ASSUME I, [Next]_consoleVars PROVE I'
    OBVIOUS
  <2>1. CASE Next
    <3> SUFFICES ASSUME On("people")' PROVE RowsInv' /\ IpsInv'
      OBVIOUS
    <3>1. On("people") /\ PeopleListNext
      BY <2>1, OnePage DEF On
    <3> QED
      BY <3>1, RowsInvStep, IpsInvStep
  <2>2. CASE UNCHANGED consoleVars
    <3>1. screen' = screen /\ place' = place /\ view' = view /\ world' = world
      BY <2>2 DEF consoleVars, peopleVars, listVars
    <3> QED
      BY <3>1 DEF On, RowsInv, IpsInv
  <2> QED
    BY <2>1, <2>2
<1>3. I => ListsAgree
  BY RowsAgree, HistoryFits, PanelsAgree DEF ListsAgree
<1> QED
  BY <1>1, <1>2, <1>3, PTL DEF ConsoleSpec

=============================================================================
