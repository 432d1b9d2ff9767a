------------------------------ MODULE Console ------------------------------
(***************************************************************************)
(* The pages of the panel, composed: the operator has one screen open, and  *)
(* only its components are mounted (web/src/routes).  A page keeps its      *)
(* state in its own components, so leaving it throws the state away, and    *)
(* what a page does does not depend on the page visited before: a behaviour *)
(* visits one screen, any of them.  A page that is not mounted has no state.*)
(* The diagnostics and the server pages are checked apart (ServerPages).    *)
(***************************************************************************)
EXTENDS LogStream, ConfigEditor, ConfigForms, ConfigReload, UpdatesPage,
        AutoUpdate, SettingsPage, PersonEditor, PeopleList, HistoryWindow,
        CountersPage, WebPage, Geography, GeographyMap

VARIABLE screen

Screens == {"journal", "config", "reload", "forms", "updates", "policy",
            "settings", "person", "people", "history", "counters", "web",
            "geography", "map"}

operationVars == <<journalVars, configVars, reloadVars, formVars, updVars,
                   autoVars, setVars>>
peopleVars == <<pplVars, listVars>>
diagnosticVars == <<histVars, ctrVars, webVars>>
geographyVars == <<geoVars, chartVars>>
consoleVars == <<screen, operationVars, peopleVars, diagnosticVars, geographyVars>>

On(s) == screen = s
Unmounted == "unmounted"

Init ==
    /\ screen \in Screens
    /\ IF On("journal") THEN JournalInit
       ELSE /\ rung = Unmounted /\ st = Unmounted /\ ring = Unmounted
            /\ filter = Unmounted /\ list = Unmounted /\ tail = Unmounted
            /\ audit = Unmounted /\ hidden = Unmounted /\ spent = Unmounted
    /\ IF On("config") THEN ConfigInit
       ELSE /\ telemt = Unmounted /\ ed = Unmounted /\ tm = Unmounted
            /\ left = Unmounted
    /\ IF On("reload") THEN ReloadInit
       ELSE /\ clock = Unmounted /\ proc = Unmounted /\ note = Unmounted
            /\ saves = Unmounted /\ banner = Unmounted
    /\ IF On("forms") THEN FormInit
       ELSE form = Unmounted /\ formLeft = Unmounted
    /\ IF On("updates") THEN UpdInit
       ELSE worker = Unmounted /\ upd = Unmounted /\ updLeft = Unmounted
    /\ IF On("policy") THEN AutoInit
       ELSE policy = Unmounted /\ auto = Unmounted /\ autoLeft = Unmounted
    /\ IF On("settings") THEN SettingsInit
       ELSE /\ section = Unmounted /\ stored = Unmounted /\ setForm = Unmounted
            /\ setLeft = Unmounted
    /\ IF On("person") THEN PersonInit
       ELSE /\ pane = Unmounted /\ srv = Unmounted /\ ppl = Unmounted
            /\ pplLeft = Unmounted
    /\ IF On("people") THEN PeopleListInit
       ELSE /\ place = Unmounted /\ world = Unmounted /\ view = Unmounted
            /\ listLeft = Unmounted
    /\ IF On("history") THEN HistInit
       ELSE hist = Unmounted
    /\ IF On("counters") THEN CountersInit
       ELSE zero = Unmounted /\ deltas = Unmounted /\ ctrTime = Unmounted
    /\ IF On("web") THEN WebInit
       ELSE registry = Unmounted /\ web = Unmounted /\ webLeft = Unmounted
    /\ IF On("geography") THEN GeoInit
       ELSE atlas = Unmounted /\ geo = Unmounted /\ geoLeft = Unmounted
    /\ IF On("map") THEN MapInit
       ELSE chart = Unmounted /\ chartLeft = Unmounted

\* The step of the page that is open; the others have no state to change.
JournalStep ==
    /\ On("journal") /\ JournalNext
    /\ UNCHANGED <<screen, configVars, reloadVars, formVars, updVars,
                   autoVars, setVars, peopleVars, diagnosticVars,
                   geographyVars>>
EditorStep ==
    /\ On("config") /\ ConfigNext
    /\ UNCHANGED <<screen, journalVars, reloadVars, formVars, updVars,
                   autoVars, setVars, peopleVars, diagnosticVars,
                   geographyVars>>
ReloadStep ==
    /\ On("reload") /\ ReloadNext
    /\ UNCHANGED <<screen, journalVars, configVars, formVars, updVars,
                   autoVars, setVars, peopleVars, diagnosticVars,
                   geographyVars>>
FormsStep ==
    /\ On("forms") /\ FormNext
    /\ UNCHANGED <<screen, journalVars, configVars, reloadVars, updVars,
                   autoVars, setVars, peopleVars, diagnosticVars,
                   geographyVars>>
UpdatesStep ==
    /\ On("updates") /\ UpdNext
    /\ UNCHANGED <<screen, journalVars, configVars, reloadVars, formVars,
                   autoVars, setVars, peopleVars, diagnosticVars,
                   geographyVars>>
PolicyStep ==
    /\ On("policy") /\ AutoNext
    /\ UNCHANGED <<screen, journalVars, configVars, reloadVars, formVars,
                   updVars, setVars, peopleVars, diagnosticVars,
                   geographyVars>>
SettingsStep ==
    /\ On("settings") /\ SettingsNext
    /\ UNCHANGED <<screen, journalVars, configVars, reloadVars, formVars,
                   updVars, autoVars, peopleVars, diagnosticVars,
                   geographyVars>>
PersonStep ==
    /\ On("person") /\ PersonNext
    /\ UNCHANGED <<screen, listVars, operationVars, diagnosticVars,
                   geographyVars>>
PeopleStep ==
    /\ On("people") /\ PeopleListNext
    /\ UNCHANGED <<screen, pplVars, operationVars, diagnosticVars,
                   geographyVars>>
HistoryStep ==
    /\ On("history") /\ HistNext
    /\ UNCHANGED <<screen, ctrVars, webVars, operationVars, peopleVars,
                   geographyVars>>
CountersStep ==
    /\ On("counters") /\ CountersNext
    /\ UNCHANGED <<screen, histVars, webVars, operationVars, peopleVars,
                   geographyVars>>
WebStep ==
    /\ On("web") /\ WebNext
    /\ UNCHANGED <<screen, histVars, ctrVars, operationVars, peopleVars,
                   geographyVars>>
GeographyStep ==
    /\ On("geography") /\ GeoNext
    /\ UNCHANGED <<screen, chartVars, operationVars, peopleVars,
                   diagnosticVars>>
MapStep ==
    /\ On("map") /\ MapNext
    /\ UNCHANGED <<screen, geoVars, operationVars, peopleVars,
                   diagnosticVars>>

Next ==
    \/ JournalStep \/ EditorStep \/ ReloadStep \/ FormsStep
    \/ UpdatesStep \/ PolicyStep \/ SettingsStep \/ PersonStep
    \/ PeopleStep \/ HistoryStep \/ CountersStep \/ WebStep
    \/ GeographyStep \/ MapStep

ConsoleSpec == Init /\ [][Next]_consoleVars

-----------------------------------------------------------------------------
(***************************************************************************)
(* The properties of the pages, each for the screens it is about.           *)
(***************************************************************************)

\* No answer, refetch or frame takes away what the operator typed, chose or
\* was told to do: the configuration draft in both editors, the update policy,
\* the settings forms, the user, WEB account and schedule forms, the question
\* being confirmed on a user's sheet, the server's position, and the note that
\* Telemt needs a restart (draftSession.ts and each form's own onSuccess;
\* UserActionSheet; pendingChanges.ts).  The code loses a draft in four cases,
\* which the pages' properties except by name: a failed GET of the updates
\* (PageFails), GeoIP's Disable, a failed poll of the schedule
\* (SchedulePollFails) and a user who leaves the users frame (UserLeaves).
WorkIsKept ==
    /\ On("config") => TypedIsKept
    /\ On("policy") => PolicyDraftKept
    /\ On("settings") => SettingsDraftsKept
    /\ On("person") => LateEditsKept /\ AskedIsConfirmed
    /\ On("geography") => GeoDraftKept
    /\ On("reload") => RestartIsRemembered
DraftsKept == [][WorkIsKept]_consoleVars

\* The run on the updates page and the stepper of a configuration reload never
\* step back, whichever of the stream, the polls and the watch reports last and
\* whatever else takes the stream's one slot, with the exceptions that
\* RunNeverGoesBack names (selectUpdateRun, useReloadPolling).
RunsMoveForward ==
    [][/\ On("updates") => RunNeverGoesBack
       /\ On("reload") => StepperMovesForward]_consoleVars

\* The journal is never behind a dead feed without a timer, a probe or a retry
\* (createLogStream).
JournalMovesOn == On("journal") => WayForward

\* The journal's feed and the action history skip nothing (logRing.ts,
\* useAuditLog).
JournalHasNoGaps == On("journal") => NoGaps

\* The structured and the TOML editor never both hold unsaved work
\* (ConfigPage).
OneEditorDraft == On("config") => OneDraftAtATime

\* Records of the form editors, numbered by position, stay paired with their
\* open cards and put-away decoys (UpstreamsEditor, WebEditor).
FormsStayPaired == On("forms") => DecoysStayWithTheirHost /\ CardsFollowRecords

\* The editors of the configuration lose nothing to each other and mix up
\* nothing: both of the above (ConfigPage, StructuredSettingsForm).
EditorsStaySound == OneEditorDraft /\ FormsStayPaired

\* What the restart watch decides is true of the run it watches
\* (usePanelRestartWatch).
WatchDecidesRight == On("updates") => WatchTellsTheTruth

\* What is sent is what the operator meant: a user's PATCH holds the fields
\* they touched, a schedule's rule that is to take effect was previewed as sent,
\* and a close takes the sessions that were seen and no other (buildUserPatch,
\* ScheduleForm, WebSessionsSection).
RequestsAreMeant ==
    /\ On("person") => PatchIsTheAdmins /\ SentRuleWasPreviewed
    /\ On("web") => CloseIsWhatWasAsked

\* What was done stays on screen: saved storage policies, and a bulk reset
\* that Telemt has started (StorageSettings, useQuotaReset).
DoneIsShown ==
    /\ On("settings") => SavedIsShown
    /\ On("people") => StartedResetIsTracked

\* Lists agree with the counts, filters, pages and banners beside them, on the
\* people and WEB pages, while the people and their addresses move
\* (userList.helpers.ts, PersonIPHistory, WebPage).
ListsAgree ==
    /\ On("people") => RowsAgreeWithCounts /\ HistoryPagesFit
    /\ On("web") => WebPanelsAgree

\* A figure computed over time is never more than really happened, across
\* restarts of Telemt: the changes of the counters, and the warnings of
\* unapplied changes.
FiguresAreHonest ==
    /\ On("counters") => DeltasWithinRun
    /\ On("reload") => WarningsAreHonest

\* The same of the traffic and the quality of the last window, whatever mix of
\* samples and aggregates the history is (historyIntervals.helpers.ts).
TrafficIsHonest == On("history") => HistoryIsHonest

\* The totals, the selection and the people of the geography are of one snapshot; a
\* list row of an earlier one is a placeholder no one can pick (LocationList); nothing
\* of a revoked snapshot shows (useGeography); and the map never jumps under the hand
\* (VectorMap).
GeographyIsCurrent ==
    /\ On("geography") => FrameIsWhole /\ RevokedIsQuiet
    /\ On("map") => GestureIsSmooth

=============================================================================
