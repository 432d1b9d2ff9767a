# TLA+ models of the telemt panel

The panel administers a Telemt proxy on a single host. Its server is one Go
process: it serves a JSON API, polls Telemt, keeps a state file and a history
database, resets user quotas on a schedule, and updates itself and Telemt. Its
interface is a React application (`web/src`): a realtime connection, forms over
documents that others change too, and pages that turn one set of topics into
verdicts. This directory holds TLA+ specifications of the parts in which the
order of steps decides whether the result is right, TLC configurations that
check them on small instances, and TLAPS proofs for instances of every size.
`PROJECT.json` lists components, runs, hazards and theorems, and gives the
source lines behind each definition.

## Inventory

### The server

| Component (code) | State it keeps | Operations | Correct means | Model |
|---|---|---|---|---|
| Update worker (`internal/update/worker*.go`) | `state.json`, `operation.lock`, `.bak`, snapshot directory | Submit, WithHostControl, watchdogs, RunWorker, rollback, cleanup, RecoverWorker | an update happens completely or not at all, the way back survives every failure, each accepted update ends | `UpdateWorker` |
| Worker command, launcher (`cmd/panel/update_worker.go`, installer scripts) | none of its own | start worker, recover then exec the panel | no panel runs on half restored data | in `UpdateWorker` |
| Host operations (`internal/host`) | service manager, binaries | stop, start, restart, install, restore | an error may come with or without the effect | in `UpdateWorker` |
| Atomic file write (`internal/atomicfile`) | files | write, rename, sync | old or new content, never a mixture | outcomes only |
| Quota manager (`internal/quotareset/manager.go`) | prepared selection, job, flags | Prepare, Start, run, ExecuteScheduled, ResetSingle, Close | resets exclude each other, one confirmation one batch, honest counters | `QuotaManager` |
| Quota scheduler (`scheduler.go`) | record of rules and cursors in the state store | SaveGlobal, SaveUser, ForgetUser, Tick, finish, NewScheduler | no slot repeated, invented or starved | `QuotaScheduler` |
| Quota calendar (`calendar.go`) | none | Rule.Next, Preview | strictly later, monotone slots | periodic abstraction |
| In-process engine (`internal/update/engine.go`, `startup.go`, `auto.go`) | journal of phases, update lock | runPhases, restart handoff, ReconcileInterrupted, automatic updates | the new process confirms or fails the interrupted run | plan |
| Releases and artifacts | cache of release pages | list, download, verify, extract | only verified files are staged | failure of a step only |
| Hub and collectors (`internal/hub`) | topics, pollers, ring of events, subscribers | subscribe, poll, publish, replay, grace stop | a subscriber sees a consistent latest state, one poller per topic | plan; its client is `SseClient` |
| Session guard, SSE sessions, log streams | registered streams per session | register, revoke, expire | nothing streams after a revocation | plan; its client is `PanelSession` |
| Rate limiter (`internal/ratelimit`) | windows, in-flight attempts | reserve, commit, release, evict | never more attempts than the limit | plan |
| GeoIP manager (`internal/geoip`) | bundles, manifest, readers | stage, publish, clean up, load | the manifest names complete files | plan |
| Panel TLS (`internal/paneltls`) | generations of certificates | obtain, reload, serve | no stale generation replaces a newer one | plan |
| State store (`internal/store`) | JSON state, SQLite history | settings, sessions, passkeys, audit, traffic | memory and file agree after each outcome | SetSetting as the scheduler uses it |
| Telemt client (`internal/telemt`) | capability cache | health, users, quota, configuration | an answer is classified by what Telemt did | answers of quota and user calls |
| HTTP API (`internal/httpapi`) | none that lasts | handlers | calls the components in the right order | handlers of modelled parts |
| Geography, subscription page, configuration, migration, branding | caches, files | rendering, parsing, conversion | formats | not modelled |
| Installer and tooling | files of the installation | install, upgrade | sequential scripts | launcher and updater unit |

### The interface

| Component (code under `web/src`) | State it keeps | Correct means | Model |
|---|---|---|---|
| Realtime client (`realtime/sseClient.ts`) | counted topics, one EventSource, requests, timers, snapshots | no answer crosses a logout or replaces a newer one; a mounted topic becomes current | `SseClient` |
| Session (`auth`, `lib/api/client.ts`, `routes/_authed.tsx`, `shell/StatusStrip.tsx`) | cookie, page, 401 interceptor | an expired session reaches the login page; the strip is honest | `PanelSession` |
| Journal (`journal`) | stream, ring, filters, list window, tail, audit pages | the feed never hangs, nothing is skipped | `LogStream` |
| Drafts (`lib/draftSession*.ts*`) | baseline, draft, remote | what was typed survives answers | `DraftSession` |
| Configuration (`server/config`) | two editors, record lists, reload polling, restart note | one draft, paired records, honest warnings | `ConfigEditor`, `ConfigForms`, `ConfigReload` |
| Updates (`server/updates`) | run from three sources, restart watch, policy form | the run never steps back, the watch is right | `UpdatesPage`, `AutoUpdate` |
| Settings and service control (`server/settings`, `server/platform/TelemtServiceControl.tsx`) | one form per section | drafts survive, what was saved is shown | `SettingsPage` |
| People (`people`) | forms, sheets, list, history pages, bulk reset | the PATCH is what was touched, lists agree with counts | `PersonEditor`, `PeopleList` |
| Dashboard and diagnostics (`pulse`) | topics, picks, filters, tabs | the same data gives the same verdict everywhere, nothing is green on old data | `PulseSources`, `PulseData`, `PulseHub`, `PulseOverview`, `PulsePages` |
| History and counters (`pulse/widgets/historyIntervals.helpers.ts`, `pulse/diag/counters*`) | series, baseline | no figure claims more than happened | `HistoryWindow`, `CountersPage` |
| WEB transport (`pulse/diag/Web*`) | registry pages, question, operation | what is closed is what was asked | `WebPage` |
| Geography (`geography`) | snapshot, selection, pages, camera | totals, selection and people of one snapshot, list rows of an earlier one only as placeholders, nothing of a revoked one | `Geography`, `GeographyMap` |
| Server hub, security, platform (`server`) | request results | agree with the diagnostics | `ServerPages` |
| Shell, design system, texts, PWA, branding | preferences | presentation | not modelled |

How they interact. Handlers call the engine, the worker's client, the quota
manager and the scheduler; the scheduler's goroutine calls the manager, which
calls back into the scheduler (`reserve`) inside its critical section; the
manager calls Telemt with its mutex released. The panel, the worker and the
launcher are three processes that meet only in `state.json`, in two lock files
and in the init system. The hub's pollers call Telemt and the host and feed the
SSE sessions, which the session guard can end. In the browser every page reads
topics from one realtime client and asks for the rest with requests whose
answers are cached; a form takes its draft from such an answer, and other
administrators, the stream, refetches and the panel's own restart fall between
the reading, the typing and the saving.

What is hard. A worker killed between any two writes; a save whose rename became
visible and whose directory sync failed; init or an operator starting the panel
in the middle of an update; a mutex released around a network call whose answer
may never come; a rule edited while its batch runs; an answer that arrives after
the question, the session, the draft or the list it was for; a panel that
restarts under the page that watches it; one proxy described by twenty widgets
from topics that fail one by one. The hazards of `PROJECT.json` name the line
of each one and the properties that would catch it.

## The modules

### Server

`UpdateWorker` (`internal/update/worker.go`, `worker_state.go`,
`worker_snapshot.go`, `worker_health.go`,
`cmd/panel/update_worker.go`, launcher and unit files).
State: the record as anyone reads it (`task`) and as it surely is on disk
(`synced`), the holder of `operation.lock` with its step `pc` and its in-memory
record `mem`, the worker's unit, the services, the data-directory lock, and the
binaries, backups, data files and snapshot. Everyone who acts on the record holds
`operation.lock` while doing so, so a single `pc` is enough; the panel, init, the
operator and crashes interleave with it at each step. Actions are grouped as
`Client`, `RunWorker`, `Install`, `Recovery` (steps shared by the worker and the
startup recovery), `Startup` and `Host`. Points to know when reading it beside
the code:

- Every save succeeds, fails with nothing written, or fails with the new record
  visible. Every host command succeeds, or returns an error with or without its
  effect. `MaxFaults` bounds failures, kills, crashes and reboots together.
- `data[f]` is the set of versions that have written the file, which tells
  apart everything a snapshot and a restore can do to it. `pre` is a history
  variable: binaries and data when the task was queued.
- `OpRestoreBinary` copies the backup and can be repeated. A worker that returns
  an error is restarted by init; a restart that comes late is covered by
  `WorkerCrash`. The two equal answers the health probe waits for are one
  observation, the save after the backup file is merged with the next one, and
  a failed service action may leave Telemt in each of its states.
- With `PowerLoss` a reboot may bring back the last record that was synced;
  without it a visible rename survives.
- Left out: the launcher's fallback to the `.bak` executable, the probe of the
  candidate (its failure is `InstallStepFails`), the journal of the last 400
  lines, `--check-idle`, and the configuration the worker command reads before
  it takes the lock (a mismatch makes the command fail).

`UpdateTransaction` is what the worker promises: one accepted update at a time,
which is committed at one instant or aborted without a trace.
`UpdateWorkerRefinement` maps the worker onto it: while a task is active the
abstract host is `pre`, afterwards it is the real one.

`QuotaManager` (`manager.go`). Each action on the manager is one critical
section of its mutex; the snapshot of Telemt's users and the reset requests are
steps of their own between two critical sections. Callers are HTTP handlers;
`Scheduler` is the tick's goroutine. Telemt is a set of users with a revision
that changes with each edit, and applies a reset only to an existing user at the
revision of `If-Match`. A failed request may have been applied. `issued`,
`begun` and `applied` are history variables. A request abandoned by a crash or a
timeout may still be applied by Telemt later: `ExclusiveReset` is about the
requests the panel waits for. The last two critical sections of `Prepare` are
one action, since nothing that happens between them can see a difference.

`QuotaScheduler` (`scheduler.go`) extends the manager: `Reserve` is the manager's
critical section together with the callback and the write of the record.
`RuleNext` stands for `Rule.Next` with periodic slots shifted by a timezone. An
edit with a stale revision is refused and is no step. A slot that coincides with
the activation of a user's rule counts as set in time. A pending result that is
written late moves its cursor past the slots that elapsed meanwhile, as the code
does. Durable storage is assumed, because the code lets no rule be switched on
without it; `RecordLoads` shows that the branch of `NewScheduler` for a record it
refuses cannot be reached by records the panel wrote.

### Interface

Everything below models `web/src`. The pages share a few conventions. A page's
state is one or two records, and each function or handler of the source is an
operator on them or an action. A request that is awaited is a phase between two
actions, so that anything may happen before its answer; answers may come late,
fail, or be lost after the server has acted. The server, Telemt and other
administrators are the environment, marked external in the map. Clicks, faults
and foreign writes draw on one budget per page, the constants named `Max...`.
Documents, policies and names are numbers or model values; wording and layout
are left out.

`SseClient` (`realtime/sseClient.ts`) is the client's record `c`, with one operator
per function: mounting counts a topic, a debounced rebuild follows the counts,
failures lead to probes, backoff and polling. The counters `generation`,
`revision` and `requestTicket` are only compared with copies taken when a request
was sent; a request therefore keeps the set of topics for which all copies still
match. `PanelSession` composes it with the session cookie, the guards, the 401
interceptor, login, logout and the status strip, over a server that publishes,
expires sessions and drops streams.

`LogStream` (`journal`) is the stream of one service with its reconnection ladder,
Retry-After, hidden tabs and source errors; the ring with pause; the filters; the
list's window and follow flag; the tail that replaces a stream that cannot be had;
and the action history with its pages.

`DraftSession` (`lib/draftSession.ts`) holds the four operators of a draft over a
versioned document. `ConfigEditor` uses it for the TOML editor beside the
structured one, whose save, conflict, rebase and late edits are modelled on leaves
of the document. `ConfigForms` are the editors that work on lists of records by
position. `ConfigReload` is what happens after a save: reload policies, their
polling and stepper, the note in the browser and the hero that resolves it, in
half seconds, because Telemt reports whole seconds and the browser milliseconds.

`UpdatesPage` and `AutoUpdate` (`server/updates`), `SettingsPage`
(`server/settings` and the service control), `PersonEditor` and `PeopleList`
(`people`), `WebPage` (`pulse/diag/Web*`), `Geography` and `GeographyMap`
(`geography`), `HistoryWindow` and `CountersPage` follow the same pattern. In
`HistoryWindow` the true counter is kept beside what was sampled, so that every
figure has something to be compared with; in `ConfigForms` records carry an
identity the code does not have, for the same reason. Points to know when reading
some of them beside the code:

- `UpdatesPage` is the page as one target sees it. The stream keeps one event of the
  topic `update` for all publishers, so a frame may be a report of this target's run,
  one of the other target's (`mine` is false), or a notice of auto-update's check,
  which has no run, phase or start; `SelectUpdateRun` filters by target as the code
  does. A failed GET of the list replaces the page by `ErrorState` (`PageFails` here
  and in `AutoUpdate`), which unmounts what hangs below it.
- `PersonEditor`: the schedule form is the common rule or a user's, the latter in mode
  inherit, off or custom. `MustValidate` asks for a preview of the common rule and of
  mode custom only. Its poll may fail and unmount the form (`SchedulePollFails`).
- `PeopleList`: the address history is a set of addresses, each with the time it was
  last observed; any of them may be observed again between two pages. A page is what
  lies behind its keyset cursor, as `user_ip_handler.go` cuts it.
- `Geography`: a list that asks for a page of a new snapshot shows the rows it had
  until the answer comes (`kept`, from `placeholderData`), with picking disabled.
- `CountersPage`: the classes of handshake failures are counted apart from their
  total, so any mix of growth and reset may arrive in one answer.

The diagnostics are one chain of modules. `PulseSources` says what a source may be
(loading, failed, gated, empty, stale, ready) as `pulse/sourceState.ts` resolves
it; `PulseData` holds the topics, cut down to what some verdict looks at, with the
values on both sides of each threshold and constants for the limits at which the code
cuts its lists and its timeline (`AttentionLimit`, `WatchLimit`, `TimelineLimit`); `PulseHub` derives the nine cards,
`PulseOverview` the dashboard's widgets, `PulsePages` the diagnostics pages with
the operator's picks, and `ServerPages` the server's menu, security and platform
pages. Each is a function of the same state, which is what makes agreement a
question. Frames change a few fields at a time: a behaviour has `MaxPulse` frames,
errors or answers.

`Console` composes the pages that keep state of their own: the router mounts one
screen, a behaviour visits one of them, and each property is stated for the
screens it is about. There is no shared variable between two screens; what
passes from one page to another (the note of an unapplied configuration, the
operation of a bulk reset) is inside one module.

Operators marked `Mutant:` are deliberate mistakes in the operator that follows.
No specification uses them; `PROJECT.json` pairs one with each property that
must notice it, and the modules keep a few more, for the other parts of the
composed properties.

## The runs

| Run | Instance | States | Shows |
|---|---|---|---|
| `update` | both targets, 3 versions, 2 files, 3 failures | 1 410 000 | `TypeOK`, `RollbackPossible`, `AtomicOutcome`, `SnapshotIsQuiet`, `ResultIsFinal`, `Implements` |
| `update_liveness` | both targets, 2 versions, 1 file, 2 failures | 200 000 | `UpdateEnds`, `PanelReturns` |
| `doc_rollback_keeps_data` | panel, 2 failures | violated | `docs/UPDATES.md` promises that a rollback leaves configuration, state and history alone; the worker restores them from the snapshot |
| `failed_write_backup` | Telemt, power loss | violated | a terminal save that failed in the directory sync does not retain the backup, against the comment in `worker.go` |
| `quota_manager` | 2 users, 2 handlers, 2 tokens, 4 requests, 2 failures | 299 000 | `ExclusiveReset`, `TokenBeginsOnce`, `ConfirmedSelection`, `HonestCounts`, `StartsNothingWhenClosed` |
| `quota_scheduler` | 2 users, period 2, 2 zones, 4 ticks, 3 edits, 1 failure | 2 800 000 | `LastIsHonest`, `RecordLoads`, `OncePerSlot`, `RevisionIdentifiesConfig` |
| `quota_liveness` | 1 user, 1 handler, 3 ticks, 3 requests, 1 failure | 82 000 | `DueIsServed`, `CloseReturns` |
| `sse_safety` | 2 topics, 2 requests, 2 sessions, 2 versions, 2 visits, 1 fault | 1 640 000 | `NoDataAcrossLogout`, `AnswersNeverRegress`, `ConnectionFollowsMounts`, `StripIsHonest` |
| `sse_liveness` | 1 topic, 1 request, 2 sessions, 1 fault | 70 000 | `EventuallyCurrent`, `ExpiryReachesLogin` |
| `console` | the fourteen screens, see below | 1 110 000 | the twelve properties below |
| `diagnostics` | six topics, three clients, limits of 1 and 2 rows, two changes from nothing yet or from all well | 72 000 | `VerdictsAgree`, `GreenIsFresh`, `PulseListsAgree` |
| `pending_restart` | 1 save, no restart, stats up to 3 s old | violated | the note of a needed restart is erased though Telemt was not restarted |

The properties of `console`, each for the screens it concerns:

- `DraftsKept`: no answer, refetch or frame takes away what the operator typed,
  chose, or is being asked to confirm, nor the note that Telemt needs a restart
  (the age of the statistics apart: `pending_restart` is about that). The code loses a
  draft in four cases, which the property excepts by name: a failed GET of the updates
  unmounts the policy form, GeoIP's "Disable" erases a typed draft, a failed poll of the
  schedule unmounts its form, and a user who leaves the users frame takes an open form
  along.
- `RunsMoveForward`: the run on the updates page and the stepper of a reload do
  not step back, whichever source reports last and whatever else takes the stream's
  slot. Excepted are a list that was asked for before the one it replaces, a reload of
  the page, a notice of this target while it holds the slot, and the step in which the
  other target takes the slot: then the page falls back on its list, and no further.
- `JournalMovesOn`, `JournalHasNoGaps`: behind every dead feed there is a timer, a
  probe or a button; the feed and the action history skip nothing.
- `EditorsStaySound`: only one editor holds unsaved work (`OneEditorDraft`);
  records, open cards and put-away decoys stay together (`FormsStayPaired`).
- `WatchDecidesRight`: what the restart watch says is true of the run it watches.
- `RequestsAreMeant`: a PATCH holds the fields that were touched; a rule that is to
  take effect (the common one, or a user's in mode custom) was previewed as it is sent,
  and although modes inherit and off send theirs without a preview, no invalid rule is
  ever stored; a close takes the sessions that were seen.
- `DoneIsShown`: saved storage policies and started bulk resets stay on screen.
- `ListsAgree`: lists agree with counts, filters, pages and banners. Of the address
  history, whose order moves while it is read: a page lies behind the page before and
  holds every listed address between its cursors that was not observed since; the
  numbers "from - to of matched" count the pages turned and are those of the addresses
  as long as the history stood still.
- `FiguresAreHonest`: across restarts of Telemt a change on the counters page lies
  within one run, and a warning of unapplied changes is true.
- `TrafficIsHonest`: the traffic and the quality of the last window never claim
  more than happened, nor to be complete when they are not.
- `GeographyIsCurrent`: totals, selection and people on screen are of one snapshot of
  the scope asked for, list rows of another only as placeholders of an earlier one that
  cannot be picked; nothing shows of a revoked snapshot; and the map does not jump under
  the hand.

Of `diagnostics`:

- `VerdictsAgree`: hub and page, hero and problem list, server pages and diagnostics.
- `GreenIsFresh`: a healthy verdict only over current data of every source it needs.
  Two cases are excepted: a page whose required source is empty, which
  `aggregateSources` calls ready whatever became of the optional ones, and the page of
  the network address in direct mode, which is ready by the gates it holds, however old.
- `PulseListsAgree`: the detail pane shows a row its list has, the operator's choice
  while it is there; filters split the whole list; the timeline stands for the newest
  events, each once and no run cut in two; whoever is on the quota card is among the
  clients that need attention unless that list is full of clients that come first; and
  the colour of their count, taken from the rows listed, is that of all of them.

Why the bounds are enough to meet the interesting cases. Three versions let a
second update follow a finished or failed first one with a backup left behind.
Three failures cover a failed step, a failed recovery from it, and a failure in
the recovery of that. Two files let a crash fall between two copies. Two
handlers and the scheduler give every pair of competitors for the manager; two
tokens and four requests let a token be sent again after another batch. Four
ticks with a period of two leave a slot missed, a slot served and a slot after
a restart; two zones move the slots under a rule. Two requests in flight and two
versions of the data are what an older answer needs to overtake a newer one; two
sessions what an answer needs to cross a logout. Rings and pages of one or two
entries with four or five lines overflow. Two foreign writes and six inputs let a
conflict follow a conflict in the editor with late typing in between; four to
six inputs do on the other forms, where an operation takes two or three. Two
runs and three kinds of report give a late report of an earlier run. Two changes
are enough for the diagnostics because verdicts are functions of the present
topics: the first frame moves any of the fields, the second brings the stale or
missing counterpart, and picks and filters survive both. The code's limits are
scaled down in their order: attention list before quota card (5 and 6 rows there, 1 and 2
here), with three clients so that both are cut, and a timeline of 2 rows over up to five
events (5 or 6 over 50 there). A history of five addresses in pages of two has a page
between two others. Versions, files, users,
callers and tokens are interchangeable and declared symmetric in the server's
safety runs; no liveness run uses symmetry. The interface's runs allow deadlock,
since a behaviour ends when its budget is spent; that nothing hangs is stated
by `JournalMovesOn`, `EventuallyCurrent` and `ExpiryReachesLogin`.

Fairness. For the worker: processes that can run go on running, init restarts
services and workers that fail (the unit files say so), and the panel's poll
loop keeps calling `failUnstarted` and `ResumeRecovery`. For the quotas: the
ticker fires for ever, calls to Telemt have a timeout, and goroutines run on.
For the realtime client: armed timers fire, the browser opens, delivers and
reports, and requests are answered. Strong fairness is assumed of an answer that
still counts when it arrives: from the fourth failure on the client waits at
least 16 s before it rebuilds the stream, so rebuilds cannot outrun every
answer. Fairness is given per process, never to a choice between outcomes, and
nothing is assumed of operators: no update is ever submitted, no stopped panel
started and no page opened because of fairness. Failures are bounded, so a
liveness result says: once failures cease.

## The proofs

Every theorem holds for all sets of users, topics, files and versions and for all
bounds on requests, ticks, runs, clicks and failures; the constants satisfy only
the named `ASSUME`s of their modules. None uses fairness. In each case the
property is not inductive by itself, and the invariant that carries it was
checked with TLC on the run's instance before it was proved.

| Module | Theorems | Properties |
|---|---|---|
| `UpdateWorkerProofs` | `TypeCorrect`, `RollbackAlwaysPossible`, `OutcomeIsAtomic`, `SnapshotsAreQuiet`, `ResultsAreFinal`, `WorkerIsATransaction` | the properties of `update`, the refinement `Implements` among them |
| `QuotaProofs` | `ResetsExclude`, `TokensBeginOnce`, `BatchesAreConfirmed`, `CountsAreHonest`, `ClosedStartsNothing` | those of `quota_manager` |
| | `RecordsLoad`, `LastsAreHonest`, `SlotsServedOnce`, `RevisionsIdentify`, `ScheduledManager` | those of `quota_scheduler`; and the manager's invariants under the scheduler |
| `PanelSessionProofs` | `NothingCrossesLogout`, `NoAnswerRegresses`, `ConnectionFollows`, `StripTellsTheTruth` | those of `sse_safety` |
| `ConsoleProofs` | `JournalIsNeverStuck`, `JournalSkipsNothing`, `EditorsTakeTurns`, `FormsKeepTheirRecords`, `EditorsRemainSound`, `WatchIsTruthful`, `RunsOnlyMoveForward`, `GeographyStaysCurrent`, `DoneStaysShown`, `WorkStaysKept`, `RequestsStayMeant`, `FiguresStayHonest`, `ListsStayAgreed` | `JournalMovesOn`, `JournalHasNoGaps`, `EditorsStaySound` with its two parts, `WatchDecidesRight`, `RunsMoveForward`, `GeographyIsCurrent`, `DoneIsShown`, `DraftsKept`, `RequestsAreMeant`, `FiguresAreHonest`, `ListsAgree`: all of `console` but `TrafficIsHonest` |
| `PulseProofs` | `GreenMeansCurrent`, `PagesTellTheSame`, `ListsTellTheSame` | those of `diagnostics` |

`DraftProofs` (configuration editors, update policy, a person's forms, the updates
page), `PageProofs` (structured forms, journal, counters) and `GeographyProofs`
hold the lemmas of pages that `ConsoleProofs` draws its theorems from.

**The worker.** Assuming that a visible rename survives a reboot (`~PowerLoss`),
which cannot be dropped: `failed_write_backup` is its counterexample. Whether a
step is safe depends on where its holder stands, so `UpdateWorkerInv` defines the
inductive invariant `IInv`:

- `Good(task)`: what the record says of the host. Without a publication intent
  the phase alone determines binaries and data (`Settled`); with one each of
  them is old or new (`Straddles`) and the backup and the snapshot are complete.
  It is stated of any record, so that the same lemma (`SaveGood`) covers a save
  that succeeded, failed, or failed visibly.
- `LockOK`: who holds `operation.lock` and the data-directory lock at which step.
- `StepOK`: per step, how far `mem` agrees with `task` and what has been done.
- `PanelOK` and `BaseOK`: a running panel owns its data directory and has opened
  its files, and the old panel had opened them before the update. Hence an old
  panel that starts once more changes nothing, which is what makes a second
  restore, after a recovery that could not be recorded, harmless.

`InvInit`, one lemma per group of actions (`InvClient`, `InvRunWorker`,
`InvInstall`, `InvRecovery`, `InvStartup`, `InvHost`) and `InvImplies` give the
invariants; `FinalNext` derives the action property from `IInv`.

**The refinement.** `TaskKept`: no step but `Submit` changes the target or the
version of the task, because a record is only ever derived from its holder's own
(`HolderAgrees`). A step between two unfinished tasks is then a stutter of
`UpdateTransaction`, `Submit` is `Accept`, and a step that ends the task is
`Commit` or `Abort` by `AtomicOutcome` (`EndsAtomically`); after the end
nothing moves until the next `Submit` (`EndedStutters`).

**The quota manager.** `Core` conjoins types, `Exclusion` (each of the flags
`checking` and `single` stands for one caller; the two and a running batch
exclude each other), `Flights` (a request on its way belongs to the batch or the
single reset under way), `Confirmations` (what is known of a token from its issue
to the end of its batch), `Counting` (processed, left and in flight add up to the
selection; at most one outcome is unknown, and it stops the batch) and
`Revisions`. `Core` does not mention the budgets, so the scheduler, whose edits
spend them too, takes its lemmas over unchanged.

**The scheduler.** `SchedInv`: the record in memory and the one a restart would
load are both `Sound` (a rule that is on has a cursor; the cursor is a slot of
the rule, later than every selection made; a user's rule is no newer than both
the slot it waits for and its eligibility) and `Newer` relates them: the disk is
never behind memory, and one revision names one configuration. Soundness of both
is what makes a crash between the claim and the batch harmless. The slots need
`DivMod` and that the next slot is the least one after a time. The assumption
`KeysAssumption` says that no user is called as the global rule is keyed.

**The realtime client.** `Clean` says that nothing in the store or on the wire is
of a signed-out session or newer than the hub, and that a request still speaks
only for topics whose data it would not set back. `Follows` and `Honest` tie the
status to mounts, timers and source. The operators of `SseClient` are described
by relations (`Narrows`, `Shows`, `Alike`) that compose, so that a handler made
of several of them is proved without expanding them together. `Topics` is finite.

**The pages.** `OnePage`: the screen never changes and only its page steps, so an
invariant of a page is one of the console. Then:

- Journal: `Feeding`: a reconnection is pending only without a source and has its
  timer exactly while the tab is visible; a probe runs only after a refusal;
  a source missing otherwise has been reported. Its contents (`JournalInOrder`):
  the lines shown and the lines held back are numbered without a gap, and what is
  held back follows what is shown unless the buffer is full, in which case a resume
  replaces everything shown (`RingInv`); the rows of all pages read so far go back
  one action at a time, whatever was recorded meanwhile (`AuditInv`).
- Forms: `FormInv`. Every list is numbered below the next number, every virtual host
  has decoys put away under its own number, and the open cards of the list on screen
  are the records that were opened. The lemmas describe `RemoveAt` and `InsertAt` by
  what becomes of each position.
- Counters: `CountersInv`. While no restart has passed unseen, the last two answers
  and the baseline are of one run. The notice of a save: `NoticeInv`, an answer on
  screen is the last there was, so it offers what the note says, and the banner that
  erases notes is not mounted beside it.
- Lists: `RowsInv`, every name has a user (`People` is finite), so that being near a
  quota and being past it split one whole; `IpsInv`, every page in the cache was cut
  behind its cursor (`IsIpPage`) and holds, at any later time, what lies between its two
  cursors and was not observed since (`PlacedPage`); while the clock of observations has
  not moved since the second page was asked for, as many addresses are in front of each
  cursor as fill the pages before it (`CursorsInStep`).
- Editors: while the TOML editor is open, dirty or saving, the structured editor
  has no changes and no PATCH in flight (`TomlBusy => Quiet`).
- Updates: `UpdInv`. Everything the page holds (event, list, probe, journal of the
  watch) is a report that the worker made, and the worker has only gone on since
  (`Reported`, `GoesOn`), or a frame of the other target, or a notice; a probe was asked
  under the watch's own run. Reports are ordered by run and phase (`Ahead`), and what is
  shown only moves up that order but for the exceptions above.
- Reload: `ReloadInv`. Reloads are numbered; the one asked for is neither the one
  on screen nor one a save has started; a status is not ahead of its reload.
- Geography: `Consistent` holds of the page before and after a render: cached
  snapshots were taken for their scope, the frame kept from before is one
  snapshot, only the open scope is being read and not while blocked, an answered
  page was cut for its snapshot, and snapshots rise from the list's kept rows over the
  kept frame to the cache (`Rising`), which makes placeholder rows older ones. `RenderActs` follows one render through its five
  stages and shows that it leaves one frame on the screen (`OneFrame`); every
  action is a change that keeps `Consistent` followed by a render. Map: `Steady`,
  a gesture has a beginning exactly while a pointer is down, and a move computed
  from it now is where the camera is (`SameSpread`: multiplying and dividing by
  one spread leaves the zoom).
- What was done (`DoneIsShown`): `StorageInv`, the draft of the storage section
  stays from the first edit until a list read after the save, and a read that may
  replace the list while nothing covers it was asked for after the save;
  `BulkInv`, the bulk reset that runs is tracked, and so is the one request that
  could still start one, also when its answer is lost.
- What was typed (`DraftsKept`): `KeptInv` has one invariant per page. `DocsInv`
  and `AutoInv`: what the configuration editors and the update policy have read,
  drafted and sent are documents, a draft being none only while nothing was read
  or typed, so that a comparison of drafts means what it says. `SettingsInv`: what
  is in flight or waits for its confirmation is the draft on screen (`FormsInv`);
  the address an untouched access form shows is the panel's until this form saves
  another (`AccessInv`). `PersonInv`: a field the admin left alone is as it was
  read, in the form, in the request and in its body, and a preview on screen is
  that of the rule it was asked for. `PositionInv`: the position does not change
  while it is being saved. `NoteInv`: the statistics on the overview are no older
  than `StatsAge`, and the start of the process worked out from them is at most one
  rounding after the real one. `KeptSteps` shows, page by page, that a step from
  such a state keeps both the invariant and the work.
- What is sent (`RequestsAreMeant`): `PersonInv` again, and `WebInv`: the question
  being confirmed, and the one submitted, takes of the rows in memory when it was
  asked exactly those it was asked about (`IntentOK`). A filter may stand for the
  rows found only because a search narrows the question to a list (`FoundAsked`).

**The diagnostics.** `PulseInv`: every field of a payload has a value its topic can
send, and what has not arrived reads as absent; `MenuInv` says the same of the
requests of the server menu. A verdict is a function of the present topics, so the
rest is reasoning about those functions: `TopicResolved` and `QueryResolved` say what
a resolved source may claim, and one lemma per page or pair of pages compares what
two pieces of code make of the same source. The timeline is counted by a least-number
argument over its runs (`RunsCount`). Of the cut lists the first rows of a strict order
are taken (`ComesFirst`); that whoever is missing comes after all who are there follows
from the order alone, for any limits and any finite set of clients.

Proving showed one kind of mistake that TLC does not: `TargetState`,
`CurrentPhaseIndex` and `TailButton` were written with `CASE` arms that overlap,
where TLA+ leaves the choice open and TLC takes the first arm, as the code's
`if` chain does. They are disjoint now. It also showed three places where the model
had been convenient: a bulk confirmation could not expire while the sheet was open
(`ConfirmationExpires` is an action now); `RestartIsRemembered` held with a margin
that was a number and was in truth the bound `StatsAge`, which the property now
names; and the sessions of a page were ordered with `SortSeq`, of which the prover
knows nothing, so that `InOrder` and `FoundRefs` say the same by their members.
For the same reason the loops that resume the journal, flatten the pages of the
action history and merge events are recursive functions (`Flushed`, `RowsOfPages`,
`EventRuns`), and a page of the address history is described by what it holds
(`IsIpPage`) instead of by sorting.

Only model-checked:

- liveness (`update_liveness`, `quota_liveness`, `sse_liveness`): fairness and
  `ENABLED` are out of the prover's reach;
- `TrafficIsHonest`. The library's induction theorems cannot be instantiated; a
  least number that fails, and what the step before it gives, replace them for a
  recursive function whose defining equation is established once (`JournalSkipsNothing`
  and `ListsTellTheSame` are proved so). `HistoryWindow` folds over points that a fold
  has clipped, of aggregates that are sums over sets (`FoldLeft`, `MapThenSumSet`),
  and compares the sum with a telescoped difference; these operators are opaque to the
  provers, and the property is one of functions rather than of an order of steps, for
  which the enumeration of all short series is a fair check.

## What the models found

Three runs expect a violation and are findings in `PROJECT.json`: a rollback also
rolls back data (against `docs/UPDATES.md`), a terminal write that failed in the
directory sync does not keep the backup (against the comment in `worker.go`), and
the note of a needed restart is erased by an old statistics frame. The last one
has a second way in: `HealthHero.tsx:126-127` says that the note is read once per
mount because "only the Конфигурация page writes it, and getting back here means a
remount", but the answer to a save may arrive after the overview was opened, and
the effect then erases a note it never read.

Two disagreements with a comment are excluded from properties by name instead of
having runs of their own:

- `download.go:256-258` says that callers tell the notice of auto-update's check from
  the report of a run by the presence of `available_version`, but no code of the
  interface reads that field. `selectUpdateRun` takes the notice for a run of its
  target, so the header of the updates page says that the target is being updated
  (`UpdatesPage.tsx:83-92`) while its row shows no run, until another frame takes the
  slot (`NoticeHolds`, the exception in `RunNeverGoesBack`).
- `meAvailability.ts:8-9` says that "Only fresh runtime gates can establish
  Direct/fallback", and the other pages follow it; `NatPage.tsx:608-619` takes the mode
  from the gates it holds also after a failed poll, and is ready by it in mode direct
  (the exception in `NatFresh`).

Observations made on the way, which contradict no text of the repository, or which
the properties exclude by name:

- Reload note: a later PATCH that changes nothing forgets an earlier needed
  restart; a reload that ends in the second of the answer, or before it, leaves
  its warning for ever, because Telemt reports whole seconds.
- Panel access: after one accepted restart in the same open sheet, a second
  prepare and save shows "Restart requested" and no button
  (`PanelAccessForm.tsx:108`).
- Realtime: a live stream dropped by the server fails as CONNECTING and then as
  CLOSED, so the probe on the first failure (`sseClient.ts:340-351`) is not sent;
  polling finds the expired session later. A topic left and mounted again within
  the debounce keeps the stream and may have missed a frame (`missed`).
- Updates: an older list in flight overwrites a newer one (`OvertakenList`); the
  page may reload more than once per run; an old confirmation can install the
  running version again. A failed GET of the list while the panel restarts replaces the
  page by an error, and the run and its watch are forgotten with it. Policy: that failure
  also drops the policy being edited; and when the GET after a save fails and someone
  restores the value last seen, the refetch equals it and is dropped.
- People: edits typed between "Reload" after a schedule conflict and its answer
  are dropped; so is the schedule form when one of its polls fails, and an open form
  when its user leaves the users frame. The address history numbers its rows by the
  pages turned, so an address observed again between two pages leaves the numbers of the
  later ones wrong.
- Settings: GeoIP's "Disable" sends the stored document and clears the draft, typed
  addresses included.
- WEB: the runtime fence is read when the close is confirmed, not when it is
  asked; "Load next" during the refetch after a close cancels it; a second close
  replaces the report of the first; without capacity data the label says pressure
  and no banner explains it.
- Geography: "Next" pressed while a poll is in flight keeps a cursor of the old
  snapshot, which is refused until a refresh; saving the position on page two
  shows page one with polling still paused; wheel or buttons while a pointer is
  down are taken back by its next move.
- Diagnostics: the degraded banner counts a route that needs no writers while the
  problem list leaves it out; a topic field the hub sent as null removes its gate,
  so a card can say "Healthy" next to "not providing data"; a page is ready when a
  required source is empty and an optional one failed; the upstreams banner counts
  by the summary while the list also holds routes only the quality data knows; a
  writer both degraded and draining is counted twice in the pool's composition; an
  events filter whose count falls to zero loses its button; "all areas are
  operating normally" is also said of cards that are all muted; a restart of
  Telemt whose new uptime is not below the old one is not noticed by the counters.
- Server pages: the menu says "current" also when the request for updates failed;
  security rows from old data are not marked; the hub says "direct" where the ME
  page says "fallback".

## Not modelled

Of the interface: dictionaries, generated API types and clients, the design
system, charts, the globe (`geography/globeScene.ts`), QR codes, service worker
registration, branding, and `PasskeySettings`: text, drawing and generated code,
or a short sequential form. These are most of the lines no definition maps. Of the
server: what the plan below names, and code that parses, renders or converts.
Of the modelled pages: GeoIP's update button and its switch; the `ips` signal of a
user; the error code `ReloadStepper` shows, and "apply again" for a save whose page has
been cleared (`ConfigPage.tsx`), which no property depends on; a change of the map's
scale in the middle of a gesture (`VectorMap.tsx:157`). The updates page is modelled for
one of its two targets, the schedule's common rule is constant while a user's is edited,
an earlier page of the geography's list is asked for again where the query cache might
show it at once, and no DC row has coverage zero and writers alive, where `DcPage.tsx`
and `dc.helpers.ts` differ.

Daylight-saving gaps and folds, cron parsing and version ordering are string and
calendar arithmetic that the scheduler's and the worker's models do not need.

The hub's side of the stream (replay ring, slow consumers, grace timers) is not
in `PanelSession`, whose server sends the latest state on opening, as the code does
for a new subscriber; log sources and Telemt are modelled from how the pages use
them.

## Plan

Done: the update worker with its refinement and proofs; the quota manager and
scheduler; the realtime client with the session; all pages that keep state; the
diagnostics; theorems for all safety properties of the server runs, of `sse_safety`
and of `diagnostics`, and for all of `console` but `TrafficIsHonest`. Left, in this
order:

1. `TrafficIsHonest`: the folds of `HistoryWindow` as recursive functions, with an
   invariant of the accumulator (steps so far are disjoint and each is within what was
   counted in it).
2. `Hub`: topics, pollers with the grace timer, forced and history polls, replay
   ring and slow consumers, composed with `SseClient`. Abstract specification: a
   topic is a register whose readers see a suffix of its history.
3. `SessionGuard` with the streams it ends, and `RateLimit`: revocation against
   registration, reservations against eviction.
4. `GeoIP`: staged bundle, manifest publication, cleanup, crashes in between.
5. `UpdateEngine`: the in-process engine, the restart handoff, startup
   reconciliation and the automatic updater, as a client of `UpdateWorker`.
6. State store and traffic history, Telemt capability generations, TLS
   generations, and the users handlers with the look-up before a quota override.

## Running

    tlc -config Console.cfg Console
    tlc -config ServerPages.cfg ServerPages
    tlc -config PanelSession.cfg PanelSession
    tlc -config UpdateWorker.cfg MCUpdateWorker
    tlc -config QuotaScheduler.cfg MCQuotaScheduler
    tlapm UpdateWorkerProofs.tla        # and the other *Proofs modules
