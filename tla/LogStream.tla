------------------------------ MODULE LogStream ------------------------------
(***************************************************************************)
(* The journal page (web/src/journal): the live log stream of one service, *)
(* the ring that holds its lines while the reader may have paused it, the  *)
(* filters and the list that follows or stays behind the newest line.      *)
(*                                                                         *)
(* `st` is the client of logStream.ts; like SseClient, every function of   *)
(* the source is an operator on that record. Delays are not modelled: a    *)
(* timer that is armed may fire, and `held` stands for a Retry-After that  *)
(* has not passed (retryNotBefore > Date.now()).                           *)
(***************************************************************************)
EXTENDS Naturals, Sequences, SequencesExt

CONSTANTS
    RingCap,     \* LOG_RING_CAP
    WindowStep,  \* INITIAL_WINDOW and WINDOW_STEP of the list
    PageSize,    \* PAGE_SIZE of the action history
    MaxLines,    \* bound: lines a service writes
    MaxTrouble,  \* bound: failures of the stream and clicks of the reader
    MaxAudit     \* bound: administrative actions recorded

ASSUME LogStreamAssumption ==
    /\ {RingCap, WindowStep, PageSize} \subseteq Nat \ {0}
    /\ {MaxLines, MaxTrouble, MaxAudit} \subseteq Nat

VARIABLES
    rung,     \* LogsTab: what GET /api/host lets the tab offer
    st,       \* createLogStream's state
    ring,     \* journalReducer's state
    filter,   \* display mode, selected levels, search
    list,     \* LogList's state
    tail,     \* LogTailFallback's query
    audit,    \* ActionsTab's pages, and the ring behind GET /api/audit
    hidden,   \* document.visibilityState
    spent     \* failures so far (bound)

logVars == <<rung, st, ring, filter, list, tail, hidden>>
journalVars == <<logVars, audit, spent>>

Levels == {"error", "info", "debug"}
Modes == {"critical", "basic", "extended"}
NoError == "none"

-----------------------------------------------------------------------------
(* logStream.ts                                                            *)

OpenStream(s, isHidden) ==
    LET o == [s EXCEPT !.es = "connecting", !.overlaps = @ \/ s.es # "none"]
    IN  IF isHidden
        THEN [o EXCEPT !.es = "none", !.pending = TRUE,
                       !.status = "reconnecting", !.stale = FALSE]
        ELSE o

NewStream(isHidden) ==
    OpenStream([es |-> "none", status |-> "connecting", stale |-> FALSE,
                error |-> NoError, code |-> NoError, timer |-> FALSE,
                pending |-> FALSE, watchdog |-> FALSE, probe |-> FALSE,
                held |-> FALSE, overlaps |-> FALSE], isHidden)

StreamFrame(s) ==
    [s EXCEPT !.watchdog = TRUE, !.held = FALSE, !.stale = FALSE,
              !.error = NoError, !.code = NoError]

StopConnection(s) ==
    [s EXCEPT !.probe = FALSE, !.watchdog = FALSE, !.es = "none"]

\* Mutant: the wait the server asked for is forgotten.
ReconnectAtOnce(s, isHidden) ==
    IF ~s.pending \/ isHidden THEN [s EXCEPT !.timer = FALSE]
    ELSE OpenStream([s EXCEPT !.timer = FALSE, !.pending = FALSE], isHidden)

Reconnect(s, isHidden) ==
    CASE ~s.pending \/ isHidden -> [s EXCEPT !.timer = FALSE]
      [] s.pending /\ ~isHidden /\ s.held -> [s EXCEPT !.timer = TRUE]
      [] OTHER -> OpenStream([s EXCEPT !.timer = FALSE, !.pending = FALSE],
                             isHidden)

ScheduleReconnect(s, isHidden) ==
    [s EXCEPT !.pending = TRUE, !.status = "reconnecting", !.stale = FALSE,
              !.timer = ~isHidden]

PauseConnecting(s) ==
    IF s.es # "connecting" THEN s
    ELSE [StopConnection(s) EXCEPT !.pending = TRUE,
            !.status = "reconnecting", !.stale = FALSE]

VisibilityChanges(s, nowHidden) ==
    IF nowHidden THEN PauseConnecting([s EXCEPT !.timer = FALSE])
    ELSE IF s.pending THEN Reconnect(s, nowHidden) ELSE s

StreamOpens(s) ==
    [s EXCEPT !.es = "open", !.held = FALSE, !.status = "open",
              !.stale = FALSE, !.code = NoError, !.watchdog = TRUE]

\* log_source_error: only transient reasons reopen the stream.
StreamReports(s, reason, isHidden) ==
    LET e == [StopConnection(s) EXCEPT !.status = "error", !.stale = FALSE,
                                       !.error = reason]
    IN  IF reason = "transient" THEN ScheduleReconnect(e, isHidden) ELSE e

StreamEnds(s, isHidden) == ScheduleReconnect(StopConnection(s), isHidden)

\* "error": a closed source asks the server why; otherwise the browser
\* retries, unless the page is hidden.
StreamFails(s, closed, isHidden) ==
    IF closed
    THEN [StopConnection(s) EXCEPT !.status = "closed", !.probe = TRUE]
    ELSE LET r == [s EXCEPT !.es = "connecting", !.status = "reconnecting"]
         IN  IF isHidden THEN PauseConnecting(r) ELSE r

\* probeCapacity's answer: 429, 204, a documented refusal, or none.
ProbeAnswers(s, answer, isHidden) ==
    LET p == [s EXCEPT !.probe = FALSE]
    IN  CASE answer = "limit" ->
               ScheduleReconnect([p EXCEPT !.held = TRUE, !.code = "limit"],
                                 isHidden)
          [] answer = "free"    -> ScheduleReconnect(p, isHidden)
          [] answer = "refused" -> [p EXCEPT !.code = "refused"]
          [] OTHER              -> p

RetryStream(s, isHidden) ==
    IF s.held THEN [s EXCEPT !.pending = TRUE, !.timer = ~isHidden]
    ELSE OpenStream([StopConnection(s) EXCEPT !.timer = FALSE,
            !.pending = FALSE, !.status = "connecting", !.stale = FALSE,
            !.error = NoError, !.code = NoError], isHidden)

-----------------------------------------------------------------------------
(* logRing.ts                                                              *)

NewRing == [lines |-> << >>, paused |-> FALSE, pending |-> << >>, nextId |-> 1]

CapPush(s, x) ==
    Append(IF Len(s) >= RingCap THEN SubSeq(s, Len(s) - RingCap + 2, Len(s)) ELSE s,
           x)

\* Mutant: the pause buffer keeps one line less than the ring.
PendingPushShort(s, x) ==
    Append(IF Len(s) + 1 >= RingCap THEN Tail(s) ELSE s, x)

PendingPush(s, x) == CapPush(s, x)

PushLine(g, level) ==
    LET line == [id |-> g.nextId, level |-> level]
    IN  IF g.paused
        THEN [g EXCEPT !.pending = PendingPush(@, line), !.nextId = @ + 1]
        ELSE [g EXCEPT !.lines = CapPush(@, line), !.nextId = @ + 1]

PauseRing(g) == [g EXCEPT !.paused = TRUE]

\* The ring after each of the lines held back.
Flushed(lines, pending) ==
    LET shown[n \in 0..Len(pending)] ==
            IF n = 0 THEN lines ELSE CapPush(shown[n - 1], pending[n])
    IN  shown

ResumeRing(g) ==
    [g EXCEPT !.paused = FALSE, !.pending = << >>,
              !.lines = Flushed(@, g.pending)[Len(g.pending)]]

ClearRing(g) == [g EXCEPT !.lines = << >>, !.pending = << >>]

-----------------------------------------------------------------------------
(* logFilter.helpers.ts, useDefaultLevels.ts, display-mode/mode.ts         *)

VisibleFor(minimum, mode) ==
    LET order == [m \in Modes |-> CASE m = "critical" -> 0
                                    [] m = "basic" -> 1 [] OTHER -> 2]
    IN  order[mode] >= order[minimum]

DefaultLevelsForMode(mode) ==
    CASE mode = "critical" -> {"error"}
      [] mode = "basic"    -> {"error", "info"}
      [] OTHER             -> Levels

VisibleLevelChips(mode) ==
    IF mode = "critical" THEN Levels \ {"debug"} ELSE Levels

LineKinds == {"error", "unknown"}

\* A line the host could not classify passes every level filter; `needle` is
\* the kinds of line whose text holds the searched words.
MatchesLogFilter(line, levels, needle) ==
    /\ line.level = "unknown" \/ line.level \in levels
    /\ line.level \in needle

FilterLogLines(lines, f) ==
    SelectSeq(lines, LAMBDA l : MatchesLogFilter(l, f.levels, f.search))

FreshFilter(mode) ==
    [mode |-> mode, levels |-> DefaultLevelsForMode(mode), search |-> LineKinds]

ToggleLevel(f, level) ==
    [f EXCEPT !.levels = IF level \in @ THEN @ \ {level} ELSE @ \union {level}]

-----------------------------------------------------------------------------
(* LogList.tsx: mounted while something passes the filter.                 *)

NewList(n) ==
    [prev |-> n, atBottom |-> TRUE, news |-> 0, window |-> WindowStep]

\* The effect on lines.length.
ListRenders(l, n) ==
    IF n = 0 THEN NewList(0)
    ELSE IF l.prev = 0 THEN NewList(n)
    ELSE [l EXCEPT !.prev = n,
                   !.news = IF n > l.prev /\ ~l.atBottom THEN @ + n - l.prev ELSE @]

ListScrolls(l, bottom) ==
    [l EXCEPT !.atBottom = bottom, !.news = IF bottom THEN 0 ELSE @]

JumpButton(l) == ~l.atBottom /\ l.news > 0

HiddenCount(l) == IF l.prev <= l.window THEN 0 ELSE l.prev - l.window

ShowEarlier(l) == [l EXCEPT !.window = @ + WindowStep]

\* What LogStreamViewer offers beside the feed.
ViewerNotices(s) ==
    (IF s.error # NoError THEN {"sourceError", "retry"} ELSE {})
    \union (IF s.code # NoError THEN {"errorCode"} ELSE {})
    \union (IF s.status = "reconnecting" THEN {"reconnecting"} ELSE {})
    \union (IF s.stale /\ s.status # "reconnecting" THEN {"stale"} ELSE {})
    \union (IF s.status = "closed" THEN {"closed", "retry"} ELSE {})

\* The body of the viewer: nothing under a source error, an empty state, or
\* the list.
ViewerBody(s, g, f) ==
    CASE g.lines = << >> /\ s.status = "error" -> "nothing"
      [] g.lines = << >> /\ s.status # "error" -> "empty"
      [] g.lines # << >> /\ FilterLogLines(g.lines, f) = << >> -> "noMatch"
      [] OTHER -> "list"

-----------------------------------------------------------------------------
(* LogTailFallback.tsx: a query that only its buttons run.                 *)

NewTail == [data |-> 0, fetching |-> FALSE, failed |-> FALSE]

TailLoads(t) == [t EXCEPT !.fetching = TRUE]

TailAnswers(t, ok) ==
    IF ok THEN [data |-> t.data + 1, fetching |-> FALSE, failed |-> FALSE]
    ELSE [t EXCEPT !.fetching = FALSE, !.failed = TRUE]

\* The button on screen: the first load, or the reload beside loaded lines.
TailButton(t) ==
    CASE t.data = 0 /\ ~t.fetching /\ ~t.failed -> "load"
      [] t.failed -> "retry"
      [] t.data > 0 /\ ~t.fetching /\ ~t.failed -> "reload"
      [] OTHER -> "disabled"

-----------------------------------------------------------------------------
(* EventsTab.tsx. An entry is its own `ts`; the ring behind GET /api/audit  *)
(* answers newest first.                                                   *)

NewAudit == [log |-> 0, pages |-> << >>, busy |-> "first", failed |-> FALSE]

\* External: handleGetAudit, the entries strictly older than the cursor.
AuditPage(log, before) ==
    LET newest == IF before = 0 THEN log ELSE before - 1
        n == IF newest < PageSize THEN newest ELSE PageSize
    IN  [i \in 1..n |-> newest + 1 - i]

\* getNextPageParam: the last row's ts, and none after a short page.
NextPageParam(a) ==
    IF a.pages = << >> \/ Len(Last(a.pages)) < PageSize THEN 0
    ELSE Last(Last(a.pages))

\* The rows of the first n pages.
RowsOfPages(pages) ==
    LET rows[n \in 0..Len(pages)] ==
            IF n = 0 THEN << >> ELSE rows[n - 1] \o pages[n]
    IN  rows

AuditEntries(a) == RowsOfPages(a.pages)[Len(a.pages)]

-----------------------------------------------------------------------------
(* The page at work                                                        *)

Trouble == spent < MaxTrouble /\ spent' = spent + 1
Calm == UNCHANGED spent

\* The viewer of one service is mounted: a new stream, an empty ring.
MountViewer(mode) ==
    /\ st' = NewStream(hidden) /\ ring' = NewRing
    /\ filter' = FreshFilter(mode) /\ list' = NewList(0)

\* Unmounting closes the stream and drops the ring.
CloseStream == [NewStream(FALSE) EXCEPT !.es = "none", !.status = "closed"]

JournalInit ==
    /\ rung = "pending" /\ hidden \in BOOLEAN
    /\ st = CloseStream /\ ring = NewRing /\ filter = FreshFilter("basic")
    /\ list = NewList(0) /\ tail = NewTail /\ audit = NewAudit /\ spent = 0

\* GET /api/host answers: the rung of the ladder (or a retryable error).
HostAnswers(caps) ==
    /\ rung \in {"pending", "error"} /\ rung # caps
    /\ rung' = caps
    /\ IF caps = "stream" THEN MountViewer(filter.mode)
       ELSE UNCHANGED <<st, ring, filter, list>>
    /\ UNCHANGED <<tail, hidden, audit, spent>>

\* LogToolbar's source switch remounts the viewer (key={service}).
SwitchService ==
    /\ rung = "stream" /\ ring.nextId > 1 /\ Trouble
    /\ MountViewer(filter.mode)
    /\ UNCHANGED <<rung, tail, hidden, audit>>

\* A step of the stream; what the list shows follows the ring.
Streams(s2, g2) ==
    /\ rung = "stream" /\ st' = s2 /\ ring' = g2
    /\ list' = ListRenders(list, Len(FilterLogLines(g2.lines, filter)))
    /\ UNCHANGED <<rung, filter, tail, hidden, audit>>

OpenEvent == st.es = "connecting" /\ Streams(StreamOpens(st), ring) /\ Calm

LogEvent(level) ==
    /\ st.es = "open" /\ ring.nextId <= MaxLines
    /\ Streams(StreamFrame(st), PushLine(ring, level)) /\ Calm

HeartbeatEvent == st.es = "open" /\ Streams(StreamFrame(st), ring) /\ Calm

StaleTimer ==
    /\ st.watchdog
    /\ Streams([st EXCEPT !.watchdog = FALSE, !.stale = TRUE], ring) /\ Calm

SourceErrorEvent(reason) ==
    st.es = "open" /\ Trouble /\ Streams(StreamReports(st, reason, hidden), ring)

LogEndEvent == st.es = "open" /\ Trouble /\ Streams(StreamEnds(st, hidden), ring)

ErrorEvent(closed) ==
    /\ st.es # "none" /\ Trouble /\ Streams(StreamFails(st, closed, hidden), ring)

ProbeAnswer(answer) ==
    st.probe /\ Streams(ProbeAnswers(st, answer, hidden), ring) /\ Calm

RetryAfterPasses ==
    st.held /\ Streams([st EXCEPT !.held = FALSE], ring) /\ Calm

ReconnectTimer == st.timer /\ Streams(Reconnect(st, hidden), ring) /\ Calm

RetryButton ==
    /\ "retry" \in ViewerNotices(st) /\ Trouble
    /\ Streams(RetryStream(st, hidden), ring)

TogglePause ==
    Trouble /\ Streams(st, IF ring.paused THEN ResumeRing(ring) ELSE PauseRing(ring))

ClearButton == ring.lines # << >> /\ Trouble /\ Streams(st, ClearRing(ring))

VisibilityChange ==
    /\ hidden' = ~hidden /\ Trouble
    /\ st' = IF rung = "stream" THEN VisibilityChanges(st, ~hidden) ELSE st
    /\ UNCHANGED <<rung, ring, filter, list, tail, audit>>

\* The toolbar's chips and search, and the display mode of the shell.
Filters(f) ==
    /\ rung = "stream" /\ f # filter /\ Trouble /\ filter' = f
    /\ list' = ListRenders(list, Len(FilterLogLines(ring.lines, f)))
    /\ UNCHANGED <<rung, st, ring, tail, hidden, audit>>

PressLevel(level) ==
    level \in VisibleLevelChips(filter.mode) /\ Filters(ToggleLevel(filter, level))

TypeSearch(needle) == Filters([filter EXCEPT !.search = needle])

SetMode(mode) ==
    /\ mode # filter.mode
    /\ Filters([FreshFilter(mode) EXCEPT !.search = filter.search])

\* LogList: scrolling, "к новым" and "показать раньше".
Lists(l) ==
    /\ rung = "stream" /\ ViewerBody(st, ring, filter) = "list"
    /\ Trouble /\ list' = l
    /\ UNCHANGED <<rung, st, ring, filter, tail, hidden, audit>>

Scroll(bottom) == bottom # list.atBottom /\ Lists(ListScrolls(list, bottom))
ShowEarlierButton == HiddenCount(list) > 0 /\ Lists(ShowEarlier(list))

TailButtonPressed ==
    /\ rung = "tail" /\ TailButton(tail) # "disabled" /\ ~tail.fetching
    /\ Trouble /\ tail' = TailLoads(tail)
    /\ UNCHANGED <<rung, st, ring, filter, list, hidden, audit>>

TailAnswer(ok) ==
    /\ rung = "tail" /\ tail.fetching /\ tail' = TailAnswers(tail, ok)
    /\ UNCHANGED <<rung, st, ring, filter, list, hidden, audit, spent>>

\* ActionsTab stays mounted beside the logs but shares nothing with them, so
\* its steps are interleaved only with the rung that has none of its own.
Audits(a) == audit' = a /\ UNCHANGED logVars

ActionRecorded ==
    /\ rung = "gated" /\ audit.log < MaxAudit /\ Calm
    /\ Audits([audit EXCEPT !.log = @ + 1])

AuditAnswer ==
    /\ rung = "gated" /\ audit.busy # "none" /\ Calm
    /\ LET cursor == IF audit.busy = "first" THEN 0 ELSE NextPageParam(audit)
           page == AuditPage(audit.log, cursor)
       IN  Audits([audit EXCEPT !.busy = "none", !.failed = FALSE,
                     !.pages = IF audit.busy = "first" THEN <<page>>
                               ELSE Append(@, page)])

AuditFails ==
    /\ rung = "gated" /\ audit.busy # "none" /\ Trouble
    /\ Audits([audit EXCEPT !.busy = "none", !.failed = TRUE])

\* AsyncState's retry starts over; "показать ещё" needs a next page.
AuditRetry ==
    /\ rung = "gated" /\ audit.failed /\ audit.busy = "none" /\ Calm
    /\ Audits([audit EXCEPT !.busy = "first"])

FetchNextPage ==
    /\ rung = "gated" /\ audit.busy = "none" /\ ~audit.failed
    /\ NextPageParam(audit) # 0 /\ Calm
    /\ Audits([audit EXCEPT !.busy = "more"])

JournalNext ==
    \/ \E caps \in {"stream", "tail", "gated", "error"} : HostAnswers(caps)
    \/ SwitchService \/ OpenEvent \/ HeartbeatEvent \/ StaleTimer \/ LogEndEvent
    \/ \E level \in LineKinds : LogEvent(level)
    \/ \E reason \in {"transient", "config"} : SourceErrorEvent(reason)
    \/ \E closed \in BOOLEAN : ErrorEvent(closed)
    \/ \E answer \in {"limit", "free", "refused", "lost"} : ProbeAnswer(answer)
    \/ RetryAfterPasses \/ ReconnectTimer \/ RetryButton
    \/ TogglePause \/ ClearButton \/ VisibilityChange
    \/ \E level \in {"error", "debug"} : PressLevel(level)
    \/ \E needle \in {LineKinds, {"error"}} : TypeSearch(needle)
    \/ \E mode \in Modes : SetMode(mode)
    \/ \E bottom \in BOOLEAN : Scroll(bottom)
    \/ ShowEarlierButton \/ TailButtonPressed
    \/ \E ok \in BOOLEAN : TailAnswer(ok)
    \/ ActionRecorded \/ AuditAnswer \/ AuditFails \/ AuditRetry \/ FetchNextPage

-----------------------------------------------------------------------------

\* The reader is never left behind a dead feed: while the tab is visible and
\* no EventSource is open, a timer or a probe is running or the viewer offers
\* a retry; a Retry-After is honoured; and there is one stream at a time
\* (createLogStream, LogStreamViewer).
WayForward ==
    rung = "stream" =>
        /\ ~st.overlaps
        /\ st.es = "none" /\ ~hidden =>
              st.timer \/ st.probe \/ "retry" \in ViewerNotices(st)
        /\ st.es = "none" /\ hidden =>
              st.pending \/ st.probe \/ "retry" \in ViewerNotices(st)
        /\ st.held => st.es = "none"

\* The feed shows consecutive lines, however long it was paused and however
\* much of the pause buffer was dropped (logRing.ts), and the action history
\* skips no recorded action while new ones arrive between two pages.
NoGaps ==
    /\ \A i \in 1..(Len(ring.lines) - 1) :
          ring.lines[i + 1].id = ring.lines[i].id + 1
    /\ \A i \in 1..(Len(AuditEntries(audit)) - 1) :
          AuditEntries(audit)[i + 1] = AuditEntries(audit)[i] - 1

=============================================================================
