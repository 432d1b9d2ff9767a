------------------------------ MODULE SseClient ------------------------------
(***************************************************************************)
(* The browser's single realtime connection (web/src/realtime/sseClient.ts)*)
(* Every mounted component counts a topic; one EventSource carries the     *)
(* union of the counted topics; GET /api/snapshot answers fill the same    *)
(* store when a topic is refreshed by hand or the stream keeps failing.    *)
(*                                                                         *)
(* The client's state is one record, `c`; each function of the source is   *)
(* an operator from such a record to the next one, so that a handler is    *)
(* the composition of the calls it makes.                                  *)
(*                                                                         *)
(* `generation`, `revision` and `requestTicket` are only ever compared     *)
(* with a copy taken when a request was sent. What a request holds is      *)
(* therefore kept as the set `fresh` of the topics whose copies still      *)
(* match: raising a counter removes topics from the `fresh` of every       *)
(* request in flight.                                                      *)
(***************************************************************************)
EXTENDS Naturals, Sequences

CONSTANTS
    Topics,      \* the topics components subscribe to
    Slots,       \* bound: GET /api/snapshot requests in flight at once
    Threshold,   \* DEFAULT_FAILURE_THRESHOLD
    MaxMounts,   \* bound: components mounted on one topic
    MaxWire      \* bound: events the browser has queued for the source

ASSUME SseAssumption ==
    /\ Topics # {}
    /\ 0 \notin Slots
    /\ {Threshold, MaxMounts, MaxWire} \subseteq Nat

NoSlot == 0
NoData == [v |-> 0, sess |-> 0]
EmptySnapshot == [data |-> NoData, stale |-> FALSE]
IdleRequest ==
    [phase |-> "idle", ask |-> {}, fresh |-> {}, sess |-> 0,
     val |-> [t \in Topics |-> 0]]

\* createSSEClient: nothing subscribed, nothing scheduled.
NewClient ==
    [refs |-> [t \in Topics |-> 0], snap |-> [t \in Topics |-> EmptySnapshot],
     es |-> "none", opened |-> FALSE, wire |-> << >>, key |-> {}, fails |-> 0,
     status |-> "closed", stale |-> FALSE, debounce |-> FALSE,
     backoff |-> FALSE, watchdog |-> FALSE, poll |-> FALSE,
     inflight |-> NoSlot, reqs |-> [r \in Slots |-> IdleRequest],
     missed |-> {}]  \* history: the stream's last frame found no subscriber

ActiveTopics(x) == {t \in Topics : x.refs[t] > 0}

FreeSlots(x) == {r \in Slots : x.reqs[r].phase = "idle"}

\* Mutant: counters that never move.
NeverOutdates(x, T) == x

\* version.revision++, ++version.requestTicket, or a new version object.
Outdate(x, T) ==
    [x EXCEPT !.reqs = [r \in Slots |-> [x.reqs[r] EXCEPT !.fresh = @ \ T]]]

\* Mutant: one generation for ever.
OneGeneration(x) == x

\* generation++
NextGeneration(x) == Outdate(x, Topics)

SetConnection(x, status, stale) ==
    [(IF stale /\ ~x.stale THEN Outdate(x, ActiveTopics(x)) ELSE x)
        EXCEPT !.status = status, !.stale = stale]

\* Any frame proves the connection alive: rearm the watchdog.
OnFrame(x) == SetConnection([x EXCEPT !.watchdog = TRUE], x.status, FALSE)

ApplyTopicData(x, t, d) ==
    IF x.refs[t] = 0 THEN x
    ELSE [Outdate(x, {t}) EXCEPT !.snap[t] = [data |-> d, stale |-> FALSE],
                                 !.missed = @ \ {t}]

ApplyTopicError(x, t) ==
    IF x.refs[t] = 0 THEN x
    ELSE [Outdate(x, {t}) EXCEPT !.snap[t].stale = TRUE]

StopPolling(x) == [x EXCEPT !.inflight = NoSlot, !.poll = FALSE]

\* The synchronous half of fetchAndInstall: a ticket per topic, then the call.
SendSnapshotRequest(x, T, r, sess) ==
    LET ask == T \intersect ActiveTopics(x)
    IN  IF ask = {} THEN x
        ELSE [Outdate(x, ask) EXCEPT
                !.reqs[r] = [IdleRequest EXCEPT !.phase = "sent", !.ask = ask,
                                                !.fresh = ask, !.sess = sess]]

PollOnce(x, r, sess) ==
    IF x.inflight # NoSlot \/ ActiveTopics(x) = {} THEN x
    ELSE [SendSnapshotRequest(x, ActiveTopics(x), r, sess)
            EXCEPT !.inflight = r]

\* Mutant: no fallback.
NeverPolls(x, r, sess) == x

StartPollingIfNeeded(x, r, sess) ==
    IF x.poll THEN x
    ELSE PollOnce([SetConnection(x, "polling", x.stale) EXCEPT !.poll = TRUE],
                  r, sess)

MarkConnected(x) ==
    SetConnection(StopPolling([x EXCEPT !.fails = 0]), "open", x.stale)

CloseEventSource(x) ==
    [x EXCEPT !.es = "none", !.wire = << >>, !.missed = {}]

ScheduleRebuild(x) == [x EXCEPT !.debounce = TRUE]

\* Mutant: an attempt hides the fallback.
DowngradesPolling(status) ==
    IF status = "open" THEN "reconnecting" ELSE "connecting"

\* The status a new connection attempt shows: polling is never downgraded.
AttemptStatus(status) ==
    CASE status = "polling" -> "polling"
      [] status = "open"    -> "reconnecting"
      [] OTHER              -> "connecting"

CloseForLackOfTopics(x) ==
    SetConnection(
        [StopPolling(CloseEventSource(x)) EXCEPT !.key = {}, !.watchdog = FALSE],
        "closed", FALSE)

OpenEventSource(x, T) ==
    [SetConnection(CloseEventSource(x), AttemptStatus(x.status), x.stale)
        EXCEPT !.es = "connecting", !.opened = FALSE, !.key = T]

\* Mutant: an unchanged topic set is never rebuilt, its source alive or not.
RebuildsOnlyOnChange(x, force) ==
    LET T == ActiveTopics(x)
        y == [x EXCEPT !.backoff = FALSE]
    IN  CASE T = {} -> CloseForLackOfTopics(y)
          [] T # {} /\ ~force /\ T = y.key -> y
          [] OTHER ->
               OpenEventSource(
                   IF force \/ y.key # {}
                   THEN [NextGeneration(y) EXCEPT !.inflight = NoSlot] ELSE y, T)

RebuildNow(x, force) ==
    LET T == ActiveTopics(x)
        y == [x EXCEPT !.backoff = FALSE]
    IN  CASE T = {} -> CloseForLackOfTopics(y)
          [] T # {} /\ ~force /\ T = y.key /\ y.es # "none" -> y
          [] OTHER ->
               OpenEventSource(
                   IF force \/ y.key # {}
                   THEN [NextGeneration(y) EXCEPT !.inflight = NoSlot] ELSE y, T)

-----------------------------------------------------------------------------
(* The handlers a component, a timer, the browser or a response runs.      *)

SubscribeTopic(x, t) ==
    ScheduleRebuild([(IF x.refs[t] = 0 THEN Outdate(x, {t}) ELSE x)
                        EXCEPT !.refs[t] = @ + 1])

UnsubscribeTopic(x, t) ==
    ScheduleRebuild([(IF x.refs[t] = 1 THEN Outdate(x, {t}) ELSE x)
                        EXCEPT !.refs[t] = @ - 1])

DebounceFires(x) == RebuildNow([x EXCEPT !.debounce = FALSE], FALSE)

BackoffFires(x) == RebuildNow(x, FALSE)

WatchdogFires(x) == SetConnection([x EXCEPT !.watchdog = FALSE], x.status, TRUE)

Retry(x) == RebuildNow([x EXCEPT !.fails = 0], TRUE)

\* "open": frames for the source's topics follow, `greeting` being the
\* snapshots the server sends a new subscriber first.
SourceOpens(x, greeting) ==
    LET y == IF x.opened \/ x.fails > 0 THEN NextGeneration(x) ELSE x
    IN  OnFrame(MarkConnected(
            [y EXCEPT !.es = "open", !.opened = TRUE, !.wire = greeting]))

\* The first event queued for the source: a topic's payload or a source_error.
SourceDelivers(x) ==
    LET f == Head(x.wire)
        y == [x EXCEPT !.wire = Tail(@)]
    IN  CASE f.kind = "error" -> ApplyTopicError(OnFrame(y), f.topic)
          [] f.kind = "data" /\ x.refs[f.topic] > 0 ->
               OnFrame(ApplyTopicData(MarkConnected(y), f.topic, f.data))
          [] OTHER -> [y EXCEPT !.missed = @ \union {f.topic}]

SourceHeartbeat(x) == OnFrame(x)

\* "error": the browser retries by itself unless the source is CLOSED.
SourceFails(x, closed, r, sess) ==
    LET f == IF x.fails > Threshold THEN x.fails ELSE x.fails + 1
        y == [x EXCEPT !.fails = f, !.wire = << >>, !.missed = {},
                !.es = IF closed THEN "none" ELSE "connecting",
                !.status = IF @ = "polling" THEN @ ELSE "reconnecting"]
        g == [NextGeneration(y) EXCEPT !.inflight = NoSlot]
        p == [(IF f = 1 THEN PollOnce(g, r, sess) ELSE g)
                EXCEPT !.backoff = TRUE]
        z == IF closed THEN p ELSE y
    IN  IF f > Threshold THEN StartPollingIfNeeded(z, r, sess) ELSE z

PollTick(x, r, sess) == PollOnce(x, r, sess)

RefreshTopic(x, t, r, sess) == SendSnapshotRequest(x, {t}, r, sess)

\* The end of pollOnce and of a fetch, whatever became of it.
FreeSlot(x, r) ==
    [x EXCEPT !.reqs[r] = IdleRequest,
              !.inflight = IF @ = r THEN NoSlot ELSE @]

\* An answer arrives: the topics it still speaks for are installed.
SnapshotArrives(x, r) ==
    LET q == x.reqs[r]
        T == {t \in q.fresh : q.val[t] > 0 /\ x.refs[t] > 0}
        y == [Outdate(x, T) EXCEPT !.missed = @ \ T, !.snap =
                [t \in Topics |->
                    IF t \in T
                    THEN [data |-> [v |-> q.val[t], sess |-> q.sess], stale |-> FALSE]
                    ELSE x.snap[t]]]
    IN  FreeSlot(IF T # {} THEN OnFrame(y) ELSE x, r)

Reset(x) ==
    LET y == [StopPolling(CloseEventSource(NextGeneration(x))) EXCEPT
                !.debounce = FALSE, !.backoff = FALSE, !.watchdog = FALSE,
                !.fails = 0, !.key = {}, !.status = "closed", !.stale = FALSE,
                !.snap = [t \in Topics |-> EmptySnapshot]]
    IN  IF ActiveTopics(y) # {} THEN ScheduleRebuild(y) ELSE y

-----------------------------------------------------------------------------
(* The status strip of the shell: what an operator sees of the connection. *)
StripFlags(x, stats) ==
    {f \in {"stale", "reconnecting", "polling"} :
        \/ f = "stale" /\ (x.stale \/ x.snap[stats].stale)
        \/ f = x.status}

=============================================================================
