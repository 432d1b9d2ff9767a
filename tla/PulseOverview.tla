---------------------------- MODULE PulseOverview ----------------------------
(***************************************************************************)
(* The overview page: the status banner, the list of problems, the cards    *)
(* for data centres, the ME pool and the upstreams, the clients that need   *)
(* attention and the event feed, pulse/widgets.  Each reads the topics for  *)
(* itself and reaches its own verdict.                                      *)
(***************************************************************************)
EXTENDS PulseHub

\* What the upstreams topic says of the routes: nothing behind a closed gate.
DcRows == IF Have("upstreams") /\ P.dcw = "data" THEN P.fleet ELSE <<>>

(***************************************************************************)
(* dc.helpers.ts: the verdict on one route, and the board of pairs.         *)
(***************************************************************************)
ComputeDc ==
    IF ~(Have("upstreams") /\ P.dcw # "null") THEN "loading"
    ELSE IF P.dcw # "data" THEN "disabled" ELSE "ok"
DcCoverageState(d) == IF d.alive = 0 THEN "error" ELSE IF d.cov < 100 THEN "warn" ELSE "ok"
DcRttTone(d) == IF d.rtt > DC_RTT_WARN_MS THEN "warn" ELSE "none"
DcRouteState(d) ==
    IF DcCoverageState(d) # "ok" THEN DcCoverageState(d)
    ELSE IF DcRttTone(d) = "warn" THEN "warn" ELSE "ok"

Abs(x) == IF x < 0 THEN -x ELSE x
DcRouteGroups(rows) ==
    [id \in {Abs(x) : x \in DOMAIN rows} |-> {x \in DOMAIN rows : Abs(x) = id}]
GroupState(rows, group) ==
    LET states == {DcRouteState(rows[x]) : x \in group}
    IN IF "error" \in states THEN "error" ELSE IF "warn" \in states THEN "warn" ELSE "ok"
\* A pair with one half missing shows a placeholder for it.
DcGroup(rows, id) ==
    [state |-> GroupState(rows, DcRouteGroups(rows)[id]),
     main |-> IF id \in DOMAIN rows THEN DcCoverageState(rows[id]) ELSE "missing",
     media |-> IF -id \in DOMAIN rows THEN DcCoverageState(rows[-id]) ELSE "missing"]

DcWidget ==
    LET view == ComputeDc
        reason == IF view = "disabled" THEN P.dcw ELSE "none"
        availability == MeAvailability(Snap("runtime"), P.gates, view = "ok", reason, TRUE)
        notice == IF availability = "direct" \/ Have("upstreams") THEN availability ELSE "none"
        blocked == notice # "none" /\ ~(notice = "fallback" /\ view = "ok")
    IN [notice |-> notice, skeleton |-> notice = "none" /\ view = "loading",
        attention |-> view = "ok" /\ \E x \in DOMAIN P.fleet : DcRouteState(P.fleet[x]) # "ok",
        board |-> IF view = "ok" /\ ~blocked
                  THEN [id \in DOMAIN DcRouteGroups(P.fleet) |-> DcGroup(P.fleet, id)] ELSE <<>>,
        empty |-> ~blocked /\ view = "ok" /\ DOMAIN P.fleet = {}]

(***************************************************************************)
(* mePool.helpers.ts: why the ME card is not healthy, worst first.          *)
(***************************************************************************)
MeQuality == IF P.qualw = "data" THEN P.qual ELSE "absent"
MeQualitySummary == IF MeQuality = "absent" THEN "unknown" ELSE IF MeQuality = "short" THEN "below" ELSE "full"
FirstReason(g) ==
    CASE IsFallback(g) -> "fallback"
      [] ~IsFallback(g) /\ MeQualitySummary = "below" -> "coverage"
      [] ~IsFallback(g) /\ MeQualitySummary # "below" ->
            IF P.pool = "draining" THEN "draining"
            ELSE IF P.pool = "degraded" THEN "degradedWriters"
            ELSE IF MeQuality = "family" THEN "family" ELSE "none"
ComputeMeCard(g) ==
    LET reason == FirstReason(g)
        state == CASE reason = "none" -> "healthy" [] reason = "fallback" -> "fallback" [] OTHER -> "degraded"
    IN [reason |-> reason, state |-> state,
        tone |-> CASE state = "healthy" -> "ok" [] state = "fallback" -> "error" [] OTHER -> "warn"]
\* The reason as the banner and the problems read it: from whatever gates the topic holds.
MeReasonNow == IF Have("runtime") /\ ResolvedOk(P.poolw) THEN ComputeMeCard(P.gates).reason ELSE "none"

MePoolWidget ==
    LET availability == MeAvailability(Snap("runtime"), P.gates, ResolvedOk(P.poolw),
                            IF P.poolw \in ClosedReasons THEN P.poolw ELSE "none", FALSE)
        view == ComputeMeCard(FreshGates(Snap("runtime"), P.gates))
    IN IF ~Have("runtime") THEN [shows |-> "skeleton", pill |-> "none", status |-> "none"]
       ELSE IF ~ResolvedOk(P.poolw) \/ availability = "direct"
       THEN [shows |-> IF availability = "none" THEN "unavailable" ELSE availability, pill |-> "none", status |-> "none"]
       ELSE [shows |-> "card", pill |-> view.tone, status |-> view.reason]

(***************************************************************************)
(* upstreams.helpers.ts and UpstreamsWidget: one of two reports of the same *)
(* routes, the first that is current, else the first there is.              *)
(***************************************************************************)
UpstreamSources ==
    <<[on |-> Have("upstreams") /\ P.upw = "data", stale |-> TopicTroubled(Snap("upstreams")), rows |-> P.ups],
      [on |-> Have("runtime") /\ P.upqw = "data", stale |-> TopicTroubled(Snap("runtime")), rows |-> P.upq]>>
ComputeUpstreamsCard(rows) ==
    LET total == Cardinality(DOMAIN rows)
        healthy == Cardinality({x \in DOMAIN rows : rows[x]})
    IN [total |-> total, healthy |-> healthy,
        tone |-> IF healthy >= total /\ total > 0 THEN "ok" ELSE IF total = 0 THEN "muted" ELSE "error"]
UpstreamsWidget ==
    LET there == {i \in DOMAIN UpstreamSources : UpstreamSources[i].on}
        current == {i \in there : ~UpstreamSources[i].stale}
        source == UpstreamSources[Min(IF current # {} THEN current ELSE there)]
        waiting == \E t \in {"upstreams", "runtime"} : Snap(t) = "none"
    IN IF there = {}
       THEN [shows |-> IF waiting THEN "skeleton" ELSE "unavailable", stale |-> FALSE, pill |-> "none", rows |-> 0]
       ELSE LET card == ComputeUpstreamsCard(source.rows)
            IN [shows |-> IF card.total = 0 THEN "empty" ELSE "card", stale |-> source.stale,
                pill |-> IF card.total > 0 THEN card.tone ELSE "none", rows |-> card.total]

(***************************************************************************)
(* healthHero.helpers.ts: the one word of the banner.                       *)
(***************************************************************************)
NotReadyTone(reason) == IF reason = "admission_closed" THEN "warn" ELSE "error"
\* The gates carry the startup status too; without them the initialization group's.
IsStarting == Have("runtime") /\ P.init = "starting"
HeroView(tone, label) == [tone |-> tone, label |-> label, route |-> IF Have("runtime") THEN RouteModeValue(P.gates) ELSE "dash"]
ComputeHealthHero(degraded) ==
    CASE ~Have("stats") /\ Snap("stats") # "failed" -> HeroView("none", "skeleton")
      [] TopicTroubled(Snap("stats")) -> HeroView("error", "unavailable")
      [] Snap("stats") = "live" ->
            IF IsStarting THEN HeroView("warn", "starting")
            ELSE IF P.ready \notin {"null", "ready"} THEN HeroView(NotReadyTone(P.ready), "limited")
            ELSE IF P.health = "bad" THEN HeroView("warn", "limited")
            ELSE IF degraded THEN HeroView("warn", "degraded")
            ELSE IF P.health = "null" THEN HeroView("muted", "unknown")
            ELSE HeroView("ok", "ok")
HealthHero ==
    ComputeHealthHero(\/ Have("stats") /\ P.health = "read_only"
                      \/ TopicTroubled(Snap("runtime"))
                      \/ TopicTroubled(Snap("upstreams"))
                      \/ MeReasonNow # "none"
                      \/ \E x \in DOMAIN DcRows : DcCoverageState(DcRows[x]) # "ok")

(***************************************************************************)
(* problems.helpers.ts: everything known to be wrong, worst first.  A       *)
(* problem is its key; the key decides its severity and where it leads.     *)
(***************************************************************************)
If(cond, key) == IF cond THEN <<key>> ELSE <<>>
FullFallback == DOMAIN DcRows # {} /\ \A x \in DOMAIN DcRows : DcRows[x].alive = 0
\* One problem per route; which route it names, and so their order, is left out.
LowRoutes ==
    {x \in DOMAIN DcRows : DcRows[x].alive < DcRows[x].floor \/ (DcRows[x].required > 0 /\ DcRows[x].cov < 100)}
CoverageGaps ==
    IF FullFallback THEN <<>> ELSE [i \in 1..Cardinality(LowRoutes) |-> "me_coverage_low"]
SplitTraffic == Have("upstreams") /\ P.dcw = "data" /\ P.conn = "data" /\ P.split = "direct"
CounterDelta(baseline, current) == IF current < baseline THEN current ELSE current - baseline
\* No second snapshot in the window, no delta, no alarm.
RateItems ==
    If(WindowKnown(pulse.win) /\ CounterDelta(pulse.win.oldest, P.refused) > 0, "connections_bad_total")

ComputeProblems ==
    If(P.ready \notin {"null", "ready"}, "not_ready")
    \o If(P.health = "read_only", "read_only")
    \o If(FullFallback, "me_direct_fallback")
    \o CoverageGaps
    \o If(SplitTraffic, "me_split_traffic")
    \o If(TopicTroubled(Snap("stats")), "stale_stats")
    \o If(TopicTroubled(Snap("runtime")), "stale_runtime")
    \o If(TopicTroubled(Snap("upstreams")), "stale_upstreams")
    \o If(TopicTroubled(Snap("security")), "stale_security")
    \o RateItems
    \o If(P.webw = "capability_absent", "cap_missing")

AddMeRuntimeProblem(items, reason) ==
    LET covered == \/ reason = "fallback" /\ Contains(items, "me_direct_fallback")
                   \/ reason = "coverage" /\ Contains(items, "me_coverage_low")
    IN IF reason = "none" \/ covered THEN items ELSE <<"me_runtime">> \o items

ProblemSeverity(key) ==
    CASE key \in {"not_ready", "me_direct_fallback"} -> "error"
      [] key = "cap_missing" -> "muted"
      [] OTHER -> "warn"
ProblemDomain(key) ==
    CASE key = "connections_bad_total" -> "counters"
      [] key \in {"me_direct_fallback", "me_coverage_low"} -> "dc"
      [] key \in {"me_split_traffic", "me_runtime"} -> "me"
      [] key = "stale_stats" -> "connections"
      [] key = "stale_runtime" -> "me"
      [] key = "stale_upstreams" -> "upstreams"
      [] key = "stale_security" -> "security"
      [] OTHER -> "none"

Problems == IF Have("stats") THEN AddMeRuntimeProblem(ComputeProblems, MeReasonNow) ELSE <<>>

(***************************************************************************)
(* onlineNow.helpers.ts and quotas.helpers.ts: two lists of clients with    *)
(* thresholds, orders and limits of their own.  The signal of unique        *)
(* addresses, which is that of the connections again, is left out.          *)
(***************************************************************************)
UserNow(u) == UsersTopicUser[P.clients[u]]
RatioSignal(pct) == IF pct < 80 THEN "none" ELSE IF pct >= 100 THEN "error" ELSE "warn"
CLIENT_EXPIRY_WARN_DAYS == 7
EXPIRY_WATCH_DAYS == 3
QUOTA_WATCH_THRESHOLD == 80
KIND_PRIORITY == [expiration |-> 50, quota |-> 40, connections |-> 30, runtime |-> 10]
SignalScore(g) == (IF g.severity = "error" THEN 1000 ELSE 0) + KIND_PRIORITY[g.kind] + g.ratio
SignalsForUser(f) ==
    {[kind |-> "expiration", severity |-> IF f.days <= 0 THEN "error" ELSE "warn", ratio |-> 0] :
        x \in IF f.on /\ f.days <= CLIENT_EXPIRY_WARN_DAYS THEN {1} ELSE {}}
    \cup {[kind |-> "runtime", severity |-> "warn", ratio |-> 0] : x \in IF f.on /\ ~f.running THEN {1} ELSE {}}
    \cup {[kind |-> "quota", severity |-> s, ratio |-> f.quota] : s \in {RatioSignal(f.quota)} \ {"none"}}
    \cup {[kind |-> "connections", severity |-> s, ratio |-> f.conns] : s \in {RatioSignal(f.conns)} \ {"none"}}
\* A row speaks for its first signal.
FirstSignal(f) ==
    LET signals == SignalsForUser(f)
    IN  CHOOSE g \in signals : \A h \in signals : SignalScore(g) >= SignalScore(h)
RowScore(u) == SignalScore(FirstSignal(UserNow(u)))
NeedAttention == {u \in Clients : Have("users") /\ SignalsForUser(UserNow(u)) # {}}
ComesFirst(v, u) == RowScore(v) > RowScore(u) \/ (RowScore(v) = RowScore(u) /\ v < u)
\* The first rows in that order, and how many there would be.
ComputeClientAttention ==
    [rows |-> {u \in NeedAttention :
                  Cardinality({v \in NeedAttention : ComesFirst(v, u)}) < AttentionLimit},
     attentionCount |-> Cardinality(NeedAttention)]
\* The colour of the count is that of the rows listed.
OnlineNow ==
    LET view == ComputeClientAttention
    IN [skeleton |-> ~Have("users"), rows |-> view.rows, count |-> view.attentionCount,
        badge |-> IF view.attentionCount = 0 THEN "none"
                  ELSE IF \E u \in view.rows : FirstSignal(UserNow(u)).severity = "error" THEN "error" ELSE "warn"]

\* In a 300th of the way to the end of the quota, and of the last three days.
QuotaUrgency(f) == IF f.quota >= QUOTA_WATCH_THRESHOLD THEN 3 * Min({f.quota, 100}) ELSE 0
ExpiryUrgency(f) == IF f.days <= EXPIRY_WATCH_DAYS THEN 300 - 100 * Max({f.days, 0}) ELSE 0
Urgency(u) == Max({QuotaUrgency(UserNow(u)), ExpiryUrgency(UserNow(u))})
QuotaWatched ==
    {u \in Clients : /\ Have("users")
                     /\ UserNow(u).on
                     /\ UserNow(u).quota >= QUOTA_WATCH_THRESHOLD \/ UserNow(u).days <= EXPIRY_WATCH_DAYS}
MoreUrgent(v, u) == Urgency(v) > Urgency(u) \/ (Urgency(v) = Urgency(u) /\ v < u)
ComputeQuotaWatch ==
    {u \in QuotaWatched : Cardinality({v \in QuotaWatched : MoreUrgent(v, u)}) < WatchLimit}
\* The card removes itself when there is nobody to list.
QuotasWidget == [shown |-> ~Have("users") \/ ComputeQuotaWatch # {}, rows |-> ComputeQuotaWatch]

(***************************************************************************)
(* recentEvents.helpers.ts: runs of the same event, newest first.  A row    *)
(* names the first and the last event it stands for by their place.         *)
(***************************************************************************)
EventTone(type) == CASE type = "failed" -> "error" [] type = "reload" -> "ok" [] OTHER -> "neutral"
EventCategory(type) == CASE type = "failed" -> "error" [] type = "reload" -> "reload" [] OTHER -> "listener"

OneMore(row, n) == [row EXCEPT !.oldest = n, !.count = @ + 1]
AddEvent(rows, n, type) ==
    IF rows # <<>> /\ rows[Len(rows)].type = type
    THEN [rows EXCEPT ![Len(rows)] = OneMore(@, n)]
    ELSE Append(rows, [type |-> type, latest |-> n, oldest |-> n, count |-> 1])
EventRuns(events) ==
    LET rows[n \in 0..Len(events)] == IF n = 0 THEN <<>> ELSE AddEvent(rows[n - 1], n, events[n]) IN rows
CoalesceEvents(events, limit) ==
    LET runs == EventRuns(events)[Len(events)] IN SubSeq(runs, 1, Min({limit, Len(runs)}))
RecentEventsWidget ==
    IF ~Have("runtime") THEN [shows |-> "skeleton", rows |-> <<>>]
    ELSE IF ~ResolvedOk(P.evw) THEN [shows |-> "gated", rows |-> <<>>]
    ELSE [shows |-> IF P.log = <<>> THEN "empty" ELSE "timeline", rows |-> CoalesceEvents(Reverse(P.log), TimelineLimit)]
=============================================================================
