------------------------------ MODULE PulseHub ------------------------------
(***************************************************************************)
(* The hub of the diagnostics, pulse/hub: nine cards, each resolving its    *)
(* source, its tone and what it shows, and the banner above them.  The      *)
(* texts and figures of the metrics are left out; a metric is its id and    *)
(* its tone.                                                                *)
(***************************************************************************)
EXTENDS PulseData, FiniteSetsExt

HubMetric(id, tone) == [id |-> id, tone |-> tone]
GoodIf(b, other) == IF b THEN "good" ELSE other

DOMAINS == {"dc", "me", "security", "counters", "connections", "upstreams", "nat", "events", "web"}

\* A sub-payload that may be null is declared as a gate only when it is there.
DeclaredIfPresent(w) == IF w = "null" THEN "undeclared" ELSE w

(***************************************************************************)
(* DC card: writers alive against required over the whole fleet.            *)
(***************************************************************************)
DcCoverageTone(f) ==
    IF \E x \in DOMAIN f : f[x].alive = 0 THEN "bad"
    ELSE IF \E x \in DOMAIN f : f[x].cov < 100 THEN "warn" ELSE "good"
DcWorstRtt(f) == IF DOMAIN f = {} THEN 0 ELSE Max({f[x].rtt : x \in DOMAIN f})

DC_RTT_WARN_MS == 150
DcHubMetrics ==
    IF P.dcw = "null" THEN <<>>
    ELSE <<HubMetric("dc_total", "neutral"),
           HubMetric("coverage", DcCoverageTone(P.fleet)),
           HubMetric("rtt_worst", IF DcWorstRtt(P.fleet) > DC_RTT_WARN_MS THEN "warn" ELSE "neutral")>>

MeHubMetrics ==
    LET degraded == {i \in DOMAIN P.writers : P.writers[i].degraded}
    IN IF P.mew = "null" THEN <<>>
       ELSE <<HubMetric("healthy_writers", GoodIf(degraded = {}, "warn")),
              HubMetric("degraded", GoodIf(degraded = {}, "warn")), HubMetric("bound_clients", "neutral")>>

SecurityHubMetrics ==
    LET enabled == IF P.whitelist # "null" THEN P.whitelist = "on" ELSE P.posture.whitelist
    IN IF ~P.posture.known /\ P.whitelist = "null" THEN <<>>
       ELSE <<HubMetric("whitelist_state", GoodIf(enabled, "warn")),
              HubMetric("whitelist_size", "neutral"), HubMetric("api_mode", "neutral")>>

QualityTone(q) ==
    IF q = 0 THEN "neutral" ELSE IF q < 90 THEN "bad" ELSE IF q < 98 THEN "warn" ELSE "good"
CountersHubMetrics ==
    <<HubMetric("quality", QualityTone(pulse.quality)), HubMetric("refusals_15m", "neutral"),
      HubMetric("attempts_15m", "neutral")>>

\* ready is admission open and some upstream healthy, so a closed door is never ready.
ConnectionsHubMetrics ==
    <<HubMetric("current_connections", "neutral"), HubMetric("active_users", "neutral")>>
    \o IF P.ready = "null" THEN <<>>
       ELSE <<HubMetric("admission", GoodIf(P.ready = "ready", "bad"))>>

(***************************************************************************)
(* The upstreams as the hub and the page join them: the statistics rows     *)
(* win, rows only the quality endpoint has are appended.                    *)
(***************************************************************************)
StatsUpstreams == IF Have("upstreams") /\ P.upw = "data" THEN P.ups ELSE <<>>
QualityUpstreams == IF Have("runtime") /\ P.upqw = "data" THEN P.upq ELSE <<>>
MergeUpstreams ==
    [x \in DOMAIN StatsUpstreams \cup DOMAIN QualityUpstreams |->
        IF x \in DOMAIN StatsUpstreams THEN StatsUpstreams[x] ELSE QualityUpstreams[x]]
NoUpstreamsPayload ==
    /\ ~(Have("upstreams") /\ P.upw # "null")
    /\ ~(Have("runtime") /\ P.upqw # "null")
HealthyTotal ==
    LET summary == IF Have("upstreams") /\ P.upw = "data" THEN StatsUpstreams ELSE QualityUpstreams
    IN Cardinality({x \in DOMAIN summary : summary[x]})

UpstreamHealthTone ==
    LET rows == MergeUpstreams
    IN IF DOMAIN rows = {} THEN "neutral"
       ELSE IF \A x \in DOMAIN rows : rows[x] THEN "good"
       ELSE IF HealthyTotal = 0 THEN "bad" ELSE "warn"
UpstreamsHubMetrics ==
    IF NoUpstreamsPayload THEN <<>>
    ELSE <<HubMetric("configured", "neutral"), HubMetric("healthy", UpstreamHealthTone),
           HubMetric("latency", "neutral")>>

\* Mutant: a probe that Telemt switched off for this process still counts.
ReflectionToneOfFlagOnly(n) ==
    IF ~n.on THEN "neutral"
    ELSE IF n.age = "fresh" THEN "good"
    ELSE IF n.age = "old" THEN IF n.failing THEN "warn" ELSE "neutral"
    ELSE IF n.failing THEN "bad" ELSE "neutral"

NatReflectionTone(n) ==
    IF ~n.on \/ n.off THEN "neutral"
    ELSE IF n.age = "fresh" THEN "good"
    ELSE IF n.age = "old" THEN IF n.failing THEN "warn" ELSE "neutral"
    ELSE IF n.failing THEN "bad" ELSE "neutral"
NatHubMetrics ==
    IF ~ResolvedOk(P.natw) THEN <<>>
    ELSE <<HubMetric("reflection_age", NatReflectionTone(P.nat)),
           HubMetric("reflection_families", "neutral"),
           HubMetric("probe_attempts", GoodIf(~P.nat.failing, "warn"))>>

EventsHubMetrics ==
    IF ~ResolvedOk(P.evw) THEN <<>>
    ELSE <<HubMetric("last_event", "neutral"), HubMetric("event_type", "neutral"),
           HubMetric("events_24h", "neutral")>>

WebLifecycleTone(life) ==
    CASE life = "running" -> "good"
      [] life \in {"starting", "draining"} -> "warn"
      [] life = "deadline_exceeded" -> "bad"
      [] OTHER -> "neutral"
WebHubMetrics ==
    IF ~ResolvedOk(P.webw) THEN <<>>
    ELSE <<HubMetric("lifecycle", WebLifecycleTone(P.life)), HubMetric("sessions", "neutral"),
           HubMetric("streams", "neutral")>>

(***************************************************************************)
(* HUB_DOMAINS: per card its source, its metrics, the ids that may raise    *)
(* it, and the hint for a closed gate.                                      *)
(***************************************************************************)
SourceOf(d) ==
    CASE d = "dc" -> ResolveTopicSource(Snap("upstreams"), DeclaredIfPresent(P.dcw), P.dcw = "data" /\ DOMAIN P.fleet = {})
      [] d = "me" -> ResolveTopicSource(Snap("upstreams"), DeclaredIfPresent(P.mew), P.mew = "data" /\ P.writers = <<>>)
      [] d = "upstreams" -> ResolveTopicSource(Snap("upstreams"), DeclaredIfPresent(P.upw), FALSE)
      [] d = "security" -> ResolveTopicSource(Snap("security"), "undeclared", FALSE)
      [] d = "counters" -> ResolveQuerySource(pulse.query["zero"], pulse.held["zero"])
      [] d = "connections" -> ResolveTopicSource(Snap("stats"), P.conn, FALSE)
      [] d = "nat" -> ResolveTopicSource(Snap("runtime"), P.natw, FALSE)
      [] d = "events" -> ResolveTopicSource(Snap("runtime"), P.evw, FALSE)
      [] d = "web" -> ResolveTopicSource(Snap("web"), P.webw, FALSE)

MetricsOf(d) ==
    CASE d = "dc" -> DcHubMetrics [] d = "me" -> MeHubMetrics
      [] d = "security" -> SecurityHubMetrics [] d = "counters" -> CountersHubMetrics
      [] d = "connections" -> ConnectionsHubMetrics [] d = "upstreams" -> UpstreamsHubMetrics
      [] d = "nat" -> NatHubMetrics [] d = "events" -> EventsHubMetrics
      [] d = "web" -> WebHubMetrics

HealthMetricIds ==
    [dc |-> {"coverage"}, me |-> {"degraded"}, security |-> {"whitelist_state"},
     counters |-> {"quality"}, connections |-> {"admission"}, upstreams |-> {"healthy"},
     nat |-> {"reflection_age"}, events |-> {}, web |-> {"lifecycle"}]
DisabledHint ==
    [dc |-> "minimal", me |-> "minimal", security |-> "none", counters |-> "none",
     connections |-> "edge", upstreams |-> "upstream", nat |-> "pool", events |-> "edge", web |-> "web"]

PILL_STATE ==
    [loading |-> "muted", ready |-> "ok", stale |-> "warn", partial |-> "warn",
     disabled |-> "muted", unsupported |-> "muted", error |-> "error", empty |-> "muted"]

CardHealth(d, status, metrics) ==
    LET signals == {m \in ToSet(metrics) : m.id \in HealthMetricIds[d]}
    IN CASE status = "error" -> "error"
         [] status \in {"stale", "partial"} -> "warn"
         [] status \in {"loading", "disabled", "unsupported", "empty"} -> "muted"
         [] OTHER -> IF \E m \in signals : m.tone = "bad" THEN "error"
                     ELSE IF \E m \in signals : m.tone = "warn" THEN "warn" ELSE "ok"

GateHintOf(d, s) == HintKeyFor(s, DisabledHint[d])

\* availability as meAvailability gives it; a loading card waits for the notice.
CardNotice(d, s) ==
    LET availability ==
            IF d \notin {"dc", "me"} THEN "none"
            ELSE MeAvailability(Snap("runtime"), P.gates,
                    s.hasData /\ s.status \notin {"disabled", "unsupported"}, s.reason, TRUE)
    IN IF s.status = "loading" /\ availability # "direct" THEN "none" ELSE availability
Gated(s) == s.status \in {"disabled", "unsupported"}
CardMetrics(d, s, notice) ==
    IF notice \in {"none", "fallback"} /\ ~Gated(s) /\ s.hasData THEN MetricsOf(d) ELSE <<>>
Card(d, s, notice, metrics) ==
    [domain |-> d, status |-> s.status, metrics |-> metrics, notice |-> notice,
     health |-> CASE notice = "direct" -> "muted"
                  [] notice = "fallback" -> "warn"
                  [] OTHER -> CardHealth(d, s.status, metrics),
     pill |-> IF notice = "direct" THEN "muted" ELSE PILL_STATE[s.status],
     hint |-> IF Gated(s) /\ notice # "direct" THEN GateHintOf(d, s) ELSE "none"]
CardFrom(d, s, notice) == Card(d, s, notice, CardMetrics(d, s, notice))
CardOf(d, s) == CardFrom(d, s, CardNotice(d, s))
BuildHubCard(d) == CardOf(d, SourceOf(d))

DisplayState(card) == IF card.health = "muted" THEN card.pill ELSE card.health

\* What the body of a card shows: its figures, a notice, or the "no data" line.
HubCardView(card) ==
    CASE card.metrics # <<>> -> "figures"
      [] card.metrics = <<>> /\ card.notice # "none" -> "notice"
      [] OTHER -> "unavailable"
WebSourceRow(card) == IF card.metrics # <<>> THEN "age" ELSE "unavailable"

ATTENTION_PRIORITY ==
    <<"connections", "upstreams", "dc", "me", "nat", "security", "counters", "events", "web">>
AttentionBanner(cards) ==
    LET at(h) == {i \in DOMAIN ATTENTION_PRIORITY : \E c \in cards : c.domain = ATTENTION_PRIORITY[i] /\ c.health = h}
    IN IF at("error") # {} THEN ATTENTION_PRIORITY[Min(at("error"))]
       ELSE IF at("warn") # {} THEN ATTENTION_PRIORITY[Min(at("warn"))] ELSE "healthy"

HubOf(cards) ==
    [cards |-> cards, attention |-> AttentionBanner(cards),
     partial |-> \E c \in cards : c.status \in {"stale", "partial", "error"}]
HubPage == HubOf({BuildHubCard(d) : d \in DOMAINS})
=============================================================================
