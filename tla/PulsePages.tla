----------------------------- MODULE PulsePages -----------------------------
(***************************************************************************)
(* The diagnostic pages behind the hub, pulse/diag: each resolves the same  *)
(* topics again, reaches a verdict of its own and lets the operator pick a  *)
(* row, a filter or a tab.  A choice is kept by id while the rows under it  *)
(* come and go with the frames.                                             *)
(***************************************************************************)
EXTENDS PulseOverview

NoRow == 0
Topic(t, w) == ResolveTopicSource(Snap(t), w, FALSE)

(***************************************************************************)
(* DcPage.tsx: what is wrong with a route, worst first, and with a pair.    *)
(***************************************************************************)
RouteIssue(d) ==
    IF d.cov <= 0 \/ d.alive <= 0 \/ d.cov < 100 \/ d.alive < d.required THEN "coverage"
    ELSE IF d.fresh < d.cov THEN "fresh"
    ELSE IF d.avail < d.eps THEN "endpoints"
    ELSE IF d.rtt > DC_RTT_WARN_MS THEN "latency" ELSE "none"
RouteTone(d) ==
    CASE d.cov <= 0 \/ d.alive <= 0 -> "error"
      [] ~(d.cov <= 0 \/ d.alive <= 0) ->
            CASE RouteIssue(d) = "none" -> "ok"
              [] RouteIssue(d) = "latency" -> "latency"
              [] OTHER -> "warn"
Worst(tones) ==
    CHOOSE t \in tones : \A u \in tones :
        LET rank == [error |-> 4, warn |-> 3, latency |-> 2, ok |-> 1] IN rank[t] >= rank[u]
PairTone(rows, pair) == Worst({RouteTone(rows[x]) : x \in pair})
StateForTone(tone) == IF tone = "latency" THEN "warn" ELSE tone
PairReason(rows, id) ==
    LET half == <<id, -id>>
        issue == [i \in {j \in 1..2 : half[j] \in DOMAIN rows} |-> RouteIssue(rows[half[i]])]
        grave == {i \in DOMAIN issue : issue[i] \notin {"none", "latency"}}
    IN IF grave # {} THEN issue[Min(grave)]
       ELSE IF \E i \in DOMAIN issue : issue[i] = "latency" THEN "latency" ELSE "none"

\* The half of a pair as its lane draws it: scale, endpoints and capacity.
RouteLane(rows, x) ==
    IF x \notin DOMAIN rows THEN [shown |-> FALSE, tone |-> "muted", absent |-> 0, spare |-> 0]
    ELSE [shown |-> TRUE, tone |-> StateForTone(RouteTone(rows[x])),
          absent |-> rows[x].eps - rows[x].avail, spare |-> rows[x].alive - rows[x].required]

\* Mutant: the pair last clicked stays on screen when a frame drops it.
PickStays(ids, pick, default) == IF pick = NoRow THEN default ELSE pick

\* The row a detail pane shows: the one picked while it is listed.
SelectedOf(ids, pick, default) == IF pick \in ids THEN pick ELSE default

DcNotice ==
    LET availability == MeAvailability(Snap("runtime"), P.gates, P.dcw = "data",
                            IF P.dcw \in ClosedReasons THEN P.dcw ELSE "none", TRUE)
    IN IF availability = "direct" \/ (Have("upstreams") /\ P.dcw # "null") \/ TopicTroubled(Snap("upstreams"))
       THEN availability ELSE "none"
DcPage ==
    LET pairs == DcRouteGroups(DcRows)
        tone == [id \in DOMAIN pairs |-> PairTone(DcRows, pairs[id])]
        bad == {id \in DOMAIN pairs : tone[id] \in {"error", "warn"}}
        default == IF bad # {} THEN Min(bad) ELSE IF DOMAIN pairs # {} THEN Min(DOMAIN pairs) ELSE NoRow
        status == AggregateSources(
                    <<ResolveTopicSource(Snap("upstreams"), DeclaredIfPresent(P.dcw), P.dcw = "data" /\ DOMAIN P.fleet = {})>>,
                    <<Topic("runtime", P.minw)>>)
        blocked == DcNotice # "none" /\ ~(DcNotice = "fallback" /\ DOMAIN pairs # {})
    IN [status |-> CASE DcNotice = "direct" -> "empty" [] DcNotice = "fallback" -> "partial" [] OTHER -> status,
        tone |-> tone, selected |-> SelectedOf(DOMAIN pairs, pulseUi.pair, default),
        body |-> CASE blocked -> "notice"
                   [] ~blocked /\ ~(Have("upstreams") /\ P.dcw # "null") ->
                        IF Snap("upstreams") = "failed" THEN "unavailable" ELSE "loading"
                   [] OTHER -> IF DOMAIN pairs = {} THEN "empty" ELSE "board"]

(***************************************************************************)
(* MePage.tsx.                                                              *)
(***************************************************************************)
WriterState(w) == IF w.degraded THEN "degraded" ELSE IF w.draining THEN "draining" ELSE "active"
StateForWriter(w) == CASE w.degraded -> "error" [] ~w.degraded /\ w.draining -> "warn" [] OTHER -> "ok"
WriterFilters == {"all", "active", "degraded", "draining"}
MeWriters == IF Have("upstreams") /\ P.mew = "data" THEN P.writers ELSE <<>>
WritersPanel ==
    [counts |-> [f \in WriterFilters |->
                 Cardinality({i \in DOMAIN MeWriters : f = "all" \/ WriterState(MeWriters[i]) = f})],
     filtered |-> SelectSeq(MeWriters, LAMBDA w : pulseUi.writers \in {"all", WriterState(w)})]

\* The bar of the pool: Telemt's own counts, else those of the writers.
PoolComposition ==
    LET total == Len(MeWriters)
        degraded == Cardinality({i \in DOMAIN MeWriters : MeWriters[i].degraded})
        draining == Cardinality({i \in DOMAIN MeWriters : MeWriters[i].draining})
    IN IF Have("runtime") /\ ResolvedOk(P.poolw)
       THEN [of |-> "pool", degraded |-> IF P.pool = "degraded" THEN 1 ELSE 0,
             draining |-> IF P.pool = "draining" THEN 1 ELSE 0, healthy |-> 1]
       ELSE [of |-> "writers", degraded |-> degraded, draining |-> draining,
             healthy |-> Max({0, total - (degraded + draining)})]

\* The pairs of the topology: Telemt's rows, else one point per writer's data centre.
DcPairs ==
    IF Have("runtime") /\ P.qualw = "data" THEN [from |-> "quality", short |-> P.qual = "short"]
    ELSE [from |-> IF MeWriters = <<>> THEN "none" ELSE "writers", short |-> FALSE]
MeGates == FreshGates(Snap("runtime"), P.gates)
MeMode ==
    IF TopicTroubled(Snap("runtime")) THEN "unknown"
    ELSE MeRouteMode(IF Have("runtime") THEN MeGates ELSE NoGates,
                     Have("runtime") /\ P.gates # NoGates /\ Have("upstreams") /\ P.mew = "data")
RouteReadiness ==
    [mode |-> CASE MeMode = "fallback" -> "warn" [] MeMode = "unknown" -> "muted" [] OTHER -> "ok",
     degraded |-> IF \E i \in DOMAIN MeWriters : MeWriters[i].degraded THEN "warn" ELSE "ok",
     drain |-> IF Have("runtime") /\ P.qualw = "data" THEN "ok" ELSE "warn"]
QualityPanel ==
    IF ~(Have("runtime") /\ P.qualw = "data") THEN "unavailable"
    ELSE IF P.qual = "family" THEN "warn" ELSE "ok"
InitializationPanel ==
    IF ~Have("runtime") \/ P.init = "null" THEN "unavailable" ELSE P.init
RuntimePanel ==
    [settings |-> IF Have("runtime") /\ P.minw = "data" THEN "rows" ELSE "dash",
     reroute |-> IF MeGates.reroute THEN "warn" ELSE "ok",
     drain |-> IF ~(Have("runtime") /\ P.qualw = "data") THEN "warn" ELSE "ok",
     selftest |-> IF Have("runtime") /\ P.selfw = "data" THEN "rows" ELSE "dash"]
MePayload ==
    \/ Have("upstreams") /\ P.mew # "null"
    \/ MeGates # NoGates
    \/ Have("runtime") /\ (P.init # "null" \/ \E w \in {P.poolw, P.qualw, P.selfw, P.minw} : w = "data")

MeTabs == {"overview", "writers", "quality", "initialization", "runtime"}
MePage ==
    LET availability == MeAvailability(Snap("runtime"), P.gates, Have("runtime") /\ ResolvedOk(P.poolw),
                            IF Have("runtime") /\ P.poolw \in ClosedReasons THEN P.poolw ELSE "none", FALSE)
        notice == IF availability = "direct" \/ Snap("runtime") # "none" THEN availability ELSE "none"
        status == AggregateSources(<<ResolveTopicSource(Snap("upstreams"), DeclaredIfPresent(P.mew), P.mew = "data" /\ P.writers = <<>>)>>,
                     <<Topic("runtime", "undeclared"), Topic("runtime", P.poolw), Topic("runtime", P.minw)>>)
    IN [status |-> CASE notice = "direct" -> "empty" [] notice = "fallback" -> "partial" [] OTHER -> status,
        notice |-> notice,
        head |-> IF ~MePayload THEN IF \E t \in {"upstreams", "runtime"} : TopicTroubled(Snap(t)) THEN "unavailable" ELSE "loading"
                 ELSE IF notice = "none" THEN MeMode ELSE "notice",
        panel |-> IF ~MePayload \/ notice = "direct" THEN "none" ELSE pulseUi.tab]

(***************************************************************************)
(* NatPage.tsx.                                                             *)
(***************************************************************************)
NatMechanismState(n) ==
    IF ~(n.on /\ ~n.off) THEN "disabled"
    ELSE IF n.age = "none" THEN IF n.failing THEN "missing" ELSE "pending"
    ELSE IF n.age = "fresh" THEN "fresh"
    ELSE IF n.failing THEN "delayed" ELSE "stale"
StateTone(state) ==
    CASE state = "fresh" -> "ok" [] state = "delayed" -> "warn" [] state = "missing" -> "error" [] OTHER -> "muted"
\* The steps of the address: the probe, the cache and the address used.
NatFlow(n) ==
    LET state == NatMechanismState(n)
        delayed == state \in {"delayed", "missing"}
    IN [probe |-> IF state = "disabled" THEN "muted" ELSE IF delayed THEN "warn" ELSE "ok",
        cache |-> CASE n.age = "none" -> "muted" [] n.age = "old" -> "warn" [] OTHER -> "ok",
        address |-> IF state = "disabled" \/ n.age = "none" THEN "muted" ELSE "ok"]
NatServer(n, answered) ==
    IF answered THEN "ok" ELSE IF NatMechanismState(n) \in {"delayed", "missing"} THEN "warn" ELSE "muted"
NatGates == IF Have("runtime") THEN P.gates ELSE NoGates
NatPage ==
    LET mode == MeRouteMode(NatGates, FALSE)
    IN [status |-> CASE mode = "direct" -> "ready" [] mode = "fallback" -> "partial"
                     [] OTHER -> AggregateSources(<<Topic("runtime", P.natw)>>, <<>>),
        body |-> IF NatGates = NoGates THEN "loading"
                 ELSE IF mode # "middle" THEN "route"
                 ELSE IF ~ResolvedOk(P.natw) THEN "unavailable" ELSE "verdict",
        tone |-> IF NatGates # NoGates /\ mode = "middle" /\ ResolvedOk(P.natw)
                 THEN StateTone(NatMechanismState(P.nat)) ELSE "none"]

(***************************************************************************)
(* UpstreamsPage.tsx: the banner counts by the summary, the list by rows.   *)
(***************************************************************************)
UpstreamsPage ==
    LET rows == MergeUpstreams
        summary == IF Have("upstreams") /\ P.upw = "data" THEN StatsUpstreams ELSE QualityUpstreams
        unhealthy == Cardinality({x \in DOMAIN summary : ~summary[x]})
    IN [status |-> AggregateSources(<<Topic("upstreams", DeclaredIfPresent(P.upw))>>,
                                    <<Topic("runtime", DeclaredIfPresent(P.upqw))>>),
        body |-> IF NoUpstreamsPayload
                 THEN IF TopicTroubled(Snap("upstreams")) THEN "unavailable" ELSE "loading"
                 ELSE IF DOMAIN rows = {} THEN "empty" ELSE "routes",
        banner |-> IF unhealthy > 0 THEN "warn" ELSE "ok",
        visible |-> {x \in DOMAIN rows : pulseUi.unhealthy => ~rows[x]},
        selected |-> SelectedOf(DOMAIN rows, pulseUi.route, IF DOMAIN rows = {} THEN NoRow ELSE Min(DOMAIN rows)),
        policy |-> Have("runtime") /\ P.upqw # "null"]

(***************************************************************************)
(* EventsPage.tsx.                                                          *)
(***************************************************************************)
EventFamilies == {"all", "admission", "config", "other"}
EventFamily(type) == CASE type = "admission" -> "admission" [] type = "reload" -> "config" [] OTHER -> "other"
TIMELINE_STEP == 1          \* bound: events per click on "show more", 8 in the code
Timeline(log) ==
    LET ordered == Reverse(log)
        filtered == SelectSeq(ordered, LAMBDA e : pulseUi.family \in {"all", EventFamily(e)})
    IN [counts |-> [f \in EventFamilies |->
                       Cardinality({i \in DOMAIN log : f \in {"all", EventFamily(log[i])}})],
        visible |-> SubSeq(filtered, 1, Min({pulseUi.shown, Len(filtered)})),
        more |-> pulseUi.shown < Len(filtered)]
AdmissionDominates(log) ==
    Cardinality({i \in DOMAIN log : log[i] = "admission"}) * 10 > Len(log) * 8
EventsPage ==
    LET disabled == Have("runtime") /\ ~ResolvedOk(P.evw)
    IN [status |-> IF disabled THEN "disabled" ELSE AggregateSources(<<Topic("runtime", P.evw)>>, <<>>),
        body |-> IF ~Have("runtime") THEN "loading" ELSE IF disabled THEN "disabled" ELSE "timeline",
        advice |-> Have("runtime") /\ ~disabled /\ AdmissionDominates(P.log)]

(***************************************************************************)
(* ConnectionsPage.tsx.                                                     *)
(***************************************************************************)
AdmissionState ==
    CASE P.ready = "null" -> "muted"
      [] P.ready = "admission_closed" -> "warn"
      [] OTHER -> "ok"
ConnectionsPage ==
    [status |-> AggregateSources(<<Topic("stats", "undeclared")>>, <<Topic("stats", P.conn)>>),
     body |-> IF Have("stats") THEN "load" ELSE IF Snap("stats") = "failed" THEN "unavailable" ELSE "loading",
     admission |-> IF Have("stats") THEN AdmissionState ELSE "none",
     ranking |-> IF Have("stats") /\ ResolvedOk(P.conn) THEN "clients" ELSE "unavailable",
     quality |-> IF pulse.quality = 0 THEN "dash" ELSE IF pulse.quality < 95 THEN "warn" ELSE "ok"]

(***************************************************************************)
(* SecurityPage.tsx.                                                        *)
(***************************************************************************)
TlsHeld == pulse.held["tls"]
TlsBad == IF TlsHeld THEN Len(SelectSeq(pulse.tls, LAMBDA r : r = "probe")) ELSE 0
SecurityLevel(posture, bad) ==
    IF ~posture.known THEN IF bad > 0 THEN "warn" ELSE "ok"
    ELSE IF ~posture.whitelist /\ ~posture.auth /\ ~posture.readonly THEN "error"
    ELSE IF ~posture.whitelist \/ bad > 0 THEN "warn" ELSE "ok"
PostureNow == IF Have("security") THEN P.posture ELSE NoPosture
SecurityHero ==
    LET level == IF PostureNow.known THEN SecurityLevel(PostureNow, TlsBad) ELSE "warn"
    IN [level |-> level,
        verdict |-> IF ~PostureNow.known THEN "unknown"
                    ELSE IF level = "error" THEN "open"
                    ELSE IF TlsBad > 0 THEN "tls" ELSE IF level = "warn" THEN "weak" ELSE "restricted",
        review |-> TlsBad > 0]
AccessSteps ==
    LET risk == IF SecurityHero.verdict = "open" THEN "error" ELSE "warn"
    IN [network |-> IF PostureNow.whitelist THEN "ok" ELSE "error",
        header |-> IF PostureNow.auth THEN "ok" ELSE risk,
        rights |-> IF PostureNow.readonly THEN "ok" ELSE risk]
TLS_ROWS == 1          \* bound: rows first shown and added per click, 5 and 10 in the code
FilterTlsRows(rows, suspiciousOnly) == SelectSeq(rows, LAMBDA r : suspiciousOnly => r = "probe")
TlsPanel ==
    LET source == ResolveQuerySource(pulse.query["tls"], TlsHeld)
        rows == FilterTlsRows(pulse.tls, pulseUi.suspicious)
    IN IF ~TlsHeld
       THEN [shows |-> IF source.status \in {"disabled", "unsupported"} THEN "gated"
                       ELSE IF source.status = "error" THEN "error" ELSE "loading", rows |-> <<>>]
       ELSE [shows |-> IF rows = <<>> THEN "none" ELSE "rows",
             rows |-> SubSeq(rows, 1, Min({pulseUi.tls, Len(rows)}))]
SecurityNotice ==
    IF TopicTroubled(Snap("security")) THEN "error" ELSE IF Have("security") THEN "unavailable" ELSE "loading"
SecurityPage ==
    [status |-> AggregateSources(<<Topic("security", "undeclared")>>,
                                 <<ResolveQuerySource(pulse.query["tls"], TlsHeld)>>),
     posture |-> IF PostureNow.known THEN "panel" ELSE SecurityNotice,
     limits |-> IF Have("security") /\ P.limits = "data" THEN "panel" ELSE SecurityNotice]

(***************************************************************************)
(* What the operator does on the pages, each as if open in a browser tab of *)
(* its own: the choices of one page are never read by another.              *)
(***************************************************************************)
UiStart ==
    [pair |-> NoRow, route |-> NoRow, unhealthy |-> FALSE, writers |-> "all", tab |-> "overview",
     family |-> "all", shown |-> TIMELINE_STEP, suspicious |-> FALSE, tls |-> TLS_ROWS]
PulseClick(ui) ==
    /\ pulseLeft > 0
    /\ ui # pulseUi
    /\ pulseUi' = ui
    /\ pulseLeft' = pulseLeft - 1
    /\ UNCHANGED pulse

SelectPair == DcPage.body = "board" /\ \E id \in DOMAIN DcPage.tone : PulseClick([pulseUi EXCEPT !.pair = id])
SelectRoute == \E x \in UpstreamsPage.visible : PulseClick([pulseUi EXCEPT !.route = x])
ToggleUnhealthy == UpstreamsPage.body = "routes" /\ PulseClick([pulseUi EXCEPT !.unhealthy = ~@])
SelectTab == MePage.panel # "none" /\ \E t \in MeTabs : PulseClick([pulseUi EXCEPT !.tab = t])
FilterWriters == MePage.panel = "writers" /\ \E f \in WriterFilters : PulseClick([pulseUi EXCEPT !.writers = f])
\* Only families that occur are offered; a new one starts from the first rows.
FilterEvents ==
    /\ EventsPage.body = "timeline"
    /\ \E f \in EventFamilies : /\ f = "all" \/ Timeline(P.log).counts[f] > 0
                                /\ PulseClick([pulseUi EXCEPT !.family = f, !.shown = TIMELINE_STEP])
ShowMoreEvents ==
    /\ EventsPage.body = "timeline" /\ Timeline(P.log).more
    /\ PulseClick([pulseUi EXCEPT !.shown = @ + TIMELINE_STEP])
FilterTls == TlsPanel.shows \in {"rows", "none"} /\ PulseClick([pulseUi EXCEPT !.suspicious = ~@, !.tls = TLS_ROWS])
\* "Review" in the hero opens the panel afresh, on the suspicious rows.
ReviewTls == SecurityHero.review /\ PulseClick([pulseUi EXCEPT !.suspicious = TRUE, !.tls = TLS_ROWS])
ShowMoreTls ==
    /\ TlsPanel.shows = "rows"
    /\ pulseUi.tls < Len(FilterTlsRows(pulse.tls, pulseUi.suspicious))
    /\ PulseClick([pulseUi EXCEPT !.tls = @ + TLS_ROWS])

PulseInit ==
    /\ pulse \in {PulseStart(s) : s \in {"none", "live"}}
    /\ pulseUi = UiStart
    /\ pulseLeft = MaxPulse

PulseNext ==
    \/ \E t \in PulseTopics : PulseFrame(t) \/ PulseError(t)
    \/ \E n \in PulseQueries : QueryAnswers(n)
    \/ QualityMoves
    \/ SelectPair \/ SelectRoute \/ ToggleUnhealthy \/ SelectTab \/ FilterWriters
    \/ FilterEvents \/ ShowMoreEvents \/ FilterTls \/ ReviewTls \/ ShowMoreTls

-----------------------------------------------------------------------------
DcViewsAgree(rows, tone, widget) ==
    /\ DcCoverageTone(rows) = "bad" <=> \E id \in DOMAIN tone : tone[id] = "error"
    /\ DcCoverageTone(rows) = "warn" => \E id \in DOMAIN tone : tone[id] \in {"error", "warn"}
    /\ \A id \in DOMAIN tone :
          /\ tone[id] = "error" <=> DcGroup(rows, id).state = "error"
          /\ tone[id] = "ok" =>
                /\ DcGroup(rows, id).state = "ok" /\ PairReason(rows, id) = "none"
                /\ \A x \in {id, -id} : RouteLane(rows, x).spare >= 0 /\ RouteLane(rows, x).absent = 0
    /\ widget.board # <<>> =>
          (widget.attention <=> \E id \in DOMAIN widget.board : widget.board[id].state # "ok")
NatViewsAgree(page, card, n) ==
    /\ page # "none" =>
          page = (CASE card = "good" -> "ok" [] card = "warn" -> "warn" [] card = "bad" -> "error" [] OTHER -> "muted")
    /\ page = "ok" => \A step \in {"probe", "cache", "address"} : NatFlow(n)[step] = "ok"
    /\ page \in {"warn", "error"} => NatFlow(n).probe = "warn" /\ NatServer(n, FALSE) = "warn"
MeViewsAgree(widget, page, card, mode) ==
    /\ card.metrics # <<>> =>
          (card.metrics[2].tone = "warn") <=> (\E i \in DOMAIN MeWriters : StateForWriter(MeWriters[i]) = "error")
    /\ widget.status = "fallback" => "fallback" \in {page.notice, mode} /\ RouteReadiness.mode = "warn"
    /\ widget.shows = "direct" => page.panel = "none" /\ page.status = "empty"
    /\ widget.status = "family" => QualityPanel = "warn"
    /\ widget.status = "coverage" => DcPairs.from = "quality" /\ DcPairs.short
    /\ Snap("runtime") = "live" /\ mode = "middle" => RuntimePanel.reroute = "ok" /\ RuntimePanel.drain = RouteReadiness.drain
SecurityViewsAgree(hero, steps) ==
    /\ hero.verdict = "open" <=> PostureNow.known /\ \A x \in DOMAIN steps : steps[x] = "error"
    /\ hero.level = "ok" => BuildHubCard("security").health # "error" /\ steps.network = "ok"
HeroViewsAgree(hero) ==
    /\ hero.label = "starting" <=> Snap("stats") = "live" /\ InitializationPanel = "starting"
    /\ Snap("runtime") = "live" /\ hero.route = "me" => MeMode = "middle"

(***************************************************************************)
(* The hub, the overview and the page compute a verdict on the same data    *)
(* each in code of its own (hubCards.ts, dc.helpers.ts, the pages).         *)
(* Whoever follows a card to its page must find what the card said: a data  *)
(* centre is down for all three or for none, a route is never healthier on  *)
(* the page than on the overview, the degraded writers counted on the card  *)
(* are the ones the page lists, every route the card calls good is healthy  *)
(* in the list, and the age of a reflection has one colour.                 *)
(***************************************************************************)
HubAgreesWithPage ==
    /\ DOMAIN DcRows # {} => DcViewsAgree(DcRows, DcPage.tone, DcWidget)
    /\ NatViewsAgree(NatPage.tone, NatReflectionTone(P.nat), P.nat)
    /\ MeViewsAgree(MePoolWidget, MePage, BuildHubCard("me"), MeMode)
    /\ UpstreamHealthTone = "good" => UpstreamsPage.banner = "ok" /\ \A x \in DOMAIN MergeUpstreams : MergeUpstreams[x]
    /\ HeroViewsAgree(HealthHero)
    /\ SecurityViewsAgree(SecurityHero, AccessSteps)
    /\ AdmissionState = "warn" => BuildHubCard("connections").health # "ok"

TopicOf == [dc |-> "upstreams", me |-> "upstreams", upstreams |-> "upstreams", security |-> "security",
            connections |-> "stats", nat |-> "runtime", events |-> "runtime", web |-> "web"]
Current(page, topics) == page.status = "ready" => \A t \in topics : Snap(t) = "live"
HubIsFresh(hub) ==
    \A card \in hub.cards :
        /\ card.health = "ok" =>
              IF card.domain = "counters" THEN pulse.query["zero"] = "ok" ELSE Snap(TopicOf[card.domain]) = "live"
        /\ card.domain = "web" /\ WebSourceRow(card) = "age" => Have("web")
        /\ DisplayState(card) = "error" => hub.attention # "healthy"
        /\ HubCardView(card) = "notice" => DisplayState(card) # "ok"
ConnectionsFresh(page) == Current(page, {"stats"}) /\ (page.status = "ready" => page.body = "load")
UpstreamsFresh(page, widget) ==
    /\ P.upw = "data" => Current(page, {"upstreams"}) /\ (page.status = "ready" => page.body # "unavailable")
    /\ widget.pill = "ok" /\ ~widget.stale => "live" \in {Snap("upstreams"), Snap("runtime")}
SecurityFresh(page) ==
    Current(page, {"security"}) /\ (page.status = "ready" => pulse.query["tls"] \in {"ok", "empty"})
\* The page of the network address: in direct mode it is ready by the gates it holds.
NatFresh(page) ==
    page.status = "ready" /\ MeRouteMode(NatGates, FALSE) # "direct" =>
        Snap("runtime") = "live" /\ ResolvedOk(P.natw)

(***************************************************************************)
(* Green means current.  A card, a page header or the banner is "ok" or     *)
(* "ready" only on data of a topic whose last poll succeeded: data kept     *)
(* after a failed poll, and a gate that is shut, always show as such        *)
(* (sourceState.ts, meAvailability.ts).  Two cases are excepted.  A page    *)
(* whose required source is empty: aggregateSources calls it ready whatever *)
(* has become of the optional ones.  And the page of the network address    *)
(* in direct mode, which NatPage.tsx calls ready by the gates it holds,     *)
(* however old, where meAvailability.ts lets only fresh gates establish it. *)
(***************************************************************************)
GreenIsFresh ==
    /\ HubIsFresh(HubPage)
    /\ DOMAIN DcRows # {} => Current(DcPage, {"upstreams", "runtime"})
    /\ MeWriters # <<>> => Current(MePage, {"upstreams", "runtime"})
    /\ Current(EventsPage, {"runtime"})
    /\ ConnectionsFresh(ConnectionsPage)
    /\ UpstreamsFresh(UpstreamsPage, UpstreamsWidget)
    /\ SecurityFresh(SecurityPage)
    /\ NatFresh(NatPage)
    /\ HealthHero.label = "ok" => \A t \in {"stats", "runtime", "upstreams"} : ~TopicTroubled(Snap(t))

(***************************************************************************)
(* The banner and the list of problems under it agree: "degraded" has a     *)
(* problem that says why, and "ok" has none of the problems the banner is   *)
(* meant to cover (healthHero.helpers.ts against problems.helpers.ts).  A   *)
(* route for which Telemt wants no writers is the exception: the banner     *)
(* calls it down, and no problem names it (problems.helpers.ts:151).        *)
(***************************************************************************)
Loud == {k \in ToSet(Problems) : ProblemSeverity(k) # "muted"}
NoRouteUnwanted == \A x \in DOMAIN DcRows : DcRows[x].required > 0
HeroAgreesWithProblems ==
    /\ HealthHero.label = "degraded" /\ NoRouteUnwanted => Loud # {}
    /\ HealthHero.label = "ok" =>
          Loud \subseteq {"me_split_traffic", "stale_security", "connections_bad_total"}

PaneAgrees(page, rows, pick) ==
    page.selected \in DOMAIN rows /\ (pick \in DOMAIN rows => page.selected = pick)
\* Rows that stand for the newest events, each event once and no run cut in two.
TimelineTells(rows, events) ==
    /\ rows # <<>> /\ Len(rows) <= TimelineLimit /\ rows[1].latest = 1
    /\ \A i \in DOMAIN rows :
          /\ rows[i].count = rows[i].oldest - rows[i].latest + 1
          /\ \A k \in rows[i].latest..rows[i].oldest : events[k] = rows[i].type
          /\ i > 1 => rows[i].latest = rows[i - 1].oldest + 1 /\ rows[i].type # rows[i - 1].type
    /\ LET last == rows[Len(rows)]
       IN  \/ last.oldest = Len(events)
           \/ Len(rows) = TimelineLimit /\ last.oldest < Len(events) /\ events[last.oldest + 1] # last.type
EventsAgree(n, recent) ==
    /\ n["all"] = n["admission"] + n["config"] + n["other"]
    /\ EventsPage.advice => n["admission"] > n["config"] + n["other"]
    /\ recent.shows = "timeline" => TimelineTells(recent.rows, Reverse(P.log))
ClientsAgree(attention, watch) ==
    /\ \A u \in watch.rows \ attention.rows :
          attention.count > AttentionLimit /\ \A v \in attention.rows : ComesFirst(v, u)
    /\ attention.badge = "error" <=>
          Have("users") /\ \E u \in Clients : \E g \in SignalsForUser(UserNow(u)) : g.severity = "error"
WritersAgree(n, pool) ==
    /\ n["all"] = n["active"] + n["degraded"] + n["draining"]
    /\ pool.of = "writers" /\ ~(\E i \in DOMAIN MeWriters : MeWriters[i].degraded /\ MeWriters[i].draining)
         => pool.healthy = n["active"]

(***************************************************************************)
(* Lists of the same records never contradict each other, cut as they are:  *)
(* the pane shows a row the list still has, the operator's own choice while *)
(* it is there; the filters of the writers and of the events split the      *)
(* whole list; the timeline stands for the newest events, each once and no  *)
(* run cut in two; whoever is on the quota card is also among the clients   *)
(* that need attention, or as many that come first have filled that list;   *)
(* and the colour of its count, taken from the rows listed, is the one of   *)
(* all the clients counted.                                                 *)
(***************************************************************************)
PulseListsAgree ==
    /\ DcPage.body = "board" => PaneAgrees(DcPage, DcPage.tone, pulseUi.pair)
    /\ UpstreamsPage.body = "routes" => PaneAgrees(UpstreamsPage, MergeUpstreams, pulseUi.route)
    /\ WritersAgree(WritersPanel.counts, PoolComposition)
    /\ EventsAgree(Timeline(P.log).counts, RecentEventsWidget)
    /\ ClientsAgree(OnlineNow, QuotasWidget)
=============================================================================
