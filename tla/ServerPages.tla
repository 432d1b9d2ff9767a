---------------------------- MODULE ServerPages ----------------------------
(***************************************************************************)
(* The "Server" part of the panel: its menu, and its security and platform  *)
(* pages.  They read the topics and requests the diagnostics read and reach *)
(* verdicts of their own, so that the same proxy is described twice: by     *)
(* server/hub.helpers.ts, server/security and server/platform here, and by  *)
(* pulse/diag in PulsePages.                                                *)
(***************************************************************************)
EXTENDS PulsePages

VARIABLE menu
serverPageVars == <<pulseVars, menu>>

(***************************************************************************)
(* The requests of the menu.  React Query keeps the last answer when a      *)
(* later request fails: `q` is the last outcome, `data` the last answer.    *)
(***************************************************************************)
Caps == {"start_telemt", "stop_telemt", "restart_telemt", "restart_panel",
         "log_tail", "log_stream", "self_update"}
Targets == <<"telemt", "panel">>
PhasesSeen == {"none", "installing", "done"}
MenuQueries ==
    [info |-> BOOLEAN,                                     \* reachable
     updates |-> [releases : [{"telemt", "panel"} -> {{}, {1, 2}}],   \* the newer ones, by date
                  run : [{"telemt", "panel"} -> PhasesSeen]],
     host |-> {Caps, {}} \cup {Caps \ {c} : c \in Caps},
     config |-> SUBSET {"tls", "secure", "classic"}]       \* general.modes
Unanswered == [q |-> "pending", data |-> {}]
Held(n) == menu[n].data # {}
Answer(n) == CHOOSE d \in menu[n].data : TRUE

MenuAnswers(n) ==
    /\ pulseLeft > 0
    /\ \/ \E d \in MenuQueries[n] : menu' = [menu EXCEPT ![n] = [q |-> "ok", data |-> {d}]]
       \/ menu' = [menu EXCEPT ![n].q = "failed"]
    /\ pulseLeft' = pulseLeft - 1
    /\ UNCHANGED <<pulse, pulseUi>>

(***************************************************************************)
(* ServerMenu.tsx and hub.helpers.ts.                                       *)
(***************************************************************************)
NewestAvailableRelease(t) ==
    IF ~Held("updates") \/ Answer("updates").releases[t] = {} THEN 0
    ELSE Max(Answer("updates").releases[t])
ActiveUpdateRun ==
    LET running == {i \in DOMAIN Targets : /\ Held("updates")
                                           /\ Answer("updates").run[Targets[i]]
                                                \notin {"none", "done", "rolled_back", "failed"}}
    IN IF running = {} THEN "none" ELSE Answer("updates").run[Targets[Min(running)]]
TelemtUnavailable == menu["info"].q = "failed" \/ (Held("info") /\ ~Answer("info"))
HasUpdates == \E t \in ToSet(Targets) : NewestAvailableRelease(t) > 0
ServerStatus ==
    IF TelemtUnavailable THEN "error"
    ELSE IF ActiveUpdateRun # "none" THEN "active"
    ELSE IF HasUpdates THEN "warn"
    ELSE IF "pending" \in {menu["info"].q, menu["updates"].q} THEN "muted" ELSE "ok"

HostCapabilityCount ==
    [available |-> IF Held("host") THEN Cardinality(Answer("host")) ELSE 0,
     total |-> IF Held("host") THEN Cardinality(Caps) ELSE 0]
SummaryFacts ==
    [telemt |-> NewestAvailableRelease("telemt") > 0 \/ TelemtUnavailable,
     panel |-> NewestAvailableRelease("panel") > 0 /\ Held("host") /\ "self_update" \in Answer("host"),
     manual |-> HostCapabilityCount.total - HostCapabilityCount.available]
UpdatesCard ==
    [state |-> IF ActiveUpdateRun # "none" THEN "active" ELSE IF HasUpdates THEN "warn" ELSE "ok",
     phase |-> ActiveUpdateRun]

SummarizeServerConfig ==
    IF ~Held("config") THEN "unknown"
    ELSE LET on == SelectSeq(<<"tls", "secure", "classic">>, LAMBDA m : m \in Answer("config"))
         IN IF on = <<>> THEN "unknown" ELSE Head(on)

RuntimeRouteMode(gates) ==
    IF gates.mode = "middle" /\ ~gates.reroute THEN "me"
    ELSE IF gates.mode = "direct" THEN IF gates.reroute THEN "fallback" ELSE "direct"
    ELSE "unknown"
SummarizeEgress(known, rows) ==
    IF ~known THEN [known |-> FALSE, total |-> 0, healthy |-> 0]
    ELSE [known |-> TRUE, total |-> Cardinality(DOMAIN rows),
          healthy |-> Cardinality({x \in DOMAIN rows : rows[x]})]
RouteSummary ==
    LET fresh == ~TopicTroubled(Snap("runtime"))
        mode == RuntimeRouteMode(IF fresh /\ Have("runtime") THEN P.gates ELSE NoGates)
        egress == SummarizeEgress(fresh /\ Have("runtime") /\ P.upqw = "data", P.upq)
    IN [mode |-> mode, egress |-> egress,
        flows |-> fresh /\ mode # "unknown" /\ egress.known /\ egress.total > 0,
        attention |-> egress.known /\ egress.healthy < egress.total]

SecurityApiLabel ==
    IF ~PostureNow.known THEN "none"
    ELSE IF PostureNow.readonly THEN "read_only"
    ELSE IF PostureNow.whitelist THEN "whitelist"
    ELSE IF PostureNow.auth THEN "auth" ELSE "open"
SecurityRows ==
    [api |-> PostureNow.whitelist \/ PostureNow.auth,
     tls |-> CASE menu["config"].q = "pending" -> "none"
               [] OTHER -> IF SummarizeServerConfig = "tls" THEN "configured" ELSE "disabled"]

(***************************************************************************)
(* server/security.  Entries of the whitelist are not told apart by the     *)
(* diagnostics; here a whitelist may hold loopback addresses alone.         *)
(***************************************************************************)
ApiProtectionKind(posture, loopback) ==
    IF ~posture.known THEN "unknown"
    ELSE IF posture.whitelist /\ posture.auth THEN "layered"
    ELSE IF posture.whitelist THEN IF loopback THEN "local" ELSE "whitelist"
    ELSE IF posture.auth THEN "auth"
    ELSE IF posture.readonly THEN "read_only" ELSE "exposed"
AccessFact(kind) ==
    CASE kind = "local" -> "localhost"
      [] kind \in {"exposed", "read_only"} -> "all_networks"
      [] OTHER -> "networks"
AuthFact(kind) ==
    CASE kind = "layered" -> "two_layers"
      [] kind = "auth" -> "header"
      [] kind \in {"local", "whitelist"} -> "whitelist"
      [] OTHER -> "not_configured"

\* resolveTlsFingerprintsQuery: a payload is kept over a failure, not over an
\* answer that the capability is gone.
TlsUsable == TlsHeld /\ pulse.query["tls"] \notin {"capability_absent", "capability_unavailable"}
ServerTlsBad == IF TlsUsable THEN TlsBad ELSE 0
ServerTlsCard ==
    CASE TlsUsable -> IF ServerTlsBad > 0 THEN "review" ELSE "calm"
      [] ~TlsUsable /\ pulse.query["tls"] = "pending" -> "loading"
      [] OTHER -> "notice"
ProtectionHero(kind) ==
    [level |-> SecurityLevel(PostureNow, ServerTlsBad),
     access |-> AccessFact(kind), auth |-> AuthFact(kind)]
AccessCard(kind) == IF kind = "exposed" THEN "open" ELSE "restricted"
ServerSecurityPage(loopback) ==
    LET kind == ApiProtectionKind(PostureNow, loopback)
    IN [shows |-> IF ~Have("security") THEN "loading" ELSE IF PostureNow.known THEN "cards" ELSE "unavailable",
        stale |-> Have("security") /\ TopicTroubled(Snap("security")),
        kind |-> kind, hero |-> ProtectionHero(kind), card |-> AccessCard(kind)]

(***************************************************************************)
(* PlatformPage.tsx.                                                        *)
(***************************************************************************)
CapabilityGroups ==
    <<{"start_telemt", "stop_telemt", "restart_telemt", "restart_panel"}, {"log_tail", "log_stream"}, {"self_update"}>>
CapabilityGroup(keys) == [k \in keys |-> IF k \in Answer("host") THEN "ok" ELSE "warn"]
PlatformPage ==
    LET summary == HostCapabilityCount
    IN IF menu["host"].q = "pending" THEN [shows |-> "loading", automated |-> FALSE, groups |-> <<>>]
       ELSE IF menu["host"].q = "failed" THEN [shows |-> "error", automated |-> FALSE, groups |-> <<>>]
       ELSE [shows |-> "page", automated |-> summary.available = summary.total,
             groups |-> [i \in DOMAIN CapabilityGroups |-> CapabilityGroup(CapabilityGroups[i])]]

ServerPagesInit ==
    /\ PulseInit
    /\ menu = [n \in DOMAIN MenuQueries |-> Unanswered]
ServerPagesNext ==
    \/ PulseNext /\ UNCHANGED menu
    \/ \E n \in DOMAIN MenuQueries : MenuAnswers(n)
ServerPagesSpec == ServerPagesInit /\ [][ServerPagesNext]_serverPageVars

-----------------------------------------------------------------------------
(***************************************************************************)
(* The server pages tell of the same proxy as the diagnostics.  The API is  *)
(* open on the menu, on the security page (its level, its kind, its card)   *)
(* and on the diagnostic page together, and the levels of the two security  *)
(* pages are the same unless the fingerprints held have become unavailable, *)
(* which only the diagnostic page keeps counting.  The route shown by the   *)
(* menu is one the ME page shows, and only from a runtime that is current;  *)
(* it asks for attention when a route of the upstreams page does.  A menu   *)
(* that says all is current has no release to install, no run under way and *)
(* a Telemt that answered, and every group of the platform page is green    *)
(* together with its header.                                                *)
(***************************************************************************)
ServerAgreesWithPulse ==
    /\ \A loopback \in BOOLEAN :
          LET page == ServerSecurityPage(loopback)
          IN  /\ SecurityApiLabel = "open" <=> page.kind = "exposed"
              /\ page.kind = "exposed" <=> SecurityHero.verdict = "open"
              /\ page.hero.level = "error" <=> page.card = "open"
              /\ page.card = "open" => page.hero.auth = "not_configured" /\ page.hero.access = "all_networks" /\ ~SecurityRows.api
              /\ PostureNow.known /\ (TlsUsable \/ ~TlsHeld) => page.hero.level = SecurityHero.level
              /\ page.hero.level = "ok" /\ page.shows = "cards" => ServerTlsCard # "review"
              /\ page.shows = "cards" /\ ~page.stale => Snap("security") = "live"
    /\ RouteSummary.mode # "unknown" => Snap("runtime") = "live"
    /\ RouteSummary.mode = "fallback" => MeMode = "fallback"
    /\ RouteSummary.mode = "me" /\ P.gates.use => MeMode = "middle" /\ HealthHero.route \in {"me", "dash"}
    /\ RouteSummary.flows /\ UpstreamHealthTone = "good" /\ DOMAIN StatsUpstreams = {} => ~RouteSummary.attention
    /\ ServerStatus = "ok" => ~HasUpdates /\ ActiveUpdateRun = "none" /\ menu["info"].q = "ok" /\ UpdatesCard.state = "ok"
    /\ ServerStatus \in {"active", "warn"} => UpdatesCard.state = ServerStatus
    /\ SummaryFacts.panel => HasUpdates
    /\ PlatformPage.shows = "page" =>
          /\ PlatformPage.automated <=> \A i \in DOMAIN PlatformPage.groups :
                \A k \in DOMAIN PlatformPage.groups[i] : PlatformPage.groups[i][k] = "ok"
          /\ PlatformPage.automated <=> SummaryFacts.manual = 0

\* The hub, the overview, the diagnostic pages and the server pages, each with
\* code of its own, tell the same of the proxy.
VerdictsAgree == HubAgreesWithPage /\ HeroAgreesWithProblems /\ ServerAgreesWithPulse
=============================================================================
