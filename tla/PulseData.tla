----------------------------- MODULE PulseData -----------------------------
(***************************************************************************)
(* What the diagnostic screens of the panel read: the last snapshot of each *)
(* realtime topic (realtime/topics.ts).  A payload is kept to what the      *)
(* verdicts of the screens tell apart, one field per thing a verdict looks  *)
(* at; every field of a topic changes only with a frame of that topic.      *)
(* Frames and source errors come from the panel's hub, whose polls of       *)
(* Telemt may fail one sub-call at a time, which leaves a "null".           *)
(***************************************************************************)
EXTENDS PulseSources, Integers

CONSTANTS MaxPulse,         \* bound: frames, source errors and clicks in one behaviour
          MaxClients,       \* bound: clients of the proxy
          AttentionLimit,   \* rows of the clients that need attention, CLIENT_ATTENTION_LIMIT
          WatchLimit,       \* rows of the quota card, QUOTA_WATCH_LIMIT
          TimelineLimit     \* rows of the overview's events, 5 and on the rail 6
ASSUME PulseAssumption ==
    /\ MaxPulse \in Nat /\ MaxClients \in Nat \ {0}
    /\ AttentionLimit \in Nat \ {0} /\ WatchLimit \in Nat \ {0} /\ TimelineLimit \in Nat \ {0}

VARIABLES pulse, pulseUi, pulseLeft
pulseVars == <<pulse, pulseUi, pulseLeft>>

PulseTopics == {"stats", "runtime", "upstreams", "security", "users", "web"}

(***************************************************************************)
(* One route to a data centre: writers alive and required, coverage and     *)
(* fresh coverage, endpoints available and configured, round trip (0 while  *)
(* unmeasured).  "down" is the route for which Telemt wants no writers and  *)
(* has none.  Coverage is the share of the wanted writers that are alive,   *)
(* so that a route with a writer alive has some: the case DcPage.tsx:44 and *)
(* dc.helpers.ts:27 would read differently is not among the rows.           *)
(***************************************************************************)
DcStatus ==
    [well  |-> [alive |-> 2, required |-> 2, floor |-> 1, cov |-> 100, fresh |-> 100, avail |-> 2, eps |-> 2, rtt |-> 40],
     dead  |-> [alive |-> 0, required |-> 2, floor |-> 1, cov |-> 0, fresh |-> 0, avail |-> 0, eps |-> 2, rtt |-> 40],
     thin  |-> [alive |-> 1, required |-> 2, floor |-> 1, cov |-> 50, fresh |-> 50, avail |-> 2, eps |-> 2, rtt |-> 40],
     aged  |-> [alive |-> 2, required |-> 2, floor |-> 1, cov |-> 100, fresh |-> 50, avail |-> 2, eps |-> 2, rtt |-> 40],
     fewer |-> [alive |-> 2, required |-> 2, floor |-> 1, cov |-> 100, fresh |-> 100, avail |-> 1, eps |-> 2, rtt |-> 40],
     slow  |-> [alive |-> 3, required |-> 2, floor |-> 1, cov |-> 100, fresh |-> 100, avail |-> 2, eps |-> 2, rtt |-> 200],
     down  |-> [alive |-> 0, required |-> 0, floor |-> 0, cov |-> 0, fresh |-> 0, avail |-> 0, eps |-> 2, rtt |-> 0]]

\* The signed ids: 2 and -2 are the main and the media route of one data centre.
DcIds == {2, -2, 203}
Fleet(d, kind) == [x \in DcIds |-> IF x = d THEN DcStatus[kind] ELSE DcStatus.well]
DcStatusData ==
    {Fleet(d, kind) : d \in DcIds, kind \in DOMAIN DcStatus}
    \cup {[x \in DcIds |-> DcStatus.dead], [x \in {2, 203} |-> DcStatus.well], [x \in {2, -2} |-> DcStatus.well],
          [x \in {} |-> DcStatus.well]}

Closable == {"null", "feature_disabled", "data"}
MinimalGate == Closable \cup {"source_unavailable", "capability_absent"}
EdgeGate == Closable \cup {"nodata"}

StatsFields ==
    [conn |-> EdgeGate,
     split |-> {"me", "direct"},
     ready |-> {"null", "ready", "admission_closed", "no_healthy_upstreams"},
     health |-> {"null", "ok", "bad", "read_only"},
     refused |-> 0..1]

RuntimeGatesValues == RouteGates
RuntimeInitialization == {"null", "ready", "starting"}
RuntimeMePoolState == {"well", "draining", "degraded"}
RuntimeMeQuality == {"well", "short", "family"}
\* Probing on or off, off for this process, failing; age of the reflection.
RuntimeNatStun ==
    [on : {TRUE}, off : BOOLEAN, failing : BOOLEAN, age : {"none", "fresh", "old"}]
    \cup {[on |-> FALSE, off |-> FALSE, failing |-> FALSE, age |-> "none"]}
\* The event ring, oldest first: the type of each record.
RuntimeEdgeEvents ==
    {<<>>, <<"admission">>, <<"reload", "admission">>, <<"admission", "reload", "admission">>,
     <<"reload", "reload", "failed">>, <<"failed", "reload", "reload", "admission", "admission">>}
\* The second endpoint that reports the upstreams: its own rows, id 3 only there.
RuntimeUpstreamQualityData ==
    {[x \in {1, 2} |-> TRUE], [x \in {1, 2} |-> x # 1], [x \in {1, 2, 3} |-> x # 3]}

\* The settings in force and the self-test: shown or not, their figures left out.
RuntimeMinimalAll == Closable
RuntimeMeSelftest == Closable

RuntimeFields ==
    [gates |-> RuntimeGatesValues, init |-> RuntimeInitialization,
     poolw |-> MinimalGate \cup {"nodata"}, pool |-> RuntimeMePoolState,
     qualw |-> Closable, qual |-> RuntimeMeQuality,
     natw |-> EdgeGate \cup {"source_unavailable"}, nat |-> RuntimeNatStun,
     evw |-> EdgeGate, log |-> RuntimeEdgeEvents,
     minw |-> RuntimeMinimalAll, selfw |-> RuntimeMeSelftest,
     upqw |-> Closable, upq |-> RuntimeUpstreamQualityData]

UpstreamIds == {1, 2}
UpstreamsData == [UpstreamIds -> BOOLEAN] \cup {[x \in {} |-> TRUE]}
MeWriterStatus == [degraded : BOOLEAN, draining : BOOLEAN]
Writers(a, b) == <<a, b>>
CalmWriter == [degraded |-> FALSE, draining |-> FALSE]
MeWritersData == {<<>>} \cup {Writers(CalmWriter, w) : w \in MeWriterStatus}

UpstreamsFields ==
    [upw |-> MinimalGate, ups |-> UpstreamsData,
     dcw |-> MinimalGate, fleet |-> DcStatusData,
     mew |-> MinimalGate, writers |-> MeWritersData]

SecurityPosture == [known : {TRUE}, whitelist : BOOLEAN, auth : BOOLEAN, readonly : BOOLEAN]
NoPosture == [known |-> FALSE, whitelist |-> FALSE, auth |-> FALSE, readonly |-> FALSE]
SecurityWhitelist == {"null", "on", "off"}
SecurityFields == [posture |-> SecurityPosture \cup {NoPosture}, whitelist |-> SecurityWhitelist,
                   limits |-> {"null", "data"}]

WebLifecycles == {"starting", "running", "draining", "deadline_exceeded", "disabled"}
WebFields == [webw |-> MinimalGate \cup {"nodata", "starting"}, life |-> WebLifecycles]

(***************************************************************************)
(* A client by what an operator may have to do about it: enabled, in the    *)
(* running configuration, days to its expiry (99 for none), the quota and   *)
(* the connection limit used, in per cent (0 without a quota entry).        *)
(***************************************************************************)
UsersTopicUser ==
    [well        |-> [on |-> TRUE, running |-> TRUE, days |-> 99, quota |-> 10, conns |-> 10],
     near_quota  |-> [on |-> TRUE, running |-> TRUE, days |-> 99, quota |-> 85, conns |-> 10],
     over_quota  |-> [on |-> TRUE, running |-> TRUE, days |-> 99, quota |-> 100, conns |-> 10],
     near_conns  |-> [on |-> TRUE, running |-> TRUE, days |-> 99, quota |-> 0, conns |-> 90],
     expires_3d  |-> [on |-> TRUE, running |-> TRUE, days |-> 3, quota |-> 0, conns |-> 10],
     expires_7d  |-> [on |-> TRUE, running |-> TRUE, days |-> 7, quota |-> 79, conns |-> 10],
     expired     |-> [on |-> TRUE, running |-> TRUE, days |-> 0, quota |-> 0, conns |-> 0],
     not_running |-> [on |-> TRUE, running |-> FALSE, days |-> 99, quota |-> 0, conns |-> 0],
     lapsing     |-> [on |-> TRUE, running |-> TRUE, days |-> 2, quota |-> 0, conns |-> 100],
     off_expired |-> [on |-> FALSE, running |-> FALSE, days |-> 0, quota |-> 0, conns |-> 0],
     off_quota   |-> [on |-> FALSE, running |-> FALSE, days |-> 99, quota |-> 100, conns |-> 0]]
\* The clients in the order of their names, and what a frame may say of them: all
\* alike but for the first or the last.
Clients == 1..MaxClients
Crowds ==
    {f \in [Clients -> DOMAIN UsersTopicUser] :
        \E c \in {1, MaxClients} : \E rest \in {"well", "near_quota", "near_conns"} :
            \A d \in Clients \ {c} : f[d] = rest}
UsersFields == [clients |-> Crowds]

FieldsOf(t) ==
    CASE t = "stats" -> StatsFields
      [] t = "runtime" -> RuntimeFields
      [] t = "upstreams" -> UpstreamsFields
      [] t = "security" -> SecurityFields
      [] t = "web" -> WebFields
      [] t = "users" -> UsersFields

\* A proxy with nothing to report.
AllWell ==
    [conn |-> "data", split |-> "me", ready |-> "ready", health |-> "ok", refused |-> 0,
     gates |-> [mode |-> "middle", use |-> TRUE, reroute |-> FALSE], init |-> "ready",
     poolw |-> "data", pool |-> "well", qualw |-> "data", qual |-> "well",
     natw |-> "data", nat |-> [on |-> TRUE, off |-> FALSE, failing |-> FALSE, age |-> "fresh"],
     evw |-> "data", log |-> <<"reload", "admission">>, minw |-> "data", selfw |-> "data",
     upqw |-> "data", upq |-> [x \in {1, 2} |-> TRUE],
     upw |-> "data", ups |-> [x \in UpstreamIds |-> TRUE],
     dcw |-> "data", fleet |-> [x \in DcIds |-> DcStatus.well],
     mew |-> "data", writers |-> Writers(CalmWriter, CalmWriter),
     posture |-> [known |-> TRUE, whitelist |-> TRUE, auth |-> TRUE, readonly |-> FALSE],
     whitelist |-> "on", limits |-> "data",
     webw |-> "data", life |-> "running",
     clients |-> [c \in Clients |-> "well"]]

\* What the screens read before any frame: every part of every payload absent.
NothingYet ==
    [f \in DOMAIN AllWell |->
        CASE f \in {"conn", "ready", "health", "init", "poolw", "qualw", "natw", "evw", "minw", "selfw", "upqw",
                    "upw", "dcw", "mew", "whitelist", "limits", "webw"} -> "null"
          [] f = "gates" -> NoGates
          [] f = "posture" -> NoPosture
          [] OTHER -> AllWell[f]]

Snap(t) == pulse.snap[t]
Have(t) == TopicArrived(pulse.snap[t])
P == pulse.p

(***************************************************************************)
(* The ring of statistics snapshots of realtime/topicWindow.ts, reduced to  *)
(* the counter it is read for: the oldest reading still in the window, and  *)
(* whether a second one has landed.                                         *)
(***************************************************************************)
EmptyWindow == [size |-> 0, oldest |-> 0]
PushWindowEntry(w, v) ==
    IF w.size = 0 THEN [size |-> 1, oldest |-> v] ELSE [size |-> 2, oldest |-> w.oldest]
WindowKnown(w) == w.size > 1

\* A frame of topic t: one field differs from the frame before it, or from a
\* proxy with nothing to report when it is the first.
PulseFrame(t) ==
    /\ pulseLeft > 0
    /\ \E f \in DOMAIN FieldsOf(t) : \E v \in FieldsOf(t)[f] :
          pulse' = [pulse EXCEPT !.snap[t] = AfterFrame(@),
                      !.p = [g \in DOMAIN @ |-> IF g = f THEN v
                                                ELSE IF g \in DOMAIN FieldsOf(t) /\ ~TopicArrived(pulse.snap[t])
                                                THEN AllWell[g] ELSE @[g]],
                      !.win = IF t # "stats" THEN @
                              ELSE PushWindowEntry(@, IF f = "refused" THEN v ELSE pulse.p.refused)]
    /\ pulseLeft' = pulseLeft - 1
    /\ UNCHANGED pulseUi

\* The hub reports that its poll of topic t failed.
PulseError(t) ==
    /\ pulseLeft > 0
    /\ pulse' = [pulse EXCEPT !.snap[t] = AfterSourceError(@)]
    /\ pulseLeft' = pulseLeft - 1
    /\ UNCHANGED pulseUi

(***************************************************************************)
(* The two diagnostics that are requests and not topics: the counters of    *)
(* GET /api/telemt/zero, and the TLS fingerprints, whose rows are kept to   *)
(* whether the handshakes seen were clean or looked like a probe.           *)
(***************************************************************************)
PulseQueries == {"zero", "tls"}
TlsFingerprints == {<<"clean">>, <<"clean", "probe">>, <<"probe", "probe", "clean">>}
QueryAnswers(n) ==
    /\ pulseLeft > 0
    /\ \E q \in QueryOutcomes \ {"pending"} : \E rows \in TlsFingerprints :
          /\ (n # "tls" \/ q # "ok") => rows = pulse.tls
          /\ n = "tls" => q # "empty"        \* its payload has figures of its own
          /\ pulse' = [pulse EXCEPT !.query[n] = q, !.held[n] = @ \/ q \in {"ok", "empty"}, !.tls = rows]
    /\ pulseLeft' = pulseLeft - 1
    /\ UNCHANGED pulseUi

\* The two series behind connection quality, in per cent; 0 while unknown.
QualityMoves ==
    /\ pulseLeft > 0
    /\ \E q \in {0, 85, 95, 99} : pulse' = [pulse EXCEPT !.quality = q]
    /\ pulseLeft' = pulseLeft - 1
    /\ UNCHANGED pulseUi

PulseStart(s) ==
    [snap |-> [t \in PulseTopics |-> s], p |-> IF s = "live" THEN AllWell ELSE NothingYet,
     query |-> [n \in PulseQueries |-> IF s = "live" THEN "ok" ELSE "pending"],
     held |-> [n \in PulseQueries |-> s = "live"], tls |-> <<"clean">>,
     quality |-> IF s = "live" THEN 99 ELSE 0, win |-> EmptyWindow]
=============================================================================
