---------------------------- MODULE PulseProofs ----------------------------
(***************************************************************************)
(* The diagnostics and server pages for every number of frames, failed     *)
(* polls, answers and clicks: what the realtime store holds of each topic,  *)
(* what a resolved source may claim, and from these, page by page, that     *)
(* green means current, that the pages tell the same of the same data and   *)
(* that lists of the same records agree.                                    *)
(***************************************************************************)
EXTENDS ServerPages, SequenceTheorems, FiniteSetTheorems, WellFoundedInduction, TLAPS

(***************************************************************************)
(* The topics: a field of a payload has a value its topic can send, and     *)
(* nothing of a topic is known before its first frame.                      *)
(***************************************************************************)
FieldsTyped(p) ==
    \A t \in PulseTopics : \A f \in DOMAIN FieldsOf(t) : p[f] \in FieldsOf(t)[f]

\* What has not arrived reads as absent.
FieldsAbsent(snap, p) ==
    \A t \in PulseTopics : ~TopicArrived(snap[t]) =>
        \A f \in DOMAIN FieldsOf(t) : p[f] = NothingYet[f]

\* The inductive invariant of what the diagnostics read.
PulseInv ==
    /\ DOMAIN pulse = {"snap", "p", "query", "held", "tls", "quality", "win"}
    /\ pulse.snap \in [PulseTopics -> TopicStates]
    /\ DOMAIN pulse.p = DOMAIN AllWell
    /\ FieldsTyped(pulse.p)
    /\ FieldsAbsent(pulse.snap, pulse.p)
    /\ pulse.query \in [PulseQueries -> QueryOutcomes]

\* The fields of each topic.
LEMMA TopicFields ==
    /\ DOMAIN FieldsOf("stats") = {"conn", "split", "ready", "health", "refused"}
    /\ DOMAIN FieldsOf("runtime") =
         {"gates", "init", "poolw", "pool", "qualw", "qual", "natw", "nat", "evw", "log",
          "minw", "selfw", "upqw", "upq"}
    /\ DOMAIN FieldsOf("upstreams") = {"upw", "ups", "dcw", "fleet", "mew", "writers"}
    /\ DOMAIN FieldsOf("security") = {"posture", "whitelist", "limits"}
    /\ DOMAIN FieldsOf("web") = {"webw", "life"}
    /\ DOMAIN FieldsOf("users") = {"clients"}
  BY DEF FieldsOf, StatsFields, RuntimeFields, UpstreamsFields, SecurityFields, WebFields,
         UsersFields

\* A field belongs to one topic.
LEMMA FieldsApart ==
    ASSUME NEW t \in PulseTopics, NEW u \in PulseTopics,
           NEW f, f \in DOMAIN FieldsOf(t), f \in DOMAIN FieldsOf(u)
    PROVE  t = u
  BY TopicFields DEF PulseTopics

\* The fields of all topics are those of a payload.
LEMMA PayloadFields ==
    ASSUME NEW t \in PulseTopics, NEW f, f \in DOMAIN FieldsOf(t)
    PROVE  f \in DOMAIN AllWell
<1>1. DOMAIN AllWell =
        {"conn", "split", "ready", "health", "refused", "gates", "init", "poolw", "pool",
         "qualw", "qual", "natw", "nat", "evw", "log", "minw", "selfw", "upqw", "upq", "upw",
         "ups", "dcw", "fleet", "mew", "writers", "posture", "whitelist", "limits", "webw",
         "life", "clients"}
  BY DEF AllWell
<1>2. /\ DOMAIN FieldsOf("stats") \subseteq DOMAIN AllWell
      /\ DOMAIN FieldsOf("upstreams") \subseteq DOMAIN AllWell
      /\ DOMAIN FieldsOf("security") \subseteq DOMAIN AllWell
      /\ DOMAIN FieldsOf("web") \subseteq DOMAIN AllWell
      /\ DOMAIN FieldsOf("users") \subseteq DOMAIN AllWell
  BY <1>1, TopicFields
<1>3. DOMAIN FieldsOf("runtime") \subseteq DOMAIN AllWell
  BY <1>1, TopicFields
<1> QED
  BY <1>2, <1>3 DEF PulseTopics

\* A proxy with nothing to report sends values of the fields.
LEMMA WellIsSent == FieldsTyped(AllWell)
<1>1. \A f \in DOMAIN FieldsOf("stats") : AllWell[f] \in FieldsOf("stats")[f]
  BY TopicFields DEF AllWell, FieldsOf, StatsFields, EdgeGate, Closable
<1>2. \A f \in DOMAIN FieldsOf("security") : AllWell[f] \in FieldsOf("security")[f]
  <2>1. AllWell.posture \in SecurityPosture
    BY DEF AllWell, SecurityPosture
  <2>2. /\ FieldsOf("security")["posture"] = SecurityPosture \cup {NoPosture}
        /\ FieldsOf("security")["whitelist"] = {"null", "on", "off"}
        /\ FieldsOf("security")["limits"] = {"null", "data"}
    BY DEF FieldsOf, SecurityFields, SecurityWhitelist
  <2>3. AllWell.whitelist = "on" /\ AllWell.limits = "data"
    BY DEF AllWell
  <2> QED
    BY <2>1, <2>2, <2>3, TopicFields
<1>3. \A f \in DOMAIN FieldsOf("web") : AllWell[f] \in FieldsOf("web")[f]
  BY TopicFields DEF AllWell, FieldsOf, WebFields, MinimalGate, Closable, WebLifecycles
<1>4. \A f \in DOMAIN FieldsOf("users") : AllWell[f] \in FieldsOf("users")[f]
  <2>1. AllWell.clients \in Crowds
    <3>1. AllWell.clients = [c \in Clients |-> "well"]
      BY DEF AllWell
    <3>2. 1 \in Clients /\ "well" \in DOMAIN UsersTopicUser
      BY PulseAssumption DEF Clients, UsersTopicUser
    <3>3. \A d \in Clients \ {1} : AllWell.clients[d] = "well"
      BY <3>1
    <3> QED
      BY <3>1, <3>2, <3>3 DEF Crowds
  <2>2. FieldsOf("users")["clients"] = Crowds
    BY DEF FieldsOf, UsersFields
  <2> QED
    BY <2>1, <2>2, TopicFields
<1>5. \A f \in DOMAIN FieldsOf("upstreams") : AllWell[f] \in FieldsOf("upstreams")[f]
  <2>1. AllWell.fleet \in DcStatusData
    <3>1. AllWell.fleet = Fleet(2, "well")
      BY DEF AllWell, Fleet
    <3>2. 2 \in DcIds /\ "well" \in DOMAIN DcStatus
      BY DEF DcIds, DcStatus
    <3> QED
      BY <3>1, <3>2 DEF DcStatusData
  <2>2. AllWell.ups \in UpstreamsData
    BY DEF AllWell, UpstreamsData
  <2>3. AllWell.writers \in MeWritersData
    BY DEF AllWell, MeWritersData, MeWriterStatus, CalmWriter
  <2>4. \A f \in {"upw", "dcw", "mew"} : AllWell[f] \in FieldsOf("upstreams")[f]
    BY DEF AllWell, FieldsOf, UpstreamsFields, MinimalGate, Closable
  <2>5. /\ FieldsOf("upstreams")["fleet"] = DcStatusData
        /\ FieldsOf("upstreams")["ups"] = UpstreamsData
        /\ FieldsOf("upstreams")["writers"] = MeWritersData
    BY DEF FieldsOf, UpstreamsFields
  <2> QED
    BY <2>1, <2>2, <2>3, <2>4, <2>5, TopicFields
<1>6. \A f \in DOMAIN FieldsOf("runtime") : AllWell[f] \in FieldsOf("runtime")[f]
  <2>1. AllWell.gates \in RouteGates
    BY DEF AllWell, RouteGates
  <2>2. AllWell.nat \in RuntimeNatStun
    BY DEF AllWell, RuntimeNatStun
  <2>3. AllWell.log \in RuntimeEdgeEvents
    BY DEF AllWell, RuntimeEdgeEvents
  <2>4. AllWell.upq \in RuntimeUpstreamQualityData
    BY DEF AllWell, RuntimeUpstreamQualityData
  <2>5. \A f \in {"init", "poolw", "pool", "qualw", "qual", "natw", "evw", "minw", "selfw",
                  "upqw"} : AllWell[f] \in FieldsOf("runtime")[f]
    BY DEF AllWell, FieldsOf, RuntimeFields, MinimalGate, Closable, EdgeGate,
           RuntimeInitialization, RuntimeMePoolState, RuntimeMeQuality, RuntimeMinimalAll,
           RuntimeMeSelftest
  <2>6. /\ FieldsOf("runtime")["gates"] = RouteGates
        /\ FieldsOf("runtime")["nat"] = RuntimeNatStun
        /\ FieldsOf("runtime")["log"] = RuntimeEdgeEvents
        /\ FieldsOf("runtime")["upq"] = RuntimeUpstreamQualityData
    BY DEF FieldsOf, RuntimeFields, RuntimeGatesValues
  <2> QED
    BY <2>1, <2>2, <2>3, <2>4, <2>5, <2>6, TopicFields
<1> QED
  BY <1>1, <1>2, <1>3, <1>4, <1>5, <1>6 DEF FieldsTyped, PulseTopics

\* So does one that has said nothing: an absent part is one of the values.
LEMMA AbsentIsSent == FieldsTyped(NothingYet)
<1>1. ASSUME NEW t \in PulseTopics, NEW f \in DOMAIN FieldsOf(t)
      PROVE  NothingYet[f] \in FieldsOf(t)[f]
  <2>0. f \in DOMAIN AllWell
    BY PayloadFields
  <2>1. CASE f \in {"conn", "ready", "health", "init", "poolw", "qualw", "natw", "evw", "minw",
                    "selfw", "upqw", "upw", "dcw", "mew", "whitelist", "limits", "webw"}
    <3>1. NothingYet[f] = "null"
      BY <2>0, <2>1 DEF NothingYet
    <3>2. "null" \in FieldsOf(t)[f]
      BY <2>1, TopicFields DEF PulseTopics, FieldsOf, StatsFields, RuntimeFields,
         UpstreamsFields, SecurityFields, WebFields, EdgeGate, MinimalGate, Closable,
         RuntimeInitialization, RuntimeMinimalAll, RuntimeMeSelftest, SecurityWhitelist
    <3> QED
      BY <3>1, <3>2
  <2>2. CASE f = "gates"
    <3>1. NothingYet[f] = NoGates /\ t = "runtime"
      BY <2>0, <2>2, TopicFields DEF NothingYet, PulseTopics
    <3> QED
      BY <2>2, <3>1 DEF FieldsOf, RuntimeFields, RuntimeGatesValues, RouteGates
  <2>3. CASE f = "posture"
    <3>1. NothingYet[f] = NoPosture /\ t = "security"
      BY <2>0, <2>3, TopicFields DEF NothingYet, PulseTopics
    <3> QED
      BY <2>3, <3>1 DEF FieldsOf, SecurityFields
  <2>4. CASE f \notin {"conn", "ready", "health", "init", "poolw", "qualw", "natw", "evw",
                       "minw", "selfw", "upqw", "upw", "dcw", "mew", "whitelist", "limits",
                       "webw", "gates", "posture"}
    <3>1. NothingYet[f] = AllWell[f]
      BY <2>0, <2>4 DEF NothingYet
    <3> QED
      BY <3>1, WellIsSent DEF FieldsTyped
  <2> QED
    BY <2>1, <2>2, <2>3, <2>4
<1> QED
  BY <1>1 DEF FieldsTyped

\* A frame of topic t: the field that differs, and the others of the topic.
Received(p, t, f, v, arrived) ==
    [g \in DOMAIN p |-> IF g = f THEN v
                        ELSE IF g \in DOMAIN FieldsOf(t) /\ ~arrived
                        THEN AllWell[g] ELSE p[g]]

\* A frame keeps every field to its topic's values, and the other topics' fields.
LEMMA FrameReceived ==
    ASSUME NEW p, DOMAIN p = DOMAIN AllWell, FieldsTyped(p), NEW t \in PulseTopics,
           NEW f \in DOMAIN FieldsOf(t), NEW v \in FieldsOf(t)[f], NEW arrived,
           NEW q, q = Received(p, t, f, v, arrived)
    PROVE  /\ DOMAIN q = DOMAIN AllWell /\ FieldsTyped(q)
           /\ \A u \in PulseTopics : u # t => \A g \in DOMAIN FieldsOf(u) : q[g] = p[g]
<1>1. DOMAIN q = DOMAIN AllWell
  BY DEF Received
<1>2. ASSUME NEW u \in PulseTopics, NEW g \in DOMAIN FieldsOf(u)
      PROVE  q[g] \in FieldsOf(u)[g] /\ (u # t => q[g] = p[g])
  <2>1. g \in DOMAIN p
    BY PayloadFields
  <2>2. p[g] \in FieldsOf(u)[g] /\ AllWell[g] \in FieldsOf(u)[g]
    BY WellIsSent DEF FieldsTyped
  <2>3. q[g] = IF g = f THEN v
               ELSE IF g \in DOMAIN FieldsOf(t) /\ ~arrived THEN AllWell[g] ELSE p[g]
    BY <2>1 DEF Received
  <2>4. CASE u = t
    BY <2>2, <2>3, <2>4
  <2>5. CASE u # t
    <3>1. g \notin DOMAIN FieldsOf(t)
      BY <2>5, FieldsApart
    <3> QED
      BY <2>2, <2>3, <2>5, <3>1
  <2> QED
    BY <2>4, <2>5
<1> QED
  BY <1>1, <1>2 DEF FieldsTyped

\* The pages start with everything absent or everything current.
LEMMA PulseStarts == PulseInit => PulseInv
<1> SUFFICES ASSUME NEW s \in {"none", "live"}, pulse = PulseStart(s)
             PROVE  PulseInv
  BY DEF PulseInit
<1>1. /\ DOMAIN pulse = {"snap", "p", "query", "held", "tls", "quality", "win"}
      /\ pulse.snap = [t \in PulseTopics |-> s]
      /\ pulse.p = IF s = "live" THEN AllWell ELSE NothingYet
      /\ pulse.query = [n \in PulseQueries |-> IF s = "live" THEN "ok" ELSE "pending"]
  BY DEF PulseStart
<1>2. DOMAIN pulse.p = DOMAIN AllWell /\ FieldsTyped(pulse.p)
  BY <1>1, WellIsSent, AbsentIsSent DEF NothingYet
<1>3. FieldsAbsent(pulse.snap, pulse.p)
  BY <1>1 DEF FieldsAbsent, TopicArrived
<1>4. pulse.snap \in [PulseTopics -> TopicStates] /\ pulse.query \in [PulseQueries -> QueryOutcomes]
  BY <1>1 DEF TopicStates, QueryOutcomes
<1> QED
  BY <1>1, <1>2, <1>3, <1>4 DEF PulseInv

\* Frames, errors, answers and clicks, in any order.
LEMMA PulseSteps == PulseInv /\ PulseNext => PulseInv'
<1> SUFFICES ASSUME PulseInv, PulseNext PROVE PulseInv'
  OBVIOUS
<1>0. /\ DOMAIN pulse = {"snap", "p", "query", "held", "tls", "quality", "win"}
      /\ pulse.snap \in [PulseTopics -> TopicStates]
      /\ DOMAIN pulse.p = DOMAIN AllWell /\ FieldsTyped(pulse.p)
      /\ FieldsAbsent(pulse.snap, pulse.p)
      /\ pulse.query \in [PulseQueries -> QueryOutcomes]
  BY DEF PulseInv
<1>1. ASSUME NEW t \in PulseTopics, PulseFrame(t) PROVE PulseInv'
  <2>0. PICK f \in DOMAIN FieldsOf(t) : \E v \in FieldsOf(t)[f] :
          pulse' = [pulse EXCEPT !.snap[t] = AfterFrame(@),
                      !.p = [g \in DOMAIN @ |-> IF g = f THEN v
                                                ELSE IF g \in DOMAIN FieldsOf(t) /\ ~TopicArrived(pulse.snap[t])
                                                THEN AllWell[g] ELSE @[g]],
                      !.win = IF t # "stats" THEN @
                              ELSE PushWindowEntry(@, IF f = "refused" THEN v ELSE pulse.p.refused)]
    BY <1>1 DEF PulseFrame
  <2>1. PICK v \in FieldsOf(t)[f] :
          pulse' = [pulse EXCEPT !.snap[t] = AfterFrame(@),
                      !.p = [g \in DOMAIN @ |-> IF g = f THEN v
                                                ELSE IF g \in DOMAIN FieldsOf(t) /\ ~TopicArrived(pulse.snap[t])
                                                THEN AllWell[g] ELSE @[g]],
                      !.win = IF t # "stats" THEN @
                              ELSE PushWindowEntry(@, IF f = "refused" THEN v ELSE pulse.p.refused)]
    BY <2>0
  <2> DEFINE q == Received(pulse.p, t, f, v, TopicArrived(pulse.snap[t]))
  <2>2. /\ DOMAIN pulse' = DOMAIN pulse /\ pulse'.query = pulse.query
        /\ pulse'.snap = [pulse.snap EXCEPT ![t] = "live"]
        /\ pulse'.p = q
    BY <1>0, <2>1 DEF AfterFrame, Received
  <2>3. /\ DOMAIN q = DOMAIN AllWell /\ FieldsTyped(q)
        /\ \A u \in PulseTopics : u # t => \A g \in DOMAIN FieldsOf(u) : q[g] = pulse.p[g]
    BY <1>0, FrameReceived
  <2> HIDE DEF q
  <2>4. FieldsAbsent(pulse'.snap, pulse'.p)
    <3>1. SUFFICES ASSUME NEW u \in PulseTopics, ~TopicArrived(pulse'.snap[u]),
                          NEW g \in DOMAIN FieldsOf(u)
                   PROVE  q[g] = NothingYet[g]
      BY <2>2 DEF FieldsAbsent
    <3>2. u # t /\ pulse'.snap[u] = pulse.snap[u]
      BY <1>0, <2>2, <3>1 DEF TopicArrived
    <3> QED
      BY <1>0, <2>3, <3>1, <3>2 DEF FieldsAbsent
  <2>5. pulse'.snap \in [PulseTopics -> TopicStates]
    BY <1>0, <2>2 DEF TopicStates
  <2> QED
    BY <1>0, <2>2, <2>3, <2>4, <2>5 DEF PulseInv
<1>2. ASSUME NEW t \in PulseTopics, PulseError(t) PROVE PulseInv'
  <2>1. pulse' = [pulse EXCEPT !.snap[t] = AfterSourceError(@)]
    BY <1>2 DEF PulseError
  <2>2. /\ DOMAIN pulse' = DOMAIN pulse /\ pulse'.query = pulse.query /\ pulse'.p = pulse.p
        /\ pulse'.snap = [pulse.snap EXCEPT ![t] = AfterSourceError(pulse.snap[t])]
    BY <1>0, <2>1
  <2>3. pulse'.snap \in [PulseTopics -> TopicStates]
    BY <1>0, <2>2 DEF TopicStates, AfterSourceError
  <2>4. \A u \in PulseTopics : TopicArrived(pulse.snap[u]) => TopicArrived(pulse'.snap[u])
    BY <1>0, <2>2 DEF TopicArrived, AfterSourceError
  <2> QED
    BY <1>0, <2>2, <2>3, <2>4 DEF PulseInv, FieldsAbsent
<1>3. ASSUME NEW n \in PulseQueries, QueryAnswers(n) PROVE PulseInv'
  <2>1. PICK q \in QueryOutcomes \ {"pending"}, rows \in TlsFingerprints :
          pulse' = [pulse EXCEPT !.query[n] = q, !.held[n] = @ \/ q \in {"ok", "empty"}, !.tls = rows]
    BY <1>3 DEF QueryAnswers
  <2>2. /\ DOMAIN pulse' = DOMAIN pulse /\ pulse'.p = pulse.p /\ pulse'.snap = pulse.snap
        /\ pulse'.query = [pulse.query EXCEPT ![n] = q]
    BY <1>0, <2>1
  <2> QED
    BY <1>0, <2>2 DEF PulseInv
<1>4. CASE QualityMoves
  <2>1. PICK q \in {0, 85, 95, 99} : pulse' = [pulse EXCEPT !.quality = q]
    BY <1>4 DEF QualityMoves
  <2>2. /\ DOMAIN pulse' = DOMAIN pulse /\ pulse'.p = pulse.p /\ pulse'.snap = pulse.snap
        /\ pulse'.query = pulse.query
    BY <1>0, <2>1
  <2> QED
    BY <1>0, <2>2 DEF PulseInv
<1>5. CASE UNCHANGED pulse
  BY <1>5 DEF PulseInv
<1>6. ASSUME SelectPair \/ SelectRoute \/ ToggleUnhealthy \/ SelectTab \/ FilterWriters
             \/ FilterEvents \/ ShowMoreEvents \/ FilterTls \/ ReviewTls \/ ShowMoreTls
      PROVE  UNCHANGED pulse
  BY <1>6 DEF SelectPair, SelectRoute, ToggleUnhealthy, SelectTab, FilterWriters,
     FilterEvents, ShowMoreEvents, FilterTls, ReviewTls, ShowMoreTls, PulseClick
<1> QED
  BY <1>1, <1>2, <1>3, <1>4, <1>5, <1>6 DEF PulseNext

\* What a resolved source may be.
Statuses == {"loading", "ready", "stale", "disabled", "unsupported", "error", "empty"}

\* What sourceState.ts makes of a topic: "ready" is current data, "stale" is data
\* kept after an error.
LEMMA TopicResolved ==
    ASSUME NEW st \in TopicStates, NEW w, NEW empty \in BOOLEAN,
           NEW s, s = ResolveTopicSource(st, w, empty)
    PROVE  /\ s.status \in Statuses /\ s.hasData \in BOOLEAN
           /\ DOMAIN s = {"status", "reason", "hasData"}
           /\ s.status = "ready" <=> st = "live" /\ s.hasData
           /\ s.status = "stale" <=> st = "late" /\ s.hasData
           /\ s.hasData <=> s.status \in {"ready", "stale"}
           /\ s.status = "error" => st = "failed"
           /\ s.status = "loading" => st = "none"
           /\ w = "undeclared" /\ ~empty =>
                s.status = CASE st = "none" -> "loading" [] st = "failed" -> "error"
                             [] st = "live" -> "ready" [] st = "late" -> "stale"
           /\ w = "null" => s.status \in {"disabled", "loading", "error"}
           /\ w = "data" /\ ~empty =>
                s.status = CASE st = "none" -> "loading" [] st = "failed" -> "error"
                             [] st = "live" -> "ready" [] st = "late" -> "stale"
           /\ w \in ClosedReasons => s.status = GatedStatus(w) /\ s.reason = w
           /\ s.status = "empty" => w = "nodata" \/ (empty /\ TopicArrived(st))
<1> USE DEF ResolveTopicSource, State, AbsentGateState, TopicStates, TopicArrived, TopicTroubled,
            GatedStatus, Wrappers, ClosedReasons, UNSUPPORTED_REASONS, Statuses
<1>1. CASE w = "null"
  BY <1>1
<1>2. CASE w \in ClosedReasons
  BY <1>2
<1>3. CASE w = "nodata"
  BY <1>3
<1>4. CASE w \notin ClosedReasons \cup {"null", "nodata"}
  <2>1. s = IF ~TopicArrived(st)
            THEN State(IF st = "failed" THEN "error" ELSE "loading", "none", FALSE)
            ELSE IF TopicTroubled(st) THEN State("stale", "none", TRUE)
            ELSE IF empty THEN State("empty", "none", FALSE)
            ELSE State("ready", "none", TRUE)
    BY <1>4
  <2> QED
    BY <1>4, <2>1
<1> QED
  BY <1>1, <1>2, <1>3, <1>4

\* The same for a request.
LEMMA QueryResolved ==
    ASSUME NEW q \in QueryOutcomes, NEW cached \in BOOLEAN, NEW s, s = ResolveQuerySource(q, cached)
    PROVE  /\ s.status \in Statuses /\ s.hasData \in BOOLEAN
           /\ s.status = "ready" <=> q = "ok"
           /\ s.status = "empty" <=> q = "empty"
           /\ s.hasData <=> s.status \in {"ready", "stale"}
  BY DEF ResolveQuerySource, State, QueryOutcomes, Statuses

\* The elements of short sequences.
LEMMA ElementsOf ==
    /\ ToSet(<<>>) = {}
    /\ \A a : ToSet(<<a>>) = {a}
    /\ \A a, b : ToSet(<<a, b>>) = {a, b}
    /\ \A a, b, c : ToSet(<<a, b, c>>) = {a, b, c}
<1>1. ToSet(<<>>) = {}
  BY DEF ToSet
<1>2. \A a : ToSet(<<a>>) = {a}
  BY DEF ToSet
<1>3. ASSUME NEW a, NEW b PROVE ToSet(<<a, b>>) = {a, b}
  <2>1. DOMAIN <<a, b>> = {1, 2}
    OBVIOUS
  <2> QED
    BY <2>1 DEF ToSet
<1>4. ASSUME NEW a, NEW b, NEW c PROVE ToSet(<<a, b, c>>) = {a, b, c}
  <2>1. DOMAIN <<a, b, c>> = {1, 2, 3}
    OBVIOUS
  <2> QED
    BY <2>1 DEF ToSet
<1> QED
  BY <1>1, <1>2, <1>3, <1>4

\* A page with one required source is "ready" only while none of its sources is
\* stale, late or missing, and that source has arrived.
LEMMA AggregateReady ==
    ASSUME NEW a, NEW opt, AggregateSources(<<a>>, opt) = "ready",
           \A s \in {a} \cup ToSet(opt) : s.status \in Statuses /\ (s.hasData <=> s.status \in {"ready", "stale"})
    PROVE  /\ a.status \in {"ready", "empty"}
           /\ a.status = "ready" => \A s \in ToSet(opt) : s.status \in {"ready", "empty"}
           /\ \A s \in ToSet(opt) : s.status # "stale"
           /\ \E s \in {a} \cup ToSet(opt) : s.status # "empty"
<1> DEFINE all == {a} \cup ToSet(opt)
           blocked == {i \in DOMAIN <<a>> : <<a>>[i].status \in {"error", "disabled", "unsupported"}}
           has == \E s \in all : s.hasData
<1>1. DOMAIN <<a>> = {1} /\ <<a>>[1] = a /\ ToSet(<<a>>) = {a}
  BY ElementsOf
<1>2. AggregateSources(<<a>>, opt) =
        (IF blocked # {} THEN <<a>>[Min(blocked)].status
         ELSE IF ~has /\ \E s \in {a} : s.status = "loading" THEN "loading"
         ELSE IF has /\ \E s \in all : s.status \notin READY_LIKE THEN "partial"
         ELSE IF \E s \in all : s.status = "stale" THEN "stale"
         ELSE IF \A s \in all : s.status = "empty" THEN "empty"
         ELSE IF \E s \in all : s.status = "loading" THEN "loading"
         ELSE "ready")
  BY <1>1 DEF AggregateSources
<1>3. ASSUME blocked # {} PROVE <<a>>[Min(blocked)].status # "ready"
  <2>1. blocked = {1} /\ a.status \in {"error", "disabled", "unsupported"}
    BY <1>1, <1>3
  <2>2. Min({1}) = 1
    BY DEF Min
  <2>3. Min(blocked) = 1
    BY <2>1, <2>2
  <2> QED
    BY <1>1, <2>1, <2>3
<1>4. a.status \notin {"error", "disabled", "unsupported"}
  BY <1>1, <1>2, <1>3
<1> HIDE DEF blocked
<1>5. /\ blocked = {}
      /\ ~(~has /\ a.status = "loading")
      /\ ~(has /\ \E s \in all : s.status \notin READY_LIKE)
      /\ ~(\E s \in all : s.status = "stale")
      /\ ~(\A s \in all : s.status = "empty")
      /\ ~(\E s \in all : s.status = "loading")
  BY <1>2, <1>3
<1>6. a.status \in {"ready", "empty"}
  BY <1>4, <1>5 DEF Statuses, READY_LIKE
<1>7. a.status = "ready" => has
  OBVIOUS
<1> QED
  BY <1>5, <1>6, <1>7 DEF READY_LIKE

\* A page with one optional source, or none.
LEMMA ReadyWithOne ==
    ASSUME NEW a, NEW b, AggregateSources(<<a>>, <<b>>) = "ready",
           a.status \in Statuses, a.hasData <=> a.status \in {"ready", "stale"},
           b.status \in Statuses, b.hasData <=> b.status \in {"ready", "stale"}
    PROVE  /\ a.status \in {"ready", "empty"}
           /\ a.status = "ready" => b.status \in {"ready", "empty"}
           /\ b.status # "stale"
<1> DEFINE opt == <<b>>
<1>1. ToSet(opt) = {b}
  BY ElementsOf
<1>2. AggregateSources(<<a>>, opt) = "ready"
  OBVIOUS
<1> HIDE DEF opt
<1>3. \A s \in {a} \cup ToSet(opt) :
         s.status \in Statuses /\ (s.hasData <=> s.status \in {"ready", "stale"})
  BY <1>1
<1>4. /\ a.status \in {"ready", "empty"}
      /\ a.status = "ready" => \A s \in ToSet(opt) : s.status \in {"ready", "empty"}
      /\ \A s \in ToSet(opt) : s.status # "stale"
  BY <1>2, <1>3, AggregateReady
<1> QED
  BY <1>1, <1>4

\* A page with no other source is "ready" with its source.
LEMMA ReadyAlone ==
    ASSUME NEW a, AggregateSources(<<a>>, <<>>) = "ready",
           a.status \in Statuses, a.hasData <=> a.status \in {"ready", "stale"}
    PROVE  a.status = "ready"
<1> DEFINE opt == <<>>
<1>1. ToSet(opt) = {}
  BY ElementsOf
<1>2. AggregateSources(<<a>>, opt) = "ready"
  OBVIOUS
<1> HIDE DEF opt
<1>3. \A s \in {a} \cup ToSet(opt) :
         s.status \in Statuses /\ (s.hasData <=> s.status \in {"ready", "stale"})
  BY <1>1
<1>4. /\ a.status \in {"ready", "empty"}
      /\ \E s \in {a} \cup ToSet(opt) : s.status # "empty"
  BY <1>2, <1>3, AggregateReady
<1> QED
  BY <1>1, <1>4

\* The invariant, field by field.
LEMMA Fields ==
    ASSUME PulseInv
    PROVE  /\ \A t \in PulseTopics : Snap(t) \in TopicStates
           /\ \A n \in PulseQueries : pulse.query[n] \in QueryOutcomes
           /\ P.conn \in EdgeGate /\ P.split \in {"me", "direct"}
           /\ P.ready \in {"null", "ready", "admission_closed", "no_healthy_upstreams"}
           /\ P.health \in {"null", "ok", "bad", "read_only"}
           /\ P.gates \in RouteGates /\ P.init \in RuntimeInitialization
           /\ P.poolw \in MinimalGate \cup {"nodata"} /\ P.pool \in RuntimeMePoolState
           /\ P.qualw \in Closable /\ P.qual \in RuntimeMeQuality
           /\ P.natw \in EdgeGate \cup {"source_unavailable"} /\ P.nat \in RuntimeNatStun
           /\ P.evw \in EdgeGate /\ P.log \in RuntimeEdgeEvents
           /\ P.minw \in Closable /\ P.selfw \in Closable
           /\ P.upqw \in Closable /\ P.upq \in RuntimeUpstreamQualityData
           /\ P.upw \in MinimalGate /\ P.ups \in UpstreamsData
           /\ P.dcw \in MinimalGate /\ P.fleet \in DcStatusData
           /\ P.mew \in MinimalGate /\ P.writers \in MeWritersData
           /\ P.posture \in SecurityPosture \cup {NoPosture}
           /\ P.whitelist \in SecurityWhitelist /\ P.limits \in {"null", "data"}
           /\ P.webw \in MinimalGate \cup {"nodata", "starting"} /\ P.life \in WebLifecycles
           /\ P.clients \in [Clients -> DOMAIN UsersTopicUser]
<1>0. \A t \in PulseTopics : \A f \in DOMAIN FieldsOf(t) : pulse.p[f] \in FieldsOf(t)[f]
  BY DEF PulseInv, FieldsTyped
<1>1. /\ \A t \in PulseTopics : Snap(t) \in TopicStates
      /\ \A n \in PulseQueries : pulse.query[n] \in QueryOutcomes
  BY DEF PulseInv, Snap
<1>2. /\ P.conn \in EdgeGate /\ P.split \in {"me", "direct"}
      /\ P.ready \in {"null", "ready", "admission_closed", "no_healthy_upstreams"}
      /\ P.health \in {"null", "ok", "bad", "read_only"}
  <2>1. \A f \in {"conn", "split", "ready", "health"} : pulse.p[f] \in FieldsOf("stats")[f]
    BY <1>0, TopicFields DEF PulseTopics
  <2> QED
    BY <2>1 DEF FieldsOf, StatsFields, P
<1>3. /\ P.gates \in RouteGates /\ P.init \in RuntimeInitialization
      /\ P.poolw \in MinimalGate \cup {"nodata"} /\ P.pool \in RuntimeMePoolState
      /\ P.qualw \in Closable /\ P.qual \in RuntimeMeQuality
      /\ P.natw \in EdgeGate \cup {"source_unavailable"} /\ P.nat \in RuntimeNatStun
      /\ P.evw \in EdgeGate /\ P.log \in RuntimeEdgeEvents
      /\ P.minw \in Closable /\ P.selfw \in Closable
      /\ P.upqw \in Closable /\ P.upq \in RuntimeUpstreamQualityData
  <2>1. \A f \in {"gates", "init", "poolw", "pool", "qualw", "qual", "natw", "nat", "evw",
                  "log", "minw", "selfw", "upqw", "upq"} : pulse.p[f] \in FieldsOf("runtime")[f]
    BY <1>0, TopicFields DEF PulseTopics
  <2> QED
    BY <2>1 DEF FieldsOf, RuntimeFields, RuntimeGatesValues, RuntimeMinimalAll,
                RuntimeMeSelftest, P
<1>4. /\ P.upw \in MinimalGate /\ P.ups \in UpstreamsData
      /\ P.dcw \in MinimalGate /\ P.fleet \in DcStatusData
      /\ P.mew \in MinimalGate /\ P.writers \in MeWritersData
  <2>1. \A f \in {"upw", "ups", "dcw", "fleet", "mew", "writers"} :
          pulse.p[f] \in FieldsOf("upstreams")[f]
    BY <1>0, TopicFields DEF PulseTopics
  <2> QED
    BY <2>1 DEF FieldsOf, UpstreamsFields, P
<1>5. /\ P.posture \in SecurityPosture \cup {NoPosture}
      /\ P.whitelist \in SecurityWhitelist /\ P.limits \in {"null", "data"}
  <2>1. \A f \in {"posture", "whitelist", "limits"} : pulse.p[f] \in FieldsOf("security")[f]
    BY <1>0, TopicFields DEF PulseTopics
  <2> QED
    BY <2>1 DEF FieldsOf, SecurityFields, P
<1>6. P.webw \in MinimalGate \cup {"nodata", "starting"} /\ P.life \in WebLifecycles
  <2>1. \A f \in {"webw", "life"} : pulse.p[f] \in FieldsOf("web")[f]
    BY <1>0, TopicFields DEF PulseTopics
  <2> QED
    BY <2>1 DEF FieldsOf, WebFields, P
<1>7. P.clients \in [Clients -> DOMAIN UsersTopicUser]
  <2>1. pulse.p["clients"] \in FieldsOf("users")["clients"]
    BY <1>0, TopicFields DEF PulseTopics
  <2> QED
    BY <2>1 DEF FieldsOf, UsersFields, Crowds, P
<1> QED
  BY <1>1, <1>2, <1>3, <1>4, <1>5, <1>6, <1>7

\* A topic as a page resolves it.
LEMMA TopicSource ==
    ASSUME PulseInv, NEW t \in PulseTopics, NEW w, NEW s, s = Topic(t, w)
    PROVE  /\ s.status \in Statuses /\ (s.hasData <=> s.status \in {"ready", "stale"})
           /\ s.status = "ready" => Snap(t) = "live"
           /\ w = "undeclared" => s.status # "empty"
           /\ s.status = "empty" => w = "nodata"
           /\ w = "data" => s.status # "empty"
           /\ s.status = "error" => Snap(t) = "failed"
<1>1. Snap(t) \in TopicStates
  BY Fields
<1> DEFINE no == FALSE
<1>2. s = ResolveTopicSource(Snap(t), w, no) /\ no \in BOOLEAN /\ ~no
  BY DEF Topic
<1> HIDE DEF no
<1> QED
  BY <1>1, <1>2, TopicResolved

\* The pages that list routes or writers.
LEMMA ListsFresh ==
    ASSUME PulseInv
    PROVE  /\ DOMAIN DcRows # {} => Current(DcPage, {"upstreams", "runtime"})
           /\ MeWriters # <<>> => Current(MePage, {"upstreams", "runtime"})
<1>0. /\ Snap("upstreams") \in TopicStates /\ P.minw \in Closable
      /\ \A t \in {"upstreams", "runtime"} : t \in PulseTopics
  BY Fields DEF PulseTopics
<1>1. ASSUME DOMAIN DcRows # {}, DcPage.status = "ready"
      PROVE  Snap("upstreams") = "live" /\ Snap("runtime") = "live"
  <2> DEFINE a == ResolveTopicSource(Snap("upstreams"), DeclaredIfPresent(P.dcw),
                                     P.dcw = "data" /\ DOMAIN P.fleet = {})
             b == Topic("runtime", P.minw)
  <2>1. Have("upstreams") /\ P.dcw = "data" /\ DOMAIN P.fleet # {}
    <3>1. DOMAIN <<>> = {}
      OBVIOUS
    <3> QED
      BY <1>1, <3>1 DEF DcRows
  <2>2. AggregateSources(<<a>>, <<b>>) = "ready"
    BY <1>1 DEF DcPage
  <2>3. DeclaredIfPresent(P.dcw) = "data"
    BY <2>1 DEF DeclaredIfPresent
  <2>4. a = ResolveTopicSource(Snap("upstreams"), "data", FALSE)
    BY <2>1, <2>3
  <2>5. /\ a.status \in Statuses /\ (a.hasData <=> a.status \in {"ready", "stale"})
        /\ a.status \in {"ready", "empty"} => a.status = "ready" /\ Snap("upstreams") = "live"
    <3> DEFINE no == FALSE
               w == "data"
    <3>1. a = ResolveTopicSource(Snap("upstreams"), w, no) /\ no \in BOOLEAN /\ ~no /\ w = "data"
      BY <2>4
    <3> HIDE DEF no, w, a
    <3> QED
      BY <1>0, <3>1, TopicResolved DEF TopicArrived
  <2>6. /\ b.status \in Statuses /\ (b.hasData <=> b.status \in {"ready", "stale"})
        /\ b.status \in {"ready", "empty"} => Snap("runtime") = "live"
    <3> DEFINE w == P.minw
    <3>1. w # "nodata" /\ b = Topic("runtime", w)
      BY <1>0 DEF Closable
    <3> HIDE DEF w, b
    <3>2. /\ b.status \in Statuses /\ (b.hasData <=> b.status \in {"ready", "stale"})
          /\ b.status = "ready" => Snap("runtime") = "live"
          /\ b.status = "empty" => w = "nodata"
      BY <1>0, <3>1, TopicSource
    <3> QED
      BY <3>1, <3>2
  <2> HIDE DEF a, b
  <2>7. /\ a.status \in {"ready", "empty"}
        /\ a.status = "ready" => b.status \in {"ready", "empty"}
    BY <2>2, <2>5, <2>6, ReadyWithOne
  <2> QED
    BY <2>5, <2>6, <2>7
<1>2. ASSUME MeWriters # <<>>, MePage.status = "ready"
      PROVE  Snap("upstreams") = "live" /\ Snap("runtime") = "live"
  <2> DEFINE a == ResolveTopicSource(Snap("upstreams"), DeclaredIfPresent(P.mew),
                                     P.mew = "data" /\ P.writers = <<>>)
             b == Topic("runtime", "undeclared")
             c == Topic("runtime", P.poolw)
             d == Topic("runtime", P.minw)
  <2>1. Have("upstreams") /\ P.mew = "data" /\ P.writers # <<>>
    BY <1>2 DEF MeWriters
  <2>2. AggregateSources(<<a>>, <<b, c, d>>) = "ready"
    BY <1>2 DEF MePage
  <2>3. DeclaredIfPresent(P.mew) = "data"
    BY <2>1 DEF DeclaredIfPresent
  <2>4. a = ResolveTopicSource(Snap("upstreams"), "data", FALSE)
    BY <2>1, <2>3
  <2>5. /\ a.status \in Statuses /\ (a.hasData <=> a.status \in {"ready", "stale"})
        /\ a.status \in {"ready", "empty"} => a.status = "ready" /\ Snap("upstreams") = "live"
    <3> DEFINE no == FALSE
               w == "data"
    <3>1. a = ResolveTopicSource(Snap("upstreams"), w, no) /\ no \in BOOLEAN /\ ~no /\ w = "data"
      BY <2>4
    <3> HIDE DEF no, w, a
    <3> QED
      BY <1>0, <3>1, TopicResolved DEF TopicArrived
  <2>6. /\ b.status \in Statuses /\ (b.hasData <=> b.status \in {"ready", "stale"})
        /\ b.status \in {"ready", "empty"} => Snap("runtime") = "live"
        /\ c.status \in Statuses /\ (c.hasData <=> c.status \in {"ready", "stale"})
        /\ d.status \in Statuses /\ (d.hasData <=> d.status \in {"ready", "stale"})
    BY <1>0, TopicSource
  <2> HIDE DEF a, b, c, d
  <2>7. ToSet(<<b, c, d>>) = {b, c, d}
    BY ElementsOf
  <2>8. /\ a.status \in {"ready", "empty"}
        /\ a.status = "ready" => \A s \in ToSet(<<b, c, d>>) : s.status \in {"ready", "empty"}
    BY <2>2, <2>5, <2>6, <2>7, AggregateReady
  <2> QED
    BY <2>5, <2>6, <2>7, <2>8
<1> QED
  BY <1>1, <1>2 DEF Current

\* The events page.
LEMMA EventsFresh == ASSUME PulseInv PROVE Current(EventsPage, {"runtime"})
<1> SUFFICES ASSUME EventsPage.status = "ready" PROVE Snap("runtime") = "live"
  BY DEF Current
<1> DEFINE a == Topic("runtime", P.evw)
<1>1. AggregateSources(<<a>>, <<>>) = "ready"
  BY DEF EventsPage
<1>2. /\ a.status \in Statuses /\ (a.hasData <=> a.status \in {"ready", "stale"})
      /\ a.status = "ready" => Snap("runtime") = "live"
  BY TopicSource DEF PulseTopics
<1> HIDE DEF a
<1> QED
  BY <1>1, <1>2, ReadyAlone

\* The page of the network address, unless the gates it holds say direct.
LEMMA AddressFresh == ASSUME PulseInv PROVE NatFresh(NatPage)
<1> SUFFICES ASSUME NatPage.status = "ready", MeRouteMode(NatGates, FALSE) # "direct"
             PROVE  Snap("runtime") = "live" /\ ResolvedOk(P.natw)
  BY DEF NatFresh
<1> DEFINE w == P.natw
           a == Topic("runtime", w)
           no == FALSE
<1>1. AggregateSources(<<a>>, <<>>) = "ready"
  BY DEF NatPage
<1>2. w \in EdgeGate \cup {"source_unavailable"} /\ Snap("runtime") \in TopicStates
  BY Fields DEF PulseTopics
<1>3. a = ResolveTopicSource(Snap("runtime"), w, no) /\ no \in BOOLEAN
  BY DEF Topic
<1> HIDE DEF w, a, no
<1>4. /\ a.status \in Statuses /\ (a.hasData <=> a.status \in {"ready", "stale"})
      /\ a.status = "ready" => Snap("runtime") = "live"
      /\ w = "null" => a.status \in {"disabled", "loading", "error"}
      /\ w \in ClosedReasons => a.status = GatedStatus(w)
  BY <1>2, <1>3, TopicResolved
<1>5. w = "nodata" => a.status \in {"empty", "disabled", "unsupported"}
  BY <1>3 DEF ResolveTopicSource, State, AbsentGateState, GatedStatus
<1>6. a.status = "ready"
  BY <1>1, <1>4, ReadyAlone
<1>7. w = "data"
  BY <1>2, <1>4, <1>5, <1>6 DEF EdgeGate, Closable, ClosedReasons, GatedStatus
<1> QED
  BY <1>4, <1>6, <1>7 DEF ResolvedOk, w

\* The connections page.
LEMMA LoadFresh == ASSUME PulseInv PROVE ConnectionsFresh(ConnectionsPage)
<1> SUFFICES ASSUME ConnectionsPage.status = "ready" PROVE Snap("stats") = "live"
  BY DEF ConnectionsFresh, Current, ConnectionsPage, Have, Snap, TopicArrived
<1> DEFINE a == Topic("stats", "undeclared")
           b == Topic("stats", P.conn)
<1>1. AggregateSources(<<a>>, <<b>>) = "ready"
  BY DEF ConnectionsPage
<1>2. /\ a.status \in Statuses /\ (a.hasData <=> a.status \in {"ready", "stale"})
      /\ a.status = "ready" => Snap("stats") = "live"
      /\ a.status # "empty"
      /\ b.status \in Statuses /\ (b.hasData <=> b.status \in {"ready", "stale"})
  BY TopicSource DEF PulseTopics
<1> HIDE DEF a, b
<1> QED
  BY <1>1, <1>2, ReadyWithOne

\* The security page.
LEMMA AccessFresh == ASSUME PulseInv PROVE SecurityFresh(SecurityPage)
<1> SUFFICES ASSUME SecurityPage.status = "ready"
             PROVE  Snap("security") = "live" /\ pulse.query["tls"] \in {"ok", "empty"}
  BY DEF SecurityFresh, Current
<1> DEFINE h == TlsHeld = TRUE
           a == Topic("security", "undeclared")
           b == ResolveQuerySource(pulse.query["tls"], TlsHeld)
<1>1. AggregateSources(<<a>>, <<b>>) = "ready"
  BY DEF SecurityPage
<1>2. /\ a.status \in Statuses /\ (a.hasData <=> a.status \in {"ready", "stale"})
      /\ a.status = "ready" => Snap("security") = "live"
      /\ a.status # "empty"
  BY TopicSource DEF PulseTopics
<1>3. pulse.query["tls"] \in QueryOutcomes
  BY Fields DEF PulseQueries
<1>4. /\ b.status \in Statuses /\ (b.hasData <=> b.status \in {"ready", "stale"})
      /\ b.status = "ready" => pulse.query["tls"] = "ok"
      /\ b.status = "empty" => pulse.query["tls"] = "empty"
  BY <1>3 DEF ResolveQuerySource, State, QueryOutcomes, Statuses
<1> HIDE DEF a, b
<1> QED
  BY <1>1, <1>2, <1>4, ReadyWithOne

\* The upstreams page.
LEMMA RoutesFresh ==
    ASSUME PulseInv, P.upw = "data", UpstreamsPage.status = "ready"
    PROVE  Snap("upstreams") = "live" /\ UpstreamsPage.body # "unavailable"
<1> DEFINE a == Topic("upstreams", DeclaredIfPresent(P.upw))
           b == Topic("runtime", DeclaredIfPresent(P.upqw))
<1>1. AggregateSources(<<a>>, <<b>>) = "ready"
  BY DEF UpstreamsPage
<1>2. DeclaredIfPresent(P.upw) = "data"
  BY DEF DeclaredIfPresent
<1>3. /\ a.status \in Statuses /\ (a.hasData <=> a.status \in {"ready", "stale"})
      /\ a.status = "ready" => Snap("upstreams") = "live"
      /\ a.status # "empty"
      /\ b.status \in Statuses /\ (b.hasData <=> b.status \in {"ready", "stale"})
  BY <1>2, TopicSource DEF PulseTopics
<1> HIDE DEF a, b
<1>4. Snap("upstreams") = "live"
  BY <1>1, <1>3, ReadyWithOne
<1>5. ~NoUpstreamsPayload
  BY <1>4 DEF NoUpstreamsPayload, Have, Snap, TopicArrived
<1> QED
  BY <1>4, <1>5 DEF UpstreamsPage

\* The card of the upstreams on the overview.
LEMMA RoutesCardFresh ==
    ASSUME PulseInv, UpstreamsWidget.pill = "ok", ~UpstreamsWidget.stale
    PROVE  "live" \in {Snap("upstreams"), Snap("runtime")}
<1> DEFINE there == {i \in DOMAIN UpstreamSources : UpstreamSources[i].on}
           current == {i \in there : ~UpstreamSources[i].stale}
           m == Min(IF current # {} THEN current ELSE there)
<1>0. Snap("upstreams") \in TopicStates /\ Snap("runtime") \in TopicStates
  BY Fields DEF PulseTopics
<1>1. /\ DOMAIN UpstreamSources = {1, 2}
      /\ UpstreamSources[1].on <=> Have("upstreams") /\ P.upw = "data"
      /\ UpstreamSources[1].stale <=> TopicTroubled(Snap("upstreams"))
      /\ UpstreamSources[2].on <=> Have("runtime") /\ P.upqw = "data"
      /\ UpstreamSources[2].stale <=> TopicTroubled(Snap("runtime"))
  <2> DEFINE x == [on |-> Have("upstreams") /\ P.upw = "data",
                   stale |-> TopicTroubled(Snap("upstreams")), rows |-> P.ups]
             y == [on |-> Have("runtime") /\ P.upqw = "data",
                   stale |-> TopicTroubled(Snap("runtime")), rows |-> P.upq]
  <2>1. UpstreamSources = <<x, y>>
    BY DEF UpstreamSources
  <2>2. /\ x.on = (Have("upstreams") /\ P.upw = "data")
        /\ x.stale = TopicTroubled(Snap("upstreams"))
        /\ y.on = (Have("runtime") /\ P.upqw = "data")
        /\ y.stale = TopicTroubled(Snap("runtime"))
    BY Zenon
  <2> HIDE DEF x, y
  <2>3. DOMAIN UpstreamSources = {1, 2} /\ UpstreamSources[1] = x /\ UpstreamSources[2] = y
    BY <2>1
  <2> QED
    BY <2>2, <2>3, Zenon
<1>2. there # {} /\ ~UpstreamSources[m].stale
  BY DEF UpstreamsWidget
<1>3. m \in there
  <2> DEFINE S == IF current # {} THEN current ELSE there
  <2>1. S \subseteq {1, 2} /\ S # {} /\ S \subseteq there
    BY <1>1, <1>2
  <2> HIDE DEF S
  <2>2. \E x \in S : \A y \in S : x <= y
    <3>1. ASSUME 1 \in S PROVE \A y \in S : 1 <= y
      BY <2>1
    <3>2. ASSUME 1 \notin S PROVE S = {2}
      BY <2>1, <3>2
    <3>3. ASSUME S = {2} PROVE 2 \in S /\ \A y \in S : 2 <= y
      BY <3>3
    <3> QED
      BY <3>1, <3>2, <3>3
  <2>3. Min(S) \in S
    BY <2>2 DEF Min
  <2> QED
    BY <2>1, <2>3 DEF S
<1> HIDE DEF m
<1>4. CASE m = 1
  BY <1>0, <1>1, <1>2, <1>3, <1>4 DEF Have, Snap, TopicArrived, TopicTroubled, TopicStates
<1>5. CASE m = 2
  BY <1>0, <1>1, <1>2, <1>3, <1>5 DEF Have, Snap, TopicArrived, TopicTroubled, TopicStates
<1> QED
  BY <1>1, <1>3, <1>4, <1>5

\* The banner of the overview.
LEMMA BannerFresh ==
    ASSUME PulseInv, HealthHero.label = "ok"
    PROVE  \A t \in {"stats", "runtime", "upstreams"} : ~TopicTroubled(Snap(t))
<1> DEFINE d == \/ Have("stats") /\ P.health = "read_only"
                \/ TopicTroubled(Snap("runtime"))
                \/ TopicTroubled(Snap("upstreams"))
                \/ MeReasonNow # "none"
                \/ \E x \in DOMAIN DcRows : DcCoverageState(DcRows[x]) # "ok"
<1>0. Snap("stats") \in TopicStates
  BY Fields DEF PulseTopics
<1>1. ComputeHealthHero(d).label = "ok"
  BY DEF HealthHero
<1> HIDE DEF d
<1>2. ~d /\ Snap("stats") = "live"
  BY <1>0, <1>1 DEF ComputeHealthHero, HeroView, TopicStates, TopicTroubled, Have, Snap, TopicArrived
<1> QED
  BY <1>2 DEF d, TopicTroubled

\* A set of numbers that is not empty has a least one.
LEMMA LeastNumber ==
    ASSUME NEW S, S \subseteq Nat, S # {}
    PROVE  \E n \in S : \A m \in S : n <= m
<1> DEFINE R == OpToRel(<, Nat)
<1>1. IsWellFoundedOn(R, Nat)
  BY NatLessThanWellFounded
<1>2. \A x, y \in Nat : x < y => <<x, y>> \in R
  BY DEF OpToRel
<1> HIDE DEF R
<1>3. PICK n \in S : \A y \in S : ~(<<y, n>> \in R)
  BY <1>1, WFMin
<1>4. ASSUME NEW m \in S PROVE n <= m
  <2>1. m \in Nat /\ n \in Nat /\ ~(<<m, n>> \in R)
    BY <1>3
  <2>2. ~(m < n)
    BY <1>2, <2>1
  <2> QED
    BY <2>1, <2>2
<1> QED
  BY <1>4

\* The source of each card of the hub.
LEMMA CardSource ==
    ASSUME PulseInv, NEW d \in DOMAINS, NEW s, s = SourceOf(d)
    PROVE  /\ s.status \in Statuses /\ (s.hasData <=> s.status \in {"ready", "stale"})
           /\ s.status = "ready" =>
                IF d = "counters" THEN pulse.query["zero"] = "ok" ELSE Snap(TopicOf[d]) = "live"
           /\ s.hasData /\ d = "web" => Have("web")
           /\ d # "counters" /\ s.status = "error" => Snap(TopicOf[d]) = "failed"
<1> DEFINE Holds(t) ==
             /\ s.status \in Statuses /\ (s.hasData <=> s.status \in {"ready", "stale"})
             /\ s.status = "ready" => Snap(t) = "live"
             /\ s.hasData => Have(t)
             /\ s.status = "error" => Snap(t) = "failed"
<1>1. ASSUME NEW t \in PulseTopics, NEW w, NEW e \in BOOLEAN, s = ResolveTopicSource(Snap(t), w, e)
      PROVE  Holds(t)
  <2>1. Snap(t) \in TopicStates
    BY Fields
  <2>2. /\ s.status \in Statuses /\ (s.hasData <=> s.status \in {"ready", "stale"})
        /\ s.status = "ready" => Snap(t) = "live"
        /\ s.status = "stale" => Snap(t) = "late"
        /\ s.status = "error" => Snap(t) = "failed"
    BY <1>1, <2>1, TopicResolved
  <2> QED
    BY <2>2 DEF Have, Snap, TopicArrived
<1>2. CASE d = "counters"
  <2>1. pulse.query["zero"] \in QueryOutcomes
    BY Fields DEF PulseQueries
  <2>2. s = ResolveQuerySource(pulse.query["zero"], pulse.held["zero"])
    BY <1>2 DEF SourceOf
  <2> QED
    BY <1>2, <2>1, <2>2 DEF ResolveQuerySource, State, QueryOutcomes, Statuses
<1>3. CASE d \in {"dc", "me", "upstreams"}
  <2> DEFINE e == CASE d = "dc" -> P.dcw = "data" /\ DOMAIN P.fleet = {}
                    [] d = "me" -> P.mew = "data" /\ P.writers = <<>>
                    [] OTHER -> FALSE
             w == CASE d = "dc" -> DeclaredIfPresent(P.dcw)
                    [] d = "me" -> DeclaredIfPresent(P.mew)
                    [] OTHER -> DeclaredIfPresent(P.upw)
  <2>1. s = ResolveTopicSource(Snap("upstreams"), w, e) /\ e \in BOOLEAN
    BY <1>3 DEF SourceOf
  <2> HIDE DEF e, w
  <2>2. Holds("upstreams")
    BY <1>1, <2>1 DEF PulseTopics
  <2> QED
    BY <1>3, <2>2 DEF TopicOf
<1>4. CASE d \in {"security", "connections", "nat", "events", "web"}
  <2> DEFINE no == FALSE
             w == CASE d = "security" -> "undeclared" [] d = "connections" -> P.conn
                    [] d = "nat" -> P.natw [] d = "events" -> P.evw [] OTHER -> P.webw
  <2>1. s = ResolveTopicSource(Snap(TopicOf[d]), w, no) /\ no \in BOOLEAN
    <3>1. CASE d = "security"
      BY <3>1 DEF SourceOf, TopicOf
    <3>2. CASE d = "connections"
      BY <3>2 DEF SourceOf, TopicOf
    <3>3. CASE d = "nat"
      BY <3>3 DEF SourceOf, TopicOf
    <3>4. CASE d = "events"
      BY <3>4 DEF SourceOf, TopicOf
    <3>5. CASE d = "web"
      BY <3>5 DEF SourceOf, TopicOf
    <3> QED
      BY <1>4, <3>1, <3>2, <3>3, <3>4, <3>5
  <2>2. TopicOf[d] \in PulseTopics /\ (d = "web" => TopicOf[d] = "web")
    BY <1>4 DEF TopicOf, PulseTopics
  <2> HIDE DEF no, w
  <2>3. Holds(TopicOf[d])
    BY <1>1, <2>1, <2>2
  <2> QED
    BY <1>4, <2>2, <2>3
<1> QED
  BY <1>2, <1>3, <1>4 DEF DOMAINS

\* What a card may say in place of its figures.
Notices == {"direct", "fallback", "none", "unsupported", "minimal_disabled", "unavailable"}

\* What a card says of its source.
LEMMA CardSays ==
    ASSUME NEW d, NEW s, s.status \in Statuses, NEW notice, NEW metrics,
           NEW c, c = Card(d, s, notice, metrics)
    PROVE  /\ c.domain = d /\ c.metrics = metrics /\ c.notice = notice
           /\ c.health = "ok" => s.status = "ready" /\ notice \notin {"direct", "fallback"}
           /\ c.health = "muted" /\ notice # "direct" =>
                 s.status \in {"loading", "disabled", "unsupported", "empty"} /\ c.pill = "muted"
           /\ notice = "direct" => c.health = "muted" /\ c.pill = "muted"
           /\ c.health \in {"ok", "warn", "error", "muted"}
<1>1. /\ c.domain = d /\ c.metrics = metrics /\ c.notice = notice
      /\ c.health = CASE notice = "direct" -> "muted"
                      [] notice = "fallback" -> "warn"
                      [] OTHER -> CardHealth(d, s.status, metrics)
      /\ c.pill = IF notice = "direct" THEN "muted" ELSE PILL_STATE[s.status]
  BY DEF Card
<1>2. /\ CardHealth(d, s.status, metrics) = "ok" => s.status = "ready"
      /\ CardHealth(d, s.status, metrics) = "muted" =>
            s.status \in {"loading", "disabled", "unsupported", "empty"}
      /\ CardHealth(d, s.status, metrics) \in {"ok", "warn", "error", "muted"}
  BY DEF CardHealth, Statuses
<1>3. s.status \in {"loading", "disabled", "unsupported", "empty"} => PILL_STATE[s.status] = "muted"
  BY DEF PILL_STATE
<1>4. CASE notice = "direct"
  BY <1>1, <1>4
<1>5. CASE notice = "fallback"
  BY <1>1, <1>5
<1>6. CASE notice \notin {"direct", "fallback"}
  BY <1>1, <1>2, <1>3, <1>6
<1> QED
  BY <1>1, <1>4, <1>5, <1>6

\* A card that is broken is what the banner of the hub names.
LEMMA BannerNames ==
    ASSUME NEW cards, NEW c \in cards, c.health = "error", c.domain \in DOMAINS
    PROVE  AttentionBanner(cards) # "healthy"
<1> DEFINE S == {i \in DOMAIN ATTENTION_PRIORITY :
                    \E x \in cards : x.domain = ATTENTION_PRIORITY[i] /\ x.health = "error"}
<1>1. /\ DOMAIN ATTENTION_PRIORITY = 1..9
      /\ \A i \in 1..9 : ATTENTION_PRIORITY[i] # "healthy"
      /\ \A d \in DOMAINS : \E i \in 1..9 : ATTENTION_PRIORITY[i] = d
  BY DEF ATTENTION_PRIORITY, DOMAINS
<1>2. S # {} /\ S \subseteq 1..9
  BY <1>1
<1>3. AttentionBanner(cards) = ATTENTION_PRIORITY[Min(S)]
  BY <1>2 DEF AttentionBanner
<1> HIDE DEF S
<1>4. Min(S) \in S
  <2>1. \E x \in S : \A y \in S : x <= y
    <3>1. S \subseteq Nat
      BY <1>2
    <3> QED
      BY <1>2, <3>1, LeastNumber
  <2> QED
    BY <2>1 DEF Min
<1> QED
  BY <1>1, <1>2, <1>3, <1>4

\* The cards of the hub and its banner.
LEMMA HubFresh == ASSUME PulseInv PROVE HubIsFresh(HubPage)
<1> DEFINE cards == {BuildHubCard(d) : d \in DOMAINS}
<1>1. HubPage.cards = cards /\ HubPage.attention = AttentionBanner(cards)
  BY DEF HubPage, HubOf
<1>2. ASSUME NEW c \in cards
      PROVE  /\ c.health = "ok" =>
                  IF c.domain = "counters" THEN pulse.query["zero"] = "ok" ELSE Snap(TopicOf[c.domain]) = "live"
             /\ c.domain = "web" /\ WebSourceRow(c) = "age" => Have("web")
             /\ DisplayState(c) = "error" => HubPage.attention # "healthy"
             /\ HubCardView(c) = "notice" => DisplayState(c) # "ok"
  <2>1. PICK d \in DOMAINS : c = BuildHubCard(d)
    OBVIOUS
  <2> DEFINE s == SourceOf(d)
             notice == CardNotice(d, s)
             metrics == CardMetrics(d, s, notice)
  <2>2. c = Card(d, s, notice, metrics)
    BY <2>1 DEF BuildHubCard, CardOf, CardFrom
  <2>3. /\ s.status \in Statuses /\ (s.hasData <=> s.status \in {"ready", "stale"})
        /\ s.status = "ready" =>
              IF d = "counters" THEN pulse.query["zero"] = "ok" ELSE Snap(TopicOf[d]) = "live"
        /\ s.hasData /\ d = "web" => Have("web")
    BY CardSource
  <2>4. notice \in Notices
    BY <2>3 DEF CardNotice, MeAvailability, Notices
  <2>5. s.status = "ready" => notice \in {"direct", "fallback", "none"}
    BY <2>3 DEF CardNotice, MeAvailability
  <2>6. metrics # <<>> => s.hasData
    BY DEF CardMetrics
  <2> HIDE DEF s, notice, metrics, cards
  <2>7. /\ c.domain = d /\ c.metrics = metrics /\ c.notice = notice
        /\ c.health = "ok" => s.status = "ready" /\ notice \notin {"direct", "fallback"}
        /\ c.health = "muted" /\ notice # "direct" =>
              s.status \in {"loading", "disabled", "unsupported", "empty"} /\ c.pill = "muted"
        /\ notice = "direct" => c.health = "muted" /\ c.pill = "muted"
        /\ c.health \in {"ok", "warn", "error", "muted"}
    BY <2>2, <2>3, CardSays
  <2>8. c.health = "muted" => c.pill = "muted"
    BY <2>7
  <2>9. DisplayState(c) = "error" => HubPage.attention # "healthy"
    <3>1. DisplayState(c) = "error" => c.health = "error"
      BY <2>7, <2>8 DEF DisplayState
    <3> QED
      BY <1>1, <2>7, <3>1, BannerNames
  <2>10. HubCardView(c) = "notice" => DisplayState(c) # "ok"
    <3>1. HubCardView(c) = "notice" => c.notice # "none"
      BY DEF HubCardView
    <3>2. DisplayState(c) = "ok" => c.health = "ok"
      BY <2>8 DEF DisplayState
    <3> QED
      BY <2>5, <2>7, <3>1, <3>2
  <2>11. c.domain = "web" /\ WebSourceRow(c) = "age" => Have("web")
    BY <2>3, <2>6, <2>7 DEF WebSourceRow
  <2> QED
    BY <2>3, <2>7, <2>9, <2>10, <2>11
<1> QED
  BY <1>1, <1>2 DEF HubIsFresh

\* The invariant of the server pages.
LEMMA ServerPulse == ServerPagesSpec => []PulseInv
<1>1. ServerPagesInit => PulseInv
  BY PulseStarts DEF ServerPagesInit
<1>2. PulseInv /\ [ServerPagesNext]_serverPageVars => PulseInv'
  <2> SUFFICES ASSUME PulseInv, [ServerPagesNext]_serverPageVars PROVE PulseInv'
    OBVIOUS
  <2>1. CASE PulseNext
    BY <2>1, PulseSteps
  <2>2. CASE UNCHANGED pulse
    BY <2>2 DEF PulseInv
  <2>3. ASSUME NEW n \in DOMAIN MenuQueries, MenuAnswers(n) PROVE UNCHANGED pulse
    BY <2>3 DEF MenuAnswers
  <2> QED
    BY <2>1, <2>2, <2>3 DEF ServerPagesNext, serverPageVars, pulseVars
<1> QED
  BY <1>1, <1>2, PTL DEF ServerPagesSpec

(***************************************************************************)
(* Green means current, for any number of frames, failed polls, answers and *)
(* clicks: no card, page header or banner is "ok" or "ready" on data kept    *)
(* after a failed poll or behind a closed gate (sourceState.ts,             *)
(* meAvailability.ts, hubCards.ts, the pages of pulse/diag), but for the    *)
(* two exceptions GreenIsFresh names: a required source that is empty, and  *)
(* the page of the network address in direct mode (NatPage.tsx:608).        *)
(***************************************************************************)
THEOREM GreenMeansCurrent == ServerPagesSpec => []GreenIsFresh
<1>1. PulseInv => GreenIsFresh
  <2> SUFFICES ASSUME PulseInv PROVE GreenIsFresh
    OBVIOUS
  <2>1. UpstreamsFresh(UpstreamsPage, UpstreamsWidget)
    BY RoutesFresh, RoutesCardFresh DEF UpstreamsFresh, Current
  <2> QED
    BY <2>1, HubFresh, ListsFresh, EventsFresh, LoadFresh, AccessFresh,
       AddressFresh, BannerFresh DEF GreenIsFresh
<1> QED
  BY <1>1, ServerPulse, PTL

(***************************************************************************)
(* The verdicts on the routes to the data centres.                         *)
(***************************************************************************)
RouteKinds == {DcStatus[k] : k \in {"well", "dead", "thin", "aged", "fewer", "slow", "down"}}

\* Every route that is listed is of one of the kinds.
LEMMA RoutesKnown ==
    ASSUME PulseInv
    PROVE  /\ \A x \in DOMAIN P.fleet : P.fleet[x] \in RouteKinds
           /\ DOMAIN P.fleet \subseteq DcIds
           /\ \A x \in DOMAIN DcRows : DcRows[x] \in RouteKinds
           /\ DOMAIN DcRows \subseteq DcIds
           /\ DOMAIN DcRows # {} => Have("upstreams") /\ P.dcw = "data" /\ DcRows = P.fleet
<1>1. P.fleet \in DcStatusData
  BY Fields
<1>2. DOMAIN DcStatus = {"well", "dead", "thin", "aged", "fewer", "slow", "down"}
  BY DEF DcStatus
<1>3. DcStatus.well \in RouteKinds /\ DcStatus.dead \in RouteKinds
  BY DEF RouteKinds
<1>4. ASSUME NEW d \in DcIds, NEW k \in DOMAIN DcStatus, P.fleet = Fleet(d, k)
      PROVE  /\ \A x \in DOMAIN P.fleet : P.fleet[x] \in RouteKinds
             /\ DOMAIN P.fleet \subseteq DcIds
  <2>1. DcStatus[k] \in RouteKinds
    BY <1>2 DEF RouteKinds
  <2> QED
    BY <1>3, <1>4, <2>1 DEF Fleet
<1>5. ASSUME P.fleet \in {[x \in DcIds |-> DcStatus.dead], [x \in {2, 203} |-> DcStatus.well],
                          [x \in {2, -2} |-> DcStatus.well], [x \in {} |-> DcStatus.well]}
      PROVE  /\ \A x \in DOMAIN P.fleet : P.fleet[x] \in RouteKinds
             /\ DOMAIN P.fleet \subseteq DcIds
  BY <1>3, <1>5 DEF DcIds
<1>6. /\ \A x \in DOMAIN P.fleet : P.fleet[x] \in RouteKinds
      /\ DOMAIN P.fleet \subseteq DcIds
  BY <1>1, <1>4, <1>5 DEF DcStatusData
<1>7. DOMAIN <<>> = {}
  OBVIOUS
<1> QED
  BY <1>6, <1>7 DEF DcRows

\* What the hub, the overview, the page and the problems make of one route.
LEMMA RouteVerdicts ==
    ASSUME NEW d \in RouteKinds
    PROVE  /\ DcCoverageState(d) \in {"error", "warn", "ok"} /\ DcRouteState(d) \in {"error", "warn", "ok"}
           /\ RouteTone(d) \in {"error", "warn", "latency", "ok"}
           /\ d.alive = 0 <=> RouteTone(d) = "error"
           /\ d.alive = 0 <=> DcRouteState(d) = "error"
           /\ d.alive = 0 <=> DcCoverageState(d) = "error"
           /\ d.cov < 100 => RouteTone(d) \in {"error", "warn"}
           /\ DcCoverageState(d) = "ok" <=> d.alive # 0 /\ ~(d.cov < 100)
           /\ DcRouteState(d) = "ok" => DcCoverageState(d) = "ok"
           /\ RouteTone(d) = "ok" =>
                 /\ RouteIssue(d) = "none" /\ DcRouteState(d) = "ok"
                 /\ d.alive - d.required >= 0 /\ d.eps - d.avail = 0
           /\ d.required > 0 /\ DcCoverageState(d) # "ok" => d.required > 0 /\ d.cov < 100
           /\ DcCoverageState(d) = "ok" => ~(d.alive < d.floor) /\ ~(d.cov < 100)
<1>1. CASE d = DcStatus["well"]
  <2>1. d = [alive |-> 2, required |-> 2, floor |-> 1, cov |-> 100, fresh |-> 100, avail |-> 2, eps |-> 2, rtt |-> 40]
    BY <1>1 DEF DcStatus
  <2> QED
    BY <2>1 DEF DcCoverageState, DcRouteState, DcRttTone, RouteTone, RouteIssue, DC_RTT_WARN_MS
<1>2. CASE d = DcStatus["dead"]
  <2>1. d = [alive |-> 0, required |-> 2, floor |-> 1, cov |-> 0, fresh |-> 0, avail |-> 0, eps |-> 2, rtt |-> 40]
    BY <1>2 DEF DcStatus
  <2> QED
    BY <2>1 DEF DcCoverageState, DcRouteState, DcRttTone, RouteTone, RouteIssue, DC_RTT_WARN_MS
<1>3. CASE d = DcStatus["thin"]
  <2>1. d = [alive |-> 1, required |-> 2, floor |-> 1, cov |-> 50, fresh |-> 50, avail |-> 2, eps |-> 2, rtt |-> 40]
    BY <1>3 DEF DcStatus
  <2> QED
    BY <2>1 DEF DcCoverageState, DcRouteState, DcRttTone, RouteTone, RouteIssue, DC_RTT_WARN_MS
<1>4. CASE d = DcStatus["aged"]
  <2>1. d = [alive |-> 2, required |-> 2, floor |-> 1, cov |-> 100, fresh |-> 50, avail |-> 2, eps |-> 2, rtt |-> 40]
    BY <1>4 DEF DcStatus
  <2> QED
    BY <2>1 DEF DcCoverageState, DcRouteState, DcRttTone, RouteTone, RouteIssue, DC_RTT_WARN_MS
<1>5. CASE d = DcStatus["fewer"]
  <2>1. d = [alive |-> 2, required |-> 2, floor |-> 1, cov |-> 100, fresh |-> 100, avail |-> 1, eps |-> 2, rtt |-> 40]
    BY <1>5 DEF DcStatus
  <2> QED
    BY <2>1 DEF DcCoverageState, DcRouteState, DcRttTone, RouteTone, RouteIssue, DC_RTT_WARN_MS
<1>6. CASE d = DcStatus["slow"]
  <2>1. d = [alive |-> 3, required |-> 2, floor |-> 1, cov |-> 100, fresh |-> 100, avail |-> 2, eps |-> 2, rtt |-> 200]
    BY <1>6 DEF DcStatus
  <2> QED
    BY <2>1 DEF DcCoverageState, DcRouteState, DcRttTone, RouteTone, RouteIssue, DC_RTT_WARN_MS
<1>7. CASE d = DcStatus["down"]
  <2>1. d = [alive |-> 0, required |-> 0, floor |-> 0, cov |-> 0, fresh |-> 0, avail |-> 0, eps |-> 2, rtt |-> 0]
    BY <1>7 DEF DcStatus
  <2> QED
    BY <2>1 DEF DcCoverageState, DcRouteState, DcRttTone, RouteTone, RouteIssue, DC_RTT_WARN_MS
<1>8. PICK k \in {"well", "dead", "thin", "aged", "fewer", "slow", "down"} : d = DcStatus[k]
  BY DEF RouteKinds
<1> QED
  BY <1>1, <1>2, <1>3, <1>4, <1>5, <1>6, <1>7, <1>8, Zenon

\* The worst of some tones.
LEMMA WorstTone ==
    ASSUME NEW S, S \subseteq {"error", "warn", "latency", "ok"}, S # {}
    PROVE  /\ Worst(S) \in S
           /\ "error" \in S <=> Worst(S) = "error"
           /\ "warn" \in S => Worst(S) \in {"error", "warn"}
           /\ Worst(S) = "ok" => S = {"ok"}
<1> DEFINE rank == [error |-> 4, warn |-> 3, latency |-> 2, ok |-> 1]
<1>1. rank["error"] = 4 /\ rank["warn"] = 3 /\ rank["latency"] = 2 /\ rank["ok"] = 1
  OBVIOUS
<1> HIDE DEF rank
<1>2. \E t \in S : \A u \in S : rank[t] >= rank[u]
  <2>1. CASE "error" \in S
    BY <1>1, <2>1
  <2>2. CASE "error" \notin S /\ "warn" \in S
    BY <1>1, <2>2
  <2>3. CASE "error" \notin S /\ "warn" \notin S /\ "latency" \in S
    BY <1>1, <2>3
  <2>4. CASE "error" \notin S /\ "warn" \notin S /\ "latency" \notin S
    <3>1. S = {"ok"}
      BY <2>4
    <3> QED
      BY <1>1, <3>1
  <2> QED
    BY <2>1, <2>2, <2>3, <2>4
<1>3. Worst(S) = CHOOSE t \in S : \A u \in S : rank[t] >= rank[u]
  BY DEF Worst, rank
<1>4. Worst(S) \in S /\ \A u \in S : rank[Worst(S)] >= rank[u]
  <2> DEFINE W == Worst(S)
  <2>1. W = CHOOSE t \in S : \A u \in S : rank[t] >= rank[u]
    BY <1>3
  <2> HIDE DEF W
  <2>2. W \in S /\ \A u \in S : rank[W] >= rank[u]
    BY <1>2, <2>1
  <2> QED
    BY <2>2 DEF W
<1> DEFINE W == Worst(S)
<1>4a. /\ W \in S /\ \A u \in S : rank[W] >= rank[u]
       /\ W \in {"error", "warn", "latency", "ok"}
  BY <1>4
<1> HIDE DEF W
<1>5. "error" \in S => W = "error"
  <2> SUFFICES ASSUME "error" \in S PROVE W = "error"
    OBVIOUS
  <2>1. rank[W] >= 4
    BY <1>1, <1>4a
  <2> QED
    BY <1>1, <1>4a, <2>1
<1>6. "warn" \in S => W \in {"error", "warn"}
  <2> SUFFICES ASSUME "warn" \in S PROVE W \in {"error", "warn"}
    OBVIOUS
  <2>1. rank[W] >= 3
    BY <1>1, <1>4a
  <2> QED
    BY <1>1, <1>4a, <2>1
<1>7. W = "ok" => S = {"ok"}
  <2> SUFFICES ASSUME W = "ok" PROVE S = {"ok"}
    OBVIOUS
  <2>1. ASSUME NEW u \in S PROVE u = "ok"
    <3>1. 1 >= rank[u] /\ u \in {"error", "warn", "latency", "ok"}
      BY <1>1, <1>4a
    <3> QED
      BY <1>1, <3>1
  <2> QED
    BY <1>4a, <2>1
<1> QED
  BY <1>4a, <1>5, <1>6, <1>7 DEF W

\* The pairs of routes: a route belongs to the pair of its data centre.
LEMMA PairsOf ==
    ASSUME NEW rows, DOMAIN rows \subseteq DcIds, NEW pairs, pairs = DcRouteGroups(rows)
    PROVE  /\ \A id \in DOMAIN pairs : pairs[id] # {} /\ pairs[id] \subseteq DOMAIN rows
           /\ \A x \in DOMAIN rows : Abs(x) \in DOMAIN pairs /\ x \in pairs[Abs(x)]
           /\ \A id \in DOMAIN pairs : \A x \in {id, -id} : x \in DOMAIN rows => x \in pairs[id]
           /\ \A id \in DOMAIN pairs : id \in Int
<1>1. /\ DOMAIN pairs = {Abs(x) : x \in DOMAIN rows}
      /\ \A id \in DOMAIN pairs : pairs[id] = {x \in DOMAIN rows : Abs(x) = id}
  BY DEF DcRouteGroups
<1>2. \A x \in DOMAIN rows : x \in Int
  BY DEF DcIds
<1>3. ASSUME NEW id \in DOMAIN pairs
      PROVE  pairs[id] # {} /\ pairs[id] \subseteq DOMAIN rows /\ id \in Int
  <2>1. PICK x \in DOMAIN rows : id = Abs(x)
    BY <1>1
  <2>2. x \in pairs[id]
    BY <1>1, <2>1
  <2>3. Abs(x) \in Int
    BY <1>2 DEF Abs
  <2> QED
    BY <1>1, <2>1, <2>2, <2>3
<1>4. ASSUME NEW id \in DOMAIN pairs, NEW x \in {id, -id}, x \in DOMAIN rows
      PROVE  x \in pairs[id]
  <2>1. PICK y \in DOMAIN rows : id = Abs(y)
    BY <1>1
  <2>2. Abs(x) = id
    BY <1>2, <1>4, <2>1 DEF Abs
  <2> QED
    BY <1>1, <1>4, <2>2
<1> QED
  BY <1>1, <1>3, <1>4

\* A pair is as bad as the worse of its routes, on the page and on the overview.
LEMMA PairVerdicts ==
    ASSUME NEW rows, NEW g, g # {}, \A x \in g : rows[x] \in RouteKinds
    PROVE  /\ PairTone(rows, g) = "error" <=> \E x \in g : rows[x].alive = 0
           /\ GroupState(rows, g) = "error" <=> \E x \in g : rows[x].alive = 0
           /\ (\E x \in g : rows[x].cov < 100) => PairTone(rows, g) \in {"error", "warn"}
           /\ PairTone(rows, g) = "ok" => \A x \in g : RouteTone(rows[x]) = "ok"
           /\ GroupState(rows, g) = "ok" <=> \A x \in g : DcRouteState(rows[x]) = "ok"
<1> DEFINE T == {RouteTone(rows[x]) : x \in g}
           S == {DcRouteState(rows[x]) : x \in g}
<1>1. T # {} /\ T \subseteq {"error", "warn", "latency", "ok"}
  BY RouteVerdicts
<1>2. S \subseteq {"error", "warn", "ok"}
  BY RouteVerdicts
<1>3. PairTone(rows, g) = Worst(T)
  BY DEF PairTone
<1>4. GroupState(rows, g) = IF "error" \in S THEN "error" ELSE IF "warn" \in S THEN "warn" ELSE "ok"
  BY DEF GroupState
<1>5. "error" \in T <=> \E x \in g : rows[x].alive = 0
  BY RouteVerdicts
<1>6. "error" \in S <=> \E x \in g : rows[x].alive = 0
  BY RouteVerdicts
<1>7. \A x \in g : RouteTone(rows[x]) \in T /\ DcRouteState(rows[x]) \in S
  OBVIOUS
<1>8. S \subseteq {"ok"} <=> \A x \in g : DcRouteState(rows[x]) = "ok"
  OBVIOUS
<1>9. (\E x \in g : rows[x].cov < 100) => "error" \in T \/ "warn" \in T
  BY <1>7, RouteVerdicts
<1> HIDE DEF T, S
<1>10. /\ Worst(T) \in T
       /\ "error" \in T <=> Worst(T) = "error"
       /\ "warn" \in T => Worst(T) \in {"error", "warn"}
       /\ Worst(T) = "ok" => T = {"ok"}
  BY <1>1, WorstTone
<1>11. PairTone(rows, g) = "error" <=> \E x \in g : rows[x].alive = 0
  BY <1>3, <1>5, <1>10
<1>12. GroupState(rows, g) = "error" <=> \E x \in g : rows[x].alive = 0
  BY <1>4, <1>6
<1>13. (\E x \in g : rows[x].cov < 100) => PairTone(rows, g) \in {"error", "warn"}
  BY <1>3, <1>9, <1>10
<1>14. PairTone(rows, g) = "ok" => \A x \in g : RouteTone(rows[x]) = "ok"
  BY <1>3, <1>7, <1>10
<1>15. GroupState(rows, g) = "ok" <=> \A x \in g : DcRouteState(rows[x]) = "ok"
  BY <1>2, <1>4, <1>8
<1> QED
  BY <1>11, <1>12, <1>13, <1>14, <1>15

\* The reason and the lanes of a pair whose routes are all well.
LEMMA PairWell ==
    ASSUME NEW rows, NEW id \in Int,
           \A x \in {id, -id} : x \in DOMAIN rows => rows[x] \in RouteKinds /\ RouteTone(rows[x]) = "ok"
    PROVE  /\ PairReason(rows, id) = "none"
           /\ \A x \in {id, -id} : RouteLane(rows, x).spare >= 0 /\ RouteLane(rows, x).absent = 0
<1>1. \A x \in {id, -id} : x \in DOMAIN rows =>
         /\ RouteIssue(rows[x]) = "none"
         /\ rows[x].alive - rows[x].required >= 0 /\ rows[x].eps - rows[x].avail = 0
  BY RouteVerdicts
<1>2. PairReason(rows, id) = "none"
  <2> DEFINE half == <<id, -id>>
             there == {j \in 1..2 : half[j] \in DOMAIN rows}
             issue == [i \in there |-> RouteIssue(rows[half[i]])]
             grave == {i \in DOMAIN issue : issue[i] \notin {"none", "latency"}}
  <2>1. \A i \in 1..2 : half[i] \in {id, -id}
    OBVIOUS
  <2>2. DOMAIN issue = there /\ \A i \in there : issue[i] = "none"
    BY <1>1, <2>1
  <2>3. PairReason(rows, id) =
          IF grave # {} THEN issue[Min(grave)]
          ELSE IF \E i \in DOMAIN issue : issue[i] = "latency" THEN "latency" ELSE "none"
    BY DEF PairReason
  <2> HIDE DEF there, issue
  <2>4. grave = {} /\ ~(\E i \in DOMAIN issue : issue[i] = "latency")
    BY <2>2
  <2> QED
    BY <2>3, <2>4
<1>3. ASSUME NEW x \in {id, -id}
      PROVE  RouteLane(rows, x).spare >= 0 /\ RouteLane(rows, x).absent = 0
  <2>1. CASE x \notin DOMAIN rows
    BY <2>1 DEF RouteLane
  <2>2. CASE x \in DOMAIN rows
    BY <1>1, <2>2 DEF RouteLane
  <2> QED
    BY <2>1, <2>2
<1> QED
  BY <1>2, <1>3

\* The card of the hub, the card of the overview and the page on the data centres.
LEMMA CentresAgree ==
    ASSUME PulseInv, DOMAIN DcRows # {}
    PROVE  DcViewsAgree(DcRows, DcPage.tone, DcWidget)
<1> DEFINE rows == DcRows
           pairs == DcRouteGroups(rows)
           tone == DcPage.tone
<1>1. /\ \A x \in DOMAIN rows : rows[x] \in RouteKinds
      /\ DOMAIN rows \subseteq DcIds
      /\ Have("upstreams") /\ P.dcw = "data" /\ rows = P.fleet
  BY RoutesKnown
<1>2. tone = [id \in DOMAIN pairs |-> PairTone(rows, pairs[id])]
  BY DEF DcPage
<1>3. \A id \in DOMAIN pairs : DcGroup(rows, id).state = GroupState(rows, pairs[id])
  BY DEF DcGroup
<1>4. DcCoverageTone(rows) =
        IF \E x \in DOMAIN rows : rows[x].alive = 0 THEN "bad"
        ELSE IF \E x \in DOMAIN rows : rows[x].cov < 100 THEN "warn" ELSE "good"
  BY DEF DcCoverageTone
<1>5. DcWidget.board # <<>> =>
        /\ DcWidget.board = [id \in DOMAIN pairs |-> DcGroup(rows, id)]
        /\ DcWidget.attention <=> \E x \in DOMAIN rows : DcRouteState(rows[x]) # "ok"
  BY <1>1 DEF DcWidget, ComputeDc
<1>6. pairs = DcRouteGroups(rows)
  OBVIOUS
<1> HIDE DEF rows, pairs, tone
<1>7. /\ \A id \in DOMAIN pairs : pairs[id] # {} /\ pairs[id] \subseteq DOMAIN rows
      /\ \A x \in DOMAIN rows : Abs(x) \in DOMAIN pairs /\ x \in pairs[Abs(x)]
      /\ \A id \in DOMAIN pairs : \A x \in {id, -id} : x \in DOMAIN rows => x \in pairs[id]
      /\ \A id \in DOMAIN pairs : id \in Int
  BY <1>1, <1>6, PairsOf
<1>8. ASSUME NEW id \in DOMAIN pairs
      PROVE  /\ PairTone(rows, pairs[id]) = "error" <=> \E x \in pairs[id] : rows[x].alive = 0
             /\ GroupState(rows, pairs[id]) = "error" <=> \E x \in pairs[id] : rows[x].alive = 0
             /\ (\E x \in pairs[id] : rows[x].cov < 100) => PairTone(rows, pairs[id]) \in {"error", "warn"}
             /\ PairTone(rows, pairs[id]) = "ok" => \A x \in pairs[id] : RouteTone(rows[x]) = "ok"
             /\ GroupState(rows, pairs[id]) = "ok" <=> \A x \in pairs[id] : DcRouteState(rows[x]) = "ok"
  <2> DEFINE g == pairs[id]
  <2>1. g # {} /\ \A x \in g : rows[x] \in RouteKinds
    BY <1>1, <1>7
  <2> HIDE DEF g
  <2>2. /\ PairTone(rows, g) = "error" <=> \E x \in g : rows[x].alive = 0
        /\ GroupState(rows, g) = "error" <=> \E x \in g : rows[x].alive = 0
        /\ (\E x \in g : rows[x].cov < 100) => PairTone(rows, g) \in {"error", "warn"}
        /\ PairTone(rows, g) = "ok" => \A x \in g : RouteTone(rows[x]) = "ok"
        /\ GroupState(rows, g) = "ok" <=> \A x \in g : DcRouteState(rows[x]) = "ok"
    BY <2>1, PairVerdicts
  <2> QED
    BY <2>2 DEF g
<1>9. DOMAIN tone = DOMAIN pairs /\ \A id \in DOMAIN pairs : tone[id] = PairTone(rows, pairs[id])
  BY <1>2
<1>10. DcCoverageTone(rows) = "bad" <=> \E id \in DOMAIN tone : tone[id] = "error"
  <2>1. DcCoverageTone(rows) = "bad" <=> \E x \in DOMAIN rows : rows[x].alive = 0
    BY <1>4
  <2>2. ASSUME NEW x \in DOMAIN rows, rows[x].alive = 0 PROVE \E id \in DOMAIN tone : tone[id] = "error"
    BY <1>7, <1>8, <1>9, <2>2
  <2>3. ASSUME NEW id \in DOMAIN tone, tone[id] = "error" PROVE \E x \in DOMAIN rows : rows[x].alive = 0
    BY <1>7, <1>8, <1>9, <2>3
  <2> QED
    BY <2>1, <2>2, <2>3
<1>11. DcCoverageTone(rows) = "warn" => \E id \in DOMAIN tone : tone[id] \in {"error", "warn"}
  <2>1. DcCoverageTone(rows) = "warn" => \E x \in DOMAIN rows : rows[x].cov < 100
    BY <1>4
  <2>2. ASSUME NEW x \in DOMAIN rows, rows[x].cov < 100
        PROVE  \E id \in DOMAIN tone : tone[id] \in {"error", "warn"}
    BY <1>7, <1>8, <1>9, <2>2
  <2> QED
    BY <2>1, <2>2
<1>12. ASSUME NEW id \in DOMAIN tone
       PROVE  /\ tone[id] = "error" <=> DcGroup(rows, id).state = "error"
              /\ tone[id] = "ok" =>
                   /\ DcGroup(rows, id).state = "ok" /\ PairReason(rows, id) = "none"
                   /\ \A x \in {id, -id} : RouteLane(rows, x).spare >= 0 /\ RouteLane(rows, x).absent = 0
  <2>1. tone[id] = "error" <=> DcGroup(rows, id).state = "error"
    BY <1>3, <1>8, <1>9
  <2>2. ASSUME tone[id] = "ok" PROVE \A x \in pairs[id] : RouteTone(rows[x]) = "ok"
    BY <1>8, <1>9, <2>2
  <2>3. ASSUME tone[id] = "ok" PROVE DcGroup(rows, id).state = "ok"
    <3>1. \A x \in pairs[id] : DcRouteState(rows[x]) = "ok"
      BY <1>1, <1>7, <1>9, <2>2, <2>3, RouteVerdicts
    <3> QED
      BY <1>3, <1>8, <1>9, <3>1
  <2>4. ASSUME tone[id] = "ok"
        PROVE  /\ PairReason(rows, id) = "none"
               /\ \A x \in {id, -id} : RouteLane(rows, x).spare >= 0 /\ RouteLane(rows, x).absent = 0
    <3>1. \A x \in {id, -id} : x \in DOMAIN rows => rows[x] \in RouteKinds /\ RouteTone(rows[x]) = "ok"
      BY <1>1, <1>7, <1>9, <2>2, <2>4
    <3> QED
      BY <1>7, <1>9, <3>1, PairWell
  <2> QED
    BY <2>1, <2>3, <2>4
<1>13. DcWidget.board # <<>> =>
         (DcWidget.attention <=> \E id \in DOMAIN DcWidget.board : DcWidget.board[id].state # "ok")
  <2> SUFFICES ASSUME DcWidget.board # <<>>
               PROVE  DcWidget.attention <=> \E id \in DOMAIN DcWidget.board : DcWidget.board[id].state # "ok"
    OBVIOUS
  <2>1. /\ DOMAIN DcWidget.board = DOMAIN pairs
        /\ \A id \in DOMAIN pairs : DcWidget.board[id].state = GroupState(rows, pairs[id])
    BY <1>3, <1>5
  <2>2. ASSUME NEW x \in DOMAIN rows, DcRouteState(rows[x]) # "ok"
        PROVE  \E id \in DOMAIN pairs : GroupState(rows, pairs[id]) # "ok"
    BY <1>7, <1>8, <2>2
  <2>3. ASSUME NEW id \in DOMAIN pairs, GroupState(rows, pairs[id]) # "ok"
        PROVE  \E x \in DOMAIN rows : DcRouteState(rows[x]) # "ok"
    BY <1>7, <1>8, <2>3
  <2> QED
    BY <1>5, <2>1, <2>2, <2>3
<1>14. DcViewsAgree(rows, tone, DcWidget)
  BY <1>10, <1>11, <1>12, <1>13 DEF DcViewsAgree
<1> QED
  BY <1>14 DEF rows, tone

\* The card and the page on the reflected address.
LEMMA NatAgrees ==
    ASSUME PulseInv
    PROVE  NatViewsAgree(NatPage.tone, NatReflectionTone(P.nat), P.nat)
<1> DEFINE n == P.nat
<1>1. /\ n.on \in BOOLEAN /\ n.off \in BOOLEAN /\ n.failing \in BOOLEAN
      /\ n.age \in {"none", "fresh", "old"}
  <2>1. n \in RuntimeNatStun
    BY Fields
  <2>2. ASSUME n \in [on : {TRUE}, off : BOOLEAN, failing : BOOLEAN, age : {"none", "fresh", "old"}]
        PROVE  /\ n.on \in BOOLEAN /\ n.off \in BOOLEAN /\ n.failing \in BOOLEAN
               /\ n.age \in {"none", "fresh", "old"}
    BY <2>2
  <2>3. ASSUME n = [on |-> FALSE, off |-> FALSE, failing |-> FALSE, age |-> "none"]
        PROVE  /\ n.on \in BOOLEAN /\ n.off \in BOOLEAN /\ n.failing \in BOOLEAN
               /\ n.age \in {"none", "fresh", "old"}
    BY <2>3
  <2> HIDE DEF n
  <2> QED
    BY <2>1, <2>2, <2>3 DEF RuntimeNatStun
<1>2. NatPage.tone \in {"none", StateTone(NatMechanismState(n))}
  BY DEF NatPage
<1> DEFINE page == NatPage.tone
           state == NatMechanismState(n)
           card == NatReflectionTone(n)
<1>3. page = "none" \/ page = StateTone(state)
  BY <1>2
<1>4. /\ ~(n.on /\ ~n.off) => state = "disabled" /\ card = "neutral"
      /\ n.on /\ ~n.off /\ n.age = "fresh" => state = "fresh" /\ card = "good"
      /\ n.on /\ ~n.off /\ n.age = "old" /\ n.failing => state = "delayed" /\ card = "warn"
      /\ n.on /\ ~n.off /\ n.age = "old" /\ ~n.failing => state = "stale" /\ card = "neutral"
      /\ n.on /\ ~n.off /\ n.age = "none" /\ n.failing => state = "missing" /\ card = "bad"
      /\ n.on /\ ~n.off /\ n.age = "none" /\ ~n.failing => state = "pending" /\ card = "neutral"
  BY <1>1 DEF NatMechanismState, NatReflectionTone
<1>5. /\ StateTone("fresh") = "ok" /\ StateTone("delayed") = "warn" /\ StateTone("missing") = "error"
      /\ StateTone("disabled") = "muted" /\ StateTone("stale") = "muted" /\ StateTone("pending") = "muted"
  BY DEF StateTone
<1>6. /\ NatFlow(n).probe = IF state = "disabled" THEN "muted"
                            ELSE IF state \in {"delayed", "missing"} THEN "warn" ELSE "ok"
      /\ NatFlow(n).cache = CASE n.age = "none" -> "muted" [] n.age = "old" -> "warn" [] OTHER -> "ok"
      /\ NatFlow(n).address = IF state = "disabled" \/ n.age = "none" THEN "muted" ELSE "ok"
      /\ NatServer(n, FALSE) = IF state \in {"delayed", "missing"} THEN "warn" ELSE "muted"
  BY DEF NatFlow, NatServer
<1> HIDE DEF n, page, state, card
<1>7. \/ state = "disabled" /\ card = "neutral"
      \/ state = "fresh" /\ card = "good" /\ n.age = "fresh"
      \/ state = "delayed" /\ card = "warn"
      \/ state = "stale" /\ card = "neutral"
      \/ state = "missing" /\ card = "bad"
      \/ state = "pending" /\ card = "neutral"
  BY <1>1, <1>4
<1>8. page # "none" =>
        page = (CASE card = "good" -> "ok" [] card = "warn" -> "warn" [] card = "bad" -> "error" [] OTHER -> "muted")
  BY <1>3, <1>5, <1>7
<1>9. page = "ok" => NatFlow(n).probe = "ok" /\ NatFlow(n).cache = "ok" /\ NatFlow(n).address = "ok"
  <2> SUFFICES ASSUME page = "ok" PROVE state = "fresh" /\ n.age = "fresh"
    BY <1>6
  <2> QED
    BY <1>3, <1>5, <1>7
<1>10. page \in {"warn", "error"} => NatFlow(n).probe = "warn" /\ NatServer(n, FALSE) = "warn"
  <2> SUFFICES ASSUME page \in {"warn", "error"} PROVE state \in {"delayed", "missing"}
    BY <1>6
  <2> QED
    BY <1>3, <1>5, <1>7
<1>11. NatViewsAgree(page, card, n)
  BY <1>8, <1>9, <1>10 DEF NatViewsAgree
<1> QED
  BY <1>11 DEF n, page, card

\* The gates in force are the topic's own, while it is current.
LEMMA GatesNow ==
    ASSUME PulseInv
    PROVE  /\ P.gates.use \in BOOLEAN /\ P.gates.reroute \in BOOLEAN
           /\ P.gates.mode \in {"direct", "middle", "unknown"}
           /\ P.gates.mode = "unknown" => P.gates = NoGates
           /\ P.gates = NoGates => P.gates.mode = "unknown" /\ ~P.gates.use /\ ~P.gates.reroute
           /\ NoGates.mode = "unknown" /\ ~NoGates.use /\ ~NoGates.reroute
           /\ Snap("runtime") \in TopicStates /\ Snap("upstreams") \in TopicStates
           /\ Snap("stats") \in TopicStates /\ Snap("security") \in TopicStates
<1>1. P.gates \in RouteGates
  BY Fields
<1>2. NoGates.mode = "unknown" /\ NoGates.use = FALSE /\ NoGates.reroute = FALSE
  BY DEF NoGates
<1>3. ASSUME P.gates \in [mode : {"direct", "middle"}, use : BOOLEAN, reroute : BOOLEAN]
      PROVE  P.gates.use \in BOOLEAN /\ P.gates.reroute \in BOOLEAN /\ P.gates.mode \in {"direct", "middle"}
  BY <1>3
<1>4. /\ Snap("runtime") \in TopicStates /\ Snap("upstreams") \in TopicStates
      /\ Snap("stats") \in TopicStates /\ Snap("security") \in TopicStates
  BY Fields DEF PulseTopics
<1>5. \/ P.gates = NoGates
      \/ P.gates.use \in BOOLEAN /\ P.gates.reroute \in BOOLEAN /\ P.gates.mode \in {"direct", "middle"}
  BY <1>1, <1>3 DEF RouteGates
<1>6. CASE P.gates = NoGates
  BY <1>2, <1>4, <1>6
<1>7. CASE P.gates # NoGates
  BY <1>2, <1>4, <1>5, <1>7
<1> QED
  BY <1>6, <1>7

\* The degraded writers counted on the card are the ones the page lists.
LEMMA WritersOnCard ==
    ASSUME PulseInv, BuildHubCard("me").metrics # <<>>
    PROVE  (BuildHubCard("me").metrics[2].tone = "warn")
             <=> (\E i \in DOMAIN MeWriters : StateForWriter(MeWriters[i]) = "error")
<1> DEFINE c == BuildHubCard("me")
           s == SourceOf("me")
           notice == CardNotice("me", s)
<1>1. c.metrics = CardMetrics("me", s, notice)
  BY DEF BuildHubCard, CardOf, CardFrom, Card
<1>2. s.hasData /\ c.metrics = MeHubMetrics
  BY <1>1 DEF CardMetrics, MetricsOf
<1>3. s = ResolveTopicSource(Snap("upstreams"), DeclaredIfPresent(P.mew), P.mew = "data" /\ P.writers = <<>>)
  BY DEF SourceOf
<1>4. P.mew # "null" /\ P.mew \in MinimalGate
  BY <1>2, Fields DEF MeHubMetrics
<1>5. P.mew = "data" /\ Have("upstreams")
  BY <1>2, <1>3, <1>4 DEF ResolveTopicSource, State, AbsentGateState, DeclaredIfPresent, MinimalGate, Closable,
        Wrappers, ClosedReasons, GatedStatus, UNSUPPORTED_REASONS, Have, Snap
<1>6. MeWriters = P.writers
  BY <1>5 DEF MeWriters
<1> DEFINE degraded == {i \in DOMAIN P.writers : P.writers[i].degraded}
<1>7. MeHubMetrics[2].tone = GoodIf(degraded = {}, "warn")
  BY <1>4 DEF MeHubMetrics, HubMetric
<1>8. \A w : StateForWriter(w) = "error" <=> w.degraded
  BY DEF StateForWriter
<1> HIDE DEF c
<1>9. c.metrics[2].tone = "warn" <=> degraded # {}
  BY <1>2, <1>7 DEF GoodIf
<1>10. degraded # {} <=> \E i \in DOMAIN MeWriters : StateForWriter(MeWriters[i]) = "error"
  BY <1>6, <1>8
<1> QED
  BY <1>9, <1>10 DEF c

\* The card of the overview, the card of the hub and the page on the ME pool.
LEMMA PoolAgrees ==
    ASSUME PulseInv PROVE MeViewsAgree(MePoolWidget, MePage, BuildHubCard("me"), MeMode)
<1> DEFINE g == FreshGates(Snap("runtime"), P.gates)
           widget == MePoolWidget
           card == BuildHubCard("me")
           page == MePage
           mode == MeMode
<1>1. /\ g.use \in BOOLEAN /\ g.reroute \in BOOLEAN /\ g.mode \in {"direct", "middle", "unknown"}
      /\ Snap("runtime") # "live" => g = NoGates
      /\ Snap("runtime") = "live" => g = P.gates
      /\ NoGates.mode = "unknown" /\ ~NoGates.use /\ ~NoGates.reroute
      /\ Snap("runtime") \in TopicStates
  <2>1. (Snap("runtime") # "live" => g = NoGates) /\ (Snap("runtime") = "live" => g = P.gates)
    BY DEF FreshGates
  <2>2. /\ P.gates.use \in BOOLEAN /\ P.gates.reroute \in BOOLEAN
        /\ P.gates.mode \in {"direct", "middle", "unknown"}
        /\ NoGates.mode = "unknown" /\ NoGates.use = FALSE /\ NoGates.reroute = FALSE
        /\ Snap("runtime") \in TopicStates
    BY GatesNow DEF NoGates
  <2> HIDE DEF g
  <2>3. CASE Snap("runtime") = "live"
    BY <2>1, <2>2, <2>3
  <2>4. CASE Snap("runtime") # "live"
    BY <2>1, <2>2, <2>4
  <2> QED
    BY <2>3, <2>4
<1>2. /\ widget.status # "none" => Have("runtime") /\ ResolvedOk(P.poolw) /\ widget.status = FirstReason(g)
      /\ widget.shows = "direct" => g.mode = "direct" /\ ~g.use /\ ~g.reroute
  <2> DEFINE availability == MeAvailability(Snap("runtime"), P.gates, ResolvedOk(P.poolw),
                               IF P.poolw \in ClosedReasons THEN P.poolw ELSE "none", FALSE)
  <2>1. availability = "direct" => g.mode = "direct" /\ ~g.use /\ ~g.reroute
    BY DEF MeAvailability
  <2>2. ComputeMeCard(g).reason = FirstReason(g)
    BY DEF ComputeMeCard
  <2>3. widget = IF ~Have("runtime") THEN [shows |-> "skeleton", pill |-> "none", status |-> "none"]
                 ELSE IF ~ResolvedOk(P.poolw) \/ availability = "direct"
                 THEN [shows |-> IF availability = "none" THEN "unavailable" ELSE availability, pill |-> "none", status |-> "none"]
                 ELSE [shows |-> "card", pill |-> ComputeMeCard(g).tone, status |-> ComputeMeCard(g).reason]
    BY DEF MePoolWidget
  <2> HIDE DEF availability, widget, g
  <2> QED
    BY <2>1, <2>2, <2>3
<1>3. mode = IF TopicTroubled(Snap("runtime")) THEN "unknown"
             ELSE MeRouteMode(IF Have("runtime") THEN g ELSE NoGates,
                     Have("runtime") /\ P.gates # NoGates /\ Have("upstreams") /\ P.mew = "data")
  BY DEF MeMode, MeGates
<1>4. /\ FirstReason(g) = "fallback" => IsFallback(g)
      /\ FirstReason(g) = "family" => P.qualw = "data" /\ P.qual = "family"
      /\ FirstReason(g) = "coverage" => P.qualw = "data" /\ P.qual = "short"
  BY DEF FirstReason, MeQuality, MeQualitySummary
<1>5. page.notice = "direct" => page.panel = "none" /\ page.status = "empty"
  BY DEF MePage
<1>6. g.mode = "direct" /\ ~g.use /\ ~g.reroute => page.notice = "direct"
  BY DEF MePage, MeAvailability
<1>7. /\ RouteReadiness.mode = CASE mode = "fallback" -> "warn" [] mode = "unknown" -> "muted" [] OTHER -> "ok"
      /\ RouteReadiness.drain = IF Have("runtime") /\ P.qualw = "data" THEN "ok" ELSE "warn"
  BY DEF RouteReadiness
<1>8. /\ RuntimePanel.reroute = IF g.reroute THEN "warn" ELSE "ok"
      /\ RuntimePanel.drain = IF ~(Have("runtime") /\ P.qualw = "data") THEN "warn" ELSE "ok"
  BY DEF RuntimePanel, MeGates
<1>9. /\ QualityPanel = IF ~(Have("runtime") /\ P.qualw = "data") THEN "unavailable"
                        ELSE IF P.qual = "family" THEN "warn" ELSE "ok"
      /\ Have("runtime") /\ P.qualw = "data" /\ P.qual = "short" => DcPairs.from = "quality" /\ DcPairs.short
  BY DEF QualityPanel, DcPairs
<1>10. card.metrics # <<>> =>
          (card.metrics[2].tone = "warn") <=> (\E i \in DOMAIN MeWriters : StateForWriter(MeWriters[i]) = "error")
  BY WritersOnCard
<1>11. Have("runtime") <=> Snap("runtime") \in {"live", "late"}
  BY DEF Have, Snap, TopicArrived
<1> HIDE DEF g, widget, card, page, mode
<1>12. widget.status = "fallback" => "fallback" \in {page.notice, mode} /\ RouteReadiness.mode = "warn"
  <2> SUFFICES ASSUME widget.status = "fallback" PROVE mode = "fallback"
    BY <1>7
  <2>1. Have("runtime") /\ g.use /\ (g.reroute \/ g.mode = "direct")
    BY <1>2, <1>4 DEF IsFallback
  <2>2. Snap("runtime") = "live"
    BY <1>1, <2>1
  <2>3. mode = MeRouteMode(g, Have("runtime") /\ P.gates # NoGates /\ Have("upstreams") /\ P.mew = "data")
    BY <1>3, <2>1, <2>2 DEF TopicTroubled
  <2> QED
    BY <2>1, <2>3 DEF MeRouteMode
<1>13. widget.shows = "direct" => page.panel = "none" /\ page.status = "empty"
  BY <1>2, <1>5, <1>6
<1>14. widget.status = "family" => QualityPanel = "warn"
  BY <1>2, <1>4, <1>9
<1>15. widget.status = "coverage" => DcPairs.from = "quality" /\ DcPairs.short
  BY <1>2, <1>4, <1>9
<1>16. Snap("runtime") = "live" /\ mode = "middle" =>
          RuntimePanel.reroute = "ok" /\ RuntimePanel.drain = RouteReadiness.drain
  <2> SUFFICES ASSUME Snap("runtime") = "live", mode = "middle"
               PROVE  ~g.reroute
    BY <1>7, <1>8
  <2>1. mode = MeRouteMode(g, Have("runtime") /\ P.gates # NoGates /\ Have("upstreams") /\ P.mew = "data")
    BY <1>3, <1>11 DEF TopicTroubled
  <2> QED
    BY <2>1 DEF MeRouteMode
<1>17. MeViewsAgree(widget, page, card, mode)
  BY <1>10, <1>12, <1>13, <1>14, <1>15, <1>16 DEF MeViewsAgree
<1> QED
  BY <1>17 DEF widget, page, card, mode

\* The upstreams as the hub, the page and the menu of the server count them.
LEMMA UpstreamRows ==
    ASSUME PulseInv
    PROVE  /\ IsFiniteSet(DOMAIN StatsUpstreams) /\ IsFiniteSet(DOMAIN QualityUpstreams)
           /\ IsFiniteSet(DOMAIN P.upq) /\ DOMAIN P.upq \subseteq {1, 2, 3} /\ DOMAIN P.ups \subseteq {1, 2}
<1>1. P.ups \in UpstreamsData /\ P.upq \in RuntimeUpstreamQualityData
  BY Fields
<1>2. DOMAIN P.ups \subseteq {1, 2}
  BY <1>1 DEF UpstreamsData, UpstreamIds
<1>3. DOMAIN P.upq \subseteq {1, 2, 3}
  BY <1>1 DEF RuntimeUpstreamQualityData
<1>4. IsFiniteSet({1, 2, 3}) /\ IsFiniteSet({})
  <2>1. IsFiniteSet({}) /\ \A x : IsFiniteSet({x})
    BY FS_EmptySet, FS_Singleton
  <2>2. {1, 2, 3} = {1} \cup ({2} \cup {3})
    OBVIOUS
  <2>3. IsFiniteSet({2} \cup {3})
    BY <2>1, FS_Union
  <2>4. IsFiniteSet({1} \cup ({2} \cup {3}))
    BY <2>1, <2>3, FS_Union
  <2> QED
    BY <2>1, <2>2, <2>4
<1>5. IsFiniteSet(DOMAIN P.ups) /\ IsFiniteSet(DOMAIN P.upq) /\ DOMAIN <<>> = {}
  BY <1>2, <1>3, <1>4, FS_Subset
<1> QED
  BY <1>2, <1>3, <1>4, <1>5 DEF StatsUpstreams, QualityUpstreams

\* Every upstream the card calls good is healthy in the list.
LEMMA RowsAgree ==
    ASSUME PulseInv, UpstreamHealthTone = "good"
    PROVE  /\ UpstreamsPage.banner = "ok"
           /\ \A x \in DOMAIN MergeUpstreams : MergeUpstreams[x]
           /\ DOMAIN StatsUpstreams = {} => \A x \in DOMAIN QualityUpstreams : QualityUpstreams[x]
<1>1. \A x \in DOMAIN MergeUpstreams : MergeUpstreams[x]
  BY DEF UpstreamHealthTone
<1>2. /\ DOMAIN MergeUpstreams = DOMAIN StatsUpstreams \cup DOMAIN QualityUpstreams
      /\ \A x \in DOMAIN StatsUpstreams : MergeUpstreams[x] = StatsUpstreams[x]
      /\ \A x \in DOMAIN QualityUpstreams : x \notin DOMAIN StatsUpstreams => MergeUpstreams[x] = QualityUpstreams[x]
  BY DEF MergeUpstreams
<1>3. \A x \in DOMAIN StatsUpstreams : StatsUpstreams[x]
  BY <1>1, <1>2
<1>4. DOMAIN StatsUpstreams = {} => \A x \in DOMAIN QualityUpstreams : QualityUpstreams[x]
  BY <1>1, <1>2
<1>5. ~(Have("upstreams") /\ P.upw = "data") => DOMAIN StatsUpstreams = {}
  <2>1. DOMAIN <<>> = {}
    OBVIOUS
  <2> QED
    BY <2>1 DEF StatsUpstreams
<1> DEFINE summary == IF Have("upstreams") /\ P.upw = "data" THEN StatsUpstreams ELSE QualityUpstreams
           down == {x \in DOMAIN summary : ~summary[x]}
<1>6. down = {}
  BY <1>3, <1>4, <1>5
<1>7. UpstreamsPage.banner = IF Cardinality(down) > 0 THEN "warn" ELSE "ok"
  BY DEF UpstreamsPage
<1> HIDE DEF down
<1>8. Cardinality(down) = 0
  BY <1>6, FS_EmptySet
<1> QED
  BY <1>1, <1>4, <1>7, <1>8

\* The banner of the overview by its label and its route.
LEMMA HeroSays ==
    ASSUME PulseInv, NEW degraded
    PROVE  /\ ComputeHealthHero(degraded).route = IF Have("runtime") THEN RouteModeValue(P.gates) ELSE "dash"
           /\ ComputeHealthHero(degraded).label = "starting" <=> Snap("stats") = "live" /\ IsStarting
           /\ ComputeHealthHero(degraded).label = "degraded" => Snap("stats") = "live" /\ degraded
           /\ ComputeHealthHero(degraded).label = "ok" =>
                /\ Snap("stats") = "live" /\ ~degraded
                /\ P.ready \in {"null", "ready"} /\ P.health \notin {"bad", "null"}
<1>1. Snap("stats") \in TopicStates
  BY GatesNow
<1>2. Have("stats") <=> Snap("stats") \in {"live", "late"}
  BY DEF Have, Snap, TopicArrived
<1> DEFINE route == IF Have("runtime") THEN RouteModeValue(P.gates) ELSE "dash"
<1>3. \A tone, label : HeroView(tone, label) = [tone |-> tone, label |-> label, route |-> route]
  BY DEF HeroView
<1> HIDE DEF route
<1>4. CASE Snap("stats") = "none"
  <2>1. ComputeHealthHero(degraded) = HeroView("none", "skeleton")
    BY <1>2, <1>4 DEF ComputeHealthHero, TopicTroubled
  <2> QED
    BY <1>3, <1>4, <2>1 DEF route
<1>5. CASE Snap("stats") \in {"failed", "late"}
  <2>1. ComputeHealthHero(degraded) = HeroView("error", "unavailable")
    BY <1>2, <1>5 DEF ComputeHealthHero, TopicTroubled
  <2> QED
    BY <1>3, <1>5, <2>1 DEF route
<1>6. CASE Snap("stats") = "live"
  <2>1. ComputeHealthHero(degraded) =
            IF IsStarting THEN HeroView("warn", "starting")
            ELSE IF P.ready \notin {"null", "ready"} THEN HeroView(NotReadyTone(P.ready), "limited")
            ELSE IF P.health = "bad" THEN HeroView("warn", "limited")
            ELSE IF degraded THEN HeroView("warn", "degraded")
            ELSE IF P.health = "null" THEN HeroView("muted", "unknown")
            ELSE HeroView("ok", "ok")
    BY <1>2, <1>6 DEF ComputeHealthHero, TopicTroubled
  <2> QED
    BY <1>3, <1>6, <2>1 DEF route
<1> QED
  BY <1>1, <1>4, <1>5, <1>6 DEF TopicStates

\* The banner and the ME page.
LEMMA HeroAgrees == ASSUME PulseInv PROVE HeroViewsAgree(HealthHero)
<1> DEFINE degraded == \/ Have("stats") /\ P.health = "read_only"
                       \/ TopicTroubled(Snap("runtime"))
                       \/ TopicTroubled(Snap("upstreams"))
                       \/ MeReasonNow # "none"
                       \/ \E x \in DOMAIN DcRows : DcCoverageState(DcRows[x]) # "ok"
           hero == HealthHero
<1>1. hero = ComputeHealthHero(degraded)
  BY DEF HealthHero
<1> HIDE DEF degraded, hero
<1>2. /\ hero.route = IF Have("runtime") THEN RouteModeValue(P.gates) ELSE "dash"
      /\ hero.label = "starting" <=> Snap("stats") = "live" /\ IsStarting
  BY <1>1, HeroSays
<1>3. hero.label = "starting" <=> Snap("stats") = "live" /\ InitializationPanel = "starting"
  BY <1>2 DEF IsStarting, InitializationPanel
<1>4. ASSUME Snap("runtime") = "live", hero.route = "me" PROVE MeMode = "middle"
  <2>1. Have("runtime") /\ ~TopicTroubled(Snap("runtime")) /\ MeGates = P.gates
    BY <1>4 DEF Have, Snap, TopicArrived, TopicTroubled, MeGates, FreshGates
  <2>2. P.gates.use /\ ~P.gates.reroute /\ P.gates.mode # "direct"
    BY <1>2, <1>4, <2>1 DEF RouteModeValue
  <2>3. MeMode = MeRouteMode(P.gates, P.gates # NoGates /\ Have("upstreams") /\ P.mew = "data")
    BY <2>1 DEF MeMode
  <2> QED
    BY <2>2, <2>3 DEF MeRouteMode
<1>5. HeroViewsAgree(hero)
  BY <1>3, <1>4 DEF HeroViewsAgree
<1> QED
  BY <1>5 DEF hero

\* The elements of two sequences put together.
LEMMA ElementsJoined ==
    ASSUME NEW S, NEW u \in Seq(S), NEW v \in Seq(S)
    PROVE  u \o v \in Seq(S) /\ ToSet(u \o v) = ToSet(u) \cup ToSet(v)
<1> DEFINE t == u \o v
<1>1. /\ t \in Seq(S) /\ Len(t) = Len(u) + Len(v)
      /\ \A j \in 1..(Len(u) + Len(v)) : t[j] = IF j <= Len(u) THEN u[j] ELSE v[j - Len(u)]
  BY ConcatProperties
<1>2. /\ Len(u) \in Nat /\ Len(v) \in Nat
      /\ DOMAIN t = 1..Len(t) /\ DOMAIN u = 1..Len(u) /\ DOMAIN v = 1..Len(v)
  BY <1>1
<1> HIDE DEF t
<1>3. \A w : ToSet(w) = {w[i] : i \in DOMAIN w}
  BY DEF ToSet
<1>4. ASSUME NEW i \in DOMAIN t PROVE t[i] \in ToSet(u) \cup ToSet(v)
  <2>1. CASE i <= Len(u)
    BY <1>1, <1>2, <1>3, <2>1
  <2>2. CASE ~(i <= Len(u))
    <3>1. i - Len(u) \in DOMAIN v /\ t[i] = v[i - Len(u)]
      BY <1>1, <1>2, <2>2
    <3> QED
      BY <1>3, <3>1
  <2> QED
    BY <2>1, <2>2
<1>5. ASSUME NEW i \in DOMAIN u PROVE u[i] \in ToSet(t)
  <2>1. i \in DOMAIN t /\ t[i] = u[i]
    BY <1>1, <1>2
  <2> QED
    BY <1>3, <2>1
<1>6. ASSUME NEW i \in DOMAIN v PROVE v[i] \in ToSet(t)
  <2> DEFINE k == i + Len(u)
  <2>1. k \in DOMAIN t /\ ~(k <= Len(u)) /\ k - Len(u) = i /\ k \in 1..(Len(u) + Len(v))
    BY <1>1, <1>2
  <2> HIDE DEF k
  <2>2. t[k] = v[i]
    BY <1>1, <2>1
  <2> QED
    BY <1>3, <2>1, <2>2
<1>7. ToSet(t) = ToSet(u) \cup ToSet(v)
  BY <1>3, <1>4, <1>5, <1>6
<1> QED
  BY <1>1, <1>7 DEF t

\* A card that calls its source well, by the tones of its metrics.
LEMMA CardWell ==
    ASSUME PulseInv, NEW d \in DOMAINS \ {"dc", "me"}, NEW c, c = BuildHubCard(d)
    PROVE  /\ c.health = "ok" =>
                /\ SourceOf(d).status = "ready" /\ SourceOf(d).hasData
                /\ \A m \in ToSet(MetricsOf(d)) : m.id \in HealthMetricIds[d] => m.tone # "bad"
           /\ c.health = "error" =>
                \/ SourceOf(d).status = "error"
                \/ /\ SourceOf(d).hasData
                   /\ \E m \in ToSet(MetricsOf(d)) : m.id \in HealthMetricIds[d] /\ m.tone = "bad"
<1> DEFINE s == SourceOf(d)
           metrics == CardMetrics(d, s, "none")
<1>1. s.status \in Statuses /\ (s.hasData <=> s.status \in {"ready", "stale"})
  BY CardSource
<1>2. CardNotice(d, s) = "none"
  BY DEF CardNotice
<1>3. c = Card(d, s, "none", metrics)
  BY <1>2 DEF BuildHubCard, CardOf, CardFrom
<1>4. c.health = CardHealth(d, s.status, metrics)
  BY <1>3 DEF Card
<1>5. metrics = IF s.hasData THEN MetricsOf(d) ELSE <<>>
  BY <1>1 DEF CardMetrics, Gated
<1>6. ToSet(<<>>) = {}
  BY ElementsOf
<1> DEFINE ids == HealthMetricIds[d]
<1>7. /\ s.status = "ready" => c.health = IF \E m \in ToSet(metrics) : m.id \in ids /\ m.tone = "bad" THEN "error"
                                          ELSE IF \E m \in ToSet(metrics) : m.id \in ids /\ m.tone = "warn" THEN "warn" ELSE "ok"
      /\ c.health = "ok" => s.status = "ready"
      /\ c.health = "error" => s.status \in {"error", "ready"}
  BY <1>1, <1>4 DEF CardHealth, Statuses
<1> HIDE DEF s, metrics, ids
<1>8. c.health = "ok" => /\ s.status = "ready" /\ s.hasData
                         /\ \A m \in ToSet(MetricsOf(d)) : m.id \in ids => m.tone # "bad"
  BY <1>1, <1>5, <1>7
<1>9. c.health = "error" => \/ s.status = "error"
                            \/ s.hasData /\ \E m \in ToSet(MetricsOf(d)) : m.id \in ids /\ m.tone = "bad"
  BY <1>1, <1>5, <1>6, <1>7
<1> QED
  BY <1>8, <1>9 DEF s, ids

\* A posture on screen is one of the topic's, and the topic has arrived.
LEMMA PostureKnown ==
    ASSUME PulseInv
    PROVE  /\ PostureNow.known \in BOOLEAN /\ PostureNow.whitelist \in BOOLEAN
           /\ PostureNow.auth \in BOOLEAN /\ PostureNow.readonly \in BOOLEAN
           /\ PostureNow.known => Have("security") /\ PostureNow = P.posture
           /\ ~PostureNow.known => ~PostureNow.whitelist /\ ~PostureNow.auth /\ ~PostureNow.readonly
<1>1. P.posture \in SecurityPosture \cup {NoPosture}
  BY Fields
<1>2. /\ NoPosture.known = FALSE /\ NoPosture.whitelist = FALSE
      /\ NoPosture.auth = FALSE /\ NoPosture.readonly = FALSE
  BY DEF NoPosture
<1>3. ASSUME P.posture \in SecurityPosture
      PROVE  /\ P.posture.known = TRUE /\ P.posture.whitelist \in BOOLEAN
             /\ P.posture.auth \in BOOLEAN /\ P.posture.readonly \in BOOLEAN
  BY <1>3 DEF SecurityPosture
<1>4. CASE PostureNow = NoPosture
  BY <1>2, <1>4
<1>5. CASE PostureNow # NoPosture
  <2>1. PostureNow = P.posture /\ Have("security") /\ P.posture \in SecurityPosture
    BY <1>1, <1>5 DEF PostureNow
  <2> QED
    BY <1>3, <2>1
<1> QED
  BY <1>4, <1>5

\* The hero of the security page, its steps and the card of the hub.
LEMMA SecurityAgrees == ASSUME PulseInv PROVE SecurityViewsAgree(SecurityHero, AccessSteps)
<1> DEFINE p == PostureNow
           bad == TlsBad > 0
           hero == SecurityHero
           steps == AccessSteps
<1>1. /\ p.known \in BOOLEAN /\ p.whitelist \in BOOLEAN /\ p.auth \in BOOLEAN /\ p.readonly \in BOOLEAN
      /\ p.known => Have("security") /\ p = P.posture
      /\ ~p.known => ~p.whitelist /\ ~p.auth /\ ~p.readonly
  BY PostureKnown
<1>2. /\ hero.level = IF p.known
                      THEN IF ~p.whitelist /\ ~p.auth /\ ~p.readonly THEN "error"
                           ELSE IF ~p.whitelist \/ bad THEN "warn" ELSE "ok"
                      ELSE "warn"
      /\ hero.verdict = IF ~p.known THEN "unknown"
                        ELSE IF hero.level = "error" THEN "open"
                        ELSE IF bad THEN "tls" ELSE IF hero.level = "warn" THEN "weak" ELSE "restricted"
  BY DEF SecurityHero, SecurityLevel
<1>3. /\ DOMAIN steps = {"network", "header", "rights"}
      /\ steps.network = IF p.whitelist THEN "ok" ELSE "error"
      /\ steps.header = IF p.auth THEN "ok" ELSE IF hero.verdict = "open" THEN "error" ELSE "warn"
      /\ steps.rights = IF p.readonly THEN "ok" ELSE IF hero.verdict = "open" THEN "error" ELSE "warn"
  BY DEF AccessSteps
<1> HIDE DEF p, bad, hero, steps
<1>4. hero.verdict = "open" <=> p.known /\ ~p.whitelist /\ ~p.auth /\ ~p.readonly
  BY <1>1, <1>2
<1>5. hero.verdict = "open" <=> p.known /\ \A x \in DOMAIN steps : steps[x] = "error"
  <2>1. ASSUME hero.verdict = "open" PROVE p.known /\ \A x \in DOMAIN steps : steps[x] = "error"
    BY <1>3, <1>4, <2>1
  <2>2. ASSUME p.known, \A x \in DOMAIN steps : steps[x] = "error" PROVE hero.verdict = "open"
    <3>1. steps.network = "error" /\ steps.header = "error" /\ steps.rights = "error"
      BY <1>3, <2>2
    <3> QED
      BY <1>1, <1>3, <1>4, <2>2, <3>1
  <2> QED
    BY <2>1, <2>2
<1>6. hero.level = "ok" => p.known /\ p.whitelist
  BY <1>1, <1>2
<1>7. p.known => BuildHubCard("security").health # "error"
  <2> DEFINE d == "security"
             c == BuildHubCard(d)
  <2>1. d \in DOMAINS \ {"dc", "me"} /\ d = "security"
    BY DEF DOMAINS
  <2>2. SourceOf(d) = ResolveTopicSource(Snap("security"), "undeclared", FALSE)
    BY DEF SourceOf
  <2>3. Have("security") => SourceOf(d).status # "error"
    BY <2>2 DEF ResolveTopicSource, Have, Snap, State, AbsentGateState, GatedStatus, Wrappers, ClosedReasons
  <2>4. \A m \in ToSet(MetricsOf(d)) : m.tone # "bad"
    <3>1. MetricsOf(d) = SecurityHubMetrics
      BY DEF MetricsOf
    <3>2. PICK a : SecurityHubMetrics \in
                     {<<>>, <<HubMetric("whitelist_state", GoodIf(a, "warn")), HubMetric("whitelist_size", "neutral"),
                              HubMetric("api_mode", "neutral")>>}
      BY DEF SecurityHubMetrics
    <3>3. ToSet(SecurityHubMetrics) \subseteq
            {HubMetric("whitelist_state", GoodIf(a, "warn")), HubMetric("whitelist_size", "neutral"), HubMetric("api_mode", "neutral")}
      BY <3>2, ElementsOf
    <3> QED
      BY <3>1, <3>3 DEF HubMetric, GoodIf
  <2> HIDE DEF d
  <2>5. c.health = "error" =>
                \/ SourceOf(d).status = "error"
                \/ /\ SourceOf(d).hasData
                   /\ \E m \in ToSet(MetricsOf(d)) : m.id \in HealthMetricIds[d] /\ m.tone = "bad"
    BY <2>1, CardWell
  <2> QED
    BY <1>1, <2>1, <2>3, <2>4, <2>5
<1>8. SecurityViewsAgree(hero, steps)
  <2>1. PostureNow.known <=> p.known
    BY DEF p
  <2> QED
    BY <1>3, <1>5, <1>6, <1>7, <2>1 DEF SecurityViewsAgree
<1> QED
  BY <1>8 DEF hero, steps

\* A closed admission is never behind a green card.
LEMMA AdmissionAgrees ==
    ASSUME PulseInv, AdmissionState = "warn"
    PROVE  BuildHubCard("connections").health # "ok"
<1>1. P.ready = "admission_closed"
  BY DEF AdmissionState
<1> DEFINE d == "connections"
           c == BuildHubCard(d)
           m == HubMetric("admission", "bad")
<1>2. d \in DOMAINS \ {"dc", "me"} /\ HealthMetricIds[d] = {"admission"} /\ m.id = "admission" /\ m.tone = "bad"
  BY DEF DOMAINS, HealthMetricIds, HubMetric
<1>3. MetricsOf(d) = <<HubMetric("current_connections", "neutral"), HubMetric("active_users", "neutral")>> \o <<m>>
  BY <1>1 DEF MetricsOf, ConnectionsHubMetrics, GoodIf
<1>4. m \in ToSet(MetricsOf(d))
  <2> DEFINE a == HubMetric("current_connections", "neutral")
             b == HubMetric("active_users", "neutral")
  <2> HIDE DEF a, b, m
  <2> DEFINE S == {a, b, m}
             u == <<a, b>>
             v == <<m>>
  <2>1. u \in Seq(S) /\ v \in Seq(S) /\ ToSet(v) = {m}
    BY ElementsOf
  <2>2. MetricsOf(d) = u \o v
    BY <1>3 DEF a, b
  <2> HIDE DEF S, u, v
  <2>3. ToSet(u \o v) = ToSet(u) \cup ToSet(v)
    BY <2>1, ElementsJoined
  <2> QED
    BY <2>1, <2>2, <2>3
<1> HIDE DEF d, m
<1>5. c.health = "ok" => \A x \in ToSet(MetricsOf(d)) : x.id \in HealthMetricIds[d] => x.tone # "bad"
  BY <1>2, CardWell
<1>6. c.health # "ok"
  BY <1>2, <1>4, <1>5
<1> QED
  BY <1>6 DEF d

\* The hub, the overview and the pages on the same data.
LEMMA PagesAgree == ASSUME PulseInv PROVE HubAgreesWithPage
  BY CentresAgree, NatAgrees, PoolAgrees, RowsAgree, HeroAgrees, SecurityAgrees, AdmissionAgrees
     DEF HubAgreesWithPage

(***************************************************************************)
(* The list of problems.                                                   *)
(***************************************************************************)
Keys == {"not_ready", "read_only", "me_direct_fallback", "me_coverage_low", "me_split_traffic", "stale_stats",
         "stale_runtime", "stale_upstreams", "stale_security", "connections_bad_total", "cap_missing", "me_runtime"}

\* A problem is listed when its condition holds.
LEMMA Listed ==
    ASSUME NEW c \in BOOLEAN, NEW k \in Keys
    PROVE  If(c, k) \in Seq(Keys) /\ (\A x : x \in ToSet(If(c, k)) <=> c /\ x = k)
<1>1. CASE c
  <2>1. If(c, k) = <<k>>
    BY <1>1 DEF If
  <2>2. ToSet(<<k>>) = {k} /\ <<k>> \in Seq(Keys)
    BY ElementsOf
  <2> QED
    BY <1>1, <2>1, <2>2
<1>2. CASE ~c
  <2>1. If(c, k) = <<>>
    BY <1>2 DEF If
  <2>2. ToSet(<<>>) = {} /\ <<>> \in Seq(Keys)
    BY ElementsOf
  <2> QED
    BY <1>2, <2>1, <2>2
<1> QED
  BY <1>1, <1>2

\* One more problem at the end of the list.
LEMMA ListedNext ==
    ASSUME NEW u \in Seq(Keys), NEW c \in BOOLEAN, NEW k \in Keys, NEW t, t = u \o If(c, k)
    PROVE  t \in Seq(Keys) /\ (\A x : x \in ToSet(t) <=> x \in ToSet(u) \/ (c /\ x = k))
<1> DEFINE v == If(c, k)
<1>1. v \in Seq(Keys) /\ (\A x : x \in ToSet(v) <=> c /\ x = k)
  BY Listed
<1>2. t = u \o v
  OBVIOUS
<1> HIDE DEF v
<1>3. u \o v \in Seq(Keys) /\ ToSet(u \o v) = ToSet(u) \cup ToSet(v)
  BY <1>1, ElementsJoined
<1> QED
  BY <1>1, <1>2, <1>3

\* The routes below their floor, and the problem that names them.
LEMMA GapsListed ==
    ASSUME PulseInv
    PROVE  /\ CoverageGaps \in Seq(Keys)
           /\ \A x : x \in ToSet(CoverageGaps) <=> ~FullFallback /\ LowRoutes # {} /\ x = "me_coverage_low"
<1> DEFINE n == Cardinality(LowRoutes)
<1>1. IsFiniteSet(LowRoutes)
  <2>1. LowRoutes \subseteq DcIds
    BY RoutesKnown DEF LowRoutes
  <2>2. IsFiniteSet(DcIds)
    <3>1. IsFiniteSet({}) /\ \A x : IsFiniteSet({x})
      BY FS_EmptySet, FS_Singleton
    <3>2. DcIds = {2} \cup ({-2} \cup {203})
      BY DEF DcIds
    <3>3. IsFiniteSet({-2} \cup {203})
      BY <3>1, FS_Union
    <3>4. IsFiniteSet({2} \cup ({-2} \cup {203}))
      BY <3>1, <3>3, FS_Union
    <3> QED
      BY <3>2, <3>4
  <2> QED
    BY <2>1, <2>2, FS_Subset
<1>2. n \in Nat /\ (n = 0 <=> LowRoutes = {})
  BY <1>1, FS_CardinalityType, FS_EmptySet
<1>3. CoverageGaps = IF FullFallback THEN <<>> ELSE [i \in 1..n |-> "me_coverage_low"]
  BY DEF CoverageGaps
<1> HIDE DEF n
<1>4. CASE FullFallback
  <2>1. CoverageGaps = <<>> /\ ToSet(<<>>) = {} /\ <<>> \in Seq(Keys)
    BY <1>3, <1>4, ElementsOf
  <2> QED
    BY <1>4, <2>1
<1>5. CASE ~FullFallback
  <2> DEFINE s == [i \in 1..n |-> "me_coverage_low"]
  <2>1. s \in Seq(Keys)
    BY <1>2 DEF Keys
  <2>2. DOMAIN s = 1..n /\ \A i \in 1..n : s[i] = "me_coverage_low"
    OBVIOUS
  <2>3. CoverageGaps = s
    BY <1>3, <1>5
  <2> HIDE DEF s
  <2>4. ToSet(s) = {s[i] : i \in DOMAIN s}
    BY DEF ToSet
  <2>5. LowRoutes # {} => 1 \in 1..n
    BY <1>2
  <2>6. LowRoutes = {} => 1..n = {}
    BY <1>2
  <2>7. \A x : x \in ToSet(s) <=> LowRoutes # {} /\ x = "me_coverage_low"
    BY <2>2, <2>4, <2>5, <2>6
  <2> QED
    BY <1>5, <2>1, <2>3, <2>7
<1> QED
  BY <1>4, <1>5

\* What the list holds.
LEMMA ProblemsListed ==
    ASSUME PulseInv
    PROVE  /\ ComputeProblems \in Seq(Keys)
           /\ \A x : x \in ToSet(ComputeProblems) <=>
                 \/ (P.ready \notin {"null", "ready"}) /\ x = "not_ready"
                 \/ (P.health = "read_only") /\ x = "read_only"
                 \/ (FullFallback) /\ x = "me_direct_fallback"
                 \/ ~FullFallback /\ LowRoutes # {} /\ x = "me_coverage_low"
                 \/ (SplitTraffic) /\ x = "me_split_traffic"
                 \/ (TopicTroubled(Snap("stats"))) /\ x = "stale_stats"
                 \/ (TopicTroubled(Snap("runtime"))) /\ x = "stale_runtime"
                 \/ (TopicTroubled(Snap("upstreams"))) /\ x = "stale_upstreams"
                 \/ (TopicTroubled(Snap("security"))) /\ x = "stale_security"
                 \/ (WindowKnown(pulse.win) /\ CounterDelta(pulse.win.oldest, P.refused) > 0) /\ x = "connections_bad_total"
                 \/ (P.webw = "capability_absent") /\ x = "cap_missing"
<1> DEFINE
       c1 == P.ready \notin {"null", "ready"}
       c2 == P.health = "read_only"
       c3 == FullFallback
       c5 == SplitTraffic
       c6 == TopicTroubled(Snap("stats"))
       c7 == TopicTroubled(Snap("runtime"))
       c8 == TopicTroubled(Snap("upstreams"))
       c9 == TopicTroubled(Snap("security"))
       c10 == WindowKnown(pulse.win) /\ CounterDelta(pulse.win.oldest, P.refused) > 0
       c11 == P.webw = "capability_absent"
       p1 == If(c1, "not_ready")
       p2 == p1 \o If(c2, "read_only")
       p3 == p2 \o If(c3, "me_direct_fallback")
       p4 == p3 \o CoverageGaps
       p5 == p4 \o If(c5, "me_split_traffic")
       p6 == p5 \o If(c6, "stale_stats")
       p7 == p6 \o If(c7, "stale_runtime")
       p8 == p7 \o If(c8, "stale_upstreams")
       p9 == p8 \o If(c9, "stale_security")
       p10 == p9 \o If(c10, "connections_bad_total")
       p11 == p10 \o If(c11, "cap_missing")
<1>0. /\ c1 \in BOOLEAN /\ c2 \in BOOLEAN /\ c3 \in BOOLEAN /\ c5 \in BOOLEAN /\ c6 \in BOOLEAN
      /\ c7 \in BOOLEAN /\ c8 \in BOOLEAN /\ c9 \in BOOLEAN /\ c10 \in BOOLEAN /\ c11 \in BOOLEAN
  BY DEF FullFallback, SplitTraffic, TopicTroubled, WindowKnown
<1>a. ComputeProblems = p11
  BY DEF ComputeProblems, RateItems
<1>e. p1 = If(c1, "not_ready") /\ p2 = p1 \o If(c2, "read_only") /\ p3 = p2 \o If(c3, "me_direct_fallback") /\ p4 = p3 \o CoverageGaps
      /\ p5 = p4 \o If(c5, "me_split_traffic") /\ p6 = p5 \o If(c6, "stale_stats") /\ p7 = p6 \o If(c7, "stale_runtime") /\ p8 = p7 \o If(c8, "stale_upstreams")
      /\ p9 = p8 \o If(c9, "stale_security") /\ p10 = p9 \o If(c10, "connections_bad_total") /\ p11 = p10 \o If(c11, "cap_missing")
  OBVIOUS
<1> HIDE DEF c1, c2, c3, c5, c6, c7, c8, c9, c10, c11, p1, p2, p3, p4, p5, p6, p7, p8, p9, p10, p11
<1>1. p1 \in Seq(Keys) /\ (\A x : x \in ToSet(p1) <=> c1 /\ x = "not_ready")
  <2> DEFINE k == "not_ready"
  <2>1. k \in Keys /\ c1 \in BOOLEAN /\ p1 = If(c1, k)
    BY <1>0, <1>e DEF Keys
  <2> HIDE DEF k
  <2>2. If(c1, k) \in Seq(Keys) /\ (\A x : x \in ToSet(If(c1, k)) <=> c1 /\ x = k)
    BY <2>1, Listed
  <2> QED
    BY <2>1, <2>2 DEF k
<1>2. p2 \in Seq(Keys) /\ (\A x : x \in ToSet(p2) <=> x \in ToSet(p1) \/ (c2 /\ x = "read_only"))
  <2> DEFINE k == "read_only"
  <2>1. k \in Keys /\ c2 \in BOOLEAN /\ p1 \in Seq(Keys) /\ p2 = p1 \o If(c2, k)
    BY <1>0, <1>e, <1>1 DEF Keys
  <2> HIDE DEF k
  <2>2. p2 \in Seq(Keys) /\ (\A x : x \in ToSet(p2) <=> x \in ToSet(p1) \/ (c2 /\ x = k))
    BY <2>1, ListedNext
  <2> QED
    BY <2>2 DEF k
<1>3. p3 \in Seq(Keys) /\ (\A x : x \in ToSet(p3) <=> x \in ToSet(p2) \/ (c3 /\ x = "me_direct_fallback"))
  <2> DEFINE k == "me_direct_fallback"
  <2>1. k \in Keys /\ c3 \in BOOLEAN /\ p2 \in Seq(Keys) /\ p3 = p2 \o If(c3, k)
    BY <1>0, <1>e, <1>2 DEF Keys
  <2> HIDE DEF k
  <2>2. p3 \in Seq(Keys) /\ (\A x : x \in ToSet(p3) <=> x \in ToSet(p2) \/ (c3 /\ x = k))
    BY <2>1, ListedNext
  <2> QED
    BY <2>2 DEF k
<1>4. p4 \in Seq(Keys) /\ (\A x : x \in ToSet(p4) <=> x \in ToSet(p3) \/ x \in ToSet(CoverageGaps))
  <2>1. CoverageGaps \in Seq(Keys)
    BY GapsListed
  <2>2. p3 \o CoverageGaps \in Seq(Keys) /\ ToSet(p3 \o CoverageGaps) = ToSet(p3) \cup ToSet(CoverageGaps)
    BY <1>3, <2>1, ElementsJoined
  <2> QED
    BY <1>e, <2>2
<1>5. p5 \in Seq(Keys) /\ (\A x : x \in ToSet(p5) <=> x \in ToSet(p4) \/ (c5 /\ x = "me_split_traffic"))
  <2> DEFINE k == "me_split_traffic"
  <2>1. k \in Keys /\ c5 \in BOOLEAN /\ p4 \in Seq(Keys) /\ p5 = p4 \o If(c5, k)
    BY <1>0, <1>e, <1>4 DEF Keys
  <2> HIDE DEF k
  <2>2. p5 \in Seq(Keys) /\ (\A x : x \in ToSet(p5) <=> x \in ToSet(p4) \/ (c5 /\ x = k))
    BY <2>1, ListedNext
  <2> QED
    BY <2>2 DEF k
<1>6. p6 \in Seq(Keys) /\ (\A x : x \in ToSet(p6) <=> x \in ToSet(p5) \/ (c6 /\ x = "stale_stats"))
  <2> DEFINE k == "stale_stats"
  <2>1. k \in Keys /\ c6 \in BOOLEAN /\ p5 \in Seq(Keys) /\ p6 = p5 \o If(c6, k)
    BY <1>0, <1>e, <1>5 DEF Keys
  <2> HIDE DEF k
  <2>2. p6 \in Seq(Keys) /\ (\A x : x \in ToSet(p6) <=> x \in ToSet(p5) \/ (c6 /\ x = k))
    BY <2>1, ListedNext
  <2> QED
    BY <2>2 DEF k
<1>7. p7 \in Seq(Keys) /\ (\A x : x \in ToSet(p7) <=> x \in ToSet(p6) \/ (c7 /\ x = "stale_runtime"))
  <2> DEFINE k == "stale_runtime"
  <2>1. k \in Keys /\ c7 \in BOOLEAN /\ p6 \in Seq(Keys) /\ p7 = p6 \o If(c7, k)
    BY <1>0, <1>e, <1>6 DEF Keys
  <2> HIDE DEF k
  <2>2. p7 \in Seq(Keys) /\ (\A x : x \in ToSet(p7) <=> x \in ToSet(p6) \/ (c7 /\ x = k))
    BY <2>1, ListedNext
  <2> QED
    BY <2>2 DEF k
<1>8. p8 \in Seq(Keys) /\ (\A x : x \in ToSet(p8) <=> x \in ToSet(p7) \/ (c8 /\ x = "stale_upstreams"))
  <2> DEFINE k == "stale_upstreams"
  <2>1. k \in Keys /\ c8 \in BOOLEAN /\ p7 \in Seq(Keys) /\ p8 = p7 \o If(c8, k)
    BY <1>0, <1>e, <1>7 DEF Keys
  <2> HIDE DEF k
  <2>2. p8 \in Seq(Keys) /\ (\A x : x \in ToSet(p8) <=> x \in ToSet(p7) \/ (c8 /\ x = k))
    BY <2>1, ListedNext
  <2> QED
    BY <2>2 DEF k
<1>9. p9 \in Seq(Keys) /\ (\A x : x \in ToSet(p9) <=> x \in ToSet(p8) \/ (c9 /\ x = "stale_security"))
  <2> DEFINE k == "stale_security"
  <2>1. k \in Keys /\ c9 \in BOOLEAN /\ p8 \in Seq(Keys) /\ p9 = p8 \o If(c9, k)
    BY <1>0, <1>e, <1>8 DEF Keys
  <2> HIDE DEF k
  <2>2. p9 \in Seq(Keys) /\ (\A x : x \in ToSet(p9) <=> x \in ToSet(p8) \/ (c9 /\ x = k))
    BY <2>1, ListedNext
  <2> QED
    BY <2>2 DEF k
<1>10. p10 \in Seq(Keys) /\ (\A x : x \in ToSet(p10) <=> x \in ToSet(p9) \/ (c10 /\ x = "connections_bad_total"))
  <2> DEFINE k == "connections_bad_total"
  <2>1. k \in Keys /\ c10 \in BOOLEAN /\ p9 \in Seq(Keys) /\ p10 = p9 \o If(c10, k)
    BY <1>0, <1>e, <1>9 DEF Keys
  <2> HIDE DEF k
  <2>2. p10 \in Seq(Keys) /\ (\A x : x \in ToSet(p10) <=> x \in ToSet(p9) \/ (c10 /\ x = k))
    BY <2>1, ListedNext
  <2> QED
    BY <2>2 DEF k
<1>11. p11 \in Seq(Keys) /\ (\A x : x \in ToSet(p11) <=> x \in ToSet(p10) \/ (c11 /\ x = "cap_missing"))
  <2> DEFINE k == "cap_missing"
  <2>1. k \in Keys /\ c11 \in BOOLEAN /\ p10 \in Seq(Keys) /\ p11 = p10 \o If(c11, k)
    BY <1>0, <1>e, <1>10 DEF Keys
  <2> HIDE DEF k
  <2>2. p11 \in Seq(Keys) /\ (\A x : x \in ToSet(p11) <=> x \in ToSet(p10) \/ (c11 /\ x = k))
    BY <2>1, ListedNext
  <2> QED
    BY <2>2 DEF k
<1>12. \A x : x \in ToSet(CoverageGaps) <=> ~FullFallback /\ LowRoutes # {} /\ x = "me_coverage_low"
  BY GapsListed
<1>13. \A x : x \in ToSet(p11) <=>
         \/ c1 /\ x = "not_ready"
         \/ c2 /\ x = "read_only"
         \/ c3 /\ x = "me_direct_fallback"
         \/ ~FullFallback /\ LowRoutes # {} /\ x = "me_coverage_low"
         \/ c5 /\ x = "me_split_traffic"
         \/ c6 /\ x = "stale_stats"
         \/ c7 /\ x = "stale_runtime"
         \/ c8 /\ x = "stale_upstreams"
         \/ c9 /\ x = "stale_security"
         \/ c10 /\ x = "connections_bad_total"
         \/ c11 /\ x = "cap_missing"
  BY <1>1, <1>2, <1>3, <1>4, <1>5, <1>6, <1>7, <1>8, <1>9, <1>10, <1>11, <1>12
<1> QED
  BY <1>a, <1>11, <1>13 DEF c1, c2, c3, c5, c6, c7, c8, c9, c10, c11

\* The list with the reason of the ME pool.
LEMMA ReasonListed ==
    ASSUME PulseInv, Have("stats")
    PROVE  \A x : x \in ToSet(Problems) <=>
              \/ x \in ToSet(ComputeProblems)
              \/ /\ MeReasonNow # "none" /\ x = "me_runtime"
                 /\ ~(MeReasonNow = "fallback" /\ "me_direct_fallback" \in ToSet(ComputeProblems))
                 /\ ~(MeReasonNow = "coverage" /\ "me_coverage_low" \in ToSet(ComputeProblems))
<1> DEFINE items == ComputeProblems
           reason == MeReasonNow
           covered == \/ reason = "fallback" /\ "me_direct_fallback" \in ToSet(items)
                      \/ reason = "coverage" /\ "me_coverage_low" \in ToSet(items)
<1>1. items \in Seq(Keys)
  BY ProblemsListed
<1>2. Problems = AddMeRuntimeProblem(items, reason)
  BY DEF Problems
<1> HIDE DEF items, reason
<1>3. \A k : Contains(items, k) <=> k \in ToSet(items)
  <2>1. DOMAIN items = 1..Len(items)
    BY <1>1
  <2> QED
    BY <2>1 DEF Contains, ToSet
<1>4. Problems = IF reason = "none" \/ covered THEN items ELSE <<"me_runtime">> \o items
  BY <1>2, <1>3 DEF AddMeRuntimeProblem
<1> DEFINE v == <<"me_runtime">>
<1>5. v \in Seq(Keys) /\ ToSet(v) = {"me_runtime"}
  BY ElementsOf DEF Keys
<1>6. Problems = IF reason = "none" \/ covered THEN items ELSE v \o items
  BY <1>4
<1> HIDE DEF v
<1>7. ToSet(v \o items) = ToSet(v) \cup ToSet(items)
  BY <1>1, <1>5, ElementsJoined
<1>8. \A x : x \in ToSet(Problems) <=>
           \/ x \in ToSet(items)
           \/ reason # "none" /\ x = "me_runtime" /\ ~covered
  BY <1>5, <1>6, <1>7
<1> QED
  BY <1>8 DEF items, reason

\* The banner and the list of problems.
LEMMA ProblemsAgree == ASSUME PulseInv PROVE HeroAgreesWithProblems
<1> DEFINE degraded == \/ Have("stats") /\ P.health = "read_only"
                       \/ TopicTroubled(Snap("runtime"))
                       \/ TopicTroubled(Snap("upstreams"))
                       \/ MeReasonNow # "none"
                       \/ \E x \in DOMAIN DcRows : DcCoverageState(DcRows[x]) # "ok"
           hero == HealthHero
<1>1. hero = ComputeHealthHero(degraded)
  BY DEF HealthHero
<1> HIDE DEF degraded, hero
<1>2. /\ hero.label = "degraded" => Snap("stats") = "live" /\ degraded
      /\ hero.label = "ok" => /\ Snap("stats") = "live" /\ ~degraded
                              /\ P.ready \in {"null", "ready"} /\ P.health \notin {"bad", "null"}
  BY <1>1, HeroSays
<1>3. Snap("stats") = "live" => Have("stats")
  BY DEF Have, Snap, TopicArrived
<1>4. \A k \in ToSet(Problems) : k \in Loud <=> k # "cap_missing"
  BY DEF Loud, ProblemSeverity
<1>5. \A x \in DOMAIN DcRows : DcRows[x] \in RouteKinds
  BY RoutesKnown
<1>6. ASSUME hero.label = "degraded", NoRouteUnwanted PROVE Loud # {}
  <2>1. Have("stats") /\ degraded
    BY <1>2, <1>3, <1>6
  <2> SUFFICES \E k \in ToSet(Problems) : k # "cap_missing"
    BY <1>4
  <2>2. \A x : x \in ToSet(Problems) <=>
              \/ x \in ToSet(ComputeProblems)
              \/ /\ MeReasonNow # "none" /\ x = "me_runtime"
                 /\ ~(MeReasonNow = "fallback" /\ "me_direct_fallback" \in ToSet(ComputeProblems))
                 /\ ~(MeReasonNow = "coverage" /\ "me_coverage_low" \in ToSet(ComputeProblems))
    BY <2>1, ReasonListed
  <2>3. CASE P.health = "read_only"
    <3>1. "read_only" \in ToSet(ComputeProblems)
      BY <2>3, ProblemsListed
    <3> QED
      BY <2>2, <3>1
  <2>4. CASE TopicTroubled(Snap("runtime"))
    <3>1. "stale_runtime" \in ToSet(ComputeProblems)
      BY <2>4, ProblemsListed
    <3> QED
      BY <2>2, <3>1
  <2>5. CASE TopicTroubled(Snap("upstreams"))
    <3>1. "stale_upstreams" \in ToSet(ComputeProblems)
      BY <2>5, ProblemsListed
    <3> QED
      BY <2>2, <3>1
  <2>6. CASE MeReasonNow # "none"
    BY <2>2, <2>6
  <2>7. ASSUME NEW x \in DOMAIN DcRows, DcCoverageState(DcRows[x]) # "ok"
        PROVE  \E k \in ToSet(Problems) : k # "cap_missing"
    <3>1. DcRows[x].required > 0 /\ DcRows[x].cov < 100
      BY <1>5, <1>6, <2>7, RouteVerdicts DEF NoRouteUnwanted
    <3>2. LowRoutes # {}
      BY <3>1 DEF LowRoutes
    <3>3. \/ "me_direct_fallback" \in ToSet(ComputeProblems)
          \/ "me_coverage_low" \in ToSet(ComputeProblems)
      BY <3>2, ProblemsListed
    <3> QED
      BY <2>2, <3>3
  <2> QED
    BY <2>1, <2>3, <2>4, <2>5, <2>6, <2>7 DEF degraded
<1>7. ASSUME hero.label = "ok", NEW k \in Loud
      PROVE  k \in {"me_split_traffic", "stale_security", "connections_bad_total"}
  <2>1. /\ Have("stats") /\ Snap("stats") = "live" /\ ~degraded
        /\ P.ready \in {"null", "ready"}
    BY <1>2, <1>3, <1>7
  <2>2. /\ P.health # "read_only" /\ ~TopicTroubled(Snap("runtime")) /\ ~TopicTroubled(Snap("upstreams"))
        /\ MeReasonNow = "none" /\ \A x \in DOMAIN DcRows : DcCoverageState(DcRows[x]) = "ok"
        /\ ~TopicTroubled(Snap("stats"))
    BY <2>1 DEF degraded, TopicTroubled
  <2>3. \A x \in DOMAIN DcRows : DcRows[x].alive # 0 /\ ~(DcRows[x].alive < DcRows[x].floor) /\ ~(DcRows[x].cov < 100)
    BY <1>5, <2>2, RouteVerdicts
  <2>4. ~FullFallback /\ LowRoutes = {}
    BY <2>3 DEF FullFallback, LowRoutes
  <2>5. k \in ToSet(Problems) /\ k # "cap_missing"
    BY <1>4 DEF Loud
  <2>6. k \in ToSet(ComputeProblems)
    BY <2>1, <2>2, <2>5, ReasonListed
  <2> QED
    BY <2>1, <2>2, <2>4, <2>5, <2>6, ProblemsListed
<1> QED
  BY <1>6, <1>7 DEF HeroAgreesWithProblems, hero

\* What the menu of the server pages asks the panel for.
MenuNames == {"info", "updates", "host", "config"}

(***************************************************************************)
(* The menu: the answer it holds is one the panel can give, and a request   *)
(* that has succeeded left one.                                             *)
(***************************************************************************)
MenuInv ==
    /\ DOMAIN menu = MenuNames
    /\ \A n \in MenuNames :
          /\ menu[n].q \in {"pending", "ok", "failed"}
          /\ menu[n].data = {} \/ \E d \in MenuQueries[n] : menu[n].data = {d}
          /\ menu[n].q = "ok" => menu[n].data # {}
          /\ menu[n] = [q |-> menu[n].q, data |-> menu[n].data]

\* The requests of the menu.
LEMMA MenuRequests == DOMAIN MenuQueries = MenuNames
  BY DEF MenuQueries, MenuNames

\* An answer, or a failure after which the last answer is kept.
LEMMA MenuAnswered ==
    ASSUME MenuInv, NEW n \in MenuNames, MenuAnswers(n)
    PROVE  MenuInv'
<1>1. ASSUME NEW d \in MenuQueries[n], menu' = [menu EXCEPT ![n] = [q |-> "ok", data |-> {d}]]
      PROVE  MenuInv'
  <2>1. DOMAIN menu' = MenuNames
    BY <1>1 DEF MenuInv
  <2>2. menu'[n].q = "ok" /\ menu'[n].data = {d} /\ menu'[n] = [q |-> "ok", data |-> {d}]
    BY <1>1 DEF MenuInv
  <2>3. \A x \in MenuNames \ {n} : menu'[x] = menu[x]
    BY <1>1 DEF MenuInv
  <2> QED
    BY <2>1, <2>2, <2>3 DEF MenuInv
<1>2. ASSUME menu' = [menu EXCEPT ![n].q = "failed"] PROVE MenuInv'
  <2>1. DOMAIN menu' = MenuNames /\ \A x \in MenuNames \ {n} : menu'[x] = menu[x]
    BY <1>2 DEF MenuInv
  <2>2. menu'[n] = [menu[n] EXCEPT !.q = "failed"]
    BY <1>2 DEF MenuInv
  <2>3. menu[n] = [q |-> menu[n].q, data |-> menu[n].data]
    BY DEF MenuInv
  <2>4. menu'[n] = [q |-> "failed", data |-> menu[n].data]
    BY <2>2, <2>3
  <2> QED
    BY <2>1, <2>4 DEF MenuInv
<1> QED
  BY <1>1, <1>2 DEF MenuAnswers

\* The invariant of the server pages.
LEMMA ServerMenu == ServerPagesSpec => []MenuInv
<1>1. ServerPagesInit => MenuInv
  <2> SUFFICES ASSUME ServerPagesInit PROVE MenuInv
    OBVIOUS
  <2>1. menu = [n \in MenuNames |-> Unanswered]
    BY MenuRequests DEF ServerPagesInit
  <2>2. \A n \in MenuNames : menu[n] = [q |-> "pending", data |-> {}]
    BY <2>1 DEF Unanswered
  <2> QED
    BY <2>1, <2>2 DEF MenuInv
<1>2. MenuInv /\ [ServerPagesNext]_serverPageVars => MenuInv'
  <2> SUFFICES ASSUME MenuInv, [ServerPagesNext]_serverPageVars PROVE MenuInv'
    OBVIOUS
  <2>1. CASE UNCHANGED menu
    BY <2>1 DEF MenuInv
  <2>2. ASSUME NEW n \in DOMAIN MenuQueries, MenuAnswers(n) PROVE MenuInv'
    BY <2>2, MenuRequests, MenuAnswered
  <2> QED
    BY <2>1, <2>2 DEF ServerPagesNext, serverPageVars
<1> QED
  BY <1>1, <1>2, PTL DEF ServerPagesSpec

\* The answer on screen.
LEMMA MenuHeld ==
    ASSUME MenuInv, NEW n \in MenuNames
    PROVE  /\ Held(n) => Answer(n) \in MenuQueries[n]
           /\ menu[n].q = "ok" => Held(n)
           /\ menu[n].q \in {"pending", "ok", "failed"}
<1>1. ASSUME NEW d \in MenuQueries[n], menu[n].data = {d} PROVE Answer(n) = d
  BY <1>1 DEF Answer
<1> QED
  BY <1>1 DEF MenuInv, Held

\* The security pages, the menu and the diagnostics on the access to the API.
LEMMA AccessAgrees ==
    ASSUME PulseInv, NEW loopback \in BOOLEAN, NEW page, page = ServerSecurityPage(loopback)
    PROVE  /\ SecurityApiLabel = "open" <=> page.kind = "exposed"
           /\ page.kind = "exposed" <=> SecurityHero.verdict = "open"
           /\ page.hero.level = "error" <=> page.card = "open"
           /\ page.card = "open" =>
                page.hero.auth = "not_configured" /\ page.hero.access = "all_networks" /\ ~SecurityRows.api
           /\ PostureNow.known /\ (TlsUsable \/ ~TlsHeld) => page.hero.level = SecurityHero.level
           /\ page.hero.level = "ok" /\ page.shows = "cards" => ServerTlsCard # "review"
           /\ page.shows = "cards" /\ ~page.stale => Snap("security") = "live"
<1> DEFINE p == PostureNow
           kind == ApiProtectionKind(p, loopback)
           bad == TlsBad > 0
           sbad == ServerTlsBad > 0
           hero == SecurityHero
<1>1. /\ p.known \in BOOLEAN /\ p.whitelist \in BOOLEAN /\ p.auth \in BOOLEAN /\ p.readonly \in BOOLEAN
      /\ p.known => Have("security") /\ p = P.posture
      /\ ~p.known => ~p.whitelist /\ ~p.auth /\ ~p.readonly
  BY PostureKnown
<1>2. /\ hero.level = IF p.known
                      THEN IF ~p.whitelist /\ ~p.auth /\ ~p.readonly THEN "error"
                           ELSE IF ~p.whitelist \/ bad THEN "warn" ELSE "ok"
                      ELSE "warn"
      /\ hero.verdict = IF ~p.known THEN "unknown"
                        ELSE IF hero.level = "error" THEN "open"
                        ELSE IF bad THEN "tls" ELSE IF hero.level = "warn" THEN "weak" ELSE "restricted"
  BY DEF SecurityHero, SecurityLevel
<1>3. SecurityApiLabel = IF ~p.known THEN "none"
                         ELSE IF p.readonly THEN "read_only"
                         ELSE IF p.whitelist THEN "whitelist"
                         ELSE IF p.auth THEN "auth" ELSE "open"
  BY DEF SecurityApiLabel
<1>4. kind = IF ~p.known THEN "unknown"
             ELSE IF p.whitelist /\ p.auth THEN "layered"
             ELSE IF p.whitelist THEN IF loopback THEN "local" ELSE "whitelist"
             ELSE IF p.auth THEN "auth"
             ELSE IF p.readonly THEN "read_only" ELSE "exposed"
  BY DEF ApiProtectionKind
<1>5. /\ page.kind = kind /\ page.card = IF kind = "exposed" THEN "open" ELSE "restricted"
      /\ page.hero.access = AccessFact(kind) /\ page.hero.auth = AuthFact(kind)
      /\ page.shows = IF ~Have("security") THEN "loading" ELSE IF p.known THEN "cards" ELSE "unavailable"
  BY DEF ServerSecurityPage, ProtectionHero, AccessCard
<1>6. page.hero.level = IF ~p.known THEN IF sbad THEN "warn" ELSE "ok"
                        ELSE IF ~p.whitelist /\ ~p.auth /\ ~p.readonly THEN "error"
                        ELSE IF ~p.whitelist \/ sbad THEN "warn" ELSE "ok"
  BY DEF ServerSecurityPage, ProtectionHero, SecurityLevel
<1>7. page.stale <=> Have("security") /\ TopicTroubled(Snap("security"))
  BY DEF ServerSecurityPage
<1>8. SecurityRows.api <=> p.whitelist \/ p.auth
  BY DEF SecurityRows
<1>9. ServerTlsCard = "review" => sbad
  BY DEF ServerTlsCard
<1>10. TlsUsable \/ ~TlsHeld => (sbad <=> bad)
  BY DEF ServerTlsBad, TlsUsable, TlsBad
<1>11. kind = "exposed" => AuthFact(kind) = "not_configured" /\ AccessFact(kind) = "all_networks"
  BY DEF AuthFact, AccessFact
<1>12. Have("security") /\ ~TopicTroubled(Snap("security")) => Snap("security") = "live"
  BY DEF Have, Snap, TopicArrived, TopicTroubled
<1> HIDE DEF p, kind, bad, sbad, hero
<1>13. kind = "exposed" <=> p.known /\ ~p.whitelist /\ ~p.auth /\ ~p.readonly
  BY <1>1, <1>4
<1>14. hero.verdict = "open" <=> p.known /\ ~p.whitelist /\ ~p.auth /\ ~p.readonly
  BY <1>1, <1>2
<1>15. SecurityApiLabel = "open" <=> p.known /\ ~p.whitelist /\ ~p.auth /\ ~p.readonly
  BY <1>1, <1>3
<1>16. page.hero.level = "error" <=> page.card = "open"
  BY <1>1, <1>5, <1>6, <1>13
<1>17. page.card = "open" =>
          page.hero.auth = "not_configured" /\ page.hero.access = "all_networks" /\ ~SecurityRows.api
  BY <1>1, <1>5, <1>8, <1>11, <1>13
<1>18. p.known /\ (TlsUsable \/ ~TlsHeld) => page.hero.level = hero.level
  BY <1>1, <1>2, <1>6, <1>10
<1>19. page.hero.level = "ok" /\ page.shows = "cards" => ServerTlsCard # "review"
  BY <1>1, <1>5, <1>6, <1>9
<1>20. page.shows = "cards" /\ ~page.stale => Snap("security") = "live"
  BY <1>1, <1>5, <1>7, <1>12
<1> QED
  BY <1>5, <1>13, <1>14, <1>15, <1>16, <1>17, <1>18, <1>19, <1>20 DEF p, hero

\* The route on the menu of the server is the one the diagnostics show.
LEMMA RouteAgrees ==
    ASSUME PulseInv
    PROVE  /\ RouteSummary.mode # "unknown" => Snap("runtime") = "live"
           /\ RouteSummary.mode = "fallback" => MeMode = "fallback"
           /\ RouteSummary.mode = "me" /\ P.gates.use => MeMode = "middle" /\ HealthHero.route \in {"me", "dash"}
           /\ RouteSummary.flows /\ UpstreamHealthTone = "good" /\ DOMAIN StatsUpstreams = {} => ~RouteSummary.attention
<1> DEFINE fresh == ~TopicTroubled(Snap("runtime"))
           mode == RuntimeRouteMode(IF fresh /\ Have("runtime") THEN P.gates ELSE NoGates)
           egress == SummarizeEgress(fresh /\ Have("runtime") /\ P.upqw = "data", P.upq)
           g == P.gates
<1>1. /\ RouteSummary.mode = mode
      /\ RouteSummary.attention <=> egress.known /\ egress.healthy < egress.total
  BY DEF RouteSummary
<1>2. /\ g.use \in BOOLEAN /\ g.reroute \in BOOLEAN /\ g.mode \in {"direct", "middle", "unknown"}
      /\ g = NoGates => g.mode = "unknown"
      /\ NoGates.mode = "unknown" /\ ~NoGates.use /\ ~NoGates.reroute
  BY GatesNow
<1>3. mode # "unknown" => Have("runtime") /\ fresh /\ mode = RuntimeRouteMode(g)
  <2>1. RuntimeRouteMode(NoGates) = "unknown"
    BY <1>2 DEF RuntimeRouteMode
  <2> QED
    BY <2>1
<1>4. Have("runtime") /\ fresh => Snap("runtime") = "live"
  BY DEF Have, Snap, TopicArrived, TopicTroubled
<1>5. RuntimeRouteMode(g) = IF g.mode = "middle" /\ ~g.reroute THEN "me"
                            ELSE IF g.mode = "direct" THEN IF g.reroute THEN "fallback" ELSE "direct"
                            ELSE "unknown"
  BY DEF RuntimeRouteMode
<1> DEFINE w == P.gates # NoGates /\ Have("upstreams") /\ P.mew = "data"
<1>6. Have("runtime") /\ fresh => MeMode = MeRouteMode(g, w)
  BY <1>4 DEF MeMode, MeGates, FreshGates
<1>7. MeRouteMode(g, w) =
        IF g.mode = "direct" /\ ~g.use /\ ~g.reroute THEN "direct"
        ELSE IF g.reroute \/ (g.use /\ g.mode = "direct") THEN "fallback"
        ELSE IF g.use \/ w THEN "middle" ELSE "unknown"
  BY DEF MeRouteMode
<1>8. HealthHero.route = IF Have("runtime") THEN RouteModeValue(g) ELSE "dash"
  <2> DEFINE degraded == \/ Have("stats") /\ P.health = "read_only"
                         \/ TopicTroubled(Snap("runtime"))
                         \/ TopicTroubled(Snap("upstreams"))
                         \/ MeReasonNow # "none"
                         \/ \E x \in DOMAIN DcRows : DcCoverageState(DcRows[x]) # "ok"
  <2>1. HealthHero = ComputeHealthHero(degraded)
    BY DEF HealthHero
  <2> HIDE DEF degraded
  <2> QED
    BY <2>1, HeroSays
<1>9. RouteModeValue(g) = IF g = NoGates THEN "dash"
                          ELSE IF ~g.use THEN "direct"
                          ELSE IF g.reroute \/ g.mode = "direct" THEN "fallback" ELSE "me"
  BY DEF RouteModeValue
<1>10. ASSUME egress.known, UpstreamHealthTone = "good", DOMAIN StatsUpstreams = {}
       PROVE  ~(egress.healthy < egress.total)
  <2>1. fresh /\ Have("runtime") /\ P.upqw = "data"
    BY <1>10 DEF SummarizeEgress
  <2>2. QualityUpstreams = P.upq
    BY <2>1 DEF QualityUpstreams
  <2>3. \A x \in DOMAIN P.upq : P.upq[x]
    BY <1>10, <2>2, RowsAgree
  <2>4. {x \in DOMAIN P.upq : P.upq[x]} = DOMAIN P.upq
    BY <2>3
  <2>5. egress.total = Cardinality(DOMAIN P.upq) /\ egress.healthy = Cardinality({x \in DOMAIN P.upq : P.upq[x]})
    BY <2>1 DEF SummarizeEgress
  <2>6. Cardinality(DOMAIN P.upq) \in Nat
    BY UpstreamRows, FS_CardinalityType
  <2> HIDE DEF egress
  <2>7. egress.healthy = egress.total /\ egress.total \in Nat
    BY <2>4, <2>5, <2>6
  <2> QED
    BY <2>7
<1> HIDE DEF fresh, mode, egress, g, w
<1>11. mode # "unknown" => Snap("runtime") = "live"
  BY <1>3, <1>4
<1>12. mode = "fallback" => MeMode = "fallback"
  BY <1>2, <1>3, <1>5, <1>6, <1>7
<1>13. mode = "me" /\ g.use => MeMode = "middle" /\ HealthHero.route \in {"me", "dash"}
  BY <1>2, <1>3, <1>5, <1>6, <1>7, <1>8, <1>9
<1>14. UpstreamHealthTone = "good" /\ DOMAIN StatsUpstreams = {} => ~RouteSummary.attention
  BY <1>1, <1>10
<1> QED
  BY <1>1, <1>11, <1>12, <1>13, <1>14 DEF g

\* The status of the menu, its updates card and its facts.
LEMMA StatusAgrees ==
    ASSUME MenuInv
    PROVE  /\ ServerStatus = "ok" =>
                ~HasUpdates /\ ActiveUpdateRun = "none" /\ menu["info"].q = "ok" /\ UpdatesCard.state = "ok"
           /\ ServerStatus \in {"active", "warn"} => UpdatesCard.state = ServerStatus
           /\ SummaryFacts.panel => HasUpdates
<1>1. menu["info"].q \in {"pending", "ok", "failed"}
  BY MenuHeld DEF MenuNames
<1>2. menu["info"].q = "failed" => TelemtUnavailable
  BY DEF TelemtUnavailable
<1>3. UpdatesCard.state = IF ActiveUpdateRun # "none" THEN "active" ELSE IF HasUpdates THEN "warn" ELSE "ok"
  BY DEF UpdatesCard
<1>4. ServerStatus = IF TelemtUnavailable THEN "error"
                     ELSE IF ActiveUpdateRun # "none" THEN "active"
                     ELSE IF HasUpdates THEN "warn"
                     ELSE IF "pending" \in {menu["info"].q, menu["updates"].q} THEN "muted" ELSE "ok"
  BY DEF ServerStatus
<1>5. SummaryFacts.panel => HasUpdates
  <2>1. SummaryFacts.panel => NewestAvailableRelease("panel") > 0
    BY DEF SummaryFacts
  <2>2. "panel" \in ToSet(Targets)
    BY ElementsOf DEF Targets
  <2> QED
    BY <2>1, <2>2 DEF HasUpdates
<1>6. ServerStatus = "ok" => /\ ~TelemtUnavailable /\ ActiveUpdateRun = "none" /\ ~HasUpdates
                             /\ menu["info"].q # "pending"
  BY <1>4
<1>7. ServerStatus = "ok" => menu["info"].q = "ok" /\ UpdatesCard.state = "ok"
  BY <1>1, <1>2, <1>3, <1>6
<1>8. ServerStatus \in {"active", "warn"} => UpdatesCard.state = ServerStatus
  BY <1>3, <1>4
<1> QED
  BY <1>5, <1>6, <1>7, <1>8

\* The platform page: its header, its groups and the fact on the menu.
LEMMA PlatformAgrees ==
    ASSUME MenuInv, PlatformPage.shows = "page"
    PROVE  /\ PlatformPage.automated <=> \A i \in DOMAIN PlatformPage.groups :
                \A k \in DOMAIN PlatformPage.groups[i] : PlatformPage.groups[i][k] = "ok"
           /\ PlatformPage.automated <=> SummaryFacts.manual = 0
<1> DEFINE A == Answer("host")
           groups == PlatformPage.groups
<1>1. menu["host"].q \notin {"pending", "failed"}
  BY DEF PlatformPage
<1>2. Held("host") /\ A \in MenuQueries["host"]
  BY <1>1, MenuHeld DEF MenuNames
<1>3. A \subseteq Caps
  <2>1. MenuQueries["host"] = {Caps, {}} \cup {Caps \ {c} : c \in Caps}
    BY DEF MenuQueries
  <2> QED
    BY <1>2, <2>1
<1>4. IsFiniteSet(Caps)
  <2>1. \A x : IsFiniteSet({x})
    BY FS_Singleton
  <2>2. Caps = {"start_telemt"} \cup ({"stop_telemt"} \cup ({"restart_telemt"} \cup ({"restart_panel"} \cup
                 ({"log_tail"} \cup ({"log_stream"} \cup {"self_update"})))))
    BY DEF Caps
  <2>3. IsFiniteSet({"log_stream"} \cup {"self_update"})
    BY <2>1, FS_Union
  <2>4. IsFiniteSet({"log_tail"} \cup ({"log_stream"} \cup {"self_update"}))
    BY <2>1, <2>3, FS_Union
  <2>5. IsFiniteSet({"restart_panel"} \cup ({"log_tail"} \cup ({"log_stream"} \cup {"self_update"})))
    BY <2>1, <2>4, FS_Union
  <2>6. IsFiniteSet({"restart_telemt"} \cup ({"restart_panel"} \cup ({"log_tail"} \cup
                      ({"log_stream"} \cup {"self_update"}))))
    BY <2>1, <2>5, FS_Union
  <2>7. IsFiniteSet({"stop_telemt"} \cup ({"restart_telemt"} \cup ({"restart_panel"} \cup ({"log_tail"} \cup
                      ({"log_stream"} \cup {"self_update"})))))
    BY <2>1, <2>6, FS_Union
  <2> QED
    BY <2>1, <2>2, <2>7, FS_Union
<1>5. /\ Cardinality(A) \in Nat /\ Cardinality(Caps) \in Nat
      /\ Cardinality(A) = Cardinality(Caps) <=> A = Caps
  <2>1. IsFiniteSet(A) /\ (Cardinality(Caps) = Cardinality(A) => Caps = A)
    BY <1>3, <1>4, FS_Subset
  <2> QED
    BY <1>4, <2>1, FS_CardinalityType
<1>6. HostCapabilityCount.available = Cardinality(A) /\ HostCapabilityCount.total = Cardinality(Caps)
  BY <1>2 DEF HostCapabilityCount
<1>7. PlatformPage.automated <=> HostCapabilityCount.available = HostCapabilityCount.total
  BY <1>1 DEF PlatformPage
<1>8. SummaryFacts.manual = HostCapabilityCount.total - HostCapabilityCount.available
  BY DEF SummaryFacts
<1>9. groups = [i \in DOMAIN CapabilityGroups |-> CapabilityGroup(CapabilityGroups[i])]
  BY <1>1 DEF PlatformPage
<1>10. \A keys : CapabilityGroup(keys) = [k \in keys |-> IF k \in A THEN "ok" ELSE "warn"]
  BY DEF CapabilityGroup
<1>11. /\ DOMAIN CapabilityGroups = 1..3
       /\ CapabilityGroups[1] = {"start_telemt", "stop_telemt", "restart_telemt", "restart_panel"}
       /\ CapabilityGroups[2] = {"log_tail", "log_stream"} /\ CapabilityGroups[3] = {"self_update"}
  BY DEF CapabilityGroups
<1> HIDE DEF A, groups
<1>12. /\ DOMAIN groups = 1..3
       /\ \A i \in 1..3 : DOMAIN groups[i] = CapabilityGroups[i]
       /\ \A i \in 1..3 : \A k \in CapabilityGroups[i] : groups[i][k] = IF k \in A THEN "ok" ELSE "warn"
  BY <1>9, <1>10, <1>11
<1>13. (\A i \in DOMAIN groups : \A k \in DOMAIN groups[i] : groups[i][k] = "ok")
         <=> \A i \in 1..3 : CapabilityGroups[i] \subseteq A
  BY <1>12
<1>14. (\A i \in 1..3 : CapabilityGroups[i] \subseteq A) <=> A = Caps
  <2>1. ASSUME \A i \in 1..3 : CapabilityGroups[i] \subseteq A PROVE A = Caps
    <3>1. CapabilityGroups[1] \subseteq A /\ CapabilityGroups[2] \subseteq A /\ CapabilityGroups[3] \subseteq A
      BY <2>1
    <3> QED
      BY <1>3, <1>11, <3>1 DEF Caps
  <2>2. ASSUME A = Caps, NEW i \in 1..3 PROVE CapabilityGroups[i] \subseteq A
    <3>1. i = 1 \/ i = 2 \/ i = 3
      OBVIOUS
    <3> QED
      BY <1>11, <2>2, <3>1 DEF Caps
  <2> QED
    BY <2>1, <2>2
<1>15. PlatformPage.automated <=> A = Caps
  BY <1>5, <1>6, <1>7
<1>16. PlatformPage.automated <=> SummaryFacts.manual = 0
  BY <1>5, <1>6, <1>7, <1>8
<1> QED
  BY <1>13, <1>14, <1>15, <1>16 DEF groups

\* The server pages and the diagnostics.
LEMMA ServerAgrees == ASSUME PulseInv, MenuInv PROVE ServerAgreesWithPulse
<1>1. ASSUME NEW loopback \in BOOLEAN
      PROVE  LET page == ServerSecurityPage(loopback)
             IN  /\ SecurityApiLabel = "open" <=> page.kind = "exposed"
                 /\ page.kind = "exposed" <=> SecurityHero.verdict = "open"
                 /\ page.hero.level = "error" <=> page.card = "open"
                 /\ page.card = "open" => page.hero.auth = "not_configured" /\ page.hero.access = "all_networks" /\ ~SecurityRows.api
                 /\ PostureNow.known /\ (TlsUsable \/ ~TlsHeld) => page.hero.level = SecurityHero.level
                 /\ page.hero.level = "ok" /\ page.shows = "cards" => ServerTlsCard # "review"
                 /\ page.shows = "cards" /\ ~page.stale => Snap("security") = "live"
  BY AccessAgrees
<1> QED
  BY <1>1, RouteAgrees, StatusAgrees, PlatformAgrees DEF ServerAgreesWithPulse

(***************************************************************************)
(* The hub, the overview, the diagnostic pages and the server pages tell    *)
(* the same of the proxy after any number of frames, failed polls, answers  *)
(* and clicks, although each has code of its own (hubCards.ts,              *)
(* dc.helpers.ts, healthHero.helpers.ts, problems.helpers.ts, the pages of  *)
(* pulse/diag, server/hub.helpers.ts).                                      *)
(***************************************************************************)
THEOREM PagesTellTheSame == ServerPagesSpec => []VerdictsAgree
<1>1. PulseInv /\ MenuInv => VerdictsAgree
  BY PagesAgree, ProblemsAgree, ServerAgrees DEF VerdictsAgree
<1> QED
  BY <1>1, ServerPulse, ServerMenu, PTL

(***************************************************************************)
(* The timeline of the overview, for any log: the function that a recursive *)
(* definition names exists, by the least number for which it would not.     *)
(***************************************************************************)
EventRow(S) == [type : S, latest : Nat, oldest : Nat, count : Nat]

\* A row of one run of the first k events.
RunRow(r, events, k) ==
    /\ r.latest \in 1..k /\ r.oldest \in r.latest..k
    /\ r.count = r.oldest - r.latest + 1
    /\ \A j \in r.latest..r.oldest : events[j] = r.type

\* The rows of the first k events: one run after the other, up to the k-th.
RunRows(rows, events, k) ==
    /\ \A i \in 1..Len(rows) : RunRow(rows[i], events, k)
    /\ \A i \in 1..Len(rows) : i > 1 =>
          rows[i].latest = rows[i - 1].oldest + 1 /\ rows[i].type # rows[i - 1].type
    /\ Len(rows) > 0 => rows[1].latest = 1 /\ rows[Len(rows)].oldest = k
    /\ Len(rows) = 0 <=> k = 0

\* A row, and the row that counts the next event.
LEMMA RowParts ==
    ASSUME NEW S, NEW r \in EventRow(S), NEW k \in Nat,
           NEW t, t = OneMore(r, k)
    PROVE  /\ r.count \in Nat /\ r.type \in S /\ r.latest \in Nat /\ r.oldest \in Nat
           /\ t \in EventRow(S) /\ t.count = r.count + 1 /\ t.type = r.type
           /\ t.latest = r.latest /\ t.oldest = k
<1>1. r.count \in Nat /\ r.type \in S /\ r.latest \in Nat /\ r.oldest \in Nat
  BY DEF EventRow
<1>2. t.count = r.count + 1 /\ t.type = r.type /\ t.latest = r.latest /\ t.oldest = k
  BY DEF EventRow, OneMore
<1>3. r.count + 1 \in Nat
  BY <1>1
<1> QED
  BY <1>1, <1>2, <1>3 DEF EventRow, OneMore

\* The rows after each event.
LEMMA RunsExist ==
    ASSUME NEW events, NEW N, N = Len(events), N \in Nat
    PROVE  \E g : g = [n \in 0..N |-> IF n = 0 THEN <<>> ELSE AddEvent(g[n - 1], n, events[n])]
<1> DEFINE Runs(g, k) == g = [n \in 0..k |-> IF n = 0 THEN <<>> ELSE AddEvent(g[n - 1], n, events[n])]
           T == {k \in 0..N : ~\E g : Runs(g, k)}
<1> SUFFICES \E g : Runs(g, N)
  OBVIOUS
<1>1. CASE T = {}
  BY <1>1
<1>2. CASE T # {}
  <2>1. T \subseteq Nat
    OBVIOUS
  <2> HIDE DEF T
  <2>2. PICK k \in T : \A m \in T : k <= m
    BY <1>2, <2>1, LeastNumber
  <2>3. k \in 0..N /\ ~\E g : Runs(g, k)
    BY <2>2 DEF T
  <2>4. k # 0
    <3>1. Runs([n \in 0..0 |-> <<>>], 0)
      OBVIOUS
    <3> QED
      BY <2>3, <3>1
  <2>5. k - 1 \in 0..N /\ k - 1 \notin T
    BY <2>2, <2>3, <2>4
  <2>6. PICK g : Runs(g, k - 1)
    BY <2>5 DEF T
  <2> DEFINE h == [n \in 0..k |-> IF n = k THEN AddEvent(g[k - 1], k, events[k]) ELSE g[n]]
  <2>7. \A n \in 0..(k - 1) : h[n] = g[n] /\ g[n] = IF n = 0 THEN <<>> ELSE AddEvent(g[n - 1], n, events[n])
    <3>1. \A n \in 0..(k - 1) : h[n] = g[n]
      BY <2>3, <2>4
    <3>2. \A n \in 0..(k - 1) : g[n] = IF n = 0 THEN <<>> ELSE AddEvent(g[n - 1], n, events[n])
      BY <2>6
    <3> QED
      BY <3>1, <3>2
  <2>8. ASSUME NEW n \in 0..k
        PROVE  h[n] = IF n = 0 THEN <<>> ELSE AddEvent(h[n - 1], n, events[n])
    <3>1. CASE n = k
      <4>1. h[k] = AddEvent(g[k - 1], k, events[k])
        BY <2>3
      <4>2. h[k - 1] = g[k - 1]
        BY <2>3, <2>4, <2>7
      <4> QED
        BY <2>4, <3>1, <4>1, <4>2
    <3>2. CASE n # k /\ n = 0
      <4>1. n \in 0..(k - 1) /\ n = 0
        BY <2>3, <3>2
      <4>2. h[n] = g[n] /\ g[n] = <<>>
        BY <2>7, <4>1
      <4> QED
        BY <4>1, <4>2
    <3>3. CASE n # k /\ n # 0
      <4>1. n \in 0..(k - 1) /\ n - 1 \in 0..(k - 1)
        BY <2>3, <3>3
      <4>2. h[n] = AddEvent(g[n - 1], n, events[n]) /\ h[n - 1] = g[n - 1]
        BY <2>7, <3>3, <4>1
      <4> QED
        BY <3>3, <4>2
    <3> QED
      BY <3>1, <3>2, <3>3
  <2>9. h = [n \in 0..k |-> h[n]]
    OBVIOUS
  <2> HIDE DEF h
  <2>10. Runs(h, k)
    BY <2>8, <2>9
  <2> QED
    BY <2>3, <2>10
<1> QED
  BY <1>1, <1>2

\* EventRuns, unfolded.
LEMMA RunsUnfold ==
    ASSUME NEW S, NEW events \in Seq(S), NEW R, R = EventRuns(events)
    PROVE  /\ R[0] = <<>>
           /\ \A n \in 1..Len(events) : R[n] = AddEvent(R[n - 1], n, events[n])
<1> DEFINE N == Len(events)
           Runs(g) == g = [n \in 0..N |-> IF n = 0 THEN <<>> ELSE AddEvent(g[n - 1], n, events[n])]
<1>1. N \in Nat /\ N = Len(events)
  OBVIOUS
<1>2. R = CHOOSE g : Runs(g)
  BY DEF EventRuns
<1> HIDE DEF N
<1>3. \E g : Runs(g)
  BY <1>1, RunsExist
<1>4. Runs(R)
  BY <1>2, <1>3
<1>5. \A n \in 0..N : R[n] = IF n = 0 THEN <<>> ELSE AddEvent(R[n - 1], n, events[n])
  BY <1>4
<1>6. \A n \in 1..N : n \in 0..N /\ n # 0
  BY <1>1
<1>7. 0 \in 0..N
  BY <1>1
<1> QED
  BY <1>5, <1>6, <1>7 DEF N

\* A list whose last row changes.
LEMMA LastChanged ==
    ASSUME NEW E, NEW rows \in Seq(E), NEW n, n = Len(rows), n > 0, NEW r \in E,
           NEW t, t = [rows EXCEPT ![n] = r]
    PROVE  t \in Seq(E) /\ Len(t) = n /\ t[n] = r /\ \A j \in 1..n : j # n => t[j] = rows[j]
<1>1. n \in 1..Len(rows)
  OBVIOUS
<1> QED
  BY <1>1, ExceptSeq

\* A list that gets one more row.
LEMMA OneAppended ==
    ASSUME NEW E, NEW rows \in Seq(E), NEW n, n = Len(rows), NEW r \in E,
           NEW t, t = Append(rows, r)
    PROVE  t \in Seq(E) /\ Len(t) = n + 1 /\ (\A i \in 1..n : t[i] = rows[i]) /\ t[n + 1] = r
  BY AppendProperties

\* One more event: it extends the last run or starts one of its own.
LEMMA EventAdded ==
    ASSUME NEW S, NEW events \in Seq(S), NEW k \in Nat, k + 1 \in 1..Len(events),
           NEW rows \in Seq(EventRow(S)), RunRows(rows, events, k),
           NEW t, t = AddEvent(rows, k + 1, events[k + 1])
    PROVE  t \in Seq(EventRow(S)) /\ RunRows(t, events, k + 1)
<1> DEFINE n == Len(rows)
           event == events[k + 1]
           K == k + 1
<1>1. n \in Nat /\ n = Len(rows) /\ event \in S /\ (rows # <<>> <=> n > 0)
  OBVIOUS
<1>2. \A i \in 1..n : rows[i] \in EventRow(S) /\ rows[i].latest \in Nat /\ rows[i].oldest \in Nat
  <2>1. \A i \in 1..n : rows[i] \in EventRow(S)
    BY ElementOfSeq
  <2> QED
    BY <2>1 DEF EventRow
<1>3. /\ \A i \in 1..n : RunRow(rows[i], events, k)
      /\ \A i \in 1..n : i > 1 =>
            rows[i].latest = rows[i - 1].oldest + 1 /\ rows[i].type # rows[i - 1].type
      /\ n > 0 => rows[1].latest = 1 /\ rows[n].oldest = k
      /\ n = 0 <=> k = 0
  BY DEF RunRows
<1>4. \A i \in 1..n : RunRow(rows[i], events, K)
  BY <1>2, <1>3 DEF RunRow
<1>5. K \in Nat /\ K = k + 1 /\ event = events[K] /\ t = AddEvent(rows, K, event)
  OBVIOUS
<1> HIDE DEF n, event, K
<1>6. CASE rows # <<>> /\ rows[n].type = event
  <2> DEFINE r == OneMore(rows[n], K)
  <2>1. t = [rows EXCEPT ![n] = r]
    <3>1. rows # <<>> /\ rows[Len(rows)].type = event
      BY <1>1, <1>6
    <3>2. t = [rows EXCEPT ![Len(rows)] = OneMore(rows[Len(rows)], K)]
      BY <1>5, <3>1 DEF AddEvent
    <3> QED
      BY <1>1, <3>2
  <2>2. n \in 1..n /\ rows[n] \in EventRow(S)
    BY <1>1, <1>2, <1>6
  <2>3. /\ r \in EventRow(S) /\ r.count = rows[n].count + 1 /\ r.type = rows[n].type
        /\ r.latest = rows[n].latest /\ r.oldest = K /\ rows[n].count \in Nat
    <3> DEFINE q == rows[n]
    <3>1. q \in EventRow(S) /\ K \in Nat /\ r = OneMore(q, K)
      BY <1>5, <2>2
    <3> HIDE DEF q, r
    <3>2. q.count \in Nat
      BY <3>1, RowParts
    <3>3. r \in EventRow(S)
      BY <3>1, RowParts
    <3>4. r.type = q.type /\ r.latest = q.latest /\ r.oldest = K
      BY <3>1 DEF OneMore, EventRow
    <3>5. r.count = q.count + 1
      BY <3>1 DEF OneMore, EventRow
    <3> QED
      BY <3>2, <3>3, <3>4, <3>5 DEF q
  <2> HIDE DEF r
  <2>4. t \in Seq(EventRow(S)) /\ Len(t) = n /\ \A j \in 1..n : t[j] = IF j = n THEN r ELSE rows[j]
    <3> DEFINE E == EventRow(S)
    <3>1. n > 0 /\ r \in E /\ rows \in Seq(E)
      BY <1>1, <2>2, <2>3
    <3> HIDE DEF E
    <3>2. t \in Seq(E) /\ Len(t) = n /\ t[n] = r /\ \A j \in 1..n : j # n => t[j] = rows[j]
      BY <1>1, <2>1, <3>1, LastChanged
    <3> QED
      BY <3>2 DEF E
  <2>5. RunRow(r, events, K)
    <3>1. RunRow(rows[n], events, k) /\ rows[n].oldest = k /\ rows[n].latest \in Nat
      BY <1>1, <1>2, <1>3, <2>2
    <3>2. r.latest \in 1..K /\ r.oldest \in r.latest..K /\ r.count = r.oldest - r.latest + 1
      BY <1>5, <2>3, <3>1 DEF RunRow
    <3>3. ASSUME NEW j \in r.latest..r.oldest PROVE events[j] = r.type
      <4>1. CASE j = K
        BY <1>5, <1>6, <2>3, <4>1
      <4>2. CASE j # K
        <5>1. j \in rows[n].latest..rows[n].oldest
          BY <1>5, <2>3, <3>1, <3>3, <4>2
        <5> QED
          BY <2>3, <3>1, <5>1 DEF RunRow
      <4> QED
        BY <4>1, <4>2
    <3> QED
      BY <3>2, <3>3 DEF RunRow
  <2>6. \A i \in 1..n : RunRow(t[i], events, K)
    BY <1>4, <2>4, <2>5
  <2>7. \A i \in 1..n : t[i].latest = rows[i].latest /\ t[i].type = rows[i].type /\ (i # n => t[i].oldest = rows[i].oldest)
    BY <2>3, <2>4
  <2>8. ASSUME NEW i \in 1..n, i > 1
        PROVE  t[i].latest = t[i - 1].oldest + 1 /\ t[i].type # t[i - 1].type
    <3>1. i - 1 \in 1..n /\ i - 1 # n
      BY <1>1, <2>8
    <3> QED
      BY <1>3, <2>7, <2>8, <3>1
  <2>9. t[1].latest = 1 /\ t[n].oldest = K
    <3>1. 1 \in 1..n /\ n > 0
      BY <1>1, <2>2
    <3> QED
      BY <1>3, <2>2, <2>3, <2>4, <2>7, <3>1
  <2> QED
    BY <1>1, <1>5, <1>6, <2>4, <2>6, <2>8, <2>9 DEF RunRows, K
<1>7. CASE ~(rows # <<>> /\ rows[n].type = event)
  <2> DEFINE r == [type |-> event, latest |-> K, oldest |-> K, count |-> 1]
             N == n + 1
  <2>1. t = Append(rows, r)
    BY <1>1, <1>5, <1>7 DEF AddEvent
  <2>2. r \in EventRow(S) /\ r.count = 1 /\ r.type = event /\ r.latest = K /\ r.oldest = K
    BY <1>1, <1>5 DEF EventRow
  <2> HIDE DEF r
  <2>3. /\ t \in Seq(EventRow(S)) /\ Len(t) = n + 1
        /\ \A i \in 1..n : t[i] = rows[i]
        /\ t[n + 1] = r
    <3> DEFINE E == EventRow(S)
    <3>1. r \in E /\ rows \in Seq(E)
      BY <2>2
    <3> HIDE DEF E
    <3>2. t \in Seq(E) /\ Len(t) = n + 1 /\ (\A i \in 1..n : t[i] = rows[i]) /\ t[n + 1] = r
      BY <1>1, <2>1, <3>1, OneAppended
    <3> QED
      BY <3>2 DEF E
  <2>4. N = n + 1 /\ Len(t) = N /\ t[N] = r /\ N \in Nat /\ N > 0
    BY <1>1, <2>3
  <2> HIDE DEF N
  <2>5. \A i \in 1..N : i = N \/ i \in 1..n
    BY <1>1, <2>4
  <2>6. RunRow(r, events, K)
    <3>1. \A j \in K..K : j = K
      BY <1>5
    <3> QED
      BY <1>5, <2>2, <3>1 DEF RunRow
  <2>7. \A i \in 1..N : RunRow(t[i], events, K)
    BY <1>4, <2>3, <2>4, <2>5, <2>6
  <2>8. ASSUME NEW i \in 1..N, i > 1
        PROVE  t[i].latest = t[i - 1].oldest + 1 /\ t[i].type # t[i - 1].type
    <3>1. CASE i = N
      <4>1. i - 1 = n /\ n \in 1..n
        BY <1>1, <2>4, <2>8, <3>1
      <4>2. t[i - 1] = rows[n] /\ rows[n].oldest = k /\ rows[n].type # event
        BY <1>1, <1>3, <1>7, <2>3, <4>1
      <4> QED
        BY <1>5, <2>2, <2>4, <3>1, <4>2
    <3>2. CASE i # N
      <4>1. i \in 1..n /\ i - 1 \in 1..n
        BY <1>1, <2>4, <2>5, <2>8, <3>2
      <4> QED
        BY <1>3, <2>3, <2>8, <4>1
    <3> QED
      BY <3>1, <3>2
  <2>9. t[1].latest = 1
    <3>1. CASE n = 0
      BY <1>3, <1>5, <2>2, <2>4, <3>1
    <3>2. CASE n # 0
      <4>1. 1 \in 1..n /\ n > 0
        BY <1>1, <3>2
      <4> QED
        BY <1>3, <2>3, <4>1
    <3> QED
      BY <3>1, <3>2
  <2> QED
    BY <1>5, <2>2, <2>3, <2>4, <2>7, <2>8, <2>9 DEF RunRows, K
<1> QED
  BY <1>6, <1>7

\* After each event the rows are the runs of the events so far.
LEMMA RunsTold ==
    ASSUME NEW S, NEW events \in Seq(S), NEW R, R = EventRuns(events), NEW n \in 0..Len(events)
    PROVE  R[n] \in Seq(EventRow(S)) /\ RunRows(R[n], events, n)
<1> DEFINE N == Len(events)
           Fine(k) == R[k] \in Seq(EventRow(S)) /\ RunRows(R[k], events, k)
           T == {k \in 0..N : ~Fine(k)}
<1>1. /\ R[0] = <<>> /\ N \in Nat
      /\ \A k \in 1..N : R[k] = AddEvent(R[k - 1], k, events[k])
  BY RunsUnfold
<1> HIDE DEF N
<1>2. CASE T = {}
  BY <1>2 DEF N
<1>3. CASE T # {}
  <2>1. T \subseteq Nat
    OBVIOUS
  <2> HIDE DEF T
  <2>2. PICK k \in T : \A m \in T : k <= m
    BY <1>3, <2>1, LeastNumber
  <2>3. k \in 0..N /\ ~Fine(k)
    BY <2>2 DEF T
  <2>4. Fine(0)
    <3> DEFINE e == R[0]
    <3>1. e \in Seq(EventRow(S)) /\ Len(e) = 0
      BY <1>1
    <3> HIDE DEF e
    <3>2. RunRows(e, events, 0)
      BY <3>1 DEF RunRows
    <3> QED
      BY <3>1, <3>2 DEF e
  <2>5. k # 0
    BY <2>3, <2>4
  <2> DEFINE j == k - 1
             u == R[j]
             t == R[k]
  <2>6. k \in 1..N /\ j \in 0..N /\ j \in Nat /\ k = j + 1 /\ j \notin T
    BY <1>1, <2>2, <2>3, <2>5
  <2>7. t = AddEvent(u, k, events[k])
    BY <1>1, <2>6
  <2> HIDE DEF j
  <2>8. Fine(j)
    BY <2>6 DEF T
  <2>9. u \in Seq(EventRow(S)) /\ RunRows(u, events, j)
    BY <2>8
  <2> HIDE DEF u, t
  <2>10. j + 1 \in 1..Len(events) /\ t = AddEvent(u, j + 1, events[j + 1])
    BY <2>6, <2>7 DEF N
  <2>11. t \in Seq(EventRow(S)) /\ RunRows(t, events, j + 1)
    BY <2>6, <2>9, <2>10, EventAdded
  <2> QED
    BY <2>3, <2>6, <2>11 DEF t
<1> QED
  BY <1>2, <1>3

\* The smallest of a set of numbers is one of them.
LEMMA SmallestIsIn ==
    ASSUME NEW S, S \subseteq Nat, S # {}
    PROVE  Min(S) \in S
<1>1. \E n \in S : \A m \in S : n <= m
  BY LeastNumber
<1> QED
  BY <1>1 DEF Min

\* The pane of the data centres shows a pair of the board.
LEMMA PairShown ==
    ASSUME PulseInv, DcPage.body = "board"
    PROVE  PaneAgrees(DcPage, DcPage.tone, pulseUi.pair)
<1> DEFINE pairs == DcRouteGroups(DcRows)
           ids == DOMAIN pairs
           tone == [id \in ids |-> PairTone(DcRows, pairs[id])]
           bad == {id \in ids : tone[id] \in {"error", "warn"}}
           default == IF bad # {} THEN Min(bad) ELSE IF ids # {} THEN Min(ids) ELSE NoRow
<1>1. ids \subseteq Nat
  <2>1. DOMAIN DcRows \subseteq DcIds
    BY RoutesKnown
  <2>2. \A x \in DcIds : Abs(x) \in Nat
    BY DEF DcIds, Abs
  <2>3. ids = {Abs(x) : x \in DOMAIN DcRows}
    BY DEF DcRouteGroups
  <2> QED
    BY <2>1, <2>2, <2>3
<1>2. DcPage.tone = tone /\ DcPage.selected = SelectedOf(ids, pulseUi.pair, default)
  BY DEF DcPage
<1>3. ids # {}
  BY DEF DcPage
<1>4. bad \subseteq ids /\ DOMAIN tone = ids
  OBVIOUS
<1> HIDE DEF ids, bad, tone
<1>5. default \in ids
  BY <1>1, <1>3, <1>4, SmallestIsIn
<1> HIDE DEF default
<1> QED
  BY <1>2, <1>4, <1>5 DEF PaneAgrees, SelectedOf

\* The pane of the upstreams shows a route of the list.
LEMMA RouteShown ==
    ASSUME PulseInv, UpstreamsPage.body = "routes"
    PROVE  PaneAgrees(UpstreamsPage, MergeUpstreams, pulseUi.route)
<1> DEFINE ids == DOMAIN MergeUpstreams
           default == IF ids = {} THEN NoRow ELSE Min(ids)
<1>1. ids \subseteq Nat
  BY UpstreamRows DEF MergeUpstreams, StatsUpstreams, QualityUpstreams
<1>2. UpstreamsPage.selected = SelectedOf(ids, pulseUi.route, default)
  BY DEF UpstreamsPage
<1>3. ids # {}
  BY DEF UpstreamsPage
<1> HIDE DEF ids
<1>5. default \in ids
  BY <1>1, <1>3, SmallestIsIn
<1> HIDE DEF default
<1> QED
  BY <1>2, <1>5 DEF PaneAgrees, SelectedOf, ids

\* A finite list split in three by a function has as many rows as the parts.
LEMMA SplitInThree ==
    ASSUME NEW D, IsFiniteSet(D), NEW A, NEW B, NEW C, D = A \cup B \cup C,
           A \cap B = {}, A \cap C = {}, B \cap C = {}
    PROVE  /\ IsFiniteSet(A) /\ IsFiniteSet(B) /\ IsFiniteSet(C)
           /\ Cardinality(A) \in Nat /\ Cardinality(B) \in Nat /\ Cardinality(C) \in Nat
           /\ Cardinality(D) = Cardinality(A) + Cardinality(B) + Cardinality(C)
<1>1. IsFiniteSet(A) /\ IsFiniteSet(B) /\ IsFiniteSet(C)
  <2>1. A \subseteq D /\ B \subseteq D /\ C \subseteq D
    OBVIOUS
  <2> QED
    BY <2>1, FS_Subset
<1>2. IsFiniteSet(A \cup B) /\ (A \cup B) \cap C = {}
  BY <1>1, FS_Union
<1>3. Cardinality(A) \in Nat /\ Cardinality(B) \in Nat /\ Cardinality(C) \in Nat
  BY <1>1, FS_CardinalityType
<1>4. Cardinality(A \cup B) = Cardinality(A) + Cardinality(B)
  <2>1. Cardinality(A \cup B) = Cardinality(A) + Cardinality(B) - Cardinality(A \cap B)
    BY <1>1, FS_Union
  <2>2. Cardinality(A \cap B) = 0
    BY FS_EmptySet
  <2> QED
    BY <1>3, <2>1, <2>2
<1>5. Cardinality(D) = Cardinality(A \cup B) + Cardinality(C)
  <2>1. Cardinality((A \cup B) \cup C) = Cardinality(A \cup B) + Cardinality(C) - Cardinality((A \cup B) \cap C)
    BY <1>1, <1>2, FS_Union
  <2>2. Cardinality((A \cup B) \cap C) = 0
    BY <1>2, FS_EmptySet
  <2> QED
    BY <1>3, <1>4, <2>1, <2>2
<1> QED
  BY <1>1, <1>3, <1>4, <1>5

\* The writers on screen: a finite list, each with its two flags.
LEMMA WriterRows ==
    ASSUME PulseInv
    PROVE  /\ Len(MeWriters) \in Nat /\ DOMAIN MeWriters = 1..Len(MeWriters)
           /\ IsFiniteSet(DOMAIN MeWriters) /\ Cardinality(DOMAIN MeWriters) = Len(MeWriters)
           /\ \A i \in DOMAIN MeWriters : MeWriters[i].degraded \in BOOLEAN /\ MeWriters[i].draining \in BOOLEAN
<1>1. MeWriters \in MeWritersData
  <2>1. P.writers \in MeWritersData
    BY Fields
  <2>2. <<>> \in MeWritersData
    BY DEF MeWritersData
  <2> QED
    BY <2>1, <2>2 DEF MeWriters
<1>2. CalmWriter \in MeWriterStatus
  BY DEF CalmWriter, MeWriterStatus
<1>3. MeWriters \in Seq(MeWriterStatus)
  <2>1. \A w \in MeWriterStatus : Writers(CalmWriter, w) \in Seq(MeWriterStatus)
    BY <1>2 DEF Writers
  <2>2. <<>> \in Seq(MeWriterStatus)
    OBVIOUS
  <2> QED
    BY <1>1, <2>1, <2>2 DEF MeWritersData
<1> DEFINE rows == MeWriters
<1>4. rows \in Seq(MeWriterStatus)
  BY <1>3
<1> HIDE DEF rows
<1>5. Len(rows) \in Nat /\ DOMAIN rows = 1..Len(rows) /\ \A i \in 1..Len(rows) : rows[i] \in MeWriterStatus
  BY <1>4
<1>6. IsFiniteSet(1..Len(rows)) /\ Cardinality(1..Len(rows)) = Len(rows)
  <2> DEFINE n == Len(rows)
  <2>1. n \in Nat /\ 1 \in Int /\ n \in Int
    BY <1>5
  <2> HIDE DEF n
  <2>2. IsFiniteSet(1..n) /\ Cardinality(1..n) = IF 1 > n THEN 0 ELSE n - 1 + 1
    BY <2>1, FS_Interval
  <2>3. Cardinality(1..n) = n
    BY <2>1, <2>2
  <2> QED
    BY <2>2, <2>3 DEF n
<1>7. \A w \in MeWriterStatus : w.degraded \in BOOLEAN /\ w.draining \in BOOLEAN
  BY DEF MeWriterStatus
<1>8. \A i \in DOMAIN rows : rows[i].degraded \in BOOLEAN /\ rows[i].draining \in BOOLEAN
  BY <1>5, <1>7
<1> QED
  BY <1>5, <1>6, <1>8 DEF rows

\* The greater of nothing and a count is the count.
LEMMA NotBelowZero ==
    ASSUME NEW k \in Nat
    PROVE  Max({0, k}) = k
BY DEF Max

\* The filters of the writers split the list, and the bar of the pool counts
\* as active what the filter does.
LEMMA WritersSplit ==
    ASSUME PulseInv
    PROVE  WritersAgree(WritersPanel.counts, PoolComposition)
<1> DEFINE D == DOMAIN MeWriters
           deg(i) == MeWriters[i].degraded
           dra(i) == MeWriters[i].draining
           A == {i \in D : ~deg(i) /\ ~dra(i)}
           B == {i \in D : deg(i)}
           C == {i \in D : ~deg(i) /\ dra(i)}
           E == {i \in D : dra(i)}
           n == WritersPanel.counts
<1>1. \A i \in D : deg(i) \in BOOLEAN /\ dra(i) \in BOOLEAN
  BY WriterRows
<1>2. IsFiniteSet(D) /\ Cardinality(D) = Len(MeWriters) /\ Len(MeWriters) \in Nat
  BY WriterRows
<1>3. /\ n["all"] = Cardinality({i \in D : "all" = "all" \/ WriterState(MeWriters[i]) = "all"})
      /\ n["active"] = Cardinality({i \in D : "active" = "all" \/ WriterState(MeWriters[i]) = "active"})
      /\ n["degraded"] = Cardinality({i \in D : "degraded" = "all" \/ WriterState(MeWriters[i]) = "degraded"})
      /\ n["draining"] = Cardinality({i \in D : "draining" = "all" \/ WriterState(MeWriters[i]) = "draining"})
  BY DEF WritersPanel, WriterFilters
<1>4. /\ {i \in D : "all" = "all" \/ WriterState(MeWriters[i]) = "all"} = D
      /\ {i \in D : "active" = "all" \/ WriterState(MeWriters[i]) = "active"} = A
      /\ {i \in D : "degraded" = "all" \/ WriterState(MeWriters[i]) = "degraded"} = B
      /\ {i \in D : "draining" = "all" \/ WriterState(MeWriters[i]) = "draining"} = C
  BY <1>1 DEF WriterState
<1>5. n["all"] = Cardinality(D) /\ n["active"] = Cardinality(A) /\ n["degraded"] = Cardinality(B) /\ n["draining"] = Cardinality(C)
  BY <1>3, <1>4
<1>6. D = A \cup B \cup C /\ A \cap B = {} /\ A \cap C = {} /\ B \cap C = {}
  BY <1>1
<1>7. ~(\E i \in D : deg(i) /\ dra(i)) => E = C
  BY <1>1
<1>8. /\ PoolComposition.of = "writers" =>
         PoolComposition.healthy = Max({0, Len(MeWriters) - (Cardinality(B) + Cardinality(E))})
  BY DEF PoolComposition
<1> HIDE DEF A, B, C, D, E, n
<1>9. /\ Cardinality(A) \in Nat /\ Cardinality(B) \in Nat /\ Cardinality(C) \in Nat
      /\ Cardinality(D) = Cardinality(A) + Cardinality(B) + Cardinality(C)
  BY <1>2, <1>6, SplitInThree
<1>10. n["all"] = n["active"] + n["degraded"] + n["draining"]
  BY <1>5, <1>9
<1>11. ASSUME PoolComposition.of = "writers", E = C
       PROVE  PoolComposition.healthy = n["active"]
  <2>1. Len(MeWriters) - (Cardinality(B) + Cardinality(E)) = Cardinality(A)
    BY <1>2, <1>9, <1>11
  <2>2. Max({0, Cardinality(A)}) = Cardinality(A)
    BY <1>9, NotBelowZero
  <2> QED
    BY <1>5, <1>8, <1>11, <2>1, <2>2
<1> QED
  BY <1>7, <1>10, <1>11 DEF WritersAgree, D, n

\* A finite set that lacks an element of another it lies in is smaller.
LEMMA SmallerSet ==
    ASSUME NEW N, IsFiniteSet(N), NEW A, A \subseteq N, NEW x \in N, x \notin A
    PROVE  Cardinality(A) \in Nat /\ Cardinality(N) \in Nat /\ Cardinality(A) < Cardinality(N)
<1>1. IsFiniteSet(A) /\ Cardinality(A) <= Cardinality(N) /\ (Cardinality(N) = Cardinality(A) => N = A)
  <2>1. A \in SUBSET N
    OBVIOUS
  <2> QED
    BY <2>1, FS_Subset
<1>2. Cardinality(A) \in Nat /\ Cardinality(N) \in Nat
  BY <1>1, FS_CardinalityType
<1>3. N # A
  OBVIOUS
<1> QED
  BY <1>1, <1>2, <1>3

\* A list N ordered by score and then by number, with those before each of its
\* members and the rows a limit leaves of it.
Ranked(N, s, limit, before, rows) ==
    /\ IsFiniteSet(N) /\ N \subseteq Nat /\ s \in [N -> Nat] /\ limit \in Nat \ {0}
    /\ \A u \in N : before[u] \in SUBSET N
    /\ \A u, v \in N : v \in before[u] <=> (s[v] > s[u] \/ (s[v] = s[u] /\ v < u))
    /\ rows \in SUBSET N
    /\ \A u \in N : u \in rows <=> Cardinality(before[u]) < limit

\* The first of such a list: whoever is cut has as many before it as there are
\* rows, and those are all before it; and the best score is among the rows.
LEMMA FirstByScore ==
    ASSUME NEW N, NEW s, NEW limit, NEW before, NEW rows, Ranked(N, s, limit, before, rows)
    PROVE  /\ \A u \in N \ rows : Cardinality(N) > limit /\ \A v \in rows : v \in before[u]
           /\ \A u \in N : \E w \in rows : s[w] >= s[u]
<1> USE DEF Ranked
<1>1. \A u, v \in N : v \in before[u] <=> (s[v] > s[u] \/ (s[v] = s[u] /\ v < u))
  OBVIOUS
<1>2. \A u \in N : s[u] \in Nat /\ u \in Nat /\ before[u] \subseteq N /\ u \notin before[u]
  BY <1>1
<1>3. \A u, v \in N : u = v \/ v \in before[u] \/ u \in before[v]
  BY <1>1, <1>2
<1>4. ASSUME NEW u \in N, NEW v \in N, v \in before[u]
      PROVE  before[v] \subseteq before[u] /\ Cardinality(before[v]) < Cardinality(before[u])
  <2>1. \A x \in before[v] : x \in N /\ x \in before[u]
    <3>1. SUFFICES ASSUME NEW x \in before[v] PROVE x \in N /\ x \in before[u]
      OBVIOUS
    <3>2. x \in N
      BY <1>2, <3>1
    <3>3. /\ s[x] > s[v] \/ (s[x] = s[v] /\ x < v)
          /\ s[v] > s[u] \/ (s[v] = s[u] /\ v < u)
      BY <1>1, <1>4, <3>1, <3>2
    <3>4. s[x] > s[u] \/ (s[x] = s[u] /\ x < u)
      BY <1>2, <3>2, <3>3
    <3> QED
      BY <1>1, <3>2, <3>4
  <2> DEFINE A == before[v]
             B == before[u]
  <2>2. A \subseteq B /\ v \in B /\ v \notin A /\ B \in SUBSET N
    BY <1>2, <1>4, <2>1
  <2> HIDE DEF A, B
  <2>3. IsFiniteSet(B)
    BY <2>2, FS_Subset
  <2>4. Cardinality(A) < Cardinality(B)
    BY <2>2, <2>3, SmallerSet
  <2> QED
    BY <2>2, <2>4 DEF A, B
<1>5. \A u \in N : Cardinality(before[u]) \in Nat /\ Cardinality(before[u]) < Cardinality(N) /\ Cardinality(N) \in Nat
  <2> SUFFICES ASSUME NEW u \in N
               PROVE  Cardinality(before[u]) \in Nat /\ Cardinality(before[u]) < Cardinality(N) /\ Cardinality(N) \in Nat
    OBVIOUS
  <2> DEFINE A == before[u]
  <2>1. A \subseteq N /\ u \notin A
    BY <1>2
  <2> HIDE DEF A
  <2>2. Cardinality(A) \in Nat /\ Cardinality(A) < Cardinality(N) /\ Cardinality(N) \in Nat
    BY <2>1, SmallerSet
  <2> QED
    BY <2>2 DEF A
<1>6. \A u \in N : u \in rows <=> Cardinality(before[u]) < limit
  OBVIOUS
<1>7. ASSUME NEW u \in N \ rows PROVE Cardinality(N) > limit /\ \A v \in rows : v \in before[u]
  <2>1. Cardinality(before[u]) >= limit
    BY <1>5, <1>6
  <2>2. Cardinality(N) > limit
    BY <1>5, <2>1
  <2>3. ASSUME NEW v \in rows PROVE v \in before[u]
    <3>1. v \in N /\ v # u /\ Cardinality(before[v]) < limit
      BY <1>6
    <3>2. ~(u \in before[v])
      <4>1. u \in before[v] => Cardinality(before[u]) < Cardinality(before[v])
        BY <1>4, <3>1
      <4> QED
        BY <1>5, <2>1, <3>1, <4>1
    <3> QED
      BY <1>3, <3>1, <3>2
  <2> QED
    BY <2>2, <2>3
<1>8. ASSUME NEW u \in N PROVE \E w \in rows : s[w] >= s[u]
  <2> DEFINE C == {Cardinality(before[x]) : x \in N}
  <2>1. C \subseteq Nat /\ C # {}
    BY <1>5
  <2>2. PICK c \in C : \A d \in C : c <= d
    <3> HIDE DEF C
    <3> QED
      BY <2>1, LeastNumber
  <2>3. PICK w \in N : c = Cardinality(before[w])
    BY <2>2
  <2>4. \A x \in N : Cardinality(before[w]) <= Cardinality(before[x])
    BY <2>2, <2>3
  <2>5. before[w] = {}
    <3>1. SUFFICES ASSUME NEW v \in before[w] PROVE FALSE
      OBVIOUS
    <3>2. v \in N /\ Cardinality(before[v]) < Cardinality(before[w])
      BY <1>2, <1>4, <3>1
    <3> QED
      BY <1>5, <2>4, <3>2
  <2>6. Cardinality(before[w]) = 0
    BY <2>5, FS_EmptySet
  <2>7. w \in rows
    BY <1>6, <2>6
  <2>8. s[w] >= s[u]
    <3>1. u = w \/ w \in before[u]
      BY <1>3, <2>5
    <3> QED
      BY <1>1, <1>2, <3>1
  <2> QED
    BY <2>7, <2>8
<1> QED
  BY <1>7, <1>8

\* The figures of a client.
LEMMA ClientKnown ==
    ASSUME PulseInv, NEW u \in Clients
    PROVE  /\ UserNow(u).quota \in 0..100 /\ UserNow(u).conns \in 0..100 /\ UserNow(u).days \in Nat
<1>1. P.clients[u] \in DOMAIN UsersTopicUser
  BY Fields
<1>2. \A k \in DOMAIN UsersTopicUser :
         /\ UsersTopicUser[k].quota \in 0..100 /\ UsersTopicUser[k].conns \in 0..100
         /\ UsersTopicUser[k].days \in Nat
  BY DEF UsersTopicUser
<1> QED
  BY <1>1, <1>2 DEF UserNow

\* A signal's score tells its severity.
LEMMA SignalKnown ==
    ASSUME NEW f, f.quota \in 0..100, f.conns \in 0..100, NEW g \in SignalsForUser(f)
    PROVE  /\ SignalScore(g) \in Nat /\ SignalScore(g) < 1200
           /\ g.severity \in {"error", "warn"}
           /\ g.severity = "error" <=> SignalScore(g) >= 1000
<1>1. \/ g.kind \in {"expiration", "runtime"} /\ g.ratio = 0 /\ g.severity \in {"error", "warn"}
      \/ g.kind = "quota" /\ g.ratio = f.quota /\ g.severity \in {"error", "warn"}
      \/ g.kind = "connections" /\ g.ratio = f.conns /\ g.severity \in {"error", "warn"}
  BY DEF SignalsForUser, RatioSignal
<1>2. KIND_PRIORITY[g.kind] \in 10..50
  BY <1>1 DEF KIND_PRIORITY
<1>3. g.ratio \in 0..100 /\ g.severity \in {"error", "warn"}
  BY <1>1
<1>4. SignalScore(g) = (IF g.severity = "error" THEN 1000 ELSE 0) + KIND_PRIORITY[g.kind] + g.ratio
  BY DEF SignalScore
<1> DEFINE p == KIND_PRIORITY[g.kind]
           r == g.ratio
           score == SignalScore(g)
<1>5. p \in 10..50 /\ r \in 0..100
  BY <1>2, <1>3
<1>6. CASE g.severity = "error"
  <2>1. score = 1000 + p + r
    BY <1>4, <1>6
  <2> HIDE DEF p, r, score
  <2>2. score \in Nat /\ score < 1200 /\ score >= 1000
    BY <1>5, <2>1
  <2> QED
    BY <1>6, <2>2 DEF score
<1>7. CASE g.severity = "warn"
  <2>1. score = 0 + p + r
    BY <1>4, <1>7
  <2> HIDE DEF p, r, score
  <2>2. score \in Nat /\ score < 1200 /\ ~(score >= 1000)
    BY <1>5, <2>1
  <2> QED
    BY <1>7, <2>2 DEF score
<1> QED
  BY <1>3, <1>6, <1>7

\* The signal a row speaks for has the highest score of the client's.
LEMMA FirstIsHighest ==
    ASSUME NEW f, f.quota \in 0..100, f.conns \in 0..100, SignalsForUser(f) # {}
    PROVE  /\ FirstSignal(f) \in SignalsForUser(f)
           /\ \A h \in SignalsForUser(f) : SignalScore(FirstSignal(f)) >= SignalScore(h)
<1> DEFINE S == SignalsForUser(f)
           D == {1200 - SignalScore(g) : g \in S}
<1>1. \A g \in S : SignalScore(g) \in Nat /\ SignalScore(g) < 1200
  BY SignalKnown
<1> HIDE DEF S
<1>2. D \subseteq Nat /\ D # {}
  BY <1>1 DEF S
<1>3. PICK d \in D : \A e \in D : d <= e
  <2> HIDE DEF D
  <2> QED
    BY <1>2, LeastNumber
<1>4. PICK g \in S : d = 1200 - SignalScore(g)
  BY <1>3
<1>5. \A h \in S : SignalScore(g) >= SignalScore(h)
  BY <1>1, <1>3, <1>4
<1> QED
  BY <1>4, <1>5 DEF FirstSignal, S

\* Whoever is on the quota card is among the clients that need attention, or was
\* cut from them, and the colour of their count is that of the worst of all.
LEMMA ClientsListed ==
    ASSUME PulseInv
    PROVE  ClientsAgree(OnlineNow, QuotasWidget)
<1> DEFINE N == NeedAttention
           s == [u \in N |-> RowScore(u)]
           before == [u \in N |-> {v \in N : s[v] > s[u] \/ (s[v] = s[u] /\ v < u)}]
           rows == ComputeClientAttention.rows
           error(u) == FirstSignal(UserNow(u)).severity = "error"
<1>1. N \subseteq Clients /\ Clients \subseteq Nat /\ IsFiniteSet(N)
  <2>1. N \subseteq Clients /\ Clients = 1..MaxClients /\ MaxClients \in Nat /\ 1 \in Int /\ MaxClients \in Int
    BY PulseAssumption DEF NeedAttention, Clients
  <2> HIDE DEF N
  <2>2. IsFiniteSet(Clients) /\ N \in SUBSET Clients
    BY <2>1, FS_Interval
  <2>3. IsFiniteSet(N)
    BY <2>2, FS_Subset
  <2> QED
    BY <2>1, <2>3
<1>2. \A u \in Clients : u \in N <=> Have("users") /\ SignalsForUser(UserNow(u)) # {}
  BY DEF NeedAttention
<1>3. ASSUME NEW u \in N
      PROVE  /\ RowScore(u) \in Nat /\ (error(u) <=> RowScore(u) >= 1000)
             /\ \A g \in SignalsForUser(UserNow(u)) : g.severity = "error" => error(u)
             /\ FirstSignal(UserNow(u)) \in SignalsForUser(UserNow(u))
  <2> DEFINE f == UserNow(u)
             first == FirstSignal(f)
  <2>1. u \in Clients /\ SignalsForUser(f) # {} /\ RowScore(u) = SignalScore(first)
    BY <1>1, <1>2 DEF RowScore
  <2>2. f.quota \in 0..100 /\ f.conns \in 0..100
    BY <2>1, ClientKnown
  <2> HIDE DEF f
  <2>3. first \in SignalsForUser(f) /\ \A h \in SignalsForUser(f) : SignalScore(first) >= SignalScore(h)
    BY <2>1, <2>2, FirstIsHighest
  <2> HIDE DEF first
  <2>4. SignalScore(first) \in Nat /\ (first.severity = "error" <=> SignalScore(first) >= 1000)
    BY <2>2, <2>3, SignalKnown
  <2>5. ASSUME NEW g \in SignalsForUser(f), g.severity = "error" PROVE first.severity = "error"
    <3>1. SignalScore(g) \in Nat /\ SignalScore(g) >= 1000
      BY <2>2, <2>5, SignalKnown
    <3> QED
      BY <2>3, <2>4, <3>1
  <2> QED
    BY <2>1, <2>3, <2>4, <2>5 DEF f, first
<1>4. s \in [N -> Nat] /\ \A u \in N : s[u] = RowScore(u)
  BY <1>3
<1>5. \A u, v \in N : v \in before[u] <=> ComesFirst(v, u)
  BY DEF ComesFirst
<1>6. rows = {u \in N : Cardinality(before[u]) < AttentionLimit}
  <2>1. \A u \in N : {v \in N : ComesFirst(v, u)} = before[u]
    BY <1>5
  <2>2. rows = {u \in N : Cardinality({v \in N : ComesFirst(v, u)}) < AttentionLimit}
    BY DEF ComputeClientAttention
  <2> HIDE DEF before, N, rows
  <2> QED
    BY <2>1, <2>2
<1>7. before = [u \in N |-> {v \in N : s[v] > s[u] \/ (s[v] = s[u] /\ v < u)}] /\ N \subseteq Nat
  BY <1>1
<1>8. /\ OnlineNow.rows = rows /\ OnlineNow.count = Cardinality(N)
      /\ OnlineNow.badge = IF Cardinality(N) = 0 THEN "none"
                           ELSE IF \E u \in rows : error(u) THEN "error" ELSE "warn"
  BY DEF OnlineNow, ComputeClientAttention
<1>9. AttentionLimit \in Nat \ {0}
  BY PulseAssumption
<1> HIDE DEF N, s, before, rows, error
<1>10. /\ \A u \in N \ rows : Cardinality(N) > AttentionLimit /\ \A v \in rows : v \in before[u]
       /\ \A u \in N : \E w \in rows : s[w] >= s[u]
  <2>1. IsFiniteSet(N)
    BY <1>1
  <2>2. N \subseteq Nat
    BY <1>7
  <2>3. s \in [N -> Nat]
    BY <1>4
  <2>4. \A u \in N : before[u] \in SUBSET N
    BY <1>7
  <2>5. \A u, v \in N : v \in before[u] <=> (s[v] > s[u] \/ (s[v] = s[u] /\ v < u))
    BY <1>7
  <2>6. rows \in SUBSET N /\ \A u \in N : u \in rows <=> Cardinality(before[u]) < AttentionLimit
    BY <1>6
  <2>7. Ranked(N, s, AttentionLimit, before, rows)
    BY <1>9, <2>1, <2>2, <2>3, <2>4, <2>5, <2>6 DEF Ranked
  <2> QED
    BY <2>7, FirstByScore, Zenon
<1>11. rows \subseteq N
  BY <1>6
<1>12. QuotasWidget.rows \subseteq N
  <2> SUFFICES ASSUME NEW u \in QuotaWatched PROVE u \in N
    BY DEF QuotasWidget, ComputeQuotaWatch
  <2> DEFINE f == UserNow(u)
  <2>1. u \in Clients /\ Have("users") /\ f.on /\ (f.quota >= QUOTA_WATCH_THRESHOLD \/ f.days <= EXPIRY_WATCH_DAYS)
    BY DEF QuotaWatched
  <2>2. f.quota \in 0..100 /\ f.days \in Nat
    BY <2>1, ClientKnown
  <2> HIDE DEF f
  <2>3. SignalsForUser(f) # {}
    <3>1. CASE f.quota >= QUOTA_WATCH_THRESHOLD
      <4> DEFINE x == RatioSignal(f.quota)
      <4>1. x # "none"
        BY <2>2, <3>1 DEF RatioSignal, QUOTA_WATCH_THRESHOLD
      <4>2. [kind |-> "quota", severity |-> x, ratio |-> f.quota] \in SignalsForUser(f)
        BY <4>1 DEF SignalsForUser
      <4> QED
        BY <4>2
    <3>2. CASE f.days <= EXPIRY_WATCH_DAYS
      <4>1. f.days <= CLIENT_EXPIRY_WARN_DAYS
        BY <2>2, <3>2 DEF CLIENT_EXPIRY_WARN_DAYS, EXPIRY_WATCH_DAYS
      <4>2. [kind |-> "expiration", severity |-> IF f.days <= 0 THEN "error" ELSE "warn", ratio |-> 0] \in SignalsForUser(f)
        BY <2>1, <4>1 DEF SignalsForUser
      <4> QED
        BY <4>2
    <3> QED
      BY <2>1, <3>1, <3>2
  <2> QED
    BY <1>2, <2>1, <2>3 DEF f
<1>13. ASSUME NEW u \in QuotasWidget.rows \ OnlineNow.rows
       PROVE  OnlineNow.count > AttentionLimit /\ \A v \in OnlineNow.rows : ComesFirst(v, u)
  BY <1>5, <1>8, <1>10, <1>11, <1>12
<1>14. ASSUME OnlineNow.badge = "error"
       PROVE  Have("users") /\ \E u \in Clients : \E g \in SignalsForUser(UserNow(u)) : g.severity = "error"
  <2>1. PICK u \in rows : error(u)
    BY <1>8, <1>14
  <2>2. u \in N /\ u \in Clients
    BY <1>1, <1>11
  <2>3. FirstSignal(UserNow(u)) \in SignalsForUser(UserNow(u)) /\ FirstSignal(UserNow(u)).severity = "error"
    BY <1>3, <2>1, <2>2 DEF error
  <2> QED
    BY <1>2, <2>2, <2>3
<1>15. ASSUME Have("users"), NEW u \in Clients, NEW g \in SignalsForUser(UserNow(u)), g.severity = "error"
       PROVE  OnlineNow.badge = "error"
  <2>1. u \in N /\ error(u)
    <3>1. u \in N
      BY <1>2, <1>15
    <3> QED
      BY <1>3, <1>15, <3>1
  <2>2. PICK w \in rows : s[w] >= s[u]
    BY <1>10, <2>1
  <2>3. w \in N /\ error(w)
    <3>1. w \in N
      BY <1>11
    <3> QED
      BY <1>3, <1>4, <2>1, <2>2, <3>1
  <2>4. Cardinality(N) # 0
    BY <1>1, <2>1, FS_EmptySet
  <2> QED
    BY <1>8, <2>3, <2>4
<1> QED
  BY <1>13, <1>14, <1>15 DEF ClientsAgree

\* The types of the records of the event ring.
EventTypes == {"admission", "reload", "failed"}

\* The ring as it may be: a sequence of the known types.
LEMMA RingKnown ==
    ASSUME PulseInv
    PROVE  P.log \in Seq(EventTypes)
<1>1. P.log \in RuntimeEdgeEvents
  BY Fields
<1>2. \A s \in RuntimeEdgeEvents : s \in Seq(EventTypes)
  <2> DEFINE a == "admission"
             r == "reload"
             f == "failed"
  <2>1. a \in EventTypes /\ r \in EventTypes /\ f \in EventTypes
    BY DEF EventTypes
  <2>2. RuntimeEdgeEvents = {<<>>, <<a>>, <<r, a>>, <<a, r, a>>, <<r, r, f>>, <<f, r, r, a, a>>}
    BY DEF RuntimeEdgeEvents
  <2> HIDE DEF a, r, f
  <2>3. <<>> \in Seq(EventTypes) /\ <<a>> \in Seq(EventTypes) /\ <<r, a>> \in Seq(EventTypes)
    BY <2>1
  <2>4. <<a, r, a>> \in Seq(EventTypes) /\ <<r, r, f>> \in Seq(EventTypes)
    BY <2>1
  <2>5. <<f, r, r, a, a>> \in Seq(EventTypes)
    BY <2>1
  <2> QED
    BY <2>2, <2>3, <2>4, <2>5
<1> QED
  BY <1>1, <1>2

\* The families split the ring, and the advice is given only where admissions
\* outnumber the rest.
LEMMA FamiliesSplit ==
    ASSUME PulseInv, NEW n, n = Timeline(P.log).counts
    PROVE  /\ n["all"] = n["admission"] + n["config"] + n["other"]
           /\ EventsPage.advice => n["admission"] > n["config"] + n["other"]
<1> DEFINE log == P.log
           D == DOMAIN log
           A == {i \in D : log[i] = "admission"}
           B == {i \in D : log[i] = "reload"}
           C == {i \in D : log[i] = "failed"}
<1>1. /\ n["all"] = Cardinality({i \in D : "all" \in {"all", EventFamily(log[i])}})
      /\ n["admission"] = Cardinality({i \in D : "admission" \in {"all", EventFamily(log[i])}})
      /\ n["config"] = Cardinality({i \in D : "config" \in {"all", EventFamily(log[i])}})
      /\ n["other"] = Cardinality({i \in D : "other" \in {"all", EventFamily(log[i])}})
  BY DEF Timeline, EventFamilies
<1>2. EventsPage.advice => Cardinality(A) * 10 > Len(log) * 8
  BY DEF EventsPage, AdmissionDominates
<1>3. log \in Seq(EventTypes)
  BY RingKnown
<1> HIDE DEF log
<1>4. Len(log) \in Nat /\ D = 1..Len(log) /\ \A i \in D : log[i] \in EventTypes
  BY <1>3
<1>5. IsFiniteSet(D) /\ Cardinality(D) = Len(log)
  <2> DEFINE k == Len(log)
  <2>1. k \in Nat /\ 1 \in Int /\ k \in Int /\ D = 1..k
    BY <1>4
  <2> HIDE DEF k
  <2>2. IsFiniteSet(1..k) /\ Cardinality(1..k) = IF 1 > k THEN 0 ELSE k - 1 + 1
    BY <2>1, FS_Interval
  <2>3. Cardinality(1..k) = k
    BY <2>1, <2>2
  <2> QED
    BY <2>1, <2>2, <2>3 DEF k
<1>6. /\ {i \in D : "all" \in {"all", EventFamily(log[i])}} = D
      /\ {i \in D : "admission" \in {"all", EventFamily(log[i])}} = A
      /\ {i \in D : "config" \in {"all", EventFamily(log[i])}} = B
      /\ {i \in D : "other" \in {"all", EventFamily(log[i])}} = C
  BY <1>4 DEF EventFamily, EventTypes
<1>7. D = A \cup B \cup C /\ A \cap B = {} /\ A \cap C = {} /\ B \cap C = {}
  BY <1>4 DEF EventTypes
<1>8. n["all"] = Cardinality(D) /\ n["admission"] = Cardinality(A) /\ n["config"] = Cardinality(B) /\ n["other"] = Cardinality(C)
  BY <1>1, <1>6
<1> HIDE DEF A, B, C, D
<1>9. /\ Cardinality(A) \in Nat /\ Cardinality(B) \in Nat /\ Cardinality(C) \in Nat
      /\ Cardinality(D) = Cardinality(A) + Cardinality(B) + Cardinality(C)
  BY <1>5, <1>7, SplitInThree
<1>10. ASSUME Cardinality(A) * 10 > Len(log) * 8
       PROVE  Cardinality(A) > Cardinality(B) + Cardinality(C)
  <2> DEFINE a == Cardinality(A)
             b == Cardinality(B)
             c == Cardinality(C)
  <2>1. a \in Nat /\ b \in Nat /\ c \in Nat /\ a * 10 > (a + b + c) * 8
    BY <1>5, <1>9, <1>10
  <2> HIDE DEF a, b, c
  <2>2. a > b + c
    BY <2>1
  <2> QED
    BY <2>2 DEF a, b, c
<1> QED
  BY <1>2, <1>8, <1>9, <1>10

\* The first rows of a list.
LEMMA FirstRows ==
    ASSUME NEW E, NEW rows \in Seq(E), NEW L, L = Len(rows), NEW m \in 1..L,
           NEW o, o = 1, NEW shown, shown = SubSeq(rows, o, m)
    PROVE  Len(shown) = m /\ DOMAIN shown = 1..m /\ \A i \in 1..m : shown[i] = rows[i]
<1>1. m \in Nat /\ 1 <= m /\ m <= L /\ L \in Nat
  OBVIOUS
<1>2. \A i \in 1..m : rows[i] \in E
  BY <1>1, ElementOfSeq
<1>3. o = 1 /\ o \in Int /\ m \in Int /\ shown = SubSeq(rows, o, m) /\ \A i \in o..m : rows[i] \in E
  BY <1>1, <1>2
<1>4. /\ shown \in Seq(E)
      /\ Len(shown) = IF o <= m THEN m - o + 1 ELSE 0
      /\ \A i \in 1..(m - o + 1) : shown[i] = rows[o + i - 1]
  BY <1>3, SubSeqProperties
<1>5. Len(shown) = m /\ DOMAIN shown = 1..m
  BY <1>1, <1>3, <1>4
<1>6. ASSUME NEW i \in 1..m PROVE shown[i] = rows[i]
  <2>1. i \in 1..(m - o + 1) /\ o + i - 1 = i
    BY <1>1, <1>3
  <2> QED
    BY <1>4, <2>1
<1> QED
  BY <1>5, <1>6

\* How many rows are shown: all, or as many as there is room for.
LEMMA RowsShown ==
    ASSUME NEW L \in Nat, L > 0, NEW m, m = Min({TimelineLimit, L})
    PROVE  m \in 1..L /\ m <= TimelineLimit /\ (m = L \/ m = TimelineLimit)
<1> DEFINE X == {TimelineLimit, L}
<1>1. TimelineLimit \in Nat /\ TimelineLimit > 0
  BY PulseAssumption
<1>2. X \subseteq Nat /\ X # {} /\ m = Min(X)
  BY <1>1
<1> HIDE DEF X
<1>3. m \in X
  BY <1>2, SmallestIsIn
<1>4. \E x \in X : \A y \in X : x <= y
  BY <1>2, LeastNumber
<1>5. \A y \in X : m <= y
  BY <1>2, <1>4 DEF Min
<1>6. (m = TimelineLimit \/ m = L) /\ m <= TimelineLimit /\ m <= L
  BY <1>3, <1>5 DEF X
<1> QED
  BY <1>1, <1>6

\* The first runs of a log stand for its first events.
LEMMA RunsCut ==
    ASSUME NEW S, NEW events, NEW n \in Nat, n = Len(events), n > 0,
           NEW runs \in Seq(EventRow(S)), RunRows(runs, events, n),
           NEW m \in 1..Len(runs), m <= TimelineLimit, m = Len(runs) \/ m = TimelineLimit,
           NEW shown, Len(shown) = m, DOMAIN shown = 1..m, \A i \in 1..m : shown[i] = runs[i]
    PROVE  TimelineTells(shown, events)
<1> DEFINE L == Len(runs)
<1>1. L \in Nat /\ m \in Nat /\ 1 <= m /\ m <= L
  OBVIOUS
<1>2. /\ \A i \in 1..L : RunRow(runs[i], events, n)
      /\ \A i \in 1..L : i > 1 =>
            runs[i].latest = runs[i - 1].oldest + 1 /\ runs[i].type # runs[i - 1].type
      /\ L > 0 => runs[1].latest = 1 /\ runs[L].oldest = n
  BY DEF RunRows
<1>3. \A i \in 1..L : runs[i].latest \in Nat /\ runs[i].oldest \in Nat
  <2>1. \A i \in 1..L : runs[i] \in EventRow(S)
    BY ElementOfSeq
  <2> QED
    BY <2>1 DEF EventRow
<1>4. m = L \/ m = TimelineLimit
  OBVIOUS
<1> HIDE DEF L
<1>5. shown # <<>> /\ Len(shown) <= TimelineLimit /\ shown[1].latest = 1
  <2>1. 1 \in 1..m /\ L > 0
    BY <1>1
  <2>2. shown[1] = runs[1] /\ runs[1].latest = 1
    BY <1>2, <2>1
  <2>3. shown # <<>>
    <3>1. DOMAIN <<>> = {}
      OBVIOUS
    <3> QED
      BY <2>1, <3>1
  <2> QED
    BY <2>2, <2>3
<1>6. ASSUME NEW i \in DOMAIN shown
      PROVE  /\ shown[i].count = shown[i].oldest - shown[i].latest + 1
             /\ \A k \in shown[i].latest..shown[i].oldest : events[k] = shown[i].type
             /\ i > 1 => shown[i].latest = shown[i - 1].oldest + 1 /\ shown[i].type # shown[i - 1].type
  <2>1. i \in 1..m /\ i \in 1..L /\ shown[i] = runs[i]
    BY <1>1
  <2>2. i > 1 => shown[i - 1] = runs[i - 1]
    <3>1. i > 1 => i - 1 \in 1..m
      BY <1>1, <2>1
    <3> QED
      BY <3>1
  <2>3. RunRow(runs[i], events, n)
    BY <1>2, <2>1
  <2> QED
    BY <1>2, <2>1, <2>2, <2>3 DEF RunRow
<1>7. shown[m] = runs[m] /\ m \in 1..L /\ m \in 1..m
  <2>1. m \in 1..m /\ m \in 1..L
    BY <1>1
  <2> QED
    BY <2>1
<1>8. \/ shown[m].oldest = n
      \/ m = TimelineLimit /\ shown[m].oldest < n /\ events[shown[m].oldest + 1] # shown[m].type
  <2>1. CASE m = L
    BY <1>1, <1>2, <1>7, <2>1
  <2>2. CASE m # L
    <3> DEFINE M == m + 1
               a == runs[m]
               b == runs[M]
    <3>1. M \in 1..L /\ M > 1 /\ M - 1 = m /\ m = TimelineLimit
      BY <1>1, <1>4, <2>2
    <3> HIDE DEF M
    <3>2. b.latest = a.oldest + 1 /\ b.type # a.type
      BY <1>2, <3>1
    <3>3. RunRow(b, events, n) /\ b.latest \in Nat /\ b.oldest \in Nat /\ a.oldest \in Nat
      BY <1>2, <1>3, <1>7, <3>1
    <3>4. shown[m] = a
      BY <1>7
    <3> HIDE DEF a, b
    <3>5. events[b.latest] = b.type /\ b.latest <= n
      BY <3>3 DEF RunRow
    <3>6. a.oldest < n /\ events[a.oldest + 1] # a.type
      BY <3>2, <3>3, <3>5
    <3> QED
      BY <3>1, <3>4, <3>6
  <2> QED
    BY <2>1, <2>2
<1> QED
  BY <1>5, <1>6, <1>8 DEF TimelineTells

\* The timeline of the overview stands for the newest events of the ring.
LEMMA RingTold ==
    ASSUME PulseInv, RecentEventsWidget.shows = "timeline"
    PROVE  TimelineTells(RecentEventsWidget.rows, Reverse(P.log))
<1> DEFINE log == P.log
           events == Reverse(log)
           R == EventRuns(events)
           n == Len(events)
           runs == R[n]
           shown == RecentEventsWidget.rows
<1> SUFFICES TimelineTells(shown, events)
  OBVIOUS
<1>1. shown = CoalesceEvents(events, TimelineLimit) /\ log # <<>>
  BY DEF RecentEventsWidget
<1>2. shown = SubSeq(runs, 1, Min({TimelineLimit, Len(runs)}))
  BY <1>1 DEF CoalesceEvents
<1>3. log \in Seq(EventTypes)
  BY RingKnown
<1> HIDE DEF log
<1>4. Len(log) > 0 /\ Len(log) \in Nat
  BY <1>1, <1>3
<1>5. events \in Seq(EventTypes) /\ n = Len(log)
  <2>1. events = [i \in 1..Len(log) |-> log[(Len(log) - i) + 1]]
    BY DEF Reverse
  <2>2. \A i \in 1..Len(log) : (Len(log) - i) + 1 \in 1..Len(log)
    BY <1>4
  <2>3. \A i \in 1..Len(log) : log[i] \in EventTypes
    BY <1>3
  <2>4. events \in [1..Len(log) -> EventTypes]
    BY <2>1, <2>2, <2>3
  <2> QED
    BY <1>4, <2>4
<1>6. n \in 0..n /\ n > 0 /\ n = Len(events) /\ R = EventRuns(events)
  BY <1>4, <1>5
<1> HIDE DEF events, R, n
<1>7. R[n] \in Seq(EventRow(EventTypes)) /\ RunRows(R[n], events, n)
  BY <1>5, <1>6, RunsTold
<1> HIDE DEF runs, shown
<1>8. TimelineTells(shown, events)
  <2>1. runs \in Seq(EventRow(EventTypes)) /\ RunRows(runs, events, n)
    BY <1>7 DEF runs
  <2> DEFINE L == Len(runs)
             m == Min({TimelineLimit, L})
  <2>2. L \in Nat /\ L > 0 /\ L = Len(runs) /\ n \in Nat
    BY <1>4, <1>5, <1>6, <2>1 DEF RunRows
  <2>3. shown = SubSeq(runs, 1, m) /\ m = Min({TimelineLimit, L})
    BY <1>2
  <2> HIDE DEF L, m
  <2>4. m \in 1..L /\ m <= TimelineLimit /\ (m = L \/ m = TimelineLimit)
    BY <2>2, <2>3, RowsShown
  <2>5. Len(shown) = m /\ DOMAIN shown = 1..m /\ \A i \in 1..m : shown[i] = runs[i]
    <3> DEFINE E == EventRow(EventTypes)
               o == 1
    <3>1. runs \in Seq(E) /\ o = 1 /\ shown = SubSeq(runs, o, m) /\ L = Len(runs) /\ m \in 1..L
      BY <2>1, <2>2, <2>3, <2>4
    <3> HIDE DEF E, o
    <3> QED
      BY <3>1, FirstRows
  <2>6. m \in 1..Len(runs) /\ (m = Len(runs) \/ m = TimelineLimit)
    BY <2>2, <2>4
  <2> QED
    BY <1>6, <2>1, <2>2, <2>4, <2>5, <2>6, RunsCut
<1> QED
  BY <1>8

\* Lists of the same records agree on the diagnostics (PulseListsAgree).
LEMMA ListsTold == ASSUME PulseInv PROVE PulseListsAgree
<1>1. EventsAgree(Timeline(P.log).counts, RecentEventsWidget)
  BY FamiliesSplit, RingTold DEF EventsAgree
<1> QED
  BY <1>1, PairShown, RouteShown, WritersSplit, ClientsListed DEF PulseListsAgree

(***************************************************************************)
(* The diagnostics never contradict themselves in their lists, cut as they  *)
(* are: the pane of a page shows a row its list has, the operator's choice  *)
(* while it is there; filters split the whole list; the timeline stands for *)
(* the newest events of the ring, each once and no run cut in two; whoever  *)
(* is on the quota card is among the clients that need attention, unless    *)
(* that list is full of clients that come first; and the colour of their    *)
(* count is that of all of them.  It holds in every state the frames and    *)
(* the operator can lead to, for every limit of the lists and however many  *)
(* clients.                                                                 *)
(***************************************************************************)
THEOREM ListsTellTheSame == ServerPagesSpec => []PulseListsAgree
<1>1. PulseInv => PulseListsAgree
  BY ListsTold
<1> QED
  BY <1>1, ServerPulse, PTL
=============================================================================
