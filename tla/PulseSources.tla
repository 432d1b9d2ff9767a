---------------------------- MODULE PulseSources ----------------------------
(***************************************************************************)
(* What a diagnostic card or page may say about the data behind it:         *)
(* pulse/sourceState.ts, pulse/meAvailability.ts, pulse/widgets/gated.ts    *)
(* and caps/gateHints.ts as operators.  A topic snapshot is one of four     *)
(* states, because sseClient.ts sets `stale` and `error` together and a     *)
(* frame clears both: nothing yet ("none"), an error before any data        *)
(* ("failed"), current data ("live"), data kept after an error ("late").    *)
(***************************************************************************)
EXTENDS Naturals, Sequences, FiniteSets, SequencesExt

TopicStates == {"none", "failed", "live", "late"}
TopicArrived(st) == st \in {"live", "late"}
TopicTroubled(st) == st \in {"failed", "late"}
AfterFrame(st) == "live"
AfterSourceError(st) == IF TopicArrived(st) THEN "late" ELSE "failed"

(***************************************************************************)
(* A Gated<T> wrapper: missing from the payload ("null"), closed with one   *)
(* of the reasons Telemt sends, open without data ("nodata") or open with   *)
(* data.  "undeclared" stands for an input that passes no gate at all.      *)
(***************************************************************************)
ClosedReasons == {"feature_disabled", "source_unavailable", "starting", "capability_absent"}
Wrappers == ClosedReasons \cup {"null", "nodata", "data"}

UNSUPPORTED_REASONS == {"capability_absent"}
GatedStatus(w) ==
    IF w \in ClosedReasons
    THEN IF w \in UNSUPPORTED_REASONS THEN "unsupported" ELSE "disabled"
    ELSE IF w = "nodata" THEN "empty" ELSE "ready"

\* resolveGated: a widget may read the payload only behind an open gate with data.
ResolvedOk(w) == w = "data"

State(status, reason, has) == [status |-> status, reason |-> reason, hasData |-> has]
AbsentGateState == State("disabled", "none", FALSE)

\* Mutant: the payload kept after a failed refresh passes for current.
ResolveKeepingQuiet(st, w, empty) ==
    IF w = "null" /\ TopicArrived(st) THEN AbsentGateState
    ELSE IF w \in Wrappers \ {"null"} /\ GatedStatus(w) \in {"disabled", "unsupported"}
         THEN State(GatedStatus(w), w, FALSE)
    ELSE IF w = "nodata" THEN State("empty", "none", FALSE)
    ELSE IF ~TopicArrived(st)
         THEN State(IF st = "failed" THEN "error" ELSE "loading", "none", FALSE)
    ELSE IF empty THEN State("empty", "none", FALSE)
    ELSE State("ready", "none", TRUE)

ResolveTopicSource(st, w, empty) ==
    IF w = "null" /\ TopicArrived(st) THEN AbsentGateState
    ELSE IF w \in Wrappers \ {"null"} /\ GatedStatus(w) \in {"disabled", "unsupported"}
         THEN State(GatedStatus(w), w, FALSE)
    ELSE IF w = "nodata" THEN State("empty", "none", FALSE)
    ELSE IF ~TopicArrived(st)
         THEN State(IF st = "failed" THEN "error" ELSE "loading", "none", FALSE)
    ELSE IF TopicTroubled(st) THEN State("stale", "none", TRUE)
    ELSE IF empty THEN State("empty", "none", FALSE)
    ELSE State("ready", "none", TRUE)

(***************************************************************************)
(* A React Query source.  `q` is its last outcome, `cached` whether an      *)
(* earlier answer is still held.                                            *)
(***************************************************************************)
QueryOutcomes == {"pending", "ok", "empty", "failed", "capability_absent", "capability_unavailable"}
ResolveQuerySource(q, cached) ==
    CASE q = "capability_absent" -> State("unsupported", "none", FALSE)
      [] q = "capability_unavailable" -> State("disabled", "none", FALSE)
      [] q = "failed" -> IF cached THEN State("stale", "none", TRUE)
                         ELSE State("error", "none", FALSE)
      [] q = "pending" -> State("loading", "none", FALSE)
      [] q = "empty" -> State("empty", "none", FALSE)
      [] q = "ok" -> State("ready", "none", TRUE)

(***************************************************************************)
(* The one status of a page: `req` and `opt` are the sequences of states of *)
(* its required and optional sources.                                       *)
(***************************************************************************)
READY_LIKE == {"ready", "stale", "empty"}
AggregateSources(req, opt) ==
    LET all == ToSet(req) \cup ToSet(opt)
        blocked == {i \in DOMAIN req : req[i].status \in {"error", "disabled", "unsupported"}}
        has == \E s \in all : s.hasData
    IN IF blocked # {} THEN req[Min(blocked)].status
       ELSE IF ~has /\ \E s \in ToSet(req) : s.status = "loading" THEN "loading"
       ELSE IF has /\ \E s \in all : s.status \notin READY_LIKE THEN "partial"
       ELSE IF \E s \in all : s.status = "stale" THEN "stale"
       ELSE IF \A s \in all : s.status = "empty" THEN "empty"
       ELSE IF \E s \in all : s.status = "loading" THEN "loading"
       ELSE "ready"

(***************************************************************************)
(* Telemt's route gates: Nothing when the sub-call failed.                  *)
(***************************************************************************)
NoGates == [mode |-> "unknown", use |-> FALSE, reroute |-> FALSE]
RouteGates == [mode : {"direct", "middle"}, use : BOOLEAN, reroute : BOOLEAN] \cup {NoGates}

FreshGates(st, gates) == IF st = "live" THEN gates ELSE NoGates

MeAvailability(st, gates, available, reason, minimal) ==
    LET g == FreshGates(st, gates)
    IN IF g.mode = "direct" /\ ~g.use /\ ~g.reroute THEN "direct"
       ELSE IF g.mode = "direct" /\ g.reroute THEN "fallback"
       ELSE IF available THEN "none"
       ELSE IF reason \in UNSUPPORTED_REASONS THEN "unsupported"
       ELSE IF minimal /\ reason = "feature_disabled" THEN "minimal_disabled"
       ELSE "unavailable"

\* meRouteMode: the ME page's reading of the same gates.
MeRouteMode(g, writersEnabled) ==
    IF g.mode = "direct" /\ ~g.use /\ ~g.reroute THEN "direct"
    ELSE IF g.reroute \/ (g.use /\ g.mode = "direct") THEN "fallback"
    ELSE IF g.use \/ writersEnabled THEN "middle"
    ELSE "unknown"

\* isFallback (mePool.helpers.ts) and routeModeValue (healthHero.helpers.ts).
IsFallback(g) == g.use /\ (g.reroute \/ g.mode = "direct")
RouteModeValue(g) ==
    IF g = NoGates THEN "dash"
    ELSE IF ~g.use THEN "direct"
    ELSE IF g.reroute \/ g.mode = "direct" THEN "fallback" ELSE "me"

(***************************************************************************)
(* The "how to enable it" line of a closed gate.                            *)
(***************************************************************************)
HintSpecs ==
    [edge |-> [off |-> "runtime_edge", shut |-> "source_temporarily_unavailable",
               other |-> "runtime_edge", fallback |-> "runtime_edge"],
     minimal |-> [off |-> "minimal_runtime_enabled", shut |-> "me_pool_unavailable",
                  other |-> "minimal_runtime_enabled", fallback |-> "minimal_runtime_enabled"],
     upstream |-> [off |-> "minimal_runtime_enabled", shut |-> "source_temporarily_unavailable",
                   other |-> "minimal_runtime_enabled", fallback |-> "minimal_runtime_enabled"],
     pool |-> [off |-> "me_pool_unavailable", shut |-> "me_pool_unavailable",
               other |-> "me_pool_unavailable", fallback |-> "me_pool_unavailable"],
     web |-> [off |-> "web_enabled", shut |-> "web_enabled",
              other |-> "web_runtime_transitional", fallback |-> "web_enabled"]]

ResolveGateHint(spec, reason) ==
    CASE reason = "feature_disabled" -> HintSpecs[spec].off
      [] reason = "source_unavailable" -> HintSpecs[spec].shut
      [] reason = "starting" -> HintSpecs[spec].other
      [] OTHER -> HintSpecs[spec].fallback

HintKeyFor(s, spec) ==
    CASE s.status = "unsupported" -> "telemt_outdated"
      [] s.status = "disabled" /\ spec # "none" -> ResolveGateHint(spec, s.reason)
      [] OTHER -> "none"
=============================================================================
