---------------------------- MODULE HistoryWindow ----------------------------
(***************************************************************************)
(* The "last fifteen minutes" figures of the overview: what                 *)
(* pulse/widgets/historyIntervals.helpers.ts and statRow.helpers.ts make of *)
(* the counter series GET /api/history returns.  A series mixes raw samples *)
(* and aggregates of older ones, may overlap, may have gaps where polls     *)
(* were missed and may fall back where the counter restarted; the helpers   *)
(* must never report movement that did not happen, nor call a window        *)
(* complete that is not.  One tick stands for a minute.                     *)
(***************************************************************************)
EXTENDS Naturals, Sequences, FiniteSetsExt, SequencesExt

CONSTANTS MaxTick,       \* bound: minutes of history in one behaviour
          WindowTicks    \* HISTORY_WINDOW_SECS, in ticks
ASSUME HistoryAssumption == MaxTick \in Nat /\ WindowTicks \in Nat \ {0}

\* grown[k][t]: what counter k has truly counted by tick t; seen: the samples
\* [t, a, r] the panel took; wiped: the ticks at which the counters restarted.
VARIABLE hist
histVars == <<hist>>

OBSERVATION_GAP == 2
Counters == {"attempts", "refusals"}
Grown(k, t) == IF t = 0 THEN 0 ELSE hist.grown[t][k]
\* The reading of a counter: what it has counted since its last restart.
Reading(k, t) == Grown(k, t) - Grown(k, Max({0} \cup {w \in hist.wiped : w <= t}))

HistInit == hist = [grown |-> <<>>, seen |-> <<>>, wiped |-> {}]

\* A minute passes: attempts come in, some refused, and the poll may fail.
HistTick ==
    LET t == Len(hist.grown)
    IN /\ t < MaxTick
       /\ \E g \in {<<0, 0>>, <<1, 0>>, <<1, 1>>}, polled \in BOOLEAN :
             hist' = [hist EXCEPT
                        !.grown = Append(@, [attempts |-> Grown("attempts", t) + g[1],
                                             refusals |-> Grown("refusals", t) + g[2]]),
                        !.seen = IF polled THEN Append(@, t + 1) ELSE @]
\* The counters begin again from zero.
HistRestart ==
    /\ hist.wiped = {} /\ Len(hist.grown) \in 1..(MaxTick - 1)
    /\ hist' = [hist EXCEPT !.wiped = {Len(hist.grown)}]
HistNext == HistTick \/ HistRestart
HistSpec == HistInit /\ [][HistNext]_histVars

(***************************************************************************)
(* The answer of GET /api/history: the first `cut` samples as one           *)
(* aggregate, the rest raw; `lap` raw samples repeat the aggregate's end,   *)
(* and an older API omits the aggregate's first value (`bare`).             *)
(***************************************************************************)
RawPoint(k, t) ==
    [tier |-> FALSE, first |-> t, last |-> t, v |-> Reading(k, t), from |-> Reading(k, t),
     delta |-> 0, secs |-> 0, gaps |-> 0, bare |-> FALSE]
Bridged(k, i) ==
    /\ hist.seen[i + 1] - hist.seen[i] <= OBSERVATION_GAP
    /\ Reading(k, hist.seen[i + 1]) >= Reading(k, hist.seen[i])
Bucket(k, cut, bare) ==
    LET links == {i \in 1..(cut - 1) : Bridged(k, i)}
    IN [tier |-> TRUE, first |-> hist.seen[1], last |-> hist.seen[cut],
        v |-> Reading(k, hist.seen[cut]), from |-> Reading(k, hist.seen[1]),
        delta |-> MapThenSumSet(LAMBDA i : Reading(k, hist.seen[i + 1]) - Reading(k, hist.seen[i]), links),
        secs |-> MapThenSumSet(LAMBDA i : hist.seen[i + 1] - hist.seen[i], links),
        gaps |-> cut - 1 - Cardinality(links), bare |-> bare]
Shapes == {s \in [cut : 0..Len(hist.seen), lap : 0..1, bare : BOOLEAN] :
              s.cut = 0 => s.lap = 0 /\ ~s.bare}
HistorySeries(k, s) ==
    LET raw == SubSeq(hist.seen, s.cut + 1 - s.lap, Len(hist.seen))
    IN (IF s.cut = 0 THEN <<>> ELSE <<Bucket(k, s.cut, s.bare)>>)
       \o [i \in DOMAIN raw |-> RawPoint(k, raw[i])]

(***************************************************************************)
(* historyIntervals.helpers.ts.                                             *)
(***************************************************************************)
HistoryPointStart(p) == p.first
HistoryPointEnd(p) == p.last
\* counterObservation: an aggregate without a first value is usable only if unbroken.
Observable(p) == ~p.tier \/ ~p.bare \/ p.gaps = 0
FirstValue(p) == IF p.tier /\ p.bare THEN p.v - p.delta ELSE p.from

Step(from, to, delta, seconds, complete) ==
    [from |-> from, to |-> to, delta |-> delta, seconds |-> seconds, complete |-> complete]

\* Mutant: an aggregate counts as complete whatever gaps it holds.
BucketsAreComplete(acc, p) ==
    [steps |-> IF p.delta >= 0 /\ p.secs > 0 THEN Append(acc.steps, Step(p.first, p.last, p.delta, p.secs, TRUE)) ELSE acc.steps,
     partial |-> acc.partial, at |-> p.last, value |-> p.v]

\* The aggregate's own movement, complete when its samples follow one another.
OwnStep(acc, p) ==
    LET usable == p.delta >= 0 /\ p.secs > 0 /\ p.secs <= p.last - p.first
        complete == p.gaps = 0 /\ p.secs = p.last - p.first
        own == p.last > p.first
    IN [steps |-> IF own /\ usable THEN Append(acc.steps, Step(p.first, p.last, p.delta, p.secs, complete)) ELSE acc.steps,
        partial |-> acc.partial \/ (own /\ ~(usable /\ complete)),
        at |-> p.last, value |-> p.v]

\* One point: the bridge from the previous sample, then its own movement.
NextPoint(acc, p) ==
    LET seconds == p.first - acc.at
        delta == FirstValue(p) - acc.value
        bridge == seconds > 0 /\ seconds <= OBSERVATION_GAP /\ delta >= 0
        broken == ~bridge /\ (seconds # 0 \/ delta # 0)
    IN IF ~Observable(p) THEN [acc EXCEPT !.partial = TRUE, !.at = 0]
       ELSE IF acc.at = 0 THEN OwnStep(acc, p)
       ELSE IF bridge
            THEN OwnStep([acc EXCEPT !.steps = Append(@, Step(acc.at, p.first, delta, seconds, TRUE))], p)
       ELSE IF seconds < 0
            THEN IF p.last > acc.at THEN [acc EXCEPT !.partial = TRUE, !.at = p.last, !.value = p.v]
                 ELSE [acc EXCEPT !.partial = TRUE]
       ELSE OwnStep([acc EXCEPT !.partial = @ \/ broken], p)
CounterSteps(points) ==
    FoldLeft(NextPoint, [steps |-> <<>>, partial |-> FALSE, at |-> 0, value |-> 0], points)

\* Clipped at observations only: never a share of an aggregate.
SliceHistory(points, from, to) ==
    LET straddles(p) == (p.first < from /\ p.last > from) \/ (p.first < to /\ p.last > to)
        clipped(p) ==
            IF p.last < from \/ p.first > to THEN <<>>
            ELSE IF p.first >= from /\ p.last <= to THEN <<p>>
            ELSE IF ~Observable(p) THEN <<>>
            ELSE (IF p.first >= from /\ p.first <= to
                  THEN <<[p EXCEPT !.tier = FALSE, !.last = p.first, !.v = FirstValue(p), !.from = FirstValue(p)]>> ELSE <<>>)
                 \o (IF p.last >= from /\ p.last <= to
                     THEN <<[p EXCEPT !.tier = FALSE, !.first = p.last, !.from = p.v]>> ELSE <<>>)
        kept == FoldLeft(LAMBDA out, p : out \o clipped(p), <<>>, points)
    IN [points |-> kept, from |-> from,
        ready |-> ~(\E i \in DOMAIN points : straddles(points[i])
                                  /\ ~(points[i].last < from \/ points[i].first > to))
                  /\ ~CounterSteps(kept).partial]

\* Both series, step for step the same intervals, refusals within attempts.
MatchingCounterSteps(attempts, refusals) ==
    LET a == CounterSteps(attempts).steps
        r == CounterSteps(refusals).steps
    IN /\ a # <<>> /\ Len(a) = Len(r)
       /\ \A i \in DOMAIN a : /\ a[i].complete /\ r[i].complete
                              /\ a[i].from = r[i].from /\ a[i].to = r[i].to
                              /\ r[i].delta <= a[i].delta

CompleteCounterWindow(w) ==
    LET c == CounterSteps(w.points)
        tolerance == Min({1} \cup {c.steps[i].seconds : i \in DOMAIN c.steps})
    IN /\ w.ready /\ ~c.partial /\ c.steps # <<>>
       /\ Head(c.steps).from <= w.from + tolerance
       /\ Last(c.steps).to + tolerance >= w.from + WindowTicks

(***************************************************************************)
(* statRow.helpers.ts: the last window of a series and the one before it.   *)
(* Times are shifted by WindowTicks * 2 so that a window may begin before   *)
(* the first sample.                                                        *)
(***************************************************************************)
Shifted(points) ==
    [i \in DOMAIN points |-> [points[i] EXCEPT !.first = @ + 2 * WindowTicks, !.last = @ + 2 * WindowTicks]]
WindowSeries(points) ==
    LET end == HistoryPointEnd(Last(points)) IN SliceHistory(points, end - WindowTicks, end)
PreviousWindowSeries(points) ==
    LET seam == HistoryPointEnd(Last(points)) - WindowTicks IN SliceHistory(points, seam - WindowTicks, seam)
WindowDelta(points) == FoldLeft(LAMBDA sum, s : sum + s.delta, 0, CounterSteps(points).steps)

\* windowRatio: refusals over the attempts of the same steps; Unknown when nobody tried.
Unknown == 101
WindowRatio(attempts, refusals) ==
    LET tried == IF MatchingCounterSteps(attempts, refusals) THEN WindowDelta(attempts) ELSE 0
    IN IF tried = 0 THEN Unknown ELSE 100 - (WindowDelta(refusals) * 100) \div tried
Compared(now, before, windows) ==
    [percent |-> now, before |-> before,
     compared |-> now # Unknown /\ before # Unknown /\ \A w \in windows : CompleteCounterWindow(w)]
QualityOf(w1, w2, w3, w4) ==
    Compared(WindowRatio(w1.points, w2.points), WindowRatio(w3.points, w4.points), {w1, w2, w3, w4})
ConnectionQuality(a, r) ==
    QualityOf(WindowSeries(a), WindowSeries(r), PreviousWindowSeries(a), PreviousWindowSeries(r))

\* counterRates: the latest unbroken run of complete steps, none if it ends early.
CounterRates(points) ==
    LET c == FoldLeft(LAMBDA acc, s :
                 [run |-> IF ~s.complete THEN <<>>
                          ELSE IF acc.end = s.from THEN Append(acc.run, s) ELSE <<s>>,
                  end |-> s.to],
                 [run |-> <<>>, end |-> 0], CounterSteps(points).steps)
    IN IF points # <<>> /\ c.end = HistoryPointEnd(Last(points)) THEN c.run ELSE <<>>

\* StatRow: the traffic and the quality tile, and what their captions admit.
HistoryCaption(w, fallback) ==
    IF w.points = <<>> THEN "collecting" ELSE IF ~w.ready THEN "partial" ELSE fallback
QualityCaption(q) == IF q.compared THEN "change" ELSE "refusals"
Tiles(w, refused, q) ==
    [traffic |-> [value |-> WindowDelta(w.points), known |-> CounterSteps(w.points).steps # <<>>,
                  caption |-> HistoryCaption(w, "total"), chart |-> CounterRates(w.points)],
     quality |-> [percent |-> q.percent,
                  tone |-> IF q.percent # Unknown /\ (q.percent < 98 \/ (q.compared /\ q.percent + 1 < q.before))
                           THEN "warn" ELSE "ok",
                  caption |-> HistoryCaption(IF w.ready THEN refused ELSE w, QualityCaption(q))]]
StatRow(a, r) == Tiles(WindowSeries(a), WindowSeries(r), ConnectionQuality(a, r))

\* What was really counted between the first and the last of these steps.
Moved(steps) ==
    Grown("attempts", Last(steps).to - 2 * WindowTicks) - Grown("attempts", Head(steps).from - 2 * WindowTicks)
TilesAreHonest(row, steps) ==
    /\ row.traffic.known => row.traffic.value <= Moved(steps)
    /\ row.traffic.known /\ row.traffic.caption # "partial" /\ hist.wiped = {} => row.traffic.value = Moved(steps)
    /\ row.quality.percent # Unknown => row.quality.percent \in 0..100
    /\ row.quality.caption = "change" => Len(hist.grown) + 1 >= 2 * WindowTicks
    /\ \A i \in DOMAIN row.traffic.chart : row.traffic.chart[i].delta <= row.traffic.chart[i].seconds

SeriesAreHonest(a, r) ==
    TilesAreHonest(StatRow(a, r), CounterSteps(WindowSeries(a).points).steps)

(***************************************************************************)
(* Whatever mix of samples and aggregates the series is, the traffic of the *)
(* last window is never more than what was really counted in it; without a  *)
(* restart, a tile that does not admit to a partial history shows exactly   *)
(* the movement between its first and its last sample; the share of good    *)
(* connections lies between 0 and 100; a comparison is drawn only between   *)
(* two complete windows; and no step of the chart is steeper than the       *)
(* counter ever moved (one attempt in a tick).                              *)
(***************************************************************************)
HistoryIsHonest ==
    \A s \in Shapes : Len(hist.seen) > 0 =>
        SeriesAreHonest(Shifted(HistorySeries("attempts", s)), Shifted(HistorySeries("refusals", s)))
=============================================================================
