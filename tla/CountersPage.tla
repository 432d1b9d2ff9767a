---------------------------- MODULE CountersPage ----------------------------
(***************************************************************************)
(* The counters page, pulse/diag/CountersPage.tsx.  The panel keeps no      *)
(* history of Telemt's counters: every change the page shows is the         *)
(* difference of two answers of one poll, so it is only as honest as the    *)
(* page's idea of which answers belong to one run of the process.  A render *)
(* may see a new answer, a press of "reset baseline", or both at once.      *)
(***************************************************************************)
EXTENDS Integers, FiniteSets

CONSTANT MaxCounterTicks     \* bound: seconds the proxy is watched for

ASSUME CounterAssumption == MaxCounterTicks \in Nat

VARIABLES zero,   \* Telemt: the run, its uptime and its counters
          deltas, \* DeltaState of the page, resetToken and the tab
          ctrTime
ctrVars == <<zero, deltas, ctrTime>>

(***************************************************************************)
(* The answer: scalar counters, a breakdown under one of them and a gauge.  *)
(* A proxy may start to report a path late.                                 *)
(***************************************************************************)
Scalars == {"core.connections_total", "core.handshake_timeouts_total"}
Breakdown == {"core.connections_bad_by_class.timeout"}
CounterPaths == Scalars \cup Breakdown
IsFailureCounterPath(p) == p \in {"core.handshake_timeouts_total"} \cup Breakdown
ReadCounterValues == [p \in zero.known |-> zero.value[p]]

NoReading == [run |-> 0, up |-> 0, at |-> 0, values |-> [p \in {} |-> 0]]
EmptyDeltas ==
    [atMs |-> 0, current |-> NoReading, previous |-> NoReading, baseline |-> NoReading,
     token |-> 0, restarted |-> FALSE, reset |-> 0, tab |-> "activity", filter |-> "all",
     status |-> "pending", unseen |-> FALSE]

CountersRestarted(before, after) == before # NoReading /\ after.up < before.up

\* Mutant: a restart drops the previous answer and keeps the baseline.
BaselineSurvives(st, reading) ==
    LET restarted == CountersRestarted(st.current, reading)
    IN [st EXCEPT !.atMs = reading.at, !.current = reading,
                  !.previous = IF restarted THEN NoReading ELSE st.current,
                  !.baseline = IF st.baseline = NoReading THEN reading ELSE st.baseline,
                  !.token = st.reset, !.restarted = st.restarted \/ restarted]

\* The part of useCounterDeltas that takes a new answer in.
TakeReading(st, reading) ==
    LET restarted == CountersRestarted(st.current, reading)
    IN [st EXCEPT !.atMs = reading.at, !.current = reading,
                  !.previous = IF restarted THEN NoReading ELSE st.current,
                  !.baseline = IF restarted \/ st.baseline = NoReading THEN reading ELSE st.baseline,
                  !.token = st.reset, !.restarted = st.restarted \/ restarted]

\* The part that follows a pressed reset; nothing to anchor on before an answer.
FollowReset(st) ==
    IF st.token # st.reset /\ st.current # NoReading
    THEN [st EXCEPT !.baseline = st.current, !.token = st.reset, !.restarted = FALSE] ELSE st

(***************************************************************************)
(* What the page shows: changes by path, for the paths both answers have.   *)
(***************************************************************************)
Changes(from, to, ordered) ==
    IF from = NoReading \/ CountersRestarted(from, to) \/ (ordered /\ to.at <= from.at)
    THEN [p \in {} |-> 0]
    ELSE [p \in DOMAIN from.values \cap DOMAIN to.values |-> to.values[p] - from.values[p]]
SinceWindow == Changes(deltas.previous, deltas.current, TRUE)
SinceOpen == IF deltas.baseline = deltas.current THEN [p \in {} |-> 0] ELSE Changes(deltas.baseline, deltas.current, FALSE)

NewFailureSignals(window) == {p \in DOMAIN window \ Breakdown : IsFailureCounterPath(p) /\ window[p] > 0}
CountersHero ==
    LET collecting == "core.connections_total" \notin DOMAIN SinceWindow
    IN CASE collecting -> "info"
         [] ~collecting /\ NewFailureSignals(SinceWindow) # {} -> "warn"
         [] OTHER -> "ok"
ActivityPanel ==
    [state |-> IF CountersHero = "info" THEN "baseline" ELSE "active",
     uptime |-> IF deltas.restarted THEN "restarted" ELSE "continuous"]
ExplorerRows ==
    {p \in Scalars \cap DOMAIN deltas.current.values :
        CASE deltas.filter = "nonzero" -> deltas.current.values[p] # 0
                                          \/ (p \in DOMAIN SinceWindow /\ SinceWindow[p] # 0)
          [] deltas.filter = "errors" -> IsFailureCounterPath(p)
          [] OTHER -> TRUE}
ExplorerWarnings == {p \in ExplorerRows \cap DOMAIN SinceWindow : IsFailureCounterPath(p) /\ SinceWindow[p] > 0}
CountersView ==
    CASE deltas.current = NoReading /\ deltas.status = "error" -> "error"
      [] deltas.current = NoReading /\ deltas.status # "error" -> "loading"
      [] OTHER -> deltas.tab

(***************************************************************************)
(* Steps.                                                                   *)
(***************************************************************************)
CountersInit ==
    /\ zero = [run |-> 1, up |-> 1, value |-> [p \in CounterPaths |-> 0], known |-> CounterPaths]
    /\ deltas = EmptyDeltas
    /\ ctrTime = 0

\* A second passes in the proxy: its counters move, or it is started anew.
CountersMove ==
    /\ ctrTime < MaxCounterTicks /\ ctrTime' = ctrTime + 1
    /\ \/ \E grown \in SUBSET CounterPaths :
             zero' = [zero EXCEPT !.up = @ + 1, !.known = CounterPaths,
                                  !.value = [p \in CounterPaths |-> @[p] + IF p \in grown THEN 1 ELSE 0]]
       \/ \E known \in {CounterPaths, CounterPaths \ {"core.handshake_timeouts_total"}} :
             zero' = [run |-> zero.run + 1, up |-> 0, value |-> [p \in CounterPaths |-> 0], known |-> known]
    /\ UNCHANGED deltas

\* One render: with a new answer of the poll or of a retry, a reset, or both.
CountersRender ==
    \E answered \in BOOLEAN, reset \in (IF CountersView = "explorer" THEN BOOLEAN ELSE {FALSE}) :
        LET reading == [run |-> zero.run, up |-> zero.up, at |-> ctrTime + 1, values |-> ReadCounterValues]
            pressed == [deltas EXCEPT !.reset = (@ + IF reset THEN 1 ELSE 0) % 2]
            taken == [TakeReading(pressed, reading) EXCEPT
                        !.status = "ready",
                        !.unseen = /\ ~CountersRestarted(pressed.current, reading)
                                   /\ \/ pressed.unseen
                                      \/ pressed.current # NoReading /\ pressed.current.run # reading.run]
        IN /\ answered => reading.at # deltas.atMs
           /\ deltas' = FollowReset(IF answered THEN taken ELSE pressed)
           /\ UNCHANGED <<zero, ctrTime>>
CountersFail == deltas' = [deltas EXCEPT !.status = "error"] /\ UNCHANGED <<zero, ctrTime>>
CountersTab ==
    /\ deltas.current # NoReading
    /\ \/ \E t \in {"activity", "failures", "explorer"} : deltas' = [deltas EXCEPT !.tab = t]
       \/ /\ CountersView = "explorer"
          /\ \E f \in {"all", "nonzero", "errors"} : deltas' = [deltas EXCEPT !.filter = f]
    /\ UNCHANGED <<zero, ctrTime>>

CountersNext == CountersMove \/ CountersRender \/ CountersFail \/ CountersTab

(***************************************************************************)
(* Properties.                                                              *)
(***************************************************************************)

\* Every change shown, in the window or since the page was opened, is between
\* two answers of one run of Telemt, unless a restart left the uptime no lower
\* than the last answer's (counters.helpers.ts: countersRestarted sees no other
\* sign); and the hero warns of new failures exactly when a row of the explorer
\* is marked, however the rows are filtered to the failures and whatever the
\* classes of a failure do on their own.
DeltasWithinRun ==
    /\ ~deltas.unseen => /\ SinceWindow # <<>> => deltas.previous.run = deltas.current.run
                         /\ SinceOpen # <<>> => deltas.baseline.run = deltas.current.run
    /\ CountersHero = "warn" => ExplorerWarnings # {} /\ ActivityPanel.state = "active"
    /\ CountersHero = "ok" => ExplorerWarnings = {}
=============================================================================
