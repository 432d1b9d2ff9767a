------------------------------ MODULE WebPage -------------------------------
(***************************************************************************)
(* The WEB transport page, pulse/diag/WebPage.tsx: the topic's status, the  *)
(* session registry read page by page, and the closing of sessions.  Closing *)
(* takes three moments apart: what is on screen is asked about, the question *)
(* is confirmed, and an operation of Telemt is followed to its end; frames, *)
(* pages and a restart of Telemt fall in between.                           *)
(***************************************************************************)
EXTENDS Integers, Sequences, FiniteSets, SequencesExt

CONSTANTS MaxWebClicks,  \* bound: clicks of the operator
          MaxWebMoves    \* bound: changes of the registry and restarts of Telemt

ASSUME WebAssumption == MaxWebClicks \in Nat /\ MaxWebMoves \in Nat

VARIABLES registry, \* Telemt: its runtime, the live sessions, operations accepted
          web,      \* the page
          webLeft
webVars == <<registry, web, webLeft>>

(***************************************************************************)
(* Sessions, in the order the cursor walks them, and their declared fields. *)
(***************************************************************************)
SessionRefs == 1..3
WebSession ==
    <<[state |-> "healthy", carrier |-> "websocket", user |-> "ann"],
      [state |-> "healthy", carrier |-> "https-lanes", user |-> "bob"],
      [state |-> "provisional", carrier |-> "websocket", user |-> "ann"]>>
SESSIONS_PAGE_SIZE == 2
SESSION_REVEAL_SIZE == 1       \* bound: rows revealed at a time, 8 in the code
WEB_CLOSE_MAX_REFS == 2        \* bound: the longest list of refs, 200 in the code
WebSessionFilters == {"all", "healthy", "websocket"}
WebQueries == {"", "ann"}

WebSessionMatches(r, filter, query) ==
    /\ filter = "all" \/ WebSession[r].state = filter \/ WebSession[r].carrier = filter
    /\ query = "" \/ WebSession[r].user = query

(***************************************************************************)
(* web.helpers.ts: the question for the rows found, and Telemt's selector.   *)
(* `seen' and `loaded' record the rows on screen and in memory when it was   *)
(* asked; the code does not keep them.                                       *)
(***************************************************************************)
NoIntent == [kind |-> "none"]
Intent(kind, refs, filter, seen, loaded) ==
    [kind |-> kind, refs |-> refs, filter |-> filter, seen |-> seen, loaded |-> loaded]
WebFilterSelector(filter) == filter # "all"

WebCloseIntent(filter, found, narrowed, loaded) ==
    IF ~narrowed /\ WebFilterSelector(filter) THEN Intent("filter", {}, filter, found, loaded)
    ELSE IF found = {} \/ Cardinality(found) > WEB_CLOSE_MAX_REFS THEN NoIntent
    ELSE Intent("refs", found, filter, found, loaded)
WebCloseSelector(intent) ==
    CASE intent.kind \in {"session", "refs"} -> [kind |-> "refs", refs |-> intent.refs, filter |-> "all"]
      [] intent.kind = "all" -> [kind |-> "all", refs |-> {}, filter |-> "all"]
      [] intent.kind = "filter" -> [kind |-> "filter", refs |-> {}, filter |-> intent.filter]
\* Telemt's own match of a selector.
SelectorTakes(sel, r) ==
    CASE sel.kind = "refs" -> r \in sel.refs
      [] sel.kind = "all" -> TRUE
      [] sel.kind = "filter" -> WebSessionMatches(r, sel.filter, "")

(***************************************************************************)
(* web.view.helpers.ts, WebOverviewSection.tsx: load against limits.  A      *)
(* resource is [load, closed], load in percent or -1 while it is unknown.    *)
(***************************************************************************)
WebCapacityTone(res) ==
    CASE res.closed \/ res.load < 0 -> "busy"
      [] ~res.closed /\ res.load >= 90 -> "bad"
      [] ~res.closed /\ res.load \in 75..89 -> "warn"
      [] OTHER -> "calm"
\* A plane that did not answer, and whether it is the one the sessions are of.
IsPartial(st) == st.partial # "none"
ManagerBusy(st) == st.partial = "manager"
WebHasCapacityPressure(st) ==
    IF st.capacity THEN st.saturated /\ ~st.resource.closed
    ELSE WebCapacityTone(st.resource) \in {"warn", "bad"}

ContextBanner(st) ==
    CASE st.lifecycle = "draining" -> "draining"
      [] st.lifecycle # "draining" /\ IsPartial(st) -> "partial"
      [] st.lifecycle # "draining" /\ ~IsPartial(st) /\ st.capacity /\ WebHasCapacityPressure(st) -> "pressure"
      [] OTHER -> "none"
WebOverview(st) ==
    [banner |-> ContextBanner(st),
     issuance |-> IF ManagerBusy(st) THEN "busy" ELSE IF st.issuance THEN "allowed" ELSE "stopped"]

WebResource(l, c) == [load |-> l, closed |-> c]
WebUp(lifecycle, partial, capacity, saturated, resource, issuance, runtime) ==
    [kind |-> "up", lifecycle |-> lifecycle, partial |-> partial, capacity |-> capacity, saturated |-> saturated,
     resource |-> resource, issuance |-> issuance, runtime |-> runtime]
WebStatuses(runtime) ==
    {WebUp("running", "none", FALSE, FALSE, WebResource(l, FALSE), TRUE, runtime) : l \in {-1, 10, 80, 95}}
    \cup {WebUp("running", "none", TRUE, TRUE, WebResource(99, c), TRUE, runtime) : c \in BOOLEAN}
    \cup {WebUp("running", p, TRUE, TRUE, WebResource(90, FALSE), TRUE, runtime) : p \in {"manager", "another"}}
    \cup {WebUp("running", "manager", TRUE, FALSE, WebResource(90, FALSE), TRUE, runtime)}
    \cup {WebUp("draining", "none", TRUE, FALSE, WebResource(10, FALSE), FALSE, runtime)}
WebGates == {[kind |-> k] : k \in {"loading", "error", "unsupported", "off", "unavailable"}}

(***************************************************************************)
(* WebPage.tsx.                                                             *)
(***************************************************************************)
Available == web.status.kind = "up"
RuntimeInstance == IF Available THEN web.status.runtime ELSE 0
CanClose == RuntimeInstance # 0
RuntimeLabel ==
    IF ~Available THEN web.status.kind
    ELSE CASE web.status.lifecycle = "draining" -> "draining"
           [] web.status.lifecycle # "draining" /\ IsPartial(web.status) -> "partial"
           [] OTHER -> IF WebHasCapacityPressure(web.status) THEN "pressure" ELSE "running"
ActiveTab == IF Available THEN web.tab ELSE "overview"
WebBody == IF ~Available THEN "notice" ELSE IF ActiveTab = "sessions" THEN "sessions" ELSE "overview"

Found == SelectSeq(web.rows, LAMBDA r : WebSessionMatches(r, web.filter, web.query))
\* The rows found, whatever their order.
FoundRefs == {r \in ToSet(web.rows) : WebSessionMatches(r, web.filter, web.query)}
Visible == SubSeq(Found, 1, IF web.reveal < Len(Found) THEN web.reveal ELSE Len(Found))
\* The list gives way to a notice while the manager's lock was contended.
Listing == WebBody = "sessions" /\ ~ManagerBusy(web.status)
SessionsView ==
    CASE web.list = "pending" /\ web.rows = <<>> -> "loading"
      [] web.list = "error" /\ web.rows = <<>> -> "error"
      [] OTHER -> IF Visible # <<>> THEN "rows" ELSE "none"
Clicked(page) == webLeft.clicks > 0 /\ web' = page /\ webLeft' = [webLeft EXCEPT !.clicks = @ - 1] /\ UNCHANGED registry
\* Ascending, as the cursor walks them.
InOrder(refs) ==
    [i \in 1..Cardinality(refs) |-> CHOOSE r \in refs : Cardinality({q \in refs : q <= r}) = i]
\* At most the pages asked for, of the sessions alive now.
PagesOf(live, n) ==
    LET all == InOrder(live)
    IN SubSeq(all, 1, IF n * SESSIONS_PAGE_SIZE < Len(all) THEN n * SESSIONS_PAGE_SIZE ELSE Len(all))
Beyond(live, rows) == {r \in live : rows = <<>> \/ r > Last(rows)}

WebStatusArrives ==
    \E st \in WebStatuses(registry.runtime) \cup (WebGates \ {[kind |-> "loading"]}), refetch \in BOOLEAN :
        /\ webLeft.moves > 0 /\ webLeft' = [webLeft EXCEPT !.moves = @ - 1]
        /\ st.kind = "error" => web.status.kind \in {"loading", "error"}   \* it leaves data that arrived
        /\ web' = [web EXCEPT !.status = st, !.fetch = IF st.kind = "up" /\ ~Available /\ refetch THEN "all" ELSE @]
        /\ web.list = "pending" => refetch        \* a list younger than its stale time is kept
        /\ UNCHANGED registry
RegistryMoves ==
    /\ webLeft.moves > 0 /\ webLeft' = [webLeft EXCEPT !.moves = @ - 1] /\ UNCHANGED web
    /\ \/ \E live \in SUBSET SessionRefs : registry' = [registry EXCEPT !.live = live]
       \/ registry' = [runtime |-> registry.runtime + 1, live |-> {}]

SessionsArrive ==
    /\ web.fetch # "none"
    /\ LET n == IF web.fetch = "more" THEN web.pages + 1 ELSE IF web.pages = 0 THEN 1 ELSE web.pages
           rows == IF web.fetch = "more" THEN web.rows \o PagesOf(Beyond(registry.live, web.rows), 1)
                   ELSE PagesOf(registry.live, n)
       IN \/ web' = [web EXCEPT !.list = "ready", !.fetch = "none", !.pages = n, !.rows = rows,
                        !.more = rows # <<>> /\ Beyond(registry.live, rows) # {}]
          \/ web' = [web EXCEPT !.list = "error", !.fetch = "none"]
    /\ UNCHANGED <<registry, webLeft>>
LoadMore == Listing /\ web.more /\ web.fetch # "more" /\ Clicked([web EXCEPT !.fetch = "more"])
RetrySessions ==
    /\ WebBody = "sessions" /\ (ManagerBusy(web.status) \/ SessionsView = "error")
    /\ Clicked([web EXCEPT !.fetch = "all"])

SetWebTab == Available /\ \E t \in {"overview", "sessions"} : Clicked([web EXCEPT !.tab = t])
FilterSessions == Listing /\ \E f \in WebSessionFilters : Clicked([web EXCEPT !.filter = f, !.reveal = SESSION_REVEAL_SIZE])
SearchSessions == Listing /\ \E q \in WebQueries : Clicked([web EXCEPT !.query = q, !.reveal = SESSION_REVEAL_SIZE])
RevealSessions == Listing /\ Len(Visible) < Len(Found) /\ Clicked([web EXCEPT !.reveal = @ + SESSION_REVEAL_SIZE])
OpenSession == Listing /\ web.intent = NoIntent /\ \E i \in DOMAIN Visible : Clicked([web EXCEPT !.picked = Visible[i]])

MayClose == CanClose /\ ~web.sending /\ web.intent = NoIntent
AskSession ==
    /\ web.picked # 0 /\ MayClose
    /\ Clicked([web EXCEPT !.intent = Intent("session", {web.picked}, "all", {web.picked}, ToSet(web.rows) \cup {web.picked})])
AskFound ==
    /\ Listing /\ MayClose /\ web.picked = 0
    /\ LET intent == WebCloseIntent(web.filter, FoundRefs, web.query # "", ToSet(web.rows))
       IN intent # NoIntent /\ Clicked([web EXCEPT !.intent = intent])
AskAll ==
    /\ Listing /\ MayClose /\ web.picked = 0 /\ ~web.status.issuance
    /\ Clicked([web EXCEPT !.intent = Intent("all", {}, "all", ToSet(web.rows), ToSet(web.rows))])
\* Cancel, or closing the sheet: the question first, then the session under it.
CloseSurface ==
    \/ web.intent # NoIntent /\ Clicked([web EXCEPT !.intent = NoIntent])
    \/ web.intent = NoIntent /\ web.picked # 0 /\ Clicked([web EXCEPT !.picked = 0])
SubmitClose ==
    /\ web.intent # NoIntent /\ CanClose /\ ~web.sending
    /\ Clicked([web EXCEPT !.sending = TRUE, !.sent = WebCloseSelector(web.intent), !.asked = web.intent,
                           !.fence = RuntimeInstance])

\* The answer: refused when the runtime is not the one named; else an operation,
\* and the question that is open by now goes.
CloseAnswered ==
    /\ web.sending
    /\ \/ /\ web.fence = registry.runtime
          /\ web' = [web EXCEPT !.sending = FALSE, !.intent = NoIntent, !.op = "running",
                         !.picked = IF web.intent.kind = "session" THEN 0 ELSE @]
          /\ registry' = [registry EXCEPT !.live = {r \in @ : ~SelectorTakes(web.sent, r)}]
       \/ /\ web' = [web EXCEPT !.sending = FALSE, !.intent = NoIntent] /\ UNCHANGED registry
    /\ UNCHANGED webLeft
\* One poll of the operation: terminal states and errors are told once and end the polling.
OperationReported ==
    /\ web.op = "running"
    /\ \/ web' = [web EXCEPT !.op = "none", !.fetch = IF Available THEN "all" ELSE @]
       \/ web' = [web EXCEPT !.op = "none"]
    /\ UNCHANGED <<registry, webLeft>>

WebInit ==
    /\ registry = [runtime |-> 1, live |-> SessionRefs]
    /\ web = [status |-> [kind |-> "loading"], tab |-> "overview", filter |-> "all", query |-> "",
              reveal |-> SESSION_REVEAL_SIZE, rows |-> <<>>, pages |-> 0, more |-> FALSE, list |-> "pending",
              fetch |-> "none", intent |-> NoIntent, picked |-> 0, sending |-> FALSE, sent |-> [kind |-> "none"],
              asked |-> NoIntent, fence |-> 0, op |-> "none"]
    /\ webLeft = [clicks |-> MaxWebClicks, moves |-> MaxWebMoves]
WebNext ==
    \/ WebStatusArrives \/ RegistryMoves \/ SessionsArrive \/ LoadMore \/ RetrySessions
    \/ SetWebTab \/ FilterSessions \/ SearchSessions \/ RevealSessions \/ OpenSession
    \/ AskSession \/ AskFound \/ AskAll \/ CloseSurface \/ SubmitClose
    \/ CloseAnswered \/ OperationReported

(***************************************************************************)
(* Properties.                                                              *)
(***************************************************************************)

\* A close request takes, of the sessions loaded when the question was asked,
\* exactly the ones the question was about (webCloseIntent: "the only request
\* that closes exactly what is on screen is the explicit key list"), names a
\* runtime and no more sessions than Telemt takes in one list.
CloseIsWhatWasAsked ==
    web.sending => /\ {r \in web.asked.loaded : SelectorTakes(web.sent, r)} = web.asked.seen
                   /\ web.fence # 0
                   /\ web.sent.kind = "refs" => Cardinality(web.sent.refs) \in 1..WEB_CLOSE_MAX_REFS
\* The label beside the tabs and the banner of the overview name one condition
\* (WebPage.tsx runtimeLabel, WebOverviewSection.tsx ContextBanner) when Telemt
\* reports its capacity.
WebPanelsAgree ==
    Available /\ web.status.capacity =>
        WebOverview(web.status).banner = (IF RuntimeLabel = "running" THEN "none" ELSE RuntimeLabel)
=============================================================================
