----------------------------- MODULE PanelSession -----------------------------
(***************************************************************************)
(* The browser tab as a whole: the session cookie, the route guards and    *)
(* the 401 interceptor (web/src/auth, web/src/lib/api/client.ts) composed  *)
(* with the realtime client, over a server that revokes sessions and a     *)
(* network that drops streams and loses answers.                           *)
(***************************************************************************)
EXTENDS SseClient, SequencesExt

CONSTANTS
    Stats,        \* the topic the status strip reads
    MaxNews,      \* bound: changes of the topics' data on the server
    MaxSessions,  \* bound: sessions opened in the tab
    MaxVisits,    \* bound: components mounted, refreshes and retries
    MaxFaults     \* bound: dropped streams, link failures, failed fetches

ASSUME PanelSessionAssumption ==
    /\ Stats \in Topics /\ IsFiniteSet(Topics)
    /\ {MaxNews, MaxSessions, MaxVisits, MaxFaults} \subseteq Nat

VARIABLES
    c,        \* the realtime client
    srv,      \* the version of each topic the hub holds (0: none yet)
    link,     \* can an EventSource reach the server?
    cookie,   \* the session the browser holds (0: none)
    valid,    \* does the server still accept it?
    stream,   \* the session the open EventSource was authorised under
    page,     \* "app", "leaving" (navigating to /login) or "login"
    redirecting,  \* lib/api/client.ts: the interceptor's flag
    signedOut,    \* history: the last session ended by Logout
    budget        \* what the bounded environment may still do

vars == <<c, srv, link, cookie, valid, stream, page, redirecting, signedOut, budget>>
world == <<srv, link, cookie, valid, stream, page, redirecting, signedOut>>

\* The guarded pages are open: the shell's status strip is mounted.
Init ==
    /\ c = SubscribeTopic(NewClient, Stats)
    /\ srv = [t \in Topics |-> 1]
    /\ link \in BOOLEAN
    /\ cookie = 1 /\ valid = TRUE /\ stream = 0
    /\ page = "app" /\ redirecting = FALSE /\ signedOut = 0
    /\ budget = [visits |-> MaxVisits, faults |-> MaxFaults, sessions |-> 1,
                 news |-> MaxNews]

Visit == budget.visits > 0 /\ budget' = [budget EXCEPT !.visits = @ - 1]
Fault == budget.faults > 0 /\ budget' = [budget EXCEPT !.faults = @ - 1]
Quiet == UNCHANGED budget

\* useTopic's effect and its cleanup, on the pages behind the guard (the
\* strip itself stays mounted there).
Mount(t) ==
    /\ page = "app" /\ c.refs[t] < MaxMounts /\ Visit
    /\ c' = SubscribeTopic(c, t)
    /\ UNCHANGED world

Unmount(t) ==
    /\ page = "app" /\ c.refs[t] > (IF t = Stats THEN 1 ELSE 0) /\ Visit
    /\ c' = UnsubscribeTopic(c, t)
    /\ UNCHANGED world

PressRetry ==
    /\ page = "app" /\ Visit
    /\ c' = Retry(c)
    /\ UNCHANGED world

\* A mutation's success handler refreshes the topic it changed.
PressRefresh(t) ==
    /\ page = "app" /\ t \in ActiveTopics(c) /\ Visit
    /\ \E r \in FreeSlots(c) : c' = RefreshTopic(c, t, r, cookie)
    /\ UNCHANGED world

Debounce == c.debounce /\ c' = DebounceFires(c) /\ UNCHANGED world /\ Quiet
Backoff == c.backoff /\ c' = BackoffFires(c) /\ UNCHANGED world /\ Quiet
Watchdog == c.watchdog /\ c' = WatchdogFires(c) /\ UNCHANGED world /\ Quiet

Poll ==
    /\ c.poll
    /\ \E r \in FreeSlots(c) : c' = PollTick(c, r, cookie)
    /\ UNCHANGED world /\ Quiet

-----------------------------------------------------------------------------
(* The EventSource, between the browser and /api/events.                   *)

Reachable == link /\ valid /\ cookie # 0

\* The server ends the streams of a session that is over.
StreamLive == valid /\ stream = cookie

\* The hub's answer to a new stream: one frame per topic, in topic order.
Greeting ==
    LET order == SetToSeq(c.key)
    IN  [i \in DOMAIN order |->
            [kind |-> "data", topic |-> order[i],
             data |-> [v |-> srv[order[i]], sess |-> cookie]]]

Opens ==
    /\ c.es = "connecting" /\ Reachable
    /\ c' = SourceOpens(c, Greeting)
    /\ stream' = cookie
    /\ UNCHANGED <<srv, link, cookie, valid, page, redirecting, signedOut>>
    /\ Quiet

Delivers ==
    /\ c.es = "open" /\ c.wire # << >> /\ link
    /\ c' = SourceDelivers(c)
    /\ UNCHANGED world /\ Quiet

Heartbeat ==
    /\ c.es = "open" /\ link /\ StreamLive
    /\ c' = SourceHeartbeat(c)
    /\ UNCHANGED world /\ Quiet

\* A response that is not a stream (no session, a proxy's error page) closes
\* the source for good; a dropped or unreachable one leaves it retrying.
Fails(closed) ==
    /\ \/ c.es = "open" /\ ~(link /\ StreamLive) /\ ~closed
       \/ c.es = "connecting" /\ ~Reachable /\ (link => closed)
    /\ \E r \in FreeSlots(c) : c' = SourceFails(c, closed, r, cookie)
    /\ UNCHANGED world /\ Quiet

Drops ==
    /\ c.es = "open" /\ Fault
    /\ \E r \in FreeSlots(c) : c' = SourceFails(c, FALSE, r, cookie)
    /\ UNCHANGED world

LinkChanges ==
    /\ Fault /\ link' = ~link
    /\ UNCHANGED <<c, srv, cookie, valid, stream, page, redirecting, signedOut>>

\* Frames written while the link is down wait in the socket.
Streams(t) == c.es = "open" /\ t \in c.key /\ StreamLive

\* The hub polls new data, or fails to: the open stream carries it.
Publish(t) ==
    /\ budget.news > 0 /\ budget' = [budget EXCEPT !.news = @ - 1]
    /\ srv' = [srv EXCEPT ![t] = @ + 1]
    /\ Streams(t) => Len(c.wire) < MaxWire
    /\ c' = IF Streams(t)
            THEN [c EXCEPT !.wire = Append(@,
                    [kind |-> "data", topic |-> t,
                     data |-> [v |-> srv[t] + 1, sess |-> cookie]])]
            ELSE c
    /\ UNCHANGED <<link, cookie, valid, stream, page, redirecting, signedOut>>

SourceError(t) ==
    /\ Streams(t) /\ Len(c.wire) < MaxWire /\ Fault
    /\ c' = [c EXCEPT !.wire = Append(@, [kind |-> "error", topic |-> t])]
    /\ UNCHANGED world

-----------------------------------------------------------------------------
(* GET /api/snapshot, between the browser and the hub.                     *)

Answer(r) ==
    /\ c.reqs[r].phase = "sent" /\ valid /\ c.reqs[r].sess = cookie
    /\ c' = [c EXCEPT !.reqs[r].phase = "answered",
                      !.reqs[r].val = [t \in Topics |->
                            IF t \in c.reqs[r].ask THEN srv[t] ELSE 0]]
    /\ UNCHANGED world /\ Quiet

Arrives(r) ==
    /\ c.reqs[r].phase = "answered"
    /\ c' = SnapshotArrives(c, r)
    /\ redirecting' = FALSE
    /\ UNCHANGED <<srv, link, cookie, valid, stream, page, signedOut>> /\ Quiet

FetchFails(r) ==
    /\ c.reqs[r].phase # "idle" /\ Fault
    /\ c' = FreeSlot(c, r)
    /\ UNCHANGED world

\* Mutant: a 401 that only ends the request.
DeniedQuietly(r) ==
    /\ c.reqs[r].phase = "sent" /\ ~(valid /\ c.reqs[r].sess = cookie)
    /\ c' = FreeSlot(c, r)
    /\ UNCHANGED world /\ Quiet

\* 401: the interceptor forgets who is signed in and navigates to /login once.
Denied(r) ==
    /\ c.reqs[r].phase = "sent" /\ ~(valid /\ c.reqs[r].sess = cookie)
    /\ c' = FreeSlot(c, r)
    /\ IF page # "login" /\ ~redirecting
       THEN page' = "leaving" /\ redirecting' = TRUE
       ELSE UNCHANGED <<page, redirecting>>
    /\ UNCHANGED <<srv, link, cookie, valid, stream, signedOut>> /\ Quiet

-----------------------------------------------------------------------------
(* Sessions.                                                               *)

\* A session ends on the server: it expired or was revoked elsewhere.
Expire ==
    /\ valid /\ cookie # 0 /\ Fault
    /\ valid' = FALSE
    /\ UNCHANGED <<c, srv, link, cookie, stream, page, redirecting, signedOut>>

\* Leaving the guarded routes unmounts every component.
UnmountAll(x) ==
    ScheduleRebuild([Outdate(x, ActiveTopics(x))
                        EXCEPT !.refs = [t \in Topics |-> 0]])

\* /login's guard asks who is signed in: a live session bounces back.
ArriveAtLogin ==
    /\ page = "leaving"
    /\ IF valid /\ cookie # 0
       THEN page' = "app" /\ redirecting' = FALSE /\ UNCHANGED c
       ELSE page' = "login" /\ c' = UnmountAll(c) /\ UNCHANGED redirecting
    /\ UNCHANGED <<srv, link, cookie, valid, stream, signedOut>> /\ Quiet

\* useLogout's onSuccess: the server has revoked the session.
Logout ==
    /\ page = "app" /\ valid /\ cookie # 0 /\ Visit
    /\ c' = Reset(c)
    /\ cookie' = 0 /\ valid' = FALSE /\ redirecting' = FALSE
    /\ page' = "leaving" /\ signedOut' = cookie
    /\ UNCHANGED <<srv, link, stream>>

\* LoginPage's onSuccess. The shell's own strip is mounted with the page.
Login ==
    /\ page = "login" /\ budget.sessions < MaxSessions
    /\ budget' = [budget EXCEPT !.sessions = @ + 1]
    /\ cookie' = budget.sessions + 1
    /\ valid' = TRUE /\ redirecting' = FALSE /\ page' = "app"
    /\ c' = SubscribeTopic(c, Stats)
    /\ UNCHANGED <<srv, link, stream, signedOut>>

-----------------------------------------------------------------------------
Next ==
    \/ \E t \in Topics :
          \/ Mount(t) \/ Unmount(t) \/ PressRefresh(t)
          \/ Publish(t) \/ SourceError(t)
    \/ PressRetry \/ Debounce \/ Backoff \/ Watchdog \/ Poll
    \/ Opens \/ Delivers \/ Heartbeat \/ Drops \/ LinkChanges
    \/ \E closed \in BOOLEAN : Fails(closed)
    \/ \E r \in Slots : Answer(r) \/ Arrives(r) \/ FetchFails(r) \/ Denied(r)
    \/ Expire \/ ArriveAtLogin \/ Logout \/ Login

\* The two halves of an answer that still speaks for some topic.
AnsweredInTime == \E r \in Slots : c.reqs[r].fresh # {} /\ Answer(r)
ArrivesInTime == \E r \in Slots : c.reqs[r].fresh # {} /\ Arrives(r)

(***************************************************************************)
(* Timers fire, the browser retries and reports, answers come back. The    *)
(* fourth consecutive failure waits at least 16 s before the source is     *)
(* rebuilt, so an answer is not lost to a rebuild every time: hence the    *)
(* strong fairness of an answer in time. Nothing obliges a user or a fault.    *)
(***************************************************************************)
Fairness ==
    /\ WF_vars(Debounce) /\ WF_vars(Backoff) /\ WF_vars(Poll)
    /\ WF_vars(Opens) /\ WF_vars(Delivers)
    /\ WF_vars(\E closed \in BOOLEAN : Fails(closed))
    /\ \A r \in Slots : WF_vars(Answer(r) \/ Arrives(r) \/ Denied(r))
    /\ SF_vars(AnsweredInTime) /\ SF_vars(ArrivesInTime)
    /\ WF_vars(ArriveAtLogin)

Spec == Init /\ [][Next]_vars /\ Fairness

\* Requests in flight are interchangeable.
SlotSymmetry == Permutations(Slots)

-----------------------------------------------------------------------------
(* Properties.                                                             *)

\* After a logout nothing fetched or streamed under the old session is ever
\* installed: whatever the store holds came from a later session (reset()
\* against answers and events still in flight).
NoDataAcrossLogout ==
    \A t \in Topics :
        c.snap[t].data.v > 0 => c.snap[t].data.sess > signedOut

\* A snapshot answer never replaces what a topic shows by older data, however
\* it was delayed by frames, by other requests or by a reconnection
\* (fetchAndInstall's revision, ticket and generation checks).
AnswersNeverRegress ==
    [][\A r \in Slots :
          c.reqs[r].phase = "answered" /\ c'.reqs[r].phase = "idle" =>
              \A t \in Topics : c'.snap[t].data.v >= c.snap[t].data.v]_vars

\* Once the debounce has fired the one EventSource carries exactly the topics
\* that are mounted, or a rebuild is scheduled; with none mounted nothing
\* is left connected or polling.
ConnectionFollowsMounts ==
    ~c.debounce =>
        IF ActiveTopics(c) = {}
        THEN c.es = "none" /\ ~c.poll /\ c.status = "closed"
        ELSE c.backoff \/ (c.es # "none" /\ c.key = ActiveTopics(c))

\* The strip says "polling" exactly while the fallback runs, and once a
\* connection was made it is free of warnings only over an open source whose
\* silence the watchdog would report.
StripIsHonest ==
    /\ c.poll <=> "polling" \in StripFlags(c, Stats)
    /\ c.status = "open" => c.es = "open"
    /\ c.status = "open" /\ StripFlags(c, Stats) = {} => c.watchdog

\* If the server's data stops changing, every topic mounted in a live session
\* ends up showing it, over the stream or, with the stream down for good,
\* over the polling fallback. The exception is a topic left and mounted again
\* within the debounce: rebuildNow keeps the stream, which does not repeat a
\* frame that found no subscriber in between (`missed`).
EventuallyCurrent ==
    <>[](page = "app" /\ valid =>
            \A t \in ActiveTopics(c) \ c.missed : c.snap[t].data.v = srv[t])

\* A session that ended on the server takes a tab that shows realtime data
\* to the login page, with the stream up or down.
ExpiryReachesLogin ==
    (page = "app" /\ ~valid /\ ActiveTopics(c) # {})
        ~> (page = "login" \/ valid \/ ActiveTopics(c) = {})

=============================================================================
