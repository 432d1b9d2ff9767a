------------------------------ MODULE PeopleList ------------------------------
(***************************************************************************)
(* The list of people and what hangs on it (web/src/people): the live users *)
(* with their status, filters, order and search; the return from a person's *)
(* page to the same person; one person's address history page by page; the  *)
(* reset of everybody's quota, whose operation outlives the page; and the   *)
(* subscription link. One of these views is open at a time.                 *)
(***************************************************************************)
EXTENDS Naturals, Sequences, FiniteSets, SequencesExt

CONSTANTS
    People,           \* user names
    MaxToken,         \* bound: confirmations the panel hands out
    HistoryLength,    \* addresses of the history, two to a page
    MaxListClicks     \* bound: clicks, frames and faults; twice as many in the reset

ASSUME PeopleListAssumption ==
    /\ {MaxToken, HistoryLength, MaxListClicks} \subseteq Nat
    /\ IsFiniteSet(People)

VARIABLES
    place,     \* the open view
    world,     \* external: what Telemt and the panel know
    view,      \* the view's state
    listLeft

listVars == <<place, world, view, listLeft>>

ListSpend == listLeft > 0 /\ listLeft' = listLeft - 1 /\ UNCHANGED place
ListFree == UNCHANGED <<listLeft, place>>

-----------------------------------------------------------------------------
(* users.helpers.ts, personMeta.helpers.ts, userList.helpers.ts             *)

\* A user of the topic; used -1: no quota entry; limit 0: unlimited.
Healthy == [enabled |-> TRUE, expired |-> FALSE, inRuntime |-> TRUE, used |-> 1,
            limit |-> 2, conns |-> 1, web |-> FALSE]

\* The users of the frames: one or two things are different about them.
Persons ==
    {[Healthy EXCEPT !.enabled = FALSE, !.expired = x] : x \in BOOLEAN}
        \union {[Healthy EXCEPT !.expired = TRUE, !.conns = c] : c \in 0..1}
        \union {[Healthy EXCEPT !.used = -1, !.inRuntime = r] : r \in BOOLEAN}
        \union {[Healthy EXCEPT !.used = 2, !.inRuntime = r] : r \in BOOLEAN}
        \union {[Healthy EXCEPT !.limit = 0, !.used = 2], [Healthy EXCEPT !.conns = 0],
                [Healthy EXCEPT !.web = TRUE], [Healthy EXCEPT !.inRuntime = FALSE]}

IsQuotaExhausted(u) == u.limit > 0 /\ u.used # -1 /\ u.used >= u.limit

ComputeUserStatus(u) ==
    CASE ~u.enabled -> "disabled"
      [] u.enabled /\ u.expired -> "expired"
      [] u.enabled /\ ~u.expired /\ IsQuotaExhausted(u) -> "quota_exhausted"
      [] OTHER -> IF u.inRuntime THEN "active" ELSE "not_in_runtime"

IsOnline(u) == u.conns > 0

\* Mutant: only what stops the person is an issue.
HasHardIssues(u) == ComputeUserStatus(u) \in {"disabled", "expired", "quota_exhausted"}

HasIssues(u) == ComputeUserStatus(u) # "active"

UserFilters == {"all", "online", "issues", "web"}

MatchesUserFilter(u, f) ==
    CASE f = "online" -> IsOnline(u)
      [] f = "issues" -> HasIssues(u)
      [] f = "web" -> u.web
      [] OTHER -> TRUE

CountUserFilters(users) ==
    [f \in UserFilters |-> Cardinality({p \in DOMAIN users : MatchesUserFilter(users[p], f)})]

\* userListSummary: connections, and people close to their quota.
UserListSummary(users) ==
    [connections |-> Cardinality({p \in DOMAIN users : users[p].conns = 1}),
     nearQuota |-> Cardinality({p \in DOMAIN users :
                       /\ users[p].used # -1 /\ users[p].limit # 0
                       /\ users[p].used * 100 >= users[p].limit * 85
                       /\ users[p].used < users[p].limit})]

\* personMeta and personBadge: a state to act on outranks the activity.
PersonBadge(u) ==
    LET status == ComputeUserStatus(u)
    IN  IF status # "active" THEN status ELSE IF IsOnline(u) THEN "online" ELSE "none"

PersonAvatarTone(u) ==
    CASE ComputeUserStatus(u) \in {"quota_exhausted", "expired"} -> "alert"
      [] ComputeUserStatus(u) = "disabled" -> "idle"
      [] OTHER -> IF IsOnline(u) THEN "hue" ELSE "idle"

-----------------------------------------------------------------------------
(* PeopleList                                                                *)

SortPresets == [activity |-> [field |-> "connections", asc |-> FALSE],
                name |-> [field |-> "name", asc |-> TRUE],
                traffic |-> [field |-> "traffic", asc |-> FALSE]]

SortPresetOf(sort) == CHOOSE p \in DOMAIN SortPresets : SortPresets[p].field = sort.field

\* A tap on another chip takes its direction, on the active one flips it.
NextSortState(sort, preset) ==
    IF SortPresetOf(sort) # preset THEN SortPresets[preset]
    ELSE [sort EXCEPT !.asc = ~@]

\* search: the name searched for, or "none"; at: the person at the top;
\* back: returnUsername; swiped: the row whose actions are uncovered; sheet: the
\* user whose action sheet is open.
ListMounted == [users |-> [p \in People |-> Healthy], pending |-> FALSE, shown |-> TRUE,
                search |-> "none", filter |-> "all", sort |-> SortPresets.activity,
                at |-> "top", back |-> "none", swiped |-> "none", sheet |-> "none"]

VisibleUsers(v) ==
    {p \in DOMAIN v.users : MatchesUserFilter(v.users[p], v.filter)
                              /\ v.search \in {"none", p}}

UsersFrame(p, u) ==
    /\ place = "list" /\ u # view.users[p]
    /\ view' = [view EXCEPT !.users[p] = u] /\ ListSpend /\ UNCHANGED world

SetSearchValue(p) ==
    /\ place = "list" /\ view.shown /\ p # view.search
    /\ view' = [view EXCEPT !.search = p, !.back = "none", !.at = "top", !.swiped = "none"]
    /\ ListSpend /\ UNCHANGED world

SetFilterValue(f) ==
    /\ place = "list" /\ view.shown /\ f # view.filter
    /\ view' = [view EXCEPT !.filter = f, !.at = "top", !.swiped = "none"]
    /\ ListSpend /\ UNCHANGED world

UpdateSort(preset) ==
    /\ place = "list" /\ view.shown
    /\ view' = [view EXCEPT !.sort = NextSortState(@, preset)]
    /\ ListSpend /\ UNCHANGED world

\* useUserRowGestures: a swipe uncovers one row at a time.
Swipe(p) ==
    /\ place = "list" /\ view.shown /\ p \in VisibleUsers(view)
    /\ view' = [view EXCEPT !.swiped = IF @ = p THEN "none" ELSE p]
    /\ ListSpend /\ UNCHANGED world

OpenActions(p) ==
    /\ place = "list" /\ view.shown /\ p \in VisibleUsers(view) /\ view.sheet = "none"
    /\ view' = [view EXCEPT !.sheet = p, !.swiped = "none"] /\ ListSpend /\ UNCHANGED world

CloseActions ==
    /\ place = "list" /\ view.sheet # "none"
    /\ view' = [view EXCEPT !.sheet = "none"] /\ ListSpend /\ UNCHANGED world

OpenPerson(p) ==
    /\ place = "list" /\ view.shown /\ p \in VisibleUsers(view)
    /\ view' = [view EXCEPT !.shown = FALSE, !.back = p, !.at = p, !.swiped = "none",
                            !.sheet = "none"]
    /\ ListSpend /\ UNCHANGED world

BackToList ==
    /\ place = "list" /\ ~view.shown
    /\ view' = [view EXCEPT !.shown = TRUE] /\ ListSpend /\ UNCHANGED world

\* The effect that scrolls to the person the operator opened.
RestoreScroll ==
    /\ place = "list" /\ view.shown /\ view.back # "none" /\ VisibleUsers(view) # {}
    /\ view' = [view EXCEPT !.back = "none",
                            !.at = IF view.back \in VisibleUsers(view) THEN view.back ELSE @]
    /\ ListFree /\ UNCHANGED world

-----------------------------------------------------------------------------
(* PersonIPHistory                                                           *)

PageOf == 2

\* external: the observations. world.seen is when each address was last observed,
\* 0 for not in the history, and world.clock when the history last changed; the
\* addresses of one batch share their time. The filter "even" stands for any that
\* leaves some out.
Matches(filter, ip) == filter = "all" \/ ip % 2 = 0
IpRecord(w, ip) == [ip |-> ip, last |-> w.seen[ip]]
IpsListed(w, filter) == {ip \in 1..HistoryLength : w.seen[ip] # 0 /\ Matches(filter, ip)}

\* The history is sorted by the last observation, and by address within one.
InFrontOf(r, s) == r.last > s.last \/ (r.last = s.last /\ r.ip < s.ip)

\* A cursor names the query it was issued for and the last record before its page;
\* the empty one, with no time, is the first page's. read: when it was issued.
FirstCursor(filter) == [filter |-> filter, ip |-> 0, last |-> 0, read |-> 0]
BehindCursor(cursor, r) ==
    ~(cursor.last # 0 /\ (r.last > cursor.last \/ (r.last = cursor.last /\ r.ip <= cursor.ip)))

\* What a request finds: the first records behind its cursor, and the cursor of
\* the next page, issued for the last of them when there are more.
IsIpPage(w, cursor, page) ==
    LET rest == {ip \in IpsListed(w, cursor.filter) : BehindCursor(cursor, IpRecord(w, ip))}
    IN  /\ page.items \subseteq {IpRecord(w, ip) : ip \in rest}
        /\ \A ip \in rest : IpRecord(w, ip) \in page.items
                              \/ \A r \in page.items : InFrontOf(r, IpRecord(w, ip))
        /\ page.matched = Cardinality(IpsListed(w, cursor.filter)) /\ page.read = w.clock
        /\ IF \A ip \in rest : IpRecord(w, ip) \in page.items
           THEN Cardinality(page.items) <= PageOf /\ page.next = FirstCursor(cursor.filter)
           ELSE /\ Cardinality(page.items) = PageOf
                /\ \E r \in page.items :
                     /\ \A s \in page.items : s = r \/ InFrontOf(s, r)
                     /\ page.next = [filter |-> cursor.filter, ip |-> r.ip, last |-> r.last,
                                     read |-> w.clock]
IpPages(w, cursor) ==
    LET rows == {IpRecord(w, ip) : ip \in IpsListed(w, cursor.filter)}
    IN  {page \in [items : {s \in SUBSET rows : Cardinality(s) <= PageOf},
                   matched : {Cardinality(IpsListed(w, cursor.filter))}, read : {w.clock},
                   next : {FirstCursor(cursor.filter)}
                            \union {[filter |-> cursor.filter, ip |-> r.ip, last |-> r.last,
                                     read |-> w.clock] : r \in rows}] :
           IsIpPage(w, cursor, page)}

\* cache: the answers kept by their key; data << >>: the query of this key has none.
HistoryMounted == [filter |-> "all", cursors |-> << FirstCursor("all") >>,
                   data |-> << >>, cache |-> {}, error |-> FALSE]
HistoryStart ==
    [seen |-> [ip \in 1..HistoryLength |-> CASE ip = HistoryLength -> 0
                                             [] ip # HistoryLength -> IF ip > 2 THEN 1 ELSE 2],
     clock |-> 2]

SameKey(c, d) == c.filter = d.filter /\ c.ip = d.ip /\ c.last = d.last

\* A key that is asked again shows what is kept of it, unless that was dropped.
IpKept(v, cursor) ==
    {<< >>} \union {<<e.page>> : e \in {f \in v.cache : SameKey(f.key, cursor)}}

\* ApplyUserIPBatch: the addresses observed now come to the front.
IpsObserved(ips) ==
    /\ place = "ips" /\ ips # {}
    /\ world' = [seen |-> [ip \in 1..HistoryLength |->
                             IF ip \in ips THEN world.clock + 1 ELSE world.seen[ip]],
                 clock |-> world.clock + 1]
    /\ ListSpend /\ UNCHANGED view

\* pruneUserIPs: past the limit the oldest go, the lower address first.
IpPruned(ip) ==
    /\ place = "ips" /\ world.seen[ip] # 0
    /\ \A other \in IpsListed(world, "all") :
         \/ world.seen[other] > world.seen[ip]
         \/ world.seen[other] = world.seen[ip] /\ other >= ip
    /\ world' = [seen |-> [world.seen EXCEPT ![ip] = 0], clock |-> world.clock + 1]
    /\ ListSpend /\ UNCHANGED view

\* The answer to a first request, to the poll of the first page, or to the
\* request that a page shown again or a window in focus again sends.
IpArrives ==
    /\ place = "ips" /\ (view.data # << >> => view.data[1].read # world.clock)
    /\ \E page \in IpPages(world, Last(view.cursors)) :
         view' = [view EXCEPT !.data = <<page>>, !.error = FALSE,
                    !.cache = {e \in @ : ~SameKey(e.key, Last(view.cursors))}
                                \union {[key |-> Last(view.cursors), page |-> page]}]
    /\ ListFree /\ UNCHANGED world

IpFails ==
    /\ place = "ips" /\ ~view.error
    /\ view' = [view EXCEPT !.error = TRUE] /\ ListSpend /\ UNCHANGED world

\* The pages are turned, and the buttons work, when nothing is being fetched.
IpSettled == place = "ips" /\ (view.data # << >> \/ view.error)
IpTurned(filter, cursors) ==
    \E data \in IpKept(view, Last(cursors)) :
      view' = [view EXCEPT !.filter = filter, !.cursors = cursors, !.data = data,
                           !.error = FALSE]

\* filter(patch): another question starts at its first page.
IpFilter(filter) ==
    /\ place = "ips" /\ filter # view.filter
    /\ IpTurned(filter, << FirstCursor(filter) >>) /\ ListSpend /\ UNCHANGED world

IpNext ==
    /\ IpSettled /\ view.data # << >> /\ view.data[1].next.last # 0
    /\ IpTurned(view.filter, Append(view.cursors, view.data[1].next))
    /\ ListSpend /\ UNCHANGED world

IpPrevious ==
    /\ IpSettled /\ Len(view.cursors) > 1
    /\ IpTurned(view.filter, Front(view.cursors)) /\ ListSpend /\ UNCHANGED world

IpRefresh ==
    /\ IpSettled
    /\ IpTurned(view.filter, << FirstCursor(view.filter) >>) /\ ListSpend /\ UNCHANGED world

-----------------------------------------------------------------------------
(* BulkQuotaProvider                                                         *)

\* external: the panel's manager. token: the confirmation that may start an
\* operation; inbox: start requests under way; answers: [token, ok] on their way.
ManagerIdle == [token |-> 0, issued |-> 0, op |-> 0, running |-> FALSE, inbox |-> {},
                answers |-> {}]

\* tracked survives a reload of the page in sessionStorage; job: the operation
\* last read, with whether it ran; prepare: "idle", "pending", "error", or
\* "ready" with the token; gone: the admin asked for the current operation.
BulkMounted(tracked) ==
    [screen |-> "closed", tracked |-> tracked, previous |-> 0, prepare |-> "idle", token |-> 0,
     agreed |-> FALSE, start |-> "idle", job |-> 0, jobRuns |-> FALSE, lost |-> FALSE,
     gone |-> FALSE]

BulkRunning(v) == v.start = "pending" \/ v.jobRuns

OpenMenu ==
    /\ place = "bulk" /\ view.screen = "closed"
    /\ view' = [view EXCEPT !.screen = "menu"] /\ ListSpend /\ UNCHANGED world

\* The menu's entry shows the running operation, or begins a preparation.
BeginPrepare ==
    /\ place = "bulk" /\ view.screen \in {"menu", "prepare"}
    /\ view.prepare # "pending" /\ view.start # "pending"
    /\ view' = IF BulkRunning(view) THEN [view EXCEPT !.screen = "result"]
               ELSE [view EXCEPT !.screen = "prepare", !.agreed = FALSE,
                                 !.start = "idle", !.prepare = "pending", !.token = 0]
    /\ ListSpend /\ UNCHANGED world

\* A new confirmation replaces the one before; none while an operation runs.
ResetPrepared ==
    /\ place = "bulk" /\ view.prepare = "pending"
    /\ IF world.running \/ world.issued = MaxToken
       THEN view' = [view EXCEPT !.prepare = "error"] /\ UNCHANGED world
       ELSE /\ world' = [world EXCEPT !.token = world.issued + 1, !.issued = @ + 1]
            /\ view' = [view EXCEPT !.prepare = "ready", !.token = world.issued + 1]
    /\ ListFree

\* external: a confirmation lives for two minutes.
ConfirmationExpires ==
    /\ place = "bulk" /\ world.token # 0
    /\ world' = [world EXCEPT !.token = 0] /\ ListSpend /\ UNCHANGED view

Agree ==
    /\ place = "bulk" /\ view.screen = "prepare" /\ view.prepare = "ready"
    /\ view' = [view EXCEPT !.agreed = ~@] /\ ListSpend /\ UNCHANGED world

\* onMutate: the token is tracked before the request leaves.
StartReset ==
    /\ place = "bulk" /\ view.screen = "prepare" /\ view.prepare = "ready" /\ view.agreed
    /\ ~BulkRunning(view)
    /\ view' = [view EXCEPT !.start = "pending", !.previous = view.tracked,
                            !.tracked = view.token, !.screen = "result", !.gone = FALSE,
                            !.job = 0, !.jobRuns = FALSE, !.lost = FALSE]
    /\ world' = [world EXCEPT !.inbox = @ \union {view.token}]
    /\ ListSpend

StartHandled(t) ==
    /\ place = "bulk" /\ t \in world.inbox
    /\ LET ok == t = world.token /\ ~world.running
       IN  world' = [world EXCEPT !.inbox = @ \ {t},
                                  !.answers = @ \union {[token |-> t, ok |-> ok]},
                                  !.token = IF ok THEN 0 ELSE @,
                                  !.op = IF ok THEN t ELSE @,
                                  !.running = @ \/ ok]
    /\ ListFree /\ UNCHANGED view

\* onError: only a refusal forgets the operation; after any other failure the
\* operation may be running, and it stays tracked.
StartFailed(v, definite) ==
    IF definite
    THEN [v EXCEPT !.start = "error", !.tracked = v.previous, !.agreed = FALSE,
                   !.prepare = "idle", !.token = 0, !.screen = "prepare"]
    ELSE [v EXCEPT !.start = "error"]

StartAnswered(a) ==
    /\ place = "bulk" /\ view.start = "pending" /\ a \in world.answers
    /\ a.token = view.tracked
    /\ view' = IF a.ok THEN [view EXCEPT !.start = "idle", !.job = a.token, !.jobRuns = TRUE]
               ELSE StartFailed(view, TRUE)
    /\ world' = [world EXCEPT !.answers = @ \ {a}] /\ ListFree

\* The connection breaks: the request may still arrive, its answer does not.
StartLost ==
    /\ place = "bulk" /\ view.start = "pending"
    /\ view' = StartFailed(view, FALSE)
    /\ world' = [world EXCEPT !.answers = {a \in @ : a.token # view.tracked}]
    /\ ListSpend

OperationEnds ==
    /\ place = "bulk" /\ world.running
    /\ world' = [world EXCEPT !.running = FALSE] /\ ListFree /\ UNCHANGED view

\* The status query: of the tracked operation, or of the current one.
StatusRead ==
    /\ place = "bulk" /\ view.start # "pending"
    /\ LET known == view.tracked = 0 \/ view.tracked = world.op
           next == IF known THEN [view EXCEPT !.job = world.op, !.jobRuns = world.running,
                                              !.lost = FALSE]
                   ELSE [view EXCEPT !.lost = TRUE, !.jobRuns = FALSE]
       IN  next # view /\ view' = next
    /\ ListFree /\ UNCHANGED world

ShowCurrent ==
    /\ place = "bulk" /\ view.screen = "result" /\ view.lost
    /\ view' = [view EXCEPT !.tracked = 0, !.gone = TRUE] /\ ListSpend /\ UNCHANGED world

CloseBulk ==
    /\ place = "bulk" /\ view.screen # "closed"
    /\ view' = [view EXCEPT !.screen = "closed"] /\ ListSpend /\ UNCHANGED world

ReloadPage ==
    /\ place = "bulk"
    /\ view' = [BulkMounted(view.tracked) EXCEPT !.gone = view.gone]
    /\ world' = [world EXCEPT !.answers = {}] /\ ListSpend

-----------------------------------------------------------------------------
(* SublinkPanel: the link is reissued behind a confirmation                  *)

ShareMounted == [url |-> 1, confirming |-> FALSE, busy |-> FALSE]

AskReissue ==
    /\ place = "share" /\ ~view.confirming
    /\ view' = [view EXCEPT !.confirming = TRUE] /\ ListSpend /\ UNCHANGED world

CancelReissue ==
    /\ place = "share" /\ view.confirming /\ ~view.busy
    /\ view' = [view EXCEPT !.confirming = FALSE] /\ ListSpend /\ UNCHANGED world

Reissue ==
    /\ place = "share" /\ view.confirming /\ ~view.busy
    /\ view' = [view EXCEPT !.busy = TRUE] /\ world' = world + 1 /\ ListSpend

\* onSuccess: the link is read again.
Reissued ==
    /\ place = "share" /\ view.busy
    /\ view' = [url |-> world, confirming |-> FALSE, busy |-> FALSE]
    /\ ListFree /\ UNCHANGED world

-----------------------------------------------------------------------------

ListPlaces == {"list", "ips", "bulk", "share"}

ListStart(p) ==
    CASE p = "list" -> [world |-> 0, view |-> ListMounted]
      [] p = "ips" -> [world |-> HistoryStart, view |-> HistoryMounted]
      [] p = "bulk" -> [world |-> ManagerIdle, view |-> BulkMounted(0)]
      [] OTHER -> [world |-> 1, view |-> ShareMounted]

PeopleListInit ==
    /\ place \in ListPlaces
    /\ world = ListStart(place).world /\ view = ListStart(place).view
    /\ listLeft = IF place = "bulk" THEN 2 * MaxListClicks ELSE MaxListClicks

BrowseNext ==
    \/ \E p \in People :
         \/ \E u \in Persons : UsersFrame(p, u)
         \/ SetSearchValue(p) \/ Swipe(p) \/ OpenActions(p) \/ OpenPerson(p)
    \/ SetSearchValue("none") \/ \E f \in UserFilters : SetFilterValue(f)
    \/ \E preset \in DOMAIN SortPresets : UpdateSort(preset)
    \/ CloseActions \/ BackToList \/ RestoreScroll

HistoryNext ==
    \/ IpArrives \/ IpFails \/ IpNext \/ IpPrevious \/ IpRefresh
    \/ \E filter \in {"all", "even"} : IpFilter(filter)
    \/ \E ip \in 1..HistoryLength : IpPruned(ip) \/ IpsObserved({ip}) \/ IpsObserved({ip, 1})

BulkNext ==
    \/ OpenMenu \/ BeginPrepare \/ ResetPrepared \/ ConfirmationExpires
    \/ Agree \/ StartReset \/ StartLost
    \/ \E t \in 1..MaxToken : StartHandled(t)
    \/ \E a \in [token : 1..MaxToken, ok : BOOLEAN] : StartAnswered(a)
    \/ OperationEnds \/ StatusRead \/ ShowCurrent \/ CloseBulk \/ ReloadPage

ShareNext == AskReissue \/ CancelReissue \/ Reissue \/ Reissued

PeopleListNext == BrowseNext \/ HistoryNext \/ BulkNext \/ ShareNext

-----------------------------------------------------------------------------

\* What the list says of its people agrees: the number on a filter is the number
\* of rows behind it; a row asks for attention, by its badge or its avatar,
\* exactly if the issues filter shows it; nobody out of service looks online.
RowsAgreeWithCounts ==
    place = "list" =>
        /\ view.search = "none" =>
             Cardinality(VisibleUsers(view)) = CountUserFilters(view.users)[view.filter]
        /\ \A p \in People :
             LET u == view.users[p]
             IN  /\ HasIssues(u) <=> PersonBadge(u) \notin {"online", "none"}
                 /\ PersonAvatarTone(u) = "alert" => HasIssues(u)
                 /\ PersonBadge(u) = "online" => IsOnline(u)
        /\ UserListSummary(view.users).nearQuota
             <= CountUserFilters(view.users)["all"]
                  - Cardinality({p \in People : IsQuotaExhausted(view.users[p])})

\* The history has not changed since any of the pages on the way was read.
HistoryStoodStill(v, w) ==
    v.data[1].read = w.clock /\ \A k \in 2..Len(v.cursors) : v.cursors[k].read = w.clock

\* The addresses listed in front of a page.
InFrontOfPage(w, cursor) ==
    {ip \in IpsListed(w, cursor.filter) : ~BehindCursor(cursor, IpRecord(w, ip))}

\* A page of the address history is one of the query on screen, and the pages
\* neither overlap nor skip although the addresses move while they are turned:
\* what is on a page lies behind the page before, and every listed address that
\* was not observed again since and lies between the two cursors of a page is on
\* it, at the end of a batch too. The numbers under it ("from - to of matched")
\* count the pages turned: they are the places of its addresses as long as the
\* history has not changed on the way (HistoryContent, userIPRequestQuery,
\* UserIPHistory).
HistoryPagesFit ==
    place = "ips" =>
        LET cursor == Last(view.cursors)
        IN  /\ cursor.filter = view.filter
            /\ view.data # << >> =>
                 LET page == view.data[1]
                     from == (Len(view.cursors) - 1) * PageOf
                 IN  /\ \A r \in page.items : Matches(view.filter, r.ip) /\ BehindCursor(cursor, r)
                     /\ \A ip \in IpsListed(world, view.filter) :
                          LET r == IpRecord(world, ip)
                          IN  /\ r.last <= page.read /\ BehindCursor(cursor, r)
                              /\ page.next.last = 0 \/ ~BehindCursor(page.next, r)
                              => r \in page.items
                     /\ HistoryStoodStill(view, world) =>
                          /\ Cardinality(InFrontOfPage(world, cursor)) = from
                          /\ from + Cardinality(page.items) <= page.matched

\* A reset that this page started is never lost from sight while it runs: a
\* lost answer, a request that arrives late, a refusal of the next one or a
\* reload leaves it tracked, unless the admin asked for another (track).
StartedResetIsTracked ==
    place = "bulk" /\ world.running /\ view.start # "pending" =>
        view.tracked = world.op \/ view.gone

=============================================================================
