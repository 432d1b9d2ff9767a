------------------------- MODULE PanelSessionProofs -------------------------
(***************************************************************************)
(* Theorems about PanelSession for every set of topics, every number of    *)
(* requests in flight, sessions, visits and failures.                      *)
(***************************************************************************)
EXTENDS PanelSession, FiniteSetTheorems, TLAPS

(* The types of the client's record.                                       *)

Data == [v : Nat, sess : Nat]
Snapshots == [data : Data, stale : BOOLEAN]
Requests ==
    [phase : {"idle", "sent", "answered"}, ask : SUBSET Topics,
     fresh : SUBSET Topics, sess : Nat, val : [Topics -> Nat]]
Events == [kind : {"data"}, topic : Topics, data : Data]
          \cup [kind : {"error"}, topic : Topics]
Statuses == {"closed", "connecting", "open", "reconnecting", "polling"}
Clients ==
    [refs : [Topics -> Nat], snap : [Topics -> Snapshots],
     es : {"none", "connecting", "open"}, opened : BOOLEAN, wire : Seq(Events),
     key : SUBSET Topics, fails : Nat, status : Statuses, stale : BOOLEAN,
     debounce : BOOLEAN, backoff : BOOLEAN, watchdog : BOOLEAN, poll : BOOLEAN,
     inflight : Slots \cup {NoSlot}, reqs : [Slots -> Requests],
     missed : SUBSET Topics]

(***************************************************************************)
(* The first inductive invariant: s is the last session that was signed    *)
(* out and w what the hub holds.  Nothing in the store or on the wire is   *)
(* of that session or newer than the hub, and a request still speaks only  *)
(* for topics whose data it would not set back, under a session that has   *)
(* not been signed out.  A request sent with no session (sess = 0) is only *)
(* ever denied, so it may speak for topics as long as it is unanswered.    *)
(* A is any set of requests known to be answered: carried through the      *)
(* lemmas, it shows which steps may end a request.                         *)
(***************************************************************************)

\* Data d, if any, is of a later session than s and no newer than n.
Known(d, s, n) == (d.v > 0 => d.sess > s) /\ d.v <= n

\* Request q, over the snapshots p.
Timely(q, p, s, w) ==
    /\ q.fresh \subseteq q.ask
    /\ q.fresh # {} => q.sess > s \/ (q.phase = "sent" /\ q.sess = 0)
    /\ \A t \in Topics :
         /\ q.val[t] <= w[t]
         /\ q.phase = "answered" /\ t \in q.fresh => p[t].data.v <= q.val[t]

\* The store, the requests and the wire of client x.
Clean(x, s, w, A) ==
    /\ x \in Clients
    /\ \A t \in Topics : Known(x.snap[t].data, s, w[t])
    /\ \A r \in Slots : Timely(x.reqs[r], x.snap, s, w)
    /\ \A r \in Slots \cap A : x.reqs[r].phase = "answered"
    /\ \A i \in DOMAIN x.wire : x.wire[i].kind = "data" =>
         Known(x.wire[i].data, s, w[x.wire[i].topic]) /\ x.wire[i].data.sess > s

(***************************************************************************)
(* The second: the connection follows the mounted topics, and the status   *)
(* agrees with the timers and the source.                                  *)
(***************************************************************************)

\* ConnectionFollowsMounts, of any client.
Follows(x) ==
    ~x.debounce =>
        IF ActiveTopics(x) = {}
        THEN x.es = "none" /\ ~x.poll /\ x.status = "closed"
        ELSE x.backoff \/ (x.es # "none" /\ x.key = ActiveTopics(x))

\* What the strip shows is what the source and the timers are.
Honest(x) ==
    /\ x.poll <=> x.status = "polling"
    /\ x.status = "open" => x.es = "open"
    /\ x.status = "open" /\ ~x.stale => x.watchdog

\* The session and the hub around the client.
Sessions ==
    /\ cookie \in Nat /\ valid \in BOOLEAN /\ signedOut \in Nat
    /\ srv \in [Topics -> Nat]
    /\ cookie # 0 => cookie > signedOut
    /\ valid => cookie # 0
    /\ budget \in [visits : Nat, faults : Nat, sessions : Nat, news : Nat]
    /\ budget.sessions >= cookie
    /\ budget.sessions >= signedOut

\* The inductive invariant.
Inv == Sessions /\ Clean(c, signedOut, srv, {}) /\ Follows(c) /\ Honest(c)

(***************************************************************************)
(* What the client's operators do, as relations between two clients.       *)
(***************************************************************************)

\* y speaks for no more than x does: requests may have lost topics, the wire
\* may have been cut, no data was installed.
Narrows(x, y) ==
    /\ y \in Clients
    /\ \A t \in Topics : y.snap[t].data = x.snap[t].data
    /\ \A r \in Slots :
         /\ y.reqs[r].phase = x.reqs[r].phase
         /\ y.reqs[r].ask = x.reqs[r].ask
         /\ y.reqs[r].sess = x.reqs[r].sess
         /\ y.reqs[r].val = x.reqs[r].val
         /\ y.reqs[r].fresh \subseteq x.reqs[r].fresh
    /\ y.wire = x.wire \/ y.wire = << >>

\* y differs from x, in the fields Follows and Honest read, only by what the
\* status strip shows.
Shows(x, y, status, stale) ==
    /\ y.refs = x.refs /\ y.es = x.es /\ y.key = x.key
    /\ y.debounce = x.debounce /\ y.backoff = x.backoff
    /\ y.watchdog = x.watchdog /\ y.poll = x.poll
    /\ y.status = status /\ y.stale = stale

\* y differs from x in no field that Follows and Honest read.
Alike(x, y) == Shows(x, y, x.status, x.stale)

\* Narrowing twice is narrowing.
LEMMA NarrowsTrans ==
    ASSUME NEW x, NEW y, NEW z, Narrows(x, y), Narrows(y, z)
    PROVE  Narrows(x, z)
BY DEF Narrows

\* A client that speaks for no more is as clean.
LEMMA NarrowsClean ==
    ASSUME NEW s \in Nat, NEW w \in [Topics -> Nat], NEW A, NEW x,
           NEW y,
           Clean(x, s, w, A), Narrows(x, y)
    PROVE  Clean(y, s, w, A)
<1>1. y \in Clients /\ x \in Clients
  BY DEF Narrows, Clean
<1>2. \A t \in Topics : Known(y.snap[t].data, s, w[t])
  BY DEF Narrows, Clean
<1>3. ASSUME NEW r \in Slots  PROVE Timely(y.reqs[r], y.snap, s, w)
  BY DEF Narrows, Clean, Timely
<1>4. ASSUME NEW i \in DOMAIN y.wire, y.wire[i].kind = "data"
      PROVE  /\ Known(y.wire[i].data, s, w[y.wire[i].topic])
             /\ y.wire[i].data.sess > s
  BY <1>4 DEF Narrows, Clean
<1>5. \A r \in Slots \cap A : y.reqs[r].phase = "answered"
  BY DEF Narrows, Clean
<1> QED
  BY <1>1, <1>2, <1>3, <1>4, <1>5 DEF Clean

\* A change of the strip after a change of nothing.
LEMMA AlikeTrans ==
    ASSUME NEW x, NEW y, NEW z, NEW status, NEW stale,
           Alike(x, y), Shows(y, z, status, stale)
    PROVE  Shows(x, z, status, stale)
BY DEF Alike, Shows

\* The fields of a client have their types.
LEMMA FieldTypes ==
    ASSUME NEW x \in Clients
    PROVE  /\ x.refs \in [Topics -> Nat] /\ x.snap \in [Topics -> Snapshots]
           /\ x.es \in {"none", "connecting", "open"} /\ x.opened \in BOOLEAN
           /\ x.wire \in Seq(Events) /\ x.key \in SUBSET Topics
           /\ x.fails \in Nat /\ x.status \in Statuses /\ x.stale \in BOOLEAN
           /\ x.debounce \in BOOLEAN /\ x.backoff \in BOOLEAN
           /\ x.watchdog \in BOOLEAN /\ x.poll \in BOOLEAN
           /\ x.inflight \in Slots \cup {NoSlot}
           /\ x.reqs \in [Slots -> Requests] /\ x.missed \in SUBSET Topics
BY DEF Clients

\* The mounted topics are topics.
LEMMA ActiveType ==
    ASSUME NEW x PROVE ActiveTopics(x) \in SUBSET Topics
BY DEF ActiveTopics

\* Raising a counter takes the topics T from every request in flight.
LEMMA OutdateActs ==
    ASSUME NEW x \in Clients, NEW T
    PROVE  /\ Narrows(x, Outdate(x, T)) /\ Alike(x, Outdate(x, T))
           /\ \A r \in Slots :
                Outdate(x, T).reqs[r].fresh = x.reqs[r].fresh \ T
           /\ Outdate(x, T).wire = x.wire /\ Outdate(x, T).snap = x.snap
<1> DEFINE f == [r \in Slots |-> [x.reqs[r] EXCEPT !.fresh = @ \ T]]
           y == [x EXCEPT !.reqs = f]
<1>1. /\ f \in [Slots -> Requests]
      /\ \A r \in Slots :
         /\ f[r].phase = x.reqs[r].phase /\ f[r].ask = x.reqs[r].ask
         /\ f[r].sess = x.reqs[r].sess
         /\ f[r].val = x.reqs[r].val /\ f[r].fresh = x.reqs[r].fresh \ T
  <2>1. ASSUME NEW q \in Requests
        PROVE  /\ [q EXCEPT !.fresh = @ \ T] \in Requests
               /\ [q EXCEPT !.fresh = @ \ T].phase = q.phase
               /\ [q EXCEPT !.fresh = @ \ T].ask = q.ask
               /\ [q EXCEPT !.fresh = @ \ T].sess = q.sess
               /\ [q EXCEPT !.fresh = @ \ T].val = q.val
               /\ [q EXCEPT !.fresh = @ \ T].fresh = q.fresh \ T
    BY DEF Requests
  <2>2. x.reqs \in [Slots -> Requests]
    BY FieldTypes
  <2> QED
    BY <2>1, <2>2
<1>2. Outdate(x, T) = y
  BY DEF Outdate
<1> HIDE DEF f
<1>3. y \in Clients /\ y.reqs = f /\ y.snap = x.snap /\ y.wire = x.wire
  BY <1>1 DEF Clients
<1>4. Alike(x, y)
  BY DEF Alike, Shows, Clients
<1> HIDE DEF y
<1> QED
  BY <1>1, <1>2, <1>3, <1>4 DEF Narrows

\* setConnection changes what the strip shows and outdates at most.
LEMMA SetConnectionActs ==
    ASSUME NEW x \in Clients, NEW status \in Statuses, NEW stale \in BOOLEAN
    PROVE  /\ Narrows(x, SetConnection(x, status, stale))
           /\ Shows(x, SetConnection(x, status, stale), status, stale)
           /\ SetConnection(x, status, stale).wire = x.wire
           /\ SetConnection(x, status, stale).snap = x.snap
<1> DEFINE y == IF stale /\ ~x.stale THEN Outdate(x, ActiveTopics(x)) ELSE x
           z == [y EXCEPT !.status = status, !.stale = stale]
<1>1. Narrows(x, x) /\ Alike(x, x)
  BY DEF Narrows, Alike, Shows
<1>2. Narrows(x, y) /\ Alike(x, y) /\ y.wire = x.wire /\ y.snap = x.snap
  BY <1>1, OutdateActs
<1>3. SetConnection(x, status, stale) = z
  BY DEF SetConnection
<1> HIDE DEF y
<1>4. y \in Clients
  BY <1>2 DEF Narrows
<1>5. /\ z \in Clients /\ z.reqs = y.reqs /\ z.snap = y.snap /\ z.wire = y.wire
      /\ Shows(y, z, status, stale)
  BY <1>4 DEF Clients, Shows
<1> HIDE DEF z
<1>6. Narrows(y, z)
  BY <1>5 DEF Narrows
<1> QED
  BY <1>2, <1>3, <1>5, <1>6, NarrowsTrans, AlikeTrans

\* A frame rearms the watchdog and clears the warning of silence.
LEMMA OnFrameActs ==
    ASSUME NEW x \in Clients, NEW y, y = OnFrame(x)
    PROVE  /\ Narrows(x, y) /\ y.wire = x.wire /\ y.snap = x.snap
           /\ y.refs = x.refs /\ y.es = x.es /\ y.key = x.key
           /\ y.debounce = x.debounce /\ y.backoff = x.backoff
           /\ y.poll = x.poll /\ y.status = x.status
           /\ y.watchdog /\ ~y.stale
<1> DEFINE z == [x EXCEPT !.watchdog = TRUE]
<1>1. /\ z \in Clients /\ z.snap = x.snap /\ z.wire = x.wire /\ z.reqs = x.reqs
      /\ z.refs = x.refs /\ z.es = x.es /\ z.key = x.key
      /\ z.debounce = x.debounce /\ z.backoff = x.backoff
      /\ z.poll = x.poll /\ z.status = x.status /\ z.watchdog
  BY DEF Clients
<1>2. y = SetConnection(z, x.status, FALSE)
  BY DEF OnFrame
<1> HIDE DEF z
<1>3. x.status \in Statuses
  BY FieldTypes
<1>4. Narrows(x, z)
  BY <1>1 DEF Narrows
<1>5. /\ Narrows(z, y) /\ Shows(z, y, x.status, FALSE)
      /\ y.wire = z.wire /\ y.snap = z.snap
  <2>1. z \in Clients
    BY <1>1
  <2> QED
    BY <1>2, <1>3, <2>1, SetConnectionActs, Zenon
<1>6. Narrows(x, y)
  BY <1>4, <1>5, NarrowsTrans
<1> QED
  BY <1>1, <1>5, <1>6 DEF Shows

\* A made connection ends the polling.
LEMMA MarkConnectedActs ==
    ASSUME NEW x \in Clients, NEW y, y = MarkConnected(x)
    PROVE  /\ Narrows(x, y) /\ y.wire = x.wire /\ y.snap = x.snap
           /\ y.refs = x.refs /\ y.es = x.es /\ y.key = x.key
           /\ y.debounce = x.debounce /\ y.backoff = x.backoff
           /\ y.watchdog = x.watchdog /\ y.stale = x.stale
           /\ ~y.poll /\ y.status = "open"
<1> DEFINE z == StopPolling([x EXCEPT !.fails = 0])
<1>1. /\ z \in Clients /\ z.snap = x.snap /\ z.wire = x.wire /\ z.reqs = x.reqs
      /\ z.refs = x.refs /\ z.es = x.es /\ z.key = x.key
      /\ z.debounce = x.debounce /\ z.backoff = x.backoff
      /\ z.watchdog = x.watchdog /\ z.stale = x.stale /\ ~z.poll
  BY DEF Clients, StopPolling
<1>2. y = SetConnection(z, "open", x.stale)
  BY DEF MarkConnected
<1> HIDE DEF z
<1>3. x.stale \in BOOLEAN /\ "open" \in Statuses
  BY FieldTypes DEF Statuses
<1>4. Narrows(x, z)
  BY <1>1 DEF Narrows
<1>5. /\ Narrows(z, y) /\ Shows(z, y, "open", x.stale)
      /\ y.wire = z.wire /\ y.snap = z.snap
  BY <1>1, <1>2, <1>3, SetConnectionActs
<1>6. Narrows(x, y)
  BY <1>4, <1>5, NarrowsTrans
<1> QED
  BY <1>1, <1>5, <1>6 DEF Shows

\* Closing the source cuts its wire.
LEMMA CloseEventSourceActs ==
    ASSUME NEW x \in Clients, NEW y, y = CloseEventSource(x)
    PROVE  /\ y \in Clients /\ y.snap = x.snap /\ y.wire = << >>
           /\ y.reqs = x.reqs /\ y.refs = x.refs /\ y.debounce = x.debounce
           /\ y.backoff = x.backoff /\ y.watchdog = x.watchdog
           /\ y.poll = x.poll /\ y.es = "none"
<1> DEFINE e == << >>
<1>1. e \in Seq(Events)
  OBVIOUS
<1>2. y = [x EXCEPT !.es = "none", !.wire = e, !.missed = {}]
  BY DEF CloseEventSource
<1> HIDE DEF e
<1>3. /\ y \in Clients /\ y.snap = x.snap /\ y.wire = e
      /\ y.reqs = x.reqs /\ y.refs = x.refs /\ y.debounce = x.debounce
      /\ y.backoff = x.backoff /\ y.watchdog = x.watchdog
      /\ y.poll = x.poll /\ y.es = "none"
  BY <1>1, <1>2 DEF Clients
<1> QED
  BY <1>3 DEF e

\* With no topic mounted, nothing is left connected or polling.
LEMMA CloseForLackOfTopicsActs ==
    ASSUME NEW x \in Clients, NEW y, y = CloseForLackOfTopics(x)
    PROVE  /\ Narrows(x, y) /\ y.refs = x.refs /\ y.debounce = x.debounce
           /\ y.es = "none" /\ ~y.poll /\ y.status = "closed"
<1> DEFINE v == CloseEventSource(x)
           z == [StopPolling(v) EXCEPT !.key = {}, !.watchdog = FALSE]
<1>0. /\ v \in Clients /\ v.snap = x.snap /\ v.wire = << >> /\ v.reqs = x.reqs
      /\ v.refs = x.refs /\ v.es = "none" /\ v.debounce = x.debounce
  BY CloseEventSourceActs
<1>2. y = SetConnection(z, "closed", FALSE)
  BY DEF CloseForLackOfTopics
<1> HIDE DEF v
<1>1. /\ z \in Clients /\ z.snap = x.snap /\ z.wire = << >> /\ z.reqs = x.reqs
      /\ z.refs = x.refs /\ z.es = "none" /\ z.debounce = x.debounce /\ ~z.poll
  BY <1>0 DEF Clients, StopPolling
<1> HIDE DEF z
<1>3. Narrows(x, z)
  BY <1>1 DEF Narrows
<1>4. Narrows(z, y) /\ Shows(z, y, "closed", FALSE)
  BY <1>1, <1>2, SetConnectionActs DEF Statuses
<1>5. Narrows(x, y)
  BY <1>3, <1>4, NarrowsTrans
<1> QED
  BY <1>1, <1>4, <1>5 DEF Shows

\* A new source replaces the old one; polling is not downgraded.
LEMMA OpenEventSourceActs ==
    ASSUME NEW x \in Clients, NEW T \in SUBSET Topics, NEW y,
           y = OpenEventSource(x, T)
    PROVE  /\ Narrows(x, y) /\ y.refs = x.refs /\ y.debounce = x.debounce
           /\ y.backoff = x.backoff /\ y.watchdog = x.watchdog
           /\ y.poll = x.poll /\ y.stale = x.stale
           /\ y.es = "connecting" /\ y.key = T
           /\ y.status = AttemptStatus(x.status)
<1> DEFINE z == CloseEventSource(x)
           u == SetConnection(z, AttemptStatus(x.status), x.stale)
<1>1. /\ z \in Clients /\ z.snap = x.snap /\ z.wire = << >> /\ z.reqs = x.reqs
      /\ z.refs = x.refs /\ z.debounce = x.debounce
      /\ z.backoff = x.backoff /\ z.watchdog = x.watchdog /\ z.poll = x.poll
  BY CloseEventSourceActs
<1>2. x.stale \in BOOLEAN /\ AttemptStatus(x.status) \in Statuses
  BY FieldTypes DEF AttemptStatus, Statuses
<1>3. y = [u EXCEPT !.es = "connecting", !.opened = FALSE, !.key = T]
  BY DEF OpenEventSource
<1> HIDE DEF z
<1>4. Narrows(x, z)
  BY <1>1 DEF Narrows
<1>5. /\ Narrows(z, u) /\ Shows(z, u, AttemptStatus(x.status), x.stale)
      /\ u.wire = z.wire /\ u.snap = z.snap
  BY <1>1, <1>2, SetConnectionActs
<1> HIDE DEF u
<1>6. u \in Clients
  BY <1>5 DEF Narrows
<1>7. /\ y \in Clients /\ y.snap = u.snap /\ y.wire = u.wire /\ y.reqs = u.reqs
      /\ y.refs = u.refs /\ y.debounce = u.debounce
      /\ y.backoff = u.backoff /\ y.watchdog = u.watchdog /\ y.poll = u.poll
      /\ y.stale = u.stale /\ y.status = u.status
      /\ y.es = "connecting" /\ y.key = T
  BY <1>3, <1>6 DEF Clients
<1>8. Narrows(u, y)
  BY <1>7 DEF Narrows
<1>9. Narrows(x, y)
  BY <1>4, <1>5, <1>8, NarrowsTrans
<1> QED
  BY <1>1, <1>5, <1>7, <1>9 DEF Shows

\* A request is sent for topics whose older requests it outdates.
LEMMA SendActs ==
    ASSUME NEW s \in Nat, NEW w \in [Topics -> Nat], NEW A, NEW x,
           Clean(x, s, w, A),
           NEW T, NEW r \in Slots, r \notin A, NEW k \in Nat, k = 0 \/ k > s,
           NEW y, y = SendSnapshotRequest(x, T, r, k)
    PROVE  Clean(y, s, w, A) /\ Alike(x, y)
<1> DEFINE ask == T \intersect ActiveTopics(x)
           z == Outdate(x, ask)
           q == [IdleRequest EXCEPT !.phase = "sent", !.ask = ask,
                                    !.fresh = ask, !.sess = k]
           f == [z.reqs EXCEPT ![r] = q]
<1>1. CASE ask = {}
  <2>1. y = x
    BY <1>1 DEF SendSnapshotRequest
  <2> QED
    BY <2>1 DEF Alike, Shows
<1>2. CASE ask # {}
  <2>1. y = [z EXCEPT !.reqs = f]
    BY <1>2 DEF SendSnapshotRequest
  <2>2. ask \in SUBSET Topics
    BY DEF ActiveTopics
  <2> HIDE DEF ask
  <2>3. /\ q \in Requests /\ q.phase = "sent" /\ q.sess = k
        /\ q.val = [t \in Topics |-> 0] /\ q.ask = ask /\ q.fresh = ask
    BY <2>2 DEF IdleRequest, Requests
  <2> HIDE DEF q
  <2>4. Clean(z, s, w, A) /\ Alike(x, z)
    <3>1. x \in Clients
      BY DEF Clean
    <3>2. Narrows(x, z) /\ Alike(x, z)
      BY <3>1, OutdateActs
    <3> QED
      BY <3>2, NarrowsClean
  <2> HIDE DEF z
  <2>5. z \in Clients
    BY <2>4 DEF Clean
  <2>6. /\ f \in [Slots -> Requests] /\ f[r] = q
        /\ \A p \in Slots : p # r => f[p] = z.reqs[p]
    BY <2>3, <2>5, FieldTypes
  <2> HIDE DEF f
  <2>7. /\ y \in Clients /\ y.snap = z.snap /\ y.wire = z.wire /\ y.reqs = f
        /\ Alike(z, y)
    BY <2>1, <2>5, <2>6 DEF Clients, Alike, Shows
  <2>8. ASSUME NEW p \in Slots PROVE Timely(f[p], z.snap, s, w)
    <3>1. CASE p = r
      BY <3>1, <2>3, <2>6 DEF Timely
    <3>2. CASE p # r
      BY <3>2, <2>4, <2>6 DEF Clean
    <3> QED
      BY <3>1, <3>2
  <2>9. Clean(y, s, w, A)
    <3>1. \A p \in Slots \cap A : f[p].phase = "answered"
      BY <2>4, <2>6 DEF Clean
    <3> QED
      BY <2>4, <2>7, <2>8, <3>1 DEF Clean
  <2> QED
    BY <2>4, <2>7, <2>9 DEF Alike, Shows
<1> QED
  BY <1>1, <1>2

\* A poll sends at most one request.
LEMMA PollOnceActs ==
    ASSUME NEW s \in Nat, NEW w \in [Topics -> Nat], NEW A, NEW x,
           Clean(x, s, w, A),
           NEW r \in Slots, r \notin A, NEW k \in Nat, k = 0 \/ k > s,
           NEW y, y = PollOnce(x, r, k)
    PROVE  Clean(y, s, w, A) /\ Alike(x, y)
<1> DEFINE z == SendSnapshotRequest(x, ActiveTopics(x), r, k)
<1>1. Clean(z, s, w, A) /\ Alike(x, z)
  BY SendActs
<1>2. y = x \/ y = [z EXCEPT !.inflight = r]
  BY DEF PollOnce
<1> HIDE DEF z
<1>3. CASE y = x
  BY <1>3 DEF Alike, Shows
<1>4. CASE y = [z EXCEPT !.inflight = r]
  <2>1. z \in Clients
    BY <1>1 DEF Clean
  <2>2. /\ y \in Clients /\ y.snap = z.snap /\ y.wire = z.wire /\ y.reqs = z.reqs
        /\ Alike(z, y)
    BY <1>4, <2>1 DEF Clients, Alike, Shows
  <2>3. Clean(y, s, w, A)
    BY <1>1, <2>2 DEF Clean
  <2> QED
    BY <1>1, <2>2, <2>3 DEF Alike, Shows
<1> QED
  BY <1>2, <1>3, <1>4

\* The fallback starts once and the strip says so.
LEMMA StartPollingActs ==
    ASSUME NEW s \in Nat, NEW w \in [Topics -> Nat], NEW A, NEW x,
           Clean(x, s, w, A),
           NEW r \in Slots, r \notin A, NEW k \in Nat, k = 0 \/ k > s,
           NEW y, y = StartPollingIfNeeded(x, r, k),
           x.poll => x.status = "polling"
    PROVE  /\ Clean(y, s, w, A) /\ y.refs = x.refs /\ y.es = x.es /\ y.key = x.key
           /\ y.debounce = x.debounce /\ y.backoff = x.backoff
           /\ y.watchdog = x.watchdog /\ y.stale = x.stale
           /\ y.poll /\ y.status = "polling"
<1> DEFINE z == SetConnection(x, "polling", x.stale)
           u == [z EXCEPT !.poll = TRUE]
<1>1. CASE x.poll
  BY <1>1 DEF StartPollingIfNeeded
<1>2. CASE ~x.poll
  <2>1. y = PollOnce(u, r, k)
    BY <1>2 DEF StartPollingIfNeeded
  <2>2. x \in Clients /\ x.stale \in BOOLEAN /\ "polling" \in Statuses
    BY FieldTypes DEF Statuses, Clean
  <2>3. Narrows(x, z) /\ Shows(x, z, "polling", x.stale)
    BY <2>2, SetConnectionActs
  <2>4. Clean(z, s, w, A)
    BY <2>3, NarrowsClean
  <2> HIDE DEF z
  <2>5. z \in Clients
    BY <2>4 DEF Clean
  <2>6. /\ u \in Clients /\ u.snap = z.snap /\ u.wire = z.wire /\ u.reqs = z.reqs
        /\ u.refs = z.refs /\ u.es = z.es /\ u.key = z.key
        /\ u.debounce = z.debounce /\ u.backoff = z.backoff
        /\ u.watchdog = z.watchdog /\ u.stale = z.stale /\ u.status = z.status
        /\ u.poll
    BY <2>5 DEF Clients
  <2> HIDE DEF u
  <2>7. Clean(u, s, w, A)
    BY <2>4, <2>6 DEF Clean
  <2>8. Clean(y, s, w, A) /\ Alike(u, y)
    BY <2>1, <2>7, PollOnceActs
  <2> QED
    BY <2>3, <2>6, <2>8 DEF Alike, Shows
<1> QED
  BY <1>1, <1>2

\* What the handlers preserve.
Sane(x, s, w, A) == Clean(x, s, w, A) /\ Follows(x) /\ Honest(x)

\* The mounted topics depend on the counts alone.
LEMMA SameActive ==
    ASSUME NEW x, NEW y, y.refs = x.refs
    PROVE  ActiveTopics(y) = ActiveTopics(x)
BY DEF ActiveTopics

\* A handler that leaves the control fields alone.
LEMMA AlikeSane ==
    ASSUME NEW s, NEW w, NEW A, NEW x, NEW y,
           Sane(x, s, w, A), Clean(y, s, w, A), Alike(x, y)
    PROVE  Sane(y, s, w, A)
BY SameActive DEF Sane, Follows, Honest, Alike, Shows

\* rebuildNow brings the connection in line with the mounted topics.
LEMMA RebuildSane ==
    ASSUME NEW s \in Nat, NEW w \in [Topics -> Nat], NEW A, NEW x,
           Clean(x, s, w, A),
           Honest(x), NEW force \in BOOLEAN, NEW y, y = RebuildNow(x, force)
    PROVE  Sane(y, s, w, A)
<1> DEFINE T == ActiveTopics(x)
           v == [x EXCEPT !.backoff = FALSE]
           g == NextGeneration(v)
           h == [g EXCEPT !.inflight = NoSlot]
           z == IF force \/ v.key # {} THEN h ELSE v
<1>1. x \in Clients /\ T \in SUBSET Topics
  BY ActiveType DEF Clean
<1>2. \/ T = {} /\ y = CloseForLackOfTopics(v)
      \/ T # {} /\ T = v.key /\ v.es # "none" /\ y = v
      \/ T # {} /\ y = OpenEventSource(z, T)
  BY DEF RebuildNow
<1>3. /\ v \in Clients /\ v.snap = x.snap /\ v.wire = x.wire /\ v.reqs = x.reqs
      /\ v.refs = x.refs /\ v.es = x.es /\ v.key = x.key
      /\ v.debounce = x.debounce /\ v.status = x.status /\ v.stale = x.stale
      /\ v.watchdog = x.watchdog /\ v.poll = x.poll
  BY <1>1 DEF Clients
<1> HIDE DEF v
<1>4. Clean(v, s, w, A)
  BY <1>3 DEF Clean
<1>5. Honest(v) /\ ActiveTopics(v) = T
  BY <1>3, SameActive DEF Honest
<1> HIDE DEF T
<1>6. CASE T = {} /\ y = CloseForLackOfTopics(v)
  <2>1. /\ Narrows(v, y) /\ y.refs = v.refs
        /\ y.es = "none" /\ ~y.poll /\ y.status = "closed"
    BY <1>3, <1>6, CloseForLackOfTopicsActs
  <2>2. Clean(y, s, w, A)
    BY <1>4, <2>1, NarrowsClean
  <2> QED
    BY <1>5, <1>6, <2>1, <2>2, SameActive DEF Sane, Follows, Honest
<1>7. CASE T # {} /\ T = v.key /\ v.es # "none" /\ y = v
  BY <1>4, <1>5, <1>7 DEF Sane, Follows
<1>8. CASE T # {} /\ y = OpenEventSource(z, T)
  <2>1. Narrows(v, g) /\ Alike(v, g)
    BY <1>3, OutdateActs DEF NextGeneration
  <2> HIDE DEF g
  <2>2. g \in Clients /\ Clean(g, s, w, A)
    BY <1>4, <2>1, NarrowsClean DEF Narrows
  <2>3. /\ h \in Clients /\ h.snap = g.snap /\ h.wire = g.wire
        /\ h.reqs = g.reqs /\ Alike(g, h)
    BY <2>2 DEF Clients, Alike, Shows
  <2> HIDE DEF h
  <2>4. Clean(h, s, w, A) /\ Alike(v, h)
    BY <2>1, <2>2, <2>3 DEF Clean, Alike, Shows
  <2>5. Clean(z, s, w, A) /\ Alike(v, z)
    BY <1>4, <2>4 DEF Alike, Shows
  <2> HIDE DEF z
  <2>6. /\ Narrows(z, y) /\ y.refs = z.refs /\ y.poll = z.poll
        /\ y.es = "connecting" /\ y.key = T
        /\ y.status = AttemptStatus(z.status)
    BY <1>1, <1>8, <2>5, OpenEventSourceActs DEF Clean
  <2>7. Clean(y, s, w, A)
    BY <2>5, <2>6, NarrowsClean
  <2>8. Follows(y)
    BY <1>5, <1>8, <2>5, <2>6, SameActive DEF Follows, Alike, Shows
  <2>9. Honest(y)
    BY <1>5, <2>5, <2>6 DEF Honest, Alike, Shows, AttemptStatus
  <2> QED
    BY <2>7, <2>8, <2>9 DEF Sane
<1> QED
  BY <1>2, <1>6, <1>7, <1>8

\* Mounting and unmounting: the counts change and a rebuild is scheduled.
LEMMA RemountSane ==
    ASSUME NEW s \in Nat, NEW w \in [Topics -> Nat], NEW A, NEW x,
           Sane(x, s, w, A),
           NEW T, NEW z, z = x \/ z = Outdate(x, T),
           NEW f \in [Topics -> Nat], NEW u, u = [z EXCEPT !.refs = f],
           NEW y, y = ScheduleRebuild(u)
    PROVE  Sane(y, s, w, A)
<1>1. x \in Clients
  BY DEF Sane, Clean
<1>2. Narrows(x, z) /\ Alike(x, z)
  BY <1>1, OutdateActs DEF Narrows, Alike, Shows
<1>3. Clean(z, s, w, A) /\ z \in Clients
  BY <1>2, NarrowsClean DEF Sane, Narrows
<1>4. /\ u \in Clients /\ u.snap = z.snap /\ u.wire = z.wire /\ u.reqs = z.reqs
      /\ u.es = z.es /\ u.status = z.status /\ u.stale = z.stale
      /\ u.watchdog = z.watchdog /\ u.poll = z.poll
  BY <1>3 DEF Clients
<1>5. /\ y \in Clients /\ y.snap = u.snap /\ y.wire = u.wire /\ y.reqs = u.reqs
      /\ y.es = u.es /\ y.status = u.status /\ y.stale = u.stale
      /\ y.watchdog = u.watchdog /\ y.poll = u.poll /\ y.debounce
  BY <1>4 DEF Clients, ScheduleRebuild
<1>6. Clean(y, s, w, A)
  BY <1>3, <1>4, <1>5 DEF Clean
<1>7. Honest(y)
  BY <1>2, <1>4, <1>5 DEF Honest, Sane, Alike, Shows
<1> QED
  BY <1>5, <1>6, <1>7 DEF Sane, Follows

\* A component mounts.
LEMMA SubscribeSane ==
    ASSUME NEW s \in Nat, NEW w \in [Topics -> Nat], NEW A, NEW x,
           Sane(x, s, w, A),
           NEW t \in Topics
    PROVE  Sane(SubscribeTopic(x, t), s, w, A)
<1> DEFINE z == IF x.refs[t] = 0 THEN Outdate(x, {t}) ELSE x
           f == [z.refs EXCEPT ![t] = @ + 1]
<1>1. x \in Clients /\ (z = x \/ z = Outdate(x, {t}))
  BY DEF Sane, Clean
<1>2. SubscribeTopic(x, t) = ScheduleRebuild([z EXCEPT !.refs = f])
  BY DEF SubscribeTopic
<1> HIDE DEF z
<1>3. z \in Clients
  BY <1>1, OutdateActs DEF Narrows
<1>4. f \in [Topics -> Nat]
  BY <1>3, FieldTypes
<1> HIDE DEF f
<1> QED
  BY <1>1, <1>2, <1>4, RemountSane

\* A component unmounts.
LEMMA UnsubscribeSane ==
    ASSUME NEW s \in Nat, NEW w \in [Topics -> Nat], NEW A, NEW x,
           Sane(x, s, w, A),
           NEW t \in Topics, x.refs[t] > 0
    PROVE  Sane(UnsubscribeTopic(x, t), s, w, A)
<1> DEFINE z == IF x.refs[t] = 1 THEN Outdate(x, {t}) ELSE x
           f == [z.refs EXCEPT ![t] = @ - 1]
<1>1. x \in Clients /\ (z = x \/ z = Outdate(x, {t}))
  BY DEF Sane, Clean
<1>2. UnsubscribeTopic(x, t) = ScheduleRebuild([z EXCEPT !.refs = f])
  BY DEF UnsubscribeTopic
<1> HIDE DEF z
<1>3. z \in Clients /\ z.refs = x.refs
  BY <1>1, OutdateActs DEF Narrows, Alike, Shows
<1>4. z.refs \in [Topics -> Nat] /\ z.refs[t] > 0
  BY <1>3, FieldTypes
<1>5. f \in [Topics -> Nat]
  BY <1>4
<1> HIDE DEF f
<1> QED
  BY <1>1, <1>2, <1>5, RemountSane

\* Every component of the guarded pages unmounts.
LEMMA UnmountAllSane ==
    ASSUME NEW s \in Nat, NEW w \in [Topics -> Nat], NEW A, NEW x,
           Sane(x, s, w, A)
    PROVE  Sane(UnmountAll(x), s, w, A)
<1> DEFINE z == Outdate(x, ActiveTopics(x))
           f == [t \in Topics |-> 0]
<1>1. UnmountAll(x) = ScheduleRebuild([z EXCEPT !.refs = f])
  BY DEF UnmountAll
<1>2. f \in [Topics -> Nat] /\ z = Outdate(x, ActiveTopics(x))
  OBVIOUS
<1> HIDE DEF z, f
<1> QED
  BY <1>1, <1>2, RemountSane

\* The debounce timer fires.
LEMMA DebounceSane ==
    ASSUME NEW s \in Nat, NEW w \in [Topics -> Nat], NEW A, NEW x,
           Sane(x, s, w, A)
    PROVE  Sane(DebounceFires(x), s, w, A)
<1> DEFINE z == [x EXCEPT !.debounce = FALSE]
<1>1. DebounceFires(x) = RebuildNow(z, FALSE) /\ x \in Clients
  BY DEF DebounceFires, Sane, Clean
<1>2. /\ z \in Clients /\ z.snap = x.snap /\ z.wire = x.wire /\ z.reqs = x.reqs
      /\ z.es = x.es /\ z.status = x.status /\ z.stale = x.stale
      /\ z.watchdog = x.watchdog /\ z.poll = x.poll
  BY <1>1 DEF Clients
<1> HIDE DEF z
<1>3. Clean(z, s, w, A) /\ Honest(z)
  BY <1>2 DEF Sane, Clean, Honest
<1> QED
  BY <1>1, <1>3, RebuildSane

\* The operator presses retry.
LEMMA RetrySane ==
    ASSUME NEW s \in Nat, NEW w \in [Topics -> Nat], NEW A, NEW x,
           Sane(x, s, w, A)
    PROVE  Sane(Retry(x), s, w, A)
<1> DEFINE z == [x EXCEPT !.fails = 0]
<1>1. Retry(x) = RebuildNow(z, TRUE) /\ x \in Clients
  BY DEF Retry, Sane, Clean
<1>2. /\ z \in Clients /\ z.snap = x.snap /\ z.wire = x.wire /\ z.reqs = x.reqs
      /\ z.es = x.es /\ z.status = x.status /\ z.stale = x.stale
      /\ z.watchdog = x.watchdog /\ z.poll = x.poll
  BY <1>1 DEF Clients
<1> HIDE DEF z
<1>3. Clean(z, s, w, A) /\ Honest(z)
  BY <1>2 DEF Sane, Clean, Honest
<1> QED
  BY <1>1, <1>3, RebuildSane

\* The watchdog reports the silence of the source.
LEMMA WatchdogSane ==
    ASSUME NEW s \in Nat, NEW w \in [Topics -> Nat], NEW A, NEW x,
           Sane(x, s, w, A)
    PROVE  Sane(WatchdogFires(x), s, w, A)
<1> DEFINE z == [x EXCEPT !.watchdog = FALSE]
           y == SetConnection(z, x.status, TRUE)
<1>1. WatchdogFires(x) = y /\ x \in Clients
  BY DEF WatchdogFires, Sane, Clean
<1>2. /\ z \in Clients /\ z.snap = x.snap /\ z.wire = x.wire /\ z.reqs = x.reqs
      /\ z.refs = x.refs /\ z.es = x.es /\ z.key = x.key
      /\ z.debounce = x.debounce /\ z.backoff = x.backoff /\ z.poll = x.poll
  BY <1>1 DEF Clients
<1> HIDE DEF z
<1>3. Clean(z, s, w, A) /\ x.status \in Statuses
  BY <1>1, <1>2, FieldTypes DEF Sane, Clean
<1>4. Narrows(z, y) /\ Shows(z, y, x.status, TRUE)
  BY <1>2, <1>3, SetConnectionActs
<1> HIDE DEF y
<1>5. Clean(y, s, w, A)
  BY <1>3, <1>4, NarrowsClean
<1>6. /\ y.refs = x.refs /\ y.es = x.es /\ y.key = x.key
      /\ y.debounce = x.debounce /\ y.backoff = x.backoff /\ y.poll = x.poll
      /\ y.status = x.status /\ y.stale
  BY <1>2, <1>4 DEF Shows
<1> QED
  BY <1>1, <1>5, <1>6, SameActive DEF Sane, Follows, Honest

\* A frame of a source that is open, or an answer, clears `stale`.
LEMMA OnFrameSane ==
    ASSUME NEW s \in Nat, NEW w \in [Topics -> Nat], NEW A, NEW x,
           Sane(x, s, w, A),
           NEW y, y = OnFrame(x)
    PROVE  Sane(y, s, w, A)
<1>1. /\ Narrows(x, y) /\ y.refs = x.refs /\ y.es = x.es /\ y.key = x.key
      /\ y.debounce = x.debounce /\ y.backoff = x.backoff
      /\ y.poll = x.poll /\ y.status = x.status /\ y.watchdog
  BY OnFrameActs DEF Sane, Clean
<1>2. Clean(y, s, w, A)
  BY <1>1, NarrowsClean DEF Sane
<1> QED
  BY <1>1, <1>2, SameActive DEF Sane, Follows, Honest

\* A topic's data is replaced: no earlier request speaks for it any more.
LEMMA ApplyDataActs ==
    ASSUME NEW s \in Nat, NEW w \in [Topics -> Nat], NEW A, NEW x,
           Clean(x, s, w, A),
           NEW t \in Topics, NEW d \in Data, Known(d, s, w[t]),
           NEW y, y = ApplyTopicData(x, t, d)
    PROVE  Clean(y, s, w, A) /\ Alike(x, y)
<1> DEFINE z == Outdate(x, {t})
           n == [data |-> d, stale |-> FALSE]
           p == [z.snap EXCEPT ![t] = n]
           m == z.missed \ {t}
<1>1. CASE x.refs[t] = 0
  BY <1>1 DEF ApplyTopicData, Alike, Shows
<1>2. CASE x.refs[t] # 0
  <2>1. y = [z EXCEPT !.snap = p, !.missed = m]
    BY <1>2 DEF ApplyTopicData
  <2>2. n \in Snapshots /\ n.data = d
    BY DEF Snapshots
  <2> HIDE DEF n
  <2>3. /\ Narrows(x, z) /\ Alike(x, z)
        /\ \A r \in Slots : z.reqs[r].fresh = x.reqs[r].fresh \ {t}
    BY OutdateActs DEF Clean
  <2> HIDE DEF z
  <2>4. Clean(z, s, w, A) /\ z \in Clients
    BY <2>3, NarrowsClean DEF Narrows
  <2>5. /\ p \in [Topics -> Snapshots] /\ p[t] = n
        /\ \A u \in Topics : u # t => p[u] = z.snap[u]
    BY <2>2, <2>4, FieldTypes
  <2>6. m \in SUBSET Topics
    BY <2>4, FieldTypes
  <2> HIDE DEF p, m
  <2>7. /\ y \in Clients /\ y.snap = p /\ y.wire = z.wire /\ y.reqs = z.reqs
        /\ Alike(z, y)
    BY <2>1, <2>4, <2>5, <2>6 DEF Clients, Alike, Shows
  <2>8. ASSUME NEW u \in Topics PROVE Known(p[u].data, s, w[u])
    <3>1. CASE u = t
      BY <3>1, <2>2, <2>5
    <3>2. CASE u # t
      BY <3>2, <2>4, <2>5 DEF Clean
    <3> QED
      BY <3>1, <3>2
  <2>9. ASSUME NEW r \in Slots PROVE Timely(z.reqs[r], p, s, w)
    <3>1. Timely(z.reqs[r], z.snap, s, w)
      BY <2>4 DEF Clean
    <3>2. t \notin z.reqs[r].fresh
      BY <2>3
    <3> QED
      BY <3>1, <3>2, <2>5 DEF Timely
  <2>10. Clean(y, s, w, A)
    BY <2>4, <2>7, <2>8, <2>9 DEF Clean
  <2> QED
    BY <2>3, <2>7, <2>10 DEF Alike, Shows
<1> QED
  BY <1>1, <1>2

\* A source error marks the topic stale and keeps its data.
LEMMA ApplyErrorActs ==
    ASSUME NEW s \in Nat, NEW w \in [Topics -> Nat], NEW A, NEW x,
           Clean(x, s, w, A),
           NEW t \in Topics, NEW y, y = ApplyTopicError(x, t)
    PROVE  Clean(y, s, w, A) /\ Alike(x, y)
<1> DEFINE z == Outdate(x, {t})
           n == [z.snap[t] EXCEPT !.stale = TRUE]
           p == [z.snap EXCEPT ![t] = n]
<1>1. CASE x.refs[t] = 0
  BY <1>1 DEF ApplyTopicError, Alike, Shows
<1>2. CASE x.refs[t] # 0
  <2>1. y = [z EXCEPT !.snap = p]
    BY <1>2 DEF ApplyTopicError
  <2>2. Narrows(x, z) /\ Alike(x, z)
    BY OutdateActs DEF Clean
  <2> HIDE DEF z
  <2>3. Clean(z, s, w, A) /\ z \in Clients
    BY <2>2, NarrowsClean DEF Narrows
  <2>4. n \in Snapshots /\ n.data = z.snap[t].data
    <3>1. z.snap[t] \in Snapshots
      BY <2>3, FieldTypes
    <3> QED
      BY <3>1 DEF Snapshots
  <2> HIDE DEF n
  <2>5. /\ p \in [Topics -> Snapshots]
        /\ \A u \in Topics : p[u].data = z.snap[u].data
    BY <2>3, <2>4, FieldTypes
  <2> HIDE DEF p
  <2>6. /\ y \in Clients /\ y.snap = p /\ y.wire = z.wire /\ y.reqs = z.reqs
        /\ Alike(z, y)
    BY <2>1, <2>3, <2>5 DEF Clients, Alike, Shows
  <2>7. Narrows(z, y)
    BY <2>5, <2>6 DEF Narrows
  <2>8. Clean(y, s, w, A)
    BY <2>3, <2>7, NarrowsClean
  <2> QED
    BY <2>2, <2>6, <2>8 DEF Alike, Shows
<1> QED
  BY <1>1, <1>2

\* A new stream begins with one frame per topic of its key.
LEMMA OpensSane ==
    ASSUME NEW s \in Nat, NEW w \in [Topics -> Nat], NEW A, NEW x,
           Sane(x, s, w, A),
           NEW g \in Seq(Events),
           \A i \in DOMAIN g : g[i].kind = "data" =>
               Known(g[i].data, s, w[g[i].topic]) /\ g[i].data.sess > s,
           x.es # "none"
    PROVE  Sane(SourceOpens(x, g), s, w, A)
<1> DEFINE z == IF x.opened \/ x.fails > 0 THEN NextGeneration(x) ELSE x
           u == [z EXCEPT !.es = "open", !.opened = TRUE, !.wire = g]
           v == MarkConnected(u)
           y == OnFrame(v)
<1>1. SourceOpens(x, g) = y /\ x \in Clients
  BY DEF SourceOpens, Sane, Clean
<1>2. Narrows(x, z) /\ Alike(x, z)
  BY <1>1, OutdateActs DEF NextGeneration, Narrows, Alike, Shows
<1> HIDE DEF z
<1>3. Clean(z, s, w, A) /\ z \in Clients
  BY <1>2, NarrowsClean DEF Sane, Narrows
<1>4. /\ u \in Clients /\ u.snap = z.snap /\ u.wire = g /\ u.reqs = z.reqs
      /\ u.refs = z.refs /\ u.es = "open" /\ u.key = z.key
      /\ u.debounce = z.debounce /\ u.backoff = z.backoff
  BY <1>3 DEF Clients
<1> HIDE DEF u
<1>5. Clean(u, s, w, A)
  BY <1>3, <1>4 DEF Clean
<1>6. /\ Narrows(u, v) /\ v.refs = u.refs /\ v.es = u.es /\ v.key = u.key
      /\ v.debounce = u.debounce /\ v.backoff = u.backoff
      /\ ~v.poll /\ v.status = "open"
  BY <1>4, MarkConnectedActs
<1> HIDE DEF v
<1>7. Clean(v, s, w, A) /\ v \in Clients
  BY <1>5, <1>6, NarrowsClean DEF Narrows
<1>8. /\ Narrows(v, y) /\ y.refs = v.refs /\ y.es = v.es /\ y.key = v.key
      /\ y.debounce = v.debounce /\ y.backoff = v.backoff
      /\ y.poll = v.poll /\ y.status = v.status /\ y.watchdog
  BY <1>7, OnFrameActs
<1> HIDE DEF y
<1>9. Clean(y, s, w, A)
  BY <1>7, <1>8, NarrowsClean
<1>10. /\ y.refs = x.refs /\ y.es = "open" /\ y.key = x.key
       /\ y.debounce = x.debounce /\ y.backoff = x.backoff
  BY <1>2, <1>4, <1>6, <1>8 DEF Alike, Shows
<1>11. Follows(y)
  BY <1>10, SameActive DEF Sane, Follows
<1>12. Honest(y)
  BY <1>6, <1>8, <1>10 DEF Honest
<1> QED
  BY <1>1, <1>9, <1>11, <1>12 DEF Sane

\* One event leaves the wire.
LEMMA TakeEvent ==
    ASSUME NEW s \in Nat, NEW w \in [Topics -> Nat], NEW A, NEW x,
           Clean(x, s, w, A),
           x.wire # << >>, NEW y, y = [x EXCEPT !.wire = Tail(@)]
    PROVE  Clean(y, s, w, A) /\ Alike(x, y) /\ Head(x.wire) \in Events
<1> DEFINE q == Tail(x.wire)
<1>1. x \in Clients /\ x.wire \in Seq(Events)
  BY FieldTypes DEF Clean
<1>2. /\ q \in Seq(Events) /\ Head(x.wire) \in Events
      /\ \A i \in DOMAIN q : i + 1 \in DOMAIN x.wire /\ q[i] = x.wire[i + 1]
  BY <1>1
<1>3. y = [x EXCEPT !.wire = q]
  OBVIOUS
<1> HIDE DEF q
<1>4. /\ y \in Clients /\ y.snap = x.snap /\ y.wire = q /\ y.reqs = x.reqs
      /\ Alike(x, y)
  BY <1>1, <1>2, <1>3 DEF Clients, Alike, Shows
<1> QED
  BY <1>2, <1>4 DEF Clean

\* The first event on the wire is delivered.
LEMMA DeliversSane ==
    ASSUME NEW s \in Nat, NEW w \in [Topics -> Nat], NEW A, NEW x,
           Sane(x, s, w, A),
           x.es = "open", x.wire # << >>
    PROVE  Sane(SourceDelivers(x), s, w, A)
<1> DEFINE f == Head(x.wire)
           z == [x EXCEPT !.wire = Tail(@)]
<1>1. /\ Clean(z, s, w, A) /\ Alike(x, z) /\ f \in Events
      /\ x \in Clients /\ x.wire \in Seq(Events)
  <2>1. Clean(x, s, w, A)
    BY DEF Sane
  <2>2. x \in Clients /\ x.wire \in Seq(Events)
    BY <2>1, FieldTypes DEF Clean
  <2> QED
    BY <2>1, <2>2, TakeEvent
<1>2. Sane(z, s, w, A) /\ z \in Clients
  BY <1>1, AlikeSane DEF Clean
<1>3. f.topic \in Topics /\ (f.kind = "data" => f.data \in Data)
  BY <1>1 DEF Events
<1>4. f.kind = "data" => Known(f.data, s, w[f.topic])
  <2>1. 1 \in DOMAIN x.wire /\ f = x.wire[1]
    BY <1>1
  <2> QED
    BY <2>1 DEF Sane, Clean
<1>5. \/ SourceDelivers(x) = ApplyTopicError(OnFrame(z), f.topic)
      \/ /\ f.kind = "data" /\ x.refs[f.topic] > 0
         /\ SourceDelivers(x) =
              OnFrame(ApplyTopicData(MarkConnected(z), f.topic, f.data))
      \/ SourceDelivers(x) = [z EXCEPT !.missed = @ \union {f.topic}]
  BY DEF SourceDelivers
<1> HIDE DEF f, z
<1>6. CASE SourceDelivers(x) = ApplyTopicError(OnFrame(z), f.topic)
  <2> DEFINE v == OnFrame(z)
             y == ApplyTopicError(v, f.topic)
  <2>1. Sane(v, s, w, A)
    BY <1>2, OnFrameSane
  <2> HIDE DEF v
  <2>2. Clean(y, s, w, A) /\ Alike(v, y)
    BY <1>3, <2>1, ApplyErrorActs DEF Sane
  <2> HIDE DEF y
  <2>3. Sane(y, s, w, A)
    BY <2>1, <2>2, AlikeSane
  <2> QED
    BY <1>6, <2>3 DEF y, v
<1>7. CASE /\ f.kind = "data" /\ x.refs[f.topic] > 0
           /\ SourceDelivers(x) =
                OnFrame(ApplyTopicData(MarkConnected(z), f.topic, f.data))
  <2> DEFINE v == MarkConnected(z)
             u == ApplyTopicData(v, f.topic, f.data)
             y == OnFrame(u)
  <2>1. /\ Narrows(z, v) /\ v.refs = z.refs /\ v.es = z.es /\ v.key = z.key
        /\ v.debounce = z.debounce /\ v.backoff = z.backoff
        /\ ~v.poll /\ v.status = "open"
    BY <1>2, MarkConnectedActs
  <2> HIDE DEF v
  <2>2. Clean(v, s, w, A)
    BY <1>1, <2>1, NarrowsClean
  <2>3. Clean(u, s, w, A) /\ Alike(v, u)
    BY <1>3, <1>4, <1>7, <2>2, ApplyDataActs
  <2> HIDE DEF u
  <2>4. u \in Clients
    BY <2>3 DEF Clean
  <2>5. /\ Narrows(u, y) /\ y.refs = u.refs /\ y.es = u.es /\ y.key = u.key
        /\ y.debounce = u.debounce /\ y.backoff = u.backoff
        /\ y.poll = u.poll /\ y.status = u.status /\ y.watchdog
    BY <2>4, OnFrameActs
  <2> HIDE DEF y
  <2>6. Clean(y, s, w, A)
    BY <2>3, <2>5, NarrowsClean
  <2>7. /\ y.refs = z.refs /\ y.es = z.es /\ y.key = z.key
        /\ y.debounce = z.debounce /\ y.backoff = z.backoff
        /\ ~y.poll /\ y.status = "open"
    BY <2>1, <2>3, <2>5 DEF Alike, Shows
  <2>8. z.es = "open"
    BY <1>1 DEF Alike, Shows
  <2>9. Follows(y)
    BY <1>2, <2>7, <2>8, SameActive DEF Sane, Follows
  <2>10. Honest(y)
    BY <2>5, <2>7, <2>8 DEF Honest
  <2>11. Sane(y, s, w, A)
    BY <2>6, <2>9, <2>10 DEF Sane
  <2> QED
    BY <1>7, <2>11 DEF y, u, v
<1>8. CASE SourceDelivers(x) = [z EXCEPT !.missed = @ \union {f.topic}]
  <2> DEFINE m == z.missed \union {f.topic}
             y == [z EXCEPT !.missed = m]
  <2>1. m \in SUBSET Topics
    BY <1>2, <1>3, FieldTypes
  <2> HIDE DEF m
  <2>2. /\ y \in Clients /\ y.snap = z.snap /\ y.wire = z.wire
        /\ y.reqs = z.reqs /\ Alike(z, y)
    BY <1>2, <2>1 DEF Clients, Alike, Shows
  <2> HIDE DEF y
  <2>3. Clean(y, s, w, A)
    BY <1>1, <2>2 DEF Clean
  <2>4. Sane(y, s, w, A)
    BY <1>2, <2>2, <2>3, AlikeSane
  <2> QED
    BY <1>8, <2>4 DEF y, m
<1> QED
  BY <1>5, <1>6, <1>7, <1>8

\* The source reports an error: the browser retries, or a rebuild is due.
LEMMA FailsSane ==
    ASSUME NEW s \in Nat, NEW w \in [Topics -> Nat], NEW A, NEW x,
           Sane(x, s, w, A),
           x.es # "none", NEW closed \in BOOLEAN,
           NEW r \in Slots, r \notin A, NEW k \in Nat, k = 0 \/ k > s
    PROVE  Sane(SourceFails(x, closed, r, k), s, w, A)
<1> DEFINE f == IF x.fails > Threshold THEN x.fails ELSE x.fails + 1
           e == << >>
           to == IF closed THEN "none" ELSE "connecting"
           st == IF x.status = "polling" THEN x.status ELSE "reconnecting"
           y == [x EXCEPT !.fails = f, !.wire = e, !.missed = {},
                          !.es = to, !.status = st]
           n == NextGeneration(y)
           g == [n EXCEPT !.inflight = NoSlot]
           h == IF f = 1 THEN PollOnce(g, r, k) ELSE g
           p == [h EXCEPT !.backoff = TRUE]
           z == IF closed THEN p ELSE y
           v == IF f > Threshold THEN StartPollingIfNeeded(z, r, k) ELSE z
<1>1. SourceFails(x, closed, r, k) = v
  BY DEF SourceFails
<1>2. /\ x \in Clients /\ f \in Nat /\ e \in Seq(Events) /\ st \in Statuses
      /\ to \in {"none", "connecting"}
      /\ st # "open" /\ (st = "polling" <=> x.status = "polling")
  BY FieldTypes DEF Sane, Clean, Statuses
<1>3. /\ (~closed => to = "connecting") /\ (closed => to = "none") /\ e = << >>
  OBVIOUS
<1> HIDE DEF f, e, st, to
<1>4. /\ y \in Clients /\ y.snap = x.snap /\ y.wire = e /\ y.reqs = x.reqs
      /\ y.refs = x.refs /\ y.es = to /\ y.key = x.key
      /\ y.debounce = x.debounce /\ y.backoff = x.backoff
      /\ y.poll = x.poll /\ y.status = st
  BY <1>2 DEF Clients
<1> HIDE DEF y
<1>5. Narrows(x, y)
  BY <1>3, <1>4 DEF Narrows
<1>6. Clean(y, s, w, A)
  BY <1>5, NarrowsClean DEF Sane
<1>7. Narrows(y, n) /\ Alike(y, n)
  BY <1>4, OutdateActs DEF NextGeneration
<1> HIDE DEF n
<1>8. Clean(n, s, w, A) /\ n \in Clients
  BY <1>6, <1>7, NarrowsClean DEF Narrows
<1>9. /\ g \in Clients /\ g.snap = n.snap /\ g.wire = n.wire /\ g.reqs = n.reqs
      /\ Alike(n, g)
  BY <1>8 DEF Clients, Alike, Shows
<1> HIDE DEF g
<1>10. Clean(g, s, w, A)
  BY <1>8, <1>9 DEF Clean
<1>11. Clean(h, s, w, A) /\ Alike(g, h)
  BY <1>10, PollOnceActs DEF Alike, Shows
<1> HIDE DEF h
<1>12. h \in Clients
  BY <1>11 DEF Clean
<1>13. /\ p \in Clients /\ p.snap = h.snap /\ p.wire = h.wire /\ p.reqs = h.reqs
       /\ p.refs = h.refs /\ p.es = h.es /\ p.key = h.key
       /\ p.debounce = h.debounce /\ p.backoff
       /\ p.poll = h.poll /\ p.status = h.status
  BY <1>12 DEF Clients
<1> HIDE DEF p
<1>14. Clean(p, s, w, A)
  BY <1>11, <1>13 DEF Clean
<1>15. /\ p.refs = y.refs /\ p.es = y.es /\ p.key = y.key
       /\ p.debounce = y.debounce /\ p.poll = y.poll /\ p.status = y.status
  BY <1>7, <1>9, <1>11, <1>13 DEF Alike, Shows
<1>16. /\ Clean(z, s, w, A) /\ z.refs = x.refs /\ z.es = to /\ z.key = x.key
       /\ z.debounce = x.debounce /\ (closed => z.backoff)
       /\ (~closed => z.backoff = x.backoff)
       /\ z.poll = x.poll /\ z.status = st
  BY <1>4, <1>6, <1>13, <1>14, <1>15
<1> HIDE DEF z
<1>17. z.poll <=> z.status = "polling"
  BY <1>2, <1>16 DEF Sane, Honest
<1>18. Follows(z)
  <2>1. ActiveTopics(z) = ActiveTopics(x)
    BY <1>16, SameActive
  <2>2. ~x.debounce => ActiveTopics(x) # {} /\ (x.backoff \/ x.key = ActiveTopics(x))
    BY DEF Sane, Follows
  <2> QED
    BY <1>3, <1>16, <2>1, <2>2 DEF Follows
<1>19. Sane(z, s, w, A)
  BY <1>2, <1>16, <1>17, <1>18 DEF Sane, Honest
<1>20. CASE f > Threshold
  <2> DEFINE u == StartPollingIfNeeded(z, r, k)
  <2>1. /\ Clean(u, s, w, A) /\ u.refs = z.refs /\ u.es = z.es /\ u.key = z.key
        /\ u.debounce = z.debounce /\ u.backoff = z.backoff
        /\ u.poll /\ u.status = "polling"
    BY <1>16, <1>17, StartPollingActs
  <2>2. v = u
    BY <1>20
  <2> HIDE DEF u, v
  <2>3. ActiveTopics(u) = ActiveTopics(z)
    BY <2>1, SameActive
  <2>4. ~z.debounce => ActiveTopics(z) # {}
    <3>1. ActiveTopics(z) = ActiveTopics(x)
      BY <1>16, SameActive
    <3> QED
      BY <3>1, <1>16 DEF Sane, Follows
  <2>5. Follows(u)
    BY <1>18, <2>1, <2>3, <2>4 DEF Follows
  <2>6. Honest(u)
    BY <2>1 DEF Honest
  <2> QED
    BY <1>1, <2>1, <2>2, <2>5, <2>6 DEF Sane
<1>21. CASE ~(f > Threshold)
  BY <1>1, <1>19, <1>21
<1> QED
  BY <1>20, <1>21

\* A free slot speaks for nothing.
LEMMA IdleType ==
    /\ IdleRequest \in Requests /\ IdleRequest.phase = "idle"
    /\ IdleRequest.fresh = {} /\ IdleRequest.val = [t \in Topics |-> 0]
BY DEF IdleRequest, Requests

\* A request ends: the slot is free, nothing is installed.
LEMMA FreeSlotActs ==
    ASSUME NEW s \in Nat, NEW w \in [Topics -> Nat], NEW A, NEW x,
           Clean(x, s, w, A), NEW r \in Slots, NEW y, y = FreeSlot(x, r)
    PROVE  Clean(y, s, w, A \ {r}) /\ Alike(x, y) /\ y.snap = x.snap
<1> DEFINE f == [x.reqs EXCEPT ![r] = IdleRequest]
           n == IF x.inflight = r THEN NoSlot ELSE x.inflight
<1>1. y = [x EXCEPT !.reqs = f, !.inflight = n] /\ x \in Clients
  BY DEF FreeSlot, Clean
<1>2. /\ f \in [Slots -> Requests] /\ f[r] = IdleRequest
      /\ \A p \in Slots : p # r => f[p] = x.reqs[p]
  BY <1>1, IdleType, FieldTypes
<1>3. n \in Slots \cup {NoSlot}
  BY <1>1, FieldTypes
<1> HIDE DEF f, n
<1>4. /\ y \in Clients /\ y.snap = x.snap /\ y.wire = x.wire /\ y.reqs = f
      /\ Alike(x, y)
  BY <1>1, <1>2, <1>3 DEF Clients, Alike, Shows
<1>5. ASSUME NEW p \in Slots PROVE Timely(f[p], x.snap, s, w)
  <2>1. CASE p = r
    BY <2>1, <1>2, IdleType DEF Timely
  <2>2. CASE p # r
    BY <2>2, <1>2 DEF Clean
  <2> QED
    BY <2>1, <2>2
<1>6. \A p \in Slots \cap (A \ {r}) : f[p].phase = "answered"
  BY <1>2 DEF Clean
<1>7. Clean(y, s, w, A \ {r})
  BY <1>4, <1>5, <1>6 DEF Clean
<1> QED
  BY <1>4, <1>7

\* An answer that arrives installs, for the topics it still speaks for, data
\* no older than what they show.
LEMMA ArrivesSane ==
    ASSUME NEW s \in Nat, NEW w \in [Topics -> Nat], NEW A, NEW x,
           Sane(x, s, w, A), NEW r \in Slots, x.reqs[r].phase = "answered",
           NEW y, y = SnapshotArrives(x, r)
    PROVE  /\ Sane(y, s, w, A \ {r})
           /\ \A t \in Topics : y.snap[t].data.v >= x.snap[t].data.v
<1> DEFINE q == x.reqs[r]
           T == {t \in q.fresh : q.val[t] > 0 /\ x.refs[t] > 0}
           o == Outdate(x, T)
           n(t) == [data |-> [v |-> q.val[t], sess |-> q.sess], stale |-> FALSE]
           p == [t \in Topics |-> IF t \in T THEN n(t) ELSE x.snap[t]]
           m == o.missed \ T
           z == [o EXCEPT !.missed = m, !.snap = p]
           u == IF T # {} THEN OnFrame(z) ELSE x
<1>1. y = FreeSlot(u, r) /\ x \in Clients /\ Clean(x, s, w, A)
  BY DEF SnapshotArrives, Sane, Clean
<1>2. /\ q \in Requests /\ Timely(q, x.snap, s, w) /\ q.phase = "answered"
      /\ x.snap \in [Topics -> Snapshots]
  BY <1>1, FieldTypes DEF Clean
<1>3. T \subseteq q.fresh /\ T \subseteq Topics
  BY <1>2 DEF Requests
<1> HIDE DEF q, T
<1>4. q.sess \in Nat /\ \A t \in Topics : q.val[t] \in Nat
  BY <1>2 DEF Requests
<1>5. ASSUME NEW t \in Topics
      PROVE  /\ n(t) \in Snapshots
             /\ n(t).data.v = q.val[t] /\ n(t).data.sess = q.sess
  BY <1>4 DEF Snapshots, Data
<1> HIDE DEF n
<1>6. /\ p \in [Topics -> Snapshots]
      /\ \A t \in Topics : p[t] = IF t \in T THEN n(t) ELSE x.snap[t]
  BY <1>2, <1>5
<1> HIDE DEF p
<1>7. ASSUME NEW t \in Topics
      PROVE  Known(p[t].data, s, w[t]) /\ p[t].data.v >= x.snap[t].data.v
  <2>1. CASE t \in T
    <3>1. q.sess > s /\ q.val[t] <= w[t] /\ x.snap[t].data.v <= q.val[t]
      BY <2>1, <1>2, <1>3 DEF Timely
    <3>2. p[t].data.v = q.val[t] /\ p[t].data.sess = q.sess
      BY <2>1, <1>5, <1>6
    <3>3. x.snap[t].data.v \in Nat
      BY <1>2 DEF Snapshots, Data
    <3> QED
      BY <3>1, <3>2, <3>3, <1>4 DEF Known
  <2>2. CASE t \notin T
    <3>1. p[t] = x.snap[t] /\ Known(x.snap[t].data, s, w[t])
      BY <2>2, <1>1, <1>6 DEF Clean
    <3>2. x.snap[t].data.v \in Nat
      BY <1>2 DEF Snapshots, Data
    <3> QED
      BY <3>1, <3>2
  <2> QED
    BY <2>1, <2>2
<1>8. /\ Narrows(x, o) /\ Alike(x, o)
      /\ \A k \in Slots : o.reqs[k].fresh = x.reqs[k].fresh \ T
      /\ o.snap = x.snap
  BY <1>1, OutdateActs
<1> HIDE DEF o
<1>9. Clean(o, s, w, A) /\ o \in Clients
  BY <1>1, <1>8, NarrowsClean DEF Narrows
<1>10. m \in SUBSET Topics
  BY <1>9, FieldTypes
<1> HIDE DEF m
<1>11. /\ z \in Clients /\ z.snap = p /\ z.wire = o.wire /\ z.reqs = o.reqs
       /\ Alike(o, z)
  BY <1>6, <1>9, <1>10 DEF Clients, Alike, Shows
<1> HIDE DEF z
<1>12. ASSUME NEW k \in Slots PROVE Timely(o.reqs[k], p, s, w)
  <2>1. Timely(o.reqs[k], x.snap, s, w)
    BY <1>8, <1>9 DEF Clean
  <2>2. o.reqs[k].fresh \cap T = {}
    BY <1>8
  <2> QED
    BY <2>1, <2>2, <1>6 DEF Timely
<1>13. Clean(z, s, w, A)
  BY <1>7, <1>9, <1>11, <1>12 DEF Clean
<1>14. Alike(x, z)
  BY <1>8, <1>11 DEF Alike, Shows
<1>15. Sane(z, s, w, A)
  BY <1>13, <1>14, AlikeSane
<1>16. Sane(u, s, w, A) /\ (u.snap = p \/ u.snap = x.snap)
  <2>1. Sane(OnFrame(z), s, w, A) /\ OnFrame(z).snap = z.snap
    BY <1>11, <1>15, OnFrameSane, OnFrameActs
  <2> QED
    BY <1>11, <2>1
<1> HIDE DEF u
<1>17. Clean(y, s, w, A \ {r}) /\ Alike(u, y) /\ y.snap = u.snap
  BY <1>1, <1>16, FreeSlotActs DEF Sane
<1>18. Sane(y, s, w, A \ {r})
  BY <1>16, <1>17, SameActive DEF Sane, Follows, Honest, Alike, Shows
<1>19. \A t \in Topics : x.snap[t].data.v >= x.snap[t].data.v
  BY <1>2 DEF Snapshots, Data
<1> QED
  BY <1>7, <1>16, <1>17, <1>18, <1>19

\* reset(): whatever session ends, nothing of it is left.
LEMMA ResetSane ==
    ASSUME NEW s \in Nat, NEW w \in [Topics -> Nat], NEW A, NEW x,
           Sane(x, s, w, A), NEW k \in Nat
    PROVE  Sane(Reset(x), k, w, A)
<1> DEFINE o == Outdate(x, Topics)
           e == CloseEventSource(o)
           p == [t \in Topics |-> EmptySnapshot]
           y == [StopPolling(e) EXCEPT
                   !.debounce = FALSE, !.backoff = FALSE, !.watchdog = FALSE,
                   !.fails = 0, !.key = {}, !.status = "closed",
                   !.stale = FALSE, !.snap = p]
           d == ScheduleRebuild(y)
<1>1. /\ Reset(x) = IF ActiveTopics(y) # {} THEN d ELSE y
      /\ x \in Clients
  BY DEF Reset, NextGeneration, Sane, Clean
<1>2. /\ Narrows(x, o) /\ Alike(x, o)
      /\ \A r \in Slots : o.reqs[r].fresh = x.reqs[r].fresh \ Topics
  BY <1>1, OutdateActs
<1> HIDE DEF o
<1>3. o \in Clients /\ Clean(o, s, w, A)
  BY <1>2, NarrowsClean DEF Narrows, Sane
<1>4. \A r \in Slots : o.reqs[r].fresh = {}
  BY <1>1, <1>2, FieldTypes DEF Requests
<1>5. /\ e \in Clients /\ e.snap = o.snap /\ e.wire = << >> /\ e.reqs = o.reqs
      /\ e.refs = o.refs /\ e.es = "none"
  BY <1>3, CloseEventSourceActs
<1> HIDE DEF e
<1>6. /\ EmptySnapshot \in Snapshots /\ EmptySnapshot.data.v = 0
      /\ p \in [Topics -> Snapshots] /\ \A t \in Topics : p[t] = EmptySnapshot
  BY DEF EmptySnapshot, NoData, Snapshots, Data
<1> HIDE DEF p
<1>7. /\ y \in Clients /\ y.snap = p /\ y.wire = e.wire /\ y.reqs = e.reqs
      /\ y.es = e.es /\ ~y.poll /\ y.status = "closed"
  BY <1>5, <1>6 DEF Clients, Statuses, StopPolling
<1> HIDE DEF y
<1>8. /\ d \in Clients /\ d.snap = y.snap /\ d.wire = y.wire /\ d.reqs = y.reqs
      /\ d.es = y.es /\ ~d.poll /\ d.status = "closed" /\ d.debounce
  BY <1>7 DEF Clients, ScheduleRebuild
<1> HIDE DEF d
<1>9. ASSUME NEW r \in Slots PROVE Timely(o.reqs[r], p, k, w)
  BY <1>3, <1>4 DEF Timely, Clean
<1>10. ASSUME NEW t \in Topics PROVE Known(p[t].data, k, w[t])
  <2>1. p[t].data.v = 0 /\ w[t] \in Nat
    BY <1>6
  <2> QED
    BY <2>1 DEF Known
<1>11. \A r \in Slots \cap A : o.reqs[r].phase = "answered"
  BY <1>3 DEF Clean
<1>12. Clean(y, k, w, A)
  BY <1>5, <1>7, <1>9, <1>10, <1>11 DEF Clean
<1>13. Clean(d, k, w, A)
  BY <1>8, <1>12 DEF Clean
<1> QED
  BY <1>1, <1>5, <1>7, <1>8, <1>12, <1>13 DEF Sane, Follows, Honest

\* The hub answers a request with what it holds.
LEMMA AnswerSane ==
    ASSUME NEW s \in Nat, NEW w \in [Topics -> Nat], NEW A, NEW x,
           Sane(x, s, w, A), NEW r \in Slots, x.reqs[r].phase = "sent",
           x.reqs[r].sess > s,
           NEW v, v = [t \in Topics |-> IF t \in x.reqs[r].ask THEN w[t] ELSE 0],
           NEW y, y = [x EXCEPT !.reqs[r].phase = "answered", !.reqs[r].val = v]
    PROVE  Sane(y, s, w, A)
<1> DEFINE q == x.reqs[r]
           a == [q EXCEPT !.phase = "answered", !.val = v]
           f == [x.reqs EXCEPT ![r] = a]
<1>1. x \in Clients /\ Clean(x, s, w, A)
  BY DEF Sane, Clean
<1>2. x.reqs \in [Slots -> Requests] /\ x.snap \in [Topics -> Snapshots]
  BY <1>1, FieldTypes
<1>3. q \in Requests /\ Timely(q, x.snap, s, w)
  BY <1>1, <1>2 DEF Clean
<1>4. y = [x EXCEPT !.reqs = f]
  BY <1>1, <1>2 DEF Clients
<1>5. /\ v \in [Topics -> Nat]
      /\ \A t \in Topics : v[t] <= w[t] /\ (t \in q.ask => v[t] = w[t])
  OBVIOUS
<1> HIDE DEF q
<1>6. /\ a \in Requests /\ a.phase = "answered" /\ a.ask = q.ask
      /\ a.fresh = q.fresh /\ a.sess = q.sess /\ a.val = v
  BY <1>3, <1>5 DEF Requests
<1> HIDE DEF a
<1>7. /\ f \in [Slots -> Requests] /\ f[r] = a
      /\ \A p \in Slots : p # r => f[p] = x.reqs[p]
  BY <1>2, <1>6
<1> HIDE DEF f
<1>8. /\ y \in Clients /\ y.snap = x.snap /\ y.wire = x.wire /\ y.reqs = f
      /\ Alike(x, y)
  BY <1>1, <1>4, <1>7 DEF Clients, Alike, Shows
<1>9. Timely(a, x.snap, s, w)
  <2>1. q.sess > s
    BY DEF q
  <2>2. \A t \in Topics : x.snap[t].data.v <= w[t]
    BY <1>1 DEF Clean, Known
  <2> QED
    BY <1>3, <1>5, <1>6, <2>1, <2>2 DEF Timely
<1>10. ASSUME NEW p \in Slots PROVE Timely(f[p], x.snap, s, w)
  <2>1. CASE p = r
    BY <2>1, <1>7, <1>9
  <2>2. CASE p # r
    BY <2>2, <1>1, <1>7 DEF Clean
  <2> QED
    BY <2>1, <2>2
<1>11. \A p \in Slots \cap A : f[p].phase = "answered"
  BY <1>1, <1>6, <1>7 DEF Clean
<1>12. Clean(y, s, w, A)
  BY <1>1, <1>8, <1>10, <1>11 DEF Clean
<1> QED
  BY <1>8, <1>12, AlikeSane

\* The hub holds newer data.
LEMMA LaterSane ==
    ASSUME NEW s \in Nat, NEW w \in [Topics -> Nat], NEW A, NEW x,
           Sane(x, s, w, A), NEW n \in [Topics -> Nat],
           \A t \in Topics : w[t] <= n[t]
    PROVE  Sane(x, s, n, A)
<1>1. x \in Clients /\ Clean(x, s, w, A)
  BY DEF Sane, Clean
<1>2. ASSUME NEW d \in Data, NEW t \in Topics, Known(d, s, w[t])
      PROVE  Known(d, s, n[t])
  BY <1>2 DEF Known, Data
<1>3. \A t \in Topics : x.snap[t].data \in Data
  BY <1>1, FieldTypes DEF Snapshots
<1>4. \A t \in Topics : Known(x.snap[t].data, s, n[t])
  BY <1>1, <1>2, <1>3 DEF Clean
<1>5. ASSUME NEW r \in Slots PROVE Timely(x.reqs[r], x.snap, s, n)
  <2>1. Timely(x.reqs[r], x.snap, s, w)
    BY <1>1 DEF Clean
  <2>2. \A t \in Topics : x.reqs[r].val[t] \in Nat
    <3>1. x.reqs[r] \in Requests
      BY <1>1, FieldTypes
    <3> QED
      BY <3>1 DEF Requests
  <2> QED
    BY <2>1, <2>2 DEF Timely
<1>6. ASSUME NEW i \in DOMAIN x.wire, x.wire[i].kind = "data"
      PROVE  Known(x.wire[i].data, s, n[x.wire[i].topic])
  <2>1. x.wire[i] \in Events
    BY <1>1, FieldTypes
  <2>2. x.wire[i].data \in Data /\ x.wire[i].topic \in Topics
    BY <1>6, <2>1 DEF Events
  <2> QED
    BY <1>1, <1>2, <1>6, <2>2 DEF Clean
<1>7. Clean(x, s, n, A)
  BY <1>1, <1>4, <1>5, <1>6 DEF Clean
<1> QED
  BY <1>7 DEF Sane

\* An event is queued for the source.
LEMMA QueueSane ==
    ASSUME NEW s \in Nat, NEW w \in [Topics -> Nat], NEW A, NEW x,
           Sane(x, s, w, A), NEW e \in Events,
           e.kind = "data" => Known(e.data, s, w[e.topic]) /\ e.data.sess > s,
           NEW y, y = [x EXCEPT !.wire = Append(@, e)]
    PROVE  Sane(y, s, w, A)
<1> DEFINE q == Append(x.wire, e)
<1>1. x \in Clients /\ Clean(x, s, w, A)
  BY DEF Sane, Clean
<1>2. x.wire \in Seq(Events)
  BY <1>1, FieldTypes
<1>3. /\ q \in Seq(Events)
      /\ \A i \in DOMAIN q : q[i] = e \/ (i \in DOMAIN x.wire /\ q[i] = x.wire[i])
  BY <1>2
<1>4. y = [x EXCEPT !.wire = q]
  OBVIOUS
<1> HIDE DEF q
<1>5. /\ y \in Clients /\ y.snap = x.snap /\ y.wire = q /\ y.reqs = x.reqs
      /\ Alike(x, y)
  BY <1>1, <1>3, <1>4 DEF Clients, Alike, Shows
<1>6. Clean(y, s, w, A)
  BY <1>1, <1>3, <1>5 DEF Clean
<1> QED
  BY <1>5, <1>6, AlikeSane

(***************************************************************************)
(* The tab as a whole.                                                     *)
(***************************************************************************)

\* What the constants are assumed to be.
LEMMA SseFacts ==
    Topics # {} /\ 0 \notin Slots /\ Stats \in Topics /\ IsFiniteSet(Topics)
BY SseAssumption, PanelSessionAssumption

\* A new client has nothing to be wrong about.
LEMMA NewClientSane ==
    ASSUME NEW w \in [Topics -> Nat] PROVE Sane(NewClient, 0, w, {})
<1> DEFINE z == [t \in Topics |-> 0]
           p == [t \in Topics |-> EmptySnapshot]
           q == [r \in Slots |-> IdleRequest]
           e == << >>
           y == NewClient
<1>1. z \in [Topics -> Nat] /\ e \in Seq(Events) /\ DOMAIN e = {}
  OBVIOUS
<1>2. /\ EmptySnapshot \in Snapshots /\ EmptySnapshot.data.v = 0
      /\ p \in [Topics -> Snapshots] /\ \A t \in Topics : p[t] = EmptySnapshot
  BY DEF EmptySnapshot, NoData, Snapshots, Data
<1>3. q \in [Slots -> Requests] /\ \A r \in Slots : q[r] = IdleRequest
  BY IdleType
<1>4. y = [refs |-> z, snap |-> p, es |-> "none", opened |-> FALSE, wire |-> e,
           key |-> {}, fails |-> 0, status |-> "closed", stale |-> FALSE,
           debounce |-> FALSE, backoff |-> FALSE, watchdog |-> FALSE,
           poll |-> FALSE, inflight |-> NoSlot, reqs |-> q, missed |-> {}]
  BY DEF NewClient
<1>5. \A t \in Topics : z[t] = 0
  OBVIOUS
<1> HIDE DEF z, p, q, e, y
<1>6. /\ y \in Clients /\ y.snap = p /\ y.wire = e /\ y.reqs = q /\ y.refs = z
      /\ y.es = "none" /\ ~y.poll /\ y.status = "closed"
  BY <1>1, <1>2, <1>3, <1>4 DEF Clients, Statuses
<1>7. ASSUME NEW t \in Topics PROVE Known(p[t].data, 0, w[t])
  <2>1. p[t].data.v = 0 /\ w[t] \in Nat
    BY <1>2
  <2> QED
    BY <2>1 DEF Known
<1>8. ASSUME NEW r \in Slots PROVE Timely(q[r], p, 0, w)
  BY <1>3, IdleType DEF Timely
<1>9. Clean(y, 0, w, {})
  BY <1>1, <1>6, <1>7, <1>8 DEF Clean
<1>10. ActiveTopics(y) = {}
  BY <1>5, <1>6 DEF ActiveTopics
<1>11. Follows(y) /\ Honest(y)
  BY <1>6, <1>10 DEF Follows, Honest
<1> QED
  BY <1>9, <1>11 DEF Sane, y

\* The invariant holds at the start.
LEMMA InvInit == Init => Inv
<1> SUFFICES ASSUME Init PROVE Inv
  OBVIOUS
<1>1. srv \in [Topics -> Nat]
  BY DEF Init
<1>2. Sane(NewClient, 0, srv, {})
  BY <1>1, NewClientSane
<1>3. Sane(c, 0, srv, {})
  BY <1>1, <1>2, SubscribeSane, SseFacts DEF Init
<1>4. Sessions /\ signedOut = 0
  <2>1. MaxVisits \in Nat /\ MaxFaults \in Nat /\ MaxNews \in Nat
    BY PanelSessionAssumption
  <2> QED
    BY <1>1, <2>1 DEF Init, Sessions
<1> QED
  BY <1>3, <1>4 DEF Inv, Sane

\* The requests whose answers are on their way.
Answered == {r \in Slots : c.reqs[r].phase = "answered"}

\* The invariant, as the lemmas on the operators take it.
LEMMA InvSane ==
    ASSUME Inv
    PROVE  /\ Sane(c, signedOut, srv, Answered) /\ c \in Clients
           /\ signedOut \in Nat /\ srv \in [Topics -> Nat] /\ cookie \in Nat
           /\ cookie = 0 \/ cookie > signedOut
           /\ valid => cookie > signedOut
BY DEF Inv, Sane, Clean, Sessions, Answered

\* Fewer requests are claimed to be answered.
LEMMA SaneFewer ==
    ASSUME NEW s, NEW w, NEW A, NEW B, B \subseteq A, NEW x, Sane(x, s, w, A)
    PROVE  Sane(x, s, w, B)
BY DEF Sane, Clean

\* The greeting of a new stream is what the hub holds, under the session the
\* stream was authorised with.
LEMMA GreetingIsClean ==
    ASSUME Inv, Reachable
    PROVE  /\ Greeting \in Seq(Events)
           /\ \A i \in DOMAIN Greeting : Greeting[i].kind = "data" =>
                 /\ Known(Greeting[i].data, signedOut, srv[Greeting[i].topic])
                 /\ Greeting[i].data.sess > signedOut
<1> DEFINE o == SetToSeq(c.key)
           n == Cardinality(c.key)
           e(i) == [kind |-> "data", topic |-> o[i],
                    data |-> [v |-> srv[o[i]], sess |-> cookie]]
<1>1. c.key \in SUBSET Topics
  BY InvSane, FieldTypes
<1>2. IsFiniteSet(c.key)
  BY <1>1, SseFacts, FS_Subset
<1>3. n \in Nat /\ \E f \in [1..n -> c.key] : IsInjective(f)
  BY <1>2, FS_CardinalityType DEF ExistsBijection, Bijection, Injection
<1>4. o \in [1..n -> c.key]
  BY <1>3 DEF SetToSeq
<1>5. Greeting = [i \in 1..n |-> e(i)]
  BY <1>4 DEF Greeting
<1> HIDE DEF o, n
<1>6. ASSUME NEW i \in 1..n
      PROVE  /\ e(i) \in Events /\ e(i).topic = o[i]
             /\ e(i).data.v = srv[o[i]] /\ e(i).data.sess = cookie
  <2>1. o[i] \in Topics /\ srv[o[i]] \in Nat /\ cookie \in Nat
    BY <1>1, <1>4, InvSane
  <2> HIDE DEF o
  <2> QED
    BY <2>1 DEF Events, Data
<1>7. ASSUME NEW i \in 1..n
      PROVE  Known(e(i).data, signedOut, srv[e(i).topic]) /\ e(i).data.sess > signedOut
  <2>1. o[i] \in Topics /\ srv[o[i]] \in Nat /\ cookie > signedOut
    BY <1>1, <1>4, InvSane DEF Reachable
  <2> QED
    BY <2>1, <1>6 DEF Known
<1> HIDE DEF e
<1> QED
  BY <1>3, <1>5, <1>6, <1>7

\* A step keeps the client sane and takes no answer away, or ends one request
\* and sets no topic back.
Kept == Sane(c', signedOut', srv', Answered)

\* Request r has ended.
Ends(r) ==
    /\ Sane(c', signedOut', srv', Answered \ {r})
    /\ \A t \in Topics : c'.snap[t].data.v >= c.snap[t].data.v

\* A step spends at most a visit or a fault of the budget.
LEMMA Spends ==
    ASSUME Sessions, Visit \/ Fault \/ Quiet
    PROVE  /\ budget' \in [visits : Nat, faults : Nat, sessions : Nat, news : Nat]
           /\ budget'.sessions = budget.sessions
BY DEF Sessions, Visit, Fault, Quiet

\* Steps that leave the session alone, or let it expire.
LEMMA SessionsKept ==
    ASSUME Sessions, Visit \/ Fault \/ Quiet, cookie' = cookie,
           signedOut' = signedOut, srv' = srv,
           valid' = valid \/ valid' = FALSE
    PROVE  Sessions'
<1>1. /\ budget' \in [visits : Nat, faults : Nat, sessions : Nat, news : Nat]
      /\ budget'.sessions = budget.sessions
  BY Spends
<1>2. valid' \in BOOLEAN /\ (valid' => cookie # 0)
  <2>1. CASE valid' = valid
    BY <2>1 DEF Sessions
  <2>2. CASE valid' = FALSE
    BY <2>2
  <2> QED
    BY <2>1, <2>2
<1> QED
  BY <1>1, <1>2 DEF Sessions

\* The components' side, the timers and the fallback.
LEMMA ClientSteps ==
    ASSUME Inv,
           \/ \E t \in Topics : Mount(t) \/ Unmount(t) \/ PressRefresh(t)
           \/ PressRetry \/ Debounce \/ Backoff \/ Watchdog \/ Poll
    PROVE  Sessions' /\ Kept
<1>1. /\ Sane(c, signedOut, srv, Answered) /\ c \in Clients
      /\ signedOut \in Nat /\ srv \in [Topics -> Nat] /\ cookie \in Nat
      /\ cookie = 0 \/ cookie > signedOut
  BY InvSane
<1>2. UNCHANGED world /\ (Visit \/ Quiet)
  BY DEF Mount, Unmount, PressRefresh, PressRetry, Debounce, Backoff, Watchdog,
         Poll
<1>3. Sessions' /\ signedOut' = signedOut /\ srv' = srv
  BY <1>2, SessionsKept DEF Inv, world
<1>4. ASSUME NEW t \in Topics, Mount(t)  PROVE Kept
  <2>1. c' = SubscribeTopic(c, t)
    BY <1>4 DEF Mount
  <2> QED
    BY <1>1, <1>3, <2>1, SubscribeSane DEF Kept
<1>5. ASSUME NEW t \in Topics, Unmount(t)  PROVE Kept
  <2>1. c' = UnsubscribeTopic(c, t) /\ c.refs[t] > (IF t = Stats THEN 1 ELSE 0)
    BY <1>5 DEF Unmount
  <2>2. c.refs[t] \in Nat
    BY <1>1, FieldTypes
  <2>3. c.refs[t] > 0
    BY <2>1, <2>2
  <2> QED
    BY <1>1, <1>3, <2>1, <2>3, UnsubscribeSane DEF Kept
<1>6. ASSUME NEW r \in FreeSlots(c)  PROVE r \in Slots /\ r \notin Answered
  BY DEF FreeSlots, Answered
<1>7. ASSUME NEW t \in Topics, PressRefresh(t)  PROVE Kept
  <2>1. PICK r \in FreeSlots(c) : c' = RefreshTopic(c, t, r, cookie)
    BY <1>7 DEF PressRefresh
  <2>2. c' = SendSnapshotRequest(c, {t}, r, cookie)
    BY <2>1 DEF RefreshTopic
  <2>3. Clean(c', signedOut, srv, Answered) /\ Alike(c, c')
    BY <1>1, <1>6, <2>2, SendActs DEF Sane
  <2> QED
    BY <1>1, <1>3, <2>3, AlikeSane DEF Kept
<1>8. CASE PressRetry
  <2>1. c' = Retry(c)
    BY <1>8 DEF PressRetry
  <2> QED
    BY <1>1, <1>3, <2>1, RetrySane DEF Kept
<1>9. CASE Debounce
  <2>1. c' = DebounceFires(c)
    BY <1>9 DEF Debounce
  <2> QED
    BY <1>1, <1>3, <2>1, DebounceSane DEF Kept
<1>10. CASE Backoff
  <2>1. c' = RebuildNow(c, FALSE)
    BY <1>10 DEF Backoff, BackoffFires
  <2> QED
    BY <1>1, <1>3, <2>1, RebuildSane DEF Kept, Sane
<1>11. CASE Watchdog
  <2>1. c' = WatchdogFires(c)
    BY <1>11 DEF Watchdog
  <2> QED
    BY <1>1, <1>3, <2>1, WatchdogSane DEF Kept
<1>12. CASE Poll
  <2>1. PICK r \in FreeSlots(c) : c' = PollOnce(c, r, cookie)
    BY <1>12 DEF Poll, PollTick
  <2>2. Clean(c', signedOut, srv, Answered) /\ Alike(c, c')
    BY <1>1, <1>6, <2>1, PollOnceActs DEF Sane
  <2> QED
    BY <1>1, <1>3, <2>2, AlikeSane DEF Kept
<1> QED
  BY <1>3, <1>4, <1>5, <1>7, <1>8, <1>9, <1>10, <1>11, <1>12

\* The stream.
LEMMA StreamSteps ==
    ASSUME Inv,
           \/ \E t \in Topics : Publish(t) \/ SourceError(t)
           \/ Opens \/ Delivers \/ Heartbeat \/ Drops \/ LinkChanges
           \/ \E closed \in BOOLEAN : Fails(closed)
    PROVE  Sessions' /\ Kept
<1>1. /\ Sane(c, signedOut, srv, Answered) /\ c \in Clients
      /\ signedOut \in Nat /\ srv \in [Topics -> Nat] /\ cookie \in Nat
      /\ cookie = 0 \/ cookie > signedOut
      /\ valid => cookie > signedOut
      /\ Sessions
  BY InvSane DEF Inv
<1>2. ASSUME NEW t \in Topics, Publish(t)  PROVE Sessions' /\ Kept
  <2> DEFINE d == [v |-> srv[t] + 1, sess |-> cookie]
             e == [kind |-> "data", topic |-> t, data |-> d]
  <2>1. /\ srv' = [srv EXCEPT ![t] = @ + 1] /\ signedOut' = signedOut
        /\ c' = c \/ (valid /\ c' = [c EXCEPT !.wire = Append(@, e)])
    BY <1>2 DEF Publish, Streams, StreamLive
  <2>2. Sessions'
    <3>1. /\ budget' \in [visits : Nat, faults : Nat, sessions : Nat, news : Nat]
          /\ budget'.sessions = budget.sessions
      <4>1. budget.news > 0 /\ budget' = [budget EXCEPT !.news = @ - 1]
        BY <1>2 DEF Publish
      <4> QED
        BY <1>1, <4>1 DEF Sessions
    <3>2. srv' \in [Topics -> Nat]
      BY <1>1, <2>1
    <3> QED
      BY <1>1, <1>2, <3>1, <3>2 DEF Sessions, Publish
  <2>3. /\ srv' \in [Topics -> Nat] /\ srv'[t] = srv[t] + 1
        /\ \A u \in Topics : srv[u] <= srv'[u]
    BY <1>1, <2>1
  <2>4. Sane(c, signedOut, srv', Answered)
    BY <1>1, <2>3, LaterSane
  <2>5. CASE c' = c
    BY <2>1, <2>2, <2>4, <2>5 DEF Kept
  <2>6. CASE valid /\ c' = [c EXCEPT !.wire = Append(@, e)]
    <3>1. d \in Data /\ d.v = srv[t] + 1 /\ d.sess = cookie
      BY <1>1 DEF Data
    <3>2. Known(d, signedOut, srv'[t]) /\ d.sess > signedOut
      BY <1>1, <2>3, <2>6, <3>1 DEF Known
    <3> HIDE DEF d
    <3>3. e \in Events /\ e.topic = t /\ e.data = d
      BY <3>1 DEF Events
    <3> HIDE DEF e
    <3>4. Sane(c', signedOut, srv', Answered)
      BY <1>1, <2>3, <2>4, <2>6, <3>2, <3>3, QueueSane
    <3> QED
      BY <2>1, <2>2, <3>4 DEF Kept
  <2> QED
    BY <2>1, <2>2, <2>5, <2>6
<1>3. ASSUME NEW t \in Topics, SourceError(t)  PROVE Sessions' /\ Kept
  <2> DEFINE e == [kind |-> "error", topic |-> t]
  <2>1. UNCHANGED world /\ Fault /\ c' = [c EXCEPT !.wire = Append(@, e)]
    BY <1>3 DEF SourceError
  <2>2. Sessions' /\ signedOut' = signedOut /\ srv' = srv
    BY <1>1, <2>1, SessionsKept DEF world
  <2>3. e \in Events /\ e.kind = "error"
    BY DEF Events
  <2> HIDE DEF e
  <2>4. Sane(c', signedOut, srv, Answered)
    BY <1>1, <2>1, <2>3, QueueSane
  <2> QED
    BY <2>2, <2>4 DEF Kept
<1>4. CASE Opens
  <2>1. /\ c' = SourceOpens(c, Greeting) /\ c.es = "connecting" /\ Reachable
        /\ cookie' = cookie /\ signedOut' = signedOut /\ srv' = srv
        /\ valid' = valid /\ Quiet
    BY <1>4 DEF Opens
  <2>2. Sessions'
    BY <1>1, <2>1, SessionsKept
  <2>3. /\ Greeting \in Seq(Events)
        /\ \A i \in DOMAIN Greeting : Greeting[i].kind = "data" =>
              /\ Known(Greeting[i].data, signedOut, srv[Greeting[i].topic])
              /\ Greeting[i].data.sess > signedOut
    BY <2>1, GreetingIsClean
  <2>4. Sane(c', signedOut, srv, Answered)
    BY <1>1, <2>1, <2>3, OpensSane
  <2> QED
    BY <2>1, <2>2, <2>4 DEF Kept
<1>5. CASE Delivers
  <2>1. /\ UNCHANGED world /\ Quiet /\ c.es = "open" /\ c.wire # << >>
        /\ c' = SourceDelivers(c)
    BY <1>5 DEF Delivers
  <2>2. Sessions' /\ signedOut' = signedOut /\ srv' = srv
    BY <1>1, <2>1, SessionsKept DEF world
  <2> QED
    BY <1>1, <2>1, <2>2, DeliversSane DEF Kept
<1>6. CASE Heartbeat
  <2>1. UNCHANGED world /\ Quiet /\ c' = OnFrame(c)
    BY <1>6 DEF Heartbeat, SourceHeartbeat
  <2>2. Sessions' /\ signedOut' = signedOut /\ srv' = srv
    BY <1>1, <2>1, SessionsKept DEF world
  <2> QED
    BY <1>1, <2>1, <2>2, OnFrameSane DEF Kept
<1>7. ASSUME NEW r \in FreeSlots(c)  PROVE r \in Slots /\ r \notin Answered
  BY DEF FreeSlots, Answered
<1>8. CASE Drops
  <2>1. PICK r \in FreeSlots(c) : c' = SourceFails(c, FALSE, r, cookie)
    BY <1>8 DEF Drops
  <2>2. UNCHANGED world /\ Fault /\ c.es # "none"
    BY <1>8 DEF Drops
  <2>3. Sessions' /\ signedOut' = signedOut /\ srv' = srv
    BY <1>1, <2>2, SessionsKept DEF world
  <2> QED
    BY <1>1, <1>7, <2>1, <2>2, <2>3, FailsSane DEF Kept
<1>9. ASSUME NEW closed \in BOOLEAN, Fails(closed)  PROVE Sessions' /\ Kept
  <2>1. PICK r \in FreeSlots(c) : c' = SourceFails(c, closed, r, cookie)
    BY <1>9 DEF Fails
  <2>2. UNCHANGED world /\ Quiet /\ c.es # "none"
    BY <1>9 DEF Fails
  <2>3. Sessions' /\ signedOut' = signedOut /\ srv' = srv
    BY <1>1, <2>2, SessionsKept DEF world
  <2> QED
    BY <1>1, <1>7, <2>1, <2>2, <2>3, FailsSane DEF Kept
<1>10. CASE LinkChanges
  <2>1. /\ c' = c /\ cookie' = cookie /\ signedOut' = signedOut /\ srv' = srv
        /\ valid' = valid /\ Fault
    BY <1>10 DEF LinkChanges
  <2>2. Sessions'
    BY <1>1, <2>1, SessionsKept
  <2> QED
    BY <1>1, <2>1, <2>2 DEF Kept
<1> QED
  BY <1>2, <1>3, <1>4, <1>5, <1>6, <1>8, <1>9, <1>10

\* The end of a request, whatever became of it.
LEMMA FreeSlotEnds ==
    ASSUME Inv, NEW r \in Slots, c' = FreeSlot(c, r), signedOut' = signedOut,
           srv' = srv
    PROVE  Ends(r)
<1>1. /\ Sane(c, signedOut, srv, Answered) /\ c \in Clients
      /\ signedOut \in Nat /\ srv \in [Topics -> Nat]
  BY InvSane
<1>2. Clean(c', signedOut, srv, Answered \ {r}) /\ Alike(c, c') /\ c'.snap = c.snap
  BY <1>1, FreeSlotActs DEF Sane
<1>3. Sane(c', signedOut, srv, Answered \ {r})
  BY <1>1, <1>2, SameActive DEF Sane, Follows, Honest, Alike, Shows
<1>4. \A t \in Topics : c.snap[t].data.v >= c.snap[t].data.v
  <2>1. \A t \in Topics : c.snap[t] \in Snapshots
    BY <1>1, FieldTypes
  <2> QED
    BY <2>1 DEF Snapshots, Data
<1> QED
  BY <1>2, <1>3, <1>4 DEF Ends

\* Requests between the browser and the hub.
LEMMA RequestSteps ==
    ASSUME Inv, NEW r \in Slots,
           Answer(r) \/ Arrives(r) \/ FetchFails(r) \/ Denied(r)
    PROVE  Sessions' /\ (Kept \/ Ends(r))
<1>1. /\ Sane(c, signedOut, srv, Answered) /\ c \in Clients
      /\ signedOut \in Nat /\ srv \in [Topics -> Nat] /\ cookie \in Nat
      /\ valid => cookie > signedOut
      /\ Sessions
  BY InvSane DEF Inv
<1>2. /\ cookie' = cookie /\ signedOut' = signedOut /\ srv' = srv
      /\ valid' = valid /\ (Fault \/ Quiet)
  BY DEF Answer, Arrives, FetchFails, Denied, world
<1>3. Sessions'
  BY <1>1, <1>2, SessionsKept
<1>4. CASE Answer(r)
  <2> DEFINE v == [t \in Topics |-> IF t \in c.reqs[r].ask THEN srv[t] ELSE 0]
  <2>1. /\ c.reqs[r].phase = "sent" /\ c.reqs[r].sess > signedOut
        /\ c' = [c EXCEPT !.reqs[r].phase = "answered", !.reqs[r].val = v]
    BY <1>1, <1>4 DEF Answer
  <2>2. v = [t \in Topics |-> IF t \in c.reqs[r].ask THEN srv[t] ELSE 0]
    OBVIOUS
  <2> HIDE DEF v
  <2>3. Sane(c', signedOut, srv, Answered)
    BY <1>1, <2>1, <2>2, AnswerSane
  <2> QED
    BY <1>2, <1>3, <2>3 DEF Kept
<1>5. CASE Arrives(r)
  <2>1. c.reqs[r].phase = "answered" /\ c' = SnapshotArrives(c, r)
    BY <1>5 DEF Arrives
  <2> QED
    BY <1>1, <1>2, <1>3, <2>1, ArrivesSane DEF Ends
<1>6. CASE FetchFails(r) \/ Denied(r)
  <2>1. c' = FreeSlot(c, r)
    BY <1>6 DEF FetchFails, Denied
  <2> QED
    BY <1>2, <1>3, <2>1, FreeSlotEnds
<1> QED
  BY <1>4, <1>5, <1>6

\* Sessions end and begin.
LEMMA SessionSteps ==
    ASSUME Inv, Expire \/ ArriveAtLogin \/ Logout \/ Login
    PROVE  Sessions' /\ Kept
<1>1. /\ Sane(c, signedOut, srv, Answered) /\ c \in Clients
      /\ signedOut \in Nat /\ srv \in [Topics -> Nat] /\ cookie \in Nat
      /\ Sessions
  BY InvSane DEF Inv
<1>2. CASE Expire
  <2>1. /\ c' = c /\ cookie' = cookie /\ signedOut' = signedOut /\ srv' = srv
        /\ valid' = FALSE /\ Fault
    BY <1>2 DEF Expire
  <2>2. Sessions'
    BY <1>1, <2>1, SessionsKept
  <2> QED
    BY <1>1, <2>1, <2>2 DEF Kept
<1>3. CASE ArriveAtLogin
  <2>1. /\ c' = c \/ c' = UnmountAll(c)
        /\ cookie' = cookie /\ signedOut' = signedOut /\ srv' = srv
        /\ valid' = valid /\ Quiet
    BY <1>3 DEF ArriveAtLogin
  <2>2. Sessions'
    BY <1>1, <2>1, SessionsKept
  <2>3. Sane(c', signedOut, srv, Answered)
    BY <1>1, <2>1, UnmountAllSane
  <2> QED
    BY <2>1, <2>2, <2>3 DEF Kept
<1>4. CASE Logout
  <2>1. /\ c' = Reset(c) /\ cookie' = 0 /\ ~valid' /\ signedOut' = cookie
        /\ srv' = srv /\ Visit
    BY <1>4 DEF Logout
  <2>2. /\ budget' \in [visits : Nat, faults : Nat, sessions : Nat, news : Nat]
        /\ budget'.sessions = budget.sessions
    BY <1>1, <2>1, Spends
  <2>3. valid' \in BOOLEAN
    BY <1>4 DEF Logout
  <2>4. Sessions'
    BY <1>1, <2>1, <2>2, <2>3 DEF Sessions
  <2>5. Sane(c', cookie, srv, Answered)
    BY <1>1, <2>1, ResetSane
  <2> QED
    BY <2>1, <2>4, <2>5 DEF Kept
<1>5. CASE Login
  <2>1. /\ c' = SubscribeTopic(c, Stats) /\ signedOut' = signedOut /\ srv' = srv
        /\ cookie' = budget.sessions + 1 /\ valid' = TRUE
        /\ budget' = [budget EXCEPT !.sessions = @ + 1]
    BY <1>5 DEF Login
  <2>2. /\ budget' \in [visits : Nat, faults : Nat, sessions : Nat, news : Nat]
        /\ budget'.sessions = budget.sessions + 1
    BY <1>1, <2>1 DEF Sessions
  <2>3. Sessions'
    BY <1>1, <2>1, <2>2 DEF Sessions
  <2>4. Sane(c', signedOut, srv, Answered)
    BY <1>1, <2>1, SubscribeSane, SseFacts
  <2> QED
    BY <2>1, <2>3, <2>4 DEF Kept
<1> QED
  BY <1>2, <1>3, <1>4, <1>5

\* One step of the tab.
LEMMA EveryStep ==
    ASSUME Inv, [Next]_vars
    PROVE  Sessions' /\ (Kept \/ \E r \in Slots : Ends(r))
<1>1. CASE Next
  BY <1>1, ClientSteps, StreamSteps, RequestSteps, SessionSteps DEF Next
<1>2. CASE UNCHANGED vars
  <2>1. /\ c' = c /\ srv' = srv /\ cookie' = cookie /\ valid' = valid
        /\ signedOut' = signedOut /\ budget' = budget
    BY <1>2 DEF vars
  <2>2. Sessions'
    BY <2>1, SessionsKept DEF Inv, Quiet
  <2> QED
    BY <2>1, <2>2, InvSane DEF Kept
<1> QED
  BY <1>1, <1>2

\* The invariant is inductive.
LEMMA InvStep == Inv /\ [Next]_vars => Inv'
<1> SUFFICES ASSUME Inv, [Next]_vars PROVE Inv'
  OBVIOUS
<1>1. Sessions' /\ Sane(c', signedOut', srv', {})
  BY EveryStep, SaneFewer DEF Kept, Ends
<1> QED
  BY <1>1 DEF Inv, Sane

\* The invariant holds of the tab's specification (its fairness is not used).
LEMMA Invariance == Spec => []Inv
<1> QED
  BY InvInit, InvStep, PTL DEF Spec

(***************************************************************************)
(* The theorems.                                                           *)
(***************************************************************************)

\* After a logout nothing fetched or streamed under the old session is ever
\* installed, whatever answers and events were in flight (reset() and the
\* generation check of fetchAndInstall).
THEOREM NothingCrossesLogout == Spec => []NoDataAcrossLogout
<1>1. Inv => NoDataAcrossLogout
  BY DEF Inv, Clean, Known, NoDataAcrossLogout
<1> QED
  BY <1>1, Invariance, PTL

\* The one EventSource carries exactly the mounted topics once the debounce
\* has fired, or a rebuild is scheduled (rebuildNow, reset and the refcounts).
THEOREM ConnectionFollows == Spec => []ConnectionFollowsMounts
<1>1. Inv => ConnectionFollowsMounts
  BY DEF Inv, Follows, ConnectionFollowsMounts
<1> QED
  BY <1>1, Invariance, PTL

\* The status strip says "polling" exactly while the fallback polls, and is
\* free of warnings over a made connection only with an open source whose
\* silence the watchdog would report (setConnection, markConnected, onFrame).
THEOREM StripTellsTheTruth == Spec => []StripIsHonest
<1>1. Inv => StripIsHonest
  <2> SUFFICES ASSUME Inv PROVE StripIsHonest
    OBVIOUS
  <2>1. Honest(c)
    BY DEF Inv
  <2>2. c.poll <=> "polling" \in StripFlags(c, Stats)
    BY <2>1 DEF Honest, StripFlags
  <2>3. StripFlags(c, Stats) = {} => ~c.stale
    BY DEF StripFlags
  <2> QED
    BY <2>1, <2>2, <2>3 DEF Honest, StripIsHonest
<1> QED
  BY <1>1, Invariance, PTL

\* A snapshot answer never sets a topic back, however it was delayed: when an
\* answered request ends, no topic shows older data than before
\* (fetchAndInstall's revision, ticket and generation checks).
THEOREM NoAnswerRegresses == Spec => AnswersNeverRegress
<1> DEFINE P == \A r \in Slots :
                  c.reqs[r].phase = "answered" /\ c'.reqs[r].phase = "idle" =>
                      \A t \in Topics : c'.snap[t].data.v >= c.snap[t].data.v
<1>1. Inv /\ [Next]_vars => P
  <2> SUFFICES ASSUME Inv, [Next]_vars, NEW r \in Slots,
                      c.reqs[r].phase = "answered", c'.reqs[r].phase = "idle",
                      NEW t \in Topics
               PROVE  c'.snap[t].data.v >= c.snap[t].data.v
    OBVIOUS
  <2>1. r \in Answered
    BY DEF Answered
  <2>2. ~Kept
    BY <2>1 DEF Kept, Sane, Clean
  <2> QED
    BY <2>2, EveryStep DEF Ends
<1>2. Inv /\ [Next]_vars => [P]_vars
  BY <1>1
<1> QED
  BY <1>2, Invariance, PTL DEF Spec, AnswersNeverRegress
=============================================================================
