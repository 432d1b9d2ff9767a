----------------------------- MODULE Geography ------------------------------
(***************************************************************************)
(* The geography page, geography/*: an overview pinned to a snapshot of the *)
(* panel, the selection, the list and the people of a place read from that  *)
(* snapshot by further requests.  Snapshots follow one another while the    *)
(* operator reads, and expire on the server before the browser's clock says *)
(* so.                                                                      *)
(***************************************************************************)
EXTENDS Integers, Sequences, FiniteSets, SequencesExt

CONSTANTS MaxSnapshots,   \* bound: snapshots the panel takes
          MaxGeoClicks    \* bound: actions of the operator
ASSUME GeographyAssumption == MaxSnapshots \in Nat \ {0} /\ MaxGeoClicks \in Nat

VARIABLES atlas,   \* the panel: the scope of each snapshot, the expired ones
          geo,     \* the page and its query cache
          geoLeft
geoVars == <<atlas, geo, geoLeft>>

Scopes == {"now", "24h"}         \* range and family
NoFrame == [key |-> <<>>, base |-> 0, active |-> <<>>]
NoRoot == [data |-> 0, err |-> FALSE, fetch |-> 0]
\* kept: the page of the list that was answered last.
NoPage == [kind |-> "none", pages |-> <<>>, snap |-> 0]
NoList == [mount |-> <<>>, snap |-> 0, pages |-> <<>>, status |-> "none", kept |-> NoPage]
NoPeople == [snap |-> 0, pages |-> <<>>, status |-> "none"]
IdlePick == [key |-> <<>>, status |-> "none"]

(***************************************************************************)
(* useGeography.ts.                                                         *)
(***************************************************************************)
ScopeOf(g) == g.root[g.scope]
GeoBlocked(g) == g.blocked = g.scope
HasSelection(g) == g.country \/ g.place
SelectionScope(g) == <<g.scope, g.country, g.place>>
\* GeographyPage.tsx: a place on display or a later page of the list stops the polling.
Paused(g) == g.place \/ g.paging
PickKey(g) == <<ScopeOf(g).data, g.country, g.place>>
\* The overview read: the snapshot itself, or what it holds of the selection.
Active(g) ==
    IF ScopeOf(g).data = 0 THEN <<>>
    ELSE IF ~HasSelection(g) \/ PickKey(g) \in g.got THEN PickKey(g) ELSE <<>>

\* Mutant: while the selection of a new snapshot is on its way, the totals move ahead.
FrameMovesAhead(g) ==
    IF ScopeOf(g).data = 0 THEN NoFrame
    ELSE IF Active(g) # <<>> THEN [key |-> SelectionScope(g), base |-> ScopeOf(g).data, active |-> Active(g)]
    ELSE IF g.last.key = SelectionScope(g) THEN [g.last EXCEPT !.base = ScopeOf(g).data] ELSE NoFrame

\* A snapshot and its selection are published together.
Frame(g) ==
    IF ScopeOf(g).data = 0 THEN NoFrame
    ELSE IF Active(g) # <<>> THEN [key |-> SelectionScope(g), base |-> ScopeOf(g).data, active |-> Active(g)]
    ELSE IF g.last.key = SelectionScope(g) THEN g.last ELSE NoFrame
Shown(g) == IF GeoBlocked(g) THEN NoFrame ELSE Frame(g)
Expired(g) == GeoBlocked(g) \/ Frame(g).base \in g.old
GeoError(g) ==
    IF GeoBlocked(g) THEN "expired"
    ELSE IF g.pick.status = "failed" \/ (ScopeOf(g).err /\ ScopeOf(g).fetch < 2) THEN "error" ELSE "none"

\* The queries a render enables: of the scope, of the selection.
RootEnabled(g) == g.visible /\ ~GeoBlocked(g) /\ (~Paused(g) \/ ScopeOf(g).data = 0)
RootStarted(g) ==
    IF RootEnabled(g) /\ ScopeOf(g) = NoRoot THEN [g EXCEPT !.root[g.scope].fetch = 1] ELSE g
PickStarted(g) ==
    LET enabled == g.visible /\ ~GeoBlocked(g) /\ ScopeOf(g).data \notin g.old
        status == IF PickKey(g) \in g.got THEN "ok" ELSE IF enabled THEN "fetching" ELSE "off"
    IN IF ~HasSelection(g) \/ ScopeOf(g).data = 0 THEN [g EXCEPT !.pick = IdlePick]
       ELSE IF g.pick.key # PickKey(g) \/ g.pick.status = "off"
            THEN [g EXCEPT !.pick = [key |-> PickKey(g), status |-> status]]
       ELSE g
Retained(g) == IF Active(g) # <<>> /\ ~GeoBlocked(g) THEN [g EXCEPT !.last = Frame(g)] ELSE g

(***************************************************************************)
(* LocationList.tsx and LocationInspector.tsx: pages by cursor.  A page is  *)
(* written as the snapshot its cursor was issued for, 0 the first page.     *)
(***************************************************************************)
FirstPage == <<0>>
ListUnder(g, shown) ==
    LET mount == <<g.scope, g.country>>
        fresh == IF Expired(g) THEN "off" ELSE "fetching"
    IN IF shown = NoFrame THEN [g EXCEPT !.list = NoList]
       ELSE IF g.list.mount # mount
            THEN [g EXCEPT !.list = [mount |-> mount, snap |-> shown.base, pages |-> FirstPage,
                                     status |-> fresh, kept |-> NoPage]]
       ELSE IF g.list.snap # shown.base       \* the same page of another snapshot
            THEN [g EXCEPT !.list.snap = shown.base, !.list.status = fresh]
       ELSE g
\* placeholderData: until its page is answered the list shows the rows answered last,
\* if they are of the same page of the same list. The snapshot of the rows, 0 for none.
RowsOf(g) ==
    IF Expired(g) THEN 0
    ELSE IF g.list.status = "ok" THEN g.list.snap
    ELSE IF g.list.status = "fetching" /\ g.list.kept.kind = g.kind /\ g.list.kept.pages = g.list.pages
         THEN g.list.kept.snap ELSE 0
\* Keyed by its snapshot: another one begins from the first page.
PeopleUnder(g, shown) ==
    IF shown = NoFrame \/ ~g.place THEN [g EXCEPT !.people = NoPeople]
    ELSE IF g.people.snap # shown.active[1]
         THEN [g EXCEPT !.people = [snap |-> shown.active[1], pages |-> FirstPage,
                                    status |-> IF Expired(g) THEN "off" ELSE "fetching"]]
    ELSE g
ListStarted(g) == ListUnder(g, Shown(g))
PeopleStarted(g) == PeopleUnder(g, Shown(g))
GeoRendered(g) == PeopleStarted(ListStarted(Retained(PickStarted(RootStarted(g)))))

\* A request refused because its snapshot is gone takes the whole feature's cache along.
Revoked(g) ==
    [g EXCEPT !.blocked = g.scope, !.root = [s \in Scopes |-> NoRoot], !.got = {}, !.last = NoFrame, !.pick = IdlePick]
\* invalidateGeography: requests cancelled, snapshots dropped, the scopes read anew.
Invalidated(g) == [Revoked(g) EXCEPT !.blocked = g.blocked]

GeoSays(g) == geo' = GeoRendered(g) /\ UNCHANGED geoLeft
GeoClick(g) ==
    /\ geoLeft > 0 /\ geoLeft' = geoLeft - 1 /\ geo.visible
    /\ geo' = GeoRendered(g)
    /\ UNCHANGED atlas

\* The panel takes a snapshot, or answers with one it still holds.
RootAnswers ==
    /\ ScopeOf(geo).fetch > 0
    /\ \/ \E s \in 1..MaxSnapshots :
             /\ s \in DOMAIN atlas.scope => s \notin atlas.dead /\ atlas.scope[s] = geo.scope /\ s >= ScopeOf(geo).data
             /\ s \in DOMAIN atlas.scope \/ s = Len(atlas.scope) + 1
             /\ atlas' = [atlas EXCEPT !.scope = IF s \in DOMAIN @ THEN @ ELSE Append(@, geo.scope)]
             /\ GeoSays([geo EXCEPT !.root[geo.scope] = [data |-> s, err |-> FALSE, fetch |-> 0]])
       \/ /\ ScopeOf(geo).fetch < 3          \* the snapshot was lost on the way: tried again
          /\ GeoSays([geo EXCEPT !.root[geo.scope].fetch = @ + 1]) /\ UNCHANGED atlas
       \/ GeoSays([geo EXCEPT !.root[geo.scope].fetch = 0, !.root[geo.scope].err = TRUE]) /\ UNCHANGED atlas
SnapshotExpires ==
    /\ \E s \in DOMAIN atlas.scope \ atlas.dead : atlas' = [atlas EXCEPT !.dead = @ \cup {s}]
    /\ UNCHANGED <<geo, geoLeft>>
\* The browser's clock runs from the answer, later than the panel's.
ClockTicks ==
    /\ \E s \in atlas.dead \ geo.old : s \in {ScopeOf(geo).data, Frame(geo).base} /\ GeoSays([geo EXCEPT !.old = @ \cup {s}])
    /\ UNCHANGED atlas
Poll ==
    /\ geo.visible /\ ~Paused(geo) /\ ~GeoBlocked(geo) /\ ScopeOf(geo).fetch = 0
    /\ GeoSays([geo EXCEPT !.root[geo.scope].fetch = 1]) /\ UNCHANGED atlas

VisibilityFlips(g) ==
    IF ~g.visible /\ ~Paused(g) /\ ~GeoBlocked(g) /\ ScopeOf(g).fetch = 0
    THEN [g EXCEPT !.visible = TRUE, !.root[g.scope].fetch = 1] ELSE [g EXCEPT !.visible = ~@]
TabFlips == geoLeft > 0 /\ geoLeft' = geoLeft - 1 /\ geo' = GeoRendered(VisibilityFlips(geo)) /\ UNCHANGED atlas

PickAnswers ==
    /\ geo.pick.status = "fetching" /\ UNCHANGED atlas
    /\ \/ geo.pick.key[1] \in atlas.dead /\ GeoSays(Revoked(geo))
       \/ geo.pick.key[1] \notin atlas.dead
          /\ GeoSays([geo EXCEPT !.pick.status = "ok", !.got = @ \cup {geo.pick.key}])
       \/ GeoSays([geo EXCEPT !.pick.status = "failed"])
\* A cursor names its snapshot: of another it is refused.
ListAnswers ==
    /\ geo.list.status = "fetching" /\ UNCHANGED atlas
    /\ \/ geo.list.snap \in atlas.dead /\ GeoSays(Revoked(geo))
       \/ /\ geo.list.snap \notin atlas.dead /\ Last(geo.list.pages) \in {0, geo.list.snap}
          /\ GeoSays([geo EXCEPT !.list.status = "ok",
                        !.list.kept = [kind |-> geo.kind, pages |-> geo.list.pages, snap |-> geo.list.snap]])
       \/ GeoSays([geo EXCEPT !.list.status = "failed"])
PeopleAnswer ==
    /\ geo.people.status = "fetching" /\ UNCHANGED atlas
    /\ \/ geo.people.snap \in atlas.dead /\ GeoSays(Revoked(geo))
       \/ geo.people.snap \notin atlas.dead /\ GeoSays([geo EXCEPT !.people.status = "ok"])
       \/ GeoSays([geo EXCEPT !.people.status = "failed"])

(***************************************************************************)
(* GeographyPage.tsx: what the operator does.                               *)
(***************************************************************************)
Choose(g, country, place) == [g EXCEPT !.country = country, !.place = place, !.paging = FALSE]
\* The request of the scope left behind is cancelled; the other one is read
\* again when its answer has grown stale.
ChooseScope ==
    \E s \in Scopes \ {geo.scope}, stale \in BOOLEAN :
        GeoClick(Choose([geo EXCEPT !.scope = s, !.root[geo.scope].fetch = 0,
                           !.root[s].fetch = IF stale /\ geo.visible /\ geo.root[s].data # 0 /\ geo.blocked # s
                                             THEN 1 ELSE @], FALSE, FALSE))
ClearSelection == HasSelection(geo) /\ GeoClick(Choose(geo, FALSE, FALSE))
Refresh ==
    GeoClick([geo EXCEPT !.paging = FALSE, !.blocked = "none", !.list = NoList, !.people = NoPeople,
                         !.root[geo.scope].fetch = IF @ = 0 THEN 1 ELSE @])
Listed == ~Expired(geo) /\ geo.list.status = "ok"
PickFromList ==
    /\ Listed
    /\ \/ geo.kind = "country" /\ GeoClick(Choose(geo, TRUE, FALSE))
       \/ geo.kind = "location" /\ GeoClick(Choose(geo, geo.country, TRUE))
PickOnMap == Shown(geo) # NoFrame /\ \E place \in BOOLEAN : GeoClick(Choose(geo, TRUE, place))
PagesTurned(pages) ==
    GeoClick([geo EXCEPT !.list.pages = pages, !.list.status = "fetching", !.paging = Len(pages) > 1])
NextPage == Listed /\ Len(geo.list.pages) < 3 /\ PagesTurned(Append(geo.list.pages, geo.list.snap))
PreviousPage == Listed /\ Len(geo.list.pages) > 1 /\ PagesTurned(Front(geo.list.pages))
SetKind ==
    /\ geo.list # NoList
    /\ \E k \in {"country", "location"} \ {geo.kind} :
          GeoClick([geo EXCEPT !.kind = k, !.paging = FALSE, !.list.pages = FirstPage,
                               !.list.status = IF Expired(geo) THEN "off" ELSE "fetching"])
TurnPeople ==
    /\ ~Expired(geo) /\ geo.people.status = "ok"
    /\ \E pages \in {Append(geo.people.pages, geo.people.snap), Front(geo.people.pages)} :
          /\ Len(pages) \in 1..2
          /\ GeoClick([geo EXCEPT !.people.pages = pages, !.people.status = "fetching"])

(***************************************************************************)
(* GeographySettings.tsx: the server's own position.                        *)
(***************************************************************************)
NoForm == [open |-> FALSE, draft |-> 0, sent |-> 0, saving |-> FALSE, orphan |-> FALSE]
OpenPosition == ~geo.form.open /\ geo.visible /\ GeoSays([geo EXCEPT !.form.open = TRUE]) /\ UNCHANGED atlas
ClosePosition ==
    /\ geo.form.open /\ geo.visible /\ UNCHANGED atlas
    /\ GeoSays([geo EXCEPT !.form = [NoForm EXCEPT !.orphan = geo.form.saving \/ geo.form.orphan]])
FieldsOpen == geo.form.open /\ ~geo.form.saving
EditForm == FieldsOpen /\ \E v \in 1..2 \ {geo.form.draft} : GeoClick([geo EXCEPT !.form.draft = v])
ApplyForm ==
    /\ geo.form.open /\ ~geo.form.saving /\ geo.form.draft # 0
    /\ GeoClick([geo EXCEPT !.form.saving = TRUE, !.form.sent = geo.form.draft])
PositionSaved ==
    /\ geo.form.saving /\ UNCHANGED atlas
    /\ \/ GeoSays([Invalidated(geo) EXCEPT !.form.saving = FALSE, !.form.sent = 0, !.form.draft = 0])
       \/ GeoSays([geo EXCEPT !.form.saving = FALSE, !.form.sent = 0])
\* The save of a sheet closed meanwhile still drops the snapshots.
OrphanAnswered ==
    /\ geo.form.orphan /\ UNCHANGED atlas
    /\ \/ GeoSays([Invalidated(geo) EXCEPT !.form.orphan = FALSE])
       \/ GeoSays([geo EXCEPT !.form.orphan = FALSE])

GeoInit ==
    /\ atlas = [scope |-> <<>>, dead |-> {}]
    /\ geo = GeoRendered([scope |-> "now", country |-> FALSE, place |-> FALSE, visible |-> TRUE,
                       root |-> [s \in Scopes |-> NoRoot], got |-> {}, pick |-> IdlePick, last |-> NoFrame,
                       blocked |-> "none", old |-> {}, paging |-> FALSE, kind |-> "country",
                       list |-> NoList, people |-> NoPeople, form |-> NoForm])
    /\ geoLeft = MaxGeoClicks
GeoNext ==
    \/ RootAnswers \/ SnapshotExpires \/ ClockTicks \/ Poll \/ TabFlips
    \/ PickAnswers \/ ListAnswers \/ PeopleAnswer
    \/ ChooseScope \/ ClearSelection \/ Refresh \/ PickFromList \/ NextPage \/ PreviousPage \/ SetKind \/ TurnPeople
    \/ PickOnMap \/ OpenPosition \/ ClosePosition \/ EditForm \/ ApplyForm \/ PositionSaved \/ OrphanAnswered

(***************************************************************************)
(* Properties.                                                              *)
(***************************************************************************)

\* Whatever requests are on their way, the totals, the selection and the people on
\* screen are of one snapshot, of the scope and selection asked for (useGeography:
\* "Publish a snapshot and its selection together"), and the list asks for its page
\* of that snapshot. Until it is answered the list may show the rows it had: they are
\* of an earlier snapshot of the same scope, and no row can be picked from them or
\* from a page cut for another snapshot (LocationList).
FrameIsWhole ==
    LET shown == Shown(geo)
    IN  shown # NoFrame =>
          /\ shown.active = <<shown.base, geo.country, geo.place>>
          /\ atlas.scope[shown.base] = geo.scope
          /\ geo.list.snap = shown.base
          /\ RowsOf(geo) \notin {0, shown.base} =>
               RowsOf(geo) < shown.base /\ atlas.scope[RowsOf(geo)] = geo.scope /\ ~Listed
          /\ Listed => Last(geo.list.pages) \in {0, geo.list.snap}
          /\ geo.people # NoPeople => \A i \in DOMAIN geo.people.pages : geo.people.pages[i] \in {0, shown.base}

\* A snapshot the panel refused is revoked as a whole: until the operator asks
\* again nothing of it is on screen and nothing is requested for the scope.
RevokedIsQuiet ==
    GeoBlocked(geo) => /\ GeoError(geo) = "expired"
                    /\ ScopeOf(geo).fetch = 0 /\ geo.pick.status # "fetching"
                    /\ geo.list = NoList /\ geo.people = NoPeople

\* A position being typed is lost only to the operator's own next edit, to the
\* closing of the sheet, or to the save that stored that very draft.
GeoDraftKept ==
    geo.form.draft # 0 /\ geo'.form.draft = 0 =>
       ~geo'.form.open \/ geo.form.draft = geo.form.sent
=============================================================================
