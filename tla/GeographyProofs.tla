-------------------------- MODULE GeographyProofs --------------------------
(***************************************************************************)
(* What the geography page and its map keep true, for every number of      *)
(* snapshots and clicks: the lemmas behind GeographyIsCurrent of Console.   *)
(***************************************************************************)
EXTENDS Geography, GeographyMap, SequenceTheorems, TLAPS

(***************************************************************************)
(* The map.  A gesture has a beginning exactly while a pointer is down, and *)
(* a move computed from it now is where the camera is.                      *)
(***************************************************************************)
Zooms == 1..ZOOM_MAX
Gestures == [zoom : Zooms, x : Int, centre : Int, spread : Nat]
Charts ==
    [mounted : BOOLEAN, view : {"map", "globe"}, expanded : BOOLEAN, failed : BOOLEAN,
     rotate : BOOLEAN, pointers : Seq(Positions), rebase : Seq(Gestures), dragged : BOOLEAN,
     nudged : BOOLEAN, zoom : Zooms, x : Int, taken : {"none", "click", "key"}]

Steady(c) ==
    /\ c \in Charts
    /\ Len(c.pointers) <= 2
    /\ c.pointers = <<>> <=> c.rebase = <<>>
    /\ c.rebase # <<>> /\ ~c.nudged => MovedTo(c) = [zoom |-> c.zoom, x |-> c.x]
MapInv == Steady(chart)

(***************************************************************************)
(* The page.                                                                *)
(***************************************************************************)
PlaceKeys == (Nat \X BOOLEAN \X BOOLEAN) \cup {<<>>}       \* what PickKey names
SelectionKeys == (Scopes \X BOOLEAN \X BOOLEAN) \cup {<<>>} \* what SelectionScope names
MountKeys == (Scopes \X BOOLEAN) \cup {<<>>}
GeoRoots == [data : Nat, err : BOOLEAN, fetch : Nat]
GeoFrames == [key : SelectionKeys, base : Nat, active : PlaceKeys]
GeoPicks == [key : PlaceKeys, status : {"none", "ok", "fetching", "off", "failed"}]
GeoRows == [kind : {"none", "country", "location"}, pages : Seq(Nat), snap : Nat]
GeoLists == [mount : MountKeys, snap : Nat, pages : Seq(Nat),
          status : {"none", "ok", "fetching", "off", "failed"}, kept : GeoRows]
GeoPeople == [snap : Nat, pages : Seq(Nat), status : {"none", "ok", "fetching", "off", "failed"}]
GeoForms == [open : BOOLEAN, draft : Nat, sent : Nat, saving : BOOLEAN, orphan : BOOLEAN]
GeoPages ==
    [scope : Scopes, country : BOOLEAN, place : BOOLEAN, visible : BOOLEAN,
     root : [Scopes -> GeoRoots], got : SUBSET PlaceKeys, pick : GeoPicks, last : GeoFrames,
     blocked : Scopes \cup {"none"}, old : SUBSET Nat, paging : BOOLEAN,
     kind : {"country", "location"}, list : GeoLists, people : GeoPeople, form : GeoForms]
Atlases == [scope : Seq(Scopes), dead : SUBSET Nat]

\* A snapshot is one the panel took for that scope.
TakenFor(a, n, s) == n \in DOMAIN a.scope /\ a.scope[n] = s

\* The cache of the scopes: what it holds was taken for its scope, and only
\* the open scope is being read, unless it is blocked.
CacheOK(a, scope, blocked, root) ==
    /\ \A s \in Scopes : root[s].data # 0 => TakenFor(a, root[s].data, s)
    /\ \A s \in Scopes : s # scope \/ blocked = scope => root[s].fetch = 0
\* The frame kept from before is one snapshot, of its scope and selection.
KeptOK(a, frame) ==
    frame.key # <<>> => /\ TakenFor(a, frame.base, frame.key[1])
                        /\ frame.active = <<frame.base, frame.key[2], frame.key[3]>>
\* The list reads a snapshot of its scope; a page that was answered was cut for
\* it, and the rows kept are of no later one of that scope.
ListOK(a, l) ==
    \/ l = NoList
    \/ /\ l.mount # <<>> /\ TakenFor(a, l.snap, l.mount[1])
       /\ l.kept.snap # 0 => l.kept.snap <= l.snap /\ TakenFor(a, l.kept.snap, l.mount[1])
       /\ l.status = "ok" => Last(l.pages) \in {0, l.snap}
\* The kept frame is no later than the scope's snapshot, the list no later than both.
Rising(root, last, list) ==
    \A s \in Scopes :
       /\ last.key # <<>> /\ last.key[1] = s => last.base <= root[s].data
       /\ list # NoList /\ list.mount[1] = s =>
            /\ root[s].data = 0 \/ list.snap <= root[s].data
            /\ last.key # <<>> /\ last.key[1] = s => list.snap <= last.base
PeopleOK(p) == \A i \in DOMAIN p.pages : p.pages[i] \in {0, p.snap}
Consistent(a, g) ==
    /\ a \in Atlases
    /\ g \in GeoPages
    /\ CacheOK(a, g.scope, g.blocked, g.root)
    /\ KeptOK(a, g.last)
    /\ ListOK(a, g.list)
    /\ Rising(g.root, g.last, g.list)
    /\ PeopleOK(g.people)
\* A blocked scope has no request for its selection.
PickQuiet(g) == g.blocked = g.scope => g.pick.status # "fetching"
\* What a render leaves: list and people are those of the frame it shows.
OneFrame(g) ==
    /\ PickQuiet(g)
    /\ Shown(g) = NoFrame => g.list = NoList /\ g.people = NoPeople
    /\ Shown(g) # NoFrame => /\ g.list.snap = Shown(g).base
                             /\ g.list.mount = <<g.scope, g.country>>
                             /\ g.people # NoPeople => g.people.snap = Shown(g).active[1]
GeoInv == Consistent(atlas, geo) /\ OneFrame(geo)

\* Multiplying and dividing by the same spread leaves the zoom.
LEMMA SameSpread == ASSUME NEW z \in Nat, NEW s \in Nat, s > 0 PROVE (z * s) \div s = z
<1>1. z * s \in Int /\ s * z = z * s
  OBVIOUS
<1>2. /\ (z * s) = s * ((z * s) \div s) + ((z * s) % s)
      /\ (z * s) \div s \in Int /\ (z * s) % s \in 0 .. (s - 1)
  BY <1>1
<1> DEFINE q == (z * s) \div s
           r == (z * s) % s
<1>3. s * (z - q) = r /\ q \in Int /\ r \in Int /\ 0 <= r /\ r < s
  BY <1>1, <1>2
<1> HIDE DEF q, r
<1>4. ~ (z - q >= 1)
  BY <1>3
<1>5. ~ (z - q <= -1)
  BY <1>3
<1> QED
  BY <1>3, <1>4, <1>5 DEF q

\* A zoom is held within its limits.
LEMMA ClampZooms == \A z \in Int : Clamp(z) \in Zooms /\ (z \in Zooms => Clamp(z) = z)
  BY DEF Clamp, Zooms, ZOOM_MAX

\* Centre and spread of the pointers.
LEMMA PointersMeasured ==
    ASSUME NEW ps \in Seq(Positions), ps # <<>>, Len(ps) <= 2
    PROVE  Centre(ps) \in Int /\ Spread(ps) \in Nat
<1>1. Len(ps) = 1 \/ Len(ps) = 2
  <2> DEFINE n == Len(ps)
  <2>1. n \in Nat \ {0} /\ n <= 2
    BY EmptySeq
  <2>2. n = 1 \/ n = 2
    <3> HIDE DEF n
    <3> QED
      BY <2>1
  <2> QED
    BY <2>2
<1>2. CASE Len(ps) = 1
  <2>1. ps[1] \in 0..2
    BY <1>2 DEF Positions
  <2> QED
    BY <1>2, <2>1 DEF Centre, Spread
<1>3. CASE Len(ps) = 2
  <2>1. ps[1] \in 0..2 /\ ps[2] \in 0..2
    BY <1>3 DEF Positions
  <2> QED
    BY <1>3, <2>1 DEF Centre, Spread
<1> QED
  BY <1>1, <1>2, <1>3

\* A gesture that begins now computes the camera as it is (rebaseGesture).
LEMMA Rebased ==
    ASSUME NEW c \in Charts, Len(c.pointers) <= 2
    PROVE  Steady(RebaseGesture(c))
<1> DEFINE d == RebaseGesture(c)
           b == [zoom |-> c.zoom, x |-> c.x, centre |-> Centre(c.pointers), spread |-> Spread(c.pointers)]
           e == << >>
<1>0. e \in Seq(Gestures)
  OBVIOUS
<1>1. CASE c.pointers = <<>>
  <2>1. d = [c EXCEPT !.nudged = FALSE, !.rebase = e]
    BY <1>1 DEF RebaseGesture
  <2>2. d \in Charts /\ d.pointers = <<>> /\ d.rebase = <<>>
    <3> HIDE DEF e
    <3>1. d \in Charts /\ d.pointers = c.pointers /\ d.rebase = e
      BY <2>1, <1>0 DEF Charts
    <3> QED
      BY <3>1, <1>1 DEF e
  <2> QED
    BY <2>2 DEF Steady
<1>2. CASE c.pointers # <<>>
  <2>0. c.pointers \in Seq(Positions) /\ c.zoom \in Zooms /\ c.x \in Int
    BY DEF Charts
  <2>1. Centre(c.pointers) \in Int /\ Spread(c.pointers) \in Nat
    BY <1>2, <2>0, PointersMeasured
  <2>2. b \in Gestures
    BY <2>0, <2>1 DEF Gestures
  <2> DEFINE f == <<b>>
  <2>3. f \in Seq(Gestures) /\ f # <<>> /\ Head(f) = b
    <3> HIDE DEF b
    <3> QED
      BY <2>2
  <2>4. d = [c EXCEPT !.nudged = FALSE, !.rebase = f]
    BY <1>2 DEF RebaseGesture
  <2>5. d \in Charts /\ d.pointers = c.pointers /\ d.rebase = f /\ d.zoom = c.zoom /\ d.x = c.x
    <3> HIDE DEF f
    <3> QED
      BY <2>3, <2>4 DEF Charts
  <2>6. /\ b.zoom = c.zoom /\ b.x = c.x /\ b.centre = Centre(c.pointers) /\ b.spread = Spread(c.pointers)
    OBVIOUS
  <2>7. MovedTo(d) = [zoom |-> c.zoom, x |-> c.x]
    <3> HIDE DEF d, f, b
    <3> DEFINE pinch == Len(c.pointers) = 2 /\ b.spread > 0
    <3>1. Clamp(IF pinch THEN (b.zoom * Spread(c.pointers)) \div b.spread ELSE b.zoom) = c.zoom
      <4>1. CASE pinch
        <5>1. (c.zoom * Spread(c.pointers)) \div Spread(c.pointers) = c.zoom
          BY <2>0, <2>1, <2>6, <4>1, SameSpread DEF Zooms
        <5> QED
          BY <2>0, <2>6, <4>1, <5>1, ClampZooms DEF Zooms
      <4>2. CASE ~pinch
        BY <2>0, <2>6, <4>2, ClampZooms DEF Zooms
      <4> QED
        BY <4>1, <4>2
    <3>2. b.x + Centre(c.pointers) - b.centre = c.x
      BY <2>0, <2>1, <2>6
    <3> QED
      BY <2>3, <2>5, <3>1, <3>2 DEF MovedTo
  <2>8. Steady(d)
    <3> HIDE DEF d, f, b
    <3> QED
      BY <1>2, <2>3, <2>5, <2>7 DEF Steady
  <2> QED
    BY <2>8
<1> QED
  BY <1>1, <1>2

\* A surface without pointers has no gesture.
LEMMA Untouched == ASSUME NEW c \in Charts, c.pointers = <<>>, c.rebase = <<>> PROVE Steady(c)
  BY DEF Steady

\* A surface that appears is untouched.
LEMMA FreshIsSteady ==
    ASSUME NEW mounted \in BOOLEAN, NEW v \in {"map", "globe"}
    PROVE  Steady(FreshSurface(mounted, v))
<1> DEFINE e == << >>
           c == FreshSurface(mounted, v)
<1>1. e \in Seq(Positions) /\ e \in Seq(Gestures) /\ 1 \in Zooms /\ 0 \in Int
  BY DEF Zooms, ZOOM_MAX
<1>2. c = [mounted |-> mounted, view |-> v, expanded |-> FALSE, failed |-> FALSE, rotate |-> FALSE,
           pointers |-> e, rebase |-> e, dragged |-> FALSE, nudged |-> FALSE, zoom |-> 1, x |-> 0, taken |-> "none"]
  BY DEF FreshSurface
<1>3. c \in Charts /\ c.pointers = e /\ c.rebase = e
  <2> HIDE DEF e, c
  <2> QED
    BY <1>1, <1>2 DEF Charts
<1> QED
  BY <1>3, Untouched

\* Every event on the map keeps the invariant.
LEMMA MapInvStep == ASSUME MapInv, MapNext PROVE MapInv'
<1> USE DEF MapInv
<1>0. /\ Steady(chart) /\ chart \in Charts
      /\ chart.pointers \in Seq(Positions) /\ chart.rebase \in Seq(Gestures)
      /\ chart.zoom \in Zooms /\ chart.x \in Int /\ Len(chart.pointers) <= 2
  BY DEF Steady, Charts
<1>1. CASE PointerDown
  <2>1. PICK p \in Positions :
          chart' = (IF chart.expanded
                    THEN RebaseGesture([chart EXCEPT !.dragged = FALSE, !.pointers = Append(@, p)])
                    ELSE [chart EXCEPT !.dragged = FALSE])
    BY <1>1 DEF PointerDown, Drawing
  <2> DEFINE ps == Append(chart.pointers, p)
             c == [chart EXCEPT !.dragged = FALSE, !.pointers = ps]
  <2>2. ps \in Seq(Positions) /\ Len(ps) <= 2
    BY <1>0, <1>1 DEF PointerDown
  <2>3. c \in Charts /\ c.pointers = ps
    <3> HIDE DEF ps
    <3> QED
      BY <1>0, <2>2 DEF Charts
  <2>4. CASE chart.expanded
    BY <2>1, <2>2, <2>3, <2>4, Rebased
  <2>5. CASE ~chart.expanded
    BY <1>0, <2>1, <2>5 DEF Steady, Charts, MovedTo
  <2> QED
    BY <2>4, <2>5
<1>2. CASE PointerMove
  <2>1. PICK i \in DOMAIN chart.pointers, p \in Positions :
          LET moved == [chart EXCEPT !.pointers[i] = p]
          IN chart' = [moved EXCEPT !.zoom = MovedTo(moved).zoom, !.x = MovedTo(moved).x, !.nudged = FALSE,
                                   !.dragged = @ \/ Centre(moved.pointers) # Head(chart.rebase).centre]
    BY <1>2 DEF PointerMove, Drawing
  <2> DEFINE ps == [chart.pointers EXCEPT ![i] = p]
             m == [chart EXCEPT !.pointers = ps]
             to == MovedTo(m)
             dr == chart.dragged \/ Centre(ps) # Head(chart.rebase).centre
             g == Head(chart.rebase)
  <2>2. ps \in Seq(Positions) /\ Len(ps) = Len(chart.pointers) /\ ps # <<>>
    BY <1>0
  <2>3. chart.rebase # <<>> /\ g \in Gestures
    BY <1>0 DEF Steady
  <2>4. m \in Charts /\ m.pointers = ps /\ m.rebase = chart.rebase /\ m.dragged = chart.dragged
    <3> HIDE DEF ps
    <3> QED
      BY <1>0, <2>2 DEF Charts
  <2>5. Centre(ps) \in Int /\ Spread(ps) \in Nat
    BY <1>0, <2>2, PointersMeasured
  <2>6. to.zoom \in Zooms /\ to.x \in Int /\ to = [zoom |-> to.zoom, x |-> to.x]
    <3> HIDE DEF ps, m, g
    <3>1. /\ g.zoom \in Int /\ g.x \in Int /\ g.centre \in Int /\ g.spread \in Nat
      BY <2>3 DEF Gestures, Zooms
    <3>2. g.spread > 0 => (g.zoom * Spread(ps)) \div g.spread \in Int
      BY <2>5, <3>1
    <3>3. to = [zoom |-> Clamp(IF Len(ps) = 2 /\ g.spread > 0 THEN (g.zoom * Spread(ps)) \div g.spread ELSE g.zoom),
                x |-> g.x + Centre(ps) - g.centre]
      BY <2>4 DEF MovedTo, g
    <3> QED
      BY <2>5, <3>1, <3>2, <3>3, ClampZooms
  <2>7. chart' = [m EXCEPT !.zoom = to.zoom, !.x = to.x, !.nudged = FALSE, !.dragged = dr]
    <3>1. m = [chart EXCEPT !.pointers[i] = p]
      OBVIOUS
    <3> QED
      BY <2>1, <2>4, <3>1
  <2>8. /\ chart' \in Charts /\ chart'.pointers = ps /\ chart'.rebase = chart.rebase
        /\ chart'.zoom = to.zoom /\ chart'.x = to.x
    <3> HIDE DEF m, to, ps
    <3>1. dr \in BOOLEAN
      BY <1>0 DEF Charts
    <3> HIDE DEF dr
    <3> QED
      BY <2>4, <2>6, <2>7, <3>1 DEF Charts
  <2>9. MovedTo(chart') = to
    <3> HIDE DEF ps, m
    <3> QED
      BY <2>4, <2>8 DEF MovedTo
  <2> QED
    <3> HIDE DEF ps, m, to
    <3> QED
      BY <1>0, <2>2, <2>3, <2>6, <2>8, <2>9 DEF Steady
<1>3. CASE PointerUp
  <2>1. PICK i \in DOMAIN chart.pointers : chart' = RebaseGesture([chart EXCEPT !.pointers = RemoveAt(@, i)])
    BY <1>3 DEF PointerUp, Drawing, Lifted
  <2> DEFINE ps == RemoveAt(chart.pointers, i)
             c == [chart EXCEPT !.pointers = ps]
  <2>2. ps \in Seq(Positions) /\ Len(ps) <= 2
    <3> DEFINE s == chart.pointers
    <3>1. /\ s \in Seq(Positions) /\ i \in 1..Len(s) /\ Len(s) \in Nat
          /\ RemoveAt(s, i) = SubSeq(s, 1, i - 1) \o SubSeq(s, i + 1, Len(s))
      BY <1>0 DEF RemoveAt
    <3> HIDE DEF s
    <3>2. /\ SubSeq(s, 1, i - 1) \in Seq(Positions) /\ Len(SubSeq(s, 1, i - 1)) = i - 1
      BY <3>1, SubSeqProperties
    <3>3. /\ SubSeq(s, i + 1, Len(s)) \in Seq(Positions) /\ Len(SubSeq(s, i + 1, Len(s))) = Len(s) - i
      BY <3>1, SubSeqProperties
    <3> DEFINE u == SubSeq(s, 1, i - 1)
               v == SubSeq(s, i + 1, Len(s))
    <3>4. u \o v \in Seq(Positions) /\ Len(u \o v) = Len(u) + Len(v)
      BY <3>2, <3>3, ConcatProperties
    <3>5. Len(u) + Len(v) = Len(s) - 1
      BY <3>1, <3>2, <3>3
    <3>6. ps = u \o v
      BY <3>1 DEF s
    <3>7. Len(s) <= 2
      BY <1>0 DEF s
    <3> HIDE DEF ps, u, v
    <3> QED
      BY <3>1, <3>4, <3>5, <3>6, <3>7
  <2>3. c \in Charts /\ c.pointers = ps
    <3> HIDE DEF ps
    <3> QED
      BY <1>0, <2>2 DEF Charts
  <2> QED
    BY <2>1, <2>2, <2>3, Rebased
<1>4. ASSUME NEW z \in Zooms, NEW x \in Int, Nudge(z, x) PROVE MapInv'
  <2> DEFINE n == chart.pointers # <<>>
  <2>1. chart' = [chart EXCEPT !.zoom = z, !.x = x, !.nudged = n]
    BY <1>4 DEF Nudge, Drawing
  <2>2. /\ chart' \in Charts /\ chart'.pointers = chart.pointers /\ chart'.rebase = chart.rebase
        /\ chart'.nudged = n
    <3>1. n \in BOOLEAN
      OBVIOUS
    <3> HIDE DEF n
    <3> QED
      BY <1>0, <2>1, <3>1 DEF Charts
  <2> QED
    BY <1>0, <2>2 DEF Steady
<1>5. CASE ZoomCamera
  <2>1. PICK z \in {chart.zoom * 2, chart.zoom \div 2} : Nudge(Clamp(z), chart.x)
    BY <1>5 DEF ZoomCamera
  <2>2. Clamp(z) \in Zooms
    BY <1>0, ClampZooms DEF Zooms
  <2> QED
    BY <1>0, <1>4, <2>1, <2>2
<1>6. CASE ResetCamera \/ FocusPlace
  BY <1>4, <1>6 DEF ResetCamera, FocusPlace, Zooms, ZOOM_MAX
<1>7. CASE MapSelect
  <2>1. PICK how \in {"click", "key"} : chart' = [chart EXCEPT !.taken = how]
    BY <1>7 DEF MapSelect, Drawing
  <2>2. /\ chart' \in Charts /\ chart'.pointers = chart.pointers /\ chart'.rebase = chart.rebase
    BY <1>0, <2>1 DEF Charts
  <2> QED
    BY <1>0, <1>7, <2>2 DEF Steady, MapSelect
<1>8. CASE Expand
  <2> DEFINE c == [chart EXCEPT !.expanded = ~@]
  <2>1. c \in Charts /\ c.pointers = chart.pointers
    BY <1>0 DEF Charts
  <2> QED
    BY <1>0, <1>8, <2>1, Rebased DEF Expand, Drawing
<1>9. ASSUME NEW c \in Charts, chart' = Remounted(c) PROVE MapInv'
  <2> DEFINE e == << >>
  <2>1. e \in Seq(Positions) /\ e \in Seq(Gestures)
    OBVIOUS
  <2>2. chart' = [c EXCEPT !.pointers = e, !.rebase = e, !.dragged = FALSE, !.nudged = FALSE]
    BY <1>9 DEF Remounted
  <2>3. chart' \in Charts /\ chart'.pointers = e /\ chart'.rebase = e
    <3> HIDE DEF e
    <3> QED
      BY <1>9, <2>1, <2>2 DEF Charts
  <2> QED
    BY <2>3, Untouched
<1>10. CASE SetView
  <2> DEFINE c == [chart EXCEPT !.view = IF @ = "map" THEN "globe" ELSE "map"]
  <2>1. c \in Charts
    BY <1>0 DEF Charts
  <2> QED
    BY <1>9, <1>10, <2>1 DEF SetView, Drawing
<1>11. CASE GlobeUnavailable
  <2> DEFINE c == [chart EXCEPT !.failed = TRUE, !.rotate = FALSE, !.view = "map"]
  <2>1. c \in Charts
    BY <1>0 DEF Charts
  <2> QED
    BY <1>9, <1>11, <2>1 DEF GlobeUnavailable, Drawing
<1>12. CASE RetryGlobe
  <2> DEFINE c == [chart EXCEPT !.failed = FALSE, !.view = "globe"]
  <2>1. c \in Charts
    BY <1>0 DEF Charts
  <2> QED
    BY <1>9, <1>12, <2>1 DEF RetryGlobe, Drawing
<1>13. CASE ToggleRotation
  <2>1. chart' = [chart EXCEPT !.rotate = ~@]
    BY <1>13 DEF ToggleRotation, Drawing
  <2>2. /\ chart' \in Charts /\ chart'.pointers = chart.pointers /\ chart'.rebase = chart.rebase
        /\ chart'.nudged = chart.nudged /\ chart'.zoom = chart.zoom /\ chart'.x = chart.x
    BY <1>0, <2>1 DEF Charts
  <2>3. MovedTo(chart') = MovedTo(chart)
    BY <2>2 DEF MovedTo
  <2> QED
    BY <1>0, <2>2, <2>3 DEF Steady
<1>14. CASE SurfaceFollowsFrame
  BY <1>0, <1>14, FreshIsSteady DEF SurfaceFollowsFrame, Drawing, Charts
<1> QED
  BY <1>1, <1>2, <1>3, <1>5, <1>6, <1>7, <1>8, <1>10, <1>11, <1>12, <1>13, <1>14 DEF MapNext

\* The map opens at rest.
LEMMA MapInvInit == MapInit => MapInv
  BY FreshIsSteady DEF MapInit, MapInv

\* The picture never jumps under the hand.
LEMMA MapIsSmooth == MapInv => GestureIsSmooth
  BY DEF MapInv, Steady, GestureIsSmooth

(***************************************************************************)
(* One render of the page, stage by stage.                                  *)
(***************************************************************************)

\* The pieces of the page, and the names computed from them.
LEMMA GeoFields ==
    ASSUME NEW g \in GeoPages
    PROVE  /\ g.scope \in Scopes /\ g.country \in BOOLEAN /\ g.place \in BOOLEAN
           /\ g.root \in [Scopes -> GeoRoots] /\ g.got \in SUBSET PlaceKeys /\ g.pick \in GeoPicks
           /\ g.last \in GeoFrames /\ g.list \in GeoLists /\ g.people \in GeoPeople
           /\ g.blocked \in Scopes \cup {"none"} /\ g.old \in SUBSET Nat /\ g.form \in GeoForms
           /\ g.root[g.scope] \in GeoRoots /\ g.visible \in BOOLEAN
  BY DEF GeoPages

\* The fields of a root request.
LEMMA RootFields ==
    ASSUME NEW r \in GeoRoots PROVE r.data \in Nat /\ r.err \in BOOLEAN /\ r.fetch \in Nat
  BY DEF GeoRoots

\* Nothing shown, nothing asked for.
LEMMA NoneOfThem ==
    /\ NoRoot \in GeoRoots /\ NoRoot.data = 0 /\ NoRoot.fetch = 0
    /\ NoFrame \in GeoFrames /\ NoFrame.key = <<>>
    /\ NoList \in GeoLists /\ NoList.status = "none" /\ NoList.mount = <<>>
    /\ NoPeople \in GeoPeople /\ NoPeople.pages = <<>>
    /\ IdlePick \in GeoPicks /\ IdlePick.status = "none"
    /\ NoPage \in GeoRows /\ NoPage.snap = 0
<1> DEFINE e == << >>
<1>1. e \in PlaceKeys /\ e \in SelectionKeys /\ e \in MountKeys /\ e \in Seq(Nat)
  BY DEF PlaceKeys, SelectionKeys, MountKeys
<1>2. /\ NoRoot = [data |-> 0, err |-> FALSE, fetch |-> 0]
      /\ NoFrame = [key |-> e, base |-> 0, active |-> e]
      /\ NoPage = [kind |-> "none", pages |-> e, snap |-> 0]
      /\ NoList = [mount |-> e, snap |-> 0, pages |-> e, status |-> "none", kept |-> NoPage]
      /\ NoPeople = [snap |-> 0, pages |-> e, status |-> "none"]
      /\ IdlePick = [key |-> e, status |-> "none"]
  BY DEF NoRoot, NoFrame, NoPage, NoList, NoPeople, IdlePick
<1>3. /\ NoRoot \in GeoRoots /\ NoRoot.data = 0 /\ NoRoot.fetch = 0
      /\ NoFrame \in GeoFrames /\ NoFrame.key = e
      /\ NoPage \in GeoRows /\ NoPage.snap = 0
      /\ NoList \in GeoLists /\ NoList.status = "none" /\ NoList.mount = e
      /\ NoPeople \in GeoPeople /\ NoPeople.pages = e
      /\ IdlePick \in GeoPicks /\ IdlePick.status = "none"
  <2> HIDE DEF e
  <2> QED
    <3>1. NoPage \in GeoRows /\ NoPage.snap = 0
      BY <1>1, <1>2 DEF GeoRows
    <3> HIDE DEF e
    <3> QED
      BY <1>1, <1>2, <3>1 DEF GeoRoots, GeoFrames, GeoLists, GeoPeople, GeoPicks
<1> QED
  BY <1>3

\* The keys under which answers are kept.
LEMMA KeyNames ==
    ASSUME NEW g \in GeoPages
    PROVE  /\ PickKey(g) \in PlaceKeys /\ PickKey(g) = <<g.root[g.scope].data, g.country, g.place>>
           /\ PickKey(g) # <<>>
           /\ SelectionScope(g) \in SelectionKeys /\ SelectionScope(g) # <<>>
           /\ SelectionScope(g) = <<g.scope, g.country, g.place>>
           /\ <<g.scope, g.country>> \in MountKeys
<1>1. g.root[g.scope].data \in Nat
  BY GeoFields, RootFields
<1>2. /\ PickKey(g) = <<g.root[g.scope].data, g.country, g.place>>
      /\ SelectionScope(g) = <<g.scope, g.country, g.place>>
  BY DEF PickKey, SelectionScope, ScopeOf
<1> QED
  BY <1>1, <1>2, GeoFields DEF PlaceKeys, SelectionKeys, MountKeys

\* Reading the scope: RootStarted sets only the request of the open scope.
LEMMA RootStartedActs ==
    ASSUME NEW a, NEW g, Consistent(a, g), NEW y, y = RootStarted(g)
    PROVE  /\ Consistent(a, y) /\ y.scope = g.scope /\ y.country = g.country /\ y.place = g.place
           /\ y.blocked = g.blocked /\ y.pick = g.pick
<1>1. CASE y = g
  BY <1>1
<1>2. CASE RootEnabled(g) /\ y = [g EXCEPT !.root[g.scope].fetch = 1]
  <2> DEFINE r == [g.root EXCEPT ![g.scope].fetch = 1]
  <2>1. g \in GeoPages /\ g.scope \in Scopes /\ g.root \in [Scopes -> GeoRoots]
    BY GeoFields DEF Consistent
  <2>2. /\ r \in [Scopes -> GeoRoots]
        /\ \A s \in Scopes : r[s].data = g.root[s].data /\ (s # g.scope => r[s].fetch = g.root[s].fetch)
    BY <2>1 DEF GeoRoots
  <2>3. y = [g EXCEPT !.root = r]
    BY <1>2
  <2> HIDE DEF r
  <2>4. /\ y \in GeoPages /\ y.root = r /\ y.scope = g.scope /\ y.blocked = g.blocked
        /\ y.last = g.last /\ y.list = g.list /\ y.people = g.people
        /\ y.country = g.country /\ y.place = g.place /\ y.pick = g.pick
    BY <2>1, <2>2, <2>3 DEF GeoPages
  <2>5. g.blocked # g.scope
    BY <1>2 DEF RootEnabled, GeoBlocked
  <2>6. CacheOK(a, g.scope, g.blocked, r)
    BY <2>2, <2>5 DEF Consistent, CacheOK
  <2>7. Rising(r, g.last, g.list)
    BY <2>2 DEF Consistent, Rising
  <2> QED
    BY <2>4, <2>6, <2>7 DEF Consistent
<1> QED
  BY <1>1, <1>2 DEF RootStarted

\* Reading the selection: PickStarted never asks for a blocked scope.
LEMMA PickStartedActs ==
    ASSUME NEW a, NEW g, Consistent(a, g), PickQuiet(g) \/ ~HasSelection(g),
           NEW y, y = PickStarted(g)
    PROVE  Consistent(a, y) /\ PickQuiet(y)
<1>1. CASE y = g /\ HasSelection(g)
  BY <1>1
<1> DEFINE status == IF PickKey(g) \in g.got THEN "ok"
                     ELSE IF g.visible /\ ~GeoBlocked(g) /\ ScopeOf(g).data \notin g.old THEN "fetching" ELSE "off"
           k == PickKey(g)
           n == [key |-> k, status |-> status]
<1>2. ASSUME NEW p \in GeoPicks, y = [g EXCEPT !.pick = p], p.status = "fetching" => ~GeoBlocked(g)
      PROVE  Consistent(a, y) /\ PickQuiet(y)
  <2>1. /\ y \in GeoPages /\ y.root = g.root /\ y.scope = g.scope /\ y.blocked = g.blocked
        /\ y.last = g.last /\ y.list = g.list /\ y.people = g.people /\ y.pick = p
    BY <1>2 DEF GeoPages, Consistent
  <2>2. PickQuiet(y)
    BY <1>2, <2>1 DEF PickQuiet, GeoBlocked
  <2> QED
    BY <2>1, <2>2 DEF Consistent
<1>3. n \in GeoPicks /\ (n.status = "fetching" => ~GeoBlocked(g))
  <2>1. k \in PlaceKeys /\ status \in {"ok", "fetching", "off"} /\ (status = "fetching" => ~GeoBlocked(g))
    BY KeyNames DEF Consistent
  <2> HIDE DEF status, k
  <2> QED
    BY <2>1 DEF GeoPicks
<1>4. \/ y = g /\ HasSelection(g)
      \/ y = [g EXCEPT !.pick = IdlePick]
      \/ y = [g EXCEPT !.pick = n]
  BY DEF PickStarted
<1> HIDE DEF n
<1> QED
  BY <1>1, <1>2, <1>3, <1>4, NoneOfThem

\* The frame of a page is a snapshot of its scope and selection.
LEMMA FrameIsOne ==
    ASSUME NEW a, NEW g, Consistent(a, g), Frame(g) # NoFrame
    PROVE  /\ Frame(g) \in GeoFrames /\ Frame(g).key = SelectionScope(g)
           /\ Frame(g).active = <<Frame(g).base, g.country, g.place>>
           /\ TakenFor(a, Frame(g).base, g.scope)
<1>0. g \in GeoPages /\ CacheOK(a, g.scope, g.blocked, g.root) /\ KeptOK(a, g.last)
  BY DEF Consistent
<1> DEFINE d == g.root[g.scope].data
           k == SelectionScope(g)
           u == PickKey(g)
           f == [key |-> k, base |-> d, active |-> u]
<1>1. d \in Nat /\ d # 0 /\ TakenFor(a, d, g.scope)
  <2>1. d # 0
    BY DEF Frame, ScopeOf
  <2> QED
    BY <1>0, <2>1, GeoFields, RootFields DEF CacheOK
<1>2. /\ u \in PlaceKeys /\ u # <<>> /\ u = <<d, g.country, g.place>>
      /\ k \in SelectionKeys /\ k # <<>> /\ k = <<g.scope, g.country, g.place>>
  BY <1>0, KeyNames
<1>3. Active(g) # <<>> => Active(g) = u
  BY <1>1 DEF Active, ScopeOf
<1>4. \/ Frame(g) = f
      \/ Frame(g) = g.last /\ g.last.key = k
  BY <1>1, <1>3 DEF Frame, ScopeOf
<1>5. CASE Frame(g) = f
  <2>1. f \in GeoFrames /\ f.key = k /\ f.base = d /\ f.active = u
    <3> HIDE DEF k, d, u
    <3> QED
      BY <1>1, <1>2 DEF GeoFrames
  <2> QED
    BY <1>1, <1>2, <1>5, <2>1
<1>6. CASE Frame(g) = g.last /\ g.last.key = k
  <2>1. g.last \in GeoFrames
    BY <1>0, GeoFields
  <2>2. /\ TakenFor(a, g.last.base, k[1])
        /\ g.last.active = <<g.last.base, k[2], k[3]>>
    BY <1>0, <1>2, <1>6 DEF KeptOK
  <2>3. k[1] = g.scope /\ k[2] = g.country /\ k[3] = g.place
    BY <1>2
  <2> QED
    BY <1>6, <2>1, <2>2, <2>3
<1> QED
  BY <1>4, <1>5, <1>6

\* Keeping the frame: it stays the same frame.
LEMMA RetainedActs ==
    ASSUME NEW a, NEW g, Consistent(a, g), PickQuiet(g), NEW y, y = Retained(g)
    PROVE  Consistent(a, y) /\ PickQuiet(y)
<1>0. g \in GeoPages
  BY DEF Consistent
<1>1. CASE y = g
  BY <1>1
<1>2. CASE Active(g) # <<>> /\ y = [g EXCEPT !.last = Frame(g)]
  <2> DEFINE f == Frame(g)
  <2>1. f # NoFrame
    <3>1. f.key = SelectionScope(g)
      BY <1>2 DEF Frame, Active
    <3> QED
      BY <1>0, <3>1, KeyNames, NoneOfThem
  <2>2. f \in GeoFrames /\ KeptOK(a, f)
    <3>1. /\ f \in GeoFrames /\ f.key = <<g.scope, g.country, g.place>>
          /\ f.active = <<f.base, g.country, g.place>> /\ TakenFor(a, f.base, g.scope)
      BY <1>0, <2>1, FrameIsOne, KeyNames
    <3>2. f.key[1] = g.scope /\ f.key[2] = g.country /\ f.key[3] = g.place
      BY <3>1
    <3> HIDE DEF f
    <3> QED
      BY <3>1, <3>2 DEF KeptOK
  <2>5. Rising(g.root, f, g.list)
    <3>1. f = [key |-> SelectionScope(g), base |-> ScopeOf(g).data, active |-> Active(g)]
          /\ ScopeOf(g).data # 0
      BY <1>2 DEF Frame, Active
    <3>4. /\ SelectionScope(g) = <<g.scope, g.country, g.place>>
          /\ ScopeOf(g).data = g.root[g.scope].data /\ g.root[g.scope].data \in Nat
      BY <1>0, KeyNames, GeoFields, RootFields DEF ScopeOf
    <3>5. f.key = SelectionScope(g) /\ f.base = ScopeOf(g).data
      BY <3>1
    <3>2. /\ f.key = <<g.scope, g.country, g.place>> /\ f.base = g.root[g.scope].data
          /\ g.root[g.scope].data \in Nat /\ g.root[g.scope].data # 0
      <4> HIDE DEF f
      <4> QED
        BY <3>1, <3>4, <3>5
    <3>3. f.key[1] = g.scope
      BY <3>2
    <3> HIDE DEF f
    <3> QED
      BY <3>2, <3>3 DEF Consistent, Rising
  <2> HIDE DEF f
  <2>3. y = [g EXCEPT !.last = f]
    BY <1>2 DEF f
  <2>4. /\ y \in GeoPages /\ y.root = g.root /\ y.scope = g.scope /\ y.blocked = g.blocked
        /\ y.last = f /\ y.list = g.list /\ y.people = g.people /\ y.pick = g.pick
    BY <1>0, <2>2, <2>3 DEF GeoPages
  <2> QED
    BY <2>2, <2>4, <2>5 DEF Consistent, PickQuiet
<1> QED
  BY <1>1, <1>2 DEF Retained

\* Once the frame is kept, what is shown is the kept one.
LEMMA RetainedShown ==
    ASSUME NEW g \in GeoPages, NEW y, y = Retained(g), Shown(y) # NoFrame
    PROVE  Shown(y) = y.last
<1>1. CASE Active(g) # <<>> /\ ~GeoBlocked(g)
  <2> DEFINE f == Frame(g)
  <2>1. y = [g EXCEPT !.last = f]
    BY <1>1 DEF Retained
  <2>2. f = [key |-> SelectionScope(g), base |-> ScopeOf(g).data, active |-> Active(g)]
        /\ ScopeOf(g).data # 0
    BY <1>1 DEF Frame, Active
  <2> HIDE DEF f
  <2>3. /\ y.last = f /\ y.scope = g.scope /\ y.country = g.country /\ y.place = g.place
        /\ y.root = g.root /\ y.got = g.got /\ y.blocked = g.blocked
    BY <2>1 DEF GeoPages
  <2>4. ScopeOf(y) = ScopeOf(g) /\ SelectionScope(y) = SelectionScope(g) /\ PickKey(y) = PickKey(g)
        /\ HasSelection(y) = HasSelection(g)
    BY <2>3 DEF ScopeOf, SelectionScope, PickKey, HasSelection
  <2>5. Active(y) = Active(g)
    BY <2>3, <2>4 DEF Active
  <2>6. Frame(y) = f
    BY <1>1, <2>2, <2>4, <2>5 DEF Frame
  <2> QED
    BY <2>3, <2>6 DEF Shown
<1>2. CASE ~(Active(g) # <<>> /\ ~GeoBlocked(g))
  <2>1. y = g
    BY <1>2 DEF Retained
  <2>2. ~GeoBlocked(y) /\ Active(y) = <<>>
    BY <1>2, <2>1 DEF Shown
  <2> QED
    BY <2>2 DEF Shown, Frame
<1> QED
  BY <1>1, <1>2

\* What is shown is computed from neither the list nor the people.
LEMMA ShownSame ==
    ASSUME NEW g, NEW y, y.scope = g.scope, y.country = g.country, y.place = g.place,
           y.root = g.root, y.got = g.got, y.last = g.last, y.blocked = g.blocked
    PROVE  Shown(y) = Shown(g)
<1>1. ScopeOf(y) = ScopeOf(g) /\ GeoBlocked(y) = GeoBlocked(g) /\ HasSelection(y) = HasSelection(g)
      /\ SelectionScope(y) = SelectionScope(g)
  BY DEF ScopeOf, GeoBlocked, HasSelection, SelectionScope
<1>2. PickKey(y) = PickKey(g)
  BY <1>1 DEF PickKey
<1>3. Active(y) = Active(g)
  BY <1>1, <1>2 DEF Active
<1>4. Frame(y) = Frame(g)
  BY <1>1, <1>3 DEF Frame
<1> QED
  BY <1>1, <1>4 DEF Shown

\* The first page of a list names no snapshot.
LEMMA FirstPages == FirstPage \in Seq(Nat) /\ \A n \in Nat : \A i \in DOMAIN FirstPage : FirstPage[i] \in {0, n}
  BY DEF FirstPage

\* The list follows the frame shown; a page answered for another snapshot is
\* asked for again.
LEMMA ListUnderActs ==
    ASSUME NEW a, NEW g, Consistent(a, g), NEW sh, sh = Shown(g), sh # NoFrame => sh = g.last,
           NEW y, y = ListUnder(g, sh)
    PROVE  /\ Consistent(a, y)
           /\ y.scope = g.scope /\ y.country = g.country /\ y.place = g.place /\ y.root = g.root
           /\ y.got = g.got /\ y.last = g.last /\ y.blocked = g.blocked /\ y.pick = g.pick
           /\ sh = NoFrame => y.list = NoList
           /\ sh # NoFrame => y.list.snap = sh.base /\ y.list.mount = <<g.scope, g.country>>
<1> DEFINE mount == <<g.scope, g.country>>
<1>0. /\ g \in GeoPages /\ g.list \in GeoLists /\ ListOK(a, g.list)
      /\ Rising(g.root, g.last, g.list) /\ g.scope \in Scopes
      /\ mount \in MountKeys /\ mount # <<>> /\ mount[1] = g.scope
  BY GeoFields, KeyNames DEF Consistent
<1>1. ASSUME sh # NoFrame
      PROVE  /\ sh.base \in Nat /\ TakenFor(a, sh.base, g.scope)
             /\ g.last.key # <<>> /\ g.last.key[1] = g.scope /\ g.last.base = sh.base
             /\ sh.base <= g.root[g.scope].data
  <2>1. sh = Frame(g) /\ sh = g.last
    BY <1>1 DEF Shown
  <2>2. /\ sh \in GeoFrames /\ sh.key = <<g.scope, g.country, g.place>>
        /\ TakenFor(a, sh.base, g.scope)
    BY <1>0, <1>1, <2>1, FrameIsOne, KeyNames
  <2>3. sh.key # <<>> /\ sh.key[1] = g.scope /\ sh.base \in Nat
    BY <2>2 DEF GeoFrames
  <2> QED
    BY <1>0, <2>1, <2>2, <2>3 DEF Rising
<1>2. ASSUME NEW l \in GeoLists, ListOK(a, l), Rising(g.root, g.last, l), y = [g EXCEPT !.list = l],
             sh = NoFrame => l = NoList, sh # NoFrame => l.snap = sh.base /\ l.mount = mount
      PROVE  /\ Consistent(a, y)
             /\ y.scope = g.scope /\ y.country = g.country /\ y.place = g.place /\ y.root = g.root
             /\ y.got = g.got /\ y.last = g.last /\ y.blocked = g.blocked /\ y.pick = g.pick
             /\ sh = NoFrame => y.list = NoList
             /\ sh # NoFrame => y.list.snap = sh.base /\ y.list.mount = mount
  <2>1. /\ y \in GeoPages /\ y.people = g.people /\ y.list = l
        /\ y.scope = g.scope /\ y.country = g.country /\ y.place = g.place /\ y.root = g.root
        /\ y.got = g.got /\ y.last = g.last /\ y.blocked = g.blocked /\ y.pick = g.pick
    BY <1>0, <1>2 DEF GeoPages
  <2> QED
    BY <1>2, <2>1 DEF Consistent
<1> DEFINE fresh == IF Expired(g) THEN "off" ELSE "fetching"
           l1 == [mount |-> mount, snap |-> sh.base, pages |-> FirstPage, status |-> fresh, kept |-> NoPage]
           l2 == [g.list EXCEPT !.snap = sh.base, !.status = fresh]
<1>3. \/ sh = NoFrame /\ y = [g EXCEPT !.list = NoList]
      \/ sh # NoFrame /\ y = [g EXCEPT !.list = l1]
      \/ sh # NoFrame /\ y = [g EXCEPT !.list = l2] /\ g.list.mount = mount
      \/ sh # NoFrame /\ y = g /\ g.list.snap = sh.base /\ g.list.mount = mount
  BY <1>0 DEF ListUnder, GeoPages
<1>4. fresh \in {"off", "fetching"}
  OBVIOUS
<1>5. CASE sh = NoFrame /\ y = [g EXCEPT !.list = NoList]
  <2>1. ListOK(a, NoList) /\ Rising(g.root, g.last, NoList)
    BY <1>0 DEF ListOK, Rising
  <2> QED
    BY <1>2, <1>5, <2>1, NoneOfThem
\* A list at a snapshot of this scope that is no later than the frame's.
<1>9. ASSUME sh # NoFrame, NEW l \in GeoLists, l.mount = mount, l.snap = sh.base, l.status # "ok",
             l.kept.snap # 0 => l.kept.snap <= l.snap /\ TakenFor(a, l.kept.snap, g.scope)
      PROVE  ListOK(a, l) /\ Rising(g.root, g.last, l)
  <2> HIDE DEF mount
  <2>1. ListOK(a, l)
    BY <1>0, <1>1, <1>9 DEF ListOK
  <2>2. ASSUME NEW s \in Scopes, l.mount[1] = s
        PROVE  /\ g.root[s].data = 0 \/ l.snap <= g.root[s].data
               /\ g.last.key # <<>> /\ g.last.key[1] = s => l.snap <= g.last.base
    BY <1>0, <1>1, <1>9, <2>2
  <2> QED
    BY <1>0, <2>1, <2>2 DEF Rising
<1>6. CASE sh # NoFrame /\ y = [g EXCEPT !.list = l1]
  <2> HIDE DEF fresh, mount
  <2>1. /\ l1 \in GeoLists /\ l1.status = fresh /\ l1.snap = sh.base /\ l1.mount = mount
        /\ l1.kept = NoPage
    BY <1>0, <1>1, <1>4, <1>6, FirstPages, NoneOfThem DEF GeoLists
  <2> HIDE DEF l1
  <2>2. l1.kept.snap = 0
    BY <2>1, NoneOfThem
  <2>4. l1.status # "ok" /\ sh # NoFrame
    BY <1>4, <1>6, <2>1
  <2>3. ListOK(a, l1) /\ Rising(g.root, g.last, l1)
    BY <1>9, <2>1, <2>2, <2>4
  <2> QED
    BY <1>2, <1>6, <2>1, <2>3 DEF mount
<1>7. CASE sh # NoFrame /\ y = [g EXCEPT !.list = l2] /\ g.list.mount = mount
  <2> HIDE DEF fresh, mount
  <2>1. /\ l2 \in GeoLists /\ l2.status = fresh /\ l2.snap = sh.base /\ l2.mount = mount
        /\ l2.kept = g.list.kept
    BY <1>0, <1>1, <1>4, <1>7 DEF GeoLists
  <2> HIDE DEF l2
  <2>2. g.list # NoList
    BY <1>0, <1>7, NoneOfThem
  <2>3. g.list.snap <= sh.base /\ g.list.snap \in Nat /\ g.list.kept.snap \in Nat
    BY <1>0, <1>1, <1>7, <2>2 DEF Rising, GeoLists, GeoRows
  <2>4. l2.kept.snap # 0 => l2.kept.snap <= l2.snap /\ TakenFor(a, l2.kept.snap, g.scope)
    BY <1>0, <1>1, <1>7, <2>1, <2>2, <2>3 DEF ListOK
  <2>6. l2.status # "ok" /\ sh # NoFrame
    BY <1>4, <1>7, <2>1
  <2>5. ListOK(a, l2) /\ Rising(g.root, g.last, l2)
    BY <1>9, <2>1, <2>4, <2>6
  <2> QED
    BY <1>2, <1>7, <2>1, <2>5 DEF mount
<1>8. CASE sh # NoFrame /\ y = g /\ g.list.snap = sh.base /\ g.list.mount = mount
  BY <1>8
<1> QED
  BY <1>3, <1>5, <1>6, <1>7, <1>8

\* The people of a place follow the frame shown.
LEMMA PeopleUnderActs ==
    ASSUME NEW a, NEW g, Consistent(a, g), NEW sh, sh = Shown(g), NEW y, y = PeopleUnder(g, sh)
    PROVE  /\ Consistent(a, y)
           /\ y.scope = g.scope /\ y.country = g.country /\ y.place = g.place /\ y.root = g.root
           /\ y.got = g.got /\ y.last = g.last /\ y.blocked = g.blocked /\ y.pick = g.pick
           /\ y.list = g.list
           /\ sh = NoFrame => y.people = NoPeople
           /\ sh # NoFrame /\ y.people # NoPeople => y.people.snap = sh.active[1]
<1>0. g \in GeoPages /\ g.people \in GeoPeople /\ PeopleOK(g.people)
  BY GeoFields DEF Consistent
<1>1. sh # NoFrame => sh.active[1] \in Nat
  <2> SUFFICES ASSUME sh # NoFrame PROVE sh.active[1] \in Nat
    OBVIOUS
  <2>1. sh = Frame(g)
    BY DEF Shown
  <2>2. sh \in GeoFrames /\ sh.active = <<sh.base, g.country, g.place>>
    BY <2>1, FrameIsOne
  <2> QED
    BY <2>2 DEF GeoFrames
<1>2. ASSUME NEW p \in GeoPeople, PeopleOK(p), y = [g EXCEPT !.people = p],
             sh = NoFrame => p = NoPeople, sh # NoFrame /\ p # NoPeople => p.snap = sh.active[1]
      PROVE  /\ Consistent(a, y)
             /\ y.scope = g.scope /\ y.country = g.country /\ y.place = g.place /\ y.root = g.root
             /\ y.got = g.got /\ y.last = g.last /\ y.blocked = g.blocked /\ y.pick = g.pick
             /\ y.list = g.list
             /\ sh = NoFrame => y.people = NoPeople
             /\ sh # NoFrame /\ y.people # NoPeople => y.people.snap = sh.active[1]
  <2>1. /\ y \in GeoPages /\ y.people = p /\ y.list = g.list
        /\ y.scope = g.scope /\ y.country = g.country /\ y.place = g.place /\ y.root = g.root
        /\ y.got = g.got /\ y.last = g.last /\ y.blocked = g.blocked /\ y.pick = g.pick
    BY <1>0, <1>2 DEF GeoPages
  <2> QED
    BY <1>2, <2>1 DEF Consistent
<1> DEFINE n == sh.active[1]
           fresh == IF Expired(g) THEN "off" ELSE "fetching"
           p1 == [snap |-> n, pages |-> FirstPage, status |-> fresh]
<1>3. \/ y = [g EXCEPT !.people = NoPeople]
      \/ sh # NoFrame /\ y = [g EXCEPT !.people = p1]
      \/ sh # NoFrame /\ y = g /\ g.people.snap = n
  BY DEF PeopleUnder
<1>4. CASE y = [g EXCEPT !.people = NoPeople]
  BY <1>2, <1>4, NoneOfThem DEF PeopleOK
<1>5. CASE sh # NoFrame /\ y = [g EXCEPT !.people = p1]
  <2>1. fresh \in {"off", "fetching"}
    OBVIOUS
  <2> HIDE DEF fresh
  <2>2. n \in Nat
    BY <1>1, <1>5
  <2>3. p1 \in GeoPeople /\ p1.snap = n /\ p1.pages = FirstPage
    <3> HIDE DEF n
    <3> QED
      BY <2>1, <2>2, FirstPages DEF GeoPeople
  <2>4. PeopleOK(p1)
    <3> HIDE DEF n, p1
    <3> QED
      BY <2>2, <2>3, FirstPages DEF PeopleOK
  <2> HIDE DEF p1
  <2> QED
    BY <1>2, <1>5, <2>3, <2>4
<1>6. CASE sh # NoFrame /\ y = g /\ g.people.snap = n
  BY <1>6
<1> QED
  BY <1>3, <1>4, <1>5, <1>6

\* A render puts one frame on the screen.
LEMMA RenderActs ==
    ASSUME NEW a, NEW g, Consistent(a, g), PickQuiet(g) \/ ~HasSelection(g)
    PROVE  Consistent(a, GeoRendered(g)) /\ OneFrame(GeoRendered(g))
<1> DEFINE g1 == RootStarted(g)
           g2 == PickStarted(g1)
           g3 == Retained(g2)
           g4 == ListUnder(g3, Shown(g3))
           g5 == PeopleUnder(g4, Shown(g4))
<1>1. Consistent(a, g1) /\ (PickQuiet(g1) \/ ~HasSelection(g1))
  BY RootStartedActs DEF PickQuiet, HasSelection
<1> HIDE DEF g1
<1>2. Consistent(a, g2) /\ PickQuiet(g2)
  BY <1>1, PickStartedActs
<1> HIDE DEF g2
<1>3. /\ Consistent(a, g3) /\ PickQuiet(g3)
      /\ Shown(g3) # NoFrame => Shown(g3) = g3.last
  BY <1>2, RetainedActs, RetainedShown DEF Consistent
<1> HIDE DEF g3
<1>4. /\ Consistent(a, g4) /\ PickQuiet(g4)
      /\ Shown(g3) = NoFrame => g4.list = NoList
      /\ Shown(g3) # NoFrame => /\ g4.list.snap = Shown(g3).base
                                /\ g4.list.mount = <<g4.scope, g4.country>>
      /\ Shown(g4) = Shown(g3)
  <2> DEFINE sh == Shown(g3)
  <2>1. /\ Consistent(a, g4)
        /\ g4.scope = g3.scope /\ g4.country = g3.country /\ g4.place = g3.place /\ g4.root = g3.root
        /\ g4.got = g3.got /\ g4.last = g3.last /\ g4.blocked = g3.blocked /\ g4.pick = g3.pick
        /\ sh = NoFrame => g4.list = NoList
        /\ sh # NoFrame => g4.list.snap = sh.base /\ g4.list.mount = <<g3.scope, g3.country>>
    <3> PICK v : v = sh
      OBVIOUS
    <3>1. g4 = ListUnder(g3, v) /\ v = Shown(g3) /\ (v # NoFrame => v = g3.last)
      BY <1>3
    <3> HIDE DEF g4, sh
    <3> QED
      BY <1>3, <3>1, ListUnderActs DEF sh
  <2> HIDE DEF g4
  <2>2. Shown(g4) = Shown(g3)
    BY <2>1, ShownSame
  <2> QED
    BY <1>3, <2>1, <2>2 DEF PickQuiet
<1> HIDE DEF g4
<1>5. /\ Consistent(a, g5) /\ PickQuiet(g5) /\ g5.list = g4.list
      /\ g5.scope = g4.scope /\ g5.country = g4.country
      /\ Shown(g4) = NoFrame => g5.people = NoPeople
      /\ Shown(g4) # NoFrame /\ g5.people # NoPeople => g5.people.snap = Shown(g4).active[1]
      /\ Shown(g5) = Shown(g4)
  BY <1>4, PeopleUnderActs, ShownSame DEF PickQuiet
<1>6. GeoRendered(g) = g5
  BY DEF GeoRendered, PeopleStarted, ListStarted, g1, g2, g3, g4
<1> HIDE DEF g5
<1> QED
  BY <1>4, <1>5, <1>6 DEF OneFrame

(***************************************************************************)
(* Requests, answers and clicks, before the render that follows.            *)
(***************************************************************************)

\* The page may render this.
Renderable(a, z) == Consistent(a, z) /\ (PickQuiet(z) \/ ~HasSelection(z))

\* The panel's snapshots only become more.
LEMMA AtlasGrows ==
    ASSUME NEW a, NEW g, Consistent(a, g), NEW b \in Atlases,
           \A n, s : TakenFor(a, n, s) => TakenFor(b, n, s)
    PROVE  Consistent(b, g)
  BY DEF Consistent, CacheOK, KeptOK, ListOK

\* The scope is read, answered or given up.
LEMMA RootSet ==
    ASSUME NEW a, NEW g, Consistent(a, g), PickQuiet(g), NEW r \in GeoRoots,
           r.data # 0 => TakenFor(a, r.data, g.scope), r.fetch # 0 => ~GeoBlocked(g),
           \/ r.data = g.root[g.scope].data
           \/ /\ g.root[g.scope].data <= r.data
              /\ g.list # NoList /\ g.list.mount[1] = g.scope => g.list.snap <= r.data,
           NEW z, z = [g EXCEPT !.root[g.scope] = r]
    PROVE  Renderable(a, z)
<1> DEFINE q == [g.root EXCEPT ![g.scope] = r]
<1>1. g \in GeoPages /\ g.scope \in Scopes /\ g.root \in [Scopes -> GeoRoots]
  BY GeoFields DEF Consistent
<1>2. q \in [Scopes -> GeoRoots] /\ \A s \in Scopes : q[s] = IF s = g.scope THEN r ELSE g.root[s]
  BY <1>1
<1>3. z = [g EXCEPT !.root = q]
  OBVIOUS
<1> HIDE DEF q
<1>4. /\ z \in GeoPages /\ z.root = q /\ z.scope = g.scope /\ z.blocked = g.blocked
      /\ z.last = g.last /\ z.list = g.list /\ z.people = g.people /\ z.pick = g.pick
  BY <1>1, <1>2, <1>3 DEF GeoPages
<1>5. CacheOK(a, g.scope, g.blocked, q)
  BY <1>1, <1>2 DEF Consistent, CacheOK, GeoBlocked
<1>6. Rising(q, g.last, g.list)
  <2>1. /\ Rising(g.root, g.last, g.list) /\ g.last.base \in Nat /\ g.list.snap \in Nat
        /\ r.data \in Nat /\ g.root[g.scope].data \in Nat
    BY <1>1, GeoFields, RootFields DEF Consistent, GeoFrames, GeoLists
  <2> SUFFICES ASSUME NEW s \in Scopes
               PROVE  /\ g.last.key # <<>> /\ g.last.key[1] = s => g.last.base <= q[s].data
                      /\ g.list # NoList /\ g.list.mount[1] = s =>
                           /\ q[s].data = 0 \/ g.list.snap <= q[s].data
                           /\ g.last.key # <<>> /\ g.last.key[1] = s => g.list.snap <= g.last.base
    BY DEF Rising
  <2>2. CASE s = g.scope
    BY <1>1, <1>2, <2>1, <2>2 DEF Rising
  <2>3. CASE s # g.scope
    BY <1>1, <1>2, <2>1, <2>3 DEF Rising
  <2> QED
    BY <2>2, <2>3
<1> QED
  BY <1>4, <1>5, <1>6 DEF Consistent, Renderable, PickQuiet

\* A revoked snapshot empties the page.
LEMMA RevokedActs ==
    ASSUME NEW a, NEW g, Consistent(a, g), NEW b \in {g.scope, g.blocked}, NEW z,
           z = [g EXCEPT !.blocked = b, !.root = [s \in Scopes |-> NoRoot], !.got = {},
                         !.last = NoFrame, !.pick = IdlePick]
    PROVE  Renderable(a, z) /\ z.form = g.form
<1> DEFINE q == [s \in Scopes |-> NoRoot]
           e == {}
<1>1. /\ g \in GeoPages /\ g.scope \in Scopes /\ b \in Scopes \cup {"none"}
      /\ q \in [Scopes -> GeoRoots] /\ e \in SUBSET PlaceKeys
  BY GeoFields, NoneOfThem DEF Consistent
<1>2. \A s \in Scopes : q[s].data = 0 /\ q[s].fetch = 0
  BY NoneOfThem
<1>3. z = [g EXCEPT !.blocked = b, !.root = q, !.got = e, !.last = NoFrame, !.pick = IdlePick]
  OBVIOUS
<1> HIDE DEF q, e
<1>4. /\ z \in GeoPages /\ z.root = q /\ z.scope = g.scope /\ z.blocked = b
      /\ z.last = NoFrame /\ z.list = g.list /\ z.people = g.people /\ z.pick = IdlePick
      /\ z.form = g.form
  BY <1>1, <1>3, NoneOfThem DEF GeoPages
<1>5. CacheOK(a, g.scope, b, q) /\ KeptOK(a, NoFrame) /\ Rising(q, NoFrame, g.list)
  BY <1>2, NoneOfThem DEF CacheOK, KeptOK, Rising
<1> QED
  BY <1>4, <1>5, NoneOfThem DEF Consistent, Renderable, PickQuiet

\* What leaves cache, frame, list and people alone.
LEMMA OthersSet ==
    ASSUME NEW a, NEW g, Consistent(a, g), NEW z \in GeoPages, z.scope = g.scope,
           z.root = g.root, z.last = g.last, z.list = g.list, z.people = g.people,
           \/ z.blocked = g.blocked /\ PickQuiet(g) /\ z.pick = g.pick
           \/ z.blocked = g.blocked /\ z.pick.status # "fetching"
           \/ z.blocked = "none"
    PROVE  Renderable(a, z)
<1>1. "none" \notin Scopes /\ z.scope \in Scopes
  BY GeoFields DEF Scopes
<1>2. CacheOK(a, z.scope, z.blocked, z.root)
  BY <1>1 DEF Consistent, CacheOK
<1>3. PickQuiet(z)
  BY <1>1 DEF PickQuiet
<1> QED
  BY <1>2, <1>3 DEF Consistent, Renderable

\* The list turns, or is answered.
LEMMA ListSet ==
    ASSUME NEW a, NEW g, Consistent(a, g), PickQuiet(g), NEW l \in GeoLists, ListOK(a, l),
           Rising(g.root, g.last, l),
           NEW z \in GeoPages, z.scope = g.scope, z.root = g.root, z.last = g.last,
           z.list = l, z.people = g.people, z.blocked = g.blocked, z.pick = g.pick
    PROVE  Renderable(a, z)
  BY DEF Consistent, Renderable, PickQuiet

\* The list of people changes alone.
LEMMA PeopleSet ==
    ASSUME NEW a, NEW g, Consistent(a, g), PickQuiet(g), NEW p \in GeoPeople, PeopleOK(p),
           NEW z, z = [g EXCEPT !.people = p]
    PROVE  Renderable(a, z)
<1>1. /\ z \in GeoPages /\ z.root = g.root /\ z.scope = g.scope /\ z.blocked = g.blocked
      /\ z.last = g.last /\ z.list = g.list /\ z.people = p /\ z.pick = g.pick
  BY DEF GeoPages, Consistent
<1> QED
  BY <1>1 DEF Consistent, Renderable, PickQuiet

\* The scope is read: answers of the panel.
LEMMA RootAnswersKeep ==
    ASSUME Consistent(atlas, geo), OneFrame(geo), RootAnswers
    PROVE  \E z : Renderable(atlas', z) /\ geo' = GeoRendered(z)
<1>0. /\ atlas \in Atlases /\ geo \in GeoPages /\ geo.scope \in Scopes
      /\ ScopeOf(geo) = geo.root[geo.scope] /\ geo.root \in [Scopes -> GeoRoots]
      /\ ScopeOf(geo) \in GeoRoots
  BY GeoFields DEF Consistent, ScopeOf
<1>5. PickQuiet(geo)
  BY DEF OneFrame
<1> DEFINE r == geo.root[geo.scope]
\* A list on screen reads no later snapshot than the scope's.
<1>6. geo.list # NoList /\ geo.list.mount[1] = geo.scope => r.data # 0 /\ geo.list.snap <= r.data
  <2>1. geo.list # NoList => r.data # 0
    BY DEF OneFrame, Shown, Frame, ScopeOf
  <2> QED
    BY <1>0, <2>1 DEF Consistent, Rising
<1>1. /\ r \in GeoRoots /\ r.data \in Nat /\ r.fetch \in Nat /\ r.fetch > 0 /\ ~GeoBlocked(geo)
      /\ r.data # 0 => TakenFor(atlas, r.data, geo.scope)
  BY <1>0, RootFields DEF Consistent, CacheOK, GeoBlocked, RootAnswers
<1>2. CASE \E s \in 1..MaxSnapshots :
             /\ s \in DOMAIN atlas.scope => s \notin atlas.dead /\ atlas.scope[s] = geo.scope /\ s >= ScopeOf(geo).data
             /\ s \in DOMAIN atlas.scope \/ s = Len(atlas.scope) + 1
             /\ atlas' = [atlas EXCEPT !.scope = IF s \in DOMAIN @ THEN @ ELSE Append(@, geo.scope)]
             /\ GeoSays([geo EXCEPT !.root[geo.scope] = [data |-> s, err |-> FALSE, fetch |-> 0]])
  <2>1. PICK s \in 1..MaxSnapshots :
             /\ s \in DOMAIN atlas.scope => atlas.scope[s] = geo.scope /\ s >= r.data
             /\ s \in DOMAIN atlas.scope \/ s = Len(atlas.scope) + 1
             /\ atlas' = [atlas EXCEPT !.scope = IF s \in DOMAIN @ THEN @ ELSE Append(@, geo.scope)]
             /\ geo' = GeoRendered([geo EXCEPT !.root[geo.scope] = [data |-> s, err |-> FALSE, fetch |-> 0]])
    BY <1>0, <1>2 DEF GeoSays
  <2> DEFINE sc == IF s \in DOMAIN atlas.scope THEN atlas.scope ELSE Append(atlas.scope, geo.scope)
             t == [data |-> s, err |-> FALSE, fetch |-> 0]
             z == [geo EXCEPT !.root[geo.scope] = t]
  <2>2. atlas.scope \in Seq(Scopes) /\ atlas.dead \in SUBSET Nat /\ s \in Nat
    BY <1>0 DEF Atlases
  <2>3. /\ sc \in Seq(Scopes) /\ s \in DOMAIN sc /\ sc[s] = geo.scope
        /\ \A n \in DOMAIN atlas.scope : n \in DOMAIN sc /\ sc[n] = atlas.scope[n]
    <3>1. CASE s \in DOMAIN atlas.scope
      BY <2>1, <2>2, <3>1
    <3>2. CASE s \notin DOMAIN atlas.scope
      BY <1>0, <2>1, <2>2, <3>2
    <3> QED
      BY <3>1, <3>2
  <2>4. atlas' = [atlas EXCEPT !.scope = sc]
    BY <2>1
  <2> HIDE DEF sc
  <2>5. atlas' \in Atlases /\ atlas'.scope = sc
    BY <1>0, <2>2, <2>3, <2>4 DEF Atlases
  <2>6. Consistent(atlas', geo) /\ TakenFor(atlas', s, geo.scope)
    BY <2>3, <2>5, AtlasGrows DEF TakenFor
  <2>7. t \in GeoRoots /\ t.data = s /\ t.fetch = 0
    BY <2>2 DEF GeoRoots
  <2> HIDE DEF t
  <2>9. r.data <= s
    <3>1. r.data # 0 => r.data \in 1..Len(atlas.scope)
      BY <1>1, <2>2 DEF TakenFor
    <3>2. s \in DOMAIN atlas.scope \/ s = Len(atlas.scope) + 1
      BY <2>1
    <3> HIDE DEF r
    <3> QED
      BY <1>1, <2>1, <2>2, <3>1, <3>2
  <2>10. geo.list # NoList /\ geo.list.mount[1] = geo.scope => geo.list.snap <= s
    <3>1. geo.list.snap \in Nat
      BY <1>0, GeoFields DEF GeoLists
    <3> HIDE DEF r
    <3> QED
      BY <1>1, <1>6, <2>2, <2>9, <3>1
  <2>8. Renderable(atlas', z)
    BY <1>5, <2>6, <2>7, <2>9, <2>10, RootSet
  <2> QED
    BY <2>1, <2>8 DEF t
<1>3. CASE GeoSays([geo EXCEPT !.root[geo.scope].fetch = @ + 1]) /\ UNCHANGED atlas
  <2> DEFINE m == r.fetch + 1
             t == [r EXCEPT !.fetch = m]
             z == [geo EXCEPT !.root[geo.scope] = t]
  <2>1. t \in GeoRoots /\ t.data = r.data
    <3>1. m \in Nat
      BY <1>1
    <3> HIDE DEF m, r
    <3> QED
      BY <1>1, <3>1 DEF GeoRoots
  <2>2. z = [geo EXCEPT !.root[geo.scope].fetch = @ + 1]
    OBVIOUS
  <2>3. Renderable(atlas, z)
    <3> HIDE DEF t
    <3> QED
      BY <1>1, <1>5, <2>1, RootSet
  <2> QED
    BY <1>3, <2>2, <2>3 DEF GeoSays
<1>4. CASE GeoSays([geo EXCEPT !.root[geo.scope].fetch = 0, !.root[geo.scope].err = TRUE]) /\ UNCHANGED atlas
  <2> DEFINE t == [r EXCEPT !.fetch = 0, !.err = TRUE]
             z == [geo EXCEPT !.root[geo.scope] = t]
  <2>1. t \in GeoRoots /\ t.data = r.data
    <3> HIDE DEF r
    <3> QED
      BY <1>1 DEF GeoRoots
  <2>2. z = [geo EXCEPT !.root[geo.scope].fetch = 0, !.root[geo.scope].err = TRUE]
    <3>1. [[geo.root EXCEPT ![geo.scope].fetch = 0] EXCEPT ![geo.scope].err = TRUE]
            = [geo.root EXCEPT ![geo.scope] = t]
      BY <1>0 DEF GeoRoots
    <3> QED
      BY <1>0, <3>1 DEF GeoPages
  <2>3. Renderable(atlas, z)
    <3> HIDE DEF t
    <3> QED
      BY <1>1, <1>5, <2>1, RootSet
  <2> QED
    BY <1>4, <2>2, <2>3 DEF GeoSays
<1> QED
  BY <1>2, <1>3, <1>4 DEF RootAnswers

\* Selections, lists and people: what the panel answers.
LEMMA DetailsKeep ==
    ASSUME Consistent(atlas, geo), PickQuiet(geo), PickAnswers \/ ListAnswers \/ PeopleAnswer
    PROVE  atlas' = atlas /\ \E z : Renderable(atlas, z) /\ geo' = GeoRendered(z)
<1>0. /\ geo \in GeoPages /\ geo.pick \in GeoPicks /\ geo.list \in GeoLists
      /\ geo.people \in GeoPeople /\ geo.got \in SUBSET PlaceKeys
      /\ ListOK(atlas, geo.list) /\ PeopleOK(geo.people)
      /\ Rising(geo.root, geo.last, geo.list) /\ geo.kind \in {"country", "location"}
  BY GeoFields DEF Consistent, GeoPages
<1>1. atlas' = atlas
  BY DEF PickAnswers, ListAnswers, PeopleAnswer
<1>2. ASSUME GeoSays(Revoked(geo))
      PROVE  \E z : Renderable(atlas, z) /\ geo' = GeoRendered(z)
  BY <1>2, RevokedActs DEF GeoSays, Revoked
<1>3. ASSUME NEW p \in GeoPicks, p.status # "fetching", NEW got \in SUBSET PlaceKeys,
             GeoSays([geo EXCEPT !.pick = p, !.got = got])
      PROVE  \E z : Renderable(atlas, z) /\ geo' = GeoRendered(z)
  <2> DEFINE z == [geo EXCEPT !.pick = p, !.got = got]
  <2>1. /\ z \in GeoPages /\ z.scope = geo.scope /\ z.root = geo.root /\ z.last = geo.last
        /\ z.list = geo.list /\ z.people = geo.people /\ z.blocked = geo.blocked /\ z.pick = p
    BY <1>0 DEF GeoPages
  <2> HIDE DEF z
  <2>2. Renderable(atlas, z)
    BY <1>3, <2>1, OthersSet
  <2> QED
    BY <1>3, <2>2 DEF GeoSays, z
<1>4. CASE PickAnswers
  <2> DEFINE p == [geo.pick EXCEPT !.status = "ok"]
             q == [geo.pick EXCEPT !.status = "failed"]
             got == geo.got \cup {geo.pick.key}
  <2>1. /\ p \in GeoPicks /\ p.status = "ok" /\ q \in GeoPicks /\ q.status = "failed"
        /\ got \in SUBSET PlaceKeys
    BY <1>0 DEF GeoPicks
  <2>2. /\ [geo EXCEPT !.pick.status = "ok", !.got = @ \cup {geo.pick.key}] = [geo EXCEPT !.pick = p, !.got = got]
        /\ [geo EXCEPT !.pick.status = "failed"] = [geo EXCEPT !.pick = q, !.got = geo.got]
    BY <1>0 DEF GeoPages
  <2> HIDE DEF p, q, got
  <2> QED
    BY <1>0, <1>1, <1>2, <1>3, <1>4, <2>1, <2>2 DEF PickAnswers
<1>5. CASE ListAnswers
  <2> DEFINE k == [kind |-> geo.kind, pages |-> geo.list.pages, snap |-> geo.list.snap]
             l == [geo.list EXCEPT !.status = "ok", !.kept = k]
             m == [geo.list EXCEPT !.status = "failed"]
  <2>0. geo.list # NoList
    BY <1>5, NoneOfThem DEF ListAnswers
  <2>1. k \in GeoRows /\ k.snap = geo.list.snap /\ k.snap \in Nat
    BY <1>0 DEF GeoRows, GeoLists
  <2>2. /\ [geo EXCEPT !.list.status = "ok", !.list.kept = k] = [geo EXCEPT !.list = l]
        /\ [geo EXCEPT !.list.status = "failed"] = [geo EXCEPT !.list = m]
    BY <1>0 DEF GeoPages
  <2>3. \/ GeoSays(Revoked(geo))
        \/ Last(geo.list.pages) \in {0, geo.list.snap} /\ GeoSays([geo EXCEPT !.list = l])
        \/ GeoSays([geo EXCEPT !.list = m])
    BY <1>5, <2>2 DEF ListAnswers
  <2> HIDE DEF k
  <2>4. /\ l \in GeoLists /\ l.pages = geo.list.pages /\ l.snap = geo.list.snap
        /\ l.mount = geo.list.mount /\ l.kept = k
        /\ m \in GeoLists /\ m.snap = geo.list.snap /\ m.mount = geo.list.mount
        /\ m.kept = geo.list.kept /\ m.status = "failed"
    BY <1>0, <2>1 DEF GeoLists
  <2> HIDE DEF l, m
  <2>5. ASSUME NEW h \in GeoLists, h.snap = geo.list.snap, h.mount = geo.list.mount,
               ListOK(atlas, h), GeoSays([geo EXCEPT !.list = h])
        PROVE  \E z : Renderable(atlas, z) /\ geo' = GeoRendered(z)
    <3> DEFINE z == [geo EXCEPT !.list = h]
    <3>1. /\ z \in GeoPages /\ z.scope = geo.scope /\ z.root = geo.root /\ z.last = geo.last
          /\ z.list = h /\ z.people = geo.people /\ z.blocked = geo.blocked /\ z.pick = geo.pick
      BY <1>0 DEF GeoPages
    <3> HIDE DEF z
    <3>2. Rising(geo.root, geo.last, h)
      BY <1>0, <2>0, <2>5 DEF Rising
    <3>3. Renderable(atlas, z)
      BY <2>5, <3>1, <3>2, ListSet
    <3> QED
      BY <2>5, <3>3 DEF GeoSays, z
  <2>6. ListOK(atlas, m) /\ (Last(geo.list.pages) \in {0, geo.list.snap} => ListOK(atlas, l))
    BY <1>0, <2>0, <2>1, <2>4 DEF ListOK
  <2> QED
    BY <1>1, <1>2, <2>3, <2>4, <2>5, <2>6
<1>6. CASE PeopleAnswer
  <2>1. ASSUME NEW st \in {"ok", "failed"}, GeoSays([geo EXCEPT !.people.status = st])
        PROVE  \E z : Renderable(atlas, z) /\ geo' = GeoRendered(z)
    <3> DEFINE p == [geo.people EXCEPT !.status = st]
    <3>1. p \in GeoPeople /\ p.pages = geo.people.pages /\ p.snap = geo.people.snap
      BY <1>0 DEF GeoPeople
    <3>2. [geo EXCEPT !.people.status = st] = [geo EXCEPT !.people = p]
      OBVIOUS
    <3> HIDE DEF p
    <3>3. PeopleOK(p)
      BY <1>0, <3>1 DEF PeopleOK
    <3> QED
      BY <2>1, <3>1, <3>2, <3>3, PeopleSet DEF GeoSays
  <2> QED
    BY <1>1, <1>2, <1>6, <2>1 DEF PeopleAnswer
<1> QED
  BY <1>1, <1>4, <1>5, <1>6

\* Timers, the tab, and the sheet of the server's position.
LEMMA SurroundingsKeep ==
    ASSUME Consistent(atlas, geo), PickQuiet(geo),
           \/ ClockTicks \/ Poll \/ TabFlips \/ OpenPosition \/ ClosePosition \/ EditForm
           \/ ApplyForm \/ PositionSaved \/ OrphanAnswered
    PROVE  atlas' = atlas /\ \E z : Renderable(atlas, z) /\ geo' = GeoRendered(z)
<1>0. /\ atlas \in Atlases /\ geo \in GeoPages /\ geo.form \in GeoForms /\ geo.old \in SUBSET Nat
      /\ geo.scope \in Scopes /\ geo.root \in [Scopes -> GeoRoots] /\ geo.visible \in BOOLEAN
  BY GeoFields DEF Consistent
<1>1. atlas' = atlas
  BY DEF ClockTicks, Poll, TabFlips, OpenPosition, ClosePosition, EditForm, ApplyForm,
         PositionSaved, OrphanAnswered, GeoClick
<1> DEFINE Goal == \E z : Renderable(atlas, z) /\ geo' = GeoRendered(z)
<1> SUFFICES Goal
  BY <1>1
<1>2. ASSUME NEW z \in GeoPages, geo' = GeoRendered(z), z.scope = geo.scope, z.root = geo.root,
             z.last = geo.last, z.list = geo.list, z.people = geo.people,
             z.blocked = geo.blocked, z.pick = geo.pick
      PROVE  Goal
  BY <1>2, OthersSet
<1>3. ASSUME NEW f \in GeoForms, geo' = GeoRendered([geo EXCEPT !.form = f]) PROVE Goal
  <2> DEFINE z == [geo EXCEPT !.form = f]
  <2>1. /\ z \in GeoPages /\ z.scope = geo.scope /\ z.root = geo.root /\ z.last = geo.last
        /\ z.list = geo.list /\ z.people = geo.people /\ z.blocked = geo.blocked /\ z.pick = geo.pick
    BY <1>0 DEF GeoPages
  <2> HIDE DEF z
  <2> QED
    BY <1>2, <1>3, <2>1 DEF z
<1>4. ASSUME NEW f \in GeoForms, geo' = GeoRendered([Invalidated(geo) EXCEPT !.form = f]) PROVE Goal
  <2> DEFINE y == Invalidated(geo)
             z == [y EXCEPT !.form = f]
  <2>1. y = [geo EXCEPT !.blocked = geo.blocked, !.root = [s \in Scopes |-> NoRoot], !.got = {},
                        !.last = NoFrame, !.pick = IdlePick]
    BY <1>0 DEF Invalidated, Revoked, GeoPages
  <2>2. Renderable(atlas, y)
    <3> HIDE DEF y
    <3> QED
      BY <2>1, RevokedActs
  <2> HIDE DEF y
  <2>3. /\ z \in GeoPages /\ z.scope = y.scope /\ z.root = y.root /\ z.last = y.last
        /\ z.list = y.list /\ z.people = y.people /\ z.blocked = y.blocked /\ z.pick = y.pick
        /\ z.country = y.country /\ z.place = y.place
    BY <2>2 DEF GeoPages, Renderable, Consistent
  <2> HIDE DEF z
  <2>4. Renderable(atlas, z)
    BY <2>2, <2>3 DEF Renderable, Consistent, PickQuiet, HasSelection
  <2> QED
    BY <1>4, <2>4 DEF z, y
<1>5. CASE ClockTicks
  <2>1. PICK s \in atlas.dead : geo' = GeoRendered([geo EXCEPT !.old = @ \cup {s}])
    BY <1>5 DEF ClockTicks, GeoSays
  <2> DEFINE old == geo.old \cup {s}
             z == [geo EXCEPT !.old = old]
  <2>2. old \in SUBSET Nat
    BY <1>0 DEF Atlases
  <2> HIDE DEF old
  <2>3. /\ z \in GeoPages /\ z.scope = geo.scope /\ z.root = geo.root /\ z.last = geo.last
        /\ z.list = geo.list /\ z.people = geo.people /\ z.blocked = geo.blocked /\ z.pick = geo.pick
    BY <1>0, <2>2 DEF GeoPages
  <2> HIDE DEF z
  <2> QED
    BY <1>2, <2>1, <2>3 DEF z, old
<1> DEFINE r == geo.root[geo.scope]
           t == [r EXCEPT !.fetch = 1]
           w == [geo EXCEPT !.root[geo.scope] = t]
<1>6. /\ t \in GeoRoots /\ (t.data # 0 => TakenFor(atlas, t.data, geo.scope))
      /\ w = [geo EXCEPT !.root[geo.scope].fetch = 1] /\ t.data = geo.root[geo.scope].data
  <2>1. r \in GeoRoots /\ (r.data # 0 => TakenFor(atlas, r.data, geo.scope))
    BY <1>0 DEF Consistent, CacheOK
  <2>2. t \in GeoRoots /\ t.data = r.data
    <3> HIDE DEF r
    <3> QED
      BY <2>1 DEF GeoRoots
  <2> QED
    BY <2>1, <2>2
<1>7. ~GeoBlocked(geo) => Renderable(atlas, w)
  <2>1. Consistent(atlas, geo) /\ PickQuiet(geo)
    BY DEF GeoInv, OneFrame
  <2> HIDE DEF t
  <2> QED
    BY <1>6, <2>1, RootSet
<1>8. CASE Poll
  BY <1>6, <1>7, <1>8 DEF Poll, GeoSays
<1>9. CASE TabFlips
  <2>1. geo' = GeoRendered(VisibilityFlips(geo))
    BY <1>9 DEF TabFlips
  <2>2. CASE ~geo.visible /\ ~Paused(geo) /\ ~GeoBlocked(geo) /\ ScopeOf(geo).fetch = 0
    <3> DEFINE z == [w EXCEPT !.visible = TRUE]
    <3>1. VisibilityFlips(geo) = z
      <4>1. VisibilityFlips(geo) = [geo EXCEPT !.visible = TRUE, !.root[geo.scope].fetch = 1]
        BY <2>2 DEF VisibilityFlips
      <4> QED
        BY <1>0, <1>6, <4>1 DEF GeoPages
    <3>2. Renderable(atlas, w)
      BY <1>7, <2>2
    <3> HIDE DEF w
    <3>3. /\ z \in GeoPages /\ z.scope = w.scope /\ z.root = w.root /\ z.last = w.last
          /\ z.list = w.list /\ z.people = w.people /\ z.blocked = w.blocked /\ z.pick = w.pick
          /\ z.country = w.country /\ z.place = w.place
      BY <3>2 DEF GeoPages, Renderable, Consistent
    <3> HIDE DEF z
    <3>4. Renderable(atlas, z)
      BY <3>2, <3>3 DEF Renderable, Consistent, PickQuiet, HasSelection
    <3> QED
      BY <2>1, <3>1, <3>4
  <2>3. CASE VisibilityFlips(geo) = [geo EXCEPT !.visible = ~@]
    <3> DEFINE z == [geo EXCEPT !.visible = ~@]
    <3>1. /\ z \in GeoPages /\ z.scope = geo.scope /\ z.root = geo.root /\ z.last = geo.last
          /\ z.list = geo.list /\ z.people = geo.people /\ z.blocked = geo.blocked /\ z.pick = geo.pick
      BY <1>0 DEF GeoPages
    <3> HIDE DEF z
    <3> QED
      BY <1>2, <2>1, <2>3, <3>1 DEF z
  <2> QED
    BY <2>2, <2>3 DEF VisibilityFlips
\* The sheet's own fields.
<1>10. CASE OpenPosition \/ ClosePosition \/ EditForm \/ ApplyForm
  <2> DEFINE o == geo.form.saving \/ geo.form.orphan
  <2>1. \/ geo' = GeoRendered([geo EXCEPT !.form.open = TRUE])
        \/ geo' = GeoRendered([geo EXCEPT !.form = [NoForm EXCEPT !.orphan = o]])
        \/ \E v \in 1..2 : geo' = GeoRendered([geo EXCEPT !.form.draft = v])
        \/ geo' = GeoRendered([geo EXCEPT !.form.saving = TRUE, !.form.sent = geo.form.draft])
    BY <1>10 DEF OpenPosition, ClosePosition, EditForm, ApplyForm, GeoSays, GeoClick
  <2> DEFINE f1 == [geo.form EXCEPT !.open = TRUE]
             f2 == [NoForm EXCEPT !.orphan = o]
             f3(v) == [geo.form EXCEPT !.draft = v]
             f4 == [geo.form EXCEPT !.saving = TRUE, !.sent = geo.form.draft]
  <2>2. f1 \in GeoForms /\ f4 \in GeoForms /\ \A v \in 1..2 : f3(v) \in GeoForms
    <3>1. f1 \in GeoForms
      BY <1>0 DEF GeoForms
    <3>2. f4 \in GeoForms
      BY <1>0 DEF GeoForms
    <3>3. \A v \in 1..2 : f3(v) \in GeoForms
      BY <1>0 DEF GeoForms
    <3> QED
      BY <3>1, <3>2, <3>3
  <2>3. f2 \in GeoForms
    <3>1. o \in BOOLEAN
      BY <1>0 DEF GeoForms
    <3> HIDE DEF o
    <3> QED
      BY <3>1 DEF GeoForms, NoForm
  <2>4. /\ [geo EXCEPT !.form.open = TRUE] = [geo EXCEPT !.form = f1]
        /\ \A v \in 1..2 : [geo EXCEPT !.form.draft = v] = [geo EXCEPT !.form = f3(v)]
        /\ [geo EXCEPT !.form.saving = TRUE, !.form.sent = geo.form.draft] = [geo EXCEPT !.form = f4]
    BY <1>0 DEF GeoPages
  <2> HIDE DEF f1, f2, f3, f4
  <2> QED
    BY <1>3, <2>1, <2>2, <2>3, <2>4 DEF f2
<1>11. CASE PositionSaved \/ OrphanAnswered
  <2> DEFINE y == Invalidated(geo)
             f1 == [geo.form EXCEPT !.saving = FALSE, !.sent = 0, !.draft = 0]
             f2 == [geo.form EXCEPT !.saving = FALSE, !.sent = 0]
             f3 == [geo.form EXCEPT !.orphan = FALSE]
  <2>1. \/ geo' = GeoRendered([y EXCEPT !.form.saving = FALSE, !.form.sent = 0, !.form.draft = 0])
        \/ geo' = GeoRendered([geo EXCEPT !.form.saving = FALSE, !.form.sent = 0])
        \/ geo' = GeoRendered([y EXCEPT !.form.orphan = FALSE])
        \/ geo' = GeoRendered([geo EXCEPT !.form.orphan = FALSE])
    BY <1>11 DEF PositionSaved, OrphanAnswered, GeoSays
  <2>2. f1 \in GeoForms /\ f2 \in GeoForms /\ f3 \in GeoForms
    BY <1>0 DEF GeoForms
  <2>3. y.form = geo.form /\ y \in GeoPages
    <3>1. y = [geo EXCEPT !.blocked = geo.blocked, !.root = [s \in Scopes |-> NoRoot], !.got = {},
                          !.last = NoFrame, !.pick = IdlePick]
      BY <1>0 DEF Invalidated, Revoked, GeoPages
    <3> HIDE DEF y
    <3> QED
      BY <3>1, RevokedActs DEF Renderable, Consistent
  <2> HIDE DEF y
  <2>4. /\ [y EXCEPT !.form.saving = FALSE, !.form.sent = 0, !.form.draft = 0] = [y EXCEPT !.form = f1]
        /\ [geo EXCEPT !.form.saving = FALSE, !.form.sent = 0] = [geo EXCEPT !.form = f2]
        /\ [y EXCEPT !.form.orphan = FALSE] = [y EXCEPT !.form = f3]
        /\ [geo EXCEPT !.form.orphan = FALSE] = [geo EXCEPT !.form = f3]
    BY <1>0, <2>3 DEF GeoPages
  <2> HIDE DEF f1, f2, f3
  <2> QED
    BY <1>3, <1>4, <2>1, <2>2, <2>4 DEF y
<1> HIDE DEF Goal
<1> QED
  BY <1>5, <1>8, <1>9, <1>10, <1>11

\* Choosing a scope, a country or a place.
LEMMA ChoicesKeep ==
    ASSUME Consistent(atlas, geo), PickQuiet(geo),
           ChooseScope \/ ClearSelection \/ PickFromList \/ PickOnMap
    PROVE  atlas' = atlas /\ \E z : Renderable(atlas, z) /\ geo' = GeoRendered(z)
<1>0. /\ atlas \in Atlases /\ geo \in GeoPages /\ geo.scope \in Scopes
      /\ geo.root \in [Scopes -> GeoRoots] /\ geo.country \in BOOLEAN
  BY GeoFields DEF Consistent
<1>1. atlas' = atlas
  BY DEF ChooseScope, ClearSelection, PickFromList, PickOnMap, GeoClick
<1> DEFINE Goal == \E z : Renderable(atlas, z) /\ geo' = GeoRendered(z)
<1> SUFFICES Goal
  BY <1>1
<1>2. CASE ClearSelection \/ PickFromList \/ PickOnMap
  <2>1. PICK country \in BOOLEAN, place \in BOOLEAN : geo' = GeoRendered(Choose(geo, country, place))
    BY <1>0, <1>2 DEF ClearSelection, PickFromList, PickOnMap, GeoClick
  <2> DEFINE z == Choose(geo, country, place)
  <2>2. /\ z \in GeoPages /\ z.scope = geo.scope /\ z.root = geo.root /\ z.last = geo.last
        /\ z.list = geo.list /\ z.people = geo.people /\ z.blocked = geo.blocked /\ z.pick = geo.pick
    BY <1>0 DEF GeoPages, Choose
  <2>3. Renderable(atlas, z)
    <3> HIDE DEF z
    <3> QED
      BY <2>2, OthersSet
  <2> QED
    BY <2>1, <2>3
<1>3. CASE ChooseScope
  <2>1. PICK s \in Scopes \ {geo.scope}, stale \in BOOLEAN :
          geo' = GeoRendered(Choose([geo EXCEPT !.scope = s, !.root[geo.scope].fetch = 0,
                   !.root[s].fetch = IF stale /\ geo.visible /\ geo.root[s].data # 0 /\ geo.blocked # s
                                     THEN 1 ELSE @], FALSE, FALSE))
    BY <1>3 DEF ChooseScope, GeoClick
  <2> DEFINE n == IF stale /\ geo.visible /\ geo.root[s].data # 0 /\ geo.blocked # s
                  THEN 1 ELSE geo.root[s].fetch
             q == [geo.root EXCEPT ![geo.scope].fetch = 0, ![s].fetch = n]
             y == [geo EXCEPT !.scope = s, !.root = q]
             z == Choose(y, FALSE, FALSE)
  <2>2. geo.root[s] \in GeoRoots /\ geo.root[s].fetch = 0
    BY <1>0 DEF Consistent, CacheOK
  <2>3. n \in Nat /\ (geo.blocked = s => n = 0)
    BY <2>2
  <2>4. y = [geo EXCEPT !.scope = s, !.root[geo.scope].fetch = 0,
                   !.root[s].fetch = IF stale /\ geo.visible /\ geo.root[s].data # 0 /\ geo.blocked # s
                                     THEN 1 ELSE @]
    BY <1>0 DEF GeoPages
  <2> HIDE DEF n
  <2>5. /\ q \in [Scopes -> GeoRoots]
        /\ \A u \in Scopes : q[u].data = geo.root[u].data
        /\ q[s].fetch = n /\ q[geo.scope].fetch = 0
    BY <1>0, <2>3 DEF GeoRoots
  <2> HIDE DEF q
  <2>6. CacheOK(atlas, s, geo.blocked, q)
    <3>1. \A u \in Scopes : u = s \/ u = geo.scope
      BY <1>0 DEF Scopes
    <3> QED
      BY <2>3, <2>5, <3>1 DEF Consistent, CacheOK
  <2>9. Rising(q, geo.last, geo.list)
    BY <2>5 DEF Consistent, Rising
  <2>7. /\ z \in GeoPages /\ z.scope = s /\ z.root = q /\ z.last = geo.last
        /\ z.list = geo.list /\ z.people = geo.people /\ z.blocked = geo.blocked
        /\ ~z.country /\ ~z.place
    BY <1>0, <2>5 DEF GeoPages, Choose
  <2>8. Renderable(atlas, z)
    <3> HIDE DEF z
    <3> QED
      BY <2>6, <2>7, <2>9 DEF Consistent, Renderable, HasSelection
  <2> QED
    BY <2>1, <2>4, <2>8
<1> HIDE DEF Goal
<1> QED
  BY <1>2, <1>3

\* Asking again, turning pages, another kind of list.
LEMMA PagingKeeps ==
    ASSUME Consistent(atlas, geo), PickQuiet(geo),
           Refresh \/ NextPage \/ PreviousPage \/ SetKind \/ TurnPeople
    PROVE  atlas' = atlas /\ \E z : Renderable(atlas, z) /\ geo' = GeoRendered(z)
<1>0. /\ atlas \in Atlases /\ geo \in GeoPages /\ geo.scope \in Scopes
      /\ geo.root \in [Scopes -> GeoRoots] /\ geo.list \in GeoLists /\ geo.people \in GeoPeople
      /\ geo.list.pages \in Seq(Nat) /\ geo.list.snap \in Nat
      /\ geo.people.pages \in Seq(Nat) /\ geo.people.snap \in Nat
  BY GeoFields DEF Consistent, GeoLists, GeoPeople
<1>1. atlas' = atlas
  BY DEF Refresh, NextPage, PreviousPage, PagesTurned, SetKind, TurnPeople, GeoClick
<1> DEFINE Goal == \E z : Renderable(atlas, z) /\ geo' = GeoRendered(z)
<1> SUFFICES Goal
  BY <1>1
<1>2. CASE Refresh
  <2> DEFINE r == geo.root[geo.scope]
             n == IF r.fetch = 0 THEN 1 ELSE r.fetch
             t == [r EXCEPT !.fetch = n]
             q == [geo.root EXCEPT ![geo.scope] = t]
             z == [geo EXCEPT !.paging = FALSE, !.blocked = "none", !.list = NoList,
                              !.people = NoPeople, !.root = q]
  <2>1. geo' = GeoRendered([geo EXCEPT !.paging = FALSE, !.blocked = "none", !.list = NoList,
                              !.people = NoPeople, !.root[geo.scope].fetch = IF @ = 0 THEN 1 ELSE @])
    BY <1>2 DEF Refresh, GeoClick
  <2>2. z = [geo EXCEPT !.paging = FALSE, !.blocked = "none", !.list = NoList,
                        !.people = NoPeople, !.root[geo.scope].fetch = IF @ = 0 THEN 1 ELSE @]
    BY <1>0 DEF GeoPages
  <2>3. r \in GeoRoots /\ n \in Nat
    BY <1>0, RootFields
  <2>4. t \in GeoRoots /\ t.data = r.data
    <3> HIDE DEF r, n
    <3> QED
      BY <2>3 DEF GeoRoots
  <2>5. /\ q \in [Scopes -> GeoRoots]
        /\ \A s \in Scopes : q[s].data = geo.root[s].data
        /\ \A s \in Scopes : s # geo.scope => q[s] = geo.root[s]
    <3> HIDE DEF t
    <3> QED
      BY <1>0, <2>4
  <2> HIDE DEF q
  <2>6. CacheOK(atlas, geo.scope, "none", q)
    <3>1. geo.scope # "none"
      BY <1>0 DEF Scopes
    <3> QED
      <4>0. CacheOK(atlas, geo.scope, geo.blocked, geo.root)
        BY DEF Consistent
      <4>1. \A s \in Scopes : q[s].data # 0 => TakenFor(atlas, q[s].data, s)
        BY <2>5, <4>0 DEF CacheOK
      <4>2. \A s \in Scopes : s # geo.scope => q[s].fetch = 0
        BY <2>5, <4>0 DEF CacheOK
      <4> QED
        BY <3>1, <4>1, <4>2 DEF CacheOK
  <2>7. /\ z \in GeoPages /\ z.scope = geo.scope /\ z.root = q /\ z.last = geo.last
        /\ z.list = NoList /\ z.people = NoPeople /\ z.blocked = "none"
    BY <1>0, <2>5, NoneOfThem DEF GeoPages
  <2>8. PickQuiet(z)
    <3> HIDE DEF z
    <3> QED
      BY <1>0, <2>7 DEF PickQuiet, Scopes
  <2>9. ListOK(atlas, NoList) /\ PeopleOK(NoPeople) /\ Rising(q, geo.last, NoList)
    <3>1. Rising(geo.root, geo.last, geo.list)
      BY DEF Consistent
    <3> QED
      BY <2>5, <3>1, NoneOfThem DEF ListOK, PeopleOK, Rising
  <2>10. Renderable(atlas, z)
    <3> HIDE DEF z
    <3> QED
      BY <2>6, <2>7, <2>8, <2>9 DEF Consistent, Renderable
  <2> QED
    BY <2>1, <2>2, <2>10
<1>3. ASSUME NEW ps \in Seq(Nat), NEW paging \in BOOLEAN, NEW st \in {"off", "fetching"},
             NEW kind \in {"country", "location"}, geo.list # NoList,
             geo' = GeoRendered([geo EXCEPT !.kind = kind, !.paging = paging, !.list.pages = ps,
                                            !.list.status = st])
      PROVE  Goal
  <2> DEFINE l == [geo.list EXCEPT !.pages = ps, !.status = st]
             z == [geo EXCEPT !.kind = kind, !.paging = paging, !.list = l]
  <2>1. z = [geo EXCEPT !.kind = kind, !.paging = paging, !.list.pages = ps, !.list.status = st]
    BY <1>0 DEF GeoPages
  <2>2. /\ l \in GeoLists /\ l.status = st /\ l.snap = geo.list.snap
        /\ l.mount = geo.list.mount /\ l.kept = geo.list.kept
    BY <1>0 DEF GeoLists
  <2> HIDE DEF l
  <2>3. ListOK(atlas, l) /\ Rising(geo.root, geo.last, l)
    <3>1. ListOK(atlas, geo.list) /\ Rising(geo.root, geo.last, geo.list)
      BY DEF Consistent
    <3> QED
      BY <1>3, <2>2, <3>1 DEF ListOK, Rising
  <2>4. /\ z \in GeoPages /\ z.scope = geo.scope /\ z.root = geo.root /\ z.last = geo.last
        /\ z.list = l /\ z.people = geo.people /\ z.blocked = geo.blocked /\ z.pick = geo.pick
    BY <1>0, <2>2 DEF GeoPages
  <2>5. Renderable(atlas, z)
    <3> HIDE DEF z
    <3> QED
      BY <2>2, <2>3, <2>4, ListSet
  <2> QED
    BY <1>3, <2>1, <2>5
<1>4. geo.kind \in {"country", "location"}
  BY <1>0 DEF GeoPages
<1>5. CASE NextPage \/ PreviousPage
  <2>1. PICK ps \in {Append(geo.list.pages, geo.list.snap), Front(geo.list.pages)} : PagesTurned(ps)
    BY <1>5 DEF NextPage, PreviousPage
  <2>2. ps \in Seq(Nat)
    <3>1. Append(geo.list.pages, geo.list.snap) \in Seq(Nat)
      BY <1>0
    <3>2. Front(geo.list.pages) \in Seq(Nat)
      <4> DEFINE s == geo.list.pages
      <4>1. s \in Seq(Nat)
        BY <1>0
      <4> HIDE DEF s
      <4>2. Front(s) \in Seq(Nat)
        BY <4>1 DEF Front
      <4> QED
        BY <4>2 DEF s
    <3> QED
      BY <3>1, <3>2
  <2> DEFINE paging == Len(ps) > 1
             z == [geo EXCEPT !.list.pages = ps, !.list.status = "fetching", !.paging = paging]
  <2>3. geo' = GeoRendered(z) /\ paging \in BOOLEAN
    BY <2>1 DEF PagesTurned, GeoClick
  <2> HIDE DEF paging
  <2>4. z = [geo EXCEPT !.kind = geo.kind, !.paging = paging, !.list.pages = ps,
                        !.list.status = "fetching"]
    <3> DEFINE l == [geo.list EXCEPT !.pages = ps, !.status = "fetching"]
               y == [geo EXCEPT !.kind = geo.kind, !.paging = paging, !.list = l]
    <3>2. z = y
      <4>1. z = [geo EXCEPT !.list = l, !.paging = paging]
        BY <1>0 DEF GeoPages
      <4> HIDE DEF l
      <4> QED
        BY <1>0, <4>1 DEF GeoPages
    <3>3. y = [geo EXCEPT !.kind = geo.kind, !.paging = paging, !.list.pages = ps,
                          !.list.status = "fetching"]
      BY <1>0 DEF GeoPages
    <3> QED
      BY <3>2, <3>3
  <2>5. geo.list # NoList
    BY <1>5, NoneOfThem DEF NextPage, PreviousPage, Listed
  <2> HIDE DEF z
  <2> QED
    BY <1>3, <1>4, <2>2, <2>3, <2>4, <2>5
<1>6. CASE SetKind
  <2> DEFINE st == IF Expired(geo) THEN "off" ELSE "fetching"
  <2>1. PICK k \in {"country", "location"} :
          geo' = GeoRendered([geo EXCEPT !.kind = k, !.paging = FALSE, !.list.pages = FirstPage,
                                         !.list.status = st])
          /\ geo.list # NoList
    BY <1>6 DEF SetKind, GeoClick
  <2>2. st \in {"off", "fetching"}
    OBVIOUS
  <2> HIDE DEF st
  <2> QED
    BY <1>3, <2>1, <2>2, FirstPages
<1>7. CASE TurnPeople
  <2> DEFINE ps0 == geo.people.pages
             n == geo.people.snap
  <2>1. PICK ps \in {Append(ps0, n), Front(ps0)} :
          geo' = GeoRendered([geo EXCEPT !.people.pages = ps, !.people.status = "fetching"])
    BY <1>7 DEF TurnPeople, GeoClick
  <2>2. ps0 \in Seq(Nat) /\ n \in Nat /\ \A i \in DOMAIN ps0 : ps0[i] \in {0, n}
    BY <1>0 DEF Consistent, PeopleOK
  <2> HIDE DEF ps0, n
  <2>3. ps \in Seq(Nat) /\ \A i \in DOMAIN ps : ps[i] \in {0, n}
    <3>1. CASE ps = Append(ps0, n)
      BY <2>2, <3>1
    <3>2. CASE ps = Front(ps0)
      BY <2>2, <3>2 DEF Front
    <3> QED
      BY <2>1, <3>1, <3>2
  <2> DEFINE p == [geo.people EXCEPT !.pages = ps, !.status = "fetching"]
  <2>4. p \in GeoPeople /\ p.pages = ps /\ p.snap = n
    BY <1>0, <2>3 DEF GeoPeople, n
  <2>5. [geo EXCEPT !.people.pages = ps, !.people.status = "fetching"] = [geo EXCEPT !.people = p]
    BY <1>0 DEF GeoPages
  <2> HIDE DEF p
  <2>6. PeopleOK(p)
    BY <2>3, <2>4 DEF PeopleOK
  <2> QED
    BY <2>1, <2>4, <2>5, <2>6, PeopleSet
<1> HIDE DEF Goal
<1> QED
  BY <1>2, <1>5, <1>6, <1>7

\* The invariant of the page is inductive.
LEMMA GeoInvStep == ASSUME GeoInv, GeoNext PROVE GeoInv'
<1>0. Consistent(atlas, geo) /\ OneFrame(geo) /\ PickQuiet(geo)
  BY DEF GeoInv, OneFrame
<1>1. ASSUME NEW z, Renderable(atlas', z), geo' = GeoRendered(z) PROVE GeoInv'
  BY <1>1, RenderActs DEF GeoInv, Renderable
<1>2. CASE RootAnswers
  BY <1>0, <1>1, <1>2, RootAnswersKeep
<1>3. CASE PickAnswers \/ ListAnswers \/ PeopleAnswer
  BY <1>0, <1>1, <1>3, DetailsKeep
<1>4. CASE \/ ClockTicks \/ Poll \/ TabFlips \/ OpenPosition \/ ClosePosition \/ EditForm
           \/ ApplyForm \/ PositionSaved \/ OrphanAnswered
  BY <1>0, <1>1, <1>4, SurroundingsKeep
<1>5. CASE ChooseScope \/ ClearSelection \/ PickFromList \/ PickOnMap
  BY <1>0, <1>1, <1>5, ChoicesKeep
<1>6. CASE Refresh \/ NextPage \/ PreviousPage \/ SetKind \/ TurnPeople
  BY <1>0, <1>1, <1>6, PagingKeeps
<1>7. CASE SnapshotExpires
  <2>1. PICK s \in DOMAIN atlas.scope : atlas' = [atlas EXCEPT !.dead = @ \cup {s}] /\ geo' = geo
    BY <1>7 DEF SnapshotExpires
  <2>2. atlas \in Atlases /\ s \in Nat
    BY <1>0 DEF Consistent, Atlases
  <2> DEFINE d == atlas.dead \cup {s}
  <2>3. d \in SUBSET Nat
    BY <2>2 DEF Atlases
  <2>4. atlas' = [atlas EXCEPT !.dead = d]
    BY <2>1
  <2> HIDE DEF d
  <2>5. atlas' \in Atlases /\ atlas'.scope = atlas.scope
    BY <2>2, <2>3, <2>4 DEF Atlases
  <2>6. Consistent(atlas', geo)
    BY <1>0, <2>5, AtlasGrows DEF TakenFor
  <2> QED
    BY <1>0, <2>1, <2>6 DEF GeoInv
<1> QED
  BY <1>2, <1>3, <1>4, <1>5, <1>6, <1>7 DEF GeoNext

\* The page opens empty.
LEMMA GeoInvInit == GeoInit => GeoInv
<1> SUFFICES ASSUME GeoInit PROVE GeoInv
  OBVIOUS
<1> DEFINE q == [s \in Scopes |-> NoRoot]
           e == {}
           z == [scope |-> "now", country |-> FALSE, place |-> FALSE, visible |-> TRUE,
                 root |-> q, got |-> e, pick |-> IdlePick, last |-> NoFrame,
                 blocked |-> "none", old |-> e, paging |-> FALSE, kind |-> "country",
                 list |-> NoList, people |-> NoPeople, form |-> NoForm]
<1>1. /\ q \in [Scopes -> GeoRoots] /\ \A s \in Scopes : q[s].data = 0 /\ q[s].fetch = 0
  BY NoneOfThem
<1>2. e \in SUBSET PlaceKeys /\ e \in SUBSET Nat /\ NoForm \in GeoForms /\ "now" \in Scopes
  BY DEF NoForm, GeoForms, Scopes
<1>3. atlas \in Atlases
  <2> DEFINE n == << >>
  <2>1. n \in Seq(Scopes) /\ e \in SUBSET Nat /\ atlas = [scope |-> n, dead |-> e]
    BY DEF GeoInit
  <2> HIDE DEF n, e
  <2> QED
    BY <2>1 DEF Atlases
<1>4. geo = GeoRendered(z)
  BY DEF GeoInit
<1> HIDE DEF q, e
<1>5. /\ z \in GeoPages /\ z.scope = "now" /\ z.root = q /\ z.last = NoFrame
      /\ z.list = NoList /\ z.people = NoPeople /\ z.blocked = "none" /\ ~z.country /\ ~z.place
  BY <1>1, <1>2, NoneOfThem DEF GeoPages
<1> HIDE DEF z
<1>6. /\ CacheOK(atlas, "now", "none", q) /\ KeptOK(atlas, NoFrame) /\ ListOK(atlas, NoList)
      /\ PeopleOK(NoPeople) /\ Rising(q, NoFrame, NoList)
  BY <1>1, NoneOfThem DEF CacheOK, KeptOK, ListOK, PeopleOK, Rising
<1>7. Consistent(atlas, z) /\ ~HasSelection(z)
  BY <1>3, <1>5, <1>6 DEF Consistent, HasSelection
<1> QED
  BY <1>4, <1>7, RenderActs DEF GeoInv

\* Totals, selection and people of one snapshot, placeholders that cannot be picked,
\* and nothing of a revoked snapshot.
LEMMA GeoIsCurrent == GeoInv => FrameIsWhole /\ RevokedIsQuiet
<1> SUFFICES ASSUME GeoInv PROVE FrameIsWhole /\ RevokedIsQuiet
  OBVIOUS
<1>0. Consistent(atlas, geo) /\ OneFrame(geo)
  BY DEF GeoInv
<1> DEFINE sh == Shown(geo)
<1>1. FrameIsWhole
  <2> SUFFICES ASSUME sh # NoFrame
               PROVE  /\ sh.active = <<sh.base, geo.country, geo.place>>
                      /\ atlas.scope[sh.base] = geo.scope
                      /\ geo.list.snap = sh.base
                      /\ RowsOf(geo) \notin {0, sh.base} =>
                           RowsOf(geo) < sh.base /\ atlas.scope[RowsOf(geo)] = geo.scope /\ ~Listed
                      /\ Listed => Last(geo.list.pages) \in {0, geo.list.snap}
                      /\ geo.people # NoPeople =>
                           \A i \in DOMAIN geo.people.pages : geo.people.pages[i] \in {0, sh.base}
    BY DEF FrameIsWhole
  <2>1. sh = Frame(geo)
    BY DEF Shown
  <2>2. /\ sh.active = <<sh.base, geo.country, geo.place>> /\ atlas.scope[sh.base] = geo.scope
    BY <1>0, <2>1, FrameIsOne DEF TakenFor
  <2>3. /\ geo.list.snap = sh.base
        /\ geo.people # NoPeople => geo.people.snap = sh.active[1]
    BY <1>0 DEF OneFrame
  <2>8. /\ geo.list \in GeoLists /\ geo.list.mount = <<geo.scope, geo.country>>
        /\ geo.list.mount[1] = geo.scope /\ geo.list # NoList /\ ListOK(atlas, geo.list)
    <3>1. geo.list \in GeoLists /\ ListOK(atlas, geo.list)
      BY <1>0, GeoFields DEF Consistent
    <3>2. geo.list.mount = <<geo.scope, geo.country>>
      BY <1>0 DEF OneFrame
    <3>3. geo.list.mount[1] = geo.scope /\ geo.list.mount # <<>>
      BY <3>2
    <3> QED
      BY <3>1, <3>2, <3>3, NoneOfThem
  <2>4. Listed => Last(geo.list.pages) \in {0, geo.list.snap}
    BY <2>8 DEF Listed, ListOK
  <2>7. RowsOf(geo) \notin {0, sh.base} =>
          RowsOf(geo) < sh.base /\ atlas.scope[RowsOf(geo)] = geo.scope /\ ~Listed
    <3> SUFFICES ASSUME RowsOf(geo) \notin {0, sh.base}
                 PROVE  RowsOf(geo) < sh.base /\ atlas.scope[RowsOf(geo)] = geo.scope /\ ~Listed
      OBVIOUS
    <3> DEFINE n == geo.list.kept.snap
    <3>1. RowsOf(geo) = n /\ geo.list.status = "fetching" /\ n # 0 /\ n # sh.base
      BY <2>3 DEF RowsOf
    <3>2. n <= geo.list.snap /\ TakenFor(atlas, n, geo.scope)
      BY <2>8, <3>1 DEF ListOK
    <3>3. n \in Nat /\ geo.list.snap \in Nat
      BY <2>8 DEF GeoLists, GeoRows
    <3> HIDE DEF n
    <3>4. n < sh.base
      BY <2>3, <3>1, <3>2, <3>3
    <3> QED
      BY <3>1, <3>2, <3>4 DEF Listed, TakenFor
  <2>5. \A i \in DOMAIN geo.people.pages : geo.people.pages[i] \in {0, geo.people.snap}
    BY <1>0 DEF Consistent, PeopleOK
  <2>6. sh.active[1] = sh.base
    BY <2>2
  <2> HIDE DEF sh
  <2> QED
    BY <2>2, <2>3, <2>4, <2>5, <2>6, <2>7
<1>2. RevokedIsQuiet
  <2> SUFFICES ASSUME GeoBlocked(geo)
               PROVE  /\ GeoError(geo) = "expired" /\ ScopeOf(geo).fetch = 0
                      /\ geo.pick.status # "fetching" /\ geo.list = NoList /\ geo.people = NoPeople
    BY DEF RevokedIsQuiet
  <2>1. geo.scope \in Scopes /\ geo.blocked = geo.scope
    BY <1>0, GeoFields DEF Consistent, GeoBlocked
  <2>2. ScopeOf(geo).fetch = 0
    BY <1>0, <2>1 DEF Consistent, CacheOK, ScopeOf
  <2>3. GeoError(geo) = "expired" /\ Shown(geo) = NoFrame
    BY DEF GeoError, Shown
  <2> QED
    BY <1>0, <2>1, <2>2, <2>3 DEF OneFrame, PickQuiet
<1> QED
  BY <1>1, <1>2

-----------------------------------------------------------------------------
(***************************************************************************)
(* The server's position: the sheet's form is changed only by the sheet    *)
(* itself, and its fields are closed while a position is being saved.      *)
(***************************************************************************)

\* The record of the page; the sheet's form is one of its fields.
HasForm(g) == "form" \in DOMAIN g

\* A render leaves the sheet's form alone.
LEMMA RenderKeepsForm ==
    ASSUME NEW g, HasForm(g) PROVE GeoRendered(g).form = g.form
<1>1. ASSUME NEW h, HasForm(h) PROVE HasForm(RootStarted(h)) /\ RootStarted(h).form = h.form
  BY <1>1 DEF RootStarted, HasForm
<1>2. ASSUME NEW h, HasForm(h) PROVE HasForm(PickStarted(h)) /\ PickStarted(h).form = h.form
  BY <1>2 DEF PickStarted, HasForm
<1>3. ASSUME NEW h, HasForm(h) PROVE HasForm(Retained(h)) /\ Retained(h).form = h.form
  BY <1>3 DEF Retained, HasForm
<1>4. ASSUME NEW h, HasForm(h) PROVE HasForm(ListStarted(h)) /\ ListStarted(h).form = h.form
  <2>1. ASSUME NEW q PROVE HasForm(ListUnder(h, q)) /\ ListUnder(h, q).form = h.form
    BY <1>4 DEF ListUnder, HasForm
  <2> QED
    BY <2>1 DEF ListStarted
<1>5. ASSUME NEW h, HasForm(h) PROVE HasForm(PeopleStarted(h)) /\ PeopleStarted(h).form = h.form
  <2>1. ASSUME NEW q PROVE HasForm(PeopleUnder(h, q)) /\ PeopleUnder(h, q).form = h.form
    BY <1>5 DEF PeopleUnder, HasForm
  <2> QED
    BY <2>1 DEF PeopleStarted
<1> QED
  BY <1>1, <1>2, <1>3, <1>4, <1>5 DEF GeoRendered

\* The fields are closed while the position they hold is being saved.
PositionInv == geo.form.saving => geo.form.draft = geo.form.sent

\* What the steps that are not the sheet's do to its form: nothing.
LEMMA FormUntouched ==
    ASSUME GeoInv,
           \/ RootAnswers \/ SnapshotExpires \/ ClockTicks \/ Poll \/ TabFlips
           \/ PickAnswers \/ ListAnswers \/ PeopleAnswer
           \/ ChooseScope \/ ClearSelection \/ Refresh \/ PickFromList \/ NextPage
           \/ PreviousPage \/ SetKind \/ TurnPeople \/ PickOnMap
    PROVE  geo'.form = geo.form
<1>0. HasForm(geo)
  BY DEF GeoInv, Consistent, GeoPages, HasForm
<1> DEFINE Same(z) == HasForm(z) /\ z.form = geo.form
<1>1. ASSUME NEW z, geo' = GeoRendered(z), Same(z) PROVE geo'.form = geo.form
  BY <1>1, RenderKeepsForm
<1> SUFFICES \/ geo' = geo
             \/ \E z : geo' = GeoRendered(z) /\ Same(z)
  BY <1>1
<1>2. Same(Revoked(geo))
  BY <1>0 DEF Revoked, HasForm
<1>3. ASSUME NEW b, NEW c PROVE Same(Choose(geo, b, c))
  BY <1>0 DEF Choose, HasForm
<1>4. CASE RootAnswers
  <2>1. ASSUME NEW r, geo' = GeoRendered([geo EXCEPT !.root[geo.scope] = r])
        PROVE  \E z : geo' = GeoRendered(z) /\ Same(z)
    <3>1. Same([geo EXCEPT !.root[geo.scope] = r])
      BY <1>0 DEF HasForm
    <3> QED
      BY <2>1, <3>1
  <2>2. CASE \E s \in 1..MaxSnapshots :
               GeoSays([geo EXCEPT !.root[geo.scope] = [data |-> s, err |-> FALSE, fetch |-> 0]])
    BY <2>1, <2>2 DEF GeoSays
  <2>3. CASE GeoSays([geo EXCEPT !.root[geo.scope].fetch = @ + 1])
    <3>1. Same([geo EXCEPT !.root[geo.scope].fetch = @ + 1])
      BY <1>0 DEF HasForm
    <3> QED
      BY <2>3, <3>1 DEF GeoSays
  <2>4. CASE GeoSays([geo EXCEPT !.root[geo.scope].fetch = 0, !.root[geo.scope].err = TRUE])
    <3>1. Same([geo EXCEPT !.root[geo.scope].fetch = 0, !.root[geo.scope].err = TRUE])
      BY <1>0 DEF HasForm
    <3> QED
      BY <2>4, <3>1 DEF GeoSays
  <2> QED
    BY <1>4, <2>2, <2>3, <2>4 DEF RootAnswers
<1>5. CASE SnapshotExpires
  BY <1>5 DEF SnapshotExpires
<1>6. CASE ClockTicks
  BY <1>0, <1>6 DEF ClockTicks, GeoSays, HasForm
<1>7. CASE Poll
  BY <1>0, <1>7 DEF Poll, GeoSays, HasForm
<1>8. CASE TabFlips
  <2>1. Same(VisibilityFlips(geo))
    BY <1>0 DEF VisibilityFlips, HasForm
  <2> QED
    BY <1>8, <2>1 DEF TabFlips
<1>9. CASE PickAnswers
  <2>1. Same([geo EXCEPT !.pick.status = "ok", !.got = @ \cup {geo.pick.key}])
    BY <1>0 DEF HasForm
  <2>2. Same([geo EXCEPT !.pick.status = "failed"])
    BY <1>0 DEF HasForm
  <2> QED
    BY <1>2, <1>9, <2>1, <2>2 DEF PickAnswers, GeoSays
<1>10. CASE ListAnswers
  <2>1. Same([geo EXCEPT !.list.status = "failed"])
    BY <1>0 DEF HasForm
  <2>2. ASSUME NEW k PROVE Same([geo EXCEPT !.list.status = "ok", !.list.kept = k])
    BY <1>0 DEF HasForm
  <2> QED
    BY <1>2, <1>10, <2>1, <2>2 DEF ListAnswers, GeoSays
<1>11. CASE PeopleAnswer
  <2>1. ASSUME NEW st_ PROVE Same([geo EXCEPT !.people.status = st_])
    BY <1>0 DEF HasForm
  <2> QED
    BY <1>2, <1>11, <2>1 DEF PeopleAnswer, GeoSays
<1>12. CASE ChooseScope
  <2>1. PICK s, f : geo' = GeoRendered(Choose([geo EXCEPT !.scope = s, !.root[geo.scope].fetch = 0,
                                                          !.root[s].fetch = f], FALSE, FALSE))
    BY <1>12 DEF ChooseScope, GeoClick
  <2> DEFINE y == [geo EXCEPT !.scope = s, !.root[geo.scope].fetch = 0, !.root[s].fetch = f]
  <2>2. Same(y)
    BY <1>0 DEF HasForm
  <2> HIDE DEF y
  <2>3. Same(Choose(y, FALSE, FALSE))
    BY <2>2 DEF Choose, HasForm
  <2> QED
    BY <2>1, <2>3 DEF y
<1>13. CASE ClearSelection \/ PickFromList \/ PickOnMap
  BY <1>3, <1>13 DEF ClearSelection, PickFromList, PickOnMap, GeoClick
<1>14. CASE Refresh
  <2> DEFINE z == [geo EXCEPT !.paging = FALSE, !.blocked = "none", !.list = NoList, !.people = NoPeople,
                              !.root[geo.scope].fetch = IF @ = 0 THEN 1 ELSE @]
  <2>1. Same(z)
    BY <1>0 DEF HasForm
  <2> HIDE DEF z
  <2> QED
    BY <1>14, <2>1 DEF Refresh, GeoClick, z
<1>15. CASE NextPage \/ PreviousPage
  <2>1. ASSUME NEW pages, PagesTurned(pages)
        PROVE  \E z : geo' = GeoRendered(z) /\ Same(z)
    <3> DEFINE z == [geo EXCEPT !.list.pages = pages, !.list.status = "fetching",
                                !.paging = Len(pages) > 1]
    <3>1. Same(z)
      BY <1>0 DEF HasForm
    <3> HIDE DEF z
    <3> QED
      BY <2>1, <3>1 DEF PagesTurned, GeoClick, z
  <2> QED
    BY <1>15, <2>1 DEF NextPage, PreviousPage
<1>16. CASE SetKind
  <2>1. PICK k, w : geo' = GeoRendered([geo EXCEPT !.kind = k, !.paging = FALSE, !.list.pages = FirstPage,
                                          !.list.status = w])
    BY <1>16 DEF SetKind, GeoClick
  <2> DEFINE z == [geo EXCEPT !.kind = k, !.paging = FALSE, !.list.pages = FirstPage,
                              !.list.status = w]
  <2>2. Same(z)
    BY <1>0 DEF HasForm
  <2> HIDE DEF z
  <2> QED
    BY <2>1, <2>2 DEF z
<1>17. CASE TurnPeople
  <2>1. PICK pages : geo' = GeoRendered([geo EXCEPT !.people.pages = pages, !.people.status = "fetching"])
    BY <1>17 DEF TurnPeople, GeoClick
  <2>2. Same([geo EXCEPT !.people.pages = pages, !.people.status = "fetching"])
    BY <1>0 DEF HasForm
  <2> QED
    BY <2>1, <2>2
<1> QED
  BY <1>4, <1>5, <1>6, <1>7, <1>8, <1>9, <1>10, <1>11, <1>12, <1>13, <1>14, <1>15, <1>16, <1>17

\* The sheet's own steps.
LEMMA FormFollows ==
    ASSUME GeoInv,
           OpenPosition \/ ClosePosition \/ EditForm \/ ApplyForm \/ PositionSaved \/ OrphanAnswered
    PROVE  \/ geo'.form = [geo.form EXCEPT !.open = TRUE]
           \/ ~geo'.form.open /\ ~geo'.form.saving
           \/ ~geo.form.saving /\ \E v \in 1..2 : geo'.form = [geo.form EXCEPT !.draft = v]
           \/ geo'.form = [geo.form EXCEPT !.saving = TRUE, !.sent = geo.form.draft]
           \/ geo.form.saving /\ geo'.form = [geo.form EXCEPT !.saving = FALSE, !.sent = 0, !.draft = 0]
           \/ geo'.form = [geo.form EXCEPT !.saving = FALSE, !.sent = 0]
           \/ geo'.form = [geo.form EXCEPT !.orphan = FALSE]
<1>0. HasForm(geo) /\ geo.form \in GeoForms
  BY DEF GeoInv, Consistent, GeoPages, HasForm
<1>1. HasForm(Invalidated(geo)) /\ Invalidated(geo).form = geo.form
  BY <1>0 DEF Invalidated, Revoked, HasForm
<1> DEFINE i == Invalidated(geo)
<1>2. ASSUME NEW g \in {geo, i}, NEW f, geo' = GeoRendered([g EXCEPT !.form = f])
      PROVE  geo'.form = f
  BY <1>0, <1>1, <1>2, RenderKeepsForm DEF HasForm
<1>3. CASE OpenPosition
  <2> DEFINE f == [geo.form EXCEPT !.open = TRUE]
  <2>1. geo' = GeoRendered([geo EXCEPT !.form = f])
    BY <1>3 DEF OpenPosition, GeoSays
  <2> QED
    BY <1>2, <2>1
<1>4. CASE ClosePosition
  <2> DEFINE o == geo.form.saving \/ geo.form.orphan
             f == [NoForm EXCEPT !.orphan = o]
  <2>1. geo' = GeoRendered([geo EXCEPT !.form = f])
    BY <1>4 DEF ClosePosition, GeoSays
  <2>2. ~f.open /\ ~f.saving
    BY DEF NoForm
  <2> HIDE DEF f
  <2> QED
    BY <1>2, <2>1, <2>2
<1>5. CASE EditForm
  <2>1. PICK v \in 1..2 : geo' = GeoRendered([geo EXCEPT !.form.draft = v])
    BY <1>5 DEF EditForm, GeoClick
  <2> DEFINE f == [geo.form EXCEPT !.draft = v]
  <2>2. geo' = GeoRendered([geo EXCEPT !.form = f])
    BY <2>1
  <2> QED
    BY <1>2, <1>5, <2>2 DEF EditForm, FieldsOpen
<1>6. CASE ApplyForm
  <2> DEFINE f == [geo.form EXCEPT !.saving = TRUE, !.sent = geo.form.draft]
  <2>1. [geo EXCEPT !.form.saving = TRUE, !.form.sent = geo.form.draft] = [geo EXCEPT !.form = f]
    BY <1>0 DEF HasForm
  <2>2. geo' = GeoRendered([geo EXCEPT !.form = f])
    BY <1>6, <2>1 DEF ApplyForm, GeoClick
  <2> QED
    BY <1>2, <2>2
<1>7. CASE PositionSaved
  <2> DEFINE f1 == [geo.form EXCEPT !.saving = FALSE, !.sent = 0, !.draft = 0]
             f2 == [geo.form EXCEPT !.saving = FALSE, !.sent = 0]
  <2>1. /\ [i EXCEPT !.form.saving = FALSE, !.form.sent = 0, !.form.draft = 0] = [i EXCEPT !.form = f1]
        /\ [geo EXCEPT !.form.saving = FALSE, !.form.sent = 0] = [geo EXCEPT !.form = f2]
    <3> HIDE DEF i
    <3> QED
      BY <1>0, <1>1 DEF HasForm, i
  <2>2. \/ geo' = GeoRendered([i EXCEPT !.form = f1])
        \/ geo' = GeoRendered([geo EXCEPT !.form = f2])
    BY <1>7, <2>1 DEF PositionSaved, GeoSays
  <2> QED
    BY <1>2, <1>7, <2>2 DEF PositionSaved
<1>8. CASE OrphanAnswered
  <2> DEFINE f == [geo.form EXCEPT !.orphan = FALSE]
  <2>1. [i EXCEPT !.form.orphan = FALSE] = [i EXCEPT !.form = f]
    BY <1>1
  <2>2. \/ geo' = GeoRendered([i EXCEPT !.form = f])
        \/ geo' = GeoRendered([geo EXCEPT !.form = f])
    BY <1>8, <2>1 DEF OrphanAnswered, GeoSays
  <2> QED
    BY <1>2, <2>2
<1> QED
  BY <1>3, <1>4, <1>5, <1>6, <1>7, <1>8

\* The sheet opens with nothing in flight.
LEMMA PositionInvInit == GeoInit => PositionInv
<1> SUFFICES ASSUME GeoInit PROVE PositionInv
  OBVIOUS
<1> DEFINE g == [scope |-> "now", country |-> FALSE, place |-> FALSE, visible |-> TRUE,
                 root |-> [s \in Scopes |-> NoRoot], got |-> {}, pick |-> IdlePick, last |-> NoFrame,
                 blocked |-> "none", old |-> {}, paging |-> FALSE, kind |-> "country",
                 list |-> NoList, people |-> NoPeople, form |-> NoForm]
<1>1. HasForm(g) /\ g.form = NoForm /\ geo = GeoRendered(g)
  BY DEF GeoInit, HasForm
<1> HIDE DEF g
<1> QED
  BY <1>1, RenderKeepsForm DEF PositionInv, NoForm

\* Every step keeps the position that is being typed.
LEMMA PositionSteps == GeoInv /\ PositionInv /\ GeoNext => PositionInv' /\ GeoDraftKept
<1> SUFFICES ASSUME GeoInv, PositionInv, GeoNext PROVE PositionInv' /\ GeoDraftKept
  OBVIOUS
<1> DEFINE f == geo.form
           n == geo'.form
<1>1. f \in GeoForms
  BY DEF GeoInv, Consistent, GeoPages
<1>2. \/ n = f
      \/ n = [f EXCEPT !.open = TRUE]
      \/ ~n.open /\ ~n.saving
      \/ ~f.saving /\ \E v \in 1..2 : n = [f EXCEPT !.draft = v]
      \/ n = [f EXCEPT !.saving = TRUE, !.sent = f.draft]
      \/ f.saving /\ n = [f EXCEPT !.saving = FALSE, !.sent = 0, !.draft = 0]
      \/ n = [f EXCEPT !.saving = FALSE, !.sent = 0]
      \/ n = [f EXCEPT !.orphan = FALSE]
  BY FormUntouched, FormFollows DEF GeoNext
<1>3. f.saving => f.draft = f.sent
  BY DEF PositionInv
<1> HIDE DEF f, n
<1> DEFINE Kept == /\ n.saving => n.draft = n.sent
                   /\ f.draft # 0 /\ n.draft = 0 => ~n.open \/ f.draft = f.sent
<1> SUFFICES Kept
  BY DEF PositionInv, GeoDraftKept, f, n
<1>4. CASE n = f \/ (~n.open /\ ~n.saving)
  BY <1>3, <1>4
<1>5. CASE n = [f EXCEPT !.open = TRUE] \/ n = [f EXCEPT !.orphan = FALSE]
  BY <1>1, <1>3, <1>5 DEF GeoForms
<1>6. CASE ~f.saving /\ \E v \in 1..2 : n = [f EXCEPT !.draft = v]
  BY <1>1, <1>6 DEF GeoForms
<1>7. CASE n = [f EXCEPT !.saving = TRUE, !.sent = f.draft]
  BY <1>1, <1>7 DEF GeoForms
<1>8. CASE f.saving /\ n = [f EXCEPT !.saving = FALSE, !.sent = 0, !.draft = 0]
  BY <1>1, <1>3, <1>8 DEF GeoForms
<1>9. CASE n = [f EXCEPT !.saving = FALSE, !.sent = 0]
  BY <1>1, <1>9 DEF GeoForms
<1> QED
  BY <1>2, <1>4, <1>5, <1>6, <1>7, <1>8, <1>9

=============================================================================
