---------------------------- MODULE GeographyMap ----------------------------
(***************************************************************************)
(* The map of the geography page: which renderer draws                      *)
(* (GeographySurface.tsx) and what pointers, wheel and buttons do to the    *)
(* camera of the vector map (VectorMap.tsx).  A gesture is computed from    *)
(* where it began, and begins anew whenever a finger comes or goes.  One    *)
(* coordinate stands for two; centres are kept doubled.                     *)
(***************************************************************************)
EXTENDS Integers, Sequences, SequencesExt

CONSTANT MaxMapMoves      \* bound: events on the map
ASSUME MapAssumption == MaxMapMoves \in Nat

\* `nudged': wheel or button moved the camera while a pointer was down;
\* `taken': the place a click has selected last, as it was reached.
VARIABLES chart, chartLeft
chartVars == <<chart, chartLeft>>

Positions == 0..2               \* bound: where a pointer may be
ZOOM_MAX == 8
OnMap == chart.mounted /\ (chart.view = "map" \/ chart.failed)
Clamp(z) == IF z < 1 THEN 1 ELSE IF z > ZOOM_MAX THEN ZOOM_MAX ELSE z
Centre(ps) == IF Len(ps) = 1 THEN 2 * ps[1] ELSE ps[1] + ps[2]
Spread(ps) == IF Len(ps) < 2 THEN 0 ELSE IF ps[1] > ps[2] THEN ps[1] - ps[2] ELSE ps[2] - ps[1]
RebaseGesture(c) ==
    [c EXCEPT !.nudged = FALSE,
              !.rebase = IF c.pointers = <<>> THEN <<>>
                         ELSE <<[zoom |-> c.zoom, x |-> c.x, centre |-> Centre(c.pointers), spread |-> Spread(c.pointers)]>>]
\* The camera a move event computes from the gesture's beginning.
MovedTo(c) ==
    LET g == Head(c.rebase)
        pinch == Len(c.pointers) = 2 /\ g.spread > 0
    IN [zoom |-> Clamp(IF pinch THEN (g.zoom * Spread(c.pointers)) \div g.spread ELSE g.zoom),
        x |-> g.x + Centre(c.pointers) - g.centre]

\* A renderer that appears takes the camera its predecessor left, and no pointers.
Remounted(c) == [c EXCEPT !.pointers = <<>>, !.rebase = <<>>, !.dragged = FALSE, !.nudged = FALSE]
FreshSurface(mounted, view) ==
    [mounted |-> mounted, view |-> view, expanded |-> FALSE, failed |-> FALSE, rotate |-> FALSE,
     pointers |-> <<>>, rebase |-> <<>>, dragged |-> FALSE, nudged |-> FALSE, zoom |-> 1, x |-> 0, taken |-> "none"]
Drawing(c) == chartLeft > 0 /\ chartLeft' = chartLeft - 1 /\ chart' = c

\* Outside the expanded sheet the page scrolls: a press only forgets the last drag.
PointerDown ==
    /\ OnMap /\ Len(chart.pointers) < 2
    /\ \E p \in Positions :
          Drawing(IF chart.expanded
                  THEN RebaseGesture([chart EXCEPT !.dragged = FALSE, !.pointers = Append(@, p)])
                  ELSE [chart EXCEPT !.dragged = FALSE])
PointerMove ==
    /\ OnMap /\ chart.expanded
    /\ \E i \in DOMAIN chart.pointers, p \in Positions :
          LET moved == [chart EXCEPT !.pointers[i] = p]
          IN Drawing([moved EXCEPT !.zoom = MovedTo(moved).zoom, !.x = MovedTo(moved).x, !.nudged = FALSE,
                                   !.dragged = @ \/ Centre(moved.pointers) # Head(chart.rebase).centre])
Lifted(c, i) == RebaseGesture([c EXCEPT !.pointers = RemoveAt(@, i)])
PointerUp == OnMap /\ \E i \in DOMAIN chart.pointers : Drawing(Lifted(chart, i))
Nudge(zoom, x) == Drawing([chart EXCEPT !.zoom = zoom, !.x = x, !.nudged = chart.pointers # <<>>])
\* The wheel, of the expanded map, or the buttons.
ZoomCamera == OnMap /\ \E z \in {chart.zoom * 2, chart.zoom \div 2} : Nudge(Clamp(z), chart.x)
ResetCamera == OnMap /\ Nudge(1, 0)
FocusPlace == OnMap /\ chart.taken # "none" /\ Nudge(3, 3)
\* A click after a drag selects nothing; the keyboard's does.
MapSelect ==
    /\ OnMap /\ chart.pointers = <<>>
    /\ \E how \in {"click", "key"} : /\ how = "click" => ~chart.dragged
                                     /\ Drawing([chart EXCEPT !.taken = how])
Expand == chart.mounted /\ chart.pointers = <<>> /\ Drawing(RebaseGesture([chart EXCEPT !.expanded = ~@]))
SetView ==
    /\ chart.mounted /\ ~chart.failed /\ chart.pointers = <<>>
    /\ Drawing(Remounted([chart EXCEPT !.view = IF @ = "map" THEN "globe" ELSE "map"]))
ToggleRotation == chart.mounted /\ chart.view = "globe" /\ ~chart.failed /\ Drawing([chart EXCEPT !.rotate = ~@])
\* The globe cannot be drawn: the page goes back to the map, until asked to try again.
GlobeUnavailable ==
    /\ chart.mounted /\ chart.view = "globe" /\ ~chart.failed
    /\ Drawing(Remounted([chart EXCEPT !.failed = TRUE, !.rotate = FALSE, !.view = "map"]))
RetryGlobe ==
    /\ chart.mounted /\ chart.failed
    /\ Drawing(Remounted([chart EXCEPT !.failed = FALSE, !.view = "globe"]))
\* The page has no frame to draw, or has one again; the view stays in the address.
SurfaceFollowsFrame == Drawing(FreshSurface(~chart.mounted, chart.view))

MapInit == chart = FreshSurface(TRUE, "map") /\ chartLeft = MaxMapMoves
MapNext ==
    \/ PointerDown \/ PointerMove \/ PointerUp \/ ZoomCamera \/ ResetCamera \/ FocusPlace \/ MapSelect
    \/ Expand \/ SetView \/ ToggleRotation \/ GlobeUnavailable \/ RetryGlobe \/ SurfaceFollowsFrame

\* A move event that moves nothing leaves the camera where it is, whichever
\* finger came or went before it: the picture never jumps under the hand
\* (VectorMap.tsx rebaseGesture).  The exception is a camera moved by wheel or
\* button with a pointer down, which the next move takes back.
GestureIsSmooth ==
    chart.rebase # <<>> /\ ~chart.nudged => MovedTo(chart) = [zoom |-> chart.zoom, x |-> chart.x]
=============================================================================
