----------------- MODULE DAFFVizSphericalCoordinateAssistant -----------------
(***************************************************************************)
(* The assistant around a balloon: arrows, poles, meridians, the equator   *)
(* and a grid of circles with labels.  Lengths are counted in tenths.      *)
(***************************************************************************)
EXTENDS Integers

AssistantParts == {"ViewUpVectors", "Poles", "Meridians", "Equator", "Grid"}

\* The multiples of the precision between minimum and maximum, one circle and one
\* label for each.
CirclesOf(s) ==
  {k * s.precision : k \in -((-s.min) \div s.precision) .. s.max \div s.precision}

\* While there is no grid it counts as visible.
GetGridVisible(s) == s.circles # {} => "Grid" \in s.visible

SetPartVisible(s, part, on) ==
  [s EXCEPT !.visible = IF on THEN @ \cup {part} ELSE @ \ {part}]

\* The actors of the grid are made anew and visible, and hidden if those before
\* were hidden.
UpdateGrid(s) ==
  SetPartVisible([s EXCEPT !.circles = CirclesOf(s)], "Grid", GetGridVisible(s))

\* Everything else is built once, and visible.
SphericalCoordinateAssistant ==
  UpdateGrid([min |-> 0, max |-> 10, precision |-> 1, circles |-> {},
              visible |-> AssistantParts \ {"Grid"}])
=============================================================================
