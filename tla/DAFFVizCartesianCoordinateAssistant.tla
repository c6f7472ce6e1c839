----------------- MODULE DAFFVizCartesianCoordinateAssistant -----------------
(***************************************************************************)
(* The assistant beside a carpet: three arrows, and marks with labels      *)
(* along them.  It keeps limits for each axis; the marks and the arrows    *)
(* are actors placed for the limits at the time they are made.  Nothing    *)
(* hides them.                                                             *)
(***************************************************************************)

\* From a minimum to a maximum with a mark at each multiple of the resolution; the
\* arrow and the marks of the y axis are moved by the offset.
AxisLimits(min, max, resolution) ==
  [min |-> min, max |-> max, resolution |-> resolution, offset |-> <<0, 1>>]

\* The three arrows give way to new ones.
UpdateAxes(c) == [c EXCEPT !.arrows = c.limits]

\* So do the marks of all axes, and the arrows (UpdateGrid in the source; the other
\* assistant has a method of this name).
UpdateMarks(c) == UpdateAxes([c EXCEPT !.marks = c.limits])

\* The constructor; fractions are pairs.
CartesianCoordinateAssistant ==
  LET unit == AxisLimits(<<0, 1>>, <<1, 1>>, <<1, 10>>)
      limits == [axis \in {"x", "y", "z"} |-> unit]
  IN  UpdateMarks([limits |-> limits, arrows |-> <<>>, marks |-> <<>>])

SetMin(c, axis, min) == [c EXCEPT !.limits[axis].min = min]
SetMax(c, axis, max) == [c EXCEPT !.limits[axis].max = max]

\* The setter of the y axis leaves the marks alone.
SetResolution(c, axis, resolution) ==
  LET set == [c EXCEPT !.limits[axis].resolution = resolution]
  IN  IF axis = "y" THEN set ELSE UpdateMarks(set)

SetOffsetY(c, offset) == UpdateMarks(UpdateAxes([c EXCEPT !.limits["y"].offset = offset]))
=============================================================================
