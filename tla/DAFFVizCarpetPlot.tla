------------------------- MODULE DAFFVizCarpetPlot --------------------------
(***************************************************************************)
(* The carpet: the impulse responses of one beta (or one alpha) side by    *)
(* side, a column per direction and a row per sample.  Setters have the    *)
(* prefix Carpet where the balloon has one of the same name.               *)
(***************************************************************************)
EXTENDS DAFFVizPlot, Sequences

\* The columns of the mesh; on a full circle the first one comes again.
MeshColumns(c) ==
  LET h == Content[c.file].header
  IN  IF c.fixedAngle = "alpha" THEN h.betaPoints
      ELSE h.alphaPoints
           + (IF h.alphaStart = 0 /\ h.alphaEnd = Grid!FullTurn THEN 1 ELSE 0)

\* The direction whose response a column shows: the span is divided by the number
\* of points.
Columns(c) ==
  0 .. IF c.fixedAngle = "beta" THEN Content[c.file].header.alphaPoints
                                ELSE Content[c.file].header.betaPoints - 1
Direction(c, i) ==
  LET h == Content[c.file].header
  IN  IF c.fixedAngle = "beta"
        THEN <<h.alphaStart + (i * (h.alphaEnd - h.alphaStart)) \div h.alphaPoints, c.angle>>
        ELSE <<c.angle, h.betaStart + (i * (h.betaEnd - h.betaStart)) \div h.betaPoints>>

\* A coefficient as the height of its point.
Height(c, x) ==
  IF c.scaling = "decibel"
    THEN Part(Decibel[Absolute(x)], IF c.min >= 0 THEN Decibel[c.min] ELSE -100, Decibel[c.max])
    ELSE Part(x, c.min, c.max)
ColumnOf(c, r) ==
  [record |-> r,
   height |-> [j \in Frequencies(c.file) |-> Height(c, ValueAt(c.file, r, c.channel, j))]]

CarpetScalars(c) ==
  [i \in Columns(c) |-> ColumnOf(c, NearestRecord[c.file][Direction(c, i)])]

\* Down by the lower end of the range when it has both signs, the plot is warped
\* and linear.
updatePlotOffset(c) ==
  [c EXCEPT !.offset =
     IF c.warp /\ c.scaling = "linear" /\ c.min < 0 /\ c.max > 0
       THEN (c.min * Whole) \div (c.max - c.min) ELSE 0]

CarpetSetScalars(c) == updatePlotOffset([c EXCEPT !.shown = CarpetScalars(c)])

InitCarpetMesh(c) == CarpetSetScalars([c EXCEPT !.points = MeshColumns(c)])

NewCarpet(f) ==
  [file |-> f, channel |-> 0, angle |-> 0, scaling |-> "linear",
   min |-> -Unit, max |-> Unit, fixedAngle |-> "beta", warp |-> TRUE,
   offset |-> 0, points |-> 0, shown |-> <<>>]

\* Init: the mesh comes before the actor, which is not moved yet.
CarpetPlot(f) == [InitCarpetMesh(NewCarpet(f)) EXCEPT !.offset = 0]

SetSelectedAngle(c, a) == CarpetSetScalars([c EXCEPT !.angle = a])
CarpetSetChannel(c, i) == CarpetSetScalars([c EXCEPT !.channel = i])
CarpetSetScaling(c, s) == CarpetSetScalars([c EXCEPT !.scaling = s])
SetWarpingEnabled(c, on) == updatePlotOffset([c EXCEPT !.warp = on])

SetFixedAngle(c, which) == InitCarpetMesh([c EXCEPT !.fixedAngle = which])

CarpetSetRange(c, min, max) ==
  CarpetSetScalars(IF c.scaling = "linear"
                     THEN [c EXCEPT !.min = min, !.max = max]
                     ELSE [c EXCEPT !.min = Factor(min), !.max = Factor(max)])
=============================================================================
