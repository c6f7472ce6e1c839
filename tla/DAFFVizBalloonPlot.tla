------------------------- MODULE DAFFVizBalloonPlot -------------------------
(***************************************************************************)
(* The balloon: a sphere with one point per record, which is drawn the     *)
(* further out the greater its magnitude.  A balloon is a record of its    *)
(* members; every setter computes the scalars of the points anew.          *)
(***************************************************************************)
EXTENDS DAFFVizPlot, Sequences

-----------------------------------------------------------------------------
(* The faces of the mesh, as sequences of points: point i is record i.       *)

\* Without a second ring or a second column there is a fan about the centre.
Line(h) ==
  LET n == Grid!NumRecords(h)
  IN  {<<i, i + 1, n>> : i \in 0 .. n - 1}

\* A slip: the last column is not joined to the first.
FacesOpen(h) ==
  LET south == IF Grid!SouthPole(h) THEN 1 ELSE 0
      north == IF Grid!NorthPole(h) THEN 1 ELSE 0
      columns == 0 .. h.alphaPoints - 2
      point(ring, j) == south + ring * h.alphaPoints + (j % h.alphaPoints)
      rings == h.betaPoints - 1 - south - north
  IN  {<<0, point(0, j), point(0, j + 1)>> : j \in IF south = 1 THEN columns ELSE {}}
      \cup {<<point(i, j), point(i, j + 1), point(i + 1, j + 1), point(i + 1, j)>> :
              i \in 0 .. rings - 1, j \in columns}
      \cup {<<Grid!NumRecords(h) - 1, point(rings, j), point(rings, j + 1)>> :
              j \in IF north = 1 THEN columns ELSE {}}
Faces(h) ==
  LET south == IF Grid!SouthPole(h) THEN 1 ELSE 0
      north == IF Grid!NorthPole(h) THEN 1 ELSE 0
      wraps == h.alphaStart = 0 /\ h.alphaEnd = Grid!FullTurn
      columns == 0 .. h.alphaPoints - (IF wraps THEN 1 ELSE 2)
      point(ring, j) == south + ring * h.alphaPoints + (j % h.alphaPoints)
      rings == h.betaPoints - 1 - south - north
  IN  IF h.alphaPoints = 1 \/ h.betaPoints = 1
        THEN IF h.alphaPoints = 1 /\ h.betaPoints = 1 THEN {} ELSE Line(h)
        ELSE {<<0, point(0, j), point(0, j + 1)>> : j \in IF south = 1 THEN columns ELSE {}}
             \cup {<<point(i, j), point(i, j + 1), point(i + 1, j + 1), point(i + 1, j)>> :
                     i \in 0 .. rings - 1, j \in columns}
             \cup {<<Grid!NumRecords(h) - 1, point(rings, j), point(rings, j + 1)>> :
                     j \in IF north = 1 THEN columns ELSE {}}

-----------------------------------------------------------------------------
(* The scalars.                                                              *)

\* A slip: the maximum of the first channel, whichever is selected.
FirstChannelMaximum(b) ==
  Max({ValueAt(b.file, r, 0, b.frequency) : r \in Records(b.file)})
\* The maximum at the selected channel and frequency.  Of a DFT spectrum the
\* number of coefficients, not of records, is looked at; beyond the last record
\* the getter leaves the value before.
getMagnitudeMaximum(b) ==
  Max({ValueAt(b.file, r, b.channel, b.frequency) :
         r \in {q \in Records(b.file) :
                  Content[b.file].type = "DFT" => q < Content[b.file].frequencies}})

\* The overall maximum is the one in the header of the file.
Reference(b) ==
  IF b.individually THEN getMagnitudeMaximum(b) ELSE Content[b.file].max

\* In decibels, a spectrum relative to its maximum.
InDecibel(b, x) ==
  IF b.customRange
    THEN Part(Relative(x, Reference(b)), Decibel[b.min], Decibel[b.max])
    ELSE Part(Relative(x, Reference(b)), -100, Decibel[Reference(b)])

\* A spectrum with phases is only normalised with the normalisation on.
Linear(b, x) ==
  IF b.normalize \/ (b.individually /\ Content[b.file].type # "MPS")
    THEN (x * Whole) \div Reference(b)
  ELSE IF b.customRange THEN Part(x, b.min, b.max)
  ELSE (x * Whole) \div Unit

\* One scalar per record; a phase spectrum has no magnitudes.
Scalar(b, x) ==
  IF Content[b.file].type = "PS" THEN 0
  ELSE IF Content[b.file].type = "DFT" /\ b.scaling = "decibel" THEN InDecibel(b, x)
  ELSE Linear(b, x)
Scalars(b) ==
  [r \in Records(b.file) |->
     Whole - Scalar(b, ValueAt(b.file, r, b.channel, b.frequency))]

\* The label of the probe: the value at the probed direction, which is unset
\* until it was set.  There is none for a phase spectrum.
LabelAt(b, probe) ==
  LET x == ValueAt(b.file, NearestRecord[b.file][probe], b.channel, b.frequency)
  IN  <<probe, IF b.scaling = "decibel" THEN Decibel[x] ELSE x>>
Label(b) ==
  IF b.probe = <<>> \/ Content[b.file].type = "PS" THEN <<>> ELSE LabelAt(b, b.probe)

SetScalars(b) == [b EXCEPT !.shown = Scalars(b), !.label = Label(b)]

NewBalloon(f) ==
  [file |-> f, frequency |-> 0, channel |-> 0, scaling |-> "decibel",
   min |-> 0, max |-> Unit, normalize |-> FALSE, individually |-> FALSE,
   customRange |-> FALSE, phaseAsColor |-> FALSE, probe |-> <<>>,
   label |-> <<>>, shown |-> <<>>]

\* init: the scalars come before the probe, which has no label yet.
BalloonPlot(f) == [SetScalars(NewBalloon(f)) EXCEPT !.label = <<>>]

SetSelectedFrequency(b, i) == SetScalars([b EXCEPT !.frequency = i])
\* A slip: the scalars stay as they were.
SetChannelOnly(b, i) == [b EXCEPT !.channel = i]
SetChannel(b, i) == SetScalars([b EXCEPT !.channel = i])
SetScaling(b, s) == SetScalars([b EXCEPT !.scaling = s])
SetNormalize(b, on) == SetScalars([b EXCEPT !.normalize = on])
SetNormalizeFrequenciesIndividually(b, on) == SetScalars([b EXCEPT !.individually = on])
SetUseCustomRange(b, on) == SetScalars([b EXCEPT !.customRange = on])
SetUsePhaseAsColor(b, on) == [b EXCEPT !.phaseAsColor = on]
SetProbeAngles(b, alpha, beta) == [b EXCEPT !.probe = <<alpha, beta>>]

\* The range is given in the unit of the scaling and kept as factors.
SetRange(b, min, max) ==
  SetScalars(IF b.scaling = "linear"
               THEN [b EXCEPT !.min = min, !.max = max]
               ELSE [b EXCEPT !.min = Factor(min), !.max = Factor(max)])
=============================================================================
