------------------------ MODULE QDAFFVTKWidgetProofs ------------------------
(***************************************************************************)
(* Proofs about the 3D view for all contents, menus, ranges and probes.    *)
(*                                                                         *)
(* The setters of the plots keep a plot a record of the same members; this *)
(* and that there is never a balloon and a carpet at once is what the      *)
(* properties need to be inductive.  The range of the scalars needs that   *)
(* what is selected exists, which is inductive by itself.                  *)
(*                                                                         *)
(* That every record is drawn is a fact about the mesh of a file, proved   *)
(* from the grid of its header (DAFFGridProofs), and about the carpet on   *)
(* display, whose file, angle and number of columns are inductive.         *)
(***************************************************************************)
EXTENDS QDAFFVTKWidget, FiniteSetTheorems, TLAPS

-----------------------------------------------------------------------------
(* The balloon. *)

BalloonFields ==
  {"file", "frequency", "channel", "scaling", "min", "max", "normalize", "individually",
   "customRange", "phaseAsColor", "probe", "label", "shown"}
IsBalloon(b) == b = [k \in BalloonFields |-> b[k]]

\* Two balloons that differ at most in what is derived, in the probe and in the
\* colours.
SameBalloon(b, d) ==
  /\ b.file = d.file /\ b.frequency = d.frequency /\ b.channel = d.channel
  /\ b.scaling = d.scaling /\ b.min = d.min /\ b.max = d.max
  /\ b.normalize = d.normalize /\ b.individually = d.individually
  /\ b.customRange = d.customRange

\* ShownIsCurrent for a balloon.
BalloonIsCurrent(b) ==
  /\ b.shown = Scalars(b)
  /\ b.label # <<>> => b.label = LabelAt(b, b.label[1])

LEMMA SameMaximum ==
  ASSUME NEW b, NEW d, SameBalloon(b, d)
  PROVE  getMagnitudeMaximum(b) = getMagnitudeMaximum(d)
BY DEF SameBalloon, getMagnitudeMaximum, Records

LEMMA SameScalar ==
  ASSUME NEW b, NEW d, NEW x, SameBalloon(b, d)
  PROVE  Scalar(b, x) = Scalar(d, x)
<1>1. Reference(b) = Reference(d)
  BY SameMaximum DEF SameBalloon, Reference
<1>2. InDecibel(b, x) = InDecibel(d, x)
  BY <1>1 DEF SameBalloon, InDecibel
<1>3. Linear(b, x) = Linear(d, x)
  BY <1>1 DEF SameBalloon, Linear
<1>4. QED
  BY <1>2, <1>3 DEF SameBalloon, Scalar

LEMMA SameScalars ==
  ASSUME NEW b, NEW d, SameBalloon(b, d)
  PROVE  Scalars(b) = Scalars(d)
BY SameScalar DEF SameBalloon, Scalars, Records

LEMMA SameLabel ==
  ASSUME NEW b, NEW d, NEW probe, SameBalloon(b, d)
  PROVE  LabelAt(b, probe) = LabelAt(d, probe)
BY DEF SameBalloon, LabelAt

\* What setters have in common: the new scalars and label are those of the new
\* settings, and the settings stay.
LEMMA Drawn ==
  ASSUME NEW b, IsBalloon(b)
  PROVE  /\ IsBalloon(SetScalars(b))
         /\ SameBalloon(SetScalars(b), b)
         /\ SetScalars(b).phaseAsColor = b.phaseAsColor
         /\ BalloonIsCurrent(SetScalars(b))
<1> DEFINE d == SetScalars(b)
<1>1. /\ IsBalloon(d) /\ SameBalloon(d, b) /\ d.phaseAsColor = b.phaseAsColor
      /\ d.shown = Scalars(b) /\ d.label = Label(b)
  BY DEF IsBalloon, SetScalars, SameBalloon, BalloonFields
<1>2. d.shown = Scalars(d)
  BY <1>1, SameScalars
<1>3. ASSUME d.label # <<>>
      PROVE  d.label = LabelAt(d, d.label[1])
  <2>1. d.label = LabelAt(b, b.probe)
    BY <1>1, <1>3 DEF Label
  <2>2. d.label[1] = b.probe
    BY <2>1 DEF LabelAt
  <2>3. QED
    BY <1>1, <2>1, <2>2, SameLabel
<1>4. QED
  BY <1>1, <1>2, <1>3 DEF BalloonIsCurrent

\* A balloon whose derived members are left alone stays current.
LEMMA StaysCurrent ==
  ASSUME NEW b, NEW d, SameBalloon(b, d), BalloonIsCurrent(b),
         d.shown = b.shown, d.label = b.label \/ d.label = <<>>
  PROVE  BalloonIsCurrent(d)
BY SameScalars, SameLabel DEF BalloonIsCurrent

\* What a balloon on display is to be: drawn up to date, by some settings.
Keeps(b, d) ==
  /\ d.scaling = b.scaling /\ d.phaseAsColor = b.phaseAsColor
  /\ d.normalize = b.normalize /\ d.individually = b.individually
Sound(b) == IsBalloon(b) /\ BalloonIsCurrent(b)

LEMMA Redrawn ==
  ASSUME NEW b, IsBalloon(b)
  PROVE  Sound(SetScalars(b)) /\ Keeps(b, SetScalars(b))
BY Drawn DEF Sound, Keeps, SameBalloon

\* The selection, the range and the probe leave the settings alone.
LEMMA SelectionKeeps ==
  ASSUME NEW b, IsBalloon(b), NEW i
  PROVE  /\ Sound(SetSelectedFrequency(b, i)) /\ Keeps(b, SetSelectedFrequency(b, i))
         /\ Sound(SetChannel(b, i)) /\ Keeps(b, SetChannel(b, i))
         /\ Sound(SetUseCustomRange(b, i)) /\ Keeps(b, SetUseCustomRange(b, i))
<1>1. ASSUME NEW d, d = [b EXCEPT !.frequency = i] \/ d = [b EXCEPT !.channel = i]
                         \/ d = [b EXCEPT !.customRange = i]
      PROVE  IsBalloon(d) /\ Keeps(b, d)
  BY <1>1 DEF IsBalloon, BalloonFields, Keeps
<1>2. ASSUME NEW d, IsBalloon(d), Keeps(b, d)
      PROVE  Sound(SetScalars(d)) /\ Keeps(b, SetScalars(d))
  BY <1>2, Redrawn DEF Keeps
<1>3. QED
  BY <1>1, <1>2 DEF SetSelectedFrequency, SetChannel, SetUseCustomRange

LEMMA RangeKeeps ==
  ASSUME NEW b, IsBalloon(b), NEW min, NEW max
  PROVE  Sound(SetRange(b, min, max)) /\ Keeps(b, SetRange(b, min, max))
<1>1. ASSUME NEW x, NEW y
      PROVE  LET d == [b EXCEPT !.min = x, !.max = y]
             IN  IsBalloon(d) /\ Keeps(b, d)
  BY DEF IsBalloon, BalloonFields, Keeps
<1>2. ASSUME NEW d, IsBalloon(d), Keeps(b, d)
      PROVE  Sound(SetScalars(d)) /\ Keeps(b, SetScalars(d))
  BY <1>2, Redrawn DEF Keeps
<1>3. QED
  BY <1>1, <1>2 DEF SetRange

LEMMA ProbeKeeps ==
  ASSUME NEW b, Sound(b), NEW alpha, NEW beta
  PROVE  Sound(SetProbeAngles(b, alpha, beta)) /\ Keeps(b, SetProbeAngles(b, alpha, beta))
<1> DEFINE d == SetProbeAngles(b, alpha, beta)
<1>1. IsBalloon(d) /\ Keeps(b, d) /\ SameBalloon(b, d) /\ d.shown = b.shown /\ d.label = b.label
  BY DEF Sound, IsBalloon, BalloonFields, Keeps, SameBalloon, SetProbeAngles
<1>2. QED
  BY <1>1, StaysCurrent DEF Sound

\* A setter of one setting leaves the other three alone.
LEMMA SettingSet ==
  ASSUME NEW b, Sound(b), NEW x
  PROVE  /\ Sound(SetScaling(b, x)) /\ Keeps([b EXCEPT !.scaling = x], SetScaling(b, x))
         /\ Sound(SetNormalize(b, x)) /\ Keeps([b EXCEPT !.normalize = x], SetNormalize(b, x))
         /\ Sound(SetNormalizeFrequenciesIndividually(b, x))
         /\ Keeps([b EXCEPT !.individually = x], SetNormalizeFrequenciesIndividually(b, x))
         /\ Sound(SetUsePhaseAsColor(b, x))
         /\ Keeps([b EXCEPT !.phaseAsColor = x], SetUsePhaseAsColor(b, x))
<1>1. ASSUME NEW d, d = [b EXCEPT !.scaling = x] \/ d = [b EXCEPT !.normalize = x]
                         \/ d = [b EXCEPT !.individually = x]
      PROVE  Sound(SetScalars(d)) /\ Keeps(d, SetScalars(d))
  <2>1. IsBalloon(d)
    BY <1>1 DEF Sound, IsBalloon, BalloonFields
  <2>2. QED
    BY <2>1, Redrawn
<1>2. Sound([b EXCEPT !.phaseAsColor = x])
  <2> DEFINE d == [b EXCEPT !.phaseAsColor = x]
  <2>1. IsBalloon(d) /\ SameBalloon(b, d) /\ d.shown = b.shown /\ d.label = b.label
    BY DEF Sound, IsBalloon, BalloonFields, SameBalloon
  <2>2. QED
    BY <2>1, StaysCurrent DEF Sound
<1>3. QED
  BY <1>1, <1>2 DEF SetScaling, SetNormalize, SetNormalizeFrequenciesIndividually,
                    SetUsePhaseAsColor, Keeps

LEMMA NewIsSound ==
  ASSUME NEW f
  PROVE  Sound(BalloonPlot(f))
<1> DEFINE n == NewBalloon(f)
           d == SetScalars(n)
<1>1. IsBalloon(n)
  BY DEF IsBalloon, BalloonFields, NewBalloon
<1>2. IsBalloon(d) /\ BalloonIsCurrent(d)
  BY <1>1, Drawn
<1>3. IsBalloon(BalloonPlot(f)) /\ SameBalloon(d, BalloonPlot(f)) 
      /\ BalloonPlot(f).shown = d.shown /\ BalloonPlot(f).label = <<>>
  <2>1. BalloonPlot(f) = [d EXCEPT !.label = <<>>]
    BY DEF BalloonPlot
  <2> HIDE DEF d
  <2>2. QED
    BY <1>2, <2>1 DEF IsBalloon, BalloonFields, SameBalloon
<1>4. QED
  BY <1>2, <1>3, StaysCurrent DEF Sound

LEMMA BalloonIsAPlot ==
  ASSUME NEW b, IsBalloon(b)
  PROVE  b # NoPlot
<1>1. "file" \in DOMAIN b
  BY DEF IsBalloon, BalloonFields
<1>2. DOMAIN NoPlot = {}
  BY DEF NoPlot
<1>3. QED
  BY <1>1, <1>2

-----------------------------------------------------------------------------
(* The carpet. *)

CarpetFields ==
  {"file", "channel", "angle", "scaling", "min", "max", "fixedAngle", "warp", "offset",
   "points", "shown"}
IsCarpet(c) == c = [k \in CarpetFields |-> c[k]]
SoundCarpet(c) == IsCarpet(c) /\ c.shown = CarpetScalars(c)
KeepsCarpet(c, d) == d.file = c.file /\ d.scaling = c.scaling /\ d.warp = c.warp

\* Two carpets that differ at most in what is derived and in the warping.
SameCarpet(c, d) ==
  /\ c.file = d.file /\ c.channel = d.channel /\ c.angle = d.angle /\ c.scaling = d.scaling
  /\ c.min = d.min /\ c.max = d.max /\ c.fixedAngle = d.fixedAngle

LEMMA SameCarpetScalars ==
  ASSUME NEW c, NEW d, SameCarpet(c, d)
  PROVE  CarpetScalars(c) = CarpetScalars(d)
<1>1. ASSUME NEW x
      PROVE  Height(c, x) = Height(d, x)
  BY DEF SameCarpet, Height
<1>2. ASSUME NEW r
      PROVE  ColumnOf(c, r) = ColumnOf(d, r)
  BY <1>1 DEF SameCarpet, ColumnOf
<1>3. Columns(c) = Columns(d)
  BY DEF SameCarpet, Columns
<1>4. ASSUME NEW i
      PROVE  Direction(c, i) = Direction(d, i)
  BY DEF SameCarpet, Direction
<1>5. QED
  BY <1>2, <1>3, <1>4 DEF SameCarpet, CarpetScalars

\* Moving the actor changes nothing but its offset.
LEMMA Moved ==
  ASSUME NEW c, IsCarpet(c)
  PROVE  LET d == updatePlotOffset(c)
         IN  IsCarpet(d) /\ SameCarpet(c, d) /\ KeepsCarpet(c, d) /\ d.shown = c.shown
<1>1. ASSUME NEW x
      PROVE  LET d == [c EXCEPT !.offset = x]
             IN  IsCarpet(d) /\ SameCarpet(c, d) /\ KeepsCarpet(c, d) /\ d.shown = c.shown
  BY DEF IsCarpet, CarpetFields, SameCarpet, KeepsCarpet
<1>2. QED
  BY <1>1 DEF updatePlotOffset

LEMMA CarpetRedrawn ==
  ASSUME NEW c, IsCarpet(c)
  PROVE  SoundCarpet(CarpetSetScalars(c)) /\ KeepsCarpet(c, CarpetSetScalars(c))
<1> DEFINE d == [c EXCEPT !.shown = CarpetScalars(c)]
<1>1. /\ IsCarpet(d) /\ SameCarpet(c, d) /\ KeepsCarpet(c, d) /\ d.shown = CarpetScalars(c)
  BY DEF IsCarpet, CarpetFields, SameCarpet, KeepsCarpet
<1>2. CarpetSetScalars(c) = updatePlotOffset(d)
  BY DEF CarpetSetScalars
<1> HIDE DEF d
<1> DEFINE e == updatePlotOffset(d)
<1>3. IsCarpet(e) /\ SameCarpet(d, e) /\ KeepsCarpet(d, e) /\ e.shown = d.shown
  BY <1>1, Moved
<1> HIDE DEF e
<1>4. SameCarpet(c, e) /\ KeepsCarpet(c, e)
  BY <1>1, <1>3 DEF SameCarpet, KeepsCarpet
<1>5. CarpetScalars(c) = CarpetScalars(e)
  BY <1>4, SameCarpetScalars
<1>6. SoundCarpet(e) /\ KeepsCarpet(c, e)
  BY <1>1, <1>3, <1>4, <1>5 DEF SoundCarpet
<1>7. QED
  BY <1>2, <1>6 DEF e

LEMMA CarpetSet ==
  ASSUME NEW c, SoundCarpet(c), NEW x
  PROVE  /\ SoundCarpet(SetSelectedAngle(c, x)) /\ KeepsCarpet(c, SetSelectedAngle(c, x))
         /\ SoundCarpet(CarpetSetChannel(c, x)) /\ KeepsCarpet(c, CarpetSetChannel(c, x))
         /\ SoundCarpet(SetFixedAngle(c, x)) /\ KeepsCarpet(c, SetFixedAngle(c, x))
         /\ SoundCarpet(CarpetSetScaling(c, x))
         /\ KeepsCarpet([c EXCEPT !.scaling = x], CarpetSetScaling(c, x))
         /\ SoundCarpet(SetWarpingEnabled(c, x))
         /\ KeepsCarpet([c EXCEPT !.warp = x], SetWarpingEnabled(c, x))
<1>1. ASSUME NEW d, d = [c EXCEPT !.angle = x] \/ d = [c EXCEPT !.channel = x]
                         \/ d = [c EXCEPT !.scaling = x]
      PROVE  SoundCarpet(CarpetSetScalars(d)) /\ KeepsCarpet(d, CarpetSetScalars(d))
  <2>1. IsCarpet(d)
    BY <1>1 DEF SoundCarpet, IsCarpet, CarpetFields
  <2>2. QED
    BY <2>1, CarpetRedrawn
<1>2. SoundCarpet(SetFixedAngle(c, x)) /\ KeepsCarpet(c, SetFixedAngle(c, x))
  <2> DEFINE n == [c EXCEPT !.fixedAngle = x]
             m == [n EXCEPT !.points = MeshColumns(n)]
  <2>1. IsCarpet(n) /\ KeepsCarpet(c, n)
    BY DEF SoundCarpet, IsCarpet, CarpetFields, KeepsCarpet
  <2>2. SetFixedAngle(c, x) = CarpetSetScalars(m)
    BY DEF SetFixedAngle, InitCarpetMesh
  <2> HIDE DEF n
  <2>3. IsCarpet(m) /\ KeepsCarpet(n, m)
    BY <2>1 DEF IsCarpet, CarpetFields, KeepsCarpet
  <2> HIDE DEF m
  <2>4. SoundCarpet(CarpetSetScalars(m)) /\ KeepsCarpet(m, CarpetSetScalars(m))
    BY <2>3, CarpetRedrawn
  <2>5. QED
    BY <2>1, <2>2, <2>3, <2>4 DEF KeepsCarpet
<1>3. SoundCarpet(SetWarpingEnabled(c, x))
      /\ KeepsCarpet([c EXCEPT !.warp = x], SetWarpingEnabled(c, x))
  <2> DEFINE d == [c EXCEPT !.warp = x]
             e == updatePlotOffset(d)
  <2>1. IsCarpet(d) /\ SameCarpet(c, d) /\ d.shown = c.shown
    BY DEF SoundCarpet, IsCarpet, CarpetFields, SameCarpet
  <2>2. SetWarpingEnabled(c, x) = e
    BY DEF SetWarpingEnabled
  <2> HIDE DEF d
  <2>3. IsCarpet(e) /\ SameCarpet(d, e) /\ KeepsCarpet(d, e) /\ e.shown = d.shown
    BY <2>1, Moved
  <2> HIDE DEF e
  <2>4. SameCarpet(c, e)
    BY <2>1, <2>3 DEF SameCarpet
  <2>5. SoundCarpet(e)
    BY <2>1, <2>3, <2>4, SameCarpetScalars DEF SoundCarpet
  <2>6. QED
    BY <2>2, <2>3, <2>5 DEF d
<1>4. /\ KeepsCarpet(c, [c EXCEPT !.angle = x])
      /\ KeepsCarpet(c, [c EXCEPT !.channel = x])
  BY DEF SoundCarpet, IsCarpet, CarpetFields, KeepsCarpet
<1>5. SoundCarpet(SetSelectedAngle(c, x)) /\ KeepsCarpet(c, SetSelectedAngle(c, x))
  BY <1>1, <1>4 DEF SetSelectedAngle, KeepsCarpet
<1>6. SoundCarpet(CarpetSetChannel(c, x)) /\ KeepsCarpet(c, CarpetSetChannel(c, x))
  BY <1>1, <1>4 DEF CarpetSetChannel, KeepsCarpet
<1>7. /\ SoundCarpet(CarpetSetScaling(c, x))
      /\ KeepsCarpet([c EXCEPT !.scaling = x], CarpetSetScaling(c, x))
  BY <1>1 DEF CarpetSetScaling
<1>8. QED
  BY <1>2, <1>3, <1>5, <1>6, <1>7

LEMMA CarpetRangeKeeps ==
  ASSUME NEW c, IsCarpet(c), NEW min, NEW max
  PROVE  SoundCarpet(CarpetSetRange(c, min, max)) /\ KeepsCarpet(c, CarpetSetRange(c, min, max))
<1>1. ASSUME NEW x, NEW y
      PROVE  LET d == [c EXCEPT !.min = x, !.max = y]
             IN  IsCarpet(d) /\ KeepsCarpet(c, d)
  BY DEF IsCarpet, CarpetFields, KeepsCarpet
<1>2. ASSUME NEW d, IsCarpet(d), KeepsCarpet(c, d)
      PROVE  SoundCarpet(CarpetSetScalars(d)) /\ KeepsCarpet(c, CarpetSetScalars(d))
  BY <1>2, CarpetRedrawn DEF KeepsCarpet
<1>3. QED
  BY <1>1, <1>2 DEF CarpetSetRange

LEMMA NewCarpetIsSound ==
  ASSUME NEW f
  PROVE  SoundCarpet(CarpetPlot(f)) /\ CarpetPlot(f).file = f
<1> DEFINE n == NewCarpet(f)
           m == [n EXCEPT !.points = MeshColumns(n)]
           d == CarpetSetScalars(m)
           e == [d EXCEPT !.offset = 0]
<1>1. IsCarpet(n) /\ n.file = f
  BY DEF IsCarpet, CarpetFields, NewCarpet
<1>2. IsCarpet(m) /\ m.file = f
  <2> HIDE DEF n
  <2>1. QED
    BY <1>1 DEF IsCarpet, CarpetFields
<1>3. CarpetPlot(f) = e
  BY DEF CarpetPlot, InitCarpetMesh
<1> HIDE DEF m, n
<1>4. SoundCarpet(d) /\ d.file = f
  BY <1>2, CarpetRedrawn DEF KeepsCarpet
<1> HIDE DEF d
<1>5. IsCarpet(e) /\ SameCarpet(d, e) /\ e.shown = d.shown /\ e.file = f
  BY <1>4 DEF SoundCarpet, IsCarpet, CarpetFields, SameCarpet
<1> HIDE DEF e
<1>6. QED
  BY <1>3, <1>4, <1>5, SameCarpetScalars DEF SoundCarpet

LEMMA CarpetIsAPlot ==
  ASSUME NEW c, IsCarpet(c)
  PROVE  c # NoPlot
<1>1. "file" \in DOMAIN c
  BY DEF IsCarpet, CarpetFields
<1>2. DOMAIN NoPlot = {}
  BY DEF NoPlot
<1>3. QED
  BY <1>1, <1>2

-----------------------------------------------------------------------------
(* The assistants. *)

IsSpherical(s) == s = [k \in {"min", "max", "precision", "circles", "visible"} |-> s[k]]
SphericalFollows(s, m) ==
  IsSpherical(s) /\ \A t \in ShowItems : PartOf[t] \in s.visible <=> m[t]

IsCartesian(c) ==
  /\ c = [limits |-> c.limits, arrows |-> c.arrows, marks |-> c.marks]
  /\ c.limits = [x |-> c.limits.x, y |-> c.limits.y, z |-> c.limits.z]
  /\ \A axis \in {"x", "y", "z"} :
       c.limits[axis] = [min |-> c.limits[axis].min, max |-> c.limits[axis].max,
                         resolution |-> c.limits[axis].resolution,
                         offset |-> c.limits[axis].offset]

LEMMA PartsDiffer ==
  /\ DOMAIN PartOf = {"ShowArrows", "ShowPoles", "ShowGrid", "ShowEquator", "ShowMeridians"}
  /\ \A t \in DOMAIN PartOf : PartOf[t] \in AssistantParts
  /\ \A t, u \in DOMAIN PartOf : PartOf[t] = PartOf[u] => t = u
BY DEF PartOf, AssistantParts

LEMMA SphericalTold ==
  ASSUME NEW s, NEW m \in [Toggles -> BOOLEAN], SphericalFollows(s, m),
         NEW t \in Toggles, NEW on \in BOOLEAN
  PROVE  SphericalFollows(TellAssistant(s, t, on), [m EXCEPT ![t] = on])
<1> DEFINE n == [m EXCEPT ![t] = on]
<1>1. \A u \in Toggles : n[u] = IF u = t THEN on ELSE m[u]
  OBVIOUS
<1> HIDE DEF n
<1>2. CASE t \in ShowItems
  <2> DEFINE d == SetPartVisible(s, PartOf[t], on)
  <2>1. IsSpherical(d)
        /\ d.visible = IF on THEN s.visible \cup {PartOf[t]} ELSE s.visible \ {PartOf[t]}
    BY DEF SphericalFollows, IsSpherical, SetPartVisible
  <2> HIDE DEF d
  <2>2. ASSUME NEW u \in ShowItems
        PROVE  PartOf[u] \in d.visible <=> n[u]
    <3>1. PartOf[u] = PartOf[t] <=> u = t
      BY <1>2, PartsDiffer DEF ShowItems
    <3>2. n[u] = IF u = t THEN on ELSE m[u]
      BY <1>1 DEF ShowItems
    <3>3. PartOf[u] \in s.visible <=> m[u]
      BY DEF SphericalFollows
    <3>4. CASE u = t
      BY <2>1, <3>2, <3>4
    <3>5. CASE u # t
      BY <2>1, <3>1, <3>2, <3>3, <3>5
    <3>6. QED
      BY <3>4, <3>5
  <2>3. QED
    BY <1>2, <2>1, <2>2 DEF SphericalFollows, TellAssistant, n, d
<1>3. CASE t \notin ShowItems
  <2>1. \A u \in ShowItems : n[u] = m[u]
    BY <1>1, <1>3 DEF ShowItems
  <2>2. QED
    BY <1>3, <2>1 DEF SphericalFollows, TellAssistant, n
<1>4. QED
  BY <1>2, <1>3

LEMMA NewSphericalFollows ==
  ASSUME NEW m \in [Toggles -> BOOLEAN]
  PROVE  SphericalFollows(ToldAssistant(m), m)
<1> DEFINE s == SphericalCoordinateAssistant
<1>1. IsSpherical(s) /\ s.visible = AssistantParts
  BY DEF IsSpherical, SphericalCoordinateAssistant, UpdateGrid, SetPartVisible, GetGridVisible,
         AssistantParts
<1> HIDE DEF s
<1>2. /\ IsSpherical(ToldAssistant(m))
      /\ ToldAssistant(m).visible
           = {p \in AssistantParts : \A t \in ShowItems : PartOf[t] = p => m[t]}
  BY <1>1 DEF IsSpherical, ToldAssistant, s
<1>3. ASSUME NEW u \in ShowItems
      PROVE  PartOf[u] \in ToldAssistant(m).visible <=> m[u]
  <2>1. \A t \in ShowItems : PartOf[t] = PartOf[u] => t = u
    BY PartsDiffer DEF ShowItems
  <2>2. PartOf[u] \in AssistantParts
    BY PartsDiffer DEF ShowItems
  <2>3. QED
    BY <1>2, <2>1, <2>2
<1>4. QED
  BY <1>2, <1>3 DEF SphericalFollows

LEMMA CartesianDrawn ==
  ASSUME NEW c, c = [limits |-> c.limits, arrows |-> c.arrows, marks |-> c.marks]
  PROVE  /\ UpdateAxes(c) = [limits |-> c.limits, arrows |-> c.limits, marks |-> c.marks]
         /\ UpdateMarks(c) = [limits |-> c.limits, arrows |-> c.limits, marks |-> c.limits]
         /\ UpdateMarks(UpdateAxes(c)) = UpdateMarks(c)
<1>1. UpdateAxes(c) = [limits |-> c.limits, arrows |-> c.limits, marks |-> c.marks]
  BY DEF UpdateAxes
<1>2. ASSUME NEW d, d = [limits |-> d.limits, arrows |-> d.arrows, marks |-> d.marks]
      PROVE  UpdateMarks(d) = [limits |-> d.limits, arrows |-> d.limits, marks |-> d.limits]
  <2> DEFINE e == [d EXCEPT !.marks = d.limits]
  <2>1. e = [limits |-> d.limits, arrows |-> d.arrows, marks |-> d.limits]
    BY <1>2
  <2>2. UpdateMarks(d) = UpdateAxes(e)
    BY DEF UpdateMarks
  <2> HIDE DEF e
  <2>3. QED
    BY <2>1, <2>2 DEF UpdateAxes
<1>3. QED
  BY <1>1, <1>2

\* One member of the limits of one axis is set, and nothing else of the limits.
SetsOnly(c, d, axis, member, v) ==
  /\ IsCartesian(d)
  /\ \A a \in {"x", "y", "z"} \ {axis} : d.limits[a] = c.limits[a]
  /\ \A k \in {"min", "max", "resolution", "offset"} :
       d.limits[axis][k] = IF k = member THEN v ELSE c.limits[axis][k]

WithLimit(l, axis, member, v) == [l EXCEPT ![axis] = [l[axis] EXCEPT ![member] = v]]
WithLimits(c, l) == [c EXCEPT !.limits = l]

LEMMA LimitsSet ==
  ASSUME NEW c, IsCartesian(c), NEW axis \in {"x", "y", "z"}, NEW v,
         NEW member \in {"min", "max", "resolution", "offset"}
  PROVE  LET l == WithLimit(c.limits, axis, member, v)
         IN  /\ WithLimits(c, l) = [limits |-> l, arrows |-> c.arrows, marks |-> c.marks]
             /\ \A a, m : SetsOnly(c, [limits |-> l, arrows |-> a, marks |-> m], axis, member, v)
<1> DEFINE e == [c.limits[axis] EXCEPT ![member] = v]
           l == [c.limits EXCEPT ![axis] = e]
<1>1. WithLimits(c, l) = [limits |-> l, arrows |-> c.arrows, marks |-> c.marks]
  BY DEF IsCartesian, WithLimits
<1>2. /\ e = [min |-> e.min, max |-> e.max, resolution |-> e.resolution, offset |-> e.offset]
      /\ \A k \in {"min", "max", "resolution", "offset"} :
           e[k] = IF k = member THEN v ELSE c.limits[axis][k]
  BY DEF IsCartesian
<1> HIDE DEF e
<1>3. /\ l = [x |-> l.x, y |-> l.y, z |-> l.z] /\ l[axis] = e
      /\ \A a \in {"x", "y", "z"} \ {axis} : l[a] = c.limits[a]
  BY DEF IsCartesian
<1> HIDE DEF l
<1>4. ASSUME NEW a, NEW m
      PROVE  SetsOnly(c, [limits |-> l, arrows |-> a, marks |-> m], axis, member, v)
  <2>1. \A x \in {"x", "y", "z"} :
          l[x] = [min |-> l[x].min, max |-> l[x].max, resolution |-> l[x].resolution,
                  offset |-> l[x].offset]
    BY <1>2, <1>3 DEF IsCartesian
  <2>2. QED
    BY <1>2, <1>3, <2>1 DEF IsCartesian, SetsOnly
<1>5. QED
  BY <1>1, <1>4 DEF l, e, WithLimit

\* What each setter leaves behind, and what is drawn anew.
LEMMA CartesianSet ==
  ASSUME NEW c, IsCartesian(c), NEW axis \in {"x", "y", "z"}, NEW v
  PROVE  /\ SetsOnly(c, SetMin(c, axis, v), axis, "min", v)
         /\ SetsOnly(c, SetMax(c, axis, v), axis, "max", v) /\ SetMax(c, axis, v).marks = c.marks
         /\ SetsOnly(c, SetResolution(c, axis, v), axis, "resolution", v)
         /\ axis # "y" => SetResolution(c, axis, v).marks = SetResolution(c, axis, v).limits
         /\ SetsOnly(c, SetOffsetY(c, v), "y", "offset", v)
<1> DEFINE set(a, k) == WithLimit(c.limits, a, k, v)
           d(a, k) == WithLimits(c, set(a, k))
<1>1. /\ SetMin(c, axis, v) = d(axis, "min") /\ SetMax(c, axis, v) = d(axis, "max")
      /\ SetOffsetY(c, v) = UpdateMarks(UpdateAxes(d("y", "offset")))
      /\ SetResolution(c, axis, v)
           = IF axis = "y" THEN d(axis, "resolution") ELSE UpdateMarks(d(axis, "resolution"))
  BY DEF IsCartesian, SetMin, SetMax, SetOffsetY, SetResolution, WithLimit, WithLimits
<1>2. ASSUME NEW a \in {"x", "y", "z"}, NEW k \in {"min", "max", "resolution", "offset"}
      PROVE  /\ d(a, k) = [limits |-> set(a, k), arrows |-> c.arrows, marks |-> c.marks]
             /\ \A r, m : SetsOnly(c, [limits |-> set(a, k), arrows |-> r, marks |-> m], a, k, v)
  BY LimitsSet
<1> HIDE DEF set, d
<1>3. ASSUME NEW a \in {"x", "y", "z"}, NEW k \in {"min", "max", "resolution", "offset"}
      PROVE  /\ SetsOnly(c, d(a, k), a, k, v) /\ d(a, k).marks = c.marks
             /\ SetsOnly(c, UpdateMarks(d(a, k)), a, k, v)
             /\ UpdateMarks(d(a, k)).marks = UpdateMarks(d(a, k)).limits
             /\ SetsOnly(c, UpdateMarks(UpdateAxes(d(a, k))), a, k, v)
  <2> DEFINE x == d(a, k)
  <2>1. x = [limits |-> set(a, k), arrows |-> c.arrows, marks |-> c.marks]
    BY <1>2
  <2> HIDE DEF x
  <2>2. UpdateMarks(x) = [limits |-> set(a, k), arrows |-> set(a, k), marks |-> set(a, k)]
        /\ UpdateMarks(UpdateAxes(x)) = UpdateMarks(x)
    BY <2>1, CartesianDrawn
  <2>3. QED
    BY <1>2, <2>1, <2>2 DEF x
<1>4. QED
  BY <1>1, <1>3

\* For whatever file it was set up before: its arrows and the marks of azimuth and
\* value are those of the present file.
LEMMA Configured ==
  ASSUME NEW c, IsCartesian(c), NEW f
  PROVE  IsCartesian(ConfigureAssistant(c, f)) /\ AssistantIsCurrent(ConfigureAssistant(c, f), f)
<1> DEFINE h == Content[f].header
           x1 == SetMin(c, "x", <<h.alphaStart, 1>>)
           x2 == SetMax(x1, "x", <<h.alphaEnd, 1>>)
           x3 == SetResolution(x2, "x", <<h.alphaEnd - h.alphaStart, 11>>)
           y1 == SetMin(x3, "y", <<-Content[f].max, 1>>)
           y2 == SetResolution(y1, "y", <<1, 4>>)
           y3 == SetMax(y2, "y", <<Content[f].max, 1>>)
           y4 == SetOffsetY(y3, <<0, 1>>)
           z1 == SetMin(y4, "z", <<0, 1>>)
           z2 == SetResolution(z1, "z", <<10, 1>>)
           z3 == SetMax(z2, "z", <<Content[f].samplerate, Content[f].frequencies>>)
           d == UpdateAxes(z3)
<1>1. ConfigureAssistant(c, f) = d
  BY DEF ConfigureAssistant, ConfigureX, ConfigureY, ConfigureZ
<1> HIDE DEF x1, x2, x3, y1, y2, y3, y4, z1, z2, z3
<1>2. /\ IsCartesian(x3)
      /\ x3.limits["x"].min = <<h.alphaStart, 1>> /\ x3.limits["x"].max = <<h.alphaEnd, 1>>
  <2>1. SetsOnly(c, x1, "x", "min", <<h.alphaStart, 1>>)
    BY CartesianSet DEF x1
  <2>2. SetsOnly(x1, x2, "x", "max", <<h.alphaEnd, 1>>)
    BY <2>1, CartesianSet DEF SetsOnly, x2
  <2>3. SetsOnly(x2, x3, "x", "resolution", <<h.alphaEnd - h.alphaStart, 11>>)
    BY <2>2, CartesianSet DEF SetsOnly, x3
  <2>4. QED
    BY <2>1, <2>2, <2>3 DEF SetsOnly
<1>3. /\ IsCartesian(y4) /\ y4.limits["x"] = x3.limits["x"]
      /\ y4.limits["y"].min = <<-Content[f].max, 1>> /\ y4.limits["y"].max = <<Content[f].max, 1>>
  <2>1. SetsOnly(x3, y1, "y", "min", <<-Content[f].max, 1>>)
    BY <1>2, CartesianSet DEF y1
  <2>2. SetsOnly(y1, y2, "y", "resolution", <<1, 4>>)
    BY <2>1, CartesianSet DEF SetsOnly, y2
  <2>3. SetsOnly(y2, y3, "y", "max", <<Content[f].max, 1>>)
    BY <2>2, CartesianSet DEF SetsOnly, y3
  <2>4. SetsOnly(y3, y4, "y", "offset", <<0, 1>>)
    BY <2>3, CartesianSet DEF SetsOnly, y4
  <2>5. QED
    BY <2>1, <2>2, <2>3, <2>4 DEF SetsOnly
<1>4. /\ IsCartesian(z3) /\ z3.marks = z2.limits
      /\ z2.limits["x"] = y4.limits["x"] /\ z2.limits["y"] = y4.limits["y"]
      /\ z3.limits["x"] = y4.limits["x"] /\ z3.limits["y"] = y4.limits["y"]
      /\ z3.limits["z"].max = <<Content[f].samplerate, Content[f].frequencies>>
  <2>1. SetsOnly(y4, z1, "z", "min", <<0, 1>>)
    BY <1>3, CartesianSet DEF z1
  <2>2. SetsOnly(z1, z2, "z", "resolution", <<10, 1>>) /\ z2.marks = z2.limits
    BY <2>1, CartesianSet DEF SetsOnly, z2
  <2>3. /\ SetsOnly(z2, z3, "z", "max", <<Content[f].samplerate, Content[f].frequencies>>)
        /\ z3.marks = z2.marks
    BY <2>2, CartesianSet DEF SetsOnly, z3
  <2>4. QED
    BY <2>1, <2>2, <2>3 DEF SetsOnly
<1>5. d = [limits |-> z3.limits, arrows |-> z3.limits, marks |-> z3.marks]
  <2>1. z3 = [limits |-> z3.limits, arrows |-> z3.arrows, marks |-> z3.marks]
    BY <1>4 DEF IsCartesian
  <2>2. QED
    BY <2>1, CartesianDrawn
<1>6. IsCartesian(d) /\ d.limits = z3.limits /\ d.arrows = z3.limits /\ d.marks = z2.limits
  BY <1>4, <1>5 DEF IsCartesian
<1> HIDE DEF d
<1>7. AssistantIsCurrent(d, f)
  BY <1>2, <1>3, <1>4, <1>6 DEF AssistantIsCurrent
<1>8. QED
  BY <1>1, <1>6, <1>7

LEMMA NewIsCartesian == IsCartesian(CartesianCoordinateAssistant)
<1> DEFINE unit == AxisLimits(<<0, 1>>, <<1, 1>>, <<1, 10>>)
           limits == [axis \in {"x", "y", "z"} |-> unit]
<1>1. CartesianCoordinateAssistant = [limits |-> limits, arrows |-> limits, marks |-> limits]
  BY CartesianDrawn DEF CartesianCoordinateAssistant
<1>2. limits = [x |-> limits.x, y |-> limits.y, z |-> limits.z]
  OBVIOUS
<1>3. unit = [min |-> unit.min, max |-> unit.max, resolution |-> unit.resolution,
              offset |-> unit.offset]
  BY DEF AxisLimits
<1>4. QED
  BY <1>1, <1>2, <1>3 DEF IsCartesian

-----------------------------------------------------------------------------
(* The invariant. *)

BalloonFollows(b, m) ==
  /\ b.scaling = Scaling(m["LogScale"]) /\ b.phaseAsColor = m["UsePhaseColorMap"]
  /\ b.normalize = m["Normalize"] /\ b.individually = m["NormalizeFreqsIndividually"]
CarpetFollows(c, m) == c.scaling = Scaling(m["LogScale"]) /\ c.warp = m["Warp"]

BalloonRight(b, m) == Sound(b) /\ BalloonFollows(b, m)
CarpetRight(c, m) == SoundCarpet(c) /\ CarpetFollows(c, m)

SettingsKnown ==
  /\ menu \in [Toggles -> BOOLEAN] /\ saved \in [Toggles -> BOOLEAN] /\ widget = menu
PlotsRight(b, c, m) ==
  /\ b # NoPlot => BalloonRight(b, m)
  /\ c # NoPlot => CarpetRight(c, m)
  /\ b = NoPlot \/ c = NoPlot
AssistantsRight ==
  /\ SphericalFollows(sca, menu)
  /\ IsCartesian(cca) /\ (carpet # NoPlot => AssistantIsCurrent(cca, carpet.file))
Inv == SettingsKnown /\ PlotsRight(balloon, carpet, menu) /\ SceneShowsFile /\ AssistantsRight

LEMMA BalloonTold ==
  ASSUME NEW b, NEW m \in [Toggles -> BOOLEAN], BalloonRight(b, m),
         NEW t \in Toggles, NEW on \in BOOLEAN
  PROVE  BalloonRight(TellBalloon(b, t, on), [m EXCEPT ![t] = on])
<1> DEFINE n == [m EXCEPT ![t] = on]
<1>1. \A u \in Toggles : n[u] = IF u = t THEN on ELSE m[u]
  OBVIOUS
<1>2. {"LogScale", "UsePhaseColorMap", "Normalize", "NormalizeFreqsIndividually"} \subseteq Toggles
  BY ToggleAssumption
<1>3. b = [k \in BalloonFields |-> b[k]] /\ Sound(b)
  BY DEF BalloonRight, Sound, IsBalloon
<1> HIDE DEF n
<1>4. CASE t = "LogScale"
  <2> DEFINE d == SetScaling(b, Scaling(on))
  <2>1. TellBalloon(b, t, on) = d
    BY <1>4 DEF TellBalloon
  <2>2. Sound(d) /\ Keeps([b EXCEPT !.scaling = Scaling(on)], d)
    BY <1>3, SettingSet
  <2> HIDE DEF d
  <2>3. BalloonFollows(d, n)
    BY <1>1, <1>2, <1>3, <1>4, <2>2 DEF Keeps, BalloonRight, BalloonFollows, BalloonFields
  <2>4. QED
    BY <2>1, <2>2, <2>3 DEF BalloonRight, n
<1>5. CASE t = "UsePhaseColorMap"
  <2> DEFINE d == SetUsePhaseAsColor(b, on)
  <2>1. TellBalloon(b, t, on) = d
    BY <1>5 DEF TellBalloon
  <2>2. Sound(d) /\ Keeps([b EXCEPT !.phaseAsColor = on], d)
    BY <1>3, SettingSet
  <2> HIDE DEF d
  <2>3. BalloonFollows(d, n)
    BY <1>1, <1>2, <1>3, <1>5, <2>2 DEF Keeps, BalloonRight, BalloonFollows, BalloonFields
  <2>4. QED
    BY <2>1, <2>2, <2>3 DEF BalloonRight, n
<1>6. CASE t = "Normalize"
  <2> DEFINE d == SetNormalize(b, on)
  <2>1. TellBalloon(b, t, on) = d
    BY <1>6 DEF TellBalloon
  <2>2. Sound(d) /\ Keeps([b EXCEPT !.normalize = on], d)
    BY <1>3, SettingSet
  <2> HIDE DEF d
  <2>3. BalloonFollows(d, n)
    BY <1>1, <1>2, <1>3, <1>6, <2>2 DEF Keeps, BalloonRight, BalloonFollows, BalloonFields
  <2>4. QED
    BY <2>1, <2>2, <2>3 DEF BalloonRight, n
<1>7. CASE t = "NormalizeFreqsIndividually"
  <2> DEFINE d == SetNormalizeFrequenciesIndividually(b, on)
  <2>1. TellBalloon(b, t, on) = d
    BY <1>7 DEF TellBalloon
  <2>2. Sound(d) /\ Keeps([b EXCEPT !.individually = on], d)
    BY <1>3, SettingSet
  <2> HIDE DEF d
  <2>3. BalloonFollows(d, n)
    BY <1>1, <1>2, <1>3, <1>7, <2>2 DEF Keeps, BalloonRight, BalloonFollows, BalloonFields
  <2>4. QED
    BY <2>1, <2>2, <2>3 DEF BalloonRight, n
<1>8. CASE t \notin {"LogScale", "UsePhaseColorMap", "Normalize", "NormalizeFreqsIndividually"}
  <2>1. TellBalloon(b, t, on) = b
    BY <1>8 DEF TellBalloon
  <2>2. BalloonFollows(b, n)
    BY <1>1, <1>2, <1>8 DEF BalloonRight, BalloonFollows
  <2>3. QED
    BY <1>3, <2>1, <2>2 DEF BalloonRight, n
<1>9. QED
  BY <1>4, <1>5, <1>6, <1>7, <1>8

LEMMA CarpetTold ==
  ASSUME NEW c, NEW m \in [Toggles -> BOOLEAN], CarpetRight(c, m),
         NEW t \in Toggles, NEW on \in BOOLEAN
  PROVE  /\ CarpetRight(TellCarpet(c, t, on), [m EXCEPT ![t] = on])
         /\ TellCarpet(c, t, on).file = c.file
<1> DEFINE n == [m EXCEPT ![t] = on]
<1>1. \A u \in Toggles : n[u] = IF u = t THEN on ELSE m[u]
  OBVIOUS
<1>2. {"LogScale", "Warp"} \subseteq Toggles
  BY ToggleAssumption
<1>3. c = [k \in CarpetFields |-> c[k]] /\ SoundCarpet(c)
  BY DEF CarpetRight, SoundCarpet, IsCarpet
<1> HIDE DEF n
<1>4. CASE t = "LogScale"
  <2> DEFINE d == CarpetSetScaling(c, Scaling(on))
  <2>1. TellCarpet(c, t, on) = d
    BY <1>4 DEF TellCarpet
  <2>2. SoundCarpet(d) /\ KeepsCarpet([c EXCEPT !.scaling = Scaling(on)], d)
    BY <1>3, CarpetSet
  <2> HIDE DEF d
  <2>3. CarpetFollows(d, n) /\ d.file = c.file
    BY <1>1, <1>2, <1>3, <1>4, <2>2 DEF KeepsCarpet, CarpetRight, CarpetFollows, CarpetFields
  <2>4. QED
    BY <2>1, <2>2, <2>3 DEF CarpetRight, n
<1>5. CASE t = "Warp"
  <2> DEFINE d == SetWarpingEnabled(c, on)
  <2>1. TellCarpet(c, t, on) = d
    BY <1>5 DEF TellCarpet
  <2>2. SoundCarpet(d) /\ KeepsCarpet([c EXCEPT !.warp = on], d)
    BY <1>3, CarpetSet
  <2> HIDE DEF d
  <2>3. CarpetFollows(d, n) /\ d.file = c.file
    BY <1>1, <1>2, <1>3, <1>5, <2>2 DEF KeepsCarpet, CarpetRight, CarpetFollows, CarpetFields
  <2>4. QED
    BY <2>1, <2>2, <2>3 DEF CarpetRight, n
<1>6. CASE t \notin {"LogScale", "Warp"}
  <2>1. TellCarpet(c, t, on) = c
    BY <1>6 DEF TellCarpet
  <2>2. CarpetFollows(c, n)
    BY <1>1, <1>2, <1>6 DEF CarpetRight, CarpetFollows
  <2>3. QED
    BY <1>3, <2>1, <2>2 DEF CarpetRight, n
<1>7. QED
  BY <1>4, <1>5, <1>6

\* A new plot is told the settings of the widget one after the other.
LEMMA ShownFollows ==
  ASSUME NEW f, NEW m, NEW b1, NEW b2, NEW b3,
         b1 = SetScaling(BalloonPlot(f), Scaling(m["LogScale"])),
         b2 = SetNormalize(SetUsePhaseAsColor(b1, m["UsePhaseColorMap"]), m["Normalize"]),
         b3 = SetNormalizeFrequenciesIndividually(b2, m["NormalizeFreqsIndividually"])
  PROVE  BalloonRight(b3, m)
<1> DEFINE b0 == BalloonPlot(f)
           u == SetUsePhaseAsColor(b1, m["UsePhaseColorMap"])
<1>1. Sound(b0)
  BY NewIsSound
<1> HIDE DEF b0
<1>2. Sound(b1) /\ Keeps([b0 EXCEPT !.scaling = Scaling(m["LogScale"])], b1)
  BY <1>1, SettingSet DEF b0
<1>3. b1.scaling = Scaling(m["LogScale"])
  BY <1>1, <1>2 DEF Keeps, Sound, IsBalloon, BalloonFields
<1>4. Sound(u) /\ Keeps([b1 EXCEPT !.phaseAsColor = m["UsePhaseColorMap"]], u)
  BY <1>2, SettingSet
<1> HIDE DEF u
<1>5. u.scaling = Scaling(m["LogScale"]) /\ u.phaseAsColor = m["UsePhaseColorMap"]
  BY <1>2, <1>3, <1>4 DEF Keeps, Sound, IsBalloon, BalloonFields
<1>6. Sound(b2) /\ Keeps([u EXCEPT !.normalize = m["Normalize"]], b2)
  BY <1>4, SettingSet DEF u
<1>7. /\ b2.scaling = Scaling(m["LogScale"]) /\ b2.phaseAsColor = m["UsePhaseColorMap"]
      /\ b2.normalize = m["Normalize"]
  BY <1>4, <1>5, <1>6 DEF Keeps, Sound, IsBalloon, BalloonFields
<1>8. Sound(b3) /\ Keeps([b2 EXCEPT !.individually = m["NormalizeFreqsIndividually"]], b3)
  BY <1>6, SettingSet
<1>9. BalloonFollows(b3, m)
  BY <1>6, <1>7, <1>8 DEF Keeps, Sound, IsBalloon, BalloonFields, BalloonFollows
<1>10. QED
  BY <1>8, <1>9 DEF BalloonRight

LEMMA ShownCarpetFollows ==
  ASSUME NEW f, NEW m, NEW c1, NEW c2,
         c1 = CarpetSetScaling(CarpetPlot(f), Scaling(m["LogScale"])),
         c2 = SetWarpingEnabled(c1, m["Warp"])
  PROVE  CarpetRight(c2, m) /\ c2.file = f
<1> DEFINE c0 == CarpetPlot(f)
<1>1. SoundCarpet(c0) /\ c0.file = f
  BY NewCarpetIsSound
<1> HIDE DEF c0
<1>2. SoundCarpet(c1) /\ KeepsCarpet([c0 EXCEPT !.scaling = Scaling(m["LogScale"])], c1)
  BY <1>1, CarpetSet DEF c0
<1>3. c1.scaling = Scaling(m["LogScale"]) /\ c1.file = f
  BY <1>1, <1>2 DEF KeepsCarpet, SoundCarpet, IsCarpet, CarpetFields
<1>4. SoundCarpet(c2) /\ KeepsCarpet([c1 EXCEPT !.warp = m["Warp"]], c2)
  BY <1>2, CarpetSet
<1>5. CarpetFollows(c2, m) /\ c2.file = f
  BY <1>2, <1>3, <1>4 DEF KeepsCarpet, SoundCarpet, IsCarpet, CarpetFields, CarpetFollows
<1>6. QED
  BY <1>4, <1>5 DEF CarpetRight

-----------------------------------------------------------------------------
(* Every step preserves it. *)

LEMMA InitInv == Init => Inv
<1>1. Defaults \in [Toggles -> BOOLEAN]
  BY DEF Defaults
<1>2. Init => AssistantsRight
  BY <1>1, NewSphericalFollows, NewIsCartesian DEF Init, AssistantsRight
<1>3. QED
  BY <1>1, <1>2 DEF Init, Inv, SettingsKnown, PlotsRight, SceneShowsFile

LEMMA SamePlots ==
  ASSUME Inv, UNCHANGED settings, UNCHANGED scene,
         balloon' = NoPlot <=> balloon = NoPlot, carpet' = NoPlot <=> carpet = NoPlot,
         balloon # NoPlot => BalloonRight(balloon', menu),
         carpet # NoPlot => (CarpetRight(carpet', menu) /\ carpet'.file = carpet.file)
  PROVE  Inv'
<1>1. SettingsKnown' /\ SceneShowsFile'
  BY DEF Inv, settings, scene, SettingsKnown, SceneShowsFile
<1>2. PlotsRight(balloon', carpet', menu')
  BY DEF Inv, settings, PlotsRight, BalloonRight, Sound, IsBalloon, BalloonIsCurrent, BalloonFollows, CarpetRight, SoundCarpet, IsCarpet, CarpetFollows
<1>3. AssistantsRight'
  BY DEF Inv, settings, scene, AssistantsRight
<1>4. QED
  BY <1>1, <1>2, <1>3 DEF Inv

LEMMA ToggleInv ==
  ASSUME Inv, NEW t \in Toggles, Toggle(t)
  PROVE  Inv'
<1> DEFINE on == menu'[t]
<1>1. on \in BOOLEAN /\ menu' = [menu EXCEPT ![t] = on] /\ widget' = menu'
      /\ menu' \in [Toggles -> BOOLEAN]
  BY DEF Inv, SettingsKnown, Toggle
<1>2. SettingsKnown'
  BY <1>1 DEF Inv, SettingsKnown, Toggle
<1> HIDE DEF on
<1>3. ASSUME balloon # NoPlot
      PROVE  balloon' # NoPlot /\ BalloonRight(balloon', menu')
  <2>1. BalloonRight(TellBalloon(balloon, t, on), [menu EXCEPT ![t] = on])
    BY <1>1, <1>3, BalloonTold DEF Inv, SettingsKnown, PlotsRight
  <2>2. balloon' = TellBalloon(balloon, t, on)
    BY <1>3 DEF Toggle, Toggled, on
  <2>3. QED
    BY <1>1, <2>1, <2>2, BalloonIsAPlot DEF BalloonRight, Sound
<1>4. ASSUME carpet # NoPlot
      PROVE  carpet' # NoPlot /\ CarpetRight(carpet', menu') /\ carpet'.file = carpet.file
  <2>1. /\ CarpetRight(TellCarpet(carpet, t, on), [menu EXCEPT ![t] = on])
        /\ TellCarpet(carpet, t, on).file = carpet.file
    BY <1>1, <1>4, CarpetTold DEF Inv, SettingsKnown, PlotsRight
  <2>2. carpet' = TellCarpet(carpet, t, on)
    BY <1>4 DEF Toggle, Toggled, on
  <2>3. QED
    BY <1>1, <2>1, <2>2, CarpetIsAPlot DEF CarpetRight, SoundCarpet
<1>5. (balloon = NoPlot => balloon' = NoPlot) /\ (carpet = NoPlot => carpet' = NoPlot)
      /\ UNCHANGED <<children, cca>>
  BY DEF Toggle, Toggled
<1>6. PlotsRight(balloon', carpet', menu')
  BY <1>3, <1>4, <1>5 DEF Inv, PlotsRight
<1>7. SceneShowsFile'
  BY <1>3, <1>4, <1>5 DEF Inv, SceneShowsFile
<1>8. SphericalFollows(sca', menu')
  <2>1. sca' = TellAssistant(sca, t, on)
    BY DEF Toggle, Toggled, on
  <2>2. QED
    BY <1>1, <2>1, SphericalTold DEF Inv, SettingsKnown, AssistantsRight
<1>9. AssistantsRight'
  BY <1>4, <1>5, <1>8 DEF Inv, AssistantsRight
<1>10. QED
  BY <1>2, <1>6, <1>7, <1>9 DEF Inv

LEMMA ReadInv ==
  ASSUME Inv, NEW f \in Files, ReadDAFF(f)
  PROVE  Inv'
<1>1. SettingsKnown' /\ widget = menu /\ menu' = menu
  BY DEF Inv, SettingsKnown, ReadDAFF, settings
<1>2. CASE ShowBalloon(f)
  <2>1. BalloonRight(balloon', menu)
    BY <1>1, <1>2, ShownFollows DEF ShowBalloon
  <2>2. balloon' # NoPlot
    BY <2>1, BalloonIsAPlot DEF BalloonRight, Sound
  <2>3. carpet' = NoPlot /\ children' = {"SDI", "balloon", "SCA"} /\ UNCHANGED <<sca, cca>>
    BY <1>2 DEF ShowBalloon, Inv, SceneShowsFile
  <2>4. PlotsRight(balloon', carpet', menu')
    BY <1>1, <2>1, <2>3 DEF PlotsRight
  <2>5. SceneShowsFile' /\ AssistantsRight'
    BY <1>1, <2>2, <2>3 DEF SceneShowsFile, Inv, AssistantsRight
  <2>6. QED
    BY <1>1, <2>4, <2>5 DEF Inv
<1>3. CASE ShowCarpet(f)
  <2>1. CarpetRight(carpet', menu) /\ carpet'.file = f
    BY <1>1, <1>3, ShownCarpetFollows DEF ShowCarpet
  <2>2. carpet' # NoPlot
    BY <2>1, CarpetIsAPlot DEF CarpetRight, SoundCarpet
  <2>3. balloon' = NoPlot /\ children' = {"SDI", "carpet", "CCA"} /\ UNCHANGED sca
    BY <1>3 DEF ShowCarpet, Inv, SceneShowsFile
  <2>4. PlotsRight(balloon', carpet', menu')
    BY <1>1, <2>1, <2>3 DEF PlotsRight
  <2>5. SceneShowsFile'
    BY <2>2, <2>3 DEF SceneShowsFile
  <2>6. cca' = ConfigureAssistant(cca, f) /\ IsCartesian(cca)
    BY <1>3 DEF ShowCarpet, Inv, AssistantsRight
  <2>7. IsCartesian(cca') /\ AssistantIsCurrent(cca', f)
    BY <2>6, Configured
  <2>8. AssistantsRight'
    BY <1>1, <2>1, <2>3, <2>7 DEF Inv, AssistantsRight
  <2>9. QED
    BY <1>1, <2>4, <2>5, <2>8 DEF Inv
<1>4. QED
  BY <1>2, <1>3 DEF ReadDAFF

LEMMA CloseInv ==
  ASSUME Inv, CloseDAFF
  PROVE  Inv'
<1>1. SettingsKnown' /\ balloon' = NoPlot /\ carpet' = NoPlot
  BY DEF Inv, SettingsKnown, CloseDAFF, settings
<1>2. children' = {"SDI", "SCA"}
  BY DEF Inv, PlotsRight, SceneShowsFile, CloseDAFF
<1>3. AssistantsRight'
  BY <1>1 DEF Inv, AssistantsRight, CloseDAFF, settings
<1>4. QED
  BY <1>1, <1>2, <1>3 DEF Inv, PlotsRight, SceneShowsFile

\* A setter of the selection, the range or the probe.
LEMMA BecomesInv ==
  ASSUME Inv, NEW b, BalloonBecomes(b), Sound(b), Keeps(balloon, b)
  PROVE  Inv'
<1>1. balloon # NoPlot /\ balloon' = b /\ b # NoPlot
  BY BalloonIsAPlot DEF BalloonBecomes, Sound
<1>2. BalloonRight(b, menu)
  BY <1>1 DEF Inv, PlotsRight, BalloonRight, BalloonFollows, Keeps
<1>3. UNCHANGED settings /\ UNCHANGED scene /\ UNCHANGED carpet
  BY DEF BalloonBecomes
<1>4. carpet # NoPlot => (CarpetRight(carpet', menu) /\ carpet'.file = carpet.file)
  BY <1>3 DEF Inv, PlotsRight
<1>5. QED
  BY <1>1, <1>2, <1>3, <1>4, SamePlots

LEMMA CarpetBecomesInv ==
  ASSUME Inv, NEW c, CarpetBecomes(c), SoundCarpet(c), KeepsCarpet(carpet, c)
  PROVE  Inv'
<1>1. carpet # NoPlot /\ carpet' = c /\ c # NoPlot
  BY CarpetIsAPlot DEF CarpetBecomes, SoundCarpet
<1>2. CarpetRight(c, menu) /\ c.file = carpet.file
  BY <1>1 DEF Inv, PlotsRight, CarpetRight, CarpetFollows, KeepsCarpet
<1>3. UNCHANGED settings /\ UNCHANGED scene /\ UNCHANGED balloon
  BY DEF CarpetBecomes
<1>4. balloon # NoPlot => BalloonRight(balloon', menu)
  BY <1>3 DEF Inv, PlotsRight
<1>5. QED
  BY <1>1, <1>2, <1>3, <1>4, SamePlots

\* What is on display before such a setter.
LEMMA OnDisplay ==
  ASSUME Inv
  PROVE  (balloon # NoPlot => Sound(balloon)) /\ (carpet # NoPlot => SoundCarpet(carpet))
BY DEF Inv, PlotsRight, BalloonRight, CarpetRight

LEMMA SelectInv ==
  ASSUME Inv, (balloon # NoPlot /\ ChangeFrequencyIndex) \/ ChangeChannelIndex \/ ChangeAlphaOrBeta
  PROVE  Inv'
<1>1. ASSUME NEW i, BalloonBecomes(SetSelectedFrequency(balloon, i))
                    \/ BalloonBecomes(SetChannel(balloon, i))
      PROVE  Inv'
  <2>1. IsBalloon(balloon)
    BY <1>1, OnDisplay DEF BalloonBecomes, Sound
  <2>2. QED
    BY <1>1, <2>1, SelectionKeeps, BecomesInv
<1>2. ASSUME NEW i, CarpetBecomes(CarpetSetChannel(carpet, i))
                    \/ CarpetBecomes(SetSelectedAngle(carpet, i))
      PROVE  Inv'
  <2>1. SoundCarpet(carpet)
    BY <1>2, OnDisplay DEF CarpetBecomes
  <2>2. QED
    BY <1>2, <2>1, CarpetSet, CarpetBecomesInv
<1>3. QED
  BY <1>1, <1>2 DEF ChangeFrequencyIndex, ChangeChannelIndex, ChangeAlphaOrBeta

LEMMA SetBalloonInv ==
  ASSUME Inv, SetBalloon
  PROVE  Inv'
<1>1. Sound(balloon) /\ IsBalloon(balloon)
  BY OnDisplay DEF SetBalloon, BalloonBecomes, Sound
<1>2. ASSUME NEW on, BalloonBecomes(SetUseCustomRange(balloon, on))
      PROVE  Inv'
  BY <1>1, <1>2, SelectionKeeps, BecomesInv
<1>3. ASSUME NEW min, NEW max, BalloonBecomes(SetRange(balloon, min, max))
      PROVE  Inv'
  BY <1>1, <1>3, RangeKeeps, BecomesInv
<1>4. ASSUME NEW p, BalloonBecomes(SetProbeAngles(balloon, p[1], p[2]))
      PROVE  Inv'
  BY <1>1, <1>4, ProbeKeeps, BecomesInv
<1>5. QED
  BY <1>2, <1>3, <1>4 DEF SetBalloon

LEMMA SetCarpetInv ==
  ASSUME Inv, SetCarpet
  PROVE  Inv'
<1>1. SoundCarpet(carpet) /\ IsCarpet(carpet)
  BY OnDisplay DEF SetCarpet, CarpetBecomes, SoundCarpet
<1>2. ASSUME NEW which, CarpetBecomes(SetFixedAngle(carpet, which))
      PROVE  Inv'
  BY <1>1, <1>2, CarpetSet, CarpetBecomesInv
<1>3. ASSUME NEW min, NEW max, CarpetBecomes(CarpetSetRange(carpet, min, max))
      PROVE  Inv'
  BY <1>1, <1>3, CarpetRangeKeeps, CarpetBecomesInv
<1>4. QED
  BY <1>2, <1>3 DEF SetCarpet

LEMMA ExportInv ==
  ASSUME Inv, on_actionExport3DPlotImageSeries
  PROVE  Inv'
<1>1. ASSUME NEW b, NEW i, NEW k, balloon # NoPlot, b = SetChannel(balloon, i),
             BalloonBecomes(SetSelectedFrequency(b, k))
      PROVE  Inv'
  <2>1. Sound(b) /\ Keeps(balloon, b)
    BY <1>1, OnDisplay, SelectionKeeps DEF Sound
  <2>2. /\ Sound(SetSelectedFrequency(b, k))
        /\ Keeps(b, SetSelectedFrequency(b, k))
    BY <2>1, SelectionKeeps DEF Sound
  <2>3. Keeps(balloon, SetSelectedFrequency(b, k))
    BY <2>1, <2>2 DEF Keeps
  <2>4. QED
    BY <1>1, <2>2, <2>3, BecomesInv
<1>2. ASSUME NEW c, NEW a, NEW i, carpet # NoPlot, c = SetSelectedAngle(carpet, a),
             CarpetBecomes(CarpetSetChannel(c, i))
      PROVE  Inv'
  <2>1. SoundCarpet(c) /\ KeepsCarpet(carpet, c)
    BY <1>2, OnDisplay, CarpetSet
  <2>2. SoundCarpet(CarpetSetChannel(c, i)) /\ KeepsCarpet(c, CarpetSetChannel(c, i))
    BY <2>1, CarpetSet
  <2>3. KeepsCarpet(carpet, CarpetSetChannel(c, i))
    BY <2>1, <2>2 DEF KeepsCarpet
  <2>4. QED
    BY <1>2, <2>2, <2>3, CarpetBecomesInv
<1>3. ASSUME NEW n, NEW channels, NEW frequencies, NEW angles,
             ExportScrenshotSeriesPNG(n, channels, frequencies, angles)
      PROVE  Inv'
  <2> DEFINE last(range) == LastIndex(range[1], range[2], n)
             angle == angles[1] + (n - 1) * ((angles[2] - angles[1]) \div n)
  <2>1. \/ /\ balloon # NoPlot
           /\ \E b \in {SetChannel(balloon, last(channels))} :
                BalloonBecomes(SetSelectedFrequency(b, last(frequencies)))
        \/ /\ carpet # NoPlot
           /\ \E c \in {SetSelectedAngle(carpet, angle)} :
                CarpetBecomes(CarpetSetChannel(c, last(channels)))
    BY <1>3 DEF ExportScrenshotSeriesPNG
  <2> HIDE DEF last, angle
  <2>2. QED
    BY <1>1, <1>2, <2>1
<1>4. QED
  BY <1>3 DEF on_actionExport3DPlotImageSeries

LEMMA OpenInv ==
  ASSUME Inv, Quit \/ Crash
  PROVE  Inv'
<1>1. PICK m \in [Toggles -> BOOLEAN] : saved' \in [Toggles -> BOOLEAN] /\ OpenWindow(m)
  BY DEF Inv, Quit, Crash, SettingsKnown
<1>2. AssistantsRight'
  BY <1>1, NewSphericalFollows, NewIsCartesian DEF OpenWindow, NewScene, AssistantsRight
<1>3. QED
  BY <1>1, <1>2 DEF Inv, OpenWindow, NewScene, SettingsKnown, PlotsRight, SceneShowsFile

LEMMA StutterInv ==
  ASSUME Inv, UNCHANGED vars
  PROVE  Inv'
<1>1. UNCHANGED settings /\ UNCHANGED scene /\ UNCHANGED <<balloon, carpet>>
  BY DEF vars, settings, scene
<1>2. (balloon # NoPlot => BalloonRight(balloon', menu))
      /\ (carpet # NoPlot => (CarpetRight(carpet', menu) /\ carpet'.file = carpet.file))
  BY <1>1 DEF Inv, PlotsRight
<1>3. QED
  BY <1>1, <1>2, SamePlots

LEMMA NextInv == Inv /\ [Next]_vars => Inv'
<1> SUFFICES ASSUME Inv, [Next]_vars
             PROVE  Inv'
  OBVIOUS
<1>1. ASSUME NEW t \in Toggles, Toggle(t)
      PROVE  Inv'
  BY <1>1, ToggleInv
<1>2. ASSUME NEW f \in Files, ReadDAFF(f)
      PROVE  Inv'
  BY <1>2, ReadInv
<1>3. CASE CloseDAFF
  BY <1>3, CloseInv
<1>4. CASE (balloon # NoPlot /\ ChangeFrequencyIndex) \/ ChangeChannelIndex \/ ChangeAlphaOrBeta
  BY <1>4, SelectInv
<1>5. CASE SetBalloon
  BY <1>5, SetBalloonInv
<1>6. CASE SetCarpet
  BY <1>6, SetCarpetInv
<1>7. CASE on_actionExport3DPlotImageSeries
  BY <1>7, ExportInv
<1>8. CASE Quit \/ Crash
  BY <1>8, OpenInv
<1>9. CASE UNCHANGED vars
  BY <1>9, StutterInv
<1>10. QED
  BY <1>1, <1>2, <1>3, <1>4, <1>5, <1>6, <1>7, <1>8, <1>9 DEF Next

LEMMA Invariance == Spec => []Inv
<1>1. QED
  BY InitInv, NextInv, PTL DEF Spec

-----------------------------------------------------------------------------

\* What the menu shows as checked is what the widget and the plot on display go
\* by, for every order of toggling, reading, closing, quitting and crashing.
THEOREM MenuIsFollowed == Spec => []PlotFollowsMenu
<1>1. Inv => PlotFollowsMenu
  BY DEF Inv, SettingsKnown, PlotsRight, BalloonRight, BalloonFollows, CarpetRight, CarpetFollows,
         AssistantsRight, SphericalFollows, PlotFollowsMenu
<1>2. QED
  BY <1>1, Invariance, PTL

\* The points and the label on display are those of the present settings and
\* selection: no setter leaves a part of the plot as it was before.
THEOREM PlotIsCurrent == Spec => []ShownIsCurrent
<1>1. Inv => ShownIsCurrent
  BY DEF Inv, PlotsRight, BalloonRight, Sound, BalloonIsCurrent, CarpetRight, SoundCarpet,
         AssistantsRight, ShownIsCurrent
<1>2. QED
  BY <1>1, Invariance, PTL

\* The scene holds the plot of the open file and the assistant of its kind, and
\* neither twice nor after it was deleted.
THEOREM SceneFollowsFile == Spec => []SceneShowsFile
<1>1. Inv => SceneShowsFile
  BY DEF Inv
<1>2. QED
  BY <1>1, Invariance, PTL

-----------------------------------------------------------------------------
(* The scalars.                                                              *)

LEMMA ProductsOrdered ==
  ASSUME NEW a \in Nat, NEW b \in Nat, NEW c \in Nat, a <= b
  PROVE  a * c <= b * c
OBVIOUS

\* A part of a whole.
LEMMA QuotientOfPart ==
  ASSUME NEW x \in Nat, NEW m \in Nat, m > 0, x <= m
  PROVE  (x * Whole) \div m \in 0 .. Whole
<1>1. PICK q \in Int : q = (x * Whole) \div m
  BY DEF Whole
<1>2. m * q <= x * Whole /\ x * Whole < m * q + m
  BY <1>1 DEF Whole
<1>3. x * Whole <= m * Whole
  BY DEF Whole
<1>4. q >= 0
  <2>1. SUFFICES ASSUME q <= -1 PROVE FALSE
    BY <1>1
  <2>2. m * q + m <= 0
    BY <2>1
  <2>3. QED
    BY <1>2, <2>2 DEF Whole
<1>5. q <= Whole
  <2>1. SUFFICES ASSUME q >= Whole + 1 PROVE FALSE
    BY <1>1 DEF Whole
  <2>2. m * q >= m * (Whole + 1)
    BY <2>1 DEF Whole
  <2>3. QED
    BY <1>2, <1>3, <2>2 DEF Whole
<1>6. QED
  BY <1>1, <1>4, <1>5 DEF Whole

LEMMA PartIsAPart ==
  ASSUME NEW x \in Int, NEW min \in Int, NEW max \in Int
  PROVE  Part(x, min, max) \in 0 .. Whole
<1>1. CASE x <= min
  BY <1>1 DEF Part, Whole
<1>2. CASE ~(x <= min) /\ x >= max
  BY <1>2 DEF Part, Whole
<1>3. CASE ~(x <= min) /\ ~(x >= max)
  <2>1. x - min \in Nat /\ max - min \in Nat /\ max - min > 0 /\ x - min <= max - min
    BY <1>3
  <2>2. ((x - min) * Whole) \div (max - min) \in 0 .. Whole
    BY <2>1, QuotientOfPart
  <2>3. QED
    BY <1>3, <2>2 DEF Part
<1>4. QED
  BY <1>1, <1>2, <1>3

LEMMA LevelsAreNumbers ==
  /\ Magnitudes \subseteq Nat
  /\ \A x \in Magnitudes : Decibel[x] \in Int
  /\ \A x \in Magnitudes, y \in Magnitudes : Relative(x, y) \in Int
<1>1. Magnitudes \subseteq Nat
  BY DEF Magnitudes, Unit
<1>2. ASSUME NEW x \in Magnitudes
      PROVE  Decibel[x] \in Int
  BY DEF Decibel, Magnitudes, Unit
<1>3. QED
  BY <1>1, <1>2 DEF Relative

\* The five magnitudes have a greatest.
LEMMA GreatestMagnitude ==
  ASSUME NEW S, S \subseteq Magnitudes, S # {}
  PROVE  Max(S) \in S /\ \A y \in S : y <= Max(S)
<1>1. \E x \in S : \A y \in S : x >= y
  <2>1. \A y \in S : y = 0 \/ y = 1 \/ y = 10 \/ y = 100 \/ y = 1000
    BY DEF Magnitudes, Unit
  <2>2. CASE 1000 \in S
    BY <2>1, <2>2
  <2>3. CASE 1000 \notin S /\ 100 \in S
    BY <2>1, <2>3
  <2>4. CASE 1000 \notin S /\ 100 \notin S /\ 10 \in S
    BY <2>1, <2>4
  <2>5. CASE 1000 \notin S /\ 100 \notin S /\ 10 \notin S /\ 1 \in S
    BY <2>1, <2>5
  <2>6. CASE 1000 \notin S /\ 100 \notin S /\ 10 \notin S /\ 1 \notin S
    BY <2>1, <2>6
  <2>7. QED
    BY <2>2, <2>3, <2>4, <2>5, <2>6
<1>2. Max(S) \in S /\ \A y \in S : Max(S) >= y
  BY <1>1 DEF Max
<1>3. \A y \in S : y \in Nat
  BY LevelsAreNumbers
<1>4. QED
  BY <1>2, <1>3

\* A level typed in is the level of one magnitude.
LEMMA FactorIsAMagnitude ==
  ASSUME NEW x \in Magnitudes
  PROVE  Factor(Decibel[x]) \in Magnitudes
BY DEF Factor

-----------------------------------------------------------------------------
(* The selection.                                                            *)

\* What is selected exists, and the range consists of magnitudes.
IsSelection(b) ==
  /\ b.file \in Files /\ Content[b.file].type # "IR"
  /\ b.channel \in Channels(b.file) /\ b.frequency \in Frequencies(b.file)
  /\ b.min \in Magnitudes /\ b.max \in Magnitudes
SelectionRight == balloon # NoPlot => IsSelection(balloon)

SameSelection(b, d) ==
  /\ b.file = d.file /\ b.frequency = d.frequency /\ b.channel = d.channel
  /\ b.min = d.min /\ b.max = d.max

LEMMA SelectionKept ==
  ASSUME NEW b, NEW d, IsSelection(b), SameSelection(b, d)
  PROVE  IsSelection(d)
BY DEF IsSelection, SameSelection, Channels, Frequencies

\* The settings of the menu and the probe leave the selection alone.
LEMMA SettingKeepsSelection ==
  ASSUME NEW b, IsBalloon(b), NEW x, NEW y
  PROVE  /\ SameSelection(b, SetScaling(b, x))
         /\ SameSelection(b, SetNormalize(b, x))
         /\ SameSelection(b, SetNormalizeFrequenciesIndividually(b, x))
         /\ SameSelection(b, SetUsePhaseAsColor(b, x))
         /\ SameSelection(b, SetUseCustomRange(b, x))
         /\ SameSelection(b, SetProbeAngles(b, x, y))
<1>1. ASSUME NEW d, d = [b EXCEPT !.scaling = x] \/ d = [b EXCEPT !.normalize = x]
                         \/ d = [b EXCEPT !.individually = x] \/ d = [b EXCEPT !.customRange = x]
      PROVE  SameSelection(b, SetScalars(d))
  <2>1. IsBalloon(d) /\ SameSelection(b, d)
    BY <1>1 DEF IsBalloon, BalloonFields, SameSelection
  <2>2. SameBalloon(SetScalars(d), d)
    BY <2>1, Drawn
  <2>3. QED
    BY <2>1, <2>2 DEF SameBalloon, SameSelection
<1>2. /\ SameSelection(b, [b EXCEPT !.phaseAsColor = x])
      /\ SameSelection(b, [b EXCEPT !.probe = <<x, y>>])
  BY DEF IsBalloon, BalloonFields, SameSelection
<1>3. QED
  BY <1>1, <1>2 DEF SetScaling, SetNormalize, SetNormalizeFrequenciesIndividually,
                    SetUsePhaseAsColor, SetUseCustomRange, SetProbeAngles

LEMMA DrawnSelection ==
  ASSUME NEW b, IsBalloon(b), IsSelection(b)
  PROVE  IsSelection(SetScalars(b))
<1>1. SameSelection(b, SetScalars(b))
  BY Drawn DEF SameBalloon, SameSelection
<1>2. QED
  BY <1>1, SelectionKept

LEMMA SelectionSet ==
  ASSUME NEW b, IsBalloon(b), IsSelection(b)
  PROVE  /\ \A i \in Channels(b.file) : IsSelection(SetChannel(b, i))
         /\ \A i \in Frequencies(b.file) : IsSelection(SetSelectedFrequency(b, i))
<1>1. ASSUME NEW i \in Channels(b.file)
      PROVE  IsSelection(SetChannel(b, i))
  <2> DEFINE d == [b EXCEPT !.channel = i]
  <2>1. IsBalloon(d) /\ d.channel = i /\ d.file = b.file /\ d.frequency = b.frequency
        /\ d.min = b.min /\ d.max = b.max
    BY DEF IsBalloon, BalloonFields
  <2> HIDE DEF d
  <2>2. IsSelection(d)
    BY <2>1 DEF IsSelection, Channels, Frequencies
  <2>3. QED
    BY <2>1, <2>2, DrawnSelection DEF SetChannel, d
<1>2. ASSUME NEW i \in Frequencies(b.file)
      PROVE  IsSelection(SetSelectedFrequency(b, i))
  <2> DEFINE d == [b EXCEPT !.frequency = i]
  <2>1. IsBalloon(d) /\ d.frequency = i /\ d.file = b.file /\ d.channel = b.channel
        /\ d.min = b.min /\ d.max = b.max
    BY DEF IsBalloon, BalloonFields
  <2> HIDE DEF d
  <2>2. IsSelection(d)
    BY <2>1 DEF IsSelection, Channels, Frequencies
  <2>3. QED
    BY <2>1, <2>2, DrawnSelection DEF SetSelectedFrequency, d
<1>3. QED
  BY <1>1, <1>2

LEMMA RangeSet ==
  ASSUME NEW b, IsBalloon(b), IsSelection(b), NEW x \in Magnitudes, NEW y \in Magnitudes
  PROVE  IsSelection(IF b.scaling = "linear" THEN SetRange(b, x, y)
                     ELSE SetRange(b, Decibel[x], Decibel[y]))
<1>1. ASSUME NEW u \in Magnitudes, NEW v \in Magnitudes
      PROVE  IsSelection(SetScalars([b EXCEPT !.min = u, !.max = v]))
  <2> DEFINE d == [b EXCEPT !.min = u, !.max = v]
  <2>1. IsBalloon(d) /\ d.frequency = b.frequency /\ d.file = b.file /\ d.channel = b.channel
        /\ d.min = u /\ d.max = v
    BY DEF IsBalloon, BalloonFields
  <2> HIDE DEF d
  <2>2. IsSelection(d)
    BY <2>1 DEF IsSelection, Channels, Frequencies
  <2>3. QED
    BY <2>1, <2>2, DrawnSelection DEF d
<1>2. Factor(Decibel[x]) \in Magnitudes /\ Factor(Decibel[y]) \in Magnitudes
  BY FactorIsAMagnitude
<1>3. CASE b.scaling = "linear"
  BY <1>1, <1>3 DEF SetRange
<1>4. CASE b.scaling # "linear"
  BY <1>1, <1>2, <1>4 DEF SetRange
<1>5. QED
  BY <1>3, <1>4

LEMMA NewSelection ==
  ASSUME NEW f \in Files, Content[f].type # "IR"
  PROVE  IsSelection(BalloonPlot(f))
<1> DEFINE n == NewBalloon(f)
           d == SetScalars(n)
<1>1. IsBalloon(n)
  BY DEF IsBalloon, BalloonFields, NewBalloon
<1>2. /\ n.file = f /\ n.channel = 0 /\ n.frequency = 0 /\ n.min = 0 /\ n.max = Unit
  BY DEF NewBalloon
<1> HIDE DEF n
<1>3. IsSelection(n)
  <2>1. 0 \in Channels(f) /\ 0 \in Frequencies(f)
    BY ContentAssumption DEF Channels, Frequencies
  <2>2. 0 \in Magnitudes /\ Unit \in Magnitudes
    BY DEF Magnitudes
  <2>3. QED
    BY <1>2, <2>1, <2>2 DEF IsSelection
<1>4. IsSelection(d) /\ IsBalloon(d)
  BY <1>1, <1>3, DrawnSelection, Drawn
<1>5. BalloonPlot(f) = [d EXCEPT !.label = <<>>]
  BY DEF BalloonPlot, n
<1> HIDE DEF d
<1>6. SameSelection(d, BalloonPlot(f))
  BY <1>4, <1>5 DEF IsBalloon, BalloonFields, SameSelection
<1>7. QED
  BY <1>4, <1>6, SelectionKept

\* Where a series ends is between its ends.
LEMMA LastBetween ==
  ASSUME NEW first \in Int, NEW last \in Int, NEW n \in Nat, n > 0
  PROVE  LastIndex(first, last, n) \in Int
         /\ (first <= last => first <= LastIndex(first, last, n) /\ LastIndex(first, last, n) <= last)
         /\ (last <= first => last <= LastIndex(first, last, n) /\ LastIndex(first, last, n) <= first)
<1>1. ASSUME NEW d \in Nat
      PROVE  (2 * d * (n - 1) + n) \div (2 * n) \in 0 .. d
  <2>1. PICK p \in Int, m \in Int, t \in Int :
          p = d * (n - 1) /\ m = d * n /\ t = 2 * d * (n - 1) + n
    OBVIOUS
  <2>2. m = p + d /\ t = 2 * p + n /\ p >= 0
    BY <2>1
  <2>3. PICK q \in Int, u \in Int : q = t \div (2 * n) /\ u = n * q
    OBVIOUS
  <2>4. 2 * u <= t /\ t < 2 * u + 2 * n
    BY <2>1, <2>3
  <2>5. q >= 0
    <3>1. SUFFICES ASSUME q <= -1 PROVE FALSE
      BY <2>3
    <3>2. u + n <= 0
      BY <2>3, <3>1
    <3>3. QED
      BY <2>2, <2>4, <3>2
  <2>6. q <= d
    <3>1. SUFFICES ASSUME q >= d + 1 PROVE FALSE
      BY <2>3
    <3>2. u >= m + n
      BY <2>1, <2>3, <3>1
    <3>3. QED
      BY <2>2, <2>4, <3>2
  <2>7. QED
    BY <2>1, <2>3, <2>5, <2>6
<1>2. CASE last >= first
  <2>1. PICK d \in Nat : d = last - first
    BY <1>2
  <2>2. Rounded(last - first, n - 1, n) = (2 * d * (n - 1) + n) \div (2 * n)
    BY <2>1 DEF Rounded
  <2>3. PICK q \in 0 .. d : q = Rounded(last - first, n - 1, n)
    BY <1>1, <2>2
  <2>4. QED
    BY <1>2, <2>1, <2>3 DEF LastIndex
<1>3. CASE last < first
  <2>1. PICK d \in Nat : d = first - last /\ d > 0
    BY <1>3
  <2>2. PICK e \in Int : e = last - first /\ e = -d /\ e < 0
    BY <2>1
  <2>3. -2 * e * (n - 1) = 2 * d * (n - 1)
    BY <2>2
  <2>4. Rounded(e, n - 1, n) = -((2 * d * (n - 1) + n) \div (2 * n))
    BY <2>2, <2>3 DEF Rounded
  <2>5. PICK q \in 0 .. d : Rounded(last - first, n - 1, n) = -q
    BY <1>1, <2>2, <2>4
  <2>6. QED
    BY <1>3, <2>1, <2>5 DEF LastIndex
<1>4. QED
  BY <1>2, <1>3

LEMMA LastInRange ==
  ASSUME NEW m \in Nat, NEW first \in 0 .. m - 1, NEW last \in 0 .. m - 1, NEW n \in Nat, n > 0
  PROVE  LastIndex(first, last, n) \in 0 .. m - 1
<1>1. first \in Int /\ last \in Int
  OBVIOUS
<1>2. PICK i : i = LastIndex(first, last, n)
  OBVIOUS
<1>3. /\ i \in Int /\ (first <= last => first <= i /\ i <= last)
      /\ (last <= first => last <= i /\ i <= first)
  BY <1>1, <1>2, LastBetween
<1>4. QED
  BY <1>2, <1>3

\* Every step keeps the selection.
LEMMA BecomesSelection ==
  ASSUME NEW b, BalloonBecomes(b), IsSelection(b)
  PROVE  SelectionRight'
BY DEF BalloonBecomes, SelectionRight, IsSelection, Channels, Frequencies

LEMMA ToggleSelection ==
  ASSUME Inv, SelectionRight, NEW t \in Toggles, Toggle(t)
  PROVE  SelectionRight'
<1>1. CASE balloon = NoPlot
  BY <1>1 DEF Toggle, Toggled, SelectionRight
<1>2. CASE balloon # NoPlot
  <2> DEFINE d == TellBalloon(balloon, t, menu'[t])
  <2>1. IsBalloon(balloon) /\ IsSelection(balloon)
    BY <1>2, OnDisplay DEF Sound, SelectionRight
  <2>2. SameSelection(balloon, d)
    BY <2>1, SettingKeepsSelection DEF TellBalloon, SameSelection
  <2>3. balloon' = d
    BY <1>2 DEF Toggle, Toggled
  <2> HIDE DEF d
  <2>4. IsSelection(d)
    BY <2>1, <2>2, SelectionKept
  <2>5. QED
    BY <2>3, <2>4 DEF SelectionRight, IsSelection, Channels, Frequencies
<1>3. QED
  BY <1>1, <1>2

LEMMA ReadSelection ==
  ASSUME NEW f \in Files, ReadDAFF(f)
  PROVE  SelectionRight'
<1>1. CASE Content[f].type = "IR"
  BY <1>1 DEF ReadDAFF, ShowCarpet, SelectionRight
<1>2. CASE Content[f].type # "IR"
  <2> DEFINE b0 == BalloonPlot(f)
  <2>1. PICK b1, b2, u :
          /\ b1 = SetScaling(b0, Scaling(widget["LogScale"]))
          /\ u = SetUsePhaseAsColor(b1, widget["UsePhaseColorMap"])
          /\ b2 = SetNormalize(u, widget["Normalize"])
          /\ balloon' = SetNormalizeFrequenciesIndividually(b2, widget["NormalizeFreqsIndividually"])
    BY <1>2 DEF ReadDAFF, ShowBalloon
  <2>2. IsSelection(b0) /\ Sound(b0)
    BY <1>2, NewSelection, NewIsSound
  <2> HIDE DEF b0
  <2>3. IsSelection(b1) /\ Sound(b1)
    BY <2>1, <2>2, SettingSet, SettingKeepsSelection, SelectionKept DEF Sound
  <2>4. IsSelection(u) /\ Sound(u)
    BY <2>1, <2>3, SettingSet, SettingKeepsSelection, SelectionKept DEF Sound
  <2>5. IsSelection(b2) /\ Sound(b2)
    BY <2>1, <2>4, SettingSet, SettingKeepsSelection, SelectionKept DEF Sound
  <2>6. PICK b3 : b3 = balloon' /\ IsSelection(b3)
    BY <2>1, <2>5, SettingKeepsSelection, SelectionKept DEF Sound
  <2>7. QED
    BY <2>6 DEF SelectionRight, IsSelection, Channels, Frequencies
<1>3. QED
  BY <1>1, <1>2

LEMMA SetSelection ==
  ASSUME Inv, SelectionRight,
         (balloon # NoPlot /\ ChangeFrequencyIndex) \/ ChangeChannelIndex \/ SetBalloon
  PROVE  SelectionRight'
<1>1. ASSUME balloon # NoPlot
      PROVE  Sound(balloon) /\ IsBalloon(balloon) /\ IsSelection(balloon)
  BY <1>1, OnDisplay DEF Sound, SelectionRight
<1>2. ASSUME NEW i \in Frequencies(balloon.file),
             BalloonBecomes(SetSelectedFrequency(balloon, i))
      PROVE  SelectionRight'
  <2>1. IsSelection(SetSelectedFrequency(balloon, i))
    BY <1>1, <1>2, SelectionSet DEF BalloonBecomes
  <2>2. QED
    BY <1>2, <2>1, BecomesSelection
<1>3. ASSUME NEW i \in Channels(balloon.file), BalloonBecomes(SetChannel(balloon, i))
      PROVE  SelectionRight'
  <2>1. IsSelection(SetChannel(balloon, i))
    BY <1>1, <1>3, SelectionSet DEF BalloonBecomes
  <2>2. QED
    BY <1>3, <2>1, BecomesSelection
<1>4. ASSUME NEW c, CarpetBecomes(c)
      PROVE  SelectionRight'
  BY <1>4 DEF CarpetBecomes, SelectionRight
<1>5. ASSUME NEW on, BalloonBecomes(SetUseCustomRange(balloon, on))
      PROVE  SelectionRight'
  <2>1. IsSelection(SetUseCustomRange(balloon, on))
    BY <1>1, <1>5, SettingKeepsSelection, SelectionKept DEF BalloonBecomes
  <2>2. QED
    BY <1>5, <2>1, BecomesSelection
<1>6. ASSUME NEW r \in BalloonRanges,
             BalloonBecomes(IF balloon.scaling = "linear" THEN SetRange(balloon, r[1], r[2])
                            ELSE SetRange(balloon, Decibel[r[1]], Decibel[r[2]]))
      PROVE  SelectionRight'
  <2>1. r[1] \in Magnitudes /\ r[2] \in Magnitudes
    BY RangesAssumption
  <2>2. IsSelection(IF balloon.scaling = "linear" THEN SetRange(balloon, r[1], r[2])
                    ELSE SetRange(balloon, Decibel[r[1]], Decibel[r[2]]))
    BY <1>1, <1>6, <2>1, RangeSet DEF BalloonBecomes
  <2>3. QED
    BY <1>6, <2>2, BecomesSelection
<1>7. ASSUME NEW p, BalloonBecomes(SetProbeAngles(balloon, p[1], p[2]))
      PROVE  SelectionRight'
  <2>1. IsSelection(SetProbeAngles(balloon, p[1], p[2]))
    BY <1>1, <1>7, SettingKeepsSelection, SelectionKept DEF BalloonBecomes
  <2>2. QED
    BY <1>7, <2>1, BecomesSelection
<1>8. QED
  BY <1>2, <1>3, <1>4, <1>5, <1>6, <1>7 DEF ChangeFrequencyIndex, ChangeChannelIndex, SetBalloon

LEMMA ExportSelection ==
  ASSUME Inv, SelectionRight, on_actionExport3DPlotImageSeries
  PROVE  SelectionRight'
<1>1. ASSUME NEW n \in Frames, n > 0, balloon # NoPlot,
             NEW c1 \in Channels(balloon.file), NEW c2 \in Channels(balloon.file),
             NEW k1 \in Frequencies(balloon.file), NEW k2 \in Frequencies(balloon.file),
             NEW b, b = SetChannel(balloon, LastIndex(c1, c2, n)),
             BalloonBecomes(SetSelectedFrequency(b, LastIndex(k1, k2, n)))
      PROVE  SelectionRight'
  <2>1. IsBalloon(balloon) /\ IsSelection(balloon) /\ balloon.file \in Files
    BY <1>1, OnDisplay DEF Sound, SelectionRight, IsSelection
  <2>2. n \in Nat
    BY RangesAssumption
  <2>3. LastIndex(c1, c2, n) \in Channels(balloon.file)
    <3>1. Content[balloon.file].channels \in Nat
      BY <2>1, ContentAssumption
    <3>2. QED
      BY <1>1, <2>2, <3>1, LastInRange DEF Channels
  <2>4. LastIndex(k1, k2, n) \in Frequencies(balloon.file)
    <3>1. Content[balloon.file].frequencies \in Nat
      BY <2>1, ContentAssumption
    <3>2. QED
      BY <1>1, <2>2, <3>1, LastInRange DEF Frequencies
  <2>5. IsSelection(b) /\ IsBalloon(b)
    BY <1>1, <2>1, <2>3, SelectionSet, SelectionKeeps DEF Sound
  <2>6. b.file = balloon.file
    <3>1. IsBalloon([balloon EXCEPT !.channel = LastIndex(c1, c2, n)])
          /\ [balloon EXCEPT !.channel = LastIndex(c1, c2, n)].file = balloon.file
      BY <2>1 DEF IsBalloon, BalloonFields
    <3>2. QED
      BY <1>1, <3>1, Drawn DEF SetChannel, SameBalloon
  <2>7. IsSelection(SetSelectedFrequency(b, LastIndex(k1, k2, n)))
    BY <2>4, <2>5, <2>6, SelectionSet
  <2>8. QED
    BY <1>1, <2>7, BecomesSelection
<1>2. ASSUME NEW c, CarpetBecomes(c)
      PROVE  SelectionRight'
  BY <1>2 DEF CarpetBecomes, SelectionRight
<1>3. ASSUME NEW n \in Frames, balloon # NoPlot,
             NEW c1 \in Channels(balloon.file), NEW c2 \in Channels(balloon.file),
             NEW k1 \in Frequencies(balloon.file), NEW k2 \in Frequencies(balloon.file),
             ExportScrenshotSeriesPNG(n, <<c1, c2>>, <<k1, k2>>, <<0, 0>>)
      PROVE  SelectionRight'
  BY <1>1, <1>2, <1>3 DEF ExportScrenshotSeriesPNG
<1>4. ASSUME NEW n, carpet # NoPlot, NEW channels, NEW frequencies, NEW angles,
             ExportScrenshotSeriesPNG(n, channels, frequencies, angles)
      PROVE  SelectionRight'
  <2>1. balloon = NoPlot
    BY <1>4 DEF Inv, PlotsRight
  <2>2. QED
    BY <1>2, <1>4, <2>1 DEF ExportScrenshotSeriesPNG
<1>5. QED
  BY <1>3, <1>4 DEF on_actionExport3DPlotImageSeries

LEMMA NextSelection == Inv /\ SelectionRight /\ [Next]_vars => SelectionRight'
<1> SUFFICES ASSUME Inv, SelectionRight, [Next]_vars
             PROVE  SelectionRight'
  OBVIOUS
<1>1. ASSUME NEW t \in Toggles, Toggle(t)
      PROVE  SelectionRight'
  BY <1>1, ToggleSelection
<1>2. ASSUME NEW f \in Files, ReadDAFF(f)
      PROVE  SelectionRight'
  BY <1>2, ReadSelection
<1>3. CASE CloseDAFF
  BY <1>3 DEF CloseDAFF, SelectionRight
<1>4. CASE (balloon # NoPlot /\ ChangeFrequencyIndex) \/ ChangeChannelIndex \/ SetBalloon
  BY <1>4, SetSelection
<1>5. CASE ChangeAlphaOrBeta \/ SetCarpet
  BY <1>5 DEF ChangeAlphaOrBeta, SetCarpet, CarpetBecomes, SelectionRight
<1>6. CASE on_actionExport3DPlotImageSeries
  BY <1>6, ExportSelection
<1>7. CASE Quit \/ Crash
  BY <1>7 DEF Quit, Crash, OpenWindow, NewScene, SelectionRight
<1>8. CASE UNCHANGED vars
  BY <1>8 DEF vars, SelectionRight
<1>9. QED
  BY <1>1, <1>2, <1>3, <1>4, <1>5, <1>6, <1>7, <1>8 DEF Next

\* The maximum that the normalisation divides by is above every magnitude shown
\* and not 0.
LEMMA ReferenceBounds ==
  ASSUME NEW b, IsSelection(b), Content[b.file].type \in {"MS", "MPS", "DFT"},
         Content[b.file].type = "DFT" =>
           Content[b.file].frequencies >= Cardinality(Records(b.file))
  PROVE  /\ Reference(b) \in Magnitudes /\ Reference(b) > 0
         /\ \A r \in Records(b.file) :
              /\ ValueAt(b.file, r, b.channel, b.frequency) \in Magnitudes
              /\ ValueAt(b.file, r, b.channel, b.frequency) <= Reference(b)
<1> DEFINE value(r) == ValueAt(b.file, r, b.channel, b.frequency)
<1>1. /\ Content[b.file].max \in Magnitudes
      /\ \A r \in Records(b.file) : value(r) \in Magnitudes /\ value(r) <= Content[b.file].max
      /\ \E r \in Records(b.file) : value(r) > 0
      /\ Content[b.file].records \in Nat /\ Content[b.file].frequencies \in Nat
  BY ContentAssumption DEF IsSelection
<1> DEFINE S == {value(r) : r \in {q \in Records(b.file) :
                   Content[b.file].type = "DFT" => q < Content[b.file].frequencies}}
<1>2. getMagnitudeMaximum(b) = Max(S)
  BY DEF getMagnitudeMaximum
<1>3. S = {value(r) : r \in Records(b.file)}
  <2>1. Cardinality(0 .. Content[b.file].records - 1) = Content[b.file].records
    <3>1. PICK n \in Nat : n = Content[b.file].records
      BY <1>1
    <3>2. Cardinality(0 .. n - 1) = n
      BY FS_Interval
    <3>3. QED
      BY <3>1, <3>2
  <2>2. \A q \in Records(b.file) :
          Content[b.file].type = "DFT" => q < Content[b.file].frequencies
    BY <1>1, <2>1 DEF Records
  <2> HIDE DEF value
  <2>3. QED
    BY <2>2
<1> HIDE DEF S
<1>4. PICK top : top = Max(S) /\ top \in S /\ \A y \in S : y <= top
  <2>1. S \subseteq Magnitudes /\ S # {}
    BY <1>1, <1>3
  <2>2. QED
    BY <2>1, GreatestMagnitude
<1> HIDE DEF value
<1>5. top \in Magnitudes /\ \A r \in Records(b.file) : value(r) <= top
  BY <1>1, <1>3, <1>4
<1>6. PICK m : m = Reference(b) /\ m \in Magnitudes /\ \A r \in Records(b.file) : value(r) <= m
  BY <1>1, <1>2, <1>4, <1>5 DEF Reference
<1>7. m > 0
  <2>1. PICK r \in Records(b.file) : value(r) > 0
    BY <1>1
  <2>2. value(r) \in Nat /\ m \in Nat /\ value(r) <= m
    BY <1>1, <1>6, LevelsAreNumbers
  <2>3. QED
    BY <2>1, <2>2
<1>8. QED
  BY <1>1, <1>6, <1>7 DEF value

LEMMA ScalarIsAPart ==
  ASSUME NEW b, IsSelection(b), b.normalize \/ b.customRange, NEW r \in Records(b.file),
         Content[b.file].type = "DFT" =>
           Content[b.file].frequencies >= Cardinality(Records(b.file))
  PROVE  Scalar(b, ValueAt(b.file, r, b.channel, b.frequency)) \in 0 .. Whole
<1>1. Content[b.file].type \in {"MS", "MPS", "DFT"} \/ Content[b.file].type = "PS"
  BY ContentAssumption DEF IsSelection
<1>2. CASE Content[b.file].type = "PS"
  BY <1>2 DEF Scalar, Whole
<1>3. CASE Content[b.file].type \in {"MS", "MPS", "DFT"}
  <2>1. PICK x, m : /\ x = ValueAt(b.file, r, b.channel, b.frequency) /\ m = Reference(b)
                    /\ x \in Magnitudes /\ m \in Magnitudes /\ m > 0 /\ x <= m
    BY <1>3, ReferenceBounds
  <2>2. x \in Nat /\ m \in Nat /\ b.min \in Nat /\ b.max \in Nat
    BY <2>1, LevelsAreNumbers DEF IsSelection
  <2>3. InDecibel(b, x) \in 0 .. Whole
    <3>1. PICK level, low, high, top :
            /\ level = Relative(x, m) /\ low = Decibel[b.min] /\ high = Decibel[b.max]
            /\ top = Decibel[m]
      OBVIOUS
    <3>2. level \in Int /\ low \in Int /\ high \in Int /\ top \in Int
      BY <2>1, <3>1, LevelsAreNumbers DEF IsSelection
    <3>3. PICK silence \in Int : silence = -100
      OBVIOUS
    <3>4. Part(level, low, high) \in 0 .. Whole /\ Part(level, silence, top) \in 0 .. Whole
      BY <3>2, PartIsAPart
    <3>5. QED
      BY <2>1, <3>1, <3>3, <3>4 DEF InDecibel
  <2>4. Linear(b, x) \in 0 .. Whole
    <3>1. (x * Whole) \div m \in 0 .. Whole
      <4>1. x \in Nat /\ m \in Nat /\ m > 0 /\ x <= m
        BY <2>1, <2>2
      <4>2. QED
        BY <4>1, QuotientOfPart
    <3>2. Part(x, b.min, b.max) \in 0 .. Whole
      <4>1. PICK y, z : y = b.min /\ z = b.max
        OBVIOUS
      <4>2. x \in Int /\ y \in Int /\ z \in Int
        BY <2>2, <4>1
      <4>3. QED
        BY <4>1, <4>2, PartIsAPart
    <3>3. QED
      BY <2>1, <3>1, <3>2 DEF Linear
  <2>5. QED
    BY <1>3, <2>1, <2>3, <2>4 DEF Scalar
<1>4. QED
  BY <1>1, <1>2, <1>3

\* A normalised or range-limited spectrum stays in [0, 1], whichever contents,
\* channels, frequencies, scalings and ranges are chosen in whichever order.
THEOREM ScalarsStayInRange == Spec => []ScalarsInRange
<1>1. Init => SelectionRight
  BY DEF Init, SelectionRight
<1>2. Inv /\ SelectionRight => ScalarsInRange
  <2>1. SUFFICES ASSUME Inv, SelectionRight, balloon # NoPlot,
                        balloon.normalize \/ balloon.customRange,
                        Content[balloon.file].type = "DFT" =>
                          Content[balloon.file].frequencies
                            >= Cardinality(Records(balloon.file)),
                        NEW r \in DOMAIN balloon.shown
                 PROVE  balloon.shown[r] \in 0 .. Whole
    BY DEF ScalarsInRange
  <2>2. balloon.shown = Scalars(balloon) /\ IsSelection(balloon)
    BY <2>1, OnDisplay DEF Sound, BalloonIsCurrent, SelectionRight
  <2>3. /\ r \in Records(balloon.file)
        /\ balloon.shown[r] = Whole - Scalar(balloon, ValueAt(balloon.file, r, balloon.channel,
                                                              balloon.frequency))
    BY <2>2 DEF Scalars
  <2>4. Scalar(balloon, ValueAt(balloon.file, r, balloon.channel, balloon.frequency))
          \in 0 .. Whole
    BY <2>1, <2>2, <2>3, ScalarIsAPart
  <2>5. QED
    BY <2>3, <2>4 DEF Whole
<1>3. QED
  BY <1>1, <1>2, Invariance, NextSelection, PTL DEF Spec

-----------------------------------------------------------------------------
(* The mesh of a whole sphere.  It is proved closed for any points P of the  *)
(* rings 0 .. m of p columns each, any tips s and t, and any order N of the  *)
(* columns that has no cycle of one or two of them.                          *)

MeshRight(p, m, P, N, s, t) ==
  /\ p \in Nat /\ m \in Nat /\ s # t
  /\ \A i, k \in 0 .. m, j, l \in 0 .. p - 1 : P[i][j] = P[k][l] => i = k /\ j = l
  /\ \A i \in 0 .. m, j \in 0 .. p - 1 : P[i][j] # s /\ P[i][j] # t
  /\ \A j \in 0 .. p - 1 : N[j] \in 0 .. p - 1 /\ N[j] # j /\ N[N[j]] # j
  /\ \A j, l \in 0 .. p - 1 : N[j] = N[l] => j = l
  /\ \A j \in 0 .. p - 1 : \E l \in 0 .. p - 1 : N[l] = j

FanFace(P, N, tip, i, j) == <<tip, P[i][j], P[i][N[j]]>>
QuadFace(P, N, i, j) == <<P[i][j], P[i][N[j]], P[i + 1][N[j]], P[i + 1][j]>>
FanFaces(p, P, N, tip, i) == {FanFace(P, N, tip, i, j) : j \in 0 .. p - 1}
QuadFaces(p, m, P, N) == {QuadFace(P, N, i, j) : i \in 0 .. m - 1, j \in 0 .. p - 1}
MeshFaces(p, m, P, N, s, t) ==
  FanFaces(p, P, N, s, 0) \cup QuadFaces(p, m, P, N) \cup FanFaces(p, P, N, t, m)

\* An edge from a tip to a ring, along a ring and from a ring to the next.
Spoke(P, tip, i, j) == {tip, P[i][j]}
Arc(P, N, i, j) == {P[i][j], P[i][N[j]]}
Rib(P, i, j) == {P[i][j], P[i + 1][j]}

LEMMA EdgesOfThree ==
  ASSUME NEW a, NEW b, NEW c
  PROVE  Edges(<<a, b, c>>) = {{a, b}, {b, c}, {c, a}}
<1>1. Len(<<a, b, c>>) = 3 /\ 1 .. 3 = {1, 2, 3}
  OBVIOUS
<1>2. (1 % 3) + 1 = 2 /\ (2 % 3) + 1 = 3 /\ (3 % 3) + 1 = 1
  OBVIOUS
<1>3. Edges(<<a, b, c>>)
        = {{<<a, b, c>>[i], <<a, b, c>>[(i % 3) + 1]} : i \in {1, 2, 3}}
  BY <1>1 DEF Edges
<1>4. QED
  BY <1>2, <1>3

LEMMA EdgesOfFour ==
  ASSUME NEW a, NEW b, NEW c, NEW d
  PROVE  Edges(<<a, b, c, d>>) = {{a, b}, {b, c}, {c, d}, {d, a}}
<1>1. Len(<<a, b, c, d>>) = 4 /\ 1 .. 4 = {1, 2, 3, 4}
  OBVIOUS
<1>2. (1 % 4) + 1 = 2 /\ (2 % 4) + 1 = 3 /\ (3 % 4) + 1 = 4 /\ (4 % 4) + 1 = 1
  OBVIOUS
<1>3. Edges(<<a, b, c, d>>)
        = {{<<a, b, c, d>>[i], <<a, b, c, d>>[(i % 4) + 1]} : i \in {1, 2, 3, 4}}
  BY <1>1 DEF Edges
<1>4. QED
  BY <1>2, <1>3

LEMMA EdgesOfFan ==
  ASSUME NEW P, NEW N, NEW tip, NEW i, NEW j
  PROVE  Edges(FanFace(P, N, tip, i, j))
           = {Spoke(P, tip, i, j), Arc(P, N, i, j), Spoke(P, tip, i, N[j])}
<1>1. {P[i][N[j]], tip} = {tip, P[i][N[j]]}
  OBVIOUS
<1>2. Edges(FanFace(P, N, tip, i, j))
        = {{tip, P[i][j]}, {P[i][j], P[i][N[j]]}, {P[i][N[j]], tip}}
  BY EdgesOfThree DEF FanFace
<1>3. QED
  BY <1>1, <1>2, Zenon DEF Spoke, Arc

LEMMA EdgesOfQuad ==
  ASSUME NEW P, NEW N, NEW i, NEW j
  PROVE  Edges(QuadFace(P, N, i, j))
           = {Arc(P, N, i, j), Rib(P, i, N[j]), Arc(P, N, i + 1, j), Rib(P, i, j)}
<1>1. \A a, b : {a, b} = {b, a}
  OBVIOUS
<1>2. Edges(QuadFace(P, N, i, j))
        = {{P[i][j], P[i][N[j]]}, {P[i][N[j]], P[i + 1][N[j]]},
           {P[i + 1][N[j]], P[i + 1][j]}, {P[i + 1][j], P[i][j]}}
  BY EdgesOfFour DEF QuadFace
<1>3. QED
  BY <1>1, <1>2, Zenon DEF Arc, Rib

LEMMA SamePair ==
  ASSUME NEW a, NEW b, NEW c, NEW d, {a, b} = {c, d}
  PROVE  (a = c /\ b = d) \/ (a = d /\ b = c)
OBVIOUS

\* Edges are alike only if they are of the same kind, at the same place.
SpokesDiffer(p, m, P, s, t) ==
  /\ \A j, l \in 0 .. p - 1 : Spoke(P, s, 0, j) = Spoke(P, s, 0, l) => j = l
  /\ \A j, l \in 0 .. p - 1 : Spoke(P, t, m, j) = Spoke(P, t, m, l) => j = l
  /\ \A j, l \in 0 .. p - 1 : Spoke(P, s, 0, j) # Spoke(P, t, m, l)
KindsDiffer(p, m, P, N, s, t) ==
  /\ \A j, l \in 0 .. p - 1, k \in 0 .. m :
       Spoke(P, s, 0, j) # Arc(P, N, k, l) /\ Spoke(P, t, m, j) # Arc(P, N, k, l)
  /\ \A j, l \in 0 .. p - 1, k \in 0 .. m - 1 :
       Spoke(P, s, 0, j) # Rib(P, k, l) /\ Spoke(P, t, m, j) # Rib(P, k, l)
  /\ \A j, l \in 0 .. p - 1, i \in 0 .. m, k \in 0 .. m - 1 : Arc(P, N, i, j) # Rib(P, k, l)
PlacesDiffer(p, m, P, N) ==
  /\ \A j, l \in 0 .. p - 1, i, k \in 0 .. m :
       Arc(P, N, i, j) = Arc(P, N, k, l) => i = k /\ j = l
  /\ \A j, l \in 0 .. p - 1, i, k \in 0 .. m - 1 : Rib(P, i, j) = Rib(P, k, l) => i = k /\ j = l

LEMMA EdgesDiffer ==
  ASSUME NEW p, NEW m, NEW P, NEW N, NEW s, NEW t, MeshRight(p, m, P, N, s, t)
  PROVE  SpokesDiffer(p, m, P, s, t) /\ KindsDiffer(p, m, P, N, s, t) /\ PlacesDiffer(p, m, P, N)
<1>1. /\ p \in Nat /\ m \in Nat /\ s # t
      /\ \A i, k \in 0 .. m, j, l \in 0 .. p - 1 : P[i][j] = P[k][l] => i = k /\ j = l
      /\ \A i \in 0 .. m, j \in 0 .. p - 1 : P[i][j] # s /\ P[i][j] # t
      /\ \A j \in 0 .. p - 1 : N[j] \in 0 .. p - 1 /\ N[j] # j /\ N[N[j]] # j
  BY DEF MeshRight
<1>2. 0 \in 0 .. m /\ m \in 0 .. m /\ \A k \in 0 .. m - 1 : k \in 0 .. m /\ k + 1 \in 0 .. m
  BY <1>1
<1>3. SpokesDiffer(p, m, P, s, t)
  <2>1. ASSUME NEW a \in {s, t}, NEW b \in {s, t}, NEW i \in 0 .. m, NEW k \in 0 .. m,
               NEW j \in 0 .. p - 1, NEW l \in 0 .. p - 1, Spoke(P, a, i, j) = Spoke(P, b, k, l)
        PROVE  a = b /\ i = k /\ j = l
    <3>1. \/ a = b /\ P[i][j] = P[k][l]
          \/ a = P[k][l] /\ P[i][j] = b
      BY <2>1, SamePair DEF Spoke
    <3>2. a # P[k][l]
      BY <1>1
    <3>3. QED
      BY <1>1, <3>1, <3>2
  <2>2. QED
    BY <1>1, <1>2, <2>1 DEF SpokesDiffer
<1>4. KindsDiffer(p, m, P, N, s, t)
  <2>1. ASSUME NEW a \in {s, t}, NEW i \in 0 .. m, NEW k \in 0 .. m,
               NEW j \in 0 .. p - 1, NEW l \in 0 .. p - 1
        PROVE  Spoke(P, a, i, j) # Arc(P, N, k, l)
    <3>1. a \in Spoke(P, a, i, j)
      BY DEF Spoke
    <3>2. a \notin Arc(P, N, k, l)
      BY <1>1 DEF Arc
    <3>3. QED
      BY <3>1, <3>2
  <2>2. ASSUME NEW a \in {s, t}, NEW i \in 0 .. m, NEW k \in 0 .. m - 1,
               NEW j \in 0 .. p - 1, NEW l \in 0 .. p - 1
        PROVE  Spoke(P, a, i, j) # Rib(P, k, l)
    <3>1. a \in Spoke(P, a, i, j)
      BY DEF Spoke
    <3>2. a \notin Rib(P, k, l)
      BY <1>1, <1>2 DEF Rib
    <3>3. QED
      BY <3>1, <3>2
  <2>3. ASSUME NEW i \in 0 .. m, NEW k \in 0 .. m - 1,
               NEW j \in 0 .. p - 1, NEW l \in 0 .. p - 1
        PROVE  Arc(P, N, i, j) # Rib(P, k, l)
    <3>1. SUFFICES ASSUME Arc(P, N, i, j) = Rib(P, k, l) PROVE FALSE
      OBVIOUS
    <3>2. \/ P[i][j] = P[k][l] /\ P[i][N[j]] = P[k + 1][l]
          \/ P[i][j] = P[k + 1][l] /\ P[i][N[j]] = P[k][l]
      <4>1. {P[i][j], P[i][N[j]]} = {P[k][l], P[k + 1][l]}
        BY <3>1 DEF Arc, Rib
      <4>2. PICK a, b, c, d : a = P[i][j] /\ b = P[i][N[j]] /\ c = P[k][l] /\ d = P[k + 1][l]
        OBVIOUS
      <4>3. (a = c /\ b = d) \/ (a = d /\ b = c)
        BY <4>1, <4>2, SamePair
      <4>4. QED
        BY <4>2, <4>3
    <3>n. N[j] \in 0 .. p - 1
      BY <1>1
    <3>3. i = k /\ i = k + 1
      BY <1>1, <1>2, <3>2, <3>n
    <3>4. QED
      BY <1>1, <3>3
  <2>4. QED
    BY <1>1, <1>2, <2>1, <2>2, <2>3 DEF KindsDiffer
<1>5. PlacesDiffer(p, m, P, N)
  <2>1. ASSUME NEW i \in 0 .. m, NEW k \in 0 .. m, NEW j \in 0 .. p - 1, NEW l \in 0 .. p - 1,
               Arc(P, N, i, j) = Arc(P, N, k, l)
        PROVE  i = k /\ j = l
    <3>1. \/ P[i][j] = P[k][l]
          \/ P[i][j] = P[k][N[l]] /\ P[i][N[j]] = P[k][l]
      BY <2>1, SamePair DEF Arc
    <3>2. CASE P[i][j] = P[k][N[l]] /\ P[i][N[j]] = P[k][l]
      <4>1. j = N[l] /\ N[j] = l
        BY <1>1, <3>2
      <4>2. QED
        BY <1>1, <4>1
    <3>3. QED
      BY <1>1, <3>1, <3>2
  <2>2. ASSUME NEW i \in 0 .. m - 1, NEW k \in 0 .. m - 1,
               NEW j \in 0 .. p - 1, NEW l \in 0 .. p - 1, Rib(P, i, j) = Rib(P, k, l)
        PROVE  i = k /\ j = l
    <3>1. \/ P[i][j] = P[k][l]
          \/ P[i][j] = P[k + 1][l] /\ P[i + 1][j] = P[k][l]
      BY <2>2, SamePair DEF Rib
    <3>2. ~(P[i][j] = P[k + 1][l] /\ P[i + 1][j] = P[k][l])
      <4>1. SUFFICES ASSUME P[i][j] = P[k + 1][l], P[i + 1][j] = P[k][l] PROVE FALSE
        OBVIOUS
      <4>2. i = k + 1 /\ i + 1 = k
        BY <1>1, <1>2, <4>1
      <4>3. QED
        BY <1>1, <4>2
    <3>3. QED
      BY <1>1, <1>2, <3>1, <3>2
  <2>3. QED
    BY <2>1, <2>2 DEF PlacesDiffer
<1>6. QED
  BY <1>3, <1>4, <1>5

\* Whatever belongs to exactly two faces is counted twice.
LEMMA TwoFaces ==
  ASSUME NEW S, NEW x \in S, NEW y \in S, x # y, NEW e,
         \A face \in S : e \in Edges(face) <=> face = x \/ face = y
  PROVE  Cardinality({face \in S : e \in Edges(face)}) = 2
<1>1. {face \in S : e \in Edges(face)} = {x, y}
  OBVIOUS
<1>2. IsFiniteSet({x}) /\ Cardinality({x}) = 1 /\ y \notin {x}
  BY FS_Singleton
<1>3. Cardinality({x} \cup {y}) = 2
  BY <1>2, FS_AddElement
<1>4. {x, y} = {x} \cup {y}
  OBVIOUS
<1>5. QED
  BY <1>1, <1>3, <1>4

\* The edges of the faces, and the faces apart.
EdgesAre(p, m, P, N, s, t) ==
  /\ \A j \in 0 .. p - 1 : \A e :
       e \in Edges(FanFace(P, N, s, 0, j))
         <=> e \in {Spoke(P, s, 0, j), Arc(P, N, 0, j), Spoke(P, s, 0, N[j])}
  /\ \A j \in 0 .. p - 1 : \A e :
       e \in Edges(FanFace(P, N, t, m, j))
         <=> e \in {Spoke(P, t, m, j), Arc(P, N, m, j), Spoke(P, t, m, N[j])}
  /\ \A i \in 0 .. m - 1, j \in 0 .. p - 1 : \A e :
       e \in Edges(QuadFace(P, N, i, j))
         <=> e \in {Arc(P, N, i, j), Rib(P, i, N[j]), Arc(P, N, i + 1, j), Rib(P, i, j)}

LEMMA FaceEdges ==
  ASSUME NEW p, NEW m, NEW P, NEW N, NEW s, NEW t
  PROVE  EdgesAre(p, m, P, N, s, t)
<1>1. ASSUME NEW tip, NEW i, NEW j, NEW e
      PROVE  e \in Edges(FanFace(P, N, tip, i, j))
               <=> e \in {Spoke(P, tip, i, j), Arc(P, N, i, j), Spoke(P, tip, i, N[j])}
  <2>1. Edges(FanFace(P, N, tip, i, j))
          = {Spoke(P, tip, i, j), Arc(P, N, i, j), Spoke(P, tip, i, N[j])}
    BY EdgesOfFan
  <2>2. QED
    BY <2>1, Zenon
<1>2. ASSUME NEW i, NEW j, NEW e
      PROVE  e \in Edges(QuadFace(P, N, i, j))
               <=> e \in {Arc(P, N, i, j), Rib(P, i, N[j]), Arc(P, N, i + 1, j), Rib(P, i, j)}
  <2>1. Edges(QuadFace(P, N, i, j))
          = {Arc(P, N, i, j), Rib(P, i, N[j]), Arc(P, N, i + 1, j), Rib(P, i, j)}
    BY EdgesOfQuad
  <2>2. QED
    BY <2>1, Zenon
<1>3. QED
  BY <1>1, <1>2, Zenon DEF EdgesAre

\* The two faces at a spoke are the fans of its column and the one before.
LEMMA SpokeInTwo ==
  ASSUME NEW p, NEW m, NEW P, NEW N, NEW s, NEW t, MeshRight(p, m, P, N, s, t),
         NEW j \in 0 .. p - 1
  PROVE  /\ Cardinality({face \in MeshFaces(p, m, P, N, s, t) : Spoke(P, s, 0, j) \in Edges(face)}) = 2
         /\ Cardinality({face \in MeshFaces(p, m, P, N, s, t) : Spoke(P, t, m, j) \in Edges(face)}) = 2
<1>1. /\ p \in Nat /\ m \in Nat
      /\ \A i, k \in 0 .. m, u, v \in 0 .. p - 1 : P[i][u] = P[k][v] => i = k /\ u = v
      /\ \A u \in 0 .. p - 1 : N[u] \in 0 .. p - 1 /\ N[u] # u
      /\ \A u, v \in 0 .. p - 1 : N[u] = N[v] => u = v
  BY DEF MeshRight
<1>2. PICK l \in 0 .. p - 1 : N[l] = j
  BY DEF MeshRight
<1>3. /\ SpokesDiffer(p, m, P, s, t) /\ KindsDiffer(p, m, P, N, s, t)
      /\ EdgesAre(p, m, P, N, s, t)
  BY EdgesDiffer, FaceEdges
<1>4. 0 \in 0 .. m /\ m \in 0 .. m /\ \A k \in 0 .. m - 1 : k \in 0 .. m /\ k + 1 \in 0 .. m
  BY <1>1
<1>5. j # l
  BY <1>1, <1>2
<1> DEFINE S == MeshFaces(p, m, P, N, s, t)
<1>6. ASSUME NEW face \in S, Spoke(P, s, 0, j) \in Edges(face)
      PROVE  face = FanFace(P, N, s, 0, j) \/ face = FanFace(P, N, s, 0, l)
  <2>1. CASE \E k \in 0 .. p - 1 : face = FanFace(P, N, s, 0, k)
    <3>1. PICK k \in 0 .. p - 1 : face = FanFace(P, N, s, 0, k)
      BY <2>1
    <3>2. Spoke(P, s, 0, j) \in {Spoke(P, s, 0, k), Arc(P, N, 0, k), Spoke(P, s, 0, N[k])}
      BY <1>3, <1>6, <3>1 DEF EdgesAre
    <3>3. k = j \/ N[k] = j
      BY <1>1, <1>3, <1>4, <3>2 DEF SpokesDiffer, KindsDiffer
    <3>4. QED
      BY <1>1, <1>2, <3>1, <3>3
  <2>2. CASE \E i \in 0 .. m - 1, k \in 0 .. p - 1 : face = QuadFace(P, N, i, k)
    <3>1. PICK i \in 0 .. m - 1, k \in 0 .. p - 1 : face = QuadFace(P, N, i, k)
      BY <2>2
    <3>2. Spoke(P, s, 0, j) \in {Arc(P, N, i, k), Rib(P, i, N[k]), Arc(P, N, i + 1, k), Rib(P, i, k)}
      BY <1>3, <1>6, <3>1 DEF EdgesAre
    <3>3. QED
      BY <1>1, <1>3, <1>4, <3>2 DEF KindsDiffer
  <2>3. CASE \E k \in 0 .. p - 1 : face = FanFace(P, N, t, m, k)
    <3>1. PICK k \in 0 .. p - 1 : face = FanFace(P, N, t, m, k)
      BY <2>3
    <3>2. Spoke(P, s, 0, j) \in {Spoke(P, t, m, k), Arc(P, N, m, k), Spoke(P, t, m, N[k])}
      BY <1>3, <1>6, <3>1 DEF EdgesAre
    <3>3. QED
      BY <1>1, <1>3, <1>4, <3>2 DEF SpokesDiffer, KindsDiffer
  <2>4. QED
    BY <1>6, <2>1, <2>2, <2>3 DEF MeshFaces, FanFaces, QuadFaces
<1>7. ASSUME NEW face \in S, Spoke(P, t, m, j) \in Edges(face)
      PROVE  face = FanFace(P, N, t, m, j) \/ face = FanFace(P, N, t, m, l)
  <2>1. CASE \E k \in 0 .. p - 1 : face = FanFace(P, N, t, m, k)
    <3>1. PICK k \in 0 .. p - 1 : face = FanFace(P, N, t, m, k)
      BY <2>1
    <3>2. Spoke(P, t, m, j) \in {Spoke(P, t, m, k), Arc(P, N, m, k), Spoke(P, t, m, N[k])}
      BY <1>3, <1>7, <3>1 DEF EdgesAre
    <3>3. k = j \/ N[k] = j
      BY <1>1, <1>3, <1>4, <3>2 DEF SpokesDiffer, KindsDiffer
    <3>4. QED
      BY <1>1, <1>2, <3>1, <3>3
  <2>2. CASE \E i \in 0 .. m - 1, k \in 0 .. p - 1 : face = QuadFace(P, N, i, k)
    <3>1. PICK i \in 0 .. m - 1, k \in 0 .. p - 1 : face = QuadFace(P, N, i, k)
      BY <2>2
    <3>2. Spoke(P, t, m, j) \in {Arc(P, N, i, k), Rib(P, i, N[k]), Arc(P, N, i + 1, k), Rib(P, i, k)}
      BY <1>3, <1>7, <3>1 DEF EdgesAre
    <3>3. QED
      BY <1>1, <1>3, <1>4, <3>2 DEF KindsDiffer
  <2>3. CASE \E k \in 0 .. p - 1 : face = FanFace(P, N, s, 0, k)
    <3>1. PICK k \in 0 .. p - 1 : face = FanFace(P, N, s, 0, k)
      BY <2>3
    <3>2. Spoke(P, t, m, j) \in {Spoke(P, s, 0, k), Arc(P, N, 0, k), Spoke(P, s, 0, N[k])}
      BY <1>3, <1>7, <3>1 DEF EdgesAre
    <3>3. QED
      BY <1>1, <1>3, <1>4, <3>2 DEF SpokesDiffer, KindsDiffer
  <2>4. QED
    BY <1>7, <2>1, <2>2, <2>3 DEF MeshFaces, FanFaces, QuadFaces
<1>8. ASSUME NEW tip, NEW i \in 0 .. m
      PROVE  FanFace(P, N, tip, i, j) # FanFace(P, N, tip, i, l)
  <2>1. P[i][j] # P[i][l]
    BY <1>1, <1>5
  <2>2. FanFace(P, N, tip, i, j)[2] = P[i][j] /\ FanFace(P, N, tip, i, l)[2] = P[i][l]
    BY DEF FanFace
  <2>3. QED
    BY <2>1, <2>2
<1>9. /\ FanFace(P, N, s, 0, j) \in S /\ FanFace(P, N, s, 0, l) \in S
      /\ FanFace(P, N, t, m, j) \in S /\ FanFace(P, N, t, m, l) \in S
  BY DEF MeshFaces, FanFaces, QuadFaces
<1>10. /\ Spoke(P, s, 0, j) \in Edges(FanFace(P, N, s, 0, j))
       /\ Spoke(P, s, 0, j) \in Edges(FanFace(P, N, s, 0, l))
       /\ Spoke(P, t, m, j) \in Edges(FanFace(P, N, t, m, j))
       /\ Spoke(P, t, m, j) \in Edges(FanFace(P, N, t, m, l))
  BY <1>2, <1>3 DEF EdgesAre
<1> HIDE DEF S
<1>11. Cardinality({face \in S : Spoke(P, s, 0, j) \in Edges(face)}) = 2
  <2>1. PICK x \in S, y \in S : x = FanFace(P, N, s, 0, j) /\ y = FanFace(P, N, s, 0, l)
    BY <1>9
  <2>2. x # y
    BY <1>4, <1>8, <2>1
  <2>3. \A face \in S : Spoke(P, s, 0, j) \in Edges(face) <=> face = x \/ face = y
    BY <1>6, <1>10, <2>1
  <2>4. QED
    BY <2>2, <2>3, TwoFaces
<1>12. Cardinality({face \in S : Spoke(P, t, m, j) \in Edges(face)}) = 2
  <2>1. PICK x \in S, y \in S : x = FanFace(P, N, t, m, j) /\ y = FanFace(P, N, t, m, l)
    BY <1>9
  <2>2. x # y
    BY <1>4, <1>8, <2>1
  <2>3. \A face \in S : Spoke(P, t, m, j) \in Edges(face) <=> face = x \/ face = y
    BY <1>7, <1>10, <2>1
  <2>4. QED
    BY <2>2, <2>3, TwoFaces
<1>13. QED
  BY <1>11, <1>12 DEF S

\* The two faces at an arc are those below and above it.
LEMMA ArcInTwo ==
  ASSUME NEW p, NEW m, NEW P, NEW N, NEW s, NEW t, MeshRight(p, m, P, N, s, t),
         NEW i \in 0 .. m, NEW j \in 0 .. p - 1
  PROVE  Cardinality({face \in MeshFaces(p, m, P, N, s, t) : Arc(P, N, i, j) \in Edges(face)}) = 2
<1>1. /\ p \in Nat /\ m \in Nat /\ s # t
      /\ \A u, k \in 0 .. m, v, w \in 0 .. p - 1 : P[u][v] = P[k][w] => u = k /\ v = w
  BY DEF MeshRight
<1>3. /\ KindsDiffer(p, m, P, N, s, t) /\ PlacesDiffer(p, m, P, N)
      /\ EdgesAre(p, m, P, N, s, t)
  BY EdgesDiffer, FaceEdges
<1>n. \A u \in 0 .. p - 1 : N[u] \in 0 .. p - 1
  BY DEF MeshRight
<1>4. 0 \in 0 .. m /\ m \in 0 .. m /\ \A k \in 0 .. m - 1 : k \in 0 .. m /\ k + 1 \in 0 .. m
  BY <1>1
<1> DEFINE S == MeshFaces(p, m, P, N, s, t)
           x == IF i = 0 THEN FanFace(P, N, s, 0, j) ELSE QuadFace(P, N, i - 1, j)
           y == IF i = m THEN FanFace(P, N, t, m, j) ELSE QuadFace(P, N, i, j)
<1>5. ASSUME NEW face \in S, Arc(P, N, i, j) \in Edges(face)
      PROVE  face = x \/ face = y
  <2>1. CASE \E k \in 0 .. p - 1 : face = FanFace(P, N, s, 0, k)
    <3>1. PICK k \in 0 .. p - 1 : face = FanFace(P, N, s, 0, k)
      BY <2>1
    <3>2. Arc(P, N, i, j) \in {Spoke(P, s, 0, k), Arc(P, N, 0, k), Spoke(P, s, 0, N[k])}
      BY <1>3, <1>5, <3>1 DEF EdgesAre
    <3>3. i = 0 /\ k = j
      BY <1>n, <1>3, <1>4, <3>2 DEF PlacesDiffer, KindsDiffer
    <3>4. QED
      BY <3>1, <3>3
  <2>2. CASE \E u \in 0 .. m - 1, k \in 0 .. p - 1 : face = QuadFace(P, N, u, k)
    <3>1. PICK u \in 0 .. m - 1, k \in 0 .. p - 1 : face = QuadFace(P, N, u, k)
      BY <2>2
    <3>2. Arc(P, N, i, j) \in {Arc(P, N, u, k), Rib(P, u, N[k]), Arc(P, N, u + 1, k), Rib(P, u, k)}
      BY <1>3, <1>5, <3>1 DEF EdgesAre
    <3>3. (i = u \/ i = u + 1) /\ k = j
      BY <1>n, <1>3, <1>4, <3>2 DEF PlacesDiffer, KindsDiffer
    <3>4. CASE i = u
      BY <1>1, <3>1, <3>3, <3>4
    <3>5. CASE i = u + 1
      <4>1. i # 0 /\ u = i - 1
        BY <1>1, <3>5
      <4>2. QED
        BY <3>1, <3>3, <4>1
    <3>6. QED
      BY <3>3, <3>4, <3>5
  <2>3. CASE \E k \in 0 .. p - 1 : face = FanFace(P, N, t, m, k)
    <3>1. PICK k \in 0 .. p - 1 : face = FanFace(P, N, t, m, k)
      BY <2>3
    <3>2. Arc(P, N, i, j) \in {Spoke(P, t, m, k), Arc(P, N, m, k), Spoke(P, t, m, N[k])}
      BY <1>3, <1>5, <3>1 DEF EdgesAre
    <3>3. i = m /\ k = j
      BY <1>n, <1>3, <1>4, <3>2 DEF PlacesDiffer, KindsDiffer
    <3>4. QED
      BY <3>1, <3>3
  <2>4. QED
    BY <1>5, <2>1, <2>2, <2>3 DEF MeshFaces, FanFaces, QuadFaces
<1>6. x \in S /\ Arc(P, N, i, j) \in Edges(x)
  <2>1. CASE i = 0
    <3>1. x = FanFace(P, N, s, 0, j) /\ Arc(P, N, i, j) = Arc(P, N, 0, j)
      BY <2>1
    <3>2. Arc(P, N, 0, j) \in Edges(FanFace(P, N, s, 0, j))
      BY <1>3 DEF EdgesAre
    <3>3. QED
      BY <3>1, <3>2 DEF MeshFaces, FanFaces, QuadFaces
  <2>2. CASE i # 0
    <3>1. PICK u \in 0 .. m - 1 : u = i - 1 /\ u + 1 = i
      BY <1>1, <2>2
    <3>2. x = QuadFace(P, N, u, j)
      BY <2>2, <3>1
    <3>3. Arc(P, N, u + 1, j) \in Edges(QuadFace(P, N, u, j))
      BY <1>3 DEF EdgesAre
    <3>4. QED
      BY <3>1, <3>2, <3>3 DEF MeshFaces, FanFaces, QuadFaces
  <2>3. QED
    BY <2>1, <2>2
<1>7. y \in S /\ Arc(P, N, i, j) \in Edges(y)
  <2>1. CASE i = m
    <3>1. y = FanFace(P, N, t, m, j) /\ Arc(P, N, i, j) = Arc(P, N, m, j)
      BY <2>1
    <3>2. Arc(P, N, m, j) \in Edges(FanFace(P, N, t, m, j))
      BY <1>3 DEF EdgesAre
    <3>3. QED
      BY <3>1, <3>2 DEF MeshFaces, FanFaces, QuadFaces
  <2>2. CASE i # m
    <3>1. i \in 0 .. m - 1
      BY <1>1, <2>2
    <3>2. y = QuadFace(P, N, i, j)
      BY <2>2
    <3>3. Arc(P, N, i, j) \in Edges(QuadFace(P, N, i, j))
      BY <1>3, <3>1 DEF EdgesAre
    <3>4. QED
      BY <3>1, <3>2, <3>3 DEF MeshFaces, FanFaces, QuadFaces
  <2>3. QED
    BY <2>1, <2>2
<1>8. x # y
  <2>1. \A u : /\ Len(QuadFace(P, N, u, j)) = 4 /\ QuadFace(P, N, u, j)[1] = P[u][j]
    BY DEF QuadFace
  <2>2. \A tip, u : /\ Len(FanFace(P, N, tip, u, j)) = 3 /\ FanFace(P, N, tip, u, j)[1] = tip
    BY DEF FanFace
  <2>3. CASE i = 0 /\ i = m
    <3>1. x[1] = s /\ y[1] = t
      BY <2>2, <2>3
    <3>2. QED
      BY <1>1, <3>1
  <2>4. CASE (i = 0 /\ i # m) \/ (i # 0 /\ i = m)
    <3>1. Len(x) # Len(y)
      BY <2>1, <2>2, <2>4
    <3>2. QED
      BY <3>1
  <2>5. CASE i # 0 /\ i # m
    <3>1. x[1] = P[i - 1][j] /\ y[1] = P[i][j]
      BY <2>1, <2>5
    <3>2. i - 1 \in 0 .. m /\ i - 1 # i
      BY <1>1, <2>5
    <3>3. P[i - 1][j] # P[i][j]
      BY <1>1, <3>2
    <3>4. QED
      BY <3>1, <3>3
  <2>6. QED
    BY <2>3, <2>4, <2>5
<1> HIDE DEF S, x, y
<1>9. \A face \in S : Arc(P, N, i, j) \in Edges(face) <=> face = x \/ face = y
  BY <1>5, <1>6, <1>7
<1>10. Cardinality({face \in S : Arc(P, N, i, j) \in Edges(face)}) = 2
  BY <1>6, <1>7, <1>8, <1>9, TwoFaces
<1>11. QED
  BY <1>10 DEF S

\* The two faces at a rib are those of its column and the one before.
LEMMA RibInTwo ==
  ASSUME NEW p, NEW m, NEW P, NEW N, NEW s, NEW t, MeshRight(p, m, P, N, s, t),
         NEW i \in 0 .. m - 1, NEW j \in 0 .. p - 1
  PROVE  Cardinality({face \in MeshFaces(p, m, P, N, s, t) : Rib(P, i, j) \in Edges(face)}) = 2
<1>1. /\ p \in Nat /\ m \in Nat
      /\ \A u, k \in 0 .. m, v, w \in 0 .. p - 1 : P[u][v] = P[k][w] => u = k /\ v = w
      /\ \A u \in 0 .. p - 1 : N[u] \in 0 .. p - 1 /\ N[u] # u
      /\ \A u, v \in 0 .. p - 1 : N[u] = N[v] => u = v
  BY DEF MeshRight
<1>2. PICK l \in 0 .. p - 1 : N[l] = j
  BY DEF MeshRight
<1>3. /\ KindsDiffer(p, m, P, N, s, t) /\ PlacesDiffer(p, m, P, N)
      /\ EdgesAre(p, m, P, N, s, t)
  BY EdgesDiffer, FaceEdges
<1>4. 0 \in 0 .. m /\ m \in 0 .. m /\ \A k \in 0 .. m - 1 : k \in 0 .. m /\ k + 1 \in 0 .. m
  BY <1>1
<1> DEFINE S == MeshFaces(p, m, P, N, s, t)
<1>5. ASSUME NEW face \in S, Rib(P, i, j) \in Edges(face)
      PROVE  face = QuadFace(P, N, i, j) \/ face = QuadFace(P, N, i, l)
  <2>1. ASSUME NEW tip \in {s, t}, NEW u \in {0, m}, (tip = s /\ u = 0) \/ (tip = t /\ u = m),
               NEW k \in 0 .. p - 1, face = FanFace(P, N, tip, u, k)
        PROVE  FALSE
    <3>1. Rib(P, i, j) \in {Spoke(P, tip, u, k), Arc(P, N, u, k), Spoke(P, tip, u, N[k])}
      BY <1>3, <1>5, <2>1 DEF EdgesAre
    <3>2. QED
      BY <1>1, <1>3, <1>4, <2>1, <3>1 DEF KindsDiffer
  <2>2. CASE \E u \in 0 .. m - 1, k \in 0 .. p - 1 : face = QuadFace(P, N, u, k)
    <3>1. PICK u \in 0 .. m - 1, k \in 0 .. p - 1 : face = QuadFace(P, N, u, k)
      BY <2>2
    <3>2. Rib(P, i, j) \in {Arc(P, N, u, k), Rib(P, u, N[k]), Arc(P, N, u + 1, k), Rib(P, u, k)}
      BY <1>3, <1>5, <3>1 DEF EdgesAre
    <3>3. i = u /\ (k = j \/ N[k] = j)
      BY <1>1, <1>3, <1>4, <3>2 DEF PlacesDiffer, KindsDiffer
    <3>4. QED
      BY <1>1, <1>2, <3>1, <3>3
  <2>3. QED
    <3>1. \/ \E k \in 0 .. p - 1 : face = FanFace(P, N, s, 0, k)
          \/ \E u \in 0 .. m - 1, k \in 0 .. p - 1 : face = QuadFace(P, N, u, k)
          \/ \E k \in 0 .. p - 1 : face = FanFace(P, N, t, m, k)
      BY <1>5 DEF MeshFaces, FanFaces, QuadFaces
    <3>2. QED
      BY <2>1, <2>2, <3>1
<1>6. PICK x \in S, y \in S : x = QuadFace(P, N, i, j) /\ y = QuadFace(P, N, i, l)
  BY DEF MeshFaces, FanFaces, QuadFaces
<1>7. x # y
  <2>1. x[1] = P[i][j] /\ y[1] = P[i][l]
    BY <1>6 DEF QuadFace
  <2>2. P[i][j] # P[i][l]
    BY <1>1, <1>2, <1>4
  <2>3. QED
    BY <2>1, <2>2
<1>8. Rib(P, i, j) \in Edges(x) /\ Rib(P, i, j) \in Edges(y)
  BY <1>2, <1>3, <1>6 DEF EdgesAre
<1> HIDE DEF S
<1>9. \A face \in S : Rib(P, i, j) \in Edges(face) <=> face = x \/ face = y
  BY <1>5, <1>6, <1>8
<1>10. Cardinality({face \in S : Rib(P, i, j) \in Edges(face)}) = 2
  BY <1>7, <1>9, TwoFaces
<1>11. QED
  BY <1>10 DEF S

\* There is no hole and no overlap.
LEMMA MeshIsClosed ==
  ASSUME NEW p, NEW m, NEW P, NEW N, NEW s, NEW t, MeshRight(p, m, P, N, s, t),
         NEW face \in MeshFaces(p, m, P, N, s, t), NEW e \in Edges(face)
  PROVE  Cardinality({other \in MeshFaces(p, m, P, N, s, t) : e \in Edges(other)}) = 2
<1>1. /\ p \in Nat /\ m \in Nat /\ \A u \in 0 .. p - 1 : N[u] \in 0 .. p - 1
  BY DEF MeshRight
<1>2. EdgesAre(p, m, P, N, s, t)
  BY FaceEdges
<1>3. 0 \in 0 .. m /\ m \in 0 .. m /\ \A k \in 0 .. m - 1 : k \in 0 .. m /\ k + 1 \in 0 .. m
  BY <1>1
<1>4. \/ \E j \in 0 .. p - 1 : e = Spoke(P, s, 0, j) \/ e = Spoke(P, t, m, j)
      \/ \E i \in 0 .. m, j \in 0 .. p - 1 : e = Arc(P, N, i, j)
      \/ \E i \in 0 .. m - 1, j \in 0 .. p - 1 : e = Rib(P, i, j)
  <2>1. CASE \E k \in 0 .. p - 1 : face = FanFace(P, N, s, 0, k)
    BY <1>1, <1>2, <1>3, <2>1 DEF EdgesAre
  <2>2. CASE \E i \in 0 .. m - 1, k \in 0 .. p - 1 : face = QuadFace(P, N, i, k)
    BY <1>1, <1>2, <1>3, <2>2 DEF EdgesAre
  <2>3. CASE \E k \in 0 .. p - 1 : face = FanFace(P, N, t, m, k)
    BY <1>1, <1>2, <1>3, <2>3 DEF EdgesAre
  <2>4. QED
    BY <2>1, <2>2, <2>3 DEF MeshFaces, FanFaces, QuadFaces
<1>5. CASE \E j \in 0 .. p - 1 : e = Spoke(P, s, 0, j) \/ e = Spoke(P, t, m, j)
  <2>1. PICK j \in 0 .. p - 1 : e = Spoke(P, s, 0, j) \/ e = Spoke(P, t, m, j)
    BY <1>5
  <2>2. /\ Cardinality({other \in MeshFaces(p, m, P, N, s, t) : Spoke(P, s, 0, j) \in Edges(other)}) = 2
        /\ Cardinality({other \in MeshFaces(p, m, P, N, s, t) : Spoke(P, t, m, j) \in Edges(other)}) = 2
    BY SpokeInTwo
  <2>3. QED
    BY <2>1, <2>2
<1>6. CASE \E i \in 0 .. m, j \in 0 .. p - 1 : e = Arc(P, N, i, j)
  BY <1>6, ArcInTwo
<1>7. CASE \E i \in 0 .. m - 1, j \in 0 .. p - 1 : e = Rib(P, i, j)
  BY <1>7, RibInTwo
<1>8. QED
  BY <1>4, <1>5, <1>6, <1>7

-----------------------------------------------------------------------------
(* The mesh of the balloon is such a mesh.  What is known of the grid is     *)
(* taken from DAFFGridProofs.                                                *)

GridFacts == INSTANCE DAFFGridProofs WITH
  Headers <- {Content[f].header : f \in Files}, Alphas <- {}, Betas <- {},
  header <- 0, asked <- 0, record <- 0, outOfBounds <- 0, quad <- 0

LEMMA SameGrid ==
  /\ Grid!FullTurn = GridFacts!FullTurn /\ Grid!HalfTurn = GridFacts!HalfTurn
  /\ Grid!AngleFields = GridFacts!AngleFields
  /\ \A h : /\ Grid!SouthPole(h) <=> GridFacts!SouthPole(h)
            /\ Grid!NorthPole(h) <=> GridFacts!NorthPole(h)
            /\ Grid!AlphaResolution(h) = GridFacts!AlphaResolution(h)
            /\ Grid!BetaResolution(h) = GridFacts!BetaResolution(h)
BY DEF Grid!FullTurn, GridFacts!FullTurn, Grid!HalfTurn, GridFacts!HalfTurn,
       Grid!AngleFields, GridFacts!AngleFields, Grid!SouthPole, GridFacts!SouthPole,
       Grid!NorthPole, GridFacts!NorthPole, Grid!AlphaResolution, GridFacts!AlphaResolution,
       Grid!AlphaSpan, GridFacts!AlphaSpan, Grid!AlphaSteps, GridFacts!AlphaSteps,
       Grid!BetaResolution, GridFacts!BetaResolution

LEMMA SameRings ==
  \A h : /\ \A k : /\ Grid!RingBeta(h, k) = GridFacts!RingBeta(h, k)
                   /\ Grid!RingSize(h, k) = GridFacts!RingSize(h, k)
                   /\ Grid!RingFirst(h, k) = GridFacts!RingFirst(h, k)
         /\ Grid!NumRecords(h) = GridFacts!NumRecords(h)
<1>1. \A h, k : Grid!RingBeta(h, k) = GridFacts!RingBeta(h, k)
  BY SameGrid DEF Grid!RingBeta, GridFacts!RingBeta
<1>2. \A h, k : Grid!RingSize(h, k) = GridFacts!RingSize(h, k)
  BY <1>1, SameGrid DEF Grid!RingSize, GridFacts!RingSize
<1>3. \A h, k : Grid!RingFirst(h, k) = GridFacts!RingFirst(h, k)
  BY <1>2 DEF Grid!RingFirst, GridFacts!RingFirst
<1>4. \A h : Grid!NumRecords(h) = GridFacts!NumRecords(h)
  BY <1>2, <1>3 DEF Grid!NumRecords, GridFacts!NumRecords
<1>5. QED
  BY <1>1, <1>2, <1>3, <1>4

LEMMA GridIsAssumed ==
  ASSUME RecordsAreGrids
  PROVE  GridFacts!GridAssumption /\ GridFacts!CoarseGrids
<1>1. /\ Degree \in Nat \ {0} /\ Degree % 1000 = 0
      /\ \A f \in Files :
           /\ Content[f].header \in [GridFacts!AngleFields -> Int]
           /\ Grid!AcceptedHeader(Content[f].header) /\ Grid!ExactGrid(Content[f].header)
  BY SameGrid DEF RecordsAreGrids
<1>2. \A h : /\ Grid!AcceptedHeader(h) <=> GridFacts!AcceptedHeader(h)
             /\ Grid!ExactGrid(h) <=> GridFacts!ExactGrid(h)
  BY SameGrid DEF Grid!AcceptedHeader, GridFacts!AcceptedHeader, Grid!ExactGrid,
                  GridFacts!ExactGrid, Grid!AlphaSpan, GridFacts!AlphaSpan,
                  Grid!AlphaSteps, GridFacts!AlphaSteps
<1>3. GridFacts!GridAssumption
  BY <1>1, <1>2 DEF GridFacts!GridAssumption
<1>4. GridFacts!CoarseGrids
  BY SameGrid DEF RecordsAreGrids, GridFacts!CoarseGrids
<1>5. QED
  BY <1>3, <1>4

\* The header of a content, and how many records its rings have.
HeaderOf(h, p, q) ==
  /\ p \in Nat /\ p >= 1 /\ p = h.alphaPoints
  /\ q \in Nat /\ q >= 1 /\ q = h.betaPoints
Tips(h) == (IF Grid!SouthPole(h) THEN 1 ELSE 0) + (IF Grid!NorthPole(h) THEN 1 ELSE 0)

LEMMA HeaderIs ==
  ASSUME RecordsAreGrids, NEW f \in Files
  PROVE  \E p, q \in Nat : HeaderOf(Content[f].header, p, q)
<1>1. Content[f].header \in [Grid!AngleFields -> Int]
      /\ Grid!AcceptedHeader(Content[f].header)
  BY DEF RecordsAreGrids
<1>2. QED
  BY <1>1 DEF HeaderOf, Grid!AcceptedHeader, Grid!AngleFields

LEMMA RecordsOfRings ==
  ASSUME RecordsAreGrids, NEW f \in Files, NEW p \in Nat, NEW q \in Nat,
         HeaderOf(Content[f].header, p, q), q > 1
  PROVE  Content[f].records = Tips(Content[f].header) + (q - Tips(Content[f].header)) * p
<1> DEFINE h == Content[f].header
<1>1. GridFacts!GridAssumption /\ h \in {Content[g].header : g \in Files}
  BY GridIsAssumed
<1>2. Content[f].records = GridFacts!NumRecords(h)
  BY SameRings DEF RecordsAreGrids
<1>3. h.betaPoints = q /\ h.alphaPoints = p /\ p \in Int /\ q \in Int
  BY DEF HeaderOf
<1>4. GridFacts!NumRecords(h)
        = GridFacts!RingSize(h, 0) + (q - 2) * p + GridFacts!RingSize(h, q - 1)
  <2>1. q # 1
    OBVIOUS
  <2>2. QED
    BY <1>1, <1>3, <2>1, GridFacts!RecordCount DEF GridFacts!GridAssumption
<1>5. /\ GridFacts!SouthPole(h) => GridFacts!RingSize(h, 0) = 1
      /\ ~GridFacts!SouthPole(h) => GridFacts!RingSize(h, 0) = p
      /\ GridFacts!NorthPole(h) => GridFacts!RingSize(h, q - 1) = 1
      /\ ~GridFacts!NorthPole(h) => GridFacts!RingSize(h, q - 1) = p
  BY <1>1, <1>3, GridFacts!EndRings DEF GridFacts!GridAssumption
<1> HIDE DEF h
<1>6. PICK a, b : /\ a = (IF GridFacts!SouthPole(h) THEN 1 ELSE 0)
                  /\ b = (IF GridFacts!NorthPole(h) THEN 1 ELSE 0)
  OBVIOUS
<1>7. Tips(h) = a + b
  BY <1>6, SameGrid DEF Tips
<1>8. PICK x \in Int : x = (q - 2) * p
  OBVIOUS
<1>9. /\ (q - 0) * p = x + 2 * p /\ (q - 1) * p = x + p /\ (q - 2) * p = x
  BY <1>8
<1>10. \E c \in {0, 1, 2} : c = a + b /\ Content[f].records = c + (q - c) * p
  <2>1. CASE a = 0 /\ b = 0
    <3>1. Content[f].records = p + x + p
      BY <1>2, <1>4, <1>5, <1>6, <1>8, <2>1
    <3>2. QED
      BY <1>9, <2>1, <3>1
  <2>2. CASE (a = 0 /\ b = 1) \/ (a = 1 /\ b = 0)
    <3>1. Content[f].records = 1 + x + p
      BY <1>2, <1>4, <1>5, <1>6, <1>8, <2>2
    <3>2. QED
      BY <1>9, <2>2, <3>1
  <2>3. CASE a = 1 /\ b = 1
    <3>1. Content[f].records = 2 + x
      BY <1>2, <1>4, <1>5, <1>6, <1>8, <2>3
    <3>2. QED
      BY <1>9, <2>3, <3>1
  <2>4. QED
    BY <1>6, <2>1, <2>2, <2>3
<1>11. QED
  BY <1>7, <1>10 DEF h

\* Division into rings and columns.
LEMMA DivisionIs ==
  ASSUME RecordsAreGrids, NEW p \in Nat, p >= 1, NEW k \in Int, NEW i \in 0 .. p - 1
  PROVE  (k * p + i) % p = i
<1>1. GridFacts!GridAssumption
  BY GridIsAssumed
<1>2. p \in Int /\ p > 0
  OBVIOUS
<1>3. QED
  BY <1>1, <1>2, GridFacts!Quotient DEF GridFacts!GridAssumption

LEMMA ColumnsOfRing ==
  ASSUME RecordsAreGrids, NEW p \in Nat, p >= 1, NEW j \in 0 .. p - 1
  PROVE  /\ j % p = j
         /\ (j + 1) % p = IF j = p - 1 THEN 0 ELSE j + 1
<1>1. (0 * p + j) % p = j /\ 0 * p + j = j
  BY DivisionIs
<1>2. CASE j = p - 1
  <2>1. (1 * p + 0) % p = 0 /\ 1 * p + 0 = j + 1
    BY <1>2, DivisionIs
  <2>2. QED
    BY <1>1, <1>2, <2>1
<1>3. CASE j # p - 1
  <2>1. j + 1 \in 0 .. p - 1
    BY <1>3
  <2>2. (0 * p + (j + 1)) % p = j + 1 /\ 0 * p + (j + 1) = j + 1
    BY <2>1, DivisionIs
  <2>3. QED
    BY <1>1, <1>3, <2>2
<1>4. QED
  BY <1>2, <1>3

LEMMA RingAndColumn ==
  ASSUME RecordsAreGrids, NEW p \in Nat, p >= 1, NEW c \in Nat, NEW x \in Nat, x < c * p
  PROVE  \E i \in 0 .. c - 1, j \in 0 .. p - 1 : x = i * p + j
<1>1. PICK k \in Int : p * k <= x /\ x < p * k + p
  <2>1. p \in Int /\ p > 0 /\ x \in Int
    OBVIOUS
  <2>2. x \div p \in Int /\ p * (x \div p) <= x /\ x < p * (x \div p) + p
    BY <2>1, GridIsAssumed, GridFacts!DivisionBounds DEF GridFacts!GridAssumption
  <2>3. QED
    BY <2>2
<1>2. k >= 0
  <2>1. SUFFICES ASSUME k <= -1 PROVE FALSE
    BY <1>1
  <2>2. k * p <= (-1) * p
    BY <2>1, GridIsAssumed, GridFacts!ProductMonotone DEF GridFacts!GridAssumption
  <2>3. QED
    BY <1>1, <2>2
<1>3. k <= c - 1
  <2>1. SUFFICES ASSUME k >= c PROVE FALSE
    BY <1>1
  <2>2. c * p <= k * p
    BY <1>1, <2>1, GridIsAssumed, GridFacts!ProductMonotone DEF GridFacts!GridAssumption
  <2>3. QED
    BY <1>1, <2>2
<1>4. PICK y \in Int : y = k * p
  BY <1>1
<1>5. x - y \in 0 .. p - 1 /\ x = k * p + (x - y)
  BY <1>1, <1>4
<1>6. QED
  BY <1>1, <1>2, <1>3, <1>5

\* A point of the mesh, and the faces said with it.
South(h) == IF Grid!SouthPole(h) THEN 1 ELSE 0
North(h) == IF Grid!NorthPole(h) THEN 1 ELSE 0
MeshPoint(h, i, j) == South(h) + i * h.alphaPoints + (j % h.alphaPoints)
MeshRings(h) == h.betaPoints - 1 - South(h) - North(h)
MeshColumnsOf(h) ==
  0 .. h.alphaPoints - (IF h.alphaStart = 0 /\ h.alphaEnd = Grid!FullTurn THEN 1 ELSE 2)

Fan(h, tip, i, columns) ==
  {<<tip, MeshPoint(h, i, j), MeshPoint(h, i, j + 1)>> : j \in columns}
Quads(h, rings, columns) ==
  {<<MeshPoint(h, i, j), MeshPoint(h, i, j + 1),
     MeshPoint(h, i + 1, j + 1), MeshPoint(h, i + 1, j)>> : i \in 0 .. rings - 1, j \in columns}

LEMMA FacesAre ==
  ASSUME NEW h, h.alphaPoints # 1, h.betaPoints # 1
  PROVE  Faces(h) =
           Fan(h, 0, 0, IF South(h) = 1 THEN MeshColumnsOf(h) ELSE {})
           \cup Quads(h, MeshRings(h), MeshColumnsOf(h))
           \cup Fan(h, Grid!NumRecords(h) - 1, MeshRings(h),
                    IF North(h) = 1 THEN MeshColumnsOf(h) ELSE {})
BY DEF Faces, Fan, Quads, MeshPoint, South, North, MeshRings, MeshColumnsOf

\* The corners of the faces.
Corners(faces) == UNION {{face[i] : i \in 1 .. Len(face)} : face \in faces}

LEMMA CornerOf ==
  ASSUME NEW faces, NEW face \in faces, NEW i \in 1 .. Len(face)
  PROVE  face[i] \in Corners(faces)
BY DEF Corners

\* The points of a ring are corners of faces.
LEMMA RingIsCovered ==
  ASSUME RecordsAreGrids, NEW h, NEW p \in Nat, NEW q \in Nat, HeaderOf(h, p, q), p > 1, q > 1,
         NEW i \in 0 .. MeshRings(h), NEW j \in 0 .. p - 1
  PROVE  South(h) + i * p + j \in Corners(Faces(h))
<1>1. /\ h.alphaPoints = p /\ h.betaPoints = q
      /\ South(h) \in {0, 1} /\ North(h) \in {0, 1} /\ MeshRings(h) \in Int
  BY DEF HeaderOf, South, North, MeshRings
<1>2. PICK k \in 0 .. p - 2, d \in {0, 1} : j = k + d
  <2>1. CASE j = 0
    <3>1. 0 \in 0 .. p - 2 /\ 0 \in {0, 1} /\ j = 0 + 0
      BY <2>1
    <3>2. QED
      BY <3>1
  <2>2. CASE j # 0
    <3>1. j - 1 \in 0 .. p - 2 /\ 1 \in {0, 1} /\ j = (j - 1) + 1
      BY <2>2
    <3>2. QED
      BY <3>1
  <2>3. QED
    BY <2>1, <2>2
<1>3. k \in MeshColumnsOf(h)
  BY <1>1 DEF MeshColumnsOf
<1>4. MeshPoint(h, i, k + d) = South(h) + i * p + j
  <2>0. p >= 1
    OBVIOUS
  <2>1. j % p = j
    BY <2>0, ColumnsOfRing
  <2>2. QED
    BY <1>1, <1>2, <2>1 DEF MeshPoint
<1>5. /\ South(h) = 1 => <<0, MeshPoint(h, 0, k), MeshPoint(h, 0, k + 1)>> \in Faces(h)
      /\ \A u \in 0 .. MeshRings(h) - 1 :
           <<MeshPoint(h, u, k), MeshPoint(h, u, k + 1),
             MeshPoint(h, u + 1, k + 1), MeshPoint(h, u + 1, k)>> \in Faces(h)
      /\ North(h) = 1 => <<Grid!NumRecords(h) - 1, MeshPoint(h, MeshRings(h), k),
                           MeshPoint(h, MeshRings(h), k + 1)>> \in Faces(h)
  <2>1. h.alphaPoints # 1 /\ h.betaPoints # 1
    BY <1>1
  <2>2. QED
    BY <1>3, <2>1, FacesAre DEF Fan, Quads
<1>6. ASSUME NEW a, NEW b, NEW c, <<a, b, c>> \in Faces(h)
      PROVE  b \in Corners(Faces(h)) /\ c \in Corners(Faces(h))
  <2>1. /\ Len(<<a, b, c>>) = 3 /\ <<a, b, c>>[2] = b /\ <<a, b, c>>[3] = c
        /\ 2 \in 1 .. 3 /\ 3 \in 1 .. 3
    OBVIOUS
  <2>2. QED
    BY <1>6, <2>1, CornerOf
<1>7. ASSUME NEW a, NEW b, NEW c, NEW e, <<a, b, c, e>> \in Faces(h)
      PROVE  {a, b, c, e} \subseteq Corners(Faces(h))
  <2>1. /\ Len(<<a, b, c, e>>) = 4 /\ <<a, b, c, e>>[1] = a /\ <<a, b, c, e>>[2] = b
        /\ <<a, b, c, e>>[3] = c /\ <<a, b, c, e>>[4] = e
        /\ 1 \in 1 .. 4 /\ 2 \in 1 .. 4 /\ 3 \in 1 .. 4 /\ 4 \in 1 .. 4
    OBVIOUS
  <2>2. a \in Corners(Faces(h)) /\ b \in Corners(Faces(h))
    BY <1>7, <2>1, CornerOf
  <2>3. c \in Corners(Faces(h)) /\ e \in Corners(Faces(h))
    BY <1>7, <2>1, CornerOf
  <2>4. QED
    BY <2>2, <2>3
<1>8. /\ South(h) = 1 => {MeshPoint(h, 0, k), MeshPoint(h, 0, k + 1)} \subseteq Corners(Faces(h))
      /\ \A u \in 0 .. MeshRings(h) - 1 :
           {MeshPoint(h, u, k), MeshPoint(h, u, k + 1), MeshPoint(h, u + 1, k + 1),
            MeshPoint(h, u + 1, k)} \subseteq Corners(Faces(h))
      /\ North(h) = 1 => {MeshPoint(h, MeshRings(h), k), MeshPoint(h, MeshRings(h), k + 1)}
                            \subseteq Corners(Faces(h))
  BY <1>5, <1>6, <1>7
<1>9. MeshPoint(h, i, k) \in Corners(Faces(h)) /\ MeshPoint(h, i, k + 1) \in Corners(Faces(h))
  <2>1. CASE i < MeshRings(h)
    <3>1. i \in 0 .. MeshRings(h) - 1
      BY <1>1, <2>1
    <3>2. QED
      BY <1>8, <3>1
  <2>2. CASE i = MeshRings(h) /\ i # 0
    <3>1. PICK u \in 0 .. MeshRings(h) - 1 : u + 1 = i
      <4>1. i - 1 \in 0 .. MeshRings(h) - 1 /\ (i - 1) + 1 = i
        BY <1>1, <2>2
      <4>2. QED
        BY <4>1
    <3>2. QED
      BY <1>8, <3>1
  <2>3. CASE i = MeshRings(h) /\ i = 0
    <3>1. South(h) = 1 \/ North(h) = 1
      BY <1>1, <2>3 DEF MeshRings
    <3>2. QED
      BY <1>8, <2>3, <3>1
  <2>4. QED
    BY <1>1, <2>1, <2>2, <2>3
<1>10. k + d = k \/ k + d = k + 1
  BY <1>2
<1>11. MeshPoint(h, i, k + d) \in Corners(Faces(h))
  BY <1>9, <1>10
<1>12. QED
  BY <1>4, <1>11

\* Every record is a corner of a face.
LEMMA BalloonIsCovered ==
  ASSUME RecordsAreGrids, BalloonsAreSolid, NEW f \in Files, Content[f].type # "IR"
  PROVE  Records(f) \subseteq Corners(Faces(Content[f].header))
<1> DEFINE h == Content[f].header
<1>1. PICK p \in Nat, q \in Nat : HeaderOf(h, p, q)
  BY HeaderIs
<1>2. /\ p = h.alphaPoints /\ q = h.betaPoints /\ p >= 1 /\ q >= 1
      /\ p > 1 \/ q > 1
  BY <1>1 DEF HeaderOf, BalloonsAreSolid
<1>3. /\ Content[f].records = Grid!NumRecords(h) /\ Content[f].records \in Nat
      /\ Records(f) = 0 .. Content[f].records - 1
  BY ContentAssumption DEF RecordsAreGrids, Records
<1> HIDE DEF h
<1>4. ASSUME NEW r \in Records(f), p = 1 \/ q = 1
      PROVE  r \in Corners(Faces(h))
  <2>1. Faces(h) = Line(h)
    BY <1>2, <1>4 DEF Faces
  <2>2. <<r, r + 1, Grid!NumRecords(h)>> \in Faces(h)
    BY <1>3, <1>4, <2>1 DEF Line
  <2>3. PICK a, b : a = r + 1 /\ b = Grid!NumRecords(h)
    OBVIOUS
  <2>4. Len(<<r, a, b>>) = 3 /\ <<r, a, b>>[1] = r /\ 1 \in 1 .. 3
    OBVIOUS
  <2>5. QED
    BY <2>2, <2>3, <2>4, CornerOf
<1>5. ASSUME NEW r \in Records(f), p > 1, q > 1
      PROVE  r \in Corners(Faces(h))
  <2>1. /\ South(h) \in {0, 1} /\ North(h) \in {0, 1}
        /\ Tips(h) = South(h) + North(h) /\ MeshRings(h) = q - 1 - South(h) - North(h)
    BY <1>2 DEF South, North, Tips, MeshRings
  <2>2. PICK c \in Nat : c = q - Tips(h) /\ MeshRings(h) = c - 1
    BY <1>2, <1>5, <2>1
  <2>3. Content[f].records = South(h) + North(h) + c * p
    BY <1>1, <1>5, <2>1, <2>2, RecordsOfRings DEF h
  <2>4. c * p \in Nat /\ r \in Nat /\ r < South(h) + North(h) + c * p
    BY <1>3, <2>1, <2>3
  <2>5. ASSUME NEW a, NEW b, NEW d, <<a, b, d>> \in Faces(h)
        PROVE  a \in Corners(Faces(h))
    <3>1. Len(<<a, b, d>>) = 3 /\ <<a, b, d>>[1] = a /\ 1 \in 1 .. 3
      OBVIOUS
    <3>2. QED
      BY <2>5, <3>1, CornerOf
  <2>6. 0 \in MeshColumnsOf(h) /\ h.alphaPoints # 1 /\ h.betaPoints # 1
    BY <1>2, <1>5 DEF MeshColumnsOf
  <2>7. CASE r < South(h)
    <3>1. r = 0 /\ South(h) = 1
      BY <2>1, <2>4, <2>7
    <3>2. <<0, MeshPoint(h, 0, 0), MeshPoint(h, 0, 0 + 1)>> \in Faces(h)
      BY <2>6, <3>1, FacesAre DEF Fan
    <3>3. QED
      BY <2>5, <3>1, <3>2
  <2>8. CASE r >= South(h) + c * p
    <3>1. North(h) = 1 /\ r = Grid!NumRecords(h) - 1
      BY <1>3, <2>1, <2>3, <2>4, <2>8
    <3>2. <<Grid!NumRecords(h) - 1, MeshPoint(h, MeshRings(h), 0),
            MeshPoint(h, MeshRings(h), 0 + 1)>> \in Faces(h)
      BY <2>6, <3>1, FacesAre DEF Fan
    <3>3. QED
      BY <2>5, <3>1, <3>2
  <2>9. CASE South(h) <= r /\ r < South(h) + c * p
    <3>1. PICK x \in Nat : x = r - South(h) /\ x < c * p
      BY <2>1, <2>4, <2>9
    <3>2. PICK i \in 0 .. c - 1, j \in 0 .. p - 1 : x = i * p + j
      BY <1>2, <3>1, RingAndColumn
    <3>3. i \in 0 .. MeshRings(h)
      BY <2>2
    <3>4. South(h) + i * p + j \in Corners(Faces(h))
      BY <1>1, <1>5, <3>3, RingIsCovered
    <3>5. r = South(h) + i * p + j
      <4>1. PICK y \in Int : y = i * p
        BY <3>2
      <4>2. QED
        BY <2>1, <2>4, <3>1, <3>2, <4>1
    <3>6. QED
      BY <3>4, <3>5
  <2>10. QED
    BY <2>1, <2>4, <2>7, <2>8, <2>9
<1>6. QED
  BY <1>2, <1>4, <1>5 DEF h

\* Around a whole sphere the mesh is the one proved closed.
RingPoints(p, m) == [i \in 0 .. m |-> [j \in 0 .. p - 1 |-> 1 + i * p + j]]
NextColumn(p) == [j \in 0 .. p - 1 |-> (j + 1) % p]

LEMMA OneMore ==
  \A a, b, c, d \in Int : 1 + a + c = 1 + b + d => a + c = b + d
OBVIOUS

LEMMA SameSummand ==
  \A a, b, c, d \in Int : (a + c = b + d /\ c = d) => a = b
OBVIOUS

LEMMA RingPointsRight ==
  ASSUME RecordsAreGrids, NEW p \in Nat, p >= 3, NEW m \in Nat
  PROVE  MeshRight(p, m, RingPoints(p, m), NextColumn(p), 0, 1 + (m + 1) * p)
<1> DEFINE P == RingPoints(p, m)
           N == NextColumn(p)
           t == 1 + (m + 1) * p
<1>1. ASSUME NEW i \in 0 .. m, NEW j \in 0 .. p - 1
      PROVE  P[i][j] = 1 + i * p + j
  BY DEF RingPoints
<1>2. ASSUME NEW j \in 0 .. p - 1
      PROVE  N[j] = IF j = p - 1 THEN 0 ELSE j + 1
  <2>1. p >= 1
    OBVIOUS
  <2>2. N[j] = (j + 1) % p
    BY DEF NextColumn
  <2>3. (j + 1) % p = IF j = p - 1 THEN 0 ELSE j + 1
    BY <2>1, ColumnsOfRing
  <2>4. QED
    BY <2>2, <2>3
<1> HIDE DEF P, N
<1>3. ASSUME NEW i \in 0 .. m, NEW k \in 0 .. m, NEW j \in 0 .. p - 1, NEW l \in 0 .. p - 1,
             P[i][j] = P[k][l]
      PROVE  i = k /\ j = l
  <2>1. i * p \in Int /\ k * p \in Int
    OBVIOUS
  <2>2. i * p + j = k * p + l
    <3>1. 1 + i * p + j = 1 + k * p + l
      <4>1. P[i][j] = 1 + i * p + j
        BY <1>1
      <4>2. P[k][l] = 1 + k * p + l
        BY <1>1
      <4>3. QED
        BY <1>3, <4>1, <4>2, Zenon
    <3>2. QED
      BY <2>1, <3>1, OneMore
  <2>3. (i * p + j) % p = j /\ (k * p + l) % p = l
    BY DivisionIs
  <2>4. j = l
    BY <2>2, <2>3, Zenon
  <2>5. i * p = k * p
    BY <2>1, <2>2, <2>4, SameSummand
  <2>6. p * i < p * (k + 1) /\ p * k < p * (i + 1)
    BY <2>5
  <2>7. i <= k /\ k <= i
    BY <2>6, GridIsAssumed, GridFacts!ProductCancel DEF GridFacts!GridAssumption
  <2>8. QED
    BY <2>4, <2>7
<1>4. ASSUME NEW i \in 0 .. m, NEW j \in 0 .. p - 1
      PROVE  P[i][j] # 0 /\ P[i][j] # t
  <2>1. PICK x \in Int, y \in Int, z \in Int : x = i * p /\ y = m * p /\ z = (m + 1) * p
    OBVIOUS
  <2>2. 0 * p <= i * p /\ i * p <= m * p
    BY GridIsAssumed, GridFacts!ProductMonotone DEF GridFacts!GridAssumption
  <2>3. 0 <= x /\ x <= y /\ z = y + p
    BY <2>1, <2>2
  <2>4. P[i][j] = 1 + x + j /\ t = 1 + z
    BY <1>1, <2>1
  <2>5. QED
    BY <2>3, <2>4
<1>5. \A j \in 0 .. p - 1 : N[j] \in 0 .. p - 1 /\ N[j] # j /\ N[N[j]] # j
  <2>1. ASSUME NEW j \in 0 .. p - 1 PROVE N[j] \in 0 .. p - 1 /\ N[j] # j
    BY <1>2
  <2>2. ASSUME NEW j \in 0 .. p - 1 PROVE N[N[j]] # j
    <3>1. PICK k \in 0 .. p - 1 : k = N[j]
      BY <2>1
    <3>2. QED
      BY <1>2, <3>1
  <2>3. QED
    BY <2>1, <2>2
<1>6. \A j, l \in 0 .. p - 1 : N[j] = N[l] => j = l
  BY <1>2
<1>7. \A j \in 0 .. p - 1 : \E l \in 0 .. p - 1 : N[l] = j
  <2>1. ASSUME NEW j \in 0 .. p - 1
        PROVE  \E l \in 0 .. p - 1 : N[l] = j
    <3>1. CASE j = 0
      <4>1. p - 1 \in 0 .. p - 1
        OBVIOUS
      <4>2. QED
        BY <1>2, <3>1, <4>1
    <3>2. CASE j # 0
      <4>1. j - 1 \in 0 .. p - 1 /\ j - 1 # p - 1
        BY <3>2
      <4>2. N[j - 1] = (j - 1) + 1
        BY <1>2, <4>1
      <4>3. QED
        BY <4>1, <4>2
    <3>3. QED
      BY <3>1, <3>2
  <2>2. QED
    BY <2>1
<1>8. 0 # t
  <2>1. 0 * p <= (m + 1) * p
    BY GridIsAssumed, GridFacts!ProductMonotone DEF GridFacts!GridAssumption
  <2>2. PICK z \in Int : z = (m + 1) * p /\ z >= 0
    BY <2>1
  <2>3. QED
    BY <2>2
<1> HIDE DEF t
<1>9. MeshRight(p, m, P, N, 0, t)
  BY <1>3, <1>4, <1>5, <1>6, <1>7, <1>8 DEF MeshRight
<1>10. QED
  BY <1>9 DEF P, N, t

LEMMA SphereIsMesh ==
  ASSUME RecordsAreGrids, NEW f \in Files, NEW p \in Nat, NEW q \in Nat,
         HeaderOf(Content[f].header, p, q), p >= 3, q >= 3,
         Grid!coversFullSphere(Content[f].header)
  PROVE  Faces(Content[f].header)
           = MeshFaces(p, q - 3, RingPoints(p, q - 3), NextColumn(p), 0, 1 + (q - 3 + 1) * p)
<1> DEFINE h == Content[f].header
<1>1. /\ h.alphaPoints = p /\ h.betaPoints = q
      /\ South(h) = 1 /\ North(h) = 1 /\ Tips(h) = 2 /\ MeshRings(h) = q - 3
      /\ MeshColumnsOf(h) = 0 .. p - 1
  BY DEF HeaderOf, South, North, Tips, MeshRings, MeshColumnsOf, Grid!coversFullSphere
<1>2. Grid!NumRecords(h) - 1 = 1 + (q - 3 + 1) * p
  <2>1. Grid!NumRecords(h) = 2 + (q - 2) * p
    BY <1>1, RecordsOfRings DEF RecordsAreGrids
  <2>2. q - 3 + 1 = q - 2
    BY <1>1
  <2>3. PICK z \in Int : z = (q - 2) * p
    OBVIOUS
  <2>4. QED
    BY <2>1, <2>2, <2>3
<1> HIDE DEF h
<1>3. PICK m \in Nat : m = q - 3
  OBVIOUS
<1>4. PICK t : t = Grid!NumRecords(h) - 1 /\ t = 1 + (m + 1) * p
  BY <1>2, <1>3
<1>5. PICK P, N : P = RingPoints(p, m) /\ N = NextColumn(p)
  OBVIOUS
<1>6. ASSUME NEW i \in 0 .. m, NEW j \in 0 .. p - 1
      PROVE  MeshPoint(h, i, j) = P[i][j] /\ MeshPoint(h, i, j + 1) = P[i][N[j]]
  <2>1. j % p = j /\ (j + 1) % p = N[j] /\ N[j] \in 0 .. p - 1
    <3>0. p >= 1
      OBVIOUS
    <3>1. j % p = j /\ (j + 1) % p \in 0 .. p - 1
      <4>1. j % p = j /\ (j + 1) % p = IF j = p - 1 THEN 0 ELSE j + 1
        BY <3>0, ColumnsOfRing
      <4>2. QED
        BY <4>1
    <3>2. QED
      BY <1>5, <3>1 DEF NextColumn
  <2>2. \A l \in 0 .. p - 1 : P[i][l] = 1 + i * p + l
    BY <1>5 DEF RingPoints
  <2>3. QED
    BY <1>1, <2>1, <2>2 DEF MeshPoint
<1>7. 0 \in 0 .. m /\ m \in 0 .. m /\ \A i \in 0 .. m - 1 : i \in 0 .. m /\ i + 1 \in 0 .. m
  OBVIOUS
<1>8. Fan(h, 0, 0, 0 .. p - 1) = FanFaces(p, P, N, 0, 0)
  BY <1>6, <1>7 DEF Fan, FanFace, FanFaces
<1>9. Fan(h, t, m, 0 .. p - 1) = FanFaces(p, P, N, t, m)
  BY <1>6, <1>7 DEF Fan, FanFace, FanFaces
<1>10. Quads(h, m, 0 .. p - 1) = QuadFaces(p, m, P, N)
  <2>1. ASSUME NEW i \in 0 .. m - 1, NEW j \in 0 .. p - 1
        PROVE  <<MeshPoint(h, i, j), MeshPoint(h, i, j + 1),
                 MeshPoint(h, i + 1, j + 1), MeshPoint(h, i + 1, j)>> = QuadFace(P, N, i, j)
    BY <1>6, <1>7 DEF QuadFace
  <2>2. QED
    BY <2>1 DEF Quads, QuadFaces
<1>11. h.alphaPoints # 1 /\ h.betaPoints # 1
  BY <1>1
<1>12. Faces(h) = Fan(h, 0, 0, 0 .. p - 1) \cup Quads(h, m, 0 .. p - 1)
                    \cup Fan(h, t, m, 0 .. p - 1)
  BY <1>1, <1>3, <1>4, <1>11, FacesAre
<1>13. Faces(h) = MeshFaces(p, m, P, N, 0, t)
  BY <1>8, <1>9, <1>10, <1>12 DEF MeshFaces
<1>14. QED
  BY <1>3, <1>4, <1>5, <1>13 DEF h

\* The first part of EveryRecordIsDrawn, for every balloon.
LEMMA BalloonIsDrawn ==
  ASSUME RecordsAreGrids, BalloonsAreSolid, NEW f \in Files, Content[f].type # "IR"
  PROVE  BalloonCovers[f]
<1> DEFINE h == Content[f].header
           faces == Faces(h)
<1>1. Records(f) \subseteq Corners(faces)
  BY BalloonIsCovered
<1>2. ASSUME Grid!coversFullSphere(h), NEW face \in faces, NEW e \in Edges(face)
      PROVE  Cardinality({other \in faces : e \in Edges(other)}) = 2
  <2>1. PICK p \in Nat, q \in Nat : HeaderOf(h, p, q)
    BY HeaderIs
  <2>2. p >= 3 /\ q >= 3
    BY <1>2, <2>1 DEF BalloonsAreSolid, HeaderOf
  <2>3. PICK m \in Nat : m = q - 3
    BY <2>2
  <2>4. PICK P, N, t : P = RingPoints(p, m) /\ N = NextColumn(p) /\ t = 1 + (m + 1) * p
    OBVIOUS
  <2>5. faces = MeshFaces(p, m, P, N, 0, t)
    BY <1>2, <2>1, <2>2, <2>3, <2>4, SphereIsMesh
  <2>6. MeshRight(p, m, P, N, 0, t)
    BY <2>2, <2>4, RingPointsRight
  <2> HIDE DEF faces
  <2>7. Cardinality({other \in MeshFaces(p, m, P, N, 0, t) : e \in Edges(other)}) = 2
    BY <1>2, <2>5, <2>6, MeshIsClosed
  <2>8. QED
    BY <2>5, <2>7
<1> HIDE DEF h, faces
<1>3. Grid!coversFullSphere(h) =>
        \A e \in UNION {Edges(face) : face \in faces} :
          Cardinality({face \in faces : e \in Edges(face)}) = 2
  BY <1>2
<1>4. BalloonCovers[f]
        <=> /\ Records(f) \subseteq Corners(faces)
            /\ Grid!coversFullSphere(h) =>
                 \A e \in UNION {Edges(face) : face \in faces} :
                   Cardinality({face \in faces : e \in Edges(face)}) = 2
  BY DEF BalloonCovers, h, faces, Corners, Grid!coversFullSphere
<1>5. QED
  BY <1>1, <1>3, <1>4

-----------------------------------------------------------------------------
(* The carpet.  What is cut exists, and the mesh is the one of its angle.    *)

IsCut(c) ==
  /\ c.file \in Files /\ Content[c.file].type = "IR"
  /\ c.angle \in FixedAngles /\ c.fixedAngle \in {"alpha", "beta"}
  /\ c.points = MeshColumns(c)
CutRight == carpet # NoPlot => IsCut(carpet)

SameCut(c, d) ==
  c.file = d.file /\ c.angle = d.angle /\ c.fixedAngle = d.fixedAngle /\ c.points = d.points

LEMMA CutKept ==
  ASSUME NEW c, NEW d, IsCut(c), SameCut(c, d)
  PROVE  IsCut(d)
BY DEF IsCut, SameCut, MeshColumns

\* The carpet on display is named, as definitions about it do not reach the next state.
LEMMA CutNext ==
  ASSUME NEW c, IsCut(c), carpet' = c
  PROVE  CutRight'
BY DEF CutRight, IsCut, MeshColumns

LEMMA CutMoved ==
  ASSUME NEW c, IsCarpet(c)
  PROVE  IsCarpet(updatePlotOffset(c)) /\ SameCut(c, updatePlotOffset(c))
<1>1. ASSUME NEW x
      PROVE  IsCarpet([c EXCEPT !.offset = x]) /\ SameCut(c, [c EXCEPT !.offset = x])
  BY DEF IsCarpet, CarpetFields, SameCut
<1>2. QED
  BY <1>1 DEF updatePlotOffset

LEMMA CutRedrawn ==
  ASSUME NEW c, IsCarpet(c)
  PROVE  SameCut(c, CarpetSetScalars(c))
<1>1. PICK d : d = [c EXCEPT !.shown = CarpetScalars(c)]
  OBVIOUS
<1>2. IsCarpet(d) /\ SameCut(c, d)
  BY <1>1 DEF IsCarpet, CarpetFields, SameCut
<1>3. CarpetSetScalars(c) = updatePlotOffset(d)
  BY <1>1 DEF CarpetSetScalars
<1>4. QED
  BY <1>2, <1>3, CutMoved DEF SameCut

LEMMA SettingKeepsCut ==
  ASSUME NEW c, IsCarpet(c), NEW x, NEW y
  PROVE  /\ SameCut(c, CarpetSetChannel(c, x)) /\ SameCut(c, CarpetSetScaling(c, x))
         /\ SameCut(c, CarpetSetRange(c, x, y)) /\ SameCut(c, SetWarpingEnabled(c, x))
<1>1. ASSUME NEW d, \/ d = [c EXCEPT !.channel = x]
                    \/ d = [c EXCEPT !.scaling = x]
                    \/ \E u, v : d = [c EXCEPT !.min = u, !.max = v]
                    \/ d = [c EXCEPT !.warp = x]
      PROVE  IsCarpet(d) /\ SameCut(c, d)
  BY <1>1 DEF IsCarpet, CarpetFields, SameCut
<1>2. ASSUME NEW d, IsCarpet(d), SameCut(c, d)
      PROVE  SameCut(c, CarpetSetScalars(d)) /\ SameCut(c, updatePlotOffset(d))
  BY <1>2, CutRedrawn, CutMoved DEF SameCut
<1>3. SameCut(c, CarpetSetChannel(c, x)) /\ SameCut(c, CarpetSetScaling(c, x))
  BY <1>1, <1>2 DEF CarpetSetChannel, CarpetSetScaling
<1>4. SameCut(c, SetWarpingEnabled(c, x))
  BY <1>1, <1>2 DEF SetWarpingEnabled
<1>5. SameCut(c, CarpetSetRange(c, x, y))
  <2>1. PICK u, v : CarpetSetRange(c, x, y) = CarpetSetScalars([c EXCEPT !.min = u, !.max = v])
    BY DEF CarpetSetRange
  <2>2. QED
    BY <1>1, <1>2, <2>1
<1>6. QED
  BY <1>3, <1>4, <1>5

LEMMA AngleSet ==
  ASSUME NEW c, IsCarpet(c), IsCut(c), NEW a \in FixedAngles
  PROVE  IsCut(SetSelectedAngle(c, a))
<1>1. PICK d : d = [c EXCEPT !.angle = a]
  OBVIOUS
<1>2. IsCarpet(d) /\ IsCut(d)
  BY <1>1 DEF IsCarpet, CarpetFields, IsCut, MeshColumns
<1>3. QED
  BY <1>1, <1>2, CutRedrawn, CutKept DEF SetSelectedAngle

\* A new mesh has as many columns as its angle asks for.
LEMMA MeshSet ==
  ASSUME NEW c, IsCarpet(c), c.file \in Files, Content[c.file].type = "IR",
         c.angle \in FixedAngles, c.fixedAngle \in {"alpha", "beta"}
  PROVE  IsCut(InitCarpetMesh(c))
<1>1. PICK d : d = [c EXCEPT !.points = MeshColumns(c)]
  OBVIOUS
<1>2. IsCarpet(d) /\ IsCut(d)
  BY <1>1 DEF IsCarpet, CarpetFields, IsCut, MeshColumns
<1>3. QED
  BY <1>1, <1>2, CutRedrawn, CutKept DEF InitCarpetMesh

LEMMA FixedAngleSet ==
  ASSUME NEW c, IsCarpet(c), IsCut(c), NEW which \in {"alpha", "beta"}
  PROVE  IsCut(SetFixedAngle(c, which))
<1>1. PICK d : d = [c EXCEPT !.fixedAngle = which]
  OBVIOUS
<1>2. /\ IsCarpet(d) /\ d.file \in Files /\ Content[d.file].type = "IR"
      /\ d.angle \in FixedAngles /\ d.fixedAngle \in {"alpha", "beta"}
  BY <1>1 DEF IsCarpet, CarpetFields, IsCut
<1>3. QED
  BY <1>1, <1>2, MeshSet DEF SetFixedAngle

LEMMA NewCut ==
  ASSUME NEW f \in Files, Content[f].type = "IR"
  PROVE  IsCut(CarpetPlot(f))
<1>1. PICK n : n = NewCarpet(f)
  OBVIOUS
<1>2. /\ IsCarpet(n) /\ n.file = f /\ n.angle = 0 /\ n.fixedAngle = "beta"
  BY <1>1 DEF IsCarpet, CarpetFields, NewCarpet
<1>3. 0 \in FixedAngles
  BY DEF FixedAngles
<1>4. PICK d : d = InitCarpetMesh(n)
  OBVIOUS
<1>5. IsCut(d)
  BY <1>2, <1>3, <1>4, MeshSet
<1>6. IsCarpet(d)
  <2>1. PICK m : m = [n EXCEPT !.points = MeshColumns(n)]
    OBVIOUS
  <2>2. IsCarpet(m)
    BY <1>2, <2>1 DEF IsCarpet, CarpetFields
  <2>3. QED
    BY <1>4, <2>1, <2>2, CarpetRedrawn DEF InitCarpetMesh, SoundCarpet
<1>7. CarpetPlot(f) = [d EXCEPT !.offset = 0]
  BY <1>1, <1>4 DEF CarpetPlot
<1>8. SameCut(d, [d EXCEPT !.offset = 0])
  BY <1>6 DEF IsCarpet, CarpetFields, SameCut
<1>9. QED
  BY <1>5, <1>7, <1>8, CutKept

LEMMA ToggleCut ==
  ASSUME Inv, CutRight, NEW t \in Toggles, Toggle(t)
  PROVE  CutRight'
<1>1. CASE carpet = NoPlot
  BY <1>1 DEF Toggle, Toggled, CutRight
<1>2. CASE carpet # NoPlot
  <2>1. PICK d : d = TellCarpet(carpet, t, menu'[t])
    OBVIOUS
  <2>2. IsCarpet(carpet) /\ IsCut(carpet)
    BY <1>2, OnDisplay DEF SoundCarpet, CutRight
  <2>3. SameCut(carpet, d)
    BY <2>1, <2>2, SettingKeepsCut DEF TellCarpet, SameCut
  <2>4. IsCut(d) /\ carpet' = d
    BY <1>2, <2>1, <2>2, <2>3, CutKept DEF Toggle, Toggled
  <2>5. QED
    BY <2>4, CutNext
<1>3. QED
  BY <1>1, <1>2

LEMMA ReadCut ==
  ASSUME NEW f \in Files, ReadDAFF(f)
  PROVE  CutRight'
<1>1. CASE Content[f].type # "IR"
  BY <1>1 DEF ReadDAFF, ShowBalloon, CutRight
<1>2. CASE Content[f].type = "IR"
  <2>1. PICK c0, c, d : /\ c0 = CarpetPlot(f)
                        /\ c = CarpetSetScaling(c0, Scaling(widget["LogScale"]))
                        /\ d = SetWarpingEnabled(c, widget["Warp"])
                        /\ carpet' = d
    BY <1>2 DEF ReadDAFF, ShowCarpet
  <2>2. IsCut(c0) /\ SoundCarpet(c0) /\ IsCarpet(c0)
    BY <1>2, <2>1, NewCut, NewCarpetIsSound DEF SoundCarpet
  <2>3. IsCut(c) /\ IsCarpet(c)
    BY <2>1, <2>2, CarpetSet, SettingKeepsCut, CutKept DEF SoundCarpet
  <2>4. IsCut(d)
    BY <2>1, <2>3, SettingKeepsCut, CutKept
  <2>5. QED
    BY <2>1, <2>4, CutNext
<1>3. QED
  BY <1>1, <1>2

\* The angles that a client and a series choose are the fixed angles.
LEMMA SetCut ==
  ASSUME Inv, CutRight, ChangeChannelIndex \/ ChangeAlphaOrBeta \/ SetCarpet
  PROVE  CutRight'
<1>1. ASSUME carpet # NoPlot
      PROVE  IsCarpet(carpet) /\ IsCut(carpet)
  BY <1>1, OnDisplay DEF SoundCarpet, CutRight
<1>2. ASSUME NEW c, CarpetBecomes(c), IsCut(c)
      PROVE  CutRight'
  BY <1>2, CutNext DEF CarpetBecomes
<1>3. ASSUME NEW b, BalloonBecomes(b)
      PROVE  CutRight'
  BY <1>3 DEF BalloonBecomes, CutRight, IsCut, MeshColumns
<1>4. ASSUME NEW i, CarpetBecomes(CarpetSetChannel(carpet, i))
      PROVE  CutRight'
  <2>1. IsCut(CarpetSetChannel(carpet, i))
    BY <1>1, <1>4, SettingKeepsCut, CutKept DEF CarpetBecomes
  <2>2. QED
    BY <1>2, <1>4, <2>1
<1>5. ASSUME NEW a \in Angles, CarpetBecomes(SetSelectedAngle(carpet, a))
      PROVE  CutRight'
  <2>1. a \in FixedAngles
    BY DEF FixedAngles
  <2>2. IsCut(SetSelectedAngle(carpet, a))
    BY <1>1, <1>5, <2>1, AngleSet DEF CarpetBecomes
  <2>3. QED
    BY <1>2, <1>5, <2>2
<1>6. ASSUME NEW which \in {"alpha", "beta"}, CarpetBecomes(SetFixedAngle(carpet, which))
      PROVE  CutRight'
  <2>1. IsCut(SetFixedAngle(carpet, which))
    BY <1>1, <1>6, FixedAngleSet DEF CarpetBecomes
  <2>2. QED
    BY <1>2, <1>6, <2>1
<1>7. ASSUME NEW min, NEW max, CarpetBecomes(CarpetSetRange(carpet, min, max))
      PROVE  CutRight'
  <2>1. IsCut(CarpetSetRange(carpet, min, max))
    BY <1>1, <1>7, SettingKeepsCut, CutKept DEF CarpetBecomes
  <2>2. QED
    BY <1>2, <1>7, <2>1
<1>8. QED
  BY <1>3, <1>4, <1>5, <1>6, <1>7 DEF ChangeChannelIndex, ChangeAlphaOrBeta, SetCarpet

LEMMA ExportCut ==
  ASSUME Inv, CutRight, on_actionExport3DPlotImageSeries
  PROVE  CutRight'
<1>1. ASSUME NEW b, BalloonBecomes(b)
      PROVE  CutRight'
  BY <1>1 DEF BalloonBecomes, CutRight, IsCut, MeshColumns
<1>2. ASSUME NEW a \in FixedAngles, NEW i, NEW c, c = SetSelectedAngle(carpet, a),
             CarpetBecomes(CarpetSetChannel(c, i))
      PROVE  CutRight'
  <2>1. SoundCarpet(carpet) /\ IsCarpet(carpet) /\ IsCut(carpet)
    BY <1>2, OnDisplay DEF CarpetBecomes, SoundCarpet, CutRight
  <2>2. IsCarpet(c) /\ IsCut(c)
    BY <1>2, <2>1, CarpetSet, AngleSet DEF SoundCarpet
  <2>3. PICK d : d = CarpetSetChannel(c, i) /\ IsCut(d)
    BY <2>2, SettingKeepsCut, CutKept
  <2>4. carpet' = d
    BY <1>2, <2>3 DEF CarpetBecomes
  <2>5. QED
    BY <2>3, <2>4, CutNext
<1>3. ASSUME NEW n \in Frames, NEW a1 \in Angles, NEW a2 \in Angles, NEW channels, carpet # NoPlot,
             ExportScrenshotSeriesPNG(n, channels, <<0, 0>>, <<a1, a2>>)
      PROVE  CutRight'
  <2>1. PICK angle : angle = a1 + (n - 1) * ((a2 - a1) \div n)
    OBVIOUS
  <2>2. n > 0 /\ n \in Frames \ {0}
    BY <1>3, RangesAssumption DEF ExportScrenshotSeriesPNG
  <2>3. angle \in FixedAngles
    <3>1. PICK a \in Angles \X Angles : a[1] = a1 /\ a[2] = a2
      <4>1. <<a1, a2>> \in Angles \X Angles /\ <<a1, a2>>[1] = a1 /\ <<a1, a2>>[2] = a2
        OBVIOUS
      <4>2. QED
        BY <4>1
    <3>2. angle = a[1] + (n - 1) * ((a[2] - a[1]) \div n)
      BY <2>1, <3>1
    <3>3. \E m \in Frames \ {0}, e \in Angles \X Angles :
            angle = e[1] + (m - 1) * ((e[2] - e[1]) \div m)
      BY <2>2, <3>1, <3>2, Zenon
    <3>4. QED
      BY <3>3 DEF FixedAngles
  <2>4. \/ \E b, k : BalloonBecomes(SetSelectedFrequency(b, k))
        \/ \E c \in {SetSelectedAngle(carpet, angle)} : \E i : CarpetBecomes(CarpetSetChannel(c, i))
    BY <1>3, <2>1 DEF ExportScrenshotSeriesPNG
  <2>5. QED
    BY <1>1, <1>2, <2>3, <2>4
<1>4. ASSUME balloon # NoPlot, NEW n, NEW channels, NEW frequencies,
             ExportScrenshotSeriesPNG(n, channels, frequencies, <<0, 0>>)
      PROVE  CutRight'
  <2>1. carpet = NoPlot
    BY <1>4 DEF Inv, PlotsRight
  <2>2. QED
    BY <1>1, <1>4, <2>1 DEF ExportScrenshotSeriesPNG
<1>5. QED
  BY <1>3, <1>4 DEF on_actionExport3DPlotImageSeries

LEMMA NextCut == Inv /\ CutRight /\ [Next]_vars => CutRight'
<1> SUFFICES ASSUME Inv, CutRight, [Next]_vars
             PROVE  CutRight'
  OBVIOUS
<1>1. ASSUME NEW t \in Toggles, Toggle(t)
      PROVE  CutRight'
  BY <1>1, ToggleCut
<1>2. ASSUME NEW f \in Files, ReadDAFF(f)
      PROVE  CutRight'
  BY <1>2, ReadCut
<1>3. CASE CloseDAFF
  BY <1>3 DEF CloseDAFF, CutRight
<1>4. CASE ChangeChannelIndex \/ ChangeAlphaOrBeta \/ SetCarpet
  BY <1>4, SetCut
<1>5. CASE (balloon # NoPlot /\ ChangeFrequencyIndex) \/ SetBalloon
  BY <1>5 DEF ChangeFrequencyIndex, SetBalloon, BalloonBecomes, CutRight, IsCut, MeshColumns
<1>6. CASE on_actionExport3DPlotImageSeries
  BY <1>6, ExportCut
<1>7. CASE Quit \/ Crash
  BY <1>7 DEF Quit, Crash, OpenWindow, NewScene, CutRight
<1>8. CASE UNCHANGED vars
  BY <1>8 DEF vars, CutRight, IsCut, MeshColumns
<1>9. QED
  BY <1>1, <1>2, <1>3, <1>4, <1>5, <1>6, <1>7, <1>8 DEF Next

-----------------------------------------------------------------------------
(* What a carpet shows of a ring.                                            *)

LEMMA SameAnswers ==
  ASSUME NEW h, NEW d
  PROVE  Grid!NearestNeighbour(h, d) = GridFacts!NearestNeighbour(h, d)
<1>1. \A x, n : Grid!Fmod(x, n) = GridFacts!Fmod(x, n)
  BY DEF Grid!Fmod, GridFacts!Fmod
<1>2. \A x, n : Grid!RoundQuotient(x, n) = GridFacts!RoundQuotient(x, n)
  BY DEF Grid!RoundQuotient, GridFacts!RoundQuotient
<1>3. \A x : Grid!RoundMilli(x) = GridFacts!RoundMilli(x)
  BY <1>2, Zenon DEF Grid!RoundMilli, GridFacts!RoundMilli
<1>4. Grid!NormalizeDirection(d) = GridFacts!NormalizeDirection(d)
  BY <1>1, <1>3, SameGrid, Zenon DEF Grid!NormalizeDirection, GridFacts!NormalizeDirection
<1>5. \A x, y : Grid!Distance(x, y) = GridFacts!Distance(x, y)
  BY DEF Grid!Distance, GridFacts!Distance
<1>6. \A x, y : Grid!AngleDistance(x, y) = GridFacts!AngleDistance(x, y)
  BY SameGrid, Zenon DEF Grid!AngleDistance, GridFacts!AngleDistance
<1>7. \A a : /\ Grid!AlphaWithin(h, a) <=> GridFacts!AlphaWithin(h, a)
             /\ Grid!BetaWithin(h, a) <=> GridFacts!BetaWithin(h, a)
  BY SameGrid, Zenon DEF Grid!AlphaWithin, GridFacts!AlphaWithin, Grid!BetaWithin,
                         GridFacts!BetaWithin
<1>8. \A a : Grid!AlphaIndex(h, a) = GridFacts!AlphaIndex(h, a)
  BY <1>2, <1>6, <1>7, SameGrid, Zenon DEF Grid!AlphaIndex, GridFacts!AlphaIndex
<1>9. \A a : Grid!BetaIndex(h, a) = GridFacts!BetaIndex(h, a)
  BY <1>2, <1>5, <1>7, SameGrid, Zenon DEF Grid!BetaIndex, GridFacts!BetaIndex
<1>10. \A k, i : Grid!RecordAt(h, k, i) = GridFacts!RecordAt(h, k, i)
  BY SameGrid DEF Grid!RecordAt, GridFacts!RecordAt
<1>11. QED
  BY <1>4, <1>8, <1>9, <1>10, Zenon DEF Grid!NearestNeighbour, GridFacts!NearestNeighbour

LEMMA SameRecordsOfRing ==
  ASSUME NEW h, NEW k
  PROVE  GridFacts!RecordsOfRing(h, k)
           = {Grid!RingFirst(h, k) + j : j \in 0 .. Grid!RingSize(h, k) - 1}
BY SameRings DEF GridFacts!RecordsOfRing

\* The records that a cut around the full circle shows.
CutRecords(f, h, b) ==
  {NearestRecord[f][<<GridFacts!CutAngle(h, i), b>>] : i \in 0 .. h.alphaPoints}

LEMMA CutShowsARing ==
  ASSUME RecordsAreGrids, CutsAreAnswered, NEW f \in Files, Content[f].type = "IR",
         NEW b \in FixedAngles, b \notin {0, Grid!HalfTurn}, NEW h, h = Content[f].header,
         h.alphaEnd - h.alphaStart = Grid!FullTurn
  PROVE  /\ h.alphaStart = 0 /\ h.alphaEnd = Grid!FullTurn /\ h.alphaPoints \in Int
         /\ \E k \in 0 .. h.betaPoints - 1 : CutRecords(f, h, b) = GridFacts!RecordsOfRing(h, k)
<1>1. GridFacts!GridAssumption /\ GridFacts!CoarseGrids /\ h \in {Content[g].header : g \in Files}
  BY GridIsAssumed
<1>2. GridFacts!FullTurn \in Int /\ GridFacts!FullTurn > 0
  BY <1>1, GridFacts!DegreeType DEF GridFacts!GridAssumption
<1>3. h \in [Grid!AngleFields -> Int] /\ Grid!AcceptedHeader(h)
  BY DEF RecordsAreGrids
<1>4. h.alphaStart = 0 /\ h.alphaEnd = Grid!FullTurn /\ h.alphaPoints \in Int
  BY <1>2, <1>3, SameGrid DEF Grid!AcceptedHeader, Grid!AngleFields
<1>5. GridFacts!FullCircle(h)
  BY <1>4, SameGrid DEF GridFacts!FullCircle
<1>6. b \in 0 .. GridFacts!HalfTurn /\ b \notin {0, GridFacts!HalfTurn}
  BY SameGrid DEF CutsAreAnswered
<1>7. PICK k \in 0 .. h.betaPoints - 1 :
        {GridFacts!NearestNeighbour(h, [alpha |-> GridFacts!CutAngle(h, i), beta |-> b]) :
           i \in 0 .. h.alphaPoints}
          = GridFacts!RecordsOfRing(h, k)
  BY <1>1, <1>5, <1>6, GridFacts!CutIsARing DEF GridFacts!GridAssumption
<1>8. ASSUME NEW i \in 0 .. h.alphaPoints
      PROVE  NearestRecord[f][<<GridFacts!CutAngle(h, i), b>>]
               = GridFacts!NearestNeighbour(h, [alpha |-> GridFacts!CutAngle(h, i), beta |-> b])
  <2>1. NearestRecord[f][<<GridFacts!CutAngle(h, i), b>>]
          = Grid!NearestNeighbour(h, [alpha |-> GridFacts!CutAngle(h, i), beta |-> b])
    BY DEF CutsAreAnswered, GridFacts!CutAngle
  <2>2. QED
    BY <2>1, SameAnswers
<1>9. CutRecords(f, h, b)
        = {GridFacts!NearestNeighbour(h, [alpha |-> GridFacts!CutAngle(h, i), beta |-> b]) :
             i \in 0 .. h.alphaPoints}
  BY <1>8 DEF CutRecords
<1>10. QED
  BY <1>4, <1>7, <1>9

LEMMA CarpetIsDrawn ==
  ASSUME RecordsAreGrids, CutsAreAnswered, NEW c, SoundCarpet(c), IsCut(c)
  PROVE  CarpetCovers(c)
<1>1. PICK f \in Files, p \in Nat, q \in Nat :
        f = c.file /\ Content[f].type = "IR" /\ HeaderOf(Content[f].header, p, q)
  <2>1. c.file \in Files /\ Content[c.file].type = "IR"
    BY DEF IsCut
  <2>2. QED
    BY <2>1, HeaderIs
<1> DEFINE h == Content[c.file].header
           drawn == {c.shown[i].record : i \in 0 .. c.points - 1}
<1>2. c.shown = CarpetScalars(c) /\ c.points = MeshColumns(c)
      /\ c.fixedAngle \in {"alpha", "beta"} /\ c.angle \in FixedAngles
  BY DEF SoundCarpet, IsCut
<1>3. DOMAIN c.shown = Columns(c)
      /\ \A i \in Columns(c) : c.shown[i].record = NearestRecord[f][Direction(c, i)]
  BY <1>1, <1>2 DEF CarpetScalars, ColumnOf
<1>4. 0 .. c.points - 1 \subseteq DOMAIN c.shown
  <2>1. /\ c.fixedAngle = "alpha" => MeshColumns(c) = q /\ Columns(c) = 0 .. q - 1
        /\ c.fixedAngle = "beta" => /\ MeshColumns(c) \in {p, p + 1}
                                    /\ Columns(c) = 0 .. p
    BY <1>1 DEF MeshColumns, Columns, HeaderOf
  <2>2. QED
    BY <1>2, <1>3, <2>1
<1>5. ASSUME c.fixedAngle = "beta", c.angle \notin {0, Grid!HalfTurn},
             h.alphaEnd - h.alphaStart = Grid!FullTurn
      PROVE  \E k \in 0 .. h.betaPoints - 1 : drawn = GridFacts!RecordsOfRing(h, k)
  <2>1. PICK b \in FixedAngles : b = c.angle
    BY <1>2
  <2>2. /\ h.alphaStart = 0 /\ h.alphaEnd = Grid!FullTurn /\ h.alphaPoints \in Int
        /\ \E k \in 0 .. h.betaPoints - 1 : CutRecords(f, h, b) = GridFacts!RecordsOfRing(h, k)
    BY <1>1, <1>5, <2>1, CutShowsARing
  <2>3. 0 .. c.points - 1 = 0 .. h.alphaPoints /\ Columns(c) = 0 .. h.alphaPoints
    BY <1>1, <1>2, <1>5, <2>2 DEF MeshColumns, Columns
  <2>4. ASSUME NEW i \in 0 .. h.alphaPoints
        PROVE  c.shown[i].record = NearestRecord[f][<<GridFacts!CutAngle(h, i), b>>]
    <3>1. Direction(c, i) = <<GridFacts!CutAngle(h, i), b>>
      BY <1>1, <1>5, <2>1 DEF Direction, GridFacts!CutAngle
    <3>2. QED
      BY <1>3, <2>3, <3>1
  <2>5. drawn = CutRecords(f, h, b)
    BY <2>3, <2>4 DEF CutRecords
  <2>6. QED
    BY <2>2, <2>5
<1>6. (/\ c.fixedAngle = "beta" /\ c.angle \notin {0, Grid!HalfTurn}
       /\ h.alphaEnd - h.alphaStart = Grid!FullTurn) =>
        \E k \in 0 .. h.betaPoints - 1 :
          drawn = {Grid!RingFirst(h, k) + j : j \in 0 .. Grid!RingSize(h, k) - 1}
  BY <1>5, SameRecordsOfRing
<1>7. QED
  BY <1>4, <1>6, Zenon DEF CarpetCovers

\* Every record is drawn: a balloon has each as a corner of a face, and its faces
\* close a whole sphere without a hole or an overlap; a carpet has a height for each
\* of its points and shows the records of one ring, the first one again.
THEOREM EveryRecordIsShown == ASSUME GridsAreDrawable PROVE Spec => []EveryRecordIsDrawn
<1>1. Init => SelectionRight /\ CutRight
  BY DEF Init, SelectionRight, CutRight
<1>2. Inv /\ SelectionRight /\ CutRight => EveryRecordIsDrawn
  <2>1. SUFFICES ASSUME Inv, SelectionRight, CutRight
                 PROVE  EveryRecordIsDrawn
    OBVIOUS
  <2>2. RecordsAreGrids /\ BalloonsAreSolid /\ CutsAreAnswered
    BY DEF GridsAreDrawable
  <2>3. balloon # NoPlot => BalloonCovers[balloon.file]
    BY <2>1, <2>2, BalloonIsDrawn DEF SelectionRight, IsSelection
  <2>4. carpet # NoPlot => CarpetCovers(carpet)
    BY <2>1, <2>2, OnDisplay, CarpetIsDrawn DEF CutRight
  <2>5. QED
    BY <2>3, <2>4 DEF EveryRecordIsDrawn
<1>3. QED
  BY <1>1, <1>2, Invariance, NextSelection, NextCut, PTL DEF Spec
=============================================================================
