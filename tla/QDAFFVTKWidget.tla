--------------------------- MODULE QDAFFVTKWidget ---------------------------
(***************************************************************************)
(* The 3D view of the viewer: the scene with its coordinate assistants and *)
(* one plot, the settings of the menu that it is told and keeps for the    *)
(* plots to come, and the settings file they are restored from.            *)
(***************************************************************************)
EXTENDS DAFFVizBalloonPlot, DAFFVizCarpetPlot, DAFFVizSphericalCoordinateAssistant,
        DAFFVizCartesianCoordinateAssistant

CONSTANTS
  Toggles,       \* the checkable items of the 3D plot menu
  BalloonRanges, \* the ranges, as factors, that a balloon may be given
  CarpetRanges,  \* ... and a carpet
  Angles,        \* angles of the fixed axis
  Probes,        \* directions to probe
  Frames,        \* numbers of frames of a series
  MaxChanged,    \* bound: items of the menu that differ from their default
  MaxSaved       \* ... when a window is closed

ASSUME ToggleAssumption ==
  {"LogScale", "UsePhaseColorMap", "Normalize", "NormalizeFreqsIndividually", "Warp"} \subseteq Toggles

\* Ranges are typed in as factors; a series has a number of frames.
ASSUME RangesAssumption ==
  BalloonRanges \subseteq Magnitudes \X Magnitudes /\ Frames \subseteq Nat

VARIABLES
  saved,     \* the settings file
  menu,      \* which items of the menu are checked
  widget,    \* what the widget was last told of each of them
  balloon, carpet,
  children,  \* of the root of the scene
  indicator, \* whether the direction indicator is visible
  sca, cca   \* the assistants

vars == <<saved, menu, widget, balloon, carpet, children, indicator, sca, cca>>
settings == <<saved, menu, widget>>
scene == <<children, indicator, sca, cca>>

\* A pointer to a plot that is null.
NoPlot == <<>>

\* An item that the settings file has no value for.
Defaults ==
  [t \in Toggles |-> t \in {"LogScale", "Warp", "ShowArrows", "ShowPoles", "ShowEquator"}]

Changed(m) == {t \in Toggles : m[t] # Defaults[t]}

Scaling(on) == IF on THEN "decibel" ELSE "linear"

\* What the spherical assistant is told of.
PartOf ==
  [ShowArrows |-> "ViewUpVectors", ShowPoles |-> "Poles", ShowGrid |-> "Grid",
   ShowEquator |-> "Equator", ShowMeridians |-> "Meridians"]
ShowItems == Toggles \cap DOMAIN PartOf
TellAssistant(s, t, on) == IF t \in ShowItems THEN SetPartVisible(s, PartOf[t], on) ELSE s

\* What a plot on display is told of a setting.
TellBalloon(b, t, on) ==
  CASE t = "LogScale" -> SetScaling(b, Scaling(on))
    [] t = "UsePhaseColorMap" -> SetUsePhaseAsColor(b, on)
    [] t = "Normalize" -> SetNormalize(b, on)
    [] t = "NormalizeFreqsIndividually" -> SetNormalizeFrequenciesIndividually(b, on)
    [] OTHER -> b
TellCarpet(c, t, on) ==
  CASE t = "LogScale" -> CarpetSetScaling(c, Scaling(on))
    [] t = "Warp" -> SetWarpingEnabled(c, on)
    [] OTHER -> c

Toggled(t, on) ==
  /\ balloon' = IF balloon = NoPlot THEN NoPlot ELSE TellBalloon(balloon, t, on)
  /\ carpet' = IF carpet = NoPlot THEN NoPlot ELSE TellCarpet(carpet, t, on)
  /\ sca' = TellAssistant(sca, t, on)

\* An item of the menu.
Toggle(t) ==
  /\ menu' = [menu EXCEPT ![t] = ~@]
  /\ Cardinality(Changed(menu')) <= MaxChanged
  /\ widget' = [widget EXCEPT ![t] = menu'[t]]
  /\ Toggled(t, menu'[t])
  /\ UNCHANGED <<saved, children, indicator, cca>>

-----------------------------------------------------------------------------
(* Reading and closing.                                                      *)

\* The plot that is shown gives way to one with the settings of the widget; the
\* assistant of its kind is the only one in the scene.
ShowBalloon(f) ==
  /\ \E b1 \in {SetScaling(BalloonPlot(f), Scaling(widget["LogScale"]))} :
     \E b2 \in {SetNormalize(SetUsePhaseAsColor(b1, widget["UsePhaseColorMap"]), widget["Normalize"])} :
       balloon' = SetNormalizeFrequenciesIndividually(b2, widget["NormalizeFreqsIndividually"])
  /\ carpet' = NoPlot
  /\ children' = (children \ {"carpet", "CCA"}) \cup {"balloon", "SCA"}
  /\ UNCHANGED <<indicator, sca, cca>>

\* The Cartesian assistant is set up axis by axis: azimuth, sample value and time,
\* the last up to the sampling rate divided by the length of the responses.
ConfigureX(c, h) ==
  SetResolution(SetMax(SetMin(c, "x", <<h.alphaStart, 1>>), "x", <<h.alphaEnd, 1>>),
                "x", <<h.alphaEnd - h.alphaStart, 11>>)
ConfigureY(c, peak) ==
  SetOffsetY(SetMax(SetResolution(SetMin(c, "y", <<-peak, 1>>), "y", <<1, 4>>), "y", <<peak, 1>>),
             <<0, 1>>)
ConfigureZ(c, rate) ==
  UpdateAxes(SetMax(SetResolution(SetMin(c, "z", <<0, 1>>), "z", <<10, 1>>), "z", rate))
ConfigureAssistant(c, f) ==
  ConfigureZ(ConfigureY(ConfigureX(c, Content[f].header), Content[f].max),
             <<Content[f].samplerate, Content[f].frequencies>>)

ShowCarpet(f) ==
  /\ \E c \in {CarpetSetScaling(CarpetPlot(f), Scaling(widget["LogScale"]))} :
       carpet' = SetWarpingEnabled(c, widget["Warp"])
  /\ balloon' = NoPlot
  /\ children' = (children \ {"balloon", "SCA"}) \cup {"carpet", "CCA"}
  /\ indicator' = FALSE
  /\ cca' = ConfigureAssistant(cca, f)
  /\ UNCHANGED sca
ReadDAFF(f) ==
  /\ IF Content[f].type = "IR" THEN ShowCarpet(f) ELSE ShowBalloon(f)
  /\ UNCHANGED settings

\* Closing puts the spherical assistant back, also when it is there.  (A slip:
\* the other one stays.)
CloseKeepsAssistant ==
  /\ balloon' = NoPlot /\ carpet' = NoPlot
  /\ children' = (children \ {"balloon", "carpet"}) \cup {"SCA"}
  /\ UNCHANGED <<settings, indicator, sca, cca>>
CloseDAFF ==
  /\ balloon' = NoPlot /\ carpet' = NoPlot
  /\ children' = (children \ ((IF balloon # NoPlot THEN {"balloon", "SCA"} ELSE {})
                               \cup (IF carpet # NoPlot THEN {"carpet", "CCA"} ELSE {})))
                 \cup {"SCA"}
  /\ UNCHANGED <<settings, indicator, sca, cca>>

-----------------------------------------------------------------------------
(* The selection, and what else a client may set on the plots.               *)

BalloonBecomes(b) == balloon # NoPlot /\ balloon' = b /\ UNCHANGED <<settings, carpet, scene>>
CarpetBecomes(c) == carpet # NoPlot /\ carpet' = c /\ UNCHANGED <<settings, balloon, scene>>

ChangeFrequencyIndex ==
  \E i \in Frequencies(balloon.file) : BalloonBecomes(SetSelectedFrequency(balloon, i))
ChangeChannelIndex ==
  \/ balloon # NoPlot
     /\ \E i \in Channels(balloon.file) : BalloonBecomes(SetChannel(balloon, i))
  \/ carpet # NoPlot
     /\ \E i \in Channels(carpet.file) : CarpetBecomes(CarpetSetChannel(carpet, i))
\* The angle that is fixed is the one a carpet follows.
ChangeAlphaOrBeta == \E a \in Angles : CarpetBecomes(SetSelectedAngle(carpet, a))

SetBalloon ==
  \/ \E on \in BOOLEAN : BalloonBecomes(SetUseCustomRange(balloon, on))
  \/ \E r \in BalloonRanges :
       BalloonBecomes(IF balloon.scaling = "linear" THEN SetRange(balloon, r[1], r[2])
                      ELSE SetRange(balloon, Decibel[r[1]], Decibel[r[2]]))
  \/ \E p \in Probes : BalloonBecomes(SetProbeAngles(balloon, p[1], p[2]))
SetCarpet ==
  \/ \E which \in {"alpha", "beta"} : CarpetBecomes(SetFixedAngle(carpet, which))
  \/ \E r \in CarpetRanges :
       CarpetBecomes(IF carpet.scaling = "linear" THEN CarpetSetRange(carpet, r[1], r[2])
                     ELSE CarpetSetRange(carpet, Decibel[r[1]], Decibel[r[2]]))

-----------------------------------------------------------------------------
(* A series of screenshots.                                                  *)

\* std::round of d * i / n.
Rounded(d, i, n) ==
  IF d >= 0 THEN (2 * d * i + n) \div (2 * n) ELSE -((-2 * d * i + n) \div (2 * n))

\* The index shown in the last frame; the one of frame n is not reached.
LastIndex(first, last, n) == first + Rounded(last - first, n - 1, n)

\* Frame by frame the plot is led through channels, frequencies and angles, and
\* left where it is.
ExportScrenshotSeriesPNG(n, channels, frequencies, angles) ==
  LET last(range) == LastIndex(range[1], range[2], n)
      angle == angles[1] + (n - 1) * ((angles[2] - angles[1]) \div n)
  IN  /\ n > 0
      /\ \/ /\ balloon # NoPlot
            /\ \E b \in {SetChannel(balloon, last(channels))} :
                 BalloonBecomes(SetSelectedFrequency(b, last(frequencies)))
         \/ /\ carpet # NoPlot
            /\ \E c \in {SetSelectedAngle(carpet, angle)} :
                 CarpetBecomes(CarpetSetChannel(c, last(channels)))

\* The dialog offers what the open file has.
on_actionExport3DPlotImageSeries ==
  \E n \in Frames :
    \/ balloon # NoPlot
       /\ \E c1, c2 \in Channels(balloon.file), k1, k2 \in Frequencies(balloon.file) :
            ExportScrenshotSeriesPNG(n, <<c1, c2>>, <<k1, k2>>, <<0, 0>>)
    \/ carpet # NoPlot
       /\ \E c1, c2 \in Channels(carpet.file), a1, a2 \in Angles :
            ExportScrenshotSeriesPNG(n, <<c1, c2>>, <<0, 0>>, <<a1, a2>>)

-----------------------------------------------------------------------------
(* The window comes and goes.                                                *)

\* The assistant of a new window, after the constructor told it the menu.
ToldAssistant(m) ==
  [SphericalCoordinateAssistant EXCEPT
     !.visible = {p \in @ : \A t \in ShowItems : PartOf[t] = p => m[t]}]
NewScene(m) ==
  /\ balloon' = NoPlot /\ carpet' = NoPlot /\ children' = {"SCA", "SDI"} /\ indicator' = TRUE
  /\ sca' = ToldAssistant(m) /\ cca' = CartesianCoordinateAssistant

\* The destructor writes the menu to the settings file, the constructor of the
\* next window reads it and tells the widget; after a crash it reads what the
\* window before wrote.  (A slip: the widget is not told.)
OpenUntold(settingsFile) == menu' = settingsFile /\ UNCHANGED widget /\ NewScene(settingsFile)
OpenWindow(settingsFile) ==
  menu' = settingsFile /\ widget' = settingsFile /\ NewScene(settingsFile)
Quit == Cardinality(Changed(menu)) <= MaxSaved /\ saved' = menu /\ OpenWindow(menu)
Crash == UNCHANGED saved /\ OpenWindow(saved)

Init ==
  /\ saved = Defaults /\ menu = saved /\ widget = saved
  /\ balloon = NoPlot /\ carpet = NoPlot /\ children = {"SCA", "SDI"} /\ indicator = TRUE
  /\ sca = ToldAssistant(menu) /\ cca = CartesianCoordinateAssistant

Next ==
  \/ \E t \in Toggles : Toggle(t)
  \/ \E f \in Files : ReadDAFF(f)
  \/ CloseDAFF
  \/ balloon # NoPlot /\ ChangeFrequencyIndex
  \/ ChangeChannelIndex
  \/ ChangeAlphaOrBeta
  \/ SetBalloon \/ SetCarpet
  \/ on_actionExport3DPlotImageSeries
  \/ Quit \/ Crash

Spec == Init /\ [][Next]_vars

-----------------------------------------------------------------------------
\* Whatever is toggled, read, closed or restored in whatever order: what the menu
\* shows as checked is what the widget, the plot on display and the spherical
\* assistant go by.
PlotFollowsMenu ==
  /\ widget = menu
  /\ balloon # NoPlot =>
       /\ balloon.scaling = Scaling(menu["LogScale"])
       /\ balloon.phaseAsColor = menu["UsePhaseColorMap"]
       /\ balloon.normalize = menu["Normalize"]
       /\ balloon.individually = menu["NormalizeFreqsIndividually"]
  /\ carpet # NoPlot =>
       carpet.scaling = Scaling(menu["LogScale"]) /\ carpet.warp = menu["Warp"]
  /\ \A t \in ShowItems : PartOf[t] \in sca.visible <=> menu[t]

\* The points on display are those of the present settings and selection, and the
\* label of the probe is about the present selection, in the direction that was
\* probed when it was last written.  The assistant of a carpet has its arrows where
\* the limits of the carpet's file put them, and the marks of azimuth and value;
\* those of time are left out, they may be from before.
AssistantIsCurrent(c, f) ==
  LET h == Content[f].header IN
  /\ c.arrows = c.limits
  /\ c.marks["x"] = c.limits["x"] /\ c.marks["y"] = c.limits["y"]
  /\ c.limits["x"].min = <<h.alphaStart, 1>> /\ c.limits["x"].max = <<h.alphaEnd, 1>>
  /\ c.limits["y"].min = <<-Content[f].max, 1>> /\ c.limits["y"].max = <<Content[f].max, 1>>
  /\ c.limits["z"].max = <<Content[f].samplerate, Content[f].frequencies>>
ShownIsCurrent ==
  /\ balloon # NoPlot =>
       /\ balloon.shown = Scalars(balloon)
       /\ balloon.label # <<>> => balloon.label = LabelAt(balloon, balloon.label[1])
  /\ carpet # NoPlot =>
       carpet.shown = CarpetScalars(carpet) /\ AssistantIsCurrent(cca, carpet.file)

\* A normalised or range-limited spectrum stays in the interval [0, 1], whichever
\* channel, frequency, scaling and range were selected in whichever order.  The
\* spectra are those whose normalisation looks at every record.
ScalarsInRange ==
  balloon # NoPlot =>
    LET c == Content[balloon.file]
        looked == c.type = "DFT" => c.frequencies >= Cardinality(Records(balloon.file))
    IN  (looked /\ (balloon.normalize \/ balloon.customRange)) =>
          \A r \in DOMAIN balloon.shown : balloon.shown[r] \in 0 .. Whole

Edges(face) ==
  {{face[i], face[(i % Len(face)) + 1]} : i \in 1 .. Len(face)}
BalloonCovers ==
  [f \in Files |->
     LET h == Content[f].header
         faces == Faces(h)
         whole == h.alphaStart = 0 /\ h.alphaEnd = Grid!FullTurn
                  /\ Grid!SouthPole(h) /\ Grid!NorthPole(h)
     IN  /\ Records(f) \subseteq UNION {{face[i] : i \in 1 .. Len(face)} : face \in faces}
         /\ whole => \A e \in UNION {Edges(face) : face \in faces} :
                       Cardinality({face \in faces : e \in Edges(face)}) = 2]
CarpetCovers(c) ==
  LET h == Content[c.file].header
      drawn == {c.shown[i].record : i \in 0 .. c.points - 1}
  IN  /\ 0 .. c.points - 1 \subseteq DOMAIN c.shown
      /\ (/\ c.fixedAngle = "beta" /\ c.angle \notin {0, Grid!HalfTurn}
          /\ h.alphaEnd - h.alphaStart = Grid!FullTurn) =>
            \E k \in 0 .. h.betaPoints - 1 :
              drawn = {Grid!RingFirst(h, k) + j : j \in 0 .. Grid!RingSize(h, k) - 1}
\* Every record is a point of a face of the balloon, and on a whole sphere every
\* edge belongs to two faces: there is no hole and no overlap.  Every point of a
\* carpet has a height, and one over a full circle away from the poles shows every
\* record of the ring it is about.
EveryRecordIsDrawn ==
  /\ balloon # NoPlot => BalloonCovers[balloon.file]
  /\ carpet # NoPlot => CarpetCovers(carpet)

\* The grids for which this is so: the records of a content are those of its grid,
\* with points farther apart than the precision of directions; a balloon has more
\* than one record, and on a whole sphere three columns and three rings, as with
\* fewer its faces coincide; where a carpet is cut, the reader answers the nearest
\* record.
RecordsAreGrids ==
  /\ Degree \in Nat \ {0} /\ Degree % 1000 = 0
  /\ \A f \in Files :
       LET h == Content[f].header
       IN  /\ h \in [Grid!AngleFields -> Int] /\ Grid!AcceptedHeader(h) /\ Grid!ExactGrid(h)
           /\ h.alphaPoints > 1 => Grid!AlphaResolution(h) > Degree \div 1000
           /\ h.betaPoints > 1 => Grid!BetaResolution(h) > Degree \div 1000
           /\ Content[f].records = Grid!NumRecords(h)
BalloonsAreSolid ==
  \A f \in Files :
    LET h == Content[f].header
    IN  Content[f].type # "IR" =>
          /\ h.alphaPoints > 1 \/ h.betaPoints > 1
          /\ Grid!coversFullSphere(h) => h.alphaPoints >= 3 /\ h.betaPoints >= 3
FixedAngles ==
  {0} \cup Angles
    \cup {a[1] + (n - 1) * ((a[2] - a[1]) \div n) : n \in Frames \ {0}, a \in Angles \X Angles}
CutsAreAnswered ==
  /\ FixedAngles \subseteq 0 .. Grid!HalfTurn
  /\ \A f \in Files, b \in FixedAngles \ {0, Grid!HalfTurn} :
       LET h == Content[f].header
           alpha(i) == h.alphaStart + (i * (h.alphaEnd - h.alphaStart)) \div h.alphaPoints
       IN  Content[f].type = "IR" =>
             \A i \in 0 .. h.alphaPoints :
               NearestRecord[f][<<alpha(i), b>>]
                 = Grid!NearestNeighbour(h, [alpha |-> alpha(i), beta |-> b])
GridsAreDrawable == RecordsAreGrids /\ BalloonsAreSolid /\ CutsAreAnswered

\* The scene holds the plot of the open file with the assistant of its kind, and
\* nothing that was deleted.
SceneShowsFile ==
  children = {"SDI"} \cup (IF carpet # NoPlot THEN {"carpet", "CCA"}
                           ELSE IF balloon # NoPlot THEN {"balloon", "SCA"} ELSE {"SCA"})
=============================================================================
