------------------------- MODULE QDAFFViewerWindow -------------------------
(***************************************************************************)
(* The main window of the viewer: the selection (channel, frequency,       *)
(* record and direction in both views), the Qt widgets that show it and    *)
(* the two plots that draw it.                                             *)
(*                                                                         *)
(* All calls are direct: a signal runs its slots before emit returns, and  *)
(* a spin box that changes emits valueChanged inside setValue.  The        *)
(* variable todo is the stack of what is left to run: the first element is *)
(* the next call, and a call pushes the calls it makes in front of the     *)
(* rest.  The user acts only when nothing is left to run.                  *)
(***************************************************************************)
EXTENDS Integers, Sequences, DAFFSCTransform

CONSTANTS
  Content,        \* the content of each file: header, orientation, type,
                  \* channels, frequencies (values on the frequency axis, the
                  \* reader refuses none), kHz (the indices within 10 Hz of 1 kHz)
  NoFile,
  WidgetRanges,   \* the range the form gives each spin box
  Typed,          \* what the user types into each spin box
  Increment,      \* m_dPhiThetaIncrementDeg
  StackSize,      \* bound on the calls that are left to run
  UnsetDirections \* what an unset pair of angles may hold

ASSUME SizeAssumption == StackSize \in Nat

Files == DOMAIN Content

Grid == INSTANCE DAFFGrid WITH
  Headers <- {Content[f].header : f \in Files}, Alphas <- {}, Betas <- {},
  header <- 0, asked <- 0, record <- 0, outOfBounds <- 0, quad <- 0

Spins == {"channel", "frequency", "alpha", "beta", "record", "phi", "theta"}

VARIABLES
  window,   \* the open file and the m_ members of the selection
  spin,     \* value and range of each spin box
  combo,    \* the frequency selector: number of items and current index
  outOfBoundsShown,  \* the colour of the phi and theta boxes
  plot,     \* the 2D plot
  vtk,      \* the 3D view
  todo      \* the calls left to run, the next one first

vars == <<window, spin, combo, outOfBoundsShown, plot, vtk, todo>>
views == <<plot, vtk>>
widgets == <<spin, combo, outOfBoundsShown>>

IsOpen == window.file # NoFile
file == Content[window.file]
Quiet == todo = <<>>

\* The call that runs next and what it leaves to run.
Runs(call) == todo # <<>> /\ Head(todo)[1] = call
Arg == Head(todo)[2]
\* Of a recursion without end the calls it will never come back to are forgotten.
Then(calls) ==
  LET all == calls \o Tail(todo)
  IN  todo' = IF Len(all) <= StackSize THEN all ELSE SubSeq(all, 1, StackSize)
Return == Then(<<>>)

-----------------------------------------------------------------------------
(* What the reader answers (DAFFGrid in the data view).                      *)

IsSpectrum(f) == Content[f].type # "IR"
Frequencies(f) == 0 .. Content[f].frequencies - 1
Channels(f) == 0 .. Content[f].channels - 1
Records(f) == 0 .. Grid!NumRecords(Content[f].header) - 1

NearestNeighbour(f, alpha, beta) ==
  Grid!NearestNeighbour(Content[f].header, [alpha |-> alpha, beta |-> beta])
InDataView(f, phi, theta) ==
  transformOSC2DSC(RotationConstants(Content[f].orientation), phi, theta)
OutOfBounds(f, phi, theta) ==
  Grid!OutOfBounds(Content[f].header, Grid!NormalizeDirection(InDataView(f, phi, theta)))

ASSUME ContentAssumption ==
  /\ NoFile \notin Files /\ Grid!GridAssumption
  /\ \A f \in Files :
       /\ Content[f].orientation \in [{"yaw", "pitch", "roll"} -> Int]
       /\ Content[f].channels \in Nat \ {0} /\ Content[f].frequencies \in Nat \ {0}
       /\ Content[f].kHz \subseteq Frequencies(f)
ASSUME FormAssumption ==
  /\ WidgetRanges \in [Spins -> [min : Int, max : Int]]
  /\ \A name \in Spins : WidgetRanges[name].min <= WidgetRanges[name].max
  /\ WidgetRanges["frequency"].min = 0
  /\ WidgetRanges["theta"].min <= -QuarterTurn /\ QuarterTurn <= WidgetRanges["theta"].max
  /\ Typed \in [Spins -> SUBSET Int] /\ Increment \in Int
  /\ UnsetDirections \subseteq Int \X Int

\* The answers for every file and every direction in quarter turns, which are
\* computed once.
Turns == {k * QuarterTurn : k \in -4 .. 7}
NearestRecords ==
  [f \in Files |-> [d \in Turns \X Turns |-> NearestNeighbour(f, d[1], d[2])]]
DataDirections ==
  [f \in Files |-> [d \in Turns \X Turns |-> InDataView(f, d[1], d[2])]]
Uncovered == [f \in Files |-> {d \in Turns \X Turns : OutOfBounds(f, d[1], d[2])}]

NearestInData(alpha, beta) ==
  LET d == <<alpha, beta>>
  IN  IF d \in Turns \X Turns THEN NearestRecords[window.file][d]
                              ELSE NearestNeighbour(window.file, alpha, beta)
NearestInObject(phi, theta) ==
  LET d == <<phi, theta>>
      in == IF d \in Turns \X Turns THEN DataDirections[window.file][d]
                                    ELSE InDataView(window.file, phi, theta)
  IN  NearestInData(in.alpha, in.beta)
OutOfBoundsInObject(phi, theta) ==
  LET d == <<phi, theta>>
  IN  IF d \in Turns \X Turns THEN d \in Uncovered[window.file]
                              ELSE OutOfBounds(window.file, phi, theta)

\* getRecordCoords leaves its results unset when the record is not there.
DataCoords(i) ==
  IF i \in Records(window.file) THEN {Grid!RecordCoords(file.header, i)}
  ELSE {[alpha |-> d[1], beta |-> d[2]] : d \in UnsetDirections}
ObjectCoords(i) ==
  IF i \in Records(window.file)
    THEN LET c == Grid!RecordCoords(file.header, i)
         IN  {transformDSC2OSC(RotationConstants(file.orientation), c.alpha, c.beta)}
    ELSE {[phi |-> d[1], theta |-> d[2]] : d \in UnsetDirections}

-----------------------------------------------------------------------------
(* The Qt widgets.                                                           *)

Bounded(v, s) == IF v < s.min THEN s.min ELSE IF v > s.max THEN s.max ELSE v

\* The slot each spin box is connected to.
Slot == [channel |-> "ChangeChannelIndex", frequency |-> "ChangeFrequencyIndex",
         alpha |-> "ChangeAlpha", beta |-> "ChangeBeta",
         record |-> "ChangeRecordIndex", phi |-> "ChangePhi", theta |-> "ChangeTheta"]

\* A box whose range or value is set moves its value into the range, and emits
\* valueChanged when the value is another one.
Become(name, s) ==
  /\ spin' = [spin EXCEPT ![name] = s]
  /\ Then(IF s.value = spin[name].value THEN <<>> ELSE <<<<Slot[name], s.value>>>>)
  /\ UNCHANGED <<window, combo, outOfBoundsShown, views>>

SetValue ==
  /\ Runs("setValue")
  /\ LET s == spin[Arg] v == Head(todo)[3]
     IN  Become(Arg, [s EXCEPT !.value = Bounded(v, s)])

Smaller(x, y) == IF x <= y THEN x ELSE y
Larger(x, y) == IF x <= y THEN y ELSE x

InRange(name, min, max) ==
  LET s == [value |-> 0, min |-> min, max |-> max]
  IN  Become(name, [s EXCEPT !.value = Bounded(spin[name].value, s)])

SetMinimum ==
  /\ Runs("setMinimum")
  /\ LET m == Head(todo)[3] IN InRange(Arg, m, Larger(m, spin[Arg].max))
SetMaximum ==
  /\ Runs("setMaximum")
  /\ LET m == Head(todo)[3] IN InRange(Arg, Smaller(m, spin[Arg].min), m)

\* The frequency selector emits currentIndexChanged when the index changes.
ComboBecomes(count, index) ==
  /\ combo' = [count |-> count, index |-> index]
  /\ Then(IF index = combo.index THEN <<>> ELSE <<<<"ChangeFrequencyIndex", index>>>>)
  /\ UNCHANGED <<window, spin, outOfBoundsShown, views>>

SetCurrentIndex ==
  /\ Runs("setCurrentIndex")
  /\ ComboBecomes(combo.count, IF Arg \in 0 .. combo.count - 1 THEN Arg ELSE -1)

Clear == Runs("clear") /\ ComboBecomes(0, -1)

\* The first item of an empty box becomes the current one.
AddItem ==
  /\ Runs("addItem")
  /\ ComboBecomes(combo.count + 1, IF combo.count = 0 THEN 0 ELSE combo.index)

-----------------------------------------------------------------------------
(* The slots of the plots: what they keep of the selection.                  *)

\* Only a balloon shows a frequency; a balloon and a carpet show a channel; a
\* carpet shows the records of one beta angle.
PlotSlot ==
  /\ Runs("plot")
  /\ plot' = [plot EXCEPT ![Arg] = Head(todo)[3]]
  /\ Return /\ UNCHANGED <<window, widgets, vtk>>

Kept(field) ==
  CASE field = "frequency" -> vtk.file # NoFile /\ IsSpectrum(vtk.file)
    [] field = "channel" -> vtk.file # NoFile
    [] field = "angle" -> vtk.file # NoFile /\ ~IsSpectrum(vtk.file)
    [] OTHER -> TRUE

VtkSlot ==
  /\ Runs("vtk")
  /\ vtk' = IF Kept(Arg) THEN [vtk EXCEPT ![Arg] = Head(todo)[3]] ELSE vtk
  /\ Return /\ UNCHANGED <<window, widgets, plot>>

-----------------------------------------------------------------------------
(* Frequency and channel.                                                    *)

EmitFrequency(i) ==
  << <<"vtk", "frequency", i>>, <<"setValue", "frequency", i>>,
     <<"setCurrentIndex", i>>, <<"vtk", "frequency", i>>, <<"plot", "frequency", i>> >>
EmitChannel(i) ==
  << <<"vtk", "channel", i>>, <<"setValue", "channel", i>>, <<"plot", "channel", i>> >>

\* The frequency axis is not asked whether it has the index.
ChangeFrequencyIndex ==
  /\ Runs("ChangeFrequencyIndex")
  /\ IF IsOpen /\ Arg # -1
       THEN /\ window' = [window EXCEPT !.frequency = Arg]
            /\ Then(EmitFrequency(Arg))
       ELSE Return /\ UNCHANGED window
  /\ UNCHANGED <<widgets, views>>

ChangeChannelIndex ==
  /\ Runs("ChangeChannelIndex")
  /\ IF IsOpen /\ Arg \in Channels(window.file)
       THEN /\ window' = [window EXCEPT !.channel = Arg]
            /\ Then(EmitChannel(Arg))
       ELSE Return /\ UNCHANGED window
  /\ UNCHANGED <<widgets, views>>

-----------------------------------------------------------------------------
(* Record and direction.                                                     *)

\* A slip: the direction in the object view is never looked at.
ChangeRecordKeepsDirection ==
  /\ Runs("ChangeRecordIndex")
  /\ IF Arg = window.record THEN Return /\ UNCHANGED window
     ELSE /\ window' = [window EXCEPT !.record = Arg]
          /\ IF IsOpen
               THEN \E c \in DataCoords(Arg) :
                      Then(<< <<"ChangeAlphaAndBeta", c.alpha, c.beta>>,
                              <<"EmitRecord">> >>)
               ELSE Then(<< <<"EmitRecord">> >>)
  /\ UNCHANGED <<widgets, views>>
\* (A slip: the record that is selected already is selected again.)
ChangeRecordAgain ==
  /\ Runs("ChangeRecordIndex")
  /\ window' = [window EXCEPT !.record = Arg]
  /\ IF IsOpen
       THEN \E c \in DataCoords(Arg) :
              Then(<< <<"ChangeAlphaAndBeta", c.alpha, c.beta>>,
                      <<"FollowInObjectView">>, <<"EmitRecord">> >>)
       ELSE Then(<< <<"EmitRecord">> >>)
  /\ UNCHANGED <<widgets, views>>
ChangeRecordIndex ==
  /\ Runs("ChangeRecordIndex")
  /\ IF Arg = window.record THEN Return /\ UNCHANGED window
     ELSE /\ window' = [window EXCEPT !.record = Arg]
          /\ IF IsOpen
               THEN \E c \in DataCoords(Arg) :
                      Then(<< <<"ChangeAlphaAndBeta", c.alpha, c.beta>>,
                              <<"FollowInObjectView">>, <<"EmitRecord">> >>)
               ELSE Then(<< <<"EmitRecord">> >>)
  /\ UNCHANGED <<widgets, views>>

\* The rest of ChangeRecordIndex: unless the direction in the object view
\* already leads to the record, it becomes that of the record.
FollowInObjectView ==
  /\ Runs("FollowInObjectView")
  /\ IF NearestInObject(window.phi, window.theta) = window.record THEN Return
     ELSE \E c \in ObjectCoords(window.record) :
            Then(<< <<"ChangePhiAndTheta", c.phi, c.theta>> >>)
  /\ UNCHANGED <<window, widgets, views>>

EmitRecord ==
  /\ Runs("EmitRecord")
  /\ Then(<< <<"setValue", "record", window.record>>,
             <<"plot", "record", window.record>> >>)
  /\ UNCHANGED <<window, widgets, views>>

EmitAlpha ==
  /\ Runs("EmitAlpha")
  /\ Then(<< <<"setValue", "alpha", window.alpha>> >>)
  /\ UNCHANGED <<window, widgets, views>>
EmitBeta ==
  /\ Runs("EmitBeta")
  /\ Then(<< <<"setValue", "beta", window.beta>>, <<"vtk", "angle", window.beta>> >>)
  /\ UNCHANGED <<window, widgets, views>>
EmitPhi ==
  /\ Runs("EmitPhi")
  /\ Then(<< <<"setValue", "phi", window.phi>>, <<"vtk", "phi", window.phi>> >>)
  /\ UNCHANGED <<window, widgets, views>>
EmitTheta ==
  /\ Runs("EmitTheta")
  /\ Then(<< <<"setValue", "theta", window.theta>>, <<"vtk", "theta", window.theta>> >>)
  /\ UNCHANGED <<window, widgets, views>>

\* The data view: the angles are folded, beta to less than 180 degrees, and the
\* nearest record is selected.
DataView(alpha, beta, signals) ==
  /\ window' = [window EXCEPT !.alpha = alpha, !.beta = beta]
  /\ Then((IF IsOpen THEN << <<"ChangeRecordIndex", NearestInData(alpha, beta)>> >>
           ELSE <<>>) \o signals)
  /\ UNCHANGED <<widgets, views>>

FoldAlpha(a) == Grid!Fmod(a, Grid!FullTurn)
FoldBeta(b) == Grid!Fmod(b, Grid!HalfTurn)

ChangeAlpha ==
  Runs("ChangeAlpha") /\ DataView(FoldAlpha(Arg), window.beta, << <<"EmitAlpha">> >>)
ChangeBeta ==
  Runs("ChangeBeta") /\ DataView(window.alpha, FoldBeta(Arg), << <<"EmitBeta">> >>)
ChangeAlphaAndBeta ==
  /\ Runs("ChangeAlphaAndBeta")
  /\ DataView(FoldAlpha(Arg), FoldBeta(Head(todo)[3]), << <<"EmitAlpha">>, <<"EmitBeta">> >>)

\* The object view: the nearest record is selected, and whether the direction
\* was covered is shown when that is done.
ObjectView(phi, theta, before, after) ==
  /\ window' = [window EXCEPT !.phi = phi, !.theta = theta]
  /\ Then(before
          \o (IF IsOpen
                THEN << <<"ChangeRecordIndex", NearestInObject(phi, theta)>>,
                        <<"SetIndicator", OutOfBoundsInObject(phi, theta)>> >>
                ELSE <<>>)
          \o after)
  /\ UNCHANGED <<widgets, views>>

\* ChangePhi tells the widgets first, the others last.
ChangePhi ==
  /\ Runs("ChangePhi")
  /\ ObjectView(Arg, window.theta,
       << <<"setValue", "phi", Arg>>, <<"vtk", "phi", Arg>> >>, <<>>)
\* (A slip: told first as well.)
ChangeThetaTellsFirst ==
  /\ Runs("ChangeTheta")
  /\ ObjectView(window.phi, Arg,
       << <<"setValue", "theta", Arg>>, <<"vtk", "theta", Arg>> >>, <<>>)
ChangeTheta ==
  Runs("ChangeTheta") /\ ObjectView(window.phi, Arg, <<>>, << <<"EmitTheta">> >>)
ChangePhiAndTheta ==
  /\ Runs("ChangePhiAndTheta")
  /\ ObjectView(Arg, Head(todo)[3], <<>>, << <<"EmitPhi">>, <<"EmitTheta">> >>)

SetIndicator ==
  /\ Runs("SetIndicator")
  /\ outOfBoundsShown' = Arg
  /\ Return /\ UNCHANGED <<window, spin, combo, views>>

-----------------------------------------------------------------------------
(* Opening and closing.                                                      *)

NoPlot == [vtk EXCEPT !.file = NoFile, !.channel = 0, !.frequency = 0, !.angle = 0]

\* The widgets are given the new content: the 2D plot and the new balloon or
\* carpet start with record, channel and frequency 0.  (A slip: the 2D plot
\* keeps the selection of the file before.)
ReadKeepsPlotSelection(f) ==
  /\ plot' = [plot EXCEPT !.file = f]
  /\ vtk' = [NoPlot EXCEPT !.file = f]
ReadDAFF(f) ==
  /\ plot' = [file |-> f, record |-> 0, frequency |-> 0, channel |-> 0]
  /\ vtk' = [NoPlot EXCEPT !.file = f]

CloseDAFF ==
  /\ plot' = [plot EXCEPT !.file = NoFile]
  /\ vtk' = NoPlot

\* A file that cannot be read leaves the window without a file.
OpenDAFFFile ==
  /\ Runs("OpenDAFFFile")
  /\ IF Arg = NoFile
       THEN /\ window' = [window EXCEPT !.file = NoFile]
            /\ Return /\ (IF IsOpen THEN CloseDAFF ELSE UNCHANGED views)
       ELSE /\ window' = [window EXCEPT !.file = Arg]
            /\ Then(<< <<"LoadContent">> >>) /\ ReadDAFF(Arg)
  /\ UNCHANGED widgets

on_actionClose ==
  /\ Quiet
  /\ window' = [window EXCEPT !.file = NoFile]
  /\ CloseDAFF
  /\ UNCHANGED <<widgets, todo>>

\* One item per value of the frequency axis; 1 kHz is chosen on the way.
FillSelector ==
  /\ Runs("FillSelector")
  /\ Then(IF Arg \in Frequencies(window.file)
            THEN << <<"addItem">> >>
                 \o (IF Arg \in file.kHz THEN << <<"setCurrentIndex", Arg>> >> ELSE <<>>)
                 \o << <<"FillSelector", Arg + 1>> >>
            ELSE <<>>)
  /\ UNCHANGED <<window, widgets, views>>

\* The box of an impulse response keeps the range of the last spectrum.
LoadContent ==
  /\ Runs("LoadContent")
  /\ LET h == file.header
     IN  Then(
           << <<"setMaximum", "channel", file.channels - 1>>,
              <<"setValue", "channel", 0>>,
              <<"setMinimum", "alpha", h.alphaStart>>, <<"setMaximum", "alpha", h.alphaEnd>>,
              <<"setMinimum", "beta", h.betaStart>>, <<"setMaximum", "beta", h.betaEnd>> >>
           \o (IF IsSpectrum(window.file)
                 THEN << <<"setMaximum", "frequency", file.frequencies - 1>>,
                         <<"clear">>, <<"FillSelector", 0>> >>
                 ELSE << <<"clear">>, <<"FillSelector", 0>>, <<"setCurrentIndex", 0>> >>)
           \o << <<"ChangePhiAndTheta", 0, 0>> >>)
  /\ UNCHANGED <<window, widgets, views>>

-----------------------------------------------------------------------------
(* The menu and the keys.                                                    *)

Menu(call) == Quiet /\ todo' = call /\ UNCHANGED <<widgets, views>>

IncreaseFrequencyIndex ==
  /\ IsOpen /\ IsSpectrum(window.file) /\ window.frequency < file.frequencies - 1
  /\ window' = [window EXCEPT !.frequency = @ + 1]
  /\ Menu(EmitFrequency(window.frequency + 1))
DecreaseFrequencyIndex ==
  /\ IsOpen /\ window.frequency > 0
  /\ window' = [window EXCEPT !.frequency = @ - 1]
  /\ Menu(EmitFrequency(window.frequency - 1))

IncreaseChannelIndex ==
  /\ IsOpen /\ window.channel < file.channels - 1
  /\ window' = [window EXCEPT !.channel = @ + 1]
  /\ Menu(EmitChannel(window.channel + 1))
DecreaseChannelIndex ==
  /\ IsOpen /\ window.channel > 0
  /\ window' = [window EXCEPT !.channel = @ - 1]
  /\ Menu(EmitChannel(window.channel - 1))

\* Below 0 both angles go up by 180 degrees, and beta goes down in steps of the
\* resolution of alpha.
IncreaseAlpha ==
  /\ IsOpen /\ UNCHANGED window
  /\ Menu(<< <<"ChangeAlpha", window.alpha
                + Grid!Fmod(Grid!AlphaResolution(file.header), Grid!FullTurn)>> >>)
IncreaseBeta ==
  /\ IsOpen /\ UNCHANGED window
  /\ Menu(<< <<"ChangeBeta", window.beta
                + Grid!Fmod(Grid!BetaResolution(file.header), Grid!HalfTurn)>> >>)
Down(angle) ==
  LET a == angle - Grid!AlphaResolution(file.header)
  IN  IF a < 0 THEN a + Grid!HalfTurn ELSE a
DecreaseAlpha ==
  IsOpen /\ UNCHANGED window /\ Menu(<< <<"ChangeAlpha", Down(window.alpha)>> >>)
DecreaseBeta ==
  IsOpen /\ UNCHANGED window /\ Menu(<< <<"ChangeBeta", Down(window.beta)>> >>)

\* The keys may go on for ever; the model stops at the range of the boxes.
WithinBox(name, v) == WidgetRanges[name].min <= v /\ v <= WidgetRanges[name].max

StepPhi ==
  \E d \in {Increment, -Increment} :
    /\ WithinBox("phi", window.phi + d)
    /\ Menu(<< <<"ChangePhi", window.phi + d>> >>) /\ UNCHANGED window
StepTheta ==
  \E d \in {Increment, -Increment} :
    /\ WithinBox("theta", window.theta + d)
    /\ Menu(<< <<"ChangeTheta", window.theta + d>> >>) /\ UNCHANGED window

\* The user types into a box or picks an item, also while no file is open.
UserTypes ==
  /\ \E name \in Spins : \E v \in Typed[name] : Menu(<< <<"setValue", name, v>> >>)
  /\ UNCHANGED window
UserPicks ==
  /\ \E i \in 0 .. combo.count - 1 : Menu(<< <<"setCurrentIndex", i>> >>)
  /\ UNCHANGED window

\* Of an unreadable file only the error is known.
on_actionOpen ==
  \E f \in Files \cup {NoFile} :
    Menu(<< <<"OpenDAFFFile", f>> >>) /\ UNCHANGED window

-----------------------------------------------------------------------------
\* The constructor does not set the record index.
CONSTANT UnsetRecords
ASSUME UnsetAssumption == UnsetRecords \subseteq Int
ShowFront == << <<"ChangePhiAndTheta", 0, 0>> >>
Init ==
  /\ window \in [file : {NoFile}, channel : {0}, frequency : {0},
                 record : UnsetRecords, alpha : {0}, beta : {QuarterTurn},
                 phi : {0}, theta : {0}]
  /\ spin = [name \in Spins |-> [value |-> Bounded(0, WidgetRanges[name]),
                                 min |-> WidgetRanges[name].min,
                                 max |-> WidgetRanges[name].max]]
  /\ combo = [count |-> 0, index |-> -1]
  /\ outOfBoundsShown = FALSE
  /\ plot = [file |-> NoFile, record |-> 0, frequency |-> 0, channel |-> 0]
  /\ vtk = [file |-> NoFile, channel |-> 0, frequency |-> 0, angle |-> 0,
            phi |-> 0, theta |-> 0]
  /\ todo \in {ShowFront} \cup {<< <<"OpenDAFFFile", f>> >> \o ShowFront : f \in Files}

Call ==
  \/ SetValue \/ SetMinimum \/ SetMaximum \/ SetCurrentIndex \/ Clear \/ AddItem
  \/ PlotSlot \/ VtkSlot
  \/ ChangeFrequencyIndex \/ ChangeChannelIndex \/ ChangeRecordIndex
  \/ FollowInObjectView \/ EmitRecord \/ EmitAlpha \/ EmitBeta \/ EmitPhi \/ EmitTheta
  \/ ChangeAlpha \/ ChangeBeta \/ ChangeAlphaAndBeta
  \/ ChangePhi \/ ChangeTheta \/ ChangePhiAndTheta \/ SetIndicator
  \/ OpenDAFFFile \/ LoadContent \/ FillSelector

User ==
  \/ IncreaseFrequencyIndex \/ DecreaseFrequencyIndex
  \/ IncreaseChannelIndex \/ DecreaseChannelIndex
  \/ IncreaseAlpha \/ DecreaseAlpha \/ IncreaseBeta \/ DecreaseBeta
  \/ StepPhi \/ StepTheta \/ UserTypes \/ UserPicks
  \/ on_actionOpen \/ on_actionClose

Next == Call \/ User
Spec == Init /\ [][Next]_vars /\ WF_vars(Call)

-----------------------------------------------------------------------------
\* Every call of the user comes to an end: the window, its boxes and its plots
\* tell each other of each change, and no chain of these signals goes round for
\* ever.
EveryEventReturns == ~Quiet ~> Quiet

\* The stack is large enough: no call is forgotten.
NeverCut == Len(todo) < StackSize

\* When all calls have returned, the selected record is the one nearest to the
\* direction that the phi and theta boxes show, whichever of the boxes moved
\* the selection.
RecordIsNearest ==
  Quiet /\ IsOpen => window.record = NearestInObject(window.phi, window.theta)

\* When all calls have returned, boxes, selector and plots show the selection of
\* the window, as far as a box can show it.  Not the angles of the data view that a
\* file has no range for: the window keeps them, and a box is not told again when
\* its range changes.  The beta box begins at 0 and the window at 90 degrees, and
\* the record index begins unset: they agree from the first time they are told.
Shows(name, v) == spin[name].value = Bounded(v, spin[name])
Untold(name) == spin[name].value = Bounded(0, WidgetRanges[name])
InEveryRange(name, v) ==
  /\ WithinBox(name, v)
  /\ \A f \in Files : LET h == Content[f].header IN
       IF name = "alpha" THEN h.alphaStart <= v /\ v <= h.alphaEnd
                         ELSE h.betaStart <= v /\ v <= h.betaEnd
SelectionsAgree ==
  Quiet /\ IsOpen =>
    /\ Shows("record", window.record) \/ (window.record \in UnsetRecords /\ Untold("record"))
    /\ InEveryRange("alpha", window.alpha) => Shows("alpha", window.alpha)
    /\ InEveryRange("beta", window.beta) =>
         Shows("beta", window.beta) \/ (window.beta = QuarterTurn /\ Untold("beta"))
    /\ Shows("phi", window.phi) /\ Shows("theta", window.theta)
    /\ vtk.theta = window.theta
    /\ window.frequency < combo.count => combo.index = window.frequency
    /\ Shows("frequency", window.frequency) /\ plot.frequency = window.frequency
    /\ IsSpectrum(window.file) => vtk.frequency = window.frequency

\* At every moment, also in the middle of opening a file with fewer frequencies
\* or records, the plots draw a frequency and a record that their file has.
ViewsIndexTheirFile ==
  /\ vtk.file # NoFile /\ IsSpectrum(vtk.file) => vtk.frequency \in Frequencies(vtk.file)
  /\ plot.file # NoFile => plot.record \in Records(plot.file)

\* The plots draw a channel that their file has: what the reader asserts of every
\* request.
ChannelIsServed ==
  /\ vtk.file # NoFile => vtk.channel \in Channels(vtk.file)
  /\ plot.file # NoFile => plot.channel \in Channels(plot.file)
=============================================================================
