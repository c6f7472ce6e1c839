------------------------ MODULE QDAFFViewerInvariant ------------------------
(***************************************************************************)
(* The invariant of the viewer window: what the calls that are left to run *)
(* will still do, so that in the end record, boxes, selector and plots     *)
(* agree, and what each call does, in the words the invariant needs.       *)
(*                                                                         *)
(* It has five parts: Following is about the record, VInv about what the   *)
(* plots draw, BoxPart about the boxes, ThetaPart about the angle that     *)
(* nobody sends again, FrequencyPart about the selector.                   *)
(***************************************************************************)
EXTENDS QDAFFViewerWindow

-----------------------------------------------------------------------------
(* The calls left to run, as a sequence of any elements.                   *)

IsSeq(s) == \E S : s \in Seq(S)
Pending(s) == {s[i] : i \in 1 .. Len(s)}

-----------------------------------------------------------------------------
(* The record nearest to the direction in the object view.                 *)

Nearest == NearestInObject(window.phi, window.theta)

\* The calls that make the record the nearest one, whatever it was before.
Mends(c) ==
  \/ c[1] \in {"FollowInObjectView", "ChangePhi", "ChangeTheta", "ChangePhiAndTheta",
               "LoadContent", "OpenDAFFFile"}
  \/ c = <<"ChangeRecordIndex", Nearest>>

Following ==
  IsOpen => window.record = Nearest \/ \E c \in Pending(todo) : Mends(c)

Members == {"file", "channel", "frequency", "record", "alpha", "beta", "phi", "theta"}
IsWindow == DOMAIN window = Members

IInv == IsSeq(todo) /\ IsWindow /\ Following

Menders == {"FollowInObjectView", "ChangePhi", "ChangeTheta", "ChangePhiAndTheta",
            "LoadContent", "OpenDAFFFile", "ChangeRecordIndex"}

-----------------------------------------------------------------------------
(* What the plots draw.                                                    *)

\* What a theorem about the plots assumes of the files: the reader answers each
\* direction with a record of the file.  (DAFFGridProofs: it does so unless the
\* grid goes round the full circle and ends before the north pole.)
AnswersAreRecords ==
  \A f \in Files : \A alpha, beta \in Int : NearestNeighbour(f, alpha, beta) \in Records(f)

IsSpectral == IsOpen /\ IsSpectrum(window.file)
LastFrequency == file.frequencies - 1

\* The order of the calls that open a file: a call that begins to open and one
\* that adds an item run as soon as they are called, and the range of the box is
\* set before the selector is cleared and filled.
Begins(c) == c[1] \in {"OpenDAFFFile", "LoadContent"}
IsFirst(c) == Begins(c) \/ c[1] = "addItem"
SetsRange(c) == c[1] = "setMaximum" /\ c[2] = "frequency"
Rank(c) ==
  IF SetsRange(c) THEN 1 ELSE IF c[1] = "clear" THEN 2
  ELSE IF c[1] = "FillSelector" THEN 3 ELSE 0
Before(c, d) ==
  /\ ~IsFirst(d)
  /\ Begins(c) => d[1] = "ChangePhiAndTheta"
  /\ Rank(d) = 0 \/ Rank(c) < Rank(d)
Ordered(s) == \A i, j \in 1 .. Len(s) : i < j => Before(s[i], s[j])

\* The calls have arguments of their kind.
TypedCall(c) ==
  /\ c[1] = "OpenDAFFFile" => c[2] \in Files \cup {NoFile}
  /\ c[1] \in {"LoadContent", "FollowInObjectView"} => IsOpen
  /\ c[1] \in {"setValue", "setMinimum", "setMaximum"} => c[2] \in Spins /\ c[3] \in Int
  /\ c[1] = "setMinimum" => c[2] # "frequency"
  /\ SetsRange(c) => c[3] >= 0
  /\ c[1] \in {"ChangeAlpha", "ChangeBeta", "ChangePhi", "ChangeTheta",
              "ChangeRecordIndex", "ChangeFrequencyIndex", "setCurrentIndex"} => c[2] \in Int
  /\ c[1] \in {"ChangePhiAndTheta", "ChangeAlphaAndBeta"} => c[2] \in Int /\ c[3] \in Int
  /\ c[1] \in {"plot", "vtk"} => c[2] # "file"
  /\ c[1] = "FillSelector" => c[2] \in Nat

Types ==
  /\ DOMAIN window = Members /\ window.file \in Files \cup {NoFile}
  /\ \A m \in Members \ {"file"} : window[m] \in Int
  /\ spin \in [Spins -> [value : Int, min : Int, max : Int]]
  /\ spin["frequency"].min = 0
  /\ DOMAIN plot = {"file", "record", "frequency", "channel"} /\ plot.file = window.file
  /\ DOMAIN vtk = {"file", "channel", "frequency", "angle", "phi", "theta"}
  /\ vtk.file = window.file

\* Of an open file: what is told to the plots is a record and a frequency of it.
HasRecord(c) == c[1] = "plot" /\ c[2] = "record" => c[3] \in Records(window.file)
HasFrequency(c) ==
  /\ c[1] = "vtk" /\ c[2] = "frequency" => c[3] \in Frequencies(window.file)
  /\ c[1] = "setCurrentIndex" => c[2] \in Frequencies(window.file)
  /\ c[1] = "ChangeFrequencyIndex" => c[2] \in Frequencies(window.file) \cup {-1}
  /\ SetsRange(c) => c[3] = LastFrequency

\* The record may be that of the file before, or one that was typed: then the
\* direction that is looked up next leads to another one, or nobody is told.
Corrects(c) ==
  \/ c[1] = "ChangeAlphaAndBeta"
  \/ c[1] = "ChangeRecordIndex" /\ c[2] \in Records(window.file)
IsNext(name) == todo # <<>> /\ Head(todo)[1] = name
Waits(name) == \E c \in Pending(todo) : c[1] = name
RecordIsServed ==
  /\ plot.record \in Records(window.file)
  /\ \A c \in Pending(todo) : HasRecord(c)
  /\ \/ window.record \in Records(window.file)
     \/ todo # <<>> /\ Corrects(Head(todo))
     \/ ~Waits("EmitRecord")

\* Until the range of the box is set nobody moves the box or the selector.
BoxIsSet == spin["frequency"].max = LastFrequency
UsesBox(c) ==
  \/ c[1] \in {"setCurrentIndex", "ChangeFrequencyIndex", "addItem"}
  \/ c[1] = "setValue" /\ c[2] = "frequency"
Box ==
  /\ IsNext("LoadContent") \/ (\E c \in Pending(todo) : SetsRange(c)) \/ BoxIsSet
  /\ \A c \in Pending(todo) : UsesBox(c) => BoxIsSet

\* The selector is cleared, and then has no more items than were filled in.
Filled(n) ==
  /\ n \in Nat /\ n <= file.frequencies
  /\ Waits("addItem") => n < file.frequencies
  /\ \A c \in Pending(todo) : c[1] = "FillSelector" =>
       n <= c[2] /\ (Waits("addItem") => n < c[2])
Selector ==
  \/ IsNext("LoadContent")
  \/ Waits("clear") /\ <<"FillSelector", 0>> \in Pending(todo)
  \/ ~Waits("clear") /\ Filled(combo.count)

\* The first item moves the frequency into the range of the file.
Chosen ==
  \/ IsNext("LoadContent") \/ Waits("clear")
  \/ /\ combo = [count |-> 0, index |-> -1]
     /\ <<"FillSelector", 0>> \in Pending(todo) \/ Waits("addItem")
  \/ \E c \in Pending(todo) :
       c[1] = "ChangeFrequencyIndex" /\ c[2] \in Frequencies(window.file)
  \/ window.frequency \in Frequencies(window.file)

FrequencyIsServed ==
  /\ vtk.frequency \in Frequencies(window.file)
  /\ \A c \in Pending(todo) : HasFrequency(c)
  /\ Box /\ Selector /\ Chosen

Calls == \A c \in Pending(todo) : TypedCall(c)
VInv ==
  /\ IsSeq(todo) /\ Types /\ Calls /\ Ordered(todo)
  /\ IsOpen => RecordIsServed
  /\ IsSpectral => FrequencyIsServed

Served(c) ==
  TypedCall(c) /\ (IsOpen => HasRecord(c)) /\ (IsSpectral => HasFrequency(c))

\* A step that stays with the file.
Keeps(calls) ==
  /\ VInv /\ todo # <<>> /\ NeverCut' /\ IsSeq(calls) /\ Then(calls)
  /\ Types' /\ window'.file = window.file
  /\ \A c \in Pending(calls) : Served(c)

\* What may be called at any time.
IsFine(c) ==
  /\ Served(c) /\ ~IsFirst(c) /\ Rank(c) = 0
  /\ IsSpectral => (UsesBox(c) => BoxIsSet)

\* A step that makes such calls and leaves the range of the box alone.
Stays(calls) ==
  /\ Keeps(calls) /\ \A c \in Pending(calls) : IsFine(c)
  /\ spin'["frequency"].max = spin["frequency"].max

-----------------------------------------------------------------------------
(* The boxes.                                                              *)

\* The call that tells a box of a selection, the other widgets included.
Teller == [record |-> "EmitRecord", alpha |-> "EmitAlpha", beta |-> "EmitBeta",
           phi |-> "EmitPhi", theta |-> "EmitTheta"]
Selections == {"record", "alpha", "beta", "phi", "theta"}
Angles == {"alpha", "beta"}

\* What SelectionsAgree asks of these boxes.
Agrees(name) ==
  \/ Shows(name, window[name])
  \/ name = "record" /\ window.record \in UnsetRecords /\ Untold(name)
  \/ name = "beta" /\ window.beta = QuarterTurn /\ Untold(name)
  \/ name \in Angles /\ ~InEveryRange(name, window[name])

\* A box that does not agree is told next, or tells the window, or its teller waits.
TellsBox(c, name) ==
  \/ c[1] = "setValue" /\ c[2] = name /\ c[3] = window[name]
  \/ c[1] = Slot[name] /\ c[2] = spin[name].value
BoxIsTold(name) ==
  \/ Agrees(name) \/ Waits(Teller[name])
  \/ todo # <<>> /\ TellsBox(Head(todo), name)

\* A file gives only the angles of the data view another range.
Bounds(c) ==
  c[1] \in {"setMinimum", "setMaximum"} =>
    /\ c[2] \notin Selections \ Angles
    /\ c[2] \in Angles => \A v \in Int : InEveryRange(c[2], v) =>
         IF c[1] = "setMinimum" THEN c[3] <= v ELSE v <= c[3]
InBounds(name) == spin[name].min <= spin[name].value /\ spin[name].value <= spin[name].max
Ranges ==
  /\ \A name \in Spins : InBounds(name)
  /\ \A name \in Selections \ Angles :
       spin[name].min = WidgetRanges[name].min /\ spin[name].max = WidgetRanges[name].max
  /\ \A name \in Angles : \A v \in Int : InEveryRange(name, v) =>
       spin[name].min <= v /\ v <= spin[name].max
  /\ \A c \in Pending(todo) : Bounds(c)

BoxesAreTold == \A name \in Selections : BoxIsTold(name)
BoxPart == Ranges /\ BoxesAreTold

-----------------------------------------------------------------------------
(* What each call does, and the calls that it leaves to run.               *)

\* What a call to a box does to it.
BoxBecomes(name, s) ==
  /\ todo # <<>> /\ Head(todo)[2] = name /\ UNCHANGED <<window, combo, plot, vtk>>
  /\ spin'[name] = s /\ \A other \in Spins \ {name} : spin'[other] = spin[other]
  /\ todo' = (IF s.value = spin[name].value THEN <<>> ELSE << <<Slot[name], s.value>> >>)
             \o Tail(todo)
BoxCall(name, s) ==
  LET h == Head(todo) old == spin[name]
  IN  \/ /\ h[1] = "setValue" /\ s.min = old.min /\ s.max = old.max
         /\ s.value = Bounded(h[3], old)
      \/ /\ h[1] = "setMinimum" /\ s.min = h[3] /\ s.max = Larger(h[3], old.max)
         /\ s.value = Bounded(old.value, s)
      \/ /\ h[1] = "setMaximum" /\ s.min = Smaller(h[3], old.min) /\ s.max = h[3]
         /\ s.value = Bounded(old.value, s)

\* What the other calls do, and the calls that they leave to run.
Leaves(calls) == todo # <<>> /\ IsSeq(calls) /\ todo' = calls \o Tail(todo)
Named(calls, names) == \A c \in Pending(calls) : c[1] \in names

DataViewCall(calls) ==
  /\ UNCHANGED <<spin, combo, plot, vtk>> /\ DOMAIN window' = Members
  /\ \A m \in Members \ Angles : window'[m] = window[m]
  /\ Named(calls, {"ChangeRecordIndex", "EmitAlpha", "EmitBeta"})
  /\ \/ /\ Head(todo)[1] = "ChangeAlpha" /\ window'.beta = window.beta
        /\ <<"EmitAlpha">> \in Pending(calls)
     \/ /\ Head(todo)[1] = "ChangeBeta" /\ window'.alpha = window.alpha
        /\ <<"EmitBeta">> \in Pending(calls)
     \/ /\ Head(todo)[1] = "ChangeAlphaAndBeta"
        /\ <<"EmitAlpha">> \in Pending(calls) /\ <<"EmitBeta">> \in Pending(calls)

RecordCall(calls) ==
  /\ UNCHANGED <<spin, combo, plot, vtk>> /\ DOMAIN window' = Members
  /\ Head(todo)[1] = "ChangeRecordIndex"
  /\ \A m \in Members \ {"record"} : window'[m] = window[m]
  /\ \/ Head(todo)[2] = window.record /\ window' = window /\ calls = <<>>
     \/ /\ window'.record = Head(todo)[2] /\ window'.record # window.record
        /\ \/ IsOpen /\ \E a : /\ a[1] = "ChangeAlphaAndBeta"
                               /\ calls = <<a, <<"FollowInObjectView">>, <<"EmitRecord">> >>
           \/ ~IsOpen /\ calls = << <<"EmitRecord">> >>

FollowCall(calls) ==
  /\ UNCHANGED <<window, spin, combo, plot, vtk>> /\ IsOpen
  /\ Head(todo)[1] = "FollowInObjectView"
  /\ \/ window.record = Nearest /\ calls = <<>>
     \/ \E d \in ObjectCoords(window.record) :
          calls = << <<"ChangePhiAndTheta", d.phi, d.theta>> >>

\* A teller tells the box and then the others.
TellCall(name, calls) ==
  /\ UNCHANGED <<window, spin, combo, plot, vtk>> /\ Head(todo)[1] = Teller[name]
  /\ \E box, other :
       /\ box = <<"setValue", name, window[name]>>
       /\ \/ name = "alpha" /\ calls = <<box>>
          \/ name # "alpha" /\ calls = <<box, other>>
       /\ \/ name = "record" /\ other = <<"plot", "record", window.record>>
          \/ name = "beta" /\ other = <<"vtk", "angle", window.beta>>
          \/ name \in {"phi", "theta"} /\ other = <<"vtk", name, window[name]>>
          \/ name = "alpha"

\* The object view asks for the record that is nearest to its new direction.
Asks(calls, first, last) ==
  \E middle :
    /\ calls = (first \o middle) \o last
    /\ \/ ~IsOpen /\ middle = <<>>
       \/ IsOpen /\ \E ask, tell : /\ ask = <<"ChangeRecordIndex", Nearest'>>
                                   /\ tell[1] = "SetIndicator" /\ middle = <<ask, tell>>
ObjectViewCall(calls) ==
  /\ UNCHANGED <<spin, combo, plot, vtk>> /\ DOMAIN window' = Members
  /\ \A m \in Members \ {"phi", "theta"} : window'[m] = window[m]
  /\ \/ /\ Head(todo)[1] = "ChangePhi"
        /\ window'.phi = Head(todo)[2] /\ window'.theta = window.theta
        /\ Asks(calls, << <<"setValue", "phi", window'.phi>>,
                          <<"vtk", "phi", window'.phi>> >>, <<>>)
     \/ /\ Head(todo)[1] = "ChangeTheta"
        /\ window'.phi = window.phi /\ window'.theta = Head(todo)[2]
        /\ Asks(calls, <<>>, << <<"EmitTheta">> >>)
     \/ /\ Head(todo)[1] = "ChangePhiAndTheta"
        /\ window'.phi = Head(todo)[2] /\ window'.theta = Head(todo)[3]
        /\ Asks(calls, <<>>, << <<"EmitPhi">>, <<"EmitTheta">> >>)

IndicatorCall == UNCHANGED <<window, spin, combo, plot, vtk>> /\ Head(todo)[1] = "SetIndicator"

PlotCall ==
  /\ UNCHANGED <<window, spin, combo, vtk>> /\ Head(todo)[1] = "plot"
  /\ \A field \in DOMAIN plot :
       plot'[field] = IF field = Head(todo)[2] THEN Head(todo)[3] ELSE plot[field]

VtkCall ==
  /\ UNCHANGED <<window, spin, combo, plot>> /\ Head(todo)[1] = "vtk"
  /\ \A field \in DOMAIN vtk :
       vtk'[field] = IF field = Head(todo)[2] /\ Kept(field) THEN Head(todo)[3]
                     ELSE vtk[field]

ChannelCall(calls) ==
  /\ UNCHANGED <<spin, combo, plot, vtk>> /\ DOMAIN window' = Members
  /\ Head(todo)[1] = "ChangeChannelIndex"
  /\ \A m \in Members \ {"channel"} : window'[m] = window[m]
  /\ \A c \in Pending(calls) : c[1] \in {"setValue", "vtk", "plot"} /\ c[2] = "channel"

FrequencyCall(calls) ==
  /\ UNCHANGED <<spin, combo, plot, vtk>> /\ DOMAIN window' = Members
  /\ Head(todo)[1] = "ChangeFrequencyIndex"
  /\ \A m \in Members \ {"frequency"} : window'[m] = window[m]
  /\ \/ (~IsOpen \/ Head(todo)[2] = -1) /\ window' = window /\ calls = <<>>
     \/ /\ IsOpen /\ Head(todo)[2] # -1 /\ window'.frequency = Head(todo)[2]
        /\ calls = EmitFrequency(Head(todo)[2])

ComboCall(calls) ==
  /\ UNCHANGED <<window, spin, plot, vtk>>
  /\ LET n == combo.count
     IN  \/ /\ Head(todo)[1] = "setCurrentIndex" /\ combo'.count = n
            /\ combo'.index = IF Head(todo)[2] \in 0 .. n - 1 THEN Head(todo)[2] ELSE -1
         \/ Head(todo)[1] = "clear" /\ combo'.count = 0 /\ combo'.index = -1
         \/ /\ Head(todo)[1] = "addItem" /\ combo'.count = n + 1
            /\ combo'.index = IF n = 0 THEN 0 ELSE combo.index
  /\ calls = IF combo'.index = combo.index THEN <<>>
             ELSE << <<"ChangeFrequencyIndex", combo'.index>> >>

OpenCall(calls) ==
  /\ UNCHANGED <<spin, combo>> /\ DOMAIN window' = Members
  /\ Head(todo)[1] = "OpenDAFFFile" /\ vtk'.theta = vtk.theta
  /\ \A m \in Members \ {"file"} : window'[m] = window[m]
  /\ \/ window'.file = NoFile /\ calls = <<>>
     \/ window'.file \in Files /\ calls = << <<"LoadContent">> >>

\* The boxes are given ranges, the selector is emptied and filled, the front is shown.
GivesRange(c) ==
  /\ c[1] \in {"setMaximum", "setMinimum", "setValue"} /\ Bounds(c)
  /\ c[2] \in {"channel", "alpha", "beta"} /\ (c[1] = "setValue" => c[2] = "channel")
LoadCall(calls) ==
  /\ UNCHANGED <<window, spin, combo, plot, vtk>> /\ IsOpen
  /\ Head(todo)[1] = "LoadContent"
  /\ \A c \in Pending(calls) :
       \/ GivesRange(c) \/ SetsRange(c) \/ c[1] = "clear"
       \/ c[1] \in {"FillSelector", "setCurrentIndex"} /\ c[2] = 0
       \/ c[1] = "ChangePhiAndTheta" /\ c[3] = 0
  /\ \A name \in {"clear", "FillSelector", "ChangePhiAndTheta"} :
       \E c \in Pending(calls) : c[1] = name

FillCall(calls) ==
  /\ UNCHANGED <<window, spin, combo, plot, vtk>> /\ Head(todo)[1] = "FillSelector"
  /\ \/ Head(todo)[2] \notin Frequencies(window.file) /\ calls = <<>>
     \/ /\ Head(todo)[2] \in Frequencies(window.file)
        /\ \A c \in Pending(calls) :
             \/ c[1] = "addItem"
             \/ c[1] = "setCurrentIndex" /\ c[2] = Head(todo)[2]
             \/ c[1] = "FillSelector" /\ c[2] = Head(todo)[2] + 1
        /\ \A name \in {"addItem", "FillSelector"} : \E c \in Pending(calls) : c[1] = name

\* What the user does: one call, a step of the frequency or the channel, or a file
\* is closed.
Quietly == Quiet /\ UNCHANGED <<spin, combo, plot, vtk>> /\ DOMAIN window' = Members
Asked(c) ==
  \/ c[1] \in {"ChangeAlpha", "ChangeBeta", "ChangePhi", "OpenDAFFFile", "setValue"}
  \/ c[1] = "ChangeTheta" /\ WithinBox("theta", c[2])
  \/ c[1] = "setCurrentIndex" /\ c[2] \in 0 .. combo.count - 1
OneCall(c) == Quietly /\ UNCHANGED window /\ todo' = <<c>> /\ Asked(c)
FrequencyStep(v) ==
  /\ Quietly /\ IsOpen /\ todo' = EmitFrequency(v) /\ window'.frequency = v /\ v >= 0
  /\ \A m \in Members \ {"frequency"} : window'[m] = window[m]
  /\ \/ v = window.frequency - 1
     \/ v = window.frequency + 1 /\ IsSpectral /\ v <= LastFrequency
ChannelStep(v) ==
  /\ Quietly /\ todo' = EmitChannel(v)
  /\ \A m \in Members \ {"channel"} : window'[m] = window[m]
CloseStep ==
  /\ Quiet /\ UNCHANGED <<spin, combo, todo>> /\ DOMAIN window' = Members
  /\ window'.file = NoFile /\ vtk'.theta = vtk.theta
  /\ \A m \in Members \ {"file"} : window'[m] = window[m]

BoxMoves(name, s, calls) ==
  /\ Head(todo)[2] = name /\ UNCHANGED <<window, combo, plot, vtk>>
  /\ spin'[name] = s /\ \A other \in Spins \ {name} : spin'[other] = spin[other]
  /\ BoxCall(name, s)
  /\ \E c : /\ c[1] = Slot[name] /\ c[2] = s.value
            /\ calls = IF s.value = spin[name].value THEN <<>> ELSE <<c>>
IsBoxCall(calls) ==
  \E name \in Spins, s \in [value : Int, min : Int, max : Int] : BoxMoves(name, s, calls)

\* Every call in this form.
CallForm(calls) ==
  \/ IsBoxCall(calls) \/ ComboCall(calls)
  \/ calls = <<>> /\ (IndicatorCall \/ PlotCall \/ VtkCall)
  \/ FrequencyCall(calls) \/ ChannelCall(calls) \/ RecordCall(calls) \/ FollowCall(calls)
  \/ (\E name \in Selections : TellCall(name, calls))
  \/ DataViewCall(calls) \/ ObjectViewCall(calls)
  \/ OpenCall(calls) \/ LoadCall(calls) \/ FillCall(calls)

\* The calls that have nothing to do with frequencies, ranges and files make only
\* calls of that kind.
Plain(c) ==
  /\ c[1] \notin {"setMinimum", "setMaximum", "setCurrentIndex", "ChangeFrequencyIndex", "clear",
                  "FillSelector", "addItem", "OpenDAFFFile", "LoadContent"}
  /\ c[1] \in {"setValue", "vtk", "plot"} => c[2] # "frequency"
PlainForm(calls) ==
  \/ calls = <<>> /\ (IndicatorCall \/ PlotCall \/ VtkCall)
  \/ ChannelCall(calls) \/ RecordCall(calls) \/ FollowCall(calls)
  \/ (\E name \in Selections : TellCall(name, calls))
  \/ DataViewCall(calls) \/ ObjectViewCall(calls)

\* Sines and cosines of quarter turns, and a direction along an axis.
Signs == {-1, 0, 1}
OnAxis(u, v, w) ==
  \/ u \in Signs /\ v = 0 /\ w = 0
  \/ u = 0 /\ v \in Signs /\ w = 0
  \/ u = 0 /\ v = 0 /\ w \in Signs

\* What a call to the object view leaves to run: the record that is nearest now is
\* asked for before theta is told.
AskedFirst(calls, names) ==
  \E k \in 1 .. Len(calls) :
    /\ calls[k][1] = "ChangeRecordIndex" /\ calls[k][2] = Nearest'
    /\ \A l \in 1 .. k - 1 : calls[l][1] \in names

\* The five calls that tell a frequency.
TellFrequency(calls, v, a, b, c, d, e) ==
  /\ calls = <<a, b, c, d, e>> /\ IsSeq(calls) /\ Pending(calls) = {a, b, c, d, e}
  /\ a[1] = "vtk" /\ a[2] = "frequency" /\ a[3] = v
  /\ b[1] = "setValue" /\ b[2] = "frequency" /\ b[3] = v
  /\ c[1] = "setCurrentIndex" /\ c[2] = v
  /\ d[1] = "vtk" /\ d[2] = "frequency" /\ d[3] = v
  /\ e[1] = "plot" /\ e[2] = "frequency" /\ e[3] = v

-----------------------------------------------------------------------------
(* The angle theta.                                                        *)

\* The record is told right after the object view has followed it.
TellsAfterwards(k) == k < Len(todo) /\ todo[k + 1][1] = "EmitRecord"
FollowsAndTells ==
  \A k \in 1 .. Len(todo) : todo[k][1] = "FollowInObjectView" => TellsAfterwards(k)

\* Theta is never set to an angle that its box cannot show.
FitsTheta(c) ==
  /\ c[1] = "ChangeTheta" => WithinBox("theta", c[2])
  /\ c[1] = "ChangePhiAndTheta" => WithinBox("theta", c[3])
ThetaFits == WithinBox("theta", window.theta) /\ \A c \in Pending(todo) : FitsTheta(c)

\* The 3D view is told theta by calls that nothing can overtake: the calls in front
\* change neither theta nor the record.
TellsTheta(c) == c[1] = "vtk" /\ c[2] = "theta"
Harmless(c) ==
  \/ c[1] = "setValue" /\ c[2] = "theta" /\ c[3] = window.theta
  \/ c[1] = "ChangeTheta" /\ c[2] = window.theta
  \/ c[1] = "ChangeRecordIndex" /\ c[2] = window.record
  \/ c[1] \in {"SetIndicator", "EmitTheta"}
  \/ TellsTheta(c) /\ c[3] = window.theta
Settled(k) ==
  /\ todo[k][3] = window.theta /\ (IsOpen => window.record = Nearest)
  /\ \A l \in 1 .. k - 1 : Harmless(todo[l])
ThetaIsTold == \A k \in 1 .. Len(todo) : TellsTheta(todo[k]) => Settled(k)
ThetaIsShown ==
  vtk.theta = window.theta \/ \E c \in Pending(todo) : c[1] = "EmitTheta" \/ TellsTheta(c)

\* Theta is told only when the record is the one nearest to it.
Corrected(c) ==
  \/ c[1] \in {"FollowInObjectView", "ChangePhi", "ChangeTheta", "ChangePhiAndTheta",
               "LoadContent", "OpenDAFFFile"}
  \/ c[1] = "ChangeRecordIndex" /\ c[2] = Nearest
CorrectedFirst ==
  \E k \in 1 .. Len(todo) :
    Corrected(todo[k]) /\ \A l \in 1 .. k : todo[l][1] # "EmitTheta"
ThetaIsNearest == IsOpen /\ window.record # Nearest => CorrectedFirst

ThetaPart ==
  FollowsAndTells /\ ThetaFits /\ ThetaIsTold /\ ThetaIsShown /\ ThetaIsNearest

-----------------------------------------------------------------------------
(* The frequency: its box, its selector and the two plots.                 *)

Item(v) == 0 <= v /\ v < combo.count
InBox(v) == 0 <= v /\ v <= spin["frequency"].max
Numbers ==
  /\ combo.count \in Nat /\ combo.index \in Int /\ window.frequency \in Nat
  /\ -1 <= combo.index /\ combo.index < combo.count

\* A file begins with an empty selector.  Until it has its first item the selection
\* is that of the file before.
Fills(c) == c[1] = "FillSelector" /\ c[2] = 0
Loading ==
  \/ IsNext("LoadContent") \/ Waits("clear")
  \/ combo.count = 0 /\ (IsNext("addItem") \/ \E c \in Pending(todo) : Fills(c))
LateCall(c) ==
  c[1] \in {"clear", "FillSelector", "addItem", "LoadContent", "OpenDAFFFile"} \/ SetsRange(c)
LatePart ==
  /\ Waits("clear") => \E c \in Pending(todo) : Fills(c)
  /\ (\E c \in Pending(todo) : SetsRange(c)) => Waits("clear")
  /\ IsNext("addItem") => ~Waits("clear") /\ Waits("FillSelector")
  /\ \A c \in Pending(todo) : c[1] = "FillSelector" =>
       c[2] = IF Waits("clear") THEN 0
              ELSE IF IsNext("addItem") THEN combo.count + 1 ELSE combo.count

\* A frequency that the selector or the box can show.  While items are added it has
\* to be an item: another one could become an item that is not the current one.
Good(v) == Item(v) \/ (InBox(v) /\ (Waits("FillSelector") => Loading))

\* The calls of a frequency are in front, and all of one frequency.
Changing == IsNext("ChangeFrequencyIndex") /\ Head(todo)[2] # -1
Aim == IF Changing THEN Head(todo)[2] ELSE window.frequency
OnFrequency(c) ==
  \/ c[1] \in {"vtk", "plot", "setValue"} /\ c[2] = "frequency"
  \/ c[1] = "ChangeFrequencyIndex"
Of(c, v) ==
  \/ c[1] \in {"vtk", "plot", "setValue"} /\ c[2] = "frequency" /\ c[3] = v
  \/ c[1] = "setCurrentIndex" /\ c[2] = v
  \/ c[1] = "ChangeFrequencyIndex" /\ (c[2] = v \/ c[2] = -1)
Later(c) ==
  /\ ~OnFrequency(c)
  /\ c[1] = "setCurrentIndex" =>
       \/ c[2] = 0 /\ Loading
       \/ ~Waits("clear") /\ (Item(c[2]) \/ (IsNext("addItem") /\ c[2] = combo.count))
FrontIs(n, v) ==
  /\ \A l \in 1 .. n : Of(todo[l], v)
  /\ \A l \in n + 1 .. Len(todo) : Later(todo[l])
Selecting(n) == \E l \in 1 .. n : todo[l][1] = "setCurrentIndex"
IndexShows == Item(window.frequency) => combo.index = window.frequency
DirectForm ==
  \E n, v :
    /\ n \in 0 .. Len(todo) /\ v = Aim /\ FrontIs(n, v)
    /\ Loading \/ Changing \/ IndexShows \/ Selecting(n)

\* The box has moved a frequency that it cannot show to its end, and the selector,
\* which can show it, moves it back.
SplitIs(p, n, u, v) ==
  /\ \A l \in 1 .. p - 1 : Of(todo[l], u)
  /\ todo[p][1] = "setCurrentIndex" /\ todo[p][2] = v
  /\ \A l \in p + 1 .. n : Of(todo[l], v)
  /\ \A l \in n + 1 .. Len(todo) : Later(todo[l])
RestoredForm ==
  LET last == spin["frequency"].max
  IN  \E p, n, v :
        /\ n \in 1 .. Len(todo) /\ p \in 1 .. n /\ SplitIs(p, n, last, v)
        /\ last = Aim /\ v > last /\ Item(v) /\ spin["frequency"].value = last
        /\ combo.index = last \/ Changing \/ Selecting(p - 1)

\* The user types a frequency.
TypedForm ==
  \E c : /\ todo = <<c>> /\ c[1] = "setValue" /\ c[2] = "frequency"
         /\ IndexShows /\ Shows("frequency", window.frequency)

\* The selector is told right after the box.
Adjacent ==
  \A k \in 1 .. Len(todo) :
    todo[k][1] = "setValue" /\ todo[k][2] = "frequency" =>
      k < Len(todo) /\ todo[k + 1][1] = "setCurrentIndex" /\ todo[k + 1][2] = todo[k][3]
Form == TypedForm \/ (Adjacent /\ (DirectForm \/ RestoredForm))

Tells(name) == \E c \in Pending(todo) : c[1] = name /\ c[2] = "frequency"
Shown ==
  \/ Loading \/ Changing
  \/ /\ plot.frequency = window.frequency \/ Tells("plot")
     /\ IsSpectral => vtk.frequency = window.frequency \/ Tells("vtk")
     /\ Shows("frequency", window.frequency) \/ Tells("setValue")
Unaimed ==
  \A c \in Pending(todo) : OnFrequency(c) => c[1] = "ChangeFrequencyIndex" /\ c[2] = -1
Aimed == Good(Aim) \/ (Loading /\ Unaimed)

FrequencyPart == Numbers /\ (IsOpen => LatePart /\ Form /\ Shown /\ Aimed)

\* Steps that keep the number of items and the range of the box.
Steady(calls) ==
  /\ Leaves(calls) /\ ~LateCall(Head(todo)) /\ \A c \in Pending(calls) : ~LateCall(c)
  /\ combo'.count = combo.count /\ spin'["frequency"].max = spin["frequency"].max

\* No call of a frequency waits.
Free ==
  /\ \A c \in Pending(todo) : Later(c)
  /\ Loading \/ Changing \/ IndexShows

\* Between two frequencies boxes, selector and plots agree, unless a file begins.
Rested ==
  /\ plot.frequency = window.frequency
  /\ IsSpectral => vtk.frequency = window.frequency
  /\ Shows("frequency", window.frequency) /\ IndexShows /\ Good(window.frequency)
=============================================================================
