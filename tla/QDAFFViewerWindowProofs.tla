----------------------- MODULE QDAFFViewerWindowProofs -----------------------
(***************************************************************************)
(* Proofs about the viewer window for any files, any answers of the reader *)
(* and any order of signals: the selected record is the one nearest to the *)
(* direction in the object view (RecordIsNearest), the plots draw a record *)
(* and a frequency that their file has (ViewsIndexTheirFile), and boxes,   *)
(* selector and plots show what is selected (SelectionsAgree).             *)
(*                                                                         *)
(* Between two calls of the user that need not hold: an angle has changed  *)
(* and the record has not followed yet, or the other way round.  The       *)
(* invariant is that then one of the calls that are left to run will mend  *)
(* it, and that each call that may break it leaves such a call behind.     *)
(* The boxes agree in the same way: one that does not is told next, tells  *)
(* the window next, or the call that tells it is left to run.              *)
(***************************************************************************)
EXTENDS QDAFFViewerInvariant, QDAFFRecentFiles, DAFFInduction

-----------------------------------------------------------------------------
(* The calls left to run, as a sequence of any elements.                   *)

LEMMA TupleIsSeq ==
  /\ IsSeq(<<>>) /\ Pending(<<>>) = {}
  /\ \A a : IsSeq(<<a>>) /\ Pending(<<a>>) = {a}
  /\ \A a, b : IsSeq(<<a, b>>) /\ Pending(<<a, b>>) = {a, b}
  /\ \A a, b, c : IsSeq(<<a, b, c>>) /\ Pending(<<a, b, c>>) = {a, b, c}
<1>1. IsSeq(<<>>) /\ Pending(<<>>) = {}
  <2>1. <<>> \in Seq({})
    OBVIOUS
  <2>2. QED
    BY <2>1 DEF IsSeq, Pending
<1>2. ASSUME NEW a PROVE IsSeq(<<a>>) /\ Pending(<<a>>) = {a}
  <2>1. <<a>> \in Seq({a}) /\ 1 .. Len(<<a>>) = {1} /\ <<a>>[1] = a
    OBVIOUS
  <2>2. Pending(<<a>>) = {<<a>>[i] : i \in {1}}
    BY <2>1 DEF Pending
  <2>3. QED
    BY <2>1, <2>2 DEF IsSeq
<1>3. ASSUME NEW a, NEW b PROVE IsSeq(<<a, b>>) /\ Pending(<<a, b>>) = {a, b}
  <2>1. <<a, b>> \in Seq({a, b}) /\ 1 .. Len(<<a, b>>) = {1, 2}
    OBVIOUS
  <2>2. Pending(<<a, b>>) = {<<a, b>>[i] : i \in {1, 2}}
    BY <2>1 DEF Pending
  <2>3. <<a, b>>[1] = a /\ <<a, b>>[2] = b
    OBVIOUS
  <2>4. QED
    BY <2>1, <2>2, <2>3 DEF IsSeq
<1>4. ASSUME NEW a, NEW b, NEW c
      PROVE  IsSeq(<<a, b, c>>) /\ Pending(<<a, b, c>>) = {a, b, c}
  <2>1. <<a, b, c>> \in Seq({a, b, c}) /\ 1 .. Len(<<a, b, c>>) = {1, 2, 3}
    OBVIOUS
  <2>2. Pending(<<a, b, c>>) = {<<a, b, c>>[i] : i \in {1, 2, 3}}
    BY <2>1 DEF Pending
  <2>3. <<a, b, c>>[1] = a /\ <<a, b, c>>[2] = b /\ <<a, b, c>>[3] = c
    OBVIOUS
  <2>4. QED
    BY <2>1, <2>2, <2>3 DEF IsSeq
<1>5. QED
  BY <1>1, <1>2, <1>3, <1>4

LEMMA LongTupleIsSeq ==
  /\ \A a, b, c, d, e : /\ IsSeq(<<a, b, c, d, e>>)
                        /\ Pending(<<a, b, c, d, e>>) = {a, b, c, d, e}
  /\ \A a, b, c, d, e, f : /\ IsSeq(<<a, b, c, d, e, f>>)
                           /\ Pending(<<a, b, c, d, e, f>>) = {a, b, c, d, e, f}
<1>1. ASSUME NEW a, NEW b, NEW c, NEW d, NEW e
      PROVE  /\ IsSeq(<<a, b, c, d, e>>)
             /\ Pending(<<a, b, c, d, e>>) = {a, b, c, d, e}
  <2>1. PICK s : s = <<a, b, c, d, e>>
    OBVIOUS
  <2>2. s \in Seq({a, b, c, d, e}) /\ 1 .. Len(s) = {1, 2, 3, 4, 5}
    BY <2>1
  <2>3. s[1] = a /\ s[2] = b /\ s[3] = c /\ s[4] = d /\ s[5] = e
    BY <2>1
  <2>4. Pending(s) = {s[i] : i \in {1, 2, 3, 4, 5}}
    BY <2>2 DEF Pending
  <2>5. QED
    BY <2>1, <2>2, <2>3, <2>4 DEF IsSeq
<1>2. ASSUME NEW a, NEW b, NEW c, NEW d, NEW e, NEW f
      PROVE  /\ IsSeq(<<a, b, c, d, e, f>>)
             /\ Pending(<<a, b, c, d, e, f>>) = {a, b, c, d, e, f}
  <2>1. PICK s : s = <<a, b, c, d, e, f>>
    OBVIOUS
  <2>2. s \in Seq({a, b, c, d, e, f}) /\ 1 .. Len(s) = {1, 2, 3, 4, 5, 6}
    BY <2>1
  <2>3. s[1] = a /\ s[2] = b /\ s[3] = c /\ s[4] = d /\ s[5] = e /\ s[6] = f
    BY <2>1
  <2>4. Pending(s) = {s[i] : i \in {1, 2, 3, 4, 5, 6}}
    BY <2>2 DEF Pending
  <2>5. QED
    BY <2>1, <2>2, <2>3, <2>4 DEF IsSeq
<1>3. QED
  BY <1>1, <1>2

LEMMA ConcatIsSeq ==
  ASSUME NEW s, NEW t, IsSeq(s), IsSeq(t)
  PROVE  /\ IsSeq(s \o t) /\ Len(s \o t) = Len(s) + Len(t)
         /\ Pending(s \o t) = Pending(s) \cup Pending(t)
<1>1. PICK S : s \in Seq(S)
  BY DEF IsSeq
<1>2. PICK T : t \in Seq(T)
  BY DEF IsSeq
<1>3. PICK U : U = S \cup T
  OBVIOUS
<1>4. s \in Seq(U) /\ t \in Seq(U)
  BY <1>1, <1>2, <1>3
<1>5. s \o t \in Seq(U) /\ Len(s \o t) = Len(s) + Len(t)
      /\ Len(s) \in Nat /\ Len(t) \in Nat
  BY <1>4
<1>6. \A i \in 1 .. Len(s) : (s \o t)[i] = s[i]
  BY <1>4
<1>7. \A i \in 1 .. Len(t) : (s \o t)[Len(s) + i] = t[i]
  BY <1>4
<1>8. ASSUME NEW i \in 1 .. Len(s \o t)
      PROVE  (s \o t)[i] \in Pending(s) \cup Pending(t)
  <2>1. CASE i \in 1 .. Len(s)
    BY <1>6, <2>1 DEF Pending
  <2>2. CASE i \notin 1 .. Len(s)
    <3>1. i - Len(s) \in 1 .. Len(t) /\ i = Len(s) + (i - Len(s))
      BY <1>5, <2>2
    <3>2. QED
      BY <1>7, <3>1 DEF Pending
  <2>3. QED
    BY <2>1, <2>2
<1>9. ASSUME NEW c \in Pending(s) \cup Pending(t) PROVE c \in Pending(s \o t)
  <2>1. CASE c \in Pending(s)
    <3>1. PICK i \in 1 .. Len(s) : c = s[i]
      BY <2>1 DEF Pending
    <3>2. i \in 1 .. Len(s \o t)
      BY <1>5
    <3>3. QED
      BY <1>6, <3>1, <3>2 DEF Pending
  <2>2. CASE c \in Pending(t)
    <3>1. PICK i \in 1 .. Len(t) : c = t[i]
      BY <2>2 DEF Pending
    <3>2. Len(s) + i \in 1 .. Len(s \o t)
      BY <1>5
    <3>3. QED
      BY <1>7, <3>1, <3>2 DEF Pending
  <2>3. QED
    BY <2>1, <2>2
<1>10. QED
  BY <1>5, <1>8, <1>9 DEF IsSeq, Pending

\* A stack is its next call and the rest.
LEMMA TailIsSeq ==
  ASSUME NEW s, IsSeq(s), s # <<>>
  PROVE  IsSeq(Tail(s)) /\ Pending(s) = {Head(s)} \cup Pending(Tail(s))
<1>1. PICK S : s \in Seq(S)
  BY DEF IsSeq
<1>2. Tail(s) \in Seq(S) /\ Len(s) \in Nat \ {0} /\ Len(Tail(s)) = Len(s) - 1
      /\ Head(s) = s[1]
  BY <1>1
<1>3. \A i \in 1 .. Len(s) - 1 : Tail(s)[i] = s[i + 1]
  BY <1>1
<1>4. ASSUME NEW i \in 1 .. Len(s) PROVE s[i] \in {Head(s)} \cup Pending(Tail(s))
  <2>1. CASE i = 1
    BY <1>2, <2>1
  <2>2. CASE i # 1
    <3>1. i - 1 \in 1 .. Len(s) - 1 /\ i = (i - 1) + 1
      BY <1>2, <2>2
    <3>2. s[i] = Tail(s)[i - 1]
      BY <1>3, <3>1
    <3>3. QED
      BY <1>2, <3>1, <3>2 DEF Pending
  <2>3. QED
    BY <2>1, <2>2
<1>5. ASSUME NEW c \in {Head(s)} \cup Pending(Tail(s)) PROVE c \in Pending(s)
  <2>1. CASE c = Head(s)
    BY <1>2, <2>1 DEF Pending
  <2>2. CASE c \in Pending(Tail(s))
    <3>1. PICK i \in 1 .. Len(s) - 1 : c = Tail(s)[i]
      BY <1>2, <2>2 DEF Pending
    <3>2. i + 1 \in 1 .. Len(s) /\ c = s[i + 1]
      BY <1>2, <1>3, <3>1
    <3>3. QED
      BY <3>2 DEF Pending
  <2>3. QED
    BY <2>1, <2>2
<1>6. QED
  BY <1>2, <1>4, <1>5 DEF IsSeq, Pending

-----------------------------------------------------------------------------
(* The invariant.                                                          *)

\* A call replaces the head of the stack by the calls that it makes.
LEMMA PushedIs ==
  ASSUME IsSeq(todo), todo # <<>>, NeverCut', NEW calls, IsSeq(calls), Then(calls)
  PROVE  todo' = calls \o Tail(todo)
<1>1. PICK all : all = calls \o Tail(todo)
  OBVIOUS
<1>2. IsSeq(all)
  BY <1>1, TailIsSeq, ConcatIsSeq
<1>3. todo' = IF Len(all) <= StackSize THEN all ELSE SubSeq(all, 1, StackSize)
  BY <1>1 DEF Then
<1>4. Len(all) <= StackSize
  <2> SUFFICES ASSUME ~(Len(all) <= StackSize) PROVE FALSE
    OBVIOUS
  <2>1. PICK S : all \in Seq(S)
    BY <1>2 DEF IsSeq
  <2>2. Len(all) \in Nat
    BY <2>1
  <2>3. StackSize \in Nat
    BY SizeAssumption
  <2>4. Len(SubSeq(all, 1, StackSize)) = StackSize
    BY <2>1, <2>2, <2>3
  <2>5. todo' = SubSeq(all, 1, StackSize)
    BY <1>3
  <2>6. QED
    BY <2>3, <2>4, <2>5 DEF NeverCut
<1>5. QED
  BY <1>1, <1>3, <1>4

LEMMA Pushed ==
  ASSUME IsSeq(todo), todo # <<>>, NeverCut', NEW calls, IsSeq(calls), Then(calls)
  PROVE  IsSeq(todo') /\ Pending(todo') = Pending(calls) \cup Pending(Tail(todo))
<1>1. IsSeq(Tail(todo))
  BY TailIsSeq
<1>2. todo' = calls \o Tail(todo)
  BY PushedIs
<1>3. QED
  BY <1>1, <1>2, ConcatIsSeq

\* A call that is none of those and leaves record, direction and file alone.
LEMMA Passive ==
  ASSUME IInv, todo # <<>>, NeverCut', NEW calls, IsSeq(calls), Then(calls),
         ~Mends(Head(todo)) \/ ~IsOpen \/ window.record = Nearest, IsWindow',
         window'.file = window.file, window'.record = window.record,
         window'.phi = window.phi, window'.theta = window.theta
  PROVE  IInv'
<1>1. IsSeq(todo') /\ Pending(todo') = Pending(calls) \cup Pending(Tail(todo))
  BY Pushed DEF IInv
<1>2. Pending(todo) = {Head(todo)} \cup Pending(Tail(todo))
  BY TailIsSeq DEF IInv
<1>3. Nearest' = Nearest /\ IsOpen' = IsOpen
  BY DEF Nearest, NearestInObject, NearestInData, IsOpen
<1>4. \A c : Mends(c)' = Mends(c)
  BY <1>3 DEF Mends
<1>5. Following'
  <2> SUFFICES ASSUME IsOpen, window.record # Nearest
               PROVE  \E c \in Pending(todo') : Mends(c)'
    BY <1>3 DEF Following
  <2>1. PICK c \in Pending(todo) : Mends(c)
    BY DEF IInv, Following
  <2>2. c \in Pending(todo')
    BY <1>1, <1>2, <2>1
  <2>3. QED
    BY <1>4, <2>1, <2>2
<1>6. QED
  BY <1>1, <1>5 DEF IInv

\* A call that leaves one of those behind.
LEMMA Mended ==
  ASSUME IInv, todo # <<>>, NeverCut', NEW calls, IsSeq(calls), Then(calls), IsWindow',
         IsOpen' => \E c \in Pending(calls) : Mends(c)'
  PROVE  IInv'
<1>1. IsSeq(todo') /\ Pending(todo') = Pending(calls) \cup Pending(Tail(todo))
  BY Pushed DEF IInv
<1>2. QED
  BY <1>1 DEF IInv, Following

-----------------------------------------------------------------------------
(* The steps.                                                              *)

\* A call of another name that leaves the window alone.
LEMMA WidgetStep ==
  ASSUME IInv, NeverCut', NEW call, call \notin Menders, Runs(call), NEW calls,
         IsSeq(calls), Then(calls), UNCHANGED window
  PROVE  IInv'
<1>1. todo # <<>> /\ ~Mends(Head(todo))
  <2>1. Head(todo)[1] \notin Menders /\ todo # <<>>
    BY DEF Runs
  <2>2. QED
    BY <2>1 DEF Mends, Menders
<1>2. IsWindow'
  BY DEF IInv, IsWindow
<1>3. QED
  BY <1>1, <1>2, Passive

\* The boxes and the selector.
LEMMA BoxSteps ==
  ASSUME IInv, NeverCut',
         SetValue \/ SetMinimum \/ SetMaximum \/ SetCurrentIndex \/ Clear \/ AddItem
  PROVE  IInv'
<1>1. ASSUME NEW name, NEW s, Become(name, s)
      PROVE  UNCHANGED window /\ \E calls : IsSeq(calls) /\ Then(calls)
  <2>1. PICK calls : calls = IF s.value = spin[name].value THEN <<>>
                             ELSE <<<<Slot[name], s.value>>>>
    OBVIOUS
  <2>2. IsSeq(calls)
    BY <2>1, TupleIsSeq
  <2>3. Then(calls) /\ UNCHANGED window
    BY <1>1, <2>1 DEF Become
  <2>4. QED
    BY <2>2, <2>3
<1>2. ASSUME NEW count, NEW index, ComboBecomes(count, index)
      PROVE  UNCHANGED window /\ \E calls : IsSeq(calls) /\ Then(calls)
  <2>1. PICK calls : calls = IF index = combo.index THEN <<>>
                             ELSE <<<<"ChangeFrequencyIndex", index>>>>
    OBVIOUS
  <2>2. IsSeq(calls)
    BY <2>1, TupleIsSeq
  <2>3. Then(calls) /\ UNCHANGED window
    BY <1>2, <2>1 DEF ComboBecomes
  <2>4. QED
    BY <2>2, <2>3
<1>3. \E call : call \notin Menders /\ Runs(call)
                /\ UNCHANGED window /\ \E calls : IsSeq(calls) /\ Then(calls)
  <2>1. CASE SetValue
    <3>1. Runs("setValue") /\ \E name, s : Become(name, s)
      BY <2>1 DEF SetValue
    <3>2. QED
      BY <1>1, <3>1 DEF Menders
  <2>2. CASE SetMinimum
    <3>1. Runs("setMinimum") /\ \E name, s : Become(name, s)
      BY <2>2 DEF SetMinimum, InRange
    <3>2. QED
      BY <1>1, <3>1 DEF Menders
  <2>3. CASE SetMaximum
    <3>1. Runs("setMaximum") /\ \E name, s : Become(name, s)
      BY <2>3 DEF SetMaximum, InRange
    <3>2. QED
      BY <1>1, <3>1 DEF Menders
  <2>4. CASE SetCurrentIndex
    <3>1. Runs("setCurrentIndex") /\ \E count, index : ComboBecomes(count, index)
      BY <2>4 DEF SetCurrentIndex
    <3>2. QED
      BY <1>2, <3>1 DEF Menders
  <2>5. CASE Clear
    <3>1. Runs("clear") /\ \E count, index : ComboBecomes(count, index)
      BY <2>5 DEF Clear
    <3>2. QED
      BY <1>2, <3>1 DEF Menders
  <2>6. CASE AddItem
    <3>1. Runs("addItem") /\ \E count, index : ComboBecomes(count, index)
      BY <2>6 DEF AddItem
    <3>2. QED
      BY <1>2, <3>1 DEF Menders
  <2>7. QED
    BY <2>1, <2>2, <2>3, <2>4, <2>5, <2>6
<1>4. QED
  BY <1>3, WidgetStep

\* The plots, and the signals that only tell what the window holds.
LEMMA TellingSteps ==
  ASSUME IInv, NeverCut',
         \/ PlotSlot \/ VtkSlot \/ EmitRecord \/ EmitAlpha \/ EmitBeta
         \/ EmitPhi \/ EmitTheta \/ SetIndicator \/ FillSelector
  PROVE  IInv'
<1>1. CASE PlotSlot \/ VtkSlot \/ SetIndicator
  <2>1. PICK call : call \in {"plot", "vtk", "SetIndicator"} /\ Runs(call)
    BY <1>1 DEF PlotSlot, VtkSlot, SetIndicator
  <2>2. Then(<<>>) /\ UNCHANGED window
    BY <1>1 DEF PlotSlot, VtkSlot, SetIndicator, Return
  <2>3. QED
    BY <2>1, <2>2, TupleIsSeq, WidgetStep DEF Menders
<1>2. CASE EmitAlpha
  <2>1. Runs("EmitAlpha") /\ Then(<< <<"setValue", "alpha", window.alpha>> >>)
        /\ UNCHANGED window
    BY <1>2 DEF EmitAlpha
  <2>2. QED
    BY <2>1, TupleIsSeq, WidgetStep DEF Menders
<1>3. CASE EmitRecord
  <2>1. Runs("EmitRecord") /\ UNCHANGED window /\ \E a, b : Then(<<a, b>>)
    BY <1>3 DEF EmitRecord
  <2>2. QED
    BY <2>1, TupleIsSeq, WidgetStep DEF Menders
<1>4. CASE EmitBeta
  <2>1. Runs("EmitBeta") /\ UNCHANGED window /\ \E a, b : Then(<<a, b>>)
    BY <1>4 DEF EmitBeta
  <2>2. QED
    BY <2>1, TupleIsSeq, WidgetStep DEF Menders
<1>5. CASE EmitPhi
  <2>1. Runs("EmitPhi") /\ UNCHANGED window /\ \E a, b : Then(<<a, b>>)
    BY <1>5 DEF EmitPhi
  <2>2. QED
    BY <2>1, TupleIsSeq, WidgetStep DEF Menders
<1>6. CASE EmitTheta
  <2>1. Runs("EmitTheta") /\ UNCHANGED window /\ \E a, b : Then(<<a, b>>)
    BY <1>6 DEF EmitTheta
  <2>2. QED
    BY <2>1, TupleIsSeq, WidgetStep DEF Menders
<1>7. CASE FillSelector
  <2>1. PICK some : some = IF Arg \in file.kHz THEN << <<"setCurrentIndex", Arg>> >>
                           ELSE <<>>
    OBVIOUS
  <2>2. PICK item, next : item = <<"addItem">> /\ next = <<"FillSelector", Arg + 1>>
    OBVIOUS
  <2>3. PICK calls : calls = IF Arg \in Frequencies(window.file)
                             THEN <<item>> \o some \o <<next>> ELSE <<>>
    OBVIOUS
  <2>4. Runs("FillSelector") /\ UNCHANGED window /\ Then(calls)
    BY <1>7, <2>1, <2>2, <2>3 DEF FillSelector
  <2>5. IsSeq(some) /\ IsSeq(<<item>>) /\ IsSeq(<<next>>) /\ IsSeq(<<>>)
    BY <2>1, TupleIsSeq
  <2>6. IsSeq(<<item>> \o some)
    BY <2>5, ConcatIsSeq
  <2>7. IsSeq((<<item>> \o some) \o <<next>>)
    BY <2>5, <2>6, ConcatIsSeq
  <2>8. IsSeq(calls)
    BY <2>3, <2>5, <2>7
  <2>9. QED
    BY <2>4, <2>8, WidgetStep DEF Menders
<1>8. QED
  BY <1>1, <1>2, <1>3, <1>4, <1>5, <1>6, <1>7

\* Frequency and channel: no part of the invariant.
LEMMA FrequencyAndChannelSteps ==
  ASSUME IInv, NeverCut', ChangeFrequencyIndex \/ ChangeChannelIndex
  PROVE  IInv'
<1>1. DOMAIN window = Members
  BY DEF IInv, IsWindow
<1>2. ASSUME NEW field \in {"frequency", "channel"}, NEW v,
             window' = [window EXCEPT ![field] = v]
      PROVE  IsWindow' /\ \A m \in Members \ {field} : window'[m] = window[m]
  <2>1. DOMAIN window' = Members
    BY <1>1, <1>2
  <2>2. ASSUME NEW m \in Members \ {field} PROVE window'[m] = window[m]
    BY <1>1, <1>2
  <2>3. QED
    BY <2>1, <2>2 DEF IsWindow
<1>3. todo # <<>> /\ ~Mends(Head(todo))
  <2>1. todo # <<>> /\ Head(todo)[1] \in {"ChangeFrequencyIndex", "ChangeChannelIndex"}
    BY DEF ChangeFrequencyIndex, ChangeChannelIndex, Runs
  <2>2. QED
    BY <2>1 DEF Mends
<1>4. \E calls : IsSeq(calls) /\ Then(calls)
  <2>1. CASE ChangeFrequencyIndex
    <3>1. Then(EmitFrequency(Arg)) \/ Then(<<>>)
      BY <2>1 DEF ChangeFrequencyIndex, Return
    <3>2. IsSeq(EmitFrequency(Arg)) /\ IsSeq(<<>>)
      BY TupleIsSeq, LongTupleIsSeq DEF EmitFrequency
    <3>3. QED
      BY <3>1, <3>2
  <2>2. CASE ChangeChannelIndex
    <3>1. Then(EmitChannel(Arg)) \/ Then(<<>>)
      BY <2>2 DEF ChangeChannelIndex, Return
    <3>2. IsSeq(EmitChannel(Arg)) /\ IsSeq(<<>>)
      BY TupleIsSeq DEF EmitChannel
    <3>3. QED
      BY <3>1, <3>2
  <2>3. QED
    BY <2>1, <2>2
<1>5. IsWindow' /\ window'.file = window.file /\ window'.record = window.record
      /\ window'.phi = window.phi /\ window'.theta = window.theta
  <2>1. CASE UNCHANGED window
    BY <2>1 DEF IInv, IsWindow
  <2>2. CASE ~UNCHANGED window
    <3>1. \E field \in {"frequency", "channel"} : \E v :
            window' = [window EXCEPT ![field] = v]
      BY <2>2 DEF ChangeFrequencyIndex, ChangeChannelIndex
    <3>2. QED
      BY <1>2, <3>1 DEF Members
  <2>3. QED
    BY <2>1, <2>2
<1>6. QED
  BY <1>3, <1>4, <1>5, Passive

\* The data view asks for another record and leaves the direction alone: the
\* invariant is that of ChangeRecordIndex.
LEMMA DataViewSteps ==
  ASSUME IInv, NeverCut', ChangeAlpha \/ ChangeBeta \/ ChangeAlphaAndBeta
  PROVE  IInv'
<1>1. DOMAIN window = Members
  BY DEF IInv, IsWindow
<1>2. todo # <<>> /\ ~Mends(Head(todo))
  <2>1. todo # <<>>
        /\ Head(todo)[1] \in {"ChangeAlpha", "ChangeBeta", "ChangeAlphaAndBeta"}
    BY DEF ChangeAlpha, ChangeBeta, ChangeAlphaAndBeta, Runs
  <2>2. QED
    BY <2>1 DEF Mends
<1>3. PICK alpha, beta, signals : DataView(alpha, beta, signals) /\ IsSeq(signals)
  <2>1. CASE ChangeAlpha
    <3>1. \E alpha, beta, a : DataView(alpha, beta, <<a>>)
      BY <2>1 DEF ChangeAlpha
    <3>2. QED
      BY <3>1, TupleIsSeq
  <2>2. CASE ChangeBeta
    <3>1. \E alpha, beta, a : DataView(alpha, beta, <<a>>)
      BY <2>2 DEF ChangeBeta
    <3>2. QED
      BY <3>1, TupleIsSeq
  <2>3. CASE ChangeAlphaAndBeta
    <3>1. \E alpha, beta, a, b : DataView(alpha, beta, <<a, b>>)
      BY <2>3 DEF ChangeAlphaAndBeta
    <3>2. QED
      BY <3>1, TupleIsSeq
  <2>4. QED
    BY <2>1, <2>2, <2>3
<1>4. PICK first : first = IF IsOpen
                           THEN << <<"ChangeRecordIndex", NearestInData(alpha, beta)>> >>
                           ELSE <<>>
  OBVIOUS
<1>5. Then(first \o signals) /\ window' = [window EXCEPT !.alpha = alpha, !.beta = beta]
  BY <1>3, <1>4 DEF DataView
<1>6. IsSeq(first \o signals)
  <2>1. IsSeq(first)
    BY <1>4, TupleIsSeq
  <2>2. QED
    BY <1>3, <2>1, ConcatIsSeq
<1>7. IsWindow' /\ window'.file = window.file /\ window'.record = window.record
      /\ window'.phi = window.phi /\ window'.theta = window.theta
  BY <1>1, <1>5 DEF IsWindow, Members
<1>8. QED
  BY <1>2, <1>5, <1>6, <1>7, Passive

\* The record that is asked for is the selected one, or the object view is to
\* follow it.
LEMMA RecordStep ==
  ASSUME IInv, NeverCut', ChangeRecordIndex
  PROVE  IInv'
<1>1. DOMAIN window = Members
  BY DEF IInv, IsWindow
<1>2. todo # <<>> /\ Head(todo)[1] = "ChangeRecordIndex"
  BY DEF ChangeRecordIndex, Runs
<1>3. CASE Arg = window.record
  <2>1. Then(<<>>) /\ UNCHANGED window
    BY <1>3 DEF ChangeRecordIndex, Return
  <2>2. Mends(Head(todo)) => window.record = Nearest
    <3>1. Mends(Head(todo)) => Head(todo) = <<"ChangeRecordIndex", Nearest>>
      BY <1>2 DEF Mends
    <3>2. Head(todo) = <<"ChangeRecordIndex", Nearest>> => Arg = Nearest
      BY DEF Arg
    <3>3. QED
      BY <1>3, <3>1, <3>2
  <2>3. IsWindow'
    BY <2>1 DEF IInv, IsWindow
  <2>4. QED
    BY <1>2, <2>1, <2>2, <2>3, TupleIsSeq, Passive
<1>4. CASE Arg # window.record
  <2>1. window' = [window EXCEPT !.record = Arg]
    BY <1>4 DEF ChangeRecordIndex
  <2>2. IsWindow' /\ window'.file = window.file
    BY <1>1, <2>1 DEF IsWindow, Members
  <2>3. CASE IsOpen
    <3>1. PICK a, b : Then(<<a, <<"FollowInObjectView">>, b>>)
      BY <1>4, <2>3 DEF ChangeRecordIndex
    <3>2. PICK follow : follow = <<"FollowInObjectView">>
      OBVIOUS
    <3>3. IsSeq(<<a, follow, b>>) /\ follow \in Pending(<<a, follow, b>>)
      BY TupleIsSeq
    <3>4. Mends(follow)'
      <4>1. follow[1] = "FollowInObjectView"
        BY <3>2
      <4>2. QED
        BY <4>1 DEF Mends
    <3>5. QED
      BY <1>2, <2>2, <3>1, <3>2, <3>3, <3>4, Mended
  <2>4. CASE ~IsOpen
    <3>1. PICK a : Then(<<a>>)
      BY <1>4, <2>4 DEF ChangeRecordIndex
    <3>2. ~IsOpen'
      BY <2>2, <2>4 DEF IsOpen
    <3>3. QED
      BY <1>2, <2>2, <3>1, <3>2, TupleIsSeq, Mended
  <2>5. QED
    BY <2>3, <2>4
<1>5. QED
  BY <1>3, <1>4

LEMMA FollowStep ==
  ASSUME IInv, NeverCut', FollowInObjectView
  PROVE  IInv'
<1>1. todo # <<>> /\ UNCHANGED window /\ IsWindow'
  BY DEF FollowInObjectView, Runs, IInv, IsWindow
<1>2. CASE window.record = Nearest
  <2>1. Then(<<>>)
    BY <1>2 DEF FollowInObjectView, Nearest, Return
  <2>2. QED
    BY <1>1, <1>2, <2>1, TupleIsSeq, Passive
<1>3. CASE window.record # Nearest
  <2>1. PICK c : Then(<< <<"ChangePhiAndTheta", c.phi, c.theta>> >>)
    BY <1>3 DEF FollowInObjectView, Nearest
  <2>2. PICK a : a = <<"ChangePhiAndTheta", c.phi, c.theta>>
    OBVIOUS
  <2>3. IsSeq(<<a>>) /\ a \in Pending(<<a>>)
    BY TupleIsSeq
  <2>4. Mends(a)'
    <3>1. a[1] = "ChangePhiAndTheta"
      BY <2>2
    <3>2. QED
      BY <3>1 DEF Mends
  <2>5. QED
    BY <1>1, <2>1, <2>2, <2>3, <2>4, Mended
<1>4. QED
  BY <1>2, <1>3

\* The object view asks for the record nearest to its new direction.
LEMMA ObjectViewSteps ==
  ASSUME IInv, NeverCut', ChangePhi \/ ChangeTheta \/ ChangePhiAndTheta
  PROVE  IInv'
<1>1. DOMAIN window = Members
  BY DEF IInv, IsWindow
<1>2. todo # <<>>
  BY DEF ChangePhi, ChangeTheta, ChangePhiAndTheta, Runs
<1>3. PICK phi, theta, before, after :
        ObjectView(phi, theta, before, after) /\ IsSeq(before) /\ IsSeq(after)
  <2>1. CASE ChangePhi
    <3>1. \E phi, theta, a, b : ObjectView(phi, theta, <<a, b>>, <<>>)
      BY <2>1 DEF ChangePhi
    <3>2. QED
      BY <3>1, TupleIsSeq
  <2>2. CASE ChangeTheta
    <3>1. \E phi, theta, a : ObjectView(phi, theta, <<>>, <<a>>)
      BY <2>2 DEF ChangeTheta
    <3>2. QED
      BY <3>1, TupleIsSeq
  <2>3. CASE ChangePhiAndTheta
    <3>1. \E phi, theta, a, b : ObjectView(phi, theta, <<>>, <<a, b>>)
      BY <2>3 DEF ChangePhiAndTheta
    <3>2. QED
      BY <3>1, TupleIsSeq
  <2>4. QED
    BY <2>1, <2>2, <2>3
<1>4. PICK ask, tell : /\ ask = <<"ChangeRecordIndex", NearestInObject(phi, theta)>>
                       /\ tell = <<"SetIndicator", OutOfBoundsInObject(phi, theta)>>
  OBVIOUS
<1>5. PICK middle : middle = IF IsOpen THEN <<ask, tell>> ELSE <<>>
  OBVIOUS
<1>6. Then(before \o middle \o after)
      /\ window' = [window EXCEPT !.phi = phi, !.theta = theta]
  BY <1>3, <1>4, <1>5 DEF ObjectView
<1>7. IsWindow' /\ window'.file = window.file
      /\ window'.phi = phi /\ window'.theta = theta
  BY <1>1, <1>6 DEF IsWindow, Members
<1>8. IsSeq(middle) /\ (IsOpen => ask \in Pending(middle))
  BY <1>5, TupleIsSeq
<1>9. IsSeq(before \o middle) /\ Pending(before \o middle) = Pending(before) \cup Pending(middle)
  BY <1>3, <1>8, ConcatIsSeq
<1>10. IsSeq((before \o middle) \o after)
       /\ Pending((before \o middle) \o after) = Pending(before \o middle) \cup Pending(after)
  BY <1>3, <1>9, ConcatIsSeq
<1>11. IsOpen' => ask \in Pending((before \o middle) \o after)
  BY <1>7, <1>8, <1>9, <1>10 DEF IsOpen
<1>12. Mends(ask)'
  <2>1. Nearest' = NearestInObject(phi, theta)
    BY <1>7 DEF Nearest, NearestInObject, NearestInData
  <2>2. QED
    BY <1>4, <2>1 DEF Mends
<1>13. QED
  BY <1>2, <1>6, <1>7, <1>10, <1>11, <1>12, Mended

\* Opening ends with the front direction.
LEMMA OpeningSteps ==
  ASSUME IInv, NeverCut', OpenDAFFFile \/ LoadContent
  PROVE  IInv'
<1>1. DOMAIN window = Members
  BY DEF IInv, IsWindow
<1>2. CASE OpenDAFFFile
  <2>1. todo # <<>>
    BY <1>2 DEF OpenDAFFFile, Runs
  <2>2. \E f : window' = [window EXCEPT !.file = f]
    BY <1>2 DEF OpenDAFFFile
  <2>3. IsWindow'
    BY <1>1, <2>2 DEF IsWindow
  <2>4. CASE Arg = NoFile
    <3>1. window'.file = NoFile /\ Then(<<>>)
      BY <1>1, <1>2, <2>4 DEF OpenDAFFFile, Return, Members
    <3>2. ~IsOpen'
      BY <3>1 DEF IsOpen
    <3>3. QED
      BY <2>1, <2>3, <3>1, <3>2, TupleIsSeq, Mended
  <2>5. CASE Arg # NoFile
    <3>1. PICK load : load = <<"LoadContent">>
      OBVIOUS
    <3>2. Then(<<load>>)
      BY <1>2, <2>5, <3>1 DEF OpenDAFFFile
    <3>3. Mends(load)'
      <4>1. load[1] = "LoadContent"
        BY <3>1
      <4>2. QED
        BY <4>1 DEF Mends
    <3>4. IsSeq(<<load>>) /\ load \in Pending(<<load>>)
      BY TupleIsSeq
    <3>5. QED
      BY <2>1, <2>3, <3>2, <3>3, <3>4, Mended
  <2>6. QED
    BY <2>4, <2>5
<1>3. CASE LoadContent
  <2>1. todo # <<>> /\ UNCHANGED window /\ IsWindow'
    BY <1>3 DEF LoadContent, Runs, IInv, IsWindow
  <2>2. PICK front : front = <<"ChangePhiAndTheta", 0, 0>>
    OBVIOUS
  <2>3. PICK boxes, selector :
          IsSeq(boxes) /\ IsSeq(selector) /\ Then(boxes \o selector \o <<front>>)
    <3>1. PICK a, b, c, d, e, f, g, h, i :
            Then(<<a, b, c, d, e, f>>
                 \o (IF IsSpectrum(window.file) THEN <<g, h, i>> ELSE <<h, i, <<"setCurrentIndex", 0>>>>)
                 \o <<front>>)
      BY <1>3, <2>2 DEF LoadContent
    <3>2. PICK selector : selector = IF IsSpectrum(window.file) THEN <<g, h, i>>
                                     ELSE <<h, i, <<"setCurrentIndex", 0>>>>
      OBVIOUS
    <3>3. IsSeq(selector) /\ IsSeq(<<a, b, c, d, e, f>>)
      BY <3>2, TupleIsSeq, LongTupleIsSeq
    <3>4. Then(<<a, b, c, d, e, f>> \o selector \o <<front>>)
      BY <3>1, <3>2
    <3>5. QED
      BY <3>3, <3>4
  <2>4. IsSeq(<<front>>) /\ front \in Pending(<<front>>)
    BY TupleIsSeq
  <2>5. IsSeq(boxes \o selector)
    BY <2>3, ConcatIsSeq
  <2>6. IsSeq((boxes \o selector) \o <<front>>)
        /\ front \in Pending((boxes \o selector) \o <<front>>)
    BY <2>4, <2>5, ConcatIsSeq
  <2>7. Mends(front)'
    <3>1. front[1] = "ChangePhiAndTheta"
      BY <2>2
    <3>2. QED
      BY <3>1 DEF Mends
  <2>8. QED
    BY <2>1, <2>3, <2>6, <2>7, Mended
<1>4. QED
  BY <1>2, <1>3

\* The user acts when no call is left to run, and all but closing the file leave
\* record and direction alone.
LEMMA UserSteps ==
  ASSUME IInv, User
  PROVE  IInv'
<1>1. DOMAIN window = Members
  BY DEF IInv, IsWindow
<1>2. CASE on_actionClose
  <2>1. window' = [window EXCEPT !.file = NoFile] /\ UNCHANGED todo
    BY <1>2 DEF on_actionClose
  <2>2. IsWindow' /\ ~IsOpen' /\ IsSeq(todo')
    BY <1>1, <2>1 DEF IsWindow, IsOpen, Members, IInv
  <2>3. QED
    BY <2>2 DEF IInv, Following
<1>3. CASE ~on_actionClose
  <2>1. ASSUME NEW v, NEW i,
               window' \in {window, [window EXCEPT !.frequency = v],
                            [window EXCEPT !.channel = v]}
        PROVE  IsWindow' /\ window'.file = window.file /\ window'.record = window.record
               /\ window'.phi = window.phi /\ window'.theta = window.theta
    BY <1>1, <2>1 DEF IsWindow, Members
  <2>2. Quiet /\ IsSeq(todo')
        /\ \E v : window' \in {window, [window EXCEPT !.frequency = v],
                               [window EXCEPT !.channel = v]}
    <3>1. CASE IncreaseFrequencyIndex \/ DecreaseFrequencyIndex
      <4>1. PICK v : Menu(EmitFrequency(v)) /\ window' = [window EXCEPT !.frequency = v]
        BY <3>1 DEF IncreaseFrequencyIndex, DecreaseFrequencyIndex
      <4>2. IsSeq(EmitFrequency(v))
        BY LongTupleIsSeq DEF EmitFrequency
      <4>3. QED
        BY <4>1, <4>2 DEF Menu
    <3>2. CASE IncreaseChannelIndex \/ DecreaseChannelIndex
      <4>1. PICK v : Menu(EmitChannel(v)) /\ window' = [window EXCEPT !.channel = v]
        BY <3>2 DEF IncreaseChannelIndex, DecreaseChannelIndex
      <4>2. IsSeq(EmitChannel(v))
        BY TupleIsSeq DEF EmitChannel
      <4>3. QED
        BY <4>1, <4>2 DEF Menu
    <3>3. CASE \/ IncreaseAlpha \/ DecreaseAlpha \/ IncreaseBeta \/ DecreaseBeta
               \/ StepPhi \/ StepTheta \/ UserTypes \/ UserPicks \/ on_actionOpen
      <4>1. UNCHANGED window /\ \E a : Menu(<<a>>)
        BY <3>3 DEF IncreaseAlpha, DecreaseAlpha, IncreaseBeta, DecreaseBeta,
                    StepPhi, StepTheta, UserTypes, UserPicks, on_actionOpen
      <4>2. QED
        BY <4>1, TupleIsSeq DEF Menu
    <3>4. QED
      BY <1>3, <3>1, <3>2, <3>3 DEF User
  <2>3. IsWindow' /\ window'.file = window.file /\ window'.record = window.record
        /\ window'.phi = window.phi /\ window'.theta = window.theta
    BY <2>1, <2>2
  <2>4. IsOpen => window.record = Nearest
    <3>1. Pending(todo) = {}
      BY <2>2, TupleIsSeq DEF Quiet
    <3>2. QED
      BY <3>1 DEF IInv, Following
  <2>5. Nearest' = Nearest /\ IsOpen' = IsOpen
    BY <2>3 DEF Nearest, NearestInObject, NearestInData, IsOpen
  <2>6. QED
    BY <2>2, <2>3, <2>4, <2>5 DEF IInv, Following
<1>4. QED
  BY <1>2, <1>3

LEMMA CallSteps ==
  ASSUME IInv, NeverCut', Call
  PROVE  IInv'
BY BoxSteps, TellingSteps, FrequencyAndChannelSteps, DataViewSteps, RecordStep,
   FollowStep, ObjectViewSteps, OpeningSteps DEF Call

LEMMA InitIInv == Init => IInv
<1> SUFFICES ASSUME Init PROVE IInv
  OBVIOUS
<1>1. IsWindow /\ ~IsOpen
  <2>1. window \in [file : {NoFile}, channel : {0}, frequency : {0},
                    record : UnsetRecords, alpha : {0}, beta : {QuarterTurn},
                    phi : {0}, theta : {0}]
    BY DEF Init
  <2>2. QED
    BY <2>1 DEF IsWindow, IsOpen, Members
<1>2. IsSeq(todo)
  <2>1. PICK front : ShowFront = <<front>>
    BY DEF ShowFront
  <2>2. IsSeq(<<front>>) /\ \A a : IsSeq(<<a>> \o <<front>>)
    BY TupleIsSeq, ConcatIsSeq
  <2>3. todo = <<front>> \/ \E a : todo = <<a>> \o <<front>>
    BY <2>1 DEF Init
  <2>4. QED
    BY <2>2, <2>3
<1>3. QED
  BY <1>1, <1>2 DEF IInv, Following

-----------------------------------------------------------------------------
(* The theorem.                                                            *)

\* When all calls have returned, the selected record is the one nearest to the
\* direction of the object view, for any files and any answers of the reader:
\* data view, object view and record call each other in circles, and whichever of
\* them ends first is put right by one that is left to run.  (Of a recursion
\* without end, which the program does not survive, nothing is said: NeverCut.)
THEOREM NearestIsSelected == Spec /\ []NeverCut => []RecordIsNearest
<1>1. IInv /\ NeverCut' /\ [Next]_vars => IInv'
  <2> SUFFICES ASSUME IInv, NeverCut', [Next]_vars PROVE IInv'
    OBVIOUS
  <2>1. CASE UNCHANGED vars
    BY <2>1 DEF vars, IInv, IsWindow, Following, IsOpen, Mends, Nearest,
                NearestInObject, NearestInData
  <2>2. QED
    BY <2>1, CallSteps, UserSteps DEF Next
<1>2. IInv => RecordIsNearest
  <2> SUFFICES ASSUME IInv, Quiet, IsOpen PROVE window.record = Nearest
    BY DEF RecordIsNearest, Nearest
  <2>1. Pending(todo) = {}
    BY TupleIsSeq DEF Quiet
  <2>2. QED
    BY <2>1 DEF IInv, Following
<1>3. QED
  BY InitIInv, <1>1, <1>2, PTL DEF Spec

-----------------------------------------------------------------------------
(* What the plots draw.                                                    *)

\* The first of the calls runs next.
LEMMA PushedRunsNext ==
  ASSUME IsSeq(todo), todo # <<>>, NeverCut', NEW calls, IsSeq(calls), Then(calls),
         calls # <<>>
  PROVE  todo' # <<>> /\ Head(todo') = Head(calls)
<1>1. todo' = calls \o Tail(todo)
  BY PushedIs
<1>2. IsSeq(Tail(todo))
  BY TailIsSeq
<1>3. PICK S, T : calls \in Seq(S) /\ Tail(todo) \in Seq(T)
  BY <1>2 DEF IsSeq
<1>4. PICK U : U = S \cup T
  OBVIOUS
<1>5. calls \in Seq(U) /\ Tail(todo) \in Seq(U)
  BY <1>3, <1>4
<1>6. Len(calls) \in Nat \ {0} /\ Len(Tail(todo)) \in Nat
  BY <1>5
<1>7. calls \o Tail(todo) \in Seq(U) /\ Len(calls \o Tail(todo)) >= 1
      /\ (calls \o Tail(todo))[1] = calls[1]
  BY <1>5, <1>6
<1>8. QED
  BY <1>1, <1>5, <1>7

LEMMA TailOrdered ==
  ASSUME NEW s, IsSeq(s), s # <<>>, Ordered(s)
  PROVE  Ordered(Tail(s)) /\ \A d \in Pending(Tail(s)) : Before(Head(s), d)
<1>1. PICK S : s \in Seq(S)
  BY DEF IsSeq
<1>2. Len(s) \in Nat \ {0} /\ Len(Tail(s)) = Len(s) - 1 /\ Head(s) = s[1]
  BY <1>1
<1>3. \A i \in 1 .. Len(s) - 1 : Tail(s)[i] = s[i + 1]
  BY <1>1
<1>4. ASSUME NEW i \in 1 .. Len(Tail(s)), NEW j \in 1 .. Len(Tail(s)), i < j
      PROVE  Before(Tail(s)[i], Tail(s)[j])
  <2>1. i + 1 \in 1 .. Len(s) /\ j + 1 \in 1 .. Len(s) /\ i + 1 < j + 1
    BY <1>2, <1>4
  <2>2. Before(s[i + 1], s[j + 1])
    BY <2>1 DEF Ordered
  <2>3. QED
    BY <1>2, <1>3, <2>2
<1>5. ASSUME NEW d \in Pending(Tail(s)) PROVE Before(Head(s), d)
  <2>1. PICK i \in 1 .. Len(s) - 1 : d = Tail(s)[i]
    BY <1>2 DEF Pending
  <2>2. 1 \in 1 .. Len(s) /\ i + 1 \in 1 .. Len(s) /\ 1 < i + 1
    BY <1>2
  <2>3. Before(s[1], s[i + 1])
    BY <2>2 DEF Ordered
  <2>4. QED
    BY <1>2, <1>3, <2>1, <2>3
<1>6. QED
  BY <1>4, <1>5 DEF Ordered

LEMMA ConcatOrdered ==
  ASSUME NEW s, NEW t, IsSeq(s), IsSeq(t), Ordered(s), Ordered(t),
         \A c \in Pending(s), d \in Pending(t) : Before(c, d)
  PROVE  Ordered(s \o t)
<1>1. PICK S, T : s \in Seq(S) /\ t \in Seq(T)
  BY DEF IsSeq
<1>2. PICK U : U = S \cup T
  OBVIOUS
<1>3. s \in Seq(U) /\ t \in Seq(U)
  BY <1>1, <1>2
<1>4. Len(s) \in Nat /\ Len(t) \in Nat /\ Len(s \o t) = Len(s) + Len(t)
  BY <1>3
<1>5. \A i \in 1 .. Len(s) : (s \o t)[i] = s[i]
  BY <1>3
<1>6. \A i \in 1 .. Len(t) : (s \o t)[Len(s) + i] = t[i]
  BY <1>3
<1>7. ASSUME NEW i \in 1 .. Len(s \o t), NEW j \in 1 .. Len(s \o t), i < j
      PROVE  Before((s \o t)[i], (s \o t)[j])
  <2>1. CASE j \in 1 .. Len(s)
    <3>1. i \in 1 .. Len(s)
      BY <1>4, <1>7, <2>1
    <3>2. Before(s[i], s[j])
      BY <1>7, <2>1, <3>1 DEF Ordered
    <3>3. QED
      BY <1>5, <2>1, <3>1, <3>2
  <2>2. CASE j \notin 1 .. Len(s)
    <3>1. PICK n \in 1 .. Len(t) : j = Len(s) + n
      <4>1. j - Len(s) \in 1 .. Len(t) /\ j = Len(s) + (j - Len(s))
        BY <1>4, <2>2
      <4>2. QED
        BY <4>1
    <3>2. (s \o t)[j] = t[n]
      BY <1>6, <3>1
    <3>3. CASE i \in 1 .. Len(s)
      <4>1. (s \o t)[i] = s[i] /\ s[i] \in Pending(s) /\ t[n] \in Pending(t)
        BY <1>5, <3>3 DEF Pending
      <4>2. QED
        BY <3>2, <4>1
    <3>4. CASE i \notin 1 .. Len(s)
      <4>1. PICK m \in 1 .. Len(t) : i = Len(s) + m
        <5>1. i - Len(s) \in 1 .. Len(t) /\ i = Len(s) + (i - Len(s))
          BY <1>4, <3>4
        <5>2. QED
          BY <5>1
      <4>2. (s \o t)[i] = t[m]
        BY <1>6, <4>1
      <4>3. m < n
        BY <1>4, <1>7, <3>1, <4>1
      <4>4. Before(t[m], t[n])
        BY <4>3 DEF Ordered
      <4>5. QED
        BY <3>2, <4>2, <4>4
    <3>5. QED
      BY <3>3, <3>4
  <2>3. QED
    BY <2>1, <2>2
<1>8. QED
  BY <1>7 DEF Ordered

LEMMA PlainOrdered ==
  ASSUME NEW s, \A c \in Pending(s) : ~IsFirst(c) /\ Rank(c) = 0
  PROVE  Ordered(s)
<1>1. ASSUME NEW c \in Pending(s), NEW d \in Pending(s) PROVE Before(c, d)
  <2>1. ~Begins(c) /\ ~IsFirst(d) /\ Rank(d) = 0
    BY DEF IsFirst
  <2>2. QED
    BY <2>1 DEF Before
<1>2. QED
  BY <1>1 DEF Ordered, Pending

LEMMA OrderedStep ==
  ASSUME IsSeq(todo), todo # <<>>, NeverCut', NEW calls, IsSeq(calls), Then(calls),
         Ordered(todo), Ordered(calls),
         \A c \in Pending(calls) :
           Begins(Head(todo)) \/ (~Begins(c) /\ Rank(c) <= Rank(Head(todo)))
  PROVE  Ordered(todo')
<1>1. todo' = calls \o Tail(todo)
  BY PushedIs
<1>2. IsSeq(Tail(todo)) /\ Ordered(Tail(todo))
      /\ \A d \in Pending(Tail(todo)) : Before(Head(todo), d)
  BY TailIsSeq, TailOrdered
<1>3. ASSUME NEW c \in Pending(calls), NEW d \in Pending(Tail(todo)) PROVE Before(c, d)
  <2>1. Before(Head(todo), d)
    BY <1>2
  <2>2. CASE Begins(Head(todo))
    <3>1. d[1] = "ChangePhiAndTheta" /\ ~IsFirst(d)
      BY <2>1, <2>2 DEF Before
    <3>2. Rank(d) = 0
      BY <3>1 DEF Rank, SetsRange
    <3>3. QED
      BY <3>1, <3>2 DEF Before
  <2>3. CASE ~Begins(Head(todo))
    <3>1. ~Begins(c) /\ Rank(c) <= Rank(Head(todo))
      BY <2>3
    <3>2. \A x : Rank(x) \in Int
      BY DEF Rank
    <3>3. ~IsFirst(d) /\ (Rank(d) = 0 \/ Rank(Head(todo)) < Rank(d))
      BY <2>1 DEF Before
    <3>4. PICK p, q, r \in Int : p = Rank(c) /\ q = Rank(Head(todo)) /\ r = Rank(d)
      BY <3>2
    <3>5. r = 0 \/ p < r
      BY <3>1, <3>3, <3>4
    <3>6. QED
      BY <3>1, <3>3, <3>4, <3>5 DEF Before
  <2>4. QED
    BY <2>2, <2>3
<1>4. Ordered(calls \o Tail(todo))
  BY <1>2, <1>3, ConcatOrdered
<1>5. QED
  BY <1>1, <1>4

-----------------------------------------------------------------------------
(* Calls that do not open another file.                                    *)

LEMMA SamePending ==
  ASSUME NEW calls, Keeps(calls)
  PROVE  /\ IsSeq(todo') /\ Pending(todo') = Pending(calls) \cup Pending(Tail(todo))
         /\ Pending(todo) = {Head(todo)} \cup Pending(Tail(todo))
         /\ \A d \in Pending(Tail(todo)) : Before(Head(todo), d)
         /\ IsOpen' = IsOpen /\ IsSpectral' = IsSpectral
         /\ LastFrequency' = LastFrequency /\ file' = file
         /\ Records(window.file)' = Records(window.file)
         /\ Frequencies(window.file)' = Frequencies(window.file)
<1>1. IsSeq(todo') /\ Pending(todo') = Pending(calls) \cup Pending(Tail(todo))
  BY Pushed DEF Keeps, VInv
<1>2. Pending(todo) = {Head(todo)} \cup Pending(Tail(todo))
  BY TailIsSeq DEF Keeps, VInv
<1>3. \A d \in Pending(Tail(todo)) : Before(Head(todo), d)
  BY TailOrdered DEF Keeps, VInv
<1>4. IsOpen' = IsOpen /\ IsSpectral' = IsSpectral
      /\ LastFrequency' = LastFrequency /\ file' = file
  BY DEF Keeps, IsOpen, IsSpectral, LastFrequency, file
<1>5. Records(window.file)' = Records(window.file)
      /\ Frequencies(window.file)' = Frequencies(window.file)
  BY DEF Keeps, Records, Frequencies
<1>6. QED
  BY <1>1, <1>2, <1>3, <1>4, <1>5

LEMMA CallsStay ==
  ASSUME NEW calls, Keeps(calls)
  PROVE  /\ Calls' /\ (IsOpen => \A c \in Pending(todo') : HasRecord(c)')
         /\ IsSpectral => \A c \in Pending(todo') : HasFrequency(c)'
<1> SUFFICES ASSUME NEW c \in Pending(todo')
             PROVE  /\ TypedCall(c)' /\ (IsOpen => HasRecord(c)')
                    /\ IsSpectral => HasFrequency(c)'
  BY DEF Calls
<1>1. c \in Pending(calls) \/ c \in Pending(todo)
  BY SamePending
<1>2. Served(c)
  BY <1>1 DEF Keeps, VInv, Calls, Served, RecordIsServed, FrequencyIsServed
<1>3. TypedCall(c)'
  BY <1>2, SamePending DEF Served, TypedCall
<1>4. HasRecord(c)' = HasRecord(c)
  BY SamePending DEF HasRecord
<1>5. HasFrequency(c)' = HasFrequency(c)
  BY SamePending DEF HasFrequency
<1>6. QED
  BY <1>2, <1>3, <1>4, <1>5 DEF Served

LEMMA RecordStays ==
  ASSUME NEW calls, Keeps(calls), IsOpen, plot'.record \in Records(window.file),
         \/ window'.record \in Records(window.file)
         \/ todo' # <<>> /\ Corrects(Head(todo'))
         \/ /\ window'.record = window.record /\ ~Corrects(Head(todo))
            /\ \A c \in Pending(calls) : c[1] # "EmitRecord"
  PROVE  RecordIsServed'
<1>1. \A c : Corrects(c)' = Corrects(c)
  BY SamePending DEF Corrects
<1>2. RecordIsServed
  BY DEF Keeps, VInv
<1>3. \/ window'.record \in Records(window.file)
      \/ todo' # <<>> /\ Corrects(Head(todo'))
      \/ ~Waits("EmitRecord")'
  <2> SUFFICES ASSUME window'.record = window.record, ~Corrects(Head(todo)),
                      \A c \in Pending(calls) : c[1] # "EmitRecord",
                      window.record \notin Records(window.file)
               PROVE  ~Waits("EmitRecord")'
    OBVIOUS
  <2>1. ~Waits("EmitRecord")
    BY <1>2 DEF RecordIsServed
  <2>2. QED
    BY <2>1, SamePending DEF Waits
<1>4. QED
  BY <1>1, <1>3, CallsStay, SamePending DEF RecordIsServed

LEMMA SelectorStays ==
  ASSUME NEW calls, Keeps(calls), IsSpectral,
         Head(todo)[1] \notin {"LoadContent", "clear", "FillSelector", "addItem"},
         \A c \in Pending(calls) : c[1] \notin {"addItem", "clear", "FillSelector"},
         combo'.count = combo.count
  PROVE  Selector'
<1>1. ASSUME NEW name \in {"addItem", "clear", "FillSelector"}
      PROVE  Waits(name)' = Waits(name)
  BY SamePending DEF Waits
<1>2. \/ Waits("clear") /\ <<"FillSelector", 0>> \in Pending(todo)
      \/ ~Waits("clear") /\ Filled(combo.count)
  BY DEF Keeps, VInv, FrequencyIsServed, Selector, IsNext
<1>3. CASE Waits("clear") /\ <<"FillSelector", 0>> \in Pending(todo)
  <2>1. <<"FillSelector", 0>> \in Pending(todo')
    <3>1. <<"FillSelector", 0>>[1] = "FillSelector"
      OBVIOUS
    <3>2. QED
      BY <1>3, <3>1, SamePending
  <2>2. Waits("clear")'
    BY <1>1, <1>3
  <2>3. QED
    BY <2>1, <2>2 DEF Selector
<1>4. CASE ~Waits("clear") /\ Filled(combo.count)
  <2>1. \A c \in Pending(todo') : c[1] = "FillSelector" => c \in Pending(todo)
    BY SamePending
  <2>2. Waits("addItem")' = Waits("addItem") /\ file' = file
    BY <1>1, SamePending
  <2>3. Filled(combo.count)'
    BY <1>4, <2>1, <2>2 DEF Filled
  <2>4. ~Waits("clear")'
    BY <1>1, <1>4
  <2>5. QED
    BY <2>3, <2>4 DEF Selector
<1>5. QED
  BY <1>2, <1>3, <1>4

LEMMA ChosenStays ==
  ASSUME NEW calls, Keeps(calls), IsSpectral,
         Head(todo)[1] \notin {"LoadContent", "clear", "FillSelector", "addItem"},
         combo = [count |-> 0, index |-> -1] => combo' = combo,
         \/ window'.frequency \in Frequencies(window.file)
         \/ /\ window'.frequency = window.frequency
            /\ ~(/\ Head(todo)[1] = "ChangeFrequencyIndex"
                 /\ Head(todo)[2] \in Frequencies(window.file))
  PROVE  Chosen'
<1>1. Frequencies(window.file)' = Frequencies(window.file)
  BY SamePending
<1>2. CASE window'.frequency \in Frequencies(window.file)
  BY <1>1, <1>2 DEF Chosen
<1>3. CASE /\ window'.frequency = window.frequency
           /\ ~(/\ Head(todo)[1] = "ChangeFrequencyIndex"
                /\ Head(todo)[2] \in Frequencies(window.file))
  <2>1. \A c \in Pending(todo) : c = Head(todo) \/ c \in Pending(todo')
    BY SamePending
  <2>2. Waits("clear") => Waits("clear")'
    BY <2>1 DEF Waits
  <2>3. Waits("addItem") => Waits("addItem")'
    BY <2>1 DEF Waits
  <2>4. <<"FillSelector", 0>> \in Pending(todo) => <<"FillSelector", 0>> \in Pending(todo')
    <3>1. <<"FillSelector", 0>>[1] = "FillSelector"
      OBVIOUS
    <3>2. QED
      BY <2>1, <3>1
  <2>5. ASSUME NEW c \in Pending(todo), c[1] = "ChangeFrequencyIndex",
               c[2] \in Frequencies(window.file)
        PROVE  c \in Pending(todo')
    BY <1>3, <2>1, <2>5
  <2>6. ~IsNext("LoadContent") /\ Chosen
    BY DEF Keeps, VInv, FrequencyIsServed, IsNext
  <2>7. CASE Waits("clear")
    BY <2>2, <2>7 DEF Chosen
  <2>8. CASE /\ combo = [count |-> 0, index |-> -1]
             /\ <<"FillSelector", 0>> \in Pending(todo) \/ Waits("addItem")
    BY <2>3, <2>4, <2>8 DEF Chosen
  <2>9. CASE \E c \in Pending(todo) :
               c[1] = "ChangeFrequencyIndex" /\ c[2] \in Frequencies(window.file)
    BY <1>1, <2>5, <2>9 DEF Chosen
  <2>10. CASE window.frequency \in Frequencies(window.file)
    BY <1>1, <1>3, <2>10 DEF Chosen
  <2>11. QED
    BY <2>6, <2>7, <2>8, <2>9, <2>10 DEF Chosen
<1>4. QED
  BY <1>2, <1>3

\* What is left to show of a step that stays with the file.
LEMMA KeepsStep ==
  ASSUME NEW calls, Keeps(calls), Ordered(todo'), IsOpen => RecordIsServed',
         IsSpectral => /\ vtk'.frequency \in Frequencies(window.file)
                       /\ Box' /\ Selector' /\ Chosen'
  PROVE  VInv'
<1>1. IsSeq(todo') /\ IsOpen' = IsOpen /\ IsSpectral' = IsSpectral /\ Types'
  BY SamePending DEF Keeps
<1>2. IsSpectral => FrequencyIsServed'
  BY CallsStay, SamePending DEF FrequencyIsServed
<1>3. QED
  BY <1>1, <1>2, CallsStay DEF VInv

LEMMA FineCalls ==
  ASSUME NEW c, ~IsFirst(c), Rank(c) = 0
  PROVE  c[1] \notin {"OpenDAFFFile", "LoadContent", "addItem", "clear", "FillSelector"}
         /\ ~SetsRange(c)
<1>1. ~SetsRange(c)
  BY DEF Rank
<1>2. QED
  BY <1>1 DEF Rank, IsFirst, Begins

LEMMA OrderStays ==
  ASSUME NEW calls, Keeps(calls), \A c \in Pending(calls) : ~IsFirst(c) /\ Rank(c) = 0
  PROVE  Ordered(todo')
<1>1. Ordered(calls)
  BY PlainOrdered
<1>2. ASSUME NEW c \in Pending(calls) PROVE ~Begins(c) /\ Rank(c) <= Rank(Head(todo))
  <2>1. ~Begins(c) /\ Rank(c) = 0
    BY DEF IsFirst
  <2>2. Rank(Head(todo)) >= 0
    BY DEF Rank
  <2>3. QED
    BY <2>1, <2>2
<1>3. QED
  BY <1>1, <1>2, OrderedStep DEF Keeps, VInv

LEMMA BoxStays ==
  ASSUME NEW calls, Keeps(calls), IsSpectral, Head(todo)[1] # "LoadContent",
         ~SetsRange(Head(todo)), \A c \in Pending(calls) : UsesBox(c) => BoxIsSet,
         spin'["frequency"].max = spin["frequency"].max
  PROVE  Box'
<1>1. Box
  BY DEF Keeps, VInv, FrequencyIsServed
<1>2. BoxIsSet' = BoxIsSet
  BY SamePending DEF BoxIsSet
<1>3. \A c \in Pending(todo') : UsesBox(c) => BoxIsSet
  BY <1>1, SamePending DEF Box
<1>4. (\E c \in Pending(todo) : SetsRange(c)) \/ BoxIsSet
  BY <1>1 DEF Box, IsNext
<1>5. (\E c \in Pending(todo') : SetsRange(c)) \/ BoxIsSet
  BY <1>4, SamePending
<1>6. QED
  BY <1>2, <1>3, <1>5 DEF Box

\* The step of a call that does not open a file.
LEMMA StaysStep ==
  ASSUME NEW calls, Stays(calls),
         Head(todo)[1] \notin {"OpenDAFFFile", "LoadContent", "clear", "FillSelector",
                              "addItem"},
         ~SetsRange(Head(todo)),
         IsOpen => /\ plot'.record \in Records(window.file)
                   /\ \/ window'.record \in Records(window.file)
                      \/ todo' # <<>> /\ Corrects(Head(todo'))
                      \/ /\ window'.record = window.record /\ ~Corrects(Head(todo))
                         /\ \A c \in Pending(calls) : c[1] # "EmitRecord",
         IsSpectral => /\ vtk'.frequency \in Frequencies(window.file)
                       /\ \/ window'.frequency \in Frequencies(window.file)
                          \/ /\ window'.frequency = window.frequency
                             /\ ~(/\ Head(todo)[1] = "ChangeFrequencyIndex"
                                  /\ Head(todo)[2] \in Frequencies(window.file)),
         combo'.count = combo.count,
         combo = [count |-> 0, index |-> -1] => combo' = combo
  PROVE  VInv'
<1>1. Keeps(calls) /\ spin'["frequency"].max = spin["frequency"].max
      /\ \A c \in Pending(calls) : /\ ~IsFirst(c) /\ Rank(c) = 0
                                   /\ IsSpectral => (UsesBox(c) => BoxIsSet)
  BY DEF Stays, IsFine
<1>2. Ordered(todo')
  BY <1>1, OrderStays
<1>3. IsOpen => RecordIsServed'
  BY <1>1, RecordStays
<1>4. IsSpectral => Box'
  BY <1>1, BoxStays
<1>5. IsSpectral => Selector'
  BY <1>1, FineCalls, SelectorStays
<1>6. IsSpectral => Chosen'
  BY <1>1, ChosenStays
<1>7. QED
  BY <1>1, <1>2, <1>3, <1>4, <1>5, <1>6, KeepsStep

\* Calls that are fine whatever they tell.
LEMMA FineTellings ==
  /\ \A name \in {"EmitRecord", "EmitAlpha", "EmitBeta", "EmitPhi", "EmitTheta"} :
       IsFine(<<name>>)
  /\ IsOpen => IsFine(<<"FollowInObjectView">>)
  /\ \A name \in {"ChangeChannelIndex", "SetIndicator"} : \A v : IsFine(<<name, v>>)
  /\ \A v \in Int :
       \A name \in {"ChangeAlpha", "ChangeBeta", "ChangePhi", "ChangeTheta",
                    "ChangeRecordIndex"} :
         IsFine(<<name, v>>)
  /\ \A name \in {"ChangePhiAndTheta", "ChangeAlphaAndBeta"} : \A v, w \in Int :
       IsFine(<<name, v, w>>)
<1> USE DEF IsFine, Served, TypedCall, IsFirst, Begins, Rank, SetsRange, HasRecord,
            HasFrequency, UsesBox
<1>1. ASSUME NEW name \in {"EmitRecord", "EmitAlpha", "EmitBeta", "EmitPhi", "EmitTheta",
                          "FollowInObjectView"},
             name = "FollowInObjectView" => IsOpen
      PROVE  IsFine(<<name>>)
  <2>1. PICK c : c = <<name>>
    OBVIOUS
  <2>2. c[1] = name
    BY <2>1
  <2>3. IsFine(c)
    BY <1>1, <2>2
  <2>4. QED
    BY <2>1, <2>3
<1>2. ASSUME NEW name \in {"ChangeChannelIndex", "SetIndicator"}, NEW v
      PROVE  IsFine(<<name, v>>)
  <2>1. PICK c : c = <<name, v>>
    OBVIOUS
  <2>2. c[1] = name
    BY <2>1
  <2>3. IsFine(c)
    BY <2>2
  <2>4. QED
    BY <2>1, <2>3
<1>3. ASSUME NEW v \in Int,
             NEW name \in {"ChangeAlpha", "ChangeBeta", "ChangePhi", "ChangeTheta",
                          "ChangeRecordIndex"}
      PROVE  IsFine(<<name, v>>)
  <2>1. PICK c : c = <<name, v>>
    OBVIOUS
  <2>2. c[1] = name /\ c[2] = v
    BY <2>1
  <2>3. IsFine(c)
    BY <2>2
  <2>4. QED
    BY <2>1, <2>3
<1>4. ASSUME NEW name \in {"ChangePhiAndTheta", "ChangeAlphaAndBeta"},
             NEW v \in Int, NEW w \in Int
      PROVE  IsFine(<<name, v, w>>)
  <2>1. PICK c : c = <<name, v, w>>
    OBVIOUS
  <2>2. c[1] = name /\ c[2] = v /\ c[3] = w
    BY <2>1
  <2>3. IsFine(c)
    BY <2>2
  <2>4. QED
    BY <2>1, <2>3
<1>5. QED
  BY <1>1, <1>2, <1>3, <1>4

LEMMA FineTold ==
  /\ \A name \in Spins \ {"frequency"} : \A v \in Int : IsFine(<<"setValue", name, v>>)
  /\ \A field \in {"channel", "angle", "phi", "theta"} : \A v : IsFine(<<"vtk", field, v>>)
  /\ \A field \in {"channel", "frequency"} : \A v : IsFine(<<"plot", field, v>>)
<1> USE DEF IsFine, Served, TypedCall, IsFirst, Begins, Rank, SetsRange, HasRecord,
            HasFrequency, UsesBox
<1>1. ASSUME NEW name \in Spins \ {"frequency"}, NEW v \in Int
      PROVE  IsFine(<<"setValue", name, v>>)
  <2>1. PICK c : c = <<"setValue", name, v>>
    OBVIOUS
  <2>2. c[1] = "setValue" /\ c[2] = name /\ c[3] = v
    BY <2>1
  <2>3. IsFine(c)
    BY <2>2
  <2>4. QED
    BY <2>1, <2>3
<1>2. ASSUME NEW field \in {"channel", "angle", "phi", "theta"}, NEW v
      PROVE  IsFine(<<"vtk", field, v>>)
  <2>1. PICK c : c = <<"vtk", field, v>>
    OBVIOUS
  <2>2. c[1] = "vtk" /\ c[2] = field
    BY <2>1
  <2>3. IsFine(c)
    BY <2>2
  <2>4. QED
    BY <2>1, <2>3
<1>3. ASSUME NEW field \in {"channel", "frequency"}, NEW v
      PROVE  IsFine(<<"plot", field, v>>)
  <2>1. PICK c : c = <<"plot", field, v>>
    OBVIOUS
  <2>2. c[1] = "plot" /\ c[2] = field
    BY <2>1
  <2>3. IsFine(c)
    BY <2>2
  <2>4. QED
    BY <2>1, <2>3
<1>4. QED
  BY <1>1, <1>2, <1>3

\* A call that keeps record, frequency, boxes and plots, and makes calls that
\* tell no record.
LEMMA TellStep ==
  ASSUME VInv, todo # <<>>, NeverCut', NEW calls, IsSeq(calls), Then(calls),
         Head(todo)[1] \notin {"OpenDAFFFile", "LoadContent", "clear", "FillSelector",
                              "addItem", "ChangeFrequencyIndex", "ChangeRecordIndex",
                              "ChangeAlphaAndBeta", "setMaximum"},
         \A c \in Pending(calls) : IsFine(c) /\ c[1] # "EmitRecord",
         Types', window'.file = window.file, window'.record = window.record,
         window'.frequency = window.frequency, UNCHANGED <<spin, combo, plot, vtk>>
  PROVE  VInv'
<1>1. Stays(calls)
  BY DEF Stays, Keeps, IsFine
<1>2. ~SetsRange(Head(todo)) /\ ~Corrects(Head(todo))
  BY DEF SetsRange, Corrects
<1>3. IsOpen => plot'.record \in Records(window.file)
  BY DEF VInv, RecordIsServed
<1>4. IsSpectral => vtk'.frequency \in Frequencies(window.file)
  BY DEF VInv, FrequencyIsServed
<1>5. QED
  BY <1>1, <1>2, <1>3, <1>4, StaysStep

-----------------------------------------------------------------------------
(* What the reader and the rotation answer.                                *)

LEMMA TurnType ==
  /\ Degree \in Nat \ {0} /\ QuarterTurn \in Int
  /\ \A x \in Int : FoldAlpha(x) \in Int /\ FoldBeta(x) \in Int
                   /\ Sin(x) \in Int /\ Cos(x) \in Int
<1>1. Degree \in Nat \ {0}
  BY ContentAssumption DEF Grid!GridAssumption
<1>2. QuarterTurn \in Int /\ QuarterTurn > 0 /\ Grid!FullTurn \in Int /\ Grid!FullTurn > 0
      /\ Grid!HalfTurn \in Int /\ Grid!HalfTurn > 0
  BY <1>1 DEF QuarterTurn, Grid!FullTurn, Grid!HalfTurn
<1>3. \A x, n \in Int : n > 0 => Grid!Fmod(x, n) \in Int
  BY DEF Grid!Fmod
<1>4. \A x \in Int : Sin(x) \in Int
  BY DEF Sin
<1>5. \A x \in Int : Cos(x) \in Int
  BY <1>2, <1>4 DEF Cos
<1>6. QED
  BY <1>1, <1>2, <1>3, <1>4, <1>5 DEF FoldAlpha, FoldBeta

LEMMA ProductType == \A x, y \in Int : x * y \in Int
  OBVIOUS

LEMMA RotationType ==
  ASSUME NEW o \in [{"yaw", "pitch", "roll"} -> Int]
  PROVE  RotationConstants(o) \in [t1 : Int, t2 : Int, t3 : Int, t4 : Int, t5 : Int,
                                   t6 : Int, t7 : Int, t8 : Int, t9 : Int]
<1>1. PICK sy, cy, sp, cp, sr, cr \in Int :
        /\ sy = Sin(o.yaw) /\ cy = Cos(o.yaw) /\ sp = Sin(o.pitch) /\ cp = Cos(o.pitch)
        /\ sr = Sin(o.roll) /\ cr = Cos(o.roll)
  BY TurnType
<1>2. PICK a, b, c, d, e, f, g, h, k, l \in Int :
        /\ a = cy * cr /\ b = (sy * sp) * sr /\ c = cy * sr /\ d = (sy * sp) * cr
        /\ e = sy * cp /\ f = sy * cr /\ g = (cy * sp) * sr /\ h = sy * sr
        /\ k = (cy * sp) * cr /\ l = cy * cp
  BY <1>1, ProductType
<1>3. PICK m, n \in Int : m = cp * sr /\ n = cp * cr
  BY <1>1, ProductType
<1>4. RotationConstants(o) =
        [t1 |-> a - b, t2 |-> c + d, t3 |-> e, t4 |-> -f - g, t5 |-> -h + k, t6 |-> l,
         t7 |-> m, t8 |-> n, t9 |-> sp]
  BY <1>1, <1>2, <1>3 DEF RotationConstants
<1>5. QED
  BY <1>4

\* The rotations turn whole angles into whole angles.
LEMMA TransformType ==
  ASSUME NEW t \in [t1 : Int, t2 : Int, t3 : Int, t4 : Int, t5 : Int, t6 : Int,
                    t7 : Int, t8 : Int, t9 : Int],
         NEW x \in Int, NEW y \in Int
  PROVE  /\ transformOSC2DSC(t, x, y) \in [alpha : Int, beta : Int]
         /\ transformDSC2OSC(t, x, y) \in [phi : Int, theta : Int]
<1>1. QuarterTurn \in Int /\ 2 * QuarterTurn \in Int
  BY TurnType
<1>2. \A s, c \in Int : ArcTan2(s, c) \in Int /\ ArcSin(s) \in Int
  BY <1>1, ProductType DEF ArcTan2, ArcSin
<1>3. \A a, b, c, u, v, w \in Int : /\ a * u + b * v + c * w \in Int
                                    /\ a * u - b * v + c * w \in Int
  <2> TAKE a, b, c, u, v, w \in Int
  <2>1. PICK p, q, r \in Int : p = a * u /\ q = b * v /\ r = c * w
    BY ProductType
  <2>2. p + q + r \in Int /\ p - q + r \in Int
    BY <2>1
  <2>3. QED
    BY <2>1, <2>2
<1>4. ASSUME NEW u \in Int, NEW v \in Int
      PROVE  Sin(u) * Cos(v) \in Int /\ Cos(u) * Cos(v) \in Int /\ Sin(v) \in Int
  <2>1. PICK a, b, c, d \in Int : a = Sin(u) /\ b = Cos(v) /\ c = Cos(u) /\ d = Sin(v)
    BY TurnType
  <2>2. a * b \in Int /\ c * b \in Int
    BY ProductType
  <2>3. QED
    BY <2>1, <2>2
<1>5. transformOSC2DSC(t, x, y) \in [alpha : Int, beta : Int]
  <2>1. PICK u, v, w \in Int : u = Sin(x) * Cos(y) /\ v = Sin(y) /\ w = Cos(x) * Cos(y)
    BY <1>4
  <2>2. PICK a, b, c \in Int : /\ a = t.t1 * u - t.t2 * v + t.t3 * w
                               /\ b = t.t4 * u - t.t5 * v + t.t6 * w
                               /\ c = t.t7 * u + t.t8 * v + t.t9 * w
    BY <1>3
  <2>3. transformOSC2DSC(t, x, y) = [alpha |-> ArcTan2(a, b),
                                     beta |-> ArcSin(c) + QuarterTurn]
    BY <2>1, <2>2 DEF transformOSC2DSC
  <2>4. ArcTan2(a, b) \in Int /\ ArcSin(c) \in Int
    BY <1>2
  <2>5. QED
    BY <1>1, <2>3, <2>4
<1>6. transformDSC2OSC(t, x, y) \in [phi : Int, theta : Int]
  <2>1. PICK z \in Int : z = y - QuarterTurn
    BY <1>1
  <2>2. PICK u, v, w \in Int : u = Sin(x) * Cos(z) /\ v = Sin(z) /\ w = Cos(x) * Cos(z)
    BY <1>4
  <2>3. PICK a, b, c \in Int : /\ a = t.t1 * u + t.t7 * v + t.t4 * w
                               /\ b = t.t3 * u + t.t9 * v + t.t6 * w
                               /\ c = t.t2 * u - t.t8 * v + t.t5 * w
    <3>1. t.t2 * u - t.t8 * v + t.t5 * w \in Int /\ t.t1 * u + t.t7 * v + t.t4 * w \in Int
          /\ t.t3 * u + t.t9 * v + t.t6 * w \in Int
      BY <1>3
    <3>2. QED
      BY <3>1
  <2>4. transformDSC2OSC(t, x, y) = [phi |-> ArcTan2(a, b), theta |-> -ArcSin(c)]
    BY <2>1, <2>2, <2>3 DEF transformDSC2OSC
  <2>5. ArcTan2(a, b) \in Int /\ ArcSin(c) \in Int
    BY <1>2
  <2>6. QED
    BY <2>4, <2>5
<1>7. QED
  BY <1>5, <1>6

LEMMA InDataViewType ==
  ASSUME NEW f \in Files, NEW phi \in Int, NEW theta \in Int
  PROVE  InDataView(f, phi, theta) \in [alpha : Int, beta : Int]
<1>1. Content[f].orientation \in [{"yaw", "pitch", "roll"} -> Int]
  BY ContentAssumption
<1>2. QED
  BY <1>1, RotationType, TransformType DEF InDataView

\* The tables hold the same answers.
LEMMA AnswersType ==
  ASSUME AnswersAreRecords, IsOpen, window.file \in Files, NEW x \in Int, NEW y \in Int
  PROVE  /\ NearestInData(x, y) \in Records(window.file)
         /\ NearestInObject(x, y) \in Records(window.file)
<1>1. PICK f : f = window.file /\ f \in Files
  OBVIOUS
<1>2. \A a, b \in Int : NearestInData(a, b) = NearestNeighbour(f, a, b)
  <2> TAKE a, b \in Int
  <2>1. CASE <<a, b>> \in Turns \X Turns
    <3>1. PICK d : d = <<a, b>> /\ d \in Turns \X Turns /\ d[1] = a /\ d[2] = b
      BY <2>1
    <3>2. NearestInData(a, b) = NearestRecords[f][d]
      BY <1>1, <3>1 DEF NearestInData
    <3>3. NearestRecords[f][d] = NearestNeighbour(f, d[1], d[2])
      BY <1>1, <3>1 DEF NearestRecords
    <3>4. QED
      BY <3>1, <3>2, <3>3
  <2>2. CASE <<a, b>> \notin Turns \X Turns
    BY <1>1, <2>2 DEF NearestInData
  <2>3. QED
    BY <2>1, <2>2
<1>3. \A a, b \in Int : NearestInData(a, b) \in Records(f)
  BY <1>1, <1>2 DEF AnswersAreRecords
<1>4. PICK d : /\ d \in [alpha : Int, beta : Int]
               /\ NearestInObject(x, y) = NearestInData(d.alpha, d.beta)
  <2>1. CASE <<x, y>> \in Turns \X Turns
    <3>1. PICK d : d = <<x, y>> /\ d \in Turns \X Turns /\ d[1] = x /\ d[2] = y
      BY <2>1
    <3>2. NearestInObject(x, y) = NearestInData(DataDirections[f][d].alpha,
                                                DataDirections[f][d].beta)
      BY <1>1, <3>1 DEF NearestInObject
    <3>3. DataDirections[f][d] = InDataView(f, d[1], d[2])
      BY <1>1, <3>1 DEF DataDirections
    <3>4. InDataView(f, x, y) \in [alpha : Int, beta : Int]
      BY <1>1, InDataViewType
    <3>5. QED
      BY <3>1, <3>2, <3>3, <3>4
  <2>2. CASE <<x, y>> \notin Turns \X Turns
    <3>1. InDataView(f, x, y) \in [alpha : Int, beta : Int]
      BY <1>1, InDataViewType
    <3>2. NearestInObject(x, y) = NearestInData(InDataView(f, x, y).alpha,
                                                InDataView(f, x, y).beta)
      BY <1>1, <2>2 DEF NearestInObject
    <3>3. QED
      BY <3>1, <3>2
  <2>3. QED
    BY <2>1, <2>2
<1>5. NearestInObject(x, y) \in Records(f)
  <2>1. PICK a, b \in Int : a = d.alpha /\ b = d.beta
    BY <1>4
  <2>2. QED
    BY <1>3, <1>4, <2>1
<1>6. QED
  BY <1>1, <1>3, <1>5

LEMMA ResolutionType ==
  ASSUME window.file \in Files
  PROVE  /\ Grid!AlphaResolution(file.header) \in Int
         /\ Grid!BetaResolution(file.header) \in Int
<1>1. PICK h : h = file.header
  OBVIOUS
<1>2. h \in [Grid!AngleFields -> Int] /\ Grid!AcceptedHeader(h)
  <2>1. h \in {Content[f].header : f \in Files}
    BY <1>1 DEF file
  <2>2. QED
    BY <2>1, ContentAssumption DEF Grid!GridAssumption
<1>3. h.alphaStart \in Int /\ h.alphaEnd \in Int /\ h.betaStart \in Int
      /\ h.betaEnd \in Int /\ h.alphaPoints \in Int /\ h.betaPoints \in Int
      /\ h.alphaPoints >= 1 /\ h.betaPoints >= 1
  BY <1>2 DEF Grid!AngleFields, Grid!AcceptedHeader
<1>4. Grid!FullTurn \in Int
  BY TurnType DEF Grid!FullTurn
<1>5. Grid!AlphaSpan(h) \in Int /\ Grid!AlphaSteps(h) \in Int
  BY <1>3, <1>4 DEF Grid!AlphaSpan, Grid!AlphaSteps
<1>6. h.alphaPoints > 1 => Grid!AlphaSteps(h) > 0
  BY <1>3 DEF Grid!AlphaSteps
<1>7. Grid!AlphaResolution(h) \in Int
  BY <1>3, <1>5, <1>6 DEF Grid!AlphaResolution
<1>8. Grid!BetaResolution(h) \in Int
  BY <1>3 DEF Grid!BetaResolution
<1>9. QED
  BY <1>1, <1>7, <1>8

\* A record has a direction in whole units, and what is left unset is one too.
LEMMA CoordsType ==
  ASSUME window.file \in Files, NEW i
  PROVE  /\ \A c \in DataCoords(i) : c.alpha \in Int /\ c.beta \in Int
         /\ \A c \in ObjectCoords(i) : c.phi \in Int /\ c.theta \in Int
<1>1. ASSUME i \in Records(window.file)
      PROVE  Grid!RecordCoords(file.header, i) \in [alpha : Int, beta : Int]
  <2>1. PICK h : h = file.header
    OBVIOUS
  <2>2. h \in [Grid!AngleFields -> Int] /\ Grid!AcceptedHeader(h)
    <3>1. h \in {Content[f].header : f \in Files}
      BY <2>1 DEF file
    <3>2. QED
      BY <3>1, ContentAssumption DEF Grid!GridAssumption
  <2>3. h.alphaStart \in Int /\ h.alphaEnd \in Int /\ h.betaStart \in Int
        /\ h.betaEnd \in Int /\ h.alphaPoints \in Int /\ h.betaPoints \in Int
        /\ h.alphaPoints >= 1 /\ h.betaPoints >= 1
    BY <2>2 DEF Grid!AngleFields, Grid!AcceptedHeader
  <2>4. i \in Int
    BY <1>1 DEF Records
  <2>5. Grid!AlphaResolution(h) \in Int /\ Grid!BetaResolution(h) \in Int
    BY <2>1, ResolutionType
  <2>6. PICK a, b \in Int : a = Grid!AlphaResolution(h) /\ b = Grid!BetaResolution(h)
    BY <2>5
  <2>7. PICK n, s, t \in Int : n = h.alphaPoints /\ s = h.alphaStart /\ t = h.betaStart
    BY <2>3
  <2>8. \A j, k \in Int : s + (j % n) * a \in Int /\ t + (j \div n + k) * b \in Int
    <3> TAKE j, k \in Int
    <3>1. PICK p, q \in Int : p = j % n /\ q = j \div n
      BY <2>3, <2>7
    <3>2. p * a \in Int /\ (q + k) * b \in Int
      BY ProductType
    <3>3. PICK v, w \in Int : v = p * a /\ w = (q + k) * b
      BY <3>2
    <3>4. s + v \in Int /\ t + w \in Int
      OBVIOUS
    <3>5. QED
      BY <3>1, <3>3, <3>4
  <2>9. Grid!RecordCoords(h, i) \in [alpha : Int, beta : Int]
    <3>1. PICK j, k \in Int : j = (IF Grid!SouthPole(h) THEN i - 1 ELSE i)
                              /\ k = (IF Grid!SouthPole(h) THEN 1 ELSE 0)
      <4>1. CASE Grid!SouthPole(h)
        BY <2>4, <4>1
      <4>2. CASE ~Grid!SouthPole(h)
        BY <2>4, <4>2
      <4>3. QED
        BY <4>1, <4>2
    <3>2. PICK v, w \in Int : v = s + (j % n) * a /\ w = t + (j \div n + k) * b
      BY <2>8
    <3>3. Grid!RecordCoords(h, i) = IF Grid!SouthPole(h) /\ i = 0
                                      THEN [alpha |-> 0, beta |-> 0]
                                      ELSE [alpha |-> v, beta |-> w]
      BY <2>6, <2>7, <3>1, <3>2, Zenon DEF Grid!RecordCoords
    <3>4. QED
      BY <3>3
  <2>10. QED
    BY <2>1, <2>9
<1>2. ASSUME i \notin Records(window.file)
      PROVE  /\ \A c \in DataCoords(i) : c.alpha \in Int /\ c.beta \in Int
             /\ \A c \in ObjectCoords(i) : c.phi \in Int /\ c.theta \in Int
  <2>1. \A d \in UnsetDirections : d[1] \in Int /\ d[2] \in Int
    BY FormAssumption
  <2>2. QED
    BY <1>2, <2>1 DEF DataCoords, ObjectCoords
<1>3. ASSUME i \in Records(window.file)
      PROVE  /\ \A c \in DataCoords(i) : c.alpha \in Int /\ c.beta \in Int
             /\ \A c \in ObjectCoords(i) : c.phi \in Int /\ c.theta \in Int
  <2>1. PICK c : c = Grid!RecordCoords(file.header, i) /\ c \in [alpha : Int, beta : Int]
    BY <1>1, <1>3
  <2>2. RotationConstants(file.orientation) \in [t1 : Int, t2 : Int, t3 : Int, t4 : Int,
                                   t5 : Int, t6 : Int, t7 : Int, t8 : Int, t9 : Int]
    BY ContentAssumption, RotationType DEF file
  <2>3. PICK e : /\ e = transformDSC2OSC(RotationConstants(file.orientation), c.alpha, c.beta)
                 /\ e \in [phi : Int, theta : Int]
    BY <2>1, <2>2, TransformType
  <2>4. DataCoords(i) = {c} /\ ObjectCoords(i) = {e}
    BY <1>3, <2>1, <2>3 DEF DataCoords, ObjectCoords
  <2>5. QED
    BY <2>1, <2>3, <2>4
<1>4. QED
  BY <1>2, <1>3

-----------------------------------------------------------------------------
(* What each call does to what the plots draw.                             *)

LEMMA WindowTypes ==
  ASSUME Types, UNCHANGED <<spin, plot, vtk>>, DOMAIN window' = Members,
         window'.file = window.file,
         \A m \in Members \ {"file"} : window'[m] = window[m] \/ window'[m] \in Int
  PROVE  Types'
<1>1. \A m \in Members \ {"file"} : window'[m] \in Int
  BY DEF Types
<1>2. QED
  BY <1>1 DEF Types

\* A call that only makes calls.
LEMMA CallingStep ==
  ASSUME VInv, todo # <<>>, NeverCut', NEW calls, IsSeq(calls), Then(calls),
         Head(todo)[1] \notin {"OpenDAFFFile", "LoadContent", "clear", "FillSelector",
                              "addItem", "ChangeFrequencyIndex", "ChangeRecordIndex",
                              "ChangeAlphaAndBeta", "setMaximum"},
         \A c \in Pending(calls) : IsFine(c) /\ c[1] # "EmitRecord",
         UNCHANGED <<window, spin, combo, plot, vtk>>
  PROVE  VInv'
<1>1. Types'
  BY DEF VInv, Types
<1>2. QED
  BY <1>1, TellStep

LEMMA EmitSteps ==
  ASSUME VInv, NeverCut', EmitAlpha \/ EmitBeta \/ EmitPhi \/ EmitTheta \/ SetIndicator
  PROVE  VInv'
<1>1. window.alpha \in Int /\ window.beta \in Int /\ window.phi \in Int
      /\ window.theta \in Int
  BY DEF VInv, Types, Members
<1>2. UNCHANGED <<window, spin, combo, plot, vtk>> /\ todo # <<>>
      /\ Head(todo)[1] \in {"EmitAlpha", "EmitBeta", "EmitPhi", "EmitTheta", "SetIndicator"}
  BY DEF EmitAlpha, EmitBeta, EmitPhi, EmitTheta, SetIndicator, Runs, widgets, views
<1>3. ASSUME NEW name \in {"alpha", "beta", "phi", "theta"}, NEW v \in Int
      PROVE  /\ IsFine(<<"setValue", name, v>>)
             /\ <<"setValue", name, v>>[1] # "EmitRecord"
  BY FineTold DEF Spins
<1>4. ASSUME NEW field \in {"angle", "phi", "theta"}, NEW v
      PROVE  IsFine(<<"vtk", field, v>>) /\ <<"vtk", field, v>>[1] # "EmitRecord"
  BY FineTold
<1>5. PICK calls : /\ IsSeq(calls) /\ Then(calls)
                   /\ \A c \in Pending(calls) : IsFine(c) /\ c[1] # "EmitRecord"
  <2>1. CASE EmitAlpha
    <3>1. PICK a : a = <<"setValue", "alpha", window.alpha>> /\ Then(<<a>>)
      BY <2>1 DEF EmitAlpha
    <3>2. IsFine(a) /\ a[1] # "EmitRecord"
      BY <1>1, <1>3, <3>1
    <3>3. QED
      BY <3>1, <3>2, TupleIsSeq
  <2>2. CASE EmitBeta
    <3>1. PICK a, b : /\ a = <<"setValue", "beta", window.beta>>
                      /\ b = <<"vtk", "angle", window.beta>> /\ Then(<<a, b>>)
      BY <2>2 DEF EmitBeta
    <3>2. IsFine(a) /\ a[1] # "EmitRecord" /\ IsFine(b) /\ b[1] # "EmitRecord"
      BY <1>1, <1>3, <1>4, <3>1
    <3>3. QED
      BY <3>1, <3>2, TupleIsSeq
  <2>3. CASE EmitPhi
    <3>1. PICK a, b : /\ a = <<"setValue", "phi", window.phi>>
                      /\ b = <<"vtk", "phi", window.phi>> /\ Then(<<a, b>>)
      BY <2>3 DEF EmitPhi
    <3>2. IsFine(a) /\ a[1] # "EmitRecord" /\ IsFine(b) /\ b[1] # "EmitRecord"
      BY <1>1, <1>3, <1>4, <3>1
    <3>3. QED
      BY <3>1, <3>2, TupleIsSeq
  <2>4. CASE EmitTheta
    <3>1. PICK a, b : /\ a = <<"setValue", "theta", window.theta>>
                      /\ b = <<"vtk", "theta", window.theta>> /\ Then(<<a, b>>)
      BY <2>4 DEF EmitTheta
    <3>2. IsFine(a) /\ a[1] # "EmitRecord" /\ IsFine(b) /\ b[1] # "EmitRecord"
      BY <1>1, <1>3, <1>4, <3>1
    <3>3. QED
      BY <3>1, <3>2, TupleIsSeq
  <2>5. CASE SetIndicator
    BY <2>5, TupleIsSeq DEF SetIndicator, Return
  <2>6. QED
    BY <2>1, <2>2, <2>3, <2>4, <2>5
<1>6. QED
  BY <1>2, <1>5, CallingStep

\* The direction that the object view follows to.
LEMMA FollowsStep ==
  ASSUME VInv, NeverCut', FollowInObjectView
  PROVE  VInv'
<1>1. UNCHANGED <<window, spin, combo, plot, vtk>> /\ todo # <<>>
      /\ Head(todo)[1] = "FollowInObjectView"
  BY DEF FollowInObjectView, Runs, widgets, views
<1>2. PICK calls : /\ IsSeq(calls) /\ Then(calls)
                   /\ \A c \in Pending(calls) : IsFine(c) /\ c[1] # "EmitRecord"
  <2>1. CASE Return
    BY <2>1, TupleIsSeq DEF Return
  <2>2. CASE ~Return
    <3>1. PICK c \in ObjectCoords(window.record) :
            Then(<< <<"ChangePhiAndTheta", c.phi, c.theta>> >>)
      BY <2>2 DEF FollowInObjectView
    <3>2. window.file \in Files
      <4>1. Head(todo) \in Pending(todo)
        BY <1>1, TailIsSeq DEF VInv
      <4>2. TypedCall(Head(todo))
        BY <4>1 DEF VInv, Calls
      <4>3. QED
        BY <1>1, <4>2 DEF TypedCall, IsOpen, VInv, Types
    <3>3. PICK v, w \in Int : v = c.phi /\ w = c.theta
      BY <3>1, <3>2, CoordsType
    <3>4. PICK a : a = <<"ChangePhiAndTheta", v, w>>
      OBVIOUS
    <3>5. IsFine(a) /\ a[1] # "EmitRecord" /\ Then(<<a>>)
      BY <3>1, <3>3, <3>4, FineTellings
    <3>6. QED
      BY <3>5, TupleIsSeq
  <2>3. QED
    BY <2>1, <2>2
<1>3. QED
  BY <1>1, <1>2, CallingStep

\* What the invariant says of the call that runs.
LEMMA HeadIs ==
  ASSUME VInv, todo # <<>>
  PROVE  /\ TypedCall(Head(todo)) /\ (IsOpen => window.file \in Files)
         /\ IsOpen => HasRecord(Head(todo))
         /\ IsSpectral => /\ HasFrequency(Head(todo))
                          /\ UsesBox(Head(todo)) => BoxIsSet
<1>1. Head(todo) \in Pending(todo)
  BY TailIsSeq DEF VInv
<1>2. QED
  BY <1>1 DEF VInv, Calls, Types, IsOpen, RecordIsServed, FrequencyIsServed, Box

\* The record that is told is one of the file.
LEMMA EmitRecordStep ==
  ASSUME VInv, NeverCut', EmitRecord
  PROVE  VInv'
<1>1. UNCHANGED <<window, spin, combo, plot, vtk>> /\ todo # <<>>
      /\ Head(todo)[1] = "EmitRecord"
  BY DEF EmitRecord, Runs, widgets, views
<1>2. IsOpen => window.record \in Records(window.file)
  <2>1. Head(todo) \in Pending(todo)
    BY <1>1, TailIsSeq DEF VInv
  <2>2. Waits("EmitRecord") /\ ~Corrects(Head(todo))
    BY <1>1, <2>1 DEF Waits, Corrects
  <2>3. QED
    BY <2>2 DEF VInv, RecordIsServed
<1>3. PICK w \in Int : w = window.record
  BY DEF VInv, Types, Members
<1>4. PICK a, b : a = <<"setValue", "record", w>> /\ b = <<"plot", "record", w>>
  OBVIOUS
<1>5. Then(<<a, b>>)
  BY <1>3, <1>4 DEF EmitRecord
<1>6. IsFine(a) /\ a[1] # "EmitRecord"
  BY <1>4, FineTold DEF Spins
<1>7. IsFine(b) /\ b[1] # "EmitRecord"
  <2>1. b[1] = "plot" /\ b[2] = "record" /\ b[3] = w
    BY <1>4
  <2>2. QED
    BY <1>2, <1>3, <2>1 DEF IsFine, Served, TypedCall, IsFirst, Begins, Rank, SetsRange, HasRecord,
                            HasFrequency, UsesBox
<1>8. QED
  BY <1>1, <1>5, <1>6, <1>7, TupleIsSeq, CallingStep

\* Another record is selected: first of all its direction is looked up.
LEMMA ChangeRecordStep ==
  ASSUME VInv, NeverCut', ChangeRecordIndex
  PROVE  VInv'
<1>1. UNCHANGED <<spin, combo, plot, vtk>> /\ todo # <<>>
      /\ Head(todo)[1] = "ChangeRecordIndex" /\ Arg = Head(todo)[2]
  BY DEF ChangeRecordIndex, Runs, widgets, views, Arg
<1>2. Arg \in Int /\ (IsOpen => window.file \in Files)
  BY <1>1, HeadIs DEF TypedCall
<1>3. DOMAIN window = Members
  BY DEF VInv, Types
<1>4. ~SetsRange(Head(todo))
      /\ (IsOpen => plot'.record \in Records(window.file))
      /\ (IsSpectral => vtk'.frequency \in Frequencies(window.file))
  BY <1>1 DEF SetsRange, VInv, RecordIsServed, FrequencyIsServed
<1>5. CASE Arg = window.record
  <2>1. Then(<<>>) /\ UNCHANGED window
    BY <1>5 DEF ChangeRecordIndex, Return
  <2>2. Types'
    BY <1>1, <2>1 DEF VInv, Types
  <2>3. Stays(<<>>)
    BY <1>1, <2>1, <2>2, TupleIsSeq DEF Stays, Keeps, IsFine
  <2>4. Corrects(Head(todo)) => window.record \in Records(window.file)
    BY <1>1, <1>5 DEF Corrects
  <2>5. \/ window'.record \in Records(window.file)
        \/ /\ window'.record = window.record /\ ~Corrects(Head(todo))
           /\ \A c \in Pending(<<>>) : c[1] # "EmitRecord"
    BY <2>1, <2>4, TupleIsSeq
  <2>6. window'.frequency = window.frequency /\ Head(todo)[1] # "ChangeFrequencyIndex"
    BY <1>1, <2>1
  <2>7. QED
    BY <1>1, <1>4, <2>3, <2>5, <2>6, StaysStep
<1>6. CASE Arg # window.record
  <2>1. window' = [window EXCEPT !.record = Arg]
    BY <1>6 DEF ChangeRecordIndex
  <2>2. DOMAIN window' = Members /\ window'.record = Arg
        /\ \A m \in Members \ {"record"} : window'[m] = window[m]
    BY <1>3, <2>1 DEF Members
  <2>3. Types'
    BY <1>1, <1>2, <2>2, WindowTypes DEF VInv, Members
  <2>4. window'.file = window.file /\ window'.frequency = window.frequency
    BY <2>2 DEF Members
  <2>5. PICK calls : /\ IsSeq(calls) /\ Then(calls) /\ \A c \in Pending(calls) : IsFine(c)
                     /\ IsOpen => todo' # <<>> /\ Corrects(Head(todo'))
    <3>1. CASE IsOpen
      <4>1. PICK c \in DataCoords(Arg) :
              Then(<< <<"ChangeAlphaAndBeta", c.alpha, c.beta>>,
                      <<"FollowInObjectView">>, <<"EmitRecord">> >>)
        BY <1>6, <3>1 DEF ChangeRecordIndex
      <4>2. PICK v, w \in Int : v = c.alpha /\ w = c.beta
        BY <1>2, <3>1, CoordsType
      <4>3. PICK a, b, d : a = <<"ChangeAlphaAndBeta", v, w>>
                           /\ b = <<"FollowInObjectView">> /\ d = <<"EmitRecord">>
        OBVIOUS
      <4>4. IsFine(a) /\ IsFine(b) /\ IsFine(d) /\ a[1] = "ChangeAlphaAndBeta"
        BY <3>1, <4>3, FineTellings
      <4>5. PICK calls : calls = <<a, b, d>>
        OBVIOUS
      <4>6. Then(calls)
        BY <4>1, <4>2, <4>3, <4>5
      <4>7. IsSeq(calls) /\ Pending(calls) = {a, b, d}
        BY <4>5, TupleIsSeq
      <4>8. calls # <<>> /\ Head(calls) = a
        BY <4>5
      <4>9. todo' # <<>> /\ Head(todo') = a
        BY <1>1, <4>6, <4>7, <4>8, PushedRunsNext DEF VInv
      <4>10. Corrects(a)
        BY <4>4 DEF Corrects
      <4>11. QED
        BY <4>4, <4>6, <4>7, <4>9, <4>10
    <3>2. CASE ~IsOpen
      <4>1. PICK a : a = <<"EmitRecord">> /\ Then(<<a>>)
        BY <1>6, <3>2 DEF ChangeRecordIndex
      <4>2. IsFine(a)
        BY <4>1, FineTellings
      <4>3. QED
        BY <3>2, <4>1, <4>2, TupleIsSeq
    <3>3. QED
      BY <3>1, <3>2
  <2>6. Stays(calls)
    BY <1>1, <2>3, <2>4, <2>5 DEF Stays, Keeps, IsFine
  <2>7. QED
    BY <1>1, <1>4, <2>4, <2>5, <2>6, StaysStep
<1>7. QED
  BY <1>5, <1>6

\* The data view asks for a record of the file before anything is told.
LEMMA DataViewStays ==
  ASSUME VInv, NeverCut', AnswersAreRecords, ChangeAlpha \/ ChangeBeta \/ ChangeAlphaAndBeta
  PROVE  VInv'
<1>1. UNCHANGED <<spin, combo, plot, vtk>> /\ todo # <<>>
      /\ Head(todo)[1] \in {"ChangeAlpha", "ChangeBeta", "ChangeAlphaAndBeta"}
  BY DEF ChangeAlpha, ChangeBeta, ChangeAlphaAndBeta, DataView, Runs, widgets, views
<1>2. DOMAIN window = Members /\ window.alpha \in Int /\ window.beta \in Int
  BY DEF VInv, Types, Members
<1>3. PICK alpha, beta, signals :
        /\ alpha \in Int /\ beta \in Int
        /\ DataView(alpha, beta, signals) /\ IsSeq(signals)
        /\ \A c \in Pending(signals) : IsFine(c) /\ c[1] # "EmitRecord"
  <2>1. PICK a, b : a = <<"EmitAlpha">> /\ b = <<"EmitBeta">>
    OBVIOUS
  <2>2. IsFine(a) /\ IsFine(b) /\ a[1] # "EmitRecord" /\ b[1] # "EmitRecord"
    BY <2>1, FineTellings
  <2>3. CASE ChangeAlpha
    <3>1. Arg \in Int
      BY <2>3, <1>1, HeadIs DEF TypedCall, Arg, ChangeAlpha, Runs
    <3>2. FoldAlpha(Arg) \in Int
      BY <3>1, TurnType
    <3>3. DataView(FoldAlpha(Arg), window.beta, <<a>>)
      BY <2>1, <2>3 DEF ChangeAlpha
    <3>4. QED
      BY <1>2, <2>2, <3>2, <3>3, TupleIsSeq
  <2>4. CASE ChangeBeta
    <3>1. Arg \in Int
      BY <2>4, <1>1, HeadIs DEF TypedCall, Arg, ChangeBeta, Runs
    <3>2. FoldBeta(Arg) \in Int
      BY <3>1, TurnType
    <3>3. DataView(window.alpha, FoldBeta(Arg), <<b>>)
      BY <2>1, <2>4 DEF ChangeBeta
    <3>4. QED
      BY <1>2, <2>2, <3>2, <3>3, TupleIsSeq
  <2>5. CASE ChangeAlphaAndBeta
    <3>1. Arg \in Int /\ Head(todo)[3] \in Int
      BY <2>5, <1>1, HeadIs DEF TypedCall, Arg, ChangeAlphaAndBeta, Runs
    <3>2. FoldAlpha(Arg) \in Int /\ FoldBeta(Head(todo)[3]) \in Int
      BY <3>1, TurnType
    <3>3. DataView(FoldAlpha(Arg), FoldBeta(Head(todo)[3]), <<a, b>>)
      BY <2>1, <2>5 DEF ChangeAlphaAndBeta
    <3>4. QED
      BY <2>2, <3>2, <3>3, TupleIsSeq
  <2>6. QED
    BY <2>3, <2>4, <2>5
<1>4. window' = [window EXCEPT !.alpha = alpha, !.beta = beta]
  BY <1>3 DEF DataView
<1>5. DOMAIN window' = Members /\ window'.alpha = alpha /\ window'.beta = beta
      /\ \A m \in Members \ {"alpha", "beta"} : window'[m] = window[m]
  BY <1>2, <1>4 DEF Members
<1>6. Types'
  BY <1>1, <1>3, <1>5, WindowTypes DEF VInv, Members
<1>7. window'.file = window.file /\ window'.record = window.record
      /\ window'.frequency = window.frequency
  BY <1>5 DEF Members
<1>8. PICK calls :
        /\ IsSeq(calls) /\ Then(calls)
        /\ \A c \in Pending(calls) : IsFine(c) /\ c[1] # "EmitRecord"
        /\ IsOpen => calls # <<>> /\ Head(calls)[1] = "ChangeRecordIndex"
                     /\ Head(calls)[2] \in Records(window.file)
  <2>1. CASE IsOpen
    <3>1. PICK r : r = NearestInData(alpha, beta) /\ r \in Records(window.file)
      BY <1>1, <1>3, <2>1, HeadIs, AnswersType
    <3>2. r \in Int
      BY <3>1 DEF Records
    <3>3. PICK a : a = <<"ChangeRecordIndex", r>>
      OBVIOUS
    <3>4. IsFine(a) /\ a[1] = "ChangeRecordIndex" /\ a[2] = r
      BY <3>2, <3>3, FineTellings
    <3>5. PICK calls : calls = <<a>> \o signals
      OBVIOUS
    <3>6. IsSeq(<<a>>) /\ Pending(<<a>>) = {a}
      BY TupleIsSeq
    <3>7. IsSeq(calls) /\ Pending(calls) = {a} \cup Pending(signals)
      BY <1>3, <3>5, <3>6, ConcatIsSeq
    <3>8. calls # <<>> /\ Head(calls) = a
      <4>1. PICK S : signals \in Seq(S)
        BY <1>3 DEF IsSeq
      <4>2. PICK T : T = S \cup {a}
        OBVIOUS
      <4>3. signals \in Seq(T) /\ <<a>> \in Seq(T) /\ Len(<<a>>) = 1 /\ Len(signals) \in Nat
        BY <4>1, <4>2
      <4>4. calls \in Seq(T) /\ Len(calls) = 1 + Len(signals) /\ calls[1] = a
        BY <3>5, <4>3
      <4>5. QED
        BY <4>3, <4>4
    <3>9. Then(calls)
      BY <1>3, <2>1, <3>1, <3>3, <3>5 DEF DataView
    <3>10. QED
      BY <1>3, <3>1, <3>4, <3>7, <3>8, <3>9
  <2>2. CASE ~IsOpen
    <3>1. Then(<<>> \o signals)
      BY <1>3, <2>2 DEF DataView
    <3>2. IsSeq(<<>> \o signals) /\ Pending(<<>> \o signals) = Pending(signals)
      BY <1>3, TupleIsSeq, ConcatIsSeq
    <3>3. QED
      BY <1>3, <2>2, <3>1, <3>2
  <2>3. QED
    BY <2>1, <2>2
<1>9. IsOpen => todo' # <<>> /\ Corrects(Head(todo'))
  BY <1>1, <1>8, PushedRunsNext DEF VInv, Corrects
<1>10. Stays(calls)
  BY <1>1, <1>6, <1>7, <1>8 DEF Stays, Keeps, IsFine
<1>11. ~SetsRange(Head(todo))
       /\ (IsOpen => plot'.record \in Records(window.file))
       /\ (IsSpectral => vtk'.frequency \in Frequencies(window.file))
  BY <1>1 DEF SetsRange, VInv, RecordIsServed, FrequencyIsServed
<1>12. QED
  BY <1>1, <1>7, <1>9, <1>10, <1>11, StaysStep

\* The object view asks for a record of the file and tells none.
LEMMA ObjectViewStays ==
  ASSUME VInv, NeverCut', AnswersAreRecords, ChangePhi \/ ChangeTheta \/ ChangePhiAndTheta
  PROVE  VInv'
<1>1. UNCHANGED <<spin, combo, plot, vtk>> /\ todo # <<>>
      /\ Head(todo)[1] \in {"ChangePhi", "ChangeTheta", "ChangePhiAndTheta"}
  BY DEF ChangePhi, ChangeTheta, ChangePhiAndTheta, ObjectView, Runs, widgets, views
<1>2. DOMAIN window = Members /\ window.phi \in Int /\ window.theta \in Int
  BY DEF VInv, Types, Members
<1>3. PICK phi, theta, before, after :
        /\ phi \in Int /\ theta \in Int
        /\ ObjectView(phi, theta, before, after) /\ IsSeq(before) /\ IsSeq(after)
        /\ \A c \in Pending(before) : IsFine(c) /\ c[1] # "EmitRecord"
        /\ \A c \in Pending(after) : IsFine(c) /\ c[1] # "EmitRecord"
  <2>1. PICK a, b : a = <<"EmitPhi">> /\ b = <<"EmitTheta">>
    OBVIOUS
  <2>2. IsFine(a) /\ IsFine(b) /\ a[1] # "EmitRecord" /\ b[1] # "EmitRecord"
    BY <2>1, FineTellings
  <2>3. CASE ChangePhi
    <3>1. PICK v \in Int : v = Arg
      BY <2>3, <1>1, HeadIs DEF TypedCall, Arg, ChangePhi, Runs
    <3>2. PICK c, d : c = <<"setValue", "phi", v>> /\ d = <<"vtk", "phi", v>>
      OBVIOUS
    <3>3. ObjectView(v, window.theta, <<c, d>>, <<>>)
      BY <2>3, <3>1, <3>2 DEF ChangePhi
    <3>4. IsFine(c) /\ IsFine(d) /\ c[1] # "EmitRecord" /\ d[1] # "EmitRecord"
      BY <3>2, FineTold DEF Spins
    <3>5. QED
      BY <1>2, <3>3, <3>4, TupleIsSeq
  <2>4. CASE ChangeTheta
    <3>1. PICK v \in Int : v = Arg
      BY <2>4, <1>1, HeadIs DEF TypedCall, Arg, ChangeTheta, Runs
    <3>2. ObjectView(window.phi, v, <<>>, <<b>>)
      BY <2>1, <2>4, <3>1 DEF ChangeTheta
    <3>3. QED
      BY <1>2, <2>2, <3>2, TupleIsSeq
  <2>5. CASE ChangePhiAndTheta
    <3>1. PICK v, w \in Int : v = Arg /\ w = Head(todo)[3]
      BY <2>5, <1>1, HeadIs DEF TypedCall, Arg, ChangePhiAndTheta, Runs
    <3>2. ObjectView(v, w, <<>>, <<a, b>>)
      BY <2>1, <2>5, <3>1 DEF ChangePhiAndTheta
    <3>3. QED
      BY <2>2, <3>2, TupleIsSeq
  <2>6. QED
    BY <2>3, <2>4, <2>5
<1>4. window' = [window EXCEPT !.phi = phi, !.theta = theta]
  BY <1>3 DEF ObjectView
<1>5. DOMAIN window' = Members /\ window'.phi = phi /\ window'.theta = theta
      /\ \A m \in Members \ {"phi", "theta"} : window'[m] = window[m]
  BY <1>2, <1>4 DEF Members
<1>6. Types'
  BY <1>1, <1>3, <1>5, WindowTypes DEF VInv, Members
<1>7. window'.file = window.file /\ window'.record = window.record
      /\ window'.frequency = window.frequency
  BY <1>5 DEF Members
<1>8. PICK middle :
        /\ IsSeq(middle) /\ Then(before \o middle \o after)
        /\ \A c \in Pending(middle) : IsFine(c) /\ c[1] # "EmitRecord"
  <2>1. CASE IsOpen
    <3>1. PICK r : r = NearestInObject(phi, theta) /\ r \in Records(window.file)
      BY <1>1, <1>3, <2>1, HeadIs, AnswersType
    <3>2. r \in Int
      BY <3>1 DEF Records
    <3>3. PICK a, b : a = <<"ChangeRecordIndex", r>>
                      /\ b = <<"SetIndicator", OutOfBoundsInObject(phi, theta)>>
      OBVIOUS
    <3>4. IsFine(a) /\ IsFine(b) /\ a[1] # "EmitRecord" /\ b[1] # "EmitRecord"
      BY <3>2, <3>3, FineTellings
    <3>5. Then(before \o <<a, b>> \o after)
      BY <1>3, <2>1, <3>1, <3>3 DEF ObjectView
    <3>6. QED
      BY <3>4, <3>5, TupleIsSeq
  <2>2. CASE ~IsOpen
    <3>1. Then(before \o <<>> \o after)
      BY <1>3, <2>2 DEF ObjectView
    <3>2. QED
      BY <3>1, TupleIsSeq
  <2>3. QED
    BY <2>1, <2>2
<1>9. PICK calls : /\ IsSeq(calls) /\ Then(calls)
                   /\ \A c \in Pending(calls) : IsFine(c) /\ c[1] # "EmitRecord"
  <2>1. PICK front : front = before \o middle
    OBVIOUS
  <2>2. IsSeq(front) /\ Pending(front) = Pending(before) \cup Pending(middle)
    BY <1>3, <1>8, <2>1, ConcatIsSeq
  <2>3. PICK calls : calls = front \o after
    OBVIOUS
  <2>4. IsSeq(calls) /\ Pending(calls) = Pending(front) \cup Pending(after)
    BY <1>3, <2>2, <2>3, ConcatIsSeq
  <2>5. Then(calls)
    BY <1>8, <2>1, <2>3
  <2>6. QED
    BY <1>3, <1>8, <2>2, <2>4, <2>5
<1>10. QED
  BY <1>1, <1>6, <1>7, <1>9, TellStep

LEMMA LastType ==
  ASSUME VInv, IsOpen
  PROVE  /\ file.frequencies \in Nat \ {0} /\ file.channels \in Nat \ {0}
         /\ file.kHz \subseteq Frequencies(window.file)
         /\ LastFrequency \in Nat /\ Frequencies(window.file) = 0 .. LastFrequency
<1>1. window.file \in Files
  BY DEF VInv, Types, IsOpen
<1>2. file.frequencies \in Nat \ {0} /\ file.channels \in Nat \ {0}
      /\ file.kHz \subseteq Frequencies(window.file)
  BY <1>1, ContentAssumption DEF file
<1>3. Frequencies(window.file) = 0 .. LastFrequency
  BY DEF Frequencies, LastFrequency, file
<1>4. QED
  BY <1>2, <1>3 DEF LastFrequency

LEMMA BoundedType ==
  ASSUME NEW v \in Int, NEW s, s.min \in Int, s.max \in Int
  PROVE  /\ Bounded(v, s) \in Int
         /\ s.min <= s.max => Bounded(v, s) \in s.min .. s.max
  BY DEF Bounded

\* A box that is moved calls its slot with the new value.
LEMMA FineSlot ==
  ASSUME NEW name \in Spins, NEW v \in Int,
         name = "frequency" /\ IsSpectral => BoxIsSet /\ v \in Frequencies(window.file)
  PROVE  IsFine(<<Slot[name], v>>) /\ Slot[name] # "EmitRecord"
<1>1. CASE name = "frequency"
  <2>1. Slot[name] = "ChangeFrequencyIndex"
    BY <1>1 DEF Slot
  <2>2. PICK c : c = <<Slot[name], v>>
    OBVIOUS
  <2>3. c[1] = "ChangeFrequencyIndex" /\ c[2] = v
    BY <2>1, <2>2
  <2>4. IsFine(c)
    BY <1>1, <2>3 DEF IsFine, Served, TypedCall, IsFirst, Begins, Rank, SetsRange,
                      HasRecord, HasFrequency, UsesBox
  <2>5. QED
    BY <2>1, <2>2, <2>4
<1>2. CASE name # "frequency"
  <2>1. Slot[name] \in {"ChangeChannelIndex", "ChangeAlpha", "ChangeBeta", "ChangePhi",
                        "ChangeTheta", "ChangeRecordIndex"}
    BY <1>2 DEF Slot, Spins
  <2>2. QED
    BY <2>1, FineTellings
<1>3. QED
  BY <1>1, <1>2

LEMMA BoxTypes ==
  ASSUME Types, UNCHANGED <<window, plot, vtk>>, NEW name \in Spins,
         NEW s \in [value : Int, min : Int, max : Int],
         spin' = [spin EXCEPT ![name] = s], name = "frequency" => s.min = 0
  PROVE  Types' /\ \A other \in Spins \ {name} : spin'[other] = spin[other]
<1>1. spin' \in [Spins -> [value : Int, min : Int, max : Int]]
  BY DEF Types
<1>2. \A other \in Spins \ {name} : spin'[other] = spin[other]
  BY DEF Types
<1>3. spin'["frequency"].min = 0
  <2>1. "frequency" \in Spins
    BY DEF Spins
  <2>2. CASE name = "frequency"
    BY <2>1, <2>2 DEF Types
  <2>3. CASE name # "frequency"
    BY <1>2, <2>1, <2>3 DEF Types
  <2>4. QED
    BY <2>2, <2>3
<1>4. QED
  BY <1>1, <1>2, <1>3 DEF Types

\* A box is moved, and the range of the frequency box is left alone.
LEMMA BecomeStep ==
  ASSUME VInv, NeverCut', todo # <<>>,
         NEW name \in Spins, NEW s \in [value : Int, min : Int, max : Int],
         Become(name, s), Head(todo)[1] \in {"setValue", "setMinimum", "setMaximum"},
         ~SetsRange(Head(todo)),
         name = "frequency" =>
           /\ s.min = 0 /\ s.max = spin["frequency"].max
           /\ IsSpectral => BoxIsSet /\ s.value \in Frequencies(window.file)
  PROVE  VInv'
<1>1. UNCHANGED <<window, combo, plot, vtk>> /\ spin' = [spin EXCEPT ![name] = s]
  BY DEF Become, views
<1>2. Types' /\ \A other \in Spins \ {name} : spin'[other] = spin[other]
  BY <1>1, BoxTypes DEF VInv
<1>3. spin'["frequency"].max = spin["frequency"].max
  <2>1. "frequency" \in Spins
    BY DEF Spins
  <2>2. CASE name = "frequency"
    BY <1>1, <2>1, <2>2 DEF VInv, Types
  <2>3. CASE name # "frequency"
    BY <1>2, <2>1, <2>3
  <2>4. QED
    BY <2>2, <2>3
<1>4. PICK v \in Int : v = s.value
  OBVIOUS
<1>5. PICK a : a = <<Slot[name], v>>
  OBVIOUS
<1>6. IsFine(a) /\ a[1] # "EmitRecord"
  BY <1>4, <1>5, FineSlot
<1>7. PICK calls : calls = IF v = spin[name].value THEN <<>> ELSE <<a>>
  OBVIOUS
<1>8. IsSeq(calls) /\ \A c \in Pending(calls) : IsFine(c) /\ c[1] # "EmitRecord"
  BY <1>6, <1>7, TupleIsSeq
<1>9. Then(calls)
  BY <1>4, <1>5, <1>7 DEF Become
<1>10. Stays(calls)
  BY <1>1, <1>2, <1>3, <1>8, <1>9 DEF Stays, Keeps, IsFine
<1>11. ~Corrects(Head(todo))
  BY DEF Corrects
<1>12. IsOpen => plot'.record \in Records(window.file)
  BY <1>1 DEF VInv, RecordIsServed
<1>13. IsSpectral => vtk'.frequency \in Frequencies(window.file)
  BY <1>1 DEF VInv, FrequencyIsServed
<1>14. QED
  BY <1>1, <1>8, <1>10, <1>11, <1>12, <1>13, StaysStep

LEMMA SetValueStep ==
  ASSUME VInv, NeverCut', SetValue
  PROVE  VInv'
<1>1. todo # <<>> /\ Head(todo)[1] = "setValue" /\ Arg = Head(todo)[2]
  BY DEF SetValue, Runs, Arg
<1>2. PICK name \in Spins, v \in Int : name = Arg /\ v = Head(todo)[3]
  BY <1>1, HeadIs DEF TypedCall
<1>3. PICK t \in [value : Int, min : Int, max : Int] : t = spin[name]
  BY DEF VInv, Types
<1>4. PICK s : s = [t EXCEPT !.value = Bounded(v, t)]
  OBVIOUS
<1>5. Become(name, s)
  BY <1>2, <1>3, <1>4 DEF SetValue
<1>6. Bounded(v, t) \in Int
  BY BoundedType
<1>7. s \in [value : Int, min : Int, max : Int] /\ s.min = t.min /\ s.max = t.max
      /\ s.value = Bounded(v, t)
  BY <1>4, <1>6
<1>8. ASSUME name = "frequency"
      PROVE  /\ s.min = 0 /\ s.max = spin["frequency"].max
             /\ IsSpectral => BoxIsSet /\ s.value \in Frequencies(window.file)
  <2>1. s.min = 0 /\ s.max = spin["frequency"].max /\ t.min = 0
    BY <1>3, <1>7, <1>8 DEF VInv, Types
  <2>2. ASSUME IsSpectral PROVE BoxIsSet /\ s.value \in Frequencies(window.file)
    <3>1. UsesBox(Head(todo))
      BY <1>1, <1>2, <1>8 DEF UsesBox
    <3>2. BoxIsSet
      BY <1>1, <2>2, <3>1, HeadIs
    <3>3. LastFrequency \in Nat /\ Frequencies(window.file) = 0 .. LastFrequency
      BY <2>2, LastType DEF IsSpectral
    <3>4. t.max = LastFrequency
      BY <1>3, <1>8, <3>2 DEF BoxIsSet
    <3>5. Bounded(v, t) \in t.min .. t.max
      BY <2>1, <3>3, <3>4, BoundedType
    <3>6. QED
      BY <1>7, <2>1, <3>2, <3>3, <3>4, <3>5
  <2>3. QED
    BY <2>1, <2>2
<1>9. ~SetsRange(Head(todo))
  BY <1>1 DEF SetsRange
<1>10. QED
  BY <1>1, <1>5, <1>7, <1>8, <1>9, BecomeStep

\* The range of a box: its value moves into it.
LEMMA RangeType ==
  ASSUME VInv, NEW name \in Spins, NEW min \in Int, NEW max \in Int, InRange(name, min, max)
  PROVE  \E s \in [value : Int, min : Int, max : Int] :
           /\ Become(name, s) /\ s.min = min /\ s.max = max
           /\ min <= max => s.value \in min .. max
<1>1. PICK v \in Int : v = spin[name].value
  BY DEF VInv, Types
<1>2. PICK t : t = [value |-> 0, min |-> min, max |-> max]
  OBVIOUS
<1>3. t.min = min /\ t.max = max /\ t \in [value : Int, min : Int, max : Int]
  BY <1>2
<1>4. PICK w \in Int : w = Bounded(v, t) /\ (min <= max => w \in min .. max)
  BY <1>3, BoundedType
<1>5. PICK s : s = [t EXCEPT !.value = w]
  OBVIOUS
<1>6. s.min = min /\ s.max = max /\ s.value = w /\ s \in [value : Int, min : Int, max : Int]
  BY <1>2, <1>5
<1>7. Become(name, s)
  BY <1>1, <1>2, <1>4, <1>5 DEF InRange
<1>8. QED
  BY <1>4, <1>6, <1>7

LEMMA SetMinimumStep ==
  ASSUME VInv, NeverCut', SetMinimum
  PROVE  VInv'
<1>1. todo # <<>> /\ Head(todo)[1] = "setMinimum" /\ Arg = Head(todo)[2]
  BY DEF SetMinimum, Runs, Arg
<1>2. PICK name \in Spins, m \in Int : name = Arg /\ m = Head(todo)[3] /\ name # "frequency"
  BY <1>1, HeadIs DEF TypedCall
<1>3. PICK max \in Int : max = Larger(m, spin[name].max)
  <2>1. spin[name].max \in Int
    BY DEF VInv, Types
  <2>2. QED
    BY <2>1 DEF Larger
<1>4. InRange(name, m, max)
  BY <1>2, <1>3 DEF SetMinimum
<1>5. ~SetsRange(Head(todo))
  BY <1>1 DEF SetsRange
<1>6. PICK s \in [value : Int, min : Int, max : Int] : Become(name, s)
  BY <1>4, RangeType
<1>7. QED
  BY <1>1, <1>2, <1>5, <1>6, BecomeStep

\* The range of the frequency box is that of the axis of the file.
LEMMA SetRangeStep ==
  ASSUME VInv, NeverCut', SetMaximum, SetsRange(Head(todo))
  PROVE  VInv'
<1>1. todo # <<>> /\ Head(todo)[1] = "setMaximum" /\ Arg = "frequency"
  BY DEF SetMaximum, Runs, Arg, SetsRange
<1>2. PICK m \in Int : m = Head(todo)[3] /\ m >= 0 /\ (IsSpectral => m = LastFrequency)
  BY <1>1, HeadIs DEF TypedCall, HasFrequency
<1>3. PICK name \in Spins : name = "frequency"
  BY DEF Spins
<1>4. InRange(name, 0, m)
  <2>1. spin[name].min = 0
    BY <1>3 DEF VInv, Types
  <2>2. Smaller(m, 0) = 0
    BY <1>2 DEF Smaller
  <2>3. QED
    BY <1>1, <1>2, <1>3, <2>1, <2>2 DEF SetMaximum
<1>5. PICK s \in [value : Int, min : Int, max : Int] :
        Become(name, s) /\ s.min = 0 /\ s.max = m /\ s.value \in 0 .. m
  BY <1>2, <1>4, RangeType
<1>6. UNCHANGED <<window, combo, plot, vtk>> /\ spin' = [spin EXCEPT ![name] = s]
  BY <1>5 DEF Become, views
<1>7. Types'
  BY <1>5, <1>6, BoxTypes DEF VInv
<1>8. PICK v \in Int : v = s.value /\ v \in 0 .. m
  BY <1>5
<1>9. PICK a : a = <<"ChangeFrequencyIndex", v>>
  OBVIOUS
<1>10. a[1] = "ChangeFrequencyIndex" /\ a[2] = v
  BY <1>9
<1>11. IsSpectral => v \in Frequencies(window.file)
  <2>1. IsSpectral => Frequencies(window.file) = 0 .. LastFrequency
    BY LastType DEF IsSpectral
  <2>2. QED
    BY <1>2, <1>8, <2>1
<1>12. Served(a) /\ ~IsFirst(a) /\ Rank(a) = 0
  BY <1>10, <1>11 DEF Served, TypedCall, IsFirst, Begins, Rank, SetsRange, HasRecord,
                      HasFrequency
<1>13. PICK calls : calls = IF v = spin[name].value THEN <<>> ELSE <<a>>
  OBVIOUS
<1>14. Then(calls)
  BY <1>3, <1>5, <1>8, <1>9, <1>13 DEF Become, Slot
<1>15. IsSeq(calls) /\ Pending(calls) \subseteq {a}
  BY <1>13, TupleIsSeq
<1>16. Keeps(calls)
  BY <1>1, <1>6, <1>7, <1>12, <1>14, <1>15 DEF Keeps
<1>17. Ordered(todo')
  BY <1>12, <1>15, <1>16, OrderStays
<1>18. \A c \in Pending(calls) : c[1] \notin {"EmitRecord", "addItem", "clear", "FillSelector"}
  BY <1>10, <1>15
<1>19. IsOpen => RecordIsServed'
  <2>1. ~Corrects(Head(todo))
    BY <1>1 DEF Corrects
  <2>2. IsOpen => plot'.record \in Records(window.file)
    BY <1>6 DEF VInv, RecordIsServed
  <2>3. QED
    BY <1>6, <1>16, <1>18, <2>1, <2>2, RecordStays
<1>20. IsSpectral => Box'
  <2>1. spin'["frequency"] = s
    BY <1>3, <1>6 DEF VInv, Types
  <2>2. IsSpectral => BoxIsSet'
    BY <1>2, <1>5, <1>16, <2>1, SamePending DEF BoxIsSet
  <2>3. QED
    BY <2>2 DEF Box
<1>21. IsSpectral => Selector'
  BY <1>1, <1>6, <1>16, <1>18, SelectorStays
<1>22. IsSpectral => Chosen'
  BY <1>1, <1>6, <1>16, ChosenStays
<1>23. IsSpectral => vtk'.frequency \in Frequencies(window.file)
  BY <1>6 DEF VInv, FrequencyIsServed
<1>24. QED
  BY <1>16, <1>17, <1>19, <1>20, <1>21, <1>22, <1>23, KeepsStep

LEMMA SetMaximumStep ==
  ASSUME VInv, NeverCut', SetMaximum
  PROVE  VInv'
<1>1. todo # <<>> /\ Head(todo)[1] = "setMaximum" /\ Arg = Head(todo)[2]
  BY DEF SetMaximum, Runs, Arg
<1>2. CASE SetsRange(Head(todo))
  BY <1>2, SetRangeStep
<1>3. CASE ~SetsRange(Head(todo))
  <2>1. PICK name \in Spins, m \in Int :
          name = Arg /\ m = Head(todo)[3] /\ name # "frequency"
    BY <1>1, <1>3, HeadIs DEF TypedCall, SetsRange
  <2>2. PICK min \in Int : min = Smaller(m, spin[name].min)
    <3>1. spin[name].min \in Int
      BY DEF VInv, Types
    <3>2. QED
      BY <3>1 DEF Smaller
  <2>3. InRange(name, min, m)
    BY <2>1, <2>2 DEF SetMaximum
  <2>4. PICK s \in [value : Int, min : Int, max : Int] : Become(name, s)
    BY <2>3, RangeType
  <2>5. QED
    BY <1>1, <1>3, <2>1, <2>4, BecomeStep
<1>4. QED
  BY <1>2, <1>3

\* A change of the selector calls its slot with the new index.
LEMMA FineIndex ==
  ASSUME NEW v \in Int,
         IsSpectral => BoxIsSet /\ v \in Frequencies(window.file) \cup {-1}
  PROVE  IsFine(<<"ChangeFrequencyIndex", v>>)
<1>1. PICK c : c = <<"ChangeFrequencyIndex", v>>
  OBVIOUS
<1>2. c[1] = "ChangeFrequencyIndex" /\ c[2] = v
  BY <1>1
<1>3. IsFine(c)
  BY <1>2 DEF IsFine, Served, TypedCall, IsFirst, Begins, Rank, SetsRange, HasRecord,
              HasFrequency, UsesBox
<1>4. QED
  BY <1>1, <1>3

\* What the three steps of the selector have in common.
LEMMA ComboStays ==
  ASSUME VInv, NeverCut', todo # <<>>, NEW count, NEW index, ComboBecomes(count, index),
         index # combo.index =>
           /\ index \in Int
           /\ IsSpectral => BoxIsSet /\ index \in Frequencies(window.file) \cup {-1}
  PROVE  \E calls :
           /\ Stays(calls)
           /\ calls = IF index = combo.index THEN <<>>
                      ELSE << <<"ChangeFrequencyIndex", index>> >>
<1>1. UNCHANGED <<window, spin, plot, vtk>>
  BY DEF ComboBecomes, views
<1>2. PICK a : a = <<"ChangeFrequencyIndex", index>>
  OBVIOUS
<1>3. PICK calls : calls = IF index = combo.index THEN <<>> ELSE <<a>>
  OBVIOUS
<1>4. index # combo.index => IsFine(a)
  BY <1>2, FineIndex
<1>5. IsSeq(calls) /\ \A c \in Pending(calls) : IsFine(c)
  BY <1>3, <1>4, TupleIsSeq
<1>6. Then(calls)
  BY <1>2, <1>3 DEF ComboBecomes
<1>7. Types'
  BY <1>1 DEF VInv, Types
<1>8. Stays(calls)
  BY <1>1, <1>5, <1>6, <1>7 DEF Stays, Keeps, IsFine
<1>9. QED
  BY <1>2, <1>3, <1>8

\* The parts of the invariant that the selector is not about.
LEMMA ComboStep ==
  ASSUME VInv, NEW calls, Stays(calls), UNCHANGED <<window, spin, plot, vtk>>,
         Head(todo)[1] \in {"clear", "addItem", "setCurrentIndex"},
         \A c \in Pending(calls) : c[1] = "ChangeFrequencyIndex",
         IsSpectral => Selector' /\ Chosen'
  PROVE  VInv'
<1>1. Keeps(calls) /\ \A c \in Pending(calls) : /\ ~IsFirst(c) /\ Rank(c) = 0
                                                /\ IsSpectral => (UsesBox(c) => BoxIsSet)
  BY DEF Stays, IsFine
<1>2. Ordered(todo')
  BY <1>1, OrderStays
<1>3. ~Corrects(Head(todo)) /\ ~SetsRange(Head(todo))
  BY DEF Corrects, SetsRange
<1>4. IsOpen => RecordIsServed'
  <2>1. IsOpen => plot'.record \in Records(window.file)
    BY DEF VInv, RecordIsServed
  <2>2. QED
    BY <1>1, <1>3, <2>1, RecordStays
<1>5. IsSpectral => Box'
  BY <1>1, <1>3, BoxStays
<1>6. IsSpectral => vtk'.frequency \in Frequencies(window.file)
  BY DEF VInv, FrequencyIsServed
<1>7. QED
  BY <1>1, <1>2, <1>4, <1>5, <1>6, KeepsStep

LEMMA SetCurrentIndexStep ==
  ASSUME VInv, NeverCut', SetCurrentIndex
  PROVE  VInv'
<1>1. todo # <<>> /\ Head(todo)[1] = "setCurrentIndex" /\ Arg = Head(todo)[2]
  BY DEF SetCurrentIndex, Runs, Arg
<1>2. PICK i : i = IF Arg \in 0 .. combo.count - 1 THEN Arg ELSE -1
  OBVIOUS
<1>3. ComboBecomes(combo.count, i)
  BY <1>2 DEF SetCurrentIndex
<1>4. Arg \in Int /\ (IsSpectral => BoxIsSet /\ Arg \in Frequencies(window.file))
  BY <1>1, HeadIs DEF TypedCall, HasFrequency, UsesBox
<1>5. i \in Int /\ (IsSpectral => BoxIsSet /\ i \in Frequencies(window.file) \cup {-1})
  BY <1>2, <1>4
<1>6. PICK calls : Stays(calls) /\ calls = IF i = combo.index THEN <<>>
                                           ELSE << <<"ChangeFrequencyIndex", i>> >>
  BY <1>1, <1>3, <1>5, ComboStays
<1>7. PICK a : a = <<"ChangeFrequencyIndex", i>>
  OBVIOUS
<1>8. \A c \in Pending(calls) : c[1] = "ChangeFrequencyIndex"
  BY <1>6, <1>7, TupleIsSeq
<1>9. UNCHANGED <<window, spin, plot, vtk>> /\ combo' = [count |-> combo.count, index |-> i]
  BY <1>3 DEF ComboBecomes, views
<1>10. combo = [count |-> 0, index |-> -1] => combo' = combo
  <2> SUFFICES ASSUME combo = [count |-> 0, index |-> -1] PROVE combo' = combo
    OBVIOUS
  <2>1. combo.count = 0 /\ combo.index = -1
    OBVIOUS
  <2>2. i = -1
    BY <1>2, <2>1
  <2>3. QED
    BY <1>9, <2>1, <2>2
<1>11. Keeps(calls)
  BY <1>6 DEF Stays
<1>12. IsSpectral => Selector'
  BY <1>1, <1>8, <1>9, <1>11, SelectorStays
<1>13. IsSpectral => Chosen'
  BY <1>1, <1>9, <1>10, <1>11, ChosenStays
<1>14. QED
  BY <1>1, <1>6, <1>8, <1>9, <1>12, <1>13, ComboStep

LEMMA ClearStep ==
  ASSUME VInv, NeverCut', Clear
  PROVE  VInv'
<1>1. todo # <<>> /\ Head(todo)[1] = "clear" /\ ComboBecomes(0, -1)
  BY DEF Clear, Runs
<1>2. \A d \in Pending(Tail(todo)) :
        ~SetsRange(d) /\ d[1] \notin {"clear", "addItem", "LoadContent"}
  <2> SUFFICES ASSUME NEW d \in Pending(Tail(todo))
               PROVE  ~SetsRange(d) /\ d[1] \notin {"clear", "addItem", "LoadContent"}
    OBVIOUS
  <2>1. Before(Head(todo), d)
    BY <1>1, TailOrdered DEF VInv
  <2>2. Rank(Head(todo)) = 2
    BY <1>1 DEF Rank, SetsRange
  <2>3. ~IsFirst(d) /\ (Rank(d) = 0 \/ 2 < Rank(d))
    BY <2>1, <2>2 DEF Before
  <2>4. QED
    BY <2>3 DEF Rank, SetsRange, IsFirst, Begins
<1>3. Pending(todo) = {Head(todo)} \cup Pending(Tail(todo))
  BY <1>1, TailIsSeq DEF VInv
<1>4. IsSpectral => BoxIsSet
  <2> SUFFICES ASSUME IsSpectral PROVE BoxIsSet
    OBVIOUS
  <2>1. ~IsNext("LoadContent") /\ ~SetsRange(Head(todo))
    BY <1>1 DEF IsNext, SetsRange
  <2>2. QED
    BY <1>2, <1>3, <2>1 DEF VInv, FrequencyIsServed, Box
<1>5. PICK calls : Stays(calls) /\ calls = IF -1 = combo.index THEN <<>>
                                           ELSE << <<"ChangeFrequencyIndex", -1>> >>
  BY <1>1, <1>4, ComboStays
<1>6. PICK a : a = <<"ChangeFrequencyIndex", -1>>
  OBVIOUS
<1>7. \A c \in Pending(calls) : c[1] = "ChangeFrequencyIndex"
  BY <1>5, <1>6, TupleIsSeq
<1>8. UNCHANGED <<window, spin, plot, vtk>> /\ combo' = [count |-> 0, index |-> -1]
  BY <1>1 DEF ComboBecomes, views
<1>9. Keeps(calls)
  BY <1>5 DEF Stays
<1>10. Pending(todo') = Pending(calls) \cup Pending(Tail(todo)) /\ file' = file
  BY <1>9, SamePending
<1>11. ~Waits("clear")' /\ ~Waits("addItem")'
  BY <1>2, <1>7, <1>10 DEF Waits
<1>12. IsSpectral => Selector'
  <2> SUFFICES ASSUME IsSpectral PROVE Filled(combo.count)'
    BY <1>11 DEF Selector
  <2>1. file.frequencies \in Nat
    BY LastType DEF IsSpectral
  <2>2. \A c \in Pending(todo') : c[1] = "FillSelector" => c[2] \in Nat
    BY <1>9, CallsStay DEF Calls, TypedCall
  <2>3. combo'.count = 0
    BY <1>8
  <2>4. QED
    BY <1>10, <1>11, <2>1, <2>2, <2>3 DEF Filled
<1>13. IsSpectral => Chosen'
  <2> SUFFICES ASSUME IsSpectral PROVE <<"FillSelector", 0>> \in Pending(todo')
    BY <1>8 DEF Chosen
  <2>1. Waits("clear") /\ ~IsNext("LoadContent")
    BY <1>1, <1>3 DEF Waits, IsNext
  <2>2. <<"FillSelector", 0>> \in Pending(todo)
    BY <2>1 DEF VInv, FrequencyIsServed, Selector
  <2>3. <<"FillSelector", 0>>[1] = "FillSelector"
    OBVIOUS
  <2>4. QED
    BY <1>1, <1>3, <1>10, <2>2, <2>3
<1>14. QED
  BY <1>1, <1>5, <1>7, <1>8, <1>12, <1>13, ComboStep

LEMMA AddItemStep ==
  ASSUME VInv, NeverCut', AddItem
  PROVE  VInv'
<1>1. todo # <<>> /\ Head(todo)[1] = "addItem"
  BY DEF AddItem, Runs
<1>2. PICK n, i : n = combo.count /\ i = IF n = 0 THEN 0 ELSE combo.index
  OBVIOUS
<1>3. ComboBecomes(n + 1, i)
  BY <1>2 DEF AddItem
<1>4. IsSpectral => BoxIsSet /\ 0 \in Frequencies(window.file)
  BY <1>1, HeadIs, LastType DEF UsesBox, IsSpectral
<1>5. PICK calls : Stays(calls) /\ calls = IF i = combo.index THEN <<>>
                                           ELSE << <<"ChangeFrequencyIndex", i>> >>
  BY <1>1, <1>2, <1>3, <1>4, ComboStays
<1>6. PICK a : a = <<"ChangeFrequencyIndex", i>>
  OBVIOUS
<1>7. a[1] = "ChangeFrequencyIndex" /\ a[2] = i
  BY <1>6
<1>8. Pending(calls) = IF i = combo.index THEN {} ELSE {a}
  BY <1>5, <1>6, TupleIsSeq
<1>9. UNCHANGED <<window, spin, plot, vtk>> /\ combo' = [count |-> n + 1, index |-> i]
  BY <1>3 DEF ComboBecomes, views
<1>10. Keeps(calls)
  BY <1>5 DEF Stays
<1>11. /\ Pending(todo') = Pending(calls) \cup Pending(Tail(todo))
       /\ Pending(todo) = {Head(todo)} \cup Pending(Tail(todo)) /\ file' = file
       /\ Frequencies(window.file)' = Frequencies(window.file)
  BY <1>10, SamePending
<1>12. \A d \in Pending(Tail(todo)) : d[1] # "addItem"
  BY <1>10, SamePending DEF Before, IsFirst
<1>13. ~Waits("addItem")' /\ Waits("addItem")
  BY <1>1, <1>7, <1>8, <1>11, <1>12 DEF Waits
<1>14. \A c : c[1] \in {"clear", "FillSelector"} => (c \in Pending(todo') <=> c \in Pending(todo))
  BY <1>1, <1>7, <1>8, <1>11
<1>15. Waits("clear")' = Waits("clear")
  BY <1>14 DEF Waits
<1>16. IsSpectral => Selector'
  <2> SUFFICES ASSUME IsSpectral PROVE Selector'
    OBVIOUS
  <2>1. ~IsNext("LoadContent")
    BY <1>1 DEF IsNext
  <2>2. CASE Waits("clear")
    <3>1. <<"FillSelector", 0>> \in Pending(todo)
      BY <2>1, <2>2 DEF VInv, FrequencyIsServed, Selector
    <3>2. <<"FillSelector", 0>>[1] = "FillSelector"
      OBVIOUS
    <3>3. <<"FillSelector", 0>> \in Pending(todo')
      BY <1>14, <3>1, <3>2
    <3>4. QED
      BY <1>15, <2>2, <3>3 DEF Selector
  <2>3. CASE ~Waits("clear")
    <3>1. Filled(n)
      BY <1>2, <2>1, <2>3 DEF VInv, FrequencyIsServed, Selector
    <3>2. n \in Nat /\ n < file.frequencies /\ file.frequencies \in Nat
          /\ \A c \in Pending(todo) : c[1] = "FillSelector" => n < c[2]
      BY <1>13, <3>1, LastType DEF Filled, IsSpectral
    <3>3. \A c \in Pending(todo') : c[1] = "FillSelector" => n < c[2] /\ c[2] \in Nat
      BY <1>10, <1>14, <3>2, CallsStay DEF Calls, TypedCall
    <3>4. combo'.count = n + 1
      BY <1>9
    <3>5. n + 1 \in Nat /\ n + 1 <= file.frequencies
          /\ \A c \in Pending(todo') : c[1] = "FillSelector" => n + 1 <= c[2]
      BY <3>2, <3>3
    <3>6. Filled(combo.count)'
      BY <1>11, <1>13, <3>4, <3>5 DEF Filled
    <3>7. QED
      BY <1>15, <2>3, <3>6 DEF Selector
  <2>4. QED
    BY <2>2, <2>3
<1>17. IsSpectral => Chosen'
  <2> SUFFICES ASSUME IsSpectral PROVE Chosen'
    OBVIOUS
  <2>1. ~IsNext("LoadContent") /\ Chosen
    BY <1>1 DEF IsNext, VInv, FrequencyIsServed
  <2>2. CASE Waits("clear")
    BY <1>15, <2>2 DEF Chosen
  <2>3. CASE combo = [count |-> 0, index |-> -1]
    <3>1. combo.count = 0 /\ combo.index = -1
      BY <2>3
    <3>2. i = 0
      BY <1>2, <3>1
    <3>3. a \in Pending(todo') /\ a[2] \in Frequencies(window.file)
      BY <1>4, <1>7, <1>8, <1>11, <3>1, <3>2
    <3>4. QED
      BY <1>7, <1>11, <3>3 DEF Chosen
  <2>4. CASE \E c \in Pending(todo) :
               c[1] = "ChangeFrequencyIndex" /\ c[2] \in Frequencies(window.file)
    <3>1. PICK c \in Pending(todo) :
            c[1] = "ChangeFrequencyIndex" /\ c[2] \in Frequencies(window.file)
      BY <2>4
    <3>2. c \in Pending(todo')
      BY <1>1, <1>11, <3>1
    <3>3. QED
      BY <1>11, <3>1, <3>2 DEF Chosen
  <2>5. CASE window.frequency \in Frequencies(window.file)
    BY <1>9, <1>11, <2>5 DEF Chosen
  <2>6. QED
    BY <2>1, <2>2, <2>3, <2>4, <2>5 DEF Chosen
<1>18. QED
  BY <1>1, <1>5, <1>7, <1>8, <1>9, <1>16, <1>17, ComboStep

\* The 2D plot is told a record of the file.
LEMMA PlotStep ==
  ASSUME VInv, NeverCut', PlotSlot
  PROVE  VInv'
<1>1. UNCHANGED <<window, spin, combo, vtk>> /\ todo # <<>> /\ Head(todo)[1] = "plot"
      /\ Then(<<>>)
  BY DEF PlotSlot, Runs, widgets, Return
<1>2. PICK field, v : field = Head(todo)[2] /\ v = Head(todo)[3]
  OBVIOUS
<1>3. field # "file" /\ (IsOpen => (field = "record" => v \in Records(window.file)))
  BY <1>1, <1>2, HeadIs DEF TypedCall, HasRecord
<1>4. plot' = [plot EXCEPT ![field] = v]
  BY <1>2 DEF PlotSlot, Arg
<1>5. DOMAIN plot' = DOMAIN plot
      /\ \A m \in DOMAIN plot : plot'[m] = IF m = field THEN v ELSE plot[m]
  BY <1>4
<1>6. "file" \in DOMAIN plot /\ "record" \in DOMAIN plot
  BY DEF VInv, Types
<1>7. Types'
  <2>1. plot'.file = plot.file
    BY <1>3, <1>5, <1>6
  <2>2. QED
    BY <1>1, <1>5, <2>1 DEF VInv, Types
<1>8. Stays(<<>>)
  BY <1>1, <1>7, TupleIsSeq DEF Stays, Keeps
<1>9. IsOpen => plot'.record \in Records(window.file)
  BY <1>3, <1>5, <1>6 DEF VInv, RecordIsServed
<1>10. IsSpectral => vtk'.frequency \in Frequencies(window.file)
  BY <1>1 DEF VInv, FrequencyIsServed
<1>11. ~Corrects(Head(todo)) /\ ~SetsRange(Head(todo))
  BY <1>1 DEF Corrects, SetsRange
<1>12. QED
  BY <1>1, <1>8, <1>9, <1>10, <1>11, TupleIsSeq, StaysStep

\* The 3D view is told a frequency of the file.
LEMMA VtkStep ==
  ASSUME VInv, NeverCut', VtkSlot
  PROVE  VInv'
<1>1. UNCHANGED <<window, spin, combo, plot>> /\ todo # <<>> /\ Head(todo)[1] = "vtk"
      /\ Then(<<>>)
  BY DEF VtkSlot, Runs, widgets, Return
<1>2. PICK field, v : field = Head(todo)[2] /\ v = Head(todo)[3]
  OBVIOUS
<1>3. field # "file"
      /\ (IsSpectral => (field = "frequency" => v \in Frequencies(window.file)))
  BY <1>1, <1>2, HeadIs DEF TypedCall, HasFrequency
<1>4. vtk' = [vtk EXCEPT ![field] = v] \/ vtk' = vtk
  BY <1>2 DEF VtkSlot, Arg
<1>5. DOMAIN vtk' = DOMAIN vtk
      /\ \A m \in DOMAIN vtk : vtk'[m] = vtk[m] \/ (m = field /\ vtk'[m] = v)
  BY <1>4
<1>6. "file" \in DOMAIN vtk /\ "frequency" \in DOMAIN vtk
  BY DEF VInv, Types
<1>7. Types'
  <2>1. vtk'.file = vtk.file
    BY <1>3, <1>5, <1>6
  <2>2. QED
    BY <1>1, <1>5, <2>1 DEF VInv, Types
<1>8. Stays(<<>>)
  BY <1>1, <1>7, TupleIsSeq DEF Stays, Keeps
<1>9. IsOpen => plot'.record \in Records(window.file)
  BY <1>1 DEF VInv, RecordIsServed
<1>10. IsSpectral => vtk'.frequency \in Frequencies(window.file)
  BY <1>3, <1>5, <1>6 DEF VInv, FrequencyIsServed
<1>11. ~Corrects(Head(todo)) /\ ~SetsRange(Head(todo))
  BY <1>1 DEF Corrects, SetsRange
<1>12. QED
  BY <1>1, <1>8, <1>9, <1>10, <1>11, TupleIsSeq, StaysStep

\* What is told of a frequency.
LEMMA FrequencyCalls ==
  ASSUME NEW i \in Int, IsSpectral => BoxIsSet /\ i \in Frequencies(window.file)
  PROVE  /\ IsSeq(EmitFrequency(i))
         /\ \A c \in Pending(EmitFrequency(i)) : IsFine(c) /\ c[1] # "EmitRecord"
<1>1. PICK a, b, c, d : /\ a = <<"vtk", "frequency", i>> /\ b = <<"setValue", "frequency", i>>
                        /\ c = <<"setCurrentIndex", i>> /\ d = <<"plot", "frequency", i>>
  OBVIOUS
<1>2. PICK calls : calls = <<a, b, c, a, d>>
  OBVIOUS
<1>3. calls = EmitFrequency(i)
  BY <1>1, <1>2 DEF EmitFrequency
<1>4. IsSeq(calls) /\ Pending(calls) = {a, b, c, a, d}
  BY <1>2, LongTupleIsSeq
<1> USE DEF IsFine, Served, TypedCall, IsFirst, Begins, Rank, SetsRange, HasRecord,
            HasFrequency, UsesBox
<1>5. IsFine(a) /\ a[1] = "vtk"
  <2>1. a[1] = "vtk" /\ a[2] = "frequency" /\ a[3] = i
    BY <1>1
  <2>2. QED
    BY <2>1
<1>6. IsFine(b) /\ b[1] = "setValue"
  <2>1. b[1] = "setValue" /\ b[2] = "frequency" /\ b[3] = i
    BY <1>1
  <2>2. QED
    BY <2>1 DEF Spins
<1>7. IsFine(c) /\ c[1] = "setCurrentIndex"
  <2>1. c[1] = "setCurrentIndex" /\ c[2] = i
    BY <1>1
  <2>2. QED
    BY <2>1
<1>8. IsFine(d) /\ d[1] = "plot"
  <2>1. d[1] = "plot" /\ d[2] = "frequency" /\ d[3] = i
    BY <1>1
  <2>2. QED
    BY <2>1
<1>9. ASSUME NEW x \in Pending(calls) PROVE IsFine(x) /\ x[1] # "EmitRecord"
  <2>1. x = a \/ x = b \/ x = c \/ x = d
    BY <1>4
  <2>2. (x[1] = "vtk" \/ x[1] = "setValue" \/ x[1] = "setCurrentIndex" \/ x[1] = "plot")
        /\ (x = a => IsFine(x)) /\ (x = b => IsFine(x)) /\ (x = c => IsFine(x))
        /\ (x = d => IsFine(x))
    BY <1>5, <1>6, <1>7, <1>8, <2>1, Zenon
  <2>3. IsFine(x)
    BY <2>1, <2>2, Zenon
  <2>4. QED
    BY <2>2, <2>3
<1>10. QED
  BY <1>3, <1>4, <1>9, Zenon

LEMMA ChangeFrequencyStep ==
  ASSUME VInv, NeverCut', ChangeFrequencyIndex
  PROVE  VInv'
<1>1. UNCHANGED <<spin, combo, plot, vtk>> /\ todo # <<>>
      /\ Head(todo)[1] = "ChangeFrequencyIndex"
  BY DEF ChangeFrequencyIndex, Runs, widgets, views
<1>2. PICK i \in Int : i = Arg /\ i = Head(todo)[2]
  BY <1>1, HeadIs DEF TypedCall, Arg
<1>3. IsSpectral => BoxIsSet /\ i \in Frequencies(window.file) \cup {-1}
  BY <1>1, <1>2, HeadIs DEF HasFrequency, UsesBox
<1>4. DOMAIN window = Members
  BY DEF VInv, Types
<1>5. ~SetsRange(Head(todo)) /\ ~Corrects(Head(todo))
      /\ (IsOpen => plot'.record \in Records(window.file))
      /\ (IsSpectral => vtk'.frequency \in Frequencies(window.file))
  BY <1>1 DEF SetsRange, Corrects, VInv, RecordIsServed, FrequencyIsServed
<1>6. CASE IsOpen /\ i # -1
  <2>1. window' = [window EXCEPT !.frequency = i] /\ Then(EmitFrequency(i))
    BY <1>2, <1>6 DEF ChangeFrequencyIndex
  <2>2. DOMAIN window' = Members /\ window'.frequency = i
        /\ \A m \in Members \ {"frequency"} : window'[m] = window[m]
    BY <1>4, <2>1 DEF Members
  <2>3. Types'
    BY <1>1, <2>2, WindowTypes DEF VInv, Members
  <2>4. window'.file = window.file /\ window'.record = window.record
    BY <2>2 DEF Members
  <2>5. PICK calls : calls = EmitFrequency(i)
    OBVIOUS
  <2>6. IsSeq(calls) /\ \A c \in Pending(calls) : IsFine(c) /\ c[1] # "EmitRecord"
    BY <1>3, <1>6, <2>5, FrequencyCalls
  <2>7. Stays(calls)
    BY <1>1, <2>1, <2>3, <2>4, <2>5, <2>6 DEF Stays, Keeps, IsFine
  <2>8. IsSpectral => window'.frequency \in Frequencies(window.file)
    BY <1>3, <1>6, <2>2
  <2>9. QED
    BY <1>1, <1>5, <2>4, <2>6, <2>7, <2>8, StaysStep
<1>7. CASE ~(IsOpen /\ i # -1)
  <2>1. UNCHANGED window /\ Then(<<>>)
    BY <1>2, <1>7 DEF ChangeFrequencyIndex, Return
  <2>2. Types'
    BY <1>1, <2>1 DEF VInv, Types
  <2>3. Stays(<<>>)
    BY <1>1, <2>1, <2>2, TupleIsSeq DEF Stays, Keeps
  <2>4. IsSpectral => Head(todo)[2] \notin Frequencies(window.file)
    BY <1>2, <1>7 DEF IsSpectral, Frequencies
  <2>5. QED
    BY <1>1, <1>5, <2>1, <2>3, <2>4, TupleIsSeq, StaysStep
<1>8. QED
  BY <1>6, <1>7

LEMMA ChannelCalls ==
  ASSUME NEW i \in Int
  PROVE  /\ IsSeq(EmitChannel(i))
         /\ \A c \in Pending(EmitChannel(i)) : IsFine(c) /\ c[1] # "EmitRecord"
<1>1. PICK a, b, c : /\ a = <<"vtk", "channel", i>> /\ b = <<"setValue", "channel", i>>
                     /\ c = <<"plot", "channel", i>>
  OBVIOUS
<1>2. IsFine(a) /\ IsFine(b) /\ IsFine(c)
      /\ a[1] # "EmitRecord" /\ b[1] # "EmitRecord" /\ c[1] # "EmitRecord"
  BY <1>1, FineTold DEF Spins
<1>3. PICK calls : calls = <<a, b, c>>
  OBVIOUS
<1>4. calls = EmitChannel(i)
  BY <1>1, <1>3 DEF EmitChannel
<1>5. IsSeq(calls) /\ Pending(calls) = {a, b, c}
  BY <1>3, TupleIsSeq
<1>6. QED
  BY <1>2, <1>4, <1>5

LEMMA ChangeChannelStep ==
  ASSUME VInv, NeverCut', ChangeChannelIndex
  PROVE  VInv'
<1>1. UNCHANGED <<spin, combo, plot, vtk>> /\ todo # <<>>
      /\ Head(todo)[1] = "ChangeChannelIndex"
  BY DEF ChangeChannelIndex, Runs, widgets, views
<1>2. DOMAIN window = Members
  BY DEF VInv, Types
<1>3. CASE IsOpen /\ Arg \in Channels(window.file)
  <2>1. PICK i \in Int : i = Arg
    BY <1>3 DEF Channels
  <2>2. window' = [window EXCEPT !.channel = i] /\ Then(EmitChannel(i))
    BY <1>3, <2>1 DEF ChangeChannelIndex
  <2>3. DOMAIN window' = Members /\ window'.channel = i
        /\ \A m \in Members \ {"channel"} : window'[m] = window[m]
    BY <1>2, <2>2 DEF Members
  <2>4. Types'
    BY <1>1, <2>3, WindowTypes DEF VInv, Members
  <2>5. window'.file = window.file /\ window'.record = window.record
        /\ window'.frequency = window.frequency
    BY <2>3 DEF Members
  <2>6. PICK calls : calls = EmitChannel(i)
    OBVIOUS
  <2>7. QED
    BY <1>1, <2>2, <2>4, <2>5, <2>6, ChannelCalls, TellStep
<1>4. CASE ~(IsOpen /\ Arg \in Channels(window.file))
  <2>1. UNCHANGED window /\ Then(<<>>)
    BY <1>4 DEF ChangeChannelIndex, Return
  <2>2. QED
    BY <1>1, <2>1, TupleIsSeq, CallingStep
<1>5. QED
  BY <1>3, <1>4

LEMMA SingleOrdered ==
  ASSUME NEW a
  PROVE  Ordered(<<a>>)
<1>1. 1 .. Len(<<a>>) = {1}
  OBVIOUS
<1>2. QED
  BY <1>1 DEF Ordered

\* What runs behind a call that fills the selector.
LEMMA BehindFillSelector ==
  ASSUME VInv, todo # <<>>, Head(todo)[1] = "FillSelector",
         NEW d \in Pending(Tail(todo))
  PROVE  ~SetsRange(d) /\ d[1] \notin {"clear", "FillSelector", "addItem"}
<1>1. Before(Head(todo), d)
  BY TailOrdered DEF VInv
<1>2. Rank(Head(todo)) = 3
  BY DEF Rank, SetsRange
<1>3. ~IsFirst(d) /\ (Rank(d) = 0 \/ 3 < Rank(d))
  BY <1>1, <1>2 DEF Before
<1>4. QED
  BY <1>3 DEF Rank, IsFirst

\* The parts of the invariant that filling the selector is not about.
LEMMA FillingStep ==
  ASSUME VInv, NeverCut', todo # <<>>, Head(todo)[1] = "FillSelector",
         UNCHANGED <<window, spin, combo, plot, vtk>>,
         NEW calls, IsSeq(calls), Then(calls), Ordered(calls),
         \A c \in Pending(calls) : Served(c) /\ ~Begins(c) /\ c[1] # "EmitRecord",
         IsSpectral => Selector' /\ Chosen'
  PROVE  VInv'
<1>1. Types'
  BY DEF VInv, Types
<1>2. Keeps(calls)
  BY <1>1 DEF Keeps
<1>3. Rank(Head(todo)) = 3 /\ \A c : Rank(c) <= 3
  BY DEF Rank, SetsRange
<1>4. Ordered(todo')
  BY <1>3, OrderedStep DEF VInv
<1>5. ~Corrects(Head(todo)) /\ ~SetsRange(Head(todo))
  BY DEF Corrects, SetsRange
<1>6. IsOpen => RecordIsServed'
  <2>1. IsOpen => plot'.record \in Records(window.file)
    BY DEF VInv, RecordIsServed
  <2>2. QED
    BY <1>2, <1>5, <2>1, RecordStays
<1>7. IsSpectral => BoxIsSet
  <2>1. \A c \in Pending(todo) : ~SetsRange(c)
    BY <1>2, <1>5, SamePending, BehindFillSelector
  <2>2. ~IsNext("LoadContent")
    BY DEF IsNext
  <2>3. QED
    BY <2>1, <2>2 DEF VInv, FrequencyIsServed, Box
<1>8. IsSpectral => Box'
  BY <1>2, <1>5, <1>7, BoxStays
<1>9. IsSpectral => vtk'.frequency \in Frequencies(window.file)
  BY DEF VInv, FrequencyIsServed
<1>10. QED
  BY <1>2, <1>4, <1>6, <1>8, <1>9, KeepsStep

LEMMA FillSelectorStep ==
  ASSUME VInv, NeverCut', FillSelector
  PROVE  VInv'
<1>1. UNCHANGED <<window, spin, combo, plot, vtk>> /\ todo # <<>>
      /\ Head(todo)[1] = "FillSelector"
  BY DEF FillSelector, Runs, widgets, views
<1>2. PICK k \in Nat : k = Arg /\ k = Head(todo)[2]
  BY <1>1, HeadIs DEF TypedCall, Arg
<1>3. \A d \in Pending(Tail(todo)) : d[1] \notin {"clear", "FillSelector", "addItem"}
  BY <1>1, BehindFillSelector
<1>4. Pending(todo) = {Head(todo)} \cup Pending(Tail(todo)) /\ Head(todo) \in Pending(todo)
  BY <1>1, TailIsSeq DEF VInv
<1>5. ~Waits("clear") /\ ~Waits("addItem")
  BY <1>1, <1>3, <1>4 DEF Waits
<1>6. IsSpectral => Filled(combo.count) /\ Chosen /\ ~IsNext("LoadContent")
                    /\ file.frequencies \in Nat /\ 0 \in Frequencies(window.file)
                    /\ Frequencies(window.file) = 0 .. file.frequencies - 1
  BY <1>1, <1>5, LastType DEF VInv, FrequencyIsServed, Selector, IsNext, IsSpectral,
                              LastFrequency
<1>7. IsSpectral => combo.count \in Nat /\ combo.count <= file.frequencies /\ combo.count <= k
  BY <1>1, <1>2, <1>4, <1>6 DEF Filled
<1>8. file' = file /\ Frequencies(window.file)' = Frequencies(window.file)
  BY <1>1 DEF file, Frequencies
<1>9. CASE k \notin Frequencies(window.file)
  <2>1. Then(<<>>)
    BY <1>2, <1>9 DEF FillSelector
  <2>2. Pending(todo') = Pending(Tail(todo))
    BY <1>1, <2>1, TupleIsSeq, Pushed DEF VInv
  <2>3. IsSpectral => Selector'
    <3>1. ~Waits("clear")' /\ ~Waits("addItem")'
      BY <1>3, <2>2 DEF Waits
    <3>2. IsSpectral => Filled(combo.count)'
      BY <1>1, <1>3, <1>7, <1>8, <2>2, <3>1 DEF Filled
    <3>3. QED
      BY <3>1, <3>2 DEF Selector
  <2>4. IsSpectral => Chosen'
    <3> SUFFICES ASSUME IsSpectral PROVE Chosen'
      OBVIOUS
    <3>1. <<"FillSelector", 0>> \notin Pending(todo)
      <4>1. <<"FillSelector", 0>>[1] = "FillSelector" /\ <<"FillSelector", 0>>[2] = 0
        OBVIOUS
      <4>2. QED
        BY <1>2, <1>3, <1>4, <1>6, <1>9, <4>1
    <3>2. CASE \E c \in Pending(todo) :
                 c[1] = "ChangeFrequencyIndex" /\ c[2] \in Frequencies(window.file)
      BY <1>1, <1>4, <1>8, <2>2, <3>2 DEF Chosen
    <3>3. CASE window.frequency \in Frequencies(window.file)
      BY <1>1, <1>8, <3>3 DEF Chosen
    <3>4. QED
      BY <1>5, <1>6, <3>1, <3>2, <3>3 DEF Chosen
  <2>5. Ordered(<<>>)
    BY TupleIsSeq, PlainOrdered
  <2>6. QED
    BY <1>1, <2>1, <2>3, <2>4, <2>5, TupleIsSeq, FillingStep
<1>10. CASE k \in Frequencies(window.file)
  <2>1. PICK a, b, c : a = <<"addItem">> /\ b = <<"setCurrentIndex", k>>
                       /\ c = <<"FillSelector", k + 1>>
    OBVIOUS
  <2>2. a[1] = "addItem" /\ b[1] = "setCurrentIndex" /\ b[2] = k
        /\ c[1] = "FillSelector" /\ c[2] = k + 1
    BY <2>1
  <2>3. PICK some : some = IF k \in file.kHz THEN <<b>> ELSE <<>>
    OBVIOUS
  <2>4. PICK front : front = <<a>> \o some
    OBVIOUS
  <2>5. PICK calls : calls = front \o <<c>>
    OBVIOUS
  <2>6. Then(calls)
    BY <1>2, <1>10, <2>1, <2>3, <2>4, <2>5 DEF FillSelector
  <2>7. IsSeq(some) /\ Pending(some) \subseteq {b} /\ Ordered(some)
    BY <2>3, TupleIsSeq, SingleOrdered, PlainOrdered
  <2>8. Before(a, b) /\ Before(a, c) /\ Before(b, c)
    <3>1. ~Begins(a) /\ ~Begins(b) /\ ~Begins(c) /\ ~IsFirst(b) /\ ~IsFirst(c)
      BY <2>2 DEF IsFirst, Begins
    <3>2. Rank(a) = 0 /\ Rank(b) = 0 /\ Rank(c) = 3
      BY <2>2 DEF Rank, SetsRange
    <3>3. QED
      BY <3>1, <3>2 DEF Before
  <2>9. IsSeq(front) /\ Pending(front) = {a} \cup Pending(some) /\ Ordered(front)
    <3>1. IsSeq(<<a>>) /\ Pending(<<a>>) = {a} /\ Ordered(<<a>>)
      BY TupleIsSeq, SingleOrdered
    <3>2. QED
      BY <2>4, <2>7, <2>8, <3>1, ConcatIsSeq, ConcatOrdered
  <2>10. IsSeq(calls) /\ Pending(calls) = {a, c} \cup Pending(some) /\ Ordered(calls)
    <3>1. IsSeq(<<c>>) /\ Pending(<<c>>) = {c} /\ Ordered(<<c>>)
      BY TupleIsSeq, SingleOrdered
    <3>2. \A x \in Pending(front) : Before(x, c)
      BY <2>7, <2>8, <2>9
    <3>3. QED
      BY <2>5, <2>7, <2>9, <3>1, <3>2, ConcatIsSeq, ConcatOrdered
  <2>11. \A x \in {a, b, c} : Served(x) /\ ~Begins(x) /\ x[1] # "EmitRecord"
    <3>1. Served(a)
      BY <2>2 DEF Served, TypedCall, HasRecord, HasFrequency, SetsRange
    <3>2. Served(b)
      BY <1>10, <2>2 DEF Served, TypedCall, HasRecord, HasFrequency, SetsRange
    <3>3. Served(c)
      BY <2>2 DEF Served, TypedCall, HasRecord, HasFrequency, SetsRange
    <3>4. QED
      BY <2>2, <3>1, <3>2, <3>3 DEF Begins
  <2>12. Pending(todo') = {a, c} \cup Pending(some) \cup Pending(Tail(todo))
    BY <1>1, <2>6, <2>10, Pushed DEF VInv
  <2>13. ~Waits("clear")' /\ Waits("addItem")'
    BY <1>3, <2>2, <2>7, <2>12 DEF Waits
  <2>14. IsSpectral => Selector'
    <3> SUFFICES ASSUME IsSpectral PROVE Filled(combo.count)'
      BY <2>13 DEF Selector
    <3>1. k < file.frequencies
      BY <1>6, <1>10
    <3>2. \A x \in Pending(todo') : x[1] = "FillSelector" => x[2] = k + 1
      BY <1>3, <2>2, <2>7, <2>12
    <3>3. combo.count < file.frequencies /\ combo.count < k + 1 /\ combo.count <= k + 1
      BY <1>6, <1>7, <3>1
    <3>4. QED
      BY <1>1, <1>7, <1>8, <3>2, <3>3 DEF Filled
  <2>15. IsSpectral => Chosen'
    <3> SUFFICES ASSUME IsSpectral PROVE Chosen'
      OBVIOUS
    <3>1. CASE combo = [count |-> 0, index |-> -1]
      BY <1>1, <2>13, <3>1 DEF Chosen
    <3>2. CASE \E x \in Pending(todo) :
                 x[1] = "ChangeFrequencyIndex" /\ x[2] \in Frequencies(window.file)
      BY <1>1, <1>4, <1>8, <2>12, <3>2 DEF Chosen
    <3>3. CASE window.frequency \in Frequencies(window.file)
      BY <1>1, <1>8, <3>3 DEF Chosen
    <3>4. QED
      BY <1>5, <1>6, <3>1, <3>2, <3>3 DEF Chosen
  <2>16. \A x \in Pending(calls) : Served(x) /\ ~Begins(x) /\ x[1] # "EmitRecord"
    BY <2>7, <2>10, <2>11
  <2>17. QED
    BY <1>1, <2>6, <2>10, <2>14, <2>15, <2>16, FillingStep
<1>11. QED
  BY <1>9, <1>10

\* What runs behind a call that begins to open a file.
LEMMA BehindBeginning ==
  ASSUME VInv, todo # <<>>, Begins(Head(todo)),
         NEW d \in Pending(Tail(todo))
  PROVE  d[1] = "ChangePhiAndTheta" /\ TypedCall(d)
<1>1. Before(Head(todo), d)
  BY TailOrdered DEF VInv
<1>2. d \in Pending(todo)
  BY TailIsSeq DEF VInv
<1>3. QED
  BY <1>1, <1>2 DEF Before, VInv, Calls

\* The boxes of the channel and of the direction.
LEMMA BoxesAreGiven ==
  ASSUME IsOpen, window.file \in Files
  PROVE  \E s :
    /\ IsSeq(s) /\ Ordered(s)
    /\ s = << <<"setMaximum", "channel", file.channels - 1>>,
              <<"setValue", "channel", 0>>,
              <<"setMinimum", "alpha", file.header.alphaStart>>,
              <<"setMaximum", "alpha", file.header.alphaEnd>>,
              <<"setMinimum", "beta", file.header.betaStart>>,
              <<"setMaximum", "beta", file.header.betaEnd>> >>
    /\ \A c \in Pending(s) :
         /\ Served(c) /\ ~IsFirst(c) /\ Rank(c) = 0 /\ ~UsesBox(c) /\ c[1] # "EmitRecord"
<1>1. PICK a, b, c, d, e, f :
        /\ a = <<"setMaximum", "channel", file.channels - 1>>
        /\ b = <<"setValue", "channel", 0>>
        /\ c = <<"setMinimum", "alpha", file.header.alphaStart>>
        /\ d = <<"setMaximum", "alpha", file.header.alphaEnd>>
        /\ e = <<"setMinimum", "beta", file.header.betaStart>>
        /\ f = <<"setMaximum", "beta", file.header.betaEnd>>
  OBVIOUS
<1>2. PICK s : s = <<a, b, c, d, e, f>>
  OBVIOUS
<1>3. IsSeq(s) /\ Pending(s) = {a, b, c, d, e, f}
  BY <1>2, LongTupleIsSeq
<1>4. file.channels - 1 \in Int /\ file.header.alphaStart \in Int
      /\ file.header.alphaEnd \in Int /\ file.header.betaStart \in Int
      /\ file.header.betaEnd \in Int
  <2>1. PICK h : h = file.header /\ h \in [Grid!AngleFields -> Int]
    <3>1. file.header \in {Content[x].header : x \in Files}
      BY DEF file
    <3>2. QED
      BY <3>1, ContentAssumption DEF Grid!GridAssumption
  <2>2. h.alphaStart \in Int /\ h.alphaEnd \in Int /\ h.betaStart \in Int /\ h.betaEnd \in Int
    BY <2>1 DEF Grid!AngleFields
  <2>3. file.channels \in Nat
    BY ContentAssumption DEF file
  <2>4. QED
    BY <2>1, <2>2, <2>3
<1>5. ASSUME NEW x, x[1] \in {"setMaximum", "setMinimum", "setValue"},
             x[2] \in {"channel", "alpha", "beta"}, x[3] \in Int
      PROVE  Served(x) /\ ~IsFirst(x) /\ Rank(x) = 0 /\ ~UsesBox(x) /\ x[1] # "EmitRecord"
  BY <1>5 DEF Served, TypedCall, HasRecord, HasFrequency, SetsRange, IsFirst, Begins, Rank,
              UsesBox, Spins
<1>6. /\ a[1] = "setMaximum" /\ a[2] = "channel" /\ a[3] \in Int
      /\ b[1] = "setValue" /\ b[2] = "channel" /\ b[3] \in Int
      /\ c[1] = "setMinimum" /\ c[2] = "alpha" /\ c[3] \in Int
      /\ d[1] = "setMaximum" /\ d[2] = "alpha" /\ d[3] \in Int
      /\ e[1] = "setMinimum" /\ e[2] = "beta" /\ e[3] \in Int
      /\ f[1] = "setMaximum" /\ f[2] = "beta" /\ f[3] \in Int
  BY <1>1, <1>4
<1>7. \A x \in Pending(s) :
        Served(x) /\ ~IsFirst(x) /\ Rank(x) = 0 /\ ~UsesBox(x) /\ x[1] # "EmitRecord"
  BY <1>3, <1>5, <1>6
<1>8. Ordered(s)
  BY <1>7, PlainOrdered
<1>9. QED
  BY <1>1, <1>2, <1>3, <1>7, <1>8

\* The frequencies: the range before the selector is cleared and filled.
LEMMA FrequenciesAreGiven ==
  ASSUME VInv, IsOpen
  PROVE  \E s :
    /\ IsSeq(s) /\ Ordered(s)
    /\ s = IF IsSpectrum(window.file)
             THEN << <<"setMaximum", "frequency", file.frequencies - 1>>,
                     <<"clear">>, <<"FillSelector", 0>> >>
             ELSE << <<"clear">>, <<"FillSelector", 0>>, <<"setCurrentIndex", 0>> >>
    /\ \A c \in Pending(s) : Served(c) /\ ~IsFirst(c) /\ c[1] # "EmitRecord"
                             /\ (IsSpectral => ~UsesBox(c))
    /\ <<"clear">> \in Pending(s) /\ <<"FillSelector", 0>> \in Pending(s)
    /\ IsSpectral => \E c \in Pending(s) : SetsRange(c)
<1>1. PICK a, b, c, d :
        /\ a = <<"setMaximum", "frequency", file.frequencies - 1>>
        /\ b = <<"clear">> /\ c = <<"FillSelector", 0>> /\ d = <<"setCurrentIndex", 0>>
  OBVIOUS
<1>2. /\ a[1] = "setMaximum" /\ a[2] = "frequency" /\ a[3] = file.frequencies - 1
      /\ b[1] = "clear" /\ c[1] = "FillSelector" /\ c[2] = 0
      /\ d[1] = "setCurrentIndex" /\ d[2] = 0
  BY <1>1
<1>3. LastFrequency \in Nat /\ LastFrequency = file.frequencies - 1
  BY LastType DEF LastFrequency
<1>4. Served(a) /\ Served(b) /\ Served(c) /\ (~IsSpectral => Served(d))
  <2>1. Served(a)
    BY <1>2, <1>3 DEF Served, TypedCall, HasRecord, HasFrequency, SetsRange, Spins
  <2>2. Served(b) /\ Served(c) /\ (~IsSpectral => Served(d))
    BY <1>2 DEF Served, TypedCall, HasRecord, HasFrequency, SetsRange
  <2>3. QED
    BY <2>1, <2>2
<1>5. Rank(a) = 1 /\ Rank(b) = 2 /\ Rank(c) = 3 /\ Rank(d) = 0 /\ SetsRange(a)
  BY <1>2 DEF Rank, SetsRange
<1>6. \A x \in {a, b, c, d} : ~IsFirst(x) /\ ~Begins(x) /\ x[1] # "EmitRecord"
  BY <1>2 DEF IsFirst, Begins
<1>7. ~UsesBox(a) /\ ~UsesBox(b) /\ ~UsesBox(c)
  BY <1>2 DEF UsesBox
<1>8. Before(a, b) /\ Before(a, c) /\ Before(b, c) /\ Before(b, d) /\ Before(c, d)
  BY <1>5, <1>6 DEF Before
<1>9. \A x, y, z : Before(x, y) /\ Before(x, z) /\ Before(y, z) => Ordered(<<x, y, z>>)
  <2> SUFFICES ASSUME NEW x, NEW y, NEW z, Before(x, y), Before(x, z), Before(y, z)
               PROVE  Ordered(<<x, y, z>>)
    OBVIOUS
  <2>1. PICK s : s = <<x, y, z>>
    OBVIOUS
  <2>2. Len(s) = 3 /\ s[1] = x /\ s[2] = y /\ s[3] = z
    BY <2>1
  <2>3. ASSUME NEW i \in 1 .. 3, NEW j \in 1 .. 3, i < j PROVE Before(s[i], s[j])
    <3>1. (i = 1 /\ j = 2) \/ (i = 1 /\ j = 3) \/ (i = 2 /\ j = 3)
      BY <2>3
    <3>2. QED
      BY <2>2, <3>1
  <2>4. QED
    BY <2>1, <2>2, <2>3 DEF Ordered
<1>10. CASE IsSpectrum(window.file)
  <2>1. PICK s : s = <<a, b, c>>
    OBVIOUS
  <2>2. IsSeq(s) /\ Pending(s) = {a, b, c} /\ Ordered(s)
    BY <1>8, <1>9, <2>1, TupleIsSeq
  <2>3. \A x \in Pending(s) : Served(x) /\ ~IsFirst(x) /\ x[1] # "EmitRecord" /\ ~UsesBox(x)
    BY <1>4, <1>6, <1>7, <2>2
  <2>4. QED
    BY <1>1, <1>5, <1>10, <2>1, <2>2, <2>3
<1>11. CASE ~IsSpectrum(window.file)
  <2>1. PICK s : s = <<b, c, d>>
    OBVIOUS
  <2>2. IsSeq(s) /\ Pending(s) = {b, c, d} /\ Ordered(s)
    BY <1>8, <1>9, <2>1, TupleIsSeq
  <2>3. ~IsSpectral
    BY <1>11 DEF IsSpectral
  <2>4. \A x \in Pending(s) : Served(x) /\ ~IsFirst(x) /\ x[1] # "EmitRecord"
    BY <1>4, <1>6, <2>2, <2>3
  <2>5. QED
    BY <1>1, <1>11, <2>1, <2>2, <2>3, <2>4
<1>12. QED
  BY <1>10, <1>11

LEMMA LoadContentStep ==
  ASSUME VInv, NeverCut', LoadContent
  PROVE  VInv'
<1>1. UNCHANGED <<window, spin, combo, plot, vtk>> /\ todo # <<>>
      /\ Head(todo)[1] = "LoadContent"
  BY DEF LoadContent, Runs, widgets, views
<1>2. IsOpen /\ window.file \in Files
  BY <1>1, HeadIs DEF TypedCall
<1>3. Begins(Head(todo))
  BY <1>1 DEF Begins
<1>4. PICK boxes :
        /\ IsSeq(boxes) /\ Ordered(boxes)
        /\ boxes = << <<"setMaximum", "channel", file.channels - 1>>,
                      <<"setValue", "channel", 0>>,
                      <<"setMinimum", "alpha", file.header.alphaStart>>,
                      <<"setMaximum", "alpha", file.header.alphaEnd>>,
                      <<"setMinimum", "beta", file.header.betaStart>>,
                      <<"setMaximum", "beta", file.header.betaEnd>> >>
        /\ \A c \in Pending(boxes) :
             Served(c) /\ ~IsFirst(c) /\ Rank(c) = 0 /\ ~UsesBox(c) /\ c[1] # "EmitRecord"
  BY <1>2, BoxesAreGiven
<1>5. PICK axis :
        /\ IsSeq(axis) /\ Ordered(axis)
        /\ axis = IF IsSpectrum(window.file)
             THEN << <<"setMaximum", "frequency", file.frequencies - 1>>,
                     <<"clear">>, <<"FillSelector", 0>> >>
             ELSE << <<"clear">>, <<"FillSelector", 0>>, <<"setCurrentIndex", 0>> >>
        /\ \A c \in Pending(axis) : Served(c) /\ ~IsFirst(c) /\ c[1] # "EmitRecord"
                                    /\ (IsSpectral => ~UsesBox(c))
        /\ <<"clear">> \in Pending(axis) /\ <<"FillSelector", 0>> \in Pending(axis)
        /\ IsSpectral => \E c \in Pending(axis) : SetsRange(c)
  BY <1>2, FrequenciesAreGiven
<1>6. PICK front : front = <<"ChangePhiAndTheta", 0, 0>>
  OBVIOUS
<1>7. front[1] = "ChangePhiAndTheta" /\ front[2] = 0 /\ front[3] = 0
  BY <1>6
<1>8. Served(front) /\ ~IsFirst(front) /\ Rank(front) = 0 /\ ~UsesBox(front)
  BY <1>7 DEF Served, TypedCall, HasRecord, HasFrequency, SetsRange, IsFirst, Begins, Rank,
              UsesBox
<1>9. PICK both : both = boxes \o axis
  OBVIOUS
<1>10. PICK calls : calls = both \o <<front>>
  OBVIOUS
<1>11. Then(calls)
  BY <1>4, <1>5, <1>6, <1>9, <1>10 DEF LoadContent
<1>12. \A c \in Pending(boxes), d \in Pending(axis) : Before(c, d)
  <2> TAKE c \in Pending(boxes), d \in Pending(axis)
  <2>1. ~Begins(c) /\ Rank(c) = 0 /\ ~IsFirst(d)
    BY <1>4, <1>5 DEF IsFirst
  <2>2. Rank(d) = 0 \/ 0 < Rank(d)
    BY DEF Rank
  <2>3. QED
    BY <2>1, <2>2 DEF Before
<1>13. IsSeq(both) /\ Pending(both) = Pending(boxes) \cup Pending(axis) /\ Ordered(both)
  BY <1>4, <1>5, <1>9, <1>12, ConcatIsSeq, ConcatOrdered
<1>14. IsSeq(<<front>>) /\ Pending(<<front>>) = {front} /\ Ordered(<<front>>)
  BY TupleIsSeq, SingleOrdered
<1>15. \A c \in Pending(both) : Before(c, front)
  BY <1>4, <1>5, <1>8, <1>13 DEF Before, IsFirst
<1>16. IsSeq(calls) /\ Pending(calls) = Pending(boxes) \cup Pending(axis) \cup {front}
       /\ Ordered(calls)
  <2>1. \A c \in Pending(both), d \in Pending(<<front>>) : Before(c, d)
    BY <1>14, <1>15
  <2>2. QED
    BY <1>10, <1>13, <1>14, <2>1, ConcatIsSeq, ConcatOrdered
<1>17. \A c \in Pending(calls) : Served(c) /\ c[1] # "EmitRecord" /\ (IsSpectral => ~UsesBox(c))
  BY <1>4, <1>5, <1>7, <1>8, <1>16
<1>18. Types'
  BY <1>1 DEF VInv, Types
<1>19. Keeps(calls)
  BY <1>1, <1>11, <1>16, <1>17, <1>18 DEF Keeps
<1>20. Ordered(todo')
  BY <1>1, <1>3, <1>11, <1>16, OrderedStep DEF VInv
<1>21. RecordIsServed'
  <2>1. ~Corrects(Head(todo))
    BY <1>1 DEF Corrects
  <2>2. plot'.record \in Records(window.file)
    BY <1>1, <1>2 DEF VInv, RecordIsServed
  <2>3. QED
    BY <1>1, <1>2, <1>17, <1>19, <2>1, <2>2, RecordStays
<1>22. Pending(todo') = Pending(calls) \cup Pending(Tail(todo))
  BY <1>19, SamePending
<1>23. IsSpectral => Box'
  <2> SUFFICES ASSUME IsSpectral PROVE Box'
    OBVIOUS
  <2>1. \E c \in Pending(todo') : SetsRange(c)
    BY <1>5, <1>16, <1>22
  <2>2. \A d \in Pending(Tail(todo)) : ~UsesBox(d)
    BY <1>1, <1>3, BehindBeginning DEF UsesBox
  <2>3. \A c \in Pending(todo') : ~UsesBox(c)
    BY <1>17, <1>22, <2>2
  <2>4. QED
    BY <2>1, <2>3 DEF Box
<1>24. <<"clear">> \in Pending(todo') /\ <<"FillSelector", 0>> \in Pending(todo')
  BY <1>5, <1>16, <1>22
<1>25. Waits("clear")'
  <2>1. <<"clear">>[1] = "clear"
    OBVIOUS
  <2>2. QED
    BY <1>24, <2>1 DEF Waits
<1>26. Selector' /\ Chosen'
  BY <1>24, <1>25 DEF Selector, Chosen
<1>27. IsSpectral => vtk'.frequency \in Frequencies(window.file)
  BY <1>1 DEF VInv, FrequencyIsServed
<1>28. QED
  BY <1>19, <1>20, <1>21, <1>23, <1>26, <1>27, KeepsStep

\* A file has a first record: any answer of the reader is one.
LEMMA FirstRecord ==
  ASSUME AnswersAreRecords, NEW f \in Files
  PROVE  0 \in Records(f)
<1>1. PICK h : h = Content[f].header
  OBVIOUS
<1>2. h \in [Grid!AngleFields -> Int] /\ Grid!AcceptedHeader(h)
  <2>1. h \in {Content[x].header : x \in Files}
    BY <1>1
  <2>2. QED
    BY <2>1, ContentAssumption DEF Grid!GridAssumption
<1>3. h.alphaPoints \in Int /\ h.betaPoints \in Int
  BY <1>2 DEF Grid!AngleFields
<1>4. \A k \in Int : Grid!RingSize(h, k) \in Int
  BY <1>3 DEF Grid!RingSize
<1>5. PICK p, n, k \in Int : p = h.alphaPoints /\ n = k - 1 /\ k = h.betaPoints - 1
  BY <1>3
<1>6. n * p \in Int
  BY ProductType
<1>7. Grid!RingFirst(h, k) \in Int
  BY <1>4, <1>5, <1>6 DEF Grid!RingFirst
<1>8. PICK count \in Int : count = Grid!NumRecords(h)
  BY <1>4, <1>5, <1>7 DEF Grid!NumRecords
<1>9. NearestNeighbour(f, 0, 0) \in 0 .. count - 1
  BY <1>1, <1>8 DEF AnswersAreRecords, Records
<1>10. 0 \in 0 .. count - 1
  BY <1>9
<1>11. QED
  BY <1>1, <1>8, <1>10 DEF Records

\* A new file: the plots begin with its first record and frequency.
LEMMA OpenFileStep ==
  ASSUME VInv, NeverCut', AnswersAreRecords, OpenDAFFFile
  PROVE  VInv'
<1>1. UNCHANGED <<spin, combo>> /\ todo # <<>> /\ Head(todo)[1] = "OpenDAFFFile"
  BY DEF OpenDAFFFile, Runs, widgets
<1>2. PICK f \in Files \cup {NoFile} : f = Arg
  BY <1>1, HeadIs DEF TypedCall, Arg
<1>3. Begins(Head(todo))
  BY <1>1 DEF Begins
<1>4. window' = [window EXCEPT !.file = f]
  BY <1>2 DEF OpenDAFFFile
<1>5. DOMAIN window' = Members /\ window'.file = f
      /\ \A m \in Members \ {"file"} : window'[m] = window[m]
  BY <1>4 DEF VInv, Types, Members
<1>6. PICK a : a = <<"LoadContent">>
  OBVIOUS
<1>7. a[1] = "LoadContent"
  BY <1>6
<1>8. PICK calls : calls = IF f = NoFile THEN <<>> ELSE <<a>>
  OBVIOUS
<1>9. Then(calls)
  BY <1>2, <1>6, <1>8 DEF OpenDAFFFile, Return
<1>10. IsSeq(calls) /\ Ordered(calls) /\ Pending(calls) = IF f = NoFile THEN {} ELSE {a}
  BY <1>8, TupleIsSeq, SingleOrdered, PlainOrdered
<1>11. IsSeq(todo') /\ Pending(todo') = Pending(calls) \cup Pending(Tail(todo))
  BY <1>1, <1>9, <1>10, Pushed DEF VInv
<1>12. Ordered(todo')
  BY <1>1, <1>3, <1>9, <1>10, OrderedStep DEF VInv
<1>13. \A c \in Pending(todo') :
         (f # NoFile /\ c = a) \/ (c[1] = "ChangePhiAndTheta" /\ TypedCall(c))
  BY <1>1, <1>3, <1>10, <1>11, BehindBeginning DEF VInv
<1>14. Types'
  <2>1. \A m \in Members \ {"file"} : window'[m] \in Int
    BY <1>5 DEF VInv, Types
  <2>2. DOMAIN plot' = DOMAIN plot /\ plot'.file = f
    <3>1. CASE f = NoFile /\ IsOpen
      BY <1>2, <3>1 DEF OpenDAFFFile, CloseDAFF, VInv, Types
    <3>2. CASE f = NoFile /\ ~IsOpen
      <4>1. UNCHANGED plot
        BY <1>2, <3>2 DEF OpenDAFFFile, views
      <4>2. QED
        BY <3>2, <4>1 DEF VInv, Types, IsOpen
    <3>3. CASE f # NoFile
      BY <1>2, <3>3 DEF OpenDAFFFile, ReadDAFF, VInv, Types
    <3>4. QED
      BY <3>1, <3>2, <3>3
  <2>3. DOMAIN vtk' = DOMAIN vtk /\ vtk'.file = f
    <3>1. CASE f = NoFile /\ IsOpen
      BY <1>2, <3>1 DEF OpenDAFFFile, CloseDAFF, NoPlot, VInv, Types
    <3>2. CASE f = NoFile /\ ~IsOpen
      <4>1. UNCHANGED vtk
        BY <1>2, <3>2 DEF OpenDAFFFile, views
      <4>2. QED
        BY <3>2, <4>1 DEF VInv, Types, IsOpen
    <3>3. CASE f # NoFile
      BY <1>2, <3>3 DEF OpenDAFFFile, ReadDAFF, NoPlot, VInv, Types
    <3>4. QED
      BY <3>1, <3>2, <3>3
  <2>4. QED
    BY <1>1, <1>5, <2>1, <2>2, <2>3 DEF VInv, Types
<1>15. Calls'
  <2> SUFFICES ASSUME NEW c \in Pending(todo') PROVE TypedCall(c)'
    BY DEF Calls
  <2>1. CASE f # NoFile /\ c = a
    BY <1>5, <1>7, <2>1 DEF TypedCall, SetsRange, IsOpen
  <2>2. CASE c[1] = "ChangePhiAndTheta" /\ TypedCall(c)
    BY <2>2 DEF TypedCall, SetsRange
  <2>3. QED
    BY <1>13, <2>1, <2>2
<1>16. \A c \in Pending(todo') : c[1] \in {"LoadContent", "ChangePhiAndTheta"}
  BY <1>7, <1>13
<1>17. CASE f = NoFile
  <2>1. ~IsOpen' /\ ~IsSpectral'
    BY <1>5, <1>17 DEF IsOpen, IsSpectral
  <2>2. QED
    BY <1>11, <1>12, <1>14, <1>15, <2>1 DEF VInv
<1>18. CASE f # NoFile
  <2>1. plot' = [file |-> f, record |-> 0, frequency |-> 0, channel |-> 0]
        /\ vtk' = [NoPlot EXCEPT !.file = f]
    BY <1>2, <1>18 DEF OpenDAFFFile, ReadDAFF
  <2>2. plot'.record = 0 /\ vtk'.frequency = 0
    BY <2>1 DEF NoPlot, VInv, Types
  <2>3. Records(window.file)' = Records(f) /\ Frequencies(window.file)' = Frequencies(f)
    BY <1>5 DEF Records, Frequencies
  <2>4. 0 \in Records(f)
    BY <1>18, FirstRecord
  <2>5. 0 \in Frequencies(f)
    <3>1. Content[f].frequencies \in Nat \ {0}
      BY <1>18, ContentAssumption
    <3>2. QED
      BY <3>1 DEF Frequencies
  <2>6. RecordIsServed'
    BY <1>16, <2>2, <2>3, <2>4 DEF RecordIsServed, HasRecord, Waits
  <2>7. IsNext("LoadContent")'
    <3>1. calls = <<a>> /\ calls # <<>> /\ Head(calls) = a
      BY <1>8, <1>18
    <3>2. todo' # <<>> /\ Head(todo') = a
      BY <1>1, <1>9, <1>10, <3>1, PushedRunsNext DEF VInv
    <3>3. QED
      BY <1>7, <3>2 DEF IsNext
  <2>8. \A c \in Pending(todo') : HasFrequency(c)' /\ ~UsesBox(c)
    BY <1>16 DEF HasFrequency, UsesBox, SetsRange
  <2>9. Box' /\ Selector' /\ Chosen'
    BY <2>7, <2>8 DEF Box, Selector, Chosen
  <2>10. FrequencyIsServed'
    BY <2>2, <2>3, <2>5, <2>8, <2>9 DEF FrequencyIsServed
  <2>11. QED
    BY <1>11, <1>12, <1>14, <1>15, <2>6, <2>10 DEF VInv
<1>19. QED
  BY <1>17, <1>18

\* When nothing is left to run, window, boxes and plots are those of the file.
LEMMA AtRest ==
  ASSUME VInv, Quiet
  PROVE  /\ Pending(todo) = {} /\ DOMAIN window = Members
         /\ IsOpen => plot.record \in Records(window.file) /\ window.file \in Files
         /\ IsSpectral => /\ window.frequency \in Frequencies(window.file)
                          /\ vtk.frequency \in Frequencies(window.file)
                          /\ BoxIsSet /\ combo.count \in Nat
                          /\ combo.count <= file.frequencies
<1>1. Pending(todo) = {} /\ \A name : ~Waits(name) /\ ~IsNext(name)
  BY TupleIsSeq DEF Quiet, Waits, IsNext
<1>2. DOMAIN window = Members /\ (IsOpen => window.file \in Files)
  BY DEF VInv, Types, IsOpen
<1>3. IsOpen => plot.record \in Records(window.file)
  BY DEF VInv, RecordIsServed
<1>4. ASSUME IsSpectral
      PROVE  /\ window.frequency \in Frequencies(window.file)
             /\ vtk.frequency \in Frequencies(window.file)
             /\ BoxIsSet /\ combo.count \in Nat /\ combo.count <= file.frequencies
  <2>1. vtk.frequency \in Frequencies(window.file) /\ Box /\ Selector /\ Chosen
    BY <1>4 DEF VInv, FrequencyIsServed
  <2>2. BoxIsSet
    BY <1>1, <2>1 DEF Box
  <2>3. Filled(combo.count)
    BY <1>1, <2>1 DEF Selector
  <2>4. window.frequency \in Frequencies(window.file)
    BY <1>1, <2>1 DEF Chosen
  <2>5. QED
    BY <2>1, <2>2, <2>3, <2>4 DEF Filled
<1>5. QED
  BY <1>1, <1>2, <1>3, <1>4

\* A menu or a key stays with the file and makes calls.
LEMMA MenuStep ==
  ASSUME VInv, Quiet, IsSeq(todo'), Ordered(todo'),
         \A c \in Pending(todo') :
           /\ Served(c) /\ (IsSpectral => (UsesBox(c) => BoxIsSet))
           /\ c[1] \notin {"EmitRecord", "clear", "FillSelector", "addItem"},
         UNCHANGED <<spin, combo, plot, vtk>>, Types',
         window'.file = window.file, window'.record = window.record,
         IsSpectral => window'.frequency \in Frequencies(window.file)
  PROVE  VInv'
<1>1. IsOpen' = IsOpen /\ IsSpectral' = IsSpectral /\ file' = file
      /\ LastFrequency' = LastFrequency /\ BoxIsSet' = BoxIsSet
      /\ Records(window.file)' = Records(window.file)
      /\ Frequencies(window.file)' = Frequencies(window.file)
  BY DEF IsOpen, IsSpectral, file, LastFrequency, BoxIsSet, Records, Frequencies
<1>2. Calls'
  BY <1>1 DEF Calls, Served, TypedCall
<1>3. ~Waits("EmitRecord")' /\ ~Waits("clear")' /\ ~Waits("addItem")'
  BY DEF Waits
<1>4. IsOpen => RecordIsServed'
  <2> SUFFICES ASSUME IsOpen PROVE RecordIsServed'
    OBVIOUS
  <2>1. plot'.record \in Records(window.file)
    BY AtRest
  <2>2. \A c \in Pending(todo') : HasRecord(c)'
    BY <1>1 DEF Served, HasRecord
  <2>3. QED
    BY <1>1, <1>3, <2>1, <2>2 DEF RecordIsServed
<1>5. IsSpectral => FrequencyIsServed'
  <2> SUFFICES ASSUME IsSpectral PROVE FrequencyIsServed'
    OBVIOUS
  <2>1. vtk'.frequency \in Frequencies(window.file) /\ BoxIsSet /\ combo.count \in Nat
        /\ combo.count <= file.frequencies
    BY AtRest
  <2>2. \A c \in Pending(todo') : HasFrequency(c)'
    BY <1>1 DEF Served, HasFrequency
  <2>3. Box'
    BY <1>1, <2>1 DEF Box
  <2>4. Filled(combo.count)'
    BY <1>1, <1>3, <2>1 DEF Filled
  <2>5. Selector'
    BY <1>3, <2>4 DEF Selector
  <2>6. Chosen'
    BY <1>1 DEF Chosen
  <2>7. QED
    BY <1>1, <2>1, <2>2, <2>3, <2>5, <2>6 DEF FrequencyIsServed
<1>6. QED
  BY <1>1, <1>2, <1>4, <1>5 DEF VInv

LEMMA FineMenu ==
  ASSUME VInv, Quiet, NEW calls, todo' = calls, IsSeq(calls),
         \A c \in Pending(calls) : IsFine(c) /\ c[1] # "EmitRecord",
         UNCHANGED <<spin, combo, plot, vtk>>, Types',
         window'.file = window.file, window'.record = window.record,
         IsSpectral => window'.frequency \in Frequencies(window.file)
  PROVE  VInv'
<1>1. Ordered(todo')
  BY PlainOrdered DEF IsFine
<1>2. ASSUME NEW c \in Pending(todo')
      PROVE  /\ Served(c) /\ (IsSpectral => (UsesBox(c) => BoxIsSet))
             /\ c[1] \notin {"EmitRecord", "clear", "FillSelector", "addItem"}
  BY FineCalls DEF IsFine
<1>3. QED
  BY <1>1, <1>2, MenuStep

\* A menu that makes one call.
LEMMA OneCallMenu ==
  ASSUME VInv, UNCHANGED window, NEW c, IsFine(c), c[1] # "EmitRecord", Menu(<<c>>)
  PROVE  VInv'
<1>1. Quiet /\ todo' = <<c>> /\ UNCHANGED <<spin, combo, plot, vtk>>
  BY DEF Menu, widgets, views
<1>2. Types'
  BY <1>1 DEF VInv, Types
<1>3. IsSeq(<<c>>) /\ Pending(<<c>>) = {c}
  BY TupleIsSeq
<1>4. IsSpectral => window'.frequency \in Frequencies(window.file)
  BY <1>1, AtRest
<1>5. QED
  BY <1>1, <1>2, <1>3, <1>4, FineMenu

\* The frequency and the channel are moved by one.
LEMMA IndexMenus ==
  ASSUME VInv, \/ IncreaseFrequencyIndex \/ DecreaseFrequencyIndex
               \/ IncreaseChannelIndex \/ DecreaseChannelIndex
  PROVE  VInv'
<1>1. Quiet /\ UNCHANGED <<spin, combo, plot, vtk>> /\ IsOpen
  BY DEF IncreaseFrequencyIndex, DecreaseFrequencyIndex, IncreaseChannelIndex,
         DecreaseChannelIndex, Menu, widgets, views
<1>2. DOMAIN window = Members /\ window.frequency \in Int /\ window.channel \in Int
  BY DEF VInv, Types, Members
<1>3. file.frequencies \in Nat /\ Frequencies(window.file) = 0 .. file.frequencies - 1
  BY <1>1, LastType DEF LastFrequency
<1>4. IsSpectral => BoxIsSet /\ window.frequency \in Frequencies(window.file)
  BY <1>1, AtRest
<1>5. CASE IncreaseFrequencyIndex \/ DecreaseFrequencyIndex
  <2>1. PICK i \in Int : /\ window' = [window EXCEPT !.frequency = i]
                         /\ Menu(EmitFrequency(i))
                         /\ IsSpectral => i \in Frequencies(window.file)
    <3>1. CASE IncreaseFrequencyIndex
      <4>1. PICK i \in Int : i = window.frequency + 1
        BY <1>2
      <4>2. window.frequency < file.frequencies - 1
            /\ window' = [window EXCEPT !.frequency = i] /\ Menu(EmitFrequency(i))
        BY <3>1, <4>1 DEF IncreaseFrequencyIndex
      <4>3. IsSpectral => i \in Frequencies(window.file)
        BY <1>2, <1>3, <1>4, <4>1, <4>2
      <4>4. QED
        BY <4>2, <4>3
    <3>2. CASE DecreaseFrequencyIndex
      <4>1. PICK i \in Int : i = window.frequency - 1
        BY <1>2
      <4>2. window.frequency > 0
            /\ window' = [window EXCEPT !.frequency = i] /\ Menu(EmitFrequency(i))
        BY <3>2, <4>1 DEF DecreaseFrequencyIndex
      <4>3. IsSpectral => i \in Frequencies(window.file)
        BY <1>2, <1>3, <1>4, <4>1, <4>2
      <4>4. QED
        BY <4>2, <4>3
    <3>3. QED
      BY <1>5, <3>1, <3>2
  <2>2. DOMAIN window' = Members /\ window'.frequency = i
        /\ \A m \in Members \ {"frequency"} : window'[m] = window[m]
    BY <1>2, <2>1 DEF Members
  <2>3. Types'
    BY <1>1, <2>2, WindowTypes DEF VInv, Members
  <2>4. window'.file = window.file /\ window'.record = window.record
    BY <2>2 DEF Members
  <2>5. PICK calls : calls = EmitFrequency(i)
    OBVIOUS
  <2>6. IsSeq(calls) /\ \A c \in Pending(calls) : IsFine(c) /\ c[1] # "EmitRecord"
    BY <1>4, <2>1, <2>5, FrequencyCalls
  <2>7. todo' = calls
    BY <2>1, <2>5 DEF Menu
  <2>8. QED
    BY <1>1, <2>1, <2>2, <2>3, <2>4, <2>6, <2>7, FineMenu
<1>6. CASE IncreaseChannelIndex \/ DecreaseChannelIndex
  <2>1. PICK i \in Int : window' = [window EXCEPT !.channel = i] /\ Menu(EmitChannel(i))
    <3>1. CASE IncreaseChannelIndex
      <4>1. PICK i \in Int : i = window.channel + 1
        BY <1>2
      <4>2. window' = [window EXCEPT !.channel = i] /\ Menu(EmitChannel(i))
        BY <3>1, <4>1 DEF IncreaseChannelIndex
      <4>3. QED
        BY <4>2
    <3>2. CASE DecreaseChannelIndex
      <4>1. PICK i \in Int : i = window.channel - 1
        BY <1>2
      <4>2. window' = [window EXCEPT !.channel = i] /\ Menu(EmitChannel(i))
        BY <3>2, <4>1 DEF DecreaseChannelIndex
      <4>3. QED
        BY <4>2
    <3>3. QED
      BY <1>6, <3>1, <3>2
  <2>2. DOMAIN window' = Members /\ window'.channel = i
        /\ \A m \in Members \ {"channel"} : window'[m] = window[m]
    BY <1>2, <2>1 DEF Members
  <2>3. Types'
    BY <1>1, <2>2, WindowTypes DEF VInv, Members
  <2>4. window'.file = window.file /\ window'.record = window.record
        /\ window'.frequency = window.frequency
    BY <2>2 DEF Members
  <2>5. PICK calls : calls = EmitChannel(i)
    OBVIOUS
  <2>6. IsSeq(calls) /\ \A c \in Pending(calls) : IsFine(c) /\ c[1] # "EmitRecord"
    BY <2>5, ChannelCalls
  <2>7. todo' = calls
    BY <2>1, <2>5 DEF Menu
  <2>8. QED
    BY <1>1, <1>4, <2>3, <2>4, <2>6, <2>7, FineMenu
<1>7. QED
  BY <1>5, <1>6

\* The direction is moved by the resolution of the file or by the step of the form.
LEMMA DirectionMenus ==
  ASSUME VInv, \/ IncreaseAlpha \/ IncreaseBeta \/ DecreaseAlpha \/ DecreaseBeta
               \/ StepPhi \/ StepTheta
  PROVE  VInv'
<1>1. window.alpha \in Int /\ window.beta \in Int /\ window.phi \in Int
      /\ window.theta \in Int
  BY DEF VInv, Types, Members
<1>2. ASSUME IsOpen
      PROVE  /\ Grid!Fmod(Grid!AlphaResolution(file.header), Grid!FullTurn) \in Int
             /\ Grid!Fmod(Grid!BetaResolution(file.header), Grid!HalfTurn) \in Int
             /\ \A x \in Int : Down(x) \in Int
  <2>1. window.file \in Files
    BY <1>2 DEF VInv, Types, IsOpen
  <2>2. PICK a, b \in Int : /\ a = Grid!AlphaResolution(file.header)
                            /\ b = Grid!BetaResolution(file.header)
    BY <2>1, ResolutionType
  <2>3. FoldAlpha(a) \in Int /\ FoldBeta(b) \in Int
    BY TurnType
  <2>4. Grid!HalfTurn \in Int
    BY TurnType DEF Grid!HalfTurn
  <2>5. \A x \in Int : Down(x) \in Int
    BY <2>2, <2>4 DEF Down
  <2>6. QED
    BY <2>2, <2>3, <2>5 DEF FoldAlpha, FoldBeta
<1>3. PICK name \in {"ChangeAlpha", "ChangeBeta", "ChangePhi", "ChangeTheta"}, v \in Int :
        Menu(<< <<name, v>> >>) /\ UNCHANGED window
  <2>1. CASE IncreaseAlpha
    <3>1. PICK v \in Int : v = window.alpha
                + Grid!Fmod(Grid!AlphaResolution(file.header), Grid!FullTurn)
      BY <1>1, <1>2, <2>1 DEF IncreaseAlpha
    <3>2. Menu(<< <<"ChangeAlpha", v>> >>) /\ UNCHANGED window
      BY <2>1, <3>1 DEF IncreaseAlpha
    <3>3. QED
      BY <3>2
  <2>2. CASE IncreaseBeta
    <3>1. PICK v \in Int : v = window.beta
                + Grid!Fmod(Grid!BetaResolution(file.header), Grid!HalfTurn)
      BY <1>1, <1>2, <2>2 DEF IncreaseBeta
    <3>2. Menu(<< <<"ChangeBeta", v>> >>) /\ UNCHANGED window
      BY <2>2, <3>1 DEF IncreaseBeta
    <3>3. QED
      BY <3>2
  <2>3. CASE DecreaseAlpha
    <3>1. PICK v \in Int : v = Down(window.alpha)
      BY <1>1, <1>2, <2>3 DEF DecreaseAlpha
    <3>2. Menu(<< <<"ChangeAlpha", v>> >>) /\ UNCHANGED window
      BY <2>3, <3>1 DEF DecreaseAlpha
    <3>3. QED
      BY <3>2
  <2>4. CASE DecreaseBeta
    <3>1. PICK v \in Int : v = Down(window.beta)
      BY <1>1, <1>2, <2>4 DEF DecreaseBeta
    <3>2. Menu(<< <<"ChangeBeta", v>> >>) /\ UNCHANGED window
      BY <2>4, <3>1 DEF DecreaseBeta
    <3>3. QED
      BY <3>2
  <2>5. CASE StepPhi
    <3>1. PICK d \in {Increment, -Increment} :
            Menu(<< <<"ChangePhi", window.phi + d>> >>) /\ UNCHANGED window
      BY <2>5 DEF StepPhi
    <3>2. Increment \in Int
      BY FormAssumption
    <3>3. PICK v \in Int : v = window.phi + d
      BY <1>1, <3>2
    <3>4. QED
      BY <3>1, <3>3
  <2>6. CASE StepTheta
    <3>1. PICK d \in {Increment, -Increment} :
            Menu(<< <<"ChangeTheta", window.theta + d>> >>) /\ UNCHANGED window
      BY <2>6 DEF StepTheta
    <3>2. Increment \in Int
      BY FormAssumption
    <3>3. PICK v \in Int : v = window.theta + d
      BY <1>1, <3>2
    <3>4. QED
      BY <3>1, <3>3
  <2>7. QED
    BY <2>1, <2>2, <2>3, <2>4, <2>5, <2>6
<1>4. PICK c : c = <<name, v>>
  OBVIOUS
<1>5. IsFine(c) /\ c[1] # "EmitRecord"
  BY <1>4, FineTellings
<1>6. QED
  BY <1>3, <1>4, <1>5, OneCallMenu

\* The user types a value or picks an item.
LEMMA WidgetMenus ==
  ASSUME VInv, UserTypes \/ UserPicks
  PROVE  VInv'
<1>1. Quiet /\ UNCHANGED window
  BY DEF UserTypes, UserPicks, Menu
<1>2. CASE UserTypes
  <2>1. PICK name \in Spins : \E v \in Typed[name] : Menu(<< <<"setValue", name, v>> >>)
    BY <1>2 DEF UserTypes
  <2>2. PICK v \in Typed[name] : Menu(<< <<"setValue", name, v>> >>)
    BY <2>1
  <2>3. v \in Int
    BY <2>1, <2>2, FormAssumption
  <2>4. PICK c : c = <<"setValue", name, v>>
    OBVIOUS
  <2>5. c[1] = "setValue" /\ c[2] = name /\ c[3] = v
    BY <2>4
  <2>6. IsSpectral => BoxIsSet
    BY <1>1, AtRest
  <2>7. IsFine(c) /\ c[1] # "EmitRecord"
    BY <2>1, <2>3, <2>5, <2>6 DEF IsFine, Served, TypedCall, IsFirst, Begins, Rank,
                                  SetsRange, HasRecord, HasFrequency, UsesBox
  <2>8. QED
    BY <1>1, <2>2, <2>4, <2>7, OneCallMenu
<1>3. CASE UserPicks
  <2>1. PICK i \in 0 .. combo.count - 1 : Menu(<< <<"setCurrentIndex", i>> >>)
    BY <1>3 DEF UserPicks
  <2>2. i \in Int
    BY <2>1
  <2>3. IsSpectral => BoxIsSet /\ i \in Frequencies(window.file)
    <3> SUFFICES ASSUME IsSpectral PROVE BoxIsSet /\ i \in Frequencies(window.file)
      OBVIOUS
    <3>1. BoxIsSet /\ combo.count \in Nat /\ combo.count <= file.frequencies
      BY <1>1, AtRest
    <3>2. file.frequencies \in Nat /\ Frequencies(window.file) = 0 .. file.frequencies - 1
      BY LastType DEF LastFrequency, IsSpectral
    <3>3. QED
      BY <2>1, <2>2, <3>1, <3>2
  <2>4. PICK c : c = <<"setCurrentIndex", i>>
    OBVIOUS
  <2>5. c[1] = "setCurrentIndex" /\ c[2] = i
    BY <2>4
  <2>6. IsFine(c) /\ c[1] # "EmitRecord"
    BY <2>2, <2>3, <2>5 DEF IsFine, Served, TypedCall, IsFirst, Begins, Rank,
                            SetsRange, HasRecord, HasFrequency, UsesBox
  <2>7. QED
    BY <1>1, <2>1, <2>4, <2>6, OneCallMenu
<1>4. QED
  BY <1>2, <1>3

LEMMA FileMenus ==
  ASSUME VInv, on_actionOpen \/ on_actionClose
  PROVE  VInv'
<1>1. CASE on_actionOpen
  <2>1. PICK f \in Files \cup {NoFile} :
          Menu(<< <<"OpenDAFFFile", f>> >>) /\ UNCHANGED window
    BY <1>1 DEF on_actionOpen
  <2>2. PICK c : c = <<"OpenDAFFFile", f>>
    OBVIOUS
  <2>3. c[1] = "OpenDAFFFile" /\ c[2] = f
    BY <2>2
  <2>4. Quiet /\ todo' = <<c>> /\ UNCHANGED <<spin, combo, plot, vtk>>
    BY <2>1, <2>2 DEF Menu, widgets, views
  <2>5. Types'
    BY <2>1, <2>4 DEF VInv, Types
  <2>6. IsSeq(todo') /\ Pending(todo') = {c} /\ Ordered(todo')
    BY <2>4, TupleIsSeq, SingleOrdered
  <2>7. Served(c) /\ ~UsesBox(c)
        /\ c[1] \notin {"EmitRecord", "clear", "FillSelector", "addItem"}
    BY <2>1, <2>3 DEF Served, TypedCall, HasRecord, HasFrequency, SetsRange, UsesBox
  <2>8. IsSpectral => window'.frequency \in Frequencies(window.file)
    BY <2>1, <2>4, AtRest
  <2>9. QED
    BY <2>1, <2>4, <2>5, <2>6, <2>7, <2>8, MenuStep
<1>2. CASE on_actionClose
  <2>1. Quiet /\ window' = [window EXCEPT !.file = NoFile] /\ CloseDAFF
        /\ UNCHANGED <<spin, combo, todo>>
    BY <1>2 DEF on_actionClose, widgets
  <2>2. DOMAIN window' = Members /\ window'.file = NoFile
        /\ \A m \in Members \ {"file"} : window'[m] = window[m]
    BY <2>1 DEF VInv, Types, Members
  <2>3. DOMAIN plot' = DOMAIN plot /\ plot'.file = NoFile
        /\ DOMAIN vtk' = DOMAIN vtk /\ vtk'.file = NoFile
    BY <2>1 DEF CloseDAFF, NoPlot, VInv, Types
  <2>4. Types'
    BY <2>1, <2>2, <2>3 DEF VInv, Types
  <2>5. ~IsOpen' /\ ~IsSpectral'
    BY <2>2 DEF IsOpen, IsSpectral
  <2>6. IsSeq(todo') /\ Pending(todo') = {} /\ Ordered(todo')
    BY <2>1, TupleIsSeq, PlainOrdered DEF Quiet
  <2>7. Calls'
    BY <2>6 DEF Calls
  <2>8. QED
    BY <2>4, <2>5, <2>6, <2>7 DEF VInv
<1>3. QED
  BY <1>1, <1>2

LEMMA InitVInv == Init => VInv
<1> SUFFICES ASSUME Init PROVE VInv
  OBVIOUS
<1>1. ~IsOpen /\ ~IsSpectral
  BY DEF Init, IsOpen, IsSpectral
<1>2. Types
  <2>1. \E w \in [file : {NoFile}, channel : {0}, frequency : {0},
                 record : UnsetRecords, alpha : {0}, beta : {QuarterTurn},
                 phi : {0}, theta : {0}] : window = w
    BY DEF Init
  <2>2. DOMAIN window = Members /\ window.file = NoFile /\ window.record \in UnsetRecords
        /\ window.channel = 0 /\ window.frequency = 0 /\ window.alpha = 0
        /\ window.beta = QuarterTurn /\ window.phi = 0 /\ window.theta = 0
    BY <2>1 DEF Members
  <2>3. window.record \in Int /\ window.beta \in Int
    BY <2>2, TurnType, UnsetAssumption
  <2>4. \A m \in Members \ {"file"} : window[m] \in Int
    BY <2>2, <2>3 DEF Members
  <2>5. ASSUME NEW name \in Spins
        PROVE  spin[name] \in [value : Int, min : Int, max : Int]
    <3>1. PICK r \in [min : Int, max : Int] : r = WidgetRanges[name]
      BY FormAssumption
    <3>2. PICK v \in Int : v = Bounded(0, r)
      BY <3>1, BoundedType
    <3>3. spin[name] = [value |-> v, min |-> r.min, max |-> r.max]
      BY <3>1, <3>2 DEF Init
    <3>4. QED
      BY <3>1, <3>2, <3>3
  <2>6. spin \in [Spins -> [value : Int, min : Int, max : Int]]
    <3>1. \E f : spin = [name \in Spins |-> f[name]]
      <4>1. spin = [name \in Spins |-> spin[name]]
        BY DEF Init
      <4>2. QED
        BY <4>1
    <3>2. QED
      BY <2>5, <3>1
  <2>7. spin["frequency"].min = 0
    <3>1. "frequency" \in Spins
      BY DEF Spins
    <3>2. QED
      BY <3>1, FormAssumption DEF Init
  <2>8. DOMAIN plot = {"file", "record", "frequency", "channel"} /\ plot.file = NoFile
        /\ DOMAIN vtk = {"file", "channel", "frequency", "angle", "phi", "theta"}
        /\ vtk.file = NoFile
    BY DEF Init
  <2>9. QED
    BY <2>2, <2>4, <2>6, <2>7, <2>8 DEF Types
<1>3. IsSeq(todo) /\ Calls /\ Ordered(todo)
  <2>1. PICK a : a = <<"ChangePhiAndTheta", 0, 0>>
    OBVIOUS
  <2>2. a[1] = "ChangePhiAndTheta" /\ a[2] = 0 /\ a[3] = 0 /\ ShowFront = <<a>>
    BY <2>1 DEF ShowFront
  <2>3. TypedCall(a) /\ ~IsFirst(a) /\ Rank(a) = 0
    BY <2>2 DEF TypedCall, SetsRange, IsFirst, Begins, Rank
  <2>4. IsSeq(<<a>>) /\ Pending(<<a>>) = {a} /\ Ordered(<<a>>)
    BY TupleIsSeq, SingleOrdered
  <2>5. CASE todo = ShowFront
    BY <2>2, <2>3, <2>4, <2>5 DEF Calls
  <2>6. CASE todo # ShowFront
    <3>1. PICK f \in Files : todo = << <<"OpenDAFFFile", f>> >> \o ShowFront
      BY <2>6 DEF Init
    <3>2. PICK b : b = <<"OpenDAFFFile", f>>
      OBVIOUS
    <3>3. b[1] = "OpenDAFFFile" /\ b[2] = f /\ todo = <<b>> \o <<a>>
      BY <2>2, <3>1, <3>2
    <3>4. IsSeq(<<b>>) /\ Pending(<<b>>) = {b} /\ Ordered(<<b>>)
      BY TupleIsSeq, SingleOrdered
    <3>5. TypedCall(b)
      BY <3>1, <3>3 DEF TypedCall, SetsRange
    <3>6. Before(b, a)
      BY <2>2, <2>3, <3>3 DEF Before
    <3>7. QED
      BY <2>3, <2>4, <3>3, <3>4, <3>5, <3>6, ConcatIsSeq, ConcatOrdered DEF Calls
  <2>7. QED
    BY <2>5, <2>6
<1>4. QED
  BY <1>1, <1>2, <1>3 DEF VInv

LEMMA VInvStutters ==
  ASSUME VInv, UNCHANGED vars
  PROVE  VInv'
<1>1. UNCHANGED <<window, spin, combo, plot, vtk, todo>>
  BY DEF vars
<1>2. IsOpen' = IsOpen /\ IsSpectral' = IsSpectral /\ file' = file
      /\ LastFrequency' = LastFrequency /\ BoxIsSet' = BoxIsSet
      /\ Records(window.file)' = Records(window.file)
      /\ Frequencies(window.file)' = Frequencies(window.file)
  BY <1>1 DEF IsOpen, IsSpectral, file, LastFrequency, BoxIsSet, Records, Frequencies
<1>3. Types' /\ Calls' /\ Ordered(todo')
  BY <1>1, <1>2 DEF VInv, Types, Calls, TypedCall
<1>4. RecordIsServed' = RecordIsServed
  BY <1>1, <1>2 DEF RecordIsServed, HasRecord, Corrects, Waits
<1>5. /\ Box' = Box /\ Selector' = Selector /\ Chosen' = Chosen
      /\ \A c : HasFrequency(c)' = HasFrequency(c)
  BY <1>1, <1>2 DEF Box, Selector, Filled, Chosen, HasFrequency, Waits, IsNext
<1>6. FrequencyIsServed' = FrequencyIsServed
  BY <1>1, <1>2, <1>5 DEF FrequencyIsServed
<1>7. QED
  BY <1>1, <1>2, <1>3, <1>4, <1>6 DEF VInv

LEMMA VInvStep ==
  ASSUME VInv, NeverCut', AnswersAreRecords, [Next]_vars
  PROVE  VInv'
<1>1. CASE Call
  BY <1>1, SetValueStep, SetMinimumStep, SetMaximumStep, SetCurrentIndexStep, ClearStep,
     AddItemStep, PlotStep, VtkStep, ChangeFrequencyStep, ChangeChannelStep,
     ChangeRecordStep, FollowsStep, EmitRecordStep, EmitSteps, DataViewStays,
     ObjectViewStays, OpenFileStep, LoadContentStep, FillSelectorStep DEF Call
<1>2. CASE User
  BY <1>2, IndexMenus, DirectionMenus, WidgetMenus, FileMenus DEF User
<1>3. CASE UNCHANGED vars
  BY <1>3, VInvStutters
<1>4. QED
  BY <1>1, <1>2, <1>3 DEF Next

\* ViewsIndexTheirFile for any files, any answers of the reader within the file and
\* any order of signals: at every moment, also in the middle of opening a file with
\* fewer frequencies or records, the 3D view draws a frequency and the 2D plot a
\* record that the open file has.
THEOREM ViewsAreServed ==
  ASSUME AnswersAreRecords
  PROVE  Spec /\ []NeverCut => []ViewsIndexTheirFile
<1>1. Init => VInv
  BY InitVInv
<1>2. VInv /\ NeverCut' /\ [Next]_vars => VInv'
  BY VInvStep
<1>3. VInv => ViewsIndexTheirFile
  <2> SUFFICES ASSUME VInv PROVE ViewsIndexTheirFile
    OBVIOUS
  <2>1. plot.file = window.file /\ vtk.file = window.file
    BY DEF VInv, Types
  <2>2. plot.file # NoFile => plot.record \in Records(plot.file)
    BY <2>1 DEF VInv, RecordIsServed, IsOpen
  <2>3. vtk.file # NoFile /\ IsSpectrum(vtk.file)
        => vtk.frequency \in Frequencies(vtk.file)
    BY <2>1 DEF VInv, FrequencyIsServed, IsSpectral, IsOpen
  <2>4. QED
    BY <2>2, <2>3 DEF ViewsIndexTheirFile
<1>4. QED
  BY <1>1, <1>2, <1>3, PTL DEF Spec

-----------------------------------------------------------------------------
(* What the boxes and the plots show.                                      *)

LEMMA BecomeIs ==
  ASSUME VInv, NeverCut', todo # <<>>, NEW name \in Spins, Head(todo)[2] = name,
         NEW s \in [value : Int, min : Int, max : Int], Become(name, s)
  PROVE  BoxBecomes(name, s)
<1>1. UNCHANGED <<window, combo, plot, vtk>> /\ spin' = [spin EXCEPT ![name] = s]
  BY DEF Become, views
<1>2. spin'[name] = s /\ \A other \in Spins \ {name} : spin'[other] = spin[other]
  BY <1>1 DEF VInv, Types
<1>3. PICK a : a = <<Slot[name], s.value>>
  OBVIOUS
<1>4. PICK calls : calls = IF s.value = spin[name].value THEN <<>> ELSE <<a>>
  OBVIOUS
<1>5. IsSeq(calls) /\ Then(calls)
  BY <1>3, <1>4, TupleIsSeq DEF Become
<1>6. todo' = calls \o Tail(todo)
  BY <1>5, PushedIs DEF VInv
<1>7. QED
  BY <1>1, <1>2, <1>3, <1>4, <1>6 DEF BoxBecomes

LEMMA InRangeIs ==
  ASSUME VInv, NEW name \in Spins, NEW min \in Int, NEW max \in Int, InRange(name, min, max)
  PROVE  \E s \in [value : Int, min : Int, max : Int] :
           /\ Become(name, s) /\ s.min = min /\ s.max = max
           /\ s.value = Bounded(spin[name].value, s)
<1>1. PICK v \in Int : v = spin[name].value
  BY DEF VInv, Types
<1>2. PICK t : t = [value |-> 0, min |-> min, max |-> max]
  OBVIOUS
<1>3. t.min = min /\ t.max = max /\ t \in [value : Int, min : Int, max : Int]
  BY <1>2
<1>4. PICK w \in Int : w = Bounded(v, t)
  BY <1>3, BoundedType
<1>5. PICK s : s = [t EXCEPT !.value = w]
  OBVIOUS
<1>6. s.min = min /\ s.max = max /\ s.value = w /\ s \in [value : Int, min : Int, max : Int]
  BY <1>2, <1>5
<1>7. Become(name, s)
  BY <1>1, <1>2, <1>4, <1>5 DEF InRange
<1>8. Bounded(v, s) = Bounded(v, t)
  BY <1>3, <1>6 DEF Bounded
<1>9. QED
  BY <1>1, <1>4, <1>6, <1>7, <1>8

LEMMA BoxIsCalled ==
  ASSUME VInv, NeverCut', SetValue \/ SetMinimum \/ SetMaximum
  PROVE  \E name \in Spins, s \in [value : Int, min : Int, max : Int] :
           BoxBecomes(name, s) /\ BoxCall(name, s)
<1>1. todo # <<>> /\ Head(todo)[1] \in {"setValue", "setMinimum", "setMaximum"}
      /\ Arg = Head(todo)[2]
  BY DEF SetValue, SetMinimum, SetMaximum, Runs, Arg
<1>2. PICK name \in Spins, m \in Int : name = Arg /\ m = Head(todo)[3]
  BY <1>1, HeadIs DEF TypedCall
<1>3. PICK t \in [value : Int, min : Int, max : Int] : t = spin[name]
  BY DEF VInv, Types
<1>4. PICK s \in [value : Int, min : Int, max : Int] : Become(name, s) /\ BoxCall(name, s)
  <2>1. CASE SetValue
    <3>1. PICK w \in Int : w = Bounded(m, t)
      BY BoundedType
    <3>2. PICK s : s = [t EXCEPT !.value = w]
      OBVIOUS
    <3>3. Become(name, s)
      BY <1>2, <1>3, <2>1, <3>1, <3>2 DEF SetValue
    <3>4. s \in [value : Int, min : Int, max : Int] /\ s.min = t.min /\ s.max = t.max
          /\ s.value = w
      BY <3>1, <3>2
    <3>5. Head(todo)[1] = "setValue"
      BY <2>1 DEF SetValue, Runs
    <3>6. QED
      BY <1>2, <1>3, <3>1, <3>3, <3>4, <3>5 DEF BoxCall
  <2>2. CASE SetMinimum
    <3>1. PICK max \in Int : max = Larger(m, t.max)
      BY DEF Larger
    <3>2. InRange(name, m, max) /\ Head(todo)[1] = "setMinimum"
      BY <1>2, <1>3, <2>2, <3>1 DEF SetMinimum, Runs
    <3>3. QED
      BY <1>2, <1>3, <3>1, <3>2, InRangeIs DEF BoxCall
  <2>3. CASE SetMaximum
    <3>1. PICK min \in Int : min = Smaller(m, t.min)
      BY DEF Smaller
    <3>2. InRange(name, min, m) /\ Head(todo)[1] = "setMaximum"
      BY <1>2, <1>3, <2>3, <3>1 DEF SetMaximum, Runs
    <3>3. QED
      BY <1>2, <1>3, <3>1, <3>2, InRangeIs DEF BoxCall
  <2>4. QED
    BY <2>1, <2>2, <2>3
<1>5. QED
  BY <1>1, <1>2, <1>4, BecomeIs

LEMMA DataViewIs ==
  ASSUME VInv, NeverCut', ChangeAlpha \/ ChangeBeta \/ ChangeAlphaAndBeta
  PROVE  \E calls : Leaves(calls) /\ DataViewCall(calls)
<1>1. UNCHANGED <<spin, combo, plot, vtk>> /\ todo # <<>>
  BY DEF ChangeAlpha, ChangeBeta, ChangeAlphaAndBeta, DataView, Runs, widgets, views
<1>2. DOMAIN window = Members
  BY DEF VInv, Types
<1>3. PICK a, b : a = <<"EmitAlpha">> /\ b = <<"EmitBeta">>
  OBVIOUS
<1>4. a[1] = "EmitAlpha" /\ b[1] = "EmitBeta"
  BY <1>3
<1>5. PICK alpha, beta, signals :
        /\ DataView(alpha, beta, signals) /\ IsSeq(signals) /\ Pending(signals) \subseteq {a, b}
        /\ \/ Head(todo)[1] = "ChangeAlpha" /\ beta = window.beta /\ a \in Pending(signals)
           \/ Head(todo)[1] = "ChangeBeta" /\ alpha = window.alpha /\ b \in Pending(signals)
           \/ /\ Head(todo)[1] = "ChangeAlphaAndBeta"
              /\ a \in Pending(signals) /\ b \in Pending(signals)
  <2>1. CASE ChangeAlpha
    <3>1. DataView(FoldAlpha(Arg), window.beta, <<a>>) /\ Head(todo)[1] = "ChangeAlpha"
      BY <1>3, <2>1 DEF ChangeAlpha, Runs
    <3>2. QED
      BY <3>1, TupleIsSeq
  <2>2. CASE ChangeBeta
    <3>1. DataView(window.alpha, FoldBeta(Arg), <<b>>) /\ Head(todo)[1] = "ChangeBeta"
      BY <1>3, <2>2 DEF ChangeBeta, Runs
    <3>2. QED
      BY <3>1, TupleIsSeq
  <2>3. CASE ChangeAlphaAndBeta
    <3>1. DataView(FoldAlpha(Arg), FoldBeta(Head(todo)[3]), <<a, b>>)
          /\ Head(todo)[1] = "ChangeAlphaAndBeta"
      BY <1>3, <2>3 DEF ChangeAlphaAndBeta, Runs
    <3>2. QED
      BY <3>1, TupleIsSeq
  <2>4. QED
    BY <2>1, <2>2, <2>3
<1>6. PICK ask : ask = <<"ChangeRecordIndex", NearestInData(alpha, beta)>>
  OBVIOUS
<1>7. PICK first : first = IF IsOpen THEN <<ask>> ELSE <<>>
  OBVIOUS
<1>8. IsSeq(first) /\ Pending(first) \subseteq {ask}
  BY <1>7, TupleIsSeq
<1>9. PICK calls : calls = first \o signals
  OBVIOUS
<1>10. IsSeq(calls) /\ Pending(calls) = Pending(first) \cup Pending(signals)
  BY <1>5, <1>8, <1>9, ConcatIsSeq
<1>11. Then(calls) /\ window' = [window EXCEPT !.alpha = alpha, !.beta = beta]
  BY <1>5, <1>6, <1>7, <1>9 DEF DataView
<1>12. todo' = calls \o Tail(todo)
  BY <1>1, <1>10, <1>11, PushedIs DEF VInv
<1>13. /\ DOMAIN window' = Members /\ window'.alpha = alpha /\ window'.beta = beta
       /\ \A m \in Members \ {"alpha", "beta"} : window'[m] = window[m]
  BY <1>2, <1>11 DEF Members
<1>14. Named(calls, {"ChangeRecordIndex", "EmitAlpha", "EmitBeta"})
  <2>1. ask[1] = "ChangeRecordIndex"
    BY <1>6
  <2>2. QED
    BY <1>4, <1>5, <1>8, <1>10, <2>1 DEF Named
<1>15. Leaves(calls)
  BY <1>1, <1>10, <1>12 DEF Leaves
<1>16. DataViewCall(calls)
  BY <1>1, <1>3, <1>5, <1>10, <1>13, <1>14 DEF DataViewCall, Angles
<1>17. QED
  BY <1>15, <1>16

LEMMA RecordIs ==
  ASSUME VInv, NeverCut', ChangeRecordIndex
  PROVE  \E calls : Leaves(calls) /\ RecordCall(calls)
<1>1. UNCHANGED <<spin, combo, plot, vtk>> /\ todo # <<>>
      /\ Head(todo)[1] = "ChangeRecordIndex"
  BY DEF ChangeRecordIndex, Runs, widgets, views
<1>2. DOMAIN window = Members
  BY DEF VInv, Types
<1>3. ASSUME NEW calls, IsSeq(calls), Then(calls) PROVE Leaves(calls)
  BY <1>1, <1>3, PushedIs DEF VInv, Leaves
<1>4. CASE Arg = window.record
  <2>1. Then(<<>>) /\ UNCHANGED window
    BY <1>4 DEF ChangeRecordIndex, Return
  <2>2. Leaves(<<>>)
    BY <1>3, <2>1, TupleIsSeq
  <2>3. RecordCall(<<>>)
    BY <1>1, <1>2, <1>4, <2>1 DEF RecordCall, Arg
  <2>4. QED
    BY <2>2, <2>3
<1>5. CASE Arg # window.record
  <2>1. window' = [window EXCEPT !.record = Arg]
    BY <1>5 DEF ChangeRecordIndex
  <2>2. DOMAIN window' = Members /\ window'.record = Arg
        /\ \A m \in Members \ {"record"} : window'[m] = window[m]
    BY <1>2, <2>1 DEF Members
  <2>3. PICK b, e : b = <<"FollowInObjectView">> /\ e = <<"EmitRecord">>
    OBVIOUS
  <2>4. CASE IsOpen
    <3>1. PICK c \in DataCoords(Arg) :
            Then(<< <<"ChangeAlphaAndBeta", c.alpha, c.beta>>, b, e >>)
      BY <1>5, <2>3, <2>4 DEF ChangeRecordIndex
    <3>2. PICK a : a = <<"ChangeAlphaAndBeta", c.alpha, c.beta>>
      OBVIOUS
    <3>3. a[1] = "ChangeAlphaAndBeta" /\ Then(<<a, b, e>>)
      BY <3>1, <3>2
    <3>4. Leaves(<<a, b, e>>)
      BY <1>3, <3>3, TupleIsSeq
    <3>5. RecordCall(<<a, b, e>>)
      BY <1>1, <1>5, <2>2, <2>3, <2>4, <3>3 DEF RecordCall, Arg
    <3>6. QED
      BY <3>4, <3>5
  <2>5. CASE ~IsOpen
    <3>1. Then(<<e>>)
      BY <1>5, <2>3, <2>5 DEF ChangeRecordIndex
    <3>2. Leaves(<<e>>)
      BY <1>3, <3>1, TupleIsSeq
    <3>3. RecordCall(<<e>>)
      BY <1>1, <1>5, <2>2, <2>3, <2>5 DEF RecordCall, Arg
    <3>4. QED
      BY <3>2, <3>3
  <2>6. QED
    BY <2>4, <2>5
<1>6. QED
  BY <1>4, <1>5

LEMMA FollowIs ==
  ASSUME VInv, NeverCut', FollowInObjectView
  PROVE  \E calls : Leaves(calls) /\ FollowCall(calls)
<1>1. UNCHANGED <<window, spin, combo, plot, vtk>> /\ todo # <<>>
      /\ Head(todo)[1] = "FollowInObjectView"
  BY DEF FollowInObjectView, Runs, widgets, views
<1>2. IsOpen
  BY <1>1, HeadIs DEF TypedCall
<1>3. ASSUME NEW calls, IsSeq(calls), Then(calls) PROVE Leaves(calls)
  BY <1>1, <1>3, PushedIs DEF VInv, Leaves
<1>4. CASE window.record = Nearest
  <2>1. Then(<<>>)
    BY <1>4 DEF FollowInObjectView, Nearest, Return
  <2>2. Leaves(<<>>) /\ FollowCall(<<>>)
    BY <1>1, <1>2, <1>3, <1>4, <2>1, TupleIsSeq DEF FollowCall
  <2>3. QED
    BY <2>2
<1>5. CASE window.record # Nearest
  <2>1. PICK d \in ObjectCoords(window.record) :
          Then(<< <<"ChangePhiAndTheta", d.phi, d.theta>> >>)
    BY <1>5 DEF FollowInObjectView, Nearest
  <2>2. PICK a : a = <<"ChangePhiAndTheta", d.phi, d.theta>>
    OBVIOUS
  <2>3. Leaves(<<a>>)
    BY <1>3, <2>1, <2>2, TupleIsSeq
  <2>4. FollowCall(<<a>>)
    BY <1>1, <1>2, <2>2 DEF FollowCall
  <2>5. QED
    BY <2>3, <2>4
<1>6. QED
  BY <1>4, <1>5

LEMMA TellIs ==
  ASSUME VInv, NeverCut', EmitRecord \/ EmitAlpha \/ EmitBeta \/ EmitPhi \/ EmitTheta
  PROVE  \E name \in Selections : \E calls : Leaves(calls) /\ TellCall(name, calls)
<1>1. UNCHANGED <<window, spin, combo, plot, vtk>> /\ todo # <<>>
  BY DEF EmitRecord, EmitAlpha, EmitBeta, EmitPhi, EmitTheta, Runs, widgets, views
<1>2. PICK name, box, other :
        /\ name \in Selections /\ Head(todo)[1] = Teller[name]
        /\ box = <<"setValue", name, window[name]>>
        /\ \/ name = "alpha" /\ Then(<<box>>)
           \/ name # "alpha" /\ Then(<<box, other>>)
        /\ \/ name = "record" /\ other = <<"plot", "record", window.record>>
           \/ name = "beta" /\ other = <<"vtk", "angle", window.beta>>
           \/ name \in {"phi", "theta"} /\ other = <<"vtk", name, window[name]>>
           \/ name = "alpha"
  <2>1. CASE EmitRecord
    BY <2>1 DEF EmitRecord, Runs, Teller, Selections
  <2>2. CASE EmitAlpha
    BY <2>2 DEF EmitAlpha, Runs, Teller, Selections
  <2>3. CASE EmitBeta
    BY <2>3 DEF EmitBeta, Runs, Teller, Selections
  <2>4. CASE EmitPhi
    BY <2>4 DEF EmitPhi, Runs, Teller, Selections
  <2>5. CASE EmitTheta
    BY <2>5 DEF EmitTheta, Runs, Teller, Selections
  <2>6. QED
    BY <2>1, <2>2, <2>3, <2>4, <2>5
<1>3. PICK calls : /\ \/ name = "alpha" /\ calls = <<box>>
                      \/ name # "alpha" /\ calls = <<box, other>>
                   /\ Then(calls)
  BY <1>2
<1>4. IsSeq(calls)
  BY <1>3, TupleIsSeq
<1>5. Leaves(calls)
  BY <1>1, <1>3, <1>4, PushedIs DEF VInv, Leaves
<1>6. TellCall(name, calls)
  BY <1>1, <1>2, <1>3 DEF TellCall
<1>7. name \in Selections
  BY <1>2
<1>8. QED
  BY <1>5, <1>6, <1>7, Zenon

LEMMA ObjectViewIs ==
  ASSUME VInv, NeverCut', ChangePhi \/ ChangeTheta \/ ChangePhiAndTheta
  PROVE  \E calls : Leaves(calls) /\ ObjectViewCall(calls)
<1>1. UNCHANGED <<spin, combo, plot, vtk>> /\ todo # <<>>
  BY DEF ChangePhi, ChangeTheta, ChangePhiAndTheta, ObjectView, Runs, widgets, views
<1>2. DOMAIN window = Members
  BY DEF VInv, Types
<1>3. ASSUME NEW phi, NEW theta, NEW first, NEW last, IsSeq(first), IsSeq(last),
             ObjectView(phi, theta, first, last)
      PROVE  /\ DOMAIN window' = Members /\ window'.phi = phi /\ window'.theta = theta
             /\ \A m \in Members \ {"phi", "theta"} : window'[m] = window[m]
             /\ \E calls : Leaves(calls) /\ Asks(calls, first, last)
  <2>1. window' = [window EXCEPT !.phi = phi, !.theta = theta]
    BY <1>3 DEF ObjectView
  <2>2. DOMAIN window' = Members /\ window'.phi = phi /\ window'.theta = theta
        /\ \A m \in Members \ {"phi", "theta"} : window'[m] = window[m]
    BY <1>2, <2>1 DEF Members
  <2>3. window'.file = window.file
    BY <2>2 DEF Members
  <2>4. Nearest' = NearestInObject(phi, theta)
    BY <2>2, <2>3 DEF Nearest, NearestInObject, NearestInData
  <2>5. PICK ask, tell : /\ ask = <<"ChangeRecordIndex", NearestInObject(phi, theta)>>
                         /\ tell = <<"SetIndicator", OutOfBoundsInObject(phi, theta)>>
    OBVIOUS
  <2>6. PICK middle : middle = IF IsOpen THEN <<ask, tell>> ELSE <<>>
    OBVIOUS
  <2>7. PICK calls : calls = (first \o middle) \o last
    OBVIOUS
  <2>8. Then(calls)
    BY <1>3, <2>5, <2>6, <2>7 DEF ObjectView
  <2>9. IsSeq(middle)
    BY <2>6, TupleIsSeq
  <2>10. IsSeq(first \o middle)
    BY <1>3, <2>9, ConcatIsSeq
  <2>11. IsSeq(calls)
    BY <1>3, <2>7, <2>10, ConcatIsSeq
  <2>12. Leaves(calls)
    BY <1>1, <2>8, <2>11, PushedIs DEF VInv, Leaves
  <2>13. tell[1] = "SetIndicator"
    BY <2>5
  <2>14. Asks(calls, first, last)
    BY <2>4, <2>5, <2>6, <2>7, <2>13 DEF Asks
  <2>15. QED
    BY <2>2, <2>12, <2>14
<1>4. CASE ChangePhi
  <2>1. PICK v : v = Head(todo)[2] /\ Head(todo)[1] = "ChangePhi"
    BY <1>4 DEF ChangePhi, Runs
  <2>2. PICK a, b : a = <<"setValue", "phi", v>> /\ b = <<"vtk", "phi", v>>
    OBVIOUS
  <2>3. ObjectView(v, window.theta, <<a, b>>, <<>>)
    BY <1>4, <2>1, <2>2 DEF ChangePhi, Arg
  <2>4. IsSeq(<<a, b>>) /\ IsSeq(<<>>)
    BY TupleIsSeq
  <2>5. /\ DOMAIN window' = Members /\ window'.phi = v /\ window'.theta = window.theta
        /\ \A m \in Members \ {"phi", "theta"} : window'[m] = window[m]
    BY <1>3, <2>3, <2>4
  <2>6. PICK calls : Leaves(calls) /\ Asks(calls, <<a, b>>, <<>>)
    BY <1>3, <2>3, <2>4
  <2>7. ObjectViewCall(calls)
    BY <1>1, <2>1, <2>2, <2>5, <2>6 DEF ObjectViewCall
  <2>8. QED
    BY <2>6, <2>7
<1>5. CASE ChangeTheta
  <2>1. PICK v : v = Head(todo)[2] /\ Head(todo)[1] = "ChangeTheta"
    BY <1>5 DEF ChangeTheta, Runs
  <2>2. PICK a : a = <<"EmitTheta">>
    OBVIOUS
  <2>3. ObjectView(window.phi, v, <<>>, <<a>>)
    BY <1>5, <2>1, <2>2 DEF ChangeTheta, Arg
  <2>4. IsSeq(<<a>>) /\ IsSeq(<<>>)
    BY TupleIsSeq
  <2>5. /\ DOMAIN window' = Members /\ window'.phi = window.phi /\ window'.theta = v
        /\ \A m \in Members \ {"phi", "theta"} : window'[m] = window[m]
    BY <1>3, <2>3, <2>4
  <2>6. PICK calls : Leaves(calls) /\ Asks(calls, <<>>, <<a>>)
    BY <1>3, <2>3, <2>4
  <2>7. ObjectViewCall(calls)
    BY <1>1, <2>1, <2>2, <2>5, <2>6 DEF ObjectViewCall
  <2>8. QED
    BY <2>6, <2>7
<1>6. CASE ChangePhiAndTheta
  <2>1. PICK v, w : v = Head(todo)[2] /\ w = Head(todo)[3]
    OBVIOUS
  <2>2. Head(todo)[1] = "ChangePhiAndTheta"
    BY <1>6 DEF ChangePhiAndTheta, Runs
  <2>3. PICK a, b : a = <<"EmitPhi">> /\ b = <<"EmitTheta">>
    OBVIOUS
  <2>4. ObjectView(v, w, <<>>, <<a, b>>)
    BY <1>6, <2>1, <2>3 DEF ChangePhiAndTheta, Arg
  <2>5. IsSeq(<<a, b>>) /\ IsSeq(<<>>)
    BY TupleIsSeq
  <2>6. /\ DOMAIN window' = Members /\ window'.phi = v /\ window'.theta = w
        /\ \A m \in Members \ {"phi", "theta"} : window'[m] = window[m]
    BY <1>3, <2>4, <2>5
  <2>7. PICK calls : Leaves(calls) /\ Asks(calls, <<>>, <<a, b>>)
    BY <1>3, <2>4, <2>5
  <2>8. ObjectViewCall(calls)
    BY <1>1, <2>1, <2>2, <2>3, <2>6, <2>7 DEF ObjectViewCall
  <2>9. QED
    BY <2>7, <2>8
<1>7. QED
  BY <1>4, <1>5, <1>6

LEMMA NothingIsLeft ==
  ASSUME VInv, NeverCut', SetIndicator \/ PlotSlot \/ VtkSlot
  PROVE  Leaves(<<>>) /\ (IndicatorCall \/ PlotCall \/ VtkCall)
<1>1. todo # <<>> /\ Then(<<>>)
  BY DEF SetIndicator, PlotSlot, VtkSlot, Runs, Return
<1>2. Leaves(<<>>)
  BY <1>1, TupleIsSeq, PushedIs DEF VInv, Leaves
<1>3. CASE SetIndicator
  BY <1>2, <1>3 DEF SetIndicator, IndicatorCall, Runs, views
<1>4. CASE PlotSlot
  <2>1. UNCHANGED <<window, spin, combo, vtk>> /\ Head(todo)[1] = "plot"
    BY <1>4 DEF PlotSlot, Runs, widgets
  <2>2. PICK f, v : f = Head(todo)[2] /\ v = Head(todo)[3]
    OBVIOUS
  <2>3. plot' = [plot EXCEPT ![f] = v]
    BY <1>4, <2>2 DEF PlotSlot, Arg
  <2>4. \A field \in DOMAIN plot : plot'[field] = IF field = f THEN v ELSE plot[field]
    BY <2>3
  <2>5. QED
    BY <1>2, <2>1, <2>2, <2>4 DEF PlotCall
<1>5. CASE VtkSlot
  <2>1. UNCHANGED <<window, spin, combo, plot>> /\ Head(todo)[1] = "vtk"
    BY <1>5 DEF VtkSlot, Runs, widgets
  <2>2. PICK f, v : f = Head(todo)[2] /\ v = Head(todo)[3]
    OBVIOUS
  <2>3. vtk' = IF Kept(f) THEN [vtk EXCEPT ![f] = v] ELSE vtk
    BY <1>5, <2>2 DEF VtkSlot, Arg
  <2>4. \A field \in DOMAIN vtk :
          vtk'[field] = IF field = f /\ Kept(field) THEN v ELSE vtk[field]
    BY <2>3
  <2>5. QED
    BY <1>2, <2>1, <2>2, <2>4 DEF VtkCall
<1>6. QED
  BY <1>3, <1>4, <1>5

LEMMA ChannelTellings ==
  ASSUME NEW i
  PROVE  /\ IsSeq(EmitChannel(i))
         /\ \A c \in Pending(EmitChannel(i)) :
              c[1] \in {"setValue", "vtk", "plot"} /\ c[2] = "channel"
<1>1. PICK a, b, c : /\ a = <<"vtk", "channel", i>> /\ b = <<"setValue", "channel", i>>
                     /\ c = <<"plot", "channel", i>>
  OBVIOUS
<1>2. /\ a[1] = "vtk" /\ b[1] = "setValue" /\ c[1] = "plot"
      /\ a[2] = "channel" /\ b[2] = "channel" /\ c[2] = "channel"
  BY <1>1
<1>3. PICK calls : calls = <<a, b, c>>
  OBVIOUS
<1>4. calls = EmitChannel(i)
  BY <1>1, <1>3 DEF EmitChannel
<1>5. IsSeq(calls) /\ Pending(calls) = {a, b, c}
  BY <1>3, TupleIsSeq
<1>6. QED
  BY <1>2, <1>4, <1>5

LEMMA ChannelIs ==
  ASSUME VInv, NeverCut', ChangeChannelIndex
  PROVE  \E calls : Leaves(calls) /\ ChannelCall(calls)
<1>1. UNCHANGED <<spin, combo, plot, vtk>> /\ todo # <<>>
      /\ Head(todo)[1] = "ChangeChannelIndex"
  BY DEF ChangeChannelIndex, Runs, widgets, views
<1>2. DOMAIN window = Members
  BY DEF VInv, Types
<1>3. PICK calls : /\ IsSeq(calls) /\ Then(calls)
                   /\ \A c \in Pending(calls) :
                        c[1] \in {"setValue", "vtk", "plot"} /\ c[2] = "channel"
                   /\ \/ window' = window
                      \/ \E i : window' = [window EXCEPT !.channel = i]
  <2>1. CASE IsOpen /\ Arg \in Channels(window.file)
    <3>1. window' = [window EXCEPT !.channel = Arg] /\ Then(EmitChannel(Arg))
      BY <2>1 DEF ChangeChannelIndex
    <3>2. QED
      BY <3>1, ChannelTellings
  <2>2. CASE ~(IsOpen /\ Arg \in Channels(window.file))
    BY <2>2, TupleIsSeq DEF ChangeChannelIndex, Return
  <2>3. QED
    BY <2>1, <2>2
<1>4. DOMAIN window' = Members /\ \A m \in Members \ {"channel"} : window'[m] = window[m]
  BY <1>2, <1>3 DEF Members
<1>5. Leaves(calls)
  BY <1>1, <1>3, PushedIs DEF VInv, Leaves
<1>6. ChannelCall(calls)
  BY <1>1, <1>3, <1>4 DEF ChannelCall
<1>7. QED
  BY <1>5, <1>6

LEMMA FrequencyIs ==
  ASSUME VInv, NeverCut', ChangeFrequencyIndex
  PROVE  \E calls : Leaves(calls) /\ FrequencyCall(calls)
<1>1. UNCHANGED <<spin, combo, plot, vtk>> /\ todo # <<>>
      /\ Head(todo)[1] = "ChangeFrequencyIndex"
  BY DEF ChangeFrequencyIndex, Runs, widgets, views
<1>2. DOMAIN window = Members
  BY DEF VInv, Types
<1>3. CASE IsOpen /\ Arg # -1
  <2>1. PICK i : i = Head(todo)[2] /\ i # -1
    BY <1>3 DEF Arg
  <2>2. window' = [window EXCEPT !.frequency = i] /\ Then(EmitFrequency(i))
    BY <1>3, <2>1 DEF ChangeFrequencyIndex, Arg
  <2>3. DOMAIN window' = Members /\ window'.frequency = i
        /\ \A m \in Members \ {"frequency"} : window'[m] = window[m]
    BY <1>2, <2>2 DEF Members
  <2>4. PICK calls : calls = EmitFrequency(i)
    OBVIOUS
  <2>5. IsSeq(calls)
    BY <2>4, LongTupleIsSeq DEF EmitFrequency
  <2>6. Leaves(calls)
    BY <1>1, <2>2, <2>4, <2>5, PushedIs DEF VInv, Leaves
  <2>7. FrequencyCall(calls)
    BY <1>1, <1>3, <2>1, <2>3, <2>4 DEF FrequencyCall
  <2>8. QED
    BY <2>6, <2>7
<1>4. CASE ~(IsOpen /\ Arg # -1)
  <2>1. UNCHANGED window /\ Then(<<>>)
    BY <1>4 DEF ChangeFrequencyIndex, Return
  <2>2. Leaves(<<>>)
    BY <1>1, <2>1, TupleIsSeq, PushedIs DEF VInv, Leaves
  <2>3. FrequencyCall(<<>>)
    BY <1>1, <1>2, <1>4, <2>1 DEF FrequencyCall, Arg
  <2>4. QED
    BY <2>2, <2>3
<1>5. QED
  BY <1>3, <1>4

LEMMA ComboIs ==
  ASSUME VInv, NeverCut', SetCurrentIndex \/ Clear \/ AddItem
  PROVE  \E calls : Leaves(calls) /\ ComboCall(calls)
<1>1. todo # <<>>
  BY DEF SetCurrentIndex, Clear, AddItem, Runs
<1>2. PICK n, i :
        /\ ComboBecomes(n, i)
        /\ \/ /\ Head(todo)[1] = "setCurrentIndex" /\ n = combo.count
              /\ i = IF Head(todo)[2] \in 0 .. n - 1 THEN Head(todo)[2] ELSE -1
           \/ Head(todo)[1] = "clear" /\ n = 0 /\ i = -1
           \/ /\ Head(todo)[1] = "addItem" /\ n = combo.count + 1
              /\ i = IF combo.count = 0 THEN 0 ELSE combo.index
  <2>1. CASE SetCurrentIndex
    BY <2>1 DEF SetCurrentIndex, Runs, Arg
  <2>2. CASE Clear
    BY <2>2 DEF Clear, Runs
  <2>3. CASE AddItem
    BY <2>3 DEF AddItem, Runs
  <2>4. QED
    BY <2>1, <2>2, <2>3
<1>3. UNCHANGED <<window, spin, plot, vtk>> /\ combo'.count = n /\ combo'.index = i
  BY <1>2 DEF ComboBecomes, views
<1>4. PICK a : a = <<"ChangeFrequencyIndex", i>>
  OBVIOUS
<1>5. PICK calls : calls = IF i = combo.index THEN <<>> ELSE <<a>>
  OBVIOUS
<1>6. IsSeq(calls) /\ Then(calls)
  BY <1>2, <1>4, <1>5, TupleIsSeq DEF ComboBecomes
<1>7. Leaves(calls)
  BY <1>1, <1>6, PushedIs DEF VInv, Leaves
<1>8. ComboCall(calls)
  BY <1>2, <1>3, <1>4, <1>5 DEF ComboCall
<1>9. QED
  BY <1>7, <1>8

LEMMA OpenIs ==
  ASSUME VInv, NeverCut', OpenDAFFFile
  PROVE  \E calls : Leaves(calls) /\ OpenCall(calls)
<1>1. UNCHANGED <<spin, combo>> /\ todo # <<>> /\ Head(todo)[1] = "OpenDAFFFile"
  BY DEF OpenDAFFFile, Runs, widgets
<1>2. PICK f \in Files \cup {NoFile} : f = Arg
  BY <1>1, HeadIs DEF TypedCall, Arg
<1>3. window' = [window EXCEPT !.file = f]
  BY <1>2 DEF OpenDAFFFile
<1>4. DOMAIN window' = Members /\ window'.file = f
      /\ \A m \in Members \ {"file"} : window'[m] = window[m]
  BY <1>3 DEF VInv, Types, Members
<1>5. PICK calls : calls = IF f = NoFile THEN <<>> ELSE << <<"LoadContent">> >>
  OBVIOUS
<1>6. IsSeq(calls) /\ Then(calls)
  BY <1>2, <1>5, TupleIsSeq DEF OpenDAFFFile, Return
<1>7. vtk'.theta = vtk.theta
  <2>1. "theta" \in DOMAIN vtk
    BY DEF VInv, Types
  <2>2. NoPlot.theta = vtk.theta /\ \A g : [NoPlot EXCEPT !.file = g].theta = vtk.theta
    BY <2>1 DEF NoPlot
  <2>3. QED
    BY <2>2 DEF OpenDAFFFile, ReadDAFF, CloseDAFF, views
<1>8. Leaves(calls)
  BY <1>1, <1>6, PushedIs DEF VInv, Leaves
<1>9. OpenCall(calls)
  BY <1>1, <1>4, <1>5, <1>7 DEF OpenCall
<1>10. QED
  BY <1>8, <1>9

LEMMA LoadIs ==
  ASSUME VInv, NeverCut', LoadContent
  PROVE  \E calls : Leaves(calls) /\ LoadCall(calls)
<1>1. UNCHANGED <<window, spin, combo, plot, vtk>> /\ todo # <<>>
      /\ Head(todo)[1] = "LoadContent"
  BY DEF LoadContent, Runs, widgets, views
<1>2. IsOpen /\ window.file \in Files
  BY <1>1, HeadIs DEF TypedCall
<1>3. PICK a, b, c, d, e, f :
        /\ a = <<"setMaximum", "channel", file.channels - 1>>
        /\ b = <<"setValue", "channel", 0>>
        /\ c = <<"setMinimum", "alpha", file.header.alphaStart>>
        /\ d = <<"setMaximum", "alpha", file.header.alphaEnd>>
        /\ e = <<"setMinimum", "beta", file.header.betaStart>>
        /\ f = <<"setMaximum", "beta", file.header.betaEnd>>
  OBVIOUS
<1>4. PICK boxes : boxes = <<a, b, c, d, e, f>>
  OBVIOUS
<1>5. IsSeq(boxes) /\ Pending(boxes) = {a, b, c, d, e, f}
  BY <1>4, LongTupleIsSeq
<1>6. PICK p, q, r, s, front :
        /\ p = <<"setMaximum", "frequency", file.frequencies - 1>>
        /\ q = <<"clear">> /\ r = <<"FillSelector", 0>> /\ s = <<"setCurrentIndex", 0>>
        /\ front = <<"ChangePhiAndTheta", 0, 0>>
  OBVIOUS
<1>7. PICK axis : axis = IF IsSpectrum(window.file) THEN <<p, q, r>> ELSE <<q, r, s>>
  OBVIOUS
<1>8. IsSeq(axis) /\ Pending(axis) \subseteq {p, q, r, s} /\ q \in Pending(axis)
      /\ r \in Pending(axis)
  BY <1>7, TupleIsSeq
<1>9. PICK both : both = boxes \o axis
  OBVIOUS
<1>10. IsSeq(both) /\ Pending(both) = Pending(boxes) \cup Pending(axis)
  BY <1>5, <1>8, <1>9, ConcatIsSeq
<1>11. PICK calls : calls = both \o <<front>>
  OBVIOUS
<1>12. IsSeq(<<front>>) /\ Pending(<<front>>) = {front}
  BY TupleIsSeq
<1>13. IsSeq(calls) /\ Pending(calls) = Pending(both) \cup {front}
  BY <1>10, <1>11, <1>12, ConcatIsSeq
<1>14. Then(calls)
  BY <1>3, <1>4, <1>6, <1>7, <1>9, <1>11 DEF LoadContent
<1>15. Leaves(calls)
  BY <1>1, <1>13, <1>14, PushedIs DEF VInv, Leaves
<1>16. \A x \in Pending(boxes) : GivesRange(x)
  <2>1. PICK h : h = Content[window.file].header
    OBVIOUS
  <2>2. \A v : /\ InEveryRange("alpha", v) => h.alphaStart <= v /\ v <= h.alphaEnd
               /\ InEveryRange("beta", v) => h.betaStart <= v /\ v <= h.betaEnd
    BY <1>2, <2>1 DEF InEveryRange
  <2>3. GivesRange(a) /\ GivesRange(b)
    BY <1>3 DEF GivesRange, Bounds, Selections, Angles
  <2>4. c[1] = "setMinimum" /\ c[2] = "alpha" /\ c[3] = h.alphaStart
        /\ d[1] = "setMaximum" /\ d[2] = "alpha" /\ d[3] = h.alphaEnd
        /\ e[1] = "setMinimum" /\ e[2] = "beta" /\ e[3] = h.betaStart
        /\ f[1] = "setMaximum" /\ f[2] = "beta" /\ f[3] = h.betaEnd
    BY <1>3, <2>1 DEF file
  <2>5. GivesRange(c)
    BY <2>2, <2>4 DEF GivesRange, Bounds, Selections, Angles
  <2>6. GivesRange(d)
    BY <2>2, <2>4 DEF GivesRange, Bounds, Selections, Angles
  <2>7. GivesRange(e)
    BY <2>2, <2>4 DEF GivesRange, Bounds, Selections, Angles
  <2>8. GivesRange(f)
    BY <2>2, <2>4 DEF GivesRange, Bounds, Selections, Angles
  <2>9. QED
    BY <1>5, <2>3, <2>5, <2>6, <2>7, <2>8
<1>17. /\ p[1] = "setMaximum" /\ p[2] = "frequency" /\ q[1] = "clear"
       /\ r[1] = "FillSelector" /\ r[2] = 0 /\ s[1] = "setCurrentIndex" /\ s[2] = 0
       /\ front[1] = "ChangePhiAndTheta" /\ front[3] = 0
  BY <1>6
<1>18. LoadCall(calls)
  <2>1. SetsRange(p)
    BY <1>17 DEF SetsRange
  <2>2. \A x \in Pending(calls) :
          \/ GivesRange(x) \/ SetsRange(x) \/ x[1] = "clear"
          \/ x[1] \in {"FillSelector", "setCurrentIndex"} /\ x[2] = 0
          \/ x[1] = "ChangePhiAndTheta" /\ x[3] = 0
    BY <1>8, <1>10, <1>13, <1>16, <1>17, <2>1
  <2>3. q \in Pending(calls) /\ r \in Pending(calls) /\ front \in Pending(calls)
    BY <1>8, <1>10, <1>13
  <2>4. QED
    BY <1>1, <1>2, <1>17, <2>2, <2>3 DEF LoadCall
<1>19. QED
  BY <1>15, <1>18

LEMMA FillIs ==
  ASSUME VInv, NeverCut', FillSelector
  PROVE  \E calls : Leaves(calls) /\ FillCall(calls)
<1>1. UNCHANGED <<window, spin, combo, plot, vtk>> /\ todo # <<>>
      /\ Head(todo)[1] = "FillSelector"
  BY DEF FillSelector, Runs, widgets, views
<1>2. PICK k \in Nat : k = Arg /\ k = Head(todo)[2]
  BY <1>1, HeadIs DEF TypedCall, Arg
<1>3. CASE k \notin Frequencies(window.file)
  <2>1. Then(<<>>)
    BY <1>2, <1>3 DEF FillSelector
  <2>2. Leaves(<<>>)
    BY <1>1, <2>1, TupleIsSeq, PushedIs DEF VInv, Leaves
  <2>3. FillCall(<<>>)
    BY <1>1, <1>2, <1>3 DEF FillCall
  <2>4. QED
    BY <2>2, <2>3
<1>4. CASE k \in Frequencies(window.file)
  <2>1. PICK a, b, c : a = <<"addItem">> /\ b = <<"setCurrentIndex", k>>
                       /\ c = <<"FillSelector", k + 1>>
    OBVIOUS
  <2>2. a[1] = "addItem" /\ b[1] = "setCurrentIndex" /\ b[2] = k
        /\ c[1] = "FillSelector" /\ c[2] = k + 1
    BY <2>1
  <2>3. PICK some : some = IF k \in file.kHz THEN <<b>> ELSE <<>>
    OBVIOUS
  <2>4. PICK front : front = <<a>> \o some
    OBVIOUS
  <2>5. PICK calls : calls = front \o <<c>>
    OBVIOUS
  <2>6. Then(calls)
    BY <1>2, <1>4, <2>1, <2>3, <2>4, <2>5 DEF FillSelector
  <2>7. IsSeq(some) /\ Pending(some) \subseteq {b}
    BY <2>3, TupleIsSeq
  <2>8. IsSeq(front) /\ Pending(front) = {a} \cup Pending(some)
    BY <2>4, <2>7, TupleIsSeq, ConcatIsSeq
  <2>9. IsSeq(calls) /\ Pending(calls) = {a, c} \cup Pending(some)
    <3>1. IsSeq(<<c>>) /\ Pending(<<c>>) = {c}
      BY TupleIsSeq
    <3>2. QED
      BY <2>5, <2>8, <3>1, ConcatIsSeq
  <2>10. Leaves(calls)
    BY <1>1, <2>6, <2>9, PushedIs DEF VInv, Leaves
  <2>11. FillCall(calls)
    <3>1. a \in Pending(calls) /\ c \in Pending(calls)
      BY <2>9
    <3>2. \A x \in Pending(calls) :
             \/ x[1] = "addItem"
             \/ x[1] = "setCurrentIndex" /\ x[2] = Head(todo)[2]
             \/ x[1] = "FillSelector" /\ x[2] = Head(todo)[2] + 1
      BY <1>2, <2>2, <2>7, <2>9
    <3>3. QED
      BY <1>1, <1>2, <1>4, <2>2, <3>1, <3>2 DEF FillCall
  <2>12. QED
    BY <2>10, <2>11
<1>5. QED
  BY <1>3, <1>4

LEMMA IndexStepIs ==
  ASSUME VInv, \/ IncreaseFrequencyIndex \/ DecreaseFrequencyIndex
               \/ IncreaseChannelIndex \/ DecreaseChannelIndex
  PROVE  \E v \in Int : FrequencyStep(v) \/ ChannelStep(v)
<1>1. Quiet /\ UNCHANGED <<spin, combo, plot, vtk>> /\ IsOpen
  BY DEF IncreaseFrequencyIndex, DecreaseFrequencyIndex, IncreaseChannelIndex,
         DecreaseChannelIndex, Menu, widgets, views
<1>2. DOMAIN window = Members /\ window.frequency \in Int /\ window.channel \in Int
  BY DEF VInv, Types, Members
<1>3. PICK n \in Int, m \in Int : n = window.frequency /\ m = window.channel
  BY <1>2
<1>4. CASE IncreaseFrequencyIndex \/ DecreaseFrequencyIndex
  <2>1. PICK v \in Int :
          /\ window' = [window EXCEPT !.frequency = v] /\ Menu(EmitFrequency(v))
          /\ v >= 0
          /\ v = n - 1 \/ (v = n + 1 /\ IsSpectral /\ v <= LastFrequency)
    <3>1. CASE IncreaseFrequencyIndex
      <4>1. window' = [window EXCEPT !.frequency = n + 1] /\ Menu(EmitFrequency(n + 1))
            /\ IsSpectral /\ n < LastFrequency
        BY <1>2, <1>3, <3>1 DEF IncreaseFrequencyIndex, IsSpectral, LastFrequency
      <4>2. n \in Frequencies(window.file)
        BY <1>1, <1>3, <4>1, AtRest
      <4>3. LastFrequency \in Nat /\ n >= 0
        BY <1>1, <4>1, <4>2, LastType DEF IsSpectral, LastFrequency, Frequencies
      <4>4. n + 1 \in Int /\ n + 1 >= 0 /\ n + 1 <= LastFrequency
        BY <4>1, <4>3
      <4>5. QED
        BY <4>1, <4>4
    <3>2. CASE DecreaseFrequencyIndex
      <4>1. window' = [window EXCEPT !.frequency = n - 1] /\ Menu(EmitFrequency(n - 1))
            /\ n > 0
        BY <1>2, <1>3, <3>2 DEF DecreaseFrequencyIndex
      <4>2. n - 1 \in Int /\ n - 1 >= 0
        BY <4>1
      <4>3. QED
        BY <4>1, <4>2
    <3>3. QED
      BY <1>4, <3>1, <3>2
  <2>2. DOMAIN window' = Members /\ window'.frequency = v
        /\ \A o \in Members \ {"frequency"} : window'[o] = window[o]
    BY <1>2, <2>1 DEF Members
  <2>3. todo' = EmitFrequency(v)
    BY <2>1 DEF Menu
  <2>4. FrequencyStep(v)
    BY <1>1, <1>3, <2>1, <2>2, <2>3 DEF FrequencyStep, Quietly
  <2>5. QED
    BY <2>4
<1>5. CASE IncreaseChannelIndex \/ DecreaseChannelIndex
  <2>1. PICK v \in Int : window' = [window EXCEPT !.channel = v] /\ Menu(EmitChannel(v))
    <3>1. CASE IncreaseChannelIndex
      <4>1. m + 1 \in Int
        OBVIOUS
      <4>2. QED
        BY <1>2, <1>3, <3>1, <4>1 DEF IncreaseChannelIndex
    <3>2. CASE DecreaseChannelIndex
      <4>1. m - 1 \in Int
        OBVIOUS
      <4>2. QED
        BY <1>2, <1>3, <3>2, <4>1 DEF DecreaseChannelIndex
    <3>3. QED
      BY <1>5, <3>1, <3>2
  <2>2. DOMAIN window' = Members /\ \A o \in Members \ {"channel"} : window'[o] = window[o]
    BY <1>2, <2>1 DEF Members
  <2>3. todo' = EmitChannel(v)
    BY <2>1 DEF Menu
  <2>4. ChannelStep(v)
    BY <1>1, <2>2, <2>3 DEF ChannelStep, Quietly
  <2>5. QED
    BY <2>4
<1>6. QED
  BY <1>4, <1>5

LEMMA OneCallIs ==
  ASSUME VInv, \/ IncreaseAlpha \/ IncreaseBeta \/ DecreaseAlpha \/ DecreaseBeta
               \/ StepPhi \/ StepTheta \/ UserTypes \/ UserPicks \/ on_actionOpen
  PROVE  \E c : OneCall(c)
<1>1. DOMAIN window = Members
  BY DEF VInv, Types
<1>2. ASSUME NEW c, Menu(<<c>>), UNCHANGED window, Asked(c) PROVE OneCall(c)
  BY <1>1, <1>2 DEF OneCall, Quietly, Menu, widgets, views
<1>3. CASE IncreaseAlpha \/ IncreaseBeta \/ DecreaseAlpha \/ DecreaseBeta \/ StepPhi
  <2>0. PICK name \in {"ChangeAlpha", "ChangeBeta", "ChangePhi"} :
          \E v : Menu(<< <<name, v>> >>) /\ UNCHANGED window
    BY <1>3 DEF IncreaseAlpha, IncreaseBeta, DecreaseAlpha, DecreaseBeta, StepPhi
  <2>1. PICK v : Menu(<< <<name, v>> >>) /\ UNCHANGED window
    BY <2>0
  <2>2. PICK c : c = <<name, v>>
    OBVIOUS
  <2>3. Asked(c)
    BY <2>2 DEF Asked
  <2>4. QED
    BY <1>2, <2>1, <2>2, <2>3
<1>4. CASE StepTheta
  <2>1. PICK d : WithinBox("theta", window.theta + d)
                 /\ Menu(<< <<"ChangeTheta", window.theta + d>> >>) /\ UNCHANGED window
    BY <1>4 DEF StepTheta
  <2>2. PICK v : v = window.theta + d
    OBVIOUS
  <2>3. PICK c : c = <<"ChangeTheta", v>>
    OBVIOUS
  <2>4. Asked(c)
    BY <2>1, <2>2, <2>3 DEF Asked
  <2>5. QED
    BY <1>2, <2>1, <2>2, <2>3, <2>4
<1>5. CASE UserTypes
  <2>1. PICK name, v : Menu(<< <<"setValue", name, v>> >>) /\ UNCHANGED window
    BY <1>5 DEF UserTypes
  <2>2. PICK c : c = <<"setValue", name, v>>
    OBVIOUS
  <2>3. Asked(c)
    BY <2>2 DEF Asked
  <2>4. QED
    BY <1>2, <2>1, <2>2, <2>3
<1>6. CASE UserPicks
  <2>1. PICK i \in 0 .. combo.count - 1 :
          Menu(<< <<"setCurrentIndex", i>> >>) /\ UNCHANGED window
    BY <1>6 DEF UserPicks
  <2>2. PICK c : c = <<"setCurrentIndex", i>>
    OBVIOUS
  <2>3. Asked(c)
    BY <2>1, <2>2 DEF Asked
  <2>4. QED
    BY <1>2, <2>1, <2>2, <2>3
<1>7. CASE on_actionOpen
  <2>1. PICK f : Menu(<< <<"OpenDAFFFile", f>> >>) /\ UNCHANGED window
    BY <1>7 DEF on_actionOpen
  <2>2. PICK c : c = <<"OpenDAFFFile", f>>
    OBVIOUS
  <2>3. Asked(c)
    BY <2>2 DEF Asked
  <2>4. QED
    BY <1>2, <2>1, <2>2, <2>3
<1>8. QED
  BY <1>3, <1>4, <1>5, <1>6, <1>7

LEMMA CloseIs == ASSUME VInv, on_actionClose PROVE CloseStep
<1>1. Quiet /\ window' = [window EXCEPT !.file = NoFile] /\ CloseDAFF
      /\ UNCHANGED <<spin, combo, todo>>
  BY DEF on_actionClose, widgets
<1>2. DOMAIN window' = Members /\ window'.file = NoFile
      /\ \A m \in Members \ {"file"} : window'[m] = window[m]
  BY <1>1 DEF VInv, Types, Members
<1>3. vtk'.theta = vtk.theta
  BY <1>1 DEF CloseDAFF, NoPlot, VInv, Types
<1>4. QED
  BY <1>1, <1>2, <1>3 DEF CloseStep

LEMMA BoxMoveIs ==
  ASSUME VInv, NeverCut', SetValue \/ SetMinimum \/ SetMaximum
  PROVE  \E calls : Leaves(calls) /\ IsBoxCall(calls)
<1>1. PICK name \in Spins, s \in [value : Int, min : Int, max : Int] :
        BoxBecomes(name, s) /\ BoxCall(name, s)
  BY BoxIsCalled
<1>2. PICK c : c = <<Slot[name], s.value>>
  OBVIOUS
<1>3. PICK calls : calls = IF s.value = spin[name].value THEN <<>> ELSE <<c>>
  OBVIOUS
<1>4. Leaves(calls)
  BY <1>1, <1>2, <1>3, TupleIsSeq DEF BoxBecomes, Leaves
<1>5. c[1] = Slot[name] /\ c[2] = s.value
  BY <1>2
<1>6. BoxMoves(name, s, calls)
  BY <1>1, <1>3, <1>5 DEF BoxBecomes, BoxMoves
<1>7. QED
  BY <1>4, <1>6 DEF IsBoxCall

LEMMA CallIs ==
  ASSUME VInv, NeverCut', Call
  PROVE  \E calls : Leaves(calls) /\ CallForm(calls)
<1>1. CASE SetValue \/ SetMinimum \/ SetMaximum
  BY <1>1, BoxMoveIs DEF CallForm
<1>2. CASE SetCurrentIndex \/ Clear \/ AddItem
  BY <1>2, ComboIs DEF CallForm
<1>3. CASE SetIndicator \/ PlotSlot \/ VtkSlot
  BY <1>3, NothingIsLeft DEF CallForm
<1>4. CASE ChangeFrequencyIndex
  BY <1>4, FrequencyIs DEF CallForm
<1>5. CASE ChangeChannelIndex
  BY <1>5, ChannelIs DEF CallForm
<1>6. CASE ChangeRecordIndex
  BY <1>6, RecordIs DEF CallForm
<1>7. CASE FollowInObjectView
  BY <1>7, FollowIs DEF CallForm
<1>8. CASE EmitRecord \/ EmitAlpha \/ EmitBeta \/ EmitPhi \/ EmitTheta
  BY <1>8, TellIs DEF CallForm
<1>9. CASE ChangeAlpha \/ ChangeBeta \/ ChangeAlphaAndBeta
  BY <1>9, DataViewIs DEF CallForm
<1>10. CASE ChangePhi \/ ChangeTheta \/ ChangePhiAndTheta
  BY <1>10, ObjectViewIs DEF CallForm
<1>11. CASE OpenDAFFFile
  BY <1>11, OpenIs DEF CallForm
<1>12. CASE LoadContent
  BY <1>12, LoadIs DEF CallForm
<1>13. CASE FillSelector
  BY <1>13, FillIs DEF CallForm
<1>14. QED
  BY <1>1, <1>2, <1>3, <1>4, <1>5, <1>6, <1>7, <1>8, <1>9, <1>10, <1>11, <1>12, <1>13
  DEF Call

LEMMA UserIs ==
  ASSUME VInv, User
  PROVE  CloseStep \/ (\E c : OneCall(c)) \/ \E v \in Int : FrequencyStep(v) \/ ChannelStep(v)
BY CloseIs, OneCallIs, IndexStepIs DEF User

-----------------------------------------------------------------------------
(* The boxes.                                                              *)

\* What the calls leave behind waits, and so does what waited behind the first.
LEMMA LeftPending ==
  ASSUME IsSeq(todo), NEW calls, Leaves(calls)
  PROVE  /\ IsSeq(todo') /\ Pending(todo') = Pending(calls) \cup Pending(Tail(todo))
         /\ Pending(todo) = {Head(todo)} \cup Pending(Tail(todo))
         /\ \A c \in Pending(todo) : c = Head(todo) \/ c \in Pending(todo')
<1>1. IsSeq(Tail(todo)) /\ Pending(todo) = {Head(todo)} \cup Pending(Tail(todo))
  BY TailIsSeq DEF Leaves
<1>2. IsSeq(todo') /\ Pending(todo') = Pending(calls) \cup Pending(Tail(todo))
  BY <1>1, ConcatIsSeq DEF Leaves
<1>3. QED
  BY <1>1, <1>2

LEMMA LeftNext ==
  ASSUME IsSeq(todo), NEW calls, Leaves(calls), calls # <<>>
  PROVE  todo' # <<>> /\ Head(todo') = Head(calls)
<1>1. IsSeq(Tail(todo)) /\ IsSeq(calls)
  BY TailIsSeq DEF Leaves
<1>2. PICK S, T : calls \in Seq(S) /\ Tail(todo) \in Seq(T)
  BY <1>1 DEF IsSeq
<1>3. PICK U : U = S \cup T
  OBVIOUS
<1>4. calls \in Seq(U) /\ Tail(todo) \in Seq(U)
  BY <1>2, <1>3
<1>5. Len(calls) \in Nat \ {0} /\ Len(Tail(todo)) \in Nat
  BY <1>4
<1>6. calls \o Tail(todo) \in Seq(U) /\ Len(calls \o Tail(todo)) >= 1
      /\ (calls \o Tail(todo))[1] = calls[1]
  BY <1>4, <1>5
<1>7. QED
  BY <1>4, <1>6 DEF Leaves

LEMMA RangesStay ==
  ASSUME IsSeq(todo), Ranges, spin' = spin, NEW calls, Leaves(calls),
         \A c \in Pending(calls) : Bounds(c)
  PROVE  Ranges'
<1>1. \A c \in Pending(todo') : Bounds(c)
  BY LeftPending DEF Ranges
<1>2. QED
  BY <1>1 DEF Ranges, InBounds

\* A call that is neither about the box nor from it.
LEMMA BoxIsLeft ==
  ASSUME IsSeq(todo), NEW name \in Selections, BoxIsTold(name), NEW calls, Leaves(calls),
         window'[name] = window[name], spin'[name] = spin[name],
         Head(todo)[1] \notin {Teller[name], Slot[name]},
         ~(Head(todo)[1] = "setValue" /\ Head(todo)[2] = name)
  PROVE  BoxIsTold(name)'
<1>1. Agrees(name) \/ Waits(Teller[name])
  BY DEF TellsBox, BoxIsTold
<1>2. CASE Agrees(name)
  <2>1. Shows(name, window[name])' = Shows(name, window[name]) /\ Untold(name)' = Untold(name)
    BY DEF Shows, Untold
  <2>2. InEveryRange(name, window[name])' = InEveryRange(name, window[name])
    BY DEF InEveryRange, WithinBox
  <2>3. name = "record" => window'.record = window.record
    OBVIOUS
  <2>4. name = "beta" => window'.beta = window.beta
    OBVIOUS
  <2>5. Agrees(name)'
    BY <1>2, <2>1, <2>2, <2>3, <2>4 DEF Agrees
  <2>6. QED
    BY <2>5 DEF BoxIsTold
<1>3. CASE Waits(Teller[name])
  <2>1. PICK c \in Pending(todo) : c[1] = Teller[name]
    BY <1>3 DEF Waits
  <2>2. c \in Pending(todo')
    BY <2>1, LeftPending
  <2>3. QED
    BY <2>1, <2>2 DEF BoxIsTold, Waits
<1>4. QED
  BY <1>1, <1>2, <1>3

LEMMA BoxWaits ==
  ASSUME IsSeq(todo), NEW name \in Selections, NEW calls, Leaves(calls),
         NEW c \in Pending(calls), c[1] = Teller[name]
  PROVE  BoxIsTold(name)'
<1>1. c \in Pending(todo')
  BY LeftPending
<1>2. QED
  BY <1>1 DEF BoxIsTold, Waits

LEMMA BoxShows ==
  ASSUME NEW name \in Selections, Agrees(name)'
  PROVE  BoxIsTold(name)'
BY DEF BoxIsTold

\* The box itself is called.
LEMMA BoxIsMoved ==
  ASSUME VInv, Ranges, NEW name \in Selections, BoxIsTold(name), NEW calls, Leaves(calls),
         NEW s \in [value : Int, min : Int, max : Int], BoxMoves(name, s, calls)
  PROVE  BoxIsTold(name)'
<1>1. IsSeq(todo) /\ name \in Spins /\ window[name] \in Int
  BY DEF VInv, Types, Selections, Spins, Members
<1>2. PICK old \in [value : Int, min : Int, max : Int] : old = spin[name]
  BY <1>1 DEF VInv, Types
<1>3. spin'[name] = s /\ window' = window /\ Head(todo)[2] = name
  BY DEF BoxMoves
<1>4. CASE s.value # old.value
  <2>1. PICK c : c[1] = Slot[name] /\ c[2] = s.value /\ calls = <<c>>
    BY <1>2, <1>4 DEF BoxMoves
  <2>2. todo' # <<>> /\ Head(todo') = c
    BY <1>1, <2>1, LeftNext
  <2>3. TellsBox(Head(todo), name)'
    BY <1>3, <2>1, <2>2 DEF TellsBox
  <2>4. QED
    BY <2>2, <2>3 DEF BoxIsTold
<1>5. CASE s.value = old.value
  <2>1. Head(todo)[1] \in {"setValue", "setMinimum", "setMaximum"}
    BY DEF BoxMoves, BoxCall
  <2>2. Head(todo)[1] # Slot[name] /\ Head(todo)[1] # Teller[name]
    BY <2>1 DEF Slot, Teller, Selections
  <2>3. CASE Waits(Teller[name])
    <3>1. PICK c \in Pending(todo) : c[1] = Teller[name]
      BY <2>3 DEF Waits
    <3>2. c \in Pending(todo')
      BY <1>1, <2>2, <3>1, LeftPending
    <3>3. QED
      BY <3>1, <3>2 DEF BoxIsTold, Waits
  <2>4. CASE Head(todo)[1] = "setValue" /\ (Agrees(name) \/ TellsBox(Head(todo), name))
    <3>1. s.min = old.min /\ s.max = old.max /\ s.value = Bounded(Head(todo)[3], old)
      BY <1>2, <2>4 DEF BoxMoves, BoxCall
    <3>2. CASE Head(todo)[3] = window[name]
      <4>1. s.value = Bounded(window[name], s)
        BY <3>1, <3>2 DEF Bounded
      <4>2. Shows(name, window[name])'
        BY <1>3, <4>1 DEF Shows
      <4>3. QED
        BY <4>2, BoxShows DEF Agrees
    <3>3. CASE Head(todo)[3] # window[name]
      <4>1. Agrees(name)
        BY <2>2, <2>4, <3>3 DEF TellsBox
      <4>2. \A v : Bounded(v, s) = Bounded(v, old)
        BY <3>1 DEF Bounded
      <4>3. Shows(name, window[name])' = Shows(name, window[name])
        BY <1>2, <1>3, <1>5, <4>2 DEF Shows
      <4>4. Untold(name)' = Untold(name)
        BY <1>2, <1>3, <1>5 DEF Untold
      <4>5. InEveryRange(name, window[name])' = InEveryRange(name, window[name])
        BY <1>3 DEF InEveryRange, WithinBox
      <4>6. Agrees(name)'
        BY <1>3, <4>1, <4>3, <4>4, <4>5 DEF Agrees
      <4>7. QED
        BY <4>6, BoxShows
    <3>4. QED
      BY <3>2, <3>3
  <2>5. CASE Head(todo)[1] \in {"setMinimum", "setMaximum"} /\ Agrees(name)
    <3>1. Head(todo) \in Pending(todo)
      BY <1>1, LeftPending
    <3>2. Bounds(Head(todo)) /\ Head(todo)[3] \in Int
      BY <2>5, <3>1 DEF Ranges, VInv, Calls, TypedCall
    <3>3. name \in Angles
      BY <1>3, <2>5, <3>2 DEF Bounds
    <3>4. PICK v \in Int, h \in Int : v = window[name] /\ h = Head(todo)[3]
      BY <1>1, <3>2
    <3>5. CASE ~InEveryRange(name, v)
      <4>1. ~InEveryRange(name, window[name])'
        BY <1>3, <3>4, <3>5 DEF InEveryRange, WithinBox
      <4>2. QED
        BY <3>3, <4>1, BoxShows DEF Agrees
    <3>6. CASE InEveryRange(name, v)
      <4>1. old.min <= v /\ v <= old.max
        BY <1>2, <3>3, <3>6 DEF Ranges
      <4>2. IF Head(todo)[1] = "setMinimum" THEN h <= v ELSE v <= h
        BY <1>3, <2>5, <3>2, <3>3, <3>4, <3>6 DEF Bounds
      <4>3. s.min <= v /\ v <= s.max
        <5>1. CASE Head(todo)[1] = "setMinimum"
          <6>1. s.min = h /\ s.max = Larger(h, old.max)
            BY <1>2, <3>4, <5>1 DEF BoxMoves, BoxCall
          <6>2. QED
            BY <4>1, <4>2, <5>1, <6>1 DEF Larger
        <5>2. CASE Head(todo)[1] = "setMaximum"
          <6>1. s.max = h /\ s.min = Smaller(h, old.min)
            BY <1>2, <3>4, <5>2 DEF BoxMoves, BoxCall
          <6>2. QED
            BY <4>1, <4>2, <5>2, <6>1 DEF Smaller
        <5>3. QED
          BY <2>5, <5>1, <5>2
      <4>4. Bounded(v, old) = v /\ Bounded(v, s) = v
        BY <4>1, <4>3 DEF Bounded
      <4>5. Shows(name, window[name])' = Shows(name, window[name])
        BY <1>2, <1>3, <1>5, <3>4, <4>4 DEF Shows
      <4>6. Untold(name)' = Untold(name)
        BY <1>2, <1>3, <1>5 DEF Untold
      <4>7. InEveryRange(name, window[name])' = InEveryRange(name, window[name])
        BY <1>3 DEF InEveryRange, WithinBox
      <4>8. Agrees(name)'
        BY <1>3, <2>5, <4>5, <4>6, <4>7 DEF Agrees
      <4>9. QED
        BY <4>8, BoxShows
    <3>7. QED
      BY <3>4, <3>5, <3>6
  <2>6. QED
    BY <2>1, <2>2, <2>3, <2>4, <2>5 DEF BoxIsTold, TellsBox
<1>6. QED
  BY <1>2, <1>4, <1>5

\* A call to a box keeps the ranges.
LEMMA BoxKeepsRanges ==
  ASSUME VInv, Ranges, NEW calls, Leaves(calls), IsBoxCall(calls)
  PROVE  Ranges'
<1>1. PICK name \in Spins, s \in [value : Int, min : Int, max : Int] : BoxMoves(name, s, calls)
  BY DEF IsBoxCall
<1>2. spin'[name] = s /\ Head(todo)[2] = name
      /\ \A other \in Spins \ {name} : spin'[other] = spin[other]
  BY <1>1 DEF BoxMoves
<1>3. PICK old \in [value : Int, min : Int, max : Int] : old = spin[name]
  BY DEF VInv, Types
<1>4. old.min <= old.value /\ old.value <= old.max
  BY <1>3 DEF Ranges, InBounds
<1>5. Head(todo) \in Pending(todo) /\ todo # <<>>
  BY LeftPending DEF VInv, Leaves
<1>6. Bounds(Head(todo)) /\ (Head(todo)[1] \in {"setValue", "setMinimum", "setMaximum"}
                             => Head(todo)[3] \in Int)
  BY <1>5 DEF Ranges, VInv, Calls, TypedCall
<1>7. PICK h \in Int :
        \/ /\ Head(todo)[1] = "setValue" /\ s.min = old.min /\ s.max = old.max
           /\ s.value = Bounded(h, old)
        \/ /\ Head(todo)[1] = "setMinimum" /\ s.min = h /\ s.max = Larger(h, old.max)
           /\ s.value = Bounded(old.value, s) /\ h = Head(todo)[3]
        \/ /\ Head(todo)[1] = "setMaximum" /\ s.min = Smaller(h, old.min) /\ s.max = h
           /\ s.value = Bounded(old.value, s) /\ h = Head(todo)[3]
  <2>1. Head(todo)[1] \in {"setValue", "setMinimum", "setMaximum"}
    BY <1>1 DEF BoxMoves, BoxCall
  <2>2. PICK h \in Int : h = Head(todo)[3]
    BY <1>6, <2>1
  <2>3. QED
    BY <1>1, <1>3, <2>2 DEF BoxMoves, BoxCall
<1>8. s.min <= s.value /\ s.value <= s.max
  BY <1>4, <1>7 DEF Bounded, Larger, Smaller
<1>9. \A other \in Spins : InBounds(other)'
  BY <1>2, <1>8 DEF Ranges, InBounds
<1>10. \A other \in Selections \ Angles :
         spin'[other].min = WidgetRanges[other].min /\ spin'[other].max = WidgetRanges[other].max
  <2> TAKE other \in Selections \ Angles
  <2>1. other \in Spins
    BY DEF Selections, Spins
  <2>2. CASE other # name
    BY <1>2, <2>1, <2>2 DEF Ranges
  <2>3. CASE other = name
    <3>1. Head(todo)[1] = "setValue"
      BY <1>2, <1>6, <1>7, <2>3 DEF Bounds
    <3>2. QED
      BY <1>2, <1>3, <1>7, <2>3, <3>1 DEF Ranges
  <2>4. QED
    BY <2>2, <2>3
<1>11. \A other \in Angles : \A v \in Int : InEveryRange(other, v) =>
         spin'[other].min <= v /\ v <= spin'[other].max
  <2> SUFFICES ASSUME NEW other \in Angles, NEW v \in Int, InEveryRange(other, v)
               PROVE  spin'[other].min <= v /\ v <= spin'[other].max
    OBVIOUS
  <2>1. other \in Spins /\ spin[other].min <= v /\ v <= spin[other].max
    BY DEF Ranges, Angles, Spins
  <2>2. CASE other # name
    BY <1>2, <2>1, <2>2
  <2>3. CASE other = name
    <3>1. old.min <= v /\ v <= old.max
      BY <1>3, <2>1, <2>3
    <3>2. /\ Head(todo)[1] = "setMinimum" => Head(todo)[3] <= v
          /\ Head(todo)[1] = "setMaximum" => v <= Head(todo)[3]
      BY <1>2, <1>6, <2>3 DEF Bounds
    <3>3. s.min <= v /\ v <= s.max
      BY <1>7, <3>1, <3>2 DEF Larger, Smaller
    <3>4. QED
      BY <1>2, <2>3, <3>3
  <2>4. QED
    BY <2>2, <2>3
<1>12. \A c \in Pending(calls) : Bounds(c)
  <2>1. PICK c : c[1] = Slot[name] /\ (calls = <<>> \/ calls = <<c>>)
    BY <1>1 DEF BoxMoves
  <2>2. Slot[name] \notin {"setMinimum", "setMaximum"}
    BY DEF Slot, Spins
  <2>3. Bounds(c)
    BY <2>1, <2>2 DEF Bounds
  <2>4. QED
    BY <2>1, <2>3, TupleIsSeq
<1>13. \A c \in Pending(todo') : Bounds(c)
  BY <1>12, LeftPending DEF VInv, Ranges
<1>14. QED
  BY <1>9, <1>10, <1>11, <1>13 DEF Ranges, InBounds, Bounds, InEveryRange, WithinBox

\* Only the opening of a file makes calls that set a range.
LEMMA FrequencyTellings ==
  ASSUME NEW v
  PROVE  /\ IsSeq(EmitFrequency(v)) /\ Len(EmitFrequency(v)) = 5
         /\ \A c \in Pending(EmitFrequency(v)) :
              c[1] \in {"vtk", "plot", "setValue", "setCurrentIndex"}
<1>1. PICK a, b, c, d, e : /\ a = <<"vtk", "frequency", v>> /\ b = <<"setValue", "frequency", v>>
                           /\ c = <<"setCurrentIndex", v>> /\ d = <<"vtk", "frequency", v>>
                           /\ e = <<"plot", "frequency", v>>
  OBVIOUS
<1>2. a[1] = "vtk" /\ b[1] = "setValue" /\ c[1] = "setCurrentIndex" /\ d[1] = "vtk"
      /\ e[1] = "plot"
  BY <1>1
<1>3. PICK calls : calls = <<a, b, c, d, e>>
  OBVIOUS
<1>4. calls = EmitFrequency(v)
  BY <1>1, <1>3 DEF EmitFrequency
<1>5. IsSeq(calls) /\ Pending(calls) = {a, b, c, d, e}
  BY <1>3, LongTupleIsSeq
<1>6. Len(calls) = 5
  BY <1>3
<1>7. QED
  BY <1>2, <1>4, <1>5, <1>6

LEMMA PlainCalls ==
  ASSUME NEW calls, IsSeq(calls), PlainForm(calls)
  PROVE  spin' = spin /\ combo' = combo /\ \A c \in Pending(calls) : Plain(c)
<1>2. CASE calls = <<>> /\ (IndicatorCall \/ PlotCall \/ VtkCall)
  BY <1>2, TupleIsSeq DEF IndicatorCall, PlotCall, VtkCall
<1>4. CASE ChannelCall(calls)
  BY <1>4 DEF ChannelCall, Plain
<1>5. CASE RecordCall(calls)
  <2>1. PICK b, e : b = <<"FollowInObjectView">> /\ e = <<"EmitRecord">>
    OBVIOUS
  <2>2. b[1] = "FollowInObjectView" /\ e[1] = "EmitRecord"
    BY <2>1
  <2>3. PICK a : a[1] = "ChangeAlphaAndBeta"
                 /\ (calls = <<>> \/ calls = <<a, b, e>> \/ calls = <<e>>)
    <3>1. CASE \E a : a[1] = "ChangeAlphaAndBeta" /\ calls = <<a, b, e>>
      BY <3>1
    <3>2. CASE calls = <<>> \/ calls = <<e>>
      <4>1. PICK a : a = <<"ChangeAlphaAndBeta">>
        OBVIOUS
      <4>2. a[1] = "ChangeAlphaAndBeta"
        BY <4>1
      <4>3. QED
        BY <3>2, <4>2
    <3>3. QED
      BY <1>5, <2>1, <3>1, <3>2 DEF RecordCall
  <2>4. \A c \in Pending(calls) : Plain(c)
    BY <2>2, <2>3, TupleIsSeq DEF Plain
  <2>5. QED
    BY <1>5, <2>4 DEF RecordCall
<1>6. CASE FollowCall(calls)
  <2>1. PICK c : c[1] = "ChangePhiAndTheta" /\ (calls = <<>> \/ calls = <<c>>)
    <3>1. CASE calls = <<>>
      <4>1. PICK c : c = <<"ChangePhiAndTheta">>
        OBVIOUS
      <4>2. c[1] = "ChangePhiAndTheta"
        BY <4>1
      <4>3. QED
        BY <3>1, <4>2
    <3>2. CASE calls # <<>>
      <4>1. PICK d : calls = << <<"ChangePhiAndTheta", d.phi, d.theta>> >>
        BY <1>6, <3>2 DEF FollowCall
      <4>2. PICK c : c = <<"ChangePhiAndTheta", d.phi, d.theta>>
        OBVIOUS
      <4>3. c[1] = "ChangePhiAndTheta"
        BY <4>2
      <4>4. QED
        BY <4>1, <4>2, <4>3
    <3>3. QED
      BY <3>1, <3>2
  <2>2. QED
    BY <1>6, <2>1, TupleIsSeq DEF FollowCall, Plain
<1>7. ASSUME NEW name \in Selections, TellCall(name, calls)
      PROVE  spin' = spin /\ combo' = combo /\ \A c \in Pending(calls) : Plain(c)
  <2>1. PICK box, other :
          /\ box[1] = "setValue" /\ box[2] = name /\ (calls = <<box>> \/ calls = <<box, other>>)
          /\ name # "alpha" => /\ other[1] \in {"plot", "vtk"}
                               /\ other[2] \in {"record", "angle", "phi", "theta"}
          /\ name = "alpha" => calls = <<box>>
    BY <1>7 DEF TellCall, Selections
  <2>2. Plain(box) /\ (name # "alpha" => Plain(other))
    BY <2>1 DEF Plain, Selections
  <2>3. QED
    BY <1>7, <2>1, <2>2, TupleIsSeq DEF TellCall
<1>8. CASE DataViewCall(calls)
  BY <1>8 DEF DataViewCall, Named, Plain
<1>9. CASE ObjectViewCall(calls)
  <2>1. PICK first, last :
          /\ Asks(calls, first, last) /\ IsSeq(first) /\ IsSeq(last)
          /\ \A c \in Pending(first) \cup Pending(last) : Plain(c)
    <3>1. PICK a, b, c, d : /\ a = <<"setValue", "phi", window'.phi>>
                            /\ b = <<"vtk", "phi", window'.phi>>
                            /\ c = <<"EmitPhi">> /\ d = <<"EmitTheta">>
      OBVIOUS
    <3>2. Plain(a) /\ Plain(b) /\ Plain(c) /\ Plain(d)
      BY <3>1 DEF Plain
    <3>3. \/ Asks(calls, <<a, b>>, <<>>) \/ Asks(calls, <<>>, <<d>>)
          \/ Asks(calls, <<>>, <<c, d>>)
      BY <1>9, <3>1 DEF ObjectViewCall
    <3>4. QED
      BY <3>2, <3>3, TupleIsSeq
  <2>2. PICK middle :
          /\ calls = (first \o middle) \o last /\ IsSeq(middle)
          /\ \A c \in Pending(middle) : Plain(c)
    <3>1. PICK middle :
            /\ calls = (first \o middle) \o last
            /\ \/ middle = <<>>
               \/ \E ask, tell : /\ ask = <<"ChangeRecordIndex", Nearest'>>
                                 /\ tell[1] = "SetIndicator" /\ middle = <<ask, tell>>
      BY <2>1 DEF Asks
    <3>2. CASE middle = <<>>
      BY <3>1, <3>2, TupleIsSeq
    <3>3. CASE middle # <<>>
      <4>1. PICK ask, tell : /\ ask = <<"ChangeRecordIndex", Nearest'>>
                             /\ tell[1] = "SetIndicator" /\ middle = <<ask, tell>>
        BY <3>1, <3>3
      <4>2. ask[1] = "ChangeRecordIndex" /\ calls = (first \o middle) \o last
        BY <3>1, <4>1
      <4>3. Plain(ask) /\ Plain(tell)
        BY <4>1, <4>2 DEF Plain
      <4>4. IsSeq(middle) /\ Pending(middle) = {ask, tell}
        BY <4>1, TupleIsSeq
      <4>5. QED
        BY <4>2, <4>3, <4>4
    <3>4. QED
      BY <3>2, <3>3
  <2>3. Pending(calls) = (Pending(first) \cup Pending(middle)) \cup Pending(last)
    <3>1. PICK both : both = first \o middle
      OBVIOUS
    <3>2. IsSeq(both) /\ Pending(both) = Pending(first) \cup Pending(middle)
      BY <2>1, <2>2, <3>1, ConcatIsSeq
    <3>3. QED
      BY <2>1, <2>2, <3>1, <3>2, ConcatIsSeq
  <2>4. QED
    BY <1>9, <2>1, <2>2, <2>3 DEF ObjectViewCall
<1>12. QED
  BY <1>2, <1>4, <1>5, <1>6, <1>7, <1>8, <1>9 DEF PlainForm

\* Only the opening of a file makes calls that set a range.
LEMMA NoRangeIsSet ==
  ASSUME NEW calls, IsSeq(calls), CallForm(calls), ~IsBoxCall(calls), ~LoadCall(calls)
  PROVE  spin' = spin /\ \A c \in Pending(calls) : c[1] \notin {"setMinimum", "setMaximum"}
<1>1. CASE ComboCall(calls)
  <2>1. PICK c : c = <<"ChangeFrequencyIndex", combo'.index>>
    OBVIOUS
  <2>2. calls = <<>> \/ calls = <<c>>
    BY <1>1, <2>1 DEF ComboCall
  <2>3. c[1] = "ChangeFrequencyIndex"
    BY <2>1
  <2>4. QED
    BY <1>1, <2>2, <2>3, TupleIsSeq DEF ComboCall
<1>2. CASE PlainForm(calls)
  BY <1>2, PlainCalls DEF Plain
<1>3. CASE FrequencyCall(calls)
  BY <1>3, TupleIsSeq, FrequencyTellings DEF FrequencyCall
<1>10. CASE OpenCall(calls)
  <2>1. PICK c : c = <<"LoadContent">>
    OBVIOUS
  <2>2. c[1] = "LoadContent" /\ (calls = <<>> \/ calls = <<c>>)
    BY <1>10, <2>1 DEF OpenCall
  <2>3. QED
    BY <1>10, <2>2, TupleIsSeq DEF OpenCall
<1>11. CASE FillCall(calls)
  <2>1. \A c \in Pending(calls) : c[1] \in {"addItem", "setCurrentIndex", "FillSelector"}
    BY <1>11, TupleIsSeq DEF FillCall
  <2>2. QED
    BY <1>11, <2>1 DEF FillCall
<1>12. QED
  BY <1>1, <1>2, <1>3, <1>10, <1>11 DEF CallForm, PlainForm

LEMMA SelectionNames ==
  /\ \A name \in Selections :
       /\ Teller[name] = (CASE name = "record" -> "EmitRecord" [] name = "alpha" -> "EmitAlpha"
                           [] name = "beta" -> "EmitBeta" [] name = "phi" -> "EmitPhi"
                           [] name = "theta" -> "EmitTheta")
       /\ Slot[name] = (CASE name = "record" -> "ChangeRecordIndex" [] name = "alpha" -> "ChangeAlpha"
                         [] name = "beta" -> "ChangeBeta" [] name = "phi" -> "ChangePhi"
                         [] name = "theta" -> "ChangeTheta")
  /\ Selections \subseteq Members /\ Selections \subseteq Spins
BY DEF Selections, Teller, Slot, Spins, Members

\* Calls that are about no selection.
LEMMA OthersAreTold ==
  ASSUME IsSeq(todo), BoxesAreTold, NEW calls, Leaves(calls), spin' = spin,
         \A name \in Selections : window'[name] = window[name],
         \/ Head(todo)[1] \in {"setCurrentIndex", "clear", "addItem", "SetIndicator", "plot", "vtk",
                               "ChangeFrequencyIndex", "ChangeChannelIndex", "FollowInObjectView",
                               "OpenDAFFFile", "LoadContent", "FillSelector"}
  PROVE  BoxesAreTold'
<1> SUFFICES ASSUME NEW name \in Selections PROVE BoxIsTold(name)'
  BY DEF BoxesAreTold
<1>1. Head(todo)[1] \notin {Teller[name], Slot[name]} /\ Head(todo)[1] # "setValue"
  BY DEF Selections, Teller, Slot
<1>2. window'[name] = window[name] /\ spin'[name] = spin[name]
  OBVIOUS
<1>3. QED
  BY <1>1, <1>2, BoxIsLeft DEF BoxesAreTold

LEMMA RecordIsTold ==
  ASSUME VInv, BoxPart, NEW calls, Leaves(calls), RecordCall(calls)
  PROVE  BoxesAreTold'
<1> SUFFICES ASSUME NEW name \in Selections PROVE BoxIsTold(name)'
  BY DEF BoxesAreTold
<1>1. IsSeq(todo) /\ spin' = spin /\ Head(todo)[1] = "ChangeRecordIndex" /\ BoxIsTold(name)
  BY DEF VInv, RecordCall, BoxPart, BoxesAreTold
<1>2. CASE name # "record"
  <2>1. window'[name] = window[name]
    BY <1>2, SelectionNames DEF RecordCall
  <2>2. Head(todo)[1] \notin {Teller[name], Slot[name]}
    BY <1>1, <1>2 DEF Teller, Slot, Selections
  <2>3. QED
    BY <1>1, <2>1, <2>2, BoxIsLeft
<1>3. CASE name = "record" /\ calls # <<>>
  <2>1. PICK a, b, e : /\ e = <<"EmitRecord">>
                       /\ calls = <<a, b, e>> \/ calls = <<e>>
    BY <1>3 DEF RecordCall
  <2>2. e \in Pending(calls) /\ e[1] = "EmitRecord"
    BY <2>1, TupleIsSeq
  <2>3. e[1] = Teller[name]
    BY <1>3, <2>2 DEF Teller
  <2>4. QED
    BY <1>1, <2>2, <2>3, BoxWaits
<1>4. CASE name = "record" /\ calls = <<>>
  <2>1. Head(todo)[2] = window.record /\ window' = window
    <3>1. \A a, b, e : <<a, b, e>> # <<>> /\ <<e>> # <<>>
      OBVIOUS
    <3>2. QED
      BY <1>4, <3>1 DEF RecordCall
  <2>2. CASE Waits("EmitRecord")
    <3>1. PICK c \in Pending(todo) : c[1] = "EmitRecord"
      BY <2>2 DEF Waits
    <3>2. c \in Pending(todo')
      BY <1>1, <3>1, LeftPending
    <3>3. Teller[name] = "EmitRecord"
      BY <1>4 DEF Teller
    <3>4. QED
      BY <3>1, <3>2, <3>3 DEF BoxIsTold, Waits
  <2>3. CASE spin["record"].value = window.record
    <3>1. PICK s \in [value : Int, min : Int, max : Int] : s = spin["record"]
      BY DEF VInv, Types, Spins
    <3>2. s.min <= s.value /\ s.value <= s.max
      BY <3>1 DEF BoxPart, Ranges, InBounds, Spins
    <3>3. Bounded(s.value, s) = s.value
      BY <3>2 DEF Bounded
    <3>4. Shows(name, window[name])'
      BY <1>1, <1>4, <2>1, <2>3, <3>1, <3>3 DEF Shows
    <3>5. QED
      BY <3>4, BoxShows DEF Agrees
  <2>4. CASE Agrees("record")
    <3>1. Shows(name, window[name])' = Shows(name, window[name]) /\ Untold(name)' = Untold(name)
      BY <1>1, <2>1 DEF Shows, Untold
    <3>2. name \notin Angles
      BY <1>4 DEF Angles
    <3>3. Agrees(name)'
      BY <1>4, <2>1, <2>4, <3>1, <3>2 DEF Agrees
    <3>4. QED
      BY <3>3, BoxShows
  <2>5. Teller["record"] = "EmitRecord" /\ Slot["record"] = "ChangeRecordIndex"
    BY DEF Teller, Slot
  <2>6. Agrees("record") \/ Waits("EmitRecord") \/ TellsBox(Head(todo), "record")
    BY <1>1, <1>4, <2>5 DEF BoxIsTold
  <2>7. TellsBox(Head(todo), "record") => spin["record"].value = window.record
    BY <1>1, <2>1, <2>5 DEF TellsBox
  <2>8. QED
    BY <2>2, <2>3, <2>4, <2>6, <2>7
<1>5. QED
  BY <1>2, <1>3, <1>4

LEMMA TellerTells ==
  ASSUME VInv, BoxPart, NEW told \in Selections, NEW calls, Leaves(calls), TellCall(told, calls)
  PROVE  BoxesAreTold'
<1> SUFFICES ASSUME NEW name \in Selections PROVE BoxIsTold(name)'
  BY DEF BoxesAreTold
<1>1. IsSeq(todo) /\ spin' = spin /\ window' = window /\ Head(todo)[1] = Teller[told]
      /\ BoxIsTold(name)
  BY DEF VInv, TellCall, BoxPart, BoxesAreTold
<1>2. CASE name # told
  <2>1. Head(todo)[1] \notin {Teller[name], Slot[name]} /\ Head(todo)[1] # "setValue"
    BY <1>1, <1>2 DEF Teller, Slot, Selections
  <2>2. QED
    BY <1>1, <2>1, BoxIsLeft
<1>3. CASE name = told
  <2>1. PICK box, other : /\ box = <<"setValue", name, window[name]>>
                          /\ calls = <<box>> \/ calls = <<box, other>>
    BY <1>3 DEF TellCall
  <2>2. calls # <<>> /\ Head(calls) = box /\ box[1] = "setValue" /\ box[2] = name
        /\ box[3] = window[name]
    BY <2>1
  <2>3. todo' # <<>> /\ Head(todo') = box
    BY <1>1, <2>2, LeftNext
  <2>4. TellsBox(Head(todo), name)'
    BY <1>1, <2>2, <2>3 DEF TellsBox
  <2>5. QED
    BY <2>3, <2>4 DEF BoxIsTold
<1>4. QED
  BY <1>2, <1>3

LEMMA DataViewIsTold ==
  ASSUME VInv, BoxPart, NEW calls, Leaves(calls), DataViewCall(calls)
  PROVE  BoxesAreTold'
<1> SUFFICES ASSUME NEW name \in Selections PROVE BoxIsTold(name)'
  BY DEF BoxesAreTold
<1>1. IsSeq(todo) /\ spin' = spin /\ BoxIsTold(name)
      /\ Head(todo)[1] \in {"ChangeAlpha", "ChangeBeta", "ChangeAlphaAndBeta"}
  BY DEF VInv, DataViewCall, BoxPart, BoxesAreTold
<1>2. PICK a, b : a = <<"EmitAlpha">> /\ b = <<"EmitBeta">>
  OBVIOUS
<1>3. a[1] = "EmitAlpha" /\ b[1] = "EmitBeta"
  BY <1>2
<1>4. CASE name \notin Angles
  <2>1. window'[name] = window[name]
    BY <1>4, SelectionNames DEF DataViewCall
  <2>2. Head(todo)[1] \notin {Teller[name], Slot[name]}
    BY <1>1, <1>4 DEF Teller, Slot, Selections, Angles
  <2>3. QED
    BY <1>1, <2>1, <2>2, BoxIsLeft
<1>5. CASE name = "alpha" /\ a \in Pending(calls)
  <2>1. a[1] = Teller[name]
    BY <1>3, <1>5 DEF Teller
  <2>2. QED
    BY <1>1, <1>5, <2>1, BoxWaits
<1>6. CASE name = "beta" /\ b \in Pending(calls)
  <2>1. b[1] = Teller[name]
    BY <1>3, <1>6 DEF Teller
  <2>2. QED
    BY <1>1, <1>6, <2>1, BoxWaits
<1>7. CASE name \in Angles /\ ~(name = "alpha" /\ a \in Pending(calls))
           /\ ~(name = "beta" /\ b \in Pending(calls))
  <2>1. \/ name = "alpha" /\ Head(todo)[1] = "ChangeBeta" /\ window'.alpha = window.alpha
        \/ name = "beta" /\ Head(todo)[1] = "ChangeAlpha" /\ window'.beta = window.beta
    BY <1>2, <1>7 DEF DataViewCall, Angles
  <2>2. Head(todo)[1] \notin {Teller[name], Slot[name]} /\ window'[name] = window[name]
    BY <2>1 DEF Teller, Slot
  <2>3. QED
    BY <1>1, <2>2, BoxIsLeft
<1>8. QED
  BY <1>4, <1>5, <1>6, <1>7 DEF Angles

LEMMA ObjectViewIsTold ==
  ASSUME VInv, BoxPart, NEW calls, Leaves(calls), ObjectViewCall(calls)
  PROVE  BoxesAreTold'
<1> SUFFICES ASSUME NEW name \in Selections PROVE BoxIsTold(name)'
  BY DEF BoxesAreTold
<1>1. IsSeq(todo) /\ spin' = spin /\ BoxIsTold(name)
      /\ Head(todo)[1] \in {"ChangePhi", "ChangeTheta", "ChangePhiAndTheta"}
  BY DEF VInv, ObjectViewCall, BoxPart, BoxesAreTold
<1>2. ASSUME Head(todo)[1] \notin {Teller[name], Slot[name]}, window'[name] = window[name]
      PROVE  BoxIsTold(name)'
  BY <1>1, <1>2, BoxIsLeft
<1>3. CASE name \notin {"phi", "theta"}
  <2>1. window'[name] = window[name]
    BY <1>3, SelectionNames DEF ObjectViewCall
  <2>2. Head(todo)[1] \notin {Teller[name], Slot[name]}
    BY <1>1, <1>3 DEF Teller, Slot, Selections
  <2>3. QED
    BY <1>2, <2>1, <2>2
<1>4. ASSUME NEW first, NEW last, NEW c, Asks(calls, first, last), IsSeq(first), IsSeq(last),
             c \in Pending(last), c[1] = Teller[name]
      PROVE  BoxIsTold(name)'
  <2>1. PICK middle : calls = (first \o middle) \o last /\ IsSeq(middle)
    BY <1>4, TupleIsSeq DEF Asks
  <2>2. PICK both : both = first \o middle /\ IsSeq(both)
    BY <1>4, <2>1, ConcatIsSeq
  <2>3. c \in Pending(calls)
    BY <1>4, <2>1, <2>2, ConcatIsSeq
  <2>4. QED
    BY <1>1, <1>4, <2>3, BoxWaits
<1>5. PICK p, t : p = <<"EmitPhi">> /\ t = <<"EmitTheta">>
  OBVIOUS
<1>6. p[1] = "EmitPhi" /\ t[1] = "EmitTheta" /\ IsSeq(<<>>) /\ IsSeq(<<t>>) /\ IsSeq(<<p, t>>)
      /\ t \in Pending(<<t>>) /\ p \in Pending(<<p, t>>) /\ t \in Pending(<<p, t>>)
  BY <1>5, TupleIsSeq
<1>7. Teller["phi"] = "EmitPhi" /\ Teller["theta"] = "EmitTheta"
  BY DEF Teller
<1>8. CASE name = "theta"
  <2>1. CASE Head(todo)[1] = "ChangePhi"
    <3>1. window'[name] = window[name] /\ Head(todo)[1] \notin {Teller[name], Slot[name]}
      BY <1>8, <2>1 DEF ObjectViewCall, Teller, Slot
    <3>2. QED
      BY <1>2, <3>1
  <2>2. CASE Head(todo)[1] # "ChangePhi"
    <3>1. Asks(calls, <<>>, <<t>>) \/ Asks(calls, <<>>, <<p, t>>)
      BY <1>5, <2>2 DEF ObjectViewCall
    <3>2. t[1] = Teller[name]
      BY <1>6, <1>7, <1>8
    <3>3. QED
      BY <1>4, <1>6, <3>1, <3>2
  <2>3. QED
    BY <2>1, <2>2
<1>9. CASE name = "phi"
  <2>1. CASE Head(todo)[1] = "ChangeTheta"
    <3>1. window'[name] = window[name] /\ Head(todo)[1] \notin {Teller[name], Slot[name]}
      BY <1>9, <2>1 DEF ObjectViewCall, Teller, Slot
    <3>2. QED
      BY <1>2, <3>1
  <2>2. CASE Head(todo)[1] = "ChangePhiAndTheta"
    <3>1. Asks(calls, <<>>, <<p, t>>)
      BY <1>5, <2>2 DEF ObjectViewCall
    <3>2. p[1] = Teller[name]
      BY <1>6, <1>7, <1>9
    <3>3. QED
      BY <1>4, <1>6, <3>1, <3>2
  <2>3. CASE Head(todo)[1] = "ChangePhi"
    <3>1. PICK a, b : /\ a = <<"setValue", "phi", window'.phi>>
                      /\ b = <<"vtk", "phi", window'.phi>>
      OBVIOUS
    <3>2. Asks(calls, <<a, b>>, <<>>)
      BY <2>3, <3>1 DEF ObjectViewCall
    <3>3. PICK middle : calls = (<<a, b>> \o middle) \o <<>> /\ IsSeq(middle)
      BY <3>2, TupleIsSeq DEF Asks
    <3>4. PICK S : middle \in Seq(S)
      BY <3>3 DEF IsSeq
    <3>5. PICK U : U = S \cup {a, b}
      OBVIOUS
    <3>6. middle \in Seq(U) /\ <<a, b>> \in Seq(U) /\ <<a, b>> # <<>> /\ Head(<<a, b>>) = a
      BY <3>4, <3>5
    <3>7. calls # <<>> /\ Head(calls) = a
      <4>1. PICK both : both = <<a, b>> \o middle
        OBVIOUS
      <4>2. both \in Seq(U) /\ Len(both) >= 2 /\ both[1] = a
        BY <3>6, <4>1
      <4>3. both \o <<>> = both
        BY <4>2
      <4>4. calls = both
        BY <3>3, <4>1, <4>3
      <4>5. QED
        BY <4>2, <4>4
    <3>8. todo' # <<>> /\ Head(todo') = a
      BY <1>1, <3>7, LeftNext
    <3>9. a[1] = "setValue" /\ a[2] = "phi" /\ a[3] = window'.phi
      BY <3>1
    <3>10. TellsBox(Head(todo), name)'
      BY <1>9, <3>8, <3>9 DEF TellsBox
    <3>11. QED
      BY <3>8, <3>10 DEF BoxIsTold
  <2>4. QED
    BY <1>1, <2>1, <2>2, <2>3
<1>10. QED
  BY <1>3, <1>8, <1>9

LEMMA BoxCallIsTold ==
  ASSUME VInv, BoxPart, NEW calls, Leaves(calls), IsBoxCall(calls)
  PROVE  BoxesAreTold'
<1>1. PICK name \in Spins, s \in [value : Int, min : Int, max : Int] : BoxMoves(name, s, calls)
  BY DEF IsBoxCall
<1> SUFFICES ASSUME NEW told \in Selections PROVE BoxIsTold(told)'
  BY DEF BoxesAreTold
<1>2. IsSeq(todo) /\ window' = window /\ Head(todo)[2] = name /\ BoxIsTold(told)
      /\ Head(todo)[1] \in {"setValue", "setMinimum", "setMaximum"}
  BY <1>1 DEF VInv, BoxMoves, BoxCall, BoxPart, BoxesAreTold
<1>3. CASE told # name
  <2>1. spin'[told] = spin[told]
    BY <1>1, <1>3, SelectionNames DEF BoxMoves
  <2>2. Head(todo)[1] \notin {Teller[told], Slot[told]}
    BY <1>2 DEF Teller, Slot, Selections
  <2>3. ~(Head(todo)[1] = "setValue" /\ Head(todo)[2] = told)
    BY <1>2, <1>3
  <2>4. QED
    BY <1>2, <2>1, <2>2, <2>3, BoxIsLeft
<1>4. CASE told = name
  BY <1>1, <1>2, <1>4, BoxIsMoved DEF BoxPart
<1>5. QED
  BY <1>3, <1>4

LEMMA CallKeepsBoxes ==
  ASSUME VInv, BoxPart, NEW calls, Leaves(calls), CallForm(calls)
  PROVE  BoxPart'
<1>1. IsSeq(todo) /\ IsSeq(calls) /\ Ranges /\ BoxesAreTold
  BY DEF VInv, Leaves, BoxPart
<1>2. Ranges'
  <2>1. CASE IsBoxCall(calls)
    BY <1>1, <2>1, BoxKeepsRanges
  <2>2. CASE LoadCall(calls)
    <3>1. ASSUME NEW c \in Pending(calls) PROVE Bounds(c)
      <4>1. CASE SetsRange(c)
        BY <4>1 DEF SetsRange, Bounds, Selections, Angles
      <4>2. CASE c[1] \in {"clear", "FillSelector", "setCurrentIndex", "ChangePhiAndTheta"}
        BY <4>2 DEF Bounds
      <4>3. QED
        BY <2>2, <4>1, <4>2 DEF LoadCall, GivesRange
    <3>2. QED
      BY <1>1, <2>2, <3>1, RangesStay DEF LoadCall
  <2>3. CASE ~IsBoxCall(calls) /\ ~LoadCall(calls)
    <3>1. spin' = spin /\ \A c \in Pending(calls) : Bounds(c)
      BY <1>1, <2>3, NoRangeIsSet DEF Bounds
    <3>2. QED
      BY <1>1, <3>1, RangesStay
  <2>4. QED
    BY <2>1, <2>2, <2>3
<1> SUFFICES BoxesAreTold'
  BY <1>2 DEF BoxPart
<1>3. CASE IsBoxCall(calls)
  BY <1>3, BoxCallIsTold
<1>4. CASE RecordCall(calls)
  BY <1>4, RecordIsTold
<1>5. CASE \E name \in Selections : TellCall(name, calls)
  BY <1>5, TellerTells
<1>6. CASE DataViewCall(calls)
  BY <1>6, DataViewIsTold
<1>7. CASE ObjectViewCall(calls)
  BY <1>7, ObjectViewIsTold
<1>8. CASE \/ ComboCall(calls) \/ IndicatorCall \/ PlotCall \/ VtkCall \/ FollowCall(calls)
           \/ LoadCall(calls) \/ FillCall(calls)
  <2>1. window' = window /\ spin' = spin
        /\ Head(todo)[1] \in {"setCurrentIndex", "clear", "addItem", "SetIndicator", "plot", "vtk",
             "FollowInObjectView", "LoadContent", "FillSelector"}
    BY <1>8 DEF ComboCall, IndicatorCall, PlotCall, VtkCall, FollowCall, LoadCall, FillCall
  <2>2. QED
    BY <1>1, <2>1, OthersAreTold
<1>9. CASE FrequencyCall(calls) \/ ChannelCall(calls) \/ OpenCall(calls)
  <2>1. spin' = spin
        /\ Head(todo)[1] \in {"ChangeFrequencyIndex", "ChangeChannelIndex", "OpenDAFFFile"}
    BY <1>9 DEF FrequencyCall, ChannelCall, OpenCall
  <2>2. \A name \in Selections : name \in Members \ {"frequency", "channel", "file"}
    BY DEF Selections, Members
  <2>3. \A name \in Selections : window'[name] = window[name]
    BY <1>9, <2>2 DEF FrequencyCall, ChannelCall, OpenCall
  <2>4. QED
    BY <1>1, <2>1, <2>3, OthersAreTold
<1>10. QED
  BY <1>3, <1>4, <1>5, <1>6, <1>7, <1>8, <1>9 DEF CallForm

\* At rest every box agrees, and the user changes no selection.
LEMMA UserKeepsBoxes ==
  ASSUME VInv, BoxPart, User
  PROVE  BoxPart'
<1>1. Quiet /\ spin' = spin /\ \A name \in Selections : window'[name] = window[name]
  <2>1. \A name \in Selections : name \in Members \ {"frequency", "channel", "file"}
    BY DEF Selections, Members
  <2>2. QED
    BY <2>1, UserIs DEF CloseStep, OneCall, FrequencyStep, ChannelStep, Quietly
<1>2. \A c \in Pending(todo') : Bounds(c)
  <2>1. CASE CloseStep
    BY <2>1, TupleIsSeq DEF CloseStep, Quiet
  <2>2. CASE \E c : OneCall(c)
    <3>1. PICK c : OneCall(c)
      BY <2>2
    <3>2. Pending(todo') = {c}
      BY <3>1, TupleIsSeq DEF OneCall
    <3>3. Bounds(c)
      BY <3>1 DEF OneCall, Asked, Bounds
    <3>4. QED
      BY <3>2, <3>3
  <2>3. CASE \E v \in Int : FrequencyStep(v)
    BY <2>3, FrequencyTellings DEF FrequencyStep, Bounds
  <2>4. CASE \E v \in Int : ChannelStep(v)
    BY <2>4, ChannelTellings DEF ChannelStep, Bounds
  <2>5. QED
    BY <2>1, <2>2, <2>3, <2>4, UserIs
<1>3. Ranges'
  BY <1>1, <1>2 DEF BoxPart, Ranges, InBounds
<1>4. ASSUME NEW name \in Selections PROVE BoxIsTold(name)'
  <2>1. Agrees(name)
    BY <1>1, AtRest DEF BoxPart, BoxesAreTold, BoxIsTold, Waits, Quiet
  <2>2. Shows(name, window[name])' = Shows(name, window[name]) /\ Untold(name)' = Untold(name)
    BY <1>1 DEF Shows, Untold
  <2>3. InEveryRange(name, window[name])' = InEveryRange(name, window[name])
    BY <1>1 DEF InEveryRange, WithinBox
  <2>4. name = "record" => window'.record = window.record
    BY <1>1
  <2>5. name = "beta" => window'.beta = window.beta
    BY <1>1
  <2>6. Agrees(name)'
    BY <2>1, <2>2, <2>3, <2>4, <2>5 DEF Agrees
  <2>7. QED
    BY <2>6, BoxShows
<1>5. QED
  BY <1>3, <1>4 DEF BoxPart, BoxesAreTold

\* The window begins at the front, and a file may be opened first.
LEMMA InitIs ==
  ASSUME Init
  PROVE  /\ DOMAIN window = Members /\ window.file = NoFile /\ window.record \in UnsetRecords
         /\ window.frequency = 0 /\ window.alpha = 0 /\ window.beta = QuarterTurn
         /\ window.phi = 0 /\ window.theta = 0
         /\ \A c \in Pending(todo) :
              c[1] = "OpenDAFFFile" \/ (c[1] = "ChangePhiAndTheta" /\ c[3] = 0)
<1>1. \E w \in [file : {NoFile}, channel : {0}, frequency : {0},
                record : UnsetRecords, alpha : {0}, beta : {QuarterTurn},
                phi : {0}, theta : {0}] : window = w
  BY DEF Init
<1>2. DOMAIN window = Members /\ window.file = NoFile /\ window.record \in UnsetRecords
      /\ window.frequency = 0 /\ window.alpha = 0 /\ window.beta = QuarterTurn
      /\ window.phi = 0 /\ window.theta = 0
  BY <1>1 DEF Members
<1>3. PICK a : a = <<"ChangePhiAndTheta", 0, 0>>
  OBVIOUS
<1>4. a[1] = "ChangePhiAndTheta" /\ a[3] = 0 /\ ShowFront = <<a>> /\ IsSeq(<<a>>)
      /\ Pending(<<a>>) = {a}
  BY <1>3, TupleIsSeq DEF ShowFront
<1>5. CASE todo = ShowFront
  BY <1>2, <1>4, <1>5
<1>6. CASE todo # ShowFront
  <2>1. PICK f \in Files : todo = << <<"OpenDAFFFile", f>> >> \o ShowFront
    BY <1>6 DEF Init
  <2>2. PICK b : b = <<"OpenDAFFFile", f>>
    OBVIOUS
  <2>3. b[1] = "OpenDAFFFile" /\ todo = <<b>> \o <<a>> /\ IsSeq(<<b>>) /\ Pending(<<b>>) = {b}
    BY <1>4, <2>1, <2>2, TupleIsSeq
  <2>4. Pending(todo) = {b} \cup {a}
    BY <1>4, <2>3, ConcatIsSeq
  <2>5. QED
    BY <1>2, <1>4, <2>3, <2>4
<1>7. QED
  BY <1>5, <1>6

LEMMA InitBoxes == ASSUME Init PROVE BoxPart
<1>1. ASSUME NEW name \in Spins
      PROVE  /\ spin[name].min = WidgetRanges[name].min /\ spin[name].max = WidgetRanges[name].max
             /\ spin[name].value = Bounded(0, WidgetRanges[name]) /\ Untold(name)
             /\ InBounds(name) /\ Shows(name, 0)
  <2>1. PICK r \in [min : Int, max : Int] : r = WidgetRanges[name] /\ r.min <= r.max
    BY FormAssumption
  <2>2. PICK v \in Int : v = Bounded(0, r)
    BY <2>1, BoundedType
  <2>3. PICK s \in [value : Int, min : Int, max : Int] :
          s = spin[name] /\ s.value = v /\ s.min = r.min /\ s.max = r.max
    <3>1. spin[name] = [value |-> v, min |-> r.min, max |-> r.max]
      BY <2>1, <2>2 DEF Init
    <3>2. QED
      BY <2>1, <2>2, <3>1
  <2>4. s.min <= s.value /\ s.value <= s.max /\ Bounded(0, s) = s.value
    BY <2>1, <2>2, <2>3 DEF Bounded
  <2>5. QED
    BY <2>1, <2>2, <2>3, <2>4 DEF Untold, InBounds, Shows
<1>2. \A c \in Pending(todo) : Bounds(c)
  BY InitIs DEF Bounds
<1>3. \A name \in Angles : \A v \in Int : InEveryRange(name, v) =>
        spin[name].min <= v /\ v <= spin[name].max
  BY <1>1 DEF InEveryRange, WithinBox, Angles, Spins
<1>4. Ranges
  BY <1>1, <1>2, <1>3, SelectionNames DEF Ranges
<1>5. ASSUME NEW name \in Selections PROVE Agrees(name)
  <2>1. name \in Spins
    BY SelectionNames
  <2>2. CASE name = "record"
    BY <1>1, <2>1, <2>2, InitIs DEF Agrees
  <2>3. CASE name = "beta"
    BY <1>1, <2>1, <2>3, InitIs DEF Agrees
  <2>4. CASE name \in {"alpha", "phi", "theta"}
    <3>1. window[name] = 0
      BY <2>4, InitIs
    <3>2. QED
      BY <1>1, <2>1, <3>1 DEF Agrees
  <2>5. QED
    BY <2>2, <2>3, <2>4 DEF Selections
<1>6. QED
  BY <1>4, <1>5 DEF BoxPart, BoxesAreTold, BoxIsTold

-----------------------------------------------------------------------------
(* The angle theta.                                                        *)

LEMMA ProductOfSigns == \A a, b \in Signs : a * b \in Signs /\ a * 0 = 0 /\ 0 * a = 0
BY DEF Signs

LEMMA NextQuarter ==
  ASSUME NEW x \in Int
  PROVE  (x + QuarterTurn) \div QuarterTurn = (x \div QuarterTurn) + 1
<1>1. PICK q \in Nat : q = QuarterTurn /\ q > 0
  BY TurnType DEF QuarterTurn
<1>2. PICK k \in Int, r \in 0 .. q - 1 : k = x \div q /\ x = q * k + r
  <2>1. x \div q \in Int /\ x % q \in 0 .. q - 1 /\ x = q * (x \div q) + (x % q)
    BY <1>1
  <2>2. QED
    BY <2>1
<1>3. PICK l \in Int, s \in 0 .. q - 1 : l = (x + q) \div q /\ x + q = q * l + s
  <2>1. x + q \in Int
    BY <1>1
  <2>2. (x + q) \div q \in Int /\ (x + q) % q \in 0 .. q - 1
        /\ x + q = q * ((x + q) \div q) + ((x + q) % q)
    BY <1>1, <2>1
  <2>3. QED
    BY <2>2
<1>4. q * (l - k - 1) = r - s
  BY <1>1, <1>2, <1>3
<1>5. l = k + 1
  <2>1. CASE l - k - 1 >= 1
    <3>1. q * (l - k - 1) >= q
      BY <1>1, <2>1
    <3>2. QED
      BY <1>1, <1>4, <3>1
  <2>2. CASE l - k - 1 <= -1
    <3>1. q * (l - k - 1) <= -q
      BY <1>1, <2>2
    <3>2. QED
      BY <1>1, <1>4, <3>1
  <2>3. QED
    BY <1>1, <1>2, <1>3, <2>1, <2>2
<1>6. QED
  BY <1>1, <1>2, <1>3, <1>5

LEMMA SineOrCosine ==
  ASSUME NEW x \in Int
  PROVE  Sin(x) \in Signs /\ Cos(x) \in Signs /\ (Sin(x) = 0 \/ Cos(x) = 0)
<1>1. PICK k \in Int : k = x \div QuarterTurn
  <2>1. QuarterTurn \in Nat /\ QuarterTurn > 0
    BY TurnType DEF QuarterTurn
  <2>2. x \div QuarterTurn \in Int
    BY <2>1
  <2>3. QED
    BY <2>2
<1>2. (x + QuarterTurn) \div QuarterTurn = k + 1
  BY <1>1, NextQuarter
<1>3. Sin(x) = IF k % 4 = 1 THEN 1 ELSE IF k % 4 = 3 THEN -1 ELSE 0
  BY <1>1 DEF Sin
<1>4. Cos(x) = IF (k + 1) % 4 = 1 THEN 1 ELSE IF (k + 1) % 4 = 3 THEN -1 ELSE 0
  BY <1>2 DEF Cos, Sin
<1>5. QED
  BY <1>3, <1>4 DEF Signs

LEMMA DirectionOnAxis ==
  ASSUME NEW x \in Int, NEW y \in Int
  PROVE  OnAxis(Sin(x) * Cos(y), Sin(y), Cos(x) * Cos(y))
<1>1. PICK a, b, c, d \in Signs : /\ a = Sin(x) /\ b = Cos(x) /\ c = Sin(y) /\ d = Cos(y)
                                  /\ a = 0 \/ b = 0
                                  /\ c = 0 \/ d = 0
  BY SineOrCosine
<1>2. OnAxis(a * d, c, b * d)
  BY <1>1, ProductOfSigns DEF OnAxis, Signs
<1>3. QED
  BY <1>1, <1>2

LEMMA RotationSigns ==
  ASSUME NEW o \in [{"yaw", "pitch", "roll"} -> Int]
  PROVE  \E a, b, c \in Signs :
           RotationConstants(o).t2 = a /\ RotationConstants(o).t8 = b
           /\ RotationConstants(o).t5 = c
<1>1. PICK sy, cy, sp, cp, sr, cr \in Signs :
        /\ sy = Sin(o.yaw) /\ cy = Cos(o.yaw) /\ sp = Sin(o.pitch) /\ cp = Cos(o.pitch)
        /\ sr = Sin(o.roll) /\ cr = Cos(o.roll)
        /\ sr = 0 \/ cr = 0
  BY SineOrCosine
<1>2. PICK a, b, c, d, e, f \in Signs :
        /\ a = cy * sr /\ b = sy * sp /\ c = b * cr /\ d = sy * sr /\ e = cy * sp /\ f = e * cr
        /\ (sr = 0 => a = 0 /\ d = 0) /\ (cr = 0 => c = 0 /\ f = 0)
  BY <1>1, ProductOfSigns
<1>3. a + c \in Signs /\ -d + f \in Signs
  BY <1>1, <1>2 DEF Signs
<1>4. cp * cr \in Signs
  BY <1>1 DEF Signs
<1>5. RotationConstants(o).t2 = a + c /\ RotationConstants(o).t5 = -d + f
      /\ RotationConstants(o).t8 = cp * cr
  BY <1>1, <1>2 DEF RotationConstants
<1>6. QED
  BY <1>2, <1>3, <1>4, <1>5

\* The rotation turns every direction to an elevation of a quarter turn at most.
LEMMA ElevationBounds ==
  ASSUME NEW o \in [{"yaw", "pitch", "roll"} -> Int], NEW x \in Int, NEW y \in Int
  PROVE  /\ transformDSC2OSC(RotationConstants(o), x, y).theta >= -QuarterTurn
         /\ transformDSC2OSC(RotationConstants(o), x, y).theta <= QuarterTurn
<1>1. PICK q \in Nat : q = QuarterTurn
  BY TurnType DEF QuarterTurn
<1>2. PICK t : t = RotationConstants(o)
  OBVIOUS
<1>3. PICK a, b, c \in Signs : t.t2 = a /\ t.t8 = b /\ t.t5 = c
  BY <1>2, RotationSigns
<1>4. y - q \in Int
  BY <1>1
<1>5. PICK u, v, w : /\ u = Sin(x) * Cos(y - QuarterTurn) /\ v = Sin(y - QuarterTurn)
                     /\ w = Cos(x) * Cos(y - QuarterTurn)
  OBVIOUS
<1>6. OnAxis(u, v, w)
  BY <1>1, <1>4, <1>5, DirectionOnAxis
<1>7. a * u - b * v + c * w \in Signs
  <2>1. CASE u \in Signs /\ v = 0 /\ w = 0
    BY <1>3, <2>1 DEF Signs
  <2>2. CASE u = 0 /\ v \in Signs /\ w = 0
    BY <1>3, <2>2 DEF Signs
  <2>3. CASE u = 0 /\ v = 0 /\ w \in Signs
    BY <1>3, <2>3 DEF Signs
  <2>4. QED
    BY <1>6, <2>1, <2>2, <2>3 DEF OnAxis
<1>8. PICK s \in Signs : s = a * u - b * v + c * w
  BY <1>7
<1>9. transformDSC2OSC(t, x, y).theta = -ArcSin(s)
  BY <1>3, <1>5, <1>8 DEF transformDSC2OSC
<1>10. PICK e \in {-q, 0, q} : e = ArcSin(s)
  <2>1. ArcSin(s) = s * q
    BY <1>1 DEF ArcSin
  <2>2. s = -1 \/ s = 0 \/ s = 1
    BY DEF Signs
  <2>3. QED
    BY <1>1, <2>1, <2>2
<1>11. -e >= -q /\ -e <= q
  BY <1>1
<1>12. QED
  BY <1>1, <1>2, <1>9, <1>10, <1>11

\* The places of two sequences, and of the calls that a call leaves.
LEMMA ConcatAt ==
  ASSUME NEW s, NEW t, IsSeq(s), IsSeq(t)
  PROVE  /\ IsSeq(s \o t) /\ Len(s) \in Nat /\ Len(t) \in Nat /\ Len(s \o t) = Len(s) + Len(t)
         /\ \A i \in 1 .. Len(s) : (s \o t)[i] = s[i]
         /\ \A i \in 1 .. Len(t) : (s \o t)[Len(s) + i] = t[i]
<1>1. PICK S, T : s \in Seq(S) /\ t \in Seq(T)
  BY DEF IsSeq
<1>2. PICK V : V = S \cup T
  OBVIOUS
<1>3. s \in Seq(V) /\ t \in Seq(V)
  BY <1>1, <1>2
<1>4. IsSeq(s \o t)
  BY ConcatIsSeq
<1>5. PICK n, m \in Nat : n = Len(s) /\ m = Len(t) /\ Len(s \o t) = n + m
  BY <1>3
<1>6. \A i \in 1 .. n + m : (s \o t)[i] = IF i <= n THEN s[i] ELSE t[i - n]
  BY <1>3, <1>5
<1>7. \A i \in 1 .. n : (s \o t)[i] = s[i]
  BY <1>5, <1>6
<1>8. ASSUME NEW i \in 1 .. m PROVE (s \o t)[n + i] = t[i]
  <2>1. n \in Nat /\ m \in Nat /\ i \in Int /\ i >= 1 /\ i <= m
    BY <1>5
  <2>3. n + i \in 1 .. n + m /\ ~(n + i <= n) /\ (n + i) - n = i
    BY <2>1
  <2>2. QED
    BY <1>6, <2>3
<1>9. QED
  BY <1>4, <1>5, <1>7, <1>8

LEMMA Positions ==
  ASSUME IsSeq(todo), NEW calls, Leaves(calls)
  PROVE  /\ Len(calls) \in Nat /\ Len(todo) \in Nat \ {0} /\ Head(todo) = todo[1]
         /\ Len(todo') = Len(calls) + Len(todo) - 1
         /\ \A i \in 1 .. Len(calls) : todo'[i] = calls[i]
         /\ \A i \in 2 .. Len(todo) : todo'[Len(calls) + i - 1] = todo[i]
         /\ \A k \in 1 .. Len(todo') :
              k \in 1 .. Len(calls) \/ \E i \in 2 .. Len(todo) : k = Len(calls) + i - 1
<1>1. IsSeq(Tail(todo)) /\ IsSeq(calls)
  BY TailIsSeq DEF Leaves
<1>2. PICK S : todo \in Seq(S)
  BY DEF IsSeq
<1>3. PICK m \in Nat : m = Len(todo) /\ m >= 1 /\ Len(Tail(todo)) = m - 1 /\ Head(todo) = todo[1]
  BY <1>2 DEF Leaves
<1>4. \A i \in 1 .. m - 1 : Tail(todo)[i] = todo[i + 1]
  BY <1>2, <1>3
<1>5. PICK n \in Nat : n = Len(calls)
  BY <1>1, ConcatAt
<1>6. /\ Len(todo') = n + (m - 1) /\ \A i \in 1 .. n : todo'[i] = calls[i]
      /\ \A i \in 1 .. m - 1 : todo'[n + i] = Tail(todo)[i]
  BY <1>1, <1>3, <1>5, ConcatAt DEF Leaves
<1>7. ASSUME NEW i \in 2 .. m PROVE todo'[n + i - 1] = todo[i]
  <2>1. PICK j \in 1 .. m - 1 : i = j + 1 /\ n + j = n + i - 1
    <3>1. i - 1 \in 1 .. m - 1 /\ i = i - 1 + 1 /\ n + (i - 1) = n + i - 1
      BY <1>3, <1>5
    <3>2. QED
      BY <3>1
  <2>2. QED
    BY <1>4, <1>6, <2>1
<1>8. ASSUME NEW k \in 1 .. n + (m - 1)
      PROVE  k \in 1 .. n \/ \E i \in 2 .. m : k = n + i - 1
  <2>1. CASE k <= n
    BY <2>1
  <2>2. CASE k > n
    <3>1. k - n + 1 \in 2 .. m /\ k = n + (k - n + 1) - 1
      BY <1>3, <1>5, <2>2
    <3>2. QED
      BY <3>1
  <2>3. QED
    BY <1>5, <2>1, <2>2
<1>9. n + (m - 1) = n + m - 1
  BY <1>3, <1>5
<1>10. QED
  BY <1>3, <1>5, <1>6, <1>7, <1>8, <1>9

LEMMA AsksAre ==
  ASSUME NEW calls, NEW first, NEW last, IsSeq(first), IsSeq(last), Asks(calls, first, last),
         NEW names, \A c \in Pending(first) : c[1] \in names
  PROVE  /\ Pending(first) \cup Pending(last) \subseteq Pending(calls)
         /\ \A c \in Pending(calls) :
              \/ c \in Pending(first) \cup Pending(last)
              \/ c[1] = "ChangeRecordIndex" /\ c[2] = Nearest'
              \/ c[1] = "SetIndicator"
         /\ IsOpen => AskedFirst(calls, names)
<1>1. PICK middle :
        /\ calls = (first \o middle) \o last
        /\ \/ ~IsOpen /\ middle = <<>>
           \/ IsOpen /\ \E ask, tell : /\ ask = <<"ChangeRecordIndex", Nearest'>>
                                       /\ tell[1] = "SetIndicator" /\ middle = <<ask, tell>>
  BY DEF Asks
<1>2. PICK ask, tell : /\ ask[1] = "ChangeRecordIndex" /\ ask[2] = Nearest'
                       /\ tell[1] = "SetIndicator"
                       /\ middle = IF IsOpen THEN <<ask, tell>> ELSE <<>>
  <2>1. CASE IsOpen
    <3>1. PICK ask, tell : /\ ask = <<"ChangeRecordIndex", Nearest'>>
                           /\ tell[1] = "SetIndicator" /\ middle = <<ask, tell>>
      BY <1>1, <2>1
    <3>2. ask[1] = "ChangeRecordIndex" /\ ask[2] = Nearest'
      BY <3>1
    <3>3. QED
      BY <2>1, <3>1, <3>2
  <2>2. CASE ~IsOpen
    <3>1. PICK ask, tell : ask = <<"ChangeRecordIndex", Nearest'>> /\ tell = <<"SetIndicator">>
      OBVIOUS
    <3>2. ask[1] = "ChangeRecordIndex" /\ ask[2] = Nearest' /\ tell[1] = "SetIndicator"
      BY <3>1
    <3>3. QED
      BY <1>1, <2>2, <3>2
  <2>3. QED
    BY <2>1, <2>2
<1>3. IsSeq(middle) /\ Pending(middle) \subseteq {ask, tell}
  BY <1>2, TupleIsSeq
<1>4. PICK both : both = first \o middle
  OBVIOUS
<1>5. IsSeq(both) /\ Pending(both) = Pending(first) \cup Pending(middle)
  BY <1>3, <1>4, ConcatIsSeq
<1>6. Pending(calls) = (Pending(first) \cup Pending(middle)) \cup Pending(last)
  BY <1>1, <1>4, <1>5, ConcatIsSeq
<1>7. ASSUME IsOpen PROVE AskedFirst(calls, names)
  <2>1. PICK f \in Nat, l \in Nat : f = Len(first) /\ l = Len(last)
    BY ConcatAt
  <2>2. middle = <<ask, tell>> /\ Len(middle) = 2 /\ middle[1] = ask
    BY <1>2, <1>7
  <2>3. /\ Len(both) = f + 2 /\ both[f + 1] = ask
        /\ \A i \in 1 .. f : both[i] = first[i]
    BY <1>3, <1>4, <2>1, <2>2, ConcatAt
  <2>4. /\ Len(calls) = f + 2 + l
        /\ \A i \in 1 .. f + 2 : calls[i] = both[i]
    BY <1>1, <1>4, <1>5, <2>1, <2>3, ConcatAt
  <2>5. f + 1 \in 1 .. Len(calls) /\ f + 1 \in 1 .. f + 2 /\ f + 1 - 1 = f
        /\ \A i \in 1 .. f : i \in 1 .. f + 2
    BY <2>1, <2>4
  <2>6. \A i \in 1 .. f : calls[i][1] \in names
    BY <2>1, <2>3, <2>4, <2>5 DEF Pending
  <2>7. QED
    BY <1>2, <2>3, <2>4, <2>5, <2>6 DEF AskedFirst
<1>8. QED
  BY <1>2, <1>3, <1>6, <1>7

LEMMA ObjectViewLeaves ==
  ASSUME NEW calls, ObjectViewCall(calls)
  PROVE  /\ \A c \in Pending(calls) :
              \/ c[1] \in {"setValue", "vtk"} /\ c[2] = "phi" /\ Head(todo)[1] = "ChangePhi"
              \/ c[1] = "EmitTheta" /\ Head(todo)[1] # "ChangePhi"
              \/ c[1] = "EmitPhi" /\ Head(todo)[1] = "ChangePhiAndTheta"
              \/ c[1] = "ChangeRecordIndex" /\ c[2] = Nearest'
              \/ c[1] = "SetIndicator"
         /\ Head(todo)[1] # "ChangePhi" => \E c \in Pending(calls) : c[1] = "EmitTheta"
         /\ IsOpen => AskedFirst(calls, {"setValue", "vtk"})
<1>1. PICK a, b, p, t : /\ a = <<"setValue", "phi", window'.phi>> /\ b = <<"vtk", "phi", window'.phi>>
                        /\ p = <<"EmitPhi">> /\ t = <<"EmitTheta">>
  OBVIOUS
<1>2. a[1] = "setValue" /\ a[2] = "phi" /\ b[1] = "vtk" /\ b[2] = "phi" /\ p[1] = "EmitPhi"
      /\ t[1] = "EmitTheta"
  BY <1>1
<1>3. /\ IsSeq(<<>>) /\ Pending(<<>>) = {}
      /\ IsSeq(<<a, b>>) /\ Pending(<<a, b>>) = {a, b}
      /\ IsSeq(<<t>>) /\ Pending(<<t>>) = {t}
      /\ IsSeq(<<p, t>>) /\ Pending(<<p, t>>) = {p, t}
  BY TupleIsSeq
<1>4. CASE Head(todo)[1] = "ChangePhi"
  <2>1. Asks(calls, <<a, b>>, <<>>)
    BY <1>1, <1>4 DEF ObjectViewCall
  <2>2. \A c \in Pending(<<a, b>>) : c[1] \in {"setValue", "vtk"}
    BY <1>2, <1>3
  <2>3. PICK first, last : /\ first = <<a, b>> /\ last = <<>>
                           /\ Asks(calls, first, last) /\ IsSeq(first) /\ IsSeq(last)
                           /\ Pending(first) = {a, b} /\ Pending(last) = {}
    BY <1>3, <2>1
  <2>4. PICK names : names = {"setValue", "vtk"} /\ \A c \in Pending(first) : c[1] \in names
    BY <2>2, <2>3
  <2>5. /\ \A c \in Pending(calls) :
              \/ c \in Pending(first) \cup Pending(last)
              \/ c[1] = "ChangeRecordIndex" /\ c[2] = Nearest'
              \/ c[1] = "SetIndicator"
        /\ IsOpen => AskedFirst(calls, names)
    BY <2>3, <2>4, AsksAre
  <2>6. QED
    BY <1>2, <1>4, <2>3, <2>4, <2>5
<1>5. CASE Head(todo)[1] = "ChangeTheta"
  <2>1. Asks(calls, <<>>, <<t>>)
    BY <1>1, <1>5 DEF ObjectViewCall
  <2>2. /\ Pending(<<>>) \cup Pending(<<t>>) \subseteq Pending(calls)
        /\ \A c \in Pending(calls) :
              \/ c \in Pending(<<>>) \cup Pending(<<t>>)
              \/ c[1] = "ChangeRecordIndex" /\ c[2] = Nearest'
              \/ c[1] = "SetIndicator"
        /\ IsOpen => AskedFirst(calls, {"setValue", "vtk"})
    BY <1>3, <2>1, AsksAre
  <2>3. QED
    BY <1>2, <1>3, <1>5, <2>2
<1>6. CASE Head(todo)[1] = "ChangePhiAndTheta"
  <2>1. Asks(calls, <<>>, <<p, t>>)
    BY <1>1, <1>6 DEF ObjectViewCall
  <2>2. /\ Pending(<<>>) \cup Pending(<<p, t>>) \subseteq Pending(calls)
        /\ \A c \in Pending(calls) :
              \/ c \in Pending(<<>>) \cup Pending(<<p, t>>)
              \/ c[1] = "ChangeRecordIndex" /\ c[2] = Nearest'
              \/ c[1] = "SetIndicator"
        /\ IsOpen => AskedFirst(calls, {"setValue", "vtk"})
    BY <1>3, <2>1, AsksAre
  <2>3. QED
    BY <1>2, <1>3, <1>6, <2>2
<1>7. QED
  BY <1>4, <1>5, <1>6 DEF ObjectViewCall

LEMMA FrequencyBlock ==
  ASSUME NEW v
  PROVE  \E a, b, c, d, e : TellFrequency(EmitFrequency(v), v, a, b, c, d, e)
<1>1. PICK a, b, c, d, e : /\ a = <<"vtk", "frequency", v>> /\ b = <<"setValue", "frequency", v>>
                           /\ c = <<"setCurrentIndex", v>> /\ d = <<"vtk", "frequency", v>>
                           /\ e = <<"plot", "frequency", v>>
  OBVIOUS
<1>2. /\ a[1] = "vtk" /\ a[2] = "frequency" /\ a[3] = v
      /\ b[1] = "setValue" /\ b[2] = "frequency" /\ b[3] = v
      /\ c[1] = "setCurrentIndex" /\ c[2] = v
      /\ d[1] = "vtk" /\ d[2] = "frequency" /\ d[3] = v
      /\ e[1] = "plot" /\ e[2] = "frequency" /\ e[3] = v
  BY <1>1
<1>3. EmitFrequency(v) = <<a, b, c, d, e>>
  BY <1>1 DEF EmitFrequency
<1>4. IsSeq(<<a, b, c, d, e>>) /\ Pending(<<a, b, c, d, e>>) = {a, b, c, d, e}
  BY LongTupleIsSeq
<1>5. TellFrequency(EmitFrequency(v), v, a, b, c, d, e)
  BY <1>2, <1>3, <1>4 DEF TellFrequency
<1>6. QED
  BY <1>5, Zenon

\* Which calls leave the calls that theta depends on.
LEMMA WhoLeaves ==
  ASSUME NEW calls, IsSeq(calls), CallForm(calls), NEW c \in Pending(calls)
  PROVE  /\ c[1] = "FollowInObjectView" => RecordCall(calls)
         /\ c[1] = "EmitTheta" => ObjectViewCall(calls)
         /\ c[1] = "vtk" /\ c[2] = "theta" => TellCall("theta", calls)
         /\ c[1] = "ChangeTheta" => IsBoxCall(calls)
         /\ c[1] = "ChangePhiAndTheta" => FollowCall(calls) \/ LoadCall(calls)
<1>1. CASE IsBoxCall(calls)
  <2>1. PICK name, d : name \in Spins /\ d[1] = Slot[name] /\ (calls = <<>> \/ calls = <<d>>)
    BY <1>1 DEF IsBoxCall, BoxMoves
  <2>2. c = d
    BY <2>1, TupleIsSeq
  <2>3. d[1] \notin {"FollowInObjectView", "EmitTheta", "vtk", "ChangePhiAndTheta"}
    BY <2>1 DEF Slot, Spins
  <2>4. QED
    BY <1>1, <2>2, <2>3
<1>2. CASE ComboCall(calls)
  <2>0. PICK v : v = combo'.index
    OBVIOUS
  <2>1. PICK d : d = <<"ChangeFrequencyIndex", v>>
    OBVIOUS
  <2>2. calls = <<>> \/ calls = <<d>>
    BY <1>2, <2>0, <2>1 DEF ComboCall
  <2>4. d[1] = "ChangeFrequencyIndex"
    BY <2>1
  <2>3. QED
    BY <2>2, <2>4, TupleIsSeq
<1>3. CASE calls = <<>>
  BY <1>3, TupleIsSeq
<1>4. CASE FrequencyCall(calls)
  <2>1. calls # <<>>
    BY TupleIsSeq
  <2>2. PICK v : calls = EmitFrequency(v)
    BY <1>4, <2>1 DEF FrequencyCall
  <2>told. PICK p, q, r, s, t : TellFrequency(calls, v, p, q, r, s, t)
    BY <2>2, FrequencyBlock, Zenon
  <2>3. /\ Pending(calls) = {p, q, r, s, t} /\ p[1] = "vtk" /\ p[2] = "frequency"
        /\ q[1] = "setValue" /\ r[1] = "setCurrentIndex" /\ s[1] = "vtk" /\ s[2] = "frequency"
        /\ t[1] = "plot"
    BY <2>told DEF TellFrequency
  <2>4. QED
    BY <2>3
<1>5. CASE ChannelCall(calls)
  BY <1>5 DEF ChannelCall
<1>6. CASE RecordCall(calls)
  <2>1. PICK b, e : b = <<"FollowInObjectView">> /\ e = <<"EmitRecord">>
    OBVIOUS
  <2>2. b[1] = "FollowInObjectView" /\ e[1] = "EmitRecord"
    BY <2>1
  <2>3. c = e \/ c = b \/ c[1] = "ChangeAlphaAndBeta"
    <3>1. calls # <<>>
      BY TupleIsSeq
    <3>2. CASE \E a : a[1] = "ChangeAlphaAndBeta" /\ calls = <<a, b, e>>
      BY <3>2, TupleIsSeq
    <3>3. CASE calls = <<e>>
      BY <3>3, TupleIsSeq
    <3>4. QED
      BY <1>6, <2>1, <3>1, <3>2, <3>3 DEF RecordCall
  <2>4. QED
    BY <1>6, <2>2, <2>3
<1>7. CASE FollowCall(calls)
  <2>1. PICK d : calls = << <<"ChangePhiAndTheta", d.phi, d.theta>> >>
    BY <1>7, TupleIsSeq DEF FollowCall
  <2>2. PICK e : e = <<"ChangePhiAndTheta", d.phi, d.theta>>
    OBVIOUS
  <2>3. c = e /\ e[1] = "ChangePhiAndTheta"
    BY <2>1, <2>2, TupleIsSeq
  <2>4. QED
    BY <1>7, <2>3
<1>8. ASSUME NEW name \in Selections, TellCall(name, calls)
      PROVE  c[1] \in {"setValue", "plot", "vtk"} /\ (c[1] = "vtk" /\ c[2] = "theta" => name = "theta")
  <2>1. PICK box, other :
          /\ box[1] = "setValue" /\ (calls = <<box>> \/ calls = <<box, other>>)
          /\ \/ name = "alpha" /\ calls = <<box>>
             \/ other[1] = "plot"
             \/ other[1] = "vtk" /\ (other[2] = "theta" => name = "theta")
    BY <1>8 DEF TellCall
  <2>2. c = box \/ (c = other /\ calls = <<box, other>>)
    BY <2>1, TupleIsSeq
  <2>3. QED
    BY <2>1, <2>2
<1>9. CASE \E name \in Selections : TellCall(name, calls)
  BY <1>8, <1>9
<1>10. CASE DataViewCall(calls)
  BY <1>10 DEF DataViewCall, Named
<1>11. CASE ObjectViewCall(calls)
  BY <1>11, ObjectViewLeaves
<1>12. CASE OpenCall(calls)
  <2>1. PICK d : d = <<"LoadContent">>
    OBVIOUS
  <2>2. c = d /\ d[1] = "LoadContent"
    BY <1>12, <2>1, TupleIsSeq DEF OpenCall
  <2>3. QED
    BY <2>2
<1>13. CASE LoadCall(calls)
  BY <1>13 DEF LoadCall, GivesRange, SetsRange
<1>14. CASE FillCall(calls)
  BY <1>14, TupleIsSeq DEF FillCall
<1>15. QED
  BY <1>1, <1>2, <1>3, <1>4, <1>5, <1>6, <1>7, <1>9, <1>10, <1>11, <1>12, <1>13, <1>14
  DEF CallForm

LEMMA CallKeepsFollowing ==
  ASSUME IsSeq(todo), FollowsAndTells, NEW calls, Leaves(calls), CallForm(calls)
  PROVE  FollowsAndTells'
<1> SUFFICES ASSUME NEW k \in 1 .. Len(todo'), todo'[k][1] = "FollowInObjectView"
             PROVE  k < Len(todo') /\ todo'[k + 1][1] = "EmitRecord"
  BY DEF FollowsAndTells, TellsAfterwards
<1>n. PICK n \in Nat, m \in Nat \ {0} : n = Len(calls) /\ m = Len(todo)
  BY Positions
<1>1. /\ n = Len(calls) /\ m = Len(todo) /\ Len(todo') = n + m - 1
      /\ \A i \in 1 .. n : todo'[i] = calls[i]
      /\ \A i \in 2 .. m : todo'[n + i - 1] = todo[i]
      /\ k \in 1 .. n \/ \E i \in 2 .. m : k = n + i - 1
  BY <1>n, Positions
<1>2. CASE k \in 1 .. n
  <2>1. calls[k] \in Pending(calls) /\ calls[k][1] = "FollowInObjectView" /\ IsSeq(calls)
    BY <1>1, <1>2 DEF Pending, Leaves
  <2>2. RecordCall(calls) /\ calls # <<>>
    BY <2>1, WhoLeaves, TupleIsSeq
  <2>3. PICK b, e : b = <<"FollowInObjectView">> /\ e = <<"EmitRecord">>
    OBVIOUS
  <2>4. b[1] = "FollowInObjectView" /\ e[1] = "EmitRecord"
    BY <2>3
  <2>5. ~(calls = <<e>>)
    BY <2>1, <2>4, TupleIsSeq
  <2>6. PICK a : a[1] = "ChangeAlphaAndBeta" /\ calls = <<a, b, e>>
    BY <2>2, <2>3, <2>5 DEF RecordCall
  <2>7. n = 3 /\ calls[1] = a /\ calls[2] = b /\ calls[3] = e
    BY <1>1, <2>6
  <2>8. k = 2 /\ 3 \in 1 .. n
    <3>1. k = 1 \/ k = 2 \/ k = 3
      BY <1>2, <2>7
    <3>2. QED
      BY <2>1, <2>4, <2>6, <2>7, <3>1
  <2>9. k < Len(todo') /\ todo'[k + 1] = e
    <3>1. k + 1 = 3 /\ n + m - 1 >= 3
      BY <1>1, <2>7, <2>8
    <3>2. todo'[3] = e
      BY <1>1, <2>7, <2>8
    <3>3. QED
      BY <1>1, <2>8, <3>1, <3>2
  <2>10. QED
    BY <2>4, <2>9
<1>3. CASE k \notin 1 .. n
  <2>1. PICK i \in 2 .. m : k = n + i - 1
    BY <1>1, <1>3
  <2>2. todo[i][1] = "FollowInObjectView" /\ i \in 1 .. m
    BY <1>1, <2>1
  <2>3. i < m /\ todo[i + 1][1] = "EmitRecord"
    BY <1>1, <2>2 DEF FollowsAndTells, TellsAfterwards
  <2>4. i + 1 \in 2 .. m /\ n + (i + 1) - 1 = k + 1 /\ k < n + m - 1
    BY <1>1, <2>1, <2>3
  <2>5. todo'[k + 1] = todo[i + 1]
    BY <1>1, <2>4
  <2>6. QED
    BY <1>1, <2>3, <2>4, <2>5
<1>4. QED
  BY <1>2, <1>3

\* What the window has selected is changed by the calls of its own.
LEMMA WindowMoves ==
  ASSUME NEW calls, CallForm(calls)
  PROVE  /\ (window'.theta = window.theta /\ window'.phi = window.phi) \/ ObjectViewCall(calls)
         /\ window'.record = window.record \/ RecordCall(calls)
         /\ window'.file = window.file \/ OpenCall(calls)
         /\ vtk'.theta = vtk.theta \/ VtkCall
<1> DEFINE Still == window' = window /\ vtk' = vtk
<1>1. CASE \/ IsBoxCall(calls) \/ ComboCall(calls) \/ IndicatorCall \/ PlotCall \/ FollowCall(calls)
           \/ (\E name \in Selections : TellCall(name, calls)) \/ LoadCall(calls) \/ FillCall(calls)
  <2>1. Still
    BY <1>1 DEF IsBoxCall, BoxMoves, ComboCall, IndicatorCall, PlotCall, FollowCall, TellCall,
                LoadCall, FillCall
  <2>2. QED
    BY <2>1
<1>2. CASE VtkCall
  BY <1>2 DEF VtkCall
<1>3. CASE FrequencyCall(calls)
  BY <1>3 DEF FrequencyCall, Members
<1>4. CASE ChannelCall(calls)
  BY <1>4 DEF ChannelCall, Members
<1>5. CASE RecordCall(calls)
  BY <1>5 DEF RecordCall, Members
<1>6. CASE DataViewCall(calls)
  BY <1>6 DEF DataViewCall, Members, Angles
<1>7. CASE ObjectViewCall(calls)
  BY <1>7 DEF ObjectViewCall, Members
<1>8. CASE OpenCall(calls)
  BY <1>8 DEF OpenCall, Members
<1>9. QED
  BY <1>1, <1>2, <1>3, <1>4, <1>5, <1>6, <1>7, <1>8 DEF CallForm

\* The object view follows a record of the file, at a quarter turn at most.
LEMMA FollowedAngleFits ==
  ASSUME VInv, FollowsAndTells, todo # <<>>, IsOpen, Head(todo)[1] = "FollowInObjectView",
         NEW d \in ObjectCoords(window.record)
  PROVE  WithinBox("theta", d.theta)
<1>1. PICK S : todo \in Seq(S)
  BY DEF VInv, IsSeq
<1>2. Len(todo) \in Nat /\ 1 \in 1 .. Len(todo) /\ Head(todo) = todo[1]
  BY <1>1
<1>3. 1 < Len(todo) /\ todo[1 + 1][1] = "EmitRecord"
  BY <1>2 DEF FollowsAndTells, TellsAfterwards
<1>4. Waits("EmitRecord")
  <2>1. todo[1 + 1] \in Pending(todo)
    BY <1>2, <1>3 DEF Pending
  <2>2. QED
    BY <1>3, <2>1 DEF Waits
<1>5. window.record \in Records(window.file)
  BY <1>4 DEF VInv, RecordIsServed, Corrects
<1>6. PICK c : c = Grid!RecordCoords(file.header, window.record)
               /\ d = transformDSC2OSC(RotationConstants(file.orientation), c.alpha, c.beta)
  BY <1>5 DEF ObjectCoords
<1>7. window.file \in Files
  BY DEF VInv, Types, IsOpen
<1>8. c.alpha \in Int /\ c.beta \in Int
  BY <1>5, <1>6, <1>7, CoordsType DEF DataCoords
<1>9. file.orientation \in [{"yaw", "pitch", "roll"} -> Int]
  BY <1>7, ContentAssumption DEF file
<1>10. d.theta >= -QuarterTurn /\ d.theta <= QuarterTurn
  BY <1>6, <1>8, <1>9, ElevationBounds
<1>11. d.theta \in Int
  BY <1>7, CoordsType
<1>12. PICK t \in Int, q \in Int, r \in [min : Int, max : Int] :
         t = d.theta /\ q = QuarterTurn /\ r = WidgetRanges["theta"]
  BY <1>11, TurnType, FormAssumption DEF Spins
<1>13. r.min <= -q /\ q <= r.max
  BY <1>12, FormAssumption
<1>14. r.min <= t /\ t <= r.max
  BY <1>10, <1>12, <1>13
<1>15. QED
  BY <1>12, <1>14 DEF WithinBox

LEMMA FrontFits == WithinBox("theta", 0)
<1>1. PICK q \in Nat, r \in [min : Int, max : Int] :
         q = QuarterTurn /\ r = WidgetRanges["theta"]
  BY TurnType, FormAssumption DEF Spins, QuarterTurn
<1>2. r.min <= -q /\ q <= r.max
  BY <1>1, FormAssumption
<1>3. r.min <= 0 /\ 0 <= r.max
  BY <1>1, <1>2
<1>4. QED
  BY <1>1, <1>3 DEF WithinBox

LEMMA CallKeepsThetaFitting ==
  ASSUME VInv, BoxPart, FollowsAndTells, ThetaFits, NEW calls, Leaves(calls), CallForm(calls)
  PROVE  ThetaFits'
<1>1. IsSeq(todo) /\ IsSeq(calls) /\ todo # <<>> /\ FitsTheta(Head(todo))
  BY LeftPending DEF VInv, Leaves, ThetaFits
<1>2. WithinBox("theta", window'.theta)
  <2>1. CASE window'.theta = window.theta
    BY <2>1 DEF ThetaFits
  <2>2. CASE ObjectViewCall(calls)
    BY <1>1, <2>2 DEF ObjectViewCall, FitsTheta, ThetaFits
  <2>3. QED
    BY <2>1, <2>2, WindowMoves
<1>3. ASSUME NEW c \in Pending(calls) PROVE FitsTheta(c)
  <2>1. CASE c[1] = "ChangeTheta"
    <3>1. IsBoxCall(calls)
      BY <1>1, <2>1, WhoLeaves
    <3>2. PICK name \in Spins, s \in [value : Int, min : Int, max : Int] : BoxMoves(name, s, calls)
      BY <3>1 DEF IsBoxCall
    <3>3. c[1] = Slot[name] /\ c[2] = s.value /\ spin'[name] = s
      BY <3>2, TupleIsSeq DEF BoxMoves
    <3>4. name = "theta"
      BY <2>1, <3>3 DEF Slot, Spins
    <3>5. Ranges'
      BY <3>1, BoxKeepsRanges DEF BoxPart
    <3>6. /\ s.min <= s.value /\ s.value <= s.max
          /\ s.min = WidgetRanges["theta"].min /\ s.max = WidgetRanges["theta"].max
      BY <3>3, <3>4, <3>5 DEF Ranges, InBounds, Selections, Angles
    <3>7. QED
      BY <2>1, <3>3, <3>6 DEF FitsTheta, WithinBox
  <2>2. CASE c[1] = "ChangePhiAndTheta"
    <3>1. CASE FollowCall(calls)
      <4>1. PICK d \in ObjectCoords(window.record) :
              calls = << <<"ChangePhiAndTheta", d.phi, d.theta>> >>
        BY <3>1, TupleIsSeq DEF FollowCall
      <4>2. PICK e : e = <<"ChangePhiAndTheta", d.phi, d.theta>>
        OBVIOUS
      <4>3. c = e /\ e[3] = d.theta
        BY <4>1, <4>2, TupleIsSeq
      <4>4. WithinBox("theta", d.theta)
        BY <1>1, <3>1, FollowedAngleFits DEF FollowCall
      <4>5. QED
        BY <2>2, <4>3, <4>4 DEF FitsTheta
    <3>2. CASE LoadCall(calls)
      <4>1. c[3] = 0
        BY <2>2, <3>2 DEF LoadCall, GivesRange, SetsRange
      <4>2. QED
        BY <2>2, <4>1, FrontFits DEF FitsTheta
    <3>3. QED
      BY <1>1, <2>2, <3>1, <3>2, WhoLeaves
  <2>3. QED
    BY <2>1, <2>2 DEF FitsTheta
<1>4. \A c \in Pending(todo') : FitsTheta(c)
  BY <1>1, <1>3, LeftPending DEF ThetaFits
<1>5. QED
  BY <1>2, <1>4 DEF ThetaFits, FitsTheta, WithinBox

\* A call that leaves the direction and the record alone, and no call to tell theta.
LEMMA NearestWaits ==
  ASSUME IsSeq(todo), ThetaIsNearest, NEW calls, Leaves(calls),
         ~Corrected(Head(todo)), \A c \in Pending(calls) : c[1] # "EmitTheta",
         IsOpen' => IsOpen, Nearest' = Nearest, window'.record = window.record
  PROVE  ThetaIsNearest'
<1> SUFFICES ASSUME IsOpen', window'.record # Nearest' PROVE CorrectedFirst'
  BY DEF ThetaIsNearest
<1>1. PICK k \in 1 .. Len(todo) :
        Corrected(todo[k]) /\ \A l \in 1 .. k : todo[l][1] # "EmitTheta"
  BY DEF ThetaIsNearest, CorrectedFirst
<1>2. PICK n \in Nat, m \in Nat \ {0} :
        /\ n = Len(calls) /\ m = Len(todo) /\ Len(todo') = n + m - 1 /\ Head(todo) = todo[1]
        /\ \A i \in 1 .. n : todo'[i] = calls[i]
        /\ \A i \in 2 .. m : todo'[n + i - 1] = todo[i]
        /\ \A j \in 1 .. Len(todo') : j \in 1 .. n \/ \E i \in 2 .. m : j = n + i - 1
  BY Positions
<1>3. k # 1 /\ k \in 2 .. m
  <2>1. k # 1
    BY <1>1, <1>2
  <2>2. QED
    BY <1>2, <2>1
<1>4. PICK j, c : j \in Nat /\ j = n + k - 1 /\ c = todo[k] /\ j \in 1 .. n + m - 1
  <2>1. n + k - 1 \in Nat /\ n + k - 1 \in 1 .. n + m - 1
    BY <1>2, <1>3
  <2>2. QED
    BY <2>1
<1>5. j \in 1 .. Len(todo') /\ todo'[j] = c /\ Corrected(c)'
  BY <1>1, <1>2, <1>3, <1>4 DEF Corrected
<1>6. ASSUME NEW l \in 1 .. j PROVE todo'[l][1] # "EmitTheta"
  <2>1. CASE l \in 1 .. n
    <3>1. calls[l] \in Pending(calls)
      BY <1>2, <2>1 DEF Pending
    <3>2. QED
      BY <1>2, <2>1, <3>1
  <2>2. CASE l \notin 1 .. n
    <3>1. l \in 1 .. Len(todo')
      BY <1>2, <1>4
    <3>2. PICK i \in 2 .. m : l = n + i - 1
      BY <1>2, <2>2, <3>1
    <3>3. i \in 1 .. k
      BY <1>2, <1>3, <1>4, <3>2
    <3>4. QED
      BY <1>1, <1>2, <3>2, <3>3
  <2>3. QED
    BY <2>1, <2>2
<1>7. Corrected(todo[j])'
  BY <1>5 DEF Corrected
<1>8. QED
  BY <1>5, <1>6, <1>7 DEF CorrectedFirst

\* A call that leaves one that corrects the record before theta is told.
LEMMA NearestIsLeft ==
  ASSUME IsSeq(todo), NEW calls, Leaves(calls), NEW k \in 1 .. Len(calls),
         Corrected(calls[k])', \A l \in 1 .. k : calls[l][1] # "EmitTheta"
  PROVE  ThetaIsNearest'
<1>1. PICK n \in Nat, m \in Nat \ {0} :
        /\ n = Len(calls) /\ Len(todo') = n + m - 1 /\ \A i \in 1 .. n : todo'[i] = calls[i]
  BY Positions
<1>2. k \in 1 .. Len(todo') /\ todo'[k] = calls[k]
  BY <1>1
<1>3. Corrected(todo[k])'
  BY <1>2 DEF Corrected
<1>4. ASSUME NEW l \in 1 .. k PROVE todo'[l][1] # "EmitTheta"
  <2>1. l \in 1 .. n
    BY <1>1
  <2>2. QED
    BY <1>1, <2>1
<1>5. QED
  BY <1>2, <1>3, <1>4 DEF ThetaIsNearest, CorrectedFirst

LEMMA NearestStays ==
  ASSUME window'.phi = window.phi, window'.theta = window.theta, window'.file = window.file
  PROVE  Nearest' = Nearest /\ IsOpen' = IsOpen
BY DEF Nearest, NearestInObject, NearestInData, IsOpen

LEMMA CallKeepsNearest ==
  ASSUME VInv, ThetaIsNearest, NEW calls, Leaves(calls), CallForm(calls)
  PROVE  ThetaIsNearest'
<1>1. IsSeq(todo) /\ IsSeq(calls)
  BY DEF VInv, Leaves
<1>2. CASE ObjectViewCall(calls) /\ IsOpen
  <2>1. PICK k \in 1 .. Len(calls) :
          /\ calls[k][1] = "ChangeRecordIndex" /\ calls[k][2] = Nearest'
          /\ \A l \in 1 .. k - 1 : calls[l][1] \in {"setValue", "vtk"}
    BY <1>2, ObjectViewLeaves DEF AskedFirst
  <2>2. Corrected(calls[k])'
    BY <2>1 DEF Corrected
  <2>3. ASSUME NEW l \in 1 .. k PROVE calls[l][1] # "EmitTheta"
    <3>1. CASE l = k
      BY <2>1, <3>1
    <3>2. CASE l # k
      <4>1. Len(calls) \in Nat
        BY <1>1, Positions
      <4>2. l \in 1 .. k - 1
        BY <3>2, <4>1
      <4>3. QED
        BY <2>1, <4>2
    <3>3. QED
      BY <3>1, <3>2
  <2>4. QED
    BY <1>1, <2>2, <2>3, NearestIsLeft
<1>3. CASE ObjectViewCall(calls) /\ ~IsOpen
  <2>1. window'.file = window.file
    BY <1>3 DEF ObjectViewCall, Members
  <2>2. QED
    BY <1>3, <2>1 DEF ThetaIsNearest, IsOpen
<1>4. CASE RecordCall(calls)
  <2>1. window'.phi = window.phi /\ window'.theta = window.theta /\ window'.file = window.file
    BY <1>4 DEF RecordCall, Members
  <2>2. Nearest' = Nearest /\ IsOpen' = IsOpen
    BY <2>1, NearestStays
  <2>3. CASE calls = <<>>
    <3>1. window'.record = window.record /\ Head(todo)[2] = window.record
          /\ Head(todo)[1] = "ChangeRecordIndex"
      BY <1>4, <2>3 DEF RecordCall
    <3>2. CASE window.record = Nearest
      BY <2>2, <3>1, <3>2 DEF ThetaIsNearest
    <3>3. CASE window.record # Nearest
      <4>1. ~Corrected(Head(todo))
        BY <3>1, <3>3 DEF Corrected
      <4>2. \A c \in Pending(calls) : c[1] # "EmitTheta"
        BY <2>3, TupleIsSeq
      <4>3. QED
        BY <1>1, <2>2, <3>1, <4>1, <4>2, NearestWaits
    <3>4. QED
      BY <3>2, <3>3
  <2>4. CASE calls # <<>> /\ IsOpen
    <3>1. PICK a, b, e : /\ a[1] = "ChangeAlphaAndBeta" /\ b = <<"FollowInObjectView">>
                         /\ calls = <<a, b, e>>
      BY <1>4, <2>4 DEF RecordCall
    <3>2. b[1] = "FollowInObjectView"
      BY <3>1
    <3>3. 2 \in 1 .. Len(calls) /\ calls[1] = a /\ calls[2] = b
      BY <3>1
    <3>4. Corrected(calls[2])'
      BY <3>2, <3>3 DEF Corrected
    <3>5. \A l \in 1 .. 2 : calls[l][1] # "EmitTheta"
      <4>1. \A l \in 1 .. 2 : l = 1 \/ l = 2
        OBVIOUS
      <4>2. QED
        BY <3>1, <3>2, <3>3, <4>1
    <3>6. QED
      BY <1>1, <3>3, <3>4, <3>5, NearestIsLeft
  <2>5. CASE ~IsOpen
    BY <2>2, <2>5 DEF ThetaIsNearest
  <2>6. QED
    BY <2>3, <2>4, <2>5
<1>5. CASE FollowCall(calls)
  <2>1. window'.record = window.record /\ Nearest' = Nearest
    BY <1>5, NearestStays DEF FollowCall
  <2>2. CASE window.record = Nearest
    BY <2>1, <2>2 DEF ThetaIsNearest
  <2>3. CASE window.record # Nearest
    <3>1. PICK d : calls = << <<"ChangePhiAndTheta", d.phi, d.theta>> >>
      BY <1>5, <2>3 DEF FollowCall
    <3>2. PICK e : e = <<"ChangePhiAndTheta", d.phi, d.theta>>
      OBVIOUS
    <3>3. e[1] = "ChangePhiAndTheta" /\ 1 \in 1 .. Len(calls) /\ calls[1] = e
      BY <3>1, <3>2
    <3>4. Corrected(calls[1])' /\ \A l \in 1 .. 1 : calls[l][1] # "EmitTheta"
      BY <3>3 DEF Corrected
    <3>5. QED
      BY <1>1, <3>3, <3>4, NearestIsLeft
  <2>4. QED
    BY <2>2, <2>3
<1>6. CASE OpenCall(calls)
  <2>1. CASE window'.file = NoFile
    BY <2>1 DEF ThetaIsNearest, IsOpen
  <2>2. CASE window'.file # NoFile
    <3>1. PICK e : e = <<"LoadContent">>
      OBVIOUS
    <3>2. e[1] = "LoadContent" /\ calls = <<e>>
      BY <1>6, <2>2, <3>1 DEF OpenCall
    <3>3. 1 \in 1 .. Len(calls) /\ calls[1] = e
      BY <3>2
    <3>4. Corrected(calls[1])' /\ \A l \in 1 .. 1 : calls[l][1] # "EmitTheta"
      BY <3>2, <3>3 DEF Corrected
    <3>5. QED
      BY <1>1, <3>3, <3>4, NearestIsLeft
  <2>3. QED
    BY <2>1, <2>2
<1>7. CASE LoadCall(calls)
  <2>1. PICK c \in Pending(calls) : c[1] = "ChangePhiAndTheta"
    BY <1>7 DEF LoadCall
  <2>2. PICK k \in 1 .. Len(calls) : c = calls[k]
    BY <2>1 DEF Pending
  <2>3. Corrected(calls[k])'
    BY <2>1, <2>2 DEF Corrected
  <2>4. ASSUME NEW l \in 1 .. k PROVE calls[l][1] # "EmitTheta"
    <3>1. Len(calls) \in Nat
      BY <1>1, Positions
    <3>2. calls[l] \in Pending(calls)
      BY <3>1 DEF Pending
    <3>3. QED
      BY <1>7, <3>2 DEF LoadCall, GivesRange, SetsRange
  <2>5. QED
    BY <1>1, <2>3, <2>4, NearestIsLeft
<1>8. CASE ~ObjectViewCall(calls) /\ ~RecordCall(calls) /\ ~FollowCall(calls) /\ ~OpenCall(calls)
           /\ ~LoadCall(calls)
  <2>1. window'.phi = window.phi /\ window'.theta = window.theta /\ window'.file = window.file
        /\ window'.record = window.record
    BY <1>8, WindowMoves
  <2>2. Nearest' = Nearest /\ IsOpen' = IsOpen
    BY <2>1, NearestStays
  <2>3. \A c \in Pending(calls) : c[1] # "EmitTheta"
    BY <1>1, <1>8, WhoLeaves
  <2>4. ~Corrected(Head(todo))
    <3>1. Head(todo)[1] \in {"setValue", "setMinimum", "setMaximum", "setCurrentIndex", "clear",
            "addItem", "SetIndicator", "plot", "vtk", "ChangeFrequencyIndex", "ChangeChannelIndex",
            "EmitRecord", "EmitAlpha", "EmitBeta", "EmitPhi", "EmitTheta", "ChangeAlpha",
            "ChangeBeta", "ChangeAlphaAndBeta", "FillSelector"}
      BY <1>8 DEF CallForm, IsBoxCall, BoxMoves, BoxCall, ComboCall, IndicatorCall, PlotCall, VtkCall,
           FrequencyCall, ChannelCall, TellCall, DataViewCall, FillCall, Teller, Selections
    <3>2. QED
      BY <3>1 DEF Corrected
  <2>5. QED
    BY <1>1, <2>1, <2>2, <2>3, <2>4, NearestWaits
<1>9. QED
  BY <1>2, <1>3, <1>4, <1>5, <1>6, <1>7, <1>8

\* The calls in front of one that tells theta make only such calls themselves.
LEMMA HarmlessCall ==
  ASSUME VInv, BoxPart, ThetaFits, IsOpen => window.record = Nearest,
         NEW calls, Leaves(calls), CallForm(calls), Harmless(Head(todo))
  PROVE  /\ window'.phi = window.phi /\ window'.theta = window.theta
         /\ window'.record = window.record /\ window'.file = window.file
         /\ \A c \in Pending(calls) : Harmless(c)
<1>0. Head(todo)[1] \in {"setValue", "ChangeTheta", "ChangeRecordIndex", "SetIndicator",
                         "EmitTheta", "vtk"}
  BY DEF Harmless, TellsTheta
<1>1. CASE IsBoxCall(calls)
  <2>1. PICK name \in Spins, s \in [value : Int, min : Int, max : Int] : BoxMoves(name, s, calls)
    BY <1>1 DEF IsBoxCall
  <2>2. /\ Head(todo)[2] = name /\ window' = window
        /\ Head(todo)[1] \in {"setValue", "setMinimum", "setMaximum"}
    BY <2>1 DEF BoxMoves, BoxCall
  <2>3. name = "theta" /\ Head(todo)[1] = "setValue" /\ Head(todo)[3] = window.theta
    BY <2>2 DEF Harmless, TellsTheta
  <2>4. PICK w \in Int, b \in [value : Int, min : Int, max : Int] :
          w = window.theta /\ b = spin["theta"]
    BY DEF VInv, Types, Members, Spins
  <2>5. b.min <= w /\ w <= b.max
    BY <2>4 DEF BoxPart, Ranges, Selections, Angles, ThetaFits, WithinBox
  <2>6. s.value = Bounded(w, b)
    BY <2>1, <2>3, <2>4 DEF BoxMoves, BoxCall
  <2>7. s.value = w
    BY <2>4, <2>5, <2>6 DEF Bounded
  <2>8. \A c \in Pending(calls) : c[1] = "ChangeTheta" /\ c[2] = w
    BY <2>1, <2>3, <2>7, TupleIsSeq DEF BoxMoves, Slot
  <2>9. QED
    BY <2>2, <2>4, <2>8 DEF Harmless
<1>2. CASE calls = <<>> /\ (IndicatorCall \/ PlotCall \/ VtkCall)
  BY <1>2, TupleIsSeq DEF IndicatorCall, PlotCall, VtkCall
<1>3. CASE RecordCall(calls)
  <2>1. Head(todo)[1] = "ChangeRecordIndex"
    BY <1>3 DEF RecordCall
  <2>2. Head(todo)[2] = window.record
    BY <2>1 DEF Harmless, TellsTheta
  <2>3. window' = window /\ calls = <<>>
    BY <1>3, <2>2 DEF RecordCall
  <2>4. QED
    BY <2>3, TupleIsSeq
<1>4. CASE \E name \in Selections : TellCall(name, calls)
  <2>1. PICK name \in Selections : TellCall(name, calls)
    BY <1>4
  <2>2. name = "theta" /\ window' = window
    BY <1>0, <2>1 DEF TellCall, Teller, Selections
  <2>3. PICK box, other : /\ box = <<"setValue", "theta", window.theta>>
                          /\ other = <<"vtk", "theta", window.theta>> /\ calls = <<box, other>>
    BY <2>1, <2>2 DEF TellCall
  <2>4. Harmless(box) /\ Harmless(other)
    BY <2>3 DEF Harmless, TellsTheta
  <2>5. QED
    BY <2>2, <2>3, <2>4, TupleIsSeq
<1>5. CASE ObjectViewCall(calls)
  <2>1. Head(todo)[1] = "ChangeTheta"
    BY <1>0, <1>5 DEF ObjectViewCall
  <2>2. Head(todo)[2] = window.theta
    BY <2>1 DEF Harmless, TellsTheta
  <2>3. /\ window'.phi = window.phi /\ window'.theta = window.theta
        /\ window'.record = window.record /\ window'.file = window.file
    BY <1>5, <2>1, <2>2 DEF ObjectViewCall, Members
  <2>4. Nearest' = Nearest
    BY <2>3, NearestStays
  <2>5. PICK t : t = <<"EmitTheta">>
    OBVIOUS
  <2>6. t[1] = "EmitTheta" /\ IsSeq(<<t>>) /\ Pending(<<t>>) = {t}
        /\ IsSeq(<<>>) /\ Pending(<<>>) = {}
    BY <2>5, TupleIsSeq
  <2>7. Asks(calls, <<>>, <<t>>)
    BY <1>5, <2>1, <2>5 DEF ObjectViewCall
  <2>8. ASSUME NEW c \in Pending(calls) PROVE Harmless(c)
    <3>1. CASE IsOpen
      <4>1. \/ c \in Pending(<<>>) \cup Pending(<<t>>)
            \/ c[1] = "ChangeRecordIndex" /\ c[2] = Nearest'
            \/ c[1] = "SetIndicator"
        BY <2>6, <2>7, AsksAre
      <4>2. QED
        BY <2>4, <2>6, <3>1, <4>1 DEF Harmless
    <3>2. CASE ~IsOpen
      <4>1. calls = (<<>> \o <<>>) \o <<t>>
        BY <2>7, <3>2 DEF Asks
      <4>2. PICK none : none = <<>> \o <<>>
        OBVIOUS
      <4>3. IsSeq(none) /\ Pending(none) = {}
        BY <2>6, <4>2, ConcatIsSeq
      <4>4. Pending(calls) = {t}
        BY <2>6, <4>1, <4>2, <4>3, ConcatIsSeq
      <4>5. QED
        BY <2>6, <4>4 DEF Harmless
    <3>3. QED
      BY <3>1, <3>2
  <2>9. QED
    BY <2>3, <2>8
<1>6. QED
  BY <1>0, <1>1, <1>2, <1>3, <1>4, <1>5 DEF CallForm, ComboCall, FrequencyCall, ChannelCall,
     FollowCall, DataViewCall, OpenCall, LoadCall, FillCall

LEMMA CallKeepsTold ==
  ASSUME VInv, BoxPart, ThetaFits, ThetaIsNearest, ThetaIsTold,
         NEW calls, Leaves(calls), CallForm(calls)
  PROVE  ThetaIsTold'
<1> SUFFICES ASSUME NEW k \in 1 .. Len(todo'), NEW told, told = todo'[k], TellsTheta(told)
             PROVE  Settled(k)'
  BY DEF ThetaIsTold, TellsTheta
<1>1. IsSeq(todo) /\ IsSeq(calls) /\ todo # <<>>
  BY DEF VInv, Leaves
<1>2. PICK n \in Nat, m \in Nat \ {0} :
        /\ n = Len(calls) /\ m = Len(todo) /\ Len(todo') = n + m - 1 /\ Head(todo) = todo[1]
        /\ \A i \in 1 .. n : todo'[i] = calls[i]
        /\ \A i \in 2 .. m : todo'[n + i - 1] = todo[i]
        /\ \A j \in 1 .. Len(todo') : j \in 1 .. n \/ \E i \in 2 .. m : j = n + i - 1
  BY <1>1, Positions
<1>3. CASE k \in 1 .. n
  <2>1. told \in Pending(calls) /\ told = calls[k]
    BY <1>2, <1>3 DEF Pending
  <2>2. TellCall("theta", calls)
    BY <1>1, <2>1, WhoLeaves DEF TellsTheta
  <2>3. PICK box, other : /\ box = <<"setValue", "theta", window.theta>>
                          /\ other = <<"vtk", "theta", window.theta>> /\ calls = <<box, other>>
    BY <2>2 DEF TellCall
  <2>4. /\ box[1] = "setValue" /\ box[2] = "theta" /\ box[3] = window.theta
        /\ other[3] = window.theta
    BY <2>3
  <2>5. n = 2 /\ calls[1] = box /\ calls[2] = other
    BY <1>2, <2>3
  <2>6. k = 2 /\ told = other
    <3>1. k = 1 \/ k = 2
      BY <1>3, <2>5
    <3>2. QED
      BY <2>1, <2>4, <2>5, <3>1 DEF TellsTheta
  <2>7. window' = window /\ Head(todo)[1] = "EmitTheta"
    BY <2>2 DEF TellCall, Teller
  <2>8. IsOpen => window.record = Nearest
    <3>1. ASSUME NEW j \in 1 .. m PROVE 1 \in 1 .. j /\ todo[1][1] = "EmitTheta"
      BY <1>2, <2>7
    <3>2. ~CorrectedFirst
      BY <1>2, <3>1 DEF CorrectedFirst
    <3>3. QED
      BY <3>2 DEF ThetaIsNearest
  <2>9. (IsOpen => window.record = Nearest)'
    BY <2>7, <2>8, NearestStays
  <2>10. ASSUME NEW l \in 1 .. k - 1 PROVE Harmless(todo[l])'
    <3>1. l = 1
      BY <2>6
    <3>2. todo'[l] = box
      BY <1>2, <2>5, <3>1
    <3>3. QED
      BY <2>4, <2>7, <3>2 DEF Harmless
  <2>11. todo'[k][3] = window'.theta
    BY <2>4, <2>6, <2>7
  <2>12. QED
    BY <2>9, <2>10, <2>11 DEF Settled
<1>4. CASE k \notin 1 .. n
  <2>1. PICK i \in 2 .. m : k = n + i - 1
    BY <1>2, <1>4
  <2>2. told = todo[i] /\ i \in 1 .. m
    BY <1>2, <2>1
  <2>3. Settled(i)
    BY <1>2, <2>2 DEF ThetaIsTold
  <2>4. /\ told[3] = window.theta /\ (IsOpen => window.record = Nearest)
        /\ \A l \in 1 .. i - 1 : Harmless(todo[l])
    BY <2>2, <2>3 DEF Settled
  <2>5. Harmless(Head(todo))
    <3>1. 1 \in 1 .. i - 1
      BY <1>2, <2>1
    <3>2. QED
      BY <1>2, <2>4, <3>1
  <2>6. /\ window'.phi = window.phi /\ window'.theta = window.theta
        /\ window'.record = window.record /\ window'.file = window.file
        /\ \A c \in Pending(calls) : Harmless(c)
    BY <2>4, <2>5, HarmlessCall
  <2>7. (IsOpen => window.record = Nearest)'
    BY <2>4, <2>6, NearestStays
  <2>8. ASSUME NEW l \in 1 .. k - 1 PROVE Harmless(todo[l])'
    <3>1. l \in 1 .. Len(todo') /\ k \in Nat
      BY <1>2, <2>1
    <3>2. PICK c : c = todo'[l]
      OBVIOUS
    <3>3. Harmless(c)
      <4>1. CASE l \in 1 .. n
        <5>1. c \in Pending(calls)
          BY <1>2, <3>2, <4>1 DEF Pending
        <5>2. QED
          BY <2>6, <5>1
      <4>2. CASE l \notin 1 .. n
        <5>1. PICK j \in 2 .. m : l = n + j - 1
          BY <1>2, <3>1, <4>2
        <5>2. j \in 1 .. i - 1
          BY <1>2, <2>1, <5>1
        <5>3. QED
          BY <1>2, <2>4, <3>2, <5>1, <5>2
      <4>3. QED
        BY <4>1, <4>2
    <3>4. QED
      BY <2>6, <3>2, <3>3 DEF Harmless, TellsTheta
  <2>9. QED
    BY <2>4, <2>6, <2>7, <2>8 DEF Settled
<1>5. QED
  BY <1>3, <1>4

LEMMA CallKeepsShown ==
  ASSUME VInv, ThetaIsTold, ThetaIsShown, NEW calls, Leaves(calls), CallForm(calls)
  PROVE  ThetaIsShown'
<1>1. IsSeq(todo) /\ IsSeq(calls) /\ todo # <<>> /\ Pending(todo') = Pending(calls) \cup Pending(Tail(todo))
      /\ \A c \in Pending(todo) : c = Head(todo) \/ c \in Pending(todo')
  BY LeftPending DEF VInv, Leaves
<1>2. ASSUME \E c \in Pending(todo') : c[1] = "EmitTheta" \/ TellsTheta(c) PROVE ThetaIsShown'
  BY <1>2 DEF ThetaIsShown, TellsTheta
<1>3. ASSUME NEW c \in Pending(todo), c # Head(todo), c[1] = "EmitTheta" \/ TellsTheta(c)
      PROVE  ThetaIsShown'
  BY <1>1, <1>2, <1>3
<1>4. CASE ObjectViewCall(calls)
  <2>1. CASE Head(todo)[1] # "ChangePhi"
    BY <1>1, <1>2, <1>4, <2>1, ObjectViewLeaves
  <2>2. CASE Head(todo)[1] = "ChangePhi"
    <3>1. window'.theta = window.theta /\ vtk' = vtk
      BY <1>4, <2>2 DEF ObjectViewCall
    <3>2. ~(Head(todo)[1] = "EmitTheta" \/ TellsTheta(Head(todo)))
      BY <2>2 DEF TellsTheta
    <3>3. CASE vtk.theta = window.theta
      BY <3>1, <3>3 DEF ThetaIsShown
    <3>4. QED
      BY <1>3, <3>2, <3>3 DEF ThetaIsShown
  <2>3. QED
    BY <2>1, <2>2
<1>5. CASE VtkCall
  <2>1. window' = window /\ "theta" \in DOMAIN vtk /\ Kept("theta")
    BY <1>5 DEF VtkCall, VInv, Types, Kept
  <2>2. CASE Head(todo)[2] = "theta"
    <3>1. TellsTheta(Head(todo))
      BY <1>5, <2>2 DEF VtkCall, TellsTheta
    <3>2. PICK S : todo \in Seq(S)
      BY <1>1 DEF IsSeq
    <3>3. 1 \in 1 .. Len(todo) /\ Head(todo) = todo[1]
      BY <1>1, <3>2
    <3>4. Head(todo)[3] = window.theta
      BY <3>1, <3>3 DEF ThetaIsTold, Settled
    <3>5. vtk'.theta = window.theta
      BY <1>5, <2>1, <2>2, <3>4 DEF VtkCall
    <3>6. QED
      BY <2>1, <3>5 DEF ThetaIsShown
  <2>3. CASE Head(todo)[2] # "theta"
    <3>1. vtk'.theta = vtk.theta
      BY <1>5, <2>1, <2>3 DEF VtkCall
    <3>2. ~(Head(todo)[1] = "EmitTheta" \/ TellsTheta(Head(todo)))
      BY <1>5, <2>3 DEF VtkCall, TellsTheta
    <3>3. CASE vtk.theta = window.theta
      BY <2>1, <3>1, <3>3 DEF ThetaIsShown
    <3>4. QED
      BY <1>3, <3>2, <3>3 DEF ThetaIsShown
  <2>4. QED
    BY <2>2, <2>3
<1>6. CASE ~ObjectViewCall(calls) /\ ~VtkCall
  <2>1. window'.theta = window.theta /\ vtk'.theta = vtk.theta
    BY <1>6, WindowMoves
  <2>2. CASE vtk.theta = window.theta
    BY <2>1, <2>2 DEF ThetaIsShown
  <2>3. CASE Head(todo)[1] = "EmitTheta"
    <3>1. PICK name \in Selections : TellCall(name, calls)
      BY <1>6, <2>3 DEF CallForm, IsBoxCall, BoxMoves, BoxCall, ComboCall, IndicatorCall, PlotCall,
         FrequencyCall, ChannelCall, RecordCall, FollowCall, DataViewCall, OpenCall, LoadCall,
         FillCall
    <3>2. name = "theta"
      BY <2>3, <3>1 DEF TellCall, Teller, Selections
    <3>3. PICK box, other : /\ calls = <<box, other>> /\ other = <<"vtk", "theta", window.theta>>
      BY <3>1, <3>2 DEF TellCall
    <3>4. other \in Pending(calls) /\ TellsTheta(other)
      BY <3>3, TupleIsSeq DEF TellsTheta
    <3>5. QED
      BY <1>1, <1>2, <3>4
  <2>4. CASE TellsTheta(Head(todo))
    <3>1. Head(todo)[1] = "vtk"
      BY <2>4 DEF TellsTheta
    <3>2. FALSE
      BY <1>6, <3>1 DEF CallForm, IsBoxCall, BoxMoves, BoxCall, ComboCall, IndicatorCall, PlotCall,
         FrequencyCall, ChannelCall, RecordCall, FollowCall, DataViewCall, OpenCall, LoadCall,
         FillCall, TellCall, Teller, Selections
    <3>3. QED
      BY <3>2
  <2>5. QED
    BY <1>3, <2>2, <2>3, <2>4 DEF ThetaIsShown
<1>7. QED
  BY <1>4, <1>5, <1>6

LEMMA CallKeepsTheta ==
  ASSUME VInv, BoxPart, ThetaPart, NEW calls, Leaves(calls), CallForm(calls)
  PROVE  ThetaPart'
<1>1. IsSeq(todo)
  BY DEF VInv
<1>2. FollowsAndTells'
  BY <1>1, CallKeepsFollowing DEF ThetaPart
<1>3. ThetaFits'
  BY CallKeepsThetaFitting DEF ThetaPart
<1>4. ThetaIsTold'
  BY CallKeepsTold DEF ThetaPart
<1>5. ThetaIsShown'
  BY CallKeepsShown DEF ThetaPart
<1>6. ThetaIsNearest'
  BY CallKeepsNearest DEF ThetaPart
<1>7. QED
  BY <1>2, <1>3, <1>4, <1>5, <1>6 DEF ThetaPart

\* Nothing that theta depends on waits.
NoTheta(c) ==
  /\ c[1] \notin {"FollowInObjectView", "EmitTheta"} /\ ~TellsTheta(c)
  /\ FitsTheta(c)
LEMMA ThetaRests ==
  ASSUME \A c \in Pending(todo') : NoTheta(c),
         WithinBox("theta", window'.theta), vtk'.theta = window'.theta,
         window'.file # NoFile => window'.record = Nearest'
  PROVE  ThetaPart'
<1>1. ASSUME NEW k \in 1 .. Len(todo')
      PROVE  todo'[k] \in Pending(todo') /\ NoTheta(todo'[k])
  BY DEF Pending
<1>2. FollowsAndTells'
  BY <1>1 DEF FollowsAndTells, NoTheta
<1>3. ThetaFits'
  BY DEF ThetaFits, NoTheta, FitsTheta, WithinBox
<1>4. ThetaIsTold'
  BY <1>1 DEF ThetaIsTold, NoTheta, TellsTheta
<1>5. ThetaIsShown'
  BY DEF ThetaIsShown
<1>6. ThetaIsNearest'
  BY DEF ThetaIsNearest, IsOpen
<1>7. QED
  BY <1>2, <1>3, <1>4, <1>5, <1>6 DEF ThetaPart

LEMMA ThetaAtRest ==
  ASSUME VInv, ThetaPart, Quiet
  PROVE  /\ Pending(todo) = {} /\ WithinBox("theta", window.theta)
         /\ vtk.theta = window.theta /\ (IsOpen => window.record = Nearest)
<1>1. Pending(todo) = {}
  BY AtRest
<1>2. ~CorrectedFirst
  BY <1>1 DEF CorrectedFirst, Pending
<1>3. QED
  BY <1>1, <1>2 DEF ThetaPart, ThetaFits, ThetaIsShown, ThetaIsNearest

LEMMA UserKeepsTheta ==
  ASSUME VInv, ThetaPart, User
  PROVE  ThetaPart'
<1>1. CASE CloseStep
  <2>1. todo' = todo /\ window'.theta = window.theta /\ vtk'.theta = vtk.theta
        /\ window'.file = NoFile
    BY <1>1 DEF CloseStep, Members
  <2>2. Pending(todo') = {} /\ WithinBox("theta", window.theta) /\ vtk.theta = window.theta
    BY <1>1, <2>1, ThetaAtRest DEF CloseStep
  <2>3. QED
    BY <2>1, <2>2, ThetaRests
<1>2. ASSUME Quietly, window'.file = window.file, window'.record = window.record,
             window'.phi = window.phi, window'.theta = window.theta,
             \A c \in Pending(todo') : NoTheta(c)
      PROVE  ThetaPart'
  <2>1. vtk' = vtk /\ Quiet
    BY <1>2 DEF Quietly
  <2>2. /\ WithinBox("theta", window.theta) /\ vtk.theta = window.theta
        /\ IsOpen => window.record = Nearest
    BY <2>1, ThetaAtRest
  <2>3. Nearest' = Nearest /\ IsOpen' = IsOpen
    BY <1>2, NearestStays
  <2>4. window'.file # NoFile => window'.record = Nearest'
    BY <1>2, <2>2, <2>3 DEF IsOpen
  <2>5. WithinBox("theta", window'.theta) /\ vtk'.theta = window'.theta
    BY <1>2, <2>1, <2>2
  <2>6. QED
    BY <1>2, <2>4, <2>5, ThetaRests
<1>3. CASE \E c : OneCall(c)
  <2>1. PICK c : OneCall(c)
    BY <1>3
  <2>2. Pending(todo') = {c}
    BY <2>1, TupleIsSeq DEF OneCall
  <2>3. NoTheta(c)
    BY <2>1 DEF OneCall, Asked, NoTheta, TellsTheta, FitsTheta
  <2>4. QED
    BY <1>2, <2>1, <2>2, <2>3 DEF OneCall
<1>4. CASE \E v \in Int : FrequencyStep(v)
  <2>1. PICK v \in Int : FrequencyStep(v)
    BY <1>4
  <2>told. PICK p, q, r, s, t : TellFrequency(EmitFrequency(v), v, p, q, r, s, t)
    BY FrequencyBlock, Zenon
  <2>2. /\ EmitFrequency(v) = <<p, q, r, s, t>> /\ Pending(<<p, q, r, s, t>>) = {p, q, r, s, t}
        /\ p[1] = "vtk" /\ p[2] = "frequency"
        /\ q[1] = "setValue" /\ r[1] = "setCurrentIndex" /\ s[1] = "vtk" /\ s[2] = "frequency"
        /\ t[1] = "plot"
    BY <2>told DEF TellFrequency
  <2>3. Pending(todo') = {p, q, r, s, t}
    BY <2>1, <2>2 DEF FrequencyStep
  <2>4. \A c \in Pending(todo') : NoTheta(c)
    BY <2>2, <2>3 DEF NoTheta, TellsTheta, FitsTheta
  <2>5. QED
    BY <1>2, <2>1, <2>4 DEF FrequencyStep, Members
<1>5. CASE \E v \in Int : ChannelStep(v)
  <2>1. PICK v \in Int : ChannelStep(v)
    BY <1>5
  <2>2. \A c \in Pending(todo') : c[1] \in {"setValue", "vtk", "plot"} /\ c[2] = "channel"
    BY <2>1, ChannelTellings DEF ChannelStep
  <2>3. \A c \in Pending(todo') : NoTheta(c)
    BY <2>2 DEF NoTheta, TellsTheta, FitsTheta
  <2>4. QED
    BY <1>2, <2>1, <2>3 DEF ChannelStep, Members
<1>6. QED
  BY <1>1, <1>3, <1>4, <1>5, UserIs

LEMMA InitTheta == ASSUME Init PROVE ThetaPart
<1>1. /\ window.file = NoFile /\ window.theta = 0
      /\ \A c \in Pending(todo) : c[1] = "OpenDAFFFile" \/ (c[1] = "ChangePhiAndTheta" /\ c[3] = 0)
  BY InitIs
<1>2. vtk.theta = 0
  BY DEF Init
<1>3. ASSUME NEW k \in 1 .. Len(todo)
      PROVE  todo[k][1] \in {"OpenDAFFFile", "ChangePhiAndTheta"}
  BY <1>1 DEF Pending
<1>4. FollowsAndTells /\ ThetaIsTold
  BY <1>3 DEF FollowsAndTells, ThetaIsTold, TellsTheta
<1>5. ThetaFits
  BY <1>1, FrontFits DEF ThetaFits, FitsTheta
<1>6. ThetaIsShown /\ ThetaIsNearest
  BY <1>1, <1>2 DEF ThetaIsShown, ThetaIsNearest, IsOpen
<1>7. QED
  BY <1>4, <1>5, <1>6 DEF ThetaPart

-----------------------------------------------------------------------------
(* The frequency: its box, its selector and the two plots.                 *)

LEMMA SameLate ==
  ASSUME VInv, NEW calls, Leaves(calls), ~LateCall(Head(todo)),
         \A c \in Pending(calls) : ~LateCall(c)
  PROVE  /\ \A c : LateCall(c) => (c \in Pending(todo') <=> c \in Pending(todo))
         /\ ~IsNext("addItem") /\ ~IsNext("LoadContent")
         /\ ~IsNext("addItem")' /\ ~IsNext("LoadContent")'
<1>1. IsSeq(todo) /\ IsSeq(todo') /\ todo # <<>> /\ Ordered(todo)
      /\ Pending(todo') = Pending(calls) \cup Pending(Tail(todo))
      /\ Pending(todo) = {Head(todo)} \cup Pending(Tail(todo))
  BY LeftPending DEF VInv, Leaves
<1>2. \A c : LateCall(c) => (c \in Pending(todo') <=> c \in Pending(todo))
  BY <1>1
<1>3. ~IsNext("addItem") /\ ~IsNext("LoadContent")
  BY DEF IsNext, LateCall
<1>4. \A d \in Pending(Tail(todo)) : ~IsFirst(d)
  BY <1>1, TailOrdered DEF Before
<1>5. \A c \in Pending(todo') : c[1] \notin {"addItem", "LoadContent"}
  BY <1>1, <1>4 DEF LateCall, IsFirst, Begins
<1>6. todo' # <<>> => Head(todo') \in Pending(todo')
  BY <1>1, TailIsSeq
<1>7. ~IsNext("addItem")' /\ ~IsNext("LoadContent")'
  BY <1>5, <1>6 DEF IsNext
<1>8. QED
  BY <1>2, <1>3, <1>7

LEMMA SteadyKeeps ==
  ASSUME VInv, NEW calls, Steady(calls)
  PROVE  /\ Waits("clear")' = Waits("clear") /\ Waits("FillSelector")' = Waits("FillSelector")
         /\ Loading' = Loading /\ (LatePart => LatePart')
         /\ \A v : Item(v)' = Item(v) /\ InBox(v)' = InBox(v) /\ Good(v)' = Good(v)
         /\ \A c : Later(c)' = Later(c)
<1>1. /\ \A c : LateCall(c) => (c \in Pending(todo') <=> c \in Pending(todo))
      /\ ~IsNext("addItem") /\ ~IsNext("LoadContent")
      /\ ~IsNext("addItem")' /\ ~IsNext("LoadContent")'
  BY SameLate DEF Steady
<1>2. Waits("clear")' = Waits("clear") /\ Waits("FillSelector")' = Waits("FillSelector")
  BY <1>1 DEF Waits, LateCall
<1>3. (\E c \in Pending(todo) : Fills(c))' = (\E c \in Pending(todo) : Fills(c))
  BY <1>1 DEF Fills, LateCall
<1>4. combo'.count = combo.count /\ spin'["frequency"].max = spin["frequency"].max
  BY DEF Steady
<1>5. Loading' = Loading
  BY <1>1, <1>2, <1>3, <1>4 DEF Loading
<1>6. \A v : Item(v)' = Item(v) /\ InBox(v)' = InBox(v)
  BY <1>4 DEF Item, InBox
<1>7. \A v : Good(v)' = Good(v)
  BY <1>2, <1>5, <1>6 DEF Good
<1>8. \A c : Later(c)' = Later(c)
  BY <1>1, <1>2, <1>4, <1>5, <1>6 DEF Later, OnFrequency
<1>9. LatePart => LatePart'
  BY <1>1, <1>2, <1>3, <1>4 DEF LatePart, LateCall, SetsRange
<1>10. QED
  BY <1>2, <1>5, <1>6, <1>7, <1>8, <1>9

LEMMA FreeForm ==
  ASSUME Free', IsSeq(todo')
  PROVE  Form'
<1>1. Len(todo') \in Nat
  <2>1. PICK S : todo' \in Seq(S)
    BY DEF IsSeq
  <2>2. QED
    BY <2>1
<1>2. \A l \in 1 .. Len(todo') : Later(todo[l])'
  <2>1. ASSUME NEW l \in 1 .. Len(todo'), NEW c, c = todo'[l] PROVE Later(todo[l])'
    <3>1. Later(c)'
      BY <2>1 DEF Free, Pending
    <3>2. QED
      BY <2>1, <3>1 DEF Later, OnFrequency, Item
  <2>2. QED
    BY <2>1
<1>3. Adjacent'
  BY <1>2 DEF Adjacent, Later, OnFrequency
<1>4. PICK v : v = Aim'
  OBVIOUS
<1>5. 0 \in 0 .. Len(todo') /\ FrontIs(0, v)'
  BY <1>1, <1>2 DEF FrontIs
<1>6. (Loading \/ Changing \/ IndexShows \/ Selecting(0))'
  BY DEF Free
<1>7. DirectForm'
  BY <1>4, <1>5, <1>6 DEF DirectForm
<1>8. QED
  BY <1>3, <1>7 DEF Form

\* A call of another kind runs only when no call of a frequency waits.
LEMMA HeadFree ==
  ASSUME IsSeq(todo), todo # <<>>, Form, ~OnFrequency(Head(todo)),
         Head(todo)[1] # "setCurrentIndex"
  PROVE  Free /\ ~Changing
<1>1. PICK S : todo \in Seq(S)
  BY DEF IsSeq
<1>2. Len(todo) \in Nat \ {0} /\ Head(todo) = todo[1]
  BY <1>1
<1>3. ~TypedForm
  <2>1. ASSUME NEW c, todo = <<c>> PROVE Head(todo) = c
    BY <2>1
  <2>2. QED
    BY <2>1 DEF TypedForm, OnFrequency
<1>4. ASSUME NEW v PROVE ~Of(Head(todo), v)
  BY DEF Of, OnFrequency
<1>5. ~RestoredForm
  <2>1. SUFFICES ASSUME RestoredForm PROVE FALSE
    OBVIOUS
  <2>2. PICK p, n, u, v : n \in 1 .. Len(todo) /\ p \in 1 .. n /\ SplitIs(p, n, u, v)
    BY <2>1 DEF RestoredForm
  <2>3. CASE p = 1
    BY <1>2, <2>2, <2>3 DEF SplitIs
  <2>4. CASE p # 1
    <3>1. 1 \in 1 .. p - 1
      BY <1>2, <2>2, <2>4
    <3>2. QED
      BY <1>2, <1>4, <2>2, <3>1 DEF SplitIs
  <2>5. QED
    BY <2>3, <2>4
<1>6. PICK n, v : /\ n \in 0 .. Len(todo) /\ FrontIs(n, v)
                  /\ Loading \/ Changing \/ IndexShows \/ Selecting(n)
  BY <1>3, <1>5 DEF Form, DirectForm
<1>7. n = 0
  <2>1. SUFFICES ASSUME n # 0 PROVE FALSE
    OBVIOUS
  <2>2. 1 \in 1 .. n
    BY <1>2, <1>6, <2>1
  <2>3. QED
    BY <1>2, <1>4, <1>6, <2>2 DEF FrontIs
<1>8. ~Changing
  BY DEF Changing, IsNext, OnFrequency
<1>9. \A c \in Pending(todo) : Later(c)
  BY <1>2, <1>6, <1>7 DEF FrontIs, Pending
<1>10. ~Selecting(n)
  BY <1>7 DEF Selecting
<1>11. QED
  BY <1>6, <1>8, <1>9, <1>10 DEF Free

\* The head of the front is replaced by calls of the same frequency.
LEMMA FrontShifts ==
  ASSUME VInv, NEW calls, Steady(calls), NEW v, NEW n \in 1 .. Len(todo), FrontIs(n, v),
         \A c \in Pending(calls) : Of(c, v)
  PROVE  \E k : /\ k \in 0 .. Len(todo') /\ FrontIs(k, v)'
                /\ (\/ Selecting(n) /\ Head(todo)[1] # "setCurrentIndex"
                    \/ \E c \in Pending(calls) : c[1] = "setCurrentIndex")
                   => Selecting(k)'
<1>1. PICK N \in Nat, m \in Nat \ {0} :
        /\ N = Len(calls) /\ m = Len(todo) /\ Len(todo') = N + m - 1 /\ Head(todo) = todo[1]
        /\ \A i \in 1 .. N : todo'[i] = calls[i]
        /\ \A i \in 2 .. m : todo'[N + i - 1] = todo[i]
        /\ \A j \in 1 .. Len(todo') : j \in 1 .. N \/ \E i \in 2 .. m : j = N + i - 1
  BY Positions DEF VInv, Steady
<1>2. PICK k \in Nat : k = N + n - 1 /\ k \in 0 .. N + m - 1
  <2>1. N + n - 1 \in Nat /\ N + n - 1 \in 0 .. N + m - 1
    BY <1>1
  <2>2. QED
    BY <2>1
<1>3. \A c : Later(c)' = Later(c)
  BY SteadyKeeps
<1>4. ASSUME NEW l \in 1 .. k PROVE Of(todo[l], v)'
  <2>1. PICK c : c = todo'[l]
    OBVIOUS
  <2>2. Of(c, v)
    <3>1. CASE l \in 1 .. N
      <4>1. c \in Pending(calls)
        BY <1>1, <2>1, <3>1 DEF Pending
      <4>2. QED
        BY <4>1
    <3>2. CASE l \notin 1 .. N
      <4>1. l \in 1 .. Len(todo')
        BY <1>1, <1>2
      <4>2. PICK i \in 2 .. m : l = N + i - 1
        BY <1>1, <3>2, <4>1
      <4>3. i \in 1 .. n
        BY <1>1, <1>2, <4>2
      <4>4. QED
        BY <1>1, <2>1, <4>2, <4>3 DEF FrontIs
    <3>3. QED
      BY <3>1, <3>2
  <2>3. QED
    BY <2>1, <2>2 DEF Of
<1>5. ASSUME NEW l \in k + 1 .. Len(todo') PROVE Later(todo[l])'
  <2>1. PICK c : c = todo'[l]
    OBVIOUS
  <2>2. l \in 1 .. Len(todo') /\ l \notin 1 .. N
    BY <1>1, <1>2
  <2>3. PICK i \in 2 .. m : l = N + i - 1
    BY <1>1, <2>2
  <2>4. i \in n + 1 .. m
    BY <1>1, <1>2, <2>3
  <2>5. Later(c)
    BY <1>1, <2>1, <2>3, <2>4 DEF FrontIs
  <2>6. Later(c)'
    BY <1>3, <2>5
  <2>7. QED
    BY <2>1, <2>6 DEF Later, OnFrequency, Item
<1>6. ASSUME Selecting(n), Head(todo)[1] # "setCurrentIndex" PROVE Selecting(k)'
  <2>1. PICK l \in 1 .. n : todo[l][1] = "setCurrentIndex"
    BY <1>6 DEF Selecting
  <2>2. l \in 2 .. m /\ N + l - 1 \in 1 .. k
    <3>1. l # 1
      BY <1>1, <1>6, <2>1
    <3>2. QED
      BY <1>1, <1>2, <3>1
  <2>3. QED
    BY <1>1, <2>1, <2>2 DEF Selecting
<1>7. ASSUME NEW c \in Pending(calls), c[1] = "setCurrentIndex" PROVE Selecting(k)'
  <2>1. PICK l \in 1 .. N : c = calls[l]
    BY <1>1 DEF Pending
  <2>2. l \in 1 .. k
    BY <1>1, <1>2, <2>1
  <2>3. QED
    BY <1>1, <1>7, <2>1, <2>2 DEF Selecting
<1>8. QED
  BY <1>1, <1>2, <1>4, <1>5, <1>6, <1>7 DEF FrontIs

\* The same while the box holds back the frequency of the selector.
LEMMA SplitShifts ==
  ASSUME VInv, NEW calls, Steady(calls), NEW u, NEW v, NEW n \in 1 .. Len(todo),
         NEW p \in 2 .. n, SplitIs(p, n, u, v), \A c \in Pending(calls) : Of(c, u)
  PROVE  \E k, q : /\ k \in 1 .. Len(todo') /\ q \in 1 .. k /\ SplitIs(q, k, u, v)'
                   /\ (\/ Selecting(p - 1) /\ Head(todo)[1] # "setCurrentIndex"
                       \/ \E c \in Pending(calls) : c[1] = "setCurrentIndex")
                      => Selecting(q - 1)'
<1>1. PICK N \in Nat, m \in Nat \ {0} :
        /\ N = Len(calls) /\ m = Len(todo) /\ Len(todo') = N + m - 1 /\ Head(todo) = todo[1]
        /\ \A i \in 1 .. N : todo'[i] = calls[i]
        /\ \A i \in 2 .. m : todo'[N + i - 1] = todo[i]
        /\ \A j \in 1 .. Len(todo') : j \in 1 .. N \/ \E i \in 2 .. m : j = N + i - 1
  BY Positions DEF VInv, Steady
<1>2. PICK k, q \in Nat : /\ k = N + n - 1 /\ k \in 1 .. N + m - 1
                          /\ q = N + p - 1 /\ q \in 1 .. k /\ q - 1 = N + p - 2
  <2>1. /\ N + n - 1 \in Nat /\ N + n - 1 \in 1 .. N + m - 1
        /\ N + p - 1 \in Nat /\ N + p - 1 \in 1 .. N + n - 1 /\ (N + p - 1) - 1 = N + p - 2
    BY <1>1
  <2>2. QED
    BY <2>1
<1>3. \A c : Later(c)' = Later(c)
  BY SteadyKeeps
<1>4. ASSUME NEW l \in 1 .. q - 1 PROVE Of(todo[l], u)'
  <2>1. PICK c : c = todo'[l]
    OBVIOUS
  <2>2. Of(c, u)
    <3>1. CASE l \in 1 .. N
      <4>1. c \in Pending(calls)
        BY <1>1, <2>1, <3>1 DEF Pending
      <4>2. QED
        BY <4>1
    <3>2. CASE l \notin 1 .. N
      <4>1. l \in 1 .. Len(todo')
        BY <1>1, <1>2
      <4>2. PICK i \in 2 .. m : l = N + i - 1
        BY <1>1, <3>2, <4>1
      <4>3. i \in 1 .. p - 1
        BY <1>1, <1>2, <4>2
      <4>4. QED
        BY <1>1, <2>1, <4>2, <4>3 DEF SplitIs
    <3>3. QED
      BY <3>1, <3>2
  <2>3. QED
    BY <2>1, <2>2 DEF Of
<1>5. (todo[q][1] = "setCurrentIndex" /\ todo[q][2] = v)'
  <2>1. p \in 2 .. m /\ todo'[q] = todo[p]
    BY <1>1, <1>2
  <2>2. QED
    BY <2>1 DEF SplitIs
<1>6. ASSUME NEW l \in q + 1 .. k PROVE Of(todo[l], v)'
  <2>1. PICK c : c = todo'[l]
    OBVIOUS
  <2>2. l \in 1 .. Len(todo') /\ l \notin 1 .. N
    BY <1>1, <1>2
  <2>3. PICK i \in 2 .. m : l = N + i - 1
    BY <1>1, <2>2
  <2>4. i \in p + 1 .. n
    BY <1>1, <1>2, <2>3
  <2>5. Of(c, v)
    BY <1>1, <2>1, <2>3, <2>4 DEF SplitIs
  <2>6. QED
    BY <2>1, <2>5 DEF Of
<1>7. ASSUME NEW l \in k + 1 .. Len(todo') PROVE Later(todo[l])'
  <2>1. PICK c : c = todo'[l]
    OBVIOUS
  <2>2. l \in 1 .. Len(todo') /\ l \notin 1 .. N
    BY <1>1, <1>2
  <2>3. PICK i \in 2 .. m : l = N + i - 1
    BY <1>1, <2>2
  <2>4. i \in n + 1 .. m
    BY <1>1, <1>2, <2>3
  <2>5. Later(c)
    BY <1>1, <2>1, <2>3, <2>4 DEF SplitIs
  <2>6. Later(c)'
    BY <1>3, <2>5
  <2>7. QED
    BY <2>1, <2>6 DEF Later, OnFrequency, Item
<1>8. ASSUME Selecting(p - 1), Head(todo)[1] # "setCurrentIndex" PROVE Selecting(q - 1)'
  <2>1. PICK l \in 1 .. p - 1 : todo[l][1] = "setCurrentIndex"
    BY <1>8 DEF Selecting
  <2>2. l \in 2 .. m /\ N + l - 1 \in 1 .. q - 1
    <3>1. l # 1
      BY <1>1, <1>8, <2>1
    <3>2. QED
      BY <1>1, <1>2, <3>1
  <2>3. QED
    BY <1>1, <2>1, <2>2 DEF Selecting
<1>9. ASSUME NEW c \in Pending(calls), c[1] = "setCurrentIndex" PROVE Selecting(q - 1)'
  <2>1. PICK l \in 1 .. N : c = calls[l]
    BY <1>1 DEF Pending
  <2>2. l \in 1 .. q - 1
    BY <1>1, <1>2, <2>1
  <2>3. QED
    BY <1>1, <1>9, <2>1, <2>2 DEF Selecting
<1>10. SplitIs(q, k, u, v)'
  BY <1>4, <1>5, <1>6, <1>7 DEF SplitIs
<1>11. QED
  BY <1>1, <1>2, <1>8, <1>9, <1>10, Zenon

\* What the front is about, when its first call has run.
LEMMA FrontAim ==
  ASSUME IsSeq(todo'), NEW k, NEW v, k \in 0 .. Len(todo'), FrontIs(k, v)',
         window'.frequency = v \/ Changing'
  PROVE  Aim' = v
<1>1. CASE ~Changing'
  BY <1>1 DEF Aim
<1>2. CASE Changing'
  <2>1. PICK c : c = Head(todo') /\ c[1] = "ChangeFrequencyIndex" /\ c[2] # -1 /\ todo' # <<>>
    BY <1>2 DEF Changing, IsNext
  <2>2. PICK S : todo' \in Seq(S)
    BY DEF IsSeq
  <2>3. Len(todo') \in Nat \ {0} /\ c = todo'[1]
    BY <2>1, <2>2
  <2>4. ~Later(todo[1])'
    BY <2>1, <2>3 DEF Later, OnFrequency
  <2>5. k # 0
    BY <2>3, <2>4 DEF FrontIs
  <2>6. Of(todo[1], v)'
    BY <2>3, <2>5 DEF FrontIs
  <2>7. c[2] = v
    BY <2>1, <2>3, <2>6 DEF Of
  <2>8. QED
    BY <1>2, <2>1, <2>7 DEF Aim
<1>3. QED
  BY <1>1, <1>2

LEMMA SplitAim ==
  ASSUME IsSeq(todo'), NEW k, NEW q, NEW u, NEW v, k \in 1 .. Len(todo'), q \in 1 .. k,
         SplitIs(q, k, u, v)', window'.frequency = u \/ Changing'
  PROVE  Aim' = u
<1>1. CASE ~Changing'
  BY <1>1 DEF Aim
<1>2. CASE Changing'
  <2>1. PICK c : c = Head(todo') /\ c[1] = "ChangeFrequencyIndex" /\ c[2] # -1 /\ todo' # <<>>
    BY <1>2 DEF Changing, IsNext
  <2>2. PICK S : todo' \in Seq(S)
    BY DEF IsSeq
  <2>3. Len(todo') \in Nat \ {0} /\ c = todo'[1]
    BY <2>1, <2>2
  <2>4. q # 1
    BY <2>1, <2>3 DEF SplitIs
  <2>5. 1 \in 1 .. q - 1
    BY <2>3, <2>4
  <2>6. Of(todo[1], u)'
    BY <2>5 DEF SplitIs
  <2>7. c[2] = u
    BY <2>1, <2>3, <2>6 DEF Of
  <2>8. QED
    BY <1>2, <2>1, <2>7 DEF Aim
<1>3. QED
  BY <1>1, <1>2

LEMMA FreeIs ==
  ASSUME IsSeq(todo), Free, FrequencyPart, IsOpen
  PROVE  ~Changing /\ Aim = window.frequency /\ (Loading \/ Rested)
<1>1. ~Changing
  <2>1. SUFFICES ASSUME Changing PROVE FALSE
    OBVIOUS
  <2>2. Head(todo) \in Pending(todo) /\ OnFrequency(Head(todo))
    BY <2>1, TailIsSeq DEF Changing, IsNext, OnFrequency
  <2>3. QED
    BY <2>2 DEF Free, Later
<1>2. Aim = window.frequency
  BY <1>1 DEF Aim
<1>3. ASSUME NEW name, name \in {"plot", "vtk", "setValue"} PROVE ~Tells(name)
  BY <1>3 DEF Tells, Free, Later, OnFrequency
<1>4. QED
  BY <1>1, <1>2, <1>3 DEF FrequencyPart, Free, Shown, Aimed, Rested

LEMMA FreeRests ==
  ASSUME IsSeq(todo'), \A c \in Pending(todo') : Later(c)', Numbers', LatePart',
         (Loading \/ Rested)'
  PROVE  FrequencyPart'
<1>1. ~Changing'
  <2>1. SUFFICES ASSUME Changing' PROVE FALSE
    OBVIOUS
  <2>2. PICK c : c = Head(todo') /\ c \in Pending(todo') /\ c[1] = "ChangeFrequencyIndex"
    BY <2>1, TailIsSeq DEF Changing, IsNext
  <2>3. Later(c)'
    BY <2>2
  <2>4. QED
    BY <2>2, <2>3 DEF Later, OnFrequency
<1>2. Aim' = window'.frequency
  BY <1>1 DEF Aim
<1>3. \A c \in Pending(todo') : ~OnFrequency(c)
  BY DEF Later, OnFrequency
<1>4. Unaimed'
  BY <1>3 DEF Unaimed, OnFrequency
<1>5. Free'
  BY DEF Free, Rested
<1>6. Form'
  BY <1>5, FreeForm
<1>7. Aimed'
  BY <1>2, <1>4 DEF Aimed, Rested, Good, Item, InBox
<1>8. Shown'
  BY DEF Shown, Rested
<1>9. QED
  BY <1>6, <1>7, <1>8 DEF FrequencyPart

\* Which calls leave the calls that the frequency depends on.
LEMMA FrequencyLeaves ==
  ASSUME NEW calls, IsSeq(calls), CallForm(calls), NEW c \in Pending(calls)
  PROVE  /\ c[1] \in {"vtk", "plot", "setValue"} /\ c[2] = "frequency" => FrequencyCall(calls)
         /\ c[1] = "ChangeFrequencyIndex" => ComboCall(calls) \/ IsBoxCall(calls)
         /\ c[1] = "setCurrentIndex" => FrequencyCall(calls) \/ LoadCall(calls) \/ FillCall(calls)
         /\ LateCall(c) => OpenCall(calls) \/ LoadCall(calls) \/ FillCall(calls)
<1>1. CASE IsBoxCall(calls)
  <2>1. PICK name, d : name \in Spins /\ d[1] = Slot[name] /\ (calls = <<>> \/ calls = <<d>>)
    BY <1>1 DEF IsBoxCall, BoxMoves
  <2>2. c = d
    BY <2>1, TupleIsSeq
  <2>3. d[1] \notin {"vtk", "plot", "setValue", "setCurrentIndex", "clear", "FillSelector",
                     "addItem", "LoadContent", "OpenDAFFFile", "setMaximum"}
    BY <2>1 DEF Slot, Spins
  <2>4. QED
    BY <1>1, <2>2, <2>3 DEF LateCall, SetsRange
<1>2. CASE ComboCall(calls)
  <2>0. PICK v : v = combo'.index
    OBVIOUS
  <2>1. PICK d : d = <<"ChangeFrequencyIndex", v>>
    OBVIOUS
  <2>2. calls = <<>> \/ calls = <<d>>
    BY <1>2, <2>0, <2>1 DEF ComboCall
  <2>4. d[1] = "ChangeFrequencyIndex"
    BY <2>1
  <2>3. QED
    BY <1>2, <2>2, <2>4, TupleIsSeq DEF LateCall, SetsRange
<1>3. CASE FrequencyCall(calls)
  <2>1. calls # <<>>
    BY TupleIsSeq
  <2>2. PICK v : calls = EmitFrequency(v)
    BY <1>3, <2>1 DEF FrequencyCall
  <2>told. PICK p, q, r, s, t : TellFrequency(calls, v, p, q, r, s, t)
    BY <2>2, FrequencyBlock, Zenon
  <2>3. /\ Pending(calls) = {p, q, r, s, t} /\ p[1] = "vtk"
        /\ q[1] = "setValue" /\ r[1] = "setCurrentIndex" /\ s[1] = "vtk" /\ t[1] = "plot"
    BY <2>told DEF TellFrequency
  <2>4. QED
    BY <1>3, <2>3 DEF LateCall, SetsRange
<1>4. CASE OpenCall(calls)
  <2>1. PICK d : d = <<"LoadContent">>
    OBVIOUS
  <2>2. c = d /\ d[1] = "LoadContent"
    BY <1>4, <2>1, TupleIsSeq DEF OpenCall
  <2>3. QED
    BY <1>4, <2>2
<1>5. CASE LoadCall(calls)
  BY <1>5 DEF LoadCall, GivesRange, SetsRange
<1>6. CASE FillCall(calls)
  BY <1>6, TupleIsSeq DEF FillCall
<1>7. CASE PlainForm(calls)
  <2>1. Plain(c)
    BY <1>7, PlainCalls
  <2>2. QED
    BY <2>1 DEF Plain, LateCall, SetsRange
<1>8. QED
  BY <1>1, <1>2, <1>3, <1>4, <1>5, <1>6, <1>7 DEF CallForm, PlainForm

LEMMA AdjacentStays ==
  ASSUME IsSeq(todo), Adjacent, NEW calls, Leaves(calls), CallForm(calls)
  PROVE  Adjacent'
<1> SUFFICES ASSUME NEW k \in 1 .. Len(todo'), NEW box, box = todo'[k],
                    box[1] = "setValue", box[2] = "frequency"
             PROVE  /\ k < Len(todo') /\ todo'[k + 1][1] = "setCurrentIndex"
                    /\ todo'[k + 1][2] = box[3]
  BY DEF Adjacent
<1>n. PICK n \in Nat, m \in Nat \ {0} : n = Len(calls) /\ m = Len(todo)
  BY Positions
<1>1. /\ n = Len(calls) /\ m = Len(todo) /\ Len(todo') = n + m - 1
      /\ \A i \in 1 .. n : todo'[i] = calls[i]
      /\ \A i \in 2 .. m : todo'[n + i - 1] = todo[i]
      /\ k \in 1 .. n \/ \E i \in 2 .. m : k = n + i - 1
  BY <1>n, Positions
<1>2. CASE k \in 1 .. n
  <2>1. box \in Pending(calls) /\ box = calls[k] /\ IsSeq(calls)
    BY <1>1, <1>2 DEF Pending, Leaves
  <2>2. FrequencyCall(calls) /\ calls # <<>>
    BY <2>1, FrequencyLeaves, TupleIsSeq
  <2>3. PICK v : calls = EmitFrequency(v)
    BY <2>2 DEF FrequencyCall
  <2>told. PICK p, q, r, s, t : TellFrequency(calls, v, p, q, r, s, t)
    BY <2>3, FrequencyBlock, Zenon
  <2>4. /\ calls = <<p, q, r, s, t>> /\ p[1] = "vtk" /\ q[3] = v
        /\ r[1] = "setCurrentIndex" /\ r[2] = v /\ s[1] = "vtk" /\ t[1] = "plot"
    BY <2>told DEF TellFrequency
  <2>5. n = 5 /\ calls[1] = p /\ calls[2] = q /\ calls[3] = r /\ calls[4] = s /\ calls[5] = t
    BY <1>1, <2>4
  <2>6. k = 2
    <3>1. k = 1 \/ k = 2 \/ k = 3 \/ k = 4 \/ k = 5
      BY <1>2, <2>5
    <3>2. QED
      BY <2>1, <2>4, <2>5, <3>1
  <2>7. k + 1 = 3 /\ 3 \in 1 .. n /\ k < n + m - 1
    BY <1>1, <2>5, <2>6
  <2>8. todo'[k + 1] = r
    BY <1>1, <2>5, <2>7
  <2>9. box[3] = v
    BY <2>1, <2>4, <2>5, <2>6
  <2>10. r[1] = "setCurrentIndex" /\ r[2] = v
    BY <2>4
  <2>11. k < Len(todo')
    BY <1>1, <2>7
  <2>12. QED
    BY <2>8, <2>9, <2>10, <2>11
<1>3. CASE k \notin 1 .. n
  <2>1. PICK i \in 2 .. m : k = n + i - 1
    BY <1>1, <1>3
  <2>2. box = todo[i] /\ i \in 1 .. m
    BY <1>1, <2>1
  <2>3. i < m /\ todo[i + 1][1] = "setCurrentIndex" /\ todo[i + 1][2] = box[3]
    BY <1>1, <2>2 DEF Adjacent
  <2>7. i < m
    BY <2>3
  <2>4. i + 1 \in 2 .. m /\ n + (i + 1) - 1 = k + 1 /\ k < n + m - 1
    BY <2>1, <2>7
  <2>5. todo'[k + 1] = todo[i + 1]
    BY <1>1, <2>4
  <2>6. QED
    BY <1>1, <2>3, <2>4, <2>5
<1>4. QED
  BY <1>2, <1>3

-----------------------------------------------------------------------------
(* Calls that leave the frequency alone.                                   *)

\* The calls that have nothing to do with the frequency.
LEMMA StillCall ==
  ASSUME VInv, NEW calls, IsSeq(calls), CallForm(calls), todo # <<>>,
         ~OnFrequency(Head(todo)), Head(todo)[1] # "setCurrentIndex", ~LateCall(Head(todo))
  PROVE  /\ combo' = combo /\ spin'["frequency"] = spin["frequency"]
         /\ window'.frequency = window.frequency /\ window'.file = window.file
         /\ plot'.frequency = plot.frequency /\ vtk'.frequency = vtk.frequency
         /\ \A c \in Pending(calls) :
              ~OnFrequency(c) /\ c[1] # "setCurrentIndex" /\ ~LateCall(c)
<1>1. TypedCall(Head(todo)) /\ "frequency" \in DOMAIN plot /\ "frequency" \in DOMAIN vtk
  BY HeadIs DEF VInv, Types
<1>2. CASE IsBoxCall(calls)
  <2>1. PICK name \in Spins, s \in [value : Int, min : Int, max : Int] : BoxMoves(name, s, calls)
    BY <1>2 DEF IsBoxCall
  <2>2. /\ Head(todo)[2] = name /\ UNCHANGED <<window, combo, plot, vtk>>
        /\ Head(todo)[1] \in {"setValue", "setMinimum", "setMaximum"}
        /\ \A other \in Spins \ {name} : spin'[other] = spin[other]
    BY <2>1 DEF BoxMoves, BoxCall
  <2>3. name # "frequency"
    BY <1>1, <2>2 DEF OnFrequency, LateCall, SetsRange, TypedCall
  <2>4. spin'["frequency"] = spin["frequency"]
    BY <2>2, <2>3 DEF Spins
  <2>5. PICK d : d[1] = Slot[name] /\ (calls = <<>> \/ calls = <<d>>)
    BY <2>1 DEF BoxMoves
  <2>6. d[1] \notin {"vtk", "plot", "setValue", "setCurrentIndex", "clear", "FillSelector",
                     "addItem", "LoadContent", "OpenDAFFFile", "setMaximum",
                     "ChangeFrequencyIndex"}
    BY <2>3, <2>5 DEF Slot, Spins
  <2>7. \A c \in Pending(calls) : c = d
    BY <2>5, TupleIsSeq
  <2>8. QED
    BY <2>2, <2>4, <2>6, <2>7 DEF OnFrequency, LateCall, SetsRange
<1>3. CASE PlainForm(calls)
  <2>1. spin' = spin /\ combo' = combo /\ \A c \in Pending(calls) : Plain(c)
    BY <1>3, PlainCalls
  <2>2. \A c \in Pending(calls) : ~OnFrequency(c) /\ c[1] # "setCurrentIndex" /\ ~LateCall(c)
    BY <2>1 DEF Plain, OnFrequency, LateCall, SetsRange
  <2>3. window'.frequency = window.frequency /\ window'.file = window.file
    BY <1>3 DEF PlainForm, IndicatorCall, PlotCall, VtkCall, ChannelCall, RecordCall, FollowCall,
                TellCall, DataViewCall, ObjectViewCall, Members, Angles
  <2>4. plot'.frequency = plot.frequency /\ vtk'.frequency = vtk.frequency
    <3>1. CASE PlotCall \/ VtkCall
      <4>1. Head(todo)[2] # "frequency"
        BY <3>1 DEF PlotCall, VtkCall, OnFrequency
      <4>2. QED
        BY <1>1, <3>1, <4>1 DEF PlotCall, VtkCall
    <3>2. CASE ~PlotCall /\ ~VtkCall
      BY <1>3, <3>2 DEF PlainForm, IndicatorCall, ChannelCall, RecordCall, FollowCall,
                TellCall, DataViewCall, ObjectViewCall
    <3>3. QED
      BY <3>1, <3>2
  <2>5. QED
    BY <2>1, <2>2, <2>3, <2>4
<1>4. QED
  BY <1>2, <1>3 DEF CallForm, PlainForm, ComboCall, FrequencyCall, OpenCall, LoadCall, FillCall,
     OnFrequency, LateCall

LEMMA StillKeeps ==
  ASSUME VInv, VInv', FrequencyPart, NEW calls, Leaves(calls), CallForm(calls),
         ~OnFrequency(Head(todo)), Head(todo)[1] # "setCurrentIndex", ~LateCall(Head(todo))
  PROVE  FrequencyPart'
<1>1. IsSeq(todo) /\ IsSeq(calls) /\ todo # <<>> /\ IsSeq(todo')
      /\ Pending(todo') = Pending(calls) \cup Pending(Tail(todo))
      /\ Pending(todo) = {Head(todo)} \cup Pending(Tail(todo))
  BY LeftPending DEF VInv, Leaves
<1>2. /\ combo' = combo /\ spin'["frequency"] = spin["frequency"]
      /\ window'.frequency = window.frequency /\ window'.file = window.file
      /\ plot'.frequency = plot.frequency /\ vtk'.frequency = vtk.frequency
      /\ \A c \in Pending(calls) :
           ~OnFrequency(c) /\ c[1] # "setCurrentIndex" /\ ~LateCall(c)
  BY <1>1, StillCall
<1>3. Numbers' /\ IsOpen' = IsOpen /\ IsSpectral' = IsSpectral
  BY <1>2 DEF FrequencyPart, Numbers, IsOpen, IsSpectral, IsSpectrum
<1>4. CASE ~IsOpen
  BY <1>3, <1>4 DEF FrequencyPart
<1>5. CASE IsOpen
  <2>1. Steady(calls)
    BY <1>2 DEF Steady
  <2>2. Free /\ (Loading \/ Rested)
    BY <1>1, <1>5, HeadFree, FreeIs DEF FrequencyPart
  <2>3. /\ Loading' = Loading /\ LatePart' /\ \A v : Item(v)' = Item(v) /\ Good(v)' = Good(v)
        /\ \A c : Later(c)' = Later(c)
    BY <1>5, <2>1, SteadyKeeps DEF FrequencyPart
  <2>4. \A c \in Pending(todo') : Later(c)'
    BY <1>1, <1>2, <2>2, <2>3 DEF Later, Free, OnFrequency
  <2>5. Rested => Rested'
    <3>1. Good(window.frequency)' = Good(window.frequency)
      BY <1>2, <2>3 DEF Good, Item, InBox
    <3>2. IndexShows' = IndexShows
      BY <1>2 DEF IndexShows, Item
    <3>3. Shows("frequency", window.frequency)' = Shows("frequency", window.frequency)
      BY <1>2 DEF Shows, Bounded
    <3>4. QED
      BY <1>2, <1>3, <3>1, <3>2, <3>3 DEF Rested
  <2>6. QED
    BY <1>1, <1>3, <2>2, <2>3, <2>4, <2>5, FreeRests
<1>6. QED
  BY <1>4, <1>5

\* A call of a frequency runs in front of the others.
LEMMA FrontHead ==
  ASSUME IsSeq(todo), todo # <<>>, OnFrequency(Head(todo)), NEW a, a = Aim,
         DirectForm \/ RestoredForm
  PROVE  /\ Of(Head(todo), a)
         /\ \/ \E n \in 1 .. Len(todo) :
                 FrontIs(n, a) /\ (Loading \/ Changing \/ IndexShows \/ Selecting(n))
            \/ /\ a = spin["frequency"].max /\ spin["frequency"].value = a
               /\ \E n \in 1 .. Len(todo) : \E v : \E p \in 2 .. n :
                    /\ SplitIs(p, n, a, v) /\ v > a /\ Item(v)
                    /\ combo.index = a \/ Changing \/ Selecting(p - 1)
<1>1. PICK S : todo \in Seq(S)
  BY DEF IsSeq
<1>2. Len(todo) \in Nat \ {0} /\ Head(todo) = todo[1]
  BY <1>1
<1>3. CASE DirectForm
  <2>1. PICK n : /\ n \in 0 .. Len(todo) /\ FrontIs(n, a)
                 /\ Loading \/ Changing \/ IndexShows \/ Selecting(n)
    BY <1>3 DEF DirectForm
  <2>2. n # 0
    <3>1. SUFFICES ASSUME n = 0 PROVE FALSE
      OBVIOUS
    <3>2. Later(todo[1])
      BY <1>2, <2>1, <3>1 DEF FrontIs
    <3>3. QED
      BY <1>2, <3>2 DEF Later
  <2>3. n \in 1 .. Len(todo) /\ 1 \in 1 .. n
    BY <1>2, <2>1, <2>2
  <2>4. Of(Head(todo), a)
    BY <1>2, <2>1, <2>3 DEF FrontIs
  <2>5. QED
    BY <2>1, <2>3, <2>4
<1>4. CASE RestoredForm
  <2>1. PICK p, n, v :
          /\ n \in 1 .. Len(todo) /\ p \in 1 .. n /\ SplitIs(p, n, a, v)
          /\ spin["frequency"].max = a /\ v > a /\ Item(v) /\ spin["frequency"].value = a
          /\ combo.index = a \/ Changing \/ Selecting(p - 1)
    BY <1>4 DEF RestoredForm
  <2>2. p # 1
    BY <1>2, <2>1 DEF SplitIs, OnFrequency
  <2>3. p \in 2 .. n /\ 1 \in 1 .. p - 1
    BY <1>2, <2>1, <2>2
  <2>4. Of(Head(todo), a)
    BY <1>2, <2>1, <2>3 DEF SplitIs
  <2>5. QED
    BY <2>1, <2>3, <2>4
<1>5. QED
  BY <1>3, <1>4

LEMMA FrontForms ==
  ASSUME IsSeq(todo'), Adjacent', NEW k, NEW v, k \in 0 .. Len(todo'), FrontIs(k, v)',
         window'.frequency = v \/ Changing',
         (Loading \/ Changing \/ IndexShows)' \/ Selecting(k)'
  PROVE  Form' /\ Aim' = v
<1>1. Aim' = v
  BY FrontAim
<1>2. DirectForm'
  BY <1>1 DEF DirectForm
<1>3. QED
  BY <1>1, <1>2 DEF Form

LEMMA SplitForms ==
  ASSUME IsSeq(todo'), Adjacent', NEW k, NEW q, NEW u, NEW v,
         k \in 1 .. Len(todo'), q \in 1 .. k, SplitIs(q, k, u, v)',
         window'.frequency = u \/ Changing',
         spin'["frequency"].max = u, v > u, Item(v)', spin'["frequency"].value = u,
         combo'.index = u \/ Changing' \/ Selecting(q - 1)'
  PROVE  Form' /\ Aim' = u
<1>1. Aim' = u
  BY SplitAim
<1>2. RestoredForm'
  BY <1>1 DEF RestoredForm, Item
<1>3. QED
  BY <1>1, <1>2 DEF Form

\* A call of a frequency that moves neither box nor selector.
LEMMA FormShifts ==
  ASSUME VInv, VInv', NEW calls, Steady(calls), CallForm(calls), OnFrequency(Head(todo)),
         Adjacent, DirectForm \/ RestoredForm, Aimed,
         NEW a, a = Aim, window'.frequency = a \/ Changing',
         \A c \in Pending(calls) : Of(c, a), calls = <<>> \/ ~Unaimed,
         \/ \E c \in Pending(calls) : c[1] = "setCurrentIndex"
         \/ ~Changing /\ window'.frequency = window.frequency,
         combo' = combo, spin' = spin
  PROVE  Form' /\ Aim' = a /\ Aimed'
<1>1. /\ IsSeq(todo) /\ IsSeq(calls) /\ todo # <<>> /\ IsSeq(todo')
      /\ Pending(todo') = Pending(calls) \cup Pending(Tail(todo))
      /\ Pending(todo) = {Head(todo)} \cup Pending(Tail(todo))
  BY LeftPending DEF VInv, Steady, Leaves
<1>2. Leaves(calls) /\ Adjacent'
  BY <1>1, AdjacentStays DEF Steady
<1>3. /\ Loading' = Loading
      /\ \A v : Item(v)' = Item(v) /\ Good(v)' = Good(v)
  BY SteadyKeeps
<1>4. Head(todo)[1] # "setCurrentIndex"
  BY DEF OnFrequency
<1>5. Form' /\ Aim' = a
  <2>1. CASE \E n \in 1 .. Len(todo) :
               FrontIs(n, a) /\ (Loading \/ Changing \/ IndexShows \/ Selecting(n))
    <3>1. PICK n \in 1 .. Len(todo) :
                 FrontIs(n, a) /\ (Loading \/ Changing \/ IndexShows \/ Selecting(n))
      BY <2>1
    <3>2. PICK k : /\ k \in 0 .. Len(todo') /\ FrontIs(k, a)'
                   /\ (Selecting(n) \/ \E c \in Pending(calls) : c[1] = "setCurrentIndex")
                      => Selecting(k)'
      BY <1>4, <3>1, FrontShifts
    <3>3. window'.frequency = window.frequency => IndexShows' = IndexShows
      BY DEF IndexShows, Item
    <3>4. (Loading \/ Changing \/ IndexShows)' \/ Selecting(k)'
      BY <1>3, <3>1, <3>2, <3>3
    <3>5. QED
      BY <1>1, <1>2, <3>2, <3>4, FrontForms
  <2>2. CASE /\ a = spin["frequency"].max /\ spin["frequency"].value = a
             /\ \E n \in 1 .. Len(todo) : \E v : \E p \in 2 .. n :
                    /\ SplitIs(p, n, a, v) /\ v > a /\ Item(v)
                    /\ combo.index = a \/ Changing \/ Selecting(p - 1)
    <3>1. PICK n \in 1 .. Len(todo) : \E v : \E p \in 2 .. n :
                    /\ SplitIs(p, n, a, v) /\ v > a /\ Item(v)
                    /\ combo.index = a \/ Changing \/ Selecting(p - 1)
      BY <2>2
    <3>2. PICK v : \E p \in 2 .. n :
                    /\ SplitIs(p, n, a, v) /\ v > a /\ Item(v)
                    /\ combo.index = a \/ Changing \/ Selecting(p - 1)
      BY <3>1
    <3>3. PICK p \in 2 .. n :
                    /\ SplitIs(p, n, a, v) /\ v > a /\ Item(v)
                    /\ combo.index = a \/ Changing \/ Selecting(p - 1)
      BY <3>2
    <3>4. PICK k, q : /\ k \in 1 .. Len(todo') /\ q \in 1 .. k /\ SplitIs(q, k, a, v)'
                      /\ (Selecting(p - 1) \/ \E c \in Pending(calls) : c[1] = "setCurrentIndex")
                         => Selecting(q - 1)'
      BY <1>4, <3>3, SplitShifts
    <3>6. /\ spin'["frequency"].max = a /\ spin'["frequency"].value = a
      BY <2>2
    <3>7. Item(v)' /\ (combo'.index = a \/ Changing' \/ Selecting(q - 1)')
      BY <1>3, <3>3, <3>4
    <3>8. QED
      BY <1>1, <1>2, <3>3, <3>4, <3>6, <3>7, SplitForms
  <2>3. QED
    BY <1>1, <2>1, <2>2, FrontHead
<1>6. Aimed'
  <2>1. CASE Good(a)
    <3>1. Good(a)'
      BY <1>3, <2>1
    <3>2. QED
      BY <1>5, <3>1 DEF Aimed, Good, Item, InBox
  <2>2. CASE Loading /\ Unaimed
    <3>1. Unaimed'
      BY <1>1, <2>2, TupleIsSeq DEF Unaimed, OnFrequency
    <3>2. QED
      BY <1>3, <2>2, <3>1 DEF Aimed
  <2>3. QED
    BY <2>1, <2>2 DEF Aimed
<1>7. QED
  BY <1>5, <1>6

LEMMA CallKeepsNumbers ==
  ASSUME VInv, FrequencyPart, NEW calls, Leaves(calls), CallForm(calls)
  PROVE  Numbers'
<1>1. TypedCall(Head(todo)) /\ todo # <<>> /\ IsSeq(todo)
  BY HeadIs DEF VInv, Leaves
<1>2. PICK n \in Nat, i \in Int, w \in Nat :
        n = combo.count /\ i = combo.index /\ w = window.frequency /\ -1 <= i /\ i < n
  BY DEF FrequencyPart, Numbers
<1>3. CASE ComboCall(calls)
  <2>1. PICK m, j : m = combo'.count /\ j = combo'.index
    OBVIOUS
  <2>2. \/ m = n /\ \E v \in Int : j = IF v \in 0 .. n - 1 THEN v ELSE -1
        \/ m = 0 /\ j = -1
        \/ m = n + 1 /\ j = IF n = 0 THEN 0 ELSE i
    BY <1>1, <1>2, <1>3, <2>1 DEF ComboCall, TypedCall
  <2>3. m \in Nat /\ j \in Int /\ -1 <= j /\ j < m
    BY <1>2, <2>2
  <2>4. window'.frequency = w
    BY <1>2, <1>3 DEF ComboCall
  <2>5. QED
    BY <2>1, <2>3, <2>4 DEF Numbers
<1>4. CASE FrequencyCall(calls)
  <2>1. combo' = combo
    BY <1>4 DEF FrequencyCall
  <2>2. CASE window' = window
    BY <2>1, <2>2 DEF Numbers, FrequencyPart
  <2>3. CASE window' # window
    <3>1. PICK v \in Int : v = Head(todo)[2] /\ v # -1 /\ window'.frequency = v /\ IsOpen
                       /\ Head(todo)[1] = "ChangeFrequencyIndex"
      BY <1>1, <1>4, <2>3 DEF FrequencyCall, TypedCall
    <3>2. Aim = v
      BY <1>1, <3>1 DEF Aim, Changing, IsNext
    <3>3. ~Unaimed
      <4>1. Head(todo) \in Pending(todo) /\ OnFrequency(Head(todo))
        BY <1>1, <3>1, TailIsSeq DEF OnFrequency
      <4>2. QED
        BY <3>1, <4>1 DEF Unaimed
    <3>4. Good(v)
      BY <3>1, <3>2, <3>3 DEF FrequencyPart, Aimed
    <3>5. v >= 0
      BY <3>4 DEF Good, Item, InBox
    <3>6. QED
      BY <1>2, <2>1, <3>1, <3>5 DEF Numbers
  <2>4. QED
    BY <2>2, <2>3
<1>5. CASE ~ComboCall(calls) /\ ~FrequencyCall(calls)
  <2>1. combo' = combo /\ window'.frequency = window.frequency
    BY <1>5 DEF CallForm, IsBoxCall, BoxMoves, IndicatorCall, PlotCall, VtkCall, ChannelCall,
       RecordCall, FollowCall, TellCall, DataViewCall, ObjectViewCall, OpenCall, LoadCall,
       FillCall, Members, Angles
  <2>2. QED
    BY <2>1 DEF Numbers, FrequencyPart
<1>6. QED
  BY <1>3, <1>4, <1>5

\* A plot is told the frequency.
LEMMA PlotIsTold ==
  ASSUME VInv, FrequencyPart, IsOpen, Leaves(<<>>), CallForm(<<>>), PlotCall \/ VtkCall,
         VInv', OnFrequency(Head(todo))
  PROVE  FrequencyPart'
<1>1. /\ IsSeq(todo) /\ todo # <<>>
      /\ \A c \in Pending(todo) : c = Head(todo) \/ c \in Pending(todo')
  BY LeftPending DEF VInv, Leaves
<1>2. Head(todo)[1] \in {"plot", "vtk"} /\ Head(todo)[2] = "frequency"
  BY DEF PlotCall, VtkCall, OnFrequency
<1>3. UNCHANGED <<window, spin, combo>> /\ IsOpen' = IsOpen /\ IsSpectral' = IsSpectral
  BY DEF PlotCall, VtkCall, IsOpen, IsSpectral, IsSpectrum
<1>4. Steady(<<>>) /\ \A c \in Pending(<<>>) : FALSE
  <2>1. ~LateCall(Head(todo))
    BY <1>2 DEF LateCall, SetsRange
  <2>2. QED
    BY <1>3, <2>1, TupleIsSeq DEF Steady
<1>5. ~Changing /\ ~TypedForm
  <2>1. ASSUME NEW c, todo = <<c>> PROVE Head(todo) = c
    BY <2>1
  <2>2. QED
    BY <1>2, <2>1 DEF Changing, IsNext, TypedForm
<1>6. Adjacent /\ (DirectForm \/ RestoredForm) /\ Aimed /\ Shown /\ LatePart
  BY <1>5 DEF FrequencyPart, Form
<1>7. PICK a : a = Aim /\ a = window.frequency
  BY <1>5 DEF Aim
<1>8. Form' /\ Aimed'
  BY <1>3, <1>4, <1>5, <1>6, <1>7, FormShifts
<1>9. Head(todo)[3] = a
  <2>1. Of(Head(todo), a)
    BY <1>1, <1>6, <1>7, FrontHead
  <2>2. QED
    BY <1>2, <2>1 DEF Of
<1>10. Loading' = Loading /\ LatePart'
  BY <1>4, <1>6, SteadyKeeps
<1>11. Shown'
  <2>1. Shows("frequency", window.frequency)' = Shows("frequency", window.frequency)
    BY <1>3 DEF Shows, Bounded
  <2>2. ASSUME NEW name, name # Head(todo)[1], Tells(name) PROVE Tells(name)'
    BY <1>1, <2>2 DEF Tells
  <2>3. CASE PlotCall
    <3>1. plot'.frequency = a /\ vtk' = vtk /\ Head(todo)[1] = "plot"
      BY <1>2, <1>9, <2>3 DEF PlotCall, VInv, Types
    <3>2. QED
      BY <1>3, <1>5, <1>6, <1>7, <1>10, <2>1, <2>2, <3>1 DEF Shown
  <2>4. CASE VtkCall
    <3>1. IsSpectral => Kept("frequency")
      BY DEF VInv, Types, IsSpectral, IsOpen, Kept
    <3>2. plot' = plot /\ Head(todo)[1] = "vtk" /\ (IsSpectral => vtk'.frequency = a)
      BY <1>2, <1>9, <2>4, <3>1 DEF VtkCall, VInv, Types
    <3>3. QED
      BY <1>3, <1>5, <1>6, <1>7, <1>10, <2>1, <2>2, <3>2 DEF Shown
  <2>5. QED
    BY <2>3, <2>4
<1>12. Numbers'
  BY <1>3 DEF Numbers, FrequencyPart
<1>13. QED
  BY <1>3, <1>8, <1>10, <1>11, <1>12 DEF FrequencyPart

-----------------------------------------------------------------------------
(* The box of the frequency and the window.                                *)

\* The window takes the frequency of a box or of the selector and tells the others.
LEMMA FrequencyIsTaken ==
  ASSUME VInv, VInv', FrequencyPart, IsOpen, NEW calls, Leaves(calls), CallForm(calls),
         FrequencyCall(calls)
  PROVE  FrequencyPart'
<1>1. IsSeq(todo) /\ IsSeq(calls) /\ todo # <<>> /\ IsSeq(todo')
      /\ Pending(todo') = Pending(calls) \cup Pending(Tail(todo))
      /\ Pending(todo) = {Head(todo)} \cup Pending(Tail(todo))
  BY LeftPending DEF VInv, Leaves
<1>2. /\ UNCHANGED <<spin, combo, plot, vtk>> /\ Head(todo)[1] = "ChangeFrequencyIndex"
      /\ window'.file = window.file
  BY DEF FrequencyCall, Members
<1>3. IsOpen' = IsOpen /\ IsSpectral' = IsSpectral /\ OnFrequency(Head(todo))
  BY <1>2 DEF IsOpen, IsSpectral, IsSpectrum, OnFrequency
<1>4. ~TypedForm
  <2>1. ASSUME NEW c, todo = <<c>> PROVE Head(todo) = c
    BY <2>1
  <2>2. QED
    BY <1>2, <2>1 DEF TypedForm
<1>5. Adjacent /\ (DirectForm \/ RestoredForm) /\ Aimed /\ Shown /\ LatePart /\ Numbers'
  BY <1>4, CallKeepsNumbers DEF FrequencyPart, Form
<1>6. ~LateCall(Head(todo))
  BY <1>2 DEF LateCall, SetsRange
<1>7. CASE calls = <<>>
  <2>1. \A c \in Pending(calls) : FALSE
    BY <1>7, TupleIsSeq
  <2>2. Head(todo)[2] = -1 /\ window' = window
    <3>told. PICK a, b, c, d, e : TellFrequency(EmitFrequency(Head(todo)[2]), Head(todo)[2], a, b, c, d, e)
      BY FrequencyBlock, Zenon
    <3>1. EmitFrequency(Head(todo)[2]) = <<a, b, c, d, e>>
      BY <3>told DEF TellFrequency
    <3>2. EmitFrequency(Head(todo)[2]) # <<>>
      BY <3>1
    <3>3. QED
      BY <1>7, <3>2 DEF FrequencyCall
  <2>3. Steady(calls) /\ ~Changing
    BY <1>2, <1>6, <2>1, <2>2 DEF Steady, Changing
  <2>4. PICK a : a = Aim /\ a = window.frequency
    BY <2>3 DEF Aim
  <2>5. Form' /\ Aimed'
    BY <1>2, <1>3, <1>5, <1>7, <2>1, <2>2, <2>3, <2>4, FormShifts
  <2>6. Loading' = Loading /\ LatePart'
    BY <1>5, <2>3, SteadyKeeps
  <2>7. ASSUME NEW name, name \in {"plot", "vtk", "setValue"}, Tells(name) PROVE Tells(name)'
    BY <1>1, <1>2, <2>7 DEF Tells
  <2>8. Shows("frequency", window.frequency)' = Shows("frequency", window.frequency)
    BY <1>2, <2>2 DEF Shows, Bounded
  <2>9. Shown'
    BY <1>2, <1>3, <1>5, <2>2, <2>3, <2>6, <2>7, <2>8 DEF Shown
  <2>10. QED
    BY <1>5, <2>5, <2>6, <2>9 DEF FrequencyPart
<1>8. CASE calls # <<>>
  <2>1. PICK v : v = Head(todo)[2] /\ v # -1 /\ window'.frequency = v /\ calls = EmitFrequency(v)
    BY <1>8 DEF FrequencyCall
  <2>told. PICK p, q, r, s, t : TellFrequency(calls, v, p, q, r, s, t)
    BY <2>1, FrequencyBlock, Zenon
  <2>2. /\ calls = <<p, q, r, s, t>> /\ Pending(calls) = {p, q, r, s, t}
        /\ p[1] = "vtk" /\ p[2] = "frequency" /\ p[3] = v
        /\ q[1] = "setValue" /\ q[2] = "frequency" /\ q[3] = v
        /\ r[1] = "setCurrentIndex" /\ r[2] = v
        /\ s[1] = "vtk" /\ s[2] = "frequency" /\ s[3] = v
        /\ t[1] = "plot" /\ t[2] = "frequency" /\ t[3] = v
    BY <2>told DEF TellFrequency
  <2>3. Changing /\ Aim = v
    BY <1>1, <1>2, <2>1 DEF Aim, Changing, IsNext
  <2>4. Steady(calls)
    BY <1>2, <1>6, <2>2 DEF Steady, LateCall, SetsRange
  <2>5. ~Unaimed
    BY <1>1, <1>3, <2>1 DEF Unaimed
  <2>6. \A c \in Pending(calls) : Of(c, v)
    BY <2>2 DEF Of
  <2>7. \E c \in Pending(calls) : c[1] = "setCurrentIndex"
    BY <2>2
  <2>8. Form' /\ Aimed'
    BY <1>2, <1>3, <1>5, <2>1, <2>3, <2>4, <2>5, <2>6, <2>7, FormShifts
  <2>9. Loading' = Loading /\ LatePart'
    BY <1>5, <2>4, SteadyKeeps
  <2>10. Tells("plot")' /\ Tells("vtk")' /\ Tells("setValue")'
    BY <1>1, <2>2 DEF Tells
  <2>11. Shown'
    BY <2>10 DEF Shown
  <2>12. QED
    BY <1>5, <2>8, <2>9, <2>11 DEF FrequencyPart
<1>9. QED
  BY <1>7, <1>8

\* What the box of the frequency becomes.
LEMMA FrequencyBoxMoves ==
  ASSUME VInv, BoxPart, VInv', NEW calls, Leaves(calls), IsBoxCall(calls),
         Head(todo)[1] = "setValue", Head(todo)[2] = "frequency"
  PROVE  \E w, b, x, M \in Int :
           /\ w = Head(todo)[3] /\ x = spin["frequency"].value /\ M = spin["frequency"].max
           /\ 0 <= x /\ x <= M /\ 0 <= b /\ b <= M
           /\ b = (IF w < 0 THEN 0 ELSE IF w > M THEN M ELSE w)
           /\ spin'["frequency"].value = b /\ spin'["frequency"].max = M
           /\ spin["frequency"].min = 0 /\ spin'["frequency"].min = 0
           /\ UNCHANGED <<window, combo, plot, vtk>>
           /\ b = x => calls = <<>> /\ spin' = spin
           /\ b # x => \E c : /\ c[1] = "ChangeFrequencyIndex" /\ c[2] = b /\ calls = <<c>>
<1>1. PICK name \in Spins, s \in [value : Int, min : Int, max : Int] : BoxMoves(name, s, calls)
  BY DEF IsBoxCall
<1>2. name = "frequency" /\ UNCHANGED <<window, combo, plot, vtk>>
      /\ spin'["frequency"] = s /\ \A other \in Spins \ {name} : spin'[other] = spin[other]
  BY <1>1 DEF BoxMoves
<1>3. PICK o \in [value : Int, min : Int, max : Int] : o = spin["frequency"]
  BY DEF VInv, Types, Spins
<1>4. TypedCall(Head(todo)) /\ todo # <<>>
  BY HeadIs DEF VInv, Leaves
<1>5. PICK w \in Int : w = Head(todo)[3]
  BY <1>4 DEF TypedCall
<1>6. o.min = 0 /\ 0 <= o.value /\ o.value <= o.max
  BY <1>3 DEF VInv, Types, BoxPart, Ranges, InBounds, Spins
<1>7. s.min = o.min /\ s.max = o.max /\ s.value = Bounded(w, o)
  BY <1>1, <1>2, <1>3, <1>5 DEF BoxMoves, BoxCall
<1>8. PICK x, M, b \in Int : x = o.value /\ M = o.max /\ b = s.value
  OBVIOUS
<1>9. b = (IF w < 0 THEN 0 ELSE IF w > M THEN M ELSE w)
  BY <1>6, <1>7, <1>8 DEF Bounded
<1>10. 0 <= x /\ x <= M /\ 0 <= b /\ b <= M
  BY <1>6, <1>8, <1>9
<1>11. ASSUME b = x PROVE calls = <<>> /\ spin' = spin
  <2>1. s = o
    BY <1>7, <1>8, <1>11
  <2>2. spin' \in [Spins -> [value : Int, min : Int, max : Int]]
        /\ spin \in [Spins -> [value : Int, min : Int, max : Int]]
    BY DEF VInv, Types
  <2>3. \A other \in Spins : spin'[other] = spin[other]
    BY <1>2, <1>3, <2>1
  <2>4. spin' = spin
    BY <2>2, <2>3
  <2>5. calls = <<>>
    BY <1>1, <1>2, <1>3, <1>8, <1>11 DEF BoxMoves
  <2>6. QED
    BY <2>4, <2>5
<1>12. ASSUME b # x PROVE \E c : c[1] = "ChangeFrequencyIndex" /\ c[2] = b /\ calls = <<c>>
  BY <1>1, <1>2, <1>3, <1>8, <1>12 DEF BoxMoves, Slot
<1>13. QED
  BY <1>2, <1>3, <1>5, <1>6, <1>7, <1>8, <1>9, <1>10, <1>11, <1>12

\* One call is left in front of calls that come later.
LEMMA OneFront ==
  ASSUME IsSeq(todo), NEW c, Leaves(<<c>>), NEW v, Of(c, v),
         \A d \in Pending(Tail(todo)) : Later(d)'
  PROVE  /\ IsSeq(todo') /\ 1 \in 0 .. Len(todo') /\ FrontIs(1, v)'
         /\ c[1] # "setValue" => Adjacent'
<1>1. PICK calls : calls = <<c>> /\ Leaves(calls)
  OBVIOUS
<1>2. Len(calls) = 1 /\ calls[1] = c
  BY <1>1
<1>3. PICK m \in Nat \ {0} :
        /\ m = Len(todo) /\ Len(todo') = 1 + m - 1 /\ todo'[1] = c
        /\ \A i \in 2 .. m : todo'[1 + i - 1] = todo[i]
  BY <1>1, <1>2, Positions
<1>4. IsSeq(todo')
  BY <1>1, LeftPending
<1>5. PICK S : todo \in Seq(S) /\ todo # <<>>
  BY DEF IsSeq, Leaves
<1>6. Len(Tail(todo)) = m - 1 /\ \A i \in 1 .. m - 1 : Tail(todo)[i] = todo[i + 1]
  BY <1>3, <1>5
<1>7. ASSUME NEW i \in 2 .. m PROVE Later(todo[i])'
  <2>1. PICK j \in 1 .. m - 1 : i = j + 1
    <3>1. i - 1 \in 1 .. m - 1 /\ i = (i - 1) + 1
      BY <1>3
    <3>2. QED
      BY <3>1
  <2>2. PICK d : d = Tail(todo)[j] /\ d = todo[i] /\ d \in Pending(Tail(todo))
    BY <1>6, <2>1 DEF Pending
  <2>3. todo'[i] = d
    BY <1>3, <2>2
  <2>4. Later(d)'
    BY <2>2
  <2>5. QED
    BY <2>3, <2>4 DEF Later, OnFrequency, Item
<1>8. Of(todo[1], v)'
  BY <1>3 DEF Of
<1>9. FrontIs(1, v)'
  BY <1>3, <1>7, <1>8 DEF FrontIs
<1>10. c[1] # "setValue" => Adjacent'
  BY <1>3, <1>7 DEF Adjacent, Later, OnFrequency
<1>11. QED
  BY <1>3, <1>4, <1>9, <1>10

\* The user has typed a frequency into the box.
LEMMA TypedBox ==
  ASSUME VInv, BoxPart, VInv', FrequencyPart, IsOpen, NEW calls, Leaves(calls),
         CallForm(calls), IsBoxCall(calls), TypedForm
  PROVE  FrequencyPart'
<1>1. PICK h : todo = <<h>> /\ h[1] = "setValue" /\ h[2] = "frequency"
  BY DEF TypedForm
<1>2. Head(todo) = h /\ Tail(todo) = <<>> /\ Pending(todo) = {h}
  BY <1>1, TupleIsSeq
<1>3. PICK w, b, x, M \in Int :
           /\ w = h[3] /\ x = spin["frequency"].value /\ M = spin["frequency"].max
           /\ 0 <= x /\ x <= M /\ 0 <= b /\ b <= M
           /\ spin'["frequency"].value = b /\ spin'["frequency"].max = M
           /\ UNCHANGED <<window, combo, plot, vtk>>
           /\ b = x => calls = <<>> /\ spin' = spin
           /\ b # x => \E c : /\ c[1] = "ChangeFrequencyIndex" /\ c[2] = b /\ calls = <<c>>
  BY <1>1, <1>2, FrequencyBoxMoves
<1>4. IsOpen' = IsOpen /\ IsSpectral' = IsSpectral /\ Numbers'
  BY <1>3, CallKeepsNumbers DEF IsOpen, IsSpectral, IsSpectrum
<1>5. IsSeq(todo') /\ Pending(todo') = Pending(calls)
  <2>1. Pending(Tail(todo)) = {}
    BY <1>2, TupleIsSeq
  <2>2. QED
    BY <2>1, LeftPending DEF VInv
<1>6. Steady(calls)
  <2>1. \A c \in Pending(calls) : c[1] = "ChangeFrequencyIndex"
    BY <1>3, TupleIsSeq
  <2>2. QED
    BY <1>1, <1>2, <1>3, <2>1 DEF Steady, LateCall, SetsRange
<1>7. LatePart' /\ Loading' = Loading /\ \A v : Good(v)' = Good(v)
  BY <1>6, SteadyKeeps DEF FrequencyPart
<1>8. CASE b = x
  <2>1. ~Changing /\ Aim = window.frequency
    BY <1>1, <1>2 DEF Changing, IsNext, Aim
  <2>2. ~Tells("plot") /\ ~Tells("vtk")
    BY <1>1, <1>2 DEF Tells
  <2>3. Loading \/ Rested
    <3>1. Loading \/ Good(window.frequency)
      BY <2>1 DEF FrequencyPart, Aimed
    <3>2. QED
      BY <2>1, <2>2, <3>1 DEF Rested, FrequencyPart, Shown, TypedForm
  <2>4. Rested => Rested'
    <3>1. Good(window.frequency)' = Good(window.frequency)
      BY <1>3, <1>7 DEF Good, Item, InBox
    <3>2. Shows("frequency", window.frequency)' = Shows("frequency", window.frequency)
      BY <1>3, <1>8 DEF Shows, Bounded
    <3>3. QED
      BY <1>3, <1>4, <3>1, <3>2 DEF Rested, IndexShows, Item
  <2>5. \A c \in Pending(todo') : FALSE
    BY <1>3, <1>5, <1>8, TupleIsSeq
  <2>6. QED
    BY <1>4, <1>5, <1>7, <2>3, <2>4, <2>5, FreeRests
<1>9. CASE b # x
  <2>1. PICK c : c[1] = "ChangeFrequencyIndex" /\ c[2] = b /\ calls = <<c>>
    BY <1>3, <1>9
  <2>2. \A d \in Pending(Tail(todo)) : FALSE
    BY <1>2, TupleIsSeq
  <2>3. IsSeq(todo') /\ 1 \in 0 .. Len(todo') /\ FrontIs(1, b)' /\ Adjacent'
    BY <2>1, <2>2, OneFront DEF VInv, Of
  <2>4. Changing'
    <3>1. calls # <<>> /\ Head(calls) = c
      BY <2>1
    <3>2. todo' # <<>> /\ Head(todo') = c
      BY <3>1, LeftNext DEF VInv
    <3>3. QED
      BY <1>3, <2>1, <3>2 DEF Changing, IsNext
  <2>5. Form' /\ Aim' = b
    BY <2>3, <2>4, FrontForms
  <2>6. Good(b)'
    <3>1. ~Waits("FillSelector")'
      BY <1>5, <2>1, TupleIsSeq DEF Waits
    <3>2. InBox(b)'
      BY <1>3 DEF InBox
    <3>3. QED
      BY <3>1, <3>2 DEF Good
  <2>7. Aimed' /\ Shown'
    BY <2>4, <2>5, <2>6 DEF Aimed, Shown, Good, Item, InBox
  <2>8. QED
    BY <1>4, <1>7, <2>5, <2>7 DEF FrequencyPart
<1>10. QED
  BY <1>8, <1>9

\* The box moves a frequency that it cannot show to its end; the selector is told next.
LEMMA SplitBegins ==
  ASSUME VInv, NEW c, Steady(<<c>>), Adjacent, NEW n \in 1 .. Len(todo), NEW v,
         FrontIs(n, v), Head(todo)[1] = "setValue", Head(todo)[2] = "frequency",
         Head(todo)[3] = v, NEW u, Of(c, u)
  PROVE  \E k : k \in 1 .. Len(todo') /\ 2 \in 1 .. k /\ SplitIs(2, k, u, v)'
<1>1. PICK calls : calls = <<c>> /\ Leaves(calls) /\ Steady(calls)
  BY DEF Steady
<1>2. Len(calls) = 1 /\ calls[1] = c
  BY <1>1
<1>3. PICK m \in Nat \ {0} :
        /\ m = Len(todo) /\ Len(todo') = m /\ todo'[1] = c /\ Head(todo) = todo[1]
        /\ \A i \in 2 .. m : todo'[i] = todo[i]
  <2>1. /\ Len(todo) \in Nat \ {0} /\ Head(todo) = todo[1] /\ Len(todo') = 1 + Len(todo) - 1
        /\ 1 \in 1 .. 1 => todo'[1] = c
        /\ \A i \in 2 .. Len(todo) : todo'[1 + i - 1] = todo[i]
    BY <1>1, <1>2, Positions DEF VInv
  <2>2. PICK m \in Nat \ {0} : m = Len(todo)
    BY <2>1
  <2>3. 1 + m - 1 = m /\ (\A i \in 2 .. m : 1 + i - 1 = i) /\ 1 \in 1 .. 1
    OBVIOUS
  <2>4. \A i \in 2 .. m : todo'[i] = todo[i]
    BY <2>1, <2>2, <2>3
  <2>5. Len(todo') = m /\ todo'[1] = c
    BY <2>1, <2>2, <2>3
  <2>6. QED
    BY <2>1, <2>2, <2>4, <2>5
<1>4. \A d : Later(d)' = Later(d)
  BY <1>1, SteadyKeeps
<1>5. 1 < m /\ todo[2][1] = "setCurrentIndex" /\ todo[2][2] = v
  BY <1>3 DEF Adjacent
<1>6. PICK k \in 2 .. m : k = IF n = 1 THEN 2 ELSE n
  <2>1. (IF n = 1 THEN 2 ELSE n) \in 2 .. m
    BY <1>3, <1>5
  <2>2. QED
    BY <2>1
<1>7. \A l \in 1 .. 2 - 1 : Of(todo[l], u)'
  <2>1. Of(todo[1], u)'
    BY <1>3 DEF Of
  <2>2. \A l \in 1 .. 2 - 1 : l = 1
    OBVIOUS
  <2>3. QED
    BY <2>1, <2>2
<1>8. (todo[2][1] = "setCurrentIndex" /\ todo[2][2] = v)'
  BY <1>3, <1>5
<1>9. ASSUME NEW l \in 2 + 1 .. k PROVE Of(todo[l], v)'
  <2>1. l \in 1 .. n /\ l \in 2 .. m
    BY <1>3, <1>6
  <2>2. Of(todo[l], v) /\ todo'[l] = todo[l]
    BY <1>3, <2>1 DEF FrontIs
  <2>3. QED
    BY <2>2 DEF Of
<1>10. ASSUME NEW l \in k + 1 .. Len(todo') PROVE Later(todo[l])'
  <2>1. l \in n + 1 .. m /\ l \in 2 .. m
    BY <1>3, <1>6
  <2>2. PICK d : d = todo[l] /\ d = todo'[l] /\ Later(d)
    BY <1>3, <2>1 DEF FrontIs
  <2>3. Later(d)'
    BY <1>4, <2>2
  <2>4. QED
    BY <2>2, <2>3 DEF Later, OnFrequency, Item
<1>11. SplitIs(2, k, u, v)'
  BY <1>7, <1>8, <1>9, <1>10 DEF SplitIs
<1>12. QED
  BY <1>3, <1>6, <1>11

\* The box is told the frequency.
LEMMA ToldBox ==
  ASSUME VInv, BoxPart, VInv', FrequencyPart, IsOpen, NEW calls, Leaves(calls),
         CallForm(calls), IsBoxCall(calls), ~TypedForm,
         Head(todo)[1] = "setValue", Head(todo)[2] = "frequency"
  PROVE  FrequencyPart'
<1>1. PICK w, b, x, M \in Int :
           /\ w = Head(todo)[3] /\ x = spin["frequency"].value /\ M = spin["frequency"].max
           /\ 0 <= x /\ x <= M /\ 0 <= b /\ b <= M
           /\ b = (IF w < 0 THEN 0 ELSE IF w > M THEN M ELSE w)
           /\ spin'["frequency"].value = b /\ spin'["frequency"].max = M
           /\ spin["frequency"].min = 0 /\ spin'["frequency"].min = 0
           /\ UNCHANGED <<window, combo, plot, vtk>>
           /\ b = x => calls = <<>> /\ spin' = spin
           /\ b # x => \E c : /\ c[1] = "ChangeFrequencyIndex" /\ c[2] = b /\ calls = <<c>>
  BY FrequencyBoxMoves
<1>2. /\ IsSeq(todo) /\ todo # <<>> /\ IsSeq(todo')
      /\ \A c \in Pending(todo) : c = Head(todo) \/ c \in Pending(todo')
      /\ Head(todo) \in Pending(todo)
  BY LeftPending DEF VInv, Leaves
<1>3. IsOpen' = IsOpen /\ IsSpectral' = IsSpectral /\ Numbers'
  BY <1>1, CallKeepsNumbers DEF IsOpen, IsSpectral, IsSpectrum
<1>4. Steady(calls)
  <2>1. \A c \in Pending(calls) : c[1] = "ChangeFrequencyIndex"
    BY <1>1, TupleIsSeq
  <2>2. QED
    BY <1>1, <2>1 DEF Steady, LateCall, SetsRange
<1>5. /\ LatePart' /\ Loading' = Loading
      /\ \A v : Good(v)' = Good(v) /\ Item(v)' = Item(v) /\ InBox(v)' = InBox(v)
  BY <1>4, SteadyKeeps DEF FrequencyPart
<1>6. ~Changing /\ OnFrequency(Head(todo))
  BY DEF Changing, IsNext, OnFrequency
<1>7. Adjacent /\ (DirectForm \/ RestoredForm) /\ Aimed /\ Shown
  BY DEF FrequencyPart, Form
<1>8. PICK a : a = Aim /\ a = window.frequency
  BY <1>6 DEF Aim
<1>9. a = w
  <2>1. Of(Head(todo), a)
    BY <1>2, <1>6, <1>7, <1>8, FrontHead
  <2>2. QED
    BY <1>1, <2>1 DEF Of
<1>10. Good(a)
  <2>1. ~Unaimed
    BY <1>2, <1>6 DEF Unaimed
  <2>2. QED
    BY <1>7, <1>8, <2>1 DEF Aimed
<1>11. 0 <= w
  BY <1>9, <1>10 DEF Good, Item, InBox
<1>12. CASE b = x
  <2>1. Form' /\ Aimed'
    <3>1. calls = <<>> /\ spin' = spin /\ \A c \in Pending(calls) : FALSE
      BY <1>1, <1>12, TupleIsSeq
    <3>2. QED
      BY <1>1, <1>4, <1>6, <1>7, <1>8, <3>1, FormShifts
  <2>2. Shows("frequency", window.frequency)'
    BY <1>1, <1>8, <1>9, <1>11 DEF Shows, Bounded
  <2>3. Tells("plot") => Tells("plot")'
    BY <1>2 DEF Tells
  <2>4. Tells("vtk") => Tells("vtk")'
    BY <1>2 DEF Tells
  <2>5. Shown'
    BY <1>1, <1>3, <1>5, <1>6, <1>7, <2>2, <2>3, <2>4 DEF Shown
  <2>6. QED
    BY <1>3, <1>5, <2>1, <2>5 DEF FrequencyPart
<1>13. CASE b # x
  <2>1. PICK c : c[1] = "ChangeFrequencyIndex" /\ c[2] = b /\ calls = <<c>>
    BY <1>1, <1>13
  <2>2. Adjacent'
    BY <1>2, <1>7, AdjacentStays
  <2>3. Changing'
    <3>1. calls # <<>> /\ Head(calls) = c
      BY <2>1
    <3>2. todo' # <<>> /\ Head(todo') = c
      BY <1>2, <3>1, LeftNext
    <3>3. QED
      BY <1>1, <2>1, <3>2 DEF Changing, IsNext
  <2>4. PICK n \in 1 .. Len(todo) : FrontIs(n, a)
    <3>1. ~(a = M /\ x = a)
      BY <1>1, <1>9, <1>13
    <3>2. QED
      BY <1>1, <1>2, <1>6, <1>7, <1>8, <3>1, FrontHead
  <2>5. Form' /\ Good(Aim)'
    <3>1. CASE w <= M
      <4>1. b = a /\ Of(c, a)
        BY <1>1, <1>9, <1>11, <2>1, <3>1 DEF Of
      <4>2. \A d \in Pending(calls) : Of(d, a)
        BY <2>1, <4>1, TupleIsSeq
      <4>3. PICK k : k \in 0 .. Len(todo') /\ FrontIs(k, a)'
        BY <1>4, <2>4, <4>2, FrontShifts
      <4>4. Form' /\ Aim' = a
        BY <1>2, <2>2, <2>3, <4>3, FrontForms
      <4>5. QED
        BY <1>5, <1>10, <4>4 DEF Good, Item, InBox
    <3>2. CASE M < w
      <4>1. b = M /\ Of(c, M)
        BY <1>1, <1>11, <2>1, <3>2 DEF Of
      <4>2. PICK k : k \in 1 .. Len(todo') /\ 2 \in 1 .. k /\ SplitIs(2, k, M, w)'
        BY <1>1, <1>4, <1>7, <1>9, <2>1, <2>4, <4>1, SplitBegins
      <4>3. ~InBox(w)
        BY <1>1, <3>2 DEF InBox
      <4>4. Item(w)
        BY <1>9, <1>10, <4>3 DEF Good
      <4>5. Item(w)' /\ w > M
        BY <1>5, <3>2, <4>4
      <4>6. Form' /\ Aim' = M
        BY <1>1, <1>2, <2>2, <2>3, <4>1, <4>2, <4>5, SplitForms
      <4>7. Item(M)
        <5>1. PICK K \in Nat : K = combo.count
          BY DEF FrequencyPart, Numbers
        <5>2. w < K
          BY <4>4, <5>1 DEF Item
        <5>3. M < K
          BY <3>2, <5>2
        <5>4. QED
          BY <1>1, <5>1, <5>3 DEF Item
      <4>8. Good(M)'
        BY <1>5, <4>7 DEF Good
      <4>9. QED
        BY <4>6, <4>8 DEF Good, Item, InBox
    <3>3. QED
      BY <3>1, <3>2
  <2>6. Aimed' /\ Shown'
    BY <2>3, <2>5 DEF Aimed, Shown
  <2>7. QED
    BY <1>3, <1>5, <2>5, <2>6 DEF FrequencyPart
<1>14. QED
  BY <1>12, <1>13

-----------------------------------------------------------------------------
(* The selector of the frequency.                                          *)

\* What the selector becomes.
LEMMA SelectorMoves ==
  ASSUME VInv, FrequencyPart, NEW calls, Leaves(calls), ComboCall(calls),
         Head(todo)[1] = "setCurrentIndex"
  PROVE  \E v, j \in Int :
           /\ v = Head(todo)[2] /\ j = (IF Item(v) THEN v ELSE -1)
           /\ combo'.index = j /\ combo'.count = combo.count
           /\ UNCHANGED <<window, spin, plot, vtk>>
           /\ j = combo.index => calls = <<>>
           /\ j # combo.index =>
                \E c : c[1] = "ChangeFrequencyIndex" /\ c[2] = j /\ calls = <<c>>
<1>1. TypedCall(Head(todo)) /\ todo # <<>>
  BY HeadIs DEF VInv, Leaves
<1>2. PICK v \in Int : v = Head(todo)[2]
  BY <1>1 DEF TypedCall
<1>3. PICK n \in Nat : n = combo.count
  BY DEF FrequencyPart, Numbers
<1>4. PICK j : j = combo'.index
  OBVIOUS
<1>5. /\ combo'.count = n /\ j = (IF v \in 0 .. n - 1 THEN v ELSE -1)
      /\ UNCHANGED <<window, spin, plot, vtk>>
      /\ calls = IF j = combo.index THEN <<>> ELSE << <<"ChangeFrequencyIndex", j>> >>
  BY <1>2, <1>3, <1>4 DEF ComboCall
<1>6. v \in 0 .. n - 1 <=> Item(v)
  BY <1>3 DEF Item
<1>7. j \in Int /\ j = (IF Item(v) THEN v ELSE -1)
  BY <1>5, <1>6
<1>8. PICK c : c = <<"ChangeFrequencyIndex", j>>
  OBVIOUS
<1>9. c[1] = "ChangeFrequencyIndex" /\ c[2] = j
  BY <1>8
<1>10. QED
  BY <1>2, <1>3, <1>4, <1>5, <1>7, <1>8, <1>9

\* The selector is told while the box holds back its frequency.
LEMMA SelectorRestores ==
  ASSUME VInv, VInv', FrequencyPart, IsOpen, NEW calls, Leaves(calls), CallForm(calls),
         ComboCall(calls), Head(todo)[1] = "setCurrentIndex", RestoredForm, Adjacent
  PROVE  FrequencyPart'
<1>1. PICK v, j \in Int :
           /\ v = Head(todo)[2] /\ j = (IF Item(v) THEN v ELSE -1)
           /\ combo'.index = j /\ combo'.count = combo.count
           /\ UNCHANGED <<window, spin, plot, vtk>>
           /\ j = combo.index => calls = <<>>
           /\ j # combo.index =>
                \E c : c[1] = "ChangeFrequencyIndex" /\ c[2] = j /\ calls = <<c>>
  BY SelectorMoves
<1>2. /\ IsSeq(todo) /\ todo # <<>> /\ IsSeq(todo')
      /\ \A c \in Pending(todo) : c = Head(todo) \/ c \in Pending(todo')
  BY LeftPending DEF VInv, Leaves
<1>3. IsOpen' = IsOpen /\ IsSpectral' = IsSpectral /\ Numbers'
  BY <1>1, CallKeepsNumbers DEF IsOpen, IsSpectral, IsSpectrum
<1>4. Steady(calls) /\ \A c \in Pending(calls) : c[1] = "ChangeFrequencyIndex" /\ c[2] = j
  <2>1. \A c \in Pending(calls) : c[1] = "ChangeFrequencyIndex" /\ c[2] = j
    BY <1>1, TupleIsSeq
  <2>2. QED
    BY <1>1, <2>1 DEF Steady, LateCall, SetsRange
<1>5. LatePart' /\ Loading' = Loading /\ \A i : Good(i)' = Good(i) /\ Item(i)' = Item(i)
  BY <1>4, SteadyKeeps DEF FrequencyPart
<1>6. ~Changing /\ Adjacent'
  BY <1>2, AdjacentStays DEF Changing, IsNext
<1>7. PICK M \in Int : /\ M = spin["frequency"].max /\ 0 <= M
                       /\ spin["frequency"].value = M /\ M = window.frequency
  <2>1. PICK o \in [value : Int, min : Int, max : Int] : o = spin["frequency"]
    BY DEF VInv, Types, Spins
  <2>2. o.max = Aim /\ o.value = o.max
    BY <2>1 DEF RestoredForm
  <2>3. o.max = window.frequency
    BY <1>6, <2>2 DEF Aim
  <2>4. window.frequency \in Nat
    BY DEF FrequencyPart, Numbers
  <2>5. QED
    BY <2>1, <2>2, <2>3, <2>4
<1>8. PICK p, n, top :
        /\ n \in 1 .. Len(todo) /\ p \in 1 .. n /\ SplitIs(p, n, M, top)
        /\ top > M /\ Item(top) /\ (combo.index = M \/ Selecting(p - 1))
  BY <1>6, <1>7 DEF RestoredForm
<1>9. PICK m \in Nat \ {0} : m = Len(todo) /\ Head(todo) = todo[1]
  BY <1>2, Positions
<1>10. CASE p = 1
  <2>1. v = top /\ Of(todo[1], v) /\ ~Selecting(p - 1)
    BY <1>1, <1>8, <1>9, <1>10 DEF SplitIs, Of, Selecting
  <2>2. j = v /\ j # combo.index /\ v # -1
    BY <1>1, <1>7, <1>8, <2>1
  <2>3. FrontIs(n, v)
    <3>1. ASSUME NEW l \in 1 .. n PROVE Of(todo[l], v)
      <4>1. CASE l = 1
        BY <2>1, <4>1
      <4>2. CASE l # 1
        <5>1. l \in p + 1 .. n
          BY <1>8, <1>9, <1>10, <4>2
        <5>2. QED
          BY <1>8, <2>1, <5>1 DEF SplitIs
      <4>3. QED
        BY <4>1, <4>2
    <3>2. QED
      BY <1>8, <3>1 DEF FrontIs, SplitIs
  <2>4. PICK k : k \in 0 .. Len(todo') /\ FrontIs(k, v)'
    <3>1. \A c \in Pending(calls) : Of(c, v)
      BY <1>4, <2>2 DEF Of
    <3>2. QED
      BY <1>4, <1>8, <2>3, <3>1, FrontShifts
  <2>5. Changing'
    <3>1. PICK c : c[1] = "ChangeFrequencyIndex" /\ c[2] = j /\ calls = <<c>>
      BY <1>1, <2>2
    <3>2. calls # <<>> /\ Head(calls) = c
      BY <3>1
    <3>3. todo' # <<>> /\ Head(todo') = c
      BY <1>2, <3>2, LeftNext
    <3>4. QED
      BY <2>2, <3>1, <3>3 DEF Changing, IsNext
  <2>6. Form' /\ Aim' = v
    BY <1>2, <1>6, <2>4, <2>5, FrontForms
  <2>7. Good(v)'
    BY <1>5, <1>8, <2>1 DEF Good
  <2>8. Aimed' /\ Shown'
    BY <2>5, <2>6, <2>7 DEF Aimed, Shown, Good, Item, InBox
  <2>9. QED
    BY <1>3, <1>5, <2>6, <2>8 DEF FrequencyPart
<1>11. CASE p # 1
  <2>1. p \in 2 .. n /\ 1 \in 1 .. p - 1
    BY <1>8, <1>9, <1>11
  <2>2. v = M
    BY <1>1, <1>8, <1>9, <2>1 DEF SplitIs, Of
  <2>3. Item(M)
    <3>1. PICK K \in Nat : K = combo.count
      BY DEF FrequencyPart, Numbers
    <3>2. M < K
      <4>1. PICK t \in Int : t = top
        <5>1. todo[p] \in Pending(todo) /\ todo[p][1] = "setCurrentIndex" /\ todo[p][2] = top
          BY <1>8, <1>9 DEF SplitIs, Pending
        <5>2. TypedCall(todo[p])
          BY <5>1 DEF VInv, Calls
        <5>3. QED
          BY <5>1, <5>2 DEF TypedCall
      <4>2. t < K /\ M < t
        BY <1>8, <3>1, <4>1 DEF Item
      <4>3. QED
        BY <4>2
    <3>3. QED
      BY <1>7, <3>1, <3>2 DEF Item
  <2>4. j = M
    BY <1>1, <2>2, <2>3
  <2>5. \A c \in Pending(calls) : Of(c, M)
    BY <1>4, <2>4 DEF Of
  <2>6. PICK k, q : k \in 1 .. Len(todo') /\ q \in 1 .. k /\ SplitIs(q, k, M, top)'
    BY <1>4, <1>8, <2>1, <2>5, SplitShifts
  <2>7. Form' /\ Aim' = M
    <3>1. /\ window'.frequency = M /\ spin'["frequency"].max = M
          /\ spin'["frequency"].value = M /\ combo'.index = M /\ top > M /\ Item(top)'
      BY <1>1, <1>5, <1>7, <1>8, <2>4
    <3>2. QED
      BY <1>2, <1>6, <2>6, <3>1, SplitForms
  <2>8. Good(M)'
    BY <1>5, <2>3 DEF Good
  <2>9. Aimed'
    BY <2>7, <2>8 DEF Aimed, Good, Item, InBox
  <2>10. Shown'
    <3>1. Shows("frequency", window.frequency)' = Shows("frequency", window.frequency)
      BY <1>1 DEF Shows, Bounded
    <3>2. ASSUME NEW name, name \in {"plot", "vtk", "setValue"}, Tells(name) PROVE Tells(name)'
      BY <1>2, <3>2 DEF Tells
    <3>3. QED
      BY <1>1, <1>3, <1>5, <1>6, <3>1, <3>2 DEF Shown, FrequencyPart
  <2>11. QED
    BY <1>3, <1>5, <2>7, <2>9, <2>10 DEF FrequencyPart
<1>12. QED
  BY <1>10, <1>11

\* The selector is told the frequency, or an item that is chosen.
LEMMA SelectorIsTold ==
  ASSUME VInv, VInv', FrequencyPart, IsOpen, NEW calls, Leaves(calls), CallForm(calls),
         ComboCall(calls), Head(todo)[1] = "setCurrentIndex", DirectForm, Adjacent
  PROVE  FrequencyPart'
<1>1. PICK v, j \in Int :
           /\ v = Head(todo)[2] /\ j = (IF Item(v) THEN v ELSE -1)
           /\ combo'.index = j /\ combo'.count = combo.count
           /\ UNCHANGED <<window, spin, plot, vtk>>
           /\ j = combo.index => calls = <<>>
           /\ j # combo.index =>
                \E c : c[1] = "ChangeFrequencyIndex" /\ c[2] = j /\ calls = <<c>>
  BY SelectorMoves
<1>2. /\ IsSeq(todo) /\ todo # <<>> /\ IsSeq(todo')
      /\ Pending(todo') = Pending(calls) \cup Pending(Tail(todo))
      /\ Pending(todo) = {Head(todo)} \cup Pending(Tail(todo))
  BY LeftPending DEF VInv, Leaves
<1>3. IsOpen' = IsOpen /\ IsSpectral' = IsSpectral /\ Numbers'
  BY <1>1, CallKeepsNumbers DEF IsOpen, IsSpectral, IsSpectrum
<1>4. Steady(calls) /\ \A c \in Pending(calls) : c[1] = "ChangeFrequencyIndex" /\ c[2] = j
  <2>1. \A c \in Pending(calls) : c[1] = "ChangeFrequencyIndex" /\ c[2] = j
    BY <1>1, TupleIsSeq
  <2>2. QED
    BY <1>1, <2>1 DEF Steady, LateCall, SetsRange
<1>5. /\ LatePart' /\ Loading' = Loading
      /\ \A i : Good(i)' = Good(i) /\ Item(i)' = Item(i)
      /\ \A c : Later(c)' = Later(c)
  BY <1>4, SteadyKeeps DEF FrequencyPart
<1>6. ~Changing /\ Adjacent' /\ ~OnFrequency(Head(todo))
  BY <1>2, AdjacentStays DEF Changing, IsNext, OnFrequency
<1>7. PICK w \in Nat : w = window.frequency /\ w = Aim /\ w = window'.frequency
  BY <1>1, <1>6 DEF Aim, FrequencyPart, Numbers
<1>8. PICK m \in Nat \ {0} : m = Len(todo) /\ Head(todo) = todo[1]
  BY <1>2, Positions
<1>9. PICK n : /\ n \in 0 .. Len(todo) /\ FrontIs(n, w)
               /\ Loading \/ IndexShows \/ Selecting(n)
  BY <1>6, <1>7 DEF DirectForm
<1>10. j # combo.index =>
         /\ todo' # <<>> /\ Head(todo')[1] = "ChangeFrequencyIndex" /\ Head(todo')[2] = j
         /\ j # -1 => Changing'
  <2>1. SUFFICES ASSUME j # combo.index
                 PROVE  /\ todo' # <<>> /\ Head(todo')[1] = "ChangeFrequencyIndex"
                        /\ Head(todo')[2] = j
    BY DEF Changing, IsNext
  <2>2. PICK c : c[1] = "ChangeFrequencyIndex" /\ c[2] = j /\ calls = <<c>>
    BY <1>1, <2>1
  <2>3. calls # <<>> /\ Head(calls) = c
    BY <2>2
  <2>4. QED
    BY <1>2, <2>2, <2>3, LeftNext
<1>11. ~Changing' => Shown'
  <2>1. Shows("frequency", window.frequency)' = Shows("frequency", window.frequency)
    BY <1>1 DEF Shows, Bounded
  <2>2. ASSUME NEW name, name \in {"plot", "vtk", "setValue"}, Tells(name) PROVE Tells(name)'
    BY <1>2, <2>2 DEF Tells
  <2>3. QED
    BY <1>1, <1>3, <1>5, <1>6, <2>1, <2>2 DEF Shown, FrequencyPart
<1>12. Shown'
  BY <1>11 DEF Shown
<1>13. CASE n # 0
  <2>1. n \in 1 .. Len(todo) /\ 1 \in 1 .. n
    BY <1>8, <1>9, <1>13
  <2>2. v = w
    BY <1>1, <1>8, <1>9, <2>1 DEF FrontIs, Of
  <2>3. \A c \in Pending(calls) : Of(c, w)
    BY <1>1, <1>4, <2>2 DEF Of
  <2>4. PICK k : k \in 0 .. Len(todo') /\ FrontIs(k, w)'
    BY <1>4, <1>9, <2>1, <2>3, FrontShifts
  <2>5. IndexShows'
    BY <1>1, <1>5, <1>7, <2>2 DEF IndexShows, Item
  <2>6. Form' /\ Aim' = w
    BY <1>2, <1>6, <1>7, <2>4, <2>5, FrontForms
  <2>7. Aimed'
    <3>1. CASE Good(w)
      <4>1. Good(w)'
        BY <1>5, <3>1
      <4>2. QED
        BY <2>6, <4>1 DEF Aimed, Good, Item, InBox
    <3>2. CASE Item(w)
      <4>1. Good(w)
        BY <3>2 DEF Good
      <4>2. QED
        BY <3>1, <4>1
    <3>3. CASE ~Item(w) /\ ~Good(w)
      <4>1. Loading /\ Unaimed
        BY <1>7, <3>3 DEF FrequencyPart, Aimed
      <4>2. \A c \in Pending(calls) : c[1] = "ChangeFrequencyIndex" /\ c[2] = -1
        BY <1>1, <1>4, <2>2, <3>3
      <4>3. Unaimed'
        BY <1>2, <4>1, <4>2 DEF Unaimed, OnFrequency
      <4>4. QED
        BY <1>5, <4>1, <4>3 DEF Aimed
    <3>4. QED
      BY <3>1, <3>2, <3>3
  <2>8. QED
    BY <1>3, <1>5, <1>12, <2>6, <2>7 DEF FrequencyPart
<1>14. CASE n = 0
  <2>1. \A c \in Pending(todo) : Later(c)
    BY <1>8, <1>9, <1>14 DEF FrontIs, Pending
  <2>2. Free /\ (Item(v) \/ Loading)
    <3>1. ~Selecting(n)
      BY <1>14 DEF Selecting
    <3>2. ~IsNext("addItem")
      BY DEF IsNext
    <3>3. Later(Head(todo))
      BY <1>2, <2>1
    <3>4. QED
      BY <1>1, <1>9, <2>1, <3>1, <3>2, <3>3 DEF Free, Later
  <2>3. Loading \/ Rested
    BY <1>2, <2>2, FreeIs
  <2>4. \A d \in Pending(Tail(todo)) : Later(d)'
    BY <1>2, <1>5, <2>1
  <2>5. CASE j = combo.index
    <3>1. \A d \in Pending(todo') : Later(d)'
      BY <1>1, <1>2, <2>4, <2>5, TupleIsSeq
    <3>2. Rested => Rested'
      <4>1. Good(window.frequency)' = Good(window.frequency)
        BY <1>5, <1>7 DEF Good, Item, InBox
      <4>2. Shows("frequency", window.frequency)' = Shows("frequency", window.frequency)
        BY <1>1 DEF Shows, Bounded
      <4>3. IndexShows => IndexShows'
        BY <1>1, <2>5 DEF IndexShows, Item
      <4>4. QED
        BY <1>1, <1>3, <4>1, <4>2, <4>3 DEF Rested
    <3>3. QED
      BY <1>2, <1>3, <1>5, <2>3, <3>1, <3>2, FreeRests
  <2>6. CASE j # combo.index
    <3>1. PICK c : c[1] = "ChangeFrequencyIndex" /\ c[2] = j /\ calls = <<c>>
      BY <1>1, <2>6
    <3>2. PICK a : a = IF Item(v) THEN v ELSE w
      OBVIOUS
    <3>3. Of(c, a)
      BY <1>1, <3>1, <3>2 DEF Of
    <3>4. FrontIs(1, a)' /\ 1 \in 0 .. Len(todo')
      BY <1>2, <2>4, <3>1, <3>3, OneFront
    <3>5. CASE Item(v)
      <4>1. j = v /\ v # -1 /\ a = v
        BY <1>1, <3>2, <3>5 DEF Item
      <4>2. Form' /\ Aim' = a
        BY <1>2, <1>6, <1>10, <2>6, <3>4, <4>1, FrontForms
      <4>3. Good(a)'
        BY <1>5, <3>5, <4>1 DEF Good
      <4>4. Aimed'
        BY <4>2, <4>3 DEF Aimed, Good, Item, InBox
      <4>5. QED
        BY <1>3, <1>5, <1>12, <4>2, <4>4 DEF FrequencyPart
    <3>6. CASE ~Item(v)
      <4>1. Loading' /\ a = w /\ j = -1
        BY <1>1, <1>5, <2>2, <3>2, <3>6
      <4>2. Form'
        BY <1>2, <1>6, <1>7, <3>4, <4>1, FrontForms
      <4>3. Unaimed'
        BY <1>2, <1>4, <2>4, <4>1 DEF Unaimed, Later, OnFrequency
      <4>4. Aimed'
        BY <4>1, <4>3 DEF Aimed
      <4>5. QED
        BY <1>3, <1>5, <1>12, <4>2, <4>4 DEF FrequencyPart
    <3>7. QED
      BY <3>5, <3>6
  <2>7. QED
    BY <2>5, <2>6
<1>15. QED
  BY <1>13, <1>14

\* A call that opens a file changes the box or the selector, which tells the window.
LEMMA OneChange ==
  ASSUME VInv, NEW c, Leaves(<<c>>), Numbers', LatePart',
         \A d \in Pending(Tail(todo)) : Later(d)',
         c[1] = "ChangeFrequencyIndex",
         NEW b, b = c[2], IF b = -1 THEN Loading' ELSE Good(b)'
  PROVE  FrequencyPart'
<1>1. PICK calls : calls = <<c>> /\ Leaves(calls)
  OBVIOUS
<1>2. /\ IsSeq(todo) /\ todo # <<>> /\ IsSeq(todo')
      /\ Pending(todo') = {c} \cup Pending(Tail(todo))
  <2>1. Pending(calls) = {c}
    BY <1>1, TupleIsSeq
  <2>2. QED
    BY <1>1, <2>1, LeftPending DEF VInv, Leaves
<1>3. todo' # <<>> /\ Head(todo') = c
  <2>1. calls # <<>> /\ Head(calls) = c
    BY <1>1
  <2>2. QED
    BY <1>1, <1>2, <2>1, LeftNext
<1>4. PICK a : a = IF b = -1 THEN window'.frequency ELSE b
  OBVIOUS
<1>5. Of(c, a)
  BY <1>4 DEF Of
<1>6. FrontIs(1, a)' /\ 1 \in 0 .. Len(todo') /\ Adjacent'
  BY <1>2, <1>5, OneFront
<1>7. CASE b # -1
  <2>1. Changing' /\ a = b
    BY <1>3, <1>4, <1>7 DEF Changing, IsNext
  <2>2. Form' /\ Aim' = b
    BY <1>2, <1>6, <2>1, FrontForms
  <2>3. Aimed'
    BY <1>7, <2>2 DEF Aimed, Good, Item, InBox
  <2>4. QED
    BY <2>1, <2>2, <2>3 DEF FrequencyPart, Shown
<1>8. CASE b = -1
  <2>1. Loading' /\ a = window'.frequency
    BY <1>4, <1>8
  <2>2. Form'
    BY <1>2, <1>6, <2>1, FrontForms
  <2>3. Unaimed'
    BY <1>2, <1>8 DEF Unaimed, Later, OnFrequency
  <2>4. QED
    BY <2>1, <2>2, <2>3 DEF FrequencyPart, Shown, Aimed
<1>9. QED
  BY <1>7, <1>8

\* The box gets the range of the file.
LEMMA RangeIsGiven ==
  ASSUME VInv, BoxPart, VInv', FrequencyPart, IsOpen, NEW calls, Leaves(calls),
         CallForm(calls), IsBoxCall(calls), SetsRange(Head(todo))
  PROVE  FrequencyPart'
<1>1. /\ IsSeq(todo) /\ todo # <<>> /\ IsSeq(todo') /\ Ordered(todo)
      /\ Pending(todo') = Pending(calls) \cup Pending(Tail(todo))
      /\ Pending(todo) = {Head(todo)} \cup Pending(Tail(todo))
  BY LeftPending DEF VInv, Leaves
<1>2. PICK name \in Spins, s \in [value : Int, min : Int, max : Int] : BoxMoves(name, s, calls)
  BY DEF IsBoxCall
<1>3. name = "frequency" /\ UNCHANGED <<window, combo, plot, vtk>> /\ spin'["frequency"] = s
  BY <1>2 DEF BoxMoves, SetsRange
<1>4. 0 <= s.value /\ s.value <= s.max
  <2>1. InBounds("frequency")'
    BY CallKeepsBoxes DEF BoxPart, Ranges, Spins
  <2>2. spin'["frequency"].min = 0
    BY DEF VInv, Types
  <2>3. QED
    BY <1>3, <2>1, <2>2 DEF InBounds
<1>5. PICK c : /\ c[1] = "ChangeFrequencyIndex" /\ c[2] = s.value
               /\ calls = IF s.value = spin["frequency"].value THEN <<>> ELSE <<c>>
  BY <1>2, <1>3 DEF BoxMoves, Slot
<1>6. Head(todo)[1] = "setMaximum" /\ ~OnFrequency(Head(todo))
  BY DEF SetsRange, OnFrequency
<1>7. \A d \in Pending(todo) : Later(d)
  BY <1>1, <1>6, HeadFree DEF FrequencyPart, Free, SetsRange
<1>8. LatePart /\ Waits("clear") /\ \E d \in Pending(todo) : Fills(d)
  BY <1>1 DEF FrequencyPart, LatePart
<1>9. Numbers'
  BY CallKeepsNumbers
<1>10. \A d \in Pending(todo') : d = c \/ (d \in Pending(Tail(todo)) /\ ~IsFirst(d))
  <2>1. \A d \in Pending(calls) : d = c
    BY <1>5, TupleIsSeq
  <2>2. \A d \in Pending(Tail(todo)) : ~IsFirst(d)
    BY <1>1, TailOrdered DEF Before
  <2>3. QED
    BY <1>1, <2>1, <2>2
<1>11. Waits("clear")' /\ Loading' /\ \E d \in Pending(todo') : Fills(d)
  BY <1>1, <1>6, <1>8 DEF Waits, Loading, Fills
<1>12. ~IsNext("addItem")' /\ ~IsNext("addItem")
  <2>1. todo' # <<>> => Head(todo') \in Pending(todo')
    BY <1>1, TailIsSeq
  <2>2. QED
    BY <1>5, <1>6, <1>10, <2>1 DEF IsNext, IsFirst
<1>13. \A d \in Pending(Tail(todo)) : Later(d)'
  BY <1>1, <1>7, <1>8, <1>11 DEF Later, OnFrequency
<1>14. LatePart'
  <2>1. \A d \in Pending(todo') : d[1] = "FillSelector" => d[2] = 0
    BY <1>1, <1>5, <1>8, <1>10 DEF LatePart
  <2>2. QED
    BY <1>11, <1>12, <2>1 DEF LatePart
<1>15. CASE calls = <<>>
  <2>1. \A d \in Pending(todo') : Later(d)'
    BY <1>1, <1>13, <1>15, TupleIsSeq
  <2>2. QED
    BY <1>1, <1>9, <1>11, <1>14, <2>1, FreeRests
<1>16. CASE calls = <<c>>
  <2>1. PICK b \in Int : b = s.value /\ b = c[2] /\ b # -1
    BY <1>4, <1>5
  <2>2. Good(b)'
    BY <1>3, <1>4, <1>11, <2>1 DEF Good, InBox
  <2>3. QED
    BY <1>5, <1>9, <1>13, <1>14, <1>16, <2>1, <2>2, OneChange
<1>17. QED
  BY <1>5, <1>15, <1>16

\* The selector is emptied.
LEMMA SelectorIsEmptied ==
  ASSUME VInv, VInv', FrequencyPart, IsOpen, NEW calls, Leaves(calls), CallForm(calls),
         ComboCall(calls), Head(todo)[1] = "clear"
  PROVE  FrequencyPart'
<1>1. /\ IsSeq(todo) /\ todo # <<>> /\ IsSeq(todo') /\ Ordered(todo)
      /\ Pending(todo') = Pending(calls) \cup Pending(Tail(todo))
      /\ Pending(todo) = {Head(todo)} \cup Pending(Tail(todo))
  BY LeftPending DEF VInv, Leaves
<1>2. PICK c : c = <<"ChangeFrequencyIndex", -1>>
  OBVIOUS
<1>3. /\ UNCHANGED <<window, spin, plot, vtk>> /\ combo'.count = 0 /\ combo'.index = -1
      /\ calls = IF combo'.index = combo.index THEN <<>> ELSE <<c>>
      /\ c[1] = "ChangeFrequencyIndex" /\ c[2] = -1
  BY <1>2 DEF ComboCall
<1>4. \A d \in Pending(todo) : Later(d)
  BY <1>1, HeadFree DEF FrequencyPart, Free, OnFrequency
<1>5. LatePart /\ Waits("clear") /\ \E d \in Pending(Tail(todo)) : Fills(d)
  BY <1>1 DEF FrequencyPart, LatePart, Waits, Fills
<1>6. Numbers'
  BY CallKeepsNumbers
<1>7. \A d \in Pending(Tail(todo)) : ~IsFirst(d) /\ ~SetsRange(d) /\ d[1] # "clear"
  <2>1. \A d \in Pending(Tail(todo)) : Before(Head(todo), d)
    BY <1>1, TailOrdered
  <2>2. Rank(Head(todo)) = 2
    BY DEF Rank, SetsRange
  <2>3. \A d : Before(Head(todo), d) => ~IsFirst(d) /\ (Rank(d) = 0 \/ 2 < Rank(d))
    BY <2>2 DEF Before
  <2>4. \A d : SetsRange(d) => Rank(d) = 1
    BY DEF Rank
  <2>5. \A d : d[1] = "clear" => Rank(d) = 2
    BY DEF Rank, SetsRange
  <2>6. QED
    BY <2>1, <2>3, <2>4, <2>5
<1>8. \A d \in Pending(todo') : d = c \/ d \in Pending(Tail(todo))
  <2>1. \A d \in Pending(calls) : d = c
    BY <1>3, TupleIsSeq
  <2>2. QED
    BY <1>1, <2>1
<1>9. ~Waits("clear")' /\ ~(\E d \in Pending(todo') : SetsRange(d))
  BY <1>3, <1>7, <1>8 DEF Waits, SetsRange
<1>10. ~IsNext("addItem")'
  <2>1. todo' # <<>> => Head(todo') \in Pending(todo')
    BY <1>1, TailIsSeq
  <2>2. QED
    BY <1>3, <1>7, <1>8, <2>1 DEF IsNext, IsFirst
<1>11. Loading'
  BY <1>1, <1>3, <1>5 DEF Loading, Fills
<1>12. \A d \in Pending(Tail(todo)) : Later(d)'
  BY <1>1, <1>4, <1>5, <1>11 DEF Later, OnFrequency
<1>13. LatePart'
  <2>1. \A d \in Pending(todo') : d[1] = "FillSelector" => d[2] = 0
    BY <1>1, <1>3, <1>5, <1>8 DEF LatePart
  <2>2. QED
    BY <1>3, <1>9, <1>10, <2>1 DEF LatePart
<1>14. CASE calls = <<>>
  <2>1. \A d \in Pending(todo') : Later(d)'
    BY <1>1, <1>12, <1>14, TupleIsSeq
  <2>2. QED
    BY <1>1, <1>6, <1>11, <1>13, <2>1, FreeRests
<1>15. CASE calls = <<c>>
  BY <1>3, <1>6, <1>11, <1>12, <1>13, <1>15, OneChange
<1>16. QED
  BY <1>3, <1>14, <1>15

\* The selector is filled.
LEMMA SelectorIsFilled ==
  ASSUME VInv, VInv', FrequencyPart, IsOpen, NEW calls, Leaves(calls), CallForm(calls),
         FillCall(calls)
  PROVE  FrequencyPart'
<1>1. /\ IsSeq(todo) /\ todo # <<>> /\ IsSeq(todo') /\ Ordered(todo)
      /\ Pending(todo') = Pending(calls) \cup Pending(Tail(todo))
      /\ Pending(todo) = {Head(todo)} \cup Pending(Tail(todo))
  BY LeftPending DEF VInv, Leaves
<1>2. UNCHANGED <<window, spin, combo, plot, vtk>> /\ Head(todo)[1] = "FillSelector"
  BY DEF FillCall
<1>3. \A d \in Pending(Tail(todo)) :
        ~SetsRange(d) /\ d[1] \notin {"clear", "FillSelector", "addItem"}
  BY <1>1, <1>2, BehindFillSelector
<1>4. \A d \in Pending(todo) : Later(d)
  BY <1>1, <1>2, HeadFree DEF FrequencyPart, Free, OnFrequency
<1>5. Loading \/ Rested
  BY <1>1, <1>2, HeadFree, FreeIs DEF FrequencyPart, OnFrequency
<1>6. ~Waits("clear") /\ ~IsNext("addItem") /\ ~IsNext("LoadContent") /\ Waits("FillSelector")
  BY <1>1, <1>2, <1>3 DEF Waits, IsNext
<1>7. PICK K \in Nat : K = combo.count /\ Head(todo)[2] = K
  BY <1>1, <1>2, <1>6 DEF FrequencyPart, LatePart, Numbers
<1>8. PICK last \in Nat : last = file.frequencies /\ last # 0
                         /\ Frequencies(window.file) = 0 .. last - 1
  <2>1. window.file \in Files
    BY DEF VInv, Types, IsOpen
  <2>2. Content[window.file].frequencies \in Nat \ {0}
    BY <2>1, ContentAssumption
  <2>3. QED
    BY <2>2 DEF file, Frequencies
<1>9. Loading => K = 0
  BY <1>6, <1>7 DEF Loading
<1>10. Numbers'
  BY CallKeepsNumbers
<1>11. \A v : Item(v)' = Item(v) /\ InBox(v)' = InBox(v)
  BY <1>2 DEF Item, InBox
<1>12. ~Loading => Item(window.frequency)
  BY <1>5, <1>6 DEF Rested, Good
<1>13. ~Loading => Rested'
  <2>1. Good(window.frequency)' \/ Loading
    BY <1>2, <1>11, <1>12 DEF Good, Item
  <2>2. Shows("frequency", window.frequency)' = Shows("frequency", window.frequency)
    BY <1>2 DEF Shows, Bounded
  <2>3. QED
    BY <1>2, <1>5, <2>1, <2>2 DEF Rested, IndexShows, Item, IsSpectral, IsOpen, IsSpectrum
<1>14. CASE calls = <<>>
  <2>1. K \notin 0 .. last - 1
    BY <1>7, <1>8, <1>14, TupleIsSeq DEF FillCall
  <2>2. ~Loading
    BY <1>8, <1>9, <2>1
  <2>3. Pending(todo') = Pending(Tail(todo))
    BY <1>1, <1>14, TupleIsSeq
  <2>4. todo' # <<>> => Head(todo') \in Pending(todo')
    BY <1>1, TailIsSeq
  <2>5. ~Waits("clear")' /\ ~IsNext("addItem")'
    BY <1>3, <2>3, <2>4 DEF Waits, IsNext
  <2>6. LatePart'
    BY <1>3, <2>3, <2>5 DEF LatePart, SetsRange
  <2>7. \A d \in Pending(todo') : Later(d)'
    BY <1>1, <1>4, <1>6, <1>11, <2>2, <2>3, <2>5 DEF Later, OnFrequency
  <2>8. QED
    BY <1>1, <1>10, <1>13, <2>2, <2>6, <2>7, FreeRests
<1>15. CASE calls # <<>>
  <2>1. /\ \A c \in Pending(calls) :
             \/ c[1] = "addItem"
             \/ c[1] = "setCurrentIndex" /\ c[2] = K
             \/ c[1] = "FillSelector" /\ c[2] = K + 1
        /\ \A name \in {"addItem", "FillSelector"} : \E c \in Pending(calls) : c[1] = name
    BY <1>7, <1>15 DEF FillCall
  <2>2. PICK a \in Pending(calls) : a[1] = "addItem"
    BY <2>1
  <2>3. PICK f \in Pending(calls) : f[1] = "FillSelector"
    BY <2>1
  <2>4. IsNext("addItem")'
    <3>1. IsSeq(todo') /\ Ordered(todo') /\ a \in Pending(todo') /\ IsFirst(a)
      BY <1>1, <2>2 DEF VInv, IsFirst
    <3>2. PICK t : t = todo'
      OBVIOUS
    <3>3. \A d \in Pending(Tail(t)) : ~IsFirst(d)
      <4>1. t # <<>>
        BY <3>1, <3>2, TupleIsSeq
      <4>2. QED
        BY <3>1, <3>2, <4>1, TailOrdered DEF Before
    <3>4. t # <<>> /\ Pending(t) = {Head(t)} \cup Pending(Tail(t))
      <4>1. t # <<>>
        BY <3>1, <3>2, TupleIsSeq
      <4>2. QED
        BY <3>1, <3>2, <4>1, TailIsSeq
    <3>5. QED
      BY <2>2, <3>1, <3>2, <3>3, <3>4 DEF IsNext
  <2>5. ~Waits("clear")' /\ Waits("FillSelector")'
    BY <1>1, <1>3, <2>1, <2>3 DEF Waits
  <2>6. combo'.count = K
    BY <1>2, <1>7
  <2>7. LatePart'
    <3>1. \A d \in Pending(todo') : ~SetsRange(d)
      BY <1>1, <1>3, <2>1 DEF SetsRange
    <3>2. \A d \in Pending(todo') : d[1] = "FillSelector" => d[2] = K + 1
      BY <1>1, <1>3, <2>1
    <3>3. QED
      BY <2>4, <2>5, <2>6, <3>1, <3>2 DEF LatePart
  <2>8. Loading => Loading'
    BY <1>9, <2>4, <2>6 DEF Loading
  <2>9. \A d \in Pending(todo') : Later(d)'
    <3>1. ASSUME NEW d \in Pending(calls) PROVE Later(d)'
      BY <2>1, <2>4, <2>5, <2>6 DEF Later, OnFrequency
    <3>2. ASSUME NEW d \in Pending(Tail(todo)) PROVE Later(d)'
      BY <1>1, <1>4, <1>6, <1>11, <2>5, <2>8 DEF Later, OnFrequency
    <3>3. QED
      BY <1>1, <3>1, <3>2
  <2>10. QED
    BY <1>1, <1>10, <1>13, <2>7, <2>8, <2>9, FreeRests
<1>16. QED
  BY <1>14, <1>15

\* An item is added.
LEMMA ItemIsAdded ==
  ASSUME VInv, VInv', FrequencyPart, IsOpen, NEW calls, Leaves(calls), CallForm(calls),
         ComboCall(calls), Head(todo)[1] = "addItem"
  PROVE  FrequencyPart'
<1>1. /\ IsSeq(todo) /\ todo # <<>> /\ IsSeq(todo') /\ Ordered(todo)
      /\ Pending(todo') = Pending(calls) \cup Pending(Tail(todo))
      /\ Pending(todo) = {Head(todo)} \cup Pending(Tail(todo))
  BY LeftPending DEF VInv, Leaves
<1>2. PICK K \in Nat, i \in Int : K = combo.count /\ i = combo.index /\ -1 <= i /\ i < K
  BY DEF FrequencyPart, Numbers
<1>3. PICK j \in Int : j = IF K = 0 THEN 0 ELSE i
  BY <1>2
<1>4. PICK c : c = <<"ChangeFrequencyIndex", j>>
  OBVIOUS
<1>5. /\ UNCHANGED <<window, spin, plot, vtk>> /\ combo'.count = K + 1 /\ combo'.index = j
      /\ calls = IF j = i THEN <<>> ELSE <<c>>
      /\ c[1] = "ChangeFrequencyIndex" /\ c[2] = j
  BY <1>2, <1>3, <1>4 DEF ComboCall
<1>6. \A d \in Pending(todo) : Later(d)
  BY <1>1, HeadFree DEF FrequencyPart, Free, OnFrequency
<1>7. Loading \/ Rested
  BY <1>1, HeadFree, FreeIs DEF FrequencyPart, OnFrequency
<1>8. /\ IsNext("addItem") /\ ~IsNext("LoadContent") /\ ~Waits("clear") /\ Waits("FillSelector")
      /\ \A d \in Pending(todo) : d[1] = "FillSelector" => d[2] = K + 1
      /\ ~(\E d \in Pending(todo) : SetsRange(d))
  BY <1>1, <1>2 DEF FrequencyPart, LatePart, IsNext
<1>9. Numbers'
  BY CallKeepsNumbers
<1>10. \A d \in Pending(todo') : d = c \/ (d \in Pending(Tail(todo)) /\ ~IsFirst(d))
  <2>1. \A d \in Pending(calls) : d = c
    BY <1>5, TupleIsSeq
  <2>2. \A d \in Pending(Tail(todo)) : ~IsFirst(d)
    BY <1>1, TailOrdered DEF Before
  <2>3. QED
    BY <1>1, <2>1, <2>2
<1>11. ~Waits("clear")' /\ ~IsNext("addItem")'
  <2>1. todo' # <<>> => Head(todo') \in Pending(todo')
    BY <1>1, TailIsSeq
  <2>2. QED
    BY <1>1, <1>5, <1>8, <1>10, <2>1 DEF Waits, IsNext, IsFirst
<1>12. LatePart'
  <2>1. \A d \in Pending(todo') : ~SetsRange(d) /\ (d[1] = "FillSelector" => d[2] = K + 1)
    BY <1>1, <1>5, <1>8, <1>10 DEF SetsRange
  <2>2. QED
    BY <1>5, <1>11, <2>1 DEF LatePart
<1>13. Item(K)' /\ Item(0)' /\ \A v \in Int : Item(v) => Item(v)'
  BY <1>2, <1>5 DEF Item
<1>14. \A d \in Pending(Tail(todo)) : Later(d)'
  <2> SUFFICES ASSUME NEW d \in Pending(Tail(todo)) PROVE Later(d)'
    OBVIOUS
  <2>1. Later(d) /\ d \in Pending(todo)
    BY <1>1, <1>6
  <2>2. CASE d[1] = "setCurrentIndex"
    <3>1. d[2] \in Int
      BY <2>1, <2>2 DEF VInv, Calls, TypedCall
    <3>2. d[2] = 0 \/ Item(d[2]) \/ d[2] = K
      BY <1>2, <2>1, <2>2 DEF Later
    <3>3. Item(d[2])'
      BY <1>13, <3>1, <3>2 DEF Item
    <3>4. QED
      BY <1>11, <2>1, <3>3 DEF Later, OnFrequency, Item
  <2>3. CASE d[1] # "setCurrentIndex"
    BY <2>1, <2>3 DEF Later, OnFrequency
  <2>4. QED
    BY <2>2, <2>3
<1>15. CASE K = 0
  <2>1. calls = <<c>> /\ j = 0 /\ j # -1
    BY <1>2, <1>3, <1>5, <1>15
  <2>2. Good(j)'
    BY <1>13, <2>1 DEF Good
  <2>3. QED
    BY <1>5, <1>9, <1>12, <1>14, <2>1, <2>2, OneChange
<1>16. CASE K # 0
  <2>1. calls = <<>> /\ combo'.index = i /\ ~Loading
    BY <1>2, <1>3, <1>5, <1>8, <1>16 DEF Loading
  <2>2. Rested
    BY <1>7, <2>1
  <2>3. PICK w \in Nat : w = window.frequency
    BY DEF FrequencyPart, Numbers
  <2>4. Item(w)
    BY <1>8, <2>1, <2>2, <2>3 DEF Rested, Good
  <2>5. i = w
    BY <1>2, <2>2, <2>3, <2>4 DEF Rested, IndexShows
  <2>6. Rested'
    <3>1. Good(window.frequency)'
      BY <1>5, <1>13, <2>3, <2>4 DEF Good, Item
    <3>2. Shows("frequency", window.frequency)' = Shows("frequency", window.frequency)
      BY <1>5 DEF Shows, Bounded
    <3>3. IndexShows'
      BY <1>5, <2>1, <2>3, <2>5 DEF IndexShows
    <3>4. QED
      BY <1>5, <2>2, <3>1, <3>2, <3>3 DEF Rested, IsSpectral, IsOpen, IsSpectrum
  <2>7. \A d \in Pending(todo') : Later(d)'
    BY <1>1, <1>14, <2>1, TupleIsSeq
  <2>8. QED
    BY <1>1, <1>9, <1>12, <2>6, <2>7, FreeRests
<1>17. QED
  BY <1>15, <1>16

-----------------------------------------------------------------------------
(* A file is opened.                                                       *)

\* A file is opened, or cannot be read.
LEMMA FileIsOpened ==
  ASSUME VInv, VInv', FrequencyPart, NEW calls, Leaves(calls), CallForm(calls),
         OpenCall(calls)
  PROVE  FrequencyPart'
<1>1. /\ IsSeq(todo) /\ todo # <<>> /\ IsSeq(todo')
      /\ Pending(todo') = Pending(calls) \cup Pending(Tail(todo))
  BY LeftPending DEF VInv, Leaves
<1>2. Numbers'
  BY CallKeepsNumbers
<1>3. CASE calls = <<>>
  <2>1. window'.file = NoFile
    BY <1>3, TupleIsSeq DEF OpenCall
  <2>2. QED
    BY <1>2, <2>1 DEF FrequencyPart, IsOpen
<1>4. CASE calls # <<>>
  <2>1. PICK c : c = <<"LoadContent">>
    OBVIOUS
  <2>2. calls = <<c>> /\ c[1] = "LoadContent"
    BY <1>4, <2>1 DEF OpenCall
  <2>3. Begins(Head(todo))
    BY DEF OpenCall, Begins
  <2>4. \A d \in Pending(todo') : d[1] \in {"LoadContent", "ChangePhiAndTheta"}
    <3>1. \A d \in Pending(Tail(todo)) : d[1] = "ChangePhiAndTheta"
      BY <1>1, <2>3, BehindBeginning
    <3>2. \A d \in Pending(calls) : d = c
      BY <2>2, TupleIsSeq
    <3>3. QED
      BY <1>1, <2>2, <3>1, <3>2
  <2>5. IsNext("LoadContent")' /\ ~IsNext("addItem")'
    <3>1. calls # <<>> /\ Head(calls) = c
      BY <2>2
    <3>2. todo' # <<>> /\ Head(todo') = c
      BY <1>1, <3>1, LeftNext
    <3>3. QED
      BY <2>2, <3>2 DEF IsNext
  <2>6. LatePart' /\ Loading'
    BY <2>4, <2>5 DEF LatePart, Loading, Waits, SetsRange
  <2>7. \A d \in Pending(todo') : Later(d)'
    BY <2>4 DEF Later, OnFrequency
  <2>8. QED
    BY <1>1, <1>2, <2>6, <2>7, FreeRests
<1>5. QED
  BY <1>3, <1>4

\* The new content is given to the widgets.
LEMMA ContentIsLoaded ==
  ASSUME VInv, VInv', FrequencyPart, NEW calls, Leaves(calls), CallForm(calls),
         LoadCall(calls)
  PROVE  FrequencyPart'
<1>1. /\ IsSeq(todo) /\ todo # <<>> /\ IsSeq(todo')
      /\ Pending(todo') = Pending(calls) \cup Pending(Tail(todo))
  BY LeftPending DEF VInv, Leaves
<1>2. Numbers'
  BY CallKeepsNumbers
<1>3. \A d \in Pending(Tail(todo)) : d[1] = "ChangePhiAndTheta"
  BY <1>1, BehindBeginning DEF LoadCall, Begins
<1>4. \A d \in Pending(todo') :
        \/ GivesRange(d) \/ SetsRange(d) \/ d[1] = "clear"
        \/ d[1] \in {"FillSelector", "setCurrentIndex"} /\ d[2] = 0
        \/ d[1] = "ChangePhiAndTheta"
  BY <1>1, <1>3 DEF LoadCall
<1>5. Waits("clear")' /\ \E d \in Pending(todo') : Fills(d)
  <2>1. PICK c \in Pending(calls) : c[1] = "clear"
    BY DEF LoadCall
  <2>2. PICK f \in Pending(calls) : f[1] = "FillSelector"
    BY DEF LoadCall
  <2>3. f[2] = 0
    BY <1>1, <1>4, <2>2 DEF GivesRange, SetsRange
  <2>4. QED
    BY <1>1, <2>1, <2>2, <2>3 DEF Waits, Fills
<1>6. ~IsNext("addItem")'
  <2>1. todo' # <<>> => Head(todo') \in Pending(todo')
    BY <1>1, TailIsSeq
  <2>2. QED
    BY <1>4, <2>1 DEF IsNext, GivesRange, SetsRange
<1>7. \A d \in Pending(todo') : d[1] = "FillSelector" => d[2] = 0
  BY <1>4 DEF GivesRange, SetsRange
<1>8. Loading' /\ LatePart'
  BY <1>5, <1>6, <1>7 DEF Loading, LatePart
<1>9. \A d \in Pending(todo') : Later(d)'
  BY <1>4, <1>8 DEF Later, OnFrequency, GivesRange, SetsRange
<1>10. QED
  BY <1>1, <1>2, <1>8, <1>9, FreeRests

LEMMA CallKeepsFrequency ==
  ASSUME VInv, VInv', BoxPart, FrequencyPart, NEW calls, Leaves(calls), CallForm(calls)
  PROVE  FrequencyPart'
<1>1. CASE OpenCall(calls)
  BY <1>1, FileIsOpened
<1>2. CASE LoadCall(calls)
  BY <1>2, ContentIsLoaded
<1>3. CASE ~IsOpen /\ ~OpenCall(calls)
  <2>1. window'.file = window.file
    BY <1>3, WindowMoves
  <2>2. QED
    BY <1>3, <2>1, CallKeepsNumbers DEF FrequencyPart, IsOpen
<1>4. CASE IsOpen /\ ~OpenCall(calls) /\ ~LoadCall(calls)
  <2>1. CASE FillCall(calls)
    BY <1>4, <2>1, SelectorIsFilled
  <2>2. CASE FrequencyCall(calls)
    BY <1>4, <2>2, FrequencyIsTaken
  <2>3. CASE ComboCall(calls)
    <3>1. CASE Head(todo)[1] = "clear"
      BY <1>4, <2>3, <3>1, SelectorIsEmptied
    <3>2. CASE Head(todo)[1] = "addItem"
      BY <1>4, <2>3, <3>2, ItemIsAdded
    <3>3. CASE Head(todo)[1] = "setCurrentIndex"
      <4>1. ~TypedForm
        <5>1. ASSUME NEW c, todo = <<c>> PROVE Head(todo) = c
          BY <5>1
        <5>2. QED
          BY <3>3, <5>1 DEF TypedForm
      <4>2. Adjacent /\ (DirectForm \/ RestoredForm)
        BY <1>4, <4>1 DEF FrequencyPart, Form
      <4>3. QED
        BY <1>4, <2>3, <3>3, <4>2, SelectorIsTold, SelectorRestores
    <3>4. QED
      BY <2>3, <3>1, <3>2, <3>3 DEF ComboCall
  <2>4. CASE IsBoxCall(calls) /\ Head(todo)[1] = "setValue" /\ Head(todo)[2] = "frequency"
    BY <1>4, <2>4, TypedBox, ToldBox
  <2>5. CASE IsBoxCall(calls) /\ SetsRange(Head(todo))
    BY <1>4, <2>5, RangeIsGiven
  <2>6. CASE calls = <<>> /\ (PlotCall \/ VtkCall) /\ OnFrequency(Head(todo))
    BY <1>4, <2>6, PlotIsTold
  <2>7. CASE /\ ~OnFrequency(Head(todo)) /\ ~LateCall(Head(todo))
             /\ Head(todo)[1] # "setCurrentIndex"
    BY <2>7, StillKeeps
  <2>8. \/ /\ ~OnFrequency(Head(todo)) /\ ~LateCall(Head(todo))
           /\ Head(todo)[1] # "setCurrentIndex"
        \/ FillCall(calls) \/ FrequencyCall(calls) \/ ComboCall(calls)
        \/ IsBoxCall(calls) /\ Head(todo)[1] = "setValue" /\ Head(todo)[2] = "frequency"
        \/ IsBoxCall(calls) /\ SetsRange(Head(todo))
        \/ calls = <<>> /\ (PlotCall \/ VtkCall) /\ OnFrequency(Head(todo))
    <3>1. CASE IsBoxCall(calls)
      <4>1. Head(todo)[1] \in {"setValue", "setMinimum", "setMaximum"}
        BY <3>1 DEF IsBoxCall, BoxMoves, BoxCall
      <4>2. QED
        BY <3>1, <4>1 DEF OnFrequency, LateCall, SetsRange
    <3>2. CASE calls = <<>> /\ (PlotCall \/ VtkCall)
      BY <3>2 DEF PlotCall, VtkCall, OnFrequency, LateCall, SetsRange
    <3>3. CASE IndicatorCall \/ ChannelCall(calls) \/ RecordCall(calls) \/ FollowCall(calls)
      BY <3>3 DEF IndicatorCall, ChannelCall, RecordCall, FollowCall, OnFrequency, LateCall,
         SetsRange
    <3>4. CASE (\E name \in Selections : TellCall(name, calls))
      BY <3>4 DEF TellCall, Teller, Selections, OnFrequency, LateCall, SetsRange
    <3>5. CASE DataViewCall(calls) \/ ObjectViewCall(calls)
      BY <3>5 DEF DataViewCall, ObjectViewCall, OnFrequency, LateCall, SetsRange
    <3>6. QED
      BY <1>4, <3>1, <3>2, <3>3, <3>4, <3>5 DEF CallForm
  <2>9. QED
    BY <2>1, <2>2, <2>3, <2>4, <2>5, <2>6, <2>7, <2>8
<1>5. QED
  BY <1>1, <1>2, <1>3, <1>4

-----------------------------------------------------------------------------
(* The user, and the calls all done.                                       *)

LEMMA FrequencyAtRest ==
  ASSUME VInv, FrequencyPart, Quiet, IsOpen
  PROVE  Rested /\ ~Loading /\ Pending(todo) = {}
<1>1. Pending(todo) = {} /\ todo = <<>> /\ Len(todo) = 0
  BY AtRest DEF Quiet
<1>2. ~Loading /\ ~Changing
  BY <1>1 DEF Loading, Changing, IsNext, Waits
<1>3. ~TypedForm /\ ~RestoredForm
  BY <1>1 DEF TypedForm, RestoredForm
<1>4. \A n \in 0 .. Len(todo) : ~Selecting(n)
  BY <1>1 DEF Selecting
<1>5. Free
  BY <1>1, <1>3, <1>4 DEF FrequencyPart, Form, DirectForm, Free
<1>6. Rested
  BY <1>2, <1>5, FreeIs DEF FrequencyPart, VInv
<1>7. QED
  BY <1>1, <1>2, <1>6

\* One step up or down from a frequency that is shown.
LEMMA NextIsGood ==
  ASSUME VInv, FrequencyPart, Quiet, NEW v \in Int, FrequencyStep(v)
  PROVE  Item(v) \/ InBox(v)
<1>1. IsOpen /\ v >= 0
  BY DEF FrequencyStep
<1>2. PICK w \in Nat, K \in Nat : w = window.frequency /\ K = combo.count
  BY DEF FrequencyPart, Numbers
<1>3. PICK M \in Int : M = spin["frequency"].max
  BY DEF VInv, Types, Spins
<1>4. w < K \/ w <= M
  BY <1>1, <1>2, <1>3, FrequencyAtRest DEF Rested, Good, Item, InBox
<1>5. CASE v = w - 1
  BY <1>1, <1>2, <1>3, <1>4, <1>5 DEF Item, InBox
<1>6. CASE v # w - 1
  <2>1. IsSpectral /\ v <= LastFrequency
    BY <1>2, <1>6 DEF FrequencyStep
  <2>2. M = LastFrequency
    BY <1>3, <2>1, AtRest DEF BoxIsSet
  <2>3. v <= M
    BY <2>1, <2>2
  <2>4. QED
    BY <1>1, <1>3, <2>3 DEF InBox
<1>7. QED
  BY <1>5, <1>6

LEMMA UserStepsFrequency ==
  ASSUME VInv, VInv', FrequencyPart, NEW v \in Int, FrequencyStep(v)
  PROVE  FrequencyPart'
<1>1. /\ IsOpen /\ Quiet /\ v \in Nat /\ UNCHANGED <<spin, combo, plot, vtk>>
      /\ window'.frequency = v /\ todo' = EmitFrequency(v)
  BY DEF FrequencyStep, Quietly
<1>told. PICK p, q, r, s, t : TellFrequency(EmitFrequency(v), v, p, q, r, s, t)
  BY FrequencyBlock, Zenon
<1>2. /\ EmitFrequency(v) = <<p, q, r, s, t>> /\ Pending(<<p, q, r, s, t>>) = {p, q, r, s, t}
      /\ p[1] = "vtk" /\ p[2] = "frequency" /\ p[3] = v
      /\ q[1] = "setValue" /\ q[2] = "frequency" /\ q[3] = v
      /\ r[1] = "setCurrentIndex" /\ r[2] = v
      /\ s[1] = "vtk" /\ s[2] = "frequency" /\ s[3] = v
      /\ t[1] = "plot" /\ t[2] = "frequency" /\ t[3] = v
  BY <1>told DEF TellFrequency
<1>3. todo' = <<p, q, r, s, t>> /\ Pending(todo') = {p, q, r, s, t} /\ IsSeq(todo')
  BY <1>1, <1>2 DEF VInv
<1>4. /\ Len(todo') = 5 /\ todo'[1] = p /\ todo'[2] = q /\ todo'[3] = r
      /\ todo'[4] = s /\ todo'[5] = t
  BY <1>3
<1>5. \A l \in 1 .. 5 : l = 1 \/ l = 2 \/ l = 3 \/ l = 4 \/ l = 5
  OBVIOUS
<1>6. Adjacent'
  <2> SUFFICES ASSUME NEW k \in 1 .. Len(todo'), NEW box, box = todo'[k],
                      box[1] = "setValue", box[2] = "frequency"
               PROVE  /\ k < Len(todo') /\ todo'[k + 1][1] = "setCurrentIndex"
                      /\ todo'[k + 1][2] = box[3]
    BY DEF Adjacent
  <2>1. k = 2
    BY <1>2, <1>4, <1>5
  <2>2. k + 1 = 3 /\ k < 5
    BY <2>1
  <2>3. box = q /\ todo'[k + 1] = r
    BY <1>4, <2>1, <2>2
  <2>4. QED
    BY <1>2, <1>4, <2>2, <2>3
<1>7. FrontIs(5, v)' /\ 5 \in 0 .. Len(todo') /\ Selecting(5)'
  <2>1. \A c \in Pending(todo') : Of(c, v)
    BY <1>2, <1>3 DEF Of
  <2>2. ASSUME NEW l \in 1 .. 5 PROVE Of(todo[l], v)'
    <3>1. PICK c : c = todo'[l] /\ c \in Pending(todo')
      BY <1>4 DEF Pending
    <3>2. Of(c, v)
      BY <2>1, <3>1
    <3>3. QED
      BY <3>1, <3>2 DEF Of
  <2>3. 5 + 1 .. Len(todo') = {} /\ 3 \in 1 .. 5
    BY <1>4
  <2>4. Selecting(5)'
    BY <1>2, <1>4, <2>3 DEF Selecting
  <2>5. QED
    BY <1>4, <2>2, <2>3, <2>4 DEF FrontIs
<1>8. Form' /\ Aim' = v
  BY <1>1, <1>3, <1>6, <1>7, FrontForms
<1>9. \A name : name \in {"clear", "FillSelector", "addItem", "setMaximum", "LoadContent"} =>
        \A c \in Pending(todo') : c[1] # name
  BY <1>2, <1>3
<1>10. ~IsNext("addItem")'
  <2>1. Head(todo') = p
    BY <1>3
  <2>2. QED
    BY <1>2, <2>1 DEF IsNext
<1>11. LatePart'
  BY <1>9, <1>10 DEF LatePart, Waits, SetsRange
<1>12. Good(v)'
  <2>1. Item(v)' \/ InBox(v)'
    BY <1>1, NextIsGood DEF Item, InBox
  <2>2. ~Waits("FillSelector")'
    BY <1>9 DEF Waits
  <2>3. QED
    BY <2>1, <2>2 DEF Good
<1>13. Aimed'
  BY <1>8, <1>12 DEF Aimed, Good, Item, InBox
<1>14. Shown'
  <2>1. Tells("plot")' /\ Tells("vtk")' /\ Tells("setValue")'
    BY <1>2, <1>3 DEF Tells
  <2>2. QED
    BY <2>1 DEF Shown
<1>15. Numbers'
  BY <1>1 DEF FrequencyPart, Numbers
<1>16. QED
  BY <1>8, <1>11, <1>13, <1>14, <1>15 DEF FrequencyPart

\* Nothing is left of the frequency when the user does something else.
LEMMA UserLeavesFrequency ==
  ASSUME VInv, VInv', FrequencyPart, Quietly, IsOpen, window'.file = window.file,
         window'.frequency = window.frequency,
         \A c \in Pending(todo') :
           /\ ~OnFrequency(c) /\ ~SetsRange(c)
           /\ c[1] \notin {"clear", "FillSelector", "addItem"}
           /\ c[1] = "setCurrentIndex" => Item(c[2])
  PROVE  FrequencyPart'
<1>1. UNCHANGED <<spin, combo, plot, vtk>> /\ Rested /\ IsSeq(todo')
  BY FrequencyAtRest DEF Quietly, VInv
<1>2. IsOpen' = IsOpen /\ IsSpectral' = IsSpectral
  BY DEF IsOpen, IsSpectral, IsSpectrum
<1>3. ~Waits("clear")' /\ ~Waits("FillSelector")' /\ ~IsNext("addItem")'
  <2>1. todo' # <<>> => Head(todo') \in Pending(todo')
    BY <1>1, TailIsSeq
  <2>2. QED
    BY <2>1 DEF Waits, IsNext
<1>4. LatePart'
  BY <1>3 DEF LatePart, Waits
<1>5. Numbers'
  BY <1>1 DEF FrequencyPart, Numbers
<1>6. \A c \in Pending(todo') : Later(c)'
  BY <1>1, <1>3 DEF Later, OnFrequency, Item
<1>7. Rested'
  <2>1. Good(window.frequency)'
    BY <1>1, <1>3 DEF Rested, Good, Item, InBox
  <2>2. Shows("frequency", window.frequency)' = Shows("frequency", window.frequency)
    BY <1>1 DEF Shows, Bounded
  <2>3. QED
    BY <1>1, <1>2, <2>1, <2>2 DEF Rested, IndexShows, Item
<1>8. QED
  BY <1>1, <1>4, <1>5, <1>6, <1>7, FreeRests

LEMMA UserTypesFrequency ==
  ASSUME VInv, VInv', FrequencyPart, IsOpen, NEW c, OneCall(c),
         c[1] = "setValue", c[2] = "frequency"
  PROVE  FrequencyPart'
<1>1. UNCHANGED <<window, spin, combo, plot, vtk>> /\ todo' = <<c>> /\ Quiet
  BY DEF OneCall, Quietly
<1>2. Rested /\ Pending(todo') = {c} /\ Head(todo') = c
  BY <1>1, FrequencyAtRest, TupleIsSeq
<1>3. /\ \A name : name # "setValue" => ~Waits(name)' /\ ~IsNext(name)'
      /\ ~(\E d \in Pending(todo') : SetsRange(d))
  BY <1>2 DEF Waits, IsNext, SetsRange
<1>4. LatePart'
  BY <1>3 DEF LatePart, Waits
<1>5. ~Changing' /\ Aim' = window.frequency
  BY <1>1, <1>3 DEF Changing, Aim
<1>6. Shows("frequency", window.frequency)' /\ IndexShows' /\ Good(window.frequency)'
  BY <1>1, <1>2, <1>3 DEF Rested, Shows, Bounded, IndexShows, Good, Item, InBox
<1>7. Form'
  BY <1>1, <1>6 DEF Form, TypedForm
<1>8. Shown'
  BY <1>1, <1>2, <1>6 DEF Shown, Rested, IsSpectral, IsOpen, IsSpectrum
<1>9. Aimed'
  BY <1>1, <1>5, <1>6 DEF Aimed, Good, Item, InBox
<1>10. Numbers'
  BY <1>1 DEF FrequencyPart, Numbers
<1>11. QED
  BY <1>4, <1>7, <1>8, <1>9, <1>10 DEF FrequencyPart

LEMMA UserKeepsFrequency ==
  ASSUME VInv, VInv', FrequencyPart, User
  PROVE  FrequencyPart'
<1>1. CASE CloseStep
  <2>1. combo' = combo /\ window'.frequency = window.frequency /\ window'.file = NoFile
    BY <1>1 DEF CloseStep, Members
  <2>2. QED
    BY <2>1 DEF FrequencyPart, Numbers, IsOpen
<1>2. ASSUME ~IsOpen, Quietly, window'.file = window.file,
             window'.frequency = window.frequency
      PROVE  FrequencyPart'
  BY <1>2 DEF FrequencyPart, Numbers, IsOpen, Quietly
<1>3. CASE \E c : OneCall(c)
  <2>1. PICK c : OneCall(c)
    BY <1>3
  <2>2. CASE ~IsOpen
    BY <1>2, <2>1, <2>2 DEF OneCall
  <2>3. CASE IsOpen /\ c[1] = "setValue" /\ c[2] = "frequency"
    BY <2>1, <2>3, UserTypesFrequency
  <2>4. CASE IsOpen /\ ~(c[1] = "setValue" /\ c[2] = "frequency")
    <3>1. Pending(todo') = {c}
      BY <2>1, TupleIsSeq DEF OneCall
    <3>2. c[1] = "setCurrentIndex" => Item(c[2])
      <4>1. combo.count \in Nat
        BY DEF FrequencyPart, Numbers
      <4>2. QED
        BY <2>1, <4>1 DEF OneCall, Asked, Item
    <3>3. /\ ~OnFrequency(c) /\ ~SetsRange(c)
          /\ c[1] \notin {"clear", "FillSelector", "addItem"}
      BY <2>1, <2>4 DEF OneCall, Asked, OnFrequency, SetsRange
    <3>4. QED
      BY <2>1, <2>4, <3>1, <3>2, <3>3, UserLeavesFrequency DEF OneCall
  <2>5. QED
    BY <2>2, <2>3, <2>4
<1>4. CASE \E v \in Int : FrequencyStep(v)
  BY <1>4, UserStepsFrequency
<1>5. CASE \E v \in Int : ChannelStep(v)
  <2>1. PICK v \in Int : ChannelStep(v)
    BY <1>5
  <2>2. Quietly /\ window'.file = window.file /\ window'.frequency = window.frequency
    BY <2>1 DEF ChannelStep, Members
  <2>3. \A c \in Pending(todo') : c[1] \in {"setValue", "vtk", "plot"} /\ c[2] = "channel"
    BY <2>1, ChannelTellings DEF ChannelStep
  <2>4. \A c \in Pending(todo') :
           /\ ~OnFrequency(c) /\ ~SetsRange(c)
           /\ c[1] \notin {"clear", "FillSelector", "addItem"}
           /\ c[1] = "setCurrentIndex" => Item(c[2])
    BY <2>3 DEF OnFrequency, SetsRange
  <2>5. QED
    BY <1>2, <2>2, <2>4, UserLeavesFrequency
<1>6. QED
  BY <1>1, <1>3, <1>4, <1>5, UserIs

LEMMA InitFrequency == ASSUME Init PROVE FrequencyPart
<1>1. window.file = NoFile /\ window.frequency = 0
  BY InitIs
<1>2. combo.count = 0 /\ combo.index = -1
  BY DEF Init
<1>3. QED
  BY <1>1, <1>2 DEF FrequencyPart, Numbers, IsOpen

LEMMA PartsStutter ==
  ASSUME UNCHANGED vars
  PROVE  BoxPart' = BoxPart /\ ThetaPart' = ThetaPart /\ FrequencyPart' = FrequencyPart
<1>1. UNCHANGED <<window, spin, combo, plot, vtk, todo>>
  BY DEF vars
<1>2. IsOpen' = IsOpen /\ IsSpectral' = IsSpectral
  BY <1>1 DEF IsOpen, IsSpectral, IsSpectrum
<1>3. \A name : Waits(name)' = Waits(name) /\ IsNext(name)' = IsNext(name)
  BY <1>1 DEF Waits, IsNext
<1>nearest. Nearest' = Nearest
  BY <1>1, NearestStays
<1>items. \A v : Item(v)' = Item(v)
  BY <1>1 DEF Item
<1>4. BoxPart' = BoxPart
  <2>1. Ranges' = Ranges
    BY <1>1 DEF Ranges, InBounds, Bounds, InEveryRange, WithinBox
  <2>2. ASSUME NEW name PROVE BoxIsTold(name)' = BoxIsTold(name)
    BY <1>1, <1>3 DEF BoxIsTold, TellsBox, Agrees, Shows, Bounded, Untold, InEveryRange, WithinBox
  <2>3. QED
    BY <2>1, <2>2 DEF BoxPart, BoxesAreTold
<1>5. ThetaPart' = ThetaPart
  <2>1. FollowsAndTells' = FollowsAndTells /\ ThetaFits' = ThetaFits
    BY <1>1 DEF FollowsAndTells, TellsAfterwards, ThetaFits, FitsTheta, WithinBox
  <2>told. \A k : Settled(k)' = Settled(k)
    BY <1>1, <1>2, <1>nearest DEF Settled, Harmless
  <2>2. ThetaIsTold' = ThetaIsTold /\ ThetaIsShown' = ThetaIsShown
    <3>1. ThetaIsTold' = ThetaIsTold
      BY <1>1, <2>told DEF ThetaIsTold, TellsTheta
    <3>2. ThetaIsShown' = ThetaIsShown
      BY <1>1 DEF ThetaIsShown, TellsTheta, Pending
    <3>3. QED
      BY <3>1, <3>2
  <2>3. ThetaIsNearest' = ThetaIsNearest
    BY <1>1, <1>2, NearestStays DEF ThetaIsNearest, CorrectedFirst, Corrected
  <2>4. QED
    BY <2>1, <2>2, <2>3 DEF ThetaPart
<1>6. FrequencyPart' = FrequencyPart
  <2>1. Numbers' = Numbers /\ Loading' = Loading /\ Changing' = Changing /\ Aim' = Aim
    BY <1>1, <1>3 DEF Numbers, Loading, Changing, Aim
  <2>2. LatePart' = LatePart
    BY <1>1, <1>3 DEF LatePart
  <2>3. Adjacent' = Adjacent
    BY <1>1 DEF Adjacent
  <2>4. IndexShows' = IndexShows
        /\ Shows("frequency", window.frequency)' = Shows("frequency", window.frequency)
    BY <1>1 DEF IndexShows, Item, Shows, Bounded
  <2>5. TypedForm' = TypedForm
    BY <1>1, <2>4 DEF TypedForm
  <2>late. \A c : Later(c)' = Later(c)
    BY <1>1, <1>3, <1>items, <2>1 DEF Later, OnFrequency
  <2>front. \A n, v : FrontIs(n, v)' = FrontIs(n, v) /\ Selecting(n)' = Selecting(n)
    BY <1>1, <2>late DEF FrontIs, Of, Selecting
  <2>6. DirectForm' = DirectForm
    BY <1>1, <2>1, <2>4, <2>front DEF DirectForm
  <2>7. RestoredForm' = RestoredForm
    <3>1. \A p, n, u, v : SplitIs(p, n, u, v)' = SplitIs(p, n, u, v)
      BY <1>1, <2>late DEF SplitIs, Of
    <3>2. QED
      BY <1>1, <1>items, <2>1, <2>front, <3>1 DEF RestoredForm
  <2>8. Shown' = Shown
    BY <1>1, <1>2, <2>1, <2>4 DEF Shown, Tells
  <2>9. Aimed' = Aimed
    BY <1>1, <1>3, <2>1 DEF Aimed, Good, Item, InBox, Unaimed
  <2>10. QED
    BY <1>2, <2>1, <2>2, <2>3, <2>5, <2>6, <2>7, <2>8, <2>9 DEF FrequencyPart, Form
<1>7. QED
  BY <1>4, <1>5, <1>6

LEMMA PartsStep ==
  ASSUME VInv, VInv', NeverCut', [Next]_vars, BoxPart, ThetaPart, FrequencyPart
  PROVE  BoxPart' /\ ThetaPart' /\ FrequencyPart'
<1>1. CASE Call
  <2>1. PICK calls : Leaves(calls) /\ CallForm(calls)
    BY <1>1, CallIs
  <2>2. QED
    BY <2>1, CallKeepsBoxes, CallKeepsTheta, CallKeepsFrequency
<1>2. CASE User
  BY <1>2, UserKeepsBoxes, UserKeepsTheta, UserKeepsFrequency
<1>3. CASE UNCHANGED vars
  BY <1>3, PartsStutter
<1>4. QED
  BY <1>1, <1>2, <1>3 DEF Next

\* SelectionsAgree for any files, any answers of the reader within the file, any
\* ranges of the boxes and anything that is typed: when all calls have returned,
\* boxes, selector and plots show what the window has selected.
THEOREM EveryViewAgrees ==
  ASSUME AnswersAreRecords
  PROVE  Spec /\ []NeverCut => []SelectionsAgree
<1> DEFINE Inv == VInv /\ BoxPart /\ ThetaPart /\ FrequencyPart
<1>1. Init => Inv
  BY InitVInv, InitBoxes, InitTheta, InitFrequency
<1>2. Inv /\ NeverCut' /\ [Next]_vars => Inv'
  <2> SUFFICES ASSUME Inv, NeverCut', [Next]_vars PROVE Inv'
    OBVIOUS
  <2>1. VInv'
    BY VInvStep
  <2>2. QED
    BY <2>1, PartsStep
<1>3. Inv => SelectionsAgree
  <2> SUFFICES ASSUME Inv, Quiet, IsOpen PROVE SelectionsAgree
    BY DEF SelectionsAgree
  <2>1. ASSUME NEW name \in Selections PROVE Agrees(name)
    <3>1. ~Waits(Teller[name]) /\ todo = <<>>
      BY AtRest DEF Waits, Quiet
    <3>2. QED
      BY <3>1 DEF BoxPart, BoxesAreTold, BoxIsTold
  <2>2. /\ Shows("record", window.record)
           \/ (window.record \in UnsetRecords /\ Untold("record"))
        /\ InEveryRange("alpha", window.alpha) => Shows("alpha", window.alpha)
        /\ InEveryRange("beta", window.beta) =>
             Shows("beta", window.beta) \/ (window.beta = QuarterTurn /\ Untold("beta"))
        /\ Shows("phi", window.phi) /\ Shows("theta", window.theta)
    <3>1. Agrees("record") /\ Agrees("alpha") /\ Agrees("beta")
          /\ Agrees("phi") /\ Agrees("theta")
      BY <2>1 DEF Selections
    <3>2. QED
      BY <3>1 DEF Agrees, Angles
  <2>3. vtk.theta = window.theta
    BY ThetaAtRest
  <2>4. Rested /\ window.frequency \in Nat
    BY FrequencyAtRest DEF FrequencyPart, Numbers
  <2>5. window.frequency < combo.count => combo.index = window.frequency
    BY <2>4 DEF Rested, IndexShows, Item
  <2>6. /\ Shows("frequency", window.frequency) /\ plot.frequency = window.frequency
        /\ IsSpectrum(window.file) => vtk.frequency = window.frequency
    BY <2>4 DEF Rested, IsSpectral
  <2>7. QED
    BY <2>2, <2>3, <2>5, <2>6 DEF SelectionsAgree
<1>4. QED
  BY <1>1, <1>2, <1>3, PTL DEF Spec

-----------------------------------------------------------------------------
(* The recent files.                                                       *)

Injective(s) == \A i, j \in 1 .. Len(s) : s[i] = s[j] => i = j

LEMMA SuffixOfConcat ==
  ASSUME NEW s \in Seq(Paths), NEW t \in Seq(Paths)
  PROVE  IsSuffix(t, s \o t)
<1>1. PICK u : u = s \o t
  OBVIOUS
<1>2. u \in Seq(Paths) /\ Len(u) = Len(s) + Len(t) /\ Len(s) \in Nat /\ Len(t) \in Nat
  BY <1>1
<1>3. \A i \in 1 .. Len(t) : u[Len(s) + i] = t[i]
  BY <1>1
<1>4. PICK rt, ru : /\ rt = [i \in 1 .. Len(t) |-> t[(Len(t) - i) + 1]]
                    /\ ru = [i \in 1 .. Len(u) |-> u[(Len(u) - i) + 1]]
  OBVIOUS
<1>5. Reverse(t) = rt /\ Reverse(u) = ru
  BY <1>4 DEF Reverse
<1>6. Len(rt) = Len(t) /\ Len(ru) = Len(u)
  BY <1>2, <1>4
<1>7. \A i \in 1 .. Len(t) : rt[i] = ru[i]
  <2>1. ASSUME NEW i \in 1 .. Len(t) PROVE rt[i] = ru[i]
    <3>1. (Len(t) - i) + 1 \in 1 .. Len(t) /\ i \in 1 .. Len(u)
          /\ (Len(u) - i) + 1 = Len(s) + ((Len(t) - i) + 1)
      BY <1>2
    <3>2. ru[i] = u[(Len(u) - i) + 1] /\ rt[i] = t[(Len(t) - i) + 1]
      BY <1>4, <3>1
    <3>3. u[Len(s) + ((Len(t) - i) + 1)] = t[(Len(t) - i) + 1]
      BY <1>3, <3>1
    <3>4. QED
      BY <3>1, <3>2, <3>3
  <2>2. QED
    BY <2>1
<1>8. SubSeq(rt, 1, Len(rt)) = SubSeq(ru, 1, Len(rt))
  <2>1. rt \in Seq(Paths) /\ ru \in Seq(Paths)
    <3>1. \A i \in 1 .. Len(t) : t[(Len(t) - i) + 1] \in Paths
      BY <1>2
    <3>2. \A i \in 1 .. Len(u) : u[(Len(u) - i) + 1] \in Paths
      BY <1>2
    <3>3. QED
      BY <1>2, <1>4, <3>1, <3>2
  <2>2. SubSeq(rt, 1, Len(rt)) = [i \in 1 .. Len(t) |-> rt[i]]
    BY <1>2, <1>6, <2>1
  <2>3. SubSeq(ru, 1, Len(rt)) = [i \in 1 .. Len(t) |-> ru[i]]
    BY <1>2, <1>6, <2>1
  <2>4. QED
    BY <1>7, <2>2, <2>3
<1>9. QED
  BY <1>1, <1>2, <1>5, <1>6, <1>8 DEF IsSuffix, IsPrefix

\* The loop over the old list after i rounds.
Loop(path, n, h) ==
  h = [i \in 0 .. n |-> IF i = 0 THEN <<>>
                        ELSE IF recent[i] = path THEN h[i - 1] ELSE Append(h[i - 1], recent[i])]
Filtered(path, i, s) ==
  /\ s \in Seq(Paths) /\ Len(s) <= i /\ Injective(s)
  /\ \A k \in 1 .. Len(s) : s[k] # path /\ \E j \in 1 .. i : s[k] = recent[j]

LEMMA LoopExists ==
  ASSUME recent \in Seq(Paths), NEW path, NEW n \in 0 .. Len(recent)
  PROVE  \E h : Loop(path, n, h)
<1>1. n \in Nat /\ \A i \in 1 .. n : recent[i] \in Paths
  BY DEF Loop
<1>2. PICK F : F = [j \in Nat |-> [v \in Seq(Paths) |->
                      IF j \in 1 .. n /\ recent[j] # path THEN Append(v, recent[j]) ELSE v]]
  OBVIOUS
<1>3. IsRule(F, Seq(Paths))
  <2>1. ASSUME NEW j \in Nat, NEW v \in Seq(Paths) PROVE F[j][v] \in Seq(Paths)
    <3>1. CASE j \in 1 .. n /\ recent[j] # path
      <4>1. Append(v, recent[j]) \in Seq(Paths)
        BY <1>1, <3>1
      <4>2. QED
        BY <1>2, <3>1, <4>1
    <3>2. CASE ~(j \in 1 .. n /\ recent[j] # path)
      BY <1>2, <3>2
    <3>3. QED
      BY <3>1, <3>2
  <2>2. QED
    BY <2>1 DEF IsRule
<1>4. PICK g : Follows(F, Seq(Paths), <<>>, n, g)
  <2>1. <<>> \in Seq(Paths)
    OBVIOUS
  <2>2. QED
    BY <1>1, <1>3, <2>1, Recursion
<1>5. ASSUME NEW i \in 0 .. n
      PROVE  g[i] = IF i = 0 THEN <<>>
                    ELSE IF recent[i] = path THEN g[i - 1] ELSE Append(g[i - 1], recent[i])
  <2>1. CASE i = 0
    BY <1>4, <2>1 DEF Follows
  <2>2. CASE i # 0
    <3>1. i \in 1 .. n /\ i - 1 \in 0 .. n /\ i \in Nat
      BY <2>2
    <3>2. g[i] = F[i][g[i - 1]] /\ g[i - 1] \in Seq(Paths)
      BY <1>4, <3>1 DEF Follows
    <3>3. F[i][g[i - 1]] = IF recent[i] # path THEN Append(g[i - 1], recent[i]) ELSE g[i - 1]
      BY <1>2, <3>1, <3>2
    <3>4. QED
      BY <2>2, <3>2, <3>3
  <2>3. QED
    BY <2>1, <2>2
<1>6. DOMAIN g = 0 .. n /\ g = [i \in 0 .. n |-> g[i]]
  BY <1>4 DEF Follows
<1>7. QED
  BY <1>5, <1>6 DEF Loop

LEMMA LoopKeeps ==
  ASSUME recent \in Seq(Paths), Injective(recent), NEW path, NEW n \in 0 .. Len(recent),
         NEW h, Loop(path, n, h)
  PROVE  Filtered(path, n, h[n])
<1> DEFINE P == {m \in Nat : m <= n => Filtered(path, m, h[m])}
<1>1. 0 \in P
  <2>1. h[0] = <<>>
    <3>1. 0 \in 0 .. n
      OBVIOUS
    <3>2. QED
      BY <3>1 DEF Loop
  <2>2. Filtered(path, 0, <<>>)
    BY DEF Filtered, Injective
  <2>3. QED
    BY <2>1, <2>2
<1>2. ASSUME NEW m \in P PROVE m + 1 \in P
  <2> SUFFICES ASSUME m + 1 <= n PROVE Filtered(path, m + 1, h[m + 1])
    OBVIOUS
  <2>1. m \in Nat /\ m + 1 \in 1 .. n /\ m + 1 \in 0 .. n /\ (m + 1) - 1 = m /\ m + 1 # 0
    OBVIOUS
  <2>2. PICK s : s = h[m]
    OBVIOUS
  <2>3. Filtered(path, m, s)
    BY <2>1, <2>2
  <2>4. h[m + 1] = IF recent[m + 1] = path THEN s ELSE Append(s, recent[m + 1])
    BY <2>1, <2>2 DEF Loop
  <2>5. PICK p : p = recent[m + 1]
    OBVIOUS
  <2>6. p \in Paths /\ Len(recent) \in Nat /\ m + 1 \in 1 .. Len(recent)
    BY <2>1, <2>5
  <2>7. s \in Seq(Paths) /\ Len(s) \in Nat /\ Len(s) <= m
        /\ \A k \in 1 .. Len(s) : s[k] # path /\ \E j \in 1 .. m : s[k] = recent[j]
    BY <2>3 DEF Filtered
  <2>8. \A k \in 1 .. Len(s) : \E j \in 1 .. m + 1 : s[k] = recent[j]
    BY <2>1, <2>7
  <2>9. CASE p = path
    <3>1. h[m + 1] = s
      BY <2>4, <2>5, <2>9
    <3>2. Len(s) <= m + 1
      BY <2>1, <2>7
    <3>3. QED
      BY <2>3, <2>7, <2>8, <3>1, <3>2 DEF Filtered
  <2>10. CASE p # path
    <3>1. PICK t : t = Append(s, p)
      OBVIOUS
    <3>2. t \in Seq(Paths) /\ Len(t) = Len(s) + 1 /\ t[Len(s) + 1] = p
          /\ \A k \in 1 .. Len(s) : t[k] = s[k]
      BY <2>6, <2>7, <3>1
    <3>3. \A k \in 1 .. Len(s) : s[k] # p
      <4>1. ASSUME NEW k \in 1 .. Len(s) PROVE s[k] # p
        <5>1. PICK j \in 1 .. m : s[k] = recent[j]
          BY <2>7
        <5>2. j \in 1 .. Len(recent) /\ j # m + 1
          BY <2>1, <2>6
        <5>3. QED
          BY <2>5, <2>6, <5>1, <5>2 DEF Injective
      <4>2. QED
        BY <4>1
    <3>4. Injective(t)
      <4>1. ASSUME NEW i \in 1 .. Len(t), NEW j \in 1 .. Len(t), t[i] = t[j] PROVE i = j
        <5>1. i \in 1 .. Len(s) \/ i = Len(s) + 1
          BY <2>7, <3>2
        <5>2. j \in 1 .. Len(s) \/ j = Len(s) + 1
          BY <2>7, <3>2
        <5>3. \A a, b \in 1 .. Len(s) : s[a] = s[b] => a = b
          BY <2>3 DEF Filtered, Injective
        <5>4. QED
          BY <3>2, <3>3, <4>1, <5>1, <5>2, <5>3
      <4>2. QED
        BY <4>1 DEF Injective
    <3>5. ASSUME NEW k \in 1 .. Len(t) PROVE t[k] # path /\ \E j \in 1 .. m + 1 : t[k] = recent[j]
      <4>1. k \in 1 .. Len(s) \/ k = Len(s) + 1
        BY <2>7, <3>2
      <4>2. m + 1 \in 1 .. m + 1
        BY <2>1
      <4>3. QED
        BY <2>5, <2>7, <2>8, <2>10, <3>2, <4>1, <4>2
    <3>6. Len(t) <= m + 1
      BY <2>1, <2>7, <3>2
    <3>7. h[m + 1] = t
      BY <2>4, <2>5, <2>10, <3>1
    <3>8. QED
      BY <3>2, <3>4, <3>5, <3>6, <3>7 DEF Filtered
  <2>11. QED
    BY <2>9, <2>10
<1>3. n \in P
  <2> HIDE DEF P
  <2>1. P \in SUBSET Nat
    BY DEF P
  <2>2. P = Nat
    BY <1>1, <1>2, <2>1, Induction
  <2>3. QED
    BY <2>2
<1>4. QED
  BY <1>3

\* Of the recent files all but the one are kept, if there is room for them.
LEMMA OthersAreKept ==
  ASSUME recent \in Seq(Paths), Injective(recent), NEW path
  PROVE  /\ Others(path) \in Seq(Paths) /\ Len(Others(path)) < MaxRecent
         /\ Injective(Others(path))
         /\ \A k \in 1 .. Len(Others(path)) : Others(path)[k] # path
<1>1. PICK n : n = IF MaxRecent - 1 <= Len(recent) THEN MaxRecent - 1 ELSE Len(recent)
  OBVIOUS
<1>2. n \in 0 .. Len(recent) /\ n < MaxRecent
  BY <1>1, RecentAssumption
<1>3. PICK h : h = CHOOSE g : Loop(path, n, g)
  OBVIOUS
<1>4. Loop(path, n, h)
  BY <1>2, <1>3, LoopExists
<1>5. Others(path) = h[n]
  BY <1>1, <1>3 DEF Others, Fewer, Loop
<1>6. Filtered(path, n, h[n])
  BY <1>2, <1>4, LoopKeeps
<1>7. QED
  BY <1>2, <1>5, <1>6, RecentAssumption DEF Filtered

\* The menu ends with the list, and both fit the number keys.
ListInv ==
  /\ recent \in Seq(Paths) /\ Injective(recent) /\ Len(recent) <= MaxRecent
  /\ menu \in Seq(Paths) /\ IsSuffix(recent, menu) /\ Len(menu) <= MaxRecent

\* As many entries are removed in front as there are files in the list.
LEMMA MenuFollows ==
  ASSUME NEW files \in Seq(Paths), NEW entries \in Seq(Paths),
         Len(files) <= MaxRecent, Len(entries) <= MaxRecent, NEW m,
         m = UpdateRecentFilesActions(files, entries)
  PROVE  m \in Seq(Paths) /\ IsSuffix(files, m) /\ Len(m) <= MaxRecent
<1>1. CASE files = <<>>
  <2>1. m = <<>>
    BY <1>1 DEF UpdateRecentFilesActions
  <2>2. <<>> \in Seq(Paths) /\ <<>> \o <<>> = <<>> /\ Len(<<>>) = 0
    OBVIOUS
  <2>3. IsSuffix(<<>>, <<>>)
    BY <2>2, SuffixOfConcat
  <2>4. QED
    BY <1>1, <2>1, <2>2, <2>3, RecentAssumption
<1>2. CASE files # <<>>
  <2>1. Len(files) \in Nat /\ Len(entries) \in Nat
    OBVIOUS
  <2>2. Fewer(MaxRecent, Len(files)) = Len(files)
    BY <2>1, RecentAssumption DEF Fewer
  <2>3. SubSeq(files, 1, Len(files)) = files
    BY <2>1
  <2>4. PICK rest : rest = SubSeq(entries, Len(files) + 1, Len(entries))
    OBVIOUS
  <2>5. m = rest \o files
    BY <1>2, <2>2, <2>3, <2>4 DEF UpdateRecentFilesActions
  <2>6. rest \in Seq(Paths)
        /\ Len(rest) = IF Len(files) + 1 <= Len(entries) THEN Len(entries) - Len(files) ELSE 0
    BY <2>1, <2>4
  <2>7. IsSuffix(files, rest \o files)
    BY <2>6, SuffixOfConcat
  <2>8. rest \o files \in Seq(Paths) /\ Len(rest \o files) = Len(rest) + Len(files)
    BY <2>6
  <2>9. Len(rest) + Len(files) <= MaxRecent
    BY <2>1, <2>6, RecentAssumption
  <2>10. QED
    BY <2>5, <2>7, <2>8, <2>9
<1>3. QED
  BY <1>1, <1>2

\* The recent files are none of them twice and the last entries of the menu, which
\* never has more entries than number keys, whatever was opened, cleared and
\* reopened, for any files and any number of keys.
THEOREM RecentAreOffered == RecentSpec => []RecentFilesAreOffered
<1>1. RecentInit => ListInv
  <2> SUFFICES ASSUME RecentInit PROVE ListInv
    OBVIOUS
  <2>1. recent = <<>> /\ menu = <<>>
    BY DEF RecentInit
  <2>2. <<>> \in Seq(Paths) /\ <<>> \o <<>> = <<>> /\ Len(<<>>) = 0
    OBVIOUS
  <2>3. IsSuffix(<<>>, <<>>)
    BY <2>2, SuffixOfConcat
  <2>4. QED
    BY <2>1, <2>2, <2>3, RecentAssumption DEF ListInv, Injective
<1>2. ListInv /\ [RecentNext]_recentVars => ListInv'
  <2> SUFFICES ASSUME ListInv, [RecentNext]_recentVars PROVE ListInv'
    OBVIOUS
  <2>0. recent \in Seq(Paths) /\ Injective(recent) /\ Len(recent) <= MaxRecent
        /\ menu \in Seq(Paths) /\ Len(menu) <= MaxRecent
    BY DEF ListInv
  <2>1. ASSUME NEW path \in Paths, RememberFile(path) PROVE ListInv'
    <3>1. PICK others : others = Others(path)
      OBVIOUS
    <3>2. /\ others \in Seq(Paths) /\ Len(others) < MaxRecent /\ Injective(others)
          /\ \A k \in 1 .. Len(others) : others[k] # path
      BY <2>0, <3>1, OthersAreKept
    <3>3. recent' = <<path>> \o others
          /\ menu' = UpdateRecentFilesActions(recent', menu)
      BY <2>1, <3>1 DEF RememberFile
    <3>4. /\ recent' \in Seq(Paths) /\ Len(recent') = Len(others) + 1 /\ Len(others) \in Nat
          /\ recent'[1] = path /\ \A k \in 2 .. Len(recent') : recent'[k] = others[k - 1]
      BY <3>2, <3>3
    <3>5. \A i, j \in 1 .. Len(recent') : recent'[i] = recent'[j] => i = j
      <4>1. ASSUME NEW i \in 1 .. Len(recent'), NEW j \in 1 .. Len(recent'),
                   recent'[i] = recent'[j]
            PROVE  i = j
        <5>1. i = 1 \/ (i \in 2 .. Len(recent') /\ i - 1 \in 1 .. Len(others))
          BY <3>4
        <5>2. j = 1 \/ (j \in 2 .. Len(recent') /\ j - 1 \in 1 .. Len(others))
          BY <3>4
        <5>3. \A a, b \in 1 .. Len(others) : others[a] = others[b] => a = b
          BY <3>2 DEF Injective
        <5>4. CASE i = 1 \/ j = 1
          BY <3>2, <3>4, <4>1, <5>1, <5>2, <5>4
        <5>5. CASE i # 1 /\ j # 1
          <6>1. others[i - 1] = others[j - 1]
            BY <3>4, <4>1, <5>1, <5>2, <5>5
          <6>2. i - 1 = j - 1
            BY <5>1, <5>2, <5>3, <5>5, <6>1
          <6>3. QED
            BY <6>2
        <5>6. QED
          BY <5>4, <5>5
      <4>2. QED
        BY <4>1
    <3>6. Len(recent') <= MaxRecent
      BY <3>2, <3>4, RecentAssumption
    <3>7. menu' \in Seq(Paths) /\ IsSuffix(recent', menu') /\ Len(menu') <= MaxRecent
      BY <2>0, <3>3, <3>4, <3>6, MenuFollows
    <3>8. QED
      BY <3>4, <3>5, <3>6, <3>7 DEF ListInv, Injective, IsSuffix, IsPrefix,
         Reverse
  <2>2. ASSUME on_actionRecent_Clear PROVE ListInv'
    <3>1. recent' = <<>> /\ menu' = <<>>
      BY <2>2 DEF on_actionRecent_Clear, UpdateRecentFilesActions
    <3>2. <<>> \in Seq(Paths) /\ <<>> \o <<>> = <<>> /\ Len(<<>>) = 0
      OBVIOUS
    <3>3. IsSuffix(<<>>, <<>>)
      BY <3>2, SuffixOfConcat
    <3>4. IsSuffix(recent', menu')
      BY <3>1, <3>3
    <3>5. QED
      BY <3>1, <3>2, <3>4, RecentAssumption DEF ListInv, Injective, IsSuffix, IsPrefix,
         Reverse
  <2>3. ASSUME Reopen PROVE ListInv'
    <3>1. recent' = recent /\ menu' = UpdateRecentFilesActions(recent, <<>>)
      BY <2>3 DEF Reopen
    <3>2. <<>> \in Seq(Paths) /\ Len(<<>>) <= MaxRecent
      BY RecentAssumption
    <3>3. menu' \in Seq(Paths) /\ IsSuffix(recent, menu') /\ Len(menu') <= MaxRecent
      BY <2>0, <3>1, <3>2, MenuFollows
    <3>4. QED
      BY <2>0, <3>1, <3>3 DEF ListInv, Injective, IsSuffix, IsPrefix,
         Reverse
  <2>4. ASSUME UNCHANGED <<recent, menu>> PROVE ListInv'
    BY <2>4 DEF ListInv, Injective, IsSuffix, IsPrefix, Reverse
  <2>5. QED
    BY <2>1, <2>2, <2>3, <2>4 DEF RecentNext, recentVars
<1>3. ListInv => RecentFilesAreOffered
  <2> SUFFICES ASSUME ListInv PROVE RecentFilesAreOffered
    OBVIOUS
  <2>1. DOMAIN recent = 1 .. Len(recent)
    BY DEF ListInv
  <2>2. IsInjective(recent)
    BY <2>1 DEF ListInv, Injective, IsInjective
  <2>3. QED
    BY <2>2 DEF ListInv, RecentFilesAreOffered
<1>4. QED
  BY <1>1, <1>2, <1>3, PTL DEF RecentSpec
=============================================================================
