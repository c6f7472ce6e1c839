---------------------------- MODULE MCDAFFViewer ----------------------------
EXTENDS QDAFFViewerWindow, QDAFFRecentFiles

CONSTANTS Windows, Lists
VARIABLES part

\* The window, and next to it the recent files, which it only writes: a run is
\* about one of them.
RunInit == part \in {Windows, Lists} /\ Init /\ RecentInit
RunNext ==
  \/ part = Windows /\ Next /\ UNCHANGED <<part, recent, menu>>
  \/ part = Lists /\ RecentNext /\ UNCHANGED <<part, vars>>
RunSpec ==
  RunInit /\ [][RunNext]_<<vars, part, recent, menu>>
          /\ WF_vars(part = Windows /\ Call /\ UNCHANGED <<part, recent, menu>>)

\* EveryEventReturns for the runs that are about the window, whose stack is large
\* enough for all that the calls leave to run.
WindowReturns == part = Windows => (EveryEventReturns /\ []NeverCut)

MCDegree == 1000
Deg(x) == x * MCDegree
Header(alphaPoints, alphaStart, alphaEnd, betaPoints, betaStart, betaEnd) ==
  [alphaPoints |-> alphaPoints, alphaStart |-> Deg(alphaStart), alphaEnd |-> Deg(alphaEnd),
   betaPoints |-> betaPoints, betaStart |-> Deg(betaStart), betaEnd |-> Deg(betaEnd)]
Ahead == [yaw |-> 0, pitch |-> 0, roll |-> 0]
Turned == [yaw |-> Deg(90), pitch |-> 0, roll |-> 0]

Sphere == [header |-> Header(2, 0, 360, 3, 0, 180), orientation |-> Turned,
           type |-> "MS", channels |-> 2, frequencies |-> 2, kHz |-> {1}]
Ring == [header |-> Header(2, 0, 180, 1, 90, 90), orientation |-> Ahead,
         type |-> "IR", channels |-> 1, frequencies |-> 2, kHz |-> {}]
Dot == [header |-> Header(1, 0, 360, 1, 90, 90), orientation |-> Ahead,
        type |-> "PS", channels |-> 1, frequencies |-> 1, kHz |-> {}]
MCContent == [f \in {"sphere", "ring", "dot"} |->
  CASE f = "sphere" -> Sphere [] f = "ring" -> Ring [] f = "dot" -> Dot]

R(a, b) == [min |-> a, max |-> b]
MCRanges == [channel |-> R(0, 3), frequency |-> R(0, 2), alpha |-> R(0, Deg(360)),
             beta |-> R(0, Deg(180)), record |-> R(0, 5),
             phi |-> R(Deg(-90), Deg(180)), theta |-> R(Deg(-90), Deg(90))]
MCTyped == [channel |-> {}, frequency |-> {2}, alpha |-> {Deg(360)},
            beta |-> {0, Deg(180)}, record |-> {5},
            phi |-> {}, theta |-> {}]
\* A file with three channels, and the channel box alone is typed into.
MCTypedChannel == [MCTyped EXCEPT !.channel = {0}, !.frequency = {}, !.alpha = {},
                                  !.beta = {}, !.record = {}]
MCContentChannel == [MCContent EXCEPT !["sphere"].channels = 3]
MCDirections == {<<0, 0>>, <<Deg(180), Deg(90)>>}
MCUnsetRecords == {2, 9}
MCIncrement == Deg(90)
=============================================================================
