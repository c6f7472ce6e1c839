---------------------------- MODULE DAFFVizPlot ----------------------------
(***************************************************************************)
(* What the balloon plot and the carpet plot have in common: the content,  *)
(* the decibel scale and the mapping of a range to the interval [0, 1].    *)
(*                                                                         *)
(* Magnitudes are multiples of a tenth that are powers of ten: Unit stands *)
(* for 1.  Fractions between 0 and 1 are counted in thousandths.           *)
(***************************************************************************)
EXTENDS Integers, FiniteSets, FiniteSetsExt

CONSTANTS
  Content,   \* the content of each file: header, records, type, channels,
             \* frequencies, samplerate, the overall maximum and value: magnitudes
             \* or coefficients of a record, channel and frequency or sample
  Degree,    \* units per degree
  NearestRecord   \* of a file: the record that getNearestNeighbour answers for
                  \* a direction <<alpha, beta>> of the data view

Files == DOMAIN Content

Grid == INSTANCE DAFFGrid WITH
  Headers <- {Content[f].header : f \in Files}, Alphas <- {}, Betas <- {},
  header <- 0, asked <- 0, record <- 0, outOfBounds <- 0, quad <- 0

Unit == 10
Whole == 1000
Records(f) == 0 .. Content[f].records - 1
Channels(f) == 0 .. Content[f].channels - 1
Frequencies(f) == 0 .. Content[f].frequencies - 1

\* What the getters answer for a record, channel and frequency or sample.
ValueAt(f, r, c, k) == Content[f].value[r, c, k]

\* From -100 dB for silence; ten decibels are a factor of ten.
Magnitudes == {0, 1, Unit, 100, 1000}
Decibel ==
  [x \in Magnitudes |->
     CASE x = 0 -> -100 [] x = 1 -> -10 [] x = Unit -> 0 [] x = 100 -> 10 [] x = 1000 -> 20]
\* ... of a quotient.
Relative(x, y) == IF x = 0 THEN -100 ELSE Decibel[x] - Decibel[y]
Factor(d) == CHOOSE x \in Magnitudes : Decibel[x] = d

Absolute(x) == IF x < 0 THEN -x ELSE x

\* A value or a level clipped to a range, as the part of the range below it.
Part(x, min, max) ==
  IF x <= min THEN 0 ELSE IF x >= max THEN Whole
  ELSE ((x - min) * Whole) \div (max - min)

\* A content has records, channels and frequencies.  No magnitude is above the
\* maximum of the header, and none of its spectra is silent everywhere: the plot
\* divides by the maximum and asserts that it is not 0.
ASSUME ContentAssumption ==
  \A f \in Files :
    /\ Content[f].records \in Nat \ {0} /\ Content[f].channels \in Nat \ {0}
    /\ Content[f].frequencies \in Nat \ {0}
    /\ Content[f].type \in {"IR", "MS", "PS", "MPS", "DFT"}
    /\ Content[f].type \in {"MS", "MPS", "DFT"} =>
         /\ Content[f].max \in Magnitudes
         /\ \A c \in Channels(f), k \in Frequencies(f) :
              /\ \A r \in Records(f) :
                   ValueAt(f, r, c, k) \in Magnitudes /\ ValueAt(f, r, c, k) <= Content[f].max
              /\ \E r \in Records(f) : ValueAt(f, r, c, k) > 0
=============================================================================
