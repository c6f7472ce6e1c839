------------------------------ MODULE DAFFGrid ------------------------------
(***************************************************************************)
(* The spherical grid of a DAFF content in the data view, and the          *)
(* questions a client asks of it: getRecordCoords, getNearestNeighbour and *)
(* getCell of DAFFReaderImpl, with DAFFUtils::NormalizeDirection and the   *)
(* resolutions fixAngleRanges computes.  The variables hold the loaded     *)
(* main header, the last question and its answer.                          *)
(*                                                                         *)
(* Angles are integers in units of 1/Degree of a degree.  Grids whose      *)
(* resolutions are whole numbers of units make all arithmetic exact; the   *)
(* rounding to 1/1000 degree that NormalizeDirection does is modelled.     *)
(***************************************************************************)
EXTENDS Integers

CONSTANTS
  Degree,     \* units per degree
  Headers,    \* main headers: angular range and number of points per axis
  Alphas,     \* first angles a client asks for
  Betas       \* second angles

FullTurn == 360 * Degree
HalfTurn == 180 * Degree

AngleFields == {"alphaPoints", "alphaStart", "alphaEnd",
                "betaPoints", "betaStart", "betaEnd"}

\* What loadMainHeader accepts.
AcceptedHeader(h) ==
  /\ h.alphaPoints >= 1
  /\ 0 <= h.alphaStart /\ h.alphaStart < FullTurn
  /\ 0 <= h.alphaEnd /\ h.alphaEnd <= FullTurn
  /\ h.betaPoints >= 1
  /\ 0 <= h.betaStart /\ h.betaStart <= h.betaEnd /\ h.betaEnd <= HalfTurn

-----------------------------------------------------------------------------
(* fixAngleRanges                                                            *)

AlphaSpan(h) ==
  IF h.alphaEnd > h.alphaStart THEN h.alphaEnd - h.alphaStart
                               ELSE FullTurn - h.alphaStart + h.alphaEnd

\* On the full circle the last point is not the end of the range.
AlphaSteps(h) ==
  IF AlphaSpan(h) = FullTurn THEN h.alphaPoints ELSE h.alphaPoints - 1

AlphaResolution(h) ==
  IF h.alphaPoints > 1 THEN AlphaSpan(h) \div AlphaSteps(h) ELSE 0

BetaResolution(h) ==
  IF h.betaPoints > 1 THEN (h.betaEnd - h.betaStart) \div (h.betaPoints - 1) ELSE 0

\* Resolutions are whole numbers of units, no grid point falls on another, and
\* a single ring has no range, as for the grids the writer produces.
ExactGrid(h) ==
  /\ h.alphaPoints > 1 => /\ AlphaSpan(h) = AlphaSteps(h) * AlphaResolution(h)
                          /\ AlphaResolution(h) > 0
  /\ h.betaPoints > 1 => /\ h.betaEnd - h.betaStart
                              = (h.betaPoints - 1) * BetaResolution(h)
                         /\ BetaResolution(h) > 0
  /\ h.betaPoints = 1 => h.betaStart = h.betaEnd

ASSUME GridAssumption ==
  /\ Degree \in Nat \ {0} /\ Degree % 1000 = 0
  /\ Headers \subseteq [AngleFields -> Int]
  /\ \A h \in Headers : AcceptedHeader(h) /\ ExactGrid(h)
  /\ Alphas \subseteq Int /\ Betas \subseteq Int

SouthPole(h) == h.betaStart = 0
NorthPole(h) == h.betaEnd = HalfTurn

\* daffv17_write stores one record at a pole and alphaPoints on other rings,
\* ring by ring from the lowest beta angle.
RingBeta(h, k) == h.betaStart + k * BetaResolution(h)
RingSize(h, k) == IF RingBeta(h, k) \in {0, HalfTurn} THEN 1 ELSE h.alphaPoints
RingFirst(h, k) ==
  IF k = 0 THEN 0 ELSE RingSize(h, 0) + (k - 1) * h.alphaPoints
NumRecords(h) == RingFirst(h, h.betaPoints - 1) + RingSize(h, h.betaPoints - 1)
Records(h) == 0 .. NumRecords(h) - 1

\* The direction for which it asks the data of point a on ring k.
WrittenDirection(h, k, a) ==
  [alpha |-> h.alphaStart + a * ((h.alphaEnd - h.alphaStart) \div h.alphaPoints),
   beta |-> RingBeta(h, k)]

coversFullSphere(h) ==
  h.alphaStart = 0 /\ h.alphaEnd = FullTurn /\ SouthPole(h) /\ NorthPole(h)

-----------------------------------------------------------------------------
(* Directions                                                                *)

\* C's fmodf: the result has the sign of x.
Fmod(x, n) == IF x >= 0 THEN x % n ELSE -((-x) % n)

\* roundf(x / n) for n > 0: halves away from zero.
RoundQuotient(x, n) ==
  IF x >= 0 THEN (2 * x + n) \div (2 * n) ELSE -((2 * (-x) + n) \div (2 * n))

RoundMilli(x) == RoundQuotient(x, Degree \div 1000) * (Degree \div 1000)

\* DAFFUtils::NormalizeDirection(DAFF_DATA_VIEW, ...).
NormalizeDirection(d) ==
  LET beta0 == Fmod(d.beta, FullTurn)
      over == beta0 > HalfTurn
      beta == IF over THEN beta0 - HalfTurn ELSE beta0
      alpha == (IF over THEN d.alpha + HalfTurn ELSE d.alpha) % FullTurn
  IN  [alpha |-> RoundMilli(IF beta \in {0, HalfTurn} THEN 0 ELSE alpha),
       beta |-> RoundMilli(beta)]

\* anglef_mindiff_abs_0_360_DEG: the distance on the circle.
AngleDistance(x, y) ==
  LET gamma == (x - y) % FullTurn
  IN  IF gamma <= HalfTurn THEN gamma ELSE FullTurn - gamma

Distance(x, y) == IF x >= y THEN x - y ELSE y - x

-----------------------------------------------------------------------------
(* getRecordCoords and getNearestNeighbour                                   *)

RecordCoords(h, i) ==
  IF SouthPole(h) /\ i = 0
    THEN [alpha |-> 0, beta |-> 0]
    ELSE LET j == IF SouthPole(h) THEN i - 1 ELSE i
             ring == (j \div h.alphaPoints) + (IF SouthPole(h) THEN 1 ELSE 0)
         IN  [alpha |-> h.alphaStart + (j % h.alphaPoints) * AlphaResolution(h),
              beta |-> h.betaStart + ring * BetaResolution(h)]

AlphaWithin(h, a) ==
  IF h.alphaPoints = 1
    THEN a = h.alphaStart /\ a = h.alphaEnd % FullTurn
    ELSE h.alphaStart <= a /\ a <= h.alphaEnd

BetaWithin(h, b) ==
  IF h.betaPoints = 1
    THEN b = h.betaStart /\ b = h.betaEnd
    ELSE h.betaStart <= b /\ b <= h.betaEnd

\* A slip: the boundaries compared without the circle.
AlphaIndexOffCircle(h, a) ==
  IF h.alphaPoints = 1 THEN 0
  ELSE IF AlphaWithin(h, a)
    THEN RoundQuotient(a - h.alphaStart, AlphaResolution(h))
    ELSE IF Distance(h.alphaStart, a) <= Distance(h.alphaEnd, a)
      THEN 0 ELSE h.alphaPoints - 1

AlphaIndex(h, a) ==
  IF h.alphaPoints = 1 THEN 0
  ELSE IF AlphaWithin(h, a)
    THEN RoundQuotient(a - h.alphaStart, AlphaResolution(h))
    ELSE IF AngleDistance(h.alphaStart, a) <= AngleDistance(h.alphaEnd, a)
      THEN 0 ELSE h.alphaPoints - 1

BetaIndex(h, b) ==
  IF h.betaPoints = 1 THEN 0
  ELSE IF BetaWithin(h, b)
    THEN RoundQuotient(b - h.betaStart, BetaResolution(h))
    ELSE IF Distance(h.betaStart, b) <= Distance(h.betaEnd, b)
      THEN 0 ELSE h.betaPoints - 1

\* The record of ring k at alpha index i: poles have one record.  (The slips
\* forget the pole at the end and the one at the start of the range.)
RecordAtWithoutSouthPole(h, k, i) ==
  k * h.alphaPoints + (IF k = h.betaPoints - 1 /\ NorthPole(h) THEN 0 ELSE i)
RecordAtWithoutNorthPole(h, k, i) ==
  IF SouthPole(h)
    THEN IF k = 0 THEN 0 ELSE 1 + (k - 1) * h.alphaPoints + i
    ELSE k * h.alphaPoints + i
RecordAt(h, k, i) ==
  LET column == IF k = h.betaPoints - 1 /\ NorthPole(h) THEN 0 ELSE i
  IN  IF SouthPole(h)
        THEN IF k = 0 THEN 0 ELSE 1 + (k - 1) * h.alphaPoints + column
        ELSE k * h.alphaPoints + column

\* A single ring that is hit clears the flag that the alpha angle has set.
OutOfBounds(h, n) ==
  IF h.betaPoints = 1 THEN ~BetaWithin(h, n.beta)
  ELSE ~AlphaWithin(h, n.alpha) \/ ~BetaWithin(h, n.beta)

NearestNeighbour(h, d) ==
  LET n == NormalizeDirection(d)
  IN  RecordAt(h, BetaIndex(h, n.beta), AlphaIndex(h, n.alpha))

\* getCell.  A single point has no resolution: fmodf(x, 0) is not a number,
\* which no range contains, and the index is 0 as for any angle.
Floor(x, resolution) == IF resolution = 0 THEN x ELSE x - Fmod(x, resolution)

\* A slip: the upper corners overrun the north pole.
CellOverrun(h, d) ==
  LET n == NormalizeDirection(d)
      a1 == Floor(n.alpha, AlphaResolution(h))
      a3 == a1 + AlphaResolution(h)
      b1 == Floor(n.beta, BetaResolution(h))
      b2 == b1 + BetaResolution(h)
      At(a, b) == NearestNeighbour(h, NormalizeDirection([alpha |-> a, beta |-> b]))
  IN  IF n.beta = 0 /\ coversFullSphere(h)
        THEN <<At(0, 0), At(0, 0), At(0, 0), At(0, 0)>>
        ELSE <<At(a1, b1), At(a1, b2), At(a3, b2), At(a3, b1)>>

Cell(h, d) ==
  LET n == NormalizeDirection(d)
      a1 == Floor(n.alpha, AlphaResolution(h))
      a3 == a1 + AlphaResolution(h)
      b1 == Floor(n.beta, BetaResolution(h))
      b2 == IF b1 + BetaResolution(h) > HalfTurn
              THEN HalfTurn ELSE b1 + BetaResolution(h)
      At(a, b) == NearestNeighbour(h, NormalizeDirection([alpha |-> a, beta |-> b]))
  IN  IF n.beta = 0 /\ coversFullSphere(h)
        THEN <<At(0, 0), At(0, 0), At(0, 0), At(0, 0)>>
        ELSE <<At(a1, b1), At(a1, b2), At(a3, b2), At(a3, b1)>>
-----------------------------------------------------------------------------
(* A client of one reader.                                                   *)

VARIABLES
  header,     \* the main header of the content served
  asked,      \* the direction of the last question
  record,     \* iRecordIndex of the last answer
  outOfBounds,\* bOutOfBounds of the last answer
  quad        \* the four indices getCell answered, <<>> before

vars == <<header, asked, record, outOfBounds, quad>>

Directions == [alpha : Alphas, beta : Betas]

\* A content has been loaded and the client has asked for record 0.
Init ==
  /\ header \in Headers
  /\ asked = RecordCoords(header, 0)
  /\ record = NearestNeighbour(header, asked)
  /\ outOfBounds = OutOfBounds(header, NormalizeDirection(asked))
  /\ quad = <<>>

getNearestNeighbour(d) ==
  /\ asked' = d
  /\ record' = NearestNeighbour(header, d)
  /\ outOfBounds' = OutOfBounds(header, NormalizeDirection(d))
  /\ quad' = <<>>
  /\ UNCHANGED header

\* The client asks where record i is and looks up what is nearest there.
getRecordCoords(i) == getNearestNeighbour(RecordCoords(header, i))

\* getCell reports no flag.
getCell(d) ==
  /\ asked' = d
  /\ quad' = Cell(header, d)
  /\ record' = quad'[1]
  /\ outOfBounds' = FALSE
  /\ UNCHANGED header

Next ==
  \/ \E d \in Directions : getNearestNeighbour(d)
  \/ \E i \in Records(header) : getRecordCoords(i)
  \/ \E d \in Directions : getCell(d)

Spec == Init /\ [][Next]_vars

-----------------------------------------------------------------------------
(* Properties.                                                               *)

Direction == NormalizeDirection(asked)

\* The last half cell before 360 degrees of a grid on the full circle, where
\* rounding gives the index behind the last point.
OnSeam(h, a) ==
  /\ h.alphaPoints > 1 /\ AlphaSpan(h) = FullTurn
  /\ AlphaWithin(h, a)
  /\ 2 * (a - h.alphaStart) >= 2 * AlphaSpan(h) - AlphaResolution(h)

\* A range that runs over 0 degrees, as from 330 to 30.
Wraps(h) == h.alphaStart >= h.alphaEnd

\* Indices answered are at most one behind the last record.
TypeOK ==
  /\ header \in Headers
  /\ asked \in [alpha : Int, beta : Int]
  /\ record \in 0 .. NumRecords(header)
  /\ outOfBounds \in BOOLEAN
  /\ quad = <<>> \/ quad \in [1..4 -> 0 .. NumRecords(header)]

\* Off the seam getNearestNeighbour answers a record of the content, in and
\* out of bounds, at the poles, on one ring and with one point per ring.
IndexIsValid ==
  quad = <<>> /\ ~OnSeam(header, Direction.alpha) => record \in Records(header)

\* On the full circle the reader finds each record at the index at which the
\* writer stored it, for the direction for which it was stored.
WrittenRecordIsFound ==
  \A k \in 0 .. header.betaPoints - 1 : \A a \in 0 .. RingSize(header, k) - 1 :
    /\ header.alphaEnd - header.alphaStart = FullTurn /\ quad = <<>>
    /\ asked = WrittenDirection(header, k, a)
    => record = RingFirst(header, k) + a

\* The record answered is the nearest one axis by axis: no ring is closer in
\* beta, and no record on its ring is closer in alpha.
NearestPerAxis ==
  LET at == RecordCoords(header, record) IN
  /\ quad = <<>>
  /\ ~Wraps(header)
  /\ ~OnSeam(header, Direction.alpha)
  => \A i \in Records(header) :
       LET other == RecordCoords(header, i) IN
       /\ Distance(at.beta, Direction.beta) <= Distance(other.beta, Direction.beta)
       /\ other.beta = at.beta
            => AngleDistance(at.alpha, Direction.alpha)
                 <= AngleDistance(other.alpha, Direction.alpha)

\* On a full sphere the cell encloses the direction: the corners are records,
\* 1 and 4 on the ring below, 2 and 3 on the next, 1 and 2 on the meridian
\* before the direction, 3 and 4 on the next, where the ring is not a pole.
CellEncloses ==
  /\ coversFullSphere(header)
  /\ quad # <<>> /\ Direction.beta >= 0
  => LET at == [k \in 1..4 |-> RecordCoords(header, quad[k])]
         Off(k) == at[k].beta \notin {0, HalfTurn} /\ header.alphaPoints > 1
     IN  /\ \A k \in 1..4 : quad[k] \in Records(header)
         /\ at[1].beta = at[4].beta /\ at[2].beta = at[3].beta
         /\ at[1].beta <= Direction.beta /\ Direction.beta <= at[2].beta
         /\ at[2].beta - at[1].beta <= BetaResolution(header)
         /\ \A k \in {1, 2} : Off(k) =>
              (Direction.alpha - at[k].alpha) % FullTurn < AlphaResolution(header)
         /\ \A k \in {3, 4} : Off(k) =>
              (at[k].alpha - Direction.alpha) % FullTurn
                 \in 1 .. AlphaResolution(header)

===============================================================================
