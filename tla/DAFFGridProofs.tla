--------------------------- MODULE DAFFGridProofs ---------------------------
(***************************************************************************)
(* Proofs about the grid of DAFFGrid for every Degree, every set of        *)
(* accepted headers and all directions: indices answered stay within one   *)
(* of the content's records, and within them off the seam; the record      *)
(* answered is the nearest on each axis; a direction the writer stored     *)
(* finds its record; the corners of a cell lie around the direction.       *)
(*                                                                         *)
(* The bounds: rounding a quotient whose dividend is within n resolutions  *)
(* gives at most n; the rings before ring k hold at most RingFirst(h, k)   *)
(* records; a ring's index stays in its size.                              *)
(*                                                                         *)
(* The neighbours: rounding finds the nearest multiple of the resolution,  *)
(* and what is nearest on the line of angles is nearest on the circle, the *)
(* seam left aside.  A direction of the writer is such a multiple, up to   *)
(* the precision of NormalizeDirection.  The corners of a cell are         *)
(* directions half a resolution away that are normalised once more.        *)
(***************************************************************************)
EXTENDS DAFFGrid, TLAPS

-----------------------------------------------------------------------------
(* Integer arithmetic.                                                       *)

LEMMA DivisionBounds ==
  ASSUME NEW x \in Int, NEW n \in Int, n > 0
  PROVE  /\ x \div n \in Int
         /\ n * (x \div n) <= x
         /\ x < n * (x \div n) + n
         /\ x % n \in 0 .. n - 1
OBVIOUS

LEMMA ProductMonotone ==
  ASSUME NEW a \in Int, NEW b \in Int, NEW c \in Nat, a <= b
  PROVE  a * c <= b * c
OBVIOUS

LEMMA ProductStep == \A x, y \in Int : (x - 1) * y + y = x * y
  OBVIOUS

LEMMA ProductCancel ==
  ASSUME NEW a \in Int, NEW b \in Int, NEW c \in Int, c > 0, c * a < c * (b + 1)
  PROVE  a <= b
<1>1. SUFFICES ASSUME a >= b + 1 PROVE FALSE
  OBVIOUS
<1>2. (b + 1) * c <= a * c
  BY <1>1, ProductMonotone
<1>3. QED
  BY <1>2

\* Rounding x / n gives at most s when x is at most s times n, and less when x
\* is half an n below that.
LEMMA RoundBounds ==
  ASSUME NEW x \in Nat, NEW n \in Int, n > 0, NEW s \in Nat, x <= s * n
  PROVE  /\ RoundQuotient(x, n) \in 0 .. s
         /\ 2 * x < 2 * (s * n) - n => RoundQuotient(x, n) \in 0 .. s - 1
<1> DEFINE m == 2 * n
           q == (2 * x + n) \div m
<1>1. RoundQuotient(x, n) = q
  BY DEF RoundQuotient
<1>2. m \in Int /\ m > 0 /\ 2 * x + n \in Int
  OBVIOUS
<1>3. q \in Int /\ m * q <= 2 * x + n /\ 2 * x + n < m * q + m
  <2> HIDE DEF m
  <2> QED
    BY <1>2, DivisionBounds DEF q
<1> HIDE DEF q
<1>4. 0 <= q
  <2>1. m * 0 < m * (q + 1)
    BY <1>2, <1>3
  <2> QED
    BY <2>1, <1>2, <1>3, ProductCancel
<1>5. q <= s
  <2>1. m * q < m * (s + 1)
    BY <1>2, <1>3
  <2> QED
    BY <2>1, <1>2, <1>3, ProductCancel
<1>6. ASSUME 2 * x < 2 * (s * n) - n PROVE q <= s - 1
  <2>1. m * q < m * ((s - 1) + 1)
    BY <1>2, <1>3, <1>6
  <2> QED
    BY <2>1, <1>2, <1>3, ProductCancel
<1>7. QED
  BY <1>1, <1>3, <1>4, <1>5, <1>6

\* Rounding gives an integer.
LEMMA RoundType ==
  ASSUME NEW x \in Int, NEW n \in Int, n > 0
  PROVE  RoundQuotient(x, n) \in Int
<1> DEFINE m == 2 * n
<1>1. m \in Int /\ m > 0 /\ 2 * x + n \in Int /\ 2 * (-x) + n \in Int
  OBVIOUS
<1>2. (2 * x + n) \div m \in Int /\ (2 * (-x) + n) \div m \in Int
  <2> HIDE DEF m
  <2> QED
    BY <1>1, DivisionBounds
<1>3. QED
  BY <1>2 DEF RoundQuotient

-----------------------------------------------------------------------------
(* Headers and directions.                                                   *)

LEMMA DegreeType ==
  /\ Degree \in Int /\ Degree > 0
  /\ Degree \div 1000 \in Int /\ Degree \div 1000 > 0
  /\ FullTurn \in Int /\ FullTurn > 0 /\ HalfTurn \in Int /\ HalfTurn > 0
  /\ FullTurn = 2 * HalfTurn
<1>1. Degree \in Int /\ Degree > 0 /\ Degree % 1000 = 0
  BY GridAssumption
<1>2. Degree \div 1000 > 0
  BY <1>1
<1>3. QED
  BY <1>1, <1>2 DEF FullTurn, HalfTurn

LEMMA HeaderFields ==
  ASSUME NEW h \in Headers
  PROVE  /\ h.alphaPoints \in Int /\ h.alphaStart \in Int /\ h.alphaEnd \in Int
         /\ h.betaPoints \in Int /\ h.betaStart \in Int /\ h.betaEnd \in Int
         /\ AcceptedHeader(h) /\ ExactGrid(h)
BY GridAssumption DEF AngleFields

LEMMA SpansAndResolutions ==
  ASSUME NEW h \in Headers
  PROVE  /\ AlphaSpan(h) \in Int /\ AlphaSteps(h) \in Int
         /\ AlphaResolution(h) \in Int /\ AlphaResolution(h) >= 0
         /\ BetaResolution(h) \in Int /\ BetaResolution(h) >= 0
         /\ h.alphaPoints > 1 => /\ AlphaResolution(h) > 0
                                 /\ AlphaSpan(h) = AlphaSteps(h) * AlphaResolution(h)
                                 /\ AlphaSteps(h) \in 1 .. h.alphaPoints
         /\ h.betaPoints > 1 => /\ BetaResolution(h) > 0
                                /\ h.betaEnd - h.betaStart
                                     = (h.betaPoints - 1) * BetaResolution(h)
<1>1. AlphaSpan(h) \in Int /\ AlphaSteps(h) \in Int
  BY HeaderFields, DegreeType DEF AlphaSpan, AlphaSteps
<1>2. h.alphaPoints > 1 => AlphaSteps(h) \in 1 .. h.alphaPoints
  BY HeaderFields DEF AlphaSteps
<1>3. AlphaResolution(h) \in Int
  BY <1>1, <1>2, DivisionBounds DEF AlphaResolution
<1>4. BetaResolution(h) \in Int
  <2>1. CASE h.betaPoints > 1
    BY <2>1, HeaderFields, DivisionBounds DEF BetaResolution
  <2>2. CASE ~(h.betaPoints > 1)
    BY <2>2 DEF BetaResolution
  <2>3. QED
    BY <2>1, <2>2
<1>5. QED
  BY <1>1, <1>2, <1>3, <1>4, HeaderFields DEF ExactGrid, AlphaResolution, BetaResolution

LEMMA NormalizedType ==
  ASSUME NEW d \in [alpha : Int, beta : Int]
  PROVE  NormalizeDirection(d) \in [alpha : Int, beta : Int]
<1>1. \A x \in Int : x % FullTurn \in Int /\ Fmod(x, FullTurn) \in Int
  BY DegreeType DEF Fmod
<1>2. \A x \in Int : RoundMilli(x) \in Int
  BY DegreeType, RoundType DEF RoundMilli
<1>3. QED
  BY <1>1, <1>2, DegreeType DEF NormalizeDirection

LEMMA RecordCoordsType ==
  ASSUME NEW h \in Headers, NEW i \in Nat
  PROVE  RecordCoords(h, i) \in [alpha : Int, beta : Int]
<1>1. \A j \in Int : j \div h.alphaPoints \in Int /\ j % h.alphaPoints \in Int
  BY HeaderFields, DivisionBounds DEF AcceptedHeader
<1>2. QED
  BY <1>1, HeaderFields, SpansAndResolutions DEF RecordCoords

-----------------------------------------------------------------------------
(* Indices.                                                                  *)

\* The alpha index is a point of the ring, or on the seam the one behind.
LEMMA AlphaIndexBounds ==
  ASSUME NEW h \in Headers, NEW a \in Int
  PROVE  /\ AlphaIndex(h, a) \in 0 .. h.alphaPoints
         /\ ~OnSeam(h, a) => AlphaIndex(h, a) \in 0 .. h.alphaPoints - 1
<1> USE HeaderFields DEF AcceptedHeader
<1>1. CASE h.alphaPoints = 1
  BY <1>1 DEF AlphaIndex
<1>2. CASE h.alphaPoints > 1 /\ AlphaWithin(h, a)
  <2> DEFINE x == a - h.alphaStart
  <2>1. AlphaIndex(h, a) = RoundQuotient(x, AlphaResolution(h))
    BY <1>2 DEF AlphaIndex
  <2>2. x \in Nat /\ x <= AlphaSpan(h)
    BY <1>2, DegreeType DEF AlphaWithin, AlphaSpan
  <2>3. x <= AlphaSteps(h) * AlphaResolution(h)
    BY <1>2, <2>2, SpansAndResolutions
  <2>4. AlphaIndex(h, a) \in 0 .. AlphaSteps(h)
    BY <1>2, <2>1, <2>2, <2>3, SpansAndResolutions, RoundBounds
  <2>5. ASSUME ~OnSeam(h, a) PROVE AlphaIndex(h, a) \in 0 .. h.alphaPoints - 1
    <3>1. CASE AlphaSpan(h) # FullTurn
      BY <2>4, <3>1 DEF AlphaSteps
    <3>2. CASE AlphaSpan(h) = FullTurn
      <4>1. 2 * x < 2 * AlphaSpan(h) - AlphaResolution(h)
        BY <1>2, <2>5, <3>2, SpansAndResolutions DEF OnSeam
      <4>2. 2 * x < 2 * (AlphaSteps(h) * AlphaResolution(h)) - AlphaResolution(h)
        BY <4>1, <1>2, SpansAndResolutions
      <4>3. RoundQuotient(x, AlphaResolution(h)) \in 0 .. AlphaSteps(h) - 1
        <5>1. /\ AlphaResolution(h) \in Int /\ AlphaResolution(h) > 0
              /\ AlphaSteps(h) \in Nat
          BY <1>2, SpansAndResolutions
        <5> HIDE DEF x
        <5>2. QED
          BY <4>2, <2>2, <2>3, <5>1, RoundBounds
      <4>4. QED
        BY <4>3, <2>1, <3>2 DEF AlphaSteps
    <3>3. QED
      BY <3>1, <3>2
  <2>6. QED
    BY <1>2, <2>4, <2>5, SpansAndResolutions
<1>3. CASE ~(h.alphaPoints = 1) /\ ~(h.alphaPoints > 1 /\ AlphaWithin(h, a))
  BY <1>3 DEF AlphaIndex
<1>4. QED
  BY <1>1, <1>2, <1>3

LEMMA BetaIndexBounds ==
  ASSUME NEW h \in Headers, NEW b \in Int
  PROVE  BetaIndex(h, b) \in 0 .. h.betaPoints - 1
<1> USE HeaderFields DEF AcceptedHeader
<1>1. CASE h.betaPoints = 1
  BY <1>1 DEF BetaIndex
<1>2. CASE h.betaPoints > 1 /\ BetaWithin(h, b)
  <2> DEFINE x == b - h.betaStart
  <2>1. BetaIndex(h, b) = RoundQuotient(x, BetaResolution(h))
    BY <1>2 DEF BetaIndex
  <2>2. x \in Nat /\ x <= (h.betaPoints - 1) * BetaResolution(h)
    BY <1>2, SpansAndResolutions DEF BetaWithin
  <2>3. QED
    BY <1>2, <2>1, <2>2, SpansAndResolutions, RoundBounds
<1>3. CASE ~(h.betaPoints = 1) /\ ~(h.betaPoints > 1 /\ BetaWithin(h, b))
  BY <1>3 DEF BetaIndex
<1>4. QED
  BY <1>1, <1>2, <1>3

\* The first and the last ring have one record exactly when they are poles.
LEMMA EndRings ==
  ASSUME NEW h \in Headers
  PROVE  /\ SouthPole(h) => RingSize(h, 0) = 1
         /\ NorthPole(h) => RingSize(h, h.betaPoints - 1) = 1
         /\ ~SouthPole(h) /\ (h.betaPoints > 1 \/ ~NorthPole(h))
              => RingSize(h, 0) = h.alphaPoints
         /\ h.betaPoints > 1 /\ ~NorthPole(h)
              => RingSize(h, h.betaPoints - 1) = h.alphaPoints
<1> USE HeaderFields DEF AcceptedHeader, ExactGrid
<1>1. RingBeta(h, 0) = h.betaStart
  BY SpansAndResolutions DEF RingBeta
<1>2. RingBeta(h, h.betaPoints - 1) = h.betaEnd
  <2>1. CASE h.betaPoints = 1
    BY <1>1, <2>1
  <2>2. CASE h.betaPoints > 1
    BY <2>2, SpansAndResolutions DEF RingBeta
  <2>3. QED
    BY <2>1, <2>2
<1>3. h.betaPoints > 1 => h.betaStart < h.betaEnd
  <2>1. ASSUME h.betaPoints > 1 PROVE (h.betaPoints - 1) * BetaResolution(h) > 0
    BY <2>1, SpansAndResolutions
  <2>2. QED
    BY <2>1
<1>4. HalfTurn \in Int /\ HalfTurn > 0
  BY DegreeType
<1>5. QED
  BY <1>1, <1>2, <1>3, <1>4 DEF RingSize, SouthPole, NorthPole

LEMMA RecordAtBounds ==
  ASSUME NEW h \in Headers, NEW k \in 0 .. h.betaPoints - 1,
         NEW i \in 0 .. h.alphaPoints
  PROVE  /\ RecordAt(h, k, i) \in 0 .. NumRecords(h)
         /\ i <= h.alphaPoints - 1 => RecordAt(h, k, i) \in 0 .. NumRecords(h) - 1
<1> DEFINE p == h.alphaPoints
           n == h.betaPoints
           first == RingSize(h, 0)
           last == RingSize(h, n - 1)
           column == IF k = n - 1 /\ NorthPole(h) THEN 0 ELSE i
<1>1. p \in Nat /\ p >= 1 /\ n \in Nat /\ n >= 1 /\ k \in 0 .. n - 1
  BY HeaderFields DEF AcceptedHeader
<1>2. /\ SouthPole(h) => first = 1
      /\ NorthPole(h) => last = 1
      /\ ~SouthPole(h) /\ (n > 1 \/ ~NorthPole(h)) => first = p
      /\ n > 1 /\ ~NorthPole(h) => last = p
  BY EndRings
<1>3. NumRecords(h) = IF n = 1 THEN first ELSE first + (n - 2) * p + last
  <2>1. first \in Int /\ last \in Int
    BY <1>1 DEF RingSize
  <2>2. (n - 1) - 1 = n - 2 /\ (n = 1 => last = first)
    BY <1>1
  <2>3. NumRecords(h) = IF n = 1 THEN last ELSE first + (n - 2) * p + last
    BY <1>1, <2>1, <2>2 DEF NumRecords, RingFirst
  <2> HIDE DEF n, p, first, last
  <2>4. QED
    BY <2>2, <2>3
<1>4. RecordAt(h, k, i) = IF SouthPole(h)
                            THEN IF k = 0 THEN 0 ELSE 1 + (k - 1) * p + column
                            ELSE k * p + column
  BY DEF RecordAt
<1>5. column \in 0 .. i /\ (k = n - 1 /\ NorthPole(h) => column = 0)
  BY HeaderFields DEF AcceptedHeader
<1>6. SouthPole(h) \in BOOLEAN /\ NorthPole(h) \in BOOLEAN
  BY DEF SouthPole, NorthPole
<1> HIDE DEF p, n, first, last, column
<1>7. CASE n = 1
  <2>1. k = 0 /\ k * p = 0 /\ first = (IF SouthPole(h) \/ NorthPole(h) THEN 1 ELSE p)
    BY <1>1, <1>2, <1>7 DEF first, last
  <2>2. QED
    BY <1>1, <1>3, <1>4, <1>5, <1>7, <2>1 DEF p
<1>8. CASE n > 1 /\ k = n - 1
  BY <1>1, <1>2, <1>3, <1>4, <1>5, <1>6, <1>8 DEF p
<1>9. CASE n > 1 /\ k <= n - 2
  <2>1. (k - 1) * p <= (n - 3) * p /\ k * p <= (n - 2) * p
    BY <1>1, <1>9, ProductMonotone
  <2>2. (n - 3) * p = (n - 2) * p - p /\ (n - 2) * p >= 0
    BY <1>1, <1>9
  <2>3. first + (n - 2) * p + last >= 1 + (n - 2) * p + 1
    BY <1>1, <1>2, <1>6, <1>9
  <2>4. (n - 2) * p \in Int /\ (k - 1) * p \in Int /\ k * p \in Int
        /\ first \in Int /\ last \in Int
    BY <1>1, <1>2, <1>6, <1>9
  <2>5. CASE SouthPole(h) /\ k = 0
    BY <1>1, <1>3, <1>4, <1>9, <2>2, <2>3, <2>4, <2>5
  <2>6. CASE SouthPole(h) /\ k # 0
    <3>1. (k - 1) * p >= 0
      BY <1>1, <2>6
    <3>2. QED
      BY <1>1, <1>3, <1>4, <1>5, <1>9, <2>1, <2>2, <2>3, <2>4, <2>6, <3>1 DEF p
  <2>7. CASE ~SouthPole(h)
    <3>1. k * p >= 0 /\ first = p
      BY <1>1, <1>2, <1>9, <2>7
    <3>2. RecordAt(h, k, i) = k * p + column
      BY <1>4, <2>7
    <3>3. NumRecords(h) = p + (n - 2) * p + last /\ last >= 1
      BY <1>1, <1>2, <1>3, <1>6, <1>9, <3>1
    <3>4. column \in 0 .. p /\ (i <= p - 1 => column <= p - 1)
      BY <1>1, <1>5 DEF p
    <3>5. QED
      BY <1>1, <2>1, <2>4, <3>1, <3>2, <3>3, <3>4 DEF p
  <2>8. QED
    BY <1>6, <2>5, <2>6, <2>7
<1>10. QED
  BY <1>1, <1>7, <1>8, <1>9

LEMMA NearestNeighbourBounds ==
  ASSUME NEW h \in Headers, NEW d \in [alpha : Int, beta : Int]
  PROVE  /\ NearestNeighbour(h, d) \in 0 .. NumRecords(h)
         /\ ~OnSeam(h, NormalizeDirection(d).alpha)
              => NearestNeighbour(h, d) \in Records(h)
<1> DEFINE m == NormalizeDirection(d)
           k == BetaIndex(h, m.beta)
           i == AlphaIndex(h, m.alpha)
<1>1. m.alpha \in Int /\ m.beta \in Int
  BY NormalizedType
<1>2. NearestNeighbour(h, d) = RecordAt(h, k, i)
  BY DEF NearestNeighbour
<1> HIDE DEF m
<1>3. k \in 0 .. h.betaPoints - 1 /\ i \in 0 .. h.alphaPoints
  BY <1>1, AlphaIndexBounds, BetaIndexBounds
<1>4. ~OnSeam(h, m.alpha) => i <= h.alphaPoints - 1
  BY <1>1, AlphaIndexBounds, HeaderFields
<1> HIDE DEF k, i
<1>5. QED
  BY <1>2, <1>3, <1>4, RecordAtBounds DEF Records, m

LEMMA CellBounds ==
  ASSUME NEW h \in Headers, NEW d \in [alpha : Int, beta : Int]
  PROVE  /\ Cell(h, d) \in [1..4 -> 0 .. NumRecords(h)]
         /\ Cell(h, d) # <<>>
<1> DEFINE At(a, b) == NearestNeighbour(h, NormalizeDirection([alpha |-> a, beta |-> b]))
<1>1. \A a, b \in Int : At(a, b) \in 0 .. NumRecords(h)
  BY NormalizedType, NearestNeighbourBounds
<1>3. \A x, r \in Int : r >= 0 => Floor(x, r) \in Int
  BY DivisionBounds DEF Floor, Fmod
<1> DEFINE n == NormalizeDirection(d)
           a1 == Floor(n.alpha, AlphaResolution(h))
           a3 == a1 + AlphaResolution(h)
           b1 == Floor(n.beta, BetaResolution(h))
           b2 == IF b1 + BetaResolution(h) > HalfTurn
                   THEN HalfTurn ELSE b1 + BetaResolution(h)
<1>4. a1 \in Int /\ a3 \in Int /\ b1 \in Int /\ b2 \in Int
  <2>1. n.alpha \in Int /\ n.beta \in Int
    BY NormalizedType
  <2>2. /\ AlphaResolution(h) \in Int /\ AlphaResolution(h) >= 0
        /\ BetaResolution(h) \in Int /\ BetaResolution(h) >= 0
    BY SpansAndResolutions
  <2> HIDE DEF n
  <2>3. a1 \in Int /\ b1 \in Int
    BY <1>3, <2>1, <2>2
  <2> HIDE DEF a1, b1
  <2>4. QED
    BY <2>2, <2>3, DegreeType
<1>5. Cell(h, d) = IF n.beta = 0 /\ coversFullSphere(h)
                     THEN <<At(0, 0), At(0, 0), At(0, 0), At(0, 0)>>
                     ELSE <<At(a1, b1), At(a1, b2), At(a3, b2), At(a3, b1)>>
  BY DEF Cell
<1> HIDE DEF At, a1, a3, b1, b2, n
<1>6. CASE n.beta = 0 /\ coversFullSphere(h)
  <2>1. Cell(h, d) = <<At(0, 0), At(0, 0), At(0, 0), At(0, 0)>>
    BY <1>5, <1>6
  <2>2. QED
    BY <1>1, <2>1
<1>7. CASE ~(n.beta = 0 /\ coversFullSphere(h))
  <2>1. Cell(h, d) = <<At(a1, b1), At(a1, b2), At(a3, b2), At(a3, b1)>>
    BY <1>5, <1>7
  <2>2. QED
    BY <1>1, <1>4, <2>1
<1>8. QED
  BY <1>6, <1>7

-----------------------------------------------------------------------------
(* The client.                                                               *)

\* The last answer is the one for the direction asked.
IInv ==
  /\ TypeOK
  /\ quad = <<>> => record = NearestNeighbour(header, asked)
  /\ quad # <<>> => quad = Cell(header, asked)

LEMMA FlagType ==
  ASSUME NEW h \in Headers, NEW n \in [alpha : Int, beta : Int]
  PROVE  OutOfBounds(h, n) \in BOOLEAN
BY DEF OutOfBounds, AlphaWithin, BetaWithin

LEMMA NumRecordsType ==
  ASSUME NEW h \in Headers
  PROVE  NumRecords(h) \in Nat
<1>1. NearestNeighbour(h, [alpha |-> 0, beta |-> 0]) \in 0 .. NumRecords(h)
  BY NearestNeighbourBounds
<1>2. h.betaPoints \in Int /\ h.betaPoints >= 1 /\ h.alphaPoints \in Int
  BY HeaderFields DEF AcceptedHeader
<1>3. NumRecords(h) \in Int
  BY <1>2 DEF NumRecords, RingFirst, RingSize
<1>4. QED
  BY <1>1, <1>3

LEMMA AnswerInv ==
  ASSUME NEW d \in [alpha : Int, beta : Int], IInv, getNearestNeighbour(d)
  PROVE  IInv'
<1>1. header \in Headers /\ header' = header
  BY DEF IInv, TypeOK, getNearestNeighbour
<1>2. record' \in 0 .. NumRecords(header) /\ outOfBounds' \in BOOLEAN
  BY <1>1, NearestNeighbourBounds, NormalizedType, FlagType DEF getNearestNeighbour
<1>3. TypeOK'
  BY <1>1, <1>2 DEF TypeOK, getNearestNeighbour
<1>4. QED
  BY <1>1, <1>3 DEF IInv, getNearestNeighbour

LEMMA InitInv == Init => IInv
<1> SUFFICES ASSUME Init PROVE IInv
  OBVIOUS
<1>1. header \in Headers /\ asked \in [alpha : Int, beta : Int]
  BY RecordCoordsType DEF Init
<1>2. record \in 0 .. NumRecords(header) /\ outOfBounds \in BOOLEAN
  BY <1>1, NearestNeighbourBounds, NormalizedType, FlagType DEF Init
<1>3. QED
  BY <1>1, <1>2 DEF Init, IInv, TypeOK

LEMMA NextInv == IInv /\ [Next]_vars => IInv'
<1> SUFFICES ASSUME IInv, [Next]_vars PROVE IInv'
  OBVIOUS
<1>1. header \in Headers
  BY DEF IInv, TypeOK
<1>2. Directions \subseteq [alpha : Int, beta : Int]
  <2>1. Alphas \subseteq Int /\ Betas \subseteq Int
    BY GridAssumption
  <2> QED BY <2>1 DEF Directions
<1>3. CASE \E d \in Directions : getNearestNeighbour(d)
  <2>1. PICK d \in Directions : getNearestNeighbour(d)
    BY <1>3
  <2>2. d \in [alpha : Int, beta : Int]
    BY <1>2
  <2> QED BY <2>1, <2>2, AnswerInv
<1>4. CASE \E i \in Records(header) : getRecordCoords(i)
  <2>1. \A i \in Records(header) : i \in Nat
    BY <1>1, NumRecordsType DEF Records
  <2>2. QED
    BY <1>1, <1>4, <2>1, RecordCoordsType, AnswerInv DEF getRecordCoords
<1>5. CASE \E d \in Directions : getCell(d)
  <2>1. PICK d \in Directions : getCell(d)
    BY <1>5
  <2>2. header' = header /\ asked' = d /\ outOfBounds' = FALSE
        /\ quad' = Cell(header, d) /\ record' = quad'[1]
    BY <2>1 DEF getCell
  <2>3. quad' \in [1..4 -> 0 .. NumRecords(header)] /\ quad' # <<>>
    BY <1>1, <1>2, <2>2, CellBounds
  <2>4. record' \in 0 .. NumRecords(header)
    BY <2>2, <2>3
  <2>5. QED
    BY <1>1, <1>2, <2>2, <2>3, <2>4 DEF IInv, TypeOK
<1>6. CASE UNCHANGED vars
  BY <1>6 DEF IInv, TypeOK, vars
<1>7. QED
  BY <1>3, <1>4, <1>5, <1>6 DEF Next

\* Every index that getNearestNeighbour and getCell answer is at most one
\* behind the last record.
THEOREM TypeCorrect == Spec => []TypeOK
<1>1. IInv => TypeOK
  BY DEF IInv
<1>2. QED
  BY <1>1, InitInv, NextInv, PTL DEF Spec

\* Off the seam every index getNearestNeighbour answers is a record of the
\* content, for every accepted range, whatever the direction asked.
THEOREM ValidIndex == Spec => []IndexIsValid
<1>1. IInv => IndexIsValid
  BY NearestNeighbourBounds DEF IInv, TypeOK, IndexIsValid, Direction
<1>2. QED
  BY <1>1, InitInv, NextInv, PTL DEF Spec

\* On the seam the index behind the last point is that of the first point of the
\* next ring: getNearestNeighbour answers every direction with a record of the
\* content unless the last ring goes round the full circle and is no pole.
THEOREM EveryAnswerIsRecord ==
  ASSUME NEW h \in Headers, NorthPole(h) \/ h.alphaPoints = 1 \/ AlphaSpan(h) # FullTurn,
         NEW d \in [alpha : Int, beta : Int]
  PROVE  NearestNeighbour(h, d) \in Records(h)
<1>1. PICK m : m = NormalizeDirection(d)
  OBVIOUS
<1>2. PICK p, n \in Int : p = h.alphaPoints /\ n = h.betaPoints /\ p >= 1 /\ n >= 1
  BY HeaderFields DEF AcceptedHeader
<1>3. PICK k \in 0 .. n - 1, i \in 0 .. p :
        k = BetaIndex(h, m.beta) /\ i = AlphaIndex(h, m.alpha)
        /\ (~OnSeam(h, m.alpha) => i <= p - 1)
  BY <1>1, <1>2, NormalizedType, AlphaIndexBounds, BetaIndexBounds
<1>4. NearestNeighbour(h, d) = RecordAt(h, k, i)
  BY <1>1, <1>3 DEF NearestNeighbour
<1>5. \A ring \in 0 .. n - 1, column \in 0 .. p - 1 : RecordAt(h, ring, column) \in Records(h)
  BY <1>2, RecordAtBounds DEF Records
<1>6. CASE i <= p - 1
  BY <1>3, <1>4, <1>5, <1>6
<1>7. CASE ~(i <= p - 1)
  <2>1. i = p /\ NorthPole(h)
    BY <1>2, <1>3, <1>7 DEF OnSeam
  <2>2. CASE k = n - 1
    <3>1. \A x : RecordAt(h, k, x) = IF SouthPole(h)
              THEN IF k = 0 THEN 0 ELSE 1 + (k - 1) * h.alphaPoints + 0
              ELSE k * h.alphaPoints + 0
      BY <1>2, <2>1, <2>2, Zenon DEF RecordAt
    <3>2. 0 \in 0 .. p - 1
      BY <1>2
    <3>3. QED
      BY <1>3, <1>4, <1>5, <3>1, <3>2
  <2>3. CASE k # n - 1 /\ SouthPole(h) /\ k = 0
    <3>1. RecordAt(h, k, i) = RecordAt(h, 0, 0)
      BY <2>3 DEF RecordAt
    <3>2. 0 \in 0 .. p - 1 /\ 0 \in 0 .. n - 1
      BY <1>2
    <3>3. QED
      BY <1>4, <1>5, <3>1, <3>2
  <2>4. CASE k # n - 1 /\ ~(SouthPole(h) /\ k = 0)
    <3>1. PICK j \in 0 .. n - 1 : j = k + 1 /\ j # 0 /\ j - 1 = k
      BY <1>2, <1>3, <2>4
    <3>2. (k - 1) * p + p = k * p /\ (j - 1) * p + p = j * p
      <4>1. k \in Int /\ j \in Int /\ p \in Int
        BY <1>2
      <4>2. QED
        BY <4>1, ProductStep, Zenon
    <3>3. (k - 1) * p \in Int /\ k * p \in Int /\ j * p \in Int
      BY <1>2, <1>3, <3>1
    <3>4. RecordAt(h, k, i) = IF SouthPole(h) THEN 1 + (k - 1) * p + p ELSE k * p + p
      BY <1>2, <1>3, <2>1, <2>4 DEF RecordAt
    <3>5. RecordAt(h, j, 0) = IF SouthPole(h) THEN 1 + k * p + 0 ELSE j * p + 0
      BY <1>2, <3>1 DEF RecordAt
    <3>6. RecordAt(h, k, i) = RecordAt(h, j, 0)
      <4>1. PICK x, y, z \in Int : x = (k - 1) * p /\ y = k * p /\ z = j * p
        BY <3>3
      <4>2. x + p = y /\ y + p = z
        BY <3>1, <3>2, <4>1
      <4>3. 1 + x + p = 1 + y + 0 /\ y + p = z + 0
        BY <1>2, <4>2
      <4>4. QED
        BY <3>4, <3>5, <4>1, <4>3
    <3>7. 0 \in 0 .. p - 1
      BY <1>2
    <3>8. QED
      BY <1>4, <1>5, <3>1, <3>6, <3>7
  <2>5. QED
    BY <2>2, <2>3, <2>4
<1>8. QED
  BY <1>6, <1>7

-----------------------------------------------------------------------------
(* Rounding.                                                                 *)

\* Rounding errs by at most half of the divisor, upwards included.
LEMMA RoundError ==
  ASSUME NEW x \in Nat, NEW n \in Int, n > 0
  PROVE  /\ RoundQuotient(x, n) \in Nat
         /\ 2 * (RoundQuotient(x, n) * n) <= 2 * x + n
         /\ 2 * x < 2 * (RoundQuotient(x, n) * n) + n
<1> DEFINE m == 2 * n
           q == (2 * x + n) \div m
<1>1. RoundQuotient(x, n) = q
  BY DEF RoundQuotient
<1>2. m \in Int /\ m > 0 /\ 2 * x + n \in Int
  OBVIOUS
<1>3. q \in Int /\ m * q <= 2 * x + n /\ 2 * x + n < m * q + m
  <2> HIDE DEF m
  <2> QED
    BY <1>2, DivisionBounds DEF q
<1> HIDE DEF q
<1>4. 0 <= q
  <2>1. m * 0 < m * (q + 1)
    BY <1>2, <1>3
  <2> QED
    BY <2>1, <1>2, <1>3, ProductCancel
<1>5. m * q = 2 * (q * n)
  BY <1>3
<1>6. QED
  BY <1>1, <1>3, <1>4, <1>5

\* A number whose double is within n of that of q times n is rounded to q.
LEMMA RoundIs ==
  ASSUME NEW x \in Nat, NEW n \in Int, n > 0, NEW q \in Int,
         2 * (q * n) <= 2 * x + n, 2 * x < 2 * (q * n) + n
  PROVE  RoundQuotient(x, n) = q
<1>1. PICK r \in Int : r = RoundQuotient(x, n)
  BY RoundError
<1>2. 2 * (r * n) <= 2 * x + n /\ 2 * x < 2 * (r * n) + n
  BY <1>1, RoundError
<1>3. r * n \in Int /\ q * n \in Int /\ r * n < q * n + n /\ q * n < r * n + n
  BY <1>1, <1>2
<1>4. n * r < n * (q + 1) /\ n * q < n * (r + 1)
  BY <1>1, <1>3
<1>5. r <= q /\ q <= r
  BY <1>1, <1>4, ProductCancel
<1>6. QED
  BY <1>1, <1>5

\* Of all multiples of n the rounded one is nearest.
LEMMA RoundNearest ==
  ASSUME NEW x \in Nat, NEW n \in Int, n > 0, NEW t \in Int
  PROVE  Distance(RoundQuotient(x, n) * n, x) <= Distance(t * n, x)
<1>1. PICK q \in Int : q = RoundQuotient(x, n)
  BY RoundError
<1>2. 2 * (q * n) <= 2 * x + n /\ 2 * x < 2 * (q * n) + n
  BY <1>1, RoundError
<1>3. PICK u \in Int, v \in Int : u = q * n /\ v = t * n
  BY <1>1
<1>4. t = q \/ v <= u - n \/ v >= u + n
  <2>1. CASE t <= q - 1
    <3>1. t * n <= (q - 1) * n
      BY <1>1, <2>1, ProductMonotone
    <3>2. (q - 1) * n = q * n - n
      BY <1>1
    <3>3. QED
      BY <3>1, <3>2, <1>3
  <2>2. CASE t >= q + 1
    <3>1. (q + 1) * n <= t * n
      BY <1>1, <2>2, ProductMonotone
    <3>2. (q + 1) * n = q * n + n
      BY <1>1
    <3>3. QED
      BY <3>1, <3>2, <1>3
  <2>3. QED
    BY <1>1, <2>1, <2>2
<1>5. t = q => v = u
  BY <1>3
<1>6. 2 * u <= 2 * x + n /\ 2 * x < 2 * u + n
  BY <1>2, <1>3
<1>7. Distance(u, x) <= Distance(v, x)
  BY <1>4, <1>5, <1>6 DEF Distance
<1>8. QED
  BY <1>1, <1>3, <1>7

-----------------------------------------------------------------------------
(* Points and records.                                                       *)

\* What is nearest to its place among numbers of the form k * p + i.
LEMMA Quotient ==
  ASSUME NEW p \in Int, p > 0, NEW k \in Int, NEW i \in 0 .. p - 1
  PROVE  (k * p + i) \div p = k /\ (k * p + i) % p = i
<1>1. PICK x \in Int, q \in Int, r \in Int :
        x = k * p + i /\ q = x \div p /\ r = x % p
  BY DivisionBounds
<1>2. p * q <= x /\ x < p * q + p /\ r = x - p * q
  BY <1>1
<1>3. p * q < p * (k + 1) /\ p * k < p * (q + 1)
  <2>1. p * (k + 1) = k * p + p /\ p * k = k * p /\ p * (q + 1) = p * q + p
    BY <1>1
  <2>2. k * p \in Int /\ p * q \in Int
    BY <1>1
  <2>3. QED
    BY <1>1, <1>2, <2>1, <2>2
<1>4. q <= k /\ k <= q
  BY <1>1, <1>3, ProductCancel
<1>5. q = k
  BY <1>1, <1>4
<1>6. QED
  BY <1>1, <1>2, <1>5

\* Alpha index i stands for a column of ring k: a pole has one.
Column(h, k, i) ==
  IF k = h.betaPoints - 1 /\ NorthPole(h) THEN 0
  ELSE IF k = 0 /\ SouthPole(h) THEN 0 ELSE i

Point(h, k, i) ==
  [alpha |-> IF k = 0 /\ SouthPole(h) THEN 0
             ELSE h.alphaStart + i * AlphaResolution(h),
   beta |-> RingBeta(h, k)]

\* The record of a ring has the coordinates of its column on the ring.
LEMMA CoordsOfRecord ==
  ASSUME NEW h \in Headers, NEW k \in 0 .. h.betaPoints - 1,
         NEW i \in 0 .. h.alphaPoints - 1
  PROVE  RecordCoords(h, RecordAt(h, k, i)) = Point(h, k, Column(h, k, i))
<1>0. PICK p \in Int : p = h.alphaPoints /\ p >= 1
  BY HeaderFields DEF AcceptedHeader
<1>1. /\ h.betaPoints \in Int /\ h.betaPoints >= 1
      /\ k \in Nat /\ i \in Nat /\ i <= p - 1
      /\ h.alphaStart \in Int /\ h.betaStart \in Int
  BY <1>0, HeaderFields DEF AcceptedHeader
<1>2. PICK c \in 0 .. p - 1 : c = IF k = h.betaPoints - 1 /\ NorthPole(h) THEN 0 ELSE i
  BY <1>0, <1>1
<1>3. PICK j \in Int : j = IF SouthPole(h) THEN (k - 1) * p + c ELSE k * p + c
  BY <1>1
<1>4. CASE SouthPole(h) /\ k = 0
  <2>1. RecordAt(h, k, i) = 0
    BY <1>4 DEF RecordAt
  <2>2. RingBeta(h, 0) = 0
    BY <1>1, <1>4, SpansAndResolutions DEF RingBeta, SouthPole
  <2>3. QED
    BY <1>4, <2>1, <2>2 DEF RecordCoords, Point
<1>5. CASE SouthPole(h) /\ k # 0
  <2>1. j = (k - 1) * p + c
    BY <1>3, <1>5
  <2>2. j >= 0
    <3>1. 0 * p <= (k - 1) * p
      BY <1>1, <1>5, ProductMonotone
    <3>2. QED
      BY <1>1, <1>2, <2>1, <3>1
  <2>3. RecordAt(h, k, i) = 1 + j
    <3>1. RecordAt(h, k, i) = 1 + (k - 1) * p + c
      BY <1>0, <1>2, <1>5 DEF RecordAt
    <3>2. (k - 1) * p \in Int
      BY <1>1
    <3>3. QED
      BY <1>2, <2>1, <3>1, <3>2
  <2>4. j \div p = k - 1 /\ j % p = c
    <3>1. PICK l \in Int : l = k - 1
      BY <1>1
    <3>2. (l * p + c) \div p = l /\ (l * p + c) % p = c
      BY <1>1, <1>2, <3>1, Quotient
    <3>3. QED
      BY <2>1, <3>1, <3>2
  <2>5. 1 + j # 0 /\ (1 + j) - 1 = j
    BY <2>2
  <2>6. RecordCoords(h, 1 + j)
          = [alpha |-> h.alphaStart + c * AlphaResolution(h),
             beta |-> h.betaStart + ((k - 1) + 1) * BetaResolution(h)]
    <3>1. PICK x : x = 1 + j
      OBVIOUS
    <3>2. x # 0 /\ x - 1 = j
      BY <2>5, <3>1
    <3>3. RecordCoords(h, x)
            = [alpha |-> h.alphaStart + ((x - 1) % p) * AlphaResolution(h),
               beta |-> h.betaStart + (((x - 1) \div p) + 1) * BetaResolution(h)]
      BY <1>5, <3>2, <1>0, Zenon DEF RecordCoords
    <3>4. QED
      BY <2>4, <3>1, <3>2, <3>3
  <2>7. (k - 1) + 1 = k /\ c = Column(h, k, i)
    BY <1>1, <1>2, <1>5 DEF Column
  <2>8. QED
    BY <1>5, <2>3, <2>6, <2>7 DEF Point, RingBeta
<1>6. CASE ~SouthPole(h)
  <2>1. j = k * p + c /\ RecordAt(h, k, i) = j
    BY <1>0, <1>2, <1>3, <1>6 DEF RecordAt
  <2>2. j \div p = k /\ j % p = c
    BY <1>1, <1>2, <2>1, Quotient
  <2>3. RecordCoords(h, j)
          = [alpha |-> h.alphaStart + c * AlphaResolution(h),
             beta |-> h.betaStart + (k + 0) * BetaResolution(h)]
    <3>1. RecordCoords(h, j)
            = [alpha |-> h.alphaStart + (j % p) * AlphaResolution(h),
               beta |-> h.betaStart + ((j \div p) + 0) * BetaResolution(h)]
      BY <1>6, <1>0, Zenon DEF RecordCoords
    <3>2. QED
      BY <2>2, <3>1
  <2>4. k + 0 = k /\ c = Column(h, k, i)
    BY <1>1, <1>2, <1>6 DEF Column
  <2>5. QED
    BY <1>6, <2>1, <2>3, <2>4 DEF Point, RingBeta
<1>7. QED
  BY <1>4, <1>5, <1>6

\* Records are counted ring by ring.
LEMMA RecordCount ==
  ASSUME NEW h \in Headers
  PROVE  NumRecords(h) = IF h.betaPoints = 1 THEN RingSize(h, 0)
                         ELSE RingSize(h, 0) + (h.betaPoints - 2) * h.alphaPoints
                                + RingSize(h, h.betaPoints - 1)
<1>1. PICK n \in Int, p \in Int : n = h.betaPoints /\ p = h.alphaPoints /\ n >= 1
  BY HeaderFields DEF AcceptedHeader
<1>2. RingSize(h, 0) \in Int /\ RingSize(h, n - 1) \in Int
  BY <1>1 DEF RingSize
<1>3. (n - 1) - 1 = n - 2 /\ (n = 1 => n - 1 = 0)
  BY <1>1
<1>4. NumRecords(h) = IF n = 1 THEN RingSize(h, n - 1)
                      ELSE RingSize(h, 0) + (n - 2) * p + RingSize(h, n - 1)
  <2>1. n - 1 = 0 <=> n = 1
    BY <1>1
  <2>2. RingFirst(h, n - 1) = IF n = 1 THEN 0 ELSE RingSize(h, 0) + ((n - 1) - 1) * p
    BY <1>1, <2>1 DEF RingFirst
  <2>3. NumRecords(h) = RingFirst(h, n - 1) + RingSize(h, n - 1)
    BY <1>1 DEF NumRecords
  <2>4. QED
    BY <1>2, <1>3, <2>2, <2>3
<1>5. QED
  BY <1>1, <1>3, <1>4

\* Each record is the point of a column on a ring.
LEMMA RecordIsPoint ==
  ASSUME NEW h \in Headers, NEW i \in Records(h)
  PROVE  \E k \in 0 .. h.betaPoints - 1, c \in 0 .. h.alphaPoints - 1 :
           /\ RecordCoords(h, i) = Point(h, k, c)
           /\ c = Column(h, k, c)
<1>1. PICK n \in Int, p \in Int : n = h.betaPoints /\ p = h.alphaPoints /\ n >= 1 /\ p >= 1
  BY HeaderFields DEF AcceptedHeader
<1>2. PICK first, last : first = RingSize(h, 0) /\ last = RingSize(h, n - 1)
  OBVIOUS
<1>3. /\ SouthPole(h) => first = 1
      /\ NorthPole(h) => last = 1
      /\ ~SouthPole(h) /\ (n > 1 \/ ~NorthPole(h)) => first = p
      /\ n > 1 /\ ~NorthPole(h) => last = p
      /\ n = 1 => first = last
      /\ first \in 1 .. p /\ last \in 1 .. p
  <2>1. n = 1 => n - 1 = 0
    BY <1>1
  <2>2. first \in 1 .. p /\ last \in 1 .. p
    BY <1>1, <1>2 DEF RingSize
  <2>3. QED
    BY <1>1, <1>2, <2>1, <2>2, EndRings
<1>4. i \in Int /\ i >= 0 /\ i < IF n = 1 THEN first ELSE first + (n - 2) * p + last
  <2>1. NumRecords(h) = IF n = 1 THEN first ELSE first + (n - 2) * p + last
    BY <1>1, <1>2, RecordCount
  <2>2. PICK m \in Int : m = NumRecords(h)
    <3>1. (n - 2) * p \in Int
      BY <1>1
    <3>2. QED
      BY <1>3, <2>1, <3>1
  <2>3. i \in 0 .. m - 1
    BY <2>2 DEF Records
  <2>4. QED
    BY <2>1, <2>2, <2>3
<1>5. CASE SouthPole(h) /\ i = 0
  <2>1. RingBeta(h, 0) = 0
    BY <1>5, HeaderFields, SpansAndResolutions DEF RingBeta, SouthPole
  <2>2. RecordCoords(h, i) = Point(h, 0, 0)
    BY <1>5, <2>1 DEF RecordCoords, Point
  <2>3. Column(h, 0, 0) = 0
    BY DEF Column
  <2>4. 0 \in 0 .. n - 1 /\ 0 \in 0 .. p - 1
    BY <1>1
  <2>5. QED
    BY <1>1, <2>2, <2>3, <2>4
<1>6. CASE ~(SouthPole(h) /\ i = 0)
  <2>1. PICK s \in {0, 1} : s = IF SouthPole(h) THEN 1 ELSE 0
    OBVIOUS
  <2>2. PICK j \in Int, q \in Int, c \in Int :
          j = i - s /\ q = j \div p /\ c = j % p /\ j >= 0
    BY <1>1, <1>4, <1>6, <2>1, DivisionBounds
  <2>3. p * q <= j /\ j < p * q + p /\ c \in 0 .. p - 1 /\ c = j - p * q
    BY <1>1, <2>2, DivisionBounds
  <2>4. q >= 0
    <3>1. p * 0 < p * (q + 1)
      BY <1>1, <2>2, <2>3
    <3>2. QED
      BY <1>1, <2>2, <3>1, ProductCancel
  <2>5. j < (n - 1 - s) * p + last
    <3>1. CASE n = 1
      <4>1. ~SouthPole(h) /\ s = 0 /\ (n - 1 - s) * p = 0
        BY <1>1, <1>3, <1>4, <1>6, <2>1, <3>1
      <4>2. QED
        BY <1>3, <1>4, <2>2, <3>1, <4>1
    <3>2. CASE n > 1
      <4>1. CASE SouthPole(h)
        <5>1. s = 1 /\ first = 1 /\ (n - 1 - s) * p = (n - 2) * p
          BY <1>3, <2>1, <4>1
        <5>2. (n - 2) * p \in Int /\ n - 1 - 1 = n - 2
          BY <1>1
        <5>3. i < first + (n - 2) * p + last /\ j = i - 1
          BY <1>4, <2>2, <3>2, <5>1
        <5>4. QED
          BY <1>3, <1>4, <5>1, <5>2, <5>3
      <4>2. CASE ~SouthPole(h)
        <5>1. s = 0 /\ first = p /\ n - 1 - s = n - 1
          BY <1>1, <1>3, <2>1, <3>2, <4>2
        <5>2. (n - 1) * p = (n - 2) * p + p /\ (n - 2) * p \in Int
          BY <1>1
        <5>3. QED
          BY <1>1, <1>3, <1>4, <2>2, <3>2, <5>1, <5>2
      <4>3. QED
        BY <4>1, <4>2
    <3>3. QED
      BY <1>1, <3>1, <3>2
  <2>6. PICK m \in Int : m = n - 1 - s
    BY <1>1, <2>1
  <2>7. j < m * p + last /\ m * p = p * m /\ m * p \in Int
    BY <1>1, <2>5, <2>6
  <2>8. q <= m
    <3>1. p * q < p * (m + 1)
      <4>1. p * (m + 1) = p * m + p
        BY <1>1, <2>6
      <4>2. QED
        BY <1>1, <1>3, <2>2, <2>3, <2>7, <4>1
    <3>2. QED
      BY <1>1, <2>2, <2>6, <3>1, ProductCancel
  <2>9. q = m => c < last
    BY <1>3, <2>2, <2>3, <2>7
  <2>10. PICK k \in Int : k = q + s
    BY <2>1, <2>2
  <2>11. k \in 0 .. n - 1 /\ (k = n - 1 => q = m) /\ (s = 1 => k # 0)
    BY <1>1, <2>1, <2>2, <2>4, <2>6, <2>8, <2>10
  <2>12. c = Column(h, k, c)
    <3>1. k = n - 1 /\ NorthPole(h) => c = 0
      BY <1>3, <2>2, <2>3, <2>9, <2>11
    <3>2. QED
      BY <1>1, <2>1, <2>11, <3>1 DEF Column
  <2>13. RecordCoords(h, i) = Point(h, k, c)
    <3>1. RecordCoords(h, i)
            = [alpha |-> h.alphaStart + c * AlphaResolution(h),
               beta |-> h.betaStart + k * BetaResolution(h)]
      <4>1. CASE SouthPole(h)
        <5>1. i # 0 /\ i - 1 = j /\ s = 1
          BY <1>6, <2>1, <2>2, <4>1
        <5>2. RecordCoords(h, i)
                = [alpha |-> h.alphaStart + (j % p) * AlphaResolution(h),
                   beta |-> h.betaStart + ((j \div p) + 1) * BetaResolution(h)]
          BY <1>1, <4>1, <5>1, Zenon DEF RecordCoords
        <5>3. QED
          BY <2>2, <2>10, <5>1, <5>2
      <4>2. CASE ~SouthPole(h)
        <5>1. i = j /\ s = 0
          BY <1>4, <2>1, <2>2, <4>2
        <5>2. RecordCoords(h, j)
                = [alpha |-> h.alphaStart + (j % p) * AlphaResolution(h),
                   beta |-> h.betaStart + ((j \div p) + 0) * BetaResolution(h)]
          BY <1>1, <4>2, Zenon DEF RecordCoords
        <5>3. QED
          BY <2>2, <2>10, <5>1, <5>2
      <4>3. QED
        BY <4>1, <4>2
    <3>2. ~(k = 0 /\ SouthPole(h))
      BY <2>1, <2>11
    <3>3. QED
      BY <3>1, <3>2 DEF Point, RingBeta
  <2>14. QED
    BY <1>1, <2>3, <2>11, <2>12, <2>13
<1>7. QED
  BY <1>5, <1>6

-----------------------------------------------------------------------------
(* What is nearest.                                                          *)

\* No ring is closer in beta than the one of the beta index.
LEMMA BetaNearest ==
  ASSUME NEW h \in Headers, NEW b \in Int, NEW k \in 0 .. h.betaPoints - 1
  PROVE  Distance(RingBeta(h, BetaIndex(h, b)), b) <= Distance(RingBeta(h, k), b)
<1>1. PICK n \in Int, r \in Int, s \in Int, e \in Int :
        /\ n = h.betaPoints /\ r = BetaResolution(h) /\ s = h.betaStart /\ e = h.betaEnd
        /\ n >= 1 /\ r >= 0 /\ s <= e
        /\ n > 1 => r > 0
  BY HeaderFields, SpansAndResolutions DEF AcceptedHeader
<1>n. n > 1 => e - s = (n - 1) * r
  BY <1>1, SpansAndResolutions
<1>2. \A j \in Int : RingBeta(h, j) = s + j * r
  BY <1>1 DEF RingBeta
<1>3. CASE n = 1
  <2>1. k = 0 /\ BetaIndex(h, b) = 0
    BY <1>1, <1>3 DEF BetaIndex
  <2>2. PICK x \in Int : x = RingBeta(h, 0)
    BY <1>1, <1>2
  <2>3. Distance(x, b) <= Distance(x, b)
    BY DEF Distance
  <2>4. QED
    BY <2>1, <2>2, <2>3
<1>4. CASE n > 1 /\ BetaWithin(h, b)
  <2>1. PICK x \in Nat : x = b - s
    BY <1>1, <1>4 DEF BetaWithin
  <2>2. BetaIndex(h, b) = RoundQuotient(x, r)
    BY <1>1, <1>4, <2>1 DEF BetaIndex
  <2>3. PICK q \in Int : q = RoundQuotient(x, r)
    BY <1>1, <1>4, <2>1, RoundType
  <2>4. Distance(q * r, x) <= Distance(k * r, x)
    BY <1>1, <1>4, <2>1, <2>3, RoundNearest
  <2>5. PICK u \in Int, v \in Int : u = q * r /\ v = k * r
    BY <1>1, <2>3
  <2>6. RingBeta(h, q) = s + u /\ RingBeta(h, k) = s + v
    BY <1>2, <2>3, <2>5
  <2>7. Distance(s + u, b) <= Distance(s + v, b)
    BY <1>1, <2>1, <2>4, <2>5 DEF Distance
  <2>8. QED
    BY <2>2, <2>3, <2>6, <2>7
<1>5. CASE n > 1 /\ ~BetaWithin(h, b)
  <2>1. b < s \/ b > e
    BY <1>1, <1>5 DEF BetaWithin
  <2>2. k \in Int /\ k >= 0 /\ k <= n - 1
    BY <1>1
  <2>3. PICK v \in Int : v = k * r
    BY <1>1
  <2>4. v >= 0 /\ v <= e - s
    <3>1. 0 * r <= k * r
      BY <1>1, <2>2, ProductMonotone
    <3>2. PICK l \in Int : l = n - 1
      BY <1>1
    <3>3. k * r <= l * r
      BY <1>1, <2>2, <3>2, ProductMonotone
    <3>4. l * r = e - s
      BY <1>n, <1>5, <3>2
    <3>5. QED
      BY <2>3, <3>1, <3>3, <3>4
  <2>5. RingBeta(h, 0) = s /\ RingBeta(h, n - 1) = e /\ RingBeta(h, k) = s + v
    <3>1. PICK l \in Int : l = n - 1
      BY <1>1
    <3>2. s + 0 * r = s /\ s + l * r = e
      BY <1>1, <1>n, <1>5, <3>1
    <3>3. RingBeta(h, 0) = s + 0 * r /\ RingBeta(h, l) = s + l * r
          /\ RingBeta(h, k) = s + k * r
      BY <1>2, <2>2
    <3>4. QED
      BY <2>3, <3>1, <3>2, <3>3
  <2>6. BetaIndex(h, b) = IF Distance(s, b) <= Distance(e, b) THEN 0 ELSE n - 1
    BY <1>1, <1>5 DEF BetaIndex
  <2>7. RingBeta(h, BetaIndex(h, b))
          = IF Distance(s, b) <= Distance(e, b) THEN s ELSE e
    BY <2>5, <2>6
  <2>8. (IF Distance(s, b) <= Distance(e, b) THEN Distance(s, b) ELSE Distance(e, b))
          <= Distance(s + v, b)
    BY <1>1, <2>1, <2>4 DEF Distance
  <2>9. QED
    BY <2>5, <2>7, <2>8
<1>6. QED
  BY <1>1, <1>3, <1>4, <1>5

\* On the circle two angles are as far apart as the shorter way between them.
LEMMA CircleDistance ==
  ASSUME NEW x \in Int, NEW y \in Int, Distance(x, y) <= FullTurn
  PROVE  AngleDistance(x, y)
           = IF Distance(x, y) <= HalfTurn THEN Distance(x, y)
             ELSE FullTurn - Distance(x, y)
<1>1. PICK t \in Int, f \in Int : t = HalfTurn /\ f = FullTurn /\ f = 2 * t /\ t > 0
  BY DegreeType
<1>2. PICK g \in Int : g = x - y
  OBVIOUS
<1>3. -f <= g /\ g <= f
  BY <1>1, <1>2 DEF Distance
<1>4. g % f = IF g < 0 THEN g + f ELSE IF g = f THEN 0 ELSE g
  <2>1. CASE g = -f
    <3>1. ((-1) * f + 0) % f = 0
      BY <1>1, Quotient
    <3>2. QED
      BY <1>1, <2>1, <3>1
  <2>2. CASE -f < g /\ g < 0
    <3>1. PICK i \in 0 .. f - 1 : i = g + f
      BY <1>1, <1>2, <2>2
    <3>2. ((-1) * f + i) % f = i
      BY <1>1, <3>1, Quotient
    <3>3. (-1) * f + i = g
      BY <1>1, <1>2, <3>1
    <3>4. QED
      BY <1>1, <2>2, <3>1, <3>2, <3>3
  <2>3. CASE 0 <= g /\ g < f
    <3>1. (0 * f + g) % f = g
      BY <1>1, <1>2, <2>3, Quotient
    <3>2. QED
      BY <1>1, <1>2, <2>3, <3>1
  <2>4. CASE g = f
    <3>1. (1 * f + 0) % f = 0
      BY <1>1, Quotient
    <3>2. QED
      BY <1>1, <2>4, <3>1
  <2>5. QED
    BY <1>1, <1>2, <1>3, <2>1, <2>2, <2>3, <2>4
<1>5. AngleDistance(x, y) = IF g % f <= t THEN g % f ELSE f - (g % f)
  BY <1>1, <1>2 DEF AngleDistance
<1>6. Distance(x, y) = IF g < 0 THEN -g ELSE g
  BY <1>2 DEF Distance
<1>7. QED
  BY <1>1, <1>2, <1>3, <1>4, <1>5, <1>6

\* Of two points in a range of at most a turn, one that is nearest along the
\* range and no farther than the ends is nearest on the circle.
LEMMA NearestWithin ==
  ASSUME NEW s \in Int, NEW w \in Nat, w <= FullTurn, NEW x \in 0 .. w,
         NEW u \in Int, NEW v \in 0 .. w, Distance(u, x) <= Distance(v, x),
         Distance(u, x) <= Distance(0, x), Distance(u, x) <= Distance(w, x)
  PROVE  AngleDistance(s + u, s + x) <= AngleDistance(s + v, s + x)
<1>1. PICK t \in Int, f \in Int : t = HalfTurn /\ f = FullTurn /\ f = 2 * t /\ t > 0
  BY DegreeType
<1>2. PICK a \in Int, b \in Int, c \in Int :
        a = s + u /\ b = s + x /\ c = s + v
  OBVIOUS
<1>3. PICK i \in Nat, j \in Nat : i = Distance(u, x) /\ j = Distance(v, x)
  BY DEF Distance
<1>4. Distance(a, b) = i /\ Distance(c, b) = j
  BY <1>2, <1>3 DEF Distance
<1>5. i <= j /\ j <= f /\ i <= f - j
  BY <1>1, <1>3 DEF Distance
<1>6. AngleDistance(a, b) = (IF i <= t THEN i ELSE f - i)
  BY <1>1, <1>2, <1>4, <1>5, CircleDistance
<1>7. AngleDistance(c, b) = (IF j <= t THEN j ELSE f - j)
  BY <1>1, <1>2, <1>4, <1>5, CircleDistance
<1>8. QED
  BY <1>1, <1>2, <1>3, <1>5, <1>6, <1>7

\* From outside of a range one of its ends is nearest on the circle.
LEMMA NearestOutside ==
  ASSUME NEW s \in Nat, NEW w \in Nat, s + w <= FullTurn, NEW b \in 0 .. FullTurn,
         b < s \/ b > s + w, NEW v \in 0 .. w
  PROVE  /\ \/ AngleDistance(s, b) <= AngleDistance(s + v, b)
            \/ AngleDistance(s + w, b) <= AngleDistance(s + v, b)
         /\ AngleDistance(s, b) \in Int /\ AngleDistance(s + w, b) \in Int
         /\ AngleDistance(s + v, b) \in Int
<1>1. PICK t \in Int, f \in Int : t = HalfTurn /\ f = FullTurn /\ f = 2 * t /\ t > 0
  BY DegreeType
<1>2. PICK e \in Int, c \in Int : e = s + w /\ c = s + v
  OBVIOUS
<1>3. PICK i \in Nat, j \in Nat, l \in Nat :
        i = Distance(s, b) /\ j = Distance(e, b) /\ l = Distance(c, b)
  <2>1. b \in Int
    BY <1>1
  <2>2. Distance(s, b) \in Nat /\ Distance(e, b) \in Nat /\ Distance(c, b) \in Nat
    BY <1>2, <2>1 DEF Distance
  <2>3. QED
    BY <2>2
<1>4. i <= f /\ j <= f /\ l <= f /\ ((i <= l /\ l <= j) \/ (j <= l /\ l <= i))
  BY <1>1, <1>2, <1>3 DEF Distance
<1>5. AngleDistance(s, b) = (IF i <= t THEN i ELSE f - i)
  BY <1>1, <1>3, <1>4, CircleDistance
<1>6. AngleDistance(e, b) = (IF j <= t THEN j ELSE f - j)
  BY <1>1, <1>2, <1>3, <1>4, CircleDistance
<1>7. AngleDistance(c, b) = (IF l <= t THEN l ELSE f - l)
  BY <1>1, <1>2, <1>3, <1>4, CircleDistance
<1>8. QED
  BY <1>1, <1>2, <1>3, <1>4, <1>5, <1>6, <1>7

\* No point of a range that does not run over 0 degrees is closer on the circle
\* than the one of the alpha index.
LEMMA AlphaNearest ==
  ASSUME NEW h \in Headers, ~Wraps(h), NEW a \in 0 .. FullTurn,
         NEW c \in 0 .. h.alphaPoints - 1
  PROVE  AngleDistance(h.alphaStart + AlphaIndex(h, a) * AlphaResolution(h), a)
           <= AngleDistance(h.alphaStart + c * AlphaResolution(h), a)
<1>1. PICK t \in Int, f \in Int : t = HalfTurn /\ f = FullTurn /\ f = 2 * t /\ t > 0
  BY DegreeType
<1>2. PICK p \in Int, r \in Int, s \in Int, e \in Int, m \in Int :
        /\ p = h.alphaPoints /\ r = AlphaResolution(h) /\ m = AlphaSteps(h)
        /\ s = h.alphaStart /\ e = h.alphaEnd
        /\ p >= 1 /\ r >= 0 /\ 0 <= s /\ s < e /\ e <= f
        /\ p > 1 => r > 0
        /\ m = IF e - s = f THEN p ELSE p - 1
  <2>1. AlphaSpan(h) = h.alphaEnd - h.alphaStart /\ h.alphaStart < h.alphaEnd
    BY HeaderFields DEF AlphaSpan, Wraps
  <2>2. AlphaSteps(h) = IF h.alphaEnd - h.alphaStart = FullTurn
                        THEN h.alphaPoints ELSE h.alphaPoints - 1
    BY <2>1 DEF AlphaSteps
  <2>3. /\ AlphaResolution(h) \in Int /\ AlphaResolution(h) >= 0
        /\ h.alphaPoints > 1 => AlphaResolution(h) > 0
        /\ AlphaSteps(h) \in Int
    BY SpansAndResolutions
  <2>4. QED
    BY <1>1, <2>1, <2>2, <2>3, HeaderFields DEF AcceptedHeader
<1>n. p > 1 => e - s = m * r
  BY <1>2, SpansAndResolutions, HeaderFields DEF AlphaSpan, Wraps
<1>3. a \in Int /\ 0 <= a /\ a <= f /\ c \in Int /\ 0 <= c /\ c <= p - 1
  BY <1>1, <1>2
<1>4. CASE p = 1
  <2>1. AlphaIndex(h, a) = 0 /\ c = 0
    BY <1>2, <1>3, <1>4 DEF AlphaIndex
  <2>2. PICK x \in Int : x = s + 0 * r
    BY <1>2
  <2>3. AngleDistance(x, a) \in Int
    BY <1>1, <1>3, <2>2, DivisionBounds DEF AngleDistance
  <2>4. QED
    BY <1>2, <2>1, <2>2, <2>3
<1>5. PICK v \in Int : v = c * r
  BY <1>2, <1>3
<1>6. p > 1 => v >= 0 /\ v <= e - s
  <2>1. ASSUME p > 1 PROVE 0 * r <= c * r /\ c * r <= m * r
    BY <1>2, <1>3, <2>1, ProductMonotone
  <2>2. QED
    BY <1>2, <1>n, <1>5, <2>1
<1>7. CASE p > 1 /\ AlphaWithin(h, a)
  <2>1. PICK x \in Nat : x = a - s /\ x <= e - s
    BY <1>2, <1>3, <1>7 DEF AlphaWithin
  <2>2. AlphaIndex(h, a) = RoundQuotient(x, r)
    BY <1>2, <1>7, <2>1 DEF AlphaIndex
  <2>3. PICK q \in Int : q = RoundQuotient(x, r)
    BY <1>2, <1>7, <2>1, RoundType
  <2>4. PICK u \in Int, w \in Int : u = q * r /\ w = e - s
    BY <1>2, <2>3
  <2>5. Distance(u, x) <= Distance(v, x) /\ Distance(u, x) <= Distance(0, x)
        /\ Distance(u, x) <= Distance(w, x)
    <3>1. \A j \in Int : Distance(q * r, x) <= Distance(j * r, x)
      BY <1>2, <1>7, <2>1, <2>3, RoundNearest
    <3>2. 0 * r = 0 /\ m * r = w
      BY <1>2, <1>n, <1>7, <2>4
    <3>3. /\ Distance(q * r, x) <= Distance(c * r, x)
          /\ Distance(q * r, x) <= Distance(0 * r, x)
          /\ Distance(q * r, x) <= Distance(m * r, x)
      BY <1>2, <1>3, <3>1
    <3>4. QED
      BY <1>5, <2>4, <3>2, <3>3
  <2>6. w \in Nat /\ w <= f /\ x \in 0 .. w /\ v \in 0 .. w
    BY <1>2, <1>6, <1>7, <2>1, <2>4
  <2>7. AngleDistance(s + u, s + x) <= AngleDistance(s + v, s + x)
    BY <1>1, <1>2, <2>4, <2>5, <2>6, NearestWithin
  <2>8. s + x = a
    BY <1>2, <1>3, <2>1
  <2>9. QED
    BY <1>2, <1>5, <2>2, <2>3, <2>4, <2>7, <2>8
<1>8. CASE p > 1 /\ ~AlphaWithin(h, a)
  <2>1. a < s \/ a > e
    BY <1>2, <1>3, <1>8 DEF AlphaWithin
  <2>2. m = p - 1
    BY <1>2, <1>3, <2>1
  <2>3. AlphaIndex(h, a) = IF AngleDistance(s, a) <= AngleDistance(e, a) THEN 0 ELSE m
    BY <1>2, <1>8, <2>2 DEF AlphaIndex
  <2>4. s + 0 * r = s /\ s + m * r = e
    BY <1>2, <1>n, <1>8
  <2>5. PICK w \in Nat : w = e - s
    BY <1>2
  <2>6. e = s + w /\ s \in Nat /\ s + w <= FullTurn /\ v \in 0 .. w
        /\ (a < s \/ a > s + w)
    BY <1>1, <1>2, <1>6, <1>8, <2>1, <2>5
  <2>7. /\ \/ AngleDistance(s, a) <= AngleDistance(s + v, a)
           \/ AngleDistance(e, a) <= AngleDistance(s + v, a)
        /\ AngleDistance(s, a) \in Int /\ AngleDistance(e, a) \in Int
        /\ AngleDistance(s + v, a) \in Int
    BY <2>6, NearestOutside
  <2>8. AngleDistance(s + AlphaIndex(h, a) * r, a)
          = IF AngleDistance(s, a) <= AngleDistance(e, a)
              THEN AngleDistance(s, a) ELSE AngleDistance(e, a)
    BY <2>3, <2>4
  <2>9. QED
    BY <1>2, <1>5, <2>7, <2>8
<1>9. QED
  BY <1>2, <1>4, <1>7, <1>8

\* Rounding to 1/1000 degree keeps the circle and its half, and errs by no
\* more than the half of that.
LEMMA MilliBounds ==
  ASSUME NEW x \in Nat
  PROVE  /\ RoundMilli(x) \in Nat
         /\ 2 * RoundMilli(x) <= 2 * x + Degree \div 1000
         /\ 2 * x < 2 * RoundMilli(x) + Degree \div 1000
         /\ x <= FullTurn => RoundMilli(x) <= FullTurn
         /\ x <= HalfTurn => RoundMilli(x) <= HalfTurn
<1>1. PICK m \in Int : m = Degree \div 1000 /\ m > 0
  BY DegreeType
<1>2. FullTurn = 360000 * m /\ HalfTurn = 180000 * m
  <2>1. Degree \in Int /\ Degree % 1000 = 0
    BY GridAssumption
  <2>2. Degree = 1000 * m
    BY <1>1, <2>1
  <2>3. QED
    BY <1>1, <2>1, <2>2 DEF FullTurn, HalfTurn
<1>3. PICK q \in Nat : q = RoundQuotient(x, m)
  BY <1>1, RoundError
<1>4. RoundMilli(x) = q * m
  BY <1>1, <1>3 DEF RoundMilli
<1>5. q * m \in Nat
  BY <1>1, <1>3
<1>6. 2 * (q * m) <= 2 * x + m /\ 2 * x < 2 * (q * m) + m
  BY <1>1, <1>3, RoundError
<1>7. ASSUME NEW s \in Nat, x <= s * m PROVE q * m <= s * m
  <2>1. q <= s
    BY <1>1, <1>3, <1>7, RoundBounds
  <2>2. QED
    BY <1>1, <1>3, <2>1, ProductMonotone
<1>8. /\ x <= 360000 * m => q * m <= 360000 * m
      /\ x <= 180000 * m => q * m <= 180000 * m
  BY <1>7
<1>9. QED
  BY <1>1, <1>2, <1>4, <1>5, <1>6, <1>8

\* The first angle of a direction is normalized to the circle.
LEMMA NormalizedAlpha ==
  ASSUME NEW d \in [alpha : Int, beta : Int]
  PROVE  NormalizeDirection(d).alpha \in 0 .. FullTurn
<1>3. ASSUME NEW x \in Int, 0 <= x, x <= FullTurn
      PROVE  RoundMilli(x) \in 0 .. FullTurn
  BY <1>3, DegreeType, MilliBounds
<1>4. FullTurn \in Int /\ FullTurn > 0 /\ HalfTurn \in Int
  BY DegreeType
<1>5. \A x \in Int : x % FullTurn \in 0 .. FullTurn - 1
  BY <1>4, DivisionBounds
<1>6. PICK x : /\ x \in Int /\ 0 <= x /\ x <= FullTurn
               /\ NormalizeDirection(d).alpha = RoundMilli(x)
  <2>1. d.alpha \in Int /\ d.alpha + HalfTurn \in Int
    BY <1>4
  <2>2. PICK over : over = (Fmod(d.beta, FullTurn) > HalfTurn)
    OBVIOUS
  <2>3. PICK x : x = (IF (IF over THEN Fmod(d.beta, FullTurn) - HalfTurn
                                   ELSE Fmod(d.beta, FullTurn)) \in {0, HalfTurn}
                      THEN 0
                      ELSE (IF over THEN d.alpha + HalfTurn ELSE d.alpha) % FullTurn)
    OBVIOUS
  <2>4. x = 0 \/ x = (d.alpha + HalfTurn) % FullTurn \/ x = d.alpha % FullTurn
    BY <2>3
  <2>5. x \in Int /\ 0 <= x /\ x <= FullTurn
    BY <1>4, <1>5, <2>1, <2>4
  <2>6. NormalizeDirection(d).alpha = RoundMilli(x)
    BY <2>2, <2>3 DEF NormalizeDirection
  <2>7. QED
    BY <2>5, <2>6
<1>7. QED
  BY <1>3, <1>6

\* The record answered is nearest per axis, whatever was asked.
LEMMA NearestRecord ==
  ASSUME NEW h \in Headers, NEW d \in [alpha : Int, beta : Int], ~Wraps(h),
         ~OnSeam(h, NormalizeDirection(d).alpha), NEW i \in Records(h)
  PROVE  LET at == RecordCoords(h, NearestNeighbour(h, d))
             other == RecordCoords(h, i)
             n == NormalizeDirection(d)
         IN  /\ Distance(at.beta, n.beta) <= Distance(other.beta, n.beta)
             /\ other.beta = at.beta
                  => AngleDistance(at.alpha, n.alpha) <= AngleDistance(other.alpha, n.alpha)
<1>1. PICK a \in 0 .. FullTurn, b \in Int :
        a = NormalizeDirection(d).alpha /\ b = NormalizeDirection(d).beta
  BY NormalizedAlpha, NormalizedType
<1>2. a \in Int
  BY <1>1, DegreeType
<1>3. PICK k \in 0 .. h.betaPoints - 1, j \in 0 .. h.alphaPoints - 1 :
        k = BetaIndex(h, b) /\ j = AlphaIndex(h, a)
  BY <1>1, <1>2, AlphaIndexBounds, BetaIndexBounds
<1>4. PICK at : at = RecordCoords(h, NearestNeighbour(h, d))
  OBVIOUS
<1>5. at = Point(h, k, Column(h, k, j))
  <2>1. NearestNeighbour(h, d) = RecordAt(h, k, j)
    BY <1>1, <1>3 DEF NearestNeighbour
  <2>2. QED
    BY <1>4, <2>1, CoordsOfRecord
<1>6. PICK l \in 0 .. h.betaPoints - 1, c \in 0 .. h.alphaPoints - 1 :
        RecordCoords(h, i) = Point(h, l, c) /\ c = Column(h, l, c)
  BY RecordIsPoint
<1>7. PICK other : other = RecordCoords(h, i)
  OBVIOUS
<1>8. at.beta = RingBeta(h, k) /\ other.beta = RingBeta(h, l)
  BY <1>5, <1>6, <1>7 DEF Point
<1>9. Distance(at.beta, b) <= Distance(other.beta, b)
  BY <1>1, <1>3, <1>6, <1>8, BetaNearest
<1>10. ASSUME other.beta = at.beta
       PROVE  AngleDistance(at.alpha, a) <= AngleDistance(other.alpha, a)
  <2>1. k = l
    <3>1. PICK n \in Int, r \in Int, s \in Int :
            /\ n = h.betaPoints /\ r = BetaResolution(h) /\ s = h.betaStart
            /\ n >= 1 /\ (n > 1 => r > 0)
      BY HeaderFields, SpansAndResolutions DEF AcceptedHeader
    <3>2. k \in Int /\ l \in Int /\ (n = 1 => k = l)
      BY <3>1
    <3>3. s + k * r = s + l * r
      BY <1>8, <1>10, <3>1 DEF RingBeta
    <3>4. CASE n > 1
      <4>1. r > 0
        BY <3>1, <3>4
      <4>2. r * k < r * (l + 1) /\ r * l < r * (k + 1)
        <5>1. PICK u \in Int, v \in Int : u = k * r /\ v = l * r
          BY <3>1, <3>2
        <5>2. u = v
          BY <3>1, <3>3, <5>1
        <5>3. r * k = u /\ r * (l + 1) = v + r /\ r * l = v /\ r * (k + 1) = u + r
          BY <3>1, <3>2, <5>1
        <5>4. QED
          BY <3>1, <4>1, <5>1, <5>2, <5>3
      <4>3. QED
        BY <3>1, <3>2, <4>1, <4>2, ProductCancel
    <3>5. QED
      BY <3>1, <3>2, <3>4
  <2>2. CASE k = h.betaPoints - 1 /\ NorthPole(h)
    <3>1. c = 0 /\ Column(h, k, j) = 0
      BY <1>6, <2>1, <2>2 DEF Column
    <3>2. at = other
      BY <1>5, <1>6, <1>7, <2>1, <3>1
    <3>3. AngleDistance(at.alpha, a) \in Int
      <4>1. at.alpha \in Int
        BY <1>5, <3>1, HeaderFields, SpansAndResolutions DEF Point
      <4>2. QED
        BY <1>2, <4>1, DegreeType, DivisionBounds DEF AngleDistance
    <3>4. QED
      BY <3>2, <3>3
  <2>3. CASE ~(k = h.betaPoints - 1 /\ NorthPole(h)) /\ k = 0 /\ SouthPole(h)
    <3>1. at.alpha = 0 /\ other.alpha = 0
      BY <1>5, <1>6, <1>7, <2>1, <2>3 DEF Point
    <3>2. AngleDistance(0, a) \in Int
      BY <1>2, DegreeType, DivisionBounds DEF AngleDistance
    <3>3. QED
      BY <3>1, <3>2
  <2>4. CASE ~(k = h.betaPoints - 1 /\ NorthPole(h)) /\ ~(k = 0 /\ SouthPole(h))
    <3>1. Column(h, k, j) = j
      BY <2>4 DEF Column
    <3>2. at.alpha = h.alphaStart + j * AlphaResolution(h)
          /\ other.alpha = h.alphaStart + c * AlphaResolution(h)
      BY <1>5, <1>6, <1>7, <2>1, <2>4, <3>1 DEF Point
    <3>3. QED
      BY <1>1, <1>3, <1>6, <3>2, AlphaNearest
  <2>5. QED
    BY <2>2, <2>3, <2>4
<1>11. QED
  BY <1>1, <1>4, <1>7, <1>9, <1>10

\* In and out of bounds, off the seam, no record on any ring is closer in beta
\* than the one getNearestNeighbour answers, and none on its ring in alpha.
THEOREM NearestIsAnswered == Spec => []NearestPerAxis
<1>1. IInv => NearestPerAxis
  <2>1. SUFFICES ASSUME IInv, quad = <<>>, ~Wraps(header),
                        ~OnSeam(header, Direction.alpha), NEW i \in Records(header)
                 PROVE  LET at == RecordCoords(header, record)
                            other == RecordCoords(header, i)
                        IN  /\ Distance(at.beta, Direction.beta)
                                 <= Distance(other.beta, Direction.beta)
                            /\ other.beta = at.beta
                                 => AngleDistance(at.alpha, Direction.alpha)
                                      <= AngleDistance(other.alpha, Direction.alpha)
    BY DEF NearestPerAxis
  <2>2. /\ header \in Headers /\ asked \in [alpha : Int, beta : Int]
        /\ record = NearestNeighbour(header, asked)
    BY <2>1 DEF IInv, TypeOK
  <2>3. QED
    BY <2>1, <2>2, NearestRecord DEF Direction
<1>2. QED
  BY <1>1, InitInv, NextInv, PTL DEF Spec

-----------------------------------------------------------------------------
(* What was written is found.                                                *)

\* Points lie farther apart than the 1/1000 degree to which directions are
\* rounded.
CoarseGrids ==
  \A h \in Headers :
    /\ h.alphaPoints > 1 => AlphaResolution(h) > Degree \div 1000
    /\ h.betaPoints > 1 => BetaResolution(h) > Degree \div 1000

\* Rings lie between the start and the end of the range, in their order.
LEMMA RingBounds ==
  ASSUME NEW h \in Headers, NEW k \in 0 .. h.betaPoints - 1
  PROVE  /\ RingBeta(h, k) \in Int
         /\ h.betaStart <= RingBeta(h, k) /\ RingBeta(h, k) <= h.betaEnd
         /\ RingBeta(h, 0) = h.betaStart /\ RingBeta(h, h.betaPoints - 1) = h.betaEnd
         /\ k # 0 => RingBeta(h, k) >= h.betaStart + BetaResolution(h)
         /\ k # h.betaPoints - 1 => RingBeta(h, k) <= h.betaEnd - BetaResolution(h)
<1>1. PICK n \in Int, r \in Int, s \in Int, e \in Int :
        /\ n = h.betaPoints /\ r = BetaResolution(h) /\ s = h.betaStart /\ e = h.betaEnd
        /\ n >= 1 /\ r >= 0 /\ s <= e /\ (n = 1 => s = e)
  BY HeaderFields, SpansAndResolutions DEF AcceptedHeader, ExactGrid
<1>2. PICK w \in Int : w = (n - 1) * r
  BY <1>1
<1>3. w = e - s
  <2>1. CASE n = 1
    <3>1. (n - 1) * r = 0
      BY <1>1, <2>1
    <3>2. QED
      BY <1>1, <1>2, <2>1, <3>1
  <2>2. CASE n > 1
    BY <1>1, <1>2, <2>2, SpansAndResolutions
  <2>3. QED
    BY <1>1, <2>1, <2>2
<1>4. k \in Int /\ 0 <= k /\ k <= n - 1
  BY <1>1
<1>5. PICK v \in Int : v = k * r
  BY <1>1, <1>4
<1>6. 0 <= v
  <2>1. 0 * r <= k * r
    BY <1>1, <1>4, ProductMonotone
  <2>2. QED
    BY <1>1, <1>5, <2>1
<1>7. v <= w
  <2>1. k * r <= (n - 1) * r
    BY <1>1, <1>4, ProductMonotone
  <2>2. QED
    BY <1>2, <1>5, <2>1
<1>8. k # 0 => v >= r
  <2>1. ASSUME k # 0 PROVE 1 * r <= k * r
    BY <1>1, <1>4, <2>1, ProductMonotone
  <2>2. QED
    BY <1>1, <1>5, <2>1
<1>9. k # n - 1 => v <= w - r
  <2>1. ASSUME k # n - 1 PROVE (k + 1) * r <= (n - 1) * r
    BY <1>1, <1>4, <2>1, ProductMonotone
  <2>2. (k + 1) * r = k * r + r
    BY <1>1, <1>4
  <2>3. QED
    BY <1>1, <1>2, <1>5, <2>1, <2>2
<1>10. /\ RingBeta(h, k) = s + v /\ RingBeta(h, 0) = s + 0 * r
       /\ RingBeta(h, h.betaPoints - 1) = s + w
  BY <1>1, <1>2, <1>5 DEF RingBeta
<1>11. 0 * r = 0
  BY <1>1
<1>12. RingBeta(h, 0) = h.betaStart /\ RingBeta(h, h.betaPoints - 1) = h.betaEnd
  BY <1>1, <1>3, <1>10, <1>11
<1>13. RingBeta(h, k) \in Int /\ s <= RingBeta(h, k) /\ RingBeta(h, k) <= e
  BY <1>1, <1>3, <1>5, <1>6, <1>7, <1>10
<1>14. /\ k # 0 => RingBeta(h, k) >= s + r
       /\ k # h.betaPoints - 1 => RingBeta(h, k) <= e - r
  <2>1. h.betaPoints - 1 = n - 1
    BY <1>1
  <2>2. /\ k # 0 => v >= r
        /\ k # h.betaPoints - 1 => v <= w - r
    BY <1>8, <1>9, <2>1
  <2>3. RingBeta(h, k) = s + v
    BY <1>10
  <2>4. (v >= r => s + v >= s + r) /\ (v <= w - r => s + v <= e - r)
    BY <1>1, <1>2, <1>3, <1>5
  <2>5. QED
    BY <2>2, <2>3, <2>4
<1>15. QED
  BY <1>1, <1>12, <1>13, <1>14

\* A ring is found at its beta angle, rounded.
LEMMA RingIsFound ==
  ASSUME CoarseGrids, NEW h \in Headers, NEW k \in 0 .. h.betaPoints - 1
  PROVE  BetaIndex(h, RoundMilli(RingBeta(h, k))) = k
<1>1. PICK n \in Int, r \in Int, s \in Nat, e \in Int, m \in Int :
        /\ n = h.betaPoints /\ r = BetaResolution(h) /\ s = h.betaStart /\ e = h.betaEnd
        /\ m = Degree \div 1000
        /\ n >= 1 /\ m > 0 /\ (n > 1 => r > m) /\ s <= e
  BY HeaderFields, SpansAndResolutions, DegreeType DEF AcceptedHeader, CoarseGrids
<1>2. PICK x \in Nat : x = RingBeta(h, k)
  BY <1>1, RingBounds
<1>3. /\ s <= x /\ x <= e /\ (k # 0 => x >= s + r) /\ (k # n - 1 => x <= e - r)
  BY <1>1, <1>2, RingBounds
<1>4. PICK y \in Nat : y = RoundMilli(x) /\ 2 * y <= 2 * x + m /\ 2 * x < 2 * y + m
  <2>1. /\ RoundMilli(x) \in Nat
        /\ 2 * RoundMilli(x) <= 2 * x + Degree \div 1000
        /\ 2 * x < 2 * RoundMilli(x) + Degree \div 1000
    BY MilliBounds
  <2>2. QED
    BY <1>1, <2>1
<1>5. CASE n = 1
  BY <1>1, <1>5 DEF BetaIndex
<1>6. CASE n > 1 /\ BetaWithin(h, y)
  <2>1. PICK z \in Nat : z = y - s
    BY <1>1, <1>4, <1>6 DEF BetaWithin
  <2>2. PICK v \in Int : v = k * r /\ x = s + v
    BY <1>1, <1>2 DEF RingBeta
  <2>3. 2 * v <= 2 * z + r /\ 2 * z < 2 * v + r
    BY <1>1, <1>2, <1>4, <1>6, <2>1, <2>2
  <2>4. RoundQuotient(z, r) = k
    BY <1>1, <1>6, <2>1, <2>2, <2>3, RoundIs
  <2>5. QED
    BY <1>1, <1>2, <1>4, <1>6, <2>1, <2>4 DEF BetaIndex
<1>7. CASE n > 1 /\ ~BetaWithin(h, y)
  <2>1. y < s \/ y > e
    BY <1>1, <1>4, <1>7 DEF BetaWithin
  <2>2. BetaIndex(h, y) = IF Distance(s, y) <= Distance(e, y) THEN 0 ELSE n - 1
    BY <1>1, <1>7 DEF BetaIndex
  <2>3. s < e
    BY <1>1, <1>3, <1>7
  <2>4. y < s => k = 0 /\ Distance(s, y) <= Distance(e, y)
    BY <1>1, <1>2, <1>3, <1>4, <1>7, <2>3 DEF Distance
  <2>5. y > e => k = n - 1 /\ ~(Distance(s, y) <= Distance(e, y))
    BY <1>1, <1>2, <1>3, <1>4, <1>7, <2>3 DEF Distance
  <2>6. QED
    BY <1>2, <1>4, <2>1, <2>2, <2>4, <2>5
<1>8. QED
  BY <1>1, <1>5, <1>6, <1>7

FullCircle(h) == h.alphaStart = 0 /\ h.alphaEnd = FullTurn

\* On the full circle the columns share it evenly.
LEMMA CircleIsShared ==
  ASSUME NEW h \in Headers, FullCircle(h), h.alphaPoints > 1
  PROVE  /\ AlphaSpan(h) = FullTurn /\ AlphaSteps(h) = h.alphaPoints
         /\ FullTurn = h.alphaPoints * AlphaResolution(h)
         /\ AlphaResolution(h) = FullTurn \div h.alphaPoints
<1>1. AlphaSpan(h) = FullTurn
  BY HeaderFields, DegreeType DEF FullCircle, AlphaSpan
<1>2. AlphaSteps(h) = h.alphaPoints
  BY <1>1 DEF AlphaSteps
<1>3. AlphaSpan(h) = AlphaSteps(h) * AlphaResolution(h)
  BY SpansAndResolutions
<1>4. AlphaResolution(h) = AlphaSpan(h) \div AlphaSteps(h)
  BY DEF AlphaResolution
<1>5. QED
  BY <1>1, <1>2, <1>3, <1>4

\* A column stays within the circle, a resolution before its end.
LEMMA ColumnBounds ==
  ASSUME NEW h \in Headers, FullCircle(h), h.alphaPoints > 1,
         NEW c \in 0 .. h.alphaPoints - 1
  PROVE  /\ c * AlphaResolution(h) \in Nat
         /\ c * AlphaResolution(h) <= FullTurn - AlphaResolution(h)
<1>1. PICK p \in Int, r \in Int : p = h.alphaPoints /\ r = AlphaResolution(h) /\ r > 0
  BY HeaderFields, SpansAndResolutions
<1>2. 0 * r <= c * r /\ (c + 1) * r <= p * r
  BY <1>1, ProductMonotone
<1>3. (c + 1) * r = c * r + r /\ c * r \in Int /\ 0 * r = 0
  BY <1>1
<1>4. FullTurn = p * r
  BY <1>1, CircleIsShared
<1>5. p * r \in Int
  BY <1>1
<1>6. QED
  BY <1>1, <1>2, <1>3, <1>4, <1>5

\* A column is found at its alpha angle, rounded.
LEMMA ColumnIsFound ==
  ASSUME CoarseGrids, NEW h \in Headers, FullCircle(h), h.alphaPoints > 1,
         NEW c \in 0 .. h.alphaPoints - 1
  PROVE  AlphaIndex(h, RoundMilli(c * AlphaResolution(h))) = c
<1>1. PICK r \in Int, m \in Int : r = AlphaResolution(h) /\ m = Degree \div 1000 /\ r > m /\ m > 0
  BY SpansAndResolutions, DegreeType DEF CoarseGrids
<1>2. PICK x \in Nat : x = c * r /\ x <= FullTurn
  BY <1>1, ColumnBounds, DegreeType
<1>3. PICK y \in Nat : y = RoundMilli(x) /\ 2 * y <= 2 * x + m /\ 2 * x < 2 * y + m
                       /\ y <= FullTurn
  BY <1>1, <1>2, MilliBounds
<1>4. AlphaWithin(h, y)
  BY <1>3 DEF AlphaWithin, FullCircle
<1>5. y - h.alphaStart = y
  BY <1>3 DEF FullCircle
<1>6. RoundQuotient(y, r) = c
  <2>1. 2 * x <= 2 * y + r /\ 2 * y < 2 * x + r
    BY <1>1, <1>2, <1>3
  <2>2. QED
    BY <1>1, <1>2, <1>3, <2>1, RoundIs
<1>7. QED
  BY <1>1, <1>2, <1>3, <1>4, <1>5, <1>6 DEF AlphaIndex

\* An angle beta on the sphere is only rounded.
LEMMA NormalizedOnSphere ==
  ASSUME NEW x \in Int, NEW b \in 0 .. HalfTurn
  PROVE  NormalizeDirection([alpha |-> x, beta |-> b])
           = [alpha |-> RoundMilli(IF b \in {0, HalfTurn} THEN 0 ELSE x % FullTurn),
              beta |-> RoundMilli(b)]
<1>1. PICK f \in Int, t \in Int : f = FullTurn /\ t = HalfTurn /\ f = 2 * t /\ t > 0
  BY DegreeType
<1>2. b \in Int /\ 0 <= b /\ b <= t
  BY <1>1
<1>3. b % f = b
  <2>1. (0 * f + b) % f = b
    BY <1>1, <1>2, Quotient
  <2>2. QED
    BY <1>1, <1>2, <2>1
<1>4. Fmod(b, FullTurn) = b
  BY <1>1, <1>2, <1>3 DEF Fmod
<1>5. ~(b > HalfTurn)
  BY <1>1, <1>2
<1>6. PICK d : d = [alpha |-> x, beta |-> b]
  OBVIOUS
<1>7. d.alpha = x /\ d.beta = b
  BY <1>6
<1>8. NormalizeDirection(d)
           = [alpha |-> RoundMilli(IF b \in {0, HalfTurn} THEN 0 ELSE x % FullTurn),
              beta |-> RoundMilli(b)]
  BY <1>4, <1>5, <1>7, Zenon DEF NormalizeDirection
<1>9. QED
  BY <1>6, <1>8

\* Only the first and the last ring can be a pole.
LEMMA PolesAreEnds ==
  ASSUME NEW h \in Headers, NEW k \in 0 .. h.betaPoints - 1, RingBeta(h, k) \in {0, HalfTurn}
  PROVE  (k = 0 /\ SouthPole(h)) \/ (k = h.betaPoints - 1 /\ NorthPole(h))
<1>1. PICK r \in Int : /\ r = BetaResolution(h) /\ r >= 0
                       /\ h.betaPoints > 1 => r > 0
  BY SpansAndResolutions
<1>2. /\ h.betaStart \in Int /\ h.betaStart >= 0 /\ h.betaEnd \in Int /\ h.betaEnd <= HalfTurn
      /\ h.betaPoints \in Int /\ h.betaPoints >= 1
  BY HeaderFields DEF AcceptedHeader
<1>3. PICK b \in Int : b = RingBeta(h, k)
  BY RingBounds
<1>4. /\ h.betaStart <= b /\ b <= h.betaEnd
      /\ k # 0 => b >= h.betaStart + r
      /\ k # h.betaPoints - 1 => b <= h.betaEnd - r
  BY <1>1, <1>3, RingBounds
<1>5. (k # 0 => h.betaPoints > 1) /\ (k # h.betaPoints - 1 => h.betaPoints > 1)
  BY <1>2
<1>6. HalfTurn \in Int /\ HalfTurn > 0 /\ b \in {0, HalfTurn}
  BY <1>3, DegreeType
<1>7. QED
  BY <1>1, <1>2, <1>4, <1>5, <1>6 DEF SouthPole, NorthPole

\* The point of column c on ring k is found, also by another name of its angle.
LEMMA PointIsFound ==
  ASSUME CoarseGrids, NEW h \in Headers, FullCircle(h),
         NEW k \in 0 .. h.betaPoints - 1, NEW c \in 0 .. h.alphaPoints - 1, NEW x \in Int,
         h.alphaPoints > 1 => x % FullTurn = c * AlphaResolution(h)
  PROVE  NearestNeighbour(h, [alpha |-> x, beta |-> RingBeta(h, k)]) = RecordAt(h, k, c)
<1>1. PICK b \in 0 .. HalfTurn : b = RingBeta(h, k)
  BY HeaderFields, RingBounds, DegreeType DEF AcceptedHeader
<1>2. PICK d : d = [alpha |-> x, beta |-> b]
  OBVIOUS
<1>3. PICK n : n = NormalizeDirection(d)
  OBVIOUS
<1>4. /\ n.alpha = RoundMilli(IF b \in {0, HalfTurn} THEN 0 ELSE x % FullTurn)
      /\ n.beta = RoundMilli(b)
  <2>1. NormalizeDirection([alpha |-> x, beta |-> b])
           = [alpha |-> RoundMilli(IF b \in {0, HalfTurn} THEN 0 ELSE x % FullTurn),
              beta |-> RoundMilli(b)]
    BY NormalizedOnSphere
  <2>2. QED
    BY <1>2, <1>3, <2>1
<1>5. BetaIndex(h, n.beta) = k
  BY <1>1, <1>4, RingIsFound
<1>6. CASE b \in {0, HalfTurn}
  <2>1. (k = 0 /\ SouthPole(h)) \/ (k = h.betaPoints - 1 /\ NorthPole(h))
    BY <1>1, <1>6, PolesAreEnds
  <2>2. RecordAt(h, k, AlphaIndex(h, n.alpha)) = RecordAt(h, k, c)
    BY <2>1 DEF RecordAt
  <2>3. QED
    BY <1>1, <1>2, <1>3, <1>5, <2>2 DEF NearestNeighbour
<1>7. CASE b \notin {0, HalfTurn}
  <2>1. AlphaIndex(h, n.alpha) = c
    <3>1. CASE h.alphaPoints = 1
      BY <3>1 DEF AlphaIndex
    <3>2. CASE h.alphaPoints > 1
      <4>1. n.alpha = RoundMilli(c * AlphaResolution(h))
        BY <1>4, <1>7, <3>2
      <4>2. QED
        BY <3>2, <4>1, ColumnIsFound
    <3>3. QED
      BY <3>1, <3>2, HeaderFields DEF AcceptedHeader
  <2>2. QED
    BY <1>1, <1>2, <1>3, <1>5, <2>1 DEF NearestNeighbour
<1>8. QED
  BY <1>6, <1>7

\* The first records of rings are counted as RecordAt counts them.
LEMMA RecordAtIsWritten ==
  ASSUME NEW h \in Headers, NEW k \in 0 .. h.betaPoints - 1,
         NEW a \in 0 .. RingSize(h, k) - 1
  PROVE  RecordAt(h, k, a) = RingFirst(h, k) + a
<1>1. PICK n \in Int, p \in Int :
        n = h.betaPoints /\ p = h.alphaPoints /\ n >= 1 /\ p >= 1
  BY HeaderFields DEF AcceptedHeader
<1>2. PICK first : first = RingSize(h, 0)
  OBVIOUS
<1>3. /\ SouthPole(h) => first = 1
      /\ ~SouthPole(h) /\ (n > 1 \/ ~NorthPole(h)) => first = p
      /\ k = n - 1 /\ NorthPole(h) => RingSize(h, k) = 1
  BY <1>1, <1>2, EndRings
<1>4. k \in Int /\ 0 <= k /\ k <= n - 1
  BY <1>1
<1>5. RingSize(h, k) \in Int
  BY <1>1 DEF RingSize
<1>6. a \in Int /\ 0 <= a /\ a <= RingSize(h, k) - 1
  BY <1>5
<1>7. (IF k = n - 1 /\ NorthPole(h) THEN 0 ELSE a) = a
  BY <1>3, <1>5, <1>6
<1>8. RecordAt(h, k, a) = IF SouthPole(h)
                            THEN IF k = 0 THEN 0 ELSE 1 + (k - 1) * p + a
                            ELSE k * p + a
  BY <1>1, <1>7 DEF RecordAt
<1>9. RingFirst(h, k) = IF k = 0 THEN 0 ELSE first + (k - 1) * p
  BY <1>1, <1>2 DEF RingFirst
<1>10. CASE k = 0
  <2>1. SouthPole(h) => a = 0
    BY <1>2, <1>3, <1>6, <1>10
  <2>2. 0 * p + a = a /\ 0 + a = a
    BY <1>1, <1>6
  <2>3. QED
    BY <1>8, <1>9, <1>10, <2>1, <2>2
<1>11. CASE k # 0
  <2>1. n > 1
    BY <1>1, <1>4, <1>11
  <2>2. (k - 1) * p \in Int /\ k * p = p + (k - 1) * p
    BY <1>1, <1>4
  <2>3. first = IF SouthPole(h) THEN 1 ELSE p
    BY <1>3, <2>1
  <2>4. QED
    BY <1>1, <1>6, <1>8, <1>9, <1>11, <2>2, <2>3
<1>12. QED
  BY <1>10, <1>11

LEMMA WrittenIsFound ==
  ASSUME CoarseGrids, NEW h \in Headers, h.alphaEnd - h.alphaStart = FullTurn,
         NEW k \in 0 .. h.betaPoints - 1, NEW a \in 0 .. RingSize(h, k) - 1
  PROVE  NearestNeighbour(h, WrittenDirection(h, k, a)) = RingFirst(h, k) + a
<1>1. PICK p \in Int : p = h.alphaPoints /\ p >= 1
  BY HeaderFields DEF AcceptedHeader
<1>2. FullCircle(h)
  BY HeaderFields, DegreeType DEF AcceptedHeader, FullCircle
<1>3. a \in 0 .. p - 1
  <2>1. RingSize(h, k) = 1 \/ RingSize(h, k) = p
    BY <1>1 DEF RingSize
  <2>2. QED
    BY <1>1, <2>1
<1>4. PICK x \in Int : x = a * (FullTurn \div p)
  BY <1>1, <1>3, DegreeType, DivisionBounds
<1>5. WrittenDirection(h, k, a) = [alpha |-> x, beta |-> RingBeta(h, k)]
  <2>1. h.alphaStart + a * ((h.alphaEnd - h.alphaStart) \div h.alphaPoints) = x
    BY <1>1, <1>2, <1>4 DEF FullCircle
  <2>2. QED
    BY <2>1 DEF WrittenDirection
<1>6. p > 1 => x % FullTurn = a * AlphaResolution(h)
  <2>1. ASSUME p > 1 PROVE x % FullTurn = a * AlphaResolution(h)
    <3>1. PICK r \in Int, f \in Int : r = AlphaResolution(h) /\ f = FullTurn /\ r > 0 /\ f > 0
      BY <1>1, <2>1, SpansAndResolutions, DegreeType
    <3>2. x = a * r
      BY <1>1, <1>2, <1>4, <2>1, <3>1, CircleIsShared
    <3>3. x \in 0 .. f - 1
      <4>1. a * AlphaResolution(h) \in Nat /\ a * AlphaResolution(h) <= FullTurn - AlphaResolution(h)
        BY <1>1, <1>2, <1>3, <2>1, ColumnBounds
      <4>2. x >= 0 /\ x <= f - r
        BY <3>1, <3>2, <4>1
      <4>3. QED
        BY <3>1, <4>2
    <3>4. (0 * f + x) % f = x
      BY <3>1, <3>3, Quotient
    <3>5. 0 * f + x = x
      BY <3>1
    <3>6. QED
      BY <3>1, <3>2, <3>4, <3>5
  <2>2. QED
    BY <2>1
<1>7. NearestNeighbour(h, [alpha |-> x, beta |-> RingBeta(h, k)]) = RecordAt(h, k, a)
  BY <1>1, <1>2, <1>3, <1>4, <1>6, PointIsFound
<1>8. QED
  BY <1>5, <1>7, RecordAtIsWritten

\* On the full circle the reader finds each record that daffv17_write stored at
\* the index at which it was stored, if points are farther apart than the
\* precision of directions.
THEOREM WrittenIsReadBack == ASSUME CoarseGrids PROVE Spec => []WrittenRecordIsFound
<1>1. IInv => WrittenRecordIsFound
  <2>1. SUFFICES ASSUME IInv, NEW k \in 0 .. header.betaPoints - 1,
                        NEW a \in 0 .. RingSize(header, k) - 1,
                        header.alphaEnd - header.alphaStart = FullTurn, quad = <<>>,
                        asked = WrittenDirection(header, k, a)
                 PROVE  record = RingFirst(header, k) + a
    BY DEF WrittenRecordIsFound
  <2>2. header \in Headers /\ record = NearestNeighbour(header, asked)
    BY <2>1 DEF IInv, TypeOK
  <2>3. QED
    BY <2>1, <2>2, WrittenIsFound
<1>2. QED
  BY <1>1, InitInv, NextInv, PTL DEF Spec

-----------------------------------------------------------------------------
(* Points along a ring, as a carpet is cut.                                  *)

\* A point asked for between the poles is the one of its column on the ring that
\* its beta angle belongs to.
LEMMA ColumnIsAnswered ==
  ASSUME CoarseGrids, NEW h \in Headers, FullCircle(h),
         NEW b \in 0 .. HalfTurn, b \notin {0, HalfTurn},
         NEW c \in 0 .. h.alphaPoints - 1, NEW x \in Int,
         h.alphaPoints > 1 => x % FullTurn = c * AlphaResolution(h)
  PROVE  NearestNeighbour(h, [alpha |-> x, beta |-> b])
           = RecordAt(h, BetaIndex(h, RoundMilli(b)), c)
<1>1. PICK d, n : d = [alpha |-> x, beta |-> b] /\ n = NormalizeDirection(d)
  OBVIOUS
<1>2. n.alpha = RoundMilli(x % FullTurn) /\ n.beta = RoundMilli(b)
  <2>1. NormalizeDirection([alpha |-> x, beta |-> b])
           = [alpha |-> RoundMilli(IF b \in {0, HalfTurn} THEN 0 ELSE x % FullTurn),
              beta |-> RoundMilli(b)]
    BY NormalizedOnSphere
  <2>2. QED
    BY <1>1, <2>1
<1>3. AlphaIndex(h, n.alpha) = c
  <2>1. CASE h.alphaPoints = 1
    BY <2>1 DEF AlphaIndex
  <2>2. CASE h.alphaPoints > 1
    <3>1. n.alpha = RoundMilli(c * AlphaResolution(h))
      BY <1>2, <2>2
    <3>2. QED
      BY <2>2, <3>1, ColumnIsFound
  <2>3. QED
    BY <2>1, <2>2, HeaderFields DEF AcceptedHeader
<1>4. NearestNeighbour(h, d) = RecordAt(h, BetaIndex(h, n.beta), AlphaIndex(h, n.alpha))
  BY <1>1 DEF NearestNeighbour
<1>5. QED
  BY <1>1, <1>2, <1>3, <1>4

\* The columns of a ring are its records.
RecordsOfRing(h, k) == {RingFirst(h, k) + j : j \in 0 .. RingSize(h, k) - 1}

LEMMA ColumnsAreRecords ==
  ASSUME NEW h \in Headers, NEW k \in 0 .. h.betaPoints - 1
  PROVE  /\ \A c \in 0 .. h.alphaPoints - 1 : RecordAt(h, k, c) \in RecordsOfRing(h, k)
         /\ \A r \in RecordsOfRing(h, k) :
              \E c \in 0 .. h.alphaPoints - 1 : RecordAt(h, k, c) = r
<1>1. PICK p \in Int : p = h.alphaPoints /\ p >= 1
  BY HeaderFields DEF AcceptedHeader
<1>2. RingSize(h, k) = 1 \/ RingSize(h, k) = p
  BY <1>1 DEF RingSize
<1>3. 0 .. RingSize(h, k) - 1 \subseteq 0 .. p - 1 /\ 0 \in 0 .. RingSize(h, k) - 1
  BY <1>1, <1>2
<1>4. \A a \in 0 .. RingSize(h, k) - 1 :
        RecordAt(h, k, a) = RingFirst(h, k) + a /\ RecordAt(h, k, a) \in RecordsOfRing(h, k)
  BY RecordAtIsWritten DEF RecordsOfRing
<1>5. ASSUME NEW c \in 0 .. p - 1
      PROVE  RecordAt(h, k, c) \in RecordsOfRing(h, k)
  <2>1. CASE RingBeta(h, k) \in {0, HalfTurn}
    <3>1. RecordAt(h, k, c) = RecordAt(h, k, 0)
      BY <2>1, PolesAreEnds DEF RecordAt
    <3>2. QED
      BY <1>3, <1>4, <3>1
  <2>2. CASE RingBeta(h, k) \notin {0, HalfTurn}
    <3>1. RingSize(h, k) = p
      BY <1>1, <2>2 DEF RingSize
    <3>2. QED
      BY <1>4, <3>1
  <2>3. QED
    BY <2>1, <2>2
<1>6. ASSUME NEW r \in RecordsOfRing(h, k)
      PROVE  \E c \in 0 .. p - 1 : RecordAt(h, k, c) = r
  <2>1. PICK j \in 0 .. RingSize(h, k) - 1 : r = RingFirst(h, k) + j
    BY DEF RecordsOfRing
  <2>2. QED
    BY <1>3, <1>4, <2>1
<1>7. QED
  BY <1>1, <1>5, <1>6

\* Around the full circle, the first column again at its end, these are the records
\* of one ring.
CutAngle(h, i) == h.alphaStart + (i * (h.alphaEnd - h.alphaStart)) \div h.alphaPoints

LEMMA CutIsColumn ==
  ASSUME NEW h \in Headers, FullCircle(h), NEW i \in 0 .. h.alphaPoints
  PROVE  /\ CutAngle(h, i) \in Int
         /\ h.alphaPoints > 1 =>
              CutAngle(h, i) % FullTurn
                = (IF i = h.alphaPoints THEN 0 ELSE i) * AlphaResolution(h)
<1>1. PICK p \in Int, f \in Int : p = h.alphaPoints /\ f = FullTurn /\ p >= 1 /\ f > 0
  BY HeaderFields, DegreeType DEF AcceptedHeader
<1>2. i \in Int /\ 0 <= i /\ i <= p
  BY <1>1
<1>3. PICK y \in Int : y = i * f
  BY <1>1, <1>2
<1>4. CutAngle(h, i) = 0 + y \div p /\ y \div p \in Int
  <2>1. h.alphaStart = 0 /\ h.alphaEnd - h.alphaStart = f
    BY <1>1 DEF FullCircle
  <2>2. y \div p \in Int
    BY <1>1, <1>3, DivisionBounds
  <2>3. QED
    BY <1>1, <1>3, <2>1, <2>2 DEF CutAngle
<1>5. CutAngle(h, i) = y \div p
  BY <1>4
<1>6. ASSUME p > 1
      PROVE  CutAngle(h, i) % FullTurn
               = (IF i = h.alphaPoints THEN 0 ELSE i) * AlphaResolution(h)
  <2>1. PICK r \in Int : r = AlphaResolution(h) /\ f = p * r /\ r > 0
    BY <1>1, <1>6, CircleIsShared, SpansAndResolutions
  <2>2. PICK z \in Int : z = i * r
    BY <1>2, <2>1
  <2>3. y = z * p
    BY <1>1, <1>2, <1>3, <2>1, <2>2
  <2>4. (z * p + 0) \div p = z
    BY <1>1, <1>6, Quotient
  <2>5. CutAngle(h, i) = z
    <3>1. z * p + 0 = y
      BY <1>3, <2>3
    <3>2. QED
      BY <1>5, <2>4, <3>1
  <2>6. CASE i = p
    <3>1. z = 1 * f + 0
      BY <1>1, <2>1, <2>2, <2>6
    <3>2. (1 * f + 0) % f = 0
      BY <1>1, Quotient
    <3>3. 0 * r = 0
      BY <2>1
    <3>4. QED
      BY <1>1, <2>1, <2>5, <2>6, <3>1, <3>2, <3>3
  <2>7. CASE i # p
    <3>1. i \in 0 .. p - 1
      BY <1>2, <2>7
    <3>2. z >= 0 /\ z <= f - r
      BY <1>1, <1>6, <2>1, <2>2, <3>1, ColumnBounds
    <3>3. z \in 0 .. f - 1 /\ 0 * f + z = z
      BY <1>1, <2>1, <2>2, <3>2
    <3>4. (0 * f + z) % f = z
      BY <1>1, <3>3, Quotient
    <3>5. QED
      BY <1>1, <2>1, <2>2, <2>5, <2>7, <3>3, <3>4
  <2>8. QED
    BY <2>6, <2>7
<1>7. QED
  BY <1>1, <1>4, <1>5, <1>6

LEMMA CutIsARing ==
  ASSUME CoarseGrids, NEW h \in Headers, FullCircle(h),
         NEW b \in 0 .. HalfTurn, b \notin {0, HalfTurn}
  PROVE  \E k \in 0 .. h.betaPoints - 1 :
           {NearestNeighbour(h, [alpha |-> CutAngle(h, i), beta |-> b]) : i \in 0 .. h.alphaPoints}
             = RecordsOfRing(h, k)
<1>1. PICK p \in Int : p = h.alphaPoints /\ p >= 1
  BY HeaderFields DEF AcceptedHeader
<1>2. PICK k \in 0 .. h.betaPoints - 1 : k = BetaIndex(h, RoundMilli(b))
  <2>1. b \in Nat
    BY DegreeType
  <2>2. RoundMilli(b) \in Int
    BY <2>1, MilliBounds
  <2>3. QED
    BY <2>2, BetaIndexBounds
<1> DEFINE At(i) == NearestNeighbour(h, [alpha |-> CutAngle(h, i), beta |-> b])
           Index(i) == IF i = p THEN 0 ELSE i
<1>3. ASSUME NEW i \in 0 .. p
      PROVE  Index(i) \in 0 .. p - 1 /\ At(i) = RecordAt(h, k, Index(i))
  <2>1. PICK c \in 0 .. p - 1 : c = Index(i)
    BY <1>1
  <2>2. CutAngle(h, i) \in Int
    BY <1>1, CutIsColumn
  <2>3. h.alphaPoints > 1 => CutAngle(h, i) % FullTurn = c * AlphaResolution(h)
    BY <1>1, <2>1, CutIsColumn
  <2>4. At(i) = RecordAt(h, k, c)
    BY <1>1, <1>2, <2>2, <2>3, ColumnIsAnswered
  <2>5. QED
    BY <2>1, <2>4
<1>4. \A i \in 0 .. p - 1 : Index(i) = i /\ i \in 0 .. p
  BY <1>1
<1> HIDE DEF At, Index
<1>5. {At(i) : i \in 0 .. p} = RecordsOfRing(h, k)
  <2>1. ASSUME NEW i \in 0 .. p PROVE At(i) \in RecordsOfRing(h, k)
    BY <1>1, <1>3, ColumnsAreRecords
  <2>2. ASSUME NEW r \in RecordsOfRing(h, k) PROVE \E i \in 0 .. p : At(i) = r
    <3>1. PICK c \in 0 .. p - 1 : RecordAt(h, k, c) = r
      BY <1>1, ColumnsAreRecords
    <3>2. At(c) = r
      BY <1>3, <1>4, <3>1
    <3>3. QED
      BY <1>4, <3>2
  <2>3. QED
    BY <2>1, <2>2
<1>6. QED
  BY <1>1, <1>5 DEF At

-----------------------------------------------------------------------------
(* Cells of a full sphere.                                                   *)

\* No direction is normalized to an angle above the south pole's opposite.
LEMMA NormalizedBeta ==
  ASSUME NEW d \in [alpha : Int, beta : Int]
  PROVE  NormalizeDirection(d).beta \in Int /\ NormalizeDirection(d).beta <= HalfTurn
<1>1. PICK f \in Int, t \in Int : f = FullTurn /\ t = HalfTurn /\ f = 2 * t /\ t > 0
  BY DegreeType
<1>2. PICK b0 : b0 = Fmod(d.beta, FullTurn)
  OBVIOUS
<1>3. b0 \in Int /\ b0 < f
  <2>1. \A x \in Int : x % f \in 0 .. f - 1
    BY <1>1, DivisionBounds
  <2>2. d.beta \in Int /\ -d.beta \in Int
    OBVIOUS
  <2>3. d.beta % f \in 0 .. f - 1 /\ (-d.beta) % f \in 0 .. f - 1
    BY <2>1, <2>2
  <2>4. b0 = (IF d.beta >= 0 THEN d.beta % f ELSE -((-d.beta) % f))
    BY <1>1, <1>2 DEF Fmod
  <2>5. QED
    BY <1>1, <2>3, <2>4
<1>4. PICK b : b = IF b0 > HalfTurn THEN b0 - HalfTurn ELSE b0
  OBVIOUS
<1>5. b \in Int /\ b <= t
  BY <1>1, <1>3, <1>4
<1>6. NormalizeDirection(d).beta = RoundMilli(b)
  BY <1>2, <1>4 DEF NormalizeDirection
<1>7. CASE b >= 0
  BY <1>1, <1>5, <1>6, <1>7, MilliBounds
<1>8. CASE b < 0
  <2>1. PICK m \in Int : m = Degree \div 1000 /\ m > 0
    BY DegreeType
  <2>2. PICK x \in Nat : x = -b
    BY <1>5, <1>8
  <2>3. PICK q \in Nat : q = RoundQuotient(x, m)
    BY <2>1, <2>2, RoundError
  <2>4. RoundQuotient(b, m) = -q
    BY <1>5, <1>8, <2>2, <2>3 DEF RoundQuotient
  <2>5. RoundMilli(b) = (-q) * m
    BY <2>1, <2>4 DEF RoundMilli
  <2>6. (-q) * m <= 0 * m /\ 0 * m = 0 /\ (-q) * m \in Int
    BY <2>1, <2>3, ProductMonotone
  <2>7. QED
    BY <1>1, <1>6, <2>5, <2>6
<1>9. QED
  BY <1>5, <1>7, <1>8

\* Rounding leaves alone what has been rounded.
LEMMA MilliTwice ==
  ASSUME NEW x \in Nat
  PROVE  RoundMilli(RoundMilli(x)) = RoundMilli(x)
<1>1. PICK m \in Int : m = Degree \div 1000 /\ m > 0
  BY DegreeType
<1>2. PICK q \in Nat : q = RoundQuotient(x, m)
  BY <1>1, RoundError
<1>3. PICK y \in Nat : y = q * m /\ y = RoundMilli(x)
  BY <1>1, <1>2 DEF RoundMilli
<1>4. RoundQuotient(y, m) = q
  <2>1. 2 * (q * m) <= 2 * y + m /\ 2 * y < 2 * (q * m) + m
    BY <1>1, <1>3
  <2>2. QED
    BY <1>1, <1>2, <1>3, <2>1, RoundIs
<1>5. QED
  BY <1>1, <1>3, <1>4 DEF RoundMilli

\* The point of a full sphere is found after its direction was normalized.
LEMMA CornerIsFound ==
  ASSUME CoarseGrids, NEW h \in Headers, coversFullSphere(h),
         NEW k \in 0 .. h.betaPoints - 1, NEW c \in 0 .. h.alphaPoints - 1, NEW x \in Int,
         h.alphaPoints > 1 => x % FullTurn = c * AlphaResolution(h)
  PROVE  NearestNeighbour(h, NormalizeDirection([alpha |-> x, beta |-> RingBeta(h, k)]))
           = RecordAt(h, k, c)
<1>1. PICK f \in Int, t \in Int, m \in Int :
        f = FullTurn /\ t = HalfTurn /\ f = 2 * t /\ t > 0 /\ m = Degree \div 1000 /\ m > 0
  BY DegreeType
<1>2. FullCircle(h)
  BY DEF coversFullSphere, FullCircle
<1>3. PICK b \in Int : /\ b = RingBeta(h, k) /\ 0 <= b /\ b <= t
                       /\ b # 0 => b > m
                       /\ b # t => b < t - m
  <2>1. h.betaStart = 0 /\ h.betaEnd = t /\ h.betaPoints \in Int /\ h.betaPoints >= 1
    BY <1>1, HeaderFields DEF coversFullSphere, SouthPole, NorthPole, AcceptedHeader
  <2>2. h.betaPoints > 1
    BY <1>1, <2>1, HeaderFields DEF ExactGrid
  <2>3. PICK r \in Int : r = BetaResolution(h) /\ r > m
    BY <1>1, <2>2, SpansAndResolutions DEF CoarseGrids
  <2>4. PICK b \in Int : b = RingBeta(h, k)
    BY RingBounds
  <2>5. /\ 0 <= b /\ b <= t /\ (k # 0 => b >= 0 + r)
        /\ (k # h.betaPoints - 1 => b <= t - r)
        /\ (k = 0 => b = 0) /\ (k = h.betaPoints - 1 => b = t)
    BY <2>1, <2>3, <2>4, RingBounds
  <2>6. b # 0 => b > m
    BY <1>1, <2>3, <2>5
  <2>7. b # t => b < t - m
    BY <1>1, <2>3, <2>5
  <2>8. QED
    BY <2>4, <2>5, <2>6, <2>7
<1>4. PICK n : n = NormalizeDirection([alpha |-> x, beta |-> b])
  OBVIOUS
<1>5. PICK a \in Int : /\ a = IF b \in {0, t} THEN 0 ELSE x % f
                       /\ 0 <= a /\ a < f
                       /\ h.alphaPoints > 1 => a <= f - m
  <2>1. x % f \in 0 .. f - 1
    BY <1>1, DivisionBounds
  <2>2. h.alphaPoints > 1 => x % f <= f - m /\ m <= f
    <3>1. ASSUME h.alphaPoints > 1 PROVE x % f <= f - m /\ m <= f
      <4>1. PICK r \in Int : r = AlphaResolution(h) /\ r > m
        BY <1>1, <3>1, SpansAndResolutions DEF CoarseGrids
      <4>2. c * AlphaResolution(h) \in Nat
            /\ c * AlphaResolution(h) <= FullTurn - AlphaResolution(h)
        BY <1>2, <3>1, ColumnBounds
      <4>3. x % f = c * AlphaResolution(h)
        BY <1>1, <3>1
      <4>4. QED
        BY <1>1, <4>1, <4>2, <4>3
    <3>2. QED
      BY <3>1
  <2>3. QED
    BY <1>1, <2>1, <2>2
<1>6. n = [alpha |-> RoundMilli(a), beta |-> RoundMilli(b)]
  BY <1>1, <1>3, <1>4, <1>5, NormalizedOnSphere
<1>7. PICK y \in Int : /\ y = RoundMilli(b) /\ y \in 0 .. HalfTurn
                       /\ b = 0 => y = 0
                       /\ b = t => y = t
                       /\ b \notin {0, t} => y \notin {0, t}
                       /\ RoundMilli(y) = y
  <2>1. /\ RoundMilli(b) \in Nat /\ RoundMilli(b) <= HalfTurn
        /\ 2 * RoundMilli(b) <= 2 * b + m
        /\ 2 * b < 2 * RoundMilli(b) + m
    BY <1>1, <1>3, MilliBounds
  <2>2. RoundMilli(RoundMilli(b)) = RoundMilli(b)
    BY <1>3, MilliTwice
  <2>3. PICK y \in Nat : y = RoundMilli(b)
    BY <2>1
  <2>4. b = 0 => y = 0
    <3>1. RoundMilli(0) = 0
      <4>1. RoundQuotient(0, m) = 0
        BY <1>1, RoundIs
      <4>2. QED
        BY <1>1, <4>1 DEF RoundMilli
    <3>2. QED
      BY <2>3, <3>1
  <2>5. b = t => y = t
    <3>1. PICK q \in Int : t = q * m
      <4>1. Degree \in Int /\ Degree % 1000 = 0
        BY GridAssumption
      <4>2. Degree = 1000 * m
        BY <1>1, <4>1
      <4>3. t = 180000 * m
        BY <1>1, <4>2 DEF HalfTurn
      <4>4. QED
        BY <4>3
    <3>2. t \in Nat /\ 2 * (q * m) <= 2 * t + m /\ 2 * t < 2 * (q * m) + m
      BY <1>1, <3>1
    <3>3. RoundQuotient(t, m) = q
      BY <1>1, <3>1, <3>2, RoundIs
    <3>4. QED
      BY <1>1, <2>3, <3>1, <3>3 DEF RoundMilli
  <2>6. b \notin {0, t} => y \notin {0, t}
    BY <1>1, <1>3, <2>1, <2>3
  <2>7. y \in Int /\ y \in 0 .. HalfTurn /\ RoundMilli(y) = y
    BY <1>1, <2>1, <2>2, <2>3
  <2>8. QED
    BY <2>3, <2>4, <2>5, <2>6, <2>7, Zenon
<1>8. CASE h.alphaPoints > 1
  <2>1. PICK z \in Int : z = RoundMilli(a) /\ 0 <= z /\ z < f /\ RoundMilli(z) = z
    <3>1. /\ RoundMilli(a) \in Nat
          /\ 2 * RoundMilli(a) <= 2 * a + m
      BY <1>1, <1>5, MilliBounds
    <3>2. RoundMilli(RoundMilli(a)) = RoundMilli(a)
      BY <1>5, MilliTwice
    <3>3. QED
      BY <1>1, <1>5, <1>8, <3>1, <3>2
  <2>2. n = [alpha |-> z, beta |-> y]
    BY <1>6, <1>7, <2>1
  <2>3. z % f = z
    <3>1. z \in 0 .. f - 1
      BY <1>1, <2>1
    <3>2. (0 * f + z) % f = z
      BY <1>1, <3>1, Quotient
    <3>3. QED
      BY <1>1, <2>1, <3>2
  <2>4. NormalizeDirection(n) = n
    <3>1. NormalizeDirection([alpha |-> z, beta |-> y])
            = [alpha |-> RoundMilli(IF y \in {0, HalfTurn} THEN 0 ELSE z % FullTurn),
               beta |-> RoundMilli(y)]
      BY <1>7, <2>1, NormalizedOnSphere
    <3>2. RoundMilli(IF y \in {0, HalfTurn} THEN 0 ELSE z % FullTurn) = z
      <4>1. CASE y \in {0, HalfTurn}
        <5>1. a = 0
          BY <1>1, <1>5, <1>7, <4>1
        <5>2. QED
          BY <2>1, <4>1, <5>1
      <4>2. CASE y \notin {0, HalfTurn}
        BY <1>1, <2>1, <2>3, <4>2
      <4>3. QED
        BY <4>1, <4>2
    <3>3. QED
      BY <1>7, <2>2, <3>1, <3>2
  <2>5. NearestNeighbour(h, n) = NearestNeighbour(h, [alpha |-> x, beta |-> b])
    BY <1>4, <2>4 DEF NearestNeighbour
  <2>6. QED
    BY <1>2, <1>3, <1>4, <2>5, PointIsFound
<1>9. CASE h.alphaPoints = 1
  <2>1. PICK z \in Int : z = RoundMilli(a)
    BY <1>5, MilliBounds
  <2>2. n = [alpha |-> z, beta |-> y]
    BY <1>6, <1>7, <2>1
  <2>3. NormalizeDirection([alpha |-> z, beta |-> y])
          = [alpha |-> RoundMilli(IF y \in {0, HalfTurn} THEN 0 ELSE z % FullTurn),
             beta |-> RoundMilli(y)]
    BY <1>7, <2>1, NormalizedOnSphere
  <2>4. NormalizeDirection(n).beta = RoundMilli(b)
    BY <1>7, <2>2, <2>3
  <2>5. BetaIndex(h, RoundMilli(b)) = k
    BY <1>3, RingIsFound
  <2>6. \A l : AlphaIndex(h, l) = 0
    BY <1>9 DEF AlphaIndex
  <2>7. c = 0
    BY <1>9
  <2>8. NearestNeighbour(h, n) = RecordAt(h, k, 0)
    BY <2>4, <2>5, <2>6 DEF NearestNeighbour
  <2>9. QED
    BY <1>3, <1>4, <2>7, <2>8
<1>10. QED
  BY <1>8, <1>9, HeaderFields DEF AcceptedHeader

\* Floor leads to a multiple of the resolution, less than one of it away.
LEMMA FloorIs ==
  ASSUME NEW x \in Nat, NEW r \in Int, r > 0
  PROVE  \E q \in Nat : Floor(x, r) = q * r /\ q * r <= x /\ x < q * r + r
<1>1. PICK q \in Int, i \in Int : q = x \div r /\ i = x % r
  BY DivisionBounds
<1>2. r * q <= x /\ x < r * q + r /\ i = x - r * q
  BY <1>1
<1>3. q >= 0
  <2>1. r * 0 < r * (q + 1)
    BY <1>1, <1>2
  <2>2. QED
    BY <1>1, <2>1, ProductCancel
<1>4. Floor(x, r) = x - i
  BY <1>1 DEF Floor, Fmod
<1>5. r * q = q * r /\ q * r \in Int
  BY <1>1
<1>6. QED
  BY <1>1, <1>2, <1>3, <1>4, <1>5

\* The meridians of the cell, before the direction and behind it.
LEMMA CellMeridians ==
  ASSUME NEW h \in Headers, FullCircle(h), NEW a \in 0 .. FullTurn
  PROVE  \E c1 \in 0 .. h.alphaPoints - 1, c3 \in 0 .. h.alphaPoints - 1 :
           /\ Floor(a, AlphaResolution(h)) \in Int
           /\ h.alphaPoints > 1 =>
                /\ Floor(a, AlphaResolution(h)) % FullTurn = c1 * AlphaResolution(h)
                /\ (Floor(a, AlphaResolution(h)) + AlphaResolution(h)) % FullTurn
                     = c3 * AlphaResolution(h)
                /\ (a - c1 * AlphaResolution(h)) % FullTurn < AlphaResolution(h)
                /\ (c3 * AlphaResolution(h) - a) % FullTurn \in 1 .. AlphaResolution(h)
<1>1. PICK p \in Int, r \in Int, f \in Int :
        /\ p = h.alphaPoints /\ r = AlphaResolution(h) /\ f = FullTurn
        /\ p >= 1 /\ r >= 0 /\ (p > 1 => r > 0) /\ f > 0
  BY HeaderFields, SpansAndResolutions, DegreeType DEF AcceptedHeader
<1>2. a \in Nat /\ a <= f
  BY <1>1
<1>3. CASE p = 1
  <2>1. r = 0
    BY <1>1, <1>3 DEF AlphaResolution
  <2>2. Floor(a, r) \in Int
    BY <1>2, <2>1 DEF Floor
  <2>3. 0 \in 0 .. p - 1
    BY <1>3
  <2>4. QED
    BY <1>1, <1>3, <2>2, <2>3
<1>4. CASE p > 1
  <2>1. r > 0
    BY <1>1, <1>4
  <2>2. PICK q \in Nat : Floor(a, r) = q * r /\ q * r <= a /\ a < q * r + r
    BY <1>1, <1>2, <2>1, FloorIs
  <2>3. PICK u \in Int : u = q * r
    BY <1>1
  <2>4. u = Floor(a, r) /\ 0 <= u /\ u <= a /\ a < u + r
    <3>1. 0 * r <= q * r /\ 0 * r = 0
      BY <1>1, ProductMonotone
    <3>2. QED
      BY <1>1, <2>2, <2>3, <3>1
  <2>5. f = p * r
    BY <1>1, <1>2, <1>4, CircleIsShared
  <2>6. 2 * r <= f
    BY <1>1, <1>4, <2>1, <2>5, ProductMonotone
  <2>7. q <= p
    <3>1. r * q < r * (p + 1)
      <4>1. r * q = u /\ r * (p + 1) = f + r
        BY <1>1, <2>3, <2>5
      <4>2. QED
        BY <1>1, <1>2, <2>1, <2>4, <4>1
    <3>2. QED
      BY <1>1, <2>1, <3>1, ProductCancel
  <2>8. (q = p => u = f) /\ (q = p - 1 => u = f - r) /\ (q < p - 1 => u <= f - 2 * r)
    <3>1. q = p => u = f
      BY <2>3, <2>5
    <3>2. q = p - 1 => u = f - r
      <4>1. (p - 1) * r = p * r - r
        BY <1>1
      <4>2. QED
        BY <2>3, <2>5, <4>1
    <3>3. q < p - 1 => u <= f - 2 * r
      <4>1. ASSUME q < p - 1 PROVE q * r <= (p - 2) * r
        BY <1>1, <4>1, ProductMonotone
      <4>2. (p - 2) * r = p * r - 2 * r
        BY <1>1
      <4>3. QED
        BY <2>3, <2>5, <4>1, <4>2
    <3>4. QED
      BY <3>1, <3>2, <3>3
  <2>9. PICK c1 \in 0 .. p - 1 : c1 = IF q = p THEN 0 ELSE q
    BY <1>1, <1>4, <2>7
  <2>10. PICK c3 \in 0 .. p - 1 :
           c3 = IF q = p THEN 1 ELSE IF q = p - 1 THEN 0 ELSE q + 1
    BY <1>1, <1>4, <2>7
  <2>11. PICK v1 \in Int : v1 = c1 * r /\ v1 = IF q = p THEN 0 ELSE u
    <3>1. 0 * r = 0
      BY <1>1
    <3>2. QED
      BY <2>3, <2>9, <3>1
  <2>12. PICK v3 \in Int : v3 = c3 * r
                           /\ v3 = IF q = p THEN r ELSE IF q = p - 1 THEN 0 ELSE u + r
    <3>1. 0 * r = 0 /\ 1 * r = r /\ (q + 1) * r = q * r + r
      BY <1>1
    <3>2. QED
      BY <1>1, <2>3, <2>10, <3>1
  <2>13. \A i \in 0 .. f - 1 : i % f = i /\ (f + i) % f = i /\ (i - f) % f = i
    <3>1. ASSUME NEW i \in 0 .. f - 1
          PROVE  i % f = i /\ (f + i) % f = i /\ (i - f) % f = i
      <4>1. (0 * f + i) % f = i /\ (1 * f + i) % f = i /\ ((-1) * f + i) % f = i
        BY <1>1, Quotient
      <4>2. 0 * f + i = i /\ 1 * f + i = f + i /\ (-1) * f + i = i - f
        BY <1>1
      <4>3. QED
        BY <4>1, <4>2
    <3>2. QED
      BY <3>1
  <2>14. u % f = v1
    <3>1. v1 \in 0 .. f - 1 /\ (u = v1 \/ u = f + v1)
      <4>1. v1 \in Int /\ v1 = IF q = p THEN 0 ELSE u
        BY <2>11
      <4>2. q # p => u <= f - r
        BY <1>1, <2>1, <2>7, <2>8
      <4>3. QED
        BY <1>1, <2>1, <2>4, <2>8, <4>1, <4>2
    <3>2. QED
      BY <2>13, <3>1
  <2>15. (u + r) % f = v3
    <3>1. v3 \in 0 .. f - 1 /\ (u + r = v3 \/ u + r = f + v3)
      BY <1>1, <2>1, <2>4, <2>6, <2>7, <2>8, <2>12
    <3>2. QED
      BY <2>13, <3>1
  <2>16. (a - v1) % f < r
    <3>1. PICK i \in Int : i = a - u
      BY <1>2, <2>4
    <3>2. i \in 0 .. f - 1 /\ i < r /\ (a - v1 = i \/ a - v1 = f + i)
      BY <1>1, <1>2, <2>1, <2>4, <2>6, <2>8, <2>11, <3>1
    <3>3. QED
      BY <2>13, <3>2
  <2>17. (v3 - a) % f \in 1 .. r
    <3>1. PICK i \in Int : i = u + r - a
      BY <1>1, <1>2, <2>4
    <3>2. i \in 0 .. f - 1 /\ i \in 1 .. r /\ (v3 - a = i \/ v3 - a = i - f)
      BY <1>1, <1>2, <2>1, <2>4, <2>6, <2>8, <2>12, <3>1
    <3>3. QED
      BY <2>13, <3>2
  <2>18. /\ Floor(a, r) \in Int
         /\ Floor(a, r) % f = c1 * r /\ (Floor(a, r) + r) % f = c3 * r
         /\ (a - c1 * r) % f < r /\ (c3 * r - a) % f \in 1 .. r
    BY <2>4, <2>11, <2>12, <2>14, <2>15, <2>16, <2>17
  <2>19. QED
    BY <1>1, <2>9, <2>10, <2>18
<1>5. QED
  BY <1>1, <1>3, <1>4

\* The rings of the cell, below the direction and above it.
LEMMA CellRings ==
  ASSUME NEW h \in Headers, coversFullSphere(h), NEW b \in 0 .. HalfTurn
  PROVE  \E k1 \in 0 .. h.betaPoints - 1, k2 \in 0 .. h.betaPoints - 1 :
           /\ Floor(b, BetaResolution(h)) = RingBeta(h, k1)
           /\ (IF Floor(b, BetaResolution(h)) + BetaResolution(h) > HalfTurn
                 THEN HalfTurn ELSE Floor(b, BetaResolution(h)) + BetaResolution(h))
                = RingBeta(h, k2)
           /\ RingBeta(h, k1) <= b /\ b <= RingBeta(h, k2)
           /\ RingBeta(h, k2) - RingBeta(h, k1) <= BetaResolution(h)
<1>1. PICK n \in Int, r \in Int, t \in Int :
        n = h.betaPoints /\ r = BetaResolution(h) /\ t = HalfTurn /\ t > 0 /\ n >= 1
  BY HeaderFields, SpansAndResolutions, DegreeType DEF AcceptedHeader
<1>2. h.betaStart = 0 /\ h.betaEnd = t
  BY <1>1 DEF coversFullSphere, SouthPole, NorthPole
<1>3. n > 1
  BY <1>1, <1>2, HeaderFields DEF ExactGrid
<1>4. r > 0 /\ t = (n - 1) * r
  <2>1. h.betaEnd - h.betaStart = (h.betaPoints - 1) * BetaResolution(h)
        /\ BetaResolution(h) > 0
    BY <1>1, <1>3, SpansAndResolutions
  <2>2. t - 0 = (n - 1) * r /\ t - 0 = t
    BY <1>1, <1>2, <2>1
  <2>3. QED
    BY <1>1, <2>1, <2>2
<1>5. b \in Nat /\ b <= t
  BY <1>1
<1>6. PICK q \in Nat : Floor(b, r) = q * r /\ q * r <= b /\ b < q * r + r
  BY <1>1, <1>4, <1>5, FloorIs
<1>7. PICK u \in Int : u = q * r /\ u = Floor(b, r) /\ u <= b /\ b < u + r
  BY <1>1, <1>6
<1>8. \A j \in Int : RingBeta(h, j) = j * r
  <2>1. ASSUME NEW j \in Int PROVE RingBeta(h, j) = j * r
    <3>1. j * r \in Int
      BY <1>1
    <3>2. RingBeta(h, j) = 0 + j * r
      BY <1>1, <1>2 DEF RingBeta
    <3>3. QED
      BY <3>1, <3>2
  <2>2. QED
    BY <2>1
<1>9. q <= n - 1
  <2>1. PICK l \in Int : l = n - 1
    BY <1>1
  <2>2. r * q < r * (l + 1)
    <3>1. r * q = u /\ r * (l + 1) = l * r + r
      BY <1>1, <1>7, <2>1
    <3>2. l * r = t
      BY <1>4, <2>1
    <3>3. QED
      BY <1>1, <1>4, <1>5, <1>7, <3>1, <3>2
  <2>3. q <= l
    BY <1>1, <1>4, <2>1, <2>2, ProductCancel
  <2>4. QED
    BY <2>1, <2>3
<1>10. CASE q = n - 1
  <2>1. u = t
    BY <1>4, <1>7, <1>10
  <2>2. u + r > t /\ b = t /\ t - t <= r
    BY <1>1, <1>4, <1>5, <1>7, <2>1
  <2>3. RingBeta(h, q) = t
    BY <1>7, <1>8, <2>1
  <2>4. q \in 0 .. n - 1 /\ b <= t
    BY <1>1, <1>9, <2>2
  <2>5. QED
    BY <1>1, <1>7, <2>1, <2>2, <2>3, <2>4
<1>11. CASE q # n - 1
  <2>1. q \in 0 .. n - 1 /\ q + 1 \in 0 .. n - 1
    BY <1>1, <1>9, <1>11
  <2>2. RingBeta(h, q) = u /\ RingBeta(h, q + 1) = u + r
    <3>1. (q + 1) * r = q * r + r
      BY <1>1
    <3>2. QED
      BY <1>7, <1>8, <3>1
  <2>3. u + r <= t
    <3>1. (q + 1) * r <= (n - 1) * r
      BY <1>1, <1>4, <2>1, ProductMonotone
    <3>2. (q + 1) * r = q * r + r
      BY <1>1
    <3>3. QED
      BY <1>4, <1>7, <3>1, <3>2
  <2>4. ~(u + r > t) /\ b <= u + r /\ (u + r) - u <= r
    <3>1. u \in Int /\ b < u + r
      BY <1>7
    <3>2. r \in Int /\ t \in Int /\ b \in Int
      BY <1>1, <1>5
    <3>3. QED
      BY <2>3, <3>1, <3>2
  <2>5. PICK k1 \in 0 .. n - 1, k2 \in 0 .. n - 1 : k1 = q /\ k2 = q + 1
    BY <2>1
  <2>6. /\ Floor(b, r) = RingBeta(h, k1)
        /\ (IF Floor(b, r) + r > t THEN t ELSE Floor(b, r) + r) = RingBeta(h, k2)
        /\ RingBeta(h, k1) <= b /\ b <= RingBeta(h, k2)
        /\ RingBeta(h, k2) - RingBeta(h, k1) <= r
    <3>1. RingBeta(h, k1) = u /\ RingBeta(h, k2) = u + r
      BY <2>2, <2>5
    <3>2. u <= b /\ u = Floor(b, r)
      BY <1>7
    <3>3. QED
      BY <2>4, <3>1, <3>2
  <2>7. QED
    BY <1>1, <2>6
<1>12. QED
  BY <1>10, <1>11

\* What a corner of the cell tells of the record answered for it.
Corner(h, i, k, c) ==
  /\ i \in Records(h)
  /\ RecordCoords(h, i).beta = RingBeta(h, k)
  /\ RecordCoords(h, i).beta \notin {0, HalfTurn} /\ h.alphaPoints > 1
       => RecordCoords(h, i).alpha = c * AlphaResolution(h)

LEMMA CornerIs ==
  ASSUME CoarseGrids, NEW h \in Headers, coversFullSphere(h),
         NEW k \in 0 .. h.betaPoints - 1, NEW c \in 0 .. h.alphaPoints - 1, NEW x \in Int,
         h.alphaPoints > 1 => x % FullTurn = c * AlphaResolution(h)
  PROVE  Corner(h, NearestNeighbour(h, NormalizeDirection([alpha |-> x, beta |-> RingBeta(h, k)])),
                k, c)
<1>1. PICK i : /\ i = RecordAt(h, k, c)
               /\ i = NearestNeighbour(h, NormalizeDirection([alpha |-> x, beta |-> RingBeta(h, k)]))
  BY CornerIsFound
<1>2. i \in Records(h)
  <2>1. c \in 0 .. h.alphaPoints /\ c <= h.alphaPoints - 1
    BY HeaderFields
  <2>2. QED
    BY <1>1, <2>1, RecordAtBounds DEF Records
<1>3. RecordCoords(h, i) = Point(h, k, Column(h, k, c))
  BY <1>1, CoordsOfRecord
<1>4. RecordCoords(h, i).beta = RingBeta(h, k)
  BY <1>3 DEF Point
<1>5. ASSUME RecordCoords(h, i).beta \notin {0, HalfTurn}, h.alphaPoints > 1
      PROVE  RecordCoords(h, i).alpha = c * AlphaResolution(h)
  <2>1. RingBeta(h, 0) = h.betaStart /\ RingBeta(h, h.betaPoints - 1) = h.betaEnd
    BY RingBounds
  <2>2. ~(k = 0 /\ SouthPole(h)) /\ ~(k = h.betaPoints - 1 /\ NorthPole(h))
    BY <1>4, <1>5, <2>1 DEF SouthPole, NorthPole
  <2>3. RecordCoords(h, i).alpha = h.alphaStart + c * AlphaResolution(h)
    BY <1>3, <2>2 DEF Point, Column
  <2>4. h.alphaStart = 0 /\ c * AlphaResolution(h) \in Int
    BY SpansAndResolutions DEF coversFullSphere
  <2>5. QED
    BY <2>3, <2>4
<1>6. QED
  BY <1>1, <1>2, <1>4, <1>5 DEF Corner

\* Four points around a direction.
CellAround(h, n, at) ==
  LET off == {k \in 1..4 : at[k].beta \notin {0, HalfTurn} /\ h.alphaPoints > 1}
  IN  /\ at[1].beta = at[4].beta /\ at[2].beta = at[3].beta
      /\ at[1].beta <= n.beta /\ n.beta <= at[2].beta
      /\ at[2].beta - at[1].beta <= BetaResolution(h)
      /\ \A k \in {1, 2} : k \in off =>
           (n.alpha - at[k].alpha) % FullTurn < AlphaResolution(h)
      /\ \A k \in {3, 4} : k \in off =>
           (at[k].alpha - n.alpha) % FullTurn \in 1 .. AlphaResolution(h)

\* The corners that getCell answers enclose the direction.
LEMMA CellIs ==
  ASSUME CoarseGrids, NEW h \in Headers, coversFullSphere(h),
         NEW d \in [alpha : Int, beta : Int], NormalizeDirection(d).beta >= 0
  PROVE  /\ \A k \in 1..4 : Cell(h, d)[k] \in Records(h)
         /\ CellAround(h, NormalizeDirection(d), [k \in 1..4 |-> RecordCoords(h, Cell(h, d)[k])])
<1>1. PICK a \in 0 .. FullTurn, b \in 0 .. HalfTurn :
        a = NormalizeDirection(d).alpha /\ b = NormalizeDirection(d).beta
  BY NormalizedAlpha, NormalizedBeta, DegreeType
<1>2. FullCircle(h)
  BY DEF coversFullSphere, FullCircle
<1> DEFINE At(x, y) == NearestNeighbour(h, NormalizeDirection([alpha |-> x, beta |-> y]))
           r == AlphaResolution(h)
           at == [k \in 1..4 |-> RecordCoords(h, Cell(h, d)[k])]
           Off(k) == at[k].beta \notin {0, HalfTurn} /\ h.alphaPoints > 1
<1>3. PICK k1 \in 0 .. h.betaPoints - 1, k2 \in 0 .. h.betaPoints - 1,
           c1 \in 0 .. h.alphaPoints - 1, c3 \in 0 .. h.alphaPoints - 1 :
        /\ \A k \in 1..4 : Corner(h, Cell(h, d)[k], IF k \in {1, 4} THEN k1 ELSE k2,
                                  IF k \in {1, 2} THEN c1 ELSE c3)
        /\ RingBeta(h, k1) <= b /\ b <= RingBeta(h, k2)
        /\ RingBeta(h, k2) - RingBeta(h, k1) <= BetaResolution(h)
        /\ h.alphaPoints > 1 =>
             \/ RingBeta(h, k1) = 0 /\ RingBeta(h, k2) = 0
             \/ (a - c1 * r) % FullTurn < r /\ (c3 * r - a) % FullTurn \in 1 .. r
  <2>1. CASE b = 0
    <3>1. Cell(h, d) = <<At(0, 0), At(0, 0), At(0, 0), At(0, 0)>>
      BY <1>1, <2>1 DEF Cell
    <3>2. RingBeta(h, 0) = 0
      BY SpansAndResolutions DEF RingBeta, coversFullSphere, SouthPole
    <3>3. 0 \in 0 .. h.betaPoints - 1 /\ 0 \in 0 .. h.alphaPoints - 1
      BY HeaderFields DEF AcceptedHeader
    <3>4. 0 % FullTurn = 0 * r
      <4>1. PICK f \in Int : f = FullTurn /\ f > 0
        BY DegreeType
      <4>2. (0 * f + 0) % f = 0 /\ 0 * f + 0 = 0
        BY <4>1, Quotient
      <4>3. 0 * r = 0
        BY SpansAndResolutions
      <4>4. QED
        BY <4>1, <4>2, <4>3
    <3>5. Corner(h, At(0, RingBeta(h, 0)), 0, 0)
      BY <3>3, <3>4, CornerIs
    <3>6. \A k \in 1..4 : Cell(h, d)[k] = At(0, RingBeta(h, 0))
      BY <3>1, <3>2
    <3>7. 0 - 0 <= BetaResolution(h)
      BY SpansAndResolutions
    <3> HIDE DEF At, r
    <3>8. QED
      BY <2>1, <3>2, <3>3, <3>5, <3>6, <3>7
  <2>2. CASE b # 0
    <3> DEFINE a1 == Floor(a, r)
               b1 == Floor(b, BetaResolution(h))
               b2 == IF b1 + BetaResolution(h) > HalfTurn
                       THEN HalfTurn ELSE b1 + BetaResolution(h)
    <3>1. Cell(h, d) = <<At(a1, b1), At(a1, b2), At(a1 + r, b2), At(a1 + r, b1)>>
      BY <1>1, <2>2 DEF Cell
    <3>2. PICK k1 \in 0 .. h.betaPoints - 1, k2 \in 0 .. h.betaPoints - 1 :
            /\ b1 = RingBeta(h, k1) /\ b2 = RingBeta(h, k2)
            /\ RingBeta(h, k1) <= b /\ b <= RingBeta(h, k2)
            /\ RingBeta(h, k2) - RingBeta(h, k1) <= BetaResolution(h)
      BY CellRings
    <3>3. PICK c1 \in 0 .. h.alphaPoints - 1, c3 \in 0 .. h.alphaPoints - 1 :
            /\ a1 \in Int
            /\ h.alphaPoints > 1 =>
                 /\ a1 % FullTurn = c1 * r /\ (a1 + r) % FullTurn = c3 * r
                 /\ (a - c1 * r) % FullTurn < r /\ (c3 * r - a) % FullTurn \in 1 .. r
      BY <1>2, CellMeridians
    <3>4. PICK x1 \in Int, x3 \in Int : x1 = a1 /\ x3 = a1 + r
      BY <3>3, SpansAndResolutions
    <3>5. /\ Corner(h, At(x1, b1), k1, c1) /\ Corner(h, At(x1, b2), k2, c1)
          /\ Corner(h, At(x3, b2), k2, c3) /\ Corner(h, At(x3, b1), k1, c3)
      <4>1. h.alphaPoints > 1 => x1 % FullTurn = c1 * r /\ x3 % FullTurn = c3 * r
        BY <3>3, <3>4
      <4> HIDE DEF a1, b1, b2
      <4>2. QED
        BY <3>2, <4>1, CornerIs
    <3>6. Cell(h, d) = <<At(x1, b1), At(x1, b2), At(x3, b2), At(x3, b1)>>
      BY <3>1, <3>4
    <3> HIDE DEF At, r, a1, b1, b2
    <3>7. \A k \in 1..4 : Corner(h, Cell(h, d)[k], IF k \in {1, 4} THEN k1 ELSE k2,
                                  IF k \in {1, 2} THEN c1 ELSE c3)
      BY <3>5, <3>6
    <3>8. QED
      BY <3>2, <3>3, <3>7
  <2>3. QED
    BY <2>1, <2>2
<1>4. \A k \in 1..4 :
        /\ Cell(h, d)[k] \in Records(h)
        /\ at[k] = RecordCoords(h, Cell(h, d)[k])
        /\ at[k].beta = RingBeta(h, IF k \in {1, 4} THEN k1 ELSE k2)
        /\ Off(k) => at[k].alpha = (IF k \in {1, 2} THEN c1 ELSE c3) * r
  BY <1>3 DEF Corner
<1> HIDE DEF At, r, at
<1>5. /\ at[1].beta = RingBeta(h, k1) /\ at[4].beta = RingBeta(h, k1)
      /\ at[2].beta = RingBeta(h, k2) /\ at[3].beta = RingBeta(h, k2)
  BY <1>4
<1>6. ASSUME NEW k \in {1, 2}, Off(k) PROVE (a - at[k].alpha) % FullTurn < r
  <2>1. k \in 1..4 /\ at[k].alpha = c1 * r
    BY <1>4, <1>6
  <2>2. ~(RingBeta(h, k1) = 0 /\ RingBeta(h, k2) = 0)
    BY <1>5, <1>6
  <2>3. QED
    BY <1>3, <1>6, <2>1, <2>2
<1>7. ASSUME NEW k \in {3, 4}, Off(k) PROVE (at[k].alpha - a) % FullTurn \in 1 .. r
  <2>1. k \in 1..4 /\ at[k].alpha = c3 * r
    BY <1>4, <1>7
  <2>2. ~(RingBeta(h, k1) = 0 /\ RingBeta(h, k2) = 0)
    BY <1>5, <1>7
  <2>3. QED
    BY <1>3, <1>7, <2>1, <2>2
<1>8. QED
  BY <1>1, <1>3, <1>4, <1>5, <1>6, <1>7 DEF at, r, CellAround

\* On a full sphere the four records that getCell answers lie around the
\* direction asked, if points are farther apart than the precision of
\* directions.
THEOREM CellIsAround == ASSUME CoarseGrids PROVE Spec => []CellEncloses
<1>1. IInv => CellEncloses
  <2>1. SUFFICES ASSUME IInv, coversFullSphere(header), quad # <<>>, Direction.beta >= 0
                 PROVE  CellEncloses
    BY DEF CellEncloses
  <2>2. /\ header \in Headers /\ asked \in [alpha : Int, beta : Int]
        /\ quad = Cell(header, asked)
    BY <2>1 DEF IInv, TypeOK
  <2>3. Direction = NormalizeDirection(asked)
    BY DEF Direction
  <2>4. QED
    BY <2>1, <2>2, <2>3, CellIs DEF CellEncloses, CellAround
<1>2. QED
  BY <1>1, InitInv, NextInv, PTL DEF Spec
===============================================================================
