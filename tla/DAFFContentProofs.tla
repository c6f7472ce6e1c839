-------------------------- MODULE DAFFContentProofs --------------------------
(***************************************************************************)
(* Proofs about the content: the records of files of every size,           *)
(* quantisation and threshold, the transformer, and the metadata of every  *)
(* number of instances and entries.                                        *)
(*                                                                         *)
(* The records follow a coefficient through the file.  Its bytes are the   *)
(* digits of a number in the base of a byte, and reading them again is     *)
(* division (SampleIsKept).  Its place is a sum over the records before    *)
(* it: the writer counts offsets and concatenates zones, and that the two  *)
(* agree is an induction on the records (BeforeIs, FlattenAt), which gives *)
(* WrittenResponse; spectra are stored whole and lie at multiples          *)
(* (WrittenSpectrum).  The invariant RecInv of the client then follows     *)
(* from each getter's loop bounds.                                         *)
(*                                                                         *)
(* The output of the transformer answers from a buffer that was filled for *)
(* the content it was made for, with the window of that moment; where a    *)
(* number lies in the buffer is integer division.  Which key object a      *)
(* metadata instance maps a name to is an induction on its entries.        *)
(***************************************************************************)
EXTENDS DAFFRecords, DAFFTransformerIR2DFT, DAFFMetadataImpl, DAFFInduction, FiniteSetTheorems

-----------------------------------------------------------------------------
(* Positions: integer division is the inverse of numbering pairs.            *)

LEMMA Quotient ==
  ASSUME NEW n \in Nat \ {0}, NEW a \in Nat, NEW i \in 0 .. n - 1
  PROVE  (a * n + i) \div n = a /\ (a * n + i) % n = i /\ a * n + i \in Nat
<1>1. a * n + i \in Nat /\ a * n \in Nat
  OBVIOUS
<1> DEFINE q == (a * n + i) \div n
           r == (a * n + i) % n
<1>2. q \in Int /\ r \in 0 .. n - 1 /\ a * n + i = n * q + r
  BY <1>1
<1> HIDE DEF q, r
<1>3. q = a
  <2>1. n * (q - a) = i - r
    BY <1>2
  <2>2. CASE q >= a + 1
    <3>1. n * (q - a) >= n
      BY <1>2, <2>2
    <3>2. QED
      BY <1>2, <2>1, <3>1
  <2>3. CASE q <= a - 1
    <3>1. n * (q - a) <= -n
      BY <1>2, <2>3
    <3>2. QED
      BY <1>2, <2>1, <3>1
  <2>4. QED
    BY <1>2, <2>2, <2>3
<1>4. r = i
  BY <1>2, <1>3
<1>5. QED
  BY <1>1, <1>3, <1>4 DEF q, r

\* Numbers below n * m are the pairs of numbers below n and below m.
LEMMA PairOf ==
  ASSUME NEW n \in Nat, NEW m \in Nat \ {0}, NEW k \in 0 .. n * m - 1
  PROVE  k \div m \in 0 .. n - 1 /\ k % m \in 0 .. m - 1
<1>1. PICK q \in Nat, r \in 0 .. m - 1 : q = k \div m /\ r = k % m /\ k = m * q + r
  <2>1. k \in Nat /\ m \in Int /\ m > 0
    OBVIOUS
  <2>2. k \div m \in Nat /\ k % m \in 0 .. m - 1 /\ k = m * (k \div m) + (k % m)
    BY <2>1
  <2>3. QED
    BY <2>2
<1>2. ASSUME q >= n PROVE FALSE
  <2>1. m * (q - n) >= 0 /\ m * (q - n) = m * q - m * n
    BY <1>2
  <2>2. m * q \in Int /\ m * n \in Int /\ n * m = m * n
    OBVIOUS
  <2>3. QED
    BY <1>1, <2>1, <2>2
<1>3. QED
  BY <1>1, <1>2

LEMMA PairIn ==
  ASSUME NEW n \in Nat, NEW m \in Nat, NEW r \in 0 .. n - 1, NEW c \in 0 .. m - 1
  PROVE  r * m + c \in 0 .. n * m - 1 /\ (r * m + c) \div m = r /\ (r * m + c) % m = c
<1>1. (n - 1 - r) * m >= 0 /\ (n - 1 - r) * m = n * m - m - r * m /\ r * m >= 0
      /\ r * m \in Int /\ n * m \in Int
  OBVIOUS
<1>2. r * m + c \in 0 .. n * m - 1
  BY <1>1
<1>3. m \in Nat \ {0} /\ r \in Nat
  OBVIOUS
<1>4. QED
  BY <1>2, <1>3, Quotient

-----------------------------------------------------------------------------
(* Samples: what is written as bytes is read as the same number.             *)

LEMMA ValuesAre ==
  /\ Values(0) = 1 /\ Values(1) = Base /\ Values(2) = Base * Base
  /\ Values(3) = Base * Base * Base /\ Values(4) = Base * Base * Base * Base
BY DEF Values

LEMMA NestedQuotient ==
  ASSUME NEW u \in Nat, NEW p \in Nat \ {0}, NEW b \in Nat \ {0}
  PROVE  (u \div p) \div b = u \div (p * b)
<1>1. PICK q \in Nat, r \in 0 .. p - 1 : q = u \div p /\ u = p * q + r
  <2>1. u \div p \in Nat /\ u % p \in 0 .. p - 1 /\ u = p * (u \div p) + (u % p)
    OBVIOUS
  <2>2. QED
    BY <2>1
<1>2. PICK s \in Nat, t \in 0 .. b - 1 : s = q \div b /\ q = b * s + t
  <2>1. q \div b \in Nat /\ q % b \in 0 .. b - 1 /\ q = b * (q \div b) + (q % b)
    OBVIOUS
  <2>2. QED
    BY <2>1
<1>3. PICK n \in Nat \ {0} : n = p * b
  OBVIOUS
<1>4. PICK i : i = p * t + r
  OBVIOUS
<1>5. u = s * n + i
  <2>1. p * q = p * (b * s + t) /\ p * (b * s + t) = p * (b * s) + p * t
    BY <1>2
  <2>2. p * (b * s) = s * (p * b)
    OBVIOUS
  <2>3. p * (b * s) \in Int /\ p * t \in Int /\ r \in Int
    BY <1>1
  <2>4. QED
    BY <1>1, <1>3, <1>4, <2>1, <2>2, <2>3
<1>6. i \in 0 .. n - 1
  <2>1. t + 1 <= b /\ t \in Nat
    BY <1>2
  <2>2. p * (t + 1) <= p * b /\ p * (t + 1) = p * t + p /\ p * t >= 0 /\ p * t \in Int
    BY <2>1
  <2>3. QED
    BY <1>1, <1>3, <1>4, <2>2
<1>7. u \div n = s
  <2>1. (s * n + i) \div n = s
    BY <1>6, Quotient, Zenon
  <2>2. QED
    BY <1>5, <2>1
<1>8. QED
  BY <1>1, <1>2, <1>3, <1>7

\* The digits of a number.
LEMMA Digits ==
  ASSUME NEW u \in Nat, NEW d, d = [i \in 0 .. 3 |-> (u \div Values(i)) % Base]
  PROVE  /\ \A i \in 0 .. 3 : d[i] \in 0 .. Base - 1
         /\ u = d[0] + d[1] * Base + (u \div Values(2)) * Values(2)
         /\ u = d[0] + d[1] * Base + d[2] * Values(2) + (u \div Values(3)) * Values(3)
         /\ u = d[0] + d[1] * Base + d[2] * Values(2) + d[3] * Values(3) + (u \div Values(4)) * Values(4)
<1>1. PICK b \in Nat : b = Base /\ b > 1
  BY BaseAssumption
<1>2. /\ b * b \in Nat \ {0} /\ b * b * b \in Nat \ {0} /\ b * b * b * b \in Nat \ {0}
  <2>1. b * b \in Nat \ {0}
    BY <1>1
  <2>2. b * b * b \in Nat \ {0}
    BY <1>1, <2>1
  <2>3. QED
    BY <1>1, <2>1, <2>2
<1>3. PICK q1 \in Nat : q1 = u \div b
  BY <1>1
<1>4. PICK q2 \in Nat : q2 = q1 \div b
  BY <1>1
<1>5. PICK q3 \in Nat : q3 = q2 \div b
  BY <1>1
<1>6. PICK q4 \in Nat : q4 = q3 \div b
  BY <1>1
<1>7. q2 = u \div (b * b)
  <2>1. b \in Nat \ {0}
    BY <1>1
  <2>2. QED
    BY <1>3, <1>4, <2>1, NestedQuotient
<1>8. q3 = u \div (b * b * b)
  <2>1. b \in Nat \ {0} /\ b * b \in Nat \ {0}
    BY <1>1, <1>2
  <2>2. QED
    BY <1>5, <1>7, <2>1, NestedQuotient
<1>9. q4 = u \div (b * b * b * b)
  <2>1. b \in Nat \ {0} /\ b * b * b \in Nat \ {0}
    BY <1>1, <1>2
  <2>2. QED
    BY <1>6, <1>8, <2>1, NestedQuotient
<1>10. /\ u % b \in 0 .. b - 1 /\ u = b * q1 + (u % b)
       /\ q1 % b \in 0 .. b - 1 /\ q1 = b * q2 + (q1 % b)
       /\ q2 % b \in 0 .. b - 1 /\ q2 = b * q3 + (q2 % b)
       /\ q3 % b \in 0 .. b - 1 /\ q3 = b * q4 + (q3 % b)
  BY <1>1, <1>3, <1>4, <1>5, <1>6
<1>11. u \div 1 = u
  OBVIOUS
<1>12. d[0] = u % b /\ d[1] = q1 % b /\ d[2] = q2 % b /\ d[3] = q3 % b
  BY <1>1, <1>3, <1>7, <1>8, <1>11, ValuesAre
<1>13. \A i \in 0 .. 3 : d[i] \in 0 .. Base - 1
  <2>1. 0 .. 3 = {0, 1, 2, 3}
    OBVIOUS
  <2>2. QED
    BY <1>1, <1>10, <1>12, <2>1
<1>14. PICK d0 \in 0 .. b - 1, d1 \in 0 .. b - 1, d2 \in 0 .. b - 1, d3 \in 0 .. b - 1 :
         d0 = d[0] /\ d1 = d[1] /\ d2 = d[2] /\ d3 = d[3]
  BY <1>10, <1>12
<1>15. u = b * q1 + d0 /\ q1 = b * q2 + d1 /\ q2 = b * q3 + d2 /\ q3 = b * q4 + d3
  BY <1>10, <1>12, <1>14
<1>16. u = d0 + d1 * b + q2 * (b * b)
  BY <1>15
<1>17. u = d0 + d1 * b + d2 * (b * b) + q3 * (b * b * b)
  BY <1>15, <1>16
<1>18. u = d0 + d1 * b + d2 * (b * b) + d3 * (b * b * b) + q4 * (b * b * b * b)
  BY <1>15, <1>17
<1>19. QED
  BY <1>1, <1>7, <1>8, <1>9, <1>13, <1>14, <1>16, <1>17, <1>18, ValuesAre

\* What the machine reads from two or from four bytes.
Words(b, n, w) ==
  w = [i \in 0 .. n |-> IF i = 0 THEN 0
                        ELSE w[i-1] + (IF LittleEndian THEN b[i-1] ELSE b[n - 1 - (i-1)]) * Values(i-1)]

\* The bytes b hold the digits d, in the byte order of the machine.
HoldDigits(b, n, d) ==
  /\ d \in [0 .. n - 1 -> Int]
  /\ \A i \in 0 .. n - 1 : d[i] = IF LittleEndian THEN b[i] ELSE b[n - 1 - i]

Sum(n, d) == IF n = 2 THEN d[0] + d[1] * Base
             ELSE d[0] + d[1] * Base + d[2] * Values(2) + d[3] * Values(3)

LEMMA SignedIs ==
  ASSUME NEW n \in {2, 4}, NEW b, NEW digits, HoldDigits(b, n, digits)
  PROVE  Signed(b, n) = IF Sum(n, digits) >= Values(n) \div 2 THEN Sum(n, digits) - Values(n) ELSE Sum(n, digits)
<1> PICK d \in [0 .. n - 1 -> Int] : /\ d = digits
                                     /\ \A i \in 0 .. n - 1 : d[i] = IF LittleEndian THEN b[i] ELSE b[n - 1 - i]
  BY DEF HoldDigits
<1>1. \A k \in 0 .. n - 1 : Values(k) \in Int
  <2>1. Values(0) \in Int /\ Values(1) \in Int /\ Values(2) \in Int /\ Values(3) \in Int
    BY BaseAssumption, ValuesAre
  <2>2. ASSUME NEW k \in 0 .. n - 1 PROVE k = 0 \/ k = 1 \/ k = 2 \/ k = 3
    OBVIOUS
  <2>3. QED
    BY <2>1, <2>2
<1>2. PICK F : F = [j \in Nat |-> [v \in Int |-> IF j \in 1 .. n THEN v + d[j - 1] * Values(j - 1) ELSE 0]]
  OBVIOUS
<1>3. IsRule(F, Int)
  <2>1. ASSUME NEW j \in Nat, NEW v \in Int, j \in 1 .. n PROVE v + d[j - 1] * Values(j - 1) \in Int
    <3>1. j - 1 \in 0 .. n - 1
      BY <2>1
    <3>2. d[j - 1] \in Int /\ Values(j - 1) \in Int
      BY <1>1, <3>1
    <3>3. d[j - 1] * Values(j - 1) \in Int
      BY <3>2
    <3>4. QED
      BY <3>3
  <2>2. ASSUME NEW j \in Nat, NEW v \in Int
        PROVE  F[j][v] \in Int
    BY <1>2, <2>1
  <2>3. QED
    BY <2>2 DEF IsRule
<1>4. PICK g : Follows(F, Int, 0, n, g)
  <2>1. n \in Nat /\ 0 \in Int
    OBVIOUS
  <2>2. QED
    BY <1>3, <2>1, Recursion
<1>5. \A j \in 1 .. n : g[j] = g[j-1] + d[j-1] * Values(j-1)
  <2>1. ASSUME NEW j \in 1 .. n PROVE g[j] = g[j-1] + d[j-1] * Values(j-1)
    <3>1. j - 1 \in 0 .. n /\ j \in Nat
      OBVIOUS
    <3>2. g[j-1] \in Int
      BY <1>4, <3>1 DEF Follows
    <3>3. F[j] = [v \in Int |-> v + d[j-1] * Values(j-1)]
      BY <1>2, <3>1
    <3>4. QED
      BY <1>4, <3>2, <3>3 DEF Follows
  <2>2. QED
    BY <2>1
<1>6. Words(b, n, g)
  <2>1. ASSUME NEW i \in 0 .. n
        PROVE  g[i] = IF i = 0 THEN 0
                      ELSE g[i-1] + (IF LittleEndian THEN b[i-1] ELSE b[n - 1 - (i-1)]) * Values(i-1)
    <3>1. CASE i = 0
      BY <1>4, <3>1 DEF Follows
    <3>2. CASE i # 0
      <4>1. i \in 1 .. n /\ i - 1 \in 0 .. n - 1
        BY <3>2
      <4>2. g[i] = g[i-1] + d[i-1] * Values(i-1)
        BY <1>5, <4>1
      <4>3. d[i-1] = IF LittleEndian THEN b[i-1] ELSE b[n - 1 - (i-1)]
        BY <4>1
      <4>4. QED
        BY <3>2, <4>2, <4>3
    <3>3. QED
      BY <3>1, <3>2
  <2>2. g = [i \in 0 .. n |-> g[i]]
    BY <1>4 DEF Follows
  <2>3. QED
    BY <2>1, <2>2 DEF Words
<1>7. PICK w : w = CHOOSE v : Words(b, n, v)
  OBVIOUS
<1>8. Words(b, n, w)
  BY <1>6, <1>7
<1>9. Signed(b, n) = IF w[n] >= Values(n) \div 2 THEN w[n] - Values(n) ELSE w[n]
  BY <1>7 DEF Signed, Words
<1>10. w[0] = 0 /\ \A i \in 1 .. n : w[i] = w[i-1] + d[i-1] * Values(i-1)
  <2>1. w[0] = 0
    BY <1>8 DEF Words
  <2>2. ASSUME NEW i \in 1 .. n PROVE w[i] = w[i-1] + d[i-1] * Values(i-1)
    <3>1. i \in 0 .. n /\ i # 0 /\ i - 1 \in 0 .. n - 1
      OBVIOUS
    <3>2. w[i] = w[i-1] + (IF LittleEndian THEN b[i-1] ELSE b[n - 1 - (i-1)]) * Values(i-1)
      BY <1>8, <3>1 DEF Words
    <3>3. QED
      BY <3>1, <3>2
  <2>3. QED
    BY <2>1, <2>2
<1>11. PICK B \in Int : B = Base
  BY BaseAssumption
<1>12. d[0] \in Int /\ d[1] \in Int
  OBVIOUS
<1>13. w[1] = d[0]
  <2>1. w[1] = w[1-1] + d[1-1] * Values(1-1)
    BY <1>10
  <2>2. QED
    BY <1>10, <1>12, <2>1, ValuesAre
<1>14. w[2] = d[0] + d[1] * Base
  <2>1. w[2] = w[2-1] + d[2-1] * Values(2-1)
    BY <1>10
  <2>2. QED
    BY <1>12, <1>13, <2>1, ValuesAre
<1>15. ASSUME n = 4 PROVE w[4] = d[0] + d[1] * Base + d[2] * Values(2) + d[3] * Values(3)
  <2>1. w[3] = w[3-1] + d[3-1] * Values(3-1) /\ w[4] = w[4-1] + d[4-1] * Values(4-1)
    BY <1>10, <1>15
  <2>2. w[3] = w[2] + d[2] * Values(2) /\ w[4] = w[3] + d[3] * Values(3)
    BY <2>1
  <2>3. QED
    BY <1>14, <2>2
<1>16. w[n] = Sum(n, digits)
  <2>1. CASE n = 2
    BY <1>14, <2>1 DEF Sum
  <2>2. CASE n = 4
    BY <1>15, <2>2 DEF Sum
  <2>3. QED
    BY <2>1, <2>2
<1>17. QED
  BY <1>9, <1>16

\* The values of n bytes are an even number.
LEMMA HalfOf ==
  ASSUME NEW n \in {2, 3, 4}
  PROVE  /\ Values(n) \in Nat \ {0} /\ Values(n) \div 2 \in Nat \ {0}
         /\ 2 * (Values(n) \div 2) = Values(n)
<1>1. PICK h \in Nat \ {0} : Base = 2 * h
  <2>1. Base = 2 * (Base \div 2) /\ Base \div 2 \in Nat \ {0}
    BY BaseAssumption
  <2>2. QED
    BY <2>1
<1>2. PICK k \in Nat \ {0} : Values(n) = 2 * k
  <2>1. CASE n = 2
    <3>1. Values(n) = 2 * (h * Base) /\ h * Base \in Nat \ {0}
      BY <1>1, <2>1, ValuesAre
    <3>2. QED
      BY <3>1
  <2>2. CASE n = 3
    <3>1. h * Base \in Nat \ {0}
      BY <1>1
    <3>2. Values(n) = 2 * (h * Base * Base) /\ h * Base * Base \in Nat \ {0}
      BY <1>1, <2>2, <3>1, ValuesAre
    <3>3. QED
      BY <3>2
  <2>3. CASE n = 4
    <3>1. h * Base \in Nat \ {0} /\ Base \in Nat \ {0}
      BY <1>1
    <3>2. h * Base * Base \in Nat \ {0}
      BY <3>1
    <3>3. Values(n) = 2 * (h * Base * Base * Base) /\ h * Base * Base * Base \in Nat \ {0}
      BY <1>1, <2>3, <3>1, <3>2, ValuesAre
    <3>4. QED
      BY <3>3
  <2>4. QED
    BY <2>1, <2>2, <2>3
<1>3. (2 * k) \div 2 = k
  OBVIOUS
<1>4. QED
  BY <1>2, <1>3

LEMMA Wrapped ==
  ASSUME NEW h \in Nat \ {0}, NEW v \in -h .. h - 1
  PROVE  v % (2 * h) = IF v >= 0 THEN v ELSE v + 2 * h
<1>1. PICK n \in Nat \ {0} : n = 2 * h
  OBVIOUS
<1>2. PICK q \in Int, r \in 0 .. n - 1 : r = v % n /\ v = n * q + r
  <2>1. v \in Int /\ n \in Int /\ n > 0
    BY <1>1
  <2>2. v % n \in 0 .. n - 1
    BY <2>1
  <2>3. v \div n \in Int
    BY <2>1
  <2>4. v = n * (v \div n) + (v % n)
    BY <2>1
  <2>5. QED
    BY <2>2, <2>3, <2>4
<1>3. q = 0 \/ q = -1
  <2>1. CASE q >= 1
    <3>1. n * q >= n
      BY <1>1, <2>1
    <3>2. QED
      BY <1>1, <1>2, <3>1
  <2>2. CASE q <= -2
    <3>1. n * q <= -(n + n)
      <4>1. n * (q + 2) <= 0
        BY <1>1, <2>2
      <4>2. n * (q + 2) = n * q + n + n
        BY <1>1
      <4>3. n * q \in Int
        BY <1>1
      <4>4. QED
        BY <4>1, <4>2, <4>3
    <3>2. QED
      BY <1>1, <1>2, <3>1
  <2>3. QED
    BY <2>1, <2>2
<1>4. CASE q = 0
  BY <1>1, <1>2, <1>4
<1>5. CASE q = -1
  BY <1>1, <1>2, <1>5
<1>6. QED
  BY <1>3, <1>4, <1>5

\* Two or four bytes of a number are read as that number, in either byte order.
LEMMA BytesAreRead ==
  ASSUME NEW n \in {2, 4}, NEW v \in -(Values(n) \div 2) .. Values(n) \div 2 - 1
  PROVE  Signed(le2se(LittleEndianBytes(v, n), n), n) = v
<1>1. PICK h \in Nat \ {0} : h = Values(n) \div 2 /\ Values(n) = 2 * h
  BY HalfOf
<1>2. v \in Int /\ v \in -h .. h - 1
  BY <1>1
<1>3. PICK u \in 0 .. 2 * h - 1 : u = v % Values(n) /\ u = IF v >= 0 THEN v ELSE v + 2 * h
  BY <1>1, <1>2, Wrapped
<1>4. PICK d : d = [i \in 0 .. 3 |-> (u \div Values(i)) % Base]
  OBVIOUS
<1>5. u \in Nat
  BY <1>3
<1>6. /\ \A i \in 0 .. 3 : d[i] \in 0 .. Base - 1
      /\ u = d[0] + d[1] * Base + (u \div Values(2)) * Values(2)
      /\ u = d[0] + d[1] * Base + d[2] * Values(2) + d[3] * Values(3) + (u \div Values(4)) * Values(4)
  BY <1>4, <1>5, Digits
<1>7. PICK e : e = [i \in 0 .. n - 1 |-> d[i]]
  OBVIOUS
<1>8. e \in [0 .. n - 1 -> Int]
  <2>1. ASSUME NEW i \in 0 .. n - 1 PROVE e[i] \in Int
    <3>1. i \in 0 .. 3 /\ e[i] = d[i]
      BY <1>7
    <3>2. QED
      BY <1>6, <3>1, BaseAssumption
  <2>2. QED
    BY <1>7, <2>1
<1>9. PICK b : b = le2se(LittleEndianBytes(v, n), n)
  OBVIOUS
<1>10. ASSUME NEW i \in 0 .. n - 1
       PROVE  e[i] = IF LittleEndian THEN b[i] ELSE b[n - 1 - i]
  <2>1. LittleEndianBytes(v, n)[i] = d[i]
    BY <1>3, <1>4 DEF LittleEndianBytes
  <2>2. CASE LittleEndian
    BY <1>7, <1>9, <2>1, <2>2 DEF le2se
  <2>3. CASE ~LittleEndian
    <3>1. n - 1 - i \in 0 .. n - 1 /\ n - 1 - (n - 1 - i) = i
      OBVIOUS
    <3>2. b[n - 1 - i] = LittleEndianBytes(v, n)[n - 1 - (n - 1 - i)]
      BY <1>9, <2>3, <3>1 DEF le2se, byteswap
    <3>3. QED
      BY <1>7, <2>1, <2>3, <3>1, <3>2
  <2>4. QED
    BY <2>2, <2>3
<1>11. u \div Values(n) = 0
  <2>1. PICK m \in Nat \ {0} : m = Values(n) /\ u \in 0 .. m - 1
    BY <1>1, <1>3
  <2>2. (0 * m + u) \div m = 0
    BY <2>1, Quotient
  <2>3. 0 * m + u = u
    BY <2>1
  <2>4. QED
    BY <2>1, <2>2, <2>3
<1>12. PICK sum : sum = IF n = 2 THEN e[0] + e[1] * Base
                        ELSE e[0] + e[1] * Base + e[2] * Values(2) + e[3] * Values(3)
  OBVIOUS
<1>13. Signed(b, n) = IF sum >= Values(n) \div 2 THEN sum - Values(n) ELSE sum
  <2>1. HoldDigits(b, n, e)
    BY <1>8, <1>10 DEF HoldDigits
  <2>2. sum = Sum(n, e)
    BY <1>12 DEF Sum
  <2>3. QED
    BY <2>1, <2>2, SignedIs
<1>14. sum = u
  <2>1. CASE n = 2
    <3>1. e[0] = d[0] /\ e[1] = d[1] /\ d[0] \in Int /\ d[1] * Base \in Int
      BY <1>6, <1>7, <2>1, BaseAssumption
    <3>2. (u \div Values(2)) * Values(2) = 0
      BY <1>11, <2>1, HalfOf
    <3>3. QED
      BY <1>6, <1>12, <2>1, <3>1, <3>2
  <2>2. CASE n = 4
    <3>1. e[0] = d[0] /\ e[1] = d[1] /\ e[2] = d[2] /\ e[3] = d[3]
      BY <1>7, <2>2
    <3>2. (u \div Values(4)) * Values(4) = 0
      BY <1>11, <2>2, HalfOf
    <3>3. d[0] + d[1] * Base + d[2] * Values(2) + d[3] * Values(3) \in Int
      <4>1. /\ d[0] \in Int /\ d[1] \in Int /\ d[2] \in Int /\ d[3] \in Int
            /\ Base \in Int /\ Values(2) \in Int /\ Values(3) \in Int
        BY <1>6, HalfOf, BaseAssumption
      <4>2. QED
        BY <4>1
    <3>4. QED
      BY <1>6, <1>12, <2>2, <3>1, <3>2, <3>3
  <2>3. QED
    BY <2>1, <2>2
<1>15. QED
  BY <1>1, <1>2, <1>3, <1>9, <1>13, <1>14

\* Three bytes are widened by the sign that their last one shows.
LEMMA WidenedIsRead ==
  ASSUME LittleEndian, NEW v \in -(Values(3) \div 2) .. Values(3) \div 2 - 1
  PROVE  Signed(Widen24(le2se(LittleEndianBytes(v, 3), 3)), 4) = v
<1>1. PICK h \in Nat \ {0} : h = Values(3) \div 2 /\ Values(3) = 2 * h
  BY HalfOf
<1>2. v \in Int /\ v \in -h .. h - 1
  BY <1>1
<1>3. PICK u \in 0 .. 2 * h - 1 : u = v % Values(3) /\ u = IF v >= 0 THEN v ELSE v + 2 * h
  <2>1. v % Values(3) = IF v >= 0 THEN v ELSE v + 2 * h
    BY <1>1, <1>2, Wrapped
  <2>2. QED
    BY <1>2, <2>1
<1>4. PICK d : d = [i \in 0 .. 3 |-> (u \div Values(i)) % Base]
  OBVIOUS
<1>5. u \in Nat
  BY <1>3
<1>6. /\ \A i \in 0 .. 3 : d[i] \in 0 .. Base - 1
      /\ u = d[0] + d[1] * Base + (u \div Values(2)) * Values(2)
      /\ u = d[0] + d[1] * Base + d[2] * Values(2) + (u \div Values(3)) * Values(3)
  BY <1>4, <1>5, Digits
<1>7. u \div Values(3) = 0
  <2>1. u = 0 * Values(3) + u /\ u \in 0 .. Values(3) - 1 /\ Values(3) \in Nat \ {0}
    BY <1>1, <1>3
  <2>2. QED
    BY <2>1, Quotient
<1>8. PICK sign : sign = IF Negative(d[2]) THEN Base - 1 ELSE 0
  OBVIOUS
<1>9. PICK b : b = Widen24(le2se(LittleEndianBytes(v, 3), 3))
  OBVIOUS
<1>10. b[0] = d[0] /\ b[1] = d[1] /\ b[2] = d[2] /\ b[3] = sign
  <2>1. PICK p : p = LittleEndianBytes(v, 3)
    OBVIOUS
  <2>2. p[0] = d[0] /\ p[1] = d[1] /\ p[2] = d[2]
    BY <1>3, <1>4, <2>1 DEF LittleEndianBytes
  <2>3. b = [i \in 0 .. 3 |-> IF i < 3 THEN p[i] ELSE IF Negative(p[2]) THEN Base - 1 ELSE 0]
    BY <1>9, <2>1 DEF Widen24, le2se
  <2>4. QED
    BY <1>8, <2>2, <2>3
<1>11. PICK e : e = [i \in 0 .. 3 |-> b[i]]
  OBVIOUS
<1>12. sign \in Int /\ d[0] \in Int /\ d[1] \in Int /\ d[2] \in 0 .. Base - 1
  BY <1>6, <1>8, BaseAssumption
<1>13. e \in [0 .. 4 - 1 -> Int]
  <2>1. \A i \in 0 .. 3 : e[i] = b[i]
    BY <1>11
  <2>2. e[0] \in Int /\ e[1] \in Int /\ e[2] \in Int /\ e[3] \in Int
    BY <1>10, <1>12, <2>1
  <2>3. ASSUME NEW i \in 0 .. 3 PROVE e[i] \in Int
    <3>1. i = 0 \/ i = 1 \/ i = 2 \/ i = 3
      OBVIOUS
    <3>2. QED
      BY <2>2, <3>1
  <2>4. 4 - 1 = 3
    OBVIOUS
  <2>5. QED
    BY <1>11, <2>3, <2>4
<1>14. PICK sum : sum = e[0] + e[1] * Base + e[2] * Values(2) + e[3] * Values(3)
  OBVIOUS
<1>15. Signed(b, 4) = IF sum >= Values(4) \div 2 THEN sum - Values(4) ELSE sum
  <2>1. HoldDigits(b, 4, e)
    BY <1>11, <1>13 DEF HoldDigits
  <2>2. sum = Sum(4, e)
    BY <1>14 DEF Sum
  <2>3. QED
    BY <2>1, <2>2, SignedIs
<1>16. sum = u + sign * Values(3)
  <2>1. e[0] = d[0] /\ e[1] = d[1] /\ e[2] = d[2] /\ e[3] = sign
    BY <1>10, <1>11
  <2>2. (u \div Values(3)) * Values(3) = 0
    BY <1>7, HalfOf
  <2>3. d[0] + d[1] * Base + d[2] * Values(2) \in Int
    <3>1. d[2] \in Int /\ Base \in Int /\ Values(2) \in Int
      BY <1>12, HalfOf, BaseAssumption
    <3>2. QED
      BY <1>12, <3>1
  <2>4. QED
    BY <1>6, <1>14, <2>1, <2>2, <2>3
<1>17. PICK g \in Nat \ {0} : Base = 2 * g
  <2>1. Base = 2 * (Base \div 2) /\ Base \div 2 \in Nat \ {0}
    BY BaseAssumption
  <2>2. QED
    BY <2>1
<1>18. PICK w \in Nat \ {0} : w = Values(2) /\ h = g * w
  <2>1. Values(2) \in Nat \ {0}
    BY HalfOf
  <2>2. Values(3) = Values(2) * Base
    BY ValuesAre
  <2>3. Values(3) = 2 * (g * Values(2))
    BY <1>17, <2>1, <2>2
  <2>4. g * Values(2) \in Int
    BY <2>1
  <2>5. QED
    BY <1>1, <2>1, <2>3, <2>4
<1>19. PICK r \in 0 .. w - 1 : u = d[2] * w + r
  <2>1. PICK t \in Int : t = d[0] + d[1] * Base
    BY <1>12, BaseAssumption
  <2>2. u = t + d[2] * w
    <3>1. (u \div Values(3)) * Values(3) = 0
      BY <1>7, HalfOf
    <3>2. d[2] * w \in Int
      BY <1>12
    <3>3. QED
      BY <1>6, <1>18, <2>1, <3>1, <3>2
  <2>3. t \in 0 .. w - 1
    <3>1. d[0] \in 0 .. Base - 1 /\ d[1] \in 0 .. Base - 1 /\ Base \in Nat
      BY <1>6, BaseAssumption
    <3>2. PICK a \in Nat, c \in Nat, s \in Nat : a = d[0] /\ c = d[1] /\ s = Base /\ a <= s - 1 /\ c <= s - 1
      BY <3>1
    <3>3. c * s <= (s - 1) * s /\ (s - 1) * s = s * s - s /\ c * s >= 0 /\ c * s \in Int /\ s * s \in Int
      BY <3>2
    <3>4. a + c * s <= s * s - 1 /\ a + c * s >= 0
      BY <3>2, <3>3
    <3>5. QED
      BY <1>18, <2>1, <3>2, <3>4, ValuesAre
  <2>4. d[2] * w \in Int
    BY <1>12
  <2>5. QED
    BY <2>1, <2>2, <2>3, <2>4
<1>20. Negative(d[2]) <=> v < 0
  <2>1. Negative(d[2]) <=> d[2] >= g
    BY <1>17 DEF Negative
  <2>2. ASSUME d[2] >= g PROVE u >= h
    <3>1. (d[2] - g) * w >= 0 /\ (d[2] - g) * w = d[2] * w - g * w /\ d[2] * w \in Int /\ g * w \in Int
      BY <1>12, <1>17, <1>18, <2>2
    <3>2. QED
      BY <1>18, <1>19, <3>1
  <2>3. ASSUME d[2] < g PROVE u < h
    <3>1. PICK x \in Nat : x = d[2] /\ x + 1 <= g
      BY <1>12, <1>17, <2>3
    <3>2. PICK z : z = g - (x + 1)
      OBVIOUS
    <3>3. z \in Nat /\ g = z + x + 1
      BY <3>1, <3>2
    <3>4. g * w = z * w + x * w + w /\ z * w >= 0 /\ x * w \in Int /\ z * w \in Int
      BY <1>18, <3>1, <3>3
    <3>5. QED
      BY <1>18, <1>19, <3>1, <3>4
  <2>4. d[2] >= g \/ d[2] < g
    BY <1>12, <1>17
  <2>5. v < 0 <=> u >= h
    BY <1>1, <1>2, <1>3
  <2>6. QED
    BY <1>1, <1>3, <2>1, <2>2, <2>3, <2>4, <2>5
<1>21. PICK y \in Nat \ {0} : y = Values(3) /\ y = 2 * h
  BY <1>1
<1>22. Values(4) = y * Base /\ Values(4) \div 2 = g * y /\ g * y \in Nat /\ g * y >= y /\ y * Base = 2 * (g * y)
  <2>1. Values(4) = y * Base
    BY <1>21, ValuesAre
  <2>2. y * Base = 2 * (g * y) /\ g * y \in Nat
    BY <1>17, <1>21
  <2>3. (2 * (g * y)) \div 2 = g * y
    BY <2>2
  <2>4. (g - 1) * y >= 0 /\ (g - 1) * y = g * y - y
    BY <1>17, <1>21
  <2>5. QED
    BY <2>1, <2>2, <2>3, <2>4
<1>23. CASE v < 0
  <2>1. sign = Base - 1 /\ u = v + y
    BY <1>1, <1>2, <1>3, <1>8, <1>20, <1>21, <1>23
  <2>2. (Base - 1) * y = y * Base - y /\ y * Base \in Int
    BY <1>17, <1>21
  <2>3. sum = v + y * Base
    <3>1. sum = (v + y) + (y * Base - y)
      BY <1>16, <1>21, <2>1, <2>2
    <3>2. QED
      BY <1>2, <1>21, <2>2, <3>1
  <2>4. sum >= Values(4) \div 2
    <3>1. v >= -h /\ h \in Nat /\ y = 2 * h
      BY <1>2, <1>21
    <3>2. PICK a \in Nat : a = g * y
      BY <1>22
    <3>3. sum = v + 2 * a /\ a >= y /\ Values(4) \div 2 = a
      BY <1>22, <2>3, <3>2
    <3>4. QED
      BY <1>2, <3>1, <3>2, <3>3
  <2>5. QED
    BY <1>2, <1>9, <1>15, <1>22, <2>3, <2>4
<1>24. CASE v >= 0
  <2>1. sign = 0 /\ u = v
    BY <1>2, <1>3, <1>8, <1>20, <1>24
  <2>2. sum = v
    BY <1>2, <1>16, <1>21, <2>1
  <2>3. ~(sum >= Values(4) \div 2)
    BY <1>2, <1>21, <1>22, <2>2
  <2>4. QED
    BY <1>9, <1>15, <2>2, <2>3
<1>25. QED
  BY <1>2, <1>23, <1>24

\* What the writer stores is what the reader converts it to, but for the rounding
\* and saturation of the quantisation.  Widening on a machine of the other byte
\* order looks for the sign in the wrong byte.
Kept(q, v) == IF q = "float32" THEN v ELSE Quantise(q, v)

\* A sample the writer stores (daffv17_write.m) is converted by the reader (Utils.cpp,
\* getEffectiveFilterCoeffs) to the number that the quantisation kept.
THEOREM SampleIsKept ==
  ASSUME NEW q \in {"int16", "int24", "float32"}, NEW v \in Int,
         q = "int24" => LittleEndian,
         q = "float32" => v \in -(Values(4) \div 2) .. Values(4) \div 2 - 1
  PROVE  Converted(q, Stored(q, v)) = Kept(q, v) /\ Kept(q, v) \in Int
<1>1. ASSUME NEW n \in {2, 3}, q = IF n = 2 THEN "int16" ELSE "int24"
      PROVE  /\ Width(q) = n /\ Kept(q, v) = Quantise(q, v)
             /\ Quantise(q, v) \in -(Values(n) \div 2) .. Values(n) \div 2 - 1
  <2>1. Width(q) = n /\ q # "float32"
    BY <1>1 DEF Width
  <2>2. PICK h \in Nat \ {0} : h = Values(n) \div 2
    BY HalfOf
  <2>3. FullScale(q) = h - 1
    BY <2>1, <2>2 DEF FullScale
  <2>4. Quantise(q, v) \in -h .. h - 1
    BY <2>1, <2>2, <2>3 DEF Quantise
  <2>5. QED
    BY <2>1, <2>2, <2>4 DEF Kept
<1>2. CASE q = "int16"
  <2>1. Width(q) = 2 /\ Kept(q, v) = Quantise(q, v) /\ Quantise(q, v) \in -(Values(2) \div 2) .. Values(2) \div 2 - 1
    BY <1>1, <1>2
  <2>2. PICK x : x = Quantise(q, v)
    OBVIOUS
  <2>3. Signed(le2se(LittleEndianBytes(x, 2), 2), 2) = x
    BY <2>1, <2>2, BytesAreRead
  <2>4. Values(2) \div 2 \in Int
    BY HalfOf
  <2>5. QED
    BY <1>2, <2>1, <2>2, <2>3, <2>4 DEF Converted, Stored
<1>3. CASE q = "int24"
  <2>1. Width(q) = 3 /\ Kept(q, v) = Quantise(q, v) /\ Quantise(q, v) \in -(Values(3) \div 2) .. Values(3) \div 2 - 1
    BY <1>1, <1>3
  <2>2. PICK x : x = Quantise(q, v)
    OBVIOUS
  <2>3. Signed(Widen24(le2se(LittleEndianBytes(x, 3), 3)), 4) = x
    BY <1>3, <2>1, <2>2, WidenedIsRead
  <2>4. Values(3) \div 2 \in Int
    BY HalfOf
  <2>5. QED
    BY <1>3, <2>1, <2>2, <2>3, <2>4 DEF Converted, Stored
<1>4. CASE q = "float32"
  <2>1. Width(q) = 4 /\ Quantise(q, v) = v /\ Kept(q, v) = v
    BY <1>4 DEF Width, Quantise, Kept
  <2>2. Signed(le2se(LittleEndianBytes(v, 4), 4), 4) = v
    BY <1>4, BytesAreRead
  <2>3. QED
    BY <1>4, <2>1, <2>2 DEF Converted, Stored
<1>5. QED
  BY <1>2, <1>3, <1>4

-----------------------------------------------------------------------------
(* The writer: where a coefficient lies.                                     *)

LEMMA HighestIs ==
  ASSUME NEW m \in Nat, NEW S \in SUBSET (0 .. m), S # {}
  PROVE  Highest(S) \in S /\ \A j \in S : j <= Highest(S)
<1>1. PICK T : T = {m - x : x \in S}
  OBVIOUS
<1>2. T \in SUBSET Nat /\ T # {}
  <2>1. ASSUME NEW y \in T PROVE y \in Nat
    <3>1. PICK x \in S : y = m - x
      BY <1>1, <2>1
    <3>2. x \in 0 .. m
      OBVIOUS
    <3>3. QED
      BY <3>1, <3>2
  <2>2. PICK x \in S : TRUE
    OBVIOUS
  <2>3. m - x \in T
    BY <1>1
  <2>4. QED
    BY <2>1, <2>3
<1>3. PICK t \in T : \A y \in T : t <= y
  BY <1>2, LeastElement
<1>4. PICK x \in S : t = m - x
  BY <1>1
<1>5. \A j \in S : x >= j
  BY <1>1, <1>3, <1>4
<1>6. QED
  BY <1>5 DEF Highest

LEMMA LowestIs ==
  ASSUME NEW S \in SUBSET Nat, S # {}
  PROVE  Lowest(S) \in S /\ \A j \in S : Lowest(S) <= j
<1>1. \E x \in S : \A y \in S : x <= y
  BY LeastElement
<1>2. QED
  BY <1>1 DEF Lowest

\* A zone lies within its response, although its ends are rounded separately.
LEMMA ZoneIsWithin ==
  ASSUME NEW ir, Len(ir) \in Nat, Len(ir) % Alignment = 0, NEW threshold
  PROVE  LET z == EffectiveZone(ir, threshold)
         IN  z.zeros \in Nat /\ z.length \in Nat /\ z.zeros + z.length <= Len(ir)
<1>1. PICK z : z = EffectiveZone(ir, threshold)
  OBVIOUS
<1>2. PICK loud : loud = Loud(ir, threshold)
  OBVIOUS
<1>3. loud \in SUBSET (0 .. Len(ir) - 1)
  BY <1>2 DEF Loud
<1>4. CASE threshold = 0 \/ loud = {}
  BY <1>1, <1>2, <1>4 DEF EffectiveZone
<1>5. CASE ~(threshold = 0 \/ loud = {})
  <2>1. Len(ir) - 1 \in Nat /\ loud \in SUBSET Nat
    BY <1>3, <1>5
  <2>2. PICK lo : lo = Lowest(loud)
    OBVIOUS
  <2>3. PICK hi : hi = Highest(loud)
    OBVIOUS
  <2>4. lo \in 0 .. Len(ir) - 1 /\ hi \in 0 .. Len(ir) - 1 /\ lo <= hi
    BY <1>3, <1>5, <2>1, <2>2, <2>3, LowestIs, HighestIs
  <2>5. z = [zeros |-> lwrmul(lo), length |-> uprmul(hi - lo + 1)]
    BY <1>1, <1>2, <1>5, <2>2, <2>3 DEF EffectiveZone
  <2>6. lwrmul(lo) \in Nat /\ uprmul(hi - lo + 1) \in Nat /\ lwrmul(lo) + uprmul(hi - lo + 1) <= Len(ir)
    BY <2>4 DEF lwrmul, uprmul, Alignment
  <2>7. QED
    BY <1>1, <2>5, <2>6
<1>6. QED
  BY <1>4, <1>5

IsZones(zone, n) == \A k \in 0 .. n - 1 : zone[k].zeros \in Nat /\ zone[k].length \in Nat

\* Every zone begins where the one before it ends.
LEMMA BeforeIs ==
  ASSUME NEW n \in Nat, NEW zone, IsZones(zone, n)
  PROVE  LET before == Before(zone, n)
         IN  /\ before \in [0 .. n -> Nat] /\ before[0] = 0
             /\ \A k \in 0 .. n - 1 : before[k + 1] = before[k] + zone[k].length
<1>1. PICK F : F = [j \in Nat |-> [v \in Nat |-> IF j \in 1 .. n THEN v + zone[j-1].length ELSE 0]]
  OBVIOUS
<1>2. IsRule(F, Nat)
  <2>1. ASSUME NEW j \in Nat, NEW v \in Nat PROVE F[j][v] \in Nat
    <3>1. CASE j \in 1 .. n
      <4>1. j - 1 \in 0 .. n - 1
        BY <3>1
      <4>2. zone[j-1].length \in Nat
        BY <4>1 DEF IsZones
      <4>3. QED
        BY <1>1, <3>1, <4>2
    <3>2. CASE j \notin 1 .. n
      BY <1>1, <3>2
    <3>3. QED
      BY <3>1, <3>2
  <2>2. QED
    BY <2>1 DEF IsRule
<1>3. PICK g : Follows(F, Nat, 0, n, g)
  BY <1>2, Recursion
<1> DEFINE Offsets(b) == b = [k \in 0 .. n |-> IF k = 0 THEN 0 ELSE b[k-1] + zone[k-1].length]
<1>4. Offsets(g)
  <2>1. ASSUME NEW k \in 0 .. n
        PROVE  g[k] = IF k = 0 THEN 0 ELSE g[k-1] + zone[k-1].length
    <3>1. CASE k = 0
      BY <1>3, <3>1 DEF Follows
    <3>2. CASE k # 0
      <4>1. k \in 1 .. n /\ k \in Nat /\ k - 1 \in 0 .. n
        BY <3>2
      <4>2. g[k] = F[k][g[k-1]] /\ g[k-1] \in Nat
        BY <1>3, <4>1 DEF Follows
      <4>3. F[k] = [v \in Nat |-> v + zone[k-1].length]
        BY <1>1, <4>1
      <4>4. QED
        BY <3>2, <4>2, <4>3
    <3>3. QED
      BY <3>1, <3>2
  <2>2. g = [k \in 0 .. n |-> g[k]]
    BY <1>3 DEF Follows
  <2>3. QED
    BY <2>1, <2>2
<1>5. PICK before : before = Before(zone, n)
  OBVIOUS
<1>6. before = CHOOSE b : Offsets(b)
  BY <1>5 DEF Before
<1>7. Offsets(before)
  <2> HIDE DEF Offsets
  <2>1. QED
    BY <1>4, <1>6
<1>8. before[0] = 0
  BY <1>7
<1>9. ASSUME NEW k \in 0 .. n - 1 PROVE before[k + 1] = before[k] + zone[k].length
  <2>1. k + 1 \in 0 .. n /\ k + 1 # 0 /\ (k + 1) - 1 = k
    OBVIOUS
  <2>2. before[k + 1] = before[(k + 1) - 1] + zone[(k + 1) - 1].length
    BY <1>7, <2>1
  <2>3. QED
    BY <2>1, <2>2
<1>10. before \in [0 .. n -> Nat]
  <2> DEFINE P == {k \in Nat : k <= n => before[k] \in Nat}
  <2>1. 0 \in P
    BY <1>8
  <2>2. ASSUME NEW k \in P PROVE k + 1 \in P
    <3>1. k \in Nat
      BY <2>2
    <3>2. ASSUME k + 1 <= n PROVE before[k + 1] \in Nat
      <4>1. k \in 0 .. n - 1 /\ k <= n
        BY <3>1, <3>2
      <4>2. before[k] \in Nat /\ zone[k].length \in Nat
        BY <2>2, <4>1 DEF IsZones
      <4>3. QED
        BY <1>9, <4>1, <4>2
    <3>3. QED
      BY <3>1, <3>2
  <2>3. P = Nat
    <3> HIDE DEF P
    <3>1. P \in SUBSET Nat
      BY DEF P
    <3>2. QED
      BY <2>1, <2>2, <3>1, Induction
  <2>4. \A k \in 0 .. n : before[k] \in Nat
    BY <2>3
  <2>5. QED
    BY <1>7, <2>4
<1>11. QED
  BY <1>5, <1>8, <1>9, <1>10

LEMMA ConcatIs ==
  ASSUME NEW a \in Seq(Int), NEW b \in Seq(Int)
  PROVE  /\ a \o b \in Seq(Int) /\ Len(a \o b) = Len(a) + Len(b)
         /\ Len(a) \in Nat /\ Len(b) \in Nat
         /\ \A p \in 1 .. Len(a) : (a \o b)[p] = a[p]
         /\ \A i \in 1 .. Len(b) : (a \o b)[Len(a) + i] = b[i]
OBVIOUS

\* Element i of the k-th sequence lies i places behind the sequences before it.
IsStack(n, s, before) ==
  /\ DOMAIN s = 1 .. n /\ Len(s) = n /\ \A k \in 1 .. n : s[k] \in Seq(Int)
  /\ before \in [0 .. n -> Nat] /\ before[0] = 0
  /\ \A k \in 1 .. n : before[k] = before[k-1] + Len(s[k])

LEMMA FlattenAt ==
  ASSUME NEW n \in Nat \ {0}, NEW s, NEW before, IsStack(n, s, before)
  PROVE  /\ FlattenSeq(s) \in Seq(Int) /\ Len(FlattenSeq(s)) = before[n]
         /\ \A k \in 1 .. n : \A i \in 1 .. Len(s[k]) :
              before[k-1] + i \in 1 .. before[n] /\ FlattenSeq(s)[before[k-1] + i] = s[k][i]
<1>1. PICK F : F = [j \in Nat |-> [v \in Seq(Int) |-> IF j \in 1 .. n THEN v \o s[j] ELSE v]]
  OBVIOUS
<1>2. IsRule(F, Seq(Int))
  BY <1>1 DEF IsStack, IsRule
<1>3. PICK g : Follows(F, Seq(Int), <<>>, n, g)
  <2>1. <<>> \in Seq(Int) /\ n \in Nat
    OBVIOUS
  <2>2. QED
    BY <1>2, <2>1, Recursion
<1>4. g[0] = <<>> /\ \A k \in 1 .. n : g[k] = g[k-1] \o s[k] /\ g[k-1] \in Seq(Int) /\ g[k] \in Seq(Int)
  <2>1. ASSUME NEW k \in 1 .. n
        PROVE  g[k] = g[k-1] \o s[k] /\ g[k-1] \in Seq(Int) /\ g[k] \in Seq(Int)
    <3>1. k - 1 \in 0 .. n /\ k \in 0 .. n /\ k \in Nat
      OBVIOUS
    <3>2. g[k] = F[k][g[k-1]] /\ g[k-1] \in Seq(Int) /\ g[k] \in Seq(Int)
      BY <1>3, <3>1 DEF Follows
    <3>3. F[k] = [v \in Seq(Int) |-> v \o s[k]]
      BY <1>1, <3>1
    <3>4. QED
      BY <3>2, <3>3
  <2>2. QED
    BY <1>3, <2>1 DEF Follows
<1> DEFINE Flat(h) == h = [i \in 1 .. n |-> IF i = 1 THEN s[i] ELSE h[i-1] \o s[i]]
<1>5. PICK h : h = [i \in 1 .. n |-> g[i]]
  OBVIOUS
<1>6. Flat(h)
  <2>1. ASSUME NEW i \in 1 .. n PROVE g[i] = IF i = 1 THEN s[i] ELSE h[i-1] \o s[i]
    <3>1. CASE i = 1
      <4>1. g[1] = g[1-1] \o s[1] /\ s[1] \in Seq(Int)
        BY <1>4, <3>1 DEF IsStack
      <4>2. g[1-1] = <<>>
        <5>1. 1 - 1 = 0
          OBVIOUS
        <5>2. QED
          BY <1>4, <5>1
      <4>3. <<>> \o s[1] = s[1]
        BY <4>1
      <4>4. QED
        BY <3>1, <4>1, <4>2, <4>3
    <3>2. CASE i # 1
      <4>1. i - 1 \in 1 .. n
        BY <3>2
      <4>2. QED
        BY <1>4, <1>5, <3>2, <4>1
    <3>3. QED
      BY <3>1, <3>2
  <2>2. QED
    BY <1>5, <2>1
<1>7. PICK flat : flat = CHOOSE x : Flat(x)
  OBVIOUS
<1>8. Flat(flat)
  <2> HIDE DEF Flat
  <2>1. QED
    BY <1>6, <1>7
<1>9. FlattenSeq(s) = flat[n]
  BY <1>7 DEF IsStack, FlattenSeq
\* Up to the k-th sequence: where its elements and those before it lie.
<1> DEFINE Laid(k) == /\ flat[k] \in Seq(Int) /\ Len(flat[k]) = before[k]
                      /\ \A j \in 1 .. k : \A i \in 1 .. Len(s[j]) :
                           before[j-1] + i \in 1 .. before[k] /\ flat[k][before[j-1] + i] = s[j][i]
           P == {k \in Nat : k + 1 <= n => Laid(k + 1)}
<1>10. 0 \in P
  <2>1. flat[1] = s[1] /\ 1 \in 1 .. n
    BY <1>8
  <2>2. before[1] = before[1-1] + Len(s[1])
    BY <2>1 DEF IsStack
  <2>3. Len(s[1]) \in Nat /\ s[1] \in Seq(Int)
    BY <2>1 DEF IsStack
  <2>4. before[1] = Len(s[1])
    BY <2>2, <2>3 DEF IsStack
  <2>5. ASSUME NEW j \in 1 .. 1, NEW i \in 1 .. Len(s[j])
        PROVE  before[j-1] + i \in 1 .. before[1] /\ flat[1][before[j-1] + i] = s[j][i]
    <3>1. j = 1 /\ j - 1 = 0
      OBVIOUS
    <3>2. before[j-1] + i = i /\ i \in 1 .. Len(s[1])
      BY <2>3, <3>1 DEF IsStack
    <3>3. QED
      BY <2>1, <2>4, <3>1, <3>2
  <2>6. Laid(1)
    BY <2>1, <2>3, <2>4, <2>5
  <2> HIDE DEF Laid
  <2>7. QED
    BY <2>6
<1>11. ASSUME NEW k \in P PROVE k + 1 \in P
  <2>1. k \in Nat
    BY <1>11
  <2>2. PICK l \in Nat : l = k + 1
    BY <2>1
  <2>3. ASSUME l + 1 <= n PROVE Laid(l + 1)
    <3>1. l \in 1 .. n /\ l + 1 \in 1 .. n /\ l \in 0 .. n /\ l + 1 \in 0 .. n /\ (l + 1) - 1 = l /\ l + 1 # 1
      BY <2>1, <2>2, <2>3
    <3>2. Laid(l)
      <4>1. k + 1 <= n
        BY <2>1, <2>2, <2>3
      <4> HIDE DEF Laid
      <4>2. Laid(k + 1)
        BY <1>11, <4>1
      <4>3. QED
        BY <2>2, <4>2
    <3>3. flat[l + 1] = flat[l] \o s[l + 1]
      <4> HIDE DEF Laid
      <4>1. flat[l + 1] = IF l + 1 = 1 THEN s[l + 1] ELSE flat[(l + 1) - 1] \o s[l + 1]
        BY <1>8, <3>1
      <4>2. QED
        BY <3>1, <4>1
    <3>4. PICK a : a = flat[l]
      OBVIOUS
    <3>5. PICK b : b = s[l + 1]
      OBVIOUS
    <3>6. /\ a \in Seq(Int) /\ Len(a) \in Nat /\ Len(a) = before[l]
          /\ b \in Seq(Int) /\ Len(b) \in Nat
      <4>1. a \in Seq(Int) /\ Len(a) = before[l]
        BY <3>2, <3>4
      <4>2. b \in Seq(Int)
        BY <3>1, <3>5 DEF IsStack
      <4>3. QED
        BY <4>1, <4>2
    <3>7. before[l + 1] = Len(a) + Len(b)
      <4>1. before[l + 1] = before[(l + 1) - 1] + Len(s[l + 1])
        BY <3>1 DEF IsStack
      <4>2. QED
        BY <3>1, <3>5, <3>6, <4>1
    <3>8. flat[l + 1] = a \o b /\ a \o b \in Seq(Int) /\ Len(a \o b) = before[l + 1]
      <4>1. a \o b \in Seq(Int) /\ Len(a \o b) = Len(a) + Len(b)
        BY <3>6, ConcatIs
      <4>2. QED
        BY <3>3, <3>4, <3>5, <3>7, <4>1
    <3>9. ASSUME NEW j \in 1 .. l + 1, NEW i \in 1 .. Len(s[j])
          PROVE  before[j-1] + i \in 1 .. before[l + 1] /\ flat[l + 1][before[j-1] + i] = s[j][i]
      <4>1. CASE j = l + 1
        <5>1. j - 1 = l /\ s[j] = b /\ i \in 1 .. Len(b)
          BY <3>1, <3>5, <3>9, <4>1
        <5>2. Len(a) + i \in 1 .. Len(a) + Len(b)
          BY <3>6, <5>1
        <5>3. (a \o b)[Len(a) + i] = b[i]
          <6>1. \A x \in 1 .. Len(b) : (a \o b)[Len(a) + x] = b[x]
            BY <3>6, ConcatIs
          <6>2. QED
            BY <5>1, <6>1
        <5>4. QED
          BY <3>6, <3>7, <3>8, <5>1, <5>2, <5>3
      <4>2. CASE j # l + 1
        <5>1. j \in 1 .. l
          BY <2>2, <4>2
        <5>2. PICK p : p = before[j-1] + i
          OBVIOUS
        <5>3. p \in 1 .. before[l] /\ a[p] = s[j][i]
          BY <3>2, <3>4, <5>1, <5>2
        <5>4. p \in 1 .. Len(a) /\ p \in 1 .. Len(a) + Len(b)
          BY <3>6, <5>3
        <5>5. (a \o b)[p] = a[p]
          BY <3>6, <5>4, ConcatIs
        <5>6. QED
          BY <3>7, <3>8, <5>2, <5>3, <5>4, <5>5
      <4>3. QED
        BY <4>1, <4>2
    <3>10. QED
      BY <3>8, <3>9
  <2> HIDE DEF Laid
  <2>4. QED
    BY <2>1, <2>2, <2>3
<1>12. P = Nat
  <2> HIDE DEF P
  <2>1. P \in SUBSET Nat
    BY DEF P
  <2>2. QED
    BY <1>10, <1>11, <2>1, Induction
<1>13. Laid(n)
  <2>1. n - 1 \in Nat /\ (n - 1) + 1 = n
    OBVIOUS
  <2>2. n - 1 \in P
    <3> HIDE DEF P
    <3>1. QED
      BY <1>12, <2>1
  <2>3. (n - 1) + 1 <= n => Laid((n - 1) + 1)
    <3> HIDE DEF Laid
    <3>1. QED
      BY <2>2
  <2> HIDE DEF Laid
  <2>4. QED
    BY <2>1, <2>3
<1>14. QED
  BY <1>9, <1>13

\* What the writer was given, as a part of it is read again.
LEMMA PartIs ==
  ASSUME NEW ir \in Seq(Int), NEW z \in Nat, NEW l \in Nat, z + l <= Len(ir)
  PROVE  /\ SubSeq(ir, z + 1, z + l) \in Seq(Int) /\ Len(SubSeq(ir, z + 1, z + l)) = l
         /\ \A i \in 1 .. l : SubSeq(ir, z + 1, z + l)[i] = ir[z + i]
OBVIOUS

\* Responses with numbers in them, all of one length.
AreResponses(given, q) ==
  /\ Len(given) \in Nat \ {0} /\ Len(given[1]) \in Nat \ {0}
  /\ Len(given[1][1]) \in Nat \ {0} /\ Len(given[1][1]) % Alignment = 0
  /\ \A r \in 1 .. Len(given), c \in 1 .. Len(given[1]) :
       /\ given[r][c] \in Seq(Int) /\ Len(given[r][c]) = Len(given[1][1])
       /\ q = "float32" => \A i \in 1 .. Len(given[1][1]) :
                             given[r][c][i] \in -(Values(4) \div 2) .. Values(4) \div 2 - 1

LEMMA ResponseType ==
  ASSUME NEW given, NEW threshold, NEW q, Writable(given, threshold, q)
  PROVE  AreResponses(given, q)
<1>1. PICK S : S = Seq(Int)
  OBVIOUS
<1>2. given \in Seq(Seq(S)) /\ given # <<>> /\ given[1] # <<>>
  BY <1>1 DEF Writable
<1>3. Len(given) \in Nat \ {0} /\ DOMAIN given = 1 .. Len(given) /\ \A r \in 1 .. Len(given) : given[r] \in Seq(S)
  <2>1. PICK T : T = Seq(S)
    OBVIOUS
  <2>2. given \in Seq(T)
    BY <1>2, <2>1
  <2>3. Len(given) \in Nat /\ Len(given) # 0 /\ DOMAIN given = 1 .. Len(given) /\ \A r \in 1 .. Len(given) : given[r] \in T
    BY <1>2, <2>2
  <2>4. QED
    BY <2>1, <2>3
<1>4. ASSUME NEW r \in 1 .. Len(given)
      PROVE  /\ Len(given[r]) = Len(given[1]) /\ Len(given[r]) \in Nat /\ DOMAIN given[r] = 1 .. Len(given[1])
             /\ \A c \in 1 .. Len(given[1]) : given[r][c] \in S
  <2>1. PICK x : x = given[r]
    OBVIOUS
  <2>2. x \in Seq(S)
    BY <1>3, <2>1
  <2>3. Len(x) = Len(given[1])
    BY <1>3, <2>1 DEF Writable
  <2>4. Len(x) \in Nat /\ DOMAIN x = 1 .. Len(x) /\ \A c \in 1 .. Len(x) : x[c] \in S
    BY <2>2
  <2>5. QED
    BY <2>1, <2>3, <2>4
<1>5. Len(given[1]) \in Nat \ {0}
  <2>1. PICK x : x = given[1]
    OBVIOUS
  <2>2. x \in Seq(S) /\ x # <<>>
    BY <1>2, <1>3, <2>1
  <2>3. Len(x) \in Nat /\ Len(x) # 0
    BY <2>2
  <2>4. QED
    BY <2>1, <2>3
<1>6. ASSUME NEW r \in 1 .. Len(given), NEW c \in 1 .. Len(given[1])
      PROVE  /\ given[r][c] \in Seq(Int) /\ Len(given[r][c]) = Len(given[1][1]) /\ Len(given[r][c]) \in Nat
             /\ DOMAIN given[r][c] = 1 .. Len(given[1][1])
  <2>1. PICK x : x = given[r][c]
    OBVIOUS
  <2>2. x \in Seq(Int)
    BY <1>1, <1>4, <2>1
  <2>3. Len(x) = Len(given[1][1])
    BY <1>3, <1>4, <2>1 DEF Writable
  <2>4. Len(x) \in Nat /\ DOMAIN x = 1 .. Len(x)
    BY <2>2
  <2>5. QED
    BY <2>1, <2>2, <2>3, <2>4
<1>7. Len(given[1][1]) \in Nat \ {0}
  <2>1. 1 \in 1 .. Len(given) /\ 1 \in 1 .. Len(given[1])
    BY <1>3, <1>5
  <2>2. Len(given[1][1]) \in Nat
    BY <1>6, <2>1
  <2>3. Len(given[1][1]) > 0
    BY DEF Writable
  <2>4. QED
    BY <2>2, <2>3
<1>8. ASSUME q = "float32", NEW r \in 1 .. Len(given), NEW c \in 1 .. Len(given[1]), NEW i \in 1 .. Len(given[1][1])
      PROVE  given[r][c][i] \in -(Values(4) \div 2) .. Values(4) \div 2 - 1
  <2>1. r \in DOMAIN given /\ c \in DOMAIN given[r] /\ i \in DOMAIN given[r][c]
    BY <1>3, <1>4, <1>6, <1>8
  <2>2. QED
    BY <1>8, <2>1 DEF Writable
<1>9. Len(given[1][1]) % Alignment = 0
  BY DEF Writable
<1>10. QED
  BY <1>3, <1>5, <1>6, <1>7, <1>8, <1>9 DEF AreResponses

\* The data of 24 bits are read on a machine of the other byte order as others.
ByteOrderIsServed == \A f \in Files : f.content = "IR" /\ f.quantization = "int24" => LittleEndian

\* The zone of a record is within the response, and coefficient i of the zone is
\* read as it was given.
Described(f, r, c) ==
  LET d == f.desc[<<r, c>>]
  IN  /\ d.zeros \in Nat /\ d.length \in Nat /\ d.zeros + d.length <= f.elements
      /\ d.length <= f.maxLength
      /\ ByteOrderIsServed =>
           \A i \in 0 .. d.length - 1 :
             /\ At(f, r, c, i) = Kept(f.quantization, f.given[r + 1][c + 1][d.zeros + i + 1])
             /\ At(f, r, c, i) \in Int

\* In a file that daffv17_write.m wrote, of any number of records, channels and
\* coefficients, the description of a record (DAFFReaderImpl.cpp) leads to its zone.
THEOREM WrittenResponse ==
  ASSUME NEW f \in Files, f.content = "IR"
  PROVE  /\ f.records \in Nat \ {0} /\ f.channels \in Nat \ {0}
         /\ f.elements \in Nat /\ f.maxLength \in Nat
         /\ \A r \in 0 .. f.records - 1, c \in 0 .. f.channels - 1 : Described(f, r, c)
<1>1. PICK given, threshold, q : given = f.given /\ threshold = f.threshold /\ q = f.quantization
  OBVIOUS
<1>2. Writable(given, threshold, q) /\ f = WriteIR(given, threshold, q)
  BY <1>1, FilesAssumption
<1>3. PICK n, m, l : n = Len(given) /\ m = Len(given[1]) /\ l = Len(given[1][1])
  OBVIOUS
<1>4. /\ n \in Nat \ {0} /\ m \in Nat \ {0} /\ l \in Nat \ {0} /\ l % Alignment = 0
      /\ \A r \in 1 .. n, c \in 1 .. m : given[r][c] \in Seq(Int) /\ Len(given[r][c]) = l
      /\ q = "float32" => \A r \in 1 .. n, c \in 1 .. m, i \in 1 .. l :
                            given[r][c][i] \in -(Values(4) \div 2) .. Values(4) \div 2 - 1
  <2>1. AreResponses(given, q)
    BY <1>2, ResponseType
  <2>2. QED
    BY <1>3, <2>1 DEF AreResponses
<1>5. PICK zone : zone = Zones(given, threshold)
  OBVIOUS
<1>6. PICK size \in Nat \ {0} : size = n * m
  BY <1>4
<1>7. PICK before : before = Before(zone, size)
  OBVIOUS
<1>8. PICK data : data = Stacked(given, zone)
  OBVIOUS
<1>9. /\ f.records = n /\ f.channels = m /\ f.elements = l
      /\ f.block = [i \in 1 .. Len(data) |-> Converted(q, Stored(q, data[i]))]
      /\ f.desc = [rc \in (0 .. n-1) \X (0 .. m-1) |->
                     LET k == rc[1] * m + rc[2]
                     IN  [offset |-> before[k], zeros |-> zone[k].zeros, length |-> zone[k].length]]
      /\ f.maxLength = Highest({zone[k].length : k \in DOMAIN zone})
  <2>1. WriteIR(given, threshold, q) =
          [content |-> "IR", records |-> n, channels |-> m, elements |-> l, quantization |-> q,
           block |-> [i \in 1 .. Len(data) |-> Converted(q, Stored(q, data[i]))],
           desc |-> [rc \in (0 .. n-1) \X (0 .. m-1) |->
                       LET k == rc[1] * m + rc[2]
                       IN  [offset |-> before[k], zeros |-> zone[k].zeros, length |-> zone[k].length]],
           maxLength |-> Highest({zone[k].length : k \in DOMAIN zone}),
           threshold |-> threshold, given |-> given]
    BY <1>3, <1>5, <1>6, <1>7, <1>8 DEF WriteIR
  <2>2. QED
    BY <1>2, <2>1
<1>10. ASSUME NEW k \in 0 .. size - 1
       PROVE  /\ Response(given, k) \in Seq(Int) /\ Len(Response(given, k)) = l
              /\ zone[k].zeros \in Nat /\ zone[k].length \in Nat
              /\ zone[k].zeros + zone[k].length <= l
  <2>1. PICK ir : ir = Response(given, k)
    OBVIOUS
  <2>2. ir = given[k \div m + 1][(k % m) + 1]
    BY <1>3, <2>1 DEF Response
  <2>3. k \div m \in 0 .. n - 1 /\ k % m \in 0 .. m - 1
    BY <1>4, <1>6, PairOf
  <2>4. k \div m + 1 \in 1 .. n /\ (k % m) + 1 \in 1 .. m
    BY <1>4, <2>3
  <2>5. ir \in Seq(Int) /\ Len(ir) = l
    BY <1>4, <2>2, <2>4
  <2>6. zone[k] = EffectiveZone(ir, threshold)
    BY <1>3, <1>5, <1>6, <2>1 DEF Zones
  <2>7. QED
    BY <1>4, <2>1, <2>5, <2>6, ZoneIsWithin
<1>11. IsZones(zone, size)
  BY <1>10 DEF IsZones
<1>12. /\ before \in [0 .. size -> Nat] /\ before[0] = 0
       /\ \A k \in 0 .. size - 1 : before[k + 1] = before[k] + zone[k].length
  BY <1>6, <1>7, <1>11, BeforeIs
<1>13. PICK s : s = [k \in 1 .. size |-> SubSeq(Response(given, k-1), zone[k-1].zeros + 1, zone[k-1].zeros + zone[k-1].length)]
  OBVIOUS
<1>14. data = FlattenSeq(s)
  BY <1>3, <1>6, <1>8, <1>13 DEF Stacked
<1>15. ASSUME NEW k \in 1 .. size
       PROVE  /\ s[k] \in Seq(Int) /\ Len(s[k]) = zone[k-1].length
              /\ \A i \in 1 .. zone[k-1].length : s[k][i] = Response(given, k-1)[zone[k-1].zeros + i]
  <2>1. k - 1 \in 0 .. size - 1
    OBVIOUS
  <2>2. PICK ir, a, b : ir = Response(given, k-1) /\ a = zone[k-1].zeros /\ b = zone[k-1].length
    OBVIOUS
  <2>3. ir \in Seq(Int) /\ a \in Nat /\ b \in Nat /\ a + b <= Len(ir)
    BY <1>10, <2>1, <2>2
  <2>4. s[k] = SubSeq(ir, a + 1, a + b)
    BY <1>13, <2>2
  <2>5. PICK t : t = SubSeq(ir, a + 1, a + b)
    OBVIOUS
  <2>6. t \in Seq(Int) /\ Len(t) = b /\ \A i \in 1 .. b : t[i] = ir[a + i]
    BY <2>3, <2>5, PartIs
  <2>7. QED
    BY <2>2, <2>4, <2>5, <2>6
<1>16. IsStack(size, s, before)
  <2>1. DOMAIN s = 1 .. size /\ Len(s) = size
    BY <1>13
  <2>2. ASSUME NEW k \in 1 .. size PROVE before[k] = before[k-1] + Len(s[k])
    <3>1. k - 1 \in 0 .. size - 1 /\ (k - 1) + 1 = k
      OBVIOUS
    <3>2. before[(k - 1) + 1] = before[k - 1] + zone[k - 1].length
      BY <1>12, <3>1
    <3>3. QED
      BY <1>15, <3>1, <3>2
  <2>3. QED
    BY <1>12, <1>15, <2>1, <2>2 DEF IsStack
<1>17. /\ Len(data) = before[size]
       /\ \A k \in 1 .. size : \A i \in 1 .. Len(s[k]) :
            before[k-1] + i \in 1 .. before[size] /\ data[before[k-1] + i] = s[k][i]
  BY <1>14, <1>16, FlattenAt
<1>18. before[size] \in Nat
  BY <1>12
<1>19. f.maxLength \in Nat /\ \A k \in 0 .. size - 1 : zone[k].length <= f.maxLength
  <2>1. DOMAIN zone = 0 .. size - 1 /\ 0 \in 0 .. size - 1
    BY <1>3, <1>5, <1>6 DEF Zones
  <2>2. PICK S : S = {zone[k].length : k \in DOMAIN zone}
    OBVIOUS
  <2>3. S \in SUBSET (0 .. l) /\ S # {}
    <3>1. ASSUME NEW k \in 0 .. size - 1 PROVE zone[k].length \in 0 .. l
      <4>1. PICK a, b : a = zone[k].zeros /\ b = zone[k].length
        OBVIOUS
      <4>2. a \in Nat /\ b \in Nat /\ a + b <= l
        BY <1>10, <4>1
      <4>3. QED
        BY <1>4, <4>1, <4>2
    <3>2. QED
      BY <2>1, <2>2, <3>1
  <2>4. Highest(S) \in S /\ \A j \in S : j <= Highest(S)
    BY <1>4, <2>3, HighestIs
  <2>5. f.maxLength = Highest(S)
    BY <1>9, <2>2
  <2>6. f.maxLength \in Nat
    <3>1. PICK x : x = Highest(S)
      OBVIOUS
    <3>2. x \in 0 .. l
      BY <2>3, <2>4, <3>1
    <3>3. x \in Nat
      BY <1>4, <3>2
    <3>4. QED
      BY <2>5, <3>1, <3>3
  <2>7. ASSUME NEW k \in 0 .. size - 1 PROVE zone[k].length <= f.maxLength
    <3>1. zone[k].length \in S
      BY <2>1, <2>2
    <3>2. QED
      BY <2>4, <2>5, <3>1
  <2>8. QED
    BY <2>6, <2>7
<1>20. ASSUME NEW r \in 0 .. n - 1, NEW c \in 0 .. m - 1
       PROVE  Described(f, r, c)
  <2>1. PICK k : k = r * m + c
    OBVIOUS
  <2>2. k \in 0 .. size - 1 /\ k \div m = r /\ k % m = c
    <3>1. n \in Nat /\ m \in Nat
      BY <1>4
    <3>2. r * m + c \in 0 .. n * m - 1 /\ (r * m + c) \div m = r /\ (r * m + c) % m = c
      BY <3>1, PairIn
    <3>3. QED
      BY <1>6, <2>1, <3>2
  <2>3. PICK d : d = f.desc[<<r, c>>]
    OBVIOUS
  <2>4. d = [offset |-> before[k], zeros |-> zone[k].zeros, length |-> zone[k].length]
    <3>1. <<r, c>> \in (0 .. n-1) \X (0 .. m-1)
      OBVIOUS
    <3>2. f.desc[<<r, c>>] = [offset |-> before[r * m + c], zeros |-> zone[r * m + c].zeros, length |-> zone[r * m + c].length]
      BY <1>9, <3>1
    <3>3. QED
      BY <2>1, <2>3, <3>2
  <2>5. d.offset = before[k] /\ d.zeros = zone[k].zeros /\ d.length = zone[k].length
    BY <2>4
  <2>6. ASSUME ByteOrderIsServed, NEW i \in 0 .. d.length - 1
        PROVE  /\ At(f, r, c, i) = Kept(q, given[r + 1][c + 1][d.zeros + i + 1])
               /\ At(f, r, c, i) \in Int
    <3>1. k + 1 \in 1 .. size /\ (k + 1) - 1 = k
      BY <2>2
    <3>2. PICK ir : ir = Response(given, k)
      OBVIOUS
    <3>3. ir = given[r + 1][c + 1] /\ ir \in Seq(Int) /\ Len(ir) = l
      BY <1>3, <1>10, <2>2, <3>2 DEF Response
    <3>4. s[k + 1] \in Seq(Int) /\ Len(s[k + 1]) = d.length /\ \A x \in 1 .. d.length : s[k + 1][x] = ir[d.zeros + x]
      <4>1. zone[(k + 1) - 1] = zone[k] /\ Response(given, (k + 1) - 1) = ir
        BY <3>1, <3>2
      <4>2. /\ s[k + 1] \in Seq(Int) /\ Len(s[k + 1]) = zone[(k + 1) - 1].length
            /\ \A x \in 1 .. zone[(k + 1) - 1].length :
                 s[k + 1][x] = Response(given, (k + 1) - 1)[zone[(k + 1) - 1].zeros + x]
        BY <1>15, <3>1
      <4>3. QED
        BY <2>5, <4>1, <4>2
    <3>5. d.zeros \in Nat /\ d.length \in Nat /\ d.zeros + d.length <= l
      BY <1>10, <2>2, <2>5
    <3>6. i + 1 \in 1 .. d.length /\ i \in Nat
      BY <3>5
    <3>7. before[k] \in Nat
      BY <1>12, <2>2
    <3>8. before[k] + (i + 1) \in 1 .. before[size] /\ data[before[k] + (i + 1)] = s[k + 1][i + 1]
      <4>1. before[(k + 1) - 1] = before[k] /\ i + 1 \in 1 .. Len(s[k + 1])
        BY <3>1, <3>4, <3>6
      <4>2. QED
        BY <1>17, <3>1, <4>1
    <3>9. PICK j : j = before[k] + i
      OBVIOUS
    <3>10. j + 1 = before[k] + (i + 1) /\ j < before[size] /\ j + 1 \in 1 .. before[size]
      BY <1>18, <3>6, <3>7, <3>8, <3>9
    <3>11. PICK v : v = ir[d.zeros + i + 1]
      OBVIOUS
    <3>12. d.zeros + (i + 1) = d.zeros + i + 1 /\ d.zeros + i + 1 \in 1 .. l
      <4>1. PICK a, b : a = d.zeros /\ b = d.length
        OBVIOUS
      <4>2. a \in Nat /\ b \in Nat /\ a + b <= l /\ i \in 0 .. b - 1
        BY <3>5, <4>1
      <4>3. QED
        BY <1>4, <4>1, <4>2
    <3>13. data[j + 1] = v
      <4>1. s[k + 1][i + 1] = ir[d.zeros + (i + 1)]
        BY <3>4, <3>6
      <4>2. QED
        BY <3>8, <3>10, <3>11, <3>12, <4>1
    <3>14. v \in Int
      <4>1. PICK p : p = d.zeros + i + 1
        OBVIOUS
      <4>2. p \in 1 .. Len(ir) /\ v = ir[p]
        BY <3>3, <3>11, <3>12, <4>1
      <4>3. QED
        BY <3>3, <4>2
    <3>15. f.block[j + 1] = Converted(q, Stored(q, v)) /\ Len(f.block) = before[size]
      <4>1. DOMAIN f.block = 1 .. before[size] /\ f.block[j + 1] = Converted(q, Stored(q, data[j + 1]))
        BY <1>9, <1>17, <3>10
      <4>2. Len(f.block) = before[size]
        BY <1>9, <1>17, <1>18
      <4>3. QED
        BY <3>13, <4>1, <4>2
    <3>16. At(f, r, c, i) = Converted(q, Stored(q, v))
      BY <2>3, <2>5, <3>9, <3>10, <3>15 DEF At
    <3>17. q \in {"int16", "int24", "float32"} /\ (q = "int24" => LittleEndian)
      BY <1>1, <1>2, <2>6 DEF Writable, ByteOrderIsServed
    <3>18. q = "float32" => v \in -(Values(4) \div 2) .. Values(4) \div 2 - 1
      <4>1. r + 1 \in 1 .. n /\ c + 1 \in 1 .. m
        BY <1>4
      <4>2. QED
        BY <1>4, <3>3, <3>11, <3>12, <4>1
    <3>19. Converted(q, Stored(q, v)) = Kept(q, v) /\ Kept(q, v) \in Int
      BY <3>14, <3>17, <3>18, SampleIsKept
    <3>20. QED
      BY <3>3, <3>11, <3>16, <3>19
  <2>7. /\ d.zeros \in Nat /\ d.length \in Nat /\ d.zeros + d.length <= f.elements
        /\ d.length <= f.maxLength
    BY <1>9, <1>10, <1>19, <2>2, <2>5
  <2>8. QED
    BY <1>1, <2>3, <2>6, <2>7 DEF Described
<1>21. QED
  BY <1>4, <1>9, <1>19, <1>20

\* Number i of a record of a spectrum lies i places behind those of the records and
\* channels before it.
LEMMA WrittenSpectrum ==
  ASSUME NEW f \in Files, f.content # "IR"
  PROVE  /\ f.content \in {"MS", "PS", "MPS", "DFT"}
         /\ f.records \in Nat \ {0} /\ f.channels \in Nat \ {0} /\ f.elements \in Nat \ {0}
         /\ PerElement(f.content) \in {1, 2}
         /\ \A r \in 0 .. f.records - 1, c \in 0 .. f.channels - 1 :
              /\ HomeOf(f, r, c) \in Nat
              /\ \A i \in 0 .. PerElement(f.content) * f.elements - 1 : At(f, r, c, i) = HomeOf(f, r, c) + i
<1>1. PICK n, m, e, p : n = f.records /\ m = f.channels /\ e = f.elements /\ p = PerElement(f.content)
  OBVIOUS
<1>2. /\ f.content \in {"MS", "PS", "MPS", "DFT"}
      /\ n \in Nat \ {0} /\ m \in Nat \ {0} /\ e \in Nat \ {0}
      /\ f = WriteSpectrum(f.content, n, m, e)
  BY <1>1, FilesAssumption
<1>3. p \in {1, 2}
  BY <1>1 DEF PerElement
<1>4. PICK size \in Nat \ {0} : size = p * e
  BY <1>2, <1>3
<1>5. /\ f.block = [i \in 1 .. n * m * size |-> i - 1]
      /\ f.desc = [rc \in (0 .. n-1) \X (0 .. m-1) |-> [offset |-> (rc[1] * m + rc[2]) * size]]
  <2>1. WriteSpectrum(f.content, n, m, e) =
          [content |-> f.content, records |-> n, channels |-> m, elements |-> e, quantization |-> "float32",
           block |-> [i \in 1 .. n * m * size |-> i - 1],
           desc |-> [rc \in (0 .. n-1) \X (0 .. m-1) |-> [offset |-> (rc[1] * m + rc[2]) * size]]]
    BY <1>1, <1>4 DEF WriteSpectrum
  <2>2. QED
    BY <1>2, <2>1
<1>6. ASSUME NEW r \in 0 .. n - 1, NEW c \in 0 .. m - 1
      PROVE  /\ HomeOf(f, r, c) \in Nat
             /\ \A i \in 0 .. size - 1 : At(f, r, c, i) = HomeOf(f, r, c) + i
  <2>1. PICK k : k = r * m + c
    OBVIOUS
  <2>2. PICK t \in Nat : t = n * m
    BY <1>2
  <2>3. k \in 0 .. t - 1
    BY <1>2, <2>1, <2>2, PairIn
  <2>4. HomeOf(f, r, c) = k * size /\ k * size \in Nat
    <3>1. HomeOf(f, r, c) = k * p * e
      BY <1>1, <2>1 DEF HomeOf
    <3>2. k * p * e = k * (p * e) /\ k * size \in Nat
      BY <1>2, <1>3, <1>4, <2>3
    <3>3. QED
      BY <1>4, <3>1, <3>2
  <2>5. f.desc[<<r, c>>].offset = k * size
    <3>1. <<r, c>> \in (0 .. n-1) \X (0 .. m-1)
      OBVIOUS
    <3>2. QED
      BY <1>5, <2>1, <3>1
  <2>6. ASSUME NEW i \in 0 .. size - 1 PROVE At(f, r, c, i) = k * size + i
    <3>1. PICK j : j = k * size + i
      OBVIOUS
    <3>2. j \in 0 .. t * size - 1 /\ t * size \in Nat
      BY <1>4, <2>2, <2>3, <3>1, PairIn
    <3>3. Len(f.block) = t * size /\ f.block[j + 1] = j
      <4>1. f.block = [x \in 1 .. t * size |-> x - 1]
        BY <1>5, <2>2
      <4>2. j + 1 \in 1 .. t * size /\ (j + 1) - 1 = j
        BY <3>2
      <4>3. QED
        BY <3>2, <4>1, <4>2
    <3>4. j < t * size
      BY <3>2
    <3>5. QED
      BY <2>5, <3>1, <3>3, <3>4 DEF At
  <2>7. QED
    BY <2>4, <2>6
<1>7. QED
  BY <1>1, <1>2, <1>3, <1>4, <1>6

-----------------------------------------------------------------------------
(* Records: what the client has received.                                    *)

\* A buffer of the right size with its guard cells.
LEMMA GuardCells ==
  ASSUME NEW n \in Nat PROVE Cardinality(0 .. n + 3) - 4 = n
<1>1. 0 \in Int /\ n + 3 \in Int /\ ~(0 > n + 3) /\ (n + 3) - 0 + 1 = n + 4
  OBVIOUS
<1>2. Cardinality(0 .. n + 3) = n + 4
  BY <1>1, FS_Interval
<1>3. QED
  BY <1>2

Recorded(f, d, history) ==
  history # <<>> /\ history[1].name = "filter" =>
    /\ DOMAIN d = 0 .. f.elements + 3
    /\ ~InvalidIndex(f, history[1].record, history[1].channel)
    /\ history[1].arg \in Gains

RecInv ==
  /\ file \in Files
  /\ calls \in {<<>>, <<calls[1]>>, <<calls[1], calls[2]>>}
  /\ calls # <<>> => (file.content = "IR" <=> calls[1].name \in {"filter", "effective"})
  /\ Answered => Recorded(file, dest, calls)
  /\ NothingBehindTheBuffer
  /\ ByteOrderIsServed => CoefficientsKeepTheirPlace
  /\ SpectraAgree

LEMMA RecInitInv == Init => RecInv
<1> SUFFICES ASSUME Init PROVE RecInv
  OBVIOUS
<1>1. NothingBehindTheBuffer
  <2>1. \A i \in DOMAIN dest : dest[i] = Dirty
    BY DEF Init, Fresh
  <2>2. QED
    BY <2>1 DEF NothingBehindTheBuffer
<1>2. QED
  BY <1>1 DEF Init, RecInv, Recorded, CoefficientsKeepTheirPlace, SpectraAgree, Answered

SpectrumCalls == {"magnitudes", "phases", "magnitude", "phase", "pairs", "pair", "polar"}

\* Only loops over combined spectra write behind a buffer.
LEMMA ExcessIs ==
  /\ \A f, name : Excess(f, name) \in {0, 1, 2}
  /\ \A f, name : f.content # "MPS" => Excess(f, name) = 0
BY DEF Excess

LEMMA SpectrumReceived ==
  ASSUME RecInv, file.content # "IR", NEW n \in Nat, NEW answer,
         NEW name \in SpectrumCalls, NEW r, NEW c, NEW k,
         Receive(answer, Fresh(n), <<Call(name, r, c, k)>>),
         \A i \in DOMAIN answer.cells : i \in Int /\ i < n + Excess(file, name),
         answer.code = "DAFF_NO_ERROR" => Owed(file, Call(name, r, c, k), Overlay(Fresh(n), answer.cells))
  PROVE  RecInv'
<1>1. /\ file' = file /\ code' = answer.code /\ dest' = Overlay(Fresh(n), answer.cells)
      /\ calls' = <<Call(name, r, c, k)>>
  BY DEF Receive
<1>2. PICK call : call = Call(name, r, c, k)
  OBVIOUS
<1>3. call.name = name /\ calls' = <<call>> /\ calls' # <<>> /\ calls'[1] = call
  BY <1>1, <1>2 DEF Call
<1>4. name # "filter" /\ name # "effective"
  BY DEF SpectrumCalls
<1>5. NothingBehindTheBuffer'
  <2>1. DOMAIN Fresh(n) = 0 .. n + 3 /\ \A i \in 0 .. n + 3 : Fresh(n)[i] = Dirty
    BY DEF Fresh
  <2>2. /\ DOMAIN dest' = 0 .. n + 3 /\ Cardinality(DOMAIN dest') - 4 = n
        /\ \A i \in 0 .. n + 3 : i \notin DOMAIN answer.cells => dest'[i] = Dirty
    <3>1. PICK buffer, cells : buffer = Fresh(n) /\ cells = answer.cells
      OBVIOUS
    <3>2. dest' = [i \in 0 .. n + 3 |-> IF i \in DOMAIN cells THEN cells[i] ELSE buffer[i]]
      BY <1>1, <2>1, <3>1 DEF Overlay
    <3>3. QED
      BY <2>1, <3>1, <3>2, GuardCells
  <2>3. PICK x \in Nat : x = Excess(file, name)
    BY ExcessIs
  <2>4. \A i : BehindTheBuffer(i)' <=> i >= n + x
    BY <1>1, <1>3, <2>2, <2>3 DEF BehindTheBuffer
  <2>5. ASSUME NEW i \in DOMAIN dest', BehindTheBuffer(i)'
        PROVE  dest'[i] = Dirty
    BY <2>2, <2>3, <2>4, <2>5
  <2>6. QED
    BY <2>5 DEF NothingBehindTheBuffer
<1>6. SpectraAgree'
  <2>1. ASSUME code' = "DAFF_NO_ERROR" PROVE Owed(file, call, dest')
    BY <1>1, <1>2, <2>1
  <2>2. QED
    BY <1>1, <1>3, <1>5, <2>1 DEF SpectraAgree, Answered
<1>7. CoefficientsKeepTheirPlace'
  BY <1>3, <1>4 DEF CoefficientsKeepTheirPlace
<1>8. QED
  BY <1>1, <1>3, <1>4, <1>5, <1>6, <1>7 DEF RecInv, Recorded, Answered

LEMMA IsValid ==
  ASSUME NEW f, NEW r, NEW c, ~InvalidIndex(f, r, c)
  PROVE  r \in 0 .. f.records - 1 /\ c \in 0 .. f.channels - 1
BY DEF InvalidIndex

\* One number, as getMagnitude and getPhase answer it and as getMagnitudes and
\* getPhases do.
LEMMA SingleIs ==
  ASSUME NEW f, NEW r, NEW c, ~InvalidIndex(f, r, c), NEW k \in 0 .. f.elements - 1
  PROVE  /\ f.content = "MS" => Single(f, "magnitudes", r, c, k) = At(f, r, c, k)
         /\ f.content = "PS" => Single(f, "phases", r, c, k) = At(f, r, c, k)
         /\ f.content = "MPS" => /\ Single(f, "magnitudes", r, c, k) = At(f, r, c, 2 * k)
                                /\ Single(f, "phases", r, c, k) = At(f, r, c, 2 * k + 1)
BY DEF Single, getMagnitude, getPhase, Answer

LEMMA WholeIs ==
  ASSUME NEW f \in Files, f.content # "IR", NEW r, NEW c, ~InvalidIndex(f, r, c),
         NEW k \in 0 .. f.elements - 1
  PROVE  /\ f.content = "MS" => Whole(f, "magnitude", r, c, k) = At(f, r, c, k)
         /\ f.content = "PS" => Whole(f, "phase", r, c, k) = At(f, r, c, k)
         /\ f.content = "MPS" => /\ Whole(f, "magnitude", r, c, k) = At(f, r, c, 2 * k)
                                /\ Whole(f, "phase", r, c, k) = At(f, r, c, 2 * k + 1)
<1>1. f.elements \in Nat
  BY WrittenSpectrum
<1>2. k \in 0 .. f.elements
  BY <1>1
<1>3. QED
  BY <1>2 DEF Whole, getMagnitudes, getPhases, Answer

\* Numbers of one kind, with or without the one frequency too many.
ListAnswer(f, name, r, c, answer) ==
  LET n == PerElement(f.content)
      part == IF n = 2 /\ name = "phases" THEN 1 ELSE 0
      last == IF f.content = "MPS" THEN f.elements ELSE f.elements - 1
  IN  \/ answer.code # "DAFF_NO_ERROR" /\ DOMAIN answer.cells = {}
      \/ /\ ~InvalidIndex(f, r, c) /\ f.content # "DFT"
         /\ answer.cells = [i \in 0 .. last |-> At(f, r, c, n * i + part)]
         /\ \A k \in 0 .. f.elements - 1 : Single(f, name, r, c, k) = At(f, r, c, n * k + part)

LEMMA ListReceived ==
  ASSUME RecInv, file.content # "IR", NEW name \in {"magnitudes", "phases"}, NEW r, NEW c, NEW answer,
         ListAnswer(file, name, r, c, answer),
         Receive(answer, Fresh(file.elements), <<Call(name, r, c, 1)>>)
  PROVE  RecInv'
<1>1. PICK e \in Nat \ {0} : e = file.elements
  BY WrittenSpectrum DEF RecInv
<1>2. PICK n \in {1, 2} : n = PerElement(file.content)
  BY WrittenSpectrum DEF RecInv
<1>3. PICK part : part = IF n = 2 /\ name = "phases" THEN 1 ELSE 0
  OBVIOUS
<1>4. PICK last : last = IF file.content = "MPS" THEN e ELSE e - 1
  OBVIOUS
<1>5. \/ answer.code # "DAFF_NO_ERROR" /\ DOMAIN answer.cells = {}
      \/ /\ ~InvalidIndex(file, r, c) /\ file.content # "DFT"
         /\ answer.cells = [i \in 0 .. last |-> At(file, r, c, n * i + part)]
         /\ \A k \in 0 .. e - 1 : Single(file, name, r, c, k) = At(file, r, c, n * k + part)
  BY <1>1, <1>2, <1>3, <1>4 DEF ListAnswer
<1>6. \A i \in DOMAIN answer.cells : i \in Int /\ i < e + Excess(file, name)
  <2>1. /\ file.content = "MPS" => Excess(file, name) = 1
        /\ file.content # "MPS" => Excess(file, name) = 0
    BY DEF Excess
  <2>2. QED
    BY <1>4, <1>5, <2>1
<1>7. ASSUME answer.code = "DAFF_NO_ERROR"
      PROVE  Owed(file, Call(name, r, c, 1), Overlay(Fresh(e), answer.cells))
  <2>1. PICK d : d = Overlay(Fresh(e), answer.cells)
    OBVIOUS
  <2>2. r \in 0 .. file.records - 1 /\ c \in 0 .. file.channels - 1
    BY <1>5, <1>7, IsValid
  <2>3. PICK home \in Nat : /\ home = HomeOf(file, r, c)
                            /\ \A i \in 0 .. n * e - 1 : At(file, r, c, i) = home + i
    <3>1. file \in Files
      BY DEF RecInv
    <3>2. QED
      BY <1>1, <1>2, <2>2, <3>1, WrittenSpectrum
  <2>4. ASSUME NEW i \in 0 .. e - 1
        PROVE  IsOf(file, r, c, i, d[i]) /\ d[i] = Single(file, name, r, c, i)
    <3>1. i \in 0 .. last /\ i \in 0 .. e + 3 /\ i \in DOMAIN answer.cells
      BY <1>4, <1>5, <1>7
    <3>2. d[i] = answer.cells[i]
      BY <2>1, <3>1 DEF Overlay, Fresh
    <3>3. d[i] = At(file, r, c, n * i + part) /\ d[i] = Single(file, name, r, c, i)
      BY <1>5, <1>7, <3>1, <3>2
    <3>4. n * i + part \in 0 .. n * e - 1 /\ home + (n * i + part) = home + n * i + part
      BY <1>3
    <3>5. d[i] = home + n * i + part
      BY <2>3, <3>3, <3>4
    <3>6. n = 1 <=> file.content # "MPS"
      BY <1>2, <1>5, <1>7 DEF PerElement
    <3>7. IsOf(file, r, c, i, d[i])
      BY <1>2, <1>3, <2>3, <3>5, <3>6 DEF IsOf
    <3>8. QED
      BY <3>3, <3>7
  <2>5. PICK call : call = Call(name, r, c, 1)
    OBVIOUS
  <2>6. call.name = name /\ call.record = r /\ call.channel = c
    BY <2>5 DEF Call
  <2>7. Owed(file, call, d)
    BY <1>1, <2>4, <2>6 DEF Owed
  <2>8. QED
    BY <2>1, <2>5, <2>7
<1>8. name \in SpectrumCalls
  BY DEF SpectrumCalls
<1>9. QED
  BY <1>1, <1>6, <1>7, <1>8, SpectrumReceived

LEMMA MagnitudesAreListed ==
  ASSUME NEW f \in Files, f.content # "IR", NEW r, NEW c
  PROVE  ListAnswer(f, "magnitudes", r, c, getMagnitudes(f, r, c))
<1>1. f.content \in {"MS", "PS", "MPS", "DFT"} /\ f.elements \in Nat
  BY WrittenSpectrum
<1>2. PICK answer, e : answer = getMagnitudes(f, r, c) /\ e = f.elements
  OBVIOUS
<1>3. CASE InvalidIndex(f, r, c) \/ f.content \in {"PS", "DFT"}
  BY <1>3 DEF getMagnitudes, Modal, Answer, Nothing, ListAnswer
<1>4. CASE ~InvalidIndex(f, r, c) /\ f.content = "MS"
  <2>1. answer.cells = [i \in 0 .. e - 1 |-> At(f, r, c, i)]
    BY <1>2, <1>4 DEF getMagnitudes, Answer
  <2>2. \A i \in 0 .. e - 1 : 1 * i + 0 = i
    OBVIOUS
  <2>3. answer.cells = [i \in 0 .. e - 1 |-> At(f, r, c, 1 * i + 0)]
    BY <2>1, <2>2
  <2>4. PerElement(f.content) = 1
    BY <1>4 DEF PerElement
  <2>5. ASSUME NEW k \in 0 .. e - 1
        PROVE  Single(f, "magnitudes", r, c, k) = At(f, r, c, 1 * k + 0)
    BY <1>2, <1>4, <2>2, SingleIs
  <2>6. QED
    BY <1>2, <1>4, <2>3, <2>4, <2>5 DEF ListAnswer
<1>5. CASE ~InvalidIndex(f, r, c) /\ f.content = "MPS"
  <2>1. answer.cells = [i \in 0 .. e |-> At(f, r, c, 2 * i)]
    BY <1>2, <1>5 DEF getMagnitudes, Answer
  <2>2. \A i \in 0 .. e : 2 * i + 0 = 2 * i
    BY <1>1, <1>2
  <2>3. answer.cells = [i \in 0 .. e |-> At(f, r, c, 2 * i + 0)]
    BY <2>1, <2>2
  <2>4. PerElement(f.content) = 2
    BY <1>5 DEF PerElement
  <2>5. ASSUME NEW k \in 0 .. e - 1
        PROVE  Single(f, "magnitudes", r, c, k) = At(f, r, c, 2 * k + 0)
    <3>1. 2 * k + 0 = 2 * k
      OBVIOUS
    <3>2. QED
      BY <1>2, <1>5, <3>1, SingleIs
  <2>6. QED
    BY <1>2, <1>5, <2>3, <2>4, <2>5 DEF ListAnswer
<1>6. QED
  BY <1>1, <1>3, <1>4, <1>5

LEMMA GetMagnitudesInv ==
  ASSUME RecInv, NEW r, NEW c, GetMagnitudes(r, c) PROVE RecInv'
<1>1. file \in Files /\ file.content # "IR"
  BY DEF RecInv, GetMagnitudes
<1>2. PICK answer : answer = getMagnitudes(file, r, c)
  OBVIOUS
<1>3. ListAnswer(file, "magnitudes", r, c, answer)
  BY <1>1, <1>2, MagnitudesAreListed
<1>4. Receive(answer, Fresh(file.elements), <<Call("magnitudes", r, c, 1)>>)
  BY <1>2 DEF GetMagnitudes
<1>5. QED
  BY <1>1, <1>3, <1>4, ListReceived

LEMMA PhasesAreListed ==
  ASSUME NEW f \in Files, f.content # "IR", NEW r, NEW c
  PROVE  ListAnswer(f, "phases", r, c, getPhases(f, r, c))
<1>1. f.content \in {"MS", "PS", "MPS", "DFT"} /\ f.elements \in Nat
  BY WrittenSpectrum
<1>2. PICK answer, e : answer = getPhases(f, r, c) /\ e = f.elements
  OBVIOUS
<1>3. CASE InvalidIndex(f, r, c) \/ f.content \in {"MS", "DFT"}
  BY <1>3 DEF getPhases, Modal, Answer, Nothing, ListAnswer
<1>4. CASE ~InvalidIndex(f, r, c) /\ f.content = "PS"
  <2>1. answer.cells = [i \in 0 .. e - 1 |-> At(f, r, c, i)]
    BY <1>2, <1>4 DEF getPhases, Answer
  <2>2. \A i \in 0 .. e - 1 : 1 * i + 0 = i
    OBVIOUS
  <2>3. answer.cells = [i \in 0 .. e - 1 |-> At(f, r, c, 1 * i + 0)]
    BY <2>1, <2>2
  <2>4. PerElement(f.content) = 1
    BY <1>4 DEF PerElement
  <2>5. ASSUME NEW k \in 0 .. e - 1
        PROVE  Single(f, "phases", r, c, k) = At(f, r, c, 1 * k + 0)
    BY <1>2, <1>4, <2>2, SingleIs
  <2>6. QED
    BY <1>2, <1>4, <2>3, <2>4, <2>5 DEF ListAnswer
<1>5. CASE ~InvalidIndex(f, r, c) /\ f.content = "MPS"
  <2>1. answer.cells = [i \in 0 .. e |-> At(f, r, c, 2 * i + 1)]
    BY <1>2, <1>5 DEF getPhases, Answer
  <2>2. PerElement(f.content) = 2
    BY <1>5 DEF PerElement
  <2>3. ASSUME NEW k \in 0 .. e - 1
        PROVE  Single(f, "phases", r, c, k) = At(f, r, c, 2 * k + 1)
    BY <1>2, <1>5, SingleIs
  <2>4. QED
    BY <1>2, <1>5, <2>1, <2>2, <2>3 DEF ListAnswer
<1>6. QED
  BY <1>1, <1>3, <1>4, <1>5

LEMMA GetPhasesInv ==
  ASSUME RecInv, NEW r, NEW c, GetPhases(r, c) PROVE RecInv'
<1>1. file \in Files /\ file.content # "IR"
  BY DEF RecInv, GetPhases
<1>2. PICK answer : answer = getPhases(file, r, c)
  OBVIOUS
<1>3. ListAnswer(file, "phases", r, c, answer)
  BY <1>1, <1>2, PhasesAreListed
<1>4. Receive(answer, Fresh(file.elements), <<Call("phases", r, c, 1)>>)
  BY <1>2 DEF GetPhases
<1>5. QED
  BY <1>1, <1>3, <1>4, ListReceived

\* One number of a record.
NumberAnswer(f, name, r, c, k, answer) ==
  LET n == PerElement(f.content)
      part == IF n = 2 /\ name = "phase" THEN 1 ELSE 0
  IN  \/ answer.code # "DAFF_NO_ERROR" /\ DOMAIN answer.cells = {}
      \/ /\ ~InvalidIndex(f, r, c) /\ k \in 0 .. f.elements - 1 /\ f.content # "DFT"
         /\ answer.cells = [i \in {0} |-> At(f, r, c, n * k + part)]
         /\ Whole(f, name, r, c, k) = At(f, r, c, n * k + part)

LEMMA NumberReceived ==
  ASSUME RecInv, file.content # "IR", NEW name \in {"magnitude", "phase"}, NEW r, NEW c, NEW k, NEW answer,
         NumberAnswer(file, name, r, c, k, answer),
         Receive(answer, Fresh(1), <<Call(name, r, c, k)>>)
  PROVE  RecInv'
<1>1. PICK e \in Nat \ {0} : e = file.elements
  BY WrittenSpectrum DEF RecInv
<1>2. PICK n \in {1, 2} : n = PerElement(file.content)
  BY WrittenSpectrum DEF RecInv
<1>3. PICK part \in {0, 1} : part = (IF n = 2 /\ name = "phase" THEN 1 ELSE 0)
  OBVIOUS
<1>4. \/ answer.code # "DAFF_NO_ERROR" /\ DOMAIN answer.cells = {}
      \/ /\ ~InvalidIndex(file, r, c) /\ k \in 0 .. e - 1 /\ file.content # "DFT"
         /\ answer.cells = [i \in {0} |-> At(file, r, c, n * k + part)]
         /\ Whole(file, name, r, c, k) = At(file, r, c, n * k + part)
  BY <1>1, <1>2, <1>3 DEF NumberAnswer
<1>5. \A i \in DOMAIN answer.cells : i \in Int /\ i < 1 + Excess(file, name)
  <2>1. PICK x \in Nat : x = Excess(file, name)
    BY ExcessIs
  <2>2. \A i \in DOMAIN answer.cells : i = 0
    BY <1>4
  <2>3. QED
    BY <2>1, <2>2
<1>6. ASSUME answer.code = "DAFF_NO_ERROR"
      PROVE  Owed(file, Call(name, r, c, k), Overlay(Fresh(1), answer.cells))
  <2>1. PICK d : d = Overlay(Fresh(1), answer.cells)
    OBVIOUS
  <2>2. r \in 0 .. file.records - 1 /\ c \in 0 .. file.channels - 1 /\ k \in 0 .. e - 1
    BY <1>4, <1>6, IsValid
  <2>3. PICK home \in Nat : /\ home = HomeOf(file, r, c)
                            /\ \A i \in 0 .. n * e - 1 : At(file, r, c, i) = home + i
    <3>1. file \in Files
      BY DEF RecInv
    <3>2. QED
      BY <1>1, <1>2, <2>2, <3>1, WrittenSpectrum
  <2>4. d[0] = home + n * k + part /\ d[0] = Whole(file, name, r, c, k)
    <3>1. /\ 0 \in DOMAIN answer.cells /\ answer.cells[0] = At(file, r, c, n * k + part)
          /\ answer.cells[0] = Whole(file, name, r, c, k)
      BY <1>4, <1>6
    <3>2. d[0] = answer.cells[0]
      BY <2>1, <3>1 DEF Overlay, Fresh
    <3>3. n * k + part \in 0 .. n * e - 1 /\ home + (n * k + part) = home + n * k + part
      BY <1>3, <2>2
    <3>4. QED
      BY <2>3, <3>1, <3>2, <3>3
  <2>5. IsOf(file, r, c, k, d[0])
    <3>1. n = 1 <=> file.content # "MPS"
      BY <1>2, <1>4, <1>6 DEF PerElement
    <3>2. k \in Nat
      BY <2>2
    <3>3. QED
      BY <1>2, <1>3, <2>3, <2>4, <3>1, <3>2 DEF IsOf
  <2>6. PICK call : call = Call(name, r, c, k)
    OBVIOUS
  <2>7. call.name = name /\ call.record = r /\ call.channel = c /\ call.arg = k
    BY <2>6 DEF Call
  <2>8. Owed(file, call, d)
    BY <2>4, <2>5, <2>7 DEF Owed
  <2>9. QED
    BY <2>1, <2>6, <2>8
<1>7. name \in SpectrumCalls
  BY DEF SpectrumCalls
<1>8. QED
  BY <1>5, <1>6, <1>7, SpectrumReceived

LEMMA MagnitudeIsNumber ==
  ASSUME NEW f \in Files, f.content # "IR", NEW r, NEW c, NEW k \in Int
  PROVE  NumberAnswer(f, "magnitude", r, c, k, getMagnitude(f, r, c, k))
<1>1. f.content \in {"MS", "PS", "MPS", "DFT"}
  BY WrittenSpectrum
<1>2. PICK answer : answer = getMagnitude(f, r, c, k)
  OBVIOUS
<1>3. CASE InvalidIndex(f, r, c) \/ f.content \notin {"MS", "MPS"} \/ k \notin 0 .. f.elements-1
  BY <1>3 DEF getMagnitude, Modal, Answer, Nothing, NumberAnswer
<1>4. CASE ~InvalidIndex(f, r, c) /\ f.content \in {"MS", "MPS"} /\ k \in 0 .. f.elements-1
  <2>1. PICK j : j = IF f.content = "MS" THEN k ELSE 2 * k
    OBVIOUS
  <2>2. answer.cells = [i \in {0} |-> At(f, r, c, j)]
    BY <1>2, <1>4, <2>1 DEF getMagnitude, Answer
  <2>3. j = PerElement(f.content) * k + 0
    BY <1>4, <2>1 DEF PerElement
  <2>4. Whole(f, "magnitude", r, c, k) = At(f, r, c, j)
    BY <1>4, <2>1, WholeIs
  <2>5. QED
    BY <1>2, <1>4, <2>2, <2>3, <2>4 DEF NumberAnswer
<1>5. QED
  BY <1>3, <1>4

LEMMA PhaseIsNumber ==
  ASSUME NEW f \in Files, f.content # "IR", NEW r, NEW c, NEW k \in Int
  PROVE  NumberAnswer(f, "phase", r, c, k, getPhase(f, r, c, k))
<1>1. f.content \in {"MS", "PS", "MPS", "DFT"}
  BY WrittenSpectrum
<1>2. PICK answer : answer = getPhase(f, r, c, k)
  OBVIOUS
<1>3. CASE InvalidIndex(f, r, c) \/ f.content \notin {"PS", "MPS"} \/ k \notin 0 .. f.elements-1
  BY <1>3 DEF getPhase, Modal, Answer, Nothing, NumberAnswer
<1>4. CASE ~InvalidIndex(f, r, c) /\ f.content \in {"PS", "MPS"} /\ k \in 0 .. f.elements-1
  <2>1. PICK j : j = IF f.content = "PS" THEN k ELSE 2 * k + 1
    OBVIOUS
  <2>2. answer.cells = [i \in {0} |-> At(f, r, c, j)]
    BY <1>2, <1>4, <2>1 DEF getPhase, Answer
  <2>3. PICK part : part = IF PerElement(f.content) = 2 THEN 1 ELSE 0
    OBVIOUS
  <2>4. j = PerElement(f.content) * k + part
    BY <1>4, <2>1, <2>3 DEF PerElement
  <2>5. Whole(f, "phase", r, c, k) = At(f, r, c, j)
    BY <1>4, <2>1, WholeIs
  <2>6. QED
    BY <1>2, <1>4, <2>2, <2>3, <2>4, <2>5 DEF NumberAnswer
<1>5. QED
  BY <1>3, <1>4

LEMMA GetMagnitudeInv ==
  ASSUME RecInv, NEW r, NEW c, NEW k \in Int, GetMagnitude(r, c, k) PROVE RecInv'
<1>1. file \in Files /\ file.content # "IR"
  BY DEF RecInv, GetMagnitude
<1>2. PICK answer : answer = getMagnitude(file, r, c, k)
  OBVIOUS
<1>3. NumberAnswer(file, "magnitude", r, c, k, answer)
  BY <1>1, <1>2, MagnitudeIsNumber
<1>4. Receive(answer, Fresh(1), <<Call("magnitude", r, c, k)>>)
  BY <1>2 DEF GetMagnitude
<1>5. QED
  BY <1>1, <1>3, <1>4, NumberReceived

LEMMA GetPhaseInv ==
  ASSUME RecInv, NEW r, NEW c, NEW k \in Int, GetPhase(r, c, k) PROVE RecInv'
<1>1. file \in Files /\ file.content # "IR"
  BY DEF RecInv, GetPhase
<1>2. PICK answer : answer = getPhase(file, r, c, k)
  OBVIOUS
<1>3. NumberAnswer(file, "phase", r, c, k, answer)
  BY <1>1, <1>2, PhaseIsNumber
<1>4. Receive(answer, Fresh(1), <<Call("phase", r, c, k)>>)
  BY <1>2 DEF GetPhase
<1>5. QED
  BY <1>1, <1>3, <1>4, NumberReceived

\* Whole records of pairs, as they are stored.
LEMMA PairsReceived ==
  ASSUME RecInv, PerElement(file.content) = 2, NEW r, NEW c, NEW answer, answer = Pairs(file, r, c),
         Receive(answer, Fresh(2 * file.elements), <<Call("pairs", r, c, 1)>>)
  PROVE  RecInv'
<1>1. file.content # "IR" /\ PerElement(file.content) = 2 /\ file \in Files
  BY DEF PerElement, RecInv
<1>2. PICK e \in Nat \ {0} : e = file.elements
  BY <1>1, WrittenSpectrum DEF RecInv
<1>3. PICK n \in Nat : n = 2 * e
  BY <1>2
<1>4. \/ answer.code # "DAFF_NO_ERROR" /\ DOMAIN answer.cells = {}
      \/ ~InvalidIndex(file, r, c) /\ answer.cells = [i \in 0 .. n - 1 |-> At(file, r, c, i)]
  BY <1>2, <1>3 DEF Pairs, Checked, Answer, Nothing
<1>5. \A i \in DOMAIN answer.cells : i \in Int /\ i < n + Excess(file, "pairs")
  <2>1. PICK x \in Nat : x = Excess(file, "pairs")
    BY ExcessIs
  <2>2. \A i \in DOMAIN answer.cells : i \in 0 .. n - 1
    BY <1>4
  <2>3. QED
    BY <2>1, <2>2
<1>6. ASSUME answer.code = "DAFF_NO_ERROR"
      PROVE  Owed(file, Call("pairs", r, c, 1), Overlay(Fresh(n), answer.cells))
  <2>1. PICK d : d = Overlay(Fresh(n), answer.cells)
    OBVIOUS
  <2>2. r \in 0 .. file.records - 1 /\ c \in 0 .. file.channels - 1
    BY <1>4, <1>6, IsValid
  <2>3. PICK home \in Nat : /\ home = HomeOf(file, r, c)
                            /\ \A i \in 0 .. 2 * e - 1 : At(file, r, c, i) = home + i
    BY <1>1, <1>2, <2>2, WrittenSpectrum
  <2>4. ASSUME NEW i \in 0 .. n - 1 PROVE d[i] = home + i
    <3>1. i \in DOMAIN answer.cells /\ answer.cells[i] = At(file, r, c, i)
      BY <1>4, <1>6
    <3>2. d[i] = answer.cells[i]
      BY <2>1, <3>1 DEF Overlay, Fresh
    <3>3. QED
      BY <1>3, <2>3, <3>1, <3>2
  <2>5. PICK call : call = Call("pairs", r, c, 1)
    OBVIOUS
  <2>6. call.name = "pairs" /\ call.record = r /\ call.channel = c
    BY <2>5 DEF Call
  <2>7. Owed(file, call, d)
    BY <1>2, <1>3, <2>3, <2>4, <2>6 DEF Owed
  <2>8. QED
    BY <2>1, <2>5, <2>7
<1>7. "pairs" \in SpectrumCalls
  BY DEF SpectrumCalls
<1>8. Receive(answer, Fresh(n), <<Call("pairs", r, c, 1)>>)
  BY <1>2, <1>3
<1>9. QED
  BY <1>1, <1>5, <1>6, <1>7, <1>8, SpectrumReceived

LEMMA GetCoefficientsRIInv ==
  ASSUME RecInv, NEW r, NEW c, GetCoefficientsRI(r, c) PROVE RecInv'
BY PairsReceived DEF GetCoefficientsRI, getCoefficientsRI, PerElement

LEMMA GetDFTCoeffsInv ==
  ASSUME RecInv, NEW r, NEW c, GetDFTCoeffs(r, c) PROVE RecInv'
BY PairsReceived DEF GetDFTCoeffs, getDFTCoeffs, PerElement

LEMMA GetDFTCoeffInv ==
  ASSUME RecInv, NEW r, NEW c, NEW k, GetDFTCoeff(r, c, k) PROVE RecInv'
<1>1. file.content = "DFT" /\ ~InvalidIndex(file, r, c) /\ PerElement(file.content) = 2 /\ file \in Files
  BY DEF GetDFTCoeff, PerElement, RecInv
<1>2. PICK e \in Nat \ {0} : e = file.elements
  BY <1>1, WrittenSpectrum
<1>3. PICK answer : answer = getDFTCoeff(file, r, c, k)
  OBVIOUS
<1>4. answer.cells = [i \in 0 .. 1 |-> At(file, r, c, 2 * k + i)] /\ k \in 0 .. e - 1
  BY <1>2, <1>3 DEF getDFTCoeff, Answer, GetDFTCoeff
<1>5. \A i \in DOMAIN answer.cells : i \in Int /\ i < 2 + Excess(file, "pair")
  <2>1. PICK x \in Nat : x = Excess(file, "pair")
    BY ExcessIs
  <2>2. \A i \in DOMAIN answer.cells : i \in 0 .. 1
    BY <1>4
  <2>3. QED
    BY <2>1, <2>2
<1>6. Owed(file, Call("pair", r, c, k), Overlay(Fresh(2), answer.cells))
  <2>1. PICK d : d = Overlay(Fresh(2), answer.cells)
    OBVIOUS
  <2>2. r \in 0 .. file.records - 1 /\ c \in 0 .. file.channels - 1
    BY <1>1, IsValid
  <2>3. PICK home \in Nat : /\ home = HomeOf(file, r, c)
                            /\ \A i \in 0 .. 2 * e - 1 : At(file, r, c, i) = home + i
    BY <1>1, <1>2, <2>2, WrittenSpectrum
  <2>4. ASSUME NEW i \in 0 .. 1 PROVE d[i] = home + 2 * k + i
    <3>1. i \in DOMAIN answer.cells /\ answer.cells[i] = At(file, r, c, 2 * k + i) /\ i \in 0 .. 5
      BY <1>4
    <3>2. d[i] = answer.cells[i]
      BY <2>1, <3>1 DEF Overlay, Fresh
    <3>3. 2 * k + i \in 0 .. 2 * e - 1 /\ home + (2 * k + i) = home + 2 * k + i
      BY <1>4
    <3>4. QED
      BY <2>3, <3>1, <3>2, <3>3
  <2>5. PICK call : call = Call("pair", r, c, k)
    OBVIOUS
  <2>6. call.name = "pair" /\ call.record = r /\ call.channel = c /\ call.arg = k
    BY <2>5 DEF Call
  <2>7. Owed(file, call, d)
    BY <2>3, <2>4, <2>6 DEF Owed
  <2>8. QED
    BY <2>1, <2>5, <2>7
<1>7. "pair" \in SpectrumCalls
  BY DEF SpectrumCalls
<1>8. Receive(answer, Fresh(2), <<Call("pair", r, c, k)>>)
  BY <1>3 DEF GetDFTCoeff
<1>9. QED
  BY <1>1, <1>5, <1>6, <1>7, <1>8, SpectrumReceived

LEMMA GetCoefficientsMPInv ==
  ASSUME RecInv, NEW r, NEW c, GetCoefficientsMP(r, c) PROVE RecInv'
<1>1. file.content = "MPS" /\ PerElement(file.content) = 2 /\ file \in Files
  BY DEF GetCoefficientsMP, PerElement, RecInv
<1>2. PICK e \in Nat \ {0} : e = file.elements
  BY <1>1, WrittenSpectrum
<1>3. PICK answer, n : answer = getCoefficientsMP(file, r, c) /\ n = 2 * e
  OBVIOUS
<1>4. ASSUME answer.code = "DAFF_NO_ERROR"
      PROVE  Owed(file, Call("polar", r, c, 1), Overlay(Fresh(n), answer.cells))
  <2>1. PICK d : d = Overlay(Fresh(n), answer.cells)
    OBVIOUS
  <2>2. /\ ~InvalidIndex(file, r, c)
        /\ answer.cells = [i \in 0 .. 2 * e + 1 |->
             IF i % 2 = 0 THEN cabs(At(file, r, c, 2 * (i \div 2)), At(file, r, c, 2 * (i \div 2) + 1))
             ELSE carg(At(file, r, c, 2 * (i \div 2)), At(file, r, c, 2 * (i \div 2) + 1))]
    BY <1>2, <1>3, <1>4 DEF getCoefficientsMP, Checked, Answer
  <2>3. r \in 0 .. file.records - 1 /\ c \in 0 .. file.channels - 1
    BY <2>2, IsValid
  <2>4. PICK home \in Nat : /\ home = HomeOf(file, r, c)
                            /\ \A i \in 0 .. 2 * e - 1 : At(file, r, c, i) = home + i
    BY <1>1, <1>2, <2>3, WrittenSpectrum
  <2>5. ASSUME NEW k \in 0 .. e - 1
        PROVE  /\ d[2*k] = cabs(home + 2*k, home + 2*k + 1)
               /\ d[2*k + 1] = carg(home + 2*k, home + 2*k + 1)
    <3>1. PICK i, j : i = 2 * k /\ j = 2 * k + 1
      OBVIOUS
    <3>2. /\ i \in 0 .. 2 * e - 1 /\ i \div 2 = k /\ i % 2 = 0
          /\ j \in 0 .. 2 * e - 1 /\ j \div 2 = k /\ j % 2 # 0
      BY <3>1
    <3>3. PICK a, b : a = At(file, r, c, i) /\ b = At(file, r, c, j)
      OBVIOUS
    <3>4. a = home + 2 * k /\ b = home + 2 * k + 1
      <4>1. home + j = home + 2 * k + 1
        BY <3>1
      <4>2. QED
        BY <2>4, <3>1, <3>2, <3>3, <4>1
    <3>5. i \in 0 .. 2 * e + 1 /\ j \in 0 .. 2 * e + 1
      BY <3>2
    <3>6. answer.cells[i] = cabs(a, b) /\ answer.cells[j] = carg(a, b)
      BY <2>2, <3>1, <3>2, <3>3, <3>5
    <3>7. d[i] = answer.cells[i] /\ d[j] = answer.cells[j]
      <4>1. /\ DOMAIN answer.cells = 0 .. 2 * e + 1 /\ DOMAIN Fresh(n) = 0 .. 2 * e + 3
            /\ i \in 0 .. 2 * e + 3 /\ j \in 0 .. 2 * e + 3
        BY <1>3, <2>2, <3>2 DEF Fresh
      <4>2. QED
        BY <2>1, <3>5, <4>1 DEF Overlay
    <3>8. QED
      BY <3>1, <3>4, <3>6, <3>7
  <2>6. PICK call : call = Call("polar", r, c, 1)
    OBVIOUS
  <2>7. call.name = "polar" /\ call.record = r /\ call.channel = c
    BY <2>6 DEF Call
  <2>8. Owed(file, call, d)
    BY <1>2, <2>4, <2>5, <2>7 DEF Owed
  <2>9. QED
    BY <2>1, <2>6, <2>8
<1>5. "polar" \in SpectrumCalls /\ n \in Nat /\ file.content # "IR"
  BY <1>1, <1>2, <1>3 DEF SpectrumCalls
<1>6. Receive(answer, Fresh(n), <<Call("polar", r, c, 1)>>)
  BY <1>2, <1>3 DEF GetCoefficientsMP
<1>7. \A i \in DOMAIN answer.cells : i \in Int /\ i < n + Excess(file, "polar")
  <2>1. Excess(file, "polar") = 2
    BY <1>1 DEF Excess
  <2>2. \A i \in DOMAIN answer.cells : i \in 0 .. 2 * e + 1
    BY <1>2, <1>3 DEF getCoefficientsMP, Checked, Answer, Nothing
  <2>3. QED
    BY <1>2, <1>3, <2>1, <2>2
<1>8. QED
  BY <1>1, <1>4, <1>5, <1>6, <1>7, SpectrumReceived

\* The coefficient that a call reads for index k of the response.
LEMMA CoefficientOf ==
  ASSUME ByteOrderIsServed, NEW f, NEW r, NEW c, Described(f, r, c),
         NEW d, d = f.desc[<<r, c>>], NEW k \in d.zeros .. d.zeros + d.length - 1
  PROVE  /\ At(f, r, c, k - d.zeros) = Kept(f.quantization, f.given[r + 1][c + 1][k + 1])
         /\ At(f, r, c, k - d.zeros) \in Int
<1>1. PICK z \in Nat, l \in Nat : z = d.zeros /\ l = d.length
  BY DEF Described
<1>2. \A i \in 0 .. l - 1 : /\ At(f, r, c, i) = Kept(f.quantization, f.given[r + 1][c + 1][z + i + 1])
                            /\ At(f, r, c, i) \in Int
  BY <1>1 DEF Described
<1>3. k - z \in 0 .. l - 1 /\ z + (k - z) + 1 = k + 1
  BY <1>1
<1>4. QED
  BY <1>1, <1>2, <1>3

\* What a getter of responses leaves in a buffer and owes for it.
LEMMA ResponseReceived ==
  ASSUME RecInv, file.content = "IR", NEW n \in Nat, NEW answer, NEW buffer, NEW history,
         Receive(answer, buffer, history),
         DOMAIN buffer = 0 .. n + 3, \A i \in n .. n + 3 : buffer[i] = Dirty,
         \A i \in n .. n + 3 : i \notin DOMAIN answer.cells,
         history \in {<<history[1]>>, <<history[1], history[2]>>}, history[1].name \in {"filter", "effective"},
         answer.code = "DAFF_NO_ERROR" => Recorded(file, Overlay(buffer, answer.cells), history),
         ByteOrderIsServed /\ answer.code = "DAFF_NO_ERROR" /\ history[1].name = "filter" =>
           \A k \in 0 .. file.elements - 1 :
             Overlay(buffer, answer.cells)[k] = IF Len(history) = 1 THEN Part(history[1], k)
                                                ELSE Part(history[1], k) + Part(history[2], k)
  PROVE  RecInv'
<1>1. file' = file /\ code' = answer.code /\ dest' = Overlay(buffer, answer.cells) /\ calls' = history
  BY DEF Receive
<1>2. history # <<>>
  OBVIOUS
<1>3. NothingBehindTheBuffer'
  <2>1. /\ DOMAIN dest' = 0 .. n + 3 /\ Cardinality(DOMAIN dest') - 4 = n
        /\ \A i \in 0 .. n + 3 : i \notin DOMAIN answer.cells => dest'[i] = buffer[i]
    <3>1. dest' = [i \in 0 .. n + 3 |-> IF i \in DOMAIN answer.cells THEN answer.cells[i] ELSE buffer[i]]
      BY <1>1 DEF Overlay
    <3>2. QED
      BY <3>1, GuardCells
  <2>2. \A i : BehindTheBuffer(i)' <=> i >= n
    BY <1>1, <1>2, <2>1, ExcessIs DEF BehindTheBuffer
  <2>3. ASSUME NEW i \in DOMAIN dest', BehindTheBuffer(i)' PROVE dest'[i] = Dirty
    <3>1. i \in n .. n + 3
      BY <2>1, <2>2, <2>3
    <3>2. QED
      BY <2>1, <3>1
  <2>4. QED
    BY <2>3 DEF NothingBehindTheBuffer
<1>4. SpectraAgree'
  BY <1>1, <1>3 DEF SpectraAgree
<1>5. ASSUME ByteOrderIsServed PROVE CoefficientsKeepTheirPlace'
  <2>1. ASSUME code' = "DAFF_NO_ERROR", history[1].name = "filter", NEW k \in 0 .. file.elements - 1
        PROVE  dest'[k] = IF Len(history) = 1 THEN Part(history[1], k)
                          ELSE Part(history[1], k) + Part(history[2], k)
    <3>1. PICK o : o = Overlay(buffer, answer.cells)
      OBVIOUS
    <3>2. o[k] = IF Len(history) = 1 THEN Part(history[1], k) ELSE Part(history[1], k) + Part(history[2], k)
      BY <1>1, <1>5, <2>1, <3>1, Zenon
    <3>3. QED
      BY <1>1, <3>1, <3>2
  <2>2. \A x, k : Part(x, k)' = Part(x, k)
    BY <1>1 DEF Part, InZone, Given
  <2>3. QED
    BY <1>1, <2>1, <2>2 DEF CoefficientsKeepTheirPlace, Answered
<1>6. QED
  BY <1>1, <1>2, <1>3, <1>4, <1>5 DEF RecInv, Answered

LEMMA GetFilterCoeffsInv ==
  ASSUME RecInv, NEW r, NEW c, NEW g \in Gains, GetFilterCoeffs(r, c, g) PROVE RecInv'
<1>1. file \in Files /\ file.content = "IR"
  BY DEF RecInv, GetFilterCoeffs
<1>2. PICK n \in Nat : n = file.elements
  BY <1>1, WrittenResponse
<1>3. PICK answer : answer = getFilterCoeffs(file, r, c, g)
  OBVIOUS
<1>4. PICK call : call = Call("filter", r, c, g)
  OBVIOUS
<1>5. call.name = "filter" /\ call.record = r /\ call.channel = c /\ call.arg = g
  BY <1>4 DEF Call
<1>6. PICK d : d = file.desc[<<r, c>>]
  OBVIOUS
<1>7. CASE InvalidIndex(file, r, c)
  <2>1. answer.code # "DAFF_NO_ERROR" /\ DOMAIN answer.cells = {}
    BY <1>3, <1>7 DEF getFilterCoeffs, Checked, Answer, Nothing
  <2>2. DOMAIN Fresh(n) = 0 .. n + 3 /\ \A i \in n .. n + 3 : Fresh(n)[i] = Dirty
    BY DEF Fresh
  <2>3. Receive(answer, Fresh(n), <<call>>)
    BY <1>2, <1>3, <1>4 DEF GetFilterCoeffs
  <2>4. PICK history : history = <<call>>
    OBVIOUS
  <2>5. history \in {<<history[1]>>} /\ history[1].name = "filter"
    BY <1>5, <2>4
  <2>6. QED
    BY <1>1, <2>1, <2>2, <2>3, <2>4, <2>5, ResponseReceived
<1>8. CASE ~InvalidIndex(file, r, c)
  <2>1. r \in 0 .. file.records - 1 /\ c \in 0 .. file.channels - 1
    BY <1>8, IsValid
  <2>2. Described(file, r, c)
    BY <1>1, <2>1, WrittenResponse
  <2>3. PICK z \in Nat, l \in Nat : z = d.zeros /\ l = d.length /\ z + l <= n
    BY <1>2, <1>6, <2>2 DEF Described
  <2>4. PICK cells : cells = [i \in 0 .. n - 1 |->
                                IF i \in z .. z + l - 1 THEN At(file, r, c, i - z) * g ELSE 0]
    OBVIOUS
  <2>5. answer = Answer("DAFF_NO_ERROR", cells)
    <3>1. PICK last : last = IF d.zeros + d.length > file.elements THEN d.zeros + d.length ELSE file.elements
      OBVIOUS
    <3>2. last = n
      BY <1>2, <2>3, <3>1
    <3>3. answer = Answer("DAFF_NO_ERROR",
                     [i \in 0 .. last - 1 |->
                        IF i \in d.zeros .. d.zeros + d.length - 1 THEN At(file, r, c, i - d.zeros) * g ELSE 0])
      BY <1>3, <1>6, <1>8, <3>1 DEF getFilterCoeffs, Checked
    <3>4. QED
      BY <2>3, <2>4, <3>2, <3>3
  <2>6. answer.cells = cells /\ DOMAIN cells = 0 .. n - 1
    BY <2>4, <2>5 DEF Answer
  <2>7. DOMAIN Fresh(n) = 0 .. n + 3 /\ \A i \in n .. n + 3 : Fresh(n)[i] = Dirty
    BY DEF Fresh
  <2>8. PICK o : o = Overlay(Fresh(n), cells)
    OBVIOUS
  <2>9. DOMAIN o = 0 .. n + 3 /\ \A i \in 0 .. n - 1 : o[i] = cells[i]
    BY <2>6, <2>7, <2>8 DEF Overlay
  <2>10. ASSUME ByteOrderIsServed, NEW k \in 0 .. n - 1 PROVE o[k] = Part(call, k)
    <3>1. InZone(r, c, k) <=> k \in z .. z + l - 1
      BY <1>6, <2>3 DEF InZone
    <3>2. CASE k \in z .. z + l - 1
      <4>1. At(file, r, c, k - z) = Kept(file.quantization, file.given[r + 1][c + 1][k + 1])
        BY <1>6, <2>2, <2>3, <2>10, <3>2, CoefficientOf
      <4>2. At(file, r, c, k - z) = Given(r, c, k)
        BY <4>1 DEF Given, Kept
      <4>3. QED
        BY <1>5, <2>4, <2>9, <3>1, <3>2, <4>2 DEF Part
    <3>3. CASE k \notin z .. z + l - 1
      BY <1>5, <2>4, <2>9, <3>1, <3>3 DEF Part
    <3>4. QED
      BY <3>2, <3>3
  <2>11. PICK history : history = <<call>>
    OBVIOUS
  <2>12. history \in {<<history[1]>>} /\ history[1] = call /\ Len(history) = 1
    BY <2>11
  <2>13. Recorded(file, o, history)
    BY <1>2, <1>5, <1>8, <2>9, <2>12 DEF Recorded
  <2>14. Receive(answer, Fresh(n), history)
    BY <1>2, <1>3, <1>4, <2>11 DEF GetFilterCoeffs
  <2>15. \A i \in n .. n + 3 : i \notin DOMAIN cells
    BY <2>6
  <2>16. ByteOrderIsServed =>
           \A k \in 0 .. file.elements - 1 : o[k] = IF Len(history) = 1 THEN Part(history[1], k)
                                                   ELSE Part(history[1], k) + Part(history[2], k)
    BY <1>2, <2>10, <2>12
  <2>17. QED
    BY <1>1, <1>5, <2>6, <2>7, <2>8, <2>12, <2>13, <2>14, <2>15, <2>16, ResponseReceived
<1>9. QED
  BY <1>7, <1>8

LEMMA AppendToOne ==
  ASSUME NEW a, NEW b PROVE Append(<<a>>, b) = <<a, b>>
<1>1. PICK s, t : s = <<a>> /\ t = Append(s, b)
  OBVIOUS
<1>2. s \in Seq({a, b}) /\ Len(s) = 1 /\ s[1] = a
  BY <1>1
<1>3. t \in Seq({a, b}) /\ Len(t) = 2 /\ t[1] = a /\ t[2] = b
  BY <1>1, <1>2
<1>4. t = <<t[1], t[2]>>
  BY <1>3
<1>5. QED
  BY <1>1, <1>3, <1>4

LEMMA AddFilterCoeffsInv ==
  ASSUME RecInv, NEW r, NEW c, NEW g \in Gains, AddFilterCoeffs(r, c, g) PROVE RecInv'
<1>1. PICK first : first = calls[1]
  OBVIOUS
<1>2. file \in Files /\ first.name = "filter" /\ Answered /\ calls = <<first>> /\ calls # <<>>
  <2>1. Len(calls) = 1 /\ first.name = "filter" /\ Answered
    BY <1>1 DEF AddFilterCoeffs, Answered
  <2>2. file \in Files /\ calls \in {<<>>, <<first>>, <<first, calls[2]>>}
    BY <1>1 DEF RecInv
  <2>3. calls = <<first>>
    BY <2>1, <2>2
  <2>4. QED
    BY <2>1, <2>2, <2>3
<1>3. file.content = "IR"
  BY <1>1, <1>2 DEF RecInv
<1>4. PICK n \in Nat : n = file.elements
  BY <1>2, <1>3, WrittenResponse
<1>5. /\ DOMAIN dest = 0 .. n + 3 /\ ~InvalidIndex(file, first.record, first.channel) /\ first.arg \in Gains
  BY <1>1, <1>2, <1>4 DEF RecInv, Recorded
<1>6. \A i \in n .. n + 3 : dest[i] = Dirty
  <2>1. Cardinality(DOMAIN dest) - 4 = n
    BY <1>5, GuardCells
  <2>2. Excess(file, calls[1].name) = 0
    BY <1>3, ExcessIs
  <2>3. ASSUME NEW i \in n .. n + 3 PROVE i \in DOMAIN dest /\ BehindTheBuffer(i)
    BY <1>5, <2>1, <2>2 DEF BehindTheBuffer
  <2>4. QED
    BY <2>3 DEF RecInv, NothingBehindTheBuffer
<1>7. ByteOrderIsServed => \A k \in 0 .. n - 1 : dest[k] = Part(first, k)
  <2>1. Len(calls) = 1
    BY DEF AddFilterCoeffs
  <2>2. QED
    BY <1>1, <1>2, <1>4, <2>1 DEF RecInv, CoefficientsKeepTheirPlace
<1>8. PICK call : call = Call("filter", r, c, g)
  OBVIOUS
<1>9. call.name = "filter" /\ call.record = r /\ call.channel = c /\ call.arg = g
  BY <1>8 DEF Call
<1>10. PICK history : history = <<first, call>>
  OBVIOUS
<1>11. /\ history \in {<<history[1], history[2]>>} /\ history[1] = first /\ history[2] = call
       /\ Len(history) = 2 /\ history # <<>>
  BY <1>10
<1>12. PICK answer : answer = addFilterCoeffs(file, r, c, g, dest)
  OBVIOUS
<1>13. Receive(answer, dest, history)
  <2>1. Append(calls, call) = history
    BY <1>2, <1>10, AppendToOne
  <2>2. QED
    BY <1>8, <1>12, <2>1 DEF AddFilterCoeffs
<1>14. ASSUME ByteOrderIsServed, NEW k \in 0 .. n - 1 PROVE Part(first, k) \in Int
  <2>1. PICK x, y, d : x = first.record /\ y = first.channel /\ d = file.desc[<<x, y>>]
    OBVIOUS
  <2>2. x \in 0 .. file.records - 1 /\ y \in 0 .. file.channels - 1
    BY <1>5, <2>1, IsValid
  <2>3. Described(file, x, y)
    BY <1>2, <1>3, <2>2, WrittenResponse
  <2>4. first.arg \in Int
    BY <1>5, GainsAssumption
  <2>5. CASE k \in d.zeros .. d.zeros + d.length - 1
    <3>1. At(file, x, y, k - d.zeros) = Given(x, y, k) /\ At(file, x, y, k - d.zeros) \in Int
      BY <1>14, <2>1, <2>3, <2>5, CoefficientOf DEF Given, Kept
    <3>2. Given(x, y, k) * first.arg \in Int
      BY <2>4, <3>1
    <3>3. QED
      BY <2>1, <3>2 DEF Part
  <2>6. CASE k \notin d.zeros .. d.zeros + d.length - 1
    BY <2>1, <2>6 DEF Part, InZone
  <2>7. QED
    BY <2>5, <2>6
<1>15. CASE InvalidIndex(file, r, c)
  <2>1. answer.code # "DAFF_NO_ERROR" /\ DOMAIN answer.cells = {}
    BY <1>12, <1>15 DEF addFilterCoeffs, Checked, Answer, Nothing
  <2>2. QED
    BY <1>2, <1>3, <1>5, <1>6, <1>11, <1>13, <2>1, ResponseReceived
<1>16. CASE ~InvalidIndex(file, r, c)
  <2>1. PICK d : d = file.desc[<<r, c>>]
    OBVIOUS
  <2>2. Described(file, r, c)
    BY <1>2, <1>3, <1>16, IsValid, WrittenResponse
  <2>3. PICK z \in Nat, l \in Nat : z = d.zeros /\ l = d.length /\ z + l <= n
    BY <1>4, <2>1, <2>2 DEF Described
  <2>4. PICK cells : cells = [i \in z .. z + l - 1 |-> dest[i] + At(file, r, c, i - z) * g]
    OBVIOUS
  <2>5. answer = Answer("DAFF_NO_ERROR", cells)
    BY <1>12, <1>16, <2>1, <2>3, <2>4 DEF addFilterCoeffs, Checked
  <2>6. answer.cells = cells /\ DOMAIN cells = z .. z + l - 1
    BY <2>4, <2>5 DEF Answer
  <2>7. PICK o : o = Overlay(dest, cells)
    OBVIOUS
  <2>8. /\ DOMAIN o = 0 .. n + 3
        /\ \A i \in 0 .. n + 3 : i \in DOMAIN cells => o[i] = cells[i]
        /\ \A i \in 0 .. n + 3 : i \notin DOMAIN cells => o[i] = dest[i]
    <3>1. DOMAIN dest = 0 .. n + 3
      BY <1>5
    <3>2. QED
      BY <2>7, <3>1 DEF Overlay
  <2>9. ASSUME ByteOrderIsServed, NEW k \in 0 .. n - 1 PROVE o[k] = Part(first, k) + Part(call, k)
    <3>1. InZone(r, c, k) <=> k \in z .. z + l - 1
      BY <2>1, <2>3 DEF InZone
    <3>2. CASE k \in z .. z + l - 1
      <4>1. At(file, r, c, k - z) = Kept(file.quantization, file.given[r + 1][c + 1][k + 1])
        BY <2>1, <2>2, <2>3, <2>9, <3>2, CoefficientOf
      <4>2. At(file, r, c, k - z) = Given(r, c, k)
        BY <4>1 DEF Given, Kept
      <4>3. o[k] = dest[k] + At(file, r, c, k - z) * g
        BY <2>4, <2>6, <2>8, <3>2
      <4>4. Part(call, k) = Given(r, c, k) * g
        BY <1>9, <3>1, <3>2 DEF Part
      <4>5. QED
        BY <1>7, <2>9, <4>2, <4>3, <4>4
    <3>3. CASE k \notin z .. z + l - 1
      <4>1. o[k] = dest[k] /\ Part(call, k) = 0
        BY <1>9, <2>6, <2>8, <3>1, <3>3 DEF Part
      <4>2. Part(first, k) \in Int
        BY <1>14, <2>9
      <4>3. Part(first, k) + 0 = Part(first, k)
        BY <4>2
      <4>4. QED
        BY <1>7, <2>9, <4>1, <4>3
    <3>4. QED
      BY <3>2, <3>3
  <2>10. Recorded(file, o, history)
    BY <1>4, <1>5, <1>11, <2>8 DEF Recorded
  <2>11. \A i \in n .. n + 3 : i \notin DOMAIN cells
    BY <2>3, <2>6
  <2>12. ByteOrderIsServed =>
           \A k \in 0 .. file.elements - 1 : o[k] = IF Len(history) = 1 THEN Part(history[1], k)
                                                   ELSE Part(history[1], k) + Part(history[2], k)
    BY <1>4, <1>11, <2>9
  <2>13. QED
    BY <1>2, <1>3, <1>5, <1>6, <1>11, <1>13, <2>6, <2>7, <2>10, <2>11, <2>12, ResponseReceived
<1>17. QED
  BY <1>15, <1>16

LEMMA GetEffectiveFilterCoeffsInv ==
  ASSUME RecInv, NEW r, NEW c, NEW g, GetEffectiveFilterCoeffs(r, c, g) PROVE RecInv'
<1>1. file \in Files /\ file.content = "IR"
  BY DEF RecInv, GetEffectiveFilterCoeffs
<1>2. PICK n \in Nat : n = file.maxLength
  BY <1>1, WrittenResponse
<1>3. PICK answer : answer = getEffectiveFilterCoeffs(file, r, c, g)
  OBVIOUS
<1>4. PICK call, history : call = Call("effective", r, c, g) /\ history = <<call>>
  OBVIOUS
<1>5. call.name = "effective" /\ history \in {<<history[1]>>} /\ history[1] = call
  BY <1>4 DEF Call
<1>6. DOMAIN Fresh(n) = 0 .. n + 3 /\ \A i \in n .. n + 3 : Fresh(n)[i] = Dirty
  BY DEF Fresh
<1>7. \A i \in n .. n + 3 : i \notin DOMAIN answer.cells
  <2>1. CASE InvalidIndex(file, r, c)
    BY <1>3, <2>1 DEF getEffectiveFilterCoeffs, Checked, Answer, Nothing
  <2>2. CASE ~InvalidIndex(file, r, c)
    <3>1. Described(file, r, c)
      BY <1>1, <2>2, IsValid, WrittenResponse
    <3>2. PICK l \in Nat : l = file.desc[<<r, c>>].length /\ l <= n
      BY <1>2, <3>1 DEF Described
    <3>3. DOMAIN answer.cells = 0 .. l - 1
      BY <1>3, <2>2, <3>2 DEF getEffectiveFilterCoeffs, Checked, Answer
    <3>4. QED
      BY <3>2, <3>3
  <2>3. QED
    BY <2>1, <2>2
<1>8. Receive(answer, Fresh(n), history)
  BY <1>2, <1>3, <1>4 DEF GetEffectiveFilterCoeffs
<1>9. history[1].name = "effective" /\ history[1].name \in {"filter", "effective"} /\ history[1].name # "filter"
  BY <1>5
<1>10. \A d : Recorded(file, d, history)
  BY <1>9, Zenon DEF Recorded
<1>11. QED
  BY <1>1, <1>5, <1>6, <1>7, <1>8, <1>9, <1>10, ResponseReceived

LEMMA RecInvKept ==
  ASSUME RecInv, UNCHANGED <<file, dest, code, calls>> PROVE RecInv'
BY Zenon DEF RecInv, Recorded, NothingBehindTheBuffer, BehindTheBuffer, CoefficientsKeepTheirPlace, SpectraAgree, Answered,
             Part, InZone, Given

LEMMA RecStep ==
  ASSUME RecInv, [Next]_vars PROVE RecInv'
<1>1. CASE GetOverallPeak \/ UNCHANGED vars
  BY <1>1, RecInvKept DEF GetOverallPeak, vars
<1>2. ASSUME NEW r, NEW c, GetMagnitudes(r, c) \/ GetPhases(r, c) \/ GetCoefficientsRI(r, c)
                           \/ GetCoefficientsMP(r, c) \/ GetDFTCoeffs(r, c)
      PROVE  RecInv'
  BY <1>2, GetMagnitudesInv, GetPhasesInv, GetCoefficientsRIInv, GetCoefficientsMPInv, GetDFTCoeffsInv
<1>3. ASSUME NEW r, NEW c, NEW g \in Gains,
             GetFilterCoeffs(r, c, g) \/ AddFilterCoeffs(r, c, g) \/ GetEffectiveFilterCoeffs(r, c, g)
      PROVE  RecInv'
  BY <1>3, GetFilterCoeffsInv, AddFilterCoeffsInv, GetEffectiveFilterCoeffsInv
<1>4. ASSUME NEW r, NEW c, NEW k \in Int, GetMagnitude(r, c, k) \/ GetPhase(r, c, k) \/ GetDFTCoeff(r, c, k)
      PROVE  RecInv'
  BY <1>4, GetMagnitudeInv, GetPhaseInv, GetDFTCoeffInv
<1>5. ASSUME NEW k \in 0 .. file.elements PROVE k \in Int
  OBVIOUS
<1>6. QED
  BY <1>1, <1>2, <1>3, <1>4, <1>5 DEF Next

LEMMA RecInvIsKept == Spec => []RecInv
<1>1. Init => RecInv
  BY RecInitInv
<1>2. RecInv /\ [Next]_vars => RecInv'
  BY RecStep
<1>3. QED
  BY <1>1, <1>2, PTL DEF Spec

\* getFilterCoeffs and addFilterCoeffs (DAFFReaderImpl.cpp) answer, index for index,
\* what daffv17_write.m was given, quantised, and zero outside of the stored zone;
\* for every file, threshold and sequence of calls, where int24 is read in the byte
\* order that Widen24 is written for.
THEOREM RecordsKeepTheirPlace ==
  ASSUME ByteOrderIsServed PROVE Spec => []CoefficientsKeepTheirPlace
<1>1. RecInv => CoefficientsKeepTheirPlace
  BY DEF RecInv
<1>2. QED
  BY <1>1, RecInvIsKept, PTL

\* Every number of a spectrum is of the record, channel and frequency asked for,
\* whichever getter of DAFFReaderImpl.cpp is called, and the same by the getter of
\* one frequency and that of all; outside of combined spectra no getter writes
\* behind the caller's buffer, there three of them by one frequency at most.
THEOREM SpectraAreTrue == Spec => []SpectraAgree
<1>1. RecInv => SpectraAgree
  BY DEF RecInv
<1>2. QED
  BY <1>1, RecInvIsKept, PTL

-----------------------------------------------------------------------------
(* The buffer of the transformer. *)

LEMMA Coefficients ==
  ASSUME NEW x \in Contents
  PROVE  getNumDFTCoeffs(x) \in Nat \ {0}
BY ContentsAssumption DEF getNumDFTCoeffs

LEMMA Allocated ==
  ASSUME NEW n \in Nat
  PROVE  AllocatedPerSpectrum(n) \in Nat /\ AllocatedPerSpectrum(n) >= 2 * n
BY DEF AllocatedPerSpectrum

\* Number i of the spectrum of a record lies where the output looks for it.
LEMMA Filled ==
  ASSUME NEW x \in Contents, NEW w,
         NEW r \in 0 .. x.records - 1, NEW c \in 0 .. x.channels - 1,
         NEW i \in 0 .. 2 * getNumDFTCoeffs(x) - 1
  PROVE  LET p == (r * x.channels + c) * (2 * getNumDFTCoeffs(x)) + i
         IN  p \in DOMAIN Spectra(x, w) /\ Spectra(x, w)[p] = Number(x, r, c, i, w)
<1> DEFINE each == 2 * getNumDFTCoeffs(x)
           alloc == AllocatedPerSpectrum(getNumDFTCoeffs(x))
           S == x.records * x.channels
           s == r * x.channels + c
           p == s * each + i
<1>1. x.records \in Nat \ {0} /\ x.channels \in Nat \ {0}
  BY ContentsAssumption
<1>2. each \in Nat \ {0} /\ alloc \in Nat /\ alloc >= each
  BY Coefficients, Allocated
<1>3. s \in 0 .. S - 1 /\ s \div x.channels = r /\ s % x.channels = c /\ S \in Nat
  <2> DEFINE R == x.records
             C == x.channels
  <2>1. R \in Nat \ {0} /\ C \in Nat \ {0} /\ r \in 0 .. R - 1 /\ c \in 0 .. C - 1
    BY <1>1
  <2> HIDE DEF R, C
  <2>2. r * C + c \in 0 .. R * C - 1 /\ (r * C + c) \div C = r /\ (r * C + c) % C = c
    BY <2>1, PairIn
  <2>3. R * C \in Nat
    BY <2>1
  <2>4. QED
    BY <2>2, <2>3 DEF R, C
<1>4. Spectra(x, w) =
        [j \in 0 .. S * alloc - 1 |->
           IF j >= S * each THEN Unset
           ELSE Number(x, (j \div each) \div x.channels, (j \div each) % x.channels, j % each, w)]
  BY DEF Spectra
<1> i \in 0 .. each - 1
  OBVIOUS
<1> HIDE DEF each, alloc, S, s
<1>5. p \div each = s /\ p % each = i /\ p \in Nat
  <2>1. s \in Nat /\ i \in 0 .. each - 1
    BY <1>3
  <2>2. QED
    BY <1>2, <2>1, Quotient
<1>6. p < S * each
  <2>1. (s + 1) * each <= S * each /\ (s + 1) * each = s * each + each
    BY <1>2, <1>3
  <2>2. i < each /\ s * each \in Nat /\ S * each \in Nat
    BY <1>2, <1>3
  <2>3. QED
    BY <1>2, <2>1, <2>2
<1>7. p \in 0 .. S * alloc - 1
  <2>1. S * each <= S * alloc /\ S * alloc \in Nat /\ S * each \in Nat
    BY <1>2, <1>3
  <2>2. QED
    BY <1>5, <1>6, <2>1
<1>8. p \in DOMAIN Spectra(x, w) /\ Spectra(x, w)[p] = Number(x, r, c, i, w)
  <2> HIDE DEF p
  <2>1. ~(p >= S * each)
    BY <1>2, <1>3, <1>5, <1>6
  <2>2. QED
    BY <1>3, <1>4, <1>5, <1>7, <2>1
<1>9. QED
  BY <1>8 DEF each, s

-----------------------------------------------------------------------------
(* The invariant: the buffer is the one of the output's content. *)

BufferIsOutputs ==
  m_pOutputContent # NULL =>
    /\ m_pOutputContent \in Contents
    /\ m_iNumDFTCoeffs = getNumDFTCoeffs(m_pOutputContent)
    /\ m_fOverallMagnitudePeak = m_pOutputContent
    /\ \E w \in Windows \cup {"DAFF_WINDOW_NONE"} : m_pfBuf = Spectra(m_pOutputContent, w)
TInv == TTypeOK /\ BufferIsOutputs

LEMMA TInitInv == TInit => TInv
BY DEF TInit, TInv, TTypeOK, BufferIsOutputs

LEMMA TransformedInv ==
  ASSUME TInv, NEW x \in Contents \cup {NULL}, Transformed(x)
  PROVE  /\ m_pOutputContent' \in Contents \cup {NULL}
         /\ m_iNumDFTCoeffs' \in Nat \cup {Unset}
         /\ BufferIsOutputs'
<1>1. CASE x = NULL
  BY <1>1 DEF TInv, TTypeOK, Transformed, BufferIsOutputs
<1>2. CASE x \in Contents
  <2>1. getNumDFTCoeffs(x) \in Nat
    BY <1>2, Coefficients
  <2>2. m_iWindowFunction \in Windows \cup {"DAFF_WINDOW_NONE"} /\ x # NULL
    BY <1>2, NullAssumption DEF TInv, TTypeOK
  <2>3. QED
    BY <1>2, <2>1, <2>2 DEF Transformed, BufferIsOutputs
<1>3. QED
  BY <1>1, <1>2

LEMMA OutputStays ==
  ASSUME TInv, UNCHANGED outputVars
  PROVE  /\ m_pOutputContent' \in Contents \cup {NULL}
         /\ m_iNumDFTCoeffs' \in Nat \cup {Unset}
         /\ BufferIsOutputs'
BY DEF TInv, TTypeOK, BufferIsOutputs, outputVars

LEMMA TNextInv == TInv /\ [TNext]_tvars => TInv'
<1> SUFFICES ASSUME TInv, [TNext]_tvars
             PROVE  TInv'
  OBVIOUS
<1>1. CASE DefaultConstruct
  BY <1>1, OutputStays DEF DefaultConstruct, TInv, TTypeOK
<1>2. CASE transform
  <2>1. m_pInputContent \in Contents \cup {NULL}
    BY DEF TInv, TTypeOK
  <2>2. QED
    BY <1>2, <2>1, TransformedInv DEF transform, TInv, TTypeOK
<1>3. CASE clear
  BY <1>3 DEF clear, TInv, TTypeOK, BufferIsOutputs
<1>4. ASSUME NEW x \in Contents \cup {NULL}, NEW b \in BOOLEAN, setInputContent(x, b)
      PROVE  TInv'
  BY <1>4, TransformedInv, OutputStays DEF setInputContent, TInv, TTypeOK
<1>5. ASSUME NEW w \in Windows \cup {"DAFF_WINDOW_NONE"}, setWindowFunction(w)
      PROVE  TInv'
  BY <1>5, OutputStays DEF setWindowFunction, TInv, TTypeOK
<1>6. ASSUME NEW w \in Windows \cup {"DAFF_WINDOW_NONE"}, NEW x \in Contents, NEW b \in BOOLEAN,
             Construct(x, w, b)
      PROVE  TInv'
  BY <1>6, TransformedInv, OutputStays DEF Construct, TInv, TTypeOK
<1>7. CASE UNCHANGED tvars
  BY <1>7, OutputStays DEF tvars, outputVars, TInv, TTypeOK
<1>8. QED
  BY <1>1, <1>2, <1>3, <1>4, <1>5, <1>6, <1>7 DEF TNext

LEMMA Invariance == TSpec => []TInv
<1>1. QED
  BY TInitInv, TNextInv, PTL DEF TSpec

-----------------------------------------------------------------------------

\* What the buffer holds is what the getters of the output answer.
LEMMA Answers ==
  ASSUME TInv, m_pOutputContent # NULL, m_pInputContent = m_pOutputContent,
         NEW w, m_pfBuf = Spectra(m_pOutputContent, w),
         NEW r \in 0 .. m_pOutputContent.records - 1,
         NEW c \in 0 .. m_pOutputContent.channels - 1
  PROVE  LET x == m_pOutputContent
         IN  /\ getOutputDFTCoeffs(r, c) =
                  [i \in 0 .. 2 * getNumDFTCoeffs(x) - 1 |-> Number(x, r, c, i, w)]
             /\ \A k \in 0 .. getNumDFTCoeffs(x) - 1 :
                  getOutputDFTCoeff(r, c, k) = [part \in 0 .. 1 |-> Number(x, r, c, 2 * k + part, w)]
<1> DEFINE x == m_pOutputContent
           n == getNumDFTCoeffs(x)
           first == (r * x.channels + c) * (2 * n)
<1>1. x \in Contents /\ m_iNumDFTCoeffs = n /\ m_pInputContent = x
  BY DEF TInv, BufferIsOutputs
<1>2. n \in Nat \ {0}
  BY <1>1, Coefficients
<1>3. ~RefusesRecord(r, c)
  BY <1>1 DEF RefusesRecord
<1>4. Position(r, c) = first /\ m_iElementSize = 2 * n
  BY <1>1 DEF Position, m_iElementSize
<1>5. ASSUME NEW i \in 0 .. 2 * n - 1
      PROVE  Behind(Position(r, c) + i) = Number(x, r, c, i, w)
  <2>1. first + i \in DOMAIN Spectra(x, w) /\ Spectra(x, w)[first + i] = Number(x, r, c, i, w)
    BY <1>1, <1>5, Filled
  <2>2. QED
    BY <1>4, <2>1 DEF Behind
<1>6. getOutputDFTCoeffs(r, c) = [i \in 0 .. 2 * n - 1 |-> Behind(Position(r, c) + i)]
  BY <1>3, <1>4 DEF getOutputDFTCoeffs
<1>7. ASSUME NEW k \in 0 .. n - 1
      PROVE  getOutputDFTCoeff(r, c, k) = [part \in 0 .. 1 |-> Number(x, r, c, 2 * k + part, w)]
  <2>1. getOutputDFTCoeff(r, c, k) = [part \in 0 .. 1 |-> Behind(Position(r, c) + 2 * k + part)]
    BY <1>1, <1>2, <1>3, <1>7 DEF getOutputDFTCoeff
  <2>2. ASSUME NEW part \in 0 .. 1
        PROVE  Behind(Position(r, c) + 2 * k + part) = Number(x, r, c, 2 * k + part, w)
    <3>1. 2 * k + part \in 0 .. 2 * n - 1
      BY <1>2, <1>7
    <3>2. Position(r, c) + 2 * k + part = Position(r, c) + (2 * k + part)
      <4>1. Position(r, c) \in Int
        BY <1>1, <1>2, <1>4, ContentsAssumption
      <4>2. QED
        BY <1>7, <4>1
    <3>3. QED
      BY <1>5, <3>1, <3>2
  <2>3. QED
    BY <2>1, <2>2
<1>8. QED
  BY <1>5, <1>6, <1>7

\* For every number of records, channels and coefficients, and whatever was set,
\* transformed and cleared before: while the input is the content that the output
\* was made for, the output answers that content's numbers, each at its place.
THEOREM OutputIsTrue == TSpec => []OutputAnswersItsInput
<1>1. TInv => OutputAnswersItsInput
  <2> SUFFICES ASSUME TInv, m_pOutputContent # NULL, m_pInputContent = m_pOutputContent
               PROVE  OutputAnswersItsInput
    BY DEF OutputAnswersItsInput
  <2>1. m_fOverallMagnitudePeak = m_pOutputContent
    BY DEF TInv, BufferIsOutputs
  <2>2. PICK w \in Windows \cup {"DAFF_WINDOW_NONE"} : m_pfBuf = Spectra(m_pOutputContent, w)
    BY DEF TInv, BufferIsOutputs
  <2>3. QED
    BY <2>1, <2>2, Answers DEF OutputAnswersItsInput
<1>2. QED
  BY <1>1, Invariance, PTL

-----------------------------------------------------------------------------
(* Metadata: which key object an instance maps a name to.                    *)

\* All entries of an intact block are read.
LEMMA IntactLoads ==
  ASSUME block \in Blocks, Intact = Len(block), NEW i \in DOMAIN block
  PROVE  Loads(i)
<1> DEFINE bad == {k \in DOMAIN block : ~Loads(k)}
<1>1. bad \in SUBSET Nat /\ DOMAIN block = 1 .. Len(block) /\ Len(block) \in Nat
  BY BlocksAssumption
<1>2. ASSUME bad # {} PROVE FALSE
  <2>1. \E x \in bad : \A y \in bad : x <= y
    <3> HIDE DEF bad
    <3>1. QED
      BY <1>1, <1>2, LeastElement
  <2>2. PICK x \in bad : x = CHOOSE z \in bad : \A k \in bad : z <= k
    BY <2>1
  <2>3. Intact = x - 1
    BY <1>2, <2>2 DEF Intact
  <2>4. QED
    BY <1>1, <2>3
<1>3. QED
  BY <1>2

\* The keys after the first n entries of an instance.
KeysAfter(i, n, g) ==
  g = [j \in 0 .. n |-> IF j = 0 THEN [x \in {} |-> <<0, 0>>]
                        ELSE insertKey(g[j-1], Instance(i)[j].name, <<i, j>>)]

LEMMA KeysExist ==
  ASSUME NEW i, NEW n \in Nat
  PROVE  \E g : KeysAfter(i, n, g)
<1> DEFINE P == {m \in Nat : \E g : KeysAfter(i, m, g)}
<1>1. 0 \in P
  <2>1. KeysAfter(i, 0, [j \in 0 .. 0 |-> [x \in {} |-> <<0, 0>>]])
    BY DEF KeysAfter
  <2>2. QED
    BY <2>1
<1>2. ASSUME NEW m \in P PROVE m + 1 \in P
  <2>1. PICK g : KeysAfter(i, m, g)
    BY <1>2
  <2>2. m \in Nat
    BY <1>2
  <2>3. PICK h : h = [j \in 0 .. m + 1 |->
                        IF j = m + 1 THEN insertKey(g[m], Instance(i)[m + 1].name, <<i, m + 1>>) ELSE g[j]]
    OBVIOUS
  <2>4. \A j \in 0 .. m : h[j] = g[j]
    BY <2>2, <2>3
  <2>5. ASSUME NEW j \in 0 .. m + 1
        PROVE  h[j] = IF j = 0 THEN [x \in {} |-> <<0, 0>>]
                      ELSE insertKey(h[j - 1], Instance(i)[j].name, <<i, j>>)
    <3>1. CASE j = m + 1
      <4>1. j - 1 = m /\ m \in 0 .. m /\ j # 0
        BY <2>2, <3>1
      <4>2. h[j] = insertKey(g[m], Instance(i)[m + 1].name, <<i, m + 1>>)
        BY <2>3, <2>5, <3>1
      <4>3. h[m] = g[m]
        BY <2>4, <4>1
      <4>4. QED
        BY <3>1, <4>1, <4>2, <4>3
    <3>2. CASE j # m + 1
      <4>1. j \in 0 .. m /\ (j # 0 => j - 1 \in 0 .. m)
        BY <2>2, <2>5, <3>2
      <4>2. g[j] = IF j = 0 THEN [x \in {} |-> <<0, 0>>]
                   ELSE insertKey(g[j - 1], Instance(i)[j].name, <<i, j>>)
        BY <2>1, <4>1 DEF KeysAfter
      <4>3. QED
        BY <2>4, <4>1, <4>2
    <3>3. QED
      BY <3>1, <3>2
  <2>6. KeysAfter(i, m + 1, h)
    <3>1. h = [j \in 0 .. m + 1 |-> h[j]]
      BY <2>3
    <3>2. QED
      BY <2>5, <3>1 DEF KeysAfter
  <2>7. QED
    BY <2>2, <2>6
<1>3. P = Nat
  <2> HIDE DEF P
  <2>1. P \in SUBSET Nat
    BY DEF P
  <2>2. QED
    BY <1>1, <1>2, <2>1, Induction
<1>4. QED
  BY <1>3

LEMMA LoadAnswers ==
  ASSUME NEW i, Readable(i) \in Nat
  PROVE  \E g : KeysAfter(i, Readable(i), g) /\ load(i) = g[Readable(i)]
<1>1. PICK g : g = CHOOSE h : KeysAfter(i, Readable(i), h)
  OBVIOUS
<1>2. load(i) = g[Readable(i)]
  BY <1>1 DEF load, KeysAfter
<1>3. QED
  BY <1>1, <1>2, KeysExist

\* Of the first n entries of an instance, a name finds the last one of its spellings.
Finds(i, n, keys) ==
  /\ DOMAIN keys = {Upper[Instance(i)[k].name] : k \in 1 .. n}
  /\ \A x \in DOMAIN keys :
       \E k \in 1 .. n : /\ keys[x] = <<i, k>> /\ Upper[Instance(i)[k].name] = x
                         /\ \A j \in 1 .. n : Upper[Instance(i)[j].name] = x => j <= k

LEMMA InsertFinds ==
  ASSUME NEW i, NEW n \in Nat, NEW keys, Finds(i, n, keys)
  PROVE  Finds(i, n + 1, insertKey(keys, Instance(i)[n + 1].name, <<i, n + 1>>))
<1>1. PICK u : u = Upper[Instance(i)[n + 1].name]
  OBVIOUS
<1>2. PICK more : more = insertKey(keys, Instance(i)[n + 1].name, <<i, n + 1>>)
  OBVIOUS
<1>3. more = [x \in DOMAIN keys \cup {u} |-> IF x = u THEN <<i, n + 1>> ELSE keys[x]]
  BY <1>1, <1>2 DEF insertKey
<1>4. 1 .. n + 1 = (1 .. n) \cup {n + 1}
  OBVIOUS
<1>5. DOMAIN more = {Upper[Instance(i)[k].name] : k \in 1 .. n + 1}
  BY <1>1, <1>3, <1>4 DEF Finds
<1>6. ASSUME NEW x \in DOMAIN more
      PROVE  \E k \in 1 .. n + 1 : /\ more[x] = <<i, k>> /\ Upper[Instance(i)[k].name] = x
                                   /\ \A j \in 1 .. n + 1 : Upper[Instance(i)[j].name] = x => j <= k
  <2>1. CASE x = u
    <3>1. more[x] = <<i, n + 1>> /\ Upper[Instance(i)[n + 1].name] = x
      BY <1>1, <1>3, <2>1
    <3>2. n + 1 \in 1 .. n + 1 /\ \A j \in 1 .. n + 1 : j <= n + 1
      OBVIOUS
    <3>3. QED
      BY <3>1, <3>2
  <2>2. CASE x # u
    <3>1. x \in DOMAIN keys /\ more[x] = keys[x]
      BY <1>3, <2>2
    <3>2. PICK k \in 1 .. n : /\ keys[x] = <<i, k>> /\ Upper[Instance(i)[k].name] = x
                              /\ \A j \in 1 .. n : Upper[Instance(i)[j].name] = x => j <= k
      BY <3>1 DEF Finds
    <3>3. ASSUME NEW j \in 1 .. n + 1, Upper[Instance(i)[j].name] = x PROVE j <= k
      <4>1. j # n + 1
        BY <1>1, <2>2, <3>3
      <4>2. QED
        BY <1>4, <3>2, <3>3, <4>1
    <3>4. k \in 1 .. n + 1
      BY <1>4
    <3>5. QED
      BY <3>1, <3>2, <3>3, <3>4
  <2>3. QED
    BY <2>1, <2>2
<1>7. QED
  BY <1>2, <1>5, <1>6 DEF Finds

LEMMA LoadFinds ==
  ASSUME NEW i, Readable(i) \in Nat
  PROVE  Finds(i, Readable(i), load(i))
<1>1. PICK g : KeysAfter(i, Readable(i), g) /\ load(i) = g[Readable(i)]
  BY LoadAnswers
<1>2. PICK r \in Nat : r = Readable(i)
  OBVIOUS
<1> DEFINE P == {n \in Nat : n <= r => Finds(i, n, g[n])}
<1>3. 0 \in P
  <2>1. g[0] = [x \in {} |-> <<0, 0>>]
    BY <1>1, <1>2 DEF KeysAfter
  <2>2. DOMAIN g[0] = {} /\ 1 .. 0 = {}
    BY <2>1
  <2>3. QED
    BY <2>2 DEF Finds
<1>4. ASSUME NEW n \in P PROVE n + 1 \in P
  <2>1. n \in Nat
    BY <1>4
  <2>2. ASSUME n + 1 <= r PROVE Finds(i, n + 1, g[n + 1])
    <3>1. n + 1 \in 0 .. r /\ n + 1 # 0 /\ (n + 1) - 1 = n /\ n <= r
      BY <1>2, <2>1, <2>2
    <3>2. g[n + 1] = insertKey(g[(n + 1) - 1], Instance(i)[n + 1].name, <<i, n + 1>>)
      BY <1>1, <1>2, <3>1 DEF KeysAfter
    <3>3. QED
      BY <1>4, <2>1, <3>1, <3>2, InsertFinds
  <2>3. QED
    BY <2>1, <2>2
<1>5. P = Nat
  <2> HIDE DEF P
  <2>1. P \in SUBSET Nat
    BY DEF P
  <2>2. QED
    BY <1>3, <1>4, <2>1, Induction
<1>6. QED
  BY <1>1, <1>2, <1>5

-----------------------------------------------------------------------------
(* Metadata: an open file answers, a closed one has released.                *)

Loaded == IF block = <<>> THEN <<[n \in {} |-> <<0, 0>>]>> ELSE [i \in DOMAIN block |-> load(i)]

AllCreated == UNION {Created(i) : i \in DOMAIN block}

MInv ==
  /\ block \in Blocks
  /\ state \in {"new", "open", "closed"}
  /\ state # "open" => m_vpMetadata = <<>>
  /\ state = "open" => Intact = Len(block) /\ m_vpMetadata = Loaded
  /\ OnlyKnownKeysLeak

LEMMA BlockType ==
  ASSUME block \in Blocks
  PROVE  /\ Len(block) \in Nat /\ DOMAIN block = 1 .. Len(block)
         /\ \A i \in DOMAIN block :
              /\ block[i] \in Seq([type : KnownTypes \cup {"unknown"}, name : Names, value : Int])
              /\ Len(block[i]) \in Nat /\ DOMAIN block[i] = 1 .. Len(block[i])
              /\ \A k \in DOMAIN block[i] : block[i][k] \in [type : KnownTypes \cup {"unknown"}, name : Names, value : Int]
<1>1. PICK E : E = [type : KnownTypes \cup {"unknown"}, name : Names, value : Int]
  OBVIOUS
<1>2. block \in Seq(Seq(E))
  BY <1>1, BlocksAssumption
<1>3. Len(block) \in Nat /\ DOMAIN block = 1 .. Len(block)
  BY <1>2
<1>4. ASSUME NEW i \in DOMAIN block
      PROVE  /\ block[i] \in Seq(E)
             /\ Len(block[i]) \in Nat /\ DOMAIN block[i] = 1 .. Len(block[i])
             /\ \A k \in DOMAIN block[i] : block[i][k] \in E
  <2>1. block[i] \in Seq(E)
    BY <1>2, <1>3, <1>4
  <2>2. PICK b : b = block[i]
    OBVIOUS
  <2>3. b \in Seq(E)
    BY <2>1, <2>2
  <2>4. Len(b) \in Nat /\ DOMAIN b = 1 .. Len(b) /\ \A k \in DOMAIN b : b[k] \in E
    BY <2>3
  <2>5. QED
    BY <2>2, <2>3, <2>4
<1>5. QED
  BY <1>1, <1>3, <1>4

\* What load() reads of an instance is a part of it.
LEMMA ReadableType ==
  ASSUME block \in Blocks, NEW i \in DOMAIN block
  PROVE  Readable(i) \in 0 .. Len(block[i])
<1> DEFINE bad == {j \in DOMAIN Instance(i) : Instance(i)[j].type \notin KnownTypes}
<1>1. bad \in SUBSET (1 .. Len(block[i])) /\ Len(block[i]) \in Nat
  BY BlockType DEF Instance
<1>2. CASE bad = {}
  BY <1>1, <1>2 DEF Readable, Instance
<1>3. CASE bad # {}
  <2>1. bad \in SUBSET Nat
    BY <1>1
  <2>2. \E x \in bad : \A y \in bad : x <= y
    <3> HIDE DEF bad
    <3>1. QED
      BY <1>3, <2>1, LeastElement
  <2>3. PICK x \in bad : x = CHOOSE z \in bad : \A k \in bad : z <= k
    BY <2>2
  <2>4. Readable(i) = x - 1
    BY <1>3, <2>3 DEF Readable
  <2>5. QED
    BY <1>1, <2>4
<1>4. QED
  BY <1>2, <1>3

\* The last entry of a name in an intact instance is the one that is found, and
\* every entry that is read is of a known type.
LEMMA IntactFinds ==
  ASSUME block \in Blocks, Intact = Len(block), NEW i \in DOMAIN block
  PROVE  /\ Finds(i, Len(block[i]), load(i))
         /\ Created(i) = {<<i, k>> : k \in DOMAIN block[i]}
<1>1. Readable(i) = Len(block[i]) /\ Readable(i) \in Nat
  BY IntactLoads, BlockType DEF Loads, Instance
<1>2. QED
  BY <1>1, LoadFinds, BlockType DEF Created

\* The instances that load before one that does not.
LEMMA IntactType ==
  ASSUME block \in Blocks
  PROVE  Intact \in 0 .. Len(block)
<1> DEFINE bad == {k \in DOMAIN block : ~Loads(k)}
<1>1. bad \in SUBSET Nat /\ Len(block) \in Nat /\ DOMAIN block = 1 .. Len(block)
  BY BlockType
<1>2. CASE bad = {}
  BY <1>1, <1>2 DEF Intact
<1>3. CASE bad # {}
  <2>1. \E x \in bad : \A y \in bad : x <= y
    <3> HIDE DEF bad
    <3>1. QED
      BY <1>1, <1>3, LeastElement
  <2>2. PICK x \in bad : x = CHOOSE z \in bad : \A j \in bad : z <= j
    BY <2>1
  <2>3. Intact = x - 1
    BY <1>3, <2>2 DEF Intact
  <2>4. QED
    BY <1>1, <2>3
<1>4. QED
  BY <1>2, <1>3

\* Of the keys an instance has created, its map leads to those whose name does not
\* come back.
LEMMA MapOwns ==
  ASSUME NEW i, Readable(i) \in Nat
  PROVE  /\ {load(i)[n] : n \in DOMAIN load(i)} = Created(i) \ ComesBack(i)
         /\ ComesBack(i) \subseteq Created(i)
<1> DEFINE keys == load(i)
           r == Readable(i)
<1>1. keys = load(i) /\ r = Readable(i) /\ r \in Nat
  OBVIOUS
<1>2. Finds(i, r, keys)
  BY <1>1, LoadFinds
<1>3. Created(i) = {<<i, j>> : j \in 1 .. r}
  BY <1>1 DEF Created
<1>4. ASSUME NEW j \in 1 .. r
      PROVE  <<i, j>> \in ComesBack(i) <=>
               \E k \in j+1 .. r : Upper[Instance(i)[k].name] = Upper[Instance(i)[j].name]
  BY <1>1, <1>4 DEF ComesBack
<1>5. ASSUME NEW n \in DOMAIN keys PROVE keys[n] \in Created(i) \ ComesBack(i)
  <2>1. PICK k \in 1 .. r : /\ keys[n] = <<i, k>> /\ Upper[Instance(i)[k].name] = n
                            /\ \A j \in 1 .. r : Upper[Instance(i)[j].name] = n => j <= k
    BY <1>2, <1>5 DEF Finds
  <2>2. ASSUME NEW l \in k+1 .. r, Upper[Instance(i)[l].name] = n PROVE FALSE
    BY <1>1, <2>1, <2>2
  <2>3. QED
    BY <1>3, <1>4, <2>1, <2>2
<1>6. ASSUME NEW object \in Created(i) \ ComesBack(i)
      PROVE  \E n \in DOMAIN keys : object = keys[n]
  <2>1. PICK j \in 1 .. r : object = <<i, j>>
    BY <1>3, <1>6
  <2>2. PICK n : n = Upper[Instance(i)[j].name]
    OBVIOUS
  <2>3. n \in DOMAIN keys
    BY <1>2, <2>2 DEF Finds
  <2>4. PICK k \in 1 .. r : /\ keys[n] = <<i, k>> /\ Upper[Instance(i)[k].name] = n
                            /\ \A l \in 1 .. r : Upper[Instance(i)[l].name] = n => l <= k
    BY <1>2, <2>3 DEF Finds
  <2>5. j <= k
    BY <2>2, <2>4
  <2>6. CASE k = j
    BY <2>1, <2>3, <2>4, <2>6
  <2>7. CASE k # j
    <3>1. k \in j+1 .. r
      BY <1>1, <2>5, <2>7
    <3>2. QED
      BY <1>4, <1>6, <2>1, <2>2, <2>4, <3>1
  <2>8. QED
    BY <2>6, <2>7
<1>7. ComesBack(i) \subseteq Created(i)
  BY <1>1, <1>3 DEF ComesBack
<1>8. {keys[n] : n \in DOMAIN keys} = Created(i) \ ComesBack(i)
  BY <1>5, <1>6
<1>9. QED
  BY <1>1, <1>7, <1>8

\* Deleting the first n instances leaves of all keys those whose name comes back.
LEMMA DeletedAre ==
  ASSUME block \in Blocks, NEW n \in 0 .. Len(block)
  PROVE  /\ \A i \in 1 .. n : i \in DOMAIN block
         /\ \A object \in Owned([i \in 1 .. n |-> load(i)]) :
              \E i \in 1 .. n : object \in Created(i) \ ComesBack(i)
         /\ \A i \in 1 .. n : Created(i) \ ComesBack(i) \subseteq Owned([j \in 1 .. n |-> load(j)])
<1>1. Len(block) \in Nat /\ DOMAIN block = 1 .. Len(block)
  BY BlockType
<1>2. \A i \in 1 .. n : i \in DOMAIN block
  BY <1>1
<1>3. ASSUME NEW i \in 1 .. n PROVE Readable(i) \in Nat
  <2>1. i \in DOMAIN block
    BY <1>2
  <2>2. Readable(i) \in 0 .. Len(block[i]) /\ Len(block[i]) \in Nat
    BY <2>1, ReadableType, BlockType
  <2>3. QED
    BY <2>2
<1>4. PICK maps : maps = [i \in 1 .. n |-> load(i)]
  OBVIOUS
<1>5. DOMAIN maps = 1 .. n /\ \A i \in 1 .. n : maps[i] = load(i)
  BY <1>4
<1>6. \A i \in 1 .. n : {maps[i][x] : x \in DOMAIN maps[i]} = Created(i) \ ComesBack(i)
  <2>1. ASSUME NEW i \in 1 .. n
        PROVE  {maps[i][x] : x \in DOMAIN maps[i]} = Created(i) \ ComesBack(i)
    <3>1. {load(i)[x] : x \in DOMAIN load(i)} = Created(i) \ ComesBack(i)
      BY <1>3, MapOwns
    <3>2. QED
      BY <1>5, <3>1
  <2>2. QED
    BY <2>1
<1>7. \A object : object \in Owned(maps) <=> \E i \in 1 .. n : object \in Created(i) \ ComesBack(i)
  BY <1>5, <1>6 DEF Owned
<1>8. QED
  BY <1>2, <1>4, <1>7

\* Keys of different instances are different.
LEMMA CreatedApart ==
  ASSUME NEW i, NEW j, NEW object, object \in Created(i), object \in Created(j)
  PROVE  i = j
BY DEF Created

\* What deleting the first n instances leaves of the keys of instances 1 to m.
LEMMA KeysLeft ==
  ASSUME block \in Blocks, NEW n \in 0 .. Len(block), NEW m \in {n, n + 1}, m <= Len(block)
  PROVE  (UNION {Created(i) : i \in 1 .. m}) \ Owned([i \in 1 .. n |-> load(i)])
           = (UNION {ComesBack(i) : i \in 1 .. n}) \cup IF m = n THEN {} ELSE Created(n + 1)
<1>1. n \in Nat /\ Len(block) \in Nat /\ m \in Nat
  BY BlockType
<1>2. PICK owned : owned = Owned([i \in 1 .. n |-> load(i)])
  OBVIOUS
<1>3. /\ \A i \in 1 .. n : i \in DOMAIN block
      /\ \A object \in owned : \E i \in 1 .. n : object \in Created(i) \ ComesBack(i)
      /\ \A i \in 1 .. n : Created(i) \ ComesBack(i) \subseteq owned
  BY <1>2, DeletedAre
<1>4. ASSUME NEW i \in 1 .. n PROVE ComesBack(i) \subseteq Created(i) /\ ComesBack(i) \cap owned = {}
  <2>1. Readable(i) \in Nat
    <3>1. i \in DOMAIN block
      BY <1>3
    <3>2. Readable(i) \in 0 .. Len(block[i]) /\ Len(block[i]) \in Nat
      BY <3>1, ReadableType, BlockType
    <3>3. QED
      BY <3>2
  <2>2. ComesBack(i) \subseteq Created(i)
    BY <2>1, MapOwns
  <2>3. QED
    BY <1>3, <2>2, CreatedApart
<1>5. Created(n + 1) \cap owned = {}
  <2>1. \A i \in 1 .. n : i # n + 1
    BY <1>1
  <2>2. QED
    BY <1>3, <2>1, CreatedApart
<1>6. /\ \A i \in 1 .. n : i \in 1 .. m
      /\ m # n => m = n + 1 /\ n + 1 \in 1 .. m
      /\ \A i \in 1 .. m : i \in 1 .. n \/ (m # n /\ i = n + 1)
  BY <1>1
<1>7. PICK left : left = (UNION {ComesBack(i) : i \in 1 .. n}) \cup IF m = n THEN {} ELSE Created(n + 1)
  OBVIOUS
<1>8. ASSUME NEW object \in UNION {Created(i) : i \in 1 .. m}, object \notin owned
      PROVE  object \in left
  <2>1. PICK i \in 1 .. m : object \in Created(i)
    BY <1>8
  <2>2. CASE i \in 1 .. n
    <3>1. object \in ComesBack(i)
      BY <1>3, <1>8, <2>1, <2>2
    <3>2. QED
      BY <1>7, <2>2, <3>1
  <2>3. CASE m # n /\ i = n + 1
    BY <1>7, <2>1, <2>3
  <2>4. QED
    BY <1>6, <2>2, <2>3
<1>9. ASSUME NEW object \in left
      PROVE  object \in UNION {Created(i) : i \in 1 .. m} /\ object \notin owned
  <2>1. CASE \E i \in 1 .. n : object \in ComesBack(i)
    BY <1>4, <1>6, <2>1
  <2>2. CASE m # n /\ object \in Created(n + 1)
    BY <1>5, <1>6, <2>2
  <2>3. QED
    BY <1>7, <1>9, <2>1, <2>2
<1>10. (UNION {Created(i) : i \in 1 .. m}) \ owned = left
  BY <1>8, <1>9
<1>11. QED
  BY <1>2, <1>7, <1>10

\* What leaks is a part of what was created.
LEMMA LeakedWasCreated ==
  ASSUME block \in Blocks, Intact = Len(block)
  PROVE  Leaked = UNION {ComesBack(i) : i \in 1 .. Len(block)} /\ Leaked \subseteq AllCreated
<1>1. Len(block) \in Nat /\ DOMAIN block = 1 .. Len(block)
  BY BlockType
<1>2. Leaked = UNION {ComesBack(i) : i \in 1 .. Len(block)}
  BY <1>1 DEF Leaked
<1>3. ASSUME NEW i \in DOMAIN block PROVE ComesBack(i) \subseteq Created(i)
  <2>1. Readable(i) \in 0 .. Len(block[i]) /\ Len(block[i]) \in Nat
    BY ReadableType, BlockType
  <2>2. QED
    BY <2>1, MapOwns
<1>4. QED
  BY <1>1, <1>2, <1>3 DEF AllCreated

\* What these operators mean depends on the metadata block only.
LEMMA SameBlock ==
  ASSUME block' = block
  PROVE  Intact' = Intact /\ Loaded' = Loaded /\ AllCreated' = AllCreated /\ Leaked' = Leaked
BY DEF Intact, Loaded, AllCreated, Leaked, ComesBack, Created, Loads, Readable, Instance, load

LEMMA MInitInv == MInit => MInv
BY DEF MInit, MInv, OnlyKnownKeysLeak

LEMMA LoadSucceedsInv ==
  ASSUME MInv, LoadSucceeds
  PROVE  MInv'
<1>1. /\ block' = block /\ state' = "open" /\ m_vpMetadata' = Loaded
      /\ Intact = Len(block) /\ block \in Blocks
      /\ live' = live \cup AllCreated
  BY DEF LoadSucceeds, Loaded, AllCreated, MInv
<1>2. live = {} \/ live = Leaked
  BY DEF LoadSucceeds, MInv, OnlyKnownKeysLeak
<1>3. live' = AllCreated
  BY <1>1, <1>2, LeakedWasCreated
<1>4. Intact' = Intact /\ Loaded' = Loaded /\ AllCreated' = AllCreated
  BY <1>1, SameBlock
<1>5. OnlyKnownKeysLeak'
  BY <1>1, <1>3, <1>4 DEF OnlyKnownKeysLeak, AllCreated
<1>6. QED
  BY <1>1, <1>4, <1>5 DEF MInv

LEMMA LoadFailsInv ==
  ASSUME MInv, LoadFails
  PROVE  MInv'
<1>1. /\ block' = block /\ state' = "closed" /\ m_vpMetadata' = <<>>
      /\ block \in Blocks /\ Intact < Len(block)
      /\ live' = live \cup ((UNION {Created(i) : i \in 1 .. Intact + 1})
                             \ Owned([i \in 1 .. Intact |-> load(i)]))
  BY DEF LoadFails, MInv
<1>2. live = {} \/ live = Leaked
  BY DEF LoadFails, MInv, OnlyKnownKeysLeak
<1>3. PICK n \in 0 .. Len(block) : n = Intact
  BY <1>1, IntactType
<1>4. n + 1 <= Len(block) /\ n + 1 # n /\ n < Len(block)
  BY <1>1, <1>3, BlockType
<1>5. (UNION {Created(i) : i \in 1 .. n + 1}) \ Owned([i \in 1 .. n |-> load(i)])
        = (UNION {ComesBack(i) : i \in 1 .. n}) \cup Created(n + 1)
  BY <1>1, <1>4, KeysLeft
<1>6. Leaked = (UNION {ComesBack(i) : i \in 1 .. n}) \cup Created(n + 1)
  BY <1>3, <1>4 DEF Leaked
<1>7. live' = Leaked
  BY <1>1, <1>2, <1>3, <1>5, <1>6
<1>8. Leaked' = Leaked
  BY <1>1, SameBlock
<1>9. OnlyKnownKeysLeak'
  BY <1>1, <1>7, <1>8 DEF OnlyKnownKeysLeak
<1>10. QED
  BY <1>1, <1>9 DEF MInv

LEMMA CloseInv ==
  ASSUME MInv, Close
  PROVE  MInv'
<1>1. /\ block' = block /\ state' = "closed" /\ m_vpMetadata' = <<>>
      /\ block \in Blocks /\ Intact = Len(block) /\ m_vpMetadata = Loaded
      /\ live' = live \ Owned(m_vpMetadata)
  BY DEF Close, MInv
<1>2. live = AllCreated
  BY DEF Close, MInv, OnlyKnownKeysLeak, AllCreated
<1>3. Len(block) \in Nat /\ DOMAIN block = 1 .. Len(block)
  BY <1>1, BlockType
<1>4. AllCreated \ Owned(Loaded) = Leaked
  <2>1. PICK n : n = Len(block) /\ n \in 0 .. Len(block)
    BY <1>3
  <2>2. (UNION {Created(i) : i \in 1 .. n}) \ Owned([i \in 1 .. n |-> load(i)])
          = UNION {ComesBack(i) : i \in 1 .. n}
    <3>1. n \in {n, n + 1} /\ n <= Len(block)
      BY <1>3, <2>1
    <3>2. (UNION {Created(i) : i \in 1 .. n}) \ Owned([i \in 1 .. n |-> load(i)])
            = (UNION {ComesBack(i) : i \in 1 .. n}) \cup IF n = n THEN {} ELSE Created(n + 1)
      BY <1>1, <2>1, <3>1, KeysLeft, Zenon
    <3>3. PICK kept : kept = UNION {ComesBack(i) : i \in 1 .. n}
      OBVIOUS
    <3>4. QED
      BY <3>2, <3>3
  <2>3. Leaked = UNION {ComesBack(i) : i \in 1 .. n}
    BY <1>1, <2>1, LeakedWasCreated
  <2>4. AllCreated = UNION {Created(i) : i \in 1 .. n}
    BY <1>3, <2>1 DEF AllCreated
  <2>5. CASE block # <<>>
    <3>1. Loaded = [i \in 1 .. n |-> load(i)]
      BY <1>3, <2>1, <2>5 DEF Loaded
    <3>2. QED
      BY <2>2, <2>3, <2>4, <3>1
  <2>6. CASE block = <<>>
    <3>1. 1 .. n = {}
      BY <2>1, <2>6
    <3>2. QED
      BY <2>3, <2>4, <3>1
  <2>7. QED
    BY <2>5, <2>6
<1>5. live' = Leaked /\ Leaked' = Leaked
  BY <1>1, <1>2, <1>4, SameBlock
<1>6. OnlyKnownKeysLeak'
  BY <1>1, <1>5 DEF OnlyKnownKeysLeak
<1>7. QED
  BY <1>1, <1>6 DEF MInv

LEMMA MStepInv == MInv /\ [MNext]_mvars => MInv'
<1> SUFFICES ASSUME MInv, [MNext]_mvars PROVE MInv'
  OBVIOUS
<1>1. CASE UNCHANGED mvars
  <2>1. /\ block' = block /\ state' = state /\ live' = live
        /\ m_vpMetadata' = m_vpMetadata
    BY <1>1 DEF mvars
  <2>2. Intact' = Intact /\ Loaded' = Loaded /\ AllCreated' = AllCreated /\ Leaked' = Leaked
    BY <2>1, SameBlock
  <2>3. OnlyKnownKeysLeak'
    BY <2>1, <2>2 DEF MInv, OnlyKnownKeysLeak, AllCreated
  <2>4. QED
    BY <2>1, <2>2, <2>3 DEF MInv
<1>2. QED
  BY <1>1, LoadSucceedsInv, LoadFailsInv, CloseInv DEF MNext

\* In an open file every spelling of a name finds the last entry of that name, and
\* its key object is alive.
LEMMA OpenFileAnswers == MInv => LookupIsLastSpelling
<1> SUFFICES ASSUME MInv, NEW i \in DOMAIN m_vpMetadata, NEW name \in Names \ {EmptyName}
             PROVE  LET keys == m_vpMetadata[i]
                        same == {j \in DOMAIN (IF block = <<>> THEN <<>> ELSE block[i]) : Upper[block[i][j].name] = Upper[name]}
                    IN  IF same = {} THEN getKeyType(keys, name) = "none"
                        ELSE LET e == block[i][CHOOSE j \in same : \A k \in same : j >= k]
                             IN  /\ findKey(keys, name) \in live
                                 /\ getKeyString(keys, name) = <<e.type, e.value>>
                                 /\ e.type = "DAFF_INT" => getKeyInt(keys, name) = e.value
                                 /\ e.type \in {"DAFF_INT", "DAFF_FLOAT"} => getKeyFloat(keys, name) = e.value
                                 /\ getKeyBool(keys, name) = (e.type = "DAFF_BOOL" /\ e.value # 0)
  BY DEF LookupIsLastSpelling
<1> DEFINE same == {j \in DOMAIN (IF block = <<>> THEN <<>> ELSE block[i]) : Upper[block[i][j].name] = Upper[name]}
<1>1. state = "open" /\ block \in Blocks /\ Intact = Len(block) /\ m_vpMetadata = Loaded
  BY DEF MInv
<1>2. PICK keys : keys = m_vpMetadata[i]
  OBVIOUS
<1>3. PICK u : u = Upper[name]
  OBVIOUS
<1>4. CASE block = <<>>
  <2>1. m_vpMetadata = <<[n \in {} |-> <<0, 0>>]>> /\ i = 1
    BY <1>1, <1>4 DEF Loaded
  <2>2. DOMAIN keys = {}
    BY <1>2, <2>1
  <2>3. same = {}
    BY <1>4
  <2>4. getKeyType(keys, name) = "none"
    BY <2>2 DEF getKeyType, hasKey, findKey
  <2>5. QED
    BY <1>2, <2>3, <2>4
<1>5. CASE block # <<>>
  <2>1. i \in DOMAIN block /\ keys = load(i)
    BY <1>1, <1>2, <1>5 DEF Loaded
  <2>2. Finds(i, Len(block[i]), keys)
    BY <1>1, <2>1, IntactFinds
  <2>3. Len(block[i]) \in Nat /\ DOMAIN block[i] = 1 .. Len(block[i])
    BY <1>1, <2>1, BlockType
  <2>4. same = {j \in DOMAIN block[i] : Upper[block[i][j].name] = u}
    BY <1>3, <1>5
  <2>5. CASE same = {}
    <3>1. u \notin DOMAIN keys
      BY <2>2, <2>3, <2>4, <2>5 DEF Finds, Instance
    <3>2. getKeyType(keys, name) = "none"
      BY <1>3, <3>1 DEF getKeyType, hasKey, findKey
    <3>3. QED
      BY <1>2, <2>5, <3>2
  <2>6. CASE same # {}
    <3>1. u \in DOMAIN keys
      BY <2>2, <2>3, <2>4, <2>6 DEF Finds, Instance
    <3>2. PICK k \in DOMAIN block[i] :
            /\ keys[u] = <<i, k>> /\ Upper[block[i][k].name] = u
            /\ \A j \in DOMAIN block[i] : Upper[block[i][j].name] = u => j <= k
      BY <2>2, <2>3, <3>1 DEF Finds, Instance
    <3>3. k \in same /\ \A j \in same : k >= j
      BY <2>3, <2>4, <3>2
    <3>4. k = CHOOSE j \in same : \A l \in same : j >= l
      <4>1. \A j \in same : (\A l \in same : j >= l) => j = k
        BY <2>3, <2>4, <3>3
      <4>2. QED
        BY <3>3, <4>1
    <3>5. PICK e : e = block[i][k]
      OBVIOUS
    <3>6. findKey(keys, name) = <<i, k>> /\ <<i, k>> # NoKey
      <4>1. k # 0
        BY <2>3, <3>2
      <4>2. QED
        BY <1>3, <3>1, <3>2, <4>1 DEF findKey, NoKey
    <3>7. hasKey(keys, name) /\ Entry(findKey(keys, name)) = e
      BY <3>5, <3>6 DEF hasKey, Entry
    <3>8. findKey(keys, name) \in live
      <4>1. live = UNION {Created(l) : l \in DOMAIN block}
        BY <1>1 DEF MInv, OnlyKnownKeysLeak
      <4>2. <<i, k>> \in Created(i)
        BY <1>1, <2>1, <3>2, IntactFinds
      <4>3. QED
        BY <2>1, <3>6, <4>1, <4>2
    <3>9. getKeyType(keys, name) = e.type
      BY <3>7 DEF getKeyType
    <3>10. /\ getKeyString(keys, name) = <<e.type, e.value>>
           /\ e.type = "DAFF_INT" => getKeyInt(keys, name) = e.value
           /\ e.type \in {"DAFF_INT", "DAFF_FLOAT"} => getKeyFloat(keys, name) = e.value
           /\ getKeyBool(keys, name) = (e.type = "DAFF_BOOL" /\ e.value # 0)
      BY <3>7, <3>9 DEF getKeyString, getKeyInt, getKeyFloat, getKeyBool
    <3>11. QED
      BY <1>2, <2>6, <3>4, <3>5, <3>8, <3>10
  <2>7. QED
    BY <2>5, <2>6
<1>6. QED
  BY <1>4, <1>5

\* The getters of an open file answer, for every spelling of a key name, with type
\* and value of the last entry of that name, from a key object that has not been
\* deleted: for metadata of any number of instances and entries, with names that
\* differ in case or come back.
THEOREM MetadataAnswers == MSpec => []LookupIsLastSpelling
<1>1. MInit => MInv
  BY MInitInv
<1>2. MInv /\ [MNext]_mvars => MInv'
  BY MStepInv
<1>3. MInv => LookupIsLastSpelling
  BY OpenFileAnswers
<1>4. QED
  BY <1>1, <1>2, <1>3, PTL DEF MSpec

\* Once metadata has been released, exactly the keys whose name came back in their
\* instance have leaked and, where an instance did not load, the keys read of it
\* before its unknown type; while a file is open no key has been deleted.
THEOREM MetadataIsReleased == MSpec => []OnlyKnownKeysLeak
<1>1. MInit => MInv
  BY MInitInv
<1>2. MInv /\ [MNext]_mvars => MInv'
  BY MStepInv
<1>3. MInv => OnlyKnownKeysLeak
  BY DEF MInv
<1>4. QED
  BY <1>1, <1>2, <1>3, PTL DEF MSpec
=============================================================================
