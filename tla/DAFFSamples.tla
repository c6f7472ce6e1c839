---------------------------- MODULE DAFFSamples ----------------------------
(***************************************************************************)
(* Byte order and sample conversion (src/src/Utils.cpp) and the writer's   *)
(* quantisation (src/matlab/daffv17_write.m).                              *)
(*                                                                         *)
(* A byte has Base values instead of 256, so that every sample of every    *)
(* width can be enumerated.  A byte string is a function from 0 .. n-1.    *)
(***************************************************************************)
EXTENDS Integers

CONSTANTS Base,          \* values of a byte
          LittleEndian   \* iTest = 1: the byte order of the machine

ASSUME BaseAssumption == Base \in Nat /\ Base > 1 /\ Base % 2 = 0
ASSUME EndianAssumption == LittleEndian \in BOOLEAN

(* How many values n bytes have; samples are of two to four bytes. *)
Values(n) == CASE n = 0 -> 1
               [] n = 1 -> Base
               [] n = 2 -> Base * Base
               [] n = 3 -> Base * Base * Base
               [] n = 4 -> Base * Base * Base * Base

Width(q) == CASE q = "int16" -> 2 [] q = "int24" -> 3 [] q = "float32" -> 4

FullScale(q) == Values(Width(q)) \div 2 - 1

(* The branches of all quantisations are modelled.  The writer of this
   version resets a requested quantisation to float32 before it looks at
   it, so files with integers come from other versions.

   int16(x*32767), int32(x*8388607): saturated to the width of the type,
   written with the least significant byte first.                          *)
Quantise(q, v) ==
  IF q = "float32" THEN v
  ELSE IF v > FullScale(q) THEN FullScale(q)
  ELSE IF v < -FullScale(q) - 1 THEN -FullScale(q) - 1 ELSE v

LittleEndianBytes(v, n) ==
  [i \in 0 .. n-1 |-> ((v % Values(n)) \div Values(i)) % Base]

byteswap(b, n) == [i \in 0 .. n-1 |-> b[n - 1 - i]]

(* The function pointers le2se_2byte .. le2se_8byte. *)
le2se(b, n) == IF LittleEndian THEN b ELSE byteswap(b, n)

(* What the machine reads from n bytes in its own order. *)
Signed(b, n) ==
  LET digit(i) == IF LittleEndian THEN b[i] ELSE b[n - 1 - i]
      word[i \in 0 .. n] == IF i = 0 THEN 0 ELSE word[i-1] + digit(i-1) * Values(i-1)
  IN  IF word[n] >= Values(n) \div 2 THEN word[n] - Values(n) ELSE word[n]

Negative(byte) == byte >= Base \div 2          \* byte & 0x80

(* stc_sint24_to_float: widen three bytes to four.  The branch for big
   endian machines looks for the sign in the second byte.                  *)
Widen24(p) ==
  IF LittleEndian
  THEN [i \in 0 .. 3 |-> IF i < 3 THEN p[i] ELSE IF Negative(p[2]) THEN Base - 1 ELSE 0]
  ELSE [i \in 0 .. 3 |-> IF i > 0 THEN p[i-1] ELSE IF Negative(p[1]) THEN Base - 1 ELSE 0]

(* The numerator of the float a stored sample is converted to; the code
   divides it by FullScale(q) and multiplies it by the gain.               *)
Converted(q, b) ==
  CASE q = "int16"   -> Signed(le2se(b, 2), 2)
    [] q = "int24"   -> Signed(Widen24(le2se(b, 3)), 4)
    [] q = "float32" -> Signed(le2se(b, 4), 4)

Stored(q, v) == LittleEndianBytes(Quantise(q, v), Width(q))
=============================================================================
