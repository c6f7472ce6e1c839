-------------------------- MODULE DAFFRecordAccess --------------------------
(***************************************************************************)
(* The record getters of DAFFReaderImpl (src/src/DAFFReaderImpl.cpp) as    *)
(* functions of an opened file.  A getter answers                          *)
(*   code   its return value,                                              *)
(*   cells  a function: what it stored at which index of the caller's      *)
(*          buffer.  Its domain shows how much of the buffer it touched.   *)
(*                                                                         *)
(* A file is a record with                                                 *)
(*   content, records, channels, elements   from the headers,              *)
(*   block   the data block in memory: a sequence of converted numbers,    *)
(*   desc    [record, channel] -> offset in block, zeros, length.          *)
(***************************************************************************)
EXTENDS Integers, Sequences

CONSTANTS Garbage,            \* what lies in memory behind the data block
          cabs(_, _), carg(_, _)   \* amount and angle of a pair

Answer(code, cells) == [code |-> code, cells |-> cells]
Nothing == [i \in {} |-> 0]

(* What a caller's buffer holds after a getter stored cells in it. *)
Overlay(buffer, cells) ==
  [i \in DOMAIN buffer |-> IF i \in DOMAIN cells THEN cells[i] ELSE buffer[i]]

(* pfSrc[ i ], with pfSrc at the data of a record. *)
At(f, r, c, i) ==
  LET j == f.desc[<<r, c>>].offset + i
  IN  IF j < Len(f.block) THEN f.block[j + 1] ELSE Garbage

(* The range check at the head of the getters. *)
InvalidIndex(f, r, c) == r \notin 0 .. f.records-1 \/ c \notin 0 .. f.channels-1

Checked(f, r, c, cells) ==
  IF InvalidIndex(f, r, c) THEN Answer("DAFF_INVALID_INDEX", Nothing)
  ELSE Answer("DAFF_NO_ERROR", cells)

getEffectiveFilterCoeffs(f, r, c, gain) ==
  Checked(f, r, c, [i \in 0 .. f.desc[<<r, c>>].length-1 |-> At(f, r, c, i) * gain])

getFilterCoeffsUnshifted(f, r, c, gain) ==
  Checked(f, r, c, [i \in 0 .. f.elements-1 |->
    IF i < f.desc[<<r, c>>].length THEN At(f, r, c, i) * gain ELSE 0])

(* Zeros, the effective coefficients behind them, zeros to the end. *)
getFilterCoeffs(f, r, c, gain) ==
  LET d == f.desc[<<r, c>>]
      last == IF d.zeros + d.length > f.elements THEN d.zeros + d.length ELSE f.elements
  IN  Checked(f, r, c,
        [i \in 0 .. last-1 |->
           IF i \in d.zeros .. d.zeros + d.length - 1
           THEN At(f, r, c, i - d.zeros) * gain ELSE 0])

(* The coefficients are added to what the buffer holds. *)
addFilterCoeffs(f, r, c, gain, dest) ==
  LET d == f.desc[<<r, c>>]
  IN  Checked(f, r, c,
        [i \in d.zeros .. d.zeros + d.length - 1 |->
           dest[i] + At(f, r, c, i - d.zeros) * gain])

Modal == Answer("DAFF_MODAL_ERROR", Nothing)

(* The loop over interleaved magnitudes and phases runs to i <= n. *)
getMagnitudes(f, r, c) ==
  IF InvalidIndex(f, r, c) THEN Answer("DAFF_INVALID_INDEX", Nothing)
  ELSE CASE f.content = "MS"  -> Answer("DAFF_NO_ERROR", [i \in 0 .. f.elements-1 |-> At(f, r, c, i)])
         [] f.content = "MPS" -> Answer("DAFF_NO_ERROR", [i \in 0 .. f.elements |-> At(f, r, c, 2*i)])
         [] OTHER -> Modal

getPhases(f, r, c) ==
  IF InvalidIndex(f, r, c) THEN Answer("DAFF_INVALID_INDEX", Nothing)
  ELSE CASE f.content = "PS"  -> Answer("DAFF_NO_ERROR", [i \in 0 .. f.elements-1 |-> At(f, r, c, i)])
         [] f.content = "MPS" -> Answer("DAFF_NO_ERROR", [i \in 0 .. f.elements |-> At(f, r, c, 2*i + 1)])
         [] OTHER -> Modal

(* getMagnitude, getPhase: one value, with a check of the frequency. *)
getMagnitude(f, r, c, k) ==
  IF InvalidIndex(f, r, c) THEN Answer("DAFF_INVALID_INDEX", Nothing)
  ELSE IF f.content \notin {"MS", "MPS"} THEN Modal
  ELSE IF k \notin 0 .. f.elements-1 THEN Answer("DAFF_INVALID_INDEX", Nothing)
  ELSE Answer("DAFF_NO_ERROR", [i \in {0} |-> At(f, r, c, IF f.content = "MS" THEN k ELSE 2*k)])

getPhaseOfReal(f, r, c, k) ==
  IF InvalidIndex(f, r, c) THEN Answer("DAFF_INVALID_INDEX", Nothing)
  ELSE IF f.content \notin {"PS", "MPS"} THEN Modal
  ELSE IF k \notin 0 .. f.elements-1 THEN Answer("DAFF_INVALID_INDEX", Nothing)
  ELSE Answer("DAFF_NO_ERROR", [i \in {0} |-> At(f, r, c, IF f.content = "PS" THEN k ELSE 2*k)])

getPhase(f, r, c, k) ==
  IF InvalidIndex(f, r, c) THEN Answer("DAFF_INVALID_INDEX", Nothing)
  ELSE IF f.content \notin {"PS", "MPS"} THEN Modal
  ELSE IF k \notin 0 .. f.elements-1 THEN Answer("DAFF_INVALID_INDEX", Nothing)
  ELSE Answer("DAFF_NO_ERROR", [i \in {0} |-> At(f, r, c, IF f.content = "PS" THEN k ELSE 2*k + 1)])

(* getCoefficientsRI and getDFTCoeffs copy a record of pairs. *)
Pairs(f, r, c) == Checked(f, r, c, [i \in 0 .. 2*f.elements - 1 |-> At(f, r, c, i)])
getCoefficientsRI(f, r, c) == Pairs(f, r, c)
getDFTCoeffs(f, r, c) == Pairs(f, r, c)

(* Amounts and angles of the pairs, again to i <= n. *)
getCoefficientsMP(f, r, c) ==
  LET pair(k) == <<At(f, r, c, 2*k), At(f, r, c, 2*k + 1)>>
  IN  Checked(f, r, c,
        [i \in 0 .. 2*f.elements + 1 |->
           LET z == pair(i \div 2) IN IF i % 2 = 0 THEN cabs(z[1], z[2]) ELSE carg(z[1], z[2])])

(* One pair; the frequency is only asserted. *)
getDFTCoeff(f, r, c, k) == Answer("DAFF_NO_ERROR", [i \in 0 .. 1 |-> At(f, r, c, 2*k + i)])
=============================================================================
