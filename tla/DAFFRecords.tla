----------------------------- MODULE DAFFRecords -----------------------------
(***************************************************************************)
(* A client reads the records of a file: the Matlab writer stores impulse  *)
(* responses without their quiet ends (daffv17_write.m) or spectra, the    *)
(* reader gives them back (DAFFReaderImpl.cpp).                            *)
(***************************************************************************)
EXTENDS DAFFSamples, DAFFRecordAccess, SequencesExt

CONSTANTS Files,       \* the files the client may open
          Gains,
          Dirty        \* what a new buffer holds

VARIABLES file,        \* the opened file
          dest,        \* the caller's buffer, with guard cells behind it
          code,        \* the last return value
          calls,       \* the calls that filled it
          peak         \* m_bOverallPeakInitialized and m_fOverallPeak

vars == <<file, dest, code, calls, peak>>

-----------------------------------------------------------------------------
(* The writer. *)

Alignment == 4
lwrmul(a) == Alignment * (a \div Alignment)
uprmul(a) == IF a % Alignment = 0 THEN a ELSE lwrmul(a) + Alignment

Abs(x) == IF x < 0 THEN -x ELSE x

(* daffv17_effective_bounds: first and last index at or above the
   threshold, counted from 0.                                              *)
Loud(ir, threshold) == {i \in 0 .. Len(ir)-1 : Abs(ir[i + 1]) >= threshold}
Lowest(S) == CHOOSE i \in S : \A j \in S : i <= j
Highest(S) == CHOOSE i \in S : \A j \in S : i >= j

(* The zone of a response that is stored. *)
EffectiveZone(ir, threshold) ==
  LET loud == Loud(ir, threshold)
  IN  IF threshold = 0 \/ loud = {} THEN [zeros |-> 0, length |-> Len(ir)]
      ELSE [zeros |-> lwrmul(Lowest(loud)),
            length |-> uprmul(Highest(loud) - Lowest(loud) + 1)]

(* Response number k, counted from 0 with the channels innermost; given[r][c]
   is what the user's data function returned.                              *)
Response(given, k) == given[k \div Len(given[1]) + 1][(k % Len(given[1])) + 1]

Zones(given, threshold) ==
  [k \in 0 .. Len(given) * Len(given[1]) - 1 |-> EffectiveZone(Response(given, k), threshold)]

(* Responses are stored one behind the other, cut to their zones. *)
Before(zone, n) ==
  LET before[k \in 0 .. n] == IF k = 0 THEN 0 ELSE before[k-1] + zone[k-1].length
  IN  before

Stacked(given, zone) ==
  FlattenSeq([k \in 1 .. Len(given) * Len(given[1]) |->
                SubSeq(Response(given, k-1), zone[k-1].zeros + 1, zone[k-1].zeros + zone[k-1].length)])

WriteIR(given, threshold, q) ==
  LET n == Len(given)
      m == Len(given[1])
      zone == Zones(given, threshold)
      before == Before(zone, n * m)
      data == Stacked(given, zone)
  IN  [content |-> "IR", records |-> n, channels |-> m,
       elements |-> Len(given[1][1]), quantization |-> q,
       block |-> [i \in 1 .. Len(data) |-> Converted(q, Stored(q, data[i]))],
       desc |-> [rc \in (0 .. n-1) \X (0 .. m-1) |->
                   LET k == rc[1] * m + rc[2]
                   IN  [offset |-> before[k], zeros |-> zone[k].zeros, length |-> zone[k].length]],
       maxLength |-> Highest({zone[k].length : k \in DOMAIN zone}),
       threshold |-> threshold, given |-> given]

(* What the writer accepts: responses of one length, a multiple of 4.  A
   float32 is one of the values of its four bytes.                         *)
Writable(given, threshold, q) ==
  /\ threshold \in Nat /\ q \in {"int16", "int24", "float32"}
  /\ given \in Seq(Seq(Seq(Int))) /\ given # <<>> /\ given[1] # <<>>
  /\ Len(given[1][1]) > 0 /\ Len(given[1][1]) % Alignment = 0
  /\ \A r \in DOMAIN given :
       /\ Len(given[r]) = Len(given[1])
       /\ \A c \in DOMAIN given[r] : Len(given[r][c]) = Len(given[1][1])
  /\ q = "float32" => \A r \in DOMAIN given : \A c \in DOMAIN given[r] : \A i \in DOMAIN given[r][c] :
                        given[r][c][i] \in -(Values(4) \div 2) .. Values(4) \div 2 - 1

(* Numbers per frequency: one, or a pair. *)
PerElement(content) == IF content \in {"MPS", "DFT"} THEN 2 ELSE 1

(* Spectra are stored whole, as float32; number i of the block is i. *)
WriteSpectrum(content, n, m, elements) ==
  LET size == PerElement(content) * elements
  IN  [content |-> content, records |-> n, channels |-> m,
       elements |-> elements, quantization |-> "float32",
       block |-> [i \in 1 .. n * m * size |-> i - 1],
       desc |-> [rc \in (0 .. n-1) \X (0 .. m-1) |->
                   [offset |-> (rc[1] * m + rc[2]) * size]]]

(* Every file has been written. *)
ASSUME FilesAssumption ==
  \A f \in Files :
    IF f.content = "IR"
    THEN Writable(f.given, f.threshold, f.quantization) /\ f = WriteIR(f.given, f.threshold, f.quantization)
    ELSE /\ f.content \in {"MS", "PS", "MPS", "DFT"}
         /\ f.records \in Nat \ {0} /\ f.channels \in Nat \ {0} /\ f.elements \in Nat \ {0}
         /\ f = WriteSpectrum(f.content, f.records, f.channels, f.elements)

ASSUME GainsAssumption == Gains \subseteq Int

-----------------------------------------------------------------------------
(* The client. *)

Call(name, r, c, k) == [name |-> name, record |-> r, channel |-> c, arg |-> k]

(* A new buffer of the size the interface asks for, and four guard cells. *)
Fresh(n) == [i \in 0 .. n + 3 |-> Dirty]

Receive(answer, buffer, history) ==
  /\ code' = answer.code
  /\ dest' = Overlay(buffer, answer.cells)
  /\ calls' = history
  /\ UNCHANGED <<file, peak>>

GetFilterCoeffs(r, c, g) ==
  /\ file.content = "IR"
  /\ Receive(getFilterCoeffs(file, r, c, g), Fresh(file.elements), <<Call("filter", r, c, g)>>)

(* Added to what an earlier getFilterCoeffs left (bound: once). *)
AddFilterCoeffs(r, c, g) ==
  /\ Len(calls) = 1 /\ calls[1].name = "filter" /\ code = "DAFF_NO_ERROR"
  /\ Receive(addFilterCoeffs(file, r, c, g, dest), dest, Append(calls, Call("filter", r, c, g)))

(* The buffer is dimensioned by getMaxEffectiveFilterLength. *)
GetEffectiveFilterCoeffs(r, c, g) ==
  /\ file.content = "IR"
  /\ Receive(getEffectiveFilterCoeffs(file, r, c, g), Fresh(file.maxLength),
             <<Call("effective", r, c, g)>>)

(* Lazy; one buffer serves all records, and the scan of a record ends
   iOffs before the end of its effective coefficients.                     *)
GetOverallPeak ==
  /\ file.content = "IR"
  /\ peak.known = FALSE
  /\ LET scanned(r, c) == file.desc[<<r, c>>].length - file.desc[<<r, c>>].zeros
         heard(r, c) == {Abs(At(file, r, c, k)) : k \in 0 .. scanned(r, c)-1}
     IN  peak' = [known |-> TRUE,
                  value |-> Highest({0} \cup UNION {heard(rc[1], rc[2]) : rc \in DOMAIN file.desc})]
  /\ UNCHANGED <<file, dest, code, calls>>

GetMagnitudes(r, c) ==
  /\ file.content # "IR"
  /\ Receive(getMagnitudes(file, r, c), Fresh(file.elements), <<Call("magnitudes", r, c, 1)>>)

GetPhases(r, c) ==
  /\ file.content # "IR"
  /\ Receive(getPhases(file, r, c), Fresh(file.elements), <<Call("phases", r, c, 1)>>)

GetMagnitude(r, c, k) ==
  /\ file.content # "IR"
  /\ Receive(getMagnitude(file, r, c, k), Fresh(1), <<Call("magnitude", r, c, k)>>)

GetPhase(r, c, k) ==
  /\ file.content # "IR"
  /\ Receive(getPhase(file, r, c, k), Fresh(1), <<Call("phase", r, c, k)>>)

GetCoefficientsRI(r, c) ==
  /\ file.content = "MPS"
  /\ Receive(getCoefficientsRI(file, r, c), Fresh(2 * file.elements), <<Call("pairs", r, c, 1)>>)

GetCoefficientsMP(r, c) ==
  /\ file.content = "MPS"
  /\ Receive(getCoefficientsMP(file, r, c), Fresh(2 * file.elements), <<Call("polar", r, c, 1)>>)

GetDFTCoeffs(r, c) ==
  /\ file.content = "DFT"
  /\ Receive(getDFTCoeffs(file, r, c), Fresh(2 * file.elements), <<Call("pairs", r, c, 1)>>)

(* The caller keeps to the ranges, which are only asserted. *)
GetDFTCoeff(r, c, k) ==
  /\ file.content = "DFT"
  /\ ~InvalidIndex(file, r, c) /\ k \in 0 .. file.elements-1
  /\ Receive(getDFTCoeff(file, r, c, k), Fresh(2), <<Call("pair", r, c, k)>>)

Init ==
  /\ file \in Files
  /\ dest = Fresh(0)
  /\ code = "none"
  /\ calls = <<>>
  /\ peak = [known |-> FALSE, value |-> 0]

(* Also one record and one channel too far. *)
Next ==
  \/ GetOverallPeak
  \/ \E r \in 0 .. file.records, c \in 0 .. file.channels :
       \/ GetMagnitudes(r, c) \/ GetPhases(r, c)
       \/ GetCoefficientsRI(r, c) \/ GetCoefficientsMP(r, c) \/ GetDFTCoeffs(r, c)
       \/ \E g \in Gains : \/ GetFilterCoeffs(r, c, g) \/ AddFilterCoeffs(r, c, g)
                          \/ GetEffectiveFilterCoeffs(r, c, g)
       \/ \E k \in 0 .. file.elements :
            GetMagnitude(r, c, k) \/ GetPhase(r, c, k) \/ GetDFTCoeff(r, c, k)

Spec == Init /\ [][Next]_vars

-----------------------------------------------------------------------------
(* Properties. *)

Answered == code = "DAFF_NO_ERROR"

(* What the user gave to the writer, as the quantisation keeps it. *)
Given(r, c, k) ==
  LET v == file.given[r + 1][c + 1][k + 1]
  IN  IF file.quantization = "float32" THEN v ELSE Quantise(file.quantization, v)

InZone(r, c, k) ==
  LET d == file.desc[<<r, c>>] IN k \in d.zeros .. d.zeros + d.length - 1

(* How far a call may write behind its buffer: the three loops over combined
   spectra run one frequency too far, all other getters keep to the size
   that their documentation asks for.                                      *)
Excess(f, name) ==
  IF f.content # "MPS" THEN 0
  ELSE CASE name \in {"magnitudes", "phases"} -> 1
         [] name = "polar" -> 2
         [] OTHER -> 0

BehindTheBuffer(i) ==
  i >= Cardinality(DOMAIN dest) - 4 + (IF calls = <<>> THEN 0 ELSE Excess(file, calls[1].name))

NothingBehindTheBuffer == \A i \in DOMAIN dest : BehindTheBuffer(i) => dest[i] = Dirty

(* What a call adds to coefficient k. *)
Part(call, k) ==
  IF InZone(call.record, call.channel, k) THEN Given(call.record, call.channel, k) * call.arg ELSE 0

(* Every coefficient that getFilterCoeffs answers, and every coefficient
   that addFilterCoeffs has summed up, is the one the writer was given at
   the same index, or zero outside of the zone that was stored; the two
   zones of a sum may differ.                                              *)
CoefficientsKeepTheirPlace ==
  Answered /\ calls # <<>> /\ calls[1].name = "filter" =>
    \A k \in 0 .. file.elements-1 :
      dest[k] = IF Len(calls) = 1 THEN Part(calls[1], k) ELSE Part(calls[1], k) + Part(calls[2], k)

(* Where a record lies in a block of spectra. *)
HomeOf(f, r, c) == (r * f.channels + c) * PerElement(f.content) * f.elements

(* A number that a call may answer for frequency k: the one that is stored
   for it or, where a pair is stored, one of its parts or polar coordinates. *)
IsOf(f, r, c, k, v) ==
  LET place == HomeOf(f, r, c) + PerElement(f.content) * k
  IN  IF f.content = "MPS"
      THEN v \in {place, place + 1, cabs(place, place + 1), carg(place, place + 1)}
      ELSE v = place

(* Frequency k by the other of the two getters of the same numbers. *)
Single(f, name, r, c, k) ==
  IF name = "magnitudes" THEN getMagnitude(f, r, c, k).cells[0] ELSE getPhase(f, r, c, k).cells[0]
Whole(f, name, r, c, k) ==
  IF name = "magnitude" THEN getMagnitudes(f, r, c).cells[k] ELSE getPhases(f, r, c).cells[k]

(* The numbers that a call for a spectrum leaves in the buffer. *)
Owed(f, call, d) ==
  LET r == call.record
      c == call.channel
      home == HomeOf(f, r, c)
  IN  CASE call.name \in {"magnitudes", "phases"} ->
             \A k \in 0 .. f.elements-1 :
               IsOf(f, r, c, k, d[k]) /\ d[k] = Single(f, call.name, r, c, k)
        [] call.name \in {"magnitude", "phase"} ->
             IsOf(f, r, c, call.arg, d[0]) /\ d[0] = Whole(f, call.name, r, c, call.arg)
        [] call.name = "pairs" -> \A k \in 0 .. 2 * f.elements - 1 : d[k] = home + k
        [] call.name = "pair" -> \A k \in 0 .. 1 : d[k] = home + 2 * call.arg + k
        [] call.name = "polar" ->
             \A k \in 0 .. f.elements-1 :
               /\ d[2*k] = cabs(home + 2*k, home + 2*k + 1)
               /\ d[2*k + 1] = carg(home + 2*k, home + 2*k + 1)

(* Numbers of a spectrum come from the record, channel and frequency that
   were asked for, and a magnitude or phase is the same number one at a time
   as all at once.  Which number of its pair a magnitude of a combined
   spectrum is, is left open here: MagnitudesArePolar is about that.  Outside
   of combined spectra no getter writes behind the buffer that its
   documentation asks for; there getMagnitudes, getPhases and
   getCoefficientsMP do, but not by more than one frequency.               *)
SpectraAgree ==
  /\ NothingBehindTheBuffer
  /\ Answered /\ file.content # "IR" /\ calls # <<>> => Owed(file, calls[1], dest)

(* The magnitudes of a combined spectrum are those of its polar form
   ("The magnitude coefficients can be retrieved using the method
   getMagnitudes", DAFFContentMPS.h).  getMagnitudes answers the real parts. *)
MagnitudesArePolar ==
  file.content = "MPS" =>
    \A r \in 0 .. file.records-1, c \in 0 .. file.channels-1, k \in 0 .. file.elements-1 :
      getMagnitudes(file, r, c).cells[k] = getCoefficientsMP(file, r, c).cells[2*k]
=============================================================================
