---------------------------- MODULE DAFFBinding ----------------------------
(***************************************************************************)
(* What the bindings share: the files and reader objects they deal with,   *)
(* and how a record comes out of a file.  A reader object is a piece of    *)
(* memory that may be used again after it was deleted.                     *)
(***************************************************************************)
EXTENDS DAFFRecordAccess

CONSTANTS Files, NoFile,
          Readers, NoReader,   \* reader objects, the null pointer
          Closed,              \* a reader object that closed its file, but exists
          MaxHandle,           \* bound: handles given in a behaviour
          Error,               \* a call that raised an error, or none yet
          Angles,              \* directions a client asks for
          Nearest(_, _, _),    \* file, view, direction -> record
          Cell(_, _, _)        \* file, view, direction -> four records

ASSUME BindingAssumption ==
  /\ MaxHandle \in Nat
  /\ NoFile \notin Files /\ NoReader \notin Readers
  /\ Closed \notin Files \cup {NoFile}
  /\ \A h \in 1 .. MaxHandle : \A f \in Files \cup {NoFile} : Error # <<h, f>>

Handles == 1 .. MaxHandle

Records(f) == 0 .. f.records - 1
Channels(f) == 0 .. f.channels - 1
Elements(f) == 0 .. f.elements - 1

(* Directions off the seam of a full circle, where the index answered may be
   the one behind the last record (OnSeam of DAFFGrid).                      *)
ASSUME DirectionAssumption ==
  \A f \in Files, view \in {"data", "object"}, a \in Angles :
    /\ Nearest(f, view, a) \in Records(f)
    /\ Cell(f, view, a) \in [1 .. 4 -> Records(f)]

Complex(f) == f.content \in {"MPS", "DFT"}

(* Files hold what their headers say: the zone of a response lies within the
   response, and every record within the data block.                       *)
ASSUME FilesAssumption ==
  \A f \in Files :
    /\ f.content \in {"IR", "MS", "PS", "MPS", "DFT"}
    /\ f.records \in Nat /\ f.channels \in Nat /\ f.elements \in Nat
    /\ f.block \in Seq(Int)
    /\ \A i \in Records(f), c \in Channels(f) :
         LET d == f.desc[<<i, c>>]
         IN  /\ d.offset \in Nat /\ d.zeros \in Nat /\ d.length \in Nat
             /\ IF f.content = "IR"
                  THEN d.zeros + d.length <= f.elements /\ d.offset + d.length <= Len(f.block)
                  ELSE d.offset + (IF Complex(f) THEN 2 * f.elements ELSE f.elements) <= Len(f.block)

(* The getter that GetRecordMatlab and GetRecordPython choose. *)
Fetch(f, i, c) ==
  CASE f.content = "IR"  -> getFilterCoeffs(f, i, c, 1)
    [] f.content = "MS"  -> getMagnitudes(f, i, c)
    [] f.content = "PS"  -> getPhases(f, i, c)
    [] f.content = "MPS" -> getCoefficientsRI(f, i, c)
    [] f.content = "DFT" -> getDFTCoeffs(f, i, c)

(* Every channel of a record fits into the places of a buffer. *)
Fits(f, i, places) == \A c \in Channels(f) : DOMAIN Fetch(f, i, c).cells \subseteq places

(* A number of a record, as the file has it. *)
NumberOf(f, i, c, k, part) ==
  LET d == f.desc[<<i, c>>]
  IN  IF f.content # "IR" THEN f.block[d.offset + (IF Complex(f) THEN 2 * k + part ELSE k) + 1]
      ELSE IF k \in d.zeros .. d.zeros + d.length - 1 THEN f.block[d.offset + k - d.zeros + 1] ELSE 0
=============================================================================
