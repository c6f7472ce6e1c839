---------------------------- MODULE DAFFMexMain ----------------------------
(***************************************************************************)
(* The Matlab binding (src/bindings/matlab/DAFFMexMain.cpp): handles,      *)
(* their readers with one conversion buffer each, and the commands.        *)
(*                                                                         *)
(* A command with a bad argument ends in mexErrMsgTxt, which leaves the    *)
(* state as it is.                                                         *)
(***************************************************************************)
EXTENDS DAFFBinding

VARIABLES mHandles,      \* handle -> reader of its TARGET, or NoReader
          hHandleCount,
          pfBuffer,      \* handle -> conversion buffer of its TARGET
          reader,        \* reader object -> the file it has open, NoFile if not allocated
          served,        \* the last answer: <<handle, file it came from>>
          plhs           \* the last results

mexVars == <<mHandles, hHandleCount, pfBuffer, reader, served, plhs>>
mexState == <<mHandles, hHandleCount, reader>>

Nil == [kind |-> "nothing"]

MexInit ==
  /\ mHandles = [h \in Handles |-> NoReader]
  /\ hHandleCount = 1
  /\ pfBuffer = [h \in Handles |-> Nothing]
  /\ reader = [r \in Readers |-> NoFile]
  /\ served = Error
  /\ plhs = Nil

(* GetHandleIterator finds the handle in the map. *)
Known(h) == h \in Handles /\ mHandles[h] # NoReader

(* The reader of a handle, and what it answers from. *)
FileOf(h) == reader[mHandles[h]]

(* TARGET allocates the buffer by the type of the content. *)
NewBuffer(f) == [j \in 0 .. (IF Complex(f) THEN 2 * f.elements ELSE f.elements) - 1 |-> Garbage]

MexError == served' = Error /\ plhs' = Nil /\ UNCHANGED <<mexState, pfBuffer>>

Return(h, value) == served' = <<h, FileOf(h)>> /\ plhs' = value /\ UNCHANGED mexState

Open(f, r) ==
  /\ hHandleCount <= MaxHandle
  /\ reader[r] = NoFile
  /\ reader' = [reader EXCEPT ![r] = f]
  /\ mHandles' = [mHandles EXCEPT ![hHandleCount] = r]
  /\ pfBuffer' = [pfBuffer EXCEPT ![hHandleCount] = NewBuffer(f)]
  /\ hHandleCount' = hHandleCount + 1
  /\ served' = <<hHandleCount, f>>
  /\ plhs' = [kind |-> "handle", value |-> hHandleCount]

(* The reader that could not open the file is deleted again. *)
OpenFails == MexError

(* Mutants of Close: the reader is not deleted; the handle is given again. *)
CloseLeaks(h) ==
  IF ~Known(h) THEN MexError
  ELSE /\ mHandles' = [mHandles EXCEPT ![h] = NoReader]
       /\ pfBuffer' = [pfBuffer EXCEPT ![h] = Nothing]
       /\ served' = <<h, NoFile>>
       /\ plhs' = Nil
       /\ UNCHANGED <<hHandleCount, reader>>

CloseGivesBack(h) ==
  IF ~Known(h) THEN MexError
  ELSE /\ reader' = [reader EXCEPT ![mHandles[h]] = NoFile]
       /\ mHandles' = [mHandles EXCEPT ![h] = NoReader]
       /\ pfBuffer' = [pfBuffer EXCEPT ![h] = Nothing]
       /\ hHandleCount' = h
       /\ served' = <<h, NoFile>>
       /\ plhs' = Nil

Close(h) ==
  IF ~Known(h) THEN MexError
  ELSE /\ reader' = [reader EXCEPT ![mHandles[h]] = NoFile]
       /\ mHandles' = [mHandles EXCEPT ![h] = NoReader]
       /\ pfBuffer' = [pfBuffer EXCEPT ![h] = Nothing]
       /\ served' = <<h, NoFile>>
       /\ plhs' = Nil
       /\ UNCHANGED hHandleCount

(* Matlab counts records from 1. *)
IsMatlabIndex(f, i) == i >= 1 /\ i <= f.records
IsView(view) == view \in {"data", "object"}

(* The conversion buffer after 0, 1, ... channels of a record. *)
Conversions(f, buffer, i) ==
  LET after[c \in 0 .. f.channels] ==
        IF c = 0 THEN buffer ELSE Overlay(after[c - 1], Fetch(f, i, c - 1).cells)
  IN  after

(* A mutant: the rows of the matrix are stored one after the other. *)
GetRecordByRows(f, buffer, i) ==
  LET after == Conversions(f, buffer, i)
      entry(j, part) ==
        after[(j \div f.elements) + 1][IF Complex(f) THEN 2 * (j % f.elements) + part ELSE j % f.elements]
      cells == 0 .. f.channels * f.elements - 1
  IN  [real |-> [j \in cells |-> entry(j, 0)],
       imag |-> IF Complex(f) THEN [j \in cells |-> entry(j, 1)] ELSE Nothing,
       index |-> i, fits |-> Fits(f, i, DOMAIN buffer), buffer |-> after[f.channels]]

(* One matrix, channels in rows, stored column by column.  The buffer is
   filled for one channel after the other; the getters' return values are
   not looked at.                                                          *)
GetRecordMatlab(f, buffer, i) ==
  LET after == Conversions(f, buffer, i)
      entry(j, part) ==
        after[(j % f.channels) + 1][IF Complex(f) THEN 2 * (j \div f.channels) + part ELSE j \div f.channels]
      cells == 0 .. f.channels * f.elements - 1
  IN  [real |-> [j \in cells |-> entry(j, 0)],
       imag |-> IF Complex(f) THEN [j \in cells |-> entry(j, 1)] ELSE Nothing,
       index |-> i, fits |-> Fits(f, i, DOMAIN buffer), buffer |-> after[f.channels]]

ReturnRecords(h, matrices) ==
  /\ Return(h, [kind |-> "records", value |-> matrices])
  /\ pfBuffer' = [pfBuffer EXCEPT ![h] = matrices[Len(matrices)].buffer]

GetRecordByIndex(h, i) ==
  IF ~Known(h) THEN MexError
  ELSE IF ~IsMatlabIndex(FileOf(h), i) THEN MexError
  ELSE ReturnRecords(h, <<GetRecordMatlab(FileOf(h), pfBuffer[h], i - 1)>>)

GetNearestNeighbourRecord(h, view, a) ==
  IF ~Known(h) \/ ~IsView(view) THEN MexError
  ELSE ReturnRecords(h, <<GetRecordMatlab(FileOf(h), pfBuffer[h], Nearest(FileOf(h), view, a))>>)

(* Four records through the same buffer. *)
GetCellRecords(h, view, a) ==
  IF ~Known(h) \/ ~IsView(view) THEN MexError
  ELSE LET q == Cell(FileOf(h), view, a)
           m1 == GetRecordMatlab(FileOf(h), pfBuffer[h], q[1])
           m2 == GetRecordMatlab(FileOf(h), m1.buffer, q[2])
           m3 == GetRecordMatlab(FileOf(h), m2.buffer, q[3])
           m4 == GetRecordMatlab(FileOf(h), m3.buffer, q[4])
       IN  ReturnRecords(h, <<m1, m2, m3, m4>>)

ReturnValue(h, value) == Return(h, [kind |-> "value", value |-> value]) /\ UNCHANGED pfBuffer

GetNearestNeighbourIndex(h, view, a) ==
  IF ~Known(h) \/ ~IsView(view) THEN MexError
  ELSE ReturnValue(h, Nearest(FileOf(h), view, a) + 1)

GetCell(h, view, a) ==
  IF ~Known(h) \/ ~IsView(view) THEN MexError
  ELSE ReturnValue(h, [n \in 1 .. 4 |-> Cell(FileOf(h), view, a)[n] + 1])

GetRecordCoords(h, view, i) ==
  IF ~Known(h) \/ ~IsView(view) THEN MexError
  ELSE IF ~IsMatlabIndex(FileOf(h), i) THEN MexError
  ELSE ReturnValue(h, <<view, i - 1>>)

GetMetadata(h) == IF ~Known(h) THEN MexError ELSE ReturnValue(h, "metadata")

GetRecordMetadata(h, i) ==
  IF ~Known(h) THEN MexError
  ELSE IF ~IsMatlabIndex(FileOf(h), i) THEN MexError
  ELSE ReturnValue(h, <<"metadata", i - 1>>)

(* The struct of the properties: the fields it is created with, and those
   that are set.  Setting a field it does not have has no effect.          *)
CommonFields ==
  {"filename", "fileFormatVersion", "contentType", "quantization", "numChannels", "numRecords",
   "channelLabels", "alphaPoints", "alphaResolution", "alphaRange", "betaPoints", "betaResolution",
   "betaRange", "orientation", "orientationDefault", "fullSphere"}

DeclaredFields(content) == CommonFields \cup
  CASE content = "IR"  -> {"samplerate", "filterLength"}
    [] content = "DFT" -> {"numDFTCoeffs", "TransformSize"}
    [] OTHER           -> {"numFreqs", "freqs"}

SetFields(content) == CommonFields \cup
  CASE content = "IR"  -> {"samplerate", "filterLength"}
    [] content = "DFT" -> {"transformSize", "numDFTCoeffs", "isSymmetric", "samplerate", "frequencyBandwidth"}
    [] OTHER           -> {"numFreqs", "freqs"}

GetProperties(h) ==
  IF ~Known(h) THEN MexError
  ELSE LET content == FileOf(h).content
       IN  Return(h, [kind |-> "properties",
                      filled |-> DeclaredFields(content) \cap SetFields(content),
                      empty |-> DeclaredFields(content) \ SetFields(content)])
           /\ UNCHANGED pfBuffer

(* mexFunction: also handles, indices and views that do not exist. *)
MexNext ==
  \/ OpenFails
  \/ \E f \in Files, r \in Readers : Open(f, r)
  \/ \E h \in 0 .. MaxHandle :
       \/ Close(h) \/ GetMetadata(h) \/ GetProperties(h)
       \/ \E i \in 0 .. 3 : GetRecordByIndex(h, i) \/ GetRecordMetadata(h, i)
       \/ \E view \in {"data", "object", "other"} :
            \/ \E i \in 0 .. 3 : GetRecordCoords(h, view, i)
            \/ \E a \in Angles : \/ GetNearestNeighbourRecord(h, view, a) \/ GetCellRecords(h, view, a)
                                 \/ GetNearestNeighbourIndex(h, view, a) \/ GetCell(h, view, a)

MexSpec == MexInit /\ [][MexNext]_mexVars

-----------------------------------------------------------------------------
(* Every open handle has a reader of its own with a file open, and every
   reader belongs to an open handle: nothing dangles, is shared or leaks.  *)
MexHandlesOwnReaders ==
  /\ \A h \in Handles : mHandles[h] # NoReader => reader[mHandles[h]] # NoFile
  /\ \A g, h \in Handles : mHandles[g] = mHandles[h] /\ mHandles[g] # NoReader => g = h
  /\ \A r \in Readers : reader[r] # NoFile => \E h \in Handles : mHandles[h] = r

(* A record that Matlab receives is the record that was asked for, of the
   file of the handle, whatever the buffer held before, and no getter wrote
   behind the buffer.                                                      *)
MexRecordsAreTrue ==
  plhs.kind = "records" =>
    LET f == served[2]
    IN  \A n \in DOMAIN plhs.value :
          LET x == plhs.value[n]
          IN  /\ x.fits
              /\ \A c \in Channels(f), k \in Elements(f) :
                   /\ x.real[k * f.channels + c] = NumberOf(f, x.index, c, k, 0)
                   /\ Complex(f) => x.imag[k * f.channels + c] = NumberOf(f, x.index, c, k, 1)

(* The binding implements the promise of handles. *)
MexTable == [h \in Handles |-> IF mHandles[h] = NoReader THEN NoFile ELSE reader[mHandles[h]]]
MexGiven == 1 .. hHandleCount - 1
MexHandles == INSTANCE DAFFHandles WITH table <- MexTable, given <- MexGiven
MexImplementsHandles == MexHandles!HandlesSpec
=============================================================================
