------------------------ MODULE DAFFBindingsProofs ------------------------
(***************************************************************************)
(* Proofs about the handles of the Matlab and the Python binding and about *)
(* what Python and C# receive, for all files, any number of reader objects *)
(* and of handles.                                                         *)
(*                                                                         *)
(* The commands of a binding are many, but for its handles they are of     *)
(* four kinds: an error, an answer about a known handle, an opening and a  *)
(* closing (MexSteps, PySteps).  That every open handle has a reader of    *)
(* its own is inductive once no handle beyond the counter is known.  The   *)
(* numbers that are received rest on what a getter answers (ResponseIsTrue,*)
(* SpectrumIsTrue).                                                        *)
(***************************************************************************)
EXTENDS DAFFMexMain, pydaff, DAFFCSWrapper, DAFFInduction

-----------------------------------------------------------------------------
(* The Matlab binding. *)

MexAnswers(h) == Known(h) /\ served' = <<h, FileOf(h)>> /\ UNCHANGED mexState

\* Every command of the Matlab binding is of one of four kinds.
LEMMA MexSteps ==
  ASSUME MexNext
  PROVE  \/ MexError
         \/ \E h \in Handles : MexAnswers(h)
         \/ \E f \in Files, r \in Readers : Open(f, r)
         \/ \E h \in Handles : Known(h) /\ Close(h)
<1> DEFINE Kind == \/ MexError
                   \/ \E h \in Handles : MexAnswers(h)
                   \/ \E f \in Files, r \in Readers : Open(f, r)
                   \/ \E h \in Handles : Known(h) /\ Close(h)
<1>1. ASSUME NEW h, NEW value, Known(h), Return(h, value) PROVE Kind
  BY <1>1 DEF Return, MexAnswers, Known
<1>2. ASSUME NEW h, NEW value, Known(h), ReturnValue(h, value) PROVE Kind
  BY <1>1, <1>2 DEF ReturnValue
<1>3. ASSUME NEW h, NEW matrices, Known(h), ReturnRecords(h, matrices) PROVE Kind
  BY <1>1, <1>3 DEF ReturnRecords
<1>4. ASSUME OpenFails PROVE Kind
  BY <1>4 DEF OpenFails
<1>5. ASSUME \E f \in Files, r \in Readers : Open(f, r) PROVE Kind
  BY <1>5
<1>6. ASSUME NEW h, Close(h) PROVE Kind
  <2>1. CASE ~Known(h)
    BY <1>6, <2>1 DEF Close
  <2>2. CASE Known(h)
    BY <1>6, <2>2 DEF Known
  <2>3. QED
    BY <2>1, <2>2
<1>7. ASSUME NEW h, GetMetadata(h) PROVE Kind
  BY <1>7, <1>2 DEF GetMetadata
<1>8. ASSUME NEW h, GetProperties(h) PROVE Kind
  BY <1>8, <1>1 DEF GetProperties
<1>9. ASSUME NEW h, NEW i, GetRecordByIndex(h, i) PROVE Kind
  BY <1>9, <1>3 DEF GetRecordByIndex
<1>10. ASSUME NEW h, NEW i, GetRecordMetadata(h, i) PROVE Kind
  BY <1>10, <1>2 DEF GetRecordMetadata
<1>11. ASSUME NEW h, NEW view, NEW i, GetRecordCoords(h, view, i) PROVE Kind
  BY <1>11, <1>2 DEF GetRecordCoords
<1>12. ASSUME NEW h, NEW view, NEW a, GetNearestNeighbourRecord(h, view, a) PROVE Kind
  BY <1>12, <1>3 DEF GetNearestNeighbourRecord
<1>13. ASSUME NEW h, NEW view, NEW a, GetCellRecords(h, view, a) PROVE Kind
  BY <1>13, <1>3 DEF GetCellRecords
<1>14. ASSUME NEW h, NEW view, NEW a, GetNearestNeighbourIndex(h, view, a) PROVE Kind
  BY <1>14, <1>2 DEF GetNearestNeighbourIndex
<1>15. ASSUME NEW h, NEW view, NEW a, GetCell(h, view, a) PROVE Kind
  BY <1>15, <1>2 DEF GetCell
<1> HIDE DEF Kind
<1>16. Kind
  BY <1>4, <1>5, <1>6, <1>7, <1>8, <1>9, <1>10, <1>11, <1>12, <1>13, <1>14, <1>15 DEF MexNext
<1>17. QED
  BY <1>16 DEF Kind

MexTypeOK ==
  /\ hHandleCount \in 1 .. MaxHandle + 1
  /\ mHandles \in [Handles -> Readers \cup {NoReader}]
  /\ reader \in [Readers -> Files \cup {NoFile}]
  /\ \A h \in Handles : h >= hHandleCount => mHandles[h] = NoReader

MexInv == MexTypeOK /\ MexHandlesOwnReaders

LEMMA MexInitInv == MexInit => MexInv
BY BindingAssumption DEF MexInit, MexInv, MexTypeOK, MexHandlesOwnReaders, Handles

LEMMA MexOpenInv ==
  ASSUME MexInv, NEW f \in Files, NEW r \in Readers, Open(f, r)
  PROVE  MexInv'
<1> USE BindingAssumption DEF MexInv, Handles
<1>1. /\ mHandles' = [mHandles EXCEPT ![hHandleCount] = r]
      /\ reader' = [reader EXCEPT ![r] = f]
      /\ hHandleCount' = hHandleCount + 1
      /\ hHandleCount \in Handles /\ reader[r] = NoFile
  BY DEF Open, MexTypeOK
<1>2. \A h \in Handles : mHandles[h] # r
  BY <1>1 DEF MexTypeOK, MexHandlesOwnReaders
<1>3. MexTypeOK'
  BY <1>1 DEF MexTypeOK
<1>4. ASSUME NEW h \in Handles, mHandles'[h] # NoReader
      PROVE  reader'[mHandles'[h]] # NoFile
  BY <1>1, <1>2, <1>4 DEF MexTypeOK, MexHandlesOwnReaders
<1>5. ASSUME NEW g \in Handles, NEW h \in Handles,
             mHandles'[g] = mHandles'[h], mHandles'[g] # NoReader
      PROVE  g = h
  BY <1>1, <1>2, <1>5 DEF MexTypeOK, MexHandlesOwnReaders
<1>6. ASSUME NEW q \in Readers, reader'[q] # NoFile
      PROVE  \E h \in Handles : mHandles'[h] = q
  <2>1. CASE q = r
    BY <1>1, <2>1 DEF MexTypeOK
  <2>2. CASE q # r
    <3>1. PICK h \in Handles : mHandles[h] = q
      BY <1>1, <1>6, <2>2 DEF MexTypeOK, MexHandlesOwnReaders
    <3>2. h # hHandleCount
      BY <1>1, <3>1 DEF MexTypeOK
    <3>3. QED
      BY <1>1, <3>1, <3>2 DEF MexTypeOK
  <2>3. QED
    BY <2>1, <2>2
<1>7. MexHandlesOwnReaders'
  BY <1>4, <1>5, <1>6 DEF MexHandlesOwnReaders
<1>8. QED
  BY <1>3, <1>7

LEMMA MexCloseInv ==
  ASSUME MexInv, NEW h \in Handles, Known(h), Close(h)
  PROVE  MexInv'
<1> USE BindingAssumption DEF MexInv
<1>1. /\ mHandles' = [mHandles EXCEPT ![h] = NoReader]
      /\ reader' = [reader EXCEPT ![mHandles[h]] = NoFile]
      /\ hHandleCount' = hHandleCount
      /\ mHandles[h] \in Readers
  BY DEF Close, Known, MexTypeOK
<1>2. MexTypeOK'
  BY <1>1 DEF MexTypeOK
<1>3. ASSUME NEW g \in Handles, mHandles'[g] # NoReader
      PROVE  reader'[mHandles'[g]] # NoFile
  BY <1>1, <1>3 DEF MexTypeOK, MexHandlesOwnReaders
<1>4. ASSUME NEW g \in Handles, NEW k \in Handles,
             mHandles'[g] = mHandles'[k], mHandles'[g] # NoReader
      PROVE  g = k
  BY <1>1, <1>4 DEF MexTypeOK, MexHandlesOwnReaders
<1>5. ASSUME NEW q \in Readers, reader'[q] # NoFile
      PROVE  \E g \in Handles : mHandles'[g] = q
  <2>1. q # mHandles[h] /\ reader[q] # NoFile
    BY <1>1, <1>5 DEF MexTypeOK
  <2>2. PICK g \in Handles : mHandles[g] = q
    BY <2>1 DEF MexHandlesOwnReaders
  <2>3. QED
    BY <1>1, <2>1, <2>2 DEF MexTypeOK
<1>6. MexHandlesOwnReaders'
  BY <1>3, <1>4, <1>5 DEF MexHandlesOwnReaders
<1>7. QED
  BY <1>2, <1>6

\* What leaves handles and readers alone keeps the invariant.
LEMMA MexStillInv ==
  ASSUME MexInv, UNCHANGED mexState
  PROVE  MexInv'
BY DEF MexInv, MexTypeOK, MexHandlesOwnReaders, mexState

LEMMA MexStepInv == MexInv /\ [MexNext]_mexVars => MexInv'
<1> SUFFICES ASSUME MexInv, [MexNext]_mexVars PROVE MexInv'
  OBVIOUS
<1>1. CASE MexNext
  BY <1>1, MexSteps, MexOpenInv, MexCloseInv, MexStillInv DEF MexError, MexAnswers
<1>2. CASE UNCHANGED mexVars
  BY <1>2, MexStillInv DEF mexVars, mexState
<1>3. QED
  BY <1>1, <1>2

LEMMA MexInvariant == MexSpec => []MexInv
<1>1. QED
  BY MexInitInv, MexStepInv, PTL DEF MexSpec

\* Whatever files are opened and closed in Matlab, every open handle has a
\* reader of its own with a file open, and no reader is left without a handle.
THEOREM MexOwnsReaders == MexSpec => []MexHandlesOwnReaders
<1>1. MexInv => MexHandlesOwnReaders
  BY DEF MexInv
<1>2. QED
  BY MexInvariant, <1>1, PTL

LEMMA MexInitHandles == MexInit => MexHandles!HandlesInit
BY DEF MexInit, MexHandles!HandlesInit, MexHandles!Handles, Handles, MexTable, MexGiven

LEMMA MexStillHandles ==
  UNCHANGED mexState => UNCHANGED <<MexTable, MexGiven>>
BY DEF mexState, MexTable, MexGiven

LEMMA MexAnswerHandles ==
  ASSUME MexInv, NEW h \in Handles, MexAnswers(h)
  PROVE  MexHandles!Serve(h)
<1>1. MexTable[h] = FileOf(h) /\ MexTable[h] # NoFile
  BY DEF MexAnswers, Known, MexTable, FileOf, MexInv, MexHandlesOwnReaders
<1>2. QED
  BY <1>1, MexStillHandles DEF MexAnswers, MexHandles!Serve

LEMMA MexOpenHandles ==
  ASSUME MexInv, NEW f \in Files, NEW r \in Readers, Open(f, r)
  PROVE  hHandleCount \in Handles /\ MexHandles!Give(hHandleCount, f)
<1> DEFINE n == hHandleCount
<1> USE BindingAssumption DEF MexInv, Handles
<1>1. /\ mHandles' = [mHandles EXCEPT ![n] = r]
      /\ reader' = [reader EXCEPT ![r] = f]
      /\ hHandleCount' = n + 1
      /\ n \in Handles /\ reader[r] = NoFile /\ served' = <<n, f>>
  BY DEF Open, MexTypeOK
<1>2. n \notin MexGiven /\ MexGiven' = MexGiven \cup {n}
  BY <1>1 DEF MexGiven, MexTypeOK
<1>3. MexTable'[n] = f
  BY <1>1 DEF MexTable, MexTypeOK
<1>4. ASSUME NEW h \in Handles, h # n
      PROVE  MexTable'[h] = MexTable[h]
  BY <1>1, <1>4 DEF MexTable, MexTypeOK, MexHandlesOwnReaders
<1>5. MexTable' = [MexTable EXCEPT ![n] = f]
  BY <1>3, <1>4 DEF MexTable
<1>6. QED
  BY <1>1, <1>2, <1>5 DEF MexHandles!Give

LEMMA MexCloseHandles ==
  ASSUME MexInv, NEW h \in Handles, Known(h), Close(h)
  PROVE  MexHandles!Take(h)
<1> USE BindingAssumption DEF MexInv
<1>1. /\ mHandles' = [mHandles EXCEPT ![h] = NoReader]
      /\ reader' = [reader EXCEPT ![mHandles[h]] = NoFile]
      /\ UNCHANGED hHandleCount
      /\ mHandles[h] \in Readers /\ served' = <<h, NoFile>>
  BY DEF Close, Known, MexTypeOK
<1>2. MexTable[h] # NoFile
  BY DEF Known, MexTable, MexHandlesOwnReaders
<1>3. MexTable'[h] = NoFile
  BY <1>1 DEF MexTable, MexTypeOK
<1>4. ASSUME NEW g \in Handles, g # h
      PROVE  MexTable'[g] = MexTable[g]
  BY <1>1, <1>4 DEF MexTable, MexTypeOK, MexHandlesOwnReaders
<1>5. MexTable' = [MexTable EXCEPT ![h] = NoFile]
  BY <1>3, <1>4 DEF MexTable
<1>6. QED
  BY <1>1, <1>2, <1>5 DEF MexHandles!Take, MexGiven

LEMMA MexStepHandles ==
  MexInv /\ [MexNext]_mexVars => [MexHandles!HandlesNext]_MexHandles!handleVars
<1> SUFFICES ASSUME MexInv, [MexNext]_mexVars
             PROVE  [MexHandles!HandlesNext]_MexHandles!handleVars
  OBVIOUS
<1> USE DEF MexHandles!HandlesNext, MexHandles!Handles, Handles
<1>1. CASE MexError
  BY <1>1, MexStillHandles DEF MexError, MexHandles!Fail
<1>2. ASSUME NEW h \in Handles, MexAnswers(h) PROVE MexHandles!HandlesNext
  BY <1>2, MexAnswerHandles
<1>3. ASSUME NEW f \in Files, NEW r \in Readers, Open(f, r) PROVE MexHandles!HandlesNext
  BY <1>3, MexOpenHandles
<1>4. ASSUME NEW h \in Handles, Known(h), Close(h) PROVE MexHandles!HandlesNext
  BY <1>4, MexCloseHandles
<1>5. CASE UNCHANGED mexVars
  BY <1>5, MexStillHandles DEF mexVars, mexState, MexHandles!handleVars
<1>6. QED
  BY <1>1, <1>2, <1>3, <1>4, <1>5, MexSteps

\* The Matlab binding keeps the promise of handles: each is given once, an
\* answer comes from the file it was given for, a closed one is not answered.
THEOREM MexKeepsPromise == MexSpec => MexImplementsHandles
<1>1. QED
  BY MexInitHandles, MexInvariant, MexStepHandles, PTL
  DEF MexSpec, MexImplementsHandles, MexHandles!HandlesSpec

-----------------------------------------------------------------------------
(* The Python binding.  A closed reader stays allocated, so readers may      *)
(* be left without a handle; open handles still have their own.              *)

PyAnswers(h) == ValidHandle(h) /\ pyServed' = <<h, PyFile(h)>> /\ UNCHANGED pyState

PyOpens(f, r) == \E result : Opened(f, r, result)

\* Every function of the module and of the class DAFF is of one of four kinds.
LEMMA PySteps ==
  ASSUME PyNext
  PROVE  \/ Raise
         \/ \E h \in Handles : PyAnswers(h)
         \/ \E f \in Files, r \in Readers : PyOpens(f, r)
         \/ \E h \in Handles : ValidHandle(h) /\ daff_close(h)
<1> DEFINE Kind == \/ Raise
                   \/ \E h \in Handles : PyAnswers(h)
                   \/ \E f \in Files, r \in Readers : PyOpens(f, r)
                   \/ \E h \in Handles : ValidHandle(h) /\ daff_close(h)
<1>1. ASSUME NEW h, NEW result, ValidHandle(h), Answers(h, result) PROVE Kind
  BY <1>1 DEF Answers, PyAnswers, ValidHandle
<1>2. ASSUME daff_open_fails PROVE Kind
  BY <1>2 DEF daff_open_fails
<1>3. ASSUME NEW f \in Files, NEW r \in Readers, daff_open(f, r) PROVE Kind
  BY <1>3 DEF daff_open, PyOpens
<1>4. ASSUME NEW f \in Files, NEW r \in Readers, DAFF(f, r) PROVE Kind
  BY <1>4 DEF DAFF, PyOpens
<1>5. ASSUME NEW h, daff_close(h) PROVE Kind
  <2>1. CASE ~ValidHandle(h)
    BY <1>5, <2>1 DEF daff_close
  <2>2. CASE ValidHandle(h)
    BY <1>5, <2>2 DEF ValidHandle
  <2>3. QED
    BY <2>1, <2>2
<1>6. ASSUME NEW h, daff_content_type(h) PROVE Kind
  BY <1>6, <1>1 DEF daff_content_type
<1>7. ASSUME NEW h, daff_content_type_str(h) PROVE Kind
  BY <1>7, <1>1 DEF daff_content_type_str
<1>8. ASSUME NEW h, daff_metadata(h) PROVE Kind
  BY <1>8, <1>1 DEF daff_metadata
<1>9. ASSUME NEW h, daff_properties(h) PROVE Kind
  BY <1>9, <1>1 DEF daff_properties
<1>10. ASSUME NEW h, NEW i, daff_record(h, i) PROVE Kind
  BY <1>10, <1>1 DEF daff_record
<1>11. ASSUME NEW h, NEW view, NEW a, daff_nearest_neighbour_index(h, view, a) PROVE Kind
  BY <1>11, <1>1 DEF daff_nearest_neighbour_index
<1>12. ASSUME NEW h, NEW view, NEW a, daff_nearest_neighbour_record(h, view, a) PROVE Kind
  BY <1>12, <1>1 DEF daff_nearest_neighbour_record
<1> HIDE DEF Kind
<1>13. Kind
  BY <1>2, <1>3, <1>4, <1>5, <1>6, <1>7, <1>8, <1>9, <1>10, <1>11, <1>12 DEF PyNext
<1>14. QED
  BY <1>13 DEF Kind

PyTypeOK ==
  /\ g_iLastHandle \in 0 .. MaxHandle
  /\ g_mReader \in [Handles -> Readers \cup {NoReader}]
  /\ pyReader \in [Readers -> Files \cup {NoFile, Closed}]
  /\ \A h \in Handles : h > g_iLastHandle => g_mReader[h] = NoReader

PyHandlesOwnReaders ==
  /\ \A h \in Handles : g_mReader[h] # NoReader => pyReader[g_mReader[h]] \in Files
  /\ \A g, h \in Handles : g_mReader[g] = g_mReader[h] /\ g_mReader[g] # NoReader => g = h

PyInv == PyTypeOK /\ PyHandlesOwnReaders

LEMMA PyInitInv == PyInit => PyInv
BY BindingAssumption DEF PyInit, PyInv, PyTypeOK, PyHandlesOwnReaders, Handles

\* What an opening does to handles and readers.
LEMMA PyOpened ==
  ASSUME PyInv, NEW f \in Files, NEW r \in Readers, PyOpens(f, r)
  PROVE  LET n == g_iLastHandle + 1
         IN  /\ g_mReader' = [g_mReader EXCEPT ![n] = r]
             /\ pyReader' = [pyReader EXCEPT ![r] = f]
             /\ g_iLastHandle' = n /\ n \in Handles
             /\ pyServed' = <<n, f>>
             /\ \A h \in Handles : g_mReader[h] # r
<1>1. PICK result : Opened(f, r, result)
  BY DEF PyOpens
<1>2. pyReader[r] = NoFile /\ \A h \in Handles : g_mReader[h] # r
  BY <1>1, BindingAssumption DEF Opened, PyInv, PyTypeOK, PyHandlesOwnReaders
<1>3. g_iLastHandle' = g_iLastHandle + 1 /\ g_iLastHandle + 1 \in Handles
  BY <1>1, BindingAssumption DEF Opened, PyInv, PyTypeOK, Handles
<1>4. QED
  BY <1>1, <1>2, <1>3 DEF Opened

\* What a closing does to them.
LEMMA PyClosed ==
  ASSUME PyInv, NEW h \in Handles, ValidHandle(h), daff_close(h)
  PROVE  /\ g_mReader' = [g_mReader EXCEPT ![h] = NoReader]
         /\ pyReader' = [pyReader EXCEPT ![g_mReader[h]] = Closed]
         /\ UNCHANGED g_iLastHandle
         /\ g_mReader[h] \in Readers /\ pyServed' = <<h, NoFile>>
BY DEF daff_close, ValidHandle, PyInv, PyTypeOK

LEMMA PyOpenInv ==
  ASSUME PyInv, NEW f \in Files, NEW r \in Readers, PyOpens(f, r)
  PROVE  PyInv'
<1>1. PyTypeOK'
  BY PyOpened, BindingAssumption DEF PyInv, PyTypeOK, Handles
<1>2. ASSUME NEW h \in Handles, g_mReader'[h] # NoReader
      PROVE  pyReader'[g_mReader'[h]] \in Files
  BY <1>2, PyOpened DEF PyInv, PyTypeOK, PyHandlesOwnReaders
<1>3. ASSUME NEW g \in Handles, NEW h \in Handles,
             g_mReader'[g] = g_mReader'[h], g_mReader'[g] # NoReader
      PROVE  g = h
  BY <1>3, PyOpened DEF PyInv, PyTypeOK, PyHandlesOwnReaders
<1>4. QED
  BY <1>1, <1>2, <1>3 DEF PyInv, PyHandlesOwnReaders

LEMMA PyCloseInv ==
  ASSUME PyInv, NEW h \in Handles, ValidHandle(h), daff_close(h)
  PROVE  PyInv'
<1>1. PyTypeOK'
  BY PyClosed DEF PyInv, PyTypeOK
<1>2. ASSUME NEW g \in Handles, g_mReader'[g] # NoReader
      PROVE  pyReader'[g_mReader'[g]] \in Files
  BY <1>2, PyClosed DEF PyInv, PyTypeOK, PyHandlesOwnReaders
<1>3. ASSUME NEW g \in Handles, NEW k \in Handles,
             g_mReader'[g] = g_mReader'[k], g_mReader'[g] # NoReader
      PROVE  g = k
  BY <1>3, PyClosed DEF PyInv, PyTypeOK, PyHandlesOwnReaders
<1>4. QED
  BY <1>1, <1>2, <1>3 DEF PyInv, PyHandlesOwnReaders

LEMMA PyStillInv ==
  ASSUME PyInv, UNCHANGED pyState
  PROVE  PyInv'
BY DEF PyInv, PyTypeOK, PyHandlesOwnReaders, pyState

LEMMA PyStepInv == PyInv /\ [PyNext]_pyVars => PyInv'
<1> SUFFICES ASSUME PyInv, [PyNext]_pyVars PROVE PyInv'
  OBVIOUS
<1>1. CASE PyNext
  BY <1>1, PySteps, PyOpenInv, PyCloseInv, PyStillInv DEF Raise, PyAnswers
<1>2. CASE UNCHANGED pyVars
  BY <1>2, PyStillInv DEF pyVars, pyState
<1>3. QED
  BY <1>1, <1>2

LEMMA PyInvariant == PySpec => []PyInv
<1>1. QED
  BY PyInitInv, PyStepInv, PTL DEF PySpec

\* In Python every open handle has a reader of its own, which has a file open.
THEOREM PyOwnsReaders == PySpec => []PyHandlesOwnReaders
<1>1. PyInv => PyHandlesOwnReaders
  BY DEF PyInv
<1>2. QED
  BY PyInvariant, <1>1, PTL

LEMMA PyInitHandles == PyInit => PyHandles!HandlesInit
BY DEF PyInit, PyHandles!HandlesInit, PyHandles!Handles, Handles, PyTable, PyGiven

LEMMA PyStillHandles == UNCHANGED pyState => UNCHANGED <<PyTable, PyGiven>>
BY DEF pyState, PyTable, PyGiven

LEMMA PyAnswerHandles ==
  ASSUME PyInv, NEW h \in Handles, PyAnswers(h)
  PROVE  PyHandles!Serve(h)
<1>1. PyTable[h] = PyFile(h) /\ PyTable[h] # NoFile
  BY BindingAssumption
  DEF PyAnswers, ValidHandle, PyTable, PyFile, PyInv, PyHandlesOwnReaders
<1>2. QED
  BY <1>1, PyStillHandles DEF PyAnswers, PyHandles!Serve

LEMMA PyOpenHandles ==
  ASSUME PyInv, NEW f \in Files, NEW r \in Readers, PyOpens(f, r)
  PROVE  g_iLastHandle + 1 \in Handles /\ PyHandles!Give(g_iLastHandle + 1, f)
<1> DEFINE n == g_iLastHandle + 1
<1>1. n \notin PyGiven /\ PyGiven' = PyGiven \cup {n}
  BY PyOpened, BindingAssumption DEF PyGiven, PyInv, PyTypeOK
<1>2. PyTable'[n] = f
  BY PyOpened, BindingAssumption DEF PyTable, PyInv, PyTypeOK
<1>3. ASSUME NEW h \in Handles, h # n
      PROVE  PyTable'[h] = PyTable[h]
  BY <1>3, PyOpened DEF PyTable, PyInv, PyTypeOK, PyHandlesOwnReaders
<1>4. PyTable' = [PyTable EXCEPT ![n] = f]
  BY <1>2, <1>3 DEF PyTable
<1>5. QED
  BY <1>1, <1>4, PyOpened DEF PyHandles!Give

LEMMA PyCloseHandles ==
  ASSUME PyInv, NEW h \in Handles, ValidHandle(h), daff_close(h)
  PROVE  PyHandles!Take(h)
<1>1. PyTable[h] # NoFile
  BY BindingAssumption DEF ValidHandle, PyTable, PyInv, PyHandlesOwnReaders
<1>2. PyTable'[h] = NoFile
  BY PyClosed DEF PyTable, PyInv, PyTypeOK
<1>3. ASSUME NEW g \in Handles, g # h
      PROVE  PyTable'[g] = PyTable[g]
  BY <1>3, PyClosed DEF PyTable, PyInv, PyTypeOK, PyHandlesOwnReaders
<1>4. PyTable' = [PyTable EXCEPT ![h] = NoFile]
  BY <1>2, <1>3 DEF PyTable
<1>5. QED
  BY <1>1, <1>4, PyClosed DEF PyHandles!Take, PyGiven

LEMMA PyStepHandles ==
  PyInv /\ [PyNext]_pyVars => [PyHandles!HandlesNext]_PyHandles!handleVars
<1> SUFFICES ASSUME PyInv, [PyNext]_pyVars
             PROVE  [PyHandles!HandlesNext]_PyHandles!handleVars
  OBVIOUS
<1> USE DEF PyHandles!HandlesNext, PyHandles!Handles, Handles
<1>1. CASE Raise
  BY <1>1, PyStillHandles DEF Raise, PyHandles!Fail
<1>2. ASSUME NEW h \in Handles, PyAnswers(h) PROVE PyHandles!HandlesNext
  BY <1>2, PyAnswerHandles
<1>3. ASSUME NEW f \in Files, NEW r \in Readers, PyOpens(f, r) PROVE PyHandles!HandlesNext
  BY <1>3, PyOpenHandles
<1>4. ASSUME NEW h \in Handles, ValidHandle(h), daff_close(h) PROVE PyHandles!HandlesNext
  BY <1>4, PyCloseHandles
<1>5. CASE UNCHANGED pyVars
  BY <1>5, PyStillHandles DEF pyVars, pyState, PyHandles!handleVars
<1>6. QED
  BY <1>1, <1>2, <1>3, <1>4, <1>5, PySteps

\* The Python binding keeps the promise of handles.
THEOREM PyKeepsPromise == PySpec => PyImplementsHandles
<1>1. QED
  BY PyInitHandles, PyInvariant, PyStepHandles, PTL
  DEF PySpec, PyImplementsHandles, PyHandles!HandlesSpec
-----------------------------------------------------------------------------
(* Records.                                                                  *)

Places(f) == 0 .. (IF Complex(f) THEN 2 * f.elements ELSE f.elements) - 1

\* A place in the zone of a response is a place in the block.
LEMMA Within ==
  ASSUME NEW offset \in Nat, NEW zeros \in Nat, NEW length \in Nat, NEW end \in Nat, NEW k \in Int,
         offset + length <= end, zeros <= k, k <= zeros + length - 1
  PROVE  offset + (k - zeros) < end /\ offset + (k - zeros) \in Nat
OBVIOUS

\* Of a response the getter answers the stored zone with zeros around it.
LEMMA ResponseIsTrue ==
  ASSUME NEW f \in Files, f.content = "IR", NEW i \in Records(f), NEW c \in Channels(f)
  PROVE  LET cells == getFilterCoeffs(f, i, c, 1).cells
         IN  /\ DOMAIN cells = Elements(f)
             /\ \A k \in Elements(f) : cells[k] = NumberOf(f, i, c, k, 0)
<1> DEFINE d == f.desc[<<i, c>>]
           cells == getFilterCoeffs(f, i, c, 1).cells
<1>1. /\ d.offset \in Nat /\ d.zeros \in Nat /\ d.length \in Nat
      /\ d.zeros + d.length <= f.elements /\ d.offset + d.length <= Len(f.block)
      /\ f.elements \in Nat /\ f.block \in Seq(Int)
  BY FilesAssumption
<1>2. ~InvalidIndex(f, i, c)
  BY DEF InvalidIndex, Records, Channels
<1> HIDE DEF d
<1>3. cells = [k \in Elements(f) |->
                 IF k \in d.zeros .. d.zeros + d.length - 1 THEN At(f, i, c, k - d.zeros) * 1 ELSE 0]
  BY <1>1, <1>2 DEF getFilterCoeffs, Checked, Answer, Elements, d
<1>4. ASSUME NEW k \in Elements(f), k \in d.zeros .. d.zeros + d.length - 1
      PROVE  /\ At(f, i, c, k - d.zeros) = f.block[d.offset + k - d.zeros + 1]
             /\ f.block[d.offset + k - d.zeros + 1] \in Int
  <2>1. d.offset + (k - d.zeros) < Len(f.block) /\ d.offset + (k - d.zeros) \in Nat
    <3>1. k \in Int /\ d.zeros <= k /\ k <= d.zeros + d.length - 1
      BY <1>1, <1>4 DEF Elements
    <3>2. Len(f.block) \in Nat
      BY <1>1
    <3>3. QED
      BY <1>1, <3>1, <3>2, Within
  <2>2. d.offset + (k - d.zeros) + 1 = d.offset + k - d.zeros + 1
    BY <1>1 DEF Elements
  <2>3. d.offset + (k - d.zeros) + 1 \in 1 .. Len(f.block)
    BY <2>1, <1>1
  <2>4. QED
    BY <1>1, <2>1, <2>2, <2>3 DEF At, d
<1>5. ASSUME NEW k \in Elements(f) PROVE cells[k] = NumberOf(f, i, c, k, 0)
  BY <1>3, <1>4 DEF NumberOf, d
<1>6. QED
  BY <1>3, <1>5

\* The other getters copy the numbers of the record.
LEMMA SpectrumIsTrue ==
  ASSUME NEW f \in Files, f.content # "IR", NEW i \in Records(f), NEW c \in Channels(f)
  PROVE  LET cells == Fetch(f, i, c).cells
         IN  /\ DOMAIN cells = Places(f)
             /\ \A j \in Places(f) : cells[j] = f.block[f.desc[<<i, c>>].offset + j + 1]
<1> DEFINE d == f.desc[<<i, c>>]
           cells == Fetch(f, i, c).cells
           Last == IF Complex(f) THEN 2 * f.elements ELSE f.elements
<1>1. /\ d.offset \in Nat /\ d.offset + (IF Complex(f) THEN 2 * f.elements ELSE f.elements) <= Len(f.block)
      /\ f.elements \in Nat /\ f.block \in Seq(Int)
      /\ f.content \in {"MS", "PS", "MPS", "DFT"}
  BY FilesAssumption
<1>2. ~InvalidIndex(f, i, c)
  BY DEF InvalidIndex, Records, Channels
<1>3. cells = [j \in Places(f) |-> At(f, i, c, j)]
  <2>1. CASE f.content = "MS"
    BY <2>1, <1>2 DEF Fetch, getMagnitudes, Answer, Places, Complex
  <2>2. CASE f.content = "PS"
    BY <2>2, <1>2 DEF Fetch, getPhases, Answer, Places, Complex
  <2>3. CASE f.content = "MPS"
    BY <2>3, <1>2 DEF Fetch, getCoefficientsRI, Pairs, Checked, Answer, Places, Complex
  <2>4. CASE f.content = "DFT"
    BY <2>4, <1>2 DEF Fetch, getDFTCoeffs, Pairs, Checked, Answer, Places, Complex
  <2>5. QED
    BY <1>1, <2>1, <2>2, <2>3, <2>4
<1>4. ASSUME NEW j \in Places(f) PROVE At(f, i, c, j) = f.block[d.offset + j + 1]
  <2>1. j \in Int /\ 0 <= j /\ j <= 0 + Last - 1 /\ Last \in Nat
    BY <1>1, <1>4 DEF Places
  <2>2. Len(f.block) \in Nat /\ d.offset + Last <= Len(f.block)
    BY <1>1
  <2> HIDE DEF Last
  <2>3. d.offset + j < Len(f.block)
    <3>1. d.offset \in Nat
      BY <1>1
    <3>2. d.offset + (j - 0) < Len(f.block)
      BY <2>1, <2>2, <3>1, Within
    <3>3. QED
      BY <2>1, <3>1, <3>2
  <2>4. QED
    BY <2>3 DEF At
<1>5. DOMAIN cells = Places(f)
  BY <1>3
<1>6. ASSUME NEW j \in Places(f) PROVE cells[j] = f.block[d.offset + j + 1]
  BY <1>3, <1>4
<1>7. QED
  BY <1>5, <1>6

-----------------------------------------------------------------------------
(* Matlab: what a matrix holds.                                              *)

\* The first n conversions of a record.
Converted(f, buffer, i, n, g) ==
  g = [c \in 0 .. n |-> IF c = 0 THEN buffer ELSE Overlay(g[c - 1], Fetch(f, i, c - 1).cells)]

\* There are conversions for any number of channels.
LEMMA ConversionsExist ==
  ASSUME NEW f, NEW buffer, NEW i, NEW n \in Nat
  PROVE  \E g : Converted(f, buffer, i, n, g)
<1> DEFINE P == {m \in Nat : \E g : Converted(f, buffer, i, m, g)}
<1>1. 0 \in P
  <2>1. Converted(f, buffer, i, 0, [c \in 0 .. 0 |-> buffer])
    BY DEF Converted
  <2>2. QED
    BY <2>1
<1>2. ASSUME NEW m \in P PROVE m + 1 \in P
  <2>1. PICK g : Converted(f, buffer, i, m, g)
    BY <1>2
  <2>2. m \in Nat
    BY <1>2
  <2>3. PICK h : h = [c \in 0 .. m + 1 |->
                        IF c = m + 1 THEN Overlay(g[m], Fetch(f, i, m).cells) ELSE g[c]]
    OBVIOUS
  <2>4. \A c \in 0 .. m : h[c] = g[c]
    BY <2>2, <2>3
  <2>5. ASSUME NEW c \in 0 .. m + 1
        PROVE  h[c] = IF c = 0 THEN buffer ELSE Overlay(h[c - 1], Fetch(f, i, c - 1).cells)
    <3>1. CASE c = m + 1
      <4>1. c - 1 = m /\ m \in 0 .. m /\ c # 0
        BY <2>2, <3>1
      <4>2. h[c] = Overlay(g[m], Fetch(f, i, m).cells)
        BY <2>3, <2>5, <3>1
      <4>3. h[m] = g[m]
        BY <2>4, <4>1
      <4>4. QED
        BY <4>1, <4>2, <4>3
    <3>2. CASE c # m + 1
      <4>1. c \in 0 .. m /\ (c # 0 => c - 1 \in 0 .. m)
        BY <2>2, <2>5, <3>2
      <4>2. g[c] = IF c = 0 THEN buffer ELSE Overlay(g[c - 1], Fetch(f, i, c - 1).cells)
        BY <2>1, <4>1 DEF Converted
      <4>3. QED
        BY <2>4, <4>1, <4>2
    <3>3. QED
      BY <3>1, <3>2
  <2>6. Converted(f, buffer, i, m + 1, h)
    <3>1. h = [c \in 0 .. m + 1 |-> h[c]]
      BY <2>3
    <3>2. QED
      BY <2>5, <3>1 DEF Converted
  <2>7. QED
    BY <2>2, <2>6
<1>3. P = Nat
  <2> HIDE DEF P
  <2>1. P \in SUBSET Nat
    BY DEF P
  <2>2. QED
    BY <1>1, <1>2, <2>1, Induction
<1>4. QED
  BY <1>3

LEMMA ConversionsAre ==
  ASSUME NEW f, f.channels \in Nat, NEW buffer, NEW i
  PROVE  Converted(f, buffer, i, f.channels, Conversions(f, buffer, i))
<1>1. Conversions(f, buffer, i) = CHOOSE g : Converted(f, buffer, i, f.channels, g)
  BY DEF Conversions, Converted
<1>2. QED
  BY <1>1, ConversionsExist

LEMMA PlacesType ==
  ASSUME NEW f \in Files
  PROVE  /\ f.channels \in Nat /\ f.elements \in Nat
         /\ \A i \in Records(f), c \in Channels(f) : DOMAIN Fetch(f, i, c).cells = Places(f)
<1>1. ASSUME NEW i \in Records(f), NEW c \in Channels(f)
      PROVE  DOMAIN Fetch(f, i, c).cells = Places(f)
  <2>1. CASE f.content = "IR"
    BY <2>1, ResponseIsTrue DEF Fetch, Places, Elements, Complex
  <2>2. CASE f.content # "IR"
    BY <2>2, SpectrumIsTrue
  <2>3. QED
    BY <2>1, <2>2
<1>2. QED
  BY <1>1, FilesAssumption

\* Behind channel c the buffer holds what the getter answered for it.
LEMMA BufferHolds ==
  ASSUME NEW f \in Files, NEW i \in Records(f), NEW buffer, DOMAIN buffer = Places(f)
  PROVE  LET after == Conversions(f, buffer, i)
         IN  /\ \A n \in 0 .. f.channels : DOMAIN after[n] = Places(f)
             /\ \A c \in Channels(f), j \in Places(f) : after[c + 1][j] = Fetch(f, i, c).cells[j]
<1>1. f.channels \in Nat
  BY PlacesType
<1>2. PICK after : after = Conversions(f, buffer, i)
  OBVIOUS
<1>3. /\ after[0] = buffer
      /\ \A c \in Channels(f) : after[c + 1] = Overlay(after[c], Fetch(f, i, c).cells)
  <2>1. after = [c \in 0 .. f.channels |->
                   IF c = 0 THEN buffer ELSE Overlay(after[c - 1], Fetch(f, i, c - 1).cells)]
    BY <1>1, <1>2, ConversionsAre DEF Converted
  <2>2. after[0] = buffer
    BY <1>1, <2>1
  <2>3. ASSUME NEW c \in Channels(f)
        PROVE  after[c + 1] = Overlay(after[c], Fetch(f, i, c).cells)
    <3>1. c + 1 \in 0 .. f.channels /\ c + 1 # 0 /\ (c + 1) - 1 = c
      BY <1>1 DEF Channels
    <3>2. after[c + 1] = Overlay(after[(c + 1) - 1], Fetch(f, i, (c + 1) - 1).cells)
      BY <2>1, <3>1
    <3>3. QED
      BY <3>1, <3>2
  <2>4. QED
    BY <2>2, <2>3
<1>4. \A n \in 0 .. f.channels : DOMAIN after[n] = Places(f)
  <2> DEFINE P == {n \in Nat : n <= f.channels => DOMAIN after[n] = Places(f)}
  <2>1. 0 \in P
    BY <1>3
  <2>2. ASSUME NEW n \in P PROVE n + 1 \in P
    <3>1. n \in Nat /\ (n + 1 <= f.channels => n \in Channels(f) /\ n <= f.channels)
      BY <1>1, <2>2 DEF Channels
    <3>2. ASSUME n + 1 <= f.channels PROVE DOMAIN after[n + 1] = Places(f)
      <4>1. after[n + 1] = Overlay(after[n], Fetch(f, i, n).cells) /\ DOMAIN after[n] = Places(f)
        BY <1>3, <2>2, <3>1, <3>2
      <4>2. QED
        BY <4>1 DEF Overlay
    <3>3. QED
      BY <3>1, <3>2
  <2>3. P = Nat
    <3> HIDE DEF P
    <3>1. P \in SUBSET Nat
      BY DEF P
    <3>2. QED
      BY <2>1, <2>2, <3>1, Induction
  <2>4. QED
    BY <1>1, <2>3
<1>5. ASSUME NEW c \in Channels(f), NEW j \in Places(f)
      PROVE  after[c + 1][j] = Fetch(f, i, c).cells[j]
  <2>1. DOMAIN after[c] = Places(f) /\ DOMAIN Fetch(f, i, c).cells = Places(f)
    BY <1>1, <1>4, PlacesType DEF Channels
  <2>2. QED
    BY <1>3, <2>1 DEF Overlay
<1>6. QED
  BY <1>2, <1>4, <1>5

\* Element k of channel c has a cell of the matrix, from which both are found again.
LEMMA CellOfMatrix ==
  ASSUME NEW n \in Nat, NEW m \in Nat, NEW c \in 0 .. n - 1, NEW k \in 0 .. m - 1
  PROVE  /\ k * n + c \in 0 .. n * m - 1
         /\ (k * n + c) % n = c /\ (k * n + c) \div n = k
<1>1. n > 0 /\ k \in Nat /\ c \in Nat /\ k + 1 <= m
  OBVIOUS
<1>2. k * n \in Nat /\ (k + 1) * n <= m * n /\ (k + 1) * n = k * n + n
  BY <1>1
<1>3. k * n + c \in 0 .. n * m - 1
  BY <1>1, <1>2
<1>4. (k * n + c) % n = c /\ (k * n + c) \div n = k
  BY <1>1
<1>5. QED
  BY <1>3, <1>4

\* A matrix holds the numbers of the record, whatever was in the buffer.
TrueMatrix(f, x) ==
  /\ x.fits
  /\ \A c \in Channels(f), k \in Elements(f) :
       /\ x.real[k * f.channels + c] = NumberOf(f, x.index, c, k, 0)
       /\ Complex(f) => x.imag[k * f.channels + c] = NumberOf(f, x.index, c, k, 1)

LEMMA MatrixIsTrue ==
  ASSUME NEW f \in Files, NEW i \in Records(f), NEW buffer, DOMAIN buffer = Places(f)
  PROVE  LET x == GetRecordMatlab(f, buffer, i)
         IN  TrueMatrix(f, x) /\ DOMAIN x.buffer = Places(f)
<1> DEFINE x == GetRecordMatlab(f, buffer, i)
<1>1. f.channels \in Nat /\ f.elements \in Nat
  BY PlacesType
<1>2. PICK after : after = Conversions(f, buffer, i)
  OBVIOUS
<1>3. /\ \A n \in 0 .. f.channels : DOMAIN after[n] = Places(f)
      /\ \A c \in Channels(f), j \in Places(f) : after[c + 1][j] = Fetch(f, i, c).cells[j]
  BY <1>2, BufferHolds
<1>4. x.index = i /\ x.buffer = after[f.channels] /\ x.fits = Fits(f, i, DOMAIN buffer)
  BY <1>2 DEF GetRecordMatlab
<1>5. Fits(f, i, DOMAIN buffer)
  BY PlacesType DEF Fits
<1>6. ASSUME NEW c \in Channels(f), NEW k \in Elements(f)
      PROVE  /\ x.real[k * f.channels + c] = NumberOf(f, i, c, k, 0)
             /\ Complex(f) => x.imag[k * f.channels + c] = NumberOf(f, i, c, k, 1)
  <2>1. PICK j : j = k * f.channels + c
    OBVIOUS
  <2>2. j \in 0 .. f.channels * f.elements - 1 /\ j % f.channels = c /\ j \div f.channels = k
    BY <1>1, <2>1, CellOfMatrix DEF Channels, Elements
  <2>3. CASE Complex(f)
    <3>1. /\ x.real[j] = after[c + 1][2 * k + 0]
          /\ x.imag[j] = after[c + 1][2 * k + 1]
      BY <1>2, <2>2, <2>3 DEF GetRecordMatlab
    <3>2. 2 * k + 0 \in Places(f) /\ 2 * k + 1 \in Places(f)
      BY <1>1, <2>3 DEF Places, Elements
    <3>3. f.content # "IR"
      BY <2>3 DEF Complex
    <3>4. QED
      BY <1>3, <2>1, <2>3, <3>1, <3>2, <3>3, SpectrumIsTrue DEF NumberOf
  <2>4. CASE ~Complex(f)
    <3>1. x.real[j] = after[c + 1][k]
      BY <1>2, <2>2, <2>4 DEF GetRecordMatlab
    <3>2. k \in Places(f)
      BY <2>4 DEF Places, Elements
    <3>3. x.real[j] = Fetch(f, i, c).cells[k]
      BY <1>3, <3>1, <3>2
    <3>4. CASE f.content = "IR"
      BY <2>1, <2>4, <3>3, <3>4, ResponseIsTrue DEF Fetch
    <3>5. CASE f.content # "IR"
      BY <2>1, <2>4, <3>2, <3>3, <3>5, SpectrumIsTrue DEF NumberOf
    <3>6. QED
      BY <2>4, <3>4, <3>5
  <2>5. QED
    BY <2>3, <2>4, <2>1
<1>7. QED
  BY <1>1, <1>3, <1>4, <1>5, <1>6 DEF TrueMatrix


\* What is shown last are true matrices, and the buffer of an open handle has the
\* places that its content needs.
MexMatrices(f, matrices) ==
  matrices # <<>> /\ \A n \in DOMAIN matrices : TrueMatrix(f, matrices[n])
MexBuffersOK ==
  /\ pfBuffer = [h \in Handles |-> pfBuffer[h]]
  /\ \A h \in Handles : mHandles[h] # NoReader => DOMAIN pfBuffer[h] = Places(reader[mHandles[h]])
MexRecordsInv == MexInv /\ MexBuffersOK /\ MexRecordsAreTrue

\* An answer that is no record leaves nothing to show.
LEMMA NoRecordIsTrue ==
  ASSUME plhs'.kind # "records" PROVE MexRecordsAreTrue'
BY DEF MexRecordsAreTrue

LEMMA KnownFile ==
  ASSUME MexRecordsInv, NEW h, Known(h)
  PROVE  /\ h \in Handles /\ mHandles[h] \in Readers
         /\ FileOf(h) \in Files /\ DOMAIN pfBuffer[h] = Places(FileOf(h))
BY DEF MexRecordsInv, MexInv, MexTypeOK, MexHandlesOwnReaders, MexBuffersOK, Known, FileOf

LEMMA BufferStays ==
  ASSUME MexBuffersOK, UNCHANGED mexState, UNCHANGED pfBuffer PROVE MexBuffersOK'
BY DEF MexBuffersOK, mexState

\* Four kinds of answers: an error, a value, properties, and records.
LEMMA ErrorIsTrue ==
  ASSUME MexRecordsInv, MexError PROVE MexBuffersOK' /\ MexRecordsAreTrue'
BY BufferStays, NoRecordIsTrue DEF MexRecordsInv, MexError, Nil

LEMMA ValueIsTrue ==
  ASSUME MexRecordsInv, NEW h, NEW value, ReturnValue(h, value)
  PROVE  MexBuffersOK' /\ MexRecordsAreTrue'
BY BufferStays, NoRecordIsTrue DEF MexRecordsInv, ReturnValue, Return

LEMMA PropertiesAreTrue ==
  ASSUME MexRecordsInv, NEW h, GetProperties(h)
  PROVE  MexBuffersOK' /\ MexRecordsAreTrue'
<1>1. CASE Known(h)
  <2>1. plhs'.kind = "properties" /\ UNCHANGED mexState /\ UNCHANGED pfBuffer
    BY <1>1 DEF GetProperties, Return
  <2>2. QED
    BY <2>1, BufferStays, NoRecordIsTrue DEF MexRecordsInv
<1>2. CASE ~Known(h)
  BY <1>2, ErrorIsTrue DEF GetProperties
<1>3. QED
  BY <1>1, <1>2

LEMMA RecordsAreTrue ==
  ASSUME MexRecordsInv, NEW h, Known(h), NEW matrices, ReturnRecords(h, matrices),
         MexMatrices(FileOf(h), matrices),
         DOMAIN matrices[Len(matrices)].buffer = Places(FileOf(h))
  PROVE  MexBuffersOK' /\ MexRecordsAreTrue'
<1>1. /\ served' = <<h, FileOf(h)>> /\ plhs' = [kind |-> "records", value |-> matrices]
      /\ UNCHANGED mexState
      /\ pfBuffer' = [pfBuffer EXCEPT ![h] = matrices[Len(matrices)].buffer]
  BY DEF ReturnRecords, Return
<1>2. MexRecordsAreTrue'
  BY <1>1 DEF MexMatrices, TrueMatrix, MexRecordsAreTrue
<1>3. MexBuffersOK'
  BY <1>1, KnownFile DEF MexRecordsInv, MexBuffersOK, mexState, FileOf
<1>4. QED
  BY <1>2, <1>3

\* One matrix, of a record that the file has.
LEMMA OneMatrix ==
  ASSUME MexRecordsInv, NEW h, Known(h), NEW i \in Records(FileOf(h)),
         ReturnRecords(h, <<GetRecordMatlab(FileOf(h), pfBuffer[h], i)>>)
  PROVE  MexBuffersOK' /\ MexRecordsAreTrue'
<1>1. FileOf(h) \in Files /\ DOMAIN pfBuffer[h] = Places(FileOf(h))
  BY KnownFile
<1>2. PICK x : x = GetRecordMatlab(FileOf(h), pfBuffer[h], i)
  OBVIOUS
<1>3. TrueMatrix(FileOf(h), x) /\ DOMAIN x.buffer = Places(FileOf(h))
  BY <1>1, <1>2, MatrixIsTrue
<1>4. PICK matrices : matrices = <<x>>
  OBVIOUS
<1>5. /\ MexMatrices(FileOf(h), matrices) /\ Len(matrices) = 1 /\ matrices[1] = x
  BY <1>3, <1>4 DEF MexMatrices
<1>6. QED
  BY <1>2, <1>3, <1>4, <1>5, RecordsAreTrue

LEMMA GetRecordIsTrue ==
  ASSUME MexRecordsInv, NEW h, NEW i, i \in Int, GetRecordByIndex(h, i)
  PROVE  MexBuffersOK' /\ MexRecordsAreTrue'
<1>1. CASE Known(h) /\ IsMatlabIndex(FileOf(h), i)
  <2>1. FileOf(h).records \in Nat
    BY <1>1, KnownFile, FilesAssumption
  <2>2. i - 1 \in Records(FileOf(h))
    BY <1>1, <2>1 DEF IsMatlabIndex, Records
  <2>3. QED
    BY <1>1, <2>2, OneMatrix DEF GetRecordByIndex
<1>2. CASE ~(Known(h) /\ IsMatlabIndex(FileOf(h), i))
  BY <1>2, ErrorIsTrue DEF GetRecordByIndex
<1>3. QED
  BY <1>1, <1>2

LEMMA NearestIsTrue ==
  ASSUME MexRecordsInv, NEW h, NEW view, NEW a \in Angles, GetNearestNeighbourRecord(h, view, a)
  PROVE  MexBuffersOK' /\ MexRecordsAreTrue'
<1>1. CASE Known(h) /\ IsView(view)
  <2>1. Nearest(FileOf(h), view, a) \in Records(FileOf(h))
    BY <1>1, KnownFile, DirectionAssumption DEF IsView
  <2>2. QED
    BY <1>1, <2>1, OneMatrix DEF GetNearestNeighbourRecord
<1>2. CASE ~(Known(h) /\ IsView(view))
  BY <1>2, ErrorIsTrue DEF GetNearestNeighbourRecord
<1>3. QED
  BY <1>1, <1>2

\* Four matrices, each filled through the buffer that the one before has left.
LEMMA CellIsTrue ==
  ASSUME MexRecordsInv, NEW h, NEW view, NEW a \in Angles, GetCellRecords(h, view, a)
  PROVE  MexBuffersOK' /\ MexRecordsAreTrue'
<1>1. CASE Known(h) /\ IsView(view)
  <2>1. PICK f : f = FileOf(h)
    OBVIOUS
  <2>2. f \in Files /\ DOMAIN pfBuffer[h] = Places(f)
    BY <1>1, <2>1, KnownFile
  <2>3. PICK q : q = Cell(f, view, a)
    OBVIOUS
  <2>4. q[1] \in Records(f) /\ q[2] \in Records(f) /\ q[3] \in Records(f) /\ q[4] \in Records(f)
    BY <1>1, <2>2, <2>3, DirectionAssumption DEF IsView
  <2>5. PICK m1 : m1 = GetRecordMatlab(f, pfBuffer[h], q[1])
    OBVIOUS
  <2>6. PICK m2 : m2 = GetRecordMatlab(f, m1.buffer, q[2])
    OBVIOUS
  <2>7. PICK m3 : m3 = GetRecordMatlab(f, m2.buffer, q[3])
    OBVIOUS
  <2>8. PICK m4 : m4 = GetRecordMatlab(f, m3.buffer, q[4])
    OBVIOUS
  <2>9. ReturnRecords(h, <<m1, m2, m3, m4>>)
    BY <1>1, <2>1, <2>3, <2>5, <2>6, <2>7, <2>8 DEF GetCellRecords
  <2>10. TrueMatrix(f, m1) /\ DOMAIN m1.buffer = Places(f)
    BY <2>2, <2>4, <2>5, MatrixIsTrue
  <2>11. TrueMatrix(f, m2) /\ DOMAIN m2.buffer = Places(f)
    BY <2>2, <2>4, <2>6, <2>10, MatrixIsTrue
  <2>12. TrueMatrix(f, m3) /\ DOMAIN m3.buffer = Places(f)
    BY <2>2, <2>4, <2>7, <2>11, MatrixIsTrue
  <2>13. TrueMatrix(f, m4) /\ DOMAIN m4.buffer = Places(f)
    BY <2>2, <2>4, <2>8, <2>12, MatrixIsTrue
  <2>14. PICK matrices : matrices = <<m1, m2, m3, m4>>
    OBVIOUS
  <2>15. MexMatrices(f, matrices) /\ Len(matrices) = 4 /\ matrices[4] = m4
    BY <2>10, <2>11, <2>12, <2>13, <2>14 DEF MexMatrices
  <2>16. QED
    BY <1>1, <2>1, <2>9, <2>13, <2>14, <2>15, RecordsAreTrue
<1>2. CASE ~(Known(h) /\ IsView(view))
  BY <1>2, ErrorIsTrue DEF GetCellRecords
<1>3. QED
  BY <1>1, <1>2

\* A new handle has a buffer of its own, and no handle that stays has its reader.
LEMMA OpenIsTrue ==
  ASSUME MexRecordsInv, NEW f \in Files, NEW r \in Readers, Open(f, r)
  PROVE  MexBuffersOK' /\ MexRecordsAreTrue'
<1>1. /\ mHandles' = [mHandles EXCEPT ![hHandleCount] = r]
      /\ reader' = [reader EXCEPT ![r] = f]
      /\ pfBuffer' = [pfBuffer EXCEPT ![hHandleCount] = NewBuffer(f)]
      /\ plhs'.kind = "handle" /\ reader[r] = NoFile
  BY DEF Open
<1>2. /\ mHandles \in [Handles -> Readers \cup {NoReader}]
      /\ reader \in [Readers -> Files \cup {NoFile}]
      /\ r # NoReader
  BY BindingAssumption DEF MexRecordsInv, MexInv, MexTypeOK
<1>3. DOMAIN NewBuffer(f) = Places(f)
  BY DEF NewBuffer, Places
<1>4. ASSUME NEW h \in Handles, mHandles'[h] # NoReader
      PROVE  DOMAIN pfBuffer'[h] = Places(reader'[mHandles'[h]])
  <2>1. CASE h = hHandleCount
    BY <1>1, <1>2, <1>3, <2>1 DEF MexRecordsInv, MexBuffersOK
  <2>2. CASE h # hHandleCount
    <3>1. mHandles'[h] = mHandles[h] /\ pfBuffer'[h] = pfBuffer[h] /\ mHandles[h] \in Readers
      BY <1>1, <1>2, <1>4, <2>2 DEF MexRecordsInv, MexBuffersOK
    <3>2. mHandles[h] # r
      BY <1>1, <1>4, <3>1 DEF MexRecordsInv, MexInv, MexHandlesOwnReaders
    <3>3. QED
      BY <1>1, <1>2, <1>4, <3>1, <3>2 DEF MexRecordsInv, MexBuffersOK
  <2>3. QED
    BY <2>1, <2>2
<1>5. pfBuffer' = [h \in Handles |-> pfBuffer'[h]]
  BY <1>1 DEF MexRecordsInv, MexBuffersOK
<1>6. QED
  BY <1>1, <1>4, <1>5, NoRecordIsTrue DEF MexBuffersOK

LEMMA CloseIsTrue ==
  ASSUME MexRecordsInv, NEW h, Close(h)
  PROVE  MexBuffersOK' /\ MexRecordsAreTrue'
<1>1. CASE Known(h)
  <2>1. /\ mHandles' = [mHandles EXCEPT ![h] = NoReader]
        /\ reader' = [reader EXCEPT ![mHandles[h]] = NoFile]
        /\ pfBuffer' = [pfBuffer EXCEPT ![h] = Nothing]
        /\ plhs' = Nil
    BY <1>1 DEF Close
  <2>2. /\ mHandles \in [Handles -> Readers \cup {NoReader}]
        /\ reader \in [Readers -> Files \cup {NoFile}]
        /\ h \in Handles /\ mHandles[h] # NoReader
    BY <1>1 DEF MexRecordsInv, MexInv, MexTypeOK, Known
  <2>3. ASSUME NEW g \in Handles, mHandles'[g] # NoReader
        PROVE  DOMAIN pfBuffer'[g] = Places(reader'[mHandles'[g]])
    <3>1. g # h
      BY <2>1, <2>2, <2>3
    <3>2. mHandles'[g] = mHandles[g] /\ pfBuffer'[g] = pfBuffer[g] /\ mHandles[g] \in Readers
      BY <2>1, <2>2, <2>3, <3>1 DEF MexRecordsInv, MexBuffersOK
    <3>3. mHandles[g] # mHandles[h]
      BY <2>2, <2>3, <3>1, <3>2 DEF MexRecordsInv, MexInv, MexHandlesOwnReaders
    <3>4. QED
      BY <2>1, <2>2, <2>3, <3>2, <3>3 DEF MexRecordsInv, MexBuffersOK
  <2>4. pfBuffer' = [g \in Handles |-> pfBuffer'[g]]
    BY <2>1 DEF MexRecordsInv, MexBuffersOK
  <2>5. QED
    BY <2>1, <2>3, <2>4, NoRecordIsTrue DEF MexBuffersOK, Nil
<1>2. CASE ~Known(h)
  BY <1>2, ErrorIsTrue DEF Close
<1>3. QED
  BY <1>1, <1>2

LEMMA MexRecordsStep == MexRecordsInv /\ [MexNext]_mexVars => MexRecordsInv'
<1> SUFFICES ASSUME MexRecordsInv, [MexNext]_mexVars PROVE MexRecordsInv'
  OBVIOUS
<1> DEFINE Good == MexBuffersOK' /\ MexRecordsAreTrue'
<1>1. ASSUME OpenFails PROVE Good
  BY <1>1, ErrorIsTrue DEF OpenFails
<1>2. ASSUME \E f \in Files, r \in Readers : Open(f, r) PROVE Good
  BY <1>2, OpenIsTrue
<1>3. ASSUME NEW h, Close(h) PROVE Good
  BY <1>3, CloseIsTrue
<1>4. ASSUME NEW h, GetMetadata(h) PROVE Good
  BY <1>4, ErrorIsTrue, ValueIsTrue DEF GetMetadata
<1>5. ASSUME NEW h, GetProperties(h) PROVE Good
  BY <1>5, PropertiesAreTrue
<1>6. ASSUME NEW h, NEW i \in 0 .. 3, GetRecordByIndex(h, i) PROVE Good
  BY <1>6, GetRecordIsTrue
<1>7. ASSUME NEW h, NEW i, GetRecordMetadata(h, i) PROVE Good
  BY <1>7, ErrorIsTrue, ValueIsTrue DEF GetRecordMetadata
<1>8. ASSUME NEW h, NEW view, NEW i, GetRecordCoords(h, view, i) PROVE Good
  BY <1>8, ErrorIsTrue, ValueIsTrue DEF GetRecordCoords
<1>9. ASSUME NEW h, NEW view, NEW a \in Angles, GetNearestNeighbourRecord(h, view, a) PROVE Good
  BY <1>9, NearestIsTrue
<1>10. ASSUME NEW h, NEW view, NEW a \in Angles, GetCellRecords(h, view, a) PROVE Good
  BY <1>10, CellIsTrue
<1>11. ASSUME NEW h, NEW view, NEW a, GetNearestNeighbourIndex(h, view, a) PROVE Good
  BY <1>11, ErrorIsTrue, ValueIsTrue DEF GetNearestNeighbourIndex
<1>12. ASSUME NEW h, NEW view, NEW a, GetCell(h, view, a) PROVE Good
  BY <1>12, ErrorIsTrue, ValueIsTrue DEF GetCell
<1>13. ASSUME UNCHANGED mexVars PROVE Good
  BY <1>13 DEF MexRecordsInv, MexBuffersOK, MexRecordsAreTrue, mexVars
<1> HIDE DEF Good
<1>14. Good
  BY <1>1, <1>2, <1>3, <1>4, <1>5, <1>6, <1>7, <1>8, <1>9, <1>10, <1>11, <1>12, <1>13
  DEF MexNext
<1>15. QED
  BY <1>14, MexStepInv DEF Good, MexRecordsInv

\* A record that Matlab receives is the one that was asked for, of the file of the
\* handle, whatever earlier records have left in the conversion buffer of the
\* handle, and no getter writes behind that buffer: for files with any number of
\* records, channels and elements.
THEOREM MexKeepsNumbers == MexSpec => []MexRecordsAreTrue
<1>1. MexInit => MexRecordsInv
  BY MexInitInv DEF MexInit, Nil, MexRecordsInv, MexBuffersOK, MexRecordsAreTrue
<1>2. MexRecordsInv => MexRecordsAreTrue
  BY DEF MexRecordsInv
<1>3. QED
  BY <1>1, <1>2, MexRecordsStep, PTL DEF MexSpec

-----------------------------------------------------------------------------
(* Python: what a list holds.                                                *)

\* A received number is the one of the file, as far as the buffer goes.
LEMMA ReceivedIsTrue ==
  ASSUME NEW f \in Files, NEW i \in Records(f), NEW c \in Channels(f),
         NEW j \in Elements(f), NEW lucky
  PROVE  Received(f, i, c, lucky)[j] =
           IF Complex(f) THEN NumberOf(f, i, c, j \div 2, j % 2) ELSE NumberOf(f, i, c, j, 0)
<1>1. f.elements \in Nat /\ j \in Places(f) /\ j < f.elements
  BY FilesAssumption DEF Elements, Places
<1>2. CASE f.content = "IR"
  <2>1. Fetch(f, i, c) = getFilterCoeffs(f, i, c, 1) /\ ~Complex(f)
    BY <1>2 DEF Fetch, Complex
  <2>2. Received(f, i, c, lucky)[j] = Fetch(f, i, c).cells[j]
    BY <1>1, <1>2, <2>1, ResponseIsTrue DEF Received, Elements
  <2>3. QED
    BY <1>2, <2>1, <2>2, ResponseIsTrue
<1>3. CASE f.content # "IR"
  <2>1. Received(f, i, c, lucky)[j] = f.block[f.desc[<<i, c>>].offset + j + 1]
    BY <1>1, <1>3, SpectrumIsTrue DEF Received, Places
  <2>2. CASE Complex(f)
    <3>1. f.desc[<<i, c>>].offset \in Nat /\ j \in Nat
      BY <1>1, FilesAssumption DEF Elements
    <3>2. 2 * (j \div 2) + (j % 2) = j
      BY <3>1
    <3>3. QED
      BY <1>3, <2>1, <2>2, <3>1, <3>2 DEF NumberOf
  <2>3. CASE ~Complex(f)
    BY <1>3, <2>1, <2>3 DEF NumberOf
  <2>4. QED
    BY <2>2, <2>3
<1>4. QED
  BY <1>2, <1>3

LEMMA RecordIsTrue ==
  ASSUME PyInv, NEW h, ValidHandle(h), NEW i, NEW lucky,
         Answers(h, GetRecordPython(PyFile(h), i, lucky))
  PROVE  PyResultsAreTrue'
<1> DEFINE f == PyFile(h)
<1>1. f \in Files
  BY DEF ValidHandle, PyInv, PyHandlesOwnReaders, PyFile
<1> HIDE DEF f
<1>2. pyServed' = <<h, f>> /\ pyResult' = GetRecordPython(f, i, lucky)
  BY DEF Answers, f
<1>3. ASSUME i \in Records(f), ~Complex(f) PROVE Fits(f, i, Elements(f))
  <2>1. CASE f.content = "IR"
    BY <1>1, <1>3, <2>1, ResponseIsTrue DEF Fits, Fetch
  <2>2. CASE f.content # "IR"
    BY <1>1, <1>3, <2>2, SpectrumIsTrue DEF Fits, Places, Elements
  <2>3. QED
    BY <2>1, <2>2
<1>4. QED
  BY <1>1, <1>2, <1>3, ReceivedIsTrue DEF GetRecordPython, PyResultsAreTrue

\* Every key that a class of properties reads is in the dictionary of its content.
LEMMA KeysAreThere ==
  ASSUME NEW content \in {"IR", "MS", "PS", "MPS", "DFT"}
  PROVE  KeysRead(PropertyClass(content)) \ PropertyKeys(content) = {}
<1>1. CASE content = "IR"
  BY <1>1 DEF KeysRead, PropertyClass, PropertyKeys
<1>2. CASE content \in {"MS", "PS", "MPS"}
  BY <1>2 DEF KeysRead, PropertyClass, PropertyKeys
<1>3. CASE content = "DFT"
  BY <1>3 DEF KeysRead, PropertyClass, PropertyKeys
<1>4. QED
  BY <1>1, <1>2, <1>3

\* Whatever is called, the result is true of the file of the handle.
LEMMA PyCallIsTrue ==
  ASSUME PyInv, PyNext
  PROVE  PyResultsAreTrue'
<1>1. ASSUME pyResult'.kind \notin {"record", "DAFF"} PROVE PyResultsAreTrue'
  BY <1>1 DEF PyResultsAreTrue
<1>2. ASSUME Raise PROVE PyResultsAreTrue'
  BY <1>1, <1>2 DEF Raise, PyNone
<1>3. ASSUME daff_open_fails PROVE PyResultsAreTrue'
  BY <1>2, <1>3 DEF daff_open_fails
<1>4. ASSUME NEW f \in Files, NEW r \in Readers, daff_open(f, r) PROVE PyResultsAreTrue'
  BY <1>1, <1>4 DEF daff_open, Opened
<1>5. ASSUME NEW f \in Files, NEW r \in Readers, DAFF(f, r) PROVE PyResultsAreTrue'
  <2>1. f.content \in {"IR", "MS", "PS", "MPS", "DFT"}
    BY FilesAssumption
  <2>2. pyResult'.kind = "DAFF" /\ pyResult'.missing = {}
    BY <1>5, <2>1, KeysAreThere DEF DAFF, Opened
  <2>3. QED
    BY <2>2 DEF PyResultsAreTrue
<1>6. ASSUME NEW h, daff_close(h) PROVE PyResultsAreTrue'
  BY <1>1, <1>2, <1>6 DEF daff_close, PyNone
<1>7. ASSUME NEW h, daff_content_type(h) PROVE PyResultsAreTrue'
  BY <1>1, <1>2, <1>7 DEF daff_content_type, Answers
<1>8. ASSUME NEW h, daff_content_type_str(h) PROVE PyResultsAreTrue'
  BY <1>1, <1>2, <1>8 DEF daff_content_type_str, Answers
<1>9. ASSUME NEW h, daff_metadata(h) PROVE PyResultsAreTrue'
  BY <1>1, <1>2, <1>9 DEF daff_metadata, Answers
<1>10. ASSUME NEW h, daff_properties(h) PROVE PyResultsAreTrue'
  BY <1>1, <1>2, <1>10 DEF daff_properties, Answers
<1>11. ASSUME NEW h, NEW i, daff_record(h, i) PROVE PyResultsAreTrue'
  BY <1>2, <1>11, RecordIsTrue DEF daff_record
<1>12. ASSUME NEW h, NEW view, NEW a, daff_nearest_neighbour_index(h, view, a) PROVE PyResultsAreTrue'
  BY <1>1, <1>2, <1>12 DEF daff_nearest_neighbour_index, Answers
<1>13. ASSUME NEW h, NEW view, NEW a, daff_nearest_neighbour_record(h, view, a) PROVE PyResultsAreTrue'
  BY <1>2, <1>13, RecordIsTrue DEF daff_nearest_neighbour_record
<1> HIDE DEF PyResultsAreTrue
<1>14. QED
  BY <1>3, <1>4, <1>5, <1>6, <1>7, <1>8, <1>9, <1>10, <1>11, <1>12, <1>13 DEF PyNext

\* A list that Python receives holds the numbers of the record that was asked for,
\* and a DAFF object finds every property its class reads, for files of any size.
THEOREM PyKeepsNumbers == PySpec => []PyResultsAreTrue
<1>1. PyInit => PyResultsAreTrue
  BY DEF PyInit, PyNone, PyResultsAreTrue
<1>2. PyInv /\ PyResultsAreTrue /\ [PyNext]_pyVars => PyResultsAreTrue'
  <2>1. ASSUME PyResultsAreTrue, UNCHANGED pyVars PROVE PyResultsAreTrue'
    BY <2>1 DEF PyResultsAreTrue, pyVars
  <2>2. QED
    BY <2>1, PyCallIsTrue
<1>3. QED
  BY <1>1, <1>2, PyInvariant, PTL DEF PySpec

-----------------------------------------------------------------------------
(* C#.  A view leads to no reader, to one that was finalized, or to one that *)
(* serves a content of the class of the view: a reader that has loaded once  *)
(* loads nothing else.                                                       *)

CsTypeOK ==
  /\ csReader \in [Readers -> Files \cup {NoFile, Closed}]
  /\ csHeld \subseteq {r \in Readers : csReader[r] # NoFile}
  /\ csView \in [Views -> Readers \cup {NoReader}]

ViewServes(v) == csReader[csView[v]] # Closed /\ csReader[csView[v]].content = v

ViewsServe ==
  \A v \in Views : csView[v] # NoReader => csReader[csView[v]] = NoFile \/ ViewServes(v)

DataIsTrue ==
  csResult.kind = "data" =>
    LET f == csResult.file
    IN  /\ f.content = csResult.view
        /\ csResult.fits
        /\ csResult.index \in Records(f) /\ csResult.channel \in Channels(f) =>
             \A k \in Elements(f) :
               csResult.value[k] = NumberOf(f, csResult.index, csResult.channel, k, 0)

LEMMA ViewsAndData == CsViewsKeepTheirContent <=> ViewsServe /\ DataIsTrue
BY DEF CsViewsKeepTheirContent, ViewsServe, ViewServes, DataIsTrue

\* Readers that keep their content, or are constructed or finalized, or load as
\* their first content.
LEMMA CsReaderChanges ==
  ASSUME CsTypeOK, ViewsServe, NEW r \in Readers, NEW f \in Files \cup {NoFile, Closed},
         csReader' = [csReader EXCEPT ![r] = f], UNCHANGED csView,
         \/ f = NoFile
         \/ f = csReader[r]
         \/ \A v \in Views : csView[v] # r
  PROVE  ViewsServe'
<1>1. ASSUME NEW v \in Views, csView'[v] # NoReader
      PROVE  csReader'[csView'[v]] = NoFile \/ ViewServes(v)'
  <2>1. csView'[v] = csView[v] /\ csView[v] \in Readers
    BY <1>1 DEF CsTypeOK
  <2>2. CASE csView[v] = r
    BY <1>1, <2>1, <2>2 DEF CsTypeOK, ViewsServe, ViewServes
  <2>3. CASE csView[v] # r
    BY <1>1, <2>1, <2>3 DEF CsTypeOK, ViewsServe, ViewServes
  <2>4. QED
    BY <2>2, <2>3
<1>2. QED
  BY <1>1 DEF ViewsServe

LEMMA GetRecordDataIsTrue ==
  ASSUME CsTypeOK, ViewsServe, NEW v \in Views, NEW i, NEW c, GetRecordData(v, i, c)
  PROVE  DataIsTrue'
<1> DEFINE f == ViewFile(v)
           answer == IF v = "IR" THEN getFilterCoeffs(f, i, c, 1) ELSE getMagnitudes(f, i, c)
<1>1. CASE csView[v] = NoReader
  BY <1>1 DEF GetRecordData, Through, ViewAnswers, CsNothing, DataIsTrue
<1>2. CASE csView[v] # NoReader /\ f = NoFile
  BY <1>2 DEF GetRecordData, Through, ViewAnswers, DataIsTrue
<1>3. CASE csView[v] # NoReader /\ f # NoFile
  <2>1. f \in Files /\ f.content = v
    BY <1>3 DEF CsTypeOK, ViewsServe, ViewServes, ViewFile
  <2>2. csResult' = [kind |-> "data", file |-> f, view |-> v, index |-> i, channel |-> c,
                     value |-> Overlay([k \in Elements(f) |-> 0], answer.cells),
                     fits |-> DOMAIN answer.cells \subseteq Elements(f)]
    BY <1>3 DEF GetRecordData, Through, ViewAnswers
  <2> HIDE DEF f
  <2>3. CASE InvalidIndex(f, i, c)
    <3>1. answer.cells = Nothing
      BY <2>3 DEF getFilterCoeffs, getMagnitudes, Checked, Answer
    <3>2. DOMAIN answer.cells \subseteq Elements(f)
      BY <3>1 DEF Nothing
    <3>3. ~(i \in Records(f) /\ c \in Channels(f))
      BY <2>3 DEF InvalidIndex, Records, Channels
    <3> HIDE DEF answer
    <3>4. QED
      BY <2>1, <2>2, <3>2, <3>3 DEF DataIsTrue
  <2>4. CASE ~InvalidIndex(f, i, c)
    <3>1. i \in Records(f) /\ c \in Channels(f)
      BY <2>4 DEF InvalidIndex, Records, Channels
    <3>2. /\ DOMAIN answer.cells = Elements(f)
          /\ \A k \in Elements(f) : answer.cells[k] = NumberOf(f, i, c, k, 0)
      <4>1. CASE v = "IR"
        BY <2>1, <3>1, <4>1, ResponseIsTrue
      <4>2. CASE v = "MS"
        <5>1. answer = Fetch(f, i, c) /\ ~Complex(f)
          BY <2>1, <4>2 DEF Fetch, Complex
        <5>2. QED
          BY <2>1, <3>1, <4>2, <5>1, SpectrumIsTrue DEF NumberOf, Places, Elements
      <4>3. QED
        BY <4>1, <4>2 DEF Views
    <3> HIDE DEF answer
    <3>3. /\ DOMAIN answer.cells \subseteq Elements(f)
          /\ \A k \in Elements(f) :
               Overlay([j \in Elements(f) |-> 0], answer.cells)[k] = NumberOf(f, i, c, k, 0)
      BY <3>2 DEF Overlay
    <3>4. QED
      BY <2>1, <2>2, <3>3 DEF DataIsTrue
  <2>5. QED
    BY <2>3, <2>4
<1>4. QED
  BY <1>1, <1>2, <1>3

CsInv == CsTypeOK /\ ViewsServe /\ DataIsTrue

LEMMA CsInitInv == CsInit => CsInv
BY DEF CsInit, CsNothing, CsInv, CsTypeOK, ViewsServe, DataIsTrue

\* A call that changes no reader and no view keeps what holds of them.
LEMMA CsStill ==
  ASSUME CsTypeOK, ViewsServe, UNCHANGED <<csReader, csHeld, csView>>
  PROVE  CsTypeOK' /\ ViewsServe'
BY DEF CsTypeOK, ViewsServe, ViewServes

LEMMA CsReaderStep ==
  ASSUME CsInv, NEW r \in Readers,
         NativeDAFFCreate(r) \/ Drop(r) \/ NativeDAFFDispose(r)
           \/ \E f \in Files, valid \in BOOLEAN : NativeDAFFLoad(r, f, valid)
  PROVE  CsInv'
<1> USE DEF CsInv
<1>1. CASE NativeDAFFCreate(r)
  <2>1. \A v \in Views : csView[v] # r
    BY <1>1 DEF NativeDAFFCreate, Finalized
  <2>2. CsTypeOK'
    BY <1>1, BindingAssumption DEF NativeDAFFCreate, CsTypeOK
  <2>3. ViewsServe'
    BY <1>1, <2>1, CsReaderChanges DEF NativeDAFFCreate
  <2>4. QED
    BY <1>1, <2>2, <2>3 DEF NativeDAFFCreate, CsNothing, DataIsTrue
<1>2. CASE Drop(r)
  <2>1. CsTypeOK' /\ ViewsServe'
    BY <1>2 DEF Drop, CsTypeOK, ViewsServe, ViewServes
  <2>2. DataIsTrue'
    BY <1>2 DEF Drop, DataIsTrue
  <2>3. QED
    BY <2>1, <2>2
<1>3. CASE NativeDAFFDispose(r)
  <2>1. CsTypeOK'
    BY <1>3, BindingAssumption DEF NativeDAFFDispose, CsTypeOK
  <2>2. ViewsServe'
    BY <1>3, CsReaderChanges DEF NativeDAFFDispose
  <2>3. QED
    BY <1>3, <2>1, <2>2 DEF NativeDAFFDispose, CsNothing, DataIsTrue
<1>4. ASSUME NEW f \in Files, NEW valid \in BOOLEAN, NativeDAFFLoad(r, f, valid) PROVE CsInv'
  <2>1. PICK g \in Files \cup {NoFile, Closed} :
          /\ csReader' = [csReader EXCEPT ![r] = g]
          /\ g = csReader[r] \/ (g = f /\ csReader[r] = Closed)
    BY <1>4 DEF NativeDAFFLoad, CsTypeOK
  <2>2. r \in csHeld /\ UNCHANGED <<csHeld, csView>> /\ csResult'.kind = "loaded"
    BY <1>4 DEF NativeDAFFLoad
  <2>3. CsTypeOK'
    BY <2>1, <2>2, BindingAssumption DEF CsTypeOK
  <2>4. csReader[r] = Closed => \A v \in Views : csView[v] # r
    BY BindingAssumption DEF CsTypeOK, ViewsServe, ViewServes
  <2>5. ViewsServe'
    BY <2>1, <2>2, <2>4, CsReaderChanges
  <2>6. QED
    BY <2>2, <2>3, <2>5 DEF DataIsTrue
<1>5. QED
  BY <1>1, <1>2, <1>3, <1>4

LEMMA GetContentInv ==
  ASSUME CsInv, NEW r \in Readers, NEW v \in Views, GetContent(r, v)
  PROVE  CsInv'
<1> USE DEF CsInv
<1>1. PICK q \in Readers \cup {NoReader} :
        /\ csView' = [csView EXCEPT ![v] = q]
        /\ q = NoReader \/ (q = r /\ csReader[r] # Closed /\ csReader[r].content = v)
  BY DEF GetContent
<1>2. UNCHANGED <<csReader, csHeld>> /\ csResult' = CsNothing
  BY DEF GetContent
<1>3. CsTypeOK'
  BY <1>1, <1>2 DEF CsTypeOK
<1>4. ViewsServe'
  BY <1>1, <1>2 DEF CsTypeOK, ViewsServe, ViewServes
<1>5. QED
  BY <1>2, <1>3, <1>4 DEF CsNothing, DataIsTrue

\* Questions of a reader or through a view, whose answer is not the data of a record.
LEMMA CsQuestion ==
  ASSUME CsInv, UNCHANGED <<csReader, csHeld, csView>>, csResult'.kind # "data"
  PROVE  CsInv'
BY CsStill DEF CsInv, DataIsTrue

LEMMA CsStepInv == CsInv /\ [CsNext]_csVars => CsInv'
<1> SUFFICES ASSUME CsInv, [CsNext]_csVars PROVE CsInv'
  OBVIOUS
<1>1. ASSUME NEW r \in Readers, NativeDAFFLoadFails(r) PROVE CsInv'
  BY <1>1, CsQuestion DEF NativeDAFFLoadFails
<1>2. ASSUME NEW r \in Readers, IsDataPresent(r) PROVE CsInv'
  BY <1>2, CsQuestion DEF IsDataPresent
<1>3. ASSUME NEW r \in Readers, GetContentType(r) PROVE CsInv'
  BY <1>3, CsQuestion DEF GetContentType
<1>4. ASSUME NEW v \in Views, GetLength(v) PROVE CsInv'
  BY <1>4, CsQuestion DEF GetLength, Through, ViewAnswers
<1>5. ASSUME NEW v \in Views, NEW a \in Angles, GetNearestNeighbourRecordIndex(v, a) PROVE CsInv'
  BY <1>5, CsQuestion DEF GetNearestNeighbourRecordIndex, Through, ViewAnswers
<1>6. ASSUME NEW v \in Views, NEW i, CsGetRecordCoords(v, i) PROVE CsInv'
  BY <1>6, CsQuestion DEF CsGetRecordCoords, Through, ViewAnswers, CsNothing
<1>7. ASSUME NEW v \in Views, NEW i, NEW c, GetRecordData(v, i, c) PROVE CsInv'
  <2>1. UNCHANGED <<csReader, csHeld, csView>>
    BY <1>7 DEF GetRecordData, Through, ViewAnswers
  <2>2. QED
    BY <1>7, <2>1, CsStill, GetRecordDataIsTrue DEF CsInv
<1>8. ASSUME UNCHANGED csVars PROVE CsInv'
  BY <1>8, CsStill DEF csVars, CsInv, DataIsTrue
<1> HIDE DEF CsInv
<1>9. CASE CsNext
  BY <1>9, <1>1, <1>2, <1>3, <1>4, <1>5, <1>6, <1>7, CsReaderStep, GetContentInv DEF CsNext
<1>10. QED
  BY <1>8, <1>9

\* A view stays with a content of its class while its reader exists, however often
\* the reader is asked to load again, and gives the coefficients of the record and
\* channel asked for, for files of any size.
THEOREM CsViewsAreTrue == CsSpec => []CsViewsKeepTheirContent
<1>1. CsInv => CsViewsKeepTheirContent
  BY ViewsAndData DEF CsInv
<1>2. QED
  BY <1>1, CsInitInv, CsStepInv, PTL DEF CsSpec
=============================================================================
