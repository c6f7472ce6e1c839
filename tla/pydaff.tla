------------------------------ MODULE pydaff ------------------------------
(***************************************************************************)
(* The Python binding (src/bindings/python/pydaff.cpp) and the class DAFF  *)
(* that is built on it (src/python/DAFF.py).  Handles are counted up, and  *)
(* a record is read through a fresh buffer for every channel.              *)
(***************************************************************************)
EXTENDS DAFFBinding

VARIABLES g_mReader,      \* handle -> reader, or NoReader
          g_iLastHandle,
          pyReader,       \* reader object -> its file, Closed, NoFile if not allocated
          pyServed,       \* the last answer: <<handle, file it came from>>
          pyResult        \* the last result

pyVars == <<g_mReader, g_iLastHandle, pyReader, pyServed, pyResult>>
pyState == <<g_mReader, g_iLastHandle, pyReader>>

PyNone == [kind |-> "None"]

PyInit ==
  /\ g_mReader = [h \in Handles |-> NoReader]
  /\ g_iLastHandle = 0
  /\ pyReader = [r \in Readers |-> NoFile]
  /\ pyServed = Error
  /\ pyResult = PyNone

ValidHandle(h) == h \in Handles /\ g_mReader[h] # NoReader
PyFile(h) == pyReader[g_mReader[h]]

(* PyErr_SetString and a null pointer. *)
Raise == pyServed' = Error /\ pyResult' = PyNone /\ UNCHANGED pyState

Answers(h, result) == pyServed' = <<h, PyFile(h)>> /\ pyResult' = result /\ UNCHANGED pyState

(* A file that cannot be opened: the new reader is deleted again. *)
daff_open_fails == Raise

Opened(f, r, result) ==
  /\ g_iLastHandle < MaxHandle
  /\ pyReader[r] = NoFile
  /\ pyReader' = [pyReader EXCEPT ![r] = f]
  /\ g_iLastHandle' = g_iLastHandle + 1
  /\ g_mReader' = [g_mReader EXCEPT ![g_iLastHandle'] = r]
  /\ pyServed' = <<g_iLastHandle', f>>
  /\ pyResult' = result

daff_open(f, r) == Opened(f, r, [kind |-> "handle", value |-> g_iLastHandle + 1])

(* A mutant: the handle of a closed reader stays in the map. *)
daff_close_keeps(h) ==
  IF ~ValidHandle(h) THEN Raise
  ELSE /\ pyReader' = [pyReader EXCEPT ![g_mReader[h]] = Closed]
       /\ pyServed' = <<h, NoFile>>
       /\ pyResult' = PyNone
       /\ UNCHANGED <<g_mReader, g_iLastHandle>>

(* The reader is forgotten, then closed; it is not deleted. *)
daff_close(h) ==
  IF ~ValidHandle(h) THEN Raise
  ELSE /\ g_mReader' = [g_mReader EXCEPT ![h] = NoReader]
       /\ pyReader' = [pyReader EXCEPT ![g_mReader[h]] = Closed]
       /\ pyServed' = <<h, NoFile>>
       /\ pyResult' = PyNone
       /\ UNCHANGED g_iLastHandle

PyView == [i \in {0, 1} |-> IF i = 0 THEN "data" ELSE "object"]

daff_nearest_neighbour_index(h, view, a) ==
  IF ~ValidHandle(h) THEN Raise
  ELSE Answers(h, [kind |-> "value", value |-> Nearest(PyFile(h), PyView[view], a)])

(* The buffer of a channel has one float for an element, also when the
   getter stores two.  What it stores behind the buffer may still be there
   when it is read back, or not.  The getter's answer is not looked at.    *)
Received(f, i, c, lucky) ==
  LET cells == Fetch(f, i, c).cells
  IN  [j \in 0 .. (IF Complex(f) THEN 2 * f.elements ELSE f.elements) - 1 |->
         IF j \in DOMAIN cells /\ (j < f.elements \/ lucky) THEN cells[j] ELSE Garbage]

GetRecordPython(f, i, lucky) ==
  [kind |-> "record", index |-> i, value |-> [c \in Channels(f) |-> Received(f, i, c, lucky)],
   fits |-> Fits(f, i, Elements(f))]

daff_nearest_neighbour_record(h, view, a) ==
  IF ~ValidHandle(h) THEN Raise
  ELSE \E lucky \in BOOLEAN :
         Answers(h, GetRecordPython(PyFile(h), Nearest(PyFile(h), PyView[view], a), lucky))

(* The index of the record is left to the getters. *)
daff_record(h, i) ==
  IF ~ValidHandle(h) THEN Raise
  ELSE \E lucky \in BOOLEAN : Answers(h, GetRecordPython(PyFile(h), i, lucky))

daff_content_type(h) ==
  IF ~ValidHandle(h) THEN Raise ELSE Answers(h, [kind |-> "value", value |-> PyFile(h).content])

daff_content_type_str(h) ==
  IF ~ValidHandle(h) THEN Raise ELSE Answers(h, [kind |-> "name", value |-> PyFile(h).content])

daff_metadata(h) ==
  IF ~ValidHandle(h) THEN Raise ELSE Answers(h, [kind |-> "metadata"])

(* The keys of the dictionary of properties. *)
PropertyKeys(content) ==
  {"Filename", "FileFormatVersion", "ContentType", "Quantization", "NumChannels", "NumRecords",
   "ChannelLabels", "AlphaPoints", "AlphaResolution", "AlphaRange", "BetaPoints", "BetaResolution",
   "BetaRange", "Orientation", "OrientationDefault", "FullSphere"}
  \cup CASE content = "IR" -> {"Samplerate", "FilterLength"}
         [] content \in {"MS", "PS", "MPS"} -> {"NumFreqs", "Frequencies"}
         [] content = "DFT" -> {"TransformSize", "NumDFTCoeffs", "IsSymmetric", "Samplerate", "FrequencyBandwidth"}

daff_properties(h) ==
  IF ~ValidHandle(h) THEN Raise
  ELSE Answers(h, [kind |-> "properties", value |-> PropertyKeys(PyFile(h).content)])

(* A mutant: only two classes are told apart. *)
PropertyClassOfReal(content) == IF content = "IR" THEN "DAFFPropertiesIR" ELSE "DAFFPropertiesSpectrum"

(* The class of properties that DAFF.__init__ chooses, and the keys that
   its constructor reads.                                                  *)
PropertyClass(content) ==
  CASE content = "IR"  -> "DAFFPropertiesIR"
    [] content = "DFT" -> "DAFFPropertiesDFTSpectrum"
    [] OTHER           -> "DAFFPropertiesSpectrum"

KeysRead(class) ==
  {"AlphaPoints", "AlphaRange", "AlphaResolution", "BetaPoints", "BetaRange", "BetaResolution",
   "ChannelLabels", "ContentType", "FileFormatVersion", "Filename", "FullSphere", "NumChannels",
   "NumRecords", "Orientation", "OrientationDefault", "Quantization"}
  \cup CASE class = "DAFFPropertiesIR" -> {"Samplerate", "FilterLength"}
         [] class = "DAFFPropertiesSpectrum" -> {"NumFreqs", "Frequencies"}
         [] class = "DAFFPropertiesDFTSpectrum" ->
              {"TransformSize", "NumDFTCoeffs", "IsSymmetric", "Samplerate", "FrequencyBandwidth"}

(* DAFF(filepath): opens the file, keeps the handle and never closes it.
   A missing key would raise an error and leave the file open.             *)
DAFF(f, r) ==
  Opened(f, r, [kind |-> "DAFF", index |-> g_iLastHandle + 1,
                missing |-> KeysRead(PropertyClass(f.content)) \ PropertyKeys(f.content)])

(* The methods of DAFF call the functions above with the object view. *)
PyNext ==
  \/ daff_open_fails
  \/ \E f \in Files, r \in Readers : daff_open(f, r) \/ DAFF(f, r)
  \/ \E h \in 0 .. MaxHandle :
       \/ daff_close(h) \/ daff_content_type(h) \/ daff_content_type_str(h)
       \/ daff_metadata(h) \/ daff_properties(h)
       \/ \E i \in -1 .. 2 : daff_record(h, i)
       \/ \E view \in {0, 1}, a \in Angles :
            daff_nearest_neighbour_index(h, view, a) \/ daff_nearest_neighbour_record(h, view, a)

PySpec == PyInit /\ [][PyNext]_pyVars

-----------------------------------------------------------------------------
(* A list that Python receives has the numbers of the record that was asked
   for, as far as they fit into the buffer of its channel; those of a real
   content all do, and no getter writes behind it.  A DAFF object finds
   every property its class reads.                                         *)
PyResultsAreTrue ==
  /\ pyResult.kind = "record" /\ pyResult.index \in Records(pyServed[2]) =>
       LET f == pyServed[2]
       IN  /\ ~Complex(f) => pyResult.fits
           /\ \A c \in Channels(f), j \in Elements(f) :
                pyResult.value[c][j] =
                  IF Complex(f) THEN NumberOf(f, pyResult.index, c, j \div 2, j % 2)
                  ELSE NumberOf(f, pyResult.index, c, j, 0)
  /\ pyResult.kind = "DAFF" => pyResult.missing = {}

(* The binding implements the promise of handles. *)
PyTable == [h \in Handles |-> IF g_mReader[h] = NoReader THEN NoFile ELSE pyReader[g_mReader[h]]]
PyGiven == 1 .. g_iLastHandle
PyHandles == INSTANCE DAFFHandles WITH table <- PyTable, given <- PyGiven, served <- pyServed
PyImplementsHandles == PyHandles!HandlesSpec
=============================================================================
