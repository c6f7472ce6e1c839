------------------------------ MODULE DAFFReader ------------------------------
(***************************************************************************)
(* What the reader interface (include/DAFFReader.h, DAFFProperties.h)      *)
(* promises to a client, without saying how loading works.                 *)
(*                                                                         *)
(* A reader is either empty or serves ONE source completely: a load, from  *)
(* a file or from a byte buffer, is all or nothing.  While a source is     *)
(* served the object view has an orientation, which starts as the one the  *)
(* source prescribes.                                                      *)
(***************************************************************************)
CONSTANTS
  Sources,        \* DAFF contents a client may load (files or byte buffers)
  Paths,          \* file names
  Orientations,   \* orientations of the object view
  Parts,          \* the parts of a source a client can query
  OrientationOf,  \* Sources -> Orientations: the orientation a source stores
  NoSource, NoPath, NoOrientation

VARIABLES
  answers,        \* Parts -> the source each query is answered from
  fileName,       \* getFilename() while isFileOpened(), else NoPath
  orientation     \* getOrientation() while isValid(), else NoOrientation

absVars == <<answers, fileName, orientation>>

Empty == answers = [p \in Parts |-> NoSource]

AbsInit ==
  /\ Empty
  /\ fileName = NoPath
  /\ orientation = NoOrientation

\* openFile (path \in Paths) or deserialize (path = NoPath) with success.
Load(s, path) ==
  /\ Empty
  /\ answers' = [p \in Parts |-> s]
  /\ fileName' = path
  /\ orientation' = OrientationOf[s]

\* closeFile and the destructor.
Unload ==
  /\ answers' = [p \in Parts |-> NoSource]
  /\ fileName' = NoPath
  /\ orientation' = NoOrientation

\* setOrientation and setDefaultOrientation.
Orient(o) ==
  /\ ~Empty
  /\ orientation' = o
  /\ UNCHANGED <<answers, fileName>>

AbsNext ==
  \/ \E s \in Sources, path \in Paths \cup {NoPath} : Load(s, path)
  \/ Unload
  \/ \E o \in Orientations : Orient(o)

AbsSpec == AbsInit /\ [][AbsNext]_absVars
===============================================================================
