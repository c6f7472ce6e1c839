--------------------------- MODULE DAFFReaderImpl ---------------------------
(***************************************************************************)
(* The life of one DAFFReaderImpl (src/DAFFReaderImpl.cpp): loading from a *)
(* file or from a byte buffer, closing, the object-view orientation, the   *)
(* lazily computed overall peak, destruction and re-creation.              *)
(*                                                                         *)
(* A load passes through stages; each stage allocates a block, fills it    *)
(* and checks it.  A source carries at most one fault: the stage at which  *)
(* its load stops and in which way.  What the reader then releases differs *)
(* from stage to stage and between openFile and deserialize, and this is   *)
(* the subject of the module.  Allocations are abstracted to what pointer  *)
(* still reaches them: "lost" collects the kinds of allocations that the   *)
(* reader overwrote or dropped without releasing them.                     *)
(***************************************************************************)
EXTENDS Naturals, Sequences

CONSTANTS
  Sources,        \* DAFF contents: what a path or a buffer may hold
  Paths,          \* file names passed to openFile
  Orientations,   \* DAFFOrientationYPR values
  Fault,          \* Sources -> Faults
  ContentType,    \* Sources -> ContentTypes
  OrientationOf,  \* Sources -> Orientations: the main header's default view
  Peak,           \* Sources -> Nat: what a scan of all records finds
  InitialOrientation,  \* the orientation a new DAFFSCTransform holds
  NoSource, NoPath, NoOrientation

Blocks == {"blockTable", "mainHeader", "contentHeader", "recordDesc", "data"}

ContentTypes == {"IR", "MS", "PS", "MPS", "DFT"}

\* The contents for which loadContentHeader fills m_vfFreqs.
FrequencyTypes == {"MS", "PS", "MPS"}

NoFault == [stage |-> "none", kind |-> "none"]

(***************************************************************************)
(* How a load can stop.  "missing": the block table does not name the      *)
(* block exactly once (metadata: it names it more than once).  "short":    *)
(* fread returns less than asked.  "unknown": content type or quantization *)
(* not known.  "invalid": another check of the stage's load function       *)
(* fails.                                                                  *)
(***************************************************************************)
Faults ==
       {NoFault}
  \cup [stage : {"fileHeader", "blockTable"}, kind : {"short", "invalid"}]
  \cup [stage : {"mainHeader"}, kind : {"missing", "short", "unknown", "invalid"}]
  \cup [stage : {"contentHeader", "metadata"}, kind : {"missing", "short", "invalid"}]
  \cup [stage : {"recordDesc", "data"}, kind : {"missing", "short"}]

ASSUME ConstantsAssumption ==
  /\ Fault \in [Sources -> Faults]
  /\ ContentType \in [Sources -> ContentTypes]
  /\ OrientationOf \in [Sources -> Orientations]
  /\ Peak \in [Sources -> Nat]
  /\ InitialOrientation \in Orientations
  /\ NoSource \notin Sources
  /\ NoPath \notin Paths
  /\ NoOrientation \notin Orientations

VARIABLES
  alive,               \* the object exists
  valid,               \* m_bDAFFObjectValid
  fromFile,            \* m_bDAFFObjectFromFileValid
  sFilePath,           \* m_sFilePath
  file,                \* m_file: "null" or "open"
  block,               \* Blocks -> the source whose bytes the pointer reaches
  metadata,            \* m_vpMetadata: the source of each entry
  freqs,               \* m_vfFreqs: the source of the list
  orientationDefault,  \* m_orientationDefault
  trans,               \* the orientation m_tTrans applies
  peakInitialized,     \* m_bOverallPeakInitialized
  overallPeak,         \* m_fOverallPeak
  call,                \* the function called last: for the properties
  ec,                  \* what that call returned if it was a load
  lost,                \* kinds of allocations no pointer reaches any more
  heap                 \* "intact"; after a double free "damaged" or "aborted"

contentVars == <<block, metadata, freqs, sFilePath, file>>
viewVars == <<orientationDefault, trans>>
peakVars == <<peakInitialized, overallPeak>>
vars == <<alive, valid, fromFile, contentVars, viewVars, peakVars, call, ec, lost, heap>>

NoBlocks == [b \in Blocks |-> NoSource]

\* A call on the object: it exists and the process has not been aborted.
Usable == alive /\ heap # "aborted"

Init ==
  /\ alive = TRUE
  /\ valid = FALSE
  /\ fromFile = FALSE
  /\ sFilePath = NoPath
  /\ file = "null"
  /\ block = NoBlocks
  /\ metadata = <<>>
  /\ freqs = NoSource
  /\ orientationDefault = InitialOrientation
  /\ trans = InitialOrientation
  /\ peakInitialized = FALSE
  /\ overallPeak = 0
  /\ call = "create"
  /\ ec = "none"
  /\ lost = {}
  /\ heap = "intact"

-----------------------------------------------------------------------------
(* What a load has done when it stops at fault f.                            *)

\* Blocks allocated by the stages before each stage.
Before ==
  [fileHeader    |-> {},
   blockTable    |-> {},
   mainHeader    |-> {"blockTable"},
   contentHeader |-> {"blockTable", "mainHeader"},
   recordDesc    |-> {"blockTable", "mainHeader", "contentHeader"},
   data          |-> {"blockTable", "mainHeader", "contentHeader", "recordDesc"},
   metadata      |-> Blocks,
   none          |-> Blocks]

\* The block pointers the load has assigned.
Assigned(f) ==
  Before[f.stage] \cup {b \in Blocks : b = f.stage /\ f.kind # "missing"}

MainHeaderAccepted(f) == "mainHeader" \in Before[f.stage]
ContentHeaderAccepted(f) == "contentHeader" \in Before[f.stage]

\* The block pointers after the load of s has assigned its part of them.
Filled(s) ==
  [b \in Blocks |-> IF b \in Assigned(Fault[s]) THEN s ELSE block[b]]

\* Blocks still allocated when the load of s overwrites their pointers.
Overwritten(s) == {b \in Assigned(Fault[s]) : block[b] # NoSource}

\* A slip: loadMainHeader keeps the default orientation but does not apply it.
AdoptHeadersWithoutView(s) ==
  /\ orientationDefault' = IF MainHeaderAccepted(Fault[s])
                             THEN OrientationOf[s] ELSE orientationDefault
  /\ freqs' = IF /\ ContentHeaderAccepted(Fault[s])
                 /\ ContentType[s] \in FrequencyTypes
                THEN s ELSE freqs
  /\ UNCHANGED trans

\* loadMainHeader and loadContentHeader store more than their blocks.
AdoptHeaders(s) ==
  /\ IF MainHeaderAccepted(Fault[s])
       THEN /\ orientationDefault' = OrientationOf[s]
            /\ trans' = OrientationOf[s]
       ELSE UNCHANGED viewVars
  /\ freqs' = IF /\ ContentHeaderAccepted(Fault[s])
                 /\ ContentType[s] \in FrequencyTypes
                THEN s ELSE freqs

\* A slip of tidyup: the metadata vector deleted but not cleared.
TidyupKeepsMetadata ==
  /\ file' = "null"
  /\ block' = NoBlocks
  /\ sFilePath' = NoPath
  /\ valid' = FALSE
  /\ UNCHANGED metadata

\* tidyup: release what the pointers reach and reset them.
Tidyup ==
  /\ file' = "null"
  /\ block' = NoBlocks
  /\ metadata' = <<>>
  /\ sFilePath' = NoPath
  /\ valid' = FALSE

\* A slip: an error path of openFile that forgets tidyup.
OpenFileCleanupButNoData(f) ==
  CASE f.stage = "data" -> "none"
    [] f.stage \in {"mainHeader", "contentHeader"} /\ f.kind = "invalid" -> "none"
    [] OTHER -> "tidyup"

\* How openFile leaves after fault f: it tidies up, it returns without, or it
\* frees the stage's block and then tidies up, which frees that block again.
OpenFileCleanup(f) ==
  CASE f.stage = "data" /\ f.kind = "short" -> "freeThenTidyup"
    [] f.stage \in {"mainHeader", "contentHeader"} /\ f.kind = "invalid" -> "none"
    [] OTHER -> "tidyup"

\* The same for deserialize.  The load functions that tidy up themselves have
\* nulled the pointer that deserialize then frees, which is harmless.
DeserializeCleanup(f) ==
  IF f.stage \in {"mainHeader", "contentHeader"} /\ f.kind = "invalid"
    THEN "freeThenTidyup"
    ELSE "tidyup"

\* A double free is undefined: the allocator aborts the process or goes on.
HeapAfter(cleanup) ==
  IF cleanup = "freeThenTidyup" THEN {"damaged", "aborted"} ELSE {heap}

\* loadMetadata drops the instance that failed to load, and openFile the
\* buffer it read the metadata into; deserialize frees that buffer.
DroppedByOpenFile(f) ==
  IF f.stage = "metadata" /\ f.kind = "invalid"
    THEN {"metadataInstance", "metadataBuffer"} ELSE {}
DroppedByDeserialize(f) ==
  IF f.stage = "metadata" /\ f.kind = "invalid" THEN {"metadataInstance"} ELSE {}

\* What the load returns.  DAFF_FILE_BAD_PARAMETER stands for the codes of a
\* parameter out of range and of an unknown type, DAFF_FILE_INVALID also for
\* the one of an unsupported version.
ErrorCode(f) ==
  CASE f.stage = "fileHeader" -> "DAFF_FILE_INVALID"
    [] f.stage = "blockTable" -> "DAFF_FILE_INVALID"
    [] f.stage = "mainHeader" ->
         IF f.kind \in {"missing", "short"} THEN "DAFF_FILE_INVALID"
                                            ELSE "DAFF_FILE_BAD_PARAMETER"
    [] f.kind \in {"missing", "short"} -> "DAFF_FILE_CORRUPTED"
    [] OTHER -> "DAFF_FILE_BAD_PARAMETER"

-----------------------------------------------------------------------------
(* The operations.                                                           *)

\* openFile or deserialize while content is loaded.
LoadRejected ==
  /\ Usable /\ valid
  /\ call' \in {"openFile", "deserialize"}
  /\ ec' = "DAFF_MODAL_ERROR"
  /\ UNCHANGED <<alive, valid, fromFile, contentVars, viewVars, peakVars, lost, heap>>

\* The end of a load that met no fault.  (SucceedInvalid: m_bDAFFObjectValid
\* not set.)
SucceedInvalid(s) ==
  /\ Fault[s] = NoFault
  /\ AdoptHeaders(s)
  /\ block' = Filled(s)
  /\ metadata' = Append(metadata, s)
  /\ ec' = "DAFF_NO_ERROR"
  /\ UNCHANGED <<alive, valid, peakVars, heap>>
Succeed(s) ==
  /\ Fault[s] = NoFault
  /\ AdoptHeaders(s)
  /\ block' = Filled(s)
  /\ metadata' = Append(metadata, s)
  /\ valid' = TRUE
  /\ ec' = "DAFF_NO_ERROR"
  /\ UNCHANGED <<alive, peakVars, heap>>

\* fopen overwrites m_file: a handle left open by an earlier call is lost.
LostHandle == IF file = "open" THEN {"file"} ELSE {}

OpenFileNotFound ==
  /\ Usable /\ ~valid
  /\ file' = "null"
  /\ lost' = lost \cup LostHandle
  /\ call' = "openFile"
  /\ ec' = "DAFF_FILE_NOT_FOUND"
  /\ UNCHANGED <<alive, valid, fromFile, block, metadata, freqs, sFilePath,
                 viewVars, peakVars, heap>>

OpenFileFails(s) ==
  /\ Usable /\ ~valid
  /\ Fault[s] # NoFault
  /\ AdoptHeaders(s)
  /\ IF OpenFileCleanup(Fault[s]) = "none"
       THEN /\ file' = "open"
            /\ block' = Filled(s)
            /\ UNCHANGED <<metadata, sFilePath, valid>>
       ELSE Tidyup
  /\ heap' \in HeapAfter(OpenFileCleanup(Fault[s]))
  /\ lost' = lost \cup LostHandle \cup Overwritten(s) \cup DroppedByOpenFile(Fault[s])
  /\ call' = "openFile"
  /\ ec' = ErrorCode(Fault[s])
  /\ UNCHANGED <<alive, fromFile, peakVars>>

\* A slip: m_file nulled without fclose.
OpenFileSucceedsUnclosed(s, path) ==
  /\ Usable /\ ~valid
  /\ Succeed(s)
  /\ call' = "openFile"
  /\ file' = "null"
  /\ sFilePath' = path
  /\ fromFile' = TRUE
  /\ lost' = lost \cup {"file"} \cup Overwritten(s)

OpenFileSucceeds(s, path) ==
  /\ Usable /\ ~valid
  /\ Succeed(s)
  /\ call' = "openFile"
  /\ file' = "null"
  /\ sFilePath' = path
  /\ fromFile' = TRUE
  /\ lost' = lost \cup LostHandle \cup Overwritten(s)

\* A slip: a rejected header leaves deserialize as it leaves openFile.
DeserializeFailsUntidy(s) ==
  /\ Usable /\ ~valid
  /\ Fault[s] # NoFault /\ Fault[s].kind # "short"
  /\ AdoptHeaders(s)
  /\ IF OpenFileCleanup(Fault[s]) = "none"
       THEN block' = Filled(s) /\ UNCHANGED <<file, metadata, sFilePath, valid>>
       ELSE Tidyup
  /\ UNCHANGED heap
  /\ lost' = lost \cup Overwritten(s) \cup DroppedByDeserialize(Fault[s])
  /\ call' = "deserialize"
  /\ ec' = ErrorCode(Fault[s])
  /\ UNCHANGED <<alive, fromFile, peakVars>>

\* deserialize copies from memory: nothing in it is a short read.
DeserializeFails(s) ==
  /\ Usable /\ ~valid
  /\ Fault[s] # NoFault /\ Fault[s].kind # "short"
  /\ AdoptHeaders(s)
  /\ Tidyup
  /\ heap' \in HeapAfter(DeserializeCleanup(Fault[s]))
  /\ lost' = lost \cup Overwritten(s) \cup DroppedByDeserialize(Fault[s])
  /\ call' = "deserialize"
  /\ ec' = ErrorCode(Fault[s])
  /\ UNCHANGED <<alive, fromFile, peakVars>>

\* A handle that an earlier openFile left open stays open here.
DeserializeSucceeds(s) ==
  /\ Usable /\ ~valid
  /\ Succeed(s)
  /\ call' = "deserialize"
  /\ fromFile' = FALSE
  /\ lost' = lost \cup Overwritten(s)
  /\ UNCHANGED <<file, sFilePath>>

\* closeFile: tidyup, unless nothing is loaded.
CloseFile ==
  /\ Usable
  /\ IF valid THEN Tidyup ELSE UNCHANGED <<file, block, metadata, sFilePath, valid>>
  /\ call' = "closeFile"
  /\ ec' = "none"
  /\ UNCHANGED <<alive, fromFile, freqs, viewVars, peakVars, lost, heap>>

\* The setters and getOverallPeak assert that content is loaded.
SetOrientation(o) ==
  /\ Usable /\ valid
  /\ trans' = o
  /\ call' = "setOrientation"
  /\ ec' = "none"
  /\ UNCHANGED <<alive, valid, fromFile, contentVars, orientationDefault, peakVars, lost, heap>>

SetDefaultOrientation == SetOrientation(orientationDefault)

\* The scan starts from the value m_fOverallPeak already has.
GetOverallPeak ==
  /\ Usable /\ valid
  /\ ContentType[block["mainHeader"]] = "IR"
  /\ IF peakInitialized
       THEN UNCHANGED peakVars
       ELSE /\ overallPeak' = IF Peak[block["data"]] > overallPeak
                                THEN Peak[block["data"]] ELSE overallPeak
            /\ peakInitialized' = TRUE
  /\ call' = "getOverallPeak"
  /\ ec' = "none"
  /\ UNCHANGED <<alive, valid, fromFile, contentVars, viewVars, lost, heap>>

\* The destructor.
Destroy ==
  /\ Usable
  /\ Tidyup
  /\ alive' = FALSE
  /\ call' = "destroy"
  /\ ec' = "none"
  /\ UNCHANGED <<fromFile, freqs, viewVars, peakVars, lost, heap>>

\* DAFFReader::create: a new object; what the old one lost stays lost.
Create ==
  /\ ~alive /\ heap # "aborted"
  /\ alive' = TRUE
  /\ valid' = FALSE
  /\ fromFile' = FALSE
  /\ sFilePath' = NoPath
  /\ file' = "null"
  /\ block' = NoBlocks
  /\ metadata' = <<>>
  /\ freqs' = NoSource
  /\ orientationDefault' = InitialOrientation
  /\ trans' = InitialOrientation
  /\ peakInitialized' = FALSE
  /\ overallPeak' = 0
  /\ call' = "create"
  /\ ec' = "none"
  /\ UNCHANGED <<lost, heap>>

Next ==
  \/ LoadRejected
  \/ OpenFileNotFound
  \/ \E s \in Sources : OpenFileFails(s)
  \/ \E s \in Sources, path \in Paths : OpenFileSucceeds(s, path)
  \/ \E s \in Sources : DeserializeFails(s)
  \/ \E s \in Sources : DeserializeSucceeds(s)
  \/ CloseFile
  \/ \E o \in Orientations : SetOrientation(o)
  \/ SetDefaultOrientation
  \/ GetOverallPeak
  \/ Destroy
  \/ Create

Spec == Init /\ [][Next]_vars

-----------------------------------------------------------------------------
(* Properties.                                                               *)

\* isFileOpened.
IsFileOpened == fromFile /\ valid

TypeOK ==
  /\ alive \in BOOLEAN
  /\ valid \in BOOLEAN
  /\ fromFile \in BOOLEAN
  /\ sFilePath \in Paths \cup {NoPath}
  /\ file \in {"null", "open"}
  /\ block \in [Blocks -> Sources \cup {NoSource}]
  /\ metadata \in Seq(Sources)
  /\ freqs \in Sources \cup {NoSource}
  /\ orientationDefault \in Orientations
  /\ trans \in Orientations
  /\ peakInitialized \in BOOLEAN
  /\ overallPeak \in Nat
  /\ call \in {"create", "destroy", "openFile", "deserialize", "closeFile",
              "setOrientation", "getOverallPeak"}
  /\ lost \subseteq {"file", "blockTable", "mainHeader", "contentHeader",
                    "metadataInstance", "metadataBuffer"}
  /\ heap \in {"intact", "damaged", "aborted"}

\* Whatever loads failed before and whatever they left behind, content that
\* is served comes from one source only: the five blocks, the metadata, the
\* frequency list (where the content has one) and the default orientation.
ServedContentIsWhole ==
  valid => \E s \in Sources :
             /\ \A b \in Blocks : block[b] = s
             /\ metadata = <<s>>
             /\ ContentType[s] \in FrequencyTypes => freqs = s
             /\ orientationDefault = OrientationOf[s]

\* getFilename names a file exactly while isFileOpened, the handle of an
\* opened file is already closed, and a reader that is not valid has neither
\* metadata nor record blocks left from the load that failed.
OpenedFileIsNamed ==
  /\ (sFilePath \in Paths) <=> IsFileOpened
  /\ IsFileOpened => file = "null"
  /\ ~valid => /\ metadata = <<>>
               /\ block["recordDesc"] = NoSource /\ block["data"] = NoSource

\* The code a load returns is true: NO_ERROR with content served, any other
\* but MODAL_ERROR with nothing served.
ReturnCodeIsTrue ==
  /\ ec \in {"DAFF_NO_ERROR", "DAFF_MODAL_ERROR"} => valid
  /\ valid => ec \in {"DAFF_NO_ERROR", "DAFF_MODAL_ERROR", "none"}

\* Unloading content, by closeFile or by the destructor, releases all of it
\* and drops nothing.
UnloadReleasesAll ==
  [][valid /\ ~valid' => /\ block' = NoBlocks /\ metadata' = <<>>
                         /\ file' = "null" /\ lost' = lost]_vars

\* A reader that holds nothing when a load begins can lose only what the
\* metadata stage drops: all other losses are leftovers of an earlier failed
\* openFile that the next load overwrites.
LossNeedsLeftovers ==
  [][ block = NoBlocks /\ file = "null"
        => lost' \ lost \subseteq {"metadataInstance", "metadataBuffer"} ]_vars

\* A reader that serves nothing holds a handle or blocks only after an openFile
\* that rejected a header, which leaves its handle open and has no records and
\* data yet.  An openFile that does not find its file and a closeFile keep the
\* blocks that such a call left; a deserialize that fails, whatever its fault,
\* leaves neither handle nor blocks.
LeftoversNeedFailedOpen ==
  [][ ~valid' /\ (file' = "open" \/ block' # NoBlocks)
      => \/ /\ call' = "openFile" /\ ec' = "DAFF_FILE_BAD_PARAMETER"
            /\ file' = "open"
            /\ block'["recordDesc"] = NoSource /\ block'["data"] = NoSource
         \/ /\ call' = "openFile" /\ ec' = "DAFF_FILE_NOT_FOUND"
            /\ file' = "null" /\ UNCHANGED block
         \/ /\ call' = "closeFile"
            /\ UNCHANGED <<valid, file, block>> ]_vars

\* The reader implements its interface: a load is atomic and all or nothing.
Parts == Blocks \cup {"metadata", "frequencies"}

Answer(p) ==
  CASE p \in Blocks -> block[p]
    [] p = "metadata" -> metadata[1]
    [] p = "frequencies" ->
         IF ContentType[block["mainHeader"]] \in FrequencyTypes
           THEN freqs ELSE block["contentHeader"]

Interface == INSTANCE DAFFReader WITH
  answers <- [p \in Parts |-> IF valid THEN Answer(p) ELSE NoSource],
  fileName <- IF valid THEN sFilePath ELSE NoPath,
  orientation <- IF valid THEN trans ELSE NoOrientation

InterfaceSpec == Interface!AbsSpec

(* What the documentation says and the code does not do.                     *)

\* getOverallPeak, once computed, is the peak of the content served.
OverallPeakIsOfServedContent ==
  valid /\ peakInitialized => overallPeak = Peak[block["data"]]

===============================================================================
