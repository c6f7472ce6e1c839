-------------------------- MODULE DAFFReaderProofs --------------------------
(***************************************************************************)
(* Proofs about DAFFReaderImpl for every set of sources, paths and         *)
(* orientations and every assignment of faults to sources.                 *)
(*                                                                         *)
(* TypeOK is not inductive alone: that a load never loses a record or a    *)
(* data block needs that a reader which serves nothing has none, and that  *)
(* the metadata stay whole needs that such a reader has no metadata either *)
(* (both in OpenedFileIsNamed).  The inductive invariant is the            *)
(* conjunction of the safety properties.                                   *)
(***************************************************************************)
EXTENDS DAFFReaderImpl, TLAPS

IInv ==
  /\ TypeOK
  /\ ServedContentIsWhole
  /\ OpenedFileIsNamed

\* Without a fault a load assigns every block pointer and accepts both headers.
LEMMA CompleteLoad ==
  ASSUME NEW s \in Sources, Fault[s] = NoFault
  PROVE  /\ Filled(s) = [b \in Blocks |-> s]
         /\ MainHeaderAccepted(Fault[s])
         /\ ContentHeaderAccepted(Fault[s])
<1>1. Before["none"] = Blocks
  BY DEF Before
<1>2. Assigned(Fault[s]) = Blocks
  BY <1>1 DEF Assigned, NoFault
<1>3. QED
  BY <1>1, <1>2 DEF Filled, MainHeaderAccepted, ContentHeaderAccepted, Blocks, NoFault

\* Filling keeps the block pointers well-typed.
LEMMA FilledType ==
  ASSUME NEW s \in Sources, TypeOK
  PROVE  Filled(s) \in [Blocks -> Sources \cup {NoSource}]
BY DEF Filled, TypeOK

\* A load that is left without tidyup has assigned neither the record
\* descriptors nor the data.
LEMMA UntidiedLoad ==
  ASSUME NEW s \in Sources, OpenFileCleanup(Fault[s]) = "none"
  PROVE  Assigned(Fault[s]) \subseteq {"blockTable", "mainHeader", "contentHeader"}
<1>1. Fault[s].stage \in {"mainHeader", "contentHeader"}
  BY DEF OpenFileCleanup
<1>2. Before[Fault[s].stage] \subseteq {"blockTable", "mainHeader"}
  BY <1>1 DEF Before
<1>3. QED
  BY <1>1, <1>2 DEF Assigned, Blocks

\* What tidyup establishes.
LEMMA TidyupEstablishes ==
  ASSUME Tidyup
  PROVE  /\ file' = "null" /\ block' = NoBlocks /\ metadata' = <<>>
         /\ sFilePath' = NoPath /\ valid' = FALSE
         /\ NoBlocks \in [Blocks -> Sources \cup {NoSource}]
         /\ <<>> \in Seq(Sources)
BY DEF Tidyup, NoBlocks

\* The headers adopted by a load are those of a source.
LEMMA AdoptedHeadersType ==
  ASSUME NEW s \in Sources, TypeOK, AdoptHeaders(s)
  PROVE  /\ orientationDefault' \in Orientations
         /\ trans' \in Orientations
         /\ freqs' \in Sources \cup {NoSource}
BY ConstantsAssumption DEF AdoptHeaders, TypeOK, viewVars

\* A load assigns block pointers only.
LEMMA AssignedBlocks ==
  ASSUME NEW s \in Sources
  PROVE  Assigned(Fault[s]) \subseteq Blocks
<1>1. Fault[s].stage \in {"fileHeader", "blockTable", "mainHeader", "contentHeader",
                          "recordDesc", "data", "metadata", "none"}
  BY ConstantsAssumption DEF Faults, NoFault
<1>2. Before[Fault[s].stage] \subseteq Blocks
  BY <1>1 DEF Before, Blocks
<1>3. QED
  BY <1>2 DEF Assigned

\* A reader that serves nothing loses no record descriptors and no data.
LEMMA LossType ==
  ASSUME NEW s \in Sources, IInv, ~valid
  PROVE  Overwritten(s) \subseteq {"blockTable", "mainHeader", "contentHeader"}
<1>1. block["recordDesc"] = NoSource /\ block["data"] = NoSource
  BY DEF IInv, OpenedFileIsNamed
<1>2. QED
  BY <1>1, AssignedBlocks DEF Overwritten, Blocks

\* The effect of a fault-free load on the content.
LEMMA SucceedEstablishes ==
  ASSUME NEW s \in Sources, IInv, ~valid, Succeed(s)
  PROVE  /\ valid' = TRUE
         /\ block' = [b \in Blocks |-> s]
         /\ metadata' = <<s>> /\ metadata' \in Seq(Sources)
         /\ orientationDefault' = OrientationOf[s]
         /\ ContentType[s] \in FrequencyTypes => freqs' = s
         /\ ServedContentIsWhole'
<1>1. metadata = <<>>
  BY DEF IInv, OpenedFileIsNamed
<1>2. /\ valid' = TRUE
      /\ block' = [b \in Blocks |-> s]
      /\ orientationDefault' = OrientationOf[s]
      /\ ContentType[s] \in FrequencyTypes => freqs' = s
  BY CompleteLoad DEF Succeed, AdoptHeaders
<1>3. metadata' = <<s>> /\ metadata' \in Seq(Sources)
  BY <1>1 DEF Succeed
<1>4. QED
  BY <1>2, <1>3 DEF ServedContentIsWhole

\* A new reader holds nothing.
LEMMA EmptyReader ==
  /\ NoBlocks \in [Blocks -> Sources \cup {NoSource}]
  /\ NoBlocks["recordDesc"] = NoSource /\ NoBlocks["data"] = NoSource
  /\ <<>> \in Seq(Sources)
BY DEF NoBlocks, Blocks

LEMMA InitInv == Init => IInv
<1> SUFFICES ASSUME Init PROVE IInv
  OBVIOUS
<1>1. TypeOK
  BY ConstantsAssumption, EmptyReader DEF Init, TypeOK
<1>2. ServedContentIsWhole
  BY DEF Init, ServedContentIsWhole
<1>3. OpenedFileIsNamed
  BY ConstantsAssumption, EmptyReader DEF Init, OpenedFileIsNamed, IsFileOpened
<1>4. QED
  BY <1>1, <1>2, <1>3 DEF IInv

LEMMA OpenFileFailsInv ==
  ASSUME NEW s \in Sources, IInv, OpenFileFails(s)
  PROVE  IInv'
<1> USE DEF OpenFileFails, Usable
<1>1. /\ orientationDefault' \in Orientations /\ trans' \in Orientations
      /\ freqs' \in Sources \cup {NoSource}
  BY AdoptedHeadersType DEF IInv
<1>2. lost' \subseteq {"file", "blockTable", "mainHeader", "contentHeader",
                       "metadataInstance", "metadataBuffer"}
  BY LossType DEF IInv, TypeOK, LostHandle, DroppedByOpenFile
<1>3. heap' \in {"intact", "damaged", "aborted"}
  BY DEF HeapAfter, IInv, TypeOK
<1>4. UNCHANGED <<alive, fromFile, peakVars>>
  OBVIOUS
<1>5. CASE OpenFileCleanup(Fault[s]) = "none"
  <2>1. /\ block' = Filled(s) /\ file' = "open"
        /\ UNCHANGED <<metadata, sFilePath, valid>>
    BY <1>5
  <2>2. block'["recordDesc"] = NoSource /\ block'["data"] = NoSource
    BY <2>1, <1>5, UntidiedLoad DEF Filled, Blocks, IInv, OpenedFileIsNamed
  <2>3. TypeOK'
    BY <1>1, <1>2, <1>3, <1>4, <2>1, FilledType DEF IInv, TypeOK, peakVars
  <2>4. ServedContentIsWhole' /\ OpenedFileIsNamed'
    BY <1>4, <2>1, <2>2
    DEF IInv, ServedContentIsWhole, OpenedFileIsNamed, IsFileOpened
  <2>5. QED
    BY <2>3, <2>4 DEF IInv
<1>6. CASE OpenFileCleanup(Fault[s]) # "none"
  <2>1. Tidyup
    BY <1>6
  <2>2. TypeOK'
    BY <1>1, <1>2, <1>3, <1>4, <2>1, TidyupEstablishes DEF IInv, TypeOK, peakVars
  <2>3. ServedContentIsWhole' /\ OpenedFileIsNamed'
    BY <2>1, TidyupEstablishes, ConstantsAssumption
    DEF ServedContentIsWhole, OpenedFileIsNamed, IsFileOpened, NoBlocks, Blocks
  <2>4. QED
    BY <2>2, <2>3 DEF IInv
<1>7. QED
  BY <1>5, <1>6

LEMMA OpenFileSucceedsInv ==
  ASSUME NEW s \in Sources, NEW path \in Paths, IInv, OpenFileSucceeds(s, path)
  PROVE  IInv'
<1> USE DEF OpenFileSucceeds, Usable
<1>1. /\ valid' = TRUE /\ block' = [b \in Blocks |-> s]
      /\ metadata' \in Seq(Sources) /\ ServedContentIsWhole'
  BY SucceedEstablishes
<1>2. /\ orientationDefault' \in Orientations /\ trans' \in Orientations
      /\ freqs' \in Sources \cup {NoSource}
  BY AdoptedHeadersType DEF IInv, Succeed
<1>3. lost' \subseteq {"file", "blockTable", "mainHeader", "contentHeader",
                       "metadataInstance", "metadataBuffer"}
  BY LossType DEF IInv, TypeOK, LostHandle
<1>4. TypeOK'
  BY <1>1, <1>2, <1>3 DEF IInv, TypeOK, Succeed, peakVars
<1>5. OpenedFileIsNamed'
  BY <1>1, ConstantsAssumption DEF OpenedFileIsNamed, IsFileOpened
<1>6. QED
  BY <1>1, <1>4, <1>5 DEF IInv

LEMMA DeserializeFailsInv ==
  ASSUME NEW s \in Sources, IInv, DeserializeFails(s)
  PROVE  IInv'
<1> USE DEF DeserializeFails, Usable
<1>1. /\ orientationDefault' \in Orientations /\ trans' \in Orientations
      /\ freqs' \in Sources \cup {NoSource}
  BY AdoptedHeadersType DEF IInv
<1>2. lost' \subseteq {"file", "blockTable", "mainHeader", "contentHeader",
                       "metadataInstance", "metadataBuffer"}
  BY LossType DEF IInv, TypeOK, DroppedByDeserialize
<1>3. heap' \in {"intact", "damaged", "aborted"}
  BY DEF HeapAfter, IInv, TypeOK
<1>4. TypeOK'
  BY <1>1, <1>2, <1>3, TidyupEstablishes DEF IInv, TypeOK, peakVars
<1>5. ServedContentIsWhole' /\ OpenedFileIsNamed'
  BY TidyupEstablishes, ConstantsAssumption
  DEF ServedContentIsWhole, OpenedFileIsNamed, IsFileOpened, NoBlocks, Blocks
<1>6. QED
  BY <1>4, <1>5 DEF IInv

LEMMA DeserializeSucceedsInv ==
  ASSUME NEW s \in Sources, IInv, DeserializeSucceeds(s)
  PROVE  IInv'
<1> USE DEF DeserializeSucceeds, Usable
<1>1. /\ valid' = TRUE /\ block' = [b \in Blocks |-> s]
      /\ metadata' \in Seq(Sources) /\ ServedContentIsWhole'
  BY SucceedEstablishes
<1>2. /\ orientationDefault' \in Orientations /\ trans' \in Orientations
      /\ freqs' \in Sources \cup {NoSource}
  BY AdoptedHeadersType DEF IInv, Succeed
<1>3. lost' \subseteq {"file", "blockTable", "mainHeader", "contentHeader",
                       "metadataInstance", "metadataBuffer"}
  BY LossType DEF IInv, TypeOK
<1>4. TypeOK'
  BY <1>1, <1>2, <1>3 DEF IInv, TypeOK, Succeed, peakVars
<1>5. OpenedFileIsNamed'
  BY <1>1, ConstantsAssumption DEF IInv, OpenedFileIsNamed, IsFileOpened
<1>6. QED
  BY <1>1, <1>4, <1>5 DEF IInv

LEMMA GetOverallPeakInv == IInv /\ GetOverallPeak => IInv'
<1> SUFFICES ASSUME IInv, GetOverallPeak PROVE IInv'
  OBVIOUS
<1> USE DEF GetOverallPeak, Usable
<1>1. block["data"] \in Sources
  BY DEF IInv, ServedContentIsWhole, Blocks
<1>2. overallPeak' \in Nat /\ peakInitialized' \in BOOLEAN
  <2>1. Peak[block["data"]] \in Nat
    BY <1>1, ConstantsAssumption
  <2>2. overallPeak \in Nat /\ peakInitialized \in BOOLEAN
    BY DEF IInv, TypeOK
  <2>3. CASE peakInitialized
    BY <2>2, <2>3 DEF peakVars
  <2>4. CASE ~peakInitialized
    BY <2>1, <2>2, <2>4
  <2>5. QED
    BY <2>3, <2>4
<1>3. QED
  BY <1>2 DEF IInv, TypeOK, ServedContentIsWhole, OpenedFileIsNamed, IsFileOpened,
    contentVars, viewVars

\* Every step preserves the inductive invariant.
LEMMA NextInv == IInv /\ [Next]_vars => IInv'
<1> SUFFICES ASSUME IInv, [Next]_vars PROVE IInv'
  OBVIOUS
<1> USE DEF IInv, TypeOK, ServedContentIsWhole, OpenedFileIsNamed, IsFileOpened
<1>1. CASE LoadRejected
  BY <1>1 DEF LoadRejected, contentVars, viewVars, peakVars
<1>2. CASE OpenFileNotFound
  BY <1>2 DEF OpenFileNotFound, viewVars, peakVars, LostHandle
<1>3. ASSUME NEW s \in Sources, OpenFileFails(s) PROVE IInv'
  BY <1>3, OpenFileFailsInv
<1>4. ASSUME NEW s \in Sources, NEW path \in Paths, OpenFileSucceeds(s, path)
      PROVE  IInv'
  BY <1>4, OpenFileSucceedsInv
<1>5. ASSUME NEW s \in Sources, DeserializeFails(s) PROVE IInv'
  BY <1>5, DeserializeFailsInv
<1>6. ASSUME NEW s \in Sources, DeserializeSucceeds(s) PROVE IInv'
  BY <1>6, DeserializeSucceedsInv
<1>7. CASE CloseFile
  <2>1. CASE valid
    BY <1>7, <2>1, TidyupEstablishes, ConstantsAssumption
    DEF CloseFile, viewVars, peakVars, NoBlocks, Blocks
  <2>2. CASE ~valid
    BY <1>7, <2>2 DEF CloseFile, viewVars, peakVars
  <2>3. QED
    BY <2>1, <2>2
<1>8. ASSUME NEW o \in Orientations, SetOrientation(o) PROVE IInv'
  BY <1>8 DEF SetOrientation, contentVars, peakVars
<1>9. CASE SetDefaultOrientation
  BY <1>8, <1>9 DEF SetDefaultOrientation
<1>10. CASE GetOverallPeak
  BY <1>10, GetOverallPeakInv
<1>11. CASE Destroy
  BY <1>11, TidyupEstablishes, ConstantsAssumption
  DEF Destroy, viewVars, peakVars, NoBlocks, Blocks
<1>12. CASE Create
  <2>1. TypeOK'
    BY <1>12, ConstantsAssumption, EmptyReader DEF Create
  <2>2. ServedContentIsWhole' /\ OpenedFileIsNamed'
    BY <1>12, ConstantsAssumption, EmptyReader DEF Create
  <2>3. QED
    BY <2>1, <2>2
<1>13. CASE UNCHANGED vars
  BY <1>13 DEF vars, contentVars, viewVars, peakVars
<1>14. QED
  BY <1>1, <1>2, <1>3, <1>4, <1>5, <1>6, <1>7, <1>8, <1>9, <1>10, <1>11, <1>12,
     <1>13 DEF Next

\* The inductive invariant holds in every reachable state.
THEOREM Invariance == Spec => []IInv
BY InitInv, NextInv, PTL DEF Spec

\* Type correctness of the reader, which includes that the record descriptors
\* and the data of a source are never lost.
THEOREM TypeCorrect == Spec => []TypeOK
<1>1. IInv => TypeOK
  BY DEF IInv
<1>2. QED
  BY <1>1, Invariance, PTL

\* Content that is served is of one source, whatever failed before.
THEOREM WholeContent == Spec => []ServedContentIsWhole
<1>1. IInv => ServedContentIsWhole
  BY DEF IInv
<1>2. QED
  BY <1>1, Invariance, PTL

\* The file name, the from-file flag and the handle agree.
THEOREM NamedFile == Spec => []OpenedFileIsNamed
<1>1. IInv => OpenedFileIsNamed
  BY DEF IInv
<1>2. QED
  BY <1>1, Invariance, PTL

-----------------------------------------------------------------------------
(* Return codes.                                                             *)

\* A load that meets a fault returns an error.
LEMMA FaultsAreErrors ==
  ASSUME NEW s \in Sources
  PROVE  ErrorCode(Fault[s]) \in
           {"DAFF_FILE_INVALID", "DAFF_FILE_CORRUPTED", "DAFF_FILE_BAD_PARAMETER"}
BY DEF ErrorCode

\* A load that fails leaves a reader that serves nothing.
LEMMA FailureServesNothing ==
  ASSUME NEW s \in Sources, OpenFileFails(s) \/ DeserializeFails(s)
  PROVE  ~valid' /\ ec' = ErrorCode(Fault[s])
BY TidyupEstablishes DEF OpenFileFails, DeserializeFails

\* What a load returns is true: no error with content served, an error with
\* nothing served, after any sequence of loads and closes.
THEOREM CodesAreTrue == Spec => []ReturnCodeIsTrue
<1>1. Init => ReturnCodeIsTrue
  BY DEF Init, ReturnCodeIsTrue
<1>2. ReturnCodeIsTrue /\ [Next]_vars => ReturnCodeIsTrue'
  <2> SUFFICES ASSUME ReturnCodeIsTrue, [Next]_vars PROVE ReturnCodeIsTrue'
    OBVIOUS
  <2>1. CASE LoadRejected
    BY <2>1 DEF LoadRejected, ReturnCodeIsTrue
  <2>2. CASE OpenFileNotFound
    BY <2>2 DEF OpenFileNotFound, ReturnCodeIsTrue
  <2>3. ASSUME NEW s \in Sources, OpenFileFails(s) \/ DeserializeFails(s)
        PROVE  ReturnCodeIsTrue'
    BY <2>3, FailureServesNothing, FaultsAreErrors DEF ReturnCodeIsTrue
  <2>4. ASSUME NEW s \in Sources, Succeed(s)
        PROVE  ReturnCodeIsTrue'
    BY <2>4 DEF Succeed, ReturnCodeIsTrue
  <2>5. CASE CloseFile
    BY <2>5 DEF CloseFile, ReturnCodeIsTrue
  <2>6. ASSUME NEW o, SetOrientation(o)
        PROVE  ReturnCodeIsTrue'
    BY <2>6 DEF SetOrientation, ReturnCodeIsTrue
  <2>7. CASE GetOverallPeak \/ Create
    BY <2>7 DEF GetOverallPeak, Create, ReturnCodeIsTrue
  <2>8. CASE Destroy
    BY <2>8, TidyupEstablishes DEF Destroy, ReturnCodeIsTrue
  <2>9. CASE UNCHANGED vars
    BY <2>9 DEF vars, ReturnCodeIsTrue
  <2>10. QED
    BY <2>1, <2>2, <2>3, <2>4, <2>5, <2>6, <2>7, <2>8, <2>9
    DEF Next, OpenFileSucceeds, DeserializeSucceeds, SetDefaultOrientation
<1>3. QED
  BY <1>1, <1>2, PTL DEF Spec

-----------------------------------------------------------------------------
(* Action properties.                                                        *)

\* Unloading releases everything the reader held and drops nothing.
THEOREM UnloadReleases == Spec => UnloadReleasesAll
<1> DEFINE P == valid /\ ~valid' => /\ block' = NoBlocks /\ metadata' = <<>>
                                    /\ file' = "null" /\ lost' = lost
<1>1. [Next]_vars => [P]_vars
  <2> SUFFICES ASSUME Next, valid, ~valid'
               PROVE  /\ block' = NoBlocks /\ metadata' = <<>>
                      /\ file' = "null" /\ lost' = lost
    OBVIOUS
  <2>1. CASE CloseFile
    BY <2>1, TidyupEstablishes DEF CloseFile
  <2>2. CASE Destroy
    BY <2>2, TidyupEstablishes DEF Destroy
  <2>3. CASE LoadRejected \/ GetOverallPeak \/ SetDefaultOrientation
    BY <2>3 DEF LoadRejected, GetOverallPeak, SetDefaultOrientation, SetOrientation
  <2>4. CASE \E o \in Orientations : SetOrientation(o)
    BY <2>4 DEF SetOrientation
  <2>5. CASE Create
    BY <2>5 DEF Create
  <2>6. QED
    BY <2>1, <2>2, <2>3, <2>4, <2>5
    DEF Next, OpenFileNotFound, OpenFileFails, OpenFileSucceeds,
        DeserializeFails, DeserializeSucceeds
<1>2. QED
  BY <1>1, PTL DEF Spec, UnloadReleasesAll

\* A reader that holds nothing loses at most what the metadata stage drops.
THEOREM LossNeedsHeldAllocations == Spec => LossNeedsLeftovers
<1> DEFINE P == block = NoBlocks /\ file = "null"
                  => lost' \ lost \subseteq {"metadataInstance", "metadataBuffer"}
<1>1. [Next]_vars => [P]_vars
  <2> SUFFICES ASSUME Next, block = NoBlocks, file = "null"
               PROVE  lost' \ lost \subseteq {"metadataInstance", "metadataBuffer"}
    OBVIOUS
  <2>1. LostHandle = {}
    BY DEF LostHandle
  <2>2. ASSUME NEW s \in Sources PROVE Overwritten(s) = {}
    BY AssignedBlocks DEF Overwritten, NoBlocks
  <2>3. ASSUME NEW s \in Sources, OpenFileFails(s)
        PROVE  lost' \ lost \subseteq {"metadataInstance", "metadataBuffer"}
    BY <2>1, <2>2, <2>3 DEF OpenFileFails, DroppedByOpenFile
  <2>4. ASSUME NEW s \in Sources, DeserializeFails(s)
        PROVE  lost' \ lost \subseteq {"metadataInstance", "metadataBuffer"}
    BY <2>2, <2>4 DEF DeserializeFails, DroppedByDeserialize
  <2>5. ASSUME NEW s \in Sources, NEW path \in Paths, OpenFileSucceeds(s, path)
        PROVE  lost' = lost
    BY <2>1, <2>2, <2>5 DEF OpenFileSucceeds
  <2>6. ASSUME NEW s \in Sources, DeserializeSucceeds(s)
        PROVE  lost' = lost
    BY <2>2, <2>6 DEF DeserializeSucceeds
  <2>7. CASE OpenFileNotFound
    BY <2>1, <2>7 DEF OpenFileNotFound
  <2>8. CASE \/ LoadRejected \/ CloseFile \/ SetDefaultOrientation
             \/ GetOverallPeak \/ Destroy \/ Create
             \/ \E o \in Orientations : SetOrientation(o)
    BY <2>8 DEF LoadRejected, CloseFile, SetDefaultOrientation, SetOrientation,
      GetOverallPeak, Destroy, Create
  <2>9. QED
    BY <2>3, <2>4, <2>5, <2>6, <2>7, <2>8 DEF Next
<1>2. QED
  BY <1>1, PTL DEF Spec, LossNeedsLeftovers

\* An openFile that leaves without tidyup has rejected a header.
LEMMA LeftWithoutTidyup ==
  ASSUME NEW s \in Sources, OpenFileCleanup(Fault[s]) = "none"
  PROVE  ErrorCode(Fault[s]) = "DAFF_FILE_BAD_PARAMETER"
<1>1. Fault[s].stage \in {"mainHeader", "contentHeader"} /\ Fault[s].kind = "invalid"
  BY DEF OpenFileCleanup
<1>2. QED
  BY <1>1 DEF ErrorCode

\* A reader that serves nothing holds a handle or blocks only after an openFile
\* that rejected a header and left its handle open; an openFile without a file and
\* a closeFile only keep them, and a deserialize that fails leaves nothing.
THEOREM LeftoversAreOfFailedOpens == Spec => LeftoversNeedFailedOpen
<1> DEFINE Rejected == /\ call' = "openFile" /\ ec' = "DAFF_FILE_BAD_PARAMETER"
                       /\ file' = "open"
                       /\ block'["recordDesc"] = NoSource /\ block'["data"] = NoSource
           NotFound == /\ call' = "openFile" /\ ec' = "DAFF_FILE_NOT_FOUND"
                       /\ file' = "null" /\ UNCHANGED block
           Closed == call' = "closeFile" /\ UNCHANGED <<valid, file, block>>
           P == ~valid' /\ (file' = "open" \/ block' # NoBlocks)
                  => Rejected \/ NotFound \/ Closed
<1>1. IInv' /\ [Next]_vars => [P]_vars
  <2> SUFFICES ASSUME IInv', Next, ~valid', file' = "open" \/ block' # NoBlocks
               PROVE  Rejected \/ NotFound \/ Closed
    OBVIOUS
  <2>1. ~Tidyup
    BY TidyupEstablishes
  <2>2. ASSUME NEW s \in Sources, OpenFileFails(s)
        PROVE  Rejected
    <3>1. OpenFileCleanup(Fault[s]) = "none" /\ file' = "open"
      BY <2>1, <2>2 DEF OpenFileFails
    <3>2. call' = "openFile" /\ ec' = "DAFF_FILE_BAD_PARAMETER"
      BY <2>2, <3>1, LeftWithoutTidyup DEF OpenFileFails
    <3>3. block'["recordDesc"] = NoSource /\ block'["data"] = NoSource
      BY DEF IInv, OpenedFileIsNamed
    <3>4. QED
      BY <3>1, <3>2, <3>3
  <2>3. CASE OpenFileNotFound
    BY <2>3 DEF OpenFileNotFound
  <2>4. CASE CloseFile
    BY <2>1, <2>4 DEF CloseFile
  <2>5. ~LoadRejected /\ ~GetOverallPeak /\ (\A o : ~SetOrientation(o))
    BY DEF LoadRejected, GetOverallPeak, SetOrientation
  <2>6. ~Create
    BY DEF Create, NoBlocks
  <2>7. ASSUME NEW s \in Sources
        PROVE  ~Succeed(s) /\ ~DeserializeFails(s)
    BY <2>1 DEF Succeed, DeserializeFails
  <2>8. ~Destroy
    BY <2>1 DEF Destroy
  <2>9. QED
    BY <2>2, <2>3, <2>4, <2>5, <2>6, <2>7, <2>8
    DEF Next, OpenFileSucceeds, DeserializeSucceeds, SetDefaultOrientation
<1>2. QED
  BY <1>1, Invariance, PTL DEF Spec, LeftoversNeedFailedOpen

-----------------------------------------------------------------------------
(* The reader implements its interface.                                      *)

AnswersBar == [p \in Parts |-> IF valid THEN Answer(p) ELSE NoSource]
FileNameBar == IF valid THEN sFilePath ELSE NoPath
OrientationBar == IF valid THEN trans ELSE NoOrientation

\* A reader that serves nothing is the empty reader of the interface.
LEMMA EmptyAnswers ==
  ASSUME ~valid
  PROVE  /\ AnswersBar = [p \in Parts |-> NoSource]
         /\ FileNameBar = NoPath /\ OrientationBar = NoOrientation
BY DEF AnswersBar, FileNameBar, OrientationBar

\* A reader that serves a source answers every query from it.
LEMMA WholeAnswers ==
  ASSUME NEW s \in Sources, \A b \in Blocks : block[b] = s, metadata = <<s>>,
         ContentType[s] \in FrequencyTypes => freqs = s, valid
  PROVE  AnswersBar = [p \in Parts |-> s]
<1>1. Answer("metadata") = s
  BY DEF Answer, Blocks
<1>2. Answer("frequencies") = s
  BY DEF Answer, Blocks
<1>3. ASSUME NEW b \in Blocks PROVE Answer(b) = s
  BY <1>3 DEF Answer, Blocks
<1>4. QED
  BY <1>1, <1>2, <1>3 DEF AnswersBar, Parts

\* A successful load is one atomic Load of the interface.
LEMMA SuccessRefinesLoad ==
  ASSUME NEW s \in Sources, IInv, ~valid, Succeed(s),
         sFilePath' \in Paths \cup {NoPath}
  PROVE  \E path \in Paths \cup {NoPath} : Interface!Load(s, path)
<1>1. /\ valid' = TRUE /\ block' = [b \in Blocks |-> s] /\ metadata' = <<s>>
      /\ ContentType[s] \in FrequencyTypes => freqs' = s
  BY SucceedEstablishes
<1>2. AnswersBar = [p \in Parts |-> NoSource]
  BY EmptyAnswers
<1>3. AnswersBar' = [p \in Parts |-> s]
  <2>1. Answer("metadata")' = s
    BY <1>1 DEF Answer, Blocks
  <2>2. Answer("frequencies")' = s
    BY <1>1 DEF Answer, Blocks
  <2>3. ASSUME NEW b \in Blocks PROVE Answer(b)' = s
    BY <1>1, <2>3 DEF Answer, Blocks
  <2>4. QED
    BY <1>1, <2>1, <2>2, <2>3 DEF AnswersBar, Parts
<1>4. OrientationBar' = OrientationOf[s]
  BY <1>1, CompleteLoad DEF OrientationBar, Succeed, AdoptHeaders
<1>5. FileNameBar' = sFilePath'
  BY <1>1 DEF FileNameBar
<1>6. QED
  BY <1>2, <1>3, <1>4, <1>5
  DEF Interface!Load, Interface!Empty, AnswersBar, FileNameBar, OrientationBar

\* A step between two states in which nothing is served is invisible.
LEMMA EmptyStutters ==
  ASSUME ~valid, ~valid'
  PROVE  UNCHANGED <<AnswersBar, FileNameBar, OrientationBar>>
BY DEF AnswersBar, FileNameBar, OrientationBar

\* Unloading is one Unload of the interface.
LEMMA TidyupRefinesUnload ==
  ASSUME ~valid'
  PROVE  Interface!Unload
BY DEF Interface!Unload

\* Turning the object view is one Orient of the interface.
LEMMA SetOrientationRefinesOrient ==
  ASSUME NEW o \in Orientations, IInv, SetOrientation(o)
  PROVE  Interface!Orient(o)
<1>1. valid /\ valid' /\ trans' = o /\ UNCHANGED <<block, metadata, freqs, sFilePath>>
  BY DEF SetOrientation, contentVars
<1>2. PICK s \in Sources :
        /\ \A b \in Blocks : block[b] = s
        /\ metadata = <<s>>
        /\ ContentType[s] \in FrequencyTypes => freqs = s
  BY <1>1 DEF IInv, ServedContentIsWhole
<1>3. AnswersBar = [p \in Parts |-> s]
  BY <1>1, <1>2, WholeAnswers
<1>4. AnswersBar # [p \in Parts |-> NoSource]
  <2>1. "metadata" \in Parts
    BY DEF Parts
  <2>2. AnswersBar["metadata"] = s
    BY <1>3, <2>1
  <2>3. s # NoSource
    BY ConstantsAssumption
  <2>4. QED
    BY <2>1, <2>2, <2>3
<1>5. AnswersBar' = AnswersBar
  BY <1>1 DEF AnswersBar, Answer
<1>6. FileNameBar' = FileNameBar /\ OrientationBar' = o
  BY <1>1 DEF FileNameBar, OrientationBar
<1>7. QED
  BY <1>4, <1>5, <1>6
  DEF Interface!Orient, Interface!Empty, AnswersBar, FileNameBar, OrientationBar

LEMMA InitRefines == Init => Interface!AbsInit
<1> SUFFICES ASSUME Init PROVE Interface!AbsInit
  OBVIOUS
<1>1. ~valid
  BY DEF Init
<1>2. QED
  BY <1>1 DEF Interface!AbsInit, Interface!Empty

\* Every step of the reader is a step of the interface or leaves what a client
\* sees unchanged.
LEMMA StepRefines ==
  IInv /\ IInv' /\ [Next]_vars => [Interface!AbsNext]_(Interface!absVars)
<1> SUFFICES ASSUME IInv, IInv', [Next]_vars
             PROVE  \/ Interface!AbsNext
                    \/ UNCHANGED <<AnswersBar, FileNameBar, OrientationBar>>
  BY DEF Interface!absVars, AnswersBar, FileNameBar, OrientationBar
<1>1. sFilePath' \in Paths \cup {NoPath}
  BY DEF IInv, TypeOK
<1>2. ASSUME NEW s \in Sources, OpenFileFails(s)
      PROVE  UNCHANGED <<AnswersBar, FileNameBar, OrientationBar>>
  BY <1>2, EmptyStutters DEF OpenFileFails, Tidyup
<1>3. ASSUME NEW s \in Sources, DeserializeFails(s)
      PROVE  UNCHANGED <<AnswersBar, FileNameBar, OrientationBar>>
  BY <1>3, EmptyStutters DEF DeserializeFails, Tidyup
<1>4. ASSUME NEW s \in Sources, NEW path \in Paths, OpenFileSucceeds(s, path)
      PROVE  Interface!AbsNext
  BY <1>1, <1>4, SuccessRefinesLoad DEF OpenFileSucceeds, Interface!AbsNext
<1>5. ASSUME NEW s \in Sources, DeserializeSucceeds(s)
      PROVE  Interface!AbsNext
  BY <1>1, <1>5, SuccessRefinesLoad DEF DeserializeSucceeds, Interface!AbsNext
<1>6. ASSUME NEW o \in Orientations, SetOrientation(o)
      PROVE  Interface!AbsNext
  BY <1>6, SetOrientationRefinesOrient DEF Interface!AbsNext
<1>7. CASE SetDefaultOrientation
  <2>1. orientationDefault \in Orientations
    BY DEF IInv, TypeOK
  <2>2. QED
    BY <1>6, <1>7, <2>1 DEF SetDefaultOrientation
<1>8. CASE OpenFileNotFound
  BY <1>8, EmptyStutters DEF OpenFileNotFound
<1>9. CASE LoadRejected \/ GetOverallPeak
  <2>1. UNCHANGED <<valid, block, metadata, freqs, sFilePath, trans>>
    BY <1>9 DEF LoadRejected, GetOverallPeak, contentVars, viewVars
  <2>2. QED
    BY <2>1 DEF AnswersBar, Answer, FileNameBar, OrientationBar
<1>10. CASE CloseFile
  <2>1. ~valid'
    BY <1>10 DEF CloseFile, Tidyup
  <2>2. QED
    BY <2>1, TidyupRefinesUnload DEF Interface!AbsNext
<1>11. CASE Destroy
  BY <1>11, TidyupRefinesUnload DEF Destroy, Tidyup, Interface!AbsNext
<1>12. CASE Create
  BY <1>12, TidyupRefinesUnload DEF Create, Interface!AbsNext
<1>13. CASE UNCHANGED vars
  BY <1>13 DEF vars, contentVars, viewVars, AnswersBar, Answer, FileNameBar,
    OrientationBar
<1>14. QED
  BY <1>2, <1>3, <1>4, <1>5, <1>6, <1>7, <1>8, <1>9, <1>10, <1>11, <1>12, <1>13
  DEF Next

\* DAFFReaderImpl implements DAFFReader: loading from either kind of source is
\* all or nothing, and every query is answered from the source loaded last.
THEOREM ImplementsInterface == Spec => InterfaceSpec
BY InitRefines, StepRefines, Invariance, PTL
DEF Spec, InterfaceSpec, Interface!AbsSpec
===============================================================================
