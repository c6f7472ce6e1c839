----------------------- MODULE DAFFTransformerIR2DFT -----------------------
(***************************************************************************)
(* The transformer from impulse responses to DFT spectra                   *)
(* (src/src/DAFFTransformerIR2DFT.cpp): one buffer for all spectra, and an *)
(* output content that answers from it.                                    *)
(*                                                                         *)
(* A number of a spectrum is abstracted to where it comes from:            *)
(* <<content, record, channel, position>>.                                 *)
(***************************************************************************)
EXTENDS Integers

CONSTANTS Contents,     \* impulse response contents: [records, channels, length, name]
          Windows,      \* window functions besides DAFF_WINDOW_NONE
          NULL, Unset

ASSUME ContentsAssumption ==
  \A x \in Contents : x.records \in Nat \ {0} /\ x.channels \in Nat \ {0} /\ x.length \in Nat \ {0}
ASSUME NullAssumption == NULL \notin Contents
ASSUME WindowsAssumption == "DAFF_WINDOW_NONE" \notin Windows

VARIABLES m_pInputContent,   \* NULL or a content
          m_pOutputContent,  \* NULL, or the content its realization was made for
          m_iWindowFunction,
          m_pfBuf,           \* NULL, or index -> number
          m_iNumDFTCoeffs,
          m_fOverallMagnitudePeak,  \* the content it was determined for, NULL for 0
          exists             \* the transformer has been constructed

tvars == <<m_pInputContent, m_pOutputContent, m_iWindowFunction, m_pfBuf,
          m_iNumDFTCoeffs, m_fOverallMagnitudePeak, exists>>

(* ceil( (K+1) / 2 ) *)
getNumDFTCoeffs(x) == (x.length + 2) \div 2

(* Floats per spectrum, and what is allocated for it: whole 16 bytes. *)
m_iElementSize == 2 * m_iNumDFTCoeffs
AllocatedPerSpectrum(n) == 4 * ((2 * n + 3) \div 4)

(* Number j of the spectrum of a record; with any window but none the data
   were multiplied by a window that is never filled.                       *)
Number(x, r, c, j, window) == <<x, r, c, j, window = "DAFF_WINDOW_NONE">>

(* Spectra lie one behind the other, the rest of the buffer is not set. *)
Spectra(x, window) ==
  LET each == 2 * getNumDFTCoeffs(x)
      used == x.records * x.channels * each
  IN  [i \in 0 .. x.records * x.channels * AllocatedPerSpectrum(getNumDFTCoeffs(x)) - 1 |->
         LET n == i \div each
         IN  IF i >= used THEN Unset
             ELSE Number(x, n \div x.channels, n % x.channels, i % each, window)]

(* transform() with the input x: clear(), then a new output and buffer. *)
Transformed(x) ==
  IF x = NULL
  THEN /\ m_pOutputContent' = NULL /\ m_pfBuf' = NULL
       /\ m_fOverallMagnitudePeak' = NULL
       /\ UNCHANGED m_iNumDFTCoeffs
  ELSE /\ m_pOutputContent' = x
       /\ m_iNumDFTCoeffs' = getNumDFTCoeffs(x)
       /\ m_pfBuf' = Spectra(x, m_iWindowFunction)
       /\ m_fOverallMagnitudePeak' = x

outputVars == <<m_pOutputContent, m_pfBuf, m_iNumDFTCoeffs, m_fOverallMagnitudePeak>>

TInit ==
  /\ m_pInputContent = NULL /\ m_pOutputContent = NULL
  /\ m_iWindowFunction = "DAFF_WINDOW_NONE"
  /\ m_pfBuf = NULL /\ m_iNumDFTCoeffs = Unset /\ m_fOverallMagnitudePeak = Unset
  /\ exists = FALSE

DefaultConstruct == ~exists /\ exists' = TRUE /\ UNCHANGED <<m_pInputContent, m_iWindowFunction, outputVars>>

(* The content is set, and transformed, before the window is. *)
Construct(x, window, bTransform) ==
  /\ ~exists /\ exists' = TRUE
  /\ m_pInputContent' = x
  /\ IF bTransform THEN Transformed(x) ELSE UNCHANGED outputVars
  /\ m_iWindowFunction' = window

setInputContent(x, bTransform) ==
  /\ exists
  /\ m_pInputContent' = x
  /\ IF bTransform THEN Transformed(x) ELSE UNCHANGED outputVars
  /\ UNCHANGED <<m_iWindowFunction, exists>>

(* The parameter bTransform is ignored. *)
setWindowFunction(window) ==
  /\ exists
  /\ m_iWindowFunction' = window
  /\ UNCHANGED <<m_pInputContent, outputVars, exists>>

transform ==
  /\ exists
  /\ Transformed(m_pInputContent)
  /\ UNCHANGED <<m_pInputContent, m_iWindowFunction, exists>>

clear ==
  /\ exists
  /\ m_pOutputContent' = NULL /\ m_pfBuf' = NULL
  /\ UNCHANGED <<m_pInputContent, m_iWindowFunction, m_iNumDFTCoeffs, m_fOverallMagnitudePeak, exists>>

TNext ==
  \/ DefaultConstruct \/ transform \/ clear
  \/ \E x \in Contents \cup {NULL}, b \in BOOLEAN : setInputContent(x, b)
  \/ \E w \in Windows \cup {"DAFF_WINDOW_NONE"} :
       \/ setWindowFunction(w)
       \/ \E x \in Contents, b \in BOOLEAN : Construct(x, w, b)

TSpec == TInit /\ [][TNext]_tvars

(* The output content asks the transformer, which tests the indices
   against its present input, and the coefficient against > instead of >=. *)
RefusesRecord(r, c) ==
  \/ m_pInputContent = NULL
  \/ r \notin 0 .. m_pInputContent.records - 1
  \/ c \notin 0 .. m_pInputContent.channels - 1

PositionAligned(r, c) ==
  (r * m_pInputContent.channels + c) * AllocatedPerSpectrum(m_iNumDFTCoeffs)

Position(r, c) == (r * m_pInputContent.channels + c) * m_iElementSize

Behind(i) == IF i \in DOMAIN m_pfBuf THEN m_pfBuf[i] ELSE Unset

(* NULL stands for the return value -1. *)
getOutputDFTCoeff(r, c, k) ==
  IF RefusesRecord(r, c) \/ k \notin 0 .. m_iNumDFTCoeffs THEN NULL
  ELSE [part \in 0 .. 1 |-> Behind(Position(r, c) + 2 * k + part)]

getOutputDFTCoeffs(r, c) ==
  IF RefusesRecord(r, c) THEN NULL
  ELSE [i \in 0 .. m_iElementSize - 1 |-> Behind(Position(r, c) + i)]

-----------------------------------------------------------------------------
TTypeOK ==
  /\ m_pInputContent \in Contents \cup {NULL}
  /\ m_pOutputContent \in Contents \cup {NULL}
  /\ m_iWindowFunction \in Windows \cup {"DAFF_WINDOW_NONE"}
  /\ m_iNumDFTCoeffs \in Nat \cup {Unset}

(* While the transformer's input is the content that an output was made
   for, the output answers for every record, channel and coefficient of it
   the number of that coefficient, one at a time as all at once, all with
   the same window, and the maximum is that of the content.                *)
OutputAnswersItsInput ==
  m_pOutputContent # NULL /\ m_pInputContent = m_pOutputContent =>
    LET x == m_pOutputContent
    IN  /\ m_fOverallMagnitudePeak = x
        /\ \E w \in Windows \cup {"DAFF_WINDOW_NONE"} :
             \A r \in 0 .. x.records-1, c \in 0 .. x.channels-1 :
               /\ getOutputDFTCoeffs(r, c) =
                    [i \in 0 .. 2 * getNumDFTCoeffs(x) - 1 |-> Number(x, r, c, i, w)]
               /\ \A k \in 0 .. getNumDFTCoeffs(x) - 1 :
                    getOutputDFTCoeff(r, c, k) = [part \in 0 .. 1 |-> Number(x, r, c, 2 * k + part, w)]
=============================================================================
