--------------------------- MODULE MCDAFFContent ---------------------------
(***************************************************************************)
(* Small instances of what a file contains: its records, the spectra they  *)
(* are transformed to, and its metadata.  The three parts share no state;  *)
(* a behaviour exercises one of them, while the others rest.               *)
(***************************************************************************)
EXTENDS DAFFRecords, DAFFTransformerIR2DFT, DAFFMetadataImpl

VARIABLE part

(* Responses of 8 coefficients: a peak of 2 between two quiet marks. *)
Shape(l, p, u) == [i \in 1 .. 8 |-> IF i-1 = p THEN 2 ELSE IF i-1 \in {l, u} THEN -1 ELSE 0]
Silence == [i \in 1 .. 8 |-> 0]
First == {Shape(l, p, u) : l \in 0 .. 7, p \in {2, 5}, u \in {3, 7}}
Second == {Silence, Shape(5, 6, 7)}

MCFiles ==
  {WriteIR(<<<<a>>, <<b>>>>, th, q) : a \in First \cup Second, b \in Second, th \in {0, 1},
                                      q \in {"int16", "int24", "float32"}}
  \cup {WriteSpectrum(k, 2, 2, 3) : k \in {"MS", "PS", "MPS", "DFT"}}

MCcabs(re, im) == 100 + 20 * re + im
MCcarg(re, im) == 1000 + 20 * re + im

MCContents == {[records |-> 2, channels |-> 2, length |-> 3], [records |-> 3, channels |-> 1, length |-> 4]}

MCUpper == [n \in {"", "KEY", "Key", "A"} |-> IF n = "Key" THEN "KEY" ELSE n]
MCEntries == {[type |-> t, name |-> n, value |-> v] : t \in {"DAFF_BOOL", "DAFF_INT"}, n \in {"KEY", "Key", "A"}, v \in {0, 1}}
             \cup {[type |-> "DAFF_STRING", name |-> "Key", value |-> 1],
                   [type |-> "DAFF_FLOAT", name |-> "A", value |-> 1],
                   [type |-> "unknown", name |-> "A", value |-> 0]}
MCInstances == {<<>>} \cup {<<a, b>> : a, b \in MCEntries}
MCBlocks == {<<>>} \cup {<<x>> : x \in MCInstances}
            \cup {<<x, <<y>>>> : x \in MCInstances, y \in {e \in MCEntries : e.name = "A"}}

MCInit ==
  /\ part \in {"records", "transformer", "metadata"}
  /\ TInit
  /\ IF part = "records" THEN Init
     ELSE file = WriteSpectrum("MS", 1, 1, 1) /\ dest = Fresh(0) /\ code = "none" /\ calls = <<>> /\ peak = [known |-> FALSE, value |-> 0]
  /\ IF part = "metadata" THEN MInit
     ELSE block = <<>> /\ m_vpMetadata = <<>> /\ live = {} /\ state = "closed"

MCNext ==
  /\ UNCHANGED part
  /\ \/ part = "records" /\ Next /\ UNCHANGED <<tvars, mvars>>
     \/ part = "transformer" /\ TNext /\ UNCHANGED <<vars, mvars>>
     \/ part = "metadata" /\ MNext /\ UNCHANGED <<vars, tvars>>

MCSpec == MCInit /\ [][MCNext]_<<part, vars, tvars, mvars>>
=============================================================================
