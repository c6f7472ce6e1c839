--------------------------- MODULE MCDAFFBindings ---------------------------
(***************************************************************************)
(* Small instances of the three bindings.  A process hosts one of them;    *)
(* the others rest.                                                        *)
(***************************************************************************)
EXTENDS DAFFMexMain, pydaff, DAFFCSWrapper

VARIABLE host

(* Two records, two channels, two elements; the responses are stored
   without a leading or a trailing zero.                                   *)
MCFile(content) ==
  [content |-> content, records |-> 2, channels |-> 2, elements |-> 2,
   block |-> [i \in 1 .. 16 |-> i],
   desc |-> [rc \in (0 .. 1) \X (0 .. 1) |->
               LET n == 2 * rc[1] + rc[2]
               IN  IF content = "IR" THEN [offset |-> n, zeros |-> 1 - rc[2], length |-> 1]
                   ELSE [offset |-> n * (IF content \in {"MPS", "DFT"} THEN 4 ELSE 2), zeros |-> 0, length |-> 0]]]
MCFiles == {MCFile(content) : content \in {"IR", "MS", "PS", "MPS", "DFT"}}

(* The grid has a model of its own; here a direction is the number of the
   record that is nearest in the view of the object.                       *)
MCAngles == {0, 1}
MCNearest(f, view, a) == IF view = "object" THEN a ELSE 1 - a
MCCell(f, view, a) == LET n == MCNearest(f, view, a) IN <<n, 1 - n, 1 - n, n>>

Mc(a, b) == 0

MCInit ==
  /\ host \in {"matlab", "python", "csharp"}
  /\ MexInit /\ PyInit /\ CsInit

MCNext ==
  /\ UNCHANGED host
  /\ \/ host = "matlab" /\ MexNext /\ UNCHANGED <<pyVars, csVars>>
     \/ host = "python" /\ PyNext /\ UNCHANGED <<mexVars, csVars>>
     \/ host = "csharp" /\ CsNext /\ UNCHANGED <<mexVars, pyVars>>

MCSpec == MCInit /\ [][MCNext]_<<host, mexVars, pyVars, csVars>>
=============================================================================
