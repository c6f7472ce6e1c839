-------------------------- MODULE MCDAFFSceneGraph --------------------------
(***************************************************************************)
(* Small scene graphs: a plain node, a shape, and an indicator with its arrow.   *)
(***************************************************************************)
EXTENDS DAFFSceneGraph

CONSTANTS g1, s1, i1, a1

MCGroups == {g1}
MCShapes == {s1, a1}
MCIndicators == {i1}
MCArrow == [i \in {i1} |-> a1]
===============================================================================
