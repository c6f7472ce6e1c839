----------------------------- MODULE DAFFForest -----------------------------
(***************************************************************************)
(* What the scene graph promises a client: nodes form a forest, a node has *)
(* at most one parent, and deleting a node deletes exactly its subtree, at *)
(* once.                                                                   *)
(***************************************************************************)
CONSTANTS
  Nodes,      \* node objects that can exist
  None        \* the null pointer

VARIABLES
  nodes,      \* the nodes that exist
  up          \* the parent of each of them

forestVars == <<nodes, up>>

\* A set of nodes that holds the parent of each of its members.
ClosedUpwards(S) == \A m \in S : up[m] # None => up[m] \in S

\* The nodes from which parents lead to n, n included.
Below(n) ==
  {m \in nodes : \A S \in SUBSET nodes : m \in S /\ ClosedUpwards(S) => n \in S}

Init == nodes = {} /\ up = <<>>

Create(n, p) ==
  /\ n \notin nodes /\ p \in nodes \cup {None}
  /\ nodes' = nodes \cup {n}
  /\ up' = [m \in nodes' |-> IF m = n THEN p ELSE up[m]]

Attach(c, p) ==
  /\ up[c] = None /\ p \in nodes \ Below(c)
  /\ up' = [up EXCEPT ![c] = p]
  /\ UNCHANGED nodes

Detach(c) ==
  /\ up' = [up EXCEPT ![c] = None]
  /\ UNCHANGED nodes

Delete(n) ==
  /\ nodes' = nodes \ Below(n)
  /\ up' = [m \in nodes' |-> up[m]]

Next ==
  \/ \E n \in Nodes : \E p \in nodes \cup {None} : Create(n, p)
  \/ \E c, p \in nodes : Attach(c, p)
  \/ \E n \in nodes : Detach(n) \/ Delete(n)

Spec == Init /\ [][Next]_forestVars
===============================================================================
