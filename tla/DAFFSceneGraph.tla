--------------------------- MODULE DAFFSceneGraph ---------------------------
(***************************************************************************)
(* The scene graph of DAFFViz: SGNode with its tree operations, visibility *)
(* and destructor, the VTK assembly each node keeps in step with the tree, *)
(* and the global lock that keeps a render thread away while an assembly   *)
(* changes.                                                                *)
(*                                                                         *)
(* One program thread calls the nodes.  Its C++ call stack is the variable *)
(* stack: a frame is what is left to do of a call, the first one runs.     *)
(* Fields of nodes that only this thread reads change in the same step as  *)
(* the statement before; every section under the lock is a step.  Calls    *)
(* are made on nodes that exist.  The order of the list of children is not *)
(* modelled.                                                               *)
(***************************************************************************)
EXTENDS Naturals, Sequences

CONSTANTS
  Groups,     \* nodes of class SGNode
  Shapes,     \* nodes of subclasses that own actors (Arrow, Sphere, Line, ...)
  Indicators, \* nodes of class SphericalDirectionIndicator
  Arrow,      \* the arrow each indicator creates
  Coloured,   \* nodes the client sets the color of
  None        \* the null pointer

Nodes == Groups \cup Shapes \cup Indicators
Arrows == {Arrow[i] : i \in Indicators}

ASSUME NodesAssumption ==
  /\ Groups \cap Shapes = {} /\ Groups \cap Indicators = {} /\ Shapes \cap Indicators = {}
  /\ Arrow \in [Indicators -> Shapes]
  /\ \A i, j \in Indicators : Arrow[i] = Arrow[j] => i = j
  /\ Coloured \subseteq Nodes
  /\ None \notin Nodes

VARIABLES
  alive,      \* the nodes that exist
  parent,     \* m_pParentNode
  children,   \* m_vpChildNodes, without order
  parts,      \* the nodes whose assembly is a part of the node's assembly
  actors,     \* the shapes whose actors are parts of their own assembly
  visible,    \* visibility of the node's assembly
  shown,      \* visibility of a shape's actors
  lock,       \* who holds the global lock
  stack,      \* the frames of the running call, the innermost first
  renderer,   \* where the render thread is in RenderInternal
  requested,  \* m_iRenderCount is not 0
  call        \* history: the last SetVisible or delete, with the subtree then

tree == <<alive, parent, children>>
scene == <<parts, actors, visible, shown>>
vars == <<tree, scene, lock, stack, renderer, requested, call>>

-----------------------------------------------------------------------------
(* Trees                                                                     *)

ClosedUpwards(S) == \A m \in S : parent[m] # None => parent[m] \in S

\* The nodes of the subtree of n: every way up from them leads through n.
Subtree(n) ==
  {m \in alive : \A S \in SUBSET alive : m \in S /\ ClosedUpwards(S) => n \in S}

-----------------------------------------------------------------------------
(* Frames                                                                    *)

Ops == {"construct", "init", "link", "unlink", "forget", "visit", "show",
        "delete", "deleteChildren", "setColor", "unlock"}

Frame == [op : Ops, node : Nodes, other : Nodes \cup {None},
          on : BOOLEAN, todo : SUBSET Nodes]

FrameOf(op, n, c, on, todo) ==
  [op |-> op, node |-> n, other |-> c, on |-> on, todo |-> todo]

Of(op, n) == FrameOf(op, n, None, FALSE, {})
On(op, n, c) == FrameOf(op, n, c, FALSE, {})
Visit(n, on, todo) == FrameOf("visit", n, None, on, todo)
Show(n, on) == FrameOf("show", n, None, on, {})

Top == Head(stack)
Runs(op) == stack # <<>> /\ Top.op = op

\* The running frame is replaced by what is left of it.
Continue(frames) == stack' = frames \o Tail(stack)
Return == Continue(<<>>)

-----------------------------------------------------------------------------
(* Calls of the client.                                                      *)

NoCall == [op |-> "none", on |-> FALSE, subtree |-> {}]

\* A call begins when no other runs.
Begin == stack = <<>> /\ call' = NoCall

\* A call about the whole subtree of n.
BeginOnSubtree(op, n, on) ==
  /\ stack = <<>>
  /\ call' = [op |-> op, on |-> on, subtree |-> Subtree(n)]

\* new, with a parent or without.
New(n, p) ==
  /\ n \in Nodes \ (alive \cup Arrows)
  /\ Begin
  /\ stack' = <<On("construct", n, p)>>
  /\ UNCHANGED <<tree, scene, lock, renderer, requested>>

\* Slips: one of the two tests left out.
AcceptsItself(n, c) == parent[c] = None
AcceptsChildren(n, c) == c # n

\* A node that has a parent, or is the node itself, is refused.
Accepts(n, c) == c # n /\ parent[c] = None

\* The client links no node below itself: the code does not find that out.
AddChildNode(n, c) ==
  /\ n \in alive /\ c \in alive /\ n \notin Subtree(c) \ {c}
  /\ Begin
  /\ IF Accepts(n, c)
       THEN /\ children' = [children EXCEPT ![n] = @ \cup {c}]
            /\ parent' = [parent EXCEPT ![c] = n]
            /\ stack' = <<On("link", n, c)>>
       ELSE UNCHANGED <<children, parent, stack>>
  /\ UNCHANGED <<alive, scene, lock, renderer, requested>>

RemoveChildNode(n, c) ==
  /\ n \in alive /\ c \in alive \ Arrows
  /\ Begin
  /\ stack' = IF c \in children[n] THEN <<On("unlink", n, c)>> ELSE <<>>
  /\ UNCHANGED <<tree, scene, lock, renderer, requested>>

SetVisible(n, on) ==
  /\ n \in alive
  /\ BeginOnSubtree("setVisible", n, on)
  /\ stack' = <<Visit(n, on, children[n])>>
  /\ UNCHANGED <<tree, scene, lock, renderer, requested>>

SetColor(n) ==
  /\ n \in alive \cap Coloured
  /\ Begin
  /\ stack' = <<Of("setColor", n)>>
  /\ UNCHANGED <<tree, scene, lock, renderer, requested>>

DeleteNode(n) ==
  /\ n \in alive \ Arrows
  /\ BeginOnSubtree("delete", n, FALSE)
  /\ stack' = <<Of("delete", n)>>
  /\ UNCHANGED <<tree, scene, lock, renderer, requested>>

\* VTKDAFFVizWindow::Render asks the render thread for a frame.
Render ==
  /\ stack = <<>>
  /\ requested' = TRUE
  /\ UNCHANGED <<tree, scene, lock, stack, renderer, call>>

-----------------------------------------------------------------------------
(* Steps of the running call.                                                *)

\* A section between DAFFVIZ_LOCK_VTK and DAFFVIZ_UNLOCK_VTK without calls.
Locked == lock = "free"

\* The constructors of SGNode, with AddChildNode on the parent.
Construct ==
  /\ Runs("construct")
  /\ LET n == Top.node
         p == Top.other
     IN  /\ alive' = alive \cup {n}
         /\ parent' = [parent EXCEPT ![n] = p]
         /\ children' = [m \in Nodes |-> IF m = n THEN {}
                                         ELSE IF m = p THEN children[m] \cup {n}
                                         ELSE children[m]]
         /\ visible' = [visible EXCEPT ![n] = TRUE]
         /\ parts' = [parts EXCEPT ![n] = {}]
         /\ actors' = actors \ {n}
         /\ Continue((IF p # None THEN <<On("link", p, n)>> ELSE <<>>)
                       \o <<Of("init", n)>>)
  /\ UNCHANGED <<shown, lock, renderer, requested, call>>

\* init() of a subclass: a shape adds its actors, an indicator its arrow.
InitNode ==
  /\ Runs("init")
  /\ LET n == Top.node
     IN  /\ n \in Shapes => Locked
         /\ actors' = IF n \in Shapes THEN actors \cup {n} ELSE actors
         /\ shown' = [shown EXCEPT ![n] = TRUE]
         /\ Continue(IF n \in Indicators
                       THEN <<On("construct", Arrow[n], n), Of("setColor", Arrow[n])>>
                       ELSE <<>>)
  /\ UNCHANGED <<tree, parts, visible, lock, renderer, requested, call>>

\* A slip: the lock not taken.
LinkWithoutLock ==
  /\ Runs("link")
  /\ parts' = [parts EXCEPT ![Top.node] = @ \cup {Top.other}]
  /\ Return
  /\ UNCHANGED <<tree, actors, visible, shown, lock, renderer, requested, call>>

Link ==
  /\ Runs("link") /\ Locked
  /\ parts' = [parts EXCEPT ![Top.node] = @ \cup {Top.other}]
  /\ Return
  /\ UNCHANGED <<tree, actors, visible, shown, lock, renderer, requested, call>>

\* A slip: the part left in the assembly.
UnlinkListOnly ==
  /\ Runs("unlink") /\ Locked
  /\ Continue(<<On("forget", Top.node, Top.other)>>)
  /\ UNCHANGED <<tree, scene, lock, renderer, requested, call>>

Unlink ==
  /\ Runs("unlink") /\ Locked
  /\ parts' = [parts EXCEPT ![Top.node] = @ \ {Top.other}]
  /\ Continue(<<On("forget", Top.node, Top.other)>>)
  /\ UNCHANGED <<tree, actors, visible, shown, lock, renderer, requested, call>>

Forget ==
  /\ Runs("forget")
  /\ parent' = [parent EXCEPT ![Top.other] = None]
  /\ children' = [children EXCEPT ![Top.node] = @ \ {Top.other}]
  /\ Return
  /\ UNCHANGED <<alive, scene, lock, renderer, requested, call>>

\* SetVisible of a child, then of the node's own assembly.
VisitChild ==
  /\ Runs("visit")
  /\ \E c \in Top.todo :
       Continue(<<Visit(c, Top.on, children[c]),
                  Visit(Top.node, Top.on, Top.todo \ {c})>>)
  /\ UNCHANGED <<tree, scene, lock, renderer, requested, call>>

\* A slip: only the node's own assembly.
VisitSelfOnly ==
  /\ Runs("visit") /\ Locked
  /\ visible' = [visible EXCEPT ![Top.node] = Top.on]
  /\ Continue(IF Top.node \in Shapes THEN <<Show(Top.node, Top.on)>> ELSE <<>>)
  /\ UNCHANGED <<tree, parts, actors, shown, lock, renderer, requested, call>>

VisitSelf ==
  /\ Runs("visit") /\ Top.todo = {} /\ Locked
  /\ visible' = [visible EXCEPT ![Top.node] = Top.on]
  /\ Continue(IF Top.node \in Shapes THEN <<Show(Top.node, Top.on)>> ELSE <<>>)
  /\ UNCHANGED <<tree, parts, actors, shown, lock, renderer, requested, call>>

\* The override of SetVisible in a shape goes on with its actors.
ShowActors ==
  /\ Runs("show") /\ Locked
  /\ shown' = [shown EXCEPT ![Top.node] = Top.on]
  /\ Return
  /\ UNCHANGED <<tree, parts, actors, visible, lock, renderer, requested, call>>

\* A slip: the parent is not left.
DestructInPlace ==
  /\ Runs("delete")
  /\ Top.node \in Shapes => Locked
  /\ actors' = actors \ {Top.node}
  /\ Continue(<<Of("deleteChildren", Top.node)>>)
  /\ UNCHANGED <<tree, parts, visible, shown, lock, renderer, requested, call>>

\* The destructor of the subclass removes its actors, that of SGNode leaves
\* the parent and deletes the children one by one.
Destruct ==
  /\ Runs("delete")
  /\ LET n == Top.node
     IN  /\ n \in Shapes => Locked
         /\ actors' = actors \ {n}
         /\ Continue((IF parent[n] # None THEN <<On("unlink", parent[n], n)>> ELSE <<>>)
                       \o <<Of("deleteChildren", n)>>)
  /\ UNCHANGED <<tree, parts, visible, shown, lock, renderer, requested, call>>

\* A slip: children are detached, not deleted.
DetachChild ==
  /\ Runs("deleteChildren")
  /\ \E c \in children[Top.node] : Continue(<<On("unlink", Top.node, c), Top>>)
  /\ UNCHANGED <<tree, scene, lock, renderer, requested, call>>

DeleteChild ==
  /\ Runs("deleteChildren")
  /\ \E c \in children[Top.node] : Continue(<<Of("delete", c), Top>>)
  /\ UNCHANGED <<tree, scene, lock, renderer, requested, call>>

\* The end of the destructor, where the assembly has to be empty.  The values
\* of a node that does not exist mean nothing; visibility is set to its default.
Free ==
  /\ Runs("deleteChildren") /\ children[Top.node] = {} /\ Locked
  /\ alive' = alive \ {Top.node}
  /\ visible' = [visible EXCEPT ![Top.node] = TRUE]
  /\ shown' = [shown EXCEPT ![Top.node] = TRUE]
  /\ Return
  /\ UNCHANGED <<parent, children, parts, actors, lock, renderer, requested, call>>

\* A shape colors its actors under the lock; an indicator calls its arrow.
ColorNode ==
  /\ Runs("setColor") /\ Locked
  /\ lock' = "program"
  /\ Continue((IF Top.node \in Indicators THEN <<Of("setColor", Arrow[Top.node])>>
                                          ELSE <<>>)
                \o <<Of("unlock", Top.node)>>)
  /\ UNCHANGED <<tree, scene, renderer, requested, call>>

\* A slip: an early return before the macro.
UnlockForgotten ==
  /\ Runs("unlock")
  /\ Return
  /\ UNCHANGED <<tree, scene, lock, renderer, requested, call>>

Unlock ==
  /\ Runs("unlock")
  /\ lock' = "free"
  /\ Return
  /\ UNCHANGED <<tree, scene, renderer, requested, call>>

-----------------------------------------------------------------------------
(* The render thread in RenderInternal.                                      *)

StartRender ==
  /\ renderer = "idle" /\ requested
  /\ renderer' = "waiting" /\ requested' = FALSE
  /\ UNCHANGED <<tree, scene, lock, stack, call>>

LockRender ==
  /\ renderer = "waiting" /\ Locked
  /\ renderer' = "drawing" /\ lock' = "renderer"
  /\ UNCHANGED <<tree, scene, stack, requested, call>>

EndRender ==
  /\ renderer = "drawing"
  /\ renderer' = "idle" /\ lock' = "free"
  /\ UNCHANGED <<tree, scene, stack, requested, call>>

-----------------------------------------------------------------------------
Init ==
  /\ alive = {}
  /\ parent = [n \in Nodes |-> None]
  /\ children = [n \in Nodes |-> {}]
  /\ parts = [n \in Nodes |-> {}]
  /\ actors = {}
  /\ visible = [n \in Nodes |-> TRUE]
  /\ shown = [n \in Nodes |-> TRUE]
  /\ lock = "free"
  /\ stack = <<>>
  /\ renderer = "idle"
  /\ requested = FALSE
  /\ call = NoCall

Client ==
  \/ \E n \in Nodes : \E p \in alive \cup {None} : New(n, p)
  \/ \E n, c \in Nodes : AddChildNode(n, c)
  \/ \E n, c \in Nodes : RemoveChildNode(n, c)
  \/ \E n \in Nodes : \E on \in BOOLEAN : SetVisible(n, on)
  \/ \E n \in Nodes : SetColor(n)
  \/ \E n \in Nodes : DeleteNode(n)
  \/ Render

Program ==
  \/ Construct \/ InitNode \/ Link \/ Unlink \/ Forget
  \/ VisitChild \/ VisitSelf \/ ShowActors
  \/ Destruct \/ DeleteChild \/ Free
  \/ ColorNode \/ Unlock

RenderThread == StartRender \/ LockRender \/ EndRender

Next == Client \/ Program \/ RenderThread

\* Both threads go on when they can; calls and requests need not be made.  A
\* request is made between calls only, so a call waits for two frames at most.
Fairness == WF_vars(Program) /\ WF_vars(RenderThread)

Spec == Init /\ [][Next]_vars /\ Fairness

-----------------------------------------------------------------------------
(* Properties.                                                               *)

\* Every node in a list of children exists.
TypeOK ==
  /\ alive \subseteq Nodes
  /\ parent \in [Nodes -> alive \cup {None}]
  /\ children \in [Nodes -> SUBSET alive]
  /\ parts \in [Nodes -> SUBSET alive]
  /\ actors \subseteq Shapes \cap alive
  /\ visible \in [Nodes -> BOOLEAN] /\ shown \in [Nodes -> BOOLEAN]
  /\ lock \in {"free", "program", "renderer"}
  /\ stack \in Seq(Frame)
  /\ renderer \in {"idle", "waiting", "drawing"}
  /\ requested \in BOOLEAN
  /\ call \in [op : {"none", "setVisible", "delete"}, on : BOOLEAN, subtree : SUBSET Nodes]

\* No node is above itself, in the middle of calls too: SetVisible, the
\* destructor and the renderer come to an end.
Forest == \A S \in (SUBSET Nodes) \ {{}} : \E n \in S : parent[n] \notin S

\* A node is in the list of its parent and in no other; the null pointer
\* stands in a node that is in no list; no pointer leads to a deleted node.
TreeIsConsistent ==
  /\ \A n, c \in Nodes : c \in children[n] <=> parent[c] = n
  /\ \A n \in Nodes \ alive : parent[n] = None /\ children[n] = {}

\* The assemblies mirror the tree, except for the one link that the running
\* AddChildNode has not made yet or RemoveChildNode has undone already.
AssembliesMirrorTree ==
  \A n, c \in Nodes :
    c \in parts[n] <=>
      /\ c \in children[n]
      /\ ~ \E op \in {"link", "forget"} : Runs(op) /\ Top.node = n /\ Top.other = c

\* The assertion in the destructor: when a node is freed its assembly has no
\* parts left, those of its subclass included.
AssemblyIsEmptyAtEnd ==
  Runs("deleteChildren") /\ children[Top.node] = {}
    => parts[Top.node] = {} /\ Top.node \notin actors

\* SetVisible reaches all nodes of the subtree, and the actors of shapes.
VisibilityReachesSubtree ==
  stack = <<>> /\ call.op = "setVisible"
    => \A m \in call.subtree :
         visible[m] = call.on /\ (m \in Shapes => shown[m] = call.on)

\* While a frame is drawn the assembly of no existing node changes.
SceneIsStillWhileDrawn ==
  [][renderer = "drawing" =>
       \A n \in alive : /\ parts'[n] = parts[n] /\ visible'[n] = visible[n]
                        /\ (n \in actors') = (n \in actors) /\ shown'[n] = shown[n]]_vars

\* The nodes a running delete will have freed.
Doomed == IF stack # <<>> /\ call.op = "delete" THEN call.subtree ELSE {}

Forests == INSTANCE DAFFForest WITH
  nodes <- alive \ Doomed,
  up <- [n \in alive \ Doomed |-> parent[n]]

\* To the client the tree operations are atomic: delete frees the subtree it
\* finds, all of it and nothing else, and nothing changes the tree besides.
ImplementsForest == Forests!Spec

\* Every call returns, whatever is drawn meanwhile.
EveryCallReturns == stack # <<>> ~> stack = <<>>

\* The program never waits for the lock it holds, which is not recursive.
NeverWaitsForItself == lock = "program" => Runs("unlock")
===============================================================================
