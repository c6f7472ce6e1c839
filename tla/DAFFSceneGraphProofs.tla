------------------------ MODULE DAFFSceneGraphProofs ------------------------
(***************************************************************************)
(* Theorems about DAFFSceneGraph for any sets of nodes: types, the absence *)
(* of cycles, agreement of lists and parent pointers, and the mirror of    *)
(* the tree in the assemblies; then what the calls achieve.  SetVisible    *)
(* reaches every node of the subtree; delete frees all of the subtree and  *)
(* nothing else, so that the scene graph implements DAFFForest; and while  *)
(* a frame is drawn no assembly changes.                                   *)
(*                                                                         *)
(* For SetVisible and delete the invariant of the tree is extended by what *)
(* a running call has left to do.  For the drawing: the lock belongs to    *)
(* the renderer while it draws, at most one frame of the stack is to       *)
(* release the lock and then the program holds it, and only shapes have    *)
(* actors to show, since SetVisible and the constructors touch those       *)
(* without asking what kind of node it is.                                 *)
(***************************************************************************)
EXTENDS DAFFSceneGraph, SequenceTheorems, TLAPS

-----------------------------------------------------------------------------
(* The inductive invariant: what the frames of the stack stand for.          *)

Frames == 1 .. Len(stack)

\* The destructor of n has removed the actors and is to delete the children.
Deleting(n) ==
  \E i \in Frames : stack[i].op = "deleteChildren" /\ stack[i].node = n

\* A frame that waits for another one to return is of these kinds.
BuriedOK ==
  \A i \in 2 .. Len(stack) :
    stack[i].op \in {"init", "visit", "deleteChildren", "setColor", "unlock"}

\* What the running frame may rely on.
TopOK ==
  stack # <<>> =>
    /\ Top.op = "construct" =>
         /\ Top.node \notin alive /\ Top.other \in alive \cup {None}
         /\ Top.node \in Arrows =>
              Top.other \in Indicators /\ Top.node = Arrow[Top.other]
    /\ Top.op \in {"link", "unlink", "forget"} =>
         Top.other \in Nodes /\ parent[Top.other] = Top.node
    /\ Top.op \in {"unlink", "forget"} /\ Top.other \in Arrows => Deleting(Top.other)
    /\ Top.op = "delete" =>
         Top.node \in alive /\ (Len(stack) = 1 \/ parent[Top.node] # None)

\* A node that is being constructed has no children yet.
InitsOK ==
  \A i \in Frames : stack[i].op = "init" =>
    /\ i = 1 \/ (i = 2 /\ Top.op = "link")
    /\ stack[i].node \in alive /\ children[stack[i].node] = {}

\* Construction and deletion do not mix.
PhasesOK ==
  \A i, j \in Frames :
    stack[i].op \in {"construct", "init"} =>
      stack[j].op \notin {"delete", "deleteChildren"}

\* A node whose children are being deleted has left its parent, or leaves it now.
DeletesOK ==
  \A i \in Frames : stack[i].op = "deleteChildren" =>
    /\ stack[i].node \in alive \ actors
    /\ \/ parent[stack[i].node] = None
       \/ Top.op \in {"unlink", "forget"} /\ Top.other = stack[i].node

\* A node is deleted once.
DeletesOnce ==
  \A i, j \in Frames :
    stack[i].op = "deleteChildren" /\ stack[j].op = "deleteChildren"
      /\ stack[i].node = stack[j].node => i = j

\* The arrow of an indicator is its child until it is deleted.
ArrowsOK ==
  \A i \in Indicators :
    Arrow[i] \in alive => parent[Arrow[i]] = i \/ Deleting(Arrow[i])

StackOK ==
  BuriedOK /\ TopOK /\ InitsOK /\ PhasesOK /\ DeletesOK /\ DeletesOnce /\ ArrowsOK

IInv == TypeOK /\ Forest /\ TreeIsConsistent /\ AssembliesMirrorTree /\ StackOK

USE DEF Top, Return

-----------------------------------------------------------------------------
(* The stack.                                                                *)

\* The frames the model builds are frames.
LEMMA CallFrames ==
  ASSUME NEW n \in Nodes, NEW c \in Nodes \cup {None}, NEW op \in Ops
  PROVE  /\ Of(op, n) \in Frame /\ Of(op, n).op = op /\ Of(op, n).node = n
         /\ On(op, n, c) \in Frame /\ On(op, n, c).op = op
         /\ On(op, n, c).node = n /\ On(op, n, c).other = c
BY DEF Frame, FrameOf, Of, On

\* The frames of SetVisible are frames.
LEMMA VisitFrames ==
  ASSUME NEW n \in Nodes, NEW on \in BOOLEAN, NEW todo \in SUBSET Nodes
  PROVE  /\ Visit(n, on, todo) \in Frame /\ Visit(n, on, todo).op = "visit"
         /\ Show(n, on) \in Frame /\ Show(n, on).op = "show"
BY DEF Frame, FrameOf, Visit, Show, Ops

\* A frame returns.
LEMMA Popped ==
  ASSUME stack \in Seq(Frame), stack # <<>>, Continue(<<>>)
  PROVE  /\ stack' \in Seq(Frame)
         /\ Len(stack) \in Nat \ {0} /\ Len(stack') = Len(stack) - 1
         /\ \A i \in Frames' : i + 1 \in 2 .. Len(stack) /\ stack'[i] = stack[i + 1]
         /\ \A i \in 2 .. Len(stack) : i - 1 \in Frames' /\ stack'[i - 1] = stack[i]
         /\ stack' # <<>> => 1 \in Frames' /\ Head(stack') = stack'[1]
BY DEF Continue, Frames

\* A frame is replaced by one.
LEMMA Replaced ==
  ASSUME stack \in Seq(Frame), stack # <<>>, NEW f \in Frame, Continue(<<f>>)
  PROVE  /\ stack' \in Seq(Frame) /\ stack' # <<>>
         /\ Len(stack) \in Nat \ {0} /\ Len(stack') = Len(stack)
         /\ Frames' = Frames /\ 1 \in Frames
         /\ stack'[1] = f /\ Head(stack') = f
         /\ \A i \in 2 .. Len(stack) : stack'[i] = stack[i] /\ i \in Frames
BY DEF Continue, Frames

\* A frame is replaced by two.
LEMMA Grown ==
  ASSUME stack \in Seq(Frame), stack # <<>>, NEW f \in Frame, NEW g \in Frame,
         Continue(<<f, g>>)
  PROVE  /\ stack' \in Seq(Frame) /\ stack' # <<>>
         /\ Len(stack) \in Nat \ {0} /\ Len(stack') = Len(stack) + 1
         /\ Frames' = 1 .. Len(stack) + 1 /\ 1 \in Frames' /\ 2 \in Frames'
         /\ stack'[1] = f /\ Head(stack') = f /\ stack'[2] = g
         /\ \A i \in 3 .. Len(stack) + 1 : i - 1 \in 2 .. Len(stack) /\ stack'[i] = stack[i - 1]
         /\ \A i \in 2 .. Len(stack) : i + 1 \in Frames' /\ stack'[i + 1] = stack[i]
<1>1. /\ stack' \in Seq(Frame) /\ stack' # <<>>
      /\ Len(stack) \in Nat \ {0} /\ Len(stack') = Len(stack) + 1
      /\ stack'[1] = f /\ stack'[2] = g
      /\ \A i \in 3 .. Len(stack) + 1 : stack'[i] = stack[i - 1]
  BY DEF Continue
<1> QED BY <1>1 DEF Frames

\* Two frames one after the other.
LEMMA Concatenated ==
  ASSUME NEW f \in Frame, NEW g \in Frame
  PROVE  <<f>> \o <<g>> = <<f, g>> /\ <<>> \o <<g>> = <<g>>
<1>1. <<f>> \in Seq(Frame) /\ <<g>> \in Seq(Frame) /\ <<f, g>> \in Seq(Frame)
  OBVIOUS
<1>2. Len(<<f>> \o <<g>>) = 2 /\ Len(<<f, g>>) = 2 /\ <<f>> \o <<g>> \in Seq(Frame)
  BY <1>1
<1>3. \A i \in 1 .. 2 : (<<f>> \o <<g>>)[i] = <<f, g>>[i]
  BY <1>1, <1>2
<1>4. \A s, t \in Seq(Frame) :
        Len(s) = Len(t) /\ (\A i \in 1 .. Len(s) : s[i] = t[i]) => s = t
  BY SeqEqual
<1>5. <<f>> \o <<g>> = <<f, g>>
  BY <1>1, <1>2, <1>3, <1>4
<1>6. <<>> \o <<g>> = <<g>>
  BY <1>1, ConcatEmptySeq
<1> QED BY <1>5, <1>6

\* A call of the client puts one frame on the empty stack.
LEMMA Started ==
  ASSUME NEW f \in Frame, stack' = <<f>>
  PROVE  /\ stack' \in Seq(Frame) /\ stack' # <<>> /\ Len(stack') = 1
         /\ stack'[1] = f /\ Head(stack') = f /\ Frames' = {1}
BY DEF Frames

\* The running frame is the first one.
LEMMA Running ==
  ASSUME stack \in Seq(Frame), stack # <<>>
  PROVE  /\ 1 \in Frames /\ Len(stack) \in Nat \ {0}
         /\ Head(stack) = stack[1]
         /\ Head(stack).node \in Nodes /\ Head(stack).other \in Nodes \cup {None}
         /\ Head(stack).on \in BOOLEAN /\ Head(stack).todo \in SUBSET Nodes
         /\ Head(stack).op \in Ops
         /\ \A i \in Frames : stack[i] \in Frame
<1>1. /\ 1 \in Frames /\ Len(stack) \in Nat \ {0} /\ Head(stack) = stack[1]
      /\ \A i \in Frames : stack[i] \in Frame
  BY DEF Frames
<1>2. Head(stack) \in Frame
  BY <1>1
<1> QED BY <1>1, <1>2 DEF Frame

-----------------------------------------------------------------------------
(* Steps that leave the tree and the parts alone.                            *)

\* What is then left to show.
LEMMA TreeUntouched ==
  ASSUME IInv, UNCHANGED <<tree, parts>>, TypeOK',
         stack # <<>> => Head(stack).op \notin {"link", "forget"},
         (stack # <<>>)' => Head(stack').op \notin {"link", "forget"},
         StackOK'
  PROVE  IInv'
<1>1. Forest' /\ TreeIsConsistent'
  BY DEF IInv, Forest, TreeIsConsistent, tree
<1>2. AssembliesMirrorTree'
  BY DEF IInv, AssembliesMirrorTree, tree, Runs
<1> QED BY <1>1, <1>2 DEF IInv

\* Steps of the renderer and requests.
LEMMA StackUntouched ==
  ASSUME IInv, UNCHANGED <<tree, scene, stack>>,
         call' \in [op : {"none", "setVisible", "delete"}, on : BOOLEAN, subtree : SUBSET Nodes],
         lock' \in {"free", "program", "renderer"},
         renderer' \in {"idle", "waiting", "drawing"}, requested' \in BOOLEAN
  PROVE  IInv'
<1>1. TypeOK'
  BY DEF IInv, TypeOK, tree, scene
<1>2. Forest' /\ TreeIsConsistent' /\ AssembliesMirrorTree'
  BY DEF IInv, Forest, TreeIsConsistent, AssembliesMirrorTree, Runs, tree, scene
<1>3. Frames' = Frames /\ \A n : Deleting(n)' = Deleting(n)
  BY DEF Frames, Deleting
<1>4. StackOK'
  BY <1>3 DEF IInv, StackOK, BuriedOK, TopOK, InitsOK, PhasesOK, DeletesOK, DeletesOnce, ArrowsOK,
              tree, scene
<1> QED BY <1>1, <1>2, <1>4 DEF IInv

\* The render thread and requests for frames.
LEMMA RendererSteps ==
  ASSUME IInv, RenderThread \/ Render
  PROVE  IInv'
<1>1. IInv => /\ lock \in {"free", "program", "renderer"} /\ requested \in BOOLEAN
              /\ renderer \in {"idle", "waiting", "drawing"}
              /\ call \in [op : {"none", "setVisible", "delete"}, on : BOOLEAN,
                           subtree : SUBSET Nodes]
  BY DEF IInv, TypeOK
<1>2. CASE Render
  BY <1>1, <1>2, StackUntouched DEF Render
<1>3. CASE StartRender
  BY <1>1, <1>3, StackUntouched DEF StartRender
<1>4. CASE LockRender
  BY <1>1, <1>4, StackUntouched DEF LockRender
<1>5. CASE EndRender
  BY <1>1, <1>5, StackUntouched DEF EndRender
<1> QED BY <1>2, <1>3, <1>4, <1>5 DEF RenderThread

\* What the frames that wait are, and what is known of them.
LEMMA Waiting ==
  ASSUME IInv, stack # <<>>
  PROVE  \A i \in 2 .. Len(stack) :
           /\ i \in Frames /\ stack[i] \in Frame
           /\ stack[i].op \in {"init", "visit", "deleteChildren", "setColor", "unlock"}
           /\ stack[i].op = "init" => i = 2 /\ Head(stack).op = "link"
           /\ stack[i].op = "deleteChildren" =>
                /\ stack[i].node \in alive \ actors
                /\ \/ parent[stack[i].node] = None
                   \/ Head(stack).op \in {"unlink", "forget"} /\ Head(stack).other = stack[i].node
<1>1. StackOK /\ stack \in Seq(Frame) /\ \A i \in Frames : stack[i] \in Frame
  BY Running DEF IInv, TypeOK
<1>2. \A i \in 2 .. Len(stack) : i \in Frames /\ i # 1
  BY <1>1 DEF Frames
<1> QED BY <1>1, <1>2 DEF StackOK, BuriedOK, InitsOK, DeletesOK

\* The same destructors are running after a step that moves their frames.
LEMMA SameDeletes ==
  ASSUME IInv, stack # <<>>, NEW d \in {-1, 0, 1},
         \A i \in Frames' : stack'[i].op = "deleteChildren" =>
           i - d \in Frames /\ stack'[i] = stack[i - d],
         \A i \in Frames : stack[i].op = "deleteChildren" =>
           i + d \in Frames' /\ stack'[i + d] = stack[i]
  PROVE  /\ \A n : Deleting(n)' <=> Deleting(n)
         /\ DeletesOnce'
         /\ \A i \in Frames' : stack'[i].op = "deleteChildren" =>
              /\ stack'[i].node \in alive \ actors
              /\ \/ parent[stack'[i].node] = None
                 \/ Head(stack).op \in {"unlink", "forget"} /\ Head(stack).other = stack'[i].node
<1>1. StackOK /\ \A i \in Frames' : i \in Nat
  BY DEF IInv, Frames
<1>2. ASSUME NEW n
      PROVE  Deleting(n)' <=> Deleting(n)
  BY DEF Deleting
<1>3. DeletesOnce'
  <2> SUFFICES ASSUME NEW i \in Frames', NEW j \in Frames', stack'[i].op = "deleteChildren",
                      stack'[j].op = "deleteChildren", stack'[i].node = stack'[j].node
               PROVE  i = j
    BY DEF DeletesOnce
  <2>1. i - d = j - d
    BY <1>1 DEF StackOK, DeletesOnce
  <2> QED BY <1>1, <2>1
<1>4. \A i \in Frames' : stack'[i].op = "deleteChildren" =>
        /\ stack'[i].node \in alive \ actors
        /\ \/ parent[stack'[i].node] = None
           \/ Head(stack).op \in {"unlink", "forget"} /\ Head(stack).other = stack'[i].node
  <2>1. \A j \in Frames : stack[j].op = "deleteChildren" =>
          /\ stack[j].node \in alive \ actors
          /\ \/ parent[stack[j].node] = None
             \/ Head(stack).op \in {"unlink", "forget"} /\ Head(stack).other = stack[j].node
    BY <1>1 DEF StackOK, DeletesOK
  <2>2. ASSUME NEW i \in Frames', stack'[i].op = "deleteChildren"
        PROVE  \E j \in Frames : stack'[i] = stack[j]
    BY <2>2
  <2> QED BY <2>1, <2>2
<1> QED BY <1>2, <1>3, <1>4

\* The same after the return of a frame that is no destructor.
LEMMA PoppedDeletes ==
  ASSUME IInv, stack # <<>>, Continue(<<>>), Head(stack).op # "deleteChildren"
  PROVE  /\ \A n : Deleting(n)' <=> Deleting(n)
         /\ DeletesOnce'
         /\ \A i \in Frames' : stack'[i].op = "deleteChildren" =>
              /\ stack'[i].node \in alive \ actors
              /\ \/ parent[stack'[i].node] = None
                 \/ Head(stack).op \in {"unlink", "forget"} /\ Head(stack).other = stack'[i].node
<1>1. stack \in Seq(Frame)
  BY DEF IInv, TypeOK
<1>2. /\ \A i \in Frames' : i \in Nat /\ i + 1 \in 2 .. Len(stack) /\ stack'[i] = stack[i + 1]
      /\ \A i \in 2 .. Len(stack) : i - 1 \in Frames' /\ stack'[i - 1] = stack[i]
  BY <1>1, Popped DEF Frames
<1>3. \A i \in Frames' : i - (-1) \in Frames /\ stack'[i] = stack[i - (-1)]
  BY <1>2 DEF Frames
<1>4. \A i \in Frames : stack[i].op = "deleteChildren" =>
        i + (-1) \in Frames' /\ stack'[i + (-1)] = stack[i]
  <2> SUFFICES ASSUME NEW i \in Frames, stack[i].op = "deleteChildren"
               PROVE  i + (-1) \in Frames' /\ stack'[i + (-1)] = stack[i]
    OBVIOUS
  <2>1. i \in 2 .. Len(stack) /\ i + (-1) = i - 1
    BY <1>1, Running DEF Frames
  <2> QED BY <1>2, <2>1
<1> QED BY <1>3, <1>4, SameDeletes

\* The running frame, if it is none of the tree's, gives way to k frames that
\* are none of the tree's either.
LEMMA QuietStack ==
  ASSUME IInv, stack # <<>>, tree' = tree,
         Head(stack).op \notin {"link", "unlink", "forget", "delete", "deleteChildren"},
         actors' \subseteq actors \/ Head(stack).op = "init",
         NEW k \in 0 .. 2, stack' \in Seq(Frame), Len(stack') = Len(stack) - 1 + k,
         \A i \in 1 .. k : stack'[i].op \in {"visit", "show", "setColor", "unlock"},
         \A i \in 2 .. k : stack'[i].op # "show",
         \A i \in 2 .. Len(stack) : stack'[i - 1 + k] = stack[i]
  PROVE  /\ StackOK'
         /\ (stack # <<>>)' => Head(stack').op \notin {"link", "forget"}
<1>1. /\ StackOK /\ stack \in Seq(Frame) /\ Len(stack) \in Nat \ {0} /\ Head(stack) = stack[1]
      /\ 1 \in Frames
  BY Running DEF IInv, TypeOK
<1>2. \A i \in Frames' :
        \/ i \in 1 .. k
        \/ i + 1 - k \in 2 .. Len(stack) /\ stack'[i] = stack[i + 1 - k]
  <2> SUFFICES ASSUME NEW i \in Frames', i \notin 1 .. k
               PROVE  i + 1 - k \in 2 .. Len(stack) /\ stack'[i] = stack[i + 1 - k]
    OBVIOUS
  <2>1. i + 1 - k \in 2 .. Len(stack) /\ (i + 1 - k) - 1 + k = i
    BY <1>1 DEF Frames
  <2> QED BY <2>1
<1>3. \A i \in 2 .. Len(stack) : i - 1 + k \in Frames' /\ stack'[i - 1 + k] = stack[i]
  BY <1>1 DEF Frames
<1>4. \A i \in Frames' : stack'[i].op \in {"visit", "show", "setColor", "unlock", "deleteChildren"}
  BY <1>1, <1>2, Waiting
<1>5. (stack # <<>>)' => 1 \in Frames' /\ Head(stack') = stack'[1]
  BY DEF Frames
<1>6. BuriedOK'
  <2> SUFFICES ASSUME NEW i \in 2 .. Len(stack')
               PROVE  stack'[i].op \in {"init", "visit", "deleteChildren", "setColor", "unlock"}
    BY DEF BuriedOK
  <2>1. i \in Frames'
    BY DEF Frames
  <2>2. CASE i \in 1 .. k
    BY <2>2
  <2>3. CASE i + 1 - k \in 2 .. Len(stack) /\ stack'[i] = stack[i + 1 - k]
    BY <2>3, Waiting
  <2> QED BY <2>1, <2>2, <2>3, <1>2
<1>7. TopOK' /\ InitsOK' /\ PhasesOK'
  <2>1. TopOK'
    BY <1>4, <1>5 DEF TopOK
  <2>2. InitsOK' /\ PhasesOK'
    BY <1>4 DEF InitsOK, PhasesOK
  <2> QED BY <2>1, <2>2
<1>8. /\ \A n : Deleting(n)' <=> Deleting(n)
      /\ DeletesOnce'
      /\ \A i \in Frames' : stack'[i].op = "deleteChildren" =>
           stack'[i].node \in alive \ actors /\ parent[stack'[i].node] = None
  <2>1. \A i \in Frames' : stack'[i].op = "deleteChildren" =>
          i - (k - 1) \in Frames /\ stack'[i] = stack[i - (k - 1)]
    <3> SUFFICES ASSUME NEW i \in Frames', stack'[i].op = "deleteChildren"
                 PROVE  i - (k - 1) \in Frames /\ stack'[i] = stack[i - (k - 1)]
      OBVIOUS
    <3>1. /\ i + 1 - k \in 2 .. Len(stack) /\ stack'[i] = stack[i + 1 - k]
          /\ i - (k - 1) = i + 1 - k
      BY <1>2 DEF Frames
    <3> QED BY <3>1, Waiting
  <2>2. \A i \in Frames : stack[i].op = "deleteChildren" =>
          i + (k - 1) \in Frames' /\ stack'[i + (k - 1)] = stack[i]
    <3> SUFFICES ASSUME NEW i \in Frames, stack[i].op = "deleteChildren"
                 PROVE  i + (k - 1) \in Frames' /\ stack'[i + (k - 1)] = stack[i]
      OBVIOUS
    <3>1. i \in 2 .. Len(stack) /\ i + (k - 1) = i - 1 + k
      BY <1>1 DEF Frames
    <3> QED BY <1>3, <3>1
  <2>3. k - 1 \in {-1, 0, 1}
    OBVIOUS
  <2> HIDE DEF Frames
  <2> QED BY <2>1, <2>2, <2>3, SameDeletes
<1>9. DeletesOK'
  <2> SUFFICES ASSUME NEW i \in Frames', stack'[i].op = "deleteChildren"
               PROVE  stack'[i].node \in alive' \ actors' /\ parent'[stack'[i].node] = None
    BY DEF DeletesOK
  <2>1. Head(stack).op # "init"
    <3>1. \E j \in Frames : stack[j].op = "deleteChildren"
      BY <1>8 DEF Deleting
    <3> QED BY <1>1, <3>1 DEF StackOK, PhasesOK
  <2> QED BY <1>8, <2>1 DEF tree
<1>10. ArrowsOK'
  BY <1>1, <1>8 DEF StackOK, ArrowsOK, tree
<1> QED BY <1>5, <1>4, <1>6, <1>7, <1>8, <1>9, <1>10 DEF StackOK

-----------------------------------------------------------------------------
(* Steps of calls that leave the tree alone.                                 *)

\* The types of what is neither tree, part nor stack.
OtherTypes ==
  /\ actors \subseteq Shapes \cap alive
  /\ visible \in [Nodes -> BOOLEAN] /\ shown \in [Nodes -> BOOLEAN]
  /\ lock \in {"free", "program", "renderer"}
  /\ renderer \in {"idle", "waiting", "drawing"}
  /\ requested \in BOOLEAN
  /\ call \in [op : {"none", "setVisible", "delete"}, on : BOOLEAN, subtree : SUBSET Nodes]

\* A frame that is none of the tree's.
Quiet(f) == f \in Frame /\ f.op \in {"visit", "show", "setColor", "unlock"}

\* The frames a quiet step leaves behind, and the rest of the invariant with them.
LEMMA QuietStep ==
  ASSUME IInv, stack # <<>>, tree' = tree, parts' = parts, OtherTypes',
         Head(stack).op \in {"visit", "show", "setColor", "unlock", "init"},
         actors' \subseteq actors \/ Head(stack).op = "init",
         \/ Continue(<<>>)
         \/ \E f \in Frame : Quiet(f) /\ Continue(<<f>>)
         \/ \E f, g \in Frame : Quiet(f) /\ Quiet(g) /\ g.op # "show" /\ Continue(<<f, g>>)
  PROVE  IInv'
<1>1. TypeOK /\ stack \in Seq(Frame)
  BY DEF IInv, TypeOK
<1> DEFINE Moved(k) ==
             /\ Len(stack') = Len(stack) - 1 + k
             /\ \A i \in 1 .. k : stack'[i].op \in {"visit", "show", "setColor", "unlock"}
             /\ \A i \in 2 .. k : stack'[i].op # "show"
             /\ \A i \in 2 .. Len(stack) : stack'[i - 1 + k] = stack[i]
<1>2. stack' \in Seq(Frame) /\ \E k \in 0 .. 2 : Moved(k)
  <2>1. CASE Continue(<<>>)
    <3>1. /\ stack' \in Seq(Frame) /\ Len(stack) \in Nat \ {0} /\ Len(stack') = Len(stack) - 1
          /\ \A i \in 2 .. Len(stack) : stack'[i - 1] = stack[i]
      BY <1>1, <2>1, Popped
    <3>2. /\ 0 \in 0 .. 2 /\ Len(stack') = Len(stack) - 1 + 0
          /\ \A i \in 2 .. Len(stack) : stack'[i - 1 + 0] = stack[i]
      BY <3>1
    <3> QED BY <3>1, <3>2
  <2>2. ASSUME NEW f \in Frame, Quiet(f), Continue(<<f>>)
        PROVE  stack' \in Seq(Frame) /\ \E k \in 0 .. 2 : Moved(k)
    <3>1. /\ stack' \in Seq(Frame) /\ Len(stack) \in Nat \ {0} /\ Len(stack') = Len(stack)
          /\ stack'[1] = f /\ \A i \in 2 .. Len(stack) : stack'[i] = stack[i]
      BY <1>1, <2>2, Replaced
    <3>2. /\ 1 \in 0 .. 2 /\ Len(stack') = Len(stack) - 1 + 1
          /\ \A i \in 2 .. Len(stack) : stack'[i - 1 + 1] = stack[i]
      BY <3>1
    <3> QED BY <2>2, <3>1, <3>2 DEF Quiet
  <2>3. ASSUME NEW f \in Frame, NEW g \in Frame, Quiet(f), Quiet(g), g.op # "show",
               Continue(<<f, g>>)
        PROVE  stack' \in Seq(Frame) /\ \E k \in 0 .. 2 : Moved(k)
    <3>1. /\ stack' \in Seq(Frame) /\ Len(stack) \in Nat \ {0} /\ Len(stack') = Len(stack) + 1
          /\ stack'[1] = f /\ stack'[2] = g
          /\ \A i \in 2 .. Len(stack) : stack'[i + 1] = stack[i]
      BY <1>1, <2>3, Grown
    <3>2. /\ 2 \in 0 .. 2 /\ Len(stack') = Len(stack) - 1 + 2
          /\ \A i \in 1 .. 2 : i = 1 \/ i = 2
          /\ \A i \in 2 .. Len(stack) : stack'[i - 1 + 2] = stack[i]
      BY <3>1
    <3> QED BY <2>3, <3>1, <3>2 DEF Quiet
  <2> QED BY <2>1, <2>2, <2>3
<1>3. StackOK' /\ ((stack # <<>>)' => Head(stack').op \notin {"link", "forget"})
  BY <1>2, QuietStack
<1>4. TypeOK'
  BY <1>1, <1>2 DEF TypeOK, OtherTypes, tree
<1> QED BY <1>3, <1>4, TreeUntouched

\* SetVisible and SetColor.
LEMMA QuietSteps ==
  ASSUME IInv, VisitChild \/ VisitSelf \/ ShowActors \/ ColorNode \/ Unlock
  PROVE  IInv'
<1>1. TypeOK /\ stack \in Seq(Frame) /\ OtherTypes
  BY DEF IInv, TypeOK, OtherTypes
<1>2. ASSUME stack # <<>>
      PROVE  /\ Head(stack).node \in Nodes /\ Head(stack).todo \in SUBSET Nodes
             /\ Head(stack).on \in BOOLEAN
  BY <1>1, <1>2, Running
<1>3. \A n \in Nodes, on \in BOOLEAN, todo \in SUBSET Nodes :
        /\ Quiet(Visit(n, on, todo)) /\ Quiet(Show(n, on))
        /\ Quiet(Of("setColor", n)) /\ Quiet(Of("unlock", n))
        /\ Visit(n, on, todo).op # "show" /\ Of("unlock", n).op # "show"
  BY CallFrames, VisitFrames DEF Quiet, Ops
<1>4. CASE VisitChild
  <2>1. /\ stack # <<>> /\ Head(stack).op = "visit" /\ UNCHANGED <<tree, scene>>
        /\ UNCHANGED <<lock, renderer, requested, call>>
    BY <1>4 DEF VisitChild, Runs
  <2>2. PICK c \in Head(stack).todo :
          Continue(<<Visit(c, Head(stack).on, children[c]),
                     Visit(Head(stack).node, Head(stack).on, Head(stack).todo \ {c})>>)
    BY <1>4 DEF VisitChild
  <2>3. c \in Nodes /\ children[c] \in SUBSET Nodes /\ Head(stack).todo \ {c} \in SUBSET Nodes
    BY <1>1, <1>2, <2>1 DEF TypeOK
  <2>4. \E f, g \in Frame : Quiet(f) /\ Quiet(g) /\ g.op # "show" /\ Continue(<<f, g>>)
    BY <1>2, <1>3, <2>1, <2>2, <2>3 DEF Quiet
  <2> QED BY <1>1, <2>1, <2>4, QuietStep DEF OtherTypes, scene, tree
<1>5. CASE VisitSelf
  <2>1. /\ stack # <<>> /\ Head(stack).op = "visit" /\ UNCHANGED <<tree, parts, actors>>
        /\ UNCHANGED <<shown, lock, renderer, requested, call>>
        /\ visible' = [visible EXCEPT ![Head(stack).node] = Head(stack).on]
        /\ Continue(IF Head(stack).node \in Shapes
                      THEN <<Show(Head(stack).node, Head(stack).on)>> ELSE <<>>)
    BY <1>5 DEF VisitSelf, Runs
  <2>2. Continue(<<>>) \/ \E f \in Frame : Quiet(f) /\ Continue(<<f>>)
    BY <1>2, <1>3, <2>1 DEF Quiet
  <2>3. OtherTypes'
    BY <1>1, <1>2, <2>1 DEF OtherTypes, tree
  <2> QED BY <2>1, <2>2, <2>3, QuietStep
<1>6. CASE ShowActors
  <2>1. /\ stack # <<>> /\ Head(stack).op = "show" /\ UNCHANGED <<tree, parts, actors>>
        /\ UNCHANGED <<visible, lock, renderer, requested, call>>
        /\ shown' = [shown EXCEPT ![Head(stack).node] = Head(stack).on]
        /\ Continue(<<>>)
    BY <1>6 DEF ShowActors, Runs
  <2>2. OtherTypes'
    BY <1>1, <1>2, <2>1 DEF OtherTypes, tree
  <2> QED BY <2>1, <2>2, QuietStep
<1>7. CASE ColorNode
  <2> DEFINE n == Head(stack).node
  <2>1. /\ stack # <<>> /\ Head(stack).op = "setColor" /\ UNCHANGED <<tree, scene>>
        /\ UNCHANGED <<renderer, requested, call>> /\ lock' = "program"
        /\ Continue((IF n \in Indicators THEN <<Of("setColor", Arrow[n])>> ELSE <<>>)
                      \o <<Of("unlock", n)>>)
    BY <1>7 DEF ColorNode, Runs
  <2>2. CASE n \in Indicators
    <3>1. Arrow[n] \in Nodes
      BY <2>2, NodesAssumption DEF Nodes
    <3>2. Continue(<<Of("setColor", Arrow[n]), Of("unlock", n)>>)
      BY <1>2, <1>3, <2>1, <2>2, <3>1, Concatenated DEF Quiet
    <3>3. \E f, g \in Frame : Quiet(f) /\ Quiet(g) /\ g.op # "show" /\ Continue(<<f, g>>)
      BY <1>2, <1>3, <2>1, <3>1, <3>2 DEF Quiet
    <3> QED BY <1>1, <2>1, <3>3, QuietStep DEF OtherTypes, scene, tree
  <2>3. CASE n \notin Indicators
    <3>1. Continue(<<Of("unlock", n)>>)
      BY <2>1, <2>3
    <3>2. \E f \in Frame : Quiet(f) /\ Continue(<<f>>)
      BY <1>2, <1>3, <2>1, <3>1 DEF Quiet
    <3> QED BY <1>1, <2>1, <3>2, QuietStep DEF OtherTypes, scene, tree
  <2> QED BY <2>2, <2>3
<1>8. CASE Unlock
  <2>1. /\ stack # <<>> /\ Head(stack).op = "unlock" /\ UNCHANGED <<tree, scene>>
        /\ UNCHANGED <<renderer, requested, call>> /\ lock' = "free" /\ Continue(<<>>)
    BY <1>8 DEF Unlock, Runs
  <2> QED BY <1>1, <2>1, QuietStep DEF OtherTypes, scene, tree
<1> QED BY <1>4, <1>5, <1>6, <1>7, <1>8

-----------------------------------------------------------------------------
(* Calls of the client.                                                      *)

\* Between calls every arrow is a child of its indicator.
LEMMA BetweenCalls ==
  ASSUME IInv, stack = <<>>
  PROVE  /\ \A i \in Indicators : Arrow[i] \in alive => parent[Arrow[i]] = i
         /\ \A n, c \in Nodes : c \in parts[n] <=> c \in children[n]
<1>1. Frames = {}
  BY DEF Frames
<1>2. StackOK /\ AssembliesMirrorTree
  BY DEF IInv
<1> QED BY <1>1, <1>2 DEF StackOK, ArrowsOK, Deleting, AssembliesMirrorTree, Runs

\* The first frame of a call waits for none.
LEMMA StartedStackOK ==
  ASSUME NEW f \in Frame, stack' = <<f>>, f.op \notin {"init", "deleteChildren"},
         \A i \in Indicators : Arrow[i] \in alive' => parent'[Arrow[i]] = i,
         TopOK'
  PROVE  StackOK'
<1>1. /\ Len(stack') = 1 /\ stack'[1] = f /\ Head(stack') = f
      /\ Frames' = {1}
  BY Started
<1> QED BY <1>1 DEF StackOK, BuriedOK, InitsOK, PhasesOK, DeletesOK, DeletesOnce,
                 ArrowsOK

\* What a call is remembered by has its type.
LEMMA CallTypes ==
  ASSUME TypeOK
  PROVE  /\ NoCall \in [op : {"none", "setVisible", "delete"}, on : BOOLEAN,
                        subtree : SUBSET Nodes]
         /\ \A n \in Nodes, on \in BOOLEAN, op \in {"setVisible", "delete"} :
              [op |-> op, on |-> on, subtree |-> Subtree(n)]
                \in [op : {"none", "setVisible", "delete"}, on : BOOLEAN,
                     subtree : SUBSET Nodes]
<1>1. \A n \in Nodes : Subtree(n) \in SUBSET Nodes
  BY DEF TypeOK, Subtree
<1> QED BY <1>1 DEF NoCall

\* Calls that begin without a change of the tree.
LEMMA CallBegins ==
  ASSUME IInv, stack = <<>>, UNCHANGED <<tree, scene, lock, renderer, requested>>,
         call' \in [op : {"none", "setVisible", "delete"}, on : BOOLEAN, subtree : SUBSET Nodes],
         NEW f \in Frame, stack' = <<f>>,
         f.op \notin {"init", "link", "forget", "deleteChildren"}, TopOK'
  PROVE  IInv'
<1>1. stack' \in Seq(Frame) /\ Head(stack') = f
  BY Started
<1>2. TypeOK'
  BY <1>1 DEF IInv, TypeOK, tree, scene
<1>3. \A i \in Indicators : Arrow[i] \in alive' => parent'[Arrow[i]] = i
  BY BetweenCalls DEF tree
<1>4. StackOK'
  BY <1>3, StartedStackOK
<1> QED BY <1>1, <1>2, <1>4, TreeUntouched DEF scene

\* All calls of the client but AddChildNode.
LEMMA ClientSteps ==
  ASSUME IInv, NEW n \in Nodes, NEW c \in Nodes, NEW p \in alive \cup {None}, NEW on \in BOOLEAN,
         New(n, p) \/ RemoveChildNode(n, c) \/ SetVisible(n, on) \/ SetColor(n) \/ DeleteNode(n)
  PROVE  IInv'
<1>1. TypeOK /\ p \in Nodes \cup {None}
  BY DEF IInv, TypeOK
<1>2. CASE New(n, p)
  <2>1. /\ stack = <<>> /\ n \notin alive \cup Arrows /\ stack' = <<On("construct", n, p)>>
        /\ UNCHANGED <<tree, scene, lock, renderer, requested>> /\ call' = NoCall
    BY <1>2 DEF New, Begin
  <2>2. /\ On("construct", n, p) \in Frame /\ On("construct", n, p).op = "construct"
        /\ On("construct", n, p).node = n /\ On("construct", n, p).other = p
    BY <1>1, CallFrames DEF Ops
  <2>3. TopOK'
    BY <2>1, <2>2, Started DEF TopOK, tree
  <2> QED BY <1>1, <2>1, <2>2, <2>3, CallBegins, CallTypes
<1>3. CASE RemoveChildNode(n, c)
  <2>1. /\ stack = <<>> /\ call' = NoCall /\ c \notin Arrows
        /\ UNCHANGED <<tree, scene, lock, renderer, requested>>
        /\ stack' = IF c \in children[n] THEN <<On("unlink", n, c)>> ELSE <<>>
    BY <1>3 DEF RemoveChildNode, Begin
  <2>2. CASE c \in children[n]
    <3>1. /\ On("unlink", n, c) \in Frame /\ On("unlink", n, c).op = "unlink"
          /\ On("unlink", n, c).node = n /\ On("unlink", n, c).other = c
      BY <1>1, CallFrames DEF Ops
    <3>2. parent[c] = n
      BY <2>2 DEF IInv, TreeIsConsistent
    <3>3. stack' = <<On("unlink", n, c)>>
      BY <2>1, <2>2
    <3>4. TopOK'
      BY <2>1, <3>1, <3>2, <3>3, Started DEF TopOK, tree
    <3> QED BY <1>1, <2>1, <3>1, <3>3, <3>4, CallBegins, CallTypes
  <2>3. CASE c \notin children[n]
    BY <1>1, <2>1, <2>3, StackUntouched, CallTypes DEF TypeOK
  <2> QED BY <2>2, <2>3
<1>4. CASE SetVisible(n, on)
  <2>1. /\ stack = <<>> /\ call' = [op |-> "setVisible", on |-> on, subtree |-> Subtree(n)]
        /\ UNCHANGED <<tree, scene, lock, renderer, requested>>
        /\ stack' = <<Visit(n, on, children[n])>>
    BY <1>4 DEF SetVisible, BeginOnSubtree
  <2>2. Visit(n, on, children[n]) \in Frame /\ Visit(n, on, children[n]).op = "visit"
    <3>1. children[n] \in SUBSET Nodes
      BY <1>1 DEF TypeOK
    <3> QED BY <3>1, VisitFrames
  <2>3. TopOK'
    BY <2>1, <2>2, Started DEF TopOK
  <2> QED BY <1>1, <2>1, <2>2, <2>3, CallBegins, CallTypes
<1>5. CASE SetColor(n)
  <2>1. /\ stack = <<>> /\ call' = NoCall /\ stack' = <<Of("setColor", n)>>
        /\ UNCHANGED <<tree, scene, lock, renderer, requested>>
    BY <1>5 DEF SetColor, Begin
  <2>2. Of("setColor", n) \in Frame /\ Of("setColor", n).op = "setColor"
    BY CallFrames DEF Ops
  <2>3. TopOK'
    BY <2>1, <2>2, Started DEF TopOK
  <2> QED BY <1>1, <2>1, <2>2, <2>3, CallBegins, CallTypes
<1>6. CASE DeleteNode(n)
  <2>1. /\ stack = <<>> /\ call' = [op |-> "delete", on |-> FALSE, subtree |-> Subtree(n)]
        /\ stack' = <<Of("delete", n)>> /\ n \in alive
        /\ UNCHANGED <<tree, scene, lock, renderer, requested>>
    BY <1>6 DEF DeleteNode, BeginOnSubtree
  <2>2. Of("delete", n) \in Frame /\ Of("delete", n).op = "delete" /\ Of("delete", n).node = n
    BY CallFrames DEF Ops
  <2>3. TopOK'
    BY <2>1, <2>2, Started DEF TopOK, tree
  <2> QED BY <1>1, <2>1, <2>2, <2>3, CallBegins, CallTypes
<1> QED BY <1>2, <1>3, <1>4, <1>5, <1>6

\* No cycle arises: the set of nodes above n, which does not hold c, would hold
\* a part of the cycle that was a cycle before.
LEMMA AddChildNodeStep ==
  ASSUME IInv, NEW n \in Nodes, NEW c \in Nodes, AddChildNode(n, c)
  PROVE  IInv'
<1>1. /\ TypeOK /\ TreeIsConsistent /\ Forest /\ stack = <<>> /\ call' = NoCall
      /\ n \in alive /\ c \in alive /\ n \notin Subtree(c) \ {c}
      /\ UNCHANGED <<alive, scene, lock, renderer, requested>>
  BY DEF IInv, AddChildNode, Begin
<1>2. CASE ~ Accepts(n, c)
  <2>1. UNCHANGED <<tree, stack>>
    BY <1>1, <1>2 DEF AddChildNode, tree
  <2> QED BY <1>1, <2>1, StackUntouched, CallTypes DEF TypeOK
<1>3. CASE Accepts(n, c)
  <2>1. /\ children' = [children EXCEPT ![n] = @ \cup {c}]
        /\ parent' = [parent EXCEPT ![c] = n]
        /\ stack' = <<On("link", n, c)>>
    BY <1>3 DEF AddChildNode
  <2>2. c # n /\ parent[c] = None /\ None \notin Nodes
    BY <1>3, NodesAssumption DEF Accepts
  <2>3. /\ On("link", n, c) \in Frame /\ On("link", n, c).op = "link"
        /\ On("link", n, c).node = n /\ On("link", n, c).other = c
    <3>1. c \in Nodes \cup {None} /\ "link" \in Ops
      BY DEF Ops
    <3> QED BY <3>1, CallFrames
  <2>4. stack' \in Seq(Frame) /\ stack' # <<>> /\ Head(stack') = On("link", n, c)
    BY <2>1, <2>3, Started
  <2>5. TypeOK'
    BY <1>1, <2>1, <2>4, CallTypes DEF TypeOK, scene
  <2>6. Forest'
    <3>1. PICK U \in SUBSET alive : n \in U /\ ClosedUpwards(U) /\ c \notin U
      BY <1>1, <2>2 DEF Subtree
    <3>2. SUFFICES ASSUME NEW S \in (SUBSET Nodes) \ {{}}, \A m \in S : parent'[m] \in S
                   PROVE  FALSE
      BY DEF Forest
    <3>3. \A m \in Nodes : m # c => parent'[m] = parent[m]
      BY <1>1, <2>1 DEF TypeOK
    <3>4. CASE c \notin S
      BY <1>1, <3>2, <3>3, <3>4 DEF Forest
    <3>5. CASE c \in S
      <4> DEFINE T == S \cap U
      <4>1. n \in T
        BY <1>1, <2>1, <3>1, <3>2, <3>5 DEF TypeOK
      <4>2. \A m \in T : parent[m] \in T
        BY <2>2, <3>1, <3>2, <3>3 DEF ClosedUpwards
      <4> QED BY <1>1, <4>1, <4>2 DEF Forest
    <3> QED BY <3>4, <3>5
  <2>7. TreeIsConsistent'
    BY <1>1, <2>1, <2>2 DEF TreeIsConsistent, TypeOK
  <2>8. AssembliesMirrorTree'
    <3> SUFFICES ASSUME NEW m \in Nodes, NEW d \in Nodes
                 PROVE  d \in parts'[m] <=> d \in children'[m] /\ ~ (n = m /\ c = d)
      BY <2>3, <2>4 DEF AssembliesMirrorTree, Runs
    <3>1. d \in parts'[m] <=> d \in children[m]
      BY <1>1, BetweenCalls DEF scene
    <3>2. c \notin children[n]
      BY <1>1, <2>2 DEF TreeIsConsistent
    <3> QED BY <1>1, <2>1, <3>1, <3>2 DEF TypeOK
  <2>9. StackOK'
    <3>1. TopOK'
      BY <1>1, <2>1, <2>3, <2>4 DEF TopOK, TypeOK
    <3>2. \A i \in Indicators : Arrow[i] \in alive' => parent'[Arrow[i]] = i
      <4> SUFFICES ASSUME NEW i \in Indicators, Arrow[i] \in alive
                   PROVE  parent'[Arrow[i]] = i
        BY <1>1
      <4>1. Arrow[i] \in Nodes /\ i \in Nodes /\ parent[Arrow[i]] = i
        BY <1>1, BetweenCalls, NodesAssumption DEF Nodes
      <4>2. Arrow[i] # c
        BY <2>2, <4>1
      <4> QED BY <1>1, <2>1, <4>1, <4>2 DEF TypeOK
    <3> QED BY <2>1, <2>3, <3>1, <3>2, StartedStackOK
  <2> QED BY <2>5, <2>6, <2>7, <2>8, <2>9 DEF IInv
<1> QED BY <1>2, <1>3

-----------------------------------------------------------------------------
(* Steps of calls that change the tree or its assemblies.                    *)

\* The child becomes a part: the frame that waits, if any, is none of the tree's.
LEMMA LinkStep ==
  ASSUME IInv, Link
  PROVE  IInv'
<1> DEFINE n == Head(stack).node
           c == Head(stack).other
<1>1. /\ TypeOK /\ TreeIsConsistent /\ Forest /\ StackOK /\ AssembliesMirrorTree
      /\ stack # <<>> /\ stack \in Seq(Frame) /\ Head(stack).op = "link"
      /\ parts' = [parts EXCEPT ![n] = @ \cup {c}] /\ Continue(<<>>)
      /\ UNCHANGED <<tree, actors, visible, shown, lock, renderer, requested, call>>
  BY DEF IInv, TypeOK, Link, Runs
<1>2. n \in Nodes /\ c \in Nodes /\ parent[c] = n /\ c \in children[n] /\ c \in alive
      /\ Head(stack) = stack[1] /\ 1 \in Frames
  <2>1. n \in Nodes /\ c \in Nodes /\ parent[c] = n /\ Head(stack) = stack[1] /\ 1 \in Frames
    BY <1>1, Running DEF StackOK, TopOK
  <2> QED BY <1>1, <2>1 DEF TreeIsConsistent, TypeOK
<1> HIDE DEF n, c
<1>3. /\ stack' \in Seq(Frame)
      /\ \A i \in Frames' : i + 1 \in 2 .. Len(stack) /\ stack'[i] = stack[i + 1]
      /\ \A i \in 2 .. Len(stack) : i - 1 \in Frames' /\ stack'[i - 1] = stack[i]
      /\ stack' # <<>> => 1 \in Frames' /\ Head(stack') = stack'[1]
  BY <1>1, Popped
<1>4. \A i \in Frames' :
        stack'[i].op \in {"init", "visit", "deleteChildren", "setColor", "unlock"}
  BY <1>1, <1>3, Waiting
<1>5. TypeOK'
  BY <1>1, <1>2, <1>3 DEF TypeOK, tree
<1>6. Forest' /\ TreeIsConsistent'
  BY <1>1 DEF Forest, TreeIsConsistent, tree
<1>7. AssembliesMirrorTree'
  <2> SUFFICES ASSUME NEW m \in Nodes, NEW d \in Nodes
               PROVE  d \in parts'[m] <=> d \in children[m]
    BY <1>1, <1>3, <1>4 DEF AssembliesMirrorTree, Runs, tree
  <2>1. d \in parts[m] <=> d \in children[m] /\ ~ (n = m /\ c = d)
    BY <1>1 DEF AssembliesMirrorTree, Runs, n, c
  <2> QED BY <1>1, <1>2, <2>1 DEF TypeOK
<1>8. StackOK'
  <2>1. BuriedOK' /\ TopOK'
    <3>1. \A i \in 2 .. Len(stack') : i \in Frames'
      BY <1>3 DEF Frames
    <3> QED BY <1>3, <1>4, <3>1 DEF BuriedOK, TopOK
  <2>2. InitsOK'
    <3> SUFFICES ASSUME NEW i \in Frames', stack'[i].op = "init"
                 PROVE  i = 1 /\ stack'[i].node \in alive /\ children[stack'[i].node] = {}
      BY <1>1 DEF InitsOK, tree
    <3>1. i \in Nat /\ i + 1 \in 2 .. Len(stack) /\ stack'[i] = stack[i + 1]
      BY <1>3 DEF Frames
    <3>2. i + 1 \in Frames /\ i + 1 = 2
      BY <1>1, <3>1, Waiting
    <3>3. stack[i + 1].node \in alive /\ children[stack[i + 1].node] = {}
      BY <1>1, <3>1, <3>2 DEF StackOK, InitsOK
    <3> QED BY <3>1, <3>2, <3>3
  <2>3. PhasesOK'
    <3> SUFFICES ASSUME NEW i \in Frames', NEW j \in Frames',
                        stack'[i].op \in {"construct", "init"}
                 PROVE  stack'[j].op \notin {"delete", "deleteChildren"}
      BY DEF PhasesOK
    <3>1. i + 1 \in Frames /\ j + 1 \in Frames
      BY <1>1, <1>3, Waiting
    <3> QED BY <1>1, <1>3, <3>1 DEF StackOK, PhasesOK
  <2>4. /\ \A m : Deleting(m)' <=> Deleting(m)
        /\ DeletesOnce'
        /\ \A i \in Frames' : stack'[i].op = "deleteChildren" =>
             stack'[i].node \in alive \ actors /\ parent[stack'[i].node] = None
    BY <1>1, <1>2, <1>3, PoppedDeletes
  <2>5. DeletesOK'
    BY <1>1, <2>4 DEF DeletesOK, tree
  <2>6. ArrowsOK'
    BY <1>1, <2>4 DEF StackOK, ArrowsOK, tree
  <2> QED BY <2>1, <2>2, <2>3, <2>4, <2>5, <2>6 DEF StackOK
<1> QED BY <1>5, <1>6, <1>7, <1>8 DEF IInv

\* The part goes first, the frame that will forget the child replaces the running one.
LEMMA UnlinkStep ==
  ASSUME IInv, Unlink
  PROVE  IInv'
<1> DEFINE n == Head(stack).node
           c == Head(stack).other
           f == On("forget", n, c)
<1>1. /\ TypeOK /\ TreeIsConsistent /\ Forest /\ StackOK /\ AssembliesMirrorTree
      /\ stack # <<>> /\ stack \in Seq(Frame) /\ Head(stack).op = "unlink"
      /\ parts' = [parts EXCEPT ![n] = @ \ {c}] /\ Continue(<<f>>)
      /\ UNCHANGED <<tree, actors, visible, shown, lock, renderer, requested, call>>
  BY DEF IInv, TypeOK, Unlink, Runs
<1>2. /\ n \in Nodes /\ c \in Nodes /\ parent[c] = n /\ c \in children[n]
      /\ c \in Arrows => Deleting(c)
      /\ Head(stack) = stack[1] /\ 1 \in Frames
  <2>1. /\ n \in Nodes /\ c \in Nodes /\ parent[c] = n /\ Head(stack) = stack[1] /\ 1 \in Frames
        /\ c \in Arrows => Deleting(c)
    BY <1>1, Running DEF StackOK, TopOK
  <2> QED BY <1>1, <2>1 DEF TreeIsConsistent
<1>3. f \in Frame /\ f.op = "forget" /\ f.node = n /\ f.other = c
  BY <1>2, CallFrames DEF Ops
<1> HIDE DEF f
<1>4. /\ stack' \in Seq(Frame) /\ stack' # <<>> /\ Len(stack') = Len(stack)
      /\ Frames' = Frames /\ stack'[1] = f /\ Head(stack') = f
      /\ \A i \in 2 .. Len(stack) : stack'[i] = stack[i]
  BY <1>1, <1>3, Replaced
<1>5. \A i \in Frames : i = 1 \/ i \in 2 .. Len(stack)
  BY <1>1, Running DEF Frames
<1> HIDE DEF n, c
<1>6. TypeOK'
  BY <1>1, <1>2, <1>4 DEF TypeOK, tree
<1>7. Forest' /\ TreeIsConsistent'
  BY <1>1 DEF Forest, TreeIsConsistent, tree
<1>8. AssembliesMirrorTree'
  <2> SUFFICES ASSUME NEW m \in Nodes, NEW d \in Nodes
               PROVE  d \in parts'[m] <=> d \in children[m] /\ ~ (n = m /\ c = d)
    BY <1>1, <1>3, <1>4 DEF AssembliesMirrorTree, Runs, tree
  <2>1. d \in parts[m] <=> d \in children[m]
    BY <1>1 DEF AssembliesMirrorTree, Runs
  <2> QED BY <1>1, <1>2, <2>1 DEF TypeOK
<1>9. StackOK'
  <2>1. BuriedOK' /\ InitsOK' /\ PhasesOK'
    <3>1. BuriedOK'
      BY <1>1, <1>4 DEF StackOK, BuriedOK
    <3>2. \A i \in Frames : stack[i].op # "init" /\ stack'[i].op # "init"
      BY <1>1, <1>2, <1>3, <1>4, <1>5, Waiting
    <3>3. \A i \in Frames : stack'[i].op # "construct"
      BY <1>1, <1>3, <1>4, <1>5, Waiting
    <3> QED BY <1>4, <3>1, <3>2, <3>3 DEF InitsOK, PhasesOK
  <2>2. /\ \A m : Deleting(m)' <=> Deleting(m)
        /\ DeletesOnce'
        /\ \A i \in Frames' : stack'[i].op = "deleteChildren" =>
             /\ stack'[i].node \in alive \ actors
             /\ parent[stack'[i].node] = None \/ c = stack'[i].node
    <3>1. \A i \in Frames : i \in Nat /\ i - 0 = i /\ i + 0 = i
      BY DEF Frames
    <3>2. \A i \in Frames : stack'[i].op = "deleteChildren" =>
            i - 0 \in Frames /\ stack'[i] = stack[i - 0]
      BY <1>3, <1>4, <1>5, <3>1
    <3>3. \A i \in Frames : stack[i].op = "deleteChildren" =>
            i + 0 \in Frames' /\ stack'[i + 0] = stack[i]
      BY <1>1, <1>2, <1>4, <1>5, <3>1
    <3> QED BY <1>1, <1>4, <3>2, <3>3, SameDeletes DEF c
  <2>3. TopOK'
    BY <1>1, <1>2, <1>3, <1>4, <2>2 DEF TopOK, tree
  <2>4. DeletesOK'
    BY <1>1, <1>3, <1>4, <2>2 DEF DeletesOK, tree
  <2>5. ArrowsOK'
    BY <1>1, <2>2 DEF StackOK, ArrowsOK, tree
  <2> QED BY <2>1, <2>2, <2>3, <2>4, <2>5 DEF StackOK
<1> QED BY <1>6, <1>7, <1>8, <1>9 DEF IInv

\* The child leaves the list; an arrow does so only when it is being deleted.
LEMMA ForgetStep ==
  ASSUME IInv, Forget
  PROVE  IInv'
<1> DEFINE n == Head(stack).node
           c == Head(stack).other
<1>1. /\ TypeOK /\ TreeIsConsistent /\ Forest /\ StackOK /\ AssembliesMirrorTree
      /\ stack # <<>> /\ stack \in Seq(Frame) /\ Head(stack).op = "forget"
      /\ parent' = [parent EXCEPT ![c] = None]
      /\ children' = [children EXCEPT ![n] = @ \ {c}] /\ Continue(<<>>)
      /\ UNCHANGED <<alive, scene, lock, renderer, requested, call>>
  BY DEF IInv, TypeOK, Forget, Runs
<1>2. /\ n \in Nodes /\ c \in Nodes /\ parent[c] = n /\ c \in children[n]
      /\ c \in Arrows => Deleting(c)
  <2>1. /\ n \in Nodes /\ c \in Nodes /\ parent[c] = n
        /\ c \in Arrows => Deleting(c)
    BY <1>1, Running DEF StackOK, TopOK
  <2> QED BY <1>1, <2>1 DEF TreeIsConsistent
<1>3. /\ stack' \in Seq(Frame)
      /\ \A i \in Frames' : i + 1 \in 2 .. Len(stack) /\ stack'[i] = stack[i + 1]
      /\ stack' # <<>> => 1 \in Frames' /\ Head(stack') = stack'[1]
  BY <1>1, Popped
<1>4. \A i \in Frames' : stack'[i].op \in {"visit", "deleteChildren", "setColor", "unlock"}
  BY <1>1, <1>3, Waiting
<1>5. None \notin Nodes
  BY NodesAssumption
<1>6. /\ \A m : Deleting(m)' <=> Deleting(m)
      /\ DeletesOnce'
      /\ \A i \in Frames' : stack'[i].op = "deleteChildren" =>
           /\ stack'[i].node \in alive \ actors
           /\ parent[stack'[i].node] = None \/ c = stack'[i].node
  BY <1>1, PoppedDeletes
<1> HIDE DEF n, c
<1>7. TypeOK'
  BY <1>1, <1>2, <1>3 DEF TypeOK, scene
<1>8. Forest'
  <2> SUFFICES ASSUME NEW S \in (SUBSET Nodes) \ {{}}
               PROVE  \E m \in S : parent'[m] \notin S
    BY DEF Forest
  <2>1. PICK m \in S : parent[m] \notin S
    BY <1>1 DEF Forest
  <2>2. parent'[m] = parent[m] \/ parent'[m] = None
    BY <1>1 DEF TypeOK
  <2> QED BY <1>5, <2>1, <2>2
<1>9. TreeIsConsistent'
  BY <1>1, <1>2, <1>5 DEF TreeIsConsistent, TypeOK
<1>10. AssembliesMirrorTree'
  <2> SUFFICES ASSUME NEW m \in Nodes, NEW d \in Nodes
               PROVE  d \in parts[m] <=> d \in children'[m]
    BY <1>1, <1>3, <1>4 DEF AssembliesMirrorTree, Runs, scene
  <2>1. d \in parts[m] <=> d \in children[m] /\ ~ (n = m /\ c = d)
    BY <1>1 DEF AssembliesMirrorTree, Runs, n, c
  <2> QED BY <1>1, <1>2, <2>1 DEF TypeOK
<1>11. StackOK'
  <2>1. BuriedOK' /\ TopOK' /\ InitsOK' /\ PhasesOK'
    <3>1. \A i \in 2 .. Len(stack') : i \in Frames'
      BY <1>3 DEF Frames
    <3>2. BuriedOK' /\ InitsOK' /\ PhasesOK'
      BY <1>4, <3>1 DEF BuriedOK, InitsOK, PhasesOK
    <3>3. TopOK'
      BY <1>3, <1>4 DEF TopOK
    <3> QED BY <3>2, <3>3
  <2>2. DeletesOK'
    <3> SUFFICES ASSUME NEW i \in Frames', stack'[i].op = "deleteChildren"
                 PROVE  stack'[i].node \in alive \ actors /\ parent'[stack'[i].node] = None
      BY <1>1 DEF DeletesOK, scene
    <3>1. stack'[i].node \in Nodes
      BY <1>1, <1>6 DEF TypeOK
    <3> QED BY <1>1, <1>2, <1>6, <3>1 DEF TypeOK
  <2>3. ArrowsOK'
    <3> SUFFICES ASSUME NEW i \in Indicators, Arrow[i] \in alive
                 PROVE  parent'[Arrow[i]] = i \/ Deleting(Arrow[i])'
      BY <1>1 DEF ArrowsOK
    <3>1. Arrow[i] \in Nodes /\ Arrow[i] \in Arrows
      BY NodesAssumption DEF Nodes, Arrows
    <3>2. parent[Arrow[i]] = i \/ Deleting(Arrow[i])
      BY <1>1 DEF StackOK, ArrowsOK
    <3> QED BY <1>1, <1>2, <1>6, <3>1, <3>2 DEF TypeOK
  <2> QED BY <1>6, <2>1, <2>2, <2>3 DEF StackOK
<1> QED BY <1>7, <1>8, <1>9, <1>10, <1>11 DEF IInv

-----------------------------------------------------------------------------
(* Construction.                                                             *)

\* Nothing is being deleted then, and every arrow but the new one has its indicator.
LEMMA Constructing ==
  ASSUME IInv, stack # <<>>, Head(stack).op \in {"construct", "init"}
  PROVE  /\ \A i \in Frames : stack[i].op \notin {"delete", "deleteChildren"}
         /\ \A i \in 2 .. Len(stack) : i \in Frames /\ stack[i].op \in {"visit", "setColor", "unlock"}
         /\ \A i \in Indicators : Arrow[i] \in alive => parent[Arrow[i]] = i
         /\ \A n, c \in Nodes : c \in parts[n] <=> c \in children[n]
<1>1. /\ StackOK /\ AssembliesMirrorTree /\ stack \in Seq(Frame)
      /\ 1 \in Frames /\ Head(stack) = stack[1]
  BY Running DEF IInv, TypeOK
<1>2. \A i \in Frames : stack[i].op \notin {"delete", "deleteChildren"}
  BY <1>1 DEF StackOK, PhasesOK
<1>3. \A i \in 2 .. Len(stack) : i \in Frames /\ stack[i].op \in {"visit", "setColor", "unlock"}
  BY <1>2, Waiting
<1>4. \A i \in Indicators : Arrow[i] \in alive => parent[Arrow[i]] = i
  BY <1>1, <1>2 DEF StackOK, ArrowsOK, Deleting
<1>5. \A n, c \in Nodes : c \in parts[n] <=> c \in children[n]
  BY <1>1 DEF AssembliesMirrorTree, Runs
<1> QED BY <1>2, <1>3, <1>4, <1>5

\* A node that did not exist is in no list, so that it closes no cycle.
LEMMA ConstructStep ==
  ASSUME IInv, Construct
  PROVE  IInv'
<1> DEFINE n == Head(stack).node
           p == Head(stack).other
           link == On("link", p, n)
           init == Of("init", n)
<1>1. /\ TypeOK /\ TreeIsConsistent /\ Forest /\ StackOK
      /\ stack # <<>> /\ stack \in Seq(Frame) /\ Head(stack).op = "construct"
      /\ alive' = alive \cup {n} /\ parent' = [parent EXCEPT ![n] = p]
      /\ children' = [m \in Nodes |-> IF m = n THEN {}
                                      ELSE IF m = p THEN children[m] \cup {n}
                                      ELSE children[m]]
      /\ visible' = [visible EXCEPT ![n] = TRUE] /\ parts' = [parts EXCEPT ![n] = {}]
      /\ actors' = actors \ {n}
      /\ Continue((IF p # None THEN <<link>> ELSE <<>>) \o <<init>>)
      /\ UNCHANGED <<shown, lock, renderer, requested, call>>
  BY DEF IInv, TypeOK, Construct, Runs
<1>2. /\ n \in Nodes /\ n \notin alive /\ p \in alive \cup {None} /\ p # n
      /\ n \in Arrows => p \in Indicators /\ n = Arrow[p]
      /\ parent[n] = None /\ children[n] = {} /\ None \notin Nodes
  <2>1. /\ n \in Nodes /\ n \notin alive /\ p \in alive \cup {None}
        /\ n \in Arrows => p \in Indicators /\ n = Arrow[p]
    BY <1>1, Running DEF StackOK, TopOK
  <2> QED BY <1>1, <2>1, NodesAssumption DEF TreeIsConsistent
<1>3. /\ init \in Frame /\ init.op = "init" /\ init.node = n
      /\ p \in Nodes =>
           link \in Frame /\ link.op = "link" /\ link.node = p /\ link.other = n
  BY <1>2, CallFrames DEF Ops
<1>4. p # None => p \in Nodes
  BY <1>1, <1>2 DEF TypeOK
<1> HIDE DEF link, init
\* The new frames.
<1>5. /\ stack' \in Seq(Frame) /\ stack' # <<>>
      /\ \A i \in Frames' :
           \/ stack'[i] = init /\ (i = 1 \/ (i = 2 /\ p # None))
           \/ stack'[i] = link /\ i = 1 /\ p # None
           \/ stack'[i].op \in {"visit", "setColor", "unlock"}
      /\ Head(stack') = IF p # None THEN link ELSE init
  <2>1. \A i \in 2 .. Len(stack) : stack[i].op \in {"visit", "setColor", "unlock"}
    BY <1>1, Constructing
  <2>2. CASE p = None
    <3>1. Continue(<<init>>)
      BY <1>1, <1>3, <2>2, Concatenated
    <3>2. /\ stack' \in Seq(Frame) /\ stack' # <<>> /\ Frames' = Frames
          /\ stack'[1] = init /\ Head(stack') = init
          /\ \A i \in 2 .. Len(stack) : stack'[i] = stack[i]
      BY <1>1, <1>3, <3>1, Replaced
    <3>3. \A i \in Frames : i = 1 \/ i \in 2 .. Len(stack)
      BY <1>1, Running DEF Frames
    <3> QED BY <2>1, <2>2, <3>2, <3>3
  <2>3. CASE p # None
    <3>1. Continue(<<link, init>>)
      BY <1>1, <1>3, <1>4, <2>3, Concatenated
    <3>2. /\ stack' \in Seq(Frame) /\ stack' # <<>> /\ Frames' = 1 .. Len(stack) + 1
          /\ stack'[1] = link /\ Head(stack') = link /\ stack'[2] = init
          /\ \A i \in 3 .. Len(stack) + 1 : i - 1 \in 2 .. Len(stack) /\ stack'[i] = stack[i - 1]
          /\ Len(stack) \in Nat
      BY <1>1, <1>3, <1>4, <2>3, <3>1, Grown
    <3>3. \A i \in Frames' : i = 1 \/ i = 2 \/ i \in 3 .. Len(stack) + 1
      BY <3>2
    <3> QED BY <2>1, <2>3, <3>2, <3>3
  <2> QED BY <2>2, <2>3
<1>6. /\ \A i \in Indicators : Arrow[i] \in alive => parent[Arrow[i]] = i
      /\ \A m, d \in Nodes : d \in parts[m] <=> d \in children[m]
  BY <1>1, Constructing
<1> HIDE DEF n, p
<1>7. TypeOK'
  BY <1>1, <1>2, <1>5 DEF TypeOK
<1>8. Forest'
  <2> SUFFICES ASSUME NEW S \in (SUBSET Nodes) \ {{}}, \A m \in S : parent'[m] \in S
               PROVE  FALSE
    BY DEF Forest
  <2>1. \A m \in S : m # n => parent[m] \in S \ {n}
    BY <1>1, <1>2 DEF TypeOK
  <2>2. PICK m \in S : m # n
    BY <1>1, <1>2 DEF TypeOK
  <2>3. S \ {n} \in (SUBSET Nodes) \ {{}}
    BY <2>2
  <2> QED BY <1>1, <2>1, <2>3 DEF Forest
<1>9. TreeIsConsistent'
  <2>1. ASSUME NEW m \in Nodes, NEW d \in Nodes
        PROVE  d \in children'[m] <=> parent'[d] = m
    BY <1>1, <1>2, <2>1 DEF TreeIsConsistent, TypeOK
  <2>2. ASSUME NEW m \in Nodes \ alive'
        PROVE  parent'[m] = None /\ children'[m] = {}
    BY <1>1, <1>2, <2>2 DEF TreeIsConsistent, TypeOK
  <2> QED BY <2>1, <2>2 DEF TreeIsConsistent
<1>10. AssembliesMirrorTree'
  <2> SUFFICES ASSUME NEW m \in Nodes, NEW d \in Nodes
               PROVE  d \in parts'[m] <=>
                        d \in children'[m] /\ ~ (p # None /\ m = p /\ d = n)
    BY <1>3, <1>4, <1>5 DEF AssembliesMirrorTree, Runs
  <2>1. n \notin children[m]
    BY <1>1, <1>2 DEF TypeOK
  <2> QED BY <1>1, <1>2, <1>6, <2>1 DEF TypeOK
<1>11. StackOK'
  <2>1. BuriedOK'
    <3> SUFFICES ASSUME NEW i \in 2 .. Len(stack')
                 PROVE  stack'[i].op \in {"init", "visit", "deleteChildren", "setColor", "unlock"}
      BY DEF BuriedOK
    <3>1. i \in Frames' /\ i # 1
      BY DEF Frames
    <3> QED BY <1>3, <1>5, <3>1
  <2>2. TopOK'
    <3>1. parent'[n] = p
      BY <1>1, <1>2 DEF TypeOK
    <3> QED BY <1>2, <1>3, <1>4, <1>5, <3>1 DEF TopOK
  <2>3. InitsOK'
    <3> SUFFICES ASSUME NEW i \in Frames', stack'[i].op = "init"
                 PROVE  /\ i = 1 \/ (i = 2 /\ Head(stack').op = "link")
                        /\ stack'[i].node \in alive' /\ children'[stack'[i].node] = {}
      BY DEF InitsOK
    <3>1. stack'[i] = init /\ (i = 1 \/ (i = 2 /\ p # None))
      BY <1>3, <1>4, <1>5
    <3> QED BY <1>1, <1>2, <1>3, <1>4, <1>5, <3>1 DEF TypeOK
  <2>4. \A i \in Frames' : stack'[i].op \notin {"delete", "deleteChildren"}
    BY <1>3, <1>4, <1>5
  <2>5. PhasesOK' /\ DeletesOK' /\ DeletesOnce'
    BY <2>4 DEF PhasesOK, DeletesOK, DeletesOnce
  <2>6. ArrowsOK'
    <3> SUFFICES ASSUME NEW i \in Indicators, Arrow[i] \in alive'
                 PROVE  parent'[Arrow[i]] = i
      BY DEF ArrowsOK
    <3>1. Arrow[i] \in Nodes /\ Arrow[i] \in Arrows
      BY NodesAssumption DEF Nodes, Arrows
    <3>2. CASE Arrow[i] = n
      BY <1>1, <1>2, <3>1, <3>2, NodesAssumption DEF TypeOK
    <3>3. CASE Arrow[i] # n
      BY <1>1, <1>2, <1>6, <3>1, <3>3 DEF TypeOK
    <3> QED BY <3>2, <3>3
  <2> QED BY <2>1, <2>2, <2>3, <2>5, <2>6 DEF StackOK
<1> QED BY <1>7, <1>8, <1>9, <1>10, <1>11 DEF IInv

\* The arrow does not exist yet: it would be a child of the new indicator.
LEMMA InitNodeStep ==
  ASSUME IInv, InitNode
  PROVE  IInv'
<1> DEFINE n == Head(stack).node
           f == On("construct", Arrow[n], n)
           g == Of("setColor", Arrow[n])
<1>1. /\ TypeOK /\ TreeIsConsistent /\ StackOK
      /\ stack # <<>> /\ stack \in Seq(Frame) /\ Head(stack).op = "init"
      /\ actors' = (IF n \in Shapes THEN actors \cup {n} ELSE actors)
      /\ shown' = [shown EXCEPT ![n] = TRUE]
      /\ Continue(IF n \in Indicators THEN <<f, g>> ELSE <<>>)
      /\ UNCHANGED <<tree, parts, visible, lock, renderer, requested, call>>
  BY DEF IInv, TypeOK, InitNode, Runs
<1>2. n \in Nodes /\ n \in alive /\ children[n] = {}
  BY <1>1, Running DEF StackOK, InitsOK
<1>3. OtherTypes'
  BY <1>1, <1>2 DEF TypeOK, OtherTypes, tree
<1>4. CASE n \notin Indicators
  <2>1. Continue(<<>>)
    BY <1>1, <1>4
  <2> QED BY <1>1, <1>3, <2>1, QuietStep
<1>5. CASE n \in Indicators
  <2>1. /\ Arrow[n] \in Nodes /\ Arrow[n] \in Shapes /\ n \notin Shapes
    BY <1>5, NodesAssumption DEF Nodes
  <2>2. /\ f \in Frame /\ f.op = "construct" /\ f.node = Arrow[n] /\ f.other = n
        /\ g \in Frame /\ g.op = "setColor"
    BY <1>2, <2>1, CallFrames DEF Ops
  <2>3. Continue(<<f, g>>)
    BY <1>1, <1>5
  <2> HIDE DEF f, g
  <2>4. /\ stack' \in Seq(Frame) /\ stack' # <<>> /\ Frames' = 1 .. Len(stack) + 1
        /\ Len(stack) \in Nat \ {0} /\ Len(stack') = Len(stack) + 1
        /\ stack'[1] = f /\ Head(stack') = f /\ stack'[2] = g
        /\ \A i \in 3 .. Len(stack) + 1 : i - 1 \in 2 .. Len(stack) /\ stack'[i] = stack[i - 1]
    BY <1>1, <2>2, <2>3, Grown
  <2>5. /\ \A i \in 2 .. Len(stack) : stack[i].op \in {"visit", "setColor", "unlock"}
        /\ \A i \in Indicators : Arrow[i] \in alive => parent[Arrow[i]] = i
    BY <1>1, Constructing
  <2>6. \A i \in Frames' :
          (i = 1 /\ stack'[i] = f) \/ stack'[i].op \in {"visit", "setColor", "unlock"}
    <3>1. \A i \in Frames' : i = 1 \/ i = 2 \/ i \in 3 .. Len(stack) + 1
      BY <2>4
    <3> QED BY <2>2, <2>4, <2>5, <3>1
  <2>7. Arrow[n] \notin alive
    BY <1>1, <1>2, <1>5, <2>1, <2>5 DEF TreeIsConsistent
  <2>8. StackOK'
    <3>1. BuriedOK'
      <4> SUFFICES ASSUME NEW i \in 2 .. Len(stack')
                   PROVE  stack'[i].op \in {"init", "visit", "deleteChildren", "setColor", "unlock"}
        BY DEF BuriedOK
      <4>1. i \in Frames' /\ i # 1
        BY DEF Frames
      <4> QED BY <2>6, <4>1
    <3>2. \A i \in Frames' : stack'[i].op \notin {"init", "delete", "deleteChildren"}
      BY <2>2, <2>6
    <3>3. InitsOK' /\ PhasesOK' /\ DeletesOK' /\ DeletesOnce'
      BY <3>2 DEF InitsOK, PhasesOK, DeletesOK, DeletesOnce
    <3>4. TopOK'
      BY <1>1, <1>2, <1>5, <2>2, <2>4, <2>7 DEF TopOK, tree
    <3>5. ArrowsOK'
      BY <1>1, <2>5 DEF ArrowsOK, tree
    <3> QED BY <3>1, <3>3, <3>4, <3>5 DEF StackOK
  <2>9. TypeOK'
    BY <1>1, <1>3, <2>4 DEF TypeOK, OtherTypes, tree
  <2> QED BY <1>1, <2>2, <2>4, <2>8, <2>9, TreeUntouched
<1> QED BY <1>4, <1>5

-----------------------------------------------------------------------------
(* Destruction.                                                              *)

\* While a node is being deleted none is constructed.
LEMMA Destructing ==
  ASSUME IInv, stack # <<>>, Head(stack).op \in {"delete", "deleteChildren"}
  PROVE  /\ \A i \in Frames : stack[i].op \notin {"construct", "init"}
         /\ \A i \in 2 .. Len(stack) :
              /\ i \in Frames /\ stack[i].op \in {"visit", "deleteChildren", "setColor", "unlock"}
              /\ stack[i].op = "deleteChildren" =>
                   stack[i].node \in alive \ actors /\ parent[stack[i].node] = None
<1>1. /\ StackOK /\ stack \in Seq(Frame) /\ 1 \in Frames /\ Head(stack) = stack[1]
  BY Running DEF IInv, TypeOK
<1>2. \A i \in Frames : stack[i].op \notin {"construct", "init"}
  BY <1>1 DEF StackOK, PhasesOK
<1>3. \A i \in 2 .. Len(stack) :
        /\ i \in Frames /\ stack[i].op \in {"visit", "deleteChildren", "setColor", "unlock"}
        /\ stack[i].op = "deleteChildren" =>
             stack[i].node \in alive \ actors /\ parent[stack[i].node] = None
  BY Waiting
<1> QED BY <1>2, <1>3

\* The child still has its parent, so it is not one whose children are being deleted.
LEMMA DestructStep ==
  ASSUME IInv, Destruct
  PROVE  IInv'
<1> DEFINE n == Head(stack).node
           p == parent[n]
           f == On("unlink", p, n)
           g == Of("deleteChildren", n)
<1>1. /\ TypeOK /\ StackOK
      /\ stack # <<>> /\ stack \in Seq(Frame) /\ Head(stack).op = "delete"
      /\ actors' = actors \ {n}
      /\ Continue((IF p # None THEN <<f>> ELSE <<>>) \o <<g>>)
      /\ UNCHANGED <<tree, parts, visible, shown, lock, renderer, requested, call>>
  BY DEF IInv, TypeOK, Destruct, Runs
<1>2. /\ n \in Nodes /\ n \in alive /\ (Len(stack) = 1 \/ p # None)
      /\ p # None => p \in Nodes
      /\ Len(stack) \in Nat \ {0} /\ Head(stack) = stack[1] /\ 1 \in Frames
  <2>1. /\ n \in Nodes /\ n \in alive /\ (Len(stack) = 1 \/ p # None)
        /\ Len(stack) \in Nat \ {0} /\ Head(stack) = stack[1] /\ 1 \in Frames
    BY <1>1, Running DEF StackOK, TopOK
  <2> QED BY <1>1, <2>1 DEF TypeOK
<1>3. /\ g \in Frame /\ g.op = "deleteChildren" /\ g.node = n
      /\ p # None => f \in Frame /\ f.op = "unlink" /\ f.node = p /\ f.other = n
  BY <1>2, CallFrames DEF Ops
<1> HIDE DEF f, g
\* Where the frames are: d of them are new besides g.
<1>4. PICK d \in {0, 1} :
        /\ d = 1 <=> p # None
        /\ stack' \in Seq(Frame) /\ stack' # <<>> /\ Len(stack') = Len(stack) + d
        /\ 1 + d \in Frames' /\ stack'[1 + d] = g
        /\ Head(stack') = (IF p # None THEN f ELSE g)
        /\ \A i \in Frames' :
             \/ i = 1 + d
             \/ i = 1 /\ d = 1 /\ stack'[i] = f
             \/ i - d \in 2 .. Len(stack) /\ stack'[i] = stack[i - d]
        /\ \A i \in 2 .. Len(stack) : i + d \in Frames' /\ stack'[i + d] = stack[i]
  <2>1. CASE p = None
    <3>1. Continue(<<g>>)
      BY <1>1, <1>3, <2>1, Concatenated
    <3>2. /\ stack' \in Seq(Frame) /\ stack' # <<>> /\ Len(stack') = Len(stack)
          /\ Frames' = Frames /\ stack'[1] = g /\ Head(stack') = g
          /\ \A i \in 2 .. Len(stack) : stack'[i] = stack[i] /\ i \in Frames
      BY <1>1, <1>3, <3>1, Replaced
    <3>3. \A i \in Frames : i \in Nat /\ (i = 1 \/ i \in 2 .. Len(stack)) /\ i - 0 = i /\ i + 0 = i
      BY <1>2 DEF Frames
    <3>4. /\ 0 \in {0, 1} /\ (0 = 1 <=> p # None) /\ Len(stack') = Len(stack) + 0
          /\ 1 + 0 \in Frames' /\ stack'[1 + 0] = g
      BY <1>2, <2>1, <3>2
    <3>5. \A i \in Frames' :
             \/ i = 1 + 0
             \/ i - 0 \in 2 .. Len(stack) /\ stack'[i] = stack[i - 0]
      BY <3>2, <3>3
    <3>6. \A i \in 2 .. Len(stack) : i + 0 \in Frames' /\ stack'[i + 0] = stack[i]
      BY <3>2, <3>3
    <3> HIDE DEF Frames
    <3> QED BY <2>1, <3>2, <3>4, <3>5, <3>6
  <2>2. CASE p # None
    <3>1. Continue(<<f, g>>)
      BY <1>1, <1>3, <2>2, Concatenated
    <3>2. /\ stack' \in Seq(Frame) /\ stack' # <<>> /\ Len(stack') = Len(stack) + 1
          /\ Frames' = 1 .. Len(stack) + 1 /\ 2 \in Frames'
          /\ stack'[1] = f /\ Head(stack') = f /\ stack'[2] = g
          /\ \A i \in 3 .. Len(stack) + 1 : i - 1 \in 2 .. Len(stack) /\ stack'[i] = stack[i - 1]
          /\ \A i \in 2 .. Len(stack) : i + 1 \in Frames' /\ stack'[i + 1] = stack[i]
      BY <1>1, <1>3, <2>2, <3>1, Grown
    <3>3. \A i \in Frames' : i = 1 \/ i = 2 \/ i \in 3 .. Len(stack) + 1
      BY <1>2, <3>2
    <3>4. 1 \in {0, 1} /\ 1 + 1 = 2
      OBVIOUS
    <3>5. \A i \in Frames' :
             \/ i = 1 + 1
             \/ i = 1 /\ stack'[i] = f
             \/ i - 1 \in 2 .. Len(stack) /\ stack'[i] = stack[i - 1]
      BY <3>2, <3>3
    <3> HIDE DEF Frames
    <3> QED BY <2>2, <3>2, <3>4, <3>5
  <2> QED BY <2>1, <2>2
<1>5. /\ \A i \in Frames' : i \in Nat
      /\ \A i \in Frames : i = 1 \/ i \in 2 .. Len(stack)
      /\ \A i \in 2 .. Len(stack) : i # 1
  BY <1>2 DEF Frames
<1>6. \A i \in 2 .. Len(stack) :
        /\ i \in Frames /\ stack[i].op \in {"visit", "deleteChildren", "setColor", "unlock"}
        /\ stack[i].op = "deleteChildren" =>
             stack[i].node \in alive \ actors /\ parent[stack[i].node] = None
             /\ stack[i].node # n
  <2>1. \A i \in 2 .. Len(stack) :
        /\ i \in Frames /\ stack[i].op \in {"visit", "deleteChildren", "setColor", "unlock"}
        /\ stack[i].op = "deleteChildren" =>
             stack[i].node \in alive \ actors /\ parent[stack[i].node] = None
    BY <1>1, Destructing
  <2>2. ASSUME NEW i \in 2 .. Len(stack)
        PROVE  p # None
    <3>1. \A k \in Nat : i \in 2 .. k => k # 1
      OBVIOUS
    <3> QED BY <1>2, <2>2, <3>1
  <2> QED BY <2>1, <2>2
<1>7. TypeOK'
  BY <1>1, <1>4 DEF TypeOK, tree
<1>8. StackOK'
  <2> HIDE DEF n, p, Frames
  <2>1. \A i \in Frames' : i # 1 => 
          stack'[i].op \in {"visit", "deleteChildren", "setColor", "unlock"}
    BY <1>3, <1>4, <1>6
  <2>2. BuriedOK'
    <3>1. \A i \in 2 .. Len(stack') : i \in Frames' /\ i # 1
      BY DEF Frames
    <3> QED BY <2>1, <3>1 DEF BuriedOK
  <2>3. \A i \in Frames' : stack'[i].op \notin {"construct", "init"}
    BY <1>3, <1>4, <1>6
  <2>4. InitsOK' /\ PhasesOK'
    BY <2>3 DEF InitsOK, PhasesOK
  <2>5. ASSUME NEW m, m = n
        PROVE  Deleting(m)'
    BY <1>3, <1>4, <2>5 DEF Deleting
  <2>6. TopOK'
    BY <1>1, <1>2, <1>3, <1>4, <2>5 DEF TopOK, tree, p
  <2>7. DeletesOK'
    <3> SUFFICES ASSUME NEW i \in Frames', stack'[i].op = "deleteChildren"
                 PROVE  /\ stack'[i].node \in alive \ actors'
                        /\ \/ parent[stack'[i].node] = None
                           \/ Head(stack').op = "unlink" /\ Head(stack').other = stack'[i].node
      BY <1>1 DEF DeletesOK, tree
    <3>1. CASE i = 1 + d
      BY <1>1, <1>2, <1>3, <1>4, <3>1 DEF p
    <3>2. CASE i - d \in 2 .. Len(stack) /\ stack'[i] = stack[i - d]
      BY <1>1, <1>6, <3>2
    <3> QED BY <1>3, <1>4, <3>1, <3>2
  <2>8. DeletesOnce'
    <3> SUFFICES ASSUME NEW i \in Frames', NEW j \in Frames', stack'[i].op = "deleteChildren",
                        stack'[j].op = "deleteChildren", stack'[i].node = stack'[j].node
                 PROVE  i = j
      BY DEF DeletesOnce
    <3>1. /\ i = 1 + d \/ (i - d \in 2 .. Len(stack) /\ stack'[i] = stack[i - d])
          /\ j = 1 + d \/ (j - d \in 2 .. Len(stack) /\ stack'[j] = stack[j - d])
      BY <1>3, <1>4
    <3>2. CASE i = 1 + d \/ j = 1 + d
      BY <1>3, <1>4, <1>6, <3>1, <3>2
    <3>3. CASE i # 1 + d /\ j # 1 + d
      <4>1. i - d = j - d
        BY <1>1, <1>6, <3>1, <3>3 DEF StackOK, DeletesOnce
      <4> QED BY <1>5, <4>1
    <3> QED BY <3>2, <3>3
  <2>9. ArrowsOK'
    <3>1. ASSUME NEW m, Deleting(m)
          PROVE  Deleting(m)'
      <4>1. PICK i \in Frames : stack[i].op = "deleteChildren" /\ stack[i].node = m
        BY <3>1 DEF Deleting
      <4>2. i \in 2 .. Len(stack)
        BY <1>1, <1>2, <1>5, <4>1
      <4> QED BY <1>4, <4>1, <4>2 DEF Deleting
    <3> QED BY <1>1, <3>1 DEF StackOK, ArrowsOK, tree
  <2> QED BY <2>2, <2>4, <2>6, <2>7, <2>8, <2>9 DEF StackOK
<1> QED BY <1>1, <1>3, <1>4, <1>7, <1>8, TreeUntouched

\* The child has a parent, the node whose children are deleted waits.
LEMMA DeleteChildStep ==
  ASSUME IInv, DeleteChild
  PROVE  IInv'
<1> DEFINE n == Head(stack).node
           g == Head(stack)
<1>1. /\ TypeOK /\ StackOK /\ TreeIsConsistent
      /\ stack # <<>> /\ stack \in Seq(Frame) /\ Head(stack).op = "deleteChildren"
      /\ UNCHANGED <<tree, scene, lock, renderer, requested, call>>
  BY DEF IInv, TypeOK, DeleteChild, Runs
<1>2. PICK c \in children[n] : Continue(<<Of("delete", c), g>>)
  BY DEF DeleteChild
<1> DEFINE f == Of("delete", c)
<1>3. /\ n \in Nodes /\ c \in Nodes /\ c \in alive /\ parent[c] # None
      /\ g \in Frame /\ g = stack[1] /\ 1 \in Frames /\ Len(stack) \in Nat \ {0}
  <2>1. /\ n \in Nodes /\ g \in Frame /\ g = stack[1] /\ 1 \in Frames
        /\ Len(stack) \in Nat \ {0}
    BY <1>1, Running
  <2>2. c \in Nodes /\ c \in alive
    BY <1>1, <1>2, <2>1 DEF TypeOK
  <2> QED BY <1>1, <1>2, <2>1, <2>2, NodesAssumption DEF TreeIsConsistent
<1>4. f \in Frame /\ f.op = "delete" /\ f.node = c
  BY <1>3, CallFrames DEF Ops
<1>5. Continue(<<f, g>>)
  BY <1>2
<1> HIDE DEF f, g
<1>6. /\ stack' \in Seq(Frame) /\ stack' # <<>> /\ Len(stack') = Len(stack) + 1
      /\ Frames' = 1 .. Len(stack) + 1 /\ 2 \in Frames'
      /\ stack'[1] = f /\ Head(stack') = f /\ stack'[2] = g
      /\ \A i \in 3 .. Len(stack) + 1 : i - 1 \in 2 .. Len(stack) /\ stack'[i] = stack[i - 1]
      /\ \A i \in 2 .. Len(stack) : i + 1 \in Frames' /\ stack'[i + 1] = stack[i]
  BY <1>1, <1>3, <1>4, <1>5, Grown
<1>7. /\ \A i \in Frames' : i = 1 \/ (i - 1 \in Frames /\ stack'[i] = stack[i - 1])
      /\ \A i \in Frames : i + 1 \in Frames' /\ stack'[i + 1] = stack[i]
  <2>1. \A i \in Frames' : i = 1 \/ i = 2 \/ i \in 3 .. Len(stack) + 1
    BY <1>3, <1>6
  <2>2. \A i \in Frames : i = 1 \/ i \in 2 .. Len(stack)
    BY <1>3 DEF Frames
  <2>3. \A i \in 2 .. Len(stack) : i \in Frames
    BY DEF Frames
  <2>4. 2 - 1 = 1 /\ 1 + 1 = 2
    OBVIOUS
  <2> QED BY <1>3, <1>6, <2>1, <2>2, <2>3, <2>4
<1>8. /\ \A i \in Frames : stack[i].op \in {"visit", "deleteChildren", "setColor", "unlock"}
      /\ \A i \in Frames' : i = 1 \/ stack'[i].op \in {"visit", "deleteChildren", "setColor", "unlock"}
  <2>1. \A i \in Frames : i = 1 \/ i \in 2 .. Len(stack)
    BY <1>3 DEF Frames
  <2>2. \A i \in Frames : stack[i].op \in {"visit", "deleteChildren", "setColor", "unlock"}
    BY <1>1, <1>3, <2>1, Destructing DEF g
  <2> QED BY <1>7, <2>2
<1>9. /\ \A m : Deleting(m)' <=> Deleting(m)
      /\ DeletesOnce'
      /\ \A i \in Frames' : stack'[i].op = "deleteChildren" =>
           stack'[i].node \in alive \ actors /\ parent[stack'[i].node] = None
  <2>1. \A i \in Frames' : stack'[i].op = "deleteChildren" =>
          i - 1 \in Frames /\ stack'[i] = stack[i - 1]
    BY <1>4, <1>6, <1>7
  <2>2. \A i \in Frames : stack[i].op = "deleteChildren" =>
          i + 1 \in Frames' /\ stack'[i + 1] = stack[i]
    BY <1>7
  <2> QED BY <1>1, <2>1, <2>2, SameDeletes
<1>10. TypeOK'
  BY <1>1, <1>6 DEF TypeOK, tree, scene
<1>11. StackOK'
  <2>1. BuriedOK'
    <3>1. \A i \in 2 .. Len(stack') : i \in Frames' /\ i # 1
      BY DEF Frames
    <3> QED BY <1>8, <3>1 DEF BuriedOK
  <2>2. InitsOK' /\ PhasesOK'
    <3>1. \A i \in Frames' : stack'[i].op \notin {"construct", "init"}
      BY <1>4, <1>6, <1>8
    <3> QED BY <3>1 DEF InitsOK, PhasesOK
  <2>3. TopOK'
    BY <1>1, <1>3, <1>4, <1>6 DEF TopOK, tree
  <2>4. DeletesOK'
    BY <1>1, <1>9 DEF DeletesOK, tree, scene
  <2>5. ArrowsOK'
    BY <1>1, <1>9 DEF StackOK, ArrowsOK, tree
  <2> QED BY <1>9, <2>1, <2>2, <2>3, <2>4, <2>5 DEF StackOK
<1> QED BY <1>1, <1>4, <1>6, <1>10, <1>11, TreeUntouched DEF scene

\* Nothing leads to the freed node any more: it has left its parent, its children
\* are gone, and no other frame is its destructor.
LEMMA FreeStep ==
  ASSUME IInv, Free
  PROVE  IInv'
<1> DEFINE n == Head(stack).node
<1>1. /\ TypeOK /\ StackOK /\ TreeIsConsistent /\ Forest /\ AssembliesMirrorTree
      /\ stack # <<>> /\ stack \in Seq(Frame) /\ Head(stack).op = "deleteChildren"
      /\ children[n] = {} /\ alive' = alive \ {n}
      /\ visible' = [visible EXCEPT ![n] = TRUE] /\ shown' = [shown EXCEPT ![n] = TRUE]
      /\ Continue(<<>>)
      /\ UNCHANGED <<parent, children, parts, actors, lock, renderer, requested, call>>
  BY DEF IInv, TypeOK, Free, Runs
<1>2. /\ n \in Nodes /\ n \in alive \ actors /\ parent[n] = None /\ None \notin Nodes
      /\ Head(stack) = stack[1] /\ 1 \in Frames
  BY <1>1, Running, NodesAssumption DEF StackOK, DeletesOK
<1>3. /\ stack' \in Seq(Frame)
      /\ \A i \in Frames' : i + 1 \in 2 .. Len(stack) /\ stack'[i] = stack[i + 1]
      /\ \A i \in 2 .. Len(stack) : i - 1 \in Frames' /\ stack'[i - 1] = stack[i]
      /\ stack' # <<>> => 1 \in Frames' /\ Head(stack') = stack'[1]
  BY <1>1, Popped
<1>4. \A i \in 2 .. Len(stack) :
        /\ i \in Frames /\ stack[i].op \in {"visit", "deleteChildren", "setColor", "unlock"}
        /\ stack[i].op = "deleteChildren" =>
             stack[i].node \in alive \ actors /\ parent[stack[i].node] = None
             /\ stack[i].node # n
  <2>1. \A i \in 2 .. Len(stack) :
        /\ i \in Frames /\ stack[i].op \in {"visit", "deleteChildren", "setColor", "unlock"}
        /\ stack[i].op = "deleteChildren" =>
             stack[i].node \in alive \ actors /\ parent[stack[i].node] = None
    BY <1>1, Destructing
  <2>2. \A i \in 2 .. Len(stack) : i # 1
    OBVIOUS
  <2> QED BY <1>1, <1>2, <2>1, <2>2 DEF StackOK, DeletesOnce
<1> HIDE DEF n
<1>5. \A m, d \in Nodes : d \in children[m] => d # n
  BY <1>1, <1>2 DEF TreeIsConsistent
<1>6. \A m, d \in Nodes : d \in parts[m] <=> d \in children[m]
  BY <1>1 DEF AssembliesMirrorTree, Runs
<1>7. TypeOK'
  <2>1. \A m \in Nodes : parent[m] # n
    BY <1>1, <1>2 DEF TreeIsConsistent
  <2>2. parent' \in [Nodes -> alive' \cup {None}]
    BY <1>1, <2>1 DEF TypeOK
  <2>3. children' \in [Nodes -> SUBSET alive'] /\ parts' \in [Nodes -> SUBSET alive']
    BY <1>1, <1>5, <1>6 DEF TypeOK
  <2>4. alive' \subseteq Nodes /\ actors' \subseteq Shapes \cap alive'
    BY <1>1, <1>2 DEF TypeOK
  <2> QED BY <1>1, <1>3, <2>2, <2>3, <2>4 DEF TypeOK
<1>8. Forest' /\ TreeIsConsistent'
  <2>1. Forest'
    BY <1>1 DEF Forest
  <2>2. TreeIsConsistent'
    BY <1>1, <1>2 DEF TreeIsConsistent
  <2> QED BY <2>1, <2>2
<1>9. \A i \in Frames' : stack'[i].op \in {"visit", "deleteChildren", "setColor", "unlock"}
  BY <1>3, <1>4
<1>10. AssembliesMirrorTree'
  <2>1. \A op \in {"link", "forget"} : ~ Runs(op)'
    BY <1>3, <1>9 DEF Runs
  <2>2. parts' = parts /\ children' = children
    BY <1>1
  <2> QED BY <1>6, <2>1, <2>2 DEF AssembliesMirrorTree
<1>11. StackOK'
  <2>1. BuriedOK' /\ TopOK' /\ InitsOK' /\ PhasesOK'
    <3>1. \A i \in 2 .. Len(stack') : i \in Frames'
      BY DEF Frames
    <3>2. BuriedOK' /\ InitsOK' /\ PhasesOK'
      BY <1>9, <3>1 DEF BuriedOK, InitsOK, PhasesOK
    <3>3. TopOK'
      BY <1>3, <1>9 DEF TopOK
    <3> QED BY <3>2, <3>3
  <2>2. DeletesOK'
    <3> SUFFICES ASSUME NEW i \in Frames', stack'[i].op = "deleteChildren"
                 PROVE  stack'[i].node \in alive' \ actors' /\ parent'[stack'[i].node] = None
      BY DEF DeletesOK
    <3>1. i + 1 \in 2 .. Len(stack) /\ stack'[i] = stack[i + 1]
      BY <1>3
    <3> QED BY <1>1, <1>4, <3>1
  <2>3. DeletesOnce'
    <3> SUFFICES ASSUME NEW i \in Frames', NEW j \in Frames', stack'[i].op = "deleteChildren",
                        stack'[j].op = "deleteChildren", stack'[i].node = stack'[j].node
                 PROVE  i = j
      BY DEF DeletesOnce
    <3>1. /\ i + 1 \in Frames /\ stack'[i] = stack[i + 1] /\ i \in Nat
          /\ j + 1 \in Frames /\ stack'[j] = stack[j + 1] /\ j \in Nat
      BY <1>3, <1>4 DEF Frames
    <3>2. DeletesOnce
      BY <1>1 DEF StackOK
    <3>3. i + 1 = j + 1
      BY <3>1, <3>2 DEF DeletesOnce
    <3> QED BY <3>1, <3>3
  <2>4. ArrowsOK'
    <3> SUFFICES ASSUME NEW i \in Indicators, Arrow[i] \in alive'
                 PROVE  parent[Arrow[i]] = i \/ Deleting(Arrow[i])'
      BY <1>1 DEF ArrowsOK
    <3>1. Arrow[i] \in alive /\ Arrow[i] # n
      BY <1>1
    <3>2. CASE Deleting(Arrow[i])
      <4>1. PICK j \in Frames : stack[j].op = "deleteChildren" /\ stack[j].node = Arrow[i]
        BY <3>2 DEF Deleting
      <4>2. j \in 2 .. Len(stack)
        BY <1>2, <3>1, <4>1 DEF Frames, n
      <4>3. j - 1 \in Frames' /\ stack'[j - 1] = stack[j]
        BY <1>3, <4>2
      <4>4. Deleting(Arrow[i])'
        BY <4>1, <4>3 DEF Deleting
      <4> QED BY <4>4
    <3> QED BY <1>1, <3>1, <3>2 DEF StackOK, ArrowsOK
  <2> QED BY <2>1, <2>2, <2>3, <2>4 DEF StackOK
<1> QED BY <1>7, <1>8, <1>10, <1>11 DEF IInv

-----------------------------------------------------------------------------
(* The theorems.                                                             *)

\* No node, no call.
LEMMA InitIInv == Init => IInv
<1> SUFFICES ASSUME Init PROVE IInv
  OBVIOUS
<1>1. TypeOK
  <2>1. NoCall \in [op : {"none", "setVisible", "delete"}, on : BOOLEAN, subtree : SUBSET Nodes]
    BY DEF NoCall
  <2>2. <<>> \in Seq(Frame)
    OBVIOUS
  <2> QED BY <2>1, <2>2 DEF Init, TypeOK
<1>2. Forest /\ TreeIsConsistent /\ AssembliesMirrorTree
  BY NodesAssumption DEF Init, Forest, TreeIsConsistent, AssembliesMirrorTree, Runs
<1>3. stack = <<>> /\ Len(stack) = 0 /\ Frames = {}
  BY DEF Init, Frames
<1>4. StackOK
  <2>1. \A i \in Indicators : Arrow[i] \notin alive
    BY DEF Init
  <2>2. BuriedOK /\ TopOK
    BY <1>3 DEF BuriedOK, TopOK
  <2>3. InitsOK /\ PhasesOK /\ DeletesOK /\ DeletesOnce /\ ArrowsOK
    BY <1>3, <2>1 DEF InitsOK, PhasesOK, DeletesOK, DeletesOnce, ArrowsOK
  <2> QED BY <2>2, <2>3 DEF StackOK
<1> QED BY <1>1, <1>2, <1>4 DEF IInv

\* Every action keeps the invariant, by the lemmas above.
LEMMA NextIInv == IInv /\ [Next]_vars => IInv'
<1> SUFFICES ASSUME IInv, [Next]_vars PROVE IInv'
  OBVIOUS
<1>1. CASE Client
  BY <1>1, ClientSteps, AddChildNodeStep, RendererSteps DEF Client
<1>2. CASE Program
  BY <1>2, ConstructStep, InitNodeStep, LinkStep, UnlinkStep, ForgetStep, QuietSteps,
     DestructStep, DeleteChildStep, FreeStep DEF Program
<1>3. CASE RenderThread
  BY <1>3, RendererSteps
<1>4. CASE UNCHANGED vars
  BY <1>4, StackUntouched DEF vars, IInv, TypeOK
<1> QED BY <1>1, <1>2, <1>3, <1>4 DEF Next

\* The invariant holds in every reachable state.
LEMMA Invariant == Spec => []IInv
<1> QED BY InitIInv, NextIInv, PTL DEF Spec

\* The parent pointer, the list of children and the assembly of every node lead
\* to nodes that exist, whatever calls run.
THEOREM TypeCorrect == Spec => []TypeOK
<1>1. IInv => TypeOK
  BY DEF IInv
<1> QED BY <1>1, Invariant, PTL

\* Parents never form a cycle, in the middle of AddChildNode and of destructors
\* too, so that SetVisible and ~SGNode come to an end.
THEOREM NoCycles == Spec => []Forest
<1>1. IInv => Forest
  BY DEF IInv
<1> QED BY <1>1, Invariant, PTL

\* m_pParentNode and m_vpChildNodes agree, and deleted nodes have neither.
THEOREM Consistent == Spec => []TreeIsConsistent
<1>1. IInv => TreeIsConsistent
  BY DEF IInv
<1> QED BY <1>1, Invariant, PTL

\* The parts of the assemblies are the children, but for the one link that
\* AddChildNode or RemoveChildNode is working at.
THEOREM Mirrored == Spec => []AssembliesMirrorTree
<1>1. IInv => AssembliesMirrorTree
  BY DEF IInv
<1> QED BY <1>1, Invariant, PTL

\* The assertion of ~SGNode holds: the assembly of a node that is freed has no
\* parts left, neither children nor the actors of its subclass.
THEOREM EmptyAtEnd == Spec => []AssemblyIsEmptyAtEnd
<1>1. IInv => AssemblyIsEmptyAtEnd
  <2> SUFFICES ASSUME IInv, Runs("deleteChildren"), children[Head(stack).node] = {}
               PROVE  parts[Head(stack).node] = {} /\ Head(stack).node \notin actors
    BY DEF AssemblyIsEmptyAtEnd
  <2>1. /\ TypeOK /\ StackOK /\ AssembliesMirrorTree /\ stack # <<>>
        /\ stack \in Seq(Frame) /\ Head(stack).op = "deleteChildren"
    BY DEF IInv, TypeOK, Runs
  <2>2. Head(stack).node \in Nodes /\ Head(stack).node \notin actors
    BY <2>1, Running DEF StackOK, DeletesOK
  <2>3. \A c \in Nodes : c \notin parts[Head(stack).node]
    BY <2>1, <2>2 DEF AssembliesMirrorTree, Runs
  <2> QED BY <2>1, <2>2, <2>3 DEF TypeOK
<1> QED BY <1>1, Invariant, PTL

-----------------------------------------------------------------------------
(* What the calls achieve: the invariant of a running call.                  *)

\* The frames of the stack, and those that wait for the running one.
Pending == {stack[i] : i \in Frames}
Buried == {stack[i] : i \in 2 .. Len(stack)}

\* The nodes of U have not been visited yet: each is to be visited from a running
\* frame, or its parent is in U too.  The others have the visibility asked for, or
\* their frame is to set it.
Unvisited(U) ==
  /\ \A m \in U : parent[m] \in U \/ \E f \in Pending : f.op = "visit" /\ m \in f.todo
  /\ \A m \in call.subtree \ U :
       /\ visible[m] = call.on \/ \E f \in Pending : f.op = "visit" /\ f.node = m
       /\ m \in Shapes => shown[m] = call.on \/ \E f \in Pending : f.node = m

\* What SetVisible has to do.
VisitsOK ==
  call.op = "setVisible" =>
    /\ \A f \in Pending : f.op \in {"visit", "show"} /\ f.on = call.on
    /\ \E U \in SUBSET call.subtree : Unvisited(U)

\* A destructor of m runs.
Destructed(m) == \E f \in Pending : f.op \in {"delete", "deleteChildren"} /\ f.node = m

\* While delete runs, its frames are about the subtree, and every node of it that
\* still exists is being deleted or has its parent there.
DoomOK ==
  stack # <<>> /\ call.op = "delete" =>
    /\ \A f \in Pending :
         /\ f.op \in {"unlink", "forget", "delete", "deleteChildren"}
         /\ f.op \in {"delete", "deleteChildren"} => f.node \in call.subtree
    /\ Top.op \in {"unlink", "forget"} =>
         Top.other \in call.subtree
           /\ \E f \in Buried : f.op = "deleteChildren" /\ f.node = Top.other
    /\ \A m \in alive : parent[m] \in call.subtree => m \in call.subtree
    /\ \A m \in alive \cap call.subtree : Destructed(m) \/ parent[m] \in call.subtree

\* No other call runs destructors.
LivesOK ==
  call.op # "delete" => \A f \in Pending : f.op \notin {"delete", "deleteChildren"}

CallsOK == VisitsOK /\ DoomOK /\ LivesOK

CInv == IInv /\ CallsOK

USE DEF Top, Return

-----------------------------------------------------------------------------
(* The stack as a set of frames.                                             *)

\* The running frame and those that wait.
LEMMA PendingFrames ==
  ASSUME IInv
  PROVE  /\ stack \in Seq(Frame)
         /\ stack = <<>> => Pending = {}
         /\ stack # <<>> => Pending = {Head(stack)} \cup Buried /\ Head(stack) \in Frame
         /\ Buried \subseteq Frame /\ Pending \subseteq Frame
<1>1. stack \in Seq(Frame)
  BY DEF IInv, TypeOK
<1>2. stack = <<>> => Pending = {} /\ Buried = {}
  BY DEF Pending, Buried, Frames
<1>3. ASSUME stack # <<>>
      PROVE  /\ Pending = {Head(stack)} \cup Buried /\ Head(stack) \in Frame
             /\ Buried \subseteq Frame
  <2>1. /\ 1 \in Frames /\ Head(stack) = stack[1] /\ \A i \in Frames : stack[i] \in Frame
        /\ Len(stack) \in Nat \ {0}
    BY <1>1, <1>3, Running
  <2>2. Frames = {1} \cup 2 .. Len(stack)
    BY <2>1 DEF Frames
  <2> QED BY <2>1, <2>2 DEF Pending, Buried
<1> QED BY <1>1, <1>2, <1>3

\* What a step leaves of them.
LEMMA PendingAfter ==
  ASSUME IInv, stack # <<>>, NEW f \in Frame, NEW g \in Frame
  PROVE  /\ Continue(<<>>) => Pending' = Buried
         /\ Continue(<<f>>) => Pending' = {f} \cup Buried
                                 /\ Head(stack') = f /\ stack' # <<>> /\ Buried' = Buried
         /\ Continue(<<f, g>>) => Pending' = {f, g} \cup Buried
                                 /\ Head(stack') = f /\ stack' # <<>> /\ Buried' = {g} \cup Buried
<1>1. stack \in Seq(Frame)
  BY DEF IInv, TypeOK
<1>2. ASSUME Continue(<<>>)
      PROVE  Pending' = Buried
  <2>1. /\ \A i \in Frames' : i + 1 \in 2 .. Len(stack) /\ stack'[i] = stack[i + 1]
        /\ \A i \in 2 .. Len(stack) : i - 1 \in Frames' /\ stack'[i - 1] = stack[i]
    BY <1>1, <1>2, Popped
  <2> QED BY <2>1 DEF Pending, Buried
<1>3. ASSUME Continue(<<f>>)
      PROVE  Pending' = {f} \cup Buried /\ Head(stack') = f /\ stack' # <<>> /\ Buried' = Buried
  <2>1. /\ Len(stack) \in Nat \ {0} /\ Len(stack') = Len(stack) /\ Frames' = Frames
        /\ stack'[1] = f /\ Head(stack') = f /\ stack' # <<>>
        /\ \A i \in 2 .. Len(stack) : stack'[i] = stack[i]
    BY <1>1, <1>3, Replaced
  <2>2. Frames' = {1} \cup 2 .. Len(stack)
    BY <2>1 DEF Frames
  <2> QED BY <2>1, <2>2 DEF Pending, Buried
<1>4. ASSUME Continue(<<f, g>>)
      PROVE  /\ Pending' = {f, g} \cup Buried
             /\ Head(stack') = f /\ stack' # <<>> /\ Buried' = {g} \cup Buried
  <2>1. /\ Len(stack) \in Nat \ {0} /\ Frames' = 1 .. Len(stack) + 1
        /\ Len(stack') = Len(stack) + 1
        /\ stack'[1] = f /\ Head(stack') = f /\ stack' # <<>> /\ stack'[2] = g
        /\ \A i \in 3 .. Len(stack) + 1 : i - 1 \in 2 .. Len(stack) /\ stack'[i] = stack[i - 1]
        /\ \A i \in 2 .. Len(stack) : i + 1 \in Frames' /\ stack'[i + 1] = stack[i]
    BY <1>1, <1>4, Grown
  <2>2. 2 .. Len(stack') = {2} \cup 3 .. Len(stack) + 1 /\ Frames' = {1} \cup 2 .. Len(stack')
    BY <2>1
  <2>3. Buried' = {g} \cup Buried
    <3>1. ASSUME NEW h \in Buried
          PROVE  h \in Buried'
      <4>1. PICK i \in 2 .. Len(stack) : h = stack[i]
        BY DEF Buried
      <4>2. i + 1 \in 2 .. Len(stack') /\ stack'[i + 1] = h
        BY <2>1, <4>1
      <4> QED BY <4>2 DEF Buried
    <3>2. g \in Buried'
      BY <2>1, <2>2 DEF Buried
    <3>3. ASSUME NEW h \in Buried', h # g
          PROVE  h \in Buried
      <4>1. PICK i \in 2 .. Len(stack') : h = stack'[i]
        BY DEF Buried
      <4>2. i - 1 \in 2 .. Len(stack) /\ stack[i - 1] = h
        BY <2>1, <2>2, <3>3, <4>1
      <4> QED BY <4>2 DEF Buried
    <3> QED BY <3>1, <3>2, <3>3
  <2>4. Pending' = {f} \cup Buried'
    BY <2>1, <2>2 DEF Pending, Buried
  <2> QED BY <2>1, <2>3, <2>4
<1> QED BY <1>2, <1>3, <1>4

-----------------------------------------------------------------------------
(* SetVisible.                                                               *)

\* A subtree holds its root, with a node its children, and of all but the root
\* the parent.
LEMMA Subtrees ==
  ASSUME IInv, NEW n \in alive
  PROVE  /\ n \in Subtree(n) /\ Subtree(n) \subseteq alive
         /\ \A m \in Subtree(n) \ {n} : parent[m] \in Subtree(n)
         /\ \A m \in alive : parent[m] \in Subtree(n) => m \in Subtree(n)
<1>1. parent \in [Nodes -> alive \cup {None}] /\ alive \subseteq Nodes /\ None \notin alive
  BY NodesAssumption DEF IInv, TypeOK
<1>2. ASSUME NEW m \in Subtree(n), m # n
      PROVE  parent[m] \in Subtree(n)
  <2>1. m \in alive /\ \A S \in SUBSET alive : m \in S /\ ClosedUpwards(S) => n \in S
    BY DEF Subtree
  <2>2. parent[m] # None
    <3> SUFFICES ASSUME parent[m] = None PROVE FALSE
      OBVIOUS
    <3>1. {m} \in SUBSET alive /\ m \in {m} /\ ClosedUpwards({m})
      BY <2>1 DEF ClosedUpwards
    <3> QED BY <1>2, <2>1, <3>1
  <2>3. parent[m] \in alive
    BY <1>1, <2>1, <2>2
  <2>4. ASSUME NEW S \in SUBSET alive, parent[m] \in S, ClosedUpwards(S)
        PROVE  n \in S
    <3>1. S \cup {m} \in SUBSET alive /\ m \in S \cup {m} /\ ClosedUpwards(S \cup {m})
      BY <2>1, <2>4 DEF ClosedUpwards
    <3> QED BY <1>2, <2>1, <3>1
  <2> QED BY <2>3, <2>4 DEF Subtree
<1>3. ASSUME NEW m \in alive, parent[m] \in Subtree(n)
      PROVE  m \in Subtree(n)
  <2> SUFFICES ASSUME NEW S \in SUBSET alive, m \in S, ClosedUpwards(S)
               PROVE  n \in S
    BY DEF Subtree
  <2>1. parent[m] \in S
    BY <1>1, <1>3 DEF ClosedUpwards, Subtree
  <2> QED BY <1>3, <2>1 DEF Subtree
<1> QED BY <1>2, <1>3 DEF Subtree

\* The call: all of the subtree is left to visit, from its root on.
LEMMA SetVisibleBegins ==
  ASSUME IInv, NEW n \in Nodes, NEW on \in BOOLEAN, SetVisible(n, on)
  PROVE  VisitsOK'
<1> DEFINE f == Visit(n, on, children[n])
<1>1. /\ n \in alive /\ call' = [op |-> "setVisible", on |-> on, subtree |-> Subtree(n)]
      /\ stack' = <<f>> /\ UNCHANGED <<tree, scene>>
  BY DEF SetVisible, BeginOnSubtree
<1>2. TypeOK /\ TreeIsConsistent
  BY DEF IInv
<1>3. f \in Frame /\ f.op = "visit" /\ f.node = n /\ f.on = on /\ f.todo = children[n]
  BY <1>1, <1>2, VisitFrames DEF TypeOK, Visit, FrameOf
<1>4. Pending' = {f}
  BY <1>1, <1>3, Started DEF Pending
<1> HIDE DEF f
<1> PICK U : U = Subtree(n) \ {n}
  OBVIOUS
<1>5. /\ n \in Subtree(n) /\ Subtree(n) \subseteq alive
      /\ \A m \in U : parent[m] \in Subtree(n)
  BY <1>1, Subtrees
<1>6. \A m \in U : parent[m] \in U \/ m \in children[n]
  BY <1>1, <1>2, <1>5 DEF TreeIsConsistent, TypeOK
<1>7. call'.subtree \ U = {n} /\ U \in SUBSET call'.subtree /\ parent' = parent
  BY <1>1, <1>5 DEF tree
<1>8. Unvisited(U)'
  BY <1>1, <1>3, <1>4, <1>6, <1>7 DEF Unvisited
<1> QED BY <1>1, <1>3, <1>4, <1>7, <1>8 DEF VisitsOK

\* A child is visited next.
LEMMA VisitChildVisits ==
  ASSUME IInv, VisitsOK, VisitChild
  PROVE  VisitsOK'
<1> SUFFICES ASSUME call'.op = "setVisible" PROVE VisitsOK'
  BY DEF VisitsOK
<1>1. /\ stack # <<>> /\ Head(stack).op = "visit" /\ UNCHANGED <<tree, scene, call>>
  BY DEF VisitChild, Runs
<1>2. PICK c \in Head(stack).todo :
        Continue(<<Visit(c, Head(stack).on, children[c]),
                   Visit(Head(stack).node, Head(stack).on, Head(stack).todo \ {c})>>)
  BY DEF VisitChild
<1> DEFINE t == Head(stack)
           f == Visit(c, t.on, children[c])
           g == Visit(t.node, t.on, t.todo \ {c})
<1>3. TypeOK /\ TreeIsConsistent /\ t \in Frame /\ Pending = {t} \cup Buried
  BY <1>1, PendingFrames DEF IInv
<1>4. t.node \in Nodes /\ t.todo \in SUBSET Nodes /\ t.on \in BOOLEAN /\ c \in Nodes
  BY <1>3 DEF Frame
<1>5. /\ f \in Frame /\ f.op = "visit" /\ f.node = c /\ f.on = t.on /\ f.todo = children[c]
      /\ g \in Frame /\ g.op = "visit" /\ g.node = t.node /\ g.on = t.on /\ g.todo = t.todo \ {c}
  BY <1>3, <1>4, VisitFrames DEF TypeOK, Visit, FrameOf
<1>6. Pending' = {f, g} \cup Buried
  BY <1>1, <1>2, <1>5, PendingAfter
<1> HIDE DEF f, g, t
<1>7. /\ \A h \in Pending : h.op \in {"visit", "show"} /\ h.on = call.on
      /\ t.op = "visit"
  BY <1>1 DEF VisitsOK, t
<1>8. PICK U \in SUBSET call.subtree : Unvisited(U)
  BY <1>1 DEF VisitsOK
<1>9. \A h \in Pending' : h.op \in {"visit", "show"} /\ h.on = call'.on
  BY <1>1, <1>3, <1>5, <1>6, <1>7
<1>10. ASSUME NEW m \in U \ {c}
       PROVE  parent[m] \in U \ {c} \/ \E h \in Pending' : h.op = "visit" /\ m \in h.todo
  <2>1. m \in Nodes
    BY <1>3 DEF TypeOK
  <2>2. CASE parent[m] = c
    BY <1>3, <1>4, <1>5, <1>6, <2>1, <2>2 DEF TreeIsConsistent
  <2>3. CASE \E h \in Pending : h.op = "visit" /\ m \in h.todo
    BY <1>3, <1>5, <1>6, <2>3
  <2> QED BY <1>8, <2>2, <2>3 DEF Unvisited
<1>11. ASSUME NEW m \in call.subtree \ (U \ {c})
       PROVE  /\ visible[m] = call.on \/ \E h \in Pending' : h.op = "visit" /\ h.node = m
              /\ m \in Shapes => shown[m] = call.on \/ \E h \in Pending' : h.node = m
  <2>1. CASE m = c
    BY <1>5, <1>6, <2>1
  <2>2. CASE m # c
    BY <1>3, <1>5, <1>6, <1>8, <2>2 DEF Unvisited
  <2> QED BY <2>1, <2>2
<1>12. U \ {c} \in SUBSET call'.subtree /\ parent' = parent /\ visible' = visible /\ shown' = shown
  BY <1>1 DEF tree, scene
<1>13. Unvisited(U \ {c})'
  BY <1>1, <1>10, <1>11, <1>12 DEF Unvisited
<1> QED BY <1>9, <1>12, <1>13 DEF VisitsOK

\* A node is done, or its actors are left.
LEMMA VisitSelfVisits ==
  ASSUME IInv, VisitsOK, VisitSelf \/ ShowActors
  PROVE  VisitsOK'
<1> SUFFICES ASSUME call'.op = "setVisible" PROVE VisitsOK'
  BY DEF VisitsOK
<1> DEFINE t == Head(stack)
           f == Show(t.node, t.on)
<1>1. stack # <<>> /\ UNCHANGED <<tree, call>>
  BY DEF VisitSelf, ShowActors, Runs
<1>2. TypeOK /\ t \in Frame /\ Pending = {t} \cup Buried
  BY <1>1, PendingFrames DEF IInv
<1>3. t.node \in Nodes /\ t.on \in BOOLEAN
  BY <1>2 DEF Frame
<1>4. f \in Frame /\ f.op = "show" /\ f.node = t.node /\ f.on = t.on
  BY <1>3, VisitFrames DEF Show, FrameOf
<1>5. /\ \A h \in Pending : h.op \in {"visit", "show"} /\ h.on = call.on
      /\ call' = call /\ parent' = parent
  BY <1>1 DEF VisitsOK, tree
<1>6. PICK U \in SUBSET call.subtree : Unvisited(U)
  BY <1>1 DEF VisitsOK
<1>7. call.subtree \in SUBSET Nodes
  BY <1>2 DEF TypeOK
<1>8. CASE VisitSelf
  <2>1. /\ t.op = "visit" /\ t.todo = {} /\ shown' = shown
        /\ visible' = [visible EXCEPT ![t.node] = t.on]
        /\ IF t.node \in Shapes THEN Continue(<<f>>) ELSE Continue(<<>>)
    BY <1>8 DEF VisitSelf, Runs
  <2>2. Pending' = IF t.node \in Shapes THEN {f} \cup Buried ELSE Buried
    BY <1>1, <1>4, <2>1, PendingAfter
  <2> HIDE DEF t, f
  <2>3. \A h \in Pending' : h.op \in {"visit", "show"} /\ h.on = call.on
    BY <1>2, <1>4, <1>5, <2>2
  <2>4. \A m \in U : parent[m] \in U \/ \E h \in Pending' : h.op = "visit" /\ m \in h.todo
    BY <1>2, <1>6, <2>1, <2>2 DEF Unvisited
  <2>5. ASSUME NEW m \in call.subtree \ U
        PROVE  /\ visible'[m] = call.on \/ \E h \in Pending' : h.op = "visit" /\ h.node = m
               /\ m \in Shapes => shown'[m] = call.on \/ \E h \in Pending' : h.node = m
    <3>1. m \in Nodes /\ visible \in [Nodes -> BOOLEAN] /\ t.on = call.on
      BY <1>2, <1>5, <1>7 DEF TypeOK
    <3>2. CASE m = t.node
      BY <1>4, <2>1, <2>2, <3>1, <3>2
    <3>3. CASE m # t.node
      BY <1>2, <1>6, <2>1, <2>2, <3>1, <3>3 DEF Unvisited
    <3> QED BY <3>2, <3>3
  <2>6. Unvisited(U)'
    BY <1>5, <2>4, <2>5 DEF Unvisited
  <2> QED BY <1>5, <2>3, <2>6 DEF VisitsOK
<1>9. CASE ShowActors
  <2>1. /\ t.op = "show" /\ visible' = visible /\ Continue(<<>>)
        /\ shown' = [shown EXCEPT ![t.node] = t.on]
    BY <1>9 DEF ShowActors, Runs
  <2>2. Pending' = Buried
    BY <1>1, <1>4, <2>1, PendingAfter
  <2> HIDE DEF t, f
  <2>3. \A m \in U : parent[m] \in U \/ \E h \in Pending' : h.op = "visit" /\ m \in h.todo
    BY <1>2, <1>6, <2>1, <2>2 DEF Unvisited
  <2>4. ASSUME NEW m \in call.subtree \ U
        PROVE  /\ visible'[m] = call.on \/ \E h \in Pending' : h.op = "visit" /\ h.node = m
               /\ m \in Shapes => shown'[m] = call.on \/ \E h \in Pending' : h.node = m
    <3>1. m \in Nodes /\ shown \in [Nodes -> BOOLEAN] /\ t.on = call.on
      BY <1>2, <1>5, <1>7 DEF TypeOK
    <3>2. IF m = t.node THEN shown'[m] = call.on ELSE shown'[m] = shown[m]
      <4>1. ASSUME m = t.node
            PROVE  shown'[m] = call.on
        BY <2>1, <3>1, <4>1
      <4>2. ASSUME m # t.node
            PROVE  shown'[m] = shown[m]
        BY <2>1, <3>1, <4>2
      <4> QED BY <4>1, <4>2
    <3>3. \A h \in Pending : h = t \/ h \in Pending'
      BY <1>2, <2>2
    <3> QED BY <1>6, <2>1, <3>2, <3>3 DEF Unvisited
  <2>5. Unvisited(U)'
    BY <1>5, <2>3, <2>4 DEF Unvisited
  <2> QED BY <1>2, <1>5, <2>2, <2>5 DEF VisitsOK
<1> QED BY <1>8, <1>9

-----------------------------------------------------------------------------
(* delete.                                                                   *)

\* The call: the root is to be deleted, all others have their parent in the subtree.
LEMMA DeleteBegins ==
  ASSUME IInv, NEW n \in Nodes, DeleteNode(n)
  PROVE  DoomOK'
<1>1. /\ n \in alive /\ stack' = <<Of("delete", n)>> /\ UNCHANGED <<tree, scene>>
      /\ call' = [op |-> "delete", on |-> FALSE, subtree |-> Subtree(n)]
  BY DEF DeleteNode, BeginOnSubtree
<1>2. Of("delete", n) \in Frame /\ Of("delete", n).op = "delete" /\ Of("delete", n).node = n
  BY CallFrames DEF Ops
<1>3. /\ Pending' = {Of("delete", n)}
      /\ Head(stack').op = "delete"
  BY <1>1, <1>2, Started DEF Pending
<1>4. /\ n \in Subtree(n) /\ Subtree(n) \subseteq alive
      /\ \A m \in Subtree(n) \ {n} : parent[m] \in Subtree(n)
      /\ \A m \in alive : parent[m] \in Subtree(n) => m \in Subtree(n)
  BY <1>1, Subtrees
<1>5. \A m \in Subtree(n) : (m = n => Destructed(m)') /\ (m # n => parent[m] \in Subtree(n))
  BY <1>2, <1>3, <1>4 DEF Destructed
<1>6. alive' = alive /\ parent' = parent /\ call'.subtree = Subtree(n)
  BY <1>1 DEF tree
<1> QED BY <1>2, <1>3, <1>4, <1>5, <1>6 DEF DoomOK

\* What the running frame of a delete is.
LEMMA Dooming ==
  ASSUME IInv, CallsOK, stack # <<>>, call.op = "delete"
  PROVE  /\ Head(stack).op \in {"unlink", "forget", "delete", "deleteChildren"}
         /\ Head(stack) \in Frame /\ Head(stack).node \in Nodes
         /\ Pending = {Head(stack)} \cup Buried
         /\ \A f \in Buried : f.op = "deleteChildren" /\ f.node \in call.subtree
<1>1. /\ Pending = {Head(stack)} \cup Buried /\ Head(stack) \in Frame
      /\ \A f \in Pending :
           /\ f.op \in {"unlink", "forget", "delete", "deleteChildren"}
           /\ f.op \in {"delete", "deleteChildren"} => f.node \in call.subtree
  BY PendingFrames DEF CallsOK, DoomOK
<1>2. \A f \in Buried : f.op \in {"init", "visit", "deleteChildren", "setColor", "unlock"}
  BY DEF IInv, StackOK, BuriedOK, Buried
<1> QED BY <1>1, <1>2 DEF Frame

\* The destructor begins.
LEMMA DestructDoom ==
  ASSUME IInv, CallsOK, call.op = "delete", Destruct
  PROVE  DoomOK'
<1> DEFINE n == Head(stack).node
           g == Of("deleteChildren", n)
           f == On("unlink", parent[n], n)
<1>1. /\ stack # <<>> /\ Head(stack).op = "delete" /\ UNCHANGED <<tree, call>>
      /\ Continue((IF parent[n] # None THEN <<f>> ELSE <<>>) \o <<g>>)
  BY DEF Destruct, Runs
<1>2. TypeOK /\ n \in Nodes /\ Pending = {Head(stack)} \cup Buried /\ n \in alive
  BY <1>1, Dooming DEF IInv, StackOK, TopOK
<1>3. /\ \A h \in Buried : h.op = "deleteChildren" /\ h.node \in call.subtree
      /\ n \in call.subtree
      /\ \A m \in alive : parent[m] \in call.subtree => m \in call.subtree
      /\ \A m \in alive \cap call.subtree : Destructed(m) \/ parent[m] \in call.subtree
  BY <1>1, <1>2, Dooming DEF CallsOK, DoomOK
<1>4. /\ g \in Frame /\ g.op = "deleteChildren" /\ g.node = n
      /\ parent[n] # None => f \in Frame /\ f.op = "unlink" /\ f.other = n
  BY <1>2, CallFrames DEF Ops, TypeOK
<1>5. CASE parent[n] # None
  <2>1. Continue(<<f, g>>)
    BY <1>1, <1>4, <1>5, Concatenated
  <2>2. /\ Pending' = {f, g} \cup Buried /\ Head(stack') = f /\ Buried' = {g} \cup Buried
    BY <1>1, <1>4, <1>5, <2>1, PendingAfter
  <2> HIDE DEF f, g, n
  <2>3. \A m : Destructed(m) => Destructed(m)'
    BY <1>1, <1>2, <1>4, <2>2 DEF Destructed, n
  <2> QED BY <1>1, <1>3, <1>4, <1>5, <2>2, <2>3 DEF DoomOK, tree
<1>6. CASE parent[n] = None
  <2>1. Continue(<<g>>)
    BY <1>1, <1>4, <1>6, Concatenated
  <2>2. Pending' = {g} \cup Buried /\ Head(stack') = g
    BY <1>1, <1>4, <2>1, PendingAfter
  <2> HIDE DEF f, g, n
  <2>3. \A m : Destructed(m) => Destructed(m)'
    BY <1>1, <1>2, <1>4, <2>2 DEF Destructed, n
  <2> QED BY <1>1, <1>3, <1>4, <2>2, <2>3 DEF DoomOK, tree
<1> QED BY <1>5, <1>6

\* The node leaves its parent.
LEMMA LeaveDoom ==
  ASSUME IInv, CallsOK, call.op = "delete", Unlink \/ Forget
  PROVE  DoomOK'
<1> DEFINE t == Head(stack)
           f == On("forget", t.node, t.other)
<1>1. /\ stack # <<>> /\ t.op \in {"unlink", "forget"} /\ UNCHANGED <<alive, call>>
  BY DEF Unlink, Forget, Runs, tree
<1>2. /\ TypeOK /\ t \in Frame /\ Pending = {t} \cup Buried
      /\ t.node \in Nodes /\ t.other \in Nodes
  BY <1>1, Dooming DEF IInv, StackOK, TopOK
<1>3. /\ \A h \in Buried : h.op = "deleteChildren" /\ h.node \in call.subtree
      /\ t.other \in call.subtree
      /\ \E h \in Buried : h.op = "deleteChildren" /\ h.node = t.other
      /\ \A m \in alive : parent[m] \in call.subtree => m \in call.subtree
      /\ \A m \in alive \cap call.subtree : Destructed(m) \/ parent[m] \in call.subtree
  BY <1>1, Dooming DEF CallsOK, DoomOK
<1>4. f \in Frame /\ f.op = "forget" /\ f.other = t.other
  BY <1>2, CallFrames DEF Ops
<1>5. CASE Unlink
  <2>1. Continue(<<f>>) /\ parent' = parent
    BY <1>5 DEF Unlink, tree
  <2>2. Pending' = {f} \cup Buried /\ Head(stack') = f /\ Buried' = Buried
    BY <1>1, <1>4, <2>1, PendingAfter
  <2> HIDE DEF f
  <2>3. \A m : Destructed(m) => Destructed(m)'
    BY <1>1, <1>2, <2>2 DEF Destructed
  <2> QED BY <1>1, <1>3, <1>4, <2>1, <2>2, <2>3 DEF DoomOK
<1>6. CASE Forget
  <2>1. /\ Continue(<<>>) /\ parent' = [parent EXCEPT ![t.other] = None]
    BY <1>6 DEF Forget
  <2>2. Pending' = Buried
    BY <1>1, <1>4, <2>1, PendingAfter
  <2> HIDE DEF f
  <2>3. \A m : Destructed(m) => Destructed(m)'
    BY <1>1, <1>2, <2>2 DEF Destructed
  <2> PICK c : c = t.other
    OBVIOUS
  <2>4. Destructed(c)'
    BY <1>3, <2>2 DEF Destructed
  <2>5. \A m \in Nodes \ {c} : parent'[m] = parent[m]
    BY <1>2, <2>1 DEF TypeOK
  <2>6. alive \subseteq Nodes
    BY <1>2 DEF TypeOK
  <2>7. ASSUME NEW m \in alive'
        PROVE  /\ parent'[m] \in call'.subtree => m \in call'.subtree
               /\ m \in call'.subtree => Destructed(m)' \/ parent'[m] \in call'.subtree
    <3>1. CASE m = c
      BY <1>1, <1>3, <2>4, <3>1
    <3>2. CASE m # c
      BY <1>1, <1>3, <2>3, <2>5, <2>6, <3>2
    <3> QED BY <3>1, <3>2
  <2>8. stack' # <<>> => Head(stack').op = "deleteChildren"
    <3> SUFFICES ASSUME stack' # <<>> PROVE Head(stack').op = "deleteChildren"
      OBVIOUS
    <3>1. stack \in Seq(Frame)
      BY <1>2 DEF TypeOK
    <3>2. 1 \in Frames' /\ Head(stack') = stack'[1]
      BY <1>1, <2>1, <3>1, Popped
    <3> QED BY <1>3, <2>2, <3>2 DEF Pending
  <2> QED BY <1>1, <1>3, <2>2, <2>7, <2>8 DEF DoomOK
<1> QED BY <1>5, <1>6

\* A child is deleted next.
LEMMA DeleteChildDoom ==
  ASSUME IInv, CallsOK, call.op = "delete", DeleteChild
  PROVE  DoomOK'
<1> DEFINE t == Head(stack)
<1>1. /\ stack # <<>> /\ t.op = "deleteChildren" /\ UNCHANGED <<tree, call>>
  BY DEF DeleteChild, Runs
<1>2. PICK c \in children[t.node] : Continue(<<Of("delete", c), t>>)
  BY DEF DeleteChild
<1>3. /\ TypeOK /\ TreeIsConsistent /\ t \in Frame /\ Pending = {t} \cup Buried
      /\ t.node \in Nodes
  BY <1>1, Dooming DEF IInv
<1>4. c \in alive /\ c \in Nodes /\ parent[c] = t.node
  BY <1>2, <1>3 DEF TypeOK, TreeIsConsistent
<1>5. /\ \A h \in Buried : h.op = "deleteChildren" /\ h.node \in call.subtree
      /\ t.node \in call.subtree
      /\ \A m \in alive : parent[m] \in call.subtree => m \in call.subtree
      /\ \A m \in alive \cap call.subtree : Destructed(m) \/ parent[m] \in call.subtree
  BY <1>1, <1>3, Dooming DEF CallsOK, DoomOK
<1> DEFINE f == Of("delete", c)
<1>6. f \in Frame /\ f.op = "delete" /\ f.node = c
  BY <1>4, CallFrames DEF Ops
<1>7. Pending' = {f, t} \cup Buried /\ Head(stack') = f
  BY <1>1, <1>2, <1>3, <1>6, PendingAfter
<1> HIDE DEF f
<1>8. \A m : Destructed(m) => Destructed(m)'
  BY <1>3, <1>7 DEF Destructed
<1> QED BY <1>1, <1>4, <1>5, <1>6, <1>7, <1>8 DEF DoomOK, tree

\* A node is freed once it has no children.
LEMMA FreeDoom ==
  ASSUME IInv, CallsOK, call.op = "delete", Free
  PROVE  DoomOK'
<1> DEFINE t == Head(stack)
<1>1. /\ stack # <<>> /\ t.op = "deleteChildren" /\ UNCHANGED <<parent, call>>
      /\ children[t.node] = {} /\ alive' = alive \ {t.node} /\ Continue(<<>>)
  BY DEF Free, Runs
<1>2. /\ TypeOK /\ TreeIsConsistent /\ t \in Frame /\ Pending = {t} \cup Buried
      /\ t.node \in Nodes /\ stack \in Seq(Frame)
  BY <1>1, Dooming DEF IInv, TypeOK
<1>3. /\ \A h \in Buried : h.op = "deleteChildren" /\ h.node \in call.subtree
      /\ \A m \in alive : parent[m] \in call.subtree => m \in call.subtree
      /\ \A m \in alive \cap call.subtree : Destructed(m) \/ parent[m] \in call.subtree
  BY <1>1, <1>2, Dooming DEF CallsOK, DoomOK
<1>4. Pending' = Buried
  BY <1>1, <1>2, PendingAfter
<1>5. \A m \in alive' : Destructed(m) => Destructed(m)'
  BY <1>1, <1>2, <1>4 DEF Destructed
<1>6. stack' # <<>> => Head(stack').op = "deleteChildren"
  <2> SUFFICES ASSUME stack' # <<>> PROVE Head(stack').op = "deleteChildren"
    OBVIOUS
  <2>1. 1 \in Frames' /\ Head(stack') = stack'[1]
    BY <1>1, <1>2, Popped
  <2> QED BY <1>3, <1>4, <2>1 DEF Pending
<1> QED BY <1>1, <1>3, <1>4, <1>5, <1>6 DEF DoomOK

-----------------------------------------------------------------------------
(* Every step.                                                               *)

\* Other calls than delete start no destructor.
LEMMA LivesStep ==
  ASSUME IInv, LivesOK, call.op # "delete", Program
  PROVE  LivesOK'
<1> DEFINE t == Head(stack)
           Lives(f) == f.op \notin {"delete", "deleteChildren"}
<1>1. stack # <<>> /\ call' = call
  BY DEF Program, Construct, InitNode, Link, Unlink, Forget, VisitChild, VisitSelf, ShowActors,
         Destruct, DeleteChild, Free, ColorNode, Unlock, Runs
<1>2. /\ TypeOK /\ t \in Frame /\ Pending = {t} \cup Buried
      /\ t.op \notin {"delete", "deleteChildren"} /\ \A f \in Buried : Lives(f)
  BY <1>1, PendingFrames DEF IInv, LivesOK
<1>3. t.node \in Nodes /\ t.other \in Nodes \cup {None} /\ t.on \in BOOLEAN /\ t.todo \in SUBSET Nodes
  BY <1>2 DEF Frame
<1> HIDE DEF t
<1>4. ASSUME NEW f \in Frame, NEW g \in Frame, Lives(f), Lives(g),
             \/ Continue(<<>>) \/ Continue(<<f>>) \/ Continue(<<f, g>>)
             \/ Continue(<<f>> \o <<g>>) \/ Continue(<<>> \o <<g>>)
      PROVE  LivesOK'
  <2>1. \A h \in Pending' : Lives(h)
    BY <1>1, <1>2, <1>4, PendingAfter, Concatenated
  <2> QED BY <2>1 DEF LivesOK
<1>5. \A n \in Nodes, c \in Nodes \cup {None} :
        /\ On("link", n, c) \in Frame /\ Lives(On("link", n, c))
        /\ On("construct", n, c) \in Frame /\ Lives(On("construct", n, c))
        /\ On("forget", n, c) \in Frame /\ Lives(On("forget", n, c))
        /\ Of("init", n) \in Frame /\ Lives(Of("init", n))
        /\ Of("setColor", n) \in Frame /\ Lives(Of("setColor", n))
        /\ Of("unlock", n) \in Frame /\ Lives(Of("unlock", n))
  BY CallFrames DEF Ops
<1>6. \A n \in Nodes, on \in BOOLEAN, todo \in SUBSET Nodes :
        /\ Visit(n, on, todo) \in Frame /\ Lives(Visit(n, on, todo))
        /\ Show(n, on) \in Frame /\ Lives(Show(n, on))
  BY VisitFrames
<1>7. \A i \in Indicators : i \in Nodes /\ Arrow[i] \in Nodes
  BY NodesAssumption DEF Nodes
<1> HIDE DEF Lives
<1>8. CASE Construct
  <2>1. \/ Continue(<<On("link", t.other, t.node)>> \o <<Of("init", t.node)>>) /\ t.other # None
        \/ Continue(<<>> \o <<Of("init", t.node)>>)
    BY <1>8 DEF Construct, t
  <2> QED BY <1>3, <1>4, <1>5, <2>1
<1>9. CASE InitNode
  <2>1. \/ /\ t.node \in Indicators
           /\ Continue(<<On("construct", Arrow[t.node], t.node), Of("setColor", Arrow[t.node])>>)
        \/ Continue(<<>>)
    BY <1>9 DEF InitNode, t
  <2> QED BY <1>3, <1>4, <1>5, <1>7, <2>1
<1>10. CASE Link \/ Forget \/ Unlock \/ ShowActors
  <2>1. Continue(<<>>)
    BY <1>10 DEF Link, Forget, Unlock, ShowActors
  <2> QED BY <1>3, <1>4, <1>5, <2>1
<1>11. CASE Unlink
  <2>1. Continue(<<On("forget", t.node, t.other)>>)
    BY <1>11 DEF Unlink, t
  <2> QED BY <1>3, <1>4, <1>5, <2>1
<1>12. CASE VisitChild
  <2>1. PICK c \in t.todo :
          Continue(<<Visit(c, t.on, children[c]), Visit(t.node, t.on, t.todo \ {c})>>)
    BY <1>12 DEF VisitChild, t
  <2>2. c \in Nodes /\ children[c] \in SUBSET Nodes /\ t.todo \ {c} \in SUBSET Nodes
    BY <1>2, <1>3 DEF TypeOK
  <2> QED BY <1>3, <1>4, <1>6, <2>1, <2>2
<1>13. CASE VisitSelf
  <2>1. Continue(<<Show(t.node, t.on)>>) \/ Continue(<<>>)
    BY <1>13 DEF VisitSelf, t
  <2> QED BY <1>3, <1>4, <1>6, <2>1
<1>14. CASE ColorNode
  <2>1. \/ t.node \in Indicators
             /\ Continue(<<Of("setColor", Arrow[t.node])>> \o <<Of("unlock", t.node)>>)
        \/ Continue(<<>> \o <<Of("unlock", t.node)>>)
    BY <1>14 DEF ColorNode, t
  <2> QED BY <1>3, <1>4, <1>5, <1>7, <2>1
<1>15. ~ (Destruct \/ DeleteChild \/ Free)
  BY <1>2 DEF Destruct, DeleteChild, Free, Runs, t
<1> QED BY <1>8, <1>9, <1>10, <1>11, <1>12, <1>13, <1>14, <1>15 DEF Program

\* The steps of a running call.
LEMMA ProgramCalls ==
  ASSUME CInv, Program
  PROVE  CallsOK'
<1>1. IInv /\ VisitsOK /\ DoomOK /\ LivesOK /\ CallsOK
  BY DEF CInv, CallsOK
<1>2. stack # <<>> /\ call' = call
  BY DEF Program, Construct, InitNode, Link, Unlink, Forget, VisitChild, VisitSelf, ShowActors,
         Destruct, DeleteChild, Free, ColorNode, Unlock, Runs
<1>3. Head(stack) \in Pending
  BY <1>1, <1>2, PendingFrames
<1>4. CASE call.op = "setVisible"
  <2>1. Head(stack).op \in {"visit", "show"}
    BY <1>1, <1>3, <1>4 DEF VisitsOK
  <2>2. VisitChild \/ VisitSelf \/ ShowActors
    BY <2>1 DEF Program, Construct, InitNode, Link, Unlink, Forget, Destruct, DeleteChild, Free,
                ColorNode, Unlock, Runs
  <2>3. VisitsOK'
    BY <1>1, <2>2, VisitChildVisits, VisitSelfVisits
  <2>4. LivesOK'
    BY <1>1, <1>4, LivesStep
  <2> QED BY <1>2, <1>4, <2>3, <2>4 DEF CallsOK, DoomOK
<1>5. CASE call.op = "delete"
  <2>1. Head(stack).op \in {"unlink", "forget", "delete", "deleteChildren"}
    BY <1>1, <1>2, <1>5, Dooming
  <2>2. Unlink \/ Forget \/ Destruct \/ DeleteChild \/ Free
    BY <2>1 DEF Program, Construct, InitNode, Link, VisitChild, VisitSelf, ShowActors,
                ColorNode, Unlock, Runs
  <2>3. DoomOK'
    BY <1>1, <1>5, <2>2, DestructDoom, LeaveDoom, DeleteChildDoom, FreeDoom
  <2> QED BY <1>2, <1>5, <2>3 DEF CallsOK, VisitsOK, LivesOK
<1>6. CASE call.op \notin {"setVisible", "delete"}
  <2>1. LivesOK'
    BY <1>1, <1>6, LivesStep
  <2> QED BY <1>2, <1>6, <2>1 DEF CallsOK, VisitsOK, DoomOK
<1> QED BY <1>4, <1>5, <1>6

\* The beginning of a call.
LEMMA ClientCalls ==
  ASSUME CInv, Client, ~ Render
  PROVE  CallsOK'
<1>1. IInv /\ TypeOK
  BY DEF CInv, IInv
<1>2. ASSUME NEW n \in Nodes, NEW p \in alive \cup {None}, New(n, p)
      PROVE  CallsOK'
  <2>1. stack' = <<On("construct", n, p)>> /\ call' = NoCall /\ p \in Nodes \cup {None}
    BY <1>1, <1>2 DEF New, Begin, TypeOK
  <2>2. On("construct", n, p) \in Frame /\ On("construct", n, p).op = "construct"
    BY <2>1, CallFrames DEF Ops
  <2>3. Pending' = {On("construct", n, p)}
    BY <2>1, <2>2, Started DEF Pending
  <2> QED BY <2>1, <2>2, <2>3 DEF CallsOK, VisitsOK, DoomOK, LivesOK, NoCall
<1>3. ASSUME NEW n \in Nodes, NEW c \in Nodes, AddChildNode(n, c) \/ RemoveChildNode(n, c)
      PROVE  CallsOK'
  <2>1. /\ call' = NoCall /\ stack = <<>>
        /\ \/ stack' = <<On("link", n, c)>> \/ stack' = <<On("unlink", n, c)>> \/ stack' = <<>>
    BY <1>3 DEF AddChildNode, RemoveChildNode, Begin
  <2>2. /\ On("link", n, c) \in Frame /\ On("link", n, c).op = "link"
        /\ On("unlink", n, c) \in Frame /\ On("unlink", n, c).op = "unlink"
    BY CallFrames DEF Ops
  <2>3. Pending' \in {{On("link", n, c)}, {On("unlink", n, c)}, {}}
    <3>1. stack' = <<>> => Pending' = {}
      BY DEF Pending, Frames
    <3> QED BY <2>1, <2>2, <3>1, Started DEF Pending
  <2> QED BY <2>1, <2>2, <2>3 DEF CallsOK, VisitsOK, DoomOK, LivesOK, NoCall
<1>4. ASSUME NEW n \in Nodes, NEW on \in BOOLEAN, SetVisible(n, on)
      PROVE  CallsOK'
  <2>1. VisitsOK'
    BY <1>1, <1>4, SetVisibleBegins
  <2>2. call'.op = "setVisible"
    BY <1>4 DEF SetVisible, BeginOnSubtree
  <2> QED BY <2>1, <2>2 DEF CallsOK, VisitsOK, DoomOK, LivesOK
<1>5. ASSUME NEW n \in Nodes, SetColor(n)
      PROVE  CallsOK'
  <2>1. stack' = <<Of("setColor", n)>> /\ call' = NoCall
    BY <1>5 DEF SetColor, Begin
  <2>2. Of("setColor", n) \in Frame /\ Of("setColor", n).op = "setColor"
    BY CallFrames DEF Ops
  <2>3. Pending' = {Of("setColor", n)}
    BY <2>1, <2>2, Started DEF Pending
  <2> QED BY <2>1, <2>2, <2>3 DEF CallsOK, VisitsOK, DoomOK, LivesOK, NoCall
<1>6. ASSUME NEW n \in Nodes, DeleteNode(n)
      PROVE  CallsOK'
  <2>1. DoomOK'
    BY <1>1, <1>6, DeleteBegins
  <2>2. call'.op = "delete"
    BY <1>6 DEF DeleteNode, BeginOnSubtree
  <2> QED BY <2>1, <2>2 DEF CallsOK, VisitsOK, LivesOK
<1> QED BY <1>2, <1>3, <1>4, <1>5, <1>6 DEF Client

\* The render thread and requests are none of the calls' business.
LEMMA RendererCalls ==
  ASSUME CInv, RenderThread \/ Render \/ UNCHANGED vars
  PROVE  CallsOK'
<1>1. UNCHANGED <<tree, scene, stack, call>>
  BY DEF RenderThread, Render, StartRender, LockRender, EndRender, vars
<1>2. /\ alive' = alive /\ parent' = parent /\ visible' = visible /\ shown' = shown
      /\ call' = call /\ stack' = stack /\ Pending' = Pending /\ Buried' = Buried
  BY <1>1 DEF tree, scene, Pending, Buried, Frames
<1>3. VisitsOK'
  <2> SUFFICES ASSUME call.op = "setVisible"
               PROVE  /\ \A f \in Pending : f.op \in {"visit", "show"} /\ f.on = call.on
                      /\ \E U \in SUBSET call.subtree : Unvisited(U)'
    BY <1>2 DEF VisitsOK
  <2>1. PICK U \in SUBSET call.subtree : Unvisited(U)
    BY DEF CInv, CallsOK, VisitsOK
  <2>2. Unvisited(U)'
    BY <1>2, <2>1 DEF Unvisited
  <2> QED BY <2>2 DEF CInv, CallsOK, VisitsOK
<1>4. DoomOK'
  <2>1. \A m : Destructed(m)' <=> Destructed(m)
    BY <1>2 DEF Destructed
  <2> QED BY <1>2, <2>1 DEF CInv, CallsOK, DoomOK
<1>5. LivesOK'
  BY <1>2 DEF CInv, CallsOK, LivesOK
<1> QED BY <1>3, <1>4, <1>5 DEF CallsOK

\* The invariant holds in every reachable state.
LEMMA CallInvariant == Spec => []CInv
<1>1. Init => CInv
  <2> SUFFICES ASSUME Init PROVE CallsOK
    BY InitIInv DEF CInv
  <2>1. Pending = {} /\ call.op = "none"
    BY DEF Init, Pending, Frames, NoCall
  <2> QED BY <2>1 DEF CallsOK, VisitsOK, DoomOK, LivesOK
<1>2. CInv /\ [Next]_vars => CInv'
  <2> SUFFICES ASSUME CInv, [Next]_vars PROVE CInv'
    OBVIOUS
  <2>1. IInv'
    BY NextIInv DEF CInv
  <2>2. CallsOK'
    BY ProgramCalls, ClientCalls, RendererCalls DEF Next
  <2> QED BY <2>1, <2>2 DEF CInv
<1> QED BY <1>1, <1>2, PTL DEF Spec

-----------------------------------------------------------------------------
(* The theorems.                                                             *)

\* When SetVisible has returned, every node that was in the subtree, and the actors
\* of every shape in it, have the visibility asked for, whatever was drawn meanwhile.
THEOREM VisibilityReaches == Spec => []VisibilityReachesSubtree
<1>1. CInv => VisibilityReachesSubtree
  <2> SUFFICES ASSUME CInv, stack = <<>>, call.op = "setVisible", NEW m \in call.subtree
               PROVE  visible[m] = call.on /\ (m \in Shapes => shown[m] = call.on)
    BY DEF VisibilityReachesSubtree
  <2>1. IInv /\ TypeOK /\ Forest /\ Pending = {}
    BY PendingFrames DEF CInv, IInv
  <2>2. PICK U \in SUBSET call.subtree : Unvisited(U)
    BY DEF CInv, CallsOK, VisitsOK
  <2>3. U \in SUBSET Nodes /\ \A n \in U : parent[n] \in U
    BY <2>1, <2>2 DEF TypeOK, Unvisited
  <2>4. U = {}
    BY <2>1, <2>3 DEF Forest
  <2> QED BY <2>1, <2>2, <2>4 DEF Unvisited
<1> QED BY <1>1, CallInvariant, PTL

-----------------------------------------------------------------------------
(* The refinement of DAFFForest.                                             *)

\* What a client sees when no delete runs.
LEMMA NothingDoomed ==
  /\ (stack = <<>> \/ call.op # "delete") => Doomed = {}
  /\ stack # <<>> /\ call.op = "delete" => Doomed = call.subtree
BY DEF Doomed

\* The same a step later.
LEMMA NothingDoomedAfter ==
  /\ (stack' = <<>> \/ call'.op # "delete") => Doomed' = {}
  /\ stack' # <<>> /\ call'.op = "delete" => Doomed' = call'.subtree
BY DEF Doomed

\* Both modules mean the same by a subtree.
LEMMA SubtreeIsBelow ==
  ASSUME Doomed = {}, NEW n \in alive
  PROVE  Forests!Below(n) = Subtree(n)
<1>1. \A S \in SUBSET alive : Forests!ClosedUpwards(S) <=> ClosedUpwards(S)
  BY DEF Forests!ClosedUpwards, ClosedUpwards
<1> QED BY <1>1 DEF Forests!Below, Subtree

\* Steps that change no parent of a node that stays.
LEMMA ForestStutters ==
  ASSUME alive' \ Doomed' = alive \ Doomed,
         \A m \in alive \ Doomed : parent'[m] = parent[m]
  PROVE  UNCHANGED Forests!forestVars
<1>1. [n \in alive' \ Doomed' |-> parent'[n]] = [n \in alive \ Doomed |-> parent[n]]
  OBVIOUS
<1> QED BY <1>1 DEF Forests!forestVars

\* A step of the forest.
LEMMA ForestSteps ==
  ASSUME NEW n \in Nodes, NEW p \in Nodes \cup {None}
  PROVE  /\ p \in (alive \ Doomed) \cup {None} /\ Forests!Create(n, p) => Forests!Next
         /\ n \in alive \ Doomed /\ p \in alive \ Doomed /\ Forests!Attach(n, p) => Forests!Next
         /\ n \in alive \ Doomed /\ (Forests!Detach(n) \/ Forests!Delete(n)) => Forests!Next
BY DEF Forests!Next

\* The constructor creates the node with its parent.
LEMMA ConstructCreates ==
  ASSUME CInv, Construct
  PROVE  Forests!Next
<1> PICK n, p : n = Head(stack).node /\ p = Head(stack).other
  OBVIOUS
<1>1. /\ stack # <<>> /\ Head(stack).op = "construct" /\ alive' = alive \cup {n}
      /\ parent' = [parent EXCEPT ![n] = p] /\ call' = call
  BY DEF Construct, Runs
<1>2. /\ IInv /\ TypeOK /\ n \in Nodes \ alive /\ p \in alive \cup {None}
      /\ Head(stack) \in Pending
  BY <1>1, PendingFrames DEF CInv, IInv, StackOK, TopOK, Frame
<1>3. call.op # "delete"
  BY <1>1, <1>2 DEF CInv, CallsOK, DoomOK
<1>4. Doomed = {} /\ Doomed' = {}
  BY <1>1, <1>3, NothingDoomed, NothingDoomedAfter
<1>5. [m \in alive' |-> parent'[m]]
        = [m \in alive' |-> IF m = n THEN p ELSE [k \in alive |-> parent[k]][m]]
  <2>1. \A m \in alive' : parent'[m] = IF m = n THEN p ELSE [k \in alive |-> parent[k]][m]
    BY <1>1, <1>2 DEF TypeOK
  <2> QED BY <2>1
<1>6. Forests!Create(n, p)
  <2>1. alive \ Doomed = alive /\ alive' \ Doomed' = alive'
    BY <1>4
  <2> QED BY <1>1, <1>2, <1>5, <2>1 DEF Forests!Create
<1> QED BY <1>2, <1>4, <1>6, ForestSteps DEF TypeOK

\* AddChildNode attaches, if it accepts the node.
LEMMA AddChildNodeAttaches ==
  ASSUME CInv, NEW n \in Nodes, NEW c \in Nodes, AddChildNode(n, c)
  PROVE  Forests!Next \/ UNCHANGED Forests!forestVars
<1>1. /\ n \in alive /\ c \in alive /\ n \notin Subtree(c) \ {c} /\ alive' = alive
      /\ stack = <<>> /\ call'.op = "none"
  BY DEF AddChildNode, Begin, NoCall
<1>2. IInv /\ TypeOK /\ Doomed = {} /\ Doomed' = {}
  BY <1>1, NothingDoomed, NothingDoomedAfter DEF CInv, IInv
<1>3. CASE Accepts(n, c)
  <2>1. parent' = [parent EXCEPT ![c] = n] /\ c # n /\ parent[c] = None
    BY <1>3 DEF AddChildNode, Accepts
  <2>2. Forests!Below(c) = Subtree(c)
    BY <1>1, <1>2, SubtreeIsBelow
  <2>3. [m \in alive |-> parent'[m]] = [[m \in alive |-> parent[m]] EXCEPT ![c] = n]
    <3>1. \A m \in alive : parent'[m] = IF m = c THEN n ELSE parent[m]
      BY <1>1, <1>2, <2>1 DEF TypeOK
    <3> QED BY <1>1, <3>1
  <2>4. Forests!Attach(c, n)
    BY <1>1, <1>2, <2>1, <2>2, <2>3 DEF Forests!Attach
  <2> QED BY <1>1, <1>2, <2>4, ForestSteps
<1>4. CASE ~ Accepts(n, c)
  <2>1. parent' = parent
    BY <1>4 DEF AddChildNode
  <2> QED BY <1>1, <1>2, <2>1, ForestStutters
<1> QED BY <1>3, <1>4

\* RemoveChildNode detaches; in a destructor the node is gone already.
LEMMA ForgetDetaches ==
  ASSUME CInv, Forget
  PROVE  Forests!Next \/ UNCHANGED Forests!forestVars
<1> DEFINE t == Head(stack)
<1>1. /\ stack # <<>> /\ t.op = "forget" /\ alive' = alive /\ call' = call
      /\ parent' = [parent EXCEPT ![t.other] = None] /\ Continue(<<>>)
  BY DEF Forget, Runs
<1>2. IInv /\ TypeOK /\ TreeIsConsistent /\ t.other \in Nodes /\ t.node \in Nodes /\ t \in Pending
  BY <1>1, PendingFrames DEF CInv, IInv, StackOK, TopOK, Frame
<1>3. t.other \in alive
  <2>1. parent[t.other] = t.node /\ t.node # None
    BY <1>1, <1>2, NodesAssumption DEF IInv, StackOK, TopOK
  <2> QED BY <1>2, <2>1 DEF TreeIsConsistent
<1>4. CASE call.op = "delete"
  <2>1. t.other \in Doomed /\ Doomed' = Doomed
    <3>1. /\ t.other \in call.subtree
          /\ \E f \in Buried : f.op = "deleteChildren" /\ f.node = t.other
      BY <1>1, <1>4 DEF CInv, CallsOK, DoomOK
    <3>2. Pending' = Buried
      BY <1>1, <1>2, PendingAfter, PendingFrames
    <3>3. stack' # <<>>
      BY <3>1, <3>2 DEF Pending, Frames
    <3> QED BY <1>1, <1>4, <3>1, <3>3, NothingDoomed, NothingDoomedAfter
  <2>2. \A m \in alive \ Doomed : parent'[m] = parent[m]
    BY <1>1, <1>2, <2>1 DEF TypeOK
  <2> QED BY <1>1, <2>1, <2>2, ForestStutters
<1>5. CASE call.op # "delete"
  <2> PICK c : c = t.other
    OBVIOUS
  <2>1. Doomed = {} /\ Doomed' = {}
    BY <1>1, <1>5, NothingDoomed, NothingDoomedAfter
  <2>2. [m \in alive |-> parent'[m]] = [[m \in alive |-> parent[m]] EXCEPT ![c] = None]
    <3>1. \A m \in alive : parent'[m] = IF m = c THEN None ELSE parent[m]
      BY <1>1, <1>2 DEF TypeOK
    <3> QED BY <1>3, <3>1
  <2>3. Forests!Detach(c)
    <3>1. alive \ Doomed = alive /\ alive' \ Doomed' = alive'
      BY <2>1
    <3> QED BY <1>1, <2>2, <3>1 DEF Forests!Detach
  <2> QED BY <1>2, <1>3, <2>1, <2>3, ForestSteps
<1> QED BY <1>4, <1>5

\* A call of delete deletes the subtree for the client.
LEMMA DeleteNodeDeletes ==
  ASSUME CInv, NEW n \in Nodes, DeleteNode(n)
  PROVE  Forests!Next
<1>1. /\ n \in alive /\ stack = <<>> /\ stack' = <<Of("delete", n)>>
      /\ alive' = alive /\ parent' = parent /\ call'.op = "delete" /\ call'.subtree = Subtree(n)
  BY DEF DeleteNode, BeginOnSubtree, tree
<1>2. stack' # <<>>
  BY <1>1
<1>3. Doomed = {} /\ Doomed' = Subtree(n)
  BY <1>1, <1>2, NothingDoomed, NothingDoomedAfter
<1>4. Forests!Below(n) = Subtree(n)
  BY <1>1, <1>3, SubtreeIsBelow
<1>5. [m \in alive \ Subtree(n) |-> parent[m]]
        = [m \in alive \ Subtree(n) |-> [k \in alive |-> parent[k]][m]]
  OBVIOUS
<1>6. Forests!Delete(n)
  BY <1>1, <1>3, <1>4, <1>5 DEF Forests!Delete
<1> QED BY <1>1, <1>3, <1>6, ForestSteps

\* The last frame of a delete frees the last node of the subtree.
LEMMA FreeStutters ==
  ASSUME CInv, Free
  PROVE  UNCHANGED Forests!forestVars
<1> DEFINE n == Head(stack).node
<1>1. /\ stack # <<>> /\ Head(stack).op = "deleteChildren" /\ children[n] = {}
      /\ alive' = alive \ {n} /\ parent' = parent /\ call' = call /\ Continue(<<>>)
  BY DEF Free, Runs
<1>2. /\ IInv /\ TypeOK /\ TreeIsConsistent /\ Forest /\ CallsOK
      /\ Pending = {Head(stack)} \cup Buried /\ Head(stack) \in Frame /\ n \in Nodes
  BY <1>1, PendingFrames DEF CInv, IInv, Frame
<1>3. call.op = "delete"
  BY <1>1, <1>2 DEF CallsOK, LivesOK
<1>4. /\ n \in call.subtree
      /\ \A m \in alive \cap call.subtree : Destructed(m) \/ parent[m] \in call.subtree
  BY <1>1, <1>2, <1>3 DEF CallsOK, DoomOK
<1>5. CASE stack' # <<>>
  <2>1. Doomed = call.subtree /\ Doomed' = call.subtree
    BY <1>1, <1>3, <1>5, NothingDoomed, NothingDoomedAfter
  <2> QED BY <1>1, <1>4, <2>1, ForestStutters
<1>6. CASE stack' = <<>>
  <2>1. Pending' = {}
    BY <1>6 DEF Pending, Frames
  <2>2. Buried = {}
    BY <1>1, <1>2, <2>1, PendingAfter
  <2>3. \A m : Destructed(m) => m = n
    BY <1>2, <2>2 DEF Destructed
  <2> DEFINE U == (alive \cap call.subtree) \ {n}
  <2>4. \A m \in U : parent[m] \in U
    <3>1. alive \subseteq Nodes /\ \A m \in alive : parent[m] \in alive \cup {None}
      BY <1>2 DEF TypeOK
    <3>2. \A m \in alive : parent[m] # n
      BY <1>1, <1>2, <3>1 DEF TreeIsConsistent
    <3>3. None \notin call.subtree
      BY <1>2, NodesAssumption DEF TypeOK
    <3> QED BY <1>4, <2>3, <3>1, <3>2, <3>3
  <2>5. U = {}
    <3>1. U \in SUBSET Nodes
      BY <1>2 DEF TypeOK
    <3> QED BY <1>2, <2>4, <3>1 DEF Forest
  <2>6. Doomed = call.subtree /\ Doomed' = {}
    BY <1>1, <1>3, <1>6, NothingDoomed, NothingDoomedAfter
  <2>7. alive' \ Doomed' = alive \ Doomed
    BY <1>1, <1>4, <2>5, <2>6
  <2> QED BY <1>1, <2>7, ForestStutters
<1> QED BY <1>5, <1>6

\* The other steps are none of the forest.
LEMMA OthersStutter ==
  ASSUME CInv, UNCHANGED tree,
         \/ stack = <<>> /\ (call'.op # "delete" \/ stack' = <<>>)
         \/ call' = call /\ (call.op = "delete" => (stack' = <<>> <=> stack = <<>>))
  PROVE  UNCHANGED Forests!forestVars
<1>1. Doomed' = Doomed
  BY NothingDoomed, NothingDoomedAfter
<1> QED BY <1>1, ForestStutters DEF tree

\* Every step is one of the forest or changes nothing in it.
LEMMA ForestStep ==
  ASSUME CInv, [Next]_vars
  PROVE  Forests!Next \/ UNCHANGED Forests!forestVars
<1>1. ASSUME NEW n \in Nodes, NEW p \in alive \cup {None}, New(n, p)
      PROVE  UNCHANGED Forests!forestVars
  BY <1>1, OthersStutter DEF New, Begin, NoCall
<1>2. ASSUME NEW n \in Nodes, NEW c \in Nodes, RemoveChildNode(n, c)
      PROVE  UNCHANGED Forests!forestVars
  BY <1>2, OthersStutter DEF RemoveChildNode, Begin, NoCall
<1>3. ASSUME NEW n \in Nodes, NEW on \in BOOLEAN, SetVisible(n, on)
      PROVE  UNCHANGED Forests!forestVars
  BY <1>3, OthersStutter DEF SetVisible, BeginOnSubtree
<1>4. ASSUME NEW n \in Nodes, SetColor(n)
      PROVE  UNCHANGED Forests!forestVars
  BY <1>4, OthersStutter DEF SetColor, Begin, NoCall
<1>5. CASE Render \/ RenderThread \/ UNCHANGED vars
  BY <1>5, OthersStutter DEF Render, RenderThread, StartRender, LockRender, EndRender, vars
<1>6. CASE Client
  BY <1>1, <1>2, <1>3, <1>4, <1>5, <1>6, AddChildNodeAttaches, DeleteNodeDeletes DEF Client
<1>7. CASE InitNode \/ Link \/ VisitChild \/ VisitSelf \/ ShowActors \/ ColorNode \/ Unlock
  <2>1. /\ UNCHANGED <<tree, call>> /\ stack # <<>>
        /\ Head(stack).op \notin {"unlink", "forget", "delete", "deleteChildren"}
    BY <1>7 DEF InitNode, Link, VisitChild, VisitSelf, ShowActors, ColorNode, Unlock, Runs
  <2>2. call.op # "delete"
    BY <2>1, Dooming DEF CInv
  <2> QED BY <2>1, <2>2, OthersStutter
<1>8. CASE Unlink \/ Destruct \/ DeleteChild
  <2>1. UNCHANGED <<tree, call>> /\ stack # <<>>
    BY <1>8 DEF Unlink, Destruct, DeleteChild, Runs
  <2>2. (CallsOK /\ IInv)' /\ IInv /\ CallsOK
    BY <1>8, NextIInv, ProgramCalls DEF CInv, Next, Program
  <2>3. stack' # <<>>
    <3>1. stack \in Seq(Frame) /\ Head(stack) \in Frame /\ Head(stack).node \in Nodes
          /\ Head(stack).other \in Nodes \cup {None} /\ TypeOK
      BY <2>1, PendingFrames DEF CInv, IInv, Frame
    <3>2. CASE Unlink
      <4>1. Continue(<<On("forget", Head(stack).node, Head(stack).other)>>)
        BY <3>2 DEF Unlink
      <4>2. On("forget", Head(stack).node, Head(stack).other) \in Frame
        BY <3>1, CallFrames DEF Ops
      <4> QED BY <2>1, <2>2, <4>1, <4>2, PendingAfter
    <3>3. CASE Destruct
      <4> DEFINE f == On("unlink", parent[Head(stack).node], Head(stack).node)
                 g == Of("deleteChildren", Head(stack).node)
      <4>1. \/ Continue(<<f>> \o <<g>>) /\ parent[Head(stack).node] # None
            \/ Continue(<<>> \o <<g>>)
        BY <3>3 DEF Destruct
      <4>2. g \in Frame /\ (parent[Head(stack).node] # None => f \in Frame)
        BY <3>1, CallFrames DEF Ops, TypeOK
      <4> HIDE DEF f, g
      <4> QED BY <2>1, <2>2, <4>1, <4>2, PendingAfter, Concatenated
    <3>4. CASE DeleteChild
      <4>1. PICK c \in children[Head(stack).node] : Continue(<<Of("delete", c), Head(stack)>>)
        BY <3>4 DEF DeleteChild
      <4>2. Of("delete", c) \in Frame
        BY <3>1, <4>1, CallFrames DEF Ops, TypeOK
      <4> QED BY <2>1, <2>2, <3>1, <4>1, <4>2, PendingAfter
    <3> QED BY <1>8, <3>2, <3>3, <3>4
  <2> QED BY <2>1, <2>3, OthersStutter
<1>9. CASE Program
  BY <1>7, <1>8, <1>9, ConstructCreates, ForgetDetaches, FreeStutters DEF Program
<1> QED BY <1>5, <1>6, <1>9 DEF Next

\* To a client the operations on the tree are atomic: it sees DAFFForest, in which
\* delete takes away a subtree, all of it and nothing else, in one step.
THEOREM ImplementsForests == Spec => ImplementsForest
<1>1. Init => Forests!Init
  <2> SUFFICES ASSUME Init PROVE Forests!Init
    OBVIOUS
  <2>1. alive \ Doomed = {}
    BY DEF Init
  <2>2. [n \in alive \ Doomed |-> parent[n]] = <<>>
    BY <2>1
  <2> QED BY <2>1, <2>2 DEF Forests!Init
<1>2. CInv /\ [Next]_vars => [Forests!Next]_(Forests!forestVars)
  BY ForestStep
<1> QED BY <1>1, <1>2, CallInvariant, PTL DEF Spec, ImplementsForest, Forests!Spec

-----------------------------------------------------------------------------
(* The lock.                                                                 *)

Unlocks == {i \in Frames : stack[i].op = "unlock"}

LocksOK ==
  /\ renderer = "drawing" => lock = "renderer"
  /\ Unlocks # {} => lock = "program"
  /\ \A i, j \in Unlocks : i = j

ShowsOK ==
  /\ \A n \in Nodes \ Shapes : shown[n] = TRUE
  /\ stack # <<>> /\ Head(stack).op = "show" => Head(stack).node \in Shapes

LInv == IInv /\ LocksOK /\ ShowsOK


-----------------------------------------------------------------------------
(* The stack.                                                                *)

\* The steps of a call put at most two frames in the place of the running one.
Plain(f) == f.op \notin {"unlock", "show"}
PlainStep ==
  \/ Continue(<<>>)
  \/ \E f \in Frame : Plain(f) /\ Continue(<<f>>)
  \/ \E f, g \in Frame : Plain(f) /\ Plain(g) /\ Continue(<<f, g>>)

\* Such a step brings no new frame that releases the lock.
LEMMA SameUnlocks ==
  ASSUME IInv, LocksOK, stack # <<>>,
         PlainStep \/ \E f \in Frame : f.op = "show" /\ Continue(<<f>>)
  PROVE  /\ Unlocks' # {} => Unlocks # {}
         /\ \A i, j \in Unlocks' : i = j
<1>1. stack \in Seq(Frame)
  BY DEF IInv, TypeOK
<1>2. Unlocks = {i \in Frames : stack[i].op = "unlock"}
      /\ Unlocks' = {i \in Frames' : stack'[i].op = "unlock"}
  BY DEF Unlocks
<1>3. \A i, j \in Frames : stack[i].op = "unlock" /\ stack[j].op = "unlock" => i = j
  BY <1>2 DEF LocksOK
<1>4. CASE Continue(<<>>)
  <2>1. \A i \in Frames' : i + 1 \in Frames /\ stack'[i] = stack[i + 1] /\ i \in Int
    BY <1>1, <1>4, Popped DEF Frames
  <2>2. Unlocks' # {} => Unlocks # {}
    BY <1>2, <2>1
  <2>3. \A i, j \in Unlocks' : i + 1 = j + 1 /\ i \in Int /\ j \in Int
    BY <1>2, <1>3, <2>1
  <2> QED BY <2>2, <2>3
<1>5. ASSUME NEW f \in Frame, f.op # "unlock", Continue(<<f>>)
      PROVE  /\ Unlocks' # {} => Unlocks # {}
             /\ \A i, j \in Unlocks' : i = j
  <2>1. /\ \A i \in 2 .. Len(stack) : stack'[i] = stack[i] /\ i \in Frames
        /\ stack'[1] = f /\ Frames' = Frames /\ Len(stack) \in Nat \ {0}
    BY <1>1, <1>5, Replaced
  <2>2. \A i \in Unlocks' : i \in Frames /\ stack[i].op = "unlock"
    <3>1. \A i \in Frames' : i = 1 \/ i \in 2 .. Len(stack)
      BY <2>1 DEF Frames
    <3> QED BY <1>2, <1>5, <2>1, <3>1
  <2> QED BY <1>2, <1>3, <2>2
<1>6. ASSUME NEW f \in Frame, NEW g \in Frame, f.op # "unlock", g.op # "unlock",
             Continue(<<f, g>>)
      PROVE  /\ Unlocks' # {} => Unlocks # {}
             /\ \A i, j \in Unlocks' : i = j
  <2>1. /\ \A i \in 3 .. Len(stack) + 1 : i - 1 \in 2 .. Len(stack) /\ stack'[i] = stack[i - 1]
        /\ stack'[1] = f /\ stack'[2] = g
        /\ Frames' = 1 .. Len(stack) + 1 /\ Len(stack) \in Nat \ {0}
    BY <1>1, <1>6, Grown
  <2>2. \A i \in Unlocks' : i \in Int /\ i - 1 \in Frames /\ stack[i - 1].op = "unlock"
    <3>1. \A i \in Frames' : i = 1 \/ i = 2 \/ i \in 3 .. Len(stack) + 1
      BY <2>1
    <3>2. \A i \in 3 .. Len(stack) + 1 : i \in Int /\ i - 1 \in Frames
      BY <2>1 DEF Frames
    <3> QED BY <1>2, <1>6, <2>1, <3>1, <3>2
  <2>3. \A i, j \in Unlocks' : i \in Int /\ j \in Int /\ i - 1 = j - 1
    BY <1>3, <2>2
  <2> QED BY <1>2, <2>2, <2>3
<1>7. QED
  BY <1>4, <1>5, <1>6 DEF PlainStep, Plain

\* The frame that releases the lock is the only one.
LEMMA Released ==
  ASSUME IInv, LocksOK, stack # <<>>, Head(stack).op = "unlock", Continue(<<>>)
  PROVE  Unlocks' = {}
<1>1. stack \in Seq(Frame)
  BY DEF IInv, TypeOK
<1>2. 1 \in Frames /\ Head(stack) = stack[1]
  BY <1>1, Running
<1>3. \A i \in Frames : stack[i].op = "unlock" => i = 1
  BY <1>2 DEF LocksOK, Unlocks
<1>4. \A i \in Frames' : i + 1 \in 2 .. Len(stack) /\ i + 1 \in Frames /\ stack'[i] = stack[i + 1]
  BY <1>1, Popped DEF Frames
<1>5. \A i \in Frames' : stack'[i].op # "unlock"
  BY <1>3, <1>4
<1> QED BY <1>5 DEF Unlocks

LEMMA LocksStay ==
  ASSUME IInv, LocksOK, stack # <<>>, UNCHANGED <<lock, renderer>>,
         PlainStep \/ \E f \in Frame : f.op = "show" /\ Continue(<<f>>)
  PROVE  LocksOK'
BY SameUnlocks DEF LocksOK

\* What comes back to run after such a step does not show actors.
LEMMA NothingShows ==
  ASSUME IInv, stack # <<>>, PlainStep
  PROVE  ~ (stack' # <<>> /\ Head(stack').op = "show")
<1>1. stack \in Seq(Frame)
  BY DEF IInv, TypeOK
<1>2. CASE Continue(<<>>)
  <2>1. \A i \in 2 .. Len(stack) : stack[i].op # "show"
    BY Waiting
  <2>2. stack' # <<>> => Head(stack') = stack'[1] /\ 1 \in Frames'
    BY <1>1, <1>2, Popped
  <2>3. \A i \in Frames' : i + 1 \in 2 .. Len(stack) /\ stack'[i] = stack[i + 1]
    BY <1>1, <1>2, Popped
  <2> QED BY <2>1, <2>2, <2>3
<1>3. ASSUME NEW f \in Frame, Plain(f), Continue(<<f>>)
      PROVE  Head(stack').op # "show"
  <2>1. Head(stack') = f
    BY <1>1, <1>3, Replaced
  <2> QED BY <1>3, <2>1 DEF Plain
<1>4. ASSUME NEW f \in Frame, NEW g \in Frame, Plain(f), Continue(<<f, g>>)
      PROVE  Head(stack').op # "show"
  <2>1. Head(stack') = f
    BY <1>1, <1>4, Grown
  <2> QED BY <1>4, <2>1 DEF Plain
<1> QED BY <1>2, <1>3, <1>4 DEF PlainStep

\* A step that leaves the lock alone and shows no actors.
LEMMA PlainKeeps ==
  ASSUME LInv, stack # <<>>, PlainStep, UNCHANGED <<lock, renderer>>,
         \A n \in Nodes \ Shapes : shown'[n] = TRUE
  PROVE  LocksOK' /\ ShowsOK'
<1>1. LocksOK'
  BY LocksStay DEF LInv
<1>2. ShowsOK'
  BY NothingShows DEF LInv, ShowsOK
<1> QED BY <1>1, <1>2

-----------------------------------------------------------------------------
(* Every step.                                                               *)

\* The frames the model builds are plain.
LEMMA PlainFrames ==
  ASSUME NEW n \in Nodes, NEW c \in Nodes \cup {None}, NEW on \in BOOLEAN,
         NEW todo \in SUBSET Nodes
  PROVE  /\ \A op \in Ops \ {"unlock", "show"} :
              /\ Of(op, n) \in Frame /\ Plain(Of(op, n))
              /\ On(op, n, c) \in Frame /\ Plain(On(op, n, c))
         /\ Visit(n, on, todo) \in Frame /\ Plain(Visit(n, on, todo))
<1>1. \A op \in Ops :
        /\ Of(op, n) \in Frame /\ Of(op, n).op = op
        /\ On(op, n, c) \in Frame /\ On(op, n, c).op = op
  BY CallFrames
<1>2. Visit(n, on, todo) \in Frame /\ Visit(n, on, todo).op = "visit"
  BY VisitFrames
<1> QED BY <1>1, <1>2 DEF Plain

\* What runs, with its types.
LEMMA RunningFrame ==
  ASSUME IInv, stack # <<>>
  PROVE  /\ stack \in Seq(Frame) /\ Head(stack) \in Frame
         /\ Head(stack).node \in Nodes /\ Head(stack).other \in Nodes \cup {None}
         /\ Head(stack).on \in BOOLEAN /\ Head(stack).todo \in SUBSET Nodes
         /\ children \in [Nodes -> SUBSET Nodes] /\ parent \in [Nodes -> Nodes \cup {None}]
         /\ shown \in [Nodes -> BOOLEAN]
<1>1. stack \in Seq(Frame) /\ TypeOK
  BY DEF IInv, TypeOK
<1> QED BY <1>1, Running DEF TypeOK

\* A client's call puts its one frame on the empty stack.
LEMMA StartKeeps ==
  ASSUME LInv, stack = <<>>, UNCHANGED <<shown, lock, renderer>>,
         stack' = <<>> \/ \E f \in Frame : Plain(f) /\ stack' = <<f>>
  PROVE  LocksOK' /\ ShowsOK'
<1>1. LocksOK /\ ShowsOK
  BY DEF LInv
<1>2. CASE stack' = <<>>
  <2>1. Frames' = {}
    BY <1>2 DEF Frames
  <2>2. Unlocks' = {}
    BY <2>1 DEF Unlocks
  <2> QED BY <1>1, <1>2, <2>2 DEF LocksOK, ShowsOK
<1>3. ASSUME NEW f \in Frame, Plain(f), stack' = <<f>>
      PROVE  LocksOK' /\ ShowsOK'
  <2>1. stack'[1] = f /\ Head(stack') = f /\ Frames' = {1}
    BY <1>3, Started
  <2>2. Unlocks' = {}
    BY <1>3, <2>1 DEF Unlocks, Plain
  <2> QED BY <1>1, <1>3, <2>1, <2>2 DEF LocksOK, ShowsOK, Plain
<1> QED BY <1>2, <1>3

\* Calls of the client: they only begin.
LEMMA ClientKeeps ==
  ASSUME LInv, Client
  PROVE  LocksOK' /\ ShowsOK'
<1>1. children \in [Nodes -> SUBSET Nodes]
  BY DEF LInv, IInv, TypeOK
<1>2. ASSUME NEW n \in Nodes, NEW p \in alive \cup {None}, New(n, p)
      PROVE  LocksOK' /\ ShowsOK'
  <2>1. p \in Nodes \cup {None}
    BY DEF LInv, IInv, TypeOK
  <2>2. On("construct", n, p) \in Frame /\ Plain(On("construct", n, p))
    BY <2>1, PlainFrames DEF Ops
  <2> QED BY <1>2, <2>2, StartKeeps DEF New, Begin, scene
<1>3. ASSUME NEW n \in Nodes, NEW c \in Nodes, AddChildNode(n, c)
      PROVE  LocksOK' /\ ShowsOK'
  <2>1. On("link", n, c) \in Frame /\ Plain(On("link", n, c))
    BY PlainFrames DEF Ops
  <2> QED BY <1>3, <2>1, StartKeeps DEF AddChildNode, Begin, scene
<1>4. ASSUME NEW n \in Nodes, NEW c \in Nodes, RemoveChildNode(n, c)
      PROVE  LocksOK' /\ ShowsOK'
  <2>1. On("unlink", n, c) \in Frame /\ Plain(On("unlink", n, c))
    BY PlainFrames DEF Ops
  <2> QED BY <1>4, <2>1, StartKeeps DEF RemoveChildNode, Begin, scene
<1>5. ASSUME NEW n \in Nodes, NEW on \in BOOLEAN, SetVisible(n, on)
      PROVE  LocksOK' /\ ShowsOK'
  <2>1. children[n] \in SUBSET Nodes
    BY <1>1
  <2>2. Visit(n, on, children[n]) \in Frame /\ Plain(Visit(n, on, children[n]))
    BY <2>1, PlainFrames, NodesAssumption
  <2> QED BY <1>5, <2>2, StartKeeps DEF SetVisible, BeginOnSubtree, scene
<1>6. ASSUME NEW n \in Nodes, SetColor(n) \/ DeleteNode(n)
      PROVE  LocksOK' /\ ShowsOK'
  <2>1. \A op \in {"setColor", "delete"} : Of(op, n) \in Frame /\ Plain(Of(op, n))
    BY PlainFrames DEF Ops
  <2> QED BY <1>6, <2>1, StartKeeps DEF SetColor, DeleteNode, Begin, BeginOnSubtree, scene
<1>7. CASE Render
  BY <1>7, StartKeeps DEF Render, scene
<1> QED BY <1>2, <1>3, <1>4, <1>5, <1>6, <1>7 DEF Client

\* The calls about the tree: construction and destruction.
LEMMA TreeKeeps ==
  ASSUME LInv, Construct \/ Destruct \/ DeleteChild \/ Free
  PROVE  LocksOK' /\ ShowsOK'
<1> DEFINE n == Head(stack).node
<1>1. IInv /\ \A m \in Nodes \ Shapes : shown[m] = TRUE
  BY DEF LInv, ShowsOK
<1>2. stack # <<>> /\ UNCHANGED <<lock, renderer>>
  BY DEF Construct, Destruct, DeleteChild, Free, Runs
<1>3. /\ Head(stack) \in Frame /\ n \in Nodes /\ Head(stack).other \in Nodes \cup {None}
      /\ children[n] \in SUBSET Nodes /\ parent[n] \in Nodes \cup {None}
      /\ shown \in [Nodes -> BOOLEAN]
  BY <1>1, <1>2, RunningFrame
<1>4. \A op \in Ops \ {"unlock", "show"} :
        /\ Of(op, n) \in Frame /\ Plain(Of(op, n))
        /\ \A m \in Nodes : Of(op, m) \in Frame /\ Plain(Of(op, m))
        /\ \A m \in Nodes : On(op, m, n) \in Frame /\ Plain(On(op, m, n))
  BY <1>3, PlainFrames, NodesAssumption
<1> HIDE DEF n
<1>5. CASE Construct
  <2>1. CASE Head(stack).other = None
    <3>1. Continue(<<>> \o <<Of("init", n)>>)
      BY <1>5, <2>1 DEF Construct, n
    <3>2. <<>> \o <<Of("init", n)>> = <<Of("init", n)>>
      BY <1>4, Concatenated DEF Ops
    <3>3. PlainStep
      BY <1>4, <3>1, <3>2 DEF PlainStep, Ops
    <3> QED BY <1>1, <1>2, <1>5, <3>3, PlainKeeps DEF Construct
  <2>2. CASE Head(stack).other # None
    <3> DEFINE f == On("link", Head(stack).other, n)
               g == Of("init", n)
    <3>1. Continue(<<f>> \o <<g>>)
      BY <1>5, <2>2 DEF Construct, n
    <3>2. f \in Frame /\ g \in Frame /\ Plain(f) /\ Plain(g)
      BY <1>3, <1>4, <2>2 DEF Ops
    <3> HIDE DEF f, g
    <3>3. PlainStep
      BY <3>1, <3>2, Concatenated DEF PlainStep
    <3> QED BY <1>1, <1>2, <1>5, <3>3, PlainKeeps DEF Construct
  <2> QED BY <2>1, <2>2
<1>6. CASE Destruct
  <2>1. CASE parent[n] = None
    <3>1. Continue(<<>> \o <<Of("deleteChildren", n)>>)
      BY <1>6, <2>1 DEF Destruct, n
    <3>2. <<>> \o <<Of("deleteChildren", n)>> = <<Of("deleteChildren", n)>>
      BY <1>4, Concatenated DEF Ops
    <3>3. PlainStep
      BY <1>4, <3>1, <3>2 DEF PlainStep, Ops
    <3> QED BY <1>1, <1>2, <1>6, <3>3, PlainKeeps DEF Destruct
  <2>2. CASE parent[n] # None
    <3> DEFINE f == On("unlink", parent[n], n)
               g == Of("deleteChildren", n)
    <3>1. Continue(<<f>> \o <<g>>)
      BY <1>6, <2>2 DEF Destruct, n
    <3>2. f \in Frame /\ g \in Frame /\ Plain(f) /\ Plain(g)
      BY <1>3, <1>4, <2>2 DEF Ops
    <3> HIDE DEF f, g
    <3>3. PlainStep
      BY <3>1, <3>2, Concatenated DEF PlainStep
    <3> QED BY <1>1, <1>2, <1>6, <3>3, PlainKeeps DEF Destruct
  <2> QED BY <2>1, <2>2
<1>7. CASE DeleteChild
  <2>1. PICK c \in children[n] : Continue(<<Of("delete", c), Head(stack)>>)
    BY <1>7 DEF DeleteChild, n
  <2>2. Of("delete", c) \in Frame /\ Plain(Of("delete", c))
    BY <1>3, <1>4 DEF Ops
  <2>3. Plain(Head(stack))
    BY <1>7 DEF DeleteChild, Runs, Plain
  <2>4. PlainStep
    BY <1>3, <2>1, <2>2, <2>3 DEF PlainStep
  <2> QED BY <1>1, <1>2, <1>7, <2>4, PlainKeeps DEF DeleteChild, scene
<1>8. CASE Free
  <2>1. PlainStep
    BY <1>8 DEF Free, PlainStep
  <2>2. shown' = [shown EXCEPT ![n] = TRUE]
    BY <1>8 DEF Free, n
  <2>3. \A m \in Nodes \ Shapes : shown'[m] = TRUE
    BY <1>1, <1>3, <2>2
  <2> QED BY <1>1, <1>2, <2>1, <2>3, PlainKeeps
<1> QED BY <1>5, <1>6, <1>7, <1>8

\* The other steps of a call that take the lock and leave it.
LEMMA SectionKeeps ==
  ASSUME LInv, InitNode \/ Link \/ Unlink \/ Forget \/ VisitChild \/ VisitSelf \/ ShowActors
  PROVE  LocksOK' /\ ShowsOK'
<1> DEFINE n == Head(stack).node
           o == Head(stack).other
           on == Head(stack).on
<1>1. IInv /\ LocksOK /\ ShowsOK /\ \A m \in Nodes \ Shapes : shown[m] = TRUE
  BY DEF LInv, ShowsOK
<1>2. stack # <<>> /\ UNCHANGED <<lock, renderer>>
  BY DEF InitNode, Link, Unlink, Forget, VisitChild, VisitSelf, ShowActors, Runs, scene
<1>3. /\ stack \in Seq(Frame) /\ n \in Nodes /\ o \in Nodes \cup {None} /\ on \in BOOLEAN
      /\ Head(stack).todo \in SUBSET Nodes
      /\ children \in [Nodes -> SUBSET Nodes] /\ shown \in [Nodes -> BOOLEAN]
  BY <1>1, <1>2, RunningFrame
<1> HIDE DEF n, o, on
<1>4. CASE Link \/ Forget
  BY <1>1, <1>2, <1>4, PlainKeeps DEF Link, Forget, PlainStep, scene
<1>5. CASE Unlink
  <2>1. On("forget", n, o) \in Frame /\ Plain(On("forget", n, o))
    BY <1>3, PlainFrames DEF Ops
  <2>2. PlainStep
    BY <1>5, <2>1 DEF Unlink, PlainStep, n, o
  <2> QED BY <1>1, <1>2, <1>5, <2>2, PlainKeeps DEF Unlink
<1>6. CASE InitNode
  <2>1. shown' = [shown EXCEPT ![n] = TRUE]
    BY <1>6 DEF InitNode, n
  <2>2. \A m \in Nodes \ Shapes : shown'[m] = TRUE
    BY <1>1, <1>3, <2>1
  <2>3. CASE n \notin Indicators
    <3>1. PlainStep
      BY <1>6, <2>3 DEF InitNode, PlainStep, n
    <3> QED BY <1>1, <1>2, <2>2, <3>1, PlainKeeps
  <2>4. CASE n \in Indicators
    <3> DEFINE f == On("construct", Arrow[n], n)
               g == Of("setColor", Arrow[n])
    <3>1. Arrow[n] \in Nodes
      BY <2>4, NodesAssumption DEF Nodes
    <3>2. f \in Frame /\ Plain(f) /\ g \in Frame /\ Plain(g)
      BY <1>3, <3>1, PlainFrames DEF Ops
    <3>3. Continue(<<f, g>>)
      BY <1>6, <2>4 DEF InitNode, n
    <3> HIDE DEF f, g
    <3>4. PlainStep
      BY <3>2, <3>3 DEF PlainStep
    <3> QED BY <1>1, <1>2, <2>2, <3>4, PlainKeeps
  <2> QED BY <2>3, <2>4
<1>7. CASE VisitChild
  <2>1. PICK c \in Head(stack).todo :
          Continue(<<Visit(c, on, children[c]), Visit(n, on, Head(stack).todo \ {c})>>)
    BY <1>7 DEF VisitChild, n, on
  <2> DEFINE f == Visit(c, on, children[c])
             g == Visit(n, on, Head(stack).todo \ {c})
  <2>2. f \in Frame /\ Plain(f) /\ g \in Frame /\ Plain(g)
    <3>1. c \in Nodes /\ children[c] \in SUBSET Nodes /\ Head(stack).todo \ {c} \in SUBSET Nodes
      BY <1>3
    <3> QED BY <1>3, <3>1, PlainFrames
  <2>3. Continue(<<f, g>>)
    BY <2>1
  <2> HIDE DEF f, g
  <2>4. PlainStep
    BY <2>2, <2>3 DEF PlainStep
  <2> QED BY <1>1, <1>2, <1>7, <2>4, PlainKeeps DEF VisitChild, scene
<1>8. CASE VisitSelf
  <2>1. CASE n \notin Shapes
    <3>1. PlainStep
      BY <1>8, <2>1 DEF VisitSelf, PlainStep, n
    <3> QED BY <1>1, <1>2, <1>8, <3>1, PlainKeeps DEF VisitSelf
  <2>2. CASE n \in Shapes
    <3>1. Show(n, on) \in Frame /\ Show(n, on).op = "show" /\ Show(n, on).node = n
      BY <1>3, VisitFrames DEF Show, FrameOf
    <3>2. Continue(<<Show(n, on)>>)
      BY <1>8, <2>2 DEF VisitSelf, n, on
    <3>3. LocksOK'
      BY <1>1, <1>2, <3>1, <3>2, LocksStay
    <3>4. Head(stack') = Show(n, on)
      BY <1>2, <1>3, <3>1, <3>2, Replaced
    <3>5. shown' = shown
      BY <1>8 DEF VisitSelf
    <3> QED BY <1>1, <2>2, <3>1, <3>3, <3>4, <3>5 DEF ShowsOK
  <2> QED BY <2>1, <2>2
<1>9. CASE ShowActors
  <2>1. n \in Shapes
    BY <1>1, <1>2, <1>9 DEF ShowsOK, ShowActors, Runs, n
  <2>2. shown' = [shown EXCEPT ![n] = on]
    BY <1>9 DEF ShowActors, n, on
  <2>3. \A m \in Nodes \ Shapes : shown'[m] = TRUE
    BY <1>1, <1>3, <2>1, <2>2
  <2>4. PlainStep
    BY <1>9 DEF ShowActors, PlainStep
  <2> QED BY <1>1, <1>2, <2>3, <2>4, PlainKeeps
<1> QED BY <1>4, <1>5, <1>6, <1>7, <1>8, <1>9

\* SetColor takes the lock for the frames it is replaced by.
LEMMA ColorKeeps ==
  ASSUME LInv, ColorNode
  PROVE  LocksOK' /\ ShowsOK'
<1> DEFINE n == Head(stack).node
           u == Of("unlock", n)
           f == Of("setColor", Arrow[n])
<1>1. /\ IInv /\ LocksOK /\ ShowsOK /\ stack # <<>> /\ lock = "free" /\ lock' = "program"
      /\ UNCHANGED <<shown, renderer>>
  BY DEF LInv, ColorNode, Locked, Runs, scene
<1>2. stack \in Seq(Frame) /\ n \in Nodes
  BY <1>1, RunningFrame
<1>3. u \in Frame /\ u.op = "unlock"
  BY <1>2, CallFrames, NodesAssumption DEF Ops
<1>4. n \in Indicators => f \in Frame /\ f.op = "setColor"
  <2>1. n \in Indicators => Arrow[n] \in Nodes
    BY NodesAssumption DEF Nodes
  <2> QED BY <2>1, CallFrames, NodesAssumption DEF Ops
<1>5. Continue((IF n \in Indicators THEN <<f>> ELSE <<>>) \o <<u>>)
  BY DEF ColorNode
<1>6. \A i \in 2 .. Len(stack) : stack[i].op # "unlock"
  BY <1>1, Waiting DEF LocksOK, Unlocks
<1> HIDE DEF n, u, f
<1>7. /\ \A i, j \in Unlocks' : i = j
      /\ Head(stack').op # "show"
  <2>1. CASE n \in Indicators
    <3>1. Continue(<<f, u>>)
      BY <1>3, <1>4, <1>5, <2>1, Concatenated
    <3>2. /\ Frames' = 1 .. Len(stack) + 1 /\ Len(stack) \in Nat \ {0}
          /\ stack'[1] = f /\ stack'[2] = u /\ Head(stack') = f
          /\ \A i \in 3 .. Len(stack) + 1 : i - 1 \in 2 .. Len(stack) /\ stack'[i] = stack[i - 1]
      BY <1>1, <1>2, <1>3, <1>4, <2>1, <3>1, Grown
    <3>3. \A i \in Frames' : i = 1 \/ i = 2 \/ i \in 3 .. Len(stack) + 1
      BY <3>2
    <3>4. \A i \in Unlocks' : i = 2
      BY <1>4, <1>6, <2>1, <3>2, <3>3 DEF Unlocks
    <3> QED BY <1>4, <2>1, <3>2, <3>4
  <2>2. CASE n \notin Indicators
    <3>1. Continue(<<u>>)
      BY <1>3, <1>5, <2>2, Concatenated
    <3>2. /\ Frames' = Frames /\ Len(stack) \in Nat \ {0} /\ Head(stack') = u
          /\ \A i \in 2 .. Len(stack) : stack'[i] = stack[i]
      BY <1>1, <1>2, <1>3, <3>1, Replaced
    <3>3. \A i \in Frames' : i = 1 \/ i \in 2 .. Len(stack)
      BY <3>2 DEF Frames
    <3>4. \A i \in Unlocks' : i = 1
      BY <1>6, <3>2, <3>3 DEF Unlocks
    <3> QED BY <1>3, <3>2, <3>4
  <2> QED BY <2>1, <2>2
<1> QED BY <1>1, <1>7 DEF LocksOK, ShowsOK

\* The lock is released by the frame that took it, which is then gone.
LEMMA UnlockKeeps ==
  ASSUME LInv, Unlock
  PROVE  LocksOK' /\ ShowsOK'
<1>1. /\ IInv /\ LocksOK /\ ShowsOK /\ stack # <<>> /\ Head(stack).op = "unlock"
      /\ Continue(<<>>) /\ lock' = "free" /\ UNCHANGED <<shown, renderer>>
  BY DEF LInv, Unlock, Runs, scene
<1>2. Unlocks' = {}
  BY <1>1, Released
<1>3. lock = "program"
  <2>1. 1 \in Unlocks
    BY <1>1, Running DEF IInv, TypeOK, Unlocks
  <2> QED BY <1>1, <2>1 DEF LocksOK
<1>4. ~ (stack' # <<>> /\ Head(stack').op = "show")
  BY <1>1, NothingShows DEF PlainStep
<1> QED BY <1>1, <1>2, <1>3, <1>4 DEF LocksOK, ShowsOK

\* The render thread draws under the lock.
LEMMA RenderKeeps ==
  ASSUME LInv, RenderThread
  PROVE  LocksOK' /\ ShowsOK'
<1>1. /\ IInv /\ LocksOK /\ ShowsOK /\ UNCHANGED <<shown, stack>>
      /\ StartRender => UNCHANGED lock /\ renderer' = "waiting"
      /\ LockRender => lock = "free" /\ lock' = "renderer"
      /\ EndRender => renderer = "drawing" /\ renderer' = "idle" /\ lock' = "free"
  BY DEF LInv, RenderThread, StartRender, LockRender, EndRender, Locked, scene
<1>2. Unlocks' = Unlocks
  BY <1>1 DEF Unlocks, Frames
<1> QED BY <1>1, <1>2 DEF LocksOK, ShowsOK, RenderThread

LEMMA InitLInv == Init => LInv
<1> SUFFICES ASSUME Init PROVE LInv
  OBVIOUS
<1>1. Frames = {}
  BY DEF Init, Frames
<1>2. Unlocks = {}
  BY <1>1 DEF Unlocks
<1> QED BY <1>2, InitIInv DEF Init, LInv, LocksOK, ShowsOK

LEMMA NextLInv == LInv /\ [Next]_vars => LInv'
<1> SUFFICES ASSUME LInv, [Next]_vars PROVE LInv'
  OBVIOUS
<1>1. IInv'
  BY NextIInv DEF LInv
<1>2. LocksOK' /\ ShowsOK'
  <2>1. CASE Client
    BY <2>1, ClientKeeps
  <2>2. CASE Program
    BY <2>2, TreeKeeps, SectionKeeps, ColorKeeps, UnlockKeeps DEF Program
  <2>3. CASE RenderThread
    BY <2>3, RenderKeeps
  <2>4. CASE UNCHANGED vars
    BY <2>4 DEF vars, scene, LInv, LocksOK, ShowsOK, Unlocks, Frames
  <2> QED BY <2>1, <2>2, <2>3, <2>4 DEF Next
<1> QED BY <1>1, <1>2 DEF LInv

LEMMA LockInvariant == Spec => []LInv
<1> QED BY InitLInv, NextLInv, PTL DEF Spec

-----------------------------------------------------------------------------
(* The theorem.                                                              *)

\* What a step of the drawing time must not do.
Still ==
  \A n \in alive : /\ parts'[n] = parts[n] /\ visible'[n] = visible[n]
                   /\ (n \in actors') = (n \in actors) /\ shown'[n] = shown[n]

\* The steps that touch the scene without asking for the lock.
LEMMA StillSteps ==
  ASSUME LInv, [Next]_vars, renderer = "drawing"
  PROVE  Still
<1>1. /\ IInv /\ ~ Locked /\ \A m \in Nodes \ Shapes : shown[m] = TRUE
      /\ alive \subseteq Nodes /\ actors \subseteq Shapes
      /\ parts \in [Nodes -> SUBSET alive] /\ visible \in [Nodes -> BOOLEAN]
      /\ shown \in [Nodes -> BOOLEAN]
  BY DEF LInv, LocksOK, ShowsOK, Locked, IInv, TypeOK
<1>2. CASE UNCHANGED scene
  BY <1>2 DEF scene, Still
<1>3. CASE Construct
  <2> DEFINE n == Head(stack).node
  <2>1. n \in Nodes /\ n \notin alive
    <3>1. stack # <<>> /\ Head(stack).op = "construct"
      BY <1>3 DEF Construct, Runs
    <3>2. n \in Nodes
      BY <1>1, <3>1, RunningFrame
    <3>3. TopOK
      BY <1>1 DEF IInv, StackOK
    <3> QED BY <3>1, <3>2, <3>3 DEF TopOK
  <2>2. /\ visible' = [visible EXCEPT ![n] = TRUE] /\ parts' = [parts EXCEPT ![n] = {}]
        /\ actors' = actors \ {n} /\ shown' = shown
    BY <1>3 DEF Construct
  <2> HIDE DEF n
  <2>3. \A m \in alive : m # n /\ m \in Nodes
    BY <1>1, <2>1
  <2>4. \A m \in alive : parts'[m] = parts[m] /\ visible'[m] = visible[m]
    BY <1>1, <2>2, <2>3
  <2>5. \A m \in alive : m \in actors' <=> m \in actors
    BY <2>2, <2>3
  <2>6. \A m \in alive : (m \in actors') = (m \in actors)
    BY <2>5, SMT
  <2>7. shown' = shown
    BY <2>2
  <2> QED BY <2>4, <2>6, <2>7, Zenon DEF Still
<1>4. CASE InitNode
  <2> DEFINE n == Head(stack).node
  <2>1. n \in Nodes /\ n \notin Shapes
    BY <1>1, <1>4, RunningFrame DEF InitNode, Runs
  <2>2. shown' = [shown EXCEPT ![n] = TRUE] /\ UNCHANGED <<parts, visible, actors>>
    BY <1>4, <2>1 DEF InitNode
  <2> HIDE DEF n
  <2> QED BY <1>1, <2>1, <2>2 DEF Still
<1>5. CASE Destruct
  <2> DEFINE n == Head(stack).node
  <2>1. n \notin Shapes
    BY <1>1, <1>5 DEF Destruct, Runs
  <2>2. actors' = actors \ {n} /\ UNCHANGED <<parts, visible, shown>>
    BY <1>5 DEF Destruct
  <2> HIDE DEF n
  <2> QED BY <1>1, <2>1, <2>2 DEF Still
<1>6. CASE Client
  BY <1>2, <1>6 DEF Client, New, AddChildNode, RemoveChildNode, SetVisible, SetColor,
                    DeleteNode, Render
<1>7. CASE Program
  BY <1>1, <1>2, <1>3, <1>4, <1>5, <1>7 DEF Program, Link, Unlink, Forget, VisitChild, VisitSelf,
     ShowActors, DeleteChild, Free, ColorNode, Unlock
<1>8. CASE RenderThread
  BY <1>2, <1>8 DEF RenderThread, StartRender, LockRender, EndRender
<1>9. CASE UNCHANGED vars
  BY <1>2, <1>9 DEF vars
<1> QED BY <1>6, <1>7, <1>8, <1>9 DEF Next

\* While the render thread draws a frame, no assembly, actor or visibility of a
\* node changes: what the global lock of DAFFViz is for.
THEOREM DrawnSceneIsStill == Spec => SceneIsStillWhileDrawn
<1>1. LInv /\ [Next]_vars =>
        [renderer = "drawing" =>
           \A n \in alive : /\ parts'[n] = parts[n] /\ visible'[n] = visible[n]
                            /\ (n \in actors') = (n \in actors) /\ shown'[n] = shown[n]]_vars
  BY StillSteps DEF Still
<1> QED BY <1>1, LockInvariant, PTL DEF Spec, SceneIsStillWhileDrawn
=============================================================================
