------------------------------- MODULE LocHeap -------------------------------
(***************************************************************************)
(* The heap of gps/utils/LocHeap.cpp as the tree it is: each node holds a  *)
(* datum, the size of its subtree and two links.  push drops the new node  *)
(* into the smaller subtree, pop lets the higher ranked child rise and     *)
(* cuts the leaf where the swaps end, remove searches the subtrees whose   *)
(* top the datum does not outrank.  A tree is a record, Nil is no node.    *)
(***************************************************************************)
EXTENDS Naturals

CONSTANTS
  Rankable,   \* the data, told apart by address
  rank        \* the rank of each: more is higher

ASSUME LocHeapAssumption == rank \in [Rankable -> Nat]

VARIABLES
  tree,       \* mTree
  content,    \* the data pushed and not yet popped or removed
  returned    \* what the last pop or remove returned, a set of at most one

heapVars == <<tree, content, returned>>

Nil == [size |-> 0]

OutRanks(d, e) == rank[d] > rank[e]

Leaf(d) == [size |-> 1, data |-> d, left |-> Nil, right |-> Nil]

(* The mutated comparison lets an equal rank take the top.                 *)
RECURSIVE PushNode_SwapsTies(_, _)
PushNode_SwapsTies(t, d) ==
  LET up   == rank[d] >= rank[t.data]
      low  == IF up THEN t.data ELSE d
      grown == [t EXCEPT !.data = IF up THEN d ELSE @, !.size = @ + 1]
  IN IF t.left = Nil THEN [grown EXCEPT !.left = Leaf(low)]
     ELSE IF t.right = Nil THEN [grown EXCEPT !.right = Leaf(low)]
     ELSE IF t.left.size <= t.right.size
       THEN [grown EXCEPT !.left = PushNode_SwapsTies(t.left, low)]
     ELSE [grown EXCEPT !.right = PushNode_SwapsTies(t.right, low)]

RECURSIVE PushNode(_, _)
PushNode(t, d) ==
  LET high == IF OutRanks(d, t.data) THEN d ELSE t.data
      low  == IF OutRanks(d, t.data) THEN t.data ELSE d
      grown == [t EXCEPT !.data = high, !.size = @ + 1]
  IN CASE t.left = Nil -> [grown EXCEPT !.left = Leaf(low)]
       [] t.left # Nil /\ t.right = Nil -> [grown EXCEPT !.right = Leaf(low)]
       [] t.left # Nil /\ t.right # Nil /\ t.left.size <= t.right.size ->
            [grown EXCEPT !.left = PushNode(t.left, low)]
       [] OTHER -> [grown EXCEPT !.right = PushNode(t.right, low)]

(* The tree without its top datum.                                         *)
RECURSIVE PopNode(_)
PopNode(t) ==
  LET leftRises == t.right = Nil \/ (t.left # Nil /\ OutRanks(t.left.data, t.right.data))
  IN CASE t.left = Nil /\ t.right = Nil -> Nil
       [] t.right # Nil /\ ~leftRises ->
            [t EXCEPT !.data = t.right.data, !.size = @ - 1, !.right = PopNode(t.right)]
       [] OTHER ->
            [t EXCEPT !.data = t.left.data, !.size = @ - 1, !.left = PopNode(t.left)]

(* The tree without d, or the same tree when the search does not find it.  *)
RECURSIVE RemoveNode(_, _)
RemoveNode(t, d) ==
  IF t = Nil THEN Nil
  ELSE IF d = t.data THEN PopNode(t)
  ELSE IF OutRanks(d, t.data) THEN t
  ELSE LET l == RemoveNode(t.left, d) IN
       IF l # t.left THEN [t EXCEPT !.left = l, !.size = @ - 1]
       ELSE LET r == RemoveNode(t.right, d) IN
            IF r # t.right THEN [t EXCEPT !.right = r, !.size = @ - 1] ELSE t

TopOf(t) == IF t = Nil THEN {} ELSE {t.data}

-----------------------------------------------------------------------------
HeapInit == tree = Nil /\ content = {} /\ returned = {}

HeapPush(d) ==
  /\ d \notin content
  /\ tree' = IF tree = Nil THEN Leaf(d) ELSE PushNode(tree, d)
  /\ content' = content \cup {d}
  /\ returned' = {}

HeapPop ==
  /\ returned' = TopOf(tree)
  /\ tree' = IF tree = Nil THEN Nil ELSE PopNode(tree)
  /\ content' = content \ returned'

(* remove is also called for a datum that was popped already.              *)
HeapRemove(d) ==
  /\ tree' = RemoveNode(tree, d)
  /\ returned' = IF tree' = tree THEN {} ELSE {d}
  /\ content' = content \ {d}

HeapNext == HeapPop \/ \E d \in Rankable : HeapPush(d) \/ HeapRemove(d)

HeapSpec == HeapInit /\ [][HeapNext]_heapVars

-----------------------------------------------------------------------------
(* The tree behaves as the set with a top that its users see: pop returns  *)
(* a datum nothing outranks, remove exactly what it was asked for, and a   *)
(* push moves the top only for a datum that outranks it, by which the      *)
(* timer container tells whether the kernel has to hear of it.             *)
R == INSTANCE RankedSet WITH top <- TopOf(tree)

ImplementsRankedSet == R!Spec
=============================================================================
