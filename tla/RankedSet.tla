------------------------------ MODULE RankedSet ------------------------------
(***************************************************************************)
(* What the heap of gps/utils/LocHeap.h promises its users: a set of       *)
(* ranked data with a top that nothing outranks.  LocHeap implements it,   *)
(* and the container of LocTimer is written against it.                    *)
(***************************************************************************)
EXTENDS Naturals

CONSTANTS Rankable, rank

VARIABLES content, top, returned

Highest(S) == {d \in S : \A e \in S : rank[d] >= rank[e]}

Init == content = {} /\ top = {} /\ returned = {}

Push(d) ==
  /\ d \notin content
  /\ content' = content \cup {d}
  /\ top' = IF \E t \in top : rank[t] >= rank[d] THEN top ELSE {d}
  /\ returned' = {}

(* Taking the top out promotes any of the highest that remain.             *)
TakeOut(S) ==
  /\ content' = content \ S
  /\ returned' = S
  /\ IF top # {} /\ top \subseteq S
       THEN \E T \in {{d} : d \in Highest(content')} \cup {{}} :
              top' = T /\ (T = {} <=> content' = {})
       ELSE UNCHANGED top

Pop == TakeOut(top)

Remove(d) == TakeOut({d} \cap content)

Next == Pop \/ \E d \in Rankable : Push(d) \/ Remove(d)

Spec == Init /\ [][Next]_<<content, top, returned>>
=============================================================================
