----------------------------- MODULE LinkedList -----------------------------
(***************************************************************************)
(* The doubly linked list of gps/utils/linked_list.c, pointer by pointer:  *)
(* the list under the message queues.  add links a new element at the      *)
(* head, remove unlinks the tail, search may unlink any, flush frees all.  *)
(* The model keeps beside it the sequence the list stands for.             *)
(***************************************************************************)
EXTENDS Naturals, Sequences, SequencesExt

CONSTANTS
  Elem,     \* the addresses malloc may return for an element
  NULL,     \* the null pointer
  Data      \* the data pointers

ASSUME LinkedListAssumption == NULL \notin Elem /\ NULL \notin Data

VARIABLES
  p_head, p_tail,   \* the list_state
  next, prev,       \* the links of each element; a freed one keeps its own
  data_ptr,
  allocated,        \* the elements that are not free
  newest            \* what the list stands for, the head first

links == <<p_head, p_tail, next, prev>>
listVars == <<links, data_ptr, allocated, newest>>

ListInit ==
  /\ p_head = NULL /\ p_tail = NULL
  /\ next = [e \in Elem |-> NULL] /\ prev = [e \in Elem |-> NULL]
  /\ data_ptr = [e \in Elem |-> NULL]
  /\ allocated = {}
  /\ newest = << >>

(* linked_list_add; when malloc fails nothing changes.                     *)
ListAdd(d) ==
  /\ \E elem \in Elem \ allocated :
       /\ allocated' = allocated \cup {elem}
       /\ data_ptr' = [data_ptr EXCEPT ![elem] = d]
       /\ next' = [next EXCEPT ![elem] = p_head]
       /\ prev' = [e \in Elem |-> IF e = elem THEN NULL
                                  ELSE IF e = p_head THEN elem ELSE prev[e]]
       /\ p_head' = elem
       /\ p_tail' = IF p_head = NULL THEN elem ELSE p_tail
  /\ newest' = <<d>> \o newest

(* linked_list_remove                                                      *)
ListRemove ==
  /\ p_tail # NULL
  /\ p_tail' = prev[p_tail]
  /\ next' = [e \in Elem |-> IF e = prev[p_tail] THEN NULL ELSE next[e]]
  /\ p_head' = IF prev[p_tail] = NULL THEN NULL ELSE p_head
  /\ allocated' = allocated \ {p_tail}
  /\ newest' = SubSeq(newest, 1, Len(newest) - 1)
  /\ UNCHANGED <<prev, data_ptr>>

(* The elements from e on along a link, as far as it goes.                 *)
Walk(e, link) ==
  LET n == Cardinality(Elem)
      step[i \in 0..n] == IF i = 0 THEN e
                          ELSE IF step[i - 1] = NULL THEN NULL ELSE link[step[i - 1]]
  IN SelectSeq([i \in 1..(n + 1) |-> step[i - 1]], LAMBDA x : x # NULL)

(* Where a search along a sequence of data stops: 0 when it finds nothing. *)
Found(data, d) == SelectInSeq(data, LAMBDA x : x = d)

Unlink_TailStays(tmp) ==
  /\ p_head' = IF prev[tmp] = NULL THEN next[tmp] ELSE p_head
  /\ next' = [e \in Elem |-> IF e = tmp THEN NULL
                             ELSE IF e = prev[tmp] THEN next[tmp] ELSE next[e]]
  /\ prev' = [e \in Elem |-> IF e = tmp THEN NULL
                             ELSE IF e = next[tmp] THEN prev[tmp] ELSE prev[e]]
  /\ UNCHANGED p_tail

Unlink(tmp) ==
  /\ p_head' = IF prev[tmp] = NULL THEN next[tmp] ELSE p_head
  /\ p_tail' = IF next[tmp] = NULL THEN prev[tmp] ELSE p_tail
  /\ next' = [e \in Elem |-> IF e = tmp THEN NULL
                             ELSE IF e = prev[tmp] THEN next[tmp] ELSE next[e]]
  /\ prev' = [e \in Elem |-> IF e = tmp THEN NULL
                             ELSE IF e = next[tmp] THEN prev[tmp] ELSE prev[e]]

(* linked_list_search from the head with rm_if_found: the first match is   *)
(* unlinked.                                                               *)
ListSearch(d) ==
  /\ p_tail # NULL
  /\ LET path == Walk(p_head, next)
         i == Found([j \in DOMAIN path |-> data_ptr[path[j]]], d)
     IN IF i = 0 THEN UNCHANGED <<links, allocated>>
        ELSE Unlink(path[i]) /\ allocated' = allocated \ {path[i]}
  /\ newest' = RemoveFirst(newest, d)
  /\ UNCHANGED data_ptr

(* linked_list_flush frees along next from the head.                       *)
ListFlush ==
  /\ allocated' = allocated \ ToSet(Walk(p_head, next))
  /\ p_head' = NULL /\ p_tail' = NULL
  /\ newest' = << >>
  /\ UNCHANGED <<next, prev, data_ptr>>

ListNext == ListRemove \/ ListFlush \/ \E d \in Data : ListAdd(d) \/ ListSearch(d)

ListSpec == ListInit /\ [][ListNext]_listVars

-----------------------------------------------------------------------------
(* The two chains of links are each other's reverse and hold exactly the   *)
(* elements that are allocated.                                            *)
ChainsAgree ==
  /\ Walk(p_tail, prev) = Reverse(Walk(p_head, next))
  /\ ToSet(Walk(p_head, next)) = allocated
  /\ Len(Walk(p_head, next)) = Cardinality(allocated)

(* Whatever was added, removed, searched and flushed, the list holds the    *)
(* data of the sequence, newest at the head ("adds an element to the head", *)
(* "retrieves data from the list tail"), no element leaks, none is reached  *)
(* once freed, and both chains tell the same: msg_q tests the head for      *)
(* emptiness and takes the tail.                                           *)
ListIntact ==
  /\ ChainsAgree
  /\ LET path == Walk(p_head, next) IN
       [i \in DOMAIN path |-> data_ptr[path[i]]] = newest
=============================================================================
