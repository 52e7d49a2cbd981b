----------------------------- MODULE LinkedList -----------------------------
(***************************************************************************)
(* The doubly linked lists of inc/queue.h (lab 2).  A pointer field is     *)
(* named by the structure it is in: next[ListHead] is lh_first, next[e] is *)
(* the le_next of element e, and prev[e], its le_prev, is the structure    *)
(* whose field points at e.  'list' is the list as the users of the macros *)
(* have made it.  They insert an element only while it is in no list, and  *)
(* name only elements of the list as places.                               *)
(***************************************************************************)
EXTENDS Naturals, Sequences

CONSTANTS Elements, ListHead, NULL

VARIABLES next, prev, list

vars == <<next, prev, list>>

InList == {list[i] : i \in 1 .. Len(list)}

(* The list with e at place k, and without what is at place k.             *)
Inserted(k, e) ==
  [i \in 1 .. Len(list) + 1 |->
     IF i < k THEN list[i] ELSE IF i = k THEN e ELSE list[i - 1]]

Removed(k) ==
  [i \in 1 .. Len(list) - 1 |-> IF i < k THEN list[i] ELSE list[i + 1]]

-----------------------------------------------------------------------------
(* A list is declared empty; the links of elements hold anything.          *)
Init ==
  /\ next \in [Elements \cup {ListHead} -> Elements \cup {NULL}]
  /\ prev \in [Elements -> Elements \cup {ListHead}]
  /\ next[ListHead] = NULL
  /\ list = <<>>

LIST_INIT ==
  /\ next' = [next EXCEPT ![ListHead] = NULL]
  /\ list' = <<>>
  /\ UNCHANGED prev

(* What follows x gets to know its new predecessor before x lets go of it. *)
LinkAfter(x, e) ==
  /\ prev' = IF next[x] # NULL
             THEN [prev EXCEPT ![next[x]] = e, ![e] = x] ELSE [prev EXCEPT ![e] = x]
  /\ next' = [next EXCEPT ![e] = next[x], ![x] = e]

LIST_INSERT_HEAD(e) ==
  /\ e \notin InList
  /\ LinkAfter(ListHead, e)
  /\ list' = Inserted(1, e)

LIST_INSERT_AFTER(k, e) ==
  /\ e \notin InList
  /\ LinkAfter(list[k], e)
  /\ list' = Inserted(k + 1, e)

(* The pointer at the element is found without a walk along the list.      *)
LIST_INSERT_BEFORE(k, e) ==
  /\ e \notin InList
  /\ prev' = [prev EXCEPT ![e] = prev[list[k]], ![list[k]] = e]
  /\ next' = [next EXCEPT ![e] = list[k], ![prev[list[k]]] = e]
  /\ list' = Inserted(k, e)

LIST_REMOVE(k) ==
  LET e == list[k]
  IN  /\ prev' = IF next[e] # NULL THEN [prev EXCEPT ![next[e]] = prev[e]] ELSE prev
      /\ next' = [next EXCEPT ![prev[e]] = next[e]]
      /\ list' = Removed(k)

Next ==
  \/ LIST_INIT
  \/ \E e \in Elements : LIST_INSERT_HEAD(e)
  \/ \E k \in 1 .. Len(list), e \in Elements :
       LIST_INSERT_AFTER(k, e) \/ LIST_INSERT_BEFORE(k, e)
  \/ \E k \in 1 .. Len(list) : LIST_REMOVE(k)

Spec == Init /\ [][Next]_vars

-----------------------------------------------------------------------------
TypeOK ==
  /\ next \in [Elements \cup {ListHead} -> Elements \cup {NULL}]
  /\ prev \in [Elements -> Elements \cup {ListHead}]
  /\ list \in Seq(Elements)

(* The links are those of the list: LIST_FOREACH visits its elements in    *)
(* their order, each once, and stops, and every le_prev is the field that  *)
(* points at its element, whatever insertions and removals there have been *)
(* and whatever a removed element still holds (queue.h:160-217).           *)
LinksList ==
  /\ next[ListHead] = IF list = <<>> THEN NULL ELSE list[1]
  /\ \A i \in 1 .. Len(list) :
       /\ next[list[i]] = IF i = Len(list) THEN NULL ELSE list[i + 1]
       /\ prev[list[i]] = IF i = 1 THEN ListHead ELSE list[i - 1]
  /\ \A i, j \in 1 .. Len(list) : list[i] = list[j] => i = j
=============================================================================
