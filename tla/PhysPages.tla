----------------------------- MODULE PhysPages -----------------------------
(***************************************************************************)
(* The physical page tracker of kern/pmap.c as pure operators.             *)
(*                                                                         *)
(* The global 'pages' array and the head of the free list are one record   *)
(*                                                                         *)
(*    pm = [pp_ref, pp_link, page_free_list]                               *)
(*                                                                         *)
(* and each function of pmap.c that touches them is an operator from the   *)
(* record before the call to the record after it, so that a handler that   *)
(* makes several of these calls composes them.  A 'struct PageInfo *' is   *)
(* the number of the page it describes (page2pa and pa2page are then the   *)
(* identity).  The bytes of a page are not here: the memset that           *)
(* page_alloc(ALLOC_ZERO) makes is modelled where the contents matter, in  *)
(* module PageTables.                                                      *)
(***************************************************************************)
EXTENDS Naturals, FiniteSets

CONSTANTS
  NPages,     \* npages: physical pages of the machine
  BaseMem,    \* npages_basemem: pages below the I/O hole
  FirstFree,  \* first page after the I/O hole, the kernel and boot_alloc'd data
  RefMod,     \* 2^16 in the code, where pp_ref is a uint16_t
  NULL

ASSUME PhysAssumption ==
  /\ NPages \in Nat /\ BaseMem \in Nat /\ FirstFree \in Nat
  /\ 1 <= BaseMem /\ BaseMem <= FirstFree /\ FirstFree <= NPages
  /\ RefMod \in Nat /\ RefMod > 1
  /\ NULL \notin Nat

Page == 0 .. NPages - 1

(* A 'struct PageInfo' array with its free list. *)
PageInfos ==
  [pp_ref : [Page -> 0 .. RefMod - 1],
   pp_link : [Page -> Page \cup {NULL}],
   page_free_list : Page \cup {NULL}]

(* Pages the allocator must never hand out: page 0, then the I/O hole and  *)
(* everything up to the end of the boot_alloc'd structures.                *)
Reserved == {0} \cup (BaseMem .. FirstFree - 1)

Highest(S) == CHOOSE m \in S : \A q \in S : q <= m

HighestOrNull(S) == IF S = {} THEN NULL ELSE Highest(S)

(* Mutant of page_init: every page is free, as in the lab's example code.  *)
page_init_AllFree ==
  [pp_ref |-> [p \in Page |-> 0],
   pp_link |-> [p \in Page |-> HighestOrNull({q \in Page : q < p})],
   page_free_list |-> HighestOrNull(Page)]

(* page_init pushes every usable page in increasing order, so each links   *)
(* to the next lower one and the head is the highest.                      *)
page_init ==
  LET usable == Page \ Reserved
  IN  [pp_ref |-> [p \in Page |-> IF p \in usable THEN 0 ELSE 1],
       pp_link |-> [p \in Page |->
                     IF p \in usable
                     THEN HighestOrNull({q \in usable : q < p})
                     ELSE NULL],
       page_free_list |-> HighestOrNull(usable)]

(* page_alloc: the page returned, NULL when the list is empty ...          *)
AllocResult(pm) == pm.page_free_list

(* Mutant of page_alloc: pp_link is not cleared.                           *)
page_alloc_KeepsLink(pm) ==
  IF pm.page_free_list = NULL
  THEN pm
  ELSE [pm EXCEPT !.page_free_list = pm.pp_link[pm.page_free_list]]

(* ... and the state it leaves: the head unlinked, its ref 0, its link NULL. *)
page_alloc(pm) ==
  LET pp == pm.page_free_list
  IN  IF pp = NULL
      THEN pm
      ELSE [pp_ref |-> [pm.pp_ref EXCEPT ![pp] = 0],
            pp_link |-> [pm.pp_link EXCEPT ![pp] = NULL],
            page_free_list |-> pm.pp_link[pp]]

(* page_free panics on a page that is referenced or has a link ...         *)
FreePanics(pm, pp) == pm.pp_ref[pp] # 0 \/ pm.pp_link[pp] # NULL

(* Mutant of page_free: the two assignments in the other order.            *)
page_free_SelfLink(pm, pp) ==
  [pp_ref |-> pm.pp_ref,
   pp_link |-> [pm.pp_link EXCEPT ![pp] = pp],
   page_free_list |-> pp]

(* ... and otherwise pushes it on the list.                                *)
page_free(pm, pp) ==
  [pp_ref |-> pm.pp_ref,
   pp_link |-> [pm.pp_link EXCEPT ![pp] = pm.page_free_list],
   page_free_list |-> pp]

(* pp->pp_ref++, at the width of the field. *)
IncRef(pm, pp) ==
  [pm EXCEPT !.pp_ref[pp] = (@ + 1) % RefMod]

DecRef(pm, pp) ==
  [pm EXCEPT !.pp_ref[pp] = (@ + RefMod - 1) % RefMod]

(* page_decref: drop a reference, and free the page with the last one.     *)
LastRef(pm, pp) == DecRef(pm, pp).pp_ref[pp] = 0

DecrefPanics(pm, pp) ==
  LastRef(pm, pp) /\ FreePanics(DecRef(pm, pp), pp)

(* Mutant of page_decref: pp->pp_ref-- == 0.                               *)
page_decref_PostDecrement(pm, pp) ==
  IF pm.pp_ref[pp] = 0
  THEN page_free(DecRef(pm, pp), pp)
  ELSE DecRef(pm, pp)

page_decref(pm, pp) ==
  IF LastRef(pm, pp)
  THEN page_free(DecRef(pm, pp), pp)
  ELSE DecRef(pm, pp)

(* The k-th page of the free list, NULL beyond its end. *)
NthFree(pm) ==
  LET next == [p \in Page \cup {NULL} |-> IF p = NULL THEN NULL ELSE pm.pp_link[p]]
      nth[k \in 1 .. NPages] ==
        IF k = 1 THEN pm.page_free_list ELSE next[nth[k - 1]]
  IN  nth

-----------------------------------------------------------------------------
(* f lists the pages of S in the order the free list threads them: the     *)
(* head first, each linked to the next, the last to NULL, none twice and   *)
(* none left out.                                                          *)
Threads(pm, S, f) ==
  LET n == Cardinality(S)
  IN  /\ pm.page_free_list = IF n = 0 THEN NULL ELSE f[1]
      /\ \A i \in 1 .. n : pm.pp_link[f[i]] = IF i = n THEN NULL ELSE f[i + 1]
      /\ \A i, j \in 1 .. n : f[i] = f[j] => i = j
      /\ \A p \in S : \E i \in 1 .. n : f[i] = p

(* The free list holds exactly the pages of S. *)
FreeListIs(pm, S) ==
  \E f \in [1 .. Cardinality(S) -> S] : Threads(pm, S, f)

(* ... in this order, while its links make a list of them.                 *)
ListOf(pm, S) ==
  IF FreeListIs(pm, S)
  THEN CHOOSE f \in [1 .. Cardinality(S) -> S] : Threads(pm, S, f)
  ELSE <<>>

(* A page that is not on the free list is not linked to anything, and one  *)
(* that is on it has no references.                                        *)
OffListUnlinked(pm, S) == \A p \in Page \ S : pm.pp_link[p] = NULL

OnListUnreferenced(pm, S) == \A p \in S : pm.pp_ref[p] = 0
=============================================================================
