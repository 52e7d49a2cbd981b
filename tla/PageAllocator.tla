--------------------------- MODULE PageAllocator ---------------------------
(***************************************************************************)
(* The page allocator of kern/pmap.c and the kernel code that calls it.    *)
(*                                                                         *)
(* The callers (pgdir_walk, page_insert, page_remove and the check_*       *)
(* functions) take pages with page_alloc, add a reference with pp_ref++    *)
(* for every entry that points to the page, drop one with page_decref, and *)
(* give an unreferenced page back with page_free.  'held' is what they     *)
(* have been given and have not given back: they keep the pointers, the    *)
(* allocator keeps no record of it, and it may only look at pp_ref and     *)
(* pp_link.                                                                *)
(***************************************************************************)
EXTENDS PhysPages

CONSTANT
  DoubleFrees  \* TRUE lets a caller give a page back that it does not hold

ASSUME FreesAssumption == DoubleFrees \in BOOLEAN

VARIABLES
  pm,        \* pages[] and page_free_list
  held,      \* pages handed out and not given back
  panicked   \* _panic was called: the kernel never leaves the monitor

vars == <<pm, held, panicked>>

Usable == Page \ Reserved

(* The pages that ought to be on the free list. *)
FreePages == Usable \ held

Init ==
  /\ pm = page_init
  /\ held = {}
  /\ panicked = FALSE

PageAlloc ==
  /\ AllocResult(pm) # NULL
  /\ pm' = page_alloc(pm)
  /\ held' = held \cup {AllocResult(pm)}
  /\ UNCHANGED panicked

(* page_alloc with an empty list returns NULL and changes nothing: the     *)
(* caller gives up (pgdir_walk returns NULL, page_insert -E_NO_MEM).       *)
AllocFails ==
  /\ AllocResult(pm) = NULL
  /\ UNCHANGED vars

(* A well-behaved caller frees what it holds once pp_ref has reached 0.    *)
PageFree(pp) ==
  /\ pp \in held \/ DoubleFrees
  /\ pm.pp_ref[pp] = 0
  /\ IF FreePanics(pm, pp)
     THEN panicked' = TRUE /\ UNCHANGED <<pm, held>>
     ELSE /\ pm' = page_free(pm, pp)
          /\ held' = held \ {pp}
          /\ UNCHANGED panicked

(* pp->pp_ref++ by the caller; pp_ref stays below 2^16 (see module         *)
(* PageTables for what happens when it does not).                          *)
TakeRef(pp) ==
  /\ pp \in held
  /\ pm.pp_ref[pp] < RefMod - 1
  /\ pm' = IncRef(pm, pp)
  /\ UNCHANGED <<held, panicked>>

PageDecref(pp) ==
  /\ pp \in held
  /\ pm.pp_ref[pp] > 0
  /\ IF DecrefPanics(pm, pp)
     THEN panicked' = TRUE /\ UNCHANGED <<pm, held>>
     ELSE /\ pm' = page_decref(pm, pp)
          /\ held' = IF LastRef(pm, pp) THEN held \ {pp} ELSE held
          /\ UNCHANGED panicked

Running ==
  \/ PageAlloc
  \/ AllocFails
  \/ \E pp \in Usable : PageFree(pp) \/ TakeRef(pp) \/ PageDecref(pp)

(* _panic ends in the monitor's loop, which calls none of these. *)
Next == ~panicked /\ Running

Spec == Init /\ [][Next]_vars

-----------------------------------------------------------------------------
TypeOK ==
  /\ pm \in PageInfos
  /\ held \in SUBSET Usable
  /\ panicked \in BOOLEAN

(* Whatever the order of calls, page_free_list threads exactly the pages   *)
(* nobody holds, each once: no page is lost, none is handed out twice, the *)
(* reserved pages are never offered, and the list ends (pmap.c:308-353).   *)
FreeListSound ==
  /\ FreeListIs(pm, FreePages)
  /\ OffListUnlinked(pm, FreePages)
  /\ OnListUnreferenced(pm, FreePages)

(* Callers that respect the contract never trip page_free's panic, so the  *)
(* link a page is handed out with is NULL and page_decref frees a page     *)
(* only when it may be freed (pmap.c:332-353).                             *)
NeverPanics == ~panicked

(* The comment on page_alloc (pmap.c:302): pp_link is cleared so that      *)
(* page_free can check for double-free bugs.  Freeing a page that is       *)
(* already free must then panic.                                           *)
DoubleFreeCaught ==
  [][\A pp \in Usable \ held : PageFree(pp) => panicked']_vars

-----------------------------------------------------------------------------
FreeStack == ListOf(pm, FreePages)

Pool == INSTANCE PagePool WITH Pages <- Page, stack <- FreeStack, refs <- pm.pp_ref

(* The linked list and the reference counts implement the pool of          *)
(* PagePool: a stack of free pages, each page back on it with its last     *)
(* reference (the order check_page_alloc asserts, pmap.c:676-679).         *)
ImplementsPool == Pool!Spec
=============================================================================
