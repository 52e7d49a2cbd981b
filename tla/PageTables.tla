---------------------------- MODULE PageTables -----------------------------
(***************************************************************************)
(* The two-level page tables of kern/pmap.c: pgdir_walk, page_insert,      *)
(* page_lookup, page_remove and tlb_invalidate on the installed            *)
(* kern_pgdir, with the kernel code that calls them (as the check_page     *)
(* functions do) and with the MMU, which walks the tables and fills the    *)
(* TLB between any two stores of the kernel.                               *)
(*                                                                         *)
(* The kernel is a single thread that runs with interrupts off, so its     *)
(* calls do not interleave with each other; but each store that the MMU    *)
(* can see (a directory entry, a table entry, invlpg) is a step of its     *)
(* own.  'op' is the call in progress: its pc, arguments and locals.       *)
(***************************************************************************)
EXTENDS PageMaps

VARIABLES
  pm,          \* pages[] and page_free_list
  kern_pgdir,  \* PDX -> the page of the table, or NULL; always P|W|U
  mem,         \* page -> its words, read as table entries
  tlb,         \* VA -> the entry the MMU has cached, or NULL
  held,        \* pages the caller has allocated and not mapped or freed
  op,          \* the call in progress
  panicked     \* _panic was called

mmu == <<kern_pgdir, mem>>
vars == <<pm, kern_pgdir, mem, tlb, held, op, panicked>>

PtePointer == [page : Page, ptx : PTX]
Usable == Page \ Reserved

Idle == [pc |-> "idle"]

(* The tables in memory, as the operators of PageMaps take them, and what  *)
(* the MMU finds in them for va.                                           *)
tables == [pm |-> pm, kern_pgdir |-> kern_pgdir, mem |-> mem]

MmuWalk(va) == Walk(tables, va)

MappedPages == MappedIn(tables)

Init ==
  /\ pm = page_init
  /\ kern_pgdir = [d \in PDX |-> NULL]
  /\ mem = [p \in Page |-> Filled(JUNK)]
  /\ tlb = [va \in VA |-> NULL]
  /\ held = {}
  /\ op = Idle
  /\ panicked = FALSE

-----------------------------------------------------------------------------
(* page_alloc and page_free by the caller, who fills the page it gets.     *)
PageAlloc ==
  /\ op = Idle /\ AllocResult(pm) # NULL
  /\ pm' = page_alloc(pm)
  /\ held' = held \cup {AllocResult(pm)}
  /\ mem' = [mem EXCEPT ![AllocResult(pm)] = Filled(JUNK)]
  /\ UNCHANGED <<kern_pgdir, tlb, op, panicked>>

PageFree(pp) ==
  /\ op = Idle /\ pp \in held
  /\ IF FreePanics(pm, pp)
     THEN panicked' = TRUE /\ UNCHANGED <<pm, held>>
     ELSE /\ pm' = page_free(pm, pp)
          /\ held' = held \ {pp}
          /\ UNCHANGED panicked
  /\ UNCHANGED <<mmu, tlb, op>>

(* Mutant of PageInsert: the new reference is not counted.                 *)
PageInsert_Uncounted(pp, va, perm) ==
  /\ op = Idle /\ pp \in held \cup MappedPages /\ ~WalkFails(tables, va)
  /\ LET w == pgdir_walk(tables, va)
     IN  /\ pm' = w.pm
         /\ kern_pgdir' = w.kern_pgdir
         /\ mem' = w.mem
         /\ op' = [pc |-> "remove", va |-> va, old |-> NULL,
                   new |-> [page |-> pp, perm |-> perm],
                   pte |-> [page |-> w.kern_pgdir[va[1]], ptx |-> va[2]]]
  /\ UNCHANGED <<tlb, held, panicked>>

(* page_insert: find or make the table, keep the pointer to the entry, and *)
(* count the new reference before anything is removed.                     *)
PageInsert(pp, va, perm) ==
  /\ op = Idle /\ pp \in held \cup MappedPages /\ ~WalkFails(tables, va)
  /\ LET w == pgdir_walk(tables, va)
     IN  /\ pm' = IncRef(w.pm, pp)
         /\ kern_pgdir' = w.kern_pgdir
         /\ mem' = w.mem
         /\ op' = [pc |-> "remove", va |-> va, old |-> NULL,
                   new |-> [page |-> pp, perm |-> perm],
                   pte |-> [page |-> w.kern_pgdir[va[1]], ptx |-> va[2]]]
  /\ UNCHANGED <<tlb, held, panicked>>

(* No free page for the table: -E_NO_MEM, and nothing has changed.         *)
PageInsertNoMem(pp, va) ==
  /\ op = Idle /\ pp \in held \cup MappedPages /\ WalkFails(tables, va)
  /\ UNCHANGED vars

(* A call of page_remove by itself.                                        *)
PageRemove(va) ==
  /\ op = Idle
  /\ op' = [pc |-> "remove", va |-> va, old |-> NULL, new |-> NULL, pte |-> NULL]
  /\ UNCHANGED <<pm, mmu, tlb, held, panicked>>

(* Where a call goes when page_remove returns.                             *)
AfterRemove == IF op.new = NULL THEN Idle ELSE [op EXCEPT !.pc = "set"]

(* page_remove finds nothing mapped and returns.                           *)
RemoveNothing ==
  /\ op.pc = "remove" /\ MmuWalk(op.va) = NULL
  /\ op' = AfterRemove
  /\ UNCHANGED <<pm, mmu, tlb, held, panicked>>

(* page_remove finds an entry: pa2page panics on a word that is not the    *)
(* address of a page; otherwise the page loses a reference, and may be     *)
(* free from here on while its entry is still there.                       *)
RemoveDecref ==
  LET pte == MmuWalk(op.va)
  IN  /\ op.pc = "remove" /\ pte # NULL
      /\ IF pte = JUNK \/ DecrefPanics(pm, pte.page)
         THEN panicked' = TRUE /\ UNCHANGED <<pm, op>>
         ELSE /\ pm' = page_decref(pm, pte.page)
              /\ op' = [op EXCEPT !.pc = "clear", !.old = pte]
              /\ UNCHANGED panicked
      /\ UNCHANGED <<mmu, tlb, held>>

(* *pte = 0                                                                *)
RemoveClear ==
  /\ op.pc = "clear"
  /\ mem' = [mem EXCEPT ![kern_pgdir[op.va[1]]][op.va[2]] = NULL]
  /\ op' = [op EXCEPT !.pc = "flush"]
  /\ UNCHANGED <<pm, kern_pgdir, tlb, held, panicked>>

(* Mutant of RemoveFlush: no invlpg when the same page goes back in.       *)
RemoveFlush_NotSamePage ==
  /\ op.pc = "flush"
  /\ tlb' = IF op.new # NULL /\ op.new.page = op.old.page
            THEN tlb ELSE [tlb EXCEPT ![op.va] = NULL]
  /\ op' = AfterRemove
  /\ UNCHANGED <<pm, mmu, held, panicked>>

(* tlb_invalidate                                                          *)
RemoveFlush ==
  /\ op.pc = "flush"
  /\ tlb' = [tlb EXCEPT ![op.va] = NULL]
  /\ op' = AfterRemove
  /\ UNCHANGED <<pm, mmu, held, panicked>>

(* The last store of page_insert, through the pointer it kept.  The page   *)
(* now belongs to its mappings.                                            *)
InsertSet ==
  /\ op.pc = "set"
  /\ mem' = [mem EXCEPT ![op.pte.page][op.pte.ptx] = op.new]
  /\ held' = held \ {op.new.page}
  /\ op' = Idle
  /\ UNCHANGED <<pm, kern_pgdir, tlb, panicked>>

(* check_page takes an empty table back by force: it clears the directory  *)
(* entry and the count, and frees the page.                                *)
DropTable(d) ==
  LET pp == kern_pgdir[d]
      forced == [pm EXCEPT !.pp_ref[pp] = 0]
  IN  /\ op = Idle /\ pp # NULL /\ mem[pp] = Filled(NULL)
      /\ kern_pgdir' = [kern_pgdir EXCEPT ![d] = NULL]
      /\ IF FreePanics(forced, pp)
         THEN panicked' = TRUE /\ pm' = forced
         ELSE pm' = page_free(forced, pp) /\ UNCHANGED panicked
      /\ UNCHANGED <<mem, tlb, held, op>>

(* The MMU may cache a present translation at any time, and drop it.       *)
TlbFill(va) ==
  /\ MmuWalk(va) # NULL
  /\ tlb' = [tlb EXCEPT ![va] = MmuWalk(va)]
  /\ UNCHANGED <<pm, mmu, held, op, panicked>>

TlbEvict(va) ==
  /\ tlb' = [tlb EXCEPT ![va] = NULL]
  /\ UNCHANGED <<pm, mmu, held, op, panicked>>

Kernel ==
  \/ PageAlloc
  \/ \E pp \in Usable : PageFree(pp)
  \/ \E pp \in Usable, va \in VA, perm \in Perm : PageInsert(pp, va, perm)
  \/ \E pp \in Usable, va \in VA : PageInsertNoMem(pp, va)
  \/ \E va \in VA : PageRemove(va)
  \/ RemoveNothing \/ RemoveDecref \/ RemoveClear \/ RemoveFlush \/ InsertSet
  \/ \E d \in PDX : DropTable(d)

Mmu == \E va \in VA : TlbFill(va) \/ TlbEvict(va)

(* After _panic the kernel stays in the monitor. *)
Next == ~panicked /\ (Kernel \/ Mmu)

Spec == Init /\ [][Next]_vars

-----------------------------------------------------------------------------
Ops ==
  {Idle} \cup
  [pc : {"remove", "clear", "flush", "set"}, va : VA,
   old : Entry \cup {NULL}, new : Entry \cup {NULL}, pte : PtePointer \cup {NULL}]

TypeOK ==
  /\ pm \in PageInfos
  /\ kern_pgdir \in [PDX -> Page \cup {NULL}]
  /\ mem \in [Page -> [PTX -> Entry \cup {NULL, JUNK}]]
  /\ tlb \in [VA -> Entry \cup {NULL, JUNK}]
  /\ held \in SUBSET Usable
  /\ op \in Ops
  /\ panicked \in BOOLEAN

(* The directory entries that point to p, and the addresses whose table    *)
(* entry does: the one that page_remove is about to clear has already lost *)
(* its reference, the one that page_insert is about to set has it already. *)
TablesAt(p) == {d \in PDX : kern_pgdir[d] = p}

Clearing(va) == op.pc = "clear" /\ op.va = va

MappedAt(p) ==
  {va \in VA : ~Clearing(va) /\ Present(MmuWalk(va)) /\ MmuWalk(va).page = p}

Inserting(p) == op # Idle /\ op.new # NULL /\ op.new.page = p

References(p) ==
  Cardinality(TablesAt(p)) + Cardinality(MappedAt(p))
    + IF Inserting(p) THEN 1 ELSE 0

(* pp_ref is the count of pointers to the page (memlayout.h:179), at every *)
(* step of every call and even when a page replaces itself at its address. *)
RefCountsExact == \A p \in Usable : pm.pp_ref[p] = References(p)

(* Every usable page is on the free list, held by a caller, mapped or a    *)
(* page table, never two of these at once and never none: none of the      *)
(* calls, nor a failed one, leaks a page or frees one that is in use       *)
(* (pmap.c:308-542).                                                       *)
PagesPartitioned ==
  LET mapped == {p \in Usable : MappedAt(p) # {} \/ (Inserting(p) /\ p \notin held)}
      tabled == {p \in Usable : TablesAt(p) # {}}
      free == Usable \ (held \cup mapped \cup tabled)
  IN  /\ FreeListIs(pm, free)
      /\ OffListUnlinked(pm, free)
      /\ held \cap mapped = {} /\ held \cap tabled = {} /\ mapped \cap tabled = {}
      /\ \A p \in tabled : Cardinality(TablesAt(p)) = 1

(* The TLB never holds a translation that the tables do not: a stale one   *)
(* is possible only for the address being unmapped, between the store that *)
(* clears its entry and the invlpg (pmap.c:539-540).                       *)
TlbCoherent ==
  \A va \in VA :
    \/ op.pc = "flush" /\ op.va = va
    \/ tlb[va] \in {NULL, MmuWalk(va)}

(* Nothing the callers do reaches the panics of page_free and pa2page.     *)
NeverPanics == ~panicked

(* A page_insert in progress has not replaced the old mapping for its      *)
(* caller until its last store.                                            *)
VisibleMap ==
  [va \in VA |->
    IF op.pc \in {"flush", "set"} /\ op.new # NULL /\ va = op.va
    THEN op.old ELSE MmuWalk(va)]

Space == INSTANCE AddressSpace WITH map <- VisibleMap

(* Tables, counts and steps implement the plain address space of module    *)
(* AddressSpace (the comments on page_alloc, page_insert and page_remove). *)
ImplementsAddressSpace == Space!Spec
=============================================================================
