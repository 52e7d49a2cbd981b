------------------------------ MODULE MemInit ------------------------------
(***************************************************************************)
(* mem_init of kern/pmap.c: how the kernel gets from the 4 MB that         *)
(* entry_pgdir maps to its own page directory.  i386_detect_memory reads   *)
(* the sizes from the CMOS, boot_alloc carves out the directory and the    *)
(* pages array, page_init builds the free list, the check functions        *)
(* exercise it and must leave it as they found it, boot_map_region and     *)
(* boot_map_region_large map the kernel part, and lcr3 installs it.        *)
(*                                                                         *)
(* A page the kernel touches too early, beyond what the current directory  *)
(* maps at KERNBASE, is a page fault without a handler: the machine        *)
(* resets.  The layout constants are scaled down; IoPage is                *)
(* PGNUM(IOPHYSMEM), and so on.                                            *)
(***************************************************************************)
EXTENDS Integers, Sequences, FiniteSets, BootChecks

CONSTANTS
  Memories,      \* CMOS readings: records of base, ext (KB) and ext16 (blocks)
  PageKB, ExtKB, Ext16KB, BlockKB,  \* 4, 1024, 16 * 1024 and 64 KB
  IoPage, ExtPage,  \* IOPHYSMEM and EXTPHYSMEM
  EndPage,       \* ROUNDUP(end): the first page after the kernel
  StackPage, StackPages,  \* bootstack and KSTKSIZE, inside the kernel
  InfosPerPage,  \* PGSIZE / sizeof(struct PageInfo)
  EntryPages,    \* 4 MB: what entry_pgdir, or one table, maps
  MaxPages,      \* 256 MB: what fits above KERNBASE
  NULL, JUNK

ASSUME LayoutAssumption ==
  /\ 0 < IoPage /\ IoPage < ExtPage /\ ExtPage <= StackPage
  /\ StackPage + StackPages <= EndPage /\ EndPage < EntryPages
  /\ EntryPages < MaxPages /\ StackPages < EntryPages
  /\ \A m \in Memories : 0 < m.base /\ m.base <= IoPage * PageKB

VARIABLES
  npages, npages_basemem, nextfree,  \* nextfree as a page number
  s,          \* pages, kern_pgdir and the contents of the pages in use as tables
  kernbase,   \* directory entries at KERNBASE: large page number -> first page
  uvpt,       \* the page that kern_pgdir maps itself at
  loc, fl, nfree,  \* the check functions' pp0, pp1, pp2, stolen list and count
  pc, ip,     \* the step of mem_init and the line of its script
  status,     \* "running", "booted", "panicked" or "faulted"
  touched     \* the pages the last step accessed

tracker == <<npages, npages_basemem, nextfree>>
upper == <<kernbase, uvpt>>
locals == <<loc, fl, nfree>>
vars == <<tracker, s, upper, locals, pc, ip, status, touched>>

PTX == 0 .. EntryPages - 1
UPAGES == 2        \* directory indices of the two tables above UTOP
KSTACK == 3
PDX == {0, 1, UPAGES, KSTACK}

(* The page operators, for the memory this machine turns out to have.      *)
P == INSTANCE PageMaps WITH
  NPages <- npages, BaseMem <- npages_basemem, FirstFree <- nextfree,
  RefMod <- 65536, Perm <- {"", "W", "U", "UW"}

(* The order of mem_init, and the check functions' scripts.                *)
After ==
  [pgdir |-> "pages", pages |-> "page_init",
   page_init |-> "free_list_low", free_list_low |-> "check_page_alloc",
   check_page_alloc |-> "check_page", check_page |-> "upages", upages |-> "kstack",
   kstack |-> "kernbase", kernbase |-> "check_kern_pgdir",
   check_kern_pgdir |-> "free_list_all",
   free_list_all |-> "check_page_installed_pgdir",
   check_page_installed_pgdir |-> "done"]

Script ==
  [check_page_alloc |-> check_page_alloc, check_page |-> check_page,
   check_page_installed_pgdir |-> check_page_installed_pgdir]

(* lcr3 comes right after check_kern_pgdir.                                *)
Installed == pc \in {"free_list_all", "check_page_installed_pgdir", "done"}

(* The one table that entry_pgdir has at KERNBASE.                         *)
entry_pgtable == [x \in PTX |-> [page |-> x, perm |-> "W"]]

Reachable(p) ==
  IF Installed THEN p < MaxPages ELSE \E x \in PTX : entry_pgtable[x].page = p

(* What a step comes to when it accesses the pages T and its assertions say  *)
(* ok: the page fault comes first.                                         *)
Ends(T, ok) ==
  /\ touched' = T
  /\ status' = IF \E p \in T : ~Reachable(p) THEN "faulted"
               ELSE IF ~ok THEN "panicked" ELSE "running"

NextStage == pc' = After[pc] /\ ip' = 1

At(stage) == status = "running" /\ pc = stage

(* The free list from its head.                                            *)
FreeList(pm) == SelectSeq(P!NthFree(pm), LAMBDA p : p # NULL)

Elements(f) == {f[i] : i \in 1 .. Len(f)}


-----------------------------------------------------------------------------
(* Mutant of Init: npages_basemem from totalmem.                           *)
Init_BaseIsTotal ==
  /\ \E m \in Memories :
       LET total == IF m.ext16 # 0 THEN Ext16KB + m.ext16 * BlockKB
                    ELSE IF m.ext # 0 THEN ExtKB + m.ext ELSE m.base
       IN  npages = total \div PageKB /\ npages_basemem = total \div PageKB
  /\ nextfree = EndPage
  /\ s = NULL /\ kernbase = <<>> /\ uvpt = NULL
  /\ loc = [x \in {"pp0", "pp1", "pp2"} |-> NULL] /\ fl = NULL /\ nfree = 0
  /\ pc = "pgdir" /\ ip = 1 /\ status = "running" /\ touched = {}

(* i386_detect_memory, before mem_init does anything else.                 *)
Init ==
  /\ \E m \in Memories :
       LET total == IF m.ext16 # 0 THEN Ext16KB + m.ext16 * BlockKB
                    ELSE IF m.ext # 0 THEN ExtKB + m.ext ELSE m.base
       IN  npages = total \div PageKB /\ npages_basemem = m.base \div PageKB
  /\ nextfree = EndPage
  /\ s = NULL /\ kernbase = <<>> /\ uvpt = NULL
  /\ loc = [x \in {"pp0", "pp1", "pp2"} |-> NULL] /\ fl = NULL /\ nfree = 0
  /\ pc = "pgdir" /\ ip = 1 /\ status = "running" /\ touched = {}

(* KADDR panics when it is given no page of this machine.                  *)
Kaddr(p) == p < npages

(* boot_alloc: n pages from nextfree on.  The new nextfree goes through    *)
(* KADDR, so it must be a page even if the n pages are.                    *)
boot_alloc(n) ==
  LET fits == Kaddr(nextfree + n)
  IN  /\ nextfree' = nextfree + n
      /\ UNCHANGED <<npages, npages_basemem>>
      /\ Ends(IF fits THEN nextfree .. nextfree + n - 1 ELSE {}, fits)

(* The directory: cleared, and mapped into itself at UVPT.                 *)
AllocDirectory ==
  /\ At("pgdir") /\ NextStage
  /\ boot_alloc(1)
  /\ uvpt' = nextfree
  /\ s' = [pm |-> NULL, kern_pgdir |-> [d \in PDX |-> NULL],
           mem |-> [p \in 0 .. npages - 1 |-> P!Filled(JUNK)]]
  /\ UNCHANGED <<kernbase, locals>>

(* The pages array in whole pages, rounded up.                             *)
ArrayPages == (npages + InfosPerPage - 1) \div InfosPerPage

AllocPagesArray ==
  /\ At("pages") /\ NextStage
  /\ boot_alloc(ArrayPages)
  /\ UNCHANGED <<s, upper, locals>>

(* Mutant of PageInit: extended memory starts free at EXTPHYSMEM.          *)
PageInit_FreesKernel ==
  /\ At("page_init") /\ NextStage
  /\ LET Q == INSTANCE PageMaps WITH
             NPages <- npages, BaseMem <- npages_basemem, FirstFree <- ExtPage,
             RefMod <- 65536, Perm <- {"", "W", "U", "UW"}
     IN  s' = [s EXCEPT !.pm = Q!page_init]
  /\ Ends(uvpt + 1 .. nextfree - 1, TRUE)
  /\ UNCHANGED <<tracker, upper, locals>>

PageInit ==
  /\ At("page_init") /\ NextStage
  /\ s' = [s EXCEPT !.pm = P!page_init]
  /\ Ends(uvpt + 1 .. nextfree - 1, TRUE)
  /\ UNCHANGED <<tracker, upper, locals>>

(* The tracker pm with the pages of f linked in the order of f.            *)
Relink(pm, f) ==
  LET at(p) == CHOOSE i \in 1 .. Len(f) : f[i] = p
  IN  [pm EXCEPT
        !.page_free_list = f[1],
        !.pp_link = [p \in DOMAIN @ |->
                      IF p \notin Elements(f) THEN @[p]
                      ELSE IF at(p) = Len(f) THEN NULL ELSE f[at(p) + 1]]]

(* check_page_free_list(1) puts the pages that entry_pgdir maps first,     *)
(* both halves in the order they had.                                      *)
LowFirst_Unchanged(f) == f      \* mutant: nothing is moved

LowFirst_LosesHigh(f) ==        \* mutant: the halves are not linked
  SelectSeq(f, LAMBDA p : p < EntryPages)

LowFirst(f) ==
  SelectSeq(f, LAMBDA p : p < EntryPages) \o SelectSeq(f, LAMBDA p : p >= EntryPages)

(* check_page_free_list scribbles on the free pages it may touch, and      *)
(* asserts that none of the list is in use by the hardware or the kernel:  *)
(* page2kva is not below boot_alloc's next page.  From 256 MB on,           *)
(* KERNBASE + pa has wrapped to an address that is.                        *)
check_page_free_list(only_low_memory) ==
  \E f \in {IF only_low_memory THEN LowFirst(FreeList(s.pm)) ELSE FreeList(s.pm)} :
    LET free == Elements(f)
        T == {p \in free : only_low_memory => p < EntryPages}
    IN  IF f = <<>>
        THEN Ends({}, FALSE) /\ UNCHANGED <<tracker, s, upper, locals>>
        ELSE /\ s' = [s EXCEPT !.pm = Relink(@, f),
                               !.mem = [p \in DOMAIN @ |->
                                         IF p \in T THEN P!Filled(JUNK) ELSE @[p]]]
             /\ Ends(T,
                     /\ free \cap {0, IoPage, ExtPage - 1, ExtPage} = {}
                     /\ \A p \in free : p < ExtPage \/ p \in nextfree .. MaxPages - 1
                     /\ \E p \in free : p < ExtPage
                     /\ \E p \in free : p >= ExtPage)
             /\ UNCHANGED <<tracker, upper, locals>>

CheckFreeListLow ==
  At("free_list_low") /\ NextStage /\ check_page_free_list(TRUE)

CheckFreeListAll ==
  At("free_list_all") /\ NextStage /\ check_page_free_list(FALSE)

-----------------------------------------------------------------------------
(* The lines of a script.                                                  *)
Line == Script[pc][ip]

Runs(op) ==
  /\ status = "running" /\ pc \in DOMAIN Script /\ Line[1] = op
  /\ IF ip = Len(Script[pc]) THEN NextStage ELSE ip' = ip + 1 /\ UNCHANGED pc
  /\ UNCHANGED <<tracker, upper>>

Assert(T, ok) == Ends(T, ok) /\ UNCHANGED <<s, locals>>

(* The table page that translates va, if there is one.                     *)
TableOf(state, va) == {state.kern_pgdir[va[1]]} \ {NULL}

Alloc ==
  /\ Runs("alloc")
  /\ s' = [s EXCEPT !.pm = P!page_alloc(@)]
  /\ loc' = [loc EXCEPT ![Line[2]] = P!AllocResult(s.pm)]
  /\ Ends({}, P!AllocResult(s.pm) # NULL)
  /\ UNCHANGED <<fl, nfree>>

AllocAgain ==
  /\ Runs("realloc")
  /\ s' = [s EXCEPT !.pm = P!page_alloc(@)]
  /\ Ends({}, P!AllocResult(s.pm) = loc[Line[2]])
  /\ UNCHANGED locals

AllocZeroed ==
  /\ Runs("zalloc")
  /\ s' = [s EXCEPT !.pm = P!page_alloc(@), !.mem[loc[Line[2]]] = P!Filled(NULL)]
  /\ Ends({loc[Line[2]]}, P!AllocResult(s.pm) = loc[Line[2]])
  /\ UNCHANGED locals

Free ==
  /\ Runs("free")
  /\ s' = [s EXCEPT !.pm = P!page_free(@, loc[Line[2]])]
  /\ Ends({}, ~P!FreePanics(s.pm, loc[Line[2]]))
  /\ UNCHANGED locals

Fill ==
  /\ Runs("fill")
  /\ s' = [s EXCEPT !.mem[loc[Line[2]]] = P!Filled(JUNK)]
  /\ Ends({loc[Line[2]]}, TRUE)
  /\ UNCHANGED locals

StealList ==
  /\ Runs("steal")
  /\ fl' = s.pm.page_free_list
  /\ s' = [s EXCEPT !.pm.page_free_list = NULL]
  /\ Ends({}, TRUE)
  /\ UNCHANGED <<loc, nfree>>

GiveListBack ==
  /\ Runs("give")
  /\ s' = [s EXCEPT !.pm.page_free_list = fl]
  /\ Ends({}, TRUE)
  /\ UNCHANGED locals

CountFree ==
  /\ Runs("count")
  /\ nfree' = Len(FreeList(s.pm))
  /\ Ends({}, TRUE)
  /\ UNCHANGED <<s, loc, fl>>

Insert ==
  /\ Runs("insert")
  /\ LET pp == loc[Line[2]]
         va == Line[3]
     IN  IF P!WalkFails(s, va) \/ P!InsertPanics(s, pp, va)
         THEN Assert({}, FALSE)
         ELSE /\ s' = P!page_insert(s, pp, va, Line[4])
              /\ Ends(TableOf(s', va), TRUE)
              /\ UNCHANGED locals

Remove ==
  /\ Runs("remove")
  /\ IF P!RemovePanics(s, Line[2])
     THEN Assert({}, FALSE)
     ELSE /\ s' = P!page_remove(s, Line[2])
          /\ Ends(TableOf(s, Line[2]), TRUE)
          /\ UNCHANGED locals

MakeTable ==
  /\ Runs("table")
  /\ IF P!WalkFails(s, Line[2])
     THEN Assert({}, FALSE)
     ELSE /\ s' = P!pgdir_walk(s, Line[2])
          /\ Ends(TableOf(s', Line[2]), TRUE)
          /\ UNCHANGED locals

ForgetTable ==
  /\ Runs("forget")
  /\ s' = [s EXCEPT !.kern_pgdir[Line[2]] = NULL, !.pm.pp_ref[loc[Line[3]]] = 0]
  /\ Ends({}, TRUE)
  /\ UNCHANGED locals

(* The lines that only assert.                                             *)
Assertions ==
  \/ Runs("distinct") /\ Assert({}, Cardinality({loc[x] : x \in DOMAIN loc}) = 3)
  \/ Runs("nomem") /\ Assert({}, P!AllocResult(s.pm) = NULL)
  \/ Runs("recount") /\ Assert({}, Len(FreeList(s.pm)) = nfree)
  \/ Runs("refuse") /\ Assert({}, P!WalkFails(s, Line[3]))
  \/ Runs("table?") /\ Assert({}, s.kern_pgdir[Line[2]] = loc[Line[3]])
  \/ /\ Runs("empty")
     /\ Assert({loc[Line[2]]}, s.mem[loc[Line[2]]] = P!Filled(NULL))
  \/ /\ Runs("unmapped")
     /\ Assert(TableOf(s, Line[2]), P!Walk(s, Line[2]) = NULL)
  \/ /\ Runs("maps")
     /\ Assert(TableOf(s, Line[2]),
               /\ P!Present(P!Walk(s, Line[2]))
               /\ P!Walk(s, Line[2]).page = loc[Line[3]])
  \/ /\ Runs("perm")
     /\ Assert(TableOf(s, Line[2]), P!Walk(s, Line[2]).perm = Line[3])
  \/ Runs("ref") /\ Assert({}, s.pm.pp_ref[loc[Line[2]]] = Line[3])
  \/ /\ Runs("kept")
     /\ Assert({}, s.pm.pp_ref[loc[Line[2]]] # 0 /\ s.pm.pp_link[loc[Line[2]]] = NULL)

-----------------------------------------------------------------------------
(* boot_map_region: n pages from page on, at entry x of table d, with no   *)
(* references.  It does not look at what pgdir_walk returns: without a     *)
(* page for the table it stores through a null pointer.                    *)
boot_map_region(d, x, n, page, perm) ==
  LET va == <<d, x>>
      w == P!pgdir_walk(s, va)
      t == w.kern_pgdir[d]
  IN  IF P!WalkFails(s, va)
      THEN status' = "faulted" /\ touched' = {} /\ UNCHANGED s
      ELSE /\ s' = [w EXCEPT !.mem[t] =
                      [y \in PTX |->
                        IF y \in x .. x + n - 1
                        THEN [page |-> page + (y - x), perm |-> perm] ELSE @[y]]]
           /\ Ends({t}, TRUE)

MapPages ==
  /\ At("upages") /\ NextStage
  /\ boot_map_region(UPAGES, 0, EntryPages, uvpt + 1, "U")
  /\ UNCHANGED <<tracker, upper, locals>>

MapStack ==
  /\ At("kstack") /\ NextStage
  /\ boot_map_region(KSTACK, EntryPages - StackPages, StackPages, StackPage, "W")
  /\ UNCHANGED <<tracker, upper, locals>>

(* boot_map_region_large over all of [KERNBASE, 2^32).                     *)
MapPhysical ==
  /\ At("kernbase") /\ NextStage
  /\ kernbase' = [i \in 0 .. MaxPages \div EntryPages - 1 |-> i * EntryPages]
  /\ Ends({uvpt}, TRUE)
  /\ UNCHANGED <<tracker, s, uvpt, locals>>

(* check_kern_pgdir.  Past 256 MB, KERNBASE + i wraps to a low address; the *)
(* check of the free list has panicked on such a machine before.           *)
CheckKernPgdir ==
  /\ At("check_kern_pgdir") /\ NextStage
  /\ Assert({uvpt},
        /\ \A i \in 0 .. ArrayPages - 1 : P!Walk(s, <<UPAGES, i>>).page = uvpt + 1 + i
        /\ \A i \in 0 .. (npages - 1) \div EntryPages :
             i \in DOMAIN kernbase /\ kernbase[i] = i * EntryPages
        /\ \A i \in 0 .. StackPages - 1 :
             P!Walk(s, <<KSTACK, EntryPages - StackPages + i>>).page = StackPage + i
        /\ P!Walk(s, <<KSTACK, 0>>) = NULL
        /\ s.kern_pgdir[0] = NULL /\ s.kern_pgdir[1] = NULL)
  /\ UNCHANGED <<tracker, upper>>

Return ==
  /\ At("done")
  /\ status' = "booted"
  /\ UNCHANGED <<tracker, s, upper, locals, pc, ip, touched>>

Next ==
  \/ AllocDirectory \/ AllocPagesArray \/ PageInit
  \/ CheckFreeListLow \/ CheckFreeListAll
  \/ Alloc \/ AllocAgain \/ AllocZeroed \/ Free \/ Fill
  \/ StealList \/ GiveListBack \/ CountFree
  \/ Insert \/ Remove \/ MakeTable \/ ForgetTable \/ Assertions
  \/ MapPages \/ MapStack \/ MapPhysical \/ CheckKernPgdir \/ Return

(* mem_init is straight-line code: the processor executes its next step.   *)
Spec == Init /\ [][Next]_vars /\ WF_vars(Next)

-----------------------------------------------------------------------------
(* The pages that page_init makes free.                                    *)
Usable == (1 .. npages_basemem - 1) \cup (nextfree .. npages - 1)

Ready == pc \notin {"pgdir", "pages", "page_init"}

TypeOK ==
  /\ npages \in Nat /\ npages_basemem \in 0 .. IoPage /\ nextfree \in Nat
  /\ Ready => s.pm \in P!PageInfos
  /\ Ready => \A x \in DOMAIN loc : loc[x] \in Usable \cup {NULL}
  /\ pc \in DOMAIN After \cup {"done"}
  /\ status \in {"running", "booted", "panicked", "faulted"}

Tables == {s.kern_pgdir[d] : d \in PDX} \ {NULL}

(* Whenever mem_init is between two of its steps, the free list holds      *)
(* every usable page that is not one of the page tables above UTOP, each   *)
(* once; the tables have one reference and the others none.  The check     *)
(* functions, which steal the list and clear directory entries and counts  *)
(* by hand, leave nothing behind (pmap.c:561-979).                         *)
FreePagesConserved ==
  (Ready /\ ip = 1 /\ status \in {"running", "booted"}) =>
    /\ Elements(FreeList(s.pm)) = Usable \ Tables
    /\ Len(FreeList(s.pm)) = Cardinality(Usable \ Tables)
    /\ \A p \in Usable : s.pm.pp_ref[p] = IF p \in Tables THEN 1 ELSE 0
    /\ s.kern_pgdir[0] = NULL /\ s.kern_pgdir[1] = NULL

(* The kernel's own memory, the I/O hole and page 0 are never written by   *)
(* anyone who thinks it is a free page or a page table (pmap.c:256-287).   *)
KernelUntouched ==
  touched \subseteq (IF Ready THEN Usable \cup {uvpt} \cup (uvpt + 1 .. nextfree - 1)
                     ELSE EndPage .. nextfree - 1)

(* What the memory of the machine must be for mem_init to succeed: at most *)
(* 256 MB, with the pages array within the 4 MB of entry_pgdir and a page  *)
(* after it, and three free pages in these 4 MB.  The check functions take *)
(* the three highest of those and give them back in such an order that the *)
(* two lower ones become the tables above UTOP; of what is left, check_    *)
(* page_free_list wants a page below the I/O hole and one above, and       *)
(* check_page_installed_pgdir three.                                       *)
Adequate ==
  LET first == EndPage + 1 + ArrayPages
      usable == (1 .. npages_basemem - 1) \cup (first .. npages - 1)
      low == {p \in usable : p < EntryPages}
      above(p) == {q \in low : q > p}
      left == usable \ {p \in low : Cardinality(above(p)) \in {1, 2}}
  IN  /\ first < npages /\ npages <= MaxPages /\ first <= EntryPages
      /\ Cardinality(low) >= 3 /\ Cardinality(left) >= 3
      /\ \E p \in left : p < ExtPage
      /\ \E p \in left : p >= ExtPage

(* On a machine with adequate memory no check function panics and no page  *)
(* is touched before it is mapped: not by the allocator's callers before   *)
(* lcr3, whose pages must come from the first 4 MB (pmap.c:576-577).       *)
BootsSafely == Adequate => status \notin {"panicked", "faulted"}

(* mem_init succeeds on exactly those machines.                            *)
BootsExactly ==
  /\ Adequate ~> status = "booted"
  /\ [](status = "booted" => Adequate)
=============================================================================
