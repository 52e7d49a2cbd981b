-------------------------- MODULE PageTablesProofs --------------------------
(***************************************************************************)
(* The page tables are correct for any number of pages and addresses, any  *)
(* memory layout and any width of pp_ref, as long as no page is mapped at  *)
(* as many addresses as its counter can hold (CountsFit).                  *)
(*                                                                         *)
(* The properties of PageTables hold only together, and with what the      *)
(* kernel keeps to itself: where tables are and what they contain          *)
(* (TablesOK, WordsOK), and what the locals of the call in progress still  *)
(* say of the tables (OpOK).                                               *)
(***************************************************************************)
EXTENDS PageTables, PhysPagesProofs

(* The three uses of a page, and the pages with none.                      *)
Mapped == {p \in Usable : MappedAt(p) # {} \/ (Inserting(p) /\ p \notin held)}
Tabled == {p \in Usable : TablesAt(p) # {}}
Free == Usable \ (held \cup Mapped \cup Tabled)

UsableEntry == [page : Usable, perm : Perm]

(* No page is mapped at as many addresses as its counter can hold, less    *)
(* one for the reference that page_insert takes beforehand.                *)
CountsFit == \A p \in Usable : Cardinality(MappedAt(p)) < RefMod - 1

Apart == held \cap Mapped = {} /\ held \cap Tabled = {} /\ Mapped \cap Tabled = {}

ListOK == FreeListIs(pm, Free) /\ OffListUnlinked(pm, Free)

(* A table is a usable page and in one directory entry.                    *)
TablesOK ==
  /\ \A d \in PDX : kern_pgdir[d] \in Usable \cup {NULL}
  /\ \A d, e \in PDX : kern_pgdir[d] # NULL /\ kern_pgdir[e] = kern_pgdir[d] => d = e

(* Tables have no words but null and entries for usable pages.             *)
WordsOK == \A va \in VA : MmuWalk(va) \in UsableEntry \cup {NULL}

(* What a call in progress relies on: page_insert's pointer is still the   *)
(* entry of its address, and page_remove has taken out what it found.      *)
OpOK ==
  op # Idle =>
    /\ op.new # NULL =>
         /\ op.new.page \in Usable
         /\ kern_pgdir[op.va[1]] # NULL
         /\ op.pte = [page |-> kern_pgdir[op.va[1]], ptx |-> op.va[2]]
    /\ op.pc = "remove" => op.old = NULL
    /\ op.pc = "clear" => op.old # NULL /\ MmuWalk(op.va) = op.old
    /\ op.pc \in {"flush", "set"} => MmuWalk(op.va) = NULL
    /\ op.pc = "set" => op.new # NULL

IInv ==
  /\ TypeOK /\ TablesOK /\ WordsOK /\ OpOK /\ Apart /\ ListOK
  /\ RefCountsExact /\ TlbCoherent /\ NeverPanics

-----------------------------------------------------------------------------
LEMMA Nulls ==
  /\ NULL \notin Page /\ NULL \notin Entry /\ JUNK \notin Entry /\ JUNK # NULL
  /\ Usable \in SUBSET Page /\ UsableEntry \subseteq Entry
  /\ RefMod \in Nat /\ RefMod > 1
  BY NullNotPage, TableAssumption, PhysAssumption DEF Usable, UsableEntry, Entry

LEMMA Address ==
  ASSUME NEW va \in VA
  PROVE  va[1] \in PDX /\ va[2] \in PTX /\ va = <<va[1], va[2]>>
  BY DEF VA

LEMMA Finite ==
  /\ \A S \in SUBSET VA : IsFiniteSet(S) /\ Cardinality(S) \in Nat
  /\ \A S \in SUBSET PDX : IsFiniteSet(S) /\ Cardinality(S) \in Nat
<1>1. IsFiniteSet(VA) /\ IsFiniteSet(PDX)
  BY TableAssumption, FS_Product DEF VA
<1> QED
  BY <1>1, FS_Subset, FS_CardinalityType

LEMMA WalkIs ==
  ASSUME NEW va \in VA
  PROVE  MmuWalk(va) = IF kern_pgdir[va[1]] = NULL THEN NULL
                       ELSE mem[kern_pgdir[va[1]]][va[2]]
  BY DEF MmuWalk, Walk, tables

(* The fields of a call in progress.                                       *)
LEMMA OpIs ==
  ASSUME TypeOK
  PROVE  /\ op = Idle <=> op.pc = "idle"
         /\ op # Idle =>
              /\ op.pc \in {"remove", "clear", "flush", "set"}
              /\ op.va \in VA
              /\ op.old \in Entry \cup {NULL} /\ op.new \in Entry \cup {NULL}
              /\ op.pte \in PtePointer \cup {NULL}
              /\ op = [pc |-> op.pc, va |-> op.va, old |-> op.old,
                       new |-> op.new, pte |-> op.pte]
<1>1. Idle.pc = "idle"
  BY DEF Idle
<1>2. op = Idle \/ op \in [pc : {"remove", "clear", "flush", "set"}, va : VA,
        old : Entry \cup {NULL}, new : Entry \cup {NULL}, pte : PtePointer \cup {NULL}]
  BY DEF TypeOK, Ops
<1>3. CASE op = Idle
  BY <1>1, <1>3
<1>4. CASE op \in [pc : {"remove", "clear", "flush", "set"}, va : VA,
        old : Entry \cup {NULL}, new : Entry \cup {NULL}, pte : PtePointer \cup {NULL}]
  BY <1>1, <1>4
<1> QED
  BY <1>2, <1>3, <1>4

(* The references of a page that nothing refers to, and of a table.        *)
LEMMA FreeUnreferenced ==
  ASSUME TypeOK, NEW p \in Usable, p \notin Mapped, p \notin Tabled, ~Inserting(p)
  PROVE  References(p) = 0
<1>1. TablesAt(p) = {} /\ MappedAt(p) = {}
  BY DEF Mapped, Tabled
<1> QED
  BY <1>1, FS_EmptySet DEF References

(* References is a number: there are finitely many addresses.              *)
LEMMA RefsNat ==
  ASSUME NEW p
  PROVE  References(p) \in Nat
<1>1. TablesAt(p) \in SUBSET PDX /\ MappedAt(p) \in SUBSET VA
  BY DEF TablesAt, MappedAt
<1>2. Cardinality(TablesAt(p)) \in Nat /\ Cardinality(MappedAt(p)) \in Nat
  BY <1>1, Finite
<1> QED
  BY <1>2 DEF References

(* A step that changes neither where tables are nor what is mapped and     *)
(* being inserted leaves the uses of pages as they are.                    *)
LEMMA SameUses ==
  ASSUME kern_pgdir' = kern_pgdir,
         \A p \in Usable : MappedAt(p)' = MappedAt(p) /\ (Inserting(p)' <=> Inserting(p))
  PROVE  /\ \A p \in Usable : References(p)' = References(p)
         /\ held' = held => Mapped' = Mapped
         /\ Tabled' = Tabled
<1>1. \A p \in Usable : TablesAt(p)' = TablesAt(p)
  BY DEF TablesAt
<1>2. Usable' = Usable
  BY DEF Usable
<1>3. \A p \in Usable : References(p)' = References(p)
  BY <1>1 DEF References
<1>4. held' = held => Mapped' = Mapped
  BY <1>2 DEF Mapped
<1>5. Tabled' = Tabled
  BY <1>1, <1>2 DEF Tabled
<1> QED
  BY <1>3, <1>4, <1>5

(* What is mapped at p, by the words of the tables.                        *)
LEMMA MappedIs ==
  ASSUME WordsOK, NEW p \in Usable
  PROVE  MappedAt(p) = {va \in VA : /\ ~Clearing(va) /\ MmuWalk(va) # NULL
                                    /\ MmuWalk(va).page = p}
  BY Nulls DEF MappedAt, WordsOK, Present

LEMMA InitIInv == Init => IInv
<1> SUFFICES ASSUME Init
             PROVE  IInv
  OBVIOUS
<1>1. /\ pm = page_init /\ held = {} /\ op = Idle /\ panicked = FALSE
      /\ kern_pgdir = [d \in PDX |-> NULL]
      /\ mem = [p \in Page |-> Filled(JUNK)]
      /\ tlb = [va \in VA |-> NULL]
  BY DEF Init
<1>2. \A va \in VA : MmuWalk(va) = NULL
  BY <1>1, Address, WalkIs
<1>3. \A p \in Usable : MappedAt(p) = {} /\ TablesAt(p) = {} /\ ~Inserting(p)
  BY <1>1, <1>2, Nulls DEF MappedAt, TablesAt, Inserting, Present
<1>4. Mapped = {} /\ Tabled = {} /\ Free = Page \ Reserved
  BY <1>1, <1>3 DEF Mapped, Tabled, Free, Usable
<1>5. TypeOK
  BY <1>1, InitList DEF TypeOK, Ops, Filled
<1>6. TablesOK /\ WordsOK /\ OpOK
  BY <1>1, <1>2 DEF TablesOK, WordsOK, OpOK
<1>7. Apart /\ NeverPanics /\ TlbCoherent
  BY <1>1, <1>4 DEF Apart, NeverPanics, TlbCoherent
<1>8. ListOK
  BY <1>1, <1>4, InitList DEF ListOK, OffListUnlinked
<1>9. RefCountsExact
  <2>1. \A p \in Usable : References(p) = 0
    BY <1>3, FS_EmptySet DEF References
  <2> QED
    BY <2>1, <1>1, InitList DEF RefCountsExact, Usable
<1> QED
  BY <1>5, <1>6, <1>7, <1>8, <1>9 DEF IInv

(* A step of a call that leaves pages and their uses alone.                *)
LEMMA QuietStep ==
  ASSUME IInv, TypeOK', pm' = pm, held' = held, kern_pgdir' = kern_pgdir,
         panicked' = panicked,
         \A p \in Usable : MappedAt(p)' = MappedAt(p) /\ (Inserting(p)' <=> Inserting(p)),
         WordsOK', OpOK', TlbCoherent'
  PROVE  IInv'
<1>1. /\ \A p \in Usable : References(p)' = References(p)
      /\ Mapped' = Mapped /\ Tabled' = Tabled
  BY SameUses
<1>2. Free' = Free
  BY <1>1 DEF Free, Usable
<1>3. ListOK'
  BY <1>2 DEF IInv, ListOK, OffListUnlinked
<1>4. RefCountsExact'
  BY <1>1 DEF IInv, RefCountsExact, Usable
<1>5. TablesOK' /\ Apart' /\ NeverPanics'
  BY <1>1 DEF IInv, TablesOK, Apart, NeverPanics, Usable
<1> QED
  BY <1>3, <1>4, <1>5 DEF IInv

LEMMA PageRemoveIInv ==
  ASSUME IInv, NEW va \in VA, PageRemove(va)
  PROVE  IInv'
<1>1. /\ op = Idle
      /\ op' = [pc |-> "remove", va |-> va, old |-> NULL, new |-> NULL, pte |-> NULL]
      /\ UNCHANGED <<pm, kern_pgdir, mem, tlb, held, panicked>>
  BY DEF PageRemove, mmu
<1>2. TypeOK'
  BY <1>1 DEF IInv, TypeOK, Ops
<1>3. \A a \in VA : MmuWalk(a)' = MmuWalk(a)
  BY <1>1, WalkIs DEF MmuWalk, Walk, tables
<1>4. \A a \in VA : ~Clearing(a) /\ ~Clearing(a)'
  BY <1>1 DEF Clearing, Idle
<1>5. WordsOK'
  BY <1>3 DEF IInv, WordsOK, UsableEntry, Usable
<1>6. \A p \in Usable : MappedAt(p)' = MappedAt(p)
  BY <1>3, <1>4 DEF MappedAt
<1>7. \A p \in Usable : Inserting(p)' <=> Inserting(p)
  BY <1>1 DEF Inserting
<1>8. op' # Idle
  BY <1>1 DEF Idle
<1>9. OpOK'
  BY <1>1 DEF OpOK
<1>10. TlbCoherent'
  BY <1>1, <1>3 DEF IInv, TlbCoherent, Idle
<1> QED
  BY <1>1, <1>2, <1>5, <1>6, <1>7, <1>9, <1>10, QuietStep

LEMMA RemoveNothingIInv ==
  ASSUME IInv, RemoveNothing
  PROVE  IInv'
<1>1. /\ op.pc = "remove" /\ op # Idle /\ MmuWalk(op.va) = NULL /\ op' = AfterRemove
      /\ UNCHANGED <<pm, kern_pgdir, mem, tlb, held, panicked>>
  BY OpIs DEF RemoveNothing, mmu, IInv
<1>2. op.new = NULL => op' = Idle
  BY <1>1 DEF AfterRemove
<1>3. op.new # NULL => /\ op' # Idle /\ op'.pc = "set" /\ op'.va = op.va
                       /\ op'.old = op.old /\ op'.new = op.new /\ op'.pte = op.pte
                       /\ op' \in Ops
  BY <1>1, OpIs DEF AfterRemove, IInv, TypeOK, Ops, Idle
<1>4. TypeOK'
  BY <1>1, <1>2, <1>3 DEF IInv, TypeOK, Ops
<1>5. \A a \in VA : MmuWalk(a)' = MmuWalk(a)
  BY <1>1, WalkIs DEF MmuWalk, Walk, tables
<1>6. \A a \in VA : ~Clearing(a) /\ ~Clearing(a)'
  BY <1>1, <1>2, <1>3 DEF Clearing, Idle
<1>7. WordsOK'
  BY <1>5 DEF IInv, WordsOK, UsableEntry, Usable
<1>8. \A p \in Usable : MappedAt(p)' = MappedAt(p)
  BY <1>5, <1>6 DEF MappedAt
<1>9. \A p \in Usable : Inserting(p)' <=> Inserting(p)
  BY <1>1, <1>2, <1>3 DEF Inserting
<1>10. OpOK'
  BY <1>1, <1>2, <1>3, <1>5, OpIs DEF IInv, OpOK, Usable
<1>11. TlbCoherent'
  BY <1>1, <1>5, <1>2, <1>3 DEF IInv, TlbCoherent, Idle
<1> QED
  BY <1>1, <1>4, <1>7, <1>8, <1>9, <1>10, <1>11, QuietStep

(* A store into the entry of va changes what the MMU finds there only,     *)
(* since no other directory entry has the same table.                      *)
LEMMA Store ==
  ASSUME TypeOK, TablesOK, NEW va \in VA, NEW w, kern_pgdir[va[1]] # NULL,
         mem' = [mem EXCEPT ![kern_pgdir[va[1]]][va[2]] = w],
         kern_pgdir' = kern_pgdir
  PROVE  \A a \in VA : MmuWalk(a)' = IF a = va THEN w ELSE MmuWalk(a)
<1> SUFFICES ASSUME NEW a \in VA
             PROVE  MmuWalk(a)' = IF a = va THEN w ELSE MmuWalk(a)
  OBVIOUS
<1>1. MmuWalk(a)' = IF kern_pgdir[a[1]] = NULL THEN NULL ELSE mem'[kern_pgdir[a[1]]][a[2]]
  BY DEF MmuWalk, Walk, tables
<1>2. /\ va[1] \in PDX /\ va[2] \in PTX /\ a[1] \in PDX /\ a[2] \in PTX
      /\ va = <<va[1], va[2]>> /\ a = <<a[1], a[2]>>
  BY Address
<1>3. /\ kern_pgdir[va[1]] \in Page
      /\ mem \in [Page -> [PTX -> Entry \cup {NULL, JUNK}]]
  BY <1>2 DEF TypeOK
<1>4. CASE a[1] = va[1]
  <2>1. mem'[kern_pgdir[a[1]]][a[2]] =
          IF a[2] = va[2] THEN w ELSE mem[kern_pgdir[a[1]]][a[2]]
    BY <1>2, <1>3, <1>4
  <2> QED
    BY <2>1, <1>1, <1>2, <1>4, WalkIs
<1>5. CASE a[1] # va[1]
  <2>1. kern_pgdir[a[1]] # NULL => kern_pgdir[a[1]] # kern_pgdir[va[1]]
    BY <1>2, <1>5 DEF TablesOK
  <2>2. kern_pgdir[a[1]] # NULL => mem'[kern_pgdir[a[1]]] = mem[kern_pgdir[a[1]]]
    BY <2>1, <1>2, <1>3 DEF TypeOK
  <2> QED
    BY <2>2, <1>1, <1>2, <1>5, WalkIs
<1> QED
  BY <1>4, <1>5

LEMMA RemoveClearIInv ==
  ASSUME IInv, RemoveClear
  PROVE  IInv'
<1>1. /\ op.pc = "clear" /\ op # Idle /\ op.va \in VA /\ op' = [op EXCEPT !.pc = "flush"]
      /\ mem' = [mem EXCEPT ![kern_pgdir[op.va[1]]][op.va[2]] = NULL]
      /\ UNCHANGED <<pm, kern_pgdir, tlb, held, panicked>>
  BY OpIs DEF RemoveClear, IInv
<1>2. /\ op' # Idle /\ op'.pc = "flush" /\ op'.va = op.va
      /\ op'.old = op.old /\ op'.new = op.new /\ op'.pte = op.pte /\ op' \in Ops
  BY <1>1, OpIs DEF IInv, TypeOK, Ops, Idle
<1>3. op.old # NULL /\ MmuWalk(op.va) = op.old /\ kern_pgdir[op.va[1]] # NULL
  BY <1>1, WalkIs DEF IInv, OpOK
<1>4. \A a \in VA : MmuWalk(a)' = IF a = op.va THEN NULL ELSE MmuWalk(a)
  BY <1>1, <1>3, Store DEF IInv
<1>5. TypeOK'
  <2>1. kern_pgdir[op.va[1]] \in Page /\ op.va[2] \in PTX
    BY <1>1, <1>3, Address DEF IInv, TypeOK
  <2>2. mem' \in [Page -> [PTX -> Entry \cup {NULL, JUNK}]]
    BY <2>1, <1>1 DEF IInv, TypeOK
  <2> QED
    BY <2>2, <1>1, <1>2 DEF IInv, TypeOK
<1>6. WordsOK'
  BY <1>4 DEF IInv, WordsOK, UsableEntry, Usable
<1>7. \A a \in VA : (Clearing(a) <=> a = op.va) /\ ~Clearing(a)'
  BY <1>1, <1>2 DEF Clearing
<1>8. \A p \in Usable : MappedAt(p)' = MappedAt(p)
  BY <1>4, <1>7 DEF MappedAt, Present
<1>9. \A p \in Usable : Inserting(p)' <=> Inserting(p)
  BY <1>1, <1>2 DEF Inserting
<1>10. OpOK'
  BY <1>1, <1>2, <1>4 DEF IInv, OpOK, Usable
<1>11. TlbCoherent'
  BY <1>1, <1>2, <1>4 DEF IInv, TlbCoherent
<1> QED
  BY <1>1, <1>5, <1>6, <1>8, <1>9, <1>10, <1>11, QuietStep

LEMMA RemoveFlushIInv ==
  ASSUME IInv, RemoveFlush
  PROVE  IInv'
<1>1. /\ op.pc = "flush" /\ op # Idle /\ op.va \in VA /\ op' = AfterRemove
      /\ tlb' = [tlb EXCEPT ![op.va] = NULL]
      /\ UNCHANGED <<pm, kern_pgdir, mem, held, panicked>>
  BY OpIs DEF RemoveFlush, mmu, IInv
<1>2. op.new = NULL => op' = Idle
  BY <1>1 DEF AfterRemove
<1>3. op.new # NULL => /\ op' # Idle /\ op'.pc = "set" /\ op'.va = op.va
                       /\ op'.old = op.old /\ op'.new = op.new /\ op'.pte = op.pte
                       /\ op' \in Ops
  BY <1>1, OpIs DEF AfterRemove, IInv, TypeOK, Ops, Idle
<1>4. TypeOK'
  BY <1>1, <1>2, <1>3 DEF IInv, TypeOK, Ops
<1>5. \A a \in VA : MmuWalk(a)' = MmuWalk(a)
  BY <1>1, WalkIs DEF MmuWalk, Walk, tables
<1>6. \A a \in VA : ~Clearing(a) /\ ~Clearing(a)'
  BY <1>1, <1>2, <1>3 DEF Clearing, Idle
<1>7. WordsOK'
  BY <1>5 DEF IInv, WordsOK, UsableEntry, Usable
<1>8. \A p \in Usable : MappedAt(p)' = MappedAt(p)
  BY <1>5, <1>6 DEF MappedAt
<1>9. \A p \in Usable : Inserting(p)' <=> Inserting(p)
  BY <1>1, <1>2, <1>3 DEF Inserting
<1>10. OpOK'
  BY <1>1, <1>2, <1>3, <1>5, OpIs DEF IInv, OpOK, Usable
<1>11. TlbCoherent'
  <2>1. \A a \in VA : tlb'[a] = IF a = op.va THEN NULL ELSE tlb[a]
    BY <1>1 DEF IInv, TypeOK
  <2>2. \A a \in VA : a # op.va => tlb[a] \in {NULL, MmuWalk(a)}
    BY DEF IInv, TlbCoherent
  <2> QED
    BY <2>1, <2>2, <1>5 DEF TlbCoherent
<1> QED
  BY <1>1, <1>4, <1>7, <1>8, <1>9, <1>10, <1>11, QuietStep

(* The MMU caches and drops translations that the tables have.             *)
LEMMA MmuIInv ==
  ASSUME IInv, Mmu
  PROVE  IInv'
<1>1. PICK va \in VA : TlbFill(va) \/ TlbEvict(va)
  BY DEF Mmu
<1>2. /\ UNCHANGED <<pm, kern_pgdir, mem, held, op, panicked>>
      /\ tlb' = [tlb EXCEPT ![va] = MmuWalk(va)] \/ tlb' = [tlb EXCEPT ![va] = NULL]
  BY <1>1 DEF TlbFill, TlbEvict, mmu
<1>3. \A a \in VA : MmuWalk(a)' = MmuWalk(a)
  BY <1>2, WalkIs DEF MmuWalk, Walk, tables
<1>4. MmuWalk(va) \in Entry \cup {NULL}
  BY Nulls DEF IInv, WordsOK
<1>5. TypeOK'
  BY <1>2, <1>4 DEF IInv, TypeOK
<1>6. WordsOK'
  BY <1>3 DEF IInv, WordsOK, UsableEntry, Usable
<1>7. \A p \in Usable : MappedAt(p)' = MappedAt(p) /\ (Inserting(p)' <=> Inserting(p))
  BY <1>2, <1>3 DEF MappedAt, Clearing, Inserting
<1>8. OpOK'
  BY <1>2, <1>3, OpIs DEF IInv, OpOK, Usable
<1>9. TlbCoherent'
  <2>1. \A a \in VA : tlb'[a] \in {tlb[a], NULL, MmuWalk(a)}
    BY <1>2 DEF IInv, TypeOK
  <2> QED
    BY <2>1, <1>2, <1>3 DEF IInv, TlbCoherent
<1> QED
  BY <1>2, <1>5, <1>6, <1>7, <1>8, <1>9, QuietStep

(* A free page is in no table entry and is no table.                       *)
LEMMA FreeIs ==
  ASSUME IInv, NEW h \in Free
  PROVE  /\ h \in Usable /\ h \in Page /\ h \notin held /\ h # NULL
         /\ pm.pp_ref[h] = 0
         /\ \A d \in PDX : kern_pgdir[d] # h
<1>1. h \in Usable /\ h \in Page /\ h \notin held /\ h # NULL /\ h \notin Mapped /\ h \notin Tabled
  BY Nulls DEF Free
<1>2. ~Inserting(h)
  BY <1>1 DEF Mapped
<1>3. pm.pp_ref[h] = 0
  BY <1>1, <1>2, FreeUnreferenced DEF IInv, RefCountsExact
<1>4. \A d \in PDX : kern_pgdir[d] # h
  BY <1>1 DEF Tabled, TablesAt
<1> QED
  BY <1>1, <1>3, <1>4

LEMMA PageAllocIInv ==
  ASSUME IInv, PageAlloc
  PROVE  IInv'
<1> DEFINE h == pm.page_free_list
<1>1. /\ op = Idle /\ h # NULL /\ pm' = page_alloc(pm) /\ held' = held \cup {h}
      /\ mem' = [mem EXCEPT ![h] = Filled(JUNK)]
      /\ UNCHANGED <<kern_pgdir, tlb, op, panicked>>
  BY DEF PageAlloc, AllocResult
<1>2. pm \in PageInfos /\ Free \in SUBSET Page /\ FreeListIs(pm, Free)
  BY Nulls DEF IInv, TypeOK, ListOK, Free
<1>3. h \in Free /\ pm' \in PageInfos /\ FreeListIs(pm', Free \ {h})
  BY <1>1, <1>2, PopKeepsList
<1>4. /\ h \in Usable /\ h \in Page /\ h \notin held /\ pm.pp_ref[h] = 0
      /\ \A d \in PDX : kern_pgdir[d] # h
  BY <1>3, FreeIs
<1>5. /\ pm'.pp_ref = [pm.pp_ref EXCEPT ![h] = 0]
      /\ pm'.pp_link = [pm.pp_link EXCEPT ![h] = NULL]
  BY <1>1 DEF page_alloc
<1>6. TypeOK'
  BY <1>1, <1>3, <1>4 DEF IInv, TypeOK, Filled, Usable
<1>7. \A a \in VA : MmuWalk(a)' = MmuWalk(a)
  <2> SUFFICES ASSUME NEW a \in VA
               PROVE  MmuWalk(a)' = MmuWalk(a)
    OBVIOUS
  <2>1. a[1] \in PDX /\ kern_pgdir[a[1]] # h /\ kern_pgdir[a[1]] \in Page \cup {NULL}
    BY <1>4, Address DEF IInv, TypeOK
  <2>2. kern_pgdir[a[1]] # NULL => mem'[kern_pgdir[a[1]]] = mem[kern_pgdir[a[1]]]
    BY <2>1, <1>1 DEF IInv, TypeOK
  <2> QED
    BY <2>2, <1>1 DEF MmuWalk, Walk, tables
<1>8. \A p \in Usable : MappedAt(p)' = MappedAt(p) /\ ~Inserting(p) /\ ~Inserting(p)'
  BY <1>1, <1>7 DEF MappedAt, Clearing, Inserting
<1>9. \A p \in Usable : References(p)' = References(p)
  BY <1>1, <1>8, SameUses
<1>10. Tabled' = Tabled
  BY <1>1, <1>8, SameUses
<1>11. Mapped' = Mapped
  BY <1>8 DEF Mapped, Usable
<1>12. Free' = Free \ {h}
  BY <1>1, <1>10, <1>11 DEF Free, Usable
<1>13. ListOK'
  <2>1. \A p \in Page \ (Free \ {h}) : pm'.pp_link[p] = NULL
    BY <1>2, <1>4, <1>5, PageInfosFields DEF IInv, ListOK, OffListUnlinked
  <2> QED
    BY <2>1, <1>3, <1>12 DEF ListOK, OffListUnlinked
<1>14. RefCountsExact'
  <2>1. \A p \in Usable : pm'.pp_ref[p] = pm.pp_ref[p]
    BY <1>2, <1>4, <1>5, PageInfosFields, Nulls
  <2> QED
    BY <2>1, <1>9 DEF IInv, RefCountsExact, Usable
<1>15. Apart'
  BY <1>1, <1>3, <1>10, <1>11 DEF IInv, Apart, Free
<1>16. TablesOK' /\ WordsOK' /\ OpOK' /\ TlbCoherent' /\ NeverPanics'
  BY <1>1, <1>7 DEF IInv, TablesOK, WordsOK, OpOK, TlbCoherent, NeverPanics,
                    UsableEntry, Usable
<1> QED
  BY <1>6, <1>13, <1>14, <1>15, <1>16 DEF IInv

LEMMA PageFreeIInv ==
  ASSUME IInv, NEW pp \in Usable, PageFree(pp)
  PROVE  IInv'
<1>1. op = Idle /\ pp \in held /\ UNCHANGED <<kern_pgdir, mem, tlb, op>>
  BY DEF PageFree, mmu
<1>2. pp \in Page /\ pp \notin Mapped /\ pp \notin Tabled /\ pp \notin Free /\ pp \in Usable
  BY <1>1, Nulls DEF IInv, Apart, Free
<1>3. ~Inserting(pp)
  BY <1>1 DEF Inserting
<1>4. pm.pp_ref[pp] = 0
  BY <1>2, <1>3, FreeUnreferenced DEF IInv, RefCountsExact
<1>5. pm.pp_link[pp] = NULL
  BY <1>2 DEF IInv, ListOK, OffListUnlinked
<1>6. pm' = page_free(pm, pp) /\ held' = held \ {pp} /\ panicked' = panicked
  BY <1>4, <1>5 DEF PageFree, FreePanics
<1>7. pm \in PageInfos /\ Free \in SUBSET Page /\ FreeListIs(pm, Free)
  BY Nulls DEF IInv, TypeOK, ListOK, Free
<1>8. pm' \in PageInfos /\ FreeListIs(pm', Free \cup {pp})
  BY <1>2, <1>6, <1>7, PushKeepsList
<1>9. /\ pm'.pp_ref = pm.pp_ref
      /\ pm'.pp_link = [pm.pp_link EXCEPT ![pp] = pm.page_free_list]
  BY <1>6 DEF page_free
<1>10. \A a \in VA : MmuWalk(a)' = MmuWalk(a)
  BY <1>1, WalkIs DEF MmuWalk, Walk, tables
<1>11. \A p \in Usable : MappedAt(p)' = MappedAt(p) /\ ~Inserting(p) /\ ~Inserting(p)'
  BY <1>1, <1>10 DEF MappedAt, Clearing, Inserting
<1>12. Mapped' = Mapped
  BY <1>11 DEF Mapped, Usable
<1>13. Tabled' = Tabled /\ \A p \in Usable : References(p)' = References(p)
  BY <1>1, <1>11, SameUses
<1>14. Free' = Free \cup {pp}
  BY <1>2, <1>6, <1>12, <1>13 DEF Free, Usable
<1>15. ListOK'
  <2>1. \A p \in Page \ (Free \cup {pp}) : pm'.pp_link[p] = NULL
    BY <1>7, <1>9, PageInfosFields DEF IInv, ListOK, OffListUnlinked
  <2> QED
    BY <2>1, <1>8, <1>14 DEF ListOK, OffListUnlinked
<1>16. RefCountsExact'
  BY <1>9, <1>13 DEF IInv, RefCountsExact, Usable
<1>17. TypeOK'
  BY <1>1, <1>6, <1>8 DEF IInv, TypeOK, Usable
<1>18. Apart' /\ TablesOK' /\ WordsOK' /\ OpOK' /\ TlbCoherent' /\ NeverPanics'
  BY <1>1, <1>6, <1>10, <1>12, <1>13
     DEF IInv, Apart, TablesOK, WordsOK, OpOK, TlbCoherent, NeverPanics,
         UsableEntry, Usable
<1> QED
  BY <1>15, <1>16, <1>17, <1>18 DEF IInv

(* The reference that page_insert took beforehand becomes the mapping.     *)
LEMMA InsertSetIInv ==
  ASSUME IInv, InsertSet
  PROVE  IInv'
<1> DEFINE va == op.va
           pp == op.new.page
<1>1. /\ op.pc = "set" /\ op # Idle /\ va \in VA /\ op' = Idle
      /\ mem' = [mem EXCEPT ![op.pte.page][op.pte.ptx] = op.new]
      /\ held' = held \ {pp}
      /\ UNCHANGED <<pm, kern_pgdir, tlb, panicked>>
  BY OpIs DEF InsertSet, IInv
<1>2. /\ op.new # NULL /\ pp \in Usable /\ kern_pgdir[va[1]] # NULL
      /\ op.pte = [page |-> kern_pgdir[va[1]], ptx |-> va[2]]
      /\ MmuWalk(va) = NULL
  BY <1>1 DEF IInv, OpOK
<1>3. op.new \in UsableEntry /\ op.new \in Entry
  BY <1>1, <1>2, OpIs, Nulls DEF IInv, UsableEntry, Entry
<1>4. mem' = [mem EXCEPT ![kern_pgdir[va[1]]][va[2]] = op.new]
  BY <1>1, <1>2
<1>5. \A a \in VA : MmuWalk(a)' = IF a = va THEN op.new ELSE MmuWalk(a)
  <2> HIDE DEF va
  <2> QED
    BY <1>1, <1>2, <1>4, Store DEF IInv
<1>6. TypeOK'
  <2>1. kern_pgdir[va[1]] \in Page /\ va[2] \in PTX
    BY <1>1, <1>2, Address DEF IInv, TypeOK
  <2>2. mem' \in [Page -> [PTX -> Entry \cup {NULL, JUNK}]]
    BY <2>1, <1>3, <1>4 DEF IInv, TypeOK
  <2> QED
    BY <2>2, <1>1 DEF IInv, TypeOK, Ops, Usable
<1>7. WordsOK'
  BY <1>3, <1>5 DEF IInv, WordsOK, UsableEntry, Usable
<1>8. \A a \in VA : ~Clearing(a) /\ ~Clearing(a)'
  BY <1>1 DEF Clearing, Idle
<1>9. \A p \in Usable : MappedAt(p)' = IF p = pp THEN MappedAt(p) \cup {va} ELSE MappedAt(p)
  BY <1>1, <1>2, <1>3, <1>5, <1>8, Nulls DEF MappedAt, Present
<1>10. va \notin MappedAt(pp)
  BY <1>2 DEF MappedAt, Present
<1>11. \A p \in Usable : (Inserting(p) <=> p = pp) /\ ~Inserting(p)'
  BY <1>1, <1>2 DEF Inserting
<1>12. \A p \in Usable : TablesAt(p)' = TablesAt(p)
  BY <1>1 DEF TablesAt
<1>13. \A p \in Usable : References(p)' = References(p)
  <2> SUFFICES ASSUME NEW p \in Usable
               PROVE  References(p)' = References(p)
    OBVIOUS
  <2>1. MappedAt(p) \in SUBSET VA /\ TablesAt(p) \in SUBSET PDX
    BY DEF MappedAt, TablesAt
  <2>2. IsFiniteSet(MappedAt(p)) /\ Cardinality(MappedAt(p)) \in Nat
        /\ Cardinality(TablesAt(p)) \in Nat
    BY <2>1, Finite
  <2>3. Cardinality(MappedAt(p)') = Cardinality(MappedAt(p)) + IF p = pp THEN 1 ELSE 0
    BY <2>2, <1>9, <1>10, FS_AddElement
  <2>4. References(p)' = Cardinality(TablesAt(p)) + Cardinality(MappedAt(p)')
    BY <1>11, <1>12, <2>2, <2>3 DEF References
  <2>5. References(p) = Cardinality(TablesAt(p)) + Cardinality(MappedAt(p))
                          + IF p = pp THEN 1 ELSE 0
    BY <1>11 DEF References
  <2> QED
    BY <2>2, <2>3, <2>4, <2>5
<1>14. Tabled' = Tabled /\ Mapped' = Mapped \cup {pp}
  BY <1>1, <1>2, <1>9, <1>11, <1>12 DEF Mapped, Tabled, Usable
<1>15. Free' = Free
  <2>1. pp \in held \cup Mapped
    BY <1>2, <1>11 DEF Mapped
  <2> QED
    BY <2>1, <1>1, <1>14 DEF Free, Usable
<1>16. Apart'
  <2>1. pp \notin Tabled
    <3>1. pp \in held \cup Mapped
      BY <1>2, <1>11 DEF Mapped
    <3> QED
      BY <3>1 DEF IInv, Apart
  <2> QED
    BY <2>1, <1>1, <1>14 DEF IInv, Apart
<1>17. ListOK' /\ RefCountsExact' /\ TablesOK' /\ OpOK' /\ NeverPanics'
  BY <1>1, <1>13, <1>15
     DEF IInv, ListOK, RefCountsExact, TablesOK, OpOK, NeverPanics, OffListUnlinked, Usable
<1>18. TlbCoherent'
  BY <1>1, <1>2, <1>5 DEF IInv, TlbCoherent
<1> QED
  BY <1>6, <1>7, <1>16, <1>17, <1>18 DEF IInv

(* page_remove takes the reference of the entry it is about to clear; the  *)
(* page that loses its last one is free.                                   *)
LEMMA RemoveDecrefIInv ==
  ASSUME IInv, RemoveDecref
  PROVE  IInv'
<1>0. op.pc = "remove" /\ op # Idle /\ op.va \in VA /\ op.old = NULL /\ MmuWalk(op.va) # NULL
  BY OpIs DEF RemoveDecref, IInv, OpOK
<1>1. PICK va \in VA : va = op.va
  BY <1>0
<1>2. PICK pte \in UsableEntry : pte = MmuWalk(va)
  BY <1>0, <1>1 DEF IInv, WordsOK
<1> DEFINE pp == pte.page
           d == DecRef(pm, pp)
<1>a. pte \in Entry /\ pte # NULL /\ pte # JUNK /\ pp \in Usable /\ pp \in Page
  BY Nulls DEF UsableEntry
<1>3. \A a \in VA : ~Clearing(a)
  BY <1>0 DEF Clearing
<1>4. va \in MappedAt(pp)
  BY <1>2, <1>3, <1>a, Nulls DEF MappedAt, Present
<1>5. pp \in Mapped /\ pp \notin held /\ pp \notin Tabled /\ pp \notin Free
  BY <1>a, <1>4 DEF Mapped, IInv, Apart, Free
<1>6. pm.pp_link[pp] = NULL /\ pm \in PageInfos /\ Free \in SUBSET Page /\ FreeListIs(pm, Free)
  BY <1>a, <1>5, Nulls DEF IInv, ListOK, OffListUnlinked, TypeOK, Free
<1>7. /\ MappedAt(pp) \in SUBSET VA /\ IsFiniteSet(MappedAt(pp))
      /\ Cardinality(MappedAt(pp)) \in Nat /\ Cardinality(TablesAt(pp)) \in Nat
  <2>1. MappedAt(pp) \in SUBSET VA /\ TablesAt(pp) \in SUBSET PDX
    BY DEF MappedAt, TablesAt
  <2> QED
    BY <2>1, Finite
<1>8. /\ Cardinality(MappedAt(pp) \ {va}) = Cardinality(MappedAt(pp)) - 1
      /\ Cardinality(MappedAt(pp) \ {va}) \in Nat
  <2>1. IsFiniteSet(MappedAt(pp) \ {va})
    BY <1>7, FS_Subset
  <2> QED
    BY <2>1, <1>4, <1>7, FS_RemoveElement, FS_CardinalityType
<1>9. pm.pp_ref[pp] = References(pp) /\ References(pp) \in Nat \ {0}
  <2>1. Cardinality(MappedAt(pp)) # 0
    BY <1>7, <1>8
  <2> QED
    BY <2>1, <1>a, <1>7 DEF References, IInv, RefCountsExact
<1>10. d.pp_ref[pp] = References(pp) - 1
  <2>1. pm.pp_ref[pp] \in 0 .. RefMod - 1
    BY <1>a, <1>6, PageInfosFields
  <2>2. (References(pp) + RefMod - 1) % RefMod = References(pp) - 1
    BY <2>1, <1>9, Nulls
  <2> QED
    BY <2>2, <1>a, <1>6, <1>9, PageInfosFields DEF DecRef
<1>11. /\ d \in PageInfos /\ FreeListIs(d, Free) /\ d.pp_link = pm.pp_link
       /\ \A p \in Page \ {pp} : d.pp_ref[p] = pm.pp_ref[p]
  <2> HIDE DEF pp
  <2> QED
    BY <1>a, <1>6, RefKeepsList
<1>12. ~DecrefPanics(pm, pp)
  BY <1>6, <1>11 DEF DecrefPanics, LastRef, FreePanics
<1>13. /\ pm' = page_decref(pm, pp) /\ op' = [op EXCEPT !.pc = "clear", !.old = pte]
       /\ UNCHANGED <<kern_pgdir, mem, tlb, held, panicked>>
  BY <1>1, <1>2, <1>a, <1>12 DEF RemoveDecref, mmu
<1>14. /\ op' # Idle /\ op'.pc = "clear" /\ op'.va = va /\ op'.old = pte
       /\ op'.new = op.new /\ op'.pte = op.pte /\ op' \in Ops
  BY <1>0, <1>1, <1>a, <1>13, OpIs DEF IInv, TypeOK, Ops, Idle
<1>15. \A a \in VA : MmuWalk(a)' = MmuWalk(a)
  BY <1>13, WalkIs DEF MmuWalk, Walk, tables
<1>16. /\ \A a \in VA : Clearing(a)' <=> a = va
       /\ \A p \in Usable : Inserting(p)' <=> Inserting(p)
       /\ \A p \in Usable : TablesAt(p)' = TablesAt(p)
  BY <1>0, <1>1, <1>13, <1>14 DEF Clearing, Inserting, TablesAt
<1>17. \A p \in Usable : MappedAt(p)' = IF p = pp THEN MappedAt(p) \ {va} ELSE MappedAt(p)
  <2>1. \A p \in Usable : MappedAt(p)' = MappedAt(p) \ {va}
    BY <1>3, <1>15, <1>16 DEF MappedAt
  <2>2. \A p \in Usable \ {pp} : va \notin MappedAt(p)
    BY <1>2 DEF MappedAt
  <2> QED
    BY <2>1, <2>2
<1>18. \A p \in Usable : References(p)' = IF p = pp THEN References(p) - 1 ELSE References(p)
  <2>1. \A p \in Usable \ {pp} : References(p)' = References(p)
    BY <1>16, <1>17 DEF References
  <2>2. /\ References(pp) = Cardinality(TablesAt(pp)) + Cardinality(MappedAt(pp))
                              + IF Inserting(pp) THEN 1 ELSE 0
        /\ References(pp)' = Cardinality(TablesAt(pp)) + Cardinality(MappedAt(pp) \ {va})
                              + IF Inserting(pp) THEN 1 ELSE 0
    BY <1>a, <1>16, <1>17 DEF References
  <2> QED
    BY <2>1, <2>2, <1>7, <1>8
<1> HIDE DEF pp, d
<1>19. RefCountsExact'
  <2>1. pm'.pp_ref = d.pp_ref
    BY <1>13 DEF page_decref, page_free, d
  <2>2. \A p \in Usable : pm'.pp_ref[p] = References(p)'
    BY <2>1, <1>10, <1>11, <1>18, Nulls DEF IInv, RefCountsExact
  <2> QED
    BY <2>2 DEF RefCountsExact, Usable
<1>20. LastRef(pm, pp) <=> References(pp)' = 0
  BY <1>a, <1>10, <1>18 DEF LastRef, d
<1>21. Tabled' = Tabled /\ held' = held /\ Usable' = Usable
  BY <1>13, <1>16 DEF Tabled, Usable
<1>22. References(pp)' # 0 <=> pp \in Mapped'
  <2>1. Cardinality(TablesAt(pp)) = 0
    <3>1. TablesAt(pp) = {}
      BY <1>a, <1>5 DEF Tabled
    <3> QED
      BY <3>1, FS_EmptySet
  <2>2. IsFiniteSet(MappedAt(pp)') /\ Cardinality(MappedAt(pp)') \in Nat
    BY <1>a, <1>7, <1>8, <1>17, FS_Subset
  <2>3. MappedAt(pp)' = {} <=> Cardinality(MappedAt(pp)') = 0
    BY <2>2, FS_EmptySet
  <2>4. TablesAt(pp)' = TablesAt(pp)
    BY <1>a, <1>16
  <2> QED
    BY <2>1, <2>2, <2>3, <2>4, <1>a, <1>5, <1>21 DEF References, Mapped
<1>23. Mapped' = IF LastRef(pm, pp) THEN Mapped \ {pp} ELSE Mapped
  <2>1. \A p \in Usable \ {pp} : p \in Mapped' <=> p \in Mapped
    BY <1>13, <1>16, <1>17, <1>21 DEF Mapped
  <2>2. Mapped \subseteq Usable /\ Mapped' \subseteq Usable
    BY <1>21 DEF Mapped
  <2> QED
    BY <2>1, <2>2, <1>a, <1>5, <1>20, <1>22
<1>24. Free' = IF LastRef(pm, pp) THEN Free \cup {pp} ELSE Free
  BY <1>a, <1>5, <1>21, <1>23 DEF Free
<1>25. pm' \in PageInfos /\ ListOK'
  <2>1. CASE LastRef(pm, pp)
    <3>1. pm' = page_free(d, pp)
      BY <2>1, <1>13 DEF page_decref, d
    <3>2. pm' \in PageInfos /\ FreeListIs(pm', Free \cup {pp})
      BY <3>1, <1>a, <1>5, <1>6, <1>11, PushKeepsList
    <3>3. pm'.pp_link = [pm.pp_link EXCEPT ![pp] = d.page_free_list]
      BY <3>1, <1>11 DEF page_free
    <3>4. \A p \in Page \ (Free \cup {pp}) : pm'.pp_link[p] = NULL
      BY <3>3, <1>6, PageInfosFields DEF IInv, ListOK, OffListUnlinked
    <3> QED
      BY <3>2, <3>4, <2>1, <1>24 DEF ListOK, OffListUnlinked
  <2>2. CASE ~LastRef(pm, pp)
    <3>1. pm' = d
      BY <2>2, <1>13 DEF page_decref, d
    <3> QED
      BY <3>1, <2>2, <1>11, <1>24 DEF IInv, ListOK, OffListUnlinked
  <2> QED
    BY <2>1, <2>2
<1>26. TypeOK'
  BY <1>13, <1>14, <1>25 DEF IInv, TypeOK, Usable
<1>27. Apart'
  BY <1>21, <1>23 DEF IInv, Apart
<1>28. OpOK'
  BY <1>0, <1>1, <1>2, <1>13, <1>14, <1>15, <1>a DEF IInv, OpOK, Usable
<1>29. TlbCoherent'
  BY <1>0, <1>13, <1>14, <1>15 DEF IInv, TlbCoherent
<1>30. TablesOK' /\ WordsOK' /\ NeverPanics'
  BY <1>13, <1>15 DEF IInv, TablesOK, WordsOK, NeverPanics, UsableEntry, Usable
<1> QED
  BY <1>19, <1>25, <1>26, <1>27, <1>28, <1>29, <1>30 DEF IInv

(* What pgdir_walk leaves when it does not fail: a table for va, which may *)
(* be the head of the free list, and the same translations as before.      *)
TablesIn(dir, p) == {d \in PDX : dir[d] = p}
TabledIn(dir) == {p \in Usable : TablesIn(dir, p) # {}}

Walked(w, va, F) ==
  /\ w.pm \in PageInfos /\ FreeListIs(w.pm, F) /\ OffListUnlinked(w.pm, F)
  /\ w.kern_pgdir \in [PDX -> Usable \cup {NULL}] /\ w.kern_pgdir[va[1]] # NULL
  /\ \A d, e \in PDX :
       w.kern_pgdir[d] # NULL /\ w.kern_pgdir[e] = w.kern_pgdir[d] => d = e
  /\ w.mem \in [Page -> [PTX -> Entry \cup {NULL, JUNK}]]
  /\ \A a \in VA : Walk(w, a) = MmuWalk(a)
  /\ F = Usable \ (held \cup Mapped \cup TabledIn(w.kern_pgdir))
  /\ TabledIn(w.kern_pgdir) \cap (held \cup Mapped) = {}
  /\ \A p \in Usable : w.pm.pp_ref[p] =
       Cardinality(TablesIn(w.kern_pgdir, p)) + Cardinality(MappedAt(p))

LEMMA WalkFindsTable ==
  ASSUME IInv, op = Idle, NEW va \in VA, kern_pgdir[va[1]] # NULL,
         NEW w, w = pgdir_walk(tables, va)
  PROVE  Walked(w, va, Free)
<1>1. w.pm = pm /\ w.kern_pgdir = kern_pgdir /\ w.mem = mem
  BY DEF pgdir_walk, tables
<1>2. \A p \in Usable : TablesIn(kern_pgdir, p) = TablesAt(p)
  BY DEF TablesIn, TablesAt
<1>3. TabledIn(kern_pgdir) = Tabled
  BY <1>2 DEF TabledIn, Tabled
<1>4. \A p \in Usable : pm.pp_ref[p] = Cardinality(TablesAt(p)) + Cardinality(MappedAt(p))
  <2>1. \A p \in Usable : ~Inserting(p)
    BY DEF Inserting
  <2>2. \A p \in Usable : Cardinality(TablesAt(p)) \in Nat /\ Cardinality(MappedAt(p)) \in Nat
    <3>1. \A p \in Usable : TablesAt(p) \in SUBSET PDX /\ MappedAt(p) \in SUBSET VA
      BY DEF TablesAt, MappedAt
    <3> QED
      BY <3>1, Finite
  <2> QED
    BY <2>1, <2>2 DEF IInv, RefCountsExact, References
<1>5. \A a \in VA : Walk(w, a) = MmuWalk(a)
  BY <1>1, WalkIs DEF Walk
<1>6. kern_pgdir \in [PDX -> Usable \cup {NULL}]
  BY DEF IInv, TablesOK, TypeOK
<1>7. pm \in PageInfos /\ FreeListIs(pm, Free) /\ OffListUnlinked(pm, Free)
      /\ mem \in [Page -> [PTX -> Entry \cup {NULL, JUNK}]]
  BY DEF IInv, TypeOK, ListOK
<1>8. Tabled \cap (held \cup Mapped) = {}
  BY DEF IInv, Apart
<1>9. \A d, e \in PDX : kern_pgdir[d] # NULL /\ kern_pgdir[e] = kern_pgdir[d] => d = e
  BY DEF IInv, TablesOK
<1> QED
  BY <1>1, <1>2, <1>3, <1>4, <1>5, <1>6, <1>7, <1>8, <1>9 DEF Walked, Free

LEMMA WalkMakesTable ==
  ASSUME IInv, op = Idle, NEW va \in VA, kern_pgdir[va[1]] = NULL,
         ~WalkFails(tables, va), NEW w, w = pgdir_walk(tables, va)
  PROVE  Walked(w, va, Free \ {pm.page_free_list})
<1> DEFINE h == pm.page_free_list
           q == page_alloc(pm)
           F == Free \ {h}
           dir == [kern_pgdir EXCEPT ![va[1]] = h]
<1>1. /\ w.pm = IncRef(q, h) /\ w.kern_pgdir = dir
      /\ w.mem = [mem EXCEPT ![h] = Filled(NULL)] /\ h # NULL
  BY DEF pgdir_walk, tables, WalkFails, AllocResult
<1>2. pm \in PageInfos /\ Free \in SUBSET Page /\ FreeListIs(pm, Free)
  BY Nulls DEF IInv, TypeOK, ListOK, Free
<1>3. h \in Free /\ q \in PageInfos /\ FreeListIs(q, F)
  BY <1>1, <1>2, PopKeepsList
<1>4. /\ h \in Usable /\ h \in Page /\ h \notin held /\ pm.pp_ref[h] = 0
      /\ \A d \in PDX : kern_pgdir[d] # h
  BY <1>3, FreeIs
<1>5. va[1] \in PDX /\ kern_pgdir \in [PDX -> Usable \cup {NULL}] /\ NULL \notin Usable
  BY Address, Nulls DEF IInv, TypeOK, TablesOK
<1>6. /\ q.pp_ref = [pm.pp_ref EXCEPT ![h] = 0]
      /\ q.pp_link = [pm.pp_link EXCEPT ![h] = NULL]
  BY <1>1 DEF page_alloc
<1>7. /\ w.pm \in PageInfos /\ FreeListIs(w.pm, F) /\ w.pm.pp_link = q.pp_link
      /\ \A p \in Page \ {h} : w.pm.pp_ref[p] = q.pp_ref[p]
  <2>1. F \in SUBSET Page
    BY <1>2
  <2> HIDE DEF h, q, F
  <2> QED
    BY <2>1, <1>1, <1>3, <1>4, RefKeepsList
<1>8. w.pm.pp_ref[h] = 1
  <2>1. q.pp_ref[h] = 0
    BY <1>2, <1>4, <1>6, PageInfosFields
  <2>2. (0 + 1) % RefMod = 1
    BY Nulls
  <2> HIDE DEF q, h
  <2> QED
    BY <2>1, <2>2, <1>1, <1>3, <1>4, PageInfosFields DEF IncRef
<1>9. OffListUnlinked(w.pm, F)
  BY <1>2, <1>4, <1>6, <1>7, PageInfosFields DEF IInv, ListOK, OffListUnlinked
<1>10. /\ dir \in [PDX -> Usable \cup {NULL}] /\ dir[va[1]] = h
       /\ \A d \in PDX : d # va[1] => dir[d] = kern_pgdir[d]
  BY <1>4, <1>5
<1>11. \A d, e \in PDX : dir[d] # NULL /\ dir[e] = dir[d] => d = e
  BY <1>4, <1>10 DEF IInv, TablesOK
<1>12. w.mem \in [Page -> [PTX -> Entry \cup {NULL, JUNK}]]
  <2>1. Filled(NULL) \in [PTX -> Entry \cup {NULL, JUNK}]
    BY DEF Filled
  <2>2. mem \in [Page -> [PTX -> Entry \cup {NULL, JUNK}]]
    BY DEF IInv, TypeOK
  <2> HIDE DEF h
  <2> QED
    BY <2>1, <2>2, <1>1
<1>13. \A a \in VA : Walk(w, a) = MmuWalk(a)
  <2> SUFFICES ASSUME NEW a \in VA
               PROVE  Walk(w, a) = MmuWalk(a)
    OBVIOUS
  <2>1. a[1] \in PDX /\ a[2] \in PTX /\ mem \in [Page -> [PTX -> Entry \cup {NULL, JUNK}]]
    BY Address DEF IInv, TypeOK
  <2>2. CASE a[1] = va[1]
    <3>1. Walk(w, a) = Filled(NULL)[a[2]]
      BY <2>1, <2>2, <1>1, <1>4, <1>10 DEF Walk
    <3> QED
      BY <3>1, <2>1, <2>2, WalkIs DEF Filled
  <2>3. CASE a[1] # va[1]
    <3>1. Walk(w, a) = IF kern_pgdir[a[1]] = NULL THEN NULL ELSE w.mem[kern_pgdir[a[1]]][a[2]]
      BY <2>1, <2>3, <1>1, <1>10 DEF Walk
    <3>2. kern_pgdir[a[1]] # NULL => w.mem[kern_pgdir[a[1]]] = mem[kern_pgdir[a[1]]]
      BY <2>1, <1>1, <1>4, <1>5, Nulls
    <3> QED
      BY <3>1, <3>2, WalkIs
  <2> QED
    BY <2>2, <2>3
<1>14. \A p \in Usable : TablesIn(dir, p) = IF p = h THEN {va[1]} ELSE TablesAt(p)
  <2> SUFFICES ASSUME NEW p \in Usable, NEW d \in PDX
               PROVE  dir[d] = p <=> IF p = h THEN d = va[1] ELSE kern_pgdir[d] = p
    BY <1>5 DEF TablesIn, TablesAt
  <2> QED
    BY <1>4, <1>5, <1>10
<1>15. TabledIn(dir) = Tabled \cup {h}
  BY <1>4, <1>14 DEF TabledIn, Tabled
<1>16. h \notin held /\ h \notin Mapped /\ h \notin Tabled
  BY <1>3 DEF Free
<1>17. \A p \in Usable : /\ ~Inserting(p) /\ Cardinality(MappedAt(p)) \in Nat
                         /\ Cardinality(TablesAt(p)) \in Nat
  <2>1. \A p \in Usable : TablesAt(p) \in SUBSET PDX /\ MappedAt(p) \in SUBSET VA
    BY DEF TablesAt, MappedAt
  <2> QED
    BY <2>1, Finite DEF Inserting
<1>18. \A p \in Usable : w.pm.pp_ref[p] =
         Cardinality(TablesIn(dir, p)) + Cardinality(MappedAt(p))
  <2>1. Cardinality(MappedAt(h)) = 0 /\ Cardinality({va[1]}) = 1
    <3>1. MappedAt(h) = {}
      BY <1>4, <1>16 DEF Mapped
    <3> QED
      BY <3>1, FS_EmptySet, FS_Singleton
  <2>2. \A p \in Usable \ {h} : w.pm.pp_ref[p] = pm.pp_ref[p]
    BY <1>2, <1>6, <1>7, PageInfosFields, Nulls
  <2>3. \A p \in Usable \ {h} : pm.pp_ref[p] = Cardinality(TablesAt(p)) + Cardinality(MappedAt(p))
    BY <1>17 DEF IInv, RefCountsExact, References
  <2> HIDE DEF h, dir
  <2> QED
    BY <2>1, <2>2, <2>3, <1>8, <1>14
<1>19. F = Usable \ (held \cup Mapped \cup TabledIn(dir))
  BY <1>15 DEF Free
<1>20. TabledIn(dir) \cap (held \cup Mapped) = {}
  BY <1>15, <1>16 DEF IInv, Apart
<1> HIDE DEF dir, h, F
<1> QED
  BY <1>1, <1>4, <1>5, <1>7, <1>9, <1>10, <1>11, <1>12, <1>13, <1>18, <1>19, <1>20
     DEF Walked, F, h

(* page_insert has its table and counts the reference it is about to make. *)
LEMMA PageInsertIInv ==
  ASSUME IInv, CountsFit, NEW pp \in Usable, NEW va \in VA, NEW perm \in Perm,
         PageInsert(pp, va, perm)
  PROVE  IInv'
<1>1. PICK w : w = pgdir_walk(tables, va)
  OBVIOUS
<1>2. op = Idle /\ ~WalkFails(tables, va) /\ pp \in held \cup MappedPages
  BY DEF PageInsert
<1>3. PICK F : Walked(w, va, F)
  BY <1>1, <1>2, WalkFindsTable, WalkMakesTable
<1>4. /\ pm' = IncRef(w.pm, pp) /\ kern_pgdir' = w.kern_pgdir /\ mem' = w.mem
      /\ op' = [pc |-> "remove", va |-> va, old |-> NULL,
                new |-> [page |-> pp, perm |-> perm],
                pte |-> [page |-> w.kern_pgdir[va[1]], ptx |-> va[2]]]
      /\ UNCHANGED <<tlb, held, panicked>>
  BY <1>1 DEF PageInsert
<1>5. [page |-> pp, perm |-> perm] \in Entry /\ [page |-> pp, perm |-> perm] # NULL /\ pp \in Page
  BY Nulls DEF Entry
<1>6. /\ w.pm \in PageInfos /\ FreeListIs(w.pm, F) /\ OffListUnlinked(w.pm, F)
      /\ w.kern_pgdir \in [PDX -> Usable \cup {NULL}] /\ w.kern_pgdir[va[1]] # NULL
      /\ w.mem \in [Page -> [PTX -> Entry \cup {NULL, JUNK}]]
      /\ F = Usable \ (held \cup Mapped \cup TabledIn(w.kern_pgdir))
      /\ TabledIn(w.kern_pgdir) \cap (held \cup Mapped) = {}
  BY <1>3 DEF Walked
<1>7. \A a \in VA : MmuWalk(a)' = MmuWalk(a)
  BY <1>3, <1>4 DEF Walked, MmuWalk, Walk, tables
<1>8. /\ \A a \in VA : ~Clearing(a) /\ ~Clearing(a)'
      /\ \A p \in Usable : ~Inserting(p) /\ (Inserting(p)' <=> p = pp)
  BY <1>2, <1>4, <1>5 DEF Clearing, Inserting, Idle
<1>9. \A p \in Usable : MappedAt(p)' = MappedAt(p)
  BY <1>7, <1>8 DEF MappedAt
<1>10. pp \in held \/ MappedAt(pp) # {}
  <2> SUFFICES ASSUME pp \in MappedPages
               PROVE  MappedAt(pp) # {}
    BY <1>2
  <2>1. PICK a \in VA : Present(MmuWalk(a)) /\ MmuWalk(a).page = pp
    BY DEF MappedPages, MappedIn, MmuWalk
  <2> QED
    BY <2>1, <1>8 DEF MappedAt
<1>11. Mapped' = Mapped
  BY <1>4, <1>8, <1>9, <1>10 DEF Mapped, Usable
<1>12. pp \in held \cup Mapped
  BY <1>10 DEF Mapped
<1>13. \A p \in Usable : TablesAt(p)' = TablesIn(w.kern_pgdir, p)
  BY <1>4 DEF TablesAt, TablesIn
<1>14. Tabled' = TabledIn(w.kern_pgdir)
  BY <1>13 DEF Tabled, TabledIn, Usable
<1>15. Free' = F
  BY <1>4, <1>6, <1>11, <1>14 DEF Free, Usable
<1>16. /\ pm' \in PageInfos /\ FreeListIs(pm', F) /\ pm'.pp_link = w.pm.pp_link
       /\ \A p \in Page \ {pp} : pm'.pp_ref[p] = w.pm.pp_ref[p]
  <2>1. F \in SUBSET Page
    BY <1>6, Nulls
  <2> QED
    BY <2>1, <1>4, <1>5, <1>6, RefKeepsList
<1>17. ListOK'
  BY <1>6, <1>15, <1>16 DEF ListOK, OffListUnlinked
<1>18. \A p \in Usable : /\ Cardinality(MappedAt(p)) \in Nat
                         /\ Cardinality(TablesIn(w.kern_pgdir, p)) \in Nat
                         /\ w.pm.pp_ref[p] = Cardinality(TablesIn(w.kern_pgdir, p))
                                               + Cardinality(MappedAt(p))
  <2>1. \A p \in Usable : TablesIn(w.kern_pgdir, p) \in SUBSET PDX /\ MappedAt(p) \in SUBSET VA
    BY DEF TablesIn, MappedAt
  <2> QED
    BY <2>1, <1>3, Finite DEF Walked
<1>19. RefCountsExact'
  <2> SUFFICES ASSUME NEW p \in Usable
               PROVE  pm'.pp_ref[p] = References(p)'
    BY DEF RefCountsExact, Usable
  <2>1. References(p)' = Cardinality(TablesIn(w.kern_pgdir, p)) + Cardinality(MappedAt(p))
                           + IF p = pp THEN 1 ELSE 0
    BY <1>8, <1>9, <1>13 DEF References
  <2>2. CASE p # pp
    BY <2>1, <2>2, <1>16, <1>18, Nulls
  <2>3. CASE p = pp
    <3>1. Cardinality(TablesIn(w.kern_pgdir, pp)) = 0
      <4>1. TablesIn(w.kern_pgdir, pp) = {}
        BY <1>6, <1>12 DEF TabledIn
      <4> QED
        BY <4>1, FS_EmptySet
    <3>2. Cardinality(MappedAt(pp)) \in 0 .. RefMod - 2
      BY <1>18, Nulls DEF CountsFit
    <3>3. (Cardinality(MappedAt(pp)) + 1) % RefMod = Cardinality(MappedAt(pp)) + 1
      BY <3>2, Nulls
    <3>4. pm'.pp_ref[pp] = (w.pm.pp_ref[pp] + 1) % RefMod
      BY <1>4, <1>5, <1>6, PageInfosFields DEF IncRef
    <3>5. w.pm.pp_ref[pp] = Cardinality(MappedAt(pp))
      BY <3>1, <3>2, <1>18
    <3> QED
      BY <2>1, <2>3, <3>1, <3>2, <3>3, <3>4, <3>5
  <2> QED
    BY <2>2, <2>3
<1>20. TypeOK'
  <2>1. op' \in Ops
    <3>1. [page |-> w.kern_pgdir[va[1]], ptx |-> va[2]] \in PtePointer
      BY <1>6, Address, Nulls DEF PtePointer
    <3> QED
      BY <3>1, <1>4, <1>5 DEF Ops
  <2>2. kern_pgdir' \in [PDX -> Page \cup {NULL}]
    BY <1>4, <1>6, Nulls
  <2> QED
    BY <2>1, <2>2, <1>4, <1>6, <1>16 DEF IInv, TypeOK, Usable
<1>21. TablesOK'
  BY <1>3, <1>4, <1>6 DEF Walked, TablesOK, Usable
<1>22. Apart'
  BY <1>4, <1>6, <1>11, <1>14 DEF IInv, Apart
<1>23. OpOK'
  BY <1>4, <1>6 DEF OpOK, Usable
<1>24. WordsOK' /\ TlbCoherent' /\ NeverPanics'
  BY <1>2, <1>4, <1>7 DEF IInv, WordsOK, TlbCoherent, NeverPanics, UsableEntry, Usable, Idle
<1> QED
  BY <1>17, <1>19, <1>20, <1>21, <1>22, <1>23, <1>24 DEF IInv

(* The table that check_page takes back translated nothing.                *)
LEMMA DropTableIInv ==
  ASSUME IInv, NEW d \in PDX, DropTable(d)
  PROVE  IInv'
<1>1. /\ op = Idle /\ kern_pgdir[d] # NULL /\ mem[kern_pgdir[d]] = Filled(NULL)
      /\ kern_pgdir' = [kern_pgdir EXCEPT ![d] = NULL] /\ UNCHANGED <<mem, tlb, held, op>>
  BY DEF DropTable
<1>2. PICK h \in Usable : h = kern_pgdir[d]
  BY <1>1 DEF IInv, TablesOK
<1>3. h \in Page /\ h \in Tabled /\ h \notin held /\ h \notin Mapped /\ h \notin Free
  BY <1>2, Nulls DEF Tabled, TablesAt, IInv, Apart, Free
<1>4. /\ pm \in PageInfos /\ Free \in SUBSET Page /\ FreeListIs(pm, Free)
      /\ pm.pp_link[h] = NULL
  BY <1>3, Nulls DEF IInv, TypeOK, ListOK, OffListUnlinked, Free
<1>5. PICK forced : forced = [pm EXCEPT !.pp_ref[h] = 0]
  OBVIOUS
<1>6. /\ forced = [pp_ref |-> [pm.pp_ref EXCEPT ![h] = 0], pp_link |-> pm.pp_link,
                   page_free_list |-> pm.page_free_list]
      /\ forced \in PageInfos /\ forced.pp_ref[h] = 0
      /\ \A p \in Usable \ {h} : forced.pp_ref[p] = pm.pp_ref[p]
  <2>1. forced = [pp_ref |-> [pm.pp_ref EXCEPT ![h] = 0], pp_link |-> pm.pp_link,
                  page_free_list |-> pm.page_free_list]
    BY <1>4, <1>5, PageInfosFields
  <2>2. [pm.pp_ref EXCEPT ![h] = 0] \in [Page -> 0 .. RefMod - 1]
    BY <1>4, PageInfosFields, Nulls
  <2> QED
    BY <2>1, <2>2, <1>3, <1>4, PageInfosFields, Nulls DEF PageInfos
<1>7. FreeListIs(forced, Free)
  <2>1. PICK f \in [1 .. Cardinality(Free) -> Free] : Threads(pm, Free, f)
    BY <1>4 DEF FreeListIs
  <2>2. Threads(forced, Free, f)
    BY <2>1, <1>6 DEF Threads
  <2> QED
    BY <2>2 DEF FreeListIs
<1>8. pm' = page_free(forced, h) /\ panicked' = panicked
  BY <1>2, <1>4, <1>5, <1>6 DEF DropTable, FreePanics
<1>9. pm' \in PageInfos /\ FreeListIs(pm', Free \cup {h})
  BY <1>3, <1>4, <1>6, <1>7, <1>8, PushKeepsList
<1>10. /\ pm'.pp_ref = forced.pp_ref
       /\ pm'.pp_link = [pm.pp_link EXCEPT ![h] = pm.page_free_list]
  BY <1>6, <1>8 DEF page_free
<1>11. /\ kern_pgdir \in [PDX -> Page \cup {NULL}] /\ kern_pgdir'[d] = NULL
       /\ \A e \in PDX : e # d => kern_pgdir'[e] = kern_pgdir[e]
  BY <1>1 DEF IInv, TypeOK
<1>12. \A a \in VA : MmuWalk(a)' = MmuWalk(a)
  <2> SUFFICES ASSUME NEW a \in VA
               PROVE  MmuWalk(a)' = MmuWalk(a)
    OBVIOUS
  <2>1. MmuWalk(a)' = IF kern_pgdir'[a[1]] = NULL THEN NULL ELSE mem[kern_pgdir'[a[1]]][a[2]]
    BY <1>1 DEF MmuWalk, Walk, tables
  <2>2. CASE a[1] = d
    <3>1. MmuWalk(a) = Filled(NULL)[a[2]]
      BY <2>2, <1>1, WalkIs
    <3> QED
      BY <3>1, <2>1, <2>2, <1>11, Address DEF Filled
  <2>3. CASE a[1] # d
    BY <2>1, <2>3, <1>11, Address, WalkIs
  <2> QED
    BY <2>2, <2>3
<1>13. \A p \in Usable : MappedAt(p)' = MappedAt(p) /\ ~Inserting(p) /\ ~Inserting(p)'
  BY <1>1, <1>12 DEF MappedAt, Clearing, Inserting
<1>14. Mapped' = Mapped
  BY <1>13 DEF Mapped, Usable
<1>15. \A p \in Usable : TablesAt(p)' = IF p = h THEN {} ELSE TablesAt(p)
  <2> SUFFICES ASSUME NEW p \in Usable, NEW e \in PDX
               PROVE  kern_pgdir'[e] = p <=> p # h /\ kern_pgdir[e] = p
    BY DEF TablesAt
  <2>1. CASE e = d
    BY <2>1, <1>2, <1>11, Nulls
  <2>2. CASE e # d
    BY <2>2, <1>1, <1>2, <1>11 DEF IInv, TablesOK
  <2> QED
    BY <2>1, <2>2
<1>16. Tabled' = Tabled \ {h}
  BY <1>15 DEF Tabled, Usable
<1>17. Free' = Free \cup {h}
  BY <1>1, <1>3, <1>14, <1>16 DEF Free, Usable
<1>18. ListOK'
  <2>1. \A p \in Page \ (Free \cup {h}) : pm'.pp_link[p] = NULL
    BY <1>4, <1>10, PageInfosFields DEF IInv, ListOK, OffListUnlinked
  <2> QED
    BY <2>1, <1>9, <1>17 DEF ListOK, OffListUnlinked
<1>19. RefCountsExact'
  <2>1. References(h)' = 0
    <3>1. MappedAt(h)' = {} /\ TablesAt(h)' = {}
      BY <1>3, <1>13, <1>15 DEF Mapped
    <3> QED
      BY <3>1, <1>13, FS_EmptySet DEF References
  <2>2. \A p \in Usable \ {h} : References(p)' = References(p)
    BY <1>13, <1>15 DEF References
  <2>3. \A p \in Usable : pm'.pp_ref[p] = References(p)'
    BY <2>1, <2>2, <1>6, <1>10 DEF IInv, RefCountsExact
  <2> QED
    BY <2>3 DEF RefCountsExact, Usable
<1>20. TypeOK'
  <2>1. kern_pgdir' \in [PDX -> Page \cup {NULL}]
    BY <1>1, <1>11
  <2> QED
    BY <2>1, <1>1, <1>8, <1>9 DEF IInv, TypeOK, Usable
<1>21. TablesOK'
  BY <1>11 DEF IInv, TablesOK, Usable
<1>22. Apart'
  BY <1>1, <1>14, <1>16 DEF IInv, Apart
<1>23. WordsOK' /\ OpOK' /\ TlbCoherent' /\ NeverPanics'
  BY <1>1, <1>8, <1>12
     DEF IInv, WordsOK, OpOK, TlbCoherent, NeverPanics, UsableEntry, Usable
<1> QED
  BY <1>18, <1>19, <1>20, <1>21, <1>22, <1>23 DEF IInv

(* Every step keeps the invariant while the counters suffice.              *)
LEMMA NextIInv ==
  ASSUME IInv, CountsFit, [Next]_vars
  PROVE  IInv'
<1>1. CASE UNCHANGED vars
  <2>1. \A a \in VA : MmuWalk(a)' = MmuWalk(a)
    BY <1>1 DEF vars, MmuWalk, Walk, tables
  <2>2. \A p \in Usable : MappedAt(p)' = MappedAt(p) /\ (Inserting(p)' <=> Inserting(p))
    BY <1>1, <2>1 DEF vars, MappedAt, Clearing, Inserting
  <2>3. TypeOK' /\ WordsOK' /\ OpOK' /\ TlbCoherent'
    BY <1>1, <2>1, OpIs
       DEF vars, IInv, TypeOK, WordsOK, OpOK, TlbCoherent, UsableEntry, Usable
  <2> QED
    BY <1>1, <2>2, <2>3, QuietStep DEF vars
<1>2. CASE Mmu
  BY <1>2, MmuIInv
<1>3. CASE Kernel
  <2>1. CASE PageAlloc
    BY <2>1, PageAllocIInv
  <2>2. CASE \E pp \in Usable : PageFree(pp)
    BY <2>2, PageFreeIInv
  <2>3. CASE \E pp \in Usable, va \in VA, perm \in Perm : PageInsert(pp, va, perm)
    BY <2>3, PageInsertIInv
  <2>4. CASE \E pp \in Usable, va \in VA : PageInsertNoMem(pp, va)
    BY <2>4, <1>1 DEF PageInsertNoMem
  <2>5. CASE \E va \in VA : PageRemove(va)
    BY <2>5, PageRemoveIInv
  <2>6. CASE RemoveNothing
    BY <2>6, RemoveNothingIInv
  <2>7. CASE RemoveDecref
    BY <2>7, RemoveDecrefIInv
  <2>8. CASE RemoveClear
    BY <2>8, RemoveClearIInv
  <2>9. CASE RemoveFlush
    BY <2>9, RemoveFlushIInv
  <2>10. CASE InsertSet
    BY <2>10, InsertSetIInv
  <2>11. CASE \E d \in PDX : DropTable(d)
    BY <2>11, DropTableIInv
  <2> QED
    BY <1>3, <2>1, <2>2, <2>3, <2>4, <2>5, <2>6, <2>7, <2>8, <2>9, <2>10, <2>11 DEF Kernel
<1> QED
  BY <1>1, <1>2, <1>3 DEF Next

(* Every page has one use: the counts of RefCountsExact do not overlap.    *)
LEMMA IInvPartitions ==
  ASSUME IInv
  PROVE  PagesPartitioned
<1>1. \A p \in Tabled : Cardinality(TablesAt(p)) = 1
  <2> SUFFICES ASSUME NEW p \in Tabled
               PROVE  Cardinality(TablesAt(p)) = 1
    OBVIOUS
  <2>1. PICK d \in PDX : kern_pgdir[d] = p
    BY DEF Tabled, TablesAt
  <2>2. TablesAt(p) = {d}
    BY <2>1, Nulls DEF TablesAt, IInv, TablesOK, Tabled
  <2> QED
    BY <2>2, FS_Singleton
<1> QED
  BY <1>1 DEF PagesPartitioned, IInv, ListOK, Apart, Free, Mapped, Tabled

-----------------------------------------------------------------------------
LEMMA InvariantHolds == Spec /\ []CountsFit => []IInv
<1>1. Init => IInv
  BY InitIInv
<1>2. IInv /\ CountsFit /\ [Next]_vars => IInv'
  BY NextIInv
<1> QED
  BY <1>1, <1>2, PTL DEF Spec

(* CountsFit holds by itself where there are fewer addresses than a        *)
(* counter counts, as in the run.                                          *)
LEMMA SmallSpaceFits ==
  ASSUME Cardinality(VA) < RefMod - 1
  PROVE  CountsFit
<1> SUFFICES ASSUME NEW p \in Usable
             PROVE  Cardinality(MappedAt(p)) < RefMod - 1
  BY DEF CountsFit
<1>1. MappedAt(p) \in SUBSET VA
  BY DEF MappedAt
<1>2. IsFiniteSet(VA) /\ Cardinality(VA) \in Nat /\ Cardinality(MappedAt(p)) \in Nat
  BY <1>1, Finite
<1>3. Cardinality(MappedAt(p)) <= Cardinality(VA)
  BY <1>1, <1>2, FS_Subset
<1> QED
  BY <1>2, <1>3, Nulls

(* The tracker, the tables, the TLB and the call in progress keep their    *)
(* types: a table's words never become anything but entries, and pp_ref    *)
(* stays within its width without wrapping.                                *)
THEOREM TypeCorrect == Spec /\ []CountsFit => []TypeOK
<1>1. IInv => TypeOK
  BY DEF IInv
<1> QED
  BY <1>1, InvariantHolds, PTL

(* pp_ref is the number of pointers to a page after every store of every   *)
(* call (memlayout.h:179), whatever page_insert replaces.                  *)
THEOREM RefCountsCorrect == Spec /\ []CountsFit => []RefCountsExact
<1>1. IInv => RefCountsExact
  BY DEF IInv
<1> QED
  BY <1>1, InvariantHolds, PTL

(* No call, complete, in progress or failed, leaks a page or frees one     *)
(* that is in use (pmap.c:308-542).                                        *)
THEOREM NoLeakNoEarlyFree == Spec /\ []CountsFit => []PagesPartitioned
<1> QED
  BY IInvPartitions, InvariantHolds, PTL

(* Whenever the MMU fills and drops its translations, only the address     *)
(* between *pte = 0 and invlpg can have a stale one (pmap.c:539-540).      *)
THEOREM TlbCorrect == Spec /\ []CountsFit => []TlbCoherent
<1>1. IInv => TlbCoherent
  BY DEF IInv
<1> QED
  BY <1>1, InvariantHolds, PTL

(* The panics of page_free and pa2page are never reached.                  *)
THEOREM NoPanicInTables == Spec /\ []CountsFit => []NeverPanics
<1>1. IInv => NeverPanics
  BY DEF IInv
<1> QED
  BY <1>1, InvariantHolds, PTL

-----------------------------------------------------------------------------
(* The page that a page_insert in progress will map is still its caller's  *)
(* or still mapped, as its caller sees the address space.                  *)
NewFound == op # Idle /\ op.new # NULL => op.new.page \in held \cup Space!Mapped

(* The address space its callers see, without a call that replaces one.    *)
LEMMA IdleMap ==
  ASSUME op.pc \notin {"flush", "set"}
  PROVE  VisibleMap = [va \in VA |-> MmuWalk(va)]
  BY DEF VisibleMap

LEMMA InitMaps == Init => Space!Init /\ NewFound
<1> SUFFICES ASSUME Init
             PROVE  Space!Init /\ NewFound
  OBVIOUS
<1>1. op = Idle /\ op.pc = "idle" /\ held = {} /\ \A va \in VA : MmuWalk(va) = NULL
  BY Address, WalkIs DEF Init, Idle
<1>2. VisibleMap = [va \in VA |-> NULL]
  BY <1>1, IdleMap
<1> QED
  BY <1>1, <1>2 DEF Space!Init, NewFound

(* A step that its callers do not see.                                     *)
LEMMA Stutters ==
  ASSUME NewFound, held' = held, VisibleMap' = VisibleMap,
         op' # Idle => op # Idle /\ op'.new \in {op.new, NULL}
  PROVE  UNCHANGED Space!vars /\ NewFound'
  BY DEF Space!vars, Space!Mapped, NewFound

LEMMA PageAllocMaps ==
  ASSUME IInv, PageAlloc
  PROVE  Space!Next /\ NewFound'
<1> DEFINE h == pm.page_free_list
<1>1. /\ op = Idle /\ h # NULL /\ op' = op /\ kern_pgdir' = kern_pgdir
      /\ held' = held \cup {h} /\ mem' = [mem EXCEPT ![h] = Filled(JUNK)]
  BY DEF PageAlloc, AllocResult
<1>2. pm \in PageInfos /\ Free \in SUBSET Page /\ FreeListIs(pm, Free)
  BY Nulls DEF IInv, TypeOK, ListOK, Free
<1>3. h \in Free
  BY <1>1, <1>2, PopKeepsList
<1>4. /\ h \in Usable /\ h \in Page /\ h \notin held /\ h \notin Mapped
      /\ \A d \in PDX : kern_pgdir[d] # h
  BY <1>3, FreeIs DEF Free
<1>5. \A a \in VA : MmuWalk(a)' = MmuWalk(a)
  <2> SUFFICES ASSUME NEW a \in VA
               PROVE  MmuWalk(a)' = MmuWalk(a)
    OBVIOUS
  <2>1. a[1] \in PDX /\ kern_pgdir[a[1]] # h /\ kern_pgdir[a[1]] \in Page \cup {NULL}
    BY <1>4, Address DEF IInv, TypeOK
  <2>2. kern_pgdir[a[1]] # NULL => mem'[kern_pgdir[a[1]]] = mem[kern_pgdir[a[1]]]
    BY <2>1, <1>1 DEF IInv, TypeOK
  <2> QED
    BY <2>2, <1>1 DEF MmuWalk, Walk, tables
<1>6. VisibleMap' = VisibleMap /\ VisibleMap = [va \in VA |-> MmuWalk(va)]
  BY <1>1, <1>5, IdleMap DEF VisibleMap, Idle
<1>7. h \notin Space!Mapped
  <2>1. \A va \in VA : MmuWalk(va) # NULL => MmuWalk(va).page # h
    <3>1. \A va \in VA : ~Clearing(va)
      BY <1>1 DEF Clearing, Idle
    <3>2. MappedAt(h) = {}
      BY <1>4 DEF Mapped
    <3> QED
      BY <3>1, <3>2, <1>4, MappedIs DEF IInv
  <2> QED
    BY <2>1, <1>6 DEF Space!Mapped
<1>8. Space!Alloc(h)
  BY <1>1, <1>4, <1>6, <1>7 DEF Space!Alloc
<1> QED
  BY <1>1, <1>4, <1>8 DEF Space!Next, NewFound

LEMMA PageFreeMaps ==
  ASSUME NEW pp \in Usable, IInv, PageFree(pp)
  PROVE  [Space!Next]_(Space!vars) /\ NewFound'
<1>1. op = Idle /\ pp \in held /\ UNCHANGED <<kern_pgdir, mem, op>>
      /\ (held' = held \/ held' = held \ {pp})
  BY DEF PageFree, mmu
<1>2. VisibleMap' = VisibleMap
  BY <1>1 DEF VisibleMap, MmuWalk, Walk, tables
<1>3. held' = held \ {pp} => Space!Free(pp)
  BY <1>1, <1>2 DEF Space!Free
<1>4. held' = held => UNCHANGED Space!vars
  BY <1>2 DEF Space!vars
<1> QED
  BY <1>1, <1>3, <1>4 DEF Space!Next, NewFound

(* Making a table is not seen, nor that the reference is counted.          *)
LEMMA PageInsertMaps ==
  ASSUME IInv, NEW pp \in Usable, NEW va \in VA, NEW perm \in Perm,
         PageInsert(pp, va, perm)
  PROVE  UNCHANGED Space!vars /\ NewFound'
<1>1. PICK w : w = pgdir_walk(tables, va)
  OBVIOUS
<1>2. op = Idle /\ ~WalkFails(tables, va) /\ pp \in held \cup MappedPages
  BY DEF PageInsert
<1>3. PICK F : Walked(w, va, F)
  BY <1>1, <1>2, WalkFindsTable, WalkMakesTable
<1>4. /\ kern_pgdir' = w.kern_pgdir /\ mem' = w.mem /\ held' = held
      /\ op'.pc = "remove" /\ op'.new.page = pp
  BY <1>1 DEF PageInsert
<1>5. \A a \in VA : MmuWalk(a)' = MmuWalk(a)
  BY <1>3, <1>4 DEF Walked, MmuWalk, Walk, tables
<1>6. VisibleMap = [a \in VA |-> MmuWalk(a)] /\ VisibleMap' = VisibleMap
  BY <1>2, <1>4, <1>5 DEF VisibleMap, Idle
<1>7. pp \in held \cup Space!Mapped
  <2> SUFFICES ASSUME pp \in MappedPages
               PROVE  pp \in Space!Mapped
    BY <1>2
  <2>1. PICK a \in VA : Present(MmuWalk(a)) /\ MmuWalk(a).page = pp
    BY DEF MappedPages, MappedIn, MmuWalk
  <2>2. VisibleMap[a] = MmuWalk(a) /\ VisibleMap[a] # NULL
    BY <2>1, <1>6 DEF Present
  <2> QED
    BY <2>1, <2>2 DEF Space!Mapped
<1>8. Space!Mapped' = Space!Mapped
  BY <1>6 DEF Space!Mapped
<1> QED
  BY <1>4, <1>6, <1>7, <1>8 DEF Space!vars, NewFound

(* A page_remove by itself unmaps at *pte = 0; inside page_insert it shows *)
(* nothing yet.                                                            *)
LEMMA RemoveClearMaps ==
  ASSUME IInv, NewFound, RemoveClear
  PROVE  [Space!Next]_(Space!vars) /\ NewFound'
<1>1. /\ op.pc = "clear" /\ op # Idle /\ op.va \in VA /\ op' = [op EXCEPT !.pc = "flush"]
      /\ mem' = [mem EXCEPT ![kern_pgdir[op.va[1]]][op.va[2]] = NULL]
      /\ UNCHANGED <<kern_pgdir, held>>
  BY OpIs DEF RemoveClear, IInv
<1>2. op'.pc = "flush" /\ op'.va = op.va /\ op'.old = op.old /\ op'.new = op.new
  BY <1>1, OpIs DEF IInv
<1>3. op.old # NULL /\ MmuWalk(op.va) = op.old /\ kern_pgdir[op.va[1]] # NULL
  BY <1>1, WalkIs DEF IInv, OpOK
<1>4. \A a \in VA : MmuWalk(a)' = IF a = op.va THEN NULL ELSE MmuWalk(a)
  BY <1>1, <1>3, Store DEF IInv
<1>5. VisibleMap = [a \in VA |-> MmuWalk(a)]
  BY <1>1, IdleMap
<1>6. CASE op.new = NULL
  <2>1. VisibleMap' = [VisibleMap EXCEPT ![op.va] = NULL]
    BY <1>1, <1>2, <1>4, <1>5, <1>6 DEF VisibleMap
  <2>2. Space!Unmap(op.va)
    BY <2>1, <1>1, <1>3, <1>5 DEF Space!Unmap
  <2> QED
    BY <2>2, <1>1, <1>2, <1>6 DEF Space!Next, NewFound
<1>7. CASE op.new # NULL
  <2>1. VisibleMap' = VisibleMap
    BY <1>2, <1>3, <1>4, <1>5, <1>7 DEF VisibleMap
  <2> QED
    BY <2>1, <1>1, <1>2, Stutters
<1> QED
  BY <1>6, <1>7

(* page_insert replaces the mapping with its last store.                   *)
LEMMA InsertSetMaps ==
  ASSUME IInv, NewFound, InsertSet
  PROVE  Space!Next /\ NewFound'
<1>1. /\ op.pc = "set" /\ op # Idle /\ op.va \in VA /\ op' = Idle
      /\ mem' = [mem EXCEPT ![op.pte.page][op.pte.ptx] = op.new]
      /\ held' = held \ {op.new.page} /\ kern_pgdir' = kern_pgdir
  BY OpIs DEF InsertSet, IInv
<1>2. /\ op.new # NULL /\ op.new.page \in Usable /\ kern_pgdir[op.va[1]] # NULL
      /\ op.pte = [page |-> kern_pgdir[op.va[1]], ptx |-> op.va[2]]
  BY <1>1 DEF IInv, OpOK
<1>3. op.new = [page |-> op.new.page, perm |-> op.new.perm] /\ op.new.perm \in Perm
  BY <1>1, <1>2, OpIs DEF IInv, Entry
<1>4. mem' = [mem EXCEPT ![kern_pgdir[op.va[1]]][op.va[2]] = op.new]
  BY <1>1, <1>2
<1>5. \A a \in VA : MmuWalk(a)' = IF a = op.va THEN op.new ELSE MmuWalk(a)
  BY <1>1, <1>2, <1>4, Store DEF IInv
<1>6. VisibleMap' = [VisibleMap EXCEPT ![op.va] = op.new]
  BY <1>1, <1>2, <1>5 DEF VisibleMap, Idle
<1>7. op.new.page \in held \cup Space!Mapped
  BY <1>1, <1>2 DEF NewFound
<1>8. Space!Map(op.va, op.new.page, op.new.perm)
  BY <1>1, <1>3, <1>6, <1>7 DEF Space!Map
<1> QED
  BY <1>1, <1>2, <1>3, <1>8 DEF Space!Next, NewFound

(* The other steps of a call and those of the MMU are not seen.            *)
LEMMA HiddenSteps ==
  ASSUME IInv, NewFound,
         \/ RemoveNothing \/ RemoveDecref \/ RemoveFlush \/ Mmu
         \/ \E va \in VA : PageRemove(va)
         \/ UNCHANGED vars
  PROVE  UNCHANGED Space!vars /\ NewFound'
<1>1. UNCHANGED <<kern_pgdir, mem, held>>
  BY DEF RemoveNothing, RemoveDecref, RemoveFlush, Mmu, TlbFill, TlbEvict, PageRemove,
         vars, mmu
<1>2. \A a \in VA : MmuWalk(a)' = MmuWalk(a)
  BY <1>1 DEF MmuWalk, Walk, tables
<1>3. CASE RemoveNothing \/ RemoveFlush
  <2>1. /\ op.pc \in {"remove", "flush"} /\ op # Idle /\ op' = AfterRemove /\ op.va \in VA
        /\ MmuWalk(op.va) = NULL /\ (op.pc = "remove" => op.old = NULL)
    BY <1>3, OpIs DEF RemoveNothing, RemoveFlush, IInv, OpOK
  <2>2. op.new = NULL => op' = Idle /\ op'.pc = "idle"
    BY <2>1 DEF AfterRemove, Idle
  <2>3. op.new # NULL => op'.pc = "set" /\ op'.va = op.va /\ op'.old = op.old /\ op'.new = op.new
    BY <2>1, OpIs DEF AfterRemove, IInv
  <2>4. VisibleMap' = VisibleMap
    BY <1>2, <2>1, <2>2, <2>3 DEF VisibleMap
  <2> QED
    BY <1>1, <2>1, <2>2, <2>3, <2>4, Stutters
<1>4. CASE RemoveDecref
  <2>1. op.pc = "remove" /\ op # Idle
    BY <1>4, OpIs DEF RemoveDecref, IInv
  <2>2. op'.pc \in {"remove", "clear"} /\ op'.new = op.new
    BY <1>4, <2>1, OpIs DEF RemoveDecref, IInv
  <2>3. VisibleMap' = VisibleMap
    BY <1>2, <2>1, <2>2 DEF VisibleMap
  <2> QED
    BY <1>1, <2>1, <2>2, <2>3, Stutters
<1>5. CASE \E va \in VA : PageRemove(va)
  <2>1. op = Idle /\ op'.pc = "remove" /\ op'.new = NULL
    BY <1>5 DEF PageRemove
  <2>2. VisibleMap' = VisibleMap
    BY <1>2, <2>1 DEF VisibleMap, Idle
  <2> QED
    BY <1>1, <2>1, <2>2 DEF Space!vars, NewFound
<1>6. CASE Mmu \/ UNCHANGED vars
  <2>1. op' = op
    BY <1>6 DEF Mmu, TlbFill, TlbEvict, vars
  <2>2. VisibleMap' = VisibleMap
    BY <1>2, <2>1 DEF VisibleMap
  <2> QED
    BY <1>1, <2>1, <2>2, Stutters
<1> QED
  BY <1>3, <1>4, <1>5, <1>6

(* check_page takes back a table that no address needs.                    *)
LEMMA DropTableMaps ==
  ASSUME IInv, NEW d \in PDX, DropTable(d)
  PROVE  UNCHANGED Space!vars /\ NewFound'
<1>1. /\ op = Idle /\ op' = op /\ mem[kern_pgdir[d]] = Filled(NULL)
      /\ kern_pgdir' = [kern_pgdir EXCEPT ![d] = NULL] /\ UNCHANGED <<mem, held>>
  BY DEF DropTable
<1>2. \A a \in VA : MmuWalk(a)' = MmuWalk(a)
  <2> SUFFICES ASSUME NEW a \in VA
               PROVE  MmuWalk(a)' = MmuWalk(a)
    OBVIOUS
  <2>1. MmuWalk(a)' = IF kern_pgdir'[a[1]] = NULL THEN NULL ELSE mem[kern_pgdir'[a[1]]][a[2]]
    BY <1>1 DEF MmuWalk, Walk, tables
  <2>2. kern_pgdir'[a[1]] = IF a[1] = d THEN NULL ELSE kern_pgdir[a[1]]
    BY <1>1, Address DEF IInv, TypeOK
  <2>3. a[1] = d => MmuWalk(a) = NULL
    BY <1>1, WalkIs, Address DEF Filled
  <2> QED
    BY <2>1, <2>2, <2>3, WalkIs
<1>3. VisibleMap' = VisibleMap
  BY <1>1, <1>2 DEF VisibleMap
<1> QED
  BY <1>1, <1>3 DEF Space!vars, NewFound

LEMMA NextMaps ==
  ASSUME IInv, NewFound, [Next]_vars
  PROVE  [Space!Next]_(Space!vars) /\ NewFound'
<1>1. CASE PageAlloc
  BY <1>1, PageAllocMaps
<1>2. CASE \E pp \in Usable : PageFree(pp)
  BY <1>2, PageFreeMaps
<1>3. CASE \E pp \in Usable, va \in VA, perm \in Perm : PageInsert(pp, va, perm)
  BY <1>3, PageInsertMaps
<1>4. CASE RemoveClear
  BY <1>4, RemoveClearMaps
<1>5. CASE InsertSet
  BY <1>5, InsertSetMaps
<1>6. CASE \E d \in PDX : DropTable(d)
  BY <1>6, DropTableMaps
<1>7. CASE \/ RemoveNothing \/ RemoveDecref \/ RemoveFlush \/ Mmu
           \/ \E va \in VA : PageRemove(va)
           \/ UNCHANGED vars
  BY <1>7, HiddenSteps
<1>8. (\E pp \in Usable, va \in VA : PageInsertNoMem(pp, va)) => UNCHANGED vars
  BY DEF PageInsertNoMem
<1> QED
  BY <1>1, <1>2, <1>3, <1>4, <1>5, <1>6, <1>7, <1>8 DEF Next, Kernel

(* Tables, counts and the steps of each call implement the address space   *)
(* of module AddressSpace: page_insert replaces in one go, page_alloc never *)
(* returns a page that is held or mapped (pmap.c:295-480, 525-542).        *)
THEOREM AddressSpaceImplemented == Spec /\ []CountsFit => ImplementsAddressSpace
<1>1. Init => Space!Init /\ NewFound
  BY InitMaps
<1>2. IInv /\ NewFound /\ [Next]_vars => [Space!Next]_(Space!vars) /\ NewFound'
  BY NextMaps
<1> QED
  BY <1>1, <1>2, InvariantHolds, PTL DEF Spec, ImplementsAddressSpace, Space!Spec
=============================================================================
