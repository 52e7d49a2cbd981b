------------------------ MODULE PageAllocatorProofs ------------------------
(***************************************************************************)
(* The page allocator is correct for any number of pages, any memory       *)
(* layout and any width of pp_ref, as long as its callers only free what   *)
(* they hold: the free list always threads exactly the pages nobody holds, *)
(* and no call panics.  FreeListSound is not inductive without the absence *)
(* of panics (a panicked kernel takes no step) and needs TypeOK to apply   *)
(* the lemmas of PhysPagesProofs, so the three are proved together.        *)
(***************************************************************************)
EXTENDS PageAllocator, PhysPagesProofs, SequenceTheorems

IInv == TypeOK /\ FreeListSound /\ NeverPanics

(* What a caller holds, or was never allocatable, is off the free list.    *)
LEMMA FreePagesArePages ==
  FreePages \in SUBSET Page /\ Usable \in SUBSET Page /\ Usable \cap Reserved = {}
  BY DEF FreePages, Usable

LEMMA InitIInv == Init => IInv
<1> SUFFICES ASSUME Init
             PROVE  IInv
  OBVIOUS
<1>1. FreePages = Page \ Reserved
  BY DEF Init, FreePages, Usable
<1>2. TypeOK
  BY InitList DEF Init, TypeOK
<1>3. FreeListIs(pm, FreePages)
  BY <1>1, InitList DEF Init
<1>4. OffListUnlinked(pm, FreePages)
  BY <1>1, InitList DEF Init, OffListUnlinked
<1>5. OnListUnreferenced(pm, FreePages)
  BY <1>1, InitList DEF Init, OnListUnreferenced
<1> QED
  BY <1>2, <1>3, <1>4, <1>5 DEF IInv, FreeListSound, NeverPanics, Init

LEMMA AllocIInv ==
  ASSUME IInv, PageAlloc
  PROVE  IInv'
<1> DEFINE h == pm.page_free_list
           m == page_alloc(pm)
<1>1. pm \in PageInfos /\ held \in SUBSET Usable /\ FreeListIs(pm, FreePages)
  BY DEF IInv, TypeOK, FreeListSound
<1>2. h # NULL /\ pm' = m /\ held' = held \cup {h} /\ panicked' = panicked
  BY DEF PageAlloc, AllocResult
<1>3. h \in FreePages /\ m \in PageInfos /\ FreeListIs(m, FreePages \ {h})
  BY <1>1, <1>2, FreePagesArePages, PopKeepsList
<1>4. FreePages' = FreePages \ {h}
  BY <1>2 DEF FreePages, Usable
<1>5. m = [pp_ref |-> [pm.pp_ref EXCEPT ![h] = 0],
           pp_link |-> [pm.pp_link EXCEPT ![h] = NULL],
           page_free_list |-> pm.pp_link[h]]
  BY <1>2 DEF page_alloc
<1>6. TypeOK'
  BY <1>1, <1>2, <1>3 DEF TypeOK, FreePages, IInv
<1>7. OffListUnlinked(pm, FreePages)'
  <2>1. \A p \in Page \ FreePages : m.pp_link[p] = NULL
    BY <1>1, <1>5, <1>3, PageInfosFields, FreePagesArePages
       DEF IInv, FreeListSound, OffListUnlinked
  <2>2. m.pp_link[h] = NULL
    BY <1>1, <1>5, <1>3, PageInfosFields, FreePagesArePages
  <2> QED
    BY <2>1, <2>2, <1>2, <1>4 DEF OffListUnlinked
<1>8. OnListUnreferenced(pm, FreePages)'
  <2>1. \A p \in FreePages \ {h} : m.pp_ref[p] = 0
    BY <1>1, <1>5, PageInfosFields, FreePagesArePages
       DEF IInv, FreeListSound, OnListUnreferenced
  <2> QED
    BY <2>1, <1>2, <1>4 DEF OnListUnreferenced
<1> QED
  BY <1>2, <1>3, <1>4, <1>6, <1>7, <1>8 DEF IInv, FreeListSound, NeverPanics

(* Giving back a held page whose count is 0, in the state m that differs   *)
(* from pm at most in the reference count of the page.                     *)
LEMMA GiveBackIInv ==
  ASSUME IInv, NEW pp \in held, NEW m \in PageInfos,
         FreeListIs(m, FreePages), m.pp_link = pm.pp_link, m.pp_ref[pp] = 0,
         \A p \in Page \ {pp} : m.pp_ref[p] = pm.pp_ref[p],
         pm' = page_free(m, pp), held' = held \ {pp}, panicked' = panicked
  PROVE  IInv'
<1>1. pm \in PageInfos /\ held \in SUBSET Usable
  BY DEF IInv, TypeOK
<1>2. pp \in Page \ FreePages /\ pp \in Usable
  BY <1>1, FreePagesArePages DEF FreePages
<1>3. FreePages' = FreePages \cup {pp}
  BY <1>2, <1>1 DEF FreePages, Usable
<1>4. pm' \in PageInfos /\ FreeListIs(pm', FreePages \cup {pp})
  BY <1>2, FreePagesArePages, PushKeepsList
<1>5. pm'.pp_ref = m.pp_ref /\ pm'.pp_link = [m.pp_link EXCEPT ![pp] = m.page_free_list]
  BY DEF page_free
<1>6. TypeOK'
  BY <1>1, <1>4 DEF TypeOK, IInv
<1>7. OffListUnlinked(pm, FreePages)'
  <2>1. \A p \in Page \ (FreePages \cup {pp}) : m.pp_link[p] = NULL
    BY DEF IInv, FreeListSound, OffListUnlinked
  <2> QED
    BY <2>1, <1>3, <1>5, PageInfosFields DEF OffListUnlinked
<1>8. OnListUnreferenced(pm, FreePages)'
  <2>1. \A p \in FreePages \cup {pp} : m.pp_ref[p] = 0
    BY <1>2, FreePagesArePages DEF IInv, FreeListSound, OnListUnreferenced
  <2> QED
    BY <2>1, <1>3, <1>5 DEF OnListUnreferenced
<1> QED
  BY <1>3, <1>4, <1>6, <1>7, <1>8 DEF IInv, FreeListSound, NeverPanics

(* A step that only changes the reference count of a held page.            *)
LEMMA CountIInv ==
  ASSUME IInv, NEW pp \in held, NEW m, m \in {IncRef(pm, pp), DecRef(pm, pp)},
         pm' = m, held' = held, panicked' = panicked
  PROVE  IInv'
<1>1. pm \in PageInfos /\ held \in SUBSET Usable /\ pp \in Page \ FreePages
  BY FreePagesArePages DEF IInv, TypeOK, FreePages
<1>2. /\ m \in PageInfos /\ FreeListIs(m, FreePages) /\ m.pp_link = pm.pp_link
      /\ \A p \in Page \ {pp} : m.pp_ref[p] = pm.pp_ref[p]
  BY <1>1, FreePagesArePages, RefKeepsList DEF IInv, FreeListSound
<1>3. FreePages' = FreePages
  BY DEF FreePages, Usable
<1>4. TypeOK'
  BY <1>1, <1>2 DEF TypeOK, IInv
<1>5. OffListUnlinked(pm, FreePages)'
  BY <1>2, <1>3 DEF IInv, FreeListSound, OffListUnlinked
<1>6. OnListUnreferenced(pm, FreePages)'
  BY <1>1, <1>2, <1>3, FreePagesArePages DEF IInv, FreeListSound, OnListUnreferenced
<1> QED
  BY <1>2, <1>3, <1>4, <1>5, <1>6 DEF IInv, FreeListSound, NeverPanics

(* A held page has no link: page_free does not panic on it once its count  *)
(* is 0.                                                                   *)
LEMMA HeldUnlinked ==
  ASSUME IInv, NEW pp \in held
  PROVE  pm.pp_link[pp] = NULL /\ pp \in Page /\ pm \in PageInfos
  BY FreePagesArePages
     DEF IInv, TypeOK, FreeListSound, OffListUnlinked, FreePages

LEMMA NextIInv ==
  ASSUME ~DoubleFrees, IInv, [Next]_vars
  PROVE  IInv'
<1>1. CASE PageAlloc
  BY <1>1, AllocIInv
<1>2. CASE AllocFails
  BY <1>2 DEF AllocFails, vars, IInv, TypeOK, FreeListSound, NeverPanics,
              FreePages, Usable
<1>3. ASSUME NEW pp \in Usable, PageFree(pp)
      PROVE  IInv'
  <2>1. pp \in held /\ pm.pp_ref[pp] = 0
    BY <1>3 DEF PageFree
  <2>2. ~FreePanics(pm, pp)
    BY <2>1, HeldUnlinked DEF FreePanics
  <2>3. pm' = page_free(pm, pp) /\ held' = held \ {pp} /\ panicked' = panicked
    BY <1>3, <2>2 DEF PageFree
  <2> QED
    BY <2>1, <2>3, GiveBackIInv DEF IInv, TypeOK, FreeListSound
<1>4. ASSUME NEW pp \in Usable, TakeRef(pp)
      PROVE  IInv'
  BY <1>4, CountIInv DEF TakeRef
<1>5. ASSUME NEW pp \in Usable, PageDecref(pp)
      PROVE  IInv'
  <2>1. pp \in held /\ pp \in Page /\ pm \in PageInfos /\ pm.pp_link[pp] = NULL
    BY <1>5, HeldUnlinked DEF PageDecref
  <2> DEFINE m == DecRef(pm, pp)
  <2>2. /\ m \in PageInfos /\ FreeListIs(m, FreePages) /\ m.pp_link = pm.pp_link
        /\ \A p \in Page \ {pp} : m.pp_ref[p] = pm.pp_ref[p]
    BY <2>1, FreePagesArePages, RefKeepsList DEF IInv, FreeListSound
  <2>3. ~DecrefPanics(pm, pp)
    BY <2>1, <2>2 DEF DecrefPanics, FreePanics, LastRef
  <2>4. CASE LastRef(pm, pp)
    <3>1. pm' = page_free(m, pp) /\ held' = held \ {pp} /\ panicked' = panicked
      BY <1>5, <2>3, <2>4 DEF PageDecref, page_decref
    <3>2. m.pp_ref[pp] = 0
      BY <2>4 DEF LastRef
    <3> QED
      BY <2>1, <2>2, <3>1, <3>2, GiveBackIInv
  <2>5. CASE ~LastRef(pm, pp)
    <3>1. pm' = m /\ held' = held /\ panicked' = panicked
      BY <1>5, <2>3, <2>5 DEF PageDecref, page_decref
    <3> QED
      BY <2>1, <3>1, CountIInv
  <2> QED
    BY <2>4, <2>5
<1>6. CASE UNCHANGED vars
  BY <1>6 DEF vars, IInv, TypeOK, FreeListSound, NeverPanics, FreePages, Usable
<1> QED
  BY <1>1, <1>2, <1>3, <1>4, <1>5, <1>6 DEF Next, Running

-----------------------------------------------------------------------------
(* In every reachable state of an allocator whose callers free only what   *)
(* they hold, the three parts of the invariant hold (pmap.c:252-353).      *)
THEOREM Invariant == ASSUME ~DoubleFrees PROVE Spec => []IInv
<1>1. IInv /\ [Next]_vars => IInv'
  BY NextIInv
<1> QED
  BY <1>1, InitIInv, PTL DEF Spec

(* The fields keep the types of struct PageInfo and only usable pages are  *)
(* ever handed out (pmap.c:252-353).                                       *)
THEOREM TypeCorrect == ASSUME ~DoubleFrees PROVE Spec => []TypeOK
<1>1. IInv => TypeOK
  BY DEF IInv
<1> QED
  BY <1>1, Invariant, PTL

(* The free list threads exactly the pages that nobody holds, each once    *)
(* (page_init, page_alloc, page_free, page_decref, pmap.c:252-353).        *)
THEOREM FreeListCorrect == ASSUME ~DoubleFrees PROVE Spec => []FreeListSound
<1>1. IInv => FreeListSound
  BY DEF IInv
<1> QED
  BY <1>1, Invariant, PTL

(* page_free's panic is out of reach of a caller that frees only what it   *)
(* holds (pmap.c:332-342).                                                 *)
THEOREM NoPanic == ASSUME ~DoubleFrees PROVE Spec => []NeverPanics
<1>1. IInv => NeverPanics
  BY DEF IInv
<1> QED
  BY <1>1, Invariant, PTL

-----------------------------------------------------------------------------
(* The abstract pool.  The stack is the one list that the links thread.    *)
LEMMA ListIs ==
  ASSUME NEW m, NEW S \in SUBSET Page,
         NEW f \in [1 .. Cardinality(S) -> S], Threads(m, S, f)
  PROVE  ListOf(m, S) = f
<1>1. FreeListIs(m, S)
  BY DEF FreeListIs
<1>2. ListOf(m, S) \in [1 .. Cardinality(S) -> S] /\ Threads(m, S, ListOf(m, S))
  BY <1>1, Zenon DEF ListOf
<1> QED
  BY <1>2, ThreadsOnce

(* What the pool sees of it.                                               *)
LEMMA StackShape ==
  ASSUME IInv
  PROVE  /\ Cardinality(FreePages) \in Nat
         /\ FreeStack \in [1 .. Cardinality(FreePages) -> FreePages]
         /\ Threads(pm, FreePages, FreeStack)
         /\ Pool!ToSet(FreeStack) = FreePages
         /\ Pool!Handed = held /\ held \in SUBSET Page /\ held \cap FreePages = {}
         /\ Len(FreeStack) = Cardinality(FreePages)
<1>1. /\ FreeStack \in [1 .. Cardinality(FreePages) -> FreePages]
      /\ Threads(pm, FreePages, FreeStack)
  BY ListIs, FreePagesArePages DEF IInv, FreeListSound, FreeListIs, FreeStack
<1>2. Pool!ToSet(FreeStack) = FreePages
  BY <1>1 DEF Threads, Pool!ToSet
<1>3. held \subseteq Usable
  BY DEF IInv, TypeOK
<1>4. Pool!Handed = held
  BY <1>2, <1>3 DEF Pool!Handed, FreePages
<1>5. Cardinality(FreePages) \in Nat
  BY PagesFinite, FreePagesArePages
<1>6. held \in SUBSET Page /\ held \cap FreePages = {}
  BY <1>3, FreePagesArePages DEF FreePages
<1> QED
  BY <1>1, <1>2, <1>4, <1>5, <1>6

LEMMA InitPool == Init => Pool!Init
<1> SUFFICES ASSUME Init
             PROVE  Pool!Init
  OBVIOUS
<1>1. IInv
  BY InitIInv
<1>2. FreePages = Usable
  BY DEF Init, FreePages
<1>3. Pool!ToSet(FreeStack) = Usable
  BY <1>1, <1>2, StackShape
<1>4. Pool!IsInjective(FreeStack)
  BY <1>1, StackShape DEF Threads, Pool!IsInjective
<1>5. pm.pp_ref = [p \in Page |-> IF p \in Usable THEN 0 ELSE 1]
  BY DEF Init, page_init, Usable
<1> QED
  BY <1>3, <1>4, <1>5 DEF Pool!Init

(* page_alloc takes the top of the stack.                                  *)
LEMMA AllocTakes ==
  ASSUME IInv, PageAlloc
  PROVE  Pool!Take
<1> DEFINE n == Cardinality(FreePages)
<1>1. /\ n \in Nat /\ FreeStack \in [1 .. n -> FreePages] /\ Len(FreeStack) = n
      /\ Threads(pm, FreePages, FreeStack)
  BY StackShape
<1>2. pm \in PageInfos /\ pm.page_free_list # NULL /\ pm' = page_alloc(pm)
      /\ held' = held \cup {pm.page_free_list}
  BY DEF IInv, TypeOK, PageAlloc, AllocResult
<1>3. PICK g : g = [i \in 1 .. n - 1 |-> FreeStack[i + 1]]
  OBVIOUS
<1>4. PICK f : f = FreeStack
  OBVIOUS
<1>5. /\ n # 0 /\ pm.page_free_list = f[1] /\ f[1] \in FreePages
      /\ Cardinality(FreePages \ {f[1]}) = n - 1
      /\ g \in [1 .. n - 1 -> FreePages \ {f[1]}]
      /\ Threads(page_alloc(pm), FreePages \ {f[1]}, g)
  <2>1. /\ f \in [1 .. Cardinality(FreePages) -> FreePages] /\ Threads(pm, FreePages, f)
        /\ FreePages \in SUBSET Page
        /\ g = [i \in 1 .. Cardinality(FreePages) - 1 |-> f[i + 1]]
        /\ pm \in PageInfos /\ pm.page_free_list # NULL
    BY <1>1, <1>2, <1>3, <1>4, FreePagesArePages
  <2> HIDE DEF n
  <2>2. /\ Cardinality(FreePages) # 0 /\ pm.page_free_list = f[1] /\ f[1] \in FreePages
        /\ Cardinality(FreePages \ {f[1]}) = Cardinality(FreePages) - 1
        /\ g \in [1 .. Cardinality(FreePages) - 1 -> FreePages \ {f[1]}]
        /\ Threads(page_alloc(pm), FreePages \ {f[1]}, g)
    <3>1. PICK m, T : m = pm /\ T = FreePages
      OBVIOUS
    <3>2. /\ Cardinality(T) # 0 /\ m.page_free_list = f[1] /\ f[1] \in T
          /\ Cardinality(T \ {f[1]}) = Cardinality(T) - 1
          /\ g \in [1 .. Cardinality(T) - 1 -> T \ {f[1]}]
          /\ Threads(page_alloc(m), T \ {f[1]}, g)
      <4>1. /\ f \in [1 .. Cardinality(T) -> T] /\ Threads(m, T, f) /\ T \in SUBSET Page
            /\ g = [i \in 1 .. Cardinality(T) - 1 |-> f[i + 1]]
            /\ m \in PageInfos /\ m.page_free_list # NULL
        BY <2>1, <3>1
      <4>2. m.page_free_list = f[1] /\ Cardinality(T) # 0
        BY <4>1 DEF Threads
      <4>6. f[1] \in T
        BY <4>1, <4>2, PagesFinite
      <4>3. Cardinality(T \ {f[1]}) = Cardinality(T) - 1
        BY <4>1, PopThreads
      <4>4. g \in [1 .. Cardinality(T) - 1 -> T \ {f[1]}]
        BY <4>1, PopThreads
      <4>5. Threads(page_alloc(m), T \ {f[1]}, g)
        BY <4>1, PopThreads
      <4> QED
        BY <4>2, <4>3, <4>4, <4>5, <4>6
    <3> QED
      BY <3>1, <3>2
  <2> QED
    BY <2>2 DEF n
<1>6. FreePages' = FreePages \ {f[1]}
  BY <1>2, <1>5 DEF FreePages, Usable
<1>7. FreeStack' = g
  <2>1. ListOf(page_alloc(pm), FreePages \ {f[1]}) = g
    BY <1>5, ListIs, FreePagesArePages
  <2> QED
    BY <1>2, <1>6, <2>1 DEF FreeStack
<1>8. Tail(FreeStack) = g /\ FreeStack # <<>>
  <2>1. FreeStack \in Seq(FreePages)
    BY <1>1
  <2>2. FreeStack # <<>>
    BY <1>1, <1>5, <2>1, EmptySeq
  <2>3. /\ Tail(FreeStack) \in Seq(FreePages) /\ Len(Tail(FreeStack)) = n - 1
        /\ \A i \in 1 .. n - 1 : Tail(FreeStack)[i] = FreeStack[i + 1]
    BY <1>1, <2>1, <2>2, HeadTailProperties
  <2>4. g \in Seq(FreePages) /\ Len(g) = n - 1
    <3>1. g \in [1 .. n - 1 -> FreePages] /\ n - 1 \in Nat
      BY <1>1, <1>5
    <3> QED
      BY <3>1
  <2>6. \A i \in 1 .. n - 1 : g[i] = FreeStack[i + 1]
    BY <1>3
  <2>5. Tail(FreeStack) = g
    BY <2>3, <2>4, <2>6, SeqEqual
  <2> QED
    BY <2>2, <2>5
<1>9. pm'.pp_ref = pm.pp_ref
  <2>1. pm'.pp_ref = [pm.pp_ref EXCEPT ![f[1]] = 0]
    BY <1>2, <1>5 DEF page_alloc
  <2>2. pm.pp_ref[f[1]] = 0
    BY <1>5 DEF IInv, FreeListSound, OnListUnreferenced
  <2> QED
    BY <2>1, <2>2, <1>2, PageInfosFields
<1> QED
  BY <1>7, <1>8, <1>9 DEF Pool!Take

(* page_free, from a state m with the same list, puts a page on top.       *)
LEMMA FreePushes ==
  ASSUME IInv, NEW pp \in held, NEW m \in PageInfos,
         m.pp_link = pm.pp_link, m.page_free_list = pm.page_free_list,
         pm' = page_free(m, pp), held' = held \ {pp}
  PROVE  FreeStack' = <<pp>> \o FreeStack /\ pm'.pp_ref = m.pp_ref
<1> DEFINE n == Cardinality(FreePages)
<1>1. /\ n \in Nat /\ FreeStack \in [1 .. n -> FreePages] /\ Len(FreeStack) = n
      /\ Threads(pm, FreePages, FreeStack) /\ pp \in Page \ FreePages
  BY StackShape
<1>2. Threads(m, FreePages, FreeStack)
  BY <1>1 DEF Threads
<1>3. PICK g : g = [i \in 1 .. n + 1 |-> IF i = 1 THEN pp ELSE FreeStack[i - 1]]
  OBVIOUS
<1>4. PICK f : f = FreeStack
  OBVIOUS
<1>5. /\ Cardinality(FreePages \cup {pp}) = n + 1
      /\ g \in [1 .. n + 1 -> FreePages \cup {pp}]
      /\ Threads(page_free(m, pp), FreePages \cup {pp}, g)
  BY <1>1, <1>2, <1>3, <1>4, PushThreads, FreePagesArePages
<1>6. FreePages' = FreePages \cup {pp}
  BY DEF FreePages, Usable, IInv, TypeOK
<1>7. FreeStack' = g
  <2>1. ListOf(page_free(m, pp), FreePages \cup {pp}) = g
    BY <1>1, <1>5, ListIs, FreePagesArePages
  <2> QED
    BY <1>6, <2>1 DEF FreeStack
<1>8. <<pp>> \o FreeStack = g
  <2>1. FreeStack \in Seq(FreePages)
    BY <1>1
  <2> QED
    BY <1>1, <1>3, <2>1
<1>9. pm'.pp_ref = m.pp_ref
  BY DEF page_free
<1> QED
  BY <1>7, <1>8, <1>9

(* A count changes and the list does not.                                  *)
LEMMA CountKeepsStack ==
  ASSUME IInv, NEW pp \in held, NEW m, m \in {IncRef(pm, pp), DecRef(pm, pp)}
  PROVE  /\ m \in PageInfos /\ m.pp_link = pm.pp_link
         /\ m.page_free_list = pm.page_free_list
         /\ m = IncRef(pm, pp) =>
              m.pp_ref = [pm.pp_ref EXCEPT ![pp] = (pm.pp_ref[pp] + 1) % RefMod]
         /\ m = DecRef(pm, pp) =>
              m.pp_ref = [pm.pp_ref EXCEPT ![pp] = (pm.pp_ref[pp] + RefMod - 1) % RefMod]
<1>1. pm \in PageInfos /\ pp \in Page /\ FreeListIs(pm, FreePages)
  BY StackShape DEF IInv, TypeOK, FreeListSound
<1>2. m \in PageInfos /\ m.pp_link = pm.pp_link
  BY <1>1, RefKeepsList, FreePagesArePages
<1>3. m.page_free_list = pm.page_free_list
  BY <1>1, PageInfosFields DEF IncRef, DecRef
<1>4. m = IncRef(pm, pp) =>
        m.pp_ref = [pm.pp_ref EXCEPT ![pp] = (pm.pp_ref[pp] + 1) % RefMod]
  BY <1>1, PageInfosFields DEF IncRef
<1>5. m = DecRef(pm, pp) =>
        m.pp_ref = [pm.pp_ref EXCEPT ![pp] = (pm.pp_ref[pp] + RefMod - 1) % RefMod]
  BY <1>1, PageInfosFields DEF DecRef
<1> QED
  BY <1>2, <1>3, <1>4, <1>5

LEMMA PoolSteps ==
  ASSUME ~DoubleFrees, IInv, [Next]_vars
  PROVE  [Pool!Next]_(Pool!vars)
<1> USE DEF IInv
<1>1. CASE PageAlloc
  BY <1>1, AllocTakes DEF Pool!Next
<1>2. CASE AllocFails \/ UNCHANGED vars
  <2>1. pm' = pm /\ held' = held
    BY <1>2 DEF AllocFails, vars
  <2>2. FreePages' = FreePages
    BY <2>1 DEF FreePages, Usable
  <2>3. FreeStack' = FreeStack
    BY <2>1, <2>2, Zenon DEF FreeStack
  <2> QED
    BY <2>1, <2>3 DEF Pool!vars
<1> HIDE DEF IInv
<1>3. ASSUME NEW pp \in Usable, PageFree(pp)
      PROVE  Pool!Return(pp)
  <2>1. pp \in held /\ pm.pp_ref[pp] = 0
    BY <1>3 DEF PageFree
  <2>2. ~FreePanics(pm, pp) /\ pm \in PageInfos
    BY <2>1, HeldUnlinked DEF FreePanics
  <2>3. pm' = page_free(pm, pp) /\ held' = held \ {pp}
    BY <1>3, <2>2 DEF PageFree
  <2>4. FreeStack' = <<pp>> \o FreeStack /\ pm'.pp_ref = pm.pp_ref
    BY <2>1, <2>2, <2>3, FreePushes
  <2> QED
    BY <2>1, <2>4, StackShape DEF Pool!Return
<1>4. ASSUME NEW pp \in Usable, TakeRef(pp)
      PROVE  Pool!Ref(pp)
  <2>1. /\ pp \in held /\ pm.pp_ref[pp] < RefMod - 1 /\ pm' = IncRef(pm, pp) /\ held' = held
      /\ pp \in Page
    BY <1>4, HeldUnlinked DEF TakeRef
  <2>2. /\ pm'.pp_link = pm.pp_link /\ pm'.page_free_list = pm.page_free_list
        /\ pm'.pp_ref = [pm.pp_ref EXCEPT ![pp] = (pm.pp_ref[pp] + 1) % RefMod]
    BY <2>1, CountKeepsStack
  <2>3. (pm.pp_ref[pp] + 1) % RefMod = pm.pp_ref[pp] + 1
    <3>1. pm.pp_ref[pp] \in 0 .. RefMod - 1
      BY <2>1, HeldUnlinked, PageInfosFields
    <3> QED
      BY <2>1, <3>1, PhysAssumption
  <2>4. FreeStack' = FreeStack
    <3>1. FreePages' = FreePages
      BY <2>1 DEF FreePages, Usable
    <3>2. Threads(pm', FreePages, FreeStack)
      BY <2>2, StackShape DEF Threads
    <3>3. ListOf(pm', FreePages) = FreeStack
      BY <3>2, StackShape, ListIs, FreePagesArePages
    <3> QED
      BY <3>1, <3>3 DEF FreeStack
  <2> QED
    BY <2>1, <2>2, <2>3, <2>4, StackShape DEF Pool!Ref
<1>5. ASSUME NEW pp \in Usable, PageDecref(pp)
      PROVE  Pool!Unref(pp)
  <2> DEFINE m == DecRef(pm, pp)
  <2>1. /\ pp \in held /\ pp \in Page /\ pm \in PageInfos /\ pm.pp_link[pp] = NULL
        /\ pm.pp_ref[pp] > 0
    BY <1>5, HeldUnlinked DEF PageDecref
  <2>2. /\ m \in PageInfos /\ m.pp_link = pm.pp_link
        /\ m.page_free_list = pm.page_free_list
        /\ m.pp_ref = [pm.pp_ref EXCEPT ![pp] = (pm.pp_ref[pp] + RefMod - 1) % RefMod]
    BY <2>1, CountKeepsStack
  <2> HIDE DEF m
  <2>3. /\ (pm.pp_ref[pp] + RefMod - 1) % RefMod = pm.pp_ref[pp] - 1
        /\ pm.pp_ref[pp] \in Nat
    <3>1. pm.pp_ref[pp] \in 0 .. RefMod - 1
      BY <2>1, PageInfosFields
    <3>2. PICK r \in Nat : pm.pp_ref[pp] = r + 1 /\ r < RefMod
      <4>1. pm.pp_ref[pp] - 1 \in Nat /\ pm.pp_ref[pp] = (pm.pp_ref[pp] - 1) + 1
            /\ pm.pp_ref[pp] - 1 < RefMod
        BY <2>1, <3>1, PhysAssumption
      <4> QED
        BY <4>1
    <3>3. (r + RefMod) % RefMod = r
      BY <3>2, PhysAssumption
    <3> QED
      BY <3>2, <3>3, PhysAssumption
  <2>4. m.pp_ref = [pm.pp_ref EXCEPT ![pp] = pm.pp_ref[pp] - 1] /\ m.pp_ref[pp] = pm.pp_ref[pp] - 1
    BY <2>1, <2>2, <2>3, PageInfosFields
  <2>5. LastRef(pm, pp) <=> pm.pp_ref[pp] = 1
    BY <2>3, <2>4 DEF LastRef, m
  <2>6. ~DecrefPanics(pm, pp)
    BY <2>1, <2>2 DEF DecrefPanics, FreePanics, LastRef, m
  <2>7. CASE LastRef(pm, pp)
    <3>1. pm' = page_free(m, pp) /\ held' = held \ {pp}
      BY <1>5, <2>6, <2>7 DEF PageDecref, page_decref, m
    <3>2. FreeStack' = <<pp>> \o FreeStack /\ pm'.pp_ref = m.pp_ref
      BY <2>1, <2>2, <3>1, FreePushes
    <3> QED
      BY <2>1, <2>4, <2>5, <2>7, <3>2, StackShape DEF Pool!Unref
  <2>8. CASE ~LastRef(pm, pp)
    <3>1. pm' = m /\ held' = held
      BY <1>5, <2>6, <2>8 DEF PageDecref, page_decref, m
    <3>2. FreeStack' = FreeStack
      <4>1. FreePages' = FreePages
        BY <3>1 DEF FreePages, Usable
      <4>2. Threads(pm', FreePages, FreeStack)
        BY <2>2, <3>1, StackShape DEF Threads
      <4>3. ListOf(pm', FreePages) = FreeStack
        BY <4>2, StackShape, ListIs, FreePagesArePages
      <4> QED
        BY <4>1, <4>3 DEF FreeStack
    <3> QED
      BY <2>1, <2>4, <2>5, <2>8, <3>1, <3>2, StackShape DEF Pool!Unref
  <2> QED
    BY <2>7, <2>8
<1> QED
  BY <1>1, <1>2, <1>3, <1>4, <1>5 DEF Next, Running, Pool!Next

(* The linked list and the counts implement the pool of module PagePool:   *)
(* page_alloc returns the page that was freed last, and a page goes back   *)
(* exactly with its last reference (pmap.c:252-353, 367-371).              *)
THEOREM PoolImplemented == ASSUME ~DoubleFrees PROVE Spec => ImplementsPool
<1>1. IInv /\ [Next]_vars => [Pool!Next]_(Pool!vars)
  BY PoolSteps
<1> QED
  BY <1>1, InitPool, Invariant, PTL DEF Spec, ImplementsPool, Pool!Spec
=============================================================================
