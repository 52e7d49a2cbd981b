-------------------------- MODULE PhysPagesProofs --------------------------
(***************************************************************************)
(* What the operators of PhysPages do to the free list, for every number   *)
(* of pages.  Every lemma speaks of one call: page_init builds the list of *)
(* the unreserved pages, page_alloc takes its head off, page_free puts a   *)
(* page back, and changing pp_ref leaves the list alone.                   *)
(***************************************************************************)
EXTENDS PhysPages, FiniteSetTheorems, WellFoundedInduction, TLAPS

LEMMA PagesFinite ==
  ASSUME NEW S \in SUBSET Page
  PROVE  IsFiniteSet(S) /\ Cardinality(S) \in Nat
<1>1. 0 \in Int /\ NPages - 1 \in Int
  BY PhysAssumption
<1>2. IsFiniteSet(Page)
  BY <1>1, FS_Interval DEF Page
<1> QED
  BY <1>2, FS_Subset, FS_CardinalityType

(* The fields of a PageInfos record.                                       *)
LEMMA PageInfosFields ==
  ASSUME NEW pm \in PageInfos
  PROVE  /\ pm = [pp_ref |-> pm.pp_ref, pp_link |-> pm.pp_link,
                  page_free_list |-> pm.page_free_list]
         /\ pm.pp_ref \in [Page -> 0 .. RefMod - 1]
         /\ pm.pp_link \in [Page -> Page \cup {NULL}]
         /\ pm.page_free_list \in Page \cup {NULL}
  BY DEF PageInfos

LEMMA NullNotPage == NULL \notin Page
  BY PhysAssumption DEF Page

(* Taking the head off the list leaves the list of the other pages, in the *)
(* order they had.                                                         *)
LEMMA PopThreads ==
  ASSUME NEW pm \in PageInfos, NEW S \in SUBSET Page,
         NEW f \in [1 .. Cardinality(S) -> S], Threads(pm, S, f),
         pm.page_free_list # NULL,
         NEW g, g = [i \in 1 .. Cardinality(S) - 1 |-> f[i + 1]]
  PROVE  /\ Cardinality(S) # 0 /\ pm.page_free_list = f[1] /\ f[1] \in S
         /\ page_alloc(pm) \in PageInfos
         /\ Cardinality(S \ {f[1]}) = Cardinality(S) - 1
         /\ g \in [1 .. Cardinality(S) - 1 -> S \ {f[1]}]
         /\ Threads(page_alloc(pm), S \ {f[1]}, g)
<1> DEFINE n == Cardinality(S)
           h == pm.page_free_list
           T == S \ {h}
           q == page_alloc(pm)
<1>1. n \in Nat
  BY PagesFinite
<1>2. f \in [1 .. n -> S] /\ Threads(pm, S, f)
  OBVIOUS
<1>3. n # 0 /\ h = f[1] /\ h \in S
  BY <1>1, <1>2 DEF Threads
<1>4. Cardinality(T) = n - 1
  BY <1>3, <1>1, PagesFinite, FS_RemoveElement
<1>5. /\ q.pp_link = [pm.pp_link EXCEPT ![h] = NULL]
      /\ q.page_free_list = pm.pp_link[h]
      /\ q \in PageInfos
  <2>1. q = [pp_ref |-> [pm.pp_ref EXCEPT ![h] = 0],
             pp_link |-> [pm.pp_link EXCEPT ![h] = NULL],
             page_free_list |-> pm.pp_link[h]]
    BY DEF page_alloc
  <2> QED
    BY <2>1, <1>3, PageInfosFields, PhysAssumption DEF PageInfos
<1>6. \A i \in 1 .. n - 1 : g[i] = f[i + 1] /\ f[i + 1] \in T
  BY <1>1, <1>2, <1>3 DEF Threads
<1>7. g \in [1 .. n - 1 -> T]
  BY <1>6
<1>8. q.page_free_list = IF n - 1 = 0 THEN NULL ELSE g[1]
  BY <1>1, <1>2, <1>3, <1>5, <1>6 DEF Threads
<1>9. \A i \in 1 .. n - 1 :
         q.pp_link[g[i]] = IF i = n - 1 THEN NULL ELSE g[i + 1]
  <2> SUFFICES ASSUME NEW i \in 1 .. n - 1
               PROVE  q.pp_link[g[i]] = IF i = n - 1 THEN NULL ELSE g[i + 1]
    OBVIOUS
  <2>1. g[i] = f[i + 1] /\ g[i] # h /\ g[i] \in Page
    BY <1>6
  <2>2. q.pp_link[g[i]] = pm.pp_link[f[i + 1]]
    BY <2>1, <1>5, PageInfosFields
  <2>3. pm.pp_link[f[i + 1]] = IF i + 1 = n THEN NULL ELSE f[i + 2]
    BY <1>1, <1>2 DEF Threads
  <2> QED
    BY <2>2, <2>3, <1>1, <1>6
<1>10. \A i, j \in 1 .. n - 1 : g[i] = g[j] => i = j
  <2> SUFFICES ASSUME NEW i \in 1 .. n - 1, NEW j \in 1 .. n - 1,
                      g[i] = g[j]
               PROVE  i = j
    OBVIOUS
  <2>1. f[i + 1] = f[j + 1] /\ i + 1 \in 1 .. n /\ j + 1 \in 1 .. n
    BY <1>1, <1>6
  <2>2. i + 1 = j + 1
    BY <2>1, <1>2 DEF Threads
  <2> QED
    BY <2>2
<1>11. \A p \in T : \E i \in 1 .. n - 1 : g[i] = p
  <2> SUFFICES ASSUME NEW p \in T
               PROVE  \E i \in 1 .. n - 1 : g[i] = p
    OBVIOUS
  <2>1. PICK i \in 1 .. n : f[i] = p
    BY <1>2 DEF Threads
  <2>2. i - 1 \in 1 .. n - 1 /\ g[i - 1] = p
    BY <2>1, <1>1, <1>3, <1>6
  <2> QED
    BY <2>2
<1>12. Threads(q, T, g)
  <2> HIDE DEF n, T, q
  <2> QED
    BY <1>4, <1>8, <1>9, <1>10, <1>11 DEF Threads
<1> QED
  BY <1>3, <1>4, <1>5, <1>7, <1>12

LEMMA PopKeepsList ==
  ASSUME NEW pm \in PageInfos, NEW S \in SUBSET Page,
         FreeListIs(pm, S), pm.page_free_list # NULL
  PROVE  /\ pm.page_free_list \in S
         /\ page_alloc(pm) \in PageInfos
         /\ FreeListIs(page_alloc(pm), S \ {pm.page_free_list})
<1>1. PICK f \in [1 .. Cardinality(S) -> S] : Threads(pm, S, f)
  BY DEF FreeListIs
<1>2. PICK g : g = [i \in 1 .. Cardinality(S) - 1 |-> f[i + 1]]
  OBVIOUS
<1> QED
  BY <1>1, <1>2, PopThreads DEF FreeListIs

(* Giving back a page that is not on the list puts it in front of the rest. *)
LEMMA PushThreads ==
  ASSUME NEW pm \in PageInfos, NEW S \in SUBSET Page, NEW pp \in Page \ S,
         NEW f \in [1 .. Cardinality(S) -> S], Threads(pm, S, f),
         NEW g, g = [i \in 1 .. Cardinality(S) + 1 |-> IF i = 1 THEN pp ELSE f[i - 1]]
  PROVE  /\ page_free(pm, pp) \in PageInfos
         /\ Cardinality(S \cup {pp}) = Cardinality(S) + 1
         /\ g \in [1 .. Cardinality(S) + 1 -> S \cup {pp}]
         /\ Threads(page_free(pm, pp), S \cup {pp}, g)
<1> DEFINE n == Cardinality(S)
           T == S \cup {pp}
           q == page_free(pm, pp)
<1>1. n \in Nat
  BY PagesFinite
<1>2. f \in [1 .. n -> S] /\ Threads(pm, S, f)
  OBVIOUS
<1>3. Cardinality(T) = n + 1
  BY <1>1, PagesFinite, FS_AddElement
<1>4. /\ q.pp_link = [pm.pp_link EXCEPT ![pp] = pm.page_free_list]
      /\ q.page_free_list = pp
      /\ q \in PageInfos
  <2>1. q = [pp_ref |-> pm.pp_ref,
             pp_link |-> [pm.pp_link EXCEPT ![pp] = pm.page_free_list],
             page_free_list |-> pp]
    BY DEF page_free
  <2> QED
    BY <2>1, PageInfosFields DEF PageInfos
<1>5. g[1] = pp /\ \A i \in 1 .. n : g[i + 1] = f[i] /\ f[i] \in S
  BY <1>1, <1>2
<1>6. g \in [1 .. n + 1 -> T]
  BY <1>1, <1>2
<1>7. q.page_free_list = g[1]
  BY <1>4, <1>5
<1>8. \A i \in 1 .. n + 1 :
         q.pp_link[g[i]] = IF i = n + 1 THEN NULL ELSE g[i + 1]
  <2> SUFFICES ASSUME NEW i \in 1 .. n + 1
               PROVE  q.pp_link[g[i]] = IF i = n + 1 THEN NULL ELSE g[i + 1]
    OBVIOUS
  <2>1. CASE i = 1
    <3>1. q.pp_link[g[i]] = pm.page_free_list
      BY <2>1, <1>4, <1>5, PageInfosFields
    <3>2. pm.page_free_list = IF n = 0 THEN NULL ELSE f[1]
      BY <1>2 DEF Threads
    <3> QED
      BY <3>1, <3>2, <2>1, <1>1, <1>5
  <2>2. CASE i # 1
    <3>1. i - 1 \in 1 .. n /\ g[i] = f[i - 1] /\ g[i] \in S
      BY <2>2, <1>1, <1>5
    <3>2. q.pp_link[g[i]] = pm.pp_link[f[i - 1]]
      BY <3>1, <1>4, PageInfosFields
    <3>3. pm.pp_link[f[i - 1]] = IF i - 1 = n THEN NULL ELSE f[i]
      BY <3>1, <1>1, <1>2 DEF Threads
    <3>4. i # n + 1 => g[i + 1] = f[i]
      BY <1>1, <1>5
    <3> QED
      BY <3>2, <3>3, <3>4, <1>1
  <2> QED
    BY <2>1, <2>2
<1>9. \A i, j \in 1 .. n + 1 : g[i] = g[j] => i = j
  <2> SUFFICES ASSUME NEW i \in 1 .. n + 1, NEW j \in 1 .. n + 1,
                      g[i] = g[j]
               PROVE  i = j
    OBVIOUS
  <2>1. CASE i = 1 \/ j = 1
    BY <2>1, <1>1, <1>5
  <2>2. CASE i # 1 /\ j # 1
    <3>1. i - 1 \in 1 .. n /\ j - 1 \in 1 .. n /\ f[i - 1] = f[j - 1]
      BY <2>2, <1>1, <1>5
    <3>2. i - 1 = j - 1
      BY <3>1, <1>2 DEF Threads
    <3> QED
      BY <3>2
  <2> QED
    BY <2>1, <2>2
<1>10. \A p \in T : \E i \in 1 .. n + 1 : g[i] = p
  <2> SUFFICES ASSUME NEW p \in S
               PROVE  \E i \in 1 .. n + 1 : g[i] = p
    BY <1>1, <1>5
  <2>1. PICK i \in 1 .. n : f[i] = p
    BY <1>2 DEF Threads
  <2>2. i + 1 \in 1 .. n + 1 /\ g[i + 1] = p
    BY <2>1, <1>1, <1>5
  <2> QED
    BY <2>2
<1>11. Threads(q, T, g)
  <2> HIDE DEF n, T, q
  <2>1. q.page_free_list = IF n + 1 = 0 THEN NULL ELSE g[1]
    BY <1>1, <1>7
  <2> QED
    BY <2>1, <1>3, <1>8, <1>9, <1>10, SMTT(60) DEF Threads
<1> QED
  BY <1>3, <1>4, <1>6, <1>11

LEMMA PushKeepsList ==
  ASSUME NEW pm \in PageInfos, NEW S \in SUBSET Page, NEW pp \in Page \ S,
         FreeListIs(pm, S)
  PROVE  /\ page_free(pm, pp) \in PageInfos
         /\ FreeListIs(page_free(pm, pp), S \cup {pp})
<1>1. PICK f \in [1 .. Cardinality(S) -> S] : Threads(pm, S, f)
  BY DEF FreeListIs
<1>2. PICK g : g = [i \in 1 .. Cardinality(S) + 1 |-> IF i = 1 THEN pp ELSE f[i - 1]]
  OBVIOUS
<1> QED
  BY <1>1, <1>2, PushThreads DEF FreeListIs

(* Any natural numbers have a least one.                                   *)
LEMMA Least ==
  ASSUME NEW S \in SUBSET Nat, S # {}
  PROVE  \E m \in S : \A k \in S : m <= k
<1>1. PICK m \in S : \A k \in S : ~(<<k, m>> \in OpToRel(<, Nat))
  BY NatLessThanWellFounded, WFMin, Zenon
<1>2. \A k \in S : k < m => <<k, m>> \in OpToRel(<, Nat)
  BY DEF OpToRel
<1>3. \A k \in S : ~(k < m)
  BY <1>1, <1>2, Zenon
<1>4. \A k \in S : m <= k
  BY <1>3
<1> QED
  BY <1>4

(* The links leave no choice: there is one list that they thread.          *)
LEMMA ThreadsOnce ==
  ASSUME NEW pm, NEW S \in SUBSET Page,
         NEW f \in [1 .. Cardinality(S) -> S], Threads(pm, S, f),
         NEW g \in [1 .. Cardinality(S) -> S], Threads(pm, S, g)
  PROVE  f = g
<1> DEFINE n == Cardinality(S)
           differ == {i \in 1 .. n : f[i] # g[i]}
<1>1. n \in Nat
  BY PagesFinite
<1>2. ASSUME differ # {}
      PROVE  FALSE
  <2>1. differ \in SUBSET Nat
    BY <1>1
  <2>2. PICK i \in differ : \A k \in differ : i <= k
    BY <1>2, <2>1, Least
  <2>3. i \in 1 .. n /\ f[i] # g[i] /\ i \in Int
    OBVIOUS
  <2>4. CASE i = 1
    BY <1>1, <2>3, <2>4 DEF Threads
  <2>5. CASE i # 1
    <3> DEFINE k == i - 1
    <3>1. k \in 1 .. n /\ k # n /\ k + 1 = i /\ k < i
      BY <1>1, <2>3, <2>5
    <3>2. f[k] = g[k]
      BY <2>2, <3>1
    <3>3. pm.pp_link[f[k]] = f[i] /\ pm.pp_link[g[k]] = g[i]
      BY <1>1, <3>1 DEF Threads
    <3> QED
      BY <2>3, <3>2, <3>3
  <2> QED
    BY <2>4, <2>5
<1>3. \A i \in 1 .. n : f[i] = g[i]
  BY <1>2
<1>4. f = [i \in 1 .. n |-> f[i]] /\ g = [i \in 1 .. n |-> g[i]]
  OBVIOUS
<1> QED
  BY <1>3, <1>4, Zenon

(* The list does not look at the reference counts. *)
LEMMA RefKeepsList ==
  ASSUME NEW pm \in PageInfos, NEW S \in SUBSET Page, NEW pp \in Page,
         NEW m, m \in {IncRef(pm, pp), DecRef(pm, pp)},
         FreeListIs(pm, S)
  PROVE  /\ m \in PageInfos
         /\ FreeListIs(m, S)
         /\ m.pp_link = pm.pp_link
         /\ \A p \in Page \ {pp} : m.pp_ref[p] = pm.pp_ref[p]
<1>1. PICK k \in 0 .. RefMod - 1 :
        m = [pp_ref |-> [pm.pp_ref EXCEPT ![pp] = k],
             pp_link |-> pm.pp_link,
             page_free_list |-> pm.page_free_list]
  <2> DEFINE i == (pm.pp_ref[pp] + 1) % RefMod
             d == (pm.pp_ref[pp] + RefMod - 1) % RefMod
  <2>1. i \in 0 .. RefMod - 1 /\ d \in 0 .. RefMod - 1
    BY PhysAssumption, PageInfosFields
  <2>2. IncRef(pm, pp) = [pp_ref |-> [pm.pp_ref EXCEPT ![pp] = i],
                          pp_link |-> pm.pp_link,
                          page_free_list |-> pm.page_free_list]
    BY PageInfosFields DEF IncRef
  <2>3. DecRef(pm, pp) = [pp_ref |-> [pm.pp_ref EXCEPT ![pp] = d],
                          pp_link |-> pm.pp_link,
                          page_free_list |-> pm.page_free_list]
    BY PageInfosFields DEF DecRef
  <2> QED
    BY <2>1, <2>2, <2>3
<1>2. m \in PageInfos /\ m.pp_link = pm.pp_link
      /\ m.page_free_list = pm.page_free_list
      /\ \A p \in Page \ {pp} : m.pp_ref[p] = pm.pp_ref[p]
  BY <1>1, PageInfosFields DEF PageInfos
<1>3. PICK f \in [1 .. Cardinality(S) -> S] : Threads(pm, S, f)
  BY DEF FreeListIs
<1>4. Threads(m, S, f)
  BY <1>2, <1>3 DEF Threads
<1> QED
  BY <1>2, <1>4 DEF FreeListIs

(* Highest picks the greatest element.                                     *)
LEMMA HighestIs ==
  ASSUME NEW S \in SUBSET Nat, NEW m \in S, \A q \in S : q <= m
  PROVE  HighestOrNull(S) = m
<1>1. \A x \in S : (\A q \in S : q <= x) => x = m
  OBVIOUS
<1> QED
  BY <1>1 DEF HighestOrNull, Highest

(* page_init threads the usable pages from the highest down: first the     *)
(* extended memory after the kernel, then the base memory.                 *)
LEMMA InitList ==
  /\ page_init \in PageInfos
  /\ FreeListIs(page_init, Page \ Reserved)
  /\ \A p \in Page \ Reserved : page_init.pp_ref[p] = 0
  /\ \A p \in Reserved : page_init.pp_ref[p] = 1 /\ page_init.pp_link[p] = NULL
<1> DEFINE lo == 1 .. BaseMem - 1
           hi == FirstFree .. NPages - 1
           S == Page \ Reserved
           n == (NPages - FirstFree) + (BaseMem - 1)
           k == NPages - FirstFree
           f == [i \in 1 .. n |-> IF i <= k THEN NPages - i ELSE BaseMem - (i - k)]
           below(p) == {q \in S : q < p}
<1> USE PhysAssumption
<1>1. S = lo \cup hi /\ lo \cap hi = {} /\ S \subseteq Page /\ Reserved \subseteq Page
  BY DEF Page, Reserved
<1>2. Cardinality(S) = n /\ n \in Nat
  <2>1. IsFiniteSet(lo) /\ IsFiniteSet(hi)
    BY FS_Interval
  <2>2. Cardinality(lo) = BaseMem - 1
    BY FS_Interval
  <2>3. Cardinality(hi) = k
    BY FS_Interval
  <2>4. Cardinality(lo \cup hi) = Cardinality(lo) + Cardinality(hi) - Cardinality(lo \cap hi)
    BY <2>1, FS_Union
  <2>5. Cardinality(lo \cap hi) = 0
    BY <1>1, FS_EmptySet
  <2>6. Cardinality(S) = Cardinality(lo) + Cardinality(hi)
    <3>1. Cardinality(S) = Cardinality(lo \cup hi)
      BY <1>1
    <3>2. Cardinality(lo) \in Nat /\ Cardinality(hi) \in Nat
      BY <2>1, FS_CardinalityType
    <3> HIDE DEF lo, hi, S
    <3> QED
      BY <2>4, <2>5, <3>1, <3>2
  <2>7. Cardinality(S) = n
    <3> HIDE DEF lo, hi, S
    <3> QED
      BY <2>6, <2>2, <2>3
  <2>8. n \in Nat
    OBVIOUS
  <2> QED
    BY <2>7, <2>8
<1>3. page_init = [pp_ref |-> [p \in Page |-> IF p \in S THEN 0 ELSE 1],
                   pp_link |-> [p \in Page |->
                                 IF p \in S THEN HighestOrNull(below(p)) ELSE NULL],
                   page_free_list |-> HighestOrNull(S)]
  BY DEF page_init
<1>4. \A p \in S : below(p) \subseteq S
  OBVIOUS
<1>5. \A i \in 1 .. n :
        /\ f[i] \in S
        /\ i = n => below(f[i]) = {}
        /\ i # n => f[i + 1] \in below(f[i]) /\ \A q \in below(f[i]) : q <= f[i + 1]
  BY <1>1, <1>2
<1>6. f \in [1 .. n -> S]
  BY <1>5
<1>7. n # 0 => f[1] \in S /\ \A q \in S : q <= f[1]
  BY <1>1, <1>2
<1>8. n = 0 => S = {}
  BY <1>1, <1>2
<1>9. HighestOrNull(S) = IF n = 0 THEN NULL ELSE f[1]
  <2>1. S \subseteq Nat
    BY DEF Page
  <2>2. CASE n = 0
    BY <2>2, <1>8 DEF HighestOrNull
  <2>3. CASE n # 0
    <3> HIDE DEF S, f, n
    <3> QED
      BY <2>1, <2>3, <1>7, HighestIs
  <2> QED
    BY <2>2, <2>3
<1>10. \A i \in 1 .. n :
         HighestOrNull(below(f[i])) = IF i = n THEN NULL ELSE f[i + 1]
  <2> SUFFICES ASSUME NEW i \in 1 .. n
               PROVE  HighestOrNull(below(f[i])) = IF i = n THEN NULL ELSE f[i + 1]
    OBVIOUS
  <2>1. CASE i = n
    BY <2>1, <1>5 DEF HighestOrNull
  <2>2. CASE i # n
    <3>1. below(f[i]) \subseteq Nat
      BY DEF Page
    <3>2. f[i + 1] \in below(f[i]) /\ \A q \in below(f[i]) : q <= f[i + 1]
      BY <1>5, <2>2
    <3> HIDE DEF S, f, n, below
    <3> QED
      BY <3>1, <3>2, <2>2, HighestIs
  <2> QED
    BY <2>1, <2>2
<1>11. \A i \in 1 .. n :
         page_init.pp_link[f[i]] = IF i = n THEN NULL ELSE f[i + 1]
  <2> HIDE DEF f, n, below
  <2> QED
    BY <1>3, <1>5, <1>10
<1>12. \A i, j \in 1 .. n : f[i] = f[j] => i = j
  BY <1>2
<1>13. \A p \in S : \E i \in 1 .. n : f[i] = p
  <2>1. \A p \in lo : k + (BaseMem - p) \in 1 .. n /\ f[k + (BaseMem - p)] = p
    OBVIOUS
  <2>2. \A p \in hi : NPages - p \in 1 .. n /\ f[NPages - p] = p
    OBVIOUS
  <2> QED
    BY <1>1, <2>1, <2>2
<1>14. Threads(page_init, S, f)
  <2>1. page_init.page_free_list = IF n = 0 THEN NULL ELSE f[1]
    <3> HIDE DEF f, n, S
    <3> QED
      BY <1>3, <1>9
  <2> HIDE DEF f, n, S, below
  <2> QED
    BY <1>2, <1>11, <1>12, <1>13, <2>1 DEF Threads
<1>15. page_init \in PageInfos
  <2>1. HighestOrNull(S) \in Page \cup {NULL}
    BY <1>1, <1>2, <1>7, <1>9
  <2>2. \A p \in S : HighestOrNull(below(p)) \in Page \cup {NULL}
    <3> SUFFICES ASSUME NEW p \in S
                 PROVE  HighestOrNull(below(p)) \in Page \cup {NULL}
      OBVIOUS
    <3>1. PICK i \in 1 .. n : f[i] = p
      BY <1>13
    <3>2. i # n => f[i + 1] \in S
      BY <1>5, <1>2
    <3>3. HighestOrNull(below(p)) = IF i = n THEN NULL ELSE f[i + 1]
      <4> HIDE DEF f, n, below, S
      <4> QED
        BY <3>1, <1>10
    <3> HIDE DEF f, n, below
    <3> QED
      BY <3>2, <3>3, <1>1
  <2>3. \A p \in Page : (IF p \in S THEN 0 ELSE 1) \in 0 .. RefMod - 1
    OBVIOUS
  <2> HIDE DEF S, below
  <2> QED
    BY <1>3, <2>1, <2>2, <2>3 DEF PageInfos
<1>16. FreeListIs(page_init, S)
  <2> HIDE DEF f, n, S
  <2> QED
    BY <1>2, <1>6, <1>14 DEF FreeListIs
<1>17. /\ \A p \in S : page_init.pp_ref[p] = 0
       /\ \A p \in Reserved : page_init.pp_ref[p] = 1 /\ page_init.pp_link[p] = NULL
  <2> HIDE DEF below
  <2> QED
    BY <1>1, <1>3
<1> QED
  BY <1>15, <1>16, <1>17
=============================================================================
