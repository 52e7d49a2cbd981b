--------------------------- MODULE MonitorProofs ---------------------------
(***************************************************************************)
(* For any table that the linker can make, any chain of frames and any     *)
(* session: the binary searches of stab_binsearch end with the region they *)
(* promise, and debuginfo_eip says of an address what the table says of    *)
(* it.  Only return addresses of the kernel are looked up.                 *)
(***************************************************************************)
EXTENDS Monitor, FiniteSetTheorems, SequenceTheorems, WellFoundedInduction, TLAPS

Searched == {"SO", "FUN", "SLINE"}

SearchState ==
  [left : Int, right : Int, type : Searched, addr : Int, l : Int, r : Int, any_matches : BOOLEAN]

(* The entries of a type in the region lo .. hi, by the code's indices.    *)
OfType(t, lo, hi, type) == {i \in lo .. hi : t[i + 1].type = type}

UpTo(t, lo, hi, type, A) == {i \in OfType(t, lo, hi, type) : t[i + 1].value <= A}

Ordered(t, lo, hi, type) ==
  /\ \A i \in OfType(t, lo, hi, type) : t[i + 1].value \in Int
  /\ \A i, j \in OfType(t, lo, hi, type) :
       i < j => t[i + 1].value <= t[j + 1].value /\ t[j + 1].value # t[i + 1].value + 1

(* What the loop of stab_binsearch keeps true while it searches for A: the *)
(* entries before l are not above A, those behind r are; left is the last  *)
(* match that is not above, right stands before the first that is.  After  *)
(* an exact match the search goes on for the next address, to which no     *)
(* entry belongs.                                                          *)
Bracketing(t, s, lo, hi, A) ==
  LET M == OfType(t, lo, hi, s.type)
      untouched == s.left = lo /\ \A i \in M : i >= s.l
  IN  /\ s.l \in lo .. hi + 1 /\ s.r \in lo - 1 .. hi /\ s.l <= s.r + 1 /\ s.right = s.r
      /\ s.addr = A \/ (s.addr = A + 1 /\ \E e \in M : t[e + 1].value = A)
      /\ \A i \in M : (i < s.l => t[i + 1].value <= A) /\ (i > s.r => t[i + 1].value > A)
      /\ untouched \/ (s.left \in M /\ t[s.left + 1].value <= A)
      /\ s.r = hi \/ s.r + 1 \in M
      /\ IF s.any_matches THEN M # {} ELSE s.r = hi /\ untouched

-----------------------------------------------------------------------------
LEMMA HighestIs ==
  ASSUME NEW lo \in Int, NEW hi \in Int, NEW S \in SUBSET (lo .. hi), S # {}
  PROVE  K!Highest(S) \in S /\ \A j \in S : j <= K!Highest(S)
<1> DEFINE D == {d \in Nat : hi - d \in S}
<1>1. PICK x \in S : TRUE
  OBVIOUS
<1>2. D \in SUBSET Nat /\ D # {}
  <2>1. hi - x \in Nat /\ hi - (hi - x) = x
    BY <1>1
  <2> QED
    BY <2>1, <1>1
<1>3. PICK m \in D : \A k \in D : ~(<<k, m>> \in OpToRel(<, Nat))
  <2> HIDE DEF D
  <2> QED
    BY <1>2, NatLessThanWellFounded, WFMin, Zenon
<1>4. \A k \in D : m <= k
  <2>1. \A k \in D : k < m => <<k, m>> \in OpToRel(<, Nat)
    BY DEF OpToRel
  <2>2. \A k \in D : ~(k < m)
    <3> HIDE DEF D
    <3> QED
      BY <1>3, <2>1, Zenon
  <2> QED
    BY <2>2
<1>5. hi - m \in S /\ \A j \in S : j <= hi - m
  <2>1. \A j \in S : hi - j \in Nat /\ hi - (hi - j) = j
    OBVIOUS
  <2>2. \A j \in S : m <= hi - j
    BY <2>1, <1>4
  <2> QED
    BY <2>2
<1> HIDE DEF D
<1>6. \E i \in S : \A j \in S : j <= i
  BY <1>5
<1> QED
  BY <1>6 DEF K!Highest

LEMMA LowestIs ==
  ASSUME NEW lo \in Int, NEW hi \in Int, NEW S \in SUBSET (lo .. hi), S # {}
  PROVE  /\ -K!Highest({-i : i \in S}) \in S
         /\ \A j \in S : -K!Highest({-i : i \in S}) <= j
<1>1. PICK N : N = {-i : i \in S}
  OBVIOUS
<1>2. -hi \in Int /\ -lo \in Int /\ N # {}
  <2>1. PICK i \in S : TRUE
    OBVIOUS
  <2>2. -i \in N
    BY <1>1
  <2> QED
    BY <2>2
<1>3. N \in SUBSET (-hi .. -lo)
  <2>1. ASSUME NEW n \in N PROVE n \in -hi .. -lo
    <3>1. PICK i \in S : n = -i
      BY <1>1
    <3> QED
      BY <3>1
  <2> QED
    BY <2>1
<1>4. K!Highest(N) \in N /\ \A j \in N : j <= K!Highest(N)
  BY <1>2, <1>3, HighestIs
<1>5. PICK x \in S : K!Highest(N) = -x
  BY <1>1, <1>4
<1>6. \A j \in S : -j \in N /\ j \in Int
  BY <1>1
<1>7. -K!Highest(N) = x /\ \A j \in S : x <= j
  BY <1>4, <1>5, <1>6
<1> QED
  BY <1>1, <1>7

-----------------------------------------------------------------------------
(* The turns of the loop.  No entry of the type in the lower half ...      *)
LEMMA TurnNoMatch ==
  ASSUME NEW t, NEW lo \in Int, NEW hi \in Int, NEW A \in Int,
         NEW s \in SearchState, NEW s1, NEW q \in s.l .. s.r,
         Ordered(t, lo, hi, s.type), Bracketing(t, s, lo, hi, A),
         OfType(t, s.l, q, s.type) = {}, s1 = [s EXCEPT !.l = q + 1]
  PROVE  Bracketing(t, s1, lo, hi, A)
<1>1. /\ s1.left = s.left /\ s1.right = s.right /\ s1.type = s.type /\ s1.addr = s.addr
      /\ s1.l = q + 1 /\ s1.r = s.r /\ s1.any_matches = s.any_matches
  BY DEF SearchState
<1>2. \A i \in OfType(t, lo, hi, s.type) : i >= s.l => i >= q + 1
  BY DEF OfType, SearchState
<1>3. s.l \in Int /\ s.r \in Int
  BY DEF SearchState
<1> QED
  BY <1>1, <1>2, <1>3 DEF Bracketing, Ordered, OfType

(* ... or the highest one, at h, is below the address, above it or at it.  *)
LEMMA TurnBelow ==
  ASSUME NEW t, NEW lo \in Int, NEW hi \in Int, NEW A \in Int,
         NEW s \in SearchState, NEW s1, NEW q \in s.l .. s.r, NEW h \in s.l .. q,
         Ordered(t, lo, hi, s.type), Bracketing(t, s, lo, hi, A),
         t[h + 1].type = s.type, \A i \in h + 1 .. q : t[i + 1].type # s.type,
         t[h + 1].value < s.addr,
         s1 = [s EXCEPT !.any_matches = TRUE, !.left = h, !.l = q + 1]
  PROVE  Bracketing(t, s1, lo, hi, A)
<1> DEFINE M == OfType(t, lo, hi, s.type)
<1>1. /\ s1.left = h /\ s1.right = s.right /\ s1.type = s.type /\ s1.addr = s.addr
      /\ s1.l = q + 1 /\ s1.r = s.r /\ s1.any_matches = TRUE
  BY DEF SearchState
<1>2. s.l \in Int /\ s.r \in Int /\ s.addr \in Int
  BY DEF SearchState
<1>3. h \in M /\ \A i \in M : i < q + 1 => i <= h
  BY <1>2 DEF Bracketing, OfType
<1>4. t[h + 1].value <= A
  BY <1>2, <1>3 DEF Bracketing, Ordered
<1>5. \A i \in M : i < q + 1 => t[i + 1].value <= A
  BY <1>3, <1>4 DEF Ordered, OfType
<1> HIDE DEF M
<1>6. M # {} /\ M = OfType(t, lo, hi, s1.type)
  BY <1>1, <1>3 DEF M
<1>7. s1.l \in lo .. hi + 1 /\ s1.r \in lo - 1 .. hi /\ s1.l <= s1.r + 1 /\ s1.right = s1.r
  BY <1>1, <1>2 DEF Bracketing
<1> QED
  BY <1>1, <1>3, <1>4, <1>5, <1>6, <1>7 DEF Bracketing, M

LEMMA TurnAbove ==
  ASSUME NEW t, NEW lo \in Int, NEW hi \in Int, NEW A \in Int,
         NEW s \in SearchState, NEW s1, NEW q \in s.l .. s.r, NEW h \in s.l .. q,
         Ordered(t, lo, hi, s.type), Bracketing(t, s, lo, hi, A),
         t[h + 1].type = s.type, t[h + 1].value > s.addr,
         s1 = [s EXCEPT !.any_matches = TRUE, !.right = h - 1, !.r = h - 1]
  PROVE  Bracketing(t, s1, lo, hi, A)
<1> DEFINE M == OfType(t, lo, hi, s.type)
<1>1. /\ s1.left = s.left /\ s1.right = h - 1 /\ s1.type = s.type /\ s1.addr = s.addr
      /\ s1.l = s.l /\ s1.r = h - 1 /\ s1.any_matches = TRUE
  BY DEF SearchState
<1>2. s.l \in Int /\ s.r \in Int /\ s.addr \in Int
  BY DEF SearchState
<1>3. h \in M
  BY <1>2 DEF Bracketing, OfType
<1>4. t[h + 1].value > A /\ t[h + 1].value \in Int
  BY <1>2, <1>3 DEF Bracketing, Ordered
<1>5. \A i \in M : i > h - 1 => t[i + 1].value > A
  BY <1>3, <1>4 DEF Ordered, OfType
<1> HIDE DEF M
<1>6. M # {} /\ M = OfType(t, lo, hi, s1.type) /\ s1.r + 1 \in M
  BY <1>1, <1>3 DEF M
<1>7. s1.l \in lo .. hi + 1 /\ s1.r \in lo - 1 .. hi /\ s1.l <= s1.r + 1 /\ s1.right = s1.r
  BY <1>1, <1>2 DEF Bracketing
<1> QED
  BY <1>1, <1>3, <1>4, <1>5, <1>6, <1>7 DEF Bracketing, M

LEMMA TurnExact ==
  ASSUME NEW t, NEW lo \in Int, NEW hi \in Int, NEW A \in Int,
         NEW s \in SearchState, NEW s1, NEW q \in s.l .. s.r, NEW h \in s.l .. q,
         Ordered(t, lo, hi, s.type), Bracketing(t, s, lo, hi, A),
         t[h + 1].type = s.type, t[h + 1].value = s.addr,
         s1 = [s EXCEPT !.any_matches = TRUE, !.left = h, !.l = h, !.addr = @ + 1]
  PROVE  Bracketing(t, s1, lo, hi, A)
<1> DEFINE M == OfType(t, lo, hi, s.type)
<1>1. /\ s1.left = h /\ s1.right = s.right /\ s1.type = s.type /\ s1.addr = s.addr + 1
      /\ s1.l = h /\ s1.r = s.r /\ s1.any_matches = TRUE
  BY DEF SearchState
<1>2. s.l \in Int /\ s.r \in Int /\ s.addr \in Int
  BY DEF SearchState
<1>3. h \in M /\ h \in Int
  BY <1>2 DEF Bracketing, OfType
<1>4. s.addr = A /\ t[h + 1].value = A
  <2>1. ASSUME NEW e \in M, t[e + 1].value = A, s.addr = A + 1 PROVE FALSE
    <3>1. e \in Int /\ (e < h \/ h < e \/ e = h)
      BY <1>3 DEF OfType
    <3> QED
      BY <2>1, <3>1, <1>3 DEF Ordered
  <2> QED
    BY <2>1 DEF Bracketing
<1>5. \A i \in M : i < h => t[i + 1].value <= A
  BY <1>3, <1>4 DEF Ordered, OfType
<1> HIDE DEF M
<1>6. M # {} /\ M = OfType(t, lo, hi, s1.type)
  BY <1>1, <1>3 DEF M
<1>7. s1.l \in lo .. hi + 1 /\ s1.r \in lo - 1 .. hi /\ s1.l <= s1.r + 1 /\ s1.right = s1.r
  BY <1>1, <1>2 DEF Bracketing
<1> QED
  BY <1>1, <1>3, <1>4, <1>5, <1>6, <1>7 DEF Bracketing, M

LEMMA SearchStarts ==
  ASSUME NEW t, NEW lo \in Int, NEW hi \in Int, NEW A \in Int, NEW type, lo <= hi + 1
  PROVE  Bracketing(t, K!Search(lo, hi, type, A), lo, hi, A)
BY DEF Bracketing, K!Search, OfType

-----------------------------------------------------------------------------
(* What stab_binsearch returns for the entries M of the region lo .. hi, of *)
(* which those of In are not above the address: an empty region if there   *)
(* are none; otherwise the region of the entry that contains the address,  *)
(* or what precedes the first entry if all are above.                      *)
FoundIn(f, lo, hi, M, In) ==
  /\ M = {} => f.left = lo /\ f.right = lo - 1
  /\ In # {} => f.left \in In /\ (\A i \in In : i <= f.left) /\ f.left <= f.right
  /\ M # {} /\ In = {} /\ lo \notin M => f.left = lo /\ lo <= f.right
  /\ M # {} => /\ \A i \in M : i \in In <=> i <= f.right
               /\ f.right = hi \/ f.right + 1 \in M
               /\ f.right \in lo - 1 .. hi

LEMMA SearchEnds ==
  ASSUME NEW lo \in Int, NEW hi \in Int, NEW A \in Int,
         search \in SearchState, Ordered(stabs, lo, hi, search.type),
         Bracketing(stabs, search, lo, hi, A), search.l > search.r,
         NEW M, M = OfType(stabs, lo, hi, search.type),
         NEW In, In = UpTo(stabs, lo, hi, search.type, A)
  PROVE  FoundIn(K!Found, lo, hi, M, In)
<1> DEFINE C == {i \in search.left + 1 .. search.right : K!At(i).type = search.type}
<1>1. /\ search.l \in Int /\ search.r \in Int /\ search.left \in Int /\ search.right \in Int
      /\ search.any_matches \in BOOLEAN
  BY DEF SearchState
<1>2. /\ search.l = search.r + 1 /\ search.right = search.r /\ search.r \in lo - 1 .. hi
      /\ search.r = hi \/ search.r + 1 \in M
  BY <1>1 DEF Bracketing
<1>0. In = {i \in M : stabs[i + 1].value <= A}
  BY DEF UpTo
<1>3. \A i \in M : i \in Int /\ stabs[i + 1].value \in Int /\ lo <= i /\ i <= hi
  BY DEF OfType, Ordered
<1>4. \A i \in M : i \in In <=> i <= search.r
  BY <1>0, <1>1, <1>2, <1>3 DEF Bracketing
<1>5. CASE M = {}
  <2>1. ~search.any_matches /\ search.left = lo
    BY <1>5, <1>1 DEF Bracketing
  <2>2. In = {}
    BY <1>0, <1>5
  <2>3. K!Found = [left |-> lo, right |-> lo - 1]
    BY <2>1 DEF K!Found
  <2> QED
    BY <2>2, <2>3, <1>5 DEF FoundIn
<1>6. CASE M # {}
  <2>1. search.any_matches
    <3>1. CASE ~search.any_matches
      <4>1. search.r = hi /\ \A i \in M : i >= hi + 1
        BY <3>1, <1>2 DEF Bracketing
      <4> QED
        BY <4>1, <1>3, <1>6
    <3> QED
      BY <3>1
  <2>2. /\ K!Found.right = search.right
        /\ K!Found.left = IF C = {} THEN IF search.right > search.left THEN search.left
                                         ELSE search.right
                          ELSE K!Highest(C)
    BY <2>1 DEF K!Found
  <2>3. C # {} => K!Highest(C) \in C /\ \A j \in C : j <= K!Highest(C)
    <3>1. C \in SUBSET (search.left + 1 .. search.right)
      OBVIOUS
    <3>2. search.left + 1 \in Int
      BY <1>1
    <3> HIDE DEF C
    <3> QED
      BY <3>1, <3>2, <1>1, HighestIs
  <2>4. search.left >= lo
    BY <1>1, <1>3 DEF Bracketing
  <2>5. \A i \in C : i \in M /\ i \in In
    BY <1>0, <1>1, <1>2, <1>4, <2>4 DEF OfType, K!At
  <2>6. ASSUME In # {}
        PROVE  K!Found.left \in In /\ (\A i \in In : i <= K!Found.left)
               /\ K!Found.left <= K!Found.right
    <3>1. CASE C # {}
      <4>1. K!Found.left \in C /\ \A j \in C : j <= K!Found.left
        BY <3>1, <2>2, <2>3, Zenon
      <4>2. \A i \in In : i \in C \/ i <= search.left
        BY <1>0, <1>1, <1>2, <1>3, <1>4 DEF OfType, K!At
      <4>3. K!Found.left \in In /\ K!Found.left \in Int /\ search.left < K!Found.left
            /\ K!Found.left <= search.right
        BY <4>1, <2>5, <1>0, <1>1, <1>3
      <4>4. \A i \in In : i <= K!Found.left
        BY <4>1, <4>2, <4>3, <1>0, <1>1, <1>3
      <4> HIDE DEF C
      <4> QED
        BY <4>3, <4>4, <2>2
    <3>2. CASE C = {}
      <4>1. \A i \in In : i <= search.left
        BY <3>2, <1>0, <1>1, <1>2, <1>3, <1>4 DEF OfType, K!At
      <4>2. search.left \in In
        BY <2>6, <1>0, <1>1, <1>2, <1>3, <1>4 DEF Bracketing
      <4>3. search.left <= search.right
        BY <4>2, <1>0, <1>2, <1>4
      <4>4. K!Found.left = search.left
        BY <4>3, <2>2, <3>2, <1>1
      <4> QED
        BY <4>1, <4>2, <4>3, <4>4, <2>2
    <3> QED
      BY <3>1, <3>2
  <2>7. ASSUME In = {}, lo \notin M PROVE K!Found.left = lo /\ lo <= K!Found.right
    <3>1. C = {} /\ search.left = lo
      BY <2>5, <2>7, <1>0 DEF Bracketing
    <3>2. lo <= search.right
      <4>1. search.r + 1 # lo
        BY <2>7, <1>0, <1>2, <1>3, <1>4, <1>6
      <4> QED
        BY <4>1, <1>1, <1>2
    <3> QED
      BY <3>1, <3>2, <2>2, <1>1
  <2> HIDE DEF C
  <2> QED
    BY <2>2, <2>6, <2>7, <1>2, <1>4, <1>6 DEF FoundIn
<1> QED
  BY <1>5, <1>6

-----------------------------------------------------------------------------
(* No entry of these types in the region lo .. hi but perhaps the first.   *)
NoneIn(t, lo, hi, types) == \A k \in lo + 1 .. hi : t[k + 1].type \notin types

LEMMA Entries ==
  ASSUME NEW t, K!Linked(t)
  PROVE  /\ Len(t) \in Nat /\ Len(t) > 0 /\ DOMAIN t = 1 .. Len(t) /\ t[1].type = "UNDF"
         /\ \A i \in 0 .. Len(t) - 1 :
              /\ t[i + 1].type \in STRING /\ t[i + 1].value \in Nat
              /\ t[i + 1].desc \in Nat /\ t[i + 1].name \in STRING
<1> DEFINE R == [type : STRING, value : Nat, desc : Nat, name : STRING]
<1>1. t \in Seq(R) /\ t # <<>> /\ t[1].type = "UNDF"
  BY DEF K!Linked
<1>2. Len(t) \in Nat /\ DOMAIN t = 1 .. Len(t) /\ Len(t) # 0
  BY <1>1, LenProperties, EmptySeq
<1>3. \A i \in 1 .. Len(t) : t[i] \in R
  BY <1>1, ElementOfSeq
<1>4. ASSUME NEW i \in 0 .. Len(t) - 1
      PROVE  /\ t[i + 1].type \in STRING /\ t[i + 1].value \in Nat
             /\ t[i + 1].desc \in Nat /\ t[i + 1].name \in STRING
  <2>1. i + 1 \in 1 .. Len(t)
    BY <1>2
  <2>2. t[i + 1] \in R
    BY <2>1, <1>3
  <2> QED
    BY <2>2
<1> QED
  BY <1>1, <1>2, <1>4

(* Each of the three searches sees its entries in order.                   *)
LEMMA OrderedRegion ==
  ASSUME NEW t, K!Linked(t), NEW lo \in 0 .. Len(t) - 1, NEW hi \in lo .. Len(t) - 1,
         NEW type, NEW bounds, K!InOrder(t, type, bounds), NoneIn(t, lo, hi, bounds)
  PROVE  Ordered(t, lo, hi, type)
<1>1. /\ Len(t) \in Nat /\ DOMAIN t = 1 .. Len(t)
      /\ \A i \in 0 .. Len(t) - 1 : t[i + 1].value \in Nat
  BY Entries
<1>2. \A i \in OfType(t, lo, hi, type) :
        i \in lo .. hi /\ i \in 0 .. Len(t) - 1 /\ t[i + 1].type = type
  BY <1>1 DEF OfType
<1>3. \A i \in OfType(t, lo, hi, type) : t[i + 1].value \in Int
  BY <1>1, <1>2
<1>4. ASSUME NEW i \in OfType(t, lo, hi, type), NEW j \in OfType(t, lo, hi, type), i < j
      PROVE  t[i + 1].value <= t[j + 1].value /\ t[j + 1].value # t[i + 1].value + 1
  <2>1. i + 1 \in DOMAIN t /\ j + 1 \in DOMAIN t /\ i + 1 < j + 1
    BY <1>1, <1>2, <1>4
  <2>2. K!Free(t, i + 1, j + 1, bounds)
    <3>1. ASSUME NEW k \in (i + 1) + 1 .. (j + 1) - 1 PROVE t[k].type \notin bounds
      <4>1. k - 1 \in lo + 1 .. hi /\ (k - 1) + 1 = k
        BY <1>1, <1>2
      <4> QED
        BY <4>1 DEF NoneIn
    <3> QED
      BY <3>1 DEF K!Free
  <2> QED
    BY <1>2, <2>1, <2>2 DEF K!InOrder
<1> QED
  BY <1>3, <1>4 DEF Ordered

-----------------------------------------------------------------------------
(* What debuginfo_eip has found out between its searches.  'e' is the      *)
(* address, lc and inf are its locals and its result.                      *)

(* The last file that starts at or before the address, up to the next.     *)
FileIs(t, e, lc) ==
  /\ lc.lfile \in 1 .. lc.rfile /\ lc.rfile \in 1 .. Len(t) - 1
  /\ t[lc.lfile + 1].type = "SO" /\ t[lc.lfile + 1].value <= e
  /\ NoneIn(t, lc.lfile, lc.rfile, {"SO"})
  /\ lc.rfile # Len(t) - 1 => t[lc.rfile + 2].type = "SO" /\ t[lc.rfile + 2].value > e

(* The last function of the file that does, ...                            *)
InFunction(t, e, lc, inf) ==
  /\ lc.lfun \in lc.lfile + 1 .. lc.rfun /\ lc.rfun \in lc.lfile + 1 .. lc.rfile
  /\ t[lc.lfun + 1].type = "FUN" /\ t[lc.lfun + 1].value <= e
  /\ NoneIn(t, lc.lfun, lc.rfun, {"FUN"})
  /\ lc.rfun # lc.rfile => t[lc.rfun + 2].type = "FUN" /\ t[lc.rfun + 2].value > e
  /\ lc.addr = e - t[lc.lfun + 1].value
  /\ inf.fn = t[lc.lfun + 1].name /\ inf.addr = t[lc.lfun + 1].value

(* ... a file without functions, ...                                       *)
NoFunctions(t, e, lc, inf) ==
  /\ lc.lfun = lc.lfile /\ lc.rfun = lc.lfile - 1
  /\ NoneIn(t, lc.lfile, lc.rfile, {"FUN"})
  /\ lc.addr = e
  /\ inf.fn = K!Unknown /\ inf.addr = e

(* ... or the entries of a file before its first function, all of which    *)
(* start behind the address.                                               *)
BeforeFunctions(t, e, lc) ==
  /\ lc.lfun = lc.lfile /\ lc.rfun \in lc.lfile .. lc.rfile - 1
  /\ NoneIn(t, lc.lfile, lc.rfun, {"FUN"})
  /\ t[lc.rfun + 2].type = "FUN" /\ t[lc.rfun + 2].value > e
  /\ lc.addr \in Int

FunctionIs(t, e, lc, inf) ==
  \/ InFunction(t, e, lc, inf)
  \/ NoFunctions(t, e, lc, inf)
  \/ BeforeFunctions(t, e, lc)

(* The region in which the line is searched.                               *)
LineLo(lc) == IF lc.lfun <= lc.rfun THEN lc.lfun ELSE lc.lfile
LineHi(lc) == IF lc.lfun <= lc.rfun THEN lc.rfun ELSE lc.rfile

LinesUpTo(t, lc) == UpTo(t, LineLo(lc), LineHi(lc), "SLINE", lc.addr)

NamesFile(t, i) == t[i + 1].type = "SOL" \/ (t[i + 1].type = "SO" /\ t[i + 1].value # 0)

Parameters(t, lc) ==
  {i \in lc.lfun + 1 .. lc.rfun - 1 :
     \A j \in lc.lfun + 1 .. i : t[j + 1].type = "PSYM"}

(* The line that contains the address, if one does, and the file named     *)
(* last before it.                                                         *)
LineIs(t, lc, inf) ==
  /\ LinesUpTo(t, lc) # {} =>
       \E ln \in LinesUpTo(t, lc) :
         /\ \A i \in LinesUpTo(t, lc) : i <= ln
         /\ inf.line = t[ln + 1].desc
         /\ \E f \in lc.lfile .. ln :
              /\ NamesFile(t, f) /\ \A i \in f + 1 .. ln : ~NamesFile(t, i)
              /\ inf.file = t[f + 1].name
  /\ inf.narg = Cardinality(Parameters(t, lc))

FileNames == STRING \cup {K!Unknown}
Info == [file : FileNames, line : Nat, fn : FileNames, addr : Nat, narg : Nat]
Locals == [lfile : Int, rfile : Int, lfun : Int, rfun : Int, addr : Int]

(* The locals stay within the table.                                       *)
Bounds(n, s, inf) ==
  /\ s \in SearchState /\ inf \in Info
  /\ s.left \in 0 .. n - 1 /\ s.right \in -1 .. n - 1
  /\ s.l \in 0 .. n /\ s.r \in -1 .. n - 1
  /\ inf.narg \in 0 .. n

(* debuginfo_eip at work and when it has answered.                         *)
Lookup(t, e, s, lc, inf, p) ==
  /\ K!Linked(t) /\ Bounds(Len(t), s, inf) /\ lc \in Locals /\ e \in Nat
  /\ p \in {"idle", "SO", "FUN", "SLINE", "done", "failed"}
  /\ p \in {"SO", "FUN", "SLINE"} => s.type = p
  /\ p \in {"SO", "FUN"} => lc.addr = e /\ inf.fn = K!Unknown /\ inf.addr = e
  /\ p = "SO" => Bracketing(t, s, 0, Len(t) - 1, e)
  /\ p = "FUN" => FileIs(t, e, lc) /\ Bracketing(t, s, lc.lfile, lc.rfile, e)
  /\ p = "SLINE" => /\ FileIs(t, e, lc) /\ FunctionIs(t, e, lc, inf)
                    /\ Bracketing(t, s, LineLo(lc), LineHi(lc), lc.addr)
  /\ p = "done" => FileIs(t, e, lc) /\ FunctionIs(t, e, lc, inf) /\ LineIs(t, lc, inf)
  /\ p = "failed" =>
       \/ \A i \in OfType(t, 0, Len(t) - 1, "SO") : t[i + 1].value > e
       \/ /\ FileIs(t, e, lc) /\ FunctionIs(t, e, lc, inf)
          /\ OfType(t, LineLo(lc), LineHi(lc), "SLINE") = {}

LookupOK == Lookup(stabs, eip, search, loc, info, kpc)

-----------------------------------------------------------------------------
(* Where each search looks, it sees its entries in order.                  *)
LEMMA FileRegion ==
  ASSUME NEW t, K!Linked(t)
  PROVE  /\ 0 \in Int /\ Len(t) - 1 \in Int /\ 0 <= Len(t) - 1
         /\ Ordered(t, 0, Len(t) - 1, "SO") /\ 0 \notin OfType(t, 0, Len(t) - 1, "SO")
<1>1. Len(t) \in Nat /\ Len(t) > 0 /\ t[1].type = "UNDF"
  BY Entries
<1>2. K!InOrder(t, "SO", {})
  BY DEF K!Linked
<1>3. NoneIn(t, 0, Len(t) - 1, {})
  BY DEF NoneIn
<1>4. 0 \in 0 .. Len(t) - 1 /\ Len(t) - 1 \in 0 .. Len(t) - 1
  BY <1>1
<1>5. Ordered(t, 0, Len(t) - 1, "SO")
  BY <1>2, <1>3, <1>4, OrderedRegion
<1> QED
  BY <1>1, <1>5 DEF OfType

LEMMA FunctionRegion ==
  ASSUME NEW t, K!Linked(t), NEW e, NEW lc \in Locals, FileIs(t, e, lc)
  PROVE  /\ lc.lfile \in Int /\ lc.rfile \in Int /\ lc.lfile <= lc.rfile
         /\ Ordered(t, lc.lfile, lc.rfile, "FUN")
         /\ lc.lfile \notin OfType(t, lc.lfile, lc.rfile, "FUN")
<1>1. Len(t) \in Nat /\ Len(t) > 0
  BY Entries
<1>2. lc.lfile \in 0 .. Len(t) - 1 /\ lc.rfile \in lc.lfile .. Len(t) - 1
  BY <1>1 DEF FileIs, Locals
<1>3. K!InOrder(t, "FUN", {"SO"}) /\ NoneIn(t, lc.lfile, lc.rfile, {"SO"})
  BY DEF K!Linked, FileIs
<1>4. Ordered(t, lc.lfile, lc.rfile, "FUN")
  BY <1>2, <1>3, OrderedRegion
<1> QED
  BY <1>1, <1>2, <1>4 DEF OfType, FileIs

LEMMA LineRegion ==
  ASSUME NEW t, K!Linked(t), NEW e, NEW lc \in Locals, NEW inf,
         FileIs(t, e, lc), FunctionIs(t, e, lc, inf)
  PROVE  /\ LineLo(lc) \in 1 .. LineHi(lc) /\ LineHi(lc) \in 1 .. Len(t) - 1
         /\ lc.lfile <= LineLo(lc) /\ LineHi(lc) <= lc.rfile
         /\ Ordered(t, LineLo(lc), LineHi(lc), "SLINE")
         /\ LineLo(lc) \notin OfType(t, LineLo(lc), LineHi(lc), "SLINE")
<1>1. Len(t) \in Nat /\ Len(t) > 0
  BY Entries
<1>2. /\ LineLo(lc) \in lc.lfile .. LineHi(lc) /\ LineHi(lc) \in LineLo(lc) .. lc.rfile
      /\ NoneIn(t, LineLo(lc), LineHi(lc), {"FUN"})
      /\ t[LineLo(lc) + 1].type \in {"SO", "FUN"}
  <2>1. lc.lfile \in Int /\ lc.rfile \in Int /\ lc.lfile <= lc.rfile
    BY DEF Locals, FileIs
  <2>2. CASE InFunction(t, e, lc, inf)
    BY <2>1, <2>2 DEF InFunction, LineLo, LineHi, Locals
  <2>3. CASE NoFunctions(t, e, lc, inf)
    BY <2>1, <2>3 DEF NoFunctions, LineLo, LineHi, Locals, FileIs
  <2>4. CASE BeforeFunctions(t, e, lc)
    BY <2>1, <2>4 DEF BeforeFunctions, LineLo, LineHi, Locals, FileIs
  <2> QED
    BY <2>2, <2>3, <2>4 DEF FunctionIs
<1>3. LineLo(lc) \in 1 .. LineHi(lc) /\ LineHi(lc) \in 1 .. Len(t) - 1
  BY <1>1, <1>2 DEF FileIs, Locals
<1>4. NoneIn(t, LineLo(lc), LineHi(lc), {"SO", "FUN"})
  BY <1>1, <1>2, <1>3 DEF NoneIn, FileIs, Locals
<1>5. K!InOrder(t, "SLINE", {"SO", "FUN"})
  BY DEF K!Linked
<1>6. Ordered(t, LineLo(lc), LineHi(lc), "SLINE")
  <2>1. LineLo(lc) \in 0 .. Len(t) - 1 /\ LineHi(lc) \in LineLo(lc) .. Len(t) - 1
    BY <1>1, <1>3
  <2> QED
    BY <2>1, <1>4, <1>5, OrderedRegion
<1> QED
  BY <1>1, <1>2, <1>3, <1>6 DEF OfType, FileIs, Locals

LEMMA BracketingBounds ==
  ASSUME NEW t, NEW n \in Nat, NEW lo \in 0 .. n - 1, NEW hi \in lo .. n - 1, NEW A,
         NEW s \in SearchState, Bracketing(t, s, lo, hi, A), NEW inf \in Info,
         inf.narg \in 0 .. n
  PROVE  Bounds(n, s, inf)
<1>1. s.left \in lo .. hi
  BY DEF Bracketing, OfType, SearchState
<1> QED
  BY <1>1 DEF Bounds, Bracketing, SearchState

LEMMA TheRegion ==
  ASSUME LookupOK, kpc \in {"SO", "FUN", "SLINE"}
  PROVE  \E lo \in 0 .. Len(stabs) - 1, A \in Int : \E hi \in lo .. Len(stabs) - 1 :
           /\ Ordered(stabs, lo, hi, search.type)
           /\ Bracketing(stabs, search, lo, hi, A)
           /\ \A s1 \in SearchState :
                s1.type = search.type /\ Bracketing(stabs, s1, lo, hi, A) =>
                  Lookup(stabs, eip, s1, loc, info, kpc)
<1>1. /\ K!Linked(stabs) /\ Len(stabs) \in Nat /\ Len(stabs) > 0 /\ search.type = kpc
      /\ loc \in Locals /\ eip \in Nat /\ info \in Info /\ info.narg \in 0 .. Len(stabs)
  BY Entries DEF LookupOK, Lookup, Bounds
<1>2. ASSUME NEW lo \in 0 .. Len(stabs) - 1, NEW hi \in lo .. Len(stabs) - 1, NEW A \in Int,
             NEW s1 \in SearchState, Bracketing(stabs, s1, lo, hi, A)
      PROVE  Bounds(Len(stabs), s1, info)
  BY <1>1, <1>2, BracketingBounds
<1>3. CASE kpc = "SO"
  <2>1. 0 \in 0 .. Len(stabs) - 1 /\ Len(stabs) - 1 \in 0 .. Len(stabs) - 1 /\ eip \in Int
    BY <1>1
  <2>2. Ordered(stabs, 0, Len(stabs) - 1, search.type)
    BY <1>1, <1>3, FileRegion
  <2>3. Bracketing(stabs, search, 0, Len(stabs) - 1, eip)
    BY <1>3 DEF LookupOK, Lookup
  <2>4. \A s1 \in SearchState :
          s1.type = search.type /\ Bracketing(stabs, s1, 0, Len(stabs) - 1, eip) =>
            Lookup(stabs, eip, s1, loc, info, kpc)
    BY <1>1, <1>2, <1>3, <2>1 DEF LookupOK, Lookup
  <2> QED
    BY <2>1, <2>2, <2>3, <2>4
<1>4. CASE kpc = "FUN"
  <2>1. FileIs(stabs, eip, loc) /\ Bracketing(stabs, search, loc.lfile, loc.rfile, eip)
        /\ eip \in Int
    BY <1>1, <1>4 DEF LookupOK, Lookup
  <2>2. loc.lfile \in 0 .. Len(stabs) - 1 /\ loc.rfile \in loc.lfile .. Len(stabs) - 1
    BY <1>1, <2>1 DEF FileIs, Locals
  <2>3. Ordered(stabs, loc.lfile, loc.rfile, search.type)
    BY <1>1, <1>4, <2>1, FunctionRegion
  <2>4. \A s1 \in SearchState :
          s1.type = search.type /\ Bracketing(stabs, s1, loc.lfile, loc.rfile, eip) =>
            Lookup(stabs, eip, s1, loc, info, kpc)
    BY <1>1, <1>2, <1>4, <2>1, <2>2 DEF LookupOK, Lookup
  <2> QED
    BY <2>1, <2>2, <2>3, <2>4
<1>5. CASE kpc = "SLINE"
  <2>1. FileIs(stabs, eip, loc) /\ FunctionIs(stabs, eip, loc, info)
        /\ Bracketing(stabs, search, LineLo(loc), LineHi(loc), loc.addr) /\ loc.addr \in Int
    BY <1>1, <1>5 DEF LookupOK, Lookup, Locals
  <2>2. /\ LineLo(loc) \in 1 .. LineHi(loc) /\ LineHi(loc) \in 1 .. Len(stabs) - 1
        /\ Ordered(stabs, LineLo(loc), LineHi(loc), search.type)
    BY <1>1, <1>5, <2>1, LineRegion
  <2>3. LineLo(loc) \in 0 .. Len(stabs) - 1 /\ LineHi(loc) \in LineLo(loc) .. Len(stabs) - 1
    BY <1>1, <2>2
  <2>4. \A s1 \in SearchState :
          s1.type = search.type /\ Bracketing(stabs, s1, LineLo(loc), LineHi(loc), loc.addr) =>
            Lookup(stabs, eip, s1, loc, info, kpc)
    BY <1>1, <1>2, <1>5, <2>1, <2>3 DEF LookupOK, Lookup
  <2> QED
    BY <2>1, <2>2, <2>3, <2>4
<1> QED
  BY <1>3, <1>4, <1>5

LEMMA SearchFresh ==
  ASSUME NEW lo \in Int, NEW hi \in Int, NEW A \in Int, NEW type \in Searched
  PROVE  K!Search(lo, hi, type, A) \in SearchState /\ K!Search(lo, hi, type, A).type = type
BY DEF K!Search, SearchState, Searched

LEMMA SearchFields ==
  ASSUME NEW s \in SearchState, NEW s1, NEW h \in Int, NEW q \in Int,
         \/ s1 = [s EXCEPT !.l = q + 1]
         \/ s1 = [s EXCEPT !.any_matches = TRUE, !.left = h, !.l = q + 1]
         \/ s1 = [s EXCEPT !.any_matches = TRUE, !.right = h - 1, !.r = h - 1]
         \/ s1 = [s EXCEPT !.any_matches = TRUE, !.left = h, !.l = h, !.addr = @ + 1]
  PROVE  s1 \in SearchState /\ s1.type = s.type
<1>1. s.addr + 1 \in Int /\ q + 1 \in Int /\ h - 1 \in Int
  BY DEF SearchState
<1>2. CASE s1 = [s EXCEPT !.l = q + 1]
  BY <1>1, <1>2 DEF SearchState
<1>3. CASE s1 = [s EXCEPT !.any_matches = TRUE, !.left = h, !.l = q + 1]
  BY <1>1, <1>3 DEF SearchState
<1>4. CASE s1 = [s EXCEPT !.any_matches = TRUE, !.right = h - 1, !.r = h - 1]
  BY <1>1, <1>4 DEF SearchState
<1>5. CASE s1 = [s EXCEPT !.any_matches = TRUE, !.left = h, !.l = h, !.addr = @ + 1]
  BY <1>1, <1>5 DEF SearchState
<1> QED
  BY <1>2, <1>3, <1>4, <1>5

(* A turn of the loop keeps the search on its way.                         *)
LEMMA LoopKeeps ==
  ASSUME LookupOK, stabs' = stabs, K!NoMatch \/ K!Below \/ K!Above \/ K!Exact
  PROVE  LookupOK'
<1>1. /\ kpc \in {"SO", "FUN", "SLINE"} /\ search.l <= search.r
      /\ eip' = eip /\ loc' = loc /\ info' = info /\ kpc' = kpc
  BY DEF K!NoMatch, K!Below, K!Above, K!Exact, K!Turn, K!Searching
<1>2. search \in SearchState /\ search.l \in Int /\ search.r \in Int
  BY DEF LookupOK, Lookup, Bounds, SearchState
<1>3. PICK lo \in 0 .. Len(stabs) - 1, A \in Int : \E hi \in lo .. Len(stabs) - 1 :
        /\ Ordered(stabs, lo, hi, search.type)
        /\ Bracketing(stabs, search, lo, hi, A)
        /\ \A s1 \in SearchState :
             s1.type = search.type /\ Bracketing(stabs, s1, lo, hi, A) =>
               Lookup(stabs, eip, s1, loc, info, kpc)
  BY <1>1, TheRegion
<1>4. PICK hi \in lo .. Len(stabs) - 1 :
        /\ Ordered(stabs, lo, hi, search.type)
        /\ Bracketing(stabs, search, lo, hi, A)
        /\ \A s1 \in SearchState :
             s1.type = search.type /\ Bracketing(stabs, s1, lo, hi, A) =>
               Lookup(stabs, eip, s1, loc, info, kpc)
  BY <1>3
<1>5. lo \in Int /\ hi \in Int
  OBVIOUS
<1>6. PICK q \in search.l .. search.r : q = K!true_m
  BY <1>1, <1>2 DEF K!true_m
<1>7. K!Matches = {i \in search.l .. q : stabs[i + 1].type = search.type} /\ q \in Int
  BY <1>2, <1>6 DEF K!Matches, K!At
<1>8. PICK M \in SUBSET (search.l .. q) : M = K!Matches
  BY <1>7
<1>9. M # {} => /\ K!m \in search.l .. q /\ stabs[K!m + 1].type = search.type
                /\ \A i \in K!m + 1 .. q : stabs[i + 1].type # search.type
  <2>1. SUFFICES ASSUME M # {}
                 PROVE  /\ K!m \in search.l .. q /\ stabs[K!m + 1].type = search.type
                        /\ \A i \in K!m + 1 .. q : stabs[i + 1].type # search.type
    OBVIOUS
  <2>2. K!Highest(M) \in M /\ \A j \in M : j <= K!Highest(M)
    BY <1>2, <1>7, <2>1, HighestIs
  <2>3. PICK h \in M : h = K!m /\ \A j \in M : j <= h
    BY <1>8, <2>2 DEF K!m
  <2>4. h \in search.l .. q /\ stabs[h + 1].type = search.type
    BY <1>7, <1>8
  <2>5. \A i \in h + 1 .. q : stabs[i + 1].type # search.type
    <3>1. ASSUME NEW i \in h + 1 .. q, stabs[i + 1].type = search.type PROVE FALSE
      <4>1. i \in M
        BY <1>2, <1>7, <1>8, <2>4, <3>1
      <4> QED
        BY <4>1, <2>3, <2>4, <1>2
    <3> QED
      BY <3>1
  <2> QED
    BY <2>3, <2>4, <2>5
<1>10. PICK h : h = K!m
  OBVIOUS
<1>11. /\ search' \in SearchState /\ search'.type = search.type
       /\ Bracketing(stabs, search', lo, hi, A)
  <2>1. CASE K!NoMatch
    <3>1. search' = [search EXCEPT !.l = q + 1]
      BY <2>1, <1>6 DEF K!NoMatch, K!Turn
    <3>2. OfType(stabs, search.l, q, search.type) = {}
      BY <2>1, <1>7 DEF K!NoMatch, OfType
    <3>3. Bracketing(stabs, search', lo, hi, A)
      <4>1. PICK s1 : s1 = search'
        OBVIOUS
      <4>2. Bracketing(stabs, s1, lo, hi, A)
        BY <3>1, <3>2, <4>1, <1>2, <1>4, <1>5, <1>6, TurnNoMatch
      <4> QED
        BY <4>1, <4>2
    <3> QED
      BY <3>1, <3>3, <1>2, <1>7, SearchFields
  <2>2. CASE K!Below
    <3>1. /\ search' = [search EXCEPT !.any_matches = TRUE, !.left = h, !.l = q + 1]
          /\ M # {} /\ stabs[h + 1].value < search.addr
      BY <2>2, <1>6, <1>8, <1>10 DEF K!Below, K!Turn, K!At
    <3>2. Bracketing(stabs, search', lo, hi, A)
      BY <3>1, <1>2, <1>4, <1>5, <1>9, <1>10, TurnBelow
    <3>3. h \in Int
      BY <3>1, <1>9, <1>10, <1>2
    <3>4. search' \in SearchState /\ search'.type = search.type
      BY <3>1, <3>3, <1>2, <1>7, SearchFields, Zenon
    <3> QED
      BY <3>2, <3>4
  <2>3. CASE K!Above
    <3>1. /\ search' = [search EXCEPT !.any_matches = TRUE, !.right = h - 1, !.r = h - 1]
          /\ M # {} /\ stabs[h + 1].value > search.addr
      BY <2>3, <1>6, <1>8, <1>10 DEF K!Above, K!Turn, K!At
    <3>2. Bracketing(stabs, search', lo, hi, A)
      BY <3>1, <1>2, <1>4, <1>5, <1>9, <1>10, TurnAbove
    <3>3. h \in Int
      BY <3>1, <1>9, <1>10, <1>2
    <3>4. search' \in SearchState /\ search'.type = search.type
      BY <3>1, <3>3, <1>2, <1>7, SearchFields, Zenon
    <3> QED
      BY <3>2, <3>4
  <2>4. CASE K!Exact
    <3>1. /\ search' = [search EXCEPT !.any_matches = TRUE, !.left = h, !.l = h, !.addr = @ + 1]
          /\ M # {} /\ stabs[h + 1].value = search.addr
      BY <2>4, <1>6, <1>8, <1>10 DEF K!Exact, K!Turn, K!At
    <3>2. Bracketing(stabs, search', lo, hi, A)
      BY <3>1, <1>2, <1>4, <1>5, <1>9, <1>10, TurnExact
    <3>3. h \in Int
      BY <3>1, <1>9, <1>10, <1>2
    <3>4. search' \in SearchState /\ search'.type = search.type
      BY <3>1, <3>3, <1>2, <1>7, SearchFields, Zenon
    <3> QED
      BY <3>2, <3>4
  <2> QED
    BY <2>1, <2>2, <2>3, <2>4
<1>12. Lookup(stabs, eip, search', loc, info, kpc)
  BY <1>4, <1>11
<1> QED
  BY <1>1, <1>12 DEF LookupOK

-----------------------------------------------------------------------------
(* The steps of debuginfo_eip.                                             *)
LEMMA CallKeeps ==
  ASSUME LookupOK, stabs' = stabs, NEW a \in Nat, a >= ULIM, K!debuginfo_eip(a)
  PROVE  LookupOK'
<1>1. /\ K!Linked(stabs) /\ Len(stabs) \in Nat /\ Len(stabs) > 0
      /\ ULIM \in Nat /\ 0 \in Int /\ Len(stabs) - 1 \in Int /\ 0 <= (Len(stabs) - 1) + 1
      /\ 0 \in 0 .. Len(stabs) - 1 /\ Len(stabs) - 1 \in 0 .. Len(stabs) - 1
  BY Entries, MonitorAssumption DEF LookupOK, Lookup
<1>2. /\ eip' = a /\ search' = K!Search(0, Len(stabs) - 1, "SO", a) /\ kpc' = "SO"
      /\ loc' = [lfile |-> 0, rfile |-> 0, lfun |-> 0, rfun |-> 0, addr |-> a]
      /\ info' = [file |-> K!Unknown, line |-> 0, fn |-> K!Unknown, addr |-> a, narg |-> 0]
  BY <1>1 DEF K!debuginfo_eip, K!Start, K!Size
<1>3. search' \in SearchState /\ search'.type = "SO"
  BY <1>1, <1>2, SearchFresh DEF Searched
<1>4. info' \in Info /\ info'.narg \in 0 .. Len(stabs) /\ info'.fn = K!Unknown /\ info'.addr = a
  <2>1. K!Unknown \in FileNames
    BY DEF FileNames
  <2>2. PICK name : name = K!Unknown
    OBVIOUS
  <2>3. info' = [file |-> name, line |-> 0, fn |-> name, addr |-> a, narg |-> 0]
    BY <1>2, <2>2
  <2>4. info' \in Info /\ info'.narg = 0 /\ info'.fn = name /\ info'.addr = a
    BY <2>1, <2>2, <2>3 DEF Info
  <2> QED
    BY <2>2, <2>4, <1>1
<1>5. loc' \in Locals /\ loc'.addr = a
  BY <1>2 DEF Locals
<1>6. Bracketing(stabs, search', 0, Len(stabs) - 1, a)
  BY <1>1, <1>2, SearchStarts
<1>7. Bounds(Len(stabs), search', info')
  BY <1>1, <1>3, <1>4, <1>6, BracketingBounds
<1>8. Lookup(stabs, a, search', loc', info', "SO")
  BY <1>1, <1>3, <1>4, <1>5, <1>6, <1>7 DEF Lookup
<1> QED
  BY <1>2, <1>8 DEF LookupOK

LEMMA FileFoundKeeps ==
  ASSUME LookupOK, stabs' = stabs, K!FileFound
  PROVE  LookupOK'
<1>1. /\ kpc = "SO" /\ search.l > search.r /\ eip' = eip /\ info' = info
      /\ loc' = [loc EXCEPT !.lfile = K!Found.left, !.rfile = K!Found.right]
  BY DEF K!FileFound, K!Ended
<1>2. /\ K!Linked(stabs) /\ Len(stabs) \in Nat /\ Len(stabs) > 0
      /\ search \in SearchState /\ search.type = "SO" /\ loc \in Locals /\ eip \in Nat
      /\ loc.addr = eip /\ info.fn = K!Unknown /\ info.addr = eip
      /\ Bracketing(stabs, search, 0, Len(stabs) - 1, eip)
      /\ info \in Info /\ info.narg \in 0 .. Len(stabs) /\ Bounds(Len(stabs), search, info)
  BY <1>1, Entries DEF LookupOK, Lookup, Bounds
<1>3. PICK M : M = OfType(stabs, 0, Len(stabs) - 1, "SO")
  OBVIOUS
<1>4. PICK In : In = UpTo(stabs, 0, Len(stabs) - 1, "SO", eip)
  OBVIOUS
<1>0. In = {i \in M : stabs[i + 1].value <= eip}
  BY <1>3, <1>4 DEF UpTo
<1>5. /\ 0 \in Int /\ Len(stabs) - 1 \in Int /\ eip \in Int /\ 0 \notin M
      /\ Ordered(stabs, 0, Len(stabs) - 1, search.type)
  BY <1>2, <1>3, FileRegion
<1>6. PICK left, right : left = K!Found.left /\ right = K!Found.right
  OBVIOUS
<1>7. /\ M = {} => left = 0 /\ right = -1
      /\ In # {} => left \in In /\ (\A i \in In : i <= left) /\ left <= right
      /\ M # {} /\ In = {} => left = 0
      /\ M # {} => /\ \A i \in M : i \in In <=> i <= right
                   /\ right = Len(stabs) - 1 \/ right + 1 \in M
                   /\ right \in -1 .. Len(stabs) - 1
  <2>1. PICK lo \in Int, hi \in Int : lo = 0 /\ hi = Len(stabs) - 1
    BY <1>5
  <2>2. /\ search \in SearchState /\ Ordered(stabs, lo, hi, search.type)
        /\ Bracketing(stabs, search, lo, hi, eip) /\ search.l > search.r /\ eip \in Int
        /\ M = OfType(stabs, lo, hi, search.type)
        /\ In = UpTo(stabs, lo, hi, search.type, eip)
    BY <2>1, <1>1, <1>2, <1>3, <1>4, <1>5
  <2>3. FoundIn(K!Found, lo, hi, M, In)
    BY <2>2, SearchEnds
  <2> QED
    BY <2>1, <2>3, <1>5, <1>6 DEF FoundIn
<1>8. /\ \A i \in M : i \in 1 .. Len(stabs) - 1 /\ stabs[i + 1].type = "SO"
      /\ \A i \in M : stabs[i + 1].value \in Nat
  BY <1>2, <1>3, <1>5, Entries DEF OfType
<1>9. left \in Int /\ right \in Int
  BY <1>0, <1>2, <1>4, <1>7, <1>8
<1>10. loc' \in Locals /\ loc'.addr = eip /\ loc'.lfile = left /\ loc'.rfile = right
  BY <1>1, <1>2, <1>6, <1>9 DEF Locals
<1>11. CASE left = 0
  <2>1. kpc' = "failed" /\ search' = search
    BY <1>6, <1>11 DEF K!FileFound
  <2>2. \A i \in M : stabs[i + 1].value > eip
    BY <1>0, <1>2, <1>4, <1>7, <1>8, <1>11
  <2>3. Lookup(stabs, eip, search, loc', info, "failed")
    BY <2>2, <1>2, <1>3, <1>10 DEF Lookup
  <2> QED
    BY <2>1, <2>3, <1>1 DEF LookupOK
<1>12. CASE left # 0
  <2>1. kpc' = "FUN" /\ search' = K!Search(left, right, "FUN", eip)
    BY <1>2, <1>6, <1>12 DEF K!FileFound
  <2>2. M # {} /\ In # {}
    BY <1>7, <1>12
  <2>3. left \in 1 .. right /\ right \in 1 .. Len(stabs) - 1
    BY <2>2, <1>0, <1>2, <1>7, <1>8
  <2>4. NoneIn(stabs, left, right, {"SO"})
    <3>1. ASSUME NEW k \in left + 1 .. right, stabs[k + 1].type = "SO" PROVE FALSE
      <4>1. k \in M
        BY <2>3, <3>1, <1>2, <1>3 DEF OfType
      <4> QED
        BY <4>1, <2>2, <2>3, <1>7
    <3> QED
      BY <3>1 DEF NoneIn
  <2>5. right # Len(stabs) - 1 => stabs[right + 2].type = "SO" /\ stabs[right + 2].value > eip
    <3>1. SUFFICES ASSUME right # Len(stabs) - 1
                   PROVE  stabs[right + 2].type = "SO" /\ stabs[right + 2].value > eip
      OBVIOUS
    <3>2. right + 1 \in M /\ right + 1 \notin In /\ (right + 1) + 1 = right + 2
      BY <3>1, <2>2, <2>3, <1>7
    <3> QED
      BY <3>2, <1>0, <1>2, <1>4, <1>8
  <2>6. FileIs(stabs, eip, loc')
    BY <2>2, <2>3, <2>4, <2>5, <1>0, <1>7, <1>8, <1>10 DEF FileIs
  <2>7. search' \in SearchState /\ search'.type = "FUN"
    <3>1. /\ K!Search(left, right, "FUN", eip) \in SearchState
          /\ K!Search(left, right, "FUN", eip).type = "FUN"
      BY <1>5, <1>9, SearchFresh DEF Searched
    <3> QED
      BY <2>1, <3>1
  <2>8. Bracketing(stabs, search', left, right, eip)
    <3>1. left <= right + 1
      BY <2>3
    <3> QED
      BY <2>1, <3>1, <1>5, <1>9, SearchStarts
  <2>9. Bounds(Len(stabs), search', info)
    <3>1. left \in 0 .. Len(stabs) - 1 /\ right \in left .. Len(stabs) - 1
      BY <2>3, <1>2
    <3> QED
      BY <2>7, <2>8, <3>1, <1>2, BracketingBounds
  <2>10. Lookup(stabs, eip, search', loc', info, "FUN")
    BY <2>6, <2>7, <2>8, <2>9, <1>2, <1>10 DEF Lookup
  <2> QED
    BY <2>1, <2>10, <1>1 DEF LookupOK
<1> QED
  BY <1>11, <1>12

(* What the search for a function returns.                                 *)
LEMMA FunctionSearched ==
  ASSUME LookupOK, kpc = "FUN", search.l > search.r,
         NEW M, M = OfType(stabs, loc.lfile, loc.rfile, "FUN"),
         NEW In, In = UpTo(stabs, loc.lfile, loc.rfile, "FUN", eip)
  PROVE  /\ FoundIn(K!Found, loc.lfile, loc.rfile, M, In) /\ loc.lfile \notin M
         /\ In = {i \in M : stabs[i + 1].value <= eip}
         /\ \A i \in M : /\ i \in loc.lfile .. loc.rfile /\ i \in Int /\ stabs[i + 1].type = "FUN"
                         /\ stabs[i + 1].value \in Nat /\ stabs[i + 1].name \in STRING
         /\ K!Linked(stabs) /\ FileIs(stabs, eip, loc)
         /\ Len(stabs) \in Nat /\ loc \in Locals /\ eip \in Nat /\ loc.addr = eip
         /\ loc.lfile \in 1 .. loc.rfile /\ loc.rfile \in 1 .. Len(stabs) - 1
         /\ info \in Info /\ info.narg \in 0 .. Len(stabs)
         /\ info.fn = K!Unknown /\ info.addr = eip
<1>1. /\ K!Linked(stabs) /\ FileIs(stabs, eip, loc) /\ search.type = "FUN"
      /\ search \in SearchState /\ Bracketing(stabs, search, loc.lfile, loc.rfile, eip)
      /\ loc \in Locals /\ eip \in Nat /\ loc.addr = eip
      /\ info \in Info /\ info.narg \in 0 .. Len(stabs)
      /\ info.fn = K!Unknown /\ info.addr = eip
  BY DEF LookupOK, Lookup, Bounds
<1>2. /\ Len(stabs) \in Nat
      /\ \A i \in 0 .. Len(stabs) - 1 : stabs[i + 1].value \in Nat /\ stabs[i + 1].name \in STRING
  BY <1>1, Entries
<1>3. /\ loc.lfile \in Int /\ loc.rfile \in Int
      /\ Ordered(stabs, loc.lfile, loc.rfile, search.type)
      /\ loc.lfile \notin M
  BY <1>1, FunctionRegion
<1>4. loc.lfile \in 1 .. loc.rfile /\ loc.rfile \in 1 .. Len(stabs) - 1
  BY <1>1 DEF FileIs
<1>5. In = {i \in M : stabs[i + 1].value <= eip}
  BY DEF UpTo
<1>6. FoundIn(K!Found, loc.lfile, loc.rfile, M, In)
  <2>1. PICK lo \in Int, hi \in Int : lo = loc.lfile /\ hi = loc.rfile
    BY <1>3
  <2>2. /\ search \in SearchState /\ Ordered(stabs, lo, hi, search.type)
        /\ Bracketing(stabs, search, lo, hi, eip) /\ search.l > search.r /\ eip \in Int
        /\ M = OfType(stabs, lo, hi, search.type)
        /\ In = UpTo(stabs, lo, hi, search.type, eip)
    BY <2>1, <1>1, <1>3
  <2>3. FoundIn(K!Found, lo, hi, M, In)
    BY <2>2, SearchEnds
  <2> QED
    BY <2>1, <2>3
<1>7. \A i \in M : /\ i \in loc.lfile .. loc.rfile /\ i \in Int /\ stabs[i + 1].type = "FUN"
                   /\ stabs[i + 1].value \in Nat /\ stabs[i + 1].name \in STRING
  BY <1>2, <1>3, <1>4 DEF OfType
<1> QED
  BY <1>1, <1>2, <1>3, <1>4, <1>5, <1>6, <1>7

LEMMA FunctionFoundKeeps ==
  ASSUME LookupOK, stabs' = stabs, K!FunctionFound
  PROVE  LookupOK'
<1>1. /\ kpc = "FUN" /\ search.l > search.r /\ eip' = eip /\ kpc' = "SLINE"
      /\ K!Found.left <= K!Found.right
      /\ search' = K!Search(K!Found.left, K!Found.right, "SLINE", loc'.addr)
  BY DEF K!FunctionFound, K!Ended
<1>2. PICK M, In : /\ M = OfType(stabs, loc.lfile, loc.rfile, "FUN")
                   /\ In = UpTo(stabs, loc.lfile, loc.rfile, "FUN", eip)
  OBVIOUS
<1>3. PICK left, right : left = K!Found.left /\ right = K!Found.right
  OBVIOUS
<1>4. /\ FoundIn(K!Found, loc.lfile, loc.rfile, M, In) /\ loc.lfile \notin M
      /\ In = {i \in M : stabs[i + 1].value <= eip}
      /\ \A i \in M : /\ i \in loc.lfile .. loc.rfile /\ i \in Int /\ stabs[i + 1].type = "FUN"
                      /\ stabs[i + 1].value \in Nat /\ stabs[i + 1].name \in STRING
      /\ K!Linked(stabs) /\ FileIs(stabs, eip, loc)
      /\ Len(stabs) \in Nat /\ loc \in Locals /\ eip \in Nat /\ loc.addr = eip
      /\ loc.lfile \in 1 .. loc.rfile /\ loc.rfile \in 1 .. Len(stabs) - 1
      /\ info \in Info /\ info.narg \in 0 .. Len(stabs)
  BY <1>1, <1>2, FunctionSearched
<1>5. /\ M # {} /\ left <= right /\ right \in loc.lfile - 1 .. loc.rfile
      /\ \A i \in M : i \in In <=> i <= right
      /\ right = loc.rfile \/ right + 1 \in M
      /\ In # {} => left \in In /\ \A i \in In : i <= left
      /\ In = {} => left = loc.lfile
  <2>1. /\ M = {} => left = loc.lfile /\ right = loc.lfile - 1
        /\ In # {} => left \in In /\ \A i \in In : i <= left
        /\ M # {} /\ In = {} => left = loc.lfile
        /\ M # {} => /\ \A i \in M : i \in In <=> i <= right
                     /\ right = loc.rfile \/ right + 1 \in M
                     /\ right \in loc.lfile - 1 .. loc.rfile
    BY <1>3, <1>4 DEF FoundIn
  <2>2. loc.lfile \in Int /\ left <= right
    BY <1>1, <1>3, <1>4 DEF Locals
  <2>3. M # {}
    BY <2>1, <2>2
  <2> QED
    BY <2>1, <2>2, <2>3
<1>6. /\ loc.lfile \in Int /\ loc.rfile \in Int /\ right \in Int
      /\ left \in loc.lfile .. right /\ right \in left .. loc.rfile
  BY <1>4, <1>5
<1>7. /\ stabs[left + 1].value \in Nat /\ stabs[left + 1].name \in STRING
      /\ left \in 0 .. Len(stabs) - 1 /\ right \in left .. Len(stabs) - 1
  BY <1>4, <1>6, Entries
<1>8. /\ loc' = [loc EXCEPT !.lfun = left, !.rfun = right,
                            !.addr = loc.addr - stabs[left + 1].value]
      /\ info' = [info EXCEPT !.fn = stabs[left + 1].name, !.addr = stabs[left + 1].value]
  BY <1>3 DEF K!FunctionFound, K!At
<1>9. /\ loc' \in Locals /\ loc'.lfun = left /\ loc'.rfun = right
      /\ loc'.lfile = loc.lfile /\ loc'.rfile = loc.rfile
      /\ loc'.addr = eip - stabs[left + 1].value
  <2>1. PICK v \in Nat : v = stabs[left + 1].value
    BY <1>7
  <2>2. loc' = [loc EXCEPT !.lfun = left, !.rfun = right, !.addr = eip - v]
    BY <2>1, <1>4, <1>8
  <2>3. left \in Int /\ right \in Int /\ eip - v \in Int /\ loc \in Locals
    BY <1>4, <1>6
  <2>4. /\ loc' \in Locals /\ loc'.lfun = left /\ loc'.rfun = right
        /\ loc'.lfile = loc.lfile /\ loc'.rfile = loc.rfile /\ loc'.addr = eip - v
    BY <2>2, <2>3 DEF Locals
  <2> QED
    BY <2>1, <2>4
<1>10. /\ info' \in Info /\ info'.narg = info.narg
       /\ info'.fn = stabs[left + 1].name /\ info'.addr = stabs[left + 1].value
  BY <1>4, <1>7, <1>8 DEF Info, FileNames
<1>11. FileIs(stabs, eip, loc')
  BY <1>4, <1>9 DEF FileIs
<1>12. NoneIn(stabs, left, right, {"FUN"})
  <2>1. ASSUME NEW k \in left + 1 .. right, stabs[k + 1].type = "FUN" PROVE FALSE
    <3>1. k \in M
      BY <2>1, <1>2, <1>6 DEF OfType
    <3>2. k \in In
      BY <3>1, <1>5, <1>6
    <3> QED
      BY <3>2, <1>5, <1>6
  <2> QED
    BY <2>1 DEF NoneIn
<1>13. right # loc.rfile =>
         stabs[right + 2].type = "FUN" /\ stabs[right + 2].value > eip
  <2>1. SUFFICES ASSUME right # loc.rfile
                 PROVE  stabs[right + 2].type = "FUN" /\ stabs[right + 2].value > eip
    OBVIOUS
  <2>2. right + 1 \in M /\ right + 1 \notin In /\ (right + 1) + 1 = right + 2
    BY <2>1, <1>5, <1>6
  <2> QED
    BY <2>2, <1>4
<1>14. FunctionIs(stabs, eip, loc', info')
  <2>1. CASE In # {}
    <3>1. /\ left \in loc.lfile + 1 .. right /\ right \in loc.lfile + 1 .. loc.rfile
          /\ stabs[left + 1].type = "FUN" /\ stabs[left + 1].value <= eip
      <4>1. left \in In /\ left \in M /\ left # loc.lfile
        BY <2>1, <1>4, <1>5
      <4> QED
        BY <4>1, <1>4, <1>6
    <3> QED
      BY <3>1, <1>9, <1>10, <1>12, <1>13 DEF FunctionIs, InFunction
  <2>2. CASE In = {}
    <3>1. right # loc.rfile /\ left = loc.lfile
      BY <2>2, <1>4, <1>5, <1>6
    <3>2. right \in loc.lfile .. loc.rfile - 1
      BY <3>1, <1>6
    <3> QED
      BY <3>1, <3>2, <1>9, <1>12, <1>13 DEF FunctionIs, BeforeFunctions, Locals
  <2> QED
    BY <2>1, <2>2
<1>15. LineLo(loc') = left /\ LineHi(loc') = right
  BY <1>5, <1>9 DEF LineLo, LineHi
<1>16. PICK A \in Int : A = loc'.addr
  BY <1>9 DEF Locals
<1>17. left \in Int /\ left <= right + 1
  BY <1>6
<1>18. search' \in SearchState /\ search'.type = "SLINE"
  <2>1. /\ K!Search(left, right, "SLINE", A) \in SearchState
        /\ K!Search(left, right, "SLINE", A).type = "SLINE"
    BY <1>6, <1>17, SearchFresh DEF Searched
  <2> QED
    BY <2>1, <1>1, <1>3, <1>16
<1>19. Bracketing(stabs, search', left, right, A)
  BY <1>1, <1>3, <1>6, <1>16, <1>17, SearchStarts
<1>20. Bounds(Len(stabs), search', info')
  BY <1>4, <1>7, <1>10, <1>18, <1>19, BracketingBounds
<1>21. Lookup(stabs, eip, search', loc', info', "SLINE")
  BY <1>4, <1>9, <1>11, <1>14, <1>15, <1>16, <1>18, <1>19, <1>20 DEF Lookup
<1> QED
  BY <1>1, <1>21 DEF LookupOK

LEMMA NoFunctionKeeps ==
  ASSUME LookupOK, stabs' = stabs, K!NoFunction
  PROVE  LookupOK'
<1>1. /\ kpc = "FUN" /\ search.l > search.r /\ eip' = eip /\ info' = info /\ kpc' = "SLINE"
      /\ K!Found.left > K!Found.right
      /\ search' = K!Search(loc.lfile, loc.rfile, "SLINE", loc.addr)
      /\ loc' = [loc EXCEPT !.lfun = K!Found.left, !.rfun = K!Found.right]
  BY DEF K!NoFunction, K!Ended
<1>2. PICK M, In : /\ M = OfType(stabs, loc.lfile, loc.rfile, "FUN")
                   /\ In = UpTo(stabs, loc.lfile, loc.rfile, "FUN", eip)
  OBVIOUS
<1>3. PICK left, right : left = K!Found.left /\ right = K!Found.right
  OBVIOUS
<1>4. /\ FoundIn(K!Found, loc.lfile, loc.rfile, M, In) /\ loc.lfile \notin M
      /\ In = {i \in M : stabs[i + 1].value <= eip}
      /\ \A i \in M : i \in Int
      /\ K!Linked(stabs) /\ FileIs(stabs, eip, loc)
      /\ Len(stabs) \in Nat /\ loc \in Locals /\ eip \in Nat /\ loc.addr = eip
      /\ loc.lfile \in 1 .. loc.rfile /\ loc.rfile \in 1 .. Len(stabs) - 1
      /\ info \in Info /\ info.narg \in 0 .. Len(stabs)
      /\ info.fn = K!Unknown /\ info.addr = eip
  BY <1>1, <1>2, FunctionSearched
<1>5. loc.lfile \in Int /\ loc.rfile \in Int
  BY <1>4 DEF Locals
<1>6. M = {} /\ left = loc.lfile /\ right = loc.lfile - 1
  <2>1. /\ M = {} => left = loc.lfile /\ right = loc.lfile - 1
        /\ In # {} => left \in In /\ left <= right
        /\ M # {} /\ In = {} => left = loc.lfile /\ loc.lfile <= right
        /\ M # {} => right \in loc.lfile - 1 .. loc.rfile
    BY <1>3, <1>4 DEF FoundIn
  <2>2. left > right
    BY <1>1, <1>3
  <2>3. M # {} => right \in Int /\ left \in Int
    BY <2>1, <1>4, <1>5
  <2> QED
    BY <2>1, <2>2, <2>3, <1>5
<1>7. /\ loc' \in Locals /\ loc'.lfun = loc.lfile /\ loc'.rfun = loc.lfile - 1
      /\ loc'.lfile = loc.lfile /\ loc'.rfile = loc.rfile /\ loc'.addr = eip
  <2>1. loc' = [loc EXCEPT !.lfun = left, !.rfun = right]
    BY <1>1, <1>3
  <2>2. left \in Int /\ right \in Int
    BY <1>5, <1>6
  <2> QED
    BY <2>1, <2>2, <1>4, <1>6 DEF Locals
<1>8. FileIs(stabs, eip, loc')
  BY <1>4, <1>7 DEF FileIs
<1>9. NoneIn(stabs, loc.lfile, loc.rfile, {"FUN"})
  <2>1. ASSUME NEW k \in loc.lfile + 1 .. loc.rfile, stabs[k + 1].type = "FUN" PROVE FALSE
    <3>1. k \in M
      BY <2>1, <1>2, <1>5 DEF OfType
    <3> QED
      BY <3>1, <1>6
  <2> QED
    BY <2>1 DEF NoneIn
<1>10. FunctionIs(stabs, eip, loc', info)
  BY <1>4, <1>7, <1>9 DEF FunctionIs, NoFunctions
<1>11. LineLo(loc') = loc.lfile /\ LineHi(loc') = loc.rfile
  BY <1>5, <1>7 DEF LineLo, LineHi
<1>12. PICK lo \in Int, hi \in Int, A \in Int : lo = loc.lfile /\ hi = loc.rfile /\ A = eip
  BY <1>4, <1>5
<1>13. /\ search' = K!Search(lo, hi, "SLINE", A) /\ lo <= hi + 1
       /\ lo \in 0 .. Len(stabs) - 1 /\ hi \in lo .. Len(stabs) - 1
  BY <1>1, <1>4, <1>12
<1>14. search' \in SearchState /\ search'.type = "SLINE"
  <2>1. /\ K!Search(lo, hi, "SLINE", A) \in SearchState
        /\ K!Search(lo, hi, "SLINE", A).type = "SLINE"
    BY SearchFresh DEF Searched
  <2> QED
    BY <2>1, <1>13
<1>15. Bracketing(stabs, search', lo, hi, A)
  BY <1>13, SearchStarts
<1>16. Bounds(Len(stabs), search', info)
  BY <1>4, <1>13, <1>14, <1>15, BracketingBounds
<1>17. Lookup(stabs, eip, search', loc', info, "SLINE")
  BY <1>4, <1>7, <1>8, <1>10, <1>11, <1>12, <1>14, <1>15, <1>16 DEF Lookup
<1> QED
  BY <1>1, <1>17 DEF LookupOK

(* What the search for a line returns.                                     *)
LEMMA LineSearched ==
  ASSUME LookupOK, kpc = "SLINE", search.l > search.r,
         NEW M, M = OfType(stabs, LineLo(loc), LineHi(loc), "SLINE"),
         NEW In, In = LinesUpTo(stabs, loc)
  PROVE  /\ FoundIn(K!Found, LineLo(loc), LineHi(loc), M, In) /\ LineLo(loc) \notin M
         /\ In = {i \in M : stabs[i + 1].value <= loc.addr}
         /\ \A i \in M : i \in LineLo(loc) .. LineHi(loc) /\ i \in Int
         /\ K!Linked(stabs) /\ FileIs(stabs, eip, loc) /\ FunctionIs(stabs, eip, loc, info)
         /\ Len(stabs) \in Nat /\ loc \in Locals /\ eip \in Nat
         /\ LineLo(loc) \in 1 .. LineHi(loc) /\ LineHi(loc) \in 1 .. Len(stabs) - 1
         /\ loc.lfile <= LineLo(loc) /\ LineHi(loc) <= loc.rfile
         /\ Bounds(Len(stabs), search, info)
<1>1. /\ K!Linked(stabs) /\ FileIs(stabs, eip, loc) /\ search.type = "SLINE"
      /\ FunctionIs(stabs, eip, loc, info) /\ Bounds(Len(stabs), search, info)
      /\ search \in SearchState
      /\ Bracketing(stabs, search, LineLo(loc), LineHi(loc), loc.addr)
      /\ loc \in Locals /\ eip \in Nat
  BY DEF LookupOK, Lookup, Bounds
<1>2. Len(stabs) \in Nat
  BY <1>1, Entries
<1>3. /\ LineLo(loc) \in 1 .. LineHi(loc) /\ LineHi(loc) \in 1 .. Len(stabs) - 1
      /\ loc.lfile <= LineLo(loc) /\ LineHi(loc) <= loc.rfile
      /\ Ordered(stabs, LineLo(loc), LineHi(loc), search.type)
      /\ LineLo(loc) \notin M
  BY <1>1, LineRegion
<1>4. In = {i \in M : stabs[i + 1].value <= loc.addr}
  BY DEF UpTo, LinesUpTo
<1>5. FoundIn(K!Found, LineLo(loc), LineHi(loc), M, In)
  <2>1. PICK lo \in Int, hi \in Int, A \in Int :
          lo = LineLo(loc) /\ hi = LineHi(loc) /\ A = loc.addr
    BY <1>1, <1>2, <1>3 DEF Locals
  <2>2. /\ search \in SearchState /\ Ordered(stabs, lo, hi, search.type)
        /\ Bracketing(stabs, search, lo, hi, A) /\ search.l > search.r
        /\ M = OfType(stabs, lo, hi, search.type)
        /\ In = UpTo(stabs, lo, hi, search.type, A)
    BY <2>1, <1>1, <1>3 DEF LinesUpTo
  <2>3. FoundIn(K!Found, lo, hi, M, In)
    BY <2>2, SearchEnds
  <2> QED
    BY <2>1, <2>3
<1>6. \A i \in M : i \in LineLo(loc) .. LineHi(loc) /\ i \in Int
  BY <1>2, <1>3 DEF OfType
<1> QED
  BY <1>1, <1>2, <1>3, <1>4, <1>5, <1>6

LEMMA NoLineKeeps ==
  ASSUME LookupOK, stabs' = stabs, K!NoLine
  PROVE  LookupOK'
<1>1. /\ kpc = "SLINE" /\ search.l > search.r /\ K!Found.left > K!Found.right
      /\ eip' = eip /\ info' = info /\ loc' = loc /\ search' = search /\ kpc' = "failed"
  BY DEF K!NoLine, K!Ended
<1>2. PICK M, In : /\ M = OfType(stabs, LineLo(loc), LineHi(loc), "SLINE")
                   /\ In = LinesUpTo(stabs, loc)
  OBVIOUS
<1>3. PICK left, right : left = K!Found.left /\ right = K!Found.right
  OBVIOUS
<1>4. /\ FoundIn(K!Found, LineLo(loc), LineHi(loc), M, In) /\ LineLo(loc) \notin M
      /\ In = {i \in M : stabs[i + 1].value <= loc.addr}
      /\ \A i \in M : i \in LineLo(loc) .. LineHi(loc) /\ i \in Int
      /\ K!Linked(stabs) /\ FileIs(stabs, eip, loc) /\ FunctionIs(stabs, eip, loc, info)
      /\ loc \in Locals /\ eip \in Nat /\ Bounds(Len(stabs), search, info)
      /\ LineLo(loc) \in 1 .. LineHi(loc) /\ LineHi(loc) \in 1 .. Len(stabs) - 1
      /\ Len(stabs) \in Nat
  BY <1>1, <1>2, LineSearched
<1>5. M = {}
  <2>1. /\ In # {} => left \in In /\ left <= right
        /\ M # {} /\ In = {} => left = LineLo(loc) /\ LineLo(loc) <= right
        /\ M # {} => right \in LineLo(loc) - 1 .. LineHi(loc)
    BY <1>3, <1>4 DEF FoundIn
  <2>2. left > right
    BY <1>1, <1>3
  <2>3. M # {} => right \in Int /\ left \in Int
    BY <2>1, <1>4
  <2> QED
    BY <2>1, <2>2, <2>3, <1>4
<1>6. Lookup(stabs, eip, search, loc, info, "failed")
  BY <1>2, <1>4, <1>5 DEF Lookup
<1> QED
  BY <1>1, <1>6 DEF LookupOK

(* The caller has the answer.                                              *)
LEMMA AnswerKeeps ==
  ASSUME LookupOK, UNCHANGED <<stabs, eip, search, loc, info>>, kpc' = "idle"
  PROVE  LookupOK'
<1>1. Lookup(stabs, eip, search, loc, info, "idle")
  BY DEF LookupOK, Lookup
<1> QED
  BY <1>1 DEF LookupOK

LEMMA SameCardinality ==
  ASSUME NEW S
  PROVE  K!Cardinality(S) = Cardinality(S)
BY DEF K!Cardinality, Cardinality

LEMMA ParametersFinite ==
  ASSUME NEW t, NEW lc \in Locals, NEW n \in Nat, lc.lfun \in 0 .. n, lc.rfun \in -1 .. n
  PROVE  Cardinality(Parameters(t, lc)) \in 0 .. n
<1>1. PICK a \in Int, b \in Int : a = lc.lfun + 1 /\ b = lc.rfun - 1
  BY DEF Locals
<1>2. IsFiniteSet(a .. b) /\ Cardinality(a .. b) = IF a > b THEN 0 ELSE b - a + 1
  BY FS_Interval
<1>3. Parameters(t, lc) \in SUBSET (a .. b)
  BY <1>1 DEF Parameters
<1>4. IsFiniteSet(Parameters(t, lc)) /\ Cardinality(Parameters(t, lc)) <= Cardinality(a .. b)
  BY <1>2, <1>3, FS_Subset
<1>5. Cardinality(Parameters(t, lc)) \in Nat
  BY <1>4, FS_CardinalityType
<1>6. Cardinality(a .. b) \in 0 .. n
  BY <1>1, <1>2
<1> QED
  BY <1>4, <1>5, <1>6

LEMMA LineFoundKeeps ==
  ASSUME LookupOK, stabs' = stabs, K!LineFound
  PROVE  LookupOK'
<1>1. /\ kpc = "SLINE" /\ search.l > search.r /\ K!Found.left <= K!Found.right
      /\ eip' = eip /\ loc' = loc /\ search' = search /\ kpc' = "done"
  BY DEF K!LineFound, K!Ended
<1>2. PICK M, In : /\ M = OfType(stabs, LineLo(loc), LineHi(loc), "SLINE")
                   /\ In = LinesUpTo(stabs, loc)
  OBVIOUS
<1>3. PICK left, right : left = K!Found.left /\ right = K!Found.right
  OBVIOUS
<1>4. /\ FoundIn(K!Found, LineLo(loc), LineHi(loc), M, In) /\ LineLo(loc) \notin M
      /\ In = {i \in M : stabs[i + 1].value <= loc.addr}
      /\ \A i \in M : i \in LineLo(loc) .. LineHi(loc) /\ i \in Int
      /\ K!Linked(stabs) /\ FileIs(stabs, eip, loc) /\ FunctionIs(stabs, eip, loc, info)
      /\ loc \in Locals /\ eip \in Nat /\ Bounds(Len(stabs), search, info)
      /\ LineLo(loc) \in 1 .. LineHi(loc) /\ LineHi(loc) \in 1 .. Len(stabs) - 1
      /\ loc.lfile <= LineLo(loc) /\ LineHi(loc) <= loc.rfile
      /\ Len(stabs) \in Nat
  BY <1>1, <1>2, LineSearched
<1>5. /\ In # {} => left \in In /\ \A i \in In : i <= left
      /\ left \in LineLo(loc) .. LineHi(loc)
  <2>1. /\ M = {} => left = LineLo(loc) /\ right = LineLo(loc) - 1
        /\ In # {} => left \in In /\ (\A i \in In : i <= left)
        /\ M # {} /\ In = {} => left = LineLo(loc)
    BY <1>3, <1>4 DEF FoundIn
  <2>2. left <= right
    BY <1>1, <1>3
  <2>3. M # {}
    BY <2>1, <2>2, <1>4
  <2>4. In # {} => left \in M
    BY <2>1, <1>4
  <2> QED
    BY <2>1, <2>3, <2>4, <1>4
<1>6. /\ loc.lfile \in Int /\ loc.lfile >= 1 /\ left \in Int /\ left \in loc.lfile .. left
      /\ loc.lfile \in loc.lfile .. left
      /\ loc.lfile .. left \in SUBSET (0 .. Len(stabs) - 1)
  BY <1>4, <1>5 DEF Locals, FileIs
<1>7. \A i \in 0 .. Len(stabs) - 1 :
        /\ stabs[i + 1].value \in Nat /\ stabs[i + 1].desc \in Nat
        /\ stabs[i + 1].name \in STRING
  BY <1>4, Entries
<1>8. PICK F : F = {i \in loc.lfile .. left : NamesFile(stabs, i)}
  OBVIOUS
<1>9. F = K!Files(left)
  BY <1>8 DEF K!Files, K!Names, K!At, NamesFile
<1>10. F # {} /\ F \in SUBSET (loc.lfile .. left)
  <2>1. NamesFile(stabs, loc.lfile)
    <3>1. stabs[loc.lfile + 1].type = "SO"
      BY <1>4 DEF FileIs
    <3>2. loc.lfile + 1 \in DOMAIN stabs
      BY <1>4, <1>6, Entries
    <3>3. stabs[loc.lfile + 1].value > 0
      BY <1>4, <3>1, <3>2 DEF K!Linked
    <3> QED
      BY <3>1, <3>3 DEF NamesFile
  <2> QED
    BY <2>1, <1>6, <1>8
<1>11. PICK f \in F : f = K!Highest(F) /\ \A j \in F : j <= f
  BY <1>6, <1>10, HighestIs
<1>12. /\ f \in loc.lfile .. left /\ NamesFile(stabs, f)
       /\ \A i \in f + 1 .. left : ~NamesFile(stabs, i)
  <2>1. f \in loc.lfile .. left /\ NamesFile(stabs, f)
    BY <1>8
  <2>2. ASSUME NEW i \in f + 1 .. left, NamesFile(stabs, i) PROVE FALSE
    <3>1. i \in F
      BY <2>1, <2>2, <1>6, <1>8
    <3> QED
      BY <3>1, <2>1, <1>6, <1>11
  <2> QED
    BY <2>1, <2>2
<1>13. PICK n : n = Cardinality(Parameters(stabs, loc))
  OBVIOUS
<1>14. info' = [info EXCEPT !.line = stabs[left + 1].desc, !.file = stabs[f + 1].name, !.narg = n]
  <2>1. n = K!Cardinality(K!Params)
    BY <1>13, SameCardinality DEF K!Params, Parameters, K!At
  <2>2. K!Files(K!Found.left) # {} /\ K!Highest(K!Files(K!Found.left)) = f
    BY <1>3, <1>9, <1>10, <1>11
  <2>3. info' = [info EXCEPT
          !.line = K!At(K!Found.left).desc,
          !.file = IF K!Files(K!Found.left) = {} THEN info.file
                   ELSE K!At(K!Highest(K!Files(K!Found.left))).name,
          !.narg = K!Cardinality(K!Params)]
    BY Zenon DEF K!LineFound
  <2>4. PICK d, name : d = stabs[left + 1].desc /\ name = stabs[f + 1].name
    OBVIOUS
  <2>5. K!At(K!Found.left).desc = d /\ K!At(f).name = name
    BY <2>4, <1>3 DEF K!At
  <2>6. info' = [info EXCEPT !.line = d, !.file = name, !.narg = n]
    BY <2>1, <2>2, <2>3, <2>5, Zenon
  <2> QED
    BY <2>4, <2>6
<1>15. n \in 0 .. Len(stabs)
  <2>1. loc.lfun \in 0 .. Len(stabs) /\ loc.rfun \in -1 .. Len(stabs)
    <3>1. CASE InFunction(stabs, eip, loc, info)
      BY <3>1, <1>4, <1>6 DEF InFunction, Locals, FileIs
    <3>2. CASE NoFunctions(stabs, eip, loc, info)
      BY <3>2, <1>4, <1>6 DEF NoFunctions, Locals, FileIs
    <3>3. CASE BeforeFunctions(stabs, eip, loc)
      BY <3>3, <1>4, <1>6 DEF BeforeFunctions, Locals, FileIs
    <3> QED
      BY <3>1, <3>2, <3>3, <1>4 DEF FunctionIs
  <2> QED
    BY <2>1, <1>4, <1>13, ParametersFinite
<1>16. /\ stabs[left + 1].desc \in Nat /\ stabs[f + 1].name \in FileNames /\ info \in Info
  <2>1. left \in 0 .. Len(stabs) - 1 /\ f \in 0 .. Len(stabs) - 1
    BY <1>6, <1>12
  <2> QED
    BY <2>1, <1>4, <1>7 DEF FileNames, Bounds
<1>17. /\ info' \in Info /\ info'.narg = n /\ info'.fn = info.fn /\ info'.addr = info.addr
       /\ info'.line = stabs[left + 1].desc /\ info'.file = stabs[f + 1].name
  <2>1. PICK d \in Nat, name \in FileNames : d = stabs[left + 1].desc /\ name = stabs[f + 1].name
    BY <1>16
  <2>2. info' = [info EXCEPT !.line = d, !.file = name, !.narg = n]
    BY <2>1, <1>14
  <2>3. n \in Nat
    BY <1>15
  <2>4. /\ info' \in Info /\ info'.narg = n /\ info'.fn = info.fn /\ info'.addr = info.addr
        /\ info'.line = d /\ info'.file = name
    BY <2>2, <2>3, <1>16 DEF Info
  <2> QED
    BY <2>1, <2>4
<1>18. FunctionIs(stabs, eip, loc, info')
  BY <1>4, <1>17 DEF FunctionIs, InFunction, NoFunctions
<1>19. LineIs(stabs, loc, info')
  BY <1>2, <1>5, <1>12, <1>13, <1>17 DEF LineIs
<1>20. Bounds(Len(stabs), search, info')
  BY <1>4, <1>15, <1>17 DEF Bounds
<1>21. Lookup(stabs, eip, search, loc, info', "done")
  BY <1>4, <1>18, <1>19, <1>20 DEF Lookup
<1> QED
  BY <1>1, <1>21 DEF LookupOK

LEMMA LookupKeeps ==
  ASSUME LookupOK, stabs' = stabs, K!Next
  PROVE  LookupOK'
BY LoopKeeps, FileFoundKeeps, FunctionFoundKeeps, NoFunctionKeeps, LineFoundKeeps, NoLineKeeps
   DEF K!Next

-----------------------------------------------------------------------------
(* What follows for the promise of stab_binsearch.                         *)
LEMMA HighestOf ==
  ASSUME NEW lo \in Int, NEW hi \in Int, NEW S \in SUBSET (lo .. hi), NEW x \in S,
         \A i \in S : i <= x
  PROVE  K!Highest(S) = x
<1>1. K!Highest(S) \in S /\ \A j \in S : j <= K!Highest(S)
  BY HighestIs
<1>2. PICK h \in S : h = K!Highest(S) /\ \A j \in S : j <= h
  BY <1>1
<1>3. h <= x /\ x <= h /\ h \in Int /\ x \in Int
  BY <1>2
<1> QED
  BY <1>2, <1>3

LEMMA FoundBrackets ==
  ASSUME NEW lo \in Int, NEW hi \in Int, NEW A \in Int, NEW type, NEW f,
         Ordered(stabs, lo, hi, type),
         NEW M, M = OfType(stabs, lo, hi, type),
         NEW In, In = UpTo(stabs, lo, hi, type, A),
         FoundIn(f, lo, hi, M, In)
  PROVE  K!Brackets(f, lo, hi, type, A)
<1>1. \A i \in M : i \in lo .. hi /\ i \in Int /\ stabs[i + 1].value \in Int
  BY DEF Ordered, OfType
<1>2. In = {i \in M : stabs[i + 1].value <= A}
  BY DEF UpTo
<1>3. PICK B : B = {i \in lo .. hi : K!At(i).type = type /\ K!At(i).value > A}
  OBVIOUS
<1>4. \A i : i \in B <=> i \in M /\ i \notin In
  BY <1>1, <1>2, <1>3 DEF OfType, K!At
<1>5. In = K!Containing(lo, hi, type, A)
  BY <1>1, <1>2 DEF K!Containing, OfType, K!At
<1>6. SUFFICES ASSUME In # {}
               PROVE  /\ f.left = K!Highest(In)
                      /\ f.right = IF B = {} THEN hi ELSE -K!Highest({-i : i \in B}) - 1
  BY <1>3, <1>5 DEF K!Brackets
<1>7. In \in SUBSET (lo .. hi) /\ B \in SUBSET (lo .. hi) /\ M # {}
  BY <1>1, <1>2, <1>4, <1>6
<1>8. f.left = K!Highest(In)
  <2>1. f.left \in In /\ \A i \in In : i <= f.left
    BY <1>6 DEF FoundIn
  <2> QED
    BY <2>1, <1>7, HighestOf
<1>9. PICK right \in lo - 1 .. hi : /\ right = f.right
                                    /\ \A i \in M : i \in In <=> i <= right
                                    /\ right = hi \/ right + 1 \in M
  BY <1>7 DEF FoundIn
<1>10. CASE B = {}
  <2>1. right + 1 \notin M
    BY <1>4, <1>9, <1>10
  <2> QED
    BY <2>1, <1>8, <1>9, <1>10
<1>11. CASE B # {}
  <2>1. /\ -K!Highest({-i : i \in B}) \in B
        /\ \A j \in B : -K!Highest({-i : i \in B}) <= j
    BY <1>7, <1>11, LowestIs
  <2>2. PICK low \in B : low = -K!Highest({-i : i \in B}) /\ \A j \in B : low <= j
    BY <2>1
  <2>3. low > right /\ low <= hi /\ low \in Int
    BY <1>1, <1>4, <1>9
  <2>4. right + 1 \in B
    BY <2>3, <1>4, <1>9
  <2>5. right = low - 1
    BY <2>2, <2>3, <2>4, <1>9
  <2> QED
    BY <2>2, <2>5, <1>8, <1>9, <1>11
<1> QED
  BY <1>10, <1>11

LEMMA LookupBrackets == LookupOK => K!SearchesBracket
<1> SUFFICES ASSUME LookupOK PROVE K!SearchesBracket
  OBVIOUS
<1>1. /\ K!Linked(stabs) /\ search \in SearchState /\ loc \in Locals /\ eip \in Int
      /\ loc.addr \in Int /\ Len(stabs) \in Nat
      /\ kpc \in {"SO", "FUN", "SLINE"} => search.type = kpc
  BY Entries DEF LookupOK, Lookup, Bounds, Locals
<1>2. ASSUME K!Ended("SO") PROVE K!Brackets(K!Found, 0, K!Size - 1, "SO", loc.addr)
  <2>1. kpc = "SO" /\ search.l > search.r
    BY <1>2 DEF K!Ended
  <2>2. /\ Bracketing(stabs, search, 0, Len(stabs) - 1, eip) /\ loc.addr = eip
        /\ Ordered(stabs, 0, Len(stabs) - 1, "SO")
    BY <2>1, <1>1, FileRegion DEF LookupOK, Lookup
  <2>3. PICK lo \in Int, hi \in Int : lo = 0 /\ hi = Len(stabs) - 1
    BY <1>1
  <2>4. FoundIn(K!Found, lo, hi, OfType(stabs, lo, hi, "SO"), UpTo(stabs, lo, hi, "SO", eip))
    BY <2>1, <2>2, <2>3, <1>1, SearchEnds
  <2>5. K!Brackets(K!Found, lo, hi, "SO", eip)
    BY <2>2, <2>3, <2>4, <1>1, FoundBrackets
  <2> QED
    BY <2>2, <2>3, <2>5 DEF K!Size
<1>3. ASSUME K!Ended("FUN")
      PROVE  K!Brackets(K!Found, loc.lfile, loc.rfile, "FUN", loc.addr)
  <2>1. kpc = "FUN" /\ search.l > search.r
    BY <1>3 DEF K!Ended
  <2>2. loc.addr = eip /\ FileIs(stabs, eip, loc)
    BY <2>1 DEF LookupOK, Lookup
  <2>3. /\ loc.lfile \in Int /\ loc.rfile \in Int
        /\ Ordered(stabs, loc.lfile, loc.rfile, "FUN")
    BY <2>2, <1>1, FunctionRegion
  <2>4. FoundIn(K!Found, loc.lfile, loc.rfile, OfType(stabs, loc.lfile, loc.rfile, "FUN"),
                UpTo(stabs, loc.lfile, loc.rfile, "FUN", eip))
    BY <2>1, FunctionSearched
  <2> QED
    BY <2>2, <2>3, <2>4, <1>1, FoundBrackets
<1>4. ASSUME K!Ended("SLINE")
      PROVE  K!Brackets(K!Found, LineLo(loc), LineHi(loc), "SLINE", loc.addr)
  <2>1. kpc = "SLINE" /\ search.l > search.r
    BY <1>4 DEF K!Ended
  <2>2. FileIs(stabs, eip, loc) /\ FunctionIs(stabs, eip, loc, info)
    BY <2>1 DEF LookupOK, Lookup
  <2>3. /\ LineLo(loc) \in Int /\ LineHi(loc) \in Int
        /\ Ordered(stabs, LineLo(loc), LineHi(loc), "SLINE")
    BY <2>2, <1>1, LineRegion
  <2>4. FoundIn(K!Found, LineLo(loc), LineHi(loc),
                OfType(stabs, LineLo(loc), LineHi(loc), "SLINE"), LinesUpTo(stabs, loc))
    BY <2>1, LineSearched
  <2> QED
    BY <2>3, <2>4, <1>1, FoundBrackets DEF LinesUpTo
<1>5. ASSUME K!Ended("SLINE")
      PROVE  IF loc.lfun <= loc.rfun
             THEN K!Brackets(K!Found, loc.lfun, loc.rfun, "SLINE", loc.addr)
             ELSE K!Brackets(K!Found, loc.lfile, loc.rfile, "SLINE", loc.addr)
  <2>1. CASE loc.lfun <= loc.rfun
    BY <2>1, <1>4, <1>5 DEF LineLo, LineHi
  <2>2. CASE ~(loc.lfun <= loc.rfun)
    BY <2>2, <1>4, <1>5 DEF LineLo, LineHi
  <2> QED
    BY <2>1, <2>2
<1> QED
  BY <1>2, <1>3, <1>5 DEF K!SearchesBracket

LEMMA LookupTyped == LookupOK => K!TypeOK
BY DEF LookupOK, Lookup, Bounds, K!TypeOK, K!Size

-----------------------------------------------------------------------------
(* The monitor around it.  A frame is on the stack because one of Callers  *)
(* put it there, so its return address is in the kernel; the frames of     *)
(* test_backtrace and mon_time count down in their argument.               *)
FrameFunctions ==
  {"i386_init", "test_backtrace", "mem_init", "_panic", "monitor", "mon_time", "mon_backtrace"}

CountDown == {"test_backtrace", "mon_time"}

IsFrame(f) ==
  /\ f.fn \in FrameFunctions /\ f.ret \in Nat /\ f.ret >= ULIM
  /\ f.fn \in CountDown => f.arg \in Int

Frames == {f \in [fn : FrameFunctions, arg : Int \cup {NULL}, ret : Nat] : IsFrame(f)}

Chain(s) ==
  /\ s \in Seq(Frames) /\ s # <<>> /\ s[Len(s)].fn = "i386_init"
  /\ \A i \in 1 .. Len(s) - 1 : <<s[i + 1].fn, s[i].fn>> \in Callers

(* The function at work, whose frame is the innermost.                     *)
AtWork(p, fn) ==
  /\ p \in {"i386_init", "test_backtrace", "_panic", "monitor", "readline", "runcmd",
            "mon_time", "mon_backtrace", "walk", "return", "reset", "astray"}
  /\ p \in {"i386_init", "test_backtrace", "_panic", "monitor", "mon_time", "mon_backtrace"}
       => fn = p
  /\ p \in {"readline", "runcmd"} => fn = "monitor"
  /\ p = "walk" => fn = "mon_backtrace"
  /\ p = "return" => fn \in {"mon_time", "test_backtrace", "monitor", "i386_init"}

(* runcmd has a null character before it.                                  *)
LineOK ==
  /\ buf \in Seq(STRING \cup {NUL}) /\ Len(buf) = BufLen
  /\ pos \in 1 .. BufLen /\ argv \in Seq(1 .. BufLen) /\ Len(argv) < MAXARGS
  /\ pc = "runcmd" => \E k \in pos .. BufLen : buf[k] = NUL

(* Lookups are made by backtrace alone, one for each frame.                *)
WalkOK ==
  IF pc = "walk"
  THEN walk \in 1 .. Len(stack) + 1 /\ (kpc # "idle" => walk <= Len(stack))
  ELSE walk = 0 /\ kpc = "idle"

KernelOK ==
  /\ \A i \in DOMAIN kernel.session :
       kernel.session[i] \in Seq(STRING \ {NUL}) /\ Len(kernel.session[i]) < BufLen
  /\ kernel.session \in Seq(Seq(STRING \ {NUL})) /\ typed \in Nat
  /\ \A c \in Callers : kernel.site[c] \in Nat /\ kernel.site[c] >= ULIM
  /\ cr3 \in {"entry", "kern"} /\ panicstr \in BOOLEAN

MonitorOK ==
  /\ KernelOK /\ Chain(stack) /\ AtWork(pc, Head(stack).fn)
  /\ LineOK /\ WalkOK /\ LookupOK

LEMMA ChainTop ==
  ASSUME NEW s, Chain(s)
  PROVE  /\ Len(s) \in Nat \ {0} /\ Head(s) = s[1] /\ Head(s) \in Frames
         /\ \A i \in 1 .. Len(s) : s[i] \in Frames
<1>1. s \in Seq(Frames) /\ s # <<>>
  BY DEF Chain
<1> QED
  BY <1>1

LEMMA Push ==
  ASSUME NEW s, Chain(s), NEW f \in Frames, <<Head(s).fn, f.fn>> \in Callers
  PROVE  Chain(<<f>> \o s) /\ Head(<<f>> \o s) = f /\ Len(<<f>> \o s) = Len(s) + 1
<1>1. /\ s \in Seq(Frames) /\ s # <<>> /\ s[Len(s)].fn = "i386_init"
      /\ \A i \in 1 .. Len(s) - 1 : <<s[i + 1].fn, s[i].fn>> \in Callers
  BY DEF Chain
<1>2. Len(s) \in Nat \ {0} /\ Head(s) = s[1]
  BY ChainTop
<1>3. PICK n \in Nat \ {0} : n = Len(s)
  BY <1>2
<1>4. PICK r : r = <<f>> \o s
  OBVIOUS
<1>5. /\ r \in Seq(Frames) /\ Len(r) = n + 1 /\ r[1] = f
      /\ \A i \in 1 .. n : r[i + 1] = s[i]
  BY <1>1, <1>3, <1>4
<1>6. r # <<>> /\ Head(r) = f
  BY <1>3, <1>5
<1>7. r[Len(r)].fn = "i386_init"
  BY <1>1, <1>3, <1>5
<1>8. ASSUME NEW i \in 1 .. Len(r) - 1 PROVE <<r[i + 1].fn, r[i].fn>> \in Callers
  <2>1. CASE i = 1
    <3>1. r[i + 1] = s[1] /\ r[i] = f
      BY <2>1, <1>3, <1>5
    <3> QED
      BY <3>1, <1>2
  <2>2. CASE i # 1
    <3>1. i - 1 \in 1 .. n - 1 /\ (i - 1) + 1 = i /\ i \in 1 .. n
      BY <2>2, <1>3, <1>5
    <3>2. r[i + 1] = s[i] /\ r[i] = s[i - 1]
      BY <3>1, <1>5
    <3>3. <<s[i].fn, s[i - 1].fn>> \in Callers
      BY <3>1, <1>1, <1>3
    <3> QED
      BY <3>2, <3>3
  <2> QED
    BY <2>1, <2>2
<1> QED
  BY <1>3, <1>4, <1>5, <1>6, <1>7, <1>8 DEF Chain

LEMMA Pop ==
  ASSUME NEW s, Chain(s), Head(s).fn # "i386_init"
  PROVE  /\ Chain(Tail(s)) /\ Len(Tail(s)) = Len(s) - 1
         /\ <<Head(Tail(s)).fn, Head(s).fn>> \in Callers
<1>1. /\ s \in Seq(Frames) /\ s # <<>> /\ s[Len(s)].fn = "i386_init"
      /\ \A i \in 1 .. Len(s) - 1 : <<s[i + 1].fn, s[i].fn>> \in Callers
  BY DEF Chain
<1>2. Len(s) \in Nat \ {0} /\ Head(s) = s[1]
  BY ChainTop
<1>3. PICK n \in Nat \ {0} : n = Len(s)
  BY <1>2
<1>4. n > 1
  BY <1>1, <1>2, <1>3
<1>5. PICK r : r = Tail(s)
  OBVIOUS
<1>6. /\ r \in Seq(Frames) /\ Len(r) = n - 1
      /\ \A i \in 1 .. n - 1 : r[i] = s[i + 1]
  BY <1>1, <1>3, <1>5
<1>7. r # <<>> /\ Head(r) = r[1] /\ r[1] = s[2]
  BY <1>3, <1>4, <1>6
<1>8. r[Len(r)].fn = "i386_init"
  <2>1. r[n - 1] = s[n]
    BY <1>3, <1>4, <1>6
  <2> QED
    BY <2>1, <1>1, <1>3, <1>6
<1>9. ASSUME NEW i \in 1 .. Len(r) - 1 PROVE <<r[i + 1].fn, r[i].fn>> \in Callers
  <2>1. i + 1 \in 1 .. n - 1 /\ i \in 1 .. n - 1
    BY <1>3, <1>6
  <2>2. r[i] = s[i + 1] /\ r[i + 1] = s[i + 1 + 1]
    BY <2>1, <1>6
  <2> QED
    BY <2>1, <2>2, <1>1, <1>3
<1>10. <<s[1 + 1].fn, s[1].fn>> \in Callers
  BY <1>1, <1>3, <1>4
<1> QED
  BY <1>2, <1>3, <1>5, <1>6, <1>7, <1>8, <1>9, <1>10 DEF Chain

LEMMA Called ==
  ASSUME MonitorOK, NEW fn, NEW arg, Call(fn, arg), <<Top.fn, fn>> \in Callers,
         fn \in FrameFunctions \ {"i386_init", "mem_init"},
         arg \in Int \cup {NULL}, fn \in CountDown => arg \in Int
  PROVE  /\ Chain(stack') /\ AtWork(pc', Head(stack').fn) /\ Len(stack') = Len(stack) + 1
         /\ pc' \notin {"runcmd", "walk"}
<1>1. PICK f : f = Frame(Top.fn, fn, arg)
  OBVIOUS
<1>2. f \in Frames /\ f.fn = fn
  <2>1. kernel.site[<<Top.fn, fn>>] \in Nat /\ kernel.site[<<Top.fn, fn>>] >= ULIM
    BY DEF MonitorOK, KernelOK
  <2>2. PICK ret \in Nat : ret = kernel.site[<<Top.fn, fn>>] /\ ret >= ULIM
    BY <2>1
  <2>3. f = [fn |-> fn, arg |-> arg, ret |-> ret]
    BY <1>1, <2>2 DEF Frame
  <2> QED
    BY <2>2, <2>3 DEF Frames, IsFrame
<1>3. stack' = <<f>> \o stack /\ pc' = fn
  BY <1>1 DEF Call
<1>4. Chain(stack) /\ <<Head(stack).fn, f.fn>> \in Callers
  BY <1>2 DEF MonitorOK, Top
<1>5. Chain(stack') /\ Head(stack') = f /\ Len(stack') = Len(stack) + 1
  BY <1>2, <1>3, <1>4, Push
<1> QED
  BY <1>2, <1>3, <1>5 DEF AtWork, FrameFunctions

LEMMA Returned ==
  ASSUME MonitorOK, pc \in {"return", "walk"}, pc' = "return", stack' = Tail(stack),
         Top.fn \in {"mon_time", "test_backtrace", "mon_backtrace"}
  PROVE  Chain(stack') /\ AtWork(pc', Head(stack').fn)
<1>1. Chain(stack) /\ Head(stack).fn # "i386_init"
  BY DEF MonitorOK, Top
<1>2. Chain(stack') /\ <<Head(stack').fn, Head(stack).fn>> \in Callers
  BY <1>1, Pop
<1>3. Head(stack').fn \in {"mon_time", "test_backtrace", "monitor", "i386_init"}
  BY <1>2 DEF Callers, Top
<1> QED
  BY <1>2, <1>3 DEF AtWork

(* Where nothing of it changes, or only the output and what is returned.   *)
LEMMA LookupStays ==
  ASSUME LookupOK, UNCHANGED kvars
  PROVE  LookupOK'
BY DEF LookupOK, kvars

LEMMA LineStays ==
  ASSUME LineOK, UNCHANGED line, pc' = pc \/ pc' # "runcmd"
  PROVE  LineOK'
BY DEF LineOK, line

LEMMA KernelStays ==
  ASSUME KernelOK, UNCHANGED <<kernel, panicstr>>, cr3' \in {cr3, "entry", "kern"},
         typed' = typed \/ typed' = typed + 1
  PROVE  KernelOK'
BY DEF KernelOK

LEMMA WalkStays ==
  ASSUME WalkOK, UNCHANGED <<walk, kpc>>, pc # "walk", pc' # "walk"
  PROVE  WalkOK'
BY DEF WalkOK

(* Steps of any function but backtrace that change neither the kernel's    *)
(* state nor the line.                                                     *)
LEMMA Elsewhere ==
  ASSUME MonitorOK, UNCHANGED <<kernel, panicstr, typed, line, walk, kvars>>,
         cr3' \in {cr3, "entry", "kern"}, pc # "walk", pc' # "walk",
         pc' = pc \/ pc' # "runcmd", Chain(stack'), AtWork(pc', Head(stack').fn)
  PROVE  MonitorOK'
<1>1. kpc' = kpc
  BY DEF kvars
<1> QED
  BY <1>1, LookupStays, LineStays, KernelStays, WalkStays DEF MonitorOK

LEMMA BootKeeps ==
  ASSUME MonitorOK, MonitorAssumption,
         TestsBacktrace \/ test_backtrace \/ MemInit \/ MemInitPanics \/ _panic
  PROVE  MonitorOK'
<1> USE MonitorAssumption
<1>1. ASSUME TestsBacktrace PROVE MonitorOK'
  <2>1. /\ pc = "i386_init" /\ Call("test_backtrace", Depth) /\ pc' = "test_backtrace"
        /\ UNCHANGED <<kernel, cr3, panicstr, typed, line, walk, kvars>>
    BY <1>1 DEF TestsBacktrace, Call
  <2>2. Top.fn = "i386_init" /\ Depth \in Int
    BY <2>1 DEF MonitorOK, AtWork, Top, MonitorAssumption
  <2>3. Chain(stack') /\ AtWork(pc', Head(stack').fn)
    BY <2>1, <2>2, Called DEF Callers, FrameFunctions
  <2> QED
    BY <2>1, <2>3, Elsewhere
<1>2. ASSUME test_backtrace PROVE MonitorOK'
  <2>1. /\ pc = "test_backtrace"
        /\ Call("test_backtrace", Top.arg - 1) \/ Call("mon_backtrace", 0)
        /\ UNCHANGED <<kernel, cr3, panicstr, typed, line, walk, kvars>>
    BY <1>2 DEF test_backtrace
  <2>2. Top.fn = "test_backtrace" /\ Top.arg \in Int
    <3>1. Top.fn = "test_backtrace" /\ Chain(stack)
      BY <2>1 DEF MonitorOK, AtWork, Top
    <3>2. Top \in Frames
      BY <3>1, ChainTop DEF Top
    <3> QED
      BY <3>1, <3>2 DEF Frames, IsFrame, CountDown
  <2>3. Chain(stack') /\ AtWork(pc', Head(stack').fn) /\ pc' \notin {"runcmd", "walk"}
    <3>1. CASE Call("test_backtrace", Top.arg - 1)
      <4>1. Top.arg - 1 \in Int
        BY <2>2
      <4>2. <<Top.fn, "test_backtrace">> \in Callers
        BY <2>2 DEF Callers
      <4> QED
        BY <3>1, <4>1, <4>2, Called DEF FrameFunctions
    <3>2. CASE Call("mon_backtrace", 0)
      BY <2>2, <3>2, Called DEF Callers, FrameFunctions, CountDown
    <3> QED
      BY <2>1, <3>1, <3>2
  <2> QED
    BY <2>1, <2>3, Elsewhere
<1>3. ASSUME MemInit PROVE MonitorOK'
  <2>1. /\ pc = "i386_init" /\ Call("monitor", 0) /\ cr3' = "kern" /\ pc' = "monitor"
        /\ UNCHANGED <<kernel, panicstr, typed, line, walk, kvars>>
    BY <1>3 DEF MemInit, Call
  <2>2. Top.fn = "i386_init"
    BY <2>1 DEF MonitorOK, AtWork, Top
  <2>3. Chain(stack') /\ AtWork(pc', Head(stack').fn)
    BY <2>1, <2>2, Called DEF Callers, FrameFunctions, CountDown
  <2> QED
    BY <2>1, <2>3, Elsewhere
<1>4. ASSUME MemInitPanics PROVE MonitorOK'
  <2>1. PICK f, g : f = Frame(Top.fn, "mem_init", NULL) /\ g = Frame("mem_init", "_panic", NULL)
    OBVIOUS
  <2>2. /\ pc = "i386_init" /\ pc' = "_panic" /\ cr3' \in {cr3, "kern"}
        /\ stack' = <<g, f>> \o stack
        /\ UNCHANGED <<kernel, panicstr, typed, line, walk, kvars>>
    BY <1>4, <2>1 DEF MemInitPanics
  <2>3. Top.fn = "i386_init" /\ Chain(stack)
    BY <2>2 DEF MonitorOK, AtWork, Top
  <2>4. /\ <<"i386_init", "mem_init">> \in Callers /\ <<"mem_init", "_panic">> \in Callers
    BY DEF Callers
  <2>5. f \in Frames /\ f.fn = "mem_init" /\ g \in Frames /\ g.fn = "_panic"
    <3>1. PICK r \in Nat, s \in Nat :
            /\ r = kernel.site[<<"i386_init", "mem_init">>] /\ r >= ULIM
            /\ s = kernel.site[<<"mem_init", "_panic">>] /\ s >= ULIM
      BY <2>4 DEF MonitorOK, KernelOK
    <3>2. /\ f = [fn |-> "mem_init", arg |-> NULL, ret |-> r]
          /\ g = [fn |-> "_panic", arg |-> NULL, ret |-> s]
      BY <2>1, <2>3, <3>1 DEF Frame
    <3> QED
      BY <3>1, <3>2 DEF Frames, IsFrame, FrameFunctions, CountDown
  <2>6. Chain(<<f>> \o stack) /\ Head(<<f>> \o stack) = f
    BY <2>3, <2>4, <2>5, Push DEF Top
  <2>7. Chain(<<g>> \o (<<f>> \o stack)) /\ Head(<<g>> \o (<<f>> \o stack)) = g
    BY <2>4, <2>5, <2>6, Push
  <2>8. <<g, f>> \o stack = <<g>> \o (<<f>> \o stack)
    <3>1. stack \in Seq(Frames)
      BY <2>3 DEF Chain
    <3> QED
      BY <2>5, <3>1
  <2>9. Chain(stack') /\ AtWork(pc', Head(stack').fn)
    BY <2>2, <2>5, <2>7, <2>8 DEF AtWork
  <2> QED
    BY <2>2, <2>9, Elsewhere
<1>5. ASSUME _panic PROVE MonitorOK'
  <2>1. /\ pc = "_panic" /\ Call("monitor", 0) /\ panicstr' = TRUE /\ pc' = "monitor"
        /\ UNCHANGED <<kernel, cr3, typed, line, walk, kvars>>
    BY <1>5 DEF _panic, Call
  <2>2. Top.fn = "_panic"
    BY <2>1 DEF MonitorOK, AtWork, Top
  <2>3. Chain(stack') /\ AtWork(pc', Head(stack').fn)
    BY <2>1, <2>2, Called DEF Callers, FrameFunctions, CountDown
  <2>4. KernelOK'
    BY <2>1 DEF MonitorOK, KernelOK
  <2>5. kpc' = kpc
    BY <2>1 DEF kvars
  <2>6. LookupOK' /\ LineOK' /\ WalkOK'
    BY <2>1, <2>5, LookupStays, LineStays, WalkStays DEF MonitorOK
  <2> QED
    BY <2>3, <2>4, <2>6 DEF MonitorOK
<1> QED
  BY <1>1, <1>2, <1>3, <1>4, <1>5

LEMMA ReadLineKeeps ==
  ASSUME MonitorOK, MonitorAssumption, ReadLine
  PROVE  MonitorOK'
<1>1. /\ pc = "readline" /\ pc' = "runcmd" /\ typed < Len(kernel.session) /\ typed' = typed + 1
      /\ pos' = 1 /\ argv' = <<>>
      /\ UNCHANGED <<kernel, cr3, panicstr, stack, walk, kvars>>
  BY DEF ReadLine
<1>2. PICK l, s : /\ l = kernel.session[typed + 1] /\ s = Append(l, NUL)
                  /\ buf' = s \o SubSeq(buf, Len(s) + 1, BufLen)
  BY DEF ReadLine
<1>3. l \in Seq(STRING \ {NUL}) /\ Len(l) < BufLen
  <2>1. typed + 1 \in DOMAIN kernel.session
    <3>1. kernel.session \in Seq(Seq(STRING \ {NUL})) /\ typed \in Nat
      BY DEF MonitorOK, KernelOK
    <3> QED
      BY <3>1, <1>1
  <2> QED
    BY <2>1, <1>2 DEF MonitorOK, KernelOK
<1>4. BufLen \in Nat \ {0} /\ MAXARGS \in Nat \ {0}
  BY DEF MonitorAssumption
<1>5. /\ s \in Seq(STRING \cup {NUL}) /\ Len(s) \in 1 .. BufLen /\ s[Len(s)] = NUL
  <2>1. l \in Seq(STRING \cup {NUL}) /\ Len(l) \in Nat
    BY <1>3
  <2> QED
    BY <2>1, <1>2, <1>3, <1>4
<1>6. buf \in Seq(STRING \cup {NUL}) /\ Len(buf) = BufLen
  BY DEF MonitorOK, LineOK
<1>7. PICK n \in 1 .. BufLen : n = Len(s)
  BY <1>5
<1>8. PICK r : r = SubSeq(buf, n + 1, BufLen)
  OBVIOUS
<1>9. r \in Seq(STRING \cup {NUL}) /\ Len(r) = BufLen - n
  <2>1. n + 1 \in 1 .. BufLen + 1
    BY <1>4, <1>7
  <2> QED
    BY <2>1, <1>4, <1>6, <1>7, <1>8
<1>10. buf' \in Seq(STRING \cup {NUL}) /\ Len(buf') = BufLen /\ buf'[n] = NUL
  <2>1. buf' = s \o r
    BY <1>2, <1>7, <1>8
  <2> QED
    BY <2>1, <1>4, <1>5, <1>7, <1>9
<1>11. LineOK'
  <2>1. n \in 1 .. BufLen /\ buf'[n] = NUL /\ 1 \in 1 .. BufLen
    BY <1>4, <1>7, <1>10
  <2>2. argv' \in Seq(1 .. BufLen) /\ Len(argv') < MAXARGS
    BY <1>1, <1>4
  <2> QED
    BY <2>1, <2>2, <1>1, <1>10 DEF LineOK
<1>12. KernelOK'
  BY <1>1, KernelStays DEF MonitorOK
<1>13. kpc' = kpc
  BY <1>1 DEF kvars
<1>14. WalkOK' /\ LookupOK'
  BY <1>1, <1>13, WalkStays, LookupStays DEF MonitorOK
<1>15. Chain(stack') /\ AtWork(pc', Head(stack').fn)
  BY <1>1 DEF MonitorOK, AtWork
<1> QED
  BY <1>11, <1>12, <1>14, <1>15 DEF MonitorOK

(* runcmd goes on to the next place: there is one, the null character.     *)
LEMMA NextPlace ==
  ASSUME LineOK, MonitorAssumption, pc = "runcmd", buf[pos] # NUL
  PROVE  /\ pos + 1 \in 1 .. BufLen
         /\ \E k \in pos + 1 .. BufLen : buf[k] = NUL
<1>1. PICK k \in pos .. BufLen : buf[k] = NUL
  BY DEF LineOK
<1>2. pos \in 1 .. BufLen /\ BufLen \in Nat
  BY DEF LineOK, MonitorAssumption
<1>3. k # pos
  BY <1>1
<1>4. k \in pos + 1 .. BufLen
  BY <1>2, <1>3
<1> QED
  BY <1>1, <1>2, <1>4

LEMMA ParseKeeps ==
  ASSUME MonitorOK, MonitorAssumption, Gobble \/ SaveArg
  PROVE  MonitorOK'
<1>1. /\ pc = "runcmd" /\ pc' = pc /\ pos' = pos + 1 /\ buf[pos] # NUL
      /\ UNCHANGED <<kernel, cr3, panicstr, stack, typed, walk, kvars>>
  BY DEF Gobble, SaveArg, Blank, NUL
<1>2. /\ LineOK /\ buf \in Seq(STRING \cup {NUL}) /\ Len(buf) = BufLen /\ pos \in 1 .. BufLen
      /\ argv \in Seq(1 .. BufLen) /\ Len(argv) < MAXARGS
      /\ BufLen \in Nat /\ MAXARGS \in Nat
  BY DEF MonitorOK, LineOK, MonitorAssumption
<1>3. pos + 1 \in 1 .. BufLen /\ \E k \in pos + 1 .. BufLen : buf[k] = NUL
  BY <1>1, <1>2, NextPlace
<1>4. LineOK'
  <2>1. ASSUME Gobble PROVE LineOK'
    <3>1. argv' = argv /\ buf' = [buf EXCEPT ![pos] = NUL]
      BY <2>1 DEF Gobble
    <3>2. buf' \in Seq(STRING \cup {NUL}) /\ Len(buf') = BufLen
      BY <3>1, <1>2
    <3>3. PICK k \in pos + 1 .. BufLen : buf[k] = NUL
      BY <1>3
    <3>4. buf'[k] = NUL
      BY <3>1, <3>3, <1>2
    <3> QED
      BY <3>1, <3>2, <3>3, <3>4, <1>1, <1>2, <1>3 DEF LineOK
  <2>2. ASSUME SaveArg PROVE LineOK'
    <3>1. argv' = Append(argv, pos) /\ buf' = buf /\ Len(argv) < MAXARGS - 1
      BY <2>2 DEF SaveArg
    <3>2. argv' \in Seq(1 .. BufLen) /\ Len(argv') < MAXARGS
      BY <3>1, <1>2
    <3> QED
      BY <3>1, <3>2, <1>1, <1>2, <1>3 DEF LineOK
  <2> QED
    BY <2>1, <2>2
<1>5. kpc' = kpc
  BY <1>1 DEF kvars
<1>6. KernelOK' /\ LookupOK' /\ WalkOK'
  BY <1>1, <1>5, KernelStays, LookupStays, WalkStays DEF MonitorOK
<1>7. Chain(stack') /\ AtWork(pc', Head(stack').fn)
  BY <1>1 DEF MonitorOK
<1> QED
  BY <1>4, <1>6, <1>7 DEF MonitorOK

(* A command that is called from a line or from time.                      *)
LEMMA InvokeKeeps ==
  ASSUME MonitorOK, pc \in {"runcmd", "mon_time"}, NEW name, NEW argc \in Int,
         Invoke(name, argc)
  PROVE  MonitorOK'
<1>1. UNCHANGED <<kernel, cr3, panicstr, typed, line, walk, kvars>>
  BY DEF Invoke
<1>2. Top.fn \in {"monitor", "mon_time"}
  BY DEF MonitorOK, AtWork, Top
<1>3. /\ Chain(stack') /\ AtWork(pc', Head(stack').fn) /\ pc' \notin {"runcmd", "walk"}
  <2>1. CASE name \in Reports
    <3>1. pc' = "return" /\ stack' = stack
      BY <2>1 DEF Invoke
    <3> QED
      BY <3>1, <1>2 DEF MonitorOK, AtWork, Top
  <2>2. CASE name \notin Reports /\ name = "time"
    <3>1. Call("mon_time", argc)
      BY <2>2 DEF Invoke
    <3> QED
      BY <3>1, <1>2, Called DEF Callers, FrameFunctions
  <2>3. CASE name \notin Reports /\ name # "time"
    <3>1. Call("mon_backtrace", argc)
      BY <2>3 DEF Invoke
    <3> QED
      BY <3>1, <1>2, Called DEF Callers, FrameFunctions, CountDown
  <2> QED
    BY <2>1, <2>2, <2>3
<1> QED
  BY <1>1, <1>3, Elsewhere

LEMMA CommandKeeps ==
  ASSUME MonitorOK, MonitorAssumption,
         TooManyArgs \/ NoCommand \/ Command \/ UnknownCommand
  PROVE  MonitorOK'
<1>1. pc = "runcmd"
  BY DEF TooManyArgs, NoCommand, Command, UnknownCommand, Parsed
<1>2. Top.fn = "monitor" /\ Chain(stack)
  BY <1>1 DEF MonitorOK, AtWork, Top
<1>3. ASSUME Command PROVE MonitorOK'
  <2>1. PICK name \in commands : Invoke(name, Len(argv))
    BY <1>3 DEF Command
  <2>2. Len(argv) \in Int
    BY DEF MonitorOK, LineOK
  <2> QED
    BY <2>1, <2>2, <1>1, InvokeKeeps
<1>4. ASSUME TooManyArgs \/ NoCommand \/ UnknownCommand PROVE MonitorOK'
  <2>1. /\ pc' = "return" /\ stack' = stack
        /\ UNCHANGED <<kernel, cr3, panicstr, typed, line, walk, kvars>>
    BY <1>4 DEF TooManyArgs, NoCommand, UnknownCommand
  <2>2. Chain(stack') /\ AtWork(pc', Head(stack').fn)
    BY <2>1, <1>2 DEF AtWork, Top
  <2> QED
    BY <2>1, <2>2, <1>1, Elsewhere
<1> QED
  BY <1>3, <1>4

LEMMA TimeKeeps ==
  ASSUME MonitorOK, TimeCommand \/ TimeNothing \/ TimeUnknown
  PROVE  MonitorOK'
<1>1. pc = "mon_time"
  BY DEF TimeCommand, TimeNothing, TimeUnknown
<1>2. Top.fn = "mon_time" /\ Chain(stack)
  BY <1>1 DEF MonitorOK, AtWork, Top
<1>3. Top.arg \in Int
  <2>1. Top \in Frames
    BY <1>2, ChainTop DEF Top
  <2> QED
    BY <2>1, <1>2 DEF Frames, IsFrame, CountDown
<1>4. ASSUME TimeCommand PROVE MonitorOK'
  <2>1. PICK name \in commands : Invoke(name, Top.arg - 1)
    BY <1>4 DEF TimeCommand
  <2>2. Top.arg - 1 \in Int
    BY <1>3
  <2> QED
    BY <2>1, <2>2, <1>1, InvokeKeeps
<1>5. ASSUME TimeNothing \/ TimeUnknown PROVE MonitorOK'
  <2>1. /\ pc' \in {"return", "reset"} /\ stack' = stack
        /\ UNCHANGED <<kernel, cr3, panicstr, typed, line, walk, kvars>>
    BY <1>5 DEF TimeNothing, TimeUnknown
  <2>2. Chain(stack') /\ AtWork(pc', Head(stack').fn)
    BY <2>1, <1>2 DEF AtWork, Top
  <2> QED
    BY <2>1, <2>2, <1>1, Elsewhere
<1> QED
  BY <1>4, <1>5

LEMMA ReturnKeeps ==
  ASSUME MonitorOK, ReturnToTime \/ ReturnToTest \/ ReturnToMonitor \/ ReturnToInit
  PROVE  MonitorOK'
<1>1. pc = "return" /\ UNCHANGED <<kernel, cr3, panicstr, typed, line, walk, kvars>>
  BY DEF ReturnToTime, ReturnToTest, ReturnToMonitor, ReturnToInit
<1>2. Chain(stack') /\ AtWork(pc', Head(stack').fn) /\ pc' \notin {"walk", "runcmd"}
  <2>1. ASSUME ReturnToTime \/ ReturnToTest
        PROVE  Chain(stack') /\ AtWork(pc', Head(stack').fn) /\ pc' \notin {"walk", "runcmd"}
    <3>1. /\ pc' = "return" /\ stack' = Tail(stack)
          /\ Top.fn \in {"mon_time", "test_backtrace", "mon_backtrace"}
      BY <2>1, <1>1 DEF ReturnToTime, ReturnToTest
    <3> QED
      BY <3>1, <1>1, Returned
  <2>2. CASE ReturnToMonitor
    <3>1. pc' \in {"monitor", "readline"} /\ stack' = stack /\ Top.fn = "monitor"
      BY <2>2 DEF ReturnToMonitor
    <3> QED
      BY <3>1 DEF MonitorOK, AtWork, Top
  <2>3. CASE ReturnToInit
    <3>1. Call("monitor", 0) /\ Top.fn = "i386_init"
      BY <2>3 DEF ReturnToInit
    <3> QED
      BY <3>1, Called DEF Callers, FrameFunctions, CountDown
  <2> QED
    BY <2>1, <2>2, <2>3
<1> QED
  BY <1>1, <1>2, Elsewhere

LEMMA BacktraceKeeps ==
  ASSUME MonitorOK, MonitorAssumption,
         OverflowMe \/ ReturnsToZero \/ NextFrame \/ debuginfo_eip \/ PrintFrame \/ LastFrame
  PROVE  MonitorOK'
<1>1. Chain(stack) /\ Len(stack) \in Nat \ {0}
  BY ChainTop DEF MonitorOK
<1>2. ASSUME OverflowMe PROVE MonitorOK'
  <2>1. /\ pc = "mon_backtrace" /\ pc' = "walk" /\ walk' = 1
        /\ UNCHANGED <<kernel, cr3, panicstr, stack, typed, line, kvars>>
    BY <1>2 DEF OverflowMe
  <2>2. kpc' = kpc /\ kpc = "idle"
    BY <2>1 DEF kvars, MonitorOK, WalkOK
  <2>3. Chain(stack') /\ AtWork(pc', Head(stack').fn)
    BY <2>1 DEF MonitorOK, AtWork
  <2>4. WalkOK'
    BY <2>1, <2>2, <1>1 DEF WalkOK
  <2>5. KernelOK' /\ LineOK' /\ LookupOK'
    BY <2>1, KernelStays, LineStays, LookupStays DEF MonitorOK
  <2> QED
    BY <2>3, <2>4, <2>5 DEF MonitorOK
<1>3. ASSUME ReturnsToZero PROVE MonitorOK'
  <2>1. /\ pc = "mon_backtrace" /\ pc' \in {"reset", "astray"}
        /\ UNCHANGED <<kernel, cr3, panicstr, stack, typed, line, walk, kvars>>
    BY <1>3 DEF ReturnsToZero
  <2>2. Chain(stack') /\ AtWork(pc', Head(stack').fn)
    BY <2>1 DEF MonitorOK, AtWork
  <2> QED
    BY <2>1, <2>2, Elsewhere
<1>4. ASSUME NextFrame PROVE MonitorOK'
  <2>1. /\ pc = "walk" /\ pc' = pc /\ walk <= Len(stack) /\ K!debuginfo_eip(stack[walk].ret)
        /\ UNCHANGED <<kernel, cr3, panicstr, stack, typed, line, walk>> /\ stabs' = stabs
    BY <1>4 DEF NextFrame, line
  <2>2. walk \in 1 .. Len(stack)
    BY <2>1, <1>1 DEF MonitorOK, WalkOK
  <2>3. stack[walk].ret \in Nat /\ stack[walk].ret >= ULIM
    BY <2>2, <1>1, ChainTop DEF Frames, IsFrame
  <2>4. LookupOK'
    BY <2>1, <2>3, CallKeeps DEF MonitorOK
  <2>5. WalkOK'
    BY <2>1, <2>2 DEF WalkOK
  <2>6. KernelOK' /\ LineOK' /\ Chain(stack') /\ AtWork(pc', Head(stack').fn)
    BY <2>1, KernelStays, LineStays DEF MonitorOK
  <2> QED
    BY <2>4, <2>5, <2>6 DEF MonitorOK
<1>5. ASSUME debuginfo_eip PROVE MonitorOK'
  <2>1. /\ pc = "walk" /\ pc' = pc /\ K!Next
        /\ UNCHANGED <<kernel, cr3, panicstr, stack, typed, line, walk>> /\ stabs' = stabs
    BY <1>5 DEF debuginfo_eip, line
  <2>2. kpc # "idle"
    BY <2>1 DEF K!Next, K!NoMatch, K!Below, K!Above, K!Exact, K!FileFound, K!FunctionFound,
                K!NoFunction, K!LineFound, K!NoLine, K!Searching, K!Ended
  <2>3. LookupOK'
    BY <2>1, LookupKeeps DEF MonitorOK
  <2>4. WalkOK'
    BY <2>1, <2>2 DEF MonitorOK, WalkOK
  <2>5. KernelOK' /\ LineOK' /\ Chain(stack') /\ AtWork(pc', Head(stack').fn)
    BY <2>1, KernelStays, LineStays DEF MonitorOK
  <2> QED
    BY <2>3, <2>4, <2>5 DEF MonitorOK
<1>6. ASSUME PrintFrame PROVE MonitorOK'
  <2>1. /\ pc = "walk" /\ pc' = pc /\ kpc \in {"done", "failed"} /\ walk' = walk + 1
        /\ kpc' = "idle"
        /\ UNCHANGED <<kernel, cr3, panicstr, stack, typed, line>>
        /\ UNCHANGED <<stabs, eip, search, loc, info>>
    BY <1>6 DEF PrintFrame, line
  <2>2. LookupOK'
    BY <2>1, AnswerKeeps DEF MonitorOK
  <2>3. WalkOK'
    BY <2>1, <1>1 DEF MonitorOK, WalkOK
  <2>4. KernelOK' /\ LineOK' /\ Chain(stack') /\ AtWork(pc', Head(stack').fn)
    BY <2>1, KernelStays, LineStays DEF MonitorOK
  <2> QED
    BY <2>2, <2>3, <2>4 DEF MonitorOK
<1>7. ASSUME LastFrame PROVE MonitorOK'
  <2>1. /\ pc = "walk" /\ pc' = "return" /\ kpc = "idle" /\ walk' = 0 /\ stack' = Tail(stack)
        /\ UNCHANGED <<kernel, cr3, panicstr, typed, line, kvars>>
    BY <1>7 DEF LastFrame
  <2>2. Top.fn = "mon_backtrace"
    BY <2>1 DEF MonitorOK, AtWork, Top
  <2>3. Chain(stack') /\ AtWork(pc', Head(stack').fn)
    BY <2>1, <2>2, Returned
  <2>4. kpc' = kpc
    BY <2>1 DEF kvars
  <2>5. WalkOK'
    BY <2>1, <2>4 DEF WalkOK
  <2>6. KernelOK' /\ LineOK' /\ LookupOK'
    BY <2>1, KernelStays, LineStays, LookupStays DEF MonitorOK
  <2> QED
    BY <2>3, <2>5, <2>6 DEF MonitorOK
<1> QED
  BY <1>2, <1>3, <1>4, <1>5, <1>6, <1>7

LEMMA StepKeeps ==
  ASSUME MonitorOK, MonitorAssumption, [Next]_vars
  PROVE  MonitorOK'
<1>1. ASSUME Next PROVE MonitorOK'
  <2>1. ASSUME monitor PROVE MonitorOK'
    <3>1. /\ pc = "monitor" /\ pc' = "readline" /\ stack' = stack
          /\ UNCHANGED <<kernel, cr3, panicstr, typed, line, walk, kvars>>
      BY <2>1 DEF monitor
    <3>2. Chain(stack') /\ AtWork(pc', Head(stack').fn)
      BY <3>1 DEF MonitorOK, AtWork
    <3> QED
      BY <3>1, <3>2, Elsewhere
  <2> QED
    BY <1>1, <2>1, BootKeeps, ReadLineKeeps, ParseKeeps, CommandKeeps, TimeKeeps, ReturnKeeps,
       BacktraceKeeps
       DEF Next, Runs
<1>2. ASSUME UNCHANGED vars PROVE MonitorOK'
  <2>1. UNCHANGED <<kernel, cr3, panicstr, pc, stack, typed, line, walk, kvars>>
    BY <1>2 DEF vars
  <2>2. kpc' = kpc
    BY <2>1 DEF kvars
  <2>3. WalkOK' /\ KernelOK' /\ LineOK' /\ LookupOK'
    BY <2>1, <2>2, KernelStays, LineStays, LookupStays DEF MonitorOK, WalkOK
  <2> QED
    BY <2>1, <2>3 DEF MonitorOK
<1> QED
  BY <1>1, <1>2

LEMMA LookupInitially ==
  ASSUME K!Init, K!Linked(stabs), ULIM \in Nat
  PROVE  LookupOK
<1>1. Len(stabs) \in Nat /\ Len(stabs) > 0
  BY Entries
<1>2. /\ eip = ULIM /\ kpc = "idle" /\ search = K!Search(0, -1, "SO", eip)
      /\ loc = [lfile |-> 0, rfile |-> 0, lfun |-> 0, rfun |-> 0, addr |-> eip]
      /\ info = [file |-> K!Unknown, line |-> 0, fn |-> K!Unknown, addr |-> eip, narg |-> 0]
  BY DEF K!Init
<1>3. loc \in Locals /\ eip \in Nat
  BY <1>2 DEF Locals
<1>4. info \in Info /\ info.narg = 0
  BY <1>2 DEF Info, FileNames
<1>5. /\ search \in SearchState /\ search.left = 0 /\ search.right = -1
      /\ search.l = 0 /\ search.r = -1
  BY <1>2 DEF K!Search, SearchState, Searched
<1>6. Bounds(Len(stabs), search, info)
  BY <1>1, <1>4, <1>5 DEF Bounds
<1> QED
  BY <1>2, <1>3, <1>6 DEF LookupOK, Lookup

LEMMA MonitorInitially ==
  ASSUME Init, MonitorAssumption, TableAssumption
  PROVE  MonitorOK
<1>1. PICK s \in Starts :
        /\ kernel = [lab |-> s.lab, fails |-> s.fails, site |-> s.site, session |-> s.session]
        /\ stabs = s.stabs
  BY DEF Init
<1>2. kernel.session = s.session /\ kernel.site = s.site
  BY <1>1
<1>3. /\ cr3 = "entry" /\ panicstr = FALSE /\ pc = "i386_init"
      /\ stack = <<Frame("entry", "i386_init", NULL)>> /\ typed = 0
      /\ buf = [i \in 1 .. BufLen |-> NUL] /\ pos = 1 /\ argv = <<>> /\ walk = 0
      /\ K!Init
  BY DEF Init
<1>4. kpc = "idle"
  BY <1>3 DEF K!Init
<1>5. /\ BufLen \in Nat \ {0} /\ MAXARGS \in Nat \ {0} /\ ULIM \in Nat
      /\ s.session \in Seq(Seq(STRING \ {NUL}))
      /\ \A i \in DOMAIN s.session : Len(s.session[i]) < BufLen
      /\ \A c \in Callers : s.site[c] \in Nat /\ s.site[c] >= ULIM
  BY DEF MonitorAssumption
<1>6. KernelOK
  <2>1. \A i \in DOMAIN s.session : s.session[i] \in Seq(STRING \ {NUL})
    BY <1>5, ElementOfSeq, LenProperties
  <2> QED
    BY <2>1, <1>2, <1>3, <1>5 DEF KernelOK
<1>7. LookupOK
  <2>1. K!Linked(stabs)
    BY <1>1 DEF TableAssumption
  <2> QED
    BY <2>1, <1>3, <1>5, LookupInitially
<1>8. LineOK
  <2>1. buf \in Seq(STRING \cup {NUL}) /\ Len(buf) = BufLen
    <3>1. buf \in [1 .. BufLen -> STRING \cup {NUL}]
      BY <1>3
    <3> QED
      BY <3>1, <1>5, SeqDef, LenProperties
  <2>2. argv \in Seq(1 .. BufLen) /\ Len(argv) < MAXARGS
    BY <1>3, <1>5
  <2> QED
    BY <2>1, <2>2, <1>3, <1>5 DEF LineOK
<1>9. Chain(stack) /\ AtWork(pc, Head(stack).fn)
  <2>1. PICK f : f = Frame("entry", "i386_init", NULL)
    OBVIOUS
  <2>2. f \in Frames /\ f.fn = "i386_init"
    <3>1. <<"entry", "i386_init">> \in Callers
      BY DEF Callers
    <3>2. PICK r \in Nat : r = kernel.site[<<"entry", "i386_init">>] /\ r >= ULIM
      BY <3>1, <1>2, <1>5
    <3>3. f = [fn |-> "i386_init", arg |-> NULL, ret |-> r]
      BY <2>1, <3>2 DEF Frame
    <3> QED
      BY <3>2, <3>3 DEF Frames, IsFrame, FrameFunctions, CountDown
  <2>3. stack = <<f>> /\ stack \in Seq(Frames) /\ Len(stack) = 1 /\ stack[1] = f
    BY <2>1, <2>2, <1>3
  <2> QED
    BY <2>2, <2>3, <1>3 DEF Chain, AtWork
<1>10. WalkOK
  BY <1>3, <1>4 DEF WalkOK
<1> QED
  BY <1>6, <1>7, <1>8, <1>9, <1>10 DEF MonitorOK

LEMMA MonitorInvariant == Spec => []MonitorOK
<1> USE MonitorAssumption, TableAssumption
<1>1. Init => MonitorOK
  BY MonitorInitially
<1>2. MonitorOK /\ [Next]_vars => MonitorOK'
  BY StepKeeps
<1> QED
  BY <1>1, <1>2, PTL DEF Spec

(* Every state of the monitor is of its type: runcmd stays in the line and *)
(* has room for its arguments, backtrace stays in the chain of frames, and *)
(* the searches of debuginfo_eip stay in the table; it never panics, for   *)
(* no frame returns to an address below ULIM (monitor.c:105-230, kdebug.c: *)
(* 51-214).                                                                *)
THEOREM MonitorTypeCorrect == Spec => []TypeOK
<1>1. MonitorOK => TypeOK
  <2> SUFFICES ASSUME MonitorOK PROVE TypeOK
    OBVIOUS
  <2>1. Chain(stack) /\ AtWork(pc, Top.fn) /\ KernelOK /\ LineOK /\ K!TypeOK
    BY LookupTyped DEF MonitorOK, Top
  <2>2. Top.fn # "entry" /\ Len(stack) \in Nat
    BY <2>1, ChainTop DEF Top, Frames, FrameFunctions, IsFrame
  <2>3. walk \in 0 .. Len(stack) + 1
    BY <2>2 DEF MonitorOK, WalkOK
  <2> QED
    BY <2>1, <2>2, <2>3 DEF TypeOK, AtWork, KernelOK, LineOK
<1> QED
  BY <1>1, MonitorInvariant, PTL

(* Each of the three binary searches ends with what the comment of         *)
(* stab_binsearch promises: the entry that contains the address, and the   *)
(* one before the next, in whatever table the linker makes (kdebug.c:14-   *)
(* 107).                                                                   *)
THEOREM SearchesCorrect == Spec => []SearchesBracket
<1>1. MonitorOK => SearchesBracket
  BY LookupBrackets DEF MonitorOK, SearchesBracket
<1> QED
  BY <1>1, MonitorInvariant, PTL

-----------------------------------------------------------------------------
(* What debuginfo_eip says of an address, and what the table says of it.   *)
LEMMA LastAtIs ==
  ASSUME NEW lo \in Int, NEW hi \in Int, NEW type, NEW A,
         NEW x \in K!Containing(lo, hi, type, A),
         \A i \in K!Containing(lo, hi, type, A) : i <= x
  PROVE  K!LastAt(lo, hi, type, A) = x
<1>1. K!Containing(lo, hi, type, A) \in SUBSET (lo .. hi)
  BY DEF K!Containing
<1>2. K!Highest(K!Containing(lo, hi, type, A)) = x
  BY <1>1, HighestOf
<1> QED
  BY <1>2 DEF K!LastAt

LEMMA LastAtNone ==
  ASSUME NEW lo, NEW hi, NEW type, NEW A, K!Containing(lo, hi, type, A) = {}
  PROVE  K!LastAt(lo, hi, type, A) = -1
BY DEF K!LastAt

LEMMA EndOfIs ==
  ASSUME K!Linked(stabs), NEW i \in 0 .. Len(stabs) - 1, NEW e \in i .. Len(stabs) - 1,
         NEW types, NoneIn(stabs, i, e, types),
         e # Len(stabs) - 1 =>
           stabs[e + 2].type \in types /\ stabs[e + 2].value > stabs[i + 1].value
  PROVE  K!EndOf(i, types) = e
<1>1. PICK n \in Nat \ {0} : n = Len(stabs)
  BY Entries
<1>2. PICK B : B = {j \in i + 1 .. n - 1 :
                      stabs[j + 1].type \in types /\ stabs[j + 1].value > stabs[i + 1].value}
  OBVIOUS
<1>3. K!EndOf(i, types) = IF B = {} THEN n - 1 ELSE -K!Highest({-j : j \in B}) - 1
  BY <1>1, <1>2 DEF K!EndOf, K!At, K!Size
<1>4. \A j \in B : j \in i + 1 .. n - 1 /\ j > e
  BY <1>1, <1>2 DEF NoneIn
<1>5. CASE e = n - 1
  <2>1. B = {}
    BY <1>1, <1>4, <1>5
  <2> QED
    BY <2>1, <1>3, <1>5
<1>6. CASE e # n - 1
  <2>1. e + 1 \in i + 1 .. n - 1 /\ e + 1 + 1 = e + 2
    BY <1>1, <1>6
  <2>2. stabs[e + 1 + 1].type \in types /\ stabs[e + 1 + 1].value > stabs[i + 1].value
    BY <2>1, <1>1, <1>6
  <2>3. e + 1 \in B
    BY <2>1, <2>2, <1>2
  <2>4. PICK lo \in Int, hi \in Int : lo = i + 1 /\ hi = n - 1
    BY <1>1
  <2>5. B # {} /\ B \in SUBSET (lo .. hi)
    BY <2>3, <2>4, <1>2
  <2>6. /\ -K!Highest({-j : j \in B}) \in B
        /\ \A b \in B : -K!Highest({-j : j \in B}) <= b
    BY <2>4, <2>5, LowestIs
  <2>7. PICK low \in B : low = -K!Highest({-j : j \in B}) /\ \A j \in B : low <= j
    BY <2>6
  <2>8. low = e + 1
    BY <2>3, <2>7, <1>1, <1>4
  <2> QED
    BY <2>5, <2>7, <2>8, <1>3
<1> QED
  BY <1>1, <1>5, <1>6

LEMMA FileOf ==
  ASSUME LookupOK, FileIs(stabs, eip, loc)
  PROVE  K!File = loc.lfile /\ K!EndOf(loc.lfile, {"SO"}) = loc.rfile
<1>1. K!Linked(stabs) /\ loc \in Locals /\ eip \in Nat
  BY DEF LookupOK, Lookup
<1>2. PICK n \in Nat \ {0} : n = Len(stabs)
  BY <1>1, Entries
<1>3. PICK l \in Int, r \in Int : l = loc.lfile /\ r = loc.rfile
  BY <1>1 DEF Locals
<1>4. /\ l \in 1 .. r /\ r \in 1 .. n - 1
      /\ stabs[l + 1].type = "SO" /\ stabs[l + 1].value <= eip
      /\ \A k \in l + 1 .. r : stabs[k + 1].type \notin {"SO"}
      /\ r # n - 1 => stabs[r + 2].type = "SO" /\ stabs[r + 2].value > eip
  BY <1>2, <1>3 DEF FileIs, NoneIn
<1>5. Ordered(stabs, 0, n - 1, "SO")
  BY <1>1, <1>2, FileRegion
<1>6. \A i \in 0 .. n - 1 : stabs[i + 1].value \in Nat
  BY <1>1, <1>2, Entries
<1>7. PICK S : S = K!Containing(0, n - 1, "SO", eip)
  OBVIOUS
<1>8. S = {i \in 0 .. n - 1 : stabs[i + 1].type = "SO" /\ stabs[i + 1].value <= eip}
  BY <1>7 DEF K!Containing, K!At
<1>9. l \in S
  BY <1>4, <1>8
<1>10. ASSUME NEW i \in S PROVE i <= l
  <2>1. i \in 0 .. n - 1 /\ stabs[i + 1].type = "SO" /\ stabs[i + 1].value <= eip
    BY <1>8
  <2> SUFFICES ASSUME i > l PROVE FALSE
    BY <2>1
  <2>2. i > r
    BY <2>1, <1>4
  <2>3. r + 1 \in 0 .. n - 1 /\ r + 1 + 1 = r + 2 /\ r # n - 1
    BY <2>1, <2>2, <1>4
  <2>4. stabs[r + 1 + 1].type = "SO" /\ stabs[r + 1 + 1].value > eip
    BY <2>3, <1>4
  <2>5. r + 1 \in OfType(stabs, 0, n - 1, "SO") /\ i \in OfType(stabs, 0, n - 1, "SO")
    BY <2>1, <2>3, <2>4 DEF OfType
  <2>6. i # r + 1
    BY <2>1, <2>3, <2>4, <1>1, <1>6
  <2>7. stabs[r + 1 + 1].value <= stabs[i + 1].value
    BY <2>1, <2>2, <2>5, <2>6, <1>4, <1>5 DEF Ordered
  <2> QED
    BY <2>1, <2>3, <2>4, <2>7, <1>1, <1>6
<1>11. K!File = l
  <2>1. K!LastAt(0, n - 1, "SO", eip) = l
    BY <1>7, <1>9, <1>10, LastAtIs
  <2> QED
    BY <2>1, <1>2 DEF K!File, K!Size
<1>12. K!EndOf(l, {"SO"}) = r
  <2>1. l \in 0 .. n - 1 /\ r \in l .. n - 1
    BY <1>4
  <2>2. r # n - 1 => r + 1 \in 0 .. n - 1 /\ r + 2 = r + 1 + 1
    BY <1>4
  <2>3. r # n - 1 => stabs[r + 2].value \in Nat
    BY <2>2, <1>6
  <2>4. stabs[l + 1].value \in Nat
    BY <2>1, <1>6
  <2>5. r # n - 1 => stabs[r + 2].type \in {"SO"} /\ stabs[r + 2].value > stabs[l + 1].value
    BY <2>3, <2>4, <1>1, <1>4
  <2>6. NoneIn(stabs, l, r, {"SO"})
    BY <1>4 DEF NoneIn
  <2> QED
    BY <2>1, <2>5, <2>6, <1>1, <1>2, EndOfIs
<1> QED
  BY <1>3, <1>11, <1>12

(* Facts of the table and the locals that the next lemmas share.           *)
FileBounds(n, l, r, lf, rf) ==
  /\ n = Len(stabs) /\ l = loc.lfile /\ r = loc.rfile /\ lf = loc.lfun /\ rf = loc.rfun
  /\ l \in 1 .. r /\ r \in 1 .. n - 1
  /\ stabs[l + 1].type = "SO" /\ stabs[l + 1].value <= eip
  /\ \A k \in l + 1 .. r : stabs[k + 1].type # "SO"
  /\ r # n - 1 => stabs[r + 2].type = "SO" /\ stabs[r + 2].value > eip
  /\ r # n - 1 => stabs[r + 2].value \in Nat
  /\ Ordered(stabs, l, r, "FUN")
  /\ \A i \in 0 .. n - 1 : stabs[i + 1].value \in Nat

LEMMA FileFacts ==
  ASSUME LookupOK, FileIs(stabs, eip, loc)
  PROVE  \E n \in Nat \ {0}, l, r, lf, rf \in Int : FileBounds(n, l, r, lf, rf)
<1>1. K!Linked(stabs) /\ loc \in Locals /\ eip \in Nat
  BY DEF LookupOK, Lookup
<1>2. PICK n \in Nat \ {0} : n = Len(stabs)
  BY <1>1, Entries
<1>3. PICK l \in Int, r \in Int, lf \in Int, rf \in Int :
        l = loc.lfile /\ r = loc.rfile /\ lf = loc.lfun /\ rf = loc.rfun
  BY <1>1 DEF Locals
<1>4. /\ l \in 1 .. r /\ r \in 1 .. n - 1
      /\ stabs[l + 1].type = "SO" /\ stabs[l + 1].value <= eip
      /\ \A k \in l + 1 .. r : stabs[k + 1].type # "SO"
      /\ r # n - 1 => stabs[r + 2].type = "SO" /\ stabs[r + 2].value > eip
  BY <1>2, <1>3 DEF FileIs, NoneIn
<1>5. Ordered(stabs, l, r, "FUN")
  BY <1>1, <1>3, FunctionRegion
<1>6. \A i \in 0 .. n - 1 : stabs[i + 1].value \in Nat
  BY <1>1, <1>2, Entries
<1>7. r # n - 1 => stabs[r + 2].value \in Nat
  <2>1. r # n - 1 => r + 1 \in 0 .. n - 1 /\ r + 2 = r + 1 + 1
    BY <1>4
  <2> QED
    BY <2>1, <1>6
<1> QED
  BY <1>2, <1>3, <1>4, <1>5, <1>6, <1>7 DEF FileBounds

LEMMA InFunctionOf ==
  ASSUME LookupOK, FileIs(stabs, eip, loc), InFunction(stabs, eip, loc, info)
  PROVE  /\ K!Function = loc.lfun /\ K!EndOf(loc.lfun, {"SO", "FUN"}) = loc.rfun
         /\ K!Line = K!LastAt(loc.lfun, loc.rfun, "SLINE", loc.addr)
<1>a. PICK n \in Nat \ {0}, l, r, lf, rf \in Int : FileBounds(n, l, r, lf, rf)
  BY FileFacts
<1>0. n = Len(stabs) /\ l = loc.lfile /\ r = loc.rfile /\ lf = loc.lfun /\ rf = loc.rfun
  BY <1>a, Zenon DEF FileBounds
<1>1. /\ l \in 1 .. r /\ r \in 1 .. n - 1
      /\ \A k \in l + 1 .. r : stabs[k + 1].type # "SO"
      /\ r # n - 1 => stabs[r + 2].type = "SO" /\ stabs[r + 2].value > eip
      /\ r # n - 1 => stabs[r + 2].value \in Nat
      /\ Ordered(stabs, l, r, "FUN")
      /\ \A i \in 0 .. n - 1 : stabs[i + 1].value \in Nat
  BY <1>a, Zenon DEF FileBounds
<1>2. /\ lf \in l + 1 .. rf /\ rf \in l + 1 .. r
      /\ stabs[lf + 1].type = "FUN" /\ stabs[lf + 1].value <= eip
      /\ \A k \in lf + 1 .. rf : stabs[k + 1].type # "FUN"
      /\ rf # r => stabs[rf + 2].type = "FUN" /\ stabs[rf + 2].value > eip
      /\ loc.addr = eip - stabs[lf + 1].value
  BY <1>0, <1>1 DEF InFunction, NoneIn
<1>3. eip \in Nat /\ K!Linked(stabs)
  BY DEF LookupOK, Lookup
<1>4. PICK S : S = K!Containing(l, r, "FUN", eip)
  OBVIOUS
<1>5. S = {i \in l .. r : stabs[i + 1].type = "FUN" /\ stabs[i + 1].value <= eip}
  BY <1>4 DEF K!Containing, K!At
<1>6. lf \in S
  BY <1>1, <1>2, <1>5
<1>7. ASSUME NEW i \in S PROVE i <= lf
  <2>1. /\ i \in l .. r /\ i \in 0 .. n - 1
        /\ stabs[i + 1].type = "FUN" /\ stabs[i + 1].value <= eip
    BY <1>1, <1>5
  <2> SUFFICES ASSUME i > lf PROVE FALSE
    BY <2>1
  <2>2. i > rf
    BY <2>1, <1>2
  <2>3. rf + 1 \in l .. r /\ rf + 1 \in 0 .. n - 1 /\ rf + 1 + 1 = rf + 2 /\ rf # r
    BY <2>1, <2>2, <1>1, <1>2
  <2>4. stabs[rf + 1 + 1].type = "FUN" /\ stabs[rf + 1 + 1].value > eip
    BY <2>3, <1>2
  <2>5. rf + 1 \in OfType(stabs, l, r, "FUN") /\ i \in OfType(stabs, l, r, "FUN")
    BY <2>1, <2>3, <2>4 DEF OfType
  <2>6. i # rf + 1
    BY <2>1, <2>3, <2>4, <1>1, <1>3
  <2>7. stabs[rf + 1 + 1].value <= stabs[i + 1].value
    BY <2>1, <2>2, <2>5, <2>6, <1>1, <1>2 DEF Ordered
  <2>8. stabs[rf + 1 + 1].value \in Nat /\ stabs[i + 1].value \in Nat
    BY <2>1, <2>3, <1>1
  <2> QED
    BY <2>1, <2>4, <2>7, <2>8, <1>3
<1>8. K!Function = lf
  <2>1. K!LastAt(l, r, "FUN", eip) = lf
    BY <1>4, <1>6, <1>7, LastAtIs
  <2> QED
    BY <2>1, <1>0, <1>1, FileOf DEF K!Function
<1>9. K!EndOf(lf, {"SO", "FUN"}) = rf
  <2>1. lf \in 0 .. n - 1 /\ rf \in lf .. n - 1
    BY <1>1, <1>2
  <2>2. NoneIn(stabs, lf, rf, {"SO", "FUN"})
    BY <1>1, <1>2 DEF NoneIn
  <2>3. rf # n - 1 =>
          stabs[rf + 2].type \in {"SO", "FUN"} /\ stabs[rf + 2].value > stabs[lf + 1].value
    <3>1. CASE rf = r
      BY <3>1, <2>1, <1>1, <1>2, <1>3
    <3>2. CASE rf # r
      <4>1. rf + 1 \in 0 .. n - 1 /\ rf + 2 = rf + 1 + 1
        BY <3>2, <1>1, <1>2
      <4>2. stabs[rf + 2].value \in Nat
        BY <4>1, <1>1
      <4> QED
        BY <4>2, <3>2, <2>1, <1>1, <1>2, <1>3
    <3> QED
      BY <3>1, <3>2
  <2> QED
    BY <2>1, <2>2, <2>3, <1>0, <1>1, <1>3, EndOfIs
<1>10. K!Line = K!LastAt(lf, rf, "SLINE", loc.addr)
  <2>1. lf # -1
    BY <1>1, <1>2
  <2>2. K!First = lf
    BY <2>1, <1>8 DEF K!First
  <2>3. eip - K!At(K!Function).value = loc.addr
    BY <1>2, <1>8 DEF K!At
  <2> QED
    BY <2>1, <2>2, <2>3, <1>8, <1>9 DEF K!Line
<1> QED
  BY <1>0, <1>8, <1>9, <1>10

LEMMA NoFunctionsOf ==
  ASSUME LookupOK, FileIs(stabs, eip, loc), NoFunctions(stabs, eip, loc, info)
  PROVE  K!Function = -1 /\ K!Line = K!LastAt(loc.lfile, loc.rfile, "SLINE", loc.addr)
<1>a. PICK n \in Nat \ {0}, l, r, lf, rf \in Int : FileBounds(n, l, r, lf, rf)
  BY FileFacts
<1>0. n = Len(stabs) /\ l = loc.lfile /\ r = loc.rfile
  BY <1>a, Zenon DEF FileBounds
<1>1. /\ l \in 1 .. r /\ r \in 1 .. n - 1
      /\ stabs[l + 1].type = "SO" /\ stabs[l + 1].value <= eip
      /\ \A k \in l + 1 .. r : stabs[k + 1].type # "SO"
      /\ r # n - 1 => stabs[r + 2].type = "SO" /\ stabs[r + 2].value > eip
      /\ r # n - 1 => stabs[r + 2].value \in Nat
      /\ \A i \in 0 .. n - 1 : stabs[i + 1].value \in Nat
  BY <1>a, Zenon DEF FileBounds
<1>2. (\A k \in l + 1 .. r : stabs[k + 1].type # "FUN") /\ loc.addr = eip
  BY <1>0, <1>1 DEF NoFunctions, NoneIn
<1>3. eip \in Nat /\ K!Linked(stabs)
  BY DEF LookupOK, Lookup
<1>4. K!Containing(l, r, "FUN", eip) = {}
  <2>1. \A i \in l .. r : stabs[i + 1].type # "FUN"
    BY <1>1, <1>2
  <2> QED
    BY <2>1 DEF K!Containing, K!At
<1>5. K!Function = -1
  BY <1>0, <1>1, <1>4, FileOf, LastAtNone DEF K!Function
<1>6. K!EndOf(l, {"SO", "FUN"}) = r
  <2>1. l \in 0 .. n - 1 /\ r \in l .. n - 1
    BY <1>1
  <2>2. NoneIn(stabs, l, r, {"SO", "FUN"})
    BY <1>1, <1>2 DEF NoneIn
  <2>3. r # n - 1 =>
          stabs[r + 2].type \in {"SO", "FUN"} /\ stabs[r + 2].value > stabs[l + 1].value
    BY <2>1, <1>1, <1>3
  <2> QED
    BY <2>1, <2>2, <2>3, <1>0, <1>1, <1>3, EndOfIs
<1>7. K!First = l
  BY <1>0, <1>1, <1>5, FileOf DEF K!First
<1> QED
  BY <1>0, <1>1, <1>2, <1>5, <1>6, <1>7 DEF K!Line

LEMMA BeforeFunctionsOf ==
  ASSUME LookupOK, FileIs(stabs, eip, loc), BeforeFunctions(stabs, eip, loc)
  PROVE  K!Line = -1
<1>a. PICK n \in Nat \ {0}, l, r, lf, rf \in Int : FileBounds(n, l, r, lf, rf)
  BY FileFacts
<1>0. n = Len(stabs) /\ l = loc.lfile /\ r = loc.rfile /\ lf = loc.lfun /\ rf = loc.rfun
  BY <1>a, Zenon DEF FileBounds
<1>1. /\ l \in 1 .. r /\ r \in 1 .. n - 1
      /\ stabs[l + 1].type = "SO" /\ stabs[l + 1].value <= eip
      /\ \A k \in l + 1 .. r : stabs[k + 1].type # "SO"
      /\ Ordered(stabs, l, r, "FUN")
      /\ \A i \in 0 .. n - 1 : stabs[i + 1].value \in Nat
  BY <1>a, Zenon DEF FileBounds
<1>2. /\ rf \in l .. r - 1
      /\ \A k \in l + 1 .. rf : stabs[k + 1].type # "FUN"
      /\ stabs[rf + 2].type = "FUN" /\ stabs[rf + 2].value > eip
  BY <1>0, <1>1 DEF BeforeFunctions, NoneIn
<1>3. eip \in Nat /\ K!Linked(stabs) /\ DOMAIN stabs = 1 .. n
  BY <1>0, <1>1, Entries DEF LookupOK, Lookup
<1>4. /\ rf + 1 \in l .. r /\ rf + 1 \in 0 .. n - 1 /\ rf + 1 + 1 = rf + 2
  BY <1>1, <1>2
<1>5. K!Containing(l, r, "FUN", eip) = {}
  <2>1. ASSUME NEW i \in l .. r, stabs[i + 1].type = "FUN", stabs[i + 1].value <= eip
        PROVE  FALSE
    <3>1. i # l /\ i > rf
      BY <2>1, <1>1, <1>2
    <3>2. i \in 0 .. n - 1 /\ i # rf + 1
      <4>1. i \in 0 .. n - 1
        BY <1>1
      <4>2. stabs[i + 1].value \in Nat
        BY <4>1, <1>1
      <4>3. i = rf + 1 => stabs[i + 1].value > eip
        BY <1>2, <1>4
      <4> QED
        BY <4>1, <4>2, <4>3, <2>1, <1>3
    <3>3. rf + 1 \in OfType(stabs, l, r, "FUN") /\ i \in OfType(stabs, l, r, "FUN")
      BY <2>1, <1>2, <1>4 DEF OfType
    <3>4. stabs[rf + 1 + 1].value <= stabs[i + 1].value
      BY <3>1, <3>2, <3>3, <1>1, <1>2 DEF Ordered
    <3>5. stabs[rf + 1 + 1].value \in Nat /\ stabs[i + 1].value \in Nat
      BY <3>2, <1>1, <1>4
    <3>6. stabs[rf + 1 + 1].value > eip
      BY <1>2, <1>4
    <3> QED
      BY <3>4, <3>5, <3>6, <2>1, <1>3
  <2> QED
    BY <2>1 DEF K!Containing, K!At
<1>6. K!Function = -1
  BY <1>0, <1>1, <1>5, FileOf, LastAtNone DEF K!Function
<1>7. K!EndOf(l, {"SO", "FUN"}) = rf
  <2>1. l \in 0 .. n - 1 /\ rf \in l .. n - 1
    BY <1>1, <1>2
  <2>2. NoneIn(stabs, l, rf, {"SO", "FUN"})
    BY <1>1, <1>2 DEF NoneIn
  <2>3. stabs[rf + 2].type \in {"SO", "FUN"} /\ stabs[rf + 2].value > stabs[l + 1].value
    <3>1. stabs[rf + 2].value \in Nat /\ stabs[l + 1].value \in Nat
      BY <2>1, <1>1, <1>4
    <3> QED
      BY <3>1, <1>1, <1>2, <1>3
  <2> QED
    BY <2>1, <2>2, <2>3, <1>0, <1>1, <1>3, EndOfIs
<1>8. K!First = l
  BY <1>0, <1>1, <1>6, FileOf DEF K!First
<1>9. ASSUME NEW i \in l .. rf PROVE stabs[i + 1].type # "SLINE"
  <2> SUFFICES ASSUME stabs[i + 1].type = "SLINE" PROVE FALSE
    OBVIOUS
  <2>1. i # l
    BY <1>1
  <2>2. /\ l + 1 \in 1 .. n /\ i + 1 \in 1 .. n /\ rf + 2 \in 1 .. n
        /\ l + 1 < i + 1 /\ i + 1 < rf + 2
    BY <2>1, <1>1, <1>2, <1>4
  <2>3. K!Free(stabs, l + 1, rf + 2, {"SO"})
    <3>1. ASSUME NEW k \in (l + 1) + 1 .. (rf + 2) - 1 PROVE stabs[k].type \notin {"SO"}
      <4>1. k - 1 \in l + 1 .. r /\ (k - 1) + 1 = k
        BY <1>1, <1>2
      <4> QED
        BY <4>1, <1>1
    <3> QED
      BY <3>1 DEF K!Free
  <2>4. ~K!Free(stabs, l + 1, i + 1, {"FUN"})
    BY <2>2, <2>3, <1>1, <1>2, <1>3 DEF K!Linked, K!LinesInFunctions
  <2>5. PICK k \in (l + 1) + 1 .. (i + 1) - 1 : stabs[k].type = "FUN"
    BY <2>4 DEF K!Free
  <2>6. k - 1 \in l + 1 .. rf /\ (k - 1) + 1 = k
    BY <1>1, <1>2
  <2> QED
    BY <2>5, <2>6, <1>2
<1>10. K!Containing(l, rf, "SLINE", eip) = {}
  BY <1>9 DEF K!Containing, K!At
<1> QED
  BY <1>6, <1>7, <1>8, <1>10, LastAtNone DEF K!Line

(* The line, if there is one, is that of the search.                       *)
LEMMA LineOf ==
  ASSUME LookupOK, FileIs(stabs, eip, loc), FunctionIs(stabs, eip, loc, info), K!Line # -1
  PROVE  /\ \/ InFunction(stabs, eip, loc, info) /\ K!Function = loc.lfun
            \/ NoFunctions(stabs, eip, loc, info) /\ K!Function = -1
         /\ LinesUpTo(stabs, loc) # {}
         /\ \A x \in LinesUpTo(stabs, loc) :
              (\A i \in LinesUpTo(stabs, loc) : i <= x) => K!Line = x
<1>1. PICK lo \in Int, hi \in Int : lo = LineLo(loc) /\ hi = LineHi(loc)
  BY DEF LookupOK, Lookup, Locals, LineLo, LineHi
<1>2. LinesUpTo(stabs, loc) = K!Containing(lo, hi, "SLINE", loc.addr)
  BY <1>1 DEF LinesUpTo, UpTo, OfType, K!Containing, K!At
<1>3. /\ \/ InFunction(stabs, eip, loc, info) /\ K!Function = loc.lfun
         \/ NoFunctions(stabs, eip, loc, info) /\ K!Function = -1
      /\ K!Line = K!LastAt(lo, hi, "SLINE", loc.addr)
  <2>1. CASE InFunction(stabs, eip, loc, info)
    <3>1. lo = loc.lfun /\ hi = loc.rfun
      BY <2>1, <1>1 DEF InFunction, LineLo, LineHi, LookupOK, Lookup, Locals
    <3> QED
      BY <2>1, <3>1, InFunctionOf
  <2>2. CASE NoFunctions(stabs, eip, loc, info)
    <3>1. lo = loc.lfile /\ hi = loc.rfile
      BY <2>2, <1>1 DEF NoFunctions, LineLo, LineHi, LookupOK, Lookup, Locals
    <3> QED
      BY <2>2, <3>1, NoFunctionsOf
  <2>3. CASE BeforeFunctions(stabs, eip, loc)
    BY <2>3, BeforeFunctionsOf
  <2> QED
    BY <2>1, <2>2, <2>3 DEF FunctionIs
<1>4. LinesUpTo(stabs, loc) # {}
  BY <1>2, <1>3, LastAtNone
<1>5. ASSUME NEW x \in LinesUpTo(stabs, loc), \A i \in LinesUpTo(stabs, loc) : i <= x
      PROVE  K!Line = x
  BY <1>2, <1>3, <1>5, LastAtIs
<1> QED
  BY <1>3, <1>4, <1>5

(* The file that is reported: the last one named up to the line.           *)
LEMMA NamedFile ==
  ASSUME LookupOK, FileIs(stabs, eip, loc), NEW ln \in loc.lfile .. loc.rfile,
         NEW f \in loc.lfile .. ln, NamesFile(stabs, f),
         \A i \in f + 1 .. ln : ~NamesFile(stabs, i)
  PROVE  K!Highest({i \in 0 .. ln : K!At(i).type \in {"SO", "SOL"}}) = f
<1>a. PICK n \in Nat \ {0}, l, r, lf, rf \in Int : FileBounds(n, l, r, lf, rf)
  BY FileFacts
<1>0. n = Len(stabs) /\ l = loc.lfile /\ r = loc.rfile
  BY <1>a, Zenon DEF FileBounds
<1>1. /\ l \in 1 .. r /\ r \in 1 .. n - 1
      /\ \A k \in l + 1 .. r : stabs[k + 1].type # "SO"
  BY <1>a, Zenon DEF FileBounds
<1>2. PICK S : S = {i \in 0 .. ln : K!At(i).type \in {"SO", "SOL"}}
  OBVIOUS
<1>3. ln \in Int /\ f \in Int /\ l <= f /\ f <= ln /\ ln <= r
  BY <1>0
<1>4. S = {i \in 0 .. ln : stabs[i + 1].type \in {"SO", "SOL"}}
  BY <1>2 DEF K!At
<1>5. f \in S
  BY <1>1, <1>3, <1>4 DEF NamesFile
<1>6. ASSUME NEW i \in S PROVE i <= f
  <2>1. i \in 0 .. ln /\ stabs[i + 1].type \in {"SO", "SOL"}
    BY <1>4
  <2> SUFFICES ASSUME i > f PROVE FALSE
    BY <2>1, <1>3
  <2>2. i \in f + 1 .. ln /\ i \in l + 1 .. r
    BY <2>1, <1>1, <1>3
  <2>3. stabs[i + 1].type = "SOL"
    BY <2>1, <2>2, <1>1
  <2> QED
    BY <2>2, <2>3 DEF NamesFile
<1>7. S \in SUBSET (0 .. ln)
  BY <1>2
<1>8. K!Highest(S) = f
  BY <1>3, <1>5, <1>6, <1>7, HighestOf
<1> QED
  BY <1>2, <1>8

(* The arguments counted: all parameters, if none is in a register.        *)
LEMMA AllParameters ==
  ASSUME LookupOK, FileIs(stabs, eip, loc), InFunction(stabs, eip, loc, info),
         NEW ln \in loc.lfun .. loc.rfun, stabs[ln + 1].type = "SLINE",
         K!Entries("RSYM") = {}
  PROVE  K!Entries("PSYM") = Parameters(stabs, loc)
<1>a. PICK n \in Nat \ {0}, l, r, lf, rf \in Int : FileBounds(n, l, r, lf, rf)
  BY FileFacts
<1>0. n = Len(stabs) /\ l = loc.lfile /\ r = loc.rfile /\ lf = loc.lfun /\ rf = loc.rfun
  BY <1>a, Zenon DEF FileBounds
<1>1. /\ l \in 1 .. r /\ r \in 1 .. n - 1
      /\ \A k \in l + 1 .. r : stabs[k + 1].type # "SO"
  BY <1>a, Zenon DEF FileBounds
<1>2. /\ lf \in l + 1 .. rf /\ rf \in l + 1 .. r
      /\ stabs[lf + 1].type = "FUN"
      /\ \A k \in lf + 1 .. rf : stabs[k + 1].type # "FUN"
  BY <1>0, <1>1 DEF InFunction, NoneIn
<1>3. ln \in lf + 1 .. rf
  BY <1>0, <1>2
<1>4. K!Linked(stabs) /\ DOMAIN stabs = 1 .. n
  BY <1>0, <1>1, Entries DEF LookupOK, Lookup
<1>5. \A type : K!Entries(type) = {i \in lf + 1 .. rf : stabs[i + 1].type = type}
  <2>1. K!Function = lf /\ K!EndOf(lf, {"SO", "FUN"}) = rf
    BY <1>0, <1>1, InFunctionOf
  <2>2. lf # -1 /\ K!Function # -1
    BY <2>1, <1>1, <1>2
  <2>3. ASSUME NEW type
        PROVE  K!Entries(type) = {i \in lf + 1 .. rf : stabs[i + 1].type = type}
    <3>1. K!Entries(type) =
            {i \in 0 .. n - 1 : i > lf /\ i <= rf /\ stabs[i + 1].type = type}
      BY <2>1, <2>2, <1>0, <1>1 DEF K!Entries, K!Size, K!At
    <3> QED
      BY <3>1, <1>1, <1>2
  <2> QED
    BY <2>3
<1>6. \A k \in lf + 1 .. rf : stabs[k + 1].type # "RSYM"
  BY <1>5
<1>7. ASSUME NEW i \in lf + 1 .. rf, stabs[i + 1].type = "PSYM"
      PROVE  i \in lf + 1 .. rf - 1 /\ \A j \in lf + 1 .. i : stabs[j + 1].type = "PSYM"
  <2>1. /\ lf + 1 \in DOMAIN stabs /\ i + 1 \in DOMAIN stabs /\ lf + 1 < i + 1
    BY <1>1, <1>2, <1>4
  <2>2. K!Free(stabs, lf + 1, i + 1, {"SO", "FUN"})
    <3>1. ASSUME NEW k \in (lf + 1) + 1 .. (i + 1) - 1
          PROVE  stabs[k].type \notin {"SO", "FUN"}
      <4>1. k - 1 \in l + 1 .. r /\ k - 1 \in lf + 1 .. rf /\ (k - 1) + 1 = k
        BY <1>1, <1>2, <1>7
      <4> QED
        BY <4>1, <1>1, <1>2
    <3> QED
      BY <3>1 DEF K!Free
  <2>3. \A k \in (lf + 1) + 1 .. i + 1 : stabs[k].type \in {"PSYM", "RSYM"}
    BY <2>1, <2>2, <1>2, <1>4, <1>7 DEF K!Linked, K!ParametersFirst
  <2>4. ASSUME NEW j \in lf + 1 .. i PROVE stabs[j + 1].type = "PSYM"
    <3>1. j + 1 \in (lf + 1) + 1 .. i + 1 /\ j \in lf + 1 .. rf
      BY <1>2, <1>7
    <3> QED
      BY <3>1, <2>3, <1>6
  <2>5. i # rf
    BY <2>4, <1>3
  <2> QED
    BY <2>4, <2>5, <1>1, <1>7
<1>8. Parameters(stabs, loc) =
        {i \in lf + 1 .. rf - 1 : \A j \in lf + 1 .. i : stabs[j + 1].type = "PSYM"}
  BY <1>0, <1>1 DEF Parameters
<1>9. ASSUME NEW i \in Parameters(stabs, loc)
      PROVE  i \in lf + 1 .. rf /\ stabs[i + 1].type = "PSYM"
  <2>1. i \in lf + 1 .. rf - 1 /\ \A j \in lf + 1 .. i : stabs[j + 1].type = "PSYM"
    BY <1>8
  <2> QED
    BY <2>1, <1>1
<1> QED
  BY <1>5, <1>7, <1>8, <1>9

LEMMA LookupCorrect == LookupOK => K!InfoCorrect
<1> SUFFICES ASSUME LookupOK PROVE K!InfoCorrect
  OBVIOUS
<1>1. K!Linked(stabs) /\ loc \in Locals /\ eip \in Nat /\ Len(stabs) \in Nat
  BY Entries DEF LookupOK, Lookup
<1>2. ASSUME kpc = "done", K!Line # -1
      PROVE  /\ info.file =
                  K!At(K!Highest({i \in 0 .. K!Line : K!At(i).type \in {"SO", "SOL"}})).name
             /\ info.line = K!At(K!Line).desc
             /\ info.fn = IF K!Function = -1 THEN K!Unknown ELSE K!At(K!Function).name
             /\ info.addr = IF K!Function = -1 THEN eip ELSE K!At(K!Function).value
             /\ K!Entries("RSYM") = {} => info.narg = K!Cardinality(K!Entries("PSYM"))
  <2>1. /\ FileIs(stabs, eip, loc) /\ FunctionIs(stabs, eip, loc, info)
        /\ LineIs(stabs, loc, info)
    BY <1>2 DEF LookupOK, Lookup
  <2>2. PICK ln \in LinesUpTo(stabs, loc) :
          /\ \A i \in LinesUpTo(stabs, loc) : i <= ln
          /\ info.line = stabs[ln + 1].desc
          /\ \E f \in loc.lfile .. ln :
               /\ NamesFile(stabs, f) /\ \A i \in f + 1 .. ln : ~NamesFile(stabs, i)
               /\ info.file = stabs[f + 1].name
    BY <2>1, <1>2, LineOf DEF LineIs
  <2>3. K!Line = ln
    BY <2>1, <2>2, <1>2, LineOf
  <2>4. /\ ln \in LineLo(loc) .. LineHi(loc) /\ stabs[ln + 1].type = "SLINE"
    BY DEF LinesUpTo, UpTo, OfType
  <2>5. ln \in loc.lfile .. loc.rfile
    <3>1. loc.lfile <= LineLo(loc) /\ LineHi(loc) <= loc.rfile
      BY <2>1, <1>1, LineRegion
    <3>2. /\ LineLo(loc) \in Int /\ LineHi(loc) \in Int
          /\ loc.lfile \in Int /\ loc.rfile \in Int
      BY <1>1 DEF Locals, LineLo, LineHi
    <3> QED
      BY <3>1, <3>2, <2>4
  <2>6. info.file =
          K!At(K!Highest({i \in 0 .. K!Line : K!At(i).type \in {"SO", "SOL"}})).name
    <3>1. PICK f \in loc.lfile .. ln :
            /\ NamesFile(stabs, f) /\ \A i \in f + 1 .. ln : ~NamesFile(stabs, i)
            /\ info.file = stabs[f + 1].name
      BY <2>2
    <3>2. K!Highest({i \in 0 .. ln : K!At(i).type \in {"SO", "SOL"}}) = f
      BY <3>1, <2>1, <2>5, NamedFile
    <3> QED
      BY <3>1, <3>2, <2>3 DEF K!At
  <2>7. info.line = K!At(K!Line).desc
    BY <2>2, <2>3 DEF K!At
  <2>8. /\ info.fn = IF K!Function = -1 THEN K!Unknown ELSE K!At(K!Function).name
        /\ info.addr = IF K!Function = -1 THEN eip ELSE K!At(K!Function).value
        /\ K!Entries("RSYM") = {} => info.narg = K!Cardinality(K!Entries("PSYM"))
    <3>1. CASE InFunction(stabs, eip, loc, info) /\ K!Function = loc.lfun
      <4>1. loc.lfun # -1
        BY <2>1, <3>1, <1>1 DEF InFunction, FileIs, Locals
      <4>2. /\ info.fn = stabs[loc.lfun + 1].name /\ info.addr = stabs[loc.lfun + 1].value
        BY <3>1 DEF InFunction
      <4>3. ln \in loc.lfun .. loc.rfun
        BY <2>4, <3>1, <1>1 DEF InFunction, LineLo, LineHi, Locals
      <4>4. ASSUME K!Entries("RSYM") = {} PROVE info.narg = K!Cardinality(K!Entries("PSYM"))
        <5>1. K!Entries("PSYM") = Parameters(stabs, loc)
          BY <2>1, <2>4, <3>1, <4>3, <4>4, AllParameters
        <5>2. info.narg = Cardinality(Parameters(stabs, loc))
          BY <2>1 DEF LineIs
        <5> QED
          BY <5>1, <5>2, SameCardinality
      <4> QED
        BY <3>1, <4>1, <4>2, <4>4 DEF K!At
    <3>2. CASE NoFunctions(stabs, eip, loc, info) /\ K!Function = -1
      <4>1. info.fn = K!Unknown /\ info.addr = eip
        BY <3>2 DEF NoFunctions
      <4>2. K!Entries("PSYM") = {}
        BY <3>2 DEF K!Entries
      <4>3. Parameters(stabs, loc) = {}
        <5>1. loc.lfun \in Int /\ loc.rfun = loc.lfun - 1
          BY <3>2, <1>1 DEF NoFunctions, Locals
        <5>2. PICK a \in Int : a = loc.lfun
          BY <5>1
        <5>3. a + 1 .. (a - 1) - 1 = {}
          OBVIOUS
        <5> QED
          BY <5>1, <5>2, <5>3 DEF Parameters
      <4>4. info.narg = K!Cardinality(K!Entries("PSYM"))
        <5>1. info.narg = Cardinality(Parameters(stabs, loc))
          BY <2>1 DEF LineIs
        <5> QED
          BY <4>2, <4>3, <5>1, SameCardinality
      <4> QED
        BY <3>2, <4>1, <4>4
    <3> QED
      BY <3>1, <3>2, <2>1, <1>2, LineOf
  <2> QED
    BY <2>6, <2>7, <2>8
<1>3. ASSUME kpc = "failed" PROVE K!File = -1 \/ K!Line = -1
  <2>1. CASE \A i \in OfType(stabs, 0, Len(stabs) - 1, "SO") : stabs[i + 1].value > eip
    <3>1. K!Containing(0, K!Size - 1, "SO", eip) = {}
      <4>1. ASSUME NEW i \in 0 .. Len(stabs) - 1, stabs[i + 1].type = "SO",
                   stabs[i + 1].value <= eip
            PROVE  FALSE
        <5>1. stabs[i + 1].value > eip /\ stabs[i + 1].value \in Nat
          BY <2>1, <4>1, <1>1, Entries DEF OfType
        <5> QED
          BY <4>1, <5>1, <1>1
      <4> QED
        BY <4>1 DEF K!Containing, K!At, K!Size
    <3> QED
      BY <3>1, LastAtNone DEF K!File
  <2>2. CASE /\ FileIs(stabs, eip, loc) /\ FunctionIs(stabs, eip, loc, info)
             /\ OfType(stabs, LineLo(loc), LineHi(loc), "SLINE") = {}
    <3>1. LinesUpTo(stabs, loc) = {}
      BY <2>2 DEF LinesUpTo, UpTo
    <3> QED
      BY <2>2, <3>1, LineOf
  <2> QED
    BY <2>1, <2>2, <1>3 DEF LookupOK, Lookup
<1> QED
  BY <1>2, <1>3 DEF K!InfoCorrect

(* debuginfo_eip says of every return address of the kernel what the       *)
(* table says of it - the file that a line comes from even if it was       *)
(* included, the function and its first address, the line, the number of   *)
(* parameters that are all on the stack - and fails only where the table   *)
(* has no file or no line (kdebug.c:104-211).                              *)
THEOREM LookupsCorrect == Spec => []InfoCorrect
<1>1. MonitorOK => InfoCorrect
  BY LookupCorrect DEF MonitorOK, InfoCorrect
<1> QED
  BY <1>1, MonitorInvariant, PTL
=============================================================================
