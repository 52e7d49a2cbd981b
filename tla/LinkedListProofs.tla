-------------------------- MODULE LinkedListProofs --------------------------
(***************************************************************************)
(* LinksList is inductive.  The three insertions do the same thing at      *)
(* different places, which InsertionLinks states once; RemovalLinks is the *)
(* step of LIST_REMOVE.  Pred and Succ are the fields around place k.      *)
(***************************************************************************)
EXTENDS LinkedList, TLAPS

(* The head and the null pointer are no elements.                          *)
Distinct == ListHead \notin Elements /\ NULL \notin Elements

IInv == TypeOK /\ LinksList

Pred(k) == IF k = 1 THEN ListHead ELSE list[k - 1]
Succ(k) == IF k > Len(list) THEN NULL ELSE list[k]

(* The elements of the list are elements, and its places natural numbers.  *)
LEMMA Places ==
  ASSUME TypeOK
  PROVE  /\ Len(list) \in Nat
         /\ \A i \in 1 .. Len(list) : list[i] \in Elements
         /\ InList \subseteq Elements
  BY DEF TypeOK, InList

(* An element linked between its neighbours at place k is there in the list. *)
LEMMA InsertionLinks ==
  ASSUME Distinct, IInv,
         NEW k \in 1 .. Len(list) + 1, NEW e \in Elements, e \notin InList,
         next' = [next EXCEPT ![e] = Succ(k), ![Pred(k)] = e],
         prev' = IF k > Len(list) THEN [prev EXCEPT ![e] = Pred(k)]
                 ELSE [prev EXCEPT ![list[k]] = e, ![e] = Pred(k)],
         list' = Inserted(k, e)
  PROVE  IInv'
<1> DEFINE n == Len(list)
<1>1. /\ n \in Nat /\ InList \subseteq Elements
      /\ \A i \in 1 .. n : list[i] \in Elements /\ list[i] # e
  BY Places DEF IInv, InList
<1>2. /\ list' \in Seq(Elements) /\ Len(list') = n + 1
      /\ \A i \in 1 .. n + 1 :
           list'[i] = IF i < k THEN list[i] ELSE IF i = k THEN e ELSE list[i - 1]
  <2> DEFINE g == [i \in 1 .. n + 1 |->
                     IF i < k THEN list[i] ELSE IF i = k THEN e ELSE list[i - 1]]
  <2>1. list' = g
    BY DEF Inserted
  <2>2. g \in [1 .. n + 1 -> Elements]
    BY <1>1
  <2> HIDE DEF n
  <2>3. g \in Seq(Elements) /\ Len(g) = n + 1
    BY <2>2, <1>1
  <2> QED
    BY <2>1, <2>3
<1>3. Pred(k) \in Elements \cup {ListHead} /\ Succ(k) \in Elements \cup {NULL}
  BY <1>1 DEF Pred, Succ
<1>4. Pred(k) # e
  BY <1>1, Distinct DEF Pred, Distinct
<1>5. /\ next \in [Elements \cup {ListHead} -> Elements \cup {NULL}]
      /\ prev \in [Elements -> Elements \cup {ListHead}]
  BY DEF IInv, TypeOK
<1>6. TypeOK'
  BY <1>1, <1>2, <1>3, <1>5 DEF TypeOK
<1>7. /\ next'[e] = Succ(k) /\ next'[Pred(k)] = e
      /\ \A x \in Elements \cup {ListHead} :
           x # e /\ x # Pred(k) => next'[x] = next[x]
  BY <1>3, <1>4, <1>5
<1>8. /\ prev'[e] = Pred(k)
      /\ k <= n => prev'[list[k]] = e
      /\ \A x \in Elements :
           x # e /\ (k <= n => x # list[k]) => prev'[x] = prev[x]
  BY <1>1, <1>3, <1>5
<1>9. \A i, j \in 1 .. n : list[i] = list[j] => i = j
  BY DEF IInv, LinksList
<1>10. /\ next[ListHead] = IF list = <<>> THEN NULL ELSE list[1]
       /\ \A i \in 1 .. n : /\ next[list[i]] = IF i = n THEN NULL ELSE list[i + 1]
                            /\ prev[list[i]] = IF i = 1 THEN ListHead ELSE list[i - 1]
  BY DEF IInv, LinksList
<1>11. next'[ListHead] = IF list' = <<>> THEN NULL ELSE list'[1]
  <2>1. list' # <<>>
    BY <1>1, <1>2
  <2>2. CASE k = 1
    <3>1. list'[1] = e
      BY <2>2, <1>1, <1>2
    <3>2. next'[ListHead] = e
      BY <2>2, <1>7 DEF Pred
    <3> QED
      BY <2>1, <3>1, <3>2
  <2>3. CASE k # 1
    <3>1. k - 1 \in 1 .. n /\ Pred(k) = list[k - 1] /\ Pred(k) # ListHead
      BY <2>3, <1>1, Distinct DEF Pred, Distinct
    <3>2. next'[ListHead] = next[ListHead]
      BY <3>1, <1>7, Distinct DEF Distinct
    <3>3. list # <<>>
      BY <3>1
    <3>4. 1 \in 1 .. n + 1 /\ 1 < k
      BY <2>3, <1>1
    <3>5. list'[1] = list[1]
      BY <3>4, <1>2
    <3> QED
      BY <2>1, <3>2, <3>3, <3>5, <1>10
  <2> QED
    BY <2>2, <2>3
<1>12. ASSUME NEW i \in 1 .. n + 1
       PROVE  next'[list'[i]] = IF i = n + 1 THEN NULL ELSE list'[i + 1]
  <2>1. CASE i < k - 1
    <3>1. list'[i] = list[i] /\ list'[i + 1] = list[i + 1] /\ i \in 1 .. n /\ i # n
      BY <2>1, <1>1, <1>2
    <3>2. Pred(k) = list[k - 1] /\ k - 1 \in 1 .. n /\ list[i] # list[k - 1]
      BY <2>1, <3>1, <1>1, <1>9 DEF Pred
    <3>3. next'[list[i]] = next[list[i]]
      BY <3>1, <3>2, <1>1, <1>7
    <3>4. next[list[i]] = list[i + 1] /\ i # n + 1
      BY <3>1, <1>1, <1>10
    <3> QED
      BY <3>1, <3>3, <3>4
  <2>2. CASE i = k - 1
    <3>1. list'[i] = Pred(k) /\ list'[i + 1] = e /\ i # n + 1
      BY <2>2, <1>1, <1>2 DEF Pred
    <3> QED
      BY <3>1, <1>7
  <2>3. CASE i = k
    <3>1. list'[i] = e /\ (i # n + 1 => list'[i + 1] = list[i])
      BY <2>3, <1>1, <1>2
    <3> QED
      BY <2>3, <3>1, <1>1, <1>7 DEF Succ
  <2>4. CASE i > k
    <3>1. /\ i - 1 \in 1 .. n /\ list'[i] = list[i - 1]
          /\ i # n + 1 => list'[i + 1] = list[i]
      BY <2>4, <1>1, <1>2
    <3>2. list[i - 1] # Pred(k) /\ list[i - 1] \in Elements /\ list[i - 1] # e
      BY <2>4, <3>1, <1>1, <1>9, Distinct DEF Pred, Distinct
    <3>3. next'[list[i - 1]] = next[list[i - 1]]
      BY <3>2, <1>7
    <3>4. next[list[i - 1]] = IF i = n + 1 THEN NULL ELSE list[i]
      BY <3>1, <1>1, <1>10
    <3> QED
      BY <3>1, <3>3, <3>4
  <2> QED
    BY <1>1, <2>1, <2>2, <2>3, <2>4
<1>13. ASSUME NEW i \in 1 .. n + 1
       PROVE  prev'[list'[i]] = IF i = 1 THEN ListHead ELSE list'[i - 1]
  <2>1. CASE i < k
    <3>1. /\ i \in 1 .. n /\ list'[i] = list[i] /\ list[i] # e /\ list[i] \in Elements
          /\ i # 1 => list'[i - 1] = list[i - 1]
      BY <2>1, <1>1, <1>2
    <3>2. k <= n => list[i] # list[k]
      BY <2>1, <3>1, <1>1, <1>9
    <3>3. prev'[list[i]] = prev[list[i]]
      BY <3>1, <3>2, <1>8
    <3>4. prev[list[i]] = IF i = 1 THEN ListHead ELSE list[i - 1]
      BY <3>1, <1>10
    <3> QED
      BY <3>1, <3>3, <3>4
  <2>2. CASE i = k
    <3>1. list'[i] = e /\ (i # 1 => list'[i - 1] = list[i - 1])
      BY <2>2, <1>1, <1>2
    <3> QED
      BY <2>2, <3>1, <1>8 DEF Pred
  <2>3. CASE i = k + 1
    <3>1. list'[i] = list[k] /\ list'[i - 1] = e /\ k <= n /\ i # 1
      BY <2>3, <1>1, <1>2
    <3> QED
      BY <3>1, <1>8
  <2>4. CASE i > k + 1
    <3>1. /\ i - 1 \in 1 .. n /\ i - 1 # 1 /\ list'[i] = list[i - 1]
          /\ list'[i - 1] = list[i - 2] /\ list[i - 1] # e /\ list[i - 1] \in Elements
      BY <2>4, <1>1, <1>2
    <3>2. k <= n /\ list[i - 1] # list[k]
      BY <2>4, <3>1, <1>1, <1>9
    <3>3. prev'[list[i - 1]] = prev[list[i - 1]]
      BY <3>1, <3>2, <1>8
    <3>4. prev[list[i - 1]] = list[(i - 1) - 1]
      BY <3>1, <1>10
    <3> QED
      BY <2>4, <3>1, <3>3, <3>4
  <2> QED
    BY <1>1, <2>1, <2>2, <2>3, <2>4
<1>14. ASSUME NEW i \in 1 .. n + 1, NEW j \in 1 .. n + 1, list'[i] = list'[j]
       PROVE  i = j
  <2> DEFINE old(h) == IF h < k THEN h ELSE h - 1
  <2>1. CASE i = k \/ j = k
    <3>1. \A h \in 1 .. n + 1 : h # k => list'[h] # e
      <4> SUFFICES ASSUME NEW h \in 1 .. n + 1, h # k
                   PROVE  list'[h] # e
        OBVIOUS
      <4>1. old(h) \in 1 .. n /\ list'[h] = list[old(h)]
        BY <1>1, <1>2
      <4> QED
        BY <4>1, <1>1
    <3>2. list'[k] = e
      BY <1>2
    <3> QED
      BY <2>1, <3>1, <3>2, <1>14
  <2>2. CASE i # k /\ j # k
    <3>1. /\ old(i) \in 1 .. n /\ list'[i] = list[old(i)]
          /\ old(j) \in 1 .. n /\ list'[j] = list[old(j)]
      BY <2>2, <1>1, <1>2
    <3>2. old(i) = old(j)
      BY <3>1, <1>14, <1>9
    <3> QED
      BY <3>2, <2>2, <1>1
  <2> QED
    BY <2>1, <2>2
<1> QED
  <2>1. \A i \in 1 .. Len(list') :
          /\ next'[list'[i]] = IF i = Len(list') THEN NULL ELSE list'[i + 1]
          /\ prev'[list'[i]] = IF i = 1 THEN ListHead ELSE list'[i - 1]
    BY <1>2, <1>12, <1>13
  <2>2. \A i, j \in 1 .. Len(list') : list'[i] = list'[j] => i = j
    BY <1>2, <1>14
  <2>3. LinksList'
    BY <2>1, <2>2, <1>11 DEF LinksList
  <2> QED
    BY <2>3, <1>6 DEF IInv

(* Taking out the element at place k joins its neighbours.                 *)
LEMMA RemovalLinks ==
  ASSUME Distinct, IInv, NEW k \in 1 .. Len(list), LIST_REMOVE(k)
  PROVE  IInv'
<1> DEFINE n == Len(list)
           e == list[k]
           at(i) == IF i < k THEN i ELSE i + 1
<1>1. /\ n \in Nat /\ e \in Elements
      /\ \A i \in 1 .. n : list[i] \in Elements
  BY Places DEF IInv
<1>2. \A i, j \in 1 .. n : list[i] = list[j] => i = j
  BY DEF IInv, LinksList
<1>3. /\ next[ListHead] = IF list = <<>> THEN NULL ELSE list[1]
      /\ \A i \in 1 .. n : /\ next[list[i]] = IF i = n THEN NULL ELSE list[i + 1]
                           /\ prev[list[i]] = IF i = 1 THEN ListHead ELSE list[i - 1]
  BY DEF IInv, LinksList
<1>4. /\ next \in [Elements \cup {ListHead} -> Elements \cup {NULL}]
      /\ prev \in [Elements -> Elements \cup {ListHead}]
  BY DEF IInv, TypeOK
<1>5. next[e] = Succ(k + 1) /\ prev[e] = Pred(k)
  BY <1>1, <1>3 DEF Pred, Succ
<1>6. /\ list' \in Seq(Elements) /\ Len(list') = n - 1
      /\ \A i \in 1 .. n - 1 : at(i) \in 1 .. n /\ list'[i] = list[at(i)]
  <2> DEFINE g == [i \in 1 .. n - 1 |-> IF i < k THEN list[i] ELSE list[i + 1]]
  <2>1. list' = g
    BY DEF LIST_REMOVE, Removed
  <2>2. g \in [1 .. n - 1 -> Elements] /\ n - 1 \in Nat
    BY <1>1
  <2>3. \A i \in 1 .. n - 1 : at(i) \in 1 .. n /\ g[i] = list[at(i)]
    BY <1>1
  <2> HIDE DEF n
  <2>4. g \in Seq(Elements) /\ Len(g) = n - 1
    BY <2>2
  <2> HIDE DEF g, at
  <2> QED
    BY <2>1, <2>3, <2>4
<1>7. Pred(k) \in Elements \cup {ListHead} /\ Succ(k + 1) \in Elements \cup {NULL}
  BY <1>1 DEF Pred, Succ
<1>8. /\ next' = [next EXCEPT ![Pred(k)] = Succ(k + 1)]
      /\ prev' = IF Succ(k + 1) # NULL THEN [prev EXCEPT ![Succ(k + 1)] = Pred(k)] ELSE prev
  BY <1>5 DEF LIST_REMOVE
<1>9. TypeOK'
  BY <1>4, <1>6, <1>7, <1>8 DEF TypeOK
<1>10. /\ next'[Pred(k)] = Succ(k + 1)
       /\ \A x \in Elements \cup {ListHead} : x # Pred(k) => next'[x] = next[x]
  BY <1>4, <1>7, <1>8
<1>11. /\ k < n => prev'[list[k + 1]] = Pred(k)
       /\ \A x \in Elements :
            (k < n => x # list[k + 1]) => prev'[x] = prev[x]
  <2>1. Succ(k + 1) = IF k < n THEN list[k + 1] ELSE NULL
    BY <1>1 DEF Succ
  <2>2. k < n => list[k + 1] \in Elements /\ list[k + 1] # NULL
    BY <1>1, Distinct DEF Distinct
  <2> QED
    BY <2>1, <2>2, <1>4, <1>7, <1>8
<1>12. next'[ListHead] = IF list' = <<>> THEN NULL ELSE list'[1]
  <2>1. list' = <<>> <=> n = 1
    BY <1>1, <1>6
  <2>2. CASE k = 1
    <3>1. Pred(k) = ListHead /\ Succ(k + 1) = IF n = 1 THEN NULL ELSE list[2]
      BY <2>2, <1>1 DEF Pred, Succ
    <3>2. n # 1 => list'[1] = list[2]
      BY <2>2, <1>1, <1>6
    <3> QED
      BY <2>1, <3>1, <3>2, <1>10
  <2>3. CASE k # 1
    <3>1. Pred(k) = list[k - 1] /\ k - 1 \in 1 .. n /\ n # 1 /\ list # <<>>
      BY <2>3, <1>1 DEF Pred
    <3>2. next'[ListHead] = next[ListHead]
      BY <3>1, <1>1, <1>10, Distinct DEF Distinct
    <3>3. list'[1] = list[1]
      BY <2>3, <3>1, <1>1, <1>6
    <3> QED
      BY <2>1, <3>1, <3>2, <3>3, <1>3
  <2> QED
    BY <2>2, <2>3
<1>13. ASSUME NEW i \in 1 .. n - 1
       PROVE  next'[list'[i]] = IF i = n - 1 THEN NULL ELSE list'[i + 1]
  <2>1. list'[i] = list[at(i)] /\ at(i) \in 1 .. n
    BY <1>6
  <2>2. CASE i = k - 1
    <3>1. list'[i] = Pred(k) /\ (i # n - 1 => list'[i + 1] = list[k + 1])
      BY <2>2, <1>1, <1>6 DEF Pred
    <3> QED
      BY <2>2, <3>1, <1>1, <1>10 DEF Succ
  <2>3. CASE i # k - 1
    <3>1. list[at(i)] # Pred(k) /\ list[at(i)] \in Elements
      <4>1. k # 1 => Pred(k) = list[k - 1] /\ k - 1 \in 1 .. n /\ at(i) # k - 1
        BY <2>3, <2>1, <1>1 DEF Pred
      <4>2. k = 1 => Pred(k) = ListHead
        BY DEF Pred
      <4> QED
        BY <4>1, <4>2, <2>1, <1>1, <1>2, Distinct DEF Distinct
    <3>2. next'[list'[i]] = next[list[at(i)]]
      BY <2>1, <3>1, <1>10
    <3>3. next[list[at(i)]] = IF at(i) = n THEN NULL ELSE list[at(i) + 1]
      BY <2>1, <1>3
    <3>4. at(i) = n <=> i = n - 1
      BY <2>3, <1>1
    <3>5. i # n - 1 => list'[i + 1] = list[at(i) + 1]
      BY <2>3, <1>1, <1>6
    <3> QED
      BY <3>2, <3>3, <3>4, <3>5
  <2> QED
    BY <2>2, <2>3
<1>14. ASSUME NEW i \in 1 .. n - 1
       PROVE  prev'[list'[i]] = IF i = 1 THEN ListHead ELSE list'[i - 1]
  <2>1. list'[i] = list[at(i)] /\ at(i) \in 1 .. n
    BY <1>6
  <2>2. CASE i = k
    <3>1. list'[i] = list[k + 1] /\ k < n
      BY <2>1, <2>2, <1>1
    <3>2. i # 1 => list'[i - 1] = list[k - 1]
      <4>1. i # 1 => i - 1 \in 1 .. n - 1 /\ at(i - 1) = k - 1
        BY <2>2, <1>1
      <4> QED
        BY <4>1, <2>2, <1>6
    <3> QED
      BY <2>2, <3>1, <3>2, <1>11 DEF Pred
  <2>3. CASE i # k
    <3>1. k < n => list[at(i)] # list[k + 1]
      BY <2>3, <2>1, <1>1, <1>2
    <3>2. prev'[list'[i]] = prev[list[at(i)]]
      BY <2>1, <3>1, <1>1, <1>11
    <3>3. prev[list[at(i)]] = IF at(i) = 1 THEN ListHead ELSE list[at(i) - 1]
      BY <2>1, <1>3
    <3>4. at(i) = 1 <=> i = 1
      BY <2>3, <1>1
    <3>5. i # 1 => list'[i - 1] = list[at(i) - 1]
      BY <2>3, <1>1, <1>6
    <3> QED
      BY <3>2, <3>3, <3>4, <3>5
  <2> QED
    BY <2>2, <2>3
<1>15. ASSUME NEW i \in 1 .. n - 1, NEW j \in 1 .. n - 1, list'[i] = list'[j]
       PROVE  i = j
  <2>1. at(i) = at(j)
    BY <1>15, <1>6, <1>2
  <2> QED
    BY <2>1, <1>1
<1> QED
  <2>1. \A i \in 1 .. Len(list') :
          /\ next'[list'[i]] = IF i = Len(list') THEN NULL ELSE list'[i + 1]
          /\ prev'[list'[i]] = IF i = 1 THEN ListHead ELSE list'[i - 1]
    BY <1>6, <1>13, <1>14
  <2>2. \A i, j \in 1 .. Len(list') : list'[i] = list'[j] => i = j
    BY <1>6, <1>15
  <2>3. LinksList'
    BY <2>1, <2>2, <1>12 DEF LinksList
  <2> QED
    BY <2>3, <1>9 DEF IInv

(* Every macro of inc/queue.h leaves lists whose links are right.          *)
LEMMA StepLinks ==
  ASSUME Distinct, IInv, [Next]_vars
  PROVE  IInv'
<1>1. /\ Len(list) \in Nat /\ InList \subseteq Elements
      /\ \A i \in 1 .. Len(list) : list[i] \in Elements
  BY Places DEF IInv
<1>2. /\ next[ListHead] = IF list = <<>> THEN NULL ELSE list[1]
      /\ \A i \in 1 .. Len(list) :
           /\ next[list[i]] = IF i = Len(list) THEN NULL ELSE list[i + 1]
           /\ prev[list[i]] = IF i = 1 THEN ListHead ELSE list[i - 1]
  BY DEF IInv, LinksList
<1>3. list = <<>> <=> Len(list) = 0
  BY DEF IInv, TypeOK
<1>4. CASE LIST_INIT
  <2>1. TypeOK'
    BY <1>4 DEF IInv, TypeOK, LIST_INIT
  <2>2. next'[ListHead] = NULL /\ list' = <<>> /\ Len(list') = 0
    BY <1>4 DEF IInv, TypeOK, LIST_INIT
  <2> QED
    BY <2>1, <2>2 DEF IInv, LinksList
<1>5. ASSUME NEW e \in Elements, LIST_INSERT_HEAD(e)
      PROVE  IInv'
  <2>1. 1 \in 1 .. Len(list) + 1 /\ e \notin InList /\ list' = Inserted(1, e)
    BY <1>1, <1>5 DEF LIST_INSERT_HEAD
  <2>2. next[ListHead] = Succ(1) /\ Pred(1) = ListHead
    BY <1>1, <1>2, <1>3 DEF Succ, Pred
  <2>3. next' = [next EXCEPT ![e] = Succ(1), ![Pred(1)] = e]
    BY <1>5, <2>2 DEF LIST_INSERT_HEAD, LinkAfter
  <2>4. next[ListHead] # NULL <=> ~(1 > Len(list))
    BY <1>1, <1>2, <1>3, Distinct DEF Distinct
  <2>5. 1 <= Len(list) => next[ListHead] = list[1]
    BY <1>2, <1>3
  <2>6. prev' = IF 1 > Len(list) THEN [prev EXCEPT ![e] = Pred(1)]
                ELSE [prev EXCEPT ![list[1]] = e, ![e] = Pred(1)]
    <3>1. prev' = IF next[ListHead] # NULL
                  THEN [prev EXCEPT ![next[ListHead]] = e, ![e] = ListHead]
                  ELSE [prev EXCEPT ![e] = ListHead]
      BY <1>5 DEF LIST_INSERT_HEAD, LinkAfter
    <3>2. CASE 1 > Len(list)
      BY <3>1, <3>2, <2>2, <2>4
    <3>3. CASE ~(1 > Len(list))
      <4>1. next[ListHead] = list[1]
        BY <3>3, <2>5, <1>1
      <4> QED
        BY <3>1, <3>3, <4>1, <2>2, <2>4
    <3> QED
      BY <3>2, <3>3
  <2> QED
    BY <2>1, <2>3, <2>6, InsertionLinks
<1>6. ASSUME NEW k \in 1 .. Len(list), NEW e \in Elements, LIST_INSERT_AFTER(k, e)
      PROVE  IInv'
  <2>1. k + 1 \in 1 .. Len(list) + 1 /\ e \notin InList /\ list' = Inserted(k + 1, e)
    BY <1>1, <1>6 DEF LIST_INSERT_AFTER
  <2>2. next[list[k]] = Succ(k + 1) /\ Pred(k + 1) = list[k]
    BY <1>1, <1>2 DEF Succ, Pred
  <2>3. next' = [next EXCEPT ![e] = Succ(k + 1), ![Pred(k + 1)] = e]
    BY <1>6, <2>2 DEF LIST_INSERT_AFTER, LinkAfter
  <2>4. next[list[k]] # NULL <=> ~(k + 1 > Len(list))
    BY <1>1, <1>2, Distinct DEF Distinct
  <2>5. k + 1 <= Len(list) => next[list[k]] = list[k + 1]
    BY <1>1, <1>2
  <2>6. prev' = IF k + 1 > Len(list) THEN [prev EXCEPT ![e] = Pred(k + 1)]
                ELSE [prev EXCEPT ![list[k + 1]] = e, ![e] = Pred(k + 1)]
    <3>1. prev' = IF next[list[k]] # NULL
                  THEN [prev EXCEPT ![next[list[k]]] = e, ![e] = list[k]]
                  ELSE [prev EXCEPT ![e] = list[k]]
      BY <1>6 DEF LIST_INSERT_AFTER, LinkAfter
    <3>2. CASE k + 1 > Len(list)
      BY <3>1, <3>2, <2>2, <2>4
    <3>3. CASE ~(k + 1 > Len(list))
      <4>1. next[list[k]] = list[k + 1]
        BY <3>3, <2>5, <1>1
      <4> QED
        BY <3>1, <3>3, <4>1, <2>2, <2>4
    <3> QED
      BY <3>2, <3>3
  <2> QED
    BY <2>1, <2>3, <2>6, InsertionLinks
<1>7. ASSUME NEW k \in 1 .. Len(list), NEW e \in Elements, LIST_INSERT_BEFORE(k, e)
      PROVE  IInv'
  <2>1. k \in 1 .. Len(list) + 1 /\ e \notin InList /\ list' = Inserted(k, e)
    BY <1>1, <1>7 DEF LIST_INSERT_BEFORE
  <2>2. Succ(k) = list[k] /\ Pred(k) = prev[list[k]] /\ ~(k > Len(list))
    BY <1>1, <1>2 DEF Succ, Pred
  <2>3. next' = [next EXCEPT ![e] = Succ(k), ![Pred(k)] = e]
    BY <1>7, <2>2 DEF LIST_INSERT_BEFORE
  <2>4. list[k] # e /\ list[k] \in Elements
    BY <1>1, <2>1 DEF InList
  <2>5. prev' = [prev EXCEPT ![list[k]] = e, ![e] = Pred(k)]
    BY <1>7, <2>2, <2>4 DEF LIST_INSERT_BEFORE, IInv, TypeOK
  <2> QED
    BY <2>1, <2>2, <2>3, <2>5, InsertionLinks
<1>8. CASE UNCHANGED vars
  BY <1>8 DEF IInv, TypeOK, LinksList, vars
<1> QED
  BY <1>4, <1>5, <1>6, <1>7, <1>8, RemovalLinks DEF Next

(* The links are those of the list after any run of the macros on a list,  *)
(* of any number of elements (inc/queue.h:160-217).                        *)
THEOREM ListCorrect ==
  ASSUME Distinct
  PROVE  Spec => []LinksList
<1>1. Init => IInv
  <2> SUFFICES ASSUME Init
               PROVE  IInv
    OBVIOUS
  <2>1. list = <<>> /\ Len(list) = 0 /\ list \in Seq(Elements)
    BY DEF Init
  <2> QED
    BY <2>1 DEF Init, IInv, TypeOK, LinksList
<1>2. IInv /\ [Next]_vars => IInv'
  BY StepLinks
<1>3. IInv => LinksList
  BY DEF IInv
<1> QED
  BY <1>1, <1>2, <1>3, PTL DEF Spec
=============================================================================
