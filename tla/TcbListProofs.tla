--------------------------- MODULE TcbListProofs ---------------------------
(***************************************************************************)
(* The pointer structure of kernel/list.c is well formed in every          *)
(* reachable state, for any set of threads and any set of lists.           *)
(***************************************************************************)
EXTENDS TcbList, ListLemmas

\* A thread is listed when it is an element of some list.
LEMMA ListedElement ==
    \A p \in [ListNames -> Seq(Tids)] : \A t :
        t \in Listed(p)
          <=> \E m \in ListNames : \E i \in 1..Len(p[m]) : p[m][i] = t
  <1> TAKE p \in [ListNames -> Seq(Tids)]
  <1> TAKE t
  <1>1. \A m \in ListNames : m \in DOMAIN p /\ DOMAIN p[m] = 1..Len(p[m])
    BY LenProperties
  <1>2. QED
    BY <1>1 DEF Listed, ToSet

(***************************************************************************)
(* Inv is inductive.                                                       *)
(***************************************************************************)
Inv == TypeOK /\ Disjoint /\ Linked

LEMMA InitInv == Init => Inv
  <1> SUFFICES ASSUME Init PROVE Inv
    OBVIOUS
  <1>1. TypeOK
    BY DEF Init, TypeOK, TidOrNull
  <1>2. Disjoint
    BY DEF Init, Disjoint
  <1>3. Linked
    BY DEF Init, Linked
  <1>4. QED
    BY <1>1, <1>2, <1>3 DEF Inv

\* A step that leaves the lists alone.
LEMMA UnchangedInv ==
    ASSUME Inv, UNCHANGED <<head, tail, prev, next, q>>, removed' \in TidOrNull
    PROVE  Inv'
  <1>1. TypeOK'
    BY DEF Inv, TypeOK
  <1>2. Disjoint'
    BY DEF Inv, Disjoint
  <1>3. Linked'
    BY DEF Inv, Linked, LinkedAt
  <1>4. QED
    BY <1>1, <1>2, <1>3 DEF Inv

\* What an operation on list l has to establish: the list becomes r, r is
\* linked, and the links change only for threads that are or were in the list.
Relinked(l, r) ==
    /\ q' = [q EXCEPT ![l] = r]
    /\ \A m \in ListNames :
         /\ head'[m] = IF m # l THEN head[m]
                       ELSE IF Len(r) = 0 THEN NULL_TID ELSE r[1]
         /\ tail'[m] = IF m # l THEN tail[m]
                       ELSE IF Len(r) = 0 THEN NULL_TID ELSE r[Len(r)]
    /\ \A k \in 1..Len(r) :
         /\ prev'[r[k]] = IF k = 1 THEN NULL_TID ELSE r[k - 1]
         /\ next'[r[k]] = IF k = Len(r) THEN NULL_TID ELSE r[k + 1]
    /\ \A m \in ListNames \ {l} : \A i \in 1..Len(q[m]) :
         /\ prev'[q[m][i]] = prev[q[m][i]]
         /\ next'[q[m][i]] = next[q[m][i]]
    /\ \A x \in Tids : (\A k \in 1..Len(r) : r[k] # x)
                       /\ (\A m \in ListNames \ {l} : \A i \in 1..Len(q[m]) : q[m][i] # x)
                          => prev'[x] = NULL_TID /\ next'[x] = NULL_TID

\* Relinking one list keeps all of them linked.
LEMMA Relink ==
    ASSUME Inv, NEW l \in ListNames, NEW r \in Seq(Tids), Relinked(l, r)
    PROVE  Linked'
  <1>1. /\ q' \in [ListNames -> Seq(Tids)]
        /\ q'[l] = r
        /\ \A m \in ListNames \ {l} : q'[m] = q[m]
    BY DEF Inv, TypeOK, Relinked
  <1>2. \A m \in ListNames :
          /\ head'[m] = IF Len(q'[m]) = 0 THEN NULL_TID ELSE q'[m][1]
          /\ tail'[m] = IF Len(q'[m]) = 0 THEN NULL_TID ELSE q'[m][Len(q'[m])]
    BY <1>1 DEF Inv, Linked, Relinked
  <1>3. ASSUME NEW m \in ListNames, NEW i \in 1..Len(q'[m])
        PROVE  LinkedAt(m, i)'
    <2>1. CASE m = l
      BY <1>1, <1>3, <2>1 DEF LinkedAt, Relinked
    <2>2. CASE m # l
      BY <1>1, <1>3, <2>2 DEF LinkedAt, Inv, Linked, Relinked
    <2>3. QED
      BY <2>1, <2>2
  <1>4. ASSUME NEW x \in Tids, x \notin Listed(q')
        PROVE  prev'[x] = NULL_TID /\ next'[x] = NULL_TID
    <2>1. \A m \in ListNames : \A i \in 1..Len(q'[m]) : q'[m][i] # x
      <3>1. \A m \in ListNames : m \in DOMAIN q' /\ DOMAIN q'[m] = 1..Len(q'[m])
        BY <1>1, LenProperties
      <3>2. QED
        BY <1>4, <3>1 DEF Listed, ToSet
    <2>2. QED
      BY <1>1, <2>1 DEF Relinked
  <1>5. QED
    BY <1>2, <1>3, <1>4 DEF Linked

\* Insertion into an empty list, at the tail and at the head.
LEMMA InsertInv ==
    ASSUME Inv, NEW l \in ListNames, NEW t \in Tids, NEW at_tail \in BOOLEAN,
           InsertAtEnd(l, t, at_tail)
    PROVE  Inv'
  <1> DEFINE s == q[l]
             n == Len(s)
             r == IF at_tail THEN Append(s, t) ELSE <<t>> \o s
  <1>0. s \in Seq(Tids) /\ n \in Nat
    BY DEF Inv, TypeOK
  <1>1. /\ \A m \in ListNames : q[m] \in Seq(Tids) /\ Len(q[m]) \in Nat
        /\ \A m \in ListNames : \A i \in 1..Len(q[m]) : q[m][i] \in Tids
    BY DEF Inv, TypeOK
  <1>2. /\ r \in Seq(Tids)
        /\ Len(r) = n + 1
        /\ \A i \in 1..n + 1 :
             r[i] = IF at_tail THEN IF i = n + 1 THEN t ELSE s[i]
                    ELSE IF i = 1 THEN t ELSE s[i - 1]
    BY <1>0, InsertSeq
  <1>3. /\ q' = [q EXCEPT ![l] = r]
        /\ \A m \in ListNames : \A i \in 1..Len(q[m]) : q[m][i] # t
    <2>1. q' = [q EXCEPT ![l] = r]
      BY DEF InsertAtEnd, list_insert_at_end
    <2>2. t \notin Listed(q)
      BY DEF InsertAtEnd
    <2>3. \A m \in ListNames : m \in DOMAIN q /\ DOMAIN q[m] = 1..Len(q[m])
      BY <1>1, LenProperties DEF Inv, TypeOK
    <2>4. QED
      BY <2>1, <2>2, <2>3 DEF Listed, ToSet
  <1> HIDE DEF r, s, n
  <1>4. /\ q' \in [ListNames -> Seq(Tids)]
        /\ \A m \in ListNames : q'[m] = IF m = l THEN r ELSE q[m]
    BY <1>2, <1>3 DEF Inv, TypeOK
  <1>5. TypeOK'
    <2>1. head[l] \in TidOrNull /\ tail[l] \in TidOrNull
      BY DEF Inv, TypeOK
    <2> USE DEF Inv, TypeOK, TidOrNull
    <2>2. CASE InsertIntoEmpty(l, t)
      BY <1>4, <2>2 DEF InsertAtEnd, InsertIntoEmpty
    <2>3. CASE at_tail /\ InsertAtTail(l, t)
      BY <1>4, <2>1, <2>3, Zenon DEF InsertAtEnd, InsertAtTail
    <2>4. CASE ~at_tail /\ InsertAtHead(l, t)
      BY <1>4, <2>1, <2>4, Zenon DEF InsertAtEnd, InsertAtHead
    <2>5. QED
      BY <2>2, <2>3, <2>4 DEF InsertAtEnd
  <1>6. Disjoint'
    <2> SUFFICES ASSUME NEW a \in ListNames, NEW b \in ListNames,
                        NEW i \in 1..Len(q'[a]), NEW j \in 1..Len(q'[b]),
                        q'[a][i] = q'[b][j]
                 PROVE  a = b /\ i = j
      BY DEF Disjoint
    <2>1. \A k \in 1..n : s[k] # t
      BY <1>3 DEF s, n
    <2>2. \A k, h \in 1..n : s[k] = s[h] => k = h
      BY <1>0 DEF s, n, Inv, Disjoint
    <2>3. ASSUME NEW m \in ListNames \ {l}, NEW h \in 1..Len(q[m]), NEW k \in 1..n + 1
          PROVE  r[k] # q[m][h]
      <3>1. q[m][h] # t
        BY <1>3
      <3>2. \A g \in 1..n : s[g] # q[m][h]
        BY <1>0 DEF s, n, Inv, Disjoint
      <3>3. r[k] = t \/ \E g \in 1..n : r[k] = s[g]
        BY <1>0, <1>2
      <3>4. QED
        BY <3>1, <3>2, <3>3
    <2>4. CASE a = l /\ b = l
      <3>1. i \in 1..n + 1 /\ j \in 1..n + 1 /\ r[i] = r[j]
        BY <1>2, <1>4, <2>4
      <3>2. \/ \A k \in 1..n + 1 : r[k] = IF k = n + 1 THEN t ELSE s[k]
            \/ \A k \in 1..n + 1 : r[k] = IF k = 1 THEN t ELSE s[k - 1]
        BY <1>2
      <3>3. \A k, h \in 1..n + 1 : r[k] = r[h] => k = h
        BY <1>0, <2>1, <2>2, <3>2, InsertInjective
      <3>4. QED
        BY <2>4, <3>1, <3>3
    <2>5. CASE a = l /\ b # l
      <3>1. i \in 1..n + 1 /\ j \in 1..Len(q[b]) /\ r[i] = q[b][j]
        BY <1>2, <1>4, <2>5
      <3>2. QED
        BY <2>3, <2>5, <3>1
    <2>6. CASE a # l /\ b = l
      <3>1. j \in 1..n + 1 /\ i \in 1..Len(q[a]) /\ r[j] = q[a][i]
        BY <1>2, <1>4, <2>6
      <3>2. QED
        BY <2>3, <2>6, <3>1
    <2>7. CASE a # l /\ b # l
      BY <1>4, <2>7 DEF Inv, Disjoint
    <2>8. QED
      BY <2>4, <2>5, <2>6, <2>7
  <1>7. Linked'
    <2>1. \A k \in 1..n : s[k] \in Tids /\ s[k] # t /\ s[k] # NULL_TID
      BY <1>1, <1>3, NullAssumption DEF s, n
    <2>2. /\ n = 0 => head[l] = NULL_TID /\ tail[l] = NULL_TID
          /\ n > 0 => head[l] = s[1] /\ tail[l] = s[n]
          /\ IsEmpty(l) <=> n = 0
      BY <1>0, <2>1 DEF s, n, Inv, Linked, IsEmpty
    <2>3. \A k, h \in 1..n : s[k] = s[h] => k = h
      BY <1>0 DEF s, n, Inv, Disjoint
    <2>4. \A k \in 1..n : /\ prev[s[k]] = IF k = 1 THEN NULL_TID ELSE s[k - 1]
                          /\ next[s[k]] = IF k = n THEN NULL_TID ELSE s[k + 1]
      BY DEF s, n, Inv, Linked, LinkedAt
    <2>5. \A m \in ListNames : /\ head'[m] = IF m = l THEN r[1] ELSE head[m]
                               /\ tail'[m] = IF m = l THEN r[n + 1] ELSE tail[m]
      <3>1. CASE InsertIntoEmpty(l, t)
        BY <1>0, <1>2, <2>2, <3>1 DEF InsertIntoEmpty, Inv, TypeOK
      <3>2. CASE at_tail /\ InsertAtTail(l, t)
        BY <1>0, <1>2, <2>2, <3>2 DEF InsertAtTail, Inv, TypeOK
      <3>3. CASE ~at_tail /\ InsertAtHead(l, t)
        BY <1>0, <1>2, <2>2, <3>3 DEF InsertAtHead, Inv, TypeOK
      <3>4. QED
        BY <3>1, <3>2, <3>3 DEF InsertAtEnd
    <2>6. \A x \in Tids : (\A k \in 1..n : x # s[k]) /\ x # t
                             => prev'[x] = prev[x] /\ next'[x] = next[x]
      <3>1. CASE InsertIntoEmpty(l, t)
        BY <3>1 DEF InsertIntoEmpty, Inv, TypeOK
      <3>2. CASE at_tail /\ InsertAtTail(l, t)
        BY <1>0, <2>2, <3>2 DEF InsertAtTail, Inv, TypeOK
      <3>3. CASE ~at_tail /\ InsertAtHead(l, t)
        BY <1>0, <2>2, <3>3 DEF InsertAtHead, Inv, TypeOK
      <3>4. QED
        BY <3>1, <3>2, <3>3 DEF InsertAtEnd
    <2>7. \A k \in 1..n + 1 :
             /\ prev'[r[k]] = IF k = 1 THEN NULL_TID ELSE r[k - 1]
             /\ next'[r[k]] = IF k = n + 1 THEN NULL_TID ELSE r[k + 1]
      <3>1. CASE InsertIntoEmpty(l, t)
        BY <1>0, <1>2, <2>2, <3>1 DEF InsertIntoEmpty, Inv, TypeOK
      <3>2. CASE at_tail /\ InsertAtTail(l, t)
        <4>1. \A x \in Tids :
                /\ prev'[x] = IF x = t THEN s[n] ELSE prev[x]
                /\ next'[x] = IF x = s[n] THEN t ELSE IF x = t THEN NULL_TID ELSE next[x]
          BY <1>0, <2>1, <2>2, <3>2 DEF InsertAtTail, Inv, TypeOK
        <4>2. /\ n > 0
              /\ r[n + 1] = t
              /\ \A k \in 1..n : r[k] = s[k]
          BY <1>0, <1>2, <2>2, <3>2 DEF InsertAtTail
        <4> TAKE k \in 1..n + 1
        <4>3. CASE k = n + 1
          BY <1>0, <2>1, <4>1, <4>2, <4>3
        <4>4. CASE k \in 1..n
          <5>1. k = n \/ s[k] # s[n]
            BY <1>0, <2>3, <4>2, <4>4
          <5>2. /\ r[k] = s[k] /\ s[k] \in Tids /\ s[k] # t
                /\ k < n => r[k + 1] = s[k + 1]
                /\ k > 1 => r[k - 1] = s[k - 1]
            BY <1>0, <2>1, <4>2, <4>4
          <5>3. prev'[r[k]] = IF k = 1 THEN NULL_TID ELSE r[k - 1]
            BY <2>4, <4>1, <4>4, <5>2
          <5>4. next'[r[k]] = r[k + 1]
            BY <1>0, <2>4, <4>1, <4>2, <4>4, <5>1, <5>2
          <5>5. QED
            BY <1>0, <4>4, <5>3, <5>4
        <4>5. QED
          BY <1>0, <4>3, <4>4
      <3>3. CASE ~at_tail /\ InsertAtHead(l, t)
        <4>1. \A x \in Tids :
                /\ next'[x] = IF x = t THEN s[1] ELSE next[x]
                /\ prev'[x] = IF x = s[1] THEN t ELSE IF x = t THEN NULL_TID ELSE prev[x]
          BY <1>0, <2>1, <2>2, <3>3 DEF InsertAtHead, Inv, TypeOK
        <4>2. /\ n > 0
              /\ r[1] = t
              /\ \A k \in 2..n + 1 : k - 1 \in 1..n /\ r[k] = s[k - 1]
          BY <1>0, <1>2, <2>2, <3>3 DEF InsertAtHead
        <4> TAKE k \in 1..n + 1
        <4>3. CASE k = 1
          BY <1>0, <2>1, <4>1, <4>2, <4>3
        <4>4. CASE k \in 2..n + 1
          <5>1. k - 1 \in 1..n /\ (k = 2 \/ s[k - 1] # s[1])
            BY <1>0, <2>3, <4>2, <4>4
          <5>2. /\ s[k - 1] \in Tids /\ s[k - 1] # t
                /\ prev[s[k - 1]] = IF k - 1 = 1 THEN NULL_TID ELSE s[(k - 1) - 1]
                /\ next[s[k - 1]] = IF k - 1 = n THEN NULL_TID ELSE s[(k - 1) + 1]
            BY <2>1, <2>4, <5>1
          <5>3. /\ r[k] = s[k - 1]
                /\ k < n + 1 => k + 1 \in 2..n + 1 /\ r[k + 1] = s[(k + 1) - 1]
                /\ k > 2 => k - 1 \in 2..n + 1 /\ r[k - 1] = s[(k - 1) - 1]
            BY <1>0, <4>2, <4>4
          <5>4. next'[r[k]] = IF k = n + 1 THEN NULL_TID ELSE r[k + 1]
            BY <1>0, <4>1, <4>4, <5>2, <5>3
          <5>5. prev'[r[k]] = r[k - 1]
            BY <1>0, <4>1, <4>2, <4>4, <5>1, <5>2, <5>3
          <5>6. QED
            BY <1>0, <4>4, <5>4, <5>5
        <4>5. QED
          BY <1>0, <4>3, <4>4
      <3>4. QED
        BY <3>1, <3>2, <3>3 DEF InsertAtEnd
    <2>8. ASSUME NEW m \in ListNames \ {l}, NEW i \in 1..Len(q[m])
          PROVE  prev'[q[m][i]] = prev[q[m][i]] /\ next'[q[m][i]] = next[q[m][i]]
      <3>1. q[m][i] \in Tids /\ q[m][i] # t
        BY <1>1, <1>3
      <3>2. \A k \in 1..n : q[m][i] # s[k]
        BY DEF s, n, Inv, Disjoint
      <3>3. QED
        BY <2>6, <3>1, <3>2
    <2>9. ASSUME NEW x \in Tids, \A k \in 1..Len(r) : r[k] # x,
                 \A m \in ListNames \ {l} : \A i \in 1..Len(q[m]) : q[m][i] # x
          PROVE  prev'[x] = NULL_TID /\ next'[x] = NULL_TID
      <3>1. x # t /\ \A k \in 1..n : s[k] # x
        <4>1. r[n + 1] # x /\ r[1] # x
          BY <1>0, <1>2, <2>9
        <4>2. CASE at_tail
          BY <1>0, <1>2, <2>9, <4>1, <4>2
        <4>3. CASE ~at_tail
          <5>1. \A k \in 1..n : k + 1 \in 1..n + 1 /\ r[k + 1] = s[k]
            BY <1>0, <1>2, <4>3
          <5>2. QED
            BY <1>0, <1>2, <2>9, <4>1, <4>3, <5>1
        <4>4. QED
          BY <4>2, <4>3
      <3>2. x \notin Listed(q)
        <4>1. x \in Listed(q) <=> \E m \in ListNames : \E i \in 1..Len(q[m]) : q[m][i] = x
          BY ListedElement DEF Inv, TypeOK
        <4>2. QED
          BY <2>9, <3>1, <4>1 DEF s, n
      <3>3. QED
        BY <2>6, <3>1, <3>2 DEF Inv, Linked
    <2>10. Len(r) = n + 1 /\ Len(r) # 0
      BY <1>0, <1>2
    <2>11. \A m \in ListNames :
              /\ head'[m] = IF m # l THEN head[m]
                            ELSE IF Len(r) = 0 THEN NULL_TID ELSE r[1]
              /\ tail'[m] = IF m # l THEN tail[m]
                            ELSE IF Len(r) = 0 THEN NULL_TID ELSE r[Len(r)]
      BY <2>5, <2>10
    <2>12. \A k \in 1..Len(r) :
              /\ prev'[r[k]] = IF k = 1 THEN NULL_TID ELSE r[k - 1]
              /\ next'[r[k]] = IF k = Len(r) THEN NULL_TID ELSE r[k + 1]
      BY <2>7, <2>10
    <2>13. QED
      <3>1. Relinked(l, r)
        BY <1>3, <2>8, <2>9, <2>11, <2>12 DEF Relinked
      <3>2. QED
        BY <1>2, <3>1, Relink
  <1>8. QED
    BY <1>5, <1>6, <1>7 DEF Inv

\* Unlinking element j of list l: its neighbours are linked to each other,
\* and the ends of the list move when the element was one of them.
Unlinked(l, j, r) ==
    LET n == Len(q[l])
        t == q[l][j]
    IN  /\ q' = [q EXCEPT ![l] = r]
        /\ Len(r) = n - 1
        /\ \A i \in 1..n - 1 : r[i] = IF i < j THEN q[l][i] ELSE q[l][i + 1]
        /\ \A m \in ListNames :
             /\ head'[m] = IF m = l /\ j = 1 THEN next[t] ELSE head[m]
             /\ tail'[m] = IF m = l /\ j = n THEN prev[t] ELSE tail[m]
        /\ \A x \in Tids :
             /\ prev'[x] = IF x = t THEN NULL_TID
                           ELSE IF x = next[t] THEN prev[t] ELSE prev[x]
             /\ next'[x] = IF x = t THEN NULL_TID
                           ELSE IF x = prev[t] THEN next[t] ELSE next[x]

LEMMA UnlinkInv ==
    ASSUME Inv, NEW l \in ListNames, NEW j \in 1..Len(q[l]), NEW r \in Seq(Tids),
           Unlinked(l, j, r)
    PROVE  Disjoint' /\ Linked'
  <1> DEFINE s == q[l]
             n == Len(s)
             t == s[j]
  <1>0. /\ n \in Nat \ {0} /\ j \in 1..n
        /\ Len(r) = n - 1
        /\ \A m \in ListNames :
             /\ head'[m] = IF m = l /\ j = 1 THEN next[t] ELSE head[m]
             /\ tail'[m] = IF m = l /\ j = n THEN prev[t] ELSE tail[m]
    BY DEF Inv, TypeOK, Unlinked
  <1>p. \A x \in Tids : prev'[x] = IF x = t THEN NULL_TID
                                   ELSE IF x = next[t] THEN prev[t] ELSE prev[x]
    BY DEF Unlinked
  <1>n. \A x \in Tids : next'[x] = IF x = t THEN NULL_TID
                                   ELSE IF x = prev[t] THEN next[t] ELSE next[x]
    BY DEF Unlinked
  <1>1. /\ \A m \in ListNames : q[m] \in Seq(Tids) /\ Len(q[m]) \in Nat
        /\ \A m \in ListNames : \A i \in 1..Len(q[m]) : q[m][i] \in Tids
    BY DEF Inv, TypeOK
  <1>2. \A m \in ListNames : q'[m] = IF m = l THEN r ELSE q[m]
    BY DEF Inv, TypeOK, Unlinked
  <1>3. /\ \A k \in 1..n : s[k] \in Tids /\ s[k] # NULL_TID
        /\ \A k, h \in 1..n : s[k] = s[h] => k = h
    BY <1>1, NullAssumption DEF Inv, Disjoint
  <1>4. \A m \in ListNames \ {l} : \A i \in 1..Len(q[m]) : \A k \in 1..n : q[m][i] # s[k]
    BY DEF Inv, Disjoint
  <1>5. \A k \in 1..n : /\ prev[s[k]] = IF k = 1 THEN NULL_TID ELSE s[k - 1]
                        /\ next[s[k]] = IF k = n THEN NULL_TID ELSE s[k + 1]
    BY DEF Inv, Linked, LinkedAt
  <1>6. head[l] = s[1] /\ tail[l] = s[n]
    BY DEF Inv, Linked
  <1>7. /\ t = s[j] /\ t \in Tids
        /\ prev[t] = IF j = 1 THEN NULL_TID ELSE s[j - 1]
        /\ next[t] = IF j = n THEN NULL_TID ELSE s[j + 1]
    BY <1>3, <1>5
  <1>8. \A i \in 1..n - 1 : r[i] = IF i < j THEN s[i] ELSE s[i + 1]
    BY DEF Unlinked
  <1> HIDE DEF s, n, t
  <1>9. Disjoint'
    <2> SUFFICES ASSUME NEW a \in ListNames, NEW b \in ListNames,
                        NEW i \in 1..Len(q'[a]), NEW h \in 1..Len(q'[b]),
                        q'[a][i] = q'[b][h]
                 PROVE  a = b /\ i = h
      BY DEF Disjoint
    <2>1. \A k \in 1..n - 1 : \E g \in 1..n : r[k] = s[g]
      BY <1>0, <1>8
    <2>2. \A k, g \in 1..n - 1 : r[k] = r[g] => k = g
      BY <1>0, <1>3, <1>8
    <2>3. CASE a = l /\ b = l
      BY <1>0, <1>2, <2>2, <2>3
    <2>4. CASE a = l /\ b # l
      <3>1. i \in 1..n - 1 /\ h \in 1..Len(q[b]) /\ r[i] = q[b][h]
        BY <1>0, <1>2, <2>4
      <3>2. PICK g \in 1..n : r[i] = s[g]
        BY <1>0, <2>1, <3>1
      <3>3. QED
        BY <1>0, <1>4, <2>4, <3>1, <3>2, Zenon
    <2>5. CASE a # l /\ b = l
      <3>1. h \in 1..n - 1 /\ i \in 1..Len(q[a]) /\ r[h] = q[a][i]
        BY <1>0, <1>2, <2>5
      <3>2. PICK g \in 1..n : r[h] = s[g]
        BY <1>0, <2>1, <3>1
      <3>3. QED
        BY <1>0, <1>4, <2>5, <3>1, <3>2, Zenon
    <2>6. CASE a # l /\ b # l
      BY <1>0, <1>2, <2>6 DEF Inv, Disjoint
    <2>7. QED
      BY <1>0, <2>3, <2>4, <2>5, <2>6
  <1>10. \A m \in ListNames :
              /\ head'[m] = IF m # l THEN head[m]
                            ELSE IF Len(r) = 0 THEN NULL_TID ELSE r[1]
              /\ tail'[m] = IF m # l THEN tail[m]
                            ELSE IF Len(r) = 0 THEN NULL_TID ELSE r[Len(r)]
    <2>1. head'[l] = IF n = 1 THEN NULL_TID ELSE r[1]
      <3>1. n > 1 => r[1] = IF j = 1 THEN s[1 + 1] ELSE s[1]
        BY <1>0, <1>8
      <3>2. CASE j = 1
        BY <1>0, <1>7, <3>1, <3>2
      <3>3. CASE j > 1
        BY <1>0, <1>6, <3>1, <3>3
      <3>4. QED
        BY <1>0, <3>2, <3>3
    <2>2. tail'[l] = IF n = 1 THEN NULL_TID ELSE r[n - 1]
      <3>1. CASE j = n
        <4>1. n > 1 => r[n - 1] = s[n - 1]
          BY <1>0, <1>8, <3>1
        <4>2. QED
          BY <1>0, <1>7, <3>1, <4>1
      <3>2. CASE j < n
        <4>1. n - 1 \in 1..n - 1 /\ r[n - 1] = s[(n - 1) + 1]
          BY <1>0, <1>8, <3>2
        <4>2. QED
          BY <1>0, <1>6, <3>2, <4>1
      <3>3. QED
        BY <1>0, <3>1, <3>2
    <2>3. QED
      BY <1>0, <2>1, <2>2
  <1>11. ASSUME NEW k \in 1..Len(r)
         PROVE  /\ prev'[r[k]] = IF k = 1 THEN NULL_TID ELSE r[k - 1]
                /\ next'[r[k]] = IF k = Len(r) THEN NULL_TID ELSE r[k + 1]
    <2>0. k \in 1..n - 1 /\ Len(r) = n - 1
      BY <1>0
    <2>1. CASE k < j
      <3>1. /\ k \in 1..n /\ r[k] = s[k] /\ s[k] # t
            /\ s[k] # next[t]
            /\ s[k] = prev[t] <=> k = j - 1
            /\ k > 1 => r[k - 1] = s[k - 1]
        BY <1>0, <1>3, <1>7, <1>8, <2>1
      <3>2. k < n - 1 => r[k + 1] = IF k + 1 < j THEN s[k + 1] ELSE s[(k + 1) + 1]
        BY <1>0, <1>8, <2>1
      <3>3. prev'[r[k]] = IF k = 1 THEN NULL_TID ELSE r[k - 1]
        BY <1>0, <1>p, <1>3, <1>5, <3>1
      <3>4. next'[r[k]] = IF k = n - 1 THEN NULL_TID ELSE r[k + 1]
        <4>1. next[s[k]] = s[k + 1] /\ s[k] \in Tids
          BY <1>0, <1>3, <1>5, <2>0, <2>1, <3>1
        <4>2. CASE k = j - 1
          <5>1. next'[r[k]] = next[t]
            BY <1>0, <1>n, <3>1, <4>1, <4>2
          <5>2. QED
            BY <1>0, <1>7, <2>0, <3>2, <4>2, <5>1
        <4>3. CASE k < j - 1
          <5>1. next'[r[k]] = s[k + 1]
            BY <1>0, <1>n, <3>1, <4>1, <4>3
          <5>2. QED
            BY <1>0, <2>0, <3>2, <4>3, <5>1
        <4>4. QED
          BY <1>0, <2>1, <4>2, <4>3
      <3>5. QED
        BY <1>0, <2>0, <3>3, <3>4
    <2>2. CASE k >= j
      <3>1. /\ k + 1 \in 1..n /\ r[k] = s[k + 1] /\ s[k + 1] # t
            /\ s[k + 1] # prev[t]
            /\ s[k + 1] = next[t] <=> k = j
        BY <1>0, <1>3, <1>7, <1>8, <2>2
      <3>2. k > 1 => r[k - 1] = IF k - 1 < j THEN s[k - 1] ELSE s[(k - 1) + 1]
        BY <1>0, <1>8, <2>2
      <3>3. k < n - 1 => r[k + 1] = s[(k + 1) + 1]
        BY <1>0, <1>8, <2>0, <2>2
      <3>4. /\ prev[s[k + 1]] = s[(k + 1) - 1]
            /\ next[s[k + 1]] = IF k + 1 = n THEN NULL_TID ELSE s[(k + 1) + 1]
        BY <1>0, <1>5, <3>1
      <3>5. prev'[r[k]] = IF k = 1 THEN NULL_TID ELSE r[k - 1]
        <4>1. s[k + 1] \in Tids
          BY <1>3, <3>1
        <4>2. CASE k = j
          <5>1. prev'[r[k]] = prev[t]
            BY <1>p, <3>1, <4>1, <4>2
          <5>2. QED
            BY <1>0, <1>7, <2>0, <3>2, <4>2, <5>1
        <4>3. CASE k > j
          <5>1. prev'[r[k]] = s[(k + 1) - 1]
            BY <1>0, <1>p, <3>1, <3>4, <4>1, <4>3
          <5>2. QED
            BY <1>0, <2>0, <3>2, <4>3, <5>1
        <4>4. QED
          BY <1>0, <2>0, <2>2, <4>2, <4>3
      <3>6. next'[r[k]] = IF k = n - 1 THEN NULL_TID ELSE r[k + 1]
        BY <1>0, <1>n, <1>3, <2>2, <3>1, <3>3, <3>4
      <3>7. QED
        BY <1>0, <2>0, <3>5, <3>6
    <2>3. QED
      BY <1>0, <2>1, <2>2
  <1>12. ASSUME NEW m \in ListNames \ {l}, NEW i \in 1..Len(q[m])
         PROVE  prev'[q[m][i]] = prev[q[m][i]] /\ next'[q[m][i]] = next[q[m][i]]
    <2>1. q[m][i] \in Tids /\ q[m][i] # NULL_TID
      BY <1>0, <1>1, NullAssumption
    <2>2. q[m][i] # t /\ q[m][i] # prev[t] /\ q[m][i] # next[t]
      BY <1>0, <1>4, <1>7, <2>1
    <2>3. QED
      BY <1>p, <1>n, <2>1, <2>2
  <1>13. ASSUME NEW x \in Tids, \A k \in 1..Len(r) : r[k] # x,
                \A m \in ListNames \ {l} : \A i \in 1..Len(q[m]) : q[m][i] # x
         PROVE  prev'[x] = NULL_TID /\ next'[x] = NULL_TID
    <2>1. CASE x = t
      BY <1>p, <1>n, <2>1
    <2>2. CASE x # t
      <3>1. ASSUME NEW k \in 1..n PROVE s[k] # x
        <4>1. CASE k < j
          BY <1>0, <1>8, <1>13, <4>1
        <4>2. CASE k > j
          <5>1. k - 1 \in 1..n - 1 /\ r[k - 1] = s[(k - 1) + 1]
            BY <1>0, <1>8, <4>2
          <5>2. QED
            BY <1>0, <1>13, <5>1
        <4>3. CASE k = j
          BY <1>0, <1>7, <2>2, <4>3
        <4>4. QED
          BY <1>0, <4>1, <4>2, <4>3
      <3>2. x # prev[t] /\ x # next[t]
        BY <1>0, <1>7, <3>1, NullAssumption
      <3>3. x \notin Listed(q)
        <4>1. x \in Listed(q) <=> \E m \in ListNames : \E i \in 1..Len(q[m]) : q[m][i] = x
          BY ListedElement DEF Inv, TypeOK
        <4>2. QED
          BY <1>13, <3>1, <4>1 DEF s, n
      <3>4. QED
        BY <1>p, <1>n, <2>2, <3>2, <3>3 DEF Inv, Linked
    <2>3. QED
      BY <1>0, <2>1, <2>2
  <1>14. Linked'
    <2>1. q' = [q EXCEPT ![l] = r]
      BY DEF Unlinked
    <2>2. Relinked(l, r)
      BY <1>10, <1>11, <1>12, <1>13, <2>1 DEF Relinked
    <2>3. QED
      BY <2>2, Relink
  <1>15. QED
    BY <1>0, <1>9, <1>14

\* Removal from an end.
LEMMA RemoveFromEndInv ==
    ASSUME Inv, NEW l \in ListNames, NEW at_tail \in BOOLEAN,
           RemoveFromEnd(l, at_tail)
    PROVE  Inv'
  <1> DEFINE s == q[l]
             n == Len(s)
             r == IF at_tail THEN SubSeq(s, 1, n - 1) ELSE SubSeq(s, 2, n)
             j == IF at_tail THEN n ELSE 1
  <1>0. /\ s \in Seq(Tids) /\ n \in Nat
        /\ \A k \in 1..n : s[k] \in Tids /\ s[k] # NULL_TID
    BY NullAssumption DEF Inv, TypeOK
  <1>1. /\ n = 0 => head[l] = NULL_TID /\ tail[l] = NULL_TID
        /\ n # 0 => head[l] = s[1] /\ tail[l] = s[n]
        /\ n # 0 => head[l] # NULL_TID /\ tail[l] # NULL_TID
    BY <1>0 DEF Inv, Linked
  <1>2. CASE n = 0
    <2>1. q' = q
      <3>1. q' = [q EXCEPT ![l] = s]
        BY <1>2 DEF RemoveFromEnd, list_remove_from_end
      <3>2. QED
        BY <3>1 DEF Inv, TypeOK
    <2>2. UNCHANGED <<head, tail, prev, next>> /\ removed' = NULL_TID
      BY <1>1, <1>2 DEF RemoveFromEnd, RemoveTail, RemoveHead, RemoveNothing
    <2>3. QED
      BY <2>1, <2>2, UnchangedInv DEF TidOrNull
  <1>3. CASE n # 0
    <2>1. /\ r \in Seq(Tids) /\ Len(r) = n - 1
          /\ \A i \in 1..n - 1 : r[i] = IF i < j THEN s[i] ELSE s[i + 1]
      BY <1>0, <1>3, ShortenSeq
    <2>2. q' = [q EXCEPT ![l] = r]
      BY <1>3 DEF RemoveFromEnd, list_remove_from_end
    <2>3. j \in 1..n
      BY <1>0, <1>3
    <2>4. /\ prev[s[j]] = IF j = 1 THEN NULL_TID ELSE s[j - 1]
          /\ next[s[j]] = IF j = n THEN NULL_TID ELSE s[j + 1]
      BY <2>3, Zenon DEF Inv, Linked, LinkedAt
    <2> HIDE DEF r
    <2>5. CASE at_tail
      <3>1. RemoveTail(l) /\ tail[l] = s[n]
        BY <1>1, <1>3, <2>5 DEF RemoveFromEnd, RemoveNothing
      <3>2. Unlinked(l, n, r)
        <4> DEFINE t == s[n]
        <4>1. /\ t \in Tids /\ next[t] = NULL_TID
              /\ prev[t] = NULL_TID <=> n = 1
          <5> HIDE DEF n
          <5>1. /\ j = n /\ 1 \in 1..n /\ n \in 1..n
                /\ n # 1 => n - 1 \in 1..n
            BY <1>0, <1>3, <2>5
          <5>2. /\ next[s[n]] = NULL_TID
                /\ prev[s[n]] = IF n = 1 THEN NULL_TID ELSE s[n - 1]
            BY <1>0, <2>4, <5>1
          <5>3. QED
            BY <1>0, <5>1, <5>2
        <4> HIDE DEF s, t
        <4>2. \A m \in ListNames :
                /\ head'[m] = IF m = l /\ n = 1 THEN next[t] ELSE head[m]
                /\ tail'[m] = IF m = l THEN prev[t] ELSE tail[m]
          BY <3>1, <4>1 DEF t, RemoveTail, Inv, TypeOK
        <4>3. \A x \in Tids :
                /\ next'[x] = IF x = t THEN NULL_TID
                               ELSE IF x = prev[t] THEN next[t] ELSE next[x]
                /\ prev'[x] = IF x = t THEN NULL_TID
                               ELSE IF x = next[t] THEN prev[t] ELSE prev[x]
          BY <3>1, <4>1, NullAssumption DEF t, RemoveTail, Inv, TypeOK
        <4>4. QED
          BY <1>0, <2>1, <2>2, <2>5, <4>2, <4>3 DEF Unlinked, s, t
      <3>3. Disjoint' /\ Linked'
        BY <2>1, <2>3, <2>5, <3>2, UnlinkInv
      <3>4. TypeOK'
        BY <2>1, <2>2, <3>1, Zenon DEF RemoveTail, Inv, TypeOK, TidOrNull
      <3>5. QED
        BY <3>3, <3>4 DEF Inv
    <2>6. CASE ~at_tail
      <3>1. RemoveHead(l) /\ head[l] = s[1]
        BY <1>1, <1>3, <2>6 DEF RemoveFromEnd, RemoveNothing
      <3>2. Unlinked(l, 1, r)
        <4> DEFINE t == s[1]
        <4>1. /\ t \in Tids /\ prev[t] = NULL_TID
              /\ next[t] = NULL_TID <=> n = 1
          <5> HIDE DEF n
          <5>1. /\ j = 1 /\ 1 \in 1..n /\ n \in 1..n
                /\ n # 1 => 2 \in 1..n
            BY <1>0, <1>3, <2>6
          <5>2. /\ prev[s[1]] = NULL_TID
                /\ next[s[1]] = IF n = 1 THEN NULL_TID ELSE s[2]
            BY <1>0, <2>4, <5>1
          <5>3. QED
            BY <1>0, <5>1, <5>2
        <4> HIDE DEF s, t
        <4>2. \A m \in ListNames :
                /\ tail'[m] = IF m = l /\ n = 1 THEN prev[t] ELSE tail[m]
                /\ head'[m] = IF m = l THEN next[t] ELSE head[m]
          BY <3>1, <4>1 DEF t, RemoveHead, Inv, TypeOK
        <4>3. \A x \in Tids :
                /\ prev'[x] = IF x = t THEN NULL_TID
                               ELSE IF x = next[t] THEN prev[t] ELSE prev[x]
                /\ next'[x] = IF x = t THEN NULL_TID
                               ELSE IF x = prev[t] THEN next[t] ELSE next[x]
          BY <3>1, <4>1, NullAssumption DEF t, RemoveHead, Inv, TypeOK
        <4>4. QED
          BY <1>0, <2>1, <2>2, <2>6, <4>2, <4>3 DEF Unlinked, s, t
      <3>3. Disjoint' /\ Linked'
        BY <2>1, <2>3, <2>6, <3>2, UnlinkInv
      <3>4. TypeOK'
        BY <2>1, <2>2, <3>1, Zenon DEF RemoveHead, Inv, TypeOK, TidOrNull
      <3>5. QED
        BY <3>3, <3>4 DEF Inv
    <2>7. QED
      BY <2>5, <2>6
  <1>4. QED
    BY <1>2, <1>3

\* Removal of a given thread, which is in the list or in none.
LEMMA RemoveThreadInv ==
    ASSUME Inv, NEW l \in ListNames, NEW t \in Tids, RemoveThread(l, t)
    PROVE  Inv'
  <1> DEFINE s == q[l]
             n == Len(s)
             j == IndexOf(s, t)
             r == RemoveAt(s, j)
  <1>0. /\ s \in Seq(Tids) /\ n \in Nat /\ DOMAIN s = 1..n
        /\ \A k \in 1..n : s[k] \in Tids /\ s[k] # NULL_TID
    BY LenProperties, NullAssumption DEF Inv, TypeOK
  <1>1. /\ head[l] = IF n = 0 THEN NULL_TID ELSE s[1]
        /\ tail[l] = IF n = 0 THEN NULL_TID ELSE s[n]
    BY DEF Inv, Linked
  <1>2. /\ \A m \in ListNames :
             /\ head'[m] = IF m = l /\ head[m] = t THEN next[t] ELSE head[m]
             /\ tail'[m] = IF m = l /\ tail[m] = t THEN prev[t] ELSE tail[m]
        /\ \A x \in Tids :
             /\ prev'[x] = IF x = t THEN NULL_TID
                           ELSE IF x = next[t] THEN prev[t] ELSE prev[x]
             /\ next'[x] = IF x = t THEN NULL_TID
                           ELSE IF x = prev[t] THEN next[t] ELSE next[x]
    BY DEF RemoveThread, Inv, TypeOK
  <1>3. TypeOK' \/ q' \notin [ListNames -> Seq(Tids)]
    BY Zenon DEF RemoveThread, Inv, TypeOK, TidOrNull
  <1>4. CASE t \in ToSet(s)
    <2>1. j \in 1..n /\ s[j] = t
      BY <1>0, <1>4 DEF ToSet, IndexOf
    <2>2. q' = [q EXCEPT ![l] = r]
      BY <1>4 DEF RemoveThread, list_remove
    <2> HIDE DEF j
    <2>3. /\ r \in Seq(Tids) /\ Len(r) = n - 1
          /\ \A i \in 1..n - 1 : r[i] = IF i < j THEN s[i] ELSE s[i + 1]
      BY <1>0, <2>1, RemoveAtSeq, Zenon
    <2> HIDE DEF r
    <2>4. (head[l] = t <=> j = 1) /\ (tail[l] = t <=> j = n)
      <3>1. \A k \in 1..n : s[k] = t => k = j
        BY <2>1 DEF Inv, Disjoint
      <3> HIDE DEF s, n
      <3>2. QED
        BY <1>0, <1>1, <2>1, <3>1
    <2>5. Unlinked(l, j, r)
      BY <1>2, <2>1, <2>2, <2>3, <2>4, Zenon DEF Unlinked
    <2>6. Disjoint' /\ Linked'
      BY <2>1, <2>3, <2>5, UnlinkInv
    <2>7. q' \in [ListNames -> Seq(Tids)]
      BY <2>2, <2>3 DEF Inv, TypeOK
    <2>8. QED
      BY <1>3, <2>6, <2>7 DEF Inv
  <1>5. CASE t \notin ToSet(s)
    <2>1. q' = q
      <3>1. q' = [q EXCEPT ![l] = s]
        BY <1>5 DEF RemoveThread, list_remove
      <3>2. QED
        BY <3>1 DEF Inv, TypeOK
    <2>2. /\ t \notin Listed(q)
          /\ prev[t] = NULL_TID /\ next[t] = NULL_TID
      BY <1>5 DEF RemoveThread, Inv, Linked
    <2>3. \A m \in ListNames : \A i \in 1..Len(q[m]) : q[m][i] # t
      BY <2>2, ListedElement DEF Inv, TypeOK
    <2>4. head[l] # t /\ tail[l] # t
      BY <1>0, <1>1, <2>3, NullAssumption
    <2>5. UNCHANGED <<head, tail, prev, next>>
      <3>1. head' = head /\ tail' = tail
        BY <2>4 DEF RemoveThread, Inv, TypeOK
      <3>2. prev' = prev
        BY <2>2, NullAssumption DEF RemoveThread, Inv, TypeOK
      <3>3. next' = next
        BY <2>2, NullAssumption DEF RemoveThread, Inv, TypeOK
      <3>4. QED
        BY <3>1, <3>2, <3>3
    <2>6. QED
      BY <2>1, <2>5, UnchangedInv, Zenon DEF RemoveThread, Inv, TypeOK
  <1>6. QED
    BY <1>4, <1>5

\* Every operation of list.c preserves the invariant.
LEMMA NextInv == Inv /\ [Next]_vars => Inv'
  <1> SUFFICES ASSUME Inv, [Next]_vars PROVE Inv'
    OBVIOUS
  <1>1. ASSUME NEW l \in ListNames, NEW t \in Tids, NEW at_tail \in BOOLEAN,
               InsertAtEnd(l, t, at_tail)
        PROVE  Inv'
    BY <1>1, InsertInv
  <1>2. ASSUME NEW l \in ListNames, NEW at_tail \in BOOLEAN, RemoveFromEnd(l, at_tail)
        PROVE  Inv'
    BY <1>2, RemoveFromEndInv
  <1>3. ASSUME NEW l \in ListNames, NEW t \in Tids, RemoveThread(l, t)
        PROVE  Inv'
    BY <1>3, RemoveThreadInv
  <1>4. CASE UNCHANGED vars
    BY <1>4, UnchangedInv DEF vars, Inv, TypeOK
  <1>5. QED
    BY <1>1, <1>2, <1>3, <1>4 DEF Next

\* Whatever sequence of calls the kernel makes, the pointers of list.c stay
\* well formed: ends, neighbours in both directions, cleared links outside.
THEOREM LinkedAlways == Spec => [](TypeOK /\ Linked)
  <1>1. Inv => TypeOK /\ Linked
    BY DEF Inv
  <1>2. QED
    BY <1>1, InitInv, NextInv, PTL DEF Spec
=============================================================================
