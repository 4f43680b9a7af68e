----------------------------- MODULE ListLemmas -----------------------------
(***************************************************************************)
(* What the operators of Lists do, for the proofs about the links of the   *)
(* lists (TcbListProofs) and about the kernel (KernelProofs).              *)
(***************************************************************************)
EXTENDS Lists, SequenceTheorems, TLAPS

\* Inserting at an end adds one element there and keeps the others in order.
LEMMA InsertSeq ==
    ASSUME NEW T, NEW s \in Seq(T), NEW t \in T
    PROVE  /\ Append(s, t) \in Seq(T)
           /\ Len(Append(s, t)) = Len(s) + 1
           /\ \A i \in 1..Len(s) + 1 :
                Append(s, t)[i] = IF i = Len(s) + 1 THEN t ELSE s[i]
           /\ <<t>> \o s \in Seq(T)
           /\ Len(<<t>> \o s) = Len(s) + 1
           /\ \A i \in 1..Len(s) + 1 :
                (<<t>> \o s)[i] = IF i = 1 THEN t ELSE s[i - 1]
  OBVIOUS

\* Inserting a new element at an end leaves a sequence without repetitions.
LEMMA InsertInjective ==
    ASSUME NEW n \in Nat, NEW s, NEW t, NEW r,
           \/ \A k \in 1..n + 1 : r[k] = IF k = n + 1 THEN t ELSE s[k]
           \/ \A k \in 1..n + 1 : r[k] = IF k = 1 THEN t ELSE s[k - 1],
           \A k \in 1..n : s[k] # t,
           \A k, h \in 1..n : s[k] = s[h] => k = h
    PROVE  \A i, j \in 1..n + 1 : r[i] = r[j] => i = j
  <1>1. CASE \A k \in 1..n + 1 : r[k] = IF k = n + 1 THEN t ELSE s[k]
    BY <1>1
  <1>2. CASE \A k \in 1..n + 1 : r[k] = IF k = 1 THEN t ELSE s[k - 1]
    BY <1>2
  <1>3. QED
    BY <1>1, <1>2

\* Removing an end of a nonempty sequence keeps the others in order.
LEMMA ShortenSeq ==
    ASSUME NEW T, NEW s \in Seq(T), Len(s) # 0
    PROVE  /\ Len(s) \in Nat \ {0}
           /\ SubSeq(s, 1, Len(s) - 1) \in Seq(T)
           /\ Len(SubSeq(s, 1, Len(s) - 1)) = Len(s) - 1
           /\ \A i \in 1..Len(s) - 1 : SubSeq(s, 1, Len(s) - 1)[i] = s[i]
           /\ SubSeq(s, 2, Len(s)) \in Seq(T)
           /\ Len(SubSeq(s, 2, Len(s))) = Len(s) - 1
           /\ \A i \in 1..Len(s) - 1 : SubSeq(s, 2, Len(s))[i] = s[i + 1]
  <1> DEFINE n == Len(s)
             u == SubSeq(s, 1, n - 1)
             v == SubSeq(s, 2, n)
  <1>1. n \in Nat \ {0}
    BY LenProperties
  <1>2. \A i \in 1..n : s[i] \in T
    BY LenProperties
  <1> HIDE DEF n
  <1>3. /\ u \in Seq(T)
        /\ Len(u) = IF 1 <= n - 1 THEN (n - 1) - 1 + 1 ELSE 0
        /\ \A i \in 1..(n - 1) - 1 + 1 : u[i] = s[1 + i - 1]
    <2>1. \A i \in 1..n - 1 : s[i] \in T
      BY <1>1, <1>2
    <2>2. QED
      BY <1>1, <2>1, SubSeqProperties
  <1>4. /\ v \in Seq(T)
        /\ Len(v) = IF 2 <= n THEN n - 2 + 1 ELSE 0
        /\ \A i \in 1..n - 2 + 1 : v[i] = s[2 + i - 1]
    <2>1. \A i \in 2..n : s[i] \in T
      BY <1>1, <1>2
    <2>2. QED
      BY <1>1, <2>1, SubSeqProperties
  <1> HIDE DEF u, v
  <1>5. /\ Len(u) = n - 1
        /\ \A i \in 1..n - 1 : u[i] = s[i]
    BY <1>1, <1>3
  <1>6. /\ Len(v) = n - 1
        /\ \A i \in 1..n - 1 : v[i] = s[i + 1]
    BY <1>1, <1>4
  <1>7. QED
    BY <1>1, <1>3, <1>4, <1>5, <1>6 DEF u, v, n

\* RemoveAt drops element n and moves the later ones down by one.
LEMMA RemoveAtSeq ==
    ASSUME NEW T, NEW s \in Seq(T), NEW n \in 1..Len(s)
    PROVE  /\ RemoveAt(s, n) \in Seq(T)
           /\ Len(RemoveAt(s, n)) = Len(s) - 1
           /\ \A i \in 1..Len(s) - 1 :
                RemoveAt(s, n)[i] = IF i < n THEN s[i] ELSE s[i + 1]
  <1> DEFINE a == SubSeq(s, 1, n - 1)
             b == SubSeq(s, n + 1, Len(s))
  <1>1. /\ Len(s) \in Nat \ {0}
        /\ \A i \in 1..Len(s) : s[i] \in T
    BY LenProperties
  <1>2. /\ a \in Seq(T)
        /\ Len(a) = n - 1
        /\ \A i \in 1..n - 1 : a[i] = s[i]
    <2>1. \A i \in 1..n - 1 : s[i] \in T
      BY <1>1
    <2>2. /\ a \in Seq(T)
          /\ Len(a) = IF 1 <= n - 1 THEN (n - 1) - 1 + 1 ELSE 0
          /\ \A i \in 1..(n - 1) - 1 + 1 : a[i] = s[1 + i - 1]
      BY <1>1, <2>1, SubSeqProperties
    <2>3. QED
      BY <1>1, <2>2
  <1>3. /\ b \in Seq(T)
        /\ Len(b) = Len(s) - n
        /\ \A i \in 1..Len(s) - n : b[i] = s[n + i]
    <2>1. \A i \in n + 1..Len(s) : s[i] \in T
      BY <1>1
    <2>2. /\ b \in Seq(T)
          /\ Len(b) = IF n + 1 <= Len(s) THEN Len(s) - (n + 1) + 1 ELSE 0
          /\ \A i \in 1..Len(s) - (n + 1) + 1 : b[i] = s[n + 1 + i - 1]
      BY <1>1, <2>1, SubSeqProperties
    <2>3. QED
      BY <1>1, <2>2
  <1>4. RemoveAt(s, n) = a \o b
    BY DEF RemoveAt
  <1> HIDE DEF a, b
  <1>5. /\ a \o b \in Seq(T)
        /\ Len(a \o b) = Len(a) + Len(b)
        /\ \A i \in 1..Len(a) + Len(b) :
             (a \o b)[i] = IF i <= Len(a) THEN a[i] ELSE b[i - Len(a)]
    BY <1>2, <1>3, ConcatProperties, Zenon
  <1>6. QED
    BY <1>1, <1>2, <1>3, <1>4, <1>5

\* No element occurs twice in s.
NoRepeats(s) == \A i, j \in DOMAIN s : s[i] = s[j] => i = j

\* q names, for every list of L, a sequence of threads of T without repeats.
Queues(q, L, T) == q \in [L -> Seq(T)] /\ \A l \in L : NoRepeats(q[l])

\* The threads in list l.
Members(q, l) == ToSet(q[l])

\* A sequence's set of elements, by index.
LEMMA ElementIndex ==
    ASSUME NEW T, NEW s \in Seq(T)
    PROVE  /\ DOMAIN s = 1..Len(s)
           /\ Len(s) \in Nat
           /\ ToSet(s) \subseteq T
           /\ \A t : t \in ToSet(s) <=> \E i \in 1..Len(s) : s[i] = t
  <1>1. DOMAIN s = 1..Len(s) /\ Len(s) \in Nat /\ \A i \in 1..Len(s) : s[i] \in T
    BY LenProperties
  <1>2. QED
    BY <1>1 DEF ToSet

\* Putting a thread that is not in the list at its head adds it.
LEMMA EnqueueSeq ==
    ASSUME NEW T, NEW s \in Seq(T), NoRepeats(s), NEW t \in T, t \notin ToSet(s)
    PROVE  /\ <<t>> \o s \in Seq(T)
           /\ NoRepeats(<<t>> \o s)
           /\ ToSet(<<t>> \o s) = ToSet(s) \cup {t}
  <1> DEFINE r == <<t>> \o s
             n == Len(s)
  <1>1. /\ n \in Nat
        /\ DOMAIN s = 1..n
        /\ \A x : x \in ToSet(s) <=> \E i \in 1..n : s[i] = x
    BY ElementIndex
  <1>2. /\ r \in Seq(T)
        /\ Len(r) = n + 1
        /\ \A i \in 1..n + 1 : r[i] = IF i = 1 THEN t ELSE s[i - 1]
    BY InsertSeq
  <1> HIDE DEF r, n
  <1>3. /\ DOMAIN r = 1..n + 1
        /\ \A x : x \in ToSet(r) <=> \E i \in 1..n + 1 : r[i] = x
    BY <1>2, ElementIndex
  <1>4. \A i, j \in 1..n + 1 : r[i] = r[j] => i = j
    <2>1. \A i \in 1..n : s[i] # t
      BY <1>1
    <2>2. \A i, j \in 1..n : s[i] = s[j] => i = j
      BY <1>1 DEF NoRepeats
    <2>3. QED
      BY <1>1, <1>2, <2>1, <2>2, InsertInjective
  <1>5. ASSUME NEW x PROVE x \in ToSet(r) <=> x \in ToSet(s) \cup {t}
    <2>1. ASSUME NEW i \in 1..n, s[i] = x PROVE i + 1 \in 1..n + 1 /\ r[i + 1] = x
      BY <1>1, <1>2, <2>1
    <2>2. 1 \in 1..n + 1 /\ r[1] = t
      BY <1>1, <1>2
    <2>3. ASSUME NEW i \in 1..n + 1, r[i] = x, x # t
          PROVE  i - 1 \in 1..n /\ s[i - 1] = x
      BY <1>1, <1>2, <2>3
    <2>4. QED
      BY <1>1, <1>3, <2>1, <2>2, <2>3
  <1>6. ToSet(r) = ToSet(s) \cup {t}
    BY <1>5
  <1>7. NoRepeats(r)
    BY <1>3, <1>4 DEF NoRepeats
  <1>8. QED
    BY <1>2, <1>6, <1>7 DEF r

\* Taking the last element away leaves the others.
LEMMA DequeueSeq ==
    ASSUME NEW T, NEW s \in Seq(T), NoRepeats(s), Len(s) # 0
    PROVE  /\ SubSeq(s, 1, Len(s) - 1) \in Seq(T)
           /\ NoRepeats(SubSeq(s, 1, Len(s) - 1))
           /\ s[Len(s)] \in ToSet(s)
           /\ ToSet(SubSeq(s, 1, Len(s) - 1)) = ToSet(s) \ {s[Len(s)]}
  <1> DEFINE n == Len(s)
             r == SubSeq(s, 1, n - 1)
  <1>1. /\ DOMAIN s = 1..n
        /\ \A x : x \in ToSet(s) <=> \E i \in 1..n : s[i] = x
    BY ElementIndex
  <1>2. /\ n \in Nat \ {0}
        /\ r \in Seq(T)
        /\ Len(r) = n - 1
        /\ \A i \in 1..n - 1 : r[i] = s[i]
    BY ShortenSeq
  <1> HIDE DEF n, r
  <1>3. /\ DOMAIN r = 1..n - 1
        /\ \A x : x \in ToSet(r) <=> \E i \in 1..n - 1 : r[i] = x
    BY <1>2, ElementIndex
  <1>4. \A i, j \in 1..n : s[i] = s[j] => i = j
    BY <1>1 DEF NoRepeats
  <1>5. NoRepeats(r)
    BY <1>2, <1>3, <1>4 DEF NoRepeats
  <1>6. n \in 1..n /\ s[n] \in ToSet(s)
    BY <1>1, <1>2
  <1>7. ASSUME NEW x PROVE x \in ToSet(r) <=> x \in ToSet(s) \ {s[n]}
    <2>1. ASSUME NEW i \in 1..n - 1, r[i] = x
          PROVE  i \in 1..n /\ s[i] = x /\ x # s[n]
      BY <1>2, <1>4, <2>1
    <2>2. ASSUME NEW i \in 1..n, s[i] = x, x # s[n]
          PROVE  i \in 1..n - 1 /\ r[i] = x
      BY <1>2, <2>2
    <2>3. QED
      BY <1>1, <1>3, <2>1, <2>2
  <1>8. ToSet(r) = ToSet(s) \ {s[n]}
    BY <1>7
  <1>9. QED
    BY <1>2, <1>5, <1>6, <1>8 DEF n, r

\* Taking out an element leaves the others.
LEMMA RemoveSeq ==
    ASSUME NEW T, NEW s \in Seq(T), NoRepeats(s), NEW t, t \in ToSet(s)
    PROVE  /\ RemoveAt(s, IndexOf(s, t)) \in Seq(T)
           /\ NoRepeats(RemoveAt(s, IndexOf(s, t)))
           /\ ToSet(RemoveAt(s, IndexOf(s, t))) = ToSet(s) \ {t}
  <1> DEFINE n == Len(s)
             j == IndexOf(s, t)
             r == RemoveAt(s, j)
  <1>1. /\ DOMAIN s = 1..n
        /\ n \in Nat
        /\ \A x : x \in ToSet(s) <=> \E i \in 1..n : s[i] = x
    BY ElementIndex
  <1>2. j \in 1..n /\ s[j] = t
    BY <1>1 DEF IndexOf
  <1>3. /\ r \in Seq(T)
        /\ Len(r) = n - 1
        /\ \A i \in 1..n - 1 : r[i] = IF i < j THEN s[i] ELSE s[i + 1]
    BY <1>2, RemoveAtSeq
  <1> HIDE DEF n, j, r
  <1>4. /\ DOMAIN r = 1..n - 1
        /\ \A x : x \in ToSet(r) <=> \E i \in 1..n - 1 : r[i] = x
    BY <1>3, ElementIndex
  <1>5. \A i, h \in 1..n : s[i] = s[h] => i = h
    BY <1>1 DEF NoRepeats
  <1>6. \A i, h \in 1..n - 1 : r[i] = r[h] => i = h
    BY <1>1, <1>2, <1>3, <1>5
  <1>7. ASSUME NEW x PROVE x \in ToSet(r) <=> x \in ToSet(s) \ {t}
    <2>1. ASSUME NEW i \in 1..n - 1, r[i] = x
          PROVE  x # t /\ \E h \in 1..n : s[h] = x
      <3>1. CASE i < j
        BY <1>1, <1>2, <1>3, <1>5, <2>1, <3>1
      <3>2. CASE ~(i < j)
        <4>1. i + 1 \in 1..n /\ s[i + 1] = x /\ i + 1 # j
          BY <1>1, <1>2, <1>3, <2>1, <3>2
        <4>2. QED
          BY <1>2, <1>5, <4>1
      <3>3. QED
        BY <3>1, <3>2
    <2>2. ASSUME NEW i \in 1..n, s[i] = x, x # t
          PROVE  \E h \in 1..n - 1 : r[h] = x
      <3>1. CASE i < j
        BY <1>1, <1>2, <1>3, <2>2, <3>1
      <3>2. CASE ~(i < j)
        <4>1. i - 1 \in 1..n - 1 /\ r[i - 1] = x
          BY <1>1, <1>2, <1>3, <2>2, <3>2
        <4>2. QED
          BY <4>1
      <3>3. QED
        BY <3>1, <3>2
    <2>3. QED
      BY <1>1, <1>4, <2>1, <2>2
  <1>8. ToSet(r) = ToSet(s) \ {t}
    BY <1>7
  <1>9. NoRepeats(r)
    BY <1>4, <1>6 DEF NoRepeats
  <1>10. QED
    BY <1>3, <1>8, <1>9 DEF r, j

\* list_enqueue() adds the thread to the list and changes no other.
LEMMA EnqueueQueues ==
    ASSUME NEW L, NEW T, NEW q, Queues(q, L, T), NEW l \in L, NEW t \in T,
           t \notin Members(q, l)
    PROVE  /\ Queues(list_enqueue(q, l, t), L, T)
           /\ Members(list_enqueue(q, l, t), l) = Members(q, l) \cup {t}
           /\ \A m \in L : m # l => Members(list_enqueue(q, l, t), m) = Members(q, m)
  <1> DEFINE r == <<t>> \o q[l]
             p == [q EXCEPT ![l] = r]
  <1>1. q \in [L -> Seq(T)] /\ \A m \in L : q[m] \in Seq(T) /\ NoRepeats(q[m])
    BY DEF Queues
  <1>2. r \in Seq(T) /\ NoRepeats(r) /\ ToSet(r) = ToSet(q[l]) \cup {t}
    BY <1>1, EnqueueSeq DEF Members
  <1>3. list_enqueue(q, l, t) = p
    BY <1>1 DEF list_enqueue, list_insert_at_end
  <1> HIDE DEF r
  <1>4. p \in [L -> Seq(T)] /\ p[l] = r /\ \A m \in L : m # l => p[m] = q[m]
    BY <1>1, <1>2
  <1> HIDE DEF p
  <1>5. QED
    BY <1>1, <1>2, <1>3, <1>4 DEF Queues, Members

\* list_dequeue() takes list_next() out of a list and changes no other.
LEMMA DequeueQueues ==
    ASSUME NEW L, NEW T, NEW q, Queues(q, L, T), NEW l \in L, ~LIST_IS_EMPTY(q, l)
    PROVE  /\ Queues(list_dequeue(q, l), L, T)
           /\ list_next(q, l) \in Members(q, l)
           /\ list_next(q, l) \in T
           /\ Members(list_dequeue(q, l), l) = Members(q, l) \ {list_next(q, l)}
           /\ \A m \in L : m # l => Members(list_dequeue(q, l), m) = Members(q, m)
  <1> DEFINE r == SubSeq(q[l], 1, Len(q[l]) - 1)
             p == [q EXCEPT ![l] = r]
  <1>1. q \in [L -> Seq(T)] /\ \A m \in L : q[m] \in Seq(T) /\ NoRepeats(q[m])
    BY DEF Queues
  <1>2. Len(q[l]) # 0
    BY DEF LIST_IS_EMPTY
  <1>3. /\ r \in Seq(T) /\ NoRepeats(r)
        /\ q[l][Len(q[l])] \in ToSet(q[l])
        /\ ToSet(r) = ToSet(q[l]) \ {q[l][Len(q[l])]}
    BY <1>1, <1>2, DequeueSeq
  <1>4. list_dequeue(q, l) = p /\ list_next(q, l) = q[l][Len(q[l])]
    BY <1>1, <1>2 DEF list_dequeue, list_remove_from_end, list_next, list_end
  <1>5. ToSet(q[l]) \subseteq T
    BY <1>1, ElementIndex
  <1> HIDE DEF r
  <1>6. p \in [L -> Seq(T)] /\ p[l] = r /\ \A m \in L : m # l => p[m] = q[m]
    BY <1>1, <1>3
  <1> HIDE DEF p
  <1>7. QED
    BY <1>1, <1>3, <1>4, <1>5, <1>6 DEF Queues, Members

\* list_remove() takes a thread out of a list and changes no other.
LEMMA RemoveQueues ==
    ASSUME NEW L, NEW T, NEW q, Queues(q, L, T), NEW l \in L, NEW t
    PROVE  /\ Queues(list_remove(q, l, t), L, T)
           /\ Members(list_remove(q, l, t), l) = Members(q, l) \ {t}
           /\ \A m \in L : m # l => Members(list_remove(q, l, t), m) = Members(q, m)
  <1> DEFINE r == IF t \in ToSet(q[l]) THEN RemoveAt(q[l], IndexOf(q[l], t)) ELSE q[l]
             p == [q EXCEPT ![l] = r]
  <1>1. q \in [L -> Seq(T)] /\ \A m \in L : q[m] \in Seq(T) /\ NoRepeats(q[m])
    BY DEF Queues
  <1>2. r \in Seq(T) /\ NoRepeats(r) /\ ToSet(r) = ToSet(q[l]) \ {t}
    <2>1. CASE t \in ToSet(q[l])
      BY <1>1, <2>1, RemoveSeq
    <2>2. CASE t \notin ToSet(q[l])
      BY <1>1, <2>2
    <2>3. QED
      BY <2>1, <2>2
  <1>3. list_remove(q, l, t) = p
    BY <1>1 DEF list_remove
  <1> HIDE DEF r
  <1>4. p \in [L -> Seq(T)] /\ p[l] = r /\ \A m \in L : m # l => p[m] = q[m]
    BY <1>1, <1>2
  <1> HIDE DEF p
  <1>5. QED
    BY <1>1, <1>2, <1>3, <1>4 DEF Queues, Members

\* Emptying a list changes no other.
LEMMA ClearQueues ==
    ASSUME NEW L, NEW T, NEW q, Queues(q, L, T), NEW l \in L
    PROVE  /\ Queues([q EXCEPT ![l] = <<>>], L, T)
           /\ Members([q EXCEPT ![l] = <<>>], l) = {}
           /\ \A m \in L : m # l => Members([q EXCEPT ![l] = <<>>], m) = Members(q, m)
  <1> DEFINE p == [q EXCEPT ![l] = <<>>]
  <1>1. q \in [L -> Seq(T)] /\ \A m \in L : q[m] \in Seq(T) /\ NoRepeats(q[m])
    BY DEF Queues
  <1>2. <<>> \in Seq(T) /\ NoRepeats(<<>>) /\ ToSet(<<>>) = {}
    BY DEF NoRepeats, ToSet
  <1>3. p \in [L -> Seq(T)] /\ p[l] = <<>> /\ \A m \in L : m # l => p[m] = q[m]
    BY <1>1, <1>2
  <1> HIDE DEF p
  <1>4. Queues(p, L, T) /\ Members(p, l) = {} /\ \A m \in L : m # l => Members(p, m) = Members(q, m)
    BY <1>1, <1>2, <1>3 DEF Queues, Members
  <1>5. QED
    BY <1>4 DEF p

\* Emptying two lists takes nobody into a list.
LEMMA ClearTwo ==
    ASSUME NEW L, NEW T, NEW q, Queues(q, L, T), NEW l \in L, NEW n \in L
    PROVE  /\ Queues([q EXCEPT ![l] = <<>>, ![n] = <<>>], L, T)
           /\ \A m \in L : Members([q EXCEPT ![l] = <<>>, ![n] = <<>>], m) \subseteq Members(q, m)
  <1> DEFINE p == [q EXCEPT ![l] = <<>>, ![n] = <<>>]
  <1>1. q \in [L -> Seq(T)] /\ \A m \in L : q[m] \in Seq(T) /\ NoRepeats(q[m])
    BY DEF Queues
  <1>2. <<>> \in Seq(T) /\ NoRepeats(<<>>) /\ ToSet(<<>>) = {}
    BY DEF NoRepeats, ToSet
  <1>3. p \in [L -> Seq(T)] /\ \A m \in L : p[m] \in {<<>>, q[m]}
    BY <1>1, <1>2
  <1> HIDE DEF p
  <1>4. Queues(p, L, T) /\ \A m \in L : Members(p, m) \subseteq Members(q, m)
    BY <1>1, <1>2, <1>3 DEF Queues, Members
  <1>5. QED
    BY <1>4 DEF p
=============================================================================
