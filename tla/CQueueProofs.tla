---------------------------- MODULE CQueueProofs ----------------------------
(***************************************************************************)
(* The circular queue of libos/ostypes/cqueue.c implements a first in,     *)
(* first out queue, for any number of places, any elements and calls with  *)
(* any number of elements.                                                 *)
(***************************************************************************)
EXTENDS CQueue, TLAPS, SequenceTheorems

\* State tells apart what equal indices do not; put and poke have as many elements
\* to go as are left in the buffer.
Inv ==
    /\ TypeOK
    /\ (state = "CQUEUE_PARTIAL") <=> (head # tail)
    /\ op \in {"put", "poke"} => num_elems = Len(buf)

\* The index after a place.
LEMMA NextPlace ==
    ASSUME NEW x \in Places
    PROVE  /\ (x + 1) % n_elems = IF x + 1 = n_elems THEN 0 ELSE x + 1
           /\ (x + 1) % n_elems \in Places
  BY SizeAssumption DEF Places

\* The remainder of an index is a place.
LEMMA RemainderIsPlace ==
    ASSUME NEW x \in Nat PROVE x % n_elems \in Places
  BY SizeAssumption DEF Places

\* The buffers of the calls are sequences.
LEMMA InputsAreBatches ==
    ASSUME NEW b \in Inputs PROVE b \in Seq(Elems) /\ Len(b) \in 0..MaxBatch
  <1>1. PICK k \in 0..MaxBatch : b \in [1..k -> Elems]
    BY DEF Inputs
  <1>2. QED
    BY <1>1, SizeAssumption

LEMMA InitInv == Init => Inv
  <1> SUFFICES ASSUME Init PROVE Inv
    OBVIOUS
  <1>1. 0 \in Places /\ 0 \in 0..MaxBatch
    BY SizeAssumption DEF Places
  <1>2. QED
    BY <1>1 DEF Init, Inv, TypeOK

LEMMA StepInv == Inv /\ [Next]_vars => Inv'
  <1> SUFFICES ASSUME Inv, [Next]_vars PROVE Inv'
    OBVIOUS
  <1> USE SizeAssumption
  <1>1. CASE Call
    <2>a. 0 \in Places /\ \A i \in 0..2*n_elems : i % n_elems \in Places
      BY RemainderIsPlace DEF Places
    <2>1. index' \in Places
      BY <1>1, <2>a DEF Call
    <2>b. <<>> \in Seq(Elems)
      OBVIOUS
    <2>c. \A b \in Inputs : b \in Seq(Elems) /\ Len(b) \in 0..MaxBatch
      BY InputsAreBatches
    <2>2. buf' \in Seq(Elems) /\ num_elems' \in 0..MaxBatch
      BY <1>1, <2>b, <2>c DEF Call
    <2>3. op' \in {"put", "poke"} => num_elems' = Len(buf')
      BY <1>1 DEF Call
    <2>4. op' \in {"none", "put", "get", "discard", "peek", "poke"}
      BY <1>1 DEF Call
    <2>5. QED
      BY <1>1, <2>1, <2>2, <2>3, <2>4 DEF Call, Inv, TypeOK
  <1>2. CASE Refuse
    BY <1>2 DEF Refuse, Inv, TypeOK
  <1>3. CASE Put
    <2>1. tail' \in Places /\ Head(buf) \in Elems /\ Tail(buf) \in Seq(Elems)
          /\ Len(Tail(buf)) = Len(buf) - 1
      BY <1>3, NextPlace DEF Put, Inv, TypeOK
    <2>2. (state' = "CQUEUE_PARTIAL") <=> (head' # tail')
      BY <1>3 DEF Put
    <2>3. QED
      BY <1>3, <2>1, <2>2 DEF Put, Inv, TypeOK
  <1>4. CASE Get
    <2>1. head' \in Places /\ buf' \in Seq(Elems)
      BY <1>4, NextPlace DEF Get, Inv, TypeOK
    <2>2. (state' = "CQUEUE_PARTIAL") <=> (head' # tail')
      BY <1>4 DEF Get
    <2>3. QED
      BY <1>4, <2>1, <2>2 DEF Get, Inv, TypeOK
  <1>5. CASE Peek
    <2>1. index' \in Places /\ buf' \in Seq(Elems)
      BY <1>5, NextPlace DEF Peek, Inv, TypeOK
    <2>2. QED
      BY <1>5, <2>1 DEF Peek, Inv, TypeOK
  <1>6. CASE Poke
    <2>1. index' \in Places /\ Head(buf) \in Elems /\ Tail(buf) \in Seq(Elems)
          /\ Len(Tail(buf)) = Len(buf) - 1
      BY <1>6, NextPlace DEF Poke, Inv, TypeOK
    <2>2. QED
      BY <1>6, <2>1 DEF Poke, Inv, TypeOK
  <1>7. CASE Return
    <2>1. 0 \in Places /\ 0 \in 0..MaxBatch /\ ret' \in {-2, -1, 0, 1}
      BY <1>7 DEF Return, Places
    <2>2. QED
      BY <1>7, <2>1 DEF Return, Inv, TypeOK
  <1>8. CASE UNCHANGED vars
    BY <1>8 DEF vars, Inv, TypeOK
  <1>9. QED
    BY <1>1, <1>2, <1>3, <1>4, <1>5, <1>6, <1>7, <1>8 DEF Next

-----------------------------------------------------------------------------
\* What the elements read from head on are.
LEMMA ItemsType ==
    ASSUME Inv
    PROVE  /\ Fill \in 0..n_elems
           /\ Fill = n_elems <=> state = "CQUEUE_FULL"
           /\ Fill = 0 <=> state = "CQUEUE_EMPTY"
           /\ \A i \in 1..Fill : Place(i) \in Places
           /\ Items \in Seq(Elems) /\ Len(Items) = Fill
  <1> USE SizeAssumption
  <1>1. Fill \in 0..n_elems /\ (Fill = n_elems <=> state = "CQUEUE_FULL")
        /\ (Fill = 0 <=> state = "CQUEUE_EMPTY")
    BY DEF Inv, TypeOK, Fill, Places
  <1>2. \A i \in 1..Fill : Place(i) \in Places
    BY <1>1 DEF Inv, TypeOK, Place, Places
  <1>3. Items \in [1..Fill -> Elems]
    BY <1>2 DEF Items, Inv, TypeOK
  <1>4. Items \in Seq(Elems) /\ Len(Items) = Fill
    BY <1>1, <1>3
  <1>5. QED
    BY <1>1, <1>2, <1>4

\* The same as an implication.
LEMMA ItemsAlwaysType == Inv => Items \in Seq(Elems) /\ Len(Items) = Fill
  BY ItemsType

\* cqueue_put() appends an element.
LEMMA PutAppends == Inv /\ Put => Items' = Append(Items, Head(buf))
  <1> SUFFICES ASSUME Inv, Put PROVE Items' = Append(Items, Head(buf))
    OBVIOUS
  <1> USE SizeAssumption
  <1>1. Inv'
    BY StepInv DEF Next
  <1>2. Fill \in 0..n_elems-1 /\ Len(Items) = Fill /\ Items \in Seq(Elems)
    BY ItemsType DEF Put, Inv, TypeOK
  <1>3. tail' = IF tail + 1 = n_elems THEN 0 ELSE tail + 1
    BY NextPlace DEF Put, Inv, TypeOK
  <1>4. Fill' = Fill + 1
    <2>1. /\ state \in {"CQUEUE_EMPTY", "CQUEUE_PARTIAL"}
          /\ (state = "CQUEUE_PARTIAL") <=> (head # tail)
          /\ state' = IF tail' = head THEN "CQUEUE_FULL" ELSE "CQUEUE_PARTIAL"
          /\ head' = head
      BY DEF Put, Inv, TypeOK
    <2>2. head \in 0..n_elems-1 /\ tail \in 0..n_elems-1
      BY DEF Inv, TypeOK, Places
    <2>3. CASE tail' = head
      BY <1>3, <2>1, <2>2, <2>3 DEF Fill
    <2>4. CASE tail' # head
      BY <1>3, <2>1, <2>2, <2>4 DEF Fill
    <2>5. QED
      BY <2>3, <2>4
  <1>5. \A i \in 1..Fill : Place(i) \in Places /\ Place(i) # tail
    BY <1>2 DEF Fill, Place, Put, Inv, TypeOK, Places
  <1>6. Place(Fill + 1) = tail
    BY DEF Fill, Place, Put, Inv, TypeOK, Places
  <1>7. \A i : Place(i)' = Place(i)
    BY DEF Place, Put
  <1>8. Items' = [i \in 1..Fill+1 |-> queue'[Place(i)]]
    BY <1>4, <1>7 DEF Items
  <1>9. \A i \in 1..Fill : queue'[Place(i)] = Items[i]
    BY <1>5 DEF Put, Items, Inv, TypeOK
  <1>10. queue'[Place(Fill + 1)] = Head(buf)
    BY <1>6 DEF Put, Inv, TypeOK
  <1>11. \A i \in 1..Fill+1 : i # Fill + 1 => i \in 1..Fill
    BY <1>2
  <1>12. Head(buf) \in Elems
    BY DEF Put, Inv, TypeOK
  <1>13. /\ Append(Items, Head(buf)) \in Seq(Elems)
         /\ Len(Append(Items, Head(buf))) = Fill + 1
         /\ \A i \in 1..Fill : Append(Items, Head(buf))[i] = Items[i]
         /\ Append(Items, Head(buf))[Fill + 1] = Head(buf)
    BY <1>2, <1>12, AppendProperties
  <1>14. Items' \in Seq(Elems) /\ Len(Items') = Fill + 1
    <2>1. (Items \in Seq(Elems) /\ Len(Items) = Fill)'
      BY <1>1, ItemsAlwaysType, PTL
    <2>2. QED
      BY <1>4, <2>1
  <1>15. \A i \in 1..Fill+1 : Items'[i] = Append(Items, Head(buf))[i]
    BY <1>8, <1>9, <1>10, <1>11, <1>13
  <1>16. QED
    BY <1>13, <1>14, <1>15, SeqEqual

\* cqueue_get() takes the first one.
LEMMA GetTakesFirst ==
    Inv /\ Get => Items # <<>> /\ Head(Items) = queue[head] /\ Items' = Tail(Items)
  <1> SUFFICES ASSUME Inv, Get
               PROVE  Items # <<>> /\ Head(Items) = queue[head] /\ Items' = Tail(Items)
    OBVIOUS
  <1> USE SizeAssumption
  <1>1. Inv'
    BY StepInv DEF Next
  <1>2. Fill \in 1..n_elems /\ Len(Items) = Fill /\ Items \in Seq(Elems)
    BY ItemsType DEF Get, Inv, TypeOK
  <1>3. head' = IF head + 1 = n_elems THEN 0 ELSE head + 1
    BY NextPlace DEF Get, Inv, TypeOK
  <1>4. Fill' = Fill - 1
    BY <1>3 DEF Fill, Get, Inv, TypeOK, Places
  <1>5. \A i \in 1..Fill-1 : Place(i)' = Place(i + 1)
    BY <1>2, <1>3 DEF Place, Inv, TypeOK, Places
  <1>6. Place(1) = head
    BY DEF Place, Inv, TypeOK, Places
  <1>7. \A i \in 1..Fill-1 : i + 1 \in 1..Fill
    BY <1>2
  <1>8. Items' = [i \in 1..Fill-1 |-> queue[Place(i)']]
    BY <1>4 DEF Items, Get
  <1>9. \A i \in 1..Fill-1 : queue[Place(i)'] = Items[i + 1]
    BY <1>5, <1>7 DEF Items
  <1>10. Items # <<>> /\ Head(Items) = queue[head]
    BY <1>2, <1>6 DEF Items
  <1>11. /\ Tail(Items) \in Seq(Elems) /\ Len(Tail(Items)) = Fill - 1
         /\ \A i \in 1..Fill-1 : Tail(Items)[i] = Items[i + 1]
    BY <1>2, <1>10, HeadTailProperties
  <1>12. Items' \in Seq(Elems) /\ Len(Items') = Fill - 1
    <2>1. (Items \in Seq(Elems) /\ Len(Items) = Fill)'
      BY <1>1, ItemsAlwaysType, PTL
    <2>2. QED
      BY <1>4, <2>1
  <1>13. \A i \in 1..Fill-1 : Items'[i] = Tail(Items)[i]
    BY <1>8, <1>9, <1>11
  <1>14. QED
    BY <1>10, <1>11, <1>12, <1>13, SeqEqual

\* cqueue_poke() replaces an element of the queue, or one that has been taken.
LEMMA PokeReplaces ==
    Inv /\ Poke => \/ Items' = Items
                   \/ \E i \in 1..Len(Items) : Items' = [Items EXCEPT ![i] = Head(buf)]
  <1> SUFFICES ASSUME Inv, Poke
               PROVE  \/ Items' = Items
                      \/ \E i \in 1..Len(Items) : Items' = [Items EXCEPT ![i] = Head(buf)]
    OBVIOUS
  <1>1. Len(Items) = Fill /\ \A i \in 1..Fill : Place(i) \in Places
    BY ItemsType
  <1>2. Items' = [i \in 1..Fill |-> queue'[Place(i)]]
    BY DEF Items, Fill, Place, Poke
  <1>3. \A i \in 1..Fill : queue'[Place(i)] = IF Place(i) = index THEN Head(buf) ELSE queue[Place(i)]
    BY <1>1 DEF Poke, Inv, TypeOK
  <1>4. CASE \A i \in 1..Fill : Place(i) # index
    BY <1>2, <1>3, <1>4 DEF Items
  <1>5. CASE \E i \in 1..Fill : Place(i) = index
    <2>1. PICK i \in 1..Fill : Place(i) = index
      BY <1>5
    <2>2. \A j \in 1..Fill : Place(j) = Place(i) => j = i
      BY ItemsType, SizeAssumption DEF Place, Inv, TypeOK, Places
    <2>3. Items' = [Items EXCEPT ![i] = Head(buf)]
      BY <1>2, <1>3, <2>1, <2>2 DEF Items
    <2>4. QED
      BY <1>1, <2>3
  <1>6. QED
    BY <1>4, <1>5

\* The circular queue of cqueue.c implements the queue of Fifo (ImplementsFifo):
\* elements come out in the order they went in, once each, and the result says
\* whether the queue is full or empty, however often the indices have wrapped
\* around and wherever calls have stopped half way.
THEOREM QueueIsFifo == Spec => ImplementsFifo
  <1>1. Init => Abstract!Init
    <2> SUFFICES ASSUME Init PROVE Abstract!Init
      OBVIOUS
    <2>1. Items = <<>>
      BY ItemsType, InitInv DEF Init
    <2>2. QED
      BY <2>1 DEF Init, Abstract!Init
  <1>2. Inv /\ [Next]_vars => [Abstract!Next]_(Abstract!vars)
    <2> SUFFICES ASSUME Inv, [Next]_vars PROVE [Abstract!Next]_(Abstract!vars)
      OBVIOUS
    <2>a. ASSUME UNCHANGED <<queue, head, tail, state>> PROVE Items' = Items
      BY <2>a DEF Items, Fill, Place
    <2>b. Items \in Seq(Elems) /\ Len(Items) = Fill /\ (Items = <<>> <=> Fill = 0)
      BY ItemsType
    <2>c. /\ Len(Items) = n_elems <=> state = "CQUEUE_FULL"
          /\ Items = <<>> <=> state = "CQUEUE_EMPTY"
          /\ state # "CQUEUE_FULL" => Len(Items) < n_elems
      BY <2>b, ItemsType, SizeAssumption
    <2>1. CASE Call
      <3>1. /\ buf' \in Abstract!Batches /\ num_elems' \in 0..MaxBatch
            /\ op' \in {"put", "poke"} => num_elems' = Len(buf')
            /\ op' \notin {"put", "poke"} => buf' = <<>>
            /\ op' \in {"put", "get", "discard", "peek", "poke"}
        <4>1. buf' = <<>> \/ buf' \in Inputs
          BY <2>1 DEF Call
        <4>2. buf' \in Abstract!Batches
          <5>a. <<>> \in Seq(Elems) /\ Len(<<>>) <= MaxBatch
            BY SizeAssumption
          <5>b. \A b \in Inputs : b \in Seq(Elems) /\ Len(b) <= MaxBatch
            BY InputsAreBatches, SizeAssumption
          <5>1. buf' \in Seq(Elems) /\ Len(buf') <= MaxBatch
            BY <4>1, <5>a, <5>b
          <5>2. QED
            BY <5>1 DEF Abstract!Batches
        <4>3. num_elems' \in 0..MaxBatch
          BY <2>1, InputsAreBatches DEF Call
        <4>4. QED
          BY <2>1, <4>2, <4>3 DEF Call
      <3>2. Items' = Items
        BY <2>1, <2>a DEF Call
      <3>3. QED
        BY <2>1, <3>1, <3>2 DEF Call, Abstract!Call, Abstract!Next
    <2>2. CASE Refuse
      BY <2>2, <2>a DEF Refuse, Abstract!Refuse, Abstract!Next
    <2>3. CASE Put
      BY <2>3, <2>c, PutAppends DEF Put, Abstract!Put, Abstract!Next
    <2>4. CASE Get
      BY <2>4, GetTakesFirst DEF Get, Abstract!Get, Abstract!Next
    <2>5. CASE Peek
      <3>1. queue[index] \in Elems
        BY DEF Inv, TypeOK
      <3>2. QED
        BY <2>5, <2>a, <3>1 DEF Peek, Abstract!Peek, Abstract!Next
    <2>6. CASE Poke
      BY <2>6, PokeReplaces DEF Poke, Abstract!Poke, Abstract!Next
    <2>7. CASE Return
      BY <2>7, <2>a, <2>c DEF Return, Abstract!Return, Abstract!Next
    <2>8. CASE UNCHANGED vars
      BY <2>8, <2>a DEF vars, Abstract!vars
    <2>9. QED
      BY <2>1, <2>2, <2>3, <2>4, <2>5, <2>6, <2>7, <2>8 DEF Next
  <1>3. QED
    BY <1>1, <1>2, InitInv, StepInv, PTL DEF Spec, ImplementsFifo, Abstract!Spec
=============================================================================
