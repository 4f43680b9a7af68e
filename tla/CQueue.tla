------------------------------- MODULE CQueue -------------------------------
(***************************************************************************)
(* The circular queue of libos/ostypes/cqueue.c.  Head and tail are equal  *)
(* when the queue is empty and when it is full; state tells which it is.   *)
(* A call is a sequence of steps, one for each time round its loop, so     *)
(* that what a call leaves behind half way through is a state as well.     *)
(***************************************************************************)
EXTENDS Integers, Sequences

CONSTANTS
    n_elems,    \* places of the queue
    Elems,      \* the elements, each of elem_size bytes
    MaxBatch    \* bound on the elements of one call

\* cqueue_init() returns NULL for an empty queue.
ASSUME SizeAssumption == n_elems \in Nat \ {0} /\ MaxBatch \in Nat

VARIABLES
    queue, head, tail, state,
    op,         \* the call being executed
    buf,        \* its buffer: what is left of it to put, or what it has got
    num_elems,  \* elements to go
    index,      \* position of peek and poke
    ret         \* what the last call returned

vars == <<queue, head, tail, state, op, buf, num_elems, index, ret>>

Places == 0..n_elems-1
Inputs == UNION {[1..k -> Elems] : k \in 0..MaxBatch}

\* The memory of the queue comes from malloc().
Init ==
    /\ queue \in [Places -> Elems]
    /\ head = 0 /\ tail = 0 /\ state = "CQUEUE_EMPTY"
    /\ op = "none" /\ buf = <<>> /\ num_elems = 0 /\ index = 0 /\ ret = 0

\* cqueue_get() discards the elements when it is given no buffer.
Call ==
    /\ op = "none"
    /\ \/ op' = "put" /\ index' = 0 /\ \E b \in Inputs : buf' = b /\ num_elems' = Len(b)
       \/ /\ op' \in {"get", "discard"} /\ index' = 0
          /\ buf' = <<>> /\ num_elems' \in 0..MaxBatch
       \/ /\ op' = "peek" /\ \E i \in 0..2*n_elems : index' = i % n_elems
          /\ buf' = <<>> /\ num_elems' \in 0..MaxBatch
       \/ op' = "poke" /\ index' \in Places /\ \E b \in Inputs : buf' = b /\ num_elems' = Len(b)
    /\ UNCHANGED <<queue, head, tail, state, ret>>

\* No queue or no buffer, or an index outside the queue for cqueue_poke().
Refuse ==
    /\ op = "none" /\ ret' = -1
    /\ UNCHANGED <<queue, head, tail, state, op, buf, num_elems, index>>

\* Mutant: the queue counts as full one element early.
Put_OneEarly ==
    /\ op = "put" /\ num_elems > 0 /\ state # "CQUEUE_FULL"
    /\ queue' = [queue EXCEPT ![tail] = Head(buf)]
    /\ tail' = (tail + 1) % n_elems
    /\ state' = IF (tail' + 1) % n_elems = head THEN "CQUEUE_FULL" ELSE "CQUEUE_PARTIAL"
    /\ buf' = Tail(buf) /\ num_elems' = num_elems - 1
    /\ UNCHANGED <<head, op, index, ret>>

Put ==
    /\ op = "put" /\ num_elems > 0 /\ state # "CQUEUE_FULL"
    /\ queue' = [queue EXCEPT ![tail] = Head(buf)]
    /\ tail' = (tail + 1) % n_elems
    /\ state' = IF tail' = head THEN "CQUEUE_FULL" ELSE "CQUEUE_PARTIAL"
    /\ buf' = Tail(buf) /\ num_elems' = num_elems - 1
    /\ UNCHANGED <<head, op, index, ret>>

\* Mutant: head does not wrap around.
Get_NoWrap ==
    /\ op \in {"get", "discard"} /\ num_elems > 0 /\ state # "CQUEUE_EMPTY"
    /\ buf' = IF op = "get" THEN Append(buf, queue[head]) ELSE buf
    /\ head' = head + 1
    /\ state' = IF tail = head' THEN "CQUEUE_EMPTY" ELSE "CQUEUE_PARTIAL"
    /\ num_elems' = num_elems - 1
    /\ UNCHANGED <<queue, tail, op, index, ret>>

Get ==
    /\ op \in {"get", "discard"} /\ num_elems > 0 /\ state # "CQUEUE_EMPTY"
    /\ buf' = IF op = "get" THEN Append(buf, queue[head]) ELSE buf
    /\ head' = (head + 1) % n_elems
    /\ state' = IF tail = head' THEN "CQUEUE_EMPTY" ELSE "CQUEUE_PARTIAL"
    /\ num_elems' = num_elems - 1
    /\ UNCHANGED <<queue, tail, op, index, ret>>

Peek ==
    /\ op = "peek" /\ num_elems > 0
    /\ buf' = Append(buf, queue[index])
    /\ index' = (index + 1) % n_elems /\ num_elems' = num_elems - 1
    /\ UNCHANGED <<queue, head, tail, state, op, ret>>

Poke ==
    /\ op = "poke" /\ num_elems > 0
    /\ queue' = [queue EXCEPT ![index] = Head(buf)]
    /\ index' = (index + 1) % n_elems
    /\ buf' = Tail(buf) /\ num_elems' = num_elems - 1
    /\ UNCHANGED <<head, tail, state, op, ret>>

Return ==
    /\ \/ op = "put" /\ num_elems > 0 /\ state = "CQUEUE_FULL" /\ ret' = -2
       \/ op = "put" /\ num_elems = 0 /\ ret' = IF state = "CQUEUE_FULL" THEN 1 ELSE 0
       \/ op \in {"get", "discard"} /\ num_elems > 0 /\ state = "CQUEUE_EMPTY" /\ ret' = -2
       \/ op \in {"get", "discard"} /\ num_elems = 0 /\ ret' = IF state = "CQUEUE_EMPTY" THEN 1 ELSE 0
       \/ op \in {"peek", "poke"} /\ num_elems = 0 /\ ret' = 0
    /\ op' = "none" /\ buf' = <<>> /\ num_elems' = 0 /\ index' = 0
    /\ UNCHANGED <<queue, head, tail, state>>

Next == Call \/ Refuse \/ Put \/ Get \/ Peek \/ Poke \/ Return

Spec == Init /\ [][Next]_vars
-----------------------------------------------------------------------------
TypeOK ==
    /\ queue \in [Places -> Elems] /\ head \in Places /\ tail \in Places /\ index \in Places
    /\ state \in {"CQUEUE_EMPTY", "CQUEUE_PARTIAL", "CQUEUE_FULL"}
    /\ op \in {"none", "put", "get", "discard", "peek", "poke"}
    /\ buf \in Seq(Elems) /\ num_elems \in 0..MaxBatch /\ ret \in {-2, -1, 0, 1}

\* The elements in the queue, read from head on.
Fill == IF state = "CQUEUE_FULL" THEN n_elems
        ELSE IF tail >= head THEN tail - head ELSE tail + n_elems - head
Place(i) == IF head + i <= n_elems THEN head + i - 1 ELSE head + i - 1 - n_elems
Items == [i \in 1..Fill |-> queue[Place(i)]]

\* The circular queue implements the queue of Fifo: no element is lost, invented,
\* repeated or overtaken when the indices wrap around or calls stop half way, and
\* the value returned says whether the queue is full, or empty.
Abstract == INSTANCE Fifo WITH items <- Items
ImplementsFifo == Abstract!Spec
=============================================================================
