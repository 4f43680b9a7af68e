-------------------------------- MODULE Fifo --------------------------------
(***************************************************************************)
(* What libos/ostypes/cqueue.c promises: a queue of at most n_elems        *)
(* elements.  A call of put or get works through its buffer element by     *)
(* element; when the queue has no room, or no element, it stops with -2    *)
(* and what it has done so far stays done.                                 *)
(***************************************************************************)
EXTENDS Integers, Sequences

CONSTANTS n_elems, Elems, MaxBatch

VARIABLES
    items,      \* the elements in the queue, first in first
    op, buf, num_elems, ret     \* as in CQueue

vars == <<items, op, buf, num_elems, ret>>

Batches == {b \in Seq(Elems) : Len(b) <= MaxBatch}

Init == items = <<>> /\ op = "none" /\ buf = <<>> /\ num_elems = 0 /\ ret = 0

Call ==
    /\ op = "none" /\ op' \in {"put", "get", "discard", "peek", "poke"}
    /\ buf' \in Batches /\ num_elems' \in 0..MaxBatch
    /\ op' \in {"put", "poke"} => num_elems' = Len(buf')
    /\ op' \notin {"put", "poke"} => buf' = <<>>
    /\ UNCHANGED <<items, ret>>

Refuse == op = "none" /\ ret' = -1 /\ UNCHANGED <<items, op, buf, num_elems>>

Put ==
    /\ op = "put" /\ num_elems > 0 /\ Len(items) < n_elems
    /\ items' = Append(items, Head(buf))
    /\ buf' = Tail(buf) /\ num_elems' = num_elems - 1
    /\ UNCHANGED <<op, ret>>

Get ==
    /\ op \in {"get", "discard"} /\ num_elems > 0 /\ items # <<>>
    /\ items' = Tail(items)
    /\ buf' = IF op = "get" THEN Append(buf, Head(items)) ELSE buf
    /\ num_elems' = num_elems - 1
    /\ UNCHANGED <<op, ret>>

\* Any element may be read, one that is not in the queue any more included.
Peek ==
    /\ op = "peek" /\ num_elems > 0
    /\ \E e \in Elems : buf' = Append(buf, e)
    /\ num_elems' = num_elems - 1
    /\ UNCHANGED <<items, op, ret>>

\* At most one element in the queue is replaced, and it keeps its turn.
Poke ==
    /\ op = "poke" /\ num_elems > 0
    /\ \/ items' = items
       \/ \E i \in 1..Len(items) : items' = [items EXCEPT ![i] = Head(buf)]
    /\ buf' = Tail(buf) /\ num_elems' = num_elems - 1
    /\ UNCHANGED <<op, ret>>

Return ==
    /\ \/ op = "put" /\ num_elems > 0 /\ Len(items) = n_elems /\ ret' = -2
       \/ op = "put" /\ num_elems = 0 /\ ret' = IF Len(items) = n_elems THEN 1 ELSE 0
       \/ op \in {"get", "discard"} /\ num_elems > 0 /\ items = <<>> /\ ret' = -2
       \/ op \in {"get", "discard"} /\ num_elems = 0 /\ ret' = IF items = <<>> THEN 1 ELSE 0
       \/ op \in {"peek", "poke"} /\ num_elems = 0 /\ ret' = 0
    /\ op' = "none" /\ buf' = <<>> /\ num_elems' = 0
    /\ UNCHANGED items

Next == Call \/ Refuse \/ Put \/ Get \/ Peek \/ Poke \/ Return

Spec == Init /\ [][Next]_vars
=============================================================================
