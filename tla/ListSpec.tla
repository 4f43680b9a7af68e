------------------------------ MODULE ListSpec ------------------------------
(***************************************************************************)
(* What kernel/list.c promises its callers: named sequences of threads,    *)
(* pairwise disjoint, with insertion and removal at both ends and removal  *)
(* from the middle.                                                        *)
(***************************************************************************)
EXTENDS Lists

CONSTANTS Tids, ListNames, NULL_TID

VARIABLES
    q,       \* the lists, head first
    removed  \* the thread the last removal from an end returned

Init ==
    /\ q = [l \in ListNames |-> <<>>]
    /\ removed = NULL_TID

Insert(l, t, at_tail) ==
    /\ t \notin Listed(q)
    /\ q' = list_insert_at_end(q, l, t, at_tail)
    /\ UNCHANGED removed

TakeEnd(l, at_tail) ==
    /\ removed' = IF LIST_IS_EMPTY(q, l) THEN NULL_TID ELSE list_end(q, l, at_tail)
    /\ q' = list_remove_from_end(q, l, at_tail)

Take(l, t) ==
    /\ t \in ToSet(q[l]) \/ t \notin Listed(q)
    /\ q' = list_remove(q, l, t)
    /\ UNCHANGED removed

Next ==
    \E l \in ListNames :
        \/ \E t \in Tids, at_tail \in BOOLEAN : Insert(l, t, at_tail)
        \/ \E at_tail \in BOOLEAN : TakeEnd(l, at_tail)
        \/ \E t \in Tids : Take(l, t)

Spec == Init /\ [][Next]_<<q, removed>>
=============================================================================
