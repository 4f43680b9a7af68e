------------------------------- MODULE Lists -------------------------------
(***************************************************************************)
(* The thread lists of kernel/list.c as the rest of the kernel sees them:  *)
(* a function q from list names to sequences of thread ids, head first.    *)
(* Module TcbList shows that the doubly linked lists threaded through the  *)
(* TCBs implement these operators for callers that respect the contract    *)
(* "a thread is in at most one list"; module Threads shows that the kernel *)
(* respects it.                                                            *)
(***************************************************************************)
EXTENDS Naturals, Sequences, SequencesExt

\* The threads that are in some list of q.
Listed(q) == UNION {ToSet(q[l]) : l \in DOMAIN q}

\* The position of t in sequence s.
IndexOf(s, t) == CHOOSE i \in DOMAIN s : s[i] = t

\* LIST_IS_EMPTY
LIST_IS_EMPTY(q, l) == Len(q[l]) = 0

\* list_insert_at_end(): at the tail or at the head.
list_insert_at_end(q, l, t, at_tail) ==
    [q EXCEPT ![l] = IF at_tail THEN Append(@, t) ELSE <<t>> \o @]

\* The thread list_remove_from_end() returns; the list is not empty.
list_end(q, l, at_tail) == IF at_tail THEN q[l][Len(q[l])] ELSE q[l][1]

\* The lists after list_remove_from_end(); an empty list stays as it is.
list_remove_from_end(q, l, at_tail) ==
    [q EXCEPT ![l] = IF Len(@) = 0 THEN @
                     ELSE IF at_tail THEN SubSeq(@, 1, Len(@) - 1)
                     ELSE SubSeq(@, 2, Len(@))]

\* list_remove(): a thread that is in no list leaves all of them as they are.
list_remove(q, l, t) ==
    [q EXCEPT ![l] = IF t \in ToSet(@) THEN RemoveAt(@, IndexOf(@, t)) ELSE @]

\* The queue discipline every kernel list uses: in at the head, out at the
\* tail, which is first in, first out.
list_enqueue(q, l, t) == list_insert_at_end(q, l, t, FALSE)
list_dequeue(q, l) == list_remove_from_end(q, l, TRUE)
list_next(q, l) == list_end(q, l, TRUE)
=============================================================================
