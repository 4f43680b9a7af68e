------------------------------ MODULE TcbList ------------------------------
(***************************************************************************)
(* kernel/list.c at the level of its pointers.  A list is a pair of thread *)
(* ids (head_tid, tail_tid); the links are the prev_tid and next_tid of    *)
(* the TCBs, one pair per TCB, so that a thread can be linked into one     *)
(* list only.  The variable q is auxiliary: it records what the sequences  *)
(* of module Lists would hold, and never influences the pointers.          *)
(***************************************************************************)
EXTENDS Lists

CONSTANTS
    Tids,       \* thread ids other than NULL_TID
    ListNames,  \* the lists of the system
    NULL_TID

ASSUME NullAssumption == NULL_TID \notin Tids

VARIABLES
    head, tail,  \* list_t: head_tid and tail_tid of every list
    prev, next,  \* tcb_t: prev_tid and next_tid of every thread
    removed,     \* value returned by the last list_remove_from_end()
    q            \* auxiliary: the abstract lists

vars == <<head, tail, prev, next, removed, q>>

TidOrNull == Tids \cup {NULL_TID}

TypeOK ==
    /\ head \in [ListNames -> TidOrNull]
    /\ tail \in [ListNames -> TidOrNull]
    /\ prev \in [Tids -> TidOrNull]
    /\ next \in [Tids -> TidOrNull]
    /\ removed \in TidOrNull
    /\ q \in [ListNames -> Seq(Tids)]

\* Variant: the links of a new TCB are not cleared.
Init_NotZeroed ==
    /\ head = [l \in ListNames |-> NULL_TID]
    /\ tail = [l \in ListNames |-> NULL_TID]
    /\ prev = [t \in Tids |-> "uninitialised"]
    /\ next = [t \in Tids |-> "uninitialised"]
    /\ removed = NULL_TID
    /\ q = [l \in ListNames |-> <<>>]

\* Zeroed TCBs and empty lists.
Init ==
    /\ head = [l \in ListNames |-> NULL_TID]
    /\ tail = [l \in ListNames |-> NULL_TID]
    /\ prev = [t \in Tids |-> NULL_TID]
    /\ next = [t \in Tids |-> NULL_TID]
    /\ removed = NULL_TID
    /\ q = [l \in ListNames |-> <<>>]

IsEmpty(l) == head[l] = NULL_TID /\ tail[l] = NULL_TID

(***************************************************************************)
(* list_insert_at_end().  The callers' contract is that the thread is in   *)
(* no list.                                                                *)
(***************************************************************************)
InsertIntoEmpty(l, t) ==
    /\ IsEmpty(l)
    /\ head' = [head EXCEPT ![l] = t]
    /\ tail' = [tail EXCEPT ![l] = t]
    /\ next' = [next EXCEPT ![t] = NULL_TID]
    /\ prev' = [prev EXCEPT ![t] = NULL_TID]

InsertAtTail(l, t) ==
    /\ ~IsEmpty(l)
    /\ next' = [next EXCEPT ![t] = NULL_TID, ![tail[l]] = t]
    /\ prev' = [prev EXCEPT ![t] = tail[l]]
    /\ tail' = [tail EXCEPT ![l] = t]
    /\ UNCHANGED head

InsertAtHead(l, t) ==
    /\ ~IsEmpty(l)
    /\ prev' = [prev EXCEPT ![t] = NULL_TID, ![head[l]] = t]
    /\ next' = [next EXCEPT ![t] = head[l]]
    /\ head' = [head EXCEPT ![l] = t]
    /\ UNCHANGED tail

InsertAtEnd(l, t, at_tail) ==
    /\ t \notin Listed(q)
    /\ \/ InsertIntoEmpty(l, t)
       \/ at_tail /\ InsertAtTail(l, t)
       \/ ~at_tail /\ InsertAtHead(l, t)
    /\ q' = list_insert_at_end(q, l, t, at_tail)
    /\ UNCHANGED removed

(***************************************************************************)
(* list_remove_from_end(): NULL when there is nothing to remove.           *)
(***************************************************************************)
\* Variant: the head is left behind when the last thread is removed.
RemoveTail_StaleHead(l) ==
    LET t == tail[l] IN
    /\ t # NULL_TID
    /\ tail' = [tail EXCEPT ![l] = prev[t]]
    /\ next' = [next EXCEPT ![prev[t]] = NULL_TID, ![t] = NULL_TID]
    /\ prev' = [prev EXCEPT ![t] = NULL_TID]
    /\ removed' = t
    /\ UNCHANGED head

RemoveTail(l) ==
    LET t == tail[l] IN
    /\ t # NULL_TID
    /\ tail' = [tail EXCEPT ![l] = prev[t]]
    /\ head' = [head EXCEPT ![l] = IF prev[t] = NULL_TID THEN NULL_TID ELSE @]
    /\ next' = [next EXCEPT ![prev[t]] = NULL_TID, ![t] = NULL_TID]
    /\ prev' = [prev EXCEPT ![t] = NULL_TID]
    /\ removed' = t

\* Variant: the wrong end is handed out.
RemoveHead_ReturnsTail(l) ==
    LET t == head[l] IN
    /\ t # NULL_TID
    /\ head' = [head EXCEPT ![l] = next[t]]
    /\ tail' = [tail EXCEPT ![l] = IF next[t] = NULL_TID THEN NULL_TID ELSE @]
    /\ prev' = [prev EXCEPT ![next[t]] = NULL_TID, ![t] = NULL_TID]
    /\ next' = [next EXCEPT ![t] = NULL_TID]
    /\ removed' = tail[l]

RemoveHead(l) ==
    LET t == head[l] IN
    /\ t # NULL_TID
    /\ head' = [head EXCEPT ![l] = next[t]]
    /\ tail' = [tail EXCEPT ![l] = IF next[t] = NULL_TID THEN NULL_TID ELSE @]
    /\ prev' = [prev EXCEPT ![next[t]] = NULL_TID, ![t] = NULL_TID]
    /\ next' = [next EXCEPT ![t] = NULL_TID]
    /\ removed' = t

RemoveNothing(l, at_tail) ==
    /\ (IF at_tail THEN tail[l] ELSE head[l]) = NULL_TID
    /\ removed' = NULL_TID
    /\ UNCHANGED <<head, tail, prev, next>>

RemoveFromEnd(l, at_tail) ==
    /\ \/ at_tail /\ RemoveTail(l)
       \/ ~at_tail /\ RemoveHead(l)
       \/ RemoveNothing(l, at_tail)
    /\ q' = list_remove_from_end(q, l, at_tail)

(***************************************************************************)
(* list_remove().  The callers' contract is weaker than the comment of the *)
(* function: the thread is in the list or in none.                         *)
(***************************************************************************)
RemoveThread(l, t) ==
    /\ t \in ToSet(q[l]) \/ t \notin Listed(q)
    /\ prev' = [prev EXCEPT ![next[t]] = prev[t], ![t] = NULL_TID]
    /\ next' = [next EXCEPT ![prev[t]] = next[t], ![t] = NULL_TID]
    /\ head' = [head EXCEPT ![l] = IF @ = t THEN next[t] ELSE @]
    /\ tail' = [tail EXCEPT ![l] = IF @ = t THEN prev[t] ELSE @]
    /\ q' = list_remove(q, l, t)
    /\ UNCHANGED removed

Next ==
    \E l \in ListNames :
        \/ \E t \in Tids, at_tail \in BOOLEAN : InsertAtEnd(l, t, at_tail)
        \/ \E at_tail \in BOOLEAN : RemoveFromEnd(l, at_tail)
        \/ \E t \in Tids : RemoveThread(l, t)

Spec == Init /\ [][Next]_vars
-----------------------------------------------------------------------------
(***************************************************************************)
(* Properties.                                                             *)
(***************************************************************************)
\* The links of a thread that is element i of list l lead to its neighbours.
LinkedAt(l, i) ==
    /\ prev[q[l][i]] = IF i = 1 THEN NULL_TID ELSE q[l][i - 1]
    /\ next[q[l][i]] = IF i = Len(q[l]) THEN NULL_TID ELSE q[l][i + 1]

\* list.c keeps every list well formed: head_tid and tail_tid name the ends,
\* prev_tid and next_tid the neighbours in both directions, and a thread that
\* is in no list has both links cleared (which is what makes list_remove()
\* harmless for it, and thread_release() treat the link pair as an empty list).
Linked ==
    /\ \A l \in ListNames :
         /\ head[l] = IF Len(q[l]) = 0 THEN NULL_TID ELSE q[l][1]
         /\ tail[l] = IF Len(q[l]) = 0 THEN NULL_TID ELSE q[l][Len(q[l])]
         /\ \A i \in 1..Len(q[l]) : LinkedAt(l, i)
    /\ \A t \in Tids \ Listed(q) : prev[t] = NULL_TID /\ next[t] = NULL_TID

\* No thread is in two lists, or twice in one.
Disjoint ==
    \A l, m \in ListNames : \A i \in 1..Len(q[l]), j \in 1..Len(q[m]) :
        q[l][i] = q[m][j] => l = m /\ i = j
=============================================================================
