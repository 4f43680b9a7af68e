----------------------------- MODULE MCTcbList -----------------------------
(***************************************************************************)
(* Model of TcbList for TLC, and the lists as a reader of the pointers     *)
(* finds them.                                                             *)
(***************************************************************************)
EXTENDS TcbList, FiniteSets

\* The threads met by following links from t, at most one per TCB.
Follow(link, t) ==
    LET walk[x \in TidOrNull, n \in 0..Cardinality(Tids)] ==
            IF x = NULL_TID \/ n = 0 THEN <<>> ELSE <<x>> \o walk[link[x], n - 1]
    IN  walk[t, Cardinality(Tids)]

\* The lists read off the pointers, from head_tid along next_tid.
Contents == [l \in ListNames |-> Follow(next, head[l])]

\* The linked lists of list.c implement the sequences of ListSpec: every
\* pointer update is one insertion or removal, at the end asked for, and
\* list_remove_from_end() returns the thread that was there.
Abstract == INSTANCE ListSpec WITH q <- Contents
ImplementsLists == Abstract!Spec
=============================================================================
