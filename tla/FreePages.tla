------------------------------ MODULE FreePages ------------------------------
(***************************************************************************)
(* What an allocator of physical memory promises: there is a set of free   *)
(* pages; a block that is given out is taken from them, and what an owner  *)
(* gives back is free again.  It may refuse.                               *)
(***************************************************************************)
EXTENDS Integers

CONSTANTS
    Pages,
    Blocks      \* the sets of pages that can be asked for

VARIABLES
    free, owned,
    settled     \* whether all of memory has been looked at

Init == free = {} /\ owned = {} /\ ~settled

\* A request that is refused, or what does not concern the pages.
Refuse == UNCHANGED <<free, owned>>

\* Before anything is owned, the free pages are found out, ...
Discover == ~settled /\ owned = {} /\ free' \subseteq Pages /\ owned' = owned

\* ... and for some time it may turn out that a page was none.
Withdraw == ~settled /\ free' \subseteq free /\ owned' = owned

Take ==
    /\ owned \subseteq owned'
    /\ owned' \ owned \in Blocks /\ owned' \ owned \subseteq free
    /\ free' = free \ owned'

Give ==
    /\ owned' \subseteq owned
    /\ owned \ owned' \in Blocks
    /\ free' = free \cup (owned \ owned')

Next ==
    /\ settled => settled'
    /\ Refuse \/ Discover \/ Withdraw \/ Take \/ Give

Spec == Init /\ [][Next]_<<free, owned, settled>>

=============================================================================
