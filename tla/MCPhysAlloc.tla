----------------------------- MODULE MCPhysAlloc -----------------------------
(***************************************************************************)
(* Memory maps for PhysAlloc, with pages of two bytes, words of three bits *)
(* and so blocks of 2, 6, 18 and 54 bytes.                                 *)
(***************************************************************************)
EXTENDS PhysAlloc

Entry(base_addr, end, available) ==
    [base_addr |-> base_addr, length |-> end - base_addr, available |-> available]

\* A reserved entry that starts within a page, a hole, memory that ends within a
\* block of every size but the smallest, and reserved memory right behind it.
Ragged == <<Entry(0, 5, TRUE), Entry(5, 8, FALSE), Entry(42, 74, TRUE), Entry(74, 80, FALSE)>>

\* Memory is available up to the end of the lower section and above it.
Large == <<Entry(0, 10, TRUE), Entry(10, 54, FALSE), Entry(54, 150, TRUE)>>

\* Reserved memory above the lower section, which init() cannot mark.
ReservedAbove == <<Entry(0, 108, TRUE), Entry(126, 132, FALSE), Entry(132, 140, TRUE)>>

MCMemoryMaps == {Ragged, Large, ReservedAbove}

=============================================================================
