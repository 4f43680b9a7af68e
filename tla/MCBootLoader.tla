---------------------------- MODULE MCBootLoader ----------------------------
(***************************************************************************)
(* Memory maps, modules and executables for BootLoader.                    *)
(***************************************************************************)
EXTENDS BootLoader

Region(low, len, available) ==
    [base_addr_high |-> 0, base_addr_low |-> low, len |-> len, available |-> available]

\* Conventional memory, the firmware below the first megabyte, len frames of
\* memory above it, and something reserved at its end.
FlatMaps ==
    {<<Region(0, 1, TRUE), Region(1, 1, FALSE), Region(2, len, TRUE), Region(2 + len, 1, FALSE)>>
        : len \in {10, 13, 16, 20}}

\* The same with a hole, between two regions of memory.
HoleMaps ==
    {<<Region(0, 1, TRUE), Region(1, 1, FALSE), Region(2, len, TRUE), Region(2 + len, 1, FALSE),
       Region(3 + len, 16 - len, TRUE)>> : len \in {4, 5}}

Image(start) == [start |-> start, len |-> 5, elf |-> TRUE]
File(start, len) == [start |-> start, len |-> len, elf |-> FALSE]

\* The modules lie behind the kernel, with or without gaps, in any order.
SomeModules ==
    {<<Image(5)>>, <<Image(9)>>, <<Image(5), File(10, 1)>>, <<Image(13), File(6, 2)>>}

Section(type, addr, size, off, write) ==
    [alloc |-> TRUE, type |-> type, addr |-> addr, size |-> size, offset |-> off, write |-> write]

Debug == [Section("PROGBITS", 0, 1, 4, FALSE) EXCEPT !.alloc = FALSE]

\* Code, constants in its last page, data, zeroes and a section that is not loaded,
\* from the last pages of a page table on.
SomeExecutables ==
    {<<Section("PROGBITS", v, text, 1, FALSE), Section("PROGBITS", v + text - 1, 1, text, FALSE),
       Section("PROGBITS", v + text, data, 1 + text, TRUE),
       Section("NOTE", v + text + data, 1, 4, FALSE), Debug,
       Section("NOBITS", v + text + data + 1, bss, 0, TRUE)>>
        : v \in {8, 11}, text \in 1..2, data \in 1..2, bss \in 0..2}

=============================================================================
