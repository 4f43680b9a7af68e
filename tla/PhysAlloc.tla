------------------------------ MODULE PhysAlloc ------------------------------
(***************************************************************************)
(* The allocator of physical memory of the init server,                    *)
(* servers/init_server/src/phys_alloc.rs.  Memory is divided into blocks   *)
(* of several sizes (levels), each block into BITS blocks of the size      *)
(* below.  Every level has two bit arrays: whether a block is occupied (at *)
(* least in part) and whether it is filled.  The smallest blocks need only *)
(* one.  Memory above MAX_PHYS_ADDR_4K has arrays of its own (a section),  *)
(* for the larger sizes.                                                   *)
(*                                                                         *)
(* Until init() has read the memory map of the boot loader, memory is      *)
(* taken from the bootstrap allocator, which only ever extends.  init()    *)
(* installs the allocator before it marks the holes of the memory map, and *)
(* works with sets of regions meanwhile: the heap may grow, and so take    *)
(* blocks (sbrk.rs), before and between the marks.                         *)
(*                                                                         *)
(* A panic of the server is the value "panic" of phase.  given holds the   *)
(* blocks that callers own; the callers release what they own, as a whole  *)
(* or, like sbrk.rs, page by page.                                         *)
(***************************************************************************)
EXTENDS Regions, BitArray

CONSTANTS
    PAGE,               \* bytes of a Block4k
    TOTAL_SIZES,        \* BlockSize::total_sizes()
    LEVEL_4M,           \* BlockSize::Block4M.level()
    MAX_PHYS_ADDR_4K,
    MAX_PHYS_ADDR,
    MemoryMaps,         \* what the boot loader may report
    FirstFreePages,
    BootLimit,          \* bound: bytes given out before init()
    MaxHeap,            \* bound: blocks the heap takes within init()
    MaxGiven,           \* bound: blocks owned at a time otherwise
    MaxForgotten        \* bound: pages that sbrk.rs has forgotten

Levels == 0..TOTAL_SIZES-1

ASSUME AllocAssumption ==
    /\ PAGE \in Nat \ {0} /\ TOTAL_SIZES \in Nat \ {0} /\ LEVEL_4M \in 1..TOTAL_SIZES-1
    /\ MAX_PHYS_ADDR \in MAX_PHYS_ADDR_4K..Top-1
    /\ MAX_PHYS_ADDR_4K % (PAGE * BITS^(TOTAL_SIZES-1)) = 0

VARIABLES
    phase,      \* "bootstrap", "holes", "ready" or "panic"
    mmap,       \* the memory map, a sequence
    boot,       \* BOOTSTRAP_MEM
    al,         \* PAGE_ALLOCATOR
    holes,      \* hole_regions that init() has still to mark
    given,      \* the blocks callers own
    released    \* whether any block was released since init()

vars == <<phase, mmap, boot, al, holes, given, released>>

\* BlockSize::bytes()
bytes(level) == PAGE * BITS^level

AlignUp(n, boundary) == IF n % boundary = 0 THEN n ELSE n + (boundary - (n % boundary))

AlignTrunc(n, boundary) == n - (n % boundary)

Lesser(a, b) == IF a < b THEN a ELSE b

-----------------------------------------------------------------------------
\* The bit arrays of a section of so many bytes, from its smallest size on.
NewSection(base, size) ==
    LET Arrays(levels) == [level \in levels |-> NewBits(AlignUp(size, bytes(level)) \div bytes(level))]
    IN [base |-> base,
        occupied |-> Arrays(base..TOTAL_SIZES-1),
        filled |-> Arrays(base+1..TOTAL_SIZES-1)]

filled_status(section, level) ==
    IF level = section.base THEN section.occupied[level] ELSE section.filled[level]

SetFilled(section, level, array) ==
    IF level = section.base THEN [section EXCEPT !.occupied[level] = array]
    ELSE [section EXCEPT !.filled[level] = array]

\* The blocks of a level within block b of size: the first, and the one after the last.
First(b, size, level) == b * BITS^(size - level)

Past(b, size, level) == (b + 1) * BITS^(size - level)

\* Mutant: the block after the last one is cleared with them.
MarkBlock_OneTooMany(section, b, size, used) ==
    LET Mark(array, level) ==
            IF level > size THEN array
            ELSE set_bits_to(array, First(b, size, level),
                             Past(b, size, level) + (IF used THEN 0 ELSE 1), used)
    IN [section EXCEPT
            !.occupied = [level \in DOMAIN @ |-> Mark(@[level], level)],
            !.filled = [level \in DOMAIN @ |-> Mark(@[level], level)]]

\* Mutant: the sub-blocks are left as they are.
MarkBlock_NoSubBlocks(section, b, size, used) ==
    LET Mark(array, level) == IF level = size THEN set_to(array, b, used) ELSE array
    IN [section EXCEPT
            !.occupied = [level \in DOMAIN @ |-> Mark(@[level], level)],
            !.filled = [level \in DOMAIN @ |-> Mark(@[level], level)]]

\* The block and all its sub-blocks are set, or cleared, at every level.
MarkBlock(section, b, size, used) ==
    LET Mark(array, level) ==
            IF level > size THEN array
            ELSE set_bits_to(array, First(b, size, level), Past(b, size, level), used)
    IN [section EXCEPT
            !.occupied = [level \in DOMAIN @ |-> Mark(@[level], level)],
            !.filled = [level \in DOMAIN @ |-> Mark(@[level], level)]]

MarkPanics(section, b, size) ==
    \E level \in section.base..size :
        WordsMissing(section.occupied[level], First(b, size, level), Past(b, size, level))

\* Mutant: the enclosing blocks are not marked as occupied.
MarkSuperBlock_NotOccupied(section, offset, size, level) ==
    IF level + 1 < TOTAL_SIZES
       /\ is_word_set(filled_status(section, level), offset \div bytes(level))
    THEN SetFilled(section, level + 1,
                   set_to(filled_status(section, level + 1), offset \div bytes(level + 1), TRUE))
    ELSE section

\* Mutant: an enclosing block counts as filled once it is occupied.
MarkSuperBlock_FilledEarly(section, offset, size, level) ==
    LET s == IF level > size
             THEN [section EXCEPT !.occupied[level] = set_to(@, offset \div bytes(level), TRUE)]
             ELSE section
    IN IF level + 1 < TOTAL_SIZES
       THEN SetFilled(s, level + 1,
                      set_to(filled_status(s, level + 1), offset \div bytes(level + 1), TRUE))
       ELSE s

\* A block that encloses the one marked is occupied, and filled if all its
\* sub-blocks are.
MarkSuperBlock(section, offset, size, level) ==
    LET s == IF level > size
             THEN [section EXCEPT !.occupied[level] = set_to(@, offset \div bytes(level), TRUE)]
             ELSE section
    IN IF level + 1 < TOTAL_SIZES
          /\ is_word_set(filled_status(s, level), offset \div bytes(level))
       THEN SetFilled(s, level + 1,
                      set_to(filled_status(s, level + 1), offset \div bytes(level + 1), TRUE))
       ELSE s

MarkSection(section, offset, size) ==
    FoldLeft(LAMBDA s, level : MarkSuperBlock(s, offset, size, level),
             MarkBlock(section, offset \div bytes(size), size, TRUE),
             [i \in 1..TOTAL_SIZES-size |-> size + i - 1])

\* mark_used() of an allocator that has not panicked before.
mark_used(a, address, size) ==
    LET high == address >= MAX_PHYS_ADDR_4K
        offset == IF high THEN address - MAX_PHYS_ADDR_4K ELSE address
        section == IF high THEN a.upper ELSE a.lower
    IN IF a.panic \/ (high /\ size < LEVEL_4M)
            \/ MarkPanics(section, offset \div bytes(size), size)
       THEN [a EXCEPT !.panic = TRUE]
       ELSE IF high THEN [a EXCEPT !.upper = MarkSection(section, offset, size)]
       ELSE [a EXCEPT !.lower = MarkSection(section, offset, size)]

\* mark_free() clears the block and its sub-blocks, and no enclosing block.
mark_free(a, address, size) ==
    IF address >= MAX_PHYS_ADDR_4K
    THEN [a EXCEPT !.upper =
            MarkBlock(@, (address - MAX_PHYS_ADDR_4K) \div bytes(size), size, FALSE)]
    ELSE [a EXCEPT !.lower = MarkBlock(@, address \div bytes(size), size, FALSE)]

mark_reserved(a, region) == [a EXCEPT !.resd_regions = set_insert(@, region)]

is_block_free(a, address, size) ==
    IF address >= MAX_PHYS_ADDR_4K
    THEN ~is_set(a.upper.occupied[size], (address - MAX_PHYS_ADDR_4K) \div bytes(size))
    ELSE ~is_set(a.lower.occupied[size], address \div bytes(size))

-----------------------------------------------------------------------------
\* init(): the end of memory, then the arrays, then everything that is in use.
MemoryEnd ==
    LET ends == {mmap[i].base_addr + mmap[i].length :
                    i \in {j \in DOMAIN mmap : mmap[j].available}}
    IN IF ends \subseteq {0} THEN MAX_PHYS_ADDR
       ELSE Lesser(AlignUp(Max(ends), PAGE), MAX_PHYS_ADDR)

NewAllocator ==
    [lower |-> NewSection(0, Lesser(MemoryEnd, MAX_PHYS_ADDR_4K)),
     upper |-> IF MemoryEnd > MAX_PHYS_ADDR_4K
               THEN NewSection(LEVEL_4M, MemoryEnd - MAX_PHYS_ADDR_4K)
               ELSE [base |-> LEVEL_4M, occupied |-> <<>>, filled |-> <<>>],
     resd_regions |-> <<>>,
     panic |-> FALSE]

\* Marks the blocks of a size whose first bytes are (from..to).step_by(bytes).
RECURSIVE MarkBlocks(_, _, _, _)
MarkBlocks(a, from, to, size) ==
    IF a.panic \/ from >= to THEN a
    ELSE MarkBlocks(mark_used(a, from, size), from + bytes(size), to, size)

\* Mutant: the pages after the last whole block of the second size are left out.
MarkRange_NoTail(a, start, end) ==
    LET block_start == AlignUp(start, bytes(1))
        block_end == AlignTrunc(end, bytes(1))
    IN MarkBlocks(MarkBlocks(a, start, block_start, 0), block_start, block_end, 1)

\* The range page by page up to a boundary of the second size, in blocks of that
\* size, and page by page again.  Within one block, more than the range is marked.
MarkRange(a, start, end) ==
    LET block_start == AlignUp(start, bytes(1))
        block_end == AlignTrunc(end, bytes(1))
        head == MarkBlocks(a, start, block_start, 0)
        blocks == MarkBlocks(head, block_start, block_end, 1)
    IN MarkBlocks(blocks, block_end, end, 0)

\* An entry of the memory map that is not available, or lies below the end of
\* what the bootstrap allocator has given out.
MarkEntry(a, entry) ==
    LET entry_end == entry.base_addr + entry.length
        end == IF entry.available /\ entry_end > boot.end THEN boot.end ELSE entry_end
        marked == IF entry.base_addr < MemoryEnd
                  THEN MarkRange(a, entry.base_addr, Lesser(end, MemoryEnd))
                  ELSE a
    IN IF entry.available /\ entry.base_addr >= boot.end THEN a
       ELSE mark_reserved(marked, new(entry.base_addr, end))

MarkBootstrap(a) == MarkBlocks(a, boot.start, boot.end, 0)

hole_regions ==
    FoldLeft(LAMBDA acc, entry :
                set_intersection(
                    set_complement(<<new(entry.base_addr, entry.base_addr + entry.length)>>),
                    acc),
             <<new(0, MemoryEnd)>>, mmap)

MarkHole(a, region) ==
    mark_reserved(MarkRange(a, region.start, Lesser(region.end, MemoryEnd)), region)

Installed == MarkBootstrap(FoldLeft(MarkEntry, NewAllocator, mmap))

-----------------------------------------------------------------------------
\* _find_block(): the block it returns, in a set of one element, or the empty
\* set.  The search goes down from the first block that is not filled, but the
\* index it goes on from is not that of its first sub-block.
RECURSIVE FindFrom(_, _, _)
FindFrom(start_index, level, size) ==
    IF level = size
    THEN LET free == ZerosFrom(al.lower.occupied[level], start_index)
         IN IF free = {} THEN {} ELSE {Min(free)}
    ELSE LET hits == {b \in ZerosFrom(filled_status(al.lower, level), start_index) :
                        FindFrom(BITS*start_index + b, level - 1, size) # {}}
         IN IF hits = {} THEN {} ELSE FindFrom(BITS*start_index + Min(hits), level - 1, size)

find_block(size) == FindFrom(0, TOTAL_SIZES-1, size)

\* A block with its owner: "early" is the bootstrap phase, "sbrk" the call that
\* grows the heap within init(), "heap" the heap after that call, "nobody" an
\* owner who has forgotten it.
Block(address, size, owner) == [address |-> address, size |-> size, owner |-> owner]

GivenTo(owner) == {g \in given : g.owner = owner}

Panic == phase' = "panic" /\ UNCHANGED <<mmap, boot, al, holes, given, released>>

\* BootstrapAllocator::extend(), which knows nothing of the memory map.
Extend(size) ==
    /\ phase = "bootstrap" /\ boot.end + bytes(size) <= BootLimit
    /\ boot' = [boot EXCEPT !.end = @ + bytes(size)]
    /\ given' = given \cup {Block(boot.end, size, "early")}
    /\ UNCHANGED <<phase, mmap, al, holes, released>>

\* PhysPageAllocator::init() up to where the allocator is installed, ...
Install ==
    /\ phase = "bootstrap"
    /\ IF Installed.panic THEN Panic
       ELSE /\ phase' = "holes" /\ al' = Installed /\ holes' = hole_regions
            /\ UNCHANGED <<mmap, boot, given, released>>

\* What a call of sbrk() has not released by its end stays with the heap.
Kept == {IF g.owner = "sbrk" THEN [g EXCEPT !.owner = "heap"] ELSE g : g \in given}

\* ... the mark of the next hole, ...
MarkNextHole ==
    /\ phase = "holes" /\ holes # <<>>
    /\ LET a == MarkHole(al, Head(holes))
       IN IF a.panic THEN Panic
          ELSE /\ al' = a /\ holes' = Tail(holes) /\ given' = Kept
               /\ UNCHANGED <<phase, mmap, boot, released>>

\* ... and its end.
Initialized ==
    /\ phase = "holes" /\ holes = <<>>
    /\ phase' = "ready" /\ given' = Kept
    /\ UNCHANGED <<mmap, boot, al, holes, released>>

\* PhysPageAllocator::alloc().  It returns an error if it finds no block.  Which
\* error, is looked up for the larger sizes in the arrays of upper memory, also
\* when there are none.
Alloc(size) ==
    /\ phase \in {"holes", "ready"}
    /\ IF find_block(size) # {}
       THEN LET address == Min(find_block(size)) * bytes(size)
                marked == mark_used(al, address, size)
                owner == IF phase = "holes" THEN "sbrk" ELSE "caller"
            IN /\ IF phase = "holes" THEN Cardinality(GivenTo("sbrk") \cup GivenTo("heap")) < MaxHeap
                  ELSE Cardinality(GivenTo("caller")) < MaxGiven
               /\ IF marked.panic THEN Panic
                  ELSE /\ al' = marked
                       /\ given' = given \cup {Block(address, size, owner)}
                       /\ UNCHANGED <<phase, mmap, boot, holes, released>>
       ELSE IF size >= LEVEL_4M /\ DOMAIN al.upper.occupied = {} THEN Panic
       ELSE UNCHANGED vars

\* release_phys() does nothing before init(): the memory is lost.
ReleaseEarly ==
    /\ phase = "bootstrap"
    /\ \E block \in given : given' = given \ {block}
    /\ UNCHANGED <<phase, mmap, boot, al, holes, released>>

\* PhysPageAllocator::release(); rest is what the owner forgets of the block.
Release(block, address, size, rest) ==
    /\ phase \in {"holes", "ready"}
    /\ IF is_block_free(al, address, size) THEN Panic
       ELSE /\ al' = mark_free(al, address, size)
            /\ given' = (given \ {block}) \cup rest
            /\ released' = TRUE
            /\ UNCHANGED <<phase, mmap, boot, holes>>

Releasable == GivenTo("caller") \cup GivenTo("sbrk")

ReleaseWhole == \E block \in Releasable : Release(block, block.address, block.size, {})

\* The pages that sbrk.rs maps a block with: large ones from 4M on.
PageLevel(size) == IF size >= LEVEL_4M THEN LEVEL_4M ELSE 0

PagesOf(block) ==
    LET level == PageLevel(block.size)
    IN {Block(block.address + i * bytes(level), level, "nobody") :
            i \in 0..BITS^(block.size - level)-1}

\* Where increment_end() of sbrk.rs fails to map a block page by page, it releases
\* the pages that were mapped (one at most) and forgets the others.
ReleaseFirstPage ==
    \E block \in {g \in Releasable : g.size # PageLevel(g.size)} :
        LET page == Block(block.address, PageLevel(block.size), "nobody")
        IN /\ Cardinality(GivenTo("nobody") \cup PagesOf(block)) <= MaxForgotten + 1
           /\ Release(block, page.address, page.size, PagesOf(block) \ {page})

Init ==
    /\ phase = "bootstrap" /\ al = <<>> /\ holes = <<>> /\ given = {} /\ released = FALSE
    /\ mmap \in MemoryMaps
    /\ \E page \in FirstFreePages : boot = [start |-> page, end |-> page]

Next ==
    /\ phase # "panic"
    /\ \/ \E size \in Levels : Extend(size) \/ Alloc(size)
       \/ Install \/ MarkNextHole \/ Initialized
       \/ ReleaseEarly \/ ReleaseWhole \/ ReleaseFirstPage

Spec == Init /\ [][Next]_vars

-----------------------------------------------------------------------------
BytesOf(block) == block.address .. block.address + bytes(block.size) - 1

\* No byte of memory is given to two owners, whatever sizes were asked for and
\* however blocks were released: as a whole, or in part as sbrk.rs does.
GivenOnce ==
    \A g, h \in given : g # h => BytesOf(g) \cap BytesOf(h) = {}

ReservedBytes == UNION {AddressesOf(al.resd_regions[i]) : i \in DOMAIN al.resd_regions}

\* What init() has found to be reserved, missing or taken by the bootstrap
\* allocator is never given out.
NeverReserved == \A g \in given : g.owner # "early" => BytesOf(g) \cap ReservedBytes = {}

\* The same for what is given out once init() has returned, and for memory below
\* the end of what is available: although blocks of any size are taken and released
\* around the marks of init(), none of the marks gets lost.
MarksLast ==
    \A g \in GivenTo("caller") : BytesOf(g) \cap ReservedBytes \cap 0..MemoryEnd-1 = {}

\* A block that is not marked as occupied has no sub-block that is: alloc() looks
\* at the bit of the size it needs alone.
ClearMeansFree ==
    phase \in {"holes", "ready"} =>
        \A level \in 1..TOTAL_SIZES-1 :
            \A b \in ZerosFrom(al.lower.occupied[level], 0) :
                ~\E sub \in b*BITS..(b+1)*BITS-1 : is_set(al.lower.occupied[level-1], sub)

\* The owner of a block can release it: release() does not take it for free.
OwnerCanRelease ==
    phase \in {"holes", "ready"} =>
        \A g \in Releasable : ~is_block_free(al, g.address, g.size)

\* As long as nothing was released, alloc() finds a free block of every size if
\* there is one, although _find_block() does not go on with the sub-blocks of the
\* block it has come to.
FindsFreeBlocks ==
    phase \in {"holes", "ready"} /\ ~released =>
        \A size \in Levels :
            ZerosFrom(al.lower.occupied[size], 0) # {} => find_block(size) # {}

\* The bits of the smallest blocks implement the set of free pages.  Pages beyond
\* the end of memory count as free: the last block of a size may reach there.
Pages == 0 .. MAX_PHYS_ADDR_4K \div PAGE - 1

PageBlocks ==
    {b * BITS^size .. (b+1) * BITS^size - 1 : b \in Pages, size \in Levels}

free_pages == IF DOMAIN al = {} THEN {} ELSE Pages \ al.lower.occupied[0].ones

owned_pages ==
    UNION {g.address \div PAGE .. (g.address + bytes(g.size)) \div PAGE - 1 :
                g \in {h \in given : h.owner # "early"}}

Abstract ==
    INSTANCE FreePages WITH
        Blocks <- PageBlocks, free <- free_pages, owned <- owned_pages,
        settled <- phase \in {"ready", "panic"}

ImplementsFreePages == Abstract!Spec

=============================================================================
