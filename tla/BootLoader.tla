------------------------------ MODULE BootLoader ------------------------------
(***************************************************************************)
(* How the kernel boots the first process (kernel/init/loader.c) with the  *)
(* frames it allocates itself (kernel/init/memory.c) and the page tables   *)
(* it writes through kernel/paging.c.  The boot runs once, alone, and what *)
(* it does depends on what the boot loader left: the memory map, the place *)
(* of the modules, the init server's image among them, and the sections of *)
(* that image.                                                             *)
(*                                                                         *)
(* Addresses are counted in pages: a frame is the number of a physical     *)
(* page, of FRAMES in the 32-bit physical address space, and a virtual     *)
(* page is an index of a page directory and an index of a page table, of N *)
(* entries each.  Regions of memory and modules are whole pages, and so    *)
(* are the sections that servers/init_server/link.ld places; others may    *)
(* begin in the last page of the section before.                           *)
(***************************************************************************)
EXTENDS Integers, Sequences, SequencesExt

CONSTANTS
    N,              \* entries of a page directory or page table
    FRAMES,         \* pages of the physical address space
    EXTENDED_MEMORY, ksize,     \* frame of the kernel, and its length
    VGA_RAM,        \* end of conventional memory, a page of the first table
    KERNEL_VSTART, KERNEL_TEMP_END,     \* entries of the page directory
    STACK_PAGES,    \* pages of the init server's stack
    MemoryMaps,     \* bound: memory maps to try
    ModuleLists,    \* bound: first frames and lengths of the modules in memory
    Executables     \* bound: sequences of sections to try

Frames == 0..FRAMES-1
Index == 0..N-1
Pages == 0..N*N-1

\* The entry that maps the page directory into itself, and the kernel's own page
\* directory.
KERNEL_RECURSIVE_PDE == N - 1
kpage_dir == EXTENDED_MEMORY

ASSUME BootAssumption ==
    /\ FRAMES \in Nat /\ EXTENDED_MEMORY \in 1..FRAMES-1 /\ ksize \in Nat \ {0}
    /\ EXTENDED_MEMORY + ksize \in Frames
    /\ \A ms \in ModuleLists : \A m \in ToSet(ms) : m.start \in Nat /\ m.len \in Nat

Zero == [present |-> FALSE, rw |-> FALSE, user |-> FALSE, large |-> FALSE, base |-> 0]

\* What memory holds before anybody has written it is as good as any entry.
Garbage == [present |-> TRUE, rw |-> TRUE, user |-> TRUE, large |-> FALSE, base |-> 0]

PDE_INDEX(page) == page \div N
PTE_INDEX(page) == page % N

VARIABLES
    mmap, modules,                  \* what the boot loader left
    image, sections,                \* the module of the init server
    mem,                            \* the entries a frame holds
    first_free_page, can_alloc_frames,
    pc, init_server_pdir, stack_ptab,
    i, offset,                      \* counters of the loops
    handed,                         \* first_free_page as passed to the server
    args,                           \* the frame its arguments were written to
    taken                           \* history: the frames allocated, in order

vars == <<mmap, modules, image, sections, mem, first_free_page, can_alloc_frames, pc,
          init_server_pdir, stack_ptab, i, offset, handed, args, taken>>

-----------------------------------------------------------------------------
\* Frame allocation.

OVERLAPS(start, end, region_start, region_len) ==
    \/ start >= region_start /\ start < region_start + region_len
    \/ end >= region_start /\ end < region_start + region_len

\* The base of a memory map entry is put together from the upper word twice.
mmap_base(e) == e.base_addr_high * FRAMES + e.base_addr_high

\* The first entry of the map that the frame is in, 0 if there is none.
Entry(f) == SelectInSeq(mmap, LAMBDA e : OVERLAPS(f, (f + 1) % FRAMES, mmap_base(e), e.len))

\* Mutant: of the modules only the init server's is looked at.
is_reserved_page_OneModule(f) ==
    \/ f < EXTENDED_MEMORY
    \/ OVERLAPS(f, (f + 1) % FRAMES, EXTENDED_MEMORY, ksize)
    \/ Entry(f) = 0
    \/ ~mmap[Entry(f)].available
    \/ OVERLAPS(f, (f + 1) % FRAMES, image.start, image.len)

is_reserved_page(f) ==
    \/ f < EXTENDED_MEMORY
    \/ OVERLAPS(f, (f + 1) % FRAMES, EXTENDED_MEMORY, ksize)
    \/ Entry(f) = 0
    \/ ~mmap[Entry(f)].available
    \/ \E m \in ToSet(modules) : OVERLAPS(f, (f + 1) % FRAMES, m.start, m.len)

\* The frames that alloc_phys_frame() can give.  Its search ends when the address
\* wraps around to one below EXTENDED_MEMORY.
Candidates == {f \in Frames : /\ f >= first_free_page
                              /\ first_free_page >= EXTENDED_MEMORY /\ ~is_reserved_page(f)}

\* Mutant: the address does not wrap around.
alloc_phys_frame_NoWrap(f) ==
    /\ can_alloc_frames
    /\ f \in Candidates /\ \A g \in Candidates : f <= g
    /\ first_free_page' = f + 1
    /\ taken' = Append(taken, f)

alloc_phys_frame(f) ==
    /\ can_alloc_frames
    /\ f \in Candidates /\ \A g \in Candidates : f <= g
    /\ first_free_page' = (f + 1) % FRAMES
    /\ taken' = Append(taken, f)

-----------------------------------------------------------------------------
\* Page tables.

write_pmap_entry(m, pbase, entry, value) == [m EXCEPT ![pbase][entry] = value]

clear_phys_frames(m, f) == [m EXCEPT ![f] = [e \in Index |-> Zero]]

\* The kernel's entries of the current page directory, and one for the page map
\* itself.
initialize_root_pmap(m, pmap) ==
    [m EXCEPT ![pmap] = [e \in Index |->
        IF e = KERNEL_RECURSIVE_PDE THEN [Zero EXCEPT !.present = TRUE, !.rw = TRUE, !.base = pmap]
        ELSE IF e \in KERNEL_VSTART..KERNEL_TEMP_END-1 THEN m[kpage_dir][e] ELSE m[pmap][e]]]

\* The entry with which the MMU translates a page, Zero if it faults (external).
Translate(m, pdir, page) ==
    LET pde == m[pdir][PDE_INDEX(page)]
        pte == m[pde.base][PTE_INDEX(page)]
    IN  IF ~pde.present THEN Zero
        ELSE IF pde.large THEN [pde EXCEPT !.base = @ + PTE_INDEX(page)]
        ELSE IF pte.present THEN [pte EXCEPT !.rw = @ /\ pde.rw, !.user = @ /\ pde.user]
        ELSE Zero

\* The entry whose base access_mem() adds the offset within the page to, Zero if it
\* returns E_NOT_MAPPED.
access_mem(m, pdir, page) ==
    LET pde == m[pdir][PDE_INDEX(page)]
        pte == m[pde.base][PTE_INDEX(page)]
    IN  IF pde.present /\ pde.large THEN pde
        ELSE IF pde.present /\ pte.present THEN pte
        ELSE Zero

UserEntry(base, rw) == [Zero EXCEPT !.present = TRUE, !.user = TRUE, !.rw = rw, !.base = base]

-----------------------------------------------------------------------------
\* init_paging() has mapped the first 4 MB and the kernel, whose page tables are
\* among its frames.
InitialMemory == [f \in Frames |-> [e \in Index |->
    IF f # kpage_dir THEN Garbage
    ELSE IF e = 0 THEN [Zero EXCEPT !.present = TRUE, !.rw = TRUE, !.large = TRUE]
    ELSE IF e = KERNEL_RECURSIVE_PDE THEN [Zero EXCEPT !.present = TRUE, !.rw = TRUE, !.base = f]
    ELSE IF e \in KERNEL_VSTART..KERNEL_TEMP_END-1
         THEN [Zero EXCEPT !.present = TRUE, !.rw = TRUE, !.base = f + e - KERNEL_VSTART + 1]
    ELSE Zero]]

\* load_servers() takes a module for the init server.  Which one depends on their
\* command lines, and on the memory it reads for one without --init.
Init ==
    /\ mmap \in MemoryMaps /\ modules \in ModuleLists
    /\ image \in ToSet(modules) /\ sections \in Executables
    /\ mem = InitialMemory
    /\ first_free_page = EXTENDED_MEMORY + ksize
    /\ can_alloc_frames = TRUE
    /\ pc = "pdir" /\ init_server_pdir = 0 /\ stack_ptab = 0
    /\ i = 0 /\ offset = 0 /\ handed = 0 /\ args = 0 /\ taken = <<>>

Input == UNCHANGED <<mmap, modules, image, sections>>

\* The page directory of the init server, if its image is an executable.
AllocPdir(f) ==
    /\ pc = "pdir" /\ image.elf /\ alloc_phys_frame(f)
    /\ mem' = clear_phys_frames(mem, f)
    /\ init_server_pdir' = f
    /\ pc' = "stack_ptab"
    /\ Input /\ UNCHANGED <<can_alloc_frames, stack_ptab, i, offset, handed, args>>

\* The page table of its stack, which ends below the kernel.
AllocStackTable(f) ==
    /\ pc = "stack_ptab" /\ alloc_phys_frame(f)
    /\ mem' = write_pmap_entry(clear_phys_frames(mem, f), init_server_pdir, KERNEL_VSTART - 1,
                               UserEntry(f, TRUE))
    /\ stack_ptab' = f
    /\ pc' = "stack"
    /\ Input /\ UNCHANGED <<can_alloc_frames, init_server_pdir, i, offset, handed, args>>

AllocStackPage(f) ==
    /\ pc = "stack" /\ alloc_phys_frame(f)
    /\ mem' = write_pmap_entry(mem, stack_ptab, N - (i + 1), UserEntry(f, TRUE))
    /\ i' = (i + 1) % STACK_PAGES
    /\ pc' = IF i + 1 = STACK_PAGES THEN "lower_mem" ELSE pc
    /\ Input /\ UNCHANGED <<can_alloc_frames, init_server_pdir, stack_ptab, offset, handed, args>>

\* Mutant: and the page after it.
LowerMemory_OneMore(m, ptab) ==
    [m EXCEPT ![ptab] = [e \in Index |-> IF e <= VGA_RAM THEN UserEntry(e, FALSE) ELSE @[e]]]

LowerMemory(m, ptab) ==
    [m EXCEPT ![ptab] = [e \in Index |-> IF e < VGA_RAM THEN UserEntry(e, FALSE) ELSE @[e]]]

\* The server may read conventional memory, at its own addresses.  The page table
\* for it is a new one, unless the page directory has one already.
MapLowerMemory ==
    /\ pc = "lower_mem"
    /\ LET pde == mem[init_server_pdir][0]
       IN  IF pde.present
           THEN mem' = LowerMemory(mem, pde.base) /\ UNCHANGED <<first_free_page, taken>>
           ELSE \E f \in Frames :
                    /\ alloc_phys_frame(f)
                    /\ mem' = LowerMemory(write_pmap_entry(clear_phys_frames(mem, f),
                                            init_server_pdir, 0, UserEntry(f, TRUE)), f)
    /\ pc' = "thread"
    /\ Input /\ UNCHANGED <<can_alloc_frames, init_server_pdir, stack_ptab, i, offset, handed, args>>

\* load_elf_exe() creates the thread, which completes the page directory, ...
CreateThread ==
    /\ pc = "thread"
    /\ mem' = initialize_root_pmap(mem, init_server_pdir)
    /\ i' = 1
    /\ pc' = "load"
    /\ Input /\ UNCHANGED <<first_free_page, can_alloc_frames, init_server_pdir, stack_ptab, offset,
                            handed, args, taken>>

\* ... and then maps the sections, page by page.
InSections == pc = "load" /\ i <= Len(sections)

SkipSection ==
    /\ InSections
    /\ ~sections[i].alloc \/ offset = sections[i].size
    /\ i' = i + 1 /\ offset' = 0
    /\ Input /\ UNCHANGED <<mem, first_free_page, can_alloc_frames, pc, init_server_pdir, stack_ptab,
                            handed, args, taken>>

LoadingPage == InSections /\ sections[i].alloc /\ offset < sections[i].size
Page == sections[i].addr + offset
Pde == mem[init_server_pdir][PDE_INDEX(Page)]
Pte == mem[Pde.base][PTE_INDEX(Page)]

\* A page table for the page, if there is none.  The rest of the step follows.
AllocPageTable(f) ==
    /\ LoadingPage /\ ~Pde.present /\ alloc_phys_frame(f)
    /\ mem' = write_pmap_entry(clear_phys_frames(mem, f), init_server_pdir, PDE_INDEX(Page),
                               UserEntry(f, TRUE))
    /\ Input /\ UNCHANGED <<can_alloc_frames, pc, init_server_pdir, stack_ptab, i, offset, handed, args>>

HasTable == LoadingPage /\ Pde.present /\ ~Pde.large

\* The page was mapped for an earlier section.  Zeroes are written to it, through
\* the address that it has in the server: in the kernel's own address space, where
\* the kernel faults if there is no such page.
MappedBefore ==
    /\ HasTable /\ Pte.present
    /\ LET own == Translate(mem, kpage_dir, Page)
       IN  IF sections[i].type # "NOBITS" THEN UNCHANGED <<mem, pc>>
           ELSE IF own.rw THEN mem' = clear_phys_frames(mem, own.base) /\ UNCHANGED pc
           ELSE pc' = "failed" /\ UNCHANGED mem
    /\ offset' = offset + 1
    /\ Input /\ UNCHANGED <<first_free_page, can_alloc_frames, init_server_pdir, stack_ptab, i,
                            handed, args, taken>>

\* What the image contains is used where it lies.
MapImagePage ==
    /\ HasTable /\ ~Pte.present /\ sections[i].type = "PROGBITS"
    /\ mem' = write_pmap_entry(mem, Pde.base, PTE_INDEX(Page),
                               UserEntry(image.start + sections[i].offset + offset, sections[i].write))
    /\ offset' = offset + 1
    /\ Input /\ UNCHANGED <<first_free_page, can_alloc_frames, pc, init_server_pdir, stack_ptab, i,
                            handed, args, taken>>

\* Mutant: the page is not cleared.
MapZeroPage_NotCleared(f) ==
    /\ HasTable /\ ~Pte.present /\ sections[i].type = "NOBITS"
    /\ alloc_phys_frame(f)
    /\ mem' = write_pmap_entry(mem, Pde.base, PTE_INDEX(Page), UserEntry(f, sections[i].write))
    /\ offset' = offset + 1
    /\ Input /\ UNCHANGED <<can_alloc_frames, pc, init_server_pdir, stack_ptab, i, handed, args>>

\* What it does not contain is allocated and cleared.
MapZeroPage(f) ==
    /\ HasTable /\ ~Pte.present /\ sections[i].type = "NOBITS"
    /\ alloc_phys_frame(f)
    /\ mem' = write_pmap_entry(clear_phys_frames(mem, f), Pde.base, PTE_INDEX(Page),
                               UserEntry(f, sections[i].write))
    /\ offset' = offset + 1
    /\ Input /\ UNCHANGED <<can_alloc_frames, pc, init_server_pdir, stack_ptab, i, handed, args>>

\* Nothing is mapped for a section of another type.
SkipPage ==
    /\ HasTable /\ ~Pte.present /\ sections[i].type \notin {"PROGBITS", "NOBITS"}
    /\ offset' = offset + 1
    /\ Input /\ UNCHANGED <<mem, first_free_page, can_alloc_frames, pc, init_server_pdir, stack_ptab, i,
                            handed, args, taken>>

\* Mutant: what is passed on is where the free frames began.
Start_Early ==
    /\ pc = "load" /\ i > Len(sections)
    /\ handed' = EXTENDED_MEMORY + ksize
    /\ can_alloc_frames' = FALSE
    /\ args' = access_mem(mem, init_server_pdir, KERNEL_VSTART * N - 1).base
    /\ pc' = IF access_mem(mem, init_server_pdir, KERNEL_VSTART * N - 1).present
             THEN "started" ELSE "failed"
    /\ Input /\ UNCHANGED <<mem, first_free_page, init_server_pdir, stack_ptab, i, offset, taken>>

\* The thread is started, and its arguments are written to the top of the stack.
Start ==
    /\ pc = "load" /\ i > Len(sections)
    /\ handed' = first_free_page
    /\ can_alloc_frames' = FALSE
    /\ args' = access_mem(mem, init_server_pdir, KERNEL_VSTART * N - 1).base
    /\ pc' = IF access_mem(mem, init_server_pdir, KERNEL_VSTART * N - 1).present
             THEN "started" ELSE "failed"
    /\ Input /\ UNCHANGED <<mem, first_free_page, init_server_pdir, stack_ptab, i, offset, taken>>

\* The next step allocates a frame.
NeedsFrame ==
    \/ pc \in {"pdir", "stack_ptab", "stack"}
    \/ pc = "lower_mem" /\ ~mem[init_server_pdir][0].present
    \/ LoadingPage /\ ~Pde.present
    \/ HasTable /\ ~Pte.present /\ sections[i].type = "NOBITS"

\* The image is no executable, or there is no frame for the next step, or a large
\* page where a page table should be: the kernel gives up.
GiveUp ==
    /\ \/ pc = "pdir" /\ ~image.elf
       \/ IF NeedsFrame THEN Candidates = {} ELSE LoadingPage /\ Pde.large
    /\ pc' = "failed"
    /\ Input /\ UNCHANGED <<mem, first_free_page, can_alloc_frames, init_server_pdir, stack_ptab, i,
                            offset, handed, args, taken>>

Next ==
    \/ \E f \in Frames : \/ AllocPdir(f) \/ AllocStackTable(f) \/ AllocStackPage(f)
                         \/ AllocPageTable(f) \/ MapZeroPage(f)
    \/ MapLowerMemory \/ CreateThread \/ SkipSection \/ MappedBefore \/ MapImagePage \/ SkipPage
    \/ Start \/ GiveUp

Spec == Init /\ [][Next]_vars

-----------------------------------------------------------------------------
TypeOK ==
    /\ mem \in [Frames -> [Index -> [present : BOOLEAN, rw : BOOLEAN, user : BOOLEAN,
                                     large : BOOLEAN, base : Frames]]]
    /\ first_free_page \in Frames /\ handed \in Frames /\ args \in Frames
    /\ init_server_pdir \in Frames /\ stack_ptab \in Frames
    /\ i \in Nat /\ offset \in Nat /\ taken \in Seq(Frames)

\* The search for a frame has come to the end of the physical addresses.
Wrapped == first_free_page = 0

\* alloc_phys_frame() never gives a frame twice, nor one of the kernel, of the
\* first megabyte or of a module, the image that is being loaded among them.
FramesApart ==
    /\ \A j, k \in 1..Len(taken) : taken[j] = taken[k] => j = k
    /\ \A j \in 1..Len(taken) : /\ taken[j] >= EXTENDED_MEMORY + ksize
                                /\ \A m \in ToSet(modules) : taken[j] \notin m.start .. m.start + m.len - 1


Loaded(s) == s.alloc /\ s.type \in {"PROGBITS", "NOBITS"}
SectionPages == UNION {s.addr .. s.addr + s.size - 1 : s \in {x \in ToSet(sections) : Loaded(x)}}
StackPages == KERNEL_VSTART * N - STACK_PAGES .. KERNEL_VSTART * N - 1
ZeroPages == UNION {s.addr .. s.addr + s.size - 1 :
                        s \in {x \in ToSet(sections) : Loaded(x) /\ x.type = "NOBITS"}}
Seen(page) == Translate(mem, init_server_pdir, page)

\* The init server starts with the memory its executable asks for: the image's
\* frames at their addresses, zeroes in frames of their own for .bss, a stack in
\* frames of its own, with its arguments on top.
LoadedAsLinked ==
    pc = "started" =>
        /\ \A s \in ToSet(sections) : Loaded(s) => \A o \in 0..s.size-1 :
            /\ Seen(s.addr + o).user /\ Seen(s.addr + o).rw = s.write
            /\ s.type = "PROGBITS" => Seen(s.addr + o).base = image.start + s.offset + o
            /\ s.type = "NOBITS" => mem[Seen(s.addr + o).base] = [e \in Index |-> Zero]
        /\ \A p \in StackPages : Seen(p).user /\ Seen(p).rw
        /\ \A p, q \in StackPages \cup ZeroPages :
            Seen(p).base \in ToSet(taken) /\ (Seen(p).base = Seen(q).base => p = q)
        /\ args = Seen(KERNEL_VSTART * N - 1).base

\* It can reach nothing else but conventional memory, and the kernel is where it is
\* in the kernel's own address space.
OnlyPlannedPages ==
    pc = "started" =>
        /\ \A p \in Pages \ (SectionPages \cup StackPages) :
            Seen(p).user => p < VGA_RAM /\ Seen(p).base = p /\ ~Seen(p).rw
        /\ \A e \in KERNEL_VSTART..KERNEL_TEMP_END-1 : mem[init_server_pdir][e] = mem[kpage_dir][e]
        /\ mem[init_server_pdir][KERNEL_RECURSIVE_PDE].base = init_server_pdir

\* The init server takes over the frames from handed on, one after the other.  None
\* of them was allocated by the kernel, and no module is cut: one that begins below
\* handed, as the modules do that the boot loader puts behind the kernel, also ends
\* there.  This is not so once the last frame of the address space was allocated:
\* handed is 0 then.
HandedOverFree ==
    pc = "started" /\ ~Wrapped =>
        /\ \A f \in ToSet(taken) : f < handed
        /\ \A m \in ToSet(modules) : m.start < handed => m.start + m.len <= handed

=============================================================================
