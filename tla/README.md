# A TLA+ model of Silverbox OS

Silverbox OS is a microkernel for one x86 processor. The kernel (C, `kernel/`)
has threads, synchronous messages, interrupts and page maps; almost everything
else is left to the *init server* (Rust, `servers/init_server/`), which keeps
the address spaces, answers page faults, hands out physical memory and knows
the names of the other servers. Programs reach both through `lib/libos` and
`lib/librust`. `Makefile` builds the kernel, the libraries and the servers;
`apps/`, `drivers/` and the older servers are kept from an earlier interface
and are not built.

This directory models the kernel's threads, messages and interrupts in full, the
boot that loads the init server, and of the init server the address spaces, the
allocator of physical memory and the mapping buffers with their lock; of `libos`
the circular queue. The main safety properties of the kernel, the boot, the
buffers and the queue are proved for any number of threads, frames, pages and
elements.

## Parts and modules

| part of the system | code | modules |
|---|---|---|
| doubly linked thread lists | `kernel/list.c` | `TcbList`, its abstraction `ListSpec`, `Lists`, `MCTcbList`; proofs `ListLemmas`, `TcbListProofs` |
| threads, scheduler | `kernel/thread.c`, `kernel/schedule.c` | `Threads`; proofs `ThreadProofs` |
| messages | `kernel/message.c` | `Messages`; proofs `MessageProofs` |
| system calls, IRQs, exceptions | `kernel/syscall.c`, `kernel/interrupt.c` | `Kernel`, `KernelClaims`; proofs `KernelProofs` |
| memory regions | `init_server/src/region.rs` | `Regions` |
| address spaces | `init_server/src/mapping.rs` | `AddrSpace`, its abstraction `Translations` |
| physical memory | `init_server/src/phys_alloc.rs`, `librust/src/types.rs` | `BitArray`, `PhysAlloc`, its abstraction `FreePages`, `MCPhysAlloc` |
| mapping buffers, spin lock | `init_server/src/lowlevel.rs`, `mutex.rs` | `MapBuffers`; proofs `MapBufferProofs` |
| boot of the init server | `kernel/init/loader.c`, `kernel/init/memory.c`, `kernel/paging.c` | `BootLoader`, `MCBootLoader`; proofs `BootProofs` |
| circular queue | `libos/ostypes/cqueue.c` | `CQueue`, its abstraction `Fifo`; proofs `CQueueProofs` |

`PROJECT.json` lists the remaining parts with the reason why they are not
modelled, the lines each definition stands for, and the hazards.

The parts meet at memory. The kernel's boot takes frames from the memory map, and
passes the first one it has not used to the init server (`BootLoader!Start`,
`HandedOverFree`); the bootstrap allocator of the init server starts there
(`FirstFreePages` of `PhysAlloc`).

### Thread lists

`TcbList` has the fields `prev` and `next` of every thread and the ends of every
list as variables. Each branch of `list_insert_at_end()`,
`list_remove_from_end()` and `list_remove()` is an action. `ListSpec` says what
they promise: lists are sequences, and an operation inserts at an end, takes
from an end or removes an element. Under the refinement mapping of `TcbList`
(follow the links from the head) the property `ImplementsLists` is the abstract
specification. The rest of the kernel model uses the sequences, through the
operators of `Lists`, which carry the names of the C functions.

### The kernel

The kernel runs on one processor with interrupts disabled, so that a system
call, an IRQ or an exception is one step. Inside it C functions call each other
and each works on what the one before has left. `Threads` and `Messages`
therefore define every C function as an operator on a record `k` (one field per
field of `tcb_t` that matters, one per global), and `Kernel` has the fields as
variables and one action per handler: the handler's operator is applied to the
current state and the result becomes the next one. A handler that ends in
`thread_switch_context(schedule())` does so in the model, as part of its step.

What is abstracted: a thread id stands for the pointer to its TCB; a message is
its flags, its length (0 or more) and whether the copy between the two address
spaces succeeds (`Messages!copy`, any outcome of `access_mem()` in the set
`Outcomes`); of the registers only those that decide what the kernel does or
that report the result of a wait are kept. Events are sets of bits.

Some of what the code does is unusual, and the model follows it:

* `get_tid(NULL)` is a pointer difference without meaning, the constant
  `WildTid`. Whether `tcb_table[WildTid]` can be read is `WildReadable`.
* A thread that destroys itself, or changes its own status, goes on running
  while `running_thread` is `NULL`. What a handler does to a `NULL` current
  thread is `Halt(k, "wild")`.
* `get_tcb()` has no bound: a call with a thread id past the table finds what
  looks like an inactive thread, and is refused, or anything else
  (`SysWildTid`).
* `PANIC`, failed assertions and faults are values of `halt`; nothing happens
  after them. This is why the runs do not check for deadlock.

### Address spaces

`Regions` has the arithmetic of `MemoryRegion` and `RegionSet`: regions with an
exclusive end, where the end 0 is the end of memory; sets of regions are
sequences, in the order of the code. `AddrSpace` is one address space with the
requests MAP (at a given address and at any address) and UNMAP; a request is
received in one step and served in the next. It is built with overflow checks, so
that an address beyond `usize` ends the server: the reply `"panic"`.
`Translations` is the promise: a function from addresses to places on devices,
and for every request what it may do to it. Mapping at an address sets the pages
that the request names, all of them free before, or is refused; mapping anywhere
sets some free range of the length asked for; unmapping clears the pages of the
request that belong to the mapping at its address, exactly.

### Physical memory

`BitArray` has the bit arrays of `types.rs`, words and all: `set_bits_to()` sets
bits one by one at the ends of a range and word by word between. `PhysAlloc` has
the arrays of every block size, the bootstrap allocator that serves until
`init()` has read the memory map, `init()` itself, `alloc()` and `release()`.
`init()` is several steps: it installs the allocator and marks the holes of the
memory map afterwards, one by one, with sets of regions that live on the heap, so
that the heap may take blocks in between (owners `"sbrk"` and `"heap"`). A block has `BITS` sub-blocks (32 in the code), and there are as many sizes as in
the code, so that the arithmetic of levels is the same with smaller numbers. A
caller releases what it owns, as a whole or, as `sbrk.rs` does with a block it
cannot map, the first page only, small or large. `FreePages` is the promise: a set of free pages from which blocks are
taken and to which they return.

### Mapping buffers

A thread of the init server that works on physical memory takes a buffer, a run
of pages in a fixed area: it locks a mutex that spins, looks for a run of free
pages, marks them, asks the kernel to map the frames there, and unlocks. Each of
these is a step of `MapBuffers`; the kernel may refuse at any frame, and the
search may find nothing. A thread whose buffer the kernel does not unmap panics
with the lock held. What is in the pages is not part of the model, since the
kernel does not act on the request (see *Not modelled*).

### Boot

`BootLoader` has the boot from the first frame to the start of the init server:
one action for each frame that is allocated, and one for each page of the
executable that is mapped. Its input is what the boot loader leaves: memory map,
place of the modules, sections of the init server's image, which is one of them.
Page tables are in `mem`, one function
of entries per frame, with garbage in them until they are cleared.
`Translate` is what the MMU makes of them, and `access_mem()` what the kernel
makes of them. Everything is counted in pages: regions of memory, modules and the
sections that `servers/init_server/link.ld` places are page aligned; a section it
does not place may share the last page of the one before. Three branches of the
code are in the model although no boot takes them: a page directory that has a
page table for conventional memory already (`loader.c:310`), a large page where a
section should go (`loader.c:143`), and zeroes for a page that is already mapped
(`loader.c:177`).

### Circular queue

A call of `cqueue_put()` or `cqueue_get()` moves several elements and stops when
the queue is full or empty, leaving what it did so far. `CQueue` has a step for
each element; `Fifo` is a sequence with the same calls and results.

## Runs

| run | bounds | checks |
|---|---|---|
| `tcb_list` | 4 threads, 2 lists | the links are well formed in both directions, and implement the sequences |
| `kernel_all` | 2 threads, 1 IRQ, all calls, copies that fail | every list holds exactly threads that belong there; RUNNING is the current thread; IRQ handlers are live; the recipient's assertion |
| `kernel_ipc` | 3 threads that create, start, send, receive and sleep | no thread gets lost; a send succeeds only by its recipient; nobody overtakes in a queue; every queued thread gets to run |
| `addr_space` | 8 addresses, pages of 2 | mappings are disjoint; `map()` finds every gap; the mappings implement the translations |
| `phys_alloc` | pages of 2 bytes, 3 blocks to a block, 4 sizes, 3 memory maps, 1 block of the heap within `init()`, 2 blocks owned | no byte has two owners; the marks of reserved memory last; clear bits mean free memory; owners can release; free blocks are found; the bits implement the free pages |
| `map_buffers` | 3 threads, 4 pages, buffers of up to 2 | buffers of different threads share no page; every marked page is accounted for |
| `boot_loader` | 24 frames, page tables of 7 entries, 4 memory maps, 4 lists of modules, 24 executables | no frame is used twice; the server has the memory it was linked for, and nothing else; what it is handed was not allocated and cuts no module |
| `cqueue` | 3 places, 2 elements, calls of up to 4 | the queue implements `Fifo` |
| `claim_receiver`, `claim_woken` | 3 threads | one sentence of a comment each, which the code does not keep |
| `claim_marked` | as `phys_alloc`, without the heap | reserved memory behind the available memory is given out |
| `claim_reserved` | as `boot_loader`, memory maps with a hole | frames outside available memory are given out |

The bounds. Two threads are the fewest with a sender and a recipient, and with
all calls they already reach every interleaving of a wait with a destroy, a
pause or a failed copy of one of the two; a queue of two waiting threads, and
overtaking in it, needs three. One IRQ is enough because `handle_irq()` takes
every interrupt for IRQ 0. Lists of four threads have a head, a tail and two
elements between them. In the address space three whole pages can be mapped (a
request that reaches the last address panics), enough to split a mapping in the
middle and to leave a gap between two others; addresses and lengths that are
not page aligned occur. Requests of length 0 are left out: at a free address 0
such a request maps all of memory.

Three blocks to a block let a range start in the middle of one and end in the
middle of another at every size; the memory maps have an entry that starts
within a page, a hole, an end within a block with reserved memory behind it, and
memory above the lower section. The bootstrap allocator gives out 6 bytes at most
(`BootLimit`), enough to reach into an entry and past a page; one block of the
heap (`MaxHeap`) can be taken before any of the marks and, if it cannot be mapped,
released again before the next; of a block that is released in part up to 4 pages
(`MaxForgotten`) are forgotten, enough for one of the large blocks that large pages
map. Three threads are one in the locked section, one that spins and one that
holds a buffer; four pages have room for two buffers of two pages and, after a
refused call, for none. The executables lie across the end of a page table; the
memory maps leave enough memory, just enough, or run out at each kind of
allocation; modules lie right behind the kernel or behind a gap, and the frames
taken end before, between or behind them. A call of four elements on a queue of three places stops half way,
from every position of the indices.

Fairness. The kernel never preempts a thread, so nothing guarantees that
anybody else ever runs. `LiveSpec` assumes what a cooperative system assumes:
whoever runs gives up the processor again and again (`sys_sleep(0)`), which is
weak fairness of that one call. No other run assumes fairness: whether a call for
a mapping buffer returns, in particular, depends on the holder of the lock, who
may panic with it.

`NoLostThread`, `SendCompletedByRecipient` and `NoOvertaking` are checked without
failing copies and without destroying threads; with them the code does lose
threads, see below. `FindsFreeBlocks` is checked until the first release, see
below too.

## Where code and comments disagree

The four runs `claim_*` end in a counterexample; `PROJECT.json` quotes the
lines. `receive_message()` makes the sender wait instead of the caller; a sender
woken by the death of its recipient is READY and on no run queue; the kernel
takes every entry of the memory map to begin at 0, so that a hole counts as part
of the memory behind it; `init()` of the physical allocator marks nothing behind
the end of available memory, and the last block of 128 KB, which reaches there, is
given out with the reserved memory in it. `MarksLast` is what the code does keep:
memory below that end, given out once `init()` has returned.

Also seen while modelling, and not given a run:

* `sys_sleep()` saves neither `eip` nor `esp` of the thread it switches away
  from, as send and receive do (`syscall.c:144`);
* the heap, growing within `init()`, may be given memory of a hole that is marked
  only afterwards (`phys_alloc.rs:326`);
* a module that lies behind the frames that the boot takes is above
  `first_free_page`, and the bootstrap allocator of the init server, which knows no
  modules, gives its frames away (`loader.c:344`, `phys_alloc.rs:191`);
* `load_servers()` goes on with the address after `NULL` when a module has no
  `--init` in its command line (`loader.c:43`);
* a sender that waits for any recipient is never served: `wait_tid` is
  `get_tid(NULL)`, which is not `ANY_RECIPIENT` (`message.c:26`);
* `thread_create()` never looks at entries below the last one it gave away
  (`thread.c:182`);
* `mark_free()` leaves the bits of the enclosing blocks set
  (`phys_alloc.rs:522`), although `filled_status` is said to be set only for
  blocks without free sub-blocks (`phys_alloc.rs:123`): a released block is
  hidden behind them from `_find_block()`;
* `init()` of the allocator panics on reserved memory above 4 GB, and `alloc()`
  of 4 MB or more does when there is no upper memory;
* a call that the kernel refuses leaves its pages of the buffer area marked for
  ever (`lowlevel.rs:307`, `lost` in `MapBuffers`), and `map_frames()` adds the
  number of frames once per frame to the address;
* when physical memory is used up, the last frame below 4 GB is given out,
  whatever the memory map says: the address after it is 0, and lies in the first
  entry (`memory.c:71`); `first_free_page` is 0 then, and `HandedOverFree` says
  nothing of that state (`Wrapped`);
* sections that are neither PROGBITS nor NOBITS are not loaded, though they ask
  for memory (`loader.c:171`);
* `CQUEUE_NUM_FILL` is 0 for a full queue, and `CQUEUE_NUM_FREE` has unbalanced
  parentheses (`cqueue.h:6`);
* `update_tcb` can set the state of a thread so that `thread_switch_context()`
  (`thread.c:285`) and `send_message()` (`message.c:175`) fail their assertions;
* a message without a payload is announced as possible (`message.c:88`) and
  refused by `access_mem()` (`paging.c:349`);
* a thread that waits for a destroyed one is not always told (`thread.c:256`);
* `handle_irq()` tests the bit of the IRQ itself (`interrupt.c:182`) and
  `irq_register()` sets another one, so that no event is ever delivered;
* a copy that fails after the partner was dequeued leaves the partner waiting in
  no queue (`message.c:328`);
* `map()` of the last page of memory, or of the gap that ends there, panics.

## Proofs

The theorems hold for every value of the constants, under named assumptions:
`ThreadAssumption` (at least one thread and one IRQ, `WildTid` outside the
table) and `WorkloadAssumption` (the arguments have their types) for the kernel,
`BootAssumption` (sizes and inputs have their types, and the kernel lies where it
does), `BufferAssumption` and `SizeAssumption` (there is at least one page, one
place).

* `TcbListProofs!LinkedAlways`: the links of `list.c` stay well formed, for any
  set of threads and lists.
* `KernelProofs!ListsAlwaysMatch`: `TypeOK` and `QueuesMatchStates`.
* `KernelProofs!RunningAlwaysCurrent`, `HandlersAlwaysLive`,
  `RecipientAssertNeverFails`: the other three invariants of `kernel_all`.

* `MapBufferProofs!BuffersAlwaysApart`, `PagesAlwaysAccountedFor`: two invariants
  of `map_buffers`.
* `BootProofs!FramesAlwaysApart`, `AlwaysHandedOverFree`: two invariants of
  `boot_loader`.
* `CQueueProofs!QueueIsFifo`: `CQueue` implements `Fifo`.

The four kernel theorems come from one inductive invariant, `KInv` of
`ThreadProofs`, on the record `k`: the types; every element of a list has that
list as its home (`HomeOf`, from state, priority and partner) and occurs once;
RUNNING is the same as current; IRQ handlers are live and have the event in
their mask; `halt` is not the recipient's assertion. The invariants are not
inductive one by one: that the recipient's assertion holds needs the lists to
match the states, which needs RUNNING to be current (a running thread is in no
list), and a registered handler is live only because release clears it.

Inside a handler the invariant is broken for a moment, for the one thread that
has left its list and not yet changed its state. `Loose(k, t)` is `KInv` for all
threads but `t`, together with `t` being in no list. Each C function has a
lemma: from `KInv`, or `Loose`, to `KInv`, or `Loose` (`PauseInv`, `ReleaseInv`,
`ScheduleInv`, `SendInv`, `ReceiveInv`, ...). `Settle` turns a loose state back
into an invariant one when the thread is inserted where its new state belongs.
`NextInv` has one step per action, each from the lemma of its handler.
`ListLemmas` has what inserting, removing and clearing do to the elements of a
family of sequences.

For the mapping buffers the invariant has to say what holds between two steps of
the locked section: one thread at most is in it (`Exclusive`), the pages it has
found are still free when it marks them (`StillFree`), and a page is marked
exactly if it is lost or in one buffer (`Taken`, `LostApart`).

For the boot it is that frames are taken in ascending order (`Ascending`), below
`first_free_page`, until the address wraps around and nothing can be taken any
more, and that the search, once it has given a frame, has passed a module as a
whole or not come to it (`PastModules`). A new frame then differs from the ones
before, and the page handed over is behind them all and within no module.

For the queue it is that `state` tells apart what equal indices do not, and that
a call has as many elements to go as its buffer. `PutAppends`, `GetTakesFirst`
and `PokeReplaces` say what a step does to the elements read from `head` on, and
`QueueIsFifo` maps every step of `CQueue` to one of `Fifo`.

Only model-checked: liveness (`ReadyRuns`) and the refinements `ImplementsLists`,
`ImplementsTranslations` and `ImplementsFreePages`; `NoOvertaking`,
`SendCompletedByRecipient` and `NoLostThread`; what the booted server sees of
memory (`LoadedAsLinked`, `OnlyPlannedPages`); everything about address spaces and
the allocator. `set_union()`, `set_complement()` and the marking of
blocks go through sequences and ranges by folding or recursion, and what that
computes for every input is an induction the provers cannot do.

## Not modelled

* *System calls that read and update page mappings* (`syscall.c:198`, `:292`).
  Both walk the levels `level < args->level`, with `level` below `N_PM_LEVELS`,
  which is 2: a request of level 0 (all that the init server makes) does nothing
  and reports success, one of level 1 looks at the page directory only, and no
  request ever sets the present bit. Frames in a request are numbers in one place
  and addresses in another. There is no promise here that the code keeps and a
  property could state.
* *Pager* (`pager.rs`). It ends in such a request of level 0, so that no fault is
  resolved. The branches of `handle_message()` (`main.rs`) for senders other than
  the kernel use names that are not defined, and with them the name, device and
  address space tables have no caller; each of their operations is one operation
  of a map.
* *Heap of the init server* (`sbrk.rs`): what it asks of the physical allocator is
  in `PhysAlloc`; the rest are requests of level 0.
* *Loader of the init server* (`elf.rs`): reading headers, and calls of `map()`
  whose results are ignored.
* *The other containers of `libos`* have no callers in what is built, and do not
  work: the write position of `circbuffer.c` is not wrapped (`circbuffer.c:60`),
  `dyn_array_remove()` removes the element before the one named
  (`dynarray.c:309`), lookups in `hashtable.c` do not reduce the hash
  (`hashtable.c:217`), and `listRemoveAll()` reads nodes it has freed
  (`list.c:196`).
* *Message formats, disk layouts, marshalling, debug output, the C library*: data
  and output without behaviour of their own; *drivers, applications and the older
  servers* are not built.
