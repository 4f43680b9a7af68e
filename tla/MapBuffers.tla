------------------------------ MODULE MapBuffers ------------------------------
(***************************************************************************)
(* The mapping buffers of the init server (PageMapArea in                  *)
(* servers/init_server/src/lowlevel.rs) and the spin lock that guards them *)
(* (mutex.rs).  To reach physical memory a thread takes a run of pages of  *)
(* PAGE_MAP_AREA, has the kernel map frames there, uses them and drops the *)
(* buffer.                                                                 *)
(*                                                                         *)
(* Threads interleave at every step: between the search and the stores of  *)
(* acquire_buffer(), in particular, another thread may do anything that    *)
(* the lock does not keep it from doing.  Of the calls of the kernel the   *)
(* module keeps whether they are refused.  A thread that panics in drop()  *)
(* keeps the lock: lock() spins, and whoever asks for it then hangs.       *)
(*                                                                         *)
(* Buffers with frames of their own (has_frames_mapped) come from new(),   *)
(* which only clone() calls, and nothing clones a buffer: they are left    *)
(* out, and with them the release_phys() of drop().                        *)
(***************************************************************************)
EXTENDS Integers

CONSTANTS
    Threads,
    SLOTS,          \* pages of PAGE_MAP_AREA
    MaxFrames       \* bound: frames of one buffer

ASSUME BufferAssumption == SLOTS \in Nat \ {0} /\ MaxFrames \in Nat

Slots == 0..SLOTS-1

VARIABLES
    locked,     \* of the Mutex around PMAP_STATUS
    status,     \* PMAP_STATUS: the pages taken
    pc,         \* where a thread is
    count,      \* the number of frames it wants to map
    offset,     \* the first page of its buffer
    lost        \* history: pages taken by calls that then failed

vars == <<locked, status, pc, count, offset, lost>>

Buffer(t) == offset[t] .. offset[t] + count[t] - 1

\* Within the guard of the mutex.
InSection(t) == pc[t] \in {"search", "mark", "map", "fail", "done", "unmap", "panic", "release"}

\* The pages of its buffer are marked as taken on behalf of the thread.
Holds(t) == pc[t] \in {"map", "done", "using", "drop", "unmap", "panic", "release"}

Init ==
    /\ locked = FALSE
    /\ status = [s \in Slots |-> FALSE]
    /\ pc = [t \in Threads |-> "idle"]
    /\ count = [t \in Threads |-> 0]
    /\ offset = [t \in Threads |-> 0]
    /\ lost = {}

-----------------------------------------------------------------------------
\* new_from_frames() returns at once if there is nothing to map or too much.
Call(t) ==
    /\ pc[t] = "idle"
    /\ \E n \in 1..MaxFrames :
        /\ n <= SLOTS
        /\ count' = [count EXCEPT ![t] = n]
    /\ pc' = [pc EXCEPT ![t] = "lock"]
    /\ UNCHANGED <<locked, status, offset, lost>>

\* Mutant: the lock is set without looking at what it was.
Lock_Unchecked(t) ==
    /\ pc[t] \in {"lock", "drop"}
    /\ locked' = TRUE
    /\ pc' = [pc EXCEPT ![t] = IF @ = "lock" THEN "search" ELSE "unmap"]
    /\ UNCHANGED <<status, count, offset, lost>>

\* The compare_exchange() that ends the loop of lock().  One that fails changes
\* nothing.
Lock(t) ==
    /\ pc[t] \in {"lock", "drop"} /\ ~locked
    /\ locked' = TRUE
    /\ pc' = [pc EXCEPT ![t] = IF @ = "lock" THEN "search" ELSE "unmap"]
    /\ UNCHANGED <<status, count, offset, lost>>

\* A run of n free pages within the area.
Fits(first, n) == first + n <= SLOTS /\ \A s \in first..first+n-1 : ~status[s]

\* Mutant: the search looks at one page behind the area as well, and finds it free.
Found_OnePast(t) ==
    /\ pc[t] = "search"
    /\ \E x \in 0..SLOTS :
        /\ x + count[t] <= SLOTS + 1
        /\ \A s \in Slots \cap (x .. x + count[t] - 1) : ~status[s]
        /\ \A y \in 0..x-1 : ~Fits(y, count[t])
        /\ offset' = [offset EXCEPT ![t] = x]
    /\ pc' = [pc EXCEPT ![t] = "mark"]
    /\ UNCHANGED <<locked, status, count, lost>>

\* acquire_buffer() finds the first run of free pages that is long enough.
Found(t) ==
    /\ pc[t] = "search"
    /\ \E x \in Slots :
        /\ Fits(x, count[t]) /\ \A y \in 0..x-1 : ~Fits(y, count[t])
        /\ offset' = [offset EXCEPT ![t] = x]
    /\ pc' = [pc EXCEPT ![t] = "mark"]
    /\ UNCHANGED <<locked, status, count, lost>>

\* There is none.
NotFound(t) ==
    /\ pc[t] = "search" /\ \A x \in Slots : ~Fits(x, count[t])
    /\ pc' = [pc EXCEPT ![t] = "fail"]
    /\ UNCHANGED <<locked, status, count, offset, lost>>

\* acquire_buffer() marks the pages it has found.
Mark(t) ==
    /\ pc[t] = "mark"
    /\ status' = [s \in Slots |-> s \in Buffer(t) \/ status[s]]
    /\ pc' = [pc EXCEPT ![t] = "map"]
    /\ UNCHANGED <<locked, count, offset, lost>>

\* map_frames(), when the kernel accepts all the frames.
Map(t) ==
    /\ pc[t] = "map"
    /\ pc' = [pc EXCEPT ![t] = "done"]
    /\ UNCHANGED <<locked, status, count, offset, lost>>

\* The kernel refuses a frame: new_from_frames() unmaps those before it and gives
\* up.  The pages of the buffer stay marked.
MapRefused(t) ==
    /\ pc[t] = "map"
    /\ lost' = lost \cup Buffer(t)
    /\ pc' = [pc EXCEPT ![t] = "fail"]
    /\ UNCHANGED <<locked, status, count, offset>>

\* The locals of a call that returns without a buffer.
Forget(t) ==
    /\ count' = [count EXCEPT ![t] = 0]
    /\ offset' = [offset EXCEPT ![t] = 0]

\* The guard is dropped at the end of new_from_frames().
ReturnBuffer(t) ==
    /\ pc[t] = "done"
    /\ locked' = FALSE
    /\ pc' = [pc EXCEPT ![t] = "using"]
    /\ UNCHANGED <<status, count, offset, lost>>

ReturnNone(t) ==
    /\ pc[t] = "fail"
    /\ locked' = FALSE
    /\ pc' = [pc EXCEPT ![t] = "idle"]
    /\ Forget(t)
    /\ UNCHANGED <<status, lost>>

\* The owner is done with the buffer: drop() asks for the lock.
Drop(t) ==
    /\ pc[t] = "using"
    /\ pc' = [pc EXCEPT ![t] = "drop"]
    /\ UNCHANGED <<locked, status, count, offset, lost>>

\* drop() unmaps the pages one by one and expects the kernel to do it.
Unmap(t) ==
    /\ pc[t] = "unmap"
    /\ \E next \in {"release", "panic"} : pc' = [pc EXCEPT ![t] = next]
    /\ UNCHANGED <<locked, status, count, offset, lost>>

\* Mutant: the first page of the buffer is not released.
Release_OneLess(t) ==
    /\ pc[t] = "release"
    /\ status' = [s \in Slots |-> status[s] /\ s \notin Buffer(t) \ {offset[t]}]
    /\ locked' = FALSE
    /\ pc' = [pc EXCEPT ![t] = "idle"]
    /\ Forget(t)
    /\ UNCHANGED lost

\* release_buffer(), and the end of drop(), where the guard is dropped as well.
Release(t) ==
    /\ pc[t] = "release"
    /\ status' = [s \in Slots |-> status[s] /\ s \notin Buffer(t)]
    /\ locked' = FALSE
    /\ pc' = [pc EXCEPT ![t] = "idle"]
    /\ Forget(t)
    /\ UNCHANGED lost

Next == \E t \in Threads :
    \/ Call(t) \/ Lock(t) \/ Found(t) \/ NotFound(t) \/ Mark(t) \/ Map(t) \/ MapRefused(t)
    \/ ReturnBuffer(t) \/ ReturnNone(t) \/ Drop(t) \/ Unmap(t) \/ Release(t)

Spec == Init /\ [][Next]_vars

-----------------------------------------------------------------------------
TypeOK ==
    /\ locked \in BOOLEAN
    /\ status \in [Slots -> BOOLEAN]
    /\ pc \in [Threads -> {"idle", "lock", "search", "mark", "map", "fail", "done",
                           "using", "drop", "unmap", "panic", "release"}]
    /\ count \in [Threads -> 0..MaxFrames]
    /\ offset \in [Threads -> Slots]
    /\ lost \subseteq Slots

\* No page of the area belongs to the buffers of two threads, whatever the
\* interleaving of acquire_buffer() and release_buffer().
BuffersApart ==
    \A t, u \in Threads : t # u /\ Holds(t) /\ Holds(u) => Buffer(t) \cap Buffer(u) = {}

\* While nobody is in the middle of new_from_frames() or drop(), the pages taken
\* are those of somebody's buffer and those that failing calls have left behind.
PagesAccountedFor ==
    (\A t \in Threads : ~InSection(t)) =>
        {s \in Slots : status[s]} = lost \cup UNION {Buffer(t) : t \in {u \in Threads : Holds(u)}}

=============================================================================
