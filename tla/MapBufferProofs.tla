---------------------------- MODULE MapBufferProofs ----------------------------
(***************************************************************************)
(* For any number of threads and pages: the mapping buffers of two threads *)
(* never share a page, and no page is forgotten.  Neither is inductive:    *)
(* that the marks of one thread do not hit the buffer of another follows   *)
(* from the search of the same thread having seen the pages free, which    *)
(* still holds when it marks them because nobody else is in the section.   *)
(***************************************************************************)
EXTENDS MapBuffers, TLAPS

\* The lock is held while somebody is in the section, and by one thread only.
Exclusive ==
    /\ \A t \in Threads : InSection(t) => locked
    /\ \A t, u \in Threads : InSection(t) /\ InSection(u) => t = u

\* What a thread has found lies in the area.
InArea == \A t \in Threads : Holds(t) \/ pc[t] = "mark" => Buffer(t) \subseteq Slots

\* Between the search and the marks the pages stay free.
StillFree == \A t \in Threads : pc[t] = "mark" => \A s \in Buffer(t) : ~status[s]

\* A page is taken exactly if it is lost or in a buffer, ...
Taken == \A s \in Slots : status[s] <=> s \in lost \/ \E t \in Threads : Holds(t) /\ s \in Buffer(t)

\* ... and never both.
LostApart == \A t \in Threads : Holds(t) => lost \cap Buffer(t) = {}

IInv == TypeOK /\ Exclusive /\ InArea /\ StillFree /\ Taken /\ LostApart /\ BuffersApart

-----------------------------------------------------------------------------
LEMMA InitIInv == Init => IInv
  <1> SUFFICES ASSUME Init PROVE IInv
    OBVIOUS
  <1>1. status \in [Slots -> BOOLEAN] /\ locked \in BOOLEAN
    BY DEF Init
  <1>2. /\ pc \in [Threads -> {"idle"}] /\ lost \subseteq Slots
        /\ count \in [Threads -> 0..MaxFrames] /\ offset \in [Threads -> Slots]
    BY BufferAssumption DEF Init, Slots
  <1>3. TypeOK
    BY <1>1, <1>2 DEF TypeOK
  <1>4. \A t \in Threads : ~InSection(t) /\ ~Holds(t) /\ pc[t] # "mark"
    BY <1>2 DEF InSection, Holds
  <1>5. Taken
    BY <1>4 DEF Taken, Init
  <1> QED  BY <1>3, <1>4, <1>5 DEF IInv, Exclusive, InArea, StillFree, LostApart, BuffersApart

\* A step that marks, loses and releases nothing, and moves no buffer of a thread
\* that holds one, keeps what the invariant says of the pages.
LEMMA QuietStep ==
    ASSUME IInv, UNCHANGED <<status, lost>>,
           \A u \in Threads : Holds(u)' = Holds(u),
           \A u \in Threads : Holds(u) => Buffer(u)' = Buffer(u)
    PROVE  Taken' /\ LostApart' /\ BuffersApart'
  BY DEF IInv, Taken, LostApart, BuffersApart, TypeOK

LEMMA CallStep == ASSUME IInv, NEW t \in Threads, Call(t) PROVE IInv'
  <1>1. PICK n \in 1..MaxFrames : count' = [count EXCEPT ![t] = n]
    BY DEF Call
  <1>2. TypeOK'
    BY <1>1, BufferAssumption DEF IInv, TypeOK, Call
  <1>3. \A u \in Threads : /\ InSection(u)' = InSection(u) /\ Holds(u)' = Holds(u)
                           /\ (pc[u] = "mark")' = (pc[u] = "mark")
    BY DEF IInv, TypeOK, Call, InSection, Holds
  <1>4. \A u \in Threads : Holds(u) \/ pc[u] = "mark" => Buffer(u)' = Buffer(u)
    BY <1>1 DEF IInv, TypeOK, Call, Holds, Buffer
  <1>5. Exclusive' /\ InArea' /\ StillFree'
    BY <1>3, <1>4 DEF IInv, Exclusive, InArea, StillFree, Call, Slots
  <1> QED  BY <1>2, <1>3, <1>4, <1>5, QuietStep DEF IInv, Call

LEMMA LockStep == ASSUME IInv, NEW t \in Threads, Lock(t) PROVE IInv'
  <1>1. TypeOK'
    BY DEF IInv, TypeOK, Lock
  <1>2. \A u \in Threads : /\ InSection(u)' => u = t
                           /\ Holds(u)' = Holds(u) /\ pc'[u] # "mark" /\ Buffer(u)' = Buffer(u)
    BY DEF IInv, TypeOK, Exclusive, Lock, InSection, Holds, Buffer
  <1>3. Exclusive' /\ InArea' /\ StillFree'
    BY <1>2 DEF IInv, Exclusive, InArea, StillFree, Lock, Slots
  <1> QED  BY <1>1, <1>2, <1>3, QuietStep DEF IInv, Lock

LEMMA FoundStep == ASSUME IInv, NEW t \in Threads, Found(t) PROVE IInv'
  <1>1. PICK x \in Slots : Fits(x, count[t]) /\ offset' = [offset EXCEPT ![t] = x]
    BY DEF Found
  <1>2. TypeOK'
    BY <1>1 DEF IInv, TypeOK, Found
  <1>3. \A u \in Threads : /\ InSection(u)' = InSection(u) /\ Holds(u)' = Holds(u)
                           /\ pc'[u] = "mark" => u = t
    BY DEF IInv, TypeOK, Exclusive, Found, InSection, Holds
  <1>4. \A u \in Threads : u # t => Buffer(u)' = Buffer(u)
    BY <1>1 DEF IInv, TypeOK, Found, Buffer
  <1>5. /\ Buffer(t)' = x .. x + count[t] - 1
        /\ count[t] \in Nat /\ x \in Nat /\ x + count[t] <= SLOTS
        /\ \A s \in x .. x + count[t] - 1 : ~status[s]
    BY <1>1, BufferAssumption DEF IInv, TypeOK, Found, Buffer, Fits, Slots
  <1>6. Buffer(t)' \subseteq Slots /\ \A s \in Buffer(t)' : ~status[s]
    BY <1>5, BufferAssumption DEF Slots
  <1>7. ~Holds(t)
    BY DEF Found, Holds
  <1>8. Exclusive' /\ InArea' /\ StillFree'
    BY <1>3, <1>4, <1>6, <1>7 DEF IInv, Exclusive, InArea, StillFree, Found, Slots
  <1> QED  BY <1>2, <1>3, <1>4, <1>7, <1>8, QuietStep DEF IInv, Found

\* Steps that only move a thread on within the section, or out of its buffer's use.
LEMMA MoveStep ==
    ASSUME IInv, NEW t \in Threads, NotFound(t) \/ Map(t) \/ Drop(t) \/ Unmap(t)
    PROVE  IInv'
  <1>1. TypeOK'
    BY DEF IInv, TypeOK, NotFound, Map, Drop, Unmap
  <1>2. \A u \in Threads : /\ InSection(u)' = InSection(u) /\ Holds(u)' = Holds(u)
                           /\ pc'[u] = "mark" => pc[u] = "mark"
                           /\ Buffer(u)' = Buffer(u)
    BY DEF IInv, TypeOK, NotFound, Map, Drop, Unmap, InSection, Holds, Buffer
  <1>3. UNCHANGED <<status, lost, locked>>
    BY DEF NotFound, Map, Drop, Unmap
  <1>4. Exclusive' /\ InArea' /\ StillFree'
    BY <1>2, <1>3 DEF IInv, Exclusive, InArea, StillFree, Slots
  <1> QED  BY <1>1, <1>2, <1>3, <1>4, QuietStep DEF IInv

LEMMA MarkStep == ASSUME IInv, NEW t \in Threads, Mark(t) PROVE IInv'
  <1>1. TypeOK'
    BY DEF IInv, TypeOK, Mark
  <1>2. \A u \in Threads : /\ InSection(u)' = InSection(u) /\ Buffer(u)' = Buffer(u)
                           /\ Holds(u)' <=> Holds(u) \/ u = t
                           /\ pc'[u] # "mark"
    BY DEF IInv, TypeOK, Exclusive, Mark, InSection, Holds, Buffer
  <1>3. Exclusive' /\ InArea' /\ StillFree'
    BY <1>2 DEF IInv, Exclusive, InArea, StillFree, Mark, Slots
  <1>4. Buffer(t) \subseteq Slots /\ \A s \in Buffer(t) : ~status[s]
    BY DEF IInv, InArea, StillFree, Mark
  <1>5. \A s \in Slots : status'[s] <=> s \in Buffer(t) \/ status[s]
    BY DEF Mark
  <1>6. Taken'
    BY <1>2, <1>5 DEF IInv, Taken, Mark, Slots
  <1>7. \A u \in Threads : Holds(u) => Buffer(u) \cap Buffer(t) = {}
    BY <1>4 DEF IInv, Taken, InArea
  <1>8. lost \cap Buffer(t) = {}
    BY <1>4 DEF IInv, Taken
  <1>9. LostApart' /\ BuffersApart'
    BY <1>2, <1>7, <1>8 DEF IInv, LostApart, BuffersApart, Mark
  <1> QED  BY <1>1, <1>3, <1>6, <1>9 DEF IInv

LEMMA MapRefusedStep == ASSUME IInv, NEW t \in Threads, MapRefused(t) PROVE IInv'
  <1>1. /\ Buffer(t) \subseteq Slots
        /\ Holds(t)
    BY DEF IInv, InArea, Holds, MapRefused
  <1>2. TypeOK'
    BY <1>1 DEF IInv, TypeOK, MapRefused
  <1>3. \A u \in Threads : /\ InSection(u)' = InSection(u) /\ Buffer(u)' = Buffer(u)
                           /\ Holds(u)' <=> Holds(u) /\ u # t
                           /\ pc'[u] # "mark"
    BY DEF IInv, TypeOK, Exclusive, MapRefused, InSection, Holds, Buffer
  <1>4. Exclusive' /\ InArea' /\ StillFree'
    BY <1>3 DEF IInv, Exclusive, InArea, StillFree, MapRefused, Slots
  <1>5. Taken'
    BY <1>1, <1>3 DEF IInv, Taken, MapRefused, Slots
  <1>6. LostApart' /\ BuffersApart'
    BY <1>1, <1>3 DEF IInv, LostApart, BuffersApart, MapRefused
  <1> QED  BY <1>2, <1>4, <1>5, <1>6 DEF IInv

LEMMA ReturnStep ==
    ASSUME IInv, NEW t \in Threads, ReturnBuffer(t) \/ ReturnNone(t)
    PROVE  IInv'
  <1>1. TypeOK'
    <2>1. locked' \in BOOLEAN
      BY DEF ReturnBuffer, ReturnNone
    <2>2. pc' \in [Threads -> {"idle", "lock", "search", "mark", "map", "fail", "done",
                               "using", "drop", "unmap", "panic", "release"}]
      BY DEF IInv, TypeOK, ReturnBuffer, ReturnNone
    <2>3. count' \in [Threads -> 0..MaxFrames] /\ offset' \in [Threads -> Slots]
      <3>1. CASE ReturnBuffer(t)
        BY <3>1 DEF IInv, TypeOK, ReturnBuffer, Slots
      <3>2. CASE ReturnNone(t)
        BY <3>2, BufferAssumption DEF IInv, TypeOK, ReturnNone, Forget, Slots
      <3> QED  BY <3>1, <3>2
    <2>4. UNCHANGED <<status, lost>>
      BY DEF ReturnBuffer, ReturnNone
    <2> QED  BY <2>1, <2>2, <2>3, <2>4 DEF IInv, TypeOK, Slots
  <1>2. \A u \in Threads : /\ ~InSection(u)' /\ Holds(u)' = Holds(u) /\ pc'[u] # "mark"
                           /\ Holds(u) => Buffer(u)' = Buffer(u)
    BY DEF IInv, TypeOK, Exclusive, ReturnBuffer, ReturnNone, Forget, InSection, Holds, Buffer
  <1>3. UNCHANGED <<status, lost>>
    BY DEF ReturnBuffer, ReturnNone
  <1>4. Exclusive' /\ InArea' /\ StillFree'
    BY <1>2 DEF IInv, Exclusive, InArea, StillFree, Slots
  <1> QED  BY <1>1, <1>2, <1>3, <1>4, QuietStep DEF IInv

LEMMA ReleaseStep == ASSUME IInv, NEW t \in Threads, Release(t) PROVE IInv'
  <1>1. TypeOK'
    <2>1. locked' \in BOOLEAN /\ status' \in [Slots -> BOOLEAN]
      BY DEF Release
    <2> QED  BY <2>1, BufferAssumption DEF IInv, TypeOK, Release, Forget, Slots
  <1>2. \A u \in Threads : /\ ~InSection(u)' /\ pc'[u] # "mark"
                           /\ Holds(u)' <=> Holds(u) /\ u # t
                           /\ Holds(u)' => Buffer(u)' = Buffer(u)
    BY DEF IInv, TypeOK, Exclusive, Release, Forget, InSection, Holds, Buffer
  <1>3. Exclusive' /\ InArea' /\ StillFree'
    BY <1>2 DEF IInv, Exclusive, InArea, StillFree, Slots
  <1>4. Holds(t)
    BY DEF Release, Holds
  <1>5. \A s \in Slots : status'[s] <=> status[s] /\ s \notin Buffer(t)
    BY DEF IInv, TypeOK, Release
  <1>6. \A u \in Threads : u # t /\ Holds(u) => Buffer(u) \cap Buffer(t) = {}
    BY <1>4 DEF IInv, BuffersApart
  <1>7. Taken'
    BY <1>2, <1>4, <1>5, <1>6 DEF IInv, Taken, LostApart, Release, Slots
  <1>8. LostApart' /\ BuffersApart'
    BY <1>2 DEF IInv, LostApart, BuffersApart, Release
  <1> QED  BY <1>1, <1>3, <1>7, <1>8 DEF IInv

LEMMA NextIInv == IInv /\ [Next]_vars => IInv'
  <1> SUFFICES ASSUME IInv, [Next]_vars PROVE IInv'
    OBVIOUS
  <1>1. CASE UNCHANGED vars
    BY <1>1 DEF vars, IInv, TypeOK, Exclusive, InArea, StillFree, Taken, LostApart,
       BuffersApart, InSection, Holds, Buffer, Slots
  <1>2. ASSUME NEW t \in Threads,
               \/ Call(t) \/ Lock(t) \/ Found(t) \/ NotFound(t) \/ Mark(t) \/ Map(t)
               \/ MapRefused(t) \/ ReturnBuffer(t) \/ ReturnNone(t) \/ Drop(t)
               \/ Unmap(t) \/ Release(t)
        PROVE  IInv'
    BY <1>2, CallStep, LockStep, FoundStep, MoveStep, MarkStep, MapRefusedStep, ReturnStep,
       ReleaseStep
  <1> QED  BY <1>1, <1>2 DEF Next

LEMMA InvariantHolds == Spec => []IInv
  BY InitIInv, NextIInv, PTL DEF Spec

-----------------------------------------------------------------------------
\* new_from_frames() never hands out a page that is in somebody's buffer.
THEOREM BuffersAlwaysApart == Spec => []BuffersApart
  <1>1. IInv => BuffersApart
    BY DEF IInv
  <1> QED  BY <1>1, InvariantHolds, PTL

\* release_buffer() gives back every page that acquire_buffer() took, unless the
\* kernel refused to map it.
THEOREM PagesAlwaysAccountedFor == Spec => []PagesAccountedFor
  <1>1. IInv => PagesAccountedFor
    <2> SUFFICES ASSUME IInv
                 PROVE  {s \in Slots : status[s]}
                          = lost \cup UNION {Buffer(t) : t \in {u \in Threads : Holds(u)}}
      BY DEF PagesAccountedFor
    <2>1. lost \subseteq Slots /\ \A t \in Threads : Holds(t) => Buffer(t) \subseteq Slots
      BY DEF IInv, TypeOK, InArea
    <2> QED  BY <2>1 DEF IInv, Taken
  <1> QED  BY <1>1, InvariantHolds, PTL

=============================================================================
