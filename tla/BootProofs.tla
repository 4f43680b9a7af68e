------------------------------ MODULE BootProofs ------------------------------
(***************************************************************************)
(* For any memory map, modules and executable: the frames that the boot    *)
(* takes are taken once, outside the kernel and the modules, and the first *)
(* free page that the init server gets is behind them and not within a     *)
(* module.  The invariant that makes it inductive is that frames are given *)
(* in ascending order, past whole modules, until the address wraps around  *)
(* and no frame is given at all.                                           *)
(***************************************************************************)
EXTENDS BootLoader, TLAPS

Ascending ==
    /\ taken \in Seq(Frames) /\ first_free_page \in Frames
    /\ Wrapped \/ first_free_page >= EXTENDED_MEMORY + ksize
    /\ ~Wrapped => \A j \in 1..Len(taken) : taken[j] < first_free_page

\* Once a frame is taken, the search has passed a module or not come to it.
PastModules ==
    ~Wrapped /\ taken # <<>> => \A m \in ToSet(modules) :
        m.start < first_free_page => m.start + m.len <= first_free_page

IInv ==
    /\ modules \in ModuleLists
    /\ Ascending
    /\ PastModules
    /\ FramesApart
    /\ pc \in {"pdir", "failed"} \/ taken # <<>>
    /\ pc = "started" => handed = first_free_page

-----------------------------------------------------------------------------
LEMMA InitIInv == Init => IInv
  BY BootAssumption DEF Init, IInv, Ascending, PastModules, FramesApart, Wrapped, Frames

\* A frame that alloc_phys_frame() may give is new, and outside of the modules.
LEMMA CandidateFresh ==
    ASSUME IInv, NEW f \in Candidates
    PROVE  /\ f \in Frames /\ f >= first_free_page /\ ~Wrapped
           /\ f >= EXTENDED_MEMORY + ksize
           /\ \A m \in ToSet(modules) : /\ m.start \in Nat /\ m.len \in Nat
                                        /\ f < m.start \/ m.start + m.len <= f
  <1>1. f \in Frames /\ f >= first_free_page /\ first_free_page >= EXTENDED_MEMORY
    BY DEF Candidates
  <1>2. \A m \in ToSet(modules) : ~OVERLAPS(f, (f + 1) % FRAMES, m.start, m.len)
    BY DEF Candidates, is_reserved_page
  <1>3. \A m \in ToSet(modules) : m.start \in Nat /\ m.len \in Nat
    BY BootAssumption DEF IInv
  <1>4. ~Wrapped
    BY <1>1, BootAssumption DEF IInv, Ascending, Wrapped, Frames
  <1>5. f >= EXTENDED_MEMORY + ksize
    BY <1>1, <1>4, BootAssumption DEF IInv, Ascending, Frames
  <1>6. \A m \in ToSet(modules) : f < m.start \/ m.start + m.len <= f
    BY <1>1, <1>2, <1>3, BootAssumption DEF OVERLAPS, Frames
  <1> QED  BY <1>1, <1>3, <1>4, <1>5, <1>6

LEMMA AllocStep ==
    ASSUME IInv, NEW f \in Frames, alloc_phys_frame(f), modules' = modules
    PROVE  Ascending' /\ PastModules' /\ FramesApart' /\ taken' # <<>>
  <1>1. f \in Candidates /\ first_free_page' = (f + 1) % FRAMES /\ taken' = Append(taken, f)
    BY DEF alloc_phys_frame
  <1>2. /\ f >= first_free_page /\ ~Wrapped /\ f >= EXTENDED_MEMORY + ksize
        /\ \A m \in ToSet(modules) : /\ m.start \in Nat /\ m.len \in Nat
                                     /\ f < m.start \/ m.start + m.len <= f
    BY <1>1, CandidateFresh
  <1>3. /\ f \in Int /\ FRAMES \in Nat /\ 0 <= f /\ f < FRAMES
        /\ EXTENDED_MEMORY + ksize \in Nat
    BY BootAssumption DEF Frames
  <1>4. first_free_page' = IF f + 1 = FRAMES THEN 0 ELSE f + 1
    BY <1>1, <1>3
  <1>5. taken \in Seq(Frames) /\ \A j \in 1..Len(taken) : taken[j] \in Frames /\ taken[j] < f
    BY <1>2, <1>3 DEF IInv, Ascending, Frames
  <1>6. /\ taken' \in Seq(Frames) /\ Len(taken') = Len(taken) + 1 /\ Len(taken) \in Nat
        /\ taken'[Len(taken) + 1] = f
        /\ \A j \in 1..Len(taken) : taken'[j] = taken[j]
    BY <1>1, <1>5
  <1>7. \A j \in 1..Len(taken') : j \in 1..Len(taken) \/ j = Len(taken) + 1
    BY <1>6
  <1>8. \A j \in 1..Len(taken') : taken'[j] <= f /\ taken'[j] \in Frames
    <2> SUFFICES ASSUME NEW j \in 1..Len(taken') PROVE taken'[j] <= f /\ taken'[j] \in Frames
      OBVIOUS
    <2>1. CASE j \in 1..Len(taken)
      <3>1. taken'[j] = taken[j] /\ taken[j] \in Frames /\ taken[j] < f
        BY <2>1, <1>5, <1>6
      <3> QED  BY <3>1, <1>3 DEF Frames
    <2>2. CASE j = Len(taken) + 1
      <3>1. taken'[j] = f
        BY <2>2, <1>6
      <3> QED  BY <3>1, <1>3
    <2> QED  BY <1>7, <2>1, <2>2
  <1>9. Ascending'
    <2>1. first_free_page' \in Frames /\ (first_free_page' # 0 => first_free_page' = f + 1)
      BY <1>3, <1>4 DEF Frames
    <2>2. first_free_page' = 0 \/ first_free_page' >= EXTENDED_MEMORY + ksize
      BY <1>2, <1>3, <2>1
    <2>3. first_free_page' # 0 => \A j \in 1..Len(taken') : taken'[j] < first_free_page'
      BY <1>3, <1>8, <2>1 DEF Frames
    <2> QED  BY <1>6, <2>1, <2>2, <2>3 DEF Ascending, Wrapped, Frames
  <1>10. \A j, k \in 1..Len(taken') : taken'[j] = taken'[k] => j = k
    <2> SUFFICES ASSUME NEW j \in 1..Len(taken'), NEW k \in 1..Len(taken'), taken'[j] = taken'[k]
                 PROVE  j = k
      OBVIOUS
    <2>1. CASE j \in 1..Len(taken) /\ k \in 1..Len(taken)
      <3>1. taken[j] = taken[k]
        BY <2>1, <1>6
      <3> QED  BY <2>1, <3>1 DEF IInv, FramesApart
    <2>2. CASE j = Len(taken) + 1 /\ k \in 1..Len(taken)
      <3>1. taken'[j] = f /\ taken'[k] = taken[k]
        BY <2>2, <1>6
      <3>2. taken[k] \in Frames /\ taken[k] < f
        BY <2>2, <1>5
      <3>3. f = taken[k]
        BY <3>1
      <3> QED  BY <3>2, <3>3, <1>3 DEF Frames
    <2>3. CASE j \in 1..Len(taken) /\ k = Len(taken) + 1
      <3>1. taken'[k] = f /\ taken'[j] = taken[j]
        BY <2>3, <1>6
      <3>2. taken[j] \in Frames /\ taken[j] < f
        BY <2>3, <1>5
      <3>3. f = taken[j]
        BY <3>1
      <3> QED  BY <3>2, <3>3, <1>3 DEF Frames
    <2> QED  BY <1>7, <2>1, <2>2, <2>3
  <1>11. \A j \in 1..Len(taken') : /\ taken'[j] >= EXTENDED_MEMORY + ksize
                                   /\ \A m \in ToSet(modules) :
                                        taken'[j] \notin m.start .. m.start + m.len - 1
    <2> SUFFICES ASSUME NEW j \in 1..Len(taken')
                 PROVE  /\ taken'[j] >= EXTENDED_MEMORY + ksize
                        /\ \A m \in ToSet(modules) : taken'[j] \notin m.start .. m.start + m.len - 1
      OBVIOUS
    <2>1. CASE j \in 1..Len(taken)
      BY <2>1, <1>6 DEF IInv, FramesApart
    <2>2. CASE j = Len(taken) + 1
      BY <2>2, <1>2, <1>3, <1>6
    <2> QED  BY <1>7, <2>1, <2>2
  <1>12. PastModules'
    <2>1. first_free_page' # 0 => first_free_page' = f + 1
      BY <1>4
    <2>2. \A m \in ToSet(modules) : m.start < f + 1 => m.start + m.len <= f + 1
      BY <1>2, <1>3
    <2> QED  BY <2>1, <2>2 DEF PastModules, Wrapped
  <1>13. taken' # <<>>
    BY <1>6
  <1> QED  BY <1>9, <1>10, <1>11, <1>12, <1>13 DEF FramesApart

\* A step takes a frame or leaves the allocator alone, and never changes what the
\* boot loader left; the last one passes first_free_page on.
LEMMA StepKinds ==
    ASSUME Next
    PROVE  /\ modules' = modules
           /\ \/ (\E f \in Frames : alloc_phys_frame(f)) /\ pc' # "started"
              \/ /\ UNCHANGED <<first_free_page, taken>>
                 /\ pc' = "failed" \/ (pc # "pdir" /\ (pc = "failed" => pc' = pc))
                 /\ pc' = "started" => handed' = first_free_page
  <1>1. ASSUME NEW f \in Frames,
               \/ AllocPdir(f) \/ AllocStackTable(f) \/ AllocStackPage(f)
               \/ AllocPageTable(f) \/ MapZeroPage(f)
        PROVE  modules' = modules /\ alloc_phys_frame(f) /\ pc' # "started"
    BY <1>1 DEF AllocPdir, AllocStackTable, AllocStackPage, AllocPageTable,
       MapZeroPage, HasTable, LoadingPage, InSections, Input
  <1>2. ASSUME CreateThread \/ SkipSection \/ MapImagePage \/ SkipPage \/ Start
        PROVE  /\ modules' = modules /\ UNCHANGED <<first_free_page, taken>>
               /\ pc # "pdir" /\ pc # "failed"
               /\ pc' = "started" => handed' = first_free_page
    BY <1>2 DEF CreateThread, SkipSection, MapImagePage, SkipPage, Start, HasTable,
       LoadingPage, InSections, Input
  <1>3. ASSUME MappedBefore
        PROVE  /\ modules' = modules /\ UNCHANGED <<first_free_page, taken>>
               /\ pc = "load" /\ pc' \in {"load", "failed"}
    <2>1. modules' = modules /\ UNCHANGED <<first_free_page, taken>> /\ pc = "load"
      BY <1>3 DEF MappedBefore, HasTable, LoadingPage, InSections, Input
    <2>2. pc' = pc \/ pc' = "failed"
      BY <1>3 DEF MappedBefore
    <2> QED  BY <2>1, <2>2
  <1>4. ASSUME GiveUp
        PROVE  modules' = modules /\ UNCHANGED <<first_free_page, taken>> /\ pc' = "failed"
    BY <1>4 DEF GiveUp, Input
  <1>5. ASSUME MapLowerMemory
        PROVE  /\ modules' = modules /\ pc = "lower_mem" /\ pc' = "thread"
               /\ \/ \E f \in Frames : alloc_phys_frame(f)
                  \/ UNCHANGED <<first_free_page, taken>>
    BY <1>5 DEF MapLowerMemory, Input
  <1> QED  BY <1>1, <1>2, <1>3, <1>4, <1>5 DEF Next

LEMMA NextIInv == IInv /\ [Next]_vars => IInv'
  <1> SUFFICES ASSUME IInv, [Next]_vars PROVE IInv'
    OBVIOUS
  <1>1. CASE UNCHANGED vars
    BY <1>1 DEF vars, IInv, Ascending, PastModules, FramesApart, Wrapped, Frames
  <1>2. CASE Next
    <2>1. modules' \in ModuleLists
      BY <1>2, StepKinds DEF IInv
    <2>2. CASE (\E f \in Frames : alloc_phys_frame(f)) /\ pc' # "started"
      BY <1>2, <2>1, <2>2, StepKinds, AllocStep DEF IInv
    <2>3. CASE /\ UNCHANGED <<first_free_page, taken>>
               /\ pc' = "failed" \/ (pc # "pdir" /\ (pc = "failed" => pc' = pc))
               /\ pc' = "started" => handed' = first_free_page
      <3>1. Ascending' /\ PastModules' /\ FramesApart'
        BY <1>2, <2>3, StepKinds DEF IInv, Ascending, PastModules, FramesApart, Wrapped, Frames
      <3> QED  BY <2>1, <2>3, <3>1 DEF IInv
    <2> QED  BY <1>2, <2>2, <2>3, StepKinds
  <1> QED  BY <1>1, <1>2

LEMMA InvariantHolds == Spec => []IInv
  BY InitIInv, NextIInv, PTL DEF Spec

-----------------------------------------------------------------------------
\* alloc_phys_frame() never gives a frame twice, nor one of the kernel or of a
\* module, whatever the memory map says.
THEOREM FramesAlwaysApart == Spec => []FramesApart
  <1>1. IInv => FramesApart
    BY DEF IInv
  <1> QED  BY <1>1, InvariantHolds, PTL

\* The first_free_page that bootstrap_init_server() passes on is beyond every
\* frame that the kernel has taken, and not within a module, unless the last frame
\* of the address space was taken.
THEOREM AlwaysHandedOverFree == Spec => []HandedOverFree
  <1>1. IInv => HandedOverFree
    <2> SUFFICES ASSUME IInv, pc = "started", ~Wrapped
                 PROVE  /\ \A f \in ToSet(taken) : f < handed
                        /\ \A m \in ToSet(modules) : m.start < handed => m.start + m.len <= handed
      BY DEF HandedOverFree
    <2>1. ASSUME NEW f \in ToSet(taken) PROVE f < handed
      <3>1. PICK j \in 1..Len(taken) : f = taken[j]
        BY DEF ToSet
      <3> QED  BY <3>1 DEF IInv, Ascending
    <2>2. \A m \in ToSet(modules) : m.start < handed => m.start + m.len <= handed
      BY DEF IInv, PastModules
    <2> QED  BY <2>1, <2>2
  <1> QED  BY <1>1, InvariantHolds, PTL

=============================================================================
