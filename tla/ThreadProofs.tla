---------------------------- MODULE ThreadProofs ----------------------------
(***************************************************************************)
(* The lists of the kernel match the states of the threads, for any number *)
(* of threads and of IRQs and any workload.                                *)
(*                                                                         *)
(* The invariant is stated on the record k that the functions of the       *)
(* kernel pass on (KInv), so that each function has a lemma of its own; in *)
(* the middle of a handler one thread may be in no list while its state    *)
(* is still the old one (Loose).                                           *)
(***************************************************************************)
EXTENDS Threads, ListLemmas, WellFoundedInduction

\* The records State can be, by TypeOK.
KStates ==
    [thread_state : [Tids -> ThreadStates],
     priority : [Tids -> Priorities],
     wait_tid : [Tids -> Tids \cup {NULL_TID, WildTid}],
     wait_for_kernel_msg : [Tids -> BOOLEAN],
     root_pmap : [Tids -> Pmaps],
     event_mask : [Tids -> SUBSET EventBits],
     pending_events : [Tids -> SUBSET EventBits],
     eax : [Tids -> RegisterResults],
     ebx : [Tids -> Buffers],
     edi : [Tids -> 0..1],
     lists : [ListNames -> Seq(Tids)],
     running_thread : Tids \cup {NULL_TID},
     irq_handlers : [Irqs -> Tids \cup {NULL_TID}],
     last_tid : Tids,
     halt : Halts]

\* Home for a record.
HomeOf(k, t) ==
    LET s == k.thread_state[t] IN
    CASE s = "READY" -> run_queue(k.priority[t])
      [] s = "PAUSED" -> paused_list
      [] s = "ZOMBIE" -> zombie_list
      [] s = "WAIT_FOR_RECV" -> sender_wait_queue(k.wait_tid[t])
      [] s = "WAIT_FOR_SEND" -> receiver_wait_queue(k.wait_tid[t])
      [] OTHER -> <<"none", 0>>

\* QueuesMatchStates
InPlace(k) ==
    /\ Queues(k.lists, ListNames, Tids)
    /\ \A l \in ListNames : \A t \in Members(k.lists, l) : HomeOf(k, t) = l

\* RunningIsCurrent, for the threads in T
Current(k, T) == \A t \in T : k.thread_state[t] = "RUNNING" <=> k.running_thread = t

\* IrqHandlersLive
Handlers(k) ==
    \A irq \in Irqs : k.irq_handlers[irq] # NULL_TID =>
        /\ k.thread_state[k.irq_handlers[irq]] # "INACTIVE"
        /\ irq + 8 \in k.event_mask[k.irq_handlers[irq]]

KInv(k) ==
    /\ k \in KStates
    /\ InPlace(k)
    /\ Current(k, Tids)
    /\ Handlers(k)
    /\ k.halt # "assert_recipient"

\* t is in no list and on no processor, whatever its state says.
Loose(k, t) ==
    /\ k \in KStates
    /\ InPlace(k)
    /\ Current(k, Tids \ {t})
    /\ k.running_thread # t
    /\ \A l \in ListNames : t \notin Members(k.lists, l)
    /\ Handlers(k)
    /\ k.halt # "assert_recipient"

\* What thread_remove_from_list() may not touch.
Unmoved(k, k1) ==
    /\ k1.thread_state = k.thread_state
    /\ k1.priority = k.priority
    /\ k1.wait_for_kernel_msg = k.wait_for_kernel_msg
    /\ k1.root_pmap = k.root_pmap
    /\ k1.event_mask = k.event_mask
    /\ k1.pending_events = k.pending_events
    /\ k1.eax = k.eax /\ k1.ebx = k.ebx /\ k1.edi = k.edi
    /\ k1.irq_handlers = k.irq_handlers
    /\ k1.last_tid = k.last_tid

\* Only state, priority and wait_tid decide where a thread belongs.
LEMMA SameHome ==
    ASSUME NEW k, NEW k1, NEW t,
           k1.thread_state[t] = k.thread_state[t],
           k1.priority[t] = k.priority[t],
           k1.wait_tid[t] = k.wait_tid[t]
    PROVE  HomeOf(k1, t) = HomeOf(k, t)
  BY DEF HomeOf

\* A thread's home is a list of the system or no list.
LEMMA HomeIsList ==
    /\ \A p \in Priorities : run_queue(p) \in ListNames
    /\ paused_list \in ListNames /\ zombie_list \in ListNames
    /\ \A t \in Tids : sender_wait_queue(t) \in ListNames
    /\ \A t \in Tids : receiver_wait_queue(t) \in ListNames
    /\ <<"none", 0>> \notin ListNames
  BY DEF ListNames, run_queue, paused_list, zombie_list, sender_wait_queue,
         receiver_wait_queue

\* A thread that leaves its list, or the processor, is loose.
LEMMA Unlist ==
    ASSUME NEW k, KInv(k), NEW t \in Tids, NEW k1 \in KStates, Unmoved(k, k1),
           \A u \in Tids \ {t} : k1.wait_tid[u] = k.wait_tid[u],
           Queues(k1.lists, ListNames, Tids),
           \A l \in ListNames : Members(k1.lists, l) \subseteq Members(k.lists, l) \ {t},
           k1.running_thread = IF k.running_thread = t THEN NULL_TID ELSE k.running_thread,
           k1.halt # "assert_recipient"
    PROVE  Loose(k1, t)
  <1>1. InPlace(k1)
    <2>1. ASSUME NEW l \in ListNames, NEW u \in Members(k1.lists, l)
          PROVE  HomeOf(k1, u) = l
      <3>1. u \in Members(k.lists, l) /\ u # t
        OBVIOUS
      <3>2. u \in Tids /\ HomeOf(k, u) = l
        BY <3>1, ElementIndex DEF KInv, InPlace, Queues, Members
      <3>3. QED
        BY <3>1, <3>2, SameHome DEF Unmoved
    <2>2. QED
      BY <2>1 DEF InPlace
  <1>2. Current(k1, Tids \ {t}) /\ k1.running_thread # t
    <2>1. t # NULL_TID /\ NULL_TID \notin Tids
      BY DEF Tids, NULL_TID
    <2>2. QED
      BY <2>1 DEF KInv, Current, Unmoved
  <1>3. Handlers(k1)
    BY DEF KInv, Handlers, Unmoved
  <1>4. QED
    BY <1>1, <1>2, <1>3 DEF Loose

\* Taking a thread out of the list its state names leaves it in no list.
LEMMA ListRemoveLoose ==
    ASSUME NEW k, KInv(k), NEW t \in Tids, NEW l \in ListNames, HomeOf(k, t) = l
    PROVE  /\ list_remove(k.lists, l, t) \in [ListNames -> Seq(Tids)]
           /\ Queues(list_remove(k.lists, l, t), ListNames, Tids)
           /\ \A m \in ListNames : Members(list_remove(k.lists, l, t), m)
                                       \subseteq Members(k.lists, m) \ {t}
  <1> DEFINE p == list_remove(k.lists, l, t)
  <1>1. Queues(k.lists, ListNames, Tids)
    BY DEF KInv, InPlace
  <1>2. /\ Queues(p, ListNames, Tids)
        /\ Members(p, l) = Members(k.lists, l) \ {t}
        /\ \A m \in ListNames : m # l => Members(p, m) = Members(k.lists, m)
    BY <1>1, RemoveQueues
  <1>3. \A m \in ListNames : m # l => t \notin Members(k.lists, m)
    BY DEF KInv, InPlace
  <1> HIDE DEF p
  <1>4. p \in [ListNames -> Seq(Tids)]
    BY <1>2 DEF Queues
  <1>5. \A m \in ListNames : Members(p, m) \subseteq Members(k.lists, m) \ {t}
    BY <1>2, <1>3
  <1>6. QED
    BY <1>2, <1>4, <1>5 DEF p

\* A thread whose state names no list is in none.
LEMMA HomelessLoose ==
    ASSUME NEW k, KInv(k), NEW t \in Tids, HomeOf(k, t) \notin ListNames
    PROVE  /\ Queues(k.lists, ListNames, Tids)
           /\ \A m \in ListNames : Members(k.lists, m) \subseteq Members(k.lists, m) \ {t}
  BY DEF KInv, InPlace

\* detach_sender_wait_queue() and detach_receiver_wait_queue() unlink a
\* waiting thread.
LEMMA DetachLoose ==
    ASSUME NEW k, KInv(k), NEW t \in Tids
    PROVE  /\ k.thread_state[t] = "WAIT_FOR_RECV" =>
                Loose(detach_sender_wait_queue(k, t), t)
                  /\ Unmoved(k, detach_sender_wait_queue(k, t))
           /\ k.thread_state[t] = "WAIT_FOR_SEND" =>
                Loose(detach_receiver_wait_queue(k, t), t)
                  /\ Unmoved(k, detach_receiver_wait_queue(k, t))
  <1> DEFINE w == k.wait_tid[t]
             k1 == [k EXCEPT !.wait_tid[t] = NULL_TID]
  <1>1. k \in KStates /\ k.halt # "assert_recipient"
    BY DEF KInv
  <1>2. /\ w \in Tids \cup {NULL_TID, WildTid}
        /\ NULL_TID \notin Tids /\ WildTid \notin Tids
    BY <1>1, ThreadAssumption DEF KStates, Tids, NULL_TID
  <1>3. /\ sender_wait_queue(NULL_TID) \notin ListNames
        /\ sender_wait_queue(WildTid) \notin ListNames
        /\ receiver_wait_queue(NULL_TID) \notin ListNames
        /\ receiver_wait_queue(WildTid) \notin ListNames
    BY <1>2 DEF ListNames, run_queue, paused_list, zombie_list, sender_wait_queue,
                receiver_wait_queue
  <1>4. /\ k1 \in KStates /\ Unmoved(k, k1) /\ k1.lists = k.lists
        /\ \A u \in Tids \ {t} : k1.wait_tid[u] = k.wait_tid[u]
        /\ k1.running_thread = k.running_thread
        /\ k1.halt = k.halt
    BY <1>1, Zenon DEF KStates, Unmoved
  <1>5. t # k.running_thread \/ k.thread_state[t] = "RUNNING"
    BY DEF KInv, Current
  <1> HIDE DEF k1
  <1>6. ASSUME HomeOf(k, t) \notin ListNames, k.thread_state[t] # "RUNNING"
        PROVE  /\ Loose(k1, t) /\ Unmoved(k, k1)
               /\ Loose(WildListRemove(k1), t) /\ Unmoved(k, WildListRemove(k1))
    <2>1. Loose(k1, t)
      BY <1>1, <1>4, <1>5, <1>6, HomelessLoose, Unlist
    <2>2. WildListRemove(k1) = k1 \/ WildListRemove(k1) = [k1 EXCEPT !.halt = "wild"]
      BY DEF WildListRemove, Halt
    <2>3. ASSUME NEW k2, k2 = [k1 EXCEPT !.halt = "wild"] PROVE Loose(k2, t) /\ Unmoved(k, k2)
      <3>1. /\ k2 \in KStates /\ Unmoved(k, k2) /\ k2.lists = k.lists
            /\ k2.wait_tid = k1.wait_tid
            /\ k2.running_thread = k.running_thread
            /\ k2.halt = "wild"
        <4>1. "wild" \in Halts
          BY DEF Halts
        <4>2. QED
          BY <1>4, <2>3, <4>1, Zenon DEF KStates, Unmoved
      <3>2. /\ \A u \in Tids \ {t} : k2.wait_tid[u] = k.wait_tid[u]
            /\ k2.running_thread = IF k.running_thread = t THEN NULL_TID ELSE k.running_thread
            /\ k2.halt # "assert_recipient"
        BY <1>4, <1>5, <1>6, <3>1
      <3>3. /\ Queues(k2.lists, ListNames, Tids)
            /\ \A l \in ListNames : Members(k2.lists, l) \subseteq Members(k.lists, l) \ {t}
        BY <1>6, <3>1, HomelessLoose
      <3>4. QED
        BY <3>1, <3>2, <3>3, Unlist
    <2>4. QED
      BY <1>4, <2>1, <2>2, <2>3
  <1>7. ASSUME NEW l \in ListNames, HomeOf(k, t) = l, k.thread_state[t] # "RUNNING",
               NEW k2, k2 = [k1 EXCEPT !.lists = list_remove(k1.lists, l, t)]
        PROVE  Loose(k2, t) /\ Unmoved(k, k2)
    <2> DEFINE p == list_remove(k.lists, l, t)
    <2>1. /\ p \in [ListNames -> Seq(Tids)]
          /\ Queues(p, ListNames, Tids)
          /\ \A m \in ListNames : Members(p, m) \subseteq Members(k.lists, m) \ {t}
      BY <1>7, ListRemoveLoose, Zenon
    <2> HIDE DEF p
    <2>2. k2 = [k1 EXCEPT !.lists = p]
      BY <1>4, <1>7 DEF p
    <2>3. /\ k2 \in KStates /\ Unmoved(k, k2) /\ k2.lists = p
          /\ k2.wait_tid = k1.wait_tid
          /\ k2.running_thread = k.running_thread
          /\ k2.halt = k.halt
      BY <1>4, <2>1, <2>2, Zenon DEF KStates, Unmoved
    <2>4. /\ \A u \in Tids \ {t} : k2.wait_tid[u] = k.wait_tid[u]
          /\ k2.running_thread = IF k.running_thread = t THEN NULL_TID ELSE k.running_thread
          /\ k2.halt # "assert_recipient"
      BY <1>1, <1>4, <1>5, <1>7, <2>3
    <2>5. QED
      BY <2>1, <2>3, <2>4, Unlist
  <1>8. ASSUME k.thread_state[t] = "WAIT_FOR_RECV"
        PROVE  LET d == detach_sender_wait_queue(k, t) IN Loose(d, t) /\ Unmoved(k, d)
    <2>1. HomeOf(k, t) = sender_wait_queue(w)
      BY <1>8 DEF HomeOf
    <2>2. CASE w \in Tids
      BY <1>2, <1>7, <1>8, <2>1, <2>2, HomeIsList, Zenon DEF detach_sender_wait_queue, k1
    <2>3. CASE w = NULL_TID
      BY <1>2, <1>3, <1>6, <1>8, <2>1, <2>3 DEF detach_sender_wait_queue, k1
    <2>4. CASE w = WildTid
      BY <1>2, <1>3, <1>6, <1>8, <2>1, <2>3, <2>4 DEF detach_sender_wait_queue, k1
    <2>5. QED
      BY <1>2, <2>2, <2>3, <2>4
  <1>9. ASSUME k.thread_state[t] = "WAIT_FOR_SEND"
        PROVE  LET d == detach_receiver_wait_queue(k, t) IN Loose(d, t) /\ Unmoved(k, d)
    <2>1. HomeOf(k, t) = receiver_wait_queue(w)
      BY <1>9 DEF HomeOf
    <2>2. CASE w \in Tids
      BY <1>2, <1>7, <1>9, <2>1, <2>2, HomeIsList, Zenon DEF detach_receiver_wait_queue, k1
    <2>3. CASE w = NULL_TID
      BY <1>2, <1>3, <1>6, <1>9, <2>1, <2>3 DEF detach_receiver_wait_queue, k1
    <2>4. CASE w = WildTid
      BY <1>2, <1>3, <1>6, <1>9, <2>1, <2>3, <2>4 DEF detach_receiver_wait_queue, k1
    <2>5. QED
      BY <1>2, <2>2, <2>3, <2>4
  <1>10. QED
    BY <1>8, <1>9

\* thread_remove_from_list() leaves the thread in no list and on no processor.
LEMMA RemoveLoose ==
    ASSUME NEW k, KInv(k), NEW t \in Tids
    PROVE  /\ Loose(thread_remove_from_list(k, t), t)
           /\ Unmoved(k, thread_remove_from_list(k, t))
  <1> DEFINE s == k.thread_state[t]
             k1 == thread_remove_from_list(k, t)
  <1>1. k \in KStates /\ k.halt # "assert_recipient" /\ s \in ThreadStates
    BY DEF KInv, KStates
  <1>2. s # "RUNNING" => k.running_thread # t
    BY DEF KInv, Current
  <1>3. ASSUME NEW l \in ListNames, HomeOf(k, t) = l, s # "RUNNING",
               NEW k2, k2 = [k EXCEPT !.lists = list_remove(k.lists, l, t)]
        PROVE  Loose(k2, t) /\ Unmoved(k, k2)
    <2> DEFINE p == list_remove(k.lists, l, t)
    <2>1. /\ p \in [ListNames -> Seq(Tids)]
          /\ Queues(p, ListNames, Tids)
          /\ \A m \in ListNames : Members(p, m) \subseteq Members(k.lists, m) \ {t}
      BY <1>3, ListRemoveLoose, Zenon
    <2> HIDE DEF p
    <2>2. k2 = [k EXCEPT !.lists = p]
      BY <1>3 DEF p
    <2>3. /\ k2 \in KStates /\ Unmoved(k, k2) /\ k2.lists = p
          /\ k2.wait_tid = k.wait_tid
          /\ k2.running_thread = k.running_thread
          /\ k2.halt = k.halt
      BY <1>1, <2>1, <2>2, Zenon DEF KStates, Unmoved
    <2>4. /\ \A u \in Tids \ {t} : k2.wait_tid[u] = k.wait_tid[u]
          /\ k2.running_thread = IF k.running_thread = t THEN NULL_TID ELSE k.running_thread
          /\ k2.halt # "assert_recipient"
      BY <1>1, <1>2, <1>3, <2>3
    <2>5. QED
      BY <2>1, <2>3, <2>4, Unlist
  <1>4. CASE s = "WAIT_FOR_RECV" \/ s = "WAIT_FOR_SEND"
    BY <1>4, DetachLoose DEF thread_remove_from_list
  <1>5. CASE s = "READY"
    <2>1. HomeOf(k, t) = run_queue(k.priority[t]) /\ run_queue(k.priority[t]) \in ListNames
      BY <1>1, <1>5, HomeIsList DEF HomeOf, KStates
    <2>2. k1 = [k EXCEPT !.lists = list_remove(k.lists, run_queue(k.priority[t]), t)]
      BY <1>5 DEF thread_remove_from_list
    <2> HIDE DEF k1
    <2>3. QED
      BY <1>3, <1>5, <2>1, <2>2 DEF k1
  <1>6. CASE s = "PAUSED" \/ s = "ZOMBIE"
    <2> DEFINE l == IF s = "PAUSED" THEN paused_list ELSE zombie_list
    <2>1. HomeOf(k, t) = l /\ l \in ListNames
      BY <1>6, HomeIsList DEF HomeOf
    <2>2. k1 = [k EXCEPT !.lists = list_remove(k.lists, l, t)]
      BY <1>6 DEF thread_remove_from_list
    <2> HIDE DEF k1, l
    <2>3. QED
      BY <1>3, <1>6, <2>1, <2>2 DEF k1
  <1>7. CASE s \in {"RUNNING", "INACTIVE", "SLEEPING"}
    <2>1. HomeOf(k, t) = <<"none", 0>>
      BY <1>7 DEF HomeOf
    <2>2. HomeOf(k, t) \notin ListNames
      BY <2>1, HomeIsList
    <2>3. /\ k1 \in KStates /\ Unmoved(k, k1) /\ k1.lists = k.lists
          /\ k1.wait_tid = k.wait_tid
          /\ k1.halt = k.halt
          /\ k1.running_thread = IF k.running_thread = t THEN NULL_TID ELSE k.running_thread
      <3>1. CASE s = "RUNNING"
        BY <1>1, <3>1, Zenon DEF thread_remove_from_list, KStates, Unmoved
      <3>2. CASE s # "RUNNING"
        BY <1>1, <1>2, <1>7, <3>2 DEF thread_remove_from_list, KStates, Unmoved
      <3>3. QED
        BY <3>1, <3>2
    <2> HIDE DEF k1
    <2>4. Loose(k1, t)
      BY <1>1, <2>2, <2>3, HomelessLoose, Unlist
    <2>5. QED
      BY <2>3, <2>4 DEF k1
  <1>8. QED
    BY <1>1, <1>4, <1>5, <1>6, <1>7 DEF ThreadStates

\* Giving a loose thread a new state, and entering it in the list the new
\* state names or in none, restores the invariant.
LEMMA SettleAny ==
    ASSUME NEW t \in Tids, NEW k, Loose(k, t), NEW k1 \in KStates,
           \A u \in Tids \ {t} : /\ k1.thread_state[u] = k.thread_state[u]
                                 /\ k1.priority[u] = k.priority[u]
                                 /\ k1.wait_tid[u] = k.wait_tid[u],
           k1.thread_state[t] \notin {"RUNNING", "INACTIVE"},
           k1.running_thread = k.running_thread,
           Handlers(k1),
           k1.halt # "assert_recipient",
           \/ k1.lists = k.lists
           \/ /\ HomeOf(k1, t) \in ListNames
              /\ k1.lists = list_enqueue(k.lists, HomeOf(k1, t), t)
    PROVE  KInv(k1)
  <1>1. Queues(k.lists, ListNames, Tids)
    BY DEF Loose, InPlace
  <1>2. /\ Queues(k1.lists, ListNames, Tids)
        /\ \A l \in ListNames : \A u \in Members(k1.lists, l) :
             u \in Members(k.lists, l) \/ (u = t /\ HomeOf(k1, t) = l)
    <2>1. CASE k1.lists = k.lists
      BY <1>1, <2>1
    <2>2. CASE /\ HomeOf(k1, t) \in ListNames
               /\ k1.lists = list_enqueue(k.lists, HomeOf(k1, t), t)
      <3> DEFINE h == HomeOf(k1, t)
      <3>1. t \notin Members(k.lists, h)
        BY <2>2 DEF Loose
      <3> HIDE DEF h
      <3>2. /\ Queues(list_enqueue(k.lists, h, t), ListNames, Tids)
            /\ Members(list_enqueue(k.lists, h, t), h) = Members(k.lists, h) \cup {t}
            /\ \A m \in ListNames : m # h =>
                 Members(list_enqueue(k.lists, h, t), m) = Members(k.lists, m)
        BY <1>1, <2>2, <3>1, EnqueueQueues DEF h
      <3>3. QED
        BY <2>2, <3>2 DEF h
    <2>3. QED
      BY <2>1, <2>2
  <1>3. InPlace(k1)
    <2>1. ASSUME NEW l \in ListNames, NEW u \in Members(k1.lists, l)
          PROVE  HomeOf(k1, u) = l
      <3>1. CASE u = t /\ HomeOf(k1, t) = l
        BY <3>1
      <3>2. CASE u \in Members(k.lists, l)
        <4>1. u \in Tids /\ u # t /\ HomeOf(k, u) = l
          BY <3>2, <1>1, ElementIndex DEF Loose, InPlace, Queues, Members
        <4>2. QED
          BY <4>1, SameHome
      <3>3. QED
        BY <1>2, <3>1, <3>2
    <2>2. QED
      BY <1>2, <2>1 DEF InPlace
  <1>4. Current(k1, Tids)
    BY DEF Loose, Current
  <1>5. QED
    BY <1>3, <1>4 DEF KInv

\* The same for a thread whose events do not change.
LEMMA Settle ==
    ASSUME NEW t \in Tids, NEW k, Loose(k, t), NEW k1 \in KStates,
           \A u \in Tids \ {t} : /\ k1.thread_state[u] = k.thread_state[u]
                                 /\ k1.priority[u] = k.priority[u]
                                 /\ k1.wait_tid[u] = k.wait_tid[u],
           k1.thread_state[t] \notin {"RUNNING", "INACTIVE"},
           k1.running_thread = k.running_thread,
           k1.irq_handlers = k.irq_handlers,
           k1.event_mask = k.event_mask,
           k1.halt # "assert_recipient",
           \/ k1.lists = k.lists
           \/ /\ HomeOf(k1, t) \in ListNames
              /\ k1.lists = list_enqueue(k.lists, HomeOf(k1, t), t)
    PROVE  KInv(k1)
  <1>1. Handlers(k1)
    BY DEF Loose, Handlers, KStates
  <1>2. QED
    BY <1>1, SettleAny

\* The fields the invariant depends on.
SameCore(k, k1) ==
    /\ k1.thread_state = k.thread_state
    /\ k1.priority = k.priority
    /\ k1.wait_tid = k.wait_tid
    /\ k1.lists = k.lists
    /\ k1.running_thread = k.running_thread
    /\ k1.irq_handlers = k.irq_handlers
    /\ k1.event_mask = k.event_mask

\* The other fields may change.
LEMMA Touch ==
    ASSUME NEW k, KInv(k), NEW k1 \in KStates, SameCore(k, k1),
           k1.halt # "assert_recipient"
    PROVE  KInv(k1)
  <1>1. \A t : HomeOf(k1, t) = HomeOf(k, t)
    BY SameHome DEF SameCore
  <1>2. InPlace(k1)
    BY <1>1 DEF SameCore, KInv, InPlace
  <1>3. Current(k1, Tids) /\ Handlers(k1)
    BY DEF SameCore, KInv, Current, Handlers
  <1>4. QED
    BY <1>2, <1>3 DEF KInv

\* A stopped machine keeps its lists.
LEMMA HaltInv ==
    ASSUME NEW k, KInv(k), NEW why \in Halts \ {"assert_recipient"}
    PROVE  KInv(Halt(k, why))
  <1>1. CASE k.halt # "no"
    BY <1>1 DEF Halt
  <1>2. CASE k.halt = "no"
    <2> DEFINE k1 == [k EXCEPT !.halt = why]
    <2>1. Halt(k, why) = k1
      BY <1>2 DEF Halt
    <2>2. k1 \in KStates /\ SameCore(k, k1) /\ k1.halt = why
      BY Zenon DEF KInv, KStates, SameCore
    <2> HIDE DEF k1
    <2>3. QED
      BY <2>1, <2>2, Touch
  <1>3. QED
    BY <1>1, <1>2

\* A loose thread may be made ready.
LEMMA MakeReadyInv ==
    ASSUME NEW t \in Tids, NEW k, Loose(k, t)
    PROVE  /\ KInv(make_ready(k, t))
           /\ make_ready(k, t).thread_state = [k.thread_state EXCEPT ![t] = "READY"]
           /\ \A m \in ListNames :
                Members(make_ready(k, t).lists, m) \subseteq Members(k.lists, m) \cup {t}
  <1> DEFINE l == run_queue(k.priority[t])
             p == list_enqueue(k.lists, l, t)
             k1 == [k EXCEPT !.thread_state[t] = "READY", !.lists = p]
  <1>1. k \in KStates /\ Queues(k.lists, ListNames, Tids) /\ k.halt # "assert_recipient"
    BY DEF Loose, InPlace
  <1>2. l \in ListNames
    BY <1>1, HomeIsList DEF KStates
  <1>3. p \in [ListNames -> Seq(Tids)]
    BY <1>1, <1>2, EnqueueQueues DEF Loose, Queues
  <1>4. make_ready(k, t) = k1
    BY DEF make_ready
  <1> HIDE DEF p
  <1>5. /\ k1 \in KStates
        /\ k1.thread_state = [k.thread_state EXCEPT ![t] = "READY"]
        /\ k1.thread_state[t] = "READY"
        /\ k1.priority = k.priority /\ k1.wait_tid = k.wait_tid
        /\ k1.lists = p
        /\ k1.running_thread = k.running_thread
        /\ k1.irq_handlers = k.irq_handlers
        /\ k1.event_mask = k.event_mask
        /\ k1.halt = k.halt
    BY <1>1, <1>3, Zenon DEF KStates, ThreadStates
  <1> HIDE DEF k1
  <1>6. HomeOf(k1, t) = l
    BY <1>5 DEF HomeOf
  <1>7. \A u \in Tids \ {t} : k1.thread_state[u] = k.thread_state[u]
    BY <1>1, <1>5 DEF KStates
  <1>8. KInv(k1)
    <2>1. HomeOf(k1, t) \in ListNames /\ k1.lists = list_enqueue(k.lists, HomeOf(k1, t), t)
      BY <1>2, <1>5, <1>6 DEF p
    <2>2. /\ \A u \in Tids \ {t} : /\ k1.thread_state[u] = k.thread_state[u]
                                   /\ k1.priority[u] = k.priority[u]
                                   /\ k1.wait_tid[u] = k.wait_tid[u]
          /\ k1.thread_state[t] \notin {"RUNNING", "INACTIVE"}
          /\ k1.halt # "assert_recipient"
      BY <1>1, <1>5, <1>7
    <2>3. QED
      BY <1>5, <2>1, <2>2, Settle, Zenon
  <1>9. \A m \in ListNames : Members(p, m) \subseteq Members(k.lists, m) \cup {t}
    BY <1>1, <1>2, EnqueueQueues DEF Loose, p
  <1>10. QED
    BY <1>4, <1>5, <1>8, <1>9

\* A loose thread may be put on the paused list.
LEMMA PausedInv ==
    ASSUME NEW t \in Tids, NEW k, Loose(k, t)
    PROVE  KInv([k EXCEPT !.thread_state[t] = "PAUSED",
                          !.lists = list_enqueue(@, paused_list, t)])
  <1> DEFINE p == list_enqueue(k.lists, paused_list, t)
             k1 == [k EXCEPT !.thread_state[t] = "PAUSED", !.lists = p]
  <1>1. k \in KStates /\ Queues(k.lists, ListNames, Tids) /\ k.halt # "assert_recipient"
    BY DEF Loose, InPlace
  <1>2. p \in [ListNames -> Seq(Tids)]
    BY <1>1, HomeIsList, EnqueueQueues, Zenon DEF Loose, Queues
  <1>3. k1 = [k EXCEPT !.thread_state[t] = "PAUSED",
                       !.lists = list_enqueue(@, paused_list, t)]
    OBVIOUS
  <1> HIDE DEF p
  <1>4. /\ k1 \in KStates
        /\ k1.thread_state = [k.thread_state EXCEPT ![t] = "PAUSED"]
        /\ k1.thread_state[t] = "PAUSED"
        /\ k1.priority = k.priority /\ k1.wait_tid = k.wait_tid
        /\ k1.lists = p
        /\ k1.running_thread = k.running_thread
        /\ k1.irq_handlers = k.irq_handlers
        /\ k1.event_mask = k.event_mask
        /\ k1.halt = k.halt
    BY <1>1, <1>2, Zenon DEF KStates, ThreadStates
  <1> HIDE DEF k1
  <1>5. HomeOf(k1, t) = paused_list
    BY <1>4 DEF HomeOf
  <1>6. \A u \in Tids \ {t} : k1.thread_state[u] = k.thread_state[u]
    BY <1>1, <1>4 DEF KStates
  <1>7. KInv(k1)
    BY <1>1, <1>4, <1>5, <1>6, HomeIsList, Settle, Zenon DEF p
  <1>8. QED
    BY <1>3, <1>7

\* A loose thread may get another state and stay in no list.
Assigned(k, t, s) == [k EXCEPT !.thread_state[t] = s]
LEMMA AssignInv ==
    ASSUME NEW t \in Tids, NEW k, Loose(k, t), NEW s \in {"READY", "PAUSED"}
    PROVE  KInv(Assigned(k, t, s))
  <1> DEFINE k1 == [k EXCEPT !.thread_state[t] = s]
  <1>1. k \in KStates /\ k.halt # "assert_recipient"
    BY DEF Loose
  <1>2. /\ k1 \in KStates
        /\ k1.thread_state = [k.thread_state EXCEPT ![t] = s]
        /\ k1.thread_state[t] = s
        /\ k1.priority = k.priority /\ k1.wait_tid = k.wait_tid
        /\ k1.lists = k.lists
        /\ k1.running_thread = k.running_thread
        /\ k1.irq_handlers = k.irq_handlers
        /\ k1.event_mask = k.event_mask
        /\ k1.halt = k.halt
    BY <1>1, Zenon DEF KStates, ThreadStates
  <1> HIDE DEF k1
  <1>3. \A u \in Tids \ {t} : k1.thread_state[u] = k.thread_state[u]
    BY <1>1, <1>2 DEF KStates
  <1>4. KInv(k1)
    <2>1. /\ \A u \in Tids \ {t} : /\ k1.thread_state[u] = k.thread_state[u]
                                   /\ k1.priority[u] = k.priority[u]
                                   /\ k1.wait_tid[u] = k.wait_tid[u]
          /\ k1.thread_state[t] \notin {"RUNNING", "INACTIVE"}
          /\ k1.halt # "assert_recipient"
      BY <1>1, <1>2, <1>3
    <2>2. QED
      BY <1>2, <2>1, Settle, Zenon
  <1>5. QED
    BY <1>4 DEF k1, Assigned

\* A loose thread may enter the wait queue of another one, or wait for anyone.
LEMMA AttachInv ==
    ASSUME NEW t \in Tids, NEW k, Loose(k, t), NEW r \in Tids \cup {NULL_TID}
    PROVE  /\ KInv(attach_sender_wait_queue(k, t, r))
           /\ r # NULL_TID => KInv(attach_receiver_wait_queue(k, t, r))
  <1> DEFINE w == get_tid(r)
  <1>1. k \in KStates /\ Queues(k.lists, ListNames, Tids) /\ k.halt # "assert_recipient"
    BY DEF Loose, InPlace
  <1>2. w \in Tids \cup {NULL_TID, WildTid} /\ (r # NULL_TID => w = r /\ r \in Tids)
    BY DEF get_tid
  <1> HIDE DEF w
  <1>3. ASSUME NEW s \in {"WAIT_FOR_RECV", "WAIT_FOR_SEND"}, NEW p, NEW k1,
               k1 = [k EXCEPT !.lists = p, !.thread_state[t] = s, !.wait_tid[t] = w],
               \/ p = k.lists
               \/ \E l \in ListNames :
                    /\ p = list_enqueue(k.lists, l, t)
                    /\ l = IF s = "WAIT_FOR_RECV" THEN sender_wait_queue(w)
                                                  ELSE receiver_wait_queue(w)
        PROVE  KInv(k1)
    <2>1. p \in [ListNames -> Seq(Tids)]
      <3>1. CASE p = k.lists
        BY <1>1, <3>1 DEF Queues
      <3>2. ASSUME NEW l \in ListNames, p = list_enqueue(k.lists, l, t)
            PROVE  p \in [ListNames -> Seq(Tids)]
        BY <1>1, <3>2, EnqueueQueues DEF Loose, Queues
      <3>3. QED
        BY <1>3, <3>1, <3>2
    <2>2. /\ k1 \in KStates
          /\ k1.thread_state = [k.thread_state EXCEPT ![t] = s]
          /\ k1.wait_tid = [k.wait_tid EXCEPT ![t] = w]
          /\ k1.priority = k.priority
          /\ k1.lists = p
          /\ k1.running_thread = k.running_thread
          /\ k1.irq_handlers = k.irq_handlers
          /\ k1.event_mask = k.event_mask
          /\ k1.halt = k.halt
      <3> DEFINE s1 == [k.thread_state EXCEPT ![t] = s]
                 w1 == [k.wait_tid EXCEPT ![t] = w]
      <3>1. s1 \in [Tids -> ThreadStates] /\ w1 \in [Tids -> Tids \cup {NULL_TID, WildTid}]
        BY <1>1, <1>2 DEF KStates, ThreadStates
      <3>2. k1 = [k EXCEPT !.lists = p, !.thread_state = s1, !.wait_tid = w1]
        BY <1>3
      <3> HIDE DEF s1, w1
      <3>3. /\ k1 \in KStates /\ k1.thread_state = s1 /\ k1.wait_tid = w1
            /\ k1.priority = k.priority
            /\ k1.lists = p
            /\ k1.running_thread = k.running_thread
            /\ k1.irq_handlers = k.irq_handlers
            /\ k1.event_mask = k.event_mask
            /\ k1.halt = k.halt
        BY <1>1, <2>1, <3>1, <3>2, Zenon DEF KStates
      <3>4. QED
        BY <3>3 DEF s1, w1
    <2>3. /\ k1.thread_state[t] = s /\ k1.wait_tid[t] = w
          /\ \A u \in Tids \ {t} : /\ k1.thread_state[u] = k.thread_state[u]
                                   /\ k1.wait_tid[u] = k.wait_tid[u]
      BY <1>1, <2>2 DEF KStates
    <2>4. HomeOf(k1, t) = IF s = "WAIT_FOR_RECV" THEN sender_wait_queue(w)
                                                 ELSE receiver_wait_queue(w)
      BY <2>3 DEF HomeOf
    <2>5. k1.thread_state[t] \notin {"RUNNING", "INACTIVE"}
      BY <2>3
    <2>6. \/ k1.lists = k.lists
          \/ /\ HomeOf(k1, t) \in ListNames
             /\ k1.lists = list_enqueue(k.lists, HomeOf(k1, t), t)
      BY <1>3, <2>2, <2>4
    <2>7. /\ k1 \in KStates /\ k1.priority = k.priority
          /\ k1.running_thread = k.running_thread
          /\ k1.irq_handlers = k.irq_handlers
          /\ k1.event_mask = k.event_mask
          /\ k1.halt # "assert_recipient"
      BY <1>1, <2>2
    <2>8. QED
      BY <2>3, <2>5, <2>6, <2>7, Settle
  <1>4. KInv(attach_sender_wait_queue(k, t, r))
    <2>1. CASE r = NULL_TID
      <3>1. attach_sender_wait_queue(k, t, r)
              = [k EXCEPT !.lists = k.lists, !.thread_state[t] = "WAIT_FOR_RECV", !.wait_tid[t] = w]
        BY <2>1 DEF attach_sender_wait_queue, w
      <3>2. QED
        BY <1>3, <3>1, Zenon
    <2>2. CASE r # NULL_TID
      <3> DEFINE l == sender_wait_queue(w)
                 p == list_enqueue(k.lists, l, t)
      <3>1. attach_sender_wait_queue(k, t, r)
              = [k EXCEPT !.lists = p, !.thread_state[t] = "WAIT_FOR_RECV", !.wait_tid[t] = w]
        BY <1>2, <2>2 DEF attach_sender_wait_queue, w
      <3>2. l \in ListNames
        BY <1>2, <2>2, HomeIsList
      <3>3. QED
        BY <1>3, <3>1, <3>2, Zenon
    <2>3. QED
      BY <2>1, <2>2
  <1>5. ASSUME r # NULL_TID PROVE KInv(attach_receiver_wait_queue(k, t, r))
    <2> DEFINE l == receiver_wait_queue(w)
               p == list_enqueue(k.lists, l, t)
    <2>1. attach_receiver_wait_queue(k, t, r)
            = [k EXCEPT !.lists = p, !.thread_state[t] = "WAIT_FOR_SEND", !.wait_tid[t] = w]
      BY <1>2, <1>5 DEF attach_receiver_wait_queue, w
    <2>2. l \in ListNames
      BY <1>2, <1>5, HomeIsList
    <2>3. QED
      BY <1>3, <2>1, <2>2, Zenon
  <1>6. QED
    BY <1>4, <1>5

\* thread_start() and thread_wakeup() keep the invariant.
LEMMA StartInv ==
    ASSUME NEW k, KInv(k), NEW t \in Tids
    PROVE  KInv(thread_start(k, t)) /\ KInv(thread_wakeup(k, t))
  BY RemoveLoose, MakeReadyInv, Zenon DEF thread_start, thread_wakeup

\* thread_pause() keeps the invariant.
LEMMA PauseInv ==
    ASSUME NEW k, KInv(k), NEW t \in Tids
    PROVE  KInv(thread_pause(k, t))
  BY RemoveLoose, PausedInv, Zenon DEF thread_pause

\* A loose thread whose state is not RUNNING does not break the invariant.
LEMMA LooseInv ==
    ASSUME NEW t \in Tids, NEW k, Loose(k, t), k.thread_state[t] # "RUNNING"
    PROVE  KInv(k)
  <1>1. Current(k, Tids)
    BY DEF Loose, Current
  <1>2. QED
    BY <1>1 DEF Loose, KInv

\* schedule() looks for a thread at the highest priority that has one.
LEMMA HighestPriority ==
    ASSUME NEW S, S \subseteq Priorities, S # {}
    PROVE  \E x \in S : \A y \in S : y <= x
  <1>1. Priorities = {0, 1, 2, 3, 4}
    BY DEF Priorities, MIN_PRIORITY, MAX_PRIORITY
  <1>2. CASE 4 \in S
    BY <1>1, <1>2
  <1>3. CASE 4 \notin S /\ 3 \in S
    BY <1>1, <1>3
  <1>4. CASE 4 \notin S /\ 3 \notin S /\ 2 \in S
    BY <1>1, <1>4
  <1>5. CASE 4 \notin S /\ 3 \notin S /\ 2 \notin S /\ 1 \in S
    BY <1>1, <1>5
  <1>6. CASE S = {0}
    BY <1>6
  <1>7. QED
    BY <1>1, <1>2, <1>3, <1>4, <1>5, <1>6, Zenon

\* A thread that is in no list may take the processor when nobody has it.
Runs(k, t) == [k EXCEPT !.thread_state[t] = "RUNNING", !.running_thread = t]
LEMMA RunInv ==
    ASSUME NEW t \in Tids, NEW k, KInv(k), k.running_thread = NULL_TID,
           \A l \in ListNames : t \notin Members(k.lists, l)
    PROVE  KInv(Runs(k, t))
  <1> DEFINE k1 == [k EXCEPT !.thread_state[t] = "RUNNING", !.running_thread = t]
  <1>1. k \in KStates /\ NULL_TID \notin Tids
    BY DEF KInv, Tids, NULL_TID
  <1>2. /\ k1 \in KStates
        /\ k1.thread_state = [k.thread_state EXCEPT ![t] = "RUNNING"]
        /\ k1.running_thread = t
        /\ k1.priority = k.priority /\ k1.wait_tid = k.wait_tid
        /\ k1.lists = k.lists
        /\ k1.irq_handlers = k.irq_handlers
        /\ k1.event_mask = k.event_mask
        /\ k1.halt = k.halt
    BY <1>1, Zenon DEF KStates, ThreadStates
  <1>3. k1.thread_state[t] = "RUNNING" /\ \A u \in Tids \ {t} : k1.thread_state[u] = k.thread_state[u]
    BY <1>1, <1>2 DEF KStates
  <1> HIDE DEF k1
  <1>4. InPlace(k1)
    <2>1. ASSUME NEW l \in ListNames, NEW u \in Members(k1.lists, l)
          PROVE  HomeOf(k1, u) = l
      <3>1. u \in Tids /\ u # t /\ HomeOf(k, u) = l
        BY <1>2, ElementIndex DEF KInv, InPlace, Queues, Members
      <3>2. /\ k1.thread_state[u] = k.thread_state[u]
            /\ k1.priority[u] = k.priority[u]
            /\ k1.wait_tid[u] = k.wait_tid[u]
        BY <1>2, <1>3, <3>1
      <3>3. QED
        BY <3>1, <3>2, SameHome
    <2>2. QED
      BY <1>2, <2>1 DEF KInv, InPlace
  <1>5. Current(k1, Tids)
    BY <1>1, <1>2, <1>3 DEF KInv, Current
  <1>6. Handlers(k1)
    BY <1>1, <1>2, <1>3 DEF KInv, Handlers, KStates
  <1>7. KInv(k1)
    BY <1>2, <1>4, <1>5, <1>6 DEF KInv
  <1>8. QED
    BY <1>7 DEF k1, Runs

\* The threads in a run queue are READY.
LEMMA QueuedIsReady ==
    ASSUME NEW k, KInv(k), NEW p, NEW t, HomeOf(k, t) = run_queue(p)
    PROVE  k.thread_state[t] = "READY"
  BY DEF HomeOf, run_queue, paused_list, zombie_list, sender_wait_queue, receiver_wait_queue

\* Taking the next thread from a list leaves it in no list.
LEMMA DequeueLoose ==
    ASSUME NEW k, KInv(k), NEW l \in ListNames, ~LIST_IS_EMPTY(k.lists, l),
           NEW k1, k1 = [k EXCEPT !.lists = list_dequeue(k.lists, l)],
           NEW t, t = list_next(k.lists, l)
    PROVE  /\ t \in Tids /\ HomeOf(k, t) = l
           /\ Loose(k1, t) /\ Unmoved(k, k1) /\ KInv(k1)
           /\ k1.wait_tid = k.wait_tid
           /\ k1.running_thread = k.running_thread
           /\ k1.halt = k.halt
  <1> DEFINE p == list_dequeue(k.lists, l)
  <1>1. k \in KStates /\ Queues(k.lists, ListNames, Tids) /\ k.halt # "assert_recipient"
    BY DEF KInv, InPlace
  <1>2. /\ Queues(p, ListNames, Tids)
        /\ t \in Members(k.lists, l)
        /\ t \in Tids
        /\ Members(p, l) = Members(k.lists, l) \ {t}
        /\ \A m \in ListNames : m # l => Members(p, m) = Members(k.lists, m)
    BY <1>1, DequeueQueues
  <1> HIDE DEF p
  <1>3. HomeOf(k, t) = l
    BY <1>2 DEF KInv, InPlace
  <1>4. \A m \in ListNames : Members(p, m) \subseteq Members(k.lists, m) \ {t}
    <2>1. \A m \in ListNames : m # l => t \notin Members(k.lists, m)
      BY <1>3 DEF KInv, InPlace
    <2>2. QED
      BY <1>2, <2>1
  <1>5. /\ k1 \in KStates /\ Unmoved(k, k1) /\ k1.lists = p
        /\ k1.wait_tid = k.wait_tid
        /\ k1.running_thread = k.running_thread
        /\ k1.halt = k.halt
    <2>1. p \in [ListNames -> Seq(Tids)] /\ k1 = [k EXCEPT !.lists = p]
      BY <1>2 DEF Queues, p
    <2>2. QED
      BY <1>1, <2>1, Zenon DEF KStates, Unmoved
  <1>6. k.thread_state[t] # "RUNNING"
    <2>1. l # <<"none", 0>>
      BY HomeIsList
    <2>2. QED
      BY <1>3, <2>1 DEF HomeOf
  <1>7. k.running_thread # t
    BY <1>2, <1>6 DEF KInv, Current
  <1>8. Loose(k1, t)
    BY <1>1, <1>2, <1>4, <1>5, <1>7, Unlist, Zenon
  <1>9. KInv(k1)
    BY <1>2, <1>5, <1>6, <1>8, LooseInv, Zenon DEF Unmoved
  <1>10. QED
    BY <1>2, <1>3, <1>5, <1>8, <1>9

\* schedule() keeps the invariant.
LEMMA ScheduleInv ==
    ASSUME NEW k, KInv(k)
    PROVE  KInv(schedule(k))
  <1> DEFINE c == k.running_thread
             ready == RunnablePriorities(k)
             p == CHOOSE x \in ready : \A y \in ready : y <= x
             new == list_next(k.lists, run_queue(p))
             k1 == [k EXCEPT !.lists = list_dequeue(k.lists, run_queue(p))]
  <1>1. CASE ready = {}
    <2>1. schedule(k) = k \/ schedule(k) = Halt(k, "panic")
      BY <1>1 DEF schedule
    <2>2. "panic" \in Halts \ {"assert_recipient"}
      BY DEF Halts
    <2>3. QED
      BY <2>1, <2>2, HaltInv
  <1>2. CASE ready # {}
    <2>1. p \in ready
      <3>1. ready \subseteq Priorities
        BY DEF RunnablePriorities
      <3> HIDE DEF ready
      <3>2. QED
        BY <1>2, <3>1, HighestPriority
    <2>2. p \in Priorities /\ ~LIST_IS_EMPTY(k.lists, run_queue(p))
      BY <2>1 DEF RunnablePriorities
    <2>3. schedule(k) = Runs(IF c = NULL_TID THEN k1 ELSE make_ready(k1, c), new)
      BY <1>2 DEF schedule, Runs
    <2> HIDE DEF p
    <2>4. /\ new \in Tids /\ HomeOf(k, new) = run_queue(p)
          /\ Loose(k1, new) /\ Unmoved(k, k1) /\ KInv(k1)
          /\ k1.running_thread = c
      BY <2>2, HomeIsList, DequeueLoose
    <2> HIDE DEF k1, new
    <2>5. k.thread_state[new] = "READY" /\ k1.thread_state[new] = "READY"
      BY <2>4, QueuedIsReady DEF Unmoved
    <2>6. CASE c = NULL_TID
      BY <2>3, <2>4, <2>6, RunInv DEF Loose
    <2>7. CASE c # NULL_TID
      <3> DEFINE k0 == thread_remove_from_list(k1, c)
                 k2 == make_ready(k0, c)
                 k3 == make_ready(k1, c)
      <3>1. c \in Tids /\ k1.thread_state[c] = "RUNNING" /\ c # new
        BY <2>4, <2>5, <2>7, Zenon DEF KInv, KStates, Current
      <3>2. Loose(k0, c) /\ k0 = [k1 EXCEPT !.running_thread = NULL_TID]
        BY <2>4, <3>1, RemoveLoose, Zenon DEF thread_remove_from_list
      <3> HIDE DEF k0
      <3>3. /\ KInv(k2)
            /\ k2.thread_state = [k0.thread_state EXCEPT ![c] = "READY"]
            /\ \A m \in ListNames : Members(k2.lists, m) \subseteq Members(k0.lists, m) \cup {c}
        BY <3>1, <3>2, MakeReadyInv, Zenon
      <3>4. k2.running_thread = NULL_TID
        BY <2>4, <3>2 DEF make_ready, KInv, KStates
      <3>5. \A m \in ListNames : new \notin Members(k2.lists, m)
        <4>1. k0.lists = k1.lists
          BY <3>2, <2>4 DEF KInv, KStates
        <4>2. QED
          BY <2>4, <3>1, <3>3, <4>1 DEF Loose
      <3>6. KInv(Runs(k2, new))
        BY <2>4, <3>3, <3>4, <3>5, RunInv
      <3>7. /\ Runs(k3, new) \in KStates
            /\ SameCore(Runs(k2, new), Runs(k3, new))
            /\ Runs(k3, new).halt = Runs(k2, new).halt
        <4> DEFINE q == list_enqueue(k1.lists, run_queue(k1.priority[c]), c)
                   s == [k1.thread_state EXCEPT ![c] = "READY"]
        <4>1. k1 \in KStates /\ k2 \in KStates
          BY <2>4, <3>3 DEF KInv
        <4>2. k0.lists = k1.lists /\ k0.priority = k1.priority /\ k0.thread_state = k1.thread_state
          BY <3>2, <4>1 DEF KStates
        <4>3. k3 = [k1 EXCEPT !.thread_state = s, !.lists = q]
          BY DEF make_ready
        <4>4. k2 = [k0 EXCEPT !.thread_state = s, !.lists = q]
          BY <4>2 DEF make_ready
        <4> HIDE DEF q, s
        <4>5. k2.lists = q /\ k2.thread_state = s
          BY <3>2, <4>1, <4>4, Zenon DEF KStates
        <4>6. q \in [ListNames -> Seq(Tids)] /\ s \in [Tids -> ThreadStates]
          BY <4>1, <4>5 DEF KStates
        <4> HIDE DEF k2, k3
        <4>7. k3 \in KStates /\ k2 = [k3 EXCEPT !.running_thread = NULL_TID]
          BY <3>2, <4>1, <4>3, <4>4, <4>6, Zenon DEF KStates
        <4>8. QED
          BY <2>4, <4>1, <4>7, Zenon DEF Runs, SameCore, KStates, ThreadStates
      <3>8. KInv(Runs(k3, new))
        BY <3>6, <3>7, Touch DEF KInv
      <3>9. QED
        BY <2>3, <2>7, <3>8
    <2>8. QED
      BY <2>6, <2>7
  <1>3. QED
    BY <1>1, <1>2

\* So does switching to the thread it picked.
LEMMA SwitchInv ==
    ASSUME NEW k, KInv(k)
    PROVE  /\ \A t : KInv(thread_switch_context(k, t))
           /\ KInv(switch(k))
  <1>1. "assert_running" \in Halts \ {"assert_recipient"}
    BY DEF Halts
  <1>2. \A k1, t : KInv(k1) => KInv(thread_switch_context(k1, t))
    BY <1>1, HaltInv DEF thread_switch_context
  <1>3. QED
    BY <1>2, ScheduleInv DEF switch

\* thread_release() keeps the invariant: the threads it wakes leave the list
\* they were in, and no IRQ keeps the thread as its handler.
LEMMA ReleaseInv ==
    ASSUME NEW k, KInv(k), NEW t \in Tids
    PROVE  KInv(thread_release(k, t))
  <1> DEFINE k1 == thread_remove_from_list(k, t)
             q == sender_wait_queue(t)
             woken == ToSet(k1.lists[q])
             p == [k1.lists EXCEPT ![q] = <<>>]
             w2 == [x \in Tids |-> IF x \in woken THEN NULL_TID ELSE k1.wait_tid[x]]
             e2 == [x \in Tids |-> IF x \in woken THEN "E_UNREACH" ELSE k1.eax[x]]
             h2 == unregister_handler(k1, t)
             s2 == [x \in Tids |-> IF x = t THEN "INACTIVE"
                                   ELSE IF x \in woken THEN "READY" ELSE k1.thread_state[x]]
             k2 == [k1 EXCEPT !.lists = p, !.wait_tid = w2, !.eax = e2,
                              !.irq_handlers = h2, !.thread_state = s2]
  <1>1. CASE ~IsRemovable(k, t)
    BY <1>1 DEF thread_release
  <1>2. CASE IsRemovable(k, t)
    <2>1. thread_release(k, t) = k2
      BY <1>2 DEF thread_release
    <2>2. Loose(k1, t)
      BY RemoveLoose
    <2> HIDE DEF k1
    <2>3. k1 \in KStates /\ Queues(k1.lists, ListNames, Tids) /\ q \in ListNames
      BY <2>2, HomeIsList DEF Loose, InPlace
    <2>4. woken = Members(k1.lists, q)
      BY DEF Members
    <2>5. /\ Queues(p, ListNames, Tids)
          /\ Members(p, q) = {}
          /\ \A m \in ListNames : m # q => Members(p, m) = Members(k1.lists, m)
      BY <2>3, ClearQueues
    <2>6. /\ p \in [ListNames -> Seq(Tids)]
          /\ w2 \in [Tids -> Tids \cup {NULL_TID, WildTid}]
          /\ e2 \in [Tids -> RegisterResults]
          /\ s2 \in [Tids -> ThreadStates]
      <3> HIDE DEF p
      <3>1. p \in [ListNames -> Seq(Tids)]
        BY <2>5 DEF Queues
      <3> HIDE DEF woken
      <3>2. w2 \in [Tids -> Tids \cup {NULL_TID, WildTid}]
        BY <2>3 DEF KStates
      <3>3. e2 \in [Tids -> RegisterResults]
        BY <2>3 DEF KStates, RegisterResults
      <3>4. s2 \in [Tids -> ThreadStates]
        BY <2>3 DEF KStates, ThreadStates
      <3>5. QED
        BY <3>1, <3>2, <3>3, <3>4
    <2>7. /\ h2 \in [Irqs -> Tids \cup {NULL_TID}]
          /\ \A i \in Irqs : h2[i] # NULL_TID => h2[i] # t /\ h2[i] = k1.irq_handlers[i]
      BY <2>3 DEF unregister_handler, KStates
    <2>8. /\ \A x \in Tids \ woken : w2[x] = k1.wait_tid[x]
          /\ \A x \in Tids \ woken : x # t => s2[x] = k1.thread_state[x]
          /\ s2[t] = "INACTIVE"
          /\ \A x \in woken : x \in Tids /\ x # t => s2[x] = "READY"
      OBVIOUS
    <2> HIDE DEF p, w2, e2, h2, s2
    <2>9. /\ k2 \in KStates /\ k2.lists = p /\ k2.wait_tid = w2
          /\ k2.irq_handlers = h2 /\ k2.thread_state = s2
          /\ k2.priority = k1.priority
          /\ k2.running_thread = k1.running_thread
          /\ k2.event_mask = k1.event_mask
          /\ k2.halt = k1.halt
      BY <2>3, <2>6, <2>7, Zenon DEF KStates
    <2> HIDE DEF k2, woken
    <2>10. \A x \in woken : /\ x \in Tids /\ x # t /\ HomeOf(k1, x) = q
                            /\ k1.thread_state[x] = "WAIT_FOR_RECV"
      <3>1. ASSUME NEW x \in woken PROVE x \in Tids /\ x # t /\ HomeOf(k1, x) = q
        BY <2>2, <2>3, <2>4, ElementIndex DEF Loose, InPlace, Queues, Members
      <3>2. ASSUME NEW x, HomeOf(k1, x) = q PROVE k1.thread_state[x] = "WAIT_FOR_RECV"
        BY <3>2 DEF HomeOf, run_queue, paused_list, zombie_list, sender_wait_queue,
                    receiver_wait_queue
      <3>3. QED
        BY <3>1, <3>2
    <2>11. InPlace(k2)
      <3>1. ASSUME NEW l \in ListNames, NEW u \in Members(p, l)
            PROVE  HomeOf(k2, u) = l
        <4>1. l # q /\ u \in Members(k1.lists, l)
          BY <2>5, <3>1
        <4>2. u \in Tids /\ u # t /\ HomeOf(k1, u) = l
          BY <2>2, <2>3, <4>1, ElementIndex DEF Loose, InPlace, Queues, Members
        <4>3. u \notin woken
          BY <2>10, <4>1, <4>2
        <4>4. /\ k2.thread_state[u] = k1.thread_state[u]
              /\ k2.priority[u] = k1.priority[u]
              /\ k2.wait_tid[u] = k1.wait_tid[u]
          BY <2>8, <2>9, <4>2, <4>3
        <4>5. QED
          BY <4>2, <4>4, SameHome
      <3>2. QED
        BY <2>5, <2>9, <3>1 DEF InPlace
    <2>12. Current(k2, Tids)
      <3>1. ASSUME NEW x \in Tids PROVE k2.thread_state[x] = "RUNNING" <=> k2.running_thread = x
        <4>1. CASE x = t
          BY <2>2, <2>8, <2>9, <4>1 DEF Loose
        <4>2. CASE x # t /\ x \in woken
          BY <2>2, <2>8, <2>9, <2>10, <4>2 DEF Loose, Current
        <4>3. CASE x # t /\ x \notin woken
          BY <2>2, <2>8, <2>9, <4>3 DEF Loose, Current
        <4>4. QED
          BY <4>1, <4>2, <4>3
      <3>2. QED
        BY <3>1 DEF Current
    <2>13. Handlers(k2)
      <3>1. ASSUME NEW irq \in Irqs, h2[irq] # NULL_TID
            PROVE  s2[h2[irq]] # "INACTIVE" /\ irq + 8 \in k1.event_mask[h2[irq]]
        <4>1. /\ h2[irq] \in Tids /\ h2[irq] # t
              /\ k1.thread_state[h2[irq]] # "INACTIVE"
              /\ irq + 8 \in k1.event_mask[h2[irq]]
          BY <2>2, <2>7, <3>1 DEF Loose, Handlers
        <4>2. QED
          BY <2>8, <4>1
      <3>2. QED
        BY <2>9, <3>1 DEF Handlers
    <2>14. KInv(k2)
      BY <2>2, <2>9, <2>11, <2>12, <2>13 DEF KInv, Loose
    <2>15. QED
      BY <2>1, <2>14
  <1>3. QED
    BY <1>1, <1>2

\* A set of thread ids has a least one.
LEMMA LeastElement ==
    ASSUME NEW S, S \subseteq Nat, S # {}
    PROVE  \E x \in S : \A y \in S : x <= y
  <1> DEFINE R == {ss \in Nat \X Nat : ss[1] < ss[2]}
  <1>1. IsWellFoundedOn(R, Nat)
    BY NatLessThanWellFounded, Zenon DEF OpToRel
  <1>2. \E x \in S : \A y \in S : ~(<<y, x>> \in R)
    BY <1>1, WFMin, Zenon
  <1>3. ASSUME NEW x \in S, NEW y \in S, ~(<<y, x>> \in R) PROVE x <= y
    BY <1>3
  <1>4. QED
    BY <1>2, <1>3

\* A thread in one of the states that name no list is in none.
LEMMA InactiveHomeless ==
    ASSUME NEW k, KInv(k), NEW t \in Tids, k.thread_state[t] = "INACTIVE"
    PROVE  \A l \in ListNames : t \notin Members(k.lists, l)
  <1>1. HomeOf(k, t) = <<"none", 0>>
    BY DEF HomeOf
  <1>2. QED
    BY <1>1, HomeIsList DEF KInv, InPlace

\* thread_create() keeps the invariant.
LEMMA CreateInv ==
    ASSUME NEW k, KInv(k), NEW pmap \in Pmaps
    PROVE  KInv(thread_create(k, pmap))
  <1> DEFINE t == CHOOSE x \in FreeSlots(k) : \A y \in FreeSlots(k) : x <= y
             p1 == [k.lists EXCEPT ![sender_wait_queue(t)] = <<>>,
                                   ![receiver_wait_queue(t)] = <<>>]
             p == list_enqueue(p1, paused_list, t)
  <1>1. CASE FreeSlots(k) = {}
    <2>1. "wild" \in Halts \ {"assert_recipient"}
      BY DEF Halts
    <2>2. QED
      BY <1>1, <2>1, HaltInv DEF thread_create
  <1>2. CASE FreeSlots(k) # {}
    <2> DEFINE k0 == [k EXCEPT !.lists = p1]
               s1 == [k.thread_state EXCEPT ![t] = "PAUSED"]
               pr1 == [k.priority EXCEPT ![t] = NORMAL_PRIORITY]
               w1 == [k.wait_tid EXCEPT ![t] = NULL_TID]
               m1 == [k.wait_for_kernel_msg EXCEPT ![t] = FALSE]
               r1 == [k.root_pmap EXCEPT ![t] = pmap]
               e1 == [k.event_mask EXCEPT ![t] = {}]
               n1 == [k.pending_events EXCEPT ![t] = {}]
               a1 == [k.eax EXCEPT ![t] = "ZERO"]
               b1 == [k.ebx EXCEPT ![t] = "NULL"]
               d1 == [k.edi EXCEPT ![t] = 0]
               k1 == [k EXCEPT !.last_tid = t, !.thread_state = s1, !.priority = pr1,
                               !.wait_tid = w1, !.wait_for_kernel_msg = m1,
                               !.root_pmap = r1, !.event_mask = e1,
                               !.pending_events = n1, !.eax = a1, !.ebx = b1,
                               !.edi = d1, !.lists = p]
    <2>1. thread_create(k, pmap) = k1
      BY <1>2, Zenon DEF thread_create
    <2>2. t \in FreeSlots(k)
      <3>1. FreeSlots(k) \subseteq Nat
        BY ThreadAssumption DEF FreeSlots, Tids
      <3>2. QED
        BY <1>2, <3>1, LeastElement
    <2> HIDE DEF t
    <2>3. t \in Tids /\ k.thread_state[t] = "INACTIVE"
      BY <2>2 DEF FreeSlots
    <2>4. k \in KStates /\ Queues(k.lists, ListNames, Tids) /\ k.halt # "assert_recipient"
      BY DEF KInv, InPlace
    <2>5. sender_wait_queue(t) \in ListNames /\ receiver_wait_queue(t) \in ListNames
      BY <2>3, HomeIsList
    <2>6. /\ Queues(p1, ListNames, Tids)
          /\ \A m \in ListNames : Members(p1, m) \subseteq Members(k.lists, m) \ {t}
      <3>1. /\ Queues(p1, ListNames, Tids)
            /\ \A m \in ListNames : Members(p1, m) \subseteq Members(k.lists, m)
        BY <2>4, <2>5, ClearTwo
      <3>2. \A m \in ListNames : t \notin Members(k.lists, m)
        BY <2>3, InactiveHomeless
      <3> HIDE DEF p1
      <3>3. QED
        BY <3>1, <3>2
    <2> HIDE DEF p1
    <2>7. Loose(k0, t)
      <3>1. p1 \in [ListNames -> Seq(Tids)]
        BY <2>6 DEF Queues
      <3>2. /\ k0 \in KStates /\ Unmoved(k, k0) /\ k0.lists = p1
            /\ k0.wait_tid = k.wait_tid
            /\ k0.running_thread = k.running_thread
            /\ k0.halt = k.halt
        BY <2>4, <3>1, Zenon DEF KStates, Unmoved
      <3>3. k.running_thread # t
        BY <2>3 DEF KInv, Current
      <3> HIDE DEF k0
      <3>4. /\ k0.running_thread = IF k.running_thread = t THEN NULL_TID ELSE k.running_thread
            /\ \A u \in Tids \ {t} : k0.wait_tid[u] = k.wait_tid[u]
            /\ k0.halt # "assert_recipient"
        BY <2>4, <3>2, <3>3
      <3>5. QED
        BY <2>3, <2>6, <3>2, <3>4, Unlist
    <2>8. /\ Queues(p, ListNames, Tids)
      <3>1. t \notin Members(p1, paused_list) /\ paused_list \in ListNames
        BY <2>6, HomeIsList
      <3>2. QED
        BY <2>3, <2>6, <3>1, EnqueueQueues
    <2>9. /\ s1 \in [Tids -> ThreadStates] /\ pr1 \in [Tids -> Priorities]
          /\ w1 \in [Tids -> Tids \cup {NULL_TID, WildTid}]
          /\ m1 \in [Tids -> BOOLEAN] /\ r1 \in [Tids -> Pmaps]
          /\ e1 \in [Tids -> SUBSET EventBits] /\ n1 \in [Tids -> SUBSET EventBits]
          /\ a1 \in [Tids -> RegisterResults] /\ b1 \in [Tids -> Buffers]
          /\ d1 \in [Tids -> 0..1]
          /\ p \in [ListNames -> Seq(Tids)]
      <3>1. /\ "PAUSED" \in ThreadStates /\ NORMAL_PRIORITY \in Priorities
            /\ "ZERO" \in RegisterResults /\ "NULL" \in Buffers
        BY DEF ThreadStates, NORMAL_PRIORITY, Priorities, MIN_PRIORITY, MAX_PRIORITY,
               RegisterResults, Buffers
      <3>2. p \in [ListNames -> Seq(Tids)]
        BY <2>8 DEF Queues
      <3> HIDE DEF p
      <3>3. /\ s1 \in [Tids -> ThreadStates] /\ pr1 \in [Tids -> Priorities]
            /\ w1 \in [Tids -> Tids \cup {NULL_TID, WildTid}]
        BY <2>4, <3>1 DEF KStates
      <3>4. /\ m1 \in [Tids -> BOOLEAN] /\ r1 \in [Tids -> Pmaps]
            /\ e1 \in [Tids -> SUBSET EventBits] /\ n1 \in [Tids -> SUBSET EventBits]
        BY <2>4 DEF KStates
      <3>5. a1 \in [Tids -> RegisterResults] /\ b1 \in [Tids -> Buffers]
        BY <2>4, <3>1 DEF KStates
      <3>6. d1 \in [Tids -> 0..1]
        <4>1. 0 \in 0..1
          OBVIOUS
        <4>2. QED
          BY <2>4, <4>1, Zenon DEF KStates
      <3>7. QED
        BY <3>2, <3>3, <3>4, <3>5, <3>6
    <2>10. \A u \in Tids \ {t} : /\ s1[u] = k.thread_state[u]
                                 /\ pr1[u] = k.priority[u]
                                 /\ w1[u] = k.wait_tid[u]
                                 /\ e1[u] = k.event_mask[u]
      BY <2>4 DEF KStates
    <2>11. s1[t] = "PAUSED"
      BY <2>3, <2>4 DEF KStates
    <2>12. p = list_enqueue(k0.lists, paused_list, t) /\ k0.lists = p1
      BY <2>4 DEF KStates
    <2>13. Unmoved(k, k0) /\ k0.wait_tid = k.wait_tid /\ k0.running_thread = k.running_thread
      BY <2>4, Zenon DEF KStates, Unmoved
    <2> HIDE DEF s1, pr1, w1, m1, r1, e1, n1, a1, b1, d1, p, k0
    <2>14. k1 \in KStates
      BY <2>3, <2>4, <2>9, Zenon DEF KStates
    <2>15. /\ k1.thread_state = s1 /\ k1.priority = pr1 /\ k1.wait_tid = w1
           /\ k1.lists = p /\ k1.event_mask = e1
           /\ k1.running_thread = k.running_thread
           /\ k1.irq_handlers = k.irq_handlers
           /\ k1.halt = k.halt
      BY <2>4, Zenon DEF KStates
    <2> HIDE DEF k1
    <2>16. Handlers(k1)
      <3>1. ASSUME NEW irq \in Irqs, k.irq_handlers[irq] # NULL_TID
            PROVE  /\ s1[k.irq_handlers[irq]] # "INACTIVE"
                   /\ irq + 8 \in e1[k.irq_handlers[irq]]
        <4>1. /\ k.irq_handlers[irq] \in Tids
              /\ k.thread_state[k.irq_handlers[irq]] # "INACTIVE"
              /\ irq + 8 \in k.event_mask[k.irq_handlers[irq]]
          BY <2>4, <3>1 DEF KInv, Handlers, KStates
        <4>2. QED
          BY <2>3, <2>10, <4>1
      <3>2. QED
        BY <2>15, <3>1 DEF Handlers
    <2>17. HomeOf(k1, t) = paused_list
      BY <2>11, <2>15 DEF HomeOf
    <2>18. /\ \A u \in Tids \ {t} : /\ k1.thread_state[u] = k0.thread_state[u]
                                    /\ k1.priority[u] = k0.priority[u]
                                    /\ k1.wait_tid[u] = k0.wait_tid[u]
           /\ k1.thread_state[t] \notin {"RUNNING", "INACTIVE"}
           /\ k1.running_thread = k0.running_thread
           /\ k1.halt # "assert_recipient"
      BY <2>4, <2>10, <2>11, <2>13, <2>15 DEF Unmoved
    <2>19. /\ HomeOf(k1, t) \in ListNames
           /\ k1.lists = list_enqueue(k0.lists, HomeOf(k1, t), t)
      BY <2>12, <2>15, <2>17, HomeIsList
    <2>20. KInv(k1)
      BY <2>3, <2>7, <2>14, <2>16, <2>18, <2>19, SettleAny
    <2>21. QED
      BY <2>1, <2>20
  <1>3. QED
    BY <1>1, <1>2

\* Updates of the fields the invariant does not depend on.
SetEax(k, t, v) == [k EXCEPT !.eax[t] = v]
SetEbx(k, t, v) == [k EXCEPT !.ebx[t] = v]
SetEdi(k, t, v) == [k EXCEPT !.edi[t] = v]
SetWfk(k, t, v) == [k EXCEPT !.wait_for_kernel_msg[t] = v]
SetPmap(k, t, v) == [k EXCEPT !.root_pmap[t] = v]
SetPending(k, t, v) == [k EXCEPT !.pending_events[t] = v]

\* They keep the invariant.
LEMMA SetInv ==
    ASSUME NEW k, KInv(k), NEW t \in Tids
    PROVE  /\ \A v \in RegisterResults : KInv(SetEax(k, t, v))
           /\ \A v \in Buffers : KInv(SetEbx(k, t, v))
           /\ \A v \in 0..1 : KInv(SetEdi(k, t, v))
           /\ \A v \in BOOLEAN : KInv(SetWfk(k, t, v))
           /\ \A v \in Pmaps : KInv(SetPmap(k, t, v))
           /\ \A v \in SUBSET EventBits : KInv(SetPending(k, t, v))
  <1>1. k \in KStates /\ k.halt # "assert_recipient"
    BY DEF KInv
  <1>2. ASSUME NEW v \in RegisterResults PROVE KInv(SetEax(k, t, v))
    <2> DEFINE f == [k.eax EXCEPT ![t] = v]
               k1 == [k EXCEPT !.eax = f]
    <2>1. f \in [Tids -> RegisterResults] /\ k1 = SetEax(k, t, v)
      BY <1>1, Zenon DEF KStates, SetEax
    <2> HIDE DEF f
    <2>2. k1 \in KStates /\ SameCore(k, k1) /\ k1.halt = k.halt
      BY <1>1, <2>1, Zenon DEF KStates, SameCore
    <2> HIDE DEF k1
    <2>3. QED
      BY <1>1, <2>1, <2>2, Touch
  <1>3. ASSUME NEW v \in Buffers PROVE KInv(SetEbx(k, t, v))
    <2> DEFINE f == [k.ebx EXCEPT ![t] = v]
               k1 == [k EXCEPT !.ebx = f]
    <2>1. f \in [Tids -> Buffers] /\ k1 = SetEbx(k, t, v)
      BY <1>1, Zenon DEF KStates, SetEbx
    <2> HIDE DEF f
    <2>2. k1 \in KStates /\ SameCore(k, k1) /\ k1.halt = k.halt
      BY <1>1, <2>1, Zenon DEF KStates, SameCore
    <2> HIDE DEF k1
    <2>3. QED
      BY <1>1, <2>1, <2>2, Touch
  <1>4. ASSUME NEW v \in 0..1 PROVE KInv(SetEdi(k, t, v))
    <2> DEFINE f == [k.edi EXCEPT ![t] = v]
               k1 == [k EXCEPT !.edi = f]
    <2>1. f \in [Tids -> 0..1] /\ k1 = SetEdi(k, t, v)
      BY <1>1, Zenon DEF KStates, SetEdi
    <2> HIDE DEF f
    <2>2. k1 \in KStates /\ SameCore(k, k1) /\ k1.halt = k.halt
      BY <1>1, <2>1, Zenon DEF KStates, SameCore
    <2> HIDE DEF k1
    <2>3. QED
      BY <1>1, <2>1, <2>2, Touch
  <1>5. ASSUME NEW v \in BOOLEAN PROVE KInv(SetWfk(k, t, v))
    <2> DEFINE f == [k.wait_for_kernel_msg EXCEPT ![t] = v]
               k1 == [k EXCEPT !.wait_for_kernel_msg = f]
    <2>1. f \in [Tids -> BOOLEAN] /\ k1 = SetWfk(k, t, v)
      BY <1>1, Zenon DEF KStates, SetWfk
    <2> HIDE DEF f
    <2>2. k1 \in KStates /\ SameCore(k, k1) /\ k1.halt = k.halt
      BY <1>1, <2>1, Zenon DEF KStates, SameCore
    <2> HIDE DEF k1
    <2>3. QED
      BY <1>1, <2>1, <2>2, Touch
  <1>6. ASSUME NEW v \in Pmaps PROVE KInv(SetPmap(k, t, v))
    <2> DEFINE f == [k.root_pmap EXCEPT ![t] = v]
               k1 == [k EXCEPT !.root_pmap = f]
    <2>1. f \in [Tids -> Pmaps] /\ k1 = SetPmap(k, t, v)
      BY <1>1, Zenon DEF KStates, SetPmap
    <2> HIDE DEF f
    <2>2. k1 \in KStates /\ SameCore(k, k1) /\ k1.halt = k.halt
      BY <1>1, <2>1, Zenon DEF KStates, SameCore
    <2> HIDE DEF k1
    <2>3. QED
      BY <1>1, <2>1, <2>2, Touch
  <1>7. ASSUME NEW v \in SUBSET EventBits PROVE KInv(SetPending(k, t, v))
    <2> DEFINE f == [k.pending_events EXCEPT ![t] = v]
               k1 == [k EXCEPT !.pending_events = f]
    <2>1. f \in [Tids -> SUBSET EventBits] /\ k1 = SetPending(k, t, v)
      BY <1>1, Zenon DEF KStates, SetPending
    <2> HIDE DEF f
    <2>2. k1 \in KStates /\ SameCore(k, k1) /\ k1.halt = k.halt
      BY <1>1, <2>1, Zenon DEF KStates, SameCore
    <2> HIDE DEF k1
    <2>3. QED
      BY <1>1, <2>1, <2>2, Touch
  <1>8. QED
    BY <1>2, <1>3, <1>4, <1>5, <1>6, <1>7
=============================================================================
