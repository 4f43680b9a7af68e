---------------------------- MODULE KernelProofs ----------------------------
(***************************************************************************)
(* The lists of the kernel match the states of the threads, for any number *)
(* of threads and of IRQs and any workload.                                *)
(*                                                                         *)
(* Each handler keeps the invariant KInv of ThreadProofs; here KInv(State) *)
(* is shown to be an invariant of Spec, and to imply the properties of     *)
(* module Kernel.                                                          *)
(***************************************************************************)
EXTENDS Kernel, MessageProofs

\* The TF_STATUS part of handle_sys_update_tcb() keeps the invariant, although
\* it assigns the status after thread_start() and enters no list.
LEMMA UpdateStatusInv ==
    ASSUME NEW k, KInv(k), NEW t \in Tids, NEW status \in {"READY", "PAUSED"}
    PROVE  KInv(update_status(k, t, status))
  <1> DEFINE k1 == thread_remove_from_list(k, t)
             k2 == thread_start(k1, t)
  <1>1. Loose(k1, t) /\ k1.thread_state = k.thread_state
    BY RemoveLoose DEF Unmoved
  <1>2. CASE status = "PAUSED" \/ k2 = k1
    <2>1. update_status(k, t, status) = Assigned(k1, t, status)
      BY <1>2 DEF update_status, Assigned
    <2> HIDE DEF k1
    <2>2. QED
      BY <1>1, <2>1, AssignInv
  <1>3. CASE status = "READY" /\ k2 # k1
    <2> HIDE DEF k1
    <2>1. k1.thread_state[t] # "RUNNING"
      BY <1>3 DEF thread_start
    <2>2. KInv(k1)
      BY <1>1, <2>1, LooseInv
    <2>3. k2 = make_ready(thread_remove_from_list(k1, t), t)
      BY <1>3 DEF thread_start
    <2>4. Loose(thread_remove_from_list(k1, t), t)
      BY <2>2, RemoveLoose
    <2> DEFINE k0 == thread_remove_from_list(k1, t)
    <2> HIDE DEF k0
    <2>5. KInv(k2) /\ k2.thread_state[t] = "READY"
      <3>1. KInv(k2) /\ k2.thread_state = [k0.thread_state EXCEPT ![t] = "READY"]
        BY <2>3, <2>4, MakeReadyInv DEF k0
      <3>2. k0.thread_state \in [Tids -> ThreadStates]
        BY <2>4 DEF k0, Loose, KStates
      <3>3. QED
        BY <3>1, <3>2
    <2>6. update_status(k, t, status) = [k2 EXCEPT !.thread_state[t] = "READY"]
      BY <1>3 DEF update_status, k1
    <2> DEFINE k3 == [k2 EXCEPT !.thread_state[t] = "READY"]
    <2> HIDE DEF k2
    <2>7. k3 \in KStates /\ SameCore(k2, k3) /\ k3.halt = k2.halt
      <3>1. k2 \in KStates /\ k2.thread_state \in [Tids -> ThreadStates]
        BY <2>5, Zenon DEF KInv, KStates
      <3>2. [k2.thread_state EXCEPT ![t] = "READY"] = k2.thread_state
        BY <2>5, <3>1
      <3>3. k3 = [k2 EXCEPT !.thread_state = k2.thread_state]
        BY <3>2
      <3>4. QED
        BY <3>1, <3>3 DEF KStates, SameCore
    <2> HIDE DEF k3
    <2>8. KInv(k3)
      BY <2>5, <2>7, Touch DEF KInv
    <2>9. QED
      BY <2>6, <2>8 DEF k3
  <1>4. QED
    BY <1>2, <1>3

\* handle_sys_update_tcb()
LEMMA UpdateTcbInv ==
    ASSUME NEW k, KInv(k), NEW tid \in AnyTid,
           NEW status \in {"KEEP", "READY", "PAUSED", "RUNNING"},
           NEW pmap \in Pmaps \cup {"KEEP"}, NEW initialized, NEW regs
    PROVE  KInv(handle_sys_update_tcb(k, tid, status, pmap, initialized, regs))
  <1> DEFINE t == Target(k, tid)
             k1 == IF status = "KEEP" THEN k ELSE update_status(k, t, status)
             k2 == IF pmap = "KEEP" THEN k1 ELSE SetPmap(k1, t, pmap)
             k3 == SetEdi(SetEbx(SetEax(k2, t, "ZERO"), t, "JUNK"), t, 1)
             h == handle_sys_update_tcb(k, tid, status, pmap, initialized, regs)
  <1>1. \/ h = k
        \/ t # NULL_TID /\ status = "READY" /\ h = thread_remove_from_list(k, t)
             /\ k.thread_state[t] \in {"INACTIVE", "ZOMBIE", "SLEEPING"}
        \/ t # NULL_TID /\ status \in {"KEEP", "READY", "PAUSED"}
             /\ (h = k2 \/ h = thread_switch_context(k3, t))
    <2> DEFINE s2 == IF pmap = "KEEP" THEN k1 ELSE [k1 EXCEPT !.root_pmap[t] = pmap]
               s3 == [s2 EXCEPT !.eax[t] = "ZERO", !.ebx[t] = "JUNK", !.edi[t] = 1]
    <2>1. h = IF t = NULL_TID THEN k
              ELSE IF k.thread_state[t] = "INACTIVE" THEN k
              ELSE IF status \notin {"KEEP", "READY", "PAUSED"} THEN k
              ELSE IF status # "KEEP" /\ ~IsRemovable(k, t) THEN k
              ELSE IF status = "READY" /\ IsStartError(k, t) THEN thread_remove_from_list(k, t)
              ELSE IF pmap # "KEEP" /\ ~initialized THEN s2
              ELSE IF regs THEN thread_switch_context(s3, t)
              ELSE s2
      BY Zenon DEF handle_sys_update_tcb
    <2>2. s2 = k2
      BY DEF SetPmap
    <2>3. s3 = k3
      <3> HIDE DEF k2, t, s2
      <3>1. QED
        BY <2>2 DEF SetEax, SetEbx, SetEdi
    <2> HIDE DEF h, t, k2, k3, s2, s3
    <2>4. QED
      BY <2>1, <2>2, <2>3 DEF IsStartError
  <1>2. CASE t = NULL_TID
    <2> HIDE DEF k2, k3, h
    <2>1. QED
      BY <1>1, <1>2 DEF h
  <1>3. CASE t # NULL_TID /\ k.thread_state[t] \in {"INACTIVE", "ZOMBIE", "SLEEPING"}
                          /\ h = thread_remove_from_list(k, t)
    <2>1. t \in Tids
      BY <1>3 DEF Target, AnyTid, KInv, KStates
    <2> DEFINE r == thread_remove_from_list(k, t)
    <2> HIDE DEF t
    <2>2. Loose(r, t) /\ r.thread_state[t] # "RUNNING"
      BY <1>3, <2>1, RemoveLoose DEF Unmoved
    <2> HIDE DEF r
    <2>3. KInv(r)
      BY <2>1, <2>2, LooseInv
    <2>4. QED
      BY <1>3, <2>3 DEF r
  <1>4. CASE t # NULL_TID /\ status \in {"KEEP", "READY", "PAUSED"}
               /\ (h = k2 \/ h = thread_switch_context(k3, t))
    <2>1. t \in Tids
      BY <1>4 DEF Target, AnyTid, KInv, KStates
    <2> HIDE DEF t
    <2>2. KInv(k1)
      <3>1. CASE status = "KEEP"
        BY <3>1
      <3>2. CASE status # "KEEP"
        BY <1>4, <2>1, <3>2, UpdateStatusInv
      <3>3. QED
        BY <3>1, <3>2
    <2> HIDE DEF k1
    <2>3. KInv(k2)
      BY <2>1, <2>2, SetInv
    <2> HIDE DEF k2
    <2>4. KInv(k3)
      <3>1. 1 \in 0..1
        OBVIOUS
      <3>2. QED
        BY <2>1, <2>3, <3>1, Literals, SetInv
    <2> HIDE DEF k3, h
    <2>5. KInv(thread_switch_context(k3, t))
      BY <2>4, SwitchInv
    <2>6. QED
      BY <1>4, <2>3, <2>5 DEF h
  <1>5. QED
    <2> HIDE DEF t, k2, k3, h
    <2>1. CASE h = k
      BY <2>1 DEF h
    <2>2. QED
      BY <1>1, <1>2, <1>3, <1>4, <2>1

\* sys_sleep()
LEMMA SleepInv ==
    ASSUME NEW k, KInv(k), NEW duration
    PROVE  KInv(handle_sys_sleep(k, duration))
  <1> DEFINE c == k.running_thread
             k1 == schedule(k)
             h == handle_sys_sleep(k, duration)
  <1>1. c # NULL_TID => c \in Tids
    BY DEF KInv, KStates
  <1>2. KInv(k1)
    BY ScheduleInv
  <1>3. \/ h = k \/ h = k1 \/ h = thread_switch_context(k1, k1.running_thread)
        \/ h = Halt(k, "wild")
        \/ c # NULL_TID /\ h = switch(thread_pause(k, c))
    BY Zenon DEF handle_sys_sleep
  <1> HIDE DEF k1, h, c
  <1>4. KInv(thread_switch_context(k1, k1.running_thread))
    BY <1>2, SwitchInv
  <1>5. KInv(Halt(k, "wild"))
    BY Literals, HaltInv
  <1>6. c # NULL_TID => KInv(switch(thread_pause(k, c)))
    BY <1>1, PauseInv, SwitchInv
  <1>7. QED
    BY <1>2, <1>3, <1>4, <1>5, <1>6 DEF h

\* handle_sys_send() and handle_sys_receive()
LEMMA MessageCallsInv ==
    ASSUME NEW k, KInv(k), NEW tid \in AnyTid, NEW flags, NEW buffer \in Buffers,
           NEW length \in 0..1, NEW ok
    PROVE  /\ KInv(handle_sys_send(k, tid, flags, buffer, length, ok))
           /\ KInv(handle_sys_receive(k, tid, flags, buffer, length, ok))
  <1> DEFINE c == k.running_thread
  <1>1. c # NULL_TID => c \in Tids
    BY DEF KInv, KStates
  <1>2. KInv(Halt(k, "wild"))
    BY Literals, HaltInv
  <1>3. CASE c = NULL_TID
    BY <1>2, <1>3 DEF handle_sys_send, handle_sys_receive
  <1>4. CASE c # NULL_TID
    <2>1. /\ handle_sys_send(k, tid, flags, buffer, length, ok)
               = send_message(k, c, tid, flags, buffer, length, ok).k
          /\ handle_sys_receive(k, tid, flags, buffer, length, ok)
               = receive_message(k, c, tid, flags, buffer, length, ok).k
      BY <1>4, Zenon DEF handle_sys_send, handle_sys_receive
    <2> HIDE DEF c
    <2>2. tid \in Tids \cup {NULL_TID} /\ c \in Tids
      BY <1>1, <1>4 DEF AnyTid
    <2>3. /\ KInv(send_message(k, c, tid, flags, buffer, length, ok).k)
          /\ KInv(receive_message(k, c, tid, flags, buffer, length, ok).k)
      BY <2>2, SendInv, ReceiveInv
    <2>4. QED
      BY <2>1, <2>3
  <1>5. QED
    BY <1>3, <1>4

\* The handlers of IRQs may change if they are live and expect their event.
LEMMA TouchHandlers ==
    ASSUME NEW k, KInv(k), NEW k1 \in KStates, Handlers(k1),
           k1.thread_state = k.thread_state, k1.priority = k.priority,
           k1.wait_tid = k.wait_tid, k1.lists = k.lists,
           k1.running_thread = k.running_thread, k1.halt = k.halt
    PROVE  KInv(k1)
  <1>1. \A t : HomeOf(k1, t) = HomeOf(k, t)
    BY SameHome
  <1>2. InPlace(k1)
    BY <1>1 DEF KInv, InPlace
  <1>3. Current(k1, Tids)
    BY DEF KInv, Current
  <1>4. QED
    BY <1>2, <1>3 DEF KInv

\* irq_register(), and so create_int and destroy_int.
LEMMA RegisterInv ==
    ASSUME NEW k, KInv(k), NEW irq
    PROVE  KInv(irq_register(k, irq)) /\ KInv(handle_sys_destroy_int(k, irq))
  <1> DEFINE t == k.running_thread
             h1 == [k.irq_handlers EXCEPT ![irq] = t]
             e1 == [k.event_mask EXCEPT ![t] = @ \cup {irq + 8}]
             p1 == [k.pending_events EXCEPT ![t] = @ \ {irq + 8}]
             k1 == [k EXCEPT !.irq_handlers = h1, !.event_mask = e1, !.pending_events = p1]
             s1 == [k EXCEPT !.irq_handlers[irq] = t,
                             !.event_mask[t] = @ \cup {irq + 8},
                             !.pending_events[t] = @ \ {irq + 8}]
  <1>1. \/ irq_register(k, irq) = k \/ irq_register(k, irq) = Halt(k, "wild")
        \/ irq \in Irqs /\ t # NULL_TID /\ irq_register(k, irq) = s1
    BY Zenon DEF irq_register
  <1>2. KInv(Halt(k, "wild"))
    BY Literals, HaltInv
  <1>3. k \in KStates /\ (t # NULL_TID => t \in Tids) /\ Handlers(k) /\ Current(k, Tids)
    BY DEF KInv, KStates
  <1>4. ASSUME irq \in Irqs, t \in Tids PROVE KInv(s1)
    <2>1. s1 = k1
      BY <1>3 DEF KStates
    <2> HIDE DEF s1
    <2>2. /\ h1 \in [Irqs -> Tids \cup {NULL_TID}]
          /\ h1[irq] = t /\ \A i \in Irqs \ {irq} : h1[i] = k.irq_handlers[i]
      BY <1>3, <1>4 DEF KStates
    <2>3. /\ e1 \in [Tids -> SUBSET EventBits]
          /\ irq + 8 \in e1[t] /\ \A u \in Tids : k.event_mask[u] \subseteq e1[u]
      <3>1. irq + 8 \in EventBits /\ k.event_mask \in [Tids -> SUBSET EventBits]
        BY <1>3, <1>4 DEF EventBits, KStates
      <3> HIDE DEF t
      <3>2. QED
        BY <1>4, <3>1
    <2>4. p1 \in [Tids -> SUBSET EventBits]
      BY <1>3, <1>4 DEF KStates
    <2>5. k.thread_state[t] = "RUNNING"
      BY <1>3, <1>4 DEF Current
    <2> HIDE DEF h1, e1, p1
    <2>6. /\ k1 \in KStates
          /\ k1.thread_state = k.thread_state /\ k1.priority = k.priority
          /\ k1.wait_tid = k.wait_tid /\ k1.lists = k.lists
          /\ k1.running_thread = k.running_thread /\ k1.halt = k.halt
          /\ k1.irq_handlers = h1 /\ k1.event_mask = e1
      BY <1>3, <2>2, <2>3, <2>4, Zenon DEF KStates
    <2> HIDE DEF k1, t
    <2>7. Handlers(k1)
      <3>1. ASSUME NEW i \in Irqs, h1[i] # NULL_TID
            PROVE  k.thread_state[h1[i]] # "INACTIVE" /\ i + 8 \in e1[h1[i]]
        <4>1. CASE i = irq
          BY <2>2, <2>3, <2>5, <4>1
        <4>2. CASE i # irq
          <5>1. /\ h1[i] = k.irq_handlers[i] /\ h1[i] \in Tids
                /\ k.thread_state[h1[i]] # "INACTIVE"
                /\ i + 8 \in k.event_mask[h1[i]]
            BY <1>3, <2>2, <3>1, <4>2 DEF Handlers
          <5>2. QED
            BY <2>3, <5>1
        <4>3. QED
          BY <4>1, <4>2
      <3>2. QED
        BY <2>6, <3>1 DEF Handlers
    <2>8. KInv(k1)
      BY <2>6, <2>7, TouchHandlers
    <2>9. QED
      BY <2>1, <2>8
  <1> HIDE DEF s1, t
  <1>5. KInv(irq_register(k, irq))
    BY <1>1, <1>2, <1>3, <1>4
  <1>6. QED
    BY <1>5 DEF handle_sys_destroy_int

\* handle_sys_update_int() and handle_irq()
LEMMA EventsInv ==
    ASSUME NEW k, KInv(k)
    PROVE  KInv(handle_irq(k)) /\ \A mask : KInv(handle_sys_update_int(k, mask))
  <1>1. /\ k \in KStates
        /\ k.running_thread # NULL_TID => k.running_thread \in Tids
        /\ 0 \in Irqs /\ 0 \in EventBits
    BY ThreadAssumption DEF KInv, KStates, Irqs, EventBits
  <1>2. KInv(handle_irq(k))
    <2> DEFINE t == k.irq_handlers[0]
               k1 == SetPending(k, t, k.pending_events[t] \cup {0})
    <2>1. \/ handle_irq(k) = k
          \/ t # NULL_TID /\ handle_irq(k) = thread_wakeup(k1, t)
      BY Zenon DEF handle_irq, SetPending
    <2>2. ASSUME t # NULL_TID PROVE KInv(thread_wakeup(k1, t))
      <3>1. t \in Tids /\ k.pending_events \in [Tids -> SUBSET EventBits]
        BY <1>1, <2>2 DEF KStates
      <3> HIDE DEF t
      <3>2. k.pending_events[t] \cup {0} \in SUBSET EventBits
        BY <1>1, <3>1
      <3>3. KInv(k1)
        BY <3>1, <3>2, SetInv
      <3> HIDE DEF k1
      <3>4. QED
        BY <3>1, <3>3, StartInv
    <2> HIDE DEF t, k1
    <2>3. QED
      BY <2>1, <2>2
  <1>3. ASSUME NEW mask PROVE KInv(handle_sys_update_int(k, mask))
    <2> DEFINE t == k.running_thread
               v == k.pending_events[t] \ (k.event_mask[t] \cap mask)
    <2>1. \/ handle_sys_update_int(k, mask) = Halt(k, "wild")
          \/ t # NULL_TID /\ handle_sys_update_int(k, mask) = SetPending(k, t, v)
      BY Zenon DEF handle_sys_update_int, SetPending
    <2>2. KInv(Halt(k, "wild"))
      BY Literals, HaltInv
    <2>3. ASSUME t # NULL_TID PROVE KInv(SetPending(k, t, v))
      <3>1. t \in Tids /\ v \in SUBSET EventBits
        BY <1>1, <2>3 DEF KStates
      <3> HIDE DEF t, v
      <3>2. QED
        BY <3>1, SetInv
    <2> HIDE DEF t, v
    <2>4. QED
      BY <2>1, <2>2, <2>3
  <1>4. QED
    BY <1>2, <1>3

\* handle_cpu_exception()
LEMMA ExceptionInv ==
    ASSUME NEW k, KInv(k), NEW is_exit, NEW ok
    PROVE  KInv(handle_cpu_exception(k, is_exit, ok))
  <1> DEFINE c == k.running_thread
             sent == send_message(k, c, NULL_TID, {"MSG_KERNEL"}, "JUNK", 1, ok)
             h == handle_cpu_exception(k, is_exit, ok)
  <1>1. \/ h = Halt(k, "stopped")
        \/ c # NULL_TID /\ \/ h = sent.k
                           \/ h = Halt(thread_release(sent.k, c), "stopped")
                           \/ h = Halt(thread_release(k, c), "stopped")
    BY Zenon DEF handle_cpu_exception
  <1>2. c # NULL_TID => c \in Tids
    BY DEF KInv, KStates
  <1>3. "stopped" \in Halts \ {"assert_recipient"} /\ "JUNK" \in Buffers
    BY Literals
  <1>4. c # NULL_TID => KInv(sent.k)
    <2>1. 1 \in 0..1
      OBVIOUS
    <2> HIDE DEF c
    <2>2. QED
      BY <1>2, <1>3, <2>1, SendInv
  <1> HIDE DEF sent, c, h
  <1>5. c # NULL_TID => KInv(thread_release(sent.k, c)) /\ KInv(thread_release(k, c))
    BY <1>2, <1>4, ReleaseInv
  <1>6. KInv(Halt(k, "stopped"))
    BY <1>3, HaltInv
  <1>7. c # NULL_TID => /\ KInv(Halt(thread_release(sent.k, c), "stopped"))
                        /\ KInv(Halt(thread_release(k, c), "stopped"))
    BY <1>3, <1>5, HaltInv
  <1>8. QED
    BY <1>1, <1>4, <1>6, <1>7 DEF h

(***************************************************************************)
(* The specification                                                       *)
(***************************************************************************)
\* KInv holds of the state init() leaves.
LEMMA InitInv ==
    Init => KInv(State)
  <1> SUFFICES ASSUME Init PROVE KInv(State)
    OBVIOUS
  <1>1. InitTid \in Tids /\ NULL_TID \notin Tids
    BY ThreadAssumption DEF InitTid, Tids, NULL_TID
  <1>2. State \in KStates
    <2>1. TypeOK
      <3>1. /\ {"RUNNING", "INACTIVE"} \subseteq ThreadStates
            /\ {0, NORMAL_PRIORITY} \subseteq Priorities
            /\ "init" \in Pmaps /\ "ZERO" \in RegisterResults
            /\ "NULL" \in Buffers /\ "no" \in Halts
        BY DEF ThreadStates, NORMAL_PRIORITY, Priorities, MIN_PRIORITY, MAX_PRIORITY, Pmaps,
               RegisterResults, Buffers, Halts
      <3>2. thread_state \in [Tids -> ThreadStates] /\ priority \in [Tids -> Priorities]
        BY <3>1 DEF Init
      <3>3. /\ wait_tid \in [Tids -> Tids \cup {NULL_TID, WildTid}]
            /\ wait_for_kernel_msg \in [Tids -> BOOLEAN]
            /\ root_pmap \in [Tids -> Pmaps]
        BY <3>1 DEF Init
      <3>4. /\ event_mask \in [Tids -> SUBSET EventBits]
            /\ pending_events \in [Tids -> SUBSET EventBits]
            /\ eax \in [Tids -> RegisterResults]
        BY <3>1 DEF Init
      <3>5. /\ ebx \in [Tids -> Buffers] /\ edi \in [Tids -> 0..1]
        BY <3>1 DEF Init
      <3>6. /\ lists \in [ListNames -> Seq(Tids)]
            /\ irq_handlers \in [Irqs -> Tids \cup {NULL_TID}]
        BY DEF Init
      <3>7. running_thread \in Tids \cup {NULL_TID} /\ last_tid \in Tids /\ halt \in Halts
        BY <1>1, <3>1 DEF Init
      <3>8. QED
        BY <3>2, <3>3, <3>4, <3>5, <3>6, <3>7 DEF TypeOK
    <2>2. QED
      BY <2>1 DEF TypeOK, State, KStates
  <1>3. InPlace(State)
    <2>1. State.lists = [l \in ListNames |-> <<>>]
      BY DEF State, Init
    <2>2. Queues(State.lists, ListNames, Tids) /\ \A l \in ListNames : Members(State.lists, l) = {}
      BY <2>1 DEF Queues, NoRepeats, Members, ToSet
    <2>3. QED
      BY <2>2 DEF InPlace
  <1>4. Current(State, Tids)
    BY <1>1 DEF State, Init, Current
  <1>5. Handlers(State) /\ State.halt # "assert_recipient"
    BY DEF State, Init, Handlers
  <1>6. QED
    BY <1>2, <1>3, <1>4, <1>5 DEF KInv

\* A handler that leaves a state with KInv makes it hold in the next state.
LEMMA BecomesInv ==
    ASSUME NEW k, KInv(k), Becomes(k)
    PROVE  KInv(State)'
  <1>1. k \in KStates
    BY DEF KInv
  <1>2. State' = k
    BY <1>1 DEF Becomes, State, KStates
  <1>3. QED
    BY <1>2

\* Every step keeps the invariant.
LEMMA NextInv ==
    KInv(State) /\ [Next]_vars => KInv(State)'
  <1> SUFFICES ASSUME KInv(State), [Next]_vars PROVE KInv(State)'
    OBVIOUS
  <1> DEFINE S == State
  <1> HIDE DEF S
  <1>1. KInv(S)
    BY DEF S
  <1>2. /\ PmapArgs \subseteq Pmaps /\ LengthArgs \subseteq 0..1
        /\ {"NULL", "SEND", "RECV"} \subseteq Buffers
    BY WorkloadAssumption DEF Buffers
  <1>3. CASE SysCreateTcb
    <2>1. \A pmap \in PmapArgs, i \in Outcomes : KInv(handle_sys_create_tcb(S, pmap, i))
      BY <1>1, <1>2, CreateInv DEF handle_sys_create_tcb
    <2>2. PICK pmap \in PmapArgs, i \in Outcomes : Becomes(handle_sys_create_tcb(S, pmap, i))
      BY <1>3 DEF SysCreateTcb, S
    <2>3. QED
      BY <2>1, <2>2, BecomesInv
  <1>4. CASE SysDestroyTcb
    <2>1. \A tid \in AnyTid : KInv(handle_sys_destroy_tcb(S, tid))
      BY <1>1, ReleaseInv DEF handle_sys_destroy_tcb, AnyTid
    <2>2. PICK tid \in AnyTid : Becomes(handle_sys_destroy_tcb(S, tid))
      BY <1>4 DEF SysDestroyTcb, S
    <2>3. QED
      BY <2>1, <2>2, BecomesInv
  <1>5. CASE SysUpdateTcb
    <2>1. PICK tid \in AnyTid, status \in {"KEEP", "READY", "PAUSED", "RUNNING"},
               pmap \in PmapArgs \cup {"KEEP"}, i \in Outcomes, regs \in BOOLEAN :
               Becomes(handle_sys_update_tcb(S, tid, status, pmap, i, regs))
      BY <1>5 DEF SysUpdateTcb, S
    <2>2. pmap \in Pmaps \cup {"KEEP"}
      BY <1>2
    <2>3. KInv(handle_sys_update_tcb(S, tid, status, pmap, i, regs))
      BY <1>1, <2>2, UpdateTcbInv
    <2>4. QED
      BY <2>1, <2>3, BecomesInv
  <1>6. CASE SysSleep
    <2>1. PICK d : Becomes(handle_sys_sleep(S, d))
      BY <1>6 DEF SysSleep, S
    <2>2. QED
      BY <1>1, <2>1, SleepInv, BecomesInv
  <1>7. CASE SysSend
    <2>1. PICK tid \in AnyTid, flags \in FlagArgs, buffer \in {"NULL", "SEND"},
               length \in LengthArgs, ok \in Outcomes :
               Becomes(handle_sys_send(S, tid, flags, buffer, length, ok))
      BY <1>7 DEF SysSend, S
    <2>2. buffer \in Buffers /\ length \in 0..1
      BY <1>2
    <2>3. KInv(handle_sys_send(S, tid, flags, buffer, length, ok))
      BY <1>1, <2>2, MessageCallsInv
    <2>4. QED
      BY <2>1, <2>3, BecomesInv
  <1>8. CASE SysReceive
    <2>1. PICK tid \in AnyTid, flags \in FlagArgs, buffer \in {"NULL", "RECV"},
               length \in LengthArgs, ok \in Outcomes :
               Becomes(handle_sys_receive(S, tid, flags, buffer, length, ok))
      BY <1>8 DEF SysReceive, S
    <2>2. buffer \in Buffers /\ length \in 0..1
      BY <1>2
    <2>3. KInv(handle_sys_receive(S, tid, flags, buffer, length, ok))
      BY <1>1, <2>2, MessageCallsInv
    <2>4. QED
      BY <2>1, <2>3, BecomesInv
  <1>9. CASE SysCreateInt
    <2>1. PICK irq : Becomes(irq_register(S, irq))
      BY <1>9 DEF SysCreateInt, S
    <2>2. QED
      BY <1>1, <2>1, RegisterInv, BecomesInv
  <1>10. CASE SysUpdateInt
    <2>1. PICK mask : Becomes(handle_sys_update_int(S, mask))
      BY <1>10 DEF SysUpdateInt, S
    <2>2. QED
      BY <1>1, <2>1, EventsInv, BecomesInv
  <1>11. CASE SysDestroyInt
    <2>1. PICK irq : Becomes(handle_sys_destroy_int(S, irq))
      BY <1>11 DEF SysDestroyInt, S
    <2>2. QED
      BY <1>1, <2>1, RegisterInv, BecomesInv
  <1>12. CASE HandleIrq
    BY <1>1, <1>12, EventsInv, BecomesInv DEF HandleIrq, S
  <1>13. CASE HandleCpuException
    <2>1. PICK e, ok : Becomes(handle_cpu_exception(S, e, ok))
      BY <1>13 DEF HandleCpuException, S
    <2>2. QED
      BY <1>1, <2>1, ExceptionInv, BecomesInv
  <1>14. CASE SysWildTid
    <2>1. Becomes(S) \/ Becomes(Halt(S, "wild"))
      BY <1>14 DEF SysWildTid, S
    <2>2. KInv(Halt(S, "wild"))
      BY <1>1, Literals, HaltInv
    <2>3. QED
      BY <1>1, <2>1, <2>2, BecomesInv
  <1>15. CASE UNCHANGED vars
    <2>1. State' = State
      BY <1>15 DEF vars, State
    <2>2. QED
      BY <2>1
  <1>16. QED
    BY <1>3, <1>4, <1>5, <1>6, <1>7, <1>8, <1>9, <1>10, <1>11, <1>12, <1>13, <1>14, <1>15
       DEF Next

\* What KInv says in terms of the variables.
LEMMA InvImplies ==
    KInv(State) => /\ TypeOK /\ QueuesMatchStates /\ RunningIsCurrent
                   /\ IrqHandlersLive /\ RecipientAssertHolds
  <1> SUFFICES ASSUME KInv(State)
               PROVE  /\ TypeOK /\ QueuesMatchStates /\ RunningIsCurrent
                      /\ IrqHandlersLive /\ RecipientAssertHolds
    OBVIOUS
  <1>1. TypeOK
    BY DEF KInv, KStates, State, TypeOK
  <1>2. QueuesMatchStates
    <2>1. State.lists = lists /\ Queues(lists, ListNames, Tids)
      BY DEF KInv, InPlace, State
    <2>2. \A t : HomeOf(State, t) = Home(t)
      BY DEF HomeOf, Home, State
    <2>3. ASSUME NEW l \in ListNames, NEW i \in DOMAIN lists[l]
          PROVE  Home(lists[l][i]) = l
      <3>1. lists[l] \in Seq(Tids)
        BY <2>1 DEF Queues
      <3>2. lists[l][i] \in Members(lists, l)
        BY <2>3, <3>1, ElementIndex DEF Members
      <3>3. QED
        BY <2>1, <2>2, <3>2 DEF KInv, InPlace
    <2>4. QED
      BY <2>1, <2>3 DEF QueuesMatchStates, Queues, NoRepeats
  <1>3. RunningIsCurrent
    BY DEF KInv, Current, State, RunningIsCurrent
  <1>4. IrqHandlersLive /\ RecipientAssertHolds
    BY DEF KInv, Handlers, State, IrqHandlersLive, RecipientAssertHolds
  <1>5. QED
    BY <1>1, <1>2, <1>3, <1>4

\* For any number of threads and IRQs, and whatever the threads ask for, every
\* list of the kernel holds only threads whose state, priority and wait_tid
\* say that they belong there, each of them once.
THEOREM ListsAlwaysMatch == Spec => [](TypeOK /\ QueuesMatchStates)
  BY InitInv, NextInv, InvImplies, PTL DEF Spec

\* A thread is in state RUNNING exactly if it is the running_thread of
\* processors[0], through every schedule(), pause, release and update.
THEOREM RunningAlwaysCurrent == Spec => []RunningIsCurrent
  BY InitInv, NextInv, InvImplies, PTL DEF Spec

\* irq_handlers points to live threads with the event of the IRQ in their
\* event_mask: no release or creation of a thread leaves a dangling handler.
THEOREM HandlersAlwaysLive == Spec => []IrqHandlersLive
  BY InitInv, NextInv, InvImplies, PTL DEF Spec

\* The KASSERT of send_message() on a recipient it has dequeued never fails:
\* whoever is in a receiver_wait_queue is in state WAIT_FOR_SEND.
THEOREM RecipientAssertNeverFails == Spec => []RecipientAssertHolds
  BY InitInv, NextInv, InvImplies, PTL DEF Spec
=============================================================================
