------------------------------- MODULE Kernel -------------------------------
(***************************************************************************)
(* The kernel as the threads see it: one action per system call of         *)
(* kernel/syscall.c that changes a thread, one for an IRQ and one for a    *)
(* processor exception.  A handler runs with interrupts disabled on the    *)
(* only processor; the thread that calls is running_thread.                *)
(*                                                                         *)
(* running_thread = NULL_TID is reachable: a thread that destroys itself,  *)
(* or changes its own status, goes on running in user mode while the       *)
(* kernel has forgotten it.  What such a caller does to a handler that     *)
(* dereferences thread_get_current() is Halt(k, "wild").                   *)
(*                                                                         *)
(* Where a thread goes on (eip, user_esp) is left out: send and receive    *)
(* save it, sys_sleep() does not.                                          *)
(***************************************************************************)
EXTENDS Messages

\* What the threads ask of the kernel; a run may leave some of it out.
CONSTANTS
    Calls,         \* the handlers that are invoked
    FlagArgs,      \* the sets of message flags
    LengthArgs,    \* the message lengths
    PmapArgs,      \* the address spaces given to threads
    Outcomes       \* does what may fail outside of the model succeed?

AllCalls == {"create_tcb", "start", "destroy_tcb", "update_tcb", "sleep", "send",
             "receive", "wild_tid", "create_int", "update_int", "destroy_int", "irq",
             "exception"}

ASSUME WorkloadAssumption ==
    /\ Calls \subseteq AllCalls
    /\ FlagArgs \subseteq SUBSET MessageFlags
    /\ LengthArgs \subseteq 0..1
    /\ PmapArgs \subseteq Pmaps
    /\ Outcomes \subseteq BOOLEAN

VARIABLES thread_state, priority, wait_tid, wait_for_kernel_msg, root_pmap,
          event_mask, pending_events, eax, ebx, edi, lists,
          running_thread, irq_handlers, last_tid, halt

vars == <<thread_state, priority, wait_tid, wait_for_kernel_msg, root_pmap,
          event_mask, pending_events, eax, ebx, edi, lists,
          running_thread, irq_handlers, last_tid, halt>>

\* The kernel's state as the functions of Threads and Messages take it.
State ==
    [thread_state |-> thread_state, priority |-> priority, wait_tid |-> wait_tid,
     wait_for_kernel_msg |-> wait_for_kernel_msg, root_pmap |-> root_pmap,
     event_mask |-> event_mask, pending_events |-> pending_events,
     eax |-> eax, ebx |-> ebx, edi |-> edi,
     lists |-> lists, running_thread |-> running_thread,
     irq_handlers |-> irq_handlers, last_tid |-> last_tid, halt |-> halt]

Becomes(k) ==
    /\ thread_state' = k.thread_state
    /\ priority' = k.priority
    /\ wait_tid' = k.wait_tid
    /\ wait_for_kernel_msg' = k.wait_for_kernel_msg
    /\ root_pmap' = k.root_pmap
    /\ event_mask' = k.event_mask
    /\ pending_events' = k.pending_events
    /\ eax' = k.eax /\ ebx' = k.ebx /\ edi' = k.edi
    /\ lists' = k.lists
    /\ running_thread' = k.running_thread
    /\ irq_handlers' = k.irq_handlers
    /\ last_tid' = k.last_tid
    /\ halt' = k.halt

TypeOK ==
    /\ thread_state \in [Tids -> ThreadStates]
    /\ priority \in [Tids -> Priorities]
    /\ wait_tid \in [Tids -> Tids \cup {NULL_TID, WildTid}]
    /\ wait_for_kernel_msg \in [Tids -> BOOLEAN]
    /\ root_pmap \in [Tids -> Pmaps]
    /\ event_mask \in [Tids -> SUBSET EventBits]
    /\ pending_events \in [Tids -> SUBSET EventBits]
    /\ eax \in [Tids -> RegisterResults]
    /\ ebx \in [Tids -> Buffers]
    /\ edi \in [Tids -> 0..1]
    /\ lists \in [ListNames -> Seq(Tids)]
    /\ running_thread \in Tids \cup {NULL_TID}
    /\ irq_handlers \in [Irqs -> Tids \cup {NULL_TID}]
    /\ last_tid \in Tids
    /\ halt \in Halts

\* The state init() leaves: the init server is the only thread and it runs.
InitTid == 1
Init ==
    /\ thread_state = [t \in Tids |-> IF t = InitTid THEN "RUNNING" ELSE "INACTIVE"]
    /\ priority = [t \in Tids |-> IF t = InitTid THEN NORMAL_PRIORITY ELSE 0]
    /\ wait_tid = [t \in Tids |-> NULL_TID]
    /\ wait_for_kernel_msg = [t \in Tids |-> FALSE]
    /\ root_pmap = [t \in Tids |-> "init"]
    /\ event_mask = [t \in Tids |-> {}]
    /\ pending_events = [t \in Tids |-> {}]
    /\ eax = [t \in Tids |-> "ZERO"]
    /\ ebx = [t \in Tids |-> "NULL"]
    /\ edi = [t \in Tids |-> 0]
    /\ lists = [l \in ListNames |-> <<>>]
    /\ running_thread = InitTid
    /\ irq_handlers = [i \in Irqs |-> NULL_TID]
    /\ last_tid = InitTid
    /\ halt = "no"

(***************************************************************************)
(* System calls of kernel/syscall.c                                        *)
(***************************************************************************)
\* The TCB a tid argument of read and update means; 0 is the caller.
Target(k, tid) == IF tid = NULL_TID THEN k.running_thread ELSE tid

\* initialize_root_pmap() fails when the page directory cannot be mapped.
handle_sys_create_tcb(k, pmap, initialized) ==
    IF initialized THEN thread_create(k, pmap) ELSE k

handle_sys_destroy_tcb(k, tid) == IF tid = NULL_TID THEN k ELSE thread_release(k, tid)

\* Variant: any status is accepted and simply assigned.
update_status_Assigned(k, t, status) == [k EXCEPT !.thread_state[t] = status]

\* TF_STATUS: the status is assigned last, over whatever thread_start() made
\* of it.  A thread that was running leaves processors[0] but no list takes
\* it, and neither does a list take the one that becomes PAUSED.
update_status(k, t, status) ==
    LET k1 == thread_remove_from_list(k, t)
        k2 == IF status = "READY" THEN thread_start(k1, t) ELSE k1
    IN  [k2 EXCEPT !.thread_state[t] = status]


\* A field whose flag is not set is "KEEP"; regs is TF_REG_STATE.
handle_sys_update_tcb(k, tid, status, pmap, initialized, regs) ==
    LET t == Target(k, tid)
        k1 == IF status = "KEEP" THEN k ELSE update_status(k, t, status)
        k2 == IF pmap = "KEEP" THEN k1 ELSE [k1 EXCEPT !.root_pmap[t] = pmap]
        k3 == [k2 EXCEPT !.eax[t] = "ZERO", !.ebx[t] = "JUNK", !.edi[t] = 1]
    IN  IF t = NULL_TID THEN k
        ELSE IF k.thread_state[t] = "INACTIVE" THEN k
        ELSE IF status \notin {"KEEP", "READY", "PAUSED"} THEN k
        ELSE IF status # "KEEP" /\ ~IsRemovable(k, t) THEN k
        ELSE IF status = "READY" /\ IsStartError(k, t) THEN thread_remove_from_list(k, t)
        ELSE IF pmap # "KEEP" /\ ~initialized THEN k2
        ELSE IF regs THEN thread_switch_context(k3, t)
        ELSE k2

\* sys_sleep(): duration is "zero", "infinite" or, not implemented, "timed".
handle_sys_sleep(k, duration) ==
    LET current == k.running_thread IN
    CASE duration = "zero" ->
           LET k1 == schedule(k) IN
           IF k1.halt # "no" \/ k1.running_thread = current THEN k1
           ELSE thread_switch_context(k1, k1.running_thread)
      [] duration = "infinite" ->
           IF current = NULL_TID THEN Halt(k, "wild")
           ELSE switch(thread_pause(k, current))
      [] OTHER -> k

handle_sys_send(k, recipient_tid, flags, buffer, length, ok) ==
    LET current == k.running_thread IN
    IF current = NULL_TID THEN Halt(k, "wild")
    ELSE send_message(k, current, recipient_tid, flags, buffer, length, ok).k

handle_sys_receive(k, sender_tid, flags, buffer, length, ok) ==
    LET current == k.running_thread IN
    IF current = NULL_TID THEN Halt(k, "wild")
    ELSE receive_message(k, current, sender_tid, flags, buffer, length, ok).k

(***************************************************************************)
(* IRQs and exceptions: kernel/interrupt.c                                 *)
(***************************************************************************)
\* Variant: the bound is off by one.
irq_register_OffByOne(k, irq) ==
    LET t == k.running_thread IN
    IF irq > NumIrqs \/ t = NULL_TID THEN k
    ELSE [k EXCEPT !.event_mask[t] = @ \cup {irq + 8}]

\* irq_register(thread_get_current(), irq)
irq_register(k, irq) ==
    LET t == k.running_thread IN
    IF irq \notin Irqs THEN k
    ELSE IF k.irq_handlers[irq] # NULL_TID THEN k
    ELSE IF t = NULL_TID THEN Halt(k, "wild")
    ELSE [k EXCEPT !.irq_handlers[irq] = t,
                   !.event_mask[t] = @ \cup {irq + 8},
                   !.pending_events[t] = @ \ {irq + 8}]

\* destroy registers once more where it should unregister.
handle_sys_destroy_int(k, irq) ==
    IF k.running_thread = k.irq_handlers[irq] THEN irq_register(k, irq) ELSE k

handle_sys_update_int(k, int_mask) ==
    LET t == k.running_thread IN
    IF t = NULL_TID THEN Halt(k, "wild")
    ELSE [k EXCEPT !.pending_events[t] = @ \ (k.event_mask[t] \cap int_mask)]

\* Every interrupt is taken for IRQ 0, and its event is the bit of the IRQ's
\* own number and not the one irq_register() put into the mask.
handle_irq(k) ==
    LET irq_num == 0
        t == k.irq_handlers[irq_num]
    IN  IF t = NULL_TID THEN k
        ELSE IF irq_num \notin k.event_mask[t] THEN k
        ELSE thread_wakeup([k EXCEPT !.pending_events[t] = @ \cup {irq_num}], t)

\* ex_handler and pager are never set.  A thread that executes HLT tells its
\* exception handler, which is to say anyone; any other exception, and a
\* message that cannot be sent, release the thread.  The handler has nowhere
\* to return to: the stub that called it ends with the call, and control runs
\* through the stubs behind it until one of them finds no current thread.
handle_cpu_exception(k, is_exit, ok) ==
    LET current == k.running_thread
        sent == send_message(k, current, NULL_TID, {"MSG_KERNEL"}, "JUNK", 1, ok)
    IN  IF current = NULL_TID THEN Halt(k, "stopped")
        ELSE IF is_exit /\ (sent.ret = "SWITCH" \/ sent.k.halt # "no") THEN sent.k
        ELSE Halt(thread_release(IF is_exit THEN sent.k ELSE k, current), "stopped")

(***************************************************************************)
(* Actions                                                                 *)
(***************************************************************************)
AnyTid == Tids \cup {NULL_TID}

Enabled(call) == halt = "no" /\ call \in Calls

SysCreateTcb == \E pmap \in PmapArgs, initialized \in Outcomes :
    Enabled("create_tcb") /\ Becomes(handle_sys_create_tcb(State, pmap, initialized))

SysDestroyTcb == \E tid \in AnyTid :
    Enabled("destroy_tcb") /\ Becomes(handle_sys_destroy_tcb(State, tid))

\* The ordinary use of update: let a new thread run.
IsStart(tid, status, pmap, regs) ==
    /\ tid # NULL_TID
    /\ thread_state[tid] = "PAUSED" /\ status = "READY"
    /\ pmap = "KEEP" /\ ~regs

SysUpdateTcb == \E tid \in AnyTid, status \in {"KEEP", "READY", "PAUSED", "RUNNING"},
                   pmap \in PmapArgs \cup {"KEEP"}, initialized \in Outcomes, regs \in BOOLEAN :
    /\ Enabled("update_tcb") \/ (Enabled("start") /\ IsStart(tid, status, pmap, regs))
    /\ Becomes(handle_sys_update_tcb(State, tid, status, pmap, initialized, regs))

SysSleep == \E duration \in {"zero", "infinite", "timed"} :
    Enabled("sleep") /\ Becomes(handle_sys_sleep(State, duration))

SysSend == \E tid \in AnyTid, flags \in FlagArgs, buffer \in {"NULL", "SEND"},
              length \in LengthArgs, ok \in Outcomes :
    Enabled("send") /\ Becomes(handle_sys_send(State, tid, flags, buffer, length, ok))

SysReceive == \E tid \in AnyTid, flags \in FlagArgs, buffer \in {"NULL", "RECV"},
                 length \in LengthArgs, ok \in Outcomes :
    Enabled("receive") /\ Becomes(handle_sys_receive(State, tid, flags, buffer, length, ok))

SysCreateInt == \E irq \in 0..NumIrqs :
    Enabled("create_int") /\ Becomes(irq_register(State, irq))

\* Bits that are in no event mask make no difference.
SysUpdateInt == \E int_mask \in SUBSET EventBits :
    Enabled("update_int") /\ Becomes(handle_sys_update_int(State, int_mask))

SysDestroyInt == \E irq \in Irqs :
    Enabled("destroy_int") /\ Becomes(handle_sys_destroy_int(State, irq))

HandleIrq == Enabled("irq") /\ Becomes(handle_irq(State))

HandleCpuException == \E is_exit \in BOOLEAN, ok \in Outcomes :
    Enabled("exception") /\ Becomes(handle_cpu_exception(State, is_exit, ok))

\* Any of the calls above with a thread id past the end of tcb_table: get_tcb()
\* has no bound.  What lies there looks like an inactive thread, and the call is
\* refused, or like anything else.
SysWildTid == \E zeroes \in BOOLEAN :
    Enabled("wild_tid") /\ Becomes(IF zeroes THEN State ELSE Halt(State, "wild"))

Next ==
    \/ SysCreateTcb \/ SysDestroyTcb \/ SysUpdateTcb \/ SysSleep
    \/ SysSend \/ SysReceive \/ SysWildTid
    \/ SysCreateInt \/ SysUpdateInt \/ SysDestroyInt
    \/ HandleIrq \/ HandleCpuException

Spec == Init /\ [][Next]_vars

(***************************************************************************)
(* Properties                                                              *)
(***************************************************************************)
\* The list in which the kernel looks for a thread, by its state.
Home(t) ==
    LET s == thread_state[t] IN
    CASE s = "READY" -> run_queue(priority[t])
      [] s = "PAUSED" -> paused_list
      [] s = "ZOMBIE" -> zombie_list
      [] s = "WAIT_FOR_RECV" -> sender_wait_queue(wait_tid[t])
      [] s = "WAIT_FOR_SEND" -> receiver_wait_queue(wait_tid[t])
      [] OTHER -> <<"none", 0>>

\* Every list holds only threads whose state, priority and wait_tid say that
\* they belong there, and holds each of them once.  This is what
\* thread_remove_from_list() relies on to unlink a thread from the right
\* list, what list.c relies on (a thread is in at most one list), and what
\* makes every thread that schedule() picks READY.
QueuesMatchStates ==
    \A l \in ListNames :
        /\ \A i \in DOMAIN lists[l] : Home(lists[l][i]) = l
        /\ \A i, j \in DOMAIN lists[l] : lists[l][i] = lists[l][j] => i = j

\* The only thread in state RUNNING is the one processors[0] points to.
RunningIsCurrent ==
    \A t \in Tids : thread_state[t] = "RUNNING" <=> running_thread = t

\* An IRQ's handler is a live thread that has the event of the IRQ in its
\* mask: thread_release() leaves no dangling pointer in irq_handlers.
IrqHandlersLive ==
    \A irq \in Irqs : irq_handlers[irq] # NULL_TID =>
        /\ thread_state[irq_handlers[irq]] # "INACTIVE"
        /\ irq + 8 \in event_mask[irq_handlers[irq]]

\* The KASSERT of send_message() on a dequeued recipient never fails.
RecipientAssertHolds == halt # "assert_recipient"

\* A live thread that does not run is in its list, where the kernel finds it;
\* a sender that blocked without a recipient is in none by design.  Holds as
\* long as update_tcb only starts new threads, no thread is destroyed and no
\* copy fails.
NoLostThread ==
    \A t \in Tids : halt = "no" /\ thread_state[t] \notin {"INACTIVE", "RUNNING"} =>
        \/ thread_state[t] = "WAIT_FOR_RECV" /\ wait_tid[t] = WildTid
        \/ t \in ToSet(lists[Home(t)])

\* A blocked send that was addressed to a thread returns E_OK only because that
\* thread has called receive: no third thread that names the sender can take
\* the message, however often the two were queued before.  The kernel's own
\* messages, and those to ANY_RECIPIENT, may be taken by anyone.
SendCompletedByRecipient ==
    [][\A t \in Tids :
          (/\ thread_state[t] = "WAIT_FOR_RECV" /\ eax'[t] = "E_OK"
           /\ wait_tid[t] \in Tids /\ ~wait_for_kernel_msg[t])
          => running_thread = wait_tid[t]]_vars

\* The position of t in list l of q, counted from the end that is served.
Place(q, l, t) == Len(q[l]) - IndexOf(q[l], t)

\* Nobody overtakes in a run queue, among the paused threads or among blocked
\* senders: a thread that stays in the list has nobody in front of it who was
\* not there before.  (receive_message() may move a thread of a
\* receiver_wait_queue to the end of the same queue.)
NoOvertaking ==
    [][\A l \in ListNames \ {receiver_wait_queue(t) : t \in Tids} :
          \A t, u \in ToSet(lists'[l]) :
              t \in ToSet(lists[l]) /\ Place(lists', l, u) < Place(lists', l, t) =>
                  u \in ToSet(lists[l]) /\ Place(lists, l, u) < Place(lists, l, t)]_vars

\* The kernel never preempts.  The fairness is that of a cooperative system:
\* whoever runs gives up the processor sooner or later.
Yield == \E k \in {handle_sys_sleep(State, "zero")} : Enabled("sleep") /\ Becomes(k)
CanYield == Enabled("sleep") /\ RunnablePriorities(State) # {}

\* Weak fairness of Yield, with the condition under which it changes the
\* state spelled out.
LiveSpec == Spec /\ ([]<>~CanYield \/ []<><<Yield>>_vars)

\* Every thread on the run queue of its priority gets to run, unless it is
\* taken off the queue or the machine stops: schedule() starves nobody.
ReadyRuns ==
    \A t \in Tids :
        (t \in ToSet(lists[run_queue(NORMAL_PRIORITY)])) ~>
            (thread_state[t] # "READY" \/ halt # "no")
=============================================================================
