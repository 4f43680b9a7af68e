------------------------------ MODULE Threads ------------------------------
(***************************************************************************)
(* kernel/thread.c, kernel/schedule.c and the wait queues of               *)
(* kernel/message.c as operators on the kernel's state.                    *)
(*                                                                         *)
(* The kernel runs on one processor with interrupts disabled, so that a    *)
(* handler is one step; inside it the functions are called one after the   *)
(* other, each on the state the one before it left.  That state is the     *)
(* record k, with one field per field of tcb_t (a function of the thread)  *)
(* and one per global of the kernel:                                       *)
(*                                                                         *)
(*   thread_state, priority, wait_tid, wait_for_kernel_msg, root_pmap,     *)
(*   event_mask, pending_events      as in tcb_t; the two event words are  *)
(*                                   sets of bit numbers                   *)
(*   eax, ebx, edi                   the registers of user_exec_state that *)
(*                                   decide what the kernel does or report *)
(*                                   the outcome of a wait                 *)
(*   lists                           run queues, paused and zombie list,   *)
(*                                   wait queues of every thread           *)
(*   running_thread, irq_handlers, last_tid                                *)
(*   halt                            "no" while the machine runs, else why *)
(*                                   it stopped                            *)
(*                                                                         *)
(* A pointer to a TCB is the thread id, the NULL pointer is NULL_TID.      *)
(***************************************************************************)
EXTENDS Integers, Lists

CONSTANTS
    TcbTableSize,  \* entries of tcb_table, entry 0 included
    NumIrqs,       \* NUM_IRQS
    WildTid,       \* what get_tid(NULL) evaluates to
    WildReadable   \* does tcb_table[WildTid] lie in mapped, unrelated memory?

ASSUME ThreadAssumption ==
    /\ TcbTableSize \in Nat /\ TcbTableSize > 1
    /\ NumIrqs \in Nat /\ NumIrqs > 0
    /\ WildTid \in Nat /\ WildTid >= TcbTableSize
    /\ WildReadable \in BOOLEAN

NULL_TID == 0
Tids == 1..TcbTableSize - 1
Irqs == 0..NumIrqs - 1

MIN_PRIORITY == 0
MAX_PRIORITY == 4
NORMAL_PRIORITY == 2
Priorities == MIN_PRIORITY..MAX_PRIORITY

ThreadStates == {"INACTIVE", "PAUSED", "ZOMBIE", "READY", "RUNNING",
                 "WAIT_FOR_SEND", "WAIT_FOR_RECV", "SLEEPING"}

Pmaps == {"init", "other"}
EventBits == {0} \cup {irq + 8 : irq \in Irqs}
Buffers == {"NULL", "SEND", "RECV", "JUNK"}
RegisterResults == {"ZERO", "E_OK", "E_INTERRUPT", "E_UNREACH", "E_PREEMPT"}
Halts == {"no", "panic", "wild", "fault", "stopped", "assert_running",
          "assert_recipient", "assert_kernel_msg", "assert_address"}

\* The lists of the system.
run_queue(p) == <<"run_queue", p>>
paused_list == <<"paused_list", 0>>
zombie_list == <<"zombie_list", 0>>
sender_wait_queue(t) == <<"sender_wait_queue", t>>
receiver_wait_queue(t) == <<"receiver_wait_queue", t>>

ListNames ==
    {run_queue(p) : p \in Priorities} \cup {paused_list, zombie_list}
        \cup {sender_wait_queue(t) : t \in Tids}
        \cup {receiver_wait_queue(t) : t \in Tids}

\* PANIC, a failed KASSERT or a wild memory access: the first one counts.
Halt(k, why) == IF k.halt = "no" THEN [k EXCEPT !.halt = why] ELSE k

\* list_remove() on the queue of the "thread" a wild thread id names: the
\* thread has no links, so that nothing happens if the memory can be read.
WildListRemove(k) == IF WildReadable THEN k ELSE Halt(k, "wild")

\* get_tid(): the pointer difference is meaningless for NULL.
get_tid(tcb) == IF tcb = NULL_TID THEN WildTid ELSE tcb

(***************************************************************************)
(* Wait queues: kernel/message.c.                                          *)
(***************************************************************************)
\* Variant: the sender waits but is in no queue.
attach_sender_wait_queue_Unlinked(k, sender, recipient) ==
    [k EXCEPT !.thread_state[sender] = "WAIT_FOR_RECV",
              !.wait_tid[sender] = get_tid(recipient)]

attach_sender_wait_queue(k, sender, recipient) ==
    [k EXCEPT !.lists = IF recipient = NULL_TID THEN @
                        ELSE list_enqueue(@, sender_wait_queue(recipient), sender),
              !.thread_state[sender] = "WAIT_FOR_RECV",
              !.wait_tid[sender] = get_tid(recipient)]

attach_receiver_wait_queue(k, recipient, sender) ==
    [k EXCEPT !.lists = IF sender = NULL_TID THEN @
                        ELSE list_enqueue(@, receiver_wait_queue(sender), recipient),
              !.thread_state[recipient] = "WAIT_FOR_SEND",
              !.wait_tid[recipient] = get_tid(sender)]

\* Variant: the sender is left in the queue of the recipient.
detach_sender_wait_queue_Linked(k, sender) ==
    [k EXCEPT !.wait_tid[sender] = NULL_TID]

detach_sender_wait_queue(k, sender) ==
    LET recipient == k.wait_tid[sender]
        k1 == [k EXCEPT !.wait_tid[sender] = NULL_TID]
    IN  IF recipient = NULL_TID THEN k1
        ELSE IF recipient = WildTid THEN WildListRemove(k1)
        ELSE [k1 EXCEPT !.lists = list_remove(@, sender_wait_queue(recipient), sender)]

\* Variant: the recipient is left in the queue of the sender.
detach_receiver_wait_queue_Linked(k, recipient) ==
    [k EXCEPT !.wait_tid[recipient] = NULL_TID]

detach_receiver_wait_queue(k, recipient) ==
    LET sender == k.wait_tid[recipient]
        k1 == [k EXCEPT !.wait_tid[recipient] = NULL_TID]
    IN  IF sender = NULL_TID THEN k1
        ELSE IF sender = WildTid THEN WildListRemove(k1)
        ELSE [k1 EXCEPT !.lists = list_remove(@, receiver_wait_queue(sender), recipient)]

(***************************************************************************)
(* kernel/thread.c                                                         *)
(***************************************************************************)
\* thread_remove_from_list() fails in the other states.
IsRemovable(k, t) == k.thread_state[t] \notin {"INACTIVE", "SLEEPING"}

thread_remove_from_list(k, t) ==
    LET s == k.thread_state[t] IN
    CASE s = "WAIT_FOR_RECV" -> detach_sender_wait_queue(k, t)
      [] s = "WAIT_FOR_SEND" -> detach_receiver_wait_queue(k, t)
      [] s = "READY" ->
           [k EXCEPT !.lists = list_remove(@, run_queue(k.priority[t]), t)]
      [] s = "PAUSED" -> [k EXCEPT !.lists = list_remove(@, paused_list, t)]
      [] s = "ZOMBIE" -> [k EXCEPT !.lists = list_remove(@, zombie_list, t)]
      [] s = "RUNNING" ->
           [k EXCEPT !.running_thread = IF @ = t THEN NULL_TID ELSE @]
      [] OTHER -> k

\* Variant: the thread goes to the end of the queue that is served next.
make_ready_First(k, t) ==
    [k EXCEPT !.thread_state[t] = "READY",
              !.lists = list_insert_at_end(@, run_queue(k.priority[t]), t, TRUE)]

\* The common end of thread_wakeup() and thread_start().
make_ready(k, t) ==
    [k EXCEPT !.thread_state[t] = "READY",
              !.lists = list_enqueue(@, run_queue(k.priority[t]), t)]

\* Fails for an inactive thread, does nothing for one that is awake.
thread_wakeup(k, t) ==
    IF k.thread_state[t] \in {"RUNNING", "READY", "ZOMBIE", "INACTIVE", "SLEEPING"} THEN k
    ELSE make_ready(thread_remove_from_list(k, t), t)

\* thread_start() returns E_FAIL for these; E_DONE is not an error.
IsStartError(k, t) == k.thread_state[t] \in {"INACTIVE", "ZOMBIE", "SLEEPING"}

thread_start(k, t) ==
    IF k.thread_state[t] \notin {"WAIT_FOR_RECV", "WAIT_FOR_SEND", "PAUSED"} THEN k
    ELSE make_ready(thread_remove_from_list(k, t), t)

\* E_DONE for a paused thread, E_FAIL for one that cannot be paused.
thread_pause(k, t) ==
    IF k.thread_state[t] \notin {"WAIT_FOR_RECV", "WAIT_FOR_SEND", "READY", "RUNNING"} THEN k
    ELSE [thread_remove_from_list(k, t) EXCEPT
             !.thread_state[t] = "PAUSED",
             !.lists = list_enqueue(@, paused_list, t)]

\* The slots thread_create() would take: it looks upwards from last_tid only.
FreeSlots(k) == {t \in Tids : t > k.last_tid /\ k.thread_state[t] = "INACTIVE"}

\* The TCB is zeroed and the thread starts its life on the paused list.
\* Past the end of tcb_table the search reads, and memset() writes, memory
\* that belongs to something else.
thread_create(k, pmap) ==
    IF FreeSlots(k) = {} THEN Halt(k, "wild")
    ELSE LET t == CHOOSE x \in FreeSlots(k) : \A y \in FreeSlots(k) : x <= y
             queues == [k.lists EXCEPT ![sender_wait_queue(t)] = <<>>,
                                       ![receiver_wait_queue(t)] = <<>>]
         IN  [k EXCEPT !.last_tid = t,
                       !.thread_state = [k.thread_state EXCEPT ![t] = "PAUSED"],
                       !.priority = [k.priority EXCEPT ![t] = NORMAL_PRIORITY],
                       !.wait_tid = [k.wait_tid EXCEPT ![t] = NULL_TID],
                       !.wait_for_kernel_msg = [k.wait_for_kernel_msg EXCEPT ![t] = FALSE],
                       !.root_pmap = [k.root_pmap EXCEPT ![t] = pmap],
                       !.event_mask = [k.event_mask EXCEPT ![t] = {}],
                       !.pending_events = [k.pending_events EXCEPT ![t] = {}],
                       !.eax = [k.eax EXCEPT ![t] = "ZERO"],
                       !.ebx = [k.ebx EXCEPT ![t] = "NULL"],
                       !.edi = [k.edi EXCEPT ![t] = 0],
                       !.lists = list_enqueue(queues, paused_list, t)]

\* Variant: a released thread remains the handler of its IRQs.
unregister_handler_Skipped(k, t) == k.irq_handlers

\* The end of thread_release(): no IRQ has t for its handler.
unregister_handler(k, t) ==
    [i \in Irqs |-> IF k.irq_handlers[i] = t THEN NULL_TID ELSE k.irq_handlers[i]]

\* The loop over the two wait queues starts at sender_wait_queue and steps to
\* the next list_t in memory, which is the pair (prev_tid, next_tid) of the
\* thread itself and not receiver_wait_queue; the pair is empty because the
\* thread has just been unlinked.  The threads woken are made READY but put
\* on no run queue.
thread_release(k, t) ==
    IF ~IsRemovable(k, t) THEN k
    ELSE LET k1 == thread_remove_from_list(k, t)
             woken == ToSet(k1.lists[sender_wait_queue(t)])
         IN  [k1 EXCEPT
                !.lists[sender_wait_queue(t)] = <<>>,
                !.wait_tid = [x \in Tids |-> IF x \in woken THEN NULL_TID ELSE @[x]],
                !.eax = [x \in Tids |-> IF x \in woken THEN "E_UNREACH" ELSE @[x]],
                !.irq_handlers = unregister_handler(k1, t),
                !.thread_state = [x \in Tids |-> IF x = t THEN "INACTIVE"
                                                 ELSE IF x \in woken THEN "READY" ELSE @[x]]]

\* The part of thread_switch_context() that can go wrong.
thread_switch_context(k, t) ==
    IF k.thread_state[t] = "RUNNING" THEN k ELSE Halt(k, "assert_running")

(***************************************************************************)
(* kernel/schedule.c                                                       *)
(***************************************************************************)
\* The priorities at which schedule() finds a thread to run.
RunnablePriorities(k) ==
    {p \in Priorities :
        /\ k.running_thread # NULL_TID => p >= k.priority[k.running_thread]
        /\ ~LIST_IS_EMPTY(k.lists, run_queue(p))}

\* Switch from the current thread, if any, to the thread that has waited
\* longest at the highest of these priorities.
schedule(k) ==
    LET current == k.running_thread
        ready == RunnablePriorities(k)
    IN  IF ready # {} THEN
            LET p == CHOOSE x \in ready : \A y \in ready : y <= x
                new == list_next(k.lists, run_queue(p))
                k1 == [k EXCEPT !.lists = list_dequeue(@, run_queue(p))]
                k2 == IF current = NULL_TID THEN k1 ELSE make_ready(k1, current)
            IN  [k2 EXCEPT !.thread_state[new] = "RUNNING", !.running_thread = new]
        ELSE IF current = NULL_TID THEN Halt(k, "panic")
        ELSE k

\* thread_switch_context(schedule(...)): the new thread is the current one.
switch(k) ==
    LET k1 == schedule(k) IN
    IF k1.halt # "no" THEN k1 ELSE thread_switch_context(k1, k1.running_thread)
=============================================================================
