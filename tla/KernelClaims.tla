---------------------------- MODULE KernelClaims ----------------------------
(***************************************************************************)
(* What comments and assertions of the kernel say of it and the code does  *)
(* not do.  Each is checked by a run of its own, which ends in a           *)
(* counterexample.                                                         *)
(***************************************************************************)
EXTENDS Kernel

Current == running_thread

\* "Queue of threads waiting to receive a message from this thread", of
\* receiver_wait_queue: a receive call that has to wait makes the caller
\* wait, in the queue of the thread it names.
ReceiverWaits ==
    halt = "no" /\ Current # NULL_TID =>
        \A sender \in Tids \ {Current} :
            LET r == receive_message(State, Current, sender, {}, "RECV", 1, TRUE) IN
            r.ret = "SWITCH" =>
                /\ r.k.thread_state[Current] = "WAIT_FOR_SEND"
                /\ Current \in ToSet(r.k.lists[receiver_wait_queue(sender)])

\* "clear its wait queue after waking all of the waiting threads", of
\* thread_release(): a thread that was woken is where schedule() finds it.
ReadyIsQueued ==
    \A t \in Tids : halt = "no" /\ thread_state[t] = "READY" =>
        t \in ToSet(lists[run_queue(priority[t])])
=============================================================================
