------------------------------ MODULE Messages ------------------------------
(***************************************************************************)
(* send_message() and receive_message() of kernel/message.c.  The result   *)
(* is a record: the state k and what the function returns, "SWITCH" when   *)
(* it does not return because another thread was switched to.              *)
(*                                                                         *)
(* A message has a header and a payload of length 0 or 1.  A buffer        *)
(* address is "NULL", "SEND" or "RECV" (the buffer of a send or of a       *)
(* receive call), or "JUNK": a register that holds something else.  The    *)
(* flags are a set.  ok decides what the model leaves open: whether a page *)
(* of another address space is mapped, and what a NULL pointer leads to.   *)
(***************************************************************************)
EXTENDS Threads

MessageFlags == {"MSG_NOBLOCK", "MSG_KERNEL"}

ANY_SENDER == NULL_TID
ANY_RECIPIENT == NULL_TID

\* poke_virt() and peek_virt(): a plain memcpy() in the current address space,
\* which is always that of the init server, where an unmapped page is a fault
\* in the kernel; page by page in any other.
copy(pmap, address, length, ok) ==
    IF pmap # "init" /\ address = "NULL" THEN "assert_address"
    ELSE IF length = 0 \/ ok THEN "E_OK"
    ELSE IF pmap = "init" THEN "fault"
    ELSE "E_FAIL"

Smaller(a, b) == IF a < b THEN a ELSE b

Returns(k, ret) == [k |-> k, ret |-> ret]

(***************************************************************************)
(* send_message()                                                          *)
(***************************************************************************)
\* The recipient waits for this sender, or for anyone, or the kernel sends.
IsReceptive(k, sender, recipient, flags) ==
    /\ recipient # NULL_TID
    /\ k.thread_state[recipient] = "WAIT_FOR_SEND"
    /\ \/ "MSG_KERNEL" \in flags
       \/ k.wait_tid[recipient] = ANY_SENDER /\ ~k.wait_for_kernel_msg[recipient]
       \/ k.wait_tid[recipient] = sender

\* The transfer to a waiting recipient.
deliver(k, sender, recipient, flags, length, ok) ==
    LET sent == Smaller(k.edi[recipient], length)
        copied == copy(k.root_pmap[recipient], k.ebx[recipient], sent, ok)
        kernel == "MSG_KERNEL" \in flags
    IN  IF k.wait_for_kernel_msg[recipient] /\ k.wait_tid[recipient] # NULL_TID
          THEN Returns(Halt(k, "assert_kernel_msg"), "E_FAIL")
        ELSE IF copied \in {"fault", "assert_address"} THEN Returns(Halt(k, copied), "E_FAIL")
        ELSE IF copied = "E_FAIL" THEN Returns(k, "E_FAIL")
        ELSE Returns([thread_start(k, recipient) EXCEPT
                 !.eax[recipient] = IF kernel /\ ~k.wait_for_kernel_msg[recipient]
                                    THEN "E_PREEMPT" ELSE "E_OK",
                 !.ebx[recipient] = "JUNK", !.edi[recipient] = sent,
                 !.wait_for_kernel_msg[recipient] = FALSE,
                 !.ebx[sender] = "JUNK"], "E_OK")

\* The sender is switched away from until the recipient receives.
block_sender(k, sender, recipient, flags, buffer, length) ==
    LET k1 == attach_sender_wait_queue(thread_remove_from_list(k, sender), sender, recipient)
        k2 == [k1 EXCEPT !.wait_for_kernel_msg[sender] = "MSG_KERNEL" \in flags,
                         !.eax[sender] = "E_INTERRUPT",
                         !.ebx[sender] = buffer, !.edi[sender] = length]
    IN  Returns(switch(k2), "SWITCH")

send_message(k, sender, recipient_tid, flags, buffer, length, ok) ==
    LET queue == receiver_wait_queue(sender)
        any == recipient_tid = ANY_RECIPIENT /\ ~LIST_IS_EMPTY(k.lists, queue)
        recipient == IF any THEN list_next(k.lists, queue) ELSE recipient_tid
        k1 == IF any THEN [k EXCEPT !.lists = list_dequeue(@, queue)] ELSE k
    IN  IF sender = recipient_tid \/ (length > 0 /\ buffer = "NULL")
          THEN Returns(k, "E_INVALID_ARG")
        ELSE IF any /\ k.thread_state[recipient] # "WAIT_FOR_SEND"
          THEN Returns(Halt(k1, "assert_recipient"), "E_FAIL")
        ELSE IF recipient # NULL_TID /\ k.thread_state[recipient] \in {"INACTIVE", "ZOMBIE"}
          THEN Returns(k1, "E_UNREACH")
        ELSE IF IsReceptive(k1, sender, recipient, flags)
          THEN deliver(k1, sender, recipient, flags, length, ok)
        ELSE IF "MSG_NOBLOCK" \in flags THEN Returns(k1, "E_BLOCK")
        ELSE block_sender(k1, sender, recipient, flags, buffer, length)

(***************************************************************************)
(* receive_message()                                                       *)
(***************************************************************************)
\* Variant: whom the sender addressed is not looked at.
IsSending_ToAnyone(k, recipient, sender, flags) ==
    sender # NULL_TID /\ k.thread_state[sender] = "WAIT_FOR_RECV"

\* The sender waits for this recipient, or for anyone, or the kernel sends.
IsSending(k, recipient, sender, flags) ==
    /\ sender # NULL_TID
    /\ k.thread_state[sender] = "WAIT_FOR_RECV"
    /\ \/ k.wait_for_kernel_msg[sender]
       \/ k.wait_tid[sender] = recipient
       \/ "MSG_KERNEL" \notin flags /\ k.wait_tid[sender] = ANY_RECIPIENT

\* The transfer from a waiting sender.
accept(k, recipient, sender, flags, length, ok) ==
    LET received == Smaller(k.edi[sender], length)
        copied == copy(k.root_pmap[sender], k.ebx[sender], received, ok)
    IN  IF copied \in {"fault", "assert_address"} THEN Returns(Halt(k, copied), "E_FAIL")
        ELSE IF copied = "E_FAIL" THEN Returns(k, "E_FAIL")
        ELSE Returns([thread_start(k, sender) EXCEPT
                 !.ebx[recipient] = "JUNK", !.edi[recipient] = received,
                 !.wait_for_kernel_msg[sender] = FALSE,
                 !.eax[sender] = "E_OK"],
               IF "MSG_KERNEL" \in flags /\ ~k.wait_for_kernel_msg[sender]
               THEN "E_PREEMPT" ELSE "E_OK")

\* The block at the end passes its arguments in the order (sender, recipient)
\* to functions that take the thread that is to wait first: it is the sender
\* that leaves its list and enters the recipient's receiver_wait_queue.
block_receiver(k, recipient, sender, flags, buffer, length, ok) ==
    IF sender = NULL_TID
      THEN IF ok THEN Returns(k, "E_FAIL") ELSE Returns(Halt(k, "wild"), "E_FAIL")
    ELSE IF ~IsRemovable(k, sender) THEN Returns(k, "E_FAIL")
    ELSE LET k1 == attach_receiver_wait_queue(thread_remove_from_list(k, sender), sender, recipient)
             k2 == [k1 EXCEPT !.wait_for_kernel_msg[recipient] = "MSG_KERNEL" \in flags,
                              !.eax[recipient] = "E_INTERRUPT",
                              !.ebx[recipient] = buffer, !.edi[recipient] = length]
         IN  Returns(switch(k2), "SWITCH")

receive_message(k, recipient, sender_tid, flags, buffer, length, ok) ==
    LET queue == sender_wait_queue(recipient)
        any == sender_tid = ANY_SENDER /\ length > 0 /\ ~LIST_IS_EMPTY(k.lists, queue)
        sender == IF any THEN list_next(k.lists, queue) ELSE sender_tid
        k1 == IF any THEN [k EXCEPT !.lists = list_dequeue(@, queue)] ELSE k
    IN  IF recipient = sender_tid \/ (length > 0 /\ buffer = "NULL")
          THEN Returns(k, "E_INVALID_ARG")
        ELSE IF IsSending(k1, recipient, sender, flags)
          THEN accept(k1, recipient, sender, flags, length, ok)
        ELSE IF "MSG_NOBLOCK" \in flags THEN Returns(k1, "E_BLOCK")
        ELSE block_receiver(k1, recipient, sender, flags, buffer, length, ok)
=============================================================================
