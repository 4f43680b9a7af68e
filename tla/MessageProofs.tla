---------------------------- MODULE MessageProofs ----------------------------
(***************************************************************************)
(* send_message() and receive_message() keep the invariant of ThreadProofs *)
(* and the KASSERT of send_message() on a dequeued recipient cannot fail.  *)
(***************************************************************************)
EXTENDS Messages, ThreadProofs

\* The lengths copied are lengths of messages.
LEMMA SmallerLength ==
    ASSUME NEW a \in 0..1, NEW b \in 0..1
    PROVE  Smaller(a, b) \in 0..1
  BY DEF Smaller

\* The values the lemmas write to registers, and the reasons to stop.
LEMMA Literals ==
    /\ "JUNK" \in Buffers
    /\ {"ZERO", "E_OK", "E_PREEMPT", "E_INTERRUPT"} \subseteq RegisterResults
    /\ {"fault", "assert_address", "assert_kernel_msg", "wild", "stopped"}
         \subseteq Halts \ {"assert_recipient"}
  BY DEF Buffers, RegisterResults, Halts

\* A message is delivered to a waiting recipient.
LEMMA DeliverInv ==
    ASSUME NEW k, KInv(k), NEW sender \in Tids, NEW recipient \in Tids, NEW flags,
           NEW length \in 0..1, NEW ok
    PROVE  KInv(deliver(k, sender, recipient, flags, length, ok).k)
  <1> DEFINE sent == Smaller(k.edi[recipient], length)
             copied == copy(k.root_pmap[recipient], k.ebx[recipient], sent, ok)
             kernel == "MSG_KERNEL" \in flags
             result == IF kernel /\ ~k.wait_for_kernel_msg[recipient] THEN "E_PREEMPT" ELSE "E_OK"
             k0 == thread_start(k, recipient)
             k1 == SetEbx(SetWfk(SetEdi(SetEbx(SetEax(k0, recipient, result), recipient, "JUNK"),
                                        recipient, sent), recipient, FALSE), sender, "JUNK")
             d == deliver(k, sender, recipient, flags, length, ok)
  <1>1. KInv(k0)
    BY StartInv
  <1>2. sent \in 0..1 /\ result \in RegisterResults
    <2>1. k.edi[recipient] \in 0..1
      BY DEF KInv, KStates
    <2>2. QED
      BY <2>1, SmallerLength, Literals
  <1>3. \/ d.k = Halt(k, "assert_kernel_msg")
        \/ d.k = Halt(k, copied) /\ copied \in {"fault", "assert_address"}
        \/ d.k = k
        \/ d.k = k1
    <2> HIDE DEF sent, copied, result
    <2>1. \/ d = Returns(Halt(k, "assert_kernel_msg"), "E_FAIL")
          \/ d = Returns(Halt(k, copied), "E_FAIL") /\ copied \in {"fault", "assert_address"}
          \/ d = Returns(k, "E_FAIL")
          \/ d = Returns(k1, "E_OK")
      BY Zenon DEF deliver, SetEax, SetEbx, SetEdi, SetWfk, sent, copied, result
    <2> HIDE DEF k1
    <2>2. QED
      BY <2>1 DEF Returns
  <1> HIDE DEF sent, copied, result, k0, d
  <1>4. KInv(k1)
    BY <1>1, <1>2, Literals, SetInv
  <1> HIDE DEF k1
  <1>5. KInv(Halt(k, "assert_kernel_msg"))
    BY Literals, HaltInv
  <1>6. copied \in {"fault", "assert_address"} => KInv(Halt(k, copied))
    BY Literals, HaltInv
  <1>7. QED
    BY <1>3, <1>4, <1>5, <1>6 DEF d

\* A sender that has to wait.
LEMMA BlockSenderInv ==
    ASSUME NEW k, KInv(k), NEW sender \in Tids, NEW recipient \in Tids \cup {NULL_TID},
           NEW flags, NEW buffer \in Buffers, NEW length \in 0..1
    PROVE  KInv(block_sender(k, sender, recipient, flags, buffer, length).k)
  <1> DEFINE k0 == thread_remove_from_list(k, sender)
             k1 == attach_sender_wait_queue(k0, sender, recipient)
             kernel == "MSG_KERNEL" \in flags
             k2 == SetEdi(SetEbx(SetEax(SetWfk(k1, sender, kernel), sender, "E_INTERRUPT"),
                                 sender, buffer), sender, length)
  <1>1. block_sender(k, sender, recipient, flags, buffer, length) = Returns(switch(k2), "SWITCH")
    BY Zenon DEF block_sender, SetEax, SetEbx, SetEdi, SetWfk
  <1>2. Loose(k0, sender)
    BY RemoveLoose
  <1> HIDE DEF k0
  <1>3. KInv(k1)
    BY <1>2, AttachInv
  <1>4. kernel \in BOOLEAN
    OBVIOUS
  <1> HIDE DEF k1, kernel
  <1>5. KInv(k2)
    BY <1>3, <1>4, Literals, SetInv
  <1> HIDE DEF k2
  <1>6. KInv(switch(k2))
    BY <1>5, SwitchInv
  <1>7. QED
    BY <1>1, <1>6 DEF Returns

\* The threads in a wait queue wait.
LEMMA QueuedWaits ==
    ASSUME NEW k, NEW s, NEW t
    PROVE  /\ HomeOf(k, t) = receiver_wait_queue(s) => k.thread_state[t] = "WAIT_FOR_SEND"
           /\ HomeOf(k, t) = sender_wait_queue(s) => k.thread_state[t] = "WAIT_FOR_RECV"
  BY DEF HomeOf, run_queue, paused_list, zombie_list, sender_wait_queue, receiver_wait_queue

\* send_message() keeps the invariant; a recipient taken from the queue of
\* the sender is waiting to receive.
LEMMA SendInv ==
    ASSUME NEW k, KInv(k), NEW sender \in Tids, NEW tid \in Tids \cup {NULL_TID},
           NEW flags, NEW buffer \in Buffers, NEW length \in 0..1, NEW ok
    PROVE  KInv(send_message(k, sender, tid, flags, buffer, length, ok).k)
  <1> DEFINE queue == receiver_wait_queue(sender)
             any == tid = ANY_RECIPIENT /\ ~LIST_IS_EMPTY(k.lists, queue)
             recipient == IF any THEN list_next(k.lists, queue) ELSE tid
             k1 == IF any THEN [k EXCEPT !.lists = list_dequeue(k.lists, queue)] ELSE k
             d == deliver(k1, sender, recipient, flags, length, ok)
             b == block_sender(k1, sender, recipient, flags, buffer, length)
             m == send_message(k, sender, tid, flags, buffer, length, ok)
  <1>1. /\ KInv(k1)
        /\ recipient \in Tids \cup {NULL_TID}
        /\ any => k.thread_state[recipient] = "WAIT_FOR_SEND"
    <2>1. CASE ~any
      BY <2>1
    <2>2. CASE any
      <3> DEFINE q1 == [k EXCEPT !.lists = list_dequeue(k.lists, queue)]
                 r1 == list_next(k.lists, queue)
      <3>1. k1 = q1 /\ recipient = r1 /\ ~LIST_IS_EMPTY(k.lists, queue)
        BY <2>2
      <3>2. queue \in ListNames
        BY HomeIsList
      <3> HIDE DEF queue
      <3>3. r1 \in Tids /\ HomeOf(k, r1) = queue /\ KInv(q1)
        BY <3>1, <3>2, DequeueLoose
      <3>4. k.thread_state[r1] = "WAIT_FOR_SEND"
        BY <3>3, QueuedWaits DEF queue
      <3> HIDE DEF q1, r1, any, k1, recipient
      <3>5. QED
        BY <3>1, <3>3, <3>4
    <2>3. QED
      BY <2>1, <2>2
  <1>2. \/ m = Returns(k, "E_INVALID_ARG")
        \/ m = Returns(Halt(k1, "assert_recipient"), "E_FAIL")
             /\ any /\ k.thread_state[recipient] # "WAIT_FOR_SEND"
        \/ m = Returns(k1, "E_UNREACH") \/ m = Returns(k1, "E_BLOCK")
        \/ m = d /\ recipient # NULL_TID
        \/ m = b
    BY Zenon DEF send_message, IsReceptive
  <1> HIDE DEF any, recipient, k1, m
  <1>3. recipient # NULL_TID => KInv(d.k)
    BY <1>1, DeliverInv
  <1>4. KInv(b.k)
    BY <1>1, BlockSenderInv
  <1> HIDE DEF d, b
  <1>5. QED
    BY <1>1, <1>2, <1>3, <1>4 DEF Returns, m

\* A message is taken from a waiting sender.
LEMMA AcceptInv ==
    ASSUME NEW k, KInv(k), NEW recipient \in Tids, NEW sender \in Tids, NEW flags,
           NEW length \in 0..1, NEW ok
    PROVE  KInv(accept(k, recipient, sender, flags, length, ok).k)
  <1> DEFINE received == Smaller(k.edi[sender], length)
             copied == copy(k.root_pmap[sender], k.ebx[sender], received, ok)
             k0 == thread_start(k, sender)
             k1 == SetEax(SetWfk(SetEdi(SetEbx(k0, recipient, "JUNK"), recipient, received),
                                 sender, FALSE), sender, "E_OK")
             ret == IF "MSG_KERNEL" \in flags /\ ~k.wait_for_kernel_msg[sender]
                    THEN "E_PREEMPT" ELSE "E_OK"
             a == accept(k, recipient, sender, flags, length, ok)
  <1>1. KInv(k0)
    BY StartInv
  <1>2. received \in 0..1
    <2>1. k.edi[sender] \in 0..1
      BY DEF KInv, KStates
    <2>2. QED
      BY <2>1, SmallerLength
  <1>3. \/ a = Returns(Halt(k, copied), "E_FAIL") /\ copied \in {"fault", "assert_address"}
        \/ a = Returns(k, "E_FAIL")
        \/ a = Returns(k1, ret)
    BY Zenon DEF accept, SetEax, SetEbx, SetEdi, SetWfk
  <1> HIDE DEF received, copied, k0, a, ret
  <1>4. KInv(k1)
    BY <1>1, <1>2, Literals, SetInv
  <1> HIDE DEF k1
  <1>5. copied \in {"fault", "assert_address"} => KInv(Halt(k, copied))
    BY Literals, HaltInv
  <1>6. QED
    BY <1>3, <1>4, <1>5 DEF a, Returns

\* The block at the end of receive_message() keeps the invariant, although it
\* makes the wrong thread wait.
LEMMA BlockReceiverInv ==
    ASSUME NEW k, KInv(k), NEW recipient \in Tids, NEW sender \in Tids \cup {NULL_TID},
           NEW flags, NEW buffer \in Buffers, NEW length \in 0..1, NEW ok
    PROVE  KInv(block_receiver(k, recipient, sender, flags, buffer, length, ok).k)
  <1> DEFINE k0 == thread_remove_from_list(k, sender)
             k1 == attach_receiver_wait_queue(k0, sender, recipient)
             kernel == "MSG_KERNEL" \in flags
             k2 == SetEdi(SetEbx(SetEax(SetWfk(k1, recipient, kernel), recipient, "E_INTERRUPT"),
                                 recipient, buffer), recipient, length)
             b == block_receiver(k, recipient, sender, flags, buffer, length, ok)
  <1>1. \/ b = Returns(k, "E_FAIL")
        \/ b = Returns(Halt(k, "wild"), "E_FAIL")
        \/ sender # NULL_TID /\ b = Returns(switch(k2), "SWITCH")
    BY Zenon DEF block_receiver, SetEax, SetEbx, SetEdi, SetWfk
  <1>2. CASE sender = NULL_TID
    <2>1. KInv(Halt(k, "wild"))
      BY Literals, HaltInv
    <2> HIDE DEF b
    <2>2. QED
      BY <1>1, <1>2, <2>1 DEF b, Returns
  <1>3. CASE sender # NULL_TID
    <2>1. Loose(k0, sender)
      BY <1>3, RemoveLoose
    <2> HIDE DEF k0
    <2>2. KInv(k1)
      <3>1. recipient # NULL_TID
        BY DEF Tids, NULL_TID
      <3>2. QED
        BY <1>3, <2>1, <3>1, AttachInv
    <2>3. kernel \in BOOLEAN
      OBVIOUS
    <2> HIDE DEF k1, kernel
    <2>4. KInv(k2)
      BY <2>2, <2>3, Literals, SetInv
    <2> HIDE DEF k2
    <2>5. KInv(switch(k2)) /\ KInv(Halt(k, "wild"))
      BY <2>4, SwitchInv, Literals, HaltInv
    <2> HIDE DEF b
    <2>6. QED
      BY <1>1, <2>5 DEF b, Returns
  <1>4. QED
    BY <1>2, <1>3

\* receive_message() keeps the invariant.
LEMMA ReceiveInv ==
    ASSUME NEW k, KInv(k), NEW recipient \in Tids, NEW tid \in Tids \cup {NULL_TID},
           NEW flags, NEW buffer \in Buffers, NEW length \in 0..1, NEW ok
    PROVE  KInv(receive_message(k, recipient, tid, flags, buffer, length, ok).k)
  <1> DEFINE queue == sender_wait_queue(recipient)
             any == tid = ANY_SENDER /\ length > 0 /\ ~LIST_IS_EMPTY(k.lists, queue)
             sender == IF any THEN list_next(k.lists, queue) ELSE tid
             k1 == IF any THEN [k EXCEPT !.lists = list_dequeue(k.lists, queue)] ELSE k
             a == accept(k1, recipient, sender, flags, length, ok)
             b == block_receiver(k1, recipient, sender, flags, buffer, length, ok)
             m == receive_message(k, recipient, tid, flags, buffer, length, ok)
  <1>1. KInv(k1) /\ sender \in Tids \cup {NULL_TID}
    <2>1. CASE ~any
      BY <2>1
    <2>2. CASE any
      <3> DEFINE q1 == [k EXCEPT !.lists = list_dequeue(k.lists, queue)]
                 r1 == list_next(k.lists, queue)
      <3>1. k1 = q1 /\ sender = r1 /\ ~LIST_IS_EMPTY(k.lists, queue)
        BY <2>2
      <3>2. queue \in ListNames
        BY HomeIsList
      <3> HIDE DEF queue
      <3>3. r1 \in Tids /\ KInv(q1)
        BY <3>1, <3>2, DequeueLoose
      <3> HIDE DEF q1, r1, any, k1, sender
      <3>4. QED
        BY <3>1, <3>3
    <2>3. QED
      BY <2>1, <2>2
  <1>2. \/ m = Returns(k, "E_INVALID_ARG")
        \/ m = a /\ sender # NULL_TID
        \/ m = Returns(k1, "E_BLOCK")
        \/ m = b
    BY Zenon DEF receive_message, IsSending
  <1> HIDE DEF any, sender, k1, m
  <1>3. sender # NULL_TID => KInv(a.k)
    BY <1>1, AcceptInv
  <1>4. KInv(b.k)
    BY <1>1, BlockReceiverInv
  <1> HIDE DEF a, b
  <1>5. QED
    BY <1>1, <1>2, <1>3, <1>4 DEF Returns, m
=============================================================================
