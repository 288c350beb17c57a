---------------------------- MODULE ByteQueueSpec ----------------------------
(***************************************************************************)
(* What a ring promises to its two users: every step is one atomic use of  *)
(* the queue functions of ByteQueue.  RingBuffer implements this.          *)
(***************************************************************************)
EXTENDS ByteQueue

CONSTANTS Capacity,   \* capacity given to RingBuffer::new
          Byte        \* the values a cell can hold

VARIABLE queue

Init == \E cells \in [0..(Capacity-1) -> Byte] : queue = [cells |-> cells, used |-> 0]

\* One byte written ahead of the head.
Put == \E k \in 0..(write_available(Capacity, queue) - 1), b \in Byte :
         queue' = Write(Capacity, queue, k, <<b>>)

Publish == \E n \in 0..Capacity : queue' = WriterAdvance(Capacity, queue, n)

Consume == \E n \in 0..Capacity : queue' = ReaderAdvance(Capacity, queue, n)

Next == Put \/ Publish \/ Consume

Spec == Init /\ [][Next]_queue

=============================================================================
