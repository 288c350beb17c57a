------------------------------ MODULE ByteQueue ------------------------------
(***************************************************************************)
(* The contract of the byte ring of ring_buffer.rs, as functions on a      *)
(* queue value [cells, used]:                                              *)
(*   - cells[0 .. used-1] are the bytes between tail and head, readable;   *)
(*   - cells[used .. capacity-1] are the free bytes in the order in which  *)
(*     the head will reach them; the writer may fill them at any offset    *)
(*     before it advances over them.                                       *)
(* cells is the ring's memory seen from the tail, so advancing the tail    *)
(* rotates it.  RingBuffer.tla shows that the concurrent ring implements   *)
(* these functions; the windows are built on them.                         *)
(***************************************************************************)
EXTENDS Integers, Sequences

Lesser(a, b) == IF a <= b THEN a ELSE b

\* RingBuffer::new: an empty ring; `fill` is whatever the memory holds.
NewQueue(capacity, fill) == [cells |-> [k \in 0..(capacity-1) |-> fill], used |-> 0]

write_available(capacity, q) == capacity - q.used
read_available(q) == q.used

(***************************************************************************)
(* Writer::write stores as much of data as fits, starting offset bytes     *)
(* after the head, and moves nothing; Writer::advance then moves the head. *)
(***************************************************************************)
WriteLen(capacity, q, offset, data) ==
  LET room == write_available(capacity, q) - offset
  IN  IF room <= 0 THEN 0 ELSE Lesser(room, Len(data))

Write(capacity, q, offset, data) ==
  LET first == q.used + offset
      len   == WriteLen(capacity, q, offset, data)
  IN  [q EXCEPT !.cells =
        [k \in 0..(capacity-1) |-> IF k >= first /\ k < first + len
                                   THEN data[k - first + 1] ELSE q.cells[k]]]

WriterAdvance(capacity, q, n) ==
  [q EXCEPT !.used = @ + Lesser(n, write_available(capacity, q))]

(***************************************************************************)
(* Reader::read copies out the bytes from offset on, at most n of them;    *)
(* Reader::advance then moves the tail.                                    *)
(***************************************************************************)
Read(q, offset, n) ==
  LET len == IF q.used <= offset THEN 0 ELSE Lesser(q.used - offset, n)
  IN  [i \in 1..len |-> q.cells[offset + i - 1]]

ReaderAdvance(capacity, q, n) ==
  LET m == Lesser(n, q.used)
  IN  [used  |-> q.used - m,
       cells |-> [k \in 0..(capacity-1) |-> q.cells[IF k + m < capacity
                                                   THEN k + m
                                                   ELSE k + m - capacity]]]

=============================================================================
