------------------------------ MODULE RingBuffer ------------------------------
(***************************************************************************)
(* The lock-free single-producer single-consumer ring of ring_buffer.rs.   *)
(*                                                                         *)
(* head and tail are the two atomics.  They run through twice as many      *)
(* values as the ring has cells, so that a full ring and an empty one are  *)
(* different although both have equal collapsed positions.  The writer and *)
(* the reader each run on their own thread.  A call is cut where the other *)
(* thread can be seen:                                                     *)
(*   - loading the other side's atomic (the side's own one cannot change   *)
(*     under it, so loading that needs no step of its own);                *)
(*   - copying one byte;                                                   *)
(*   - storing the side's own atomic.                                      *)
(* Release stores paired with acquire loads make the copied bytes visible  *)
(* with the position that covers them; the steps are therefore             *)
(* interleaved on one memory.                                              *)
(***************************************************************************)
EXTENDS ByteQueue

CONSTANTS RingCapacity, Byte,
          MaxData      \* longest data slice one call is given

ASSUME RingAssumption == /\ RingCapacity \in Nat \ {0}
                         /\ MaxData \in Nat
                         /\ Byte # {}

VARIABLES mem,     \* the allocation, [0..RingCapacity-1 -> Byte]
          head,    \* written by the writer only
          tail,    \* written by the reader only
          writer,  \* the writer's call in progress
          reader   \* the reader's call in progress

ringVars == <<mem, head, tail, writer, reader>>

----------------------------------------------------------------------------
(* Position arithmetic. *)

Positions == 0 .. (2 * RingCapacity - 1)

collapse_position(pos) == IF pos < RingCapacity THEN pos ELSE pos - RingCapacity

tail_to_head(t, h) == IF t <= h THEN h - t ELSE RingCapacity - (t - RingCapacity) + h

head_to_tail(h, t) == RingCapacity - tail_to_head(t, h)

\* Mutant: the threshold itself is not wrapped.
IncrementPastEnd(pos, n) ==
  LET threshold == (RingCapacity - n) + RingCapacity
  IN  IF n = 0 \/ pos <= threshold THEN pos + n ELSE pos - threshold

increment(pos, n) ==
  LET threshold == (RingCapacity - n) + RingCapacity
  IN  IF n = 0 THEN pos
      ELSE IF pos < threshold THEN pos + n ELSE pos - threshold

\* The cell k places after a position, in the left slice or the right one.
Cell(pos, k) ==
  LET c == collapse_position(pos)
  IN  IF c + k < RingCapacity THEN c + k ELSE c + k - RingCapacity

\* Mutant: a full ring is taken for an empty one.
WriteSlicesFullIsEmpty(h, t) ==
  LET ch == collapse_position(h)
      ct == collapse_position(t)
  IN  IF ch < ct THEN ct - ch ELSE (RingCapacity - ch) + ct

\* Total length of the two slices Writer::write may fill: nothing when full.
WriteSlices(h, t) ==
  LET ch == collapse_position(h)
      ct == collapse_position(t)
  IN  IF ch = ct /\ h # t THEN 0
      ELSE IF ch < ct THEN ct - ch ELSE (RingCapacity - ch) + ct

\* Total length of the two slices Reader::read may copy from: nothing when empty.
ReadSlices(h, t) ==
  LET ch == collapse_position(h)
      ct == collapse_position(t)
  IN  IF ch = ct /\ h = t THEN 0
      ELSE IF ct < ch THEN ch - ct ELSE (RingCapacity - ct) + ch

\* Mutant: the offset is not taken from the room there is.
CopyLenNoOffset(slices, offset, n) == Lesser(slices, n)

CopyLen(slices, offset, n) ==
  IF slices <= offset THEN 0 ELSE Lesser(slices - offset, n)

----------------------------------------------------------------------------
(* State. *)

WIdle == [pc |-> "idle", seen |-> 0, offset |-> 0, data |-> <<>>, len |-> 0, done |-> 0]
RIdle == [pc |-> "idle", seen |-> 0, offset |-> 0, buf  |-> <<>>, len |-> 0]

\* The allocation is not initialised: it may hold anything.
RingInit == /\ mem \in [0..(RingCapacity-1) -> Byte]
            /\ head = 0
            /\ tail = 0
            /\ writer = WIdle
            /\ reader = RIdle

----------------------------------------------------------------------------
(* Writer. *)

\* Writer::write up to the two slices: an early return leaves nothing behind.
WriterWrite(offset, data) ==
  LET len == CopyLen(WriteSlices(head, tail), offset, Len(data))
  IN  /\ writer.pc = "idle"
      /\ len > 0
      /\ writer' = [pc |-> "copy", seen |-> tail, offset |-> offset,
                    data |-> data, len |-> len, done |-> 0]
      /\ UNCHANGED <<mem, head, tail, reader>>

\* write_slice, one byte; the call returns after the last one.
WriterCopy ==
  /\ writer.pc = "copy"
  /\ mem' = [mem EXCEPT ![Cell(head, writer.offset + writer.done)] = writer.data[writer.done + 1]]
  /\ writer' = IF writer.done + 1 = writer.len THEN WIdle ELSE [writer EXCEPT !.done = @ + 1]
  /\ UNCHANGED <<head, tail, reader>>

\* Mutant: advance by what the caller asked for, without the clamp.
WriterAdvanceLoadUnclamped(n) ==
  /\ writer.pc = "idle"
  /\ writer' = [WIdle EXCEPT !.pc = "advance", !.seen = tail, !.len = n]
  /\ UNCHANGED <<mem, head, tail, reader>>

\* Writer::advance: clamp to the room seen ...
WriterAdvanceLoad(n) ==
  /\ writer.pc = "idle"
  /\ writer' = [WIdle EXCEPT !.pc = "advance", !.seen = tail,
                             !.len = Lesser(n, head_to_tail(head, tail))]
  /\ UNCHANGED <<mem, head, tail, reader>>

\* ... and publish the new head.
WriterAdvanceStore ==
  /\ writer.pc = "advance"
  /\ head' = increment(head, writer.len)
  /\ writer' = WIdle
  /\ UNCHANGED <<mem, tail, reader>>

Writer == \/ \E offset \in 0..(RingCapacity-1), n \in 1..MaxData :
               \E data \in [1..n -> Byte] : WriterWrite(offset, data)
          \/ WriterCopy
          \/ \E n \in 0..RingCapacity : WriterAdvanceLoad(n)
          \/ WriterAdvanceStore

----------------------------------------------------------------------------
(* Reader. *)

ReaderRead(offset, n) ==
  LET len == CopyLen(ReadSlices(head, tail), offset, n)
  IN  /\ reader.pc = "idle"
      /\ len > 0
      /\ reader' = [pc |-> "copy", seen |-> head, offset |-> offset,
                    buf |-> <<>>, len |-> len]
      /\ UNCHANGED <<mem, head, tail, writer>>

ReaderCopy ==
  /\ reader.pc = "copy"
  /\ Len(reader.buf) < reader.len
  /\ reader' = [reader EXCEPT !.buf = Append(@, mem[Cell(tail, reader.offset + Len(reader.buf))])]
  /\ UNCHANGED <<mem, head, tail, writer>>

\* The call returns with buf filled.
ReaderReturn ==
  /\ reader.pc = "copy"
  /\ Len(reader.buf) = reader.len
  /\ reader' = RIdle
  /\ UNCHANGED <<mem, head, tail, writer>>

ReaderAdvanceLoad(n) ==
  /\ reader.pc = "idle"
  /\ reader' = [RIdle EXCEPT !.pc = "advance", !.seen = head,
                             !.len = Lesser(n, tail_to_head(tail, head))]
  /\ UNCHANGED <<mem, head, tail, writer>>

ReaderAdvanceStore ==
  /\ reader.pc = "advance"
  /\ tail' = increment(tail, reader.len)
  /\ reader' = RIdle
  /\ UNCHANGED <<mem, head, writer>>

Reader == \/ \E offset \in 0..(RingCapacity-1), n \in 1..MaxData : ReaderRead(offset, n)
          \/ ReaderCopy
          \/ ReaderReturn
          \/ \E n \in 0..RingCapacity : ReaderAdvanceLoad(n)
          \/ ReaderAdvanceStore

RingNext == Writer \/ Reader

RingSpec == RingInit /\ [][RingNext]_ringVars

----------------------------------------------------------------------------
(* Properties. *)

\* The two positions stay below 2 * RingCapacity, where increment has to keep them, and a
\* call never covers more than the ring.
TypeOK ==
  /\ mem \in [0..(RingCapacity-1) -> Byte]
  /\ head \in Positions
  /\ tail \in Positions
  /\ writer \in [pc : {"idle", "copy", "advance"}, seen : Positions,
                 offset : 0..(RingCapacity-1), data : Seq(Byte), len : 0..RingCapacity, done : Nat]
  /\ reader \in [pc : {"idle", "copy", "advance"}, seen : Positions,
                 offset : 0..(RingCapacity-1), buf : Seq(Byte), len : 0..RingCapacity]

\* The cells of the &mut slices Writer::write holds while it copies.
WriterCells == IF writer.pc = "copy"
               THEN {Cell(head, k) : k \in 0..(WriteSlices(head, writer.seen) - 1)} ELSE {}

\* The cells of the & slices Reader::read holds while it copies.
ReaderCells == IF reader.pc = "copy"
               THEN {Cell(tail, k) : k \in 0..(ReadSlices(reader.seen, tail) - 1)} ELSE {}

(***************************************************************************)
(* The unsafe slices Writer::write and Reader::read make from the raw      *)
(* buffer never overlap, whatever the two threads have published since     *)
(* they loaded each other's position.                                      *)
(***************************************************************************)
SlicesDisjoint == WriterCells \cap ReaderCells = {}

(***************************************************************************)
(* What Reader::read has copied so far is what the queue holds at those    *)
(* offsets, and the rest of the call stays inside the published bytes,     *)
(* however far the writer gets during the copy.                            *)
(***************************************************************************)
queue == [cells |-> [k \in 0..(RingCapacity-1) |-> mem[Cell(tail, k)]],
          used  |-> tail_to_head(tail, head)]

ReadIsConsistent ==
  reader.pc = "copy" =>
    /\ reader.offset + reader.len <= queue.used
    /\ \A i \in 1..Len(reader.buf) : reader.buf[i] = queue.cells[reader.offset + i - 1]

(***************************************************************************)
(* The two threads' interleaved loads, byte copies and stores implement    *)
(* the atomic queue: in particular no published byte is overwritten and    *)
(* the head never passes the tail by more than RingCapacity.               *)
(***************************************************************************)
AtomicQueue == INSTANCE ByteQueueSpec WITH Capacity <- RingCapacity
ImplementsByteQueue == AtomicQueue!Spec

=============================================================================
