--------------------------- MODULE BufferTheorems ---------------------------
(***************************************************************************)
(* The ring of ring_buffer.rs under every interleaving of its two threads, *)
(* for every capacity, every set of byte values and every length of the    *)
(* data; and the windows of windows.rs under every sequence of calls, for  *)
(* every capacity, every stream and every width of stream positions.       *)
(*                                                                         *)
(* The ring keeps its bytes apart from its free cells while they are       *)
(* copied, and implements ByteQueueSpec.  The send window keeps its list   *)
(* of ranges sorted, keeps the bytes that may be resent, and implements    *)
(* SendBufferSpec.  The receive window keeps the bytes it has received,    *)
(* keeps its list of regions sorted and merged, never moves its end back,  *)
(* and implements ReassemblySpec.                                          *)
(*                                                                         *)
(* For the windows, the lemmas of WindowsProofs show what each operation   *)
(* preserves and answers; what is left is to read this as steps of the set *)
(* of ranges in flight, and of the set of offsets received.                *)
(***************************************************************************)
EXTENDS RingBuffer, SendWindow, RecvWindow, WindowsProofs

----------------------------------------------------------------------------
(* Position arithmetic. *)

\* Advancing the head by at most the room there is adds that many bytes to the queue.
LEMMA IncrementHead ==
  ASSUME NEW h \in Positions, NEW t \in Positions,
         tail_to_head(t, h) \in 0..RingCapacity,
         NEW n \in 0..(RingCapacity - tail_to_head(t, h))
  PROVE  /\ increment(h, n) \in Positions
         /\ tail_to_head(t, increment(h, n)) = tail_to_head(t, h) + n
BY RingAssumption DEF Positions, tail_to_head, increment

\* Advancing the tail by at most the bytes there are takes that many from the queue.
LEMMA IncrementTail ==
  ASSUME NEW h \in Positions, NEW t \in Positions,
         tail_to_head(t, h) \in 0..RingCapacity,
         NEW n \in 0..tail_to_head(t, h)
  PROVE  /\ increment(t, n) \in Positions
         /\ tail_to_head(increment(t, n), h) = tail_to_head(t, h) - n
BY RingAssumption DEF Positions, tail_to_head, increment

\* The two slices of write and of read cover exactly the free and the published bytes.
LEMMA SliceLengths ==
  ASSUME NEW h \in Positions, NEW t \in Positions,
         tail_to_head(t, h) \in 0..RingCapacity
  PROVE  /\ WriteSlices(h, t) = RingCapacity - tail_to_head(t, h)
         /\ ReadSlices(h, t) = tail_to_head(t, h)
BY RingAssumption DEF Positions, tail_to_head, collapse_position, WriteSlices, ReadSlices

\* A cell within one turn of a position is in the allocation.
LEMMA CellType ==
  ASSUME NEW p \in Positions, NEW k \in 0..(RingCapacity-1)
  PROVE  Cell(p, k) \in 0..(RingCapacity-1)
BY RingAssumption DEF Positions, Cell, collapse_position

\* Two offsets within one turn are two different cells.
LEMMA CellInjective ==
  ASSUME NEW p \in Positions, NEW j \in 0..(RingCapacity-1), NEW k \in 0..(RingCapacity-1),
         Cell(p, j) = Cell(p, k)
  PROVE  j = k
BY RingAssumption DEF Positions, Cell, collapse_position

\* Cells counted from the head are the cells after the published ones, from the tail.
LEMMA CellOfHead ==
  ASSUME NEW h \in Positions, NEW t \in Positions,
         tail_to_head(t, h) \in 0..RingCapacity,
         NEW k \in 0..(RingCapacity-1), tail_to_head(t, h) + k < RingCapacity
  PROVE  Cell(h, k) = Cell(t, tail_to_head(t, h) + k)
BY RingAssumption DEF Positions, Cell, collapse_position, tail_to_head

\* Advancing the tail rotates the cells seen from it.
LEMMA CellOfAdvancedTail ==
  ASSUME NEW t \in Positions, NEW n \in 0..RingCapacity, NEW k \in 0..(RingCapacity-1)
  PROVE  Cell(increment(t, n), k) =
           Cell(t, IF k + n < RingCapacity THEN k + n ELSE k + n - RingCapacity)
BY RingAssumption DEF Positions, Cell, collapse_position, increment

----------------------------------------------------------------------------
(* The inductive invariant. *)

\* Bytes published and not yet consumed.
published == tail_to_head(tail, head)

WriterRecord == [pc : {"idle", "copy", "advance"}, seen : Positions,
                 offset : 0..(RingCapacity-1), data : Seq(Byte), len : 0..RingCapacity, done : Nat]

ReaderRecord == [pc : {"idle", "copy", "advance"}, seen : Positions,
                 offset : 0..(RingCapacity-1), buf : Seq(Byte), len : 0..RingCapacity]

(***************************************************************************)
(* What the writer loaded of the tail may be old, but the reader only      *)
(* makes room: the free bytes it saw are still free.                       *)
(***************************************************************************)
WriterInv ==
  /\ writer.pc = "copy" =>
       /\ tail_to_head(writer.seen, head) \in published..RingCapacity
       /\ writer.offset + writer.len <= RingCapacity - tail_to_head(writer.seen, head)
       /\ writer.done < writer.len
       /\ writer.len <= Len(writer.data)
  /\ writer.pc = "advance" => writer.len <= RingCapacity - published

(***************************************************************************)
(* What the reader loaded of the head may be old, but the writer only adds *)
(* bytes: the bytes it saw are still there.                                *)
(***************************************************************************)
ReaderInv ==
  /\ reader.pc = "copy" =>
       /\ tail_to_head(tail, reader.seen) \in 0..published
       /\ reader.offset + reader.len <= tail_to_head(tail, reader.seen)
       /\ Len(reader.buf) <= reader.len
       /\ \A i \in 1..Len(reader.buf) : reader.buf[i] = mem[Cell(tail, reader.offset + i - 1)]
  /\ reader.pc = "advance" => reader.len <= published

RingInv == /\ TypeOK
           /\ published \in 0..RingCapacity
           /\ WriterInv
           /\ ReaderInv

\* RingBuffer::new establishes the inductive invariant.
LEMMA InitIInv == RingInit => RingInv
<1> SUFFICES ASSUME RingInit PROVE RingInv
  OBVIOUS
<1>1. TypeOK
  BY RingAssumption DEF RingInit, TypeOK, WIdle, RIdle, Positions
<1>2. published = 0
  BY RingAssumption DEF RingInit, published, tail_to_head
<1>3. WriterInv /\ ReaderInv
  BY DEF RingInit, WriterInv, ReaderInv, WIdle, RIdle
<1> QED
  BY <1>1, <1>2, <1>3, RingAssumption DEF RingInv

\* The writer's steps that publish nothing.
LEMMA WriterWriteIInv ==
  ASSUME RingInv, NEW offset \in 0..(RingCapacity-1), NEW n \in 1..MaxData,
         NEW bytes \in [1..n -> Byte], WriterWrite(offset, bytes)
  PROVE  RingInv'
<1> DEFINE len == CopyLen(WriteSlices(head, tail), offset, Len(bytes))
<1>1. bytes \in Seq(Byte) /\ Len(bytes) = n
  BY RingAssumption
<1>2. WriteSlices(head, tail) = RingCapacity - published /\ published \in 0..RingCapacity
  BY SliceLengths DEF RingInv, TypeOK, published
<1>3. /\ len \in 1..RingCapacity
      /\ len <= Len(bytes)
      /\ offset + len <= RingCapacity - published
  BY <1>1, <1>2, RingAssumption DEF WriterWrite, CopyLen, Lesser
<1>4. /\ writer' = [pc |-> "copy", seen |-> tail, offset |-> offset,
               data |-> bytes, len |-> len, done |-> 0]
      /\ UNCHANGED <<mem, head, tail, reader>>
  BY DEF WriterWrite
<1> HIDE DEF len
<1>5. TypeOK'
  BY <1>1, <1>3, <1>4 DEF RingInv, TypeOK
<1>6. published' = published
  BY <1>4 DEF published
<1>7. WriterInv'
  BY <1>2, <1>3, <1>4, <1>6 DEF WriterInv, published
<1>8. ReaderInv'
  BY <1>4, <1>6 DEF RingInv, ReaderInv
<1> QED
  BY <1>2, <1>5, <1>6, <1>7, <1>8 DEF RingInv

\* A byte copied by the writer lands outside everything the reader may copy.
LEMMA WriterCopyIInv ==
  ASSUME RingInv, WriterCopy
  PROVE  RingInv'
<1> DEFINE k == writer.offset + writer.done
           c == Cell(head, k)
<1>1. /\ k \in 0..(RingCapacity-1)
      /\ published + k < RingCapacity
      /\ published \in 0..RingCapacity
  BY RingAssumption, SMTT(30) DEF RingInv, TypeOK, WriterInv, WriterCopy
<1>2. c \in 0..(RingCapacity-1) /\ c = Cell(tail, published + k)
  BY <1>1, CellType, CellOfHead DEF RingInv, TypeOK, published
<1>3. writer.data[writer.done + 1] \in Byte
  BY DEF RingInv, TypeOK, WriterInv, WriterCopy
<1>4. /\ mem' = [mem EXCEPT ![c] = writer.data[writer.done + 1]]
      /\ writer' = IF writer.done + 1 = writer.len THEN WIdle ELSE [writer EXCEPT !.done = @ + 1]
      /\ UNCHANGED <<head, tail, reader>>
  BY DEF WriterCopy
<1> HIDE DEF c, k
<1>5. TypeOK'
  <2>1. mem' \in [0..(RingCapacity-1) -> Byte]
    BY <1>2, <1>3, <1>4 DEF RingInv, TypeOK
  <2>2. writer' \in WriterRecord
    <3>1. CASE writer.done + 1 = writer.len
      BY <1>4, <3>1, RingAssumption DEF WriterRecord, WIdle, Positions
    <3>2. CASE writer.done + 1 # writer.len
      <4>1. writer \in WriterRecord /\ writer.done + 1 \in Nat
        BY DEF RingInv, TypeOK, WriterRecord
      <4>2. writer' = [writer EXCEPT !.done = writer.done + 1]
        BY <1>4, <3>2
      <4> QED
        BY <4>1, <4>2 DEF WriterRecord
    <3> QED
      BY <3>1, <3>2
  <2> QED
    BY <1>4, <2>1, <2>2 DEF RingInv, TypeOK, WriterRecord
<1>6. published' = published
  BY <1>4 DEF published
<1>7. WriterInv'
  BY <1>4, <1>6 DEF RingInv, TypeOK, WriterInv, WriterCopy, WIdle
<1>8. ReaderInv'
  <2>1. ASSUME reader.pc = "copy", NEW i \in 1..Len(reader.buf)
        PROVE  mem'[Cell(tail, reader.offset + i - 1)] = mem[Cell(tail, reader.offset + i - 1)]
    <3>0. /\ reader.offset \in Nat /\ reader.len \in Nat /\ Len(reader.buf) \in Nat
          /\ reader.offset + reader.len <= published
          /\ Len(reader.buf) <= reader.len
      BY <1>1, <2>1, RingAssumption DEF RingInv, TypeOK, ReaderInv
    <3>1. /\ reader.offset + i - 1 \in 0..(RingCapacity-1)
          /\ reader.offset + i - 1 < published
          /\ published + k \in 0..(RingCapacity-1)
      BY <1>1, <3>0, RingAssumption, SMTT(30)
    <3>2. Cell(tail, reader.offset + i - 1) # c
      BY <1>1, <1>2, <3>1, CellInjective, SMTT(30) DEF RingInv, TypeOK
    <3>3. Cell(tail, reader.offset + i - 1) \in 0..(RingCapacity-1)
      BY <3>1, CellType DEF RingInv, TypeOK
    <3> QED
      BY <1>4, <3>2, <3>3 DEF RingInv, TypeOK
  <2> QED
    BY <1>4, <1>6, <2>1 DEF RingInv, ReaderInv
<1> QED
  BY <1>1, <1>5, <1>6, <1>7, <1>8 DEF RingInv

\* The amount Writer::advance clamps to fits in the room it saw.
LEMMA WriterAdvanceLoadIInv ==
  ASSUME RingInv, NEW n \in 0..RingCapacity, WriterAdvanceLoad(n)
  PROVE  RingInv'
<1> DEFINE len == Lesser(n, head_to_tail(head, tail))
<1>1. /\ len \in 0..RingCapacity
      /\ len <= RingCapacity - published
      /\ published \in 0..RingCapacity
  BY RingAssumption DEF RingInv, published, head_to_tail, Lesser
<1>2. /\ writer' = [WIdle EXCEPT !.pc = "advance", !.seen = tail, !.len = len]
      /\ UNCHANGED <<mem, head, tail, reader>>
  BY DEF WriterAdvanceLoad
<1> HIDE DEF len
<1>0. writer' = [pc |-> "advance", seen |-> tail, offset |-> 0, data |-> <<>>,
            len |-> len, done |-> 0]
  BY <1>2 DEF WIdle
<1>3. TypeOK'
  BY <1>0, <1>1, <1>2, RingAssumption DEF RingInv, TypeOK
<1>4. published' = published
  BY <1>2 DEF published
<1>5. WriterInv' /\ ReaderInv'
  BY <1>0, <1>1, <1>2, <1>4 DEF RingInv, WriterInv, ReaderInv
<1> QED
  BY <1>1, <1>3, <1>4, <1>5 DEF RingInv

\* Publishing only adds bytes: what the reader saw stays readable.
LEMMA WriterAdvanceStoreIInv ==
  ASSUME RingInv, WriterAdvanceStore
  PROVE  RingInv'
<1>1. /\ writer.len \in 0..(RingCapacity - published)
      /\ published \in 0..RingCapacity
      /\ head \in Positions /\ tail \in Positions
  BY RingAssumption DEF RingInv, TypeOK, WriterInv, WriterAdvanceStore
<1>2. head' \in Positions /\ published' = published + writer.len
  BY <1>1, IncrementHead DEF WriterAdvanceStore, published
<1>3. writer' = WIdle /\ UNCHANGED <<mem, tail, reader>>
  BY DEF WriterAdvanceStore
<1>4. TypeOK'
  BY <1>2, <1>3, RingAssumption, SMTT(90) DEF RingInv, TypeOK, WIdle, Positions
<1>5. published' \in 0..RingCapacity /\ published <= published'
  BY <1>1, <1>2, RingAssumption
<1>6. WriterInv'
  BY <1>3 DEF WriterInv, WIdle
<1>7. ReaderInv'
  BY <1>1, <1>3, <1>5 DEF RingInv, TypeOK, ReaderInv
<1> QED
  BY <1>4, <1>5, <1>6, <1>7 DEF RingInv

\* A read starts within the bytes published when it loaded the head.
LEMMA ReaderReadIInv ==
  ASSUME RingInv, NEW offset \in 0..(RingCapacity-1), NEW n \in 1..MaxData, ReaderRead(offset, n)
  PROVE  RingInv'
<1> DEFINE len == CopyLen(ReadSlices(head, tail), offset, n)
<1>1. ReadSlices(head, tail) = published /\ published \in 0..RingCapacity
  BY SliceLengths DEF RingInv, TypeOK, published
<1>2. len \in 1..RingCapacity /\ offset + len <= published
  BY <1>1, RingAssumption DEF ReaderRead, CopyLen, Lesser
<1>3. /\ reader' = [pc |-> "copy", seen |-> head, offset |-> offset, buf |-> <<>>, len |-> len]
      /\ UNCHANGED <<mem, head, tail, writer>>
  BY DEF ReaderRead
<1> HIDE DEF len
<1>4. TypeOK'
  BY <1>2, <1>3 DEF RingInv, TypeOK
<1>5. published' = published
  BY <1>3 DEF published
<1>6. WriterInv'
  BY <1>3, <1>5 DEF RingInv, WriterInv
<1>7. ReaderInv'
  BY <1>1, <1>2, <1>3, <1>5 DEF ReaderInv, published
<1> QED
  BY <1>1, <1>4, <1>5, <1>6, <1>7 DEF RingInv

\* A byte copied by the reader is the queue's byte at that offset.
LEMMA ReaderCopyIInv ==
  ASSUME RingInv, ReaderCopy
  PROVE  RingInv'
<1> DEFINE c == Cell(tail, reader.offset + Len(reader.buf))
<1>1. /\ reader \in ReaderRecord
      /\ reader.buf \in Seq(Byte)
      /\ Len(reader.buf) \in Nat
      /\ Len(reader.buf) < reader.len
      /\ reader.offset + reader.len <= published
      /\ published \in 0..RingCapacity
  BY RingAssumption, SMTT(30) DEF RingInv, TypeOK, ReaderInv, ReaderCopy, ReaderRecord
<1>2. reader.offset + Len(reader.buf) \in 0..(RingCapacity-1)
  BY <1>1, RingAssumption DEF ReaderRecord
<1>3. mem[c] \in Byte
  BY <1>2, CellType DEF RingInv, TypeOK
<1>4. /\ reader' = [reader EXCEPT !.buf = Append(reader.buf, mem[c])]
      /\ UNCHANGED <<mem, head, tail, writer>>
  BY DEF ReaderCopy
<1> DEFINE b == Append(reader.buf, mem[c])
<1>5. /\ b \in Seq(Byte)
      /\ Len(b) = Len(reader.buf) + 1
      /\ \A i \in 1..Len(reader.buf) : b[i] = reader.buf[i]
      /\ b[Len(reader.buf) + 1] = mem[c]
  BY <1>1, <1>3
<1>6. /\ reader'.buf = b /\ reader'.pc = reader.pc /\ reader'.len = reader.len
      /\ reader'.offset = reader.offset
      /\ reader'.seen = reader.seen
      /\ reader' \in ReaderRecord
  BY <1>1, <1>4, <1>5 DEF ReaderRecord
<1> HIDE DEF b
<1>7. TypeOK'
  BY <1>4, <1>6 DEF RingInv, TypeOK, ReaderRecord
<1>8. published' = published
  BY <1>4 DEF published
<1>9. WriterInv'
  BY <1>4, <1>8 DEF RingInv, WriterInv
<1>10. ReaderInv'
  <2>1. reader.pc = "copy" /\ Len(b) <= reader.len
    BY <1>1, <1>5 DEF ReaderCopy, ReaderRecord
  <2>2. ASSUME NEW i \in 1..Len(b)
        PROVE  b[i] = mem[Cell(tail, reader.offset + i - 1)]
    <3>1. CASE i \in 1..Len(reader.buf)
      BY <1>5, <2>1, <3>1 DEF RingInv, ReaderInv
    <3>2. CASE i = Len(reader.buf) + 1
      <4>1. reader.offset + i - 1 = reader.offset + Len(reader.buf)
        BY <1>1, <3>2 DEF ReaderRecord
      <4> QED
        BY <1>5, <3>2, <4>1
    <3> QED
      BY <1>1, <1>5, <3>1, <3>2
  <2>3. \A i \in 1..Len(reader'.buf) : reader'.buf[i] = mem'[Cell(tail', reader'.offset + i - 1)]
    BY <1>4, <1>6, <2>2
  <2>4. /\ tail_to_head(tail', reader'.seen) \in 0..published'
        /\ reader'.offset + reader'.len <= tail_to_head(tail', reader'.seen)
        /\ Len(reader'.buf) <= reader'.len
    BY <1>4, <1>6, <1>8, <2>1 DEF RingInv, ReaderInv
  <2> QED
    BY <1>6, <2>1, <2>3, <2>4 DEF ReaderInv
<1> QED
  BY <1>1, <1>7, <1>8, <1>9, <1>10 DEF RingInv

\* A read that returns leaves nothing behind.
LEMMA ReaderReturnIInv ==
  ASSUME RingInv, ReaderReturn
  PROVE  RingInv'
<1>1. reader' = RIdle /\ UNCHANGED <<mem, head, tail, writer>>
  BY DEF ReaderReturn
<1>2. TypeOK'
  BY <1>1, RingAssumption DEF RingInv, TypeOK, RIdle, Positions
<1>3. published' = published
  BY <1>1 DEF published
<1> QED
  BY <1>1, <1>2, <1>3 DEF RingInv, WriterInv, ReaderInv, RIdle

\* The amount Reader::advance clamps to is there to be consumed.
LEMMA ReaderAdvanceLoadIInv ==
  ASSUME RingInv, NEW n \in 0..RingCapacity, ReaderAdvanceLoad(n)
  PROVE  RingInv'
<1> DEFINE len == Lesser(n, tail_to_head(tail, head))
<1>1. len \in 0..RingCapacity /\ len <= published /\ published \in 0..RingCapacity
  BY RingAssumption DEF RingInv, published, Lesser
<1>2. /\ reader' = [RIdle EXCEPT !.pc = "advance", !.seen = head, !.len = len]
      /\ UNCHANGED <<mem, head, tail, writer>>
  BY DEF ReaderAdvanceLoad
<1> HIDE DEF len
<1>3. reader' = [pc |-> "advance", seen |-> head, offset |-> 0, buf |-> <<>>, len |-> len]
  BY <1>2 DEF RIdle
<1>4. TypeOK'
  <2>1. reader' \in ReaderRecord
    BY <1>1, <1>3, RingAssumption DEF RingInv, TypeOK, ReaderRecord
  <2> QED
    BY <1>2, <2>1 DEF RingInv, TypeOK, ReaderRecord
<1>5. published' = published
  BY <1>2 DEF published
<1>6. WriterInv' /\ ReaderInv'
  BY <1>1, <1>2, <1>3, <1>5 DEF RingInv, WriterInv, ReaderInv
<1> QED
  BY <1>1, <1>4, <1>5, <1>6 DEF RingInv

\* Consuming only makes room: what the writer saw free stays free.
LEMMA ReaderAdvanceStoreIInv ==
  ASSUME RingInv, ReaderAdvanceStore
  PROVE  RingInv'
<1>1. /\ reader.len \in 0..published
      /\ published \in 0..RingCapacity
      /\ head \in Positions /\ tail \in Positions
  BY RingAssumption DEF RingInv, TypeOK, ReaderInv, ReaderAdvanceStore
<1>2. tail' \in Positions /\ published' = published - reader.len
  BY <1>1, IncrementTail DEF ReaderAdvanceStore, published
<1>3. reader' = RIdle /\ UNCHANGED <<mem, head, writer>>
  BY DEF ReaderAdvanceStore
<1>4. TypeOK'
  BY <1>2, <1>3, RingAssumption DEF RingInv, TypeOK, RIdle, Positions
<1>5. published' \in 0..RingCapacity /\ published' <= published
  BY <1>1, <1>2, RingAssumption
<1>6. WriterInv'
  BY <1>1, <1>3, <1>5, RingAssumption, SMTT(30) DEF RingInv, TypeOK, WriterInv
<1>7. ReaderInv'
  BY <1>3 DEF ReaderInv, RIdle
<1> QED
  BY <1>4, <1>5, <1>6, <1>7 DEF RingInv

\* Every step of either thread preserves the inductive invariant.
LEMMA NextIInv == RingInv /\ [RingNext]_ringVars => RingInv'
<1> SUFFICES ASSUME RingInv, [RingNext]_ringVars PROVE RingInv'
  OBVIOUS
<1>1. CASE Writer
  BY <1>1, WriterWriteIInv, WriterCopyIInv, WriterAdvanceLoadIInv,
     WriterAdvanceStoreIInv DEF Writer
<1>2. CASE Reader
  BY <1>2, ReaderReadIInv, ReaderCopyIInv, ReaderReturnIInv, ReaderAdvanceLoadIInv,
     ReaderAdvanceStoreIInv DEF Reader
<1>3. CASE UNCHANGED ringVars
  BY <1>3 DEF ringVars, RingInv, TypeOK, published, WriterInv, ReaderInv
<1> QED
  BY <1>1, <1>2, <1>3 DEF RingNext

\* The inductive invariant holds in every reachable state.
LEMMA RingInvariance == RingSpec => []RingInv
<1> QED
  BY InitIInv, NextIInv, PTL DEF RingSpec

----------------------------------------------------------------------------
(* Theorems. *)

\* The positions stay in their range and every call keeps inside its bounds.
THEOREM RingTypeOK == RingSpec => []TypeOK
<1>1. RingInv => TypeOK
  BY DEF RingInv
<1> QED
  BY <1>1, RingInvariance, PTL

(***************************************************************************)
(* The slices Writer::write and Reader::read hold at the same time never   *)
(* share a cell, for every capacity.                                       *)
(***************************************************************************)
THEOREM RingSlicesDisjoint == RingSpec => []SlicesDisjoint
<1>1. ASSUME RingInv PROVE SlicesDisjoint
  <2> SUFFICES ASSUME writer.pc = "copy", reader.pc = "copy",
                      NEW j \in 0..(WriteSlices(head, writer.seen) - 1),
                      NEW k \in 0..(ReadSlices(reader.seen, tail) - 1),
                      Cell(head, j) = Cell(tail, k)
               PROVE  FALSE
    BY DEF SlicesDisjoint, WriterCells, ReaderCells
  <2>1. /\ head \in Positions /\ tail \in Positions
        /\ writer.seen \in Positions /\ reader.seen \in Positions
        /\ published \in 0..RingCapacity
        /\ tail_to_head(writer.seen, head) \in published..RingCapacity
        /\ tail_to_head(tail, reader.seen) \in 0..published
    BY <1>1 DEF RingInv, TypeOK, WriterInv, ReaderInv
  <2>2. /\ tail_to_head(writer.seen, head) \in 0..RingCapacity
        /\ tail_to_head(tail, reader.seen) \in 0..RingCapacity
    BY <2>1, RingAssumption
  <2>3. /\ WriteSlices(head, writer.seen) = RingCapacity - tail_to_head(writer.seen, head)
        /\ ReadSlices(reader.seen, tail) = tail_to_head(tail, reader.seen)
    BY <2>1, <2>2, SliceLengths
  <2>4. /\ j \in 0..(RingCapacity-1) /\ published + j \in 0..(RingCapacity-1)
        /\ published + j < RingCapacity
        /\ k \in 0..(RingCapacity-1) /\ k < published
    BY <2>1, <2>2, <2>3, RingAssumption
  <2>5. Cell(head, j) = Cell(tail, published + j)
    BY <2>1, <2>4, CellOfHead DEF published
  <2>6. published + j = k
    BY <2>1, <2>4, <2>5, CellInjective
  <2> QED
    BY <2>1, <2>4, <2>6
<1> QED
  BY <1>1, RingInvariance, PTL

(***************************************************************************)
(* A read in progress returns the bytes of the queue, however far the      *)
(* writer gets meanwhile.                                                  *)
(***************************************************************************)
THEOREM RingReadIsConsistent == RingSpec => []ReadIsConsistent
<1>1. ASSUME RingInv, reader.pc = "copy"
      PROVE  /\ reader.offset + reader.len <= queue.used
             /\ \A i \in 1..Len(reader.buf) : reader.buf[i] = queue.cells[reader.offset + i - 1]
  <2>1. /\ reader.offset \in Nat /\ reader.len \in Nat /\ Len(reader.buf) \in Nat
        /\ published \in 0..RingCapacity
        /\ Len(reader.buf) <= reader.len
        /\ reader.offset + reader.len <= published
    BY <1>1, RingAssumption DEF RingInv, TypeOK, ReaderInv
  <2>2. queue.used = published /\ queue.cells = [k \in 0..(RingCapacity-1) |-> mem[Cell(tail, k)]]
    BY DEF queue, published
  <2>3. ASSUME NEW i \in 1..Len(reader.buf)
        PROVE  reader.buf[i] = queue.cells[reader.offset + i - 1]
    <3>1. reader.offset + i - 1 \in 0..(RingCapacity-1)
      BY <2>1, RingAssumption, SMTT(30)
    <3>2. reader.buf[i] = mem[Cell(tail, reader.offset + i - 1)]
      BY <1>1 DEF RingInv, ReaderInv
    <3> QED
      BY <2>2, <3>1, <3>2
  <2> QED
    BY <2>1, <2>2, <2>3
<1>2. RingInv => ReadIsConsistent
  BY <1>1 DEF ReadIsConsistent
<1> QED
  BY <1>2, RingInvariance, PTL

----------------------------------------------------------------------------
(* The ring implements the queue. *)

\* The abstract queue's two fields, with its definition expanded.
LEMMA QueueValue ==
  queue = [cells |-> [k \in 0..(RingCapacity-1) |-> mem[Cell(tail, k)]], used |-> published]
BY DEF queue, published

\* A new ring is a new queue.
LEMMA InitRefines == RingInit => AtomicQueue!Init
<1> SUFFICES ASSUME RingInit PROVE AtomicQueue!Init
  OBVIOUS
<1> DEFINE cells == [k \in 0..(RingCapacity-1) |-> mem[Cell(tail, k)]]
<1>1. cells \in [0..(RingCapacity-1) -> Byte]
  <2>1. tail \in Positions /\ mem \in [0..(RingCapacity-1) -> Byte]
    BY RingAssumption DEF RingInit, Positions
  <2>2. \A k \in 0..(RingCapacity-1) : mem[Cell(tail, k)] \in Byte
    BY <2>1, CellType
  <2> QED
    BY <2>2
<1>2. published = 0
  BY RingAssumption DEF RingInit, published, tail_to_head
<1> QED
  BY <1>1, <1>2, QueueValue DEF AtomicQueue!Init

\* Copying one byte is a Put, ahead of the head.
LEMMA CopyRefines ==
  ASSUME RingInv, WriterCopy
  PROVE  AtomicQueue!Put
<1> DEFINE k == writer.offset + writer.done
           b == writer.data[writer.done + 1]
<1>1. /\ k \in 0..(RingCapacity-1)
      /\ published \in 0..RingCapacity
      /\ published + k < RingCapacity
      /\ k \in 0..(RingCapacity - published - 1)
      /\ b \in Byte
  <2>1. /\ writer.offset \in Nat /\ writer.done \in Nat /\ writer.len \in Nat
        /\ published \in 0..RingCapacity
        /\ tail_to_head(writer.seen, head) \in published..RingCapacity
        /\ writer.offset + writer.len <= RingCapacity - tail_to_head(writer.seen, head)
        /\ writer.done < writer.len
    BY RingAssumption DEF RingInv, TypeOK, WriterInv, WriterCopy
  <2>2. b \in Byte
    BY DEF RingInv, TypeOK, WriterInv, WriterCopy
  <2> QED
    BY <2>1, <2>2, RingAssumption
<1>2. mem \in [0..(RingCapacity-1) -> Byte] /\ tail \in Positions /\ head \in Positions
  BY DEF RingInv, TypeOK
<1>3. Cell(head, k) = Cell(tail, published + k)
  BY <1>1, <1>2, CellOfHead DEF published
<1>4. mem' = [mem EXCEPT ![Cell(tail, published + k)] = b] /\ tail' = tail /\ published' = published
  BY <1>3 DEF WriterCopy, published
<1> HIDE DEF k, b
<1> DEFINE new == [j \in 0..(RingCapacity-1) |->
                     IF j >= published + k /\ j < published + k + 1 THEN b ELSE mem[Cell(tail, j)]]
<1>5. ASSUME NEW j \in 0..(RingCapacity-1)
      PROVE  mem'[Cell(tail, j)] = new[j]
  <2>1. Cell(tail, j) \in 0..(RingCapacity-1)
    BY <1>2, CellType
  <2>2. CASE j = published + k
    BY <1>1, <1>2, <1>4, <2>1, <2>2
  <2>3. CASE j # published + k
    <3>0. published + k \in 0..(RingCapacity-1)
      BY <1>1, RingAssumption
    <3>1. Cell(tail, j) # Cell(tail, published + k)
      BY <1>2, <2>3, <3>0, CellInjective
    <3>2. ~(j >= published + k /\ j < published + k + 1)
      BY <1>1, <2>3
    <3> QED
      BY <1>2, <1>4, <2>1, <3>1, <3>2
  <2> QED
    BY <2>2, <2>3
<1>6. queue' = [cells |-> new, used |-> published]
  BY <1>4, <1>5 DEF queue, published
<1>7. AtomicQueue!WriteLen(RingCapacity, queue, k, <<b>>) = 1
  <2>1. queue.used = published /\ Len(<<b>>) = 1
    BY QueueValue
  <2> QED
    BY <1>1, <2>1, RingAssumption
       DEF AtomicQueue!WriteLen, AtomicQueue!write_available, AtomicQueue!Lesser
<1>8. AtomicQueue!Write(RingCapacity, queue, k, <<b>>) = [cells |-> new, used |-> published]
  <2>1. queue.used = published /\ queue.cells = [j \in 0..(RingCapacity-1) |-> mem[Cell(tail, j)]]
    BY QueueValue
  <2>2. ASSUME NEW j \in 0..(RingCapacity-1), j >= published + k, j < published + k + 1
        PROVE  <<b>>[j - (published + k) + 1] = b
    <3>1. j - (published + k) + 1 = 1
      BY <1>1, <2>2
    <3> QED
      BY <3>1
  <2>3. [j \in 0..(RingCapacity-1) |-> IF j >= published + k /\ j < published + k + 1
                                   THEN <<b>>[j - (published + k) + 1] ELSE queue.cells[j]] = new
    BY <2>1, <2>2
  <2>4. AtomicQueue!Write(RingCapacity, queue, k, <<b>>) =
          [queue EXCEPT !.cells =
             [j \in 0..(RingCapacity-1) |-> IF j >= published + k /\ j < published + k + 1
                                        THEN <<b>>[j - (published + k) + 1] ELSE queue.cells[j]]]
    BY <1>7, <2>1 DEF AtomicQueue!Write
  <2> QED
    BY <2>3, <2>4, QueueValue
<1>9. k \in 0..(AtomicQueue!write_available(RingCapacity, queue) - 1)
  BY <1>1, QueueValue DEF AtomicQueue!write_available
<1> QED
  BY <1>1, <1>6, <1>8, <1>9 DEF AtomicQueue!Put

\* Storing the head is a Publish.
LEMMA PublishRefines ==
  ASSUME RingInv, WriterAdvanceStore
  PROVE  AtomicQueue!Publish
<1>1. /\ writer.len \in 0..(RingCapacity - published) /\ writer.len \in 0..RingCapacity
      /\ published \in 0..RingCapacity
      /\ head \in Positions /\ tail \in Positions
  BY RingAssumption DEF RingInv, TypeOK, WriterInv, WriterAdvanceStore
<1>2. published' = published + writer.len /\ mem' = mem /\ tail' = tail
  BY <1>1, IncrementHead DEF WriterAdvanceStore, published
<1>3. queue' = [cells |-> [k \in 0..(RingCapacity-1) |-> mem[Cell(tail, k)]],
                used  |-> published + writer.len]
  BY <1>2 DEF queue, published
<1>4. AtomicQueue!WriterAdvance(RingCapacity, queue, writer.len) = queue'
  <2>1. queue.used = published
    BY QueueValue
  <2>2. AtomicQueue!Lesser(writer.len, AtomicQueue!write_available(RingCapacity, queue))
          = writer.len
    BY <1>1, <2>1, RingAssumption DEF AtomicQueue!write_available, AtomicQueue!Lesser
  <2>3. AtomicQueue!WriterAdvance(RingCapacity, queue, writer.len) =
          [queue EXCEPT !.used = published + writer.len]
    BY <2>1, <2>2 DEF AtomicQueue!WriterAdvance
  <2> QED
    BY <1>3, <2>3, QueueValue
<1> QED
  BY <1>1, <1>4 DEF AtomicQueue!Publish

\* Storing the tail is a Consume.
LEMMA ConsumeRefines ==
  ASSUME RingInv, ReaderAdvanceStore
  PROVE  AtomicQueue!Consume
<1>1. /\ reader.len \in 0..published /\ reader.len \in 0..RingCapacity
      /\ published \in 0..RingCapacity
      /\ head \in Positions /\ tail \in Positions
  BY RingAssumption DEF RingInv, TypeOK, ReaderInv, ReaderAdvanceStore
<1>2. published' = published - reader.len /\ mem' = mem /\ tail' = increment(tail, reader.len)
  BY <1>1, IncrementTail DEF ReaderAdvanceStore, published
<1> DEFINE At(k) == IF k + reader.len < RingCapacity THEN k + reader.len
                    ELSE k + reader.len - RingCapacity
           new == [k \in 0..(RingCapacity-1) |-> mem[Cell(tail, At(k))]]
<1>3. \A k \in 0..(RingCapacity-1) : At(k) \in 0..(RingCapacity-1)
  BY <1>1, RingAssumption
<1>4. \A k \in 0..(RingCapacity-1) : Cell(tail', k) = Cell(tail, At(k))
  BY <1>1, <1>2, CellOfAdvancedTail
<1>5. queue' = [cells |-> new, used |-> published - reader.len]
  BY <1>2, <1>4 DEF queue, published
<1>6. AtomicQueue!ReaderAdvance(RingCapacity, queue, reader.len) = queue'
  <2>1. queue.used = published /\ queue.cells = [k \in 0..(RingCapacity-1) |-> mem[Cell(tail, k)]]
    BY QueueValue
  <2>2. AtomicQueue!Lesser(reader.len, queue.used) = reader.len
    BY <1>1, <2>1 DEF AtomicQueue!Lesser
  <2>3. [k \in 0..(RingCapacity-1) |-> queue.cells[At(k)]] = new
    BY <1>3, <2>1
  <2> QED
    BY <1>5, <2>1, <2>2, <2>3 DEF AtomicQueue!ReaderAdvance
<1> QED
  BY <1>1, <1>6 DEF AtomicQueue!Consume

\* Every other step leaves the queue as it is.
LEMMA StutterRefines ==
  ASSUME UNCHANGED <<mem, head, tail>>
  PROVE  UNCHANGED queue
BY DEF queue

\* Every step of the ring is a step of the queue or leaves it alone.
LEMMA NextRefines ==
  ASSUME RingInv, [RingNext]_ringVars
  PROVE  [AtomicQueue!Next]_queue
<1>1. CASE WriterCopy
  BY <1>1, CopyRefines DEF AtomicQueue!Next
<1>2. CASE WriterAdvanceStore
  BY <1>2, PublishRefines DEF AtomicQueue!Next
<1>3. CASE ReaderAdvanceStore
  BY <1>3, ConsumeRefines DEF AtomicQueue!Next
<1>4. CASE UNCHANGED <<mem, head, tail>>
  BY <1>4, StutterRefines
<1> QED
  BY <1>1, <1>2, <1>3, <1>4
     DEF RingNext, Writer, Reader, WriterWrite, WriterAdvanceLoad, ReaderRead, ReaderCopy,
         ReaderReturn, ReaderAdvanceLoad, ringVars

(***************************************************************************)
(* The interleaved ring implements the atomic queue, for every capacity.   *)
(***************************************************************************)
THEOREM RingImplementsByteQueue == RingSpec => ImplementsByteQueue
<1> QED
  BY InitRefines, NextRefines, RingInvariance, PTL
     DEF RingSpec, ImplementsByteQueue, AtomicQueue!Spec

----------------------------------------------------------------------------
(* The send window. *)

SendIInv == /\ SendWindowInv(Capacity, sw)
            /\ ack_result \in {"none", "Ack", "PartialAck", "NotFound"}

\* The assumptions on the constants, as the lemmas use them.
LEMMA CapacityType ==
  /\ Capacity \in Nat \ {0} /\ Capacity <= MaxWindow
  /\ StreamStart \in StreamPositions /\ MaxWindow \in Nat
BY WindowAssumption, HalfRangeAssumption DEF MaxWindow

\* A piece of the stream is a sequence of bytes.
LEMMA StreamType ==
  ASSUME NEW p \in StreamPositions, NEW n \in Nat, n <= MaxWindow
  PROVE  Stream(p, n) \in Seq(Int) /\ Len(Stream(p, n)) = n /\ StreamFrom(p, Stream(p, n))
<1>1. \A k \in 1..n : WrapAdd(p, k - 1) \in Int
  BY HalfRangeAssumption DEF WrapAdd, StreamPositions, Modulus
<1>2. Stream(p, n) \in [1..n -> Int]
  BY <1>1 DEF Stream
<1>3. Stream(p, n) \in Seq(Int) /\ Len(Stream(p, n)) = n
  BY <1>2
<1>4. \A k \in 1..n : Stream(p, n)[k] = WrapAdd(p, k - 1)
  BY DEF Stream
<1> QED
  BY <1>3, <1>4 DEF StreamFrom

\* What a write does.
LEMMA WriteStep ==
  ASSUME SendIInv, NEW n \in 1..Capacity, DoWrite(n)
  PROVE  /\ SendWindowInv(Capacity, sw') /\ ack_result' = ack_result
         /\ sw'.buf.used \in (sw.buf.used + 1)..Capacity
         /\ sw'.sent = sw.sent /\ sw'.unacked_ranges = sw.unacked_ranges
         /\ unacked_start(sw') = unacked_start(sw)
<1> DEFINE bytes == Stream(write_pos, n)
<1>1. SendWindowInv(Capacity, sw) /\ n \in Nat /\ n <= MaxWindow
  BY CapacityType DEF SendIInv
<1>2. sw.buf.used \in Nat /\ unacked_start(sw) \in StreamPositions /\ sw.buf.used <= MaxWindow
  BY <1>1, CapacityType, SendWindowFacts
<1>3. write_pos \in StreamPositions
  <2>1. sw.buf.used \in 0..(Modulus - 1)
    BY <1>2, CapacityType, HalfRangeAssumption DEF MaxWindow, Modulus
  <2> QED
    BY <1>2, <2>1, WrapType DEF write_pos
<1>4. bytes \in Seq(Int) /\ StreamFrom(write_pos, bytes)
  BY <1>1, <1>3, StreamType
<1>5. /\ sw' = SendWindowWrite(Capacity, sw, bytes) /\ ack_result' = ack_result
      /\ WriteLen(Capacity, sw.buf, 0, bytes) > 0
  BY DEF DoWrite
<1> HIDE DEF bytes
<1>6. /\ SendWindowInv(Capacity, sw')
      /\ WriteLen(Capacity, sw.buf, 0, bytes) \in 0..(Capacity - sw.buf.used)
      /\ sw'.buf.used = sw.buf.used + WriteLen(Capacity, sw.buf, 0, bytes)
      /\ sw'.sent = sw.sent /\ sw'.unacked_ranges = sw.unacked_ranges
      /\ unacked_start(sw') = unacked_start(sw)
  BY <1>1, <1>4, <1>5, CapacityType, SendWindowWriteInv DEF write_pos
<1>7. sw'.buf.used \in (sw.buf.used + 1)..Capacity
  BY <1>2, <1>5, <1>6, CapacityType
<1> QED
  BY <1>5, <1>6, <1>7

\* What a send does.
LEMMA SendStep ==
  ASSUME SendIInv, NEW n \in 1..Capacity, DoSend(n)
  PROVE  /\ SendWindowInv(Capacity, sw') /\ ack_result' = ack_result
         /\ sw'.buf = sw.buf
         /\ sw.sent \in Nat /\ sw.buf.used \in Nat /\ SendLen(sw, n) \in Nat \ {0}
         /\ sw'.sent = sw.sent + SendLen(sw, n) /\ sw'.sent <= sw.buf.used
         /\ sw'.unacked_ranges =
              Append(sw.unacked_ranges, <<sw.send_pos, WrapAdd(sw.send_pos, SendLen(sw, n))>>)
         /\ unacked_start(sw') = unacked_start(sw)
<1>1. SendWindowInv(Capacity, sw) /\ n \in Nat
  BY CapacityType DEF SendIInv
<1>2. sw' = send(sw, n) /\ SendLen(sw, n) # 0 /\ ack_result' = ack_result
  BY DEF DoSend
<1>3. sw.sent \in Nat /\ sw.buf.used \in Nat
  BY <1>1, CapacityType, SendWindowFacts
<1> QED
  BY <1>1, <1>2, <1>3, CapacityType, SendInv, SMTT(30)

\* What an acknowledgement does: nothing, or what AckWindow says of the range it hits.
LEMMA AckStep ==
  ASSUME SendIInv, NEW start \in StreamPositions, NEW end \in StreamPositions, DoAck(start, end)
  PROVE  \/ /\ \A i \in 1..Len(sw.unacked_ranges) : ~Hit(sw.unacked_ranges[i], start, end)
            /\ ack_result' = "NotFound" /\ sw' = sw
         \/ \E i \in 1..Len(sw.unacked_ranges) :
              /\ Hit(sw.unacked_ranges[i], start, end)
              /\ ack_result' = IF end = sw.unacked_ranges[i][2] THEN "Ack" ELSE "PartialAck"
              /\ sw' = AckWindow(Capacity, sw, i, end)
<1>1. SendWindowInv(Capacity, sw)
  BY DEF SendIInv
<1>2. PICK ranges \in Seq(Ranges) : ranges = sw.unacked_ranges
  BY <1>1, CapacityType, SendWindowFacts
<1>3. PICK ret : ret = ack_range(Capacity, sw, start, end)
  OBVIOUS
<1>4. sw' = ret.win /\ ack_result' = ret.result
  BY <1>3 DEF DoAck
<1>5. Capacity \in Nat \ {0} /\ Capacity <= MaxWindow
  BY CapacityType
<1>6. AckOutcome(Capacity, sw, ranges, start, end, ret)
  BY <1>1, <1>2, <1>3, <1>5, AckAnswer, ZenonT(30)
<1> QED
  BY <1>2, <1>4, <1>6 DEF AckOutcome

\* What hitting range i changes.
LEMMA AckHit ==
  ASSUME SendIInv, NEW i \in 1..Len(sw.unacked_ranges),
         NEW start \in StreamPositions, NEW end \in StreamPositions,
         Hit(sw.unacked_ranges[i], start, end), NEW win, win = AckWindow(Capacity, sw, i, end)
  PROVE  \E freed \in Nat :
           /\ SendWindowInv(Capacity, win)
           /\ freed <= sw.sent
           /\ win.sent = sw.sent - freed
           /\ win.buf.used = sw.buf.used - freed
           /\ win.unacked_ranges = Remaining(sw.unacked_ranges, i, end)
           /\ unacked_start(win) = WrapAdd(unacked_start(sw), freed)
<1>1. SendWindowInv(Capacity, sw)
  BY DEF SendIInv
<1>2. PICK ranges \in Seq(Ranges) : ranges = sw.unacked_ranges
  BY <1>1, CapacityType, SendWindowFacts
<1>3. Hit(ranges[i], ranges[i][1], end) /\ i \in 1..Len(ranges)
  BY <1>2 DEF Hit
<1>4. Capacity \in Nat \ {0} /\ Capacity <= MaxWindow
  BY CapacityType
<1>5. PICK w : w = sw
  OBVIOUS
<1>6. PICK after : after = AckWindow(Capacity, w, i, end)
  OBVIOUS
<1>7. SendWindowInv(Capacity, w) /\ ranges = w.unacked_ranges
  BY <1>1, <1>2, <1>5
<1> DEFINE freed == Freed(w, ranges, i, end)
<1>8. /\ SendWindowInv(Capacity, after)
      /\ freed \in Nat /\ freed <= w.sent
      /\ after.sent = w.sent - freed
      /\ after.buf.used = w.buf.used - freed
      /\ after.unacked_ranges = Remaining(ranges, i, end)
      /\ unacked_start(after) = WrapAdd(unacked_start(w), freed)
  BY <1>2, <1>3, <1>4, <1>6, <1>7, AckWindowInv
<1>9. win = after
  BY <1>5, <1>6
<1> HIDE DEF freed
<1> QED
  BY <1>2, <1>5, <1>8, <1>9, ZenonT(30)

\* It holds at the start.
LEMMA SendInitInv == SendInit => SendIInv
<1> SUFFICES ASSUME SendInit PROVE SendIInv
  OBVIOUS
<1>1. Unwritten \in Int
  BY DEF Unwritten
<1> QED
  BY <1>1, CapacityType, NewSendWindowInv DEF SendInit, SendIInv

\* Every step keeps it.
LEMMA SendNextInv == SendIInv /\ [SendNext]_sendVars => SendIInv'
<1> SUFFICES ASSUME SendIInv, [SendNext]_sendVars PROVE SendIInv'
  OBVIOUS
<1>1. ASSUME NEW n \in 1..Capacity, DoWrite(n) PROVE SendIInv'
  BY <1>1, WriteStep DEF SendIInv
<1>2. ASSUME NEW n \in 1..Capacity, DoSend(n) PROVE SendIInv'
  BY <1>2, SendStep DEF SendIInv
<1>3. ASSUME NEW start \in StreamPositions, NEW end \in StreamPositions, DoAck(start, end)
      PROVE  SendIInv'
  <2>1. CASE sw' = sw /\ ack_result' = "NotFound"
    BY <2>1 DEF SendIInv
  <2>2. ASSUME NEW i \in 1..Len(sw.unacked_ranges), Hit(sw.unacked_ranges[i], start, end),
               sw' = AckWindow(Capacity, sw, i, end),
               ack_result' = IF end = sw.unacked_ranges[i][2] THEN "Ack" ELSE "PartialAck"
        PROVE  SendIInv'
    <3>1. SendWindowInv(Capacity, sw')
      BY <2>2, AckHit
    <3> QED
      BY <2>2, <3>1 DEF SendIInv
  <2> QED
    BY <1>3, <2>1, <2>2, AckStep
<1>4. CASE UNCHANGED sendVars
  BY <1>4 DEF SendIInv, sendVars
<1> QED
  BY <1>1, <1>2, <1>3, <1>4 DEF SendNext

\* The inductive invariant.
LEMMA SendInvariance == SendSpec => []SendIInv
BY SendInitInv, SendNextInv, PTL DEF SendSpec

(***************************************************************************)
(* The list of unacknowledged ranges is always sorted, without overlap,    *)
(* within the sent bytes, and starts where the window starts: for every    *)
(* pair of positions ack_range is called with, also ones no correct remote *)
(* sends.                                                                  *)
(***************************************************************************)
THEOREM RangesSortedHolds == SendSpec => []RangesSorted
<1>1. SendIInv => RangesSorted
  <2> SUFFICES ASSUME SendIInv PROVE RangesSorted
    OBVIOUS
  <2>1. SendWindowInv(Capacity, sw)
    BY DEF SendIInv
  <2>2. PICK ranges \in Seq(Ranges), base \in StreamPositions, sent \in Nat :
          ranges = sw.unacked_ranges /\ base = unacked_start(sw) /\ sent = sw.sent
    BY <2>1, CapacityType, SendWindowFacts
  <2>3. Ordered(base, sent, ranges) /\ Apart(base, sent, ranges)
    BY <2>1, <2>2 DEF SendWindowInv, Ordered
  <2>4. ASSUME NEW i \in 1..Len(ranges)
        PROVE  /\ WrapSub(ranges[i][1], base) < WrapSub(ranges[i][2], base)
               /\ WrapSub(ranges[i][2], base) <= sent
               /\ i > 1 => WrapSub(ranges[i-1][2], base) <= WrapSub(ranges[i][1], base)
    <3>1. Len(ranges) \in Nat
      BY LenProperties
    <3>2. i > 1 => i - 1 \in 1..Len(ranges) /\ i - 1 < i
      BY <3>1
    <3> QED
      BY <2>3, <3>2 DEF Apart
  <2>5. IF ranges = <<>> THEN sent = 0 ELSE WrapSub(ranges[1][1], base) = 0
    BY <2>3, OffsetOf DEF Ordered
  <2> QED
    BY <2>2, <2>4, <2>5 DEF RangesSorted
<1> QED
  BY <1>1, SendInvariance, PTL

(***************************************************************************)
(* Whatever is unacknowledged can be fetched for a resend, and is what was *)
(* written there.                                                          *)
(***************************************************************************)
THEOREM UnackedReadableHolds == SendSpec => []UnackedReadable
<1>1. SendIInv => UnackedReadable
  <2> SUFFICES ASSUME SendIInv, NEW i \in 1..Len(sw.unacked_ranges),
                      NEW r, r = sw.unacked_ranges[i]
               PROVE  get_unacked(sw, r[1], RangeLen(r)) = Stream(r[1], RangeLen(r))
    BY DEF UnackedReadable
  <2>1. SendWindowInv(Capacity, sw)
    BY DEF SendIInv
  <2>2. PICK ranges \in Seq(Ranges), base \in StreamPositions, sent \in Nat :
          ranges = sw.unacked_ranges /\ base = unacked_start(sw) /\ sent = sw.sent
    BY <2>1, CapacityType, SendWindowFacts
  <2>3. Apart(base, sent, ranges) /\ i \in 1..Len(ranges) /\ r = ranges[i]
    BY <2>1, <2>2 DEF SendWindowInv, Ordered
  <2>4. /\ r[1] \in StreamPositions
        /\ WrapSub(r[1], base) \in Nat /\ WrapSub(r[2], base) \in Nat
        /\ WrapSub(r[1], base) < WrapSub(r[2], base) /\ WrapSub(r[2], base) <= sent
        /\ RangeLen(r) = WrapSub(r[2], base) - WrapSub(r[1], base)
    BY <2>3, ApartOffsets DEF RangeLen
  <2>5. sw.buf.used \in Nat /\ sent <= sw.buf.used
    BY <2>1, <2>2, CapacityType, SendWindowFacts
  <2>6. PICK n \in Nat : n = RangeLen(r)
    BY <2>4
  <2>7. WrapSub(r[1], unacked_start(sw)) + n <= sw.buf.used
    BY <2>2, <2>4, <2>5, <2>6, SMTT(30)
  <2>8. get_unacked(sw, r[1], n) = [k \in 1..n |-> WrapAdd(r[1], k - 1)]
    BY <2>1, <2>4, <2>7, CapacityType, GetUnacked, SMTT(30)
  <2> QED
    BY <2>6, <2>8 DEF Stream
<1> QED
  BY <1>1, SendInvariance, PTL

----------------------------------------------------------------------------
(* Refinement. *)

\* The arithmetic of the abstract specification is that of this one.
LEMMA AbstractArithmetic ==
  /\ \A a, b : SendBuffer!WrapAdd(a, b) = WrapAdd(a, b)
  /\ \A a, b : SendBuffer!WrapSub(a, b) = WrapSub(a, b)
  /\ SendBuffer!StreamPositions = StreamPositions
BY DEF SendBuffer!WrapAdd, SendBuffer!WrapSub, SendBuffer!StreamPositions, SendBuffer!Modulus,
       WrapAdd, WrapSub, StreamPositions, Modulus

\* A range more in the list is a range more in flight.
LEMMA InFlightAppend ==
  ASSUME NEW ranges \in Seq(Ranges), NEW r \in Ranges
  PROVE  InFlight(Append(ranges, r)) = InFlight(ranges) \cup {<<r[1], RangeLen(r)>>}
<1>1. Len(ranges) \in Nat
  BY LenProperties
<1>2. /\ Len(Append(ranges, r)) = Len(ranges) + 1
      /\ \A i \in 1..Len(ranges) : Append(ranges, r)[i] = ranges[i]
      /\ Append(ranges, r)[Len(ranges) + 1] = r
  BY AppendProperties
<1>3. 1..(Len(ranges) + 1) = 1..Len(ranges) \cup {Len(ranges) + 1}
  BY <1>1
<1> QED
  BY <1>2, <1>3 DEF InFlight

\* An acknowledgement of range i takes it out of the set and leaves its rest.
LEMMA InFlightRemaining ==
  ASSUME NEW base \in StreamPositions, NEW sent \in Nat, NEW ranges \in Seq(Ranges),
         Apart(base, sent, ranges), NEW i \in 1..Len(ranges), NEW end \in StreamPositions
  PROVE  InFlight(Remaining(ranges, i, end))
           = (InFlight(ranges) \ {<<ranges[i][1], RangeLen(ranges[i])>>})
               \cup (IF end = ranges[i][2] THEN {} ELSE {<<end, WrapSub(ranges[i][2], end)>>})
<1> DEFINE left == Remaining(ranges, i, end)
           Item(r) == <<r[1], RangeLen(r)>>
<1>1. /\ left \in Seq(Ranges)
      /\ end = ranges[i][2] =>
           /\ Len(left) = Len(ranges) - 1
           /\ \A k \in 1..Len(left) : left[k] = IF k < i THEN ranges[k] ELSE ranges[k + 1]
      /\ end # ranges[i][2] =>
           /\ Len(left) = Len(ranges)
           /\ \A k \in 1..Len(left) :
                left[k] = IF k = i THEN <<end, ranges[i][2]>> ELSE ranges[k]
  BY RemainingRanges, SMTT(30)
<1>2. Len(ranges) \in Nat
  BY LenProperties
<1>3. ASSUME NEW k \in 1..Len(ranges), k # i PROVE Item(ranges[k]) # Item(ranges[i])
  <2>1. /\ WrapSub(ranges[k][1], base) \in Nat /\ WrapSub(ranges[k][2], base) \in Nat
        /\ WrapSub(ranges[i][1], base) \in Nat /\ WrapSub(ranges[i][2], base) \in Nat
        /\ WrapSub(ranges[k][1], base) < WrapSub(ranges[k][2], base)
        /\ WrapSub(ranges[i][1], base) < WrapSub(ranges[i][2], base)
    BY ApartOffsets
  <2>2. \/ WrapSub(ranges[k][2], base) <= WrapSub(ranges[i][1], base)
        \/ WrapSub(ranges[i][2], base) <= WrapSub(ranges[k][1], base)
    BY <1>2, <1>3 DEF Apart
  <2>3. ranges[k][1] # ranges[i][1]
    BY <2>1, <2>2
  <2> QED
    BY <2>3
<1> HIDE DEF left
<1>4. InFlight(ranges) \ {Item(ranges[i])} = {Item(ranges[k]) : k \in (1..Len(ranges)) \ {i}}
  BY <1>3 DEF InFlight
<1>5. CASE end = ranges[i][2]
  <2>1. /\ Len(left) = Len(ranges) - 1
        /\ \A k \in 1..(Len(ranges) - 1) : left[k] = IF k < i THEN ranges[k] ELSE ranges[k + 1]
    BY <1>1, <1>5
  <2>2. InFlight(left) \subseteq {Item(ranges[k]) : k \in (1..Len(ranges)) \ {i}}
    <3> SUFFICES ASSUME NEW k \in 1..(Len(ranges) - 1)
                 PROVE  Item(left[k]) \in {Item(ranges[j]) : j \in (1..Len(ranges)) \ {i}}
      BY <2>1 DEF InFlight
    <3>1. CASE k < i
      <4>1. left[k] = ranges[k] /\ k \in (1..Len(ranges)) \ {i}
        BY <1>2, <2>1, <3>1
      <4> QED
        BY <4>1
    <3>2. CASE k >= i
      <4>1. left[k] = ranges[k + 1] /\ k + 1 \in (1..Len(ranges)) \ {i}
        BY <1>2, <2>1, <3>2
      <4> QED
        BY <4>1
    <3> QED
      BY <3>1, <3>2
  <2>3. {Item(ranges[k]) : k \in (1..Len(ranges)) \ {i}} \subseteq InFlight(left)
    <3> SUFFICES ASSUME NEW k \in (1..Len(ranges)) \ {i}
                 PROVE  \E j \in 1..Len(left) : left[j] = ranges[k]
      BY DEF InFlight
    <3>1. CASE k < i
      <4>1. k \in 1..(Len(ranges) - 1)
        BY <1>2, <3>1
      <4> QED
        BY <2>1, <3>1, <4>1
    <3>2. CASE k > i
      <4>1. k - 1 \in 1..(Len(ranges) - 1) /\ ~(k - 1 < i) /\ (k - 1) + 1 = k
        BY <1>2, <3>2
      <4>2. left[k - 1] = ranges[k]
        BY <2>1, <4>1
      <4> QED
        BY <2>1, <4>1, <4>2
    <3> QED
      BY <3>1, <3>2
  <2> QED
    BY <1>4, <1>5, <2>2, <2>3 DEF left
<1>6. CASE end # ranges[i][2]
  <2>1. /\ Len(left) = Len(ranges)
        /\ \A k \in 1..Len(ranges) :
             left[k] = IF k = i THEN <<end, ranges[i][2]>> ELSE ranges[k]
    BY <1>1, <1>6
  <2>2. Item(left[i]) = <<end, WrapSub(ranges[i][2], end)>>
    BY <2>1 DEF RangeLen
  <2>3. InFlight(left) = {Item(left[k]) : k \in (1..Len(ranges)) \ {i}} \cup {Item(left[i])}
    BY <2>1 DEF InFlight
  <2>4. {Item(left[k]) : k \in (1..Len(ranges)) \ {i}}
          = {Item(ranges[k]) : k \in (1..Len(ranges)) \ {i}}
    BY <2>1
  <2> QED
    BY <1>4, <1>6, <2>2, <2>3, <2>4 DEF left
<1> QED
  BY <1>5, <1>6

\* The initial states map to initial states.
LEMMA SendInitRefines == SendInit => SendBuffer!Init
<1> SUFFICES ASSUME SendInit PROVE SendBuffer!Init
  OBVIOUS
<1>1. /\ sw.buf.used = 0 /\ sw.sent = 0 /\ sw.unacked_ranges = <<>> /\ ack_result = "none"
  BY DEF SendInit, NewSendWindow, NewQueue
<1>2. unacked_start(sw) = StreamStart
  BY CapacityType, NewSendWindowInv DEF SendInit, Unwritten
<1>3. InFlight(sw.unacked_ranges) = {}
  BY <1>1 DEF InFlight
<1> QED
  BY <1>1, <1>2, <1>3 DEF SendBuffer!Init

\* A write adds to what may be sent.
LEMMA WriteRefines ==
  ASSUME SendIInv, NEW n \in 1..Capacity, DoWrite(n)
  PROVE  SendBuffer!Write
BY WriteStep DEF SendBuffer!Write

\* A send adds a range to the set.
LEMMA SendRefines ==
  ASSUME SendIInv, NEW n \in 1..Capacity, DoSend(n)
  PROVE  SendBuffer!Send
<1>1. /\ SendWindowInv(Capacity, sw') /\ ack_result' = ack_result
      /\ sw'.buf = sw.buf
      /\ sw.sent \in Nat /\ sw.buf.used \in Nat /\ SendLen(sw, n) \in Nat \ {0}
      /\ sw'.sent = sw.sent + SendLen(sw, n) /\ sw'.sent <= sw.buf.used
      /\ sw'.unacked_ranges =
           Append(sw.unacked_ranges, <<sw.send_pos, WrapAdd(sw.send_pos, SendLen(sw, n))>>)
      /\ unacked_start(sw') = unacked_start(sw)
  BY SendStep
<1>2. /\ sw.unacked_ranges \in Seq(Ranges) /\ sw.send_pos \in StreamPositions
      /\ WrapAdd(unacked_start(sw), sw.sent) = sw.send_pos
      /\ sw.buf.used <= Capacity
  BY CapacityType, SendWindowFacts DEF SendIInv
<1>3. PICK len \in Nat \ {0} : len = SendLen(sw, n)
  BY <1>1
<1>4. len < Modulus /\ Modulus \in Nat
  BY <1>1, <1>2, <1>3, CapacityType, HalfRangeAssumption DEF MaxWindow, Modulus
<1> DEFINE end == WrapAdd(sw.send_pos, len)
           r   == <<sw.send_pos, end>>
<1>5. end \in StreamPositions /\ WrapSub(end, sw.send_pos) = len
  <2>1. len \in StreamPositions /\ len \in 0..(Modulus - 1)
    BY <1>4 DEF StreamPositions
  <2> QED
    BY <1>2, <2>1, WrapType, WrapInverse
<1>6. r \in Ranges /\ r[1] = sw.send_pos /\ RangeLen(r) = len
  BY <1>2, <1>5 DEF Ranges, RangeLen
<1> HIDE DEF end, r
<1>7. InFlight(sw'.unacked_ranges) = InFlight(sw.unacked_ranges) \cup {<<sw.send_pos, len>>}
  <2>1. sw'.unacked_ranges = Append(sw.unacked_ranges, r)
    BY <1>1, <1>3 DEF r, end
  <2> QED
    BY <1>2, <1>6, <2>1, InFlightAppend
<1>8. sw'.sent \in (sw.sent + 1)..sw.buf.used /\ sw'.sent - sw.sent = len
  BY <1>1, <1>3
<1> QED
  BY <1>1, <1>2, <1>7, <1>8, AbstractArithmetic DEF SendBuffer!Send, InFlight

\* The bytes before the first range left are those ack_range frees.
LEMMA AckedIsFreed ==
  ASSUME NEW base \in StreamPositions, NEW sent \in Nat, NEW freed \in Nat, freed <= sent,
         sent <= MaxWindow, NEW left \in Seq(Ranges),
         WrapAdd(base, freed) \in StreamPositions, Apart(base, sent, left),
         Ordered(WrapAdd(base, freed), sent - freed, left)
  PROVE  freed = CHOOSE n \in 0..sent :
                   /\ n = sent \/ \E r \in InFlight(left) : WrapSub(r[1], base) = n
                   /\ \A r \in InFlight(left) : n <= WrapSub(r[1], base)
<1> DEFINE O(r) == WrapSub(r[1], base)
<1>1. Len(left) \in Nat
  BY LenProperties
<1>2. /\ \A r \in InFlight(left) : \E k \in 1..Len(left) : O(r) = O(left[k])
      /\ \A k \in 1..Len(left) : \E r \in InFlight(left) : O(r) = O(left[k])
  <2>1. ASSUME NEW r \in InFlight(left)
        PROVE  \E k \in 1..Len(left) : O(r) = O(left[k])
    <3>1. PICK k \in 1..Len(left) : r = <<left[k][1], RangeLen(left[k])>>
      BY DEF InFlight
    <3>2. r[1] = left[k][1]
      BY <3>1
    <3> QED
      BY <3>2
  <2>2. ASSUME NEW k \in 1..Len(left)
        PROVE  \E r \in InFlight(left) : O(r) = O(left[k])
    <3>1. PICK r \in InFlight(left) : r = <<left[k][1], RangeLen(left[k])>>
      BY DEF InFlight
    <3>2. r[1] = left[k][1]
      BY <3>1
    <3> QED
      BY <3>2
  <2> QED
    BY <2>1, <2>2
<1>3. \A k \in 1..Len(left) : /\ O(left[k]) \in Nat /\ WrapSub(left[k][2], base) \in Nat
                              /\ O(left[k]) < WrapSub(left[k][2], base)
                              /\ WrapSub(left[k][2], base) <= sent
  BY ApartOffsets
<1>4. 1 \in 1..Len(left) => O(left[1]) = freed
  <2> SUFFICES ASSUME 1 \in 1..Len(left) PROVE O(left[1]) = freed
    OBVIOUS
  <2>1. left # <<>>
    BY <1>1
  <2>2. left[1][1] = WrapAdd(base, freed)
    BY <2>1 DEF Ordered
  <2>3. freed \in StreamPositions
    BY HalfRangeAssumption DEF StreamPositions, Modulus, MaxWindow
  <2>4. WrapSub(WrapAdd(base, freed), base) = freed
    BY <2>3, WrapInverse, SMTT(30)
  <2> QED
    BY <2>2, <2>4, ZenonT(30)
<1>5. \A k \in 1..Len(left) : freed <= O(left[k])
  <2> SUFFICES ASSUME NEW k \in 1..Len(left) PROVE freed <= O(left[k])
    OBVIOUS
  <2>1. 1 \in 1..Len(left)
    BY <1>1
  <2>2. CASE k = 1
    BY <1>3, <1>4, <2>1, <2>2
  <2>3. CASE 1 < k
    <3>1. WrapSub(left[1][2], base) <= O(left[k])
      BY <2>1, <2>3 DEF Apart
    <3> QED
      BY <1>3, <1>4, <2>1, <3>1
  <2> QED
    BY <1>1, <2>2, <2>3
<1>6. left = <<>> => freed = sent
  BY DEF Ordered
<1> HIDE DEF O
<1>7. \A r \in InFlight(left) : O(r) \in Nat /\ O(r) < sent /\ freed <= O(r)
  <2> SUFFICES ASSUME NEW r \in InFlight(left) PROVE O(r) \in Nat /\ O(r) < sent /\ freed <= O(r)
    OBVIOUS
  <2>1. PICK k \in 1..Len(left) : O(r) = O(left[k])
    BY <1>2
  <2> QED
    BY <1>3, <1>5, <2>1
<1>8. freed = sent \/ \E r \in InFlight(left) : O(r) = freed
  <2>1. CASE left = <<>>
    BY <1>6, <2>1
  <2>2. CASE left # <<>>
    <3>1. 1 \in 1..Len(left)
      BY <1>1, <2>2, EmptySeq
    <3> QED
      BY <1>2, <1>4, <3>1
  <2> QED
    BY <2>1, <2>2
<1> DEFINE First(n) == /\ n = sent \/ \E r \in InFlight(left) : O(r) = n
                       /\ \A r \in InFlight(left) : n <= O(r)
<1>9. freed \in 0..sent /\ First(freed)
  BY <1>7, <1>8
<1>10. ASSUME NEW n \in 0..sent, First(n) PROVE n = freed
  <2>1. CASE freed = sent
    <3>1. InFlight(left) = {}
      BY <1>7, <2>1
    <3> QED
      BY <1>10, <2>1, <3>1
  <2>2. CASE freed # sent
    <3>1. PICK r \in InFlight(left) : O(r) = freed
      BY <1>8, <2>2
    <3>2. n <= freed
      BY <1>10, <3>1
    <3>3. n # sent
      BY <3>2, <2>2
    <3>4. PICK q \in InFlight(left) : O(q) = n
      BY <1>10, <3>3
    <3> QED
      BY <1>7, <3>2, <3>4
  <2> QED
    BY <2>1, <2>2
<1> HIDE DEF First
<1>11. freed = CHOOSE n \in 0..sent : First(n)
  BY <1>9, <1>10
<1> QED
  BY <1>11 DEF First, O

\* How long the rest of a range is.
LEMMA RestLen ==
  ASSUME NEW start \in StreamPositions, NEW end \in StreamPositions, NEW last \in StreamPositions,
         WrapSub(end, start) <= WrapSub(last, start)
  PROVE  WrapSub(last, end) = WrapSub(last, start) - WrapSub(end, start)
BY OffsetOf

\* The range an acknowledgement names is the one in the list that it hits, ...
LEMMA NamedHit ==
  ASSUME NEW base \in StreamPositions, NEW sent \in Nat, NEW ranges \in Seq(Ranges),
         ranges = sw.unacked_ranges, Apart(base, sent, ranges), NEW i \in 1..Len(ranges),
         NEW start \in StreamPositions, NEW end \in StreamPositions, Hit(ranges[i], start, end)
  PROVE  SendBuffer!Named(start, end) = {<<ranges[i][1], RangeLen(ranges[i])>>}
<1> DEFINE Item(k) == <<ranges[k][1], RangeLen(ranges[k])>>
<1>1. Len(ranges) \in Nat
  BY LenProperties
<1>2. ASSUME NEW k \in 1..Len(ranges), k # i PROVE ranges[k][1] # ranges[i][1]
  <2>1. /\ WrapSub(ranges[k][1], base) \in Nat /\ WrapSub(ranges[k][2], base) \in Nat
        /\ WrapSub(ranges[i][1], base) \in Nat /\ WrapSub(ranges[i][2], base) \in Nat
        /\ WrapSub(ranges[k][1], base) < WrapSub(ranges[k][2], base)
        /\ WrapSub(ranges[i][1], base) < WrapSub(ranges[i][2], base)
    BY ApartOffsets
  <2>2. \/ WrapSub(ranges[k][2], base) <= WrapSub(ranges[i][1], base)
        \/ WrapSub(ranges[i][2], base) <= WrapSub(ranges[k][1], base)
    BY <1>1, <1>2 DEF Apart
  <2> QED
    BY <2>1, <2>2
<1>3. /\ ranges[i][1] = start
      /\ Item(i)[1] = start /\ Item(i)[2] = RangeLen(ranges[i])
      /\ WrapSub(end, start) \in 1..RangeLen(ranges[i])
  BY DEF Hit, RangeLen
<1>4. \A k \in 1..Len(ranges) : Item(k)[1] = start => k = i
  BY <1>2, <1>3
<1>5. SendBuffer!Named(start, end)
        = {r \in {Item(k) : k \in 1..Len(ranges)} : r[1] = start /\ WrapSub(end, start) \in 1..r[2]}
  BY AbstractArithmetic DEF SendBuffer!Named, InFlight
<1> HIDE DEF Item
<1>6. SendBuffer!Named(start, end) = {Item(i)}
  BY <1>3, <1>4, <1>5
<1> QED
  BY <1>6 DEF Item

\* ... and none when it hits none.
LEMMA NamedNone ==
  ASSUME NEW ranges \in Seq(Ranges), ranges = sw.unacked_ranges,
         NEW start \in StreamPositions, NEW end \in StreamPositions,
         \A i \in 1..Len(ranges) : ~Hit(ranges[i], start, end)
  PROVE  SendBuffer!Named(start, end) = {}
<1>1. ASSUME NEW r \in InFlight(ranges), r[1] = start, WrapSub(end, start) \in 1..r[2]
      PROVE  FALSE
  <2>1. PICK i \in 1..Len(ranges) : r = <<ranges[i][1], RangeLen(ranges[i])>>
    BY DEF InFlight
  <2> QED
    BY <1>1, <2>1 DEF Hit, RangeLen
<1> QED
  BY <1>1, AbstractArithmetic DEF SendBuffer!Named

\* An acknowledgement takes its range out of the set, or shortens it, and is answered so.
LEMMA AckIsRight ==
  ASSUME SendIInv, NEW start \in StreamPositions, NEW end \in StreamPositions,
         NEW ret, ret = ack_range(Capacity, sw, start, end)
  PROVE  AckedRight(start, end, ret)
<1>1. SendWindowInv(Capacity, sw)
  BY DEF SendIInv
<1>2. PICK ranges \in Seq(Ranges), base \in StreamPositions, sent \in Nat, used \in Nat :
        /\ ranges = sw.unacked_ranges /\ base = unacked_start(sw) /\ sent = sw.sent
        /\ used = sw.buf.used
        /\ sent <= MaxWindow
  BY <1>1, CapacityType, SendWindowFacts
<1>3. Apart(base, sent, ranges)
  BY <1>1, <1>2 DEF SendWindowInv, Ordered
<1>4. AckOutcome(Capacity, sw, ranges, start, end, ret)
  <2>1. Capacity \in Nat \ {0} /\ Capacity <= MaxWindow
    BY CapacityType
  <2> QED
    BY <1>1, <1>2, <2>1, AckAnswer, ZenonT(30)
<1>5. CASE /\ \A i \in 1..Len(ranges) : ~Hit(ranges[i], start, end)
           /\ ret.result = "NotFound" /\ ret.win = sw
  <2>1. SendBuffer!Named(start, end) = {}
    BY <1>2, <1>5, NamedNone
  <2>2. /\ SendBuffer!Answer(start, end) = "NotFound"
        /\ SendBuffer!Freed(start, end) = 0
        /\ SendBuffer!Left(start, end) = InFlight(sw.unacked_ranges)
    BY <2>1 DEF SendBuffer!Answer, SendBuffer!Freed, SendBuffer!Left
  <2>3. WrapAdd(base, 0) = base
    BY HalfRangeAssumption DEF WrapAdd, StreamPositions, Modulus
  <2>4. used - 0 = used /\ sent - 0 = sent
    OBVIOUS
  <2> QED
    BY <1>2, <1>5, <2>2, <2>3, <2>4 DEF AckedRight
<1>6. ASSUME NEW i \in 1..Len(ranges), Hit(ranges[i], start, end),
             ret.result = IF end = ranges[i][2] THEN "Ack" ELSE "PartialAck",
             ret.nacked_end = ranges[i][2],
             ret.win = AckWindow(Capacity, sw, i, end)
      PROVE  AckedRight(start, end, ret)
  <2> DEFINE len  == WrapSub(end, start)
             r    == <<ranges[i][1], RangeLen(ranges[i])>>
  <2>1. PICK left \in Seq(Ranges) : left = Remaining(ranges, i, end)
    BY RemainingRanges
  <2>2. PICK freed \in Nat :
          /\ SendWindowInv(Capacity, ret.win)
          /\ freed <= sent
          /\ ret.win.sent = sent - freed
          /\ ret.win.buf.used = sw.buf.used - freed
          /\ ret.win.unacked_ranges = left
          /\ unacked_start(ret.win) = WrapAdd(base, freed)
    BY <1>2, <1>6, <2>1, AckHit
  <2>3. /\ Ordered(WrapAdd(base, freed), sent - freed, left)
        /\ WrapAdd(base, freed) \in StreamPositions
    <3>1. unacked_start(ret.win) \in StreamPositions
      BY <2>2, CapacityType, SendWindowFacts
    <3> QED
      BY <2>2, <3>1 DEF SendWindowInv
  <2>4. Hit(ranges[i], ranges[i][1], end) /\ ranges[i][1] = start
    BY <1>6 DEF Hit
  <2>5. Apart(base, sent, left)
    BY <1>3, <2>1, <2>4, RemainingApart
  <2>6. r[1] = start /\ len \in 1..r[2] /\ r[2] = RangeLen(ranges[i])
    BY <1>6 DEF Hit, RangeLen
  <2>7. /\ len = RangeLen(ranges[i]) <=> end = ranges[i][2]
        /\ WrapAdd(start, len) = end
        /\ RangeLen(ranges[i]) - len = WrapSub(ranges[i][2], end)
    <3>1. ranges[i][2] \in StreamPositions /\ RangeLen(ranges[i]) = WrapSub(ranges[i][2], start)
      BY <2>4, RangeType DEF RangeLen
    <3>2. len \in 1..WrapSub(ranges[i][2], start)
      BY <2>6, <3>1
    <3>3. WrapSub(ranges[i][2], start) \in Int /\ len \in Int
      BY <3>1, OffsetOf
    <3>4. len <= WrapSub(ranges[i][2], start)
      BY <3>2, <3>3
    <3>5. len = WrapSub(ranges[i][2], start) <=> end = ranges[i][2]
      BY <3>1, OffsetOf, ZenonT(30)
    <3>6. WrapAdd(start, len) = end
      BY OffsetOf
    <3>7. WrapSub(ranges[i][2], end) = WrapSub(ranges[i][2], start) - len
      <4>1. PICK last \in StreamPositions : last = ranges[i][2]
        BY <3>1
      <4>2. WrapSub(end, start) <= WrapSub(last, start)
        BY <3>4, <4>1
      <4>3. WrapSub(last, end) = WrapSub(last, start) - WrapSub(end, start)
        BY <4>2, RestLen
      <4> QED
        BY <4>1, <4>3
    <3> QED
      BY <3>1, <3>5, <3>6, <3>7
  <2>8. SendBuffer!Rest(r, len)
          = IF end = ranges[i][2] THEN {} ELSE {<<end, WrapSub(ranges[i][2], end)>>}
    BY <2>6, <2>7, AbstractArithmetic DEF SendBuffer!Rest
  <2>9. (InFlight(ranges) \ {r}) \cup SendBuffer!Rest(r, len) = InFlight(left)
    BY <1>3, <2>1, <2>8, InFlightRemaining
  <2>10. SendBuffer!Acked(InFlight(left), sent) = freed
    <3>1. freed = CHOOSE n \in 0..sent :
                    /\ n = sent \/ \E q \in InFlight(left) : WrapSub(q[1], base) = n
                    /\ \A q \in InFlight(left) : n <= WrapSub(q[1], base)
      BY <1>2, <2>2, <2>3, <2>5, AckedIsFreed, SMTT(30)
    <3> QED
      BY <1>2, <3>1, AbstractArithmetic DEF SendBuffer!Acked
  <2> HIDE DEF len, r
  <2>11. SendBuffer!Named(start, end) = {r} /\ SendBuffer!WrapSub(end, start) = len
    BY <1>2, <1>3, <1>6, NamedHit, AbstractArithmetic DEF r, len
  <2>12. SendBuffer!Left(start, end) = InFlight(left)
    BY <1>2, <2>9, <2>11 DEF SendBuffer!Left
  <2>13. SendBuffer!Freed(start, end) = freed
    BY <1>2, <2>10, <2>11, <2>12 DEF SendBuffer!Freed
  <2>14. SendBuffer!Answer(start, end) = ret.result
    BY <1>6, <2>6, <2>7, <2>11 DEF SendBuffer!Answer
  <2>15. ret.result = "PartialAck" => <<end, WrapSub(ret.nacked_end, end)>> \in InFlight(left)
    BY <1>6, <2>8, <2>9
  <2> QED
    BY <1>2, <2>2, <2>12, <2>13, <2>14, <2>15 DEF AckedRight
<1> QED
  BY <1>4, <1>5, <1>6 DEF AckOutcome

\* Whatever pair of positions comes next, ack_range does what is documented.
LEMMA AcksAreRight == SendIInv => AcksRight
BY AckIsRight DEF AcksRight

\* So an acknowledgement is a step of the buffer.
LEMMA AckRefines ==
  ASSUME SendIInv, NEW start \in StreamPositions, NEW end \in StreamPositions, DoAck(start, end)
  PROVE  SendBuffer!Ack(start, end)
<1>1. PICK ret : ret = ack_range(Capacity, sw, start, end)
  OBVIOUS
<1>2. sw' = ret.win /\ ack_result' = ret.result
  BY <1>1 DEF DoAck
<1>3. AckedRight(start, end, ret)
  BY <1>1, AckIsRight
<1> QED
  BY <1>2, <1>3, AbstractArithmetic DEF AckedRight, SendBuffer!Ack, InFlight

\* Every step of the window is a step of the buffer.
LEMMA SendNextRefines == SendIInv /\ [SendNext]_sendVars => [SendBuffer!Next]_(SendBuffer!vars)
<1> SUFFICES ASSUME SendIInv, [SendNext]_sendVars PROVE [SendBuffer!Next]_(SendBuffer!vars)
  OBVIOUS
<1>1. ASSUME NEW n \in 1..Capacity, DoWrite(n) PROVE SendBuffer!Next
  BY <1>1, WriteRefines DEF SendBuffer!Next
<1>2. ASSUME NEW n \in 1..Capacity, DoSend(n) PROVE SendBuffer!Next
  BY <1>2, SendRefines DEF SendBuffer!Next
<1>3. ASSUME NEW start \in StreamPositions, NEW end \in StreamPositions, DoAck(start, end)
      PROVE  SendBuffer!Next
  BY <1>3, AckRefines, AbstractArithmetic DEF SendBuffer!Next
<1>4. CASE UNCHANGED sendVars
  BY <1>4 DEF sendVars, SendBuffer!vars, unacked_start
<1> QED
  BY <1>1, <1>2, <1>3, <1>4 DEF SendNext

(***************************************************************************)
(* In every state, for every pair of positions, ack_range of that pair     *)
(* gives the documented answer, leaves the ranges and frees the bytes it   *)
(* should, and never panics.                                               *)
(***************************************************************************)
THEOREM AcksRightHolds == SendSpec => []AcksRight
<1> QED
  BY AcksAreRight, SendInvariance, PTL

\* The window with its sorted list implements the buffer with its set of ranges.
THEOREM SendWindowImplementsSendBuffer == SendSpec => ImplementsSendBuffer
<1> QED
  BY SendInitRefines, SendNextRefines, SendInvariance, PTL
  DEF SendSpec, ImplementsSendBuffer, SendBuffer!Spec

----------------------------------------------------------------------------
(* The receive window. *)

RecvIInv == /\ RecvWindowInv(Capacity, StreamStart, StreamLen, rw)
            /\ recv_result \in {"none", "None", "Some"}

\* The assumptions on the constants, as the lemmas use them.
LEMMA ConstantsType ==
  /\ Capacity \in Nat \ {0} /\ Capacity <= MaxWindow
  /\ StreamStart \in StreamPositions
  /\ StreamLen \in Nat /\ StreamLen <= MaxWindow
  /\ MaxWindow \in Nat /\ Modulus \in Nat /\ Modulus = 2 * MaxWindow + 2
BY WindowAssumption, RecvWindowAssumption, HalfRangeAssumption DEF MaxWindow, Modulus

\* The model's names for the state are those of the lemmas.
LEMMA StateType ==
  ASSUME RecvIInv
  PROVE  /\ recv_offset \in Nat /\ taken \in Nat /\ rw.buf.used \in Nat
         /\ recv_offset = WrapSub(rw.recv_pos, StreamStart)
         /\ taken = ReadOffset(StreamStart, rw)
         /\ taken + rw.buf.used = recv_offset /\ recv_offset <= StreamLen
         /\ rw.unready \in Seq(Ranges) /\ rw.recv_pos \in StreamPositions
<1>1. RecvWindowInv(Capacity, StreamStart, StreamLen, rw)
  BY DEF RecvIInv
<1>2. /\ rw.buf.used \in Nat /\ WrapSub(rw.recv_pos, StreamStart) \in Nat
      /\ WrapSub(rw.recv_pos, StreamStart) <= StreamLen
      /\ ReadOffset(StreamStart, rw) \in Nat
      /\ ReadOffset(StreamStart, rw) = WrapSub(rw.recv_pos, StreamStart) - rw.buf.used
      /\ rw.unready \in Seq(Ranges) /\ rw.recv_pos \in StreamPositions
  BY <1>1, ConstantsType, RecvWindowFacts
<1>3. /\ recv_offset = WrapSub(rw.recv_pos, StreamStart)
      /\ taken = ReadOffset(StreamStart, rw)
  BY DEF recv_offset, taken, Offset, ReadOffset
<1> QED
  BY <1>2, <1>3

\* got is the set of the offsets held.
LEMMA GotIsHeld ==
  ASSUME RecvIInv
  PROVE  /\ got \subseteq Nat
         /\ \A o \in Nat : o \in got <=> Held(StreamStart, rw, o)
<1>1. /\ recv_offset \in Nat /\ recv_offset = WrapSub(rw.recv_pos, StreamStart)
      /\ rw.unready \in Seq(Ranges)
  BY StateType
<1> DEFINE O(p) == WrapSub(p, StreamStart)
           lo(i) == O(rw.unready[i][1])
           hi(i) == O(rw.unready[i][2])
<1>2. \A i \in 1..Len(rw.unready) : lo(i) \in Nat /\ hi(i) \in Nat
  BY <1>1, ConstantsType, RegionOffsets
<1>3. got = 0..(recv_offset - 1) \cup UNION {lo(i)..(hi(i) - 1) : i \in 1..Len(rw.unready)}
  BY DEF got, Offset
<1>4. \A o : Held(StreamStart, rw, o)
        <=> o < recv_offset \/ \E i \in 1..Len(rw.unready) : lo(i) <= o /\ o < hi(i)
  BY <1>1 DEF Held, Inside
<1> HIDE DEF lo, hi
<1>5. \A i \in 1..Len(rw.unready) :
      \A o : o \in lo(i)..(hi(i) - 1) <=> o \in Nat /\ lo(i) <= o /\ o < hi(i)
  BY <1>2
<1>6. \A o : o \in 0..(recv_offset - 1) <=> o \in Nat /\ o < recv_offset
  BY <1>1
<1>7. \A o : o \in got <=> \/ o \in 0..(recv_offset - 1)
                           \/ \E i \in 1..Len(rw.unready) : o \in lo(i)..(hi(i) - 1)
  BY <1>3
<1> QED
  BY <1>4, <1>5, <1>6, <1>7

\* A block of the stream, as recv gets it.
LEMMA BlockType ==
  ASSUME RecvIInv, NEW b \in Blocks
  PROVE  /\ b[1] \in Nat /\ b[2] \in Nat /\ b[1] <= b[2] /\ b[2] <= StreamLen
         /\ Pos(b[1]) \in StreamPositions /\ StreamBytes(b[1], b[2]) \in Seq(Int)
         /\ \E last \in Nat :
              /\ last = Lesser(b[2], taken + Capacity)
              /\ RecvKept(Capacity, StreamStart, StreamLen, rw, b[1], last,
                          recv(Capacity, rw, Pos(b[1]), StreamBytes(b[1], b[2])))
<1>1. PICK s \in Nat, e \in Nat : s = b[1] /\ e = b[2]
  BY ConstantsType DEF Blocks
<1>2. s <= e /\ e <= StreamLen /\ taken + Capacity <= s + MaxWindow
  BY <1>1 DEF Blocks
<1>3. taken \in Nat /\ taken = ReadOffset(StreamStart, rw)
  BY StateType
<1>4. PICK n \in Nat : n = e - s /\ s + n = e
  BY <1>2
<1>5. s < Modulus /\ n <= MaxWindow /\ s + n < Modulus
  BY <1>2, <1>4, ConstantsType
<1>6. Pos(s) \in StreamPositions /\ WrapSub(Pos(s), StreamStart) = s
  <2>1. s \in StreamPositions /\ s \in 0..(Modulus - 1)
    BY <1>5, ConstantsType DEF StreamPositions
  <2> QED
    BY <2>1, ConstantsType, WrapType, WrapInverse DEF Pos
<1> DEFINE bytes == StreamBytes(s, e)
<1>7. bytes \in Seq(Int) /\ Len(bytes) = n /\ StreamFrom(Pos(s), bytes)
  <2>1. bytes = [k \in 1..n |-> Pos(s + k - 1)]
    BY <1>4 DEF StreamBytes
  <2>2. ASSUME NEW k \in 1..n
        PROVE  Pos(s + k - 1) = WrapAdd(Pos(s), k - 1) /\ Pos(s + k - 1) \in Int
    <3>1. k - 1 \in Nat /\ s + (k - 1) < Modulus /\ s + (k - 1) = s + k - 1
      BY <1>5, ConstantsType
    <3>2. WrapAdd(WrapAdd(StreamStart, s), k - 1) = WrapAdd(StreamStart, s + (k - 1))
      BY <3>1, ConstantsType, WrapAddAssociative
    <3>3. WrapAdd(StreamStart, s + (k - 1)) \in Int
      BY <3>1, ConstantsType DEF WrapAdd, StreamPositions
    <3> QED
      BY <3>1, <3>2, <3>3 DEF Pos
  <2>3. bytes \in [1..n -> Int]
    BY <2>1, <2>2
  <2>4. bytes \in Seq(Int) /\ Len(bytes) = n
    BY <2>3
  <2>5. \A k \in 1..n : bytes[k] = WrapAdd(Pos(s), k - 1)
    BY <2>1, <2>2
  <2> QED
    BY <2>4, <2>5 DEF StreamFrom
<1> HIDE DEF bytes
<1>8. PICK last \in Nat : last = Lesser(e, taken + Capacity)
  BY <1>3, ConstantsType DEF Lesser
<1>9. BlockAt(Capacity, StreamStart, StreamLen, rw, Pos(s), bytes, s, n, taken, last)
  BY <1>2, <1>3, <1>4, <1>6, <1>7, <1>8, ConstantsType DEF BlockAt, RecvIInv
<1>10. RecvKept(Capacity, StreamStart, StreamLen, rw, s, last,
                recv(Capacity, rw, Pos(s), bytes))
  BY <1>3, <1>6, <1>7, <1>9, ConstantsType, RecvKeeps
<1> QED
  BY <1>1, <1>2, <1>6, <1>7, <1>8, <1>10 DEF bytes

\* What a block does.
LEMMA RecvStep ==
  ASSUME RecvIInv, NEW b \in Blocks, DoRecv(b[1], b[2])
  PROVE  \E last \in Nat :
           /\ last = Lesser(b[2], taken + Capacity) /\ last <= StreamLen
           /\ RecvIInv' /\ taken' = taken
           /\ Extends(StreamStart, rw, b[1], last, rw')
           /\ IF b[1] < last THEN recv_result' = "Some" /\ Offset(bound') = last
                            ELSE recv_result' = "None"
<1>1. PICK s \in Nat, e \in Nat : s = b[1] /\ e = b[2] /\ e <= StreamLen
  BY BlockType
<1>2. PICK ret : ret = recv(Capacity, rw, Pos(b[1]), StreamBytes(b[1], b[2]))
  OBVIOUS
<1>3. PICK last \in Nat :
        /\ last = Lesser(b[2], taken + Capacity)
        /\ RecvKept(Capacity, StreamStart, StreamLen, rw, b[1], last, ret)
  BY <1>2, BlockType
<1>4. /\ rw' = ret.win /\ recv_result' = ret.result
      /\ bound' = IF ret.result = "Some" THEN ret.end ELSE bound
  BY <1>2 DEF DoRecv
<1>5. last <= StreamLen
  <2>1. taken \in Nat
    BY StateType
  <2> QED
    BY <1>1, <1>3, <2>1, ConstantsType DEF Lesser
<1>6. /\ RecvWindowInv(Capacity, StreamStart, StreamLen, rw')
      /\ ReadOffset(StreamStart, rw') = ReadOffset(StreamStart, rw)
      /\ Extends(StreamStart, rw, b[1], last, rw')
  BY <1>3, <1>4 DEF RecvKept
<1>7. IF b[1] < last THEN recv_result' = "Some" /\ WrapSub(bound', StreamStart) = last
                     ELSE recv_result' = "None"
  BY <1>3, <1>4 DEF RecvKept
<1>8. taken' = taken
  BY <1>6 DEF taken, recv_offset, Offset, ReadOffset
<1>9. RecvIInv'
  BY <1>6, <1>7 DEF RecvIInv
<1> QED
  BY <1>3, <1>5, <1>6, <1>7, <1>8, <1>9 DEF Offset

\* What a read does.
LEMMA ReadStep ==
  ASSUME RecvIInv, NEW n \in 1..Capacity, DoRead(n)
  PROVE  /\ RecvIInv' /\ taken' > taken /\ taken' <= recv_offset /\ taken' \in Nat
         /\ recv_offset' = recv_offset /\ rw'.unready = rw.unready
         /\ recv_result' = recv_result /\ bound' = bound
<1>1. /\ RecvWindowInv(Capacity, StreamStart, StreamLen, rw) /\ n \in Nat /\ n > 0
  BY ConstantsType DEF RecvIInv
<1>2. /\ rw' = RecvWindowRead(Capacity, rw, n) /\ rw.buf.used > 0
      /\ recv_result' = recv_result /\ bound' = bound
  BY DEF DoRead, read_available
<1>3. /\ taken \in Nat /\ rw.buf.used \in Nat /\ taken + rw.buf.used = recv_offset
      /\ taken = ReadOffset(StreamStart, rw)
  BY StateType
<1>4. PICK m \in Nat : m = Lesser(n, rw.buf.used) /\ m > 0 /\ m <= rw.buf.used
  BY <1>1, <1>2, <1>3 DEF Lesser
<1>5. /\ RecvWindowInv(Capacity, StreamStart, StreamLen, rw')
      /\ rw'.recv_pos = rw.recv_pos /\ rw'.unready = rw.unready
      /\ ReadOffset(StreamStart, rw') = ReadOffset(StreamStart, rw) + m
  BY <1>1, <1>2, <1>4, ConstantsType, RecvWindowReadInv
<1>6. taken' = ReadOffset(StreamStart, rw') /\ recv_offset' = recv_offset
  BY <1>5 DEF taken, recv_offset, Offset, ReadOffset
<1>7. taken' = taken + m
  BY <1>3, <1>5, <1>6
<1>8. taken' > taken /\ taken' <= recv_offset /\ taken' \in Nat
  BY <1>3, <1>4, <1>7
<1> QED
  BY <1>2, <1>5, <1>6, <1>8 DEF RecvIInv

\* It holds at the start.
LEMMA RecvInitInv == RecvInit => RecvIInv
<1> SUFFICES ASSUME RecvInit PROVE RecvIInv
  OBVIOUS
<1>1. Unwritten \in Int
  BY DEF Unwritten
<1>2. rw = NewRecvWindow(Capacity, StreamStart, Unwritten) /\ recv_result = "none"
  BY DEF RecvInit
<1> QED
  BY <1>1, <1>2, ConstantsType, NewRecvWindowInv DEF RecvIInv

\* Every step keeps it.
LEMMA RecvNextInv == RecvIInv /\ [RecvNext]_recvVars => RecvIInv'
<1> SUFFICES ASSUME RecvIInv, [RecvNext]_recvVars PROVE RecvIInv'
  OBVIOUS
<1>1. ASSUME NEW b \in Blocks, DoRecv(b[1], b[2]) PROVE RecvIInv'
  BY <1>1, RecvStep
<1>2. ASSUME NEW n \in 1..Capacity, DoRead(n) PROVE RecvIInv'
  BY <1>2, ReadStep
<1>3. CASE UNCHANGED recvVars
  BY <1>3 DEF RecvIInv, recvVars
<1> QED
  BY <1>1, <1>2, <1>3 DEF RecvNext

\* The inductive invariant.
LEMMA RecvInvariance == RecvSpec => []RecvIInv
BY RecvInitInv, RecvNextInv, PTL DEF RecvSpec

(***************************************************************************)
(* Every byte the window claims to hold is in its cell of the ring, for    *)
(* every order, overlap and repetition of blocks: a byte acknowledged out  *)
(* of order is not lost or overwritten before it is read.                  *)
(***************************************************************************)
THEOREM HeldBytesIntactHolds == RecvSpec => []HeldBytesIntact
<1>1. RecvIInv => HeldBytesIntact
  <2> SUFFICES ASSUME RecvIInv, NEW k \in got, k >= taken
               PROVE  k - taken < Capacity /\ rw.buf.cells[k - taken] = Pos(k)
    BY DEF HeldBytesIntact
  <2>1. k \in Nat /\ Held(StreamStart, rw, k)
    BY GotIsHeld
  <2>2. taken \in Nat /\ taken = ReadOffset(StreamStart, rw)
    BY StateType
  <2>3. RecvWindowInv(Capacity, StreamStart, StreamLen, rw)
    BY DEF RecvIInv
  <2>4. k < taken + Capacity
    BY <2>1, <2>2, <2>3, ConstantsType, HeldInWindow
  <2>5. k - taken < Capacity
    BY <2>1, <2>2, <2>4, ConstantsType
  <2>6. rw.buf.cells[k - taken] = WrapAdd(StreamStart, k)
    BY <2>1, <2>2, <2>3 DEF RecvWindowInv, HoldsStream
  <2> QED
    BY <2>5, <2>6 DEF Pos
<1> QED
  BY <1>1, RecvInvariance, PTL

(***************************************************************************)
(* The first two invariants documented for the list of unready regions: no *)
(* region is empty, and regions that overlap or touch were merged.         *)
(***************************************************************************)
THEOREM UnreadySeparateHolds == RecvSpec => []UnreadySeparate
<1>1. RecvIInv => UnreadySeparate
  <2> SUFFICES ASSUME RecvIInv, NEW i \in 1..Len(rw.unready)
               PROVE  /\ Offset(rw.unready[i][1]) < Offset(rw.unready[i][2])
                      /\ i > 1 => Offset(rw.unready[i-1][2]) < Offset(rw.unready[i][1])
    BY DEF UnreadySeparate
  <2>1. PICK list \in Seq(Ranges) : list = rw.unready
    BY StateType
  <2>2. PICK top : Separate(StreamStart, top, list)
    BY <2>1 DEF RecvIInv, RecvWindowInv
  <2>3. i \in 1..Len(list) /\ Len(list) \in Nat
    BY <2>1, LenProperties
  <2>4. i > 1 => i - 1 \in 1..Len(list) /\ i - 1 < i
    BY <2>3
  <2> QED
    BY <2>1, <2>2, <2>3, <2>4 DEF Separate, Offset
<1> QED
  BY <1>1, RecvInvariance, PTL

\* The end of the window is a capacity after what was read.
LEMMA WindowEndIs ==
  ASSUME RecvIInv PROVE Offset(window_end(Capacity, rw)) = taken + Capacity
BY ConstantsType, StateType, WindowEndOffset DEF RecvIInv, Offset

(***************************************************************************)
(* No block and no read moves the end of the window back, so what the      *)
(* sender was told it may send stays receivable.                           *)
(***************************************************************************)
THEOREM WindowEndAdvancesHolds == RecvSpec => WindowEndAdvances
<1> DEFINE Advance == Offset(window_end(Capacity, rw)) <= Offset(window_end(Capacity, rw'))
<1>1. RecvIInv /\ RecvIInv' /\ [RecvNext]_recvVars => [Advance]_recvVars
  <2> SUFFICES ASSUME RecvIInv, RecvIInv', RecvNext PROVE Advance
    BY DEF Advance
  <2>1. taken' \in Nat /\ taken \in Nat /\ taken <= taken'
    <3>1. taken \in Nat
      BY StateType
    <3>2. ASSUME NEW b \in Blocks, DoRecv(b[1], b[2]) PROVE taken' = taken
      BY <3>2, RecvStep
    <3>3. ASSUME NEW n \in 1..Capacity, DoRead(n) PROVE taken' > taken /\ taken' \in Nat
      BY <3>3, ReadStep
    <3> QED
      BY <3>1, <3>2, <3>3 DEF RecvNext
  <2>2. Offset(window_end(Capacity, rw)) = taken + Capacity
    BY WindowEndIs
  <2>3. Offset(window_end(Capacity, rw')) = taken' + Capacity
    <3>1. RecvWindowInv(Capacity, StreamStart, StreamLen, rw')
      BY DEF RecvIInv
    <3>2. WrapSub(window_end(Capacity, rw'), StreamStart)
            = ReadOffset(StreamStart, rw') + Capacity
      BY <3>1, ConstantsType, WindowEndOffset
    <3>3. taken' = ReadOffset(StreamStart, rw')
      BY DEF taken, recv_offset, Offset, ReadOffset
    <3> QED
      BY <3>2, <3>3 DEF Offset
  <2>4. taken + Capacity <= taken' + Capacity
    <3>1. \A a, b, c \in Nat : a <= b => a + c <= b + c
      OBVIOUS
    <3> QED
      BY <2>1, <3>1, ConstantsType
  <2> QED
    BY <2>2, <2>3, <2>4 DEF Advance
<1> QED
  BY <1>1, RecvInvariance, PTL DEF RecvSpec, WindowEndAdvances, Advance

----------------------------------------------------------------------------
(* Refinement. *)

\* The ready bytes end at the first offset not received.
LEMMA ReadyIs ==
  ASSUME RecvIInv PROVE Reassembly!Gap(got) = recv_offset
<1>1. /\ recv_offset \in Nat /\ recv_offset <= StreamLen
      /\ recv_offset = WrapSub(rw.recv_pos, StreamStart) /\ rw.unready \in Seq(Ranges)
  BY StateType
<1>2. ~Held(StreamStart, rw, recv_offset)
  <2>1. Clear(StreamStart, recv_offset, rw.unready)
    BY <1>1 DEF RecvIInv, RecvWindowInv
  <2>2. ASSUME NEW i \in 1..Len(rw.unready)
        PROVE  ~(/\ WrapSub(rw.unready[i][1], StreamStart) <= recv_offset
                 /\ recv_offset < WrapSub(rw.unready[i][2], StreamStart))
    <3>1. /\ WrapSub(rw.unready[i][1], StreamStart) \in Nat
          /\ WrapSub(rw.unready[i][2], StreamStart) \in Nat
      BY <1>1, ConstantsType, RegionOffsets
    <3> QED
      BY <1>1, <2>1, <3>1 DEF Clear
  <2> QED
    BY <1>1, <2>2 DEF Held, Inside
<1>3. recv_offset \notin got
  BY <1>1, <1>2, GotIsHeld
<1>4. \A k \in Nat : k < recv_offset => k \in got
  BY <1>1, GotIsHeld DEF Held
<1> DEFINE First(n) == n \notin got /\ \A k \in 0..(n-1) : k \in got
<1>5. recv_offset \in 0..StreamLen /\ First(recv_offset)
  BY <1>1, <1>3, <1>4, ConstantsType
<1>6. ASSUME NEW n \in 0..StreamLen, First(n) PROVE n = recv_offset
  <2>1. n \in Nat /\ ~(n < recv_offset)
    BY <1>4, <1>6
  <2>2. ~(recv_offset < n)
    BY <1>1, <1>3, <1>6, <2>1
  <2> QED
    BY <1>1, <2>1, <2>2
<1> HIDE DEF First
<1>7. recv_offset = CHOOSE n \in 0..StreamLen : First(n)
  BY <1>5, <1>6
<1> QED
  BY <1>7 DEF Reassembly!Gap, First

\* The initial states map to initial states.
LEMMA RecvInitRefines == RecvInit => Reassembly!Init
<1> SUFFICES ASSUME RecvInit PROVE Reassembly!Init
  OBVIOUS
<1>1. RecvIInv
  BY RecvInitInv
<1>2. Unwritten \in Int /\ rw = NewRecvWindow(Capacity, StreamStart, Unwritten)
  BY DEF Unwritten, RecvInit
<1>3. /\ ReadOffset(StreamStart, rw) = 0
      /\ \A o \in Nat : ~Held(StreamStart, rw, o)
  BY <1>2, ConstantsType, NewRecvWindowInv
<1>4. got = {}
  BY <1>1, <1>3, GotIsHeld
<1>5. taken = 0
  BY <1>1, <1>3, StateType
<1>6. Answer(recv_result, bound) = -1
  BY DEF RecvInit, Answer
<1>7. recv_offset = 0
  <2>1. rw.recv_pos = StreamStart
    BY <1>2 DEF NewRecvWindow
  <2> QED
    BY <2>1, ConstantsType DEF recv_offset, Offset, WrapSub, StreamPositions
<1> QED
  BY <1>4, <1>5, <1>6, <1>7 DEF Reassembly!Init

\* The end of what fits of a block is the same number in both.
LEMMA LastIs ==
  ASSUME RecvIInv, NEW e \in Nat PROVE Reassembly!Last(e) = Lesser(e, taken + Capacity)
<1>1. taken \in Nat
  BY StateType
<1> QED
  BY <1>1, ConstantsType DEF Reassembly!Last, Lesser

\* A block adds its offsets within the window, and is answered as the set says.
LEMMA RecvRefines ==
  ASSUME RecvIInv, NEW b \in Blocks, DoRecv(b[1], b[2])
  PROVE  Reassembly!Block(b[1], b[2])
<1>1. PICK s \in Nat, e \in Nat : s = b[1] /\ e = b[2]
  BY BlockType
<1>2. PICK last \in Nat :
        /\ last = Lesser(e, taken + Capacity)
        /\ RecvIInv' /\ taken' = taken
        /\ Extends(StreamStart, rw, s, last, rw')
        /\ IF s < last THEN recv_result' = "Some" /\ Offset(bound') = last
                       ELSE recv_result' = "None"
  BY <1>1, RecvStep
<1>3. Reassembly!Last(e) = last
  BY <1>2, LastIs
<1>4. Answer(recv_result', bound') = Reassembly!Bound(s, e)
  BY <1>2, <1>3 DEF Answer, Reassembly!Bound
<1>5. got' = got \cup s..(last - 1)
  <2>1. got \subseteq Nat /\ \A o \in Nat : o \in got <=> Held(StreamStart, rw, o)
    BY GotIsHeld
  <2>2. (got \subseteq Nat /\ \A o \in Nat : o \in got <=> Held(StreamStart, rw, o))'
    BY <1>2, GotIsHeld, PTL
  <2>3. got' \subseteq Nat /\ \A o \in Nat : o \in got' <=> Held(StreamStart, rw', o)
    BY <2>2 DEF Held
  <2>4. \A o \in Nat : o \in got' <=> o \in got \/ (s <= o /\ o < last)
    BY <1>2, <2>1, <2>3 DEF Extends
  <2>5. \A o : o \in s..(last - 1) <=> o \in Nat /\ s <= o /\ o < last
    OBVIOUS
  <2> QED
    BY <2>1, <2>3, <2>4, <2>5
<1>6. recv_offset' = Reassembly!Gap(got')
  <2>1. (Reassembly!Gap(got) = recv_offset)'
    BY <1>2, ReadyIs, PTL
  <2> QED
    BY <2>1 DEF Reassembly!Gap
<1> QED
  BY <1>1, <1>2, <1>3, <1>4, <1>5, <1>6 DEF Reassembly!Block

\* A read takes from the ready bytes.
LEMMA ReadRefines ==
  ASSUME RecvIInv, NEW n \in 1..Capacity, DoRead(n)
  PROVE  Reassembly!Take
<1>1. /\ taken' > taken /\ taken' <= recv_offset /\ taken' \in Nat
      /\ recv_offset' = recv_offset /\ rw'.unready = rw.unready
      /\ recv_result' = recv_result /\ bound' = bound
  BY ReadStep
<1>2. taken \in Nat /\ recv_offset \in Nat
  BY StateType
<1>3. taken' \in (taken + 1)..recv_offset
  BY <1>1, <1>2
<1>4. got' = got
  BY <1>1 DEF got
<1>5. Answer(recv_result', bound') = Answer(recv_result, bound)
  BY <1>1
<1> QED
  BY <1>1, <1>3, <1>4, <1>5 DEF Reassembly!Take

\* Every step of the window is a step of the set of offsets received.
LEMMA RecvNextRefines == RecvIInv /\ [RecvNext]_recvVars => [Reassembly!Next]_(Reassembly!vars)
<1> SUFFICES ASSUME RecvIInv, [RecvNext]_recvVars PROVE [Reassembly!Next]_(Reassembly!vars)
  OBVIOUS
<1>1. ASSUME NEW b \in Blocks, DoRecv(b[1], b[2]) PROVE Reassembly!Next
  <2>1. PICK s \in Nat, e \in Nat : s = b[1] /\ e = b[2] /\ s <= e /\ e <= StreamLen
    BY BlockType
  <2>2. s \in 0..StreamLen /\ e \in s..StreamLen
    BY <2>1, ConstantsType
  <2>3. Reassembly!Block(s, e)
    BY <1>1, <2>1, RecvRefines
  <2> QED
    BY <2>2, <2>3 DEF Reassembly!Next
<1>2. ASSUME NEW n \in 1..Capacity, DoRead(n) PROVE Reassembly!Next
  BY <1>2, ReadRefines DEF Reassembly!Next
<1>3. CASE UNCHANGED recvVars
  BY <1>3 DEF recvVars, Reassembly!vars, got, taken, recv_offset
<1> QED
  BY <1>1, <1>2, <1>3 DEF RecvNext

\* Whatever block comes next, recv returns what is documented.
LEMMA AnswersAreRight == RecvIInv => AnswersRight
<1> SUFFICES ASSUME RecvIInv, NEW b \in Blocks,
                    NEW ret, ret = recv(Capacity, rw, Pos(b[1]), StreamBytes(b[1], b[2]))
             PROVE  Answer(ret.result, ret.end) = Reassembly!Bound(b[1], b[2])
  BY DEF AnswersRight
<1>1. PICK s \in Nat, e \in Nat : s = b[1] /\ e = b[2]
  BY BlockType
<1>2. PICK last \in Nat :
        /\ last = Lesser(e, taken + Capacity)
        /\ RecvKept(Capacity, StreamStart, StreamLen, rw, s, last, ret)
  BY <1>1, BlockType
<1>3. Reassembly!Last(e) = last
  BY <1>2, LastIs
<1>4. IF s < last THEN ret.result = "Some" /\ Offset(ret.end) = last
                  ELSE ret.result = "None"
  BY <1>2 DEF RecvKept, Offset
<1> QED
  BY <1>1, <1>3, <1>4 DEF Answer, Reassembly!Bound

(***************************************************************************)
(* The window implements the set of received offsets: recv never panics,   *)
(* answers every block by its documentation, and the ready bytes always    *)
(* reach the first offset that was not received.                           *)
(***************************************************************************)
THEOREM RecvWindowImplementsReassembly == RecvSpec => ImplementsReassembly
<1> QED
  BY RecvInitRefines, RecvNextRefines, AnswersAreRight, RecvInvariance, PTL
  DEF RecvSpec, ImplementsReassembly, Reassembly!Spec

=============================================================================
