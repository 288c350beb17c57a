------------------------------- MODULE Windows -------------------------------
(***************************************************************************)
(* The send and receive windows of windows.rs, as functions on a window    *)
(* value.  SendWindow.tla and RecvWindow.tla run one window under every    *)
(* sequence of calls; ReliableChannel.tla connects one of each.            *)
(*                                                                         *)
(* A window owns one half of a byte ring, which is a ByteQueue here (see   *)
(* RingBuffer.tla for why).  A range is a pair <<start, end>> of stream    *)
(* positions.  A failed assertion, an unwrap of None, an index out of      *)
(* bounds and an integer underflow are the result "Panic".                 *)
(***************************************************************************)
EXTENDS StreamPos, ByteQueue

----------------------------------------------------------------------------
(* slice::binary_search_by.  order[i] is what the comparison returns for   *)
(* element i.  The answer is only defined by the library, and the same for *)
(* every implementation of the search, when order is ascending; comparing  *)
(* with "None" is an unwrap that panics.                                   *)

Ascending(order) ==
  \A i, j \in 1..Len(order) :
    /\ order[i] # "None"
    /\ i < j => ~(order[i] = "Greater" /\ order[j] # "Greater")
    /\ i < j => ~(order[i] = "Equal" /\ order[j] = "Less")

\* The index returned, in Ok or in Err.
BinarySearch(order) ==
  CHOOSE i \in 1..(Len(order) + 1) :
    /\ \A j \in 1..(i - 1) : order[j] = "Less"
    /\ \A j \in i..Len(order) : order[j] # "Less"

\* Mutant: the place where start would be inserted counts as a find.
BinaryFoundNear(order) == BinarySearch(order) <= Len(order)

\* The search in ack_range ends in Ok.
BinaryFound(order) == \E i \in 1..Len(order) : order[i] = "Equal"

\* The list with elements from..to replaced by the elements of new.
Splice(list, from, to, new) ==
  SubSeq(list, 1, from - 1) \o new \o SubSeq(list, to + 1, Len(list))

----------------------------------------------------------------------------
(* SendWindow.  sent counts the bytes at the front of the ring that were   *)
(* sent and are kept; unacked_ranges is the list of the ranges sent and    *)
(* not acknowledged.                                                       *)

NewSendWindow(capacity, stream_start, fill) ==
  [buf |-> NewQueue(capacity, fill), send_pos |-> stream_start, sent |-> 0,
   unacked_ranges |-> <<>>]

\* SendWindowWriter::write, which stores a prefix of data, of length WriteLen.
SendWindowWrite(capacity, sw, data) ==
  LET len == WriteLen(capacity, sw.buf, 0, data)
  IN  [sw EXCEPT !.buf = WriterAdvance(capacity, Write(capacity, @, 0, data), len)]

send_available(sw) == read_available(sw.buf) - sw.sent

\* SendWindow::send into a buffer of n bytes: the range sent and its bytes.
SendLen(sw, n) == IF send_available(sw) <= n THEN send_available(sw) ELSE n

SentRange(sw, n) == <<sw.send_pos, WrapAdd(sw.send_pos, SendLen(sw, n))>>

SentData(sw, n) == Read(sw.buf, sw.sent, SendLen(sw, n))

send(sw, n) ==
  IF SendLen(sw, n) = 0 THEN sw
  ELSE [sw EXCEPT !.sent = @ + SendLen(sw, n),
                  !.send_pos = SentRange(sw, n)[2],
                  !.unacked_ranges = Append(@, SentRange(sw, n))]

unacked_start(sw) == WrapSub(sw.send_pos, sw.sent)

\* Mutant: every fetch starts at the front of the buffer.
GetUnackedFront(sw, start, len) == Read(sw.buf, 0, len)

\* SendWindow::get_unacked of len bytes; it panics unless all can be read.
get_unacked(sw, start, len) == Read(sw.buf, WrapSub(start, unacked_start(sw)), len)

\* Mutant: one byte too many leaves the buffer.
FreeOneMore(capacity, sw, amt) ==
  [sw EXCEPT !.buf = ReaderAdvance(capacity, @, amt + 1), !.sent = @ - amt]

\* Free amt bytes at the front of the buffer.
Free(capacity, sw, amt) ==
  [sw EXCEPT !.buf = ReaderAdvance(capacity, @, amt), !.sent = @ - amt]

\* Mutant: a partial acknowledgement takes the whole range out.
RemainingDropsRest(ranges, i, end) == Splice(ranges, i, i, <<>>)

\* The list after the part of range i up to end was acknowledged.
Remaining(ranges, i, end) ==
  IF end = ranges[i][2] THEN Splice(ranges, i, i, <<>>)
                        ELSE [ranges EXCEPT ![i][1] = end]

\* Mutant: bytes acknowledged earlier, behind the range, stay in the buffer.
AckedAmtRangeOnly(sw, ranges, i, end) == WrapSub(end, ranges[i][1])

\* How many bytes at the front are acknowledged with it, when i is the first range.
AckedAmt(sw, ranges, i, end) ==
  LET left == Remaining(ranges, i, end)
  IN  CASE end # ranges[i][2]              -> WrapSub(end, ranges[i][1])
        [] end = ranges[i][2] /\ left = <<>> -> sw.sent
        [] end = ranges[i][2] /\ left # <<>> -> WrapSub(left[1][1], ranges[i][1])

(***************************************************************************)
(* SendWindow::ack_range.  result is the AckResult; nacked_end is the      *)
(* position PartialAck carries.                                            *)
(***************************************************************************)
ack_range(capacity, sw, start, end) ==
  LET ranges == sw.unacked_ranges
      order  == [k \in 1..Len(ranges) |-> stream_cmp(ranges[k][1], start)]
      i      == BinarySearch(order)
      first  == start = unacked_start(sw)
      amt    == AckedAmt(sw, ranges, i, end)
      freed  == IF first THEN Free(capacity, sw, amt) ELSE sw
      Return(result, win, nacked) ==
        [result |-> result, win |-> win, nacked_end |-> nacked]
  IN  IF \/ ranges = <<>>
         \/ ~stream_lt(start, end)
         \/ ~stream_ge(start, ranges[1][1])
         \/ ~stream_le(end, ranges[Len(ranges)][2])
      THEN Return("NotFound", sw, end)
      ELSE IF ~Ascending(order) THEN Return("Panic", sw, end)
      ELSE IF ~BinaryFound(order) \/ stream_gt(end, ranges[i][2])
      THEN Return("NotFound", sw, end)
      ELSE IF first /\ (i # 1 \/ amt > sw.sent) THEN Return("Panic", sw, end)
      ELSE Return(IF end = ranges[i][2] THEN "Ack" ELSE "PartialAck",
                  [freed EXCEPT !.unacked_ranges = Remaining(ranges, i, end)],
                  ranges[i][2])

----------------------------------------------------------------------------
(* RecvWindow.  The ready bytes are the readable part of the ring; unready *)
(* lists the regions received beyond recv_pos.                             *)

NewRecvWindow(capacity, stream_start, fill) ==
  [buf |-> NewQueue(capacity, fill), recv_pos |-> stream_start, unready |-> <<>>]

\* RecvWindowReader::read into a buffer of n bytes.
RecvWindowRead(capacity, rw, n) ==
  [rw EXCEPT !.buf = ReaderAdvance(capacity, @, Len(Read(rw.buf, 0, n)))]

\* Mutant: the window ends where the first region stored out of order begins.
WindowEndAtUnready(capacity, rw) ==
  IF rw.unready # <<>> THEN rw.unready[1][1]
  ELSE WrapAdd(rw.recv_pos, write_available(capacity, rw.buf))

window_end(capacity, rw) ==
  WrapAdd(rw.recv_pos, write_available(capacity, rw.buf))

(***************************************************************************)
(* The two ways RecvWindow::recv updates the list, for the region          *)
(* <<start, end>> just stored.                                             *)
(***************************************************************************)

\* Mutant: a region ahead of the ready bytes is taken without the bytes between.
ReachesAlways(end, region) == TRUE

\* Mutant: a region that starts exactly at end does not join the ready bytes.
ReachesBeyond(end, region) == stream_gt(end, region[1])

\* Data up to end joins the region.
Reaches(end, region) == stream_ge(end, region[1])

Drained(unready, pos) == SubSeq(unready, pos + 1, Len(unready))

\* The region touches the ready bytes: where the ready bytes now end, and the list.
JoinReady(unready, end) ==
  LET order == [k \in 1..Len(unready) |-> stream_cmp(unready[k][2], end)]
      pos   == BinarySearch(order)
      Return(panic, to, list) == [panic |-> panic, end |-> to, unready |-> list]
  IN  IF ~Ascending(order) THEN Return(TRUE, end, unready)
      ELSE IF pos > Len(unready) THEN Return(FALSE, end, <<>>)
      ELSE IF Reaches(end, unready[pos])
      THEN Return(FALSE, unready[pos][2], Drained(unready, pos))
      ELSE Return(FALSE, end, unready)

\* Mutant: a region that starts exactly at end is not merged.
BeforeOrAt(end, region) == stream_le(end, region[1])

\* Data up to end stops short of the region.
Before(end, region) == stream_lt(end, region[1])

MergedEnd(end, region) == IF stream_gt(end, region[2]) THEN end ELSE region[2]

MergedStart(start, region) == IF stream_lt(start, region[1]) THEN start ELSE region[1]

\* It does not: it is merged with the regions it overlaps or touches.
InsertUnready(unready, start, end) ==
  LET order == [k \in 1..Len(unready) |-> stream_cmp(unready[k][2], start)]
      ip    == BinarySearch(order)
      last  == Len(unready)
      \* where the loop from ip on breaks
      Stops(k) == Before(end, unready[k]) \/ stream_lt(end, unready[k][2]) \/ k = last
      i     == CHOOSE k \in ip..last : Stops(k) /\ \A j \in ip..(k - 1) : ~Stops(j)
      low   == MergedStart(start, unready[ip])
      Return(panic, list) == [panic |-> panic, unready |-> list]
  IN  IF ~Ascending(order) THEN Return(TRUE, unready)
      ELSE IF ip > last THEN Return(FALSE, Append(unready, <<start, end>>))
      ELSE IF ~Before(end, unready[i])
      THEN Return(FALSE, Splice(unready, ip, i, <<<<low, MergedEnd(end, unready[i])>>>>))
      ELSE IF i = ip THEN Return(FALSE, Splice(unready, ip, ip - 1, <<<<start, end>>>>))
      ELSE Return(FALSE, Splice(unready, ip, i - 1, <<<<low, end>>>>))

\* What is stored ends with the data or with the window.
StoredEnd(data_end, recv_end) ==
  IF stream_lt(data_end, recv_end) THEN data_end ELSE recv_end

(***************************************************************************)
(* RecvWindow::recv.  result is "None", "Some" (with the upper bound end)  *)
(* or "Panic".                                                             *)
(***************************************************************************)
recv(capacity, rw, start_pos, data) ==
  LET recv_end   == window_end(capacity, rw)
      copy_start == IF stream_gt(rw.recv_pos, start_pos) THEN rw.recv_pos ELSE start_pos
      end_pos    == StoredEnd(WrapAdd(start_pos, Len(data)), recv_end)
      data_start == WrapSub(copy_start, start_pos)
      buf_start  == WrapSub(copy_start, rw.recv_pos)
      len        == WrapSub(end_pos, rw.recv_pos) - buf_start
      slice      == SubSeq(data, data_start + 1, data_start + len)
      stored     == Write(capacity, rw.buf, buf_start, slice)
      join       == JoinReady(rw.unready, end_pos)
      insert     == InsertUnready(rw.unready, start_pos, end_pos)
      Return(result, win) == [result |-> result, end |-> end_pos, win |-> win]
  IN  IF ~stream_lt(start_pos, recv_end) THEN Return("None", rw)
      ELSE IF stream_ge(copy_start, end_pos)
      THEN Return(IF stream_lt(start_pos, end_pos) THEN "Some" ELSE "None", rw)
      ELSE IF \/ len < 0 \/ data_start + len > Len(data)
              \/ WriteLen(capacity, rw.buf, buf_start, slice) # len
      THEN Return("Panic", rw)
      ELSE IF stream_ge(rw.recv_pos, start_pos)
      THEN IF join.panic THEN Return("Panic", rw)
           ELSE Return("Some",
                  [buf      |-> WriterAdvance(capacity, stored, WrapSub(join.end, rw.recv_pos)),
                   recv_pos |-> join.end,
                   unready  |-> join.unready])
      ELSE IF insert.panic THEN Return("Panic", rw)
           ELSE Return("Some", [rw EXCEPT !.buf = stored, !.unready = insert.unready])

=============================================================================
