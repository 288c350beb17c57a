----------------------------- MODULE SendWindow -----------------------------
(***************************************************************************)
(* One SendWindow and its SendWindowWriter under every sequence of calls.  *)
(*                                                                         *)
(* The byte written at stream position p is p itself, so a byte in the     *)
(* wrong place is visible; a byte of the ring never written is Unwritten.  *)
(* Positions wrap, so the state space is finite without a bound on the     *)
(* length of the stream, and every window position is reached on both      *)
(* sides of the wrap.  Acknowledgements are every pair of positions there  *)
(* is, not only those a correct remote sends.                              *)
(***************************************************************************)
EXTENDS WindowParameters

VARIABLES sw,          \* the window
          ack_result   \* AckResult of the last ack_range, "none" before it

sendVars == <<sw, ack_result>>

\* The n bytes of the stream from position p on.
Stream(p, n) == [k \in 1..n |-> WrapAdd(p, k - 1)]

write_pos == WrapAdd(unacked_start(sw), sw.buf.used)

SendInit == /\ sw = NewSendWindow(Capacity, StreamStart, Unwritten)
            /\ ack_result = "none"

\* SendWindowWriter::write: it takes what fits.
DoWrite(n) ==
  /\ WriteLen(Capacity, sw.buf, 0, Stream(write_pos, n)) > 0
  /\ sw' = SendWindowWrite(Capacity, sw, Stream(write_pos, n))
  /\ UNCHANGED ack_result

\* SendWindow::send; None changes nothing.
DoSend(n) ==
  /\ SendLen(sw, n) > 0
  /\ sw' = send(sw, n)
  /\ UNCHANGED ack_result

DoAck(start, end) ==
  LET ret == ack_range(Capacity, sw, start, end)
  IN  /\ sw' = ret.win
      /\ ack_result' = ret.result

SendNext == \/ \E n \in 1..Capacity : DoWrite(n) \/ DoSend(n)
            \/ \E start, end \in StreamPositions : DoAck(start, end)

SendSpec == SendInit /\ [][SendNext]_sendVars

----------------------------------------------------------------------------
(* Properties. *)

RangeLen(r) == WrapSub(r[2], r[1])

(***************************************************************************)
(* The invariant the field unacked_ranges documents: the ranges are not    *)
(* empty, sorted, do not overlap and lie in the sent part of the buffer.   *)
(* More than that, the first one starts at unacked_start, so the sent part *)
(* never keeps an acknowledged prefix.                                     *)
(***************************************************************************)
RangesSorted ==
  LET ranges    == sw.unacked_ranges
      Offset(p) == WrapSub(p, unacked_start(sw))
  IN  /\ \A i \in 1..Len(ranges) :
           /\ Offset(ranges[i][1]) < Offset(ranges[i][2])
           /\ Offset(ranges[i][2]) <= sw.sent
           /\ i > 1 => Offset(ranges[i-1][2]) <= Offset(ranges[i][1])
      /\ IF ranges = <<>> THEN sw.sent = 0 ELSE Offset(ranges[1][1]) = 0

(***************************************************************************)
(* Every range still unacknowledged can be fetched again for a resend, and *)
(* get_unacked returns the bytes that were written at those positions,     *)
(* after any sequence of whole, partial and out of order acknowledgements. *)
(***************************************************************************)
UnackedReadable ==
  \A i \in 1..Len(sw.unacked_ranges) :
    LET r == sw.unacked_ranges[i]
    IN  get_unacked(sw, r[1], RangeLen(r)) = Stream(r[1], RangeLen(r))

\* The ranges in flight, by start and length.
InFlight(ranges) == {<<ranges[i][1], RangeLen(ranges[i])>> : i \in 1..Len(ranges)}

SendBuffer == INSTANCE SendBufferSpec WITH
  base     <- unacked_start(sw),
  result   <- ack_result,
  used     <- sw.buf.used,
  sent     <- sw.sent,
  inflight <- InFlight(sw.unacked_ranges)

\* ret is what the documentation promises for an acknowledgement of start .. end.
AckedRight(start, end, ret) ==
  LET freed == SendBuffer!Freed(start, end)
  IN  /\ ret.result = SendBuffer!Answer(start, end)
      /\ InFlight(ret.win.unacked_ranges) = SendBuffer!Left(start, end)
      /\ unacked_start(ret.win) = WrapAdd(unacked_start(sw), freed)
      /\ ret.win.buf.used = sw.buf.used - freed
      /\ ret.win.sent = sw.sent - freed
      /\ ret.result = "PartialAck" =>
           <<end, WrapSub(ret.nacked_end, end)>> \in SendBuffer!Left(start, end)

(***************************************************************************)
(* ack_range does what is documented for the very pair of positions it is  *)
(* given, whatever the pair, in the list as earlier acknowledgements have  *)
(* left it: the answer, the ranges that stay in flight and the bytes that  *)
(* are freed are those of this pair; PartialAck names the end of what is   *)
(* left of the range; and it never panics.                                 *)
(***************************************************************************)
AcksRight ==
  \A start, end \in StreamPositions :
    AckedRight(start, end, ack_range(Capacity, sw, start, end))

(***************************************************************************)
(* The list, the binary search and the wrapping comparisons implement the  *)
(* set of SendBufferSpec: each step of the window writes, sends or         *)
(* acknowledges there too, and an acknowledgement frees exactly the bytes  *)
(* before the first range still in flight.                                 *)
(***************************************************************************)
ImplementsSendBuffer == SendBuffer!Spec

=============================================================================
