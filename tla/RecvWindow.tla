----------------------------- MODULE RecvWindow -----------------------------
(***************************************************************************)
(* One RecvWindow and its RecvWindowReader under every sequence of calls:  *)
(* blocks of a stream of StreamLen bytes in any order, of any length, with *)
(* any overlap, and reads of any length in between.                        *)
(*                                                                         *)
(* The byte at stream position p is p itself.  stream_cmp orders only      *)
(* positions less than half the position space apart: the stream is at     *)
(* most that long, and no block older than that arrives.                   *)
(***************************************************************************)
EXTENDS WindowParameters

CONSTANT StreamLen   \* bytes in the stream

ASSUME RecvWindowAssumption == StreamLen \in 1..MaxWindow

VARIABLES rw,            \* the window
          recv_result,   \* "None", "Some" or "Panic" from the last recv, "none" before it
          bound          \* the upper bound of the last recv that returned Some

recvVars == <<rw, recv_result, bound>>

Pos(offset) == WrapAdd(StreamStart, offset)
Offset(pos) == WrapSub(pos, StreamStart)

\* The bytes of the stream at offsets start .. end-1.
StreamBytes(start, end) == [k \in 1..(end - start) |-> Pos(start + k - 1)]

recv_offset == Offset(rw.recv_pos)

\* How many bytes the reader has read.
taken == recv_offset - rw.buf.used

RecvInit == /\ rw = NewRecvWindow(Capacity, StreamStart, Unwritten)
            /\ recv_result = "none"
            /\ bound = StreamStart

DoRecv(start, end) ==
  LET ret == recv(Capacity, rw, Pos(start), StreamBytes(start, end))
  IN  /\ rw' = ret.win
      /\ recv_result' = ret.result
      /\ bound' = IF ret.result = "Some" THEN ret.end ELSE bound

\* RecvWindowReader::read; reading nothing changes nothing.
DoRead(n) ==
  /\ read_available(rw.buf) > 0
  /\ rw' = RecvWindowRead(Capacity, rw, n)
  /\ UNCHANGED <<recv_result, bound>>

\* A block may arrive unless it starts more than MaxWindow before the window's end.
Blocks == {b \in (0..StreamLen) \X (0..StreamLen) :
             b[1] <= b[2] /\ taken + Capacity <= b[1] + MaxWindow}

RecvNext == \/ \E b \in Blocks : DoRecv(b[1], b[2])
            \/ \E n \in 1..Capacity : DoRead(n)

RecvSpec == RecvInit /\ [][RecvNext]_recvVars

----------------------------------------------------------------------------
(* Properties. *)

\* The offsets the window holds or has handed out, by recv_pos and the list.
got == 0..(recv_offset - 1)
       \cup UNION {Offset(rw.unready[i][1])..(Offset(rw.unready[i][2]) - 1) :
                     i \in 1..Len(rw.unready)}

(***************************************************************************)
(* Every byte the window claims to hold, ready or not, is in its cell of   *)
(* the ring: what is read later is the stream, in order, and a byte that   *)
(* was acknowledged out of order is not lost or overwritten by a later     *)
(* block, a read or a wrap of the ring.                                    *)
(***************************************************************************)
HeldBytesIntact ==
  \A k \in {o \in got : o >= taken} :
    /\ k - taken < Capacity
    /\ rw.buf.cells[k - taken] = Pos(k)

(***************************************************************************)
(* Invariants 1 and 2 documented for the field unready: no region is empty *)
(* and each ends before the next one starts, so regions that touch were    *)
(* merged.                                                                 *)
(***************************************************************************)
UnreadySeparate ==
  \A i \in 1..Len(rw.unready) :
    /\ Offset(rw.unready[i][1]) < Offset(rw.unready[i][2])
    /\ i > 1 => Offset(rw.unready[i-1][2]) < Offset(rw.unready[i][1])

(***************************************************************************)
(* window_end never moves back: a sender may rely on an advertised window  *)
(* for ever.                                                               *)
(***************************************************************************)
WindowEndAdvances ==
  [][Offset(window_end(Capacity, rw)) <= Offset(window_end(Capacity, rw'))]_recvVars

(***************************************************************************)
(* The list of unready regions, with its searches and merges, implements   *)
(* the set of received offsets: recv never panics and returns exactly the  *)
(* upper bound its documentation promises, for whatever block arrives      *)
(* next, and after every block the ready bytes reach exactly to the first  *)
(* gap, so nothing received in order stays hidden.                         *)
(***************************************************************************)
Answer(res, end) == CASE res = "Some"             -> Offset(end)
                      [] res \in {"none", "None"} -> -1
                      [] res = "Panic"            -> -2

Reassembly == INSTANCE ReassemblySpec WITH ready  <- recv_offset,
                                           answer <- Answer(recv_result, bound)

AnswersRight ==
  \A b \in Blocks :
    LET ret == recv(Capacity, rw, Pos(b[1]), StreamBytes(b[1], b[2]))
    IN  Answer(ret.result, ret.end) = Reassembly!Bound(b[1], b[2])

ImplementsReassembly == Reassembly!Spec /\ []AnswersRight

=============================================================================
