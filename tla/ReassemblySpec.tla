--------------------------- MODULE ReassemblySpec ---------------------------
(***************************************************************************)
(* What a receive window promises: blocks of a stream arrive in any order, *)
(* overlapping or repeated; what fits in the window is stored; with each   *)
(* block, everything before the first gap becomes ready, and the reader    *)
(* gets the ready bytes in order.  Bytes are named by their offset in the  *)
(* stream, a plain number.  RecvWindow implements this.                    *)
(***************************************************************************)
EXTENDS Integers

CONSTANTS Capacity,    \* bytes the window can hold
          StreamLen    \* length of the stream

VARIABLES got,      \* offsets of the bytes received
          ready,    \* the reader may read the bytes before this offset
          taken,    \* how many bytes it has read
          answer    \* upper bound returned for the last block, -1 for None

vars == <<got, ready, taken, answer>>

\* The first offset not received.
Gap(offsets) ==
  CHOOSE n \in 0..StreamLen : n \notin offsets /\ \A k \in 0..(n-1) : k \in offsets

Init == got = {} /\ ready = 0 /\ taken = 0 /\ answer = -1

\* What fits of a block ends at the end of the block or of the window.
Last(end) == IF end < taken + Capacity THEN end ELSE taken + Capacity

\* The documented answer: the end of what was stored, or None for nothing.
Bound(start, end) == IF start < Last(end) THEN Last(end) ELSE -1

Block(start, end) ==
  /\ answer' = Bound(start, end)
  /\ got' = got \cup start..(Last(end) - 1)
  /\ ready' = Gap(got')
  /\ UNCHANGED taken

Take == /\ taken' \in (taken + 1)..ready
        /\ UNCHANGED <<got, ready, answer>>

Next == \/ \E start \in 0..StreamLen : \E end \in start..StreamLen : Block(start, end)
        \/ Take

Spec == Init /\ [][Next]_vars

=============================================================================
