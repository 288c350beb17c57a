--------------------------- MODULE SendBufferSpec ---------------------------
(***************************************************************************)
(* What a send window promises: the bytes written are kept, in order, from *)
(* the first one not acknowledged on.  The ranges in flight are a set, an  *)
(* acknowledgement names one of them by its start, and nothing depends on  *)
(* an order of wrapping positions.  SendWindow implements this.            *)
(***************************************************************************)
EXTENDS StreamPos

CONSTANTS Capacity,      \* bytes the window can hold
          StreamStart    \* stream position of the first byte

VARIABLES base,      \* position of the first byte kept
          used,      \* how many bytes are kept
          sent,      \* how many of them were sent
          inflight,  \* the ranges sent and not acknowledged, as <<start, length>>
          result     \* what the last acknowledgement returned

vars == <<base, used, sent, inflight, result>>

Init == /\ base = StreamStart
        /\ used = 0
        /\ sent = 0
        /\ inflight = {}
        /\ result = "none"

Write == /\ used' \in (used + 1)..Capacity
         /\ UNCHANGED <<base, sent, inflight, result>>

Send == /\ sent' \in (sent + 1)..used
        /\ inflight' = inflight \cup {<<WrapAdd(base, sent), sent' - sent>>}
        /\ UNCHANGED <<base, used, result>>

\* How many bytes come before the first range in flight.
Acked(ranges, limit) ==
  CHOOSE n \in 0..limit :
    /\ n = limit \/ \E r \in ranges : WrapSub(r[1], base) = n
    /\ \A r \in ranges : n <= WrapSub(r[1], base)

\* The range that an acknowledgement of start .. end is about, if there is one.
Named(start, end) == {r \in inflight : r[1] = start /\ WrapSub(end, start) \in 1..r[2]}

\* What is left of the range r when its first len bytes were received.
Rest(r, len) == IF len = r[2] THEN {} ELSE {<<WrapAdd(r[1], len), r[2] - len>>}

\* The documented answer to the acknowledgement, ...
Answer(start, end) ==
  IF Named(start, end) = {} THEN "NotFound"
  ELSE IF \E r \in Named(start, end) : WrapSub(end, start) = r[2] THEN "Ack" ELSE "PartialAck"

\* ... the ranges in flight after it, ...
Left(start, end) ==
  (inflight \ Named(start, end))
    \cup UNION {Rest(r, WrapSub(end, start)) : r \in Named(start, end)}

\* ... and how many bytes it frees.
Freed(start, end) == IF Named(start, end) = {} THEN 0 ELSE Acked(Left(start, end), sent)

Ack(start, end) ==
  /\ result' = Answer(start, end)
  /\ inflight' = Left(start, end)
  /\ base' = WrapAdd(base, Freed(start, end))
  /\ used' = used - Freed(start, end)
  /\ sent' = sent - Freed(start, end)

Next == Write \/ Send \/ \E start, end \in StreamPositions : Ack(start, end)

Spec == Init /\ [][Next]_vars

=============================================================================
