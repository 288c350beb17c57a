------------------------- MODULE ReliableStreamSpec -------------------------
(***************************************************************************)
(* What a reliable channel promises to the two applications: one bounded   *)
(* FIFO byte stream.  The reader gets exactly the bytes written, in order, *)
(* each once, and the writer is at most Bound bytes ahead of the reader.   *)
(* ReliableChannel implements this over a network that loses, duplicates   *)
(* and reorders packets.                                                   *)
(***************************************************************************)
EXTENDS Integers, Sequences

CONSTANTS Source,   \* the bytes the writer has to write
          Bound     \* bytes in the channel at any time

VARIABLES written,    \* how many bytes were written
          delivered   \* the bytes read

vars == <<written, delivered>>

Init == written = 0 /\ delivered = <<>>

Write == /\ written' \in (written + 1)..Len(Source)
         /\ written' - Len(delivered) <= Bound
         /\ UNCHANGED delivered

Read == \E n \in (Len(delivered) + 1)..written :
          /\ delivered' = SubSeq(Source, 1, n)
          /\ UNCHANGED written

Next == Write \/ Read

Spec == Init /\ [][Next]_vars

=============================================================================
