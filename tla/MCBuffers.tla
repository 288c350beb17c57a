------------------------------ MODULE MCBuffers ------------------------------
(***************************************************************************)
(* The three buffers for TLC: the ring, a send window and a receive        *)
(* window.  They share no state, so that it is enough to run one of them   *)
(* at a time, while the other two are as they were made.                   *)
(***************************************************************************)
EXTENDS RingBuffer, SendWindow, RecvWindow

BuffersInit == RingInit /\ SendInit /\ RecvInit

\* The ring as it was made, with one of the contents its memory may have then.
Unused == RingInit /\ mem = [c \in DOMAIN mem |-> CHOOSE b \in Byte : TRUE]

RingRuns == SendInit /\ RecvInit /\ RingNext /\ UNCHANGED <<sendVars, recvVars>>
SendRuns == Unused /\ RecvInit /\ SendNext /\ UNCHANGED <<ringVars, recvVars>>
RecvRuns == Unused /\ SendInit /\ RecvNext /\ UNCHANGED <<ringVars, sendVars>>

BuffersNext == RingRuns \/ SendRuns \/ RecvRuns

BuffersSpec == BuffersInit /\ [][BuffersNext]_<<ringVars, sendVars, recvVars>>

=============================================================================
