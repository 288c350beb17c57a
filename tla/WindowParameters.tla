-------------------------- MODULE WindowParameters --------------------------
(***************************************************************************)
(* What SendWindow::new and RecvWindow::new are given, for the modules     *)
(* that run one window.                                                    *)
(***************************************************************************)
EXTENDS Windows

CONSTANTS Capacity,     \* capacity given to new
          StreamStart   \* stream_start given to new

\* The assertions of SendWindow::new, RecvWindow::new and RingBuffer::new.
ASSUME WindowAssumption == /\ Capacity \in 1..MaxWindow
                           /\ StreamStart \in StreamPositions

\* A byte of the ring that was never written.
Unwritten == -1

=============================================================================
