-------------------------- MODULE MessageQueueSpec --------------------------
(***************************************************************************)
(* What a message channel over a reliable byte stream promises: messages   *)
(* are received whole, in the order in which they were accepted, each      *)
(* once.                                                                   *)
(***************************************************************************)
EXTENDS Integers, Sequences

CONSTANT Messages

VARIABLES accepted, delivered

vars == <<accepted, delivered>>

Init == accepted = <<>> /\ delivered = <<>>

Accept == /\ \E m \in Messages : accepted' = Append(accepted, m)
          /\ UNCHANGED delivered

Deliver == /\ Len(delivered) < Len(accepted)
           /\ delivered' = Append(delivered, accepted[Len(delivered) + 1])
           /\ UNCHANGED accepted

Next == Accept \/ Deliver

Spec == Init /\ [][Next]_vars

=============================================================================
