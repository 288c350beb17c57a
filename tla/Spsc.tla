-------------------------------- MODULE Spsc --------------------------------
(***************************************************************************)
(* The asynchronous single-producer single-consumer channel of spsc.rs: a  *)
(* bounded crossbeam channel, one item of lookahead in the sender's slot,  *)
(* and two AtomicWakers through which the ends wake each other.            *)
(*                                                                         *)
(* The two ends belong to tasks on different threads.  A call is cut at    *)
(* every use of the crossbeam channel and of a waker, each of which is     *)
(* atomic.  A task that got Pending runs again when its waker is called,   *)
(* or for a reason of its own.  Items are the numbers 1, 2, ... in the     *)
(* order in which the sender offers them.                                  *)
(***************************************************************************)
EXTENDS Integers, Sequences

CONSTANTS Capacity,   \* capacity given to channel()
          MaxItems    \* items the sending task has

\* A crossbeam channel of capacity zero never completes a try_send.
ASSUME SpscAssumption == Capacity \in Nat \ {0} /\ MaxItems \in Nat

VARIABLES queue,      \* items in the crossbeam channel
          slot,       \* Sender.slot, <<>> for None
          s,          \* the sender's call in progress
          r,          \* the receiver's call in progress
          waker,      \* "send" and "recv": whether the AtomicWaker holds a waker
          woken,      \* whether the task was woken since it last ran
          connected,  \* whether that end of the crossbeam channel exists
          accepted,   \* how many items the sender took
          received    \* the items the receiver returned

vars == <<queue, slot, s, r, waker, woken, connected, accepted, received>>

----------------------------------------------------------------------------
(* crossbeam_channel and AtomicWaker. *)

\* crossbeam_channel::bounded(capacity): what it answers to try_send while a receiver exists.
Full == Len(queue) >= Capacity

wake(side) ==
  /\ waker' = [waker EXCEPT ![side] = FALSE]
  /\ woken' = [woken EXCEPT ![side] = @ \/ waker[side]]

register(side) == /\ waker' = [waker EXCEPT ![side] = TRUE]
                  /\ UNCHANGED woken

\* A task that runs again has used up its wakeup.
Run(side) == /\ woken' = [woken EXCEPT ![side] = FALSE]
             /\ UNCHANGED waker

----------------------------------------------------------------------------
(* Sender.  pc is the next step of the call, kind tells poll_ready from    *)
(* try_send, and item is the argument t of try_send.                       *)

SIdle == [pc |-> "idle", kind |-> "none", item |-> 0]

Init == /\ queue = <<>>
        /\ slot = <<>>
        /\ s = SIdle
        /\ r = [pc |-> "idle", kind |-> "none"]
        /\ waker = [side \in {"send", "recv"} |-> FALSE]
        /\ woken = [side \in {"send", "recv"} |-> FALSE]
        /\ connected = [side \in {"send", "recv"} |-> TRUE]
        /\ accepted = 0
        /\ received = <<>>

\* Sink::start_send, called when poll_ready has returned Ready.
StartSend ==
  /\ s.pc = "idle"
  /\ slot = <<>>
  /\ accepted < MaxItems
  /\ slot' = <<accepted + 1>>
  /\ accepted' = accepted + 1
  /\ UNCHANGED <<queue, s, r, waker, woken, connected, received>>

\* Sink::poll_ready and poll_flush: the item leaves the slot for try_send.
PollReady ==
  /\ s.pc = "idle" \/ s.pc = "asleep"
  /\ slot # <<>>
  /\ s' = [pc |-> "send", kind |-> "poll", item |-> slot[1]]
  /\ slot' = <<>>
  /\ Run("send")
  /\ UNCHANGED <<queue, r, connected, accepted, received>>

\* Mutant: the item in the slot is not sent first.
TrySendAround ==
  /\ s.pc = "idle"
  /\ accepted < MaxItems
  /\ s' = [pc |-> "send", kind |-> "try", item |-> accepted + 1]
  /\ UNCHANGED <<queue, slot, r, waker, woken, connected, accepted, received>>

\* Sender::try_send of a new item: one that waits in the slot goes first.
TrySend ==
  /\ s.pc = "idle"
  /\ accepted < MaxItems
  /\ s' = [pc |-> IF slot = <<>> THEN "send" ELSE "prev", kind |-> "try", item |-> accepted + 1]
  /\ UNCHANGED <<queue, slot, r, waker, woken, connected, accepted, received>>

\* channel.try_send(prev); on failure the slot keeps prev and the caller its item.
SendPrev ==
  /\ s.pc = "prev"
  /\ IF connected["recv"] /\ ~Full
     THEN /\ queue' = Append(queue, slot[1])
          /\ slot' = <<>>
          /\ s' = [s EXCEPT !.pc = "wakeprev"]
     ELSE /\ s' = IF connected["recv"] THEN SIdle ELSE [SIdle EXCEPT !.pc = "closed"]
          /\ UNCHANGED <<queue, slot>>
  /\ UNCHANGED <<r, waker, woken, connected, accepted, received>>

SendPrevWake ==
  /\ s.pc = "wakeprev"
  /\ wake("recv")
  /\ s' = [s EXCEPT !.pc = "send"]
  /\ UNCHANGED <<queue, slot, r, connected, accepted, received>>

\* channel.try_send(t) succeeds; try_send has then taken the item.
SendOk ==
  /\ s.pc \in {"send", "resend"}
  /\ connected["recv"]
  /\ ~Full
  /\ queue' = Append(queue, s.item)
  /\ accepted' = IF s.kind = "try" THEN accepted + 1 ELSE accepted
  /\ s' = [s EXCEPT !.pc = "wake"]
  /\ UNCHANGED <<slot, r, waker, woken, connected, received>>

SendWake ==
  /\ s.pc = "wake"
  /\ wake("recv")
  /\ s' = SIdle
  /\ UNCHANGED <<queue, slot, r, connected, accepted, received>>

\* It is full: try_send returns the item; poll_ready registers, tries again and waits.
SendFull ==
  /\ s.pc \in {"send", "resend"}
  /\ connected["recv"]
  /\ Full
  /\ CASE s.kind = "try" -> s' = SIdle /\ UNCHANGED slot
       [] s.kind = "poll" /\ s.pc = "send" ->
            s' = [s EXCEPT !.pc = "register"] /\ UNCHANGED slot
       [] s.kind = "poll" /\ s.pc = "resend" ->
            s' = [SIdle EXCEPT !.pc = "asleep"] /\ slot' = <<s.item>>
  /\ UNCHANGED <<queue, r, waker, woken, connected, accepted, received>>

\* Mutant: poll_ready waits after registering, without a second try_send.
SendRegisterAndWait ==
  /\ s.pc = "register"
  /\ register("send")
  /\ s' = [SIdle EXCEPT !.pc = "asleep"]
  /\ slot' = <<s.item>>
  /\ UNCHANGED <<queue, r, connected, accepted, received>>

SendRegister ==
  /\ s.pc = "register"
  /\ register("send")
  /\ s' = [s EXCEPT !.pc = "resend"]
  /\ UNCHANGED <<queue, slot, r, connected, accepted, received>>

\* The receiver is gone: poll_ready drops the item, try_send returns it.
SendDisconnected ==
  /\ s.pc \in {"send", "resend"}
  /\ ~connected["recv"]
  /\ s' = [SIdle EXCEPT !.pc = "closed"]
  /\ UNCHANGED <<queue, slot, r, waker, woken, connected, accepted, received>>

\* Sender is dropped: Drop::drop wakes the receiver ...
DropSender ==
  /\ s.pc \in {"idle", "asleep", "closed"}
  /\ s' = [SIdle EXCEPT !.pc = "drop"]
  /\ wake("recv")
  /\ UNCHANGED <<queue, slot, r, connected, accepted, received>>

\* ... and then its fields are dropped, which disconnects the channel.
DropSenderFields ==
  /\ s.pc = "drop"
  /\ s' = [SIdle EXCEPT !.pc = "dropped"]
  /\ slot' = <<>>
  /\ connected' = [connected EXCEPT !["send"] = FALSE]
  /\ UNCHANGED <<queue, r, waker, woken, accepted, received>>

----------------------------------------------------------------------------
(* Receiver. *)

\* Stream::poll_next and Receiver::try_recv start with channel.try_recv.
RecvCall(kind) ==
  /\ r.pc \in (IF kind = "poll" THEN {"idle", "asleep"} ELSE {"idle"})
  /\ r' = [pc |-> "recv", kind |-> kind]
  /\ Run("recv")
  /\ UNCHANGED <<queue, slot, s, connected, accepted, received>>

RecvOk ==
  /\ r.pc \in {"recv", "rerecv"}
  /\ queue # <<>>
  /\ received' = Append(received, Head(queue))
  /\ queue' = Tail(queue)
  /\ r' = [r EXCEPT !.pc = "wake"]
  /\ UNCHANGED <<slot, s, waker, woken, connected, accepted>>

\* Mutant: try_recv does not wake the sender.
RecvWakeNobody ==
  /\ r.pc = "wake"
  /\ r' = [pc |-> "idle", kind |-> "none"]
  /\ UNCHANGED <<queue, slot, s, waker, woken, connected, accepted, received>>

RecvWake ==
  /\ r.pc = "wake"
  /\ wake("send")
  /\ r' = [pc |-> "idle", kind |-> "none"]
  /\ UNCHANGED <<queue, slot, s, connected, accepted, received>>

\* Nothing there: try_recv returns; poll_next registers, tries again and waits.
RecvEmpty ==
  /\ r.pc \in {"recv", "rerecv"}
  /\ queue = <<>>
  /\ connected["send"]
  /\ r' = CASE r.kind = "try"                     -> [pc |-> "idle", kind |-> "none"]
            [] r.kind = "poll" /\ r.pc = "recv"   -> [r EXCEPT !.pc = "register"]
            [] r.kind = "poll" /\ r.pc = "rerecv" -> [pc |-> "asleep", kind |-> "none"]
  /\ UNCHANGED <<queue, slot, s, waker, woken, connected, accepted, received>>

RecvRegister ==
  /\ r.pc = "register"
  /\ register("recv")
  /\ r' = [r EXCEPT !.pc = "rerecv"]
  /\ UNCHANGED <<queue, slot, s, connected, accepted, received>>

\* Nothing there and no sender any more: the stream ends.
RecvDisconnected ==
  /\ r.pc \in {"recv", "rerecv"}
  /\ queue = <<>>
  /\ ~connected["send"]
  /\ r' = [pc |-> "closed", kind |-> "none"]
  /\ UNCHANGED <<queue, slot, s, waker, woken, connected, accepted, received>>

\* Receiver is dropped: Drop::drop, then its fields.
DropReceiver ==
  /\ r.pc \in {"idle", "asleep", "closed"}
  /\ r' = [pc |-> "drop", kind |-> "none"]
  /\ wake("send")
  /\ UNCHANGED <<queue, slot, s, connected, accepted, received>>

DropReceiverFields ==
  /\ r.pc = "drop"
  /\ r' = [pc |-> "dropped", kind |-> "none"]
  /\ queue' = <<>>
  /\ connected' = [connected EXCEPT !["recv"] = FALSE]
  /\ UNCHANGED <<slot, s, waker, woken, accepted, received>>

----------------------------------------------------------------------------

SenderStep == \/ SendPrev \/ SendPrevWake \/ SendOk \/ SendWake \/ SendFull
              \/ SendRegister \/ SendDisconnected \/ DropSenderFields

ReceiverStep == \/ RecvOk \/ RecvWake \/ RecvEmpty \/ RecvRegister
                \/ RecvDisconnected \/ DropReceiverFields

Next == \/ StartSend \/ PollReady \/ TrySend \/ SenderStep \/ DropSender
        \/ \E kind \in {"poll", "try"} : RecvCall(kind)
        \/ ReceiverStep \/ DropReceiver

Spec == Init /\ [][Next]_vars

----------------------------------------------------------------------------
(* Safety. *)

\* The item poll_ready has taken out of the slot.
InHand == IF s.kind = "poll" /\ s.pc \in {"send", "register", "resend"} THEN <<s.item>> ELSE <<>>

Items == received \o queue \o InHand \o slot

(***************************************************************************)
(* Every item the sender accepted is, once and in order, with the          *)
(* receiver, in the channel, in poll_ready's hand or in the slot, however  *)
(* poll_ready and try_send are mixed.  Only a drop loses items, and it     *)
(* loses the last ones.                                                    *)
(***************************************************************************)
FifoExactlyOnce ==
  /\ \A i \in 1..Len(received) : received[i] = i
  /\ s.pc \notin {"closed", "drop", "dropped"} /\ connected["recv"] =>
       Items = [i \in 1..accepted |-> i]

(***************************************************************************)
(* No wakeup is lost between the first try and the registration: an end    *)
(* that waits although it could go on is woken already, or its waker is    *)
(* registered and the other end is about to call it.                       *)
(***************************************************************************)
NoLostWakeup ==
  /\ s.pc = "asleep" /\ ~Full /\ connected["recv"] =>
       woken["send"] \/ (waker["send"] /\ r.pc \in {"wake", "drop"})
  /\ r.pc = "asleep" /\ queue # <<>> =>
       woken["recv"] \/ (waker["recv"] /\ s.pc \in {"wake", "wakeprev"})

----------------------------------------------------------------------------
(* Liveness. *)

(***************************************************************************)
(* A call that was begun is finished.  A task that was woken runs.  A      *)
(* receiving task polls again after each item, and a sending task flushes  *)
(* what is in its slot.  Nobody has to be woken for no reason.             *)
(***************************************************************************)
Fairness ==
  /\ WF_vars(SenderStep)
  /\ WF_vars(ReceiverStep)
  /\ WF_vars(s.pc = "idle" /\ PollReady)
  /\ WF_vars(s.pc = "asleep" /\ woken["send"] /\ PollReady)
  /\ WF_vars(r.pc = "idle" /\ RecvCall("poll"))
  /\ WF_vars(r.pc = "asleep" /\ woken["recv"] /\ RecvCall("poll"))

LiveSpec == Spec /\ Fairness

SenderGone == s.pc \in {"drop", "dropped"}
ReceiverGone == r.pc \in {"drop", "dropped"}

(***************************************************************************)
(* Every item accepted is received, unless the receiver is dropped or the  *)
(* sender is dropped before the item got from the slot into the channel.   *)
(***************************************************************************)
ItemsArrive ==
  \A k \in 1..MaxItems :
    (accepted >= k) ~> \/ Len(received) >= k
                       \/ ReceiverGone
                       \/ SenderGone /\ k \notin {queue[i] : i \in 1..Len(queue)}

(***************************************************************************)
(* A receiver that waits learns that the sender was dropped: this is how   *)
(* MessageChannels::recv_err, which drops the senders, ends the channel    *)
(* tasks whose error it then awaits.  The code does not guarantee it: the  *)
(* wakeup comes before the disconnection, and a receiver that polls        *)
(* between the two waits for ever.                                         *)
(***************************************************************************)
DisconnectSeen == SenderGone ~> (r.pc = "closed" \/ ReceiverGone)

=============================================================================
