----------------------------- MODULE WakersProofs -----------------------------
(***************************************************************************)
(* The two places where a thread sleeps until another one calls the waker  *)
(* it left behind: the spsc channel and the ReliableChannel.               *)
(*                                                                         *)
(* For every capacity and every number of items the spsc channel is a      *)
(* queue that delivers each accepted item exactly once, and neither end    *)
(* loses a wakeup.  For windows of every size a ReliableChannel loses no   *)
(* wakeup of its application, and its task never sleeps on data that was   *)
(* flushed.                                                                *)
(*                                                                         *)
(* That no wakeup is lost is not inductive.  Whether a sleeper will be     *)
(* woken depends on its waker still being registered, so the invariants    *)
(* say of each thread which wakers it has left behind since it began to    *)
(* look.                                                                   *)
(***************************************************************************)
EXTENDS Spsc, ReliableWakers, SequenceTheorems, TLAPS

----------------------------------------------------------------------------
(* The spsc channel.  Its order is proved by counting: the next item to    *)
(* enter the channel is always the one after those received and those in   *)
(* the channel.  What remains to know at each point of the sender's calls  *)
(* is whether that item is in the slot, in poll_ready's hand or still the  *)
(* caller's.                                                               *)

Sides == {"send", "recv"}

SPcs == {"idle", "asleep", "prev", "wakeprev", "send", "resend", "register", "wake",
         "closed", "drop", "dropped"}

RPcs == {"idle", "asleep", "recv", "rerecv", "register", "wake", "closed", "drop", "dropped"}

\* The shape of the state.
SpscTypeOK ==
  /\ queue \in Seq(Nat) /\ slot \in Seq(Nat) /\ received \in Seq(Nat) /\ accepted \in Nat
  /\ s \in [pc : SPcs, kind : {"none", "poll", "try"}, item : Nat]
  /\ r \in [pc : RPcs, kind : {"none", "poll", "try"}]
  /\ waker \in [Sides -> BOOLEAN]
  /\ woken \in [Sides -> BOOLEAN]
  /\ connected \in [Sides -> BOOLEAN]
  /\ s.pc = "send" => s.kind \in {"poll", "try"}
  /\ s.pc \in {"register", "resend"} => s.kind = "poll"
  /\ s.pc \in {"prev", "wakeprev"} => s.kind = "try"
  /\ s.pc = "prev" => slot # <<>>
  /\ r.pc = "recv" => r.kind \in {"poll", "try"}
  /\ r.pc \in {"register", "rerecv"} => r.kind = "poll"

\* How many items have entered the channel, while its receiver exists.
Entered == Len(received) + Len(queue)

\* The items received and those in the channel are numbered without a gap.
Numbered == /\ \A i \in 1..Len(received) : received[i] = i
            /\ \A i \in 1..Len(queue) : queue[i] = Len(received) + i

\* The slot is empty and everything accepted has entered, or it holds the one item that has not.
SlotNext == \/ slot = <<>> /\ accepted = Entered
            \/ slot = <<accepted>> /\ accepted = Entered + 1

\* Where the next item is, at each point of the sender's calls.
SenderNext ==
  /\ s.pc \in {"idle", "asleep"} => SlotNext
  /\ s.pc = "prev" => s.item = accepted + 1 /\ slot = <<accepted>> /\ accepted = Entered + 1
  /\ s.pc = "wakeprev" => s.item = accepted + 1 /\ slot = <<>> /\ accepted = Entered
  /\ s.pc = "wake" => slot = <<>> /\ accepted = Entered
  /\ s.pc \in {"send", "register", "resend"} =>
       /\ s.item = Entered + 1 /\ slot = <<>>
       /\ accepted = IF s.kind = "poll" THEN Entered + 1 ELSE Entered

\* The items are in order.
OrderInv == Numbered /\ (connected["recv"] => SenderNext)

\* Each end that tries for the last time before it sleeps, or sleeps, has left its waker behind.
WakerLeft == /\ s.pc \in {"resend", "asleep"} => woken["send"] \/ waker["send"]
             /\ r.pc \in {"rerecv", "asleep"} => woken["recv"] \/ waker["recv"]

----------------------------------------------------------------------------
\* Types at the beginning and across each step.
LEMMA SpscTypeInit == Init => SpscTypeOK
BY DEF Init, SpscTypeOK, SIdle, SPcs, RPcs, Sides

\* Every step keeps the types.
LEMMA SpscTypeStep == SpscTypeOK /\ [Next]_vars => SpscTypeOK'
<1> SUFFICES ASSUME SpscTypeOK, [Next]_vars PROVE SpscTypeOK' OBVIOUS
<1> USE DEF SpscTypeOK, SPcs, RPcs, Sides, SIdle
<1>1. CASE StartSend BY <1>1 DEF StartSend
<1>2. CASE PollReady BY <1>2 DEF PollReady, Run
<1>3. CASE TrySend BY <1>3 DEF TrySend
<1>4. CASE SendPrev
  <2>1. slot[1] \in Nat BY <1>4, ElementOfSeq DEF SendPrev
  <2>2. CASE connected["recv"] /\ ~Full
    <3>0. queue' = Append(queue, slot[1]) BY <1>4, <2>2 DEF SendPrev
    <3>1. queue' \in Seq(Nat) BY <2>1, <3>0, AppendProperties
    <3>2. slot' \in Seq(Nat) BY <1>4, <2>2, EmptySeq DEF SendPrev
    <3> QED BY <1>4, <2>2, <3>1, <3>2 DEF SendPrev
  <2>3. CASE ~(connected["recv"] /\ ~Full)
    BY <1>4, <2>3 DEF SendPrev
  <2> QED BY <2>2, <2>3
<1>5. CASE SendPrevWake BY <1>5 DEF SendPrevWake, wake
<1>6. CASE SendOk
  <2>1. queue' \in Seq(Nat) BY <1>6, AppendProperties DEF SendOk
  <2>2. accepted' \in Nat BY <1>6 DEF SendOk
  <2>3. s' \in [pc : SPcs, kind : {"none", "poll", "try"}, item : Nat] /\ s'.pc = "wake"
    BY <1>6 DEF SendOk
  <2> QED BY <1>6, <2>1, <2>2, <2>3 DEF SendOk
<1>7. CASE SendWake BY <1>7 DEF SendWake, wake
<1>8. CASE SendFull
  <2>1. CASE s.kind = "try" BY <1>8, <2>1 DEF SendFull
  <2>2. CASE s.kind = "poll" /\ s.pc = "send" BY <1>8, <2>2 DEF SendFull
  <2>3. CASE s.kind = "poll" /\ s.pc = "resend"
    <3>1. s' = [pc |-> "asleep", kind |-> "none", item |-> 0] /\ slot' = <<s.item>>
      BY <1>8, <2>3 DEF SendFull
    <3> QED BY <1>8, <2>3, <3>1 DEF SendFull
  <2> QED BY <1>8, <2>1, <2>2, <2>3 DEF SendFull
<1>9. CASE SendRegister BY <1>9 DEF SendRegister, register
<1>10. CASE SendDisconnected BY <1>10 DEF SendDisconnected
<1>11. CASE DropSender BY <1>11 DEF DropSender, wake
<1>12. CASE DropSenderFields
  <2>1. slot' \in Seq(Nat) /\ connected' \in [Sides -> BOOLEAN]
    BY <1>12, EmptySeq DEF DropSenderFields
  <2> QED BY <1>12, <2>1 DEF DropSenderFields
<1>13. ASSUME NEW kind \in {"poll", "try"}, RecvCall(kind) PROVE SpscTypeOK'
  BY <1>13 DEF RecvCall, Run
<1>14. CASE RecvOk
  <2>1. queue' \in Seq(Nat) /\ received' \in Seq(Nat)
    BY <1>14, HeadTailProperties, AppendProperties DEF RecvOk
  <2> QED BY <1>14, <2>1 DEF RecvOk
<1>15. CASE RecvWake BY <1>15 DEF RecvWake, wake
<1>16. CASE RecvEmpty BY <1>16 DEF RecvEmpty
<1>17. CASE RecvRegister BY <1>17 DEF RecvRegister, register
<1>18. CASE RecvDisconnected BY <1>18 DEF RecvDisconnected
<1>19. CASE DropReceiver BY <1>19 DEF DropReceiver, wake
<1>20. CASE DropReceiverFields BY <1>20 DEF DropReceiverFields
<1>21. CASE UNCHANGED vars BY <1>21 DEF vars
<1> QED BY <1>1, <1>2, <1>3, <1>4, <1>5, <1>6, <1>7, <1>8, <1>9, <1>10, <1>11, <1>12, <1>13,
  <1>14, <1>15, <1>16, <1>17, <1>18, <1>19, <1>20, <1>21 DEF Next, SenderStep, ReceiverStep

----------------------------------------------------------------------------
\* Order at the beginning and across each step.
LEMMA OrderInit == Init => OrderInv
BY DEF Init, OrderInv, Numbered, SenderNext, SlotNext, Entered, SIdle

\* An item enters the channel.
LEMMA Enter ==
  ASSUME SpscTypeOK, Numbered, NEW x \in Nat, x = Entered + 1,
         queue' = Append(queue, x), received' = received
  PROVE  Numbered' /\ Entered' = Entered + 1
<1>1. /\ Len(queue') = Len(queue) + 1
      /\ \A i \in 1..Len(queue) : queue'[i] = queue[i]
      /\ queue'[Len(queue) + 1] = x
  BY AppendProperties DEF SpscTypeOK
<1>2. \A i \in 1..Len(queue') : queue'[i] = Len(received) + i
  <2> TAKE i \in 1..Len(queue')
  <2>1. CASE i \in 1..Len(queue) BY <1>1, <2>1 DEF Numbered
  <2>2. CASE i = Len(queue) + 1 BY <1>1, <2>2 DEF SpscTypeOK, Entered
  <2>3. Len(queue) \in Nat BY DEF SpscTypeOK
  <2> QED BY <1>1, <2>1, <2>2, <2>3
<1> QED BY <1>1, <1>2 DEF SpscTypeOK, Numbered, Entered

\* An item leaves it.
LEMMA Leave ==
  ASSUME SpscTypeOK, Numbered, queue # <<>>,
         queue' = Tail(queue), received' = Append(received, Head(queue))
  PROVE  Numbered' /\ Entered' = Entered
<1>1. /\ Len(queue') = Len(queue) - 1
      /\ \A i \in 1..Len(queue') : queue'[i] = queue[i + 1]
  BY HeadTailProperties DEF SpscTypeOK
<1>2. Head(queue) = Len(received) + 1 /\ Head(queue) \in Nat
  <2>1. Len(queue) \in Nat \ {0} BY DEF SpscTypeOK
  <2> QED BY <2>1 DEF SpscTypeOK, Numbered
<1>3. /\ Len(received') = Len(received) + 1
      /\ \A i \in 1..Len(received) : received'[i] = received[i]
      /\ received'[Len(received) + 1] = Len(received) + 1
  BY <1>2, AppendProperties DEF SpscTypeOK
<1>4. \A i \in 1..Len(received') : received'[i] = i
  <2> TAKE i \in 1..Len(received')
  <2>1. CASE i \in 1..Len(received) BY <1>3, <2>1 DEF Numbered
  <2>2. CASE i = Len(received) + 1 BY <1>3, <2>2
  <2> QED BY <1>3, <2>1, <2>2 DEF SpscTypeOK
<1>5. \A i \in 1..Len(queue') : queue'[i] = Len(received') + i
  <2> TAKE i \in 1..Len(queue')
  <2>1. i + 1 \in 1..Len(queue) BY <1>1 DEF SpscTypeOK
  <2> QED BY <1>1, <1>3, <2>1 DEF SpscTypeOK, Numbered
<1> QED BY <1>1, <1>3, <1>4, <1>5 DEF SpscTypeOK, Numbered, Entered

\* Every step keeps the order.
LEMMA OrderStep == SpscTypeOK /\ OrderInv /\ [Next]_vars => OrderInv'
<1> SUFFICES ASSUME SpscTypeOK, OrderInv, [Next]_vars PROVE OrderInv' OBVIOUS
<1> USE DEF SpscTypeOK, OrderInv, SenderNext, SlotNext, SIdle
<1>a. CASE UNCHANGED <<queue, received>>
  <2> Numbered' /\ Entered' = Entered BY <1>a DEF Numbered, Entered
  <2>1. CASE StartSend BY <2>1 DEF StartSend
  <2>2. CASE PollReady BY <2>2 DEF PollReady
  <2>3. CASE TrySend
    <3>1. CASE slot = <<>> BY <2>3, <3>1 DEF TrySend
    <3>2. CASE slot # <<>>
      <4>1. connected["recv"] => slot = <<accepted>> /\ accepted = Entered + 1
        BY <2>3, <3>2 DEF TrySend
      <4> QED BY <2>3, <3>2, <4>1 DEF TrySend
    <3> QED BY <3>1, <3>2
  <2>4. CASE SendPrev BY <1>a, <2>4 DEF SendPrev
  <2>5. CASE SendPrevWake BY <2>5 DEF SendPrevWake
  <2>6. CASE SendOk BY <1>a, <2>6 DEF SendOk
  <2>7. CASE SendWake BY <2>7 DEF SendWake
  <2>8. CASE SendFull
    <3>1. CASE s.kind = "try" BY <2>8, <3>1 DEF SendFull
    <3>2. CASE s.kind = "poll" /\ s.pc = "send" BY <2>8, <3>2 DEF SendFull
    <3>3. CASE s.kind = "poll" /\ s.pc = "resend"
      <4>1. s' = [pc |-> "asleep", kind |-> "none", item |-> 0] /\ slot' = <<s.item>>
        BY <2>8, <3>3 DEF SendFull
      <4>2. connected["recv"] /\ accepted = Entered + 1 /\ s.item = accepted
        BY <2>8, <3>3 DEF SendFull
      <4> QED BY <2>8, <4>1, <4>2 DEF SendFull
    <3> QED BY <2>8, <3>1, <3>2, <3>3 DEF SendFull
  <2>9. CASE SendRegister BY <2>9 DEF SendRegister
  <2>10. CASE SendDisconnected BY <2>10 DEF SendDisconnected
  <2>11. CASE DropSender BY <2>11 DEF DropSender
  <2>12. CASE DropSenderFields BY <2>12 DEF DropSenderFields
  <2>13. CASE UNCHANGED <<slot, s, connected, accepted>> BY <2>13
  <2>14. CASE DropReceiverFields BY <2>14 DEF DropReceiverFields, Sides
  <2>15. RecvOk => FALSE BY <1>a DEF RecvOk
  <2> QED BY <2>1, <2>2, <2>3, <2>4, <2>5, <2>6, <2>7, <2>8, <2>9, <2>10, <2>11, <2>12, <2>13,
    <2>14, <2>15 DEF Next, SenderStep, ReceiverStep, vars, RecvCall, RecvWake, RecvEmpty,
    RecvRegister, RecvDisconnected, DropReceiver
<1>b. CASE SendPrev /\ connected["recv"] /\ ~Full
  <2>1. Numbered' /\ Entered' = Entered + 1
    <3>1. slot[1] = Entered + 1 /\ slot[1] \in Nat BY <1>b DEF SendPrev
    <3> QED BY <1>b, <3>1, Enter DEF SendPrev
  <2> QED BY <1>b, <2>1 DEF SendPrev
<1>c. CASE SendOk
  <2>1. Numbered' /\ Entered' = Entered + 1 BY <1>c, Enter DEF SendOk
  <2> QED BY <1>c, <2>1 DEF SendOk
<1>d. CASE RecvOk
  <2>1. Numbered' /\ Entered' = Entered BY <1>d, Leave DEF RecvOk
  <2> QED BY <1>d, <2>1 DEF RecvOk
<1>e. CASE DropReceiverFields
  BY <1>e DEF DropReceiverFields, Numbered, Sides
<1> QED BY <1>a, <1>b, <1>c, <1>d, <1>e DEF Next, SenderStep, ReceiverStep, vars, StartSend,
  PollReady, TrySend, SendPrev, SendPrevWake, SendWake, SendFull, SendRegister, SendDisconnected,
  DropSender, DropSenderFields, RecvCall, RecvWake, RecvEmpty, RecvRegister, RecvDisconnected,
  DropReceiver

----------------------------------------------------------------------------
\* Wakers at the beginning and across each step.
LEMMA WakeInit == Init => WakerLeft /\ NoLostWakeup
BY DEF Init, WakerLeft, NoLostWakeup, SIdle

\* Every step keeps the wakers.
LEMMA WakeStep ==
  SpscTypeOK /\ WakerLeft /\ NoLostWakeup /\ [Next]_vars => WakerLeft' /\ NoLostWakeup'
<1> SUFFICES ASSUME SpscTypeOK, WakerLeft, NoLostWakeup, [Next]_vars
             PROVE  WakerLeft' /\ NoLostWakeup'
  OBVIOUS
<1> USE SpscAssumption DEF SpscTypeOK, WakerLeft, NoLostWakeup, Full, SIdle, Sides
<1>1. CASE StartSend BY <1>1 DEF StartSend
<1>2. CASE PollReady BY <1>2 DEF PollReady, Run
<1>3. CASE TrySend BY <1>3 DEF TrySend
<1>4. CASE SendPrev BY <1>4 DEF SendPrev
<1>5. CASE SendPrevWake BY <1>5 DEF SendPrevWake, wake
<1>6. CASE SendOk BY <1>6 DEF SendOk
<1>7. CASE SendWake BY <1>7 DEF SendWake, wake
<1>8. CASE SendFull
  <2>1. CASE s.kind = "try" BY <1>8, <2>1 DEF SendFull
  <2>2. CASE s.kind = "poll" /\ s.pc = "send" BY <1>8, <2>2 DEF SendFull
  <2>3. CASE s.kind = "poll" /\ s.pc = "resend"
    <3>1. s' = [pc |-> "asleep", kind |-> "none", item |-> 0] /\ slot' = <<s.item>>
      BY <1>8, <2>3 DEF SendFull
    <3> QED BY <1>8, <2>3, <3>1 DEF SendFull
  <2> QED BY <1>8, <2>1, <2>2, <2>3 DEF SendFull
<1>9. CASE SendRegister BY <1>9 DEF SendRegister, register
<1>10. CASE SendDisconnected BY <1>10 DEF SendDisconnected
<1>11. CASE DropSender BY <1>11 DEF DropSender, wake
<1>12. CASE DropSenderFields BY <1>12 DEF DropSenderFields
<1>13. ASSUME NEW kind \in {"poll", "try"}, RecvCall(kind) PROVE WakerLeft' /\ NoLostWakeup'
  BY <1>13 DEF RecvCall, Run
<1>14. CASE RecvOk BY <1>14 DEF RecvOk
<1>15. CASE RecvWake BY <1>15 DEF RecvWake, wake
<1>16. CASE RecvEmpty BY <1>16 DEF RecvEmpty
<1>17. CASE RecvRegister BY <1>17 DEF RecvRegister, register
<1>18. CASE RecvDisconnected BY <1>18 DEF RecvDisconnected
<1>19. CASE DropReceiver BY <1>19 DEF DropReceiver, wake
<1>20. CASE DropReceiverFields BY <1>20 DEF DropReceiverFields
<1>21. CASE UNCHANGED vars BY <1>21 DEF vars
<1> QED BY <1>1, <1>2, <1>3, <1>4, <1>5, <1>6, <1>7, <1>8, <1>9, <1>10, <1>11, <1>12, <1>13,
  <1>14, <1>15, <1>16, <1>17, <1>18, <1>19, <1>20, <1>21 DEF Next, SenderStep, ReceiverStep

----------------------------------------------------------------------------
\* A sequence whose i-th item is i, for each i, is the sequence of the numbers.
LEMMA CountedSeq ==
  ASSUME NEW q \in Seq(Nat), NEW n \in Nat, Len(q) = n, \A i \in 1..n : q[i] = i
  PROVE  q = [i \in 1..n |-> i]
<1>1. q = [i \in 1..Len(q) |-> q[i]] OBVIOUS
<1> QED BY <1>1

\* The count of the items gives their sequence.
LEMMA OrderGivesFifo == SpscTypeOK /\ OrderInv => FifoExactlyOnce
<1> SUFFICES ASSUME SpscTypeOK, OrderInv, s.pc \notin {"closed", "drop", "dropped"},
                    connected["recv"]
             PROVE  Items = [i \in 1..accepted |-> i]
  BY DEF FifoExactlyOnce, OrderInv, Numbered
<1>0. InHand \in Seq(Nat) BY DEF SpscTypeOK, InHand
<1>1. \/ InHand = <<>> /\ slot = <<>> /\ accepted = Entered
      \/ InHand = <<accepted>> /\ slot = <<>> /\ accepted = Entered + 1
      \/ InHand = <<>> /\ slot = <<accepted>> /\ accepted = Entered + 1
  BY DEF SpscTypeOK, SPcs, OrderInv, SenderNext, SlotNext, InHand
<1> DEFINE body == received \o queue
<1>2. /\ body \in Seq(Nat) /\ Len(body) = Entered
      /\ \A i \in 1..Entered : body[i] = i
  <2>1. /\ body \in Seq(Nat) /\ Len(body) = Entered
        /\ \A i \in 1..Entered :
             body[i] = IF i <= Len(received) THEN received[i] ELSE queue[i - Len(received)]
    BY ConcatProperties DEF SpscTypeOK, Entered
  <2>2. ASSUME NEW i \in 1..Entered PROVE body[i] = i
    <3>1. CASE i <= Len(received)
      BY <2>1, <3>1 DEF SpscTypeOK, OrderInv, Numbered, Entered
    <3>2. CASE ~(i <= Len(received))
      <4>1. i - Len(received) \in 1..Len(queue) BY <3>2 DEF SpscTypeOK, Entered
      <4>2. queue[i - Len(received)] = Len(received) + (i - Len(received))
        BY <4>1 DEF OrderInv, Numbered
      <4> QED BY <2>1, <3>2, <4>2 DEF SpscTypeOK, Entered
    <3> QED BY <3>1, <3>2
  <2> QED BY <2>1, <2>2
<1> HIDE DEF body
<1>3. Items = (body \o InHand) \o slot
  BY DEF Items, body
<1>4. Entered \in Nat BY DEF SpscTypeOK, Entered
<1>5. CASE InHand = <<>> /\ slot = <<>> /\ accepted = Entered
  <2>1. Items = body BY <1>2, <1>3, <1>5, ConcatEmptySeq
  <2> QED BY <1>2, <1>4, <1>5, <2>1, CountedSeq
<1>6. CASE /\ accepted = Entered + 1
           /\ \/ InHand = <<accepted>> /\ slot = <<>>
              \/ InHand = <<>> /\ slot = <<accepted>>
  <2>1. body \o <<accepted>> \in Seq(Nat) BY <1>2, <1>4, <1>6, ConcatProperties
  <2>2. Items = body \o <<accepted>>
    BY <1>2, <1>3, <1>6, <2>1, ConcatEmptySeq
  <2>3. Len(Items) = accepted /\ Items \in Seq(Nat) /\ \A i \in 1..accepted : Items[i] = i
    BY <1>2, <1>4, <1>6, <2>1, <2>2, Z3
  <2> QED BY <1>4, <1>6, <2>3, CountedSeq
<1> QED BY <1>1, <1>5, <1>6

\* All of it holds throughout.
LEMMA SpscInvariant == Spec => [](SpscTypeOK /\ OrderInv /\ WakerLeft /\ NoLostWakeup)
<1>1. Init => SpscTypeOK /\ OrderInv /\ WakerLeft /\ NoLostWakeup
  BY SpscTypeInit, OrderInit, WakeInit
<1>2. SpscTypeOK /\ OrderInv /\ WakerLeft /\ NoLostWakeup /\ [Next]_vars
        => (SpscTypeOK /\ OrderInv /\ WakerLeft /\ NoLostWakeup)'
  BY SpscTypeStep, OrderStep, WakeStep
<1> QED BY <1>1, <1>2, PTL DEF Spec

(***************************************************************************)
(* For every capacity, and however poll_ready, start_send and try_send are *)
(* mixed, what was accepted is received exactly once and in order.         *)
(***************************************************************************)
THEOREM SpscIsFifo == Spec => []FifoExactlyOnce
BY SpscInvariant, OrderGivesFifo, PTL

(***************************************************************************)
(* For every capacity, neither poll_ready nor poll_next sleeps through     *)
(* what it waits for.                                                      *)
(***************************************************************************)
THEOREM SpscLosesNoWakeup == Spec => []NoLostWakeup
BY SpscInvariant, PTL

----------------------------------------------------------------------------
(* The ReliableChannel. *)

\* The application left its waker with the task's handle, which has not completed since.
HandleHeld ==
  app.pc \in {"register", "retry", "asleep"} =>
    "app" \in runnable \/ ("task_handle" \in wakers /\ ~Ended)

\* It left it for what it waits for, which nobody signalled since.
ReadyHeld ==
  app.pc \in {"retry", "asleep"} => "app" \in runnable \/ ReadyWaker \in wakers

\* The task left its waker for new data, and nobody used it since.
SendHeld ==
  task \in {"recheck", "asleep"} => "task" \in runnable \/ "send_ready" \in wakers

WInv == /\ TypeOK /\ HandleHeld /\ ReadyHeld /\ SendHeld
        /\ CallsAreWoken /\ FlushIsPrompt

----------------------------------------------------------------------------
\* Nothing is awaited at first.
LEMMA WInvInit == WakersInit => WInv
BY WakersAssumption DEF WakersInit, Idle, WInv, TypeOK, Ended, HandleHeld, ReadyHeld, SendHeld,
   CallsAreWoken, FlushIsPrompt, Available, ReadyWaker, write_available

\* A transfer moves room or data and nothing else: the sizes stay within the windows.
LEMMA TransferType ==
  ASSUME TypeOK, NEW op \in {"write", "read"}, NEW n \in Sizes, Transfer(op, n)
  PROVE  /\ unsent' \in Nat /\ in_flight' \in Nat /\ unsent' + in_flight' <= SendWindowSize
         /\ readable' \in 0..RecvWindowSize
         /\ unflushed' \in 0..unsent'
         /\ unsent' > unflushed' <=> unsent > unflushed
<1>1. n \in Int BY WakersAssumption DEF Sizes
<1>2. CASE op = "write"
  BY <1>1, <1>2, WakersAssumption DEF TypeOK, Transfer, write_available
<1>3. CASE op = "read"
  BY <1>1, <1>3, WakersAssumption DEF TypeOK, Transfer
<1> QED BY <1>2, <1>3

\* The steps of a call of the application.
LEMMA AppKeepsWInv == ASSUME WInv, AppStep PROVE WInv'
<1> USE WakersAssumption
<1>1. ASSUME NEW n \in Sizes, Poll(n) PROVE WInv'
  <2>1. CASE Available > 0
    <3>1. app.op \in {"write", "read"} BY <1>1 DEF Poll, WInv, TypeOK
    <3>2. Transfer(app.op, n) /\ app' = Idle /\ RegisterWaker("task_handle") /\ task' = task
      BY <1>1, <2>1 DEF Poll
    <3>3. TypeOK' /\ (unsent' > unflushed' <=> unsent > unflushed)
      BY <3>1, <3>2, TransferType DEF TypeOK, WInv, Idle, RegisterWaker
    <3>4. FlushIsPrompt'
      BY <3>2, <3>3 DEF WInv, FlushIsPrompt, RegisterWaker
    <3> QED BY <3>2, <3>3, <3>4 DEF Idle, WInv, Ended, HandleHeld, ReadyHeld, SendHeld,
       CallsAreWoken, RegisterWaker
  <2>2. CASE ~(Available > 0)
    BY <1>1, <2>2 DEF Poll, bytes, RegisterWaker, WInv, TypeOK, Ended, HandleHeld, ReadyHeld, SendHeld,
       CallsAreWoken, FlushIsPrompt
  <2> QED BY <2>1, <2>2
<1>2. ASSUME NEW n \in Sizes, Retry(n) PROVE WInv'
  <2>0. app.op \in {"write", "read"} BY <1>2 DEF Retry, WInv, TypeOK
  <2>1. CASE Available > 0
    <3>2. Transfer(app.op, n) /\ app' = Idle /\ UNCHANGED wakeVars /\ task' = task
      BY <1>2, <2>1 DEF Retry
    <3>3. TypeOK' /\ (unsent' > unflushed' <=> unsent > unflushed)
      BY <2>0, <3>2, TransferType DEF TypeOK, WInv, Idle, wakeVars
    <3>4. FlushIsPrompt'
      BY <3>2, <3>3 DEF WInv, FlushIsPrompt, wakeVars
    <3> QED BY <3>2, <3>3, <3>4 DEF Idle, WInv, Ended, HandleHeld, ReadyHeld, SendHeld,
       CallsAreWoken, wakeVars
  <2>2. CASE ~(Available > 0)
    BY <1>2, <2>0, <2>2 DEF Retry, WakeOwner, Owner, bytes, wakeVars, WInv, TypeOK, Ended, HandleHeld,
       ReadyHeld, SendHeld, CallsAreWoken, FlushIsPrompt, Available, ReadyWaker, write_available
  <2> QED BY <2>1, <2>2
<1>3. CASE Register
  BY <1>3 DEF Register, RegisterWaker, bytes, WInv, TypeOK, Ended, HandleHeld, ReadyHeld, SendHeld,
     CallsAreWoken, FlushIsPrompt, ReadyWaker
<1>4. CASE AppWoken
  BY <1>4 DEF AppWoken, bytes, WInv, TypeOK, Ended, HandleHeld, ReadyHeld, SendHeld,
     CallsAreWoken, FlushIsPrompt
<1>5. CASE PollError
  BY <1>5 DEF PollError, bytes, wakeVars, Idle, WInv, TypeOK, Ended, HandleHeld, ReadyHeld, SendHeld,
     CallsAreWoken, FlushIsPrompt
<1> QED BY <1>1, <1>2, <1>3, <1>4, <1>5 DEF AppStep

\* What the application does between its calls.
LEMMA IdleKeepsWInv ==
  ASSUME WInv,
         \/ \E op \in {"write", "read"} : Call(op) \/ \E n \in Sizes : Try(op, n)
         \/ Cancel \/ Flush \/ FlushError
  PROVE  WInv'
<1> USE WakersAssumption
<1>1. ASSUME NEW op \in {"write", "read"}, Call(op) PROVE WInv'
  BY <1>1 DEF Call, bytes, wakeVars, WInv, TypeOK, Ended, HandleHeld, ReadyHeld, SendHeld,
     CallsAreWoken, FlushIsPrompt
<1>2. ASSUME NEW op \in {"write", "read"}, NEW n \in Sizes, Try(op, n) PROVE WInv'
  <2>1. TypeOK' /\ (unsent' > unflushed' <=> unsent > unflushed)
    BY <1>2, TransferType DEF Try, wakeVars, WInv, TypeOK
  <2>2. app.pc = "poll" BY <1>2 DEF Try, WInv, TypeOK
  <2> QED BY <1>2, <2>1, <2>2 DEF Try, wakeVars, WInv, Ended, HandleHeld, ReadyHeld, SendHeld,
     CallsAreWoken, FlushIsPrompt
<1>3. CASE Cancel
  <2>1. wakers' \subseteq wakers /\ ("send_ready" \in wakers => "send_ready" \in wakers')
    BY <1>3 DEF Cancel, ReadyWaker
  <2> QED BY <1>3, <2>1 DEF Cancel, Idle, bytes, WInv, TypeOK, Ended, HandleHeld, ReadyHeld,
     SendHeld, CallsAreWoken, FlushIsPrompt
<1>4. CASE Flush
  BY <1>4 DEF Flush, WInv, TypeOK, Ended, HandleHeld, ReadyHeld, SendHeld, CallsAreWoken, FlushIsPrompt
<1>5. CASE FlushError
  BY <1>5 DEF FlushError, bytes, wakeVars, WInv, TypeOK, Ended, HandleHeld, ReadyHeld, SendHeld,
     CallsAreWoken, FlushIsPrompt
<1> QED BY <1>1, <1>2, <1>3, <1>4, <1>5

\* The steps of the task.
LEMMA TaskKeepsWInv ==
  ASSUME WInv,
         \/ TaskHold \/ TaskPoll \/ TaskStep \/ ResendTimer \/ TaskEnds
         \/ \E n \in Sizes : RecvAck(n) \/ RecvData(n)
  PROVE  WInv'
<1> USE WakersAssumption
<1>1. CASE TaskHold \/ TaskPoll \/ ResendTimer \/ SendAck
  BY <1>1 DEF TaskHold, TaskPoll, ResendTimer, SendAck, bytes, wakeVars, WInv, TypeOK, Ended, HandleHeld,
     ReadyHeld, SendHeld, CallsAreWoken, FlushIsPrompt, Available, ReadyWaker, write_available
<1>2. ASSUME NEW n \in Sizes, TaskCheck(n) PROVE WInv'
  <2>0. n \in Int BY DEF Sizes
  <2>1. UNCHANGED <<app, wakers, runnable, readable>> /\ ~Ended /\ ~Ended'
    BY <1>2 DEF TaskCheck, bytes, wakeVars, Ended
  <2>2. CASE unsent > 0
    <3>1. /\ n \in 1..unsent /\ task' = "top"
          /\ unsent' = unsent - n /\ in_flight' = in_flight + n
          /\ unflushed' = IF unflushed <= unsent - n THEN unflushed ELSE unsent - n
      BY <1>2, <2>2 DEF TaskCheck
    <3>2. /\ unsent' \in Nat /\ in_flight' \in Nat /\ unflushed' \in 0..unsent'
          /\ unsent' + in_flight' = unsent + in_flight
      BY <2>0, <3>1 DEF WInv, TypeOK
    <3>3. SendWindowSize - unsent' - in_flight' = SendWindowSize - unsent - in_flight
      <4>1. unsent \in Nat /\ in_flight \in Nat BY DEF WInv, TypeOK
      <4> QED BY <2>0, <3>1, <4>1
    <3>4. Available' = Available /\ ReadyWaker' = ReadyWaker
      BY <2>1, <3>3 DEF Available, ReadyWaker, write_available
    <3>5. TypeOK' BY <2>1, <3>1, <3>2 DEF WInv, TypeOK
    <3> QED BY <1>2, <2>1, <3>1, <3>4, <3>5 DEF TaskCheck, WInv, Ended, HandleHeld, ReadyHeld, SendHeld,
       CallsAreWoken, FlushIsPrompt
  <2>3. CASE ~(unsent > 0)
    <3>1. UNCHANGED bytes /\ task' = IF task = "check" THEN "register" ELSE "asleep"
      BY <1>2, <2>3 DEF TaskCheck
    <3>2. Available' = Available /\ ReadyWaker' = ReadyWaker
      BY <2>1, <3>1 DEF Available, ReadyWaker, write_available, bytes
    <3>3. TypeOK' /\ ~(unsent' > unflushed')
      BY <2>1, <2>3, <3>1 DEF WInv, TypeOK, bytes
    <3> QED BY <1>2, <2>1, <3>1, <3>2, <3>3 DEF TaskCheck, WInv, Ended, HandleHeld, ReadyHeld, SendHeld,
       CallsAreWoken, FlushIsPrompt
  <2> QED BY <2>2, <2>3
<1>3. CASE TaskRegister
  BY <1>3 DEF TaskRegister, RegisterWaker, bytes, WInv, TypeOK, Ended, HandleHeld, ReadyHeld, SendHeld,
     CallsAreWoken, FlushIsPrompt, Available, ReadyWaker, write_available
<1>4. CASE TaskWoken
  BY <1>4 DEF TaskWoken, bytes, WInv, TypeOK, Ended, HandleHeld, ReadyHeld, SendHeld,
     CallsAreWoken, FlushIsPrompt, Available, ReadyWaker, write_available
<1>5. CASE TaskAcked
  BY <1>5 DEF TaskAcked, WakeOwner, Owner, bytes, wakeVars, WInv, TypeOK, Ended, HandleHeld, ReadyHeld,
     SendHeld, CallsAreWoken, FlushIsPrompt, Available, ReadyWaker, write_available
<1>6. CASE WakeReader
  BY <1>6 DEF WakeReader, WakeOwner, Owner, bytes, wakeVars, WInv, TypeOK, Ended, HandleHeld, ReadyHeld,
     SendHeld, CallsAreWoken, FlushIsPrompt, Available, ReadyWaker, write_available
<1>7. CASE TaskEnds
  BY <1>7 DEF TaskEnds, WakeOwner, Owner, bytes, WInv, TypeOK, Ended, HandleHeld, ReadyHeld, SendHeld,
     CallsAreWoken, FlushIsPrompt
<1>8. ASSUME NEW n \in Sizes, RecvAck(n) PROVE WInv'
  <2>1. n \in Int BY DEF Sizes
  <2>2. TypeOK' BY <1>8, <2>1 DEF RecvAck, wakeVars, WInv, TypeOK
  <2> QED BY <1>8, <2>2 DEF RecvAck, wakeVars, WInv, Ended, HandleHeld, ReadyHeld, SendHeld,
     CallsAreWoken, FlushIsPrompt, Available, ReadyWaker
<1>9. ASSUME NEW n \in Sizes, RecvData(n) PROVE WInv'
  <2>1. n \in Int BY DEF Sizes
  <2>2. TypeOK' BY <1>9, <2>1 DEF RecvData, wakeVars, WInv, TypeOK
  <2> QED BY <1>9, <2>2 DEF RecvData, wakeVars, WInv, Ended, HandleHeld, ReadyHeld, SendHeld,
     CallsAreWoken, FlushIsPrompt, Available, ReadyWaker, write_available
<1> QED BY <1>1, <1>2, <1>3, <1>4, <1>5, <1>6, <1>7, <1>8, <1>9
  DEF TaskStep

\* A step of the specification, or one that changes nothing.
LEMMA WInvStep == WInv /\ [WakersNext]_wakersVars => WInv'
<1> SUFFICES ASSUME WInv, [WakersNext]_wakersVars PROVE WInv' OBVIOUS
<1>1. CASE WakersNext
  BY <1>1, AppKeepsWInv, IdleKeepsWInv, TaskKeepsWInv DEF WakersNext
<1>2. CASE UNCHANGED wakersVars
  BY <1>2 DEF wakersVars, WInv, TypeOK, Ended, HandleHeld, ReadyHeld, SendHeld, CallsAreWoken,
     FlushIsPrompt, Available, ReadyWaker, write_available
<1> QED BY <1>1, <1>2

----------------------------------------------------------------------------
\* The inductive invariant holds throughout.
LEMMA WakersInvariant == WakersSpec => []WInv
BY WInvInit, WInvStep, PTL DEF WakersSpec

(***************************************************************************)
(* For every size of the windows, no window holds more than it can, and    *)
(* the bytes that no flush covers are among the unsent ones.               *)
(***************************************************************************)
THEOREM WindowsAreBounded == WakersSpec => []TypeOK
<1>1. WInv => TypeOK BY DEF WInv
<1> QED BY <1>1, WakersInvariant, PTL

(***************************************************************************)
(* For every size of the windows, poll_write and poll_read never sleep     *)
(* through room, data or the end of the task.                              *)
(***************************************************************************)
THEOREM WakeupsAreNotLost == WakersSpec => []CallsAreWoken
<1>1. WInv => CallsAreWoken BY DEF WInv
<1> QED BY <1>1, WakersInvariant, PTL

(***************************************************************************)
(* For every size of the windows, the task does not sleep until its timer  *)
(* on data that flush promised to send promptly.                           *)
(***************************************************************************)
THEOREM FlushesArePrompt == WakersSpec => []FlushIsPrompt
<1>1. WInv => FlushIsPrompt BY DEF WInv
<1> QED BY <1>1, WakersInvariant, PTL

=============================================================================
