----------------------- MODULE MessageChannelsProofs -----------------------
(***************************************************************************)
(* For every capacity of the spsc channels and every number of messages,   *)
(* flushes and arrivals: channel_task keeps the messages of a type in      *)
(* order and loses none, a flush covers every message sent before it, and  *)
(* the task never sleeps through a flush or a message.                     *)
(*                                                                         *)
(* The order is proved by counting, as for the spsc channel: the k-th      *)
(* message to enter the outgoing channel is message k.  A flush is         *)
(* complete because what it asks for has entered the channel when the flag *)
(* is stored, and the loop of Next::Flush ends only when everything that   *)
(* has entered was given.  That no signal is lost is not inductive: it     *)
(* rests on the wakers that the branches of the select! and the send to    *)
(* the application leave behind before they look for the last time.        *)
(***************************************************************************)
EXTENDS MessageChannels, SequenceTheorems, TLAPS

AppPcs == {"idle", "send", "ready", "asyncflush", "asyncwait", "wakeoutgoing", "wakeslot",
           "wakeready", "wakeflush", "wakeincoming", "drop", "dropreceiver", "dropped", "await"}

\* Where the application is about to wake the task for a message.
Waking == {"wakeoutgoing", "wakeslot", "wakeready"}

TaskPcs == {"select", "deliver", "register", "retry", "wait", "give", "drain", "flush", "ended"}

Polling == {"try", "register", "retry", "pending"}

Sides == {"incoming", "outgoing", "flush"}

\* The shape of the state.
StateOK ==
  /\ outgoing \in Seq(Nat) /\ incoming \in Seq(Nat) /\ slot \in Seq(Nat)
  /\ given \in Seq(Nat) /\ delivered \in Seq(Nat)
  /\ sent \in Nat /\ asked \in Int /\ flushed \in Nat
  /\ signaled \in BOOLEAN /\ woken \in BOOLEAN /\ disconnected \in BOOLEAN
  /\ waker \in [Sides -> BOOLEAN]
  /\ app \in AppPcs /\ task \in TaskPcs
  /\ branch \in [incoming : {"try", "pending"}, outgoing : Polling, flush : Polling]

\* The ends the application still holds, by how far recv_err has got.
EndsHeld ==
  held = IF app = "await" THEN {}
         ELSE IF app \in {"dropreceiver", "dropped"} THEN {"incoming"} ELSE {"outgoing", "incoming"}

\* The items of q are the numbers after n, in order.
Counted(q, n) == \A i \in 1..Len(q) : q[i] = n + i

\* How many messages have entered the outgoing spsc channel.
Entered == Len(given) + Len(outgoing)

\* The messages given and on the outgoing channel are numbered without a gap, and so are
\* those delivered and on the incoming channel.
Numbered ==
  /\ Counted(given, 0) /\ Counted(outgoing, Len(given))
  /\ Counted(delivered, 0) /\ Counted(incoming, Len(delivered))

\* The slot holds the message after those, or nothing.
SlotNext == /\ slot = <<>> \/ slot = <<Entered + 1>>
            /\ ~disconnected /\ "outgoing" \in held => Entered + Len(slot) = sent

\* Only a call that found the task gone disconnects.
OrderInv == /\ EndsHeld /\ Numbered /\ SlotNext
            /\ disconnected => task = "ended"

\* A flush asks for messages that have entered; after the loop of Next::Flush all were given.
FlushInv ==
  /\ task # "ended" => asked <= Entered
  /\ ~signaled /\ task = "flush" => asked <= Len(given)
  /\ FlushIsComplete

\* What looks for the last time before it sleeps, or sleeps, has left its waker behind.
WakerLeft ==
  /\ branch.flush \in {"retry", "pending"} => woken \/ waker["flush"]
  /\ branch.outgoing \in {"retry", "pending"} => woken \/ waker["outgoing"]
  /\ task \in {"retry", "wait"} => woken \/ waker["incoming"]

\* What came after the last look is about to wake the task.
WakeDue ==
  ~woken =>
    /\ branch.flush = "pending" /\ signaled => app = "wakeflush"
    /\ branch.outgoing = "pending" /\ outgoing # <<>> => app \in Waking
    /\ task = "wait" /\ Len(incoming) < Capacity => app = "wakeincoming"

IInv == StateOK /\ OrderInv /\ FlushInv /\ WakerLeft /\ WakeDue

----------------------------------------------------------------------------
(* Sequences of numbers. *)

\* One more at the end.
LEMMA CountedAppend ==
  ASSUME NEW q \in Seq(Nat), NEW n \in Nat, NEW x \in Nat, Counted(q, n), x = n + Len(q) + 1
  PROVE  /\ Append(q, x) \in Seq(Nat) /\ Len(Append(q, x)) = Len(q) + 1
         /\ Counted(Append(q, x), n)
<1>1. /\ Append(q, x) \in Seq(Nat) /\ Len(Append(q, x)) = Len(q) + 1
      /\ \A i \in 1..Len(q) : Append(q, x)[i] = q[i]
      /\ Append(q, x)[Len(q) + 1] = x
  BY AppendProperties
<1>2. ASSUME NEW i \in 1..Len(Append(q, x)) PROVE Append(q, x)[i] = n + i
  <2>1. i \in 1..Len(q) \/ i = Len(q) + 1 BY <1>1
  <2> QED BY <1>1, <2>1 DEF Counted
<1> QED BY <1>1, <1>2 DEF Counted

\* The first one goes to the end of the numbers before it.
LEMMA CountedMove ==
  ASSUME NEW p \in Seq(Nat), NEW q \in Seq(Nat), q # <<>>, Counted(p, 0), Counted(q, Len(p))
  PROVE  /\ Append(p, Head(q)) \in Seq(Nat) /\ Tail(q) \in Seq(Nat)
         /\ Len(Append(p, Head(q))) = Len(p) + 1 /\ Len(Tail(q)) = Len(q) - 1
         /\ Counted(Append(p, Head(q)), 0) /\ Counted(Tail(q), Len(Append(p, Head(q))))
<1>1. /\ Tail(q) \in Seq(Nat) /\ Len(Tail(q)) = Len(q) - 1 /\ Head(q) \in Nat
      /\ \A i \in 1..Len(Tail(q)) : Tail(q)[i] = q[i + 1]
  BY HeadTailProperties
<1>2. Len(q) \in Nat \ {0} /\ Len(p) \in Nat OBVIOUS
<1>3. Head(q) = Len(p) + 1 BY <1>2 DEF Counted
<1>4. /\ Append(p, Head(q)) \in Seq(Nat) /\ Len(Append(p, Head(q))) = Len(p) + 1
      /\ Counted(Append(p, Head(q)), 0)
  BY <1>1, <1>2, <1>3, CountedAppend
<1>5. ASSUME NEW i \in 1..Len(Tail(q)) PROVE Tail(q)[i] = Len(p) + 1 + i
  <2>1. i + 1 \in 1..Len(q) BY <1>1, <1>2
  <2> QED BY <1>1, <1>2, <2>1 DEF Counted
<1> QED BY <1>1, <1>4, <1>5 DEF Counted

\* Numbers after numbers are numbers.
LEMMA CountedConcat ==
  ASSUME NEW p \in Seq(Nat), NEW q \in Seq(Nat), Counted(p, 0), Counted(q, Len(p))
  PROVE  p \o q \in Seq(Nat) /\ Len(p \o q) = Len(p) + Len(q) /\ Counted(p \o q, 0)
<1>1. /\ p \o q \in Seq(Nat) /\ Len(p \o q) = Len(p) + Len(q)
      /\ \A i \in 1..(Len(p) + Len(q)) : (p \o q)[i] = IF i <= Len(p) THEN p[i] ELSE q[i - Len(p)]
  BY ConcatProperties
<1>2. ASSUME NEW i \in 1..(Len(p) + Len(q)) PROVE (p \o q)[i] = 0 + i
  <2>1. CASE i <= Len(p) BY <1>1, <2>1 DEF Counted
  <2>2. CASE ~(i <= Len(p))
    <3>1. i - Len(p) \in 1..Len(q) BY <2>2
    <3>2. q[i - Len(p)] = Len(p) + (i - Len(p)) BY <3>1 DEF Counted
    <3> QED BY <1>1, <2>2, <3>2
  <2> QED BY <2>1, <2>2
<1> QED BY <1>1, <1>2 DEF Counted

\* They are the sequence of the numbers.
LEMMA CountedIs ==
  ASSUME NEW q \in Seq(Nat), Counted(q, 0)
  PROVE  q = [i \in 1..Len(q) |-> i]
<1>1. q = [i \in 1..Len(q) |-> q[i]] OBVIOUS
<1>2. \A i \in 1..Len(q) : q[i] = i BY DEF Counted
<1> QED BY <1>1, <1>2

\* The message in the slot enters the channel.
LEMMA SlotEnters ==
  ASSUME StateOK, OrderInv, slot # <<>>
  PROVE  outgoing \o slot = Append(outgoing, Entered + 1)
<1>1. slot = <<Entered + 1>> /\ Entered \in Nat BY DEF StateOK, OrderInv, SlotNext, Entered
<1> QED BY <1>1, AppendIsConcat DEF StateOK

----------------------------------------------------------------------------
(* The steps, by what they do. *)

\* The application's steps.
AppMove == \/ /\ app \in {"idle", "asyncflush", "asyncwait"}
              /\ \E pc \in Waking : PutSlot(pc)
           \/ Send \/ SendFull \/ AsyncStart \/ Flush \/ Recv \/ Disconnect \/ DropEnds
           \/ AsyncMoves("asyncflush", "asyncwait") \/ AsyncMoves("asyncwait", "idle")
           \/ /\ app \in Waking \cup {"idle"}
              /\ \E pc \in {"idle", "send", "ready", "drop"} : Wake("outgoing", pc)
           \/ app = "wakeflush" /\ Wake("flush", "idle")
           \/ app = "wakeincoming" /\ Wake("incoming", "idle")
           \/ app = "dropreceiver" /\ Wake("incoming", "dropped")

\* The task's steps that leave what it moves alone.
TaskMove == \/ SelectIncoming \/ SelectFlush \/ Register("outgoing") \/ Register("flush")
            \/ Resume \/ DeliverRegister \/ Give \/ FlushChannel \/ Fail

\* Every step is one of these.
LEMMA StepCases ==
  ASSUME [Next]_vars
  PROVE  \/ AppMove \/ TaskMove \/ Arrive
         \/ SelectOutgoing \/ Deliver \/ Drain
         \/ UNCHANGED vars
BY DEF Next, CallStep, TaskStep, AppMove, TaskMove, SendSlot, AsyncReady, AsyncFlush, AsyncWait,
   AsyncCancel, WakeOutgoing, WakeFlush, WakeIncoming, RecvErr, Waking

----------------------------------------------------------------------------
(* Types. *)

\* They hold at the start.
LEMMA StateInit == Init => StateOK
<1> SUFFICES ASSUME Init PROVE StateOK OBVIOUS
<1>1. <<>> \in Seq(Nat) BY EmptySeq
<1>2. waker \in [Sides -> BOOLEAN] BY DEF Init, Sides
<1>3. branch \in [incoming : {"try", "pending"}, outgoing : Polling, flush : Polling]
  BY DEF Init, Unpolled, Polling
<1>4. /\ outgoing \in Seq(Nat) /\ incoming \in Seq(Nat) /\ slot \in Seq(Nat)
      /\ given \in Seq(Nat) /\ delivered \in Seq(Nat)
  BY <1>1 DEF Init
<1>5. signaled \in BOOLEAN /\ woken \in BOOLEAN /\ disconnected \in BOOLEAN
  BY DEF Init
<1>6. /\ sent \in Nat /\ asked \in Int /\ flushed \in Nat
      /\ app \in AppPcs /\ task \in TaskPcs
  BY DEF Init, AppPcs, TaskPcs
<1> QED BY <1>2, <1>3, <1>4, <1>5, <1>6 DEF StateOK

\* The application's steps keep the types.
LEMMA StateApp == ASSUME StateOK, OrderInv, AppMove PROVE StateOK'
<1> USE DEF StateOK, AppPcs, TaskPcs, Polling, Sides, taskVars, Waking
<1>1. ASSUME NEW pc \in Waking, PutSlot(pc) PROVE StateOK'
  <2>1. Entered + 1 \in Nat BY DEF Entered
  <2>2. outgoing' = Append(outgoing, Entered + 1) /\ slot' = <<>> /\ app' = pc
    BY <1>1, SlotEnters DEF PutSlot
  <2>3. outgoing' \in Seq(Nat) BY <2>1, <2>2, AppendProperties
  <2> QED BY <1>1, <2>2, <2>3 DEF PutSlot
<1>2. CASE Send
  <2>1. outgoing' \in Seq(Nat) /\ sent' \in Nat BY <1>2, AppendProperties DEF Send
  <2> QED BY <1>2, <2>1 DEF Send
<1>3. CASE SendFull BY <1>3 DEF SendFull
<1>4. CASE AsyncStart BY <1>4 DEF AsyncStart
<1>5. CASE Flush
  <2>1. asked' \in Int BY <1>5 DEF Flush
  <2> QED BY <1>5, <2>1 DEF Flush
<1>6. CASE Recv
  <2>1. delivered' \in Seq(Nat) /\ incoming' \in Seq(Nat)
    BY <1>6, HeadTailProperties, AppendProperties DEF Recv
  <2> QED BY <1>6, <2>1 DEF Recv
<1>7. CASE Disconnect
  <2>1. slot' = slot \/ slot' = <<>> BY <1>7 DEF Disconnect
  <2>2. slot' \in Seq(Nat) BY <2>1, EmptySeq
  <2>3. disconnected' \in BOOLEAN /\ app' = "idle" BY <1>7 DEF Disconnect
  <2> QED BY <1>7, <2>2, <2>3 DEF Disconnect
<1>8. CASE DropEnds
  <2>1. slot' = slot \/ slot' = <<>> BY <1>8 DEF DropEnds
  <2>2. slot' \in Seq(Nat) BY <2>1, EmptySeq
  <2>3. app' \in AppPcs BY <1>8 DEF DropEnds
  <2> QED BY <1>8, <2>2, <2>3 DEF DropEnds
<1>9. ASSUME NEW from \in AppPcs, NEW to \in AppPcs, AsyncMoves(from, to) PROVE StateOK'
  BY <1>9 DEF AsyncMoves
<1>10. ASSUME NEW side \in Sides, NEW pc \in AppPcs, Wake(side, pc) PROVE StateOK'
  BY <1>10 DEF Wake
<1> QED BY <1>1, <1>2, <1>3, <1>4, <1>5, <1>6, <1>7, <1>8, <1>9, <1>10 DEF AppMove

\* What moves from the front of a channel keeps its type.
LEMMA MoveType ==
  ASSUME NEW p \in Seq(Nat), NEW q \in Seq(Nat), q # <<>>
  PROVE  Append(p, Head(q)) \in Seq(Nat) /\ Tail(q) \in Seq(Nat)
BY HeadTailProperties, AppendProperties

\* The task's steps and the remote's keep the types.
LEMMA StateTask ==
  ASSUME StateOK, TaskMove \/ SelectOutgoing \/ Deliver \/ Drain \/ Arrive \/ UNCHANGED vars
  PROVE  StateOK'
<1> USE DEF StateOK, AppPcs, TaskPcs, Polling, Sides, appVars, taskVars, Unpolled
<1>1. CASE SelectIncoming
  <2>1. CASE pulled < arrived BY <1>1, <2>1 DEF SelectIncoming, Chosen
  <2>2. CASE ~(pulled < arrived) BY <1>1, <2>2 DEF SelectIncoming, Advance
  <2> QED BY <2>1, <2>2
<1>2. CASE SelectFlush
  <2>1. CASE signaled
    <3>1. signaled' \in BOOLEAN BY <1>2, <2>1 DEF SelectFlush
    <3>2. task' = "drain" /\ branch' = Unpolled BY <1>2, <2>1 DEF SelectFlush, Chosen
    <3>3. UNCHANGED <<outgoing, incoming, slot, given, delivered, sent, asked, flushed, woken,
                      disconnected, waker, app>>
      BY <1>2 DEF SelectFlush
    <3> QED BY <3>1, <3>2, <3>3
  <2>2. CASE ~signaled BY <1>2, <2>2 DEF SelectFlush, Advance
  <2> QED BY <2>1, <2>2
<1>3. CASE Register("outgoing")
  <2>1. waker' \in [Sides -> BOOLEAN] BY <1>3 DEF Register
  <2>2. branch' \in [incoming : {"try", "pending"}, outgoing : Polling, flush : Polling]
    BY <1>3 DEF Register, Advance
  <2> QED BY <1>3, <2>1, <2>2 DEF Register, Advance
<1>4. CASE Register("flush")
  <2>1. waker' \in [Sides -> BOOLEAN] BY <1>4 DEF Register
  <2>2. branch' \in [incoming : {"try", "pending"}, outgoing : Polling, flush : Polling]
    BY <1>4 DEF Register, Advance
  <2> QED BY <1>4, <2>1, <2>2 DEF Register, Advance
<1>5. CASE Resume
  <2>1. woken' \in BOOLEAN BY <1>5 DEF Resume
  <2>2. branch' \in [incoming : {"try", "pending"}, outgoing : Polling, flush : Polling]
    BY <1>5 DEF Resume, Chosen
  <2>3. UNCHANGED <<outgoing, incoming, slot, given, delivered, sent, asked, flushed, signaled,
                    disconnected, waker, app>>
    BY <1>5 DEF Resume
  <2>4. task' \in TaskPcs BY <1>5 DEF Resume, Chosen
  <2> QED BY <2>1, <2>2, <2>3, <2>4
<1>6. CASE Give BY <1>6 DEF Give, Continue
<1>7. CASE FlushChannel
  <2>1. flushed' \in Nat BY <1>7 DEF FlushChannel
  <2> QED BY <1>7, <2>1 DEF FlushChannel, Continue
<1>8. CASE Fail
  <2>1. task' = "ended" /\ branch' = Unpolled BY <1>8 DEF Fail, Chosen
  <2> QED BY <1>8, <2>1 DEF Fail
<1>9. CASE SelectOutgoing
  <2>1. CASE outgoing # <<>>
    <3>1. outgoing' = Tail(outgoing) /\ given' = Append(given, Head(outgoing))
      BY <1>9, <2>1 DEF SelectOutgoing
    <3>2. outgoing' \in Seq(Nat) /\ given' \in Seq(Nat)
      BY <2>1, <3>1, MoveType
    <3> QED BY <1>9, <2>1, <3>2 DEF SelectOutgoing, Chosen
  <2>2. CASE outgoing = <<>> /\ "outgoing" \notin held
    BY <1>9, <2>2 DEF SelectOutgoing, Chosen
  <2>3. CASE outgoing = <<>> /\ "outgoing" \in held
    BY <1>9, <2>3 DEF SelectOutgoing, Advance
  <2> QED BY <2>1, <2>2, <2>3
<1>10. CASE Deliver
  <2>1. pulled \in Nat BY DEF pulled
  <2>2. incoming' = Append(incoming, pulled) \/ incoming' = incoming BY <1>10 DEF Deliver
  <2>3. Append(incoming, pulled) \in Seq(Nat) /\ incoming \in Seq(Nat) BY <2>1, AppendProperties
  <2>4. incoming' \in Seq(Nat) BY <2>2, <2>3, Zenon
  <2>5. task' \in TaskPcs BY <1>10 DEF Deliver
  <2> QED BY <1>10, <2>4, <2>5 DEF Deliver
<1>11. CASE Drain
  <2>1. CASE outgoing # <<>>
    <3>1. outgoing' = Tail(outgoing) /\ given' = Append(given, Head(outgoing))
      BY <1>11, <2>1 DEF Drain
    <3>2. outgoing' \in Seq(Nat) /\ given' \in Seq(Nat)
      BY <2>1, <3>1, MoveType
    <3> QED BY <1>11, <2>1, <3>2 DEF Drain
  <2>2. CASE outgoing = <<>> BY <1>11, <2>2 DEF Drain
  <2> QED BY <2>1, <2>2
<1>12. CASE Arrive BY <1>12 DEF Arrive
<1>13. CASE UNCHANGED vars BY <1>13 DEF vars
<1>14. CASE DeliverRegister
  <2>1. waker' \in [Sides -> BOOLEAN] BY <1>14 DEF DeliverRegister
  <2>2. task' \in TaskPcs BY <1>14 DEF DeliverRegister
  <2> QED BY <1>14, <2>1, <2>2 DEF DeliverRegister
<1> QED BY <1>1, <1>2, <1>3, <1>4, <1>5, <1>6, <1>7, <1>8, <1>9, <1>10, <1>11, <1>12, <1>13,
           <1>14
  DEF TaskMove

----------------------------------------------------------------------------
(* Order. *)

\* There are no messages at first.
LEMMA OrderInit == Init => OrderInv
BY DEF Init, OrderInv, EndsHeld, Numbered, Counted, SlotNext, Entered

\* The application's steps keep the order.
LEMMA OrderApp == ASSUME StateOK, OrderInv, AppMove PROVE OrderInv'
<1> USE DEF OrderInv, EndsHeld, taskVars
<1>0. Entered \in Nat /\ sent \in Nat BY DEF StateOK, Entered
<1>1. ASSUME NEW pc \in Waking, PutSlot(pc), app \in {"idle", "asyncflush", "asyncwait"}
      PROVE  OrderInv'
  <2>1. outgoing' = Append(outgoing, Entered + 1) BY <1>1, SlotEnters DEF PutSlot
  <2>2. UNCHANGED <<given, delivered, incoming, disconnected, sent, task, held>> /\ slot' = <<>>
    BY <1>1 DEF PutSlot
  <2>3. Counted(outgoing', Len(given)) /\ Len(outgoing') = Len(outgoing) + 1
    BY <1>0, <2>1, CountedAppend DEF StateOK, Numbered, Entered
  <2>4. Numbered' BY <2>2, <2>3 DEF Numbered
  <2>5. slot = <<Entered + 1>> /\ Len(slot) = 1 BY <1>1 DEF PutSlot, SlotNext
  <2>6. SlotNext' BY <2>2, <2>3, <2>5 DEF SlotNext, Entered, StateOK
  <2>7. EndsHeld' BY <1>1, <2>2 DEF PutSlot, Waking
  <2> QED BY <2>2, <2>4, <2>6, <2>7
<1>2. CASE Send
  <2>1. "outgoing" \in held /\ ~disconnected /\ slot = <<>> BY <1>2 DEF Send, CanSend
  <2>2. sent = Entered BY <1>0, <2>1 DEF SlotNext
  <2>3. /\ UNCHANGED <<given, delivered, incoming, disconnected, task, held, slot>>
        /\ sent' = sent + 1 /\ outgoing' = Append(outgoing, sent + 1)
    BY <1>2 DEF Send
  <2>4. Counted(outgoing', Len(given)) /\ Len(outgoing') = Len(outgoing) + 1
    BY <1>0, <2>2, <2>3, CountedAppend DEF StateOK, Numbered, Entered
  <2>5. Numbered' BY <2>3, <2>4 DEF Numbered
  <2>6. SlotNext' BY <2>1, <2>2, <2>3, <2>4 DEF SlotNext, Entered, StateOK
  <2>7. EndsHeld' BY <1>2 DEF Send
  <2> QED BY <2>3, <2>5, <2>6, <2>7
<1>3. CASE AsyncStart
  <2>1. "outgoing" \in held /\ ~disconnected /\ slot = <<>> BY <1>3 DEF AsyncStart
  <2>2. sent = Entered BY <1>0, <2>1 DEF SlotNext
  <2>3. SlotNext' BY <1>0, <1>3, <2>2 DEF AsyncStart, SlotNext, Entered
  <2> QED BY <1>3, <2>3 DEF AsyncStart, Numbered
<1>4. CASE Recv
  <2>1. /\ Counted(delivered', 0) /\ Counted(incoming', Len(delivered'))
    BY <1>4, CountedMove DEF Recv, StateOK, Numbered
  <2> QED BY <1>4, <2>1 DEF Recv, Numbered, SlotNext, Entered
<1>5. CASE Disconnect
  <2>1. slot' = slot \/ slot' = <<>> BY <1>5 DEF Disconnect
  <2>2. SlotNext' BY <1>5, <2>1 DEF Disconnect, SlotNext, Entered
  <2> QED BY <1>5, <2>2 DEF Disconnect, Numbered, Ended
<1>6. CASE DropEnds
  <2>1. slot' = slot \/ slot' = <<>> BY <1>6 DEF DropEnds
  <2>2. SlotNext' BY <1>6, <2>1 DEF DropEnds, SlotNext, Entered
  <2>3. EndsHeld' BY <1>6 DEF DropEnds
  <2> QED BY <1>6, <2>2, <2>3 DEF DropEnds, Numbered
<1>7. CASE UNCHANGED <<outgoing, incoming, slot, held, disconnected, sent, given, task, delivered>>
           /\ app \notin {"await", "dropreceiver", "dropped"}
           /\ app' \notin {"await", "dropreceiver", "dropped"}
  BY <1>7 DEF Numbered, SlotNext, Entered
<1>8. CASE SendFull
  BY <1>8 DEF SendFull, Ended, Numbered, SlotNext, Entered
<1>9. ASSUME NEW pc \in {"idle", "send", "ready", "drop"}, app \in Waking \cup {"idle"},
             Wake("outgoing", pc)
      PROVE  OrderInv'
  BY <1>7, <1>9 DEF Wake, Waking
<1>10. CASE app = "wakeincoming" /\ Wake("incoming", "idle")
  BY <1>7, <1>10 DEF Wake
<1>11. CASE app = "dropreceiver" /\ Wake("incoming", "dropped")
  BY <1>11 DEF Wake, Numbered, SlotNext, Entered
<1> QED BY <1>1, <1>2, <1>3, <1>4, <1>5, <1>6, <1>7, <1>8, <1>9, <1>10, <1>11
  DEF AppMove, Flush, Wake, AsyncMoves

\* The task's steps and the remote's keep the order.
LEMMA OrderTask ==
  ASSUME StateOK, OrderInv,
         TaskMove \/ SelectOutgoing \/ Deliver \/ Drain \/ Arrive \/ UNCHANGED vars
  PROVE  OrderInv'
<1> USE DEF OrderInv, EndsHeld, appVars
<1>1. CASE /\ outgoing # <<>> /\ outgoing' = Tail(outgoing)
           /\ given' = Append(given, Head(outgoing))
           /\ UNCHANGED <<incoming, appVars>> /\ task # "ended"
  <2>1. /\ Counted(given', 0) /\ Counted(outgoing', Len(given'))
        /\ Len(given') = Len(given) + 1 /\ Len(outgoing') = Len(outgoing) - 1
    BY <1>1, CountedMove DEF StateOK, Numbered
  <2>2. Numbered' BY <1>1, <2>1 DEF Numbered
  <2>3. Entered' = Entered BY <2>1 DEF Entered, StateOK
  <2> QED BY <1>1, <2>2, <2>3 DEF SlotNext
<1>2. CASE /\ UNCHANGED <<outgoing, given, incoming, appVars>>
           /\ task = "ended" => task' = "ended"
  BY <1>2 DEF Numbered, SlotNext, Entered
<1>3. CASE SelectOutgoing
  BY <1>1, <1>2, <1>3 DEF SelectOutgoing, Chosen, Advance, Polls
<1>4. CASE Drain
  BY <1>1, <1>2, <1>4 DEF Drain
<1>5. CASE Deliver
  <2>1. CASE incoming' = Append(incoming, pulled)
    <3>1. UNCHANGED <<outgoing, given, appVars>> /\ task # "ended" BY <1>5 DEF Deliver
    <3>0. Delivering BY <1>5 DEF Deliver, Delivering
    <3>2. pulled = Len(delivered) + Len(incoming) + 1 /\ pulled \in Nat /\ Len(delivered) \in Nat
      <4>1. Len(delivered) \in Nat /\ Len(incoming) \in Nat BY DEF StateOK
      <4> QED BY <3>0, <4>1 DEF pulled
    <3>3. Counted(incoming', Len(delivered))
      BY <2>1, <3>2, CountedAppend DEF StateOK, Numbered
    <3>4. UNCHANGED <<delivered, sent, slot, held, app, disconnected>> BY <3>1
    <3>5. EndsHeld' /\ (disconnected => task = "ended")' BY <3>1, <3>4
    <3>6. Numbered' BY <3>1, <3>3, <3>4 DEF Numbered
    <3>7. SlotNext' BY <3>1, <3>4 DEF SlotNext, Entered
    <3> QED BY <3>5, <3>6, <3>7
  <2>2. CASE UNCHANGED incoming
    BY <1>2, <1>5, <2>2 DEF Deliver
  <2> QED BY <1>5, <2>1, <2>2 DEF Deliver
<1>6. TaskMove => UNCHANGED <<outgoing, given, incoming, appVars>> /\ task # "ended"
  BY DEF TaskMove, SelectIncoming, SelectFlush, Register, Resume, DeliverRegister, Give,
     FlushChannel, Fail, Polls, Asleep, Continue
<1> QED BY <1>2, <1>3, <1>4, <1>5, <1>6 DEF Arrive, vars, taskVars

----------------------------------------------------------------------------
(* Flush. *)

\* No flush was asked for at first.
LEMMA FlushInit == Init => FlushInv
BY DEF Init, FlushInv, FlushIsComplete, Entered

\* Messages only move on, so a flush stays as complete as it was.
LEMMA FlushStep ==
  ASSUME StateOK, OrderInv, FlushInv, [Next]_vars
  PROVE  FlushInv'
<1> USE DEF FlushInv, FlushIsComplete
<1>0. /\ Len(given) \in Nat /\ Len(outgoing) \in Nat /\ asked \in Int /\ flushed \in Nat
      /\ Entered = Len(given) + Len(outgoing)
  BY DEF StateOK, Entered
<1>1. CASE Flush
  <2>1. "outgoing" \in held BY <1>1 DEF Flush, OrderInv, EndsHeld
  <2>2. task # "ended" => sent - Len(slot) = Entered
    BY <1>0, <2>1 DEF OrderInv, SlotNext, StateOK
  <2> QED BY <1>0, <1>1, <2>2 DEF Flush, taskVars, Entered
<1>2. ASSUME NEW pc \in Waking, PutSlot(pc) PROVE FlushInv'
  <2>1. outgoing' = Append(outgoing, Entered + 1) BY <1>2, SlotEnters DEF PutSlot
  <2>2. Len(outgoing') = Len(outgoing) + 1 BY <2>1, <1>0, AppendProperties DEF StateOK
  <2> QED BY <1>0, <1>2, <2>2 DEF PutSlot, taskVars, Entered
<1>3. CASE Send
  <2>1. Len(outgoing') = Len(outgoing) + 1 BY <1>3, AppendProperties DEF StateOK, Send
  <2> QED BY <1>0, <1>3, <2>1 DEF Send, taskVars, Entered
<1>4. ASSUME outgoing # <<>>, outgoing' = Tail(outgoing), given' = Append(given, Head(outgoing))
      PROVE  Len(given') = Len(given) + 1 /\ Entered' = Entered
  <2>1. Len(given') = Len(given) + 1 /\ Len(outgoing') = Len(outgoing) - 1
    BY <1>4, HeadTailProperties, AppendProperties DEF StateOK
  <2> QED BY <1>0, <2>1 DEF Entered
<1>5. CASE SelectOutgoing
  <2>1. CASE outgoing # <<>>
    <3>1. /\ outgoing' = Tail(outgoing) /\ given' = Append(given, Head(outgoing))
          /\ task = "select" /\ task' = "give" /\ UNCHANGED <<signaled, flushed, asked>>
      BY <1>5, <2>1 DEF SelectOutgoing, Chosen, Polls, appVars
    <3> QED BY <1>0, <1>4, <2>1, <3>1
  <2>2. CASE outgoing = <<>>
    <3>1. UNCHANGED <<outgoing, given, signaled, flushed, asked>> /\ task = "select"
      BY <1>5, <2>2 DEF SelectOutgoing, Polls, appVars
    <3>2. task' \in {"select", "ended"} BY <1>5, <2>2, <3>1 DEF SelectOutgoing, Chosen, Advance
    <3> QED BY <3>1, <3>2 DEF Entered
  <2> QED BY <2>1, <2>2
<1>6. CASE Drain
  <2>1. CASE outgoing # <<>>
    <3>1. /\ outgoing' = Tail(outgoing) /\ given' = Append(given, Head(outgoing))
          /\ task = "drain" /\ task' = "drain" /\ UNCHANGED <<signaled, flushed, asked>>
      BY <1>6, <2>1 DEF Drain, appVars
    <3> QED BY <1>0, <1>4, <2>1, <3>1
  <2>2. CASE outgoing = <<>>
    <3>1. UNCHANGED <<outgoing, given, signaled, flushed, asked>> /\ task = "drain"
      BY <1>6, <2>2 DEF Drain, appVars
    <3>2. task' \in {"flush", "ended"} BY <1>6, <2>2 DEF Drain
    <3>3. Len(outgoing) = 0 BY <2>2
    <3> QED BY <1>0, <3>1, <3>2, <3>3 DEF Entered
  <2> QED BY <2>1, <2>2
<1>7. CASE FlushChannel
  BY <1>0, <1>7 DEF FlushChannel, Continue, appVars, Entered
<1>8. CASE SelectFlush
  <2>1. CASE signaled
    BY <1>8, <2>1 DEF SelectFlush, Polls, Chosen, appVars, Entered
  <2>2. CASE ~signaled
    BY <1>8, <2>2 DEF SelectFlush, Polls, Advance, appVars, Entered
  <2> QED BY <2>1, <2>2
<1>9. CASE /\ UNCHANGED <<outgoing, given, signaled, flushed, asked>>
           /\ \/ task' \in {task, "ended"}
              \/ {task, task'} \subseteq {"select", "deliver", "register", "retry", "wait", "give"}
  BY <1>9 DEF Entered
<1>10. ASSUME TaskMove \/ Deliver PROVE FlushInv'
  <2>1. CASE SelectIncoming BY <1>9, <2>1 DEF SelectIncoming, Polls, Chosen, Advance, appVars
  <2>2. CASE Register("outgoing") BY <1>9, <2>2 DEF Register, Advance, appVars
  <2>3. CASE Register("flush") BY <1>9, <2>3 DEF Register, Advance, appVars
  <2>4. CASE Resume BY <1>9, <2>4 DEF Resume, Asleep, Chosen, appVars
  <2>5. CASE Give BY <1>9, <2>5 DEF Give, Continue, appVars
  <2>6. CASE Fail BY <1>9, <2>6 DEF Fail, Chosen, appVars
  <2>7. CASE Deliver BY <1>9, <2>7 DEF Deliver, appVars
  <2>8. CASE DeliverRegister BY <1>9, <2>8 DEF DeliverRegister, appVars
  <2> QED BY <1>7, <1>8, <1>10, <2>1, <2>2, <2>3, <2>4, <2>5, <2>6, <2>7, <2>8 DEF TaskMove
<1>11. ASSUME AppMove PROVE FlushInv'
  <2>1. CASE SendFull \/ AsyncStart \/ Recv \/ Disconnect \/ DropEnds
    BY <1>9, <2>1 DEF SendFull, AsyncStart, Recv, Disconnect, DropEnds, taskVars
  <2>2. ASSUME NEW from, NEW to, AsyncMoves(from, to) PROVE FlushInv'
    BY <1>9, <2>2 DEF AsyncMoves, taskVars
  <2>3. ASSUME NEW side, NEW pc, Wake(side, pc) PROVE FlushInv'
    BY <1>9, <2>3 DEF Wake, taskVars
  <2> QED BY <1>1, <1>2, <1>3, <1>11, <2>1, <2>2, <2>3 DEF AppMove
<1>12. CASE Arrive \/ UNCHANGED vars
  BY <1>9, <1>12 DEF Arrive, vars, appVars, taskVars
<1> QED BY <1>5, <1>6, <1>10, <1>11, <1>12, StepCases

----------------------------------------------------------------------------
(* Wakers. *)

\* Nothing is awaited at first.
LEMMA WakeInit == Init => WakerLeft /\ WakeDue
BY DEF Init, Unpolled, WakerLeft, WakeDue

\* The application wakes the task after each change the task may wait for.
LEMMA WakeApp ==
  ASSUME StateOK, WakerLeft, WakeDue, AppMove
  PROVE  WakerLeft' /\ WakeDue'
<1> USE DEF StateOK, WakerLeft, WakeDue, Sides, taskVars, Waking
<1>1. ASSUME NEW pc \in Waking, PutSlot(pc), app \in {"idle", "asyncflush", "asyncwait"}
      PROVE  WakerLeft' /\ WakeDue'
  BY <1>1 DEF PutSlot
<1>2. CASE Send BY <1>2 DEF Send
<1>3. CASE SendFull BY <1>3 DEF SendFull
<1>4. CASE Flush BY <1>4 DEF Flush
<1>5. CASE Recv BY <1>5 DEF Recv
<1>6. CASE Disconnect BY <1>6 DEF Disconnect
<1>7. CASE DropEnds BY <1>7 DEF DropEnds
<1>8. CASE AsyncMoves("asyncflush", "asyncwait") \/ AsyncMoves("asyncwait", "idle")
  BY <1>8 DEF AsyncMoves
<1>9. ASSUME NEW pc \in {"idle", "send", "ready", "drop"}, app \in Waking \cup {"idle"},
             Wake("outgoing", pc)
      PROVE  WakerLeft' /\ WakeDue'
  BY <1>9 DEF Wake
<1>10. CASE app = "wakeflush" /\ Wake("flush", "idle")
  BY <1>10 DEF Wake
<1>11. CASE AsyncStart BY <1>11 DEF AsyncStart
<1>12. CASE app = "wakeincoming" /\ Wake("incoming", "idle")
  BY <1>12 DEF Wake
<1>13. CASE app = "dropreceiver" /\ Wake("incoming", "dropped")
  BY <1>13 DEF Wake
<1> QED BY <1>1, <1>2, <1>3, <1>4, <1>5, <1>6, <1>7, <1>8, <1>9, <1>10, <1>11, <1>12, <1>13
  DEF AppMove

\* The task registers before it looks for the last time.
LEMMA WakeTask ==
  ASSUME StateOK, WakerLeft, WakeDue,
         TaskMove \/ SelectOutgoing \/ Deliver \/ Drain \/ Arrive \/ UNCHANGED vars
  PROVE  WakerLeft' /\ WakeDue'
<1> USE DEF StateOK, WakerLeft, WakeDue, Sides, Polling, appVars, Unpolled
<1>1. CASE SelectIncoming
  BY <1>1 DEF SelectIncoming, Polls, Chosen, Advance
<1>2. CASE SelectFlush
  BY <1>2 DEF SelectFlush, Polls, Chosen, Advance
<1>3. CASE Register("outgoing") BY <1>3 DEF Register, Polls, Advance
<1>4. CASE Register("flush") BY <1>4 DEF Register, Polls, Advance
<1>5. CASE Resume BY <1>5 DEF Resume, Chosen
<1>6. CASE Fail BY <1>6 DEF Fail, Chosen
<1>7. CASE SelectOutgoing
  BY <1>7 DEF SelectOutgoing, Polls, Chosen, Advance
<1>8. CASE Arrive BY <1>8 DEF Arrive, taskVars
<1>9. CASE UNCHANGED vars BY <1>9 DEF vars
<1>10. CASE Give BY <1>10 DEF Give, Continue
<1>11. CASE FlushChannel BY <1>11 DEF FlushChannel, Continue
<1>12. CASE Deliver
  <2>1. Len(incoming) \in Nat /\ Capacity \in Nat BY MessageChannelsAssumption
  <2> QED BY <1>12, <2>1 DEF Deliver
<1>13. CASE Drain BY <1>13 DEF Drain
<1>14. CASE DeliverRegister BY <1>14 DEF DeliverRegister
<1> QED BY <1>1, <1>2, <1>3, <1>4, <1>5, <1>6, <1>7, <1>8, <1>9, <1>10, <1>11, <1>12, <1>13,
           <1>14
  DEF TaskMove

----------------------------------------------------------------------------
(* The invariant, and what follows from it. *)

\* All of it holds throughout.
LEMMA Invariance == Spec => []IInv
<1>1. Init => IInv
  BY StateInit, OrderInit, FlushInit, WakeInit DEF IInv
<1>2. IInv /\ [Next]_vars => IInv'
  <2> SUFFICES ASSUME IInv, [Next]_vars PROVE IInv' OBVIOUS
  <2>1. StateOK /\ OrderInv /\ FlushInv /\ WakerLeft /\ WakeDue BY DEF IInv
  <2>2. FlushInv' BY <2>1, FlushStep
  <2>3. CASE AppMove BY <2>1, <2>2, <2>3, StateApp, OrderApp, WakeApp DEF IInv
  <2>4. CASE ~AppMove
    <3>1. TaskMove \/ SelectOutgoing \/ Deliver \/ Drain \/ Arrive \/ UNCHANGED vars
      BY <2>4, StepCases
    <3> QED BY <2>1, <2>2, <3>1, StateTask, OrderTask, WakeTask DEF IInv
  <2> QED BY <2>3, <2>4
<1> QED BY <1>1, <1>2, PTL DEF Spec

\* What was counted is in order.
LEMMA InOrder == IInv => MessagesInOrder
<1> SUFFICES ASSUME IInv PROVE MessagesInOrder OBVIOUS
<1> USE DEF IInv, StateOK, OrderInv
<1>1. /\ given \o outgoing \in Seq(Nat) /\ Len(given \o outgoing) = Entered
      /\ Counted(given \o outgoing, 0) /\ Entered \in Nat
  BY CountedConcat DEF Numbered, Entered
<1>2. Counted(slot, Entered)
  BY <1>1 DEF SlotNext, Counted
<1>3. PICK kept \in Seq(Nat) : kept = given \o outgoing \o slot
  BY <1>1, ConcatProperties
<1>4. Len(kept) = Entered + Len(slot) /\ Counted(kept, 0)
  BY <1>1, <1>2, <1>3, CountedConcat
<1>5. kept = [i \in 1..Len(kept) |-> i]
  BY <1>4, CountedIs
<1>6. ~disconnected /\ "outgoing" \in held => Len(kept) = sent
  BY <1>4 DEF SlotNext
<1>7. delivered \o incoming \in Seq(Nat) /\ Counted(delivered \o incoming, 0)
  BY CountedConcat DEF Numbered
<1>8. delivered \o incoming = [i \in 1..Len(delivered \o incoming) |-> i]
  BY <1>7, CountedIs
<1> HIDE DEF IInv, StateOK, OrderInv
<1> QED BY <1>3, <1>5, <1>6, <1>8, Zenon DEF MessagesInOrder

(***************************************************************************)
(* For every capacity and any interleaving of sends, cancelled sends and   *)
(* flushes with the task: the messages of a type keep their order through  *)
(* the slot, the select! and the loop of Next::Flush, and none is lost or  *)
(* repeated while both ends are there.                                     *)
(***************************************************************************)
THEOREM MessagesStayInOrder == Spec => []MessagesInOrder
BY Invariance, InOrder, PTL

(***************************************************************************)
(* For every capacity, when a flush has been taken and carried out, every  *)
(* message put on the channel before it was flushed, also when flush is    *)
(* called again, or messages keep coming, while the task drains.           *)
(***************************************************************************)
THEOREM FlushesAreComplete == Spec => []FlushIsComplete
<1>1. IInv => FlushIsComplete BY DEF IInv, FlushInv
<1> QED BY <1>1, Invariance, PTL

(***************************************************************************)
(* For every capacity, the task does not sleep through a flush or a        *)
(* message, nor through the room that receiving makes: looking again after *)
(* registering closes the race with the application, which changes the     *)
(* channel first and wakes second.                                         *)
(***************************************************************************)
THEOREM SignalsAreNotLost == Spec => []NoLostSignal
<1>1. IInv => NoLostSignal
  <2> SUFFICES ASSUME IInv, ~woken PROVE NoLostSignal BY DEF NoLostSignal
  <2>1. Asleep => branch.flush = "pending" /\ branch.outgoing = "pending"
    BY DEF IInv, StateOK, Asleep
  <2> QED BY <2>1 DEF IInv, WakerLeft, WakeDue, Waking, NoLostSignal
<1> QED BY <1>1, Invariance, PTL

=============================================================================
