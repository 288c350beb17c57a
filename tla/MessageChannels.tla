--------------------------- MODULE MessageChannels ---------------------------
(***************************************************************************)
(* One message type of a MessageChannels: the application, which sends,    *)
(* flushes and receives, and the channel_task that moves the messages      *)
(* between it and the typed channel below.  They share an spsc channel     *)
(* each way and the event_watch that carries flush.                        *)
(*                                                                         *)
(* The two run on different threads.  A step is one use of shared state:   *)
(* the crossbeam channel, the flag of the event_watch, or a waker.  The    *)
(* task polls the three branches of its select! in any order, and starts   *)
(* over when one of the wakers it registered is called.  The typed channel *)
(* is abstract: a message given to it is buffered until it is flushed, a   *)
(* call on it may fail, and it wakes the task for incoming messages.  The  *)
(* tasks of all types end when one of them does.                           *)
(*                                                                         *)
(* The task's wait for room in incoming is modelled with its waker: the    *)
(* receiver's drop wakes before it disconnects, so the wait may not end.   *)
(* async_send's wait for room in outgoing is a guard, and may be given up. *)
(***************************************************************************)
EXTENDS Integers, Sequences

CONSTANTS Capacity,     \* settings.message_buffer_size
          MaxSent,      \* messages the application sends
          MaxFlushes,   \* calls of flush
          MaxArrivals   \* messages from the remote

ASSUME MessageChannelsAssumption ==
  /\ Capacity \in Nat \ {0}
  /\ MaxSent \in Nat
  /\ MaxFlushes \in Nat
  /\ MaxArrivals \in Nat

VARIABLES outgoing, incoming,   \* the two spsc channels
          slot,                 \* the slot of the sender of outgoing, <<>> or <<message>>
          held,                 \* the spsc channels whose end the application holds
          signaled,             \* the flag of the event_watch
          waker,                \* which AtomicWakers hold the task's waker
          woken,                \* the task was woken since it was last polled
          app,                  \* what the application's call has still to do
          disconnected,         \* MessageChannels.disconnected
          sent,                 \* messages put on outgoing or in the slot
          asked,                \* messages put on outgoing when flush was last called
          flushes,              \* calls of flush
          task,                 \* next step of channel_task
          branch,               \* how far poll got in each branch of select!
          given, flushed,       \* messages given to the typed channel, and flushed
          arrived,              \* messages from the remote
          delivered             \* messages received by the application

vars == <<outgoing, incoming, slot, held, signaled, waker, woken, app, disconnected, sent, asked,
          flushes, task, branch, given, flushed, arrived, delivered>>

\* What the application changes by itself, and the task.
appVars  == <<app, slot, held, disconnected, sent, asked, flushes, delivered>>
taskVars == <<task, branch, given, flushed>>

Unpolled == [incoming |-> "try", outgoing |-> "try", flush |-> "try"]

Init == /\ outgoing = <<>>
        /\ incoming = <<>>
        /\ slot = <<>>
        /\ held = {"outgoing", "incoming"}
        /\ signaled = FALSE
        /\ waker = [w \in {"incoming", "outgoing", "flush"} |-> FALSE]
        /\ woken = FALSE
        /\ app = "idle"
        /\ disconnected = FALSE
        /\ sent = 0
        /\ asked = 0
        /\ flushes = 0
        /\ task = "select"
        /\ branch = Unpolled
        /\ given = <<>>
        /\ flushed = 0
        /\ arrived = 0
        /\ delivered = <<>>

----------------------------------------------------------------------------
(* The application. *)

Ended == task = "ended"

Room == Len(outgoing) < Capacity

CanSend == ~disconnected /\ ~Ended

\* spsc::Sender::try_send of the slot to the crossbeam channel.
PutSlot(pc) ==
  /\ CanSend
  /\ slot # <<>> /\ Room
  /\ outgoing' = outgoing \o slot
  /\ slot' = <<>>
  /\ app' = pc
  /\ UNCHANGED <<incoming, held, signaled, waker, woken, disconnected, sent, asked, flushes,
                 taskVars, arrived, delivered>>

\* MessageChannels::try_send: a message in the slot goes first.
SendSlot == app = "idle" /\ sent < MaxSent /\ PutSlot("wakeslot")

\* Mutant: the message in the slot is overtaken.
SendAround ==
  /\ app \in {"idle", "send"}
  /\ CanSend
  /\ sent < MaxSent
  /\ Room
  /\ outgoing' = Append(outgoing, sent + 1)
  /\ sent' = sent + 1
  /\ app' = "wakeoutgoing"
  /\ UNCHANGED <<incoming, slot, held, signaled, waker, woken, disconnected, asked, flushes,
                 taskVars, arrived, delivered>>

\* Then it puts the message on the channel ...
Send ==
  /\ app \in {"idle", "send"}
  /\ CanSend
  /\ sent < MaxSent
  /\ slot = <<>> /\ Room
  /\ outgoing' = Append(outgoing, sent + 1)
  /\ sent' = sent + 1
  /\ app' = "wakeoutgoing"
  /\ UNCHANGED <<incoming, slot, held, signaled, waker, woken, disconnected, asked, flushes,
                 taskVars, arrived, delivered>>

\* ... or returns it.
SendFull ==
  /\ app = "send"
  /\ CanSend => ~Room
  /\ app' = "idle"
  /\ disconnected' = (disconnected \/ Ended)
  /\ UNCHANGED <<outgoing, incoming, slot, held, signaled, waker, woken, sent, asked, flushes,
                 taskVars, arrived, delivered>>

\* MessageChannels::try_async_send: poll_ready with a message left in the slot, start_send ...
AsyncReady == app = "idle" /\ sent < MaxSent /\ PutSlot("wakeready")

AsyncStart ==
  /\ app \in {"idle", "ready"}
  /\ ~disconnected
  /\ sent < MaxSent
  /\ slot = <<>>
  /\ slot' = <<sent + 1>>
  /\ sent' = sent + 1
  /\ app' = "asyncflush"
  /\ UNCHANGED <<outgoing, incoming, held, signaled, waker, woken, disconnected, asked, flushes,
                 taskVars, arrived, delivered>>

\* ... and poll_flush, which waits for room.
AsyncFlush == app \in {"asyncflush", "asyncwait"} /\ PutSlot("wakeoutgoing")

AsyncMoves(from, to) ==
  /\ app = from
  /\ app' = to
  /\ UNCHANGED <<outgoing, incoming, slot, held, signaled, waker, woken, disconnected, sent,
                 asked, flushes, taskVars, arrived, delivered>>

AsyncWait == CanSend /\ ~Room /\ AsyncMoves("asyncflush", "asyncwait")

\* The future is dropped while it waits: its message stays in the slot.
AsyncCancel == AsyncMoves("asyncwait", "idle")

\* MessageChannels::try_flush: event_watch::Sender::signal stores the flag ...
Flush ==
  /\ app = "idle"
  /\ flushes < MaxFlushes
  /\ signaled' = TRUE
  /\ asked' = sent - Len(slot)
  /\ flushes' = flushes + 1
  /\ app' = "wakeflush"
  /\ UNCHANGED <<outgoing, incoming, slot, held, waker, woken, disconnected, sent, taskVars,
                 arrived, delivered>>

\* ... and wakes the task.
Wake(side, pc) ==
  /\ woken' = (woken \/ waker[side])
  /\ waker' = [waker EXCEPT ![side] = FALSE]
  /\ app' = pc
  /\ UNCHANGED <<outgoing, incoming, slot, held, signaled, disconnected, sent, asked, flushes,
                 taskVars, arrived, delivered>>

WakeOutgoing == \/ app = "wakeoutgoing" /\ Wake("outgoing", "idle")
                \/ app = "wakeslot" /\ Wake("outgoing", "send")
                \/ app = "wakeready" /\ Wake("outgoing", "ready")

\* Mutant: signal stores the flag and wakes nobody.
WakeFlushNobody ==
  /\ app = "wakeflush"
  /\ app' = "idle"
  /\ UNCHANGED <<outgoing, incoming, slot, held, signaled, waker, woken, disconnected, sent,
                 asked, flushes, taskVars, arrived, delivered>>

WakeFlush == app = "wakeflush" /\ Wake("flush", "idle")

\* MessageChannels::try_recv or try_async_recv takes a message ...
Recv ==
  /\ app = "idle"
  /\ ~disconnected
  /\ incoming # <<>>
  /\ delivered' = Append(delivered, Head(incoming))
  /\ incoming' = Tail(incoming)
  /\ app' = "wakeincoming"
  /\ UNCHANGED <<outgoing, slot, held, signaled, waker, woken, disconnected, sent, asked,
                 flushes, taskVars, arrived>>

\* ... and wakes the task, which may wait for the room; so does the drop of the receiver.
WakeIncoming == \/ app = "wakeincoming" /\ Wake("incoming", "idle")
                \/ app = "dropreceiver" /\ Wake("incoming", "dropped")

\* A call that finds the task gone: for good.  poll_ready drops the message in the slot, try_send not.
Disconnect ==
  /\ app \in {"idle", "asyncflush", "asyncwait"}
  /\ Ended
  /\ ~disconnected
  /\ disconnected' = TRUE
  /\ slot' \in IF app = "idle" THEN {slot, <<>>} ELSE {<<>>}
  /\ app' = "idle"
  /\ UNCHANGED <<outgoing, incoming, held, signaled, waker, woken, sent, asked, flushes,
                 taskVars, arrived, delivered>>

\* MessageChannels::recv_err drops the ChannelSet: the drop of the sender wakes the task ...
RecvErr == app = "idle" /\ Wake("outgoing", "drop")

\* ... before it disconnects; then the receiver goes, in the same order.
DropEnds ==
  /\ \/ app = "drop" /\ held' = {"incoming"} /\ slot' = <<>> /\ app' = "dropreceiver"
     \/ app = "dropped" /\ held' = {} /\ slot' = slot /\ app' = "await"
  /\ UNCHANGED <<outgoing, incoming, signaled, waker, woken, disconnected, sent, asked, flushes,
                 taskVars, arrived, delivered>>

----------------------------------------------------------------------------
(* The remote. *)

Arrive ==
  /\ arrived < MaxArrivals
  /\ arrived' = arrived + 1
  /\ woken' = TRUE
  /\ UNCHANGED <<outgoing, incoming, signaled, waker, appVars, taskVars>>

\* The task has a message for the application.
Delivering == task \in {"deliver", "register", "retry", "wait"}

\* Messages from the remote that the task has taken off the typed channel.
pulled == Len(delivered) + Len(incoming) + (IF Delivering THEN 1 ELSE 0)

----------------------------------------------------------------------------
(* channel_task: the select!. *)

\* Some branch was ready: the futures of the others are dropped.
Chosen(pc) == task' = pc /\ branch' = Unpolled

\* The branches are polled one after the other.
Polls(b) == task = "select" /\ \A c \in DOMAIN branch \ {b} : branch[c] \in {"try", "pending"}

Advance(b, to) == branch' = [branch EXCEPT ![b] = to] /\ UNCHANGED task

\* Next::Incoming: poll_recv of the typed channel.
SelectIncoming ==
  /\ Polls("incoming")
  /\ branch.incoming = "try"
  /\ IF pulled < arrived THEN Chosen("deliver") ELSE Advance("incoming", "pending")
  /\ UNCHANGED <<outgoing, incoming, signaled, waker, woken, appVars, given, flushed, arrived>>

\* Next::Outgoing: poll_next of the spsc receiver.
SelectOutgoing ==
  /\ Polls("outgoing")
  /\ branch.outgoing \in {"try", "retry"}
  /\ IF outgoing # <<>>
     THEN /\ outgoing' = Tail(outgoing)
          /\ given' = Append(given, Head(outgoing))
          /\ Chosen("give")
     ELSE /\ IF "outgoing" \notin held THEN Chosen("ended")
             ELSE Advance("outgoing", IF branch.outgoing = "try" THEN "register" ELSE "pending")
          /\ UNCHANGED <<outgoing, given>>
  /\ UNCHANGED <<incoming, signaled, waker, woken, appVars, flushed, arrived>>

\* Next::Flush: event_watch::Receiver::wait takes the flag.
SelectFlush ==
  /\ Polls("flush")
  /\ branch.flush \in {"try", "retry"}
  /\ IF signaled
     THEN signaled' = FALSE /\ Chosen("drain")
     ELSE /\ Advance("flush", IF branch.flush = "try" THEN "register" ELSE "pending")
          /\ UNCHANGED signaled
  /\ UNCHANGED <<outgoing, incoming, waker, woken, appVars, given, flushed, arrived>>

\* Mutant: wait does not look at the flag again after it has registered.
RegisterAndWait(b) ==
  /\ Polls(b)
  /\ branch[b] = "register"
  /\ waker' = [waker EXCEPT ![b] = TRUE]
  /\ Advance(b, "pending")
  /\ UNCHANGED <<outgoing, incoming, signaled, woken, appVars, given, flushed, arrived>>

\* Both look again after they have registered their waker.
Register(b) ==
  /\ Polls(b)
  /\ branch[b] = "register"
  /\ waker' = [waker EXCEPT ![b] = TRUE]
  /\ Advance(b, "retry")
  /\ UNCHANGED <<outgoing, incoming, signaled, woken, appVars, given, flushed, arrived>>

Asleep == task = "select" /\ \A b \in DOMAIN branch : branch[b] = "pending"

\* The executor polls the task again: every branch starts over, or the send of a message.
Resume ==
  /\ \/ Asleep /\ Chosen("select")
     \/ task = "wait" /\ Chosen("deliver")
  /\ woken
  /\ woken' = FALSE
  /\ UNCHANGED <<outgoing, incoming, signaled, waker, appVars, given, flushed, arrived>>

----------------------------------------------------------------------------
(* channel_task: what it does with what it selected. *)

Continue(pc) ==
  /\ task' = pc
  /\ UNCHANGED <<outgoing, incoming, signaled, waker, woken, appVars, branch, arrived>>

\* incoming_message_sender.send: try_send, which fails when the receiver is gone ...
Deliver ==
  /\ task \in {"deliver", "retry"}
  /\ \/ /\ "incoming" \in held
        /\ Len(incoming) < Capacity
        /\ incoming' = Append(incoming, pulled)
        /\ task' = "select"
     \/ /\ "incoming" \in held
        /\ Len(incoming) >= Capacity
        /\ task' = IF task = "deliver" THEN "register" ELSE "wait"
        /\ UNCHANGED incoming
     \/ /\ "incoming" \notin held
        /\ task' = "ended"
        /\ UNCHANGED incoming
  /\ UNCHANGED <<outgoing, signaled, waker, woken, appVars, branch, given, flushed, arrived>>

\* ... and when there is no room, the waker, and try_send again.
DeliverRegister ==
  /\ task = "register"
  /\ task' = "retry"
  /\ waker' = [waker EXCEPT !["incoming"] = TRUE]
  /\ UNCHANGED <<outgoing, incoming, signaled, woken, appVars, branch, given, flushed, arrived>>

\* poll_send of a message from the select! has finished.
Give == task = "give" /\ Continue("select") /\ UNCHANGED <<given, flushed>>

\* Mutant: flush does not take what is still on the spsc channel.
DrainNothing ==
  /\ task = "drain"
  /\ task' = "flush"
  /\ UNCHANGED <<outgoing, incoming, signaled, waker, woken, appVars, branch, given, flushed,
                 arrived>>

\* The loop of Next::Flush: try_recv and poll_send, until there is nothing left ...
Drain ==
  /\ task = "drain"
  /\ IF outgoing = <<>>
     THEN /\ task' = IF "outgoing" \in held THEN "flush" ELSE "ended"
          /\ UNCHANGED <<outgoing, given>>
     ELSE /\ outgoing' = Tail(outgoing)
          /\ given' = Append(given, Head(outgoing))
          /\ UNCHANGED task
  /\ UNCHANGED <<incoming, signaled, waker, woken, appVars, branch, flushed, arrived>>

\* ... and then poll_flush.
FlushChannel ==
  /\ task = "flush"
  /\ Continue("select")
  /\ flushed' = Len(given)
  /\ UNCHANGED given

\* A call on the typed channel fails, or the task of another type does while this one waits:
\* the task ends, and with it its ends of both spsc channels.
Fail ==
  /\ \/ Asleep
     \/ Polls("incoming") /\ branch.incoming = "try"
     \/ task \in {"wait", "give", "drain", "flush"}
  /\ Chosen("ended")
  /\ UNCHANGED <<outgoing, incoming, signaled, waker, woken, appVars, given, flushed, arrived>>

TaskStep == \/ SelectIncoming \/ SelectOutgoing \/ SelectFlush
            \/ Register("outgoing") \/ Register("flush") \/ Resume
            \/ Deliver \/ DeliverRegister \/ Give \/ Drain \/ FlushChannel

\* What a call of the application does once it has begun.
CallStep == \/ app # "idle" /\ (Send \/ SendFull \/ AsyncStart)
            \/ AsyncFlush \/ AsyncWait \/ AsyncCancel
            \/ WakeOutgoing \/ WakeFlush \/ WakeIncoming \/ DropEnds

Next == \/ SendSlot \/ Send \/ AsyncReady \/ AsyncStart \/ Flush \/ Recv \/ Disconnect
        \/ RecvErr \/ CallStep \/ Arrive \/ TaskStep \/ Fail

Spec == Init /\ [][Next]_vars

----------------------------------------------------------------------------
(* Safety. *)

(***************************************************************************)
(* Messages keep their order through the select! and the flush loop, both  *)
(* of which take from the same spsc channel, and through the slot that a   *)
(* cancelled async_send leaves its message in; none is dropped between the *)
(* application and the typed channel, in either direction, while both ends *)
(* are there.                                                              *)
(***************************************************************************)
MessagesInOrder ==
  /\ LET kept == given \o outgoing \o slot
     IN  /\ kept = [i \in 1..Len(kept) |-> i]
         /\ ~disconnected /\ "outgoing" \in held => Len(kept) = sent
  /\ delivered \o incoming = [i \in 1..Len(delivered \o incoming) |-> i]

(***************************************************************************)
(* flush covers every message put on the channel before it: once the       *)
(* signal has been taken and the task is back at its select!, they have    *)
(* all been flushed, also when flush is called again during a flush or     *)
(* messages keep coming.                                                   *)
(***************************************************************************)
FlushIsComplete ==
  ~signaled /\ task \notin {"drain", "flush", "ended"} => flushed >= asked

(***************************************************************************)
(* The documentation of event_watch::channel: a signal wakes a waiting     *)
(* receiver or makes the next wait resolve.  A task that sleeps on a       *)
(* signal or a message was woken, or is about to be; and so is one that    *)
(* waits for room in incoming when a message was received.                 *)
(***************************************************************************)
NoLostSignal ==
  ~woken =>
    /\ Asleep /\ signaled => waker["flush"] /\ app = "wakeflush"
    /\ Asleep /\ outgoing # <<>> =>
         waker["outgoing"] /\ app \in {"wakeoutgoing", "wakeslot", "wakeready"}
    /\ task = "wait" /\ Len(incoming) < Capacity =>
         waker["incoming"] /\ app = "wakeincoming"

----------------------------------------------------------------------------
(* Liveness. *)

(***************************************************************************)
(* The executor polls a woken task, the typed channel completes what it is *)
(* given or fails, a call of the application returns, and the application  *)
(* keeps receiving.  An async_send that waits is given up some time: the   *)
(* task may be waiting for the application to receive.                     *)
(***************************************************************************)
Fairness == /\ WF_vars(TaskStep)
            /\ WF_vars(CallStep)
            /\ SF_vars(Recv)

LiveSpec == Spec /\ Fairness

\* The task waits for room in incoming, and its receiver woke it before it disconnected.
Stranded == task = "wait" /\ ~woken /\ "incoming" \notin held

(***************************************************************************)
(* Every message sent before a flush is eventually flushed, unless the     *)
(* task has ended or recv_err left it stranded: although the task may wait *)
(* for room in incoming in between, and runs again only when one of its    *)
(* wakers was called.  (The calls of flush are bounded, so asked stops     *)
(* growing.)                                                               *)
(***************************************************************************)
FlushHappens == (asked > flushed) ~> (asked <= flushed \/ Ended \/ Stranded)

=============================================================================
