--------------------------- MODULE ReliableWakers ---------------------------
(***************************************************************************)
(* The application side of a ReliableChannel and the wakers it shares with *)
(* its task: send_ready, write_ready, read_ready, and the RemoteHandle by  *)
(* which the application learns that the task has ended.                   *)
(*                                                                         *)
(* The application and the task run on different threads.  A step is one   *)
(* use of what they share: a ring of bytes or a waker.  Only how many      *)
(* bytes there are matters here; which bytes they are is the subject of    *)
(* ReliableChannel.  The remote acknowledges what was sent and sends data, *)
(* and the task may end with an error at any time.                         *)
(*                                                                         *)
(* The application waits for one thing at a time, as write and read        *)
(* require; a call that the layers above poll with the noop waker is one   *)
(* that is cancelled when it is Pending and takes its wakers with it.      *)
(***************************************************************************)
EXTENDS Integers, FiniteSets

CONSTANTS SendWindowSize, RecvWindowSize

ASSUME WakersAssumption == /\ SendWindowSize \in Nat \ {0}
                           /\ RecvWindowSize \in Nat \ {0}

VARIABLES unsent,      \* bytes in the send window that were not sent
          in_flight,   \* bytes in the send window that were sent
          readable,    \* bytes to read in the receive window
          app,         \* the application's call: [op, pc]
          task,        \* where main_loop is, "terminated" when its error was taken
          wakers,      \* the AtomicWakers that hold their owner's waker
          runnable,    \* the threads woken since they were last polled
          unflushed    \* ghost: the unsent bytes that no flush covers

wakersVars == <<unsent, in_flight, readable, app, task, wakers, runnable, unflushed>>

bytes    == <<unsent, in_flight, readable, unflushed>>
wakeVars == <<wakers, runnable>>

Idle == [op |-> "none", pc |-> "poll"]

WakersInit == /\ unsent = 0 /\ in_flight = 0 /\ readable = 0 /\ unflushed = 0
              /\ app = Idle
              /\ task = "top"
              /\ wakers = {} /\ runnable = {}

----------------------------------------------------------------------------
(* Wakers. *)

Owner(w) == IF w = "send_ready" THEN "task" ELSE "app"

WakeOwner(w) == /\ wakers' = wakers \ {w}
                /\ runnable' = IF w \in wakers THEN runnable \cup {Owner(w)} ELSE runnable

RegisterWaker(w) == wakers' = wakers \cup {w} /\ UNCHANGED runnable

----------------------------------------------------------------------------
(* The application. *)

\* main_loop has returned.
Ended == task \in {"ended", "terminated"}

\* Mutant: bytes in flight no longer take room.
WriteAvailableUnsent == SendWindowSize - unsent

write_available == SendWindowSize - unsent - in_flight

Available == IF app.op = "write" THEN write_available ELSE readable

ReadyWaker == IF app.op = "write" THEN "write_ready" ELSE "read_ready"

\* SendWindowWriter::write or RecvWindowReader::read of n bytes.
Transfer(op, n) ==
  IF op = "write"
  THEN /\ n \in 1..write_available
       /\ unsent' = unsent + n /\ unflushed' = unflushed + n
       /\ UNCHANGED <<in_flight, readable>>
  ELSE /\ n \in 1..readable
       /\ readable' = readable - n
       /\ UNCHANGED <<unsent, in_flight, unflushed>>

\* A call of write or read.
Call(op) ==
  /\ app.op = "none"
  /\ app' = [op |-> op, pc |-> "poll"]
  /\ UNCHANGED <<bytes, task, wakeVars>>

\* poll_write or poll_read up to the first transfer, while the task runs, ...
Poll(n) ==
  /\ app.op # "none" /\ app.pc = "poll"
  /\ ~Ended
  /\ RegisterWaker("task_handle")
  /\ IF Available > 0 THEN Transfer(app.op, n) /\ app' = Idle
     ELSE app' = [app EXCEPT !.pc = "register"] /\ UNCHANGED bytes
  /\ UNCHANGED task

\* ... or until it returns the error of the task, or Shutdown when that was taken before.
PollError ==
  /\ app.op # "none" /\ app.pc = "poll"
  /\ Ended
  /\ app' = Idle
  /\ task' = "terminated"
  /\ UNCHANGED <<bytes, wakeVars>>

\* Mutant: Pending is returned without looking again.
RegisterAndSleep ==
  /\ app.pc = "register"
  /\ RegisterWaker(ReadyWaker)
  /\ app' = [app EXCEPT !.pc = "asleep"]
  /\ UNCHANGED <<bytes, task>>

Register ==
  /\ app.pc = "register"
  /\ RegisterWaker(ReadyWaker)
  /\ app' = [app EXCEPT !.pc = "retry"]
  /\ UNCHANGED <<bytes, task>>

\* The second transfer.  A write that returns Pending wakes the task.
Retry(n) ==
  /\ app.pc = "retry"
  /\ IF Available > 0
     THEN Transfer(app.op, n) /\ app' = Idle /\ UNCHANGED wakeVars
     ELSE /\ IF app.op = "write" THEN WakeOwner("send_ready") ELSE UNCHANGED wakeVars
          /\ app' = [app EXCEPT !.pc = "asleep"]
          /\ UNCHANGED bytes
  /\ UNCHANGED task

AppWoken ==
  /\ app.pc = "asleep" /\ "app" \in runnable
  /\ runnable' = runnable \ {"app"}
  /\ app' = [app EXCEPT !.pc = "poll"]
  /\ UNCHANGED <<bytes, task, wakers>>

\* The future is dropped, or was only polled once with the noop waker.
Cancel ==
  /\ app.pc = "asleep"
  /\ app' = Idle
  /\ wakers' \in {wakers, wakers \ {ReadyWaker, "task_handle"}}
  /\ UNCHANGED <<bytes, task, runnable>>

\* try_write and try_read, which do not ask for an error that was not taken yet.
Try(op, n) ==
  /\ app.op = "none"
  /\ task # "terminated"
  /\ Transfer(op, n)
  /\ UNCHANGED <<app, task, wakeVars>>

\* flush: now_or_never asks for the task's error with the noop waker; without one, a wake.
Flush ==
  /\ app.op = "none"
  /\ ~Ended
  /\ wakers' = wakers \ {"task_handle", "send_ready"}
  /\ runnable' = IF "send_ready" \in wakers THEN runnable \cup {"task"} ELSE runnable
  /\ unflushed' = 0
  /\ UNCHANGED <<unsent, in_flight, readable, app, task>>

FlushError ==
  /\ app.op = "none"
  /\ task = "ended"
  /\ task' = "terminated"
  /\ UNCHANGED <<bytes, app, wakeVars>>

----------------------------------------------------------------------------
(* The task: main_loop and its select!. *)

\* select! without the send_available branch: no bandwidth, or no room at the remote.
TaskHold ==
  /\ task = "top"
  /\ task' = "held"
  /\ UNCHANGED <<bytes, app, wakeVars>>

\* select! with it.
TaskPoll ==
  /\ task = "top"
  /\ task' = "check"
  /\ UNCHANGED <<bytes, app, wakeVars>>

\* The checks of send_available before and after the registration; send takes n bytes.
TaskCheck(n) ==
  /\ task \in {"check", "recheck"}
  /\ IF unsent > 0
     THEN /\ n \in 1..unsent
          /\ unsent' = unsent - n /\ in_flight' = in_flight + n
          /\ unflushed' = IF unflushed <= unsent - n THEN unflushed ELSE unsent - n
          /\ task' = "top"
          /\ UNCHANGED readable
     ELSE /\ task' = IF task = "check" THEN "register" ELSE "asleep"
          /\ UNCHANGED bytes
  /\ UNCHANGED <<app, wakeVars>>

\* Mutant: the task goes to sleep as soon as it has registered.
TaskRegisterAndSleep ==
  /\ task = "register"
  /\ RegisterWaker("send_ready")
  /\ task' = "asleep"
  /\ UNCHANGED <<bytes, app>>

TaskRegister ==
  /\ task = "register"
  /\ RegisterWaker("send_ready")
  /\ task' = "recheck"
  /\ UNCHANGED <<bytes, app>>

\* The runtime polls the task again.
TaskWoken ==
  /\ task \in {"asleep", "held"} /\ "task" \in runnable
  /\ runnable' = runnable \ {"task"}
  /\ task' = IF task = "asleep" THEN "check" ELSE "held"
  /\ UNCHANGED <<bytes, app, wakers>>

\* The resend timer; what resend sends is in flight already.
ResendTimer ==
  /\ task \in {"asleep", "held"}
  /\ task' = "top"
  /\ UNCHANGED <<bytes, app, wakeVars>>

\* recv_packet of an acknowledgement that frees n bytes.
RecvAck(n) ==
  /\ task \in {"top", "asleep", "held"}
  /\ n \in 1..in_flight
  /\ in_flight' = in_flight - n
  /\ task' = "acked"
  /\ UNCHANGED <<unsent, readable, unflushed, app, wakeVars>>

\* Mutant: nobody is told that there is room.
TaskAckedQuietly ==
  /\ task = "acked"
  /\ task' = "top"
  /\ UNCHANGED <<bytes, app, wakeVars>>

TaskAcked ==
  /\ task = "acked"
  /\ IF write_available > 0 THEN WakeOwner("write_ready") ELSE UNCHANGED wakeVars
  /\ task' = "top"
  /\ UNCHANGED <<bytes, app>>

\* recv_packet of data that makes n bytes readable.
RecvData(n) ==
  /\ task \in {"top", "asleep", "held"}
  /\ n \in 1..(RecvWindowSize - readable)
  /\ readable' = readable + n
  /\ task' = "ack"
  /\ UNCHANGED <<unsent, in_flight, unflushed, app, wakeVars>>

\* The acknowledgement goes out, which may have to wait, and only then the reader is woken.
SendAck ==
  /\ task = "ack"
  /\ task' = "wake"
  /\ UNCHANGED <<bytes, app, wakeVars>>

WakeReader ==
  /\ task = "wake"
  /\ IF readable > 0 THEN WakeOwner("read_ready") ELSE UNCHANGED wakeVars
  /\ task' = "top"
  /\ UNCHANGED <<bytes, app>>

\* main_loop returns an error, and the RemoteHandle completes.
TaskEnds ==
  /\ ~Ended
  /\ task' = "ended"
  /\ WakeOwner("task_handle")
  /\ UNCHANGED <<bytes, app>>

----------------------------------------------------------------------------
Sizes == 1..(IF SendWindowSize > RecvWindowSize THEN SendWindowSize ELSE RecvWindowSize)

AppStep == \/ \E n \in Sizes : Poll(n) \/ Retry(n)
           \/ PollError \/ Register \/ AppWoken

TaskStep == \/ \E n \in Sizes : TaskCheck(n)
            \/ TaskRegister \/ TaskWoken \/ TaskAcked \/ SendAck \/ WakeReader

WakersNext == \/ \E op \in {"write", "read"} : Call(op) \/ \E n \in Sizes : Try(op, n)
              \/ AppStep \/ Cancel \/ Flush \/ FlushError
              \/ TaskHold \/ TaskPoll \/ TaskStep \/ ResendTimer \/ TaskEnds
              \/ \E n \in Sizes : RecvAck(n) \/ RecvData(n)

WakersSpec == WakersInit /\ [][WakersNext]_wakersVars

(***************************************************************************)
(* Both threads run.  The bandwidth is refilled and the remote window      *)
(* reopens, so that the send_available branch is polled again and again,   *)
(* and the remote acknowledges what it was sent: ReliableChannel shows     *)
(* both.  The application need not call anything.                          *)
(***************************************************************************)
WakersFairness == /\ WF_wakersVars(AppStep)
                  /\ WF_wakersVars(TaskStep)
                  /\ WF_wakersVars(ResendTimer)
                  /\ SF_wakersVars(TaskPoll)
                  /\ SF_wakersVars(\E n \in Sizes : RecvAck(n))

WakersLiveSpec == WakersSpec /\ WakersFairness

----------------------------------------------------------------------------
(* Properties. *)

\* The windows hold no more than their size, and a ghost no more than there is.
TypeOK ==
  /\ unsent \in Nat /\ in_flight \in Nat /\ unsent + in_flight <= SendWindowSize
  /\ readable \in 0..RecvWindowSize
  /\ unflushed \in 0..unsent
  /\ app \in [op : {"none", "write", "read"}, pc : {"poll", "register", "retry", "asleep"}]
  /\ app.op = "none" => app.pc = "poll"
  /\ task \in {"top", "held", "check", "register", "recheck", "asleep", "acked", "ack", "wake",
               "ended", "terminated"}
  /\ wakers \subseteq {"send_ready", "write_ready", "read_ready", "task_handle"}
  /\ runnable \subseteq {"app", "task"}

(***************************************************************************)
(* The application never sleeps through what it waits for: if there is     *)
(* room to write, or data to read, or the task has ended, it was woken, or *)
(* the task is about to wake it.                                           *)
(***************************************************************************)
CallsAreWoken ==
  app.pc = "asleep" =>
    \/ "app" \in runnable
    \/ /\ Available > 0 => task \in (IF app.op = "write" THEN {"acked"} ELSE {"ack", "wake"})
       /\ ~Ended

(***************************************************************************)
(* The documentation of ReliableChannel::flush: it "returns once the       *)
(* sending task has been notified to wake up and will send the written     *)
(* data promptly".  The task never sleeps on data that was flushed until   *)
(* its timer goes off, unless it has no bandwidth or no room at the        *)
(* remote.                                                                 *)
(***************************************************************************)
FlushIsPrompt ==
  task = "asleep" /\ unsent > unflushed => "task" \in runnable

(***************************************************************************)
(* A write goes on as acknowledgements arrive, a read as soon as there is  *)
(* data, and the end of the task ends both.                                *)
(***************************************************************************)
CallsReturn ==
  /\ app.op = "write" ~> app.op # "write"
  /\ (app.op = "read" /\ (readable > 0 \/ Ended)) ~> app.op # "read"

=============================================================================
