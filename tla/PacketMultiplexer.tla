-------------------------- MODULE PacketMultiplexer --------------------------
(***************************************************************************)
(* Two packet multiplexers and the transport between them, in one          *)
(* direction: the packets of several channels are marked with their        *)
(* channel and merged into one stream, cross a transport that may lose and *)
(* reorder them, and the program that drives the other multiplexer pushes  *)
(* them into its sink, which hands them to the channels' receivers.        *)
(*                                                                         *)
(* Each channel has an spsc channel, used here one poll at a time (Spsc    *)
(* shows what its polls do to each other).  Channels may be open at one    *)
(* end only, and a receiver may be dropped at any time, which wakes the    *)
(* driver before the channel is disconnected (spsc.rs:22-26).  A packet is *)
(* its channel and a number; via is a ghost, the call that pushed it.      *)
(***************************************************************************)
EXTENDS Integers, Sequences, FiniteSets

CONSTANTS Channels,     \* channel numbers, all open at the sending end
          BufferSize,   \* buffer_size of open_channel
          MaxPackets    \* packets sent on all channels

ASSUME MultiplexerAssumption == /\ BufferSize \in Nat \ {0}
                                /\ MaxPackets \in Nat

VARIABLES out,        \* out[c]: outgoing spsc channel, the numbers of the packets in it
          sent,       \* sent[c]: packets sent on c
          net,        \* packets in the transport
          opened,     \* channels open at the receiving end
          started,    \* PacketMultiplexer::start was called there
          \* IncomingMultiplexedPackets
          to_send, to_flush,
          sink,       \* the driver: "idle", "ready" for start_send, in a "flush", or "asleep"
                      \* since a poll returned Pending
          \* the spsc channels behind it
          slot, queue,
          waits,      \* channels whose send_ready holds the driver's waker
          closing,    \* channels whose receiver has been dropped, to the end of Receiver::drop
          dropped,    \* channels that are disconnected
          received,   \* received[c]: what the receiver of c got
          incoming,   \* incoming[c]: ChannelStatistics.incoming_packets
          outgoing,   \* outgoing[c]: ChannelStatistics.outgoing_packets
          \* ghosts
          pushed,     \* pushed[c]: packets accepted for c, in order
          clean       \* nothing was pushed since poll_flush last returned Ready

sendVars == <<out, sent, outgoing>>
sinkVars == <<to_send, to_flush, sink, slot, queue, waits, incoming, pushed, clean>>
vars == <<sendVars, net, opened, started, sinkVars, closing, dropped, received>>

Init == /\ out = [c \in Channels |-> <<>>]
        /\ sent = [c \in Channels |-> 0]
        /\ net = {}
        /\ opened = {} /\ started = FALSE
        /\ to_send = <<>> /\ to_flush = {} /\ sink = "idle"
        /\ slot = [c \in Channels |-> <<>>]
        /\ queue = [c \in Channels |-> <<>>]
        /\ waits = {} /\ closing = {} /\ dropped = {}
        /\ received = [c \in Channels |-> <<>>]
        /\ incoming = [c \in Channels |-> 0]
        /\ outgoing = [c \in Channels |-> 0]
        /\ pushed = [c \in Channels |-> <<>>]
        /\ clean = TRUE

----------------------------------------------------------------------------
(* Building the receiving end, and the outgoing side of the sending end.   *)

\* open_channel, which refuses a channel that is open.
OpenChannel(c) ==
  /\ ~started
  /\ c \notin opened
  /\ opened' = opened \cup {c}
  /\ UNCHANGED <<sendVars, net, started, sinkVars, closing, dropped, received>>

Start ==
  /\ ~started
  /\ started' = TRUE
  /\ UNCHANGED <<sendVars, net, opened, sinkVars, closing, dropped, received>>

\* The owner of a channel sends a packet, whose header is not written yet.
Send(c) ==
  /\ Cardinality({p \in Channels \X (1..MaxPackets) : p[2] <= sent[p[1]]}) < MaxPackets
  /\ Len(out[c]) < BufferSize
  /\ sent' = [sent EXCEPT ![c] = @ + 1]
  /\ out' = [out EXCEPT ![c] = Append(@, sent[c] + 1)]
  /\ UNCHANGED <<outgoing, net, opened, started, sinkVars, closing, dropped, received>>

\* OutgoingMultiplexedPackets::poll_next: any channel that has a packet, now marked.
PollNext(c) ==
  /\ out[c] # <<>>
  /\ out' = [out EXCEPT ![c] = Tail(@)]
  /\ net' = net \cup {[channel |-> c, id |-> Head(out[c])]}
  /\ outgoing' = [outgoing EXCEPT ![c] = @ + 1]
  /\ UNCHANGED <<sent, opened, started, sinkVars, closing, dropped, received>>

Lose(packet) ==
  /\ packet \in net
  /\ net' = net \ {packet}
  /\ UNCHANGED <<sendVars, opened, started, sinkVars, closing, dropped, received>>

----------------------------------------------------------------------------
(* The spsc sender of a channel. *)

Full(c) == Len(queue[c]) >= BufferSize

\* poll_ready and poll_flush return Pending.
Blocked(c) == slot[c] # <<>> /\ c \notin dropped /\ Full(c)

\* They return an error, and the packet in the slot is gone.
Broken(c) == slot[c] # <<>> /\ c \in dropped

----------------------------------------------------------------------------
(* IncomingMultiplexedPackets. *)

Pushed(packet, via) == [channel |-> packet.channel, id |-> packet.id, via |-> via]

\* start_send, after poll_ready.
StartSend(packet) ==
  /\ sink = "ready"
  /\ net' = net \ {packet}
  /\ to_send' = <<Pushed(packet, "sink")>>
  /\ pushed' = [pushed EXCEPT ![packet.channel] = Append(@, Pushed(packet, "sink"))]
  /\ sink' = "idle"
  /\ clean' = FALSE
  /\ UNCHANGED <<sendVars, opened, started, to_flush, slot, queue, incoming, waits, closing,
                 dropped, received>>

\* The driver begins a poll_flush.
StartFlush ==
  /\ started
  /\ sink # "flush"
  /\ sink' = "flush"
  /\ UNCHANGED <<sendVars, net, opened, started, to_send, to_flush, slot, queue, incoming,
                 pushed, clean, waits, closing, dropped, received>>

\* poll_ready, by itself or from poll_flush: the packet goes to the slot of its channel.
PollReady ==
  LET c == to_send[1].channel
  IN  /\ to_send # <<>> /\ started
      /\ c \in opened /\ ~Broken(c) /\ ~Blocked(c)
      /\ to_send' = <<>>
      /\ queue' = [queue EXCEPT ![c] = @ \o slot[c]]
      /\ slot' = [slot EXCEPT ![c] = to_send]
      /\ to_flush' = to_flush \cup {c}
      /\ incoming' = [incoming EXCEPT ![c] = @ + 1]
      /\ sink' = IF sink = "flush" THEN "flush" ELSE "ready"
      /\ UNCHANGED <<sendVars, net, opened, started, pushed, clean, waits, closing, dropped,
                     received>>

\* poll_ready with nothing to send.
PollReadyEmpty ==
  /\ to_send = <<>> /\ started /\ sink \in {"idle", "asleep"}
  /\ sink' = "ready"
  /\ UNCHANGED <<sendVars, net, opened, started, to_send, to_flush, slot, queue, incoming,
                 pushed, clean, waits, closing, dropped, received>>

\* UnknownPacketChannel or ChannelReceiverDropped: the packet is dropped.
PollReadyFails ==
  LET c == to_send[1].channel
  IN  /\ to_send # <<>> /\ started
      /\ c \notin opened \/ Broken(c)
      /\ to_send' = <<>>
      /\ slot' = [slot EXCEPT ![c] = <<>>]
      /\ sink' = "idle"
      /\ UNCHANGED <<sendVars, net, opened, started, to_flush, queue, incoming, pushed, clean,
                     waits, closing, dropped, received>>

\* poll_flush goes through to_flush.
FlushChannel(c) ==
  /\ sink = "flush" /\ to_send = <<>> /\ c \in to_flush
  /\ ~Broken(c) /\ ~Blocked(c)
  /\ queue' = [queue EXCEPT ![c] = @ \o slot[c]]
  /\ slot' = [slot EXCEPT ![c] = <<>>]
  /\ to_flush' = to_flush \ {c}
  /\ UNCHANGED <<sendVars, net, opened, started, to_send, sink, incoming, pushed, clean, waits,
                 closing, dropped, received>>

\* Mutant: the error of one channel ends the flushing of all.
FlushChannelFailsAll(c) ==
  /\ sink = "flush" /\ to_send = <<>> /\ c \in to_flush
  /\ Broken(c)
  /\ slot' = [slot EXCEPT ![c] = <<>>]
  /\ to_flush' = {}
  /\ sink' = "idle"
  /\ UNCHANGED <<sendVars, net, opened, started, to_send, queue, incoming, pushed, clean,
                 waits, closing, dropped, received>>

\* ChannelReceiverDropped: the channel stays in to_flush, with an empty slot.
FlushChannelFails(c) ==
  /\ sink = "flush" /\ to_send = <<>> /\ c \in to_flush
  /\ Broken(c)
  /\ slot' = [slot EXCEPT ![c] = <<>>]
  /\ sink' = "idle"
  /\ UNCHANGED <<sendVars, net, opened, started, to_send, to_flush, queue, incoming, pushed,
                 clean, waits, closing, dropped, received>>

\* Mutant: the waker is not registered.
AsleepUnregistered(c) ==
  /\ sink' = "asleep"
  /\ UNCHANGED <<sendVars, net, opened, started, to_send, to_flush, slot, queue, waits, incoming,
                 pushed, clean, closing, dropped, received>>

\* spsc poll_ready registers the driver's waker, and the driver's poll returns Pending.
Asleep(c) ==
  /\ sink' = "asleep"
  /\ waits' = waits \cup {c}
  /\ UNCHANGED <<sendVars, net, opened, started, to_send, to_flush, slot, queue, incoming,
                 pushed, clean, closing, dropped, received>>

\* poll_ready, by itself or from poll_flush, returns Pending: the packet stays in to_send.
ReadyPending ==
  LET c == to_send[1].channel
  IN  /\ to_send # <<>> /\ started
      /\ c \in opened /\ Blocked(c)
      /\ Asleep(c)

\* poll_flush returns Pending at the first channel that is full.
FlushPending(c) ==
  /\ sink = "flush" /\ to_send = <<>> /\ c \in to_flush
  /\ Blocked(c)
  /\ Asleep(c)

FlushDone ==
  /\ sink = "flush" /\ to_send = <<>> /\ to_flush = {}
  /\ sink' = "idle"
  /\ clean' = TRUE
  /\ UNCHANGED <<sendVars, net, opened, started, to_send, to_flush, slot, queue, incoming,
                 pushed, waits, closing, dropped, received>>

\* Mutant: the packet in the slot is not sent first.
TrySendAround(packet) ==
  LET c == packet.channel
  IN  /\ started /\ sink # "flush"
      /\ net' = net \ {packet}
      /\ c \in opened \ dropped
      /\ ~Full(c)
      /\ slot' = [slot EXCEPT ![c] = <<>>]
      /\ queue' = [queue EXCEPT ![c] = Append(@, Pushed(packet, "try"))]
      /\ incoming' = [incoming EXCEPT ![c] = @ + 1]
      /\ pushed' = [pushed EXCEPT ![c] = Append(@, Pushed(packet, "try"))]
      /\ UNCHANGED <<sendVars, opened, started, to_send, to_flush, sink, clean, waits, closing,
                     dropped, received>>

\* try_send, which does not look at to_send: the spsc try_send sends the slot first.
TrySend(packet) ==
  LET c == packet.channel
  IN  /\ started /\ sink # "flush"
      /\ net' = net \ {packet}
      /\ c \in opened \ dropped
      /\ Len(queue[c]) + Len(slot[c]) < BufferSize
      /\ slot' = [slot EXCEPT ![c] = <<>>]
      /\ queue' = [queue EXCEPT ![c] = Append(@ \o slot[c], Pushed(packet, "try"))]
      /\ incoming' = [incoming EXCEPT ![c] = @ + 1]
      /\ pushed' = [pushed EXCEPT ![c] = Append(@, Pushed(packet, "try"))]
      /\ UNCHANGED <<sendVars, opened, started, to_send, to_flush, sink, clean, waits, closing,
                     dropped, received>>

\* try_send that fails.  It may have sent the slot; the driver drops the packet or keeps it.
TrySendFails(packet) ==
  LET c     == packet.channel
      moves == c \in opened \ dropped /\ slot[c] # <<>> /\ ~Full(c)
  IN  /\ started /\ sink # "flush"
      /\ c \in opened \ dropped => Len(queue[c]) + Len(slot[c]) >= BufferSize
      /\ \/ net' = net \ {packet}
         \/ c \in opened \ dropped /\ UNCHANGED net
      /\ slot' = [slot EXCEPT ![c] = IF moves THEN <<>> ELSE @]
      /\ queue' = [queue EXCEPT ![c] = IF moves THEN @ \o slot[c] ELSE @]
      /\ UNCHANGED <<sendVars, opened, started, to_send, to_flush, sink, incoming, pushed,
                     clean, waits, closing, dropped, received>>

----------------------------------------------------------------------------
(* The receivers. *)

\* send_ready.wake() of channel c.
Wake(c) == /\ waits' = waits \ {c}
           /\ sink' = IF c \in waits /\ sink = "asleep" THEN "idle" ELSE sink

\* try_recv, which wakes.
Receive(c) ==
  /\ c \notin closing
  /\ queue[c] # <<>>
  /\ received' = [received EXCEPT ![c] = Append(@, Head(queue[c]))]
  /\ queue' = [queue EXCEPT ![c] = Tail(@)]
  /\ Wake(c)
  /\ UNCHANGED <<sendVars, net, opened, started, to_send, to_flush, slot, incoming, pushed,
                 clean, closing, dropped>>

\* Receiver::drop wakes.
DropWake(c) ==
  /\ c \in opened \ closing
  /\ closing' = closing \cup {c}
  /\ Wake(c)
  /\ UNCHANGED <<sendVars, net, opened, started, to_send, to_flush, slot, queue, incoming,
                 pushed, clean, dropped, received>>

\* Then its crossbeam receiver is dropped, and what is in the channel with it.
Disconnect(c) ==
  /\ c \in closing \ dropped
  /\ dropped' = dropped \cup {c}
  /\ queue' = [queue EXCEPT ![c] = <<>>]
  /\ UNCHANGED <<sendVars, net, opened, started, to_send, to_flush, sink, slot, waits, incoming,
                 pushed, clean, closing, received>>

----------------------------------------------------------------------------
SinkStep == \/ PollReady \/ PollReadyFails \/ ReadyPending
            \/ \E c \in Channels : FlushChannel(c) \/ FlushChannelFails(c) \/ FlushPending(c)
            \/ FlushDone

Next == \/ Start \/ StartFlush \/ PollReadyEmpty \/ SinkStep
        \/ \E c \in Channels : \/ OpenChannel(c) \/ Send(c) \/ PollNext(c)
                              \/ Receive(c) \/ DropWake(c) \/ Disconnect(c)
        \/ \E packet \in net : \/ Lose(packet) \/ StartSend(packet)
                               \/ TrySend(packet) \/ TrySendFails(packet)

Spec == Init /\ [][Next]_vars

(***************************************************************************)
(* A driver that is awake flushes the sink sooner or later, and a          *)
(* poll_flush runs to its end.  One that sleeps is polled when it is       *)
(* woken, and need not be polled before.  Every receiver that is not       *)
(* dropped keeps receiving, and its drop ends.                             *)
(***************************************************************************)
Fairness == /\ WF_vars(sink # "asleep" /\ StartFlush)
            /\ WF_vars(sink = "flush" /\ SinkStep)
            /\ \A c \in Channels : WF_vars(Receive(c)) /\ WF_vars(Disconnect(c))

LiveSpec == Spec /\ Fairness

----------------------------------------------------------------------------
(* Properties. *)

\* The packet in to_send, when it is for c.
ToSend(c) == IF to_send # <<>> /\ to_send[1].channel = c THEN to_send ELSE <<>>

\* The packets of all, each once, those pushed by the same call in the order of all.
KeepsOrder(line, all) ==
  \E place \in [1..Len(line) -> 1..Len(all)] :
    /\ \A k \in 1..Len(all) : \E i \in 1..Len(line) : place[i] = k
    /\ \A i \in 1..Len(line) : line[i] = all[place[i]]
    /\ \A i, j \in 1..Len(line) :
         i < j => /\ place[i] # place[j]
                  /\ line[i].via = line[j].via => place[i] < place[j]

(***************************************************************************)
(* A packet accepted for a channel whose receiver lives reaches that       *)
(* receiver and no other, once, whatever errors other channels cause on    *)
(* the way; packets pushed by the same call stay in order, and the         *)
(* statistics count each when it is handed over.  (try_send may overtake   *)
(* the packet in to_send.)                                                 *)
(***************************************************************************)
RoutedInOrder ==
  \A c \in opened \ dropped :
    LET behind == received[c] \o queue[c] \o slot[c]
    IN  /\ KeepsOrder(behind \o ToSend(c), pushed[c])
        /\ incoming[c] = Len(behind)

(***************************************************************************)
(* After poll_flush has returned Ready, every packet is in the spsc        *)
(* channel of its channel or beyond: also when an earlier flush failed     *)
(* half way because a receiver was gone.                                   *)
(***************************************************************************)
FlushIsComplete ==
  clean => to_send = <<>> /\ \A c \in Channels : slot[c] = <<>>

\* The driver sleeps, and the channels that would wake it are gone.
Stranded == sink = "asleep" /\ waits # {} /\ waits \subseteq dropped

(***************************************************************************)
(* A dropped receiver, a full channel, or packets for a channel that is    *)
(* not open, do not keep the packets of the other channels from arriving:  *)
(* with one exception, a driver that polled a full channel between the     *)
(* wake and the disconnection of its receiver's drop.  It sleeps until it  *)
(* is polled for a reason of its own.                                      *)
(***************************************************************************)
OthersArrive ==
  \A c \in Channels : []<>(\/ Len(received[c]) = Len(pushed[c])
                           \/ c \notin opened \ closing
                           \/ Stranded)

=============================================================================
