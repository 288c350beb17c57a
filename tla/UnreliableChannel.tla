-------------------------- MODULE UnreliableChannel --------------------------
(***************************************************************************)
(* One direction of an unreliable channel: messages are coalesced into     *)
(* packets by the UnreliableChannel at one end, packets cross a transport  *)
(* that loses, duplicates and reorders them, and the UnreliableChannel at  *)
(* the other end takes the messages out again.                             *)
(*                                                                         *)
(* A packet's bytes are the code's: a two-byte length before each message. *)
(* The bytes of the k-th message are all k.  ids is a ghost: the numbers   *)
(* of the messages in the packet.                                          *)
(*                                                                         *)
(* A call of a poll function is one action; the spsc sender it uses does   *)
(* what Spsc.tla shows, seen from one poll.  A disconnected packet channel *)
(* is not considered: it is fatal.  The messages come from the application *)
(* itself or, when wrapped, from an UnreliableBincodeChannel.              *)
(*                                                                         *)
(* The bandwidth limiter counts in bytes, and so does time: a unit of time *)
(* is the time in which the bandwidth earns one byte.  (The code's credit  *)
(* is an f64 and its time a Duration.)                                     *)
(***************************************************************************)
EXTENDS Frames

CONSTANTS PacketCapacity,  \* packet_pool.capacity()
          BufferSize,      \* capacity of the spsc channel to the transport
          Burst,           \* settings.burst_bandwidth
          TimeSteps,       \* how much time may pass at once
          MaxIdle,         \* time since the limiter was last updated
          MessageLens,     \* lengths of the messages sent
          MaxMessages,     \* messages for which send returns Ok
          MaxFaults        \* packets lost or duplicated

ASSUME UnreliableAssumption ==
  /\ ByteBase \in Nat /\ ByteBase >= 2
  /\ PacketCapacity \in 2..MaxU16   \* MAX_PACKET_LEN is a u16
  /\ BufferSize \in Nat \ {0}
  /\ Burst \in Nat
  /\ TimeSteps \subseteq Nat
  /\ MaxIdle \in Nat
  /\ MessageLens \subseteq Nat
  /\ MaxMessages \in Nat
  /\ MaxFaults \in Nat

VARIABLES wrapped,     \* the channel is that of an UnreliableBincodeChannel
          pending,     \* length of its pending_write
          out_packet,  \* the packet being filled
          slot,        \* the spsc sender's slot, <<>> or <<packet>>
          queue,       \* packets the transport has not taken
          credit,      \* bandwidth_limiter.bytes_available
          earned,      \* bytes earned since last_calculation
          delay,       \* delay_until_available: <<>>, or <<the time that is left>>
          backlog,     \* ghost: bytes sent and not yet paid for by the time since
          accepted,    \* lengths of the messages for which send returned Ok, but for:
          vanished,    \* messages of no bytes that start_send took, which are never sent
          lens,        \* lengths of the messages put into packets
          taken,       \* messages in the packets the transport took
          net,         \* packets in the transport
          in_packet,   \* the packet being read, <<>> or <<[packet, pos, got]>>
          faults,
          panicked     \* <<>>, or <<the length of the message>>

limiter   == <<credit, earned, delay, backlog>>
sending   == <<out_packet, slot, queue, limiter>>
receiving == <<net, in_packet, faults>>
vars == <<wrapped, pending, accepted, vanished, sending, lens, taken, receiving, panicked>>

----------------------------------------------------------------------------
(* Packets. *)

NoPacket == [bytes |-> <<>>, ids |-> <<>>]

Body(id, len) == [i \in 1..len |-> id]

\* StartSend::new, the copy of the message, and finish.
Put(packet, id, len) == [bytes |-> packet.bytes \o WriteU16(len) \o Body(id, len),
                         ids   |-> Append(packet.ids, id)]

\* The assertion of finish, which is strict.
FinishPanics(packet, len) == ~(len < PacketCapacity - Len(packet.bytes) - 2)

NeedsFlush(packet, len) == PacketCapacity - Len(packet.bytes) < len + 2

----------------------------------------------------------------------------
(* The limiter, the spsc sender and poll_flush, as functions on the        *)
(* sending side of the channel.                                            *)

Sending == [out |-> out_packet, slot |-> slot, queue |-> queue, credit |-> credit,
            earned |-> earned, delay |-> delay, backlog |-> backlog, ready |-> TRUE]

Lesser(a, b) == IF a <= b THEN a ELSE b

\* Mutant: the credit is not limited to the burst.
update_available_unlimited(c) == [c EXCEPT !.credit = @ + c.earned, !.earned = 0]

update_available(c) == [c EXCEPT !.credit = Lesser(@ + c.earned, Burst), !.earned = 0]

\* delay_until_available, when no delay is running.
StartDelay(c) == [c EXCEPT !.delay = IF c.credit < 0 THEN <<-c.credit>> ELSE <<>>]

\* What poll_flush does before it looks at the delay.
Limited(c) == IF c.delay = <<>> THEN StartDelay(update_available(c)) ELSE c

\* Mutant: the channel to the transport is taken to be unbounded.
poll_ready_unbounded(c) ==
  [c EXCEPT !.slot = <<>>, !.queue = @ \o c.slot, !.ready = TRUE]

\* spsc poll_ready: empty the slot, or return Pending.
poll_ready(c) ==
  IF c.slot # <<>> /\ Len(c.queue) >= BufferSize THEN [c EXCEPT !.ready = FALSE]
  ELSE [c EXCEPT !.slot = <<>>, !.queue = @ \o c.slot, !.ready = TRUE]

\* take_bytes and start_send of the packet.
SendPacket(c) ==
  [c EXCEPT !.slot = <<c.out>>, !.out = NoPacket,
            !.credit = @ - Len(c.out.bytes), !.backlog = @ + Len(c.out.bytes)]

\* Mutant: start_send without poll_ready.
poll_flush_unready(c) ==
  LET limited == Limited(c)
  IN  IF c.out = NoPacket THEN c
      ELSE IF limited.delay # <<>> /\ limited.delay[1] > 0 THEN [limited EXCEPT !.ready = FALSE]
      ELSE poll_ready(SendPacket([limited EXCEPT !.delay = <<>>]))

\* UnreliableChannel::poll_flush.
poll_flush(c) ==
  LET limited == Limited(c)
      ready   == poll_ready([limited EXCEPT !.delay = <<>>])
  IN  IF c.out = NoPacket THEN c
      ELSE IF limited.delay # <<>> /\ limited.delay[1] > 0 THEN [limited EXCEPT !.ready = FALSE]
      ELSE IF ~ready.ready THEN ready
      ELSE poll_ready(SendPacket(ready))

----------------------------------------------------------------------------
(* Actions. *)

Init == /\ wrapped \in BOOLEAN
        /\ pending = 0
        /\ out_packet = NoPacket
        /\ slot = <<>>
        /\ queue = <<>>
        /\ credit = Burst
        /\ earned = 0
        /\ delay = <<>>
        /\ backlog = 0
        /\ accepted = <<>> /\ vanished = 0
        /\ lens = <<>>
        /\ taken = 0
        /\ net = {}
        /\ in_packet = <<>>
        /\ faults = 0
        /\ panicked = <<>>

Becomes(c) == /\ out_packet' = c.out /\ slot' = c.slot /\ queue' = c.queue
              /\ credit' = c.credit /\ earned' = c.earned
              /\ delay' = c.delay /\ backlog' = c.backlog

\* poll_send, when poll_send_ready returns Ready: the message is coalesced.
PollSend(len) ==
  LET c == IF NeedsFlush(out_packet, len) THEN poll_flush(Sending) ELSE Sending
  IN  /\ panicked = <<>>
      /\ Len(lens) < MaxMessages
      /\ len <= MaxU16
      /\ c.ready
      /\ PacketCapacity >= len + 2
      /\ IF FinishPanics(c.out, len)
         THEN Becomes(c) /\ panicked' = <<len>> /\ UNCHANGED lens
         ELSE /\ Becomes([c EXCEPT !.out = Put(@, Len(lens) + 1, len)])
              /\ lens' = Append(lens, len)
              /\ UNCHANGED panicked
      /\ UNCHANGED <<wrapped, vanished, taken, receiving>>

\* poll_send that returns Pending, or TooBig after the flush: no message.
PollSendRefused(len) ==
  LET c == poll_flush(Sending)
  IN  /\ panicked = <<>>
      /\ len <= MaxU16
      /\ NeedsFlush(out_packet, len)
      /\ ~c.ready \/ PacketCapacity < len + 2
      /\ Becomes(c)
      /\ UNCHANGED <<wrapped, pending, accepted, vanished, lens, taken, receiving, panicked>>

\* The application's own call of poll_send.
Send(len) ==
  /\ ~wrapped
  /\ \/ /\ PollSend(len)
        /\ accepted' = IF panicked' = <<>> THEN Append(accepted, len) ELSE accepted
        /\ UNCHANGED pending
     \/ PollSendRefused(len)

\* UnreliableBincodeChannel::start_send.  bincode refuses what is longer than max_message_len,
\* and a message of no bytes leaves pending_write empty.
StartSend(len) ==
  /\ wrapped
  /\ panicked = <<>>
  /\ pending = 0
  /\ Len(accepted) + vanished < MaxMessages
  /\ len <= PacketCapacity - 2
  /\ pending' = len
  /\ \/ len > 0 /\ accepted' = Append(accepted, len) /\ UNCHANGED vanished
     \/ len = 0 /\ vanished' = vanished + 1 /\ UNCHANGED accepted
  /\ UNCHANGED <<wrapped, sending, lens, taken, receiving, panicked>>

\* UnreliableBincodeChannel::poll_send_ready, by itself or from poll_flush.
PollSendReady ==
  /\ wrapped
  /\ pending # 0
  /\ \/ /\ PollSend(pending)
        /\ pending' = IF panicked' = <<>> THEN 0 ELSE pending
        /\ UNCHANGED accepted
     \/ PollSendRefused(pending)

\* poll_flush of the channel, called by the application or after PollSendReady.
PollFlush ==
  /\ panicked = <<>>
  /\ pending = 0
  /\ Becomes(poll_flush(Sending))
  /\ UNCHANGED <<wrapped, pending, accepted, vanished, lens, taken, receiving, panicked>>

\* Time passes, for the limiter and for its timer.
Elapse(time) ==
  /\ earned + time <= MaxIdle
  /\ earned' = earned + time
  /\ delay' = [i \in 1..Len(delay) |-> IF delay[i] <= time THEN 0 ELSE delay[i] - time]
  /\ backlog' = IF backlog <= time THEN 0 ELSE backlog - time
  /\ UNCHANGED <<wrapped, pending, accepted, vanished, out_packet, slot, queue, credit, lens,
                 taken, receiving, panicked>>

\* The transport takes a packet.
Transmit ==
  /\ queue # <<>>
  /\ net' = net \cup {Head(queue)}
  /\ queue' = Tail(queue)
  /\ taken' = taken + Len(Head(queue).ids)
  /\ UNCHANGED <<wrapped, pending, accepted, vanished, out_packet, slot, limiter, lens,
                 in_packet, faults, panicked>>

Lose(packet) ==
  /\ packet \in net
  /\ faults < MaxFaults
  /\ net' = net \ {packet}
  /\ faults' = faults + 1
  /\ UNCHANGED <<wrapped, pending, accepted, vanished, sending, lens, taken, in_packet,
                 panicked>>

----------------------------------------------------------------------------
(* Receiving. *)

\* Mutant: a message that ends with the packet is refused.
recv_next_strict(in) ==
  LET bytes  == in.packet.bytes
      start  == in.pos + 2
      length == ReadU16(bytes, in.pos)
  IN  IF start > Len(bytes) \/ start + length >= Len(bytes)
      THEN [in EXCEPT !.pos = Len(bytes)]
      ELSE [in EXCEPT !.pos = start + length,
                      !.got = Append(@, SubSeq(bytes, start + 1, start + length))]

\* recv_next: the next message, or BadFormat, which skips the rest.
recv_next(in) ==
  LET bytes  == in.packet.bytes
      start  == in.pos + 2
      length == ReadU16(bytes, in.pos)
  IN  IF start > Len(bytes) \/ start + length > Len(bytes)
      THEN [in EXCEPT !.pos = Len(bytes)]
      ELSE [in EXCEPT !.pos = start + length,
                      !.got = Append(@, SubSeq(bytes, start + 1, start + length))]

AtEnd == in_packet # <<>> => in_packet[1].pos = Len(in_packet[1].packet.bytes)

\* poll_recv within a packet.
PollRecv ==
  /\ ~AtEnd
  /\ in_packet' = <<recv_next(in_packet[1])>>
  /\ UNCHANGED <<wrapped, pending, accepted, vanished, sending, lens, taken, net, faults,
                 panicked>>

\* poll_recv that takes the next packet, which may also stay behind as a duplicate.
PollRecvPacket(packet) ==
  /\ AtEnd
  /\ packet \in net
  /\ \/ net' = net \ {packet} /\ UNCHANGED faults
     \/ net' = net /\ faults < MaxFaults /\ faults' = faults + 1
  /\ in_packet' = <<recv_next([packet |-> packet, pos |-> 0, got |-> <<>>])>>
  /\ UNCHANGED <<wrapped, pending, accepted, vanished, sending, lens, taken, panicked>>

Next == \/ \E len \in MessageLens : Send(len) \/ StartSend(len)
        \/ PollSendReady
        \/ PollFlush
        \/ \E time \in TimeSteps : Elapse(time)
        \/ Transmit
        \/ PollRecv
        \/ \E packet \in net : Lose(packet) \/ PollRecvPacket(packet)

Spec == Init /\ [][Next]_vars

----------------------------------------------------------------------------
(* Properties. *)

\* No packet is empty or longer than the pool allows, and the spsc channel is bounded.
TypeOK ==
  /\ Len(out_packet.bytes) \in 0..PacketCapacity
  /\ Len(slot) <= 1
  /\ Len(queue) <= BufferSize
  /\ \A packet \in net : Len(packet.bytes) \in 2..PacketCapacity
  /\ faults \in 0..MaxFaults

(***************************************************************************)
(* Every message that has bytes and for which send returned Ok waits in    *)
(* pending_write or goes to the transport once, in order, whole, in one    *)
(* packet: polls that returned Pending or TooBig in between, and packets   *)
(* waiting in the spsc sender's slot, drop and repeat nothing.             *)
(***************************************************************************)
NothingDropped ==
  LET packets   == Append(queue \o slot, out_packet)
      last      == Len(packets)
      Behind(i) == IF i = 1 THEN taken ELSE packets[i - 1].ids[Len(packets[i - 1].ids)]
  IN  /\ accepted = IF pending > 0 THEN Append(lens, pending) ELSE lens
      /\ \A i \in 1..(last - 1) : packets[i].ids # <<>>
      /\ \A i \in 1..last : \A k \in 1..Len(packets[i].ids) : packets[i].ids[k] = Behind(i) + k
      /\ Len(lens) = Behind(last) + Len(out_packet.ids)

(***************************************************************************)
(* The receiver splits a packet into exactly the messages that were        *)
(* coalesced into it, empty ones included; BadFormat does not occur.       *)
(***************************************************************************)
FramingIntact ==
  in_packet # <<>> =>
    LET in  == in_packet[1]
        ids == in.packet.ids
    IN  /\ Len(in.got) <= Len(ids)
        /\ \A i \in 1..Len(in.got) : in.got[i] = Body(ids[i], lens[ids[i]])
        /\ AtEnd => Len(in.got) = Len(ids)

(***************************************************************************)
(* The rate limit: in any stretch of time the channel sends at most what   *)
(* the bandwidth earns in it, the burst, and two packets.  (backlog is the *)
(* most bytes sent in a stretch that ends now beyond what the stretch      *)
(* earned.)  It takes two because the limiter lets a packet through with   *)
(* no credit left, and because a delay that has passed is not credited     *)
(* until the next flush.  The documented bound is BurstBounded, below.     *)
(***************************************************************************)
RateBounded == backlog <= Burst + 2 * PacketCapacity

----------------------------------------------------------------------------
(* What the documentation says and the code does not keep. *)

(***************************************************************************)
(* finish "panics if called with a message length larger than the size of  *)
(* the provided buffer", and "the maximum message length is                *)
(* packet.len() - 2" (unreliable_channel.rs:302, 108): a message that      *)
(* poll_send_ready has made room for can be finished.                      *)
(***************************************************************************)
NoPanic == panicked = <<>>

(***************************************************************************)
(* How far the disagreement goes: finish panics on a message that fills    *)
(* the packet to the last byte, whatever is in the packet already, and on  *)
(* no other.                                                               *)
(***************************************************************************)
ExactFitOnly ==
  panicked # <<>> => Len(out_packet.bytes) + 2 + panicked[1] = PacketCapacity

(***************************************************************************)
(* flush is called "to guarantee that any sent messages are actually sent  *)
(* to the outgoing packet stream" (unreliable_channel.rs:127,              *)
(* unreliable_bincode_channel.rs:106): where poll_flush returns Ready, no  *)
(* message is left in the packet being filled or in the spsc sender's      *)
(* slot, and none was left out.                                            *)
(***************************************************************************)
FlushSends ==
  LET c == poll_flush(Sending)
  IN  panicked = <<>> /\ pending = 0 /\ c.ready =>
        c.out = NoPacket /\ c.slot = <<>> /\ vanished = 0

(***************************************************************************)
(* burst_bandwidth is "the maximum bytes that will be sent in a single     *)
(* burst" (unreliable_channel.rs:47): beyond what the time earns, no more  *)
(* than that is sent.                                                      *)
(***************************************************************************)
BurstBounded == backlog <= Burst

==============================================================================
