--------------------------- MODULE ReliableChannel ---------------------------
(***************************************************************************)
(* One direction of a reliable channel: the Task of reliable_channel.rs at *)
(* the sending end, the Task at the receiving end, the two applications,   *)
(* and a network between them that loses, duplicates and reorders packets. *)
(* The other direction is the same code with the ends exchanged and shares *)
(* no state with this one but the bandwidth, which is nondeterministic     *)
(* here.                                                                   *)
(*                                                                         *)
(* A task runs its handlers one at a time.  While it does, only the        *)
(* application can be seen, through the two rings: it adds bytes to the    *)
(* send ring, which is the same as adding them just before or after the    *)
(* handler, and it takes bytes from the receive ring, which may happen     *)
(* between recv and window_end.  A handler is therefore one action, except *)
(* that of a data packet, which is cut there.                              *)
(*                                                                         *)
(* Time and bandwidth are abstracted to what they decide: which due ranges *)
(* a call of resend reaches, and whether send finds bandwidth.  The RTT    *)
(* estimate, and the retransmit flag that only it reads, decide nothing    *)
(* else and are left out.  A data packet and an acknowledgement differ in  *)
(* the sign of their length, which is exact because no length is zero.     *)
(*                                                                         *)
(* Positions of StreamLen bytes and the windows around them stay within    *)
(* half the position space of each other: no packet outlives that many     *)
(* bytes of progress in the network.  A task that sends waits while the    *)
(* network holds MaxInFlight packets, as it waits in sender.send for room  *)
(* in its outgoing channel.                                                *)
(***************************************************************************)
EXTENDS Windows, FiniteSets

CONSTANTS SendWindowSize,   \* settings.send_window_size
          RecvWindowSize,   \* settings.recv_window_size
          InitSend,         \* settings.init_send
          MaxPayload,       \* packet_pool.capacity() - 6, at most i16::MAX
          StreamStart,      \* position of the first byte considered
          StreamLen,        \* bytes the application writes
          MaxChunk,         \* bytes in one call of write or read
          MaxFaults,        \* packets the network loses or duplicates
          MaxInFlight       \* packets the network holds each way

ASSUME ChannelAssumption ==
  /\ SendWindowSize \in 1..MaxWindow
  /\ RecvWindowSize \in 1..MaxWindow
  /\ InitSend \in Nat \ {0}
  /\ MaxPayload \in Nat \ {0}
  /\ StreamStart \in StreamPositions
  /\ StreamLen \in Nat
  /\ MaxChunk \in Nat
  /\ StreamLen + RecvWindowSize + InitSend <= MaxWindow
  /\ MaxFaults \in Nat
  /\ MaxInFlight \in Nat \ {0}

VARIABLES task,        \* the sending task: send_window, remote_recv_available
                       \* and its map of unacked ranges
          written,     \* bytes the writing application has written
          rw,          \* recv_window of the receiving task
          acking,      \* the range it has just stored and not yet acknowledged
          delivered,   \* what the reading application has read
          data, acks,  \* packets in flight, each way
          faults,      \* packets lost or duplicated so far
          panicked     \* an assertion or unwrap of a task has failed

vars == <<task, written, rw, acking, delivered, data, acks, faults, panicked>>

----------------------------------------------------------------------------
(* The stream: the byte at position p is p. *)

Unwritten == -1

Pos(offset) == WrapAdd(StreamStart, offset)
Offset(pos) == WrapSub(pos, StreamStart)
Stream(start, end) == [k \in 1..(end - start) |-> Pos(start + k - 1)]

Lesser3(a, b, c) ==
  IF a <= b /\ a <= c THEN a ELSE IF b <= c THEN b ELSE c

----------------------------------------------------------------------------
(* The sending task's operations, on a record of its state.  unacked maps  *)
(* the start of a range to its end and to whether last_sent is Some.       *)

NewTask == [sw      |-> NewSendWindow(SendWindowSize, StreamStart, Unwritten),
            rra     |-> InitSend,
            unacked |-> [p \in {} |-> 0]]

Insert(map, key, value) ==
  [p \in DOMAIN map \cup {key} |-> IF p = key THEN value ELSE map[p]]

Remove(map, key) == [p \in DOMAIN map \ {key} |-> map[p]]

Packet(start, bytes) == [start |-> start, bytes |-> bytes]

\* Mutant: the room at the remote is only asked for, not obeyed.
SendAmtPastRemote(t) == Lesser(send_available(t.sw), MaxPayload)

\* Task::send with bandwidth available.
SendAmt(t) == Lesser3(send_available(t.sw), t.rra, MaxPayload)

SendPackets(t) ==
  IF SendAmt(t) = 0 THEN {} ELSE {Packet(t.sw.send_pos, SentData(t.sw, SendAmt(t)))}

Send(t) ==
  LET range == SentRange(t.sw, SendAmt(t))
  IN  IF SendAmt(t) = 0 THEN t
      ELSE [sw      |-> send(t.sw, SendAmt(t)),
            rra     |-> t.rra - SendAmt(t),
            unacked |-> Insert(t.unacked, range[1], [end |-> range[2], last_sent |-> TRUE])]

\* Task::resend, reaching the ranges that start at a member of S.
Resent(t, p) == get_unacked(t.sw, p, WrapSub(t.unacked[p].end, p))

ResendPackets(t, S) == {Packet(p, Resent(t, p)) : p \in S}

Resend(t, S) ==
  [t EXCEPT !.unacked = [p \in DOMAIN @ |-> IF p \in S THEN [@[p] EXCEPT !.last_sent = TRUE]
                                                       ELSE @[p]]]

\* get_unacked asserts that it fills the packet.
ResendPanics(t, S) == \E p \in S : Len(Resent(t, p)) # WrapSub(t.unacked[p].end, p)

(***************************************************************************)
(* The sets of ranges one call of resend may reach when it finds bandwidth *)
(* at first.  A range that was sent before may be due or not; one that was *)
(* never sent by itself is due.  The map is iterated in any order and the  *)
(* bandwidth may run out after any packet.                                 *)
(***************************************************************************)
Reached(t) ==
  {S \in SUBSET DOMAIN t.unacked :
     S # {} \/ \A p \in DOMAIN t.unacked : t.unacked[p].last_sent}

\* Mutant: there is no allowance.
AntiStallNever(t) == t

\* Mutant: the allowance is given while ranges are in flight.
AntiStallInFlight(t) == IF t.rra = 0 THEN [t EXCEPT !.rra = InitSend] ELSE t

\* The end of the loop body: do not let the connection stall.
AntiStall(t) ==
  IF DOMAIN t.unacked = {} /\ t.rra = 0 THEN [t EXCEPT !.rra = InitSend] ELSE t

----------------------------------------------------------------------------
(* Task::recv_packet for an acknowledgement. *)

\* The advertised window, seen from send_pos.
UpdateRemote(t, window) ==
  LET room == WrapSub(window, t.sw.send_pos)
  IN  IF stream_gt(window, t.sw.send_pos) /\ room > t.rra THEN [t EXCEPT !.rra = room] ELSE t

\* The range leaves the map, or its rest stays there as never sent.
AckPanics(t, start, end) ==
  LET ret == ack_range(SendWindowSize, t.sw, start, end)
  IN  \/ ret.result = "Panic"
      \/ /\ ret.result \in {"Ack", "PartialAck"}
         /\ start \notin DOMAIN t.unacked
      \/ /\ ret.result = "Ack"
         /\ start \in DOMAIN t.unacked
         /\ t.unacked[start].end # end
      \/ /\ ret.result = "PartialAck"
         /\ start \in DOMAIN t.unacked
         /\ t.unacked[start].end # ret.nacked_end

\* Mutant: the rest of a partly acknowledged range stays under its old start.
AckRangeKeepsStart(t, start, end) ==
  LET ret == ack_range(SendWindowSize, t.sw, start, end)
  IN  [t EXCEPT !.sw = ret.win,
                !.unacked = IF ret.result = "Ack" THEN Remove(@, start) ELSE @]

AckRange(t, start, end) ==
  LET ret  == ack_range(SendWindowSize, t.sw, start, end)
      rest == Remove(t.unacked, start)
  IN  [t EXCEPT !.sw = ret.win,
                !.unacked =
                  CASE ret.result = "Ack"        -> rest
                    [] ret.result = "PartialAck" ->
                         Insert(rest, end, [end |-> ret.nacked_end, last_sent |-> FALSE])
                    [] OTHER                     -> @]

----------------------------------------------------------------------------
(* Actions. *)

HasRoom(net) == Cardinality(net) <= MaxInFlight

Idle == <<>>

Init == /\ task = NewTask
        /\ written = 0
        /\ rw = NewRecvWindow(RecvWindowSize, StreamStart, Unwritten)
        /\ acking = Idle
        /\ delivered = <<>>
        /\ data = {}
        /\ acks = {}
        /\ faults = 0
        /\ panicked = FALSE

\* ReliableChannel::try_write and poll_write, of n bytes: some fit.
AppWrite(n) ==
  LET bytes == Stream(written, written + n)
      len   == WriteLen(SendWindowSize, task.sw.buf, 0, bytes)
  IN  /\ written + n <= StreamLen
      /\ len > 0
      /\ task' = [task EXCEPT !.sw = SendWindowWrite(SendWindowSize, @, bytes)]
      /\ written' = written + len
      /\ UNCHANGED <<rw, acking, delivered, data, acks, faults, panicked>>

\* ReliableChannel::try_read and poll_read, of n bytes: some are ready.
AppRead(n) ==
  LET bytes == Read(rw.buf, 0, n)
  IN  /\ Len(bytes) > 0
      /\ rw' = RecvWindowRead(RecvWindowSize, rw, n)
      /\ delivered' = delivered \o bytes
      /\ UNCHANGED <<task, written, acking, data, acks, faults, panicked>>

\* WakeReason::ResendTimer.
ResendTimer(S) ==
  /\ ~panicked
  /\ S # {}
  /\ S \in Reached(task)
  /\ task' = AntiStall(Resend(task, S))
  /\ data' = data \cup ResendPackets(task, S)
  /\ HasRoom(data')
  /\ panicked' = ResendPanics(task, S)
  /\ UNCHANGED <<written, rw, acking, delivered, acks, faults>>

\* WakeReason::SendAvailable: resends go first and may use up the bandwidth.
SendAvailable(S, sends) ==
  LET resent == Resend(task, S)
  IN  /\ ~panicked
      /\ task.rra > 0
      /\ send_available(task.sw) > 0
      /\ S \in Reached(task)
      /\ S = {} => sends
      /\ task' = AntiStall(IF sends THEN Send(resent) ELSE resent)
      /\ data' = data \cup ResendPackets(task, S)
                      \cup (IF sends THEN SendPackets(resent) ELSE {})
      /\ HasRoom(data')
      /\ panicked' = ResendPanics(task, S)
      /\ UNCHANGED <<written, rw, acking, delivered, acks, faults>>

\* A packet arrives; it stays in flight as well if the network duplicates it.
Leaves(net, net1, packet) ==
  \/ net1 = net \ {packet} /\ UNCHANGED faults
  \/ net1 = net /\ faults < MaxFaults /\ faults' = faults + 1

\* Mutant: the whole packet is acknowledged.
StoredRangeWhole(packet, end) == <<packet.start, WrapAdd(packet.start, Len(packet.bytes))>>

\* The range to acknowledge.
StoredRange(packet, end) == <<packet.start, end>>

\* WakeReason::IncomingPacket at the receiving task, a data packet: store it ...
RecvData(packet) ==
  LET ret == recv(RecvWindowSize, rw, packet.start, packet.bytes)
  IN  /\ ~panicked
      /\ acking = Idle
      /\ packet \in data
      /\ Leaves(data, data', packet)
      /\ rw' = ret.win
      /\ acking' = IF ret.result = "Some" THEN StoredRange(packet, ret.end) ELSE Idle
      /\ panicked' = (ret.result = "Panic")
      /\ UNCHANGED <<task, written, delivered, acks>>

\* ... and acknowledge what was stored, with the window as it is by then.
SendAck ==
  /\ ~panicked
  /\ acking # Idle
  /\ acks' = acks \cup {[start |-> acking[1], len |-> WrapSub(acking[2], acking[1]),
                         window |-> window_end(RecvWindowSize, rw)]}
  /\ HasRoom(acks')
  /\ acking' = Idle
  /\ UNCHANGED <<task, written, rw, delivered, data, faults, panicked>>

\* WakeReason::IncomingPacket at the sending task, an acknowledgement.
RecvAck(ack, sends) ==
  LET end    == WrapAdd(ack.start, ack.len)
      heard  == UpdateRemote(task, ack.window)
      before == IF sends THEN Send(heard) ELSE heard
  IN  /\ ~panicked
      /\ ack \in acks
      /\ Leaves(acks, acks', ack)
      /\ sends => task.rra = 0 /\ heard.rra # 0
      /\ task' = AntiStall(AckRange(before, ack.start, end))
      /\ data' = data \cup (IF sends THEN SendPackets(heard) ELSE {})
      /\ HasRoom(data')
      /\ panicked' = AckPanics(before, ack.start, end)
      /\ UNCHANGED <<written, rw, acking, delivered>>

LoseData(packet) ==
  /\ packet \in data
  /\ faults < MaxFaults
  /\ faults' = faults + 1
  /\ data' = data \ {packet}
  /\ UNCHANGED <<task, written, rw, acking, delivered, acks, panicked>>

LoseAck(ack) ==
  /\ ack \in acks
  /\ faults < MaxFaults
  /\ faults' = faults + 1
  /\ acks' = acks \ {ack}
  /\ UNCHANGED <<task, written, rw, acking, delivered, data, panicked>>

Next == \/ \E n \in 1..MaxChunk : AppWrite(n) \/ AppRead(n)
        \/ \E S \in SUBSET DOMAIN task.unacked : ResendTimer(S)
        \/ \E S \in SUBSET DOMAIN task.unacked, sends \in BOOLEAN : SendAvailable(S, sends)
        \/ \E packet \in data : RecvData(packet)
        \/ SendAck
        \/ \E ack \in acks, sends \in BOOLEAN : RecvAck(ack, sends)
        \/ \E packet \in data : LoseData(packet)
        \/ \E ack \in acks : LoseAck(ack)

Spec == Init /\ [][Next]_vars

----------------------------------------------------------------------------
(* Safety. *)

\* No packet of send or resend is longer than a packet can be, no acknowledgement is
\* empty, and remote_recv_available does not underflow.
TypeOK ==
  /\ task.rra \in Nat
  /\ DOMAIN task.unacked \subseteq StreamPositions
  /\ \A p \in DOMAIN task.unacked : task.unacked[p].end \in StreamPositions
  /\ written \in 0..StreamLen
  /\ \A p \in data : p.start \in StreamPositions /\ Len(p.bytes) \in 1..MaxPayload
  /\ \A a \in acks : a.start \in StreamPositions /\ a.len \in 1..MaxPayload
  /\ faults \in 0..MaxFaults

(***************************************************************************)
(* No assertion or unwrap of either task fails: the task's map of unacked  *)
(* ranges agrees with the window's list when an acknowledgement arrives,   *)
(* whatever was resent, split or acknowledged before, also when send runs  *)
(* in the middle of the handler; and a resend finds all its bytes.         *)
(***************************************************************************)
NoPanic == ~panicked

recv_offset == Offset(rw.recv_pos)

\* The offsets the receiver has, ready, read or unready.
got == 0..(recv_offset - 1)
       \cup UNION {Offset(rw.unready[i][1])..(Offset(rw.unready[i][2]) - 1) :
                     i \in 1..Len(rw.unready)}

\* The offsets the sender would send again.
Resendable ==
  UNION {Offset(p)..(Offset(task.unacked[p].end) - 1) : p \in DOMAIN task.unacked}

(***************************************************************************)
(* The sender forgets a byte only when the receiver has it: every byte     *)
(* sent is still in the map the sender resends from, or in the receiver's  *)
(* window or beyond it, whatever acknowledgements were lost, late,         *)
(* repeated or partial.                                                    *)
(***************************************************************************)
NothingForgotten == (0..(Offset(task.sw.send_pos) - 1)) \ Resendable \subseteq got

(***************************************************************************)
(* Flow control: the sender never believes it may send further than        *)
(* init_send bytes past the receiver's window, in spite of late            *)
(* acknowledgements and of the allowance that keeps the connection from    *)
(* stalling (the documentation of Settings::init_send).                    *)
(***************************************************************************)
FlowControl ==
  Offset(task.sw.send_pos) + task.rra
    <= Offset(window_end(RecvWindowSize, rw)) + InitSend

(***************************************************************************)
(* The regions in the receive window's list do not connect with the ready  *)
(* bytes.  RecvWindow alone does not keep this; the ranges a sending task  *)
(* sends, resends and splits never bring recv into the case where it       *)
(* fails.                                                                  *)
(***************************************************************************)
UnreadyBeyondReady ==
  \A i \in 1..Len(rw.unready) : Offset(rw.unready[i][1]) > recv_offset

(***************************************************************************)
(* Over a network that loses, duplicates and reorders, the two tasks       *)
(* implement one FIFO byte stream that holds at most what the two windows  *)
(* hold.                                                                   *)
(***************************************************************************)
Abstract == INSTANCE ReliableStreamSpec WITH
  Source <- Stream(0, StreamLen),
  Bound  <- SendWindowSize + RecvWindowSize
ImplementsStream == Abstract!Spec

----------------------------------------------------------------------------
(* Liveness. *)

Offsets == 0..(StreamLen - 1)

PacketRanges == {r \in Offsets \X (1..StreamLen) : r[2] - r[1] \in 1..MaxPayload}

AllData == {Packet(Pos(r[1]), Stream(r[1], r[2])) : r \in PacketRanges}

AllAcks == {[start |-> Pos(r[1]), len |-> r[2] - r[1], window |-> Pos(e)] :
              r \in PacketRanges, e \in RecvWindowSize..(RecvWindowSize + StreamLen)}

(***************************************************************************)
(* The loop of each task runs whenever it can, the reading application     *)
(* keeps reading, and a packet that is not lost does not stay in the       *)
(* network for ever.  A range that stays unacked is sent again and again:  *)
(* the bandwidth refills faster than the retransmission times of the other *)
(* ranges use it up.  The writer promises nothing.                         *)
(***************************************************************************)
Fairness ==
  /\ WF_vars(\E n \in 1..MaxChunk : AppRead(n))
  /\ WF_vars(SendAck)
  /\ SF_vars(\E S \in SUBSET DOMAIN task.unacked : SendAvailable(S, TRUE))
  /\ \A s \in Offsets :
       []<>(\/ Pos(s) \notin DOMAIN task.unacked
            \/ \E packet \in data : packet.start = Pos(s))
  /\ \A packet \in AllData : []<>(packet \notin data)
  /\ \A ack \in AllAcks : []<>(ack \notin acks)

LiveSpec == Spec /\ Fairness

(***************************************************************************)
(* Every byte written is eventually read at the other end: the reader      *)
(* catches up with the writer, who stops at StreamLen, again and again.    *)
(* The connection does not stall, also when the receiver's window was full *)
(* and the acknowledgement that would have reopened it was lost.           *)
(***************************************************************************)
EverythingArrives == []<>(Len(delivered) = written)

=============================================================================
