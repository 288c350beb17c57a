--------------------------- MODULE BincodeChannel ---------------------------
(***************************************************************************)
(* One direction of a ReliableBincodeChannel, or of a                      *)
(* CompressedBincodeChannel: messages become frames, frames are written to *)
(* a reliable byte stream as it has room, and are put together again from  *)
(* whatever reads return.                                                  *)
(*                                                                         *)
(* A step is one poll_write or poll_read of the ReliableChannel below, or  *)
(* what happens between two of them.  Any poll may return Pending: then    *)
(* the call is polled again later, or the application drops its future.    *)
(* The stream is what ReliableStreamSpec promises.  Its errors are fatal   *)
(* to the channel and left out.  A call of recv keeps all its state in the *)
(* channel, so whether one is in progress makes no difference.             *)
(*                                                                         *)
(* The receiver asks for the types the sender sends.  A message may have   *)
(* no bytes at all, as () has: then its frame is empty, and in a chunk it  *)
(* leaves no trace.  An empty frame is 0 in framed and in delivered,       *)
(* whether it stands for such a message or for one that was refused.       *)
(***************************************************************************)
EXTENDS Frames

CONSTANTS StreamSize,      \* bytes in the stream
          MaxMessageLen,   \* MAX_MESSAGE_LEN
          MessageLens,     \* encoded lengths of the messages sent
          MaxMessages      \* messages accepted or refused

ASSUME BincodeAssumption ==
  /\ ByteBase \in Nat /\ ByteBase >= 2
  /\ StreamSize \in Nat \ {0}
  /\ MaxMessageLen \in 1..MaxU16
  /\ MessageLens \subseteq Nat
  /\ MaxMessages \in Nat

VARIABLES compressed,    \* which of the two channels it is
          call,          \* of the sender: [op, len]
          write_buffer,  \* its bytes from write_pos on
          send_chunk,
          stream,        \* the bytes written and not read
          read_buffer,   \* its bytes up to read_pos
          recv_chunk,    \* its bytes from recv_pos on
          framed,        \* lengths of the frames and, in chunks, of the messages made
          accepted,      \* lengths of the messages for which send returned Ok
          delivered,     \* lengths of the messages received, Error for a bad one
          flushed        \* Len(framed) when flush last returned

sendVars == <<call, write_buffer, send_chunk, framed, accepted, flushed>>
recvVars == <<read_buffer, recv_chunk, delivered>>
vars == <<compressed, sendVars, stream, recvVars>>

Error == -1

Idle == [op |-> "none", len |-> 0]

Init == /\ compressed \in BOOLEAN
        /\ call = Idle
        /\ write_buffer = <<>> /\ send_chunk = <<>>
        /\ stream = <<>>
        /\ read_buffer = <<>> /\ recv_chunk = <<>>
        /\ framed = <<>> /\ accepted = <<>> /\ delivered = <<>>
        /\ flushed = 0

----------------------------------------------------------------------------
(* send, try_send, flush and try_flush. *)

\* The call begins.  The compressed channel refuses at once what bincode cannot encode.
StartSend(len) ==
  /\ call.op = "none"
  /\ Len(framed) < MaxMessages /\ Len(accepted) < MaxMessages
  /\ compressed => len <= MaxMessageLen
  /\ call' = [op |-> "send", len |-> len]
  /\ UNCHANGED <<compressed, write_buffer, send_chunk, framed, accepted, flushed, stream, recvVars>>

StartFlush ==
  /\ call.op = "none"
  /\ call' = [op |-> "flush", len |-> 0]
  /\ UNCHANGED <<compressed, write_buffer, send_chunk, framed, accepted, flushed, stream, recvVars>>

\* Mutant: the chunk is taken to have room until it is full.
ChunkFullBefore == Len(send_chunk) >= MaxMessageLen

ChunkFull == Len(send_chunk) + call.len > MaxMessageLen

\* Mutant: the compressed channel replaces the buffer without writing it out.
DrainingNever == /\ write_buffer # <<>>
                 /\ ~compressed \/ (call.op = "flush" /\ send_chunk = <<>>)

\* The call has to write the buffer out before it goes on.
Draining == /\ write_buffer # <<>>
            /\ ~compressed \/ call.op = "flush" \/ ChunkFull

\* One poll_write of the rest of the buffer that takes n bytes.
PollWrite(n) ==
  /\ call.op # "none" /\ Draining
  /\ n <= Len(write_buffer) /\ Len(stream) + n <= StreamSize
  /\ stream' = stream \o SubSeq(write_buffer, 1, n)
  /\ write_buffer' = SubSeq(write_buffer, n + 1, Len(write_buffer))
  /\ UNCHANGED <<compressed, call, send_chunk, framed, accepted, flushed, recvVars>>

\* poll_write returns Pending: try_send or try_flush returns, or the future is dropped.
Cancel ==
  /\ call.op # "none" /\ Draining
  /\ call' = Idle
  /\ UNCHANGED <<compressed, write_buffer, send_chunk, framed, accepted, flushed, stream, recvVars>>

\* poll_write_send_chunk, once the buffer is written out.
LoadChunk ==
  /\ call.op # "none" /\ ~Draining
  /\ send_chunk # <<>>
  /\ call.op = "flush" \/ ChunkFull
  /\ write_buffer' = ChunkFrame(send_chunk)
  /\ send_chunk' = <<>>
  /\ UNCHANGED <<compressed, call, framed, accepted, flushed, stream, recvVars>>

\* poll_send takes the message: the compressed channel adds its bytes, if any, to the chunk.
FinishSendCompressed ==
  /\ compressed /\ call.op = "send" /\ ~ChunkFull
  /\ send_chunk' = send_chunk \o Message(call.len)
  /\ framed' = IF call.len = 0 THEN framed ELSE Append(framed, call.len)
  /\ accepted' = Append(accepted, call.len)
  /\ call' = Idle
  /\ UNCHANGED <<compressed, write_buffer, flushed, stream, recvVars>>

(***************************************************************************)
(* start_send: the frame is put into the empty buffer.  If the encoder     *)
(* fails, the header of the frame, still zero, stays in the buffer.        *)
(***************************************************************************)
FinishSendPlain ==
  /\ ~compressed /\ call.op = "send" /\ ~Draining
  /\ \/ /\ call.len <= MaxMessageLen
        /\ write_buffer' = PlainFrame(Message(call.len))
        /\ framed' = Append(framed, call.len)
        /\ accepted' = Append(accepted, call.len)
     \/ /\ call.len > MaxMessageLen
        /\ write_buffer' = WriteU16(0)
        /\ framed' = Append(framed, 0)
        /\ UNCHANGED accepted
  /\ call' = Idle
  /\ UNCHANGED <<compressed, send_chunk, flushed, stream, recvVars>>

\* Mutant: flush does not write the frame it has just made.
FinishFlushEarly ==
  /\ call.op = "flush"
  /\ send_chunk = <<>>
  /\ flushed' = Len(framed)
  /\ call' = Idle
  /\ UNCHANGED <<compressed, write_buffer, send_chunk, framed, accepted, stream, recvVars>>

\* The end of poll_flush.  ReliableChannel::flush wakes the task, which this stream has none of.
FinishFlush ==
  /\ call.op = "flush" /\ ~Draining
  /\ send_chunk = <<>>
  /\ flushed' = Len(framed)
  /\ call' = Idle
  /\ UNCHANGED <<compressed, write_buffer, send_chunk, framed, accepted, stream, recvVars>>

----------------------------------------------------------------------------
(* recv and try_recv. *)

Header == IF compressed THEN ChunkHeader ELSE PlainHeader

\* Bytes that poll_recv_ready still waits for: the rest of the header, or of the frame.
Missing ==
  IF Len(read_buffer) < Header THEN Header - Len(read_buffer)
  ELSE Header + ReadU16(read_buffer, Header - 2) - Len(read_buffer)

\* One poll_read that returns n bytes.
PollRead(n) ==
  /\ recv_chunk = <<>>
  /\ n <= Missing /\ n <= Len(stream)
  /\ read_buffer' = read_buffer \o SubSeq(stream, 1, n)
  /\ stream' = SubSeq(stream, n + 1, Len(stream))
  /\ UNCHANGED <<compressed, sendVars, recv_chunk, delivered>>

\* ReliableBincodeChannel::recv_next: a message, or a decoding error that skips it.
FinishFrame ==
  LET body == SubSeq(read_buffer, PlainHeader + 1, Len(read_buffer))
  IN  /\ ~compressed /\ Missing = 0
      /\ delivered' = Append(delivered, IF Decodes(body) THEN Len(body) ELSE Error)
      /\ read_buffer' = <<>>
      /\ UNCHANGED <<compressed, sendVars, stream, recv_chunk>>

\* CompressedBincodeChannel::poll_recv_ready, when the frame is complete.  A compressed chunk
\* that would be too long is an error of snap, and the frame stays.
FinishChunk ==
  LET chunk == ChunkOf(read_buffer)
      fits  == read_buffer[1] = 0 \/ Len(chunk) <= MaxMessageLen
  IN  /\ compressed /\ recv_chunk = <<>> /\ Missing = 0
      /\ recv_chunk' = IF fits THEN chunk ELSE <<>>
      /\ read_buffer' = IF fits THEN <<>> ELSE read_buffer
      /\ delivered' = IF fits THEN delivered ELSE Append(delivered, Error)
      /\ UNCHANGED <<compressed, sendVars, stream>>

\* CompressedBincodeChannel::recv_next: the message at the front of the chunk, which stays
\* there when it cannot be decoded.
TakeMessage ==
  LET n    == MessageLen(recv_chunk)
      msg  == SubSeq(recv_chunk, 1, n)
      rest == SubSeq(recv_chunk, n + 1, Len(recv_chunk))
  IN  /\ recv_chunk # <<>>
      /\ delivered' = Append(delivered, IF Decodes(msg) THEN n ELSE Error)
      /\ recv_chunk' = IF Decodes(msg) THEN rest ELSE recv_chunk
      /\ UNCHANGED <<compressed, sendVars, stream, read_buffer>>

----------------------------------------------------------------------------
Next == \/ \E len \in MessageLens : StartSend(len)
        \/ StartFlush
        \/ \E n \in 1..StreamSize : PollWrite(n) \/ PollRead(n)
        \/ Cancel
        \/ LoadChunk \/ FinishSendCompressed \/ FinishSendPlain \/ FinishFlush
        \/ FinishFrame \/ FinishChunk \/ TakeMessage

Spec == Init /\ [][Next]_vars

(***************************************************************************)
(* The receiving application keeps calling recv.  The sending one promises *)
(* nothing: no call need be made, and one in progress may be dropped.      *)
(***************************************************************************)
Fairness == /\ WF_vars(\E n \in 1..StreamSize : PollRead(n))
            /\ WF_vars(FinishFrame \/ FinishChunk \/ TakeMessage)

LiveSpec == Spec /\ Fairness

----------------------------------------------------------------------------
(* Properties. *)

(***************************************************************************)
(* The lengths the code converts to u16 fit, on both sides, and neither    *)
(* side's buffers outgrow a frame.                                         *)
(***************************************************************************)
TypeOK ==
  /\ call \in [op : {"none", "send", "flush"}, len : Nat]
  /\ Len(write_buffer) <= ChunkHeader + MaxMessageLen
  /\ Len(send_chunk) <= MaxMessageLen /\ Len(recv_chunk) <= MaxMessageLen
  /\ Len(stream) <= StreamSize
  /\ Missing \in 0..(Header + MaxMessageLen)

(***************************************************************************)
(* However the bytes are cut by partial writes and reads, and wherever a   *)
(* call is dropped, what was put into frames and chunks is received whole, *)
(* once and in order.  The empty frame that a refused message leaves       *)
(* behind arrives in its place and disturbs no other message.              *)
(***************************************************************************)
Queue == INSTANCE MessageQueueSpec WITH Messages <- 0..MaxMessageLen, accepted <- framed
ImplementsMessageQueue == Queue!Spec

(***************************************************************************)
(* Once flush has returned, the sender has nothing left to do for what it  *)
(* has put into frames and chunks: that arrives even if the sender is      *)
(* never polled again.                                                     *)
(***************************************************************************)
FlushedArrive ==
  \A k \in 1..MaxMessages : flushed >= k ~> Len(delivered) >= k

(***************************************************************************)
(* What the documentation says of send: a refused message "is unsent"      *)
(* (reliable_bincode_channel.rs:23) and "any message <= MAX_MESSAGE_LEN    *)
(* can be sent" (compressed_bincode_channel.rs:18).  When nothing is on    *)
(* its way, the messages that send took are the messages that were         *)
(* received.  The code does not guarantee it: the header of the refused    *)
(* message is sent and received, and a message of no bytes never is if     *)
(* nothing follows it.                                                     *)
(***************************************************************************)
InTransit == write_buffer \o send_chunk \o stream \o read_buffer \o recv_chunk
DeliversAccepted == InTransit = <<>> => delivered = accepted

=============================================================================
