------------------------------- MODULE Frames -------------------------------
(***************************************************************************)
(* The byte formats above the packet and byte-stream channels: two-byte    *)
(* lengths, the frames of ReliableBincodeChannel and of                    *)
(* CompressedBincodeChannel, and what bincode and snap do to the bytes.    *)
(***************************************************************************)
EXTENDS Integers, Sequences

CONSTANT ByteBase   \* values of one byte, 256 in the code

MaxU16 == ByteBase * ByteBase - 1

\* LittleEndian::write_u16 and read_u16.
WriteU16(n) == <<n % ByteBase, n \div ByteBase>>
ReadU16(bytes, pos) == bytes[pos + 1] + ByteBase * bytes[pos + 2]

----------------------------------------------------------------------------
(* bincode (external): an encoding tells its own length, so that messages  *)
(* can be taken from the front of a chunk.  A message of n bytes is n      *)
(* times the number n - 1.  The numbers in messages and compressed chunks  *)
(* stand for content; only the two bytes of a length keep a byte's width.  *)

Message(n) == [i \in 1..n |-> n - 1]

\* deserialize_from: the length of the message at the front of a chunk.
MessageLen(bytes) == bytes[1] + 1

\* deserialize: the whole input is one message.  No bytes are a message of a type without any.
Decodes(bytes) == bytes = <<>> \/ bytes = Message(MessageLen(bytes))

(***************************************************************************)
(* snap (external): any codec that is lossless and sometimes shorter; the  *)
(* channel relies on no more.  TLC needs one that can be computed: a run   *)
(* of one byte becomes its length and the byte, other data gets longer.    *)
(***************************************************************************)
IsRun(bytes) == Len(bytes) > 2 /\ \A i \in 1..Len(bytes) : bytes[i] = bytes[1]

compress(bytes)   == IF IsRun(bytes) THEN <<Len(bytes), bytes[1]>> ELSE Append(bytes, 0)
decompress(bytes) == [i \in 1..bytes[1] |-> bytes[2]]

----------------------------------------------------------------------------
(* Frames. *)

\* ReliableBincodeChannel: the length, then the message.
PlainHeader == 2
PlainFrame(body) == WriteU16(Len(body)) \o body

(***************************************************************************)
(* CompressedBincodeChannel: a flag, the length, then the chunk, whichever *)
(* form is shorter.                                                        *)
(***************************************************************************)
ChunkHeader == 3
ChunkFrame(chunk) ==
  LET compressed == compress(chunk)
  IN  IF Len(compressed) >= Len(chunk)
      THEN <<0>> \o WriteU16(Len(chunk)) \o chunk
      ELSE <<1>> \o WriteU16(Len(compressed)) \o compressed

\* The chunk in a complete frame.
ChunkOf(frame) ==
  LET body == SubSeq(frame, ChunkHeader + 1, Len(frame))
  IN  IF frame[1] # 0 THEN decompress(body) ELSE body

=============================================================================
