----------------------- MODULE UnreliableChannelProofs -----------------------
(***************************************************************************)
(* The properties of UnreliableChannel for every packet capacity, burst,   *)
(* buffer size and sequence of messages.                                   *)
(*                                                                         *)
(* The inductive invariant has three parts: what the bytes of a packet are *)
(* (Layout says where each message begins), which messages the packets on  *)
(* their way to the transport hold (Chained), and what the limiter let     *)
(* through beyond what was earned (Paced).  The reader's position is that  *)
(* of a message in the layout, so recv_next never reads from the middle of *)
(* one.                                                                    *)
(***************************************************************************)
EXTENDS UnreliableChannel, SequenceTheorems, TLAPS

Packets == [bytes : Seq(Nat), ids : Seq(Nat)]

\* The sides of a channel that sends.
Sides == [out : Packets, slot : Seq(Packets), queue : Seq(Packets), credit : Int, earned : Nat,
          delay : Seq(Nat), backlog : Nat, ready : BOOLEAN]

(***************************************************************************)
(* at[i] is where the i-th message of the packet begins, and at its end    *)
(* stands the end of the packet.                                           *)
(***************************************************************************)
Layout(packet, at, ls) ==
  /\ at \in [1..(Len(packet.ids) + 1) -> Nat]
  /\ at[1] = 0 /\ at[Len(packet.ids) + 1] = Len(packet.bytes)
  /\ \A i \in 1..Len(packet.ids) :
       /\ packet.ids[i] \in 1..Len(ls)
       /\ at[i + 1] = at[i] + 2 + ls[packet.ids[i]] /\ at[i + 1] <= Len(packet.bytes)
       /\ ReadU16(packet.bytes, at[i]) = ls[packet.ids[i]]
       /\ \A k \in 1..ls[packet.ids[i]] : packet.bytes[at[i] + 2 + k] = packet.ids[i]

\* The packet holds the messages of its ids, whose lengths are in ls, and fits the pool.
Framed(packet, ls) ==
  /\ packet \in Packets /\ Len(packet.bytes) <= PacketCapacity
  /\ \E at : Layout(packet, at, ls)

Whole(packet, ls) == Framed(packet, ls) /\ packet.ids # <<>>

\* The last message in front of packet i of the line, when k were taken.
LastBefore(line, k, i) == IF i = 1 THEN k ELSE line[i - 1].ids[Len(line[i - 1].ids)]

\* The packets in the line and the one being filled hold the messages from k + 1 to n.
Chained(line, out, k, n) ==
  /\ \A i \in 1..Len(line) : \A j \in 1..Len(line[i].ids) : line[i].ids[j] = LastBefore(line, k, i) + j
  /\ \A j \in 1..Len(out.ids) : out.ids[j] = LastBefore(line, k, Len(line) + 1) + j
  /\ n = LastBefore(line, k, Len(line) + 1) + Len(out.ids)

\* The packets on their way to the transport.
LineInv(line, out, k, ls) ==
  /\ line \in Seq(Packets)
  /\ \A i \in 1..Len(line) : Whole(line[i], ls)
  /\ Framed(out, ls)
  /\ Chained(line, out, k, Len(ls))

(***************************************************************************)
(* What was sent beyond what was earned.  While a delay runs, all that is  *)
(* earned will be credited; later, the burst limits it.                    *)
(***************************************************************************)
Paced(c) ==
  /\ c.credit + c.earned >= -PacketCapacity
  /\ c.delay = <<>> /\ c.backlog > 0 =>
       c.backlog + Lesser(c.credit + c.earned, Burst) <= Burst + PacketCapacity
  /\ c.delay # <<>> => /\ c.earned + c.delay[1] >= -c.credit
                       /\ c.backlog > 0 => c.backlog + c.credit + c.earned <= Burst + PacketCapacity

Bounded(c) == Len(c.slot) <= 1 /\ Len(c.queue) <= BufferSize /\ Len(c.delay) <= 1

\* The sending side, when k messages were taken, and ls are the lengths of those accepted.
SideInv(c, k, ls) ==
  /\ c \in Sides /\ Bounded(c) /\ Paced(c)
  /\ LineInv(c.queue \o c.slot, c.out, k, ls)

\* The packet being read: the messages before pos were got.
Reading(in, ls) ==
  /\ in = [packet |-> in.packet, pos |-> in.pos, got |-> in.got]
  /\ Framed(in.packet, ls)
  /\ in.got \in Seq(Seq(Nat)) /\ Len(in.got) <= Len(in.packet.ids)
  /\ \A i \in 1..Len(in.got) : in.got[i] = Body(in.packet.ids[i], ls[in.packet.ids[i]])
  /\ \E at : Layout(in.packet, at, ls) /\ in.pos = at[Len(in.got) + 1]

----------------------------------------------------------------------------
(* Packets. *)

\* The constants, as the lemmas use them.
LEMMA SizesType ==
  /\ PacketCapacity \in Nat /\ PacketCapacity >= 2 /\ ByteBase \in Nat /\ ByteBase >= 2
  /\ BufferSize \in Nat /\ BufferSize >= 1 /\ Burst \in Nat /\ MaxFaults \in Nat
BY UnreliableAssumption

\* A length in two bytes is read as it was written.
LEMMA LengthKept ==
  ASSUME NEW n \in Nat
  PROVE  /\ n % ByteBase \in Nat /\ n \div ByteBase \in Nat
         /\ (n % ByteBase) + ByteBase * (n \div ByteBase) = n
BY SizesType

\* The two bytes of a length give it back.
LEMMA WriteU16Type ==
  ASSUME NEW n \in Nat
  PROVE  /\ WriteU16(n) \in Seq(Nat) /\ Len(WriteU16(n)) = 2
         /\ WriteU16(n)[1] + ByteBase * WriteU16(n)[2] = n
BY LengthKept DEF WriteU16

\* Nothing is in an empty packet.
LEMMA NoPacketFramed ==
  ASSUME NEW ls
  PROVE  Framed(NoPacket, ls) /\ NoPacket \in Packets /\ Len(NoPacket.bytes) = 0 /\ NoPacket.ids = <<>>
<1>1. NoPacket \in Packets /\ NoPacket.bytes = <<>> /\ NoPacket.ids = <<>>
  BY DEF NoPacket, Packets
<1>2. Len(NoPacket.bytes) = 0 /\ Len(NoPacket.ids) = 0
  BY <1>1
<1>3. Layout(NoPacket, [i \in 1..1 |-> 0], ls)
  BY <1>2 DEF Layout
<1> QED
  BY <1>1, <1>2, <1>3, SizesType DEF Framed

\* A packet with no message is empty.
LEMMA EmptyPacket ==
  ASSUME NEW packet, NEW ls, Framed(packet, ls), packet.ids = <<>>
  PROVE  packet = NoPacket
<1>1. packet \in Packets
  BY DEF Framed
<1>2. PICK at : Layout(packet, at, ls)
  BY DEF Framed
<1>3. Len(packet.ids) = 0
  OBVIOUS
<1>4. Len(packet.bytes) = 0
  BY <1>2, <1>3 DEF Layout
<1>5. packet.bytes = <<>>
  BY <1>1, <1>4 DEF Packets
<1> QED
  BY <1>1, <1>5 DEF Packets, NoPacket

\* One with a message has at least the length of the message.
LEMMA WholePacket ==
  ASSUME NEW packet, NEW ls \in Seq(Nat), Whole(packet, ls)
  PROVE  Len(packet.bytes) \in 2..PacketCapacity
<1>1. packet \in Packets /\ Len(packet.bytes) <= PacketCapacity /\ packet.ids # <<>>
  BY DEF Whole, Framed
<1>2. PICK at : Layout(packet, at, ls)
  BY DEF Whole, Framed
<1>3. packet.bytes \in Seq(Nat) /\ packet.ids \in Seq(Nat)
  BY <1>1 DEF Packets
<1>4. Len(packet.ids) \in Nat /\ Len(packet.ids) >= 1 /\ Len(packet.bytes) \in Nat
  BY <1>1, <1>3
<1>5. PICK id : id = packet.ids[1]
  OBVIOUS
<1>6. /\ id \in 1..Len(ls) /\ at[1] = 0
      /\ at[1 + 1] = at[1] + 2 + ls[id] /\ at[1 + 1] <= Len(packet.bytes)
  BY <1>2, <1>4, <1>5 DEF Layout
<1>7. ls[id] \in Nat
  BY <1>6
<1> QED
  BY <1>1, <1>4, <1>6, <1>7, SizesType

\* Messages accepted later are in other packets.
LEMMA FramedLater ==
  ASSUME NEW packet, NEW ls \in Seq(Nat), Framed(packet, ls), NEW len \in Nat
  PROVE  Framed(packet, Append(ls, len))
<1>1. PICK at : Layout(packet, at, ls)
  BY DEF Framed
<1>2. PICK more : more = Append(ls, len)
  OBVIOUS
<1>3. Len(more) = Len(ls) + 1 /\ \A i \in 1..Len(ls) : more[i] = ls[i]
  BY <1>2
<1>4. \A i \in 1..Len(ls) : i \in 1..Len(more) /\ more[i] = ls[i]
  BY <1>3
<1>5. Layout(packet, at, more)
  BY <1>1, <1>4 DEF Layout
<1> QED
  BY <1>2, <1>5 DEF Framed

\* The m elements of a and the n elements of b.
Row(a, b, m, n, c) ==
  /\ Len(c) = m + n
  /\ \A k \in 1..(m + n) : c[k] = IF k <= m THEN a[k] ELSE b[k - m]

\* What a concatenation is made of, when the lengths are known.
LEMMA Joined ==
  ASSUME NEW S, NEW a \in Seq(S), NEW b \in Seq(S), NEW m \in Nat, NEW n \in Nat,
         m = Len(a), n = Len(b), NEW c, c = a \o b
  PROVE  c \in Seq(S) /\ Row(a, b, m, n, c)
BY DEF Row

\* Where the bytes of a new message are.
FrameBehind(bytes, id, len, end, after) ==
  /\ after \in Seq(Nat) /\ Len(after) = end + 2 + len
  /\ \A k \in 1..end : after[k] = bytes[k]
  /\ ReadU16(after, end) = len
  /\ \A k \in 1..len : after[end + 2 + k] = id

\* The bytes that a message adds to its packet.
LEMMA PutBytes ==
  ASSUME NEW bytes \in Seq(Nat), NEW id \in Nat, NEW len \in Nat, NEW end \in Nat, end = Len(bytes),
         NEW after, after = bytes \o WriteU16(len) \o Body(id, len)
  PROVE  FrameBehind(bytes, id, len, end, after)
<1>1. PICK head : head = WriteU16(len)
  OBVIOUS
<1>2. head \in Seq(Nat) /\ Len(head) = 2 /\ head[1] + ByteBase * head[2] = len
  BY <1>1, WriteU16Type
<1>3. PICK body : body = Body(id, len)
  OBVIOUS
<1>4. body \in [1..len -> Nat] /\ \A k \in 1..len : body[k] = id
  BY <1>3 DEF Body
<1>5. body \in Seq(Nat) /\ Len(body) = len
  BY <1>4
<1>6. PICK front : front = bytes \o head
  OBVIOUS
<1>7. /\ front \in Seq(Nat) /\ Len(front) = end + 2
      /\ \A k \in 1..(end + 2) : front[k] = IF k <= end THEN bytes[k] ELSE head[k - end]
  <2>1. PICK two \in Nat : two = 2
    OBVIOUS
  <2>2. head \in Seq(Nat) /\ two = Len(head)
    BY <1>2, <2>1
  <2>3. front \in Seq(Nat) /\ Row(bytes, head, end, two, front)
    BY <1>6, <2>2, Joined
  <2> QED
    BY <2>1, <2>3 DEF Row
<1>8. after = front \o body
  BY <1>1, <1>3, <1>6
<1>9. /\ after \in Seq(Nat) /\ Len(after) = end + 2 + len
      /\ \A k \in 1..(end + 2 + len) : after[k] = IF k <= end + 2 THEN front[k] ELSE body[k - (end + 2)]
  <2>1. PICK m \in Nat : m = end + 2
    OBVIOUS
  <2>2. front \in Seq(Nat) /\ body \in Seq(Nat) /\ m = Len(front) /\ len = Len(body)
    BY <1>5, <1>7, <2>1
  <2>3. after \in Seq(Nat) /\ Row(front, body, m, len, after)
    BY <1>8, <2>2, Joined
  <2> QED
    BY <2>1, <2>3 DEF Row
<1>10. ASSUME NEW k \in 1..end PROVE after[k] = bytes[k]
  <2>1. k \in 1..(end + 2 + len) /\ k \in 1..(end + 2) /\ k <= end + 2 /\ k <= end
    OBVIOUS
  <2> QED
    BY <1>7, <1>9, <2>1
<1>11. ReadU16(after, end) = len
  <2>1. /\ end + 1 \in 1..(end + 2 + len) /\ end + 1 \in 1..(end + 2) /\ end + 1 <= end + 2
        /\ ~(end + 1 <= end) /\ (end + 1) - end = 1
    OBVIOUS
  <2>2. /\ end + 2 \in 1..(end + 2 + len) /\ end + 2 \in 1..(end + 2) /\ end + 2 <= end + 2
        /\ ~(end + 2 <= end) /\ (end + 2) - end = 2
    OBVIOUS
  <2>3. after[end + 1] = head[1]
    BY <1>7, <1>9, <2>1
  <2>4. after[end + 2] = head[2]
    BY <1>7, <1>9, <2>2
  <2> QED
    BY <1>2, <2>3, <2>4 DEF ReadU16
<1>12. ASSUME NEW k \in 1..len PROVE after[end + 2 + k] = id
  <2>1. /\ end + 2 + k \in 1..(end + 2 + len) /\ ~(end + 2 + k <= end + 2)
        /\ (end + 2 + k) - (end + 2) = k
    OBVIOUS
  <2>2. after[end + 2 + k] = body[k]
    BY <1>9, <2>1
  <2> QED
    BY <1>4, <2>2
<1> QED
  BY <1>9, <1>10, <1>11, <1>12 DEF FrameBehind

\* The message accepted next is put behind the others.
LEMMA PutFramed ==
  ASSUME NEW packet, NEW ls \in Seq(Nat), Framed(packet, ls), NEW id \in Nat, id = Len(ls) + 1,
         NEW len \in Nat, Len(packet.bytes) + 2 + len <= PacketCapacity,
         NEW after, after = Put(packet, id, len)
  PROVE  /\ Framed(after, Append(ls, len))
         /\ after.ids = Append(packet.ids, id)
<1>1. packet.bytes \in Seq(Nat) /\ packet.ids \in Seq(Nat)
  BY DEF Framed, Packets
<1>2. PICK at : Layout(packet, at, ls)
  BY DEF Framed
<1>3. PICK m \in Nat, end \in Nat : m = Len(packet.ids) /\ end = Len(packet.bytes)
  BY <1>1
<1>4. PICK bytes, ids : /\ bytes = packet.bytes \o WriteU16(len) \o Body(id, len)
                        /\ ids = Append(packet.ids, id)
  OBVIOUS
<1>5. after = [bytes |-> bytes, ids |-> ids]
  BY <1>4 DEF Put
<1>6. /\ bytes \in Seq(Nat) /\ Len(bytes) = end + 2 + len
      /\ \A k \in 1..end : bytes[k] = packet.bytes[k]
      /\ ReadU16(bytes, end) = len
      /\ \A k \in 1..len : bytes[end + 2 + k] = id
  <2>1. PICK old \in Seq(Nat) : old = packet.bytes /\ end = Len(old)
    BY <1>1, <1>3
  <2>2. bytes = old \o WriteU16(len) \o Body(id, len)
    BY <1>4, <2>1
  <2>3. FrameBehind(old, id, len, end, bytes)
    BY <2>1, <2>2, PutBytes
  <2> QED
    BY <2>1, <2>3 DEF FrameBehind
<1>7. /\ ids \in Seq(Nat) /\ Len(ids) = m + 1 /\ ids[m + 1] = id
      /\ \A i \in 1..m : ids[i] = packet.ids[i]
  BY <1>1, <1>3, <1>4
<1>8. PICK more : more = Append(ls, len)
  OBVIOUS
<1>9. /\ more \in Seq(Nat) /\ Len(more) = id /\ more[id] = len
      /\ \A i \in 1..Len(ls) : i \in 1..id /\ more[i] = ls[i]
  BY <1>8
<1>10. PICK to : to = [i \in 1..(m + 2) |-> IF i <= m + 1 THEN at[i] ELSE end + 2 + len]
  OBVIOUS
<1>11. /\ at \in [1..(m + 1) -> Nat] /\ at[1] = 0 /\ at[m + 1] = end
       /\ \A i \in 1..m :
            /\ packet.ids[i] \in 1..Len(ls)
            /\ at[i + 1] = at[i] + 2 + ls[packet.ids[i]] /\ at[i + 1] <= end
            /\ ReadU16(packet.bytes, at[i]) = ls[packet.ids[i]]
            /\ \A k \in 1..ls[packet.ids[i]] : packet.bytes[at[i] + 2 + k] = packet.ids[i]
  BY <1>2, <1>3 DEF Layout
<1>12. to \in [1..((m + 1) + 1) -> Nat] /\ to[1] = 0 /\ to[(m + 1) + 1] = end + 2 + len
  BY <1>10, <1>11, SMTT(30)
<1>13. /\ \A i \in 1..m : to[i] = at[i] /\ to[i + 1] = at[i + 1]
       /\ to[m + 1] = end
  BY <1>10, <1>11
<1>14. ASSUME NEW i \in 1..(m + 1)
       PROVE  /\ ids[i] \in 1..id
              /\ to[i + 1] = to[i] + 2 + more[ids[i]] /\ to[i + 1] <= end + 2 + len
              /\ ReadU16(bytes, to[i]) = more[ids[i]]
              /\ \A k \in 1..more[ids[i]] : bytes[to[i] + 2 + k] = ids[i]
  <2>1. CASE i = m + 1
    <3>1. ids[i] = id /\ more[id] = len /\ to[i] = end /\ to[i + 1] = end + 2 + len
      BY <1>7, <1>9, <1>12, <1>13, <2>1
    <3>2. id \in 1..id /\ end + 2 + len <= end + 2 + len
      OBVIOUS
    <3> QED
      BY <1>6, <3>1, <3>2, Zenon
  <2>2. CASE i # m + 1
    <3>1. i \in 1..m
      BY <2>2
    <3>2. PICK j \in 1..Len(ls), l \in Nat, a \in Nat :
            j = packet.ids[i] /\ l = ls[j] /\ a = at[i]
      <4>1. packet.ids[i] \in 1..Len(ls)
        BY <1>11, <3>1
      <4>2. \A x \in 1..Len(ls) : ls[x] \in Nat
        OBVIOUS
      <4>3. i \in 1..(m + 1)
        OBVIOUS
      <4>4. ls[packet.ids[i]] \in Nat /\ at[i] \in Nat
        BY <1>11, <4>1, <4>2, <4>3
      <4> QED
        BY <4>1, <4>4
    <3>3. ids[i] = j /\ more[j] = l /\ j \in 1..id
      BY <1>7, <1>9, <3>1, <3>2
    <3>4. to[i] = a /\ to[i + 1] = a + 2 + l /\ a + 2 + l <= end
      BY <1>11, <1>13, <3>1, <3>2
    <3>5. a + 2 + l <= end + 2 + len
      BY <3>4
    <3>6. ReadU16(bytes, a) = l
      <4>1. a + 1 \in 1..end /\ a + 2 \in 1..end
        BY <3>4
      <4>2. bytes[a + 1] = packet.bytes[a + 1] /\ bytes[a + 2] = packet.bytes[a + 2]
        BY <1>6, <4>1
      <4>3. ReadU16(packet.bytes, a) = l
        BY <1>11, <3>1, <3>2
      <4> QED
        BY <4>2, <4>3 DEF ReadU16
    <3>7. ASSUME NEW k \in 1..l PROVE bytes[a + 2 + k] = j
      <4>1. a + 2 + k \in 1..end
        BY <3>4
      <4>2. packet.bytes[a + 2 + k] = j
        BY <1>11, <3>1, <3>2
      <4> QED
        BY <1>6, <4>1, <4>2
    <3> QED
      BY <3>3, <3>4, <3>5, <3>6, <3>7
  <2> QED
    BY <2>1, <2>2
<1>15. after.bytes = bytes /\ after.ids = ids
  BY <1>5
<1>16. Layout(after, to, more)
  BY <1>6, <1>7, <1>9, <1>12, <1>14, <1>15, ZenonT(30) DEF Layout
<1>17. after \in Packets /\ Len(after.bytes) <= PacketCapacity
  <2>1. end + 2 + len <= PacketCapacity
    BY <1>3
  <2> QED
    BY <1>5, <1>6, <1>7, <1>15, <2>1 DEF Packets
<1> QED
  BY <1>4, <1>8, <1>15, <1>16, <1>17 DEF Framed

----------------------------------------------------------------------------
(* Reading a packet. *)

\* All l bytes behind s are id.
Filled(bytes, s, l, id) == \A k \in 1..l : bytes[s + k] = id

\* The bytes of a message between its bounds.
LEMMA BodyRead ==
  ASSUME NEW bytes \in Seq(Nat), NEW s \in Nat, NEW l \in Nat, s + l <= Len(bytes), NEW id \in Nat,
         Filled(bytes, s, l, id), NEW part, part = SubSeq(bytes, s + 1, s + l)
  PROVE  part \in Seq(Nat) /\ part = Body(id, l)
<1>1. PICK body : body = Body(id, l)
  OBVIOUS
<1>2. body \in [1..l -> Nat] /\ \A k \in 1..l : body[k] = id
  BY <1>1 DEF Body
<1>3. body \in Seq(Nat) /\ Len(body) = l
  BY <1>2
<1>4. /\ part \in Seq(Nat) /\ Len(part) = l
      /\ \A k \in 1..l : part[k] = bytes[s + k]
  <2>1. PICK from \in Nat, to \in Nat : from = s + 1 /\ to = s + l /\ to <= Len(bytes)
    OBVIOUS
  <2>2. part = SubSeq(bytes, from, to)
    BY <2>1
  <2>3. \A k \in from..to : k \in 1..Len(bytes)
    BY <2>1
  <2>4. \A k \in from..to : bytes[k] \in Nat
    BY <2>3
  <2>5. part \in Seq(Nat)
    BY <2>2, <2>4, SubSeqProperties, SMTT(30)
  <2>6. (IF from <= to THEN to - from + 1 ELSE 0) = l
    BY <2>1
  <2>7. Len(part) = l
    BY <2>2, <2>6, SubSeqProperties
  <2>8. ASSUME NEW k \in 1..l PROVE part[k] = bytes[s + k]
    <3>1. k \in 1..(to - from + 1) /\ from + k - 1 = s + k
      BY <2>1
    <3>2. part[k] = bytes[from + k - 1]
      BY <2>2, <3>1, SubSeqProperties
    <3> QED
      BY <3>1, <3>2
  <2> QED
    BY <2>5, <2>7, <2>8
<1>5. part = body
  <2>1. Len(part) = Len(body)
    BY <1>3, <1>4
  <2>2. \A k \in 1..Len(part) : part[k] = body[k]
    BY <1>2, <1>4 DEF Filled
  <2> QED
    BY <1>3, <1>4, <2>1, <2>2, SeqEqual
<1> QED
  BY <1>1, <1>4, <1>5

\* The message with number id and length l is the j-th of the packet, and begins at a.
Frame(packet, at, ls, j, id, l, a) ==
  /\ id = packet.ids[j] /\ id \in 1..Len(ls) /\ l = ls[id] /\ a = at[j]
  /\ at[j + 1] = a + 2 + l /\ a + 2 + l <= Len(packet.bytes)
  /\ ReadU16(packet.bytes, a) = l
  /\ \A k \in 1..l : packet.bytes[a + 2 + k] = id

\* What Layout says of one message.
LEMMA MessageAt ==
  ASSUME NEW packet \in Packets, NEW at, NEW ls \in Seq(Nat), Layout(packet, at, ls),
         NEW j \in 1..Len(packet.ids)
  PROVE  \E id \in Nat, l \in Nat, a \in Nat : Frame(packet, at, ls, j, id, l, a)
<1>1. packet.bytes \in Seq(Nat) /\ packet.ids \in Seq(Nat)
  BY DEF Packets
<1>2. PICK id \in Nat : id = packet.ids[j]
  BY <1>1
<1>3. /\ id \in 1..Len(ls)
      /\ at[j + 1] = at[j] + 2 + ls[id] /\ at[j + 1] <= Len(packet.bytes)
      /\ ReadU16(packet.bytes, at[j]) = ls[id]
      /\ \A k \in 1..ls[id] : packet.bytes[at[j] + 2 + k] = id
  BY <1>2 DEF Layout
<1>4. PICK l \in Nat : l = ls[id]
  BY <1>3
<1>5. at \in [1..(Len(packet.ids) + 1) -> Nat]
  BY DEF Layout
<1>6. j \in 1..(Len(packet.ids) + 1)
  BY <1>1
<1>7. PICK a \in Nat : a = at[j]
  BY <1>5, <1>6
<1>8. Frame(packet, at, ls, j, id, l, a)
  BY <1>2, <1>3, <1>4, <1>7 DEF Frame
<1> QED
  BY <1>8

\* The receiver starts with a packet.
LEMMA StartReading ==
  ASSUME NEW packet, NEW ls \in Seq(Nat), Whole(packet, ls),
         NEW in, in = [packet |-> packet, pos |-> 0, got |-> <<>>]
  PROVE  Reading(in, ls) /\ in.pos # Len(in.packet.bytes)
<1>1. Framed(packet, ls) /\ packet \in Packets
  BY DEF Whole, Framed
<1>2. PICK at : Layout(packet, at, ls)
  BY <1>1 DEF Framed
<1>3. /\ in.packet = packet /\ in.pos = 0 /\ in.got = <<>>
      /\ in = [packet |-> in.packet, pos |-> in.pos, got |-> in.got]
  OBVIOUS
<1>4. in.got \in Seq(Seq(Nat)) /\ Len(in.got) = 0
  BY <1>3
<1>5. Len(in.got) <= Len(packet.ids)
  BY <1>1, <1>4 DEF Packets
<1>6. in.pos = at[Len(in.got) + 1]
  BY <1>2, <1>3, <1>4 DEF Layout
<1>7. Len(packet.bytes) \in 2..PacketCapacity
  BY WholePacket
<1>8. in.pos # Len(in.packet.bytes)
  BY <1>3, <1>7, SizesType
<1> QED
  BY <1>1, <1>2, <1>3, <1>4, <1>5, <1>6, <1>8 DEF Reading

\* At the end of the packet every message was got.
LEMMA ReadToEnd ==
  ASSUME NEW in, NEW ls \in Seq(Nat), Reading(in, ls), in.pos = Len(in.packet.bytes)
  PROVE  Len(in.got) = Len(in.packet.ids)
<1>1. in.packet \in Packets /\ in.got \in Seq(Seq(Nat)) /\ Len(in.got) <= Len(in.packet.ids)
  BY DEF Reading, Framed
<1>2. PICK at : Layout(in.packet, at, ls) /\ in.pos = at[Len(in.got) + 1]
  BY DEF Reading
<1>3. PICK g \in Nat, m \in Nat, end \in Nat :
        g = Len(in.got) /\ m = Len(in.packet.ids) /\ end = Len(in.packet.bytes) /\ g <= m
  BY <1>1 DEF Packets
<1>4. ASSUME g < m PROVE FALSE
  <2>1. g + 1 \in 1..Len(in.packet.ids)
    BY <1>3, <1>4
  <2>2. PICK id \in Nat, l \in Nat, a \in Nat : Frame(in.packet, at, ls, g + 1, id, l, a)
    BY <1>1, <1>2, <2>1, MessageAt
  <2>3. a = end /\ a + 2 + l <= end
    BY <1>2, <1>3, <2>2 DEF Frame
  <2> QED
    BY <2>3
<1> QED
  BY <1>3, <1>4

\* recv_next takes the next message, and never finds BadFormat.
LEMMA RecvNextReads ==
  ASSUME NEW in, NEW ls \in Seq(Nat), Reading(in, ls), in.pos # Len(in.packet.bytes),
         NEW after, after = recv_next(in)
  PROVE  Reading(after, ls)
<1>1. /\ in = [packet |-> in.packet, pos |-> in.pos, got |-> in.got]
      /\ Framed(in.packet, ls) /\ in.packet \in Packets
      /\ in.got \in Seq(Seq(Nat)) /\ Len(in.got) <= Len(in.packet.ids)
      /\ \A i \in 1..Len(in.got) : in.got[i] = Body(in.packet.ids[i], ls[in.packet.ids[i]])
  BY DEF Reading, Framed
<1>2. PICK at : Layout(in.packet, at, ls) /\ in.pos = at[Len(in.got) + 1]
  BY DEF Reading
<1>3. PICK bytes \in Seq(Nat), ids \in Seq(Nat) : bytes = in.packet.bytes /\ ids = in.packet.ids
  BY <1>1 DEF Packets
<1>4. PICK g \in Nat, m \in Nat, end \in Nat :
        g = Len(in.got) /\ m = Len(ids) /\ end = Len(bytes) /\ g <= m
  <2>1. PICK got \in Seq(Seq(Nat)) : got = in.got /\ Len(got) <= Len(ids)
    BY <1>1, <1>3
  <2> QED
    BY <2>1
<1>5. g < m
  <2>1. ASSUME g = m PROVE FALSE
    <3>1. at[m + 1] = end
      BY <1>2, <1>3, <1>4 DEF Layout
    <3> QED
      BY <1>2, <1>3, <1>4, <2>1, <3>1
  <2> QED
    BY <1>4, <2>1
<1>6. PICK id \in Nat, l \in Nat, a \in Nat :
        /\ id = ids[g + 1] /\ id \in 1..Len(ls) /\ l = ls[id] /\ a = at[g + 1]
        /\ at[(g + 1) + 1] = a + 2 + l /\ a + 2 + l <= end
        /\ ReadU16(bytes, a) = l
        /\ \A k \in 1..l : bytes[a + 2 + k] = id
  <2>1. PICK j \in Nat : j = g + 1
    OBVIOUS
  <2>2. j \in 1..Len(in.packet.ids)
    BY <1>3, <1>4, <1>5, <2>1
  <2>3. PICK id \in Nat, l \in Nat, a \in Nat : Frame(in.packet, at, ls, j, id, l, a)
    BY <1>1, <1>2, <2>2, MessageAt
  <2>4. /\ id = ids[g + 1] /\ id \in 1..Len(ls) /\ l = ls[id] /\ a = at[g + 1]
        /\ at[(g + 1) + 1] = a + 2 + l /\ a + 2 + l <= end
        /\ ReadU16(bytes, a) = l
        /\ \A k \in 1..l : bytes[a + 2 + k] = id
    BY <1>3, <1>4, <2>1, <2>3 DEF Frame
  <2> QED
    BY <2>4, ZenonT(60)
<1>7. in.pos = a
  BY <1>2, <1>4, <1>6
<1>8. PICK s \in Nat : s = a + 2 /\ s + l <= end /\ ~(s > end) /\ ~(s + l > end)
  <2>1. a + 2 + l <= end
    BY <1>6
  <2> QED
    BY <2>1
<1>9. PICK part : part = SubSeq(bytes, s + 1, s + l)
  OBVIOUS
<1>10. after = [in EXCEPT !.pos = s + l, !.got = Append(@, part)]
  BY <1>3, <1>4, <1>6, <1>7, <1>8, <1>9, ZenonT(30) DEF recv_next
<1>11. PICK got : got = Append(in.got, part)
  OBVIOUS
<1>12. after = [packet |-> in.packet, pos |-> s + l, got |-> got]
  BY <1>1, <1>10, <1>11
<1>13. after.packet = in.packet /\ after.pos = s + l /\ after.got = got
  BY <1>12
<1>14. part \in Seq(Nat) /\ part = Body(id, l)
  <2>1. Filled(bytes, s, l, id)
    BY <1>6, <1>8 DEF Filled
  <2>2. s + l <= Len(bytes)
    BY <1>4, <1>8
  <2> QED
    BY <1>9, <2>1, <2>2, BodyRead, ZenonT(60)
<1>15. /\ got \in Seq(Seq(Nat)) /\ Len(got) = g + 1 /\ got[g + 1] = part
       /\ \A i \in 1..g : got[i] = in.got[i]
  BY <1>1, <1>4, <1>11, <1>14
<1>16. ASSUME NEW i \in 1..(g + 1) PROVE got[i] = Body(ids[i], ls[ids[i]])
  <2>1. CASE i = g + 1
    BY <1>6, <1>14, <1>15, <2>1
  <2>2. CASE i # g + 1
    <3>1. i \in 1..g
      BY <2>2
    <3>2. in.got[i] = Body(ids[i], ls[ids[i]])
      BY <1>1, <1>3, <1>4, <3>1
    <3> QED
      BY <1>15, <3>1, <3>2
  <2> QED
    BY <2>1, <2>2
<1>17. after.pos = at[Len(got) + 1]
  BY <1>6, <1>8, <1>13, <1>15
<1>18. g + 1 <= m
  BY <1>5
<1>19. \A i \in 1..Len(after.got) :
         after.got[i] = Body(after.packet.ids[i], ls[after.packet.ids[i]])
  BY <1>3, <1>13, <1>15, <1>16
<1>20. Len(after.got) <= Len(after.packet.ids)
  BY <1>3, <1>4, <1>13, <1>15, <1>18
<1> QED
  BY <1>1, <1>2, <1>12, <1>13, <1>15, <1>17, <1>19, <1>20 DEF Reading

\* Messages accepted later do not matter to it.
LEMMA ReadingLater ==
  ASSUME NEW in, NEW ls \in Seq(Nat), Reading(in, ls), NEW len \in Nat
  PROVE  Reading(in, Append(ls, len))
<1>1. /\ in = [packet |-> in.packet, pos |-> in.pos, got |-> in.got]
      /\ Framed(in.packet, ls) /\ in.packet \in Packets
      /\ in.got \in Seq(Seq(Nat)) /\ Len(in.got) <= Len(in.packet.ids)
      /\ \A i \in 1..Len(in.got) : in.got[i] = Body(in.packet.ids[i], ls[in.packet.ids[i]])
  BY DEF Reading, Framed
<1>2. PICK at : Layout(in.packet, at, ls) /\ in.pos = at[Len(in.got) + 1]
  BY DEF Reading
<1>3. PICK more : more = Append(ls, len)
  OBVIOUS
<1>4. \A i \in 1..Len(ls) : i \in 1..Len(more) /\ more[i] = ls[i]
  BY <1>3
<1>5. Layout(in.packet, at, more)
  BY <1>2, <1>4 DEF Layout
<1>6. Framed(in.packet, more)
  BY <1>1, <1>3, FramedLater
<1>7. ASSUME NEW i \in 1..Len(in.got) PROVE in.got[i] = Body(in.packet.ids[i], more[in.packet.ids[i]])
  <2>1. i \in 1..Len(in.packet.ids)
    BY <1>1 DEF Packets
  <2>2. in.packet.ids[i] \in 1..Len(ls)
    BY <1>2, <2>1 DEF Layout
  <2> QED
    BY <1>1, <1>4, <2>2
<1> QED
  BY <1>1, <1>2, <1>3, <1>5, <1>6, <1>7 DEF Reading

----------------------------------------------------------------------------
(* The packets on their way to the transport. *)

\* The last message of a packet is a number.
LEMMA LastType ==
  ASSUME NEW line \in Seq(Packets), NEW ls, \A i \in 1..Len(line) : Whole(line[i], ls),
         NEW k \in Nat, NEW i \in 1..(Len(line) + 1)
  PROVE  LastBefore(line, k, i) \in Nat
<1>1. CASE i = 1
  BY <1>1 DEF LastBefore
<1>2. CASE i # 1
  <2>1. i - 1 \in 1..Len(line)
    BY <1>2
  <2>2. PICK packet : packet = line[i - 1]
    OBVIOUS
  <2>3. packet \in Packets /\ packet.ids # <<>>
    BY <2>1, <2>2 DEF Whole, Framed
  <2>4. PICK ids \in Seq(Nat) : ids = packet.ids /\ ids # <<>>
    BY <2>3 DEF Packets
  <2>5. Len(ids) \in 1..Len(ids)
    BY <2>4
  <2>6. ids[Len(ids)] \in Nat
    BY <2>5
  <2> QED
    BY <1>2, <2>2, <2>4, <2>6 DEF LastBefore
<1> QED
  BY <1>1, <1>2

\* The packet being filled goes to the end of the line.
LEMMA LineSend ==
  ASSUME NEW line, NEW out, NEW k \in Nat, NEW ls \in Seq(Nat), LineInv(line, out, k, ls),
         out.ids # <<>>, NEW line1, line1 = Append(line, out)
  PROVE  LineInv(line1, NoPacket, k, ls)
<1>1. /\ line \in Seq(Packets) /\ \A i \in 1..Len(line) : Whole(line[i], ls)
      /\ Framed(out, ls) /\ out \in Packets
  BY DEF LineInv, Framed
<1>2. PICK m \in Nat : m = Len(line)
  BY <1>1
<1>3. /\ line1 \in Seq(Packets) /\ Len(line1) = m + 1 /\ line1[m + 1] = out
      /\ \A i \in 1..m : line1[i] = line[i]
  BY <1>1, <1>2
<1>4. ASSUME NEW i \in 1..(m + 1) PROVE Whole(line1[i], ls)
  <2>1. CASE i = m + 1
    BY <1>1, <1>3, <2>1 DEF Whole
  <2>2. CASE i # m + 1
    <3>1. i \in 1..m
      BY <2>2
    <3> QED
      BY <1>1, <1>2, <1>3, <3>1
  <2> QED
    BY <2>1, <2>2
<1>5. ASSUME NEW i \in 1..(m + 1) PROVE LastBefore(line1, k, i) = LastBefore(line, k, i)
  <2>1. CASE i = 1
    BY <2>1 DEF LastBefore
  <2>2. CASE i # 1
    <3>1. i - 1 \in 1..m
      BY <2>2
    <3>2. line1[i - 1] = line[i - 1]
      BY <1>3, <3>1
    <3> QED
      BY <2>2, <3>2 DEF LastBefore
  <2> QED
    BY <2>1, <2>2
<1>6. PICK ids \in Seq(Nat) : ids = out.ids /\ ids # <<>>
  BY <1>1 DEF Packets
<1>7. Len(ids) \in 1..Len(ids)
  BY <1>6
<1>8. /\ \A i \in 1..m : \A j \in 1..Len(line[i].ids) : line[i].ids[j] = LastBefore(line, k, i) + j
      /\ \A j \in 1..Len(ids) : ids[j] = LastBefore(line, k, m + 1) + j
      /\ Len(ls) = LastBefore(line, k, m + 1) + Len(ids)
  BY <1>2, <1>6 DEF LineInv, Chained
<1>9. LastBefore(line1, k, (m + 1) + 1) = Len(ls)
  <2>1. (m + 1) + 1 # 1 /\ ((m + 1) + 1) - 1 = m + 1
    OBVIOUS
  <2>2. LastBefore(line1, k, (m + 1) + 1) = ids[Len(ids)]
    BY <1>3, <1>6, <2>1 DEF LastBefore
  <2>3. ids[Len(ids)] = LastBefore(line, k, m + 1) + Len(ids)
    BY <1>7, <1>8
  <2> QED
    BY <1>8, <2>2, <2>3
<1>10. ASSUME NEW i \in 1..(m + 1), NEW j \in 1..Len(line1[i].ids)
       PROVE  line1[i].ids[j] = LastBefore(line1, k, i) + j
  <2>1. LastBefore(line1, k, i) = LastBefore(line, k, i)
    BY <1>5
  <2>2. CASE i = m + 1
    BY <1>3, <1>6, <1>8, <2>1, <2>2
  <2>3. CASE i # m + 1
    <3>1. i \in 1..m
      BY <2>3
    <3> QED
      BY <1>3, <1>8, <2>1, <3>1
  <2> QED
    BY <2>2, <2>3
<1>11. Framed(NoPacket, ls) /\ NoPacket.ids = <<>>
  BY NoPacketFramed
<1>12. Len(NoPacket.ids) = 0
  BY <1>11
<1>13. Chained(line1, NoPacket, k, Len(ls))
  <2>1. \A j \in 1..Len(NoPacket.ids) : NoPacket.ids[j] = LastBefore(line1, k, Len(line1) + 1) + j
    BY <1>12
  <2>2. Len(ls) = Len(ls) + 0
    OBVIOUS
  <2>3. Len(line1) = m + 1
    BY <1>3
  <2>4. Len(ls) = LastBefore(line1, k, Len(line1) + 1) + Len(NoPacket.ids)
    BY <1>9, <1>12, <2>2, <2>3, Zenon
  <2>5. \A i \in 1..Len(line1) : \A j \in 1..Len(line1[i].ids) :
          line1[i].ids[j] = LastBefore(line1, k, i) + j
    BY <1>10, <2>3, Zenon
  <2> QED
    BY <2>1, <2>4, <2>5, Zenon DEF Chained
<1> QED
  BY <1>3, <1>4, <1>11, <1>13 DEF LineInv

\* The next message goes into the packet being filled.
LEMMA LinePut ==
  ASSUME NEW line, NEW out, NEW k \in Nat, NEW ls \in Seq(Nat), LineInv(line, out, k, ls),
         NEW len \in Nat, Len(out.bytes) + 2 + len <= PacketCapacity,
         NEW out1, out1 = Put(out, Len(ls) + 1, len)
  PROVE  LineInv(line, out1, k, Append(ls, len))
<1>1. /\ line \in Seq(Packets) /\ \A i \in 1..Len(line) : Whole(line[i], ls)
      /\ Framed(out, ls) /\ out \in Packets
  BY DEF LineInv, Framed
<1>2. PICK id \in Nat : id = Len(ls) + 1
  OBVIOUS
<1>3. Framed(out1, Append(ls, len)) /\ out1.ids = Append(out.ids, id)
  BY <1>1, <1>2, PutFramed
<1>4. \A i \in 1..Len(line) : Whole(line[i], Append(ls, len))
  BY <1>1, FramedLater DEF Whole
<1>5. PICK L \in Nat : L = LastBefore(line, k, Len(line) + 1)
  <2>1. Len(line) + 1 \in 1..(Len(line) + 1)
    BY <1>1
  <2> QED
    BY <1>1, <2>1, LastType
<1>6. PICK ids \in Seq(Nat) : ids = out.ids
  BY <1>1 DEF Packets
<1>7. PICK m \in Nat : m = Len(ids)
  BY <1>6
<1>8. (\A j \in 1..m : ids[j] = L + j) /\ Len(ls) = L + m
  BY <1>5, <1>6, <1>7 DEF LineInv, Chained
<1>9. PICK ids1 : ids1 = Append(ids, id)
  OBVIOUS
<1>10. Len(ids1) = m + 1 /\ ids1[m + 1] = id /\ \A j \in 1..m : ids1[j] = ids[j]
  BY <1>6, <1>7, <1>9
<1>11. id = L + (m + 1) /\ Len(Append(ls, len)) = L + (m + 1)
  BY <1>2, <1>8
<1>12. ASSUME NEW j \in 1..(m + 1) PROVE ids1[j] = L + j
  <2>1. CASE j = m + 1
    BY <1>10, <1>11, <2>1
  <2>2. CASE j # m + 1
    <3>1. j \in 1..m
      BY <2>2
    <3> QED
      BY <1>8, <1>10, <3>1
  <2> QED
    BY <2>1, <2>2
<1>13. out1.ids = ids1
  BY <1>3, <1>6, <1>9
<1>14. \A i \in 1..Len(line) :
         \A j \in 1..Len(line[i].ids) : line[i].ids[j] = LastBefore(line, k, i) + j
  BY DEF LineInv, Chained
<1>15. Chained(line, out1, k, Len(Append(ls, len)))
  BY <1>5, <1>10, <1>11, <1>12, <1>13, <1>14, SMTT(30) DEF Chained
<1> QED
  BY <1>1, <1>3, <1>4, <1>15 DEF LineInv

\* The transport takes the first packet.
LEMMA LineTake ==
  ASSUME NEW line, NEW out, NEW k \in Nat, NEW ls \in Seq(Nat), LineInv(line, out, k, ls),
         Len(line) > 0, NEW line1, line1 = Tail(line), NEW k1, k1 = k + Len(line[1].ids)
  PROVE  LineInv(line1, out, k1, ls) /\ k1 \in Nat /\ Whole(line[1], ls)
<1>1. /\ line \in Seq(Packets) /\ \A i \in 1..Len(line) : Whole(line[i], ls)
      /\ Framed(out, ls)
  BY DEF LineInv
<1>2. PICK m \in Nat : Len(line) = m + 1
  <2>1. Len(line) \in Nat /\ Len(line) - 1 \in Nat /\ Len(line) = (Len(line) - 1) + 1
    BY <1>1
  <2> QED
    BY <2>1
<1>3. /\ line1 \in Seq(Packets) /\ Len(line1) = m
      /\ \A i \in 1..m : line1[i] = line[i + 1]
  BY <1>1, <1>2
<1>4. Whole(line[1], ls) /\ 1 \in 1..(m + 1)
  BY <1>1, <1>2
<1>5. PICK ids \in Seq(Nat) : ids = line[1].ids /\ ids # <<>>
  BY <1>4 DEF Whole, Framed, Packets
<1>6. Len(ids) \in Nat /\ Len(ids) \in 1..Len(ids)
  BY <1>5
<1>7. \A i \in 1..(m + 1) :
         \A j \in 1..Len(line[i].ids) : line[i].ids[j] = LastBefore(line, k, i) + j
  BY <1>2 DEF LineInv, Chained
<1>8. k1 \in Nat /\ k1 = ids[Len(ids)]
  <2>1. LastBefore(line, k, 1) = k
    BY DEF LastBefore
  <2>2. ids[Len(ids)] = k + Len(ids)
    BY <1>4, <1>5, <1>6, <1>7, <2>1
  <2> QED
    BY <1>5, <1>6, <2>2, SMTT(30)
<1>9. ASSUME NEW i \in 1..(m + 1) PROVE LastBefore(line1, k1, i) = LastBefore(line, k, i + 1)
  <2>1. i + 1 # 1 /\ (i + 1) - 1 = i
    OBVIOUS
  <2>2. LastBefore(line, k, i + 1) = line[i].ids[Len(line[i].ids)]
    BY <2>1 DEF LastBefore
  <2>3. CASE i = 1
    BY <1>5, <1>8, <2>2, <2>3 DEF LastBefore
  <2>4. CASE i # 1
    <3>1. i - 1 \in 1..m /\ (i - 1) + 1 = i
      BY <2>4
    <3>2. line1[i - 1] = line[i]
      BY <1>3, <3>1
    <3> QED
      BY <2>2, <2>4, <3>2 DEF LastBefore
  <2> QED
    BY <2>3, <2>4
<1>10. \A i \in 1..m : Whole(line1[i], ls)
  <2>1. \A i \in 1..m : i + 1 \in 1..(m + 1)
    OBVIOUS
  <2> QED
    BY <1>1, <1>2, <1>3, <2>1
<1>11. ASSUME NEW i \in 1..m, NEW j \in 1..Len(line1[i].ids)
       PROVE  line1[i].ids[j] = LastBefore(line1, k1, i) + j
  <2>1. i \in 1..(m + 1) /\ i + 1 \in 1..(m + 1)
    OBVIOUS
  <2>2. line1[i] = line[i + 1]
    BY <1>3
  <2>3. line[i + 1].ids[j] = LastBefore(line, k, i + 1) + j
    BY <1>7, <2>1, <2>2
  <2> QED
    BY <1>9, <2>1, <2>2, <2>3
<1>12. LastBefore(line1, k1, m + 1) = LastBefore(line, k, (m + 1) + 1)
  BY <1>9
<1>13. /\ \A j \in 1..Len(out.ids) : out.ids[j] = LastBefore(line, k, (m + 1) + 1) + j
       /\ Len(ls) = LastBefore(line, k, (m + 1) + 1) + Len(out.ids)
  BY <1>2 DEF LineInv, Chained
<1>14. Chained(line1, out, k1, Len(ls))
  BY <1>3, <1>11, <1>12, <1>13 DEF Chained
<1> QED
  BY <1>1, <1>3, <1>4, <1>8, <1>10, <1>14 DEF LineInv

----------------------------------------------------------------------------
(* The sending side. *)

\* The types of the fields of a side.
LEMMA SideFields ==
  ASSUME NEW c \in Sides
  PROVE  /\ c = [out |-> c.out, slot |-> c.slot, queue |-> c.queue, credit |-> c.credit,
                 earned |-> c.earned, delay |-> c.delay, backlog |-> c.backlog, ready |-> c.ready]
         /\ c.out \in Packets /\ c.slot \in Seq(Packets) /\ c.queue \in Seq(Packets)
         /\ c.credit \in Int /\ c.earned \in Nat /\ c.delay \in Seq(Nat) /\ c.backlog \in Nat
         /\ c.ready \in BOOLEAN
BY DEF Sides

\* The limiter's part of the side is after's, the rest is c's.
SameLine(c, after) == after.out = c.out /\ after.slot = c.slot /\ after.queue = c.queue

SameLimiter(c, after) ==
  /\ after.credit = c.credit /\ after.earned = c.earned
  /\ after.delay = c.delay /\ after.backlog = c.backlog

\* The limiter lets a packet through.
Solvent(c) ==
  /\ c.credit + c.earned >= 0
  /\ c.backlog > 0 => c.backlog + c.credit + c.earned <= Burst + PacketCapacity

\* The credit is one of the two, and no more than either.
LEMMA LesserType ==
  ASSUME NEW a \in Int
  PROVE  /\ Lesser(a, Burst) \in Int /\ Lesser(a, Burst) <= a /\ Lesser(a, Burst) <= Burst
         /\ Lesser(a, Burst) = a \/ Lesser(a, Burst) = Burst
BY SizesType DEF Lesser

\* The limiter is brought up to date, and a delay begins when there is no credit.
LEMMA LimitedKeeps ==
  ASSUME NEW c \in Sides, Paced(c), Len(c.delay) <= 1, NEW after, after = Limited(c)
  PROVE  /\ after \in Sides /\ SameLine(c, after) /\ Paced(after) /\ Len(after.delay) <= 1
         /\ after.delay = <<>> \/ after.delay[1] = 0 => Solvent(after)
<1> USE SideFields
<1>1. CASE c.delay # <<>>
  <2>1. after = c
    BY <1>1 DEF Limited
  <2>2. c.delay # <<>> /\ c.earned + c.delay[1] >= -c.credit
        /\ (c.backlog > 0 => c.backlog + c.credit + c.earned <= Burst + PacketCapacity)
    BY <1>1 DEF Paced
  <2>3. c.delay[1] = 0 => c.credit + c.earned >= 0
    BY <2>2
  <2> QED
    BY <1>1, <2>1, <2>2, <2>3 DEF SameLine, Solvent
<1>2. CASE c.delay = <<>>
  <2>1. PICK credit0 \in Int, earned0 \in Nat, backlog0 \in Nat, new \in Int :
          /\ credit0 = c.credit /\ earned0 = c.earned /\ backlog0 = c.backlog
          /\ new = Lesser(credit0 + earned0, Burst)
    BY LesserType
  <2>2. PICK up : up = [c EXCEPT !.credit = new, !.earned = 0]
    OBVIOUS
  <2>3. up = update_available(c)
    BY <2>1, <2>2 DEF update_available
  <2>4. /\ up \in Sides /\ up.credit = new /\ up.earned = 0 /\ up.delay = <<>>
        /\ up.backlog = backlog0 /\ SameLine(c, up)
    BY <1>2, <2>1, <2>2 DEF Sides, SameLine
  <2>5. PICK delay1 : delay1 = IF new < 0 THEN <<-new>> ELSE <<>>
    OBVIOUS
  <2>6. after = [up EXCEPT !.delay = delay1]
    BY <1>2, <2>3, <2>4, <2>5 DEF Limited, StartDelay
  <2>7. /\ credit0 + earned0 >= -PacketCapacity
        /\ backlog0 > 0 => backlog0 + new <= Burst + PacketCapacity
    BY <1>2, <2>1 DEF Paced
  <2>8. new >= -PacketCapacity /\ Lesser(new + 0, Burst) = new /\ new + 0 = new
    BY <2>1, <2>7, SizesType, SMTT(30) DEF Lesser
  <2>9. CASE new < 0
    <3>1. delay1 = <<-new>> /\ delay1 \in Seq(Nat) /\ Len(delay1) = 1 /\ delay1[1] = -new
      BY <2>5, <2>9
    <3>2. /\ after \in Sides /\ SameLine(c, after) /\ after.delay = delay1
          /\ after.credit = new /\ after.earned = 0 /\ after.backlog = backlog0
      BY <2>4, <2>6, <3>1 DEF Sides, SameLine
    <3>3. after.delay # <<>> /\ after.delay[1] # 0 /\ Len(after.delay) <= 1
      BY <2>9, <3>1, <3>2
    <3>4. 0 + -new >= -new /\ (backlog0 > 0 => backlog0 + new + 0 <= Burst + PacketCapacity)
      BY <2>7, SizesType, SMTT(30)
    <3>5. Paced(after)
      BY <2>7, <2>8, <3>1, <3>2, <3>3, <3>4 DEF Paced
    <3> QED
      BY <3>2, <3>3, <3>5
  <2>10. CASE ~(new < 0)
    <3>1. delay1 = <<>>
      BY <2>5, <2>10
    <3>2. after = up
      BY <2>4, <2>6, <3>1
    <3>3. backlog0 > 0 => backlog0 + new + 0 <= Burst + PacketCapacity
      BY <2>7, SizesType
    <3>4. new + 0 >= 0 /\ new + 0 >= -PacketCapacity
      BY <2>8, <2>10
    <3>5. Solvent(after)
      BY <2>4, <3>2, <3>3, <3>4 DEF Solvent
    <3>6. Paced(after)
      BY <2>4, <2>7, <2>8, <3>2, <3>4 DEF Paced
    <3>7. Len(after.delay) <= 1
      BY <2>4, <3>2
    <3> QED
      BY <2>4, <3>2, <3>5, <3>6, <3>7
  <2> QED
    BY <2>9, <2>10
<1> QED
  BY <1>1, <1>2

\* The delay has passed.
LEMMA DelayOver ==
  ASSUME NEW c \in Sides, Solvent(c), NEW after, after = [c EXCEPT !.delay = <<>>]
  PROVE  after \in Sides /\ SameLine(c, after) /\ Solvent(after) /\ Paced(after) /\ after.delay = <<>>
<1>1. /\ after \in Sides /\ SameLine(c, after) /\ after.delay = <<>>
      /\ after.credit = c.credit /\ after.earned = c.earned /\ after.backlog = c.backlog
  <2>1. PICK none \in Seq(Nat) : none = <<>>
    BY EmptySeq
  <2>2. after = [c EXCEPT !.delay = none]
    BY <2>1
  <2>3. /\ after \in Sides /\ SameLine(c, after) /\ after.delay = none
        /\ after.credit = c.credit /\ after.earned = c.earned /\ after.backlog = c.backlog
    BY <2>2, SideFields DEF Sides, SameLine
  <2> QED
    BY <2>1, <2>3
<1>2. PICK sum \in Int, backlog0 \in Nat : sum = c.credit + c.earned /\ backlog0 = c.backlog
  BY SideFields
<1>3. backlog0 + c.credit + c.earned = backlog0 + sum
  BY <1>2, SideFields
<1>4. sum >= 0 /\ (backlog0 > 0 => backlog0 + sum <= Burst + PacketCapacity)
  BY <1>2, <1>3 DEF Solvent
<1>5. /\ sum >= -PacketCapacity
      /\ backlog0 > 0 => backlog0 + Lesser(sum, Burst) <= Burst + PacketCapacity
  BY <1>4, LesserType, SizesType
<1>6. Paced(after)
  BY <1>1, <1>2, <1>5 DEF Paced
<1> QED
  BY <1>1, <1>6 DEF Solvent

\* poll_ready moves the packet in the slot to the queue, or nothing.
LEMMA ReadyKeeps ==
  ASSUME NEW c \in Sides, Len(c.slot) <= 1, Len(c.queue) <= BufferSize,
         NEW after, after = poll_ready(c)
  PROVE  /\ after \in Sides /\ SameLimiter(c, after) /\ after.out = c.out
         /\ after.queue \o after.slot = c.queue \o c.slot
         /\ Len(after.slot) <= 1 /\ Len(after.queue) <= BufferSize
         /\ after.ready => after.slot = <<>>
<1> USE SideFields
<1>1. CASE c.slot # <<>> /\ Len(c.queue) >= BufferSize
  <2>1. after = [c EXCEPT !.ready = FALSE]
    BY <1>1 DEF poll_ready
  <2>2. /\ after \in Sides /\ SameLimiter(c, after) /\ SameLine(c, after) /\ after.ready = FALSE
    BY <2>1, ZenonT(60) DEF Sides, SameLimiter, SameLine
  <2> QED
    BY <2>2 DEF SameLine
<1>2. CASE ~(c.slot # <<>> /\ Len(c.queue) >= BufferSize)
  <2>1. PICK line : line = c.queue \o c.slot
    OBVIOUS
  <2>2. line \in Seq(Packets) /\ Len(line) = Len(c.queue) + Len(c.slot)
    BY <2>1
  <2>3. after = [c EXCEPT !.slot = <<>>, !.queue = line, !.ready = TRUE]
    BY <1>2, <2>1 DEF poll_ready
  <2>4. /\ after \in Sides /\ SameLimiter(c, after) /\ after.out = c.out
        /\ after.slot = <<>> /\ after.queue = line
    <3>1. PICK none \in Seq(Packets) : none = <<>>
      BY EmptySeq
    <3>2. after = [c EXCEPT !.slot = none, !.queue = line, !.ready = TRUE]
      BY <2>3, <3>1
    <3>3. /\ after \in Sides /\ SameLimiter(c, after) /\ after.out = c.out
          /\ after.slot = none /\ after.queue = line
      BY <2>2, <3>2, ZenonT(60) DEF Sides, SameLimiter
    <3> QED
      BY <3>1, <3>3
  <2>5. line \o <<>> = line
    BY <2>2
  <2>6. Len(line) <= BufferSize
    <3>1. CASE c.slot = <<>>
      <4>1. Len(c.slot) = 0 /\ Len(c.queue) \in Nat
        BY <3>1
      <4>2. Len(line) = Len(c.queue)
        BY <2>2, <4>1
      <4> QED
        BY <4>2
    <3>2. CASE ~(Len(c.queue) >= BufferSize)
      <4>t. Len(c.queue) \in Nat /\ Len(c.slot) \in Nat
        OBVIOUS
      <4> HIDE SideFields
      <4>q. PICK q \in Nat : q = Len(c.queue)
        BY <4>t
      <4>s. PICK s \in Nat : s = Len(c.slot)
        BY <4>t
      <4>1. q = Len(c.queue) /\ s = Len(c.slot)
        BY <4>q, <4>s
      <4>2. Len(line) = q + s /\ s <= 1 /\ ~(q >= BufferSize) /\ BufferSize \in Nat
        BY <2>2, <3>2, <4>1, SizesType
      <4> QED
        BY <4>2
    <3> QED
      BY <1>2, <3>1, <3>2
  <2>7. Len(after.slot) <= 1
    BY <2>4
  <2> QED
    BY <2>1, <2>4, <2>5, <2>6, <2>7
<1> QED
  BY <1>1, <1>2

\* The packet is paid for and goes to the slot.
LEMMA SendPacketKeeps ==
  ASSUME NEW c \in Sides, Solvent(c), c.delay = <<>>, c.slot = <<>>,
         Len(c.out.bytes) <= PacketCapacity, NEW after, after = SendPacket(c)
  PROVE  /\ after \in Sides /\ Paced(after) /\ after.delay = <<>>
         /\ after.out = NoPacket /\ after.queue = c.queue
         /\ after.queue \o after.slot = Append(c.queue \o c.slot, c.out) /\ Len(after.slot) = 1
<1>1. PICK out \in Packets, queue0 \in Seq(Packets) : out = c.out /\ queue0 = c.queue
  BY SideFields
<1>2. PICK credit0 \in Int, earned0 \in Nat, backlog0 \in Nat, len \in Nat :
        /\ credit0 = c.credit /\ earned0 = c.earned /\ backlog0 = c.backlog
        /\ len = Len(out.bytes) /\ len <= PacketCapacity
  <2>1. c.credit \in Int /\ c.earned \in Nat /\ c.backlog \in Nat
    BY SideFields
  <2>2. PICK bytes \in Seq(Nat) : bytes = out.bytes
    BY DEF Packets
  <2>3. Len(out.bytes) \in Nat /\ Len(out.bytes) <= PacketCapacity
    BY <1>1, <2>2
  <2> QED
    BY <2>1, <2>3
<1>3. PICK line \in Seq(Packets) : line = <<out>> /\ Len(line) = 1
  <2>1. <<out>> \in Seq(Packets) /\ Len(<<out>>) = 1
    OBVIOUS
  <2> QED
    BY <2>1
<1>4. after = [c EXCEPT !.slot = line, !.out = NoPacket, !.credit = credit0 - len,
                        !.backlog = backlog0 + len]
  BY <1>1, <1>2, <1>3 DEF SendPacket
<1>5. /\ after \in Sides /\ after.slot = line /\ after.out = NoPacket /\ after.queue = queue0
      /\ after.credit = credit0 - len /\ after.backlog = backlog0 + len
      /\ after.earned = earned0 /\ after.delay = <<>>
  <2>1. NoPacket \in Packets
    BY NoPacketFramed
  <2>2. credit0 - len \in Int /\ backlog0 + len \in Nat
    OBVIOUS
  <2> QED
    BY <1>1, <1>2, <1>4, <2>1, <2>2, SideFields, ZenonT(30) DEF Sides
<1>6. after.queue \o after.slot = Append(c.queue \o c.slot, c.out)
  <2>1. c.queue \o c.slot = queue0
    BY <1>1
  <2>2. queue0 \o <<out>> = Append(queue0, out)
    BY <1>1
  <2> QED
    BY <1>1, <1>3, <1>5, <2>1, <2>2
<1>7. PICK sum \in Int : sum = (credit0 - len) + earned0
  OBVIOUS
<1>8. /\ sum + len >= 0
      /\ backlog0 > 0 => backlog0 + sum + len <= Burst + PacketCapacity
  <2>1. credit0 + earned0 = sum + len /\ backlog0 + credit0 + earned0 = backlog0 + sum + len
    BY <1>7
  <2> QED
    BY <1>2, <2>1 DEF Solvent
<1>9. sum >= -PacketCapacity
  BY <1>2, <1>8, SizesType
<1>10. (backlog0 + len) + Lesser(sum, Burst) <= Burst + PacketCapacity
  <2>1. PICK low \in Int : low = Lesser(sum, Burst) /\ low <= sum /\ low <= Burst
    BY LesserType
  <2>2. CASE backlog0 > 0
    <3>1. backlog0 + sum + len <= Burst + PacketCapacity
      BY <1>8, <2>2
    <3> QED
      BY <2>1, <3>1, SizesType
  <2>3. CASE ~(backlog0 > 0)
    <3>1. backlog0 = 0
      BY <2>3
    <3> QED
      BY <1>2, <2>1, <3>1, SizesType
  <2> QED
    BY <2>2, <2>3
<1>11. Paced(after)
  BY <1>5, <1>7, <1>9, <1>10 DEF Paced
<1> QED
  BY <1>1, <1>3, <1>5, <1>6, <1>11

\* Paced is about the limiter alone.
LEMMA SamePaced ==
  ASSUME NEW c, NEW after, SameLimiter(c, after)
  PROVE  (Paced(c) => Paced(after)) /\ (Solvent(c) => Solvent(after))
BY DEF SameLimiter, Paced, Solvent

\* poll_flush sends the packet, or leaves everything where it was.
LEMMA FlushKeeps ==
  ASSUME NEW c, NEW k \in Nat, NEW ls \in Seq(Nat), SideInv(c, k, ls),
         NEW after, after = poll_flush(c)
  PROVE  /\ SideInv(after, k, ls)
         /\ after.ready => after.out = NoPacket
<1>1. /\ c \in Sides /\ Paced(c) /\ LineInv(c.queue \o c.slot, c.out, k, ls)
      /\ Len(c.slot) <= 1 /\ Len(c.queue) <= BufferSize /\ Len(c.delay) <= 1
  BY DEF SideInv, Bounded
<1>2. CASE c.out = NoPacket
  <2>1. after = c
    BY <1>2 DEF poll_flush
  <2> QED
    BY <1>2, <2>1
<1>3. CASE c.out # NoPacket
  <2>1. PICK limited : limited = Limited(c)
    OBVIOUS
  <2>2. /\ limited \in Sides /\ SameLine(c, limited) /\ Paced(limited) /\ Len(limited.delay) <= 1
        /\ limited.delay = <<>> \/ limited.delay[1] = 0 => Solvent(limited)
    BY <1>1, <2>1, LimitedKeeps
  <2>3. CASE limited.delay # <<>> /\ limited.delay[1] > 0
    <3>1. after = [limited EXCEPT !.ready = FALSE]
      BY <1>3, <2>1, <2>3 DEF poll_flush
    <3>2. after \in Sides /\ SameLine(limited, after) /\ SameLimiter(limited, after) /\ after.ready = FALSE
      BY <2>2, <3>1, SideFields DEF Sides, SameLine, SameLimiter
    <3>3. Paced(after)
      BY <2>2, <3>2, SamePaced
    <3>4. /\ after.out = c.out /\ after.slot = c.slot /\ after.queue = c.queue
          /\ after.delay = limited.delay
      BY <2>2, <3>2 DEF SameLine, SameLimiter
    <3> QED
      BY <1>1, <2>2, <3>2, <3>3, <3>4 DEF SideInv, Bounded
  <2>4. CASE ~(limited.delay # <<>> /\ limited.delay[1] > 0)
    <3>1. limited.delay = <<>> \/ limited.delay[1] = 0
      <4>1. CASE limited.delay # <<>>
        <5>1. limited.delay \in Seq(Nat)
          BY <2>2, SideFields
        <5>2. limited.delay[1] \in Nat
          BY <4>1, <5>1
        <5> QED
          BY <2>4, <4>1, <5>2
      <4> QED
        BY <4>1
    <3>2. Solvent(limited)
      BY <2>2, <3>1
    <3>3. PICK over : over = [limited EXCEPT !.delay = <<>>]
      OBVIOUS
    <3>4. over \in Sides /\ SameLine(limited, over) /\ Solvent(over) /\ Paced(over) /\ over.delay = <<>>
      BY <2>2, <3>2, <3>3, DelayOver
    <3>5. over.out = c.out /\ over.slot = c.slot /\ over.queue = c.queue
      BY <2>2, <3>4 DEF SameLine
    <3>6. PICK ready : ready = poll_ready(over)
      OBVIOUS
    <3>7. /\ ready \in Sides /\ SameLimiter(over, ready) /\ ready.out = over.out
          /\ ready.queue \o ready.slot = over.queue \o over.slot
          /\ Len(ready.slot) <= 1 /\ Len(ready.queue) <= BufferSize
          /\ ready.ready => ready.slot = <<>>
      BY <1>1, <3>4, <3>5, <3>6, ReadyKeeps
    <3>8. /\ Paced(ready) /\ Solvent(ready) /\ ready.delay = <<>>
          /\ LineInv(ready.queue \o ready.slot, ready.out, k, ls)
      BY <1>1, <3>4, <3>5, <3>7, SamePaced DEF SameLimiter
    <3>9. Len(ready.delay) <= 1
      BY <3>8
    <3>10. CASE ~ready.ready
      <4>1. after = ready
        BY <1>3, <2>1, <2>4, <3>3, <3>6, <3>10 DEF poll_flush
      <4> QED
        BY <3>7, <3>8, <3>9, <3>10, <4>1 DEF SideInv, Bounded
    <3>11. CASE ready.ready
      <4>1. PICK sent : sent = SendPacket(ready)
        OBVIOUS
      <4>2. after = poll_ready(sent)
        BY <1>3, <2>1, <2>4, <3>3, <3>6, <3>11, <4>1 DEF poll_flush
      <4>3. Framed(ready.out, ls) /\ Len(ready.out.bytes) <= PacketCapacity
        BY <3>8 DEF LineInv, Framed
      <4>4. ready.out.ids # <<>>
        BY <1>3, <3>5, <3>7, <4>3, EmptyPacket
      <4>5. /\ sent \in Sides /\ Paced(sent) /\ sent.delay = <<>>
            /\ sent.out = NoPacket /\ sent.queue = ready.queue
            /\ sent.queue \o sent.slot = Append(ready.queue \o ready.slot, ready.out)
            /\ Len(sent.slot) = 1
        BY <3>7, <3>8, <3>11, <4>1, <4>3, SendPacketKeeps
      <4>6. LineInv(sent.queue \o sent.slot, sent.out, k, ls)
        BY <3>8, <4>4, <4>5, LineSend
      <4>7. Len(sent.slot) <= 1 /\ Len(sent.queue) <= BufferSize
        BY <3>7, <4>5
      <4>8. /\ after \in Sides /\ SameLimiter(sent, after) /\ after.out = sent.out
            /\ after.queue \o after.slot = sent.queue \o sent.slot
            /\ Len(after.slot) <= 1 /\ Len(after.queue) <= BufferSize
        BY <4>2, <4>5, <4>7, ReadyKeeps
      <4>9. Paced(after)
        BY <4>5, <4>8, SamePaced
      <4>10. after.delay = <<>> /\ Len(after.delay) <= 1
        BY <4>5, <4>8 DEF SameLimiter
      <4>11. LineInv(after.queue \o after.slot, after.out, k, ls)
        BY <4>6, <4>8
      <4> QED
        BY <4>5, <4>8, <4>9, <4>10, <4>11 DEF SideInv, Bounded
    <3> QED
      BY <3>10, <3>11
  <2> QED
    BY <2>3, <2>4
<1> QED
  BY <1>2, <1>3

----------------------------------------------------------------------------
(* The steps. *)

\* The receiving side, when ls are the lengths of the messages accepted.
ReceivingInv(ls) ==
  /\ \A packet \in net : Whole(packet, ls)
  /\ in_packet # <<>> => \E in : in_packet = <<in>> /\ Reading(in, ls)
  /\ faults \in 0..MaxFaults

\* Only a message that fills the packet panics.
PanicInv ==
  panicked # <<>> => \E len \in Nat : /\ panicked = <<len>>
                                      /\ Len(out_packet.bytes) + 2 + len = PacketCapacity

\* The inductive invariant.
UInv ==
  /\ pending \in Nat /\ taken \in Nat /\ lens \in Seq(Nat)
  /\ SideInv(Sending, taken, lens)
  /\ ReceivingInv(lens)
  /\ PanicInv

\* The fields of the side that sends.
LEMMA SendingFields ==
  /\ Sending.out = out_packet /\ Sending.slot = slot /\ Sending.queue = queue
  /\ Sending.credit = credit /\ Sending.earned = earned /\ Sending.delay = delay
  /\ Sending.backlog = backlog /\ Sending.ready = TRUE
BY DEF Sending

\* SideInv is about the line and the limiter alone.
LEMMA SideSame ==
  ASSUME NEW c, NEW d, NEW k, NEW ls, SideInv(c, k, ls), d \in Sides,
         SameLine(c, d), SameLimiter(c, d)
  PROVE  SideInv(d, k, ls)
<1>1. d.out = c.out /\ d.slot = c.slot /\ d.queue = c.queue /\ d.delay = c.delay
  BY DEF SameLine, SameLimiter
<1>2. Paced(d)
  BY SamePaced DEF SideInv
<1> QED
  BY <1>1, <1>2 DEF SideInv, Bounded

\* The state after a poll.
LEMMA BecomesSide ==
  ASSUME NEW c, NEW k, NEW ls, SideInv(c, k, ls), Becomes(c)
  PROVE  SideInv(Sending', k, ls)
<1>1. /\ out_packet' = c.out /\ slot' = c.slot /\ queue' = c.queue
      /\ credit' = c.credit /\ earned' = c.earned
      /\ delay' = c.delay /\ backlog' = c.backlog
  BY DEF Becomes
<1>2. PICK d : d = Sending'
  OBVIOUS
<1>3. d = [out |-> c.out, slot |-> c.slot, queue |-> c.queue, credit |-> c.credit,
           earned |-> c.earned, delay |-> c.delay, backlog |-> c.backlog, ready |-> TRUE]
  BY <1>1, <1>2 DEF Sending
<1>4. c \in Sides
  BY DEF SideInv
<1>5. d \in Sides
  BY <1>3, <1>4, SideFields DEF Sides
<1>6. SameLine(c, d) /\ SameLimiter(c, d)
  BY <1>3 DEF SameLine, SameLimiter
<1>7. SideInv(d, k, ls)
  BY <1>5, <1>6, SideSame
<1> QED
  BY <1>2, <1>7

\* Messages accepted later do not matter to the receiver.
LEMMA ReceivingLater ==
  ASSUME lens \in Seq(Nat), ReceivingInv(lens), NEW len \in Nat
  PROVE  ReceivingInv(Append(lens, len))
<1>1. \A packet \in net : Whole(packet, Append(lens, len))
  BY FramedLater DEF ReceivingInv, Whole
<1>2. in_packet # <<>> => \E in : in_packet = <<in>> /\ Reading(in, Append(lens, len))
  BY ReadingLater DEF ReceivingInv
<1> QED
  BY <1>1, <1>2 DEF ReceivingInv

\* It holds at the start.
LEMMA UInvInit == Init => UInv
<1> SUFFICES ASSUME Init PROVE UInv
  OBVIOUS
<1>1. /\ pending = 0 /\ out_packet = NoPacket /\ slot = <<>> /\ queue = <<>> /\ credit = Burst
      /\ earned = 0 /\ delay = <<>> /\ backlog = 0 /\ lens = <<>> /\ taken = 0 /\ net = {}
      /\ in_packet = <<>> /\ faults = 0 /\ panicked = <<>>
  BY DEF Init
<1>2. /\ Framed(NoPacket, lens) /\ NoPacket \in Packets /\ Len(NoPacket.bytes) = 0
      /\ NoPacket.ids = <<>>
  BY NoPacketFramed
<1>3. /\ slot \in Seq(Packets) /\ queue \in Seq(Packets) /\ delay \in Seq(Nat) /\ lens \in Seq(Nat)
      /\ Len(slot) = 0 /\ Len(queue) = 0 /\ Len(delay) = 0 /\ Len(lens) = 0
  BY <1>1, EmptySeq
<1>4. Sending \in Sides
  BY <1>1, <1>2, <1>3, SizesType DEF Sending, Sides
<1>5. Bounded(Sending)
  BY <1>3, SendingFields, SizesType DEF Bounded
<1>6. Paced(Sending)
  <2>1. Burst + 0 >= -PacketCapacity
    BY SizesType
  <2> QED
    BY <1>1, <2>1, SendingFields DEF Paced
<1>7. LineInv(Sending.queue \o Sending.slot, Sending.out, taken, lens)
  <2>1. PICK line : line = queue \o slot
    OBVIOUS
  <2>2. line \in Seq(Packets) /\ Len(line) = 0
    BY <1>3, <2>1
  <2>3. Len(NoPacket.ids) = 0
    BY <1>2
  <2>4. LastBefore(line, taken, 0 + 1) = 0
    BY <1>1 DEF LastBefore
  <2>5. Chained(line, NoPacket, taken, Len(lens))
    BY <1>3, <2>2, <2>3, <2>4 DEF Chained
  <2>6. LineInv(line, NoPacket, taken, lens)
    BY <1>2, <2>2, <2>5 DEF LineInv
  <2> QED
    BY <1>1, <2>1, <2>6, SendingFields
<1>8. ReceivingInv(lens)
  BY <1>1, SizesType DEF ReceivingInv
<1> QED
  BY <1>1, <1>3, <1>4, <1>5, <1>6, <1>7, <1>8 DEF UInv, SideInv, PanicInv

\* A message is accepted, or finish refuses it.
LEMMA PollSendInv ==
  ASSUME UInv, NEW len \in Nat, PollSend(len), pending' \in Nat
  PROVE  UInv'
<1>1. taken \in Nat /\ lens \in Seq(Nat) /\ SideInv(Sending, taken, lens) /\ ReceivingInv(lens)
  BY DEF UInv
<1>2. PICK c : c = IF NeedsFlush(out_packet, len) THEN poll_flush(Sending) ELSE Sending
  OBVIOUS
<1>3. /\ panicked = <<>> /\ c.ready /\ PacketCapacity >= len + 2
      /\ \/ FinishPanics(c.out, len) /\ Becomes(c) /\ panicked' = <<len>> /\ lens' = lens
         \/ /\ Becomes([c EXCEPT !.out = Put(@, Len(lens) + 1, len)])
            /\ lens' = Append(lens, len) /\ panicked' = panicked
      /\ taken' = taken /\ net' = net /\ in_packet' = in_packet /\ faults' = faults
  BY <1>2 DEF PollSend, receiving
<1>4. SideInv(c, taken, lens) /\ Len(c.out.bytes) + 2 + len <= PacketCapacity
  <2>1. CASE NeedsFlush(out_packet, len)
    <3>1. c = poll_flush(Sending)
      BY <1>2, <2>1
    <3>2. SideInv(c, taken, lens) /\ c.out = NoPacket
      BY <1>1, <1>3, <3>1, FlushKeeps
    <3>3. Len(c.out.bytes) = 0
      BY <3>2, NoPacketFramed
    <3> QED
      BY <1>3, <3>2, <3>3, SizesType
  <2>2. CASE ~NeedsFlush(out_packet, len)
    <3>1. c = Sending /\ c.out = out_packet
      BY <1>2, <2>2, SendingFields
    <3>2. c.out \in Packets
      BY <1>1, <3>1, SideFields DEF SideInv
    <3>3. PICK n \in Nat : n = Len(c.out.bytes)
      BY <3>2 DEF Packets
    <3>4. ~(PacketCapacity - n < len + 2)
      BY <2>2, <3>1, <3>3 DEF NeedsFlush
    <3>5. n + 2 + len <= PacketCapacity
      BY <3>4, SizesType
    <3> QED
      BY <1>1, <3>1, <3>3, <3>5
  <2> QED
    BY <2>1, <2>2
<1>5. c \in Sides /\ c.out \in Packets
  BY <1>4, SideFields DEF SideInv
<1>6. CASE FinishPanics(c.out, len) /\ Becomes(c) /\ panicked' = <<len>> /\ lens' = lens
  <2>1. SideInv(Sending', taken', lens')
    <3>1. SideInv(Sending', taken, lens)
      BY <1>4, <1>6, BecomesSide
    <3> QED
      BY <1>3, <1>6, <3>1
  <2>2. ReceivingInv(lens)'
    BY <1>1, <1>3, <1>6 DEF ReceivingInv
  <2>3. Len(out_packet'.bytes) + 2 + len = PacketCapacity
    <3>1. PICK n \in Nat : n = Len(c.out.bytes)
      BY <1>5 DEF Packets
    <3>2. ~(len < PacketCapacity - n - 2) /\ n + 2 + len <= PacketCapacity
      BY <1>4, <1>6, <3>1 DEF FinishPanics
    <3>3. n + 2 + len = PacketCapacity
      BY <3>2, SizesType
    <3> QED
      BY <1>6, <3>1, <3>3 DEF Becomes
  <2>4. PanicInv'
    BY <1>6, <2>3 DEF PanicInv
  <2> QED
    BY <1>1, <1>3, <1>6, <2>1, <2>2, <2>4 DEF UInv
<1>7. CASE /\ Becomes([c EXCEPT !.out = Put(@, Len(lens) + 1, len)])
           /\ lens' = Append(lens, len) /\ panicked' = panicked
  <2>1. PICK out : out = Put(c.out, Len(lens) + 1, len)
    OBVIOUS
  <2>2. PICK d : d = [c EXCEPT !.out = out]
    OBVIOUS
  <2>3. Becomes(d)
    BY <1>7, <2>1, <2>2
  <2>4. LineInv(c.queue \o c.slot, out, taken, Append(lens, len))
    <3>1. LineInv(c.queue \o c.slot, c.out, taken, lens)
      BY <1>4 DEF SideInv
    <3> QED
      BY <1>1, <1>4, <2>1, <3>1, LinePut
  <2>5. out \in Packets
    BY <2>4 DEF LineInv, Framed
  <2>6. /\ d \in Sides /\ d.out = out /\ d.queue = c.queue /\ d.slot = c.slot
        /\ SameLimiter(c, d)
    BY <1>5, <2>2, <2>5, SideFields DEF Sides, SameLimiter
  <2>7. Paced(d) /\ d.delay = c.delay
    BY <1>4, <2>6, SamePaced DEF SideInv, SameLimiter
  <2>8. SideInv(d, taken, Append(lens, len))
    BY <1>4, <2>4, <2>6, <2>7 DEF SideInv, Bounded
  <2>9. SideInv(Sending', taken', lens')
    <3>1. SideInv(Sending', taken, Append(lens, len))
      BY <2>3, <2>8, BecomesSide
    <3> QED
      BY <1>3, <1>7, <3>1
  <2>10. ReceivingInv(lens)'
    <3>1. ReceivingInv(Append(lens, len))
      BY <1>1, ReceivingLater
    <3> QED
      BY <1>3, <1>7, <3>1 DEF ReceivingInv
  <2>11. PanicInv'
    BY <1>3, <1>7 DEF PanicInv
  <2>12. lens' \in Seq(Nat)
    BY <1>1, <1>7
  <2> QED
    BY <1>1, <1>3, <2>9, <2>10, <2>11, <2>12 DEF UInv
<1> QED
  BY <1>3, <1>6, <1>7

\* A poll that only flushes.
LEMMA FlushInv ==
  ASSUME UInv, Becomes(poll_flush(Sending)), panicked = <<>>,
         UNCHANGED <<pending, lens, taken, receiving, panicked>>
  PROVE  UInv'
<1>1. taken \in Nat /\ lens \in Seq(Nat) /\ SideInv(Sending, taken, lens) /\ ReceivingInv(lens)
  BY DEF UInv
<1>2. PICK c : c = poll_flush(Sending)
  OBVIOUS
<1>3. SideInv(c, taken, lens)
  BY <1>1, <1>2, FlushKeeps
<1>4. SideInv(Sending', taken, lens)
  BY <1>2, <1>3, BecomesSide
<1>5. ReceivingInv(lens)'
  BY <1>1 DEF ReceivingInv, receiving
<1>6. PanicInv'
  BY DEF PanicInv
<1> QED
  BY <1>4, <1>5, <1>6 DEF UInv

\* A sequence that holds at most one element.
LEMMA OneElement ==
  ASSUME NEW s \in Seq(Nat), s # <<>>, Len(s) <= 1
  PROVE  Len(s) = 1 /\ s[1] \in Nat
<1>1. Len(s) \in Nat /\ Len(s) # 0
  BY EmptySeq
<1>2. Len(s) = 1
  <2>1. PICK n \in Nat : n = Len(s) /\ n # 0 /\ n <= 1
    BY <1>1
  <2>2. n = 1
    BY <2>1
  <2> QED
    BY <2>1, <2>2
<1> QED
  BY <1>2

\* Time earns credit and lets a delay pass.
LEMMA ElapseInv ==
  ASSUME UInv, NEW time \in Nat, Elapse(time)
  PROVE  UInv'
<1>1. /\ pending' = pending /\ out_packet' = out_packet /\ slot' = slot /\ queue' = queue
      /\ credit' = credit /\ lens' = lens /\ taken' = taken /\ net' = net
      /\ in_packet' = in_packet /\ faults' = faults /\ panicked' = panicked
      /\ earned' = earned + time
      /\ delay' = [i \in 1..Len(delay) |-> IF delay[i] <= time THEN 0 ELSE delay[i] - time]
      /\ backlog' = IF backlog <= time THEN 0 ELSE backlog - time
  BY DEF Elapse, receiving
<1>2. SideInv(Sending, taken, lens)
  BY DEF UInv
<1>3. /\ Sending \in Sides /\ Bounded(Sending) /\ Paced(Sending)
      /\ LineInv(queue \o slot, out_packet, taken, lens)
  BY <1>2, SendingFields DEF SideInv
<1>4. /\ out_packet \in Packets /\ slot \in Seq(Packets) /\ queue \in Seq(Packets)
      /\ credit \in Int /\ earned \in Nat /\ delay \in Seq(Nat) /\ backlog \in Nat
      /\ Len(slot) <= 1 /\ Len(queue) <= BufferSize /\ Len(delay) <= 1
  BY <1>3, SideFields, SendingFields DEF Bounded
<1>5. PICK wait \in Seq(Nat), more \in Nat, less \in Nat :
        /\ wait = delay' /\ more = earned' /\ less = backlog'
        /\ Len(wait) = Len(delay)
        /\ more = earned + time
        /\ less = IF backlog <= time THEN 0 ELSE backlog - time
        /\ \A i \in 1..Len(delay) : wait[i] = IF delay[i] <= time THEN 0 ELSE delay[i] - time
  <2>1. delay' \in [1..Len(delay) -> Nat]
    BY <1>1, <1>4
  <2>2. delay' \in Seq(Nat) /\ Len(delay') = Len(delay)
    <3>1. Len(delay) \in Nat
      BY <1>4
    <3> QED
      BY <2>1, <3>1
  <2>3. earned' \in Nat /\ backlog' \in Nat
    BY <1>1, <1>4
  <2> QED
    BY <1>1, <2>2, <2>3
<1>6. PICK d : d = Sending'
  OBVIOUS
<1>7. d = [out |-> out_packet, slot |-> slot, queue |-> queue, credit |-> credit,
           earned |-> more, delay |-> wait, backlog |-> less, ready |-> TRUE]
  BY <1>1, <1>5, <1>6 DEF Sending
<1>8. d \in Sides
  BY <1>4, <1>7 DEF Sides
<1>9. Bounded(d)
  BY <1>4, <1>5, <1>7 DEF Bounded
<1>10. Paced(d)
  <2>1. PICK old \in Int, new \in Int : old = credit + earned /\ new = credit + more /\ new = old + time
    BY <1>4, <1>5
  <2>2. old >= -PacketCapacity
    BY <1>3, <2>1, SendingFields DEF Paced
  <2>3. new >= -PacketCapacity
    BY <2>1, <2>2, SizesType
  <2>4. less > 0 => backlog > 0 /\ less = backlog - time
    BY <1>4, <1>5
  <2>5. CASE delay = <<>>
    <3>1. wait = <<>>
      <4>1. Len(wait) = 0
        BY <1>5, <2>5
      <4> QED
        BY <4>1
    <3>2. backlog > 0 => backlog + Lesser(old, Burst) <= Burst + PacketCapacity
      BY <1>3, <2>1, <2>5, SendingFields DEF Paced
    <3>3. Lesser(new, Burst) <= Lesser(old, Burst) + time
      BY <2>1, SizesType DEF Lesser
    <3>4. Lesser(new, Burst) \in Int /\ Lesser(old, Burst) \in Int
      BY LesserType
    <3>5. less > 0 => less + Lesser(new, Burst) <= Burst + PacketCapacity
      BY <1>4, <2>4, <3>2, <3>3, <3>4, SizesType, SMTT(30)
    <3> QED
      BY <1>7, <2>1, <2>3, <3>1, <3>5 DEF Paced
  <2>6. CASE delay # <<>>
    <3>1. Len(delay) = 1 /\ delay[1] \in Nat
      BY <1>4, <2>6, OneElement
    <3>2. wait # <<>> /\ wait[1] \in Nat
      <4>1. Len(wait) = 1
        BY <1>5, <3>1
      <4>2. wait # <<>>
        BY <4>1, EmptySeq, SMTT(30)
      <4>3. 1 \in 1..Len(wait)
        BY <4>1
      <4>4. wait[1] \in Nat
        BY <4>3
      <4> QED
        BY <4>2, <4>4
    <3>3. PICK a \in Nat, b \in Nat : a = delay[1] /\ b = wait[1] /\ b = IF a <= time THEN 0 ELSE a - time
      <4>1. 1 \in 1..Len(delay)
        BY <3>1
      <4>2. wait[1] = IF delay[1] <= time THEN 0 ELSE delay[1] - time
        BY <1>5, <4>1
      <4> QED
        BY <3>1, <3>2, <4>2
    <3>4. /\ earned + a >= -credit
          /\ backlog > 0 => backlog + credit + earned <= Burst + PacketCapacity
      BY <1>3, <2>6, <3>3, SendingFields DEF Paced
    <3>5. more + b >= -credit
      BY <1>4, <1>5, <3>3, <3>4
    <3>6. less > 0 => less + credit + more <= Burst + PacketCapacity
      BY <1>4, <1>5, <2>4, <3>4, SizesType
    <3> QED
      BY <1>7, <2>1, <2>3, <3>2, <3>3, <3>5, <3>6 DEF Paced
  <2> QED
    BY <2>5, <2>6
<1>11. SideInv(d, taken, lens)
  BY <1>3, <1>7, <1>8, <1>9, <1>10 DEF SideInv
<1>12. ReceivingInv(lens)'
  BY <1>1 DEF UInv, ReceivingInv
<1>13. PanicInv'
  BY <1>1 DEF UInv, PanicInv
<1> QED
  BY <1>1, <1>6, <1>11, <1>12, <1>13 DEF UInv

\* The first packet of the queue is the first of the line.
LEMMA TakeFirst ==
  ASSUME NEW q \in Seq(Packets), NEW s \in Seq(Packets), q # <<>>
  PROVE  /\ Tail(q) \in Seq(Packets) /\ Len(Tail(q)) <= Len(q)
         /\ Tail(q) \o s = Tail(q \o s) /\ Head(q) = (q \o s)[1] /\ Len(q \o s) > 0
<1>1. PICK m \in Nat, n \in Nat : Len(q) = m + 1 /\ Len(s) = n
  <2>1. Len(q) \in Nat /\ Len(q) # 0 /\ Len(s) \in Nat
    BY EmptySeq
  <2>2. PICK l \in Nat : l = Len(q) /\ l # 0
    BY <2>1
  <2>3. l - 1 \in Nat /\ l = (l - 1) + 1
    BY <2>2
  <2> QED
    BY <2>1, <2>2, <2>3
<1>2. PICK t \in Seq(Packets) : /\ t = Tail(q) /\ Len(t) = m
                                /\ \A i \in 1..m : t[i] = q[i + 1]
  <2>1. Tail(q) \in Seq(Packets) /\ Len(Tail(q)) = m /\ \A i \in 1..m : Tail(q)[i] = q[i + 1]
    BY <1>1
  <2> QED
    BY <2>1
<1>3. PICK a \in Seq(Packets) : /\ a = q \o s /\ Len(a) = m + 1 + n
                                /\ \A i \in 1..(m + 1 + n) : a[i] = IF i <= m + 1 THEN q[i] ELSE s[i - (m + 1)]
  <2>1. /\ q \o s \in Seq(Packets) /\ Len(q \o s) = m + 1 + n
        /\ \A i \in 1..(m + 1 + n) : (q \o s)[i] = IF i <= m + 1 THEN q[i] ELSE s[i - (m + 1)]
    BY <1>1
  <2> QED
    BY <2>1
<1>4. PICK b \in Seq(Packets) : /\ b = t \o s /\ Len(b) = m + n
                                /\ \A i \in 1..(m + n) : b[i] = IF i <= m THEN t[i] ELSE s[i - m]
  <2>1. PICK b : b = t \o s
    OBVIOUS
  <2>2. b \in Seq(Packets) /\ Row(t, s, m, n, b)
    BY <1>1, <1>2, <2>1, Joined
  <2> QED
    BY <2>1, <2>2 DEF Row
<1>5. PICK c \in Seq(Packets) : /\ c = Tail(a) /\ Len(c) = m + n
                                /\ \A i \in 1..(m + n) : c[i] = a[i + 1]
  <2>1. Tail(a) \in Seq(Packets) /\ Len(Tail(a)) = m + n /\ \A i \in 1..(m + n) : Tail(a)[i] = a[i + 1]
    BY <1>3
  <2> QED
    BY <2>1
<1>6. ASSUME NEW i \in 1..(m + n) PROVE b[i] = c[i]
  <2>1. i + 1 \in 1..(m + 1 + n) /\ c[i] = a[i + 1]
    BY <1>5
  <2>2. CASE i <= m
    <3>1. i \in 1..m /\ i + 1 <= m + 1
      BY <2>2
    <3> QED
      BY <1>2, <1>3, <1>4, <2>1, <2>2, <3>1
  <2>3. CASE ~(i <= m)
    <3>1. ~(i + 1 <= m + 1) /\ (i + 1) - (m + 1) = i - m
      BY <2>3
    <3> QED
      BY <1>3, <1>4, <2>1, <2>3, <3>1
  <2> QED
    BY <2>2, <2>3
<1>7. b = c
  <2>1. Len(b) = Len(c) /\ \A i \in 1..Len(b) : b[i] = c[i]
    BY <1>4, <1>5, <1>6
  <2> QED
    BY <2>1, SeqEqual
<1>8. a[1] = q[1]
  <2>1. 1 \in 1..(m + 1 + n) /\ 1 <= m + 1
    OBVIOUS
  <2> QED
    BY <1>3, <2>1
<1>9. Head(q) = q[1]
  OBVIOUS
<1>10. m <= m + 1 /\ m + 1 + n > 0
  OBVIOUS
<1> QED
  BY <1>1, <1>2, <1>3, <1>4, <1>5, <1>7, <1>8, <1>9, <1>10

\* The transport takes a packet.
LEMMA TransmitInv ==
  ASSUME UInv, Transmit
  PROVE  UInv'
<1>1. /\ queue # <<>> /\ net' = net \cup {Head(queue)} /\ queue' = Tail(queue)
      /\ taken' = taken + Len(Head(queue).ids)
      /\ pending' = pending /\ out_packet' = out_packet /\ slot' = slot /\ lens' = lens
      /\ credit' = credit /\ earned' = earned /\ delay' = delay /\ backlog' = backlog
      /\ in_packet' = in_packet /\ faults' = faults /\ panicked' = panicked
  BY DEF Transmit, limiter
<1>2. taken \in Nat /\ lens \in Seq(Nat) /\ SideInv(Sending, taken, lens)
  BY DEF UInv
<1>3. /\ Sending \in Sides /\ Bounded(Sending) /\ Paced(Sending)
      /\ LineInv(queue \o slot, out_packet, taken, lens)
  BY <1>2, SendingFields DEF SideInv
<1>4. /\ out_packet \in Packets /\ slot \in Seq(Packets) /\ queue \in Seq(Packets)
      /\ credit \in Int /\ earned \in Nat /\ delay \in Seq(Nat) /\ backlog \in Nat
      /\ Len(slot) <= 1 /\ Len(queue) <= BufferSize /\ Len(delay) <= 1
  BY <1>3, SideFields, SendingFields DEF Bounded
<1>5. /\ Tail(queue) \in Seq(Packets) /\ Len(Tail(queue)) <= Len(queue)
      /\ Tail(queue) \o slot = Tail(queue \o slot) /\ Head(queue) = (queue \o slot)[1]
      /\ Len(queue \o slot) > 0
  BY <1>1, <1>4, TakeFirst
<1>6. PICK line : line = queue \o slot
  OBVIOUS
<1>7. /\ LineInv(Tail(line), out_packet, taken', lens) /\ taken' \in Nat
      /\ Whole(line[1], lens)
  <2>1. taken' = taken + Len(line[1].ids) /\ Len(line) > 0 /\ LineInv(line, out_packet, taken, lens)
    BY <1>1, <1>3, <1>5, <1>6
  <2> QED
    BY <1>2, <2>1, LineTake
<1>8. PICK d : d = Sending'
  OBVIOUS
<1>9. d = [out |-> out_packet, slot |-> slot, queue |-> Tail(queue), credit |-> credit,
           earned |-> earned, delay |-> delay, backlog |-> backlog, ready |-> TRUE]
  BY <1>1, <1>8 DEF Sending
<1>10. d \in Sides
  BY <1>4, <1>5, <1>9 DEF Sides
<1>11. Bounded(d)
  <2>1. Len(Tail(queue)) <= BufferSize
    <3>1. Len(queue) \in Nat /\ Len(Tail(queue)) \in Nat
      BY <1>4, <1>5
    <3> QED
      BY <1>4, <1>5, <3>1, SizesType
  <2> QED
    BY <1>4, <1>9, <2>1 DEF Bounded
<1>12. Paced(d)
  <2>1. SameLimiter(Sending, d)
    BY <1>9, SendingFields DEF SameLimiter
  <2> QED
    BY <1>3, <2>1, SamePaced
<1>13. SideInv(d, taken', lens)
  BY <1>5, <1>6, <1>7, <1>9, <1>10, <1>11, <1>12 DEF SideInv
<1>14. ReceivingInv(lens)'
  <2>1. Whole(Head(queue), lens)
    BY <1>5, <1>6, <1>7
  <2> QED
    BY <1>1, <2>1 DEF UInv, ReceivingInv
<1>15. PanicInv'
  BY <1>1 DEF UInv, PanicInv
<1> QED
  BY <1>1, <1>7, <1>8, <1>13, <1>14, <1>15 DEF UInv

\* Nothing changes on the sending side.
LEMMA SendingSame ==
  ASSUME UInv, UNCHANGED <<pending, sending, lens, taken, panicked>>, ReceivingInv(lens)'
  PROVE  UInv'
<1>1. /\ pending' = pending /\ out_packet' = out_packet /\ slot' = slot /\ queue' = queue
      /\ credit' = credit /\ earned' = earned /\ delay' = delay /\ backlog' = backlog
      /\ lens' = lens /\ taken' = taken /\ panicked' = panicked
  BY DEF sending, limiter
<1>2. Sending' = Sending
  BY <1>1 DEF Sending
<1> QED
  BY <1>1, <1>2 DEF UInv, PanicInv

\* What is being read.
LEMMA InPacket ==
  ASSUME NEW in, in_packet = <<in>>
  PROVE  in_packet # <<>> /\ in_packet[1] = in /\ (AtEnd <=> in.pos = Len(in.packet.bytes))
<1>1. in_packet # <<>>
  BY EmptySeq
<1>2. in_packet[1] = in
  OBVIOUS
<1> QED
  BY <1>1, <1>2 DEF AtEnd

\* poll_recv takes the next message out of the packet.
LEMMA PollRecvInv ==
  ASSUME UInv, PollRecv
  PROVE  UInv'
<1>1. /\ ~AtEnd /\ in_packet' = <<recv_next(in_packet[1])>>
      /\ lens' = lens /\ net' = net /\ faults' = faults
  BY DEF PollRecv
<1>2. lens \in Seq(Nat) /\ ReceivingInv(lens)
  BY DEF UInv
<1>3. in_packet # <<>>
  BY <1>1 DEF AtEnd
<1>4. PICK in : in_packet = <<in>> /\ Reading(in, lens)
  BY <1>2, <1>3 DEF ReceivingInv
<1>5. in_packet[1] = in /\ in.pos # Len(in.packet.bytes)
  BY <1>1, <1>4, InPacket
<1>6. Reading(recv_next(in), lens)
  BY <1>2, <1>4, <1>5, RecvNextReads
<1>7. ReceivingInv(lens)'
  BY <1>1, <1>2, <1>5, <1>6 DEF ReceivingInv
<1> QED
  BY <1>7, SendingSame DEF PollRecv

\* poll_recv takes a packet from the transport, and its first message.
LEMMA PollRecvPacketInv ==
  ASSUME UInv, NEW packet \in net, PollRecvPacket(packet)
  PROVE  UInv'
<1>1. /\ \/ net' = net \ {packet} /\ faults' = faults
         \/ net' = net /\ faults < MaxFaults /\ faults' = faults + 1
      /\ in_packet' = <<recv_next([packet |-> packet, pos |-> 0, got |-> <<>>])>>
      /\ lens' = lens
  BY DEF PollRecvPacket
<1>2. lens \in Seq(Nat) /\ ReceivingInv(lens)
  BY DEF UInv
<1>3. PICK in : in = [packet |-> packet, pos |-> 0, got |-> <<>>]
  OBVIOUS
<1>4. Whole(packet, lens)
  BY <1>2 DEF ReceivingInv
<1>5. Reading(in, lens) /\ in.pos # Len(in.packet.bytes)
  BY <1>2, <1>3, <1>4, StartReading
<1>6. Reading(recv_next(in), lens)
  BY <1>2, <1>5, RecvNextReads
<1>7. net' \subseteq net
  BY <1>1
<1>8. faults' \in 0..MaxFaults
  BY <1>1, <1>2, SizesType DEF ReceivingInv
<1>9. \A p \in net' : Whole(p, lens)
  BY <1>2, <1>7 DEF ReceivingInv
<1>10. ReceivingInv(lens)'
  BY <1>1, <1>3, <1>6, <1>8, <1>9 DEF ReceivingInv
<1> QED
  BY <1>10, SendingSame DEF PollRecvPacket

\* The transport loses a packet.
LEMMA LoseInv ==
  ASSUME UInv, NEW packet \in net, Lose(packet)
  PROVE  UInv'
<1>1. /\ net' \subseteq net /\ faults < MaxFaults /\ faults' = faults + 1
      /\ in_packet' = in_packet /\ lens' = lens
  BY DEF Lose
<1>2. ReceivingInv(lens)
  BY DEF UInv
<1>3. faults' \in 0..MaxFaults
  BY <1>1, <1>2, SizesType DEF ReceivingInv
<1>4. ReceivingInv(lens)'
  BY <1>1, <1>2, <1>3 DEF ReceivingInv
<1> QED
  BY <1>4, SendingSame DEF Lose

\* start_send of UnreliableBincodeChannel: the message is pending.
LEMMA StartSendInv ==
  ASSUME UInv, NEW len \in Nat, StartSend(len)
  PROVE  UInv'
<1>1. /\ pending' = len /\ out_packet' = out_packet /\ slot' = slot /\ queue' = queue
      /\ credit' = credit /\ earned' = earned /\ delay' = delay /\ backlog' = backlog
      /\ lens' = lens /\ taken' = taken /\ panicked' = panicked
      /\ net' = net /\ in_packet' = in_packet /\ faults' = faults
  BY DEF StartSend, sending, limiter, receiving
<1>2. Sending' = Sending
  BY <1>1 DEF Sending
<1> QED
  BY <1>1, <1>2 DEF UInv, PanicInv, ReceivingInv

\* Every step keeps the inductive invariant.
LEMMA UInvNext == UInv /\ [Next]_vars => UInv'
<1> SUFFICES ASSUME UInv, [Next]_vars PROVE UInv'
  OBVIOUS
<1>1. ASSUME NEW len \in Nat, PollSendRefused(len) PROVE UInv'
  <2>1. /\ Becomes(poll_flush(Sending)) /\ panicked = <<>>
        /\ UNCHANGED <<pending, lens, taken, receiving, panicked>>
    BY <1>1 DEF PollSendRefused
  <2> QED
    BY <2>1, FlushInv
<1>2. pending \in Nat
  BY DEF UInv
<1>3. ASSUME NEW len \in MessageLens, Send(len) PROVE UInv'
  <2>1. len \in Nat
    BY UnreliableAssumption
  <2>2. CASE PollSend(len) /\ pending' = pending
    BY <1>2, <2>1, <2>2, PollSendInv
  <2>3. CASE PollSendRefused(len)
    BY <1>1, <2>1, <2>3
  <2> QED
    BY <1>3, <2>2, <2>3 DEF Send
<1>4. ASSUME NEW len \in MessageLens, StartSend(len) PROVE UInv'
  <2>1. len \in Nat
    BY UnreliableAssumption
  <2> QED
    BY <1>4, <2>1, StartSendInv
<1>5. CASE PollSendReady
  <2>1. CASE PollSend(pending) /\ pending' = IF panicked' = <<>> THEN 0 ELSE pending
    <3>1. pending' \in Nat
      BY <1>2, <2>1
    <3> QED
      BY <1>2, <2>1, <3>1, PollSendInv
  <2>2. CASE PollSendRefused(pending)
    BY <1>1, <1>2, <2>2
  <2> QED
    BY <1>5, <2>1, <2>2 DEF PollSendReady
<1>6. CASE PollFlush
  <2>1. /\ Becomes(poll_flush(Sending)) /\ panicked = <<>>
        /\ UNCHANGED <<pending, lens, taken, receiving, panicked>>
    BY <1>6 DEF PollFlush
  <2> QED
    BY <2>1, FlushInv
<1>7. ASSUME NEW time \in TimeSteps, Elapse(time) PROVE UInv'
  <2>1. time \in Nat
    BY UnreliableAssumption
  <2> QED
    BY <1>7, <2>1, ElapseInv
<1>8. CASE Transmit
  BY <1>8, TransmitInv
<1>9. CASE PollRecv
  BY <1>9, PollRecvInv
<1>10. ASSUME NEW packet \in net, Lose(packet) PROVE UInv'
  BY <1>10, LoseInv
<1>11. ASSUME NEW packet \in net, PollRecvPacket(packet) PROVE UInv'
  BY <1>11, PollRecvPacketInv
<1>12. CASE UNCHANGED vars
  <2>1. UNCHANGED <<pending, sending, lens, taken, panicked>> /\ UNCHANGED receiving
    BY <1>12 DEF vars
  <2>2. ReceivingInv(lens)'
    BY <2>1 DEF UInv, ReceivingInv, receiving
  <2> QED
    BY <2>1, <2>2, SendingSame
<1> QED
  BY <1>3, <1>4, <1>5, <1>6, <1>7, <1>8, <1>9, <1>10, <1>11, <1>12 DEF Next

\* It holds in every state.
LEMMA UInvariance == Spec => []UInv
BY UInvInit, UInvNext, PTL DEF Spec

\* A message for which send returned Ok was put into a packet or waits in pending_write.
AcceptedInv ==
  /\ pending \in Nat /\ (~wrapped => pending = 0)
  /\ accepted = IF pending > 0 THEN Append(lens, pending) ELSE lens

\* Every step keeps it so.
LEMMA AcceptedStep == AcceptedInv /\ [Next]_vars => AcceptedInv'
<1> SUFFICES ASSUME AcceptedInv, [Next]_vars PROVE AcceptedInv'
  OBVIOUS
<1> USE DEF AcceptedInv
<1>1. CASE UNCHANGED <<wrapped, pending, accepted, lens>>
  BY <1>1
<1>2. ASSUME NEW len \in Nat, PollSend(len)
      PROVE  /\ wrapped' = wrapped /\ panicked = <<>>
             /\ \/ panicked' = <<len>> /\ lens' = lens
                \/ panicked' = <<>> /\ lens' = Append(lens, len)
  BY <1>2 DEF PollSend
<1>3. ASSUME NEW len, PollSendRefused(len) PROVE UNCHANGED <<wrapped, pending, accepted, lens>>
  BY <1>3 DEF PollSendRefused
<1>4. ASSUME NEW len \in MessageLens, Send(len) PROVE AcceptedInv'
  <2>1. len \in Nat /\ pending = 0 /\ accepted = lens
    BY <1>4, UnreliableAssumption DEF Send
  <2>2. CASE /\ PollSend(len) /\ pending' = pending
             /\ accepted' = IF panicked' = <<>> THEN Append(accepted, len) ELSE accepted
    <3>1. CASE panicked' = <<len>> /\ lens' = lens
      BY <1>2, <2>1, <2>2, <3>1
    <3>2. CASE panicked' = <<>> /\ lens' = Append(lens, len)
      BY <1>2, <2>1, <2>2, <3>2
    <3> QED
      BY <1>2, <2>1, <2>2, <3>1, <3>2
  <2>3. CASE PollSendRefused(len)
    BY <1>1, <1>3, <2>3
  <2> QED
    BY <1>4, <2>2, <2>3 DEF Send
<1>5. ASSUME NEW len \in MessageLens, StartSend(len) PROVE AcceptedInv'
  <2>1. len \in Nat
    BY UnreliableAssumption
  <2> QED
    BY <1>5, <2>1 DEF StartSend
<1>6. CASE PollSendReady
  <2>1. pending > 0 /\ accepted = Append(lens, pending) /\ wrapped
    BY <1>6 DEF PollSendReady
  <2>2. CASE /\ PollSend(pending) /\ accepted' = accepted
             /\ pending' = IF panicked' = <<>> THEN 0 ELSE pending
    <3>1. CASE panicked' = <<pending>> /\ lens' = lens
      BY <1>2, <2>1, <2>2, <3>1
    <3>2. CASE panicked' = <<>> /\ lens' = Append(lens, pending)
      BY <1>2, <2>1, <2>2, <3>2
    <3> QED
      BY <1>2, <2>1, <2>2, <3>1, <3>2
  <2>3. CASE PollSendRefused(pending)
    BY <1>1, <1>3, <2>3
  <2> QED
    BY <1>6, <2>2, <2>3 DEF PollSendReady
<1>7. CASE PollFlush
  BY <1>1, <1>7 DEF PollFlush
<1>8. ASSUME NEW time \in TimeSteps, Elapse(time) PROVE AcceptedInv'
  BY <1>1, <1>8 DEF Elapse
<1>9. CASE Transmit
  BY <1>1, <1>9 DEF Transmit
<1>10. CASE PollRecv
  BY <1>1, <1>10 DEF PollRecv
<1>11. ASSUME NEW packet \in net, Lose(packet) \/ PollRecvPacket(packet) PROVE AcceptedInv'
  BY <1>1, <1>11 DEF Lose, PollRecvPacket
<1>12. CASE UNCHANGED vars
  BY <1>1, <1>12 DEF vars
<1> QED
  BY <1>4, <1>5, <1>6, <1>7, <1>8, <1>9, <1>10, <1>11, <1>12 DEF Next

\* So it is in every state.
LEMMA AcceptedInvariance == Spec => []AcceptedInv
<1>1. Init => AcceptedInv
  BY DEF Init, AcceptedInv
<1> QED
  BY <1>1, AcceptedStep, PTL DEF Spec

----------------------------------------------------------------------------
(* The properties. *)

\* A packet of the line is whole, so it is neither empty nor too long.
LEMMA UInvTypeOK == UInv => TypeOK
<1> SUFFICES ASSUME UInv PROVE TypeOK
  OBVIOUS
<1>1. /\ lens \in Seq(Nat) /\ Sending \in Sides /\ Bounded(Sending)
      /\ Framed(out_packet, lens) /\ ReceivingInv(lens)
  BY SendingFields DEF UInv, SideInv, LineInv
<1>2. Len(out_packet.bytes) \in 0..PacketCapacity
  <2>1. out_packet \in Packets /\ Len(out_packet.bytes) <= PacketCapacity
    BY <1>1 DEF Framed
  <2>2. Len(out_packet.bytes) \in Nat
    BY <2>1 DEF Packets
  <2> QED
    BY <2>1, <2>2, SizesType
<1>3. Len(slot) <= 1 /\ Len(queue) <= BufferSize
  BY <1>1, SendingFields DEF Bounded
<1>4. \A packet \in net : Len(packet.bytes) \in 2..PacketCapacity
  BY <1>1, WholePacket DEF ReceivingInv
<1> QED
  BY <1>1, <1>2, <1>3, <1>4 DEF TypeOK, ReceivingInv

\* NothingDropped, of the packets that are waiting.
InOrder(packets) ==
  LET last      == Len(packets)
      Behind(i) == IF i = 1 THEN taken ELSE packets[i - 1].ids[Len(packets[i - 1].ids)]
  IN  /\ \A i \in 1..(last - 1) : packets[i].ids # <<>>
      /\ \A i \in 1..last : \A k \in 1..Len(packets[i].ids) : packets[i].ids[k] = Behind(i) + k
      /\ Len(lens) = Behind(last) + Len(out_packet.ids)

\* Chained, in the terms of the property.
LEMMA UInvNothingDropped == UInv /\ AcceptedInv => NothingDropped
<1> SUFFICES ASSUME UInv, AcceptedInv PROVE NothingDropped
  OBVIOUS
<1>1. PICK line : line = queue \o slot
  OBVIOUS
<1>2. LineInv(line, out_packet, taken, lens)
  BY <1>1, SendingFields DEF UInv, SideInv
<1>3. /\ line \in Seq(Packets) /\ out_packet \in Packets
      /\ \A i \in 1..Len(line) : Whole(line[i], lens)
      /\ Chained(line, out_packet, taken, Len(lens))
  BY <1>2 DEF LineInv, Framed
<1>p. PICK packets : packets = Append(line, out_packet)
  OBVIOUS
<1>m. PICK m \in Nat : m = Len(line)
  BY <1>3
<1>4. packets = Append(line, out_packet) /\ m = Len(line)
  BY <1>p, <1>m
<1>5. /\ Len(packets) = m + 1 /\ packets[m + 1] = out_packet
      /\ \A i \in 1..m : packets[i] = line[i]
  BY <1>3, <1>4
<1>6. \A i \in 1..((m + 1) - 1) : packets[i].ids # <<>>
  <2>1. (m + 1) - 1 = m
    OBVIOUS
  <2> QED
    BY <1>3, <1>4, <1>5, <2>1 DEF Whole
<1>7. ASSUME NEW i \in 1..(m + 1)
      PROVE  LastBefore(line, taken, i)
               = IF i = 1 THEN taken ELSE packets[i - 1].ids[Len(packets[i - 1].ids)]
  <2>1. CASE i = 1
    BY <2>1 DEF LastBefore
  <2>2. CASE i # 1
    <3>1. i - 1 \in 1..m
      BY <2>2
    <3>2. packets[i - 1] = line[i - 1]
      BY <1>5, <3>1
    <3> QED
      BY <2>2, <3>2 DEF LastBefore
  <2> QED
    BY <2>1, <2>2
<1>8. ASSUME NEW i \in 1..(m + 1), NEW k \in 1..Len(packets[i].ids)
      PROVE  packets[i].ids[k] = LastBefore(line, taken, i) + k
  <2>1. CASE i = m + 1
    BY <1>3, <1>4, <1>5, <2>1 DEF Chained
  <2>2. CASE i # m + 1
    <3>1. i \in 1..m
      BY <2>2
    <3> QED
      BY <1>3, <1>4, <1>5, <3>1 DEF Chained
  <2> QED
    BY <2>1, <2>2
<1>9. Len(lens) = LastBefore(line, taken, m + 1) + Len(out_packet.ids) /\ m + 1 \in 1..(m + 1)
  BY <1>3, <1>4 DEF Chained
<1>10. packets = Append(queue \o slot, out_packet)
  BY <1>1, <1>4
<1> DEFINE Behind(i) == IF i = 1 THEN taken ELSE packets[i - 1].ids[Len(packets[i - 1].ids)]
<1>11. /\ \A i \in 1..(m + 1) : LastBefore(line, taken, i) = Behind(i)
       /\ m + 1 \in 1..(m + 1)
  BY <1>7, <1>9
<1>12. \A i \in 1..(m + 1) : \A k \in 1..Len(packets[i].ids) : packets[i].ids[k] = Behind(i) + k
  <2> HIDE DEF Behind
  <2> QED
    BY <1>8, <1>11
<1>13. Len(lens) = Behind(m + 1) + Len(out_packet.ids)
  <2> HIDE DEF Behind
  <2> QED
    BY <1>9, <1>11
<1>14. /\ \A i \in 1..(Len(packets) - 1) : packets[i].ids # <<>>
       /\ \A i \in 1..Len(packets) : \A k \in 1..Len(packets[i].ids) :
             packets[i].ids[k] = Behind(i) + k
       /\ Len(lens) = Behind(Len(packets)) + Len(out_packet.ids)
  <2> HIDE DEF Behind
  <2>1. Len(packets) = m + 1
    BY <1>5
  <2> QED
    BY <1>6, <1>12, <1>13, <2>1
<1>15. InOrder(packets)
  BY <1>14 DEF InOrder
<1>16. InOrder(Append(queue \o slot, out_packet))
  BY <1>10, <1>15
<1> QED
  BY <1>16 DEF NothingDropped, InOrder, AcceptedInv

\* Reading, in the terms of the property.
LEMMA UInvFramingIntact == UInv => FramingIntact
<1> SUFFICES ASSUME UInv, in_packet # <<>> PROVE FramingIntact
  BY DEF FramingIntact
<1>1. lens \in Seq(Nat) /\ ReceivingInv(lens)
  BY DEF UInv
<1>2. PICK in : in_packet = <<in>> /\ Reading(in, lens)
  BY <1>1 DEF ReceivingInv
<1>3. in_packet[1] = in /\ (AtEnd <=> in.pos = Len(in.packet.bytes))
  BY <1>2, InPacket
<1>4. /\ Len(in.got) <= Len(in.packet.ids)
      /\ \A i \in 1..Len(in.got) : in.got[i] = Body(in.packet.ids[i], lens[in.packet.ids[i]])
  BY <1>2 DEF Reading
<1>5. AtEnd => Len(in.got) = Len(in.packet.ids)
  BY <1>1, <1>2, <1>3, ReadToEnd
<1> QED
  BY <1>3, <1>4, <1>5 DEF FramingIntact

\* PanicInv, in the terms of the property.
LEMMA UInvExactFitOnly == UInv => ExactFitOnly
<1> SUFFICES ASSUME UInv, panicked # <<>>
             PROVE  Len(out_packet.bytes) + 2 + panicked[1] = PacketCapacity
  BY DEF ExactFitOnly
<1>1. PICK len \in Nat : panicked = <<len>> /\ Len(out_packet.bytes) + 2 + len = PacketCapacity
  BY DEF UInv, PanicInv
<1>2. panicked[1] = len
  BY <1>1
<1> QED
  BY <1>1, <1>2

\* Paced, in the terms of the property.
LEMMA UInvRateBounded == UInv => RateBounded
<1> SUFFICES ASSUME UInv PROVE RateBounded
  OBVIOUS
<1>1. Sending \in Sides /\ Paced(Sending)
  BY DEF UInv, SideInv
<1>2. credit \in Int /\ earned \in Nat /\ backlog \in Nat
  BY <1>1, SideFields, SendingFields
<1>3. PICK sum \in Int : sum = credit + earned
  BY <1>2
<1>4. sum >= -PacketCapacity
  BY <1>1, <1>3, SendingFields DEF Paced
<1>5. CASE ~(backlog > 0)
  <2>1. backlog = 0 /\ 0 <= Burst + 2 * PacketCapacity
    BY <1>2, <1>5, SizesType
  <2> QED
    BY <2>1 DEF RateBounded
<1>6. CASE backlog > 0 /\ delay = <<>>
  <2>1. backlog + Lesser(sum, Burst) <= Burst + PacketCapacity
    BY <1>1, <1>3, <1>6, SendingFields DEF Paced
  <2>2. PICK low \in Int : low = Lesser(sum, Burst) /\ low >= -PacketCapacity
    BY <1>4, SizesType DEF Lesser
  <2>3. backlog <= Burst + 2 * PacketCapacity
    BY <1>2, <2>1, <2>2, SizesType
  <2> QED
    BY <2>3 DEF RateBounded
<1>7. CASE backlog > 0 /\ delay # <<>>
  <2>1. backlog + credit + earned <= Burst + PacketCapacity
    BY <1>1, <1>7, SendingFields DEF Paced
  <2>2. backlog <= Burst + 2 * PacketCapacity
    BY <1>2, <1>3, <1>4, <2>1, SizesType
  <2> QED
    BY <2>2 DEF RateBounded
<1> QED
  BY <1>5, <1>6, <1>7

(***************************************************************************)
(* No packet given to the transport is empty or longer than the pool       *)
(* allows, and the spsc channel and its slot never hold more than they     *)
(* can, for every capacity.                                                *)
(***************************************************************************)
THEOREM PacketsFit == Spec => []TypeOK
BY UInvariance, UInvTypeOK, PTL

(***************************************************************************)
(* Every message that has bytes and for which send returned Ok waits in    *)
(* pending_write or goes to the transport once, in order and in one        *)
(* packet.                                                                 *)
(***************************************************************************)
THEOREM NothingDroppedHolds == Spec => []NothingDropped
BY UInvariance, AcceptedInvariance, UInvNothingDropped, PTL

(***************************************************************************)
(* recv_next takes exactly the messages out of a packet that start_send    *)
(* and finish put into it, for every length.                               *)
(***************************************************************************)
THEOREM FramingIntactHolds == Spec => []FramingIntact
BY UInvariance, UInvFramingIntact, PTL

(***************************************************************************)
(* The assertion of finish fails only for a message that fills the packet  *)
(* exactly.                                                                *)
(***************************************************************************)
THEOREM ExactFitOnlyHolds == Spec => []ExactFitOnly
BY UInvariance, UInvExactFitOnly, PTL

(***************************************************************************)
(* The bandwidth limiter: whatever the burst and the packets, no stretch   *)
(* of time sends more than it earns, the burst and two packets.            *)
(***************************************************************************)
THEOREM RateBoundedHolds == Spec => []RateBounded
BY UInvariance, UInvRateBounded, PTL

==============================================================================
