------------------------ MODULE ReliableChannelProofs ------------------------
(***************************************************************************)
(* The properties of ReliableChannel for every setting, packet size,       *)
(* length of the stream and number of faults.                              *)
(*                                                                         *)
(* The sender knows ranges, the network packets and the receiver regions.  *)
(* The inductive invariant speaks of all three by spans of offsets from    *)
(* StreamStart.  Its heart is that every byte sent is in the sender's map  *)
(* or at the receiver (Covered), and that ranges which were split by       *)
(* partial acknowledgements still fit the regions the receiver has         *)
(* (Aligned): without it, that the regions stay ahead of the ready bytes   *)
(* would not be inductive.                                                 *)
(***************************************************************************)
EXTENDS ReliableChannel, WindowsProofs

\* Where the bytes not yet sent begin, by its offset.
SendOffset(t) == Offset(t.sw.send_pos)

\* The offsets the receiver has received.
Got(w) == {o \in Nat : Held(StreamStart, w, o)}

\* The end of the receiver's window, by its offset.
WindowEnd(w) == ReadOffset(StreamStart, w) + RecvWindowSize

(***************************************************************************)
(* A span is a pair of offsets.  The spans of the ranges in the task's     *)
(* map, and the span of a data packet.                                     *)
(***************************************************************************)
Spans(t) == {<<Offset(p), Offset(t.unacked[p].end)>> : p \in DOMAIN t.unacked}

Span(packet) == <<Offset(packet.start), Offset(packet.start) + Len(packet.bytes)>>

Entries == [end : StreamPositions, last_sent : BOOLEAN]

\* The task's map has exactly the ranges of the window's list, none longer than a packet.
Agrees(ranges, map) ==
  /\ \A i \in 1..Len(ranges) :
       ranges[i][1] \in DOMAIN map /\ map[ranges[i][1]].end = ranges[i][2]
  /\ \A p \in DOMAIN map : \E i \in 1..Len(ranges) : ranges[i][1] = p
  /\ \A p \in DOMAIN map : map[p] \in Entries
  /\ \A p \in DOMAIN map : WrapSub(map[p].end, p) <= MaxPayload

\* The sending task, when n bytes were written.
SenderInv(t, n) ==
  /\ t = [sw |-> t.sw, rra |-> t.rra, unacked |-> t.unacked]
  /\ t.rra \in Nat
  /\ SendWindowInv(SendWindowSize, t.sw)
  /\ Offset(unacked_start(t.sw)) + t.sw.buf.used = n
  /\ Agrees(t.sw.unacked_ranges, t.unacked)

\* A data packet carries its part of the stream, sent before.
DataOK(t, packet) ==
  /\ packet.start \in StreamPositions
  /\ packet.bytes \in Seq(Int)
  /\ StreamFrom(packet.start, packet.bytes)
  /\ Len(packet.bytes) >= 1 /\ Len(packet.bytes) <= MaxPayload
  /\ Offset(packet.start) + Len(packet.bytes) <= SendOffset(t)

\* An acknowledgement of len bytes from start on: the receiver has them.
Received(w, start, len) ==
  /\ start \in StreamPositions
  /\ len \in Nat /\ len >= 1 /\ len <= MaxPayload
  /\ Offset(start) + len <= StreamLen
  /\ \A o \in Nat : Offset(start) <= o /\ o < Offset(start) + len => o \in Got(w)

AckOK(w, ack) ==
  /\ Received(w, ack.start, ack.len)
  /\ ack.window \in StreamPositions
  /\ Offset(ack.window) <= WindowEnd(w)

AckingOK(w, range) ==
  range # Idle => /\ range[2] \in StreamPositions
                  /\ Received(w, range[1], WrapSub(range[2], range[1]))

\* Every byte sent is in the map or at the receiver.
Covered(t, w) ==
  \A o \in Nat : o < SendOffset(t) => o \in Got(w) \/ \E l \in Spans(t) : l[1] <= o /\ o < l[2]

\* The sender and the receiver.
Linked(t, w) ==
  /\ SendOffset(t) + t.rra <= WindowEnd(w) + InitSend
  /\ \A o \in Got(w) : o < SendOffset(t)
  /\ Covered(t, w)

(***************************************************************************)
(* How the spans of the ranges and packets lie to each other and to the    *)
(* offsets received.  One begins inside another only behind bytes that     *)
(* were received, and what was received does not begin inside one.         *)
(***************************************************************************)
Aligned(G, L) ==
  /\ \A x \in G : x > 0 /\ x - 1 \notin G => \A l \in L : ~(l[1] < x /\ x < l[2])
  /\ \A l, m \in L : l[1] < m[1] /\ m[1] < l[2] => m[1] - 1 \in G

\* The regions received out of order are ahead of the ready bytes.
Beyond(w) ==
  \A i \in 1..Len(w.unready) : WrapSub(w.unready[i][1], StreamStart) > WrapSub(w.recv_pos, StreamStart)

DeliveredOK ==
  /\ delivered \in Seq(Int)
  /\ Len(delivered) = ReadOffset(StreamStart, rw)
  /\ StreamFrom(StreamStart, delivered)

----------------------------------------------------------------------------
(* Spans. *)

IsSpan(l) == l[1] \in Nat /\ l[2] \in Nat /\ l[1] < l[2]

\* Fewer spans.
LEMMA AlignedFewer ==
  ASSUME NEW G, NEW L, NEW M, Aligned(G, L), M \subseteq L
  PROVE  Aligned(G, M)
BY DEF Aligned

\* One more, behind all others and all that was received.
LEMMA AlignedSend ==
  ASSUME NEW G, G \subseteq Nat, NEW L, Aligned(G, L),
         NEW N \in Nat, NEW n \in Nat, \A o \in G : o < N,
         \A l \in L : IsSpan(l) /\ l[2] <= N
  PROVE  Aligned(G, L \cup {<<N, N + n>>})
<1>1. ASSUME NEW x \in G, x > 0, x - 1 \notin G, NEW l \in L \cup {<<N, N + n>>}
      PROVE  ~(l[1] < x /\ x < l[2])
  <2>1. CASE l \in L
    BY <1>1, <2>1 DEF Aligned
  <2>2. CASE l = <<N, N + n>>
    <3>1. l[1] = N
      BY <2>2
    <3> QED
      BY <3>1
  <2> QED
    BY <2>1, <2>2
<1>2. ASSUME NEW l \in L \cup {<<N, N + n>>}, NEW m \in L \cup {<<N, N + n>>},
             l[1] < m[1], m[1] < l[2]
      PROVE  m[1] - 1 \in G
  <2>1. CASE l \in L /\ m \in L
    BY <1>2, <2>1 DEF Aligned
  <2>2. CASE l = <<N, N + n>> /\ m \in L
    <3>1. l[1] = N /\ m[1] \in Nat /\ m[2] \in Nat /\ m[1] < m[2] /\ m[2] <= N
      BY <2>2 DEF IsSpan
    <3> QED
      BY <1>2, <3>1
  <2>3. CASE l \in L /\ m = <<N, N + n>>
    <3>1. m[1] = N /\ l[2] \in Nat /\ l[2] <= N
      BY <2>3 DEF IsSpan
    <3> QED
      BY <1>2, <3>1
  <2>4. CASE l = <<N, N + n>> /\ m = <<N, N + n>>
    <3>1. l[1] = N /\ m[1] = N
      BY <2>4
    <3> QED
      BY <1>2, <3>1
  <2> QED
    BY <2>1, <2>2, <2>3, <2>4
<1> QED
  BY <1>1, <1>2 DEF Aligned

\* The front part of a span is received.
LEMMA AlignedReceive ==
  ASSUME NEW G, G \subseteq Nat, NEW L, Aligned(G, L), \A l \in L : IsSpan(l),
         NEW p \in L, NEW last \in Nat, last <= p[2],
         NEW H, H = G \cup {o \in Nat : p[1] <= o /\ o < last}
  PROVE  Aligned(H, L)
<1>1. PICK s \in Nat : s = p[1]
  BY DEF IsSpan
<1>2. ASSUME NEW x \in H, x > 0, x - 1 \notin H, NEW l \in L
      PROVE  ~(l[1] < x /\ x < l[2])
  <2>1. x \in Nat /\ x - 1 \in Nat
    BY <1>2
  <2>2. CASE x \in G
    BY <1>2, <2>2 DEF Aligned
  <2>3. CASE x \notin G
    <3>1. s <= x /\ x < last
      BY <1>1, <1>2, <2>3
    <3>2. x = s
      BY <1>1, <1>2, <2>1, <3>1
    <3>3. ASSUME l[1] < s, s < l[2] PROVE FALSE
      <4>1. s - 1 \in G
        BY <1>1, <3>3 DEF Aligned
      <4> QED
        BY <1>2, <3>2, <4>1
    <3> QED
      BY <3>2, <3>3
  <2> QED
    BY <2>2, <2>3
<1>3. ASSUME NEW l \in L, NEW m \in L, l[1] < m[1], m[1] < l[2]
      PROVE  m[1] - 1 \in H
  BY <1>3 DEF Aligned
<1> QED
  BY <1>2, <1>3 DEF Aligned

\* The back part of a span whose front part was received.
LEMMA AlignedSplit ==
  ASSUME NEW G, G \subseteq Nat, NEW L, Aligned(G, L), \A l \in L : IsSpan(l),
         NEW p \in L, NEW mid \in Nat, p[1] < mid, mid < p[2], mid - 1 \in G
  PROVE  Aligned(G, L \cup {<<mid, p[2]>>})
<1>1. PICK s \in Nat, e \in Nat : s = p[1] /\ e = p[2]
  BY DEF IsSpan
<1>2. ASSUME NEW x \in G, x > 0, x - 1 \notin G, NEW l \in L \cup {<<mid, p[2]>>}
      PROVE  ~(l[1] < x /\ x < l[2])
  <2>1. CASE l \in L
    BY <1>2, <2>1 DEF Aligned
  <2>2. CASE l = <<mid, p[2]>>
    <3>1. l[1] = mid /\ l[2] = p[2]
      BY <2>2
    <3>2. ~(p[1] < x /\ x < p[2])
      BY <1>2 DEF Aligned
    <3>3. x \in Nat
      OBVIOUS
    <3> QED
      BY <1>1, <3>1, <3>2, <3>3
  <2> QED
    BY <2>1, <2>2
<1>3. ASSUME NEW l \in L \cup {<<mid, p[2]>>}, NEW m \in L \cup {<<mid, p[2]>>},
             l[1] < m[1], m[1] < l[2]
      PROVE  m[1] - 1 \in G
  <2>1. CASE m \in L
    <3>1. m[1] \in Nat
      BY <2>1 DEF IsSpan
    <3>2. CASE l \in L
      BY <1>3, <2>1, <3>2 DEF Aligned
    <3>3. CASE l = <<mid, p[2]>>
      <4>1. l[1] = mid /\ l[2] = p[2]
        BY <3>3
      <4>2. p[1] < m[1] /\ m[1] < p[2]
        BY <1>1, <1>3, <3>1, <4>1
      <4> QED
        BY <2>1, <4>2 DEF Aligned
    <3> QED
      BY <3>2, <3>3
  <2>2. CASE m = <<mid, p[2]>>
    <3>1. m[1] = mid
      BY <2>2
    <3> QED
      BY <3>1
  <2> QED
    BY <2>1, <2>2
<1> QED
  BY <1>2, <1>3 DEF Aligned

\* The assumptions on the constants, as the lemmas use them.
LEMMA ConstantsType ==
  /\ SendWindowSize \in Nat \ {0} /\ SendWindowSize <= MaxWindow
  /\ RecvWindowSize \in Nat \ {0} /\ RecvWindowSize <= MaxWindow
  /\ InitSend \in Nat /\ InitSend > 0 /\ MaxPayload \in Nat /\ MaxPayload > 0
  /\ StreamStart \in StreamPositions
  /\ StreamLen \in Nat /\ StreamLen <= MaxWindow /\ StreamLen + RecvWindowSize <= MaxWindow
  /\ MaxWindow \in Nat /\ Modulus \in Nat /\ Modulus = 2 * MaxWindow + 2
BY ChannelAssumption, HalfRangeAssumption DEF MaxWindow, Modulus

\* The offset of a position is a number.
LEMMA OffsetType ==
  ASSUME NEW p \in StreamPositions
  PROVE  /\ Offset(p) \in Nat /\ Offset(p) < Modulus
         /\ WrapAdd(StreamStart, Offset(p)) = p
         /\ Offset(p) = WrapSub(p, StreamStart)
BY ConstantsType, OffsetOf DEF Offset

\* A position is given by its offset.
LEMMA OffsetsDiffer ==
  ASSUME NEW p \in StreamPositions, NEW q \in StreamPositions, Offset(p) = Offset(q)
  PROVE  p = q
BY ConstantsType, OffsetOf DEF Offset

\* The offset of a position n after another.
LEMMA OffsetAfter ==
  ASSUME NEW p \in StreamPositions, NEW n \in Nat, Offset(p) + n < Modulus
  PROVE  WrapAdd(p, n) \in StreamPositions /\ Offset(WrapAdd(p, n)) = Offset(p) + n
<1>1. PICK i \in Nat : i = Offset(p) /\ i = WrapSub(p, StreamStart)
  BY OffsetType
<1> QED
  BY <1>1, ConstantsType, OffsetAhead DEF Offset

\* Offsets from another position.
LEMMA OffsetFrom ==
  ASSUME NEW p \in StreamPositions, NEW q \in StreamPositions, NEW n \in Nat,
         n = WrapSub(q, p), Offset(p) + n < Modulus
  PROVE  Offset(q) = Offset(p) + n
<1>1. WrapAdd(p, n) = q
  BY OffsetOf
<1> QED
  BY <1>1, OffsetAfter

\* The distance of two positions.
LEMMA OffsetDistance ==
  ASSUME NEW p \in StreamPositions, NEW q \in StreamPositions, NEW n \in Nat,
         Offset(q) = Offset(p) + n
  PROVE  WrapSub(q, p) = n
<1>1. PICK i \in Nat : i = Offset(p) /\ WrapSub(p, StreamStart) = i
  BY OffsetType
<1>2. WrapSub(q, StreamStart) = i + n
  BY <1>1 DEF Offset
<1> QED
  BY <1>1, <1>2, ConstantsType, Distance

\* The plain facts about the sending task.
LEMMA SenderFacts ==
  ASSUME NEW t, NEW n \in Nat, n <= StreamLen, SenderInv(t, n)
  PROVE  /\ t = [sw |-> t.sw, rra |-> t.rra, unacked |-> t.unacked]
         /\ t.rra \in Nat /\ t.sw.sent \in Nat /\ t.sw.buf.used \in Nat
         /\ t.sw.sent <= t.sw.buf.used /\ t.sw.buf.used <= SendWindowSize
         /\ unacked_start(t.sw) \in StreamPositions /\ t.sw.send_pos \in StreamPositions
         /\ Offset(unacked_start(t.sw)) \in Nat
         /\ Offset(unacked_start(t.sw)) + t.sw.buf.used = n
         /\ SendOffset(t) \in Nat
         /\ Offset(unacked_start(t.sw)) + t.sw.sent = SendOffset(t)
         /\ SendOffset(t) <= n
         /\ t.sw.unacked_ranges \in Seq(Ranges)
         /\ Apart(unacked_start(t.sw), t.sw.sent, t.sw.unacked_ranges)
<1>1. /\ SendWindowInv(SendWindowSize, t.sw) /\ t.rra \in Nat
      /\ t = [sw |-> t.sw, rra |-> t.rra, unacked |-> t.unacked]
      /\ Offset(unacked_start(t.sw)) + t.sw.buf.used = n
  BY DEF SenderInv
<1>2. /\ t.sw.sent \in Nat /\ t.sw.buf.used \in Nat
      /\ t.sw.sent <= t.sw.buf.used /\ t.sw.buf.used <= SendWindowSize
      /\ t.sw.send_pos \in StreamPositions /\ unacked_start(t.sw) \in StreamPositions
      /\ WrapSub(t.sw.send_pos, unacked_start(t.sw)) = t.sw.sent
      /\ t.sw.unacked_ranges \in Seq(Ranges)
  BY <1>1, ConstantsType, SendWindowFacts
<1>3. Apart(unacked_start(t.sw), t.sw.sent, t.sw.unacked_ranges)
  BY <1>1 DEF SendWindowInv, Ordered
<1>4. PICK us \in Nat, used \in Nat, sent \in Nat :
        us = Offset(unacked_start(t.sw)) /\ used = t.sw.buf.used /\ sent = t.sw.sent
  BY <1>2, OffsetType
<1>5. us + sent < Modulus /\ us + sent <= n /\ us + used = n
  <2>1. n < Modulus /\ Modulus \in Nat
    BY ConstantsType
  <2>2. us + used = n /\ sent <= used
    BY <1>1, <1>2, <1>4
  <2> QED
    BY <2>1, <2>2
<1>6. SendOffset(t) = us + sent
  BY <1>2, <1>4, <1>5, OffsetFrom DEF SendOffset
<1> QED
  BY <1>1, <1>2, <1>3, <1>4, <1>5, <1>6

\* A range of the task's map.
LEMMA EntryFacts ==
  ASSUME NEW t, NEW n \in Nat, n <= StreamLen, SenderInv(t, n), NEW p \in DOMAIN t.unacked
  PROVE  /\ p \in StreamPositions /\ t.unacked[p].end \in StreamPositions
         /\ Offset(p) \in Nat /\ Offset(t.unacked[p].end) \in Nat
         /\ Offset(unacked_start(t.sw)) <= Offset(p)
         /\ Offset(p) < Offset(t.unacked[p].end) /\ Offset(t.unacked[p].end) <= SendOffset(t)
         /\ WrapSub(t.unacked[p].end, p) \in Nat
         /\ Offset(t.unacked[p].end) = Offset(p) + WrapSub(t.unacked[p].end, p)
         /\ WrapSub(t.unacked[p].end, p) <= MaxPayload
         /\ WrapSub(p, unacked_start(t.sw)) + WrapSub(t.unacked[p].end, p) <= t.sw.buf.used
<1>1. PICK ranges \in Seq(Ranges), base \in StreamPositions, sent \in Nat, us \in Nat, used \in Nat :
        /\ ranges = t.sw.unacked_ranges /\ base = unacked_start(t.sw) /\ sent = t.sw.sent
        /\ us = Offset(base) /\ used = t.sw.buf.used
        /\ us + sent = SendOffset(t) /\ us + used = n /\ sent <= used
        /\ Apart(base, sent, ranges)
  BY SenderFacts
<1>2. /\ \A i \in 1..Len(ranges) : t.unacked[ranges[i][1]].end = ranges[i][2]
      /\ \E i \in 1..Len(ranges) : ranges[i][1] = p
      /\ WrapSub(t.unacked[p].end, p) <= MaxPayload
  BY <1>1 DEF SenderInv, Agrees
<1>3. PICK i \in 1..Len(ranges) : ranges[i][1] = p /\ t.unacked[p].end = ranges[i][2]
  BY <1>2
<1>4. PICK q : q = t.unacked[p].end
  OBVIOUS
<1>5. /\ p \in StreamPositions /\ q \in StreamPositions
      /\ WrapSub(p, base) \in Nat /\ WrapSub(q, base) \in Nat
      /\ WrapSub(p, base) < WrapSub(q, base) /\ WrapSub(q, base) <= sent
      /\ WrapSub(q, p) = WrapSub(q, base) - WrapSub(p, base)
  BY <1>1, <1>3, <1>4, ApartOffsets, SMTT(30)
<1>6. PICK a \in Nat, b \in Nat : a = WrapSub(p, base) /\ b = WrapSub(q, base)
  BY <1>5
<1>7. /\ us + a < Modulus /\ us + b < Modulus /\ a < b /\ b <= sent /\ us + b <= us + sent
      /\ b <= used
  <2>1. n < Modulus /\ Modulus \in Nat
    BY ConstantsType
  <2>2. us + used = n /\ sent <= used /\ a < b /\ b <= sent
    BY <1>1, <1>5, <1>6
  <2> QED
    BY <2>1, <2>2
<1>8. Offset(p) = us + a /\ Offset(q) = us + b
  BY <1>1, <1>5, <1>6, <1>7, OffsetFrom
<1>9. WrapSub(q, p) = b - a
  BY <1>5, <1>6
<1>10. /\ us + a < us + b /\ us <= us + a /\ b - a \in Nat /\ us + b = (us + a) + (b - a)
       /\ a + (b - a) <= used
  BY <1>7
<1>11. PICK d \in Nat : d = b - a
  BY <1>10
<1>12. /\ WrapSub(q, p) = d /\ Offset(q) = Offset(p) + d /\ a + d <= used
       /\ Offset(p) < Offset(q) /\ us <= Offset(p)
       /\ Offset(p) \in Nat /\ Offset(q) \in Nat /\ Offset(q) <= SendOffset(t)
  <2>1. us + b = (us + a) + d /\ a + d <= used /\ us + b <= us + sent
    BY <1>7, <1>10, <1>11
  <2> QED
    BY <1>1, <1>8, <1>9, <1>10, <1>11, <2>1
<1> QED
  BY <1>1, <1>2, <1>4, <1>5, <1>6, <1>12

\* The spans of the ranges.
LEMMA SpansType ==
  ASSUME NEW t, NEW n \in Nat, n <= StreamLen, SenderInv(t, n), NEW l \in Spans(t)
  PROVE  IsSpan(l) /\ l[2] <= SendOffset(t) /\ Offset(unacked_start(t.sw)) <= l[1]
<1>1. PICK p \in DOMAIN t.unacked : l = <<Offset(p), Offset(t.unacked[p].end)>>
  BY DEF Spans
<1>2. l[1] = Offset(p) /\ l[2] = Offset(t.unacked[p].end)
  BY <1>1
<1> QED
  BY <1>2, EntryFacts DEF IsSpan

\* Two tasks whose maps have the same ranges have the same spans.
LEMMA SameSpans ==
  ASSUME NEW t, NEW u, DOMAIN u.unacked = DOMAIN t.unacked,
         \A p \in DOMAIN t.unacked : u.unacked[p].end = t.unacked[p].end
  PROVE  Spans(u) = Spans(t)
BY DEF Spans

\* What Task::send does when it sends.
Sent(t, after, n, amt) ==
  /\ SenderInv(after, n)
  /\ amt <= MaxPayload /\ amt <= t.rra
  /\ after.rra = t.rra - amt
  /\ SendOffset(after) = SendOffset(t) + amt
  /\ Spans(after) = Spans(t) \cup {<<SendOffset(t), SendOffset(t) + amt>>}
  /\ \A packet \in SendPackets(t) :
       DataOK(after, packet) /\ Span(packet) = <<SendOffset(t), SendOffset(t) + amt>>

\* Task::send keeps the sender's invariant.
LEMMA SendKeeps ==
  ASSUME NEW t, NEW n \in Nat, n <= StreamLen, SenderInv(t, n),
         NEW amt \in Nat, amt = SendAmt(t), amt > 0, NEW after, after = Send(t)
  PROVE  Sent(t, after, n, amt)
<1>1. PICK us \in Nat, sent \in Nat, used \in Nat, rra \in Nat, N \in Nat :
        /\ us = Offset(unacked_start(t.sw)) /\ sent = t.sw.sent /\ used = t.sw.buf.used
        /\ rra = t.rra /\ N = SendOffset(t)
        /\ us + used = n /\ us + sent = N /\ sent <= used
  BY SenderFacts
<1>2. PICK ranges \in Seq(Ranges), start \in StreamPositions, base \in StreamPositions :
        /\ ranges = t.sw.unacked_ranges /\ start = t.sw.send_pos /\ base = unacked_start(t.sw)
        /\ Apart(base, sent, ranges)
  BY <1>1, SenderFacts
<1>3. N = Offset(start) /\ SendWindowInv(SendWindowSize, t.sw) /\ Agrees(ranges, t.unacked)
  BY <1>1, <1>2 DEF SendOffset, SenderInv
<1>25. us + used = n /\ us + sent = N /\ sent <= used
  BY <1>1
<1>24. PICK room \in Nat : room = send_available(t.sw) /\ sent + room = used
  <2>1. send_available(t.sw) = used - sent
    BY <1>1 DEF send_available, read_available
  <2>2. used - sent \in Nat /\ sent + (used - sent) = used
    BY <1>25
  <2> QED
    BY <2>1, <2>2
<1>4. amt <= room /\ amt <= rra /\ amt <= MaxPayload /\ sent + amt <= used
  <2>1. amt = Lesser3(room, rra, MaxPayload) /\ MaxPayload \in Nat
    BY <1>1, <1>24, ConstantsType DEF SendAmt
  <2>2. amt <= room /\ amt <= rra /\ amt <= MaxPayload
    BY <2>1 DEF Lesser3
  <2> QED
    BY <1>24, <2>2
<1>5. SendLen(t.sw, amt) = amt /\ SendLen(t.sw, amt) # 0
  <2>1. SendLen(t.sw, amt) = IF room <= amt THEN room ELSE amt
    BY <1>24 DEF SendLen
  <2> QED
    BY <1>4, <2>1
<1>6. PICK end : end = WrapAdd(start, amt)
  OBVIOUS
<1>7. N + amt <= n /\ N + amt < Modulus
  <2>1. n < Modulus /\ Modulus \in Nat
    BY ConstantsType
  <2>2. N + amt <= n
    <3>1. sent + amt <= used
      BY <1>4
    <3> QED
      BY <1>25, <3>1
  <2> QED
    BY <2>1, <2>2
<1>8. end \in StreamPositions /\ Offset(end) = N + amt
  BY <1>3, <1>6, <1>7, OffsetAfter
<1>9. PICK sw : sw = send(t.sw, amt)
  OBVIOUS
<1>10. /\ SendWindowInv(SendWindowSize, sw)
       /\ sw.buf = t.sw.buf
       /\ sw.send_pos = end
       /\ sw.unacked_ranges = Append(ranges, <<start, end>>)
       /\ unacked_start(sw) = unacked_start(t.sw)
  <2>1. /\ SendWindowInv(SendWindowSize, sw)
        /\ sw.buf = t.sw.buf
        /\ sw.send_pos = WrapAdd(t.sw.send_pos, SendLen(t.sw, amt))
        /\ sw.unacked_ranges = Append(t.sw.unacked_ranges,
             <<t.sw.send_pos, WrapAdd(t.sw.send_pos, SendLen(t.sw, amt))>>)
        /\ unacked_start(sw) = unacked_start(t.sw)
    <3>1. SendWindowInv(SendWindowSize, t.sw) /\ SendLen(t.sw, amt) # 0
      BY <1>3, <1>5
    <3>2. SendWindowSize \in Nat \ {0} /\ SendWindowSize <= MaxWindow
      BY ConstantsType
    <3>3. PICK w : w = t.sw
      OBVIOUS
    <3>4. /\ SendWindowInv(SendWindowSize, sw) /\ sw.buf = w.buf
          /\ sw.send_pos = WrapAdd(w.send_pos, SendLen(w, amt))
          /\ sw.unacked_ranges = Append(w.unacked_ranges,
               <<w.send_pos, WrapAdd(w.send_pos, SendLen(w, amt))>>)
          /\ unacked_start(sw) = unacked_start(w)
      BY <1>9, <3>1, <3>2, <3>3, SendInv, SMTT(30)
    <3> QED
      BY <3>3, <3>4
  <2> QED
    BY <1>2, <1>5, <1>6, <2>1
<1>11. PICK entry : entry = [end |-> end, last_sent |-> TRUE]
  OBVIOUS
<1>12. after = [sw |-> sw, rra |-> rra - amt, unacked |-> Insert(t.unacked, start, entry)]
  <2>1. SentRange(t.sw, amt) = <<start, end>>
    BY <1>2, <1>5, <1>6 DEF SentRange
  <2> QED
    BY <1>1, <1>9, <1>11, <2>1 DEF Send
<1>13. PICK map : map = Insert(t.unacked, start, entry)
  OBVIOUS
<1>14. after.sw = sw /\ after.rra = rra - amt /\ after.unacked = map
       /\ after = [sw |-> sw, rra |-> rra - amt, unacked |-> map]
  BY <1>12, <1>13
<1>15. /\ DOMAIN map = DOMAIN t.unacked \cup {start}
       /\ map[start] = entry
       /\ \A p \in DOMAIN t.unacked : p # start => map[p] = t.unacked[p]
  BY <1>13 DEF Insert
<1>16. ASSUME NEW i \in 1..Len(ranges) PROVE ranges[i][1] # start
  <2>1. ranges[i][1] \in DOMAIN t.unacked
    BY <1>3 DEF Agrees
  <2>2. Offset(ranges[i][1]) < Offset(t.unacked[ranges[i][1]].end)
        /\ Offset(t.unacked[ranges[i][1]].end) <= N
        /\ Offset(ranges[i][1]) \in Nat /\ Offset(t.unacked[ranges[i][1]].end) \in Nat
    BY <1>1, <2>1, EntryFacts
  <2> QED
    BY <1>3, <2>2
<1>17. start \notin DOMAIN t.unacked
  BY <1>3, <1>16 DEF Agrees
<1>18. entry \in Entries /\ entry.end = end /\ WrapSub(end, start) = amt
  BY <1>3, <1>8, <1>11, OffsetDistance DEF Entries
<1>19. Agrees(sw.unacked_ranges, map)
  <2>1. PICK new : new = Append(ranges, <<start, end>>)
    OBVIOUS
  <2>2. PICK k \in Nat : k = Len(ranges)
    BY LenProperties
  <2>3. Len(new) = k + 1 /\ new[k + 1] = <<start, end>> /\ \A i \in 1..k : new[i] = ranges[i]
    BY <2>1, <2>2
  <2>4. ASSUME NEW i \in 1..Len(new)
        PROVE  new[i][1] \in DOMAIN map /\ map[new[i][1]].end = new[i][2]
    <3>1. CASE i \in 1..k
      <4>1. new[i] = ranges[i] /\ ranges[i][1] # start
        BY <1>16, <2>2, <2>3, <3>1
      <4>2. ranges[i][1] \in DOMAIN t.unacked /\ t.unacked[ranges[i][1]].end = ranges[i][2]
        BY <1>3, <2>2, <3>1 DEF Agrees
      <4> QED
        BY <1>15, <4>1, <4>2
    <3>2. CASE i = k + 1
      <4>1. new[i][1] = start /\ new[i][2] = end
        BY <2>3, <3>2
      <4> QED
        BY <1>15, <1>18, <4>1
    <3> QED
      BY <2>3, <3>1, <3>2
  <2>5. ASSUME NEW p \in DOMAIN map PROVE \E i \in 1..Len(new) : new[i][1] = p
    <3>1. CASE p = start
      <4>1. k + 1 \in 1..Len(new) /\ new[k + 1][1] = start
        BY <2>3
      <4> QED
        BY <3>1, <4>1
    <3>2. CASE p # start
      <4>1. PICK i \in 1..Len(ranges) : ranges[i][1] = p
        BY <1>3, <1>15, <3>2 DEF Agrees
      <4>2. i \in 1..k /\ i \in 1..Len(new)
        BY <2>2, <2>3
      <4> QED
        BY <2>3, <4>1, <4>2
    <3> QED
      BY <3>1, <3>2
  <2>6. ASSUME NEW p \in DOMAIN map
        PROVE  map[p] \in Entries /\ WrapSub(map[p].end, p) <= MaxPayload
    <3>1. CASE p = start
      BY <1>4, <1>15, <1>18, <3>1
    <3>2. CASE p # start
      BY <1>3, <1>15, <3>2 DEF Agrees
    <3> QED
      BY <3>1, <3>2
  <2>7. Agrees(new, map)
    BY <2>4, <2>5, <2>6 DEF Agrees
  <2> QED
    BY <1>10, <2>1, <2>7
<1>20. SenderInv(after, n)
  <2>1. rra - amt \in Nat
    BY <1>4
  <2>2. Offset(unacked_start(sw)) + sw.buf.used = n
    BY <1>1, <1>10
  <2> QED
    BY <1>10, <1>14, <1>19, <2>1, <2>2 DEF SenderInv
<1>21. SendOffset(after) = N + amt
  BY <1>8, <1>10, <1>14 DEF SendOffset
<1>22. Spans(after) = Spans(t) \cup {<<N, N + amt>>}
  <2>1. Spans(after) = {<<Offset(p), Offset(map[p].end)>> : p \in DOMAIN t.unacked \cup {start}}
    BY <1>14, <1>15 DEF Spans
  <2>2. <<Offset(start), Offset(map[start].end)>> = <<N, N + amt>>
    BY <1>3, <1>8, <1>15, <1>18
  <2>3. \A p \in DOMAIN t.unacked : map[p] = t.unacked[p]
    BY <1>15, <1>17
  <2> QED
    BY <2>1, <2>2, <2>3 DEF Spans
<1>23. ASSUME NEW packet \in SendPackets(t)
       PROVE  DataOK(after, packet) /\ Span(packet) = <<N, N + amt>>
  <2>1. packet = Packet(start, SentData(t.sw, amt))
    BY <1>2 DEF SendPackets
  <2>2. PICK bytes : bytes = Read(t.sw.buf, sent, amt)
    OBVIOUS
  <2>3. packet.start = start /\ packet.bytes = bytes
    BY <1>1, <1>5, <2>1, <2>2 DEF Packet, SentData
  <2>4. t.sw.buf \in Queues(SendWindowSize) /\ sent + amt <= t.sw.buf.used
    BY <1>1, <1>3, <1>4 DEF SendWindowInv, SendWindows
  <2>10. PICK q \in Queues(SendWindowSize) : q = t.sw.buf /\ sent + amt <= q.used
    BY <2>4
  <2>11. SendWindowSize \in Nat /\ bytes = Read(q, sent, amt)
    BY <2>2, <2>10, ConstantsType
  <2>5. bytes \in [1..amt -> Int] /\ \A i \in 1..amt : bytes[i] = q.cells[sent + i - 1]
    BY <2>10, <2>11, ReadReturns
  <2>6. bytes \in Seq(Int) /\ Len(bytes) = amt
    BY <2>5
  <2>7. ASSUME NEW i \in 1..amt PROVE bytes[i] = WrapAdd(start, i - 1)
    <3>6. PICK j \in Nat : j = i - 1 /\ j + 1 = i /\ j < amt
      OBVIOUS
    <3>1. sent + j \in 0..(used - 1) /\ sent + i - 1 = sent + j /\ i - 1 \in Nat
      BY <1>4, <3>6
    <3>2. bytes[i] = WrapAdd(base, sent + (i - 1))
      <4>1. \A k \in 0..(used - 1) : q.cells[k] = WrapAdd(base, k)
        BY <1>1, <1>2, <1>3, <2>10 DEF SendWindowInv, KeepsStream
      <4>2. bytes[i] = q.cells[sent + j]
        BY <2>5, <3>1
      <4> QED
        BY <3>1, <3>6, <4>1, <4>2
    <3>3. sent + (i - 1) < Modulus
      <4>1. used <= n /\ n < Modulus /\ Modulus \in Nat
        <5>1. n < Modulus /\ Modulus \in Nat
          BY ConstantsType
        <5> QED
          BY <1>25, <5>1
      <4>2. sent + j < Modulus
        BY <1>4, <3>6, <4>1
      <4> QED
        BY <3>6, <4>2
    <3>4. WrapAdd(WrapAdd(base, sent), i - 1) = WrapAdd(base, sent + (i - 1))
      BY <3>1, <3>3, WrapAddAssociative
    <3>5. WrapAdd(base, sent) = start
      BY <1>1, <1>2, <1>3, ConstantsType, SendWindowFacts
    <3> QED
      BY <3>2, <3>4, <3>5
  <2>8. StreamFrom(start, bytes)
    BY <2>6, <2>7 DEF StreamFrom
  <2>9. amt >= 1 /\ N + amt <= N + amt
    OBVIOUS
  <2> QED
    BY <1>3, <1>4, <1>21, <2>3, <2>6, <2>8, <2>9 DEF DataOK, Span
<1> QED
  BY <1>1, <1>4, <1>14, <1>20, <1>21, <1>22, <1>23 DEF Sent

\* Only the allowance changes.
LEMMA AllowanceKeeps ==
  ASSUME NEW t, NEW n \in Nat, n <= StreamLen, SenderInv(t, n), NEW rra \in Nat,
         NEW after, after = [t EXCEPT !.rra = rra]
  PROVE  /\ SenderInv(after, n) /\ after.rra = rra
         /\ after.sw = t.sw /\ after.unacked = t.unacked
         /\ SendOffset(after) = SendOffset(t) /\ Spans(after) = Spans(t)
<1>1. t = [sw |-> t.sw, rra |-> t.rra, unacked |-> t.unacked]
  BY DEF SenderInv
<1>2. after = [sw |-> t.sw, rra |-> rra, unacked |-> t.unacked]
  BY <1>1
<1>3. after.sw = t.sw /\ after.rra = rra /\ after.unacked = t.unacked
  BY <1>2
<1>4. SenderInv(after, n)
  BY <1>2, <1>3 DEF SenderInv
<1> QED
  BY <1>3, <1>4 DEF SendOffset, Spans

\* What Task::resend does: the ranges stay, and the packets are ranges of the map.
LEMMA ResendKeeps ==
  ASSUME NEW t, NEW n \in Nat, n <= StreamLen, SenderInv(t, n),
         NEW S, S \subseteq DOMAIN t.unacked, NEW after, after = Resend(t, S)
  PROVE  /\ SenderInv(after, n) /\ after.sw = t.sw /\ after.rra = t.rra
         /\ DOMAIN after.unacked = DOMAIN t.unacked
         /\ SendOffset(after) = SendOffset(t) /\ Spans(after) = Spans(t)
<1>1. t = [sw |-> t.sw, rra |-> t.rra, unacked |-> t.unacked] /\ SenderInv(t, n)
  BY DEF SenderInv
<1> DEFINE map == [p \in DOMAIN t.unacked |->
                     IF p \in S THEN [t.unacked[p] EXCEPT !.last_sent = TRUE] ELSE t.unacked[p]]
<1>2. after = [sw |-> t.sw, rra |-> t.rra, unacked |-> map]
  BY <1>1 DEF Resend
<1>3. after.sw = t.sw /\ after.rra = t.rra /\ after.unacked = map
  BY <1>2
<1>4. DOMAIN map = DOMAIN t.unacked
  OBVIOUS
<1>5. ASSUME NEW p \in DOMAIN t.unacked
      PROVE  map[p] \in Entries /\ map[p].end = t.unacked[p].end
  <2>1. t.unacked[p] \in Entries
    BY DEF SenderInv, Agrees
  <2> QED
    BY <2>1 DEF Entries
<1> HIDE DEF map
<1>6. Agrees(t.sw.unacked_ranges, t.unacked)
  BY DEF SenderInv
<1>7. Agrees(t.sw.unacked_ranges, map)
  <2>1. ASSUME NEW i \in 1..Len(t.sw.unacked_ranges)
        PROVE  /\ t.sw.unacked_ranges[i][1] \in DOMAIN map
               /\ map[t.sw.unacked_ranges[i][1]].end = t.sw.unacked_ranges[i][2]
    BY <1>4, <1>5, <1>6 DEF Agrees
  <2>2. ASSUME NEW p \in DOMAIN map
        PROVE  /\ \E i \in 1..Len(t.sw.unacked_ranges) : t.sw.unacked_ranges[i][1] = p
               /\ map[p] \in Entries /\ WrapSub(map[p].end, p) <= MaxPayload
    BY <1>4, <1>5, <1>6 DEF Agrees
  <2> QED
    BY <2>1, <2>2 DEF Agrees
<1>8. SenderInv(after, n)
  BY <1>1, <1>2, <1>3, <1>7 DEF SenderInv
<1>9. Spans(after) = Spans(t)
  BY <1>3, <1>4, <1>5, SameSpans
<1> QED
  BY <1>3, <1>4, <1>8, <1>9 DEF SendOffset

\* The packets of Task::resend carry their part of the stream; get_unacked finds it.
LEMMA ResendSends ==
  ASSUME NEW t, NEW n \in Nat, n <= StreamLen, SenderInv(t, n),
         NEW S, S \subseteq DOMAIN t.unacked
  PROVE  /\ ~ResendPanics(t, S)
         /\ \A packet \in ResendPackets(t, S) : DataOK(t, packet) /\ Span(packet) \in Spans(t)
<1>1. ASSUME NEW p \in S
      PROVE  \E len \in Nat :
               /\ len = WrapSub(t.unacked[p].end, p) /\ len >= 1 /\ len <= MaxPayload
               /\ p \in StreamPositions /\ Offset(t.unacked[p].end) = Offset(p) + len
               /\ Offset(p) + len <= SendOffset(t)
               /\ Resent(t, p) \in Seq(Int) /\ Len(Resent(t, p)) = len
               /\ StreamFrom(p, Resent(t, p))
  <2>1. PICK len \in Nat, a \in Nat, b \in Nat :
          /\ len = WrapSub(t.unacked[p].end, p) /\ len <= MaxPayload
          /\ p \in StreamPositions /\ a = Offset(p) /\ b = Offset(t.unacked[p].end)
          /\ b = a + len /\ a < b /\ b <= SendOffset(t)
          /\ WrapSub(p, unacked_start(t.sw)) + len <= t.sw.buf.used
    BY EntryFacts
  <2>2. len >= 1
    BY <2>1
  <2>3. SendWindowInv(SendWindowSize, t.sw)
    BY DEF SenderInv
  <2>4. Resent(t, p) = [k \in 1..len |-> WrapAdd(p, k - 1)]
    BY <2>1, <2>3, ConstantsType, GetUnacked, SMTT(30) DEF Resent
  <2>5. \A k \in 1..len : WrapAdd(p, k - 1) \in Int
    BY <2>1, HalfRangeAssumption DEF WrapAdd, StreamPositions, Modulus
  <2>6. PICK bytes : bytes = [k \in 1..len |-> WrapAdd(p, k - 1)]
    OBVIOUS
  <2>7. bytes \in [1..len -> Int] /\ \A k \in 1..len : bytes[k] = WrapAdd(p, k - 1)
    BY <2>5, <2>6
  <2>8. bytes \in Seq(Int) /\ Len(bytes) = len
    BY <2>7
  <2>9. StreamFrom(p, bytes)
    BY <2>7, <2>8 DEF StreamFrom
  <2> QED
    BY <2>1, <2>2, <2>4, <2>6, <2>8, <2>9
<1>2. ~ResendPanics(t, S)
  BY <1>1 DEF ResendPanics
<1>3. ASSUME NEW packet \in ResendPackets(t, S)
      PROVE  DataOK(t, packet) /\ Span(packet) \in Spans(t)
  <2>1. PICK p \in S : packet = Packet(p, Resent(t, p))
    BY DEF ResendPackets
  <2>2. packet.start = p /\ packet.bytes = Resent(t, p)
    BY <2>1 DEF Packet
  <2>3. PICK len \in Nat :
          /\ len >= 1 /\ len <= MaxPayload
          /\ p \in StreamPositions /\ Offset(t.unacked[p].end) = Offset(p) + len
          /\ Offset(p) + len <= SendOffset(t)
          /\ Resent(t, p) \in Seq(Int) /\ Len(Resent(t, p)) = len
          /\ StreamFrom(p, Resent(t, p))
    BY <1>1
  <2>4. DataOK(t, packet)
    BY <2>2, <2>3 DEF DataOK
  <2>5. Span(packet) = <<Offset(p), Offset(t.unacked[p].end)>>
    BY <2>2, <2>3 DEF Span
  <2> QED
    BY <2>4, <2>5 DEF Spans
<1> QED
  BY <1>2, <1>3

\* No other range of the list starts where an acknowledged one does, or where its rest does.
LEMMA StartsDiffer ==
  ASSUME NEW base \in StreamPositions, NEW sent \in Nat, NEW ranges \in Seq(Ranges),
         Apart(base, sent, ranges), NEW i \in 1..Len(ranges), NEW end \in StreamPositions,
         Hit(ranges[i], ranges[i][1], end), NEW k \in 1..Len(ranges), k # i
  PROVE  /\ ranges[k][1] # ranges[i][1]
         /\ end # ranges[i][2] => ranges[k][1] # end
<1>1. PICK a \in Nat, b \in Nat, c \in Nat, d \in Nat :
        /\ a = WrapSub(ranges[i][1], base) /\ b = WrapSub(ranges[i][2], base)
        /\ c = WrapSub(ranges[k][1], base) /\ d = WrapSub(ranges[k][2], base)
        /\ a < b /\ c < d
        /\ ranges[i][1] \in StreamPositions /\ ranges[i][2] \in StreamPositions
        /\ ranges[k][1] \in StreamPositions
  <2>1. /\ WrapSub(ranges[i][1], base) \in Nat /\ WrapSub(ranges[i][2], base) \in Nat
        /\ WrapSub(ranges[i][1], base) < WrapSub(ranges[i][2], base)
        /\ ranges[i][1] \in StreamPositions /\ ranges[i][2] \in StreamPositions
    BY ApartOffsets
  <2>2. /\ WrapSub(ranges[k][1], base) \in Nat /\ WrapSub(ranges[k][2], base) \in Nat
        /\ WrapSub(ranges[k][1], base) < WrapSub(ranges[k][2], base)
        /\ ranges[k][1] \in StreamPositions
    BY ApartOffsets
  <2> QED
    BY <2>1, <2>2
<1>2. /\ i < k => b <= c
      /\ k < i => d <= a
  BY <1>1 DEF Apart
<1>3. WrapSub(end, ranges[i][1]) \in 1..WrapSub(ranges[i][2], ranges[i][1])
  BY DEF Hit
<1>4. a < WrapSub(end, base) /\ WrapSub(end, base) <= b
  BY <1>1, <1>3, HitOffsets, SMTT(30)
<1>5. PICK e \in Nat : e = WrapSub(end, base) /\ a < e /\ e <= b
  <2>1. WrapSub(end, base) \in Nat
    BY OffsetOf, ConstantsType
  <2> QED
    BY <1>4, <2>1
<1>6. end # ranges[i][2] => e # b
  BY <1>1, <1>5, OffsetOf, ZenonT(60)
<1>7. c # a /\ (e # b => c # e)
  <2>1. i < k \/ k < i
    OBVIOUS
  <2>2. CASE i < k
    BY <1>1, <1>2, <1>5, <2>2
  <2>3. CASE k < i
    BY <1>1, <1>2, <1>5, <2>3
  <2> QED
    BY <2>1, <2>2, <2>3
<1> QED
  BY <1>1, <1>5, <1>6, <1>7

\* The maps before and after the acknowledgement of range i up to end.
AckedMaps(ranges, i, end, map, after) ==
  LET r     == ranges[i]
      entry == [end |-> r[2], last_sent |-> FALSE]
  IN  /\ Agrees(ranges, map)
      /\ Hit(r, r[1], end)
      /\ end = r[2] => after = Remove(map, r[1])
      /\ end # r[2] => /\ after = Insert(Remove(map, r[1]), end, entry)
                       /\ WrapSub(r[2], end) <= MaxPayload

RangeAcked(ranges, i, end, map, after) ==
  end = ranges[i][2] =>
    /\ Agrees(Remaining(ranges, i, end), after)
    /\ DOMAIN after = DOMAIN map \ {ranges[i][1]}
    /\ \A p \in DOMAIN after : after[p] = map[p]

RestKept(ranges, i, end, map, after) ==
  end # ranges[i][2] =>
    /\ Agrees(Remaining(ranges, i, end), after)
    /\ DOMAIN after = (DOMAIN map \ {ranges[i][1]}) \cup {end}
    /\ after[end].end = ranges[i][2]
    /\ \A p \in DOMAIN map : p # ranges[i][1] => p # end /\ after[p] = map[p]

\* The map without an acknowledged range.
LEMMA AgreesAck ==
  ASSUME NEW base \in StreamPositions, NEW sent \in Nat, NEW ranges \in Seq(Ranges),
         Apart(base, sent, ranges), NEW i \in 1..Len(ranges),
         NEW end \in StreamPositions, NEW map, NEW after,
         AckedMaps(ranges, i, end, map, after)
  PROVE  RangeAcked(ranges, i, end, map, after)
<1> USE DEF RangeAcked
<1>11. PICK left : left = Remaining(ranges, i, end)
  OBVIOUS
<1>10. /\ left \in Seq(Ranges)
       /\ end = ranges[i][2] =>
            /\ Len(left) = Len(ranges) - 1
            /\ \A k \in 1..Len(left) : left[k] = IF k < i THEN ranges[k] ELSE ranges[k + 1]
       /\ end # ranges[i][2] =>
            /\ Len(left) = Len(ranges)
            /\ \A k \in 1..Len(left) :
                 left[k] = IF k = i THEN <<end, ranges[i][2]>> ELSE ranges[k]
  BY <1>11, RemainingRanges
<1>1. SUFFICES ASSUME end = ranges[i][2]
               PROVE  /\ Agrees(Remaining(ranges, i, end), after)
                      /\ DOMAIN after = DOMAIN map \ {ranges[i][1]}
                      /\ \A p \in DOMAIN after : after[p] = map[p]
  OBVIOUS
<1>12. Agrees(ranges, map) /\ Hit(ranges[i], ranges[i][1], end) /\ after = Remove(map, ranges[i][1])
  BY <1>1 DEF AckedMaps
<1>2. PICK n \in Nat : n = Len(ranges) /\ i <= n
  BY LenProperties
<1>3. ranges[i][1] \in StreamPositions /\ ranges[i][2] \in StreamPositions
  BY ApartOffsets
<1>4. /\ Len(left) = n - 1
      /\ \A k \in 1..Len(left) : left[k] = IF k < i THEN ranges[k] ELSE ranges[k + 1]
  BY <1>2, <1>10, <1>1
<1>5. DOMAIN after = DOMAIN map \ {ranges[i][1]} /\ \A p \in DOMAIN after : after[p] = map[p]
  BY <1>12 DEF Remove
<1>6. ASSUME NEW k \in 1..n, k # i
      PROVE  ranges[k][1] \in DOMAIN after /\ after[ranges[k][1]].end = ranges[k][2]
  <2>1. ranges[k][1] # ranges[i][1]
    BY <1>2, <1>3, <1>6, <1>12, StartsDiffer
  <2>2. ranges[k][1] \in DOMAIN map /\ map[ranges[k][1]].end = ranges[k][2]
    BY <1>2, <1>12 DEF Agrees
  <2> QED
    BY <1>5, <2>1, <2>2
<1>7. ASSUME NEW k \in 1..Len(left)
      PROVE  left[k][1] \in DOMAIN after /\ after[left[k][1]].end = left[k][2]
  <2>1. CASE k < i
    <3>1. k \in 1..n /\ k # i /\ left[k] = ranges[k]
      BY <1>2, <1>4, <2>1
    <3> QED
      BY <1>6, <3>1
  <2>2. CASE ~(k < i)
    <3>1. k + 1 \in 1..n /\ k + 1 # i /\ left[k] = ranges[k + 1]
      BY <1>2, <1>4, <2>2
    <3> QED
      BY <1>6, <3>1
  <2> QED
    BY <2>1, <2>2
<1>8. ASSUME NEW p \in DOMAIN after
      PROVE  /\ \E k \in 1..Len(left) : left[k][1] = p
             /\ after[p] \in Entries /\ WrapSub(after[p].end, p) <= MaxPayload
  <2>1. p \in DOMAIN map /\ p # ranges[i][1] /\ after[p] = map[p]
    BY <1>5
  <2>2. PICK j \in 1..n : ranges[j][1] = p
    BY <1>2, <1>12, <2>1 DEF Agrees
  <2>3. CASE j < i
    <3>1. j \in 1..Len(left) /\ left[j] = ranges[j]
      BY <1>2, <1>4, <2>3
    <3> QED
      BY <2>1, <2>2, <3>1, <1>12 DEF Agrees
  <2>4. CASE ~(j < i)
    <3>1. j # i
      BY <2>1, <2>2
    <3>2. PICK k \in 1..Len(left) : k = j - 1 /\ left[k] = ranges[j]
      <4>1. j - 1 \in 1..Len(left) /\ ~(j - 1 < i) /\ (j - 1) + 1 = j
        BY <1>2, <1>4, <2>4, <3>1
      <4> QED
        BY <1>4, <4>1
    <3> QED
      BY <2>1, <2>2, <3>2, <1>12 DEF Agrees
  <2> QED
    BY <2>3, <2>4
<1>9. Agrees(left, after)
  BY <1>7, <1>8 DEF Agrees
<1> QED
  BY <1>5, <1>9, <1>11

\* The map when the rest of a partly acknowledged range is put back.
LEMMA AgreesPartialAck ==
  ASSUME NEW base \in StreamPositions, NEW sent \in Nat, NEW ranges \in Seq(Ranges),
         Apart(base, sent, ranges), NEW i \in 1..Len(ranges), NEW end \in StreamPositions,
         NEW map, NEW after, AckedMaps(ranges, i, end, map, after)
  PROVE  RestKept(ranges, i, end, map, after)
<1> USE DEF RestKept
<1>13. PICK left : left = Remaining(ranges, i, end)
  OBVIOUS
<1>14. /\ left \in Seq(Ranges)
       /\ end = ranges[i][2] =>
            /\ Len(left) = Len(ranges) - 1
            /\ \A k \in 1..Len(left) : left[k] = IF k < i THEN ranges[k] ELSE ranges[k + 1]
       /\ end # ranges[i][2] =>
            /\ Len(left) = Len(ranges)
            /\ \A k \in 1..Len(left) :
                 left[k] = IF k = i THEN <<end, ranges[i][2]>> ELSE ranges[k]
  BY <1>13, RemainingRanges
<1>1. SUFFICES ASSUME end # ranges[i][2]
               PROVE  /\ Agrees(Remaining(ranges, i, end), after)
                      /\ DOMAIN after = (DOMAIN map \ {ranges[i][1]}) \cup {end}
                      /\ after[end].end = ranges[i][2]
                      /\ \A p \in DOMAIN map : p # ranges[i][1] => p # end /\ after[p] = map[p]
  OBVIOUS
<1>15. PICK entry : entry = [end |-> ranges[i][2], last_sent |-> FALSE]
  OBVIOUS
<1>16. /\ Agrees(ranges, map) /\ Hit(ranges[i], ranges[i][1], end)
       /\ after = Insert(Remove(map, ranges[i][1]), end, entry)
       /\ WrapSub(ranges[i][2], end) <= MaxPayload
  BY <1>1, <1>15 DEF AckedMaps
<1>2. PICK n \in Nat : n = Len(ranges)
  BY LenProperties
<1>3. ranges[i][1] \in StreamPositions /\ ranges[i][2] \in StreamPositions
  BY ApartOffsets
<1>4. /\ Len(left) = n
      /\ \A k \in 1..n : left[k] = IF k = i THEN <<end, ranges[i][2]>> ELSE ranges[k]
  BY <1>1, <1>2, <1>14
<1>5. /\ DOMAIN after = (DOMAIN map \ {ranges[i][1]}) \cup {end}
      /\ after[end] = entry
      /\ \A p \in DOMAIN map : p # ranges[i][1] /\ p # end => after[p] = map[p]
  BY <1>16 DEF Insert, Remove
<1>6. ASSUME NEW k \in 1..n, k # i PROVE ranges[k][1] # ranges[i][1] /\ ranges[k][1] # end
  BY <1>2, <1>1, <1>6, <1>16, StartsDiffer
<1>7. ASSUME NEW p \in DOMAIN map, p # ranges[i][1]
      PROVE  \E k \in 1..n : k # i /\ ranges[k][1] = p /\ p # end
  <2>1. PICK k \in 1..n : ranges[k][1] = p
    BY <1>2, <1>16 DEF Agrees
  <2>2. k # i
    BY <1>7, <2>1
  <2> QED
    BY <1>6, <2>1, <2>2
<1>8. \A p \in DOMAIN map : p # ranges[i][1] => p # end /\ after[p] = map[p]
  BY <1>5, <1>7
<1>9. entry \in Entries /\ entry.end = ranges[i][2]
  BY <1>3, <1>15 DEF Entries
<1>10. ASSUME NEW k \in 1..n
       PROVE  left[k][1] \in DOMAIN after /\ after[left[k][1]].end = left[k][2]
  <2>1. CASE k = i
    <3>1. left[k][1] = end /\ left[k][2] = ranges[i][2]
      BY <1>4, <2>1
    <3> QED
      BY <1>5, <1>9, <3>1
  <2>2. CASE k # i
    <3>1. left[k] = ranges[k] /\ ranges[k][1] # ranges[i][1]
      BY <1>4, <1>6, <2>2
    <3>2. ranges[k][1] \in DOMAIN map /\ map[ranges[k][1]].end = ranges[k][2]
      BY <1>2, <1>16 DEF Agrees
    <3> QED
      BY <1>5, <1>8, <3>1, <3>2
  <2> QED
    BY <2>1, <2>2
<1>11. ASSUME NEW p \in DOMAIN after
       PROVE  /\ \E k \in 1..n : left[k][1] = p
              /\ after[p] \in Entries /\ WrapSub(after[p].end, p) <= MaxPayload
  <2>1. CASE p = end
    <3>1. left[i][1] = end /\ i \in 1..n
      BY <1>2, <1>4
    <3> QED
      BY <1>5, <1>9, <1>16, <2>1, <3>1
  <2>2. CASE p # end
    <3>1. p \in DOMAIN map /\ p # ranges[i][1] /\ after[p] = map[p]
      BY <1>5, <2>2
    <3>2. PICK k \in 1..n : k # i /\ ranges[k][1] = p
      BY <1>7, <3>1
    <3>3. left[k] = ranges[k]
      BY <1>4, <3>2
    <3> QED
      BY <1>16, <3>1, <3>2, <3>3 DEF Agrees
  <2> QED
    BY <2>1, <2>2
<1>12. Agrees(left, after)
  BY <1>4, <1>10, <1>11 DEF Agrees
<1> QED
  BY <1>5, <1>8, <1>9, <1>12, <1>13

\* A range that starts at s is acknowledged up to m: it is gone, or what is left of it stays.
Shortened(L, M, s, m) ==
  \E l \in L : /\ l[1] = s /\ s < m /\ m <= l[2]
               /\ M \subseteq L \cup {k \in {<<m, l[2]>>} : m < l[2]}
               /\ L \subseteq M \cup {l}
               /\ m < l[2] => <<m, l[2]>> \in M

\* What the acknowledgement of the positions from start to end does to the task.
Acked(t, after, n, start, end) ==
  /\ ~AckPanics(t, start, end)
  /\ SenderInv(after, n) /\ after.rra = t.rra /\ SendOffset(after) = SendOffset(t)
  /\ \/ Spans(after) = Spans(t)
     \/ Shortened(Spans(t), Spans(after), Offset(start), Offset(end))

\* ack_range answers NotFound: nothing changes.
LEMMA AckMissed ==
  ASSUME NEW t, NEW n \in Nat, n <= StreamLen, SenderInv(t, n),
         NEW start \in StreamPositions, NEW end \in StreamPositions,
         NEW ret, ret = ack_range(SendWindowSize, t.sw, start, end),
         ret.result = "NotFound", ret.win = t.sw,
         NEW after, after = AckRange(t, start, end)
  PROVE  Acked(t, after, n, start, end)
<1>1. t = [sw |-> t.sw, rra |-> t.rra, unacked |-> t.unacked]
  BY DEF SenderInv
<1>2. ~AckPanics(t, start, end)
  BY DEF AckPanics
<1>3. after = [t EXCEPT !.sw = t.sw, !.unacked = t.unacked]
  BY DEF AckRange
<1>4. after = t
  BY <1>1, <1>3
<1> QED
  BY <1>2, <1>4 DEF Acked

\* The answer of ack_range when it finds the range.
AnswersHit(t, ret, ranges, i, start, end) ==
  /\ ranges = t.sw.unacked_ranges
  /\ Hit(ranges[i], start, end)
  /\ ret.result = IF end = ranges[i][2] THEN "Ack" ELSE "PartialAck"
  /\ ret.nacked_end = ranges[i][2]
  /\ ret.win = AckWindow(SendWindowSize, t.sw, i, end)

\* ack_range answers Ack or PartialAck: the map and the list lose the same bytes.
LEMMA AckHit ==
  ASSUME NEW t, NEW n \in Nat, n <= StreamLen, SenderInv(t, n),
         NEW start \in StreamPositions, NEW end \in StreamPositions,
         NEW ret, ret = ack_range(SendWindowSize, t.sw, start, end),
         NEW ranges \in Seq(Ranges), NEW i \in 1..Len(ranges),
         AnswersHit(t, ret, ranges, i, start, end),
         NEW after, after = AckRange(t, start, end)
  PROVE  Acked(t, after, n, start, end)
<1>1. PICK w : w = t.sw
  OBVIOUS
<1>21. ranges = w.unacked_ranges /\ Hit(ranges[i], start, end)
  BY <1>1 DEF AnswersHit
<1>22. /\ ret.result = IF end = ranges[i][2] THEN "Ack" ELSE "PartialAck"
       /\ ret.nacked_end = ranges[i][2]
       /\ ret.win = AckWindow(SendWindowSize, w, i, end)
  BY <1>1 DEF AnswersHit
<1>2. /\ SendWindowInv(SendWindowSize, w) /\ Agrees(ranges, t.unacked)
      /\ t = [sw |-> w, rra |-> t.rra, unacked |-> t.unacked]
  BY <1>1, <1>21 DEF SenderInv
<1>3. PICK base \in StreamPositions, sent \in Nat, us \in Nat, used \in Nat, N \in Nat :
        /\ base = unacked_start(w) /\ sent = w.sent /\ us = Offset(base) /\ used = w.buf.used
        /\ N = SendOffset(t) /\ us + used = n /\ us + sent = N /\ sent <= used
        /\ Apart(base, sent, ranges)
  BY <1>1, <1>21, SenderFacts
<1>4. ranges[i][1] = start /\ Hit(ranges[i], ranges[i][1], end)
  BY <1>21 DEF Hit
<1>5. /\ start \in DOMAIN t.unacked /\ t.unacked[start].end = ranges[i][2]
  BY <1>2, <1>4 DEF Agrees
<1>6. ~AckPanics(t, start, end)
  <2>1. CASE end = ranges[i][2]
    BY <1>1, <1>5, <1>22, <2>1 DEF AckPanics
  <2>2. CASE end # ranges[i][2]
    BY <1>1, <1>5, <1>22, <2>2 DEF AckPanics
  <2> QED
    BY <2>1, <2>2
<1>7. PICK sw : sw = AckWindow(SendWindowSize, w, i, end)
  OBVIOUS
<1>8. PICK freed : freed = Freed(w, ranges, i, end)
  OBVIOUS
<1>9. /\ SendWindowInv(SendWindowSize, sw)
      /\ freed \in Nat /\ freed <= sent
      /\ sw.buf.used = used - freed
      /\ sw.send_pos = w.send_pos
      /\ sw.unacked_ranges = Remaining(ranges, i, end)
      /\ unacked_start(sw) = WrapAdd(base, freed)
  <2>1. /\ SendWindowSize \in Nat \ {0} /\ SendWindowSize <= MaxWindow
        /\ ranges = w.unacked_ranges
    BY <1>21, ConstantsType
  <2>2. /\ SendWindowInv(SendWindowSize, sw)
        /\ Freed(w, ranges, i, end) \in Nat /\ Freed(w, ranges, i, end) <= w.sent
        /\ sw.sent = w.sent - Freed(w, ranges, i, end)
        /\ sw.buf.used = w.buf.used - Freed(w, ranges, i, end)
        /\ sw.send_pos = w.send_pos
        /\ sw.unacked_ranges = Remaining(ranges, i, end)
        /\ unacked_start(sw) = WrapAdd(unacked_start(w), Freed(w, ranges, i, end))
    BY <1>2, <1>4, <1>7, <2>1, AckWindowInv
  <2> QED
    BY <1>3, <1>8, <2>2
<1>10. Offset(unacked_start(sw)) + sw.buf.used = n
  <2>1. us + used = n /\ sent <= used
    BY <1>3
  <2>2. n < Modulus /\ Modulus \in Nat
    BY ConstantsType
  <2>3. us + freed < Modulus /\ (us + freed) + (used - freed) = n
    BY <1>9, <2>1, <2>2
  <2>4. Offset(WrapAdd(base, freed)) = us + freed
    BY <1>3, <1>9, <2>3, OffsetAfter
  <2> QED
    BY <1>9, <2>3, <2>4
<1>11. PICK last : last = ranges[i][2]
  OBVIOUS
<1>12. PICK s \in Nat, e \in Nat, m \in Nat :
         /\ s = Offset(start) /\ e = Offset(last) /\ m = Offset(end)
         /\ s < m /\ m <= e /\ e <= N
         /\ last \in StreamPositions
         /\ WrapSub(last, start) <= MaxPayload
         /\ WrapSub(last, start) = e - s
  <2>1. /\ last \in StreamPositions /\ Offset(start) \in Nat /\ Offset(last) \in Nat
        /\ Offset(start) < Offset(last) /\ Offset(last) <= N
        /\ WrapSub(last, start) \in Nat
        /\ Offset(last) = Offset(start) + WrapSub(last, start)
        /\ WrapSub(last, start) <= MaxPayload
    BY <1>3, <1>5, <1>11, EntryFacts
  <2>2. PICK s \in Nat, e \in Nat, len \in Nat :
          s = Offset(start) /\ e = Offset(last) /\ len = WrapSub(last, start)
    BY <2>1
  <2>3. PICK k \in Nat : k = WrapSub(end, start) /\ k >= 1 /\ k <= len
    BY <1>4, <1>11, <2>2 DEF Hit
  <2>4. e = s + len /\ s + k <= e /\ s + k < Modulus /\ s < s + k /\ len = e - s
    <3>1. n < Modulus /\ Modulus \in Nat
      BY ConstantsType
    <3>2. e = s + len /\ e <= N
      BY <2>1, <2>2
    <3>3. N <= n
      BY <1>3
    <3> QED
      BY <2>3, <3>1, <3>2, <3>3
  <2>5. Offset(end) = s + k
    BY <2>2, <2>3, <2>4, OffsetFrom
  <2> QED
    BY <2>1, <2>2, <2>4, <2>5
<1>13. end = last <=> m = e
  BY <1>12, OffsetsDiffer
<1>14. PICK left : left = Remaining(ranges, i, end)
  OBVIOUS
<1>15. ASSUME NEW map, after = [sw |-> sw, rra |-> t.rra, unacked |-> map], Agrees(left, map)
       PROVE  /\ SenderInv(after, n) /\ after.rra = t.rra /\ SendOffset(after) = SendOffset(t)
              /\ after.unacked = map
  <2>1. after.sw = sw /\ after.rra = t.rra /\ after.unacked = map
    BY <1>15
  <2>2. t.rra \in Nat
    BY DEF SenderInv
  <2>3. SenderInv(after, n)
    BY <1>9, <1>10, <1>14, <1>15, <2>1, <2>2 DEF SenderInv
  <2> QED
    BY <1>1, <1>9, <2>1, <2>3 DEF SendOffset
<1>16. PICK l : l = <<s, e>>
  OBVIOUS
<1>17. l \in Spans(t) /\ l[1] = s /\ l[2] = e
  BY <1>5, <1>11, <1>12, <1>16 DEF Spans
<1>20. Apart(base, sent, ranges)
  BY <1>3
<1>18. CASE end = last
  <2>1. PICK map : map = Remove(t.unacked, start)
    OBVIOUS
  <2>2. after = [sw |-> sw, rra |-> t.rra, unacked |-> map]
    <3>1. ret.result = "Ack" /\ ret.win = sw
      BY <1>7, <1>11, <1>18, <1>22
    <3>2. after = [t EXCEPT !.sw = sw, !.unacked = map]
      BY <2>1, <3>1 DEF AckRange
    <3> QED
      BY <1>2, <3>2
  <2>3. /\ Agrees(left, map)
        /\ DOMAIN map = DOMAIN t.unacked \ {start}
        /\ \A p \in DOMAIN map : map[p] = t.unacked[p]
    <3>1. PICK old : old = t.unacked
      OBVIOUS
    <3>2. AckedMaps(ranges, i, end, old, map)
      BY <1>2, <1>4, <1>11, <1>18, <2>1, <3>1 DEF AckedMaps
    <3>3. RangeAcked(ranges, i, end, old, map)
      BY <1>20, <3>2, AgreesAck
    <3> QED
      BY <1>4, <1>11, <1>14, <1>18, <3>1, <3>3 DEF RangeAcked
  <2>4. after.unacked = map
    BY <1>15, <2>2, <2>3
  <2>5. Spans(after) \subseteq Spans(t) /\ Spans(t) \subseteq Spans(after) \cup {l}
    <3>1. ASSUME NEW x \in Spans(after) PROVE x \in Spans(t)
      BY <2>3, <2>4 DEF Spans
    <3>2. ASSUME NEW x \in Spans(t) PROVE x \in Spans(after) \/ x = l
      <4>1. PICK p \in DOMAIN t.unacked : x = <<Offset(p), Offset(t.unacked[p].end)>>
        BY DEF Spans
      <4>2. CASE p = start
        BY <1>5, <1>11, <1>12, <1>16, <4>1, <4>2
      <4>3. CASE p # start
        <5>1. p \in DOMAIN map /\ map[p] = t.unacked[p]
          BY <2>3, <4>3
        <5> QED
          BY <2>4, <4>1, <5>1 DEF Spans
      <4> QED
        BY <4>2, <4>3
    <3> QED
      BY <3>1, <3>2
  <2>6. s < m /\ m <= e /\ ~(m < e)
    BY <1>12, <1>13, <1>18
  <2>7. Shortened(Spans(t), Spans(after), Offset(start), Offset(end))
    BY <1>12, <1>17, <2>5, <2>6 DEF Shortened
  <2> QED
    BY <1>6, <1>15, <2>2, <2>3, <2>7 DEF Acked
<1>19. CASE end # last
  <2>1. PICK entry : entry = [end |-> last, last_sent |-> FALSE]
    OBVIOUS
  <2>2. PICK map : map = Insert(Remove(t.unacked, start), end, entry)
    OBVIOUS
  <2>3. after = [sw |-> sw, rra |-> t.rra, unacked |-> map]
    <3>1. ret.result = "PartialAck" /\ ret.win = sw /\ ret.nacked_end = last
      BY <1>7, <1>11, <1>19, <1>22
    <3>2. after = [t EXCEPT !.sw = sw, !.unacked = map]
      BY <2>1, <2>2, <3>1 DEF AckRange
    <3> QED
      BY <1>2, <3>2
  <2>4. s < m /\ m <= e /\ m < e
    BY <1>12, <1>13, <1>19
  <2>5. WrapSub(last, end) <= MaxPayload
    <3>1. PICK d \in Nat : e = m + d
      <4>1. e - m \in Nat /\ e = m + (e - m)
        BY <2>4
      <4> QED
        BY <4>1
    <3>2. Offset(last) = Offset(end) + d
      BY <1>12, <3>1
    <3>3. WrapSub(last, end) = d
      BY <1>12, <3>2, OffsetDistance
    <3>4. d <= e - s
      BY <2>4, <3>1
    <3>5. e - s <= MaxPayload /\ MaxPayload \in Nat
      BY <1>12, ConstantsType
    <3> QED
      BY <3>3, <3>4, <3>5
  <2>6. /\ Agrees(left, map)
        /\ DOMAIN map = (DOMAIN t.unacked \ {start}) \cup {end}
        /\ map[end].end = last
        /\ \A p \in DOMAIN t.unacked : p # start => p # end /\ map[p] = t.unacked[p]
    <3>1. PICK old : old = t.unacked
      OBVIOUS
    <3>2. AckedMaps(ranges, i, end, old, map)
      BY <1>2, <1>4, <1>11, <1>19, <2>1, <2>2, <2>5, <3>1 DEF AckedMaps
    <3>3. RestKept(ranges, i, end, old, map)
      BY <1>20, <3>2, AgreesPartialAck
    <3> QED
      BY <1>4, <1>11, <1>14, <1>19, <3>1, <3>3 DEF RestKept
  <2>7. after.unacked = map
    BY <1>15, <2>3, <2>6
  <2>8. <<Offset(end), Offset(map[end].end)>> = <<m, e>>
    BY <1>12, <2>6
  <2>9. /\ Spans(after) \subseteq Spans(t) \cup {<<m, e>>}
        /\ Spans(t) \subseteq Spans(after) \cup {l}
        /\ <<m, e>> \in Spans(after)
    <3>1. ASSUME NEW x \in Spans(after) PROVE x \in Spans(t) \/ x = <<m, e>>
      <4>1. PICK p \in DOMAIN map : x = <<Offset(p), Offset(map[p].end)>>
        BY <2>7 DEF Spans
      <4>2. CASE p = end
        BY <2>8, <4>1, <4>2
      <4>3. CASE p # end
        <5>1. p \in DOMAIN t.unacked /\ map[p] = t.unacked[p]
          BY <2>6, <4>3
        <5> QED
          BY <4>1, <5>1 DEF Spans
      <4> QED
        BY <4>2, <4>3
    <3>2. ASSUME NEW x \in Spans(t) PROVE x \in Spans(after) \/ x = l
      <4>1. PICK p \in DOMAIN t.unacked : x = <<Offset(p), Offset(t.unacked[p].end)>>
        BY DEF Spans
      <4>2. CASE p = start
        BY <1>5, <1>11, <1>12, <1>16, <4>1, <4>2
      <4>3. CASE p # start
        <5>1. p \in DOMAIN map /\ map[p] = t.unacked[p]
          BY <2>6, <4>3
        <5> QED
          BY <2>7, <4>1, <5>1 DEF Spans
      <4> QED
        BY <4>2, <4>3
    <3>3. <<m, e>> \in Spans(after)
      BY <2>6, <2>7, <2>8 DEF Spans
    <3> QED
      BY <3>1, <3>2, <3>3
  <2>10. Spans(after) \subseteq Spans(t) \cup {k \in {<<m, l[2]>>} : m < l[2]}
    BY <1>17, <2>4, <2>9
  <2>11. Shortened(Spans(t), Spans(after), Offset(start), Offset(end))
    BY <1>12, <1>17, <2>4, <2>9, <2>10 DEF Shortened
  <2> QED
    BY <1>6, <1>15, <2>3, <2>6, <2>11 DEF Acked
<1> QED
  BY <1>18, <1>19

\* An acknowledgement of bytes that were sent keeps the sender's invariant, and nothing panics.
LEMMA AckKeeps ==
  ASSUME NEW t, NEW n \in Nat, n <= StreamLen, SenderInv(t, n),
         NEW start \in StreamPositions, NEW end \in StreamPositions,
         NEW after, after = AckRange(t, start, end)
  PROVE  Acked(t, after, n, start, end)
<1>1. PICK w : w = t.sw
  OBVIOUS
<1>2. PICK ranges \in Seq(Ranges) : ranges = w.unacked_ranges
  BY <1>1, SenderFacts
<1>3. PICK ret : ret = ack_range(SendWindowSize, w, start, end)
  OBVIOUS
<1>4. SendWindowInv(SendWindowSize, w) /\ SendWindowSize \in Nat \ {0} /\ SendWindowSize <= MaxWindow
  BY <1>1, ConstantsType DEF SenderInv
<1>4a. AckOutcome(SendWindowSize, w, ranges, start, end, ret)
  BY <1>2, <1>3, <1>4, AckAnswer
<1>5. \/ /\ \A i \in 1..Len(ranges) : ~Hit(ranges[i], start, end)
         /\ ret.result = "NotFound" /\ ret.win = w
      \/ \E i \in 1..Len(ranges) :
           /\ Hit(ranges[i], start, end)
           /\ ret.result = IF end = ranges[i][2] THEN "Ack" ELSE "PartialAck"
           /\ ret.nacked_end = ranges[i][2]
           /\ ret.win = AckWindow(SendWindowSize, w, i, end)
  BY <1>4a DEF AckOutcome
<1>6. CASE ret.result = "NotFound" /\ ret.win = w
  BY <1>1, <1>3, <1>6, AckMissed
<1>7. ASSUME NEW i \in 1..Len(ranges), Hit(ranges[i], start, end),
             ret.result = IF end = ranges[i][2] THEN "Ack" ELSE "PartialAck",
             ret.nacked_end = ranges[i][2],
             ret.win = AckWindow(SendWindowSize, w, i, end)
      PROVE  Acked(t, after, n, start, end)
  <2>1. AnswersHit(t, ret, ranges, i, start, end)
    BY <1>1, <1>2, <1>7 DEF AnswersHit
  <2> QED
    BY <1>1, <1>3, <2>1, AckHit
<1> QED
  BY <1>5, <1>6, <1>7

\* The two tasks, when n bytes were written, and the data packets in flight.
ChannelInv(t, n, w, net) ==
  /\ n \in Nat /\ n <= StreamLen
  /\ SenderInv(t, n)
  /\ RecvWindowInv(RecvWindowSize, StreamStart, StreamLen, w)
  /\ Beyond(w)
  /\ Linked(t, w)
  /\ Aligned(Got(w), Spans(t) \cup {Span(packet) : packet \in net})
  /\ \A packet \in net : DataOK(t, packet)

\* The spans of ranges and packets are behind what was sent.
LEMMA ChannelSpans ==
  ASSUME NEW t, NEW n, NEW w, NEW net, ChannelInv(t, n, w, net)
  PROVE  /\ SendOffset(t) \in Nat /\ SendOffset(t) <= n
         /\ \A l \in Spans(t) \cup {Span(packet) : packet \in net} :
              IsSpan(l) /\ l[2] <= SendOffset(t)
<1>1. n \in Nat /\ n <= StreamLen /\ SenderInv(t, n)
  BY DEF ChannelInv
<1>2. SendOffset(t) \in Nat /\ SendOffset(t) <= n
  BY <1>1, SenderFacts
<1>3. ASSUME NEW l \in Spans(t) PROVE IsSpan(l) /\ l[2] <= SendOffset(t)
  BY <1>1, SpansType
<1>4. ASSUME NEW packet \in net PROVE IsSpan(Span(packet)) /\ Span(packet)[2] <= SendOffset(t)
  <2>1. /\ packet.start \in StreamPositions /\ packet.bytes \in Seq(Int)
        /\ Len(packet.bytes) >= 1 /\ Offset(packet.start) + Len(packet.bytes) <= SendOffset(t)
    BY DEF ChannelInv, DataOK
  <2>2. PICK s \in Nat, k \in Nat : s = Offset(packet.start) /\ k = Len(packet.bytes)
    BY <2>1, OffsetType, LenProperties
  <2>3. Span(packet)[1] = s /\ Span(packet)[2] = s + k
    BY <2>2 DEF Span
  <2>4. s < s + k /\ s + k \in Nat
    BY <2>1, <2>2
  <2> QED
    BY <2>1, <2>2, <2>3, <2>4 DEF IsSpan
<1> QED
  BY <1>2, <1>3, <1>4

\* What was received is a set of offsets, all behind what was sent and within the window.
LEMMA ChannelGot ==
  ASSUME NEW t, NEW n, NEW w, NEW net, ChannelInv(t, n, w, net)
  PROVE  /\ Got(w) \subseteq Nat
         /\ WindowEnd(w) \in Nat /\ WindowEnd(w) <= StreamLen + RecvWindowSize
         /\ ReadOffset(StreamStart, w) \in Nat /\ ReadOffset(StreamStart, w) <= StreamLen
         /\ \A o \in Got(w) : o < SendOffset(t) /\ o < WindowEnd(w)
<1>1. RecvWindowInv(RecvWindowSize, StreamStart, StreamLen, w) /\ Linked(t, w)
  BY DEF ChannelInv
<1>2. Got(w) \subseteq Nat /\ \A o \in Got(w) : Held(StreamStart, w, o)
  BY DEF Got
<1>3. \A o \in Got(w) : o < SendOffset(t) /\ o < WindowEnd(w)
  <2>1. ASSUME NEW o \in Got(w) PROVE o < ReadOffset(StreamStart, w) + RecvWindowSize
    BY <1>1, <1>2, ConstantsType, HeldInWindow
  <2> QED
    BY <1>1, <2>1 DEF Linked, WindowEnd
<1>4. PICK at \in Nat, used \in Nat :
        /\ at = WrapSub(w.recv_pos, StreamStart) /\ used = w.buf.used
        /\ used <= at /\ at <= StreamLen
        /\ ReadOffset(StreamStart, w) \in Nat /\ ReadOffset(StreamStart, w) = at - used
  BY <1>1, ConstantsType, RecvWindowFacts
<1>5. ReadOffset(StreamStart, w) <= StreamLen
  BY <1>4, ConstantsType
<1>6. WindowEnd(w) \in Nat /\ WindowEnd(w) <= StreamLen + RecvWindowSize
  <2>1. PICK t0 \in Nat : t0 = ReadOffset(StreamStart, w) /\ t0 <= StreamLen
    BY <1>4, <1>5
  <2>2. t0 + RecvWindowSize \in Nat /\ t0 + RecvWindowSize <= StreamLen + RecvWindowSize
    BY <2>1, ConstantsType
  <2> QED
    BY <2>1, <2>2 DEF WindowEnd
<1> QED
  BY <1>2, <1>3, <1>4, <1>5, <1>6

\* Task::send with bandwidth.
LEMMA SendChannel ==
  ASSUME NEW t, NEW n, NEW w, NEW net, ChannelInv(t, n, w, net),
         NEW after, after = Send(t), NEW net1, net1 = net \cup SendPackets(t)
  PROVE  ChannelInv(after, n, w, net1)
<1>1. n \in Nat /\ n <= StreamLen /\ SenderInv(t, n)
  BY DEF ChannelInv
<1>2. PICK amt \in Nat : amt = SendAmt(t)
  <2>1. PICK used \in Nat, sent \in Nat, rra \in Nat :
          used = t.sw.buf.used /\ sent = t.sw.sent /\ rra = t.rra /\ sent <= used
    BY <1>1, SenderFacts
  <2>2. SendAmt(t) = Lesser3(used - sent, rra, MaxPayload)
    BY <2>1 DEF SendAmt, send_available, read_available
  <2>3. used - sent \in Nat /\ MaxPayload \in Nat
    BY <2>1, ConstantsType
  <2>4. Lesser3(used - sent, rra, MaxPayload) \in Nat
    BY <2>3 DEF Lesser3
  <2> QED
    BY <2>2, <2>4
<1>3. CASE amt = 0
  <2>1. after = t /\ net1 = net
    BY <1>2, <1>3 DEF Send, SendPackets
  <2> QED
    BY <2>1
<1>4. CASE amt > 0
  <2>1. Sent(t, after, n, amt)
    BY <1>1, <1>2, <1>4, SendKeeps
  <2>2. PICK N \in Nat, rra \in Nat : N = SendOffset(t) /\ rra = t.rra
    BY <1>1, SenderFacts
  <2>3. /\ SenderInv(after, n) /\ amt <= rra /\ after.rra = rra - amt
        /\ SendOffset(after) = N + amt
        /\ Spans(after) = Spans(t) \cup {<<N, N + amt>>}
        /\ \A packet \in SendPackets(t) : DataOK(after, packet) /\ Span(packet) = <<N, N + amt>>
    BY <2>1, <2>2 DEF Sent
  <2>4. PICK E \in Nat, init \in Nat : E = WindowEnd(w) /\ init = InitSend
    BY ChannelGot, ConstantsType
  <2>5. /\ N + rra <= E + init
        /\ \A o \in Got(w) : o < N
        /\ \A o \in Nat : o < N => o \in Got(w) \/ \E l \in Spans(t) : l[1] <= o /\ o < l[2]
    BY <2>2, <2>4 DEF ChannelInv, Linked, Covered
  <2>6. Linked(after, w)
    <3>1. (N + amt) + (rra - amt) <= E + init
      BY <2>5
    <3>2. \A o \in Got(w) : o < N + amt
      BY <2>5, ChannelGot
    <3>3. ASSUME NEW o \in Nat, o < N + amt
          PROVE  o \in Got(w) \/ \E l \in Spans(after) : l[1] <= o /\ o < l[2]
      <4>1. CASE o < N
        BY <2>3, <2>5, <4>1
      <4>2. CASE N <= o
        <5>1. <<N, N + amt>> \in Spans(after)
          BY <2>3
        <5> QED
          BY <3>3, <4>2, <5>1
      <4> QED
        BY <4>1, <4>2
    <3> QED
      BY <2>3, <2>4, <3>1, <3>2, <3>3 DEF Linked, Covered
  <2>7. Aligned(Got(w), Spans(after) \cup {Span(packet) : packet \in net1})
    <3>1. PICK L : L = Spans(t) \cup {Span(packet) : packet \in net}
      OBVIOUS
    <3>2. Aligned(Got(w), L) /\ \A l \in L : IsSpan(l) /\ l[2] <= N
      BY <2>2, <3>1, ChannelSpans DEF ChannelInv
    <3>3. Aligned(Got(w), L \cup {<<N, N + amt>>})
      BY <2>5, <3>2, ChannelGot, AlignedSend
    <3>4. Spans(after) \cup {Span(packet) : packet \in net1} \subseteq L \cup {<<N, N + amt>>}
      BY <2>3, <3>1
    <3> QED
      BY <3>3, <3>4, AlignedFewer
  <2>8. ASSUME NEW packet \in net1 PROVE DataOK(after, packet)
    <3>1. CASE packet \in SendPackets(t)
      BY <2>3, <3>1
    <3>2. CASE packet \in net
      <4>1. DataOK(t, packet)
        BY <3>2 DEF ChannelInv
      <4>2. PICK s \in Nat, k \in Nat : s = Offset(packet.start) /\ k = Len(packet.bytes)
        BY <4>1, OffsetType, LenProperties DEF DataOK
      <4>3. s + k <= N
        BY <2>2, <4>1, <4>2 DEF DataOK
      <4>4. s + k <= N + amt
        BY <4>3
      <4> QED
        BY <2>3, <4>1, <4>2, <4>4 DEF DataOK
    <3> QED
      BY <3>1, <3>2
  <2> QED
    BY <2>3, <2>6, <2>7, <2>8 DEF ChannelInv
<1> QED
  BY <1>3, <1>4

\* Task::resend of the ranges in S.
LEMMA ResendChannel ==
  ASSUME NEW t, NEW n, NEW w, NEW net, ChannelInv(t, n, w, net),
         NEW S, S \subseteq DOMAIN t.unacked,
         NEW after, after = Resend(t, S), NEW net1, net1 = net \cup ResendPackets(t, S)
  PROVE  ChannelInv(after, n, w, net1) /\ ~ResendPanics(t, S)
<1>1. n \in Nat /\ n <= StreamLen /\ SenderInv(t, n)
  BY DEF ChannelInv
<1>2. /\ SenderInv(after, n) /\ after.rra = t.rra
      /\ SendOffset(after) = SendOffset(t) /\ Spans(after) = Spans(t)
  BY <1>1, ResendKeeps
<1>3. /\ ~ResendPanics(t, S)
      /\ \A packet \in ResendPackets(t, S) : DataOK(t, packet) /\ Span(packet) \in Spans(t)
  BY <1>1, ResendSends
<1>4. Linked(after, w)
  BY <1>2 DEF ChannelInv, Linked, Covered
<1>5. Aligned(Got(w), Spans(after) \cup {Span(packet) : packet \in net1})
  <2>1. Spans(after) \cup {Span(packet) : packet \in net1}
          = Spans(t) \cup {Span(packet) : packet \in net}
    BY <1>2, <1>3
  <2> QED
    BY <2>1 DEF ChannelInv
<1>6. \A packet \in net1 : DataOK(after, packet)
  BY <1>2, <1>3 DEF ChannelInv, DataOK
<1> QED
  BY <1>2, <1>3, <1>4, <1>5, <1>6 DEF ChannelInv

\* Another allowance that does not pass the window by more than init_send.
LEMMA AllowanceChannel ==
  ASSUME NEW t, NEW n, NEW w, NEW net, ChannelInv(t, n, w, net),
         NEW rra \in Nat, SendOffset(t) + rra <= WindowEnd(w) + InitSend,
         NEW after, after = [t EXCEPT !.rra = rra]
  PROVE  ChannelInv(after, n, w, net)
<1>1. n \in Nat /\ n <= StreamLen /\ SenderInv(t, n)
  BY DEF ChannelInv
<1>2. /\ SenderInv(after, n) /\ after.rra = rra
      /\ SendOffset(after) = SendOffset(t) /\ Spans(after) = Spans(t)
  BY <1>1, AllowanceKeeps
<1>3. Linked(after, w)
  BY <1>2 DEF ChannelInv, Linked, Covered
<1>4. \A packet \in net : DataOK(after, packet)
  BY <1>2 DEF ChannelInv, DataOK
<1> QED
  BY <1>2, <1>3, <1>4 DEF ChannelInv

(***************************************************************************)
(* The allowance against a stall: with nothing in flight every byte sent   *)
(* was received, so the sender is not past the receiver's window.          *)
(***************************************************************************)
LEMMA AntiStallChannel ==
  ASSUME NEW t, NEW n, NEW w, NEW net, ChannelInv(t, n, w, net),
         NEW after, after = AntiStall(t)
  PROVE  ChannelInv(after, n, w, net)
<1>1. CASE ~(DOMAIN t.unacked = {} /\ t.rra = 0)
  <2>1. after = t
    BY <1>1 DEF AntiStall
  <2> QED
    BY <2>1
<1>2. CASE DOMAIN t.unacked = {} /\ t.rra = 0
  <2>1. after = [t EXCEPT !.rra = InitSend]
    BY <1>2 DEF AntiStall
  <2>2. Spans(t) = {}
    BY <1>2 DEF Spans
  <2>3. \A o \in Nat : o < SendOffset(t) => o \in Got(w)
    BY <2>2 DEF ChannelInv, Linked, Covered
  <2>4. PICK N \in Nat, E \in Nat : N = SendOffset(t) /\ E = WindowEnd(w)
    BY ChannelSpans, ChannelGot
  <2>5. N <= E
    <3>1. CASE N = 0
      BY <3>1
    <3>2. CASE N > 0
      <4>1. PICK o \in Nat : N = o + 1
        <5>1. N - 1 \in Nat /\ N = (N - 1) + 1
          BY <3>2
        <5> QED
          BY <5>1
      <4>2. o \in Got(w)
        BY <2>3, <2>4, <4>1
      <4>3. o < E
        BY <2>4, <4>2, ChannelGot
      <4> QED
        BY <4>1, <4>3
    <3> QED
      BY <3>1, <3>2
  <2>6. InitSend \in Nat /\ N + InitSend <= E + InitSend
    BY <2>5, ConstantsType
  <2> QED
    BY <2>1, <2>4, <2>6, AllowanceChannel
<1> QED
  BY <1>1, <1>2

\* An advertised window, however late.
LEMMA HeardChannel ==
  ASSUME NEW t, NEW n, NEW w, NEW net, ChannelInv(t, n, w, net),
         NEW window \in StreamPositions, Offset(window) <= WindowEnd(w),
         NEW after, after = UpdateRemote(t, window)
  PROVE  ChannelInv(after, n, w, net)
<1>1. PICK room : room = WrapSub(window, t.sw.send_pos)
  OBVIOUS
<1>2. CASE ~(stream_gt(window, t.sw.send_pos) /\ room > t.rra)
  <2>1. after = t
    BY <1>1, <1>2 DEF UpdateRemote
  <2> QED
    BY <2>1
<1>3. CASE stream_gt(window, t.sw.send_pos) /\ room > t.rra
  <2>1. after = [t EXCEPT !.rra = room]
    BY <1>1, <1>3 DEF UpdateRemote
  <2>2. PICK N \in Nat, v \in Nat, E \in Nat :
          /\ N = SendOffset(t) /\ v = Offset(window) /\ E = WindowEnd(w)
          /\ v <= E /\ N <= n /\ E <= StreamLen + RecvWindowSize
    BY ChannelSpans, ChannelGot, OffsetType
  <2>3. N <= MaxWindow /\ v <= MaxWindow
    <3>1. /\ n \in Nat /\ n <= StreamLen /\ StreamLen <= MaxWindow
          /\ StreamLen + RecvWindowSize <= MaxWindow
          /\ StreamLen \in Nat /\ RecvWindowSize \in Nat /\ MaxWindow \in Nat
      BY ConstantsType DEF ChannelInv
    <3> QED
      BY <2>2, <3>1
  <2>4. /\ t.sw.send_pos \in StreamPositions
        /\ WrapSub(t.sw.send_pos, StreamStart) = N /\ WrapSub(window, StreamStart) = v
    <3>1. t.sw.send_pos \in StreamPositions
      BY SenderFacts DEF ChannelInv
    <3> QED
      BY <2>2, <3>1 DEF SendOffset, Offset
  <2>5. v > N
    BY <1>3, <2>3, <2>4, ConstantsType, CmpOffsets
  <2>6. PICK d \in Nat : v = N + d
    <3>1. v - N \in Nat /\ v = N + (v - N)
      BY <2>5
    <3> QED
      BY <3>1
  <2>7. room = d
    <3>1. WrapSub(window, StreamStart) = N + d
      BY <2>4, <2>6
    <3> QED
      BY <1>1, <2>4, <3>1, ConstantsType, Distance
  <2>8. N + d <= E + InitSend
    BY <2>2, <2>6, ConstantsType
  <2> QED
    BY <2>1, <2>2, <2>7, <2>8, AllowanceChannel
<1> QED
  BY <1>2, <1>3

\* Packets leave the network.
LEMMA FewerChannel ==
  ASSUME NEW t, NEW n, NEW w, NEW net, ChannelInv(t, n, w, net), NEW net1, net1 \subseteq net
  PROVE  ChannelInv(t, n, w, net1)
<1>1. Spans(t) \cup {Span(packet) : packet \in net1}
        \subseteq Spans(t) \cup {Span(packet) : packet \in net}
  OBVIOUS
<1>2. Aligned(Got(w), Spans(t) \cup {Span(packet) : packet \in net1})
  BY <1>1, AlignedFewer DEF ChannelInv
<1> QED
  BY <1>2 DEF ChannelInv

\* An acknowledgement of bytes the receiver has.
LEMMA AckChannel ==
  ASSUME NEW t, NEW n, NEW w, NEW net, ChannelInv(t, n, w, net),
         NEW start, NEW len, Received(w, start, len),
         NEW end, end = WrapAdd(start, len),
         NEW after, after = AckRange(t, start, end)
  PROVE  ChannelInv(after, n, w, net) /\ ~AckPanics(t, start, end)
<1>1. n \in Nat /\ n <= StreamLen /\ SenderInv(t, n)
  BY DEF ChannelInv
<1>2. /\ start \in StreamPositions /\ len \in Nat /\ len >= 1
      /\ Offset(start) + len <= StreamLen
      /\ \A o \in Nat : Offset(start) <= o /\ o < Offset(start) + len => o \in Got(w)
  BY DEF Received
<1>3. PICK s \in Nat, m \in Nat : s = Offset(start) /\ m = s + len
  BY <1>2, OffsetType
<1>4. end \in StreamPositions /\ Offset(end) = m
  <2>1. StreamLen \in Nat /\ StreamLen < Modulus /\ Modulus \in Nat
    BY ConstantsType
  <2>2. s + len < Modulus
    BY <1>2, <1>3, <2>1
  <2> QED
    BY <1>2, <1>3, <2>2, OffsetAfter
<1>5. Acked(t, after, n, start, end)
  BY <1>1, <1>2, <1>4, AckKeeps
<1>6. /\ ~AckPanics(t, start, end)
      /\ SenderInv(after, n) /\ after.rra = t.rra /\ SendOffset(after) = SendOffset(t)
      /\ Spans(after) = Spans(t) \/ Shortened(Spans(t), Spans(after), s, m)
  BY <1>3, <1>4, <1>5 DEF Acked
<1>7. \A packet \in net : DataOK(after, packet)
  BY <1>6 DEF ChannelInv, DataOK
<1>8. ASSUME Covered(after, w), Aligned(Got(w), Spans(after) \cup {Span(packet) : packet \in net})
      PROVE  ChannelInv(after, n, w, net)
  <2>1. Linked(after, w)
    BY <1>6, <1>8 DEF ChannelInv, Linked
  <2> QED
    BY <1>6, <1>7, <1>8, <2>1 DEF ChannelInv
<1>9. CASE Spans(after) = Spans(t)
  BY <1>6, <1>8, <1>9 DEF ChannelInv, Linked, Covered
<1>10. CASE Shortened(Spans(t), Spans(after), s, m)
  <2>1. PICK l \in Spans(t) :
          /\ l[1] = s /\ s < m /\ m <= l[2]
          /\ Spans(after) \subseteq Spans(t) \cup {k \in {<<m, l[2]>>} : m < l[2]}
          /\ Spans(t) \subseteq Spans(after) \cup {l}
          /\ m < l[2] => <<m, l[2]>> \in Spans(after)
    BY <1>10 DEF Shortened
  <2>2. PICK e \in Nat : e = l[2] /\ m <= e /\ s < m
    BY <1>1, <2>1, SpansType DEF IsSpan
  <2>3. Covered(after, w)
    <3>1. ASSUME NEW o \in Nat, o < SendOffset(t)
          PROVE  o \in Got(w) \/ \E k \in Spans(after) : k[1] <= o /\ o < k[2]
      <4>1. CASE o \in Got(w)
        BY <4>1
      <4>2. CASE \E k \in Spans(t) : k[1] <= o /\ o < k[2]
        <5>1. PICK k \in Spans(t) : k[1] <= o /\ o < k[2]
          BY <4>2
        <5>2. CASE k # l
          BY <2>1, <5>1, <5>2
        <5>3. CASE k = l
          <6>1. s <= o /\ o < e
            BY <2>1, <2>2, <5>1, <5>3
          <6>2. CASE o < m
            BY <1>2, <1>3, <6>1, <6>2
          <6>3. CASE m <= o
            <7>1. <<m, e>> \in Spans(after)
              BY <2>1, <2>2, <6>1, <6>3
            <7> QED
              BY <6>1, <6>3, <7>1
          <6> QED
            BY <6>2, <6>3
        <5> QED
          BY <5>2, <5>3
      <4> QED
        BY <3>1, <4>1, <4>2 DEF ChannelInv, Linked, Covered
    <3> QED
      BY <1>6, <3>1 DEF Covered
  <2>4. Aligned(Got(w), Spans(after) \cup {Span(packet) : packet \in net})
    <3>1. PICK L : L = Spans(t) \cup {Span(packet) : packet \in net}
      OBVIOUS
    <3>2. Aligned(Got(w), L) /\ l \in L /\ \A k \in L : IsSpan(k)
      BY <3>1, ChannelSpans DEF ChannelInv
    <3>3. CASE m < e
      <4>1. Spans(after) \cup {Span(packet) : packet \in net} \subseteq L \cup {<<m, l[2]>>}
        BY <2>1, <3>1
      <4>2. PICK o \in Nat : m = o + 1
        <5>1. m - 1 \in Nat /\ m = (m - 1) + 1
          BY <2>2
        <5> QED
          BY <5>1
      <4>3. o \in Got(w)
        <5>1. s <= o /\ o < m
          BY <2>2, <4>2
        <5> QED
          BY <1>2, <1>3, <5>1
      <4>4. m - 1 \in Got(w)
        <5>1. m - 1 = o
          BY <4>2
        <5> QED
          BY <4>3, <5>1
      <4>5. Got(w) \subseteq Nat /\ l[1] < m /\ m < l[2]
        BY <2>1, <2>2, <3>3, ChannelGot
      <4>6. Aligned(Got(w), L \cup {<<m, l[2]>>})
        BY <3>2, <4>4, <4>5, AlignedSplit
      <4> QED
        BY <4>1, <4>6, AlignedFewer
    <3>4. CASE ~(m < e)
      <4>1. Spans(after) \cup {Span(packet) : packet \in net} \subseteq L
        BY <2>1, <2>2, <3>1, <3>4
      <4> QED
        BY <3>2, <4>1, AlignedFewer
    <3> QED
      BY <3>3, <3>4
  <2> QED
    BY <1>6, <1>8, <2>3, <2>4
<1> QED
  BY <1>6, <1>9, <1>10

\* The writer adds len bytes of the stream.
LEMMA WriteChannel ==
  ASSUME NEW t, NEW n, NEW w, NEW net, ChannelInv(t, n, w, net),
         NEW k \in Nat, n + k <= StreamLen,
         NEW bytes, bytes = Stream(n, n + k),
         NEW len, len = WriteLen(SendWindowSize, t.sw.buf, 0, bytes),
         NEW after, after = [t EXCEPT !.sw = SendWindowWrite(SendWindowSize, @, bytes)]
  PROVE  len \in Nat /\ ChannelInv(after, n + len, w, net)
<1>1. n \in Nat /\ n <= StreamLen /\ SenderInv(t, n)
  BY DEF ChannelInv
<1>2. PICK sw : sw = t.sw
  OBVIOUS
<1>3. PICK us \in Nat, used \in Nat, base \in StreamPositions :
        /\ base = unacked_start(sw) /\ us = Offset(base) /\ used = sw.buf.used
        /\ us + used = n
  BY <1>1, <1>2, SenderFacts
<1>4. n + k < Modulus /\ Modulus \in Nat
  <2>1. StreamLen < Modulus /\ StreamLen \in Nat /\ Modulus \in Nat
    BY ConstantsType
  <2> QED
    BY <1>1, <2>1
<1>5. WrapAdd(base, used) \in StreamPositions /\ WrapAdd(base, used) = WrapAdd(StreamStart, n)
  <2>1. us + used < Modulus
    BY <1>1, <1>3, <1>4
  <2>2. WrapAdd(base, used) \in StreamPositions /\ Offset(WrapAdd(base, used)) = us + used
    BY <1>3, <2>1, OffsetAfter
  <2> QED
    BY <1>3, <2>2, OffsetType
<1>6. /\ bytes \in [1..k -> Int]
      /\ \A i \in 1..k : bytes[i] = WrapAdd(StreamStart, n + (i - 1))
  <2>1. (n + k) - n = k
    BY <1>1
  <2>2. bytes = [i \in 1..k |-> WrapAdd(StreamStart, n + i - 1)]
    BY <2>1 DEF Stream, Pos
  <2>3. ASSUME NEW i \in 1..k
        PROVE  WrapAdd(StreamStart, n + i - 1) \in Int /\ n + i - 1 = n + (i - 1)
    <3>1. n + i - 1 \in Int /\ n + i - 1 = n + (i - 1)
      BY <1>1
    <3>2. StreamStart \in Int /\ Modulus \in Int
      BY ConstantsType DEF StreamPositions
    <3> QED
      BY <3>1, <3>2 DEF WrapAdd
  <2> QED
    BY <2>2, <2>3
<1>7. bytes \in Seq(Int) /\ Len(bytes) = k
  BY <1>6
<1>8. StreamFrom(WrapAdd(base, used), bytes)
  <2>1. ASSUME NEW i \in 1..k PROVE bytes[i] = WrapAdd(WrapAdd(base, used), i - 1)
    <3>1. PICK j \in Nat : j = i - 1 /\ j < k
      OBVIOUS
    <3>2. n + j < Modulus
      BY <1>1, <1>4, <3>1
    <3>3. WrapAdd(WrapAdd(StreamStart, n), j) = WrapAdd(StreamStart, n + j)
      BY <1>1, <3>2, ConstantsType, WrapAddAssociative
    <3> QED
      BY <1>5, <1>6, <3>1, <3>3
  <2> QED
    BY <1>7, <2>1 DEF StreamFrom
<1>9. PICK sw1 : sw1 = SendWindowWrite(SendWindowSize, sw, bytes)
  OBVIOUS
<1>10. /\ SendWindowInv(SendWindowSize, sw1)
       /\ len \in 0..(SendWindowSize - sw.buf.used)
       /\ sw1.buf.used = sw.buf.used + len
       /\ sw1.send_pos = sw.send_pos /\ sw1.unacked_ranges = sw.unacked_ranges
       /\ unacked_start(sw1) = unacked_start(sw)
  <2>1. /\ SendWindowInv(SendWindowSize, sw) /\ StreamFrom(WrapAdd(unacked_start(sw), sw.buf.used), bytes)
        /\ SendWindowSize \in Nat \ {0} /\ SendWindowSize <= MaxWindow
    BY <1>1, <1>2, <1>3, <1>8, ConstantsType DEF SenderInv
  <2>2. /\ SendWindowInv(SendWindowSize, sw1)
        /\ WriteLen(SendWindowSize, sw.buf, 0, bytes) \in 0..(SendWindowSize - sw.buf.used)
        /\ sw1.buf.used = sw.buf.used + WriteLen(SendWindowSize, sw.buf, 0, bytes)
        /\ sw1.send_pos = sw.send_pos /\ sw1.sent = sw.sent
        /\ sw1.unacked_ranges = sw.unacked_ranges
        /\ unacked_start(sw1) = unacked_start(sw)
    BY <1>7, <1>9, <2>1, SendWindowWriteInv
  <2> QED
    BY <1>2, <2>2
<1>11. len \in Nat /\ len <= k
  <2>1. len \in Nat
    BY <1>3, <1>10, ConstantsType
  <2>2. PICK room : room = write_available(SendWindowSize, sw.buf) - 0
    OBVIOUS
  <2>3. len = IF room <= 0 THEN 0 ELSE Lesser(room, k)
    BY <1>2, <1>7, <2>2 DEF WriteLen
  <2>4. room \in Int
    BY <1>3, <2>2, ConstantsType DEF write_available
  <2>5. len <= k
    BY <2>3, <2>4 DEF Lesser
  <2> QED
    BY <2>1, <2>5
<1>12. t = [sw |-> sw, rra |-> t.rra, unacked |-> t.unacked]
  BY <1>1, <1>2 DEF SenderInv
<1>13. after = [sw |-> sw1, rra |-> t.rra, unacked |-> t.unacked]
  BY <1>2, <1>9, <1>12
<1>14. after.sw = sw1 /\ after.rra = t.rra /\ after.unacked = t.unacked
  BY <1>13
<1>15. n + len \in Nat /\ n + len <= StreamLen /\ us + (used + len) = n + len
  <2>1. StreamLen \in Nat
    BY ConstantsType
  <2>2. us + used = n
    BY <1>3
  <2> QED
    BY <1>1, <1>11, <2>1, <2>2
<1>16. SenderInv(after, n + len)
  <2>1. Offset(unacked_start(sw1)) + sw1.buf.used = n + len
    BY <1>3, <1>10, <1>15
  <2> QED
    BY <1>1, <1>2, <1>10, <1>13, <1>14, <2>1 DEF SenderInv
<1>17. SendOffset(after) = SendOffset(t) /\ Spans(after) = Spans(t)
  BY <1>2, <1>10, <1>14 DEF SendOffset, Spans
<1>18. Linked(after, w) /\ \A packet \in net : DataOK(after, packet)
  BY <1>14, <1>17 DEF ChannelInv, Linked, Covered, DataOK
<1> QED
  BY <1>11, <1>15, <1>16, <1>17, <1>18 DEF ChannelInv

\* The reader takes bytes that are ready.
LEMMA ReadChannel ==
  ASSUME NEW t, NEW n, NEW w, NEW net, ChannelInv(t, n, w, net),
         NEW k \in Nat, NEW m \in Nat, m = Lesser(k, w.buf.used),
         NEW after, after = RecvWindowRead(RecvWindowSize, w, k)
  PROVE  /\ ChannelInv(t, n, after, net)
         /\ Got(after) = Got(w)
         /\ ReadOffset(StreamStart, after) = ReadOffset(StreamStart, w) + m
<1>1. RecvWindowInv(RecvWindowSize, StreamStart, StreamLen, w)
  BY DEF ChannelInv
<1>2. /\ RecvWindowInv(RecvWindowSize, StreamStart, StreamLen, after)
      /\ after.recv_pos = w.recv_pos /\ after.unready = w.unready
      /\ after.buf.used = w.buf.used - m
      /\ ReadOffset(StreamStart, after) = ReadOffset(StreamStart, w) + m
      /\ \A o \in Nat : Held(StreamStart, after, o) <=> Held(StreamStart, w, o)
  BY <1>1, ConstantsType, RecvWindowReadInv
<1>3. Got(after) = Got(w)
  BY <1>2 DEF Got
<1>4. Beyond(after)
  BY <1>2 DEF ChannelInv, Beyond
<1>5. Linked(t, after)
  <2>1. PICK t0 \in Nat, N \in Nat, rra \in Nat :
          t0 = ReadOffset(StreamStart, w) /\ N = SendOffset(t) /\ rra = t.rra
    BY ChannelGot, ChannelSpans, SenderFacts DEF ChannelInv
  <2>2. N + rra <= (t0 + RecvWindowSize) + InitSend
    BY <2>1 DEF ChannelInv, Linked, WindowEnd
  <2>3. N + rra <= ((t0 + m) + RecvWindowSize) + InitSend
    <3>1. RecvWindowSize \in Nat /\ InitSend \in Nat
      BY ConstantsType
    <3> QED
      BY <2>2, <3>1
  <2>4. SendOffset(t) + t.rra <= WindowEnd(after) + InitSend
    BY <1>2, <2>1, <2>3 DEF WindowEnd
  <2> QED
    BY <1>3, <2>4 DEF ChannelInv, Linked, Covered
<1> QED
  BY <1>2, <1>3, <1>4, <1>5 DEF ChannelInv

\* What the ring keeps is not beyond the receiver's window.
LEMMA UnackedInWindow ==
  ASSUME NEW t, NEW n, NEW w, NEW net, ChannelInv(t, n, w, net)
  PROVE  Offset(unacked_start(t.sw)) <= WindowEnd(w)
<1>1. n \in Nat /\ n <= StreamLen /\ SenderInv(t, n)
  BY DEF ChannelInv
<1>2. PICK us \in Nat, sent \in Nat, N \in Nat, E \in Nat :
        /\ us = Offset(unacked_start(t.sw)) /\ sent = t.sw.sent
        /\ N = SendOffset(t) /\ E = WindowEnd(w) /\ us + sent = N
  BY <1>1, SenderFacts, ChannelGot
<1>3. CASE us = 0
  BY <1>2, <1>3
<1>4. CASE us > 0
  <2>1. PICK o \in Nat : us = o + 1
    <3>1. us - 1 \in Nat /\ us = (us - 1) + 1
      BY <1>4
    <3> QED
      BY <3>1
  <2>2. o < N
    BY <1>2, <2>1
  <2>3. o \in Got(w) \/ \E l \in Spans(t) : l[1] <= o /\ o < l[2]
    BY <1>2, <2>2 DEF ChannelInv, Linked, Covered
  <2>4. ASSUME NEW l \in Spans(t), l[1] <= o PROVE FALSE
    <3>1. l[1] \in Nat /\ us <= l[1]
      BY <1>1, <1>2, SpansType DEF IsSpan
    <3> QED
      BY <2>1, <2>4, <3>1
  <2>5. o < E
    BY <1>2, <2>3, <2>4, ChannelGot
  <2> QED
    BY <1>2, <2>1, <2>5
<1> QED
  BY <1>3, <1>4

\* The three things recv may do to the list.
RecvCases(capacity, w, start, ret) ==
  \/ ret.win = w
  \/ /\ ret.result = "Some" /\ stream_ge(w.recv_pos, start)
     /\ ret.win.recv_pos = JoinReady(w.unready, ret.end).end
     /\ ret.win.unready = JoinReady(w.unready, ret.end).unready
  \/ /\ ret.result = "Some" /\ ~stream_ge(w.recv_pos, start)
     /\ ret.win.recv_pos = w.recv_pos
     /\ ret.win.unready = InsertUnready(w.unready, start, ret.end).unready

\* What an assignment to two fields of a window leaves.
LEMMA RecvWindowExcept ==
  ASSUME NEW w, w = [buf |-> w.buf, recv_pos |-> w.recv_pos, unready |-> w.unready],
         NEW b, NEW u, NEW after, after = [w EXCEPT !.buf = b, !.unready = u]
  PROVE  after.recv_pos = w.recv_pos /\ after.unready = u
<1>1. PICK x, y, z : w = [buf |-> x, recv_pos |-> y, unready |-> z]
  OBVIOUS
<1>2. after = [buf |-> b, recv_pos |-> y, unready |-> u] /\ w.recv_pos = y
  BY <1>1
<1> QED
  BY <1>2

\* These are all the cases of RecvWindow::recv.
LEMMA RecvDoes ==
  ASSUME NEW capacity, NEW w, w = [buf |-> w.buf, recv_pos |-> w.recv_pos, unready |-> w.unready],
         NEW start, NEW bytes, NEW ret, ret = recv(capacity, w, start, bytes)
  PROVE  RecvCases(capacity, w, start, ret)
<1> DEFINE recv_end   == window_end(capacity, w)
           copy_start == IF stream_gt(w.recv_pos, start) THEN w.recv_pos ELSE start
           end_pos    == StoredEnd(WrapAdd(start, Len(bytes)), recv_end)
           data_start == WrapSub(copy_start, start)
           buf_start  == WrapSub(copy_start, w.recv_pos)
           m          == WrapSub(end_pos, w.recv_pos) - buf_start
           slice      == SubSeq(bytes, data_start + 1, data_start + m)
           stored     == Write(capacity, w.buf, buf_start, slice)
           join       == JoinReady(w.unready, end_pos)
           insert     == InsertUnready(w.unready, start, end_pos)
           joined     == [buf      |-> WriterAdvance(capacity, stored,
                                                     WrapSub(join.end, w.recv_pos)),
                          recv_pos |-> join.end,
                          unready  |-> join.unready]
           inserted   == [w EXCEPT !.buf = stored, !.unready = insert.unready]
           Return(result, win) == [result |-> result, end |-> end_pos, win |-> win]
<1>1. ret = IF ~stream_lt(start, recv_end) THEN Return("None", w)
            ELSE IF stream_ge(copy_start, end_pos)
            THEN Return(IF stream_lt(start, end_pos) THEN "Some" ELSE "None", w)
            ELSE IF \/ m < 0 \/ data_start + m > Len(bytes)
                    \/ WriteLen(capacity, w.buf, buf_start, slice) # m
            THEN Return("Panic", w)
            ELSE IF stream_ge(w.recv_pos, start)
            THEN IF join.panic THEN Return("Panic", w)
                 ELSE Return("Some", joined)
            ELSE IF insert.panic THEN Return("Panic", w)
                 ELSE Return("Some", inserted)
  BY DEF recv
<1>2. /\ joined.recv_pos = JoinReady(w.unready, end_pos).end
      /\ joined.unready = JoinReady(w.unready, end_pos).unready
  OBVIOUS
<1>3. /\ inserted.recv_pos = w.recv_pos
      /\ inserted.unready = InsertUnready(w.unready, start, end_pos).unready
  <2>1. inserted = [w EXCEPT !.buf = stored, !.unready = insert.unready]
    OBVIOUS
  <2> HIDE DEF stored, inserted, insert
  <2>2. inserted.recv_pos = w.recv_pos /\ inserted.unready = insert.unready
    BY <2>1, RecvWindowExcept
  <2> QED
    BY <2>2 DEF insert
<1> HIDE DEF recv_end, copy_start, end_pos, data_start, buf_start, m, slice, stored, join,
             insert, joined, inserted
<1>4. \/ \E result : ret = Return(result, w)
      \/ stream_ge(w.recv_pos, start) /\ ret = Return("Some", joined)
      \/ ~stream_ge(w.recv_pos, start) /\ ret = Return("Some", inserted)
  BY <1>1
<1>5. CASE \E result : ret = Return(result, w)
  BY <1>5 DEF RecvCases
<1>6. CASE stream_ge(w.recv_pos, start) /\ ret = Return("Some", joined)
  <2>1. ret.result = "Some" /\ ret.end = end_pos /\ ret.win = joined
    BY <1>6
  <2> QED
    BY <1>2, <1>6, <2>1 DEF RecvCases
<1>7. CASE ~stream_ge(w.recv_pos, start) /\ ret = Return("Some", inserted)
  <2>1. ret.result = "Some" /\ ret.end = end_pos /\ ret.win = inserted
    BY <1>7
  <2> QED
    BY <1>3, <1>7, <2>1 DEF RecvCases
<1> QED
  BY <1>4, <1>5, <1>6, <1>7

\* Every region of the list starts behind the offset at.
Behind(base, at, list) == \A i \in 1..Len(list) : WrapSub(list[i][1], base) > at

\* Data that ends before the regions or where one starts.
LEMMA JoinBehind ==
  ASSUME NEW base \in StreamPositions, NEW top \in Nat, top <= MaxWindow,
         NEW list \in Seq(Ranges), Separate(base, top, list),
         NEW end \in StreamPositions, NEW e \in Nat, e = WrapSub(end, base), e <= top,
         \A i \in 1..Len(list) : e <= WrapSub(list[i][1], base),
         NEW ret, ret = JoinReady(list, end)
  PROVE  Behind(base, WrapSub(ret.end, base), ret.unready)
<1> DEFINE O(p) == WrapSub(p, base)
           order == [k \in 1..Len(list) |-> stream_cmp(list[k][2], end)]
           pos   == BinarySearch(order)
<1>1. e <= MaxWindow /\ MaxWindow \in Nat
  BY ConstantsType
<1>2. PICK n \in Nat : n = Len(list)
  BY LenProperties
<1>3. /\ Ascending(order)
      /\ pos \in Nat /\ pos >= 1 /\ pos <= n + 1
      /\ \A j \in 1..n : j < pos => O(list[j][2]) < e
  <2>1. PICK ord : ord = order
    OBVIOUS
  <2>2. /\ Ascending(ord)
        /\ BinarySearch(ord) \in Nat
        /\ BinarySearch(ord) >= 1 /\ BinarySearch(ord) <= Len(list) + 1
        /\ \A j \in 1..Len(list) : j < BinarySearch(ord)
             => WrapSub(list[j][2], base) < WrapSub(end, base)
        /\ \A j \in 1..Len(list) : j >= BinarySearch(ord)
             => WrapSub(list[j][2], base) >= WrapSub(end, base)
    BY <1>1, <2>1, RegionSearch
  <2> QED
    BY <1>2, <2>1, <2>2
<1>4. ret = IF pos > n THEN [panic |-> FALSE, end |-> end, unready |-> <<>>]
            ELSE IF Reaches(end, list[pos])
            THEN [panic |-> FALSE, end |-> list[pos][2], unready |-> Drained(list, pos)]
            ELSE [panic |-> FALSE, end |-> end, unready |-> list]
  BY <1>2, <1>3 DEF JoinReady
<1> HIDE DEF order, pos
<1>5. ASSUME NEW i \in 1..n
      PROVE  \E a \in Nat, b \in Nat :
               /\ a = O(list[i][1]) /\ b = O(list[i][2]) /\ a < b /\ e <= a /\ b <= top
               /\ list[i][1] \in StreamPositions
  <2>1. /\ list[i][1] \in StreamPositions
        /\ WrapSub(list[i][1], base) \in Nat /\ WrapSub(list[i][2], base) \in Nat
    BY <1>2, RegionOffsets
  <2>2. /\ WrapSub(list[i][1], base) < WrapSub(list[i][2], base)
        /\ WrapSub(list[i][2], base) <= top /\ e <= WrapSub(list[i][1], base)
    BY <1>2 DEF Separate
  <2> QED
    BY <2>1, <2>2
<1>6. pos = 1
  <2>1. ASSUME pos > 1 PROVE FALSE
    <3>1. 1 \in 1..n /\ 1 < pos
      BY <1>3, <2>1
    <3>2. PICK a \in Nat, b \in Nat : b = O(list[1][2]) /\ a < b /\ e <= a
      BY <1>5, <3>1
    <3>3. b < e
      BY <1>3, <3>1, <3>2
    <3> QED
      BY <3>2, <3>3
  <2> QED
    BY <1>3, <2>1
<1>7. CASE pos > n
  <2>1. ret.unready = <<>>
    BY <1>4, <1>7
  <2> QED
    BY <2>1 DEF Behind
<1>8. CASE pos <= n /\ Reaches(end, list[pos])
  <2>1. ret.end = list[1][2] /\ ret.unready = SubSeq(list, 2, n)
    BY <1>2, <1>4, <1>6, <1>8 DEF Drained
  <2>2. /\ Len(SubSeq(list, 2, n)) = n - 1
        /\ \A i \in 1..(n - 1) : SubSeq(list, 2, n)[i] = list[i + 1]
    <3>1. n >= 1
      BY <1>6, <1>8
    <3>2. PICK new : new = SubSeq(list, 2, n)
      OBVIOUS
    <3>3. new = [i \in 1..(n - 1) |-> list[i + 1]]
      <4>1. \A i \in 1..(n - 1) : (2 + i) - 1 = i + 1
        OBVIOUS
      <4>2. (n - 2) + 1 = n - 1
        OBVIOUS
      <4> QED
        BY <1>2, <3>1, <3>2, <4>1, <4>2
    <3>4. Len(new) = n - 1
      BY <3>1, <3>3
    <3> QED
      BY <3>2, <3>3, <3>4
  <2>3. ASSUME NEW i \in 1..(n - 1) PROVE O(list[i + 1][1]) > O(list[1][2])
    <3>1. i + 1 \in 1..n /\ 1 \in 1..n /\ 1 < i + 1
      OBVIOUS
    <3>2. O(list[1][2]) < O(list[i + 1][1])
      BY <1>2, <3>1 DEF Separate
    <3>3. O(list[1][2]) \in Nat /\ O(list[i + 1][1]) \in Nat
      BY <1>2, <3>1, RegionOffsets
    <3> QED
      BY <3>2, <3>3
  <2> QED
    BY <2>1, <2>2, <2>3 DEF Behind
<1>9. CASE pos <= n /\ ~Reaches(end, list[pos])
  <2>1. ret.end = end /\ ret.unready = list
    <3>1. ~(pos > n)
      BY <1>3, <1>9
    <3> QED
      BY <1>4, <1>9, <3>1
  <2>2. PICK a \in Nat, b \in Nat :
          /\ a = O(list[1][1]) /\ b = O(list[1][2]) /\ a < b /\ e <= a /\ b <= top
          /\ list[1][1] \in StreamPositions
    BY <1>5, <1>6, <1>9
  <2>3. e < a
    <3>1. ~stream_ge(end, list[1][1])
      BY <1>6, <1>9 DEF Reaches
    <3>2. WrapSub(end, base) <= MaxWindow /\ WrapSub(list[1][1], base) <= MaxWindow
      <4>1. a <= MaxWindow
        BY <1>1, <2>2
      <4> QED
        BY <1>1, <2>2, <4>1
    <3>3. ~(WrapSub(end, base) >= WrapSub(list[1][1], base))
      BY <2>2, <3>1, <3>2, CmpOffsets
    <3> QED
      BY <2>2, <3>3
  <2>4. ASSUME NEW i \in 1..n PROVE O(list[i][1]) > e
    <3>1. CASE i = 1
      BY <2>2, <2>3, <3>1
    <3>2. CASE i > 1
      <4>1. 1 \in 1..n /\ b < O(list[i][1])
        BY <1>2, <2>2, <3>2 DEF Separate
      <4>2. PICK c \in Nat : c = O(list[i][1])
        BY <1>5
      <4> QED
        BY <2>2, <4>1, <4>2
    <3> QED
      BY <3>1, <3>2
  <2> QED
    BY <1>2, <2>1, <2>4 DEF Behind
<1> QED
  BY <1>3, <1>7, <1>8, <1>9

\* Data that does not touch the ready bytes.
LEMMA InsertBehind ==
  ASSUME NEW base \in StreamPositions, NEW top \in Nat, top <= MaxWindow, NEW at \in Nat,
         NEW list \in Seq(Ranges), Separate(base, top, list), Behind(base, at, list),
         NEW start \in StreamPositions, NEW end \in StreamPositions,
         NEW s \in Nat, NEW e \in Nat, s = WrapSub(start, base), e = WrapSub(end, base),
         at < s, s < e, e <= top,
         NEW ret, ret = InsertUnready(list, start, end)
  PROVE  Behind(base, at, ret.unready)
<1>1. ASSUME NEW i \in 1..Len(list)
      PROVE  WrapSub(list[i][1], base) \in Nat /\ at < WrapSub(list[i][1], base)
  <2>1. WrapSub(list[i][1], base) \in Nat
    BY RegionOffsets
  <2> QED
    BY <2>1 DEF Behind
<1>2. Clear(base, at, list)
  BY <1>1 DEF Clear
<1>3. Inserted(base, top, at, list, start, end, ret)
  BY <1>2, InsertUnreadyKeeps
<1>4. PICK new \in Seq(Ranges) : new = ret.unready
  BY <1>3 DEF Inserted
<1>5. /\ Separate(base, top, new) /\ Clear(base, at, new)
      /\ \A o \in Nat : Inside(base, new, o) <=> (s <= o /\ o < e) \/ Inside(base, list, o)
  BY <1>3, <1>4 DEF Inserted
<1>6. ASSUME NEW i \in 1..Len(new) PROVE WrapSub(new[i][1], base) > at
  <2>1. PICK a \in Nat, b \in Nat : a = WrapSub(new[i][1], base) /\ b = WrapSub(new[i][2], base)
    BY RegionOffsets
  <2>2. a < b /\ (b < at \/ at < a)
    BY <1>5, <2>1 DEF Separate, Clear
  <2>3. ASSUME b < at PROVE FALSE
    <3>1. Inside(base, new, a)
      BY <2>1, <2>2 DEF Inside
    <3>2. (s <= a /\ a < e) \/ Inside(base, list, a)
      BY <1>5, <3>1
    <3>3. ~(s <= a)
      BY <2>2, <2>3
    <3>4. PICK j \in 1..Len(list) : WrapSub(list[j][1], base) <= a
      BY <3>2, <3>3 DEF Inside
    <3>5. PICK c \in Nat : c = WrapSub(list[j][1], base) /\ at < c
      BY <1>1
    <3> QED
      BY <2>2, <2>3, <3>4, <3>5
  <2> QED
    BY <2>1, <2>2, <2>3
<1> QED
  BY <1>4, <1>6 DEF Behind

\* A region received out of order begins behind a byte that is missing.
LEMMA RegionFirst ==
  ASSUME NEW w, NEW top \in Nat, NEW at \in Nat, at = WrapSub(w.recv_pos, StreamStart),
         w.unready \in Seq(Ranges), Separate(StreamStart, top, w.unready),
         Behind(StreamStart, at, w.unready),
         NEW i \in 1..Len(w.unready), NEW x \in Nat, x = WrapSub(w.unready[i][1], StreamStart)
  PROVE  x \in Got(w) /\ x > at /\ x > 0 /\ x - 1 \notin Got(w)
<1>1. PICK list \in Seq(Ranges) : list = w.unready
  OBVIOUS
<1>2. \A j \in 1..Len(list) :
        /\ WrapSub(list[j][1], StreamStart) \in Nat /\ WrapSub(list[j][2], StreamStart) \in Nat
        /\ WrapSub(list[j][1], StreamStart) < WrapSub(list[j][2], StreamStart)
  BY <1>1, ConstantsType, RegionOffsets DEF Separate
<1>3. i \in 1..Len(list) /\ x = WrapSub(list[i][1], StreamStart)
  BY <1>1
<1>4. x > at
  BY <1>1, <1>3 DEF Behind
<1>5. x \in Got(w)
  <2>1. Inside(StreamStart, list, x)
    BY <1>2, <1>3 DEF Inside
  <2> QED
    BY <1>1, <2>1 DEF Got, Held
<1>6. PICK y \in Nat : x = y + 1 /\ at <= y
  <2>1. x - 1 \in Nat /\ x = (x - 1) + 1 /\ at <= x - 1
    BY <1>4
  <2> QED
    BY <2>1
<1>7. ASSUME NEW j \in 1..Len(list), WrapSub(list[j][1], StreamStart) <= y,
             y < WrapSub(list[j][2], StreamStart)
      PROVE  FALSE
  <2>1. PICK a \in Nat, b \in Nat, d \in Nat :
          /\ a = WrapSub(list[j][1], StreamStart) /\ b = WrapSub(list[j][2], StreamStart)
          /\ d = WrapSub(list[i][2], StreamStart) /\ x < d
    BY <1>2, <1>3
  <2>2. a <= y /\ y < b
    BY <1>7, <2>1
  <2>3. /\ j < i => b < x
        /\ i < j => d < a
    BY <1>1, <1>3, <2>1 DEF Separate
  <2>4. i = j => a = x
    BY <1>3, <2>1
  <2>5. CASE j < i
    BY <1>6, <2>2, <2>3, <2>5
  <2>6. CASE i < j
    BY <1>6, <2>1, <2>2, <2>3, <2>6
  <2>7. CASE i = j
    BY <1>6, <2>2, <2>4, <2>7
  <2> QED
    BY <1>3, <2>5, <2>6, <2>7
<1>8. y \notin Got(w)
  <2>1. ~Inside(StreamStart, list, y)
    BY <1>7 DEF Inside
  <2>2. ~(y < at)
    BY <1>6
  <2> QED
    BY <1>1, <2>1, <2>2 DEF Got, Held
<1>9. x - 1 = y /\ x > 0
  BY <1>6
<1> QED
  BY <1>4, <1>5, <1>8, <1>9

\* What recv leaves when a packet of the network arrives.
Arrived(t, n, w, net, packet, ret) ==
  /\ ChannelInv(t, n, ret.win, net)
  /\ ret.result # "Panic"
  /\ ReadOffset(StreamStart, ret.win) = ReadOffset(StreamStart, w)
  /\ Got(w) \subseteq Got(ret.win)
  /\ ret.result = "Some" =>
       /\ ret.end \in StreamPositions
       /\ Received(ret.win, packet.start, WrapSub(ret.end, packet.start))

\* A data packet in flight is stored as the receiver needs it.
LEMMA RecvChannel ==
  ASSUME NEW t, NEW n, NEW w, NEW net, ChannelInv(t, n, w, net), NEW packet \in net,
         NEW ret, ret = recv(RecvWindowSize, w, packet.start, packet.bytes)
  PROVE  Arrived(t, n, w, net, packet, ret)
<1>1. /\ n \in Nat /\ n <= StreamLen /\ SenderInv(t, n) /\ Beyond(w) /\ Linked(t, w)
      /\ RecvWindowInv(RecvWindowSize, StreamStart, StreamLen, w)
      /\ DataOK(t, packet)
  BY DEF ChannelInv
<1>2. PICK start \in StreamPositions, bytes \in Seq(Int) :
        start = packet.start /\ bytes = packet.bytes /\ StreamFrom(start, bytes)
  BY <1>1 DEF DataOK
<1>3. PICK s \in Nat, k \in Nat, N \in Nat, t0 \in Nat, max \in Nat :
        /\ s = Offset(start) /\ k = Len(bytes) /\ N = SendOffset(t)
        /\ t0 = ReadOffset(StreamStart, w) /\ max = MaxWindow
  BY ChannelSpans, ChannelGot, OffsetType, LenProperties, ConstantsType
<1>4. /\ k >= 1 /\ k <= MaxPayload /\ s + k <= N /\ N <= n /\ t0 <= StreamLen
      /\ StreamLen + RecvWindowSize <= max /\ StreamLen \in Nat /\ RecvWindowSize \in Nat
      /\ RecvWindowSize <= max /\ StreamLen <= max
  BY <1>1, <1>2, <1>3, ConstantsType, ChannelSpans, ChannelGot DEF DataOK
<1>5. s + k <= StreamLen /\ t0 + RecvWindowSize <= s + max /\ t0 + RecvWindowSize <= max
  BY <1>1, <1>4
<1>6. PICK last \in Nat : last = Lesser(s + k, t0 + RecvWindowSize) /\ last <= s + k
                          /\ last <= t0 + RecvWindowSize
  <2>1. /\ Lesser(s + k, t0 + RecvWindowSize) \in Nat
        /\ Lesser(s + k, t0 + RecvWindowSize) <= s + k
        /\ Lesser(s + k, t0 + RecvWindowSize) <= t0 + RecvWindowSize
    BY <1>4 DEF Lesser
  <2> QED
    BY <2>1
<1>7. RecvKept(RecvWindowSize, StreamStart, StreamLen, w, s, last, ret)
  <2>1. BlockAt(RecvWindowSize, StreamStart, StreamLen, w, start, bytes, s, k, t0, last)
    <3>1. s = WrapSub(start, StreamStart)
      BY <1>3 DEF Offset
    <3> QED
      BY <1>1, <1>2, <1>3, <1>4, <1>5, <1>6, <3>1 DEF BlockAt
  <2>2. ret = recv(RecvWindowSize, w, start, bytes)
    BY <1>2
  <2> QED
    BY <2>1, <2>2, ConstantsType, RecvKeeps
<1>8. PICK w1 : w1 = ret.win
  OBVIOUS
<1>9. /\ s < last => /\ ret.result = "Some"
                     /\ ret.end \in StreamPositions /\ WrapSub(ret.end, StreamStart) = last
      /\ ~(s < last) => ret.result = "None"
      /\ RecvWindowInv(RecvWindowSize, StreamStart, StreamLen, w1)
      /\ ReadOffset(StreamStart, w1) = t0
      /\ \A o \in Nat : Held(StreamStart, w1, o)
                          <=> Held(StreamStart, w, o) \/ (s <= o /\ o < last)
  BY <1>3, <1>7, <1>8 DEF RecvKept, Extends
<1>10. Got(w1) = Got(w) \cup {o \in Nat : s <= o /\ o < last}
  BY <1>9 DEF Got
<1>11. Linked(t, w1)
  <2>1. SendOffset(t) + t.rra <= WindowEnd(w1) + InitSend
    BY <1>1, <1>3, <1>9 DEF Linked, WindowEnd
  <2>2. ASSUME NEW o \in Got(w1) PROVE o < SendOffset(t)
    <3>1. CASE o \in Got(w)
      BY <1>1, <3>1 DEF Linked
    <3>2. CASE o \in Nat /\ o < last
      <4>1. o < N
        BY <1>4, <1>6, <3>2
      <4> QED
        BY <1>3, <4>1
    <3> QED
      BY <1>10, <3>1, <3>2
  <2>3. Covered(t, w1)
    BY <1>1, <1>10 DEF Linked, Covered
  <2> QED
    BY <2>1, <2>2, <2>3 DEF Linked
<1>12. PICK L : L = Spans(t) \cup {Span(p) : p \in net}
  OBVIOUS
<1>13. /\ Aligned(Got(w), L) /\ Span(packet) \in L /\ \A l \in L : IsSpan(l)
       /\ Got(w) \subseteq Nat
  BY <1>12, ChannelSpans, ChannelGot DEF ChannelInv
<1>14. Span(packet)[1] = s /\ Span(packet)[2] = s + k
  BY <1>2, <1>3 DEF Span
<1>15. Aligned(Got(w1), L)
  <2>1. PICK p \in L : p = Span(packet) /\ p[1] = s /\ p[2] = s + k
    BY <1>13, <1>14
  <2>2. last <= p[2] /\ Got(w1) = Got(w) \cup {o \in Nat : p[1] <= o /\ o < last}
    BY <1>6, <1>10, <2>1
  <2>3. PICK G, H : /\ G = Got(w) /\ H = Got(w1) /\ G \subseteq Nat /\ Aligned(G, L)
                    /\ H = G \cup {o \in Nat : p[1] <= o /\ o < last}
    BY <1>13, <2>2
  <2>4. \A l \in L : IsSpan(l)
    BY <1>13
  <2>5. G \subseteq Nat /\ Aligned(G, L) /\ H = G \cup {o \in Nat : p[1] <= o /\ o < last}
    BY <2>3
  <2>6. last <= p[2]
    BY <2>2
  <2>7. Aligned(H, L)
    BY <2>4, <2>5, <2>6, AlignedReceive
  <2> QED
    BY <2>3, <2>7
<1>16. PICK at \in Nat :
         /\ at = WrapSub(w.recv_pos, StreamStart) /\ at <= StreamLen
         /\ w.recv_pos \in StreamPositions /\ w.unready \in Seq(Ranges)
         /\ w = [buf |-> w.buf, recv_pos |-> w.recv_pos, unready |-> w.unready]
  BY <1>1, ConstantsType, RecvWindowFacts
<1>17. PICK top \in Nat : top = Lesser(StreamLen, t0 + RecvWindowSize)
                          /\ top <= MaxWindow /\ last <= top
  <2>1. /\ Lesser(StreamLen, t0 + RecvWindowSize) \in Nat
        /\ Lesser(StreamLen, t0 + RecvWindowSize) <= max
        /\ last <= Lesser(StreamLen, t0 + RecvWindowSize)
    BY <1>4, <1>5, <1>6 DEF Lesser
  <2> QED
    BY <1>3, <2>1
<1>18. Separate(StreamStart, top, w.unready) /\ Behind(StreamStart, at, w.unready)
  BY <1>1, <1>3, <1>16, <1>17 DEF RecvWindowInv, Beyond, Behind
<1>19. stream_ge(w.recv_pos, start) <=> at >= s
  <2>1. at <= MaxWindow /\ s <= MaxWindow
    BY <1>3, <1>4, <1>5, <1>16, SMTT(30)
  <2>2. at = WrapSub(w.recv_pos, StreamStart) /\ s = WrapSub(start, StreamStart)
    BY <1>3, <1>16 DEF Offset
  <2> QED
    BY <1>16, <2>1, <2>2, ConstantsType, CmpOffsets
<1>20. Beyond(w1)
  <2>1. RecvCases(RecvWindowSize, w, start, ret)
    BY <1>2, <1>16, RecvDoes
  <2>2. CASE w1 = w
    BY <1>1, <2>2
  <2>3. ASSUME ret.result = "Some"
        PROVE  s < last /\ ret.end \in StreamPositions /\ WrapSub(ret.end, StreamStart) = last
    BY <1>9, <2>3
  <2>4. CASE /\ ret.result = "Some" /\ stream_ge(w.recv_pos, start)
             /\ w1.recv_pos = JoinReady(w.unready, ret.end).end
             /\ w1.unready = JoinReady(w.unready, ret.end).unready
    <3>1. PICK end \in StreamPositions : end = ret.end /\ last = WrapSub(end, StreamStart)
      BY <2>3, <2>4
    <3>2. PICK join : join = JoinReady(w.unready, end)
      OBVIOUS
    <3>3. ASSUME NEW i \in 1..Len(w.unready)
          PROVE  last <= WrapSub(w.unready[i][1], StreamStart)
      <4>1. PICK x \in Nat : x = WrapSub(w.unready[i][1], StreamStart)
        BY <1>16, ConstantsType, RegionOffsets
      <4>2. x \in Got(w) /\ x > at /\ x > 0 /\ x - 1 \notin Got(w)
        BY <1>16, <1>18, <4>1, RegionFirst
      <4>3. ~(s < x /\ x < s + k)
        BY <1>13, <1>14, <4>2 DEF Aligned
      <4>4. s < x
        BY <1>19, <2>4, <4>2
      <4>5. last <= x
        BY <1>6, <4>3, <4>4
      <4> QED
        BY <4>1, <4>5
    <3>4. Behind(StreamStart, WrapSub(join.end, StreamStart), join.unready)
      <4>1. PICK list \in Seq(Ranges) : list = w.unready
        BY <1>16
      <4>2. /\ Separate(StreamStart, top, list) /\ join = JoinReady(list, end)
            /\ \A i \in 1..Len(list) : last <= WrapSub(list[i][1], StreamStart)
        BY <1>18, <3>2, <3>3, <4>1
      <4> QED
        BY <1>17, <3>1, <4>2, ConstantsType, JoinBehind
    <3> QED
      BY <2>4, <3>1, <3>2, <3>4 DEF Behind, Beyond
  <2>5. CASE /\ ret.result = "Some" /\ ~stream_ge(w.recv_pos, start)
             /\ w1.recv_pos = w.recv_pos
             /\ w1.unready = InsertUnready(w.unready, start, ret.end).unready
    <3>1. PICK end \in StreamPositions : end = ret.end /\ last = WrapSub(end, StreamStart)
                                         /\ s < last
      BY <2>3, <2>5
    <3>2. PICK insert : insert = InsertUnready(w.unready, start, end)
      OBVIOUS
    <3>3. at < s /\ s = WrapSub(start, StreamStart)
      BY <1>3, <1>19, <2>5 DEF Offset
    <3>4. Behind(StreamStart, at, insert.unready)
      <4>1. PICK list \in Seq(Ranges) : list = w.unready
        BY <1>16
      <4>2. /\ Separate(StreamStart, top, list) /\ insert = InsertUnready(list, start, end)
            /\ Behind(StreamStart, at, list)
        BY <1>18, <3>2, <4>1
      <4> QED
        BY <1>17, <3>1, <3>3, <4>2, ConstantsType, InsertBehind
    <3> QED
      BY <1>16, <2>5, <3>1, <3>2, <3>4 DEF Behind, Beyond
  <2> QED
    BY <1>8, <2>1, <2>2, <2>4, <2>5 DEF RecvCases
<1>21. ChannelInv(t, n, w1, net)
  <2>1. \A p \in net : DataOK(t, p)
    BY DEF ChannelInv
  <2> QED
    BY <1>1, <1>9, <1>11, <1>12, <1>15, <1>20, <2>1 DEF ChannelInv
<1>22. ASSUME ret.result = "Some"
       PROVE  /\ ret.end \in StreamPositions
              /\ Received(w1, start, WrapSub(ret.end, start))
  <2>1. s < last /\ ret.end \in StreamPositions /\ WrapSub(ret.end, StreamStart) = last
    BY <1>9, <1>22
  <2>2. PICK d \in Nat : last = s + d /\ d >= 1
    <3>1. last - s \in Nat /\ last - s >= 1 /\ last = s + (last - s)
      BY <2>1
    <3> QED
      BY <3>1
  <2>3. WrapSub(ret.end, start) = d
    <3>1. Offset(ret.end) = Offset(start) + d
      BY <1>3, <2>1, <2>2 DEF Offset
    <3> QED
      BY <2>1, <3>1, OffsetDistance
  <2>4. d <= MaxPayload /\ s + d <= StreamLen
    <3>1. MaxPayload \in Nat
      BY ConstantsType
    <3> QED
      BY <1>4, <1>5, <1>6, <2>2, <3>1
  <2>5. \A o \in Nat : s <= o /\ o < s + d => o \in Got(w1)
    BY <1>10, <2>2
  <2>6. Received(w1, start, d)
    BY <1>3, <2>2, <2>4, <2>5 DEF Received
  <2> QED
    BY <2>1, <2>3, <2>6
<1>23. ret.result # "Panic"
  BY <1>9
<1> QED
  BY <1>2, <1>3, <1>8, <1>9, <1>10, <1>21, <1>22, <1>23 DEF Arrived

(***************************************************************************)
(* The inductive invariant of the channel.                                 *)
(***************************************************************************)
IInv ==
  /\ ChannelInv(task, written, rw, data)
  /\ \A ack \in acks : AckOK(rw, ack)
  /\ AckingOK(rw, acking)
  /\ DeliveredOK
  /\ faults \in 0..MaxFaults
  /\ panicked = FALSE

\* The receiver has what it had.
Grows(w, after) ==
  /\ Got(w) \subseteq Got(after)
  /\ WindowEnd(w) \in Nat /\ WindowEnd(after) \in Nat /\ WindowEnd(w) <= WindowEnd(after)

\* An acknowledgement in flight stays true while the receiver goes on.
LEMMA AckStays ==
  ASSUME NEW w, NEW after, Grows(w, after), NEW ack, AckOK(w, ack)
  PROVE  AckOK(after, ack)
<1>1. Received(after, ack.start, ack.len)
  BY DEF AckOK, Received, Grows
<1>2. PICK v \in Nat, a \in Nat, b \in Nat :
        v = Offset(ack.window) /\ a = WindowEnd(w) /\ b = WindowEnd(after)
  BY OffsetType DEF AckOK, Grows
<1>3. v <= a /\ a <= b
  BY <1>2 DEF AckOK, Grows
<1>4. v <= b
  BY <1>3
<1> QED
  BY <1>1, <1>2, <1>4 DEF AckOK

\* So does the one about to be sent.
LEMMA AckingStays ==
  ASSUME NEW w, NEW after, Grows(w, after), NEW range, AckingOK(w, range)
  PROVE  AckingOK(after, range)
BY DEF AckingOK, Received, Grows

\* The bytes a read returns.
LEMMA ReadBytes ==
  ASSUME NEW t, NEW n, NEW w, NEW net, ChannelInv(t, n, w, net), NEW k \in Nat,
         NEW bytes, bytes = Read(w.buf, 0, k), NEW t0 \in Nat, t0 = ReadOffset(StreamStart, w)
  PROVE  \E m \in Nat : /\ m = Lesser(k, w.buf.used) /\ m <= w.buf.used
                        /\ bytes \in Seq(Int) /\ Len(bytes) = m
                        /\ StreamFrom(WrapAdd(StreamStart, t0), bytes)
<1>1. RecvWindowInv(RecvWindowSize, StreamStart, StreamLen, w)
  BY DEF ChannelInv
<1>2. PICK used \in Nat, at \in Nat :
        /\ used = w.buf.used /\ at = WrapSub(w.recv_pos, StreamStart)
        /\ used <= at /\ t0 = at - used /\ at <= StreamLen /\ used <= RecvWindowSize
        /\ w.buf \in Queues(RecvWindowSize)
  <2>1. /\ w.buf \in Queues(RecvWindowSize) /\ w.buf.used \in Nat /\ w.buf.used <= RecvWindowSize
        /\ WrapSub(w.recv_pos, StreamStart) \in Nat
        /\ w.buf.used <= WrapSub(w.recv_pos, StreamStart)
        /\ WrapSub(w.recv_pos, StreamStart) <= StreamLen
        /\ ReadOffset(StreamStart, w) = WrapSub(w.recv_pos, StreamStart) - w.buf.used
    BY <1>1, ConstantsType, RecvWindowFacts
  <2> QED
    BY <2>1
<1>3. PICK m \in Nat : m = Lesser(k, used) /\ m <= used
  BY DEF Lesser
<1>4. bytes = [i \in 1..m |-> w.buf.cells[i - 1]]
  <2>1. (IF used <= 0 THEN 0 ELSE Lesser(used - 0, k)) = m
    BY <1>3 DEF Lesser
  <2>2. bytes = [i \in 1..m |-> w.buf.cells[0 + i - 1]]
    BY <1>2, <2>1 DEF Read
  <2>3. \A i \in 1..m : 0 + i - 1 = i - 1
    OBVIOUS
  <2> QED
    BY <2>2, <2>3
<1>5. ASSUME NEW i \in 1..m
      PROVE  w.buf.cells[i - 1] \in Int /\ w.buf.cells[i - 1] = WrapAdd(StreamStart, t0 + (i - 1))
  <2>1. PICK j \in Nat : j = i - 1 /\ j < used
    BY <1>3
  <2>2. t0 + j \in Nat /\ t0 + j >= t0 /\ t0 + j < at /\ (t0 + j) - t0 = j
    BY <1>2, <2>1
  <2>3. Held(StreamStart, w, t0 + j)
    BY <1>2, <2>2 DEF Held
  <2>4. w.buf.cells[(t0 + j) - t0] = WrapAdd(StreamStart, t0 + j)
    BY <1>1, <2>2, <2>3 DEF RecvWindowInv, HoldsStream
  <2>5. w.buf.cells[j] \in Int
    <3>1. j \in 0..(RecvWindowSize - 1)
      BY <1>2, <2>1, ConstantsType
    <3> QED
      BY <1>2, <3>1 DEF Queues
  <2> QED
    BY <2>1, <2>2, <2>4, <2>5
<1>6. bytes \in [1..m -> Int] /\ \A i \in 1..m : bytes[i] = WrapAdd(StreamStart, t0 + (i - 1))
  BY <1>4, <1>5
<1>7. bytes \in Seq(Int) /\ Len(bytes) = m
  BY <1>6
<1>8. ASSUME NEW i \in 1..m PROVE bytes[i] = WrapAdd(WrapAdd(StreamStart, t0), i - 1)
  <2>1. PICK j \in Nat : j = i - 1 /\ j < used
    BY <1>3
  <2>2. t0 + j < Modulus
    <3>1. StreamLen < Modulus /\ StreamLen \in Nat /\ Modulus \in Nat
      BY ConstantsType
    <3> QED
      BY <1>2, <2>1, <3>1
  <2>3. WrapAdd(WrapAdd(StreamStart, t0), j) = WrapAdd(StreamStart, t0 + j)
    BY <2>2, ConstantsType, WrapAddAssociative
  <2> QED
    BY <1>6, <2>1, <2>3
<1>9. StreamFrom(WrapAdd(StreamStart, t0), bytes)
  BY <1>7, <1>8 DEF StreamFrom
<1> QED
  BY <1>2, <1>3, <1>7, <1>9

\* A part of the stream and the part behind it.
LEMMA StreamJoined ==
  ASSUME NEW a \in Seq(Int), NEW b \in Seq(Int), StreamFrom(StreamStart, a),
         NEW n \in Nat, n = Len(a), NEW m \in Nat, m = Len(b), n + m <= StreamLen,
         StreamFrom(WrapAdd(StreamStart, n), b)
  PROVE  a \o b \in Seq(Int) /\ Len(a \o b) = n + m /\ StreamFrom(StreamStart, a \o b)
<1>1. PICK c : c = a \o b
  OBVIOUS
<1>2. /\ c \in Seq(Int) /\ Len(c) = n + m
      /\ \A i \in 1..(n + m) : c[i] = IF i <= n THEN a[i] ELSE b[i - n]
  BY <1>1
<1>3. ASSUME NEW i \in 1..(n + m) PROVE c[i] = WrapAdd(StreamStart, i - 1)
  <2>1. CASE i <= n
    BY <1>2, <2>1 DEF StreamFrom
  <2>2. CASE ~(i <= n)
    <3>1. PICK k \in Nat : i = n + k + 1 /\ k < m
      <4>1. i - n - 1 \in Nat /\ i - n - 1 < m /\ i = n + (i - n - 1) + 1
        BY <2>2
      <4> QED
        BY <4>1
    <3>2. k + 1 \in 1..m /\ i - n = k + 1 /\ (k + 1) - 1 = k /\ i - 1 = n + k
      BY <3>1
    <3>3. c[i] = b[k + 1]
      BY <1>2, <2>2, <3>2
    <3>4. b[k + 1] = WrapAdd(WrapAdd(StreamStart, n), k)
      BY <3>2 DEF StreamFrom
    <3>5. n + k < Modulus
      <4>1. StreamLen < Modulus /\ StreamLen \in Nat /\ Modulus \in Nat
        BY ConstantsType
      <4> QED
        BY <3>1, <4>1
    <3>6. WrapAdd(WrapAdd(StreamStart, n), k) = WrapAdd(StreamStart, n + k)
      BY <3>5, ConstantsType, WrapAddAssociative, ZenonT(60)
    <3> QED
      BY <3>2, <3>3, <3>4, <3>6
  <2> QED
    BY <2>1, <2>2
<1> QED
  BY <1>1, <1>2, <1>3 DEF StreamFrom

----------------------------------------------------------------------------
(* The initial states. *)

\* It holds at the start.
LEMMA InitInv == Init => IInv
<1> SUFFICES ASSUME Init PROVE IInv
  OBVIOUS
<1>1. /\ task = NewTask /\ written = 0 /\ acking = Idle /\ delivered = <<>>
      /\ rw = NewRecvWindow(RecvWindowSize, StreamStart, Unwritten)
      /\ data = {} /\ acks = {} /\ faults = 0 /\ panicked = FALSE
  BY DEF Init
<1>2. Unwritten \in Int
  BY DEF Unwritten
<1>3. PICK sw : sw = NewSendWindow(SendWindowSize, StreamStart, Unwritten)
  OBVIOUS
<1>4. SendWindowInv(SendWindowSize, sw) /\ unacked_start(sw) = StreamStart
  BY <1>2, <1>3, ConstantsType, NewSendWindowInv
<1>5. /\ sw.buf.used = 0 /\ sw.send_pos = StreamStart /\ sw.unacked_ranges = <<>>
  BY <1>3 DEF NewSendWindow, NewQueue
<1>6. PICK map : map = [p \in {} |-> 0]
  OBVIOUS
<1>7. DOMAIN map = {}
  BY <1>6
<1>8. task = [sw |-> sw, rra |-> InitSend, unacked |-> map]
  BY <1>1, <1>3, <1>6 DEF NewTask
<1>9. task.sw = sw /\ task.rra = InitSend /\ task.unacked = map
  BY <1>8
<1>10. Offset(StreamStart) = 0
  BY ConstantsType, OffsetOf DEF Offset
<1>11. SenderInv(task, written)
  <2>1. Agrees(sw.unacked_ranges, map)
    <3>1. Len(sw.unacked_ranges) = 0
      BY <1>5
    <3> QED
      BY <1>7, <3>1 DEF Agrees
  <2>2. Offset(unacked_start(sw)) + sw.buf.used = written
    BY <1>1, <1>4, <1>5, <1>10
  <2> QED
    BY <1>4, <1>8, <1>9, <2>1, <2>2, ConstantsType DEF SenderInv
<1>12. /\ RecvWindowInv(RecvWindowSize, StreamStart, StreamLen, rw)
       /\ ReadOffset(StreamStart, rw) = 0
       /\ \A o \in Nat : ~Held(StreamStart, rw, o)
  <2>1. /\ RecvWindowSize \in Nat \ {0} /\ RecvWindowSize <= MaxWindow
        /\ StreamStart \in StreamPositions /\ StreamLen \in Nat
    BY ConstantsType
  <2>2. /\ RecvWindowInv(RecvWindowSize, StreamStart, StreamLen, rw)
        /\ WrapSub(rw.recv_pos, StreamStart) = 0 /\ rw.buf.used = 0
        /\ ReadOffset(StreamStart, rw) = 0
        /\ \A o \in Nat : ~Held(StreamStart, rw, o)
    BY <1>1, <1>2, <2>1, NewRecvWindowInv
  <2> QED
    BY <2>2
<1>13. Beyond(rw)
  <2>1. Len(rw.unready) = 0
    BY <1>1 DEF NewRecvWindow
  <2> QED
    BY <2>1 DEF Beyond
<1>14. Got(rw) = {}
  BY <1>12 DEF Got
<1>15. SendOffset(task) = 0 /\ Spans(task) = {}
  BY <1>5, <1>7, <1>9, <1>10 DEF SendOffset, Spans
<1>16. Linked(task, rw)
  <2>1. 0 + InitSend <= (0 + RecvWindowSize) + InitSend
    BY ConstantsType
  <2>2. SendOffset(task) + task.rra <= WindowEnd(rw) + InitSend
    BY <1>9, <1>12, <1>15, <2>1 DEF WindowEnd
  <2> QED
    BY <1>14, <1>15, <2>2 DEF Linked, Covered
<1>17. ChannelInv(task, written, rw, data)
  <2>1. Aligned(Got(rw), Spans(task) \cup {Span(packet) : packet \in data})
    BY <1>1, <1>14, <1>15 DEF Aligned
  <2>2. written \in Nat /\ written <= StreamLen
    BY <1>1, ConstantsType
  <2> QED
    BY <1>1, <1>11, <1>12, <1>13, <1>16, <2>1, <2>2 DEF ChannelInv
<1>18. DeliveredOK
  <2>1. delivered \in Seq(Int) /\ Len(delivered) = 0
    BY <1>1
  <2> QED
    BY <1>12, <2>1 DEF DeliveredOK, StreamFrom
<1>19. faults \in 0..MaxFaults
  BY <1>1, ChannelAssumption
<1> QED
  BY <1>1, <1>17, <1>18, <1>19 DEF IInv, AckingOK

----------------------------------------------------------------------------
(* The steps. *)

\* What the receiving side's part of the invariant needs when its window grows.
LEMMA AcksStay ==
  ASSUME NEW w, NEW after, Grows(w, after), NEW set, \A ack \in set : AckOK(w, ack)
  PROVE  \A ack \in set : AckOK(after, ack)
BY AckStays

\* poll_write.
LEMMA AppWriteInv ==
  ASSUME IInv, NEW k \in 1..MaxChunk, AppWrite(k)
  PROVE  IInv'
<1>1. PICK bytes : bytes = Stream(written, written + k)
  OBVIOUS
<1>2. PICK len : len = WriteLen(SendWindowSize, task.sw.buf, 0, bytes)
  OBVIOUS
<1>3. /\ written + k <= StreamLen
      /\ task' = [task EXCEPT !.sw = SendWindowWrite(SendWindowSize, @, bytes)]
      /\ written' = written + len
      /\ rw' = rw /\ acking' = acking /\ delivered' = delivered /\ data' = data
      /\ acks' = acks /\ faults' = faults /\ panicked' = panicked
  BY <1>1, <1>2 DEF AppWrite
<1>4. k \in Nat
  BY ChannelAssumption
<1>5. ChannelInv(task, written, rw, data)
  BY DEF IInv
<1>6. ChannelInv(task', written + len, rw, data)
  BY <1>1, <1>2, <1>3, <1>4, <1>5, WriteChannel
<1>7. ChannelInv(task', written', rw', data')
  BY <1>3, <1>6
<1> QED
  BY <1>3, <1>7 DEF IInv, DeliveredOK

\* poll_read: the window moves, and the reader has the next part of the stream.
LEMMA AppReadInv ==
  ASSUME IInv, NEW k \in 1..MaxChunk, AppRead(k)
  PROVE  IInv'
<1>1. PICK bytes : bytes = Read(rw.buf, 0, k)
  OBVIOUS
<1>2. /\ rw' = RecvWindowRead(RecvWindowSize, rw, k)
      /\ delivered' = delivered \o bytes
      /\ task' = task /\ written' = written /\ acking' = acking /\ data' = data
      /\ acks' = acks /\ faults' = faults /\ panicked' = panicked
  BY <1>1 DEF AppRead
<1>3. k \in Nat
  BY ChannelAssumption
<1>4. ChannelInv(task, written, rw, data)
  BY DEF IInv
<1>5. ReadOffset(StreamStart, rw) \in Nat /\ WindowEnd(rw) \in Nat
  BY <1>4, ChannelGot
<1>6. PICK t0 \in Nat : t0 = ReadOffset(StreamStart, rw)
  BY <1>5
<1>7. PICK m \in Nat : /\ m = Lesser(k, rw.buf.used) /\ m <= rw.buf.used
                       /\ bytes \in Seq(Int) /\ Len(bytes) = m
                       /\ StreamFrom(WrapAdd(StreamStart, t0), bytes)
  BY <1>1, <1>3, <1>4, <1>6, ReadBytes
<1>8. /\ ChannelInv(task, written, rw', data)
      /\ Got(rw') = Got(rw)
      /\ ReadOffset(StreamStart, rw') = ReadOffset(StreamStart, rw) + m
  BY <1>2, <1>3, <1>4, <1>7, ReadChannel
<1>9. /\ WindowEnd(rw') \in Nat
      /\ ReadOffset(StreamStart, rw') \in Nat /\ ReadOffset(StreamStart, rw') <= StreamLen
  BY <1>8, ChannelGot
<1>10. t0 + m <= StreamLen
  BY <1>6, <1>8, <1>9
<1>11. Grows(rw, rw')
  <2>1. RecvWindowSize \in Nat
    BY ConstantsType
  <2>2. WindowEnd(rw) = t0 + RecvWindowSize /\ WindowEnd(rw') = t0 + m + RecvWindowSize
    BY <1>6, <1>8 DEF WindowEnd
  <2>3. WindowEnd(rw) <= WindowEnd(rw')
    BY <2>1, <2>2
  <2> QED
    BY <1>5, <1>8, <1>9, <2>3 DEF Grows
<1>12. \A ack \in acks : AckOK(rw', ack)
  BY <1>11, AcksStay DEF IInv
<1>13. AckingOK(rw', acking)
  BY <1>11, AckingStays DEF IInv
<1>14. /\ delivered \o bytes \in Seq(Int) /\ Len(delivered \o bytes) = t0 + m
       /\ StreamFrom(StreamStart, delivered \o bytes)
  <2>1. delivered \in Seq(Int) /\ Len(delivered) = t0 /\ StreamFrom(StreamStart, delivered)
    BY <1>6 DEF IInv, DeliveredOK
  <2> QED
    BY <1>7, <1>10, <2>1, StreamJoined
<1>15. DeliveredOK'
  BY <1>2, <1>6, <1>8, <1>14 DEF DeliveredOK
<1>16. ChannelInv(task', written', rw', data')
  BY <1>2, <1>8
<1> QED
  BY <1>2, <1>12, <1>13, <1>15, <1>16 DEF IInv

\* The resend timer: resend, then the allowance.
LEMMA ResendTimerInv ==
  ASSUME IInv, NEW S \in SUBSET DOMAIN task.unacked, ResendTimer(S)
  PROVE  IInv'
<1>1. PICK resent : resent = Resend(task, S)
  OBVIOUS
<1>2. /\ task' = AntiStall(resent)
      /\ data' = data \cup ResendPackets(task, S)
      /\ panicked' = ResendPanics(task, S)
      /\ written' = written /\ rw' = rw /\ acking' = acking /\ delivered' = delivered
      /\ acks' = acks /\ faults' = faults
  BY <1>1 DEF ResendTimer
<1>3. ChannelInv(task, written, rw, data)
  BY DEF IInv
<1>4. ChannelInv(resent, written, rw, data') /\ ~ResendPanics(task, S)
  BY <1>1, <1>2, <1>3, ResendChannel
<1>5. ChannelInv(task', written, rw, data')
  BY <1>2, <1>4, AntiStallChannel
<1>6. ChannelInv(task', written', rw', data') /\ panicked' = FALSE
  BY <1>2, <1>4, <1>5 DEF ResendPanics
<1> QED
  BY <1>2, <1>6 DEF IInv, DeliveredOK

\* Bytes to send: resend, send, then the allowance.
LEMMA SendAvailableInv ==
  ASSUME IInv, NEW S \in SUBSET DOMAIN task.unacked, NEW sends \in BOOLEAN,
         SendAvailable(S, sends)
  PROVE  IInv'
<1>1. PICK resent : resent = Resend(task, S)
  OBVIOUS
<1>2. PICK before : before = IF sends THEN Send(resent) ELSE resent
  OBVIOUS
<1>3. PICK net : net = data \cup ResendPackets(task, S)
  OBVIOUS
<1>4. /\ task' = AntiStall(before)
      /\ data' = net \cup (IF sends THEN SendPackets(resent) ELSE {})
      /\ panicked' = ResendPanics(task, S)
      /\ written' = written /\ rw' = rw /\ acking' = acking /\ delivered' = delivered
      /\ acks' = acks /\ faults' = faults
  BY <1>1, <1>2, <1>3 DEF SendAvailable
<1>5. ChannelInv(task, written, rw, data)
  BY DEF IInv
<1>6. ChannelInv(resent, written, rw, net) /\ ~ResendPanics(task, S)
  BY <1>1, <1>3, <1>5, ResendChannel
<1>7. ChannelInv(before, written, rw, data')
  <2>1. CASE sends
    <3>1. before = Send(resent) /\ data' = net \cup SendPackets(resent)
      BY <1>2, <1>4, <2>1
    <3> QED
      BY <1>6, <3>1, SendChannel
  <2>2. CASE ~sends
    BY <1>2, <1>4, <1>6, <2>2
  <2> QED
    BY <2>1, <2>2
<1>8. ChannelInv(task', written, rw, data')
  BY <1>4, <1>7, AntiStallChannel
<1>9. ChannelInv(task', written', rw', data') /\ panicked' = FALSE
  BY <1>4, <1>6, <1>8 DEF ResendPanics
<1> QED
  BY <1>4, <1>9 DEF IInv, DeliveredOK

\* What arrives leaves the network or is counted as a duplicate.
LEMMA LeavesFewer ==
  ASSUME NEW net, NEW net1, NEW packet, Leaves(net, net1, packet), faults \in 0..MaxFaults
  PROVE  net1 \subseteq net /\ faults' \in 0..MaxFaults
<1>1. MaxFaults \in Nat
  BY ChannelAssumption
<1> QED
  BY <1>1 DEF Leaves

\* A data packet arrives.
LEMMA RecvDataInv ==
  ASSUME IInv, NEW packet \in data, RecvData(packet)
  PROVE  IInv'
<1>1. PICK ret : ret = recv(RecvWindowSize, rw, packet.start, packet.bytes)
  OBVIOUS
<1>2. /\ Leaves(data, data', packet)
      /\ rw' = ret.win
      /\ acking' = IF ret.result = "Some" THEN StoredRange(packet, ret.end) ELSE Idle
      /\ panicked' = (ret.result = "Panic")
      /\ task' = task /\ written' = written /\ delivered' = delivered /\ acks' = acks
  BY <1>1 DEF RecvData
<1>3. ChannelInv(task, written, rw, data) /\ faults \in 0..MaxFaults
  BY DEF IInv
<1>4. Arrived(task, written, rw, data, packet, ret)
  BY <1>1, <1>3, RecvChannel
<1>5. /\ ChannelInv(task, written, rw', data) /\ panicked' = FALSE
      /\ ReadOffset(StreamStart, rw') = ReadOffset(StreamStart, rw)
      /\ Got(rw) \subseteq Got(rw')
      /\ ret.result = "Some" => /\ ret.end \in StreamPositions
                                /\ Received(rw', packet.start, WrapSub(ret.end, packet.start))
  BY <1>2, <1>4 DEF Arrived
<1>6. data' \subseteq data /\ faults' \in 0..MaxFaults
  BY <1>2, <1>3, LeavesFewer
<1>7. ChannelInv(task', written', rw', data')
  <2>1. ChannelInv(task, written, rw', data')
    BY <1>5, <1>6, FewerChannel
  <2> QED
    BY <1>2, <2>1
<1>8. Grows(rw, rw')
  <2>1. WindowEnd(rw) \in Nat /\ WindowEnd(rw') = WindowEnd(rw)
    BY <1>3, <1>5, ChannelGot DEF WindowEnd
  <2>2. WindowEnd(rw) <= WindowEnd(rw)
    BY <2>1
  <2> QED
    BY <1>5, <2>1, <2>2 DEF Grows
<1>9. \A ack \in acks' : AckOK(rw', ack)
  <2>1. \A ack \in acks : AckOK(rw', ack)
    BY <1>8, AcksStay DEF IInv
  <2> QED
    BY <1>2, <2>1
<1>10. AckingOK(rw', acking')
  <2>1. CASE ret.result = "Some"
    <3>1. acking'[1] = packet.start /\ acking'[2] = ret.end
      BY <1>2, <2>1 DEF StoredRange
    <3> QED
      BY <1>5, <2>1, <3>1 DEF AckingOK
  <2>2. CASE ret.result # "Some"
    BY <1>2, <2>2 DEF AckingOK
  <2> QED
    BY <2>1, <2>2
<1>11. DeliveredOK'
  <2>1. DeliveredOK
    BY DEF IInv
  <2> QED
    BY <1>2, <1>5, <2>1 DEF DeliveredOK
<1> QED
  BY <1>5, <1>6, <1>7, <1>9, <1>10, <1>11 DEF IInv

\* The acknowledgement is sent, with the window as it is by then.
LEMMA SendAckInv ==
  ASSUME IInv, SendAck
  PROVE  IInv'
<1>1. PICK ack : ack = [start |-> acking[1], len |-> WrapSub(acking[2], acking[1]),
                        window |-> window_end(RecvWindowSize, rw)]
  OBVIOUS
<1>2. /\ acking # Idle /\ acks' = acks \cup {ack} /\ acking' = Idle
      /\ task' = task /\ written' = written /\ rw' = rw /\ delivered' = delivered
      /\ data' = data /\ faults' = faults /\ panicked' = panicked
  BY <1>1 DEF SendAck
<1>3. RecvWindowInv(RecvWindowSize, StreamStart, StreamLen, rw)
  BY DEF IInv, ChannelInv
<1>4. /\ window_end(RecvWindowSize, rw) \in StreamPositions
      /\ WrapSub(window_end(RecvWindowSize, rw), StreamStart)
           = ReadOffset(StreamStart, rw) + RecvWindowSize
  BY <1>3, ConstantsType, WindowEndOffset
<1>5. WindowEnd(rw) \in Nat
  <2>1. ChannelInv(task, written, rw, data)
    BY DEF IInv
  <2> QED
    BY <2>1, ChannelGot
<1>6. ack.window \in StreamPositions /\ Offset(ack.window) = WindowEnd(rw)
  BY <1>1, <1>4 DEF Offset, WindowEnd
<1>7. Offset(ack.window) <= WindowEnd(rw)
  BY <1>5, <1>6
<1>8. Received(rw, ack.start, ack.len)
  BY <1>1, <1>2 DEF IInv, AckingOK
<1>9. AckOK(rw, ack)
  BY <1>6, <1>7, <1>8 DEF AckOK
<1>10. \A a \in acks' : AckOK(rw', a)
  BY <1>2, <1>9 DEF IInv
<1>11. AckingOK(rw', acking')
  BY <1>2 DEF AckingOK
<1> QED
  BY <1>2, <1>10, <1>11 DEF IInv, DeliveredOK

\* An acknowledgement arrives: the window, perhaps a send, the range, the allowance.
LEMMA RecvAckInv ==
  ASSUME IInv, NEW ack \in acks, NEW sends \in BOOLEAN, RecvAck(ack, sends)
  PROVE  IInv'
<1>1. PICK end : end = WrapAdd(ack.start, ack.len)
  OBVIOUS
<1>2. PICK heard : heard = UpdateRemote(task, ack.window)
  OBVIOUS
<1>3. PICK before : before = IF sends THEN Send(heard) ELSE heard
  OBVIOUS
<1>4. PICK acked : acked = AckRange(before, ack.start, end)
  OBVIOUS
<1>5. /\ Leaves(acks, acks', ack)
      /\ task' = AntiStall(acked)
      /\ data' = data \cup (IF sends THEN SendPackets(heard) ELSE {})
      /\ panicked' = AckPanics(before, ack.start, end)
      /\ written' = written /\ rw' = rw /\ acking' = acking /\ delivered' = delivered
  BY <1>1, <1>2, <1>3, <1>4 DEF RecvAck
<1>6. ChannelInv(task, written, rw, data) /\ faults \in 0..MaxFaults
  BY DEF IInv
<1>7. /\ Received(rw, ack.start, ack.len)
      /\ ack.window \in StreamPositions /\ Offset(ack.window) <= WindowEnd(rw)
  BY DEF IInv, AckOK
<1>8. ChannelInv(heard, written, rw, data)
  BY <1>2, <1>6, <1>7, HeardChannel
<1>9. ChannelInv(before, written, rw, data')
  <2>1. CASE sends
    <3>1. before = Send(heard) /\ data' = data \cup SendPackets(heard)
      BY <1>3, <1>5, <2>1
    <3> QED
      BY <1>8, <3>1, SendChannel
  <2>2. CASE ~sends
    BY <1>3, <1>5, <1>8, <2>2
  <2> QED
    BY <2>1, <2>2
<1>10. ChannelInv(acked, written, rw, data') /\ ~AckPanics(before, ack.start, end)
  BY <1>1, <1>4, <1>7, <1>9, AckChannel
<1>11. ChannelInv(task', written, rw, data')
  BY <1>5, <1>10, AntiStallChannel
<1>12. ChannelInv(task', written', rw', data')
  BY <1>5, <1>11
<1>13. panicked' = FALSE
  BY <1>5, <1>10 DEF AckPanics
<1>14. acks' \subseteq acks /\ faults' \in 0..MaxFaults
  BY <1>5, <1>6, LeavesFewer
<1>15. \A a \in acks' : AckOK(rw', a)
  BY <1>5, <1>14 DEF IInv
<1> QED
  BY <1>5, <1>12, <1>13, <1>14, <1>15 DEF IInv, DeliveredOK

\* The network loses a data packet ...
LEMMA LoseDataInv ==
  ASSUME IInv, NEW packet \in data, LoseData(packet)
  PROVE  IInv'
<1>1. /\ data' \subseteq data /\ task' = task /\ written' = written /\ rw' = rw
      /\ acking' = acking /\ delivered' = delivered /\ acks' = acks /\ panicked' = panicked
  BY DEF LoseData
<1>2. ChannelInv(task, written, rw, data)
  BY DEF IInv
<1>3. ChannelInv(task, written, rw, data')
  BY <1>1, <1>2, FewerChannel
<1>4. faults' \in 0..MaxFaults
  BY ChannelAssumption DEF LoseData, IInv
<1> QED
  BY <1>1, <1>3, <1>4 DEF IInv, DeliveredOK

\* ... or an acknowledgement.
LEMMA LoseAckInv ==
  ASSUME IInv, NEW ack \in acks, LoseAck(ack)
  PROVE  IInv'
<1>1. /\ acks' \subseteq acks /\ task' = task /\ written' = written /\ rw' = rw
      /\ acking' = acking /\ delivered' = delivered /\ data' = data /\ panicked' = panicked
  BY DEF LoseAck
<1>2. faults' \in 0..MaxFaults
  BY ChannelAssumption DEF LoseAck, IInv
<1> QED
  BY <1>1, <1>2 DEF IInv, DeliveredOK

\* Every step keeps the inductive invariant.
LEMMA NextInv == IInv /\ [Next]_vars => IInv'
<1> SUFFICES ASSUME IInv, [Next]_vars PROVE IInv'
  OBVIOUS
<1>1. ASSUME NEW n \in 1..MaxChunk, AppWrite(n) PROVE IInv'
  BY <1>1, AppWriteInv
<1>2. ASSUME NEW n \in 1..MaxChunk, AppRead(n) PROVE IInv'
  BY <1>2, AppReadInv
<1>3. ASSUME NEW S \in SUBSET DOMAIN task.unacked, ResendTimer(S) PROVE IInv'
  BY <1>3, ResendTimerInv
<1>4. ASSUME NEW S \in SUBSET DOMAIN task.unacked, NEW sends \in BOOLEAN,
             SendAvailable(S, sends)
      PROVE  IInv'
  BY <1>4, SendAvailableInv
<1>5. ASSUME NEW packet \in data, RecvData(packet) PROVE IInv'
  BY <1>5, RecvDataInv
<1>6. CASE SendAck
  BY <1>6, SendAckInv
<1>7. ASSUME NEW ack \in acks, NEW sends \in BOOLEAN, RecvAck(ack, sends) PROVE IInv'
  BY <1>7, RecvAckInv
<1>8. ASSUME NEW packet \in data, LoseData(packet) PROVE IInv'
  BY <1>8, LoseDataInv
<1>9. ASSUME NEW ack \in acks, LoseAck(ack) PROVE IInv'
  BY <1>9, LoseAckInv
<1>10. CASE UNCHANGED vars
  BY <1>10 DEF vars, IInv, DeliveredOK
<1> QED
  BY <1>1, <1>2, <1>3, <1>4, <1>5, <1>6, <1>7, <1>8, <1>9, <1>10 DEF Next

\* It holds in every state.
LEMMA Invariance == Spec => []IInv
BY InitInv, NextInv, PTL DEF Spec

----------------------------------------------------------------------------
(* The safety properties. *)

\* The properties follow from it.
LEMMA InvTypeOK == IInv => TypeOK
<1> SUFFICES ASSUME IInv PROVE TypeOK
  OBVIOUS
<1>1. /\ written \in Nat /\ written <= StreamLen /\ SenderInv(task, written)
      /\ \A packet \in data : DataOK(task, packet)
      /\ \A ack \in acks : AckOK(rw, ack)
      /\ faults \in 0..MaxFaults
  BY DEF IInv, ChannelInv
<1>2. task.rra \in Nat
  BY <1>1, SenderFacts
<1>3. \A p \in DOMAIN task.unacked : p \in StreamPositions /\ task.unacked[p].end \in StreamPositions
  BY <1>1, EntryFacts
<1>4. written \in 0..StreamLen
  BY <1>1, ConstantsType
<1>5. ASSUME NEW p \in data PROVE p.start \in StreamPositions /\ Len(p.bytes) \in 1..MaxPayload
  <2>1. /\ p.start \in StreamPositions /\ p.bytes \in Seq(Int)
        /\ Len(p.bytes) >= 1 /\ Len(p.bytes) <= MaxPayload
    BY <1>1 DEF DataOK
  <2>2. Len(p.bytes) \in Nat
    BY <2>1
  <2> QED
    BY <2>1, <2>2, ConstantsType
<1>6. ASSUME NEW a \in acks PROVE a.start \in StreamPositions /\ a.len \in 1..MaxPayload
  <2>1. a.start \in StreamPositions /\ a.len \in Nat /\ a.len >= 1 /\ a.len <= MaxPayload
    BY <1>1 DEF AckOK, Received
  <2> QED
    BY <2>1, ConstantsType
<1> QED
  BY <1>1, <1>2, <1>3, <1>4, <1>5, <1>6 DEF TypeOK

\* Covered, in the terms of the property.
LEMMA InvNothingForgotten == IInv => NothingForgotten
<1> SUFFICES ASSUME IInv, NEW o \in 0..(Offset(task.sw.send_pos) - 1), o \notin Resendable
             PROVE  o \in got
  BY DEF NothingForgotten
<1>1. ChannelInv(task, written, rw, data)
  BY DEF IInv
<1>2. /\ written \in Nat /\ written <= StreamLen /\ SenderInv(task, written)
      /\ RecvWindowInv(RecvWindowSize, StreamStart, StreamLen, rw)
      /\ Covered(task, rw)
  BY <1>1 DEF ChannelInv, Linked
<1>3. SendOffset(task) \in Nat
  BY <1>2, SenderFacts
<1>4. o \in Nat /\ o < SendOffset(task)
  BY <1>3 DEF SendOffset
<1>5. ASSUME NEW l \in Spans(task), l[1] <= o, o < l[2] PROVE FALSE
  <2>1. PICK p \in DOMAIN task.unacked : l = <<Offset(p), Offset(task.unacked[p].end)>>
    BY DEF Spans
  <2>2. Offset(p) \in Nat /\ Offset(task.unacked[p].end) \in Nat
    BY <1>2, EntryFacts
  <2>3. o \in Offset(p)..(Offset(task.unacked[p].end) - 1)
    BY <1>4, <1>5, <2>1, <2>2
  <2> QED
    BY <2>3 DEF Resendable
<1>6. Held(StreamStart, rw, o)
  BY <1>2, <1>4, <1>5 DEF Covered, Got
<1>7. WrapSub(rw.recv_pos, StreamStart) \in Nat /\ rw.unready \in Seq(Ranges)
  BY <1>2, ConstantsType, RecvWindowFacts
<1>8. CASE o < WrapSub(rw.recv_pos, StreamStart)
  <2>1. o \in 0..(WrapSub(rw.recv_pos, StreamStart) - 1)
    BY <1>4, <1>7, <1>8
  <2> QED
    BY <2>1 DEF got, recv_offset, Offset
<1>9. CASE Inside(StreamStart, rw.unready, o)
  <2>1. PICK i \in 1..Len(rw.unready) : /\ WrapSub(rw.unready[i][1], StreamStart) <= o
                                        /\ o < WrapSub(rw.unready[i][2], StreamStart)
    BY <1>9 DEF Inside
  <2>2. rw.unready[i][1] \in StreamPositions /\ rw.unready[i][2] \in StreamPositions
    BY <1>7 DEF Ranges
  <2>3. Offset(rw.unready[i][1]) \in Nat /\ Offset(rw.unready[i][2]) \in Nat
    BY <2>2, OffsetType
  <2>4. Offset(rw.unready[i][1]) <= o /\ o < Offset(rw.unready[i][2])
    BY <2>1 DEF Offset
  <2>5. o \in Offset(rw.unready[i][1])..(Offset(rw.unready[i][2]) - 1)
    BY <1>4, <2>3, <2>4
  <2> QED
    BY <2>5 DEF got
<1> QED
  BY <1>6, <1>8, <1>9 DEF Held

\* The first part of Linked, in the terms of the property.
LEMMA InvFlowControl == IInv => FlowControl
<1> SUFFICES ASSUME IInv PROVE FlowControl
  OBVIOUS
<1>1. /\ RecvWindowInv(RecvWindowSize, StreamStart, StreamLen, rw)
      /\ SendOffset(task) + task.rra <= WindowEnd(rw) + InitSend
  BY DEF IInv, ChannelInv, Linked
<1>2. WrapSub(window_end(RecvWindowSize, rw), StreamStart)
        = ReadOffset(StreamStart, rw) + RecvWindowSize
  BY <1>1, ConstantsType, WindowEndOffset
<1>3. Offset(window_end(RecvWindowSize, rw)) = WindowEnd(rw)
  BY <1>2 DEF Offset, WindowEnd
<1> QED
  BY <1>1, <1>3 DEF FlowControl, SendOffset

\* Beyond, in the terms of the property.
LEMMA InvUnreadyBeyondReady == IInv => UnreadyBeyondReady
BY DEF IInv, ChannelInv, Beyond, UnreadyBeyondReady, recv_offset, Offset

----------------------------------------------------------------------------
(* The channel implements the stream. *)

\* What the reader has read is a prefix of the stream, written before, and the windows bound the rest.
StreamSoFar ==
  /\ written \in Nat /\ written <= StreamLen
  /\ Len(delivered) \in Nat /\ Len(delivered) <= written
  /\ written - Len(delivered) <= SendWindowSize + RecvWindowSize
  /\ delivered = SubSeq(Stream(0, StreamLen), 1, Len(delivered))

\* The stream the abstract specification speaks of.
LEMMA StreamLength ==
  /\ Stream(0, StreamLen) \in Seq(Int) /\ Len(Stream(0, StreamLen)) = StreamLen
  /\ \A i \in 1..StreamLen : Stream(0, StreamLen)[i] = WrapAdd(StreamStart, i - 1)
<1>1. StreamLen \in Nat /\ StreamLen - 0 = StreamLen
  BY ConstantsType
<1>2. \A k \in 1..StreamLen : 0 + k - 1 = k - 1 /\ k - 1 \in Nat
  BY <1>1
<1>3. \A k \in 1..StreamLen : WrapAdd(StreamStart, k - 1) \in StreamPositions
  <2>1. \A k \in 1..StreamLen : k - 1 \in 0..(Modulus - 1)
    <3>1. StreamLen \in Nat /\ Modulus \in Nat /\ StreamLen < Modulus
      BY ConstantsType
    <3> QED
      BY <3>1
  <2> QED
    BY <2>1, ConstantsType, WrapType
<1>4. \A k \in 1..StreamLen : WrapAdd(StreamStart, k - 1) \in Int
  BY <1>3, ConstantsType DEF StreamPositions
<1>5. Stream(0, StreamLen) = [k \in 1..StreamLen |-> WrapAdd(StreamStart, k - 1)]
  BY <1>1, <1>2 DEF Stream, Pos
<1>6. Stream(0, StreamLen) \in [1..StreamLen -> Int]
  BY <1>4, <1>5
<1> QED
  BY <1>1, <1>5, <1>6

\* Every byte read was sent, and the bytes kept at the two ends are those of the two windows.
LEMMA InvStreamSoFar == IInv => StreamSoFar
<1> SUFFICES ASSUME IInv PROVE StreamSoFar
  OBVIOUS
<1>1. ChannelInv(task, written, rw, data)
  BY DEF IInv
<1>2. /\ written \in Nat /\ written <= StreamLen /\ SenderInv(task, written)
      /\ RecvWindowInv(RecvWindowSize, StreamStart, StreamLen, rw)
  BY <1>1 DEF ChannelInv
<1>3. PICK n \in Nat : n = Len(delivered) /\ n = ReadOffset(StreamStart, rw) /\ n <= StreamLen
  BY <1>1, ChannelGot DEF IInv, DeliveredOK
<1>4. n <= written
  <2>1. /\ rw.buf.used \in Nat /\ WrapSub(rw.recv_pos, StreamStart) \in Nat
        /\ ReadOffset(StreamStart, rw) = WrapSub(rw.recv_pos, StreamStart) - rw.buf.used
    BY <1>2, ConstantsType, RecvWindowFacts
  <2>2. PICK at \in Nat : at = WrapSub(rw.recv_pos, StreamStart) /\ n <= at
    BY <1>3, <2>1
  <2>3. SendOffset(task) \in Nat /\ SendOffset(task) <= written
    BY <1>2, SenderFacts
  <2>4. CASE at = 0
    BY <1>2, <2>2, <2>4
  <2>5. CASE at > 0
    <3>1. at - 1 \in Nat /\ at - 1 < at
      BY <2>5
    <3>2. at - 1 \in Got(rw)
      BY <2>2, <3>1 DEF Got, Held
    <3>3. at - 1 < SendOffset(task)
      BY <1>1, <3>2, ChannelGot
    <3> QED
      BY <1>2, <2>2, <2>3, <3>1, <3>3
  <2> QED
    BY <2>4, <2>5
<1>5. written - n <= SendWindowSize + RecvWindowSize
  <2>1. PICK s \in Nat, used \in Nat :
          s = Offset(unacked_start(task.sw)) /\ used = task.sw.buf.used
          /\ s + used = written /\ used <= SendWindowSize
    BY <1>2, SenderFacts
  <2>2. s <= WindowEnd(rw)
    BY <1>1, <2>1, UnackedInWindow
  <2>3. WindowEnd(rw) = n + RecvWindowSize
    BY <1>3 DEF WindowEnd
  <2>4. SendWindowSize \in Nat /\ RecvWindowSize \in Nat
    BY ConstantsType
  <2>5. s <= n + RecvWindowSize
    BY <2>2, <2>3
  <2> QED
    BY <1>2, <2>1, <2>4, <2>5
<1>6. delivered = SubSeq(Stream(0, StreamLen), 1, n)
  <2>1. PICK all \in Seq(Int) : /\ all = Stream(0, StreamLen) /\ Len(all) = StreamLen
                                /\ \A i \in 1..StreamLen : all[i] = WrapAdd(StreamStart, i - 1)
    BY StreamLength
  <2>2. StreamLen \in Nat
    BY ConstantsType
  <2>3. delivered \in Seq(Int) /\ \A i \in 1..n : delivered[i] = WrapAdd(StreamStart, i - 1)
    BY <1>3 DEF IInv, DeliveredOK, StreamFrom
  <2>4. \A i \in 1..n : i \in 1..StreamLen
    BY <1>3, <2>2
  <2>5. \A i \in 1..n : delivered[i] = all[i]
    BY <2>1, <2>3, <2>4
  <2>6. /\ SubSeq(all, 1, n) \in Seq(Int) /\ Len(SubSeq(all, 1, n)) = n
        /\ \A i \in 1..n : SubSeq(all, 1, n)[i] = all[i]
    BY <1>3, <2>1, <2>2
  <2>7. delivered = SubSeq(all, 1, n)
    <3>1. PICK part \in Seq(Int) : part = SubSeq(all, 1, n) /\ Len(part) = n
      BY <2>6
    <3>2. \A i \in 1..n : delivered[i] = part[i]
      BY <2>5, <2>6, <3>1
    <3>3. Len(delivered) = Len(part)
      BY <1>3, <3>1
    <3>4. \A i \in 1..Len(delivered) : delivered[i] = part[i]
      BY <1>3, <3>2
    <3>5. delivered = part
      BY <2>3, <3>1, <3>3, <3>4, SeqEqual
    <3> QED
      BY <3>1, <3>5
  <2> QED
    BY <2>1, <2>7
<1> QED
  BY <1>2, <1>3, <1>4, <1>5, <1>6 DEF StreamSoFar

\* The initial states map to initial states.
LEMMA InitStream == Init => Abstract!Init
BY DEF Init, Abstract!Init

\* A write maps to Write, a read to Read, and every other step to a stutter.
LEMMA NextStream == IInv /\ IInv' /\ [Next]_vars => [Abstract!Next]_Abstract!vars
<1> SUFFICES ASSUME IInv, IInv', [Next]_vars PROVE [Abstract!Next]_Abstract!vars
  OBVIOUS
<1>1. StreamSoFar
  BY InvStreamSoFar
<1>2. StreamSoFar'
  BY InvStreamSoFar, PTL
<1>3. ASSUME NEW k \in 1..MaxChunk, AppWrite(k) PROVE Abstract!Write
  <2>1. PICK bytes : bytes = Stream(written, written + k)
    OBVIOUS
  <2>2. PICK len : len = WriteLen(SendWindowSize, task.sw.buf, 0, bytes)
    OBVIOUS
  <2>3. /\ written + k <= StreamLen /\ len > 0
        /\ task' = [task EXCEPT !.sw = SendWindowWrite(SendWindowSize, @, bytes)]
        /\ written' = written + len /\ delivered' = delivered
    BY <1>3, <2>1, <2>2 DEF AppWrite
  <2>4. k \in Nat /\ ChannelInv(task, written, rw, data)
    BY ChannelAssumption DEF IInv
  <2>5. len \in Nat
    BY <2>1, <2>2, <2>3, <2>4, WriteChannel
  <2>6. written' \in (written + 1)..Len(Stream(0, StreamLen))
    <3>1. written \in Nat /\ written' \in Nat /\ written' <= StreamLen /\ StreamLen \in Nat
      BY <1>1, <1>2, ConstantsType DEF StreamSoFar
    <3>2. written' \in (written + 1)..StreamLen
      BY <2>3, <2>5, <3>1
    <3> QED
      BY <3>2, StreamLength
  <2>7. written' - Len(delivered) <= SendWindowSize + RecvWindowSize
    BY <1>2, <2>3 DEF StreamSoFar
  <2> QED
    BY <2>3, <2>6, <2>7 DEF Abstract!Write
<1>4. ASSUME NEW k \in 1..MaxChunk, AppRead(k) PROVE Abstract!Read
  <2>1. PICK bytes : bytes = Read(rw.buf, 0, k)
    OBVIOUS
  <2>2. Len(bytes) > 0 /\ delivered' = delivered \o bytes /\ written' = written
    BY <1>4, <2>1 DEF AppRead
  <2>3. k \in Nat /\ ChannelInv(task, written, rw, data)
    BY ChannelAssumption DEF IInv
  <2>4. PICK t0 \in Nat : t0 = ReadOffset(StreamStart, rw)
    BY <2>3, ChannelGot
  <2>5. bytes \in Seq(Int)
    BY <2>1, <2>3, <2>4, ReadBytes
  <2>6. delivered \in Seq(Int)
    BY DEF IInv, DeliveredOK
  <2>7. PICK a \in Nat, b \in Nat : /\ a = Len(delivered) /\ b = Len(bytes) /\ b > 0
                                    /\ Len(delivered') = a + b
    BY <2>2, <2>5, <2>6
  <2>8. /\ Len(delivered') <= written' /\ written' \in Nat
        /\ delivered' = SubSeq(Stream(0, StreamLen), 1, Len(delivered'))
    BY <1>2 DEF StreamSoFar
  <2>9. a + b \in (a + 1)..written
    BY <2>2, <2>7, <2>8
  <2>10. Len(delivered') \in (Len(delivered) + 1)..written
    BY <2>7, <2>9
  <2> QED
    BY <2>2, <2>8, <2>10 DEF Abstract!Read
<1>5. CASE \/ \E S \in SUBSET DOMAIN task.unacked : ResendTimer(S)
           \/ \E S \in SUBSET DOMAIN task.unacked, sends \in BOOLEAN : SendAvailable(S, sends)
           \/ \E packet \in data : RecvData(packet)
           \/ SendAck
           \/ \E ack \in acks, sends \in BOOLEAN : RecvAck(ack, sends)
           \/ \E packet \in data : LoseData(packet)
           \/ \E ack \in acks : LoseAck(ack)
  BY <1>5 DEF ResendTimer, SendAvailable, RecvData, SendAck, RecvAck, LoseData, LoseAck,
              Abstract!vars
<1>6. CASE UNCHANGED vars
  BY <1>6 DEF vars, Abstract!vars
<1> QED
  BY <1>3, <1>4, <1>5, <1>6 DEF Next, Abstract!Next

(***************************************************************************)
(* No packet is empty or longer than a packet can be, and                  *)
(* remote_recv_available never underflows, whatever the settings.          *)
(***************************************************************************)
THEOREM TypeOKHolds == Spec => []TypeOK
BY Invariance, InvTypeOK, PTL

(***************************************************************************)
(* No assertion or unwrap of the two tasks fails: the map of unacked       *)
(* ranges and the window's list agree at every acknowledgement, and what   *)
(* is resent is in the ring.                                               *)
(***************************************************************************)
THEOREM NoPanicHolds == Spec => []NoPanic
<1>1. IInv => NoPanic
  BY DEF IInv, NoPanic
<1> QED
  BY <1>1, Invariance, PTL

(***************************************************************************)
(* Every byte sent is in the map that resend iterates, or was received.    *)
(***************************************************************************)
THEOREM NothingForgottenHolds == Spec => []NothingForgotten
BY Invariance, InvNothingForgotten, PTL

(***************************************************************************)
(* The sender never counts on more than init_send bytes past the           *)
(* receiver's window.                                                      *)
(***************************************************************************)
THEOREM FlowControlHolds == Spec => []FlowControl
BY Invariance, InvFlowControl, PTL

(***************************************************************************)
(* The blocks that the sending task sends keep the regions of the receive  *)
(* window's list ahead of the ready bytes.                                 *)
(***************************************************************************)
THEOREM UnreadyBeyondReadyHolds == Spec => []UnreadyBeyondReady
BY Invariance, InvUnreadyBeyondReady, PTL

(***************************************************************************)
(* The two tasks and the network implement one FIFO byte stream that holds *)
(* at most what the two windows hold: poll_read returns exactly the bytes  *)
(* given to poll_write, in order and once each.                            *)
(***************************************************************************)
THEOREM ReliableChannelImplementsStream == Spec => ImplementsStream
BY InitStream, NextStream, Invariance, PTL DEF Spec, ImplementsStream, Abstract!Spec

==============================================================================
