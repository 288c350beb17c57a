---------------------- MODULE PacketMultiplexerProofs ----------------------
(***************************************************************************)
(* For any set of channels and every buffer size: a packet reaches the     *)
(* receiver of its channel once and in order, whatever happens to the      *)
(* other channels, and a flush that returned Ready left nothing behind.    *)
(*                                                                         *)
(* The line of a channel is what its receiver got, its queue, its slot and *)
(* the packet in to_send when it is for this channel.  Most steps move     *)
(* packets along the line and leave it as it is; a push adds one, at the   *)
(* end or before the packet in to_send.  The line of a channel that is not *)
(* open, or was dropped, is not looked at again: no channel is opened      *)
(* after start, and none before it has packets.                            *)
(***************************************************************************)
EXTENDS PacketMultiplexer, SequenceTheorems, TLAPS

Packets == [channel : Channels, id : Nat, via : {"sink", "try"}]

\* The shape of the state.
NetOK == /\ out \in [Channels -> Seq(Nat)] /\ sent \in [Channels -> Nat]
         /\ net \in SUBSET [channel : Channels, id : Nat]
         /\ opened \in SUBSET Channels

SinkOK == /\ to_send \in Seq(Packets) /\ Len(to_send) <= 1
          /\ slot \in [Channels -> Seq(Packets)] /\ queue \in [Channels -> Seq(Packets)]
          /\ received \in [Channels -> Seq(Packets)] /\ pushed \in [Channels -> Seq(Packets)]
          /\ incoming \in [Channels -> Nat]

\* start_send fills an empty to_send, and the sink does nothing before start.
DriverOK == /\ to_send # <<>> => to_send[1].via = "sink"
            /\ sink = "ready" => to_send = <<>>
            /\ sink # "idle" => started

\* What a receiver got, the queue, the slot and to_send are together what was pushed, and
\* the statistics count what the spsc sender has taken.
Routed(got, queued, slotted, waiting, all, counted) ==
  /\ KeepsOrder(((got \o queued) \o slotted) \o waiting, all)
  /\ counted = Len((got \o queued) \o slotted)

RoutedOK(c) == Routed(received[c], queue[c], slot[c], ToSend(c), pushed[c], incoming[c])

AllRouted == \A c \in opened \ dropped : RoutedOK(c)

\* Before start nothing was pushed.
Unused(c) == /\ slot[c] = <<>> /\ queue[c] = <<>> /\ received[c] = <<>> /\ pushed[c] = <<>>
             /\ incoming[c] = 0

UnusedInv == ~started => to_send = <<>> /\ \A c \in Channels : Unused(c)

\* A packet in a slot is put down to be flushed.
SlotsNoted == \A c \in Channels : slot[c] # <<>> => c \in to_flush

IInv == NetOK /\ SinkOK /\ DriverOK /\ UnusedInv /\ AllRouted /\ SlotsNoted /\ FlushIsComplete

----------------------------------------------------------------------------
(* Sequences of packets. *)

\* One sequence after another.
LEMMA Join ==
  ASSUME NEW a \in Seq(Packets), NEW b \in Seq(Packets)
  PROVE  /\ a \o b \in Seq(Packets) /\ Len(a \o b) = Len(a) + Len(b)
         /\ a \o <<>> = a
<1>1. a \o b \in Seq(Packets) /\ Len(a \o b) = Len(a) + Len(b) BY ConcatProperties
<1>2. a \o <<>> = a BY ConcatEmptySeq
<1> QED BY <1>1, <1>2

Associates(a, b, c) == a \o (b \o c) = (a \o b) \o c

\* Three sequences one after the other may be joined either way.
LEMMA Rejoin ==
  ASSUME NEW a \in Seq(Packets), NEW b \in Seq(Packets), NEW c \in Seq(Packets)
  PROVE  Associates(a, b, c)
BY ConcatAssociative, SMTT(30) DEF Associates

\* Receiving the first packet of b.
LEMMA MoveHead ==
  ASSUME NEW a \in Seq(Packets), NEW b \in Seq(Packets), b # <<>>
  PROVE  /\ Append(a, Head(b)) \in Seq(Packets) /\ Tail(b) \in Seq(Packets)
         /\ Append(a, Head(b)) \o Tail(b) = a \o b
<1> DEFINE x == Append(a, Head(b))
           y == Tail(b)
<1>1. /\ Head(b) \in Packets /\ y \in Seq(Packets) /\ Len(y) = Len(b) - 1
      /\ \A i \in 1..Len(y) : y[i] = b[i + 1]
  BY HeadTailProperties
<1>2. Len(b) \in Nat \ {0} /\ Len(a) \in Nat /\ Head(b) = b[1] OBVIOUS
<1>3. /\ x \in Seq(Packets) /\ Len(x) = Len(a) + 1
      /\ \A i \in 1..Len(a) : x[i] = a[i]
      /\ x[Len(a) + 1] = b[1]
  BY <1>1, <1>2, AppendProperties
<1> HIDE DEF x, y
<1>4. /\ x \o y \in Seq(Packets) /\ Len(x \o y) = Len(x) + Len(y)
      /\ \A i \in 1..(Len(x) + Len(y)) : (x \o y)[i] = IF i <= Len(x) THEN x[i] ELSE y[i - Len(x)]
  BY <1>1, <1>3, ConcatProperties
<1>5. /\ a \o b \in Seq(Packets) /\ Len(a \o b) = Len(a) + Len(b)
      /\ \A i \in 1..(Len(a) + Len(b)) : (a \o b)[i] = IF i <= Len(a) THEN a[i] ELSE b[i - Len(a)]
  BY ConcatProperties
<1>6. Len(x \o y) = Len(a \o b) BY <1>1, <1>2, <1>3, <1>4, <1>5
<1>7. ASSUME NEW i \in 1..Len(x \o y) PROVE (x \o y)[i] = (a \o b)[i]
  <2>1. CASE i <= Len(a) BY <1>1, <1>2, <1>3, <1>4, <1>5, <1>6, <2>1
  <2>2. CASE i = Len(a) + 1
    <3>1. (a \o b)[i] = b[1] BY <1>2, <1>5, <1>6, <2>2
    <3>2. (x \o y)[i] = x[Len(a) + 1] BY <1>2, <1>3, <1>4, <2>2
    <3> QED BY <1>3, <3>1, <3>2
  <2>3. CASE i > Len(a) + 1
    <3>1. PICK k \in 1..Len(y) : i - Len(x) = k /\ i - Len(a) = k + 1
      <4>1. i \in 1..(Len(a) + Len(b)) BY <1>5, <1>6
      <4>2. i - (Len(a) + 1) \in 1..(Len(b) - 1) BY <1>2, <2>3, <4>1
      <4>3. i - Len(a) = (i - (Len(a) + 1)) + 1 BY <1>2, <4>1
      <4> QED BY <1>1, <1>3, <4>2, <4>3, Zenon
    <3>2. (a \o b)[i] = b[k + 1] BY <1>2, <1>5, <1>6, <2>3, <3>1
    <3>3. (x \o y)[i] = y[k] BY <1>2, <1>3, <1>4, <2>3, <3>1
    <3> QED BY <1>1, <3>2, <3>3
  <2>4. i \in Int OBVIOUS
  <2>5. i <= Len(a) \/ i = Len(a) + 1 \/ i > Len(a) + 1 BY <1>2, <2>4
  <2> QED BY <2>1, <2>2, <2>3, <2>5, Zenon
<1>8. x \o y = a \o b BY <1>4, <1>5, <1>6, <1>7, SeqEqual
<1> QED BY <1>1, <1>3, <1>8 DEF x, y

\* Nothing keeps the order of nothing.
LEMMA EmptyKeeps ==
  ASSUME NEW line \in Seq(Packets), NEW all \in Seq(Packets), line = <<>>, all = <<>>
  PROVE  KeepsOrder(line, all)
<1>1. Len(line) = 0 /\ Len(all) = 0 OBVIOUS
<1>2. \A i \in 1..Len(line) : FALSE BY <1>1
<1>3. \A k \in 1..Len(all) : FALSE BY <1>1
<1>4. PICK place : place = [i \in 1..Len(line) |-> i] OBVIOUS
<1>5. place \in [1..Len(line) -> 1..Len(all)] BY <1>2, <1>4, Zenon
<1> QED BY <1>2, <1>3, <1>5, Zenon DEF KeepsOrder

\* The places of a line of n packets in a sequence of a packets.
Places(place, line, n, all, a) ==
  /\ place \in [1..n -> 1..a]
  /\ \A k \in 1..a : \E i \in 1..n : place[i] = k
  /\ \A i \in 1..n : line[i] = all[place[i]]
  /\ \A i, j \in 1..n :
       i < j => /\ place[i] # place[j]
                /\ line[i].via = line[j].via => place[i] < place[j]

\* KeepsOrder is that there are such places.
LEMMA PlacesAreOrder ==
  ASSUME NEW line, NEW all, NEW n, NEW a, n = Len(line), a = Len(all)
  PROVE  KeepsOrder(line, all) <=> \E place : Places(place, line, n, all, a)
BY Zenon DEF KeepsOrder, Places

\* A packet p comes after n packets of a line of l, and at the end of all.
Grows(old, new, n, l, all, more, a, p) ==
  /\ l \in {n, n + 1}
  /\ \A i \in 1..n : new[i] = old[i]
  /\ new[n + 1] = p
  /\ l = n + 1 => new[n + 2] = old[n + 1] /\ old[n + 1].via # p.via
  /\ \A k \in 1..a : more[k] = all[k]
  /\ more[a + 1] = p

\* The places after a packet has been pushed: it takes the last one, wherever it is on the
\* line.  At most one packet is behind it there, pushed by another call.
LEMMA PlacesGrow ==
  ASSUME NEW old, NEW new, NEW all, NEW more, NEW p, NEW n \in Nat, NEW l \in Nat, NEW a \in Nat,
         NEW place, Grows(old, new, n, l, all, more, a, p), Places(place, old, l, all, a)
  PROVE  \E there : Places(there, new, l + 1, more, a + 1)
<1>0. /\ l \in {n, n + 1}
      /\ \A i \in 1..n : new[i] = old[i]
      /\ new[n + 1] = p
      /\ l = n + 1 => new[n + 2] = old[n + 1] /\ old[n + 1].via # p.via
      /\ \A k \in 1..a : more[k] = all[k]
      /\ more[a + 1] = p
  BY DEF Grows
<1>1. /\ place \in [1..l -> 1..a]
      /\ \A k \in 1..a : \E i \in 1..l : place[i] = k
      /\ \A i \in 1..l : old[i] = all[place[i]]
      /\ \A i, j \in 1..l :
           i < j => /\ place[i] # place[j]
                    /\ old[i].via = old[j].via => place[i] < place[j]
  BY DEF Places
<1>2. PICK there : there = [i \in 1..(l + 1) |->
                     IF i <= n THEN place[i] ELSE IF i = n + 1 THEN a + 1 ELSE place[n + 1]]
  OBVIOUS
<1>3. \A i \in 1..(l + 1) : there[i] = IF i <= n THEN place[i]
                                        ELSE IF i = n + 1 THEN a + 1 ELSE place[n + 1]
  BY <1>2
<1>4. \A i \in 1..n : i \in 1..l /\ there[i] = place[i] /\ place[i] \in 1..a
  <2> TAKE i \in 1..n
  <2>1. i \in 1..l /\ i \in 1..(l + 1) /\ i <= n BY <1>0
  <2>2. there[i] = place[i] BY <1>3, <2>1
  <2>3. place[i] \in 1..a BY <1>1, <2>1
  <2> QED BY <2>1, <2>2, <2>3
<1>5. there[n + 1] = a + 1 /\ n + 1 \in 1..(l + 1)
  <2>1. n + 1 \in 1..(l + 1) /\ ~(n + 1 <= n) BY <1>0
  <2> QED BY <1>3, <2>1
<1>6. ASSUME l = n + 1
      PROVE  /\ there[n + 2] = place[n + 1] /\ place[n + 1] \in 1..a
             /\ n + 1 \in 1..l /\ n + 2 \in 1..(l + 1)
  <2>1. n + 2 \in 1..(l + 1) /\ ~(n + 2 <= n) /\ n + 2 # n + 1 /\ n + 1 \in 1..l BY <1>6
  <2>2. there[n + 2] = place[n + 1] BY <1>3, <2>1
  <2>3. place[n + 1] \in 1..a BY <1>1, <2>1
  <2> QED BY <2>1, <2>2, <2>3
<1>7. ASSUME NEW i \in 1..(l + 1)
      PROVE  \/ i \in 1..n
             \/ i = n + 1
             \/ i = n + 2 /\ l = n + 1
  BY <1>0
<1>8. \A k \in 1..(a + 1) : k \in 1..a \/ k = a + 1 OBVIOUS
<1>9. a + 1 \in 1..(a + 1) /\ \A k \in 1..a : k \in 1..(a + 1) /\ k # a + 1 /\ k < a + 1
  OBVIOUS
<1>10. ASSUME NEW i \in 1..(l + 1) PROVE there[i] \in 1..(a + 1)
  BY <1>4, <1>5, <1>6, <1>7, <1>9, Zenon
<1>11. there \in [1..(l + 1) -> 1..(a + 1)] BY <1>2, <1>10, Zenon
<1>12. ASSUME NEW k \in 1..(a + 1) PROVE \E i \in 1..(l + 1) : there[i] = k
  <2>1. CASE k = a + 1 BY <1>5, <2>1, Zenon
  <2>2. CASE k \in 1..a
    <3>1. PICK i \in 1..l : place[i] = k BY <1>1, <2>2, Zenon
    <3>2. CASE i \in 1..n
      <4>1. i \in 1..(l + 1) OBVIOUS
      <4> QED BY <1>4, <3>1, <3>2, <4>1, Zenon
    <3>3. CASE i = n + 1 /\ l = n + 1 BY <1>6, <3>1, <3>3, Zenon
    <3>4. i \in 1..n \/ (i = n + 1 /\ l = n + 1) BY <1>0
    <3> QED BY <3>2, <3>3, <3>4
  <2> QED BY <1>8, <2>1, <2>2, Zenon
<1>13. ASSUME NEW i \in 1..(l + 1) PROVE new[i] = more[there[i]]
  <2>1. CASE i \in 1..n
    <3>1. old[i] = all[place[i]] BY <1>1, <1>4, <2>1, Zenon
    <3>2. more[place[i]] = all[place[i]] BY <1>0, <1>4, <2>1, Zenon
    <3> QED BY <1>0, <1>4, <2>1, <3>1, <3>2, Zenon
  <2>2. CASE i = n + 1 BY <1>0, <1>5, <2>2, Zenon
  <2>3. CASE i = n + 2 /\ l = n + 1
    <3>1. old[n + 1] = all[place[n + 1]] BY <1>1, <1>6, <2>3, Zenon
    <3>2. more[place[n + 1]] = all[place[n + 1]] BY <1>0, <1>6, <2>3, Zenon
    <3> QED BY <1>0, <1>6, <2>3, <3>1, <3>2, Zenon
  <2> QED BY <1>7, <2>1, <2>2, <2>3, Zenon
<1>14. ASSUME NEW i \in 1..(l + 1), NEW j \in 1..(l + 1), i < j
       PROVE  there[i] # there[j] /\ (new[i].via = new[j].via => there[i] < there[j])
  <2>1. CASE j \in 1..n
    <3>1. i \in 1..n BY <1>14, <2>1
    <3>2. i \in 1..l /\ j \in 1..l BY <1>4, <2>1, <3>1, Zenon
    <3>3. place[i] # place[j] /\ (old[i].via = old[j].via => place[i] < place[j])
      BY <1>1, <1>14, <3>2, Zenon
    <3>4. there[i] = place[i] /\ there[j] = place[j] BY <1>4, <2>1, <3>1, Zenon
    <3>5. new[i] = old[i] /\ new[j] = old[j] BY <1>0, <2>1, <3>1, Zenon
    <3> QED BY <3>3, <3>4, <3>5, Zenon
  <2>2. CASE j = n + 1
    <3>1. i \in 1..n BY <1>14, <2>2
    <3> QED BY <1>4, <1>5, <1>9, <2>2, <3>1, Zenon
  <2>3. CASE j = n + 2 /\ l = n + 1 /\ i \in 1..n
    <3>1. i < n + 1 BY <2>3
    <3>2. i \in 1..l /\ n + 1 \in 1..l BY <1>4, <1>6, <2>3, Zenon
    <3>3. place[i] # place[n + 1] /\ (old[i].via = old[n + 1].via => place[i] < place[n + 1])
      BY <1>1, <3>1, <3>2, Zenon
    <3>4. there[i] = place[i] /\ there[j] = place[n + 1] BY <1>4, <1>6, <2>3, Zenon
    <3>5. new[i] = old[i] /\ new[j] = old[n + 1] BY <1>0, <2>3, Zenon
    <3> QED BY <3>3, <3>4, <3>5, Zenon
  <2>4. CASE j = n + 2 /\ l = n + 1 /\ i = n + 1
    <3>1. new[i].via # new[j].via BY <1>0, <2>4, Zenon
    <3>2. there[j] \in 1..a /\ there[i] = a + 1 BY <1>5, <1>6, <2>4, Zenon
    <3> QED BY <1>9, <3>1, <3>2, Zenon
  <2>5. CASE j = n + 2 /\ i = n + 2 BY <1>14, <2>5
  <2> QED BY <1>7, <2>1, <2>2, <2>3, <2>4, <2>5, Zenon
<1>15. Places(there, new, l + 1, more, a + 1)
  BY <1>11, <1>12, <1>13, <1>14, Zenon DEF Places
<1> QED BY <1>15

\* A packet that is pushed goes to the end, or before one that another call pushed.
LEMMA InsertKeeps ==
  ASSUME NEW front \in Seq(Packets), NEW back \in Seq(Packets), NEW all \in Seq(Packets),
         NEW p \in Packets, Len(back) <= 1, back # <<>> => back[1].via # p.via,
         KeepsOrder(front \o back, all)
  PROVE  KeepsOrder(Append(front, p) \o back, Append(all, p))
<1>1. PICK n \in Nat : n = Len(front) OBVIOUS
<1>2. PICK m \in Nat : m = Len(back) /\ m <= 1 OBVIOUS
<1>3. PICK a \in Nat : a = Len(all) OBVIOUS
<1>4. PICK l \in Nat : l = n + m /\ l \in {n, n + 1} BY <1>2
<1>5. PICK old \in Seq(Packets) : old = front \o back
  BY ConcatProperties
<1>6. Len(old) = l /\ \A i \in 1..(n + m) : old[i] = IF i <= n THEN front[i] ELSE back[i - n]
  BY <1>1, <1>2, <1>4, <1>5, ConcatProperties
<1>7. PICK longer \in Seq(Packets) : longer = Append(front, p) BY AppendProperties
<1>8. Len(longer) = n + 1 /\ (\A i \in 1..n : longer[i] = front[i]) /\ longer[n + 1] = p
  BY <1>1, <1>7, AppendProperties
<1>9. PICK new \in Seq(Packets) : new = longer \o back
  BY <1>7, ConcatProperties
<1>10. /\ Len(new) = l + 1
       /\ \A i \in 1..(l + 1) : new[i] = IF i <= n + 1 THEN longer[i] ELSE back[i - (n + 1)]
  <2>1. /\ Len(new) = Len(longer) + Len(back)
        /\ \A i \in 1..(Len(longer) + Len(back)) :
             new[i] = IF i <= Len(longer) THEN longer[i] ELSE back[i - Len(longer)]
    BY <1>7, <1>9, ConcatProperties
  <2>2. Len(longer) + Len(back) = l + 1 BY <1>2, <1>4, <1>8
  <2> QED BY <1>8, <2>1, <2>2, Zenon
<1>11. PICK more \in Seq(Packets) : more = Append(all, p) BY AppendProperties
<1>12. Len(more) = a + 1 /\ (\A k \in 1..a : more[k] = all[k]) /\ more[a + 1] = p
  BY <1>3, <1>11, AppendProperties
<1>13. \A i \in 1..n : new[i] = old[i]
  <2> TAKE i \in 1..n
  <2>1. old[i] = front[i] BY <1>6
  <2>2. i \in 1..(l + 1) /\ i <= n + 1 BY <1>4
  <2>3. new[i] = longer[i] BY <1>10, <2>2, Zenon
  <2> QED BY <1>8, <2>1, <2>3
<1>14. new[n + 1] = p
  <2>1. n + 1 \in 1..(l + 1) /\ n + 1 <= n + 1 BY <1>4
  <2> QED BY <1>8, <1>10, <2>1, Zenon
<1>15. ASSUME l = n + 1 PROVE new[n + 2] = old[n + 1] /\ old[n + 1].via # p.via
  <2>1. /\ m = 1 /\ (n + 1) - n = 1 /\ (n + 2) - (n + 1) = 1
        /\ n + 2 \in 1..(l + 1) /\ ~(n + 2 <= n + 1)
    BY <1>2, <1>4, <1>15
  <2>2. old[n + 1] = back[1] BY <1>6, <2>1
  <2>3. new[n + 2] = back[1] BY <1>10, <2>1, Zenon
  <2>4. Len(back) = 1 BY <1>2, <2>1
  <2>5. back # <<>>
    <3>1. Len(<<>>) = 0 /\ 1 # 0 OBVIOUS
    <3> QED BY <2>4, <3>1, Zenon
  <2> QED BY <2>2, <2>3, <2>5
<1>16. PICK place : Places(place, old, l, all, a)
  BY <1>3, <1>5, <1>6, PlacesAreOrder, Zenon
<1>17. Grows(old, new, n, l, all, more, a, p)
  BY <1>4, <1>12, <1>13, <1>14, <1>15, Zenon DEF Grows
<1>18. \E there : Places(there, new, l + 1, more, a + 1)
  BY <1>16, <1>17, PlacesGrow
<1>19. KeepsOrder(new, more)
  BY <1>10, <1>12, <1>18, PlacesAreOrder, Zenon
<1> QED BY <1>7, <1>9, <1>11, <1>19

----------------------------------------------------------------------------
(* How a packet moves along. *)

\* The slot is sent into the queue.
LEMMA RoutedFlush ==
  ASSUME NEW r \in Seq(Packets), NEW q \in Seq(Packets), NEW s \in Seq(Packets),
         NEW t \in Seq(Packets), NEW all \in Seq(Packets), NEW n \in Nat,
         Routed(r, q, s, t, all, n)
  PROVE  Routed(r, q \o s, <<>>, t, all, n)
<1>1. q \o s \in Seq(Packets) /\ r \o (q \o s) = (r \o q) \o s
  <2>1. Associates(r, q, s) BY Rejoin
  <2> QED BY <2>1, Join, Zenon DEF Associates
<1>2. r \o (q \o s) \in Seq(Packets) BY <1>1, Join
<1>3. (r \o (q \o s)) \o <<>> = (r \o q) \o s BY <1>1, <1>2, Join
<1> QED BY <1>3, Zenon DEF Routed

\* The receiver takes a packet from the queue.
LEMMA RoutedReceive ==
  ASSUME NEW r \in Seq(Packets), NEW q \in Seq(Packets), NEW s \in Seq(Packets),
         NEW t \in Seq(Packets), NEW all \in Seq(Packets), NEW n \in Nat,
         Routed(r, q, s, t, all, n), q # <<>>
  PROVE  Routed(Append(r, Head(q)), Tail(q), s, t, all, n)
<1>1. Append(r, Head(q)) \o Tail(q) = r \o q BY MoveHead
<1> QED BY <1>1, Zenon DEF Routed

\* The packet in to_send goes to the slot, after the one in it was sent.
LEMMA RoutedReady ==
  ASSUME NEW r \in Seq(Packets), NEW q \in Seq(Packets), NEW s \in Seq(Packets),
         NEW t \in Seq(Packets), NEW all \in Seq(Packets), NEW n \in Nat,
         Routed(r, q, s, t, all, n), Len(t) = 1
  PROVE  Routed(r, q \o s, t, <<>>, all, n + 1)
<1>1. q \o s \in Seq(Packets) /\ r \o (q \o s) = (r \o q) \o s
  <2>1. Associates(r, q, s) BY Rejoin
  <2> QED BY <2>1, Join, Zenon DEF Associates
<1>2. r \o (q \o s) \in Seq(Packets) BY <1>1, Join
<1>3. PICK u \in Seq(Packets) : u = (r \o q) \o s /\ u = r \o (q \o s) BY <1>1, <1>2
<1>4. u \o t \in Seq(Packets) /\ Len(u \o t) = Len(u) + Len(t) BY Join
<1>5. (u \o t) \o <<>> = u \o t BY <1>4, Join
<1>6. KeepsOrder(u \o t, all) /\ n = Len(u) BY <1>3, Zenon DEF Routed
<1>7. Len(u \o t) = n + 1 BY <1>4, <1>6
<1>8. KeepsOrder((u \o t) \o <<>>, all) BY <1>5, <1>6, Zenon
<1> QED BY <1>3, <1>7, <1>8, Zenon DEF Routed

\* A packet is put in an empty to_send.
LEMMA RoutedStart ==
  ASSUME NEW r \in Seq(Packets), NEW q \in Seq(Packets), NEW s \in Seq(Packets),
         NEW all \in Seq(Packets), NEW n \in Nat, NEW p \in Packets,
         Routed(r, q, s, <<>>, all, n)
  PROVE  Routed(r, q, s, <<p>>, Append(all, p), n)
<1>1. r \o q \in Seq(Packets) BY Join
<1>2. PICK u \in Seq(Packets) : u = (r \o q) \o s BY <1>1, Join
<1>3. <<>> \in Seq(Packets) /\ Len(<<>>) <= 1 OBVIOUS
<1>4. KeepsOrder(u \o <<>>, all) /\ n = Len(u) BY <1>2, Zenon DEF Routed
<1>5. KeepsOrder(Append(u, p) \o <<>>, Append(all, p)) BY <1>3, <1>4, InsertKeeps
<1>6. Append(u, p) \in Seq(Packets) BY AppendProperties
<1>7. Append(u, p) \o <<>> = Append(u, p) BY <1>6, Join
<1>8. Append(u, p) = u \o <<p>> BY AppendIsConcat
<1> QED BY <1>2, <1>4, <1>5, <1>7, <1>8, Zenon DEF Routed

\* try_send: the slot is sent and then the packet, past the one in to_send.
LEMMA RoutedTry ==
  ASSUME NEW r \in Seq(Packets), NEW q \in Seq(Packets), NEW s \in Seq(Packets),
         NEW t \in Seq(Packets), NEW all \in Seq(Packets), NEW n \in Nat, NEW p \in Packets,
         Routed(r, q, s, t, all, n), Len(t) <= 1, t # <<>> => t[1].via # p.via
  PROVE  Routed(r, Append(q \o s, p), <<>>, t, Append(all, p), n + 1)
<1>1. PICK qs \in Seq(Packets) : qs = q \o s /\ r \o qs = (r \o q) \o s
  <2>1. Associates(r, q, s) BY Rejoin
  <2> QED BY <2>1, Join, Zenon DEF Associates
<1>2. PICK u \in Seq(Packets) : u = (r \o q) \o s /\ u = r \o qs BY <1>1, Join
<1>3. KeepsOrder(u \o t, all) /\ n = Len(u) BY <1>2, Zenon DEF Routed
<1>4. KeepsOrder(Append(u, p) \o t, Append(all, p)) BY <1>3, InsertKeeps
<1>5. Append(u, p) \in Seq(Packets) /\ Len(Append(u, p)) = n + 1 BY <1>3, AppendProperties
<1>6. <<p>> \in Seq(Packets) OBVIOUS
<1>7. Append(u, p) = u \o <<p>> /\ Append(qs, p) = qs \o <<p>> BY AppendIsConcat
<1>8. r \o (qs \o <<p>>) = (r \o qs) \o <<p>>
  <2>1. Associates(r, qs, <<p>>) BY <1>6, Rejoin
  <2> QED BY <2>1, Zenon DEF Associates
<1>9. r \o Append(qs, p) = Append(u, p) BY <1>2, <1>7, <1>8, Zenon
<1>10. Append(u, p) \o <<>> = Append(u, p) BY <1>5, Join
<1> QED BY <1>1, <1>4, <1>5, <1>9, <1>10, Zenon DEF Routed

\* Nothing was pushed and nothing is there.
LEMMA RoutedUnused ==
  ASSUME NEW r \in Seq(Packets), NEW q \in Seq(Packets), NEW s \in Seq(Packets),
         NEW t \in Seq(Packets), NEW all \in Seq(Packets), NEW n \in Nat,
         r = <<>>, q = <<>>, s = <<>>, t = <<>>, all = <<>>, n = 0
  PROVE  Routed(r, q, s, t, all, n)
<1>1. r \o q = r BY Join
<1>2. r \o s = r BY Join
<1>3. r \o t = r BY Join
<1>4. ((r \o q) \o s) = r /\ ((r \o q) \o s) \o t = r BY <1>1, <1>2, <1>3, Zenon
<1>5. Len(r) = 0 OBVIOUS
<1>6. KeepsOrder(r, all) BY EmptyKeeps
<1> QED BY <1>4, <1>5, <1>6, Zenon DEF Routed

----------------------------------------------------------------------------
(* The shape of the state is kept. *)

\* A packet of the transport, as it is pushed.
LEMMA PushedIsPacket ==
  ASSUME NetOK, NEW packet \in net, NEW via \in {"sink", "try"}
  PROVE  /\ Pushed(packet, via) \in Packets /\ Pushed(packet, via).via = via
         /\ Pushed(packet, via).channel = packet.channel /\ packet.channel \in Channels
<1>1. packet \in [channel : Channels, id : Nat] BY DEF NetOK
<1>2. packet.channel \in Channels /\ packet.id \in Nat BY <1>1
<1> QED BY <1>2 DEF Pushed, Packets

\* The packet in to_send.
LEMMA ToSendHead ==
  ASSUME SinkOK, to_send # <<>>
  PROVE  /\ Len(to_send) = 1 /\ to_send[1] \in Packets /\ to_send[1].channel \in Channels
         /\ ToSend(to_send[1].channel) = to_send
<1>1. to_send \in Seq(Packets) /\ Len(to_send) <= 1 BY DEF SinkOK
<1>2. Len(to_send) = 1
  <2>1. PICK n \in Nat : n = Len(to_send) /\ n <= 1 BY <1>1
  <2>2. n # 0 BY <1>1, <2>1, EmptySeq
  <2>3. \A k \in Nat : k <= 1 /\ k # 0 => k = 1 OBVIOUS
  <2> QED BY <2>1, <2>2, <2>3, Zenon
<1>3. to_send[1] \in Packets BY <1>1, <1>2
<1>4. to_send[1].channel \in Channels BY <1>3 DEF Packets
<1> QED BY <1>2, <1>3, <1>4 DEF ToSend

\* What is in to_send for a channel.
LEMMA ToSendType ==
  ASSUME SinkOK, DriverOK, NEW c
  PROVE  /\ ToSend(c) \in Seq(Packets) /\ Len(ToSend(c)) <= 1
         /\ ToSend(c) # <<>> => ToSend(c)[1].via = "sink"
<1>1. to_send \in Seq(Packets) /\ Len(to_send) <= 1 BY DEF SinkOK
<1>2. <<>> \in Seq(Packets) /\ Len(<<>>) <= 1 OBVIOUS
<1>3. ToSend(c) = to_send \/ ToSend(c) = <<>> BY DEF ToSend
<1> QED BY <1>1, <1>2, <1>3, Zenon DEF DriverOK

\* The type of the network is kept.
LEMMA NetStep ==
  ASSUME NetOK, [Next]_vars
  PROVE  NetOK'
<1> USE DEF NetOK
<1>1. CASE UNCHANGED <<out, sent, net, opened>> BY <1>1
<1>2. ASSUME NEW c \in Channels, OpenChannel(c) PROVE NetOK'
  BY <1>2 DEF OpenChannel, sendVars
<1>3. ASSUME NEW c \in Channels, Send(c) PROVE NetOK'
  <2>1. out[c] \in Seq(Nat) /\ sent[c] + 1 \in Nat OBVIOUS
  <2>2. Append(out[c], sent[c] + 1) \in Seq(Nat) BY <2>1, AppendProperties
  <2> QED BY <1>3, <2>1, <2>2 DEF Send
<1>4. ASSUME NEW c \in Channels, PollNext(c) PROVE NetOK'
  <2>1. out[c] \in Seq(Nat) /\ out[c] # <<>> BY <1>4 DEF PollNext
  <2>2. Tail(out[c]) \in Seq(Nat) /\ Head(out[c]) \in Nat BY <2>1, HeadTailProperties
  <2>3. [channel |-> c, id |-> Head(out[c])] \in [channel : Channels, id : Nat] BY <2>2
  <2>4. out' \in [Channels -> Seq(Nat)] BY <1>4, <2>2 DEF PollNext
  <2> QED BY <1>4, <2>3, <2>4 DEF PollNext
<1>5. ASSUME NEW packet \in net, net' \in {net, net \ {packet}}, UNCHANGED <<out, sent, opened>>
      PROVE  NetOK'
  BY <1>5
<1>6. ASSUME NEW packet \in net,
             Lose(packet) \/ StartSend(packet) \/ TrySend(packet) \/ TrySendFails(packet)
      PROVE  NetOK'
  <2>1. net' \in {net, net \ {packet}} /\ UNCHANGED <<out, sent, opened>>
    BY <1>6, Zenon DEF Lose, StartSend, TrySend, TrySendFails, sendVars
  <2> QED BY <1>5, <2>1
<1>7. ASSUME NEW c \in Channels,
             \/ Receive(c) \/ DropWake(c) \/ Disconnect(c)
             \/ FlushChannel(c) \/ FlushChannelFails(c) \/ FlushPending(c)
      PROVE  NetOK'
  BY <1>1, <1>7, Zenon DEF Receive, DropWake, Disconnect, FlushChannel, FlushChannelFails,
                           FlushPending, Asleep, sendVars
<1>8. ASSUME \/ Start \/ StartFlush \/ PollReadyEmpty \/ ReadyPending \/ PollReady
             \/ PollReadyFails \/ FlushDone
      PROVE  NetOK'
  BY <1>1, <1>8, Zenon DEF Start, StartFlush, PollReadyEmpty, ReadyPending, Asleep, PollReady,
                           PollReadyFails, FlushDone, sendVars
<1>9. CASE UNCHANGED vars BY <1>1, <1>9, Zenon DEF vars, sendVars
<1> QED BY <1>2, <1>3, <1>4, <1>6, <1>7, <1>8, <1>9, Zenon DEF Next, SinkStep

\* A slot or a queue is emptied.
LEMMA Emptied ==
  ASSUME NEW f \in [Channels -> Seq(Packets)], NEW c
  PROVE  [f EXCEPT ![c] = <<>>] \in [Channels -> Seq(Packets)]
<1>1. <<>> \in Seq(Packets) OBVIOUS
<1> QED BY <1>1

\* The type of the sink is kept.
LEMMA SinkTypeStep ==
  ASSUME NetOK, SinkOK, [Next]_vars
  PROVE  SinkOK'
<1> DEFINE handed == <<to_send, slot, queue, received, pushed, incoming>>
<1>1. CASE UNCHANGED handed BY <1>1 DEF SinkOK
<1>2. \A c \in Channels : queue[c] \in Seq(Packets) /\ slot[c] \in Seq(Packets)
                          /\ queue[c] \o slot[c] \in Seq(Packets)
  BY Join DEF SinkOK
<1>3. ASSUME NEW packet \in net, StartSend(packet) PROVE SinkOK'
  <2>1. PICK p \in Packets : p = Pushed(packet, "sink") BY PushedIsPacket
  <2>2. packet.channel \in Channels BY PushedIsPacket
  <2>3. <<p>> \in Seq(Packets) /\ Len(<<p>>) <= 1 OBVIOUS
  <2>4. pushed[packet.channel] \in Seq(Packets) BY <2>2 DEF SinkOK
  <2>5. Append(pushed[packet.channel], p) \in Seq(Packets) BY <2>4, AppendProperties
  <2>6. pushed' \in [Channels -> Seq(Packets)] BY <1>3, <2>1, <2>5 DEF StartSend, SinkOK
  <2>7. to_send' \in Seq(Packets) /\ Len(to_send') <= 1 BY <1>3, <2>1, <2>3, Zenon DEF StartSend
  <2> QED BY <1>3, <2>6, <2>7, Zenon DEF StartSend, SinkOK
<1>4. ASSUME NEW packet \in net, TrySend(packet) PROVE SinkOK'
  <2> DEFINE c == packet.channel
  <2>1. PICK p \in Packets : p = Pushed(packet, "try") BY PushedIsPacket
  <2>2. c \in Channels BY PushedIsPacket
  <2> HIDE DEF c
  <2>3. pushed[c] \in Seq(Packets) /\ queue[c] \o slot[c] \in Seq(Packets) /\ incoming[c] + 1 \in Nat
    BY <1>2, <2>2 DEF SinkOK
  <2>4. Append(pushed[c], p) \in Seq(Packets) /\ Append(queue[c] \o slot[c], p) \in Seq(Packets)
    BY <2>3, AppendProperties
  <2>5. pushed' \in [Channels -> Seq(Packets)] BY <1>4, <2>1, <2>4 DEF TrySend, SinkOK, c
  <2>6. queue' \in [Channels -> Seq(Packets)] BY <1>4, <2>1, <2>4 DEF TrySend, SinkOK, c
  <2>7. incoming' \in [Channels -> Nat] BY <1>4, <2>3 DEF TrySend, SinkOK, c
  <2>8. slot' \in [Channels -> Seq(Packets)] BY <1>4, Emptied, Zenon DEF TrySend, SinkOK
  <2> QED BY <1>4, <2>5, <2>6, <2>7, <2>8, Zenon DEF TrySend, SinkOK
<1>5. ASSUME NEW packet \in net, TrySendFails(packet) PROVE SinkOK'
  <2>1. packet.channel \in Channels /\ <<>> \in Seq(Packets) BY PushedIsPacket
  <2>2. queue' \in [Channels -> Seq(Packets)] BY <1>2, <1>5, <2>1 DEF TrySendFails, SinkOK
  <2>3. slot' \in [Channels -> Seq(Packets)] BY <1>5, <2>1 DEF TrySendFails, SinkOK
  <2> QED BY <1>5, <2>2, <2>3, Zenon DEF TrySendFails, SinkOK
<1>6. ASSUME PollReady PROVE SinkOK'
  <2>1. PICK c \in Channels : c = to_send[1].channel BY <1>6, ToSendHead DEF PollReady
  <2>2. queue' \in [Channels -> Seq(Packets)] BY <1>2, <1>6, <2>1 DEF PollReady, SinkOK
  <2>3. slot' \in [Channels -> Seq(Packets)] BY <1>6, <2>1 DEF PollReady, SinkOK
  <2>4. incoming' \in [Channels -> Nat] BY <1>6, <2>1 DEF PollReady, SinkOK
  <2>5. to_send' \in Seq(Packets) /\ Len(to_send') <= 1 BY <1>6 DEF PollReady
  <2> QED BY <1>6, <2>2, <2>3, <2>4, <2>5, Zenon DEF PollReady, SinkOK
<1>7. ASSUME PollReadyFails PROVE SinkOK'
  <2>1. slot' \in [Channels -> Seq(Packets)] BY <1>7, Emptied, Zenon DEF PollReadyFails, SinkOK
  <2>2. to_send' \in Seq(Packets) /\ Len(to_send') <= 1 BY <1>7 DEF PollReadyFails
  <2> QED BY <1>7, <2>1, <2>2, Zenon DEF PollReadyFails, SinkOK
<1>8. ASSUME NEW c \in Channels, FlushChannel(c) PROVE SinkOK'
  <2>1. queue' \in [Channels -> Seq(Packets)] BY <1>2, <1>8 DEF FlushChannel, SinkOK
  <2>2. slot' \in [Channels -> Seq(Packets)] BY <1>8, Emptied, Zenon DEF FlushChannel, SinkOK
  <2> QED BY <1>8, <2>1, <2>2, Zenon DEF FlushChannel, SinkOK
<1>9. ASSUME NEW c \in Channels, FlushChannelFails(c) PROVE SinkOK'
  <2>1. slot' \in [Channels -> Seq(Packets)] BY <1>9, Emptied, Zenon DEF FlushChannelFails, SinkOK
  <2> QED BY <1>9, <2>1, Zenon DEF FlushChannelFails, SinkOK
<1>10. ASSUME NEW c \in Channels, Receive(c) PROVE SinkOK'
  <2>1. received[c] \in Seq(Packets) /\ queue[c] \in Seq(Packets) /\ queue[c] # <<>>
    BY <1>10 DEF Receive, SinkOK
  <2>2. Append(received[c], Head(queue[c])) \in Seq(Packets) /\ Tail(queue[c]) \in Seq(Packets)
    BY <2>1, MoveHead
  <2>3. received' \in [Channels -> Seq(Packets)] BY <1>10, <2>2 DEF Receive, SinkOK
  <2>4. queue' \in [Channels -> Seq(Packets)] BY <1>10, <2>2 DEF Receive, SinkOK
  <2> QED BY <1>10, <2>3, <2>4, Zenon DEF Receive, SinkOK
<1>11. ASSUME NEW c \in Channels, Disconnect(c) PROVE SinkOK'
  <2>1. queue' \in [Channels -> Seq(Packets)] BY <1>11, Emptied, Zenon DEF Disconnect, SinkOK
  <2> QED BY <1>11, <2>1, Zenon DEF Disconnect, SinkOK
<1>12. ASSUME NEW c \in Channels,
              OpenChannel(c) \/ Send(c) \/ PollNext(c) \/ DropWake(c) \/ FlushPending(c)
       PROVE  SinkOK'
  BY <1>1, <1>12, Zenon DEF OpenChannel, Send, PollNext, DropWake, FlushPending, Asleep, sinkVars
<1>13. ASSUME NEW packet \in net, Lose(packet) PROVE SinkOK'
  BY <1>1, <1>13, Zenon DEF Lose, sinkVars
<1>14. ASSUME Start \/ StartFlush \/ PollReadyEmpty \/ ReadyPending \/ FlushDone PROVE SinkOK'
  BY <1>1, <1>14, Zenon DEF Start, StartFlush, PollReadyEmpty, ReadyPending, Asleep, FlushDone,
                            sinkVars
<1>15. CASE UNCHANGED vars BY <1>1, <1>15, Zenon DEF vars, sinkVars
<1> QED BY <1>3, <1>4, <1>5, <1>6, <1>7, <1>8, <1>9, <1>10, <1>11, <1>12, <1>13, <1>14, <1>15,
           Zenon DEF Next, SinkStep

----------------------------------------------------------------------------
(* The other parts of the invariant. *)

\* What the driver may rely on.
LEMMA DriverStep ==
  ASSUME NetOK, SinkOK, DriverOK, [Next]_vars
  PROVE  DriverOK'
<1>1. CASE UNCHANGED <<to_send, sink>> /\ (started => started')
  BY <1>1, Zenon DEF DriverOK
<1>2. ASSUME NEW packet \in net, StartSend(packet) PROVE DriverOK'
  <2>1. Pushed(packet, "sink").via = "sink" BY PushedIsPacket
  <2>2. to_send' = <<Pushed(packet, "sink")>> /\ sink' = "idle" BY <1>2, Zenon DEF StartSend
  <2>3. to_send'[1] = Pushed(packet, "sink") BY <2>2
  <2>4. "idle" # "ready" OBVIOUS
  <2> QED BY <2>1, <2>2, <2>3, <2>4, Zenon DEF DriverOK
<1>3. ASSUME to_send' = <<>>, started' PROVE DriverOK'
  BY <1>3, Zenon DEF DriverOK
<1>4. ASSUME NEW c \in Channels, FlushChannel(c) \/ FlushChannelFails(c) PROVE DriverOK'
  <2>1. to_send' = <<>> BY <1>4, Zenon DEF FlushChannel, FlushChannelFails
  <2>2. sink = "flush" /\ started' = started
    BY <1>4, Zenon DEF FlushChannel, FlushChannelFails
  <2>3. "flush" # "idle" OBVIOUS
  <2> QED BY <1>3, <2>1, <2>2, <2>3, Zenon DEF DriverOK
<1>5. ASSUME PollReady \/ PollReadyFails \/ PollReadyEmpty PROVE DriverOK'
  <2>1. to_send' = <<>> /\ started /\ started' = started
    BY <1>5, Zenon DEF PollReady, PollReadyFails, PollReadyEmpty
  <2>2. started' BY <2>1
  <2> QED BY <1>3, <2>1, <2>2
<1>6. ASSUME FlushDone PROVE DriverOK'
  <2>1. to_send' = <<>> /\ sink = "flush" /\ started' = started BY <1>6, Zenon DEF FlushDone
  <2>2. "flush" # "idle" OBVIOUS
  <2> QED BY <1>3, <2>1, <2>2, Zenon DEF DriverOK
<1>7. ASSUME to_send' = to_send, sink' # "ready", sink' # "idle" => started' PROVE DriverOK'
  BY <1>7, Zenon DEF DriverOK
<1>12. ASSUME StartFlush \/ ReadyPending PROVE DriverOK'
  <2>1. /\ to_send' = to_send /\ sink' \in {"asleep", "flush"}
        /\ started /\ started' = started
    BY <1>12 DEF StartFlush, ReadyPending, Asleep
  <2>2. sink' # "ready" /\ started' BY <2>1
  <2> QED BY <1>7, <2>1, <2>2
<1>13. ASSUME NEW c \in Channels, FlushPending(c) PROVE DriverOK'
  <2>1. /\ to_send' = to_send /\ sink' = "asleep" /\ sink = "flush" /\ started' = started
    BY <1>13, Zenon DEF FlushPending, Asleep
  <2>2. "flush" # "idle" /\ "asleep" # "ready" OBVIOUS
  <2>3. started' BY <2>1, <2>2, Zenon DEF DriverOK
  <2> QED BY <1>7, <2>1, <2>2, <2>3, Zenon
<1>14. ASSUME NEW c \in Channels, Receive(c) \/ DropWake(c) PROVE DriverOK'
  <2>1. to_send' = to_send /\ (sink' = "idle" \/ sink' = sink) /\ started' = started
    BY <1>14, Zenon DEF Receive, DropWake, Wake
  <2>2. CASE sink' = "idle"
    <3>1. "idle" # "ready" OBVIOUS
    <3> QED BY <1>7, <2>1, <2>2, <3>1, Zenon
  <2> QED BY <1>1, <2>1, <2>2, Zenon
<1>8. ASSUME NEW packet \in net, Lose(packet) \/ TrySend(packet) \/ TrySendFails(packet)
      PROVE  DriverOK'
  BY <1>1, <1>8, Zenon DEF Lose, TrySend, TrySendFails, sinkVars
<1>9. ASSUME NEW c \in Channels,
             OpenChannel(c) \/ Send(c) \/ PollNext(c) \/ Disconnect(c)
      PROVE  DriverOK'
  BY <1>1, <1>9, Zenon DEF OpenChannel, Send, PollNext, Disconnect, sinkVars
<1>10. ASSUME Start PROVE DriverOK'
  BY <1>1, <1>10, Zenon DEF Start, sinkVars
<1>11. CASE UNCHANGED vars BY <1>1, <1>11, Zenon DEF vars, sinkVars
<1> QED BY <1>2, <1>4, <1>5, <1>6, <1>8, <1>9, <1>10, <1>11, <1>12, <1>13, <1>14, Zenon
  DEF Next, SinkStep

\* Nothing is pushed before start.
LEMMA UnusedStep ==
  ASSUME SinkOK, DriverOK, UnusedInv, [Next]_vars
  PROVE  UnusedInv'
<1> SUFFICES ASSUME ~started' PROVE to_send' = <<>> /\ \A c \in Channels : Unused(c)'
  BY Zenon DEF UnusedInv
<1>1. ~started /\ sink = "idle"
  <2>1. ~started
    <3>1. started => started'
      BY Zenon DEF Next, SinkStep, Start, StartFlush, PollReadyEmpty, ReadyPending, FlushPending,
                   Asleep, PollReady, PollReadyFails, FlushChannel, FlushChannelFails, FlushDone,
                   OpenChannel, Send, PollNext, Receive, DropWake, Disconnect, Lose, StartSend,
                   TrySend, TrySendFails, vars
    <3> QED BY <3>1
  <2> QED BY <2>1, Zenon DEF DriverOK
<1>2. to_send = <<>> /\ \A c \in Channels : Unused(c) BY <1>1, Zenon DEF UnusedInv
<1> DEFINE handed == <<to_send, slot, queue, received, pushed, incoming>>
<1>3. CASE UNCHANGED handed BY <1>2, <1>3, Zenon DEF Unused
<1>4. "idle" # "flush" /\ "idle" # "ready" OBVIOUS
<1>5. ASSUME NEW c \in Channels, Disconnect(c)
      PROVE  to_send' = <<>> /\ \A d \in Channels : Unused(d)'
  <2>1. \A d \in Channels : queue'[d] = <<>> BY <1>2, <1>5 DEF Disconnect, Unused, SinkOK
  <2> QED BY <1>2, <1>5, <2>1, Zenon DEF Disconnect, Unused
<1>6. ASSUME NEW c \in Channels,
             OpenChannel(c) \/ Send(c) \/ PollNext(c) \/ Receive(c) \/ DropWake(c)
      PROVE  UNCHANGED handed
  BY <1>2, <1>6, Zenon DEF OpenChannel, Send, PollNext, Receive, DropWake, sinkVars, Unused
<1>7. ASSUME NEW packet \in net,
             Lose(packet) \/ StartSend(packet) \/ TrySend(packet) \/ TrySendFails(packet)
      PROVE  UNCHANGED handed
  BY <1>1, <1>4, <1>7, Zenon DEF Lose, StartSend, TrySend, TrySendFails, sinkVars
<1>8. ASSUME Start \/ StartFlush \/ PollReadyEmpty \/ SinkStep \/ UNCHANGED vars
      PROVE  UNCHANGED handed
  BY <1>1, <1>4, <1>8, Zenon
     DEF Start, StartFlush, PollReadyEmpty, SinkStep, PollReady, PollReadyFails, ReadyPending,
         FlushPending, Asleep, FlushChannel, FlushChannelFails, FlushDone, sinkVars, vars
<1> QED BY <1>3, <1>5, <1>6, <1>7, <1>8, Zenon DEF Next

\* What a channel is after a step that leaves it alone.
LEMMA Untouched ==
  ASSUME NEW d, RoutedOK(d), received'[d] = received[d], queue'[d] = queue[d],
         slot'[d] = slot[d], ToSend(d)' = ToSend(d), pushed'[d] = pushed[d],
         incoming'[d] = incoming[d]
  PROVE  RoutedOK(d)'
BY Zenon DEF RoutedOK

\* The types of what RoutedOK is about.
LEMMA RoutedTypes ==
  ASSUME SinkOK, DriverOK, NEW d \in Channels
  PROVE  /\ received[d] \in Seq(Packets) /\ queue[d] \in Seq(Packets) /\ slot[d] \in Seq(Packets)
         /\ pushed[d] \in Seq(Packets) /\ incoming[d] \in Nat
         /\ ToSend(d) \in Seq(Packets) /\ Len(ToSend(d)) <= 1
BY ToSendType DEF SinkOK

\* Every step keeps the packets of the channels that are open and not dropped together.
LEMMA RoutedStep ==
  ASSUME NetOK, SinkOK, DriverOK, UnusedInv, AllRouted, [Next]_vars
  PROVE  AllRouted'
<1> SUFFICES ASSUME NEW d \in opened' \ dropped' PROVE RoutedOK(d)'
  BY Zenon DEF AllRouted
<1>1. d \in Channels BY NetStep DEF NetOK
<1>2. d \in opened \ dropped => RoutedOK(d) BY DEF AllRouted
<1>3. ASSUME UNCHANGED <<received, queue, slot, to_send, pushed, incoming, opened, dropped>>
      PROVE  RoutedOK(d)'
  <2>1. ToSend(d)' = ToSend(d) BY <1>3, Zenon DEF ToSend
  <2>2. RoutedOK(d) BY <1>2, <1>3, Zenon
  <2> QED BY <1>3, <2>1, <2>2, Untouched, Zenon
<1>4. ASSUME NEW c \in Channels, OpenChannel(c) PROVE RoutedOK(d)'
  <2>1. /\ UNCHANGED <<received, queue, slot, to_send, pushed, incoming, dropped>>
        /\ opened' = opened \cup {c} /\ ~started
    BY <1>4, Zenon DEF OpenChannel, sinkVars
  <2>2. ToSend(d)' = ToSend(d) BY <2>1, Zenon DEF ToSend
  <2>3. RoutedOK(d)
    <3>1. to_send = <<>> /\ Unused(d) BY <1>1, <2>1, Zenon DEF UnusedInv
    <3>2. ToSend(d) = <<>> BY <3>1, Zenon DEF ToSend
    <3>3. /\ received[d] = <<>> /\ queue[d] = <<>> /\ slot[d] = <<>> /\ pushed[d] = <<>>
          /\ incoming[d] = 0
      BY <3>1, Zenon DEF Unused
    <3>4. Routed(received[d], queue[d], slot[d], ToSend(d), pushed[d], incoming[d])
      BY <1>1, <3>2, <3>3, RoutedTypes, RoutedUnused, Zenon
    <3> QED BY <3>4, Zenon DEF RoutedOK
  <2> QED BY <2>1, <2>2, <2>3, Untouched, Zenon
<1>5. ASSUME NEW packet \in net, StartSend(packet) PROVE RoutedOK(d)'
  <2>1. PICK p \in Packets : p = Pushed(packet, "sink") /\ p.channel = packet.channel
    BY PushedIsPacket
  <2>2. to_send = <<>> /\ to_send' = <<p>> BY <1>5, <2>1, Zenon DEF StartSend, DriverOK
  <2>3. /\ UNCHANGED <<received, queue, slot, incoming, opened, dropped>>
        /\ pushed' = [pushed EXCEPT ![packet.channel] = Append(@, p)]
    BY <1>5, <2>1, Zenon DEF StartSend
  <2>4. RoutedOK(d) BY <1>2, <2>3, Zenon
  <2>5. ToSend(d) = <<>> BY <2>2, Zenon DEF ToSend
  <2>6. to_send' # <<>> /\ to_send'[1] = p BY <2>2
  <2>7. CASE d = packet.channel
    <3>1. ToSend(d)' = <<p>> BY <2>1, <2>2, <2>6, <2>7, Zenon DEF ToSend
    <3>2. pushed'[d] = Append(pushed[d], p) BY <1>1, <2>3, <2>7 DEF SinkOK
    <3>3. Routed(received[d], queue[d], slot[d], <<>>, pushed[d], incoming[d])
      BY <2>4, <2>5, Zenon DEF RoutedOK
    <3>4. Routed(received[d], queue[d], slot[d], <<p>>, Append(pushed[d], p), incoming[d])
      BY <1>1, <3>3, RoutedTypes, RoutedStart, Zenon
    <3> QED BY <2>3, <3>1, <3>2, <3>4, Zenon DEF RoutedOK
  <2>8. CASE d # packet.channel
    <3>1. ToSend(d)' = <<>> BY <2>1, <2>6, <2>8, Zenon DEF ToSend
    <3>2. pushed'[d] = pushed[d] BY <1>1, <2>3, <2>8 DEF SinkOK
    <3> QED BY <2>3, <2>4, <2>5, <3>1, <3>2, Untouched, Zenon
  <2> QED BY <2>7, <2>8
<1>6. ASSUME NEW packet \in net, TrySend(packet) PROVE RoutedOK(d)'
  <2>1. PICK p \in Packets : p = Pushed(packet, "try") /\ p.via = "try" BY PushedIsPacket
  <2>2. PICK c \in Channels : c = packet.channel BY PushedIsPacket
  <2>3. /\ UNCHANGED <<received, to_send, opened, dropped>>
        /\ slot' = [slot EXCEPT ![c] = <<>>]
        /\ queue' = [queue EXCEPT ![c] = Append(@ \o slot[c], p)]
        /\ incoming' = [incoming EXCEPT ![c] = @ + 1]
        /\ pushed' = [pushed EXCEPT ![c] = Append(@, p)]
    BY <1>6, <2>1, <2>2, Zenon DEF TrySend
  <2>4. RoutedOK(d) BY <1>2, <2>3, Zenon
  <2>5. ToSend(d)' = ToSend(d) BY <2>3, Zenon DEF ToSend
  <2>6. CASE d = c
    <3>1. /\ slot'[d] = <<>> /\ queue'[d] = Append(queue[d] \o slot[d], p)
          /\ incoming'[d] = incoming[d] + 1 /\ pushed'[d] = Append(pushed[d], p)
      BY <1>1, <2>3, <2>6, Zenon DEF SinkOK
    <3>2. "sink" # "try" OBVIOUS
    <3>3. ToSend(d) # <<>> => ToSend(d)[1].via # p.via BY <2>1, <3>2, ToSendType, Zenon
    <3>4. Routed(received[d], queue[d], slot[d], ToSend(d), pushed[d], incoming[d])
      BY <2>4, Zenon DEF RoutedOK
    <3>5. Routed(received[d], Append(queue[d] \o slot[d], p), <<>>, ToSend(d),
                 Append(pushed[d], p), incoming[d] + 1)
      BY <1>1, <3>3, <3>4, RoutedTypes, RoutedTry, Zenon
    <3> QED BY <2>3, <2>5, <3>1, <3>5, Zenon DEF RoutedOK
  <2>7. CASE d # c
    <3>1. /\ slot'[d] = slot[d] /\ queue'[d] = queue[d] /\ incoming'[d] = incoming[d]
          /\ pushed'[d] = pushed[d]
      BY <1>1, <2>3, <2>7, Zenon DEF SinkOK
    <3> QED BY <2>3, <2>4, <2>5, <3>1, Untouched, Zenon
  <2> QED BY <2>6, <2>7
<1>7. ASSUME NEW c \in Channels,
             UNCHANGED <<received, to_send, pushed, incoming, opened, dropped>>,
             slot' = [slot EXCEPT ![c] = <<>>], queue' = [queue EXCEPT ![c] = @ \o slot[c]]
      PROVE  RoutedOK(d)'
  <2>1. RoutedOK(d) BY <1>2, <1>7, Zenon
  <2>2. ToSend(d)' = ToSend(d) BY <1>7, Zenon DEF ToSend
  <2>3. CASE d = c
    <3>1. slot'[d] = <<>> /\ queue'[d] = queue[d] \o slot[d] BY <1>1, <1>7, <2>3, Zenon DEF SinkOK
    <3>2. Routed(received[d], queue[d] \o slot[d], <<>>, ToSend(d), pushed[d], incoming[d])
      BY <1>1, <2>1, RoutedTypes, RoutedFlush, Zenon DEF RoutedOK
    <3> QED BY <1>7, <2>2, <3>1, <3>2, Zenon DEF RoutedOK
  <2>4. CASE d # c
    <3>1. slot'[d] = slot[d] /\ queue'[d] = queue[d] BY <1>1, <1>7, <2>4, Zenon DEF SinkOK
    <3> QED BY <1>7, <2>1, <2>2, <3>1, Untouched, Zenon
  <2> QED BY <2>3, <2>4
<1>8. ASSUME NEW packet \in net, TrySendFails(packet) PROVE RoutedOK(d)'
  <2> DEFINE c == packet.channel
             moves == c \in opened \ dropped /\ slot[c] # <<>> /\ ~Full(c)
  <2>1. c \in Channels BY PushedIsPacket
  <2>2. UNCHANGED <<received, to_send, pushed, incoming, opened, dropped>>
    BY <1>8, Zenon DEF TrySendFails
  <2>3. /\ slot' = [slot EXCEPT ![c] = IF moves THEN <<>> ELSE @]
        /\ queue' = [queue EXCEPT ![c] = IF moves THEN @ \o slot[c] ELSE @]
    BY <1>8, Zenon DEF TrySendFails
  <2> HIDE DEF moves, c
  <2>4. CASE moves
    <3>1. slot' = [slot EXCEPT ![c] = <<>>] /\ queue' = [queue EXCEPT ![c] = @ \o slot[c]]
      BY <2>3, <2>4
    <3> QED BY <1>7, <2>1, <2>2, <3>1, Zenon
  <2>5. CASE ~moves
    <3>1. slot' = slot /\ queue' = queue BY <2>1, <2>3, <2>5 DEF SinkOK
    <3> QED BY <1>3, <2>2, <3>1, Zenon
  <2> QED BY <2>4, <2>5
<1>9. ASSUME NEW c \in Channels, FlushChannel(c) PROVE RoutedOK(d)'
  BY <1>7, <1>9, Zenon DEF FlushChannel
<1>10. ASSUME PollReady PROVE RoutedOK(d)'
  <2>1. /\ to_send # <<>> /\ Len(to_send) = 1 /\ to_send[1].channel \in Channels
        /\ ToSend(to_send[1].channel) = to_send
    BY <1>10, ToSendHead, Zenon DEF PollReady
  <2>2. PICK c \in Channels : c = to_send[1].channel BY <2>1
  <2>3. /\ UNCHANGED <<received, pushed, opened, dropped>> /\ to_send' = <<>>
        /\ queue' = [queue EXCEPT ![c] = @ \o slot[c]] /\ slot' = [slot EXCEPT ![c] = to_send]
        /\ incoming' = [incoming EXCEPT ![c] = @ + 1]
    BY <1>10, <2>2, Zenon DEF PollReady
  <2>4. RoutedOK(d) BY <1>2, <2>3, Zenon
  <2>5. ToSend(d)' = <<>> BY <2>3, Zenon DEF ToSend
  <2>6. CASE d = c
    <3>1. /\ slot'[d] = to_send /\ queue'[d] = queue[d] \o slot[d]
          /\ incoming'[d] = incoming[d] + 1
      BY <1>1, <2>3, <2>6, Zenon DEF SinkOK
    <3>2. Routed(received[d], queue[d], slot[d], to_send, pushed[d], incoming[d])
      BY <2>1, <2>2, <2>4, <2>6, Zenon DEF RoutedOK
    <3>3. to_send \in Seq(Packets) BY DEF SinkOK
    <3>4. Routed(received[d], queue[d] \o slot[d], to_send, <<>>, pushed[d], incoming[d] + 1)
      BY <1>1, <2>1, <3>2, <3>3, RoutedTypes, RoutedReady, Zenon
    <3> QED BY <2>3, <2>5, <3>1, <3>4, Zenon DEF RoutedOK
  <2>7. CASE d # c
    <3>1. slot'[d] = slot[d] /\ queue'[d] = queue[d] /\ incoming'[d] = incoming[d]
      BY <1>1, <2>3, <2>7, Zenon DEF SinkOK
    <3>2. ToSend(d) = <<>> BY <2>2, <2>7, Zenon DEF ToSend
    <3> QED BY <2>3, <2>4, <2>5, <3>1, <3>2, Untouched, Zenon
  <2> QED BY <2>6, <2>7
<1>11. ASSUME PollReadyFails PROVE RoutedOK(d)'
  <2>1. PICK c \in Channels : c = to_send[1].channel BY <1>11, ToSendHead DEF PollReadyFails
  <2>2. /\ UNCHANGED <<received, queue, pushed, incoming, opened, dropped>> /\ to_send' = <<>>
        /\ slot' = [slot EXCEPT ![c] = <<>>] /\ (c \notin opened \/ c \in dropped)
    BY <1>11, <2>1, Zenon DEF PollReadyFails, Broken
  <2>3. d # c BY <2>2, Zenon
  <2>4. slot'[d] = slot[d] BY <1>1, <2>2, <2>3, Zenon DEF SinkOK
  <2>5. ToSend(d) = <<>> /\ ToSend(d)' = <<>> BY <2>1, <2>2, <2>3, Zenon DEF ToSend
  <2>6. RoutedOK(d) BY <1>2, <2>2, Zenon
  <2> QED BY <2>2, <2>4, <2>5, <2>6, Untouched, Zenon
<1>12. ASSUME NEW c \in Channels, FlushChannelFails(c) PROVE RoutedOK(d)'
  <2>1. /\ UNCHANGED <<received, queue, pushed, incoming, opened, dropped, to_send>>
        /\ slot' = [slot EXCEPT ![c] = <<>>] /\ c \in dropped
    BY <1>12, Zenon DEF FlushChannelFails, Broken
  <2>2. d # c BY <2>1, Zenon
  <2>3. slot'[d] = slot[d] BY <1>1, <2>1, <2>2, Zenon DEF SinkOK
  <2>4. ToSend(d)' = ToSend(d) BY <2>1, Zenon DEF ToSend
  <2>5. RoutedOK(d) BY <1>2, <2>1, Zenon
  <2> QED BY <2>1, <2>3, <2>4, <2>5, Untouched, Zenon
<1>13. ASSUME NEW c \in Channels, Receive(c) PROVE RoutedOK(d)'
  <2>1. /\ UNCHANGED <<slot, pushed, incoming, opened, dropped, to_send>> /\ queue[c] # <<>>
        /\ received' = [received EXCEPT ![c] = Append(@, Head(queue[c]))]
        /\ queue' = [queue EXCEPT ![c] = Tail(@)]
    BY <1>13, Zenon DEF Receive
  <2>2. RoutedOK(d) BY <1>2, <2>1, Zenon
  <2>3. ToSend(d)' = ToSend(d) BY <2>1, Zenon DEF ToSend
  <2>4. CASE d = c
    <3>1. received'[d] = Append(received[d], Head(queue[d])) /\ queue'[d] = Tail(queue[d])
      BY <1>1, <2>1, <2>4, Zenon DEF SinkOK
    <3>2. Routed(Append(received[d], Head(queue[d])), Tail(queue[d]), slot[d], ToSend(d),
                 pushed[d], incoming[d])
      BY <1>1, <2>1, <2>2, <2>4, RoutedTypes, RoutedReceive, Zenon DEF RoutedOK
    <3> QED BY <2>1, <2>3, <3>1, <3>2, Zenon DEF RoutedOK
  <2>5. CASE d # c
    <3>1. received'[d] = received[d] /\ queue'[d] = queue[d]
      BY <1>1, <2>1, <2>5, Zenon DEF SinkOK
    <3> QED BY <2>1, <2>2, <2>3, <3>1, Untouched, Zenon
  <2> QED BY <2>4, <2>5
<1>14. ASSUME NEW c \in Channels, Disconnect(c) PROVE RoutedOK(d)'
  <2>1. /\ UNCHANGED <<slot, pushed, incoming, opened, to_send, received>>
        /\ dropped' = dropped \cup {c} /\ queue' = [queue EXCEPT ![c] = <<>>]
    BY <1>14, Zenon DEF Disconnect
  <2>2. d # c /\ d \in opened \ dropped BY <2>1
  <2>3. queue'[d] = queue[d] BY <1>1, <2>1, <2>2, Zenon DEF SinkOK
  <2>4. ToSend(d)' = ToSend(d) BY <2>1, Zenon DEF ToSend
  <2> QED BY <1>2, <2>1, <2>2, <2>3, <2>4, Untouched, Zenon
<1>15. ASSUME NEW c \in Channels, Send(c) \/ PollNext(c) \/ DropWake(c) \/ FlushPending(c)
       PROVE  RoutedOK(d)'
  BY <1>3, <1>15, Zenon DEF Send, PollNext, DropWake, FlushPending, Asleep, sinkVars
<1>16. ASSUME NEW packet \in net, Lose(packet) PROVE RoutedOK(d)'
  BY <1>3, <1>16, Zenon DEF Lose, sinkVars
<1>17. ASSUME \/ Start \/ StartFlush \/ PollReadyEmpty \/ ReadyPending \/ FlushDone
       PROVE  RoutedOK(d)'
  BY <1>3, <1>17, Zenon DEF Start, StartFlush, PollReadyEmpty, ReadyPending, Asleep, FlushDone,
                            sinkVars
<1>18. CASE UNCHANGED vars BY <1>3, <1>18, Zenon DEF vars, sinkVars
<1> QED BY <1>4, <1>5, <1>6, <1>8, <1>9, <1>10, <1>11, <1>12, <1>13, <1>14, <1>15, <1>16, <1>17,
           <1>18, Zenon DEF Next, SinkStep

\* A slot that is filled is noted, and one that is no longer noted is empty.
LEMMA NotedStep ==
  ASSUME NetOK, SinkOK, SlotsNoted, [Next]_vars
  PROVE  SlotsNoted'
<1> SUFFICES ASSUME NEW d \in Channels, slot'[d] # <<>> PROVE d \in to_flush'
  BY Zenon DEF SlotsNoted
<1>1. slot[d] # <<>> => d \in to_flush BY Zenon DEF SlotsNoted
<1>2. CASE UNCHANGED <<slot, to_flush>> BY <1>1, <1>2, Zenon
<1>3. ASSUME NEW c, slot' = [slot EXCEPT ![c] = <<>>], UNCHANGED to_flush
      PROVE  d \in to_flush'
  <2>1. slot'[d] = slot[d]
    <3>1. CASE d = c BY <1>3, <3>1, Zenon DEF SinkOK
    <3>2. CASE d # c BY <1>3, <3>2, Zenon DEF SinkOK
    <3> QED BY <3>1, <3>2
  <2> QED BY <1>1, <1>3, <2>1, Zenon
<1>4. ASSUME PollReady PROVE d \in to_flush'
  <2>1. PICK c \in Channels : c = to_send[1].channel BY <1>4, ToSendHead DEF PollReady
  <2>2. slot' = [slot EXCEPT ![c] = to_send] /\ to_flush' = to_flush \cup {c}
    BY <1>4, <2>1, Zenon DEF PollReady
  <2>3. CASE d = c BY <2>2, <2>3
  <2>4. CASE d # c
    <3>1. slot'[d] = slot[d] BY <2>2, <2>4, Zenon DEF SinkOK
    <3> QED BY <1>1, <2>2, <3>1, Zenon
  <2> QED BY <2>3, <2>4
<1>5. ASSUME NEW c \in Channels, FlushChannel(c) PROVE d \in to_flush'
  <2>1. slot' = [slot EXCEPT ![c] = <<>>] /\ to_flush' = to_flush \ {c}
    BY <1>5, Zenon DEF FlushChannel
  <2>2. d # c BY <2>1, Zenon DEF SinkOK
  <2>3. slot'[d] = slot[d] BY <2>1, <2>2, Zenon DEF SinkOK
  <2> QED BY <1>1, <2>1, <2>2, <2>3
<1>6. ASSUME NEW c \in Channels, FlushChannelFails(c) PROVE d \in to_flush'
  BY <1>3, <1>6, Zenon DEF FlushChannelFails
<1>7. ASSUME PollReadyFails PROVE d \in to_flush'
  BY <1>3, <1>7, Zenon DEF PollReadyFails
<1>8. ASSUME NEW packet \in net, TrySend(packet) PROVE d \in to_flush'
  BY <1>3, <1>8, Zenon DEF TrySend
<1>9. ASSUME NEW packet \in net, TrySendFails(packet) PROVE d \in to_flush'
  <2> DEFINE c == packet.channel
             moves == c \in opened \ dropped /\ slot[c] # <<>> /\ ~Full(c)
  <2>1. slot' = [slot EXCEPT ![c] = IF moves THEN <<>> ELSE @] /\ UNCHANGED to_flush
    BY <1>9, Zenon DEF TrySendFails
  <2>2. c \in Channels BY PushedIsPacket
  <2> HIDE DEF moves, c
  <2>3. slot' = [slot EXCEPT ![c] = <<>>] \/ slot' = slot BY <2>1, <2>2 DEF SinkOK
  <2> QED BY <1>2, <1>3, <2>1, <2>3, Zenon
<1>10. ASSUME NEW packet \in net, Lose(packet) \/ StartSend(packet) PROVE d \in to_flush'
  BY <1>2, <1>10, Zenon DEF Lose, StartSend, sinkVars
<1>11. ASSUME NEW c \in Channels,
              \/ OpenChannel(c) \/ Send(c) \/ PollNext(c) \/ Receive(c) \/ DropWake(c)
              \/ Disconnect(c) \/ FlushPending(c)
       PROVE  d \in to_flush'
  BY <1>2, <1>11, Zenon DEF OpenChannel, Send, PollNext, Receive, DropWake, Disconnect,
                            FlushPending, Asleep, sinkVars
<1>12. ASSUME \/ Start \/ StartFlush \/ PollReadyEmpty \/ ReadyPending \/ FlushDone
       PROVE  d \in to_flush'
  BY <1>2, <1>12, Zenon DEF Start, StartFlush, PollReadyEmpty, ReadyPending, Asleep, FlushDone,
                            sinkVars
<1>13. CASE UNCHANGED vars BY <1>2, <1>13, Zenon DEF vars, sinkVars
<1> QED BY <1>4, <1>5, <1>6, <1>7, <1>8, <1>9, <1>10, <1>11, <1>12, <1>13, Zenon DEF Next, SinkStep

\* Nothing is put in to_send or a slot without making the sink unclean.
LEMMA FlushStep ==
  ASSUME NetOK, SinkOK, SlotsNoted, FlushIsComplete, [Next]_vars
  PROVE  FlushIsComplete'
<1> SUFFICES ASSUME clean' PROVE to_send' = <<>> /\ \A d \in Channels : slot'[d] = <<>>
  BY Zenon DEF FlushIsComplete
<1>1. clean => to_send = <<>> /\ \A d \in Channels : slot[d] = <<>> BY DEF FlushIsComplete
<1>2. ASSUME UNCHANGED <<clean, to_send, slot>>
      PROVE  to_send' = <<>> /\ \A d \in Channels : slot'[d] = <<>>
  BY <1>1, <1>2, Zenon
<1>3. ASSUME NEW c, slot' = [slot EXCEPT ![c] = <<>>], UNCHANGED <<clean, to_send>>
      PROVE  to_send' = <<>> /\ \A d \in Channels : slot'[d] = <<>>
  <2>1. clean /\ to_send' = <<>> /\ \A d \in Channels : slot[d] = <<>> BY <1>1, <1>3, Zenon
  <2>2. \A d \in Channels : slot'[d] = <<>> BY <1>3, <2>1 DEF SinkOK
  <2> QED BY <2>1, <2>2
<1>4. ASSUME NEW packet \in net, StartSend(packet) PROVE FALSE
  BY <1>4, Zenon DEF StartSend
<1>5. ASSUME PollReady \/ PollReadyFails PROVE FALSE
  <2>1. to_send # <<>> /\ clean' = clean BY <1>5, Zenon DEF PollReady, PollReadyFails
  <2> QED BY <1>1, <2>1
<1>6. ASSUME FlushDone PROVE to_send' = <<>> /\ \A d \in Channels : slot'[d] = <<>>
  <2>1. to_send' = <<>> /\ slot' = slot /\ to_flush = {} BY <1>6, Zenon DEF FlushDone
  <2>2. \A d \in Channels : slot[d] = <<>> BY <2>1, Zenon DEF SlotsNoted
  <2> QED BY <2>1, <2>2, Zenon
<1>7. ASSUME NEW c \in Channels, FlushChannel(c) \/ FlushChannelFails(c)
      PROVE  to_send' = <<>> /\ \A d \in Channels : slot'[d] = <<>>
  BY <1>3, <1>7, Zenon DEF FlushChannel, FlushChannelFails
<1>8. ASSUME NEW packet \in net, TrySend(packet)
      PROVE  to_send' = <<>> /\ \A d \in Channels : slot'[d] = <<>>
  BY <1>3, <1>8, Zenon DEF TrySend
<1>9. ASSUME NEW packet \in net, TrySendFails(packet)
      PROVE  to_send' = <<>> /\ \A d \in Channels : slot'[d] = <<>>
  <2> DEFINE c == packet.channel
             moves == c \in opened \ dropped /\ slot[c] # <<>> /\ ~Full(c)
  <2>1. slot' = [slot EXCEPT ![c] = IF moves THEN <<>> ELSE @] /\ UNCHANGED <<clean, to_send>>
    BY <1>9, Zenon DEF TrySendFails
  <2>2. c \in Channels BY PushedIsPacket
  <2> HIDE DEF moves, c
  <2>3. slot' = [slot EXCEPT ![c] = <<>>] \/ slot' = slot BY <2>1, <2>2 DEF SinkOK
  <2> QED BY <1>2, <1>3, <2>1, <2>3, Zenon
<1>10. ASSUME NEW packet \in net, Lose(packet)
       PROVE  to_send' = <<>> /\ \A d \in Channels : slot'[d] = <<>>
  BY <1>2, <1>10, Zenon DEF Lose, sinkVars
<1>11. ASSUME NEW c \in Channels,
              \/ OpenChannel(c) \/ Send(c) \/ PollNext(c) \/ Receive(c) \/ DropWake(c)
              \/ Disconnect(c) \/ FlushPending(c)
       PROVE  to_send' = <<>> /\ \A d \in Channels : slot'[d] = <<>>
  BY <1>2, <1>11, Zenon DEF OpenChannel, Send, PollNext, Receive, DropWake, Disconnect,
                            FlushPending, Asleep, sinkVars
<1>12. ASSUME Start \/ StartFlush \/ PollReadyEmpty \/ ReadyPending
       PROVE  to_send' = <<>> /\ \A d \in Channels : slot'[d] = <<>>
  BY <1>2, <1>12, Zenon DEF Start, StartFlush, PollReadyEmpty, ReadyPending, Asleep, sinkVars
<1>13. CASE UNCHANGED vars BY <1>2, <1>13, Zenon DEF vars, sinkVars
<1> QED BY <1>4, <1>5, <1>6, <1>7, <1>8, <1>9, <1>10, <1>11, <1>12, <1>13, Zenon DEF Next, SinkStep

----------------------------------------------------------------------------
(* The invariant. *)

\* It holds at first: no channel is open and nothing was pushed.
LEMMA InvariantInit ==
  ASSUME Init
  PROVE  IInv
<1>1. <<>> \in Seq(Packets) /\ <<>> \in Seq(Nat) /\ Len(<<>>) <= 1 /\ 0 \in Nat OBVIOUS
<1>2. NetOK BY <1>1 DEF Init, NetOK
<1>3. SinkOK BY <1>1, Zenon DEF Init, SinkOK
<1>4. \A c \in Channels : Unused(c) BY Zenon DEF Init, Unused
<1>5. UnusedInv BY <1>4, Zenon DEF UnusedInv, Init
<1>6. "idle" # "ready" OBVIOUS
<1>7. DriverOK BY <1>6, Zenon DEF Init, DriverOK
<1>8. AllRouted BY Zenon DEF Init, AllRouted
<1>9. SlotsNoted BY Zenon DEF Init, SlotsNoted
<1>10. FlushIsComplete BY Zenon DEF Init, FlushIsComplete
<1> QED BY <1>2, <1>3, <1>5, <1>7, <1>8, <1>9, <1>10 DEF IInv

\* Every step keeps it.
LEMMA InvariantStep ==
  ASSUME IInv, [Next]_vars
  PROVE  IInv'
<1> USE DEF IInv
<1>1. NetOK' BY NetStep
<1>2. SinkOK' BY SinkTypeStep
<1>3. DriverOK' BY DriverStep
<1>4. UnusedInv' BY UnusedStep
<1>5. AllRouted' BY RoutedStep
<1>6. SlotsNoted' BY NotedStep
<1>7. FlushIsComplete' BY FlushStep
<1> QED BY <1>1, <1>2, <1>3, <1>4, <1>5, <1>6, <1>7

\* So it always holds.
LEMMA Invariance == Spec => []IInv
BY InvariantInit, InvariantStep, PTL DEF Spec

(***************************************************************************)
(* A packet pushed with start_send or try_send for an open channel reaches *)
(* the receiver of that channel and no other, exactly once; packets pushed *)
(* by the same call stay in order and the statistics count each as it is   *)
(* handed over, whatever other channels fail, fill up or drop.             *)
(***************************************************************************)
THEOREM PacketsAreRouted == Spec => []RoutedInOrder
<1>1. IInv => RoutedInOrder
  <2> SUFFICES ASSUME IInv, NEW c \in opened \ dropped
               PROVE  /\ KeepsOrder(((received[c] \o queue[c]) \o slot[c]) \o ToSend(c), pushed[c])
                      /\ incoming[c] = Len((received[c] \o queue[c]) \o slot[c])
    BY Zenon DEF RoutedInOrder
  <2>1. RoutedOK(c) BY DEF IInv, AllRouted
  <2> QED BY <2>1, Zenon DEF RoutedOK, Routed
<1> QED BY <1>1, Invariance, PTL

(***************************************************************************)
(* When poll_flush has returned Ready and nothing was pushed since, no     *)
(* packet is left in to_send or in the slot of any channel, also when an   *)
(* earlier poll_flush failed half way: every slot that is filled is in     *)
(* to_flush until it is empty.                                             *)
(***************************************************************************)
THEOREM SinkFlushesAreComplete == Spec => []FlushIsComplete
<1>1. IInv => FlushIsComplete BY DEF IInv
<1> QED BY <1>1, Invariance, PTL

=============================================================================
