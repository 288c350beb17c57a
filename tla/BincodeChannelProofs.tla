------------------------ MODULE BincodeChannelProofs ------------------------
(***************************************************************************)
(* For every message length the encoder accepts and every way the stream   *)
(* cuts the bytes: messages are received whole, once and in order.         *)
(*                                                                         *)
(* The bytes in the read buffer, the stream and the write buffer are       *)
(* together a sequence of whole frames, and each frame carries the         *)
(* messages of one group; the chunks hold whole messages.  Reads and       *)
(* writes move bytes within that sequence.  How many bytes of it are in    *)
(* the read buffer is bounded by the header they begin with, so a read     *)
(* never runs into the next frame.                                         *)
(***************************************************************************)
EXTENDS BincodeChannel, SequenceTheorems, TLAPS

Row == Seq(Nat)

(***************************************************************************)
(* at[i] is where the i-th part of the row begins, after as many elements, *)
(* and at its end stands the length of the row.                            *)
(***************************************************************************)
Cuts(row, parts, at) ==
  /\ at \in [1..(Len(parts) + 1) -> Nat]
  /\ at[1] = 0 /\ at[Len(parts) + 1] = Len(row)
  /\ \A i, j \in 1..(Len(parts) + 1) : i <= j => at[i] <= at[j]
  /\ \A i \in 1..Len(parts) : /\ at[i + 1] = at[i] + Len(parts[i])
                              /\ \A k \in 1..Len(parts[i]) : row[at[i] + k] = parts[i][k]

\* The row is its parts, one after the other.
MadeOf(row, parts) == row \in Row /\ parts \in Seq(Row) /\ \E at : Cuts(row, parts, at)

\* The bytes of messages of these lengths.
Packed(bytes, lens) ==
  /\ lens \in Row
  /\ \E parts : /\ MadeOf(bytes, parts) /\ Len(parts) = Len(lens)
                /\ \A i \in 1..Len(lens) : lens[i] >= 1 /\ parts[i] = Message(lens[i])

\* The frame of a group of messages: the plain channel has one in each, or an error.
Carries(frame, group, zip) ==
  IF zip THEN \E chunk \in Row : /\ chunk # <<>> /\ Len(chunk) <= MaxMessageLen
                                 /\ frame = ChunkFrame(chunk) /\ Packed(chunk, group)
  ELSE \E len \in 0..MaxMessageLen : group = <<len>> /\ frame = PlainFrame(Message(len))

\* Whole frames that carry messages of these lengths.
Pipe(bytes, lens, zip) ==
  \E frames, groups :
    /\ MadeOf(bytes, frames) /\ MadeOf(lens, groups) /\ Len(frames) = Len(groups)
    /\ \A i \in 1..Len(frames) : Carries(frames[i], groups[i], zip)

\* What was accepted is what was delivered, and what is in the receiver's chunk, on its
\* way, and in the sender's chunk.
Lines(all, got, r, m, s) ==
  /\ got \in Row /\ r \in Row /\ m \in Row /\ s \in Row
  /\ all = got \o (r \o (m \o s))

OnTheWay == (read_buffer \o stream) \o write_buffer

PipeInv ==
  \E r, m, s : /\ Lines(framed, delivered, r, m, s)
               /\ Packed(recv_chunk, r) /\ Packed(send_chunk, s)
               /\ Pipe(OnTheWay, m, compressed)

StateOK ==
  /\ compressed \in BOOLEAN
  /\ call \in [op : {"none", "send", "flush"}, len : Nat]
  /\ call.op = "send" /\ compressed => call.len <= MaxMessageLen
  /\ write_buffer \in Row /\ Len(write_buffer) <= ChunkHeader + MaxMessageLen
  /\ send_chunk \in Row /\ Len(send_chunk) <= MaxMessageLen
  /\ recv_chunk \in Row /\ Len(recv_chunk) <= MaxMessageLen
  /\ ~compressed => send_chunk = <<>> /\ recv_chunk = <<>>
  /\ stream \in Row /\ Len(stream) <= StreamSize
  /\ read_buffer \in Row /\ Missing >= 0

IInv == StateOK /\ PipeInv

----------------------------------------------------------------------------
(* Rows and their parts. *)

\* A row of nothing.
LEMMA MadeOfNothing == MadeOf(<<>>, <<>>)
<1>1. <<>> \in Row /\ <<>> \in Seq(Row) /\ Len(<<>>) = 0 BY DEF Row
<1>2. PICK n \in Nat : n = Len(<<>>) /\ n = 0 BY <1>1
<1>3. PICK at : at = [i \in 1..1 |-> 0] OBVIOUS
<1>4. at \in [1..(n + 1) -> Nat] /\ at[1] = 0 /\ at[n + 1] = n BY <1>2, <1>3
<1>5. \A i, j \in 1..(n + 1) : i <= j => at[i] <= at[j] BY <1>2, <1>3
<1>6. \A i \in 1..n : FALSE BY <1>2
<1>7. Cuts(<<>>, <<>>, at) BY <1>2, <1>4, <1>5, <1>6, Zenon DEF Cuts
<1> QED BY <1>1, <1>7, Zenon DEF MadeOf

\* The m elements of a and the n elements of b.
Joins(c, a, b, m, n) == /\ c \in Row /\ Len(c) = m + n
                        /\ \A k \in 1..m : c[k] = a[k]
                        /\ \A k \in 1..n : c[m + k] = b[k]

\* The elements of a concatenation.
LEMMA Joined ==
  ASSUME NEW a \in Row, NEW b \in Row, NEW m \in Nat, NEW n \in Nat, m = Len(a), n = Len(b),
         NEW c, c = a \o b
  PROVE  Joins(c, a, b, m, n)
<1>1. c \in Seq(Nat) /\ Len(c) = m + n BY ConcatProperties DEF Row
<1>2. \A k \in 1..m : c[k] = a[k] BY DEF Row
<1>3. \A k \in 1..n : c[m + k] = b[k] BY DEF Row
<1> QED BY <1>1, <1>2, <1>3, Zenon DEF Row, Joins

\* A part is added at the end.
LEMMA PartAdded ==
  ASSUME NEW row, NEW parts, MadeOf(row, parts), NEW part \in Row
  PROVE  MadeOf(row \o part, Append(parts, part))
<1>1. row \in Row /\ parts \in Seq(Row) BY Zenon DEF MadeOf
<1>2. PICK at : Cuts(row, parts, at) BY Zenon DEF MadeOf
<1>3. PICK m \in Nat : m = Len(parts) BY <1>1
<1>4. PICK a \in Nat : a = Len(row) BY <1>1 DEF Row
<1>5. PICK b \in Nat : b = Len(part) BY DEF Row
<1>6. PICK new : new = row \o part OBVIOUS
<1>7. /\ new \in Row /\ Len(new) = a + b
      /\ \A k \in 1..a : new[k] = row[k]
      /\ \A k \in 1..b : new[a + k] = part[k]
  <2>1. Joins(new, row, part, a, b) BY <1>1, <1>4, <1>5, <1>6, Joined
  <2> QED BY <2>1, Zenon DEF Joins
<1>8. PICK more : more = Append(parts, part) OBVIOUS
<1>9. /\ more \in Seq(Row) /\ Len(more) = m + 1
      /\ (\A i \in 1..m : more[i] = parts[i]) /\ more[m + 1] = part
  BY <1>1, <1>3, <1>8, AppendProperties
<1>10. /\ at \in [1..(m + 1) -> Nat]
       /\ at[1] = 0 /\ at[m + 1] = a
       /\ \A i, j \in 1..(m + 1) : i <= j => at[i] <= at[j]
       /\ \A i \in 1..m : /\ at[i + 1] = at[i] + Len(parts[i])
                          /\ \A k \in 1..Len(parts[i]) : row[at[i] + k] = parts[i][k]
  BY <1>2, <1>3, <1>4, Zenon DEF Cuts
<1>11. PICK to : to = [i \in 1..(m + 2) |-> IF i = m + 2 THEN a + b ELSE at[i]] OBVIOUS
<1>12. \A i \in 1..(m + 1) : i \in 1..(m + 2) /\ to[i] = at[i] /\ at[i] \in Nat /\ at[i] <= a
  <2> TAKE i \in 1..(m + 1)
  <2>1. i \in 1..(m + 2) /\ i # m + 2 /\ m + 1 \in 1..(m + 1) /\ i <= m + 1 OBVIOUS
  <2>2. to[i] = at[i] BY <1>11, <2>1
  <2>3. at[i] \in Nat BY <1>10, Zenon
  <2>4. at[i] <= at[m + 1] BY <1>10, <2>1, Zenon
  <2> QED BY <1>10, <2>1, <2>2, <2>3, <2>4, Zenon
<1>13. to[m + 2] = a + b /\ m + 2 \in 1..(m + 2) BY <1>11
<1>14. \A i \in 1..(m + 2) : i \in 1..(m + 1) \/ i = m + 2 OBVIOUS
<1>15. \A n \in Nat : n <= a => n <= a + b OBVIOUS
<1>16. a + b \in Nat /\ a + b <= a + b OBVIOUS
<1>17. to \in [1..(m + 2) -> Nat]
  <2>1. \A i \in 1..(m + 2) : to[i] \in Nat BY <1>12, <1>13, <1>14, <1>16, Zenon
  <2> QED BY <1>11, <2>1, Zenon
<1>18. ASSUME NEW i \in 1..(m + 2), NEW j \in 1..(m + 2), i <= j PROVE to[i] <= to[j]
  <2>1. CASE i \in 1..(m + 1) /\ j \in 1..(m + 1) BY <1>10, <1>12, <1>18, <2>1, Zenon
  <2>2. CASE i \in 1..(m + 1) /\ j = m + 2 BY <1>12, <1>13, <1>15, <2>2, Zenon
  <2>3. CASE i = m + 2
    <3>1. j = m + 2 BY <1>18, <2>3
    <3> QED BY <1>13, <1>16, <2>3, <3>1, Zenon
  <2> QED BY <1>14, <2>1, <2>2, <2>3, Zenon
<1>19. ASSUME NEW i \in 1..(m + 1)
       PROVE  /\ to[i + 1] = to[i] + Len(more[i])
              /\ \A k \in 1..Len(more[i]) : new[to[i] + k] = more[i][k]
  <2>1. CASE i \in 1..m
    <3>1. i \in 1..(m + 1) /\ i + 1 \in 1..(m + 1) BY <2>1
    <3>2. to[i] = at[i] /\ to[i + 1] = at[i + 1] /\ at[i] \in Nat /\ at[i + 1] <= a
      BY <1>12, <3>1, Zenon
    <3>3. more[i] = parts[i] BY <1>9, <2>1
    <3>4. at[i + 1] = at[i] + Len(parts[i]) BY <1>10, <2>1, Zenon
    <3>5. Len(parts[i]) \in Nat BY <1>1, <1>3, <2>1 DEF Row
    <3>6. PICK from \in Nat : from = at[i] BY <3>2
    <3>7. PICK len \in Nat : len = Len(parts[i]) BY <3>5
    <3>8. from + len <= a BY <3>2, <3>4, <3>6, <3>7
    <3>9. ASSUME NEW k \in 1..len PROVE new[from + k] = parts[i][k]
      <4>1. from + k \in 1..a BY <3>8
      <4>2. row[from + k] = parts[i][k] BY <1>10, <2>1, <3>6, <3>7, Zenon
      <4> QED BY <1>7, <4>1, <4>2, Zenon
    <3> QED BY <3>2, <3>3, <3>4, <3>6, <3>7, <3>9, Zenon
  <2>2. CASE i = m + 1
    <3>1. i + 1 = m + 2 /\ m + 1 \in 1..(m + 1) BY <2>2
    <3>2. to[i] = a /\ to[i + 1] = a + b BY <1>10, <1>12, <1>13, <2>2, <3>1, Zenon
    <3>3. more[i] = part BY <1>9, <2>2, Zenon
    <3> QED BY <1>5, <1>7, <3>2, <3>3, Zenon
  <2>3. i \in 1..m \/ i = m + 1 OBVIOUS
  <2> QED BY <2>1, <2>2, <2>3
<1>20. to[1] = 0
  <2>1. 1 \in 1..(m + 1) OBVIOUS
  <2> QED BY <1>10, <1>12, <2>1, Zenon
<1>21. Cuts(new, more, to)
  <2>1. Len(more) + 1 = m + 2 BY <1>9
  <2> QED BY <1>7, <1>9, <1>13, <1>17, <1>18, <1>19, <1>20, <2>1, Zenon DEF Cuts
<1> QED BY <1>6, <1>7, <1>8, <1>9, <1>21, Zenon DEF MadeOf

\* The row begins with its first part.
LEMMA FirstPart ==
  ASSUME NEW row, NEW parts, MadeOf(row, parts), parts # <<>>
  PROVE  /\ parts[1] \in Row /\ Len(parts[1]) <= Len(row)
         /\ \A k \in 1..Len(parts[1]) : row[k] = parts[1][k]
<1>1. row \in Row /\ parts \in Seq(Row) BY Zenon DEF MadeOf
<1>2. PICK at : Cuts(row, parts, at) BY Zenon DEF MadeOf
<1>3. PICK m \in Nat : m = Len(parts) /\ m >= 1 BY <1>1, EmptySeq
<1>4. parts[1] \in Row BY <1>1, <1>3
<1>5. PICK len \in Nat : len = Len(parts[1]) BY <1>4 DEF Row
<1>6. 1 \in 1..m /\ 2 \in 1..(m + 1) /\ m + 1 \in 1..(m + 1) /\ 1 + 1 = 2 /\ 2 <= m + 1 BY <1>3
<1>7. at[1] = 0 /\ at[m + 1] = Len(row) /\ at[2] <= at[m + 1] /\ at[2] = at[1] + len
  BY <1>2, <1>3, <1>5, <1>6, Zenon DEF Cuts
<1>8. \A k \in 1..len : row[at[1] + k] = parts[1][k] BY <1>2, <1>3, <1>5, <1>6, Zenon DEF Cuts
<1>9. ASSUME NEW k \in 1..len PROVE row[k] = parts[1][k]
  <2>1. 0 + k = k OBVIOUS
  <2>2. row[0 + k] = parts[1][k] BY <1>7, <1>8, Zenon
  <2> QED BY <2>1, <2>2, Zenon
<1>10. at[2] = len
  <2>1. at[2] = 0 + len /\ 0 + len = len BY <1>7
  <2> QED BY <2>1, Zenon
<1> QED BY <1>4, <1>5, <1>7, <1>9, <1>10, Zenon

\* What is left when the first part is taken away.
LEMMA FirstPartTaken ==
  ASSUME NEW row, NEW parts, MadeOf(row, parts), parts # <<>>
  PROVE  MadeOf(SubSeq(row, Len(parts[1]) + 1, Len(row)), Tail(parts))
<1>1. row \in Row /\ parts \in Seq(Row) /\ \E at : Cuts(row, parts, at) BY DEF MadeOf
<1>2. PICK at : Cuts(row, parts, at) BY <1>1, SMTT(30)
<1>3. PICK m \in Nat : Len(parts) = m + 1
  <2>1. Len(parts) \in Nat /\ Len(parts) # 0 BY <1>1, EmptySeq
  <2>2. Len(parts) - 1 \in Nat /\ Len(parts) = (Len(parts) - 1) + 1 BY <2>1
  <2> QED BY <2>2
<1>4. parts[1] \in Row /\ Len(parts[1]) <= Len(row)
  <2> HIDE <1>1
  <2> QED BY FirstPart
<1>5. PICK len \in Nat : len = Len(parts[1]) BY <1>4, SMTT(30) DEF Row
<1>6. PICK a \in Nat : Len(row) = len + a
  <2>1. Len(row) \in Nat /\ Len(row) - len \in Nat /\ Len(row) = len + (Len(row) - len)
    BY <1>1, <1>4, <1>5 DEF Row
  <2> QED BY <2>1
<1>7. /\ at \in [1..(m + 2) -> Nat]
      /\ at[1] = 0 /\ at[m + 2] = len + a
      /\ \A i, j \in 1..(m + 2) : i <= j => at[i] <= at[j]
      /\ \A i \in 1..(m + 1) : /\ at[i + 1] = at[i] + Len(parts[i])
                               /\ \A k \in 1..Len(parts[i]) : row[at[i] + k] = parts[i][k]
  <2>1. Len(parts) + 1 = m + 2 BY <1>3
  <2> QED BY <1>2, <1>3, <1>6, <2>1, Zenon DEF Cuts
<1>8. PICK new : new = SubSeq(row, len + 1, len + a) OBVIOUS
<1>9. new \in Row /\ Len(new) = a /\ \A k \in 1..a : new[k] = row[len + k]
  <2>1. \A i \in (len + 1)..(len + a) : row[i] \in Nat BY <1>1, <1>6 DEF Row
  <2>2. new \in Seq(Nat) BY <1>8, <2>1
  <2>3. Len(new) = a BY <1>8
  <2>4. ASSUME NEW k \in 1..a PROVE new[k] = row[len + k]
    <3>1. (len + 1) + k - 1 = len + k OBVIOUS
    <3>2. new[k] = row[(len + 1) + k - 1] BY <1>8
    <3> QED BY <3>1, <3>2, Zenon
  <2> QED BY <2>2, <2>3, <2>4 DEF Row
<1>10. PICK rest : rest = Tail(parts) OBVIOUS
<1>11. rest \in Seq(Row) /\ Len(rest) = m /\ \A i \in 1..m : rest[i] = parts[i + 1]
  BY <1>1, <1>3, <1>10, HeadTailProperties
<1>12. PICK to : to = [i \in 1..(m + 1) |-> at[i + 1] - len] OBVIOUS
<1>13. ASSUME NEW i \in 1..(m + 1) PROVE to[i] \in Nat /\ at[i + 1] = len + to[i]
  <2>1. i + 1 \in 1..(m + 2) /\ 2 \in 1..(m + 2) /\ 2 <= i + 1 /\ 1 \in 1..(m + 1) /\ 1 + 1 = 2
    OBVIOUS
  <2>2. at[2] = at[1] + len /\ at[2] <= at[i + 1] /\ at[i + 1] \in Nat
    BY <1>5, <1>7, <2>1, Zenon
  <2>3. to[i] = at[i + 1] - len BY <1>12
  <2> QED BY <1>7, <2>2, <2>3
<1>14. to \in [1..(m + 1) -> Nat] BY <1>12, <1>13, Zenon
<1>15. to[1] = 0 /\ to[m + 1] = a
  <2>1. 1 \in 1..(m + 1) /\ m + 1 \in 1..(m + 1) /\ 1 + 1 = 2 /\ (m + 1) + 1 = m + 2 OBVIOUS
  <2>2. PICK first \in Nat : first = to[1] BY <1>13, <2>1, Zenon
  <2>3. PICK last \in Nat : last = to[m + 1] BY <1>13, <2>1, Zenon
  <2>4. 0 + len = len + first
    <3>1. at[2] = at[1] + len BY <1>5, <1>7, <2>1, Zenon
    <3>2. at[2] = len + first BY <1>13, <2>1, <2>2, Zenon
    <3> QED BY <1>7, <3>1, <3>2, Zenon
  <2>5. len + a = len + last BY <1>7, <1>13, <2>1, <2>3, Zenon
  <2>6. first = 0 /\ last = a BY <2>4, <2>5
  <2> QED BY <2>2, <2>3, <2>6, Zenon
<1>16. ASSUME NEW i \in 1..(m + 1), NEW j \in 1..(m + 1), i <= j PROVE to[i] <= to[j]
  <2>1. i + 1 \in 1..(m + 2) /\ j + 1 \in 1..(m + 2) /\ i + 1 <= j + 1 BY <1>16
  <2>2. at[i + 1] <= at[j + 1] BY <1>7, <2>1, Zenon
  <2>3. len + to[i] <= len + to[j] /\ to[i] \in Nat /\ to[j] \in Nat BY <1>13, <2>2, Zenon
  <2> QED BY <2>3
<1>17. ASSUME NEW i \in 1..m
       PROVE  /\ to[i + 1] = to[i] + Len(rest[i])
              /\ \A k \in 1..Len(rest[i]) : new[to[i] + k] = rest[i][k]
  <2>1. /\ i \in 1..(m + 1) /\ i + 1 \in 1..(m + 1) /\ (i + 1) + 1 \in 1..(m + 2)
        /\ m + 2 \in 1..(m + 2) /\ (i + 1) + 1 <= m + 2
    OBVIOUS
  <2>2. PICK n \in Nat : n = Len(rest[i]) BY <1>11 DEF Row
  <2>3. n = Len(parts[i + 1]) /\ rest[i] = parts[i + 1] BY <1>11, <2>2, Zenon
  <2>4. /\ at[(i + 1) + 1] = at[i + 1] + n
        /\ \A k \in 1..n : row[at[i + 1] + k] = parts[i + 1][k]
        /\ at[(i + 1) + 1] <= len + a
    BY <1>7, <2>1, <2>3, Zenon
  <2>5. PICK from \in Nat : from = to[i] BY <1>13, <2>1
  <2>6. PICK until \in Nat : until = to[i + 1] BY <1>13, <2>1
  <2>7. at[i + 1] = len + from /\ at[(i + 1) + 1] = len + until BY <1>13, <2>1, <2>5, <2>6, Zenon
  <2>8. until = from + n /\ from + n <= a BY <2>4, <2>7
  <2>9. ASSUME NEW k \in 1..n PROVE new[from + k] = rest[i][k]
    <3>1. from + k \in 1..a /\ len + (from + k) = (len + from) + k BY <2>8
    <3>2. new[from + k] = row[len + (from + k)] BY <1>9, <3>1, Zenon
    <3>3. row[(len + from) + k] = parts[i + 1][k] BY <2>4, <2>7, Zenon
    <3> QED BY <2>3, <3>1, <3>2, <3>3, Zenon
  <2> QED BY <2>2, <2>5, <2>6, <2>8, <2>9, Zenon
<1>18. Cuts(new, rest, to)
  BY <1>9, <1>11, <1>14, <1>15, <1>16, <1>17, Zenon DEF Cuts
<1>19. MadeOf(new, rest) BY <1>9, <1>11, <1>18, Zenon DEF MadeOf
<1> QED BY <1>5, <1>6, <1>8, <1>10, <1>19, Zenon

\* A row that is not empty has a part, and one whose parts are not empty has no part else.
LEMMA PartsOfNothing ==
  ASSUME NEW row, NEW parts, MadeOf(row, parts)
  PROVE  /\ parts = <<>> => row = <<>>
         /\ row = <<>> /\ (\A i \in 1..Len(parts) : parts[i] # <<>>) => parts = <<>>
<1>1. row \in Row /\ parts \in Seq(Row) BY Zenon DEF MadeOf
<1>2. ASSUME parts = <<>> PROVE row = <<>>
  <2>1. PICK at : Cuts(row, parts, at) BY Zenon DEF MadeOf
  <2>2. Len(parts) = 0 /\ 0 + 1 = 1 BY <1>2
  <2>3. at[1] = 0 /\ at[0 + 1] = Len(row) BY <2>1, <2>2, Zenon DEF Cuts
  <2>4. Len(row) = 0 BY <2>2, <2>3, Zenon
  <2> QED BY <1>1, <2>4, EmptySeq DEF Row
<1>3. ASSUME row = <<>>, \A i \in 1..Len(parts) : parts[i] # <<>>, parts # <<>> PROVE FALSE
  <2>1. parts[1] \in Row /\ Len(parts[1]) <= Len(row) BY <1>3, FirstPart
  <2>2. Len(row) = 0 BY <1>3
  <2>3. Len(parts[1]) = 0 BY <2>1, <2>2 DEF Row
  <2>4. parts[1] = <<>> BY <2>1, <2>3, EmptySeq DEF Row
  <2>5. 1 \in 1..Len(parts) BY <1>1, <1>3, EmptySeq
  <2> QED BY <1>3, <2>4, <2>5
<1> QED BY <1>2, <1>3

----------------------------------------------------------------------------
(* Messages and frames. *)

\* The constants, as the lemmas use them.
LEMMA SizesType ==
  /\ ByteBase \in Nat /\ ByteBase >= 2 /\ StreamSize \in Nat
  /\ MaxMessageLen \in Nat /\ MaxMessageLen >= 1 /\ MaxU16 \in Nat /\ MaxMessageLen <= MaxU16
  /\ MessageLens \subseteq Nat
<1>1. ByteBase * ByteBase - 1 \in Nat
  <2>1. ByteBase \in Nat /\ ByteBase >= 2 BY BincodeAssumption
  <2>2. ByteBase * ByteBase \in Nat /\ ByteBase * ByteBase >= 1 BY <2>1
  <2> QED BY <2>2
<1> QED BY <1>1, BincodeAssumption DEF MaxU16

\* A message is a row as long as it says, of one value that says how long it is.
LEMMA MessageRow ==
  ASSUME NEW n \in Nat
  PROVE  /\ Message(n) = <<>> \/ n >= 1
         /\ Len(Message(n)) = n /\ \A i \in 1..n : Message(n)[i] = n - 1
         /\ n >= 1 => Message(n) \in Row
         /\ n = 0 => Message(n) \in Row /\ Message(n) = <<>>
<1>1. Len(Message(n)) = n /\ \A i \in 1..n : Message(n)[i] = n - 1 BY DEF Message
<1>2. n >= 1 => Message(n) \in Row BY DEF Message, Row
<1>3. n = 0 => Message(n) = <<>> BY DEF Message
<1>4. <<>> \in Row BY DEF Row
<1>5. n = 0 \/ n >= 1 OBVIOUS
<1> QED BY <1>1, <1>2, <1>3, <1>4, <1>5, Zenon

\* The bytes of no messages.
LEMMA PackedNothing == Packed(<<>>, <<>>)
<1>1. <<>> \in Row /\ Len(<<>>) = 0 BY DEF Row
<1>2. \A i \in 1..Len(<<>>) : FALSE BY <1>1
<1> QED BY <1>1, <1>2, MadeOfNothing, Zenon DEF Packed

\* The types of a chunk and of what is in it, and that no bytes are no messages.
LEMMA PackedTypes ==
  ASSUME NEW bytes, NEW lens, Packed(bytes, lens)
  PROVE  /\ bytes \in Row /\ lens \in Row
         /\ bytes = <<>> <=> lens = <<>>
<1>1. PICK parts : /\ MadeOf(bytes, parts) /\ Len(parts) = Len(lens)
                   /\ \A i \in 1..Len(lens) : lens[i] >= 1 /\ parts[i] = Message(lens[i])
  BY Zenon DEF Packed
<1>2. bytes \in Row /\ parts \in Seq(Row) /\ lens \in Row BY <1>1, Zenon DEF MadeOf, Packed
<1>3. lens = <<>> <=> parts = <<>>
  <2>1. lens = <<>> <=> Len(lens) = 0 BY <1>2, EmptySeq DEF Row
  <2>2. parts = <<>> <=> Len(parts) = 0 BY <1>2, EmptySeq
  <2> QED BY <1>1, <2>1, <2>2, Zenon
<1>4. ASSUME NEW i \in 1..Len(parts) PROVE parts[i] # <<>>
  <2>0. i \in 1..Len(lens) /\ lens[i] \in Nat BY <1>1, <1>2, <1>4 DEF Row
  <2>1. PICK n \in Nat : n = lens[i] /\ n >= 1 /\ parts[i] = Message(n) BY <1>1, <2>0, Zenon
  <2>2. Len(parts[i]) = n BY <2>1, MessageRow
  <2>3. Len(<<>>) = 0 /\ n # 0 BY <2>1
  <2> QED BY <2>2, <2>3, Zenon
<1>5. parts = <<>> <=> bytes = <<>> BY <1>1, <1>4, PartsOfNothing, Zenon
<1> QED BY <1>2, <1>3, <1>5, Zenon

\* A message is added to a chunk.
LEMMA PackedMore ==
  ASSUME NEW bytes, NEW lens, Packed(bytes, lens), NEW n \in Nat, n >= 1
  PROVE  Packed(bytes \o Message(n), Append(lens, n))
<1>1. PICK parts : /\ MadeOf(bytes, parts) /\ Len(parts) = Len(lens)
                   /\ \A i \in 1..Len(lens) : lens[i] >= 1 /\ parts[i] = Message(lens[i])
  BY Zenon DEF Packed
<1>2. parts \in Seq(Row) /\ lens \in Row BY <1>1, Zenon DEF MadeOf, Packed
<1>3. Message(n) \in Row BY MessageRow
<1>4. MadeOf(bytes \o Message(n), Append(parts, Message(n))) BY <1>1, <1>3, PartAdded, Zenon
<1>5. PICK m \in Nat : m = Len(lens) BY <1>2 DEF Row
<1>6. /\ Append(lens, n) \in Row /\ Len(Append(lens, n)) = m + 1
      /\ (\A i \in 1..m : Append(lens, n)[i] = lens[i]) /\ Append(lens, n)[m + 1] = n
  BY <1>2, <1>5, AppendProperties DEF Row
<1>7. /\ Len(Append(parts, Message(n))) = m + 1
      /\ (\A i \in 1..m : Append(parts, Message(n))[i] = parts[i])
      /\ Append(parts, Message(n))[m + 1] = Message(n)
  BY <1>1, <1>2, <1>3, <1>5, AppendProperties
<1>8. \A i \in 1..(m + 1) : i \in 1..m \/ i = m + 1 OBVIOUS
<1>9. ASSUME NEW i \in 1..(m + 1)
      PROVE  Append(lens, n)[i] >= 1 /\ Append(parts, Message(n))[i] = Message(Append(lens, n)[i])
  <2>1. CASE i \in 1..m BY <1>1, <1>5, <1>6, <1>7, <2>1, Zenon
  <2>2. CASE i = m + 1 BY <1>6, <1>7, <2>2, Zenon
  <2> QED BY <1>8, <2>1, <2>2, Zenon
<1> QED BY <1>4, <1>6, <1>7, <1>9, Zenon DEF Packed

\* The first message is taken from a chunk.
LEMMA PackedFirst ==
  ASSUME NEW bytes, NEW lens, Packed(bytes, lens), bytes # <<>>
  PROVE  /\ lens # <<>> /\ lens[1] \in Nat /\ lens[1] >= 1 /\ lens[1] <= Len(bytes)
         /\ MessageLen(bytes) = lens[1]
         /\ SubSeq(bytes, 1, lens[1]) = Message(lens[1])
         /\ Packed(SubSeq(bytes, lens[1] + 1, Len(bytes)), Tail(lens))
<1>1. PICK parts : /\ MadeOf(bytes, parts) /\ Len(parts) = Len(lens)
                   /\ \A i \in 1..Len(lens) : lens[i] >= 1 /\ parts[i] = Message(lens[i])
  BY Zenon DEF Packed
<1>2. parts \in Seq(Row) /\ lens \in Row /\ bytes \in Row BY <1>1, Zenon DEF MadeOf, Packed
<1>3. lens # <<>> BY PackedTypes, ZenonT(30)
<1>4. PICK m \in Nat : Len(lens) = m + 1
  <2>1. Len(lens) \in Nat /\ Len(lens) # 0 BY <1>2, <1>3, EmptySeq DEF Row
  <2>2. Len(lens) - 1 \in Nat /\ Len(lens) = (Len(lens) - 1) + 1 BY <2>1
  <2> QED BY <2>2
<1>5. 1 \in 1..Len(lens) /\ lens[1] \in Nat BY <1>2, <1>4 DEF Row
<1>6. PICK n \in Nat : n = lens[1] /\ n >= 1 /\ parts[1] = Message(n) BY <1>1, <1>5, Zenon
<1>7. Len(Message(n)) = n /\ (\A i \in 1..n : Message(n)[i] = n - 1) /\ Message(n) \in Row
  BY <1>6, MessageRow, Zenon
<1>8. parts # <<>> BY <1>1, <1>3, PartsOfNothing, Zenon
<1>9. /\ n <= Len(bytes)
      /\ \A k \in 1..n : bytes[k] = Message(n)[k]
  <2>1. /\ Len(parts[1]) <= Len(bytes)
        /\ \A k \in 1..Len(parts[1]) : bytes[k] = parts[1][k]
    BY <1>1, <1>8, FirstPart, ZenonT(30)
  <2>2. Len(parts[1]) = n BY <1>6, <1>7, Zenon
  <2> QED BY <1>6, <2>1, <2>2, Zenon
<1>10. MessageLen(bytes) = n
  <2>1. 1 \in 1..n BY <1>6
  <2>2. bytes[1] = n - 1 BY <1>7, <1>9, <2>1, Zenon
  <2> QED BY <2>2 DEF MessageLen
<1>11. SubSeq(bytes, 1, n) = Message(n)
  <2>1. PICK a \in Nat : a = Len(bytes) /\ n <= a BY <1>2, <1>9 DEF Row
  <2>2. PICK sub : sub = SubSeq(bytes, 1, n) OBVIOUS
  <2>3. \A i \in 1..n : bytes[i] \in Nat BY <1>2, <2>1 DEF Row
  <2>4. sub \in Seq(Nat) /\ Len(sub) = n BY <2>2, <2>3
  <2>5. ASSUME NEW i \in 1..n PROVE sub[i] = bytes[i]
    <3>1. 1 + i - 1 = i /\ sub[i] = bytes[1 + i - 1] BY <2>2
    <3> QED BY <3>1, Zenon
  <2>6. \A i \in 1..n : sub[i] = Message(n)[i] BY <1>9, <2>5, Zenon
  <2>7. Message(n) \in Seq(Nat) BY <1>7 DEF Row
  <2>8. sub = Message(n) BY <1>7, <2>4, <2>6, <2>7, SeqEqual
  <2> QED BY <2>2, <2>8
<1>12. MadeOf(SubSeq(bytes, n + 1, Len(bytes)), Tail(parts))
  BY <1>1, <1>6, <1>7, <1>8, FirstPartTaken, Zenon
<1>13. Tail(lens) \in Row /\ Len(Tail(lens)) = m /\ \A i \in 1..m : Tail(lens)[i] = lens[i + 1]
  BY <1>2, <1>3, <1>4, HeadTailProperties DEF Row
<1>14. Len(Tail(parts)) = m /\ \A i \in 1..m : Tail(parts)[i] = parts[i + 1]
  BY <1>1, <1>2, <1>4, <1>8, HeadTailProperties
<1>15. ASSUME NEW i \in 1..m PROVE Tail(lens)[i] >= 1 /\ Tail(parts)[i] = Message(Tail(lens)[i])
  <2>1. i + 1 \in 1..Len(lens) BY <1>4
  <2> QED BY <1>1, <1>13, <1>14, <2>1, Zenon
<1>16. Packed(SubSeq(bytes, n + 1, Len(bytes)), Tail(lens))
  BY <1>12, <1>13, <1>14, <1>15, Zenon DEF Packed
<1> QED BY <1>3, <1>6, <1>9, <1>10, <1>11, <1>16, Zenon

\* A length in two bytes is read as it was written.
LEMMA LengthKept ==
  ASSUME NEW n \in Nat
  PROVE  /\ WriteU16(n) \in Row /\ Len(WriteU16(n)) = 2
         /\ WriteU16(n)[1] + ByteBase * WriteU16(n)[2] = n
<1>1. /\ n % ByteBase \in Nat /\ n \div ByteBase \in Nat
      /\ (n % ByteBase) + ByteBase * (n \div ByteBase) = n
  BY SizesType
<1>2. WriteU16(n) \in Row /\ Len(WriteU16(n)) = 2 BY <1>1 DEF WriteU16, Row
<1>3. WriteU16(n)[1] = n % ByteBase /\ WriteU16(n)[2] = n \div ByteBase BY DEF WriteU16
<1> QED BY <1>1, <1>2, <1>3

\* A header of h elements, and what comes after it.
SplitAt(frame, head, body, h, n) ==
  /\ frame \in Row /\ Len(frame) = h + n
  /\ \A k \in 1..h : frame[k] = head[k]
  /\ SubSeq(frame, h + 1, h + n) = body

\* A row, as the header and what comes after it.
LEMMA TwoParts ==
  ASSUME NEW head \in Row, NEW body \in Row, NEW h \in Nat, NEW n \in Nat,
         h = Len(head), n = Len(body), NEW frame, frame = head \o body
  PROVE  SplitAt(frame, head, body, h, n)
<1>1. Joins(frame, head, body, h, n) BY Joined
<1>2. /\ frame \in Row /\ Len(frame) = h + n
      /\ \A k \in 1..h : frame[k] = head[k]
      /\ \A k \in 1..n : frame[h + k] = body[k]
  BY <1>1, Zenon DEF Joins
<1>3. PICK sub : sub = SubSeq(frame, h + 1, h + n) OBVIOUS
<1>4. \A i \in (h + 1)..(h + n) : frame[i] \in Nat BY <1>2 DEF Row
<1>5. sub \in Seq(Nat) BY <1>3, <1>4
<1>6. Len(sub) = n BY <1>3
<1>7. ASSUME NEW k \in 1..n PROVE sub[k] = body[k]
  <2>1. (h + 1) + k - 1 = h + k OBVIOUS
  <2>2. sub[k] = frame[(h + 1) + k - 1] BY <1>3
  <2> QED BY <1>2, <2>1, <2>2, Zenon
<1>8. body \in Seq(Nat) BY DEF Row
<1>9. sub = body BY <1>5, <1>6, <1>7, <1>8, SeqEqual
<1> QED BY <1>2, <1>3, <1>9, Zenon DEF SplitAt

\* What the receiver does with a plain frame.
PlainParts(frame, body, n) ==
  /\ frame \in Row /\ Len(frame) = 2 + n
  /\ frame[1] + ByteBase * frame[2] = n
  /\ SubSeq(frame, 3, Len(frame)) = body

\* The plain frame: its header says how long the message is.
LEMMA PlainFrameParts ==
  ASSUME NEW body \in Row, NEW n \in Nat, n = Len(body)
  PROVE  PlainParts(PlainFrame(body), body, n)
<1>1. PICK head \in Row : head = WriteU16(n) BY LengthKept
<1>2. Len(head) = 2 /\ head[1] + ByteBase * head[2] = n BY <1>1, LengthKept, Zenon
<1>3. PICK frame : frame = head \o body OBVIOUS
<1>4. frame = PlainFrame(body) BY <1>1, <1>3, Zenon DEF PlainFrame
<1>5. SplitAt(frame, head, body, 2, n)
  <2>1. PICK h \in Nat : h = 2 OBVIOUS
  <2>2. h = Len(head) BY <1>2, <2>1
  <2>3. SplitAt(frame, head, body, h, n) BY <1>3, <2>2, TwoParts
  <2> QED BY <2>1, <2>3, Zenon
<1>6. 1 \in 1..2 /\ 2 \in 1..2 /\ 2 + 1 = 3 OBVIOUS
<1>7. /\ frame \in Row /\ Len(frame) = 2 + n
      /\ frame[1] = head[1] /\ frame[2] = head[2]
      /\ SubSeq(frame, 3, 2 + n) = body
  BY <1>5, <1>6, Zenon DEF SplitAt
<1>8. PlainParts(frame, body, n) BY <1>2, <1>7, Zenon DEF PlainParts
<1> QED BY <1>4, <1>8, Zenon

\* The compressed form is shorter when the chunk is a run, and gives it back.
LEMMA CompressKeeps ==
  ASSUME NEW chunk \in Row, NEW n \in Nat, n = Len(chunk), chunk # <<>>
  PROVE  \/ Len(compress(chunk)) >= n
         \/ /\ compress(chunk) \in Row /\ Len(compress(chunk)) = 2 /\ n > 2
            /\ decompress(compress(chunk)) = chunk
<1>1. CASE ~IsRun(chunk)
  <2>1. compress(chunk) = Append(chunk, 0) BY <1>1 DEF compress
  <2>2. Len(Append(chunk, 0)) = n + 1 BY DEF Row
  <2>3. n + 1 >= n OBVIOUS
  <2> QED BY <2>1, <2>2, <2>3, Zenon
<1>2. CASE IsRun(chunk)
  <2>1. PICK b \in Nat : b = chunk[1] BY EmptySeq DEF Row
  <2>2. n > 2 /\ \A i \in 1..n : chunk[i] = b BY <1>2, <2>1 DEF IsRun
  <2>3. PICK short : short = <<n, b>> OBVIOUS
  <2>4. compress(chunk) = short BY <1>2, <2>1, <2>3, Zenon DEF compress
  <2>5. short \in Row /\ Len(short) = 2 /\ short[1] = n /\ short[2] = b BY <2>3 DEF Row
  <2>6. PICK long : long = [i \in 1..n |-> b] OBVIOUS
  <2>7. decompress(short) = long BY <2>5, <2>6, Zenon DEF decompress
  <2>8. long \in Seq(Nat) /\ Len(long) = n /\ \A i \in 1..n : long[i] = b BY <2>6
  <2>9. chunk \in Seq(Nat) BY DEF Row
  <2>10. long = chunk BY <2>2, <2>8, <2>9, SeqEqual
  <2> QED BY <2>2, <2>4, <2>5, <2>7, <2>10, Zenon
<1> QED BY <1>1, <1>2

\* What the receiver does with a frame that begins with a flag.
FlaggedParts(frame, flag, body, n) ==
  /\ frame \in Row /\ Len(frame) = 3 + n /\ frame[1] = flag
  /\ frame[2] + ByteBase * frame[3] = n
  /\ SubSeq(frame, 4, Len(frame)) = body

\* A flag, a length and that many bytes.
LEMMA Flagged ==
  ASSUME NEW body \in Row, NEW n \in Nat, n = Len(body), NEW flag \in Nat,
         NEW frame, frame = <<flag>> \o WriteU16(n) \o body
  PROVE  FlaggedParts(frame, flag, body, n)
<1>1. PICK two \in Row : two = WriteU16(n) BY LengthKept
<1>2. Len(two) = 2 /\ two[1] + ByteBase * two[2] = n BY <1>1, LengthKept, Zenon
<1>3. PICK one \in Row : one = <<flag>> /\ Len(one) = 1 /\ one[1] = flag
  <2>1. PICK row : row = <<flag>> OBVIOUS
  <2>2. row \in Seq(Nat) BY <2>1
  <2>3. Len(row) = 1 /\ row[1] = flag BY <2>1
  <2> QED BY <2>1, <2>2, <2>3, Zenon DEF Row
<1>4. PICK head : head = one \o two OBVIOUS
<1>5. Joins(head, one, two, 1, 2) BY <1>2, <1>3, <1>4, Joined
<1>6. /\ head \in Row /\ Len(head) = 1 + 2
      /\ \A k \in 1..1 : head[k] = one[k]
      /\ \A k \in 1..2 : head[1 + k] = two[k]
  BY <1>5, Zenon DEF Joins
<1>7. 1 \in 1..1 /\ 1 \in 1..2 /\ 2 \in 1..2 /\ 1 + 1 = 2 /\ 1 + 2 = 3 /\ 3 + 1 = 4 OBVIOUS
<1>8. Len(head) = 3 /\ head[1] = flag /\ head[2] = two[1] /\ head[3] = two[2]
  BY <1>3, <1>6, <1>7, Zenon
<1>9. frame = head \o body BY <1>1, <1>3, <1>4, Zenon
<1>10. /\ frame \in Row /\ Len(frame) = 3 + n
       /\ \A k \in 1..3 : frame[k] = head[k]
       /\ SubSeq(frame, 3 + 1, Len(frame)) = body
  <2>1. PICK h \in Nat : h = 3 OBVIOUS
  <2>2. h = Len(head) BY <1>8, <2>1
  <2>3. SplitAt(frame, head, body, h, n) BY <1>6, <1>9, <2>2, TwoParts
  <2>4. SplitAt(frame, head, body, 3, n) BY <2>1, <2>3, Zenon
  <2> QED BY <2>4, Zenon DEF SplitAt
<1>11. 1 \in 1..3 /\ 2 \in 1..3 /\ 3 \in 1..3 OBVIOUS
<1>12. frame[1] = flag /\ frame[2] = two[1] /\ frame[3] = two[2]
  BY <1>8, <1>10, <1>11, Zenon
<1> QED BY <1>2, <1>7, <1>10, <1>12, Zenon DEF FlaggedParts

\* The frame of a chunk: its header says how long the rest is, and it gives the chunk back.
LEMMA ChunkFrameParts ==
  ASSUME NEW chunk \in Row, chunk # <<>>
  PROVE  /\ ChunkFrame(chunk) \in Row
         /\ \E n \in Nat : /\ n <= Len(chunk) /\ Len(ChunkFrame(chunk)) = 3 + n
                           /\ ChunkFrame(chunk)[2] + ByteBase * ChunkFrame(chunk)[3] = n
         /\ ChunkOf(ChunkFrame(chunk)) = chunk
<1>1. PICK a \in Nat : a = Len(chunk) BY DEF Row
<1>2. CASE Len(compress(chunk)) >= a
  <2>1. PICK frame : frame = <<0>> \o WriteU16(a) \o chunk OBVIOUS
  <2>2. ChunkFrame(chunk) = frame BY <1>1, <1>2, <2>1, Zenon DEF ChunkFrame
  <2>3. FlaggedParts(frame, 0, chunk, a) BY <1>1, <2>1, Flagged
  <2>4. /\ frame \in Row /\ Len(frame) = 3 + a /\ frame[1] = 0
        /\ frame[2] + ByteBase * frame[3] = a /\ SubSeq(frame, 4, Len(frame)) = chunk
    BY <2>3, Zenon DEF FlaggedParts
  <2>5. 3 + 1 = 4 /\ a <= a OBVIOUS
  <2>6. ChunkOf(frame) = chunk BY <2>4, <2>5, Zenon DEF ChunkOf, ChunkHeader
  <2> QED BY <1>1, <2>2, <2>4, <2>5, <2>6, Zenon
<1>3. CASE ~(Len(compress(chunk)) >= a)
  <2>1. PICK body : body = compress(chunk) OBVIOUS
  <2>2. body \in Row /\ Len(body) = 2 /\ a > 2 /\ decompress(body) = chunk
    BY <1>1, <1>3, <2>1, CompressKeeps, Zenon
  <2>3. PICK frame : frame = <<1>> \o WriteU16(2) \o body OBVIOUS
  <2>4. ChunkFrame(chunk) = frame BY <1>1, <1>3, <2>1, <2>2, <2>3, Zenon DEF ChunkFrame
  <2>5. FlaggedParts(frame, 1, body, 2) BY <2>2, <2>3, Flagged
  <2>6. /\ frame \in Row /\ Len(frame) = 3 + 2 /\ frame[1] = 1
        /\ frame[2] + ByteBase * frame[3] = 2 /\ SubSeq(frame, 4, Len(frame)) = body
    BY <2>5, Zenon DEF FlaggedParts
  <2>7. 3 + 1 = 4 /\ 1 # 0 /\ 2 <= a /\ 2 \in Nat BY <2>2
  <2>8. ChunkOf(frame) = chunk BY <2>2, <2>6, <2>7, Zenon DEF ChunkOf, ChunkHeader
  <2> QED BY <1>1, <2>4, <2>6, <2>7, <2>8, Zenon
<1> QED BY <1>2, <1>3

\* The bytes of a frame's header.
HeaderOf(zip) == IF zip THEN ChunkHeader ELSE PlainHeader

\* A frame with n bytes after its header, which says so.
Measured(frame, zip, n) ==
  /\ frame \in Row /\ Len(frame) = HeaderOf(zip) + n
  /\ ReadU16(frame, HeaderOf(zip) - 2) = n /\ n <= MaxMessageLen

\* The frame of a message of this length is decoded to it, and a bare header to an error.
LEMMA PlainCarries ==
  ASSUME NEW frame, NEW group, Carries(frame, group, FALSE)
  PROVE  \E len \in Nat :
           /\ group = <<len>> /\ Measured(frame, FALSE, len)
           /\ SubSeq(frame, 3, Len(frame)) = Message(len)
<1>1. PICK len \in 0..MaxMessageLen : group = <<len>> /\ frame = PlainFrame(Message(len))
  BY Zenon DEF Carries
<1>2. len \in Nat /\ len <= MaxMessageLen BY SizesType
<1>3. Message(len) \in Row /\ Len(Message(len)) = len
  <2>1. len = 0 \/ len >= 1 BY <1>2
  <2> QED BY <1>2, <2>1, MessageRow, Zenon
<1>4. PlainParts(frame, Message(len), len) BY <1>1, <1>2, <1>3, PlainFrameParts, Zenon
<1>5. /\ frame \in Row /\ Len(frame) = 2 + len
      /\ frame[1] + ByteBase * frame[2] = len
      /\ SubSeq(frame, 3, Len(frame)) = Message(len)
  BY <1>4, Zenon DEF PlainParts
<1>6. HeaderOf(FALSE) = 2 BY DEF HeaderOf, PlainHeader
<1>7. ReadU16(frame, HeaderOf(FALSE) - 2) = frame[1] + ByteBase * frame[2]
  <2>1. 2 - 2 = 0 /\ 0 + 1 = 1 /\ 0 + 2 = 2 OBVIOUS
  <2> QED BY <1>6, <2>1, Zenon DEF ReadU16
<1>8. Measured(frame, FALSE, len) BY <1>2, <1>5, <1>6, <1>7, Zenon DEF Measured
<1> QED BY <1>1, <1>2, <1>5, <1>8, Zenon

\* A message is decoded to its length.
LEMMA MessageDecoded ==
  ASSUME NEW len \in Nat, NEW body, body = Message(len)
  PROVE  Decodes(body) /\ (IF Decodes(body) THEN Len(body) ELSE Error) = len
<1>1. Len(body) = len BY MessageRow
<1>2. CASE len = 0
  <2>1. body = <<>> BY <1>2, MessageRow
  <2>2. Decodes(body) BY <2>1, Zenon DEF Decodes
  <2> QED BY <1>1, <2>2, Zenon
<1>3. CASE len >= 1
  <2>1. body[1] = len - 1 BY <1>3, MessageRow
  <2>2. MessageLen(body) = len BY <2>1 DEF MessageLen
  <2>3. body # <<>> BY <1>1, <1>3
  <2>4. Decodes(body) BY <2>2, <2>3, Zenon DEF Decodes
  <2> QED BY <1>1, <2>4, Zenon
<1> QED BY <1>2, <1>3

\* The frame of a chunk gives the chunk back.
LEMMA ChunkCarries ==
  ASSUME NEW frame, NEW group, Carries(frame, group, TRUE)
  PROVE  /\ \E n \in Nat : Measured(frame, TRUE, n)
         /\ ChunkOf(frame) \in Row /\ Len(ChunkOf(frame)) <= MaxMessageLen
         /\ Packed(ChunkOf(frame), group)
<1>1. PICK chunk \in Row : /\ chunk # <<>> /\ Len(chunk) <= MaxMessageLen
                           /\ frame = ChunkFrame(chunk) /\ Packed(chunk, group)
  BY Zenon DEF Carries
<1>2. frame \in Row /\ ChunkOf(frame) = chunk BY <1>1, ChunkFrameParts, Zenon
<1>3. PICK n \in Nat : /\ n <= Len(chunk) /\ Len(frame) = 3 + n
                       /\ frame[2] + ByteBase * frame[3] = n
  BY <1>1, ChunkFrameParts, Zenon
<1>4. HeaderOf(TRUE) = 3 BY DEF HeaderOf, ChunkHeader
<1>5. ReadU16(frame, HeaderOf(TRUE) - 2) = frame[2] + ByteBase * frame[3]
  <2>1. 3 - 2 = 1 /\ 1 + 1 = 2 /\ 1 + 2 = 3 OBVIOUS
  <2> QED BY <1>4, <2>1, Zenon DEF ReadU16
<1>6. n <= MaxMessageLen
  <2>1. Len(chunk) \in Nat BY <1>1 DEF Row
  <2> QED BY <1>1, <1>3, <2>1, SizesType
<1>7. Measured(frame, TRUE, n) BY <1>2, <1>3, <1>4, <1>5, <1>6, Zenon DEF Measured
<1> QED BY <1>1, <1>2, <1>7, Zenon

\* Every frame says how long it is.
LEMMA FrameMeasured ==
  ASSUME NEW frame, NEW group, NEW zip \in BOOLEAN, Carries(frame, group, zip)
  PROVE  group \in Row /\ \E n \in Nat : Measured(frame, zip, n)
<1>1. CASE zip = TRUE
  <2>1. Carries(frame, group, TRUE) BY <1>1, Zenon
  <2>2. \E n \in Nat : Measured(frame, TRUE, n) BY <2>1, ChunkCarries, Zenon
  <2>3. Packed(ChunkOf(frame), group) BY <2>1, ChunkCarries, Zenon
  <2>4. group \in Row BY <2>3, Zenon DEF Packed
  <2> QED BY <1>1, <2>2, <2>4, Zenon
<1>2. CASE zip = FALSE
  <2>1. Carries(frame, group, FALSE) BY <1>2, Zenon
  <2>2. PICK len \in Nat : group = <<len>> /\ Measured(frame, FALSE, len)
    BY <2>1, PlainCarries, Zenon
  <2>3. group \in Row BY <2>2 DEF Row
  <2> QED BY <1>2, <2>2, <2>3, Zenon
<1> QED BY <1>1, <1>2

----------------------------------------------------------------------------
(* Frames one after the other. *)

\* Nothing is on its way.
LEMMA PipeNothing ==
  ASSUME NEW zip PROVE Pipe(<<>>, <<>>, zip)
<1>1. \A i \in 1..Len(<<>>) : FALSE OBVIOUS
<1> QED BY <1>1, MadeOfNothing, Zenon DEF Pipe

\* The frames are bytes, and what they carry lengths.
LEMMA PipeTypes ==
  ASSUME NEW bytes, NEW lens, NEW zip, Pipe(bytes, lens, zip)
  PROVE  bytes \in Row /\ lens \in Row
BY Zenon DEF Pipe, MadeOf

\* The i-th frame carries the i-th group.
Loaded(frames, groups, zip) ==
  Len(frames) = Len(groups) /\ \A i \in 1..Len(frames) : Carries(frames[i], groups[i], zip)

\* A frame and its group are added.
LEMMA LoadedMore ==
  ASSUME NEW frames \in Seq(Row), NEW groups \in Seq(Row), NEW zip, Loaded(frames, groups, zip),
         NEW frame \in Row, NEW group \in Row, Carries(frame, group, zip)
  PROVE  Loaded(Append(frames, frame), Append(groups, group), zip)
<1>1. PICK m \in Nat : m = Len(frames) OBVIOUS
<1>2. m = Len(groups) /\ \A i \in 1..m : Carries(frames[i], groups[i], zip)
  BY <1>1, Zenon DEF Loaded
<1>3. PICK fs : fs = Append(frames, frame) OBVIOUS
<1>4. PICK gs : gs = Append(groups, group) OBVIOUS
<1>5. Len(fs) = m + 1 /\ (\A i \in 1..m : fs[i] = frames[i]) /\ fs[m + 1] = frame
  BY <1>1, <1>3, AppendProperties
<1>6. Len(gs) = m + 1 /\ (\A i \in 1..m : gs[i] = groups[i]) /\ gs[m + 1] = group
  BY <1>2, <1>4, AppendProperties
<1>7. \A i \in 1..(m + 1) : i \in 1..m \/ i = m + 1 OBVIOUS
<1>8. ASSUME NEW i \in 1..(m + 1) PROVE Carries(fs[i], gs[i], zip)
  <2>1. CASE i \in 1..m BY <1>2, <1>5, <1>6, <2>1, Zenon
  <2>2. CASE i = m + 1 BY <1>5, <1>6, <2>2, Zenon
  <2> QED BY <1>7, <2>1, <2>2, Zenon
<1> QED BY <1>3, <1>4, <1>5, <1>6, <1>8, Zenon DEF Loaded

\* The first frame and its group are taken away.
LEMMA LoadedRest ==
  ASSUME NEW frames \in Seq(Row), NEW groups \in Seq(Row), NEW zip, Loaded(frames, groups, zip),
         frames # <<>>
  PROVE  /\ groups # <<>> /\ Carries(frames[1], groups[1], zip)
         /\ Loaded(Tail(frames), Tail(groups), zip)
<1>1. PICK m \in Nat : Len(frames) = m + 1
  <2>1. Len(frames) \in Nat /\ Len(frames) # 0 BY EmptySeq
  <2>2. Len(frames) - 1 \in Nat /\ Len(frames) = (Len(frames) - 1) + 1 BY <2>1
  <2> QED BY <2>2
<1>2. Len(groups) = m + 1 /\ \A i \in 1..(m + 1) : Carries(frames[i], groups[i], zip)
  BY <1>1, Zenon DEF Loaded
<1>3. groups # <<>> BY <1>2
<1>4. PICK fs : fs = Tail(frames) OBVIOUS
<1>5. PICK gs : gs = Tail(groups) OBVIOUS
<1>6. Len(fs) = m /\ \A i \in 1..m : fs[i] = frames[i + 1] BY <1>1, <1>4, HeadTailProperties
<1>7. Len(gs) = m /\ \A i \in 1..m : gs[i] = groups[i + 1] BY <1>2, <1>3, <1>5, HeadTailProperties
<1>8. 1 \in 1..(m + 1) /\ \A i \in 1..m : i + 1 \in 1..(m + 1) OBVIOUS
<1>9. \A i \in 1..m : Carries(fs[i], gs[i], zip) BY <1>2, <1>6, <1>7, <1>8, Zenon
<1>10. Loaded(fs, gs, zip) BY <1>6, <1>7, <1>9, Zenon DEF Loaded
<1> QED BY <1>2, <1>3, <1>4, <1>5, <1>8, <1>10, ZenonT(30)

\* A frame is added at the end.
LEMMA PipeMore ==
  ASSUME NEW bytes, NEW lens, NEW zip \in BOOLEAN, Pipe(bytes, lens, zip),
         NEW frame, NEW group, Carries(frame, group, zip)
  PROVE  Pipe(bytes \o frame, lens \o group, zip)
<1>1. PICK frames, groups : /\ MadeOf(bytes, frames) /\ MadeOf(lens, groups)
                            /\ Loaded(frames, groups, zip)
  BY Zenon DEF Pipe, Loaded
<1>2. frames \in Seq(Row) /\ groups \in Seq(Row) BY <1>1, Zenon DEF MadeOf
<1>3. frame \in Row /\ group \in Row BY FrameMeasured, Zenon DEF Measured
<1>4. MadeOf(bytes \o frame, Append(frames, frame)) BY <1>1, <1>3, PartAdded, Zenon
<1>5. MadeOf(lens \o group, Append(groups, group)) BY <1>1, <1>3, PartAdded, Zenon
<1>6. Loaded(Append(frames, frame), Append(groups, group), zip)
  BY <1>1, <1>2, <1>3, LoadedMore, Zenon
<1> QED BY <1>4, <1>5, <1>6, Zenon DEF Pipe, Loaded

\* The row is its first part and the rest.
LEMMA FirstAndRest ==
  ASSUME NEW row, NEW parts, MadeOf(row, parts), parts # <<>>
  PROVE  \E rest : row = parts[1] \o rest /\ MadeOf(rest, Tail(parts))
<1>1. row \in Row BY Zenon DEF MadeOf
<1>2. PICK first \in Row : first = parts[1] BY FirstPart, Zenon
<1>3. Len(first) <= Len(row) /\ \A k \in 1..Len(first) : row[k] = first[k]
  BY <1>2, FirstPart, ZenonT(30)
<1>4. PICK n \in Nat : n = Len(first) BY DEF Row
<1>5. PICK a \in Nat : Len(row) = n + a
  <2>1. Len(row) \in Nat /\ Len(row) - n \in Nat /\ Len(row) = n + (Len(row) - n)
    BY <1>1, <1>3, <1>4 DEF Row
  <2> QED BY <2>1
<1>6. PICK rest : rest = SubSeq(row, n + 1, n + a) OBVIOUS
<1>7. MadeOf(rest, Tail(parts)) BY <1>2, <1>4, <1>5, <1>6, FirstPartTaken, Zenon
<1>8. rest \in Row BY <1>7, Zenon DEF MadeOf
<1>9. Len(rest) = a BY <1>6
<1>10. ASSUME NEW k \in 1..a PROVE rest[k] = row[n + k]
  <2>1. (n + 1) + k - 1 = n + k OBVIOUS
  <2>2. rest[k] = row[(n + 1) + k - 1] BY <1>6
  <2> QED BY <2>1, <2>2, Zenon
<1>11. PICK all : all = first \o rest OBVIOUS
<1>12. Joins(all, first, rest, n, a) BY <1>4, <1>8, <1>9, <1>11, Joined
<1>13. /\ all \in Row /\ Len(all) = n + a
       /\ \A k \in 1..n : all[k] = first[k]
       /\ \A k \in 1..a : all[n + k] = rest[k]
  BY <1>12, Zenon DEF Joins
<1>14. ASSUME NEW k \in 1..(n + a) PROVE row[k] = all[k]
  <2>1. CASE k \in 1..n BY <1>3, <1>4, <1>13, <2>1, Zenon
  <2>2. CASE k \notin 1..n
    <3>1. k - n \in 1..a /\ n + (k - n) = k BY <2>2
    <3> QED BY <1>10, <1>13, <3>1, Zenon
  <2> QED BY <2>1, <2>2
<1>15. row = all BY <1>1, <1>5, <1>13, <1>14, SeqEqual DEF Row
<1> QED BY <1>2, <1>7, <1>11, <1>15, Zenon

\* The pipe begins with a frame.
Begins(bytes, lens, zip, frame, rest, group, left) ==
  /\ Carries(frame, group, zip) /\ bytes = frame \o rest /\ lens = group \o left
  /\ Pipe(rest, left, zip)

\* What is on its way begins with a whole frame.
LEMMA PipeFirst ==
  ASSUME NEW bytes, NEW lens, NEW zip, Pipe(bytes, lens, zip), bytes # <<>>
  PROVE  \E frame, rest, group, left : Begins(bytes, lens, zip, frame, rest, group, left)
<1>1. PICK frames, groups : /\ MadeOf(bytes, frames) /\ MadeOf(lens, groups)
                            /\ Loaded(frames, groups, zip)
  BY Zenon DEF Pipe, Loaded
<1>2. frames \in Seq(Row) /\ groups \in Seq(Row) BY <1>1, Zenon DEF MadeOf
<1>3. frames # <<>> BY <1>1, PartsOfNothing, Zenon
<1>4. /\ groups # <<>> /\ Carries(frames[1], groups[1], zip)
      /\ Loaded(Tail(frames), Tail(groups), zip)
  BY <1>1, <1>2, <1>3, LoadedRest, Zenon
<1>5. PICK rest : bytes = frames[1] \o rest /\ MadeOf(rest, Tail(frames))
  BY <1>1, <1>3, FirstAndRest, Zenon
<1>6. PICK left : lens = groups[1] \o left /\ MadeOf(left, Tail(groups))
  BY <1>1, <1>4, FirstAndRest, Zenon
<1>7. Pipe(rest, left, zip) BY <1>4, <1>5, <1>6, Zenon DEF Pipe, Loaded
<1> QED BY <1>4, <1>5, <1>6, <1>7, Zenon DEF Begins

----------------------------------------------------------------------------
(* Rows put together and taken apart. *)

\* The order of two concatenations does not matter.
Associates(a, b, c) == (a \o b) \o c = a \o (b \o c)

\* Rows can be put together in any order.
LEMMA RowsAssociate ==
  ASSUME NEW a \in Row, NEW b \in Row, NEW c \in Row
  PROVE  Associates(a, b, c)
BY ConcatAssociative, SMTT(30) DEF Associates, Row

\* Two rows are a row, and the empty one adds nothing.
LEMMA RowsJoin ==
  ASSUME NEW a \in Row, NEW b \in Row
  PROVE  a \o b \in Row /\ a \o <<>> = a /\ <<>> \o a = a /\ <<>> \in Row
<1>1. a \o b \in Row /\ <<>> \in Row BY ConcatProperties DEF Row
<1>2. a \o <<>> = a /\ <<>> \o a = a BY DEF Row
<1> QED BY <1>1, <1>2

\* A row is cut in two.
CutAt(row, n, first, rest) ==
  /\ first \in Row /\ rest \in Row /\ Len(first) = n /\ Len(rest) <= Len(row)
  /\ first \o rest = row

\* The two parts of a row are the row.
LEMMA RowCut ==
  ASSUME NEW row \in Row, NEW n \in Nat, n <= Len(row)
  PROVE  CutAt(row, n, SubSeq(row, 1, n), SubSeq(row, n + 1, Len(row)))
<1>1. PICK a \in Nat : Len(row) = n + a
  <2>1. Len(row) \in Nat /\ Len(row) - n \in Nat /\ Len(row) = n + (Len(row) - n) BY DEF Row
  <2> QED BY <2>1
<1>2. PICK first : first = SubSeq(row, 1, n) OBVIOUS
<1>3. PICK rest : rest = SubSeq(row, n + 1, n + a) OBVIOUS
<1>4. \A i \in 1..n : row[i] \in Nat BY <1>1 DEF Row
<1>5. \A i \in (n + 1)..(n + a) : row[i] \in Nat BY <1>1 DEF Row
<1>6. first \in Row /\ Len(first) = n BY <1>2, <1>4 DEF Row
<1>7. rest \in Seq(Nat) BY <1>3, <1>5
<1>8. Len(rest) = a BY <1>3
<1>9. ASSUME NEW k \in 1..a PROVE rest[k] = row[n + k]
  <2>1. (n + 1) + k - 1 = n + k OBVIOUS
  <2>2. rest[k] = row[(n + 1) + k - 1] BY <1>3
  <2> QED BY <2>1, <2>2, Zenon
<1>10. ASSUME NEW k \in 1..n PROVE first[k] = row[k]
  <2>1. 1 + k - 1 = k /\ first[k] = row[1 + k - 1] BY <1>2
  <2> QED BY <2>1, Zenon
<1>11. PICK all : all = first \o rest OBVIOUS
<1>12. rest \in Row BY <1>7, Zenon DEF Row
<1>13. Joins(all, first, rest, n, a) BY <1>6, <1>8, <1>11, <1>12, Joined
<1>14. /\ all \in Row /\ Len(all) = n + a
       /\ \A k \in 1..n : all[k] = first[k]
       /\ \A k \in 1..a : all[n + k] = rest[k]
  BY <1>13, Zenon DEF Joins
<1>15. ASSUME NEW k \in 1..(n + a) PROVE all[k] = row[k]
  <2>1. CASE k \in 1..n BY <1>10, <1>14, <2>1, Zenon
  <2>2. CASE k \notin 1..n
    <3>1. k - n \in 1..a /\ n + (k - n) = k BY <2>2
    <3> QED BY <1>9, <1>14, <3>1, Zenon
  <2> QED BY <2>1, <2>2
<1>16. all = row BY <1>1, <1>14, <1>15, SeqEqual DEF Row
<1>17. a <= n + a OBVIOUS
<1> QED BY <1>1, <1>2, <1>3, <1>6, <1>8, <1>11, <1>12, <1>16, <1>17, ZenonT(30) DEF CutAt

\* A row is cut in two in one way only.
LEMMA OneCut ==
  ASSUME NEW a \in Row, NEW b \in Row, NEW c \in Row, NEW d \in Row,
         a \o b = c \o d, Len(a) = Len(c)
  PROVE  a = c /\ b = d
<1>1. PICK n \in Nat : n = Len(a) /\ n = Len(c) BY DEF Row
<1>2. PICK m \in Nat : m = Len(b) BY DEF Row
<1>3. PICK k \in Nat : k = Len(d) BY DEF Row
<1>4. PICK all : all = a \o b /\ all = c \o d OBVIOUS
<1>5. Joins(all, a, b, n, m) BY <1>1, <1>2, <1>4, Joined
<1>6. Joins(all, c, d, n, k) BY <1>1, <1>3, <1>4, Joined
<1>7. Len(all) = n + m /\ (\A i \in 1..n : all[i] = a[i]) /\ (\A i \in 1..m : all[n + i] = b[i])
  BY <1>5, Zenon DEF Joins
<1>8. Len(all) = n + k /\ (\A i \in 1..n : all[i] = c[i]) /\ (\A i \in 1..k : all[n + i] = d[i])
  BY <1>6, Zenon DEF Joins
<1>9. m = k BY <1>7, <1>8
<1>10. \A i \in 1..n : a[i] = c[i] BY <1>7, <1>8, Zenon
<1>11. \A i \in 1..m : b[i] = d[i] BY <1>7, <1>8, <1>9, Zenon
<1>12. a = c BY <1>1, <1>10, SeqEqual DEF Row
<1>13. b = d
  <2>1. b \in Seq(Nat) /\ d \in Seq(Nat) BY DEF Row
  <2>2. Len(b) = Len(d) /\ \A i \in 1..Len(b) : b[i] = d[i] BY <1>2, <1>3, <1>9, <1>11, Zenon
  <2> QED BY <2>1, <2>2, SeqEqual, Zenon
<1> QED BY <1>12, <1>13

\* A row is its first element and the rest.
LEMMA HeadAndTail ==
  ASSUME NEW row \in Row, row # <<>>
  PROVE  /\ row[1] \in Nat /\ <<row[1]>> \in Row /\ Tail(row) \in Row
         /\ row = <<row[1]>> \o Tail(row)
<1>1. row \in Seq(Nat) /\ Len(row) \in Nat /\ Len(row) >= 1 BY EmptySeq DEF Row
<1>2. PICK x \in Nat : x = row[1] BY <1>1
<1>3. <<x>> \in Seq(Nat) /\ Len(<<x>>) = 1 /\ <<x>>[1] = x BY SMTT(30)
<1>4. PICK n \in Nat : Len(row) = n + 1
  <2>1. Len(row) - 1 \in Nat /\ Len(row) = (Len(row) - 1) + 1 BY <1>1
  <2> QED BY <2>1
<1>5. PICK t : t = Tail(row) OBVIOUS
<1>6. t \in Seq(Nat) /\ Len(t) = n /\ \A i \in 1..n : t[i] = row[i + 1]
  BY <1>1, <1>4, <1>5, HeadTailProperties
<1>7. PICK one \in Row : one = <<x>> /\ Len(one) = 1 /\ one[1] = x BY <1>3, Zenon DEF Row
<1>8. t \in Row BY <1>6, Zenon DEF Row
<1>9. PICK all : all = one \o t OBVIOUS
<1>10. Joins(all, one, t, 1, n)
  <2>1. PICK u \in Nat : u = 1 OBVIOUS
  <2>2. u = Len(one) BY <1>7, <2>1
  <2>3. Joins(all, one, t, u, n) BY <1>6, <1>8, <1>9, <2>2, Joined
  <2> QED BY <2>1, <2>3, Zenon
<1>11. /\ all \in Row /\ Len(all) = 1 + n
       /\ \A k \in 1..1 : all[k] = one[k]
       /\ \A k \in 1..n : all[1 + k] = t[k]
  BY <1>10, Zenon DEF Joins
<1>12. ASSUME NEW k \in 1..(n + 1) PROVE row[k] = all[k]
  <2>1. CASE k = 1
    <3>1. 1 \in 1..1 OBVIOUS
    <3> QED BY <1>2, <1>7, <1>11, <2>1, <3>1, Zenon
  <2>2. CASE k # 1
    <3>1. k - 1 \in 1..n BY <2>2
    <3>2. PICK j \in 1..n : j = k - 1 BY <3>1
    <3>3. 1 + j = k /\ j + 1 = k BY <3>2
    <3>4. all[1 + j] = t[j] /\ t[j] = row[j + 1] BY <1>6, <1>11, Zenon
    <3> QED BY <3>3, <3>4, Zenon
  <2> QED BY <2>1, <2>2
<1>13. 1 + n = n + 1 OBVIOUS
<1>14. row = all BY <1>1, <1>4, <1>11, <1>12, <1>13, SeqEqual DEF Row
<1> QED BY <1>2, <1>5, <1>7, <1>8, <1>9, <1>14, Zenon

----------------------------------------------------------------------------
(* Where the messages are. *)

\* The oldest message of the receiver's chunk is delivered: it is the next one accepted.
LEMMA LineTake ==
  ASSUME NEW all, NEW got, NEW r, NEW m, NEW s, Lines(all, got, r, m, s), r # <<>>
  PROVE  /\ Lines(all, Append(got, r[1]), Tail(r), m, s)
         /\ Len(got) < Len(all) /\ all[Len(got) + 1] = r[1]
<1>1. got \in Row /\ r \in Row /\ m \in Row /\ s \in Row BY Zenon DEF Lines
<1>2. PICK x \in Nat : x = r[1] BY <1>1, HeadAndTail, Zenon
<1>3. PICK one \in Row : one = <<x>> BY <1>1, <1>2, HeadAndTail, Zenon
<1>4. PICK t \in Row : t = Tail(r) BY <1>1, HeadAndTail, Zenon
<1>5. r = one \o t BY <1>1, <1>2, <1>3, <1>4, HeadAndTail, Zenon
<1>6. PICK rest \in Row : rest = m \o s BY <1>1, RowsJoin, Zenon
<1>7. PICK after \in Row : after = t \o rest BY <1>6, RowsJoin, Zenon
<1>8. all = got \o ((one \o t) \o rest) BY <1>5, <1>6, Zenon DEF Lines
<1>9. (one \o t) \o rest = one \o after
  <2>1. Associates(one, t, rest) BY RowsAssociate, Zenon
  <2> QED BY <1>7, <2>1, Zenon DEF Associates
<1>10. (got \o one) \o after = got \o (one \o after)
  <2>1. Associates(got, one, after) BY <1>1, RowsAssociate, Zenon
  <2> QED BY <2>1, Zenon DEF Associates
<1>11. PICK more : more = Append(got, x) OBVIOUS
<1>12. more = got \o one BY <1>1, <1>3, <1>11, AppendIsConcat DEF Row
<1>13. all = more \o after BY <1>8, <1>9, <1>10, <1>12, Zenon
<1>14. PICK n \in Nat : n = Len(got) BY <1>1 DEF Row
<1>15. more \in Row /\ Len(more) = n + 1 /\ more[n + 1] = x
  BY <1>1, <1>11, <1>14, AppendProperties DEF Row
<1>16. Lines(all, more, t, m, s) BY <1>1, <1>6, <1>7, <1>13, <1>15, Zenon DEF Lines
<1>17. n < Len(all) /\ all[n + 1] = x
  <2>1. PICK a \in Nat : a = Len(after) BY DEF Row
  <2>2. PICK k \in Nat : k = n + 1 OBVIOUS
  <2>3. Joins(all, more, after, k, a) BY <1>13, <1>15, <2>1, <2>2, Joined
  <2>4. Len(all) = k + a /\ \A i \in 1..k : all[i] = more[i] BY <2>3, Zenon DEF Joins
  <2>5. n < k + a /\ k \in 1..k BY <2>2
  <2>6. all[k] = x BY <1>15, <2>2, <2>4, <2>5, Zenon
  <2> QED BY <2>2, <2>4, <2>5, <2>6, Zenon
<1> QED BY <1>2, <1>4, <1>11, <1>14, <1>16, <1>17, Zenon

\* The first group on its way comes into the receiver's chunk.
LEMMA LineArrive ==
  ASSUME NEW all, NEW got, NEW group \in Row, NEW left \in Row, NEW s,
         Lines(all, got, <<>>, group \o left, s)
  PROVE  Lines(all, got, group, left, s)
<1>1. got \in Row /\ s \in Row /\ all = got \o (<<>> \o ((group \o left) \o s)) BY Zenon DEF Lines
<1>2. PICK rest \in Row : rest = left \o s BY <1>1, RowsJoin, Zenon
<1>3. (group \o left) \o s = group \o rest
  <2>1. Associates(group, left, s) BY <1>1, RowsAssociate, Zenon
  <2> QED BY <1>2, <2>1, Zenon DEF Associates
<1>4. group \o rest \in Row BY <1>2, RowsJoin, Zenon
<1>5. <<>> \o (group \o rest) = group \o rest BY <1>4, RowsJoin, Zenon
<1>6. all = got \o (group \o (left \o s)) BY <1>1, <1>2, <1>3, <1>5, Zenon
<1> QED BY <1>1, <1>6, Zenon DEF Lines

\* The sender's chunk is put on its way.
LEMMA LineLoad ==
  ASSUME NEW all, NEW got, NEW r, NEW m, NEW s, Lines(all, got, r, m, s)
  PROVE  Lines(all, got, r, m \o s, <<>>)
<1>1. got \in Row /\ r \in Row /\ m \in Row /\ s \in Row /\ all = got \o (r \o (m \o s))
  BY Zenon DEF Lines
<1>2. m \o s \in Row /\ <<>> \in Row BY <1>1, RowsJoin, Zenon
<1>3. (m \o s) \o <<>> = m \o s BY <1>2, RowsJoin, Zenon
<1> QED BY <1>1, <1>2, <1>3, Zenon DEF Lines

\* A message is accepted into the sender's chunk.
LEMMA LineSend ==
  ASSUME NEW all, NEW got, NEW r, NEW m, NEW s, Lines(all, got, r, m, s), NEW x \in Nat
  PROVE  Lines(Append(all, x), got, r, m, Append(s, x))
<1>1. got \in Row /\ r \in Row /\ m \in Row /\ s \in Row /\ all = got \o (r \o (m \o s))
  BY Zenon DEF Lines
<1>2. PICK one \in Row : one = <<x>>
  <2>1. <<x>> \in Seq(Nat) OBVIOUS
  <2> QED BY <2>1, Zenon DEF Row
<1>3. PICK b \in Row : b = m \o s BY <1>1, RowsJoin, Zenon
<1>4. PICK c \in Row : c = r \o b BY <1>1, <1>3, RowsJoin, Zenon
<1>5. all \in Row /\ all = got \o c BY <1>1, <1>3, <1>4, RowsJoin, Zenon
<1>6. Append(all, x) = all \o one BY <1>2, <1>5, AppendIsConcat DEF Row
<1>7. Append(s, x) = s \o one BY <1>1, <1>2, AppendIsConcat DEF Row
<1>8. Associates(got, c, one) BY <1>1, RowsAssociate, Zenon
<1>9. Associates(r, b, one) BY <1>1, RowsAssociate, Zenon
<1>10. Associates(m, s, one) BY <1>1, RowsAssociate, Zenon
<1>11. s \o one \in Row BY <1>1, RowsJoin, Zenon
<1>12. Append(all, x) = got \o (r \o (m \o Append(s, x)))
  BY <1>3, <1>4, <1>5, <1>6, <1>7, <1>8, <1>9, <1>10, Zenon DEF Associates
<1> QED BY <1>1, <1>7, <1>11, <1>12, Zenon DEF Lines

----------------------------------------------------------------------------
(* The state, step by step. *)

\* The header the receiver waits for.
LEMMA HeaderSize ==
  ASSUME compressed \in BOOLEAN
  PROVE  Header = HeaderOf(compressed) /\ Header \in {2, 3}
BY DEF Header, HeaderOf, PlainHeader, ChunkHeader

\* The initial state.
LEMMA InitState == ASSUME Init PROVE StateOK
<1>1. compressed \in BOOLEAN BY DEF Init
<1>2. call = [op |-> "none", len |-> 0] BY DEF Init, Idle
<1>3. PICK none : none = <<>> OBVIOUS
<1>4. none \in Row /\ Len(none) = 0 BY <1>3 DEF Row
<1>5. write_buffer = none /\ send_chunk = none /\ recv_chunk = none /\ stream = none
      /\ read_buffer = none
  BY <1>3 DEF Init
<1>6. Missing >= 0
  <2>1. Header \in {2, 3} BY <1>1, HeaderSize
  <2>2. Len(read_buffer) = 0 BY <1>4, <1>5
  <2> QED BY <2>1, <2>2 DEF Missing
<1>7. ChunkHeader = 3 BY DEF ChunkHeader
<1> QED BY <1>1, <1>2, <1>3, <1>4, <1>5, <1>6, <1>7, SizesType DEF StateOK

\* What a call of the sender keeps in order.
CallOK ==
  /\ compressed \in BOOLEAN
  /\ call \in [op : {"none", "send", "flush"}, len : Nat]
  /\ call.op = "send" /\ compressed => call.len <= MaxMessageLen

\* The sender's buffers.
WriteOK ==
  /\ write_buffer \in Row /\ Len(write_buffer) <= ChunkHeader + MaxMessageLen
  /\ send_chunk \in Row /\ Len(send_chunk) <= MaxMessageLen
  /\ ~compressed => send_chunk = <<>>

\* The stream.
StreamOK == stream \in Row /\ Len(stream) <= StreamSize

\* The receiver's chunk.
ChunkOK ==
  /\ recv_chunk \in Row /\ Len(recv_chunk) <= MaxMessageLen
  /\ ~compressed => recv_chunk = <<>>

\* The receiver's buffer.
ReadOK == read_buffer \in Row /\ Missing >= 0

\* The parts of the state.
LEMMA StateParts == StateOK <=> CallOK /\ WriteOK /\ StreamOK /\ ChunkOK /\ ReadOK
BY Zenon DEF StateOK, CallOK, WriteOK, StreamOK, ChunkOK, ReadOK

\* The call.
LEMMA CallStep ==
  ASSUME CallOK, [Next]_vars
  PROVE  CallOK'
<1>1. CASE UNCHANGED <<compressed, call>> BY <1>1 DEF CallOK
<1>2. CASE call' = Idle /\ compressed' = compressed BY <1>2 DEF CallOK, Idle
<1>3. ASSUME NEW len \in MessageLens, StartSend(len) PROVE CallOK'
  <2>1. len \in Nat BY SizesType
  <2>2. call' = [op |-> "send", len |-> len] /\ compressed' = compressed
        /\ (compressed => len <= MaxMessageLen)
    BY <1>3 DEF StartSend
  <2> QED BY <2>1, <2>2 DEF CallOK
<1>4. CASE StartFlush
  <2>1. call' = [op |-> "flush", len |-> 0] /\ compressed' = compressed BY <1>4 DEF StartFlush
  <2> QED BY <2>1 DEF CallOK
<1>5. ASSUME NEW n \in 1..StreamSize, PollWrite(n) \/ PollRead(n)
      PROVE  UNCHANGED <<compressed, call>>
  BY <1>5 DEF PollWrite, PollRead, sendVars
<1>6. CASE Cancel BY <1>2, <1>6 DEF Cancel
<1>7. CASE LoadChunk BY <1>1, <1>7 DEF LoadChunk
<1>8. CASE FinishSendCompressed BY <1>2, <1>8 DEF FinishSendCompressed
<1>9. CASE FinishSendPlain BY <1>2, <1>9 DEF FinishSendPlain
<1>10. CASE FinishFlush BY <1>2, <1>10 DEF FinishFlush
<1>11. CASE FinishFrame BY <1>1, <1>11 DEF FinishFrame, sendVars
<1>12. CASE FinishChunk BY <1>1, <1>12 DEF FinishChunk, sendVars
<1>13. CASE TakeMessage BY <1>1, <1>13 DEF TakeMessage, sendVars
<1>14. CASE UNCHANGED vars BY <1>1, <1>14 DEF vars, sendVars
<1> QED BY <1>1, <1>3, <1>4, <1>5, <1>6, <1>7, <1>8, <1>9, <1>10, <1>11, <1>12, <1>13, <1>14
  DEF Next

\* The sender's buffers.
LEMMA WriteStep ==
  ASSUME CallOK, WriteOK, [Next]_vars
  PROVE  WriteOK'
<1>1. CASE UNCHANGED <<compressed, write_buffer, send_chunk>> BY <1>1 DEF WriteOK
<1>2. ASSUME NEW n \in 1..StreamSize, PollWrite(n) PROVE WriteOK'
  <2>1. n \in Nat BY SizesType
  <2>2. write_buffer \in Row /\ n <= Len(write_buffer) BY <1>2 DEF PollWrite, WriteOK
  <2>3. PICK rest : rest = SubSeq(write_buffer, n + 1, Len(write_buffer)) OBVIOUS
  <2>4. CutAt(write_buffer, n, SubSeq(write_buffer, 1, n), rest) BY <2>1, <2>2, <2>3, RowCut, Zenon
  <2>5. rest \in Row /\ Len(rest) <= Len(write_buffer) BY <2>4, Zenon DEF CutAt
  <2>6. Len(rest) <= ChunkHeader + MaxMessageLen
    <3>1. Len(rest) \in Nat /\ Len(write_buffer) \in Nat BY <2>2, <2>5 DEF Row
    <3> QED BY <2>5, <3>1, SizesType DEF WriteOK, ChunkHeader
  <2>7. write_buffer' = rest /\ UNCHANGED <<compressed, send_chunk>>
    BY <1>2, <2>3 DEF PollWrite
  <2> QED BY <2>5, <2>6, <2>7 DEF WriteOK
<1>3. CASE LoadChunk
  <2>1. send_chunk \in Row /\ send_chunk # <<>> BY <1>3 DEF LoadChunk, WriteOK
  <2>2. PICK frame : frame = ChunkFrame(send_chunk) OBVIOUS
  <2>3. PICK n \in Nat : n <= Len(send_chunk) /\ Len(frame) = 3 + n
    BY <2>1, <2>2, ChunkFrameParts, Zenon
  <2>4. frame \in Row BY <2>1, <2>2, ChunkFrameParts, Zenon
  <2>5. Len(frame) <= ChunkHeader + MaxMessageLen
    <3>1. Len(send_chunk) \in Nat /\ Len(send_chunk) <= MaxMessageLen BY <2>1 DEF Row, WriteOK
    <3> QED BY <2>3, <3>1, SizesType DEF ChunkHeader
  <2>6. write_buffer' = frame /\ send_chunk' = <<>> /\ compressed' = compressed
    BY <1>3, <2>2 DEF LoadChunk
  <2>7. <<>> \in Row /\ Len(<<>>) <= MaxMessageLen BY SizesType DEF Row
  <2> QED BY <2>4, <2>5, <2>6, <2>7 DEF WriteOK
<1>4. CASE FinishSendCompressed
  <2>1. call.len \in Nat BY <1>4 DEF FinishSendCompressed, CallOK
  <2>2. PICK n \in Nat : n = call.len BY <2>1
  <2>3. Message(n) \in Row /\ Len(Message(n)) = n BY <2>2, MessageRow
  <2>4. PICK a \in Nat : a = Len(send_chunk) /\ send_chunk \in Row BY DEF WriteOK, Row
  <2>5. PICK more : more = send_chunk \o Message(n) OBVIOUS
  <2>6. Joins(more, send_chunk, Message(n), a, n) BY <2>3, <2>4, <2>5, Joined
  <2>7. more \in Row /\ Len(more) = a + n BY <2>6, Zenon DEF Joins
  <2>8. a + n <= MaxMessageLen
    BY <1>4, <2>2, <2>4, SizesType DEF FinishSendCompressed, ChunkFull
  <2>9. send_chunk' = more /\ UNCHANGED <<compressed, write_buffer>> /\ compressed
    BY <1>4, <2>2, <2>5 DEF FinishSendCompressed
  <2> QED BY <2>7, <2>8, <2>9 DEF WriteOK
<1>5. CASE FinishSendPlain
  <2>1. send_chunk' = send_chunk /\ compressed' = compressed BY <1>5 DEF FinishSendPlain
  <2>2. ASSUME call.len <= MaxMessageLen, write_buffer' = PlainFrame(Message(call.len))
        PROVE  WriteOK'
    <3>1. PICK n \in Nat : n = call.len /\ n <= MaxMessageLen
      BY <1>5, <2>2 DEF FinishSendPlain, CallOK
    <3>2. Message(n) \in Row /\ Len(Message(n)) = n BY <3>1, MessageRow
    <3>3. PICK frame : frame = PlainFrame(Message(n)) OBVIOUS
    <3>4. PlainParts(frame, Message(n), n) BY <3>2, <3>3, PlainFrameParts, Zenon
    <3>5. frame \in Row /\ Len(frame) = 2 + n BY <3>4, Zenon DEF PlainParts
    <3>6. Len(frame) <= ChunkHeader + MaxMessageLen BY <3>1, <3>5, SizesType DEF ChunkHeader
    <3>7. write_buffer' = frame BY <2>2, <3>1, <3>3
    <3> QED BY <2>1, <3>5, <3>6, <3>7 DEF WriteOK
  <2>3. ASSUME write_buffer' = WriteU16(0) PROVE WriteOK'
    <3>1. PICK frame : frame = WriteU16(0) OBVIOUS
    <3>2. 0 \in Nat OBVIOUS
    <3>3. frame \in Row /\ Len(frame) = 2 BY <3>1, <3>2, LengthKept, Zenon
    <3>4. Len(frame) <= ChunkHeader + MaxMessageLen BY <3>3, SizesType DEF ChunkHeader
    <3> QED BY <2>1, <2>3, <3>1, <3>3, <3>4 DEF WriteOK
  <2> QED BY <1>5, <2>2, <2>3 DEF FinishSendPlain
<1>6. ASSUME NEW len \in MessageLens, StartSend(len) PROVE WriteOK' BY <1>1, <1>6 DEF StartSend
<1>7. CASE StartFlush BY <1>1, <1>7 DEF StartFlush
<1>8. ASSUME NEW n \in 1..StreamSize, PollRead(n) PROVE WriteOK'
  BY <1>1, <1>8 DEF PollRead, sendVars
<1>9. CASE Cancel BY <1>1, <1>9 DEF Cancel
<1>10. CASE FinishFlush BY <1>1, <1>10 DEF FinishFlush
<1>11. CASE FinishFrame BY <1>1, <1>11 DEF FinishFrame, sendVars
<1>12. CASE FinishChunk BY <1>1, <1>12 DEF FinishChunk, sendVars
<1>13. CASE TakeMessage BY <1>1, <1>13 DEF TakeMessage, sendVars
<1>14. CASE UNCHANGED vars BY <1>1, <1>14 DEF vars, sendVars
<1> QED BY <1>2, <1>3, <1>4, <1>5, <1>6, <1>7, <1>8, <1>9, <1>10, <1>11, <1>12, <1>13, <1>14
  DEF Next

\* The stream.
LEMMA StreamStep ==
  ASSUME WriteOK, StreamOK, [Next]_vars
  PROVE  StreamOK'
<1>1. CASE UNCHANGED stream BY <1>1 DEF StreamOK
<1>2. ASSUME NEW n \in 1..StreamSize, PollWrite(n) PROVE StreamOK'
  <2>1. n \in Nat BY SizesType
  <2>2. write_buffer \in Row /\ n <= Len(write_buffer) BY <1>2 DEF PollWrite, WriteOK
  <2>3. PICK part : part = SubSeq(write_buffer, 1, n) OBVIOUS
  <2>4. CutAt(write_buffer, n, part, SubSeq(write_buffer, n + 1, Len(write_buffer)))
    BY <2>1, <2>2, <2>3, RowCut, Zenon
  <2>5. part \in Row /\ Len(part) = n BY <2>4, Zenon DEF CutAt
  <2>6. PICK a \in Nat : a = Len(stream) /\ stream \in Row BY DEF StreamOK, Row
  <2>7. PICK more : more = stream \o part OBVIOUS
  <2>8. Joins(more, stream, part, a, n) BY <2>1, <2>5, <2>6, <2>7, Joined
  <2>9. more \in Row /\ Len(more) = a + n BY <2>8, Zenon DEF Joins
  <2>10. stream' = more /\ a + n <= StreamSize BY <1>2, <2>3, <2>6, <2>7 DEF PollWrite
  <2> QED BY <2>9, <2>10 DEF StreamOK
<1>3. ASSUME NEW n \in 1..StreamSize, PollRead(n) PROVE StreamOK'
  <2>1. n \in Nat BY SizesType
  <2>2. stream \in Row /\ n <= Len(stream) BY <1>3 DEF PollRead, StreamOK
  <2>3. PICK rest : rest = SubSeq(stream, n + 1, Len(stream)) OBVIOUS
  <2>4. CutAt(stream, n, SubSeq(stream, 1, n), rest) BY <2>1, <2>2, <2>3, RowCut, Zenon
  <2>5. rest \in Row /\ Len(rest) <= Len(stream) BY <2>4, Zenon DEF CutAt
  <2>6. Len(rest) <= StreamSize
    <3>1. Len(rest) \in Nat /\ Len(stream) \in Nat BY <2>2, <2>5 DEF Row
    <3> QED BY <2>5, <3>1, SizesType DEF StreamOK
  <2>7. stream' = rest BY <1>3, <2>3 DEF PollRead
  <2> QED BY <2>5, <2>6, <2>7 DEF StreamOK
<1>4. ASSUME NEW len \in MessageLens, StartSend(len) PROVE StreamOK' BY <1>1, <1>4 DEF StartSend
<1>5. CASE StartFlush BY <1>1, <1>5 DEF StartFlush
<1>6. CASE Cancel BY <1>1, <1>6 DEF Cancel
<1>7. CASE LoadChunk BY <1>1, <1>7 DEF LoadChunk
<1>8. CASE FinishSendCompressed BY <1>1, <1>8 DEF FinishSendCompressed
<1>9. CASE FinishSendPlain BY <1>1, <1>9 DEF FinishSendPlain
<1>10. CASE FinishFlush BY <1>1, <1>10 DEF FinishFlush
<1>11. CASE FinishFrame BY <1>1, <1>11 DEF FinishFrame
<1>12. CASE FinishChunk BY <1>1, <1>12 DEF FinishChunk
<1>13. CASE TakeMessage BY <1>1, <1>13 DEF TakeMessage
<1>14. CASE UNCHANGED vars BY <1>1, <1>14 DEF vars
<1> QED BY <1>2, <1>3, <1>4, <1>5, <1>6, <1>7, <1>8, <1>9, <1>10, <1>11, <1>12, <1>13, <1>14
  DEF Next

\* Missing, for any bytes read of a frame with a header of h bytes.
Lacking(bytes, h) ==
  IF Len(bytes) < h THEN h - Len(bytes) ELSE h + ReadU16(bytes, h - 2) - Len(bytes)

\* The length is read from two bytes.
LEMMA LengthRead ==
  ASSUME NEW bytes \in Row, NEW h \in {2, 3}, Len(bytes) >= h
  PROVE  /\ ReadU16(bytes, h - 2) = bytes[h - 1] + ByteBase * bytes[h]
         /\ ReadU16(bytes, h - 2) \in Nat
<1>1. h - 2 \in Nat /\ (h - 2) + 1 = h - 1 /\ (h - 2) + 2 = h OBVIOUS
<1>2. ReadU16(bytes, h - 2) = bytes[(h - 2) + 1] + ByteBase * bytes[(h - 2) + 2]
  BY Zenon DEF ReadU16
<1>3. ReadU16(bytes, h - 2) = bytes[h - 1] + ByteBase * bytes[h] BY <1>1, <1>2, Zenon
<1>4. Len(bytes) \in Nat BY DEF Row
<1>5. h - 1 \in 1..Len(bytes) /\ h \in 1..Len(bytes) BY <1>4
<1>6. bytes[h - 1] \in Nat /\ bytes[h] \in Nat BY <1>5 DEF Row
<1>7. PICK a \in Nat : a = bytes[h - 1] BY <1>6
<1>8. PICK b \in Nat : b = bytes[h] BY <1>6
<1>9. ByteBase \in Nat BY SizesType
<1>10. a + ByteBase * b \in Nat BY <1>9
<1> QED BY <1>3, <1>7, <1>8, <1>10, Zenon

\* The length in a header does not change when more is read.
LEMMA LengthStays ==
  ASSUME NEW bytes \in Row, NEW part \in Row, NEW h \in {2, 3}, Len(bytes) >= h
  PROVE  /\ ReadU16(bytes \o part, h - 2) = ReadU16(bytes, h - 2)
         /\ Len(bytes \o part) >= h
<1>1. PICK a \in Nat : a = Len(bytes) BY DEF Row
<1>2. PICK b \in Nat : b = Len(part) BY DEF Row
<1>3. PICK more : more = bytes \o part OBVIOUS
<1>4. Joins(more, bytes, part, a, b) BY <1>1, <1>2, <1>3, Joined
<1>5. more \in Row /\ Len(more) = a + b /\ \A k \in 1..a : more[k] = bytes[k]
  BY <1>4, Zenon DEF Joins
<1>6. h - 1 \in 1..a /\ h \in 1..a /\ a + b >= h BY <1>1
<1>7. more[h - 1] = bytes[h - 1] /\ more[h] = bytes[h] BY <1>5, <1>6, Zenon
<1>8. ReadU16(bytes, h - 2) = bytes[h - 1] + ByteBase * bytes[h] BY LengthRead
<1>9. Len(more) >= h BY <1>5, <1>6
<1>10. ReadU16(more, h - 2) = more[h - 1] + ByteBase * more[h] BY <1>5, <1>9, LengthRead
<1> QED BY <1>3, <1>7, <1>8, <1>9, <1>10, Zenon

\* Reading no more than is missing never reads past the frame.
LEMMA LackingMore ==
  ASSUME NEW bytes \in Row, NEW part \in Row, NEW h \in {2, 3}, NEW n \in Nat, n = Len(part),
         n <= Lacking(bytes, h)
  PROVE  Lacking(bytes \o part, h) >= 0
<1>1. PICK a \in Nat : a = Len(bytes) BY DEF Row
<1>2. PICK more : more = bytes \o part OBVIOUS
<1>3. Joins(more, bytes, part, a, n) BY <1>1, <1>2, Joined
<1>4. more \in Row /\ Len(more) = a + n BY <1>3, Zenon DEF Joins
<1>5. CASE a < h
  <2>1. n <= h - a BY <1>1, <1>5 DEF Lacking
  <2>2. CASE a + n < h BY <1>4, <2>2, <1>2 DEF Lacking
  <2>3. CASE a + n = h
    <3>1. ReadU16(more, h - 2) \in Nat BY <1>4, <2>3, LengthRead
    <3>2. Lacking(more, h) = h + ReadU16(more, h - 2) - h BY <1>4, <2>3 DEF Lacking
    <3>3. Lacking(more, h) >= 0 BY <3>1, <3>2
    <3> QED BY <1>2, <3>3
  <2> QED BY <2>1, <2>2, <2>3
<1>6. CASE a >= h
  <2>1. PICK len \in Nat : len = ReadU16(bytes, h - 2) BY <1>1, <1>6, LengthRead
  <2>2. n <= h + len - a BY <1>1, <1>6, <2>1 DEF Lacking
  <2>3. ReadU16(more, h - 2) = len BY <1>1, <1>2, <1>6, <2>1, LengthStays, Zenon
  <2>4. Lacking(more, h) = h + len - (a + n) BY <1>4, <1>6, <2>3 DEF Lacking
  <2>5. Lacking(more, h) >= 0 BY <2>2, <2>4
  <2> QED BY <1>2, <2>5
<1> QED BY <1>5, <1>6

\* What is missing, as the lemmas above say it.
LEMMA MissingIsLacking == Missing = Lacking(read_buffer, Header)
BY Zenon DEF Missing, Lacking

\* The receiver's buffer.
LEMMA ReadStep ==
  ASSUME CallOK, StreamOK, ReadOK, [Next]_vars
  PROVE  ReadOK'
<1>1. CASE UNCHANGED <<compressed, read_buffer>> BY <1>1 DEF ReadOK, Missing, Header
<1>2. Header \in {2, 3} BY HeaderSize DEF CallOK
<1>3. CASE read_buffer' = <<>> /\ compressed' = compressed
  <2>1. PICK none : none = <<>> OBVIOUS
  <2>2. none \in Row /\ Len(none) = 0 BY <2>1 DEF Row
  <2>3. Header' = Header BY <1>3 DEF Header
  <2>4. Len(read_buffer') = 0 BY <1>3, <2>1, <2>2
  <2>5. Missing' = Header - 0 BY <1>2, <2>3, <2>4 DEF Missing
  <2>6. Missing' >= 0 BY <1>2, <2>5
  <2> QED BY <1>3, <2>1, <2>2, <2>6 DEF ReadOK
<1>4. ASSUME NEW n \in 1..StreamSize, PollRead(n) PROVE ReadOK'
  <2>1. n \in Nat BY SizesType
  <2>2. stream \in Row /\ n <= Len(stream) BY <1>4 DEF PollRead, StreamOK
  <2>3. PICK part : part = SubSeq(stream, 1, n) OBVIOUS
  <2>4. CutAt(stream, n, part, SubSeq(stream, n + 1, Len(stream)))
    BY <2>1, <2>2, <2>3, RowCut, Zenon
  <2>5. part \in Row /\ Len(part) = n BY <2>4, Zenon DEF CutAt
  <2>6. read_buffer \in Row BY DEF ReadOK
  <2>7. PICK h \in {2, 3} : h = Header BY <1>2
  <2>8. n <= Missing BY <1>4 DEF PollRead
  <2>9. n <= Lacking(read_buffer, h) BY <2>7, <2>8, MissingIsLacking, Zenon
  <2>10. PICK more : more = read_buffer \o part OBVIOUS
  <2>11. Lacking(more, h) >= 0 BY <2>1, <2>5, <2>6, <2>9, <2>10, LackingMore
  <2>12. more \in Row BY <2>5, <2>6, <2>10, RowsJoin, Zenon
  <2>13. read_buffer' = more /\ compressed' = compressed BY <1>4, <2>3, <2>10 DEF PollRead
  <2>14. Missing' = Lacking(more, h)
    <3>1. (Missing = Lacking(read_buffer, Header))' BY MissingIsLacking, PTL
    <3>2. Header' = h BY <2>7, <2>13 DEF Header
    <3>3. Missing' = Lacking(read_buffer', Header') BY <3>1 DEF Lacking
    <3> QED BY <2>13, <3>2, <3>3, Zenon
  <2> QED BY <2>11, <2>12, <2>13, <2>14, Zenon DEF ReadOK
<1>5. ASSUME NEW len \in MessageLens, StartSend(len) PROVE ReadOK'
  BY <1>1, <1>5 DEF StartSend, recvVars
<1>6. CASE StartFlush BY <1>1, <1>6 DEF StartFlush, recvVars
<1>7. ASSUME NEW n \in 1..StreamSize, PollWrite(n) PROVE ReadOK'
  BY <1>1, <1>7 DEF PollWrite, recvVars
<1>8. CASE Cancel BY <1>1, <1>8 DEF Cancel, recvVars
<1>9. CASE LoadChunk BY <1>1, <1>9 DEF LoadChunk, recvVars
<1>10. CASE FinishSendCompressed BY <1>1, <1>10 DEF FinishSendCompressed, recvVars
<1>11. CASE FinishSendPlain BY <1>1, <1>11 DEF FinishSendPlain, recvVars
<1>12. CASE FinishFlush BY <1>1, <1>12 DEF FinishFlush, recvVars
<1>13. CASE FinishFrame BY <1>3, <1>13 DEF FinishFrame
<1>14. CASE FinishChunk
  <2>1. (read_buffer' = <<>> \/ read_buffer' = read_buffer) /\ compressed' = compressed
    BY <1>14 DEF FinishChunk
  <2> QED BY <1>1, <1>3, <2>1
<1>15. CASE TakeMessage BY <1>1, <1>15 DEF TakeMessage
<1>16. CASE UNCHANGED vars BY <1>1, <1>16 DEF vars, recvVars
<1> QED BY <1>4, <1>5, <1>6, <1>7, <1>8, <1>9, <1>10, <1>11, <1>12, <1>13, <1>14, <1>15, <1>16
  DEF Next

\* A complete buffer is the first frame on its way.
LEMMA FrameComplete ==
  ASSUME StateOK, NEW m, Pipe(OnTheWay, m, compressed), Missing = 0
  PROVE  \E group, left : /\ Carries(read_buffer, group, compressed) /\ m = group \o left
                          /\ Pipe(stream \o write_buffer, left, compressed)
<1>1. compressed \in BOOLEAN /\ read_buffer \in Row /\ stream \in Row /\ write_buffer \in Row
  BY DEF StateOK
<1>2. Header = HeaderOf(compressed) /\ Header \in {2, 3} BY <1>1, HeaderSize
<1>3. PICK h \in {2, 3} : h = Header BY <1>2
<1>4. Lacking(read_buffer, h) = 0 BY <1>3, MissingIsLacking, Zenon
<1>5. PICK a \in Nat : a = Len(read_buffer) BY <1>1 DEF Row
<1>6. a >= h
  <2>1. CASE a < h BY <1>4, <1>5, <2>1 DEF Lacking
  <2> QED BY <2>1
<1>7. PICK later \in Row : later = stream \o write_buffer BY <1>1, RowsJoin, Zenon
<1>8. OnTheWay = read_buffer \o later
  <2>1. Associates(read_buffer, stream, write_buffer) BY <1>1, RowsAssociate, Zenon
  <2> QED BY <1>7, <2>1, Zenon DEF Associates, OnTheWay
<1>9. OnTheWay # <<>>
  <2>1. PICK b \in Nat : b = Len(later) BY DEF Row
  <2>2. Joins(OnTheWay, read_buffer, later, a, b) BY <1>1, <1>5, <1>8, <2>1, Joined
  <2>3. Len(OnTheWay) = a + b BY <2>2, Zenon DEF Joins
  <2>4. a + b # 0 /\ Len(<<>>) = 0 BY <1>6
  <2> QED BY <2>3, <2>4, Zenon
<1>10. PICK frame, rest, group, left :
         Begins(OnTheWay, m, compressed, frame, rest, group, left)
  BY <1>9, PipeFirst, Zenon
<1>11. /\ Carries(frame, group, compressed) /\ OnTheWay = frame \o rest /\ m = group \o left
       /\ Pipe(rest, left, compressed)
  BY <1>10, Zenon DEF Begins
<1>12. PICK n \in Nat : Measured(frame, compressed, n) BY <1>1, <1>11, FrameMeasured, Zenon
<1>13. frame \in Row /\ Len(frame) = h + n /\ ReadU16(frame, h - 2) = n
  BY <1>2, <1>3, <1>12, Zenon DEF Measured
<1>14. rest \in Row BY <1>11, PipeTypes, Zenon
<1>15. ReadU16(OnTheWay, h - 2) = ReadU16(frame, h - 2)
  <2>1. h + n >= h OBVIOUS
  <2>2. Len(frame) >= h BY <1>13, <2>1, Zenon
  <2> QED BY <1>11, <1>13, <1>14, <2>2, LengthStays, Zenon
<1>16. ReadU16(OnTheWay, h - 2) = ReadU16(read_buffer, h - 2)
  <2>1. Len(read_buffer) >= h BY <1>5, <1>6, Zenon
  <2> QED BY <1>1, <1>8, <2>1, LengthStays, Zenon
<1>17. ReadU16(read_buffer, h - 2) = n BY <1>13, <1>15, <1>16, Zenon
<1>18. a = h + n
  <2>1. Lacking(read_buffer, h) = h + n - a BY <1>5, <1>6, <1>17 DEF Lacking
  <2> QED BY <1>4, <2>1
<1>19. read_buffer = frame /\ later = rest
  <2>1. Len(read_buffer) = Len(frame) BY <1>5, <1>13, <1>18, Zenon
  <2>2. read_buffer \o later = frame \o rest BY <1>8, <1>11, Zenon
  <2> QED BY <1>1, <1>13, <1>14, <2>1, <2>2, OneCut, Zenon
<1> QED BY <1>7, <1>11, <1>19, Zenon

\* The length in a header is at most MAX_MESSAGE_LEN.
LEMMA MissingBounded ==
  ASSUME StateOK, NEW m, Pipe(OnTheWay, m, compressed)
  PROVE  Missing \in 0..(Header + MaxMessageLen)
<1>1. compressed \in BOOLEAN /\ read_buffer \in Row /\ stream \in Row /\ write_buffer \in Row
      /\ Missing >= 0
  BY DEF StateOK
<1>2. Header = HeaderOf(compressed) /\ Header \in {2, 3} BY <1>1, HeaderSize
<1>3. PICK h \in {2, 3} : h = Header BY <1>2
<1>4. Missing = Lacking(read_buffer, h) BY <1>3, MissingIsLacking, Zenon
<1>5. PICK a \in Nat : a = Len(read_buffer) BY <1>1 DEF Row
<1>6. CASE a < h
  <2>1. Lacking(read_buffer, h) = h - a BY <1>5, <1>6 DEF Lacking
  <2> QED BY <1>3, <1>4, <1>6, <2>1, SizesType
<1>7. CASE a >= h
  <2>1. PICK later \in Row : later = stream \o write_buffer BY <1>1, RowsJoin, Zenon
  <2>2. OnTheWay = read_buffer \o later
    <3>1. Associates(read_buffer, stream, write_buffer) BY <1>1, RowsAssociate, Zenon
    <3> QED BY <2>1, <3>1, Zenon DEF Associates, OnTheWay
  <2>3. Len(read_buffer) >= h BY <1>5, <1>7
  <2>4. /\ ReadU16(OnTheWay, h - 2) = ReadU16(read_buffer, h - 2)
        /\ Len(OnTheWay) >= h
    BY <1>1, <2>2, <2>3, LengthStays, Zenon
  <2>5. OnTheWay # <<>>
    <3>1. ~(0 >= h) /\ Len(<<>>) = 0 OBVIOUS
    <3> QED BY <2>4, <3>1, Zenon
  <2>6. PICK frame, rest, group, left :
          Begins(OnTheWay, m, compressed, frame, rest, group, left)
    BY <2>5, PipeFirst, Zenon
  <2>7. /\ Carries(frame, group, compressed) /\ OnTheWay = frame \o rest
        /\ Pipe(rest, left, compressed)
    BY <2>6, Zenon DEF Begins
  <2>8. PICK n \in Nat : Measured(frame, compressed, n) BY <1>1, <2>7, FrameMeasured, Zenon
  <2>9. /\ frame \in Row /\ Len(frame) = h + n /\ ReadU16(frame, h - 2) = n
        /\ n <= MaxMessageLen
    BY <1>2, <1>3, <2>8, Zenon DEF Measured
  <2>10. rest \in Row BY <2>7, PipeTypes, Zenon
  <2>11. ReadU16(OnTheWay, h - 2) = ReadU16(frame, h - 2)
    <3>1. h + n >= h OBVIOUS
    <3>2. Len(frame) >= h BY <2>9, <3>1, Zenon
    <3> QED BY <2>7, <2>9, <2>10, <3>2, LengthStays, Zenon
  <2>12. ReadU16(read_buffer, h - 2) = n BY <2>4, <2>9, <2>11, Zenon
  <2>13. Lacking(read_buffer, h) = h + n - a BY <1>5, <1>7, <2>12 DEF Lacking
  <2> QED BY <1>1, <1>3, <1>4, <1>7, <2>9, <2>13, SizesType
<1> QED BY <1>6, <1>7

\* The receiver's chunk.
LEMMA ChunkStep ==
  ASSUME StateOK, PipeInv, [Next]_vars
  PROVE  ChunkOK'
<1> USE DEF recvVars
<1>0. ChunkOK BY StateParts, Zenon
<1>1. CASE UNCHANGED <<compressed, recv_chunk>> BY <1>0, <1>1 DEF ChunkOK
<1>2. CASE FinishChunk
  <2>1. compressed = TRUE /\ Missing = 0 BY <1>2 DEF FinishChunk, StateOK
  <2>2. PICK m : Pipe(OnTheWay, m, compressed) BY Zenon DEF PipeInv
  <2>3. PICK group : Carries(read_buffer, group, compressed) BY <2>1, <2>2, FrameComplete, Zenon
  <2>4. Carries(read_buffer, group, TRUE) BY <2>1, <2>3, Zenon
  <2>5. PICK chunk : chunk = ChunkOf(read_buffer) OBVIOUS
  <2>6. chunk \in Row /\ Len(chunk) <= MaxMessageLen BY <2>4, <2>5, ChunkCarries, Zenon
  <2>7. recv_chunk' = chunk /\ compressed' = TRUE
    BY <1>2, <2>1, <2>5, <2>6, Zenon DEF FinishChunk
  <2> QED BY <2>6, <2>7 DEF ChunkOK
<1>3. CASE TakeMessage
  <2>1. recv_chunk \in Row /\ recv_chunk # <<>> /\ Len(recv_chunk) <= MaxMessageLen
    BY <1>0, <1>3 DEF ChunkOK, TakeMessage
  <2>2. PICK r : Packed(recv_chunk, r) BY Zenon DEF PipeInv
  <2>3. PICK n \in Nat : n = r[1] /\ n <= Len(recv_chunk) /\ MessageLen(recv_chunk) = n
    BY <2>1, <2>2, PackedFirst, Zenon
  <2>4. PICK rest : rest = SubSeq(recv_chunk, n + 1, Len(recv_chunk)) OBVIOUS
  <2>5. CutAt(recv_chunk, n, SubSeq(recv_chunk, 1, n), rest) BY <2>1, <2>3, <2>4, RowCut, Zenon
  <2>6. rest \in Row /\ Len(rest) <= Len(recv_chunk) BY <2>5, Zenon DEF CutAt
  <2>7. Len(rest) <= MaxMessageLen
    <3>1. Len(rest) \in Nat /\ Len(recv_chunk) \in Nat BY <2>1, <2>6 DEF Row
    <3> QED BY <2>1, <2>6, <3>1, SizesType
  <2>8. recv_chunk' = rest /\ compressed' = compressed
    <3>1. SubSeq(recv_chunk, 1, n) = Message(n) BY <2>1, <2>2, <2>3, PackedFirst, Zenon
    <3>2. Decodes(SubSeq(recv_chunk, 1, n)) BY <3>1, MessageDecoded, Zenon
    <3>3. /\ recv_chunk' = IF Decodes(SubSeq(recv_chunk, 1, n)) THEN rest ELSE recv_chunk
          /\ compressed' = compressed
      BY <1>3, <2>3, <2>4 DEF TakeMessage
    <3> QED BY <3>2, <3>3, Zenon
  <2>9. compressed BY <1>0, <2>1 DEF ChunkOK
  <2> QED BY <2>6, <2>7, <2>8, <2>9 DEF ChunkOK
<1>4. ASSUME NEW len \in MessageLens, StartSend(len) PROVE ChunkOK' BY <1>1, <1>4 DEF StartSend
<1>5. CASE StartFlush BY <1>1, <1>5 DEF StartFlush
<1>6. ASSUME NEW n \in 1..StreamSize, PollWrite(n) \/ PollRead(n) PROVE ChunkOK'
  BY <1>1, <1>6 DEF PollWrite, PollRead
<1>7. CASE Cancel BY <1>1, <1>7 DEF Cancel
<1>8. CASE LoadChunk BY <1>1, <1>8 DEF LoadChunk
<1>9. CASE FinishSendCompressed BY <1>1, <1>9 DEF FinishSendCompressed
<1>10. CASE FinishSendPlain BY <1>1, <1>10 DEF FinishSendPlain
<1>11. CASE FinishFlush BY <1>1, <1>11 DEF FinishFlush
<1>12. CASE FinishFrame BY <1>1, <1>12 DEF FinishFrame
<1>13. CASE UNCHANGED vars BY <1>1, <1>13 DEF vars
<1> QED BY <1>2, <1>3, <1>4, <1>5, <1>6, <1>7, <1>8, <1>9, <1>10, <1>11, <1>12, <1>13 DEF Next

\* The state stays as it should be.
LEMMA StateStep ==
  ASSUME IInv, [Next]_vars
  PROVE  StateOK'
<1>1. StateOK /\ PipeInv BY Zenon DEF IInv
<1>2. CallOK /\ WriteOK /\ StreamOK /\ ChunkOK /\ ReadOK BY <1>1, StateParts, Zenon
<1>3. CallOK' BY <1>2, CallStep
<1>4. WriteOK' BY <1>2, WriteStep
<1>5. StreamOK' BY <1>2, StreamStep
<1>6. ChunkOK' BY <1>1, ChunkStep
<1>7. ReadOK' BY <1>2, ReadStep
<1>8. (StateOK <=> CallOK /\ WriteOK /\ StreamOK /\ ChunkOK /\ ReadOK)' BY StateParts, PTL
<1> QED BY <1>3, <1>4, <1>5, <1>6, <1>7, <1>8

----------------------------------------------------------------------------
(* The messages, step by step. *)

\* Nothing has been sent.
LEMMA InitPipe == ASSUME Init PROVE PipeInv
<1>1. PICK none \in Row : none = <<>> /\ none \o none = none
  <2>0. <<>> \in Row BY DEF Row
  <2>1. PICK row \in Row : row = <<>> BY <2>0, Zenon
  <2>2. row \o row = row BY <2>1, RowsJoin, Zenon
  <2> QED BY <2>1, <2>2, Zenon
<1>2. framed = none /\ delivered = none /\ recv_chunk = none /\ send_chunk = none
      /\ read_buffer = none /\ stream = none /\ write_buffer = none
  BY <1>1, Zenon DEF Init
<1>3. Lines(framed, delivered, none, none, none) BY <1>1, <1>2, Zenon DEF Lines
<1>4. Packed(recv_chunk, none) /\ Packed(send_chunk, none) BY <1>1, <1>2, PackedNothing, Zenon
<1>5. OnTheWay = none BY <1>1, <1>2, Zenon DEF OnTheWay
<1>6. Pipe(OnTheWay, none, compressed) BY <1>1, <1>5, PipeNothing, Zenon
<1> QED BY <1>3, <1>4, <1>6, Zenon DEF PipeInv

\* The parts of the invariant for these groups of messages.
Holds(r, m, s) ==
  /\ Lines(framed, delivered, r, m, s)
  /\ Packed(recv_chunk, r) /\ Packed(send_chunk, s)
  /\ Pipe(OnTheWay, m, compressed)

\* The bytes on their way are those that arrive and those that leave.
LEMMA WayJoins ==
  ASSUME StateOK
  PROVE  /\ read_buffer \in Row /\ stream \in Row /\ write_buffer \in Row
         /\ OnTheWay = read_buffer \o (stream \o write_buffer)
         /\ OnTheWay = (read_buffer \o stream) \o write_buffer
<1>1. read_buffer \in Row /\ stream \in Row /\ write_buffer \in Row BY DEF StateOK
<1>2. Associates(read_buffer, stream, write_buffer) BY <1>1, RowsAssociate, Zenon
<1> QED BY <1>1, <1>2, Zenon DEF Associates, OnTheWay

\* Bytes go from the write buffer to the stream.
LEMMA PollWriteMoves ==
  ASSUME StateOK, NEW n \in 1..StreamSize, PollWrite(n)
  PROVE  OnTheWay' = OnTheWay
<1>1. read_buffer \in Row /\ stream \in Row /\ write_buffer \in Row
      /\ OnTheWay = (read_buffer \o stream) \o write_buffer
  BY WayJoins, Zenon
<1>2. n \in Nat BY SizesType
<1>3. n <= Len(write_buffer) BY DEF PollWrite
<1>4. PICK part : part = SubSeq(write_buffer, 1, n) OBVIOUS
<1>5. PICK rest : rest = SubSeq(write_buffer, n + 1, Len(write_buffer)) OBVIOUS
<1>6. CutAt(write_buffer, n, part, rest) BY <1>1, <1>2, <1>3, <1>4, <1>5, RowCut, Zenon
<1>7. part \in Row /\ rest \in Row /\ part \o rest = write_buffer BY <1>6, Zenon DEF CutAt
<1>8. stream' = stream \o part /\ write_buffer' = rest /\ read_buffer' = read_buffer
  BY <1>4, <1>5 DEF PollWrite, recvVars
<1>9. PICK before \in Row : before = read_buffer \o stream BY <1>1, RowsJoin, Zenon
<1>10. Associates(read_buffer, stream, part) BY <1>1, <1>7, RowsAssociate, Zenon
<1>11. Associates(before, part, rest) BY <1>7, RowsAssociate, Zenon
<1>12. OnTheWay' = (read_buffer \o (stream \o part)) \o rest BY <1>8, Zenon DEF OnTheWay
<1>13. OnTheWay' = (before \o part) \o rest BY <1>9, <1>10, <1>12, Zenon DEF Associates
<1>14. OnTheWay' = before \o (part \o rest) BY <1>11, <1>13, Zenon DEF Associates
<1> QED BY <1>1, <1>7, <1>9, <1>14, Zenon

\* Bytes go from the stream to the read buffer.
LEMMA PollReadMoves ==
  ASSUME StateOK, NEW n \in 1..StreamSize, PollRead(n)
  PROVE  OnTheWay' = OnTheWay
<1>1. read_buffer \in Row /\ stream \in Row /\ OnTheWay = (read_buffer \o stream) \o write_buffer
  BY WayJoins, Zenon
<1>2. n \in Nat BY SizesType
<1>3. n <= Len(stream) BY DEF PollRead
<1>4. PICK part : part = SubSeq(stream, 1, n) OBVIOUS
<1>5. PICK rest : rest = SubSeq(stream, n + 1, Len(stream)) OBVIOUS
<1>6. CutAt(stream, n, part, rest) BY <1>1, <1>2, <1>3, <1>4, <1>5, RowCut, Zenon
<1>7. part \in Row /\ rest \in Row /\ part \o rest = stream BY <1>6, Zenon DEF CutAt
<1>8. read_buffer' = read_buffer \o part /\ stream' = rest /\ write_buffer' = write_buffer
  BY <1>4, <1>5 DEF PollRead, sendVars
<1>9. Associates(read_buffer, part, rest) BY <1>1, <1>7, RowsAssociate, Zenon
<1>10. OnTheWay' = ((read_buffer \o part) \o rest) \o write_buffer BY <1>8, Zenon DEF OnTheWay
<1> QED BY <1>1, <1>7, <1>9, <1>10, Zenon DEF Associates

\* A frame is put into the empty write buffer.
LEMMA FrameAdded ==
  ASSUME StateOK, NEW m, Pipe(OnTheWay, m, compressed), write_buffer = <<>>,
         NEW frame, NEW group, Carries(frame, group, compressed),
         write_buffer' = frame, UNCHANGED <<read_buffer, stream, compressed>>
  PROVE  Pipe(OnTheWay', m \o group, compressed')
<1>1. read_buffer \in Row /\ stream \in Row /\ OnTheWay = (read_buffer \o stream) \o write_buffer
  BY WayJoins, Zenon
<1>2. PICK before \in Row : before = read_buffer \o stream BY <1>1, RowsJoin, Zenon
<1>3. OnTheWay = before
  <2>1. before \o <<>> = before BY <1>2, RowsJoin, Zenon
  <2> QED BY <1>1, <1>2, <2>1, Zenon
<1>4. OnTheWay' = before \o frame BY <1>2, Zenon DEF OnTheWay
<1>5. compressed \in BOOLEAN BY DEF StateOK
<1>6. Pipe(before \o frame, m \o group, compressed) BY <1>3, <1>5, PipeMore, Zenon
<1> QED BY <1>4, <1>6, Zenon

\* The chunk leaves the sender as one frame.
LEMMA LoadChunkPipe ==
  ASSUME StateOK, NEW r, NEW m, NEW s, Holds(r, m, s), LoadChunk
  PROVE  Holds(r, m \o s, <<>>)'
<1>1. /\ Lines(framed, delivered, r, m, s) /\ Packed(recv_chunk, r) /\ Packed(send_chunk, s)
      /\ Pipe(OnTheWay, m, compressed)
  BY Zenon DEF Holds
<1>2. send_chunk # <<>> /\ send_chunk \in Row /\ Len(send_chunk) <= MaxMessageLen
  BY DEF LoadChunk, StateOK
<1>3. compressed = TRUE BY <1>2 DEF StateOK
<1>4. write_buffer = <<>> BY <1>3 DEF LoadChunk, Draining
<1>5. PICK frame : frame = ChunkFrame(send_chunk) OBVIOUS
<1>6. Carries(frame, s, compressed) BY <1>1, <1>2, <1>3, <1>5, Zenon DEF Carries
<1>7. /\ write_buffer' = frame /\ send_chunk' = <<>>
      /\ UNCHANGED <<compressed, framed, delivered, stream, read_buffer, recv_chunk>>
  BY <1>5 DEF LoadChunk, recvVars
<1>8. Pipe(OnTheWay', m \o s, compressed') BY <1>1, <1>4, <1>6, <1>7, FrameAdded
<1>9. Lines(framed, delivered, r, m \o s, <<>>) BY <1>1, LineLoad, Zenon
<1>10. framed' = framed /\ delivered' = delivered /\ recv_chunk' = recv_chunk BY <1>7
<1>11. Packed(send_chunk', <<>>) BY <1>7, PackedNothing, Zenon
<1> QED BY <1>1, <1>8, <1>9, <1>10, <1>11, Zenon DEF Holds

\* A message is added to the chunk.
LEMMA SendCompressedPipe ==
  ASSUME StateOK, NEW r, NEW m, NEW s, Holds(r, m, s), FinishSendCompressed, call.len # 0
  PROVE  \E n \in 0..MaxMessageLen :
           /\ Holds(r, m, Append(s, n))'
           /\ framed' = Append(framed, n) /\ delivered' = delivered
<1>1. /\ Lines(framed, delivered, r, m, s) /\ Packed(recv_chunk, r) /\ Packed(send_chunk, s)
      /\ Pipe(OnTheWay, m, compressed)
  BY Zenon DEF Holds
<1>2. PICK n \in Nat : n = call.len /\ n >= 1 /\ n <= MaxMessageLen
  BY DEF FinishSendCompressed, StateOK
<1>3. /\ send_chunk' = send_chunk \o Message(n) /\ framed' = Append(framed, n)
      /\ UNCHANGED <<compressed, delivered, stream, read_buffer, recv_chunk, write_buffer>>
  BY <1>2 DEF FinishSendCompressed, recvVars
<1>4. delivered' = delivered /\ recv_chunk' = recv_chunk /\ compressed' = compressed BY <1>3
<1>5. OnTheWay' = OnTheWay BY <1>3 DEF OnTheWay
<1>6. Lines(Append(framed, n), delivered, r, m, Append(s, n)) BY <1>1, LineSend, Zenon
<1>7. Packed(send_chunk \o Message(n), Append(s, n)) BY <1>1, <1>2, PackedMore, Zenon
<1>8. Holds(r, m, Append(s, n))' BY <1>1, <1>3, <1>4, <1>5, <1>6, <1>7, Zenon DEF Holds
<1>9. n \in 0..MaxMessageLen BY <1>2, SizesType
<1> QED BY <1>3, <1>4, <1>8, <1>9, Zenon

\* A message of no bytes leaves no trace.
LEMMA SendNothing ==
  ASSUME StateOK, FinishSendCompressed, call.len = 0
  PROVE  UNCHANGED <<compressed, framed, delivered, send_chunk, recv_chunk, read_buffer,
                     stream, write_buffer>>
<1>1. send_chunk \in Row BY DEF StateOK
<1>2. Message(0) = <<>> BY MessageRow
<1>3. send_chunk \o Message(0) = send_chunk BY <1>1, <1>2, RowsJoin, Zenon
<1>4. send_chunk' = send_chunk \o Message(0) BY Zenon DEF FinishSendCompressed
<1>5. send_chunk' = send_chunk BY <1>3, <1>4, Zenon
<1> QED BY <1>5 DEF FinishSendCompressed, recvVars

\* The message, or the header of one that was refused, becomes a frame.
LEMMA SendPlainPipe ==
  ASSUME StateOK, NEW r, NEW m, NEW s, Holds(r, m, s), FinishSendPlain
  PROVE  \E n \in 0..MaxMessageLen :
           /\ Holds(r, m \o <<n>>, <<>>)'
           /\ framed' = Append(framed, n) /\ delivered' = delivered
<1>1. /\ Lines(framed, delivered, r, m, s) /\ Packed(recv_chunk, r) /\ Packed(send_chunk, s)
      /\ Pipe(OnTheWay, m, compressed)
  BY Zenon DEF Holds
<1>2. compressed = FALSE /\ send_chunk = <<>> /\ write_buffer = <<>>
  BY DEF FinishSendPlain, StateOK, Draining
<1>3. s = <<>> BY <1>1, <1>2, PackedTypes, Zenon
<1>4. PICK n \in 0..MaxMessageLen : /\ write_buffer' = PlainFrame(Message(n))
                                    /\ framed' = Append(framed, n)
  <2>1. CASE /\ call.len <= MaxMessageLen
             /\ write_buffer' = PlainFrame(Message(call.len))
             /\ framed' = Append(framed, call.len)
    <3>1. call.len \in 0..MaxMessageLen BY <2>1, SizesType DEF StateOK
    <3> QED BY <2>1, <3>1, Zenon
  <2>2. CASE write_buffer' = WriteU16(0) /\ framed' = Append(framed, 0)
    <3>1. 0 \in 0..MaxMessageLen /\ 0 \in Nat BY SizesType
    <3>2. PICK head \in Row : head = WriteU16(0) BY <3>1, LengthKept, Zenon
    <3>3. Message(0) = <<>> /\ Len(Message(0)) = 0 BY <3>1, MessageRow
    <3>4. head \o <<>> = head BY RowsJoin, Zenon
    <3>5. PlainFrame(Message(0)) = WriteU16(0) BY <3>2, <3>3, <3>4, Zenon DEF PlainFrame
    <3> QED BY <2>2, <3>1, <3>5, Zenon
  <2> QED BY <2>1, <2>2 DEF FinishSendPlain
<1>5. n \in Nat BY SizesType
<1>6. UNCHANGED <<compressed, send_chunk, delivered, stream, read_buffer, recv_chunk>>
  BY DEF FinishSendPlain, recvVars
<1>7. PICK frame : frame = PlainFrame(Message(n)) OBVIOUS
<1>8. PICK group : group = <<n>> OBVIOUS
<1>9. Carries(frame, group, compressed) BY <1>2, <1>7, <1>8, Zenon DEF Carries
<1>10. Pipe(OnTheWay', m \o group, compressed')
  BY <1>1, <1>2, <1>4, <1>6, <1>7, <1>9, FrameAdded
<1>11. Append(s, n) = group BY <1>3, <1>8
<1>12. Lines(Append(framed, n), delivered, r, m, group) BY <1>1, <1>5, <1>11, LineSend, Zenon
<1>13. Lines(Append(framed, n), delivered, r, m \o group, <<>>) BY <1>12, LineLoad, Zenon
<1>14. delivered' = delivered /\ recv_chunk' = recv_chunk /\ send_chunk' = <<>> BY <1>2, <1>6
<1>15. Packed(send_chunk', <<>>) BY <1>14, PackedNothing, Zenon
<1>16. Holds(r, m \o group, <<>>)' BY <1>1, <1>4, <1>10, <1>13, <1>14, <1>15, Zenon DEF Holds
<1> QED BY <1>4, <1>8, <1>14, <1>16, Zenon

\* The next message of the queue is delivered.
Delivers ==
  /\ Len(delivered) < Len(framed) /\ delivered' = Append(delivered, framed[Len(delivered) + 1])
  /\ framed' = framed

\* What is on its way when the read buffer has been emptied.
LEMMA FrameTaken ==
  ASSUME StateOK, read_buffer' = <<>>, UNCHANGED <<stream, write_buffer>>
  PROVE  OnTheWay' = stream \o write_buffer
<1>1. stream \in Row BY DEF StateOK
<1>2. <<>> \o stream = stream BY <1>1, RowsJoin, Zenon
<1> QED BY <1>2, Zenon DEF OnTheWay

\* A frame of the plain channel is delivered.
LEMMA FinishFramePipe ==
  ASSUME StateOK, NEW r, NEW m, NEW s, Holds(r, m, s), FinishFrame
  PROVE  Delivers /\ \E left : Holds(<<>>, left, s)'
<1>1. /\ Lines(framed, delivered, r, m, s) /\ Packed(recv_chunk, r) /\ Packed(send_chunk, s)
      /\ Pipe(OnTheWay, m, compressed)
  BY Zenon DEF Holds
<1>2. compressed = FALSE /\ recv_chunk = <<>> /\ Missing = 0 BY DEF FinishFrame, StateOK
<1>3. r = <<>> BY <1>1, <1>2, PackedTypes, Zenon
<1>4. PICK group, left : /\ Carries(read_buffer, group, compressed) /\ m = group \o left
                         /\ Pipe(stream \o write_buffer, left, compressed)
  BY <1>1, <1>2, FrameComplete, Zenon
<1>5. Carries(read_buffer, group, FALSE) BY <1>2, <1>4, Zenon
<1>6. PICK n \in Nat : group = <<n>> /\ SubSeq(read_buffer, 3, Len(read_buffer)) = Message(n)
  BY <1>5, PlainCarries, Zenon
<1>7. group \in Row /\ left \in Row
  <2>1. left \in Row BY <1>4, PipeTypes, Zenon
  <2>2. group \in Row BY <1>5, FrameMeasured, Zenon
  <2> QED BY <2>1, <2>2
<1>8. Lines(framed, delivered, group, left, s) BY <1>1, <1>3, <1>4, <1>7, LineArrive, Zenon
<1>9. group # <<>> /\ group[1] = n /\ Tail(group) = <<>> BY <1>6
<1>10. /\ Lines(framed, Append(delivered, n), <<>>, left, s)
       /\ Len(delivered) < Len(framed) /\ framed[Len(delivered) + 1] = n
  <2>1. /\ Lines(framed, Append(delivered, group[1]), Tail(group), left, s)
        /\ Len(delivered) < Len(framed) /\ framed[Len(delivered) + 1] = group[1]
    BY <1>8, <1>9, LineTake, Zenon
  <2> QED BY <1>9, <2>1, Zenon
<1>11. PICK body : body = SubSeq(read_buffer, PlainHeader + 1, Len(read_buffer)) OBVIOUS
<1>12. body = Message(n)
  <2>1. PlainHeader + 1 = 3 BY DEF PlainHeader
  <2> QED BY <1>6, <1>11, <2>1, Zenon
<1>13. (IF Decodes(body) THEN Len(body) ELSE Error) = n BY <1>12, MessageDecoded, Zenon
<1>14. /\ delivered' = Append(delivered, IF Decodes(body) THEN Len(body) ELSE Error)
       /\ read_buffer' = <<>>
       /\ UNCHANGED <<compressed, framed, send_chunk, write_buffer, stream, recv_chunk>>
  BY <1>11 DEF FinishFrame, sendVars
<1>15. delivered' = Append(delivered, n) /\ framed' = framed BY <1>13, <1>14, Zenon
<1>16. send_chunk' = send_chunk /\ recv_chunk' = <<>> /\ compressed' = compressed
  BY <1>2, <1>14
<1>17. OnTheWay' = stream \o write_buffer BY <1>14, FrameTaken
<1>18. Packed(recv_chunk', <<>>) BY <1>16, PackedNothing, Zenon
<1>19. Holds(<<>>, left, s)'
  BY <1>1, <1>4, <1>10, <1>15, <1>16, <1>17, <1>18, Zenon DEF Holds
<1>20. Delivers BY <1>10, <1>15, Zenon DEF Delivers
<1> QED BY <1>19, <1>20, Zenon

\* A frame of the compressed channel becomes the receiver's chunk.
LEMMA FinishChunkPipe ==
  ASSUME StateOK, NEW r, NEW m, NEW s, Holds(r, m, s), FinishChunk
  PROVE  /\ \E group, left : Holds(group, left, s)'
         /\ framed' = framed /\ delivered' = delivered
<1>1. /\ Lines(framed, delivered, r, m, s) /\ Packed(recv_chunk, r) /\ Packed(send_chunk, s)
      /\ Pipe(OnTheWay, m, compressed)
  BY Zenon DEF Holds
<1>2. compressed = TRUE /\ recv_chunk = <<>> /\ Missing = 0 BY DEF FinishChunk, StateOK
<1>3. r = <<>> BY <1>1, <1>2, PackedTypes, Zenon
<1>4. PICK group, left : /\ Carries(read_buffer, group, compressed) /\ m = group \o left
                         /\ Pipe(stream \o write_buffer, left, compressed)
  BY <1>1, <1>2, FrameComplete, Zenon
<1>5. Carries(read_buffer, group, TRUE) BY <1>2, <1>4, Zenon
<1>6. Packed(ChunkOf(read_buffer), group) BY <1>5, ChunkCarries, Zenon
<1>7. group \in Row /\ left \in Row
  <2>1. left \in Row BY <1>4, PipeTypes, Zenon
  <2>2. group \in Row BY <1>6, PackedTypes, Zenon
  <2> QED BY <2>1, <2>2
<1>8. Lines(framed, delivered, group, left, s) BY <1>1, <1>3, <1>4, <1>7, LineArrive, Zenon
<1>9. /\ recv_chunk' = ChunkOf(read_buffer) /\ read_buffer' = <<>>
      /\ UNCHANGED <<compressed, framed, send_chunk, write_buffer, stream, delivered>>
  <2>1. PICK chunk : chunk = ChunkOf(read_buffer) OBVIOUS
  <2>2. Len(chunk) <= MaxMessageLen BY <1>5, <2>1, ChunkCarries, Zenon
  <2>3. recv_chunk' = chunk /\ read_buffer' = <<>> /\ delivered' = delivered
    BY <2>1, <2>2, Zenon DEF FinishChunk
  <2>4. UNCHANGED <<compressed, framed, send_chunk, write_buffer, stream>>
    BY DEF FinishChunk, sendVars
  <2> QED BY <2>1, <2>3, <2>4
<1>10. framed' = framed /\ delivered' = delivered /\ send_chunk' = send_chunk
       /\ compressed' = compressed
  BY <1>9
<1>11. OnTheWay' = stream \o write_buffer BY <1>9, FrameTaken
<1>12. Holds(group, left, s)' BY <1>1, <1>4, <1>6, <1>8, <1>9, <1>10, <1>11, Zenon DEF Holds
<1> QED BY <1>10, <1>12, Zenon

\* The message at the front of the receiver's chunk is delivered.
LEMMA TakeMessagePipe ==
  ASSUME StateOK, NEW r, NEW m, NEW s, Holds(r, m, s), TakeMessage
  PROVE  Delivers /\ Holds(Tail(r), m, s)'
<1>1. /\ Lines(framed, delivered, r, m, s) /\ Packed(recv_chunk, r) /\ Packed(send_chunk, s)
      /\ Pipe(OnTheWay, m, compressed)
  BY Zenon DEF Holds
<1>2. recv_chunk # <<>> BY DEF TakeMessage
<1>3. PICK n \in Nat : n = r[1] BY <1>1, <1>2, PackedFirst, Zenon
<1>4. /\ r # <<>> /\ MessageLen(recv_chunk) = n
      /\ SubSeq(recv_chunk, 1, n) = Message(n)
      /\ Packed(SubSeq(recv_chunk, n + 1, Len(recv_chunk)), Tail(r))
  BY <1>1, <1>2, <1>3, PackedFirst, Zenon
<1>5. /\ Lines(framed, Append(delivered, n), Tail(r), m, s)
      /\ Len(delivered) < Len(framed) /\ framed[Len(delivered) + 1] = n
  BY <1>1, <1>3, <1>4, LineTake, Zenon
<1>6. PICK msg : msg = SubSeq(recv_chunk, 1, n) OBVIOUS
<1>7. Decodes(msg)
  <2>1. msg = Message(n) BY <1>4, <1>6, Zenon
  <2> QED BY <2>1, MessageDecoded, Zenon
<1>8. /\ delivered' = Append(delivered, IF Decodes(msg) THEN n ELSE Error)
      /\ recv_chunk' = SubSeq(recv_chunk, n + 1, Len(recv_chunk))
  <2>1. /\ delivered' = Append(delivered, IF Decodes(msg) THEN n ELSE Error)
        /\ recv_chunk' = IF Decodes(msg) THEN SubSeq(recv_chunk, n + 1, Len(recv_chunk))
                         ELSE recv_chunk
    BY <1>4, <1>6, Zenon DEF TakeMessage
  <2> QED BY <1>7, <2>1, Zenon
<1>9. UNCHANGED <<compressed, framed, send_chunk, write_buffer, stream, read_buffer>>
  BY DEF TakeMessage, sendVars
<1>10. framed' = framed /\ send_chunk' = send_chunk /\ compressed' = compressed BY <1>9
<1>11. OnTheWay' = OnTheWay BY <1>9 DEF OnTheWay
<1>12. delivered' = Append(delivered, n) BY <1>7, <1>8, Zenon
<1>13. Holds(Tail(r), m, s)'
  BY <1>1, <1>4, <1>5, <1>8, <1>10, <1>11, <1>12, Zenon DEF Holds
<1>14. Delivers BY <1>5, <1>10, <1>12, Zenon DEF Delivers
<1> QED BY <1>13, <1>14, Zenon

\* A message is accepted.
Accepts ==
  \E n \in 0..MaxMessageLen : framed' = Append(framed, n) /\ delivered' = delivered

\* Every step keeps the messages in order, and accepts or delivers at most one.
LEMMA PipeStep ==
  ASSUME IInv, [Next]_vars
  PROVE  PipeInv' /\ (Accepts \/ Delivers \/ UNCHANGED <<framed, delivered>>)
<1>1. StateOK BY Zenon DEF IInv
<1>2. PICK r, m, s : Holds(r, m, s) BY Zenon DEF IInv, PipeInv, Holds
<1>3. /\ Lines(framed, delivered, r, m, s) /\ Packed(recv_chunk, r) /\ Packed(send_chunk, s)
      /\ Pipe(OnTheWay, m, compressed)
  BY <1>2, Zenon DEF Holds
<1>4. ASSUME NEW a, NEW b, NEW c, Holds(a, b, c)' PROVE PipeInv' BY <1>4, Zenon DEF Holds, PipeInv
<1>5. CASE /\ OnTheWay' = OnTheWay
           /\ UNCHANGED <<compressed, framed, delivered, send_chunk, recv_chunk>>
  <2>1. compressed' = compressed /\ framed' = framed /\ delivered' = delivered
        /\ send_chunk' = send_chunk /\ recv_chunk' = recv_chunk
    BY <1>5
  <2>2. Holds(r, m, s)' BY <1>3, <1>5, <2>1, Zenon DEF Holds
  <2>3. PipeInv' BY <1>4, <2>2, Zenon
  <2> QED BY <2>1, <2>3
<1>6. CASE UNCHANGED <<compressed, framed, delivered, send_chunk, recv_chunk, read_buffer,
                       stream, write_buffer>>
  <2>1. OnTheWay' = OnTheWay BY <1>6 DEF OnTheWay
  <2> QED BY <1>5, <1>6, <2>1
<1>7. ASSUME NEW len \in MessageLens, StartSend(len)
      PROVE  UNCHANGED <<compressed, framed, delivered, send_chunk, recv_chunk, read_buffer,
                         stream, write_buffer>>
  BY <1>7 DEF StartSend, recvVars
<1>8. CASE StartFlush BY <1>6, <1>8 DEF StartFlush, recvVars
<1>9. ASSUME NEW n \in 1..StreamSize, PollWrite(n) \/ PollRead(n)
      PROVE  /\ OnTheWay' = OnTheWay
             /\ UNCHANGED <<compressed, framed, delivered, send_chunk, recv_chunk>>
  <2>1. OnTheWay' = OnTheWay BY <1>1, <1>9, PollWriteMoves, PollReadMoves
  <2>2. UNCHANGED <<compressed, framed, delivered, send_chunk, recv_chunk>>
    BY <1>9 DEF PollWrite, PollRead, sendVars, recvVars
  <2> QED BY <2>1, <2>2
<1>10. CASE Cancel BY <1>6, <1>10 DEF Cancel, recvVars
<1>11. CASE LoadChunk
  <2>1. PipeInv' BY <1>1, <1>2, <1>4, <1>11, LoadChunkPipe, Zenon
  <2>2. UNCHANGED <<framed, delivered>> BY <1>11 DEF LoadChunk, recvVars
  <2> QED BY <2>1, <2>2
<1>12. CASE FinishSendCompressed
  <2>1. CASE call.len = 0 BY <1>1, <1>6, <1>12, <2>1, SendNothing, Zenon
  <2>2. CASE call.len # 0
    BY <1>1, <1>2, <1>4, <1>12, <2>2, SendCompressedPipe, Zenon DEF Accepts
  <2> QED BY <2>1, <2>2
<1>13. CASE FinishSendPlain
  BY <1>1, <1>2, <1>4, <1>13, SendPlainPipe, Zenon DEF Accepts
<1>14. CASE FinishFlush BY <1>6, <1>14 DEF FinishFlush, recvVars
<1>15. CASE FinishFrame BY <1>1, <1>2, <1>4, <1>15, FinishFramePipe, Zenon
<1>16. CASE FinishChunk
  <2>1. PipeInv' BY <1>1, <1>2, <1>4, <1>16, FinishChunkPipe, Zenon
  <2>2. UNCHANGED <<framed, delivered>> BY <1>1, <1>2, <1>16, FinishChunkPipe
  <2> QED BY <2>1, <2>2
<1>17. CASE TakeMessage BY <1>1, <1>2, <1>4, <1>17, TakeMessagePipe, Zenon
<1>18. CASE UNCHANGED vars BY <1>6, <1>18 DEF vars, sendVars, recvVars
<1>19. CASE \E len \in MessageLens : StartSend(len) BY <1>6, <1>7, <1>19, Zenon
<1>20. CASE \E n \in 1..StreamSize : PollWrite(n) \/ PollRead(n) BY <1>5, <1>9, <1>20, Zenon
<1> QED BY <1>8, <1>10, <1>11, <1>12, <1>13, <1>14, <1>15, <1>16, <1>17, <1>18, <1>19, <1>20, Zenon
  DEF Next

----------------------------------------------------------------------------
(* The theorems. *)

\* The invariant holds in every state.
LEMMA Invariance == Spec => []IInv
<1>1. ASSUME Init PROVE IInv BY <1>1, InitState, InitPipe, Zenon DEF IInv
<1>2. ASSUME IInv, [Next]_vars PROVE IInv' BY <1>2, StateStep, PipeStep, Zenon DEF IInv
<1> QED BY <1>1, <1>2, PTL DEF Spec

(***************************************************************************)
(* For every stream, message length and place where a call is dropped: the *)
(* lengths that start_send and poll_write_send_chunk convert to u16 fit,   *)
(* and the receiver never waits for more than one frame.                   *)
(***************************************************************************)
THEOREM LengthsFit == Spec => []TypeOK
<1>1. ASSUME IInv PROVE TypeOK
  <2>1. StateOK BY <1>1, Zenon DEF IInv
  <2>2. PICK m : Pipe(OnTheWay, m, compressed) BY <1>1, Zenon DEF IInv, PipeInv
  <2>3. Missing \in 0..(Header + MaxMessageLen) BY <2>1, <2>2, MissingBounded, Zenon
  <2> QED BY <2>1, <2>3, Zenon DEF StateOK, TypeOK
<1> QED BY <1>1, Invariance, PTL

(***************************************************************************)
(* However poll_write and poll_read cut the bytes and wherever a call is   *)
(* dropped, what both bincode channels put into frames and chunks arrives  *)
(* whole, once and in order, messages of no bytes included; the empty      *)
(* frame that a refused message leaves behind arrives in its place.        *)
(***************************************************************************)
THEOREM BincodeChannelImplementsMessageQueue == Spec => ImplementsMessageQueue
<1>1. ASSUME Init PROVE Queue!Init BY <1>1 DEF Init, Queue!Init
<1>2. ASSUME IInv, [Next]_vars PROVE [Queue!Next]_Queue!vars
  <2>1. CASE Accepts BY <2>1, Zenon DEF Accepts, Queue!Next, Queue!Accept
  <2>2. CASE Delivers BY <2>2, Zenon DEF Delivers, Queue!Next, Queue!Deliver
  <2>3. CASE UNCHANGED <<framed, delivered>> BY <2>3 DEF Queue!vars
  <2> QED BY <1>2, <2>1, <2>2, <2>3, PipeStep, Zenon
<1> QED BY <1>1, <1>2, Invariance, PTL DEF Spec, ImplementsMessageQueue, Queue!Spec

=============================================================================
