---------------------------- MODULE WindowsProofs ----------------------------
(***************************************************************************)
(* The operators of StreamPos and Windows, for every width of positions    *)
(* and every capacity.                                                     *)
(*                                                                         *)
(* stream_cmp is not transitive on all positions; within MaxWindow of a    *)
(* common base it is the order of the offsets, which is what the windows   *)
(* rely on.  The lemmas about the windows therefore speak of offsets from  *)
(* the first position a window keeps, where the order is that of numbers.  *)
(***************************************************************************)
EXTENDS Windows, SequenceTheorems, WellFoundedInduction, TLAPS

----------------------------------------------------------------------------
(* Stream positions. *)

\* Wrapping arithmetic stays within the positions.
LEMMA WrapType ==
  ASSUME NEW p \in StreamPositions, NEW n \in 0..(Modulus-1)
  PROVE  WrapAdd(p, n) \in StreamPositions /\ WrapSub(p, n) \in StreamPositions
BY HalfRangeAssumption DEF StreamPositions, Modulus, WrapAdd, WrapSub

\* The two operations are inverse to each other.
LEMMA WrapInverse ==
  ASSUME NEW p \in StreamPositions, NEW q \in StreamPositions
  PROVE  /\ WrapSub(WrapAdd(p, q), p) = q
         /\ WrapAdd(p, WrapSub(q, p)) = q
         /\ WrapAdd(WrapSub(p, q), q) = p
BY HalfRangeAssumption DEF StreamPositions, Modulus, WrapAdd, WrapSub

\* Advancing twice is advancing by the sum, as long as the sum does not wrap.
LEMMA WrapAddAssociative ==
  ASSUME NEW p \in StreamPositions, NEW m \in Nat, NEW n \in Nat, m + n < Modulus
  PROVE  WrapAdd(WrapAdd(p, m), n) = WrapAdd(p, m + n)
BY HalfRangeAssumption DEF StreamPositions, Modulus, WrapAdd

\* The distance between two positions is the difference of their offsets.
LEMMA WrapSubOffsets ==
  ASSUME NEW base \in StreamPositions, NEW i \in 0..(Modulus-1), NEW j \in 0..i
  PROVE  WrapSub(WrapAdd(base, i), WrapAdd(base, j)) = i - j
BY HalfRangeAssumption DEF StreamPositions, Modulus, WrapAdd, WrapSub

(***************************************************************************)
(* stream_cmp says None exactly for two opposite positions, the tie its    *)
(* documentation describes.                                                *)
(***************************************************************************)
THEOREM CmpNoneIffOpposite ==
  ASSUME NEW a \in StreamPositions, NEW b \in StreamPositions
  PROVE  stream_cmp(a, b) = "None" <=> WrapSub(b, a) = HalfRange
BY HalfRangeAssumption DEF StreamPositions, Modulus, WrapSub, stream_cmp

(***************************************************************************)
(* Among the positions within MaxWindow after a common base, the wrapping  *)
(* comparison is total and is the order of the offsets: this is why the    *)
(* windows assert capacity <= u32::MAX / 2.                                *)
(***************************************************************************)
THEOREM StreamOrderIsOffsetOrder ==
  ASSUME NEW base \in StreamPositions, NEW i \in 0..MaxWindow, NEW j \in 0..MaxWindow,
         NEW a, a = WrapAdd(base, i), NEW b, b = WrapAdd(base, j)
  PROVE  /\ stream_cmp(a, b) # "None"
         /\ stream_lt(a, b) <=> i < j
         /\ stream_le(a, b) <=> i <= j
         /\ stream_gt(a, b) <=> i > j
         /\ stream_ge(a, b) <=> i >= j
<1>1. i \in Nat /\ j \in Nat
  BY HalfRangeAssumption DEF MaxWindow
<1>2. /\ WrapSub(b, a) = IF i <= j THEN j - i ELSE Modulus - (i - j)
      /\ WrapSub(a, b) = IF j <= i THEN i - j ELSE Modulus - (j - i)
      /\ (a = b) <=> (i = j)
  BY HalfRangeAssumption DEF StreamPositions, Modulus, MaxWindow, WrapAdd, WrapSub
<1>3. stream_cmp(a, b) = IF i < j THEN "Less" ELSE IF i > j THEN "Greater" ELSE "Equal"
  BY <1>2, HalfRangeAssumption DEF Modulus, MaxWindow, stream_cmp
<1>4. CASE i < j
  BY <1>1, <1>3, <1>4 DEF stream_lt, stream_le, stream_gt, stream_ge
<1>5. CASE i > j
  BY <1>1, <1>3, <1>5 DEF stream_lt, stream_le, stream_gt, stream_ge
<1>6. CASE i = j
  BY <1>1, <1>3, <1>6 DEF stream_lt, stream_le, stream_gt, stream_ge
<1> QED
  BY <1>1, <1>4, <1>5, <1>6

\* A position is its offset from any base; offsets tell positions apart and measure distances.
LEMMA OffsetOf ==
  ASSUME NEW base \in StreamPositions, NEW p \in StreamPositions, NEW q \in StreamPositions
  PROVE  /\ WrapSub(p, base) \in 0..(Modulus-1)
         /\ WrapSub(p, base) \in Int
         /\ WrapAdd(base, WrapSub(p, base)) = p
         /\ WrapSub(base, base) = 0
         /\ WrapSub(p, base) = WrapSub(q, base) <=> p = q
         /\ WrapSub(p, base) <= WrapSub(q, base)
              => WrapSub(q, p) = WrapSub(q, base) - WrapSub(p, base)
BY HalfRangeAssumption DEF StreamPositions, Modulus, WrapAdd, WrapSub

\* The position n behind p.
LEMMA BehindBy ==
  ASSUME NEW p \in StreamPositions, NEW n \in StreamPositions
  PROVE  /\ WrapSub(p, n) \in StreamPositions
         /\ WrapAdd(WrapSub(p, n), n) = p
         /\ WrapSub(p, WrapSub(p, n)) = n
BY HalfRangeAssumption DEF StreamPositions, Modulus, WrapAdd, WrapSub

\* Moving the base forward by n takes n from the offset of what is not behind it.
LEMMA Rebase ==
  ASSUME NEW base \in StreamPositions, NEW p \in StreamPositions,
         NEW n \in 0..WrapSub(p, base)
  PROVE  /\ WrapAdd(base, n) \in StreamPositions
         /\ WrapSub(p, WrapAdd(base, n)) = WrapSub(p, base) - n
         /\ WrapSub(p, WrapSub(p, base) - n) = WrapAdd(base, n)
BY HalfRangeAssumption DEF StreamPositions, Modulus, WrapAdd, WrapSub

\* Positions not further than MaxWindow from a base are compared by their offsets.
LEMMA CmpOffsets ==
  ASSUME NEW base \in StreamPositions, NEW p \in StreamPositions, NEW q \in StreamPositions,
         WrapSub(p, base) <= MaxWindow, WrapSub(q, base) <= MaxWindow
  PROVE  /\ stream_cmp(p, q) = IF WrapSub(p, base) < WrapSub(q, base) THEN "Less"
                               ELSE IF WrapSub(p, base) > WrapSub(q, base) THEN "Greater"
                               ELSE "Equal"
         /\ stream_lt(p, q) <=> WrapSub(p, base) < WrapSub(q, base)
         /\ stream_le(p, q) <=> WrapSub(p, base) <= WrapSub(q, base)
         /\ stream_gt(p, q) <=> WrapSub(p, base) > WrapSub(q, base)
         /\ stream_ge(p, q) <=> WrapSub(p, base) >= WrapSub(q, base)
<1> DEFINE i == WrapSub(p, base)
           j == WrapSub(q, base)
<1>1. /\ i \in 0..MaxWindow /\ j \in 0..MaxWindow
      /\ p = WrapAdd(base, i) /\ q = WrapAdd(base, j)
  BY OffsetOf, HalfRangeAssumption DEF MaxWindow
<1>2. /\ WrapSub(q, p) = IF i <= j THEN j - i ELSE Modulus - (i - j)
      /\ WrapSub(p, q) = IF j <= i THEN i - j ELSE Modulus - (j - i)
      /\ (p = q) <=> (i = j)
  BY HalfRangeAssumption DEF StreamPositions, Modulus, MaxWindow, WrapAdd, WrapSub
<1>3. stream_cmp(p, q) = IF i < j THEN "Less" ELSE IF i > j THEN "Greater" ELSE "Equal"
  BY <1>1, <1>2, HalfRangeAssumption DEF Modulus, MaxWindow, stream_cmp
<1>4. /\ stream_lt(p, q) <=> i < j
      /\ stream_le(p, q) <=> i <= j
      /\ stream_gt(p, q) <=> i > j
      /\ stream_ge(p, q) <=> i >= j
  BY <1>1, StreamOrderIsOffsetOrder
<1> QED
  BY <1>3, <1>4

\* Any two positions: "before" means a distance of at most MaxWindow ahead.
LEMMA CmpAhead ==
  ASSUME NEW p \in StreamPositions, NEW q \in StreamPositions
  PROVE  /\ stream_lt(p, q) <=> WrapSub(q, p) \in 1..MaxWindow
         /\ stream_gt(p, q) <=> WrapSub(p, q) \in 1..MaxWindow
         /\ stream_le(p, q) <=> WrapSub(q, p) \in 0..MaxWindow
         /\ stream_ge(p, q) <=> WrapSub(p, q) \in 0..MaxWindow
BY HalfRangeAssumption
   DEF StreamPositions, Modulus, MaxWindow, WrapSub, stream_cmp, stream_lt, stream_gt,
       stream_le, stream_ge

----------------------------------------------------------------------------
(* The list of unacknowledged ranges, in offsets from the first position   *)
(* kept.                                                                   *)

Ranges == StreamPositions \X StreamPositions

\* Not empty, in order, apart from each other and within the sent bytes.
Apart(base, sent, ranges) ==
  /\ \A i \in 1..Len(ranges) :
       WrapSub(ranges[i][1], base) < WrapSub(ranges[i][2], base)
  /\ \A i \in 1..Len(ranges) : WrapSub(ranges[i][2], base) <= sent
  /\ \A i, j \in 1..Len(ranges) :
       i < j => WrapSub(ranges[i][2], base) <= WrapSub(ranges[j][1], base)

\* Nothing sent before the first of them is kept.
Ordered(base, sent, ranges) ==
  /\ Apart(base, sent, ranges)
  /\ ranges = <<>> => sent = 0
  /\ ranges # <<>> => ranges[1][1] = base

\* An element of a list of ranges is a pair of positions.
LEMMA RangeType ==
  ASSUME NEW ranges \in Seq(Ranges), NEW i \in 1..Len(ranges)
  PROVE  /\ ranges[i] \in Ranges
         /\ ranges[i] = <<ranges[i][1], ranges[i][2]>>
         /\ ranges[i][1] \in StreamPositions /\ ranges[i][2] \in StreamPositions
<1>1. ranges[i] \in Ranges
  BY ElementOfSeq
<1> QED
  BY <1>1 DEF Ranges

\* What taking one element out of a list leaves.
LEMMA SpliceOut ==
  ASSUME NEW S, NEW list \in Seq(S), NEW i \in 1..Len(list)
  PROVE  /\ Splice(list, i, i, <<>>) \in Seq(S)
         /\ Len(Splice(list, i, i, <<>>)) = Len(list) - 1
         /\ \A k \in 1..(Len(list) - 1) :
              Splice(list, i, i, <<>>)[k] = IF k < i THEN list[k] ELSE list[k + 1]
<1> DEFINE a == SubSeq(list, 1, i - 1)
           b == SubSeq(list, i + 1, Len(list))
<1>1. Len(list) \in Nat
  BY LenProperties
<1>2. /\ a \in Seq(S) /\ Len(a) = i - 1
      /\ \A k \in 1..(i - 1) : a[k] = list[k]
  <2>1. /\ a \in Seq(S)
        /\ Len(a) = IF 1 <= i - 1 THEN i - 1 - 1 + 1 ELSE 0
        /\ \A k \in 1..(i - 1 - 1 + 1) : a[k] = list[1 + k - 1]
    BY <1>1, SubSeqProperties
  <2> QED
    BY <1>1, <2>1
<1>3. /\ b \in Seq(S) /\ Len(b) = Len(list) - i
      /\ \A k \in 1..(Len(list) - i) : b[k] = list[i + k]
  <2>1. /\ b \in Seq(S)
        /\ Len(b) = IF i + 1 <= Len(list) THEN Len(list) - (i + 1) + 1 ELSE 0
        /\ \A k \in 1..(Len(list) - (i + 1) + 1) : b[k] = list[i + 1 + k - 1]
    BY <1>1, SubSeqProperties
  <2> QED
    BY <1>1, <2>1
<1> HIDE DEF a, b
<1>4. a \o <<>> = a
  BY <1>2, ConcatEmptySeq
<1>5. /\ a \o b \in Seq(S) /\ Len(a \o b) = Len(a) + Len(b)
      /\ \A k \in 1..(Len(a) + Len(b)) :
           (a \o b)[k] = IF k <= Len(a) THEN a[k] ELSE b[k - Len(a)]
  BY <1>2, <1>3, ConcatProperties
<1>6. Splice(list, i, i, <<>>) = a \o b
  BY <1>4 DEF Splice, a, b
<1>7. ASSUME NEW k \in 1..(Len(list) - 1)
      PROVE  (a \o b)[k] = IF k < i THEN list[k] ELSE list[k + 1]
  <2>1. CASE k < i
    BY <1>1, <1>2, <1>3, <1>5, <2>1
  <2>2. CASE k >= i
    <3>1. (a \o b)[k] = b[k - (i - 1)]
      BY <1>1, <1>2, <1>3, <1>5, <2>2
    <3>2. k - (i - 1) \in 1..(Len(list) - i)
      BY <1>1, <2>2
    <3>3. b[k - (i - 1)] = list[i + (k - (i - 1))]
      BY <1>3, <3>2
    <3> QED
      BY <1>1, <2>2, <3>1, <3>3
  <2>3. k < i \/ k >= i
    BY <1>1
  <2> QED
    BY <2>1, <2>2, <2>3
<1>8. Len(a \o b) = Len(list) - 1
  BY <1>1, <1>2, <1>3, <1>5
<1> QED
  BY <1>5, <1>6, <1>7, <1>8

(***************************************************************************)
(* The search of ack_range: a start position not behind the window is      *)
(* compared by its offset, so the list is searched in ascending order and  *)
(* the range with that start, if there is one, is the one found.           *)
(***************************************************************************)
LEMMA RangeSearch ==
  ASSUME NEW base \in StreamPositions, NEW sent \in 0..MaxWindow,
         NEW ranges \in Seq(Ranges), Ordered(base, sent, ranges),
         NEW start \in StreamPositions, WrapSub(start, base) <= MaxWindow,
         NEW order, order = [k \in 1..Len(ranges) |-> stream_cmp(ranges[k][1], start)]
  PROVE  /\ Ascending(order)
         /\ BinaryFound(order) <=> \E i \in 1..Len(ranges) : ranges[i][1] = start
         /\ \A i \in 1..Len(ranges) : ranges[i][1] = start => BinarySearch(order) = i
<1> DEFINE O(p) == WrapSub(p, base)
<1>1. Len(ranges) \in Nat /\ MaxWindow \in Nat
  BY LenProperties, HalfRangeAssumption DEF MaxWindow
<1>2. O(start) \in Int
  BY OffsetOf
<1>3. ASSUME NEW i \in 1..Len(ranges)
      PROVE  /\ O(ranges[i][1]) \in Int /\ O(ranges[i][2]) \in Int
             /\ O(ranges[i][1]) <= MaxWindow
             /\ O(ranges[i][1]) = O(start) <=> ranges[i][1] = start
             /\ order[i] = IF O(ranges[i][1]) < O(start) THEN "Less"
                           ELSE IF O(ranges[i][1]) > O(start) THEN "Greater" ELSE "Equal"
  <2>1. ranges[i][1] \in StreamPositions /\ ranges[i][2] \in StreamPositions
    BY RangeType
  <2>2. /\ O(ranges[i][1]) \in Int /\ O(ranges[i][2]) \in Int
        /\ O(ranges[i][1]) = O(start) <=> ranges[i][1] = start
    BY <2>1, OffsetOf, ZenonT(30)
  <2>3. O(ranges[i][1]) <= MaxWindow
    BY <1>1, <2>2 DEF Ordered, Apart
  <2> QED
    BY <2>1, <2>2, <2>3, CmpOffsets
<1>4. \A i, j \in 1..Len(ranges) : i < j => O(ranges[i][1]) < O(ranges[j][1])
  BY <1>3 DEF Ordered, Apart
<1>5. Len(order) = Len(ranges)
  BY <1>1
<1> HIDE DEF O
<1>6. Ascending(order)
  <2> SUFFICES ASSUME NEW i \in 1..Len(ranges), NEW j \in 1..Len(ranges)
               PROVE  /\ order[i] # "None"
                      /\ i < j => ~(order[i] = "Greater" /\ order[j] # "Greater")
                      /\ i < j => ~(order[i] = "Equal" /\ order[j] = "Less")
    BY <1>5 DEF Ascending
  <2> QED
    BY <1>2, <1>3, <1>4, SMTT(30)
<1>7. ASSUME NEW i \in 1..Len(ranges)
      PROVE  order[i] = "Equal" <=> ranges[i][1] = start
  BY <1>2, <1>3
<1>9. BinaryFound(order) <=> \E i \in 1..Len(ranges) : ranges[i][1] = start
  BY <1>5, <1>7 DEF BinaryFound
<1>8. ASSUME NEW i \in 1..Len(ranges), ranges[i][1] = start
      PROVE  BinarySearch(order) = i
  <2> DEFINE Found(n) == /\ \A j \in 1..(n - 1) : order[j] = "Less"
                         /\ \A j \in n..Len(order) : order[j] # "Less"
  <2>0. ASSUME NEW j \in 1..Len(ranges)
        PROVE  /\ j < i => order[j] = "Less"
               /\ j > i => order[j] = "Greater"
    BY <1>2, <1>3, <1>4, <1>8
  <2>1. /\ order[i] = "Equal"
        /\ \A j \in 1..Len(ranges) : j < i => order[j] = "Less"
        /\ \A j \in 1..Len(ranges) : j > i => order[j] = "Greater"
    BY <1>7, <1>8, <2>0
  <2>2. i \in 1..(Len(order) + 1) /\ Found(i)
    BY <1>1, <1>5, <2>1
  <2>3. ASSUME NEW n \in 1..(Len(order) + 1), Found(n)
        PROVE  n = i
    <3>1. ASSUME n < i PROVE FALSE
      <4>1. n \in 1..Len(ranges) /\ n \in n..Len(order)
        BY <1>1, <1>5, <3>1
      <4> QED
        BY <2>1, <2>3, <3>1, <4>1
    <3>2. ASSUME n > i PROVE FALSE
      <4>1. i \in 1..(n - 1)
        BY <1>1, <1>5, <3>2
      <4> QED
        BY <2>1, <2>3, <4>1
    <3> QED
      BY <1>1, <1>5, <3>1, <3>2
  <2>4. BinarySearch(order) = CHOOSE n \in 1..(Len(order) + 1) : Found(n)
    BY DEF BinarySearch
  <2> HIDE DEF Found
  <2> QED
    BY <2>2, <2>3, <2>4
<1> QED
  BY <1>6, <1>8, <1>9

----------------------------------------------------------------------------
(* The byte queue the windows are built on. *)

Queues(capacity) == [cells : [0..(capacity - 1) -> Int], used : 0..capacity]

\* How many bytes a write stores.
LEMMA WriteLenType ==
  ASSUME NEW capacity \in Nat, NEW q \in Queues(capacity), NEW offset \in Nat,
         NEW bytes \in Seq(Int)
  PROVE  /\ WriteLen(capacity, q, offset, bytes) \in Nat
         /\ Len(bytes) \in Nat
         /\ WriteLen(capacity, q, offset, bytes) <= Len(bytes)
         /\ \/ WriteLen(capacity, q, offset, bytes) = 0
            \/ q.used + offset + WriteLen(capacity, q, offset, bytes) <= capacity
<1>1. q.used \in 0..capacity
  BY DEF Queues
<1>2. Len(bytes) \in Nat
  BY LenProperties
<1> QED
  BY <1>1, <1>2 DEF WriteLen, write_available, Lesser

\* Only the cells first .. first+len-1 differ, and they hold the bytes.
Stored(capacity, q, first, len, bytes, after) ==
  /\ after \in Queues(capacity)
  /\ after.used = q.used
  /\ \A k \in 0..(capacity - 1) :
       after.cells[k]
         = IF k >= first /\ k < first + len THEN bytes[k - first + 1] ELSE q.cells[k]

\* Which bytes a write stores, and that it changes nothing else.
LEMMA WriteStores ==
  ASSUME NEW capacity \in Nat, NEW q \in Queues(capacity), NEW offset \in Nat,
         NEW bytes \in Seq(Int), NEW first \in Nat, first = q.used + offset,
         NEW len \in Nat, len = WriteLen(capacity, q, offset, bytes)
  PROVE  Stored(capacity, q, first, len, bytes, Write(capacity, q, offset, bytes))
<1>1. /\ q.used \in 0..capacity /\ q.cells \in [0..(capacity - 1) -> Int]
      /\ q = [cells |-> q.cells, used |-> q.used]
  BY DEF Queues
<1>2. Len(bytes) \in Nat /\ len <= Len(bytes)
  BY WriteLenType
<1> DEFINE cells == [k \in 0..(capacity - 1) |-> IF k >= first /\ k < first + len
                                                 THEN bytes[k - first + 1] ELSE q.cells[k]]
           after == Write(capacity, q, offset, bytes)
<1>3. after = [q EXCEPT !.cells = cells]
  BY DEF Write
<1>4. cells \in [0..(capacity - 1) -> Int]
  <2> SUFFICES ASSUME NEW k \in 0..(capacity - 1) PROVE cells[k] \in Int
    OBVIOUS
  <2>1. CASE k >= first /\ k < first + len
    <3>1. k - first + 1 \in 1..Len(bytes)
      BY <1>1, <1>2, <2>1, SMTT(30)
    <3>2. bytes[k - first + 1] \in Int
      BY <3>1, ElementOfSeq
    <3> QED
      BY <2>1, <3>2
  <2>2. CASE ~(k >= first /\ k < first + len)
    BY <1>1, <2>2
  <2> QED
    BY <2>1, <2>2
<1> HIDE DEF cells, after
<1>5. after = [cells |-> cells, used |-> q.used]
  BY <1>1, <1>3
<1>6. after \in Queues(capacity) /\ after.used = q.used /\ after.cells = cells
  BY <1>1, <1>4, <1>5 DEF Queues
<1>7. \A k \in 0..(capacity - 1) :
        after.cells[k]
          = IF k >= first /\ k < first + len THEN bytes[k - first + 1] ELSE q.cells[k]
  BY <1>6 DEF cells
<1> QED
  BY <1>6, <1>7 DEF after, Stored

\* Advancing the head over n free bytes.
LEMMA WriterAdvances ==
  ASSUME NEW capacity \in Nat, NEW q \in Queues(capacity), NEW n \in 0..(capacity - q.used),
         NEW after, after = WriterAdvance(capacity, q, n)
  PROVE  /\ after \in Queues(capacity)
         /\ after.used = q.used + n /\ after.cells = q.cells
<1>1. /\ q.used \in 0..capacity /\ q.cells \in [0..(capacity - 1) -> Int]
      /\ q = [cells |-> q.cells, used |-> q.used]
  BY DEF Queues
<1>2. Lesser(n, write_available(capacity, q)) = n
  BY <1>1 DEF Lesser, write_available
<1>3. after = [cells |-> q.cells, used |-> q.used + n]
  BY <1>1, <1>2 DEF WriterAdvance
<1>4. q.used + n \in 0..capacity
  BY <1>1
<1> QED
  BY <1>1, <1>3, <1>4 DEF Queues

\* Advancing the tail over n bytes: the others move to the front.
LEMMA ReaderAdvances ==
  ASSUME NEW capacity \in Nat \ {0}, NEW q \in Queues(capacity), NEW n \in 0..q.used,
         NEW after, after = ReaderAdvance(capacity, q, n)
  PROVE  /\ after \in Queues(capacity)
         /\ after.used = q.used - n
         /\ \A k \in 0..(capacity - 1 - n) : after.cells[k] = q.cells[k + n]
<1>1. q.used \in 0..capacity /\ q.cells \in [0..(capacity - 1) -> Int]
  BY DEF Queues
<1>2. Lesser(n, q.used) = n
  BY <1>1 DEF Lesser
<1> DEFINE cells == [k \in 0..(capacity - 1) |->
                       q.cells[IF k + n < capacity THEN k + n ELSE k + n - capacity]]
<1>3. after = [used |-> q.used - n, cells |-> cells]
  BY <1>2 DEF ReaderAdvance
<1>4. cells \in [0..(capacity - 1) -> Int]
  <2> SUFFICES ASSUME NEW k \in 0..(capacity - 1) PROVE cells[k] \in Int
    OBVIOUS
  <2>1. (IF k + n < capacity THEN k + n ELSE k + n - capacity) \in 0..(capacity - 1)
    BY <1>1
  <2> QED
    BY <1>1, <2>1
<1>5. \A k \in 0..(capacity - 1 - n) : cells[k] = q.cells[k + n]
  BY <1>1
<1>6. q.used - n \in 0..capacity
  BY <1>1
<1> HIDE DEF cells
<1> QED
  BY <1>3, <1>4, <1>5, <1>6 DEF Queues

\* What a read of bytes that are there returns.
LEMMA ReadReturns ==
  ASSUME NEW capacity \in Nat, NEW q \in Queues(capacity), NEW offset \in Nat, NEW n \in Nat,
         offset + n <= q.used, NEW bytes, bytes = Read(q, offset, n)
  PROVE  /\ bytes \in [1..n -> Int]
         /\ \A i \in 1..n : bytes[i] = q.cells[offset + i - 1]
<1>1. q.used \in 0..capacity /\ q.cells \in [0..(capacity - 1) -> Int]
  BY DEF Queues
<1>2. (IF q.used <= offset THEN 0 ELSE Lesser(q.used - offset, n)) = n
  BY <1>1 DEF Lesser
<1>3. bytes = [i \in 1..n |-> q.cells[offset + i - 1]]
  BY <1>2 DEF Read
<1>4. ASSUME NEW i \in 1..n PROVE q.cells[offset + i - 1] \in Int
  <2>1. offset + i - 1 \in 0..(capacity - 1)
    BY <1>1
  <2> QED
    BY <1>1, <2>1
<1> QED
  BY <1>3, <1>4

----------------------------------------------------------------------------
(* The send window. *)

SendWindows(capacity) ==
  [buf : Queues(capacity), send_pos : StreamPositions, sent : 0..capacity,
   unacked_ranges : Seq(Ranges)]

\* The byte at position p of the stream is p; bytes are those from p on.
StreamFrom(p, bytes) == \A k \in 1..Len(bytes) : bytes[k] = WrapAdd(p, k - 1)

\* The ring holds the stream from unacked_start on.
KeepsStream(w) ==
  \A k \in 0..(w.buf.used - 1) : w.buf.cells[k] = WrapAdd(unacked_start(w), k)

SendWindowInv(capacity, w) ==
  /\ w \in SendWindows(capacity)
  /\ w.sent <= w.buf.used
  /\ Ordered(unacked_start(w), w.sent, w.unacked_ranges)
  /\ KeepsStream(w)

\* The plain facts the other lemmas start from.
LEMMA SendWindowFacts ==
  ASSUME NEW capacity \in Nat \ {0}, capacity <= MaxWindow, NEW w, SendWindowInv(capacity, w)
  PROVE  /\ capacity \in Nat /\ MaxWindow \in Nat
         /\ w.sent \in Nat /\ w.buf.used \in Nat
         /\ w.sent <= w.buf.used /\ w.buf.used <= capacity /\ capacity <= MaxWindow
         /\ w.sent \in 0..MaxWindow
         /\ w.send_pos \in StreamPositions
         /\ unacked_start(w) \in StreamPositions
         /\ WrapAdd(unacked_start(w), w.sent) = w.send_pos
         /\ WrapSub(w.send_pos, unacked_start(w)) = w.sent
         /\ w.unacked_ranges \in Seq(Ranges)
         /\ Len(w.unacked_ranges) \in Nat
<1>1. /\ capacity \in Nat /\ MaxWindow \in Nat /\ capacity <= MaxWindow
      /\ Modulus \in Nat /\ MaxWindow < Modulus
  BY HalfRangeAssumption DEF MaxWindow, Modulus
<1>2. /\ w.sent \in 0..capacity /\ w.buf.used \in 0..capacity /\ w.sent <= w.buf.used
      /\ w.send_pos \in StreamPositions /\ w.unacked_ranges \in Seq(Ranges)
  BY DEF SendWindowInv, SendWindows, Queues
<1>3. w.sent \in StreamPositions
  BY <1>1, <1>2 DEF StreamPositions
<1>4. /\ unacked_start(w) \in StreamPositions
      /\ WrapAdd(unacked_start(w), w.sent) = w.send_pos
      /\ WrapSub(w.send_pos, unacked_start(w)) = w.sent
  BY <1>2, <1>3, BehindBy DEF unacked_start
<1>5. Len(w.unacked_ranges) \in Nat
  BY <1>2, LenProperties
<1> QED
  BY <1>1, <1>2, <1>4, <1>5

\* A new window.
LEMMA NewSendWindowInv ==
  ASSUME NEW capacity \in Nat \ {0}, capacity <= MaxWindow,
         NEW stream_start \in StreamPositions, NEW fill \in Int
  PROVE  /\ SendWindowInv(capacity, NewSendWindow(capacity, stream_start, fill))
         /\ unacked_start(NewSendWindow(capacity, stream_start, fill)) = stream_start
<1> DEFINE w == NewSendWindow(capacity, stream_start, fill)
<1>1. /\ w.sent = 0 /\ w.buf.used = 0 /\ w.unacked_ranges = <<>> /\ w.send_pos = stream_start
      /\ w \in SendWindows(capacity)
  <2>1. <<>> \in Seq(Ranges)
    BY EmptySeq
  <2>2. NewQueue(capacity, fill) \in Queues(capacity)
    BY HalfRangeAssumption DEF NewQueue, Queues, MaxWindow
  <2>3. NewQueue(capacity, fill).used = 0
    BY DEF NewQueue
  <2>4. 0 \in 0..capacity
    BY HalfRangeAssumption DEF MaxWindow
  <2> QED
    BY <2>1, <2>2, <2>3, <2>4 DEF NewSendWindow, SendWindows
<1>2. Ordered(unacked_start(w), w.sent, w.unacked_ranges)
  BY <1>1 DEF Ordered, Apart
<1>3. KeepsStream(w)
  BY <1>1 DEF KeepsStream
<1>4. unacked_start(w) = stream_start
  BY <1>1, HalfRangeAssumption DEF unacked_start, WrapSub, StreamPositions, Modulus
<1> QED
  BY <1>1, <1>2, <1>3, <1>4 DEF SendWindowInv

\* Writing the next bytes of the stream adds those that fit behind the ones kept.
LEMMA SendWindowWriteInv ==
  ASSUME NEW capacity \in Nat \ {0}, capacity <= MaxWindow, NEW w, SendWindowInv(capacity, w),
         NEW bytes \in Seq(Int), StreamFrom(WrapAdd(unacked_start(w), w.buf.used), bytes),
         NEW after, after = SendWindowWrite(capacity, w, bytes)
  PROVE  /\ SendWindowInv(capacity, after)
         /\ WriteLen(capacity, w.buf, 0, bytes) \in 0..(capacity - w.buf.used)
         /\ after.buf.used = w.buf.used + WriteLen(capacity, w.buf, 0, bytes)
         /\ after.send_pos = w.send_pos /\ after.sent = w.sent
         /\ after.unacked_ranges = w.unacked_ranges
         /\ unacked_start(after) = unacked_start(w)
<1>0. w \in SendWindows(capacity) /\ w.buf \in Queues(capacity)
  BY DEF SendWindowInv, SendWindows
<1>1. /\ w.buf.used \in 0..capacity /\ w.buf.used \in Nat
      /\ w.sent \in Nat /\ w.sent <= w.buf.used
      /\ unacked_start(w) \in StreamPositions
      /\ MaxWindow \in Nat
  BY SendWindowFacts
<1>2. PICK used \in Nat : used = w.buf.used
  BY <1>1
<1>3. PICK len \in Nat : len = WriteLen(capacity, w.buf, 0, bytes)
  BY <1>0, WriteLenType
<1>4. /\ len \in 0..(capacity - used)
      /\ used <= capacity
      /\ Len(bytes) \in Nat /\ len <= Len(bytes)
  <2>1. /\ Len(bytes) \in Nat /\ len <= Len(bytes)
        /\ len = 0 \/ used + 0 + len <= capacity
    BY <1>0, <1>2, <1>3, WriteLenType
  <2>2. used <= capacity
    BY <1>1, <1>2
  <2> QED
    BY <2>1, <2>2
<1> DEFINE stored == Write(capacity, w.buf, 0, bytes)
           buf    == WriterAdvance(capacity, stored, len)
<1>5. /\ stored \in Queues(capacity) /\ stored.used = used
      /\ \A k \in 0..(capacity - 1) :
           stored.cells[k] = IF k >= used /\ k < used + len
                             THEN bytes[k - used + 1] ELSE w.buf.cells[k]
  <2>1. used = w.buf.used + 0 /\ capacity \in Nat /\ 0 \in Nat
    BY <1>2
  <2>2. Stored(capacity, w.buf, used, len, bytes, stored)
    BY <1>0, <1>3, <2>1, WriteStores
  <2> QED
    BY <1>2, <2>2 DEF Stored
<1>6. /\ buf \in Queues(capacity)
      /\ buf.used = used + len /\ buf.cells = stored.cells
  BY <1>4, <1>5, WriterAdvances
<1>7. after = [w EXCEPT !.buf = buf]
  BY <1>3 DEF SendWindowWrite
<1> HIDE DEF stored, buf
<1>8. /\ after.buf = buf /\ after.send_pos = w.send_pos /\ after.sent = w.sent
      /\ after.unacked_ranges = w.unacked_ranges
      /\ after \in SendWindows(capacity)
  BY <1>0, <1>6, <1>7 DEF SendWindows
<1>9. unacked_start(after) = unacked_start(w)
  BY <1>8 DEF unacked_start
<1>10. ASSUME NEW k \in Nat, k < used + len
       PROVE  stored.cells[k] = WrapAdd(unacked_start(w), k)
  <2>0. k \in 0..(capacity - 1)
    BY <1>4, <1>10
  <2>1. CASE k < used
    <3>1. stored.cells[k] = w.buf.cells[k]
      BY <1>5, <2>0, <2>1
    <3>2. k \in 0..(w.buf.used - 1)
      BY <1>2, <2>1
    <3> QED
      BY <3>1, <3>2 DEF SendWindowInv, KeepsStream
  <2>2. CASE k >= used
    <3>1. PICK d \in Nat : k = used + d
      <4>1. k - used \in Nat /\ k = used + (k - used)
        BY <2>2
      <4> QED
        BY <4>1
    <3>2. d + 1 \in 1..Len(bytes) /\ (d + 1) - 1 = d /\ k - used + 1 = d + 1
      BY <1>4, <1>10, <3>1
    <3>3. stored.cells[k] = bytes[d + 1]
      BY <1>5, <1>10, <2>0, <2>2, <3>2
    <3>4. bytes[d + 1] = WrapAdd(WrapAdd(unacked_start(w), used), d)
      BY <1>2, <3>2 DEF StreamFrom
    <3>5. used + d < Modulus
      BY <1>1, <2>0, <3>1, HalfRangeAssumption DEF MaxWindow, Modulus
    <3> QED
      BY <1>1, <3>1, <3>3, <3>4, <3>5, WrapAddAssociative
  <2> QED
    BY <2>1, <2>2
<1>11. KeepsStream(after)
  <2>1. after.buf.cells = stored.cells /\ after.buf.used = used + len
    BY <1>6, <1>8
  <2>2. ASSUME NEW k \in 0..(after.buf.used - 1)
        PROVE  after.buf.cells[k] = WrapAdd(unacked_start(after), k)
    BY <1>9, <1>10, <2>1
  <2> QED
    BY <2>2 DEF KeepsStream
<1>12. after.sent <= after.buf.used
  BY <1>1, <1>2, <1>6, <1>8
<1>13. Ordered(unacked_start(after), after.sent, after.unacked_ranges)
  BY <1>8, <1>9 DEF SendWindowInv
<1>14. SendWindowInv(capacity, after)
  BY <1>8, <1>11, <1>12, <1>13 DEF SendWindowInv
<1> QED
  BY <1>2, <1>3, <1>4, <1>6, <1>8, <1>9, <1>14

\* A range sent behind the others.
LEMMA OrderedAppend ==
  ASSUME NEW base \in StreamPositions, NEW sent \in Nat, NEW len \in Nat \ {0},
         sent + len <= MaxWindow, NEW ranges \in Seq(Ranges), Ordered(base, sent, ranges),
         NEW start \in StreamPositions, start = WrapAdd(base, sent),
         NEW end \in StreamPositions, end = WrapAdd(base, sent + len)
  PROVE  /\ Append(ranges, <<start, end>>) \in Seq(Ranges)
         /\ Ordered(base, sent + len, Append(ranges, <<start, end>>))
<1> DEFINE O(p)  == WrapSub(p, base)
           longer == Append(ranges, <<start, end>>)
<1>1. Len(ranges) \in Nat
  BY LenProperties
<1>2. O(start) = sent /\ O(end) = sent + len
  BY HalfRangeAssumption DEF MaxWindow, Modulus, StreamPositions, WrapAdd, WrapSub
<1>3. <<start, end>> \in Ranges
  BY DEF Ranges
<1>4. /\ longer \in Seq(Ranges)
      /\ Len(longer) = Len(ranges) + 1
      /\ \A i \in 1..Len(ranges) : longer[i] = ranges[i]
      /\ longer[Len(ranges) + 1] = <<start, end>>
  BY <1>3, AppendProperties
<1>5. ASSUME NEW i \in 1..Len(ranges)
      PROVE  /\ O(ranges[i][1]) \in Int /\ O(ranges[i][2]) \in Int
             /\ O(ranges[i][1]) < O(ranges[i][2])
             /\ O(ranges[i][2]) <= sent
  <2>1. ranges[i][1] \in StreamPositions /\ ranges[i][2] \in StreamPositions
    BY RangeType
  <2> QED
    BY <2>1, OffsetOf DEF Ordered, Apart
<1>6. \A i, j \in 1..Len(ranges) : i < j => O(ranges[i][2]) <= O(ranges[j][1])
  BY DEF Ordered, Apart
<1>7. longer # <<>> /\ longer[1][1] = base
  <2>1. CASE ranges = <<>>
    <3>1. sent = 0 /\ Len(ranges) = 0
      BY <2>1 DEF Ordered
    <3>2. start = base
      BY <3>1, HalfRangeAssumption DEF WrapAdd, StreamPositions, Modulus
    <3> QED
      BY <1>4, <3>1, <3>2
  <2>2. CASE ranges # <<>>
    <3>1. 1 \in 1..Len(ranges)
      BY <1>1, <2>2, EmptySeq
    <3> QED
      BY <1>1, <1>4, <2>2, <3>1 DEF Ordered
  <2> QED
    BY <2>1, <2>2
<1> HIDE DEF longer, O
<1>8. ASSUME NEW i \in 1..Len(longer)
      PROVE  O(longer[i][1]) < O(longer[i][2]) /\ O(longer[i][2]) <= sent + len
  <2>1. CASE i \in 1..Len(ranges)
    BY <1>4, <1>5, <2>1, SMTT(30)
  <2>2. CASE i = Len(ranges) + 1
    BY <1>2, <1>4, <2>2
  <2> QED
    BY <1>1, <1>4, <2>1, <2>2
<1>9. ASSUME NEW i \in 1..Len(longer), NEW j \in 1..Len(longer), i < j
      PROVE  O(longer[i][2]) <= O(longer[j][1])
  <2>1. i \in 1..Len(ranges)
    BY <1>1, <1>4, <1>9
  <2>2. CASE j \in 1..Len(ranges)
    BY <1>4, <1>6, <1>9, <2>1, <2>2
  <2>3. CASE j = Len(ranges) + 1
    <3>1. longer[j][1] = start /\ longer[i] = ranges[i]
      BY <1>4, <2>1, <2>3
    <3> QED
      BY <1>2, <1>5, <2>1, <3>1
  <2> QED
    BY <1>1, <1>4, <2>2, <2>3
<1> QED
  BY <1>4, <1>7, <1>8, <1>9 DEF Ordered, Apart, O, longer

\* SendWindow::send: the next bytes become one more range.
LEMMA SendInv ==
  ASSUME NEW capacity \in Nat \ {0}, capacity <= MaxWindow, NEW w, SendWindowInv(capacity, w),
         NEW n \in Nat, SendLen(w, n) # 0, NEW after, after = send(w, n)
  PROVE  /\ SendWindowInv(capacity, after)
         /\ SendLen(w, n) \in Nat \ {0} /\ SendLen(w, n) <= n
         /\ w.sent + SendLen(w, n) <= w.buf.used
         /\ after.sent = w.sent + SendLen(w, n)
         /\ after.buf = w.buf
         /\ after.send_pos = WrapAdd(w.send_pos, SendLen(w, n))
         /\ after.unacked_ranges =
              Append(w.unacked_ranges, <<w.send_pos, WrapAdd(w.send_pos, SendLen(w, n))>>)
         /\ unacked_start(after) = unacked_start(w)
<1>0. w \in SendWindows(capacity) /\ w.buf \in Queues(capacity)
  BY DEF SendWindowInv, SendWindows
<1>1. /\ w.buf.used \in Nat /\ w.sent \in Nat /\ w.sent <= w.buf.used
      /\ w.buf.used <= capacity /\ MaxWindow \in Nat
      /\ w.send_pos \in StreamPositions /\ w.unacked_ranges \in Seq(Ranges)
      /\ unacked_start(w) \in StreamPositions
      /\ WrapAdd(unacked_start(w), w.sent) = w.send_pos
  BY SendWindowFacts
<1>2. PICK len \in Nat : len = SendLen(w, n)
  BY <1>1 DEF SendLen, send_available, read_available
<1>3. /\ len # 0 /\ len <= n /\ w.sent + len <= w.buf.used
  BY <1>1, <1>2 DEF SendLen, send_available, read_available
<1>4. PICK base \in StreamPositions : base = unacked_start(w)
  BY <1>1
<1>5. PICK sent \in Nat : sent = w.sent
  BY <1>1
<1>6. sent + len <= MaxWindow /\ sent + len < Modulus /\ MaxWindow \in Nat
  BY <1>1, <1>3, <1>5, HalfRangeAssumption DEF MaxWindow, Modulus
<1>7. PICK end \in StreamPositions : end = WrapAdd(base, sent + len)
  <2>1. sent + len \in 0..(Modulus - 1)
    BY <1>6, HalfRangeAssumption DEF Modulus
  <2> QED
    BY <2>1, WrapType
<1>8. WrapAdd(w.send_pos, len) = end
  <2>1. WrapAdd(base, sent) = w.send_pos
    BY <1>1, <1>4, <1>5
  <2> QED
    BY <1>6, <1>7, <2>1, WrapAddAssociative
<1>9. /\ Append(w.unacked_ranges, <<w.send_pos, end>>) \in Seq(Ranges)
      /\ Ordered(base, sent + len, Append(w.unacked_ranges, <<w.send_pos, end>>))
  <2>1. /\ Ordered(base, sent, w.unacked_ranges)
        /\ w.send_pos = WrapAdd(base, sent) /\ len \in Nat \ {0}
    BY <1>1, <1>3, <1>4, <1>5 DEF SendWindowInv
  <2> QED
    BY <1>1, <1>6, <1>7, <2>1, OrderedAppend
<1>10. after = [w EXCEPT !.sent = sent + len, !.send_pos = end,
                         !.unacked_ranges = Append(w.unacked_ranges, <<w.send_pos, end>>)]
  BY <1>0, <1>2, <1>5, <1>8 DEF send, SentRange, SendWindows
<1>11. /\ after.sent = sent + len /\ after.send_pos = end /\ after.buf = w.buf
       /\ after.unacked_ranges = Append(w.unacked_ranges, <<w.send_pos, end>>)
  BY <1>0, <1>10 DEF SendWindows
<1>12. after \in SendWindows(capacity)
  <2>1. sent + len \in 0..capacity
    BY <1>1, <1>3, <1>5
  <2> QED
    BY <1>0, <1>9, <1>10, <2>1 DEF SendWindows
<1>13. unacked_start(after) = base
  <2>1. WrapSub(end, sent + len) = base
    BY <1>6, <1>7, HalfRangeAssumption DEF WrapAdd, WrapSub, StreamPositions, Modulus
  <2> QED
    BY <1>11, <2>1 DEF unacked_start
<1>14. KeepsStream(after)
  BY <1>4, <1>11, <1>13 DEF SendWindowInv, KeepsStream
<1>15. after.sent <= after.buf.used
  BY <1>1, <1>3, <1>5, <1>11
<1>16. SendWindowInv(capacity, after)
  BY <1>9, <1>11, <1>12, <1>13, <1>14, <1>15 DEF SendWindowInv
<1> QED
  BY <1>2, <1>3, <1>4, <1>5, <1>8, <1>11, <1>13, <1>16

\* The range r is acknowledged up to end by an acknowledgement of start .. end-1.
Hit(r, start, end) == r[1] = start /\ WrapSub(end, start) \in 1..WrapSub(r[2], r[1])

\* The offsets of one range of the list.
LEMMA ApartOffsets ==
  ASSUME NEW base \in StreamPositions, NEW sent \in Nat, NEW ranges \in Seq(Ranges),
         Apart(base, sent, ranges), NEW i \in 1..Len(ranges)
  PROVE  /\ ranges[i][1] \in StreamPositions /\ ranges[i][2] \in StreamPositions
         /\ ranges[i] = <<ranges[i][1], ranges[i][2]>>
         /\ WrapSub(ranges[i][1], base) \in Nat /\ WrapSub(ranges[i][2], base) \in Nat
         /\ WrapSub(ranges[i][1], base) < WrapSub(ranges[i][2], base)
         /\ WrapSub(ranges[i][2], base) <= sent
         /\ WrapSub(ranges[i][2], ranges[i][1])
              = WrapSub(ranges[i][2], base) - WrapSub(ranges[i][1], base)
<1>1. /\ ranges[i][1] \in StreamPositions /\ ranges[i][2] \in StreamPositions
      /\ ranges[i] = <<ranges[i][1], ranges[i][2]>>
  BY RangeType
<1>2. /\ WrapSub(ranges[i][1], base) < WrapSub(ranges[i][2], base)
      /\ WrapSub(ranges[i][2], base) <= sent
  BY DEF Apart
<1>3. /\ WrapSub(ranges[i][1], base) \in 0..(Modulus - 1)
      /\ WrapSub(ranges[i][2], base) \in 0..(Modulus - 1)
  BY <1>1, OffsetOf
<1>4. Modulus \in Nat
  BY HalfRangeAssumption DEF Modulus
<1>5. WrapSub(ranges[i][1], base) \in Nat /\ WrapSub(ranges[i][2], base) \in Nat
  BY <1>3, <1>4
<1>6. WrapSub(ranges[i][1], base) <= WrapSub(ranges[i][2], base)
  BY <1>2, <1>5
<1>7. WrapSub(ranges[i][2], ranges[i][1])
        = WrapSub(ranges[i][2], base) - WrapSub(ranges[i][1], base)
  BY <1>1, <1>6, OffsetOf
<1> QED
  BY <1>1, <1>2, <1>5, <1>7

\* Being acknowledged, in offsets.
LEMMA HitOffsets ==
  ASSUME NEW base \in StreamPositions, NEW start \in StreamPositions,
         NEW end \in StreamPositions, NEW last \in StreamPositions,
         WrapSub(start, base) < WrapSub(last, base)
  PROVE  WrapSub(end, start) \in 1..WrapSub(last, start)
           <=> /\ WrapSub(start, base) < WrapSub(end, base)
               /\ WrapSub(end, base) <= WrapSub(last, base)
BY HalfRangeAssumption DEF StreamPositions, Modulus, WrapSub

\* The checks of ack_range before its search place end within the sent bytes.
LEMMA EndInside ==
  ASSUME NEW base \in StreamPositions, NEW start \in StreamPositions,
         NEW end \in StreamPositions, NEW last \in StreamPositions,
         WrapSub(start, base) <= WrapSub(last, base), WrapSub(last, base) <= MaxWindow,
         stream_lt(start, end), stream_le(end, last)
  PROVE  /\ WrapSub(start, base) < WrapSub(end, base)
         /\ WrapSub(end, base) <= WrapSub(last, base)
<1>1. /\ WrapSub(end, start) \in 1..MaxWindow
      /\ WrapSub(last, end) \in 0..MaxWindow
  BY CmpAhead
<1> QED
  BY <1>1, HalfRangeAssumption DEF StreamPositions, Modulus, MaxWindow, WrapSub

\* Which ranges are left when range i was acknowledged up to end.
LEMMA RemainingRanges ==
  ASSUME NEW ranges \in Seq(Ranges), NEW i \in 1..Len(ranges), NEW end \in StreamPositions,
         NEW left, left = Remaining(ranges, i, end)
  PROVE  /\ left \in Seq(Ranges)
         /\ end = ranges[i][2] =>
              /\ Len(left) = Len(ranges) - 1
              /\ \A k \in 1..Len(left) : left[k] = IF k < i THEN ranges[k] ELSE ranges[k + 1]
         /\ end # ranges[i][2] =>
              /\ Len(left) = Len(ranges)
              /\ \A k \in 1..Len(left) :
                   left[k] = IF k = i THEN <<end, ranges[i][2]>> ELSE ranges[k]
<1>1. Len(ranges) \in Nat
  BY LenProperties
<1>2. CASE end = ranges[i][2]
  <2>1. left = Splice(ranges, i, i, <<>>)
    BY <1>2 DEF Remaining
  <2> QED
    BY <1>1, <1>2, <2>1, SpliceOut
<1>3. CASE end # ranges[i][2]
  <2>1. left = [ranges EXCEPT ![i] = [ranges[i] EXCEPT ![1] = end]]
    BY <1>3 DEF Remaining
  <2>2. /\ ranges[i] = <<ranges[i][1], ranges[i][2]>>
        /\ ranges[i][1] \in StreamPositions /\ ranges[i][2] \in StreamPositions
    BY RangeType
  <2>3. [ranges[i] EXCEPT ![1] = end] = <<end, ranges[i][2]>>
    BY <2>2
  <2>4. <<end, ranges[i][2]>> \in Ranges
    BY <2>2 DEF Ranges
  <2>5. left = [ranges EXCEPT ![i] = <<end, ranges[i][2]>>]
    BY <2>1, <2>3
  <2>6. /\ left \in Seq(Ranges) /\ Len(left) = Len(ranges)
        /\ \A k \in 1..Len(ranges) : left[k] = IF k = i THEN <<end, ranges[i][2]>> ELSE ranges[k]
    BY <2>4, <2>5, ExceptSeq
  <2> QED
    BY <1>3, <2>6
<1> QED
  BY <1>2, <1>3

\* They are still in order and apart.
LEMMA RemainingApart ==
  ASSUME NEW base \in StreamPositions, NEW sent \in Nat, NEW ranges \in Seq(Ranges),
         Apart(base, sent, ranges), NEW i \in 1..Len(ranges), NEW end \in StreamPositions,
         Hit(ranges[i], ranges[i][1], end),
         NEW left, left = Remaining(ranges, i, end)
  PROVE  Apart(base, sent, left)
<1> DEFINE O(p) == WrapSub(p, base)
<1>1. /\ left \in Seq(Ranges)
      /\ end = ranges[i][2] =>
           /\ Len(left) = Len(ranges) - 1
           /\ \A k \in 1..Len(left) : left[k] = IF k < i THEN ranges[k] ELSE ranges[k + 1]
      /\ end # ranges[i][2] =>
           /\ Len(left) = Len(ranges)
           /\ \A k \in 1..Len(left) :
                left[k] = IF k = i THEN <<end, ranges[i][2]>> ELSE ranges[k]
  BY RemainingRanges, SMTT(30)
<1>2. Len(ranges) \in Nat /\ Len(left) \in Nat
  BY <1>1, LenProperties
<1>3. \A k \in 1..Len(ranges) :
        /\ O(ranges[k][1]) \in Nat /\ O(ranges[k][2]) \in Nat
        /\ O(ranges[k][1]) < O(ranges[k][2])
        /\ O(ranges[k][2]) <= sent
  BY ApartOffsets
<1>4. \A j, k \in 1..Len(ranges) : j < k => O(ranges[j][2]) <= O(ranges[k][1])
  BY DEF Apart
<1>5. O(end) \in Nat /\ O(ranges[i][1]) < O(end) /\ O(end) <= O(ranges[i][2])
  <2>1. O(end) \in Nat
    BY OffsetOf, HalfRangeAssumption DEF Modulus
  <2>2. ranges[i][1] \in StreamPositions /\ ranges[i][2] \in StreamPositions
    BY RangeType
  <2>3. WrapSub(end, ranges[i][1]) \in 1..WrapSub(ranges[i][2], ranges[i][1])
    BY DEF Hit
  <2> QED
    BY <1>3, <2>1, <2>2, <2>3, HitOffsets
<1> HIDE DEF O
<1>6. CASE end = ranges[i][2]
  <2>1. /\ Len(left) = Len(ranges) - 1
        /\ \A k \in 1..Len(left) : left[k] = IF k < i THEN ranges[k] ELSE ranges[k + 1]
    BY <1>1, <1>6
  <2>2. ASSUME NEW k \in 1..Len(left)
        PROVE  O(left[k][1]) < O(left[k][2]) /\ O(left[k][2]) <= sent
    <3>1. k \in 1..Len(ranges) /\ k + 1 \in 1..Len(ranges)
      BY <1>2, <2>1
    <3> QED
      BY <1>3, <2>1, <3>1
  <2>3. ASSUME NEW j \in 1..Len(left), NEW k \in 1..Len(left), j < k
        PROVE  O(left[j][2]) <= O(left[k][1])
    <3>1. /\ j \in 1..Len(ranges) /\ j + 1 \in 1..Len(ranges)
          /\ k \in 1..Len(ranges) /\ k + 1 \in 1..Len(ranges)
      BY <1>2, <2>1
    <3>2. CASE k < i
      BY <1>4, <2>1, <2>3, <3>1, <3>2
    <3>3. CASE j < i /\ k >= i
      BY <1>4, <2>1, <2>3, <3>1, <3>3
    <3>4. CASE j >= i
      <4>1. left[j] = ranges[j + 1] /\ left[k] = ranges[k + 1] /\ j + 1 < k + 1
        BY <2>1, <2>3, <3>4
      <4> QED
        BY <1>4, <3>1, <4>1
    <3> QED
      BY <2>3, <3>2, <3>3, <3>4
  <2> QED
    BY <2>2, <2>3 DEF Apart, O
<1>7. CASE end # ranges[i][2]
  <2>1. /\ Len(left) = Len(ranges)
        /\ \A k \in 1..Len(ranges) :
             left[k] = IF k = i THEN <<end, ranges[i][2]>> ELSE ranges[k]
    BY <1>1, <1>7
  <2>2. O(end) < O(ranges[i][2])
    <3>1. ranges[i][2] \in StreamPositions
      BY RangeType
    <3>2. O(end) # O(ranges[i][2])
      BY <1>7, <3>1, OffsetOf DEF O
    <3> QED
      BY <1>3, <1>5, <3>2
  <2>3. ASSUME NEW k \in 1..Len(ranges)
        PROVE  /\ left[k][2] = ranges[k][2]
               /\ O(left[k][1]) \in Nat
               /\ O(left[k][1]) < O(ranges[k][2])
               /\ O(ranges[k][1]) <= O(left[k][1])
    <3>1. CASE k = i
      <4>1. left[k] = <<end, ranges[i][2]>>
        BY <2>1, <3>1
      <4> QED
        BY <1>3, <1>5, <2>2, <3>1, <4>1
    <3>2. CASE k # i
      BY <1>3, <2>1, <3>2
    <3> QED
      BY <3>1, <3>2
  <2>4. ASSUME NEW k \in 1..Len(left)
        PROVE  O(left[k][1]) < O(left[k][2]) /\ O(left[k][2]) <= sent
    BY <1>3, <2>1, <2>3
  <2>5. ASSUME NEW j \in 1..Len(left), NEW k \in 1..Len(left), j < k
        PROVE  O(left[j][2]) <= O(left[k][1])
    <3>1. j \in 1..Len(ranges) /\ k \in 1..Len(ranges)
      BY <2>1
    <3>2. O(ranges[j][2]) <= O(ranges[k][1])
      BY <1>4, <2>5, <3>1
    <3>3. /\ left[j][2] = ranges[j][2] /\ O(ranges[k][1]) <= O(left[k][1])
          /\ O(left[k][1]) \in Nat
      BY <2>3, <3>1
    <3> QED
      BY <1>3, <3>1, <3>2, <3>3
  <2> QED
    BY <2>4, <2>5 DEF Apart, O
<1> QED
  BY <1>6, <1>7

\* Moving the base up to the first range of the list.
LEMMA ApartRebase ==
  ASSUME NEW base \in StreamPositions, NEW sent \in Nat, NEW left \in Seq(Ranges),
         left # <<>>, Apart(base, sent, left),
         NEW amt \in Nat, amt = WrapSub(left[1][1], base)
  PROVE  /\ amt <= sent
         /\ WrapAdd(base, amt) \in StreamPositions
         /\ WrapAdd(base, amt) = left[1][1]
         /\ Ordered(WrapAdd(base, amt), sent - amt, left)
<1>1. Len(left) \in Nat /\ 1 \in 1..Len(left)
  BY LenProperties, EmptySeq
<1>2. \A k \in 1..Len(left) :
        /\ left[k][1] \in StreamPositions /\ left[k][2] \in StreamPositions
        /\ WrapSub(left[k][1], base) \in Nat /\ WrapSub(left[k][2], base) \in Nat
        /\ WrapSub(left[k][1], base) < WrapSub(left[k][2], base)
        /\ WrapSub(left[k][2], base) <= sent
  BY ApartOffsets
<1>3. \A j, k \in 1..Len(left) : j < k => WrapSub(left[j][2], base) <= WrapSub(left[k][1], base)
  BY DEF Apart
<1>4. /\ amt <= sent /\ WrapAdd(base, amt) = left[1][1]
      /\ WrapAdd(base, amt) \in StreamPositions
  BY <1>1, <1>2, OffsetOf
<1>5. \A k \in 1..Len(left) : amt <= WrapSub(left[k][1], base)
  <2> SUFFICES ASSUME NEW k \in 1..Len(left) PROVE amt <= WrapSub(left[k][1], base)
    OBVIOUS
  <2>1. CASE k = 1
    BY <1>1, <1>2, <2>1
  <2>2. CASE 1 < k
    BY <1>1, <1>2, <1>3, <2>2
  <2> QED
    BY <1>1, <2>1, <2>2
<1> DEFINE N(p) == WrapSub(p, WrapAdd(base, amt))
<1>6. \A k \in 1..Len(left) : /\ N(left[k][1]) = WrapSub(left[k][1], base) - amt
                              /\ N(left[k][2]) = WrapSub(left[k][2], base) - amt
  <2> SUFFICES ASSUME NEW k \in 1..Len(left)
               PROVE  /\ N(left[k][1]) = WrapSub(left[k][1], base) - amt
                      /\ N(left[k][2]) = WrapSub(left[k][2], base) - amt
    OBVIOUS
  <2>1. /\ left[k][1] \in StreamPositions /\ left[k][2] \in StreamPositions
        /\ amt \in 0..WrapSub(left[k][1], base) /\ amt \in 0..WrapSub(left[k][2], base)
    BY <1>2, <1>5
  <2> QED
    BY <2>1, Rebase
<1> HIDE DEF N
<1>7. ASSUME NEW k \in 1..Len(left)
      PROVE  N(left[k][1]) < N(left[k][2]) /\ N(left[k][2]) <= sent - amt
  BY <1>2, <1>6
<1>8. ASSUME NEW j \in 1..Len(left), NEW k \in 1..Len(left), j < k
      PROVE  N(left[j][2]) <= N(left[k][1])
  BY <1>2, <1>3, <1>6, <1>8
<1>9. Apart(WrapAdd(base, amt), sent - amt, left)
  BY <1>7, <1>8 DEF Apart, N
<1> QED
  BY <1>4, <1>9 DEF Ordered

\* How many bytes ack_range frees when range i is acknowledged up to end.
Freed(w, ranges, i, end) == IF i = 1 THEN AckedAmt(w, ranges, i, end) ELSE 0

\* It frees what comes before the first of the ranges left.
LEMMA RemainingOrdered ==
  ASSUME NEW base \in StreamPositions, NEW sent \in Nat, sent <= MaxWindow,
         NEW ranges \in Seq(Ranges),
         Ordered(base, sent, ranges), NEW i \in 1..Len(ranges), NEW end \in StreamPositions,
         Hit(ranges[i], ranges[i][1], end),
         NEW left, left = Remaining(ranges, i, end),
         NEW w, w.sent = sent, NEW freed, freed = Freed(w, ranges, i, end)
  PROVE  /\ freed \in Nat /\ freed <= sent
         /\ WrapAdd(base, freed) \in StreamPositions
         /\ Ordered(WrapAdd(base, freed), sent - freed, left)
<1>1. /\ left \in Seq(Ranges)
      /\ end = ranges[i][2] =>
           /\ Len(left) = Len(ranges) - 1
           /\ \A k \in 1..Len(left) : left[k] = IF k < i THEN ranges[k] ELSE ranges[k + 1]
      /\ end # ranges[i][2] =>
           /\ Len(left) = Len(ranges)
           /\ \A k \in 1..Len(left) :
                left[k] = IF k = i THEN <<end, ranges[i][2]>> ELSE ranges[k]
  BY RemainingRanges, SMTT(30)
<1>2. Len(ranges) \in Nat /\ Len(left) \in Nat /\ 1 \in 1..Len(ranges)
  BY <1>1, LenProperties
<1>3. Apart(base, sent, ranges) /\ ranges[1][1] = base
  <2>1. ranges # <<>>
    BY <1>2
  <2> QED
    BY <2>1 DEF Ordered
<1>4. Apart(base, sent, left)
  BY <1>3, RemainingApart
<1>5. CASE left = <<>>
  <2>1. Len(left) = 0
    BY <1>5
  <2>2. end = ranges[i][2] /\ i = 1
    BY <1>1, <1>2, <2>1
  <2>3. freed = sent
    BY <1>5, <2>2 DEF Freed, AckedAmt
  <2>4. sent \in 0..(Modulus - 1)
    BY HalfRangeAssumption DEF MaxWindow, Modulus
  <2>5. WrapAdd(base, freed) \in StreamPositions
    BY <2>3, <2>4, WrapType
  <2>6. sent - freed = 0 /\ freed \in Nat /\ freed <= sent
    BY <2>3
  <2>7. Apart(WrapAdd(base, freed), 0, left)
    BY <2>1 DEF Apart
  <2> QED
    BY <1>5, <2>5, <2>6, <2>7 DEF Ordered
<1>6. CASE left # <<>>
  <2>1. 1 \in 1..Len(left)
    BY <1>1, <1>2, <1>6, EmptySeq
  <2>2. left[1][1] \in StreamPositions
    BY <1>1, <2>1, RangeType
  <2>3. WrapSub(left[1][1], base) \in Nat
    BY <2>2, OffsetOf, HalfRangeAssumption DEF Modulus
  <2>4. freed = WrapSub(left[1][1], base)
    <3>1. CASE i # 1
      <4>1. left[1] = ranges[1]
        BY <1>1, <1>2, <2>1, <3>1
      <4>2. WrapSub(left[1][1], base) = 0
        BY <1>3, <4>1, OffsetOf
      <4> QED
        BY <3>1, <4>2 DEF Freed
    <3>2. CASE i = 1 /\ end = ranges[i][2]
      BY <1>3, <1>6, <3>2 DEF Freed, AckedAmt
    <3>3. CASE i = 1 /\ end # ranges[i][2]
      <4>1. left[1] = <<end, ranges[i][2]>>
        BY <1>1, <2>1, <3>3
      <4> QED
        BY <1>3, <3>3, <4>1 DEF Freed, AckedAmt
    <3> QED
      BY <3>1, <3>2, <3>3
  <2> QED
    BY <1>1, <1>4, <1>6, <2>3, <2>4, ApartRebase
<1> QED
  BY <1>5, <1>6

\* The window after an acknowledgement that hits range i.
AckWindow(capacity, w, i, end) ==
  [(IF i = 1 THEN Free(capacity, w, AckedAmt(w, w.unacked_ranges, i, end)) ELSE w)
     EXCEPT !.unacked_ranges = Remaining(w.unacked_ranges, i, end)]

\* What ack_range answers and changes, by the range it hits.
AckOutcome(capacity, w, ranges, start, end, ret) ==
  \/ /\ \A i \in 1..Len(ranges) : ~Hit(ranges[i], start, end)
     /\ ret.result = "NotFound" /\ ret.win = w
  \/ \E i \in 1..Len(ranges) :
       /\ Hit(ranges[i], start, end)
       /\ ret.result = IF end = ranges[i][2] THEN "Ack" ELSE "PartialAck"
       /\ ret.nacked_end = ranges[i][2]
       /\ ret.win = AckWindow(capacity, w, i, end)

(***************************************************************************)
(* ack_range, for every pair of positions: it finds the range that starts  *)
(* at start and reaches end, if there is one, never panics, and changes    *)
(* nothing when there is none.                                             *)
(***************************************************************************)
LEMMA AckAnswer ==
  ASSUME NEW capacity \in Nat \ {0}, capacity <= MaxWindow, NEW w, SendWindowInv(capacity, w),
         NEW start \in StreamPositions, NEW end \in StreamPositions,
         NEW ranges \in Seq(Ranges), ranges = w.unacked_ranges,
         NEW ret, ret = ack_range(capacity, w, start, end)
  PROVE  AckOutcome(capacity, w, ranges, start, end, ret)
<1> USE DEF AckOutcome
<1> DEFINE order == [k \in 1..Len(ranges) |-> stream_cmp(ranges[k][1], start)]
           found == BinarySearch(order)
           first == start = unacked_start(w)
           amt   == AckedAmt(w, ranges, found, end)
           freed == IF first THEN Free(capacity, w, amt) ELSE w
           Return(result, win, nacked) ==
             [result |-> result, win |-> win, nacked_end |-> nacked]
           early == \/ ranges = <<>>
                    \/ ~stream_lt(start, end)
                    \/ ~stream_ge(start, ranges[1][1])
                    \/ ~stream_le(end, ranges[Len(ranges)][2])
           nohit == \A i \in 1..Len(ranges) : ~Hit(ranges[i], start, end)
<1>1. ret = IF early THEN Return("NotFound", w, end)
            ELSE IF ~Ascending(order) THEN Return("Panic", w, end)
            ELSE IF ~BinaryFound(order) \/ stream_gt(end, ranges[found][2])
            THEN Return("NotFound", w, end)
            ELSE IF first /\ (found # 1 \/ amt > w.sent) THEN Return("Panic", w, end)
            ELSE Return(IF end = ranges[found][2] THEN "Ack" ELSE "PartialAck",
                        [freed EXCEPT !.unacked_ranges = Remaining(ranges, found, end)],
                        ranges[found][2])
  BY DEF ack_range
<1> HIDE DEF order, found, amt, freed
<1>2. PICK base \in StreamPositions, sent \in Nat :
        /\ base = unacked_start(w) /\ sent = w.sent /\ sent <= MaxWindow
        /\ Ordered(base, sent, ranges) /\ Apart(base, sent, ranges)
  <2>1. /\ w.sent \in Nat /\ w.sent <= MaxWindow /\ unacked_start(w) \in StreamPositions
    BY SendWindowFacts
  <2> QED
    BY <2>1 DEF SendWindowInv, Ordered
<1>3. MaxWindow \in Nat /\ Len(ranges) \in Nat
  BY LenProperties, HalfRangeAssumption DEF MaxWindow
<1> DEFINE O(p) == WrapSub(p, base)
<1>4. \A i \in 1..Len(ranges) :
        /\ ranges[i][1] \in StreamPositions /\ ranges[i][2] \in StreamPositions
        /\ O(ranges[i][1]) \in Nat /\ O(ranges[i][2]) \in Nat
        /\ O(ranges[i][1]) < O(ranges[i][2])
        /\ O(ranges[i][2]) <= sent
  BY <1>2, ApartOffsets
<1>5. \A i, j \in 1..Len(ranges) : i < j => O(ranges[i][2]) <= O(ranges[j][1])
  BY <1>2 DEF Apart
<1>6. O(start) \in Nat /\ O(end) \in Nat
  BY OffsetOf, HalfRangeAssumption DEF Modulus
<1>7. \A i \in 1..Len(ranges) :
        Hit(ranges[i], start, end)
          <=> ranges[i][1] = start /\ O(start) < O(end) /\ O(end) <= O(ranges[i][2])
  <2> SUFFICES ASSUME NEW i \in 1..Len(ranges), ranges[i][1] = start
               PROVE  Hit(ranges[i], start, end)
                        <=> O(start) < O(end) /\ O(end) <= O(ranges[i][2])
    BY DEF Hit
  <2>1. ranges[i][2] \in StreamPositions /\ O(start) < O(ranges[i][2])
    BY <1>4
  <2>2. WrapSub(end, start) \in 1..WrapSub(ranges[i][2], start)
          <=> O(start) < O(end) /\ O(end) <= O(ranges[i][2])
    BY <2>1, HitOffsets
  <2> QED
    BY <2>2 DEF Hit
<1> HIDE DEF O
<1>8. CASE early
  <2>1. ASSUME NEW i \in 1..Len(ranges), Hit(ranges[i], start, end)
        PROVE  FALSE
    <3> DEFINE last == ranges[Len(ranges)][2]
    <3>0. /\ ranges[i][1] = start /\ O(start) < O(end) /\ O(end) <= O(ranges[i][2])
          /\ ranges # <<>> /\ 1 \in 1..Len(ranges) /\ Len(ranges) \in 1..Len(ranges)
      BY <1>3, <1>7, <2>1
    <3>1. /\ last \in StreamPositions /\ O(last) \in Nat /\ O(last) <= sent
          /\ O(ranges[i][2]) <= O(last)
      <4>1. CASE i = Len(ranges)
        BY <1>4, <3>0, <4>1
      <4>2. CASE i < Len(ranges)
        BY <1>4, <1>5, <3>0, <4>2, SMTT(30)
      <4> QED
        BY <1>3, <1>4, <3>0, <4>1, <4>2
    <3> HIDE DEF last
    <3>2. O(ranges[i][2]) \in Nat
      BY <1>4
    <3>3. /\ O(start) <= MaxWindow /\ O(end) <= MaxWindow /\ O(last) <= MaxWindow
          /\ O(start) < O(end) /\ O(end) <= O(last) /\ 0 <= O(start)
      BY <1>2, <1>3, <1>6, <3>0, <3>1, <3>2
    <3>4. stream_lt(start, end)
      BY <3>3, CmpOffsets DEF O
    <3>5. stream_le(end, last)
      BY <3>1, <3>3, CmpOffsets DEF O
    <3>6. stream_ge(start, ranges[1][1])
      <4>1. ranges[1][1] = base /\ O(base) = 0
        BY <1>2, <3>0, OffsetOf DEF Ordered, O
      <4>2. O(base) <= MaxWindow /\ O(start) >= O(base)
        BY <1>3, <1>6, <4>1
      <4> QED
        BY <3>3, <4>1, <4>2, CmpOffsets DEF O
    <3> QED
      BY <1>8, <3>0, <3>4, <3>5, <3>6 DEF last
  <2>2. ret = Return("NotFound", w, end)
    BY <1>1, <1>8
  <2> QED
    BY <2>1, <2>2
<1>9. CASE ~early
  <2>1. /\ ranges # <<>> /\ stream_lt(start, end) /\ stream_ge(start, ranges[1][1])
        /\ stream_le(end, ranges[Len(ranges)][2])
        /\ 1 \in 1..Len(ranges) /\ Len(ranges) \in 1..Len(ranges)
    BY <1>3, <1>9, EmptySeq
  <2>2. ranges[1][1] = base
    BY <1>2, <2>1 DEF Ordered
  <2>3. O(start) <= MaxWindow
    <3>1. O(start) \in 0..MaxWindow
      BY <2>1, <2>2, CmpAhead DEF O
    <3> QED
      BY <1>3, <3>1
  <2>4. /\ Ascending(order)
        /\ BinaryFound(order) <=> \E i \in 1..Len(ranges) : ranges[i][1] = start
        /\ \A i \in 1..Len(ranges) : ranges[i][1] = start => found = i
    <3>1. sent \in 0..MaxWindow
      BY <1>2, <1>3
    <3> QED
      BY <1>2, <2>3, <3>1, RangeSearch, SMTT(30) DEF order, found, O
  <2>5. CASE ~BinaryFound(order)
    <3>1. ret = Return("NotFound", w, end)
      BY <1>1, <1>9, <2>4, <2>5
    <3>2. nohit
      BY <1>7, <2>4, <2>5
    <3> QED
      BY <3>1, <3>2
  <2>6. CASE BinaryFound(order)
    <3>1. found \in 1..Len(ranges) /\ ranges[found][1] = start
      BY <2>4, <2>6
    <3>2. PICK i \in 1..Len(ranges) : i = found /\ ranges[i][1] = start
      BY <3>1
    <3> DEFINE last == ranges[Len(ranges)][2]
    <3>3. /\ last \in StreamPositions /\ O(last) \in Nat /\ O(last) <= MaxWindow
          /\ O(ranges[i][2]) <= O(last)
      <4>0. /\ last \in StreamPositions /\ O(last) \in Nat /\ O(last) <= MaxWindow
            /\ O(ranges[Len(ranges)][1]) < O(last) /\ O(ranges[Len(ranges)][1]) \in Nat
        <5>1. PICK n \in 1..Len(ranges) : n = Len(ranges)
          BY <2>1
        <5>2. /\ ranges[n][2] \in StreamPositions /\ O(ranges[n][2]) \in Nat
              /\ O(ranges[n][1]) \in Nat /\ O(ranges[n][1]) < O(ranges[n][2])
              /\ O(ranges[n][2]) <= sent
          BY <1>4
        <5>3. O(ranges[n][2]) <= MaxWindow
          BY <1>2, <1>3, <5>2
        <5> QED
          BY <5>1, <5>2, <5>3
      <4>1. CASE i = Len(ranges)
        BY <4>0, <4>1
      <4>2. CASE i < Len(ranges)
        <5>1. O(ranges[i][2]) <= O(ranges[Len(ranges)][1]) /\ O(ranges[i][2]) \in Nat
          BY <1>4, <1>5, <2>1, <4>2
        <5> QED
          BY <4>0, <5>1
      <4> QED
        BY <1>3, <4>1, <4>2
    <3>4. stream_le(end, last)
      BY <2>1
    <3> HIDE DEF last
    <3>5. /\ ranges[i][2] \in StreamPositions /\ O(ranges[i][2]) \in Nat
          /\ O(start) < O(ranges[i][2])
      BY <1>4, <3>2
    <3>6. O(start) < O(end) /\ O(end) <= O(last)
      <4>1. O(start) <= O(last)
        BY <1>6, <3>3, <3>5
      <4> QED
        BY <2>1, <3>3, <3>4, <4>1, EndInside DEF O
    <3>7. stream_gt(end, ranges[i][2]) <=> O(end) > O(ranges[i][2])
      <4>1. O(end) <= MaxWindow /\ O(ranges[i][2]) <= MaxWindow
        BY <1>3, <1>6, <3>3, <3>5, <3>6
      <4> QED
        BY <3>5, <4>1, CmpOffsets DEF O
    <3>8. CASE stream_gt(end, ranges[i][2])
      <4>1. ret = Return("NotFound", w, end)
        BY <1>1, <1>9, <2>4, <3>2, <3>8
      <4>2. ASSUME NEW j \in 1..Len(ranges), Hit(ranges[j], start, end) PROVE FALSE
        <5>1. j = i
          BY <1>7, <2>4, <3>2, <4>2
        <5> QED
          BY <1>6, <1>7, <3>5, <3>7, <3>8, <4>2, <5>1
      <4> QED
        BY <4>1, <4>2
    <3>9. CASE ~stream_gt(end, ranges[i][2])
      <4>1. Hit(ranges[i], start, end)
        BY <1>6, <1>7, <3>2, <3>5, <3>6, <3>7, <3>9
      <4>2. first <=> i = 1
        <5>1. CASE i = 1
          BY <1>2, <2>2, <3>2, <5>1
        <5>2. CASE 1 < i
          <6>1. O(ranges[1][2]) <= O(ranges[i][1]) /\ O(ranges[1][1]) < O(ranges[1][2])
            BY <1>4, <1>5, <2>1, <5>2
          <6>2. O(ranges[i][1]) # O(ranges[1][1])
            BY <1>4, <2>1, <6>1
          <6> QED
            BY <1>2, <2>2, <3>2, <5>2, <6>2
        <5> QED
          BY <1>3, <5>1, <5>2
      <4>3. i = 1 => amt <= w.sent /\ amt \in Nat
        <5>1. Hit(ranges[i], ranges[i][1], end)
          BY <3>2, <4>1
        <5>2. Freed(w, ranges, i, end) \in Nat /\ Freed(w, ranges, i, end) <= sent
          BY <1>2, <5>1, RemainingOrdered
        <5> QED
          BY <1>2, <3>2, <5>2 DEF Freed, amt
      <4>4. ~(first /\ (found # 1 \/ amt > w.sent))
        BY <1>2, <3>2, <4>2, <4>3
      <4>5. ret = Return(IF end = ranges[i][2] THEN "Ack" ELSE "PartialAck",
                         [freed EXCEPT !.unacked_ranges = Remaining(ranges, i, end)],
                         ranges[i][2])
        BY <1>1, <1>9, <2>4, <2>6, <3>2, <3>9, <4>4
      <4>6. [freed EXCEPT !.unacked_ranges = Remaining(ranges, i, end)]
              = AckWindow(capacity, w, i, end)
        BY <3>2, <4>2 DEF freed, amt, AckWindow
      <4> QED
        BY <4>1, <4>5, <4>6
    <3> QED
      BY <3>8, <3>9
  <2> QED
    BY <2>5, <2>6
<1> QED
  BY <1>8, <1>9

\* What the acknowledgement of range i up to end leaves in the window.
LEMMA AckWindowInv ==
  ASSUME NEW capacity \in Nat \ {0}, capacity <= MaxWindow, NEW w, SendWindowInv(capacity, w),
         NEW ranges \in Seq(Ranges), ranges = w.unacked_ranges,
         NEW i \in 1..Len(ranges), NEW end \in StreamPositions,
         Hit(ranges[i], ranges[i][1], end),
         NEW after, after = AckWindow(capacity, w, i, end)
  PROVE  /\ SendWindowInv(capacity, after)
         /\ Freed(w, ranges, i, end) \in Nat /\ Freed(w, ranges, i, end) <= w.sent
         /\ after.sent = w.sent - Freed(w, ranges, i, end)
         /\ after.buf.used = w.buf.used - Freed(w, ranges, i, end)
         /\ after.send_pos = w.send_pos
         /\ after.unacked_ranges = Remaining(ranges, i, end)
         /\ unacked_start(after) = WrapAdd(unacked_start(w), Freed(w, ranges, i, end))
<1>0. w \in SendWindows(capacity) /\ w.buf \in Queues(capacity)
  BY DEF SendWindowInv, SendWindows
<1>1. /\ w.buf.used \in Nat /\ w.sent \in Nat /\ w.sent <= w.buf.used
      /\ w.buf.used <= capacity /\ MaxWindow \in Nat
      /\ w.send_pos \in StreamPositions
      /\ unacked_start(w) \in StreamPositions
      /\ WrapSub(w.send_pos, unacked_start(w)) = w.sent
  BY SendWindowFacts
<1>2. PICK base \in StreamPositions, sent \in Nat, used \in Nat :
        /\ base = unacked_start(w) /\ sent = w.sent /\ used = w.buf.used
  BY <1>1
<1>3. sent <= used /\ used <= capacity /\ sent <= MaxWindow /\ Modulus \in Nat /\ used < Modulus
  BY <1>1, <1>2, HalfRangeAssumption DEF MaxWindow, Modulus
<1>4. PICK left \in Seq(Ranges) : left = Remaining(ranges, i, end)
  BY RemainingRanges
<1>5. PICK freed \in Nat : freed = Freed(w, ranges, i, end)
  <2>1. Ordered(base, sent, ranges)
    BY <1>2 DEF SendWindowInv
  <2> QED
    BY <1>2, <1>3, <2>1, RemainingOrdered
<1>6. /\ freed <= sent
      /\ WrapAdd(base, freed) \in StreamPositions
      /\ Ordered(WrapAdd(base, freed), sent - freed, left)
  <2>1. Ordered(base, sent, ranges)
    BY <1>2 DEF SendWindowInv
  <2> QED
    BY <1>2, <1>3, <1>4, <1>5, <2>1, RemainingOrdered
<1>7. /\ after.send_pos = w.send_pos /\ after.sent = sent - freed
      /\ after.unacked_ranges = left
      /\ after.buf \in Queues(capacity) /\ after.buf.used = used - freed
      /\ \A k \in 0..(capacity - 1 - freed) : after.buf.cells[k] = w.buf.cells[k + freed]
      /\ after \in SendWindows(capacity)
  <2>1. sent - freed \in 0..capacity
    BY <1>3, <1>6
  <2>2. CASE i = 1
    <3> DEFINE buf == ReaderAdvance(capacity, w.buf, freed)
    <3>1. freed \in 0..w.buf.used
      BY <1>2, <1>3, <1>6
    <3>2. /\ buf \in Queues(capacity) /\ buf.used = used - freed
          /\ \A k \in 0..(capacity - 1 - freed) : buf.cells[k] = w.buf.cells[k + freed]
      BY <1>0, <1>2, <3>1, ReaderAdvances
    <3> HIDE DEF buf
    <3>3. Free(capacity, w, freed) = [w EXCEPT !.buf = buf, !.sent = sent - freed]
      BY <1>0, <1>2 DEF Free, SendWindows, buf
    <3>4. after = [w EXCEPT !.buf = buf, !.sent = sent - freed, !.unacked_ranges = left]
      BY <1>0, <1>4, <1>5, <2>2, <3>3 DEF AckWindow, Freed, SendWindows
    <3>5. /\ after.send_pos = w.send_pos /\ after.sent = sent - freed
          /\ after.unacked_ranges = left /\ after.buf = buf
      BY <1>0, <3>4 DEF SendWindows
    <3>6. after \in SendWindows(capacity)
      BY <1>0, <2>1, <3>2, <3>4 DEF SendWindows
    <3> QED
      BY <3>2, <3>5, <3>6
  <2>3. CASE i # 1
    <3>1. freed = 0
      BY <1>5, <2>3 DEF Freed
    <3>2. after = [w EXCEPT !.unacked_ranges = left]
      BY <1>4, <2>3 DEF AckWindow
    <3>3. /\ after.send_pos = w.send_pos /\ after.sent = w.sent
          /\ after.unacked_ranges = left /\ after.buf = w.buf
          /\ after \in SendWindows(capacity)
      BY <1>0, <3>2 DEF SendWindows
    <3>4. sent - freed = sent /\ used - freed = used
          /\ \A k \in 0..(capacity - 1 - freed) : k + freed = k
      BY <3>1
    <3> QED
      BY <1>0, <1>2, <3>3, <3>4
  <2> QED
    BY <2>2, <2>3
<1>8. unacked_start(after) = WrapAdd(base, freed)
  <2>1. WrapSub(w.send_pos, base) = sent
    BY <1>1, <1>2
  <2>2. WrapSub(w.send_pos, sent - freed) = WrapAdd(base, freed)
    <3>1. freed \in 0..WrapSub(w.send_pos, base)
      BY <1>6, <2>1
    <3> QED
      BY <1>1, <2>1, <3>1, Rebase
  <2> QED
    BY <1>7, <2>2 DEF unacked_start
<1>9. ASSUME NEW k \in Nat, k < used - freed
      PROVE  after.buf.cells[k] = WrapAdd(WrapAdd(base, freed), k)
  <2>1. k \in 0..(capacity - 1 - freed) /\ k + freed \in Nat /\ k + freed < used
    BY <1>3, <1>6, <1>9, SMTT(30)
  <2>2. k + freed \in 0..(w.buf.used - 1)
    BY <1>2, <2>1
  <2>3. w.buf.cells[k + freed] = WrapAdd(base, k + freed)
    BY <1>2, <2>2 DEF SendWindowInv, KeepsStream
  <2>4. freed + k = k + freed /\ freed + k < Modulus
    BY <1>3, <2>1
  <2>5. WrapAdd(WrapAdd(base, freed), k) = WrapAdd(base, freed + k)
    BY <2>4, WrapAddAssociative
  <2> QED
    BY <1>7, <2>1, <2>3, <2>4, <2>5
<1>10. KeepsStream(after)
  <2>1. ASSUME NEW k \in 0..(after.buf.used - 1)
        PROVE  after.buf.cells[k] = WrapAdd(unacked_start(after), k)
    BY <1>3, <1>6, <1>7, <1>8, <1>9
  <2> QED
    BY <2>1 DEF KeepsStream
<1>11. after.sent <= after.buf.used
  BY <1>3, <1>6, <1>7
<1>12. SendWindowInv(capacity, after)
  BY <1>6, <1>7, <1>8, <1>10, <1>11 DEF SendWindowInv
<1> QED
  BY <1>2, <1>4, <1>5, <1>6, <1>7, <1>8, <1>12

\* A range that is not acknowledged can be read from the ring.
LEMMA GetUnacked ==
  ASSUME NEW capacity \in Nat \ {0}, capacity <= MaxWindow, NEW w, SendWindowInv(capacity, w),
         NEW p \in StreamPositions, NEW n \in Nat,
         WrapSub(p, unacked_start(w)) + n <= w.buf.used
  PROVE  get_unacked(w, p, n) = [k \in 1..n |-> WrapAdd(p, k - 1)]
<1>0. w.buf \in Queues(capacity)
  BY DEF SendWindowInv, SendWindows
<1>1. /\ w.buf.used \in Nat /\ w.buf.used <= capacity /\ MaxWindow \in Nat
      /\ unacked_start(w) \in StreamPositions
  BY SendWindowFacts
<1>2. PICK base \in StreamPositions, used \in Nat : base = unacked_start(w) /\ used = w.buf.used
  BY <1>1
<1>3. PICK o \in Nat : o = WrapSub(p, base)
  BY OffsetOf, HalfRangeAssumption DEF Modulus
<1>4. p = WrapAdd(base, o) /\ o + n <= used /\ used < Modulus /\ Modulus \in Nat
  BY <1>1, <1>2, <1>3, OffsetOf, HalfRangeAssumption DEF MaxWindow, Modulus
<1>5. /\ get_unacked(w, p, n) \in [1..n -> Int]
      /\ \A k \in 1..n : get_unacked(w, p, n)[k] = w.buf.cells[o + k - 1]
  <2>1. get_unacked(w, p, n) = Read(w.buf, o, n)
    BY <1>2, <1>3 DEF get_unacked
  <2>2. o + n <= w.buf.used
    BY <1>2, <1>4
  <2> QED
    BY <1>0, <2>1, <2>2, ReadReturns
<1>6. ASSUME NEW k \in 1..n PROVE w.buf.cells[o + k - 1] = WrapAdd(p, k - 1)
  <2>1. /\ o + k - 1 \in 0..(w.buf.used - 1) /\ k - 1 \in Nat
        /\ o + (k - 1) = o + k - 1 /\ o + (k - 1) < Modulus
    BY <1>2, <1>4
  <2>2. w.buf.cells[o + k - 1] = WrapAdd(base, o + k - 1)
    BY <1>2, <2>1 DEF SendWindowInv, KeepsStream
  <2>3. WrapAdd(WrapAdd(base, o), k - 1) = WrapAdd(base, o + (k - 1))
    BY <2>1, WrapAddAssociative
  <2> QED
    BY <1>4, <2>1, <2>2, <2>3
<1> QED
  BY <1>5, <1>6

----------------------------------------------------------------------------
(* Lists of regions: a receive window keeps those it has received ahead of *)
(* the ready bytes.                                                        *)

\* A set of numbers that is not empty has a least element.
LEMMA LeastExists ==
  ASSUME NEW T, T \subseteq Nat, T # {}
  PROVE  \E x \in T : \A y \in T : x <= y
<1> DEFINE R == OpToRel(<, Nat)
<1>1. IsWellFoundedOn(R, Nat)
  BY NatLessThanWellFounded
<1>2. \A x, y \in Nat : x < y => <<x, y>> \in R
  BY DEF OpToRel
<1> HIDE DEF R
<1>3. PICK x \in T : \A y \in T : ~(<<y, x>> \in R)
  BY <1>1, WFMin
<1>4. ASSUME NEW y \in T PROVE x <= y
  <2>1. ~(y < x)
    BY <1>2, <1>3
  <2> QED
    BY <2>1
<1> QED
  BY <1>4

\* Not empty, in order, not touching each other, and up to top.
Separate(base, top, list) ==
  /\ \A i \in 1..Len(list) : WrapSub(list[i][1], base) < WrapSub(list[i][2], base)
  /\ \A i \in 1..Len(list) : WrapSub(list[i][2], base) <= top
  /\ \A i, j \in 1..Len(list) :
       i < j => WrapSub(list[i][2], base) < WrapSub(list[j][1], base)

\* No region contains the offset or touches it.
Clear(base, at, list) ==
  \A i \in 1..Len(list) : WrapSub(list[i][2], base) < at \/ at < WrapSub(list[i][1], base)

\* One of the regions contains the offset.
Inside(base, list, o) ==
  \E i \in 1..Len(list) : WrapSub(list[i][1], base) <= o /\ o < WrapSub(list[i][2], base)

\* The bounds of the regions are numbers.
LEMMA RegionOffsets ==
  ASSUME NEW base \in StreamPositions, NEW list \in Seq(Ranges), NEW i \in 1..Len(list)
  PROVE  /\ list[i][1] \in StreamPositions /\ list[i][2] \in StreamPositions
         /\ WrapSub(list[i][1], base) \in Nat /\ WrapSub(list[i][2], base) \in Nat
<1>1. list[i][1] \in StreamPositions /\ list[i][2] \in StreamPositions
  BY RangeType
<1> QED
  BY <1>1, OffsetOf, HalfRangeAssumption DEF Modulus

\* The comparisons do not fail and the search finds the first region that ends at p or later.
LEMMA RegionSearch ==
  ASSUME NEW base \in StreamPositions, NEW top \in Nat, top <= MaxWindow,
         NEW list \in Seq(Ranges), Separate(base, top, list),
         NEW p \in StreamPositions, WrapSub(p, base) <= MaxWindow,
         NEW order, order = [k \in 1..Len(list) |-> stream_cmp(list[k][2], p)]
  PROVE  /\ Ascending(order)
         /\ BinarySearch(order) \in Nat
         /\ BinarySearch(order) >= 1 /\ BinarySearch(order) <= Len(list) + 1
         /\ \A j \in 1..Len(list) : j < BinarySearch(order)
              => WrapSub(list[j][2], base) < WrapSub(p, base)
         /\ \A j \in 1..Len(list) : j >= BinarySearch(order)
              => WrapSub(list[j][2], base) >= WrapSub(p, base)
<1> DEFINE O(q) == WrapSub(q, base)
<1>1. Len(list) \in Nat /\ MaxWindow \in Nat
  BY LenProperties, HalfRangeAssumption DEF MaxWindow
<1>2. O(p) \in Nat
  BY OffsetOf, HalfRangeAssumption DEF Modulus
<1>3. ASSUME NEW i \in 1..Len(list)
      PROVE  /\ O(list[i][1]) \in Nat /\ O(list[i][2]) \in Nat
             /\ order[i] = IF O(list[i][2]) < O(p) THEN "Less"
                           ELSE IF O(list[i][2]) > O(p) THEN "Greater" ELSE "Equal"
  <2>1. /\ list[i][1] \in StreamPositions /\ list[i][2] \in StreamPositions
        /\ O(list[i][1]) \in Nat /\ O(list[i][2]) \in Nat
    BY RegionOffsets
  <2>2. O(list[i][2]) <= top
    BY DEF Separate
  <2>3. O(list[i][2]) <= MaxWindow
    BY <1>1, <2>1, <2>2
  <2> QED
    BY <2>1, <2>3, CmpOffsets
<1>4. ASSUME NEW i \in 1..Len(list), NEW j \in 1..Len(list), i < j
      PROVE  O(list[i][2]) < O(list[j][2])
  <2>1. O(list[i][2]) < O(list[j][1]) /\ O(list[j][1]) < O(list[j][2])
    BY <1>4 DEF Separate
  <2> QED
    BY <1>3, <2>1
<1>5. Len(order) = Len(list)
  BY <1>1
<1> HIDE DEF O
<1>6. Ascending(order)
  <2> SUFFICES ASSUME NEW i \in 1..Len(list), NEW j \in 1..Len(list)
               PROVE  /\ order[i] # "None"
                      /\ i < j => ~(order[i] = "Greater" /\ order[j] # "Greater")
                      /\ i < j => ~(order[i] = "Equal" /\ order[j] = "Less")
    BY <1>5 DEF Ascending
  <2> QED
    BY <1>2, <1>3, <1>4, SMTT(30)
<1> DEFINE Split(n) == /\ \A j \in 1..(n - 1) : order[j] = "Less"
                       /\ \A j \in n..Len(order) : order[j] # "Less"
<1>7. \E n \in 1..(Len(order) + 1) : Split(n)
  <2> DEFINE T == {n \in Nat : n >= 1 /\ (n \in 1..Len(list) => order[n] # "Less")}
  <2>1. Len(list) + 1 \in T
    BY <1>1
  <2>2. PICK n \in T : \A m \in T : n <= m
    <3>1. T \subseteq Nat /\ T # {}
      BY <2>1
    <3> HIDE DEF T
    <3> QED
      BY <3>1, LeastExists
  <2>3. n \in 1..(Len(order) + 1)
    BY <1>1, <1>5, <2>1, <2>2
  <2>4. ASSUME NEW j \in 1..(n - 1) PROVE order[j] = "Less"
    <3>1. j \in Nat /\ j < n /\ j >= 1 /\ j \in 1..Len(list)
      BY <1>1, <1>5, <2>3
    <3>2. j \notin T
      <4> SUFFICES ASSUME j \in T PROVE FALSE
        OBVIOUS
      <4>1. n <= j /\ n \in Nat
        BY <2>2
      <4> QED
        BY <3>1, <4>1
    <3> QED
      BY <3>1, <3>2
  <2>5. ASSUME NEW j \in n..Len(order) PROVE order[j] # "Less"
    <3>1. j \in 1..Len(list) /\ n \in 1..Len(list)
      BY <1>1, <1>5, <2>3
    <3>2. order[n] # "Less"
      BY <2>2, <3>1
    <3>3. n = j \/ n < j
      BY <1>1, <2>3, <1>5
    <3>4. order[n] = "Equal" \/ order[n] = "Greater"
      BY <1>3, <3>1, <3>2
    <3>5. CASE n < j
      <4>1. O(list[n][2]) < O(list[j][2])
        BY <1>4, <3>1, <3>5
      <4> QED
        BY <1>2, <1>3, <3>1, <3>2, <4>1, SMTT(30)
    <3> QED
      BY <3>2, <3>3, <3>5
  <2> QED
    BY <2>3, <2>4, <2>5
<1>8. BinarySearch(order) = CHOOSE n \in 1..(Len(order) + 1) : Split(n)
  BY DEF BinarySearch
<1>9. BinarySearch(order) \in 1..(Len(order) + 1) /\ Split(BinarySearch(order))
  <2> HIDE DEF Split
  <2> QED
    BY <1>7, <1>8
<1>10. PICK n \in Nat : n = BinarySearch(order) /\ n >= 1 /\ n <= Len(list) + 1 /\ Split(n)
  <2> HIDE DEF Split
  <2>1. PICK n \in 1..(Len(list) + 1) : n = BinarySearch(order) /\ Split(n)
    BY <1>5, <1>9
  <2>2. n \in Nat /\ n >= 1 /\ n <= Len(list) + 1
    BY <1>1
  <2> QED
    BY <2>1, <2>2
<1>11. ASSUME NEW j \in 1..Len(list), j < n PROVE O(list[j][2]) < O(p)
  <2>1. order[j] = "Less"
    <3>1. j \in 1..(n - 1)
      BY <1>1, <1>11
    <3> QED
      BY <1>10, <3>1
  <2> QED
    BY <1>2, <1>3, <2>1
<1>12. ASSUME NEW j \in 1..Len(list), j >= n PROVE O(list[j][2]) >= O(p)
  <2>1. order[j] # "Less"
    <3>1. j \in n..Len(order)
      BY <1>1, <1>5, <1>12
    <3> QED
      BY <1>10, <3>1
  <2> QED
    BY <1>2, <1>3, <2>1
<1> QED
  BY <1>6, <1>10, <1>11, <1>12 DEF O

\* new is list with the elements from..to replaced by x.
Spliced(list, from, to, x, new) ==
  /\ Len(new) = Len(list) - (to - from)
  /\ \A k \in 1..Len(new) :
       new[k] = IF k < from THEN list[k] ELSE IF k = from THEN x ELSE list[k + (to - from)]

\* Several elements become one.
LEMMA SpliceOne ==
  ASSUME NEW S, NEW list \in Seq(S), NEW x \in S, NEW from \in Nat, NEW to \in Nat,
         from >= 1, from <= to + 1, to <= Len(list)
  PROVE  /\ Splice(list, from, to, <<x>>) \in Seq(S)
         /\ Spliced(list, from, to, x, Splice(list, from, to, <<x>>))
<1>1. PICK n \in Nat : n = Len(list)
  BY LenProperties
<1> DEFINE a == SubSeq(list, 1, from - 1)
           m == <<x>>
           b == SubSeq(list, to + 1, Len(list))
<1>2. /\ a \in Seq(S) /\ Len(a) = from - 1
      /\ \A k \in 1..(from - 1) : a[k] = list[k]
  <2>1. from - 1 \in 0..Len(list)
    BY <1>1
  <2>2. /\ a \in Seq(S)
        /\ Len(a) = IF 1 <= from - 1 THEN from - 1 - 1 + 1 ELSE 0
        /\ \A k \in 1..(from - 1 - 1 + 1) : a[k] = list[1 + k - 1]
    BY <1>1, <2>1, SubSeqProperties
  <2> QED
    BY <2>2
<1>3. /\ b \in Seq(S) /\ Len(b) = n - to
      /\ \A k \in 1..(n - to) : b[k] = list[to + k]
  <2>1. to + 1 \in 1..(Len(list) + 1)
    BY <1>1
  <2>2. /\ b \in Seq(S)
        /\ Len(b) = IF to + 1 <= Len(list) THEN Len(list) - (to + 1) + 1 ELSE 0
        /\ \A k \in 1..(Len(list) - (to + 1) + 1) : b[k] = list[to + 1 + k - 1]
    BY <1>1, <2>1, SubSeqProperties
  <2> QED
    BY <1>1, <2>2
<1>4. m \in Seq(S) /\ Len(m) = 1 /\ m[1] = x
  OBVIOUS
<1> HIDE DEF a, b, m
<1>5. /\ a \o m \in Seq(S) /\ Len(a \o m) = from
      /\ \A k \in 1..from : (a \o m)[k] = IF k < from THEN list[k] ELSE x
  <2>1. /\ a \o m \in Seq(S) /\ Len(a \o m) = Len(a) + Len(m)
        /\ \A k \in 1..(Len(a) + Len(m)) :
             (a \o m)[k] = IF k <= Len(a) THEN a[k] ELSE m[k - Len(a)]
    BY <1>2, <1>4, ConcatProperties
  <2>2. ASSUME NEW k \in 1..from PROVE (a \o m)[k] = IF k < from THEN list[k] ELSE x
    <3>1. k \in 1..(Len(a) + Len(m))
      BY <1>2, <1>4
    <3>2. CASE k < from
      BY <1>2, <2>1, <3>1, <3>2
    <3>3. CASE k = from
      <4>1. (a \o m)[k] = m[k - Len(a)] /\ k - Len(a) = 1
        BY <1>2, <2>1, <3>1, <3>3
      <4>2. ~(k < from)
        BY <3>3
      <4>3. m[k - Len(a)] = m[1]
        BY <4>1
      <4> QED
        BY <1>4, <4>1, <4>2, <4>3
    <3>4. k < from \/ k = from
      OBVIOUS
    <3> QED
      BY <3>2, <3>3, <3>4
  <2> QED
    BY <1>2, <1>4, <2>1, <2>2
<1> DEFINE c == a \o m
           d == c \o b
<1>6. c \in Seq(S) /\ Len(c) = from /\ \A k \in 1..from : c[k] = IF k < from THEN list[k] ELSE x
  BY <1>5
<1>7. Splice(list, from, to, <<x>>) = d
  BY DEF Splice, a, b, m
<1> HIDE DEF c
<1>8. /\ d \in Seq(S) /\ Len(d) = Len(c) + Len(b)
      /\ \A k \in 1..(Len(c) + Len(b)) : d[k] = IF k <= Len(c) THEN c[k] ELSE b[k - Len(c)]
  BY <1>3, <1>6, ConcatProperties, ZenonT(30)
<1> HIDE DEF d
<1>9. Len(d) = n - (to - from)
  BY <1>3, <1>6, <1>8
<1>10. ASSUME NEW k \in 1..Len(d)
       PROVE  d[k] = IF k < from THEN list[k] ELSE IF k = from THEN x ELSE list[k + (to - from)]
  <2>1. k \in Nat /\ k >= 1 /\ k <= n - (to - from) /\ k \in 1..(Len(c) + Len(b))
    BY <1>8, <1>9
  <2>2. CASE k <= from
    BY <1>6, <1>8, <2>1, <2>2
  <2>3. CASE k > from
    <3>1. d[k] = b[k - from]
      BY <1>6, <1>8, <2>1, <2>3
    <3>2. k - from \in 1..(n - to) /\ to + (k - from) = k + (to - from)
      BY <2>1, <2>3
    <3>3. b[k - from] = list[to + (k - from)]
      BY <1>3, <3>2
    <3>4. ~(k < from) /\ k # from
      BY <2>1, <2>3
    <3> QED
      BY <3>1, <3>2, <3>3, <3>4
  <2> QED
    BY <2>1, <2>2, <2>3
<1> QED
  BY <1>1, <1>7, <1>8, <1>9, <1>10 DEF Spliced

\* An element behind the last.
LEMMA AppendSpliced ==
  ASSUME NEW S, NEW list \in Seq(S), NEW x \in S, NEW n \in Nat, n = Len(list)
  PROVE  /\ Append(list, x) \in Seq(S)
         /\ Spliced(list, n + 1, n, x, Append(list, x))
<1>1. /\ Append(list, x) \in Seq(S) /\ Len(Append(list, x)) = n + 1
      /\ \A k \in 1..n : Append(list, x)[k] = list[k]
      /\ Append(list, x)[n + 1] = x
  BY AppendProperties
<1> QED
  BY <1>1 DEF Spliced

\* The region <<lo, hi>> lies between the regions before from and those after to.
Between(base, list, from, to, lo, hi) ==
  /\ \A j \in 1..Len(list) : j < from => WrapSub(list[j][2], base) < WrapSub(lo, base)
  /\ \A j \in 1..Len(list) : j > to => WrapSub(hi, base) < WrapSub(list[j][1], base)

\* The offset is in it, or in a region before from or after to.
InSpliced(base, list, from, to, lo, hi, o) ==
  \/ WrapSub(lo, base) <= o /\ o < WrapSub(hi, base)
  \/ \E j \in 1..Len(list) :
       /\ j < from \/ j > to
       /\ WrapSub(list[j][1], base) <= o /\ o < WrapSub(list[j][2], base)

(***************************************************************************)
(* A region that lies between the regions before and after it may take the *)
(* place of those between.                                                 *)
(***************************************************************************)
LEMMA SplicedSeparate ==
  ASSUME NEW base \in StreamPositions, NEW top \in Nat, NEW at \in Nat,
         NEW list \in Seq(Ranges), Separate(base, top, list), Clear(base, at, list),
         NEW lo \in StreamPositions, NEW hi \in StreamPositions,
         WrapSub(lo, base) < WrapSub(hi, base), WrapSub(hi, base) <= top,
         at < WrapSub(lo, base),
         NEW from \in Nat, NEW to \in Nat, from >= 1, from <= to + 1, to <= Len(list),
         Between(base, list, from, to, lo, hi),
         NEW new \in Seq(Ranges), Spliced(list, from, to, <<lo, hi>>, new)
  PROVE  /\ Separate(base, top, new)
         /\ Clear(base, at, new)
         /\ \A o \in Nat : Inside(base, new, o) <=> InSpliced(base, list, from, to, lo, hi, o)
<1> DEFINE O(q) == WrapSub(q, base)
<1>1. PICK n \in Nat, shift \in Int : n = Len(list) /\ shift = to - from
  BY LenProperties
<1>2. /\ Len(new) = n - shift /\ Len(new) \in Nat
      /\ \A k \in 1..Len(new) :
           new[k] = IF k < from THEN list[k] ELSE IF k = from THEN <<lo, hi>>
                                             ELSE list[k + shift]
  <2>1. Len(new) \in Nat
    BY LenProperties
  <2>2. Len(new) = n - shift
    BY <1>1 DEF Spliced
  <2> QED
    BY <1>1, <2>1, <2>2 DEF Spliced
<1>3. /\ \A k \in 1..Len(new) : k < from => k \in 1..n /\ new[k] = list[k]
      /\ from \in 1..Len(new) /\ new[from][1] = lo /\ new[from][2] = hi
      /\ \A k \in 1..Len(new) : k > from =>
           k + shift \in 1..n /\ k + shift > to /\ new[k] = list[k + shift]
  <2>1. ASSUME NEW k \in 1..Len(new), k < from PROVE k \in 1..n /\ new[k] = list[k]
    BY <1>1, <1>2, <2>1, SMTT(30)
  <2>2. from \in 1..Len(new)
    BY <1>1, <1>2
  <2>3. new[from] = <<lo, hi>>
    BY <1>2, <2>2
  <2>4. ASSUME NEW k \in 1..Len(new), k > from
        PROVE  k + shift \in 1..n /\ k + shift > to /\ new[k] = list[k + shift]
    <3>1. k \in Nat /\ k <= n - shift
      BY <1>2
    <3>2. k + shift \in 1..n /\ k + shift > to /\ ~(k < from) /\ k # from
      BY <1>1, <3>1, <2>4
    <3> QED
      BY <1>2, <3>2
  <2> QED
    BY <2>1, <2>2, <2>3, <2>4
<1>4. /\ \A j \in 1..n : O(list[j][1]) \in Nat /\ O(list[j][2]) \in Nat
      /\ O(lo) \in Nat /\ O(hi) \in Nat
  <2>1. \A j \in 1..n : O(list[j][1]) \in Nat /\ O(list[j][2]) \in Nat
    BY <1>1, RegionOffsets
  <2>2. O(lo) \in Nat /\ O(hi) \in Nat
    BY OffsetOf, HalfRangeAssumption DEF Modulus
  <2> QED
    BY <2>1, <2>2
<1>5. /\ \A j \in 1..n : O(list[j][1]) < O(list[j][2])
      /\ \A j \in 1..n : O(list[j][2]) <= top
      /\ \A i, j \in 1..n : i < j => O(list[i][2]) < O(list[j][1])
      /\ \A j \in 1..n : O(list[j][2]) < at \/ at < O(list[j][1])
      /\ \A j \in 1..n : j < from => O(list[j][2]) < O(lo)
      /\ \A j \in 1..n : j > to => O(hi) < O(list[j][1])
      /\ O(lo) < O(hi) /\ O(hi) <= top /\ at < O(lo)
  BY <1>1 DEF Separate, Clear, Between
<1> HIDE DEF O
<1>6. ASSUME NEW k \in 1..Len(new)
      PROVE  /\ O(new[k][1]) < O(new[k][2]) /\ O(new[k][2]) <= top
             /\ O(new[k][2]) < at \/ at < O(new[k][1])
  <2>1. k < from \/ k = from \/ k > from
    BY <1>2
  <2>2. CASE k < from
    BY <1>3, <1>5, <2>2
  <2>3. CASE k = from
    BY <1>3, <1>5, <2>3
  <2>4. CASE k > from
    BY <1>3, <1>5, <2>4
  <2> QED
    BY <2>1, <2>2, <2>3, <2>4
<1>7. ASSUME NEW i \in 1..Len(new), NEW j \in 1..Len(new), i < j
      PROVE  O(new[i][2]) < O(new[j][1])
  <2>1. CASE j < from
    BY <1>2, <1>3, <1>5, <1>7, <2>1, SMTT(30)
  <2>2. CASE j = from
    BY <1>3, <1>5, <1>7, <2>2
  <2>3. CASE j > from /\ i < from
    <3>1. i \in 1..n /\ j + shift \in 1..n /\ i < j + shift
      BY <1>1, <1>2, <1>3, <2>3, SMTT(30)
    <3> QED
      BY <1>3, <1>5, <2>3, <3>1
  <2>4. CASE j > from /\ i = from
    BY <1>3, <1>5, <2>4
  <2>5. CASE j > from /\ i > from
    <3>1. i + shift \in 1..n /\ j + shift \in 1..n /\ i + shift < j + shift
      BY <1>2, <1>3, <1>7, <2>5
    <3> QED
      BY <1>3, <1>5, <2>5, <3>1
  <2> QED
    BY <1>2, <2>1, <2>2, <2>3, <2>4, <2>5
<1>8. Separate(base, top, new) /\ Clear(base, at, new)
  BY <1>6, <1>7 DEF Separate, Clear, O
<1> DEFINE Within(r, o) == O(r[1]) <= o /\ o < O(r[2])
<1>9. ASSUME NEW o \in Nat
      PROVE  Inside(base, new, o) <=>
               \/ O(lo) <= o /\ o < O(hi)
               \/ \E j \in 1..n : (j < from \/ j > to) /\ Within(list[j], o)
  <2>1. ASSUME NEW k \in 1..Len(new), Within(new[k], o)
        PROVE  \/ O(lo) <= o /\ o < O(hi)
               \/ \E j \in 1..n : (j < from \/ j > to) /\ Within(list[j], o)
    <3>1. CASE k < from
      BY <1>3, <2>1, <3>1
    <3>2. CASE k = from
      BY <1>3, <2>1, <3>2
    <3>3. CASE k > from
      BY <1>3, <2>1, <3>3
    <3> QED
      BY <1>2, <3>1, <3>2, <3>3
  <2>2. ASSUME O(lo) <= o /\ o < O(hi)
        PROVE  \E k \in 1..Len(new) : Within(new[k], o)
    BY <1>3, <2>2
  <2>3. ASSUME NEW j \in 1..n, j < from \/ j > to, Within(list[j], o)
        PROVE  \E k \in 1..Len(new) : Within(new[k], o)
    <3>1. CASE j < from
      <4>1. j \in 1..Len(new) /\ new[j] = list[j]
        BY <1>1, <1>2, <1>3, <3>1, SMTT(30)
      <4> QED
        BY <2>3, <4>1
    <3>2. CASE j > to
      <4>1. PICK k \in Int : k = j - shift
        BY <1>1
      <4>2. k \in 1..Len(new) /\ k > from /\ k + shift = j
        BY <1>1, <1>2, <3>2, <4>1
      <4>3. new[k] = list[j]
        BY <1>3, <4>2
      <4> QED
        BY <2>3, <4>2, <4>3
    <3> QED
      BY <2>3, <3>1, <3>2
  <2>4. Inside(base, new, o) <=> \E k \in 1..Len(new) : Within(new[k], o)
    BY DEF Inside, O
  <2> HIDE DEF Within
  <2> QED
    BY <2>1, <2>2, <2>3, <2>4
<1> QED
  BY <1>1, <1>8, <1>9 DEF O, InSpliced

\* What is left of the list after the first pos regions.
LEMMA DrainedSeparate ==
  ASSUME NEW base \in StreamPositions, NEW top \in Nat,
         NEW list \in Seq(Ranges), Separate(base, top, list),
         NEW pos \in 1..Len(list), NEW new, new = Drained(list, pos)
  PROVE  /\ new \in Seq(Ranges)
         /\ Separate(base, top, new)
         /\ Clear(base, WrapSub(list[pos][2], base), new)
         /\ \A o \in Nat : Inside(base, new, o) <=>
              \E j \in 1..Len(list) :
                /\ j > pos
                /\ WrapSub(list[j][1], base) <= o /\ o < WrapSub(list[j][2], base)
<1>1. PICK n \in Nat : n = Len(list)
  BY LenProperties
<1>2. /\ new \in Seq(Ranges) /\ Len(new) = n - pos
      /\ \A k \in 1..(n - pos) : new[k] = list[pos + k]
  <2>1. pos + 1 \in 1..(Len(list) + 1)
    BY <1>1
  <2>2. /\ new \in Seq(Ranges)
        /\ Len(new) = IF pos + 1 <= Len(list) THEN Len(list) - (pos + 1) + 1 ELSE 0
        /\ \A k \in 1..(Len(list) - (pos + 1) + 1) : new[k] = list[pos + 1 + k - 1]
    BY <1>1, <2>1, SubSeqProperties DEF Drained
  <2> QED
    BY <1>1, <2>2
<1>3. \A k \in 1..Len(new) : pos + k \in 1..n /\ new[k] = list[pos + k] /\ pos < pos + k
  BY <1>1, <1>2
<1>4. \A i, j \in 1..Len(new) : i < j => pos + i < pos + j
  BY <1>1, <1>2
<1>5. Separate(base, top, new)
  BY <1>1, <1>3, <1>4 DEF Separate
<1>6. Clear(base, WrapSub(list[pos][2], base), new)
  BY <1>1, <1>3 DEF Separate, Clear
<1>7. ASSUME NEW j \in 1..n, j > pos
      PROVE  j - pos \in 1..Len(new) /\ new[j - pos] = list[j]
  <2>1. j - pos \in 1..Len(new) /\ pos + (j - pos) = j
    BY <1>1, <1>2, <1>7
  <2> QED
    BY <1>3, <2>1
<1>8. ASSUME NEW o \in Nat
      PROVE  Inside(base, new, o) <=>
               \E j \in 1..n : j > pos /\ WrapSub(list[j][1], base) <= o
                                       /\ o < WrapSub(list[j][2], base)
  <2>1. ASSUME Inside(base, new, o)
        PROVE  \E j \in 1..n : j > pos /\ WrapSub(list[j][1], base) <= o
                                       /\ o < WrapSub(list[j][2], base)
    BY <1>3, <2>1 DEF Inside
  <2>2. ASSUME NEW j \in 1..n, j > pos, WrapSub(list[j][1], base) <= o,
               o < WrapSub(list[j][2], base)
        PROVE  Inside(base, new, o)
    <3>1. j - pos \in 1..Len(new) /\ new[j - pos] = list[j]
      BY <1>7, <2>2
    <3> QED
      BY <2>2, <3>1 DEF Inside
  <2> QED
    BY <2>1, <2>2
<1> QED
  BY <1>1, <1>2, <1>5, <1>6, <1>8

\* What JoinReady promises: the offsets before the new end and in the new list are those
\* before the old end and in the old list.
Joined(base, top, list, end, ret) ==
  /\ ret.panic = FALSE
  /\ ret.end \in StreamPositions
  /\ WrapSub(end, base) <= WrapSub(ret.end, base) /\ WrapSub(ret.end, base) <= top
  /\ ret.unready \in Seq(Ranges)
  /\ Separate(base, top, ret.unready)
  /\ Clear(base, WrapSub(ret.end, base), ret.unready)
  /\ \A o \in Nat : o < WrapSub(ret.end, base) \/ Inside(base, ret.unready, o)
                      <=> o < WrapSub(end, base) \/ Inside(base, list, o)

(***************************************************************************)
(* A block that touches the ready bytes, up to end: the ready bytes then   *)
(* reach as far as the block and the regions connected with it.            *)
(***************************************************************************)
LEMMA JoinReadyKeeps ==
  ASSUME NEW base \in StreamPositions, NEW top \in Nat, top <= MaxWindow,
         NEW list \in Seq(Ranges), Separate(base, top, list),
         NEW end \in StreamPositions, WrapSub(end, base) <= top,
         NEW ret, ret = JoinReady(list, end)
  PROVE  Joined(base, top, list, end, ret)
<1> USE DEF Joined
<1> DEFINE O(q) == WrapSub(q, base)
           order == [k \in 1..Len(list) |-> stream_cmp(list[k][2], end)]
           pos == BinarySearch(order)
           Return(panic, to, left) == [panic |-> panic, end |-> to, unready |-> left]
<1>1. ret = IF ~Ascending(order) THEN Return(TRUE, end, list)
            ELSE IF pos > Len(list) THEN Return(FALSE, end, <<>>)
            ELSE IF Reaches(end, list[pos])
            THEN Return(FALSE, list[pos][2], Drained(list, pos))
            ELSE Return(FALSE, end, list)
  BY DEF JoinReady
<1>2. PICK n \in Nat : n = Len(list) /\ MaxWindow \in Nat
  BY LenProperties, HalfRangeAssumption DEF MaxWindow
<1>3. O(end) \in Nat /\ O(end) <= MaxWindow
  <2>1. O(end) \in Nat
    BY OffsetOf, HalfRangeAssumption DEF Modulus
  <2> QED
    BY <1>2, <2>1
<1>4. /\ Ascending(order) /\ pos \in Nat /\ pos >= 1 /\ pos <= n + 1
      /\ \A j \in 1..n : j < pos => O(list[j][2]) < O(end)
      /\ \A j \in 1..n : j >= pos => O(list[j][2]) >= O(end)
  BY <1>2, <1>3, RegionSearch
<1> HIDE DEF order, pos
<1>5. /\ \A j \in 1..n : O(list[j][1]) < O(list[j][2])
      /\ \A j \in 1..n : O(list[j][2]) <= top
      /\ \A i, j \in 1..n : i < j => O(list[i][2]) < O(list[j][1])
  BY <1>2 DEF Separate
<1>6. \A j \in 1..n : /\ list[j][1] \in StreamPositions /\ list[j][2] \in StreamPositions
                      /\ O(list[j][1]) \in Nat /\ O(list[j][2]) \in Nat
  BY <1>2, RegionOffsets
<1> DEFINE In(j, o) == O(list[j][1]) <= o /\ o < O(list[j][2])
<1>7. \A o : Inside(base, list, o) <=> \E j \in 1..n : In(j, o)
  BY <1>2 DEF Inside
<1>8. CASE pos > n
  <2>1. ret = Return(FALSE, end, <<>>)
    BY <1>1, <1>2, <1>4, <1>8
  <2>2. /\ ret.panic = FALSE /\ ret.end = end /\ ret.unready = <<>>
    BY <2>1
  <2>3. <<>> \in Seq(Ranges) /\ Len(<<>>) = 0
    BY EmptySeq
  <2>4. Separate(base, top, <<>>) /\ Clear(base, O(end), <<>>)
    BY <2>3 DEF Separate, Clear
  <2>5. \A o : ~Inside(base, <<>>, o)
    BY <2>3 DEF Inside
  <2>6. ASSUME NEW o \in Nat, Inside(base, list, o) PROVE o < O(end)
    <3>1. PICK j \in 1..n : In(j, o)
      BY <1>7, <2>6
    <3>2. O(list[j][2]) < O(end) /\ o < O(list[j][2]) /\ O(list[j][2]) \in Nat
      BY <1>4, <1>6, <1>8, <3>1
    <3> QED
      BY <1>3, <3>2
  <2> HIDE DEF O
  <2>7. O(end) <= O(end)
    BY <1>3
  <2> QED
    BY <2>2, <2>3, <2>4, <2>5, <2>6, <2>7 DEF O
<1>9. CASE pos <= n /\ Reaches(end, list[pos])
  <2>1. PICK p \in 1..n : p = pos
    BY <1>4, <1>9
  <2>2. /\ ret = Return(FALSE, list[p][2], Drained(list, p))
    BY <1>1, <1>2, <1>4, <1>9, <2>1
  <2>3. /\ ret.panic = FALSE /\ ret.end = list[p][2] /\ ret.unready = Drained(list, p)
    BY <2>2
  <2>4. /\ list[p][1] \in StreamPositions /\ list[p][2] \in StreamPositions
        /\ O(list[p][1]) \in Nat /\ O(list[p][2]) \in Nat
        /\ O(list[p][1]) < O(list[p][2]) /\ O(list[p][2]) <= top
        /\ O(list[p][2]) >= O(end)
    BY <1>4, <1>5, <1>6, <2>1
  <2>5. O(list[p][1]) <= O(end)
    <3>1. O(list[p][1]) <= MaxWindow
      BY <1>2, <2>4
    <3>2. stream_ge(end, list[p][1])
      BY <1>9, <2>1 DEF Reaches
    <3>3. O(end) >= O(list[p][1])
      BY <1>3, <2>4, <3>1, <3>2, CmpOffsets
    <3> QED
      BY <1>3, <2>4, <3>3
  <2>6. PICK new : new = Drained(list, p)
    OBVIOUS
  <2>7. /\ new \in Seq(Ranges) /\ Separate(base, top, new)
        /\ Clear(base, O(list[p][2]), new)
        /\ \A o \in Nat : Inside(base, new, o) <=> \E j \in 1..n : j > p /\ In(j, o)
    <3>1. p \in 1..Len(list)
      BY <1>2
    <3> QED
      BY <1>2, <2>6, <3>1, DrainedSeparate
  <2>8. ASSUME NEW o \in Nat
        PROVE  o < O(list[p][2]) \/ Inside(base, new, o) <=> o < O(end) \/ Inside(base, list, o)
    <3>1. ASSUME o < O(list[p][2]) PROVE o < O(end) \/ Inside(base, list, o)
      <4>1. o < O(end) \/ In(p, o)
        BY <1>3, <2>4, <2>5, <3>1
      <4> QED
        BY <1>7, <4>1
    <3>2. ASSUME Inside(base, new, o) PROVE Inside(base, list, o)
      BY <1>7, <2>7, <3>2
    <3>3. ASSUME o < O(end) PROVE o < O(list[p][2])
      BY <1>3, <2>4, <3>3
    <3>4. ASSUME NEW j \in 1..n, In(j, o) PROVE o < O(list[p][2]) \/ Inside(base, new, o)
      <4>1. CASE j > p
        BY <2>7, <3>4, <4>1
      <4>2. CASE j = p
        BY <3>4, <4>2
      <4>3. CASE j < p
        <5>1. O(list[j][2]) < O(list[p][1]) /\ O(list[j][2]) \in Nat
          BY <1>5, <1>6, <4>3
        <5> QED
          BY <2>4, <3>4, <5>1
      <4> QED
        BY <1>2, <4>1, <4>2, <4>3
    <3> QED
      BY <1>7, <3>1, <3>2, <3>3, <3>4
  <2> HIDE DEF O
  <2>9. O(end) <= O(list[p][2])
    BY <1>3, <2>4
  <2> QED
    BY <2>3, <2>4, <2>6, <2>7, <2>8, <2>9 DEF O
<1>10. CASE pos <= n /\ ~Reaches(end, list[pos])
  <2>1. PICK p \in 1..n : p = pos
    BY <1>4, <1>10
  <2>2. /\ ret = Return(FALSE, end, list)
    BY <1>1, <1>2, <1>4, <1>10, <2>1
  <2>3. /\ ret.panic = FALSE /\ ret.end = end /\ ret.unready = list
    BY <2>2
  <2>4. /\ list[p][1] \in StreamPositions /\ list[p][2] \in StreamPositions
        /\ O(list[p][1]) \in Nat /\ O(list[p][2]) \in Nat
        /\ O(list[p][1]) < O(list[p][2]) /\ O(list[p][2]) <= top
    BY <1>5, <1>6
  <2>5. O(end) < O(list[p][1])
    <3>1. O(list[p][1]) <= MaxWindow
      BY <1>2, <2>4
    <3>2. ~stream_ge(end, list[p][1])
      BY <1>10, <2>1 DEF Reaches
    <3>3. ~(O(end) >= O(list[p][1]))
      BY <1>3, <2>4, <3>1, <3>2, CmpOffsets
    <3> QED
      BY <1>3, <2>4, <3>3
  <2>6. Clear(base, O(end), list)
    <3>1. ASSUME NEW j \in 1..n PROVE O(list[j][2]) < O(end) \/ O(end) < O(list[j][1])
      <4>1. CASE j < p
        BY <1>4, <2>1, <4>1
      <4>2. CASE j = p
        BY <2>5, <4>2
      <4>3. CASE j > p
        <5>1. O(list[p][2]) < O(list[j][1]) /\ O(list[j][1]) \in Nat
          BY <1>5, <1>6, <4>3
        <5> QED
          BY <1>3, <2>4, <2>5, <5>1
      <4> QED
        BY <1>2, <4>1, <4>2, <4>3
    <3> QED
      BY <1>2, <3>1 DEF Clear
  <2> HIDE DEF O
  <2>7. O(end) <= O(end)
    BY <1>3
  <2> QED
    BY <2>3, <2>6, <2>7 DEF O
<1>11. pos > n \/ pos <= n
  BY <1>4
<1> QED
  BY <1>8, <1>9, <1>10, <1>11

\* What InsertUnready promises: the new list has the offsets of the old one and of the block.
Inserted(base, top, at, list, start, end, ret) ==
  /\ ret.panic = FALSE
  /\ ret.unready \in Seq(Ranges)
  /\ Separate(base, top, ret.unready)
  /\ Clear(base, at, ret.unready)
  /\ \A o \in Nat : Inside(base, ret.unready, o)
       <=> \/ WrapSub(start, base) <= o /\ o < WrapSub(end, base)
           \/ Inside(base, list, o)

(***************************************************************************)
(* A block that does not touch the ready bytes is added to the list: the   *)
(* list then contains what it contained and the block.                     *)
(***************************************************************************)
LEMMA InsertUnreadyKeeps ==
  ASSUME NEW base \in StreamPositions, NEW top \in Nat, top <= MaxWindow, NEW at \in Nat,
         NEW list \in Seq(Ranges), Separate(base, top, list), Clear(base, at, list),
         NEW start \in StreamPositions, NEW end \in StreamPositions,
         at < WrapSub(start, base), WrapSub(start, base) < WrapSub(end, base),
         WrapSub(end, base) <= top,
         NEW ret, ret = InsertUnready(list, start, end)
  PROVE  Inserted(base, top, at, list, start, end, ret)
<1> USE DEF Inserted
<1> DEFINE O(q) == WrapSub(q, base)
           order == [k \in 1..Len(list) |-> stream_cmp(list[k][2], start)]
           ip == BinarySearch(order)
           last == Len(list)
           Stops(k) == Before(end, list[k]) \/ stream_lt(end, list[k][2]) \/ k = last
           i == CHOOSE k \in ip..last : Stops(k) /\ \A j \in ip..(k - 1) : ~Stops(j)
           low == MergedStart(start, list[ip])
           Return(panic, new) == [panic |-> panic, unready |-> new]
<1>1. ret = IF ~Ascending(order) THEN Return(TRUE, list)
            ELSE IF ip > last THEN Return(FALSE, Append(list, <<start, end>>))
            ELSE IF ~Before(end, list[i])
            THEN Return(FALSE, Splice(list, ip, i, <<<<low, MergedEnd(end, list[i])>>>>))
            ELSE IF i = ip THEN Return(FALSE, Splice(list, ip, ip - 1, <<<<start, end>>>>))
            ELSE Return(FALSE, Splice(list, ip, i - 1, <<<<low, end>>>>))
  BY DEF InsertUnready
<1>2. PICK n \in Nat : n = Len(list) /\ MaxWindow \in Nat
  BY LenProperties, HalfRangeAssumption DEF MaxWindow
<1>3. /\ O(start) \in Nat /\ O(end) \in Nat /\ O(end) <= MaxWindow /\ O(start) <= MaxWindow
      /\ at < O(start) /\ O(start) < O(end) /\ O(end) <= top
  <2>1. O(end) \in Nat /\ O(start) \in Nat
    BY OffsetOf, HalfRangeAssumption DEF Modulus
  <2> QED
    BY <1>2, <2>1
<1>4. /\ Ascending(order) /\ ip \in Nat /\ ip >= 1 /\ ip <= n + 1
      /\ \A j \in 1..n : j < ip => O(list[j][2]) < O(start)
      /\ \A j \in 1..n : j >= ip => O(list[j][2]) >= O(start)
  BY <1>2, <1>3, RegionSearch
<1> HIDE DEF order, ip
<1>5. /\ \A j \in 1..n : O(list[j][1]) < O(list[j][2])
      /\ \A j \in 1..n : O(list[j][2]) <= top
      /\ \A k, j \in 1..n : k < j => O(list[k][2]) < O(list[j][1])
      /\ \A j \in 1..n : O(list[j][2]) < at \/ at < O(list[j][1])
  BY <1>2 DEF Separate, Clear
<1>6. \A j \in 1..n : /\ list[j][1] \in StreamPositions /\ list[j][2] \in StreamPositions
                      /\ O(list[j][1]) \in Nat /\ O(list[j][2]) \in Nat
  BY <1>2, RegionOffsets
<1> DEFINE In(j, o) == O(list[j][1]) <= o /\ o < O(list[j][2])
<1>7. \A o : Inside(base, list, o) <=> \E j \in 1..n : In(j, o)
  BY <1>2 DEF Inside
<1>8. ASSUME NEW j \in 1..n
      PROVE  /\ Before(end, list[j]) <=> O(end) < O(list[j][1])
             /\ stream_lt(end, list[j][2]) <=> O(end) < O(list[j][2])
             /\ stream_gt(end, list[j][2]) <=> O(end) > O(list[j][2])
             /\ stream_lt(start, list[j][1]) <=> O(start) < O(list[j][1])
  <2>1. /\ list[j][1] \in StreamPositions /\ list[j][2] \in StreamPositions
        /\ O(list[j][1]) <= MaxWindow /\ O(list[j][2]) <= MaxWindow
    BY <1>2, <1>5, <1>6
  <2>2. Before(end, list[j]) <=> O(end) < O(list[j][1])
    BY <1>3, <2>1, CmpOffsets DEF Before
  <2>3. /\ stream_lt(end, list[j][2]) <=> O(end) < O(list[j][2])
        /\ stream_gt(end, list[j][2]) <=> O(end) > O(list[j][2])
    BY <1>3, <2>1, CmpOffsets
  <2>4. stream_lt(start, list[j][1]) <=> O(start) < O(list[j][1])
    BY <1>3, <2>1, CmpOffsets
  <2> QED
    BY <2>2, <2>3, <2>4
\* The list that a splice of one region leaves, when the regions taken out are part of it.
<1> DEFINE Fits(lo, hi, from, to) ==
             /\ at < O(lo) /\ O(lo) <= O(start) /\ O(end) <= O(hi) /\ O(hi) <= top
             /\ \A j \in 1..n : j < from => O(list[j][2]) < O(lo)
             /\ \A j \in 1..n : j > to => O(hi) < O(list[j][1])
             /\ \A j \in 1..n : j >= from /\ j <= to =>
                  O(lo) <= O(list[j][1]) /\ O(list[j][2]) <= O(hi)
             /\ \A o \in Nat : O(lo) <= o /\ o < O(start) => \E j \in 1..n : In(j, o)
             /\ \A o \in Nat : O(end) <= o /\ o < O(hi) => \E j \in 1..n : In(j, o)
           Kept ==
             /\ ret.panic = FALSE
             /\ ret.unready \in Seq(Ranges)
             /\ Separate(base, top, ret.unready)
             /\ Clear(base, at, ret.unready)
             /\ \A o \in Nat : Inside(base, ret.unready, o)
                  <=> (O(start) <= o /\ o < O(end)) \/ Inside(base, list, o)
<1>9. ASSUME NEW lo \in StreamPositions, NEW hi \in StreamPositions,
             NEW from \in Nat, NEW to \in Nat, from >= 1, from <= to + 1, to <= n,
             NEW new \in Seq(Ranges), Spliced(list, from, to, <<lo, hi>>, new),
             ret.panic = FALSE, ret.unready = new, Fits(lo, hi, from, to)
      PROVE  Kept
  <2>1. O(lo) \in Nat /\ O(hi) \in Nat
    BY OffsetOf, HalfRangeAssumption DEF Modulus
  <2>2. O(lo) < O(hi)
    BY <1>3, <1>9, <2>1
  <2>3. /\ Separate(base, top, new) /\ Clear(base, at, new)
        /\ \A o \in Nat : Inside(base, new, o) <=>
             \/ O(lo) <= o /\ o < O(hi)
             \/ \E j \in 1..n : (j < from \/ j > to) /\ In(j, o)
    <3>1. Between(base, list, from, to, lo, hi)
      BY <1>2, <1>9 DEF Between
    <3>2. at < O(lo) /\ O(hi) <= top /\ to <= Len(list)
      BY <1>2, <1>9
    <3>3. from >= 1 /\ from <= to + 1 /\ Spliced(list, from, to, <<lo, hi>>, new)
      BY <1>9
    <3>4. /\ Separate(base, top, new) /\ Clear(base, at, new)
          /\ \A o \in Nat : Inside(base, new, o) <=> InSpliced(base, list, from, to, lo, hi, o)
      BY <2>2, <3>1, <3>2, <3>3, SplicedSeparate
    <3> QED
      BY <1>2, <3>4 DEF InSpliced
  <2>4. ASSUME NEW o \in Nat
        PROVE  Inside(base, new, o) <=> (O(start) <= o /\ o < O(end)) \/ Inside(base, list, o)
    <3>1. ASSUME O(lo) <= o /\ o < O(hi)
          PROVE  (O(start) <= o /\ o < O(end)) \/ \E j \in 1..n : In(j, o)
      <4>1. \/ O(lo) <= o /\ o < O(start)
            \/ O(start) <= o /\ o < O(end)
            \/ O(end) <= o /\ o < O(hi)
        BY <1>3, <2>1, <3>1
      <4> HIDE DEF In
      <4> QED
        BY <1>9, <4>1
    <3>2. ASSUME O(start) <= o /\ o < O(end) PROVE O(lo) <= o /\ o < O(hi)
      BY <1>3, <1>9, <2>1, <3>2
    <3>3. ASSUME NEW j \in 1..n, In(j, o)
          PROVE  (O(lo) <= o /\ o < O(hi)) \/ j < from \/ j > to
      <4>1. CASE j >= from /\ j <= to
        <5>1. O(lo) <= O(list[j][1]) /\ O(list[j][2]) <= O(hi)
          BY <1>9, <4>1
        <5> QED
          BY <1>6, <2>1, <3>3, <5>1
      <4> QED
        BY <1>2, <4>1
    <3> HIDE DEF In
    <3>4. Inside(base, new, o) => (O(start) <= o /\ o < O(end)) \/ Inside(base, list, o)
      BY <1>7, <2>3, <3>1
    <3>5. (O(start) <= o /\ o < O(end)) => Inside(base, new, o)
      BY <2>3, <3>2
    <3>6. Inside(base, list, o) => Inside(base, new, o)
      <4> SUFFICES ASSUME NEW j \in 1..n, In(j, o) PROVE Inside(base, new, o)
        BY <1>7
      <4> QED
        BY <2>3, <3>3
    <3> QED
      BY <3>4, <3>5, <3>6
  <2> QED
    BY <1>9, <2>3, <2>4
<1> HIDE DEF O, i, Stops, low, Fits, Kept
<1>10. ASSUME ip > n PROVE Kept
  <2>1. ret = Return(FALSE, Append(list, <<start, end>>))
    BY <1>1, <1>2, <1>4, <1>10
  <2>2. PICK new : new = Append(list, <<start, end>>)
    OBVIOUS
  <2>3. <<start, end>> \in Ranges
    BY DEF Ranges
  <2>4. new \in Seq(Ranges) /\ Spliced(list, n + 1, n, <<start, end>>, new)
    BY <1>2, <2>2, <2>3, AppendSpliced
  <2>5. ret.panic = FALSE /\ ret.unready = new
    BY <2>1, <2>2
  <2>6. \A j \in 1..n : O(list[j][2]) < O(start)
    BY <1>2, <1>4, <1>10
  <2>7. /\ \A o \in Nat : ~(O(start) <= o /\ o < O(start))
        /\ \A o \in Nat : ~(O(end) <= o /\ o < O(end))
        /\ O(start) <= O(start) /\ O(end) <= O(end)
    BY <1>3
  <2>8. /\ n + 1 \in Nat /\ n + 1 >= 1 /\ n + 1 <= n + 1 /\ n <= n
        /\ \A j \in 1..n : ~(j > n) /\ ~(j >= n + 1 /\ j <= n)
    OBVIOUS
  <2> HIDE DEF In
  <2>20. Fits(start, end, n + 1, n)
    BY <1>3, <2>4, <2>5, <2>6, <2>7, <2>8 DEF Fits
  <2> QED
    BY <1>3, <1>9, <2>4, <2>5, <2>6, <2>7, <2>8, <2>20
<1> DEFINE first == list[ip]
<1>11. ASSUME ip <= n
       PROVE  /\ ip \in 1..n
              /\ i \in 1..n /\ i >= ip
              /\ i # n => Before(end, list[i]) \/ O(end) < O(list[i][2])
              /\ \A j \in 1..n : j >= ip /\ j < i => O(list[j][2]) <= O(end)
  <2>1. ip \in 1..n
    BY <1>2, <1>4, <1>11
  <2> DEFINE T == {k \in Nat : k \in ip..n /\ Stops(k)}
  <2>2. n \in T
    BY <1>2, <2>1 DEF Stops
  <2>3. PICK k \in T : \A j \in T : k <= j
    <3>1. T \subseteq Nat /\ T # {}
      BY <2>2
    <3> HIDE DEF T
    <3> QED
      BY <3>1, LeastExists
  <2>4. k \in Nat /\ k \in ip..n /\ Stops(k)
    BY <2>3
  <2>5. ASSUME NEW j \in ip..(k - 1) PROVE ~Stops(j)
    <3>1. j \in Nat /\ j < k /\ j \in ip..n
      BY <2>1, <2>4
    <3>2. j \notin T
      <4> SUFFICES ASSUME j \in T PROVE FALSE
        OBVIOUS
      <4>1. k <= j
        BY <2>3
      <4> QED
        BY <2>4, <3>1, <4>1
    <3> QED
      BY <3>1, <3>2
  <2>6. /\ i \in ip..n /\ Stops(i) /\ \A j \in ip..(i - 1) : ~Stops(j)
    <3> DEFINE P(m) == Stops(m) /\ \A j \in ip..(m - 1) : ~Stops(j)
    <3>1. k \in ip..last /\ P(k)
      BY <1>2, <2>4, <2>5
    <3>2. i = CHOOSE m \in ip..last : P(m)
      BY DEF i
    <3> HIDE DEF P
    <3>3. i \in ip..last /\ P(i)
      BY <3>1, <3>2
    <3> QED
      BY <1>2, <3>3 DEF P
  <2>7. i \in 1..n /\ i >= ip
    BY <1>2, <2>1, <2>6
  <2>8. i # n => Before(end, list[i]) \/ O(end) < O(list[i][2])
    BY <1>2, <1>8, <2>6, <2>7 DEF Stops
  <2>9. ASSUME NEW j \in 1..n, j >= ip, j < i PROVE O(list[j][2]) <= O(end)
    <3>1. j \in ip..(i - 1)
      BY <2>1, <2>7, <2>9
    <3>2. ~stream_lt(end, list[j][2])
      BY <2>6, <3>1 DEF Stops
    <3> QED
      BY <1>3, <1>6, <1>8, <3>2
  <2> QED
    BY <2>1, <2>7, <2>8, <2>9
\* The merged region starts with the block or with the first region it touches.
<1>12. ASSUME ip <= n
       PROVE  /\ low \in StreamPositions
              /\ O(low) \in Nat /\ at < O(low) /\ O(low) <= O(start)
              /\ \A j \in 1..n : j < ip => O(list[j][2]) < O(low)
              /\ \A j \in 1..n : j >= ip => O(low) <= O(list[j][1])
              /\ \A o \in Nat : O(low) <= o /\ o < O(start) => \E j \in 1..n : In(j, o)
  <2>1. PICK p \in 1..n : p = ip
    BY <1>11, <1>12
  <2>2. /\ list[p][1] \in StreamPositions
        /\ O(list[p][1]) \in Nat /\ O(list[p][2]) \in Nat
        /\ O(list[p][1]) < O(list[p][2]) /\ O(list[p][2]) >= O(start)
        /\ O(list[p][2]) < at \/ at < O(list[p][1])
    BY <1>4, <1>5, <1>6, <2>1
  <2>3. /\ low = IF O(start) < O(list[p][1]) THEN start ELSE list[p][1]
        /\ O(low) = IF O(start) < O(list[p][1]) THEN O(start) ELSE O(list[p][1])
    BY <1>8, <2>1 DEF low, MergedStart
  <2>4. /\ low \in StreamPositions /\ O(low) \in Nat
        /\ O(low) <= O(start) /\ O(low) <= O(list[p][1]) /\ at < O(low)
    BY <1>3, <2>2, <2>3
  <2>5. ASSUME NEW j \in 1..n, j < p PROVE O(list[j][2]) < O(low)
    <3>1. O(list[j][2]) < O(start) /\ O(list[j][2]) < O(list[p][1])
      BY <1>4, <1>5, <2>1, <2>5
    <3> QED
      BY <2>3, <3>1
  <2>6. ASSUME NEW j \in 1..n, j >= p PROVE O(low) <= O(list[j][1])
    <3>1. CASE j = p
      BY <2>4, <3>1
    <3>2. CASE j > p
      <4>1. O(list[p][2]) < O(list[j][1]) /\ O(list[j][1]) \in Nat
        BY <1>5, <1>6, <3>2
      <4> QED
        BY <2>2, <2>4, <4>1
    <3> QED
      BY <1>2, <2>6, <3>1, <3>2
  <2>7. ASSUME NEW o \in Nat, O(low) <= o, o < O(start) PROVE In(p, o)
    BY <1>3, <2>2, <2>3, <2>7
  <2> HIDE DEF In
  <2> QED
    BY <2>1, <2>4, <2>5, <2>6, <2>7
<1>13. ASSUME ip <= n, ~Before(end, list[i]) PROVE Kept
  <2>1. PICK p \in 1..n, r \in 1..n : p = ip /\ r = i /\ r >= p
    BY <1>11, <1>13
  <2>2. PICK hi : hi = MergedEnd(end, list[r])
    OBVIOUS
  <2>3. /\ list[r][2] \in StreamPositions /\ O(list[r][1]) \in Nat /\ O(list[r][2]) \in Nat
        /\ O(list[r][1]) < O(list[r][2]) /\ O(list[r][2]) <= top
        /\ O(list[r][1]) <= O(end)
    <3>1. ~(O(end) < O(list[r][1]))
      BY <1>8, <1>13, <2>1
    <3> QED
      BY <1>3, <1>5, <1>6, <3>1
  <2>4. /\ hi = IF O(end) > O(list[r][2]) THEN end ELSE list[r][2]
        /\ O(hi) = IF O(end) > O(list[r][2]) THEN O(end) ELSE O(list[r][2])
    BY <1>8, <2>2 DEF MergedEnd
  <2>5. /\ hi \in StreamPositions /\ O(hi) \in Nat
        /\ O(end) <= O(hi) /\ O(list[r][2]) <= O(hi) /\ O(hi) <= top
    BY <1>3, <2>3, <2>4
  <2>6. ASSUME NEW j \in 1..n, j > r PROVE O(hi) < O(list[j][1])
    <3>1. r # n
      BY <1>2, <2>6
    <3>2. O(end) < O(list[r][2])
      BY <1>11, <1>13, <2>1, <3>1
    <3>3. O(hi) = O(list[r][2])
      BY <1>3, <2>3, <2>4, <3>2
    <3> QED
      BY <1>5, <2>6, <3>3
  <2>7. ASSUME NEW j \in 1..n, j <= r PROVE O(list[j][2]) <= O(hi)
    <3>1. CASE j = r
      BY <2>5, <3>1
    <3>2. CASE j < r
      <4>1. O(list[j][2]) < O(list[r][1]) /\ O(list[j][2]) \in Nat
        BY <1>5, <1>6, <3>2
      <4> QED
        BY <2>3, <2>5, <4>1
    <3> QED
      BY <1>2, <2>7, <3>1, <3>2
  <2>8. ASSUME NEW o \in Nat, O(end) <= o, o < O(hi) PROVE In(r, o)
    BY <1>3, <2>3, <2>4, <2>8
  <2>9. PICK new : new = Splice(list, p, r, <<<<low, hi>>>>)
    OBVIOUS
  <2>10. /\ p \in Nat /\ r \in Nat /\ p >= 1 /\ p <= r + 1 /\ r <= n /\ r <= Len(list)
    BY <1>2, <2>1
  <2>11. new \in Seq(Ranges) /\ Spliced(list, p, r, <<low, hi>>, new)
    <3>1. <<low, hi>> \in Ranges
      BY <1>12, <1>13, <2>5 DEF Ranges
    <3> QED
      BY <2>9, <2>10, <3>1, SpliceOne
  <2>12. ret = Return(FALSE, new)
    BY <1>1, <1>2, <1>4, <1>13, <2>1, <2>2, <2>9
  <2>13. ret.panic = FALSE /\ ret.unready = new
    BY <2>12
  <2>14. /\ low \in StreamPositions /\ at < O(low) /\ O(low) <= O(start)
         /\ \A j \in 1..n : j < p => O(list[j][2]) < O(low)
         /\ \A j \in 1..n : j >= p => O(low) <= O(list[j][1])
         /\ \A o \in Nat : O(low) <= o /\ o < O(start) => \E j \in 1..n : In(j, o)
    BY <1>12, <1>13, <2>1
  <2> HIDE DEF In
  <2>20. Fits(low, hi, p, r)
    BY <2>5, <2>6, <2>7, <2>8, <2>10, <2>11, <2>13, <2>14 DEF Fits
  <2> QED
    BY <1>9, <2>5, <2>6, <2>7, <2>8, <2>10, <2>11, <2>13, <2>14, <2>20
<1>14. ASSUME ip <= n, Before(end, list[i]), i = ip PROVE Kept
  <2>1. PICK p \in 1..n : p = ip /\ p = i
    BY <1>11, <1>14
  <2>2. PICK q \in Nat : q = p - 1
    BY <1>2
  <2>3. O(end) < O(list[p][1])
    BY <1>8, <1>14, <2>1
  <2>4. ASSUME NEW j \in 1..n, j > q PROVE O(end) < O(list[j][1])
    <3>1. CASE j = p
      BY <2>3, <3>1
    <3>2. CASE j > p
      <4>1. O(list[p][2]) < O(list[j][1]) /\ O(list[p][1]) < O(list[p][2])
        BY <1>5, <3>2
      <4> QED
        BY <1>3, <1>6, <2>3, <4>1
    <3> QED
      BY <1>2, <2>2, <2>4, <3>1, <3>2
  <2>5. PICK new : new = Splice(list, p, q, <<<<start, end>>>>)
    OBVIOUS
  <2>6. /\ p \in Nat /\ p >= 1 /\ p <= q + 1 /\ q <= n /\ q <= Len(list)
        /\ \A j \in 1..n : ~(j >= p /\ j <= q)
    BY <1>2, <2>2
  <2>7. new \in Seq(Ranges) /\ Spliced(list, p, q, <<start, end>>, new)
    <3>1. <<start, end>> \in Ranges
      BY DEF Ranges
    <3> QED
      BY <2>5, <2>6, <3>1, SpliceOne
  <2>8. ret = Return(FALSE, new)
    BY <1>1, <1>2, <1>4, <1>14, <2>1, <2>2, <2>5
  <2>9. ret.panic = FALSE /\ ret.unready = new
    BY <2>8
  <2>10. /\ \A o \in Nat : ~(O(start) <= o /\ o < O(start))
         /\ \A o \in Nat : ~(O(end) <= o /\ o < O(end))
         /\ O(start) <= O(start) /\ O(end) <= O(end)
    BY <1>3
  <2>11. \A j \in 1..n : j < p => O(list[j][2]) < O(start)
    BY <1>4, <2>1
  <2> HIDE DEF In
  <2>20. Fits(start, end, p, q)
    BY <1>3, <2>4, <2>6, <2>7, <2>9, <2>10, <2>11 DEF Fits
  <2> QED
    BY <1>3, <1>9, <2>4, <2>6, <2>7, <2>9, <2>10, <2>11, <2>20
<1>15. ASSUME ip <= n, Before(end, list[i]), i # ip PROVE Kept
  <2>1. PICK p \in 1..n, r \in 1..n : p = ip /\ r = i /\ r >= p
    BY <1>11, <1>15
  <2>2. PICK q \in Nat : q = r - 1
    BY <1>2
  <2>3. O(end) < O(list[r][1]) /\ p <= q
    <3>1. p # r
      BY <1>15, <2>1
    <3>2. O(end) < O(list[r][1])
      BY <1>8, <1>15, <2>1
    <3> QED
      BY <1>2, <2>1, <2>2, <3>1, <3>2
  <2>4. ASSUME NEW j \in 1..n, j > q PROVE O(end) < O(list[j][1])
    <3>1. CASE j = r
      BY <2>3, <3>1
    <3>2. CASE j > r
      <4>1. O(list[r][2]) < O(list[j][1]) /\ O(list[r][1]) < O(list[r][2])
        BY <1>5, <3>2
      <4> QED
        BY <1>3, <1>6, <2>3, <4>1
    <3> QED
      BY <1>2, <2>2, <2>4, <3>1, <3>2
  <2>5. PICK new : new = Splice(list, p, q, <<<<low, end>>>>)
    OBVIOUS
  <2>6. p \in Nat /\ p >= 1 /\ p <= q + 1 /\ q <= n /\ q <= Len(list)
    BY <1>2, <2>2, <2>3
  <2>7. new \in Seq(Ranges) /\ Spliced(list, p, q, <<low, end>>, new)
    <3>1. <<low, end>> \in Ranges
      BY <1>12, <1>15 DEF Ranges
    <3> QED
      BY <2>5, <2>6, <3>1, SpliceOne
  <2>8. ret = Return(FALSE, new)
    BY <1>1, <1>2, <1>4, <1>15, <2>1, <2>2, <2>5
  <2>9. ret.panic = FALSE /\ ret.unready = new
    BY <2>8
  <2>10. /\ \A o \in Nat : ~(O(end) <= o /\ o < O(end))
         /\ O(end) <= O(end)
    BY <1>3
  <2>11. /\ low \in StreamPositions /\ at < O(low) /\ O(low) <= O(start)
         /\ \A j \in 1..n : j < p => O(list[j][2]) < O(low)
         /\ \A j \in 1..n : j >= p => O(low) <= O(list[j][1])
         /\ \A o \in Nat : O(low) <= o /\ o < O(start) => \E j \in 1..n : In(j, o)
    BY <1>12, <1>15, <2>1
  <2>12. ASSUME NEW j \in 1..n, j >= p, j <= q PROVE O(list[j][2]) <= O(end)
    <3>1. j >= ip /\ j < i
      BY <1>2, <2>1, <2>2, <2>12
    <3> QED
      BY <1>11, <1>15, <3>1
  <2> HIDE DEF In
  <2>20. Fits(low, end, p, q)
    BY <1>3, <2>4, <2>6, <2>7, <2>9, <2>10, <2>11, <2>12 DEF Fits
  <2> QED
    BY <1>3, <1>9, <2>4, <2>6, <2>7, <2>9, <2>10, <2>11, <2>12, <2>20
<1>16. ip > n \/ ip <= n
  BY <1>4
<1> QED
  <2>1. Kept
    BY <1>10, <1>13, <1>14, <1>15, <1>16
  <2> QED
    BY <2>1 DEF Kept, O

----------------------------------------------------------------------------
(* Positions that are near each other. *)

\* Positions not further than MaxWindow from each other are compared by their offsets.
LEMMA CmpNear ==
  ASSUME NEW base \in StreamPositions, NEW p \in StreamPositions, NEW q \in StreamPositions,
         NEW i \in Nat, NEW j \in Nat, i = WrapSub(p, base), j = WrapSub(q, base),
         i <= j + MaxWindow, j <= i + MaxWindow
  PROVE  /\ stream_lt(p, q) <=> i < j
         /\ stream_gt(p, q) <=> i > j
         /\ stream_ge(p, q) <=> i >= j
<1>1. /\ MaxWindow \in Nat /\ Modulus \in Nat /\ Modulus = 2 * MaxWindow + 2
      /\ i < Modulus /\ j < Modulus
  BY OffsetOf, HalfRangeAssumption DEF MaxWindow, Modulus
<1>2. /\ WrapSub(q, p) = IF i <= j THEN j - i ELSE Modulus - (i - j)
      /\ WrapSub(p, q) = IF j <= i THEN i - j ELSE Modulus - (j - i)
  BY HalfRangeAssumption DEF StreamPositions, Modulus, WrapSub
<1>3. stream_lt(p, q) <=> i < j
  <2>1. stream_lt(p, q) <=> WrapSub(q, p) \in 1..MaxWindow
    BY CmpAhead
  <2> QED
    BY <1>1, <1>2, <2>1
<1>4. stream_gt(p, q) <=> i > j
  <2>1. stream_gt(p, q) <=> WrapSub(p, q) \in 1..MaxWindow
    BY CmpAhead
  <2> QED
    BY <1>1, <1>2, <2>1
<1>5. stream_ge(p, q) <=> i >= j
  <2>1. stream_ge(p, q) <=> WrapSub(p, q) \in 0..MaxWindow
    BY CmpAhead
  <2> QED
    BY <1>1, <1>2, <2>1
<1> QED
  BY <1>3, <1>4, <1>5

\* The offset of a position n ahead.
LEMMA OffsetAhead ==
  ASSUME NEW base \in StreamPositions, NEW p \in StreamPositions, NEW i \in Nat,
         i = WrapSub(p, base), NEW n \in Nat, i + n < Modulus
  PROVE  WrapAdd(p, n) \in StreamPositions /\ WrapSub(WrapAdd(p, n), base) = i + n
BY HalfRangeAssumption DEF StreamPositions, Modulus, WrapAdd, WrapSub

----------------------------------------------------------------------------
(* The receive window. *)

RecvWindows(capacity) ==
  [buf : Queues(capacity), recv_pos : StreamPositions, unready : Seq(Ranges)]

\* The offset of the first byte in the ring.
ReadOffset(base, w) == WrapSub(w.recv_pos, base) - w.buf.used

\* The byte at the offset was received.
Held(base, w, o) == o < WrapSub(w.recv_pos, base) \/ Inside(base, w.unready, o)

\* What was received and not read is in its cell; the byte at position p is p.
HoldsStream(base, w) ==
  \A o \in Nat : o >= ReadOffset(base, w) /\ Held(base, w, o)
                   => w.buf.cells[o - ReadOffset(base, w)] = WrapAdd(base, o)

(***************************************************************************)
(* The invariant of a receive window for a stream of len bytes from base   *)
(* on.  A region of the list is ahead of the ready bytes or was passed by  *)
(* them.                                                                   *)
(***************************************************************************)
RecvWindowInv(capacity, base, len, w) ==
  /\ w \in RecvWindows(capacity)
  /\ w.buf.used <= WrapSub(w.recv_pos, base)
  /\ WrapSub(w.recv_pos, base) <= len
  /\ Separate(base, Lesser(len, ReadOffset(base, w) + capacity), w.unready)
  /\ Clear(base, WrapSub(w.recv_pos, base), w.unready)
  /\ HoldsStream(base, w)

\* The plain facts the other lemmas start from.
LEMMA RecvWindowFacts ==
  ASSUME NEW capacity \in Nat \ {0}, capacity <= MaxWindow, NEW base \in StreamPositions,
         NEW len \in Nat, len <= MaxWindow, NEW w, RecvWindowInv(capacity, base, len, w)
  PROVE  /\ MaxWindow \in Nat /\ Modulus \in Nat /\ Modulus = 2 * MaxWindow + 2
         /\ w.buf \in Queues(capacity) /\ w.buf.used \in Nat /\ w.buf.used <= capacity
         /\ w.recv_pos \in StreamPositions /\ WrapSub(w.recv_pos, base) \in Nat
         /\ w.buf.used <= WrapSub(w.recv_pos, base) /\ WrapSub(w.recv_pos, base) <= len
         /\ ReadOffset(base, w) \in Nat
         /\ ReadOffset(base, w) = WrapSub(w.recv_pos, base) - w.buf.used
         /\ w.unready \in Seq(Ranges)
         /\ w = [buf |-> w.buf, recv_pos |-> w.recv_pos, unready |-> w.unready]
<1>1. /\ w.buf \in Queues(capacity) /\ w.recv_pos \in StreamPositions
      /\ w.unready \in Seq(Ranges)
      /\ w = [buf |-> w.buf, recv_pos |-> w.recv_pos, unready |-> w.unready]
      /\ w.buf.used <= WrapSub(w.recv_pos, base) /\ WrapSub(w.recv_pos, base) <= len
  BY DEF RecvWindowInv, RecvWindows
<1>2. w.buf.used \in 0..capacity
  BY <1>1 DEF Queues
<1>3. WrapSub(w.recv_pos, base) \in Nat
  BY <1>1, OffsetOf, HalfRangeAssumption DEF Modulus
<1>4. /\ MaxWindow \in Nat /\ Modulus \in Nat /\ Modulus = 2 * MaxWindow + 2
  BY HalfRangeAssumption DEF MaxWindow, Modulus
<1> QED
  BY <1>1, <1>2, <1>3, <1>4 DEF ReadOffset

\* The window ends a capacity after the first byte in the ring.
LEMMA WindowEndOffset ==
  ASSUME NEW capacity \in Nat \ {0}, capacity <= MaxWindow, NEW base \in StreamPositions,
         NEW len \in Nat, len <= MaxWindow, NEW w, RecvWindowInv(capacity, base, len, w)
  PROVE  /\ window_end(capacity, w) \in StreamPositions
         /\ WrapSub(window_end(capacity, w), base) = ReadOffset(base, w) + capacity
<1>1. /\ MaxWindow \in Nat /\ Modulus \in Nat /\ Modulus = 2 * MaxWindow + 2
      /\ w.buf.used \in Nat /\ w.buf.used <= capacity
      /\ w.recv_pos \in StreamPositions /\ WrapSub(w.recv_pos, base) \in Nat
      /\ w.buf.used <= WrapSub(w.recv_pos, base) /\ WrapSub(w.recv_pos, base) <= len
      /\ ReadOffset(base, w) = WrapSub(w.recv_pos, base) - w.buf.used
  BY RecvWindowFacts
<1>2. PICK at \in Nat, used \in Nat, room \in Nat :
        at = WrapSub(w.recv_pos, base) /\ used = w.buf.used /\ room = capacity - used
  BY <1>1
<1>3. window_end(capacity, w) = WrapAdd(w.recv_pos, room)
  BY <1>2 DEF window_end, write_available
<1>4. at + room < Modulus
  BY <1>1, <1>2
<1>5. /\ WrapAdd(w.recv_pos, room) \in StreamPositions
      /\ WrapSub(WrapAdd(w.recv_pos, room), base) = at + room
  BY <1>1, <1>2, <1>4, OffsetAhead
<1> QED
  BY <1>1, <1>2, <1>3, <1>5

\* What was received is in the stream, and within the window if it was not read.
LEMMA HeldInWindow ==
  ASSUME NEW capacity \in Nat \ {0}, capacity <= MaxWindow, NEW base \in StreamPositions,
         NEW len \in Nat, len <= MaxWindow, NEW w, RecvWindowInv(capacity, base, len, w),
         NEW o \in Nat, Held(base, w, o)
  PROVE  o < len /\ o < ReadOffset(base, w) + capacity
<1>1. /\ w.buf.used \in Nat /\ w.buf.used <= capacity
      /\ WrapSub(w.recv_pos, base) \in Nat
      /\ w.buf.used <= WrapSub(w.recv_pos, base) /\ WrapSub(w.recv_pos, base) <= len
      /\ ReadOffset(base, w) = WrapSub(w.recv_pos, base) - w.buf.used
      /\ ReadOffset(base, w) \in Nat /\ w.unready \in Seq(Ranges)
  BY RecvWindowFacts
<1>2. CASE o < WrapSub(w.recv_pos, base)
  BY <1>1, <1>2
<1>3. CASE Inside(base, w.unready, o)
  <2>1. PICK i \in 1..Len(w.unready) : o < WrapSub(w.unready[i][2], base)
    BY <1>3 DEF Inside
  <2>2. WrapSub(w.unready[i][2], base) <= Lesser(len, ReadOffset(base, w) + capacity)
    BY DEF RecvWindowInv, Separate
  <2>3. WrapSub(w.unready[i][2], base) \in Nat
    BY <1>1, RegionOffsets
  <2> QED
    BY <1>1, <2>1, <2>2, <2>3 DEF Lesser
<1> QED
  BY <1>2, <1>3 DEF Held

\* A new window.
LEMMA NewRecvWindowInv ==
  ASSUME NEW capacity \in Nat \ {0}, capacity <= MaxWindow, NEW base \in StreamPositions,
         NEW len \in Nat, NEW fill \in Int, NEW w, w = NewRecvWindow(capacity, base, fill)
  PROVE  /\ RecvWindowInv(capacity, base, len, w)
         /\ WrapSub(w.recv_pos, base) = 0 /\ w.buf.used = 0 /\ ReadOffset(base, w) = 0
         /\ \A o \in Nat : ~Held(base, w, o)
<1>1. /\ NewQueue(capacity, fill) \in Queues(capacity) /\ NewQueue(capacity, fill).used = 0
      /\ <<>> \in Seq(Ranges) /\ Len(<<>>) = 0
  BY EmptySeq DEF NewQueue, Queues
<1>2. /\ w \in RecvWindows(capacity) /\ w.buf = NewQueue(capacity, fill)
      /\ w.recv_pos = base /\ w.unready = <<>>
  BY <1>1 DEF NewRecvWindow, RecvWindows
<1>3. WrapSub(w.recv_pos, base) = 0 /\ w.buf.used = 0 /\ ReadOffset(base, w) = 0
  BY <1>1, <1>2, OffsetOf DEF ReadOffset
<1>4. \A o \in Nat : ~Held(base, w, o)
  BY <1>1, <1>2, <1>3 DEF Held, Inside
<1>5. HoldsStream(base, w)
  BY <1>4 DEF HoldsStream
<1>6. /\ Separate(base, Lesser(len, ReadOffset(base, w) + capacity), w.unready)
      /\ Clear(base, WrapSub(w.recv_pos, base), w.unready)
  BY <1>1, <1>2 DEF Separate, Clear
<1>7. w.buf.used <= WrapSub(w.recv_pos, base) /\ WrapSub(w.recv_pos, base) <= len
  BY <1>3
<1> QED
  BY <1>2, <1>3, <1>4, <1>5, <1>6, <1>7 DEF RecvWindowInv

\* Reading n bytes that are ready.
LEMMA RecvWindowReadInv ==
  ASSUME NEW capacity \in Nat \ {0}, capacity <= MaxWindow, NEW base \in StreamPositions,
         NEW len \in Nat, len <= MaxWindow, NEW w, RecvWindowInv(capacity, base, len, w),
         NEW n \in Nat, NEW m \in Nat, m = Lesser(n, w.buf.used),
         NEW after, after = RecvWindowRead(capacity, w, n)
  PROVE  /\ RecvWindowInv(capacity, base, len, after)
         /\ after.recv_pos = w.recv_pos /\ after.unready = w.unready
         /\ after.buf.used = w.buf.used - m
         /\ ReadOffset(base, after) = ReadOffset(base, w) + m
         /\ \A o \in Nat : Held(base, after, o) <=> Held(base, w, o)
<1>1. /\ w.buf \in Queues(capacity) /\ w.buf.used \in Nat /\ w.buf.used <= capacity
      /\ w.recv_pos \in StreamPositions /\ WrapSub(w.recv_pos, base) \in Nat
      /\ w.buf.used <= WrapSub(w.recv_pos, base) /\ WrapSub(w.recv_pos, base) <= len
      /\ ReadOffset(base, w) \in Nat
      /\ ReadOffset(base, w) = WrapSub(w.recv_pos, base) - w.buf.used
      /\ w.unready \in Seq(Ranges)
      /\ w = [buf |-> w.buf, recv_pos |-> w.recv_pos, unready |-> w.unready]
  BY RecvWindowFacts
<1>2. m \in 0..w.buf.used /\ 0 + m <= w.buf.used
  BY <1>1 DEF Lesser
<1>3. Len(Read(w.buf, 0, n)) = m
  <2>1. (IF w.buf.used <= 0 THEN 0 ELSE Lesser(w.buf.used - 0, n)) = m
    BY <1>1 DEF Lesser
  <2>2. Read(w.buf, 0, n) = [k \in 1..m |-> w.buf.cells[0 + k - 1]]
    BY <2>1 DEF Read
  <2> QED
    BY <2>2
<1>4. PICK buf : buf = ReaderAdvance(capacity, w.buf, m)
  OBVIOUS
<1>5. /\ buf \in Queues(capacity) /\ buf.used = w.buf.used - m
      /\ \A k \in 0..(capacity - 1 - m) : buf.cells[k] = w.buf.cells[k + m]
  BY <1>1, <1>2, <1>4, ReaderAdvances, SMTT(30)
<1>6. after = [w EXCEPT !.buf = buf]
  BY <1>1, <1>3, <1>4 DEF RecvWindowRead
<1>7. /\ after.buf = buf /\ after.recv_pos = w.recv_pos /\ after.unready = w.unready
      /\ after \in RecvWindows(capacity)
  BY <1>1, <1>5, <1>6 DEF RecvWindows
<1>8. ReadOffset(base, after) = ReadOffset(base, w) + m
  BY <1>1, <1>2, <1>5, <1>7 DEF ReadOffset
<1>9. \A o \in Nat : Held(base, after, o) <=> Held(base, w, o)
  BY <1>7 DEF Held
<1>10. PICK t \in Nat : t = ReadOffset(base, w)
  BY <1>1
<1>11. HoldsStream(base, after)
  <2> SUFFICES ASSUME NEW o \in Nat, o >= t + m, Held(base, w, o)
               PROVE  buf.cells[o - (t + m)] = WrapAdd(base, o)
    BY <1>7, <1>8, <1>9, <1>10 DEF HoldsStream
  <2>1. o < t + capacity
    BY <1>10, HeldInWindow
  <2>2. o - (t + m) \in 0..(capacity - 1 - m) /\ o - (t + m) + m = o - t /\ o >= t
    BY <2>1
  <2>3. buf.cells[o - (t + m)] = w.buf.cells[o - t]
    BY <1>5, <2>2
  <2>4. w.buf.cells[o - t] = WrapAdd(base, o)
    BY <1>10, <2>2 DEF RecvWindowInv, HoldsStream
  <2> QED
    BY <2>3, <2>4
<1>12. /\ Separate(base, Lesser(len, ReadOffset(base, after) + capacity), after.unready)
       /\ Clear(base, WrapSub(after.recv_pos, base), after.unready)
  <2>1. /\ Separate(base, Lesser(len, t + capacity), w.unready)
        /\ Clear(base, WrapSub(w.recv_pos, base), w.unready)
    BY <1>10 DEF RecvWindowInv
  <2>2. Lesser(len, t + capacity) <= Lesser(len, t + m + capacity)
        /\ Lesser(len, t + capacity) \in Nat /\ Lesser(len, t + m + capacity) \in Nat
    BY DEF Lesser
  <2>3. ASSUME NEW i \in 1..Len(w.unready)
        PROVE  WrapSub(w.unready[i][2], base) <= Lesser(len, t + m + capacity)
    <3>1. WrapSub(w.unready[i][2], base) \in Nat
      BY <1>1, RegionOffsets
    <3>2. WrapSub(w.unready[i][2], base) <= Lesser(len, t + capacity)
      BY <2>1 DEF Separate
    <3> QED
      BY <2>2, <3>1, <3>2
  <2>4. Separate(base, Lesser(len, t + m + capacity), w.unready)
    BY <2>1, <2>3 DEF Separate
  <2> QED
    BY <1>7, <1>8, <1>10, <2>1, <2>4
<1>13. /\ after.buf.used <= WrapSub(after.recv_pos, base)
       /\ WrapSub(after.recv_pos, base) <= len
  BY <1>1, <1>2, <1>5, <1>7
<1>14. RecvWindowInv(capacity, base, len, after)
  BY <1>7, <1>11, <1>12, <1>13 DEF RecvWindowInv
<1> QED
  BY <1>5, <1>7, <1>8, <1>9, <1>14

\* The cells of the ring for the offsets from .. to-1 hold the stream, the others are as in w.
FilledCells(capacity, base, w, t, from, to, buf) ==
  \A o \in Nat : o >= t /\ o < t + capacity =>
    buf.cells[o - t] = IF from <= o /\ o < to THEN WrapAdd(base, o) ELSE w.buf.cells[o - t]

\* What was received, and the offsets s .. last-1 too.
Extends(base, w, s, last, after) ==
  \A o \in Nat : Held(base, after, o) <=> Held(base, w, o) \/ (s <= o /\ o < last)

(***************************************************************************)
(* Storing the bytes of the stream from offset from to offset to in the    *)
(* ring fills their cells, all of them, and no other.                      *)
(***************************************************************************)
LEMMA BlockStored ==
  ASSUME NEW capacity \in Nat \ {0}, capacity <= MaxWindow, NEW base \in StreamPositions,
         NEW len \in Nat, len <= MaxWindow, NEW w, RecvWindowInv(capacity, base, len, w),
         NEW t \in Nat, t = ReadOffset(base, w),
         NEW at \in Nat, at = WrapSub(w.recv_pos, base),
         NEW from \in Nat, NEW to \in Nat, NEW m \in Nat, m > 0, NEW offset \in Nat,
         from + m = to, to <= len, at + offset = from, to <= t + capacity,
         NEW bytes \in Seq(Int), Len(bytes) = m,
         StreamFrom(WrapAdd(base, from), bytes),
         NEW after, after = Write(capacity, w.buf, offset, bytes)
  PROVE  /\ WriteLen(capacity, w.buf, offset, bytes) = m
         /\ after \in Queues(capacity) /\ after.used = w.buf.used
         /\ FilledCells(capacity, base, w, t, from, to, after)
<1>1. /\ w.buf \in Queues(capacity) /\ w.buf.used \in Nat /\ w.buf.used <= capacity
      /\ ReadOffset(base, w) = WrapSub(w.recv_pos, base) - w.buf.used
      /\ Modulus \in Nat /\ MaxWindow \in Nat /\ Modulus = 2 * MaxWindow + 2
  BY RecvWindowFacts, SMTT(30)
<1>2. PICK used \in Nat : used = w.buf.used
  BY <1>1
<1>3. t + used = at /\ used <= capacity
  <2>1. t = at - used /\ used <= capacity
    BY <1>1, <1>2
  <2> QED
    BY <2>1
<1>4. WriteLen(capacity, w.buf, offset, bytes) = m
  <2>1. capacity - used - offset \in Nat /\ capacity - used - offset >= m
    BY <1>3, SMTT(30)
  <2>2. WriteLen(capacity, w.buf, offset, bytes)
          = IF capacity - used - offset <= 0 THEN 0
            ELSE Lesser(capacity - used - offset, m)
    BY <1>2 DEF WriteLen, write_available
  <2> QED
    BY <2>1, <2>2 DEF Lesser
<1>5. PICK first \in Nat : first = used + offset
  OBVIOUS
<1>6. Stored(capacity, w.buf, first, m, bytes, after)
  BY <1>1, <1>2, <1>4, <1>5, WriteStores
<1>7. t + first = from
  BY <1>3, <1>5
<1>8. ASSUME NEW o \in Nat, o >= t, o < t + capacity
      PROVE  after.cells[o - t] = IF from <= o /\ o < to THEN WrapAdd(base, o)
                                  ELSE w.buf.cells[o - t]
  <2>1. PICK k \in Nat : k = o - t
    BY <1>8
  <2>2. t + k = o /\ k < capacity
    BY <1>8, <2>1, SMTT(30)
  <2>3. k \in 0..(capacity - 1)
    BY <2>2
  <2>4. after.cells[k] = IF k >= first /\ k < first + m THEN bytes[k - first + 1]
                         ELSE w.buf.cells[k]
    BY <1>6, <2>3 DEF Stored
  <2>5. CASE from <= o /\ o < to
    <3>1. k >= first /\ k < first + m
      BY <1>7, <2>2, <2>5, SMTT(30)
    <3>2. k - first + 1 \in 1..m /\ (k - first + 1) - 1 = o - from
      <4>1. k - first + 1 \in 1..m /\ (k - first + 1) - 1 = k - first
        BY <3>1
      <4>2. k - first = o - from
        <5>1. o = t + k
          BY <2>2
        <5>2. from = t + first
          BY <1>7
        <5>3. \A a, b, c \in Nat : b - c = (a + b) - (a + c)
          OBVIOUS
        <5>4. k - first = (t + k) - (t + first)
          BY <5>3
        <5> QED
          BY <5>1, <5>2, <5>4
      <4> QED
        BY <4>1, <4>2
    <3>3. bytes[k - first + 1] = WrapAdd(WrapAdd(base, from), o - from)
      BY <3>2 DEF StreamFrom
    <3>4. o - from \in Nat /\ from + (o - from) = o /\ from + (o - from) < Modulus
      BY <1>1, <2>5
    <3>5. bytes[k - first + 1] = WrapAdd(base, o)
      BY <3>3, <3>4, WrapAddAssociative
    <3> QED
      BY <2>1, <2>4, <2>5, <3>1, <3>5
  <2>6. CASE ~(from <= o /\ o < to)
    <3>1. ~(k >= first /\ k < first + m)
      BY <1>7, <2>2, <2>6, SMTT(30)
    <3> QED
      BY <2>1, <2>4, <2>6, <3>1
  <2> QED
    BY <2>5, <2>6
<1>9. after \in Queues(capacity) /\ after.used = w.buf.used
  BY <1>6 DEF Stored
<1> QED
  BY <1>4, <1>8, <1>9 DEF FilledCells

(***************************************************************************)
(* The invariant of the window after a block was stored: the ready bytes   *)
(* and the list cover what they covered and the block.                     *)
(***************************************************************************)
LEMMA AfterBlock ==
  ASSUME NEW capacity \in Nat \ {0}, capacity <= MaxWindow, NEW base \in StreamPositions,
         NEW len \in Nat, len <= MaxWindow, NEW w, RecvWindowInv(capacity, base, len, w),
         NEW t \in Nat, t = ReadOffset(base, w),
         NEW at \in Nat, at = WrapSub(w.recv_pos, base),
         NEW start \in Nat, NEW from \in Nat, from = (IF at > start THEN at ELSE start),
         NEW to \in Nat, to <= t + capacity,
         NEW stored, FilledCells(capacity, base, w, t, from, to, stored),
         NEW after \in RecvWindows(capacity), after.buf.cells = stored.cells,
         NEW at1 \in Nat, at1 = WrapSub(after.recv_pos, base),
         NEW top \in Nat, top = Lesser(len, t + capacity), at1 <= top,
         ReadOffset(base, after) = t,
         Separate(base, top, after.unready), Clear(base, at1, after.unready),
         Extends(base, w, start, to, after)
  PROVE  RecvWindowInv(capacity, base, len, after)
<1>3. after.buf.used \in Nat /\ t = at1 - after.buf.used
  <2>1. after.buf.used \in 0..capacity
    BY DEF RecvWindows, Queues
  <2> QED
    BY <2>1 DEF ReadOffset
<1>4. after.buf.used <= at1 /\ at1 <= len
  BY <1>3 DEF Lesser
<1>5. ASSUME NEW o \in Nat, o >= t, Held(base, after, o)
      PROVE  after.buf.cells[o - t] = WrapAdd(base, o)
  <2>1. Held(base, w, o) \/ (start <= o /\ o < to)
    BY <1>5 DEF Extends
  <2>2. o < t + capacity
    <3>1. Held(base, w, o) => o < t + capacity
      BY HeldInWindow
    <3> QED
      BY <2>1, <3>1
  <2>3. after.buf.cells[o - t] = IF from <= o /\ o < to THEN WrapAdd(base, o)
                                 ELSE w.buf.cells[o - t]
    BY <1>5, <2>2 DEF FilledCells
  <2>4. CASE from <= o /\ o < to
    BY <2>3, <2>4
  <2>5. CASE ~(from <= o /\ o < to)
    <3>1. Held(base, w, o)
      BY <2>1, <2>5 DEF Held
    <3>2. w.buf.cells[o - t] = WrapAdd(base, o)
      BY <1>5, <3>1 DEF RecvWindowInv, HoldsStream
    <3> QED
      BY <2>3, <2>5, <3>2
  <2> QED
    BY <2>4, <2>5
<1>6. HoldsStream(base, after)
  BY <1>5 DEF HoldsStream
<1> QED
  BY <1>4, <1>6 DEF RecvWindowInv

\* The m elements after the first skip.
Slice(bytes, skip, m) == SubSeq(bytes, skip + 1, skip + m)

\* A slice of the stream's bytes.
LEMMA StreamSlice ==
  ASSUME NEW start \in StreamPositions, NEW bytes \in Seq(Int), StreamFrom(start, bytes),
         NEW skip \in Nat, NEW m \in Nat, m > 0, skip + m <= Len(bytes), Len(bytes) <= MaxWindow,
         NEW slice, slice = Slice(bytes, skip, m)
  PROVE  /\ slice \in Seq(Int) /\ Len(slice) = m
         /\ StreamFrom(WrapAdd(start, skip), slice)
<1>1. PICK n \in Nat : n = Len(bytes)
  BY LenProperties
<1>2. /\ MaxWindow \in Nat /\ Modulus \in Nat /\ MaxWindow < Modulus
      /\ n <= MaxWindow /\ skip + m <= n
  BY <1>1, HalfRangeAssumption DEF MaxWindow, Modulus
<1>3. skip + 1 \in 1..(Len(bytes) + 1) /\ skip + m \in 0..Len(bytes)
  BY <1>1, <1>2
<1>7. slice = SubSeq(bytes, skip + 1, skip + m)
  BY DEF Slice
<1>4. /\ slice \in Seq(Int)
      /\ Len(slice) = IF skip + 1 <= skip + m THEN skip + m - (skip + 1) + 1 ELSE 0
      /\ \A k \in 1..(skip + m - (skip + 1) + 1) : slice[k] = bytes[skip + 1 + k - 1]
  BY <1>3, <1>7, SubSeqProperties
<1>5. /\ Len(slice) = m
      /\ \A k \in 1..m : slice[k] = bytes[skip + k]
  BY <1>4
<1>6. ASSUME NEW k \in 1..m PROVE slice[k] = WrapAdd(WrapAdd(start, skip), k - 1)
  <2>1. skip + k \in 1..Len(bytes) /\ (skip + k) - 1 = skip + (k - 1)
    BY <1>1, <1>2
  <2>2. bytes[skip + k] = WrapAdd(start, skip + (k - 1))
    BY <2>1 DEF StreamFrom
  <2>3. k - 1 \in Nat /\ skip + (k - 1) < Modulus
    BY <1>1, <1>2
  <2>4. WrapAdd(WrapAdd(start, skip), k - 1) = WrapAdd(start, skip + (k - 1))
    BY <2>3, WrapAddAssociative
  <2> QED
    BY <1>5, <2>2, <2>4
<1> QED
  BY <1>4, <1>5, <1>6 DEF StreamFrom

\* The distance of two positions is the difference of their offsets.
LEMMA Distance ==
  ASSUME NEW base \in StreamPositions, NEW p \in StreamPositions, NEW q \in StreamPositions,
         NEW i \in Nat, NEW d \in Nat, WrapSub(p, base) = i, WrapSub(q, base) = i + d
  PROVE  WrapSub(q, p) = d
<1>1. WrapSub(p, base) <= WrapSub(q, base)
  OBVIOUS
<1>2. WrapSub(q, p) = WrapSub(q, base) - WrapSub(p, base)
  BY <1>1, OffsetOf, SMTT(30)
<1> QED
  BY <1>2

\* What recv promises for a block at offset s of which the bytes before offset last fit.
RecvKept(capacity, base, len, w, s, last, ret) ==
  /\ s < last => /\ ret.result = "Some"
                 /\ ret.end \in StreamPositions /\ WrapSub(ret.end, base) = last
  /\ ~(s < last) => ret.result = "None"
  /\ RecvWindowInv(capacity, base, len, ret.win)
  /\ ReadOffset(base, ret.win) = ReadOffset(base, w)
  /\ Extends(base, w, s, last, ret.win)

(***************************************************************************)
(* The n bytes are those of the stream from offset s on, not more than     *)
(* MaxWindow before the end of the window; those before offset last fit.   *)
(***************************************************************************)
BlockAt(capacity, base, len, w, start, bytes, s, n, t, last) ==
  /\ capacity <= MaxWindow /\ len <= MaxWindow
  /\ RecvWindowInv(capacity, base, len, w)
  /\ s = WrapSub(start, base) /\ StreamFrom(start, bytes)
  /\ n = Len(bytes) /\ s + n <= len
  /\ t = ReadOffset(base, w) /\ t + capacity <= s + MaxWindow
  /\ last = Lesser(s + n, t + capacity)

(***************************************************************************)
(* RecvWindow::recv, for a block of the stream that starts at most         *)
(* MaxWindow before the end of the window: it does not panic, returns the  *)
(* end of what fits, and the window then has what it had and that.         *)
(***************************************************************************)
LEMMA RecvKeeps ==
  ASSUME NEW capacity \in Nat \ {0}, NEW base \in StreamPositions, NEW len \in Nat, NEW w,
         NEW start \in StreamPositions, NEW bytes \in Seq(Int),
         NEW s \in Nat, NEW n \in Nat, NEW t \in Nat, NEW last \in Nat,
         BlockAt(capacity, base, len, w, start, bytes, s, n, t, last),
         NEW ret, ret = recv(capacity, w, start, bytes)
  PROVE  RecvKept(capacity, base, len, w, s, last, ret)
<1> DEFINE O(q) == WrapSub(q, base)
           recv_end   == window_end(capacity, w)
           copy_start == IF stream_gt(w.recv_pos, start) THEN w.recv_pos ELSE start
           end_pos    == StoredEnd(WrapAdd(start, Len(bytes)), recv_end)
           data_start == WrapSub(copy_start, start)
           buf_start  == WrapSub(copy_start, w.recv_pos)
           m          == WrapSub(end_pos, w.recv_pos) - buf_start
           slice      == SubSeq(bytes, data_start + 1, data_start + m)
           stored     == Write(capacity, w.buf, buf_start, slice)
           join       == JoinReady(w.unready, end_pos)
           insert     == InsertUnready(w.unready, start, end_pos)
           Return(result, win) == [result |-> result, end |-> end_pos, win |-> win]
<1>1. ret = IF ~stream_lt(start, recv_end) THEN Return("None", w)
            ELSE IF stream_ge(copy_start, end_pos)
            THEN Return(IF stream_lt(start, end_pos) THEN "Some" ELSE "None", w)
            ELSE IF \/ m < 0 \/ data_start + m > Len(bytes)
                    \/ WriteLen(capacity, w.buf, buf_start, slice) # m
            THEN Return("Panic", w)
            ELSE IF stream_ge(w.recv_pos, start)
            THEN IF join.panic THEN Return("Panic", w)
                 ELSE Return("Some",
                        [buf      |-> WriterAdvance(capacity, stored,
                                                    WrapSub(join.end, w.recv_pos)),
                         recv_pos |-> join.end,
                         unready  |-> join.unready])
            ELSE IF insert.panic THEN Return("Panic", w)
                 ELSE Return("Some", [w EXCEPT !.buf = stored, !.unready = insert.unready])
  BY DEF recv
<1> HIDE DEF recv_end, copy_start, end_pos, data_start, buf_start, m, slice, stored, join, insert
<1>2. /\ capacity <= MaxWindow /\ len <= MaxWindow /\ RecvWindowInv(capacity, base, len, w)
      /\ O(start) = s /\ StreamFrom(start, bytes) /\ Len(bytes) = n
      /\ ReadOffset(base, w) = t
  BY DEF BlockAt
<1>3. /\ w.buf \in Queues(capacity) /\ w.recv_pos \in StreamPositions
      /\ w.unready \in Seq(Ranges)
      /\ w = [buf |-> w.buf, recv_pos |-> w.recv_pos, unready |-> w.unready]
  BY <1>2, RecvWindowFacts
<1>4. PICK max \in Nat, at \in Nat, used \in Nat :
        /\ max = MaxWindow /\ at = O(w.recv_pos) /\ used = w.buf.used
        /\ Modulus = 2 * max + 2
        /\ capacity <= max /\ len <= max /\ s + n <= len /\ t + capacity <= s + max
        /\ last = (IF s + n <= t + capacity THEN s + n ELSE t + capacity)
        /\ t + used = at /\ used <= capacity /\ at <= len
  <2>1. /\ MaxWindow \in Nat /\ O(w.recv_pos) \in Nat /\ w.buf.used \in Nat
        /\ Modulus = 2 * MaxWindow + 2 /\ w.buf.used <= capacity
        /\ w.buf.used <= O(w.recv_pos) /\ O(w.recv_pos) <= len
        /\ ReadOffset(base, w) = O(w.recv_pos) - w.buf.used
    BY <1>2, RecvWindowFacts
  <2>2. PICK max \in Nat, at \in Nat, used \in Nat :
          max = MaxWindow /\ at = O(w.recv_pos) /\ used = w.buf.used
    BY <2>1
  <2>3. /\ s + n <= len /\ t + capacity <= s + max /\ capacity <= max /\ len <= max
        /\ last = (IF s + n <= t + capacity THEN s + n ELSE t + capacity)
    BY <2>2 DEF BlockAt, Lesser
  <2>4. t = at - used /\ used <= capacity /\ at <= len
    BY <1>2, <2>1, <2>2
  <2>5. t + used = at
    BY <2>4
  <2> HIDE DEF O
  <2> QED
    BY <2>1, <2>2, <2>3, <2>4, <2>5
<1> DEFINE limit == t + capacity
<1>5. /\ recv_end \in StreamPositions /\ O(recv_end) = limit
  BY <1>2, WindowEndOffset DEF recv_end
<1> HIDE DEF O, limit
<1>6. /\ limit \in Nat /\ at <= max /\ s <= max /\ s + n <= max /\ s + n \in Nat
      /\ limit <= s + max /\ at <= limit /\ limit <= 2 * max
      /\ last <= s + n /\ last <= limit /\ last <= len /\ last <= max
      /\ last = (IF s + n <= limit THEN s + n ELSE limit)
  BY <1>4, SMTT(30) DEF limit
\* Two positions that are near each other, by their offsets.
<1>7. ASSUME NEW p \in StreamPositions, NEW q \in StreamPositions, NEW i \in Nat, NEW j \in Nat,
             i = O(p), j = O(q), i <= j + max, j <= i + max
      PROVE  /\ stream_lt(p, q) <=> i < j
             /\ stream_gt(p, q) <=> i > j
             /\ stream_ge(p, q) <=> i >= j
  <2>1. i = WrapSub(p, base) /\ j = WrapSub(q, base)
    BY <1>7 DEF O
  <2>2. i <= j + MaxWindow /\ j <= i + MaxWindow
    BY <1>4, <1>7
  <2> QED
    BY <2>1, <2>2, CmpNear
<1>17. ASSUME NEW p \in StreamPositions, NEW q \in StreamPositions, NEW i \in Nat, NEW d \in Nat,
              O(p) = i, O(q) = i + d
       PROVE  WrapSub(q, p) = d
  <2>1. WrapSub(p, base) = i /\ WrapSub(q, base) = i + d
    BY <1>17 DEF O
  <2> QED
    BY <2>1, Distance
<1>8. /\ stream_lt(start, recv_end) <=> s < limit
      /\ stream_gt(w.recv_pos, start) <=> at > s
      /\ stream_ge(w.recv_pos, start) <=> at >= s
  <2>1. /\ s <= limit + max /\ limit <= s + max
        /\ at <= s + max /\ s <= at + max
    BY <1>6
  <2> QED
    BY <1>2, <1>3, <1>4, <1>5, <1>6, <1>7, <2>1, SMTT(30)
<1>14. PICK cs \in Nat :
        /\ copy_start \in StreamPositions /\ O(copy_start) = cs
        /\ cs = (IF at > s THEN at ELSE s)
        /\ s <= cs /\ at <= cs /\ cs <= max
  <2>1. CASE at > s
    <3>1. copy_start = w.recv_pos
      BY <1>8, <2>1 DEF copy_start
    <3>2. s <= at /\ at <= at /\ at <= max
      BY <1>6, <2>1
    <3> QED
      BY <1>3, <1>4, <2>1, <3>1, <3>2
  <2>2. CASE ~(at > s)
    <3>1. copy_start = start
      BY <1>8, <2>2 DEF copy_start
    <3>2. s <= s /\ at <= s /\ s <= max
      BY <1>6, <2>2
    <3> QED
      BY <1>2, <2>2, <3>1, <3>2
  <2> QED
    BY <2>1, <2>2
<1>15. /\ end_pos \in StreamPositions /\ O(end_pos) = last
  <2>1. /\ WrapAdd(start, n) \in StreamPositions /\ O(WrapAdd(start, n)) = s + n
    <3>1. s + n < Modulus
      BY <1>4, <1>6
    <3> QED
      BY <1>2, <3>1, OffsetAhead DEF O
  <2>2. stream_lt(WrapAdd(start, n), recv_end) <=> s + n < limit
    <3>1. s + n <= limit + max /\ limit <= (s + n) + max
      BY <1>6
    <3> QED
      BY <1>5, <1>6, <1>7, <2>1, <3>1
  <2>3. end_pos = IF s + n < limit THEN WrapAdd(start, n) ELSE recv_end
    BY <1>2, <2>2 DEF end_pos, StoredEnd
  <2>4. CASE s + n < limit
    <3>1. last = s + n
      BY <1>6, <2>4
    <3> QED
      BY <2>1, <2>3, <2>4, <3>1
  <2>5. CASE ~(s + n < limit)
    <3>1. last = limit
      BY <1>6, <2>5
    <3> QED
      BY <1>5, <2>3, <2>5, <3>1
  <2> QED
    BY <2>4, <2>5
<1>16. /\ stream_ge(copy_start, end_pos) <=> cs >= last
       /\ stream_lt(start, end_pos) <=> s < last
  <2>1. /\ cs <= last + max /\ last <= cs + max
        /\ s <= last + max /\ last <= s + max
    BY <1>6, <1>14
  <2> QED
    BY <1>2, <1>7, <1>14, <1>15, <2>1
<1>9. ASSUME NEW result, ret = Return(result, w), s < last => result = "Some",
             ~(s < last) => result = "None", s < last => last <= at
      PROVE  RecvKept(capacity, base, len, w, s, last, ret)
  <2>1. ret.result = result /\ ret.win = w /\ ret.end = end_pos
    BY <1>9
  <2>2. ASSUME NEW o \in Nat PROVE Held(base, w, o) <=> Held(base, w, o) \/ (s <= o /\ o < last)
    <3>1. s <= o /\ o < last => o < at
      BY <1>9
    <3> QED
      BY <1>4, <3>1 DEF Held, O
  <2> QED
    BY <1>2, <1>9, <1>15, <2>1, <2>2 DEF RecvKept, O, Extends
<1>10. CASE ~(s < limit)
  <2>1. ret = Return("None", w)
    BY <1>1, <1>8, <1>10
  <2>2. ~(s < last)
    BY <1>6, <1>10
  <2> QED
    BY <1>9, <2>1, <2>2
<1>11. CASE s < limit /\ cs >= last
  <2>1. ret = Return(IF s < last THEN "Some" ELSE "None", w)
    BY <1>1, <1>8, <1>11, <1>16
  <2>2. s < last => last <= at
    BY <1>11, <1>14
  <2> QED
    BY <1>9, <2>1, <2>2
<1>12. ASSUME s < limit, cs < last
       PROVE  RecvKept(capacity, base, len, w, s, last, ret)
  <2>2. PICK skip \in Nat, offset \in Nat, k \in Nat :
          /\ s + skip = cs /\ at + offset = cs /\ cs + k = last /\ k > 0
    <3>1. /\ cs - s \in Nat /\ cs - at \in Nat /\ last - cs \in Nat \ {0}
          /\ s + (cs - s) = cs /\ at + (cs - at) = cs /\ cs + (last - cs) = last
      BY <1>12, <1>14
    <3> QED
      BY <3>1
  <2>3. data_start = skip /\ buf_start = offset /\ m = k
    <3>1. O(copy_start) = s + skip /\ O(copy_start) = at + offset
      BY <1>14, <2>2
    <3>2. data_start = skip
      BY <1>2, <1>14, <1>17, <3>1 DEF data_start
    <3>3. buf_start = offset
      <4>1. O(w.recv_pos) = at
        BY <1>4
      <4> QED
        BY <1>3, <1>14, <1>17, <3>1, <4>1 DEF buf_start
    <3>4. PICK reach \in Nat : reach = offset + k
      OBVIOUS
    <3>5. at + reach = last
      BY <2>2, <3>4
    <3>6. O(end_pos) = at + reach
      BY <1>15, <3>5
    <3>7. WrapSub(end_pos, w.recv_pos) = reach
      <4>1. O(w.recv_pos) = at
        BY <1>4
      <4> QED
        BY <1>3, <1>15, <1>17, <3>6, <4>1
    <3>8. m = reach - offset
      BY <3>3, <3>7 DEF m
    <3>9. reach - offset = k
      BY <3>4
    <3> QED
      BY <3>2, <3>3, <3>8, <3>9
  <2>4. /\ slice \in Seq(Int) /\ Len(slice) = k
        /\ StreamFrom(WrapAdd(base, cs), slice)
    <3>1. skip + k <= n /\ n <= max
      BY <1>6, <2>2
    <3>2. /\ slice \in Seq(Int) /\ Len(slice) = k
          /\ StreamFrom(WrapAdd(start, skip), slice)
      <4>1. slice = Slice(bytes, skip, k)
        BY <2>3 DEF slice, Slice
      <4> QED
        <5>1. skip + k <= Len(bytes) /\ Len(bytes) <= MaxWindow /\ StreamFrom(start, bytes)
          BY <1>2, <1>4, <3>1
        <5>2. k > 0
          BY <2>2
        <5> QED
          BY <4>1, <5>1, <5>2, StreamSlice
    <3>3. WrapAdd(start, skip) = WrapAdd(base, cs)
      <4>1. start = WrapAdd(base, s)
        BY <1>2, OffsetOf DEF O
      <4>2. s + skip < Modulus
        BY <1>4, <1>14, <2>2
      <4> QED
        <5>1. WrapAdd(WrapAdd(base, s), skip) = WrapAdd(base, s + skip)
          BY <4>2, WrapAddAssociative
        <5> QED
          BY <2>2, <4>1, <5>1
    <3> QED
      BY <3>2, <3>3
  <2>5. stored = Write(capacity, w.buf, offset, slice)
    BY <2>3 DEF stored
  <2>6. /\ WriteLen(capacity, w.buf, offset, slice) = k
        /\ stored \in Queues(capacity) /\ stored.used = used
        /\ FilledCells(capacity, base, w, t, cs, last, stored)
    <3>1. last <= len /\ last <= t + capacity
      BY <1>6 DEF limit
    <3>2. /\ capacity <= MaxWindow /\ len <= MaxWindow
          /\ RecvWindowInv(capacity, base, len, w)
          /\ t = ReadOffset(base, w) /\ at = WrapSub(w.recv_pos, base)
      BY <1>2, <1>4 DEF O
    <3>3. /\ WriteLen(capacity, w.buf, offset, slice) = k
          /\ stored \in Queues(capacity) /\ stored.used = w.buf.used
          /\ FilledCells(capacity, base, w, t, cs, last, stored)
      BY <2>2, <2>4, <2>5, <3>1, <3>2, BlockStored, SMTT(30)
    <3> QED
      BY <1>4, <3>3
  <2>7. ~(\/ m < 0 \/ data_start + m > Len(bytes)
          \/ WriteLen(capacity, w.buf, buf_start, slice) # m)
    <3>1. ~(k < 0) /\ ~(skip + k > n)
      BY <1>6, <2>2
    <3> QED
      BY <1>2, <2>3, <2>6, <3>1
  <2>8. PICK top \in Nat : /\ top = Lesser(len, t + capacity) /\ top <= max
                           /\ last <= top /\ top <= limit /\ top <= len /\ at <= top
    <3>1. /\ Lesser(len, limit) \in Nat
          /\ Lesser(len, limit) <= len /\ Lesser(len, limit) <= limit
          /\ last <= Lesser(len, limit) /\ at <= Lesser(len, limit)
      BY <1>4, <1>6, SMTT(30) DEF Lesser
    <3>2. Lesser(len, limit) <= max
      BY <1>4, <3>1
    <3> QED
      BY <3>1, <3>2 DEF limit
  <2>9. /\ Separate(base, top, w.unready) /\ Clear(base, at, w.unready)
    BY <1>2, <1>4, <2>8 DEF RecvWindowInv, O
  <2>11. ASSUME NEW after \in RecvWindows(capacity), after.buf.cells = stored.cells,
                ret = Return("Some", after),
                NEW at1 \in Nat, at1 = O(after.recv_pos), at <= at1, at1 <= top,
                ReadOffset(base, after) = t,
                Separate(base, top, after.unready), Clear(base, at1, after.unready),
                Extends(base, w, s, last, after)
         PROVE  RecvKept(capacity, base, len, w, s, last, ret)
    <3>1. RecvWindowInv(capacity, base, len, after)
      <4>1. last <= t + capacity /\ cs = (IF at > s THEN at ELSE s)
        BY <1>6, <1>14 DEF limit
      <4> QED
        BY <1>2, <1>4, <2>6, <2>8, <2>11, <4>1, AfterBlock DEF O
    <3>2. ret.result = "Some" /\ ret.win = after /\ ret.end = end_pos
      BY <2>11
    <3>3. s < last
      BY <2>2
    <3> QED
      BY <1>2, <1>15, <2>11, <3>1, <3>2, <3>3 DEF RecvKept, O
  <2>12. CASE at >= s
    <3>1. cs = at
      BY <1>14, <2>12
    <3>13. Joined(base, top, w.unready, end_pos, join)
      <4>1. last <= top /\ top <= MaxWindow
        BY <1>4, <2>8
      <4>2. WrapSub(end_pos, base) <= top /\ top <= MaxWindow
        BY <1>15, <4>1 DEF O
      <4>3. join = JoinReady(w.unready, end_pos)
        BY DEF join
      <4> QED
        BY <1>3, <1>15, <2>9, <4>2, <4>3, JoinReadyKeeps
    <3>2. /\ join.panic = FALSE
          /\ join.end \in StreamPositions
          /\ O(end_pos) <= O(join.end) /\ O(join.end) <= top
          /\ join.unready \in Seq(Ranges)
          /\ Separate(base, top, join.unready)
          /\ Clear(base, O(join.end), join.unready)
      BY <3>13 DEF Joined, O
    <3>3. PICK e \in Nat : e = O(join.end) /\ last <= e /\ e <= top
      <4>1. O(join.end) \in Nat
        BY <3>2, OffsetOf, HalfRangeAssumption, SMTT(30) DEF Modulus, O
      <4> QED
        BY <1>15, <3>2, <4>1
    <3>4. PICK d \in Nat : d = WrapSub(join.end, w.recv_pos) /\ at + d = e
      <4>1. e - at \in Nat /\ at + (e - at) = e
        BY <2>2, <3>1, <3>3
      <4>2. PICK d \in Nat : at + d = e
        BY <4>1
      <4>3. O(join.end) = at + d /\ O(w.recv_pos) = at
        BY <1>4, <3>3, <4>2
      <4>4. WrapSub(join.end, w.recv_pos) = d
        BY <1>3, <1>17, <3>2, <4>3
      <4> QED
        BY <4>2, <4>4
    <3>5. PICK buf : buf = WriterAdvance(capacity, stored, d)
      OBVIOUS
    <3>6. buf \in Queues(capacity) /\ buf.used = used + d /\ buf.cells = stored.cells
      <4>1. d \in 0..(capacity - used)
        <5>1. e <= t + capacity
          <6>1. e <= limit
            BY <2>8, <3>3, <1>6
          <6> QED
            BY <6>1 DEF limit
        <5>2. used + d <= capacity
          <6>1. (t + used) + d <= t + capacity
            BY <1>4, <3>4, <5>1
          <6> QED
            BY <6>1
        <5> QED
          BY <5>2
      <4>2. d \in 0..(capacity - stored.used)
        BY <2>6, <4>1
      <4>3. buf \in Queues(capacity) /\ buf.used = stored.used + d /\ buf.cells = stored.cells
        BY <2>6, <3>5, <4>2, WriterAdvances, SMTT(30)
      <4> QED
        BY <2>6, <4>3
    <3>7. PICK after : after = [buf |-> buf, recv_pos |-> join.end, unready |-> join.unready]
      OBVIOUS
    <3>8. ret = Return("Some", after)
      BY <1>1, <1>8, <1>12, <1>16, <2>7, <2>12, <3>2, <3>4, <3>5, <3>7, SMTT(30)
    <3>9. /\ after \in RecvWindows(capacity) /\ after.buf = buf
          /\ after.recv_pos = join.end /\ after.unready = join.unready
      BY <3>2, <3>6, <3>7 DEF RecvWindows
    <3>10. ReadOffset(base, after) = t
      <4>1. ReadOffset(base, after) = e - (used + d)
        BY <3>3, <3>6, <3>9 DEF ReadOffset, O
      <4>2. e - (used + d) = t
        <5>1. e = (t + used) + d
          BY <1>4, <3>4
        <5> QED
          BY <5>1
      <4> QED
        BY <4>1, <4>2
    <3>11. Extends(base, w, s, last, after)
      <4> SUFFICES ASSUME NEW o \in Nat
                   PROVE  Held(base, after, o) <=> Held(base, w, o) \/ (s <= o /\ o < last)
        BY DEF Extends
      <4>1. Held(base, after, o) <=> o < last \/ Inside(base, w.unready, o)
        BY <1>15, <3>9, <3>13 DEF Held, O, Joined
      <4>2. o < last <=> o < at \/ (s <= o /\ o < last)
        BY <2>2, <2>12, <3>1
      <4>3. Held(base, w, o) <=> o < at \/ Inside(base, w.unready, o)
        BY <1>4 DEF Held, O
      <4> QED
        BY <4>1, <4>2, <4>3
    <3>12. at <= e /\ e = O(after.recv_pos) /\ Clear(base, e, after.unready)
           /\ Separate(base, top, after.unready) /\ after.buf.cells = stored.cells
      <4>1. at <= e
        BY <3>4
      <4> QED
        BY <3>2, <3>3, <3>6, <3>9, <4>1
    <3> QED
      BY <2>11, <3>3, <3>8, <3>9, <3>10, <3>11, <3>12
  <2>13. CASE ~(at >= s)
    <3>1. cs = s /\ at < s /\ s < last
      BY <1>12, <1>14, <2>13
    <3>9. Inserted(base, top, at, w.unready, start, end_pos, insert)
      <4>1. last <= top /\ top <= MaxWindow
        BY <1>4, <2>8
      <4>2. /\ at < WrapSub(start, base) /\ WrapSub(start, base) < WrapSub(end_pos, base)
            /\ WrapSub(end_pos, base) <= top /\ top <= MaxWindow
        BY <1>2, <1>15, <3>1, <4>1 DEF O
      <4>3. insert = InsertUnready(w.unready, start, end_pos)
        BY DEF insert
      <4> QED
        BY <1>3, <1>15, <2>9, <4>2, <4>3, InsertUnreadyKeeps
    <3>2. /\ insert.panic = FALSE
          /\ insert.unready \in Seq(Ranges)
          /\ Separate(base, top, insert.unready)
          /\ Clear(base, at, insert.unready)
          /\ \A o \in Nat : Inside(base, insert.unready, o)
               <=> (O(start) <= o /\ o < O(end_pos)) \/ Inside(base, w.unready, o)
      BY <3>9 DEF Inserted, O
    <3>3. PICK after : after = [w EXCEPT !.buf = stored, !.unready = insert.unready]
      OBVIOUS
    <3>4. ret = Return("Some", after)
      BY <1>1, <1>8, <1>12, <1>16, <2>7, <2>13, <3>2, <3>3, SMTT(30)
    <3>5. /\ after \in RecvWindows(capacity) /\ after.buf = stored
          /\ after.recv_pos = w.recv_pos /\ after.unready = insert.unready
      BY <1>3, <2>6, <3>2, <3>3 DEF RecvWindows
    <3>6. ReadOffset(base, after) = t
      BY <1>2, <1>4, <2>6, <3>5 DEF ReadOffset, O
    <3>7. Extends(base, w, s, last, after)
      BY <1>2, <1>15, <3>2, <3>5 DEF Held, O, Extends
    <3>8. /\ at = O(after.recv_pos) /\ at <= at /\ at <= top /\ after.buf.cells = stored.cells
          /\ Separate(base, top, after.unready) /\ Clear(base, at, after.unready)
      <4>1. at <= at
        OBVIOUS
      <4> QED
        BY <1>4, <2>8, <3>2, <3>5, <4>1
    <3> QED
      BY <2>11, <3>4, <3>5, <3>6, <3>7, <3>8
  <2> QED
    BY <2>12, <2>13
<1>13. (s < limit /\ cs >= last) \/ (s < limit /\ cs < last) \/ ~(s < limit)
  OBVIOUS
<1> QED
  BY <1>10, <1>11, <1>12, <1>13

=============================================================================
