---------------------------- MODULE RxPathProofs ----------------------------
(***************************************************************************)
(* The receive path, for every buffer size, counter width, line length and *)
(* number of bytes, errors and raced starts: what the events publish is    *)
(* what the DMA stored, every published byte is accounted for, main never  *)
(* halts, and a console that is not being restarted is not deaf.           *)
(*                                                                         *)
(* The argument follows the two halves of the buffer: a half-transfer or   *)
(* transfer-complete event that has not been served lies between the       *)
(* position published last and the DMA's, and none is missing, so that the *)
(* distance of the two positions, of which publish_position only knows the *)
(* remainder, is the number of bytes stored.                               *)
(***************************************************************************)
EXTENDS RxPath, SequenceTheorems, TLAPS

-----------------------------------------------------------------------------
(***************************************************************************)
(* Remainders.                                                             *)
(***************************************************************************)
\* Division with remainder.
LEMMA Remainder ==
  ASSUME NEW a \in Int, NEW m \in Nat \ {0}
  PROVE  (a % m) \in 0 .. m - 1 /\ a \div m \in Int /\ a = m * (a \div m) + (a % m)
OBVIOUS

\* A remainder is recognized by what it differs from the number by.
LEMMA RemainderIs ==
  ASSUME NEW m \in Nat \ {0}, NEW k \in Int, NEW r \in 0 .. m - 1
  PROVE  (m * k + r) % m = r
<1> DEFINE a == m * k + r
<1> DEFINE j == a \div m
<1> DEFINE s == a % m
<1>1. a \in Int
  OBVIOUS
<1>2. s \in 0 .. m - 1 /\ j \in Int /\ a = m * j + s
  BY <1>1, Remainder
<1> HIDE DEF j, s
<1>3. m * (k - j) = s - r
  BY <1>2
<1>4. k - j >= 1 => m * (k - j) >= m
  BY <1>2
<1>5. k - j <= -1 => m * (k - j) <= -m
  BY <1>2
<1>6. k = j
  BY <1>2, <1>3, <1>4, <1>5
<1>7. s = r
  BY <1>2, <1>3, <1>6
<1> QED BY <1>7 DEF s

\* Numbers a multiple of m apart have the same remainder.
LEMMA SameRemainder ==
  ASSUME NEW m \in Nat \ {0}, NEW a \in Int, NEW k \in Int
  PROVE  (a + m * k) % m = a % m
<1> DEFINE j == a \div m
<1> DEFINE s == a % m
<1>1. s \in 0 .. m - 1 /\ j \in Int /\ a = m * j + s
  BY Remainder
<1> HIDE DEF j, s
<1>2. a + m * k = m * (j + k) + s
  BY <1>1
<1>3. (m * (j + k) + s) % m = s
  BY <1>1, RemainderIs
<1> QED BY <1>2, <1>3 DEF s

\* Within a range of m on either side a remainder is a choice of three.
LEMMA NearRemainder ==
  ASSUME NEW m \in Nat \ {0}, NEW a \in Int
  PROVE  /\ 0 <= a /\ a < m => a % m = a
         /\ a < 0 /\ -m <= a => a % m = a + m
         /\ m <= a /\ a < m + m => a % m = a - m
<1>1. ASSUME 0 <= a, a < m PROVE a % m = a
  <2>1. (m * 0 + a) % m = a
    BY <1>1, RemainderIs
  <2> QED BY <2>1
<1>2. ASSUME a < 0, -m <= a PROVE a % m = a + m
  <2>1. a + m \in 0 .. m - 1
    BY <1>2
  <2>2. (m * (-1) + (a + m)) % m = a + m
    BY <2>1, RemainderIs
  <2>3. m * (-1) + (a + m) = a
    OBVIOUS
  <2> QED BY <2>2, <2>3
<1>3. ASSUME m <= a, a < m + m PROVE a % m = a - m
  <2>1. a - m \in 0 .. m - 1
    BY <1>3
  <2>2. (m * 1 + (a - m)) % m = a - m
    BY <2>1, RemainderIs
  <2>3. m * 1 + (a - m) = a
    OBVIOUS
  <2> QED BY <2>2, <2>3
<1> QED BY <1>1, <1>2, <1>3

-----------------------------------------------------------------------------
(***************************************************************************)
(* The operations of the stream.                                           *)
(***************************************************************************)
LEMMA Sizes ==
  Capacity \in Nat \ {0} /\ CountMod \in Nat \ {0} /\ Capacity < CountMod
  BY StreamAssumption

LEMMA CapacityDivides ==
  CountMod \div Capacity \in Int /\ CountMod = Capacity * (CountMod \div Capacity)
<1> DEFINE f == CountMod \div Capacity
<1>1. CountMod = Capacity * f + (CountMod % Capacity) /\ f \in Int
  BY Sizes, Remainder
<1> HIDE DEF f
<1>2. CountMod = Capacity * f
  BY <1>1, Sizes, StreamAssumption
<1> QED BY <1>1, <1>2 DEF f

LEMMA NearCapacity ==
  ASSUME NEW a \in Int
  PROVE  /\ a % Capacity \in 0 .. Capacity - 1
         /\ 0 <= a /\ a < Capacity => a % Capacity = a
         /\ a < 0 /\ -Capacity <= a => a % Capacity = a + Capacity
         /\ Capacity <= a /\ a < Capacity + Capacity => a % Capacity = a - Capacity
  BY Sizes, Remainder, NearRemainder

LEMMA NearCountMod ==
  ASSUME NEW a \in Int
  PROVE  /\ a % CountMod \in 0 .. CountMod - 1
         /\ 0 <= a /\ a < CountMod => a % CountMod = a
         /\ a < 0 /\ -CountMod <= a => a % CountMod = a + CountMod
         /\ CountMod <= a /\ a < CountMod + CountMod => a % CountMod = a - CountMod
  BY Sizes, Remainder, NearRemainder

LEMMA WrapsOnce ==
  ASSUME NEW a \in Int, -CountMod <= a, a < CountMod + CountMod
  PROVE  /\ a % CountMod \in 0 .. CountMod - 1
         /\ \/ a % CountMod = a
            \/ a % CountMod = a + CountMod
            \/ a % CountMod = a - CountMod
<1>1. CASE a < 0
  BY <1>1, NearCountMod
<1>2. CASE 0 <= a /\ a < CountMod
  BY <1>2, NearCountMod
<1>3. CASE CountMod <= a
  BY <1>3, NearCountMod
<1> QED BY <1>1, <1>2, <1>3, Sizes

LEMMA OneBufferOn ==
  ASSUME NEW x \in 0 .. Capacity - 1, NEW a \in Int, a = x \/ a = x + Capacity
  PROVE  a % Capacity = x
<1>1. CASE a = x
  BY <1>1, Sizes, NearCapacity
<1>2. CASE a = x + Capacity
  <2>1. (Capacity * 1 + x) % Capacity = x
    BY Sizes, RemainderIs
  <2>2. Capacity * 1 + x = a
    BY <1>2, Sizes
  <2> QED BY <2>1, <2>2
<1> QED BY <1>1, <1>2

\* A counter that wraps keeps its slot.
LEMMA SlotOfCounter ==
  ASSUME NEW a \in Int
  PROVE  Slot(a % CountMod) = Slot(a)
<1> DEFINE c == a % CountMod
           k == a \div CountMod
           f == CountMod \div Capacity
<1>1. c \in Int /\ k \in Int /\ a = CountMod * k + c
  BY Remainder, Sizes
<1>2. f \in Int /\ CountMod = Capacity * f
  BY CapacityDivides
<1> HIDE DEF c, k, f
<1>3. CountMod * k = Capacity * (f * k) /\ f * k \in Int
  BY <1>1, <1>2, Sizes
<1>4. a = c + Capacity * (f * k)
  BY <1>1, <1>3, Sizes
<1>5. (c + Capacity * (f * k)) % Capacity = c % Capacity
  BY <1>1, <1>3, Sizes, SameRemainder
<1> QED BY <1>4, <1>5 DEF Slot, c

\* A position is its slot, and the end of the buffer its start.
LEMMA SlotOfPosition ==
  ASSUME NEW a \in 0 .. Capacity
  PROVE  Slot(a) = IF a = Capacity THEN 0 ELSE a
<1>1. a \in Int /\ 0 <= a /\ a <= Capacity
  BY Sizes
<1>2. CASE a = Capacity
  <2>1. a % Capacity = a - Capacity
    BY <1>1, <1>2, Sizes, NearCapacity
  <2> QED BY <1>2, <2>1, Sizes DEF Slot
<1>3. CASE a < Capacity
  BY <1>1, <1>3, Sizes, NearCapacity DEF Slot
<1> QED BY <1>1, <1>2, <1>3, Sizes

LEMMA PendingTyped ==
  ASSUME NEW s \in Streams
  PROVE  Pending(s) \in 0 .. CountMod - 1
<1>1. s.produced \in Int /\ s.consumed \in Int
  BY Sizes DEF Streams, Counters
<1>2. s.produced - s.consumed \in Int
  BY <1>1
<1> QED BY <1>2, Remainder, Sizes DEF Pending

\* A publication adds what was received to what is pending, as long as the
\* count of pending bytes does not wrap, and the slot stays the position.
LEMMA PublishEffect ==
  ASSUME NEW s \in Streams, NEW position \in 0 .. Capacity
  PROVE  /\ Publish(s, position) \in Streams
         /\ Publish(s, position).consumed = s.consumed
         /\ Publish(s, position).overflow_count = s.overflow_count
         /\ Publish(s, position).old_position = Slot(position)
         /\ Received(s, position) \in Slots
         /\ Pending(s) + Received(s, position) < CountMod =>
              Pending(Publish(s, position)) = Pending(s) + Received(s, position)
         /\ Slot(s.produced) = s.old_position =>
              Slot(Publish(s, position).produced) = Slot(position)
<1> DEFINE r == Received(s, position)
           t == Publish(s, position)
<1>1. /\ s.produced \in 0 .. CountMod - 1 /\ s.consumed \in 0 .. CountMod - 1
      /\ s.old_position \in 0 .. Capacity - 1
  BY DEF Streams, Counters, Slots
<1>2. Slot(position) \in 0 .. Capacity - 1
  BY Sizes, Remainder DEF Slot
<1>3. r \in 0 .. Capacity - 1
  <2>1. Slot(position) - s.old_position \in Int
    BY <1>1, <1>2
  <2> QED BY <2>1, Sizes, Remainder DEF Received
<1>5. t = [s EXCEPT !.produced = (s.produced + r) % CountMod,
                    !.old_position = Slot(position)]
  BY DEF Publish
<1> HIDE DEF r, t
<1>6. (s.produced + r) % CountMod \in 0 .. CountMod - 1
  <2>1. s.produced + r \in Int
    BY <1>1, <1>3
  <2> QED BY <2>1, Sizes, Remainder
<1>7. /\ t \in Streams /\ t.consumed = s.consumed
      /\ t.overflow_count = s.overflow_count /\ t.old_position = Slot(position)
      /\ t.produced = (s.produced + r) % CountMod
  BY <1>2, <1>5, <1>6 DEF Streams, Counters, Slots
<1>8. ASSUME Pending(s) + r < CountMod PROVE Pending(t) = Pending(s) + r
  <2> DEFINE d == s.produced - s.consumed
             p == s.produced + r
  <2>1. /\ 0 <= d => Pending(s) = d
        /\ d < 0 => Pending(s) = d + CountMod
        /\ d \in Int /\ -CountMod <= d /\ d < CountMod
    <3>1. d \in Int /\ -CountMod <= d /\ d < CountMod
      BY <1>1, Sizes
    <3>2. Pending(s) = d % CountMod
      BY DEF Pending
    <3> HIDE DEF d
    <3> QED BY <3>1, <3>2, NearCountMod
  <2>2. /\ p < CountMod => t.produced = p
        /\ CountMod <= p => t.produced = p - CountMod
        /\ p \in Nat
    <3>1. p \in Nat /\ p < CountMod + CountMod /\ t.produced = p % CountMod
      BY <1>1, <1>3, <1>7, Sizes
    <3> HIDE DEF p
    <3> QED BY <3>1, NearCountMod
  <2> DEFINE e == t.produced - s.consumed
  <2>3. e \in Int /\ -CountMod <= e /\ e < CountMod
    BY <1>1, <1>6, <1>7, Sizes
  <2>4. Pending(t) = e % CountMod
    BY <1>7 DEF Pending
  <2>5. e = d + r \/ e = (d + r) - CountMod
    BY <1>1, <1>3, <2>2, Sizes
  <2> HIDE DEF d, p, e
  <2>6. /\ 0 <= e => Pending(t) = e
        /\ e < 0 => Pending(t) = e + CountMod
    BY <2>3, <2>4, NearCountMod
  <2> QED BY <1>3, <1>8, <2>1, <2>3, <2>5, <2>6, Sizes
<1>9. ASSUME Slot(s.produced) = s.old_position PROVE Slot(t.produced) = Slot(position)
  <2> DEFINE k == s.produced \div Capacity
             d == Slot(position) - s.old_position
  <2>1. Slot(t.produced) = (s.produced + r) % Capacity
    <3>1. s.produced + r \in Int
      BY <1>1, <1>3
    <3> QED BY <1>7, <3>1, SlotOfCounter DEF Slot
  <2>2. k \in Int /\ s.produced = Capacity * k + s.old_position
    <3>0. s.produced \in Int
      BY <1>1
    <3>1. k \in Int /\ s.produced = Capacity * k + (s.produced % Capacity)
      BY <3>0, Sizes, Remainder
    <3> HIDE DEF k
    <3> QED BY <1>9, <3>1 DEF Slot
  <2>3. /\ d \in Int /\ -Capacity <= d /\ d < Capacity
        /\ r = d % Capacity
    BY <1>1, <1>2, Sizes DEF r, Received
  <2>4. s.old_position + d = Slot(position)
    BY <1>1, <1>2
  <2> HIDE DEF k, d
  <2>5. r = d \/ r = d + Capacity
    BY <2>3, NearCapacity
  <2>6. s.produced + r = (s.old_position + r) + Capacity * k
    BY <1>1, <1>3, <2>2, Sizes
  <2>7. (s.produced + r) % Capacity = (s.old_position + r) % Capacity
    <3>1. s.old_position + r \in Int
      BY <1>1, <1>3
    <3> QED BY <2>2, <2>6, <3>1, Sizes, SameRemainder
  <2>8. \/ s.old_position + r = Slot(position)
        \/ s.old_position + r = Slot(position) + Capacity
    BY <1>1, <1>2, <2>3, <2>4, <2>5, Sizes
  <2>9. (s.old_position + r) % Capacity = Slot(position)
    <3>1. s.old_position + r \in Int
      BY <1>1, <1>3
    <3> QED BY <1>2, <2>8, <3>1, OneBufferOn
  <2> QED BY <2>1, <2>7, <2>9
<1> QED BY <1>3, <1>7, <1>8, <1>9 DEF r, t, Slots

\* What peek finds overwritten moves from the pending bytes to the count.
LEMMA SkipEffect ==
  ASSUME NEW s \in Streams
  PROVE  /\ SkipOverwritten(s) \in Streams
         /\ SkipOverwritten(s).produced = s.produced
         /\ SkipOverwritten(s).old_position = s.old_position
         /\ Pending(SkipOverwritten(s)) <= Capacity
         /\ Pending(s) > 0 => Pending(SkipOverwritten(s)) > 0
         /\ SkipOverwritten(s).overflow_count + Pending(SkipOverwritten(s))
              = s.overflow_count + Pending(s)
         /\ Pending(SkipOverwritten(s)) <= Pending(s)
<1> DEFINE t == SkipOverwritten(s)
           c == (s.produced - Capacity) % CountMod
<1>1. /\ s.produced \in 0 .. CountMod - 1 /\ s.overflow_count \in Nat
      /\ Pending(s) \in 0 .. CountMod - 1
  BY PendingTyped DEF Streams, Counters
<1>2. CASE ~DataLost(s)
  BY <1>1, <1>2, Sizes DEF SkipOverwritten, DataLost
<1>3. CASE DataLost(s)
  <2>1. /\ Pending(s) > Capacity
        /\ t = [s EXCEPT !.overflow_count = s.overflow_count + (Pending(s) - Capacity),
                         !.consumed = c]
    BY <1>1, <1>3, Sizes DEF SkipOverwritten, DataLost
  <2>2. s.produced - Capacity \in Int /\ -CountMod <= s.produced - Capacity
        /\ s.produced - Capacity < CountMod
    BY <1>1, Sizes
  <2>3. /\ c \in 0 .. CountMod - 1
        /\ c = s.produced - Capacity \/ c = (s.produced - Capacity) + CountMod
    <3> DEFINE a == s.produced - Capacity
    <3>1. a \in Int /\ -CountMod <= a /\ a < CountMod /\ c = a % CountMod
      BY <2>2
    <3> HIDE DEF a
    <3>2. c \in 0 .. CountMod - 1 /\ (c = a \/ c = a + CountMod)
      <4>1. CASE a < 0
        BY <3>1, <4>1, NearCountMod
      <4>2. CASE 0 <= a
        BY <3>1, <4>2, NearCountMod
      <4> QED BY <3>1, <4>1, <4>2
    <3> QED BY <3>2 DEF a
  <2> HIDE DEF t, c
  <2>4. /\ t \in Streams /\ t.produced = s.produced /\ t.consumed = c
        /\ t.old_position = s.old_position
        /\ t.overflow_count = s.overflow_count + (Pending(s) - Capacity)
    <3>1. c \in Counters /\ s.overflow_count + (Pending(s) - Capacity) \in Nat
      BY <1>1, <2>1, <2>3, Sizes DEF Counters
    <3> QED BY <2>1, <3>1 DEF Streams
  <2>5. Pending(t) = Capacity
    <3> DEFINE d == s.produced - c
    <3>1. Pending(t) = d % CountMod
      BY <2>4 DEF Pending
    <3>2. d = Capacity \/ d = Capacity - CountMod
      BY <1>1, <2>3, Sizes
    <3>3. d \in Int
      BY <1>1, <2>3
    <3> HIDE DEF d
    <3>4. CASE d = Capacity
      <4>1. 0 <= d /\ d < CountMod
        BY <3>4, Sizes
      <4>2. d % CountMod = d
        BY <3>3, <4>1, NearCountMod
      <4> QED BY <3>1, <3>4, <4>2
    <3>5. CASE d = Capacity - CountMod
      <4>1. d % CountMod = d + CountMod
        BY <3>3, <3>5, Sizes, NearCountMod
      <4> QED BY <3>1, <3>5, <4>1, Sizes
    <3> QED BY <3>2, <3>4, <3>5
  <2> QED BY <1>1, <2>1, <2>4, <2>5, Sizes DEF t
<1> QED BY <1>2, <1>3

\* The block peek returns is pending and does not go beyond the buffer.
LEMMA BlockFits ==
  ASSUME NEW s \in Streams
  PROVE  /\ Slot(s.consumed) \in Slots
         /\ Block(s) \in 0 .. Capacity /\ Block(s) <= Pending(s)
         /\ Slot(s.consumed) + Block(s) <= Capacity
<1>1. s.consumed \in Int
  BY Sizes DEF Streams, Counters
<1>2. Slot(s.consumed) \in 0 .. Capacity - 1
  BY <1>1, NearCapacity DEF Slot
<1>3. Pending(s) \in Nat
  BY PendingTyped
<1> QED BY <1>2, <1>3, Sizes DEF Block, Slots

LEMMA ConsumeEffect ==
  ASSUME NEW s \in Streams, NEW n \in Nat, n <= Pending(s)
  PROVE  /\ Consume(s, n) \in Streams
         /\ Consume(s, n).produced = s.produced
         /\ Consume(s, n).old_position = s.old_position
         /\ Consume(s, n).overflow_count = s.overflow_count
         /\ Pending(Consume(s, n)) = Pending(s) - n
<1> DEFINE t == Consume(s, n)
           c == (s.consumed + n) % CountMod
           a == s.consumed + n
           d == s.produced - s.consumed
<1>1. /\ s.produced \in 0 .. CountMod - 1 /\ s.consumed \in 0 .. CountMod - 1
      /\ Pending(s) \in 0 .. CountMod - 1
  BY PendingTyped DEF Streams, Counters
<1>2. /\ a \in Nat /\ a < CountMod + CountMod /\ c = a % CountMod
  BY <1>1, Sizes
<1>3. /\ d \in Int /\ -CountMod <= d /\ d < CountMod
      /\ Pending(s) = d % CountMod
  BY <1>1, Sizes DEF Pending
<1>4. t = [s EXCEPT !.consumed = c]
  BY DEF Consume
<1> DEFINE e == s.produced - c
<1>5. a = s.consumed + n /\ d = s.produced - s.consumed /\ e = s.produced - c
  OBVIOUS
<1> HIDE DEF t, c, a, d, e
<1>6. /\ c \in 0 .. CountMod - 1
      /\ c = a \/ c = a - CountMod
  <2>1. /\ c \in 0 .. CountMod - 1
        /\ a < CountMod => c = a
        /\ CountMod <= a => c = a - CountMod
    <3>1. a \in Int /\ 0 <= a
      BY <1>2
    <3> QED BY <1>2, <3>1, NearCountMod
  <2> QED BY <1>2, <2>1, Sizes
<1>7. Pending(s) = d \/ Pending(s) = d + CountMod
  <2>1. CASE 0 <= d
    BY <1>3, <2>1, NearCountMod
  <2>2. CASE d < 0
    BY <1>3, <2>2, NearCountMod
  <2> QED BY <1>3, <2>1, <2>2
<1>8. /\ t \in Streams /\ t.consumed = c /\ t.produced = s.produced
      /\ t.old_position = s.old_position /\ t.overflow_count = s.overflow_count
  BY <1>4, <1>6 DEF Streams, Counters
<1>9. /\ e \in Int /\ -CountMod <= e /\ e < CountMod
      /\ Pending(t) = e % CountMod
  BY <1>1, <1>5, <1>6, <1>8, Sizes DEF Pending
<1>10. Pending(t) \in 0 .. CountMod - 1
  BY <1>8, PendingTyped
<1>11. Pending(t) = e \/ Pending(t) = e + CountMod
  BY <1>9, <1>10, Sizes, WrapsOnce
<1>12. e = d - n \/ e = (d - n) + CountMod
  BY <1>1, <1>2, <1>5, <1>6, Sizes
<1>13. Pending(t) = Pending(s) - n
  BY <1>1, <1>3, <1>7, <1>9, <1>10, <1>11, <1>12, Sizes
<1> QED BY <1>8, <1>13 DEF t

\* A reset loses what is pending and counts it.
LEMMA ResetEffect ==
  ASSUME NEW s \in Streams
  PROVE  /\ ResetForRestart(s) \in Streams
         /\ ResetForRestart(s).old_position = 0
         /\ ResetForRestart(s).overflow_count = s.overflow_count + Pending(s)
         /\ Pending(ResetForRestart(s)) = 0
         /\ Slot(ResetForRestart(s).produced) = 0
<1> DEFINE t == ResetForRestart(s)
           k == (s.produced + Capacity - 1) \div Capacity
           c == (k * Capacity) % CountMod
<1>1. /\ s.produced \in 0 .. CountMod - 1 /\ s.overflow_count \in Nat
      /\ Pending(s) \in 0 .. CountMod - 1
  BY PendingTyped DEF Streams, Counters
<1>2. k \in Int
  <2>1. s.produced + Capacity - 1 \in Int
    BY <1>1, Sizes
  <2> QED BY <2>1, Sizes, Remainder
<1>3. t = [s EXCEPT !.overflow_count = s.overflow_count + Pending(s),
                    !.produced = c, !.consumed = c, !.old_position = 0]
  BY DEF ResetForRestart
<1> HIDE DEF t, k
<1>4. k * Capacity \in Int
  BY <1>2, Sizes
<1>5. c \in 0 .. CountMod - 1
  BY <1>4, NearCountMod
<1>6. Slot(c) = 0
  <2>1. Slot(c) = (k * Capacity) % Capacity
    BY <1>4, SlotOfCounter DEF Slot
  <2>2. (Capacity * k + 0) % Capacity = 0
    BY <1>2, Sizes, RemainderIs
  <2>3. Capacity * k + 0 = k * Capacity
    BY <1>2, Sizes
  <2> QED BY <2>1, <2>2, <2>3
<1> HIDE DEF c
<1>7. /\ t \in Streams /\ t.produced = c /\ t.consumed = c /\ t.old_position = 0
      /\ t.overflow_count = s.overflow_count + Pending(s)
  <2>1. /\ c \in Counters /\ 0 \in Slots /\ s.overflow_count + Pending(s) \in Nat
    BY <1>1, <1>5, Sizes DEF Counters, Slots
  <2> QED BY <1>3, <2>1 DEF Streams
<1>8. Pending(t) = 0
  <2>1. c - c = 0 /\ 0 % CountMod = 0
    BY <1>5, Sizes, NearCountMod
  <2> QED BY <1>7, <2>1 DEF Pending
<1> QED BY <1>6, <1>7, <1>8 DEF t

-----------------------------------------------------------------------------
(***************************************************************************)
(* The positions of the DMA.  events is what it has raised and nobody has  *)
(* served, old the position published last, and position its own.          *)
(***************************************************************************)
Half == Capacity \div 2

Raised == {<<>>, <<"HT">>, <<"TC">>}

\* The bytes stored since the position published last.
Distance(events, old, position) ==
  IF events = <<"TC">> /\ old # 0 THEN (Capacity - old) + position
                                  ELSE position - old

\* An event not served yet lies between the position published last and the
\* DMA's, and no other does.
InPlace(events, old, position) ==
  /\ events = <<>> => /\ old <= position
                      /\ position >= Half => old = 0 \/ old >= Half
  /\ events = <<"HT">> => old <= Half /\ Half <= position
  /\ events = <<"TC">> => position < Half /\ (old = 0 \/ old >= Half)

\* In the second half of the buffer the half-transfer has been served.
Halved(events, old, position) ==
  events = <<>> /\ position >= Half => old >= Half

LEMMA Halves ==
  Half \in Nat /\ Half >= 1 /\ Capacity = Half + Half /\ Half < Capacity
<1>1. /\ Capacity \div 2 \in Int
      /\ Capacity = 2 * (Capacity \div 2) + (Capacity % 2)
  BY Sizes, Remainder
<1> HIDE DEF Half
<1>2. Half \in Int /\ Capacity = 2 * Half
  BY <1>1, StreamAssumption DEF Half
<1> QED BY <1>2, StreamAssumption

\* Less than a buffer is unpublished.
LEMMA DistanceBound ==
  ASSUME NEW e \in Raised, NEW q \in Slots, NEW p \in Slots, InPlace(e, q, p)
  PROVE  Distance(e, q, p) \in Nat /\ Distance(e, q, p) < Capacity
<1> Half \in Nat /\ Half >= 1 /\ Capacity = Half + Half
  BY Halves
<1>1. /\ q \in 0 .. Capacity - 1 /\ p \in 0 .. Capacity - 1
  BY DEF Slots
<1>2. CASE e = <<>>
  BY <1>1, <1>2 DEF InPlace, Distance
<1>3. CASE e = <<"HT">>
  BY <1>1, <1>3 DEF InPlace, Distance
<1>4. CASE e = <<"TC">>
  BY <1>1, <1>4 DEF InPlace, Distance
<1> QED BY <1>2, <1>3, <1>4 DEF Raised

\* A stored byte is one more to publish.  A restart that raced leaves the
\* accounting at 0 under a running DMA: the byte that ends the buffer may then
\* make it fewer.
LEMMA StoreEffect ==
  ASSUME NEW e \in Raised, NEW q \in Slots, NEW p \in Slots, InPlace(e, q, p),
         EventsOf(p) # <<>> => e = <<>>
  PROVE  /\ Slot(p + 1) \in Slots
         /\ e \o EventsOf(p) \in Raised
         /\ InPlace(e \o EventsOf(p), q, Slot(p + 1))
         /\ Distance(e \o EventsOf(p), q, Slot(p + 1)) <= Distance(e, q, p) + 1
         /\ Halved(e, q, p) =>
              /\ Distance(e \o EventsOf(p), q, Slot(p + 1)) = Distance(e, q, p) + 1
              /\ Halved(e \o EventsOf(p), q, Slot(p + 1))
<1>0. Half \in Nat /\ Half >= 1 /\ Capacity = Half + Half
  BY Halves
<1>1. q \in 0 .. Capacity - 1 /\ p \in 0 .. Capacity - 1
  BY DEF Slots
<1> DEFINE f == e \o EventsOf(p)
           n == Slot(p + 1)
<1>2. CASE p + 1 = Half
  <2>1. EventsOf(p) = <<"HT">> /\ e = <<>> /\ f = <<"HT">>
    BY <1>2 DEF EventsOf, Half
  <2>2. n = p + 1
    <3>1. p + 1 \in 0 .. Capacity /\ p + 1 # Capacity
      BY <1>0, <1>1, <1>2
    <3> QED BY <3>1, SlotOfPosition
  <2> HIDE DEF f, n
  <2> QED
    BY <1>0, <1>1, <1>2, <2>1, <2>2
    DEF InPlace, Distance, Halved, Raised, Slots, f, n
<1>3. CASE p + 1 = Capacity
  <2>1. EventsOf(p) = <<"TC">> /\ e = <<>> /\ f = <<"TC">>
    BY <1>0, <1>3 DEF EventsOf, Half
  <2>2. n = 0
    <3>1. p + 1 \in 0 .. Capacity
      BY <1>0, <1>1, <1>3
    <3> QED BY <1>3, <3>1, SlotOfPosition
  <2> HIDE DEF f, n
  <2> QED
    BY <1>0, <1>1, <1>3, <2>1, <2>2
    DEF InPlace, Distance, Halved, Raised, Slots, f, n
<1>4. CASE p + 1 # Half /\ p + 1 # Capacity
  <2>1. EventsOf(p) = <<>> /\ f = e
    BY <1>4 DEF EventsOf, Half, Raised
  <2>2. n = p + 1 /\ n \in Slots
    <3>1. p + 1 \in 0 .. Capacity /\ p + 1 \in 0 .. Capacity - 1
      BY <1>0, <1>1, <1>4
    <3> QED BY <1>4, <3>1, SlotOfPosition DEF Slots
  <2> HIDE DEF f, n
  <2>3. CASE e = <<>>
    BY <1>0, <1>1, <1>4, <2>1, <2>2, <2>3
    DEF InPlace, Distance, Halved, Raised, f, n
  <2>4. CASE e = <<"HT">>
    BY <1>0, <1>1, <1>4, <2>1, <2>2, <2>4
    DEF InPlace, Distance, Halved, Raised, f, n
  <2>5. CASE e = <<"TC">>
    BY <1>0, <1>1, <1>4, <2>1, <2>2, <2>5
    DEF InPlace, Distance, Halved, Raised, f, n
  <2> QED BY <2>3, <2>4, <2>5 DEF Raised
<1> QED BY <1>2, <1>3, <1>4

\* An event publishes the bytes up to its own position.
LEMMA ServeEffect ==
  ASSUME NEW s \in Streams, NEW e \in Raised, NEW p \in Slots, e # <<>>,
         InPlace(e, s.old_position, p)
  PROVE  /\ EventPosition(Head(e)) \in 0 .. Capacity
         /\ Tail(e) = <<>>
         /\ InPlace(<<>>, Slot(EventPosition(Head(e))), p)
         /\ Halved(<<>>, Slot(EventPosition(Head(e))), p)
         /\ Received(s, EventPosition(Head(e)))
              + Distance(<<>>, Slot(EventPosition(Head(e))), p)
              = Distance(e, s.old_position, p)
<1> DEFINE q == s.old_position
<1>0. Half \in Nat /\ Half >= 1 /\ Capacity = Half + Half
  BY Halves
<1>1. q \in 0 .. Capacity - 1 /\ p \in 0 .. Capacity - 1
  BY DEF Slots, Streams
<1>2. CASE e = <<"HT">>
  <2>1. EventPosition(Head(e)) = Half /\ Tail(e) = <<>>
    BY <1>2 DEF EventPosition, Half
  <2>2. Slot(Half) = Half
    BY <1>0, NearCapacity DEF Slot
  <2>3. q <= Half /\ Half <= p
    BY <1>2 DEF InPlace
  <2>4. Received(s, Half) = Half - q
    <3>1. Half - q \in Int /\ 0 <= Half - q /\ Half - q < Capacity
      BY <1>0, <1>1, <2>3
    <3> QED BY <2>2, <3>1, NearCapacity DEF Received
  <2> HIDE DEF q
  <2>5. Distance(e, q, p) = p - q
    BY <1>2 DEF Distance
  <2> QED
    BY <1>0, <1>1, <2>1, <2>2, <2>3, <2>4, <2>5 DEF InPlace, Distance, Halved, q
<1>3. CASE e = <<"TC">>
  <2>1. EventPosition(Head(e)) = Capacity /\ Tail(e) = <<>>
    BY <1>3 DEF EventPosition
  <2>2. Slot(Capacity) = 0
    BY <1>0, NearCapacity DEF Slot
  <2>3. p < Half /\ (q = 0 \/ q >= Half)
    BY <1>3 DEF InPlace
  <2>4. Received(s, Capacity) = (0 - q) % Capacity
    BY <2>2 DEF Received
  <2> DEFINE d == 0 - q
  <2>5. d \in Int /\ -Capacity <= d /\ d <= 0 /\ d = 0 - q
    BY <1>0, <1>1
  <2>6. Received(s, Capacity) = IF q = 0 THEN 0 ELSE Capacity - q
    <3> HIDE DEF d, q
    <3>1. /\ 0 <= d => d % Capacity = d
          /\ d < 0 => d % Capacity = d + Capacity
      BY <2>5, <1>0, NearCapacity
    <3>2. (0 - q) % Capacity = d % Capacity
      BY DEF d
    <3>3. /\ 0 <= d => q = 0 /\ d = 0
          /\ d < 0 => q # 0 /\ d + Capacity = Capacity - q
      BY <1>0, <1>1, <2>5
    <3>4. CASE 0 <= d
      BY <2>4, <3>1, <3>2, <3>3, <3>4
    <3>5. CASE d < 0
      BY <2>4, <3>1, <3>2, <3>3, <3>5
    <3> QED BY <2>5, <3>4, <3>5
  <2> HIDE DEF d, q
  <2>7. Distance(e, q, p) = IF q = 0 THEN p ELSE (Capacity - q) + p
    BY <1>1, <1>3 DEF Distance
  <2> QED
    BY <1>0, <1>1, <2>1, <2>2, <2>3, <2>6, <2>7 DEF InPlace, Distance, Halved, q
<1> QED BY <1>2, <1>3 DEF Raised

\* An idle line publishes everything.
LEMMA IdleEffect ==
  ASSUME NEW s \in Streams, NEW e \in Raised, NEW p \in Slots,
         InPlace(e, s.old_position, p),
         e # <<>> => Slot(EventPosition(Head(e))) = p,
         NEW position \in 0 .. Capacity,
         position = IF p = 0 THEN Capacity ELSE p
  PROVE  /\ Slot(position) = p
         /\ InPlace(e, p, p) /\ Halved(e, p, p) /\ Distance(e, p, p) = 0
         /\ Received(s, position) = Distance(e, s.old_position, p)
<1> DEFINE q == s.old_position
           d == p - q
<1>0. Half \in Nat /\ Half >= 1 /\ Capacity = Half + Half
  BY Halves
<1>1. q \in 0 .. Capacity - 1 /\ p \in 0 .. Capacity - 1
  BY DEF Slots, Streams
<1>2. Slot(position) = p
  BY <1>0, <1>1, SlotOfPosition
<1>3. Slot(Half) = Half /\ Slot(Capacity) = 0
  <2>1. Half \in 0 .. Capacity /\ Half # Capacity /\ Capacity \in 0 .. Capacity
    BY <1>0
  <2> QED BY <2>1, SlotOfPosition
<1>4. Received(s, position) = d % Capacity
  BY <1>2 DEF Received
<1>5. /\ d \in Int /\ -Capacity <= d /\ d < Capacity /\ d = p - q
  BY <1>0, <1>1
<1> HIDE DEF d
<1>6. /\ 0 <= d => Received(s, position) = d
      /\ d < 0 => Received(s, position) = d + Capacity
  BY <1>4, <1>5, NearCapacity
<1> HIDE DEF q
<1>7. CASE e = <<>>
  BY <1>0, <1>1, <1>2, <1>5, <1>6, <1>7 DEF InPlace, Distance, Halved, q
<1>8. CASE e = <<"HT">>
  <2>1. p = Half
    BY <1>3, <1>8 DEF EventPosition, Half
  <2> QED BY <1>0, <1>1, <1>2, <1>5, <1>6, <1>8, <2>1 DEF InPlace, Distance, Halved, q
<1>9. CASE e = <<"TC">>
  <2>1. p = 0
    BY <1>3, <1>9 DEF EventPosition
  <2> QED BY <1>0, <1>1, <1>2, <1>5, <1>6, <1>9, <2>1 DEF InPlace, Distance, Halved, q
<1> QED BY <1>7, <1>8, <1>9 DEF Raised

-----------------------------------------------------------------------------
\* A byte keeps the parser within its buffer.
LEMMA FeedEffect ==
  ASSUME NEW p \in [line : Seq(0 .. MaxBytes), discarding : BOOLEAN,
                    overflow_count : Nat],
         Len(p.line) <= LongestCommand, NEW byte \in 0 .. MaxBytes,
         NEW eol \in BOOLEAN
  PROVE  /\ Feed(p, byte, eol) \in [line : Seq(0 .. MaxBytes),
                                    discarding : BOOLEAN, overflow_count : Nat]
         /\ Len(Feed(p, byte, eol).line) <= LongestCommand
<1> DEFINE f == Feed(p, byte, eol)
<1>0. /\ LongestCommand \in Nat /\ Len(p.line) \in Nat /\ p.line \in Seq(0 .. MaxBytes)
      /\ <<>> \in Seq(0 .. MaxBytes) /\ Len(<<>>) = 0
  BY ParserAssumption
<1>1. CASE eol
  <2>1. f = [p EXCEPT !.line = <<>>, !.discarding = FALSE]
    BY <1>1 DEF Feed
  <2> HIDE DEF f
  <2>2. f \in [line : Seq(0 .. MaxBytes), discarding : BOOLEAN, overflow_count : Nat]
    BY <1>0, <2>1
  <2>3. f.line = <<>>
    BY <2>1
  <2> QED BY <1>0, <2>2, <2>3 DEF f
<1>2. CASE ~eol /\ p.discarding
  <2>1. f = p
    BY <1>2 DEF Feed
  <2> QED BY <2>1
<1>3. CASE ~eol /\ ~p.discarding /\ Len(p.line) >= LongestCommand
  <2>1. f = [p EXCEPT !.overflow_count = p.overflow_count + 1,
                      !.line = <<>>, !.discarding = TRUE]
    BY <1>0, <1>3 DEF Feed
  <2> HIDE DEF f
  <2>2. f \in [line : Seq(0 .. MaxBytes), discarding : BOOLEAN, overflow_count : Nat]
    <3>1. p.overflow_count + 1 \in Nat
      OBVIOUS
    <3> QED BY <1>0, <2>1, <3>1
  <2>3. f.line = <<>>
    BY <2>1
  <2> QED BY <1>0, <2>2, <2>3 DEF f
<1>4. CASE ~eol /\ ~p.discarding /\ Len(p.line) < LongestCommand
  <2>1. f = [p EXCEPT !.line = Append(p.line, byte)]
    BY <1>0, <1>4 DEF Feed
  <2>2. /\ Append(p.line, byte) \in Seq(0 .. MaxBytes)
        /\ Len(Append(p.line, byte)) = Len(p.line) + 1
    BY <1>0
  <2> HIDE DEF f
  <2>3. f \in [line : Seq(0 .. MaxBytes), discarding : BOOLEAN, overflow_count : Nat]
    BY <2>1, <2>2
  <2>4. f.line = Append(p.line, byte)
    BY <2>1
  <2> QED BY <1>0, <1>4, <2>2, <2>3, <2>4 DEF f
<1> QED BY <1>0, <1>1, <1>2, <1>3, <1>4

-----------------------------------------------------------------------------
(***************************************************************************)
(* The inductive invariant.                                                *)
(***************************************************************************)
Unpublished == Distance(dma.events, stream.old_position, dma.position)

\* The equation of BytesAccounted.
EveryByteCounted ==
  tally.published = (tally.fed - main.done) + stream.overflow_count
                    + Pending(stream)

\* The block main parses is within the buffer and still pending.
BlockPending ==
  /\ main.done <= main.length
  /\ main.index + main.length <= Capacity
  /\ main.pc = "parsing" => main.length <= Pending(stream)
  /\ main.pc # "parsing" => main.index = 0 /\ main.length = 0 /\ main.done = 0

Alive == dma.busy /\ uart.busy /\ uart.toIdle /\ uart.eie
Dead  == ~dma.busy /\ ~uart.busy /\ ~uart.toIdle /\ ~uart.eie /\ ~uart.dmar

\* Reception and the restart of it.
RestartInOrder ==
  /\ main.pc # "halted"
  /\ main.pc \in {"loop", "parsing"} =>
       IF recovery THEN Dead ELSE Alive /\ uart.dmar /\ uart.idleie
  /\ main.pc = "restart" => Dead /\ ~recovery /\ stream.old_position = 0
  /\ main.pc = "armed" => /\ Alive /\ ~uart.dmar /\ ~recovery
                          /\ dma.position = 0 /\ dma.events = <<>>
  /\ main.pc = "check" => IF recovery THEN Dead ELSE Alive /\ uart.dmar

\* After a raced start the DMA stream stays busy for good and every start is
\* refused.
RefusedForGood ==
  /\ dma.busy /\ ~uart.eie
  /\ main.pc \notin {"parsing", "halted"}
  /\ main.pc # "restart" => recovery
  /\ ~uart.toIdle => stream.old_position = 0

\* The positions of the DMA and the counters of the stream.
PositionsInPlace ==
  /\ Slot(stream.produced) = stream.old_position
  /\ dma.busy => InPlace(dma.events, stream.old_position, dma.position)
  /\ ~dma.busy => dma.position = 0 /\ dma.events = <<>>

\* What the history counted is what the positions say; after a raced start the
\* accounting, reset under a running DMA, is less than a buffer ahead.
PositionsCount ==
  /\ ~tally.raced /\ dma.busy =>
       /\ tally.stored - tally.published = Unpublished
       /\ Halved(dma.events, stream.old_position, dma.position)
  /\ ~tally.raced /\ ~dma.busy => tally.stored = tally.published
  /\ tally.raced => tally.published + Unpublished < tally.stored + Capacity

RxInv ==
  /\ RxTypeOK
  /\ EveryByteCounted
  /\ BlockPending
  /\ IF tally.raced THEN RefusedForGood ELSE RestartInOrder
  /\ PositionsInPlace
  /\ PositionsCount
  /\ Lag <= MaxLag

-----------------------------------------------------------------------------
\* The types of what is counted, and the bound on what an event may publish.
Sorted ==
  /\ stream \in Streams /\ stream.old_position \in Slots
  /\ stream.overflow_count \in Nat
  /\ dma.busy \in BOOLEAN /\ dma.position \in Slots /\ dma.events \in Raised
  /\ tally.stored \in Nat /\ tally.published \in Nat /\ tally.fed \in Nat
  /\ tally.raced \in BOOLEAN
  /\ main.index \in Nat /\ main.length \in Nat /\ main.done \in Nat
  /\ main.length <= Capacity
  /\ Pending(stream) \in Nat /\ Pending(stream) < CountMod
  /\ Unpublished \in Int
  /\ dma.busy => Unpublished \in Nat /\ Unpublished < Capacity

LEMMA RxSorted ==
  ASSUME RxInv PROVE Sorted
<1>1. /\ stream \in Streams /\ dma.position \in Slots /\ dma.events \in Raised
      /\ dma.busy \in BOOLEAN
      /\ tally.stored \in Nat /\ tally.published \in Nat /\ tally.fed \in Nat
      /\ tally.raced \in BOOLEAN
  BY DEF RxInv, RxTypeOK, Raised
<1>2. /\ main.index \in Nat /\ main.length \in Nat /\ main.done \in Nat
      /\ main.length <= Capacity
  BY Sizes DEF RxInv, RxTypeOK, Slots
<1>3. stream.old_position \in Slots /\ stream.overflow_count \in Nat
  BY <1>1 DEF Streams
<1>4. Unpublished \in Int
  BY <1>1, <1>3, Sizes DEF Unpublished, Distance, Slots
<1>5. ASSUME dma.busy PROVE Unpublished \in Nat /\ Unpublished < Capacity
  BY <1>1, <1>3, <1>5, DistanceBound DEF Unpublished, RxInv, PositionsInPlace
<1>6. Pending(stream) \in Nat /\ Pending(stream) < CountMod
  BY <1>1, PendingTyped, Sizes
<1> QED BY <1>1, <1>2, <1>3, <1>4, <1>5, <1>6 DEF Sorted

LEMMA Bounds ==
  /\ MaxBytes \in Nat /\ MaxErrors \in Nat /\ MaxLag \in Nat
  /\ MaxLag + Capacity < CountMod
  BY RxPathAssumption

LEMMA RxInit ==
  ASSUME Init PROVE RxInv
<1>1. /\ stream = StreamStart /\ stream \in Streams /\ Pending(stream) = 0
      /\ Slot(stream.produced) = 0
  <2>1. 0 \in Counters /\ 0 \in Slots /\ 0 % CountMod = 0 /\ Slot(0) = 0
    BY Sizes, NearCountMod, SlotOfPosition DEF Counters, Slots
  <2>2. stream = StreamStart
    BY DEF Init
  <2> QED BY <2>1, <2>2 DEF StreamStart, Streams, Pending
<1>2. RxTypeOK
  <2>1. buffer \in [Slots -> 0 .. MaxBytes]
    BY Bounds DEF Init
  <2>2. /\ uart \in [busy : BOOLEAN, toIdle : BOOLEAN, eie : BOOLEAN,
                     dmar : BOOLEAN, idleie : BOOLEAN]
        /\ recovery \in BOOLEAN
    BY DEF Init
  <2>3. dma \in [busy : BOOLEAN, position : Slots,
                 events : {<<>>, <<"HT">>, <<"TC">>}, active : BOOLEAN]
    <3>1. 0 \in Slots
      BY Sizes DEF Slots
    <3>2. dma = [busy |-> TRUE, position |-> 0, events |-> <<>>, active |-> FALSE]
      BY DEF Init, Started, Stopped
    <3> QED BY <3>1, <3>2
  <2>4. /\ parser \in [line : Seq(0 .. MaxBytes), discarding : BOOLEAN,
                       overflow_count : Nat]
        /\ Len(parser.line) <= LongestCommand
        /\ command \in Seq(0 .. MaxBytes)
    BY ParserAssumption DEF Init, ParserStart
  <2>5. main \in [pc : {"loop", "parsing", "restart", "armed", "check", "halted"},
                  index : Slots, length : 0 .. Capacity, done : 0 .. Capacity]
    BY Sizes DEF Init, Idle, Slots
  <2>6. tally \in [arrived : 0 .. MaxBytes, stored : Nat, published : Nat,
                   fed : Nat, errors : 0 .. MaxErrors,
                   starts : SUBSET (1 .. MaxBytes + 1), late : BOOLEAN,
                   raced : BOOLEAN]
    BY Bounds DEF Init
  <2> QED BY <1>1, <2>1, <2>2, <2>3, <2>4, <2>5, <2>6 DEF RxTypeOK
<1>3. /\ tally.published = 0 /\ tally.stored = 0 /\ tally.fed = 0 /\ ~tally.raced
      /\ main.done = 0 /\ main.index = 0 /\ main.length = 0 /\ main.pc = "loop"
      /\ stream.overflow_count = 0 /\ stream.old_position = 0
      /\ dma.busy /\ dma.position = 0 /\ dma.events = <<>>
      /\ uart.busy /\ uart.toIdle /\ uart.eie /\ uart.dmar /\ uart.idleie /\ ~recovery
  BY DEF Init, StreamStart, Idle, Started, Stopped
<1>4. EveryByteCounted
  BY <1>1, <1>3 DEF EveryByteCounted
<1>5. BlockPending
  BY <1>3, Sizes DEF BlockPending
<1>6. RestartInOrder
  BY <1>3 DEF RestartInOrder, Alive
<1>7. PositionsInPlace /\ PositionsCount
  <2>1. ~(0 >= Half) /\ 0 <= 0
    BY Halves
  <2>2. InPlace(<<>>, 0, 0) /\ Halved(<<>>, 0, 0) /\ Distance(<<>>, 0, 0) = 0
    BY <2>1 DEF InPlace, Halved, Distance
  <2> QED BY <1>1, <1>3, <2>2 DEF PositionsInPlace, PositionsCount, Unpublished
<1>8. Lag <= MaxLag
  <2>1. Lag = 0
    BY <1>1, <1>3 DEF Lag
  <2> QED BY <2>1, Bounds
<1> QED BY <1>2, <1>3, <1>4, <1>5, <1>6, <1>7, <1>8 DEF RxInv

\* A byte is stored.
LEMMA DmaByteStep ==
  ASSUME RxInv, DmaByte PROVE RxInv'
<1>0. Sorted
  BY RxSorted
<1> DEFINE e == dma.events
           q == stream.old_position
           p == dma.position
           f == e \o EventsOf(p)
           n == Slot(p + 1)
           late == tally.late \/ Lag >= Capacity
<1>1. /\ dma.busy /\ uart.dmar /\ tally.arrived < MaxBytes /\ Lag < MaxLag
      /\ EventsOf(p) # <<>> => e = <<>>
      /\ buffer' = [buffer EXCEPT ![p] = tally.arrived + 1]
      /\ dma' = [dma EXCEPT !.position = n, !.events = f, !.active = TRUE]
      /\ tally' = [tally EXCEPT !.arrived = tally.arrived + 1,
                                !.stored = tally.stored + 1, !.late = late]
      /\ UNCHANGED <<stream, uart, recovery, parser, main, command>>
  BY DEF DmaByte, Running
<1>2. InPlace(e, q, p)
  BY <1>1 DEF RxInv, PositionsInPlace
<1>3. /\ n \in Slots /\ f \in Raised /\ InPlace(f, q, n)
      /\ Distance(f, q, n) <= Distance(e, q, p) + 1
      /\ Halved(e, q, p) => /\ Distance(f, q, n) = Distance(e, q, p) + 1
                            /\ Halved(f, q, n)
  BY <1>0, <1>1, <1>2, StoreEffect DEF Sorted
<1>4. late \in BOOLEAN
  BY DEF RxInv, RxTypeOK
<1> HIDE DEF f, n, late
<1>5. RxTypeOK'
  <2>1. tally.arrived + 1 \in 0 .. MaxBytes /\ tally.stored + 1 \in Nat
    <3>1. tally.arrived \in Nat /\ tally.stored \in Nat
      BY Bounds DEF RxInv, RxTypeOK
    <3> QED BY <1>1, <3>1, Bounds
  <2>2. /\ buffer' \in [Slots -> 0 .. MaxBytes]
        /\ dma' \in [busy : BOOLEAN, position : Slots,
                     events : {<<>>, <<"HT">>, <<"TC">>}, active : BOOLEAN]
        /\ tally' \in [arrived : 0 .. MaxBytes, stored : Nat, published : Nat,
                       fed : Nat, errors : 0 .. MaxErrors,
                       starts : SUBSET (1 .. MaxBytes + 1), late : BOOLEAN,
                       raced : BOOLEAN]
    BY <1>1, <1>3, <1>4, <2>1 DEF RxInv, RxTypeOK, Raised
  <2> QED BY <1>1, <2>2 DEF RxInv, RxTypeOK
<1>6. /\ tally'.published = tally.published /\ tally'.fed = tally.fed
      /\ tally'.stored = tally.stored + 1 /\ tally'.raced = tally.raced
      /\ dma'.busy = dma.busy /\ dma'.position = n /\ dma'.events = f
  BY <1>1 DEF RxInv, RxTypeOK
<1>7. EveryByteCounted' /\ BlockPending'
  BY <1>1, <1>6 DEF RxInv, EveryByteCounted, BlockPending
<1>8. (IF tally.raced THEN RefusedForGood ELSE RestartInOrder)'
  BY <1>1, <1>6 DEF RxInv, RefusedForGood, RestartInOrder, Alive, Dead
<1>9. PositionsInPlace'
  BY <1>1, <1>3, <1>6 DEF RxInv, PositionsInPlace
<1>10. PositionsCount'
  <2>1. Unpublished' = Distance(f, q, n) /\ Unpublished = Distance(e, q, p)
    BY <1>1, <1>6 DEF Unpublished
  <2>2. Distance(f, q, n) \in Nat
    BY <1>0, <1>3, DistanceBound DEF Sorted
  <2>3. ASSUME ~tally.raced
        PROVE  /\ (tally.stored + 1) - tally.published = Distance(f, q, n)
               /\ Halved(f, q, n)
    BY <1>0, <1>1, <1>3, <2>1, <2>3 DEF RxInv, PositionsCount, Sorted
  <2>4. ASSUME tally.raced
        PROVE  tally.published + Distance(f, q, n) < (tally.stored + 1) + Capacity
    <3> DEFINE u == Distance(f, q, n)
    <3>1. u \in Nat /\ u <= Unpublished + 1
      BY <1>3, <2>1, <2>2
    <3>2. tally.published + Unpublished < tally.stored + Capacity
      BY <2>4 DEF RxInv, PositionsCount
    <3> HIDE DEF u
    <3>3. tally.published + u < (tally.stored + 1) + Capacity
      BY <1>0, <3>1, <3>2, Sizes DEF Sorted
    <3> QED BY <3>3 DEF u
  <2> QED BY <1>1, <1>6, <2>1, <2>3, <2>4 DEF PositionsCount
<1>11. (Lag <= MaxLag)'
  <2>1. (tally.stored - tally.published) + Pending(stream) - main.done < MaxLag
    BY <1>1 DEF Lag
  <2>2. ((tally.stored + 1) - tally.published) + Pending(stream) - main.done <= MaxLag
    BY <1>0, <2>1, Bounds DEF Sorted
  <2>3. Lag' = ((tally.stored + 1) - tally.published) + Pending(stream) - main.done
    BY <1>1, <1>6 DEF Lag
  <2> QED BY <2>2, <2>3
<1> QED BY <1>5, <1>7, <1>8, <1>9, <1>10, <1>11 DEF RxInv

\* A byte is missed.
LEMMA MissedByteStep ==
  ASSUME RxInv, MissedByte PROVE RxInv'
<1>1. /\ tally.arrived < MaxBytes
      /\ tally' = [tally EXCEPT !.arrived = tally.arrived + 1]
      /\ UNCHANGED <<stream, buffer, uart, dma, recovery, parser, main, command>>
  BY DEF MissedByte
<1>2. RxTypeOK'
  <2>1. tally.arrived + 1 \in 0 .. MaxBytes
    <3>1. tally.arrived \in Nat
      BY Bounds DEF RxInv, RxTypeOK
    <3> QED BY <1>1, <3>1, Bounds
  <2>2. tally' \in [arrived : 0 .. MaxBytes, stored : Nat, published : Nat,
                    fed : Nat, errors : 0 .. MaxErrors,
                    starts : SUBSET (1 .. MaxBytes + 1), late : BOOLEAN,
                    raced : BOOLEAN]
    BY <1>1, <2>1 DEF RxInv, RxTypeOK
  <2>3. /\ stream' = stream /\ buffer' = buffer /\ uart' = uart /\ dma' = dma
        /\ recovery' = recovery /\ parser' = parser /\ main' = main
        /\ command' = command
    BY <1>1
  <2> QED BY <2>2, <2>3, SMTT(20) DEF RxInv, RxTypeOK
<1>3. /\ tally'.published = tally.published /\ tally'.fed = tally.fed
      /\ tally'.stored = tally.stored /\ tally'.raced = tally.raced
  BY <1>1 DEF RxInv, RxTypeOK
<1>4. EveryByteCounted' /\ BlockPending' /\ (Lag <= MaxLag)'
  BY <1>1, <1>3 DEF RxInv, EveryByteCounted, BlockPending, Lag
<1>5. (IF tally.raced THEN RefusedForGood ELSE RestartInOrder)'
  BY <1>1, <1>3 DEF RxInv, RefusedForGood, RestartInOrder, Alive, Dead
<1>6. PositionsInPlace' /\ PositionsCount'
  BY <1>1, <1>3 DEF RxInv, PositionsInPlace, PositionsCount, Unpublished
<1> QED BY <1>2, <1>4, <1>5, <1>6 DEF RxInv

\* What is not published yet still fits in the counters.
LEMMA RoomToPublish ==
  ASSUME RxInv, dma.busy, NEW r \in Nat, r <= Unpublished
  PROVE  Pending(stream) + r < CountMod
<1>0. Sorted
  BY RxSorted
<1>1. (tally.stored - tally.published) + Pending(stream) - main.done <= MaxLag
  BY DEF RxInv, Lag
<1>2. CASE ~tally.raced
  <2>1. tally.stored - tally.published = Unpublished
    BY <1>2 DEF RxInv, PositionsCount
  <2>2. main.done <= Capacity
    BY <1>0, Sizes DEF RxInv, BlockPending, Sorted
  <2> QED BY <1>0, <1>1, <2>1, <2>2, Bounds, Sizes DEF Sorted
<1>3. CASE tally.raced
  <2>1. tally.published + Unpublished < tally.stored + Capacity
    BY <1>3 DEF RxInv, PositionsCount
  <2>2. main.done = 0
    BY <1>3 DEF RxInv, BlockPending, RefusedForGood
  <2> QED BY <1>0, <1>1, <2>1, <2>2, Bounds, Sizes DEF Sorted
<1> QED BY <1>2, <1>3

\* An event that reports no more than was stored.
LEMMA EventPublishes ==
  ASSUME RxInv, dma.busy, NEW position \in 0 .. Capacity,
         Received(stream, position) <= Unpublished, RxEvent(position)
  PROVE  /\ stream' \in Streams
         /\ stream'.old_position = Slot(position)
         /\ Slot(stream'.produced) = stream'.old_position
         /\ stream'.overflow_count = stream.overflow_count
         /\ Received(stream, position) \in Nat
         /\ Pending(stream)' = Pending(stream) + Received(stream, position)
         /\ tally' \in [arrived : 0 .. MaxBytes, stored : Nat, published : Nat,
                        fed : Nat, errors : 0 .. MaxErrors,
                        starts : SUBSET (1 .. MaxBytes + 1), late : BOOLEAN,
                        raced : BOOLEAN]
         /\ tally'.published = tally.published + Received(stream, position)
         /\ tally'.fed = tally.fed /\ tally'.stored = tally.stored
         /\ tally'.raced = tally.raced
<1> DEFINE r == Received(stream, position)
<1>0. Sorted
  BY RxSorted
<1>1. /\ stream' = Publish(stream, position)
      /\ tally' = [tally EXCEPT !.published = tally.published + r]
  BY DEF RxEvent
<1>2. r \in Slots /\ r \in Nat
  BY <1>0, PublishEffect, Sizes DEF Slots, Sorted
<1>3. Pending(stream) + r < CountMod
  BY <1>2, RoomToPublish
<1>4. Slot(stream.produced) = stream.old_position
  BY DEF RxInv, PositionsInPlace
<1> HIDE DEF r
<1>5. /\ stream' \in Streams
      /\ stream'.old_position = Slot(position)
      /\ Slot(stream'.produced) = stream'.old_position
      /\ stream'.overflow_count = stream.overflow_count
      /\ Pending(stream') = Pending(stream) + r
  BY <1>0, <1>1, <1>3, <1>4, PublishEffect DEF r, Sorted
<1>6. Pending(stream)' = Pending(stream')
  BY DEF Pending
<1>7. tally.published + r \in Nat
  BY <1>0, <1>2 DEF Sorted
<1>8. /\ tally' \in [arrived : 0 .. MaxBytes, stored : Nat, published : Nat,
                     fed : Nat, errors : 0 .. MaxErrors,
                     starts : SUBSET (1 .. MaxBytes + 1), late : BOOLEAN,
                     raced : BOOLEAN]
      /\ tally'.published = tally.published + r
      /\ tally'.fed = tally.fed /\ tally'.stored = tally.stored
      /\ tally'.raced = tally.raced
  BY <1>1, <1>7 DEF RxInv, RxTypeOK
<1> QED BY <1>2, <1>5, <1>6, <1>8 DEF r

\* What an event takes from the unpublished it adds to the pending.
LEMMA EventCounts ==
  ASSUME RxInv, dma.busy, NEW r \in Nat, main' = main, Unpublished' \in Nat,
         stream'.overflow_count = stream.overflow_count,
         Pending(stream)' = Pending(stream) + r,
         tally'.published = tally.published + r, tally'.fed = tally.fed,
         tally'.stored = tally.stored, tally'.raced = tally.raced,
         dma'.busy = dma.busy, r + Unpublished' = Unpublished,
         Halved(dma.events, stream.old_position, dma.position)'
  PROVE  EveryByteCounted' /\ BlockPending' /\ PositionsCount' /\ (Lag <= MaxLag)'
<1>0. Sorted
  BY RxSorted
<1>1. EveryByteCounted'
  <2>1. tally.published = (tally.fed - main.done) + stream.overflow_count
                          + Pending(stream)
    BY DEF RxInv, EveryByteCounted
  <2>2. tally.published + r = (tally.fed - main.done) + stream.overflow_count
                              + (Pending(stream) + r)
    BY <1>0, <2>1 DEF Sorted
  <2> QED BY <2>2 DEF EveryByteCounted
<1>2. BlockPending'
  <2>1. main.pc = "parsing" => main.length <= Pending(stream) + r
    BY <1>0 DEF RxInv, BlockPending, Sorted
  <2> QED BY <2>1 DEF RxInv, BlockPending
<1>3. PositionsCount'
  <2> DEFINE u == Unpublished
             v == Unpublished'
             P == tally.published
             S == tally.stored
  <2>1. v \in Nat /\ r + v = u /\ u \in Int /\ P \in Nat /\ S \in Nat
    BY <1>0 DEF Sorted
  <2>2. /\ ~tally.raced => S - P = u
        /\ tally.raced => P + u < S + Capacity
    BY DEF RxInv, PositionsCount
  <2> HIDE DEF u, v, P, S
  <2>3. /\ ~tally.raced => S - (P + r) = v
        /\ tally.raced => (P + r) + v < S + Capacity
    BY <2>1, <2>2, Sizes
  <2> QED BY <2>3 DEF PositionsCount, v, P, S
<1>4. (Lag <= MaxLag)'
  <2>1. Lag' = (tally.stored - (tally.published + r)) + (Pending(stream) + r) - main.done
    BY DEF Lag
  <2>2. Lag' = Lag
    BY <1>0, <2>1 DEF Lag, Sorted
  <2> QED BY <2>2 DEF RxInv
<1> QED BY <1>1, <1>2, <1>3, <1>4

\* Where reception stands does not depend on what was published, except that
\* old_position stays 0 when a refused start left no reception to idle.
LEMMA StandingKept ==
  ASSUME RxInv, UNCHANGED <<uart, main, recovery>>, tally'.raced = tally.raced,
         dma.busy, dma'.busy, uart.toIdle \/ stream' = stream,
         dma.events # <<>> \/ uart.dmar,
         dma'.position = dma.position
  PROVE  (IF tally.raced THEN RefusedForGood ELSE RestartInOrder)'
<1>1. CASE tally.raced
  <2>1. RefusedForGood
    BY <1>1 DEF RxInv
  <2>2. RefusedForGood'
    BY <2>1 DEF RefusedForGood
  <2> QED BY <1>1, <2>2
<1>2. CASE ~tally.raced
  <2>1. RestartInOrder
    BY <1>2 DEF RxInv
  <2>2. main.pc \notin {"restart", "armed"}
    BY <2>1 DEF RestartInOrder, Dead
  <2>3. RestartInOrder'
    BY <2>1, <2>2 DEF RestartInOrder, Dead, Alive
  <2> QED BY <1>2, <2>3
<1> QED BY <1>1, <1>2

\* A half-transfer or transfer-complete interrupt is served.
LEMMA DmaEventStep ==
  ASSUME RxInv, DmaEvent PROVE RxInv'
<1>0. Sorted
  BY RxSorted
<1> DEFINE e == dma.events
           q == stream.old_position
           p == dma.position
           position == EventPosition(Head(e))
<1>1. /\ e # <<>>
      /\ IF uart.toIdle THEN RxEvent(position) ELSE UNCHANGED <<stream, tally>>
      /\ dma' = [dma EXCEPT !.events = Tail(e)]
      /\ UNCHANGED <<buffer, uart, recovery, parser, main, command>>
  BY DEF DmaEvent
<1>2. dma.busy /\ InPlace(e, q, p)
  BY <1>0, <1>1 DEF RxInv, PositionsInPlace, Sorted
<1>3. /\ position \in 0 .. Capacity /\ Tail(e) = <<>>
      /\ InPlace(<<>>, Slot(position), p) /\ Halved(<<>>, Slot(position), p)
      /\ Received(stream, position) + Distance(<<>>, Slot(position), p)
           = Distance(e, q, p)
  BY <1>0, <1>1, <1>2, ServeEffect DEF Sorted
<1>4. /\ dma' \in [busy : BOOLEAN, position : Slots,
                   events : {<<>>, <<"HT">>, <<"TC">>}, active : BOOLEAN]
      /\ dma'.busy = dma.busy /\ dma'.position = p /\ dma'.events = <<>>
  BY <1>1, <1>3 DEF RxInv, RxTypeOK
<1> HIDE DEF position
<1>5. CASE uart.toIdle
  <2> DEFINE r == Received(stream, position)
             v == Distance(<<>>, Slot(position), p)
  <2>1. r \in Nat
    BY <1>0, <1>3, PublishEffect, Sizes DEF Slots, Sorted
  <2>2. Slot(position) \in Slots
    BY <1>3, SlotOfPosition, Sizes DEF Slots
  <2>3. v \in Nat
    <3>1. <<>> \in Raised
      BY DEF Raised
    <3> QED BY <1>0, <1>3, <2>2, <3>1, DistanceBound DEF Sorted
  <2>4. Unpublished = Distance(e, q, p) /\ r + v = Unpublished
    BY <1>3 DEF Unpublished
  <2>5. r <= Unpublished
    <3> HIDE DEF r, v
    <3> QED BY <2>1, <2>3, <2>4
  <2>6. /\ stream' \in Streams
        /\ stream'.old_position = Slot(position)
        /\ Slot(stream'.produced) = stream'.old_position
        /\ stream'.overflow_count = stream.overflow_count
        /\ Pending(stream)' = Pending(stream) + r
        /\ tally' \in [arrived : 0 .. MaxBytes, stored : Nat, published : Nat,
                       fed : Nat, errors : 0 .. MaxErrors,
                       starts : SUBSET (1 .. MaxBytes + 1), late : BOOLEAN,
                       raced : BOOLEAN]
        /\ tally'.published = tally.published + r
        /\ tally'.fed = tally.fed /\ tally'.stored = tally.stored
        /\ tally'.raced = tally.raced
    BY <1>1, <1>2, <1>3, <1>5, <2>5, EventPublishes
  <2> HIDE DEF r
  <2>7. Unpublished' = v
    BY <1>4, <2>6 DEF Unpublished
  <2>8. Halved(dma.events, stream.old_position, dma.position)'
    BY <1>3, <1>4, <2>6 DEF Halved
  <2> HIDE DEF v
  <2>9. EveryByteCounted' /\ BlockPending' /\ PositionsCount' /\ (Lag <= MaxLag)'
    BY <1>1, <1>2, <1>4, <2>1, <2>3, <2>4, <2>6, <2>7, <2>8, EventCounts
  <2>10. PositionsInPlace'
    BY <1>2, <1>3, <1>4, <2>6 DEF PositionsInPlace
  <2>11. (IF tally.raced THEN RefusedForGood ELSE RestartInOrder)'
    BY <1>1, <1>2, <1>4, <1>5, <2>6, StandingKept
  <2>12. RxTypeOK'
    BY <1>1, <1>4, <2>6 DEF RxInv, RxTypeOK
  <2> QED BY <2>9, <2>10, <2>11, <2>12 DEF RxInv
<1>6. CASE ~uart.toIdle
  <2>1. stream' = stream /\ tally' = tally
    BY <1>1, <1>6
  <2>2. tally.raced
    <3>1. ASSUME ~tally.raced PROVE FALSE
      <4>1. main.pc \in {"loop", "parsing", "restart", "armed", "check", "halted"}
        BY DEF RxInv, RxTypeOK
      <4>2. RestartInOrder
        BY <3>1 DEF RxInv
      <4> QED BY <1>1, <1>2, <1>6, <4>1, <4>2 DEF RestartInOrder, Alive, Dead
    <3> QED BY <3>1
  <2>3. q = 0
    BY <1>6, <2>2 DEF RxInv, RefusedForGood
  <2>4. Distance(e, q, p) = Distance(<<>>, q, p) /\ InPlace(<<>>, q, p)
    BY <1>0, <2>3, Sizes DEF Distance, InPlace, Sorted, Slots
  <2>5. EveryByteCounted' /\ BlockPending' /\ (Lag <= MaxLag)'
    BY <1>1, <2>1 DEF RxInv, EveryByteCounted, BlockPending, Lag
  <2>6. PositionsCount'
    <3>1. Unpublished' = Unpublished
      BY <1>4, <2>1, <2>4 DEF Unpublished
    <3> QED BY <2>1, <2>2, <3>1 DEF RxInv, PositionsCount
  <2>7. PositionsInPlace'
    BY <1>2, <1>4, <2>1, <2>4 DEF RxInv, PositionsInPlace
  <2>8. (IF tally.raced THEN RefusedForGood ELSE RestartInOrder)'
    BY <1>1, <1>2, <1>4, <2>1, StandingKept
  <2>9. RxTypeOK'
    BY <1>1, <1>4, <2>1 DEF RxInv, RxTypeOK
  <2> QED BY <2>5, <2>6, <2>7, <2>8, <2>9 DEF RxInv
<1> QED BY <1>5, <1>6

\* The IDLE interrupt is served.
LEMMA IdleEventStep ==
  ASSUME RxInv, IdleEvent PROVE RxInv'
<1>0. Sorted
  BY RxSorted
<1> DEFINE e == dma.events
           q == stream.old_position
           p == dma.position
           position == IF p = 0 THEN Capacity ELSE p
           r == Received(stream, position)
<1>1. /\ uart.toIdle /\ dma.busy /\ uart.dmar
      /\ e # <<>> => Slot(EventPosition(Head(e))) = p
      /\ dma' = [dma EXCEPT !.active = FALSE]
      /\ RxEvent(position)
      /\ UNCHANGED <<buffer, uart, recovery, parser, main, command>>
  BY DEF IdleEvent, Running
<1>2. InPlace(e, q, p)
  BY <1>1 DEF RxInv, PositionsInPlace
<1>3. position \in 0 .. Capacity
  BY <1>0, Sizes DEF Sorted, Slots
<1>4. /\ Slot(position) = p /\ InPlace(e, p, p) /\ Halved(e, p, p)
      /\ Distance(e, p, p) = 0 /\ r = Distance(e, q, p)
  <2>1. stream \in Streams /\ e \in Raised /\ p \in Slots
    BY <1>0 DEF Sorted
  <2>2. position = IF p = 0 THEN Capacity ELSE p
    OBVIOUS
  <2>3. e # <<>> => Slot(EventPosition(Head(e))) = p
    BY <1>1
  <2> HIDE DEF e, p, position
  <2> QED BY <1>2, <1>3, <2>1, <2>2, <2>3, IdleEffect
<1>5. /\ dma' \in [busy : BOOLEAN, position : Slots,
                   events : {<<>>, <<"HT">>, <<"TC">>}, active : BOOLEAN]
      /\ dma'.busy = dma.busy /\ dma'.position = p /\ dma'.events = e
  BY <1>1 DEF RxInv, RxTypeOK
<1> HIDE DEF position
<1>6. r = Unpublished /\ r \in Nat /\ r <= Unpublished
  BY <1>0, <1>1, <1>4 DEF Unpublished, Sorted
<1>7. /\ stream' \in Streams
      /\ stream'.old_position = Slot(position)
      /\ Slot(stream'.produced) = stream'.old_position
      /\ stream'.overflow_count = stream.overflow_count
      /\ Pending(stream)' = Pending(stream) + r
      /\ tally' \in [arrived : 0 .. MaxBytes, stored : Nat, published : Nat,
                     fed : Nat, errors : 0 .. MaxErrors,
                     starts : SUBSET (1 .. MaxBytes + 1), late : BOOLEAN,
                     raced : BOOLEAN]
      /\ tally'.published = tally.published + r
      /\ tally'.fed = tally.fed /\ tally'.stored = tally.stored
      /\ tally'.raced = tally.raced
  BY <1>1, <1>3, <1>6, EventPublishes
<1> HIDE DEF r
<1>8. Unpublished' = 0
  BY <1>4, <1>5, <1>7 DEF Unpublished
<1>9. Halved(dma.events, stream.old_position, dma.position)'
  BY <1>4, <1>5, <1>7 DEF Halved
<1>10. EveryByteCounted' /\ BlockPending' /\ PositionsCount' /\ (Lag <= MaxLag)'
  <2>1. Unpublished' \in Nat /\ r + Unpublished' = Unpublished
    BY <1>6, <1>8
  <2> QED BY <1>1, <1>5, <1>6, <1>7, <1>9, <2>1, EventCounts
<1>11. PositionsInPlace'
  BY <1>1, <1>4, <1>5, <1>7 DEF PositionsInPlace
<1>12. (IF tally.raced THEN RefusedForGood ELSE RestartInOrder)'
  BY <1>1, <1>5, <1>7, StandingKept
<1>13. RxTypeOK'
  BY <1>1, <1>5, <1>7 DEF RxInv, RxTypeOK
<1> QED BY <1>10, <1>11, <1>12, <1>13 DEF RxInv

-----------------------------------------------------------------------------
\* Main's program counter is one of its steps.
LEMMA MainSteps ==
  ASSUME RxInv
  PROVE  main.pc \in {"loop", "parsing", "restart", "armed", "check", "halted"}
  BY DEF RxInv, RxTypeOK

\* The HAL ends the reception.
LEMMA EndedTyped ==
  ASSUME RxInv
  PROVE  /\ Ended(uart) \in [busy : BOOLEAN, toIdle : BOOLEAN, eie : BOOLEAN,
                             dmar : BOOLEAN, idleie : BOOLEAN]
         /\ ~Ended(uart).busy /\ ~Ended(uart).eie /\ ~Ended(uart).toIdle
<1> DEFINE b == uart.idleie /\ ~uart.toIdle
<1>1. uart \in [busy : BOOLEAN, toIdle : BOOLEAN, eie : BOOLEAN,
                dmar : BOOLEAN, idleie : BOOLEAN]
  BY DEF RxInv, RxTypeOK
<1>2. b \in BOOLEAN
  OBVIOUS
<1>3. Ended(uart) = [uart EXCEPT !.busy = FALSE, !.eie = FALSE, !.toIdle = FALSE,
                                 !.idleie = b]
  BY DEF Ended
<1> HIDE DEF b
<1> QED BY <1>1, <1>2, <1>3

\* A UART error ends the reception.
LEMMA RxErrorStep ==
  ASSUME RxInv, RxError PROVE RxInv'
<1>0. Sorted
  BY RxSorted
<1> DEFINE u == Ended(uart)
<1>1. /\ dma.busy /\ uart.dmar /\ uart.eie /\ tally.errors < MaxErrors
      /\ uart' = [u EXCEPT !.dmar = FALSE]
      /\ dma' = Stopped
      /\ recovery' = TRUE
      /\ tally' = [tally EXCEPT !.errors = tally.errors + 1,
                                !.stored = tally.published]
      /\ UNCHANGED <<stream, buffer, parser, main, command>>
  BY DEF RxError, Running
<1>2. /\ u \in [busy : BOOLEAN, toIdle : BOOLEAN, eie : BOOLEAN,
                dmar : BOOLEAN, idleie : BOOLEAN]
      /\ ~u.busy /\ ~u.eie /\ ~u.toIdle
  BY EndedTyped
<1> HIDE DEF u
<1>3. ~tally.raced /\ RestartInOrder
  BY <1>1 DEF RxInv, RefusedForGood
<1>4. /\ uart' \in [busy : BOOLEAN, toIdle : BOOLEAN, eie : BOOLEAN,
                    dmar : BOOLEAN, idleie : BOOLEAN]
      /\ ~uart'.busy /\ ~uart'.eie /\ ~uart'.toIdle /\ ~uart'.dmar
  BY <1>1, <1>2
<1>5. /\ dma' \in [busy : BOOLEAN, position : Slots,
                   events : {<<>>, <<"HT">>, <<"TC">>}, active : BOOLEAN]
      /\ ~dma'.busy /\ dma'.position = 0 /\ dma'.events = <<>>
  <2>1. 0 \in Slots
    BY Sizes DEF Slots
  <2>2. dma' = [busy |-> FALSE, position |-> 0, events |-> <<>>, active |-> FALSE]
    BY <1>1 DEF Stopped
  <2> QED BY <2>1, <2>2
<1>6. /\ tally' \in [arrived : 0 .. MaxBytes, stored : Nat, published : Nat,
                     fed : Nat, errors : 0 .. MaxErrors,
                     starts : SUBSET (1 .. MaxBytes + 1), late : BOOLEAN,
                     raced : BOOLEAN]
      /\ tally'.published = tally.published /\ tally'.fed = tally.fed
      /\ tally'.stored = tally.published /\ tally'.raced = tally.raced
  <2>1. tally.errors + 1 \in 0 .. MaxErrors
    <3>1. tally.errors \in Nat
      BY Bounds DEF RxInv, RxTypeOK
    <3> QED BY <1>1, <3>1, Bounds
  <2> QED BY <1>0, <1>1, <2>1 DEF RxInv, RxTypeOK, Sorted
<1>7. RxTypeOK'
  BY <1>1, <1>4, <1>5, <1>6 DEF RxInv, RxTypeOK
<1>8. EveryByteCounted' /\ BlockPending'
  BY <1>1, <1>6 DEF RxInv, EveryByteCounted, BlockPending
<1>9. RestartInOrder'
  <2>1. main.pc \notin {"restart", "armed", "halted"}
    BY <1>1, <1>3 DEF RestartInOrder, Dead
  <2>2. Dead'
    BY <1>4, <1>5 DEF Dead
  <2> QED BY <1>1, <2>1, <2>2 DEF RestartInOrder
<1>10. PositionsInPlace' /\ PositionsCount'
  BY <1>1, <1>3, <1>5, <1>6 DEF RxInv, PositionsInPlace, PositionsCount
<1>11. (Lag <= MaxLag)'
  <2>1. tally.stored - tally.published = Unpublished /\ Unpublished \in Nat
    BY <1>0, <1>1, <1>3 DEF RxInv, PositionsCount, Sorted
  <2>2. (tally.stored - tally.published) + Pending(stream) - main.done <= MaxLag
    BY DEF RxInv, Lag
  <2>3. Lag' = (tally.published - tally.published) + Pending(stream) - main.done
    BY <1>1, <1>6 DEF Lag
  <2> QED BY <1>0, <2>1, <2>2, <2>3, Bounds DEF Sorted
<1> QED BY <1>3, <1>6, <1>7, <1>8, <1>9, <1>10, <1>11 DEF RxInv

\* An error ends the reception while it starts: from then on every start finds
\* the DMA stream busy.
LEMMA RacedStartStep ==
  ASSUME RxInv, RacedStart PROVE RxInv'
<1>0. Sorted
  BY RxSorted
<1> DEFINE u == Ended(uart)
<1>1. /\ uart.eie /\ ~uart.dmar
      /\ uart' = u
      /\ recovery' = TRUE
      /\ tally' = [tally EXCEPT !.raced = TRUE]
      /\ UNCHANGED <<stream, buffer, dma, parser, main, command>>
  BY DEF RacedStart
<1>2. /\ u \in [busy : BOOLEAN, toIdle : BOOLEAN, eie : BOOLEAN,
                dmar : BOOLEAN, idleie : BOOLEAN]
      /\ ~u.busy /\ ~u.eie /\ ~u.toIdle
  BY EndedTyped
<1> HIDE DEF u
<1>3. ~tally.raced /\ RestartInOrder
  BY <1>1 DEF RxInv, RefusedForGood
<1>4. main.pc = "armed" /\ dma.busy /\ dma.position = 0 /\ dma.events = <<>>
  BY <1>1, <1>3, MainSteps DEF RestartInOrder, Dead, Alive
<1>5. /\ tally' \in [arrived : 0 .. MaxBytes, stored : Nat, published : Nat,
                     fed : Nat, errors : 0 .. MaxErrors,
                     starts : SUBSET (1 .. MaxBytes + 1), late : BOOLEAN,
                     raced : BOOLEAN]
      /\ tally'.published = tally.published /\ tally'.fed = tally.fed
      /\ tally'.stored = tally.stored /\ tally'.raced
  BY <1>1 DEF RxInv, RxTypeOK
<1>6. stream.old_position = 0
  <2>1. stream.old_position <= 0
    BY <1>4 DEF RxInv, PositionsInPlace, InPlace
  <2> QED BY <1>0, <2>1, Sizes DEF Sorted, Slots
<1>7. RxTypeOK'
  BY <1>1, <1>2, <1>5 DEF RxInv, RxTypeOK
<1>8. EveryByteCounted' /\ BlockPending' /\ (Lag <= MaxLag)'
  BY <1>1, <1>5 DEF RxInv, EveryByteCounted, BlockPending, Lag
<1>9. RefusedForGood'
  BY <1>1, <1>2, <1>4, <1>6 DEF RefusedForGood
<1>10. PositionsInPlace'
  BY <1>1 DEF RxInv, PositionsInPlace
<1>11. PositionsCount'
  <2>1. tally.stored - tally.published = Unpublished
    BY <1>3, <1>4 DEF RxInv, PositionsCount
  <2>2. tally.published + Unpublished < tally.stored + Capacity
    BY <1>0, <2>1, Sizes DEF Sorted
  <2>3. Unpublished' = Unpublished
    BY <1>1 DEF Unpublished
  <2> QED BY <1>5, <2>2, <2>3 DEF PositionsCount
<1> QED BY <1>5, <1>7, <1>8, <1>9, <1>10, <1>11 DEF RxInv

-----------------------------------------------------------------------------
\* Main takes a request for recovery.
LEMMA TakeRecoveryStep ==
  ASSUME RxInv, TakeRecovery PROVE RxInv'
<1>0. Sorted
  BY RxSorted
<1>1. /\ main.pc = "loop" /\ recovery
      /\ stream' = ResetForRestart(stream)
      /\ parser' = [parser EXCEPT !.line = <<>>, !.discarding = FALSE]
      /\ recovery' = FALSE
      /\ main' = [main EXCEPT !.pc = "restart"]
      /\ tally' = [tally EXCEPT !.stored = tally.published]
      /\ UNCHANGED <<buffer, uart, dma, command>>
  BY DEF TakeRecovery, ParserReset
<1>2. /\ stream' \in Streams /\ stream'.old_position = 0
      /\ stream'.overflow_count = stream.overflow_count + Pending(stream)
      /\ Pending(stream)' = 0
      /\ Slot(stream'.produced) = 0
  <2>1. Pending(stream)' = Pending(stream')
    BY DEF Pending
  <2> QED BY <1>0, <1>1, <2>1, ResetEffect DEF Sorted
<1>3. /\ main' \in [pc : {"loop", "parsing", "restart", "armed", "check", "halted"},
                    index : Slots, length : 0 .. Capacity, done : 0 .. Capacity]
      /\ main'.pc = "restart" /\ main'.index = main.index
      /\ main'.length = main.length /\ main'.done = main.done
  BY <1>1 DEF RxInv, RxTypeOK
<1>4. main.done = 0 /\ main.index = 0 /\ main.length = 0
  BY <1>1 DEF RxInv, BlockPending
<1>5. /\ tally' \in [arrived : 0 .. MaxBytes, stored : Nat, published : Nat,
                     fed : Nat, errors : 0 .. MaxErrors,
                     starts : SUBSET (1 .. MaxBytes + 1), late : BOOLEAN,
                     raced : BOOLEAN]
      /\ tally'.published = tally.published /\ tally'.fed = tally.fed
      /\ tally'.stored = tally.published /\ tally'.raced = tally.raced
  BY <1>0, <1>1 DEF RxInv, RxTypeOK, Sorted
<1>6. RxTypeOK'
  <2>1. /\ parser' \in [line : Seq(0 .. MaxBytes), discarding : BOOLEAN,
                        overflow_count : Nat]
        /\ parser'.line = <<>>
    <3>1. <<>> \in Seq(0 .. MaxBytes)
      OBVIOUS
    <3> QED BY <1>1, <3>1 DEF RxInv, RxTypeOK
  <2>2. Len(parser'.line) <= LongestCommand
    BY <2>1, ParserAssumption
  <2> QED BY <1>1, <1>2, <1>3, <1>5, <2>1, <2>2 DEF RxInv, RxTypeOK
<1>7. EveryByteCounted'
  <2>1. tally.published = (tally.fed - 0) + stream.overflow_count + Pending(stream)
    BY <1>4 DEF RxInv, EveryByteCounted
  <2>2. tally.published = (tally.fed - 0)
                          + (stream.overflow_count + Pending(stream)) + 0
    BY <1>0, <2>1 DEF Sorted
  <2> QED BY <1>2, <1>3, <1>4, <1>5, <2>2 DEF EveryByteCounted
<1>8. BlockPending'
  BY <1>3, <1>4, Sizes DEF BlockPending
<1>9. (IF tally.raced THEN RefusedForGood ELSE RestartInOrder)'
  <2>1. CASE tally.raced
    BY <1>1, <1>2, <1>3, <1>5, <2>1 DEF RxInv, RefusedForGood
  <2>2. CASE ~tally.raced
    BY <1>1, <1>2, <1>3, <1>5, <2>2 DEF RxInv, RestartInOrder, Dead
  <2> QED BY <2>1, <2>2
<1>10. PositionsInPlace'
  <2>1. ASSUME dma.busy PROVE InPlace(dma.events, 0, dma.position)
    <3>1. dma.position \in Nat /\ Half \in Nat
      BY <1>0, Halves, Sizes DEF Sorted, Slots
    <3>2. InPlace(dma.events, stream.old_position, dma.position)
      BY <2>1 DEF RxInv, PositionsInPlace
    <3> QED BY <3>1, <3>2 DEF InPlace
  <2> QED BY <1>1, <1>2, <2>1 DEF RxInv, PositionsInPlace
<1>11. PositionsCount'
  <2>1. ~tally.raced => ~dma.busy
    BY <1>1 DEF RxInv, RestartInOrder, Dead
  <2>2. ASSUME tally.raced PROVE Unpublished' \in Nat /\ Unpublished' < Capacity
    <3>1. dma.busy
      BY <2>2 DEF RxInv, RefusedForGood
    <3>2. 0 \in Slots /\ InPlace(dma.events, 0, dma.position)
      BY <1>1, <1>2, <1>10, <3>1, Sizes DEF PositionsInPlace, Slots
    <3>3. Unpublished' = Distance(dma.events, 0, dma.position)
      BY <1>1, <1>2 DEF Unpublished
    <3> QED BY <1>0, <3>2, <3>3, DistanceBound DEF Sorted
  <2>3. ASSUME tally.raced
        PROVE  tally.published + Unpublished' < tally.published + Capacity
    <3> DEFINE v == Unpublished'
    <3>1. v \in Nat /\ v < Capacity /\ tally.published \in Nat
      BY <1>0, <2>2, <2>3 DEF Sorted
    <3> HIDE DEF v
    <3>2. tally.published + v < tally.published + Capacity
      BY <3>1, Sizes
    <3> QED BY <3>2 DEF v
  <2> QED BY <1>1, <1>5, <2>1, <2>3 DEF PositionsCount
<1>12. (Lag <= MaxLag)'
  <2>1. Lag' = (tally.published - tally.published) + 0 - 0
    BY <1>2, <1>3, <1>4, <1>5 DEF Lag
  <2> QED BY <1>0, <2>1, Bounds DEF Sorted
<1> QED BY <1>6, <1>7, <1>8, <1>9, <1>10, <1>11, <1>12 DEF RxInv

\* Main starts the reception.
LEMMA StartReceptionStep ==
  ASSUME RxInv, StartReception PROVE RxInv'
<1>1. /\ main.pc = "restart" /\ ~uart.busy /\ ~dma.busy
      /\ uart' = [uart EXCEPT !.busy = TRUE, !.toIdle = TRUE, !.eie = TRUE]
      /\ dma' = Started
      /\ main' = [main EXCEPT !.pc = "armed"]
      /\ UNCHANGED <<stream, buffer, recovery, parser, command, tally>>
  BY DEF StartReception
<1>2. ~tally.raced /\ RestartInOrder
  BY <1>1 DEF RxInv, RefusedForGood
<1>3. /\ uart' \in [busy : BOOLEAN, toIdle : BOOLEAN, eie : BOOLEAN,
                    dmar : BOOLEAN, idleie : BOOLEAN]
      /\ uart'.busy /\ uart'.toIdle /\ uart'.eie /\ uart'.dmar = uart.dmar
  BY <1>1 DEF RxInv, RxTypeOK
<1>4. /\ dma' \in [busy : BOOLEAN, position : Slots,
                   events : {<<>>, <<"HT">>, <<"TC">>}, active : BOOLEAN]
      /\ dma'.busy /\ dma'.position = 0 /\ dma'.events = <<>>
  <2>1. 0 \in Slots
    BY Sizes DEF Slots
  <2>2. dma' = [busy |-> TRUE, position |-> 0, events |-> <<>>, active |-> FALSE]
    BY <1>1 DEF Started, Stopped
  <2> QED BY <2>1, <2>2
<1>5. /\ main' \in [pc : {"loop", "parsing", "restart", "armed", "check", "halted"},
                    index : Slots, length : 0 .. Capacity, done : 0 .. Capacity]
      /\ main'.pc = "armed" /\ main'.index = main.index
      /\ main'.length = main.length /\ main'.done = main.done
  BY <1>1 DEF RxInv, RxTypeOK
<1>6. RxTypeOK'
  BY <1>1, <1>3, <1>4, <1>5 DEF RxInv, RxTypeOK
<1>7. EveryByteCounted' /\ BlockPending' /\ (Lag <= MaxLag)'
  BY <1>1, <1>5 DEF RxInv, EveryByteCounted, BlockPending, Lag
<1>8. RestartInOrder'
  BY <1>1, <1>2, <1>3, <1>4, <1>5 DEF RestartInOrder, Alive, Dead
<1>9. stream.old_position = 0
  BY <1>1, <1>2 DEF RestartInOrder
<1>10. InPlace(<<>>, 0, 0) /\ Halved(<<>>, 0, 0) /\ Distance(<<>>, 0, 0) = 0
  <2>1. ~(0 >= Half) /\ 0 <= 0
    BY Halves
  <2> QED BY <2>1 DEF InPlace, Halved, Distance
<1>11. PositionsInPlace'
  BY <1>1, <1>4, <1>9, <1>10 DEF RxInv, PositionsInPlace
<1>12. PositionsCount'
  <2>1. tally.stored = tally.published /\ tally.stored - tally.published = 0
    BY <1>1, <1>2, RxSorted DEF RxInv, PositionsCount, Sorted
  <2>2. Unpublished' = 0
    BY <1>1, <1>4, <1>9, <1>10 DEF Unpublished
  <2> QED BY <1>1, <1>2, <1>4, <1>9, <1>10, <2>1, <2>2 DEF PositionsCount
<1> QED BY <1>1, <1>2, <1>6, <1>7, <1>8, <1>11, <1>12 DEF RxInv

\* A start is refused.
LEMMA StartRefusedStep ==
  ASSUME RxInv, StartRefused PROVE RxInv'
<1>1. /\ main.pc = "restart" /\ (uart.busy \/ dma.busy)
      /\ uart' = IF uart.busy THEN uart
                 ELSE [uart EXCEPT !.toIdle = TRUE, !.idleie = TRUE]
      /\ recovery' = TRUE
      /\ main' = Idle
      /\ UNCHANGED <<stream, buffer, dma, parser, command, tally>>
  BY DEF StartRefused
<1>2. tally.raced /\ RefusedForGood
  BY <1>1 DEF RxInv, RestartInOrder, Dead
<1>3. /\ uart' \in [busy : BOOLEAN, toIdle : BOOLEAN, eie : BOOLEAN,
                    dmar : BOOLEAN, idleie : BOOLEAN]
      /\ uart'.eie = uart.eie /\ (uart'.toIdle \/ uart' = uart)
  BY <1>1 DEF RxInv, RxTypeOK
<1>4. /\ main' \in [pc : {"loop", "parsing", "restart", "armed", "check", "halted"},
                    index : Slots, length : 0 .. Capacity, done : 0 .. Capacity]
      /\ main'.pc = "loop" /\ main'.index = 0 /\ main'.length = 0 /\ main'.done = 0
  <2>1. 0 \in Slots /\ 0 \in 0 .. Capacity
    BY Sizes DEF Slots
  <2> QED BY <1>1, <2>1 DEF Idle
<1>5. main.done = 0
  BY <1>1 DEF RxInv, BlockPending
<1>6. RxTypeOK'
  BY <1>1, <1>3, <1>4 DEF RxInv, RxTypeOK
<1>7. EveryByteCounted' /\ BlockPending' /\ (Lag <= MaxLag)'
  BY <1>1, <1>4, <1>5, Sizes DEF RxInv, EveryByteCounted, BlockPending, Lag
<1>8. RefusedForGood'
  BY <1>1, <1>2, <1>3, <1>4 DEF RefusedForGood
<1>9. PositionsInPlace' /\ PositionsCount'
  BY <1>1 DEF RxInv, PositionsInPlace, PositionsCount, Unpublished
<1> QED BY <1>1, <1>2, <1>6, <1>7, <1>8, <1>9 DEF RxInv

\* The DMA request of the UART is enabled.
LEMMA EnableRequestsStep ==
  ASSUME RxInv, EnableRequests PROVE RxInv'
<1>1. /\ main.pc = "armed"
      /\ uart' = [uart EXCEPT !.dmar = TRUE]
      /\ main' = [main EXCEPT !.pc = "check"]
      /\ tally' = [tally EXCEPT !.starts = tally.starts \cup {tally.arrived + 1}]
      /\ UNCHANGED <<stream, buffer, dma, recovery, parser, command>>
  BY DEF EnableRequests
<1>2. /\ uart' \in [busy : BOOLEAN, toIdle : BOOLEAN, eie : BOOLEAN,
                    dmar : BOOLEAN, idleie : BOOLEAN]
      /\ uart'.busy = uart.busy /\ uart'.toIdle = uart.toIdle
      /\ uart'.eie = uart.eie /\ uart'.dmar
  BY <1>1 DEF RxInv, RxTypeOK
<1>3. /\ main' \in [pc : {"loop", "parsing", "restart", "armed", "check", "halted"},
                    index : Slots, length : 0 .. Capacity, done : 0 .. Capacity]
      /\ main'.pc = "check" /\ main'.index = main.index
      /\ main'.length = main.length /\ main'.done = main.done
  BY <1>1 DEF RxInv, RxTypeOK
<1> DEFINE tallies ==
      [arrived : 0 .. MaxBytes, stored : Nat, published : Nat, fed : Nat,
       errors : 0 .. MaxErrors, starts : SUBSET (1 .. MaxBytes + 1),
       late : BOOLEAN, raced : BOOLEAN]
<1>7. /\ tally' \in tallies
      /\ tally'.late = tally.late /\ tally'.raced = tally.raced
      /\ tally'.arrived = tally.arrived /\ tally'.fed = tally.fed
      /\ tally'.published = tally.published /\ tally'.stored = tally.stored
  <2>1. tally \in tallies
    BY DEF RxInv, RxTypeOK
  <2>2. tally.arrived + 1 \in 1 .. MaxBytes + 1
    <3>1. tally.arrived \in Nat /\ tally.arrived <= MaxBytes /\ MaxBytes \in Nat
      BY <2>1, Bounds
    <3> QED BY <3>1
  <2> DEFINE starts == tally.starts \cup {tally.arrived + 1}
  <2>3. starts \in SUBSET (1 .. MaxBytes + 1)
    BY <2>1, <2>2
  <2>4. tally' = [tally EXCEPT !.starts = starts]
    BY <1>1
  <2> HIDE DEF starts
  <2> QED BY <2>1, <2>3, <2>4
<1>4. RxTypeOK'
  <2>1. tally' \in tallies
    BY <1>7
  <2> QED BY <1>1, <1>2, <1>3, <2>1 DEF RxInv, RxTypeOK
<1> HIDE DEF tallies
<1>5. EveryByteCounted' /\ BlockPending' /\ (Lag <= MaxLag)'
  BY <1>1, <1>3, <1>7 DEF RxInv, EveryByteCounted, BlockPending, Lag
<1>6. (IF tally.raced THEN RefusedForGood ELSE RestartInOrder)'
  <2>1. CASE tally.raced
    BY <1>1, <1>2, <1>3, <1>7, <2>1 DEF RxInv, RefusedForGood
  <2>2. CASE ~tally.raced
    BY <1>1, <1>2, <1>3, <1>7, <2>2 DEF RxInv, RestartInOrder, Dead, Alive
  <2> QED BY <2>1, <2>2
<1>8. PositionsInPlace' /\ PositionsCount'
  BY <1>1, <1>7 DEF RxInv, PositionsInPlace, PositionsCount, Unpublished
<1> QED BY <1>4, <1>5, <1>6, <1>8 DEF RxInv

\* The reception has started, or an error has ended it already.
LEMMA ReceptionStartedStep ==
  ASSUME RxInv, ReceptionStarted PROVE RxInv'
<1> DEFINE b == uart.idleie \/ uart.toIdle
           c == recovery \/ ~uart.toIdle
<1>1. /\ main.pc = "check"
      /\ uart' = [uart EXCEPT !.idleie = b]
      /\ recovery' = c
      /\ main' = Idle
      /\ UNCHANGED <<stream, buffer, dma, parser, command, tally>>
  BY DEF ReceptionStarted
<1>2. /\ b \in BOOLEAN /\ c \in BOOLEAN /\ (uart.toIdle => b)
      /\ (recovery => c) /\ (~uart.toIdle => c)
      /\ (~recovery /\ uart.toIdle => ~c)
  BY DEF RxInv, RxTypeOK
<1> HIDE DEF b, c
<1>3. /\ uart' \in [busy : BOOLEAN, toIdle : BOOLEAN, eie : BOOLEAN,
                    dmar : BOOLEAN, idleie : BOOLEAN]
      /\ uart'.busy = uart.busy /\ uart'.toIdle = uart.toIdle
      /\ uart'.eie = uart.eie /\ uart'.dmar = uart.dmar /\ uart'.idleie = b
  BY <1>1, <1>2 DEF RxInv, RxTypeOK
<1>4. /\ main' \in [pc : {"loop", "parsing", "restart", "armed", "check", "halted"},
                    index : Slots, length : 0 .. Capacity, done : 0 .. Capacity]
      /\ main'.pc = "loop" /\ main'.index = 0 /\ main'.length = 0 /\ main'.done = 0
  <2>1. 0 \in Slots /\ 0 \in 0 .. Capacity
    BY Sizes DEF Slots
  <2> QED BY <1>1, <2>1 DEF Idle
<1>5. main.done = 0
  BY <1>1 DEF RxInv, BlockPending
<1>6. RxTypeOK'
  BY <1>1, <1>2, <1>3, <1>4 DEF RxInv, RxTypeOK
<1>7. EveryByteCounted' /\ BlockPending' /\ (Lag <= MaxLag)'
  BY <1>1, <1>4, <1>5, Sizes DEF RxInv, EveryByteCounted, BlockPending, Lag
<1>8. (IF tally.raced THEN RefusedForGood ELSE RestartInOrder)'
  <2>1. CASE tally.raced
    BY <1>1, <1>2, <1>3, <1>4, <2>1 DEF RxInv, RefusedForGood
  <2>2. CASE ~tally.raced
    BY <1>1, <1>2, <1>3, <1>4, <2>2 DEF RxInv, RestartInOrder, Dead, Alive
  <2> QED BY <2>1, <2>2
<1>9. PositionsInPlace' /\ PositionsCount'
  BY <1>1 DEF RxInv, PositionsInPlace, PositionsCount, Unpublished
<1> QED BY <1>6, <1>7, <1>8, <1>9 DEF RxInv

\* Main peeks a block, or what of it has not been overwritten.
LEMMA PeekStep ==
  ASSUME RxInv, Peek PROVE RxInv'
<1>0. Sorted
  BY RxSorted
<1> DEFINE lost == DataLost(stream)
           index == Slot(stream'.consumed)
           length == Block(stream')
<1>1. /\ main.pc = "loop" /\ ~recovery /\ Pending(stream) > 0
      /\ stream' = SkipOverwritten(stream)
      /\ parser' = IF lost THEN [parser EXCEPT !.line = <<>>, !.discarding = TRUE]
                           ELSE parser
      /\ main' = [pc |-> "parsing", index |-> index, length |-> length, done |-> 0]
      /\ UNCHANGED <<buffer, uart, dma, recovery, command, tally>>
  BY DEF Peek, DiscardUntilEol
<1>2. /\ stream' \in Streams /\ stream'.produced = stream.produced
      /\ stream'.old_position = stream.old_position
      /\ stream'.overflow_count + Pending(stream') = stream.overflow_count + Pending(stream)
      /\ Pending(stream') <= Pending(stream)
  BY <1>0, <1>1, SkipEffect DEF Sorted
<1>3. /\ index \in Slots /\ length \in 0 .. Capacity /\ length <= Pending(stream')
      /\ index + length <= Capacity
  BY <1>2, BlockFits
<1>4. Pending(stream)' = Pending(stream')
  BY DEF Pending
<1>5. Pending(stream') \in Nat /\ stream'.overflow_count \in Nat
  BY <1>2, PendingTyped, Sizes DEF Streams
<1> HIDE DEF index, length, lost
<1>6. /\ main' \in [pc : {"loop", "parsing", "restart", "armed", "check", "halted"},
                    index : Slots, length : 0 .. Capacity, done : 0 .. Capacity]
      /\ main'.pc = "parsing" /\ main'.index = index /\ main'.length = length
      /\ main'.done = 0
  <2>1. 0 \in 0 .. Capacity
    BY Sizes
  <2> QED BY <1>1, <1>3, <2>1
<1>7. RxTypeOK'
  <2>1. /\ parser' \in [line : Seq(0 .. MaxBytes), discarding : BOOLEAN,
                        overflow_count : Nat]
        /\ parser'.line = <<>> \/ parser' = parser
    <3>1. <<>> \in Seq(0 .. MaxBytes)
      OBVIOUS
    <3> QED BY <1>1, <3>1 DEF RxInv, RxTypeOK
  <2>2. Len(parser'.line) <= LongestCommand
    BY <2>1, ParserAssumption DEF RxInv, RxTypeOK
  <2>3. /\ buffer' = buffer /\ uart' = uart /\ dma' = dma /\ recovery' = recovery
        /\ command' = command /\ tally' = tally
    BY <1>1
  <2> QED BY <1>2, <1>6, <2>1, <2>2, <2>3, SMTT(20) DEF RxInv, RxTypeOK
<1>8. main.done = 0
  BY <1>1 DEF RxInv, BlockPending
<1>9. EveryByteCounted'
  <2>1. tally.published = (tally.fed - 0) + stream.overflow_count + Pending(stream)
    BY <1>8 DEF RxInv, EveryByteCounted
  <2>2. tally.published = (tally.fed - 0) + stream'.overflow_count + Pending(stream')
    BY <1>0, <1>2, <1>5, <2>1 DEF Sorted
  <2> QED BY <1>1, <1>4, <1>6, <2>2 DEF EveryByteCounted
<1>10. BlockPending'
  BY <1>3, <1>4, <1>6, Sizes DEF BlockPending
<1>11. ~tally.raced /\ RestartInOrder
  BY <1>1 DEF RxInv, RefusedForGood
<1>12. RestartInOrder'
  BY <1>1, <1>6, <1>11 DEF RestartInOrder, Alive
<1>13. PositionsInPlace' /\ PositionsCount'
  BY <1>1, <1>2 DEF RxInv, PositionsInPlace, PositionsCount, Unpublished
<1>14. (Lag <= MaxLag)'
  <2>1. (tally.stored - tally.published) + Pending(stream) - 0 <= MaxLag
    BY <1>8 DEF RxInv, Lag
  <2>2. (tally.stored - tally.published) + Pending(stream') - 0 <= MaxLag
    BY <1>0, <1>2, <1>5, <2>1, Bounds DEF Sorted
  <2>3. Lag' = (tally.stored - tally.published) + Pending(stream') - 0
    BY <1>1, <1>4, <1>6 DEF Lag
  <2> QED BY <2>2, <2>3
<1> QED BY <1>1, <1>7, <1>9, <1>10, <1>11, <1>12, <1>13, <1>14 DEF RxInv

\* Main parses a byte of its block.
LEMMA ParseByteStep ==
  ASSUME RxInv, ParseByte PROVE RxInv'
<1>0. Sorted
  BY RxSorted
<1> DEFINE byte == buffer[main.index + main.done]
           p == Feed(parser, byte, Eol(byte))
           n == main.done + 1
<1>1. /\ main.pc = "parsing" /\ main.done < main.length
      /\ parser' = p
      /\ command' = IF Completes(parser, Eol(byte)) THEN parser.line ELSE <<>>
      /\ \/ main' = [main EXCEPT !.done = n]
         \/ main' = [main EXCEPT !.done = n, !.length = n]
      /\ tally' = [tally EXCEPT !.fed = tally.fed + 1]
      /\ UNCHANGED <<stream, buffer, uart, dma, recovery>>
  BY DEF ParseByte
<1>2. main.index + main.length <= Capacity /\ main.length <= Pending(stream)
  BY <1>1 DEF RxInv, BlockPending
<1>3. byte \in 0 .. MaxBytes
  <2>1. main.index + main.done \in Slots
    <3>1. /\ main.index \in Nat /\ main.done \in Nat /\ main.length \in Nat
          /\ main.done < main.length /\ main.index + main.length <= Capacity
      BY <1>0, <1>1, <1>2 DEF Sorted
    <3>2. main.index + main.done \in 0 .. Capacity - 1
      BY <3>1, Sizes
    <3> QED BY <3>2 DEF Slots
  <2> QED BY <2>1 DEF RxInv, RxTypeOK
<1>4. /\ p \in [line : Seq(0 .. MaxBytes), discarding : BOOLEAN, overflow_count : Nat]
      /\ Len(p.line) <= LongestCommand
  <2>1. Eol(byte) \in BOOLEAN
    BY DEF Eol
  <2> HIDE DEF byte
  <2> QED BY <1>3, <2>1, FeedEffect DEF RxInv, RxTypeOK
<1>5. command' \in Seq(0 .. MaxBytes)
  <2>1. parser.line \in Seq(0 .. MaxBytes) /\ <<>> \in Seq(0 .. MaxBytes)
    BY DEF RxInv, RxTypeOK
  <2>2. command' = parser.line \/ command' = <<>>
    BY <1>1
  <2> QED BY <2>1, <2>2
<1> HIDE DEF byte, p
<1>6. n \in 0 .. Capacity /\ n <= main.length /\ n = main.done + 1
  <2>1. /\ main.done \in Nat /\ main.length \in Nat /\ main.length <= Capacity
        /\ main.done < main.length
    BY <1>0, <1>1 DEF Sorted
  <2> QED BY <2>1, Sizes
<1> HIDE DEF n
<1>7. /\ main' \in [pc : {"loop", "parsing", "restart", "armed", "check", "halted"},
                    index : Slots, length : 0 .. Capacity, done : 0 .. Capacity]
      /\ main'.pc = "parsing" /\ main'.index = main.index /\ main'.done = n
      /\ main'.length = n \/ main'.length = main.length
  <2>1. main \in [pc : {"loop", "parsing", "restart", "armed", "check", "halted"},
                  index : Slots, length : 0 .. Capacity, done : 0 .. Capacity]
    BY DEF RxInv, RxTypeOK
  <2>2. CASE main' = [main EXCEPT !.done = n]
    BY <1>1, <1>6, <2>1, <2>2
  <2>3. CASE main' = [main EXCEPT !.done = n, !.length = n]
    BY <1>1, <1>6, <2>1, <2>3
  <2> QED BY <1>1, <2>2, <2>3
<1>8. /\ tally' \in [arrived : 0 .. MaxBytes, stored : Nat, published : Nat,
                     fed : Nat, errors : 0 .. MaxErrors,
                     starts : SUBSET (1 .. MaxBytes + 1), late : BOOLEAN,
                     raced : BOOLEAN]
      /\ tally'.published = tally.published /\ tally'.fed = tally.fed + 1
      /\ tally'.stored = tally.stored /\ tally'.raced = tally.raced
  <2>1. tally.fed + 1 \in Nat
    BY <1>0 DEF Sorted
  <2>2. tally' = [tally EXCEPT !.fed = tally.fed + 1]
    BY <1>1
  <2>3. tally \in [arrived : 0 .. MaxBytes, stored : Nat, published : Nat,
                   fed : Nat, errors : 0 .. MaxErrors,
                   starts : SUBSET (1 .. MaxBytes + 1), late : BOOLEAN,
                   raced : BOOLEAN]
    BY DEF RxInv, RxTypeOK
  <2> QED BY <2>1, <2>2, <2>3
<1>9. RxTypeOK'
  <2>1. /\ stream' = stream /\ buffer' = buffer /\ uart' = uart /\ dma' = dma
        /\ recovery' = recovery
    BY <1>1
  <2>2. /\ parser' \in [line : Seq(0 .. MaxBytes), discarding : BOOLEAN,
                        overflow_count : Nat]
        /\ Len(parser'.line) <= LongestCommand
    BY <1>1, <1>4
  <2>3. /\ stream' \in Streams /\ buffer' \in [Slots -> 0 .. MaxBytes]
        /\ uart' \in [busy : BOOLEAN, toIdle : BOOLEAN, eie : BOOLEAN,
                      dmar : BOOLEAN, idleie : BOOLEAN]
        /\ dma' \in [busy : BOOLEAN, position : Slots,
                     events : {<<>>, <<"HT">>, <<"TC">>}, active : BOOLEAN]
        /\ recovery' \in BOOLEAN
    BY <2>1 DEF RxInv, RxTypeOK
  <2> QED BY <1>5, <1>7, <1>8, <2>2, <2>3 DEF RxTypeOK
<1>10. Pending(stream)' = Pending(stream)
  BY <1>1 DEF Pending
<1>11. EveryByteCounted'
  <2>1. tally.published = (tally.fed - main.done) + stream.overflow_count
                          + Pending(stream)
    BY DEF RxInv, EveryByteCounted
  <2>2. tally.published = ((tally.fed + 1) - n) + stream.overflow_count
                          + Pending(stream)
    <3>1. tally.fed \in Nat /\ main.done \in Nat /\ n = main.done + 1
      BY <1>0, <1>6 DEF Sorted
    <3>2. (tally.fed + 1) - n = tally.fed - main.done
      BY <3>1
    <3> QED BY <2>1, <3>2
  <2> QED BY <1>1, <1>7, <1>8, <1>10, <2>2 DEF EveryByteCounted
<1>12. BlockPending'
  <2>1. main.index + n <= Capacity /\ n <= Pending(stream) /\ n <= n
    BY <1>0, <1>2, <1>6, Sizes DEF Sorted
  <2> QED BY <1>2, <1>6, <1>7, <1>10, <2>1 DEF BlockPending
<1>13. ~tally.raced /\ RestartInOrder
  BY <1>1 DEF RxInv, RefusedForGood
<1>14. RestartInOrder'
  BY <1>1, <1>7, <1>13 DEF RestartInOrder, Alive, Dead
<1>15. PositionsInPlace' /\ PositionsCount'
  BY <1>1, <1>8 DEF RxInv, PositionsInPlace, PositionsCount, Unpublished
<1>16. (Lag <= MaxLag)'
  <2>1. (tally.stored - tally.published) + Pending(stream) - main.done <= MaxLag
    BY DEF RxInv, Lag
  <2>2. (tally.stored - tally.published) + Pending(stream) - n <= MaxLag
    BY <1>0, <1>6, <2>1, Bounds DEF Sorted
  <2>3. Lag' = (tally.stored - tally.published) + Pending(stream) - n
    BY <1>7, <1>8, <1>10 DEF Lag
  <2> QED BY <2>2, <2>3
<1> QED BY <1>8, <1>9, <1>11, <1>12, <1>13, <1>14, <1>15, <1>16 DEF RxInv

\* Main consumes the block it parsed, which is still pending.
LEMMA ConsumeBlockStep ==
  ASSUME RxInv, ConsumeBlock PROVE RxInv'
<1>0. Sorted
  BY RxSorted
<1>1. /\ main.pc = "parsing" /\ main.done <= Pending(stream)
  BY DEF ConsumeBlock, RxInv, BlockPending
<1>2. /\ stream' = Consume(stream, main.done)
      /\ main' = Idle
      /\ UNCHANGED <<buffer, uart, dma, recovery, parser, command, tally>>
  BY <1>1 DEF ConsumeBlock, CanConsume
<1>3. /\ stream' \in Streams /\ stream'.produced = stream.produced
      /\ stream'.old_position = stream.old_position
      /\ stream'.overflow_count = stream.overflow_count
      /\ Pending(stream') = Pending(stream) - main.done
  BY <1>0, <1>1, <1>2, ConsumeEffect DEF Sorted
<1>4. Pending(stream)' = Pending(stream) - main.done
  BY <1>3 DEF Pending
<1>5. /\ main' \in [pc : {"loop", "parsing", "restart", "armed", "check", "halted"},
                    index : Slots, length : 0 .. Capacity, done : 0 .. Capacity]
      /\ main'.pc = "loop" /\ main'.index = 0 /\ main'.length = 0 /\ main'.done = 0
  <2>1. 0 \in Slots /\ 0 \in 0 .. Capacity
    BY Sizes DEF Slots
  <2> QED BY <1>2, <2>1 DEF Idle
<1>6. RxTypeOK'
  BY <1>2, <1>3, <1>5 DEF RxInv, RxTypeOK
<1>7. EveryByteCounted'
  <2>1. tally.published = (tally.fed - main.done) + stream.overflow_count
                          + Pending(stream)
    BY DEF RxInv, EveryByteCounted
  <2>2. tally.published = (tally.fed - 0) + stream.overflow_count
                          + (Pending(stream) - main.done)
    BY <1>0, <2>1 DEF Sorted
  <2> QED BY <1>2, <1>3, <1>4, <1>5, <2>2 DEF EveryByteCounted
<1>8. BlockPending'
  BY <1>5, Sizes DEF BlockPending
<1>9. ~tally.raced /\ RestartInOrder
  BY <1>1 DEF RxInv, RefusedForGood
<1>10. RestartInOrder'
  BY <1>1, <1>2, <1>5, <1>9 DEF RestartInOrder, Alive, Dead
<1>11. PositionsInPlace' /\ PositionsCount'
  BY <1>2, <1>3 DEF RxInv, PositionsInPlace, PositionsCount, Unpublished
<1>12. (Lag <= MaxLag)'
  <2>1. (tally.stored - tally.published) + Pending(stream) - main.done <= MaxLag
    BY DEF RxInv, Lag
  <2>2. (tally.stored - tally.published) + (Pending(stream) - main.done) - 0 <= MaxLag
    BY <1>0, <2>1, Bounds DEF Sorted
  <2>3. Lag' = (tally.stored - tally.published) + (Pending(stream) - main.done) - 0
    BY <1>2, <1>4, <1>5 DEF Lag
  <2> QED BY <2>2, <2>3
<1> QED BY <1>2, <1>6, <1>7, <1>8, <1>9, <1>10, <1>11, <1>12 DEF RxInv

-----------------------------------------------------------------------------
(***************************************************************************)
(* The theorems.                                                           *)
(***************************************************************************)
LEMMA RxStutter ==
  ASSUME RxInv, UNCHANGED vars PROVE RxInv'
<1>1. UNCHANGED <<stream, buffer, uart, dma, recovery, parser, main, command, tally>>
  BY DEF vars
<1>2. RxTypeOK'
  BY <1>1 DEF RxInv, RxTypeOK
<1>3. EveryByteCounted' /\ BlockPending' /\ (Lag <= MaxLag)'
  BY <1>1 DEF RxInv, EveryByteCounted, BlockPending, Lag
<1>4. (IF tally.raced THEN RefusedForGood ELSE RestartInOrder)'
  BY <1>1 DEF RxInv, RefusedForGood, RestartInOrder, Alive, Dead
<1>5. PositionsInPlace' /\ PositionsCount'
  BY <1>1 DEF RxInv, PositionsInPlace, PositionsCount, Unpublished
<1> QED BY <1>1, <1>2, <1>3, <1>4, <1>5 DEF RxInv

LEMMA RxNext ==
  ASSUME RxInv, [Next]_vars PROVE RxInv'
<1>1. CASE Finished
  BY <1>1, RxStutter DEF Finished
<1>2. CASE UNCHANGED vars
  BY <1>2, RxStutter
<1> QED
  BY <1>1, <1>2, DmaByteStep, MissedByteStep, DmaEventStep, IdleEventStep,
     RxErrorStep, RacedStartStep, TakeRecoveryStep, StartReceptionStep,
     StartRefusedStep, EnableRequestsStep, ReceptionStartedStep, PeekStep,
     ParseByteStep, ConsumeBlockStep
  DEF Next

\* The receive path keeps its invariant whatever the buffer, the counters and
\* the line are.
THEOREM RxInvariant == Spec => []RxInv
<1> QED BY RxInit, RxNext, PTL DEF Spec

\* Every published byte is pending, was parsed once or is counted in RX_OVF:
\* publish_position, peek, consume and reset_for_restart lose track of none.
THEOREM EveryByteAccounted == Spec => []BytesAccounted
<1>1. RxInv => BytesAccounted
  BY DEF RxInv, EveryByteCounted, BytesAccounted
<1> QED BY <1>1, RxInvariant, PTL

\* main never reaches Error_Handler: consume never refuses what was peeked.
THEOREM MainNeverHalts == Spec => []NeverHalted
<1>1. RxInv => NeverHalted
  BY DEF RxInv, RefusedForGood, RestartInOrder, NeverHalted
<1> QED BY <1>1, RxInvariant, PTL

\* What HAL_UARTEx_RxEventCallback publishes is what the DMA stored, each byte
\* once, and the position it knows the distance by is never a buffer behind.
THEOREM EventsPublishWhatIsStored == Spec => []PublishedTracksDma
<1>1. ASSUME RxInv PROVE PublishedTracksDma
  <2>1. Sorted
    BY <1>1, RxSorted
  <2>2. SUFFICES ASSUME ~tally.raced
                 PROVE  /\ tally.published <= tally.stored
                        /\ Running => /\ tally.stored - tally.published < Capacity
                                      /\ Slot(stream.produced) = stream.old_position
    BY DEF PublishedTracksDma
  <2>3. CASE dma.busy
    <3>1. /\ tally.stored - tally.published = Unpublished
          /\ Unpublished \in Nat /\ Unpublished < Capacity
      BY <1>1, <2>1, <2>2, <2>3 DEF RxInv, PositionsCount, Sorted
    <3>2. tally.published <= tally.stored
      BY <2>1, <3>1 DEF Sorted
    <3> QED BY <1>1, <3>1, <3>2 DEF RxInv, PositionsInPlace
  <2>4. CASE ~dma.busy
    BY <1>1, <2>1, <2>2, <2>4 DEF RxInv, PositionsCount, Sorted, Running
  <2> QED BY <2>3, <2>4
<1> QED BY <1>1, RxInvariant, PTL

\* A console whose restart nobody has asked for hears: bytes are stored, every
\* event reports them and errors are seen.
THEOREM NeverDeafUnnoticed == Spec => []NeverDeaf
<1>1. RxInv => NeverDeaf
  BY DEF RxInv, RefusedForGood, RestartInOrder, Alive, Running, NeverDeaf
<1> QED BY <1>1, RxInvariant, PTL

-----------------------------------------------------------------------------
(***************************************************************************)
(* Whole lines: as long as main keeps up, the bytes it has not parsed are  *)
(* in the buffer in the order they arrived, and the line collected so far  *)
(* ends just before them.                                                  *)
(***************************************************************************)
\* The byte main parses next: where it is, by the counters, and how many bytes
\* from it on are in the buffer, by Lag.
NextCounter == stream.consumed + main.done

\* The line collected so far ends just before byte m, and starts after an end
\* of line or with the first byte of a reception started again; between the
\* reset of the parser and that start there is no such byte yet.
CollectedUpTo(m) ==
  /\ parser.discarding => parser.line = <<>>
  /\ \A i \in 1 .. Len(parser.line) :
       parser.line[i] = (m - Len(parser.line)) + (i - 1)
  /\ ~parser.discarding /\ main.pc \notin {"restart", "armed"} =>
       Begins(m - Len(parser.line))

\* What is not parsed is in the buffer, in the order it arrived.
BufferInOrder ==
  /\ Lag <= Capacity
  /\ \E m \in Int :
       /\ Running => m + Lag = tally.arrived + 1
       /\ \A j \in 0 .. Lag - 1 : buffer[Slot(NextCounter + j)] = m + j
       /\ CollectedUpTo(m)
  /\ main.pc \in {"restart", "armed"} => Lag = 0 /\ parser.line = <<>>
  /\ main.pc = "parsing" => main.index = Slot(stream.consumed)

LinesInv ==
  /\ OnlyWholeLines
  /\ ~tally.raced /\ ~tally.late => BufferInOrder

\* Counters less than a buffer apart have different slots.
LEMMA SlotsApart ==
  ASSUME NEW a \in Int, NEW b \in Int, a < b, b - a < Capacity
  PROVE  Slot(a) # Slot(b)
<1> DEFINE j == a \div Capacity
           k == b \div Capacity
           r == a % Capacity
           s == b % Capacity
<1>1. j \in Int /\ r \in Int /\ a = Capacity * j + r
  BY Sizes, Remainder
<1>2. k \in Int /\ s \in Int /\ b = Capacity * k + s
  BY Sizes, Remainder
<1>3. Slot(a) = r /\ Slot(b) = s
  BY DEF Slot
<1> HIDE DEF j, k, r, s
<1>4. ASSUME r = s PROVE FALSE
  <2>1. Capacity * (k - j) = b - a /\ k - j \in Int
    BY <1>1, <1>2, <1>4, Sizes
  <2>2. k - j >= 1 => Capacity * (k - j) >= Capacity
    BY <2>1, Sizes
  <2>3. k - j <= 0 => Capacity * (k - j) <= 0
    BY <2>1, Sizes
  <2> QED BY <2>1, <2>2, <2>3, Sizes
<1> QED BY <1>3, <1>4

\* A counter that wraps keeps the slots after it too.
LEMMA SlotAfterCounter ==
  ASSUME NEW a \in Int, NEW j \in Int
  PROVE  Slot((a % CountMod) + j) = Slot(a + j)
<1> DEFINE c == a % CountMod
           k == a \div CountMod
           f == CountMod \div Capacity
<1>1. c \in Int /\ k \in Int /\ a = CountMod * k + c
  BY Remainder, Sizes
<1>2. f \in Int /\ CountMod = Capacity * f
  BY CapacityDivides
<1> HIDE DEF c, k, f
<1>3. CountMod * k = Capacity * (f * k) /\ f * k \in Int
  BY <1>1, <1>2, Sizes
<1>4. a + j = (c + j) + Capacity * (f * k) /\ c + j \in Int
  BY <1>1, <1>3, Sizes
<1>5. ((c + j) + Capacity * (f * k)) % Capacity = (c + j) % Capacity
  BY <1>3, <1>4, Sizes, SameRemainder
<1> QED BY <1>4, <1>5 DEF Slot, c

\* The DMA stands just after the bytes not parsed.
LEMMA DmaStandsAfter ==
  ASSUME RxInv, ~tally.raced, dma.busy
  PROVE  NextCounter \in Int /\ Lag \in Int /\ Slot(NextCounter + Lag) = dma.position
<1>0. Sorted
  BY RxSorted
<1> DEFINE P == stream.produced
           d == stream.produced - stream.consumed
           q == stream.old_position
           p == dma.position
           U == tally.stored - tally.published
<1>1. /\ P \in 0 .. CountMod - 1 /\ stream.consumed \in 0 .. CountMod - 1
      /\ q \in 0 .. Capacity - 1 /\ p \in 0 .. Capacity - 1
  BY <1>0 DEF Sorted, Streams, Counters, Slots
<1>2. U = Unpublished /\ U \in Nat /\ InPlace(dma.events, q, p)
  BY <1>0 DEF Sorted, RxInv, PositionsCount, PositionsInPlace
<1>3. q + U = p \/ q + U = p + Capacity
  BY <1>1, <1>2, Sizes DEF Unpublished, Distance
<1>4. Pending(stream) = d \/ Pending(stream) = d + CountMod
  <2>1. d \in Int /\ -CountMod <= d /\ d < CountMod /\ Pending(stream) = d % CountMod
    BY <1>1, Sizes DEF Pending
  <2> HIDE DEF d
  <2>2. CASE 0 <= d
    BY <2>1, <2>2, NearCountMod
  <2>3. CASE d < 0
    BY <2>1, <2>3, NearCountMod
  <2> QED BY <2>1, <2>2, <2>3
<1>5. Lag = U + Pending(stream) - main.done
  BY DEF Lag
<1>6. /\ NextCounter \in Int /\ Lag \in Int
      /\ NextCounter + Lag = stream.consumed + (Pending(stream) + U)
  BY <1>0, <1>1, <1>2, <1>5 DEF NextCounter, Sorted
<1>7. NextCounter + Lag = P + U \/ NextCounter + Lag = (P + U) + CountMod
  BY <1>0, <1>1, <1>2, <1>4, <1>6, Sizes DEF Sorted
<1>8. Slot(NextCounter + Lag) = Slot(P + U)
  <2>1. CASE NextCounter + Lag = P + U
    BY <2>1
  <2>2. CASE NextCounter + Lag = (P + U) + CountMod
    <3> DEFINE f == CountMod \div Capacity
    <3>1. f \in Int /\ CountMod = Capacity * f
      BY CapacityDivides
    <3>2. P + U \in Int
      BY <1>1, <1>2
    <3> HIDE DEF f, P, U
    <3>3. ((P + U) + Capacity * f) % Capacity = (P + U) % Capacity
      BY <3>1, <3>2, Sizes, SameRemainder
    <3> QED BY <2>2, <3>1, <3>3 DEF Slot
  <2> QED BY <1>7, <2>1, <2>2
<1>9. Slot(P + U) = Slot(q + U)
  <2> DEFINE k == P \div Capacity
  <2>0. P \in Int
    BY <1>1
  <2>1. k \in Int /\ P = Capacity * k + (P % Capacity)
    BY <2>0, Sizes, Remainder
  <2>2. P % Capacity = q
    BY DEF RxInv, PositionsInPlace, Slot
  <2>3. q + U \in Int
    BY <1>1, <1>2
  <2> HIDE DEF k, P, U, q
  <2>4. P + U = (q + U) + Capacity * k
    BY <1>1, <1>2, <2>1, <2>2, Sizes
  <2>5. ((q + U) + Capacity * k) % Capacity = (q + U) % Capacity
    BY <2>1, <2>3, Sizes, SameRemainder
  <2> QED BY <2>4, <2>5 DEF Slot
<1>10. Slot(q + U) = p
  <2>1. q + U \in Int
    BY <1>1, <1>2
  <2> HIDE DEF q, U, p
  <2> QED BY <1>1, <1>3, <2>1, OneBufferOn DEF Slot
<1> QED BY <1>6, <1>8, <1>9, <1>10

LEMMA LinesInit ==
  ASSUME Init PROVE LinesInv
<1>1. command = <<>>
  BY DEF Init
<1>2. /\ parser.line = <<>> /\ ~parser.discarding
      /\ tally.arrived = 0 /\ main.pc = "loop" /\ ~recovery
      /\ Lag = Pending(stream)
  <2>1. /\ tally.stored = 0 /\ tally.published = 0 /\ main.done = 0
        /\ tally.arrived = 0
        /\ main.pc = "loop" /\ ~recovery
    BY DEF Init, Idle
  <2>2. parser.line = <<>> /\ ~parser.discarding
    BY DEF Init, ParserStart
  <2>3. Pending(stream) \in Nat
    BY RxInit, RxSorted DEF Sorted
  <2> QED BY <2>1, <2>2, <2>3 DEF Lag
<1>3. Pending(stream) = 0
  <2>1. 0 % CountMod = 0
    BY Sizes, NearCountMod
  <2> QED BY <2>1 DEF Init, StreamStart, Pending
<1>4. CollectedUpTo(1)
  <2>1. Eol(0)
    BY RxPathAssumption, NearRemainder DEF Eol
  <2>2. Len(parser.line) = 0
    BY <1>2
  <2>3. (1 - Len(parser.line)) - 1 = 0
    BY <2>2
  <2> QED BY <1>2, <2>1, <2>2, <2>3 DEF CollectedUpTo, Begins
<1>5. BufferInOrder
  <2>1. 1 + Lag = tally.arrived + 1 /\ Lag = 0 /\ Lag <= Capacity
    BY <1>2, <1>3, Sizes
  <2>2. \A j \in 0 .. Lag - 1 : buffer[Slot(NextCounter + j)] = 1 + j
    BY <2>1
  <2> QED BY <1>2, <1>4, <2>1, <2>2 DEF BufferInOrder
<1> QED BY <1>1, <1>5 DEF LinesInv, OnlyWholeLines

\* No step but the parser's changes what the last command was.
LEMMA CommandKept ==
  ASSUME OnlyWholeLines, command' = command, tally.late => tally'.late,
         tally.starts \subseteq tally'.starts
  PROVE  OnlyWholeLines'
  BY DEF OnlyWholeLines, FragmentsNeverCombined, Begins

\* A step that stores and parses nothing leaves the buffer in order.
LEMMA OrderKept ==
  ASSUME BufferInOrder, Lag \in Int, Lag' \in Int, Lag' <= Lag,
         \A j \in Int : Slot(NextCounter + j)' = Slot(NextCounter + j),
         buffer' = buffer, parser' = parser,
         tally'.starts = tally.starts,
         Running' => Running /\ Lag' = Lag /\ tally'.arrived = tally.arrived,
         main'.pc \notin {"restart", "armed"} => main.pc \notin {"restart", "armed"},
         main'.pc \in {"restart", "armed"} => Lag' = 0 /\ parser.line = <<>>,
         main'.pc = "parsing" => main'.index = Slot(stream'.consumed)
  PROVE  BufferInOrder'
<1>1. PICK m \in Int :
        /\ Running => m + Lag = tally.arrived + 1
        /\ \A j \in 0 .. Lag - 1 : buffer[Slot(NextCounter + j)] = m + j
        /\ CollectedUpTo(m)
  BY DEF BufferInOrder
<1>2. Lag' <= Capacity
  BY Sizes DEF BufferInOrder
<1>3. Running' => m + Lag' = tally'.arrived + 1
  BY <1>1
<1>4. \A j \in 0 .. Lag' - 1 : buffer'[Slot(NextCounter + j)'] = m + j
  <2> TAKE j \in 0 .. Lag' - 1
  <2>1. j \in 0 .. Lag - 1 /\ j \in Int
    <3> DEFINE l == Lag
               n == Lag'
    <3>1. l \in Int /\ n \in Int /\ n <= l /\ j \in 0 .. n - 1
      OBVIOUS
    <3> HIDE DEF l, n
    <3>2. j \in 0 .. l - 1 /\ j \in Int
      BY <3>1
    <3> QED BY <3>2 DEF l
  <2>2. buffer[Slot(NextCounter + j)] = m + j
    BY <1>1, <2>1
  <2>3. Slot(NextCounter + j)' = Slot(NextCounter + j)
    BY <2>1
  <2> QED BY <2>2, <2>3
<1>5. CollectedUpTo(m)'
  BY <1>1 DEF CollectedUpTo, Begins
<1> QED BY <1>2, <1>3, <1>4, <1>5 DEF BufferInOrder, Slot

\* What all such steps have in common.
LEMMA QuietStep ==
  ASSUME LinesInv, RxInv, RxInv', UNCHANGED <<buffer, parser, command>>,
         NextCounter' = NextCounter, Lag' <= Lag,
         tally'.late = tally.late, tally.raced => tally'.raced,
         tally'.starts = tally.starts,
         Running' => Running /\ Lag' = Lag /\ tally'.arrived = tally.arrived,
         ~tally'.raced /\ BufferInOrder =>
           /\ main'.pc \notin {"restart", "armed"} => main.pc \notin {"restart", "armed"}
           /\ main'.pc \in {"restart", "armed"} => Lag' = 0 /\ parser.line = <<>>
           /\ main'.pc = "parsing" => main'.index = Slot(stream'.consumed)
  PROVE  LinesInv'
<1>1. OnlyWholeLines'
  BY CommandKept DEF LinesInv
<1>2. ASSUME ~tally'.raced, ~tally'.late PROVE BufferInOrder'
  <2>1. BufferInOrder
    BY <1>2 DEF LinesInv
  <2>2. Lag \in Int
    BY RxSorted DEF Sorted, Lag
  <2>3. Lag' \in Int
    <3>1. Sorted'
      BY RxSorted, PTL
    <3> QED BY <3>1 DEF Sorted, Lag
  <2>4. \A j \in Int : Slot(NextCounter + j)' = Slot(NextCounter + j)
    BY DEF Slot
  <2> QED BY <1>2, <2>1, <2>2, <2>3, <2>4, OrderKept
<1> QED BY <1>1, <1>2 DEF LinesInv

\* Events move bytes from the unpublished to the pending: main is as far
\* behind as before.
LEMMA LinesOnEvent ==
  ASSUME LinesInv, RxInv, RxInv', DmaEvent \/ IdleEvent PROVE LinesInv'
<1>1. /\ UNCHANGED <<buffer, uart, recovery, parser, main, command>>
      /\ stream'.consumed = stream.consumed
      /\ tally'.late = tally.late /\ tally'.raced = tally.raced
      /\ tally'.starts = tally.starts /\ tally'.arrived = tally.arrived
      /\ tally'.stored = tally.stored
      /\ dma'.busy = dma.busy
  <2>1. ASSUME NEW position \in 0 .. Capacity, RxEvent(position)
        PROVE  /\ stream'.consumed = stream.consumed
               /\ tally'.late = tally.late /\ tally'.raced = tally.raced
               /\ tally'.starts = tally.starts /\ tally'.arrived = tally.arrived
               /\ tally'.stored = tally.stored
    <3>1. stream' = Publish(stream, position) /\ stream \in Streams
      BY <2>1 DEF RxEvent, RxInv, RxTypeOK
    <3>2. stream'.consumed = stream.consumed
      BY <3>1, PublishEffect
    <3>3. tally' = [tally EXCEPT !.published =
                      tally.published + Received(stream, position)]
      BY <2>1 DEF RxEvent
    <3> QED BY <3>2, <3>3 DEF RxInv, RxTypeOK
  <2>2. CASE DmaEvent
    <3>1. EventPosition(Head(dma.events)) \in 0 .. Capacity
      <4>1. Half \in 0 .. Capacity /\ Capacity \in 0 .. Capacity
        BY Halves, Sizes
      <4> QED BY <4>1 DEF EventPosition, Half
    <3>2. CASE uart.toIdle
      BY <2>1, <2>2, <3>1, <3>2 DEF DmaEvent, RxInv, RxTypeOK
    <3>3. CASE ~uart.toIdle
      BY <2>2, <3>3 DEF DmaEvent, RxInv, RxTypeOK
    <3> QED BY <3>2, <3>3
  <2>3. CASE IdleEvent
    <3> DEFINE position == IF dma.position = 0 THEN Capacity ELSE dma.position
    <3>1. position \in 0 .. Capacity
      BY RxSorted, Sizes DEF Sorted, Slots
    <3>2. RxEvent(position)
      BY <2>3 DEF IdleEvent
    <3> HIDE DEF position
    <3> QED BY <2>1, <2>3, <3>1, <3>2 DEF IdleEvent, RxInv, RxTypeOK
  <2> QED BY <2>2, <2>3
<1>2. Sorted /\ Sorted'
  BY RxSorted, PTL
<1>3. NextCounter' = NextCounter
  BY <1>1 DEF NextCounter
<1>4. Lag' = Lag
  <2>1. /\ tally.published = (tally.fed - main.done) + stream.overflow_count
                             + Pending(stream)
        /\ tally'.published = (tally'.fed - main.done) + stream'.overflow_count
                              + Pending(stream)'
    BY <1>1 DEF RxInv, EveryByteCounted
  <2>2. tally'.fed = tally.fed /\ stream'.overflow_count = stream.overflow_count
    <3>1. /\ stream \in Streams
          /\ tally \in [arrived : 0 .. MaxBytes, stored : Nat, published : Nat,
                        fed : Nat, errors : 0 .. MaxErrors,
                        starts : SUBSET (1 .. MaxBytes + 1), late : BOOLEAN,
                        raced : BOOLEAN]
      BY DEF RxInv, RxTypeOK
    <3>2. CASE UNCHANGED <<stream, tally>>
      BY <3>2
    <3>3. ASSUME NEW position, RxEvent(position)
          PROVE  /\ tally'.fed = tally.fed
                 /\ stream'.overflow_count = stream.overflow_count
      BY <3>1, <3>3 DEF RxEvent, Publish, Streams
    <3> QED BY <3>2, <3>3 DEF DmaEvent, IdleEvent
  <2>3. /\ Lag = tally.stored - tally.published + (Pending(stream) - main.done)
        /\ Lag' = tally.stored - tally'.published + (Pending(stream)' - main.done)
    BY <1>1 DEF Lag
  <2> DEFINE a == Pending(stream)
             b == Pending(stream)'
  <2>4. a \in Nat /\ b \in Nat /\ tally'.published \in Nat
    BY <1>2 DEF Sorted
  <2> HIDE DEF a, b
  <2> QED BY <1>2, <2>1, <2>2, <2>3, <2>4 DEF Sorted, a, b
<1>5. Running' = Running
  BY <1>1 DEF Running
<1>6. Lag' <= Lag
  BY <1>2, <1>4 DEF Lag, Sorted
<1>7. ~tally'.raced /\ BufferInOrder =>
        /\ main'.pc \notin {"restart", "armed"} => main.pc \notin {"restart", "armed"}
        /\ main'.pc \in {"restart", "armed"} => Lag' = 0 /\ parser.line = <<>>
        /\ main'.pc = "parsing" => main'.index = Slot(stream'.consumed)
  BY <1>1, <1>4 DEF BufferInOrder
<1> QED BY <1>1, <1>3, <1>4, <1>5, <1>6, <1>7, QuietStep

LEMMA LinesOnMissedByte ==
  ASSUME LinesInv, RxInv, RxInv', MissedByte PROVE LinesInv'
<1>1. /\ UNCHANGED <<stream, buffer, uart, dma, recovery, parser, main, command>>
      /\ ~Running
      /\ tally'.late = tally.late /\ tally'.raced = tally.raced
      /\ tally'.starts = tally.starts /\ tally'.published = tally.published
      /\ tally'.stored = tally.stored
  BY DEF MissedByte, RxInv, RxTypeOK
<1>2. NextCounter' = NextCounter /\ Lag' = Lag /\ ~Running'
  BY <1>1 DEF NextCounter, Lag, Running
<1>3. Lag' <= Lag
  BY <1>2, RxSorted DEF Lag, Sorted
<1>4. ~tally'.raced /\ BufferInOrder =>
        /\ main'.pc \notin {"restart", "armed"} => main.pc \notin {"restart", "armed"}
        /\ main'.pc \in {"restart", "armed"} => Lag' = 0 /\ parser.line = <<>>
        /\ main'.pc = "parsing" => main'.index = Slot(stream'.consumed)
  BY <1>1, <1>2 DEF BufferInOrder
<1> QED BY <1>1, <1>2, <1>3, <1>4, QuietStep

\* What an error leaves unpublished is not waited for.
LEMMA LinesOnRxError ==
  ASSUME LinesInv, RxInv, RxInv', RxError PROVE LinesInv'
<1>0. Sorted
  BY RxSorted
<1>1. /\ UNCHANGED <<stream, buffer, parser, main, command>>
      /\ dma.busy /\ uart.dmar /\ uart.eie
      /\ ~dma'.busy
      /\ tally'.late = tally.late /\ tally'.raced = tally.raced
      /\ tally'.starts = tally.starts /\ tally'.published = tally.published
      /\ tally'.stored = tally.published
  BY DEF RxError, Running, Stopped, RxInv, RxTypeOK
<1>3. ~tally.raced
  BY <1>1 DEF RxInv, RefusedForGood
<1>4. NextCounter' = NextCounter /\ ~Running'
  BY <1>1 DEF NextCounter, Running
<1>5. Lag' <= Lag
  <2>1. tally.stored - tally.published \in Nat
    BY <1>0, <1>1, <1>3 DEF RxInv, PositionsCount, Sorted
  <2>2. Lag' = (tally.published - tally.published) + Pending(stream) - main.done
    BY <1>1 DEF Lag
  <2> QED BY <1>0, <2>1, <2>2 DEF Lag, Sorted
<1>6. main.pc \notin {"restart", "armed"}
  BY <1>1, <1>3 DEF RxInv, RestartInOrder, Dead
<1>7. BufferInOrder => (main'.pc = "parsing" => main'.index = Slot(stream'.consumed))
  BY <1>1 DEF BufferInOrder
<1> QED BY <1>1, <1>4, <1>5, <1>6, <1>7, QuietStep

\* A raced start is the end of parsing.
LEMMA LinesOnRacedStart ==
  ASSUME LinesInv, RxInv, RacedStart PROVE LinesInv'
<1>1. command' = command /\ tally'.late = tally.late
      /\ tally'.starts = tally.starts /\ tally'.raced
  BY DEF RacedStart, RxInv, RxTypeOK
<1> QED BY <1>1, CommandKept DEF LinesInv

\* A byte is stored where the bytes not parsed end, on none of them.
LEMMA LinesOnDmaByte ==
  ASSUME LinesInv, RxInv, RxInv', DmaByte PROVE LinesInv'
<1>0. Sorted
  BY RxSorted
<1>1. /\ Running /\ dma.busy
      /\ buffer' = [buffer EXCEPT ![dma.position] = tally.arrived + 1]
      /\ UNCHANGED <<stream, uart, recovery, parser, main, command>>
      /\ dma'.busy = dma.busy
      /\ tally'.late = (tally.late \/ Lag >= Capacity)
      /\ tally'.raced = tally.raced /\ tally'.starts = tally.starts
      /\ tally'.published = tally.published
      /\ tally'.stored = tally.stored + 1 /\ tally'.arrived = tally.arrived + 1
  BY DEF DmaByte, Running, RxInv, RxTypeOK
<1>2. OnlyWholeLines'
  BY <1>1, CommandKept DEF LinesInv
<1>3. ASSUME ~tally'.raced, ~tally'.late PROVE BufferInOrder'
  <2>1. BufferInOrder /\ ~tally.raced /\ ~(Lag >= Capacity)
    BY <1>1, <1>3 DEF LinesInv
  <2> DEFINE l == Lag
             N == NextCounter
  <2>2. N \in Int /\ l \in Int /\ Slot(N + l) = dma.position
    BY <1>1, <2>1, DmaStandsAfter
  <2>3. Lag' = l + 1
    <3>1. Lag' = ((tally.stored + 1) - tally.published) + Pending(stream) - main.done
      BY <1>1 DEF Lag
    <3> QED BY <1>0, <3>1 DEF Lag, Sorted
  <2>4. NextCounter' = N
    BY <1>1 DEF NextCounter
  <2>5. PICK m \in Int :
          /\ m + l = tally.arrived + 1
          /\ \A j \in 0 .. l - 1 : buffer[Slot(N + j)] = m + j
          /\ CollectedUpTo(m)
    BY <1>1, <2>1 DEF BufferInOrder
  <2>6. l < Capacity
    BY <2>1, <2>2, Sizes
  <2>7. main.pc \notin {"restart", "armed"}
    BY <1>1, <2>1 DEF RxInv, RestartInOrder, Dead, Running
  <2> HIDE DEF l, N
  <2>8. ASSUME NEW j \in 0 .. (l + 1) - 1 PROVE buffer'[Slot(N + j)] = m + j
    <3>0. j \in Int /\ (j = l \/ j \in 0 .. l - 1)
      BY <2>2
    <3>1. buffer \in [Slots -> 0 .. MaxBytes] /\ dma.position \in Slots
      BY <1>0 DEF RxInv, RxTypeOK, Sorted
    <3>2. CASE j = l
      <4>1. buffer'[dma.position] = tally.arrived + 1
        BY <1>1, <3>1
      <4> QED BY <2>2, <2>5, <3>2, <4>1
    <3>3. CASE j \in 0 .. l - 1
      <4>1. Slot(N + j) # dma.position
        <5>1. /\ N + j \in Int /\ N + l \in Int /\ N + j < N + l
              /\ (N + l) - (N + j) < Capacity
          BY <2>2, <2>6, <3>3, Sizes
        <5> QED BY <2>2, <5>1, SlotsApart
      <4>2. Slot(N + j) \in Slots
        <5>1. N + j \in Int
          BY <2>2, <3>0
        <5> QED BY <5>1, NearCapacity DEF Slot, Slots
      <4>3. buffer'[Slot(N + j)] = buffer[Slot(N + j)]
        BY <1>1, <3>1, <4>1, <4>2
      <4> QED BY <2>5, <3>3, <4>3
    <3> QED BY <3>0, <3>2, <3>3
  <2>9. m + (l + 1) = (tally.arrived + 1) + 1
    <3>1. tally.arrived \in Nat
      BY Bounds DEF RxInv, RxTypeOK
    <3> QED BY <2>2, <2>5, <3>1
  <2>10. CollectedUpTo(m)'
    BY <1>1, <2>5 DEF CollectedUpTo, Begins
  <2>11. \E n \in Int :
           /\ Running' => n + Lag' = tally'.arrived + 1
           /\ \A j \in 0 .. Lag' - 1 : buffer'[Slot(NextCounter' + j)] = n + j
           /\ CollectedUpTo(n)'
    BY <1>1, <2>3, <2>4, <2>8, <2>9, <2>10
  <2>12. Lag' <= Capacity
    BY <2>2, <2>3, <2>6, Sizes
  <2>13. /\ main'.pc \in {"restart", "armed"} => Lag' = 0 /\ parser'.line = <<>>
         /\ main'.pc = "parsing" => main'.index = Slot(stream'.consumed)
    BY <1>1, <2>1, <2>7 DEF BufferInOrder
  <2> QED BY <2>11, <2>12, <2>13 DEF BufferInOrder, Slot
<1> QED BY <1>2, <1>3 DEF LinesInv

\* A recovery leaves nothing to parse and no line begun.
LEMMA LinesOnTakeRecovery ==
  ASSUME LinesInv, RxInv, RxInv', TakeRecovery PROVE LinesInv'
<1>0. Sorted
  BY RxSorted
<1>1. /\ UNCHANGED <<buffer, uart, dma, command>>
      /\ recovery /\ recovery' = FALSE
      /\ parser'.line = <<>> /\ ~parser'.discarding
      /\ main'.pc = "restart" /\ main'.done = main.done
      /\ tally'.late = tally.late /\ tally'.raced = tally.raced
      /\ tally'.starts = tally.starts /\ tally'.arrived = tally.arrived
      /\ tally'.published = tally.published /\ tally'.stored = tally.published
  BY DEF TakeRecovery, ParserReset, RxInv, RxTypeOK
<1>2. OnlyWholeLines'
  BY <1>1, CommandKept DEF LinesInv
<1>3. ASSUME ~tally'.raced, ~tally'.late PROVE BufferInOrder'
  <2>1. BufferInOrder /\ ~tally.raced
    BY <1>1, <1>3 DEF LinesInv
  <2>3. Lag' = 0
    <3>1. main.done = 0
      BY DEF TakeRecovery, RxInv, BlockPending
    <3>2. Pending(stream)' = 0
      <4>1. Pending(stream)' = Pending(stream') /\ stream' = ResetForRestart(stream)
        BY DEF Pending, TakeRecovery
      <4> QED BY <1>0, <4>1, ResetEffect DEF Sorted
    <3>3. Lag' = (tally.published - tally.published) + 0 - 0
      BY <1>1, <3>1, <3>2 DEF Lag
    <3> QED BY <1>0, <3>3 DEF Sorted
  <2>4. ~Running'
    BY <1>1, <2>1 DEF TakeRecovery, RxInv, RestartInOrder, Dead, Running
  <2>5. CollectedUpTo(1)'
    <3>1. Len(parser'.line) = 0
      BY <1>1
    <3> QED BY <1>1, <3>1 DEF CollectedUpTo
  <2>6. /\ Lag' <= Capacity
        /\ \A j \in 0 .. Lag' - 1 : buffer'[Slot(NextCounter + j)'] = 1 + j
    BY <2>3, Sizes
  <2> QED BY <1>1, <2>3, <2>4, <2>5, <2>6 DEF BufferInOrder
<1> QED BY <1>2, <1>3 DEF LinesInv

\* Starting the reception stores nothing yet.
LEMMA LinesOnStart ==
  ASSUME LinesInv, RxInv, RxInv', StartReception \/ StartRefused
  PROVE  LinesInv'
<1>0. Sorted
  BY RxSorted
<1>1. /\ UNCHANGED <<stream, buffer, parser, command, tally>>
      /\ main.pc = "restart" /\ main'.done = 0 /\ main.done = 0
  <2>1. UNCHANGED <<stream, buffer, parser, command, tally>> /\ main.pc = "restart"
    BY DEF StartReception, StartRefused
  <2>2. main.done = 0
    BY <2>1 DEF RxInv, BlockPending
  <2>3. main' = Idle \/ main' = [main EXCEPT !.pc = "armed"]
    BY DEF StartReception, StartRefused
  <2>4. main'.done = 0
    BY <2>2, <2>3 DEF Idle, RxInv, RxTypeOK
  <2> QED BY <2>1, <2>2, <2>4
<1>2. NextCounter' = NextCounter /\ Lag' = Lag
  BY <1>1 DEF NextCounter, Lag
<1>3. Lag' <= Lag
  BY <1>0, <1>2 DEF Lag, Sorted
<1>4. CASE tally.raced
  BY <1>1, <1>4, CommandKept DEF LinesInv
<1>5. CASE ~tally.raced
  <2>1. Dead /\ ~recovery
    BY <1>1, <1>5 DEF RxInv, RestartInOrder
  <2>2. StartReception
    BY <2>1 DEF StartRefused, Dead
  <2>3. ~Running' /\ main'.pc = "armed"
    BY <2>1, <2>2 DEF Dead, Running, StartReception, RxInv, RxTypeOK
  <2>4. BufferInOrder =>
          /\ main'.pc \notin {"restart", "armed"} => main.pc \notin {"restart", "armed"}
          /\ main'.pc \in {"restart", "armed"} => Lag' = 0 /\ parser.line = <<>>
          /\ main'.pc = "parsing" => main'.index = Slot(stream'.consumed)
    BY <1>1, <1>2, <2>3 DEF BufferInOrder
  <2> QED BY <1>1, <1>2, <1>3, <2>3, <2>4, QuietStep
<1> QED BY <1>4, <1>5

\* From here on bytes are stored: the next one is the next that arrives.
LEMMA LinesOnEnableRequests ==
  ASSUME LinesInv, RxInv, RxInv', EnableRequests PROVE LinesInv'
<1>1. /\ UNCHANGED <<stream, buffer, dma, recovery, parser, command>>
      /\ main.pc = "armed" /\ main'.pc = "check" /\ main'.done = main.done
      /\ tally'.starts = tally.starts \cup {tally.arrived + 1}
      /\ tally'.late = tally.late /\ tally'.raced = tally.raced
      /\ tally'.arrived = tally.arrived /\ tally'.published = tally.published
      /\ tally'.stored = tally.stored
  BY DEF EnableRequests, RxInv, RxTypeOK
<1>2. OnlyWholeLines'
  BY <1>1, CommandKept DEF LinesInv
<1>3. ASSUME ~tally'.raced, ~tally'.late PROVE BufferInOrder'
  <2>1. BufferInOrder /\ ~tally.raced
    BY <1>1, <1>3 DEF LinesInv
  <2>2. Lag = 0 /\ parser.line = <<>>
    BY <1>1, <2>1 DEF BufferInOrder
  <2>3. Lag' = 0
    BY <1>1, <2>2 DEF Lag
  <2>4. PICK m \in Int : m + 0 = tally.arrived + 1
    <3>1. tally.arrived \in Nat
      BY Bounds DEF RxInv, RxTypeOK
    <3>2. tally.arrived + 1 \in Int /\ (tally.arrived + 1) + 0 = tally.arrived + 1
      BY <3>1
    <3> QED BY <3>2
  <2>5. CollectedUpTo(m)'
    <3>1. Len(parser'.line) = 0 /\ parser'.line = <<>>
      BY <1>1, <2>2
    <3>2. m - 0 = tally.arrived + 1
      BY <2>4
    <3>3. (m - Len(parser'.line)) \in tally'.starts
      BY <1>1, <3>1, <3>2
    <3> QED BY <3>1, <3>3 DEF CollectedUpTo, Begins
  <2>6. Lag' <= Capacity
    BY <2>3, Sizes
  <2>7. \E n \in Int :
           /\ Running' => n + Lag' = tally'.arrived + 1
           /\ \A j \in 0 .. Lag' - 1 : buffer'[Slot(NextCounter' + j)] = n + j
           /\ CollectedUpTo(n)'
    <3>1. m + Lag' = tally'.arrived + 1
      BY <1>1, <2>3, <2>4
    <3>2. \A j \in 0 .. Lag' - 1 : buffer'[Slot(NextCounter' + j)] = m + j
      BY <2>3
    <3> WITNESS m \in Int
    <3> QED BY <2>5, <3>1, <3>2
  <2> QED BY <1>1, <2>2, <2>3, <2>6, <2>7 DEF BufferInOrder, Slot
<1> QED BY <1>2, <1>3 DEF LinesInv

LEMMA LinesOnReceptionStarted ==
  ASSUME LinesInv, RxInv, RxInv', ReceptionStarted PROVE LinesInv'
<1>1. /\ UNCHANGED <<stream, buffer, dma, parser, command, tally>>
      /\ main.pc = "check" /\ main'.pc = "loop" /\ main'.done = 0 /\ main.done = 0
      /\ uart'.dmar = uart.dmar
  BY DEF ReceptionStarted, Idle, RxInv, RxTypeOK, BlockPending
<1>2. NextCounter' = NextCounter /\ Lag' = Lag /\ Running' = Running
  BY <1>1 DEF NextCounter, Lag, Running
<1>3. Lag' <= Lag
  BY <1>2, RxSorted DEF Lag, Sorted
<1>4. BufferInOrder =>
        /\ main'.pc \notin {"restart", "armed"} => main.pc \notin {"restart", "armed"}
        /\ main'.pc \in {"restart", "armed"} => Lag' = 0 /\ parser.line = <<>>
        /\ main'.pc = "parsing" => main'.index = Slot(stream'.consumed)
  BY <1>1 DEF BufferInOrder
<1> QED BY <1>1, <1>2, <1>3, <1>4, QuietStep

LEMMA StoredAhead ==
  ASSUME RxInv, ~tally.raced PROVE tally.published <= tally.stored
<1>0. Sorted
  BY RxSorted
<1>1. CASE dma.busy
  BY <1>0, <1>1 DEF RxInv, PositionsCount, Sorted
<1>2. CASE ~dma.busy
  BY <1>0, <1>2 DEF RxInv, PositionsCount, Sorted
<1> QED BY <1>0, <1>1, <1>2 DEF Sorted

\* While main keeps up a peek finds nothing overwritten.
LEMMA LinesOnPeek ==
  ASSUME LinesInv, RxInv, RxInv', Peek PROVE LinesInv'
<1>0. Sorted
  BY RxSorted
<1>1. /\ UNCHANGED <<buffer, uart, dma, recovery, command, tally>>
      /\ main.pc = "loop" /\ main'.pc = "parsing" /\ main'.done = 0 /\ main.done = 0
      /\ stream' = SkipOverwritten(stream)
      /\ parser' = IF DataLost(stream) THEN DiscardUntilEol(parser) ELSE parser
      /\ main'.index = Slot(stream'.consumed)
  BY DEF Peek, RxInv, BlockPending
<1>2. OnlyWholeLines'
  BY <1>1, CommandKept DEF LinesInv
<1>3. ASSUME ~tally'.raced, ~tally'.late PROVE LinesInv'
  <2>1. BufferInOrder /\ ~tally.raced
    BY <1>1, <1>3 DEF LinesInv
  <2>2. tally.published <= tally.stored
    BY <2>1, StoredAhead
  <2>3. ~DataLost(stream)
    <3>1. (tally.stored - tally.published) + Pending(stream) - 0 <= Capacity
      BY <1>1, <2>1 DEF BufferInOrder, Lag
    <3> QED BY <1>0, <2>2, <3>1, Sizes DEF Sorted, DataLost
  <2>4. stream' = stream /\ parser' = parser
    BY <1>1, <2>3 DEF SkipOverwritten
  <2>5. NextCounter' = NextCounter /\ Lag' = Lag /\ Running' = Running
    BY <1>1, <2>4 DEF NextCounter, Lag, Running
  <2>6. Lag' <= Lag
    BY <1>0, <2>5 DEF Lag, Sorted
  <2>7. BufferInOrder =>
          /\ main'.pc \notin {"restart", "armed"} => main.pc \notin {"restart", "armed"}
          /\ main'.pc \in {"restart", "armed"} => Lag' = 0 /\ parser.line = <<>>
          /\ main'.pc = "parsing" => main'.index = Slot(stream'.consumed)
    BY <1>1 DEF BufferInOrder
  <2> QED BY <1>1, <2>4, <2>5, <2>6, <2>7, QuietStep
<1> QED BY <1>2, <1>3 DEF LinesInv

\* Consuming what was parsed moves on by as much.
LEMMA LinesOnConsume ==
  ASSUME LinesInv, RxInv, RxInv', ConsumeBlock PROVE LinesInv'
<1>0. Sorted /\ Sorted'
  BY RxSorted, PTL
<1>1. /\ main.pc = "parsing" /\ main.done <= Pending(stream)
  BY DEF ConsumeBlock, RxInv, BlockPending
<1>2. /\ stream' = Consume(stream, main.done)
      /\ main' = Idle
      /\ UNCHANGED <<buffer, uart, dma, recovery, parser, command, tally>>
  BY <1>1 DEF ConsumeBlock, CanConsume
<1>3. main'.done = 0 /\ main'.pc = "loop"
  BY <1>2 DEF Idle
<1>4. /\ Pending(stream)' = Pending(stream) - main.done
      /\ stream'.consumed = (stream.consumed + main.done) % CountMod
  <2>1. Pending(stream)' = Pending(stream')
    BY DEF Pending
  <2> QED BY <1>0, <1>1, <1>2, <2>1, ConsumeEffect DEF Sorted, Consume, Streams
<1>5. Lag' = Lag
  <2>1. Lag' = (tally.stored - tally.published) + (Pending(stream) - main.done) - 0
    BY <1>2, <1>3, <1>4 DEF Lag
  <2> QED BY <1>0, <2>1 DEF Lag, Sorted
<1>6. \A j \in Int : Slot(NextCounter + j)' = Slot(NextCounter + j)
  <2> TAKE j \in Int
  <2>1. stream.consumed + main.done \in Int
    BY <1>0, Sizes DEF Sorted, Streams, Counters
  <2>2. Slot(((stream.consumed + main.done) % CountMod) + j)
          = Slot((stream.consumed + main.done) + j)
    BY <2>1, SlotAfterCounter
  <2> DEFINE c == (stream.consumed + main.done) % CountMod
  <2>3. c \in Int /\ c + 0 = c
    BY <2>1, NearCountMod, Sizes
  <2>4. NextCounter' = c
    BY <1>3, <1>4, <2>3 DEF NextCounter
  <2>5. Slot(NextCounter + j)' = Slot(NextCounter' + j)
    BY DEF Slot
  <2> QED BY <2>2, <2>4, <2>5 DEF NextCounter
<1>7. OnlyWholeLines'
  BY <1>2, CommandKept DEF LinesInv
<1>8. ASSUME ~tally'.raced, ~tally'.late PROVE BufferInOrder'
  <2>1. BufferInOrder
    BY <1>2, <1>8 DEF LinesInv
  <2>2. Lag \in Int /\ Lag' \in Int /\ Lag' <= Lag
    BY <1>0, <1>5 DEF Lag, Sorted
  <2>3. Running' = Running
    BY <1>2 DEF Running
  <2>4. main'.pc \notin {"restart", "armed"} => main.pc \notin {"restart", "armed"}
    BY <1>1
  <2>5. /\ buffer' = buffer /\ parser' = parser /\ tally'.starts = tally.starts
        /\ Running' => Running /\ Lag' = Lag /\ tally'.arrived = tally.arrived
        /\ main'.pc \in {"restart", "armed"} => Lag' = 0 /\ parser.line = <<>>
        /\ main'.pc = "parsing" => main'.index = Slot(stream'.consumed)
    BY <1>2, <1>3, <1>5, <2>3
  <2> QED BY <1>6, <2>1, <2>2, <2>4, <2>5, OrderKept
<1> QED BY <1>7, <1>8 DEF LinesInv

\* The parser takes the next byte of the line, and its command is the line.
LEMMA LinesOnParse ==
  ASSUME LinesInv, RxInv, RxInv', ParseByte PROVE LinesInv'
<1>0. Sorted
  BY RxSorted
<1> DEFINE byte == buffer[main.index + main.done]
           line == parser.line
           eol == Eol(byte)
           n == main.done + 1
<1>1. /\ main.pc = "parsing" /\ main'.pc = "parsing" /\ main'.index = main.index
      /\ main.done < main.length /\ main'.done = n
      /\ parser' = Feed(parser, byte, eol)
      /\ command' = IF Completes(parser, eol) THEN line ELSE <<>>
      /\ UNCHANGED <<stream, buffer, uart, dma, recovery>>
      /\ tally'.late = tally.late /\ tally'.raced = tally.raced
      /\ tally'.starts = tally.starts /\ tally'.arrived = tally.arrived
      /\ tally'.published = tally.published /\ tally'.stored = tally.stored
  BY DEF ParseByte, RxInv, RxTypeOK
<1>2. ~tally.raced
  BY <1>1 DEF RxInv, RefusedForGood
<1>3. CASE tally.late
  BY <1>1, <1>3 DEF LinesInv, OnlyWholeLines
<1>4. CASE ~tally.late
  <2>1. BufferInOrder
    BY <1>2, <1>4 DEF LinesInv
  <2> DEFINE l == Lag
             N == NextCounter
  <2>2. PICK m \in Int :
          /\ Running => m + l = tally.arrived + 1
          /\ \A j \in 0 .. l - 1 : buffer[Slot(N + j)] = m + j
          /\ CollectedUpTo(m)
    BY <2>1 DEF BufferInOrder
  <2>3. /\ l \in Int /\ N \in Int /\ l >= 1 /\ l <= Capacity
        /\ Lag' = l - 1 /\ NextCounter' = N + 1
    <3>1. tally.published <= tally.stored
      BY <1>0, <1>2, StoredAhead DEF Sorted
    <3>2. main.length <= Pending(stream)
      BY <1>1 DEF RxInv, BlockPending
    <3>3. stream.consumed \in Int
      BY <1>0, Sizes DEF Sorted, Streams, Counters
    <3>4. l = (tally.stored - tally.published) + Pending(stream) - main.done
      BY DEF Lag
    <3>0. /\ tally.stored \in Nat /\ tally.published \in Nat /\ Pending(stream) \in Nat
          /\ main.done \in Nat /\ main.length \in Nat /\ main.done < main.length
      BY <1>0, <1>1 DEF Sorted
    <3>5. l \in Int /\ l >= 1
      <4> HIDE DEF l
      <4> QED BY <3>0, <3>1, <3>2, <3>4
    <3>6. l <= Capacity
      BY <2>1 DEF BufferInOrder
    <3>7. Lag' = (tally.stored - tally.published) + Pending(stream) - (main.done + 1)
      BY <1>1 DEF Lag, Pending
    <3>8. Lag' = l - 1
      BY <3>0, <3>4, <3>7
    <3>9. N \in Int /\ NextCounter' = N + 1
      <4>1. NextCounter' = stream.consumed + (main.done + 1)
        BY <1>1 DEF NextCounter
      <4>2. N = stream.consumed + main.done
        BY DEF NextCounter
      <4> HIDE DEF N
      <4> QED BY <3>0, <3>3, <4>1, <4>2
    <3> QED BY <3>5, <3>6, <3>8, <3>9
  <2>4. Slot(N + 0) = main.index + main.done
    <3>1. stream.consumed \in Int
      BY <1>0, Sizes DEF Sorted, Streams, Counters
    <3>2. main.index = stream.consumed % Capacity
      BY <1>1, <2>1 DEF BufferInOrder, Slot
    <3> DEFINE k == stream.consumed \div Capacity
               x == main.index + main.done
    <3>3. k \in Int /\ stream.consumed = Capacity * k + main.index
      BY <3>1, <3>2, Sizes, Remainder
    <3>4. x \in 0 .. Capacity - 1
      <4>1. main.index + main.length <= Capacity
        BY DEF RxInv, BlockPending
      <4>2. /\ main.index \in Nat /\ main.done \in Nat /\ main.length \in Nat
            /\ main.done < main.length
        BY <1>0, <1>1 DEF Sorted
      <4>3. x \in Nat /\ x < Capacity
        BY <4>1, <4>2, Sizes
      <4> HIDE DEF x
      <4> QED BY <4>3, Sizes
    <3>5. N + 0 = Capacity * k + x
      BY <1>0, <3>1, <3>3, Sizes DEF NextCounter, Sorted
    <3> HIDE DEF k, x, N
    <3>6. (Capacity * k + x) % Capacity = x
      BY <3>3, <3>4, Sizes, RemainderIs
    <3> QED BY <3>5, <3>6 DEF Slot, x
  <2> HIDE DEF l, N
  <2>5. byte = m
    <3>1. 0 \in 0 .. l - 1
      BY <2>3
    <3>2. buffer[Slot(N + 0)] = m + 0
      BY <2>2, <3>1
    <3> QED BY <2>4, <3>2
  <2> HIDE DEF byte
  <2> DEFINE d == m - Len(line)
  <2>6. /\ parser \in [line : Seq(0 .. MaxBytes), discarding : BOOLEAN,
                       overflow_count : Nat]
        /\ line \in Seq(0 .. MaxBytes) /\ Len(line) \in Nat
        /\ parser.discarding => line = <<>>
        /\ \A i \in 1 .. Len(line) : line[i] = d + (i - 1)
        /\ ~parser.discarding => Begins(d)
    BY <1>1, <2>2 DEF RxInv, RxTypeOK, CollectedUpTo
  <2>9. CollectedUpTo(m + 1)'
    <3> DEFINE q == Feed(parser, byte, eol)
    <3>0. /\ m \in Int /\ d \in Int /\ d = m - Len(line) /\ Len(<<>>) = 0
          /\ LongestCommand \in Nat
      BY <2>6, ParserAssumption
    <3>1. CASE eol
      <4>1. q.line = <<>> /\ ~q.discarding
        BY <2>6, <3>1 DEF Feed
      <4>2. Eol(((m + 1) - 0) - 1)
        <5>1. ((m + 1) - 0) - 1 = m
          OBVIOUS
        <5> QED BY <2>5, <3>1, <5>1
      <4> HIDE DEF q, d, eol
      <4>3. Len(q.line) = 0
        BY <4>1
      <4> QED BY <1>1, <4>1, <4>2, <4>3 DEF CollectedUpTo, Begins, q, eol
    <3>2. CASE ~eol /\ parser.discarding
      <4>1. q.line = <<>> /\ q.discarding
        BY <2>6, <3>2 DEF Feed
      <4> HIDE DEF q, d, eol
      <4>2. Len(q.line) = 0
        BY <4>1
      <4> QED BY <1>1, <4>1, <4>2 DEF CollectedUpTo, q, eol
    <3>3. CASE ~eol /\ ~parser.discarding /\ Len(line) >= LongestCommand
      <4>1. q.line = <<>> /\ q.discarding
        <5>1. q = [parser EXCEPT !.overflow_count = parser.overflow_count + 1,
                                 !.line = <<>>, !.discarding = TRUE]
          BY <2>6, <3>0, <3>3 DEF Feed
        <5> HIDE DEF q
        <5> QED BY <2>6, <5>1
      <4> HIDE DEF q, d, eol
      <4>2. Len(q.line) = 0
        BY <4>1
      <4> QED BY <1>1, <4>1, <4>2 DEF CollectedUpTo, q, eol
    <3>4. CASE ~eol /\ ~parser.discarding /\ Len(line) < LongestCommand
      <4>1. q.line = Append(line, byte) /\ ~q.discarding
        <5>1. q = [parser EXCEPT !.line = Append(line, byte)]
          BY <2>6, <3>0, <3>4 DEF Feed
        <5> HIDE DEF q
        <5> QED BY <2>6, <3>4, <5>1
      <4> DEFINE x == Append(line, byte)
      <4>2. /\ Len(x) = Len(line) + 1 /\ x[Len(line) + 1] = byte
            /\ \A i \in 1 .. Len(line) : x[i] = line[i]
        <5>1. byte \in Int
          BY <2>5
        <5>2. line \in Seq(Int)
          <6>1. \A i \in 1 .. Len(line) : line[i] \in Int
            BY <2>6, <3>0
          <6> QED BY <2>6, <6>1
        <5> QED BY <5>1, <5>2
      <4> HIDE DEF q, x
      <4>3. (m + 1) - Len(x) = d
        BY <2>6, <3>0, <4>2
      <4>4. \A i \in 1 .. Len(x) : x[i] = d + (i - 1)
        <5> TAKE i \in 1 .. Len(x)
        <5>1. CASE i \in 1 .. Len(line)
          BY <2>6, <4>2, <5>1
        <5>2. CASE i = Len(line) + 1
          <6>1. d + (i - 1) = m
            BY <2>6, <3>0, <5>2
          <6> QED BY <2>5, <4>2, <5>2, <6>1
        <5> QED BY <2>6, <4>2, <5>1, <5>2
      <4>5. Eol(d - 1) \/ d \in tally'.starts
        BY <1>1, <2>6, <3>4 DEF Begins
      <4> HIDE DEF d, eol
      <4>6. parser'.line = x /\ ~parser'.discarding
        BY <1>1, <4>1 DEF q, x
      <4> QED BY <1>1, <4>3, <4>4, <4>5, <4>6 DEF CollectedUpTo, Begins
    <3> QED BY <2>6, <3>0, <3>1, <3>2, <3>3, <3>4
  <2>7. BufferInOrder'
    <3>1. Running' => (m + 1) + Lag' = tally'.arrived + 1
      <4>1. Running' = Running
        BY <1>1 DEF Running
      <4> QED BY <1>1, <2>2, <2>3, <4>1
    <3>2. \A j \in 0 .. (l - 1) - 1 : buffer[Slot((N + 1) + j)] = (m + 1) + j
      <4> TAKE j \in 0 .. (l - 1) - 1
      <4>1. j + 1 \in 0 .. l - 1 /\ (N + 1) + j = N + (j + 1) /\ (m + 1) + j = m + (j + 1)
        BY <2>3
      <4>2. buffer[Slot(N + (j + 1))] = m + (j + 1)
        BY <2>2, <4>1
      <4> QED BY <4>1, <4>2
    <3>3. \E k \in Int :
            /\ Running' => k + Lag' = tally'.arrived + 1
            /\ \A j \in 0 .. Lag' - 1 : buffer'[Slot(NextCounter' + j)] = k + j
            /\ CollectedUpTo(k)'
      <4>1. m + 1 \in Int
        OBVIOUS
      <4> WITNESS m + 1 \in Int
      <4>2. \A j \in 0 .. Lag' - 1 : buffer'[Slot(NextCounter' + j)] = (m + 1) + j
        BY <1>1, <2>3, <3>2
      <4> QED BY <2>9, <3>1, <4>2
    <3>4. Lag' <= Capacity
      BY <2>3, Sizes
    <3>5. /\ main'.pc \notin {"restart", "armed"}
          /\ main'.pc = "parsing" => main'.index = Slot(stream'.consumed)
      BY <1>1, <2>1 DEF BufferInOrder
    <3> QED BY <3>3, <3>4, <3>5 DEF BufferInOrder, Slot
  <2>8. OnlyWholeLines'
    <3>1. CASE command' = <<>>
      BY <3>1 DEF OnlyWholeLines
    <3>2. CASE command' # <<>>
      <4>1. command' = line /\ eol /\ ~parser.discarding /\ line # <<>>
        BY <1>1, <3>2 DEF Completes
      <4>2. Len(line) >= 1 /\ d \in Int /\ m = d + Len(line)
        BY <2>6, <4>1
      <4> HIDE DEF d
      <4>3. /\ line[1] = d /\ line[Len(line)] = m - 1
            /\ \A i \in 1 .. Len(line) - 1 : line[i + 1] = line[i] + 1
        <5>1. Len(line) \in Nat /\ \A i \in 1 .. Len(line) : line[i] = d + (i - 1)
          BY <2>6, <4>2
        <5>2. 1 \in 1 .. Len(line) /\ Len(line) \in 1 .. Len(line)
          BY <4>2, <5>1
        <5>3. line[1] = d + (1 - 1) /\ line[Len(line)] = d + (Len(line) - 1)
          BY <5>1, <5>2
        <5>4. \A i \in 1 .. Len(line) - 1 : line[i + 1] = line[i] + 1
          <6> TAKE i \in 1 .. Len(line) - 1
          <6>1. /\ i \in 1 .. Len(line) /\ i + 1 \in 1 .. Len(line)
                /\ d + ((i + 1) - 1) = (d + (i - 1)) + 1
            BY <4>2, <5>1
          <6> QED BY <5>1, <6>1
        <5>5. d + (1 - 1) = d /\ d + (Len(line) - 1) = m - 1
          BY <4>2, <5>1
        <5> QED BY <5>3, <5>4, <5>5
      <4>4. Eol(line[Len(line)] + 1)
        <5>1. line[Len(line)] + 1 = m
          BY <4>3
        <5> QED BY <2>5, <4>1, <5>1
      <4>5. Eol(line[1] - 1) \/ line[1] \in tally'.starts
        BY <1>1, <2>6, <4>1, <4>3 DEF Begins
      <4> HIDE DEF line
      <4>6. (\A i \in 1 .. Len(command) - 1 : command[i + 1] = command[i] + 1)'
        BY <4>1, <4>3
      <4> QED
        BY <4>1, <4>4, <4>5, <4>6 DEF OnlyWholeLines, FragmentsNeverCombined, Begins
    <3> QED BY <3>1, <3>2
  <2> QED BY <2>7, <2>8 DEF LinesInv
<1> QED BY <1>3, <1>4

LEMMA LinesNext ==
  ASSUME LinesInv, RxInv, RxInv', [Next]_vars PROVE LinesInv'
<1>1. ASSUME UNCHANGED vars PROVE LinesInv'
  <2>1. /\ UNCHANGED <<stream, buffer, uart, dma, recovery, parser, main, command, tally>>
    BY <1>1 DEF vars
  <2>2. NextCounter' = NextCounter /\ Lag' = Lag /\ Running' = Running
    BY <2>1 DEF NextCounter, Lag, Running
  <2>3. Lag' <= Lag
    BY <2>2, RxSorted DEF Lag, Sorted
  <2>4. BufferInOrder =>
          /\ main'.pc \notin {"restart", "armed"} => main.pc \notin {"restart", "armed"}
          /\ main'.pc \in {"restart", "armed"} => Lag' = 0 /\ parser.line = <<>>
          /\ main'.pc = "parsing" => main'.index = Slot(stream'.consumed)
    BY <2>1, <2>2 DEF BufferInOrder
  <2> QED BY <2>1, <2>2, <2>3, <2>4, QuietStep
<1>2. Finished => UNCHANGED vars
  BY DEF Finished
<1> QED
  BY <1>1, <1>2, LinesOnDmaByte, LinesOnMissedByte, LinesOnEvent, LinesOnRxError,
     LinesOnRacedStart, LinesOnTakeRecovery, LinesOnStart, LinesOnEnableRequests,
     LinesOnReceptionStarted, LinesOnPeek, LinesOnParse, LinesOnConsume
  DEF Next

\* While main keeps up every command is one whole line, of bytes that were
\* neighbours on the line and end at an end of line; it also starts after one,
\* but for the first command of a reception started again.
THEOREM CommandsAreWholeLines == Spec => []OnlyWholeLines
<1>1. LinesInv => OnlyWholeLines
  BY DEF LinesInv
<1>2. Init => LinesInv
  BY LinesInit
<1>3. LinesInv /\ RxInv /\ RxInv' /\ [Next]_vars => LinesInv'
  BY LinesNext
<1> QED BY <1>1, <1>2, <1>3, RxInvariant, PTL DEF Spec

=============================================================================
