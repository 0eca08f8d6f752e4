---------------------------- MODULE UartTxProofs ----------------------------
(***************************************************************************)
(* The transmit path, for every buffer size, counter width and number of   *)
(* bytes: the adapter is never wrong about the hardware, main never stores *)
(* into a byte the DMA has still to read, and the wire carries what was    *)
(* accepted, in order.                                                     *)
(***************************************************************************)
EXTENDS UartTx, SequenceTheorems, TLAPS

-----------------------------------------------------------------------------
(***************************************************************************)
(* The wrapping counters of the byte queue, for every buffer size and      *)
(* every counter width that is a multiple of it.                           *)
(***************************************************************************)
\* Division with remainder.
LEMMA Remainder ==
  ASSUME NEW a \in Int, NEW m \in Nat \ {0}
  PROVE  (a % m) \in 0 .. m - 1 /\ a \div m \in Int /\ a = m * (a \div m) + (a % m)
OBVIOUS

\* A remainder is recognized by what it differs from the number by.
LEMMA RemainderIs ==
  ASSUME NEW m \in Nat \ {0}, NEW k \in Int, NEW r \in 0 .. m - 1
  PROVE  (m * k + r) % m = r
<1> DEFINE a == m * k + r
<1> DEFINE j == a \div m
<1> DEFINE s == a % m
<1>1. a \in Int
  OBVIOUS
<1>2. s \in 0 .. m - 1 /\ j \in Int /\ a = m * j + s
  BY <1>1, Remainder
<1> HIDE DEF j, s
<1>3. m * (k - j) = s - r
  BY <1>2
<1>4. k - j >= 1 => m * (k - j) >= m
  BY <1>2
<1>5. k - j <= -1 => m * (k - j) <= -m
  BY <1>2
<1>6. k = j
  BY <1>2, <1>3, <1>4, <1>5
<1>7. s = r
  BY <1>2, <1>3, <1>6
<1> QED BY <1>7 DEF s

\* Numbers a multiple of m apart have the same remainder.
LEMMA SameRemainder ==
  ASSUME NEW m \in Nat \ {0}, NEW a \in Int, NEW k \in Int
  PROVE  (a + m * k) % m = a % m
<1> DEFINE j == a \div m
<1> DEFINE s == a % m
<1>1. s \in 0 .. m - 1 /\ j \in Int /\ a = m * j + s
  BY Remainder
<1> HIDE DEF j, s
<1>2. a + m * k = m * (j + k) + s
  BY <1>1
<1>3. (m * (j + k) + s) % m = s
  BY <1>1, RemainderIs
<1> QED BY <1>2, <1>3 DEF s

\* Numbers less than m apart have different remainders.
LEMMA RemaindersDiffer ==
  ASSUME NEW m \in Nat \ {0}, NEW a \in Int, NEW b \in Int,
         a < b, b - a < m
  PROVE  a % m # b % m
<1> SUFFICES ASSUME a % m = b % m PROVE FALSE
  OBVIOUS
<1> DEFINE j == a \div m
<1> DEFINE k == b \div m
<1> DEFINE s == a % m
<1>1. s \in 0 .. m - 1 /\ j \in Int /\ a = m * j + s
  BY Remainder
<1>2. k \in Int /\ b = m * k + s
  BY Remainder
<1> HIDE DEF j, k, s
<1>3. m * (k - j) = b - a
  BY <1>1, <1>2
<1>4. k - j >= 1 => m * (k - j) >= m
  BY <1>1, <1>2
<1>5. k - j <= 0 => m * (k - j) <= 0
  BY <1>1, <1>2
<1> QED BY <1>1, <1>2, <1>3, <1>4, <1>5

-----------------------------------------------------------------------------
\* The range of a counter is a whole number of buffers.
LEMMA CapacityDivides ==
  CountMod \div Capacity \in Int /\ CountMod = Capacity * (CountMod \div Capacity)
<1> DEFINE f == CountMod \div Capacity
<1>1. CountMod = Capacity * f + (CountMod % Capacity) /\ f \in Int
  BY QueueAssumption, Remainder
<1> HIDE DEF f
<1>2. CountMod = Capacity * f
  BY <1>1, QueueAssumption
<1> QED BY <1>1, <1>2 DEF f

\* Advancing a counter that has counted n bytes by i makes it count n + i.
LEMMA CounterAdvances ==
  ASSUME NEW n \in Nat, NEW i \in Nat
  PROVE  Advance(Counter(n), i) = Counter(n + i)
<1> USE QueueAssumption DEF Counter, Advance
<1> DEFINE k == n \div CountMod
<1> DEFINE c == n % CountMod
<1>1. c \in 0 .. CountMod - 1 /\ k \in Int /\ n = CountMod * k + c
  BY Remainder
<1> HIDE DEF k, c
<1>2. n + i = (c + i) + CountMod * k
  BY <1>1
<1>3. ((c + i) + CountMod * k) % CountMod = (c + i) % CountMod
  <2>1. c + i \in Int /\ CountMod \in Nat \ {0}
    BY <1>1
  <2> QED BY <1>1, <2>1, SameRemainder
<1> QED BY <1>2, <1>3 DEF c

\* The slot of the i-th byte after n, from the counter.
LEMMA SlotFromCounter ==
  ASSUME NEW n \in Nat, NEW i \in Int
  PROVE  Slot(Counter(n) + i) = (n + i) % Capacity
<1> USE QueueAssumption DEF Counter, Slot
<1> DEFINE k == n \div CountMod
<1> DEFINE c == n % CountMod
<1> DEFINE f == CountMod \div Capacity
<1>1. c \in 0 .. CountMod - 1 /\ k \in Int /\ n = CountMod * k + c
  BY Remainder
<1>2. f \in Int /\ CountMod = Capacity * f
  BY CapacityDivides
<1> HIDE DEF k, c, f
<1>3. n + i = (c + i) + Capacity * (f * k)
  <2>1. CountMod * k = Capacity * (f * k)
    BY <1>1, <1>2
  <2> QED BY <1>1, <2>1
<1>4. ((c + i) + Capacity * (f * k)) % Capacity = (c + i) % Capacity
  <2>1. f * k \in Int /\ c + i \in Int /\ Capacity \in Nat \ {0}
    BY <1>1, <1>2
  <2> QED BY <2>1, SameRemainder
<1> QED BY <1>3, <1>4 DEF c

\* A counter is in its range and its slot is that of the number it counted.
LEMMA CounterTyped ==
  ASSUME NEW n \in Nat
  PROVE  /\ Counter(n) \in Counters
         /\ Slot(Counter(n)) = n % Capacity
         /\ (n % Capacity) \in Slots
<1>1. Counter(n) \in Counters
  BY Remainder, QueueAssumption DEF Counter, Counters
<1>2. (n % Capacity) \in Slots
  BY Remainder, QueueAssumption DEF Slots
<1>3. Slot(Counter(n) + 0) = (n + 0) % Capacity
  BY SlotFromCounter
<1>4. Counter(n) + 0 = Counter(n) /\ n + 0 = n
  BY <1>1, QueueAssumption DEF Counters
<1> QED BY <1>1, <1>2, <1>3, <1>4

\* head - tail in the width of the counters is the number of bytes between.
LEMMA UsedIsDistance ==
  ASSUME NEW q, NEW h \in Nat, NEW t \in Nat, t <= h, h - t <= Capacity,
         q.head = Counter(h), q.tail = Counter(t)
  PROVE  Used(q) = h - t
<1> USE QueueAssumption DEF Counter
<1> DEFINE j == h \div CountMod
<1> DEFINE c == h % CountMod
<1> DEFINE k == t \div CountMod
<1> DEFINE d == t % CountMod
<1>1. c \in 0 .. CountMod - 1 /\ j \in Int /\ h = CountMod * j + c
  BY Remainder
<1>2. d \in 0 .. CountMod - 1 /\ k \in Int /\ t = CountMod * k + d
  BY Remainder
<1>3. Used(q) = (c - d) % CountMod
  BY DEF Used
<1> HIDE DEF j, c, k, d
<1>4. c - d = CountMod * (k - j) + (h - t)
  BY <1>1, <1>2
<1>5. (CountMod * (k - j) + (h - t)) % CountMod = h - t
  <2>1. h - t \in 0 .. CountMod - 1 /\ k - j \in Int /\ CountMod \in Nat \ {0}
    BY <1>1, <1>2
  <2> HIDE QueueAssumption
  <2> QED BY <2>1, RemainderIs
<1> QED BY <1>3, <1>4, <1>5

\* Within the buffer the slots of consecutive bytes are consecutive.
LEMMA SlotOfNext ==
  ASSUME NEW n \in Nat, NEW i \in Nat, (n % Capacity) + i < Capacity
  PROVE  (n + i) % Capacity = (n % Capacity) + i
<1> USE QueueAssumption
<1> DEFINE k == n \div Capacity
<1> DEFINE s == n % Capacity
<1>1. s \in 0 .. Capacity - 1 /\ k \in Int /\ n = Capacity * k + s
  BY Remainder
<1>2. s + i < Capacity
  OBVIOUS
<1> HIDE DEF k, s
<1>3. n + i = Capacity * k + (s + i)
  BY <1>1
<1>4. (Capacity * k + (s + i)) % Capacity = s + i
  <2>1. s + i \in 0 .. Capacity - 1 /\ Capacity \in Nat \ {0}
    BY <1>1, <1>2
  <2> QED BY <1>1, <2>1, RemainderIs
<1> QED BY <1>3, <1>4 DEF s

-----------------------------------------------------------------------------
(***************************************************************************)
(* The transmit path.                                                      *)
(***************************************************************************)
\* What start_next sees of the queue when it holds bytes rel + 1 to acc: a
\* block of published bytes that does not wrap.
LEMMA ContiguousBlock ==
  ASSUME NEW q, NEW acc \in Nat, NEW rel \in Nat,
         rel <= acc, acc - rel <= Capacity,
         q.head = Counter(acc), q.tail = Counter(rel)
  PROVE  /\ Contiguous(q) \in 0 .. acc - rel
         /\ Slot(q.tail) \in Slots
         /\ Slot(q.tail) + Contiguous(q) <= Capacity
<1>1. Used(q) = acc - rel
  BY UsedIsDistance
<1>2. Slot(q.tail) \in Slots
  BY CounterTyped
<1> QED BY <1>1, <1>2, QueueAssumption DEF Contiguous, Slots

\* start_next, when nothing is active, leaves the hardware idle or busy with
\* the whole of such a block.
LEMMA StartNextKeeps ==
  ASSUME NEW q, NEW acc \in Nat, NEW rel \in Nat,
         rel <= acc, acc - rel <= Capacity,
         q.head = Counter(acc), q.tail = Counter(rel),
         NEW a \in [active : BOOLEAN, active_length : 0 .. Capacity, error_count : Nat],
         NEW d \in [busy : BOOLEAN, index : 0 .. Capacity, left : 0 .. Capacity],
         refused \in 0 .. MaxRefusals, a.error_count = refused,
         ~a.active, ~d.busy,
         StartNext(q, a, d)
  PROVE  /\ adapter' \in [active : BOOLEAN, active_length : 0 .. Capacity, error_count : Nat]
         /\ dma' \in [busy : BOOLEAN, index : 0 .. Capacity, left : 0 .. Capacity]
         /\ refused' \in 0 .. MaxRefusals
         /\ adapter'.error_count = refused'
         /\ adapter'.active <=> dma'.busy
         /\ adapter'.active => adapter'.active_length > 0
         /\ dma'.busy => /\ dma'.left = adapter'.active_length
                         /\ adapter'.active_length <= acc - rel
                         /\ Slot(q.tail) + adapter'.active_length <= Capacity
                         /\ dma'.index = Slot(q.tail)
<1> DEFINE n == Contiguous(q)
<1>1. n \in 0 .. acc - rel /\ Slot(q.tail) \in Slots /\ Slot(q.tail) + n <= Capacity
  BY ContiguousBlock
<1>2. n \in 0 .. Capacity /\ Slot(q.tail) \in 0 .. Capacity
  BY <1>1, QueueAssumption DEF Slots
<1>3. CASE n = 0
  BY <1>3 DEF StartNext
<1>4. CASE n # 0 /\ dma' = [busy |-> TRUE, index |-> Slot(q.tail), left |-> n]
                 /\ adapter' = [a EXCEPT !.active = TRUE, !.active_length = n]
                 /\ refused' = refused
  <2> HIDE DEF n
  <2>1. /\ adapter' \in [active : BOOLEAN, active_length : 0 .. Capacity, error_count : Nat]
        /\ adapter'.active /\ adapter'.active_length = n
        /\ adapter'.error_count = a.error_count
    BY <1>2, <1>4
  <2>2. /\ dma' \in [busy : BOOLEAN, index : 0 .. Capacity, left : 0 .. Capacity]
        /\ dma'.busy /\ dma'.index = Slot(q.tail) /\ dma'.left = n
    BY <1>2, <1>4
  <2> QED BY <1>1, <1>4, <2>1, <2>2
<1>5. CASE n # 0 /\ dma' = d /\ refused < MaxRefusals /\ refused' = refused + 1
                 /\ adapter' = [a EXCEPT !.active_length = 0, !.error_count = @ + 1]
  <2> DEFINE errors == a.error_count + 1
  <2>0. errors \in Nat /\ adapter' = [a EXCEPT !.active_length = 0, !.error_count = errors]
    BY <1>5
  <2> HIDE DEF errors
  <2>1. adapter' = [active |-> FALSE, active_length |-> 0, error_count |-> errors]
    <3>1. a.active = FALSE
      OBVIOUS
    <3> QED BY <2>0, <3>1
  <2>3. /\ adapter' \in [active : BOOLEAN, active_length : 0 .. Capacity, error_count : Nat]
        /\ ~adapter'.active
        /\ adapter'.error_count = errors
    <3>1. errors \in Nat /\ 0 \in 0 .. Capacity
      BY <2>0, QueueAssumption
    <3> QED BY ONLY <2>1, <3>1
  <2>2. dma' = d /\ ~dma'.busy /\ refused' \in 0 .. MaxRefusals
    BY <1>5, UartTxAssumption
  <2> QED BY <1>5, <2>2, <2>3 DEF errors
<1> QED BY <1>3, <1>4, <1>5 DEF StartNext, TransmitDmaOk, TransmitDmaFails

-----------------------------------------------------------------------------
\* What the invariant says in numbers.
LEMMA TxNumbers ==
  ASSUME TxInv
  PROVE  /\ accepted \in Nat /\ Len(wire) \in Nat
         /\ BlockRead \in 0 .. Capacity /\ Released \in 0 .. accepted
         /\ Len(wire) = Released + BlockRead
         /\ ~dma.busy => BlockRead = 0 /\ Released = Len(wire)
         /\ Len(wire) <= accepted
         /\ Used(queue) = accepted - Released
         /\ queue.head \in Counters /\ queue.tail \in Counters
         /\ adapter.active_length \in 0 .. Capacity /\ dma.left \in 0 .. Capacity
<1>1. /\ accepted \in Nat /\ Len(wire) \in Nat
      /\ adapter.active_length \in 0 .. Capacity /\ dma.left \in 0 .. Capacity
      /\ dma.busy => dma.left <= adapter.active_length
      /\ queue.head \in Counters /\ queue.tail \in Counters
  BY UartTxAssumption DEF TxInv, AdapterInv, TypeOK, BlockIsQueued
<1>2. BlockRead \in 0 .. Capacity
  BY <1>1, QueueAssumption DEF BlockRead
<1>3. Released \in 0 .. accepted
  BY <1>1, <1>2, QueueAssumption DEF TxInv, CountersTrue, Released
<1>4. Used(queue) = accepted - Released
  BY <1>1, <1>3, UsedIsDistance DEF TxInv, CountersTrue
<1>5. Len(wire) = Released + BlockRead
  BY <1>1, <1>2, QueueAssumption DEF Released
<1>6. ~dma.busy => BlockRead = 0 /\ Released = Len(wire)
  BY <1>1 DEF BlockRead, Released
<1>7. Len(wire) <= accepted
  <2>1. CASE dma.busy
    <3>1. adapter.active_length <= accepted - Released
      BY <2>1 DEF TxInv, BlockIsQueued
    <3>2. BlockRead <= adapter.active_length
      BY <1>1, QueueAssumption DEF BlockRead
    <3> QED BY <1>1, <1>2, <1>3, <1>5, <3>1, <3>2, QueueAssumption
  <2>2. CASE ~dma.busy
    BY <1>3, <1>6, <2>2
  <2> QED BY <2>1, <2>2
<1> QED BY <1>1, <1>2, <1>3, <1>4, <1>5, <1>6, <1>7

\* The interrupt finds its block active and in the queue.
LEMMA CompletionExpected ==
  ASSUME TxInv, dma.busy
  PROVE  /\ adapter.active /\ adapter.active_length # 0
         /\ ~(adapter.active_length > Used(queue)) /\ ~(Used(queue) > Capacity)
<1>1. adapter.active /\ adapter.active_length > 0
  BY DEF TxInv, AdapterInv
<1>2. adapter.active_length <= accepted - Released /\ accepted - Released <= Capacity
  BY DEF TxInv, BlockIsQueued, CountersTrue
<1> QED BY <1>1, <1>2, TxNumbers, QueueAssumption

\* start_next keeps the invariant, called with nothing active on a queue that
\* has let go of everything sent.
LEMMA StartNextInv ==
  ASSUME TxInv, NEW q,
         NEW a \in [active : BOOLEAN, active_length : 0 .. Capacity, error_count : Nat],
         NEW d \in [busy : BOOLEAN, index : 0 .. Capacity, left : 0 .. Capacity],
         queue' = q,
         q \in [buffer : [Slots -> 0 .. MaxBytes], head : Counters, tail : Counters],
         q.buffer = queue.buffer, q.head = queue.head, q.tail = Counter(Len(wire)),
         UNCHANGED <<accepted, wire>>,
         writer' = writer \/ writer' = NoWrite,
         a.error_count = refused, ~a.active, ~d.busy,
         StartNext(q, a, d)
  PROVE  TxInv'
<1>0. /\ refused \in 0 .. MaxRefusals
      /\ Released <= Len(wire) /\ Len(wire) <= accepted
      /\ accepted - Len(wire) <= Capacity
  <2>1. refused \in 0 .. MaxRefusals
    BY DEF TxInv, AdapterInv, TypeOK
  <2>2. accepted - Released <= Capacity
    BY DEF TxInv, CountersTrue
  <2>3. /\ accepted \in Nat /\ Len(wire) \in Nat /\ Len(wire) <= accepted
        /\ Released \in 0 .. accepted /\ BlockRead \in 0 .. Capacity
        /\ Len(wire) = Released + BlockRead
    BY TxNumbers
  <2>4. Capacity \in Nat
    BY QueueAssumption
  <2>5. Released <= Len(wire) /\ accepted - Len(wire) <= Capacity
    BY ONLY <2>2, <2>3, <2>4
  <2> QED BY ONLY <2>1, <2>3, <2>5
<1>1. q.head = Counter(accepted)
  BY DEF TxInv, CountersTrue
<1>2. /\ adapter' \in [active : BOOLEAN, active_length : 0 .. Capacity, error_count : Nat]
      /\ dma' \in [busy : BOOLEAN, index : 0 .. Capacity, left : 0 .. Capacity]
      /\ refused' \in 0 .. MaxRefusals
      /\ adapter'.error_count = refused'
      /\ adapter'.active <=> dma'.busy
      /\ adapter'.active => adapter'.active_length > 0
      /\ dma'.busy => /\ dma'.left = adapter'.active_length
                      /\ adapter'.active_length <= accepted - Len(wire)
                      /\ Slot(q.tail) + adapter'.active_length <= Capacity
                      /\ dma'.index = Slot(q.tail)
  <2>1. accepted \in Nat /\ Len(wire) \in Nat
    BY TxNumbers
  <2> QED BY <1>0, <1>1, <2>1, StartNextKeeps
<1>3. writer' \in [pc : {"none", "copying", "starting"}, head : Counters,
                   length : 0 .. Capacity, todo : SUBSET (0 .. Capacity - 1)]
  <2>1. CASE writer' = writer
    BY <2>1 DEF TxInv, AdapterInv, TypeOK
  <2>2. CASE writer' = NoWrite
    <3>1. 0 \in Counters /\ 0 \in 0 .. Capacity
      BY QueueAssumption DEF Counters
    <3> QED BY ONLY <2>2, <3>1 DEF NoWrite
  <2> QED BY <2>1, <2>2
<1>4. AdapterInv'
  BY <1>2, <1>3 DEF TxInv, AdapterInv, TypeOK
<1>5. BlockRead' = 0 /\ Released' = Len(wire)
  BY <1>2, TxNumbers DEF BlockRead, Released
<1>6. CountersTrue'
  BY <1>0, <1>1, <1>5, TxNumbers DEF CountersTrue
<1>7. BlockIsQueued'
  <2>1. Slot(q.tail) \in Int
    BY TxNumbers, CounterTyped, QueueAssumption DEF Slots
  <2> QED BY <1>2, <1>5, <2>1 DEF BlockIsQueued
<1>8. PublishedStored'
  BY <1>0, <1>5, TxNumbers DEF TxInv, PublishedStored
<1>9. WriteHasRoom'
  <2>1. CASE writer' = NoWrite
    BY <2>1 DEF WriteHasRoom, NoWrite
  <2>2. CASE writer' = writer
    <3>1. writer.length \in Nat
      BY QueueAssumption DEF TxInv, AdapterInv, TypeOK
    <3>2. SUFFICES ASSUME writer.pc = "copying"
                   PROVE  /\ accepted + writer.length - Len(wire) <= Capacity
                          /\ WriteHasRoom
      BY <1>5, <2>2 DEF WriteHasRoom
    <3>3. accepted + writer.length - Released <= Capacity
      BY <3>2 DEF TxInv, WriteHasRoom
    <3>4. accepted + writer.length - Len(wire) <= Capacity
      <4>1. /\ accepted \in Nat /\ Len(wire) \in Nat /\ Released \in Int
            /\ Capacity \in Nat /\ Released <= Len(wire)
        BY <1>0, TxNumbers, QueueAssumption
      <4> QED BY ONLY <3>1, <3>3, <4>1
    <3> QED BY <3>4 DEF TxInv
  <2> QED BY <2>1, <2>2
<1>10. WireInOrder'
  BY DEF TxInv, WireInOrder
<1> QED BY <1>4, <1>6, <1>7, <1>8, <1>9, <1>10 DEF TxInv

-----------------------------------------------------------------------------
\* Poll and the end of a write.
LEMMA MainStartsInv ==
  ASSUME TxInv, StartNext(queue, adapter, dma),
         UNCHANGED <<queue, accepted, wire>>,
         writer' = writer \/ writer' = NoWrite
  PROVE  TxInv'
<1>0. /\ adapter \in [active : BOOLEAN, active_length : 0 .. Capacity, error_count : Nat]
      /\ dma \in [busy : BOOLEAN, index : 0 .. Capacity, left : 0 .. Capacity]
      /\ queue \in [buffer : [Slots -> 0 .. MaxBytes], head : Counters, tail : Counters]
      /\ adapter.error_count = refused
      /\ adapter.active <=> dma.busy
  BY DEF TxInv, AdapterInv, TypeOK
<1>1. CASE adapter.active
  <2>1. adapter' = adapter /\ dma' = dma /\ refused' = refused
    BY <1>1 DEF StartNext
  <2>2. Released' = Released /\ BlockRead' = BlockRead
    BY <2>1 DEF Released, BlockRead
  <2>3. AdapterInv'
    BY <2>1, QueueAssumption DEF TxInv, AdapterInv, TypeOK, NoWrite, Counters
  <2>4. CountersTrue' /\ BlockIsQueued' /\ PublishedStored' /\ WireInOrder'
    BY <2>1, <2>2 DEF TxInv, CountersTrue, BlockIsQueued, PublishedStored, WireInOrder
  <2>5. WriteHasRoom'
    BY <2>2 DEF TxInv, WriteHasRoom, NoWrite
  <2> QED BY <2>3, <2>4, <2>5 DEF TxInv
<1>2. CASE ~adapter.active
  <2>1. queue.tail = Counter(Len(wire))
    BY <1>0, <1>2, TxNumbers DEF TxInv, CountersTrue
  <2> QED BY <1>0, <1>2, <2>1, StartNextInv
<1> QED BY <1>1, <1>2

\* A write begins with room for its block after the published bytes.
LEMMA WriteBeginInv ==
  ASSUME TxInv, NEW n \in 1 .. Capacity, WriteBegin(n)
  PROVE  TxInv'
<1>1. /\ UNCHANGED <<queue, adapter, dma, accepted, refused, wire>>
      /\ writer' = [pc |-> "copying", head |-> queue.head, length |-> n,
                    todo |-> 0 .. n - 1]
      /\ accepted + n <= MaxBytes
  BY DEF WriteBegin
<1>2. accepted + n - Released <= Capacity
  <2>1. n <= Capacity - Used(queue)
    BY DEF WriteBegin, Fits
  <2> QED BY <2>1, TxNumbers, QueueAssumption
<1>3. Released' = Released /\ BlockRead' = BlockRead
  BY <1>1 DEF Released, BlockRead
<1>4. AdapterInv'
  <2>1. writer' \in [pc : {"none", "copying", "starting"}, head : Counters,
                     length : 0 .. Capacity, todo : SUBSET (0 .. Capacity - 1)]
    BY <1>1, TxNumbers, QueueAssumption
  <2> QED BY <1>1, <2>1 DEF TxInv, AdapterInv, TypeOK
<1>5. CountersTrue' /\ BlockIsQueued' /\ PublishedStored' /\ WireInOrder'
  BY <1>1, <1>3 DEF TxInv, CountersTrue, BlockIsQueued, PublishedStored, WireInOrder
<1>6. WriteHasRoom'
  BY <1>1, <1>2, <1>3 DEF WriteHasRoom
<1> QED BY <1>4, <1>5, <1>6 DEF TxInv

\* A byte being copied goes to a slot that is neither a published byte's nor
\* another byte's of the same write.
LEMMA CopyTarget ==
  ASSUME TxInv, NEW i \in 0 .. Capacity - 1, CopyByte(i)
  PROVE  /\ i \in 0 .. writer.length - 1
         /\ Slot(writer.head + i) = (accepted + i) % Capacity
         /\ ((accepted + i) % Capacity) \in Slots
         /\ \A n \in Released .. accepted - 1 : n % Capacity # (accepted + i) % Capacity
         /\ \A j \in 0 .. writer.length - 1 :
              j # i => (accepted + j) % Capacity # (accepted + i) % Capacity
<1>1. /\ i \in 0 .. writer.length - 1
      /\ writer.head = Counter(accepted)
      /\ accepted + writer.length - Released <= Capacity
  BY DEF CopyByte, TxInv, WriteHasRoom, CountersTrue
<1>2. /\ writer.length \in Nat /\ i \in Nat /\ i < writer.length
      /\ accepted \in Nat /\ Capacity \in Nat /\ Capacity \in Nat \ {0}
      /\ Released \in Nat /\ Released <= accepted
  <2>1. writer.length \in Nat
    BY QueueAssumption DEF TxInv, AdapterInv, TypeOK
  <2>2. accepted \in Nat /\ Released \in Nat /\ Released <= accepted
    BY TxNumbers
  <2>3. Capacity \in Nat /\ Capacity \in Nat \ {0}
    BY QueueAssumption
  <2> QED BY <1>1, <2>1, <2>2, <2>3
<1>3. writer.length <= Capacity
  BY ONLY <1>1, <1>2
<1>4. Slot(writer.head + i) = (accepted + i) % Capacity
  <2>1. accepted \in Nat /\ i \in Int
    BY ONLY <1>2
  <2>2. Slot(Counter(accepted) + i) = (accepted + i) % Capacity
    BY ONLY <2>1, SlotFromCounter
  <2> QED BY ONLY <1>1, <2>2
<1>5. ((accepted + i) % Capacity) \in Slots
  <2>1. accepted + i \in Nat
    BY ONLY <1>2
  <2> QED BY ONLY <2>1, CounterTyped
<1>6. ASSUME NEW n \in Released .. accepted - 1
      PROVE  n % Capacity # (accepted + i) % Capacity
  <2>0. n \in Int /\ Released <= n /\ n < accepted
    BY <1>2
  <2>1. n \in Int /\ accepted + i \in Int /\ n < accepted + i
        /\ (accepted + i) - n < Capacity
    BY ONLY <1>1, <1>2, <2>0
  <2>2. Capacity \in Nat \ {0}
    BY <1>2
  <2> QED BY ONLY <2>1, <2>2, RemaindersDiffer
<1>7. ASSUME NEW j \in 0 .. writer.length - 1, j # i
      PROVE  (accepted + j) % Capacity # (accepted + i) % Capacity
  <2>1. /\ accepted + i \in Int /\ accepted + j \in Int /\ Capacity \in Nat \ {0}
        /\ j \in Nat /\ j < writer.length
    BY <1>2
  <2>2. CASE j < i
    <3>1. accepted + j < accepted + i /\ (accepted + i) - (accepted + j) < Capacity
      BY ONLY <1>2, <1>3, <2>1, <2>2
    <3> QED BY ONLY <2>1, <3>1, RemaindersDiffer
  <2>3. CASE i < j
    <3>1. accepted + i < accepted + j /\ (accepted + j) - (accepted + i) < Capacity
      BY ONLY <1>2, <1>3, <2>1, <2>3
    <3> QED BY ONLY <2>1, <3>1, RemaindersDiffer
  <2>4. j < i \/ i < j
    BY ONLY <1>2, <1>7, <2>1
  <2> QED BY <2>2, <2>3, <2>4
<1> QED BY <1>1, <1>4, <1>5, <1>6, <1>7

\* Storing a byte of the block disturbs no queued byte.
LEMMA CopyByteInv ==
  ASSUME TxInv, NEW i \in 0 .. Capacity - 1, CopyByte(i)
  PROVE  TxInv'
<1> DEFINE s == (accepted + i) % Capacity
<1> DEFINE v == accepted + i + 1
<1>1. /\ i \in 0 .. writer.length - 1 /\ s \in Slots
      /\ Slot(writer.head + i) = s
      /\ \A n \in Released .. accepted - 1 : n % Capacity # s
      /\ \A j \in 0 .. writer.length - 1 : j # i => (accepted + j) % Capacity # s
  BY CopyTarget
<1>2. /\ queue \in [buffer : [Slots -> 0 .. MaxBytes], head : Counters, tail : Counters]
      /\ writer \in [pc : {"none", "copying", "starting"}, head : Counters,
                     length : 0 .. Capacity, todo : SUBSET (0 .. Capacity - 1)]
      /\ accepted \in 0 .. MaxBytes
  BY DEF TxInv, AdapterInv, TypeOK
<1>3. /\ writer.pc = "copying" /\ i \in writer.todo
      /\ writer.head = queue.head
      /\ accepted + writer.length <= MaxBytes
      /\ accepted + writer.length - Released <= Capacity
      /\ writer.todo \subseteq 0 .. writer.length - 1
      /\ \A j \in (0 .. writer.length - 1) \ writer.todo :
           queue.buffer[(accepted + j) % Capacity] = accepted + j + 1
  BY DEF CopyByte, TxInv, WriteHasRoom
<1>4. v \in 0 .. MaxBytes
  BY <1>1, <1>2, <1>3, UartTxAssumption
<1>5. /\ queue' = [queue EXCEPT !.buffer[s] = v]
      /\ writer' = [writer EXCEPT !.todo = @ \ {i}]
      /\ UNCHANGED <<adapter, dma, accepted, refused, wire>>
  BY <1>1 DEF CopyByte
<1> HIDE DEF v
<1>6. /\ queue' \in [buffer : [Slots -> 0 .. MaxBytes], head : Counters, tail : Counters]
      /\ queue'.head = queue.head /\ queue'.tail = queue.tail
      /\ queue'.buffer[s] = v
      /\ \A x \in Slots : x # s => queue'.buffer[x] = queue.buffer[x]
  BY <1>1, <1>2, <1>4, <1>5
<1>7. /\ writer' \in [pc : {"none", "copying", "starting"}, head : Counters,
                      length : 0 .. Capacity, todo : SUBSET (0 .. Capacity - 1)]
      /\ writer'.pc = writer.pc /\ writer'.head = writer.head
      /\ writer'.length = writer.length /\ writer'.todo = writer.todo \ {i}
  BY <1>2, <1>5
<1>8. Released' = Released /\ BlockRead' = BlockRead
  BY <1>5 DEF Released, BlockRead
<1>9. AdapterInv'
  BY <1>5, <1>6, <1>7 DEF TxInv, AdapterInv, TypeOK
<1>10. CountersTrue' /\ BlockIsQueued' /\ WireInOrder'
  BY <1>5, <1>6, <1>8 DEF TxInv, CountersTrue, BlockIsQueued, WireInOrder
<1>11. PublishedStored'
  <2>1. SUFFICES ASSUME NEW n \in Released .. accepted - 1
                 PROVE  queue'.buffer[n % Capacity] = n + 1
    BY <1>5, <1>8 DEF PublishedStored
  <2>2. queue.buffer[n % Capacity] = n + 1
    BY DEF TxInv, PublishedStored
  <2>3. n % Capacity # s
    BY <1>1
  <2>4. n \in Nat
    BY TxNumbers
  <2>5. (n % Capacity) \in Slots
    BY <2>4, CounterTyped
  <2> QED BY <1>6, <2>2, <2>3, <2>5
<1>12. WriteHasRoom'
  <2>1. SUFFICES ASSUME NEW j \in (0 .. writer.length - 1) \ (writer.todo \ {i})
                 PROVE  queue'.buffer[(accepted + j) % Capacity] = accepted + j + 1
    BY <1>3, <1>5, <1>6, <1>7, <1>8 DEF WriteHasRoom
  <2>2. CASE j = i
    BY <1>6, <2>2 DEF v
  <2>3. CASE j # i
    <3>1. queue.buffer[(accepted + j) % Capacity] = accepted + j + 1
      BY <1>3, <2>3
    <3>2. (accepted + j) % Capacity # s
      BY <1>1, <2>3
    <3>3. accepted + j \in Nat
      BY TxNumbers
    <3>4. ((accepted + j) % Capacity) \in Slots
      BY <3>3, CounterTyped
    <3> QED BY <1>6, <3>1, <3>2, <3>4
  <2> QED BY <2>2, <2>3
<1> QED BY <1>9, <1>10, <1>11, <1>12 DEF TxInv

\* The new head counts the block, and every byte of it is in place.
LEMMA PublishInv ==
  ASSUME TxInv, Publish
  PROVE  TxInv'
<1> DEFINE total == accepted + writer.length
<1>1. /\ queue \in [buffer : [Slots -> 0 .. MaxBytes], head : Counters, tail : Counters]
      /\ writer.length \in 0 .. Capacity
  BY DEF TxInv, AdapterInv, TypeOK
<1>2. /\ accepted \in Nat /\ Released \in Nat /\ Released <= accepted
      /\ writer.length \in Nat
  BY <1>1, TxNumbers, QueueAssumption
<1>3. /\ writer.head = queue.head /\ queue.head = Counter(accepted)
      /\ queue.tail = Counter(Released)
      /\ total <= MaxBytes
      /\ total - Released <= Capacity
      /\ \A j \in 0 .. writer.length - 1 :
           queue.buffer[(accepted + j) % Capacity] = accepted + j + 1
  <2>0. writer.pc = "copying"
    BY DEF Publish
  <2>1. writer.pc = "copying" /\ writer.todo = {}
    BY DEF Publish
  <2>2. /\ writer.head = queue.head /\ queue.head = Counter(accepted)
        /\ queue.tail = Counter(Released)
    BY <2>1 DEF TxInv, WriteHasRoom, CountersTrue
  <2>4. total <= MaxBytes /\ total - Released <= Capacity
    <3>1. accepted + writer.length <= MaxBytes
          /\ accepted + writer.length - Released <= Capacity
      BY <2>0 DEF TxInv, WriteHasRoom
    <3> QED BY ONLY <1>2, <3>1 DEF total
  <2>3. ASSUME NEW j \in 0 .. writer.length - 1
        PROVE  queue.buffer[(accepted + j) % Capacity] = accepted + j + 1
    <3>1. j \in (0 .. writer.length - 1) \ writer.todo
      BY <2>1
    <3> QED BY <2>1, <3>1 DEF TxInv, WriteHasRoom
  <2> HIDE DEF total
  <2> QED BY ONLY <2>2, <2>3, <2>4
<1>4. total \in 0 .. MaxBytes /\ accepted <= total /\ Released <= total
  <2>1. total <= MaxBytes /\ MaxBytes \in Nat
    BY <1>3, UartTxAssumption
  <2> QED BY ONLY <1>2, <2>1
<1>5. Advance(writer.head, writer.length) = Counter(total)
  BY <1>3, <1>2, CounterAdvances
<1>6. Counter(total) \in Counters
  BY <1>4, CounterTyped
<1>7. /\ queue' = [queue EXCEPT !.head = Counter(total)]
      /\ accepted' = total
      /\ writer' = [NoWrite EXCEPT !.pc = "starting"]
      /\ UNCHANGED <<adapter, dma, refused, wire>>
  BY <1>5 DEF Publish
<1> HIDE DEF total
<1>8. /\ queue' \in [buffer : [Slots -> 0 .. MaxBytes], head : Counters, tail : Counters]
      /\ queue'.head = Counter(total) /\ queue'.tail = queue.tail
      /\ queue'.buffer = queue.buffer
  BY <1>1, <1>6, <1>7
<1>9. writer' = [pc |-> "starting", head |-> 0, length |-> 0, todo |-> {}]
  BY <1>7 DEF NoWrite
<1>10. Released' = Released /\ BlockRead' = BlockRead
  BY <1>7 DEF Released, BlockRead
<1>11. AdapterInv'
  <2>1. writer' \in [pc : {"none", "copying", "starting"}, head : Counters,
                     length : 0 .. Capacity, todo : SUBSET (0 .. Capacity - 1)]
    BY <1>9, QueueAssumption DEF Counters
  <2> QED BY <1>4, <1>7, <1>8, <2>1 DEF TxInv, AdapterInv, TypeOK
<1>12. CountersTrue'
  <2>1. 0 <= Released
    BY <1>2
  <2> QED BY <1>3, <1>4, <1>7, <1>8, <1>10, <2>1 DEF CountersTrue
<1>13. BlockIsQueued'
  <2>1. SUFFICES ASSUME dma.busy
                 PROVE  /\ dma.left <= adapter.active_length
                        /\ adapter.active_length <= total - Released
                        /\ Slot(queue.tail) + adapter.active_length <= Capacity
                        /\ dma.index = Slot(queue.tail) + BlockRead
    BY <1>7, <1>8, <1>10 DEF BlockIsQueued
  <2>2. /\ dma.left <= adapter.active_length
        /\ adapter.active_length <= accepted - Released
        /\ Slot(queue.tail) + adapter.active_length <= Capacity
        /\ dma.index = Slot(queue.tail) + BlockRead
    BY <2>1 DEF TxInv, BlockIsQueued
  <2>3. adapter.active_length \in Int
    BY TxNumbers
  <2>4. adapter.active_length <= total - Released
    BY ONLY <1>2, <1>4, <2>2, <2>3 DEF total
  <2> QED BY <2>2, <2>4
<1>14. PublishedStored'
  <2>1. SUFFICES ASSUME NEW n \in Released .. total - 1
                 PROVE  queue.buffer[n % Capacity] = n + 1
    BY <1>7, <1>8, <1>10 DEF PublishedStored
  <2>2. CASE n < accepted
    <3>1. n \in Released .. accepted - 1
      BY <1>2, <1>4, <2>2
    <3> QED BY <3>1 DEF TxInv, PublishedStored
  <2>3. CASE n >= accepted
    <3>1. n - accepted \in 0 .. writer.length - 1 /\ accepted + (n - accepted) = n
      BY <1>2, <1>4, <2>3 DEF total
    <3> QED BY <1>3, <3>1
  <2> QED BY <1>2, <1>4, <2>2, <2>3
<1>15. WriteHasRoom' /\ WireInOrder'
  BY <1>7, <1>9 DEF WriteHasRoom, TxInv, WireInOrder
<1> QED BY <1>11, <1>12, <1>13, <1>14, <1>15 DEF TxInv

\* The DMA reads the byte after the last one sent.
LEMMA DmaByteInv ==
  ASSUME TxInv, DmaByte
  PROVE  TxInv'
<1> DEFINE n == Len(wire)
<1>1. /\ dma \in [busy : BOOLEAN, index : 0 .. Capacity, left : 0 .. Capacity]
      /\ wire \in Seq(0 .. MaxBytes)
      /\ queue \in [buffer : [Slots -> 0 .. MaxBytes], head : Counters, tail : Counters]
      /\ dma.busy /\ dma.left > 0
  BY DEF DmaByte, TxInv, AdapterInv, TypeOK
<1>2. /\ dma.left <= adapter.active_length
      /\ adapter.active_length <= accepted - Released
      /\ Slot(queue.tail) + adapter.active_length <= Capacity
      /\ dma.index = Slot(queue.tail) + BlockRead
      /\ queue.tail = Counter(Released)
  BY <1>1 DEF TxInv, BlockIsQueued, CountersTrue
<1>3. /\ accepted \in Nat /\ n \in Nat /\ BlockRead \in Nat /\ Released \in Nat
      /\ n = Released + BlockRead /\ Released <= accepted
      /\ adapter.active_length \in Nat /\ dma.left \in Nat /\ Capacity \in Nat
      /\ BlockRead = adapter.active_length - dma.left
  BY <1>1, TxNumbers, QueueAssumption DEF BlockRead
<1>4. Slot(queue.tail) = Released % Capacity /\ (Released % Capacity) \in Slots
  BY <1>2, <1>3, CounterTyped
<1>5. Slot(queue.tail) \in Nat
  BY <1>3, <1>4 DEF Slots
<1>6. Slot(queue.tail) + BlockRead < Capacity /\ n < accepted
  <2>1. dma.left > 0
    BY <1>1
  <2> HIDE DEF n
  <2> QED BY ONLY <1>2, <1>3, <1>5, <2>1
<1>7. n % Capacity = dma.index
  <2>1. (Released % Capacity) + BlockRead < Capacity
    BY <1>4, <1>6
  <2>2. (Released + BlockRead) % Capacity = (Released % Capacity) + BlockRead
    BY <1>3, <2>1, SlotOfNext
  <2> QED BY <1>2, <1>3, <1>4, <2>2
<1>8. queue.buffer[dma.index] = n + 1 /\ dma.index \in Slots
  <2>1. n \in Released .. accepted - 1
    BY <1>3, <1>6
  <2>2. queue.buffer[n % Capacity] = n + 1
    BY <2>1 DEF TxInv, PublishedStored
  <2>3. dma.index \in Slots
    <3>1. /\ dma.index = Slot(queue.tail) + BlockRead /\ Slot(queue.tail) \in Nat
          /\ Slot(queue.tail) + BlockRead < Capacity
          /\ BlockRead \in Nat /\ Capacity \in Nat
      BY <1>2, <1>3, <1>5, <1>6
    <3> QED BY ONLY <3>1 DEF Slots
  <2> QED BY <1>7, <2>2, <2>3
<1>9. n + 1 \in 0 .. MaxBytes
  BY <1>1, <1>8
<1>10. /\ wire' = Append(wire, n + 1)
       /\ dma' = [dma EXCEPT !.index = @ + 1, !.left = @ - 1]
       /\ UNCHANGED <<queue, adapter, writer, accepted, refused>>
  BY <1>8 DEF DmaByte
<1>11. /\ wire' \in Seq(0 .. MaxBytes) /\ Len(wire') = n + 1
       /\ wire'[n + 1] = n + 1
       /\ \A i \in 1 .. n : wire'[i] = wire[i]
  BY <1>1, <1>9, <1>10
<1>12. /\ dma'.busy /\ dma'.index = dma.index + 1 /\ dma'.left = dma.left - 1
  BY <1>1, <1>10
<1>13. dma' \in [busy : BOOLEAN, index : 0 .. Capacity, left : 0 .. Capacity]
  <2> DEFINE x == dma.index + 1
  <2> DEFINE l == dma.left - 1
  <2>1. x \in 0 .. Capacity /\ l \in 0 .. Capacity
    <3>1. dma.index \in 0 .. Capacity - 1 /\ dma.left \in 0 .. Capacity
          /\ dma.left > 0 /\ Capacity \in Nat
      BY <1>1, <1>3, <1>8 DEF Slots
    <3> QED BY ONLY <3>1
  <2>2. dma' = [dma EXCEPT !.index = x, !.left = l]
    BY <1>10
  <2> HIDE DEF x, l
  <2> QED BY <1>1, <2>1, <2>2
<1> HIDE DEF n
<1>14. BlockRead' = BlockRead + 1 /\ Released' = Released
  <2>1. BlockRead' = adapter.active_length - (dma.left - 1)
    BY <1>10, <1>12 DEF BlockRead
  <2>2. BlockRead' = BlockRead + 1
    BY ONLY <1>3, <2>1
  <2>3. Released' = (n + 1) - (BlockRead + 1)
    BY <1>11, <2>2 DEF Released
  <2> QED BY ONLY <1>3, <2>2, <2>3
<1>15. AdapterInv'
  BY <1>1, <1>10, <1>11, <1>12, <1>13 DEF TxInv, AdapterInv, TypeOK
<1>16. CountersTrue' /\ PublishedStored' /\ WriteHasRoom'
  BY <1>10, <1>14 DEF TxInv, CountersTrue, PublishedStored, WriteHasRoom
<1>17. BlockIsQueued'
  <2>1. dma.left - 1 <= adapter.active_length
        /\ dma.index + 1 = Slot(queue.tail) + (BlockRead + 1)
    BY ONLY <1>2, <1>3, <1>5
  <2> QED BY <1>2, <1>10, <1>12, <1>14, <2>1 DEF BlockIsQueued
<1>18. WireInOrder'
  <2>1. \A i \in 1 .. n : wire[i] = i
    BY DEF n, TxInv, WireInOrder
  <2>2. \A i \in 1 .. n + 1 : wire'[i] = i
    BY <1>3, <1>11, <2>1
  <2> QED BY <1>11, <2>2 DEF WireInOrder
<1> QED BY <1>15, <1>16, <1>17, <1>18 DEF TxInv

\* The interrupt releases exactly the bytes sent, then starts the next block.
LEMMA TxCompleteInv ==
  ASSUME TxInv, TxComplete
  PROVE  TxInv'
<1> DEFINE a == [adapter EXCEPT !.active = FALSE, !.active_length = 0]
<1>1. /\ dma.busy /\ dma.left = 0
  BY DEF TxComplete
<1>2. /\ adapter.active /\ adapter.active_length # 0
      /\ ~(adapter.active_length > Used(queue)) /\ ~(Used(queue) > Capacity)
  BY <1>1, CompletionExpected
<1>3. /\ queue' = [queue EXCEPT !.tail = Advance(@, adapter.active_length)]
      /\ StartNext(queue', a, NoTransfer)
      /\ UNCHANGED <<writer, accepted, wire>>
  BY <1>2 DEF TxComplete
<1>4. /\ adapter \in [active : BOOLEAN, active_length : 0 .. Capacity, error_count : Nat]
      /\ queue \in [buffer : [Slots -> 0 .. MaxBytes], head : Counters, tail : Counters]
      /\ adapter.error_count = refused
  BY DEF TxInv, AdapterInv, TypeOK
<1>5. queue.tail = Counter(Released)
  BY DEF TxInv, CountersTrue
<1>6. Released \in Nat /\ adapter.active_length \in Nat /\ Len(wire) \in Nat
      /\ Released + adapter.active_length = Len(wire)
  <2>1. /\ Released \in Nat /\ adapter.active_length \in Nat /\ Len(wire) \in Nat
        /\ Len(wire) = Released + BlockRead
    BY TxNumbers, QueueAssumption
  <2>2. BlockRead = adapter.active_length
    BY <1>1, <2>1 DEF BlockRead
  <2> QED BY <2>1, <2>2
<1>7. Advance(queue.tail, adapter.active_length) = Counter(Len(wire))
  BY <1>5, <1>6, CounterAdvances
<1>8. Counter(Len(wire)) \in Counters
  BY <1>6, CounterTyped
<1>9. /\ queue' \in [buffer : [Slots -> 0 .. MaxBytes], head : Counters, tail : Counters]
      /\ queue'.buffer = queue.buffer /\ queue'.head = queue.head
      /\ queue'.tail = Counter(Len(wire))
  BY <1>3, <1>4, <1>7, <1>8
<1>10. /\ a \in [active : BOOLEAN, active_length : 0 .. Capacity, error_count : Nat]
       /\ a.error_count = refused /\ ~a.active
  <2>1. 0 \in 0 .. Capacity /\ FALSE \in BOOLEAN
    BY QueueAssumption
  <2>2. a \in [active : BOOLEAN, active_length : 0 .. Capacity, error_count : Nat]
    BY <1>4, <2>1
  <2>3. a.active = FALSE
    BY <1>4
  <2>4. a.error_count = adapter.error_count
    BY <1>4
  <2> QED BY <1>4, <2>2, <2>3, <2>4
<1>11. /\ NoTransfer \in [busy : BOOLEAN, index : 0 .. Capacity, left : 0 .. Capacity]
       /\ ~NoTransfer.busy
  BY QueueAssumption DEF NoTransfer
<1> HIDE DEF a
<1>12. QED
  BY <1>3, <1>9, <1>10, <1>11, StartNextInv

\* The invariant holds at the start.
LEMMA TxInvInit == Init => TxInv
<1> SUFFICES ASSUME Init PROVE TxInv
  OBVIOUS
<1> USE QueueAssumption, UartTxAssumption
<1>1. Len(wire) = 0 /\ BlockRead = 0 /\ Released = 0
  BY DEF Init, NoTransfer, BlockRead, Released
<1>2. Counter(0) = 0
  <2>1. (CountMod * 0 + 0) % CountMod = 0
    <3>1. CountMod \in Nat \ {0} /\ 0 \in 0 .. CountMod - 1
      OBVIOUS
    <3> QED BY <3>1, RemainderIs
  <2> QED BY <2>1 DEF Counter
<1>3. AdapterInv
  BY DEF Init, AdapterInv, TypeOK, EmptyQueue, NoTransfer, NoWrite, Counters, Slots
<1>4. CountersTrue /\ BlockIsQueued /\ PublishedStored /\ WriteHasRoom /\ WireInOrder
  BY <1>1, <1>2 DEF Init, EmptyQueue, NoTransfer, NoWrite, CountersTrue,
     BlockIsQueued, PublishedStored, WriteHasRoom, WireInOrder
<1> QED BY <1>3, <1>4 DEF TxInv

\* Every step keeps the invariant.
LEMMA TxInvNext == TxInv /\ [Next]_vars => TxInv'
<1> SUFFICES ASSUME TxInv, [Next]_vars PROVE TxInv'
  OBVIOUS
<1>1. CASE Poll
  BY <1>1, MainStartsInv DEF Poll
<1>2. ASSUME NEW n \in 1 .. Capacity, WriteBegin(n) PROVE TxInv'
  BY <1>2, WriteBeginInv
<1>3. ASSUME NEW i \in 0 .. Capacity - 1, CopyByte(i) PROVE TxInv'
  BY <1>3, CopyByteInv
<1>4. CASE Publish
  BY <1>4, PublishInv
<1>5. CASE WriteEnd
  BY <1>5, MainStartsInv DEF WriteEnd
<1>6. CASE DmaByte
  BY <1>6, DmaByteInv
<1>7. CASE TxComplete
  BY <1>7, TxCompleteInv
<1>8. CASE UNCHANGED vars
  BY <1>8 DEF vars, TxInv, AdapterInv, TypeOK, CountersTrue, BlockIsQueued,
     PublishedStored, WriteHasRoom, WireInOrder, Released, BlockRead
<1> QED BY <1>1, <1>2, <1>3, <1>4, <1>5, <1>6, <1>7, <1>8 DEF Next

-----------------------------------------------------------------------------
\* Every behaviour keeps the counters, the block, the copy and the buffer in
\* step with the numbers of bytes accepted and sent.
THEOREM TransmitInvariant == Spec => []TxInv
<1> QED BY TxInvInit, TxInvNext, PTL DEF Spec

\* uart_tx_adapter_start_next and _handle_tx_complete: the adapter is active
\* exactly while the hardware is, and it counts only refused starts.
THEOREM AdapterIsExact == Spec => []AdapterInv
<1>1. TxInv => AdapterInv
  BY DEF TxInv
<1> QED BY <1>1, TransmitInvariant, PTL

\* spsc_byte_queue_write, _peek and _release: the DMA sends the accepted bytes
\* in order, whatever the size of the buffer and the width of the counters.
THEOREM WireIsInOrder == Spec => []WireInOrder
<1>1. TxInv => WireInOrder
  BY DEF TxInv
<1> QED BY <1>1, TransmitInvariant, PTL

\* spsc_byte_queue_write stores no byte into the block uart_tx_adapter_start_next
\* gave to the DMA, as far as it is still to be read.
THEOREM MainSparesBlock == Spec => BlockUntouched
<1>1. TxInv /\ [Next]_vars =>
        [ \A i \in Slots :
            dma.busy /\ dma.index <= i /\ i < dma.index + dma.left
            => queue'.buffer[i] = queue.buffer[i] ]_vars
  <2> SUFFICES ASSUME TxInv, Next, NEW i \in Slots,
                      dma.busy, dma.index <= i, i < dma.index + dma.left
               PROVE  queue'.buffer[i] = queue.buffer[i]
    OBVIOUS
  <2>1. ASSUME NEW k \in 0 .. Capacity - 1, CopyByte(k)
        PROVE  queue'.buffer[i] = queue.buffer[i]
    <3> DEFINE e == i - Slot(queue.tail)
    <3>1. /\ dma.left <= adapter.active_length
          /\ adapter.active_length <= accepted - Released
          /\ Slot(queue.tail) + adapter.active_length <= Capacity
          /\ dma.index = Slot(queue.tail) + BlockRead
          /\ queue.tail = Counter(Released)
      BY DEF TxInv, BlockIsQueued, CountersTrue
    <3>2. /\ accepted \in Nat /\ Released \in Nat /\ BlockRead \in Nat
          /\ adapter.active_length \in Nat /\ dma.left \in Nat
          /\ BlockRead = adapter.active_length - dma.left
      BY TxNumbers, QueueAssumption DEF BlockRead
    <3>3. Slot(queue.tail) = Released % Capacity /\ (Released % Capacity) \in Slots
      BY <3>1, <3>2, CounterTyped
    <3>4. Slot(queue.tail) \in Nat /\ Capacity \in Nat /\ i \in Nat
      BY <3>3, QueueAssumption DEF Slots
    <3>5. e \in Nat /\ Slot(queue.tail) + e = i /\ e < adapter.active_length
      BY <3>1, <3>2, <3>4
    <3> HIDE DEF e
    <3>6. (Released % Capacity) + e = i /\ (Released % Capacity) + e < Capacity
      <4>1. (Released % Capacity) + e = i
        BY ONLY <3>3, <3>5
      <4>2. i < Capacity
        BY <3>4 DEF Slots
      <4> QED BY ONLY <4>1, <4>2
    <3>7. (Released + e) % Capacity = i
      BY <3>2, <3>5, <3>6, SlotOfNext
    <3>8. Released + e \in Released .. accepted - 1
      BY ONLY <3>1, <3>2, <3>5
    <3> DEFINE s == (accepted + k) % Capacity
    <3>9. i # s /\ Slot(writer.head + k) = s
      BY <2>1, <3>7, <3>8, CopyTarget
    <3>10. queue' = [queue EXCEPT !.buffer[s] = accepted + k + 1]
      BY <2>1, <3>9 DEF CopyByte
    <3>11. queue \in [buffer : [Slots -> 0 .. MaxBytes], head : Counters, tail : Counters]
      BY DEF TxInv, AdapterInv, TypeOK
    <3> HIDE DEF s
    <3> QED BY <3>9, <3>10, <3>11
  <2>2. CASE Publish
    <3>1. queue' = [queue EXCEPT !.head = Advance(writer.head, writer.length)]
      BY <2>2 DEF Publish
    <3> QED BY <3>1 DEF TxInv, AdapterInv, TypeOK
  <2>3. CASE TxComplete
    <3>1. queue' = queue \/ queue' = [queue EXCEPT !.tail = Advance(@, adapter.active_length)]
      BY <2>3 DEF TxComplete
    <3> QED BY <3>1 DEF TxInv, AdapterInv, TypeOK
  <2>4. CASE queue' = queue
    BY <2>4
  <2> QED BY <2>1, <2>2, <2>3, <2>4 DEF Next, Poll, WriteBegin, WriteEnd, DmaByte
<1> QED BY <1>1, TransmitInvariant, PTL DEF Spec, BlockUntouched

-----------------------------------------------------------------------------
\* The bytes from n + 1 to acc, in order.
Rest(acc, n) == [i \in 1 .. acc - n |-> n + i]

\* They are a sequence, as long as their number.
LEMMA RestIsSeq ==
  ASSUME NEW acc \in Nat, NEW n \in Nat, n <= acc
  PROVE  Rest(acc, n) \in Seq(Nat) /\ Len(Rest(acc, n)) = acc - n
<1>1. acc - n \in Nat
  OBVIOUS
<1>2. \A i \in 1 .. acc - n : n + i \in Nat
  OBVIOUS
<1> QED BY <1>1, <1>2 DEF Rest

LEMMA SecondPart ==
  ASSUME NEW a \in Seq(Nat), NEW b \in Seq(Nat)
  PROVE  \A j \in 1 .. Len(b) : (a \o b)[Len(a) + j] = b[j]
  OBVIOUS

\* More bytes accepted are more bytes at its end.
LEMMA RestGrows ==
  ASSUME NEW acc \in Nat, NEW n \in Nat, n <= acc, NEW k \in Nat
  PROVE  Rest(acc + k, n) = Rest(acc, n) \o [i \in 1 .. k |-> n + Len(Rest(acc, n)) + i]
<1> DEFINE new == [i \in 1 .. k |-> n + Len(Rest(acc, n)) + i]
<1>1. Rest(acc, n) \in Seq(Nat) /\ Len(Rest(acc, n)) = acc - n
  BY RestIsSeq
<1>2. Rest(acc + k, n) \in Seq(Nat) /\ Len(Rest(acc + k, n)) = (acc - n) + k
  <2>1. acc + k \in Nat /\ n <= acc + k /\ (acc + k) - n = (acc - n) + k
    OBVIOUS
  <2> QED BY <2>1, RestIsSeq
<1>3. new \in Seq(Nat) /\ Len(new) = k
  <2>1. \A i \in 1 .. k : n + Len(Rest(acc, n)) + i \in Nat
    BY <1>1
  <2> QED BY <2>1
<1>4. \A i \in 1 .. k : new[i] = acc + i
  <2>1. \A i \in 1 .. k : n + Len(Rest(acc, n)) + i = acc + i
    BY <1>1
  <2> QED BY <2>1
<1> HIDE DEF new
<1> DEFINE s == Rest(acc, n) \o new
<1>5. s \in Seq(Nat) /\ Len(s) = (acc - n) + k
  <2> DEFINE old == Rest(acc, n)
  <2>1. old \in Seq(Nat) /\ Len(old) = acc - n
    BY <1>1
  <2> HIDE DEF old
  <2>2. old \o new \in Seq(Nat) /\ Len(old \o new) = (acc - n) + k
    BY ONLY <1>3, <2>1, ConcatProperties
  <2> QED BY <2>2 DEF old
<1>8. \A j \in 1 .. k : s[(acc - n) + j] = new[j]
  <2> DEFINE old == Rest(acc, n)
  <2>1. old \in Seq(Nat) /\ Len(old) = acc - n
    BY <1>1
  <2> HIDE DEF old
  <2>2. \A j \in 1 .. Len(new) : (old \o new)[Len(old) + j] = new[j]
    BY ONLY <1>3, <2>1, SecondPart
  <2>3. \A j \in 1 .. k : (old \o new)[(acc - n) + j] = new[j]
    BY ONLY <1>3, <2>1, <2>2
  <2> QED BY ONLY <2>3 DEF old, s
<1>6. ASSUME NEW i \in 1 .. (acc - n) + k
      PROVE  s[i] = Rest(acc + k, n)[i]
  <2>0. (acc + k) - n = (acc - n) + k /\ i \in Int /\ acc - n \in Int
    OBVIOUS
  <2>1. Rest(acc + k, n)[i] = n + i
    BY <2>0 DEF Rest
  <2>2. CASE i <= acc - n
    <3>1. s[i] = Rest(acc, n)[i]
      BY <1>1, <1>3, <2>2
    <3> QED BY <2>1, <2>2, <3>1 DEF Rest
  <2>3. CASE i > acc - n
    <3>1. i - (acc - n) \in 1 .. k
      <4> DEFINE old == acc - n
      <4>1. old \in Int /\ k \in Nat /\ i \in 1 .. old + k /\ i > old
        BY <2>0, <2>3
      <4> HIDE DEF old
      <4>2. i - old \in 1 .. k
        BY ONLY <4>1
      <4> QED BY <4>2 DEF old
    <3>2. s[i] = new[i - (acc - n)]
      <4>1. (acc - n) + (i - (acc - n)) = i
        BY <2>0
      <4> QED BY <1>8, <3>1, <4>1
    <3> QED BY <1>4, <2>1, <3>1, <3>2
  <2>4. i <= acc - n \/ i > acc - n
    BY ONLY <2>0
  <2> HIDE DEF s
  <2> QED BY ONLY <2>2, <2>3, <2>4
<1>7. s = Rest(acc + k, n)
  BY <1>2, <1>5, <1>6, SeqEqual
<1> QED BY <1>7 DEF new

\* A byte sent is its first byte gone.
LEMMA RestShrinks ==
  ASSUME NEW acc \in Nat, NEW n \in Nat, n < acc
  PROVE  /\ Rest(acc, n) # <<>> /\ Head(Rest(acc, n)) = n + 1
         /\ Rest(acc, n + 1) = Tail(Rest(acc, n))
<1>1. Rest(acc, n) \in Seq(Nat) /\ Len(Rest(acc, n)) = acc - n
  BY RestIsSeq
<1>2. Rest(acc, n + 1) \in Seq(Nat) /\ Len(Rest(acc, n + 1)) = acc - (n + 1)
  BY RestIsSeq
<1>3. Rest(acc, n) # <<>> /\ Head(Rest(acc, n)) = n + 1
  <2>1. Rest(acc, n)[1] = n + 1
    BY DEF Rest
  <2> QED BY <1>1, <2>1
<1> DEFINE t == Tail(Rest(acc, n))
<1>4. t \in Seq(Nat) /\ Len(t) = acc - (n + 1)
  BY <1>1, <1>3
<1>5. ASSUME NEW i \in 1 .. acc - (n + 1)
      PROVE  t[i] = Rest(acc, n + 1)[i]
  <2>1. t[i] = Rest(acc, n)[i + 1]
    BY <1>1, <1>3
  <2> QED BY <2>1 DEF Rest
<1>6. t = Rest(acc, n + 1)
  BY <1>2, <1>4, <1>5, SeqEqual
<1> QED BY <1>3, <1>6

\* The mapped contents are the bytes accepted and not yet sent, in order.
LEMMA UnreadIs ==
  ASSUME TxInv
  PROVE  Unread = Rest(accepted, Len(wire))
<1>1. /\ accepted \in Nat /\ Len(wire) \in Nat /\ Released \in Nat /\ BlockRead \in Nat
      /\ Len(wire) = Released + BlockRead /\ Len(wire) <= accepted
      /\ Used(queue) = accepted - Released
  BY TxNumbers, QueueAssumption
<1>2. queue.tail = Counter(Released) /\ queue.tail \in Int
  BY TxNumbers, QueueAssumption DEF TxInv, CountersTrue, Counters
<1>3. Used(queue) - BlockRead = accepted - Len(wire)
  BY ONLY <1>1
<1>4. ASSUME NEW i \in 1 .. accepted - Len(wire)
      PROVE  queue.buffer[Slot(queue.tail + BlockRead + i - 1)] = Len(wire) + i
  <2> DEFINE e == BlockRead + (i - 1)
  <2> DEFINE n == Released + e
  <2>1. /\ e \in Int /\ n \in Released .. accepted - 1 /\ n + 1 = Len(wire) + i
        /\ queue.tail + BlockRead + i - 1 = queue.tail + e
    BY <1>1, <1>2
  <2>2. Slot(queue.tail + e) = n % Capacity
    BY <1>1, <1>2, <2>1, SlotFromCounter
  <2> HIDE DEF e, n
  <2>3. queue.buffer[n % Capacity] = n + 1
    BY <2>1 DEF TxInv, PublishedStored
  <2> QED BY <2>1, <2>2, <2>3
<1> QED BY <1>3, <1>4 DEF Unread, Rest

\* What the mapped queue holds, and that it holds no negative number of bytes.
Mapped == Unread = Rest(accepted, Len(wire)) /\ Len(wire) <= accepted

\* A step of the transmit path puts a block, takes a byte or does nothing.
LEMMA StepIsFifoStep ==
  ASSUME TxInv, Mapped, [Next]_vars, Mapped'
  PROVE  [Fifo!Next]_(Fifo!vars)
<1> DEFINE n == Len(wire)
<1>0. /\ Unread = Rest(accepted, n) /\ Unread' = Rest(accepted', n')
  BY DEF Mapped
<1>1. /\ accepted \in Nat /\ n \in Nat /\ n <= accepted /\ Released \in Nat
      /\ Released <= n /\ Capacity \in Nat
  BY TxNumbers, QueueAssumption
<1>2. Len(Unread) = accepted - n
  BY <1>0, <1>1, RestIsSeq
<1>3. CASE accepted' = accepted /\ wire' = wire
  BY <1>0, <1>3 DEF Fifo!vars
<1>4. CASE Publish
  <2> DEFINE k == writer.length
  <2>1. accepted' = accepted + k /\ wire' = wire
    BY <1>4 DEF Publish
  <2>2. k \in 0 .. Capacity /\ k \in Nat
    BY <1>1 DEF TxInv, AdapterInv, TypeOK
  <2>3. accepted + k - Released <= Capacity
    BY <1>4 DEF Publish, TxInv, WriteHasRoom
  <2>4. Len(Unread) + k <= Capacity
    <3> HIDE DEF n, k
    <3> QED BY ONLY <1>1, <1>2, <2>2, <2>3
  <2>5. Unread' = Unread \o [i \in 1 .. k |-> n + Len(Unread) + i]
    <3>1. n' = n
      BY <2>1
    <3>0. accepted \in Nat /\ n \in Nat /\ n <= accepted /\ k \in Nat
      BY <1>1, <2>2
    <3> HIDE DEF n, k
    <3>2. Rest(accepted + k, n) = Rest(accepted, n)
            \o [i \in 1 .. k |-> n + Len(Rest(accepted, n)) + i]
      BY ONLY <3>0, RestGrows
    <3>3. Unread' = Rest(accepted + k, n)
      BY <1>0, <2>1, <3>1
    <3> QED BY <1>0, <3>2, <3>3
  <2>6. CASE k = 0
    <3>1. accepted' = accepted
      BY <1>1, <2>1, <2>6
    <3> QED BY <1>3, <2>1, <3>1
  <2>7. CASE k # 0
    <3>1. k \in 1 .. Capacity
      BY <2>2, <2>7
    <3>2. Fifo!Put(k)
      BY <2>1, <2>4, <2>5 DEF Fifo!Put
    <3> QED BY <3>1, <3>2 DEF Fifo!Next
  <2> QED BY <2>6, <2>7
<1>5. CASE DmaByte
  <2>1. accepted' = accepted /\ n' = n + 1
    BY <1>5 DEF DmaByte, TxInv, AdapterInv, TypeOK
  <2>2. n' <= accepted'
    BY DEF Mapped
  <2>3. n < accepted
    BY <1>1, <2>1, <2>2
  <2>4. /\ Unread # <<>> /\ Head(Unread) = n + 1
        /\ Unread' = Tail(Unread)
    BY <1>0, <1>1, <2>1, <2>3, RestShrinks
  <2> QED BY <2>1, <2>4 DEF Fifo!Take, Fifo!Next
<1> QED BY <1>3, <1>4, <1>5 DEF Next, vars, Poll, WriteBegin, CopyByte, WriteEnd, TxComplete

\* uart_tx_adapter.c over spsc_byte_queue.c is a bounded FIFO of bytes whose
\* blocks are put whole, for every capacity, counter width and load.
THEOREM TransmitImplementsFifo == Spec => ImplementsFifo
<1>1. Init => Fifo!Init
  <2> SUFFICES ASSUME Init PROVE Fifo!Init
    OBVIOUS
  <2>1. Unread = Rest(0, 0) /\ Len(wire) = 0
    BY TxInvInit, UnreadIs DEF Init
  <2>2. Rest(0, 0) \in Seq(Nat) /\ Len(Rest(0, 0)) = 0
    BY RestIsSeq
  <2>3. Unread = <<>>
    BY <2>1, <2>2
  <2> QED BY <2>1, <2>3 DEF Fifo!Init
<1>2. TxInv => Mapped
  BY UnreadIs, TxNumbers DEF Mapped
<1>3. TxInv /\ Mapped /\ [Next]_vars /\ Mapped' => [Fifo!Next]_(Fifo!vars)
  BY StepIsFifoStep
<1> QED BY <1>1, <1>2, <1>3, TransmitInvariant, PTL DEF Spec, ImplementsFifo, Fifo!Spec

=============================================================================
