----------------------------- MODULE DmaStream -----------------------------
(***************************************************************************)
(* dma_circular_stream.c as operators on the DmaCircularStream structure.  *)
(* The producer is the circular RX DMA, of which the code sees only the    *)
(* positions its events report; produced and consumed are absolute and     *)
(* wrap.  The buffer itself belongs to the hardware (RxPath).              *)
(***************************************************************************)
EXTENDS Integers

CONSTANTS
  Capacity,  \* bytes in the DMA buffer, a power of two
  CountMod   \* values of produced and consumed: 2^32 (uint32_t) in the code

ASSUME StreamAssumption ==
  /\ Capacity \in Nat /\ Capacity >= 2 /\ Capacity % 2 = 0
  /\ CountMod \in Nat /\ CountMod > Capacity
  /\ CountMod % Capacity = 0

Counters == 0 .. CountMod - 1
Slots    == 0 .. Capacity - 1

Slot(counter) == counter % Capacity

Streams == [produced : Counters, consumed : Counters, old_position : Slots,
            overflow_count : Nat]

StreamStart == [produced |-> 0, consumed |-> 0, old_position |-> 0,
                overflow_count |-> 0]

\* What publish_position returns: the bytes since the last position, 0 when
\* the DMA is where it was.
Received(s, position) == (Slot(position) - s.old_position) % Capacity

Publish(s, position) ==
  [s EXCEPT !.produced = (@ + Received(s, position)) % CountMod,
            !.old_position = Slot(position)]

Pending(s) == (s.produced - s.consumed) % CountMod

DataLost(s) == Pending(s) > Capacity

\* Slip: the whole buffer dropped, one buffer counted.
SkipOverwrittenMiscounted(s) ==
  IF DataLost(s)
  THEN [s EXCEPT !.overflow_count = @ + Capacity,
                 !.consumed = (s.produced - Capacity) % CountMod]
  ELSE s

\* peek first leaves out, and counts, what must have been overwritten.
SkipOverwritten(s) ==
  IF DataLost(s)
  THEN [s EXCEPT !.overflow_count = @ + Pending(s) - Capacity,
                 !.consumed = (s.produced - Capacity) % CountMod]
  ELSE s

\* Slip: the end of the buffer off by one.
BlockShort(s) ==
  LET untilEnd == Capacity - 1 - Slot(s.consumed)
  IN IF Pending(s) < untilEnd THEN Pending(s) ELSE untilEnd

\* The length of the block peek then returns: up to the end of the buffer.
Block(s) ==
  LET untilEnd == Capacity - Slot(s.consumed)
  IN IF Pending(s) < untilEnd THEN Pending(s) ELSE untilEnd

CanConsume(s, n) == n <= Pending(s)

Consume(s, n) == [s EXCEPT !.consumed = (@ + n) % CountMod]

\* Slip: the counters left off a buffer boundary.
ResetUnaligned(s) ==
  [s EXCEPT !.overflow_count = @ + Pending(s),
            !.consumed = s.produced,
            !.old_position = 0]

\* The DMA will start again at slot 0: what is pending is counted as lost and
\* both counters move up to a multiple of the capacity.
ResetForRestart(s) ==
  LET aligned == (((s.produced + Capacity - 1) \div Capacity) * Capacity) % CountMod
  IN [s EXCEPT !.overflow_count = @ + Pending(s),
               !.produced = aligned,
               !.consumed = aligned,
               !.old_position = 0]

=============================================================================
