----------------------------- MODULE SpscQueue -----------------------------
(***************************************************************************)
(* spsc_byte_queue.c as operators on the SpscByteQueue structure: absolute *)
(* head and tail counters that wrap, and a buffer indexed by their low     *)
(* bits.  The capacity is a power of two, so "& mask" is a remainder.      *)
(***************************************************************************)
EXTENDS Integers

CONSTANTS
  Capacity,  \* bytes in the buffer
  CountMod   \* values of head and tail: 2^32 (uint32_t) in the code

ASSUME QueueAssumption ==
  /\ Capacity \in Nat /\ Capacity >= 2
  /\ CountMod \in Nat /\ CountMod > Capacity
  /\ CountMod % Capacity = 0

Counters == 0 .. CountMod - 1
Slots    == 0 .. Capacity - 1

\* counter & mask
Slot(counter) == counter % Capacity

Advance(counter, n) == (counter + n) % CountMod

\* A counter that has counted n bytes.
Counter(n) == n % CountMod

EmptyQueue == [buffer |-> [i \in Slots |-> 0], head |-> 0, tail |-> 0]

\* head - tail, in uint32_t.
Used(q) == (q.head - q.tail) % CountMod

\* Slip: one byte more than there is room for.
FitsOneMore(q, n) == Used(q) <= Capacity /\ n <= Capacity - Used(q) + 1

\* What spsc_byte_queue_write demands of a block of n bytes.
Fits(q, n) == Used(q) <= Capacity /\ n <= Capacity - Used(q)

\* The block spsc_byte_queue_peek returns: up to the end of the buffer.
Contiguous(q) ==
  LET untilEnd == Capacity - Slot(q.tail)
  IN IF Used(q) > Capacity THEN 0
     ELSE IF Used(q) < untilEnd THEN Used(q) ELSE untilEnd

=============================================================================
