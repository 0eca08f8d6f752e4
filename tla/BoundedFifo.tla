---------------------------- MODULE BoundedFifo ----------------------------
(***************************************************************************)
(* What a transmit queue promises: bytes leave one at a time, in the order *)
(* they were put, and a block is put as a whole or not at all.  Byte n is  *)
(* the n-th byte ever put.                                                 *)
(***************************************************************************)
EXTENDS Naturals, Sequences

CONSTANT Capacity

VARIABLES
  contents,  \* the bytes waiting
  sent       \* number of bytes that have left

vars == <<contents, sent>>

Init == contents = <<>> /\ sent = 0

\* The next n bytes are put at once, if there is room for all of them.
Put(n) ==
  /\ Len(contents) + n <= Capacity
  /\ contents' = contents \o [i \in 1 .. n |-> sent + Len(contents) + i]
  /\ UNCHANGED sent

\* The oldest byte leaves.
Take ==
  /\ contents # <<>>
  /\ Head(contents) = sent + 1
  /\ contents' = Tail(contents)
  /\ sent' = sent + 1

Next == Take \/ \E n \in 1 .. Capacity : Put(n)

Spec == Init /\ [][Next]_vars

=============================================================================
