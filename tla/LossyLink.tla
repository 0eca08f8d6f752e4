------------------------------ MODULE LossyLink ------------------------------
(***************************************************************************)
(* What the sessions may expect of encoder, wire and decoder, and what     *)
(* StopAndWait assumes of its links: a message arrives unaltered, once and *)
(* in its turn, or is lost.                                                *)
(***************************************************************************)
EXTENDS Sequences, Naturals

CONSTANTS
  Messages,  \* what may be sent
  Nothing    \* no message

VARIABLES
  underway,  \* the messages on the wire, in the order they were sent
  arrived    \* the message that has just arrived

vars == <<underway, arrived>>

Init == underway = <<>> /\ arrived = Nothing

\* What is left when the first n are gone.
Without(n) == SubSeq(underway, n + 1, Len(underway))

\* A message is sent; older ones may be lost.
Send(m) ==
  /\ \E n \in 0 .. Len(underway) : underway' = Append(Without(n), m)
  /\ arrived' = Nothing

\* Message n arrives, those before it are lost.
Arrive(n) == arrived' = underway[n] /\ underway' = Without(n)

\* What arrived is taken.
Settle == arrived' = Nothing /\ UNCHANGED underway

Next ==
  \/ \E m \in Messages : Send(m)
  \/ \E n \in 1 .. Len(underway) : Arrive(n)
  \/ Settle

Spec == Init /\ [][Next]_vars

=============================================================================
