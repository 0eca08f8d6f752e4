---------------------------- MODULE RemoteCommand ----------------------------
(***************************************************************************)
(* What the protocol promises: commands are issued one at a time, each is  *)
(* carried out at most once, its result is learnt only after that, and a   *)
(* sender that gave up may still learn it.  There are no links, sequences, *)
(* attempts or timeouts.                                                   *)
(***************************************************************************)
EXTENDS Naturals

CONSTANT MaxCommands

VARIABLES
  issued,   \* the number of the last command
  carried,  \* the numbers of the commands carried out
  outcome   \* what the sender knows of the last command

vars == <<issued, carried, outcome>>

TypeOK ==
  /\ issued \in 0 .. MaxCommands
  /\ carried \subseteq 1 .. issued
  /\ outcome \in {"none", "pending", "known", "unknown"}

Init == issued = 0 /\ carried = {} /\ outcome = "none"

Issue ==
  /\ outcome = "none"
  /\ issued < MaxCommands
  /\ issued' = issued + 1
  /\ outcome' = "pending"
  /\ UNCHANGED carried

\* Only the last command can be carried out, and only before its result is
\* known or it is abandoned.
CarryOut ==
  /\ outcome \in {"pending", "unknown"}
  /\ issued \notin carried
  /\ carried' = carried \cup {issued}
  /\ UNCHANGED <<issued, outcome>>

Learn ==
  /\ outcome \in {"pending", "unknown"}
  /\ issued \in carried
  /\ outcome' = "known"
  /\ UNCHANGED <<issued, carried>>

GiveUp ==
  /\ outcome = "pending"
  /\ outcome' = "unknown"
  /\ UNCHANGED <<issued, carried>>

\* The application took the result, or the session was resynchronized.
Finish ==
  /\ outcome \in {"known", "unknown"}
  /\ outcome' = "none"
  /\ UNCHANGED <<issued, carried>>

Next == Issue \/ CarryOut \/ Learn \/ GiveUp \/ Finish

Spec == Init /\ [][Next]_vars

=============================================================================
