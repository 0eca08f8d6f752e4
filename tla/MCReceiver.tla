------------------------------ MODULE MCReceiver ------------------------------
(***************************************************************************)
(* The receiver session alone, against a sender that may transmit any      *)
(* command or telemetry frame at any time, for a bounded number of         *)
(* executions.                                                             *)
(***************************************************************************)
EXTENDS ReceiverSession

CONSTANT MaxExecutes    \* bound on execute_count

MCNext == ReceiverNext /\ rcv'.execute_count <= MaxExecutes

MCSpec == ReceiverInit /\ [][MCNext]_<<rcv, decision>>

=============================================================================
