----------------------------- MODULE StopAndWait -----------------------------
(***************************************************************************)
(* The whole protocol: a sender session and a receiver session joined by   *)
(* two FIFO links, with the application at either end, wired the way       *)
(* tests/test_protocol_end_to_end.c and the router do it.  A frame the     *)
(* link damages is dropped by the decoder, so it is a lost frame.  The     *)
(* payload of a command is its number, its result names the command, and   *)
(* executed records what the receiving application really carried out.     *)
(***************************************************************************)
EXTENDS SenderSession, ReceiverSession, Sequences

CONSTANTS
  MaxCommands,  \* commands the sending application issues
  Regimes,      \* what may go wrong, see regime
  MaxRestarts   \* reboots of the sender alone

ASSUME StopAndWaitAssumption ==
  /\ MaxCommands \in Nat
  /\ Payloads = 1 .. MaxCommands
  /\ Results = Payloads
  /\ {0, ResponseTimeout} \subseteq Ticks
  /\ Regimes \subseteq {"reliable", "faulty", "rebooting"}
  /\ MaxRestarts \in Nat

VARIABLES
  cmdLink,    \* command frames on their way to the receiver
  fbLink,     \* acknowledgements and responses on their way back
  job,        \* the command the receiving application is executing
  issued,     \* number of commands issued
  restarts,   \* number of reboots of the sender
  executed,   \* the commands carried out, in order
  regime      \* chosen once.  "reliable": nothing goes wrong.  "faulty": the
              \* links lose frames, transmissions fail, the application defers
              \* and a failed session is resynchronized.  "rebooting": the
              \* sender reboots besides.

sessions == <<snd, rcv, decision>>
vars == <<snd, rcv, decision, cmdLink, fbLink, job, issued, restarts, executed,
          regime>>

NoJob == 0

TypeOK ==
  /\ SenderTypeOK
  /\ ReceiverTypeOK
  /\ cmdLink \in Seq(CommandFrames)
  /\ fbLink \in Seq(FeedbackFrames)
  /\ job \in Payloads \cup {NoJob}
  /\ issued \in 0 .. MaxCommands
  /\ restarts \in 0 .. MaxRestarts
  /\ executed \in Seq(Payloads)
  /\ regime \in Regimes

Init ==
  /\ SenderInit
  /\ ReceiverInit
  /\ cmdLink = <<>> /\ fbLink = <<>>
  /\ job = NoJob
  /\ issued = 0 /\ restarts = 0 /\ executed = <<>>
  /\ regime \in Regimes

-----------------------------------------------------------------------------
(***************************************************************************)
(* The sending side.  Every stamp is 0 and a poll sees either no time or   *)
(* the whole timeout: how the clock wraps is SenderTiming's subject.       *)
(***************************************************************************)
Arrived == 0

Issue ==
  /\ issued < MaxCommands
  /\ StartCommand(issued + 1)
  /\ issued' = issued + 1
  /\ UNCHANGED <<rcv, decision, cmdLink, fbLink, job, restarts, executed, regime>>

\* The transport takes the frame; its bytes may reach the receiver before the
\* transport reports the end of the transmission.
Transmit ==
  /\ MarkAccepted
  /\ cmdLink' = Append(cmdLink, snd.pending_frame)
  /\ UNCHANGED <<rcv, decision, fbLink, job, issued, restarts, executed, regime>>

TransmitEnds ==
  /\ \/ MarkTransmitted(Arrived)
     \/ regime # "reliable" /\ MarkTransmitError
  /\ UNCHANGED <<rcv, decision, cmdLink, fbLink, job, issued, restarts, executed, regime>>

Timeout ==
  /\ Poll(ResponseTimeout)
  /\ UNCHANGED <<rcv, decision, cmdLink, fbLink, job, issued, restarts, executed, regime>>

DeliverFeedback ==
  /\ fbLink # <<>>
  /\ RouteSenderFeedback(Head(fbLink), Arrived)
  /\ fbLink' = Tail(fbLink)
  /\ UNCHANGED <<rcv, decision, cmdLink, job, issued, restarts, executed, regime>>

TakeResult ==
  /\ ReleaseResult
  /\ UNCHANGED <<rcv, decision, cmdLink, fbLink, job, issued, restarts, executed, regime>>

-----------------------------------------------------------------------------
(***************************************************************************)
(* The receiving side.  One decision is routed before the next frame is    *)
(* handled; the application's work goes on meanwhile.                      *)
(***************************************************************************)
ReceiveCommand ==
  /\ cmdLink # <<>> /\ decision = NoDecision
  /\ HandleFrame(Head(cmdLink))
  /\ cmdLink' = Tail(cmdLink)
  /\ job' = IF decision'.action = "EXECUTE" THEN Head(cmdLink).payload ELSE job
  /\ UNCHANGED <<snd, fbLink, issued, restarts, executed, regime>>

\* protocol_session_route_receiver_decision; a decision left INVALID is a
\* PROTOCOL_ROUTE_ERROR, and nothing is sent for an IGNORED one.
FramesFor(d) ==
  CASE d.action = "EXECUTE"      -> <<AckFrame(d.sequence, "ACCEPTED", 0)>>
    [] d.action = "IN_PROGRESS"  -> <<AckFrame(d.sequence, "IN_PROGRESS", 0)>>
    [] d.action = "OUT_OF_ORDER" -> <<AckFrame(d.sequence, "OUT_OF_ORDER", d.expected)>>
    [] d.action = "RESEND_RESULT" -> <<ResponseFrame(d.sequence, d.result)>>
    [] d.action \in {"IGNORED", "INVALID"} -> <<>>

RouteDecision ==
  /\ decision # NoDecision
  /\ fbLink' = fbLink \o FramesFor(decision)
  /\ decision' = NoDecision
  /\ UNCHANGED <<snd, rcv, cmdLink, job, issued, restarts, executed, regime>>

\* The application carries the command out, then completes it; it answers
\* only if complete returned true.
Execute ==
  /\ job # NoJob
  /\ executed' = Append(executed, job)
  /\ IF rcv.pending_valid /\ CanCommit(rcv.command_tracker, rcv.pending_sequence)
     THEN /\ Complete(rcv.pending_sequence, job)
          /\ fbLink' = Append(fbLink, ResponseFrame(rcv.pending_sequence, job))
     ELSE UNCHANGED <<rcv, decision, fbLink>>
  /\ job' = NoJob
  /\ UNCHANGED <<snd, cmdLink, issued, restarts, regime>>

Postpone ==
  /\ regime # "reliable"
  /\ job # NoJob
  /\ Defer(rcv.pending_sequence)
  /\ job' = NoJob
  /\ UNCHANGED <<snd, cmdLink, fbLink, issued, restarts, executed, regime>>

-----------------------------------------------------------------------------
LoseFrame ==
  /\ regime # "reliable"
  /\ \/ cmdLink # <<>> /\ cmdLink' = Tail(cmdLink) /\ UNCHANGED fbLink
     \/ fbLink # <<>> /\ fbLink' = Tail(fbLink) /\ UNCHANGED cmdLink
  /\ UNCHANGED <<sessions, job, issued, restarts, executed, regime>>

\* The external recovery after which the sender may be reset: nothing is left
\* on the links, the receiver is reset too and its application stopped.
Resynchronize(q) ==
  /\ regime # "reliable"
  /\ snd.state \in {"COMMUNICATION_FAILED", "DESYNCHRONIZED"}
  /\ SenderReset(q)
  /\ rcv' = ReceiverCleared(rcv)
  /\ decision' = NoDecision
  /\ cmdLink' = <<>> /\ fbLink' = <<>> /\ job' = NoJob
  /\ UNCHANGED <<issued, restarts, executed, regime>>

\* The sender reboots and starts at any sequence, without the handshake the
\* protocol does not have; the receiver and the links know nothing of it.
RestartSender(q) ==
  /\ regime = "rebooting" /\ restarts < MaxRestarts
  /\ restarts' = restarts + 1
  /\ snd' = SenderStart(q)
  /\ UNCHANGED <<rcv, decision, cmdLink, fbLink, job, issued, executed, regime>>

\* No command left to issue or to wait for, and nothing on its way.
Finished ==
  /\ \/ snd.state = "IDLE" /\ issued = MaxCommands
     \/ snd.state \in {"COMMUNICATION_FAILED", "DESYNCHRONIZED"} /\ regime = "reliable"
  /\ ~snd.transmission_active
  /\ cmdLink = <<>> /\ fbLink = <<>> /\ decision = NoDecision /\ job = NoJob
  /\ UNCHANGED vars

Next ==
  \/ Issue \/ Transmit \/ TransmitEnds \/ Timeout \/ DeliverFeedback \/ TakeResult
  \/ ReceiveCommand \/ RouteDecision \/ Execute \/ Postpone
  \/ LoseFrame
  \/ \E q \in Seqs : Resynchronize(q)
  \/ \E q \in Seqs : RestartSender(q)
  \/ Finished

Spec == Init /\ [][Next]_vars

\* The sender's main loop offers the frame and polls, and a transmission ends.
SenderFairness == WF_vars(Transmit) /\ WF_vars(TransmitEnds) /\ WF_vars(Timeout)

\* The receiver's loop runs too, its application finishes, and a frame a link
\* does not lose arrives.
ReceiverFairness ==
  /\ WF_vars(ReceiveCommand) /\ WF_vars(RouteDecision) /\ WF_vars(Execute)
  /\ WF_vars(DeliverFeedback)

LiveSpec == Spec /\ SenderFairness

ReliableSpec == Spec /\ SenderFairness /\ ReceiverFairness

-----------------------------------------------------------------------------
\* The refinement mapping: what the sender's state says of its last command.
\* DESYNCHRONIZED has no counterpart, so the abstract behaviours exclude it.
Outcome ==
  CASE snd.state = "IDLE"                 -> "none"
    [] snd.state = "RESULT_READY"         -> "known"
    [] snd.state = "COMMUNICATION_FAILED" -> "unknown"
    [] snd.state = "DESYNCHRONIZED"       -> "desynchronized"
    [] OTHER                              -> "pending"

Remote == INSTANCE RemoteCommand WITH
            carried <- {executed[i] : i \in 1 .. Len(executed)},
            outcome <- Outcome

\* The two sessions implement a remote command that is carried out at most
\* once and whose result is never taken for another command's.
ImplementsRemoteCommand == Remote!Spec

\* No command is carried out twice and none before an older one, in spite of
\* retries, lost answers, deferrals, sequence wrap and sender reboots.
ExecutedAtMostOnceInOrder ==
  \A i, j \in 1 .. Len(executed) : i < j => executed[i] < executed[j]

\* The result the sender hands to the application is the one of the command it
\* issued last, and that command was carried out.
ResultIsOfThisCommand ==
  snd.state = "RESULT_READY" =>
    /\ snd.result = issued
    /\ \E i \in 1 .. Len(executed) : executed[i] = issued

\* The two ends agree on what is under way: the application has a command
\* exactly while its session holds one pending, so it never finishes one the
\* session has forgotten; and the sender is never told that it is out of order,
\* whatever is lost, deferred or retried.  Only a reset of one end without the
\* other can do that.
EndsAgree ==
  /\ TypeOK
  /\ (job # NoJob) <=> rcv.pending_valid
  /\ snd.state # "DESYNCHRONIZED"

\* Every command ends: with its result or as a communication failure, whatever
\* the links lose and however often the receiver answers IN_PROGRESS.
EveryCommandEnds ==
  snd.state = "READY_TO_SEND" ~>
    snd.state \in {"RESULT_READY", "COMMUNICATION_FAILED"}

\* Over links that lose nothing, an application that does not defer gets the
\* result of every command: late answers are taken even after the sender gave
\* up, and answers that came too early are asked for again.
EveryCommandAnsweredAtLast ==
  regime = "reliable" /\ snd.state = "READY_TO_SEND" ~> snd.state = "RESULT_READY"

=============================================================================
