-------------------------- MODULE StopAndWaitProofs --------------------------
(***************************************************************************)
(* The protocol as a whole, for every sequence width from two numbers up,  *)
(* any number of commands and attempts and links of any length.            *)
(*                                                                         *)
(* At most once, in order: the commands still on the link, or to be sent   *)
(* again, are never older than the last one carried out, and one that is   *)
(* as old has the sequence the tracker accepted last, so that it is taken  *)
(* for the repeat it is.  This needs no agreement of the two ends: it      *)
(* survives a reboot of the sender.                                        *)
(*                                                                         *)
(* Agreement: without such a reboot the receiver expects the sender's      *)
(* current sequence or has just accepted it, and what travels round the    *)
(* loop (commands, the decision, feedback) carries that sequence or the    *)
(* one before, the older ones first.                                       *)
(***************************************************************************)
EXTENDS StopAndWait, SessionProofs, SequenceTheorems

-----------------------------------------------------------------------------
(***************************************************************************)
(* The sessions within the protocol.                                       *)
(***************************************************************************)

\* A cached result on its way to the router is a result.
BorrowedResultReal == decision.action = "RESEND_RESULT" => decision.result \in Results

\* The application works on a command exactly while the session holds one.
JobTracked == (job # NoJob) <=> rcv.pending_valid

SessionsSafe ==
  TypeOK /\ SenderSafe /\ ReceiverSafe /\ BorrowedResultReal /\ JobTracked

LEMMA ConstantFacts ==
  /\ 0 \in Ticks /\ ResponseTimeout \in Ticks
  /\ Payloads = 1 .. MaxCommands /\ Results = Payloads /\ MaxCommands \in Nat
  /\ NoJob \notin Payloads
  BY StopAndWaitAssumption DEF NoJob

LEMMA TailFacts ==
  ASSUME NEW S, NEW s \in Seq(S), s # <<>>
  PROVE  /\ Head(s) \in S /\ Head(s) = s[1] /\ 1 \in 1 .. Len(s)
         /\ Tail(s) \in Seq(S)
         /\ Len(Tail(s)) = Len(s) - 1 /\ Len(s) \in Nat
         /\ \A i \in 1 .. Len(Tail(s)) : i + 1 \in 1 .. Len(s) /\ Tail(s)[i] = s[i + 1]
<1>1. Len(s) \in Nat \ {0}
  BY EmptySeq
<1> QED BY <1>1, HeadTailProperties

LEMMA AppendFacts ==
  ASSUME NEW S, NEW s \in Seq(S), NEW e \in S
  PROVE  /\ Append(s, e) \in Seq(S)
         /\ Len(Append(s, e)) = Len(s) + 1 /\ Len(s) \in Nat
         /\ \A i \in 1 .. Len(s) : Append(s, e)[i] = s[i]
         /\ Append(s, e)[Len(s) + 1] = e
  BY AppendProperties, LenProperties

LEMMA StartedSenderSafe ==
  ASSUME NEW q \in Seqs, snd' = SenderStart(q)
  PROVE  SenderTypeOK' /\ SenderSafe'
<1>1. 0 \in Seqs /\ 0 \in 0 .. TickMod - 1 /\ 0 \in 0 .. MaxAttempts
  BY FramesAssumption, SenderAssumption DEF Seqs
<1>2. SenderTypeOK'
  BY <1>1 DEF SenderTypeOK, SenderStart, SenderStates
<1>3. SenderSafe'
  BY DEF SenderStart, SenderSafe, AttemptsHonoured, OwnershipTracked,
         SequenceMatchesFrame, AtMostOneOutcome, Outstanding, Unresolved
<1> QED BY <1>2, <1>3

LEMMA ClearedReceiverSafe ==
  ASSUME ReceiverTypeOK, ReceiverSafe, rcv' = ReceiverCleared(rcv),
         decision' = NoDecision
  PROVE  ReceiverTypeOK' /\ ReceiverSafe'
<1>1. /\ decision' \in Decisions \cup {NoDecision}
      /\ decision'.action = "NONE"
  BY DEF NoDecision
<1>2. /\ rcv.command_tracker.accepted_count \in Nat
      /\ rcv.execute_count \in Nat /\ rcv.deferred_count \in Nat
  BY DEF ReceiverTypeOK, Trackers
<1>3. /\ ReceiverTypeOK'
      /\ ~rcv'.command_tracker.initialized
      /\ rcv'.command_tracker.accepted_count = rcv.command_tracker.accepted_count
      /\ ~rcv'.pending_valid /\ ~rcv'.cached_result_valid
      /\ rcv'.execute_count = rcv.execute_count
      /\ rcv'.deferred_count = rcv.deferred_count
  BY <1>1, ClearedFields
<1> QED BY <1>1, <1>2, <1>3
        DEF ReceiverSafe, CacheCoherent, PendingCommittable, EveryCommandAnswered,
            BorrowedResultStable, ExecutionsConserved

\* Each step is a step of the sender session, of neither, or a reboot.
LEMMA SenderPartStep ==
  ASSUME TypeOK, SenderSafe, [Next]_vars
  PROVE  SenderTypeOK' /\ SenderSafe'
<1> USE ConstantFacts
<1>1. CASE [SenderNext]_snd
  <2>1. SenderTypeOK /\ AttemptsHonoured /\ OwnershipTracked
        /\ SequenceMatchesFrame /\ AtMostOneOutcome
    BY DEF TypeOK, SenderSafe
  <2>2. SenderTypeOK'
    BY <1>1, <2>1, SenderTypeStep
  <2>3. AttemptsHonoured' /\ OwnershipTracked' /\ SequenceMatchesFrame' /\ AtMostOneOutcome'
    BY <1>1, <2>1, AttemptsStep, OwnershipStep, SequenceStep, OutcomeStep
  <2> QED BY <2>2, <2>3 DEF SenderSafe
<1>2. ASSUME NEW q \in Seqs, RestartSender(q) PROVE SenderTypeOK' /\ SenderSafe'
  BY <1>2, StartedSenderSafe DEF RestartSender
<1>3. CASE Issue
  <2>1. issued + 1 \in Payloads
    BY <1>3 DEF Issue, TypeOK
  <2>2. SenderNext
    BY <1>3, <2>1 DEF Issue, SenderNext
  <2> QED BY <1>1, <2>2
<1>4. CASE Transmit \/ TransmitEnds \/ Timeout \/ TakeResult
  <2>1. SenderNext
    BY <1>4 DEF Transmit, TransmitEnds, Timeout, TakeResult, SenderNext, Arrived
  <2> QED BY <1>1, <2>1
<1>5. CASE DeliverFeedback
  <2>1. Head(fbLink) \in FeedbackFrames
    BY <1>5, TailFacts DEF DeliverFeedback, TypeOK
  <2>2. SenderNext
    BY <1>5, <2>1 DEF DeliverFeedback, SenderNext, Arrived
  <2> QED BY <1>1, <2>2
<1>6. ASSUME NEW q \in Seqs, Resynchronize(q) PROVE SenderTypeOK' /\ SenderSafe'
  <2>1. SenderNext
    BY <1>6 DEF Resynchronize, SenderNext
  <2> QED BY <1>1, <2>1
<1>7. CASE UNCHANGED snd
  BY <1>1, <1>7
<1> QED
  BY <1>2, <1>3, <1>4, <1>5, <1>6, <1>7
     DEF Next, vars, ReceiveCommand, RouteDecision, Execute, Postpone, LoseFrame,
         Finished, sessions

-----------------------------------------------------------------------------
(***************************************************************************)
(* What each step does, field by field.                                    *)
(***************************************************************************)

\* The sender keeps its command and its outcome, whatever else it does.
SenderQuiet ==
  /\ snd'.pending_sequence = snd.pending_sequence
  /\ snd'.next_sequence = snd.next_sequence
  /\ snd'.pending_frame = snd.pending_frame
  /\ snd'.result = snd.result
  /\ \A state \in {"IDLE", "RESULT_READY", "DESYNCHRONIZED"} :
       snd'.state = state <=> snd.state = state

SameReceiver == UNCHANGED <<rcv, decision>>

LEMMA QuietSteps ==
  ASSUME SenderTypeOK,
         \/ MarkAccepted \/ MarkTransmitted(Arrived) \/ MarkTransmitError
         \/ Poll(ResponseTimeout) \/ UNCHANGED snd
         \/ \E q \in Seqs : HandleActivity(q, Arrived)
  PROVE  SenderQuiet
<1> USE DEF SenderQuiet
<1>1. CASE MarkAccepted
  BY <1>1 DEF SenderTypeOK, MarkAccepted
<1>2. CASE MarkTransmitted(Arrived)
  BY <1>2 DEF SenderTypeOK, MarkTransmitted
<1>3. CASE MarkTransmitError
  BY <1>3, RetryOrFailType DEF SenderTypeOK, MarkTransmitError
<1>4. CASE Poll(ResponseTimeout)
  BY <1>4, RetryOrFailType DEF SenderTypeOK, Poll
<1>5. CASE UNCHANGED snd
  BY <1>5
<1>6. ASSUME NEW q \in Seqs, HandleActivity(q, Arrived) PROVE SenderQuiet
  BY <1>6 DEF SenderTypeOK, HandleActivity, ActivityAccepted, Answerable
<1> QED BY <1>1, <1>2, <1>3, <1>4, <1>5, <1>6

LEMMA IssueEffect ==
  ASSUME SessionsSafe, Issue
  PROVE  /\ snd.state = "IDLE" /\ snd'.state = "READY_TO_SEND"
         /\ snd'.pending_sequence = snd.next_sequence
         /\ snd'.next_sequence = snd.next_sequence
         /\ snd'.pending_frame = CommandFrame(snd.next_sequence, issued + 1)
         /\ issued' = issued + 1 /\ issued + 1 \in Payloads
         /\ SameReceiver
         /\ UNCHANGED <<cmdLink, fbLink, job, restarts, executed, regime>>
<1>1. issued + 1 \in Payloads
  BY ConstantFacts DEF Issue, SessionsSafe, TypeOK
<1> DEFINE frame == CommandFrame(snd.next_sequence, issued + 1)
<1>2. snd' = [snd EXCEPT !.pending_frame = frame,
                         !.pending_sequence = snd.next_sequence,
                         !.attempt_count = 0,
                         !.state = "READY_TO_SEND",
                         !.command_count = @ + 1]
  BY DEF Issue, StartCommand
<1> HIDE DEF frame
<1>3. /\ snd'.state = "READY_TO_SEND"
      /\ snd'.pending_sequence = snd.next_sequence
      /\ snd'.next_sequence = snd.next_sequence
      /\ snd'.pending_frame = frame
  BY <1>2 DEF SessionsSafe, TypeOK, SenderTypeOK
<1> QED BY <1>1, <1>3 DEF Issue, StartCommand, frame, SameReceiver

LEMMA FeedbackEffect ==
  ASSUME SessionsSafe, DeliverFeedback
  PROVE  /\ fbLink # <<>> /\ Head(fbLink) \in FeedbackFrames
         /\ fbLink' = Tail(fbLink)
         /\ SameReceiver /\ UNCHANGED <<cmdLink, job, issued, restarts, executed, regime>>
         /\ \/ SenderQuiet
            \/ /\ Head(fbLink).sequence = snd.pending_sequence
               /\ snd.state \notin {"IDLE", "RESULT_READY", "DESYNCHRONIZED"}
               /\ snd'.pending_sequence = snd.pending_sequence
               /\ snd'.pending_frame = snd.pending_frame
               /\ \/ /\ Head(fbLink).type = "RESPONSE"
                     /\ snd'.state = "RESULT_READY"
                     /\ snd'.result = Head(fbLink).result
                  \/ /\ Head(fbLink).type = "ACK"
                     /\ Head(fbLink).status = "OUT_OF_ORDER"
                     /\ snd'.state = "DESYNCHRONIZED"
<1> DEFINE f == Head(fbLink)
<1>0. SenderTypeOK /\ AttemptsHonoured /\ fbLink \in Seq(FeedbackFrames)
  BY DEF SessionsSafe, TypeOK, SenderSafe
<1>1. f \in FeedbackFrames
  BY <1>0, TailFacts DEF DeliverFeedback
<1>2. f.sequence \in Seqs
  BY <1>1 DEF FeedbackFrames, AckFrames, ResponseFrames
<1>3. RouteSenderFeedback(f, Arrived)
  BY DEF DeliverFeedback
<1>4. /\ fbLink # <<>> /\ fbLink' = Tail(fbLink)
      /\ SameReceiver /\ UNCHANGED <<cmdLink, job, issued, restarts, executed, regime>>
  BY DEF DeliverFeedback, SameReceiver
<1> HIDE DEF f
<1>5. CASE HandleActivity(f.sequence, Arrived) \/ UNCHANGED snd
  BY <1>0, <1>1, <1>2, <1>4, <1>5, QuietSteps DEF f
<1>6. CASE f.type = "RESPONSE" /\ HandleResult(f.sequence, f.result)
  <2>1. /\ f.sequence = snd.pending_sequence
        /\ snd.state \notin {"IDLE", "RESULT_READY", "DESYNCHRONIZED"}
    BY <1>0, <1>6 DEF HandleResult, OutcomeAccepted, ForPendingCommand, Answerable,
                      AttemptsHonoured
  <2>2. /\ snd'.pending_sequence = snd.pending_sequence
        /\ snd'.pending_frame = snd.pending_frame
        /\ snd'.state = "RESULT_READY" /\ snd'.result = f.result
    BY <1>0, <1>6 DEF HandleResult, SenderTypeOK
  <2> QED BY <1>1, <1>4, <1>6, <2>1, <2>2 DEF f
<1>7. CASE /\ f.type = "ACK" /\ f.status = "OUT_OF_ORDER"
           /\ HandleOutOfOrder(f.sequence, f.expected)
  <2>1. /\ f.sequence = snd.pending_sequence
        /\ snd.state \notin {"IDLE", "RESULT_READY", "DESYNCHRONIZED"}
    BY <1>0, <1>7 DEF HandleOutOfOrder, OutcomeAccepted, ForPendingCommand, Answerable,
                      AttemptsHonoured
  <2>2. /\ snd'.pending_sequence = snd.pending_sequence
        /\ snd'.pending_frame = snd.pending_frame
        /\ snd'.state = "DESYNCHRONIZED"
    BY <1>0, <1>7 DEF HandleOutOfOrder, SenderTypeOK
  <2> QED BY <1>1, <1>4, <1>7, <2>1, <2>2 DEF f
<1> QED BY <1>3, <1>5, <1>6, <1>7 DEF RouteSenderFeedback

\* The sender is IDLE after these, with the sequence of its next command.
LEMMA TakeResultEffect ==
  ASSUME SessionsSafe, TakeResult
  PROVE  /\ snd.state = "RESULT_READY" /\ snd'.state = "IDLE"
         /\ snd'.next_sequence = snd.next_sequence
         /\ SameReceiver
         /\ UNCHANGED <<cmdLink, fbLink, job, issued, restarts, executed, regime>>
<1>1. snd'.state = "IDLE" /\ snd'.next_sequence = snd.next_sequence
  BY DEF SessionsSafe, TypeOK, SenderTypeOK, TakeResult, ReleaseResult, ClearOperation
<1> QED BY <1>1 DEF TakeResult, ReleaseResult, SameReceiver

LEMMA ResynchronizeEffect ==
  ASSUME SessionsSafe, NEW q \in Seqs, Resynchronize(q)
  PROVE  /\ snd.state \in {"COMMUNICATION_FAILED", "DESYNCHRONIZED"}
         /\ snd'.state = "IDLE"
         /\ ~rcv'.command_tracker.initialized /\ ~rcv'.pending_valid
         /\ ReceiverTypeOK' /\ ReceiverSafe'
         /\ decision' = NoDecision /\ cmdLink' = <<>> /\ fbLink' = <<>>
         /\ job' = NoJob
         /\ UNCHANGED <<issued, restarts, executed, regime>>
<1>1. snd'.state = "IDLE"
  BY DEF SessionsSafe, TypeOK, SenderTypeOK, Resynchronize, SenderReset, ClearOperation
<1>2. /\ rcv' = ReceiverCleared(rcv) /\ decision' = NoDecision
      /\ ReceiverTypeOK /\ ReceiverSafe
  BY DEF SessionsSafe, TypeOK, Resynchronize
<1>3. ~rcv'.command_tracker.initialized /\ ~rcv'.pending_valid
  BY <1>2, ClearedFields
<1>4. ReceiverTypeOK' /\ ReceiverSafe'
  BY <1>2, ClearedReceiverSafe
<1> QED BY <1>1, <1>2, <1>3, <1>4 DEF Resynchronize

LEMMA RestartEffect ==
  ASSUME NEW q \in Seqs, RestartSender(q)
  PROVE  /\ regime = "rebooting" /\ restarts < MaxRestarts
         /\ restarts' = restarts + 1 /\ snd'.state = "IDLE"
         /\ SameReceiver
         /\ UNCHANGED <<cmdLink, fbLink, job, issued, executed, regime>>
  BY DEF RestartSender, SenderStart, SameReceiver

\* A frame becomes the pending command, or only brings about a decision.
LEMMA ReceiveEffect ==
  ASSUME SessionsSafe, ReceiveCommand
  PROVE  /\ cmdLink # <<>> /\ Head(cmdLink) \in CommandFrames
         /\ cmdLink' = Tail(cmdLink)
         /\ decision = NoDecision
         /\ ReceiverTypeOK' /\ ReceiverSafe'
         /\ decision' \in Decisions /\ decision'.sequence = Head(cmdLink).sequence
         /\ rcv'.command_tracker = rcv.command_tracker
         /\ rcv'.cached_result = rcv.cached_result
         /\ UNCHANGED <<snd, fbLink, issued, restarts, executed, regime>>
         /\ \/ /\ decision'.action = "EXECUTE"
               /\ ~rcv.pending_valid
               /\ CanCommit(rcv.command_tracker, Head(cmdLink).sequence)
               /\ rcv'.pending_valid /\ rcv'.pending_sequence = Head(cmdLink).sequence
               /\ job' = Head(cmdLink).payload
            \/ /\ decision'.action # "EXECUTE"
               /\ rcv' = rcv /\ job' = job
               /\ decision'.action = "RESEND_RESULT" =>
                    /\ ~rcv.pending_valid /\ rcv.cached_result_valid
                    /\ decision'.result = rcv.cached_result
                    /\ decision'.sequence = rcv.cached_result_sequence
               /\ decision'.action = "OUT_OF_ORDER" =>
                    \/ /\ rcv.pending_valid
                       /\ decision'.sequence # rcv.pending_sequence
                    \/ /\ rcv.command_tracker.initialized
                       /\ decision'.sequence
                            # rcv.command_tracker.last_accepted_sequence
                       /\ decision'.sequence
                            # rcv.command_tracker.expected_sequence
<1> DEFINE f == Head(cmdLink)
<1>1. /\ ReceiverTypeOK /\ ReceiverSafe /\ CacheCoherent
      /\ cmdLink \in Seq(CommandFrames)
  BY DEF SessionsSafe, TypeOK, ReceiverSafe
<1>2. f \in CommandFrames
  BY <1>1, TailFacts DEF ReceiveCommand
<1>3. /\ HandleFrame(f) /\ cmdLink # <<>> /\ cmdLink' = Tail(cmdLink)
      /\ decision = NoDecision
      /\ UNCHANGED <<snd, fbLink, issued, restarts, executed, regime>>
      /\ job' = IF decision'.action = "EXECUTE" THEN f.payload ELSE job
  BY DEF ReceiveCommand
<1>4. ReceiverTypeOK' /\ ReceiverSafe'
  BY <1>1, <1>2, <1>3, ReceiverStep DEF ReceiverNext
<1> HIDE DEF f
<1>5. f \in CommandFrames \cup TelemetryFrames
  BY <1>2
<1>6. /\ decision' = DecisionFor(rcv, f)
      /\ decision' \in Decisions /\ decision'.sequence = f.sequence
      /\ rcv'.command_tracker = rcv.command_tracker
      /\ rcv'.cached_result = rcv.cached_result
  BY <1>1, <1>3, <1>5, HandleFrameFields, DecisionCases
<1>7. CASE decision'.action = "EXECUTE"
  <2>1. /\ ~rcv.pending_valid /\ CanCommit(rcv.command_tracker, f.sequence)
        /\ rcv'.pending_valid /\ rcv'.pending_sequence = f.sequence
    BY <1>1, <1>3, <1>5, <1>6, <1>7, HandleFrameFields, DecisionCases
  <2> QED BY <1>2, <1>3, <1>4, <1>6, <1>7, <2>1 DEF f
<1>8. CASE decision'.action # "EXECUTE"
  <2>1. /\ rcv' = rcv
        /\ decision'.action = "RESEND_RESULT" =>
             /\ ~rcv.pending_valid /\ rcv.cached_result_valid
             /\ decision'.result = rcv.cached_result
             /\ decision'.sequence = rcv.cached_result_sequence
        /\ decision'.action = "OUT_OF_ORDER" =>
             \/ rcv.pending_valid /\ f.sequence # rcv.pending_sequence
             \/ /\ rcv.command_tracker.initialized
                /\ f.sequence # rcv.command_tracker.last_accepted_sequence
                /\ f.sequence # rcv.command_tracker.expected_sequence
    BY <1>1, <1>3, <1>5, <1>6, <1>8, HandleFrameFields, DecisionCases
  <2> QED BY <1>2, <1>3, <1>4, <1>6, <1>8, <2>1 DEF f
<1> QED BY <1>7, <1>8

\* The router sends one frame for a decision, under its sequence, or none.
LEMMA RouteEffect ==
  ASSUME SessionsSafe, RouteDecision
  PROVE  /\ decision \in Decisions /\ decision # NoDecision /\ decision' = NoDecision
         /\ UNCHANGED <<snd, rcv, cmdLink, job, issued, restarts, executed, regime>>
         /\ \/ fbLink' = fbLink
            \/ \E g \in FeedbackFrames :
                 /\ fbLink' = Append(fbLink, g)
                 /\ g.sequence = decision.sequence
                 /\ g.type = "RESPONSE" =>
                      decision.action = "RESEND_RESULT" /\ g.result = decision.result
                 /\ g.type = "ACK" /\ g.status = "OUT_OF_ORDER" =>
                      decision.action = "OUT_OF_ORDER"
<1>1. /\ decision # NoDecision /\ decision' = NoDecision
      /\ fbLink' = fbLink \o FramesFor(decision)
      /\ UNCHANGED <<snd, rcv, cmdLink, job, issued, restarts, executed, regime>>
      /\ decision \in Decisions /\ fbLink \in Seq(FeedbackFrames)
      /\ BorrowedResultReal
  BY DEF RouteDecision, SessionsSafe, TypeOK, ReceiverTypeOK
<1>2. decision.sequence \in Seqs /\ decision.expected \in Seqs /\ 0 \in Seqs
  BY <1>1, ZeroInSeqs DEF Decisions
<1>3. CASE decision.action \in {"IGNORED", "INVALID"}
  <2>1. FramesFor(decision) = <<>>
    BY <1>3 DEF FramesFor
  <2> QED BY <1>1, <2>1, ConcatEmptySeq
<1>4. ASSUME NEW g \in FeedbackFrames, FramesFor(decision) = <<g>>
      PROVE  fbLink' = Append(fbLink, g)
  BY <1>1, <1>4, AppendIsConcat
<1>5. ASSUME NEW status \in AckStatus, NEW e \in Seqs
      PROVE  LET g == AckFrame(decision.sequence, status, e)
             IN /\ g \in FeedbackFrames /\ g.sequence = decision.sequence
                /\ g.type = "ACK" /\ g.status = status
  BY <1>2 DEF AckFrame, FeedbackFrames, AckFrames, AckStatus
<1>6. CASE decision.action = "EXECUTE"
  <2> DEFINE g == AckFrame(decision.sequence, "ACCEPTED", 0)
  <2>1. FramesFor(decision) = <<g>>
    BY <1>6 DEF FramesFor
  <2>2. /\ g \in FeedbackFrames /\ g.sequence = decision.sequence
        /\ g.type = "ACK" /\ g.status = "ACCEPTED"
    BY <1>2, <1>5 DEF AckStatus
  <2> HIDE DEF g
  <2> QED BY <1>1, <1>4, <2>1, <2>2
<1>7. CASE decision.action = "IN_PROGRESS"
  <2> DEFINE g == AckFrame(decision.sequence, "IN_PROGRESS", 0)
  <2>1. FramesFor(decision) = <<g>>
    BY <1>7 DEF FramesFor
  <2>2. /\ g \in FeedbackFrames /\ g.sequence = decision.sequence
        /\ g.type = "ACK" /\ g.status = "IN_PROGRESS"
    BY <1>2, <1>5 DEF AckStatus
  <2> HIDE DEF g
  <2> QED BY <1>1, <1>4, <2>1, <2>2
<1>8. CASE decision.action = "OUT_OF_ORDER"
  <2> DEFINE g == AckFrame(decision.sequence, "OUT_OF_ORDER", decision.expected)
  <2>1. FramesFor(decision) = <<g>>
    BY <1>8 DEF FramesFor
  <2>2. /\ g \in FeedbackFrames /\ g.sequence = decision.sequence
        /\ g.type = "ACK" /\ g.status = "OUT_OF_ORDER"
    BY <1>2, <1>5 DEF AckStatus
  <2> HIDE DEF g
  <2> QED BY <1>1, <1>4, <1>8, <2>1, <2>2
<1>9. CASE decision.action = "RESEND_RESULT"
  <2> DEFINE g == ResponseFrame(decision.sequence, decision.result)
  <2>1. FramesFor(decision) = <<g>>
    BY <1>9 DEF FramesFor
  <2>2. /\ g \in FeedbackFrames /\ g.sequence = decision.sequence
        /\ g.type = "RESPONSE" /\ g.result = decision.result
    BY <1>1, <1>2, <1>9 DEF BorrowedResultReal, ResponseFrame, FeedbackFrames,
                            ResponseFrames
  <2> HIDE DEF g
  <2> QED BY <1>1, <1>4, <1>9, <2>1, <2>2
<1> QED BY <1>1, <1>3, <1>6, <1>7, <1>8, <1>9 DEF Decisions, Actions

\* The application's command is completed and answered: commit accepts it.
LEMMA ExecuteEffect ==
  ASSUME SessionsSafe, Execute
  PROVE  /\ job \in Payloads /\ job' = NoJob
         /\ rcv.pending_valid /\ ~rcv'.pending_valid
         /\ rcv.pending_sequence \in Seqs
         /\ CanCommit(rcv.command_tracker, rcv.pending_sequence)
         /\ executed' = Append(executed, job)
         /\ ResponseFrame(rcv.pending_sequence, job) \in FeedbackFrames
         /\ fbLink' = Append(fbLink, ResponseFrame(rcv.pending_sequence, job))
         /\ rcv'.command_tracker.initialized
         /\ rcv'.command_tracker.last_accepted_sequence = rcv.pending_sequence
         /\ rcv'.command_tracker.expected_sequence = NextSeq(rcv.pending_sequence)
         /\ rcv'.cached_result = job
         /\ ReceiverTypeOK' /\ ReceiverSafe'
         /\ decision' = decision
         /\ UNCHANGED <<snd, cmdLink, issued, restarts, regime>>
<1> DEFINE q == rcv.pending_sequence
<1>1. /\ ReceiverTypeOK /\ ReceiverSafe /\ q \in Seqs
      /\ rcv.command_tracker \in Trackers
      /\ job \in Payloads /\ job \in Results /\ rcv.pending_valid
      /\ CanCommit(rcv.command_tracker, q)
  BY ConstantFacts DEF Execute, SessionsSafe, TypeOK, JobTracked, ReceiverTypeOK,
                       ReceiverSafe, PendingCommittable
<1>2. /\ Complete(q, job) /\ executed' = Append(executed, job)
      /\ fbLink' = Append(fbLink, ResponseFrame(q, job)) /\ job' = NoJob
      /\ UNCHANGED <<snd, cmdLink, issued, restarts, regime>>
  BY <1>1 DEF Execute
<1> HIDE DEF q
<1>3. ReceiverTypeOK' /\ ReceiverSafe'
  BY <1>1, <1>2, ReceiverStep DEF ReceiverNext
<1>4. /\ rcv'.command_tracker = Accept(rcv.command_tracker, q)
      /\ ~rcv'.pending_valid /\ rcv'.cached_result = job
      /\ decision' = decision
  BY <1>1, <1>2, CompleteFields
<1>5. /\ rcv'.command_tracker.initialized
      /\ rcv'.command_tracker.last_accepted_sequence = q
      /\ rcv'.command_tracker.expected_sequence = NextSeq(q)
  BY <1>1, <1>4, AcceptFields
<1>6. ResponseFrame(q, job) \in FeedbackFrames
  BY <1>1 DEF ResponseFrame, FeedbackFrames, ResponseFrames
<1> QED BY <1>1, <1>2, <1>3, <1>4, <1>5, <1>6 DEF q

LEMMA PostponeEffect ==
  ASSUME SessionsSafe, Postpone
  PROVE  /\ job \in Payloads /\ job' = NoJob
         /\ rcv.pending_valid /\ ~rcv'.pending_valid
         /\ rcv'.command_tracker = rcv.command_tracker
         /\ rcv'.cached_result = rcv.cached_result
         /\ ReceiverTypeOK' /\ ReceiverSafe'
         /\ decision' = decision
         /\ UNCHANGED <<snd, cmdLink, fbLink, issued, restarts, executed, regime>>
<1>1. /\ ReceiverTypeOK /\ ReceiverSafe /\ rcv.pending_sequence \in Seqs
      /\ job \in Payloads
  BY DEF Postpone, SessionsSafe, TypeOK, ReceiverTypeOK
<1>2. /\ Defer(rcv.pending_sequence) /\ job' = NoJob
      /\ UNCHANGED <<snd, cmdLink, fbLink, issued, restarts, executed, regime>>
  BY DEF Postpone
<1>3. ReceiverTypeOK' /\ ReceiverSafe'
  BY <1>1, <1>2, ReceiverStep DEF ReceiverNext
<1> QED BY <1>1, <1>2, <1>3, DeferFields

-----------------------------------------------------------------------------
(***************************************************************************)
(* The sessions stay typed and safe.                                       *)
(***************************************************************************)

LEMMA SessionsSafeInit == Init => SessionsSafe
<1> SUFFICES ASSUME Init PROVE SessionsSafe
  OBVIOUS
<1>1. SenderTypeOK /\ SenderSafe
  BY SenderStartType DEF Init
<1>2. ReceiverTypeOK /\ ReceiverSafe
  BY ReceiverStartSafe DEF Init
<1>3. ~rcv.pending_valid /\ decision.action = "NONE"
  BY DEF Init, ReceiverInit, ReceiverStart, NoDecision
<1>4. cmdLink \in Seq(CommandFrames) /\ fbLink \in Seq(FeedbackFrames)
      /\ executed \in Seq(Payloads)
  BY DEF Init
<1>5. TypeOK
  BY <1>1, <1>2, <1>4, StopAndWaitAssumption DEF Init, TypeOK
<1> QED BY <1>1, <1>2, <1>3, <1>5
        DEF Init, SessionsSafe, BorrowedResultReal, JobTracked

\* The part of SessionsSafe' that is not about the sender, by who moves.
LEMMA OthersStep ==
  ASSUME SessionsSafe, [Next]_vars
  PROVE  /\ ReceiverTypeOK' /\ ReceiverSafe'
         /\ BorrowedResultReal' /\ JobTracked'
         /\ cmdLink' \in Seq(CommandFrames) /\ fbLink' \in Seq(FeedbackFrames)
         /\ job' \in Payloads \cup {NoJob}
         /\ issued' \in 0 .. MaxCommands /\ restarts' \in 0 .. MaxRestarts
         /\ executed' \in Seq(Payloads) /\ regime' \in Regimes
<1>0. /\ ReceiverTypeOK /\ ReceiverSafe /\ CacheCoherent
      /\ BorrowedResultReal /\ JobTracked /\ SenderTypeOK
      /\ cmdLink \in Seq(CommandFrames) /\ fbLink \in Seq(FeedbackFrames)
      /\ job \in Payloads \cup {NoJob}
      /\ issued \in 0 .. MaxCommands /\ restarts \in 0 .. MaxRestarts
      /\ executed \in Seq(Payloads) /\ regime \in Regimes
      /\ NoJob \notin Payloads
      /\ <<>> \in Seq(CommandFrames) /\ <<>> \in Seq(FeedbackFrames)
  BY ConstantFacts, EmptySeq DEF SessionsSafe, TypeOK, ReceiverSafe
<1>1. ASSUME SameReceiver PROVE ReceiverTypeOK' /\ ReceiverSafe' /\ BorrowedResultReal'
  BY <1>0, <1>1 DEF SameReceiver, ReceiverTypeOK, ReceiverSafe, CacheCoherent,
     PendingCommittable, EveryCommandAnswered, BorrowedResultStable,
     ExecutionsConserved, BorrowedResultReal
<1>2. CASE Issue
  <2>1. issued' \in 0 .. MaxCommands
    BY <1>2, IssueEffect, ConstantFacts
  <2> QED BY <1>0, <1>1, <1>2, <2>1, IssueEffect DEF SameReceiver, JobTracked
<1>3. CASE Transmit
  <2>1. snd.pending_frame \in CommandFrames
    BY <1>3, <1>0 DEF Transmit, MarkAccepted, SessionsSafe, SenderSafe, SenderTypeOK,
                      SequenceMatchesFrame, Outstanding
  <2>2. cmdLink' \in Seq(CommandFrames)
    BY <1>0, <1>3, <2>1, AppendFacts DEF Transmit
  <2>3. SameReceiver /\ UNCHANGED <<fbLink, job, issued, restarts, executed, regime>>
    BY <1>3 DEF Transmit, SameReceiver
  <2> QED BY <1>0, <1>1, <2>2, <2>3 DEF SameReceiver, JobTracked
<1>4. CASE \/ TransmitEnds \/ Timeout \/ TakeResult \/ Finished \/ UNCHANGED vars
  <2>1. SameReceiver
        /\ UNCHANGED <<cmdLink, fbLink, job, issued, restarts, executed, regime>>
    BY <1>4 DEF TransmitEnds, Timeout, TakeResult, Finished, vars, SameReceiver
  <2> QED BY <1>0, <1>1, <2>1 DEF SameReceiver, JobTracked
<1>5. CASE DeliverFeedback
  <2>1. /\ SameReceiver /\ fbLink # <<>> /\ fbLink' = Tail(fbLink)
        /\ UNCHANGED <<cmdLink, job, issued, restarts, executed, regime>>
    BY <1>5, FeedbackEffect
  <2>2. fbLink' \in Seq(FeedbackFrames)
    BY <1>0, <2>1, TailFacts
  <2> QED BY <1>0, <1>1, <2>1, <2>2 DEF SameReceiver, JobTracked
<1>6. CASE ReceiveCommand
  <2>1. cmdLink' \in Seq(CommandFrames)
    BY <1>0, <1>6, ReceiveEffect, TailFacts
  <2>2. Head(cmdLink).payload \in Payloads
    BY <1>6, ReceiveEffect DEF CommandFrames
  <2>3. ReceiverTypeOK' /\ ReceiverSafe'
        /\ UNCHANGED <<fbLink, issued, restarts, executed, regime>>
    BY <1>6, ReceiveEffect
  <2>4. BorrowedResultReal'
    BY <1>0, <1>6, ReceiveEffect DEF BorrowedResultReal, CacheCoherent
  <2>5. JobTracked' /\ job' \in Payloads \cup {NoJob}
    BY <1>0, <1>6, <2>2, ReceiveEffect DEF JobTracked
  <2> QED BY <1>0, <2>1, <2>3, <2>4, <2>5
<1>7. CASE RouteDecision
  <2>1. fbLink' \in Seq(FeedbackFrames)
    <3>1. ASSUME NEW g \in FeedbackFrames, fbLink' = Append(fbLink, g)
          PROVE  fbLink' \in Seq(FeedbackFrames)
      BY <1>0, <3>1, AppendFacts
    <3>2. fbLink' = fbLink \/ \E g \in FeedbackFrames : fbLink' = Append(fbLink, g)
      BY <1>7, RouteEffect
    <3> QED BY <1>0, <3>1, <3>2
  <2>2. /\ decision' = NoDecision /\ decision'.action = "NONE"
        /\ UNCHANGED <<rcv, cmdLink, job, issued, restarts, executed, regime>>
    BY <1>7, RouteEffect DEF NoDecision
  <2>3. ReceiverTypeOK' /\ ReceiverSafe' /\ BorrowedResultReal'
    BY <1>0, <2>2 DEF ReceiverTypeOK, ReceiverSafe, CacheCoherent,
       PendingCommittable, EveryCommandAnswered, BorrowedResultStable,
       ExecutionsConserved, BorrowedResultReal
  <2> QED BY <1>0, <2>1, <2>2, <2>3 DEF JobTracked
<1>8. CASE Execute
  <2>1. fbLink' \in Seq(FeedbackFrames) /\ executed' \in Seq(Payloads)
    <3> DEFINE g == ResponseFrame(rcv.pending_sequence, job)
    <3>1. /\ fbLink' = Append(fbLink, g) /\ g \in FeedbackFrames
          /\ executed' = Append(executed, job) /\ job \in Payloads
      BY <1>8, ExecuteEffect
    <3> HIDE DEF g
    <3> QED BY <1>0, <3>1, AppendFacts
  <2> QED BY <1>0, <1>8, <2>1, ExecuteEffect DEF JobTracked, BorrowedResultReal
<1>9. CASE Postpone
  BY <1>0, <1>9, PostponeEffect DEF JobTracked, BorrowedResultReal
<1>10. CASE LoseFrame
  <2>1. SameReceiver /\ UNCHANGED <<job, issued, restarts, executed, regime>>
    BY <1>10 DEF LoseFrame, sessions, SameReceiver
  <2>2. cmdLink' \in Seq(CommandFrames) /\ fbLink' \in Seq(FeedbackFrames)
    <3>1. CASE cmdLink # <<>> /\ cmdLink' = Tail(cmdLink) /\ UNCHANGED fbLink
      BY <1>0, <3>1, TailFacts
    <3>2. CASE fbLink # <<>> /\ fbLink' = Tail(fbLink) /\ UNCHANGED cmdLink
      BY <1>0, <3>2, TailFacts
    <3> QED BY <1>10, <3>1, <3>2 DEF LoseFrame
  <2> QED BY <1>0, <1>1, <2>1, <2>2 DEF SameReceiver, JobTracked
<1>11. ASSUME NEW q \in Seqs, Resynchronize(q)
       PROVE  /\ ReceiverTypeOK' /\ ReceiverSafe' /\ BorrowedResultReal' /\ JobTracked'
              /\ cmdLink' \in Seq(CommandFrames) /\ fbLink' \in Seq(FeedbackFrames)
              /\ job' \in Payloads \cup {NoJob}
              /\ UNCHANGED <<issued, restarts, executed, regime>>
  <2>1. decision'.action = "NONE"
    BY <1>11, ResynchronizeEffect DEF NoDecision
  <2> QED BY <1>0, <1>11, <2>1, ResynchronizeEffect DEF JobTracked, BorrowedResultReal
<1>12. ASSUME NEW q \in Seqs, RestartSender(q)
       PROVE  /\ SameReceiver /\ restarts' \in 0 .. MaxRestarts
              /\ UNCHANGED <<cmdLink, fbLink, job, issued, executed, regime>>
  <2>1. restarts' = restarts + 1 /\ restarts < MaxRestarts
    BY <1>12, RestartEffect
  <2>2. restarts' \in 0 .. MaxRestarts
    BY <1>0, <2>1, StopAndWaitAssumption
  <2> QED BY <1>12, <2>2, RestartEffect
<1>13. CASE (\E q \in Seqs : Resynchronize(q)) \/ (\E q \in Seqs : RestartSender(q))
  BY <1>0, <1>1, <1>11, <1>12, <1>13 DEF SameReceiver, JobTracked
<1> QED BY <1>2, <1>3, <1>4, <1>5, <1>6, <1>7, <1>8, <1>9, <1>10, <1>13 DEF Next

LEMMA SessionsSafeStep ==
  ASSUME SessionsSafe, [Next]_vars
  PROVE  SessionsSafe'
<1>1. SenderTypeOK' /\ SenderSafe'
  BY SenderPartStep DEF SessionsSafe
<1> QED BY <1>1, OthersStep DEF SessionsSafe, TypeOK

-----------------------------------------------------------------------------
(***************************************************************************)
(* At most once and in order, whatever goes wrong.                         *)
(***************************************************************************)

\* The commands the receiver may still get: those on the link, and the one
\* the sender may transmit again.
Ahead == {cmdLink[i] : i \in 1 .. Len(cmdLink)}
           \cup (IF Outstanding THEN {snd.pending_frame} ELSE {})

\* They arrive in the order they were issued in, and a retry carries the
\* sequence of the attempts before it.
LinkInOrder ==
  /\ \A i, j \in 1 .. Len(cmdLink) : i < j => cmdLink[i].payload <= cmdLink[j].payload
  /\ \A f \in Ahead : f.payload <= issued
  /\ \A f, g \in Ahead : f.payload = g.payload => f.sequence = g.sequence
  /\ Outstanding => snd.pending_frame.payload = issued

\* None is older than a command carried out; the last of these may be repeated
\* and is then known to the tracker.
ExecutedBehind ==
  /\ ExecutedAtMostOnceInOrder
  /\ \A i \in 1 .. Len(executed) :
       /\ executed[i] <= issued
       /\ \A f \in Ahead :
            /\ executed[i] <= f.payload
            /\ executed[i] = f.payload =>
                 /\ rcv.command_tracker.initialized
                 /\ f.sequence = rcv.command_tracker.last_accepted_sequence

\* The application's command lies between the two.
JobInOrder ==
  rcv.pending_valid =>
    /\ job <= issued
    /\ \A i \in 1 .. Len(executed) : executed[i] < job
    /\ \A f \in Ahead :
         job <= f.payload /\ (job = f.payload => f.sequence = rcv.pending_sequence)

CommandsInOrder == LinkInOrder /\ ExecutedBehind /\ JobInOrder

LEMMA AheadTyped ==
  ASSUME SessionsSafe
  PROVE  /\ Ahead \subseteq CommandFrames
         /\ Outstanding => snd.pending_frame \in CommandFrames
                           /\ snd.pending_frame.sequence = snd.pending_sequence
<1>1. cmdLink \in Seq(CommandFrames) /\ SenderTypeOK /\ SequenceMatchesFrame
  BY DEF SessionsSafe, TypeOK, SenderSafe
<1>2. \A i \in 1 .. Len(cmdLink) : cmdLink[i] \in CommandFrames
  BY <1>1, ElementOfSeq
<1> QED BY <1>1, <1>2 DEF Ahead, SenderTypeOK, SequenceMatchesFrame

\* What a step other than Issue does to the link and the retained frame.
LEMMA LinkCases ==
  ASSUME SessionsSafe, [Next]_vars, ~Issue
  PROVE  /\ issued' = issued
         /\ Outstanding' => Outstanding /\ snd'.pending_frame = snd.pending_frame
         /\ \/ cmdLink' = cmdLink
            \/ cmdLink' = Append(cmdLink, snd.pending_frame) /\ Outstanding
            \/ cmdLink # <<>> /\ cmdLink' = Tail(cmdLink)
            \/ cmdLink' = <<>>
<1> USE DEF Outstanding
<1>0. SenderTypeOK
  BY DEF SessionsSafe, TypeOK
<1>1. CASE Transmit
  BY <1>0, <1>1 DEF Transmit, MarkAccepted, SenderTypeOK
<1>2. CASE TransmitEnds \/ Timeout
  <2>1. SenderQuiet
    BY <1>0, <1>2, QuietSteps DEF TransmitEnds, Timeout
  <2> QED BY <1>2, <2>1 DEF SenderQuiet, TransmitEnds, Timeout
<1>3. CASE DeliverFeedback
  BY <1>3, FeedbackEffect DEF SenderQuiet
<1>4. CASE TakeResult
  BY <1>4, TakeResultEffect
<1>5. CASE ReceiveCommand
  BY <1>5, ReceiveEffect
<1>6. CASE RouteDecision \/ Execute \/ Postpone \/ Finished \/ UNCHANGED vars
  BY <1>6 DEF RouteDecision, Execute, Postpone, Finished, vars
<1>7. CASE LoseFrame
  BY <1>7 DEF LoseFrame, sessions
<1>8. ASSUME NEW q \in Seqs, Resynchronize(q)
      PROVE  issued' = issued /\ ~Outstanding' /\ cmdLink' = <<>>
  BY <1>8, ResynchronizeEffect
<1>9. ASSUME NEW q \in Seqs, RestartSender(q)
      PROVE  issued' = issued /\ ~Outstanding' /\ cmdLink' = cmdLink
  BY <1>9, RestartEffect
<1> QED BY <1>1, <1>2, <1>3, <1>4, <1>5, <1>6, <1>7, <1>8, <1>9 DEF Next

LEMMA AheadShrinks ==
  ASSUME SessionsSafe, [Next]_vars, ~Issue
  PROVE  Ahead' \subseteq Ahead
<1> DEFINE pending == IF Outstanding THEN {snd.pending_frame} ELSE {}
<1>1. cmdLink \in Seq(CommandFrames)
  BY DEF SessionsSafe, TypeOK
<1>2. pending' \subseteq pending
  BY LinkCases
<1>3. \A i \in 1 .. Len(cmdLink') : cmdLink'[i] \in Ahead
  <2>1. CASE cmdLink' = cmdLink
    BY <2>1 DEF Ahead
  <2>2. CASE cmdLink' = Append(cmdLink, snd.pending_frame) /\ Outstanding
    BY <1>1, <2>2, AppendFacts, AheadTyped DEF Ahead
  <2>3. CASE cmdLink # <<>> /\ cmdLink' = Tail(cmdLink)
    BY <1>1, <2>3, TailFacts DEF Ahead
  <2>4. CASE cmdLink' = <<>>
    BY <2>4
  <2> QED BY <2>1, <2>2, <2>3, <2>4, LinkCases
<1> QED BY <1>2, <1>3 DEF Ahead

\* A new command gets a number of its own.
LEMMA AheadOfIssue ==
  ASSUME SessionsSafe, Issue
  PROVE  /\ Ahead' = Ahead \cup {snd'.pending_frame}
         /\ snd'.pending_frame.payload = issued + 1
         /\ snd'.pending_frame.sequence = snd.next_sequence
<1>1. ~Outstanding /\ Outstanding' /\ cmdLink' = cmdLink
      /\ snd'.pending_frame = CommandFrame(snd.next_sequence, issued + 1)
  BY IssueEffect DEF Outstanding
<1>2. Ahead = {cmdLink[i] : i \in 1 .. Len(cmdLink)}
  BY <1>1 DEF Ahead
<1>3. Ahead' = {cmdLink[i] : i \in 1 .. Len(cmdLink)} \cup {snd'.pending_frame}
  BY <1>1 DEF Ahead
<1> QED BY <1>1, <1>2, <1>3 DEF CommandFrame

LEMMA LinkInOrderStep ==
  ASSUME SessionsSafe, SessionsSafe', LinkInOrder, [Next]_vars
  PROVE  LinkInOrder'
<1>1. /\ cmdLink \in Seq(CommandFrames) /\ issued \in Nat
      /\ \A f \in Ahead : f.payload \in Nat
  BY AheadTyped, ConstantFacts DEF SessionsSafe, TypeOK, CommandFrames
<1>2. CASE Issue
  <2>1. /\ issued' = issued + 1 /\ cmdLink' = cmdLink
        /\ Ahead' = Ahead \cup {snd'.pending_frame}
        /\ snd'.pending_frame.payload = issued + 1
    BY <1>2, IssueEffect, AheadOfIssue
  <2>2. \A f \in Ahead : f.payload < issued + 1
    BY <1>1 DEF LinkInOrder
  <2> QED BY <1>1, <2>1, <2>2 DEF LinkInOrder
<1>3. CASE ~Issue
  <2>1. Ahead' \subseteq Ahead /\ issued' = issued
    BY <1>3, AheadShrinks, LinkCases
  <2>2. Outstanding' => Outstanding /\ snd'.pending_frame = snd.pending_frame
    BY <1>3, LinkCases
  <2>3. \A i, j \in 1 .. Len(cmdLink') : i < j => cmdLink'[i].payload <= cmdLink'[j].payload
    <3>1. CASE cmdLink' = cmdLink
      BY <3>1 DEF LinkInOrder
    <3>2. CASE cmdLink' = Append(cmdLink, snd.pending_frame) /\ Outstanding
      <4>1. /\ Len(cmdLink') = Len(cmdLink) + 1 /\ Len(cmdLink) \in Nat
            /\ \A i \in 1 .. Len(cmdLink) : cmdLink'[i] = cmdLink[i]
            /\ cmdLink'[Len(cmdLink) + 1] = snd.pending_frame
        BY <1>1, <3>2, AppendFacts, AheadTyped
      <4>2. \A i \in 1 .. Len(cmdLink) : cmdLink[i].payload <= snd.pending_frame.payload
        BY <3>2 DEF LinkInOrder, Ahead
      <4> QED BY <4>1, <4>2 DEF LinkInOrder
    <3>3. CASE cmdLink # <<>> /\ cmdLink' = Tail(cmdLink)
      BY <1>1, <3>3, TailFacts DEF LinkInOrder
    <3>4. CASE cmdLink' = <<>>
      BY <3>4
    <3> QED BY <1>3, <3>1, <3>2, <3>3, <3>4, LinkCases
  <2> QED BY <2>1, <2>2, <2>3 DEF LinkInOrder
<1> QED BY <1>2, <1>3

\* What a step does to the receiver's side of the order.
LEMMA ReceiverCases ==
  ASSUME SessionsSafe, [Next]_vars
  PROVE  \/ UNCHANGED <<rcv, job, executed>>
         \/ ReceiveCommand \/ Execute \/ Postpone
         \/ \E q \in Seqs : Resynchronize(q)
  BY DEF Next, vars, Issue, Transmit, TransmitEnds, Timeout, DeliverFeedback,
         TakeResult, RouteDecision, LoseFrame, RestartSender, Finished, sessions

\* A command taken for new is not the one accepted last.
LEMMA NewIsNotLast ==
  ASSUME SessionsSafe, NEW q, CanCommit(rcv.command_tracker, q),
         rcv.command_tracker.initialized
  PROVE  q # rcv.command_tracker.last_accepted_sequence
<1>1. rcv.command_tracker.last_accepted_sequence \in Seqs
  BY DEF SessionsSafe, TypeOK, ReceiverTypeOK, Trackers
<1>2. q = NextSeq(rcv.command_tracker.last_accepted_sequence)
  BY DEF CanCommit, SessionsSafe, ReceiverSafe, CacheCoherent
<1> QED BY <1>1, <1>2, NextSeqDiffers

LEMMA OrderStep ==
  ASSUME SessionsSafe, SessionsSafe', LinkInOrder, ExecutedBehind, JobInOrder, [Next]_vars
  PROVE  ExecutedBehind' /\ JobInOrder'
<1>1. /\ cmdLink \in Seq(CommandFrames) /\ issued \in Nat
      /\ executed \in Seq(Payloads) /\ job \in Payloads \cup {NoJob}
      /\ \A f \in Ahead : f.payload \in Nat /\ f \in CommandFrames
      /\ \A i \in 1 .. Len(executed) : executed[i] \in Nat
      /\ Payloads \subseteq Nat /\ NoJob \in Nat
  <2>1. /\ cmdLink \in Seq(CommandFrames) /\ issued \in Nat
        /\ executed \in Seq(Payloads) /\ job \in Payloads \cup {NoJob}
    BY ConstantFacts DEF SessionsSafe, TypeOK
  <2>2. Payloads \subseteq Nat /\ NoJob \in Nat
    BY ConstantFacts DEF NoJob
  <2>3. \A f \in Ahead : f.payload \in Payloads /\ f \in CommandFrames
    BY AheadTyped DEF CommandFrames
  <2>4. \A i \in 1 .. Len(executed) : executed[i] \in Payloads
    BY <2>1, ElementOfSeq
  <2> QED BY <2>1, <2>2, <2>3, <2>4
<1>2. CASE Issue
  <2>1. /\ issued' = issued + 1 /\ UNCHANGED <<rcv, job, executed>>
        /\ Ahead' = Ahead \cup {snd'.pending_frame}
        /\ snd'.pending_frame.payload = issued + 1
    BY <1>2, IssueEffect, AheadOfIssue DEF SameReceiver
  <2>2. rcv.pending_valid => job \in Nat
    BY <1>1
  <2>3. ExecutedBehind'
    BY <1>1, <2>1 DEF ExecutedBehind, ExecutedAtMostOnceInOrder
  <2>4. JobInOrder'
    BY <1>1, <2>1, <2>2 DEF JobInOrder
  <2> QED BY <2>3, <2>4
<1>3. CASE ~Issue /\ UNCHANGED <<rcv, job, executed>>
  <2>1. Ahead' \subseteq Ahead /\ issued' = issued
    BY <1>3, AheadShrinks, LinkCases
  <2> QED BY <1>3, <2>1
          DEF ExecutedBehind, JobInOrder, ExecutedAtMostOnceInOrder
<1>4. CASE ReceiveCommand
  <2> DEFINE f == Head(cmdLink)
  <2>1. Ahead' \subseteq Ahead /\ issued' = issued /\ executed' = executed
        /\ rcv'.command_tracker = rcv.command_tracker
        /\ cmdLink # <<>>
    <3>1. ~Issue
      BY <1>4, IssueEffect, ReceiveEffect
    <3> QED BY <1>4, <3>1, AheadShrinks, LinkCases, ReceiveEffect
  <2>2. ExecutedBehind'
    BY <2>1 DEF ExecutedBehind, ExecutedAtMostOnceInOrder
  <2>3. JobInOrder'
    <3>1. CASE decision'.action # "EXECUTE"
      BY <1>4, <2>1, <3>1, ReceiveEffect DEF JobInOrder
    <3>2. CASE decision'.action = "EXECUTE"
      <4>1. /\ CanCommit(rcv.command_tracker, f.sequence)
            /\ rcv'.pending_valid /\ rcv'.pending_sequence = f.sequence
            /\ job' = f.payload
        BY <1>4, <3>2, ReceiveEffect
      <4>2. f \in Ahead /\ f = cmdLink[1] /\ 1 \in 1 .. Len(cmdLink)
        BY <1>1, <2>1, TailFacts DEF Ahead
      <4> HIDE DEF f
      <4>3. f.payload <= issued
        BY <4>2 DEF LinkInOrder
      <4>4. \A i \in 1 .. Len(executed) : executed[i] < f.payload
        <5>1. \A i \in 1 .. Len(executed) :
                executed[i] <= f.payload /\ executed[i] # f.payload
          BY <4>1, <4>2, NewIsNotLast DEF ExecutedBehind
        <5> QED BY <1>1, <4>2, <5>1
      <4>5. \A g \in Ahead : f.payload <= g.payload
        <5>1. \A i \in 1 .. Len(cmdLink) : f.payload <= cmdLink[i].payload
          BY <1>1, <4>2 DEF LinkInOrder
        <5>2. Outstanding => f.payload <= snd.pending_frame.payload
          BY <4>3 DEF LinkInOrder
        <5> QED BY <5>1, <5>2 DEF Ahead
      <4>6. \A g \in Ahead : f.payload = g.payload => g.sequence = f.sequence
        BY <4>2 DEF LinkInOrder
      <4> QED BY <2>1, <4>1, <4>3, <4>4, <4>5, <4>6 DEF JobInOrder
    <3> QED BY <3>1, <3>2
  <2> QED BY <2>2, <2>3
<1>5. CASE Execute
  <2> DEFINE n == Len(executed)
  <2>1. Ahead' \subseteq Ahead /\ issued' = issued
    <3>1. ~Issue
      BY <1>5, IssueEffect, ExecuteEffect, ConstantFacts
    <3> QED BY <1>5, <3>1, AheadShrinks, LinkCases
  <2>2. /\ rcv.pending_valid /\ ~rcv'.pending_valid
        /\ rcv'.command_tracker.initialized
        /\ rcv'.command_tracker.last_accepted_sequence = rcv.pending_sequence
        /\ executed' = Append(executed, job) /\ job \in Payloads
    BY <1>5, ExecuteEffect
  <2>3. /\ Len(executed') = n + 1 /\ n \in Nat
        /\ \A i \in 1 .. n : executed'[i] = executed[i]
        /\ executed'[n + 1] = job
    BY <1>1, <2>2, AppendFacts
  <2>4. /\ job <= issued /\ job \in Nat
        /\ \A i \in 1 .. n : executed[i] < job
        /\ \A f \in Ahead :
             job <= f.payload /\ (job = f.payload => f.sequence = rcv.pending_sequence)
    BY <1>1, <2>2 DEF JobInOrder
  <2> HIDE DEF n
  <2>5. \A i \in 1 .. n : executed[i] \in Nat /\ executed[i] <= issued
    BY <1>1 DEF ExecutedBehind, n
  <2>6. \A i, j \in 1 .. Len(executed') : i < j => executed'[i] < executed'[j]
    <3>1. \A i, j \in 1 .. n : i < j => executed[i] < executed[j]
      BY DEF ExecutedBehind, ExecutedAtMostOnceInOrder, n
    <3> QED BY <2>3, <2>4, <3>1
  <2>7. \A i \in 1 .. Len(executed') : executed'[i] <= issued'
    BY <2>1, <2>3, <2>4, <2>5
  <2>8. ASSUME NEW i \in 1 .. Len(executed'), NEW f \in Ahead'
        PROVE  /\ executed'[i] <= f.payload
               /\ executed'[i] = f.payload => f.sequence = rcv.pending_sequence
    <3>1. f \in Ahead /\ f.payload \in Nat /\ job <= f.payload
      BY <1>1, <2>1, <2>4
    <3>2. CASE i = n + 1
      BY <2>3, <2>4, <3>1, <3>2
    <3>3. CASE i \in 1 .. n
      BY <2>3, <2>4, <2>5, <3>1, <3>3
    <3> QED BY <2>3, <3>2, <3>3
  <2> QED BY <2>2, <2>6, <2>7, <2>8
          DEF ExecutedBehind, ExecutedAtMostOnceInOrder, JobInOrder
<1>6. CASE Postpone
  <2>1. Ahead' \subseteq Ahead /\ issued' = issued
    <3>1. ~Issue
      BY <1>6, IssueEffect, PostponeEffect, ConstantFacts
    <3> QED BY <1>6, <3>1, AheadShrinks, LinkCases
  <2> QED BY <1>6, <2>1, PostponeEffect
          DEF ExecutedBehind, JobInOrder, ExecutedAtMostOnceInOrder
<1>7. ASSUME NEW q \in Seqs, Resynchronize(q) PROVE ExecutedBehind' /\ JobInOrder'
  <2>1. /\ snd'.state = "IDLE" /\ cmdLink' = <<>> /\ ~rcv'.pending_valid
        /\ UNCHANGED <<issued, executed>>
    BY <1>7, ResynchronizeEffect
  <2>2. Ahead' = {}
    BY <2>1 DEF Ahead, Outstanding
  <2> QED BY <2>1, <2>2 DEF ExecutedBehind, JobInOrder, ExecutedAtMostOnceInOrder
<1> QED BY <1>2, <1>3, <1>4, <1>5, <1>6, <1>7, ReceiverCases

OrderInv == SessionsSafe /\ CommandsInOrder

LEMMA OrderInit == Init => OrderInv
<1> SUFFICES ASSUME Init PROVE OrderInv
  OBVIOUS
<1>1. /\ SessionsSafe /\ cmdLink = <<>> /\ executed = <<>>
      /\ ~Outstanding /\ ~rcv.pending_valid
  <2>1. snd.state = "IDLE" /\ ~rcv.pending_valid
    BY DEF Init, SenderInit, SenderStart, ReceiverInit, ReceiverStart
  <2> QED BY <2>1, SessionsSafeInit DEF Init, Outstanding
<1>2. Ahead = {}
  BY <1>1 DEF Ahead
<1> QED BY <1>1, <1>2 DEF OrderInv, CommandsInOrder, LinkInOrder, ExecutedBehind,
                          JobInOrder, ExecutedAtMostOnceInOrder

LEMMA OrderInvStep == ASSUME OrderInv, [Next]_vars PROVE OrderInv'
  BY SessionsSafeStep, LinkInOrderStep, OrderStep DEF OrderInv, CommandsInOrder

LEMMA OrderInvariant == Spec => []OrderInv
<1>1. OrderInv /\ [Next]_vars => OrderInv'
  BY OrderInvStep
<1> QED BY <1>1, OrderInit, PTL DEF Spec

\* No command is carried out twice and none before an older one, for any number
\* of attempts, however short the sequence, whatever the links lose, the
\* application defers and the transport fails to send, and although the sender
\* reboots without telling the receiver.
THEOREM ExecutesAtMostOnceInOrder == Spec => []ExecutedAtMostOnceInOrder
<1>1. OrderInv => ExecutedAtMostOnceInOrder
  BY DEF OrderInv, CommandsInOrder, ExecutedBehind
<1> QED BY <1>1, OrderInvariant, PTL

-----------------------------------------------------------------------------
(***************************************************************************)
(* Agreement of the two ends, as long as the sender does not reboot.       *)
(***************************************************************************)
Current == snd.pending_sequence

\* q is the sequence of the command accepted last.
Accepted(q) ==
  /\ rcv.command_tracker.initialized
  /\ rcv.command_tracker.last_accepted_sequence = q

CmdsHave(q) == \A i \in 1 .. Len(cmdLink) : cmdLink[i].sequence = q
FbsHave(q) == \A i \in 1 .. Len(fbLink) : fbLink[i].sequence = q
DecisionHas(q) == decision # NoDecision => decision.sequence = q

\* No command is ever out of order for the receiver.
NothingRefused ==
  /\ snd.state # "DESYNCHRONIZED"
  /\ decision.action # "OUT_OF_ORDER"
  /\ \A i \in 1 .. Len(fbLink) :
       ~(fbLink[i].type = "ACK" /\ fbLink[i].status = "OUT_OF_ORDER")

\* Between two commands all that is left in the loop is about the last one
\* accepted, and the receiver expects the next.
IdleAgrees == ~Outstanding =>
  /\ ~rcv.pending_valid
  /\ rcv.command_tracker.initialized =>
       rcv.command_tracker.expected_sequence = snd.next_sequence
  /\ \A i \in 1 .. Len(cmdLink) : Accepted(cmdLink[i].sequence)
  /\ \A i \in 1 .. Len(fbLink) : Accepted(fbLink[i].sequence)
  /\ decision # NoDecision => Accepted(decision.sequence)

\* The receiver expects the current command, executes it or has accepted it.
ReceiverAgrees == Outstanding =>
  /\ rcv.command_tracker.initialized =>
       Accepted(Current) \/ rcv.command_tracker.expected_sequence = Current
  /\ rcv.pending_valid =>
       rcv.pending_sequence = Current /\ job = issued /\ ~Accepted(Current)
  /\ Accepted(Current) =>
       /\ rcv.cached_result = issued
       /\ \E i \in 1 .. Len(executed) : executed[i] = issued

\* A command on the link is the current one or a repeat of the one before.
CommandsAgree == Outstanding =>
  \A i \in 1 .. Len(cmdLink) :
    /\ cmdLink[i].sequence = Current => cmdLink[i].payload = issued
    /\ cmdLink[i].sequence # Current =>
         Accepted(cmdLink[i].sequence) /\ ~rcv.pending_valid

\* What travels round the loop keeps its order: nothing of the command before
\* comes after something of the current one.
OldestFirst == Outstanding =>
  /\ \A i, j \in 1 .. Len(cmdLink) :
       i < j /\ cmdLink[i].sequence = Current => cmdLink[j].sequence = Current
  /\ \A i, j \in 1 .. Len(fbLink) :
       i < j /\ fbLink[i].sequence = Current => fbLink[j].sequence = Current
  /\ \A i \in 1 .. Len(fbLink) :
       fbLink[i].sequence = Current => DecisionHas(Current) /\ CmdsHave(Current)
  /\ decision # NoDecision /\ decision.sequence = Current => CmdsHave(Current)
  /\ rcv.pending_valid \/ Accepted(Current) =>
       DecisionHas(Current) /\ CmdsHave(Current)

\* A result under the current sequence is the current command's.
ResultsAgree == Outstanding =>
  /\ \A i \in 1 .. Len(fbLink) :
       fbLink[i].type = "RESPONSE" /\ fbLink[i].sequence = Current =>
         Accepted(Current) /\ fbLink[i].result = issued
  /\ decision.action = "RESEND_RESULT" /\ decision.sequence = Current =>
       Accepted(Current) /\ decision.result = issued
  /\ snd.state = "RESULT_READY" =>
       /\ Accepted(Current) /\ FbsHave(Current)
       /\ snd.result = issued

LoopAgrees ==
  /\ NothingRefused /\ IdleAgrees /\ ReceiverAgrees
  /\ CommandsAgree /\ OldestFirst /\ ResultsAgree

\* The step of the loop's parts that only lets frames go and leaves the
\* sender's command, the receiver and the application alone.
LEMMA LettingGoAgrees ==
  ASSUME LoopAgrees, SenderTypeOK, SenderTypeOK', SenderQuiet, SameReceiver,
         UNCHANGED <<job, issued, executed>>,
         NEW c \in Nat, NEW d \in Nat,
         Len(cmdLink') \in Nat, Len(fbLink') \in Nat,
         \A i \in 1 .. Len(cmdLink') :
           i + c \in 1 .. Len(cmdLink) /\ cmdLink'[i] = cmdLink[i + c],
         \A i \in 1 .. Len(fbLink') :
           i + d \in 1 .. Len(fbLink) /\ fbLink'[i] = fbLink[i + d]
  PROVE  LoopAgrees'
<1>1. /\ Current' = Current /\ Outstanding' = Outstanding
      /\ rcv' = rcv /\ decision' = decision
      /\ snd'.result = snd.result /\ snd'.next_sequence = snd.next_sequence
      /\ snd'.state = "RESULT_READY" => snd.state = "RESULT_READY"
      /\ snd'.state = "DESYNCHRONIZED" => snd.state = "DESYNCHRONIZED"
  BY DEF SenderQuiet, SameReceiver, Outstanding, Current
<1>2. ASSUME NEW q PROVE /\ Accepted(q)' = Accepted(q)
                         /\ DecisionHas(q)' = DecisionHas(q)
                         /\ CmdsHave(q) => CmdsHave(q)'
                         /\ FbsHave(q) => FbsHave(q)'
  BY <1>1 DEF Accepted, DecisionHas, CmdsHave, FbsHave
<1>3. NothingRefused'
  BY <1>1 DEF LoopAgrees, NothingRefused
<1>4. IdleAgrees'
  BY <1>1, <1>2 DEF LoopAgrees, IdleAgrees
<1>5. ReceiverAgrees'
  BY <1>1, <1>2 DEF LoopAgrees, ReceiverAgrees
<1>6. CommandsAgree'
  BY <1>1, <1>2 DEF LoopAgrees, CommandsAgree
<1>7. OldestFirst'
  <2> SUFFICES ASSUME Outstanding PROVE OldestFirst'
    BY <1>1 DEF OldestFirst
  <2>1. OldestFirst /\ Outstanding'
    BY <1>1 DEF LoopAgrees
  <2>2. \A i, j \in 1 .. Len(cmdLink') :
          i < j /\ cmdLink'[i].sequence = Current' => cmdLink'[j].sequence = Current'
    <3> SUFFICES ASSUME NEW i \in 1 .. Len(cmdLink'), NEW j \in 1 .. Len(cmdLink'),
                        i < j, cmdLink'[i].sequence = Current'
                 PROVE  cmdLink'[j].sequence = Current'
      OBVIOUS
    <3>1. /\ i + c \in 1 .. Len(cmdLink) /\ cmdLink'[i] = cmdLink[i + c]
          /\ j + c \in 1 .. Len(cmdLink) /\ cmdLink'[j] = cmdLink[j + c]
      OBVIOUS
    <3>2. i + c < j + c
      OBVIOUS
    <3>3. cmdLink[i + c].sequence = Current
      BY <1>1, <3>1
    <3>4. cmdLink[j + c].sequence = Current
      BY <2>1, <3>1, <3>2, <3>3 DEF OldestFirst
    <3> QED BY <1>1, <3>1, <3>4
  <2>3. \A i, j \in 1 .. Len(fbLink') :
          i < j /\ fbLink'[i].sequence = Current' => fbLink'[j].sequence = Current'
    <3> SUFFICES ASSUME NEW i \in 1 .. Len(fbLink'), NEW j \in 1 .. Len(fbLink'),
                        i < j, fbLink'[i].sequence = Current'
                 PROVE  fbLink'[j].sequence = Current'
      OBVIOUS
    <3>1. /\ i + d \in 1 .. Len(fbLink) /\ fbLink'[i] = fbLink[i + d]
          /\ j + d \in 1 .. Len(fbLink) /\ fbLink'[j] = fbLink[j + d]
      OBVIOUS
    <3>2. i + d < j + d
      OBVIOUS
    <3>3. fbLink[i + d].sequence = Current
      BY <1>1, <3>1
    <3>4. fbLink[j + d].sequence = Current
      BY <2>1, <3>1, <3>2, <3>3 DEF OldestFirst
    <3> QED BY <1>1, <3>1, <3>4
  <2>4. /\ Accepted(Current)' = Accepted(Current)
        /\ DecisionHas(Current)' = DecisionHas(Current)
        /\ CmdsHave(Current) => CmdsHave(Current)'
    BY <1>1 DEF Accepted, DecisionHas, CmdsHave
  <2>5. \A i \in 1 .. Len(fbLink') :
          fbLink'[i].sequence = Current' => DecisionHas(Current)' /\ CmdsHave(Current)'
    BY <1>1, <2>1, <2>4 DEF OldestFirst
  <2>6. decision' # NoDecision /\ decision'.sequence = Current' => CmdsHave(Current)'
    BY <1>1, <2>1, <2>4 DEF OldestFirst
  <2>7. rcv'.pending_valid \/ Accepted(Current)' =>
          DecisionHas(Current)' /\ CmdsHave(Current)'
    BY <1>1, <2>1, <2>4 DEF OldestFirst
  <2> QED BY <2>2, <2>3, <2>5, <2>6, <2>7 DEF OldestFirst
<1>8. ResultsAgree'
  BY <1>1, <1>2 DEF LoopAgrees, ResultsAgree
<1> QED BY <1>3, <1>4, <1>5, <1>6, <1>7, <1>8 DEF LoopAgrees

\* A frame let go from either link or none.
LEMMA QuietAgrees ==
  ASSUME SessionsSafe, SessionsSafe', LoopAgrees, SenderQuiet, SameReceiver,
         UNCHANGED <<job, issued, executed>>,
         \/ cmdLink' = cmdLink
         \/ cmdLink # <<>> /\ cmdLink' = Tail(cmdLink),
         \/ fbLink' = fbLink
         \/ fbLink # <<>> /\ fbLink' = Tail(fbLink)
  PROVE  LoopAgrees'
<1>1. /\ cmdLink \in Seq(CommandFrames) /\ fbLink \in Seq(FeedbackFrames)
      /\ SenderTypeOK /\ SenderTypeOK'
      /\ Len(cmdLink') \in Nat /\ Len(fbLink') \in Nat
  BY LenProperties DEF SessionsSafe, TypeOK
<1>2. \E c \in Nat : \A i \in 1 .. Len(cmdLink') :
        i + c \in 1 .. Len(cmdLink) /\ cmdLink'[i] = cmdLink[i + c]
  <2>1. CASE cmdLink' = cmdLink
    <3>1. \A i \in 1 .. Len(cmdLink') :
            i + 0 \in 1 .. Len(cmdLink) /\ cmdLink'[i] = cmdLink[i + 0]
      BY <2>1
    <3> QED BY <3>1
  <2>2. CASE cmdLink # <<>> /\ cmdLink' = Tail(cmdLink)
    BY <1>1, <2>2, TailFacts
  <2> QED BY <2>1, <2>2
<1>3. \E d \in Nat : \A i \in 1 .. Len(fbLink') :
        i + d \in 1 .. Len(fbLink) /\ fbLink'[i] = fbLink[i + d]
  <2>1. CASE fbLink' = fbLink
    <3>1. \A i \in 1 .. Len(fbLink') :
            i + 0 \in 1 .. Len(fbLink) /\ fbLink'[i] = fbLink[i + 0]
      BY <2>1
    <3> QED BY <3>1
  <2>2. CASE fbLink # <<>> /\ fbLink' = Tail(fbLink)
    BY <1>1, <2>2, TailFacts
  <2> QED BY <2>1, <2>2
<1>4. PICK c \in Nat : \A i \in 1 .. Len(cmdLink') :
        i + c \in 1 .. Len(cmdLink) /\ cmdLink'[i] = cmdLink[i + c]
  BY <1>2
<1>5. PICK d \in Nat : \A i \in 1 .. Len(fbLink') :
        i + d \in 1 .. Len(fbLink) /\ fbLink'[i] = fbLink[i + d]
  BY <1>3
<1> QED BY <1>1, <1>4, <1>5, LettingGoAgrees

LEMMA IssueAgrees ==
  ASSUME SessionsSafe, SessionsSafe', LinkInOrder, LoopAgrees, Issue
  PROVE  LoopAgrees'
<1>1. /\ ~Outstanding /\ snd'.state = "READY_TO_SEND" /\ Outstanding'
      /\ Current' = snd.next_sequence
      /\ rcv' = rcv /\ decision' = decision
      /\ issued' = issued + 1 /\ issued \in Nat
      /\ UNCHANGED <<cmdLink, fbLink, job, executed>>
  BY IssueEffect, ConstantFacts
     DEF Outstanding, SameReceiver, Current, SessionsSafe, TypeOK
<1>2. \A i \in 1 .. Len(cmdLink) : cmdLink[i].payload # issued'
  <2>1. ASSUME NEW i \in 1 .. Len(cmdLink) PROVE cmdLink[i].payload # issued'
    <3>1. cmdLink[i] \in Ahead
      BY DEF Ahead
    <3>2. cmdLink[i].payload <= issued /\ cmdLink[i].payload \in Nat
      BY <3>1, AheadTyped, ConstantFacts DEF LinkInOrder, CommandFrames
    <3> QED BY <1>1, <3>2
  <2> QED BY <2>1
<1>3. ASSUME NEW q, Accepted(q) PROVE q # Current'
  <2>1. /\ q \in Seqs /\ Current' = NextSeq(q)
    BY <1>1, <1>3 DEF Accepted, LoopAgrees, IdleAgrees, SessionsSafe, TypeOK,
       ReceiverTypeOK, Trackers, ReceiverSafe, CacheCoherent
  <2> QED BY <2>1, NextSeqDiffers
<1>4. ASSUME NEW q PROVE Accepted(q)' <=> Accepted(q)
  BY <1>1 DEF Accepted
<1>5. ~Accepted(Current)'
  BY <1>1, <1>3 DEF Accepted
<1>6. /\ ~rcv.pending_valid
      /\ \A i \in 1 .. Len(cmdLink) :
           Accepted(cmdLink[i].sequence) /\ cmdLink[i].sequence # Current'
      /\ \A i \in 1 .. Len(fbLink) : fbLink[i].sequence # Current'
      /\ decision # NoDecision => decision.sequence # Current'
  BY <1>1, <1>3 DEF LoopAgrees, IdleAgrees
<1>7. NothingRefused' /\ IdleAgrees'
  BY <1>1 DEF LoopAgrees, NothingRefused, IdleAgrees
<1>8. ReceiverAgrees'
  BY <1>1, <1>5, <1>6 DEF LoopAgrees, IdleAgrees, ReceiverAgrees
<1>9. CommandsAgree'
  BY <1>1, <1>4, <1>6 DEF CommandsAgree
<1>10. OldestFirst'
  BY <1>1, <1>5, <1>6 DEF OldestFirst
<1>11. ResultsAgree'
  <2>1. decision.action = "RESEND_RESULT" => decision # NoDecision
    BY DEF NoDecision
  <2> QED BY <1>1, <1>6, <2>1 DEF ResultsAgree
<1> QED BY <1>7, <1>8, <1>9, <1>10, <1>11 DEF LoopAgrees

\* A command put on the link carries the current sequence and comes last.
LEMMA TransmitAgrees ==
  ASSUME SessionsSafe, SessionsSafe', LinkInOrder, LoopAgrees, Transmit
  PROVE  LoopAgrees'
<1> DEFINE f == snd.pending_frame  n == Len(cmdLink)
<1>1. /\ cmdLink \in Seq(CommandFrames) /\ SenderTypeOK /\ MarkAccepted
      /\ cmdLink' = Append(cmdLink, f)
      /\ UNCHANGED <<rcv, decision, fbLink, job, issued, executed>>
      /\ Outstanding
  BY DEF SessionsSafe, TypeOK, Transmit, MarkAccepted, Outstanding
<1>2. SenderQuiet
  BY <1>1, QuietSteps
<1>3. /\ f \in CommandFrames /\ f.sequence = Current /\ f.payload = issued
  BY <1>1, AheadTyped DEF Current, LinkInOrder
<1> HIDE DEF f
<1>4. /\ Current' = Current /\ Outstanding' /\ snd'.result = snd.result
      /\ snd'.state = "RESULT_READY" => snd.state = "RESULT_READY"
      /\ snd'.state = "DESYNCHRONIZED" => snd.state = "DESYNCHRONIZED"
  BY <1>1, <1>2 DEF SenderQuiet, Outstanding, Current
<1>5. /\ Len(cmdLink') = n + 1 /\ n \in Nat
      /\ \A i \in 1 .. n : cmdLink'[i] = cmdLink[i]
      /\ cmdLink'[n + 1] = f
  BY <1>1, <1>3, AppendFacts
<1>6. \A i \in 1 .. Len(cmdLink') : i \in 1 .. n \/ i = n + 1
  BY <1>5
<1>8. CmdsHave(Current) => CmdsHave(Current)'
  BY <1>3, <1>4, <1>5, <1>6 DEF CmdsHave
<1>9. /\ Accepted(Current)' <=> Accepted(Current)
      /\ DecisionHas(Current)' <=> DecisionHas(Current)
      /\ FbsHave(Current)' <=> FbsHave(Current)
  BY <1>1, <1>4 DEF Accepted, DecisionHas, FbsHave
<1>10. NothingRefused' /\ IdleAgrees'
  BY <1>1, <1>4 DEF LoopAgrees, NothingRefused, IdleAgrees
<1>11. ReceiverAgrees'
  BY <1>1, <1>4, <1>9 DEF LoopAgrees, ReceiverAgrees
<1>12. CommandsAgree'
  <2>1. \A i \in 1 .. n :
          /\ cmdLink[i].sequence = Current => cmdLink[i].payload = issued
          /\ cmdLink[i].sequence # Current =>
               Accepted(cmdLink[i].sequence) /\ ~rcv.pending_valid
    BY <1>1 DEF LoopAgrees, CommandsAgree
  <2> SUFFICES ASSUME NEW i \in 1 .. Len(cmdLink')
               PROVE  /\ cmdLink'[i].sequence = Current' => cmdLink'[i].payload = issued'
                      /\ cmdLink'[i].sequence # Current' =>
                           Accepted(cmdLink[i].sequence)' /\ ~rcv'.pending_valid
    BY DEF CommandsAgree
  <2>2. CASE i = n + 1
    BY <1>1, <1>3, <1>4, <1>5, <2>2
  <2>3. CASE i \in 1 .. n
    <3>1. cmdLink'[i] = cmdLink[i]
      BY <1>5, <2>3
    <3>2. Accepted(cmdLink[i].sequence) => Accepted(cmdLink[i].sequence)'
      BY <1>1, <3>1 DEF Accepted
    <3> QED BY <1>1, <1>4, <2>1, <2>3, <3>1, <3>2
  <2> QED BY <1>6, <2>2, <2>3
<1>13. OldestFirst'
  <2>1. \A i, j \in 1 .. Len(cmdLink') :
          i < j /\ cmdLink'[i].sequence = Current' => cmdLink'[j].sequence = Current'
    <3> SUFFICES ASSUME NEW i \in 1 .. Len(cmdLink'), NEW j \in 1 .. Len(cmdLink'),
                        i < j, cmdLink'[i].sequence = Current'
                 PROVE  cmdLink'[j].sequence = Current'
      OBVIOUS
    <3>1. CASE j = n + 1
      BY <1>3, <1>4, <1>5, <3>1
    <3>2. CASE j \in 1 .. n
      <4>1. i \in 1 .. n
        BY <1>5, <3>2
      <4>2. cmdLink[j].sequence = Current
        BY <1>1, <1>4, <1>5, <3>2, <4>1 DEF LoopAgrees, OldestFirst
      <4> QED BY <1>4, <1>5, <3>2, <4>2
    <3> QED BY <1>6, <3>1, <3>2
  <2>2. /\ \A i, j \in 1 .. Len(fbLink) :
             i < j /\ fbLink[i].sequence = Current => fbLink[j].sequence = Current
        /\ \A i \in 1 .. Len(fbLink) :
             fbLink[i].sequence = Current => DecisionHas(Current) /\ CmdsHave(Current)
        /\ decision # NoDecision /\ decision.sequence = Current => CmdsHave(Current)
        /\ rcv.pending_valid \/ Accepted(Current) =>
             DecisionHas(Current) /\ CmdsHave(Current)
    BY <1>1 DEF LoopAgrees, OldestFirst
  <2> QED BY <1>1, <1>4, <1>8, <1>9, <2>1, <2>2 DEF OldestFirst
<1>14. ResultsAgree'
  BY <1>1, <1>4, <1>9 DEF LoopAgrees, ResultsAgree
<1> QED BY <1>10, <1>11, <1>12, <1>13, <1>14 DEF LoopAgrees

\* A response the sender takes comes with the current command's result.
LEMMA FeedbackAgrees ==
  ASSUME SessionsSafe, SessionsSafe', LoopAgrees, DeliverFeedback
  PROVE  LoopAgrees'
<1> DEFINE f == Head(fbLink)
<1>1. /\ fbLink \in Seq(FeedbackFrames) /\ fbLink # <<>> /\ fbLink' = Tail(fbLink)
      /\ SameReceiver /\ UNCHANGED <<cmdLink, job, issued, executed>>
  BY FeedbackEffect DEF SessionsSafe, TypeOK
<1>2. /\ f = fbLink[1] /\ 1 \in 1 .. Len(fbLink)
      /\ Len(fbLink) \in Nat /\ Len(fbLink') = Len(fbLink) - 1
      /\ \A i \in 1 .. Len(fbLink') :
           i + 1 \in 1 .. Len(fbLink) /\ fbLink'[i] = fbLink[i + 1]
  BY <1>1, TailFacts
<1>3. CASE SenderQuiet
  BY <1>1, <1>3, QuietAgrees
<1>4. CASE ~SenderQuiet
  <2>1. /\ f.sequence = snd.pending_sequence
        /\ snd.state \notin {"IDLE", "RESULT_READY", "DESYNCHRONIZED"}
        /\ snd'.pending_sequence = snd.pending_sequence
        /\ \/ /\ f.type = "RESPONSE"
              /\ snd'.state = "RESULT_READY" /\ snd'.result = f.result
           \/ f.type = "ACK" /\ f.status = "OUT_OF_ORDER"
    BY <1>4, FeedbackEffect
  <2> HIDE DEF f
  <2>2. ~(f.type = "ACK" /\ f.status = "OUT_OF_ORDER")
    BY <1>2 DEF LoopAgrees, NothingRefused
  <2>3. /\ Outstanding /\ Outstanding' /\ Current' = Current
        /\ snd'.state = "RESULT_READY" /\ snd'.result = f.result
        /\ f.type = "RESPONSE" /\ f.sequence = Current
        /\ rcv' = rcv /\ decision' = decision
    BY <1>1, <2>1, <2>2 DEF Outstanding, Current, SameReceiver
  <2>4. /\ Accepted(Current) /\ f.result = issued
        /\ DecisionHas(Current) /\ CmdsHave(Current)
        /\ \A j \in 1 .. Len(fbLink) : 1 < j => fbLink[j].sequence = Current
    BY <1>2, <2>3 DEF LoopAgrees, ResultsAgree, OldestFirst
  <2>5. /\ Accepted(Current)' /\ DecisionHas(Current)' /\ CmdsHave(Current)'
        /\ FbsHave(Current)'
    <3>1. \A i \in 1 .. Len(fbLink') : fbLink'[i].sequence = Current
      <4>1. \A i \in 1 .. Len(fbLink') : 1 < i + 1
        OBVIOUS
      <4> QED BY <1>2, <2>4, <4>1
    <3> QED BY <1>1, <2>3, <2>4, <3>1 DEF Accepted, DecisionHas, CmdsHave, FbsHave
  <2>6. NothingRefused' /\ IdleAgrees'
    BY <1>2, <2>3 DEF LoopAgrees, NothingRefused, IdleAgrees
  <2>7. ReceiverAgrees'
    BY <1>1, <2>3, <2>4, <2>5 DEF LoopAgrees, ReceiverAgrees
  <2>8. CommandsAgree'
    BY <1>1, <2>3, <2>4 DEF LoopAgrees, CommandsAgree, CmdsHave
  <2>9. OldestFirst'
    BY <2>5 DEF OldestFirst, CmdsHave, FbsHave
  <2>10. ResultsAgree'
    <3>1. \A i \in 1 .. Len(fbLink') :
            fbLink'[i].type = "RESPONSE" /\ fbLink'[i].sequence = Current =>
              fbLink'[i].result = issued
      BY <1>2, <2>3 DEF LoopAgrees, ResultsAgree
    <3>2. decision.action = "RESEND_RESULT" /\ decision.sequence = Current =>
            decision.result = issued
      BY <2>3 DEF LoopAgrees, ResultsAgree
    <3> QED BY <1>1, <2>3, <2>4, <2>5, <3>1, <3>2 DEF ResultsAgree
  <2> QED BY <2>6, <2>7, <2>8, <2>9, <2>10 DEF LoopAgrees
<1> QED BY <1>3, <1>4

\* The next command's sequence is the one the receiver expects.
LEMMA TakeResultAgrees ==
  ASSUME SessionsSafe, SessionsSafe', LoopAgrees, TakeResult
  PROVE  LoopAgrees'
<1>1. /\ snd.state = "RESULT_READY" /\ Outstanding
      /\ snd'.state = "IDLE" /\ ~Outstanding'
      /\ snd'.next_sequence = NextSeq(Current)
      /\ UNCHANGED <<rcv, decision, cmdLink, fbLink, job, issued, executed>>
  BY TakeResultEffect DEF SessionsSafe, SenderSafe, SequenceMatchesFrame,
     Outstanding, SameReceiver, Current
<1>2. /\ Accepted(Current) /\ FbsHave(Current)
      /\ DecisionHas(Current) /\ CmdsHave(Current) /\ ~rcv.pending_valid
  BY <1>1 DEF LoopAgrees, ResultsAgree, OldestFirst, ReceiverAgrees
<1>3. rcv.command_tracker.expected_sequence = NextSeq(Current)
  BY <1>2 DEF Accepted, SessionsSafe, ReceiverSafe, CacheCoherent
<1>4. NothingRefused'
  BY <1>1 DEF LoopAgrees, NothingRefused
<1>5. IdleAgrees'
  BY <1>1, <1>2, <1>3 DEF IdleAgrees, FbsHave, DecisionHas, CmdsHave, Accepted
<1> QED BY <1>1, <1>4, <1>5 DEF LoopAgrees, ReceiverAgrees, CommandsAgree, OldestFirst,
                              ResultsAgree

LEMMA ResynchronizeAgrees ==
  ASSUME SessionsSafe, SessionsSafe', NEW q \in Seqs, Resynchronize(q)
  PROVE  LoopAgrees'
<1>1. /\ ~Outstanding' /\ snd'.state = "IDLE" /\ ~rcv'.pending_valid
      /\ ~rcv'.command_tracker.initialized
      /\ decision' = NoDecision /\ decision'.action = "NONE"
      /\ cmdLink' = <<>> /\ fbLink' = <<>>
  BY ResynchronizeEffect DEF Outstanding, NoDecision
<1>2. NothingRefused' /\ IdleAgrees'
  BY <1>1 DEF NothingRefused, IdleAgrees
<1> QED BY <1>1, <1>2 DEF LoopAgrees, ReceiverAgrees, CommandsAgree, OldestFirst,
                          ResultsAgree

\* A deferred command is expected again under the same sequence.
LEMMA PostponeAgrees ==
  ASSUME SessionsSafe, SessionsSafe', LoopAgrees, Postpone
  PROVE  LoopAgrees'
<1>1. /\ rcv.pending_valid /\ ~rcv'.pending_valid
      /\ rcv'.command_tracker = rcv.command_tracker
      /\ rcv'.cached_result = rcv.cached_result
      /\ UNCHANGED <<snd, decision, cmdLink, fbLink, issued, executed>>
  BY PostponeEffect
<1>2. /\ Outstanding /\ Outstanding' /\ Current' = Current
      /\ DecisionHas(Current)' /\ CmdsHave(Current)' /\ CmdsHave(Current)
  BY <1>1 DEF LoopAgrees, IdleAgrees, OldestFirst, Outstanding, Current, DecisionHas,
              CmdsHave
<1>3. /\ Accepted(Current)' <=> Accepted(Current)
      /\ FbsHave(Current)' <=> FbsHave(Current)
  BY <1>1, <1>2 DEF Accepted, FbsHave
<1>4. NothingRefused' /\ IdleAgrees'
  BY <1>1, <1>2 DEF LoopAgrees, NothingRefused, IdleAgrees
<1>5. ReceiverAgrees'
  BY <1>1, <1>2, <1>3 DEF LoopAgrees, ReceiverAgrees
<1>6. CommandsAgree'
  BY <1>1, <1>2 DEF LoopAgrees, CommandsAgree, CmdsHave
<1>7. OldestFirst'
  <2>1. \A i, j \in 1 .. Len(fbLink) :
          i < j /\ fbLink[i].sequence = Current => fbLink[j].sequence = Current
    BY <1>2 DEF LoopAgrees, OldestFirst
  <2> QED BY <1>1, <1>2, <2>1 DEF OldestFirst, CmdsHave
<1>8. ResultsAgree'
  BY <1>1, <1>2, <1>3 DEF LoopAgrees, ResultsAgree
<1> QED BY <1>4, <1>5, <1>6, <1>7, <1>8 DEF LoopAgrees

\* The router's frame is the newest of the feedback.
LEMMA RouteAgrees ==
  ASSUME SessionsSafe, SessionsSafe', LoopAgrees, RouteDecision
  PROVE  LoopAgrees'
<1>1. /\ fbLink \in Seq(FeedbackFrames)
      /\ decision # NoDecision /\ decision' = NoDecision /\ decision'.action = "NONE"
      /\ UNCHANGED <<snd, rcv, cmdLink, job, issued, executed>>
      /\ Current' = Current /\ Outstanding' = Outstanding
      /\ DecisionHas(Current)'
  BY RouteEffect DEF SessionsSafe, TypeOK, NoDecision, Current, Outstanding, DecisionHas
<1>2. /\ Accepted(Current)' <=> Accepted(Current)
      /\ CmdsHave(Current)' <=> CmdsHave(Current)
  BY <1>1 DEF Accepted, CmdsHave
<1>3. ReceiverAgrees' /\ CommandsAgree'
  BY <1>1, <1>2 DEF LoopAgrees, ReceiverAgrees, CommandsAgree, Accepted
<1>4. CASE fbLink' = fbLink
  <2>1. FbsHave(Current)' <=> FbsHave(Current)
    BY <1>1, <1>4 DEF FbsHave
  <2>2. NothingRefused' /\ IdleAgrees'
    BY <1>1, <1>4 DEF LoopAgrees, NothingRefused, IdleAgrees, Accepted
  <2>3. OldestFirst'
    BY <1>1, <1>2, <1>4 DEF LoopAgrees, OldestFirst
  <2>4. ResultsAgree'
    BY <1>1, <1>2, <1>4, <2>1 DEF LoopAgrees, ResultsAgree
  <2> QED BY <1>3, <2>2, <2>3, <2>4 DEF LoopAgrees
<1>5. ASSUME NEW g \in FeedbackFrames, fbLink' = Append(fbLink, g),
             g.sequence = decision.sequence,
             g.type = "RESPONSE" =>
               decision.action = "RESEND_RESULT" /\ g.result = decision.result,
             g.type = "ACK" /\ g.status = "OUT_OF_ORDER" =>
               decision.action = "OUT_OF_ORDER"
      PROVE  LoopAgrees'
  <2> DEFINE n == Len(fbLink)
  <2>1. /\ Len(fbLink') = n + 1 /\ n \in Nat
        /\ \A i \in 1 .. n : fbLink'[i] = fbLink[i]
        /\ fbLink'[n + 1] = g
    BY <1>1, <1>5, AppendFacts
  <2>2. \A i \in 1 .. Len(fbLink') : i \in 1 .. n \/ i = n + 1
    BY <2>1
  <2>3. NothingRefused'
    BY <1>1, <1>5, <2>1, <2>2 DEF LoopAgrees, NothingRefused
  <2>4. IdleAgrees'
    <3> SUFFICES ASSUME ~Outstanding PROVE IdleAgrees'
      BY <1>1 DEF IdleAgrees
    <3>1. /\ Accepted(g.sequence)
          /\ \A i \in 1 .. n : Accepted(fbLink[i].sequence)
      BY <1>1, <1>5 DEF LoopAgrees, IdleAgrees
    <3>2. \A i \in 1 .. Len(fbLink') : Accepted(fbLink[i].sequence)'
      BY <1>1, <2>1, <2>2, <3>1 DEF Accepted
    <3> QED BY <1>1, <3>2 DEF LoopAgrees, IdleAgrees, Accepted
  <2>5. OldestFirst'
    <3> SUFFICES ASSUME Outstanding PROVE OldestFirst'
      BY <1>1 DEF OldestFirst
    <3>1. /\ \A i, j \in 1 .. n :
               i < j /\ fbLink[i].sequence = Current => fbLink[j].sequence = Current
          /\ \A i \in 1 .. n :
               fbLink[i].sequence = Current => g.sequence = Current /\ CmdsHave(Current)
          /\ g.sequence = Current => CmdsHave(Current)
          /\ rcv.pending_valid \/ Accepted(Current) => CmdsHave(Current)
          /\ \A i, j \in 1 .. Len(cmdLink) :
               i < j /\ cmdLink[i].sequence = Current => cmdLink[j].sequence = Current
      BY <1>1, <1>5 DEF LoopAgrees, OldestFirst, DecisionHas
    <3>2. \A i, j \in 1 .. Len(fbLink') :
            i < j /\ fbLink'[i].sequence = Current => fbLink'[j].sequence = Current
      <4> SUFFICES ASSUME NEW i \in 1 .. Len(fbLink'), NEW j \in 1 .. Len(fbLink'),
                          i < j, fbLink'[i].sequence = Current
                   PROVE  fbLink'[j].sequence = Current
        OBVIOUS
      <4>1. i \in 1 .. n
        BY <2>1
      <4>2. CASE j = n + 1
        BY <2>1, <3>1, <4>1, <4>2
      <4>3. CASE j \in 1 .. n
        BY <2>1, <3>1, <4>1, <4>3
      <4> QED BY <2>2, <4>2, <4>3
    <3>3. \A i \in 1 .. Len(fbLink') :
            fbLink'[i].sequence = Current => CmdsHave(Current)
      BY <2>1, <2>2, <3>1
    <3> QED BY <1>1, <1>2, <3>1, <3>2, <3>3 DEF OldestFirst
  <2>6. ResultsAgree'
    <3> SUFFICES ASSUME Outstanding PROVE ResultsAgree'
      BY <1>1 DEF ResultsAgree
    <3>1. \A i \in 1 .. Len(fbLink') :
            fbLink'[i].type = "RESPONSE" /\ fbLink'[i].sequence = Current =>
              Accepted(Current) /\ fbLink'[i].result = issued
      <4>1. g.type = "RESPONSE" /\ g.sequence = Current =>
              Accepted(Current) /\ g.result = issued
        BY <1>5 DEF LoopAgrees, ResultsAgree
      <4> QED BY <2>1, <2>2, <4>1 DEF LoopAgrees, ResultsAgree
    <3>2. snd.state = "RESULT_READY" =>
            Accepted(Current) /\ FbsHave(Current)' /\ snd.result = issued
      <4>1. snd.state = "RESULT_READY" =>
              /\ Accepted(Current) /\ FbsHave(Current) /\ snd.result = issued
              /\ g.sequence = Current
        BY <1>1, <1>5 DEF LoopAgrees, ResultsAgree, OldestFirst, DecisionHas
      <4> QED BY <1>1, <2>1, <2>2, <4>1 DEF FbsHave
    <3> QED BY <1>1, <1>2, <3>1, <3>2 DEF ResultsAgree
  <2> QED BY <1>3, <2>3, <2>4, <2>5, <2>6 DEF LoopAgrees
<1>6. fbLink' # fbLink =>
        \E g \in FeedbackFrames :
          /\ fbLink' = Append(fbLink, g)
          /\ g.sequence = decision.sequence
          /\ g.type = "RESPONSE" =>
               decision.action = "RESEND_RESULT" /\ g.result = decision.result
          /\ g.type = "ACK" /\ g.status = "OUT_OF_ORDER" =>
               decision.action = "OUT_OF_ORDER"
  BY RouteEffect
<1> QED BY <1>4, <1>5, <1>6

\* The pending command is the sender's current one, and becomes accepted.
LEMMA ExecuteAgrees ==
  ASSUME SessionsSafe, SessionsSafe', LoopAgrees, Execute
  PROVE  LoopAgrees'
<1> DEFINE n == Len(fbLink)
           m == Len(executed)
           g == ResponseFrame(rcv.pending_sequence, job)
<1>1. /\ rcv.pending_valid /\ ~rcv'.pending_valid
      /\ rcv'.command_tracker.initialized
      /\ rcv'.command_tracker.last_accepted_sequence = rcv.pending_sequence
      /\ rcv'.cached_result = job
      /\ UNCHANGED <<snd, decision, cmdLink, issued>>
      /\ job \in Payloads /\ executed' = Append(executed, job)
      /\ g \in FeedbackFrames /\ fbLink' = Append(fbLink, g)
      /\ fbLink \in Seq(FeedbackFrames) /\ executed \in Seq(Payloads)
  BY ExecuteEffect DEF SessionsSafe, TypeOK
<1>2. /\ Outstanding /\ Outstanding' /\ Current' = Current
      /\ rcv.pending_sequence = Current /\ job = issued /\ ~Accepted(Current)
      /\ DecisionHas(Current) /\ CmdsHave(Current)
  BY <1>1 DEF LoopAgrees, IdleAgrees, ReceiverAgrees, OldestFirst, Outstanding, Current
<1>3. Accepted(Current)' /\ DecisionHas(Current)' /\ CmdsHave(Current)'
  BY <1>1, <1>2 DEF Accepted, DecisionHas, CmdsHave
<1>4. /\ Len(fbLink') = n + 1 /\ n \in Nat
      /\ \A i \in 1 .. n : fbLink'[i] = fbLink[i]
      /\ fbLink'[n + 1] = g
      /\ g.type = "RESPONSE" /\ g.sequence = Current /\ g.result = issued
  BY <1>1, <1>2, AppendFacts DEF ResponseFrame
<1> HIDE DEF g
<1>5. \A i \in 1 .. Len(fbLink') : i \in 1 .. n \/ i = n + 1
  BY <1>4
<1>6. /\ m + 1 \in 1 .. Len(executed') /\ executed'[m + 1] = issued
  BY <1>1, <1>2, AppendFacts
<1>7. NothingRefused' /\ IdleAgrees'
  BY <1>1, <1>2, <1>4, <1>5 DEF LoopAgrees, NothingRefused, IdleAgrees
<1>8. ReceiverAgrees'
  BY <1>1, <1>2, <1>3, <1>6 DEF ReceiverAgrees
<1>9. CommandsAgree'
  BY <1>1, <1>2 DEF LoopAgrees, CommandsAgree, CmdsHave
<1>10. OldestFirst'
  <2>1. \A i, j \in 1 .. Len(fbLink') :
          i < j /\ fbLink'[i].sequence = Current => fbLink'[j].sequence = Current
    <3> SUFFICES ASSUME NEW i \in 1 .. Len(fbLink'), NEW j \in 1 .. Len(fbLink'),
                        i < j, fbLink'[i].sequence = Current
                 PROVE  fbLink'[j].sequence = Current
      OBVIOUS
    <3>1. i \in 1 .. n
      BY <1>4
    <3>2. CASE j = n + 1
      BY <1>4, <3>2
    <3>3. CASE j \in 1 .. n
      BY <1>2, <1>4, <3>1, <3>3 DEF LoopAgrees, OldestFirst
    <3> QED BY <1>5, <3>2, <3>3
  <2> QED BY <1>2, <1>3, <2>1 DEF OldestFirst, CmdsHave
<1>11. ResultsAgree'
  <2>1. \A i \in 1 .. Len(fbLink') :
          fbLink'[i].type = "RESPONSE" /\ fbLink'[i].sequence = Current =>
            fbLink'[i].result = issued
    BY <1>2, <1>4, <1>5 DEF LoopAgrees, ResultsAgree
  <2>2. /\ ~(decision.action = "RESEND_RESULT" /\ decision.sequence = Current)
        /\ snd.state # "RESULT_READY"
    BY <1>2 DEF LoopAgrees, ResultsAgree
  <2> QED BY <1>1, <1>2, <1>3, <2>1, <2>2 DEF ResultsAgree
<1> QED BY <1>7, <1>8, <1>9, <1>10, <1>11 DEF LoopAgrees

\* The receiver takes a command of the sender's current sequence for the
\* current command and any other for a repeat.
LEMMA ReceiveAgrees ==
  ASSUME SessionsSafe, SessionsSafe', LoopAgrees, ReceiveCommand
  PROVE  LoopAgrees'
<1> DEFINE f == Head(cmdLink)
<1>1. /\ cmdLink \in Seq(CommandFrames) /\ cmdLink # <<>> /\ cmdLink' = Tail(cmdLink)
      /\ decision = NoDecision /\ decision' # NoDecision
      /\ decision'.sequence = f.sequence
      /\ rcv'.command_tracker = rcv.command_tracker
      /\ rcv'.cached_result = rcv.cached_result
      /\ UNCHANGED <<snd, fbLink, issued, executed>>
      /\ CacheCoherent
  BY ReceiveEffect DEF SessionsSafe, TypeOK, ReceiverSafe, Decisions, Actions, NoDecision
<1>2. /\ f = cmdLink[1] /\ 1 \in 1 .. Len(cmdLink)
      /\ \A i \in 1 .. Len(cmdLink') :
           i + 1 \in 1 .. Len(cmdLink) /\ 1 < i + 1 /\ cmdLink'[i] = cmdLink[i + 1]
  BY <1>1, TailFacts
<1>3. \/ /\ decision'.action = "EXECUTE"
         /\ ~rcv.pending_valid
         /\ CanCommit(rcv.command_tracker, f.sequence)
         /\ rcv'.pending_valid /\ rcv'.pending_sequence = f.sequence
         /\ job' = f.payload
      \/ /\ decision'.action # "EXECUTE"
         /\ rcv' = rcv /\ job' = job
         /\ decision'.action = "RESEND_RESULT" =>
              /\ rcv.cached_result_valid
              /\ decision'.result = rcv.cached_result
              /\ decision'.sequence = rcv.cached_result_sequence
         /\ decision'.action = "OUT_OF_ORDER" =>
              \/ rcv.pending_valid /\ f.sequence # rcv.pending_sequence
              \/ /\ rcv.command_tracker.initialized
                 /\ f.sequence # rcv.command_tracker.last_accepted_sequence
                 /\ f.sequence # rcv.command_tracker.expected_sequence
  BY <1>1, ReceiveEffect
<1> HIDE DEF f
<1>4. CanCommit(rcv.command_tracker, f.sequence) => ~Accepted(f.sequence)
  BY NewIsNotLast DEF Accepted
<1>5. /\ Current' = Current /\ Outstanding' = Outstanding
      /\ Accepted(Current)' <=> Accepted(Current)
      /\ FbsHave(Current)' <=> FbsHave(Current)
      /\ CmdsHave(Current) => CmdsHave(Current)'
      /\ DecisionHas(Current)' <=> f.sequence = Current
  BY <1>1, <1>2 DEF Current, Outstanding, Accepted, FbsHave, CmdsHave, DecisionHas
<1>6. /\ decision'.action # "OUT_OF_ORDER"
      /\ decision'.action = "EXECUTE" => Outstanding /\ f.sequence = Current
  <2>1. CASE ~Outstanding
    <3>1. Accepted(f.sequence) /\ ~rcv.pending_valid
      BY <1>2, <2>1 DEF LoopAgrees, IdleAgrees
    <3> QED BY <1>3, <1>4, <3>1 DEF Accepted
  <2>2. CASE Outstanding /\ f.sequence # Current
    <3>1. Accepted(f.sequence) /\ ~rcv.pending_valid
      BY <1>2, <2>2 DEF LoopAgrees, CommandsAgree
    <3> QED BY <1>3, <1>4, <3>1 DEF Accepted
  <2>3. CASE Outstanding /\ f.sequence = Current
    BY <1>3, <2>3 DEF LoopAgrees, ReceiverAgrees, Accepted
  <2> QED BY <2>1, <2>2, <2>3
<1>7. NothingRefused'
  BY <1>1, <1>6 DEF LoopAgrees, NothingRefused
<1>8. IdleAgrees'
  <2> SUFFICES ASSUME ~Outstanding PROVE IdleAgrees'
    BY <1>5 DEF IdleAgrees
  <2>1. rcv' = rcv
    BY <1>3, <1>6
  <2>2. /\ Accepted(f.sequence)
        /\ \A i \in 1 .. Len(cmdLink') : Accepted(cmdLink'[i].sequence)
    BY <1>2 DEF LoopAgrees, IdleAgrees
  <2> QED BY <1>1, <2>1, <2>2 DEF LoopAgrees, IdleAgrees, Accepted
<1>9. ASSUME Outstanding, f.sequence = Current
      PROVE  /\ CmdsHave(Current)' /\ DecisionHas(Current)'
             /\ f.payload = issued
  <2>1. \A i \in 1 .. Len(cmdLink') : cmdLink'[i].sequence = Current
    BY <1>2, <1>9 DEF LoopAgrees, OldestFirst
  <2>2. f.payload = issued
    BY <1>2, <1>9 DEF LoopAgrees, CommandsAgree
  <2> QED BY <1>5, <1>9, <2>1, <2>2 DEF CmdsHave
<1>10. ReceiverAgrees'
  <2> SUFFICES ASSUME Outstanding PROVE ReceiverAgrees'
    BY <1>5 DEF ReceiverAgrees
  <2>1. rcv'.pending_valid =>
          rcv'.pending_sequence = Current /\ job' = issued /\ ~Accepted(Current)
    <3>1. CASE decision'.action = "EXECUTE"
      BY <1>3, <1>4, <1>6, <1>9, <3>1
    <3>2. CASE decision'.action # "EXECUTE"
      BY <1>3, <3>2 DEF LoopAgrees, ReceiverAgrees
    <3> QED BY <3>1, <3>2
  <2> QED BY <1>1, <1>5, <2>1 DEF LoopAgrees, ReceiverAgrees
<1>11. CommandsAgree'
  <2> SUFFICES ASSUME Outstanding PROVE CommandsAgree'
    BY <1>5 DEF CommandsAgree
  <2>1. \A i \in 1 .. Len(cmdLink') :
          /\ cmdLink'[i].sequence = Current => cmdLink'[i].payload = issued
          /\ cmdLink'[i].sequence # Current =>
               Accepted(cmdLink'[i].sequence) /\ ~rcv.pending_valid
    BY <1>2 DEF LoopAgrees, CommandsAgree
  <2>2. CASE decision'.action = "EXECUTE"
    BY <1>1, <1>5, <1>6, <1>9, <2>1, <2>2 DEF CommandsAgree, CmdsHave
  <2>3. CASE decision'.action # "EXECUTE"
    <3>1. rcv' = rcv
      BY <1>3, <2>3
    <3> QED BY <1>1, <1>5, <2>1, <3>1 DEF CommandsAgree, Accepted
  <2> QED BY <2>2, <2>3
<1>12. OldestFirst'
  <2> SUFFICES ASSUME Outstanding PROVE OldestFirst'
    BY <1>5 DEF OldestFirst
  <2>1. \A i, j \in 1 .. Len(fbLink) :
          i < j /\ fbLink[i].sequence = Current => fbLink[j].sequence = Current
    BY DEF LoopAgrees, OldestFirst
  <2>2. CASE f.sequence = Current
    BY <1>1, <1>5, <1>9, <2>1, <2>2 DEF OldestFirst, CmdsHave
  <2>3. CASE f.sequence # Current
    <3>1. ~CmdsHave(Current)
      BY <1>2, <2>3 DEF CmdsHave
    <3>2. /\ \A i \in 1 .. Len(fbLink) : fbLink[i].sequence # Current
          /\ ~rcv.pending_valid /\ ~Accepted(Current)
      BY <3>1 DEF LoopAgrees, OldestFirst
    <3>3. rcv' = rcv
      BY <1>3, <1>6, <2>3
    <3>4. \A i, j \in 1 .. Len(cmdLink') :
            i < j /\ cmdLink'[i].sequence = Current => cmdLink'[j].sequence = Current
      <4> SUFFICES ASSUME NEW i \in 1 .. Len(cmdLink'), NEW j \in 1 .. Len(cmdLink'),
                          i < j, cmdLink'[i].sequence = Current
                   PROVE  cmdLink'[j].sequence = Current
        OBVIOUS
      <4>1. /\ i + 1 \in 1 .. Len(cmdLink) /\ cmdLink'[i] = cmdLink[i + 1]
            /\ j + 1 \in 1 .. Len(cmdLink) /\ cmdLink'[j] = cmdLink[j + 1]
            /\ i + 1 < j + 1
        BY <1>2
      <4> QED BY <4>1 DEF LoopAgrees, OldestFirst
    <3> QED BY <1>1, <1>5, <2>3, <3>2, <3>3, <3>4 DEF OldestFirst
  <2> QED BY <2>2, <2>3
<1>13. ResultsAgree'
  <2> SUFFICES ASSUME Outstanding PROVE ResultsAgree'
    BY <1>5 DEF ResultsAgree
  <2>1. decision'.action = "RESEND_RESULT" /\ f.sequence = Current =>
          Accepted(Current) /\ decision'.result = issued
    BY <1>1, <1>3 DEF CacheCoherent, LoopAgrees, ReceiverAgrees, Accepted
  <2> QED BY <1>1, <1>5, <2>1 DEF LoopAgrees, ResultsAgree
<1> QED BY <1>7, <1>8, <1>10, <1>11, <1>12, <1>13 DEF LoopAgrees

LEMMA LoopAgreesStep ==
  ASSUME SessionsSafe, SessionsSafe', LinkInOrder, LoopAgrees,
         regime # "rebooting", [Next]_vars
  PROVE  LoopAgrees'
<1>0. SenderTypeOK
  BY DEF SessionsSafe, TypeOK
<1>1. CASE TransmitEnds \/ Timeout
  <2>1. SenderQuiet
    BY <1>0, <1>1, QuietSteps DEF TransmitEnds, Timeout
  <2> QED BY <1>1, <2>1, QuietAgrees DEF TransmitEnds, Timeout, SameReceiver
<1>2. CASE LoseFrame \/ Finished \/ UNCHANGED vars
  <2>1. UNCHANGED <<snd, rcv, decision, job, issued, executed>>
    BY <1>2 DEF LoseFrame, Finished, vars, sessions
  <2>2. SenderQuiet /\ SameReceiver
    BY <1>0, <2>1, QuietSteps DEF SameReceiver
  <2>3. /\ cmdLink' = cmdLink \/ (cmdLink # <<>> /\ cmdLink' = Tail(cmdLink))
        /\ fbLink' = fbLink \/ (fbLink # <<>> /\ fbLink' = Tail(fbLink))
    BY <1>2 DEF LoseFrame, Finished, vars
  <2> QED BY <2>1, <2>2, <2>3, QuietAgrees
<1>3. ~\E q \in Seqs : RestartSender(q)
  BY RestartEffect
<1> QED
  BY <1>1, <1>2, <1>3, IssueAgrees, TransmitAgrees, FeedbackAgrees, TakeResultAgrees,
     ReceiveAgrees, RouteAgrees, ExecuteAgrees, PostponeAgrees, ResynchronizeAgrees
     DEF Next

AgreeInv == OrderInv /\ (regime # "rebooting" => LoopAgrees)

LEMMA AgreeInvariant == Spec => []AgreeInv
<1>1. Init => AgreeInv
  <2> SUFFICES ASSUME Init PROVE LoopAgrees /\ OrderInv
    BY DEF AgreeInv
  <2>1. /\ snd.state = "IDLE" /\ ~rcv.pending_valid
        /\ ~rcv.command_tracker.initialized
        /\ decision = NoDecision /\ decision.action = "NONE"
        /\ cmdLink = <<>> /\ fbLink = <<>>
    BY DEF Init, SenderInit, SenderStart, ReceiverInit, ReceiverStart, TrackerStart,
           NoDecision
  <2>2. LoopAgrees
    BY <2>1 DEF LoopAgrees, NothingRefused, IdleAgrees, ReceiverAgrees, CommandsAgree,
                OldestFirst, ResultsAgree, Outstanding
  <2> QED BY <2>2, OrderInit
<1>2. AgreeInv /\ [Next]_vars => AgreeInv'
  <2> SUFFICES ASSUME AgreeInv, [Next]_vars PROVE AgreeInv'
    OBVIOUS
  <2>1. OrderInv'
    BY OrderInvStep DEF AgreeInv
  <2>2. regime' = regime
    BY DEF Next, vars, Issue, Transmit, TransmitEnds, Timeout, DeliverFeedback,
       TakeResult, ReceiveCommand, RouteDecision, Execute, Postpone, LoseFrame,
       Resynchronize, RestartSender, Finished
  <2>3. regime # "rebooting" => LoopAgrees'
    BY <2>1, LoopAgreesStep DEF AgreeInv, OrderInv, CommandsInOrder
  <2> QED BY <2>1, <2>2, <2>3 DEF AgreeInv
<1> QED BY <1>1, <1>2, PTL DEF Spec

\* Without a reboot of the sender alone the application has a command exactly
\* while its session holds one pending, and no loss, deferral, failed
\* transmission or retry gets the sender told that it is out of order.
THEOREM EndsStayAgreed ==
  ASSUME "rebooting" \notin Regimes
  PROVE  Spec => []EndsAgree
<1>1. AgreeInv => EndsAgree
  BY DEF AgreeInv, OrderInv, SessionsSafe, TypeOK, JobTracked, LoopAgrees,
         NothingRefused, EndsAgree
<1> QED BY <1>1, AgreeInvariant, PTL

\* And no late or repeated answer is taken for another command's: the result
\* the sender hands over is the one of the command it issued last.
THEOREM ResultsAreOfTheirCommand ==
  ASSUME "rebooting" \notin Regimes
  PROVE  Spec => []ResultIsOfThisCommand
<1>1. AgreeInv => ResultIsOfThisCommand
  <2> SUFFICES ASSUME AgreeInv, snd.state = "RESULT_READY"
               PROVE  /\ snd.result = issued
                      /\ \E i \in 1 .. Len(executed) : executed[i] = issued
    BY DEF ResultIsOfThisCommand
  <2>1. LoopAgrees /\ Outstanding
    BY DEF AgreeInv, OrderInv, SessionsSafe, TypeOK, Outstanding
  <2> QED BY <2>1 DEF LoopAgrees, ReceiverAgrees, ResultsAgree
<1> QED BY <1>1, AgreeInvariant, PTL

-----------------------------------------------------------------------------
(***************************************************************************)
(* The refinement: what the sender's state says of its last command, and   *)
(* what the receiving application did, follow RemoteCommand.               *)
(***************************************************************************)
Carried == {executed[i] : i \in 1 .. Len(executed)}

\* Transmissions, timeouts and acknowledgements: nothing changes, or the
\* sender gives up.
LEMMA SendingOutcome ==
  ASSUME SenderTypeOK,
         \/ MarkAccepted \/ MarkTransmitted(Arrived) \/ MarkTransmitError
         \/ Poll(ResponseTimeout) \/ UNCHANGED snd
         \/ \E q \in Seqs : HandleActivity(q, Arrived)
  PROVE  Outcome' = Outcome \/ (Outcome = "pending" /\ Outcome' = "unknown")
<1> USE DEF Outcome
<1>1. CASE MarkAccepted
  BY <1>1 DEF SenderTypeOK, MarkAccepted
<1>2. CASE MarkTransmitted(Arrived)
  BY <1>2 DEF SenderTypeOK, MarkTransmitted
<1>3. CASE MarkTransmitError
  BY <1>3 DEF SenderTypeOK, MarkTransmitError, RetryOrFail
<1>4. CASE Poll(ResponseTimeout)
  BY <1>4 DEF SenderTypeOK, Poll, RetryOrFail
<1>5. CASE UNCHANGED snd
  BY <1>5
<1>6. ASSUME NEW q \in Seqs, HandleActivity(q, Arrived) PROVE Outcome' = Outcome
  BY <1>6 DEF SenderTypeOK, HandleActivity, ActivityAccepted, Answerable
<1> QED BY <1>1, <1>2, <1>3, <1>4, <1>5, <1>6

LEMMA FeedbackOutcome ==
  ASSUME SessionsSafe, DeliverFeedback
  PROVE  \/ Outcome' = Outcome
         \/ Outcome = "pending" /\ Outcome' = "unknown"
         \/ /\ Head(fbLink).type = "RESPONSE"
            /\ Head(fbLink).sequence = Current
            /\ snd'.state = "RESULT_READY"
            /\ Outcome \in {"pending", "unknown"}
         \/ Head(fbLink).type = "ACK" /\ Head(fbLink).status = "OUT_OF_ORDER"
<1> DEFINE f == Head(fbLink)
<1>1. /\ SenderTypeOK /\ AttemptsHonoured /\ RouteSenderFeedback(f, Arrived)
      /\ f \in FeedbackFrames
  BY FeedbackEffect DEF SessionsSafe, TypeOK, SenderSafe, DeliverFeedback
<1>2. f.sequence \in Seqs
  BY <1>1 DEF FeedbackFrames, AckFrames, ResponseFrames
<1> HIDE DEF f
<1>3. CASE HandleActivity(f.sequence, Arrived) \/ UNCHANGED snd
  BY <1>1, <1>2, <1>3, SendingOutcome
<1>4. CASE f.type = "RESPONSE" /\ HandleResult(f.sequence, f.result)
  <2>1. /\ f.sequence = Current /\ snd'.state = "RESULT_READY"
        /\ snd.state \in {"READY_TO_SEND", "SENDING", "WAITING_RESULT",
                          "COMMUNICATION_FAILED"}
    BY <1>1, <1>4 DEF HandleResult, OutcomeAccepted, ForPendingCommand, Answerable,
                      SenderTypeOK, Current
  <2>2. Outcome \in {"pending", "unknown"}
    BY <2>1 DEF Outcome
  <2> QED BY <1>4, <2>1, <2>2 DEF f
<1> QED BY <1>1, <1>3, <1>4 DEF RouteSenderFeedback, f

LEMMA RemoteInit == Init => Remote!Init
<1> SUFFICES ASSUME Init PROVE Remote!Init
  OBVIOUS
<1>1. snd.state = "IDLE" /\ issued = 0 /\ executed = <<>>
  BY DEF Init, SenderInit, SenderStart
<1>2. Outcome = "none"
  BY <1>1 DEF Outcome
<1>3. {executed[i] : i \in 1 .. Len(executed)} = {}
  BY <1>1
<1> QED BY <1>1, <1>2, <1>3 DEF Remote!Init

\* The application carries out the one command the sender waits for.
LEMMA ExecuteCarriesOut ==
  ASSUME OrderInv, LoopAgrees, Execute
  PROVE  /\ Outcome \in {"pending", "unknown"} /\ Outcome' = Outcome
         /\ issued \notin Carried /\ Carried' = Carried \cup {issued}
         /\ issued' = issued
<1> DEFINE m == Len(executed)
<1>1. /\ rcv.pending_valid /\ job \in Payloads
      /\ executed' = Append(executed, job) /\ executed \in Seq(Payloads)
      /\ UNCHANGED <<snd, issued>>
  BY ExecuteEffect DEF OrderInv, SessionsSafe, TypeOK
<1>2. Outstanding /\ job = issued /\ ~Accepted(Current)
  BY <1>1 DEF LoopAgrees, IdleAgrees, ReceiverAgrees
<1>3. /\ snd.state \in SenderStates
      /\ snd.state \notin {"IDLE", "RESULT_READY", "DESYNCHRONIZED"}
  BY <1>2 DEF LoopAgrees, ResultsAgree, NothingRefused, Outstanding, OrderInv,
              SessionsSafe, TypeOK, SenderTypeOK
<1>4. Outcome \in {"pending", "unknown"} /\ Outcome' = Outcome
  BY <1>1, <1>3 DEF Outcome, SenderStates
<1>5. /\ Len(executed') = m + 1 /\ m \in Nat
      /\ \A i \in 1 .. m : executed'[i] = executed[i]
      /\ executed'[m + 1] = issued
  BY <1>1, <1>2, AppendFacts
<1>6. \A i \in 1 .. Len(executed') : i \in 1 .. m \/ i = m + 1
  BY <1>5
<1>7. Carried' = Carried \cup {issued}
  <2>1. \A x \in Carried' : x \in Carried \cup {issued}
    BY <1>5, <1>6 DEF Carried
  <2>2. \A x \in Carried \cup {issued} : x \in Carried'
    BY <1>5 DEF Carried
  <2> QED BY <2>1, <2>2
<1>8. issued \notin Carried
  <2>1. \A i \in 1 .. m : executed[i] < job /\ executed[i] \in Payloads
    BY <1>1, ElementOfSeq DEF OrderInv, CommandsInOrder, JobInOrder
  <2>2. \A i \in 1 .. m : executed[i] # issued
    BY <1>1, <1>2, <2>1, ConstantFacts
  <2> QED BY <2>2 DEF Carried
<1> QED BY <1>1, <1>4, <1>7, <1>8

LEMMA RemoteStep ==
  ASSUME OrderInv, OrderInv', LoopAgrees, regime # "rebooting", [Next]_vars
  PROVE  [Remote!Next]_(Remote!vars)
<1> DEFINE Stutters == issued' = issued /\ Carried' = Carried /\ Outcome' = Outcome
<1>0. SessionsSafe /\ SenderTypeOK /\ snd.state # "DESYNCHRONIZED"
  BY DEF OrderInv, SessionsSafe, TypeOK, LoopAgrees, NothingRefused
<1>1. CASE Stutters
  BY <1>1 DEF Remote!vars, Carried
<1>2. CASE issued' = issued /\ Carried' = Carried
           /\ Outcome = "pending" /\ Outcome' = "unknown"
  BY <1>2 DEF Remote!Next, Remote!GiveUp, Carried
<1>3. CASE Issue
  <2>1. /\ snd.state = "IDLE" /\ snd'.state = "READY_TO_SEND"
        /\ issued' = issued + 1 /\ executed' = executed /\ issued < MaxCommands
    BY <1>0, <1>3, IssueEffect DEF Issue
  <2>2. Outcome = "none" /\ Outcome' = "pending"
    BY <2>1 DEF Outcome
  <2> QED BY <2>1, <2>2 DEF Remote!Next, Remote!Issue
<1>4. CASE Transmit \/ TransmitEnds \/ Timeout
  <2>1. issued' = issued /\ Carried' = Carried
    BY <1>4 DEF Transmit, TransmitEnds, Timeout, Carried
  <2>2. Outcome' = Outcome \/ (Outcome = "pending" /\ Outcome' = "unknown")
    BY <1>0, <1>4, SendingOutcome DEF Transmit, TransmitEnds, Timeout
  <2> QED BY <1>1, <1>2, <2>1, <2>2
<1>5. CASE DeliverFeedback
  <2> DEFINE f == Head(fbLink)
  <2>1. /\ fbLink \in Seq(FeedbackFrames) /\ fbLink # <<>>
        /\ issued' = issued /\ executed' = executed /\ Carried' = Carried
    BY <1>0, <1>5, FeedbackEffect DEF SessionsSafe, TypeOK, Carried
  <2>2. f = fbLink[1] /\ 1 \in 1 .. Len(fbLink)
    BY <2>1, TailFacts
  <2>3. CASE /\ f.type = "RESPONSE" /\ f.sequence = Current
             /\ snd'.state = "RESULT_READY"
             /\ Outcome \in {"pending", "unknown"}
    <3>1. Outcome' = "known" /\ Outstanding
      BY <2>3 DEF Outcome, Outstanding
    <3>2. issued \in Carried
      BY <2>2, <2>3, <3>1 DEF LoopAgrees, ResultsAgree, ReceiverAgrees, Carried
    <3> QED BY <2>1, <2>3, <3>1, <3>2 DEF Remote!Next, Remote!Learn, Carried
  <2> HIDE DEF f
  <2>4. ~(f.type = "ACK" /\ f.status = "OUT_OF_ORDER")
    BY <2>2 DEF LoopAgrees, NothingRefused
  <2>5. \/ Outcome' = Outcome
        \/ Outcome = "pending" /\ Outcome' = "unknown"
        \/ /\ f.type = "RESPONSE" /\ f.sequence = Current
           /\ snd'.state = "RESULT_READY"
           /\ Outcome \in {"pending", "unknown"}
    BY <1>0, <1>5, <2>4, FeedbackOutcome DEF f
  <2> QED BY <1>1, <1>2, <2>1, <2>3, <2>5
<1>6. CASE TakeResult \/ \E q \in Seqs : Resynchronize(q)
  <2>1. /\ snd.state \in {"RESULT_READY", "COMMUNICATION_FAILED"}
        /\ snd'.state = "IDLE" /\ issued' = issued /\ executed' = executed
    BY <1>0, <1>6, TakeResultEffect, ResynchronizeEffect
  <2>2. Outcome \in {"known", "unknown"} /\ Outcome' = "none"
    BY <2>1 DEF Outcome
  <2> QED BY <2>1, <2>2 DEF Remote!Next, Remote!Finish
<1>7. CASE Execute
  <2>1. /\ Outcome \in {"pending", "unknown"} /\ Outcome' = Outcome
        /\ issued \notin Carried /\ Carried' = Carried \cup {issued}
        /\ issued' = issued
    BY <1>7, ExecuteCarriesOut
  <2> QED BY <2>1 DEF Remote!Next, Remote!CarryOut, Carried
<1>8. CASE ReceiveCommand \/ RouteDecision \/ Postpone \/ LoseFrame \/ Finished
           \/ UNCHANGED vars
  <2>1. UNCHANGED <<snd, issued, executed>>
    BY <1>8 DEF ReceiveCommand, RouteDecision, Postpone, LoseFrame, Finished, vars,
                sessions
  <2> QED BY <1>1, <2>1 DEF Outcome, Carried
<1>9. ~\E q \in Seqs : RestartSender(q)
  BY RestartEffect
<1> QED BY <1>3, <1>4, <1>5, <1>6, <1>7, <1>8, <1>9 DEF Next

\* Seen through the refinement mapping the two sessions, their links and the
\* application are one remote command that is carried out at most once, and
\* whose result is learnt only after that.
THEOREM RefinesRemoteCommand ==
  ASSUME "rebooting" \notin Regimes
  PROVE  Spec => ImplementsRemoteCommand
<1>1. AgreeInv => OrderInv /\ LoopAgrees /\ regime # "rebooting"
  BY DEF AgreeInv, OrderInv, SessionsSafe, TypeOK
<1>2. AgreeInv /\ AgreeInv' /\ [Next]_vars => [Remote!Next]_(Remote!vars)
  BY <1>1, RemoteStep DEF AgreeInv
<1> QED BY <1>2, RemoteInit, AgreeInvariant, PTL
        DEF Spec, ImplementsRemoteCommand, Remote!Spec

=============================================================================
