---------------------------- MODULE SessionProofs ----------------------------
(***************************************************************************)
(* The two sessions by themselves, for every sequence width, timeout,      *)
(* number of attempts and set of payloads.                                 *)
(*                                                                         *)
(* Sender: SenderSafe is inductive together with the types: a retry cannot *)
(* be scheduled without an attempt left, because the only way back to      *)
(* READY_TO_SEND is RetryOrFail; the transport can hold the frame only in  *)
(* the three states that block its rewriting.                              *)
(*                                                                         *)
(* Receiver: the tracker and the cache are updated by one call, complete,  *)
(* so that they agree whenever a duplicate asks for the cached result; a   *)
(* pending command was NEW when it was taken and nothing commits before it *)
(* does.                                                                   *)
(***************************************************************************)
EXTENDS SenderSession, ReceiverSession, TLAPS

-----------------------------------------------------------------------------
(***************************************************************************)
(* The sender session.                                                     *)
(***************************************************************************)
\* NextSeq stays within the sequence numbers.
LEMMA NextSeqType == \A q \in Seqs : NextSeq(q) \in Seqs
  BY FramesAssumption DEF Seqs, NextSeq

\* The next command never reuses the sequence of the last one.
LEMMA NextSeqDiffers == \A q \in Seqs : NextSeq(q) # q
<1> TAKE q \in Seqs
<1>1. CASE q + 1 < SeqMod
  BY <1>1, FramesAssumption DEF Seqs, NextSeq
<1>2. CASE q + 1 = SeqMod
  BY <1>2, FramesAssumption DEF Seqs, NextSeq
<1> QED BY <1>1, <1>2, FramesAssumption DEF Seqs

LEMMA FrameFields ==
  ASSUME NEW q \in Seqs, NEW p \in Payloads
  PROVE  /\ CommandFrame(q, p) \in CommandFrames
         /\ CommandFrame(q, p).sequence = q
         /\ CommandFrame(q, p) # NoFrame
<1>1. CommandFrame(q, p).type = "COMMAND" /\ NoFrame.type = "NONE"
  BY DEF CommandFrame, NoFrame
<1> QED BY <1>1 DEF CommandFrame, CommandFrames

\* Both results of RetryOrFail are states.
LEMMA RetryOrFailType ==
  ASSUME SenderTypeOK
  PROVE  /\ RetryOrFail(snd) \in {"READY_TO_SEND", "COMMUNICATION_FAILED"}
         /\ RetryOrFail(snd) = "READY_TO_SEND" => snd.attempt_count < MaxAttempts
         /\ RetryOrFail(snd) = "COMMUNICATION_FAILED" =>
              snd.attempt_count = MaxAttempts
  BY SenderAssumption DEF SenderTypeOK, RetryOrFail

LEMMA SenderStartType == SenderInit => SenderTypeOK /\ SenderSafe
<1> SUFFICES ASSUME NEW q \in Seqs, snd = SenderStart(q)
             PROVE  SenderTypeOK /\ SenderSafe
  BY DEF SenderInit
<1>1. 0 \in Seqs /\ 0 \in 0 .. TickMod - 1 /\ 0 \in 0 .. MaxAttempts
  BY FramesAssumption, SenderAssumption DEF Seqs
<1>2. SenderTypeOK
  BY <1>1 DEF SenderTypeOK, SenderStart, SenderStates
<1>3. SenderSafe
  BY DEF SenderStart, SenderSafe, AttemptsHonoured, OwnershipTracked,
         SequenceMatchesFrame, AtMostOneOutcome, Outstanding, Unresolved
<1> QED BY <1>2, <1>3

\* Every step of the session keeps its types.
LEMMA SenderTypeStep ==
  ASSUME SenderTypeOK, [SenderNext]_snd
  PROVE  SenderTypeOK'
<1>0. /\ 0 \in Seqs /\ 0 \in 0 .. TickMod - 1 /\ 0 \in 0 .. MaxAttempts
      /\ \A now \in Ticks : now \in 0 .. TickMod - 1
  BY FramesAssumption, SenderAssumption DEF Seqs
<1>1. ASSUME NEW q \in Seqs, SenderReset(q) PROVE SenderTypeOK'
  BY <1>0, <1>1 DEF SenderTypeOK, SenderReset, ClearOperation, SenderStates
<1>2. ASSUME NEW p \in Payloads, StartCommand(p) PROVE SenderTypeOK'
  <2> DEFINE frame == CommandFrame(snd.next_sequence, p)
  <2>1. frame \in CommandFrames
    BY FrameFields DEF SenderTypeOK
  <2>2. snd.next_sequence \in Seqs /\ snd.command_count + 1 \in Nat
    BY DEF SenderTypeOK
  <2>3. snd' = [snd EXCEPT !.pending_frame = frame,
                           !.pending_sequence = snd.next_sequence,
                           !.attempt_count = 0,
                           !.state = "READY_TO_SEND",
                           !.command_count = snd.command_count + 1]
    BY <1>2 DEF StartCommand
  <2> HIDE DEF frame
  <2> QED BY <1>0, <2>1, <2>2, <2>3 DEF SenderTypeOK, SenderStates
<1>3. CASE MarkAccepted
  <2>1. snd.attempt_count + 1 \in 0 .. MaxAttempts
    BY <1>3, SenderAssumption DEF SenderTypeOK, MarkAccepted
  <2> QED BY <1>3, <2>1 DEF SenderTypeOK, MarkAccepted, SenderStates
<1>4. ASSUME NEW now \in Ticks, MarkTransmitted(now) PROVE SenderTypeOK'
  <2>1. CASE snd' = [snd EXCEPT !.transmission_active = FALSE]
    BY <2>1 DEF SenderTypeOK
  <2>2. CASE snd' = [snd EXCEPT !.transmission_active = FALSE,
                                !.last_activity_ms = now,
                                !.state = "WAITING_RESULT"]
    BY <1>0, <2>2 DEF SenderTypeOK, SenderStates
  <2> QED BY <1>4, <2>1, <2>2 DEF MarkTransmitted
<1>5. CASE MarkTransmitError
  <2> DEFINE state == RetryOrFail(snd)
  <2>1. state \in SenderStates
    BY RetryOrFailType DEF SenderStates
  <2> HIDE DEF state
  <2>2. CASE snd' = [snd EXCEPT !.transmission_active = FALSE]
    BY <2>2 DEF SenderTypeOK
  <2>3. CASE snd' = [snd EXCEPT !.transmission_active = FALSE, !.state = state]
    BY <2>1, <2>3 DEF SenderTypeOK
  <2> QED BY <1>5, <2>2, <2>3 DEF MarkTransmitError, state
<1>6. ASSUME NEW now \in Ticks, Poll(now) PROVE SenderTypeOK'
  BY <1>6, RetryOrFailType DEF SenderTypeOK, Poll, SenderStates
<1>7. ASSUME NEW q \in Seqs, NEW now \in Ticks, HandleActivity(q, now)
      PROVE  SenderTypeOK'
  BY <1>0, <1>7 DEF SenderTypeOK, HandleActivity, SenderStates
<1>8. ASSUME NEW q \in Seqs, NEW r \in Results, HandleResult(q, r)
      PROVE  SenderTypeOK'
  <2> DEFINE next == NextSeq(snd.pending_sequence)
  <2>1. next \in Seqs /\ snd.completed_count + 1 \in Nat
    BY NextSeqType DEF SenderTypeOK
  <2>2. snd' = [snd EXCEPT !.result = r,
                           !.next_sequence = next,
                           !.state = "RESULT_READY",
                           !.completed_count = snd.completed_count + 1]
    BY <1>8 DEF HandleResult
  <2> HIDE DEF next
  <2> QED BY <2>1, <2>2 DEF SenderTypeOK, SenderStates
<1>9. ASSUME NEW q \in Seqs, NEW e \in Seqs, HandleOutOfOrder(q, e)
      PROVE  SenderTypeOK'
  BY <1>9 DEF SenderTypeOK, HandleOutOfOrder, SenderStates
<1>10. CASE ReleaseResult
  BY <1>0, <1>10 DEF SenderTypeOK, ReleaseResult, ClearOperation, SenderStates
<1>11. CASE UNCHANGED snd
  BY <1>11 DEF SenderTypeOK
<1>12. ASSUME NEW f \in FeedbackFrames, NEW now \in Ticks,
              RouteSenderFeedback(f, now)
       PROVE  SenderTypeOK'
  BY <1>7, <1>8, <1>9, <1>11, <1>12
     DEF RouteSenderFeedback, FeedbackFrames, AckFrames, ResponseFrames
<1> QED BY <1>1, <1>2, <1>3, <1>4, <1>5, <1>6, <1>10, <1>11, <1>12 DEF SenderNext

\* Every step keeps the attempts, the ownership of the frame, its sequence and
\* the count of outcomes in step with the state.
LEMMA AttemptsStep ==
  ASSUME SenderTypeOK, AttemptsHonoured, [SenderNext]_snd
  PROVE  AttemptsHonoured'
<1>1. ASSUME NEW q \in Seqs, SenderReset(q) PROVE AttemptsHonoured'
  BY <1>1 DEF SenderTypeOK, AttemptsHonoured, SenderReset, ClearOperation
<1>2. ASSUME NEW p \in Payloads, StartCommand(p) PROVE AttemptsHonoured'
  <2>1. snd'.state = "READY_TO_SEND" /\ snd'.attempt_count = 0
    BY <1>2 DEF SenderTypeOK, StartCommand
  <2> QED BY <2>1, SenderAssumption DEF AttemptsHonoured
<1>3. CASE MarkAccepted
  BY <1>3 DEF SenderTypeOK, AttemptsHonoured, MarkAccepted
<1>4. ASSUME NEW now \in Ticks, MarkTransmitted(now) PROVE AttemptsHonoured'
  BY <1>4 DEF SenderTypeOK, AttemptsHonoured, MarkTransmitted
<1>5. CASE MarkTransmitError
  BY <1>5, RetryOrFailType DEF SenderTypeOK, AttemptsHonoured, MarkTransmitError
<1>6. ASSUME NEW now \in Ticks, Poll(now) PROVE AttemptsHonoured'
  BY <1>6, RetryOrFailType DEF SenderTypeOK, AttemptsHonoured, Poll
<1>7. ASSUME NEW f \in FeedbackFrames, NEW now \in Ticks,
             RouteSenderFeedback(f, now)
      PROVE  AttemptsHonoured'
  <2>1. CASE HandleActivity(f.sequence, now)
    BY <2>1 DEF SenderTypeOK, AttemptsHonoured, HandleActivity
  <2>2. CASE HandleResult(f.sequence, f.result)
    BY <2>2 DEF SenderTypeOK, AttemptsHonoured, HandleResult
  <2>3. CASE HandleOutOfOrder(f.sequence, f.expected)
    BY <2>3 DEF SenderTypeOK, AttemptsHonoured, HandleOutOfOrder
  <2>4. CASE UNCHANGED snd
    BY <2>4 DEF AttemptsHonoured
  <2> QED BY <1>7, <2>1, <2>2, <2>3, <2>4 DEF RouteSenderFeedback
<1>8. CASE ReleaseResult
  BY <1>8 DEF SenderTypeOK, AttemptsHonoured, ReleaseResult, ClearOperation
<1>9. CASE UNCHANGED snd
  BY <1>9 DEF AttemptsHonoured
<1> QED BY <1>1, <1>2, <1>3, <1>4, <1>5, <1>6, <1>7, <1>8, <1>9 DEF SenderNext

LEMMA OwnershipStep ==
  ASSUME SenderTypeOK, OwnershipTracked, [SenderNext]_snd
  PROVE  OwnershipTracked'
<1>1. ASSUME NEW q \in Seqs, SenderReset(q) PROVE OwnershipTracked'
  BY <1>1 DEF SenderTypeOK, OwnershipTracked, SenderReset, ClearOperation
<1>2. ASSUME NEW p \in Payloads, StartCommand(p) PROVE OwnershipTracked'
  <2>1. /\ snd.state = "IDLE" /\ snd'.state = "READY_TO_SEND"
        /\ snd'.transmission_active = snd.transmission_active
    BY <1>2 DEF SenderTypeOK, StartCommand
  <2> QED BY <2>1 DEF OwnershipTracked
<1>3. CASE MarkAccepted
  BY <1>3 DEF SenderTypeOK, OwnershipTracked, MarkAccepted
<1>4. ASSUME NEW now \in Ticks, MarkTransmitted(now) PROVE OwnershipTracked'
  BY <1>4 DEF SenderTypeOK, OwnershipTracked, MarkTransmitted
<1>5. CASE MarkTransmitError
  BY <1>5, RetryOrFailType DEF SenderTypeOK, OwnershipTracked, MarkTransmitError
<1>6. ASSUME NEW now \in Ticks, Poll(now) PROVE OwnershipTracked'
  BY <1>6, RetryOrFailType DEF SenderTypeOK, OwnershipTracked, Poll
<1>7. ASSUME NEW f \in FeedbackFrames, NEW now \in Ticks,
             RouteSenderFeedback(f, now)
      PROVE  OwnershipTracked'
  <2>1. CASE HandleActivity(f.sequence, now)
    BY <2>1 DEF SenderTypeOK, OwnershipTracked, HandleActivity,
                ActivityAccepted, Answerable
  <2>2. CASE HandleResult(f.sequence, f.result)
    BY <2>2 DEF SenderTypeOK, OwnershipTracked, HandleResult
  <2>3. CASE HandleOutOfOrder(f.sequence, f.expected)
    BY <2>3 DEF SenderTypeOK, OwnershipTracked, HandleOutOfOrder
  <2>4. CASE UNCHANGED snd
    BY <2>4 DEF OwnershipTracked
  <2> QED BY <1>7, <2>1, <2>2, <2>3, <2>4 DEF RouteSenderFeedback
<1>8. CASE ReleaseResult
  BY <1>8 DEF SenderTypeOK, OwnershipTracked, ReleaseResult, ClearOperation
<1>9. CASE UNCHANGED snd
  BY <1>9 DEF OwnershipTracked
<1> QED BY <1>1, <1>2, <1>3, <1>4, <1>5, <1>6, <1>7, <1>8, <1>9 DEF SenderNext

LEMMA SequenceStep ==
  ASSUME SenderTypeOK, SequenceMatchesFrame, [SenderNext]_snd
  PROVE  SequenceMatchesFrame'
<1> USE DEF Outstanding, Unresolved
<1>1. ASSUME NEW q \in Seqs, SenderReset(q) PROVE SequenceMatchesFrame'
  BY <1>1 DEF SenderTypeOK, SequenceMatchesFrame, SenderReset, ClearOperation
<1>2. ASSUME NEW p \in Payloads, StartCommand(p) PROVE SequenceMatchesFrame'
  <2> DEFINE frame == CommandFrame(snd.next_sequence, p)
  <2>1. frame.sequence = snd.next_sequence /\ frame # NoFrame
    BY FrameFields DEF SenderTypeOK
  <2>2. /\ snd'.pending_frame = frame
        /\ snd'.state = "READY_TO_SEND"
        /\ snd'.pending_sequence = snd.next_sequence
        /\ snd'.next_sequence = snd.next_sequence
    BY <1>2 DEF SenderTypeOK, StartCommand
  <2> HIDE DEF frame
  <2> QED BY <2>1, <2>2 DEF SequenceMatchesFrame
<1>3. CASE MarkAccepted
  BY <1>3 DEF SenderTypeOK, SequenceMatchesFrame, MarkAccepted
<1>4. ASSUME NEW now \in Ticks, MarkTransmitted(now) PROVE SequenceMatchesFrame'
  BY <1>4 DEF SenderTypeOK, SequenceMatchesFrame, MarkTransmitted
<1>5. CASE MarkTransmitError
  BY <1>5, RetryOrFailType DEF SenderTypeOK, SequenceMatchesFrame, MarkTransmitError
<1>6. ASSUME NEW now \in Ticks, Poll(now) PROVE SequenceMatchesFrame'
  BY <1>6, RetryOrFailType DEF SenderTypeOK, SequenceMatchesFrame, Poll
<1>7. ASSUME NEW f \in FeedbackFrames, NEW now \in Ticks,
             RouteSenderFeedback(f, now)
      PROVE  SequenceMatchesFrame'
  <2>1. CASE HandleActivity(f.sequence, now)
    BY <2>1 DEF SenderTypeOK, SequenceMatchesFrame, HandleActivity,
                ActivityAccepted, Answerable
  <2>2. CASE HandleResult(f.sequence, f.result)
    <3>1. /\ snd.state # "IDLE" /\ snd'.state = "RESULT_READY"
          /\ snd'.next_sequence = NextSeq(snd.pending_sequence)
          /\ snd'.pending_sequence = snd.pending_sequence
          /\ snd'.pending_frame = snd.pending_frame
      BY <2>2 DEF SenderTypeOK, HandleResult, OutcomeAccepted, Answerable
    <3> QED BY <3>1 DEF SequenceMatchesFrame
  <2>3. CASE HandleOutOfOrder(f.sequence, f.expected)
    BY <2>3 DEF SenderTypeOK, SequenceMatchesFrame, HandleOutOfOrder,
                OutcomeAccepted, Answerable
  <2>4. CASE UNCHANGED snd
    BY <2>4 DEF SequenceMatchesFrame
  <2> QED BY <1>7, <2>1, <2>2, <2>3, <2>4 DEF RouteSenderFeedback
<1>8. CASE ReleaseResult
  BY <1>8 DEF SenderTypeOK, SequenceMatchesFrame, ReleaseResult, ClearOperation
<1>9. CASE UNCHANGED snd
  BY <1>9 DEF SequenceMatchesFrame
<1> QED BY <1>1, <1>2, <1>3, <1>4, <1>5, <1>6, <1>7, <1>8, <1>9 DEF SenderNext

LEMMA OutcomeStep ==
  ASSUME SenderTypeOK, AtMostOneOutcome, [SenderNext]_snd
  PROVE  AtMostOneOutcome'
<1> USE DEF Unresolved
<1>1. ASSUME NEW q \in Seqs, SenderReset(q) PROVE AtMostOneOutcome'
  BY <1>1 DEF SenderTypeOK, AtMostOneOutcome, SenderReset, ClearOperation
<1>2. ASSUME NEW p \in Payloads, StartCommand(p) PROVE AtMostOneOutcome'
  <2>1. /\ snd.state = "IDLE" /\ snd'.state = "READY_TO_SEND"
        /\ snd'.command_count = snd.command_count + 1
        /\ snd'.completed_count = snd.completed_count
    BY <1>2 DEF SenderTypeOK, StartCommand
  <2> QED BY <2>1 DEF SenderTypeOK, AtMostOneOutcome
<1>3. CASE MarkAccepted
  BY <1>3 DEF SenderTypeOK, AtMostOneOutcome, MarkAccepted
<1>4. ASSUME NEW now \in Ticks, MarkTransmitted(now) PROVE AtMostOneOutcome'
  BY <1>4 DEF SenderTypeOK, AtMostOneOutcome, MarkTransmitted
<1>5. CASE MarkTransmitError
  BY <1>5, RetryOrFailType DEF SenderTypeOK, AtMostOneOutcome, MarkTransmitError
<1>6. ASSUME NEW now \in Ticks, Poll(now) PROVE AtMostOneOutcome'
  BY <1>6, RetryOrFailType DEF SenderTypeOK, AtMostOneOutcome, Poll
<1>7. ASSUME NEW f \in FeedbackFrames, NEW now \in Ticks,
             RouteSenderFeedback(f, now)
      PROVE  AtMostOneOutcome'
  <2>1. CASE HandleActivity(f.sequence, now)
    BY <2>1 DEF SenderTypeOK, AtMostOneOutcome, HandleActivity,
                ActivityAccepted, Answerable
  <2>2. CASE f.type = "RESPONSE" /\ HandleResult(f.sequence, f.result)
    <3>1. f.result \in Results
      BY <2>2 DEF FeedbackFrames, AckFrames, ResponseFrames
    <3>2. snd.state \in Unresolved
      BY <2>2 DEF SenderTypeOK, HandleResult, OutcomeAccepted, Answerable
    <3>3. /\ snd'.state = "RESULT_READY" /\ snd'.result = f.result
          /\ snd'.command_count = snd.command_count
          /\ snd'.completed_count = snd.completed_count + 1
      BY <2>2 DEF SenderTypeOK, HandleResult
    <3> QED BY <3>1, <3>2, <3>3, FramesAssumption DEF SenderTypeOK, AtMostOneOutcome
  <2>3. CASE HandleOutOfOrder(f.sequence, f.expected)
    BY <2>3 DEF SenderTypeOK, AtMostOneOutcome, HandleOutOfOrder,
                OutcomeAccepted, Answerable
  <2>4. CASE UNCHANGED snd
    BY <2>4 DEF AtMostOneOutcome
  <2> QED BY <1>7, <2>1, <2>2, <2>3, <2>4 DEF RouteSenderFeedback
<1>8. CASE ReleaseResult
  BY <1>8 DEF SenderTypeOK, AtMostOneOutcome, ReleaseResult, ClearOperation
<1>9. CASE UNCHANGED snd
  BY <1>9 DEF AtMostOneOutcome
<1> QED BY <1>1, <1>2, <1>3, <1>4, <1>5, <1>6, <1>7, <1>8, <1>9 DEF SenderNext

-----------------------------------------------------------------------------
\* The session's fields keep their ranges: sequences wrap, attempts do not
\* exceed max_attempts.
THEOREM SenderTypeCorrect == SenderSpec => []SenderTypeOK
<1>1. SenderInit => SenderTypeOK
  BY SenderStartType
<1>2. SenderTypeOK /\ [SenderNext]_snd => SenderTypeOK'
  BY SenderTypeStep
<1> QED BY <1>1, <1>2, PTL DEF SenderSpec

\* A session never gets stuck with a retry it may not send, knows when the
\* transport holds its frame, retries under the frame's own sequence, and
\* gives a command at most one result.
THEOREM SenderIsSafe == SenderSpec => []SenderSafe
<1>1. SenderInit => SenderTypeOK /\ SenderSafe
  BY SenderStartType
<1>2. SenderTypeOK /\ SenderSafe /\ [SenderNext]_snd => SenderSafe'
  BY AttemptsStep, OwnershipStep, SequenceStep, OutcomeStep DEF SenderSafe
<1> QED BY <1>1, <1>2, SenderTypeCorrect, PTL DEF SenderSpec

\* No operation rewrites the retained frame while the transport may read it:
\* start_command, the only writer, needs IDLE, and no transfer is active there.
THEOREM SenderKeepsActiveFrame == SenderSpec => ActiveFrameKept
<1>1. ASSUME SenderTypeOK, OwnershipTracked, SenderNext, snd.transmission_active
      PROVE  snd'.pending_frame = snd.pending_frame
  <2>1. ASSUME NEW q \in Seqs, SenderReset(q) PROVE FALSE
    BY <1>1, <2>1 DEF SenderReset
  <2>2. ASSUME NEW p \in Payloads, StartCommand(p) PROVE FALSE
    BY <1>1, <2>2 DEF StartCommand, OwnershipTracked
  <2>3. CASE MarkAccepted
    BY <1>1, <2>3 DEF SenderTypeOK, MarkAccepted
  <2>4. ASSUME NEW now \in Ticks, MarkTransmitted(now)
        PROVE  snd'.pending_frame = snd.pending_frame
    BY <1>1, <2>4 DEF SenderTypeOK, MarkTransmitted
  <2>5. CASE MarkTransmitError
    BY <1>1, <2>5 DEF SenderTypeOK, MarkTransmitError
  <2>6. ASSUME NEW now \in Ticks, Poll(now)
        PROVE  snd'.pending_frame = snd.pending_frame
    BY <1>1, <2>6 DEF SenderTypeOK, Poll
  <2>7. ASSUME NEW f \in FeedbackFrames, NEW now \in Ticks,
               RouteSenderFeedback(f, now)
        PROVE  snd'.pending_frame = snd.pending_frame
    BY <1>1, <2>7 DEF SenderTypeOK, RouteSenderFeedback, HandleActivity,
                      HandleResult, HandleOutOfOrder
  <2>8. CASE ReleaseResult
    BY <1>1, <2>8 DEF ReleaseResult
  <2> QED BY <1>1, <2>1, <2>2, <2>3, <2>4, <2>5, <2>6, <2>7, <2>8 DEF SenderNext
<1>2. SenderTypeOK /\ SenderSafe /\ [SenderNext]_snd =>
        [snd.transmission_active => snd'.pending_frame = snd.pending_frame]_snd
  BY <1>1 DEF SenderSafe
<1> QED BY <1>2, SenderTypeCorrect, SenderIsSafe, PTL DEF SenderSpec, ActiveFrameKept

-----------------------------------------------------------------------------
(***************************************************************************)
(* The receiver session.                                                   *)
(***************************************************************************)
rvars == <<rcv, decision>>

LEMMA ZeroInSeqs == 0 \in Seqs
  BY FramesAssumption DEF Seqs

\* Accepting a sequence yields a tracker that expects the next one.
LEMMA AcceptFields ==
  ASSUME NEW t \in Trackers, NEW q \in Seqs
  PROVE  /\ Accept(t, q) \in Trackers
         /\ Accept(t, q).initialized
         /\ Accept(t, q).last_accepted_sequence = q
         /\ Accept(t, q).expected_sequence = NextSeq(q)
         /\ Accept(t, q).accepted_count = t.accepted_count + 1
<1>1. NextSeq(q) \in Seqs
  BY NextSeqType
<1> DEFINE next == NextSeq(q)
<1>2. Accept(t, q) = [t EXCEPT !.initialized = TRUE,
                               !.last_accepted_sequence = q,
                               !.expected_sequence = next,
                               !.accepted_count = t.accepted_count + 1]
  BY DEF Accept
<1>3. next \in Seqs /\ t.accepted_count + 1 \in Nat
  BY <1>1 DEF Trackers
<1> HIDE DEF next
<1>4. /\ Accept(t, q) \in Trackers
      /\ Accept(t, q).initialized
      /\ Accept(t, q).last_accepted_sequence = q
      /\ Accept(t, q).expected_sequence = next
      /\ Accept(t, q).accepted_count = t.accepted_count + 1
  BY <1>2, <1>3 DEF Trackers
<1> QED BY <1>4 DEF next

\* A reset tracker is uninitialized and keeps its lifetime count.
LEMMA TrackerResetFields ==
  ASSUME NEW t \in Trackers
  PROVE  /\ TrackerReset(t) \in Trackers
         /\ ~TrackerReset(t).initialized
         /\ TrackerReset(t).accepted_count = t.accepted_count
  BY ZeroInSeqs DEF Trackers, TrackerReset

LEMMA DecisionFields ==
  ASSUME NEW a, NEW q, NEW e, NEW r
  PROVE  /\ Decision(a, q, e, r).action = a
         /\ Decision(a, q, e, r).sequence = q
         /\ Decision(a, q, e, r).expected = e
         /\ Decision(a, q, e, r).result = r
  BY DEF Decision

\* What each kind of decision presupposes.
LEMMA DecisionCases ==
  ASSUME ReceiverTypeOK, CacheCoherent,
         NEW f \in CommandFrames \cup TelemetryFrames
  PROVE  /\ DecisionFor(rcv, f) \in Decisions
         /\ DecisionFor(rcv, f).action # "INVALID"
         /\ DecisionFor(rcv, f).sequence = f.sequence
         /\ DecisionFor(rcv, f).action = "EXECUTE" =>
              /\ ~rcv.pending_valid
              /\ CanCommit(rcv.command_tracker, f.sequence)
         /\ DecisionFor(rcv, f).action = "RESEND_RESULT" =>
              /\ ~rcv.pending_valid
              /\ rcv.cached_result_valid
              /\ DecisionFor(rcv, f).result = rcv.cached_result
              /\ DecisionFor(rcv, f).sequence = rcv.cached_result_sequence
         /\ DecisionFor(rcv, f).action = "OUT_OF_ORDER" =>
              \/ rcv.pending_valid /\ f.sequence # rcv.pending_sequence
              \/ /\ rcv.command_tracker.initialized
                 /\ f.sequence # rcv.command_tracker.last_accepted_sequence
                 /\ f.sequence # rcv.command_tracker.expected_sequence
<1> DEFINE d == DecisionFor(rcv, f)
           t == rcv.command_tracker
           q == f.sequence
<1>1. /\ q \in Seqs
      /\ rcv.pending_sequence \in Seqs
      /\ t \in Trackers /\ t.expected_sequence \in Seqs
      /\ rcv.cached_result \in Results \cup {NoResult}
      /\ 0 \in Seqs /\ NoResult \in Results \cup {NoResult}
  BY ZeroInSeqs DEF ReceiverTypeOK, CommandFrames, TelemetryFrames, Trackers
<1> HIDE DEF q, t
<1>2. CASE f.type # "COMMAND"
  <2>1. d = Decision("IGNORED", q, 0, NoResult)
    BY <1>2 DEF DecisionFor, q
  <2> QED BY <1>1, <2>1 DEF Decision, Decisions, Actions, q
<1>3. CASE f.type = "COMMAND" /\ rcv.pending_valid
  <2>1. d = DecisionWhilePending(rcv, q)
    BY <1>3 DEF DecisionFor, q
  <2>2. CASE q = rcv.pending_sequence
    <3>1. d = Decision("IN_PROGRESS", q, rcv.pending_sequence, NoResult)
      BY <2>1, <2>2 DEF DecisionWhilePending
    <3> QED BY <1>1, <3>1 DEF Decision, Decisions, Actions, q
  <2>3. CASE q # rcv.pending_sequence
    <3>1. d = Decision("OUT_OF_ORDER", q, rcv.pending_sequence, NoResult)
      BY <2>1, <2>3 DEF DecisionWhilePending
    <3> QED BY <1>1, <1>3, <2>3, <3>1 DEF Decision, Decisions, Actions, q
  <2> QED BY <2>2, <2>3
<1>4. CASE f.type = "COMMAND" /\ ~rcv.pending_valid
  <2>0. d = DecisionWhenFree(rcv, q)
    BY <1>4 DEF DecisionFor, q
  <2>1. CASE Classify(t, q) = "NEW"
    <3>1. d = Decision("EXECUTE", q, q, NoResult)
      BY <2>0, <2>1 DEF DecisionWhenFree, t
    <3>2. CanCommit(t, q)
      BY <2>1 DEF Classify, CanCommit
    <3> QED BY <1>1, <1>4, <3>1, <3>2 DEF Decision, Decisions, Actions, q, t
  <2>2. CASE Classify(t, q) = "DUPLICATE"
    <3>1. t.initialized /\ q = t.last_accepted_sequence
      BY <2>2 DEF Classify
    <3>2. CachedFor(rcv, q)
      BY <3>1 DEF CacheCoherent, CachedFor, t
    <3>3. d = Decision("RESEND_RESULT", q, t.expected_sequence, rcv.cached_result)
      BY <2>0, <2>2, <3>2 DEF DecisionWhenFree, t
    <3> QED BY <1>1, <1>4, <3>2, <3>3 DEF CachedFor, Decision, Decisions, Actions, q
  <2>3. CASE Classify(t, q) = "OUT_OF_ORDER"
    <3>1. d = Decision("OUT_OF_ORDER", q, t.expected_sequence, NoResult)
      BY <2>0, <2>3 DEF DecisionWhenFree, t
    <3>2. t.initialized /\ q # t.last_accepted_sequence /\ q # t.expected_sequence
      BY <2>3 DEF Classify
    <3> QED BY <1>1, <3>1, <3>2 DEF Decision, Decisions, Actions, q, t
  <2> QED BY <2>1, <2>2, <2>3 DEF Classify
<1> QED BY <1>2, <1>3, <1>4

LEMMA ReceiverStartSafe == ReceiverInit => ReceiverTypeOK /\ ReceiverSafe
<1> SUFFICES ASSUME ReceiverInit PROVE ReceiverTypeOK /\ ReceiverSafe
  OBVIOUS
<1>1. TrackerStart \in Trackers
  BY ZeroInSeqs DEF TrackerStart, Trackers
<1>2. ReceiverTypeOK
  BY <1>1, ZeroInSeqs DEF ReceiverInit, ReceiverStart, ReceiverTypeOK
<1>3. /\ ~rcv.pending_valid /\ ~rcv.cached_result_valid
      /\ ~rcv.command_tracker.initialized
      /\ rcv.command_tracker.accepted_count = 0
      /\ rcv.deferred_count = 0 /\ rcv.execute_count = 0
      /\ decision.action = "NONE"
  BY DEF ReceiverInit, ReceiverStart, TrackerStart, NoDecision
<1> QED BY <1>2, <1>3 DEF ReceiverSafe, CacheCoherent, PendingCommittable,
           EveryCommandAnswered, BorrowedResultStable, ExecutionsConserved

\* The fields each operation leaves behind.
LEMMA CompleteFields ==
  ASSUME ReceiverTypeOK, NEW q \in Seqs, NEW r \in Results, Complete(q, r)
  PROVE  /\ ReceiverTypeOK'
         /\ rcv'.command_tracker = Accept(rcv.command_tracker, q)
         /\ ~rcv'.pending_valid /\ rcv'.cached_result_valid
         /\ rcv'.cached_result = r /\ rcv'.cached_result_sequence = q
         /\ rcv'.execute_count = rcv.execute_count
         /\ rcv'.deferred_count = rcv.deferred_count
         /\ decision' = decision
<1> DEFINE new == Accept(rcv.command_tracker, q)
<1>1. new \in Trackers
  BY AcceptFields DEF ReceiverTypeOK
<1>2. rcv' = [rcv EXCEPT !.command_tracker = new,
                         !.cached_result = r,
                         !.cached_result_valid = TRUE,
                         !.cached_result_sequence = q,
                         !.pending_valid = FALSE,
                         !.pending_sequence = 0]
  BY DEF Complete
<1>3. decision' = decision
  BY DEF Complete
<1> HIDE DEF new
<1>4. /\ ReceiverTypeOK'
      /\ rcv'.command_tracker = new
      /\ ~rcv'.pending_valid /\ rcv'.cached_result_valid
      /\ rcv'.cached_result = r /\ rcv'.cached_result_sequence = q
      /\ rcv'.execute_count = rcv.execute_count
      /\ rcv'.deferred_count = rcv.deferred_count
  BY <1>1, <1>2, <1>3, ZeroInSeqs DEF ReceiverTypeOK
<1> QED BY <1>3, <1>4 DEF new

\* What a reset leaves of the session, whatever becomes of the decision.
LEMMA ClearedFields ==
  ASSUME ReceiverTypeOK, rcv' = ReceiverCleared(rcv),
         decision' \in Decisions \cup {NoDecision}
  PROVE  /\ ReceiverTypeOK'
         /\ ~rcv'.command_tracker.initialized
         /\ rcv'.command_tracker.accepted_count = rcv.command_tracker.accepted_count
         /\ ~rcv'.pending_valid /\ ~rcv'.cached_result_valid
         /\ rcv'.execute_count = rcv.execute_count
         /\ rcv'.deferred_count = rcv.deferred_count
<1> DEFINE new == TrackerReset(rcv.command_tracker)
<1>1. /\ new \in Trackers /\ ~new.initialized
      /\ new.accepted_count = rcv.command_tracker.accepted_count
  BY TrackerResetFields DEF ReceiverTypeOK
<1>2. rcv' = [rcv EXCEPT !.command_tracker = new,
                         !.pending_valid = FALSE,
                         !.pending_sequence = 0,
                         !.cached_result_valid = FALSE,
                         !.cached_result_sequence = 0,
                         !.cached_result = NoResult]
  BY DEF ReceiverCleared
<1> HIDE DEF new
<1> QED BY <1>1, <1>2, ZeroInSeqs DEF ReceiverTypeOK

LEMMA ResetFields ==
  ASSUME ReceiverTypeOK, ReceiverReset
  PROVE  /\ ReceiverTypeOK'
         /\ ~rcv'.command_tracker.initialized
         /\ rcv'.command_tracker.accepted_count = rcv.command_tracker.accepted_count
         /\ ~rcv'.pending_valid /\ ~rcv'.cached_result_valid
         /\ rcv'.execute_count = rcv.execute_count
         /\ rcv'.deferred_count = rcv.deferred_count
         /\ decision' = decision
<1>1. /\ rcv' = ReceiverCleared(rcv) /\ decision' = decision
      /\ decision \in Decisions \cup {NoDecision}
  BY DEF ReceiverReset, ReceiverTypeOK
<1> QED BY <1>1, ClearedFields

LEMMA DeferFields ==
  ASSUME ReceiverTypeOK, NEW q \in Seqs, Defer(q)
  PROVE  /\ ReceiverTypeOK'
         /\ rcv.pending_valid /\ ~rcv'.pending_valid
         /\ rcv'.command_tracker = rcv.command_tracker
         /\ rcv'.cached_result_valid = rcv.cached_result_valid
         /\ rcv'.cached_result = rcv.cached_result
         /\ rcv'.cached_result_sequence = rcv.cached_result_sequence
         /\ rcv'.execute_count = rcv.execute_count
         /\ rcv'.deferred_count = rcv.deferred_count + 1
         /\ decision' = decision
<1>1. rcv.deferred_count + 1 \in Nat
  BY DEF ReceiverTypeOK
<1>2. rcv' = [rcv EXCEPT !.pending_valid = FALSE,
                         !.pending_sequence = 0,
                         !.deferred_count = rcv.deferred_count + 1]
  BY DEF Defer
<1>3. rcv.pending_valid /\ decision' = decision
  BY DEF Defer
<1> QED BY <1>1, <1>2, <1>3, ZeroInSeqs DEF ReceiverTypeOK

\* A frame changes the session only by making its command pending.
LEMMA HandleFrameFields ==
  ASSUME ReceiverTypeOK, CacheCoherent,
         NEW f \in CommandFrames \cup TelemetryFrames, HandleFrame(f)
  PROVE  /\ ReceiverTypeOK'
         /\ decision' = DecisionFor(rcv, f)
         /\ rcv'.command_tracker = rcv.command_tracker
         /\ rcv'.cached_result_valid = rcv.cached_result_valid
         /\ rcv'.cached_result = rcv.cached_result
         /\ rcv'.cached_result_sequence = rcv.cached_result_sequence
         /\ rcv'.deferred_count = rcv.deferred_count
         /\ decision'.action = "EXECUTE" =>
              /\ rcv'.pending_valid /\ rcv'.pending_sequence = f.sequence
              /\ rcv'.execute_count = rcv.execute_count + 1
         /\ decision'.action # "EXECUTE" => rcv' = rcv
<1>1. decision' = DecisionFor(rcv, f) /\ decision' \in Decisions
  BY DecisionCases DEF HandleFrame
<1>2. f.sequence \in Seqs
  BY DEF CommandFrames, TelemetryFrames
<1>3. CASE decision'.action = "EXECUTE"
  <2>1. rcv' = [rcv EXCEPT !.pending_valid = TRUE,
                           !.pending_sequence = f.sequence,
                           !.execute_count = rcv.execute_count + 1]
    BY <1>3 DEF HandleFrame
  <2>2. rcv.execute_count + 1 \in Nat
    BY DEF ReceiverTypeOK
  <2> DEFINE q == f.sequence
  <2> HIDE DEF q
  <2>3. rcv' = [rcv EXCEPT !.pending_valid = TRUE,
                           !.pending_sequence = q,
                           !.execute_count = rcv.execute_count + 1]
    BY <2>1 DEF q
  <2>4. /\ ReceiverTypeOK'
        /\ rcv'.pending_valid /\ rcv'.pending_sequence = q
        /\ rcv'.execute_count = rcv.execute_count + 1
        /\ rcv'.command_tracker = rcv.command_tracker
        /\ rcv'.cached_result_valid = rcv.cached_result_valid
        /\ rcv'.cached_result = rcv.cached_result
        /\ rcv'.cached_result_sequence = rcv.cached_result_sequence
        /\ rcv'.deferred_count = rcv.deferred_count
    BY <1>1, <1>2, <2>2, <2>3 DEF ReceiverTypeOK, q
  <2> QED BY <1>1, <1>3, <2>4 DEF q
<1>4. CASE decision'.action # "EXECUTE"
  <2>1. rcv' = rcv
    BY <1>4 DEF HandleFrame
  <2> QED BY <1>1, <1>4, <2>1 DEF ReceiverTypeOK
<1> QED BY <1>3, <1>4

LEMMA ReceiverStep ==
  ASSUME ReceiverTypeOK, ReceiverSafe, [ReceiverNext]_rvars
  PROVE  ReceiverTypeOK' /\ ReceiverSafe'
<1> USE DEF ReceiverSafe
<1>0. /\ rcv.command_tracker \in Trackers
      /\ rcv.command_tracker.accepted_count \in Nat
      /\ rcv.execute_count \in Nat /\ rcv.deferred_count \in Nat
      /\ rcv.pending_valid \in BOOLEAN
  BY DEF ReceiverTypeOK, Trackers
<1>1. CASE ReceiverReset
  BY <1>0, <1>1, ResetFields
     DEF CacheCoherent, PendingCommittable, EveryCommandAnswered,
         BorrowedResultStable, ExecutionsConserved
<1>2. ASSUME NEW f \in CommandFrames \cup TelemetryFrames, HandleFrame(f)
      PROVE  ReceiverTypeOK' /\ ReceiverSafe'
  <2>1. ReceiverTypeOK' /\ CacheCoherent'
    BY <1>2, HandleFrameFields DEF CacheCoherent
  <2>2. EveryCommandAnswered'
    BY <1>2, HandleFrameFields, DecisionCases DEF EveryCommandAnswered
  <2>3. CASE decision'.action = "EXECUTE"
    <3>1. ~rcv.pending_valid /\ CanCommit(rcv.command_tracker, f.sequence)
      BY <1>2, <2>3, HandleFrameFields, DecisionCases
    <3>2. PendingCommittable'
      BY <1>2, <2>3, <3>1, HandleFrameFields DEF PendingCommittable, CanCommit
    <3>3. BorrowedResultStable'
      BY <2>3 DEF BorrowedResultStable
    <3>4. ExecutionsConserved'
      BY <1>0, <1>2, <2>3, <3>1, HandleFrameFields DEF ExecutionsConserved
    <3> QED BY <2>1, <2>2, <3>2, <3>3, <3>4
  <2>4. CASE decision'.action # "EXECUTE"
    <3>1. rcv' = rcv
      BY <1>2, <2>4, HandleFrameFields
    <3>2. PendingCommittable' /\ ExecutionsConserved'
      BY <3>1 DEF PendingCommittable, ExecutionsConserved
    <3>3. BorrowedResultStable'
      BY <1>2, <3>1, HandleFrameFields, DecisionCases DEF BorrowedResultStable
    <3> QED BY <2>1, <2>2, <3>2, <3>3
  <2> QED BY <2>3, <2>4
<1>3. ASSUME NEW q \in Seqs, NEW r \in Results, Complete(q, r)
      PROVE  ReceiverTypeOK' /\ ReceiverSafe'
  <2>1. rcv.pending_valid
    BY <1>3 DEF Complete
  <2>2. ReceiverTypeOK' /\ CacheCoherent'
    BY <1>0, <1>3, CompleteFields, AcceptFields DEF CacheCoherent
  <2>3. PendingCommittable' /\ EveryCommandAnswered'
    BY <1>3, CompleteFields DEF PendingCommittable, EveryCommandAnswered
  <2>4. BorrowedResultStable'
    BY <1>3, <2>1, CompleteFields DEF BorrowedResultStable
  <2>5. ExecutionsConserved'
    BY <1>0, <1>3, <2>1, CompleteFields, AcceptFields DEF ExecutionsConserved
  <2> QED BY <2>2, <2>3, <2>4, <2>5
<1>4. ASSUME NEW q \in Seqs, Defer(q) PROVE ReceiverTypeOK' /\ ReceiverSafe'
  <2>1. ReceiverTypeOK' /\ CacheCoherent' /\ PendingCommittable'
    BY <1>4, DeferFields DEF CacheCoherent, PendingCommittable
  <2>2. EveryCommandAnswered' /\ BorrowedResultStable'
    BY <1>4, DeferFields DEF EveryCommandAnswered, BorrowedResultStable
  <2>3. ExecutionsConserved'
    BY <1>0, <1>4, DeferFields DEF ExecutionsConserved
  <2> QED BY <2>1, <2>2, <2>3
<1>5. CASE UNCHANGED rvars
  BY <1>5 DEF rvars, ReceiverTypeOK, CacheCoherent, PendingCommittable,
              EveryCommandAnswered, BorrowedResultStable, ExecutionsConserved
<1> QED BY <1>1, <1>2, <1>3, <1>4, <1>5 DEF ReceiverNext

-----------------------------------------------------------------------------
\* The receiver's types, and: a pending command can always be committed, every
\* command frame is answered, an unrouted cached result stays what it was, and
\* no execution is counted twice.
THEOREM ReceiverIsSafe == ReceiverSpec => [](ReceiverTypeOK /\ ReceiverSafe)
<1>1. ReceiverInit => ReceiverTypeOK /\ ReceiverSafe
  BY ReceiverStartSafe
<1>2. ReceiverTypeOK /\ ReceiverSafe /\ [ReceiverNext]_rvars
        => (ReceiverTypeOK /\ ReceiverSafe)'
  BY ReceiverStep
<1> QED BY <1>1, <1>2, PTL DEF ReceiverSpec, rvars

\* handle_frame never takes its "return false" branch for a duplicate.
COROLLARY ReceiverAnswersAll == ReceiverSpec => []EveryCommandAnswered
<1>1. ReceiverSafe => EveryCommandAnswered
  BY DEF ReceiverSafe
<1> QED BY <1>1, ReceiverIsSafe, PTL

\* The cache holds the result of the last accepted sequence, so a repeat of it
\* can be answered without executing the command again.
COROLLARY ReceiverCacheCoherent == ReceiverSpec => []CacheCoherent
<1>1. ReceiverSafe => CacheCoherent
  BY DEF ReceiverSafe
<1> QED BY <1>1, ReceiverIsSafe, PTL

\* The cached result a decision points into is not overwritten before the
\* router encodes it.
COROLLARY ReceiverResultStable == ReceiverSpec => []BorrowedResultStable
<1>1. ReceiverSafe => BorrowedResultStable
  BY DEF ReceiverSafe
<1> QED BY <1>1, ReceiverIsSafe, PTL

\* complete never finds a pending command that commit refuses.
COROLLARY ReceiverCommitsPending == ReceiverSpec => []PendingCommittable
<1>1. ReceiverSafe => PendingCommittable
  BY DEF ReceiverSafe
<1> QED BY <1>1, ReceiverIsSafe, PTL

\* Between resets the accepted sequences are consecutive.
THEOREM CommitsAreConsecutive == ReceiverSpec => ConsecutiveCommits
<1>1. ASSUME ReceiverTypeOK, ReceiverSafe, ReceiverNext,
             rcv'.command_tracker.accepted_count # rcv.command_tracker.accepted_count,
             rcv.command_tracker.initialized
      PROVE  rcv'.command_tracker.last_accepted_sequence
               = NextSeq(rcv.command_tracker.last_accepted_sequence)
  <2>1. ~ReceiverReset
    BY <1>1, ResetFields
  <2>2. ASSUME NEW f \in CommandFrames \cup TelemetryFrames, HandleFrame(f)
        PROVE  FALSE
    BY <1>1, <2>2, HandleFrameFields DEF ReceiverSafe
  <2>3. ASSUME NEW q \in Seqs, Defer(q) PROVE FALSE
    BY <1>1, <2>3, DeferFields
  <2>4. ASSUME NEW q \in Seqs, NEW r \in Results, Complete(q, r)
        PROVE  rcv'.command_tracker.last_accepted_sequence
                 = NextSeq(rcv.command_tracker.last_accepted_sequence)
    <3>1. q = rcv.command_tracker.expected_sequence
      BY <1>1, <2>4 DEF Complete, CanCommit
    <3>2. rcv.command_tracker \in Trackers
      BY <1>1 DEF ReceiverTypeOK
    <3>3. rcv'.command_tracker = Accept(rcv.command_tracker, q)
      BY <1>1, <2>4, CompleteFields
    <3>4. Accept(rcv.command_tracker, q).last_accepted_sequence = q
      BY <3>2, AcceptFields
    <3> QED BY <1>1, <3>1, <3>3, <3>4 DEF ReceiverSafe, CacheCoherent
  <2> QED BY <1>1, <2>1, <2>2, <2>3, <2>4 DEF ReceiverNext
<1> DEFINE step == rcv'.command_tracker.accepted_count
                       # rcv.command_tracker.accepted_count
                     /\ rcv.command_tracker.initialized
                     => rcv'.command_tracker.last_accepted_sequence
                          = NextSeq(rcv.command_tracker.last_accepted_sequence)
<1>2. ReceiverTypeOK /\ ReceiverSafe /\ [ReceiverNext]_rvars => [step]_rvars
  BY <1>1
<1> QED BY <1>2, ReceiverIsSafe, PTL DEF ReceiverSpec, ConsecutiveCommits, rvars

=============================================================================
