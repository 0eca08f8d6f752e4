---------------------------- MODULE SenderSession ----------------------------
(***************************************************************************)
(* protocol_sender_session.c: one outstanding command, its retained frame, *)
(* its attempts and its response timeout.                                  *)
(*                                                                         *)
(* snd is the ProtocolSenderSession structure.  Its result code, data and  *)
(* data length are the one field result; pending_frame is the retained     *)
(* buffer, whose bytes survive the clearing of its length.  Of the lifetime*)
(* counters the model keeps the two a property is about.  A call that      *)
(* returns false changes nothing and is not a step.                        *)
(***************************************************************************)
EXTENDS Frames

CONSTANTS
  TickMod,          \* values of the millisecond clock: 2^32 in the code
  ResponseTimeout,  \* response_timeout_ms
  MaxAttempts,      \* max_attempts, the initial transmission included
  Ticks             \* values of now_ms the callers pass

ASSUME SenderAssumption ==
  /\ TickMod \in Nat
  /\ ResponseTimeout \in 1 .. ((TickMod - 1) \div 2)
  /\ MaxAttempts \in Nat \ {0}
  /\ Ticks \subseteq 0 .. TickMod - 1

VARIABLE snd

SenderStates == {"IDLE", "READY_TO_SEND", "SENDING", "WAITING_RESULT",
                 "RESULT_READY", "COMMUNICATION_FAILED", "DESYNCHRONIZED"}

NoFrame == [type |-> "NONE"]

SenderTypeOK ==
  snd \in [state                      : SenderStates,
           transmission_active        : BOOLEAN,
           next_sequence              : Seqs,
           pending_sequence           : Seqs,
           receiver_expected_sequence : Seqs,
           pending_frame              : CommandFrames \cup {NoFrame},
           last_activity_ms           : 0 .. TickMod - 1,
           attempt_count              : 0 .. MaxAttempts,
           result                     : Results \cup {NoResult},
           command_count              : Nat,
           completed_count            : Nat]

-----------------------------------------------------------------------------
\* protocol_sender_session_clear_operation
ClearOperation(s, initial) ==
  [s EXCEPT !.state = "IDLE",
            !.transmission_active = FALSE,
            !.next_sequence = initial,
            !.pending_sequence = 0,
            !.last_activity_ms = 0,
            !.attempt_count = 0,
            !.result = NoResult,
            !.receiver_expected_sequence = 0]

SenderStart(initial) ==
  [state |-> "IDLE", transmission_active |-> FALSE,
   next_sequence |-> initial, pending_sequence |-> 0,
   receiver_expected_sequence |-> 0, pending_frame |-> NoFrame,
   last_activity_ms |-> 0, attempt_count |-> 0, result |-> NoResult,
   command_count |-> 0, completed_count |-> 0]

SenderInit == \E q \in Seqs : snd = SenderStart(q)

\* Refused while the transport still reads the retained frame.
SenderReset(q) ==
  /\ ~snd.transmission_active
  /\ snd' = ClearOperation(snd, q)

StartCommand(p) ==
  /\ snd.state = "IDLE"
  /\ snd' = [snd EXCEPT !.pending_frame = CommandFrame(snd.next_sequence, p),
                        !.pending_sequence = snd.next_sequence,
                        !.attempt_count = 0,
                        !.state = "READY_TO_SEND",
                        !.command_count = @ + 1]

\* The transport, offered pending_frame by get_transmission, takes it.
MarkAccepted ==
  /\ snd.state = "READY_TO_SEND"
  /\ snd.attempt_count < MaxAttempts
  /\ snd' = [snd EXCEPT !.attempt_count = @ + 1,
                        !.transmission_active = TRUE,
                        !.state = "SENDING"]

\* Slip: the timeout not restarted.
MarkTransmittedUnstamped(now) ==
  /\ snd.transmission_active
  /\ \/ /\ snd.state = "SENDING"
        /\ snd' = [snd EXCEPT !.transmission_active = FALSE,
                              !.state = "WAITING_RESULT"]
     \/ /\ snd.state \in {"RESULT_READY", "DESYNCHRONIZED"}
        /\ snd' = [snd EXCEPT !.transmission_active = FALSE]

\* The last byte has left; the response timeout starts unless the outcome
\* arrived while a retry was being transmitted.
MarkTransmitted(now) ==
  /\ snd.transmission_active
  /\ \/ /\ snd.state = "SENDING"
        /\ snd' = [snd EXCEPT !.transmission_active = FALSE,
                              !.last_activity_ms = now,
                              !.state = "WAITING_RESULT"]
     \/ /\ snd.state \in {"RESULT_READY", "DESYNCHRONIZED"}
        /\ snd' = [snd EXCEPT !.transmission_active = FALSE]

\* Slip: one attempt too many.
RetryOnceMore(s) ==
  IF s.attempt_count <= MaxAttempts THEN "READY_TO_SEND"
                                    ELSE "COMMUNICATION_FAILED"

\* The end of an attempt that brought no answer.
RetryOrFail(s) ==
  IF s.attempt_count < MaxAttempts THEN "READY_TO_SEND"
                                   ELSE "COMMUNICATION_FAILED"

\* Slip: the outcome that came meanwhile forgotten.
MarkTransmitErrorAnyhow ==
  /\ snd.transmission_active
  /\ snd' = [snd EXCEPT !.transmission_active = FALSE,
                        !.state = RetryOrFail(snd)]

MarkTransmitError ==
  /\ snd.transmission_active
  /\ \/ /\ snd.state = "SENDING"
        /\ snd' = [snd EXCEPT !.transmission_active = FALSE,
                              !.state = RetryOrFail(snd)]
     \/ /\ snd.state \in {"RESULT_READY", "DESYNCHRONIZED"}
        /\ snd' = [snd EXCEPT !.transmission_active = FALSE]

\* Slip: a signed difference.
ElapsedSigned(s, now) == now - s.last_activity_ms

\* (uint32_t)(now_ms - last_activity_ms)
Elapsed(s, now) == (now - s.last_activity_ms) % TickMod

\* A poll that finds the response timeout expired; any other returns.
Poll(now) ==
  /\ snd.state = "WAITING_RESULT"
  /\ Elapsed(snd, now) >= ResponseTimeout
  /\ snd' = [snd EXCEPT !.state = RetryOrFail(snd)]

-----------------------------------------------------------------------------
(***************************************************************************)
(* Feedback.  Answers to the first transmission count only once it has     *)
(* ended; during a retry they may belong to an earlier attempt.            *)
(***************************************************************************)
\* Slip: the sequence not compared.
ForAnyCommand(s, q) == s.attempt_count # 0

ForPendingCommand(s, q) ==
  /\ q = s.pending_sequence
  /\ s.attempt_count # 0

Answerable(s) ==
  \/ s.state \in {"WAITING_RESULT", "READY_TO_SEND"}
  \/ s.state = "SENDING" /\ s.attempt_count > 1

ActivityAccepted(s, q) == ForPendingCommand(s, q) /\ Answerable(s)

\* Slip: a second result taken too.
OutcomeAcceptedAgain(s, q) == ForPendingCommand(s, q)

\* Slip: no outcome taken after the sender gave up.
OutcomeAcceptedInTime(s, q) == ForPendingCommand(s, q) /\ Answerable(s)

OutcomeAccepted(s, q) ==
  /\ ForPendingCommand(s, q)
  /\ Answerable(s) \/ s.state = "COMMUNICATION_FAILED"

\* ACCEPTED and IN_PROGRESS: a scheduled retry is cancelled and the timeout
\* restarts; a retry under way is left to start the timeout when it ends.
HandleActivity(q, now) ==
  /\ ActivityAccepted(snd, q)
  /\ snd' = IF snd.state = "SENDING" THEN snd
            ELSE [snd EXCEPT !.last_activity_ms = now,
                             !.state = "WAITING_RESULT"]

HandleResult(q, r) ==
  /\ OutcomeAccepted(snd, q)
  /\ snd' = [snd EXCEPT !.result = r,
                        !.next_sequence = NextSeq(snd.pending_sequence),
                        !.state = "RESULT_READY",
                        !.completed_count = @ + 1]

\* Slip: the receiver's sequence adopted on the spot.
HandleOutOfOrderAdopting(q, expected) ==
  /\ OutcomeAccepted(snd, q)
  /\ snd' = [snd EXCEPT !.receiver_expected_sequence = expected,
                        !.next_sequence = expected,
                        !.state = "DESYNCHRONIZED"]

HandleOutOfOrder(q, expected) ==
  /\ OutcomeAccepted(snd, q)
  /\ snd' = [snd EXCEPT !.receiver_expected_sequence = expected,
                        !.state = "DESYNCHRONIZED"]

\* Slip: a retry still being read by the transport forgotten.
ReleaseResultAtOnce ==
  /\ snd.state = "RESULT_READY"
  /\ snd' = ClearOperation(snd, snd.next_sequence)

\* The application took the result.
ReleaseResult ==
  /\ snd.state = "RESULT_READY"
  /\ ~snd.transmission_active
  /\ snd' = ClearOperation(snd, snd.next_sequence)

-----------------------------------------------------------------------------
\* protocol_session_route_sender_feedback: which handler a decoded frame
\* reaches, and the frames that change nothing (foreign type or sequence,
\* wrong moment).
FeedbackHandled(s, f) ==
  CASE f.type = "ACK" /\ f.status \in {"ACCEPTED", "IN_PROGRESS"} ->
         ActivityAccepted(s, f.sequence)
    [] f.type = "ACK" /\ f.status = "OUT_OF_ORDER" ->
         OutcomeAccepted(s, f.sequence)
    [] f.type = "RESPONSE" -> OutcomeAccepted(s, f.sequence)
    [] OTHER -> FALSE

RouteSenderFeedback(f, now) ==
  \/ /\ f.type = "ACK" /\ f.status \in {"ACCEPTED", "IN_PROGRESS"}
     /\ HandleActivity(f.sequence, now)
  \/ /\ f.type = "ACK" /\ f.status = "OUT_OF_ORDER"
     /\ HandleOutOfOrder(f.sequence, f.expected)
  \/ /\ f.type = "RESPONSE"
     /\ HandleResult(f.sequence, f.result)
  \/ ~FeedbackHandled(snd, f) /\ UNCHANGED snd

SenderNext ==
  \/ \E q \in Seqs : SenderReset(q)
  \/ \E p \in Payloads : StartCommand(p)
  \/ MarkAccepted
  \/ \E now \in Ticks : MarkTransmitted(now)
  \/ MarkTransmitError
  \/ \E now \in Ticks : Poll(now)
  \/ \E f \in FeedbackFrames, now \in Ticks : RouteSenderFeedback(f, now)
  \/ ReleaseResult

SenderSpec == SenderInit /\ [][SenderNext]_snd

-----------------------------------------------------------------------------
Outstanding == snd.state # "IDLE"

Unresolved == {"READY_TO_SEND", "SENDING", "WAITING_RESULT",
               "COMMUNICATION_FAILED", "DESYNCHRONIZED"}

\* A scheduled retry can still be transmitted, and a command is given up only
\* when its attempts are spent: mark_accepted refuses at max_attempts, so
\* READY_TO_SEND there would be a session that never moves again.
AttemptsHonoured ==
  /\ snd.state = "READY_TO_SEND" => snd.attempt_count < MaxAttempts
  /\ snd.state = "COMMUNICATION_FAILED" => snd.attempt_count = MaxAttempts
  /\ snd.state = "IDLE" => snd.attempt_count = 0

\* The transport may be reading the frame only in the states that block
\* start_command, reset and release; while SENDING it surely is.
OwnershipTracked ==
  /\ snd.state = "SENDING" => snd.transmission_active
  /\ snd.transmission_active =>
       snd.state \in {"SENDING", "RESULT_READY", "DESYNCHRONIZED"}

\* Every attempt of a command carries the sequence its answers are matched
\* with, and the sequence advances only with the command's own result.
SequenceMatchesFrame ==
  /\ Outstanding => snd.pending_frame # NoFrame
  /\ Outstanding => snd.pending_frame.sequence = snd.pending_sequence
  /\ snd.state \in Unresolved => snd.next_sequence = snd.pending_sequence
  /\ snd.state = "RESULT_READY" =>
       snd.next_sequence = NextSeq(snd.pending_sequence)

\* A command has one terminal result, however many of its answers arrive and
\* whenever they do.
AtMostOneOutcome ==
  /\ snd.completed_count
       + (IF snd.state \in Unresolved THEN 1 ELSE 0) <= snd.command_count
  /\ snd.state = "RESULT_READY" => snd.result # NoResult

SenderSafe ==
  /\ AttemptsHonoured
  /\ OwnershipTracked
  /\ SequenceMatchesFrame
  /\ AtMostOneOutcome

\* While transmission_active the retained bytes do not change, whatever the
\* application and the feedback do.
ActiveFrameKept ==
  [][ snd.transmission_active => snd'.pending_frame = snd.pending_frame ]_snd

=============================================================================
