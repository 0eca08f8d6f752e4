-------------------------- MODULE SenderTimingProofs --------------------------
(***************************************************************************)
(* The sender session under the wrapping clock, for every width of the     *)
(* clock and every timeout, as long as poll is called at least every       *)
(* TickMod - ResponseTimeout ticks.                                        *)
(***************************************************************************)
EXTENDS SenderTiming, SessionProofs

\* Every step of the timed sender is a step of the session or leaves it alone.
LEMMA TimingStepIsSenderStep ==
  ASSUME TimingTypeOK, [TimingNext]_vars
  PROVE  [SenderNext]_snd
<1>0. clock \in Ticks
  BY DEF TimingTypeOK
<1>1. CASE Tick
  BY <1>1 DEF Tick
<1>2. CASE CallPoll
  BY <1>0, <1>2 DEF CallPoll, SenderNext
<1>3. CASE TransmissionStarts
  BY <1>3 DEF TransmissionStarts, SenderNext
<1>4. CASE TransmissionEnds
  BY <1>0, <1>4 DEF TransmissionEnds, SenderNext
<1>5. ASSUME NEW p \in Payloads, Command(p) PROVE [SenderNext]_snd
  BY <1>5 DEF Command, SenderNext
<1>6. ASSUME NEW f \in FeedbackFrames, Receive(f) PROVE [SenderNext]_snd
  BY <1>0, <1>6 DEF Receive, SenderNext
<1>7. CASE Release
  BY <1>7 DEF Release, SenderNext
<1>8. ASSUME NEW q \in Seqs, Reset(q) PROVE [SenderNext]_snd
  BY <1>8 DEF Reset, SenderNext
<1>9. CASE UNCHANGED vars
  BY <1>9 DEF vars
<1> QED BY <1>1, <1>2, <1>3, <1>4, <1>5, <1>6, <1>7, <1>8, <1>9 DEF TimingNext

LEMMA TimingTypeStep ==
  ASSUME TimingTypeOK, [TimingNext]_vars
  PROVE  TimingTypeOK'
<1>1. SenderTypeOK'
  BY TimingStepIsSenderStep, SenderTypeStep DEF TimingTypeOK
<1>2. (clock' \in Ticks /\ waited' \in 0 .. TickMod /\ since_poll' \in 0 .. PollGap)
  <2> USE SenderAssumption, TimingAssumption DEF TimingTypeOK
  <2>1. CASE Tick
    BY <2>1 DEF Tick
  <2>2. CASE CallPoll
    BY <2>2 DEF CallPoll
  <2>3. CASE Stamped
    BY <2>3 DEF Stamped
  <2>4. CASE UNCHANGED times
    BY <2>4 DEF times
  <2> QED BY <2>1, <2>2, <2>3, <2>4 DEF TimingNext, TransmissionStarts,
             TransmissionEnds, Command, Receive, Release, Reset, vars
<1>3. reading' \in BOOLEAN
  BY DEF TimingTypeOK, TimingNext, Tick, CallPoll, TransmissionStarts,
         TransmissionEnds, Command, Receive, Release, Reset, vars
<1> QED BY <1>1, <1>2, <1>3 DEF TimingTypeOK

\* The difference of two clock values, read modulo TickMod, is the true time
\* between them while that is less than one turn of the clock.
LEMMA ElapsedIsTrueTime ==
  ASSUME NEW last \in 0 .. TickMod - 1, NEW now \in 0 .. TickMod - 1,
         NEW w \in 0 .. TickMod - 1,
         now = last + w \/ now = last + w - TickMod
  PROVE  (now - last) % TickMod = w
<1>1. CASE now = last + w
  BY <1>1, SenderAssumption
<1>2. CASE now = last + w - TickMod
  <2>1. now - last = w - TickMod
    BY <1>2, SenderAssumption
  <2>2. (w - TickMod) % TickMod = w
    BY SenderAssumption
  <2> QED BY <2>1, <2>2
<1> QED BY <1>1, <1>2

LEMMA WaitIsTrueTime ==
  ASSUME TimingTypeOK, TimingInv, snd.state = "WAITING_RESULT"
  PROVE  Elapsed(snd, clock) = waited /\ waited < TickMod
<1>1. /\ snd.last_activity_ms \in 0 .. TickMod - 1
      /\ clock \in 0 .. TickMod - 1
      /\ waited \in 0 .. TickMod /\ since_poll \in 0 .. PollGap
  BY TimingAssumption DEF TimingTypeOK, SenderTypeOK
<1>2. waited < ResponseTimeout + since_poll
  BY DEF TimingInv, WaitMeasured
<1>3. waited \in 0 .. TickMod - 1
  BY <1>1, <1>2, SenderAssumption, TimingAssumption
<1>4. clock = snd.last_activity_ms + waited
        \/ clock = snd.last_activity_ms + waited - TickMod
  BY DEF TimingInv, WaitMeasured
<1> QED BY <1>1, <1>3, <1>4, ElapsedIsTrueTime, SenderAssumption DEF Elapsed

\* A step that leaves the session waiting either stamps it now, or changes
\* neither the stamp nor the time.
LEMMA WaitMeasuredStep ==
  ASSUME TimingTypeOK, TimingInv, [TimingNext]_vars
  PROVE  WaitMeasured'
<1>1. /\ snd.last_activity_ms \in 0 .. TickMod - 1
      /\ clock \in 0 .. TickMod - 1
      /\ waited \in 0 .. TickMod /\ since_poll \in 0 .. PollGap
  BY TimingAssumption DEF TimingTypeOK, SenderTypeOK
<1>2. CASE Tick
  <2>1. SUFFICES ASSUME snd.state = "WAITING_RESULT"
                 PROVE  /\ waited' < ResponseTimeout + since_poll'
                        /\ \/ clock' = snd.last_activity_ms + waited'
                           \/ clock' = snd.last_activity_ms + waited' - TickMod
    BY <1>2 DEF Tick, WaitMeasured
  <2>2. waited < TickMod /\ waited' = waited + 1 /\ since_poll' = since_poll + 1
    BY <1>1, <1>2, <2>1, WaitIsTrueTime DEF Tick
  <2>3. waited < ResponseTimeout + since_poll /\ since_poll < PollGap
    BY <1>2, <2>1 DEF TimingInv, WaitMeasured, Tick
  <2>4. waited' < ResponseTimeout + since_poll' /\ waited' < TickMod
    BY <1>1, <2>2, <2>3, SenderAssumption, TimingAssumption
  <2>5. clock = snd.last_activity_ms + waited
          \/ clock = snd.last_activity_ms + waited - TickMod
    BY <2>1 DEF TimingInv, WaitMeasured
  <2>6. CASE clock + 1 < TickMod
    <3>1. clock' = clock + 1
      BY <1>1, <1>2, <2>6, SenderAssumption DEF Tick
    <3> QED BY <1>1, <2>2, <2>4, <2>5, <3>1, SenderAssumption
  <2>7. CASE clock + 1 = TickMod
    <3>1. clock' = 0
      BY <1>1, <1>2, <2>7, SenderAssumption DEF Tick
    <3> QED BY <1>1, <2>2, <2>4, <2>5, <2>7, <3>1, SenderAssumption
  <2> QED BY <1>1, <2>6, <2>7, SenderAssumption
<1>3. CASE CallPoll
  <2>1. CASE Poll(clock)
    <3>1. snd'.state # "WAITING_RESULT"
      BY <2>1, RetryOrFailType DEF Poll, TimingTypeOK, SenderTypeOK
    <3> QED BY <3>1 DEF WaitMeasured
  <2>2. CASE ~Expired /\ UNCHANGED snd
    <3>1. snd.state = "WAITING_RESULT" => waited < ResponseTimeout
      BY <1>1, <2>2, WaitIsTrueTime, SenderAssumption DEF Expired
    <3> QED BY <1>1, <1>3, <2>2, <3>1, SenderAssumption
            DEF CallPoll, TimingInv, WaitMeasured
  <2> QED BY <1>3, <2>1, <2>2 DEF CallPoll
<1>4. CASE TransmissionStarts
  <2>1. snd'.state = "SENDING"
    BY <1>4 DEF TransmissionStarts, MarkAccepted, TimingTypeOK, SenderTypeOK
  <2> QED BY <2>1 DEF WaitMeasured
<1>5. CASE TransmissionEnds
  <2>1. CASE MarkTransmitted(clock) /\ Stamped
    <3>1. snd'.state = "WAITING_RESULT" => snd'.last_activity_ms = clock
      BY <2>1 DEF MarkTransmitted, TimingTypeOK, SenderTypeOK
    <3> QED BY <1>1, <2>1, <3>1, SenderAssumption DEF Stamped, WaitMeasured
  <2>2. CASE MarkTransmitError /\ UNCHANGED times
    <3>1. snd'.state # "WAITING_RESULT"
      BY <2>2, RetryOrFailType DEF MarkTransmitError, TimingTypeOK, SenderTypeOK
    <3> QED BY <3>1 DEF WaitMeasured
  <2>3. CASE UNCHANGED <<snd, times>>
    BY <2>3 DEF times, TimingInv, WaitMeasured
  <2> QED BY <1>5, <2>1, <2>2, <2>3 DEF TransmissionEnds
<1>6. ASSUME NEW p \in Payloads, Command(p) PROVE WaitMeasured'
  <2>1. snd'.state = "READY_TO_SEND"
    BY <1>6 DEF Command, StartCommand, TimingTypeOK, SenderTypeOK
  <2> QED BY <2>1 DEF WaitMeasured
<1>7. ASSUME NEW f \in FeedbackFrames, Receive(f) PROVE WaitMeasured'
  <2>1. CASE UNCHANGED snd /\ UNCHANGED times
    BY <2>1 DEF times, TimingInv, WaitMeasured
  <2>2. CASE Stamped /\ HandleActivity(f.sequence, clock)
    <3>1. snd'.state = "WAITING_RESULT" => snd'.last_activity_ms = clock
      BY <2>2 DEF HandleActivity, TimingTypeOK, SenderTypeOK
    <3> QED BY <1>1, <2>2, <3>1, SenderAssumption DEF Stamped, WaitMeasured
  <2>3. CASE HandleResult(f.sequence, f.result)
    <3>1. snd'.state # "WAITING_RESULT"
      BY <2>3 DEF HandleResult, TimingTypeOK, SenderTypeOK
    <3> QED BY <3>1 DEF WaitMeasured
  <2>4. CASE HandleOutOfOrder(f.sequence, f.expected)
    <3>1. snd'.state # "WAITING_RESULT"
      BY <2>4 DEF HandleOutOfOrder, TimingTypeOK, SenderTypeOK
    <3> QED BY <3>1 DEF WaitMeasured
  <2>5. CASE snd'.state # "WAITING_RESULT"
    BY <2>5 DEF WaitMeasured
  <2> QED BY <1>7, <2>1, <2>2, <2>3, <2>4, <2>5
          DEF Receive, RouteSenderFeedback, FeedbackHandled, HandleActivity
<1>8. CASE Release
  <2>1. snd'.state = "IDLE"
    BY <1>8 DEF Release, ReleaseResult, ClearOperation, TimingTypeOK, SenderTypeOK
  <2> QED BY <2>1 DEF WaitMeasured
<1>9. ASSUME NEW q \in Seqs, Reset(q) PROVE WaitMeasured'
  <2>1. snd'.state = "IDLE"
    BY <1>9 DEF Reset, SenderReset, ClearOperation, TimingTypeOK, SenderTypeOK
  <2> QED BY <2>1 DEF WaitMeasured
<1>10. CASE UNCHANGED vars
  BY <1>10 DEF vars, times, TimingInv, WaitMeasured
<1> QED BY <1>2, <1>3, <1>4, <1>5, <1>6, <1>7, <1>8, <1>9, <1>10 DEF TimingNext

\* The session believes in a transmission exactly while there is one.
LEMMA ReadsKnownStep ==
  ASSUME TimingTypeOK, TimingInv, [TimingNext]_vars
  PROVE  (reading = snd.transmission_active)'
<1> USE DEF TimingInv, TimingTypeOK, SenderTypeOK
<1>1. CASE Tick
  BY <1>1 DEF Tick
<1>2. CASE CallPoll
  BY <1>2 DEF CallPoll, Poll
<1>3. CASE TransmissionStarts
  BY <1>3 DEF TransmissionStarts, MarkAccepted
<1>4. CASE TransmissionEnds
  BY <1>4 DEF TransmissionEnds, MarkTransmitted, MarkTransmitError
<1>5. ASSUME NEW p \in Payloads, Command(p)
      PROVE  (reading = snd.transmission_active)'
  <2>1. snd'.transmission_active = snd.transmission_active
    BY <1>5 DEF Command, StartCommand
  <2> QED BY <1>5, <2>1 DEF Command
<1>6. ASSUME NEW f \in FeedbackFrames, Receive(f)
      PROVE  (reading = snd.transmission_active)'
  <2>1. snd'.transmission_active = snd.transmission_active
    BY <1>6 DEF Receive, RouteSenderFeedback, HandleActivity, HandleResult,
                HandleOutOfOrder
  <2> QED BY <1>6, <2>1 DEF Receive
<1>7. CASE Release
  BY <1>7 DEF Release, ReleaseResult, ClearOperation
<1>8. ASSUME NEW q \in Seqs, Reset(q) PROVE (reading = snd.transmission_active)'
  BY <1>8 DEF Reset, SenderReset, ClearOperation
<1>9. CASE UNCHANGED vars
  BY <1>9 DEF vars
<1> QED BY <1>1, <1>2, <1>3, <1>4, <1>5, <1>6, <1>7, <1>8, <1>9 DEF TimingNext

LEMMA TimingStart == TimingInit => TimingTypeOK /\ TimingInv
<1> SUFFICES ASSUME TimingInit PROVE TimingTypeOK /\ TimingInv
  OBVIOUS
<1>1. SenderTypeOK /\ SenderSafe
  BY SenderStartType DEF TimingInit
<1>2. snd.state = "IDLE" /\ snd.transmission_active = FALSE
  BY DEF TimingInit, SenderInit, SenderStart
<1>3. TimingInv
  BY <1>1, <1>2 DEF TimingInit, TimingInv, WaitMeasured
<1>4. clock \in Ticks /\ waited \in 0 .. TickMod /\ since_poll \in 0 .. PollGap
  BY SenderAssumption, TimingAssumption DEF TimingInit
<1>5. reading \in BOOLEAN
  BY DEF TimingInit
<1> QED BY <1>1, <1>3, <1>4, <1>5 DEF TimingTypeOK

LEMMA TimingStep ==
  ASSUME TimingTypeOK, TimingInv, [TimingNext]_vars
  PROVE  TimingTypeOK' /\ TimingInv'
<1>1. SenderSafe'
  BY TimingStepIsSenderStep, AttemptsStep, OwnershipStep, SequenceStep, OutcomeStep
     DEF TimingTypeOK, TimingInv, SenderSafe
<1> QED BY <1>1, TimingTypeStep, ReadsKnownStep, WaitMeasuredStep DEF TimingInv

-----------------------------------------------------------------------------
\* The invariant behind the other theorems: the wrapped difference of two
\* stamps is the true waiting time, and transmission_active is the truth.
THEOREM TimingInvariant == TimingSpec => [](TimingTypeOK /\ TimingInv)
<1>1. TimingInit => TimingTypeOK /\ TimingInv
  BY TimingStart
<1>2. TimingTypeOK /\ TimingInv /\ [TimingNext]_vars => (TimingTypeOK /\ TimingInv)'
  BY TimingStep
<1> QED BY <1>1, <1>2, PTL DEF TimingSpec

\* A timed sender is a sender session: what is proved of SenderSpec holds of it.
THEOREM TimingImplementsSender == TimingSpec => SenderSpec
<1>1. TimingInit => SenderInit
  BY DEF TimingInit
<1>2. TimingTypeOK /\ [TimingNext]_vars => [SenderNext]_snd
  BY TimingStepIsSenderStep
<1> QED BY <1>1, <1>2, TimingInvariant, PTL DEF TimingSpec, SenderSpec

\* No poll reports a timeout before the whole response timeout has passed.
THEOREM NoTimeoutIsEarly == TimingSpec => NoEarlyTimeout
<1> DEFINE step == snd.state = "WAITING_RESULT"
                     /\ snd'.state \in {"READY_TO_SEND", "COMMUNICATION_FAILED"}
                     => waited >= ResponseTimeout
<1>1. ASSUME TimingTypeOK, TimingInv, [TimingNext]_vars,
             snd.state = "WAITING_RESULT",
             snd'.state \in {"READY_TO_SEND", "COMMUNICATION_FAILED"}
      PROVE  waited >= ResponseTimeout
  <2> USE <1>1 DEF TimingTypeOK, SenderTypeOK
  <2>1. CASE CallPoll
    <3>1. Poll(clock)
      BY <2>1 DEF CallPoll
    <3>2. Elapsed(snd, clock) >= ResponseTimeout
      BY <3>1 DEF Poll
    <3>3. Elapsed(snd, clock) = waited
      BY WaitIsTrueTime
    <3> QED BY <3>2, <3>3
  <2>2. ASSUME NEW p \in Payloads, Command(p) PROVE FALSE
    BY <2>2 DEF Command, StartCommand
  <2>3. ASSUME NEW f \in FeedbackFrames, Receive(f) PROVE FALSE
    BY <2>3 DEF Receive, RouteSenderFeedback, HandleActivity, HandleResult,
                HandleOutOfOrder
  <2>4. ASSUME NEW q \in Seqs, Reset(q) PROVE FALSE
    BY <2>4 DEF Reset, SenderReset, ClearOperation
  <2>5. CASE Tick \/ UNCHANGED vars
    BY <2>5 DEF Tick, vars
  <2>6. CASE TransmissionStarts \/ Release
    BY <2>6 DEF TransmissionStarts, MarkAccepted, Release, ReleaseResult
  <2>7. ~TransmissionEnds
    BY DEF TransmissionEnds, TimingInv, SenderSafe, OwnershipTracked
  <2> QED BY <2>1, <2>2, <2>3, <2>4, <2>5, <2>6, <2>7 DEF TimingNext
<1>2. TimingTypeOK /\ TimingInv /\ [TimingNext]_vars => [step]_vars
  BY <1>1
<1> QED BY <1>2, TimingInvariant, PTL DEF TimingSpec, NoEarlyTimeout

\* No timeout is missed for a whole turn of the clock.
THEOREM NoTimeoutIsMissed == TimingSpec => []NoMissedTimeout
<1>1. TimingTypeOK /\ TimingInv => NoMissedTimeout
  BY SenderAssumption, TimingAssumption
     DEF TimingTypeOK, TimingInv, WaitMeasured, NoMissedTimeout
<1> QED BY <1>1, TimingInvariant, PTL

\* A retry carries the sequence the session waits for, with clock and transport
\* too.
THEOREM TimedSequenceMatches == TimingSpec => []SequenceMatchesFrame
<1>1. TimingInv => SequenceMatchesFrame
  BY DEF TimingInv, SenderSafe
<1> QED BY <1>1, TimingInvariant, PTL

\* A command has at most one result, whatever feedback comes and when.
THEOREM TimedOneOutcome == TimingSpec => []AtMostOneOutcome
<1>1. TimingInv => AtMostOneOutcome
  BY DEF TimingInv, SenderSafe
<1> QED BY <1>1, TimingInvariant, PTL

\* The bytes under the transport's read never change.
THEOREM TransportKeepsFrame == TimingSpec => TransportOwnsFrame
<1>1. TimingInv /\ [snd.transmission_active =>
                      snd'.pending_frame = snd.pending_frame]_snd
        => [reading => snd'.pending_frame = snd.pending_frame]_vars
  BY DEF TimingInv
<1> QED BY <1>1, TimingInvariant, TimingImplementsSender, SenderKeepsActiveFrame,
           PTL DEF ActiveFrameKept, TransportOwnsFrame

=============================================================================
