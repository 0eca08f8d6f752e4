----------------------------- MODULE SenderTiming -----------------------------
(***************************************************************************)
(* The sender session between a real clock and a zero-copy transport.      *)
(* HAL_GetTick wraps and poll subtracts two of its values: waited is the   *)
(* true time since last_activity_ms was stamped, which the code cannot     *)
(* see.  The transport reads the retained frame from the moment it took it *)
(* until it reports the end (reading), whatever the session believes.  Any *)
(* acknowledgement or response may arrive at any time.                     *)
(***************************************************************************)
EXTENDS SenderSession

CONSTANTS
  PollGap,      \* the longest time between two calls of poll
  MaxCommands   \* bound on the commands of a behaviour

ASSUME TimingAssumption ==
  /\ PollGap \in Nat \ {0}
  /\ PollGap + ResponseTimeout <= TickMod
  /\ Ticks = 0 .. TickMod - 1

VARIABLES
  clock,        \* what HAL_GetTick returns
  waited,       \* true time since the last stamp, saturating at TickMod
  since_poll,   \* true time since the last call of poll
  reading       \* the transport is reading the retained frame

times == <<clock, waited, since_poll>>
vars == <<snd, times, reading>>

TimingTypeOK ==
  /\ SenderTypeOK
  /\ clock \in Ticks
  /\ waited \in 0 .. TickMod
  /\ since_poll \in 0 .. PollGap
  /\ reading \in BOOLEAN

TimingInit ==
  /\ SenderInit
  /\ clock \in Ticks /\ waited = 0 /\ since_poll = 0
  /\ reading = FALSE

\* uwTick is a uint32_t.
Tick ==
  /\ since_poll < PollGap
  /\ clock' = (clock + 1) % TickMod
  /\ waited' = IF waited < TickMod THEN waited + 1 ELSE TickMod
  /\ since_poll' = since_poll + 1
  /\ UNCHANGED <<snd, reading>>

Stamped == waited' = 0 /\ UNCHANGED <<clock, since_poll>>

Expired == snd.state = "WAITING_RESULT" /\ Elapsed(snd, clock) >= ResponseTimeout

\* One call of poll: what Poll does, or nothing.
CallPoll ==
  /\ \/ Poll(clock)
     \/ ~Expired /\ UNCHANGED snd
  /\ since_poll' = 0
  /\ UNCHANGED <<clock, waited, reading>>

Command(p) ==
  /\ snd.command_count < MaxCommands
  /\ StartCommand(p)
  /\ UNCHANGED <<times, reading>>

\* The transport takes the frame get_transmission offers.
TransmissionStarts == MarkAccepted /\ reading' = TRUE /\ UNCHANGED times

\* It reports the end, good or bad, once.
TransmissionEnds ==
  /\ reading /\ reading' = FALSE
  /\ \/ MarkTransmitted(clock) /\ Stamped
     \/ MarkTransmitError /\ UNCHANGED times
     \/ ~snd.transmission_active /\ UNCHANGED <<snd, times>>

Receive(f) ==
  /\ RouteSenderFeedback(f, clock)
  /\ IF FeedbackHandled(snd, f) /\ snd'.state = "WAITING_RESULT"
     THEN Stamped ELSE UNCHANGED times
  /\ UNCHANGED reading

Release == ReleaseResult /\ UNCHANGED <<times, reading>>

Reset(q) == SenderReset(q) /\ UNCHANGED <<times, reading>>

TimingNext ==
  \/ Tick
  \/ CallPoll
  \/ TransmissionStarts
  \/ TransmissionEnds
  \/ \E p \in Payloads : Command(p)
  \/ \E f \in FeedbackFrames : Receive(f)
  \/ Release
  \/ \E q \in Seqs : Reset(q)

\* Time passes, the application keeps calling poll and offering the frame, and
\* a transmission ends.
TimingSpec ==
  /\ TimingInit /\ [][TimingNext]_vars
  /\ WF_vars(Tick) /\ WF_vars(CallPoll)
  /\ WF_vars(TransmissionStarts) /\ WF_vars(TransmissionEnds)

-----------------------------------------------------------------------------
\* poll gives up on an answer only after the whole response timeout, whatever
\* values the wrapping clock had when it was stamped and when it is read.
NoEarlyTimeout ==
  [][ snd.state = "WAITING_RESULT"
      /\ snd'.state \in {"READY_TO_SEND", "COMMUNICATION_FAILED"}
      => waited >= ResponseTimeout ]_vars

\* The timeout is noticed by the first poll after it: the wrap of the clock
\* never hides it.
NoMissedTimeout ==
  snd.state = "WAITING_RESULT" => waited < ResponseTimeout + PollGap

\* Why: while poll is called often enough the difference of two clock values
\* is the true time between them ...
WaitMeasured ==
  snd.state = "WAITING_RESULT" =>
    /\ waited < ResponseTimeout + since_poll
    /\ \/ clock = snd.last_activity_ms + waited
       \/ clock = snd.last_activity_ms + waited - TickMod

\* ... and the session knows exactly when its frame is being read.
TimingInv ==
  /\ SenderSafe
  /\ reading = snd.transmission_active
  /\ WaitMeasured

\* Zero copy: the retained bytes never change under the transport's read, and
\* the session knows of every read (a late result, a release, a reset or a new
\* command may come while a retry is still being transmitted).
TransportOwnsFrame ==
  [][ reading => snd'.pending_frame = snd.pending_frame ]_vars

\* A command nobody answers any more is retried and at last reported: the
\* sender waits for ever only if acknowledgements for ever renew it.
GivesUpWhenUnanswered ==
  \/ []<><<\E f \in FeedbackFrames : Receive(f) /\ FeedbackHandled(snd, f)>>_vars
  \/ snd.state \in {"READY_TO_SEND", "SENDING", "WAITING_RESULT"} ~>
       snd.state \in {"IDLE", "RESULT_READY", "COMMUNICATION_FAILED",
                      "DESYNCHRONIZED"}

=============================================================================
