--------------------------- MODULE ReceiverSession ---------------------------
(***************************************************************************)
(* protocol_receiver_session.c: the receiver's one pending command, the    *)
(* sequence tracker, and the cached terminal result that answers a repeat. *)
(*                                                                         *)
(* rcv is the ProtocolReceiverSession structure; result code, data and     *)
(* length are the one field cached_result.  decision is the caller's       *)
(* ProtocolReceiverDecision, which handle_frame overwrites and the router  *)
(* reads later: its result_data points into the cache.                     *)
(***************************************************************************)
EXTENDS SequenceTracker

VARIABLES rcv, decision

NoDecision == [action |-> "NONE"]

Actions == {"EXECUTE", "IN_PROGRESS", "RESEND_RESULT", "OUT_OF_ORDER",
            "IGNORED", "INVALID"}

Decisions == [action   : Actions,
              sequence : Seqs,
              expected : Seqs,
              result   : Results \cup {NoResult}]

ReceiverTypeOK ==
  /\ rcv \in [command_tracker        : Trackers,
              pending_valid          : BOOLEAN,
              pending_sequence       : Seqs,
              cached_result_valid    : BOOLEAN,
              cached_result_sequence : Seqs,
              cached_result          : Results \cup {NoResult},
              execute_count          : Nat,
              deferred_count         : Nat]
  /\ decision \in Decisions \cup {NoDecision}

-----------------------------------------------------------------------------
ReceiverStart ==
  [command_tracker |-> TrackerStart,
   pending_valid |-> FALSE, pending_sequence |-> 0,
   cached_result_valid |-> FALSE, cached_result_sequence |-> 0,
   cached_result |-> NoResult, execute_count |-> 0, deferred_count |-> 0]

ReceiverInit == rcv = ReceiverStart /\ decision = NoDecision

\* Slip: the tracker left out of the reset.
ClearedButTracker(r) ==
  [r EXCEPT !.pending_valid = FALSE,
            !.pending_sequence = 0,
            !.cached_result_valid = FALSE,
            !.cached_result_sequence = 0,
            !.cached_result = NoResult]

\* The lifetime counters survive.
ReceiverCleared(r) ==
  [r EXCEPT !.command_tracker = TrackerReset(@),
            !.pending_valid = FALSE,
            !.pending_sequence = 0,
            !.cached_result_valid = FALSE,
            !.cached_result_sequence = 0,
            !.cached_result = NoResult]

ReceiverReset == rcv' = ReceiverCleared(rcv) /\ UNCHANGED decision

Decision(action, q, expected, result) ==
  [action |-> action, sequence |-> q, expected |-> expected,
   result |-> result]

\* Slip: a repeat of the executing command refused like a foreign one.
BusyIsOutOfOrder(r, q) ==
  Decision("OUT_OF_ORDER", q, r.pending_sequence, NoResult)

\* What handle_frame makes of a command while another (or the same one) is
\* executing, and otherwise.  INVALID is the decision left by a return of
\* false: a duplicate of a command whose result is not in the cache.
DecisionWhilePending(r, q) ==
  Decision(IF q = r.pending_sequence THEN "IN_PROGRESS" ELSE "OUT_OF_ORDER",
           q, r.pending_sequence, NoResult)

CachedFor(r, q) == r.cached_result_valid /\ r.cached_result_sequence = q

DecisionWhenFree(r, q) ==
  LET class    == Classify(r.command_tracker, q)
      expected == r.command_tracker.expected_sequence
  IN CASE class = "NEW" -> Decision("EXECUTE", q, q, NoResult)
       [] class = "DUPLICATE" ->
            IF CachedFor(r, q)
            THEN Decision("RESEND_RESULT", q, expected, r.cached_result)
            ELSE Decision("INVALID", q, 0, NoResult)
       [] class = "OUT_OF_ORDER" -> Decision("OUT_OF_ORDER", q, expected, NoResult)

DecisionFor(r, f) ==
  IF f.type # "COMMAND" THEN Decision("IGNORED", f.sequence, 0, NoResult)
  ELSE IF r.pending_valid THEN DecisionWhilePending(r, f.sequence)
  ELSE DecisionWhenFree(r, f.sequence)

HandleFrame(f) ==
  /\ decision' = DecisionFor(rcv, f)
  /\ rcv' = IF decision'.action = "EXECUTE"
            THEN [rcv EXCEPT !.pending_valid = TRUE,
                             !.pending_sequence = f.sequence,
                             !.execute_count = @ + 1]
            ELSE rcv

\* Slip: the cache filled without its sequence.
CompleteUnlabelled(q, r) ==
  /\ rcv.pending_valid
  /\ q = rcv.pending_sequence
  /\ CanCommit(rcv.command_tracker, q)
  /\ rcv' = [rcv EXCEPT !.command_tracker = Accept(@, q),
                        !.cached_result = r,
                        !.cached_result_valid = TRUE,
                        !.pending_valid = FALSE,
                        !.pending_sequence = 0]
  /\ UNCHANGED decision

\* Slip: any sequence completed, pending or not.
CompleteUnasked(q, r) ==
  /\ CanCommit(rcv.command_tracker, q)
  /\ rcv' = [rcv EXCEPT !.command_tracker = Accept(@, q),
                        !.cached_result = r,
                        !.cached_result_valid = TRUE,
                        !.cached_result_sequence = q,
                        !.pending_valid = FALSE,
                        !.pending_sequence = 0]
  /\ UNCHANGED decision

\* Slip: the result cached, the sequence not committed.
CompleteUncommitted(q, r) ==
  /\ rcv.pending_valid
  /\ q = rcv.pending_sequence
  /\ rcv' = [rcv EXCEPT !.cached_result = r,
                        !.cached_result_valid = TRUE,
                        !.cached_result_sequence = q,
                        !.pending_valid = FALSE,
                        !.pending_sequence = 0]
  /\ UNCHANGED decision

\* The application finished the pending command q: the sequence is
\* committed, then the result is copied into the cache.
Complete(q, r) ==
  /\ rcv.pending_valid
  /\ q = rcv.pending_sequence
  /\ CanCommit(rcv.command_tracker, q)
  /\ rcv' = [rcv EXCEPT !.command_tracker = Accept(@, q),
                        !.cached_result = r,
                        !.cached_result_valid = TRUE,
                        !.cached_result_sequence = q,
                        !.pending_valid = FALSE,
                        !.pending_sequence = 0]
  /\ UNCHANGED decision

\* The application could not start q: nothing is committed.
Defer(q) ==
  /\ rcv.pending_valid
  /\ q = rcv.pending_sequence
  /\ rcv' = [rcv EXCEPT !.pending_valid = FALSE,
                        !.pending_sequence = 0,
                        !.deferred_count = @ + 1]
  /\ UNCHANGED decision

ReceiverNext ==
  \/ ReceiverReset
  \/ \E f \in CommandFrames \cup TelemetryFrames : HandleFrame(f)
  \/ \E q \in Seqs, r \in Results : Complete(q, r)
  \/ \E q \in Seqs : Defer(q)

ReceiverSpec == ReceiverInit /\ [][ReceiverNext]_<<rcv, decision>>

-----------------------------------------------------------------------------
\* The tracker and the cache move together: once a command is accepted there
\* is always a result to repeat, it is the last accepted command's, and the
\* expected sequence follows it (classify and complete update two structures).
CacheCoherent ==
  /\ rcv.command_tracker.initialized <=> rcv.cached_result_valid
  /\ rcv.cached_result_valid =>
       /\ rcv.cached_result_sequence = rcv.command_tracker.last_accepted_sequence
       /\ rcv.command_tracker.expected_sequence
            = NextSeq(rcv.command_tracker.last_accepted_sequence)
       /\ rcv.cached_result \in Results

\* A command given to the application can always be completed: commit, which
\* runs long after classify, cannot refuse it and lose an executed command.
PendingCommittable ==
  rcv.pending_valid => CanCommit(rcv.command_tracker, rcv.pending_sequence)

\* handle_frame's "return false" for a duplicate without a cached result is
\* never taken: every command frame gets an answer.
EveryCommandAnswered == decision.action # "INVALID"

\* A RESEND_RESULT decision not routed yet still describes the cache its
\* result_data points into (the cache may only have been cleared by a reset).
BorrowedResultStable ==
  decision.action = "RESEND_RESULT" =>
    /\ ~rcv.pending_valid
    /\ rcv.cached_result_valid =>
         /\ decision.result = rcv.cached_result
         /\ decision.sequence = rcv.cached_result_sequence

\* Every EXECUTE is one commit, one deferral or the pending command, never
\* two of them (less the ones a reset abandons).
ExecutionsConserved ==
  rcv.command_tracker.accepted_count + rcv.deferred_count
    + (IF rcv.pending_valid THEN 1 ELSE 0) <= rcv.execute_count

ReceiverSafe ==
  /\ CacheCoherent
  /\ PendingCommittable
  /\ EveryCommandAnswered
  /\ BorrowedResultStable
  /\ ExecutionsConserved

\* Between resets the accepted sequences are consecutive, so no command is
\* accepted twice and none is skipped (16-bit wrap included).
ConsecutiveCommits ==
  [][ rcv'.command_tracker.accepted_count # rcv.command_tracker.accepted_count
      /\ rcv.command_tracker.initialized
      => rcv'.command_tracker.last_accepted_sequence
           = NextSeq(rcv.command_tracker.last_accepted_sequence) ]_<<rcv, decision>>

=============================================================================
