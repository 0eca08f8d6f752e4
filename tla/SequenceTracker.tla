--------------------------- MODULE SequenceTracker ---------------------------
(***************************************************************************)
(* protocol_sequence_tracker.c as operators on the ProtocolSequenceTracker *)
(* structure, without the two diagnostic counters that classify bumps.     *)
(* classify only looks; commit is a step of its own, so that a command the *)
(* application defers is classified NEW again.                             *)
(***************************************************************************)
EXTENDS Frames

Trackers == [initialized            : BOOLEAN,
             last_accepted_sequence : Seqs,
             expected_sequence      : Seqs,
             accepted_count         : Nat]

TrackerStart == [initialized |-> FALSE, last_accepted_sequence |-> 0,
                 expected_sequence |-> 0, accepted_count |-> 0]

\* Slip: the expected sequence not moved on.
AcceptStale(t, q) ==
  [t EXCEPT !.initialized = TRUE,
            !.last_accepted_sequence = q,
            !.accepted_count = @ + 1]

\* protocol_sequence_tracker_accept
Accept(t, q) ==
  [t EXCEPT !.initialized = TRUE,
            !.last_accepted_sequence = q,
            !.expected_sequence = NextSeq(q),
            !.accepted_count = @ + 1]

\* Synchronization goes, the lifetime counter stays.
TrackerReset(t) ==
  [t EXCEPT !.initialized = FALSE,
            !.last_accepted_sequence = 0,
            !.expected_sequence = 0]

\* Slip: everything that is not a repeat taken for new.
ClassifyLoosely(t, q) ==
  IF t.initialized /\ q = t.last_accepted_sequence THEN "DUPLICATE" ELSE "NEW"

\* The order of the tests matters where the numbers wrap.
Classify(t, q) ==
  IF ~t.initialized THEN "NEW"
  ELSE IF q = t.last_accepted_sequence THEN "DUPLICATE"
  ELSE IF q = t.expected_sequence THEN "NEW"
  ELSE "OUT_OF_ORDER"

\* protocol_sequence_tracker_commit returns true, and then accepts.
CanCommit(t, q) == ~t.initialized \/ q = t.expected_sequence

=============================================================================
