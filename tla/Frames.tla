------------------------------- MODULE Frames -------------------------------
(***************************************************************************)
(* The messages of the binary stop-and-wait protocol, one level above the  *)
(* bytes: what protocol_frame.h and protocol_feedback.h define, and what   *)
(* the encoders put in a frame.  A frame whose bytes are damaged never     *)
(* reaches this level (the decoder drops it), so it is a lost frame here.  *)
(***************************************************************************)
EXTENDS Integers

CONSTANTS
  SeqMod,    \* number of sequence numbers: 2^16 (uint16_t) in the code
  Payloads,  \* command payloads the application may send
  Results,   \* terminal results: result code and result data, as one value
  NoResult   \* the cleared result of a session

ASSUME FramesAssumption ==
  /\ SeqMod \in Nat /\ SeqMod >= 2
  /\ NoResult \notin Results

Seqs == 0 .. SeqMod - 1

\* (uint16_t)(sequence + 1U)
NextSeq(q) == (q + 1) % SeqMod

AckStatus == {"ACCEPTED", "IN_PROGRESS", "OUT_OF_ORDER"}

CommandFrame(q, p) == [type |-> "COMMAND", sequence |-> q, payload |-> p]

\* Only an OUT_OF_ORDER acknowledgement has the two bytes of the expected
\* sequence; the decoder reports 0 for the other two.
AckFrame(q, status, expected) ==
  [type |-> "ACK", sequence |-> q, status |-> status,
   expected |-> IF status = "OUT_OF_ORDER" THEN expected ELSE 0]

ResponseFrame(q, r) == [type |-> "RESPONSE", sequence |-> q, result |-> r]

TelemetryFrame(q) == [type |-> "TELEMETRY", sequence |-> q]

CommandFrames   == [type : {"COMMAND"}, sequence : Seqs, payload : Payloads]
AckFrames       == [type : {"ACK"}, sequence : Seqs, status : AckStatus,
                    expected : Seqs]
ResponseFrames  == [type : {"RESPONSE"}, sequence : Seqs, result : Results]
TelemetryFrames == [type : {"TELEMETRY"}, sequence : Seqs]

FeedbackFrames  == AckFrames \cup ResponseFrames

=============================================================================
