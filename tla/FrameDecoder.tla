---------------------------- MODULE FrameDecoder ----------------------------
(***************************************************************************)
(* protocol_frame_decoder.c as operators on the ProtocolFrameDecoder       *)
(* structure, without its three diagnostic counters.  payload holds the    *)
(* bytes read so far, so payload_index is its length; version is 1 in      *)
(* every state that has read it.                                           *)
(***************************************************************************)
EXTENDS FrameCodec

SearchStates == {"WAIT_MAGIC_0", "WAIT_MAGIC_1"}
HeaderStates == {"READ_VERSION", "READ_TYPE", "READ_SEQUENCE_HIGH",
                 "READ_SEQUENCE_LOW", "READ_LENGTH_HIGH", "READ_LENGTH_LOW"}
CrcStates    == {"READ_CRC_HIGH", "READ_CRC_LOW"}

DecoderStart ==
  [state |-> "WAIT_MAGIC_0", type |-> 0, sequence |-> 0, payload_length |-> 0,
   payload |-> <<>>, received_crc |-> 0, calculated_crc |-> CrcInitial]

\* What protocol_frame_decoder_reset, _reset_search and _begin_frame share.
Restart(d, state) ==
  [d EXCEPT !.state = state, !.payload = <<>>, !.received_crc = 0,
            !.calculated_crc = CrcInitial]

DecoderReset(d) == Restart(d, "WAIT_MAGIC_0")

\* The byte that ended a bad frame may be the first of the next one.
ResetSearch(d, byte) ==
  Restart(d, IF byte = Magic0 THEN "WAIT_MAGIC_1" ELSE "WAIT_MAGIC_0")

BeginFrame(d) ==
  [Restart(d, "READ_VERSION") EXCEPT !.type = 0, !.sequence = 0, !.payload_length = 0]

\* Slip: a second first magic byte starts the search over.
FindMagicOnce(d, byte) ==
  CASE d.state = "WAIT_MAGIC_0" ->
         IF byte = Magic0 THEN [d EXCEPT !.state = "WAIT_MAGIC_1"] ELSE d
    [] d.state = "WAIT_MAGIC_1" ->
         IF byte = Magic1 THEN BeginFrame(d) ELSE [d EXCEPT !.state = "WAIT_MAGIC_0"]

FindMagic(d, byte) ==
  CASE d.state = "WAIT_MAGIC_0" ->
         IF byte = Magic0 THEN [d EXCEPT !.state = "WAIT_MAGIC_1"] ELSE d
    [] d.state = "WAIT_MAGIC_1" ->
         CASE byte = Magic1 -> BeginFrame(d)
           [] byte = Magic0 -> d
           [] OTHER         -> [d EXCEPT !.state = "WAIT_MAGIC_0"]

\* Slip: the announced length not checked.
AfterLengthUnchecked(d, byte) ==
  IF d.payload_length = 0
  THEN [d EXCEPT !.state = "READ_CRC_HIGH"]
  ELSE [d EXCEPT !.payload = <<>>, !.state = "READ_PAYLOAD"]

\* The length is complete: too long, nothing to read, or a payload.
AfterLength(d, byte) ==
  CASE d.payload_length > MaxPayload -> ResetSearch(d, byte)
    [] d.payload_length = 0          -> [d EXCEPT !.state = "READ_CRC_HIGH"]
    [] OTHER -> [d EXCEPT !.payload = <<>>, !.state = "READ_PAYLOAD"]

\* A byte of the header; each goes into the checksum.
ReadHeader(d, byte) ==
  LET r == [d EXCEPT !.calculated_crc = CrcUpdate(@, byte)]
  IN CASE d.state = "READ_VERSION" ->
            IF byte = Version THEN [r EXCEPT !.state = "READ_TYPE"]
                              ELSE ResetSearch(d, byte)
       [] d.state = "READ_TYPE" ->
            [r EXCEPT !.type = byte, !.state = "READ_SEQUENCE_HIGH"]
       [] d.state = "READ_SEQUENCE_HIGH" ->
            [r EXCEPT !.sequence = Word(byte, 0), !.state = "READ_SEQUENCE_LOW"]
       [] d.state = "READ_SEQUENCE_LOW" ->
            [r EXCEPT !.sequence = @ + byte, !.state = "READ_LENGTH_HIGH"]
       [] d.state = "READ_LENGTH_HIGH" ->
            [r EXCEPT !.payload_length = Word(byte, 0), !.state = "READ_LENGTH_LOW"]
       [] d.state = "READ_LENGTH_LOW" ->
            AfterLength([r EXCEPT !.payload_length = @ + byte], byte)

ReadPayload(d, byte) ==
  [d EXCEPT !.payload = Append(@, byte),
            !.calculated_crc = CrcUpdate(@, byte),
            !.state = IF Len(d.payload) + 1 >= d.payload_length
                      THEN "READ_CRC_HIGH" ELSE @]

\* Slip: the checksum not compared.
CrcMatchesAlways(d, byte) == TRUE

CrcMatches(d, byte) == d.received_crc + byte = d.calculated_crc

\* Slip: a bad checksum leaves the state.
ReadCrcStuck(d, byte) ==
  CASE d.state = "READ_CRC_HIGH" ->
         [d EXCEPT !.received_crc = Word(byte, 0), !.state = "READ_CRC_LOW"]
    [] d.state = "READ_CRC_LOW" ->
         IF CrcMatches(d, byte) THEN DecoderReset(d) ELSE d

ReadCrc(d, byte) ==
  CASE d.state = "READ_CRC_HIGH" ->
         [d EXCEPT !.received_crc = Word(byte, 0), !.state = "READ_CRC_LOW"]
    [] d.state = "READ_CRC_LOW" ->
         IF CrcMatches(d, byte) THEN DecoderReset(d) ELSE ResetSearch(d, byte)

\* protocol_frame_decoder_feed_byte: the decoder after it, whether it returns
\* true, and the frame it then returns.
FeedByte(d, byte) ==
  CASE d.state \in SearchStates  -> FindMagic(d, byte)
    [] d.state \in HeaderStates  -> ReadHeader(d, byte)
    [] d.state = "READ_PAYLOAD"  -> ReadPayload(d, byte)
    [] d.state \in CrcStates     -> ReadCrc(d, byte)

FrameReady(d, byte) == d.state = "READ_CRC_LOW" /\ CrcMatches(d, byte)

FrameOf(d) == [type |-> d.type, sequence |-> d.sequence, payload |-> d.payload]

-----------------------------------------------------------------------------
\* What feed_byte relies on from one call to the next: in READ_PAYLOAD there is
\* room for the byte, and once the checksum is read the payload has the length
\* the header announced.
Consistent(d) ==
  /\ d.state \in SearchStates \cup HeaderStates \cup {"READ_PAYLOAD"} \cup CrcStates
  /\ d.payload_length \in Nat
  /\ d.payload \in Seq(Byte)
  /\ d.state = "READ_PAYLOAD" =>
       Len(d.payload) < d.payload_length /\ d.payload_length <= MaxPayload
  /\ d.state \in HeaderStates => d.payload = <<>>
  /\ d.state \in CrcStates =>
       Len(d.payload) = d.payload_length /\ d.payload_length <= MaxPayload

=============================================================================
