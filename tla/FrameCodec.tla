----------------------------- MODULE FrameCodec -----------------------------
(***************************************************************************)
(* protocol_frame.c and protocol_feedback.c: the bytes of a message and    *)
(* back.  A message is a record of Frames; a payload is the sequence of    *)
(* its bytes, a result the result code followed by the result data.        *)
(***************************************************************************)
EXTENDS Frames, Sequences

CONSTANTS
  MaxPayload,      \* PROTOCOL_FRAME_MAX_PAYLOAD_SIZE
  CrcUpdate(_, _)  \* crc16_ccitt_false_update for one byte

Byte    == 0 .. 255
Word16  == {n \in Nat : n \div 256 \in Byte}  \* uint16_t

ASSUME CodecAssumption ==
  /\ MaxPayload \in Word16 /\ MaxPayload >= 3
  /\ Seqs \subseteq Word16

Magic0  == 165  \* 0xA5
Magic1  == 90   \* 0x5A
Version == 1

CrcInitial == 65535

\* protocol_frame_write_u16_be, and how the decoder puts the bytes together.
BigEndian(n) == <<n \div 256, n % 256>>
Word(high, low) == 256 * high + low

\* crc16_ccitt_false_calculate
Crc(bytes) ==
  LET crc[n \in 0 .. Len(bytes)] ==
        IF n = 0 THEN CrcInitial ELSE CrcUpdate(crc[n - 1], bytes[n])
  IN crc[Len(bytes)]

\* What the checksum covers: all but the magic and the checksum itself.
Covered(type, sequence, payload) ==
  <<Version, type>> \o BigEndian(sequence) \o BigEndian(Len(payload)) \o payload

\* protocol_frame_encode
EncodeFrame(type, sequence, payload) ==
  <<Magic0, Magic1>> \o Covered(type, sequence, payload)
                     \o BigEndian(Crc(Covered(type, sequence, payload)))

-----------------------------------------------------------------------------
TypeCode   == [COMMAND |-> 1, RESPONSE |-> 2, ACK |-> 3]
StatusCode == [ACCEPTED |-> 0, IN_PROGRESS |-> 1, OUT_OF_ORDER |-> 2]

\* What there is to encode; a result begins with its code.
WireMessages ==
       [type : {"COMMAND"}, sequence : Seqs, payload : Seq(Byte)]
  \cup {m \in AckFrames : m.status # "OUT_OF_ORDER" => m.expected = 0}
  \cup [type : {"RESPONSE"}, sequence : Seqs, result : Seq(Byte) \ {<<>>}]

\* The payload protocol_feedback_encode_ack and _encode_response build.
PayloadOf(m) ==
  CASE m.type = "COMMAND"  -> m.payload
    [] m.type = "RESPONSE" -> m.result
    [] m.type = "ACK"      -> <<StatusCode[m.status]>> \o
         IF m.status = "OUT_OF_ORDER" THEN BigEndian(m.expected) ELSE <<>>

\* The encoders refuse a payload that is too long.
Encodable(m) == Len(PayloadOf(m)) <= MaxPayload

Encode(m) == EncodeFrame(TypeCode[m.type], m.sequence, PayloadOf(m))

Malformed == [type |-> "MALFORMED"]

\* protocol_feedback_decode_ack
DecodeAck(f) ==
  LET statuses == {s \in AckStatus : f.payload # <<>> /\ StatusCode[s] = f.payload[1]}
      length(s) == IF s = "OUT_OF_ORDER" THEN 3 ELSE 1
  IN IF \E s \in statuses : Len(f.payload) = length(s)
     THEN LET s == CHOOSE s \in statuses : TRUE
          IN AckFrame(f.sequence, s,
                      IF Len(f.payload) = 3 THEN Word(f.payload[2], f.payload[3]) ELSE 0)
     ELSE Malformed

\* protocol_feedback_decode_response
DecodeResponse(f) ==
  IF Len(f.payload) \in 1 .. MaxPayload
  THEN ResponseFrame(f.sequence, f.payload) ELSE Malformed

\* A frame the decoder returned, as the message a session takes it for.
Decode(f) ==
  CASE f.type = TypeCode.COMMAND  -> CommandFrame(f.sequence, f.payload)
    [] f.type = TypeCode.ACK      -> DecodeAck(f)
    [] f.type = TypeCode.RESPONSE -> DecodeResponse(f)
    [] OTHER                      -> Malformed

=============================================================================
