------------------------------ MODULE FrameLink ------------------------------
(***************************************************************************)
(* A byte line between protocol_frame_encode and the streaming decoder.    *)
(* Frames follow each other on the wire; the line alters, loses and        *)
(* invents bytes, and the owner of the decoder may reset it at any time.   *)
(***************************************************************************)
EXTENDS FrameDecoder

CONSTANTS
  Messages,   \* what may be sent
  Nothing,    \* no message
  Noise,      \* the bytes the line invents
  MaxDamage   \* bound on altered, lost and invented bytes and resets

ASSUME FrameLinkAssumption ==
  /\ Noise \subseteq Byte /\ MaxDamage \in Nat
  /\ Nothing \notin Messages
  /\ \A m \in Messages : m \in WireMessages

VARIABLES
  sending,   \* the message whose frame is on the wire, or was last
  wire,      \* the bytes of that frame still to come
  decoder,
  returned,  \* the message of the frame the last byte completed
  open,      \* history: the last messages sent that may still be returned
  damage,    \* history: how many bytes were damaged
  clean      \* history: this frame found the decoder searching and was not
             \* damaged so far

vars == <<sending, wire, decoder, returned, open, damage, clean>>

\* The frame of each message.
FrameBytes == [m \in Messages |-> Encode(m)]

Init ==
  /\ sending = Nothing /\ wire = <<>>
  /\ decoder = DecoderStart
  /\ returned = Nothing
  /\ open = <<>> /\ damage = 0 /\ clean = FALSE

\* What is left of open when m is returned.
Remaining(m) ==
  LET at == {i \in DOMAIN open : open[i] = m}
  IN IF at = {} THEN open
     ELSE SubSeq(open, 1 + CHOOSE i \in at : \A j \in at : i <= j, Len(open))

\* The decoder gets a byte; a frame it returns is decoded at once.
Receive(byte) ==
  /\ decoder' = FeedByte(decoder, byte)
  /\ returned' = IF FrameReady(decoder, byte) THEN Decode(FrameOf(decoder)) ELSE Nothing
  /\ open' = Remaining(returned')

SendFrame(m) ==
  /\ wire = <<>> /\ Encodable(m)
  /\ sending' = m /\ wire' = FrameBytes[m]
  /\ clean' = (decoder.state \in SearchStates)
  /\ returned' = Nothing
  /\ open' = IF open = <<>> THEN <<m>> ELSE <<open[Len(open)], m>>
  /\ UNCHANGED <<decoder, damage>>

DeliverByte ==
  /\ wire # <<>>
  /\ Receive(Head(wire)) /\ wire' = Tail(wire)
  /\ UNCHANGED <<sending, damage, clean>>

Damages == damage < MaxDamage /\ damage' = damage + 1 /\ clean' = FALSE

AlterByte(byte) ==
  /\ wire # <<>> /\ byte # Head(wire) /\ Damages
  /\ Receive(byte) /\ wire' = Tail(wire)
  /\ UNCHANGED sending

LoseByte ==
  /\ wire # <<>> /\ Damages
  /\ wire' = Tail(wire) /\ returned' = Nothing
  /\ UNCHANGED <<sending, decoder, open>>

InventByte(byte) ==
  /\ Damages
  /\ Receive(byte)
  /\ UNCHANGED <<sending, wire>>

\* protocol_frame_decoder_reset
ResetDecoder ==
  /\ Damages
  /\ decoder' = DecoderReset(decoder) /\ returned' = Nothing
  /\ UNCHANGED <<sending, wire, open>>

Next ==
  \/ \E m \in Messages : SendFrame(m)
  \/ DeliverByte
  \/ \E byte \in Noise : AlterByte(byte) \/ InventByte(byte)
  \/ LoseByte
  \/ ResetDecoder

Spec == Init /\ [][Next]_vars

\* Frames keep coming and the line delivers; damage has no fairness.
LiveSpec ==
  /\ Spec
  /\ WF_vars(\E m \in Messages : SendFrame(m)) /\ WF_vars(DeliverByte)

-----------------------------------------------------------------------------
\* The payload is stored inside its buffer and a returned frame has the length
\* it announced, whatever bytes arrive.
PayloadInBounds == Consistent(decoder)

\* An undamaged frame that begins while the decoder searches is returned with
\* its last byte, whatever was on the line before: noise, half a frame or a
\* first magic byte.
CleanFrameFound == clean /\ wire = <<>> => returned = sending

\* Encoder, damaged line and decoder are a lossy link: what the decoder returns
\* is a message just sent, unaltered, in its turn and only once.  (The last but
\* one, when its lost last byte is the first byte of the next frame.)  Of two
\* equal messages sent in a row the one returned counts as the earlier.
Link == INSTANCE LossyLink WITH underway <- open, arrived <- returned

ImplementsLossyLink == Link!Spec

\* A message whose frame has the first magic byte at its beginning only.
Plain(m) == \A i \in 2 .. Len(FrameBytes[m]) : FrameBytes[m][i] # Magic0

\* After damage the decoder gets into step again as long as frames come, if
\* their bytes do not look like the beginning of a frame themselves.
PlainFramesResynchronize ==
  <>[](sending \in Messages /\ Plain(sending)) => []<>(returned # Nothing)

\* The same for any frames.
Resynchronizes == []<>(returned # Nothing)

=============================================================================
