----------------------------- MODULE MCFrameLink -----------------------------
(***************************************************************************)
(* Frame bytes for TLC: the real checksum, sequence space, payload size    *)
(* and codes, and messages whose bytes look like the beginning of a frame. *)
(***************************************************************************)
EXTENDS FrameLink, Crc16

\* The check value of CRC-16/CCITT-FALSE (tests/test_crc16_ccitt.c).
ASSUME CheckValue == Crc(<<49, 50, 51, 52, 53, 54, 55, 56, 57>>) = 10673

FalseStart == <<Magic0, Magic1, Version>>

\* The sequence reads as a magic, a payload ends in the beginning of a frame.
MCMessages ==
  {CommandFrame(1, <<>>),
   CommandFrame(2, <<9>> \o FalseStart),
   AckFrame(65535, "OUT_OF_ORDER", 42330),
   ResponseFrame(42330, <<0, Magic0, 3>>)}

\* One command, sent again and again for want of an answer.
MCRetried == {CommandFrame(2, <<9>> \o FalseStart)}

\* Magic and version, a small and a large length.
MCNoise == {0, Version, 20, Magic1, Magic0}

=============================================================================
