------------------------------- MODULE Crc16 -------------------------------
(***************************************************************************)
(* crc16_ccitt.c: CRC-16/CCITT-FALSE, one byte at a time.  Only TLC's runs *)
(* use this module: to the proofs the checksum is any operator.            *)
(***************************************************************************)
EXTENDS Integers, Bitwise

Polynomial == 4129  \* CRC16_CCITT_POLYNOMIAL, 0x1021

\* One bit of the inner loop.  crc is a uint16_t.
ShiftCrc(crc) ==
  IF crc >= 2^15 THEN ((2 * crc) % 2^16) ^^ Polynomial ELSE 2 * crc

\* The outer loop for one byte: crc16_ccitt_false_update with length 1.
UpdateByBits(crc, byte) ==
  LET shifted[bits \in 0 .. 8] ==
        IF bits = 0 THEN crc ^^ (byte * 2^8) ELSE ShiftCrc(shifted[bits - 1])
  IN shifted[8]

\* Only the high byte meets the polynomial, so 256 values of the loop, and the
\* bytes' XOR, are tabulated once for TLC.
XorByte  == [a \in 0 .. 255 |-> [b \in 0 .. 255 |-> a ^^ b]]
ByteCrc  == [high \in 0 .. 255 |-> UpdateByBits(high * 2^8, 0)]
HighByte == [high \in 0 .. 255 |-> ByteCrc[high] \div 2^8]
LowByte  == [high \in 0 .. 255 |-> ByteCrc[high] % 2^8]

Crc16Update(crc, byte) ==
    XorByte[HighByte[XorByte[crc \div 2^8][byte]]][crc % 2^8] * 2^8
  + LowByte[XorByte[crc \div 2^8][byte]]

=============================================================================
