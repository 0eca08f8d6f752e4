SPECIFICATION LiveSpec
CONSTANTS
  SeqMod = 65536
  Payloads = {}
  Results = {}
  NoResult = NoResult
  MaxPayload = 64
  CrcUpdate <- Crc16Update
  Messages <- MCMessages
  Nothing = Nothing
  Noise <- MCNoise
  MaxDamage = 2
INVARIANTS
  PayloadInBounds
  CleanFrameFound
PROPERTIES
  ImplementsLossyLink
  PlainFramesResynchronize
