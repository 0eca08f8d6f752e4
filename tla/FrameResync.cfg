SPECIFICATION LiveSpec
CONSTANTS
  SeqMod = 65536
  Payloads = {}
  Results = {}
  NoResult = NoResult
  MaxPayload = 64
  CrcUpdate <- Crc16Update
  Messages <- MCRetried
  Nothing = Nothing
  Noise <- MCNoise
  MaxDamage = 1
PROPERTY
  Resynchronizes
