SPECIFICATION LiveSpec
CONSTANTS
  Capacity = 4
  CountMod = 12
  LongestCommand = 3
  LineLength = 3
  MaxBytes = 9
  MaxErrors = 2
  MaxLag = 6
  RacyStart = TRUE
INVARIANTS
  OnlyWholeLines
  NeverHalted
  PublishedTracksDma
  BytesAccounted
  NeverDeaf
PROPERTIES
  EveryByteParsed
  RecoveryEnds
