SPECIFICATION Spec
CONSTANTS
  Capacity = 4
  CountMod = 12
  LongestCommand = 3
  LineLength = 3
  MaxBytes = 11
  MaxErrors = 0
  MaxLag = 7
  RacyStart = FALSE
INVARIANT
  FragmentsNeverCombined
