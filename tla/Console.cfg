SPECIFICATION LiveSpec
CONSTANTS
  TxSize = 128
  ShortLengths = {4, 24}
  StatusLengths = {90, 128}
  ButtonLength = 16
  MaxLines = 3
  MaxPresses = 2
  MaxErrors = 1
INVARIANTS
  OneResponseEach
PROPERTIES
  ParsingResumes
  ButtonsReported
