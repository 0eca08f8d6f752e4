SPECIFICATION LiveSpec
CONSTANTS
  TxSize = 128
  ShortLengths = {4, 24}
  StatusLengths = {90, 144}
  ButtonLength = 16
  MaxLines = 2
  MaxPresses = 0
  MaxErrors = 0
PROPERTY
  ParsingResumes
