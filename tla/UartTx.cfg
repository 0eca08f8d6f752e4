SPECIFICATION LiveSpec
CONSTANTS
  Capacity = 4
  CountMod = 8
  MaxBytes = 11
  MaxRefusals = 2
INVARIANTS
  AdapterInv
  WireInOrder
PROPERTIES
  BlockUntouched
  ImplementsFifo
  EverythingSent
