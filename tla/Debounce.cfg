SPECIFICATION LiveSpec
CONSTANTS
  DebounceMs = 2
  TickMod = 8
  EdgeMod = 3
  MaxBurst = 2
  PollGap = 3
INVARIANTS
  NoEdgeForgotten
PROPERTIES
  DebounceEndsQuiet
  RestReported
