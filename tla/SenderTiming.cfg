SPECIFICATION TimingSpec
CONSTANTS
  SeqMod = 2
  Payloads = {p}
  Results = {r}
  NoResult = NoResult
  TickMod = 6
  ResponseTimeout = 2
  MaxAttempts = 2
  Ticks = {0, 1, 2, 3, 4, 5}
  PollGap = 3
  MaxCommands = 2
INVARIANTS
  SequenceMatchesFrame
  AtMostOneOutcome
  NoMissedTimeout
PROPERTIES
  TransportOwnsFrame
  NoEarlyTimeout
  GivesUpWhenUnanswered
