SPECIFICATION ReliableSpec
CONSTANTS
  SeqMod = 3
  NoResult = NoResult
  Payloads = {1, 2, 3}
  Results = {1, 2, 3}
  TickMod = 3
  ResponseTimeout = 1
  MaxAttempts = 2
  Ticks = {0, 1}
  MaxCommands = 3
  Regimes = {"reliable", "rebooting"}
  MaxRestarts = 1
INVARIANT
  ExecutedAtMostOnceInOrder
PROPERTY
  EveryCommandAnsweredAtLast
