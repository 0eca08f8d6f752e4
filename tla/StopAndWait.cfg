SPECIFICATION LiveSpec
CONSTANTS
  SeqMod = 3
  NoResult = NoResult
  Payloads = {1, 2, 3}
  Results = {1, 2, 3}
  TickMod = 3
  ResponseTimeout = 1
  MaxAttempts = 3
  Ticks = {0, 1}
  MaxCommands = 3
  Regimes = {"faulty"}
  MaxRestarts = 0
INVARIANTS
  ExecutedAtMostOnceInOrder
  ResultIsOfThisCommand
  EndsAgree
PROPERTIES
  ImplementsRemoteCommand
  EveryCommandEnds
