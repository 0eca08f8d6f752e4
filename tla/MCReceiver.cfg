SPECIFICATION MCSpec
CONSTANTS
  SeqMod = 4
  Payloads = {p}
  Results = {r1, r2}
  NoResult = NoResult
  MaxExecutes = 5
INVARIANTS
  CacheCoherent
  PendingCommittable
  EveryCommandAnswered
  BorrowedResultStable
PROPERTY
  ConsecutiveCommits
