\* Two attempts at once; a tick is 5 minutes.
SPECIFICATION FairSpec
CONSTANTS
  Attempt = {a1, a2}
  a1 = a1
  a2 = a2
  SoftThreshold = 5
  HardThreshold = 10
  SoftTtl = 3
  HardTtl = 12
  MaxFailures = 13
  MaxCrashes = 1
INVARIANTS
  TriesBounded
  CounterExpires
  HardLockNeedsOverlap
PROPERTY
  LockEnds
