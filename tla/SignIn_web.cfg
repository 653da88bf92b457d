SPECIFICATION Spec
CONSTANTS
  Attempt = {a1, a2}
  FromPages = {a1}
  Device <- MCDevice
  Window = 2
  MaxStarts = 3
  MaxCounter = 2
CHECK_DEADLOCK FALSE
INVARIANT
  ChallengePresented
