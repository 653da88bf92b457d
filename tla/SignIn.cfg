SPECIFICATION FairSpec
CONSTANTS
  Attempt = {a1, a2}
  FromPages = {a1}
  Device <- MCDevice
  Window = 2
  MaxStarts = 3
  MaxCounter = 2
\* The bound on starts may leave nothing to do.
CHECK_DEADLOCK FALSE
INVARIANT
  TypeOK
PROPERTIES
  SessionsAreEarned
  CounterNeverFalls
  AttemptsSettle
