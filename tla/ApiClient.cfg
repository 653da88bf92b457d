\* Two calls whose awaits resolve; one reply may be lost or an error.
SPECIFICATION FairSpec
CONSTANTS
  Call = {c1, c2}
  Sid = {s1, s2, s3}
  NoSid = NoSid
  c1 = c1
  c2 = c2
  s1 = s1
  s2 = s2
  s3 = s3
  PageKind = {"plain", "wrongPassword"}
  MaxFaults = 1
\* The ids of an instance can run out.
CHECK_DEADLOCK FALSE
INVARIANTS
  TypeOK
  CookieNotSpent
  LogoutClearsBrowser
PROPERTY
  CallsSettle
