\* Two handlers whose awaits all resolve.
SPECIFICATION FairSpec
CONSTANTS
  User = {u1}
  Request = {r1, r2}
  Sid = {s1, s2}
  u1 = u1
  r1 = r1
  r2 = r2
  s1 = s1
  s2 = s2
  NoSid = NoSid
  MaxPw = 1
  MaxLapsed = 0
  Restarts = FALSE
\* Ids, password versions and accounts of an instance can run out.
CHECK_DEADLOCK FALSE
PROPERTY
  OldPasswordSessionsEnd
