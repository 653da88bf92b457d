\* A used refresh token is presented again.
SPECIFICATION Spec
CONSTANTS
  User = {u1}
  Request = {r1}
  Sid = {s1, s2, s3}
  u1 = u1
  r1 = r1
  s1 = s1
  s2 = s2
  s3 = s3
  NoSid = NoSid
  MaxPw = 2
  MaxLapsed = 0
  Restarts = FALSE
\* Ids, password versions and accounts of an instance can run out.
CHECK_DEADLOCK FALSE
PROPERTY
  ReplayRevokesAll
