\* One handler at a time, on two accounts, with an expiry and restarts between
\* any two of its calls.
SPECIFICATION Spec
CONSTANTS
  User = {u1, u2}
  Request = {r1}
  Sid = {s1, s2, s3}
  u1 = u1
  u2 = u2
  r1 = r1
  s1 = s1
  s2 = s2
  s3 = s3
  NoSid = NoSid
  MaxPw = 1
  MaxLapsed = 1
  Restarts = TRUE
SYMMETRY Symmetry
\* Ids, password versions and accounts of an instance can run out.
CHECK_DEADLOCK FALSE
INVARIANT
  ExpiredNotRenewed
PROPERTIES
  RefinesContract
  AccountsIsolated
