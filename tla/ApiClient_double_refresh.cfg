\* Two calls get a 401 at once.
SPECIFICATION Spec
CONSTANTS
  Call = {c1, c2}
  Sid = {s1, s2, s3}
  NoSid = NoSid
  c1 = c1
  c2 = c2
  s1 = s1
  s2 = s2
  s3 = s3
  PageKind = {"plain"}
  MaxFaults = 0
\* The ids of an instance can run out.
CHECK_DEADLOCK FALSE
PROPERTY
  SignedOutForCause
