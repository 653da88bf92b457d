\* Two handlers at once on one account, and restarts that lose them.
SPECIFICATION Spec
CONSTANTS
  User = {u1}
  Request = {r1, r2}
  Sid = {s1, s2, s3}
  u1 = u1
  r1 = r1
  r2 = r2
  s1 = s1
  s2 = s2
  s3 = s3
  NoSid = NoSid
  MaxPw = 1
  MaxLapsed = 0
  Restarts = TRUE
SYMMETRY Symmetry
\* Ids, password versions and accounts of an instance can run out.
CHECK_DEADLOCK FALSE
INVARIANTS
  TypeOK
  OneSessionPerSignIn
  RevokedSignInIsOver
  OldPasswordSessionsPurged
  ReplayBranchSeesNoReplay
  NoSessionWithoutUser
