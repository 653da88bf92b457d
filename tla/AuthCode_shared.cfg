\* One page and two token requests that present the same code.
SPECIFICATION Spec
CONSTANTS
  a = a
  b = b
  mail = mail
  name = name
  User = {u}
  u = u
  Client = {a, b}
  Scope = {mail, name}
  Permitted <- PermittedScopes
  Code = {c1}
  c1 = c1
  f1 = f1
  r1 = r1
  r2 = r2
  Flow = {f1}
  Redeemer = {r1, r2}
  MaxCrashes = 0
SYMMETRY Symmetry
\* The codes of an instance can run out.
CHECK_DEADLOCK FALSE
INVARIANT CodeIsSingleUse
