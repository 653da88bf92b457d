SPECIFICATION HubSpec
CONSTANTS
  Request = {r1, r2}
  Provider = {google, github}
  Mail = {t1, t2}
  Method = {m1, m2}
  MaxCalls = 3
  MaxCrashes = 1
  Job = {j1, j2}
  MaxJobs = 3
  Check = {c1, c2}
  Admin = {a1, a2}
  MaxChecks = 3
  MaxChanges = 2
  Dispatch = {d1, d2}
  Event = {created, login}
  MaxEndpoints = 2
  MaxFailures = 1
  Call = {p1, p2}
  Limit = 1
  MaxLoads = 3
  MaxRows = 3
SYMMETRY Symmetry
CHECK_DEADLOCK FALSE
INVARIANTS TypesOK CachedProfileFollows MailTokensOnce SignInKept EnabledSecretProved
           ToldSecretWorks MaintenanceTakesEffect DeliveriesLogged ViewIsAnswer
PROPERTIES TotpStaysOn FieldsKept
