SPECIFICATION Spec
CONSTANTS
  platform = platform
  acme = acme
  beta = beta
  r1 = r1
  r2 = r2
  b1 = b1
  b2 = b2
  Unset = Unset
  None = None
  Requests = {r1, r2}
  Backends = {b1, b2}
  Orgs = {platform, acme, beta}
  PlatformOrg = platform
SYMMETRY Interchangeable
INVARIANTS
  TypeOK
  NothingLeaks
  CrossOrgChangeIsAudited
  FailuresAreExternal
  GuardSeesTheCaller
PROPERTIES
  ImplementsIsolation
CHECK_DEADLOCK FALSE
