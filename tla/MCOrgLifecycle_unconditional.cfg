SPECIFICATION Spec
CONSTANTS
  o1 = o1
  o2 = o2
  simpero = simpero
  pa = pa
  am = am
  r1 = r1
  r2 = r2
  r3 = r3
  None = None
  Orgs = {o1}
  Platform = simpero
  PlatformAdmins = {pa}
  Clients = {am}
  OutOfBand = {pa}
  Requests = {r1}
  MaxFaults = 0
PROPERTIES
  RemovalRunsUnconditionally
CHECK_DEADLOCK FALSE
