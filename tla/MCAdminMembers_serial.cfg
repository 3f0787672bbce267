SPECIFICATION FairSpec
CONSTANTS
  alice = alice
  bob = bob
  r1 = r1
  r2 = r2
  None = None
  Platform = Platform
  Members = {alice, bob}
  Requests = {r1}
  Kinds = {"remove", "setRole", "removeCross", "setRoleCross"}
  OutOfBand = {alice, bob}
  MaxChanges = 3
  MaxFaults = 1
INVARIANTS
  TypeOK
  AdminsComeFromClerk
PROPERTIES
  EndpointsKeepAnAdmin
  RemovalRevokesAdmin
  GraceCoversReactivation
  AdminRowsConverge
CHECK_DEADLOCK FALSE
