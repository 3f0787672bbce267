SPECIFICATION FairSpec
CONSTANTS
  alice = alice
  bob = bob
  acme = acme
  beta = beta
  r1 = r1
  r2 = r2
  r3 = r3
  None = None
  People = {alice, bob}
  Orgs = {acme, beta}
  Requests = {r1, r2, r3}
  Member <- TwoOrgs
  MaxFaults = 1
  MaxRemovals = 1
INVARIANTS
  TypeOK
  HandlerFindsCaller
  RacingLoginsDoNotCollide
  ServedCallersAreKnown
PROPERTIES
  RowsStayHome
  RequestsEnd
CHECK_DEADLOCK FALSE
