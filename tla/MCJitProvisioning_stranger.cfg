SPECIFICATION Spec
CONSTANTS
  alice = alice
  bob = bob
  acme = acme
  beta = beta
  r1 = r1
  r2 = r2
  r3 = r3
  None = None
  People = {alice, bob}
  Orgs = {acme, beta}
  Requests = {r1, r2}
  Member <- TwoOrgs
  MaxFaults = 0
  MaxRemovals = 0
INVARIANTS
  TokenFindsRow
CHECK_DEADLOCK FALSE
