SPECIFICATION FairSpec
CONSTANTS
  u1 = u1
  u2 = u2
  r1 = r1
  r2 = r2
  w1 = w1
  w2 = w2
  edge = edge
  big = big
  None = None
  Uploads = {u1}
  Deals = {d1}
  Files = {edge, big}
  Sizes <- MCSizes
  SizeOf <- MCTwoFiles
  MaxBytes <- MCMaxBytes
  Requests = {r1, r2}
  Workers = {w1, w2}
  Retries = 2
  MaxFaults = 2
INVARIANTS
  TypeOK
  AuditTrailMatchesRow
  VerdictIsSound
  DedupeIsByDeclaredHash
  CompleteJobSettledRow
PROPERTIES
  ImplementsLifecycle
  JobsEnd
  PendingUnlessJobsFailed
CHECK_DEADLOCK FALSE
