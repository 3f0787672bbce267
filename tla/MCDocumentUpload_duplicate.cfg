SPECIFICATION Spec
CONSTANTS
  u1 = u1
  u2 = u2
  r1 = r1
  r2 = r2
  w1 = w1
  w2 = w2
  edge = edge
  big = big
  None = None
  Uploads = {u1, u2}
  Deals = {d1}
  Files = {edge, big}
  Sizes <- MCSizes
  SizeOf <- MCTwoFiles
  MaxBytes <- MCMaxBytes
  Requests = {r1, r2}
  Workers = {w1}
  Retries = 1
  MaxFaults = 0
INVARIANTS
  DuplicateIsCaught
CHECK_DEADLOCK FALSE
