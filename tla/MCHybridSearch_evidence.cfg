SPECIFICATION FairSpec
CONSTANTS
  r1 = r1
  r2 = r2
  q1 = q1
  a = a
  b = b
  cim = cim
  uuid5 = uuid5
  None = None
  Zero = Zero
  Derived = uuid5
  Runs = {r1, r2}
  Candidates <- MCCandidates
  Payloads <- MCPayloads
  Texts = {a, b}
  Inputs <- MCInputs
  MaxBatch = 2
  Chunks = {1, 2, 3}
  DataSources = {cim}
  DocumentOf <- MCDocumentOf
  Settings <- MCSettings
  MaxFaults = 1
  Queries = {q1}
  Searches <- MCSearches
  RRF_K = 5
  Precision = 3
INVARIANTS
  TypeOK
  ValidatedClaimsPassTheChecks
  StoredClaimsAreWhole
  OneOrganisationPerTenant
  VectorsBelongToTexts
  FusionRanksByScore
  BetterRanksComeFirst
  HitsMissOnlyDeleted
PROPERTIES
  RunsEnd
CHECK_DEADLOCK FALSE
