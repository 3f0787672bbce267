SPECIFICATION Spec
CONSTANTS
  alice = alice
  bob = bob
  r1 = r1
  r2 = r2
  None = None
  Platform = Platform
  Members = {alice, bob}
  Requests = {r1}
  Kinds = {"setRole"}
  OutOfBand = {}
  MaxChanges = 1
  MaxFaults = 0
PROPERTIES
  RegrantNeedsClerkAdmin
CHECK_DEADLOCK FALSE
