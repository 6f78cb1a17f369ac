SPECIFICATION Spec
CONSTANTS
  None = None
  Names = {"d1"}
  Default = "builtin"
  Replicas = {"p1", "p2"}
  Requests = {"q1"}
  LegacyDomain = "d1"
  LegacyKey = LegacyKey
  MaxKeys = 2
  MaxRequests = 1
  MaxFaults = 0
INVARIANTS
  UnsignedInRotation
CHECK_DEADLOCK FALSE
