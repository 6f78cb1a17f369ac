SPECIFICATION Spec
CONSTANTS
  None = None
  Names = {"d1"}
  Default = "builtin"
  Replicas = {"p1", "p2"}
  Requests = {"q1", "q2"}
  LegacyDomain = "d1"
  LegacyKey = LegacyKey
  MaxKeys = 2
  MaxRequests = 2
  MaxFaults = 1
INVARIANTS
  SignsWithSeenKeys
PROPERTIES
  Converges
CHECK_DEADLOCK FALSE
