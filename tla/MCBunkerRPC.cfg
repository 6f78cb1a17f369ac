SPECIFICATION Spec
CONSTANTS
  None = None
  Users = {"alice", "bob"}
  LoginKeys = {"k1"}
  BootKeys = {"b1"}
  Calls = {"c1", "c2"}
  MaxRequests = 3
INVARIANTS
  OwnAnswer
  ConnectionIsGranted
PROPERTIES
  CallsReturn
CHECK_DEADLOCK FALSE
