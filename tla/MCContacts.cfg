SPECIFICATION Spec
CONSTANTS
  i1 = i1
  i2 = i2
  r1 = r1
  r2 = r2
  a1 = a1
  a2 = a2
  Absent = Absent
  Idle = Idle
  Users = {"alice", "bob"}
  Ids = {i1, i2}
  Addresses = {a1, a2}
  Requests = {r1, r2}
  MaxRequests = 4
SYMMETRY Interchangeable
INVARIANTS
  OwnBookOnly
  FieldsFollowRequests
PROPERTIES
  OnlyAddRevives
CHECK_DEADLOCK FALSE
