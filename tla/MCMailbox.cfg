SPECIFICATION Spec
CONSTANTS
  alice = alice
  bob = bob
  m1 = m1
  m2 = m2
  m3 = m3
  r1 = r1
  r2 = r2
  Absent = Absent
  Null = Null
  Idle = Idle
  Users = {alice, bob}
  Messages = {m1, m2, m3}
  Requests = {r1, r2}
  Clients = {alice}
  Selections <- MCSelections
  Filters <- MCFilters
  Stored <- MCStored
  Folders = {"Work"}
  MaxRequests = 3
  MaxFaults = 1
INVARIANTS
  OwnMailOnly
  NoSaveIsLost
  ErrorLeavesNoTrace
PROPERTIES
  DeletedStaysDeleted
SYMMETRY TwoRequests
CHECK_DEADLOCK FALSE
