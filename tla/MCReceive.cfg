SPECIFICATION ReceiveSpec
CONSTANTS
  s1 = s1
  s2 = s2
  None = None
  Closed = Closed
  Users = {"alice", "bob"}
  Addresses = {"alice", "alice+tag", "bob"}
  Registered = {"alice", "bob"}
  Unserved = {"elsewhere"}
  Correspondents = {"carol"}
  MessageIDs = {"n1", "x1", "x2"}
  Mails = {"news", "note", "twin", "dsn", "bare", "arf", "reply", "away", "big", "junk", "lie", "bad"}
  Mail <- MCMail
  Owner <- MCOwner
  Base <- MCBase
  Batches <- MCBatches
  Retirable = {"alice"}
  Sessions = {s1, s2}
  SPF = "reject"
  DKIM = "reject"
  Limited = TRUE
  MaxFaults = 2
  Absent = Absent
  Hosts = {"peer", "relay"}
  WhitelistedIPs = {"relay"}
  ConnectionsPerMinute = 2
  MessagesPerMinute = 1
  Minute = 2
  BlockDuration = 2
  CleanupInterval = 1
  MaxTime = 6
SYMMETRY Interchangeable
INVARIANTS
  AcceptedIsKept
  OneCopyEach
  ComplaintsAreNotBounces
  VerdictIsItsOwn
PROPERTIES
  ChargedOnEvidence
  LimitsHold
CHECK_DEADLOCK FALSE
