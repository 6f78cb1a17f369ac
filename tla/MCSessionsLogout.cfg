SPECIFICATION Spec
CONSTANTS
  r1 = r1
  r2 = r2
  s1 = s1
  Blank = Blank
  Absent = Absent
  Idle = Idle
  Requests = {r1, r2}
  Users = {"alice"}
  Challenges = {"c1"}
  SignerTokens = {s1}
  SignerUser = "alice"
  MaxSessions = 2
  MaxTokens = 3
  MaxRequests = 2
  MaxFaults = 1
SYMMETRY Interchangeable
INVARIANT LogoutInvalidates
CHECK_DEADLOCK FALSE
