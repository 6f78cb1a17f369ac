SPECIFICATION FairSpec
CONSTANTS
  a1 = a1
  r1 = r1
  r2 = r2
  op = op
  NoAccount = NoAccount
  Accounts <- OneAccount
  Replicas <- TwoReplicas
  Operators <- OneOperator
  Enqueues = TRUE
  AllowAutoSuspend = TRUE
  AutoReleaseHold = TRUE
  Verdicts = {0, 2, 3, 4}
  MaxFaults = 1
INVARIANTS
  StoresAgree
PROPERTIES
  SuspendStays
  NoEarlyRelease
  HoldLifts
  MarkFollowsSignals
