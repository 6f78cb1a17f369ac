SPECIFICATION SendSpec
CONSTANTS
  paid1 = paid1
  anon1 = anon1
  q1 = q1
  q2 = q2
  NoAccount = NoAccount
  Domain = Domain
  Accounts <- MCAccounts
  Anonymous <- MCAnonymous
  Elevated <- MCElevated
  Judged <- MCElevated
  Young <- MCElevated
  Requests <- MCRequests
  Max <- MCMax
  ThrottledMax <- MCThrottledMax
  Period <- MCPeriod
  NewRecipMax = 2
  RecipPerMsg = 2
  ThrottledRecip = 2
  Recips = {2, 3}
  MaxRecips = 3
  Horizon = 1
  MaxErrors = 1
  r1 = r1
  r2 = r2
  r3 = r3
  bad = bad
  d1 = d1
  d2 = d2
  Malformed = Malformed
  NoDomain = NoDomain
  Recipients <- FourRecipients
  DomainOf <- FourDomains
  MXHosts <- MCMXHosts
  LocalDomains <- MCLocalDomains
  Modes = {"relay", "direct", "hybrid"}
  MaxSends = 3
  MaxLost = 2
SYMMETRY RequestSymmetry
INVARIANTS
  BackstopHolds
  ThrottleBites
  QuotaIsPaidOnce
  SuccessIsForAll
  OneCopyPerCall
  SentFolderIsTrue
CHECK_DEADLOCK FALSE
