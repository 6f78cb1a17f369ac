SPECIFICATION SubmissionSpec
CONSTANTS
  r1 = r1
  r2 = r2
  r3 = r3
  bad = bad
  d1 = d1
  d2 = d2
  Malformed = Malformed
  NoDomain = NoDomain
  Recipients <- ThreeRecipients
  DomainOf <- ThreeDomains
  MXHosts <- MCMXHosts
  LocalDomains <- MCLocalDomains
  Modes = {"direct"}
  MaxSends = 1
  MaxLost = 0
INVARIANT ErrorMeansFailure
CHECK_DEADLOCK FALSE
