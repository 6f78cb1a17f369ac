SPECIFICATION FairSpec
CONSTANTS
  m1 = m1
  m2 = m2
  w1 = w1
  w2 = w2
  s1 = s1
  s2 = s2
  Messages <- MCMessages
  Senders <- MCSenders
  Workers <- MCWorkers
  SenderOf <- MCSenderOf
  RetryDelays <- MCRetryDelays
  MaxAttempts = 3
  BatchSize = 2
  MaxFaults = 1
  NoMessage = NoMessage
INVARIANTS
  SoleOwner
  AttemptBudget
  NoDuplicateDelivery
  VerdictIsTrue
  BounceOnlyOnce
PROPERTIES
  SettledForGood
  KeepsContract
  EverythingSettles
