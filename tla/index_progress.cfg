SPECIFICATION FairSpec
CONSTANTS
  d1 = d1
  d2 = d2
  l1 = l1
  m1 = m1
  m2 = m2
  p1 = p1
  p2 = p2
  Document = {d1, d2}
  Loop = {l1}
  Manual = {}
  NoWorker = NoWorker
  NoDocument = NoDocument
  Provider = {p1, p2}
  InitialOrder <- TwoProviders
  SavedOrders <- Reversed
  BatchSize = 2
  LeaseTicks = 1
  RetryBase = 1
  RetryMax = 2
  MaxClock = 4
  MaxClaims = 6
  MaxErrors = 2
  MaxFaults = 1
  MaxSaves = 1
PROPERTIES
  DocumentsAttempted
  RequeuedFinish
CHECK_DEADLOCK FALSE
