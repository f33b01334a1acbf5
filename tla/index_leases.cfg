SPECIFICATION Spec
CONSTANTS
  d1 = d1
  d2 = d2
  l1 = l1
  m1 = m1
  m2 = m2
  p1 = p1
  p2 = p2
  Document = {d1, d2}
  Loop = {l1}
  Manual = {m1}
  NoWorker = NoWorker
  NoDocument = NoDocument
  Provider = {p1, p2}
  InitialOrder <- TwoProviders
  SavedOrders <- Reversed
  BatchSize = 1
  LeaseTicks = 1
  RetryBase = 1
  RetryMax = 2
  MaxClock = 2
  MaxClaims = 2
  MaxErrors = 1
  MaxFaults = 1
  MaxSaves = 0
INVARIANTS
  JobsInv
  ServedUnlessFault
PROPERTIES
  LeaseSpec
SYMMETRY Documents
CHECK_DEADLOCK FALSE
