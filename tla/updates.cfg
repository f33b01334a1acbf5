SPECIFICATION ShapeSpec
CONSTANTS
  it = it
  en = en
  w1 = w1
  m1 = m1
  g1 = g1
  s1 = s1
  s2 = s2
  Review = {it, en}
  Scheduler = {w1}
  Manual = {m1}
  NoWorker = NoWorker
  NoReview = NoReview
  Game = {g1}
  Sha = {s1, s2}
  NoSha = NoSha
  NoFile = NoFile
  GameOf <- OneGame
  LangOf <- ItalianAndEnglish
  Official = {it, en}
  Trusted = {it, en}
  Corruptible = {it}
  Uploads <- SameUpload
  Intervals = {1}
  DefaultInterval = 1
  LeaseTicks = 1
  RetryBase = 1
  RetryMax = 3
  MaxClock = 2
  MaxClaims = 5
  MaxCrashes = 1
  MaxEscapes = 1
INVARIANTS
  TypeOK
  LeaseInv
  FailuresMatchAudit
  ArchiveInv
PROPERTIES
  LeaseSpec
  EnglishAfterItalian
  ScheduledChecked
CHECK_DEADLOCK FALSE
