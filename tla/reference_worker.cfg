SPECIFICATION Spec
CONSTANTS
  LastId = 4
  Batch = 2
  EmptyStop = 2
  DayTicks = 1
  CandidateDays = 1
  AdmittedDays = 2
  UpcomingTicks = 1
  HotTicks = 2
  GraceTicks = 2
  PostponeTicks = 1
  Budget = 4
  Attempts = 1
  MinVotes = 1
  Imported = {1}
  Listed = {1, 2, 3}
  Recent = {1, 2, 3, 4}
  Accepted = {1, 2, 3}
  Wished = {1}
  Unreadable = {1, 3}
  HotPool = {1, 3}
  CampaignEnd <- Campaigns
  MaxClock = 1
  MaxVotes = 1
  MaxEvents = 1
  MaxFaults = 1
INVARIANTS
  TypeOK
  BudgetRespected
  ScanResumes
  RemovedWereWithdrawn
PROPERTIES
  AdmissionNeverCut
  QueueMovesOn
CHECK_DEADLOCK FALSE
