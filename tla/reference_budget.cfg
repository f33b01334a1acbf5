SPECIFICATION Spec
CONSTANTS
  LastId = 4
  Batch = 2
  EmptyStop = 1
  DayTicks = 1
  CandidateDays = 1
  AdmittedDays = 2
  UpcomingTicks = 1
  HotTicks = 2
  GraceTicks = 2
  PostponeTicks = 1
  Budget = 3
  Attempts = 2
  MinVotes = 1
  Imported = {1, 2}
  Listed = {1, 2, 3}
  Recent = {1, 2, 3, 4}
  Accepted = {1, 2, 3}
  Wished = {2}
  Unreadable = {2, 4}
  HotPool = {1, 3}
  CampaignEnd <- Campaigns
  MaxClock = 1
  MaxVotes = 1
  MaxEvents = 0
  MaxFaults = 0
INVARIANTS
  BudgetKept
CHECK_DEADLOCK FALSE
