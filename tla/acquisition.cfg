SPECIFICATION AcquisitionSpec
CONSTANTS
  w1 = w1
  u1 = u1
  c1 = c1
  c2 = c2
  f1 = f1
  f2 = f2
  NoSearcher = none
  Game = {1, 2}
  Classified = {}
  Searcher = {w1}
  Forcer = {u1}
  Official = 1
  Fallback = 1
  Candidate <- Candidates
  Batch = 2
  LeaseTime = 1
  Refresh = 2
  EmptyRefresh = 1
  RetryBase = 1
  RetryMax = 2
  MaxTime = 2
  MaxSearches = 2
  MaxEscapes = 1
  Crawl = {c1, c2}
  SitePage <- SitePages
  EntryPages <- Entries
  MaxPages = 2
  MaxAttempts = 2
  MaxMoves = 1
  Interval = 2
  MaxTick = 4
  PageTitle = {"own", "original", "alias"}
  BggTitle = {"original", "alias"}
  OriginalTitle = "original"
  MaxOffered = 1
  Providers = 1
  Url = {1, 2}
  Preferred <- Preferences
  Offer <- AllOffers
  MaxOffers = 3
  Fetch = {f1, f2}
  Address <- Addresses
  Body <- Bodies
  Slots = 1
  MaxAddresses = 2
  MaxRedirects = 1
  MaxRetries = 1
  MaxBytes = 2
  MaxFetches = 2
INVARIANTS
  SearchesRecorded
  CrawlPolite
  UnattendedHasEvidence
  ResolutionSound
  FetchResources
PROPERTIES
  SearchLeaseSpec
  StoredIsFetched
  AcquisitionEnds
CHECK_DEADLOCK FALSE
