SPECIFICATION LibrarySpec
CONSTANTS
  e1 = e1
  p1 = p1
  p2 = p2
  g1 = g1
  g2 = g2
  n1 = n1
  n2 = n2
  s1 = s1
  s2 = s2
  s3 = s3
  c1 = c1
  c2 = c2
  l1 = l1
  h1 = h1
  h2 = h2
  u1 = u1
  k1 = k1
  t1 = t1
  t2 = t2
  Editor = {e1}
  PlayId = {p1, p2}
  Ratings = {1}
  LastDay = 2
  OwnedGame = {g1, g2}
  CollId = {n1, n2}
  NoColl = NoColl
  CollOf <- GameOfItem
  Quantities = {0, 2}
  MaxEntries = 2
  MaxManualCopies = 1
  SyncedGame = {s1, s2, s3}
  Unusable = {s3}
  Caller = {c1, c2}
  SyncInterval = 1
  RequestAttempts = 2
  MetadataBatch = 2
  BackfillRounds = 1
  MaxSyncClock = 2
  ListId = {l1}
  ListGame = {h1}
  ListEditor = {u1}
  WishKey = {k1}
  WishTitle = {t1, t2}
  Ratings5 = {0, 1, 2}
  f1 = f1
  f2 = f2
  w1 = w1
  r1 = r1
  b1 = b1
  x1 = x1
  x2 = x2
  x3 = x3
  y1 = y1
  y2 = y2
  y3 = y3
  y4 = y4
  y5 = y5
  Campaign = {f1, f2}
  Gamefound = {f1}
  Upcoming = {f2}
  FeedWorker = {w1}
  FeedRequest = {r1}
  PageLimits = {1}
  NoNews = NoNews
  MaxFeedFaults = 1
  BaseGame = {b1}
  Expansion = {x1, x2, x3}
  Minor = {x3}
  NoGame = NoGame
  MaxWatchFaults = 1
  Linkable = {y1, y2, y3, y4, y5}
  Minors = {y5}
  Owners = {1, 4, 20}
  MinOwners = 2
  MinSample = 2
  MaxShown = 2
  MaxListed = 3
  q1 = q1
  o1 = o1
  o2 = o2
  TutorialGame = {1, 2}
  Video <- Videos
  VideoPoster = {q1}
  VideoBatch = 2
  VideoRefresh = 1
  MaxVideoClock = 1
  MaxVideoFaults = 1
  MaxVideoChanges = 1
  TitledGame = {1, 2}
  OwnedTitled = {2}
  EditionTitle = {o1, o2}
  NoTitle = NoTitle
  TitleBatch = 2
  RecheckDays = 2
  RetryDays = 1
  OversizeDays = 2
  MaxTitleClock = 2
  MaxTitleFaults = 1
INVARIANTS
  LibraryTypeOK
  CompletedIsPlayed
  CollectionInv
  SyncsSeparate
  ListsWellFormed
  NewsAnnounced
  GameShown
PROPERTIES
  MarkerFollowsPlays
SYMMETRY LibrarySymmetry
CHECK_DEADLOCK FALSE
