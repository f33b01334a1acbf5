SPECIFICATION VideoSpec
CONSTANTS
  TutorialGame = {1, 2}
  Video <- BothLanguages
  VideoPoster = {}
  VideoBatch = 2
  VideoRefresh = 1
  MaxVideoClock = 2
  MaxVideoFaults = 0
  MaxVideoChanges = 0
PROPERTIES
  CatalogSearched
CHECK_DEADLOCK FALSE
