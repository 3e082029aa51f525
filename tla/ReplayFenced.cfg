SPECIFICATION FairSpec
CHECK_DEADLOCK FALSE
CONSTANTS
  MaxRows = 3
  MaxEpisodes = 2
  MaxCrashes = 0
  MaxAttempts = 2
PROPERTIES
  Redrainable
