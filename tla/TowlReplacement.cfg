SPECIFICATION FairSpec
CONSTANTS
  Retries = 2
  MaxLoops = 2
PROPERTIES ReplacementAnnounced
CHECK_DEADLOCK FALSE
