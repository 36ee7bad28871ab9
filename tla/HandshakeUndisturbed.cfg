\* Two reports, no newer revision.
CONSTANTS
  Stages = 2
  MaySupersede = FALSE
SPECIFICATION FairSpec
CHECK_DEADLOCK FALSE
PROPERTIES UndisturbedRunSettles
