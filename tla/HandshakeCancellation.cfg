\* Two reports, superseded by a newer revision.
CONSTANTS
  Stages = 2
  MaySupersede = TRUE
SPECIFICATION FairSpec
CHECK_DEADLOCK FALSE
INVARIANTS CancellationInterrupts
