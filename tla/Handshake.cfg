\* A full run of seven reports, superseded, cancelled or disposed at any point.
CONSTANTS
  Stages = 7
  MaySupersede = TRUE
SPECIFICATION FairSpec
CHECK_DEADLOCK FALSE
INVARIANTS OneReportAhead AcknowledgmentOnItsWay
PROPERTIES SettlesUnlessAsleep
