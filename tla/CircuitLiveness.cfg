\* Every submission settles, if the factory always returns.
CONSTANTS
  Panel = {p1, p2}
  Client = {c1}
  Revision = {1, 2}
  MaxJobs = 2
  MaxPending = 1
  MaxWorkerReplacements = 1
  FactoryMayThrow = FALSE
  PortMayRefuse = TRUE
  NoRequest = NoRequest
SPECIFICATION FairSpec
CHECK_DEADLOCK FALSE
PROPERTIES LossesSurvived
