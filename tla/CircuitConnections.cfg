\* Connections that close at any time.
CONSTANTS
  Panel = {p1, p2}
  Client = {c1, c2}
  Revision = {1, 2}
  MaxJobs = 3
  MaxPending = 2
  MaxWorkerReplacements = 0
  FactoryMayThrow = FALSE
  PortMayRefuse = FALSE
  NoRequest = NoRequest
SPECIFICATION Spec
CHECK_DEADLOCK FALSE
SYMMETRY Symmetry
INVARIANTS TypeOK OwnedUntilSettled FifoOrder NewestRevisionWins
PROPERTIES SettledOnce ToldTheTruth
