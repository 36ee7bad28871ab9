\* The contract, with closing connections, worker loss and throwing factories.
CONSTANTS
  Panel = {p1, p2}
  Client = {c1}
  Revision = {1, 2}
  MaxJobs = 3
  MaxPending = 2
  MaxWorkerReplacements = 1
  FactoryMayThrow = TRUE
  PortMayRefuse = FALSE
  NoRequest = NoRequest
SPECIFICATION Spec
CHECK_DEADLOCK FALSE
SYMMETRY Symmetry
INVARIANTS NothingStranded
PROPERTIES ImplementsLatestWins
