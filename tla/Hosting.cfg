\* No schedule, as the servers have it: the sweep that DEPLOYMENT.md configures.
SPECIFICATION HostingSpec
CONSTANTS
  HostedRooms = {r1, r2}
  Connections = {c1, c2}
  NoHostedRoom = NoHostedRoom
  Scheduled = FALSE
  maxRooms = 2
  idleMs = 1
  sweepIntervalMs = 1
  EvictMs = 1
  MaxNow = 6
INVARIANTS IdleRoomsEvicted
CHECK_DEADLOCK FALSE
