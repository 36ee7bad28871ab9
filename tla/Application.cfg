\* The parsing panels, the demos, the shell and the server process.
SPECIFICATION AppSpec
CONSTANTS
  None = None
  MaxEdits = 2
  MaxSockets = 2
  NoSlot = NoSlot
  PlayedSlots <- PlayedHere
  ShuffledOrders <- ShuffledHere
  MaxMoves = 2
  ROWS = 4
  COLS = 5
  NoCell = NoCell
  Authorable <- TypedTexts
  Focusable <- FocusedCells
  Grabbed <- GrabbedCells
  GrabbedWidths = {56, 140}
  Pointers = {1, 2}
  Deltas <- DeltasHere
  NoSlide = NoSlide
  LastSlide = 2
  MaxLines = 4
  NoItem = NoItem
  Views = {about}
  Widgets = {point, bling}
  Bling = bling
  MaxLive = 2
  Sparks = 2
  MaxEffects = 3
  NoView = NoView
  Towl = towl
  Fleurs = fleurs
  Hidden = sudoku
  RetainedViews = {cells}
  OtherViews = {aboutView}
  BlingWidget = bling
  KeyedWidgets = {point}
  NoRoom = NoRoom
  Malformed = Malformed
  Invited = Invited
  MaxRooms = 3
  HostedRooms = {r1, r2}
  Connections = {c1, c2}
  NoHostedRoom = NoHostedRoom
  Scheduled = TRUE
  maxRooms = 2
  idleMs = 1
  sweepIntervalMs = 1
  EvictMs = 1
  MaxNow = 6
  Waiting = {w1, w2}
  Paths <- PathsHere
  Initial <- InitialHere
  SliderValues <- SlidersHere
  Valid = {article, list}
  Unparsed = {broken}
  Ungrown = {orphan}
  Positions = {0, 1, 2}
  Elements <- Layout
  Rows = 3
  Pipes = {w1, w2}
  Callers = {parse, towlPanel}
  Groups = {unit}
  NoGroup = NoGroup
  MaxEntries = 2
  MaxWaiting = 2
  Menus <- MenusHere
  FieldRight = 11
  FieldBottom = 13
  MaxBodyWidth = 17
CHECK_DEADLOCK FALSE
INVARIANTS AppTypeOK PanelsShowLatestEdit SocketsOwned BoardTruthful SheetSettled DeckSettles EveryLineShown MenuSound StartOrderly SurfacesFollow IdleRoomsEvicted ServersOwnUp PanelsTruthful WireAgrees
PROPERTIES Forward EveryEditConcluded RoomKept OnlyIdleRoomsEvicted
