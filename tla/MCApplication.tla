----------------------------- MODULE MCApplication -----------------------------
(***************************************************************************)
(* The parts of the application that share no state, in one instance for   *)
(* TLC: a behaviour moves one of them and leaves the others as they start. *)
(***************************************************************************)
EXTENDS ParsingPanels, ColorSudoku, Cellsheet, Deck, Markdown, AmoebaMenu, SoftTiles, Boot,
        Shell, Hosting, Waits, OklchPanel, BuildPanel, PointPanel, TestExplorer, CircuitWire, Gateways

VARIABLE part

pages == <<deck, reader>>
demos == <<sudoku, sheet, picker, build, point, explorer>>
frame == <<menu, colony, boot, shell, waits>>
servers == <<hosting, wire, gate>>
whole == <<p, u, pages, demos, frame, servers, part>>
Parts == {"parsing", "sudoku", "sheet", "deck", "markdown", "picker", "build", "point", "explorer", "menu",
          "colony", "boot", "shell", "waits", "hosting", "wire", "gateways"}

EmptyRequest == [keys |-> RequestKeys, panelId |-> 1, inputRevision |-> 0, entry |-> "hson", source |-> 0]

\* A part that does not move has one of its initial states.
AppInit ==
  /\ part \in Parts
  /\ Init /\ SudokuInit /\ SheetInit /\ DeckInit /\ ReaderInit /\ HostingInit /\ WaitsInit /\ PickerInit
  /\ BuildInit
  /\ part # "build" => build.src = Empty
  /\ PointInit
  /\ part # "point" => point.lastPos = 0
  /\ ExplorerInit
  /\ part # "explorer" => location(explorer) = Nowhere
  /\ IF part = "menu" THEN MenuInit ELSE menu = hidden({})
  /\ ColonyInit
  /\ part # "colony" => Len(colony.menu) = 1
  /\ IF part = "boot" THEN BootInit ELSE boot = BootstrapStart
  /\ IF part = "shell" THEN ShellInit ELSE shell = mounted_shell(NoView, {}, NoRoom, FALSE, 0)
  /\ WireInit
  /\ part # "wire" => wire.request = EmptyRequest
  /\ GateInit
  /\ part # "gateways" => ~gate.prod /\ gate.configured = Unresolved

PageNext ==
  /\ UNCHANGED <<p, u, demos, frame, servers>>
  /\ \/ part = "deck" /\ DeckNext /\ UNCHANGED reader
     \/ part = "markdown" /\ ReaderNext /\ UNCHANGED deck

DemoNext ==
  /\ UNCHANGED <<p, u, pages, frame, servers>>
  /\ \/ part = "sudoku" /\ SudokuNext /\ UNCHANGED <<sheet, picker, build, point, explorer>>
     \/ part = "sheet" /\ SheetNext /\ UNCHANGED <<sudoku, picker, build, point, explorer>>
     \/ part = "picker" /\ PickerNext /\ UNCHANGED <<sudoku, sheet, build, point, explorer>>
     \/ part = "build" /\ BuildNext /\ UNCHANGED <<sudoku, sheet, picker, point, explorer>>
     \/ part = "point" /\ PointNext /\ UNCHANGED <<sudoku, sheet, picker, build, explorer>>
     \/ part = "explorer" /\ ExplorerNext /\ UNCHANGED <<sudoku, sheet, picker, build, point>>

FrameNext ==
  /\ UNCHANGED <<p, u, pages, demos, servers>>
  /\ \/ part = "menu" /\ MenuNext /\ UNCHANGED <<colony, boot, shell, waits>>
     \/ part = "colony" /\ ColonyNext /\ UNCHANGED <<menu, boot, shell, waits>>
     \/ part = "boot" /\ BootNext /\ UNCHANGED <<menu, colony, shell, waits>>
     \/ part = "shell" /\ ShellNext /\ UNCHANGED <<menu, colony, boot, waits>>
     \/ part = "waits" /\ WaitsNext /\ UNCHANGED <<menu, colony, boot, shell>>

ServerNext ==
  /\ UNCHANGED <<p, u, pages, demos, frame>>
  /\ \/ part = "hosting" /\ HostingNext /\ UNCHANGED <<wire, gate>>
     \/ part = "wire" /\ WireNext /\ UNCHANGED <<hosting, gate>>
     \/ part = "gateways" /\ GateNext /\ UNCHANGED <<hosting, wire>>

AppNext ==
  /\ UNCHANGED part
  /\ \/ part = "parsing" /\ Next /\ UNCHANGED <<pages, demos, frame, servers>>
     \/ PageNext \/ DemoNext \/ FrameNext \/ ServerNext

\* Only the parsing panels are asked for progress.
AppSpec == AppInit /\ [][AppNext]_whole /\ Answering

-----------------------------------------------------------------------------
\* Every part keeps its types.
AppTypeOK ==
  /\ TypeOK /\ SudokuTypeOK /\ SheetTypeOK /\ DeckTypeOK
  /\ ExplorerTypeOK /\ MenuTypeOK /\ BootTypeOK /\ ShellTypeOK /\ HostingTypeOK

(* What intro and splash wait for: the phases of the application follow    *)
(* each other, and a wait is settled and leaves nothing behind.            *)
StartOrderly == BootOrderly /\ WaitsHonoured

(* The menu can be used, and its tiles are laid out whole, apart and in    *)
(* the order of the items, looked at where the layout moves.               *)
MenuSound == MenuUsable /\ (part = "colony" => MenuLaidOut)

(* The small panels tell the truth about their state: the picker about the *)
(* colors in use, the build panel about its output, the point widget about *)
(* the page, the explorer of test reports about what it has loaded, the    *)
(* sheet about blocked targets, its gesture and its sizes.                 *)
PanelsTruthful == ColorsWorn /\ OutputHonest /\ ReadoutTrue /\ OneDetailRetained /\ SheetTruthful

(* Nothing outlives its owner in the server process: rooms and timers,     *)
(* and the sockets of the gateways.                                        *)
ServersOwnUp == DisposalIsFinal /\ ConnectionsOwned

-----------------------------------------------------------------------------
\* The texts typed into a sheet of four rows by five: one operator feeds
\* another that comes before it in reading order, two share a target, a target
\* that is taken is an operand of the next, and an operation can fail.
TypedTexts == (<<0, 2>> :> {"blank", "two", "+"}) @@ (<<0, 3>> :> {"words"}) @@ (<<1, 3>> :> {"blank", "+", "/"})
              @@ (<<2, 3>> :> {"zero"})
              @@ (<<2, 0>> :> {"one"}) @@ (<<2, 1>> :> {"+"}) @@ (<<2, 2>> :> {"one"})
              @@ (<<3, 0>> :> {"one"}) @@ (<<3, 1>> :> {"+"}) @@ (<<3, 2>> :> {"one"})
FocusedCells == {<<0, 1>>}
GrabbedCells == {<<0, 0>>, <<0, 1>>}
PlayedHere == {0, 1, 6}
\* The first, one that is matched, and one that is not.
ShuffledHere == {StartOrder, swapped(TargetOrder, 0, 6), swapped(TargetOrder, 0, 1)}
DeltasHere == {-60, 100}
\* Of two targets, one is configured with numbers off the sliders' steps, and
\* the other with a text that does not parse.
PathsHere == <<"main", "quiet">>
InitialHere == [main |-> {[l |-> 80, c |-> 1234, h |-> 35996, a |-> 996]}, quiet |-> {}]
SlidersHere == [l |-> {0, 10000}, c |-> {120}, h |-> {36000}, a |-> {500}]
\* The core of the shortest labels, and a menu of smaller ones.
Core(columns, rows) == [columns |-> columns, rows |-> rows]
MenusHere == {<<Core(4, 3)>>, <<Core(3, 2), Core(1, 2), Core(2, 2)>>}
\* The badge lies over the widget and is not part of it.
Layout ==
  {[name |-> "page", covers |-> {0, 1, 2}, area |-> 9, level |-> 0, ghost |-> FALSE, hidden |-> FALSE, own |-> FALSE],
   [name |-> "link", covers |-> {1}, area |-> 1, level |-> 2, ghost |-> FALSE, hidden |-> FALSE, own |-> TRUE],
   [name |-> "veil", covers |-> {0, 1, 2}, area |-> 9, level |-> 3, ghost |-> TRUE, hidden |-> FALSE, own |-> TRUE],
   [name |-> "spark", covers |-> {1, 2}, area |-> 2, level |-> 4, ghost |-> TRUE, hidden |-> FALSE, own |-> TRUE],
   [name |-> "shade", covers |-> {1, 2}, area |-> 2, level |-> 5, ghost |-> TRUE, hidden |-> TRUE, own |-> TRUE],
   [name |-> "badge", covers |-> {0, 1}, area |-> 1, level |-> 6, ghost |-> TRUE, hidden |-> FALSE, own |-> FALSE]}
=============================================================================
