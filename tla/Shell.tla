--------------------------------- MODULE Shell ---------------------------------
(***************************************************************************)
(* The demo shell: the store of the selected view and widgets (store.ts),  *)
(* the reconciler that mounts, hides and disposes of their surfaces        *)
(* (shell-lifecycle.ts), and mount-demo.ts, which also keeps the page's    *)
(* address in step with the TOWL room that is shown (towl.room.ts).        *)
(***************************************************************************)
EXTENDS Integers

CONSTANTS NoView, Towl, Fleurs, Hidden, \* Hidden: the view with no place in the menu
          RetainedViews, OtherViews,    \* the rest of MAIN_VIEW_IDS, by retention
          BlingWidget, KeyedWidgets,    \* WIDGET_IDS: those in KeyedWidgets Escape stops
          NoRoom, Malformed, Invited,   \* no room, one that is none, one in a link
          MaxRooms                      \* bound: rooms made

ASSUME ShellAssumption ==
  /\ MaxRooms \in Nat \ {0} /\ {NoRoom, Malformed, Invited} \intersect Nat = {}
  /\ NoRoom # Malformed /\ NoRoom # Invited /\ Malformed # Invited
  /\ NoView \notin {Towl, Fleurs, Hidden} \union RetainedViews \union OtherViews
  /\ Hidden # Towl

VARIABLE shell

MAIN_VIEW_IDS == {Towl, Fleurs, Hidden} \union RetainedViews \union OtherViews
WIDGET_IDS == {BlingWidget} \union KeyedWidgets
ShellRooms == {Invited} \union 1..MaxRooms
Unmounted == [state |-> "none", hosts |-> 0]

active_menu_ids(view, widgets) == ((MAIN_VIEW_IDS \ {Hidden}) \intersect {view}) \union widgets

\* A retained surface is hidden; another one is disposed of and forgotten.
deactivate(surface, retained) ==
  IF surface.state # "shown" THEN surface
  ELSE IF retained THEN [surface EXCEPT !.state = "kept"]
  ELSE [surface EXCEPT !.state = "none", !.hosts = @ - 1]

\* Mutant: what was kept is mounted once more.
activate_anew(surface) ==
  IF surface.state = "shown" THEN surface ELSE [state |-> "shown", hosts |-> surface.hosts + 1]

activate(surface) ==
  IF surface.state = "none" THEN [state |-> "shown", hosts |-> surface.hosts + 1]
  ELSE [surface EXCEPT !.state = "shown"]

lifecycle_main(main, before, next) ==
  [v \in MAIN_VIEW_IDS |-> IF v = next THEN activate(main[v])
                           ELSE IF v = before THEN deactivate(main[v], v \in RetainedViews)
                           ELSE main[v]]

reconcileWidgets(k, next) ==
  [k EXCEPT !.widgets = [w \in WIDGET_IDS |-> IF w \in next THEN activate(@[w])
                                              ELSE deactivate(@[w], FALSE)],
            !.pressed = active_menu_ids(k.view, next)]

\* The room the address is given: the one it names, the one that is
\* remembered, or one made for the purpose.
create_towl_room_url(k) ==
  IF k.remembered # NoRoom THEN [k EXCEPT !.room = k.remembered]
  ELSE [k EXCEPT !.room = k.made + 1, !.made = @ + 1]
arriving(k) ==
  LET shown == IF k.room = NoRoom THEN create_towl_room_url(k) ELSE k
  IN IF shown.room = Malformed THEN shown ELSE [shown EXCEPT !.remembered = shown.room]

\* Mutant: leaving a room is not forgotten after the departure.
departing_leaving(k) ==
  [k EXCEPT !.remembered = IF k.forget THEN NoRoom ELSE IF k.room \in ShellRooms THEN k.room ELSE @,
            !.room = NoRoom, !.direct = FALSE]

departing(k) ==
  [k EXCEPT !.remembered = IF k.forget THEN NoRoom ELSE IF k.room \in ShellRooms THEN k.room ELSE @,
            !.forget = FALSE, !.room = NoRoom, !.direct = FALSE]

reconcileMain(k, next) ==
  LET moved == IF next = Towl THEN arriving(k) ELSE IF k.reconciled = Towl THEN departing(k) ELSE k
  IN [moved EXCEPT !.main = lifecycle_main(@, k.reconciled, next), !.reconciled = next,
                   !.flowers = @ /\ (k.reconciled # Fleurs \/ next = Fleurs),
                   !.pressed = active_menu_ids(next, k.active)]

\* What the store is set to reaches the shell at once.
set_view(k, next) == IF next = k.view THEN k ELSE reconcileMain([k EXCEPT !.view = next], next)
set_widgets(k, next) ==
  IF next = k.active THEN k
  ELSE reconcileWidgets([k EXCEPT !.active = next, !.preference = BlingWidget \in next], next)

\* The last room a player was shown and did not leave.
Visited(k) == [k EXCEPT !.visited = IF k.view = Towl /\ k.room \in ShellRooms THEN k.room ELSE @]
RoomLeft == shell.made < MaxRooms

toggle_view(view) ==
  /\ view = Towl => RoomLeft
  /\ shell' = Visited(set_view(shell, IF shell.view = view THEN NoView ELSE view))
toggle_widget(widget) ==
  shell' = set_widgets(shell, IF widget \in shell.active THEN shell.active \ {widget}
                              ELSE shell.active \union {widget})

KeyZero == shell' = set_view(shell, Hidden)
KeyEscape == shell' = set_widgets(shell, shell.active \ KeyedWidgets)

\* The TOWL panel's buttons: back, leave, and a room in place of a malformed one.
backFromTowl == shell.view = Towl /\ shell' = set_view(shell, NoView)
leaveTowl ==
  /\ shell.view = Towl /\ shell.room \in ShellRooms
  /\ shell' = set_view([shell EXCEPT !.forget = TRUE, !.visited = NoRoom], NoView)
createRoom ==
  /\ shell.view = Towl /\ shell.room = Malformed /\ RoomLeft
  /\ shell' = Visited([shell EXCEPT !.room = shell.made + 1, !.made = @ + 1])

spawn_flower == shell.view = Fleurs /\ shell' = [shell EXCEPT !.flowers = TRUE]

\* A shell is mounted on what the store and the address say.
mounted_shell(view, active, room, direct, made) ==
  LET blank == [view |-> view, active |-> active, preference |-> BlingWidget \in active,
                main |-> [v \in MAIN_VIEW_IDS |-> Unmounted],
                widgets |-> [w \in WIDGET_IDS |-> Unmounted], pressed |-> {},
                reconciled |-> NoView, flowers |-> FALSE, room |-> room, direct |-> direct,
                made |-> made, remembered |-> IF room \in ShellRooms THEN room ELSE NoRoom,
                forget |-> FALSE, visited |-> NoRoom, disposed |-> FALSE]
  IN Visited(reconcileWidgets(IF view = NoView THEN blank ELSE reconcileMain(blank, view), active))

dispose_shell ==
  shell' = [shell EXCEPT !.disposed = TRUE, !.flowers = @ /\ shell.view # Fleurs,
                         !.main = [v \in MAIN_VIEW_IDS |-> Unmounted],
                         !.widgets = [w \in WIDGET_IDS |-> Unmounted]]

\* The shell is mounted again, after what was there is disposed of.
mount_shell ==
  /\ shell.disposed /\ RoomLeft
  /\ shell' = mounted_shell(shell.view, shell.active, shell.room, shell.direct, shell.made)

classify_towl_entry_url(room, direct) == direct \/ room = Invited

ShellInit ==
  \E room \in {NoRoom, Malformed, Invited}, direct, bling \in BOOLEAN :
    shell = mounted_shell(IF classify_towl_entry_url(room, direct) THEN Towl ELSE NoView,
                          IF bling THEN {BlingWidget} ELSE {}, room, direct, 0)

ShellNext ==
  \/ /\ ~shell.disposed
     /\ \/ \E view \in MAIN_VIEW_IDS \ {Hidden} : toggle_view(view)
        \/ \E widget \in WIDGET_IDS : toggle_widget(widget)
        \/ KeyZero \/ KeyEscape \/ backFromTowl \/ leaveTowl \/ createRoom \/ spawn_flower \/ dispose_shell
  \/ mount_shell

ShellSpec == ShellInit /\ [][ShellNext]_shell

-----------------------------------------------------------------------------
ShellTypeOK ==
  /\ shell.view \in MAIN_VIEW_IDS \union {NoView} /\ shell.active \subseteq WIDGET_IDS
  /\ {shell.remembered, shell.visited} \subseteq ShellRooms \union {NoRoom}
  /\ shell.room \in ShellRooms \union {NoRoom, Malformed}

(* Whatever is selected in whatever order, the surface of the selected     *)
(* view is the only one shown, with one host however often it was come     *)
(* back to, other surfaces are hidden or gone with their hosts, and the    *)
(* menu and the stored preference say what is active.                      *)
SurfacesFollow ==
  ~shell.disposed =>
    /\ \A v \in MAIN_VIEW_IDS :
         /\ shell.main[v].state = "shown" <=> v = shell.view
         /\ shell.main[v].state = "kept" => v \in RetainedViews
         /\ shell.main[v].hosts = IF shell.main[v].state = "none" THEN 0 ELSE 1
    /\ \A w \in WIDGET_IDS :
         shell.widgets[w] = IF w \in shell.active THEN [state |-> "shown", hosts |-> 1] ELSE Unmounted
    /\ shell.pressed = active_menu_ids(shell.view, shell.active)
    /\ shell.preference = (BlingWidget \in shell.active)
    /\ shell.flowers => shell.view = Fleurs

(* Coming back to TOWL shows the room that was last shown, however the     *)
(* player went away and wherever to, unless the room was left: then it is  *)
(* one that was never shown.  Away from TOWL the address names no room.    *)
RoomKept ==
  [][/\ shell.view # Towl /\ shell'.view = Towl /\ shell.room = NoRoom /\ ~shell.disposed =>
          shell'.room = IF shell.visited # NoRoom THEN shell.visited ELSE shell.made + 1
     /\ shell'.view # Towl /\ ~shell'.disposed => shell'.room \notin ShellRooms]_shell
=============================================================================
