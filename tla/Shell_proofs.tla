------------------------------ MODULE Shell_proofs ------------------------------
(* Proofs about Shell, for any views, widgets and number of rooms.         *)
EXTENDS Shell, TLAPS

Rooms == Nat \union {NoRoom, Malformed, Invited}
Remembered == {NoRoom} \union ShellRooms
Surface == [state : {"none", "shown", "kept"}, hosts : Int]
ShellState ==
  [view : MAIN_VIEW_IDS \union {NoView}, active : SUBSET WIDGET_IDS, preference : BOOLEAN,
   main : [MAIN_VIEW_IDS -> Surface], widgets : [WIDGET_IDS -> Surface],
   pressed : SUBSET (MAIN_VIEW_IDS \union WIDGET_IDS), reconciled : MAIN_VIEW_IDS \union {NoView},
   flowers : BOOLEAN, room : Rooms, direct : BOOLEAN, made : Nat,
   remembered : Remembered, forget : BOOLEAN, visited : Remembered, disposed : BOOLEAN]

\* Surfaces of main views that follow view, and of widgets that follow active.
MainFollows(main, view) ==
  \A v \in MAIN_VIEW_IDS :
    /\ main[v].state = "shown" <=> v = view
    /\ main[v].state = "kept" => v \in RetainedViews
    /\ main[v].hosts = IF main[v].state = "none" THEN 0 ELSE 1
WidgetsFollow(widgets, active) ==
  \A w \in WIDGET_IDS :
    widgets[w] = IF w \in active THEN [state |-> "shown", hosts |-> 1] ELSE Unmounted

LEMMA RoomNames ==
  Remembered \subseteq Rooms /\ ShellRooms \subseteq Remembered /\ NoRoom \in Remembered /\ NoRoom \in Rooms
BY ShellAssumption DEF Remembered, Rooms, ShellRooms

\* Everything but the rooms; and the rooms: the one shown is visited, away
\* from it the one remembered is.
Followed(k) ==
  /\ k.reconciled = k.view
  /\ MainFollows(k.main, k.view) /\ WidgetsFollow(k.widgets, k.active)
  /\ k.pressed = active_menu_ids(k.view, k.active)
  /\ k.preference = (BlingWidget \in k.active)
  /\ k.flowers => k.view = Fleurs
Away(k) ==
  /\ k.room \in {NoRoom, Malformed} \union ShellRooms
  /\ k.view # Towl => k.room \notin ShellRooms
RoomHeld(k) ==
  /\ ~k.forget
  /\ k.view = Towl => k.room # NoRoom
  /\ k.visited \in {NoRoom} \union ShellRooms
  /\ k.visited = IF k.view = Towl /\ k.room \in ShellRooms THEN k.room ELSE k.remembered

Orderly(k) == k \in ShellState /\ Away(k) /\ (~k.disposed => Followed(k) /\ RoomHeld(k))
ShellInv == Orderly(shell)

-----------------------------------------------------------------------------
(* Surfaces.                                                               *)

\* What becomes of one surface.
LEMMA Activated ==
  ASSUME NEW f \in Surface, f.hosts = IF f.state = "none" THEN 0 ELSE 1
  PROVE  activate(f) = [state |-> "shown", hosts |-> 1]
<1>1. CASE f.state = "none" BY <1>1 DEF activate, Surface
<1>2. CASE f.state # "none"
  <2>1. activate(f) = [f EXCEPT !.state = "shown"] BY <1>2 DEF activate
  <2>2. [f EXCEPT !.state = "shown"] = [state |-> "shown", hosts |-> f.hosts] BY DEF Surface
  <2> QED BY <1>2, <2>1, <2>2
<1> QED BY <1>1, <1>2

LEMMA SurfaceLeaves ==
  ASSUME NEW f \in Surface, f.hosts = IF f.state = "none" THEN 0 ELSE 1
  PROVE  /\ f.state # "shown" => deactivate(f, TRUE) = f /\ deactivate(f, FALSE) = f
         /\ f.state = "shown" => /\ deactivate(f, TRUE) = [state |-> "kept", hosts |-> 1]
                                 /\ deactivate(f, FALSE) = Unmounted
<1>1. f.state # "shown" => deactivate(f, TRUE) = f /\ deactivate(f, FALSE) = f BY DEF deactivate
<1>2. ASSUME f.state = "shown"
      PROVE  deactivate(f, TRUE) = [state |-> "kept", hosts |-> 1] /\ deactivate(f, FALSE) = Unmounted
  <2>1. f = [state |-> "shown", hosts |-> 1] BY <1>2 DEF Surface
  <2>2. deactivate(f, TRUE) = [f EXCEPT !.state = "kept"] BY <1>2 DEF deactivate
  <2>3. deactivate(f, FALSE) = [f EXCEPT !.state = "none", !.hosts = @ - 1] BY <1>2 DEF deactivate
  <2>4. [f EXCEPT !.state = "kept"] = [state |-> "kept", hosts |-> f.hosts] BY DEF Surface
  <2>5. [f EXCEPT !.state = "none", !.hosts = @ - 1] = [state |-> "none", hosts |-> f.hosts - 1]
    <3>1. [f EXCEPT !.state = "none"] = [state |-> "none", hosts |-> f.hosts] BY DEF Surface
    <3>2. f.hosts - 1 \in Int BY DEF Surface
    <3>3. [[state |-> "none", hosts |-> f.hosts] EXCEPT !.hosts = @ - 1]
          = [state |-> "none", hosts |-> f.hosts - 1]
      BY <3>2
    <3> QED BY <3>1, <3>3
  <2>6. f.hosts = 1 /\ f.hosts - 1 = 0 BY <2>1
  <2> QED BY <2>2, <2>3, <2>4, <2>5, <2>6 DEF Unmounted
<1> QED BY <1>1, <1>2

LEMMA LifecycleMain ==
  ASSUME NEW main \in [MAIN_VIEW_IDS -> Surface], NEW before, NEW next, MainFollows(main, before)
  PROVE  /\ lifecycle_main(main, before, next) \in [MAIN_VIEW_IDS -> Surface]
         /\ MainFollows(lifecycle_main(main, before, next), next)
<1> DEFINE m == lifecycle_main(main, before, next)
<1>1. ASSUME NEW v \in MAIN_VIEW_IDS
      PROVE  /\ m[v] \in Surface
             /\ m[v].state = "shown" <=> v = next
             /\ m[v].state = "kept" => v \in RetainedViews
             /\ m[v].hosts = IF m[v].state = "none" THEN 0 ELSE 1
  <2>1. /\ main[v] \in Surface
        /\ main[v].state = "shown" <=> v = before
        /\ main[v].state = "kept" => v \in RetainedViews
        /\ main[v].hosts = IF main[v].state = "none" THEN 0 ELSE 1
    BY <1>1 DEF MainFollows
  <2>2. CASE v = next
    <3>1. m[v] = activate(main[v]) BY <1>1, <2>2 DEF lifecycle_main
    <3>2. m[v] = [state |-> "shown", hosts |-> 1] BY <2>1, <3>1, Activated
    <3> QED BY <2>2, <3>2 DEF Surface
  <2>3. CASE v # next /\ v = before
    <3>1. m[v] = deactivate(main[v], v \in RetainedViews) BY <1>1, <2>3 DEF lifecycle_main
    <3>2. CASE v \in RetainedViews
      <4>1. m[v] = [state |-> "kept", hosts |-> 1] BY <2>1, <2>3, <3>1, <3>2, SurfaceLeaves
      <4> QED BY <2>3, <3>2, <4>1 DEF Surface
    <3>3. CASE v \notin RetainedViews
      <4>1. m[v] = deactivate(main[v], FALSE) BY <3>1, <3>3 DEF deactivate
      <4>2. m[v] = Unmounted BY <2>1, <2>3, <4>1, SurfaceLeaves
      <4> QED BY <2>3, <4>2 DEF Surface, Unmounted
    <3> QED BY <3>2, <3>3
  <2>4. CASE v # next /\ v # before
    <3>1. m[v] = main[v] BY <1>1, <2>4 DEF lifecycle_main
    <3> QED BY <2>1, <2>4, <3>1
  <2> QED BY <2>2, <2>3, <2>4
<1>2. m \in [MAIN_VIEW_IDS -> Surface] BY <1>1 DEF lifecycle_main
<1> QED BY <1>1, <1>2 DEF MainFollows

\* reconcileWidgets touches the widgets and the menu.
LEMMA ReconcileWidgets ==
  ASSUME NEW k \in ShellState, NEW before, NEW next \in SUBSET WIDGET_IDS,
         WidgetsFollow(k.widgets, before)
  PROVE  LET r == reconcileWidgets(k, next)
         IN /\ r \in ShellState /\ WidgetsFollow(r.widgets, next)
            /\ r.pressed = active_menu_ids(k.view, next)
            /\ r.view = k.view /\ r.active = k.active /\ r.preference = k.preference
            /\ r.main = k.main /\ r.reconciled = k.reconciled /\ r.flowers = k.flowers
            /\ r.room = k.room /\ r.made = k.made /\ r.remembered = k.remembered
            /\ r.forget = k.forget /\ r.visited = k.visited /\ r.disposed = k.disposed
<1> DEFINE r == reconcileWidgets(k, next)
           ws == [w \in WIDGET_IDS |-> IF w \in next THEN activate(k.widgets[w])
                                       ELSE deactivate(k.widgets[w], FALSE)]
<1>1. ASSUME NEW w \in WIDGET_IDS
      PROVE  ws[w] = IF w \in next THEN [state |-> "shown", hosts |-> 1] ELSE Unmounted
  <2>1. k.widgets[w] = IF w \in before THEN [state |-> "shown", hosts |-> 1] ELSE Unmounted
    BY DEF WidgetsFollow
  <2>2. /\ k.widgets[w] \in Surface
        /\ k.widgets[w].hosts = IF k.widgets[w].state = "none" THEN 0 ELSE 1
        /\ k.widgets[w].state # "shown" => k.widgets[w] = Unmounted
    BY <2>1 DEF Surface, Unmounted
  <2>3. CASE w \in next
    <3>1. ws[w] = activate(k.widgets[w]) BY <2>3
    <3> QED BY <2>2, <2>3, <3>1, Activated
  <2>4. CASE w \notin next
    <3>1. ws[w] = deactivate(k.widgets[w], FALSE) BY <2>4
    <3> QED BY <2>2, <2>4, <3>1, SurfaceLeaves
  <2> QED BY <2>3, <2>4
<1>2. ws \in [WIDGET_IDS -> Surface]
  <2>1. [state |-> "shown", hosts |-> 1] \in Surface /\ Unmounted \in Surface BY DEF Surface, Unmounted
  <2>2. \A w \in WIDGET_IDS : ws[w] \in Surface
    <3> HIDE DEF ws
    <3> QED BY <1>1, <2>1
  <2> QED BY <2>2
<1>3. active_menu_ids(k.view, next) \in SUBSET (MAIN_VIEW_IDS \union WIDGET_IDS)
  BY DEF active_menu_ids, ShellState
<1>4. r = [k EXCEPT !.widgets = ws, !.pressed = active_menu_ids(k.view, next)]
  BY DEF reconcileWidgets
<1>5. WidgetsFollow(ws, next) BY <1>1 DEF WidgetsFollow
<1> HIDE DEF ws
<1> QED BY <1>2, <1>3, <1>4, <1>5 DEF ShellState

-----------------------------------------------------------------------------
(* Rooms.                                                                  *)

\* What arriving and departing leave alone.
Else(r, k) ==
  /\ r.view = k.view /\ r.active = k.active /\ r.preference = k.preference
  /\ r.main = k.main /\ r.widgets = k.widgets /\ r.pressed = k.pressed
  /\ r.reconciled = k.reconciled /\ r.flowers = k.flowers /\ r.visited = k.visited
  /\ r.disposed = k.disposed

LEMMA Arriving ==
  ASSUME NEW k \in ShellState,
         k.room \in {NoRoom, Malformed} \union ShellRooms,
         k.remembered \in {NoRoom} \union ShellRooms,
         k.room = NoRoom /\ k.remembered = NoRoom => k.made < MaxRooms
  PROVE  LET r == arriving(k)
         IN /\ r \in ShellState /\ Else(r, k) /\ r.forget = k.forget
            /\ r.room \in {Malformed} \union ShellRooms
            /\ k.room # NoRoom => r.room = k.room
            /\ k.room = NoRoom => r.room = IF k.remembered # NoRoom THEN k.remembered ELSE k.made + 1
            /\ r.remembered = IF r.room \in ShellRooms THEN r.room ELSE k.remembered
<1> DEFINE c == IF k.room = NoRoom THEN create_towl_room_url(k) ELSE k
<1>1. /\ c \in ShellState /\ Else(c, k) /\ c.forget = k.forget
      /\ c.remembered = k.remembered
      /\ c.room = IF k.room # NoRoom THEN k.room
                  ELSE IF k.remembered # NoRoom THEN k.remembered ELSE k.made + 1
  <2>1. CASE k.room # NoRoom BY <2>1 DEF Else
  <2>2. CASE k.room = NoRoom /\ k.remembered # NoRoom
    <3>1. c = [k EXCEPT !.room = k.remembered] BY <2>2 DEF create_towl_room_url
    <3>2. k.remembered \in Rooms BY RoomNames DEF ShellState
    <3> HIDE DEF c
    <3> QED BY <2>2, <3>1, <3>2 DEF Else, ShellState
  <2>3. CASE k.room = NoRoom /\ k.remembered = NoRoom
    <3>1. c = [k EXCEPT !.room = k.made + 1, !.made = @ + 1] BY <2>3 DEF create_towl_room_url
    <3>2. k.made + 1 \in Rooms /\ k.made + 1 \in Nat BY DEF ShellState, Rooms
    <3> HIDE DEF c
    <3> QED BY <2>3, <3>1, <3>2 DEF Else, ShellState
  <2> QED BY <2>1, <2>2, <2>3
<1>2. c.room \in {Malformed} \union ShellRooms
  BY <1>1, ShellAssumption DEF ShellRooms, ShellState
<1>3. Malformed \notin ShellRooms /\ NoRoom \notin ShellRooms
  BY ShellAssumption DEF ShellRooms
<1>4. arriving(k) = IF c.room = Malformed THEN c ELSE [c EXCEPT !.remembered = c.room]
  BY DEF arriving
<1> HIDE DEF c
<1>5. CASE c.room = Malformed BY <1>1, <1>2, <1>3, <1>4, <1>5 DEF Else
<1>6. CASE c.room # Malformed
  <2>1. arriving(k) = [c EXCEPT !.remembered = c.room] BY <1>4, <1>6
  <2>2. c.room \in Remembered BY <1>2, <1>6, RoomNames
  <2> QED BY <1>1, <1>2, <1>3, <1>6, <2>1, <2>2 DEF Else, ShellState
<1> QED BY <1>5, <1>6

LEMMA Departs ==
  ASSUME NEW k \in ShellState
  PROVE  LET r == departing(k)
         IN /\ r \in ShellState /\ Else(r, k) /\ ~r.forget /\ r.room = NoRoom
            /\ r.remembered = IF k.forget THEN NoRoom
                              ELSE IF k.room \in ShellRooms THEN k.room ELSE k.remembered
<1> DEFINE left == IF k.forget THEN NoRoom ELSE IF k.room \in ShellRooms THEN k.room ELSE k.remembered
           r == departing(k)
<1>1. left \in Remembered /\ NoRoom \in Rooms BY RoomNames DEF ShellState
<1>2. r = [k EXCEPT !.remembered = left, !.forget = FALSE, !.room = NoRoom, !.direct = FALSE]
  BY DEF departing, ShellState
<1> HIDE DEF left, r
<1>3. r \in ShellState /\ Else(r, k) /\ ~r.forget /\ r.room = NoRoom /\ r.remembered = left
  BY <1>1, <1>2 DEF ShellState, Else
<1> QED BY <1>3 DEF left, r

-----------------------------------------------------------------------------
(* The store's watchers, and what the shell is told.                       *)

\* The rooms of r are those of k as a move to a view leaves them.
Moved(r, k, next) ==
  IF next = Towl
  THEN /\ r.room \in {Malformed} \union ShellRooms
       /\ k.room # NoRoom => r.room = k.room
       /\ k.room = NoRoom => r.room = IF k.remembered # NoRoom THEN k.remembered ELSE k.made + 1
       /\ r.remembered = IF r.room \in ShellRooms THEN r.room ELSE k.remembered
       /\ r.forget = k.forget
  ELSE IF k.reconciled = Towl
  THEN /\ r.room = NoRoom /\ ~r.forget
       /\ r.remembered = IF k.forget THEN NoRoom
                         ELSE IF k.room \in ShellRooms THEN k.room ELSE k.remembered
  ELSE r.room = k.room /\ r.remembered = k.remembered /\ r.forget = k.forget

LEMMA ReconcileMain ==
  ASSUME NEW k \in ShellState, NEW next \in MAIN_VIEW_IDS \union {NoView},
         MainFollows(k.main, k.reconciled),
         k.flowers => k.reconciled = Fleurs,
         k.room \in {NoRoom, Malformed} \union ShellRooms,
         next = Towl => /\ k.remembered \in {NoRoom} \union ShellRooms
                        /\ k.room = NoRoom /\ k.remembered = NoRoom => k.made < MaxRooms
  PROVE  LET r == reconcileMain(k, next)
         IN /\ r \in ShellState /\ Moved(r, k, next)
            /\ MainFollows(r.main, next) /\ r.reconciled = next
            /\ r.pressed = active_menu_ids(next, k.active)
            /\ r.flowers => next = Fleurs
            /\ r.view = k.view /\ r.active = k.active /\ r.preference = k.preference
            /\ r.widgets = k.widgets /\ r.visited = k.visited /\ r.disposed = k.disposed
<1> DEFINE moved == IF next = Towl THEN arriving(k) ELSE IF k.reconciled = Towl THEN departing(k) ELSE k
           lit == moved.flowers /\ (k.reconciled # Fleurs \/ next = Fleurs)
           menu == active_menu_ids(next, k.active)
           main == lifecycle_main(moved.main, k.reconciled, next)
<1>1. moved \in ShellState /\ Else(moved, k) /\ Moved(moved, k, next)
  <2>1. CASE next = Towl BY <2>1, Arriving DEF Moved
  <2>2. CASE next # Towl /\ k.reconciled = Towl BY <2>2, Departs DEF Moved
  <2>3. CASE next # Towl /\ k.reconciled # Towl BY <2>3 DEF Moved, Else
  <2> QED BY <2>1, <2>2, <2>3
<1>2. reconcileMain(k, next)
      = [moved EXCEPT !.main = lifecycle_main(@, k.reconciled, next), !.reconciled = next,
                      !.flowers = @ /\ (k.reconciled # Fleurs \/ next = Fleurs),
                      !.pressed = active_menu_ids(next, k.active)]
  BY DEF reconcileMain
<1>4. main \in [MAIN_VIEW_IDS -> Surface] /\ MainFollows(main, next)
  <2>1. moved.main \in [MAIN_VIEW_IDS -> Surface] /\ MainFollows(moved.main, k.reconciled)
    BY <1>1 DEF Else, ShellState
  <2> QED BY <2>1, LifecycleMain
<1>5. menu \in SUBSET (MAIN_VIEW_IDS \union WIDGET_IDS) BY DEF active_menu_ids, ShellState
<1>6. lit \in BOOLEAN /\ (lit => next = Fleurs) BY <1>1 DEF Else
<1> HIDE DEF moved
<1>7. reconcileMain(k, next) = [moved EXCEPT !.main = main, !.reconciled = next, !.flowers = lit,
                                             !.pressed = menu]
  BY <1>1, <1>2 DEF ShellState
<1> HIDE DEF lit, menu, main
<1>8. /\ reconcileMain(k, next) \in ShellState
      /\ reconcileMain(k, next).room = moved.room
      /\ reconcileMain(k, next).remembered = moved.remembered
      /\ reconcileMain(k, next).forget = moved.forget
      /\ reconcileMain(k, next).visited = moved.visited
      /\ reconcileMain(k, next).disposed = moved.disposed
      /\ reconcileMain(k, next).view = moved.view
      /\ reconcileMain(k, next).active = moved.active
      /\ reconcileMain(k, next).preference = moved.preference
      /\ reconcileMain(k, next).widgets = moved.widgets
      /\ reconcileMain(k, next).main = main
      /\ reconcileMain(k, next).reconciled = next
      /\ reconcileMain(k, next).flowers = lit
      /\ reconcileMain(k, next).pressed = menu
  BY <1>1, <1>4, <1>5, <1>6, <1>7 DEF ShellState
<1>9. Moved(reconcileMain(k, next), k, next) BY <1>1, <1>8 DEF Moved
<1>10. MainFollows(reconcileMain(k, next).main, next) BY <1>4, <1>8
<1> QED BY <1>1, <1>6, <1>8, <1>9, <1>10 DEF Else, menu

\* The step of a change of view, before the visited room is recorded.
LEMMA SetView ==
  ASSUME NEW k \in ShellState, NEW next \in MAIN_VIEW_IDS \union {NoView}, next # k.view,
         Followed(k), Away(k),
         next = Towl => k.remembered \in {NoRoom} \union ShellRooms /\ k.made < MaxRooms
  PROVE  LET r == set_view(k, next)
         IN /\ r \in ShellState /\ Followed(r) /\ Moved(r, k, next)
            /\ r.view = next /\ r.visited = k.visited /\ r.disposed = k.disposed
<1> DEFINE l == [k EXCEPT !.view = next]
<1>1. set_view(k, next) = reconcileMain(l, next) BY DEF set_view
<1>2. /\ l \in ShellState /\ l.view = next /\ l.active = k.active /\ l.preference = k.preference
      /\ l.main = k.main /\ l.widgets = k.widgets /\ l.reconciled = k.reconciled
      /\ l.flowers = k.flowers /\ l.room = k.room /\ l.made = k.made /\ l.remembered = k.remembered
      /\ l.forget = k.forget /\ l.visited = k.visited /\ l.disposed = k.disposed
  BY DEF ShellState
<1> HIDE DEF l
<1> DEFINE r == reconcileMain(l, next)
<1>3. MainFollows(l.main, l.reconciled) /\ (l.flowers => l.reconciled = Fleurs)
  BY <1>2 DEF Followed
<1>4. l.room \in {NoRoom, Malformed} \union ShellRooms BY <1>2 DEF Away
<1>5. /\ r \in ShellState /\ Moved(r, l, next)
      /\ MainFollows(r.main, next) /\ r.reconciled = next
      /\ r.pressed = active_menu_ids(next, l.active)
      /\ r.flowers => next = Fleurs
      /\ r.view = l.view /\ r.active = l.active /\ r.preference = l.preference
      /\ r.widgets = l.widgets /\ r.visited = l.visited /\ r.disposed = l.disposed
  BY <1>2, <1>3, <1>4, ReconcileMain
<1> HIDE DEF r
<1>6. Moved(r, k, next) BY <1>2, <1>5 DEF Moved
<1>7. Followed(r) BY <1>2, <1>5 DEF Followed
<1> QED BY <1>1, <1>2, <1>5, <1>6, <1>7 DEF r

LEMMA Visiting ==
  ASSUME NEW k \in ShellState, Followed(k), Away(k), ~k.forget,
         k.view = Towl => k.room # NoRoom,
         k.visited \in {NoRoom} \union ShellRooms,
         (k.view = Towl /\ k.room \in ShellRooms) \/ k.visited = k.remembered
  PROVE  /\ Orderly(Visited(k)) /\ Visited(k).view = k.view /\ Visited(k).room = k.room
         /\ Visited(k).disposed = k.disposed
<1> DEFINE visited == IF k.view = Towl /\ k.room \in ShellRooms THEN k.room ELSE k.visited
           r == Visited(k)
<1>1. visited \in Remembered BY RoomNames DEF ShellState
<1>2. r = [k EXCEPT !.visited = visited] BY DEF Visited, ShellState
<1>3. /\ r \in ShellState /\ r.visited = visited /\ r.view = k.view /\ r.active = k.active
      /\ r.preference = k.preference /\ r.main = k.main /\ r.widgets = k.widgets
      /\ r.pressed = k.pressed /\ r.reconciled = k.reconciled /\ r.flowers = k.flowers
      /\ r.room = k.room /\ r.remembered = k.remembered /\ r.forget = k.forget
      /\ r.disposed = k.disposed
  <2> HIDE DEF visited, r
  <2> QED BY <1>1, <1>2 DEF ShellState
<1> HIDE DEF r
<1>4. Followed(r) BY <1>3 DEF Followed
<1>5. Away(r) BY <1>3 DEF Away
<1>6. RoomHeld(r) BY <1>3 DEF RoomHeld
<1> QED BY <1>3, <1>4, <1>5, <1>6 DEF Orderly, r

\* A steady shell that is not disposed of changes its view.
LEMMA ChangeView ==
  ASSUME NEW k, Orderly(k), ~k.disposed, NEW next \in MAIN_VIEW_IDS \union {NoView},
         next = Towl => k.made < MaxRooms
  PROVE  LET r == set_view(k, next)
         IN /\ Orderly(Visited(r))
            /\ next # Towl => Orderly(r)
            /\ r.view = next /\ ~r.disposed /\ Visited(r).view = next
            /\ Visited(r).room = r.room
            /\ k.view # Towl /\ next = Towl /\ k.room = NoRoom =>
                 r.room = IF k.visited # NoRoom THEN k.visited ELSE k.made + 1
<1> DEFINE r == set_view(k, next)
<1>1. /\ k \in ShellState /\ Away(k) /\ Followed(k) /\ RoomHeld(k) BY DEF Orderly
<1>2. NoRoom \notin ShellRooms /\ Malformed \notin ShellRooms BY ShellAssumption DEF ShellRooms
<1>3. CASE next = k.view
  <2>1. r = k BY <1>3 DEF set_view
  <2>2. /\ k.visited \in {NoRoom} \union ShellRooms /\ ~k.forget
        /\ k.view = Towl => k.room # NoRoom
        /\ (k.view = Towl /\ k.room \in ShellRooms) \/ k.visited = k.remembered
    BY <1>1 DEF RoomHeld
  <2>3. Orderly(Visited(k)) /\ Visited(k).view = k.view /\ Visited(k).room = k.room
    BY <1>1, <2>2, Visiting
  <2> QED BY <1>3, <2>1, <2>3
<1>4. CASE next # k.view
  <2>1. k.view # Towl => k.remembered = k.visited /\ k.remembered \in {NoRoom} \union ShellRooms
    BY <1>1 DEF RoomHeld
  <2>2. next = Towl => k.remembered \in {NoRoom} \union ShellRooms /\ k.made < MaxRooms
    BY <1>4, <2>1
  <2>3. /\ r \in ShellState /\ Followed(r) /\ Moved(r, k, next)
        /\ r.view = next /\ r.visited = k.visited /\ r.disposed = k.disposed
    BY <1>1, <1>4, <2>2, SetView
  <2>4. k.reconciled = k.view BY <1>1 DEF Followed
  <2> HIDE DEF r
  <2>5. /\ Away(r) /\ ~r.forget
        /\ r.view = Towl => r.room # NoRoom
        /\ r.visited \in {NoRoom} \union ShellRooms
        /\ (r.view = Towl /\ r.room \in ShellRooms) \/ r.visited = r.remembered
    <3>1. CASE next = Towl
      <4>1. k.view # Towl /\ k.remembered = k.visited /\ ~k.forget /\ r.view = Towl
        BY <1>1, <1>4, <2>1, <2>3, <3>1 DEF RoomHeld
      <4>2. /\ r.room \in {Malformed} \union ShellRooms /\ ~r.forget
            /\ r.remembered = IF r.room \in ShellRooms THEN r.room ELSE k.remembered
        BY <2>3, <3>1, <4>1 DEF Moved
      <4>3. k.visited \in {NoRoom} \union ShellRooms BY <1>1 DEF RoomHeld
      <4>4. Away(r) BY <4>1, <4>2 DEF Away
      <4>5. r.room # NoRoom BY <1>2, <4>2, ShellAssumption
      <4>6. r.visited = k.visited BY <2>3
      <4>7. r.room \notin ShellRooms => r.visited = r.remembered BY <4>1, <4>2, <4>6
      <4> QED BY <4>1, <4>2, <4>3, <4>4, <4>5, <4>6, <4>7
    <3>2. CASE next # Towl /\ k.view = Towl
      BY <1>1, <1>2, <2>3, <2>4, <3>2 DEF Moved, Away, RoomHeld
    <3>3. CASE next # Towl /\ k.view # Towl
      BY <1>1, <1>2, <2>1, <2>3, <2>4, <3>3 DEF Moved, Away, RoomHeld
    <3> QED BY <3>1, <3>2, <3>3
  <2>6. /\ Orderly(Visited(r)) /\ Visited(r).view = r.view /\ Visited(r).room = r.room
    BY <2>3, <2>5, Visiting
  <2>7. next # Towl => Orderly(r) BY <2>3, <2>5 DEF Orderly, RoomHeld
  <2>8. k.view # Towl /\ next = Towl /\ k.room = NoRoom =>
          r.room = IF k.visited # NoRoom THEN k.visited ELSE k.made + 1
    BY <2>1, <2>3 DEF Moved
  <2> QED BY <2>3, <2>6, <2>7, <2>8 DEF r
<1> QED BY <1>3, <1>4

\* A steady shell that is not disposed of changes its widgets.
LEMMA SetWidgets ==
  ASSUME NEW k, Orderly(k), ~k.disposed, NEW next \in SUBSET WIDGET_IDS
  PROVE  LET r == set_widgets(k, next)
         IN Orderly(r) /\ r.view = k.view /\ r.room = k.room /\ ~r.disposed
<1> DEFINE l == [k EXCEPT !.active = next, !.preference = BlingWidget \in next]
           r == reconcileWidgets(l, next)
<1>1. CASE next = k.active BY <1>1 DEF set_widgets
<1>2. CASE next # k.active
  <2>1. set_widgets(k, next) = r BY <1>2 DEF set_widgets
  <2>2. k \in ShellState /\ Away(k) /\ Followed(k) /\ RoomHeld(k) BY DEF Orderly
  <2>3. /\ l \in ShellState /\ l.view = k.view /\ l.active = next
        /\ l.preference = (BlingWidget \in next) /\ l.main = k.main /\ l.widgets = k.widgets
        /\ l.reconciled = k.reconciled /\ l.flowers = k.flowers /\ l.room = k.room
        /\ l.remembered = k.remembered /\ l.forget = k.forget /\ l.visited = k.visited
        /\ l.disposed = k.disposed
    <3> DEFINE bling == BlingWidget \in next
    <3>1. bling \in BOOLEAN OBVIOUS
    <3>2. l = [k EXCEPT !.active = next, !.preference = bling] OBVIOUS
    <3>3. next \in SUBSET WIDGET_IDS OBVIOUS
    <3> HIDE DEF bling, l
    <3>4. /\ l \in ShellState /\ l.view = k.view /\ l.active = next
          /\ l.preference = bling /\ l.main = k.main /\ l.widgets = k.widgets
          /\ l.reconciled = k.reconciled /\ l.flowers = k.flowers /\ l.room = k.room
          /\ l.remembered = k.remembered /\ l.forget = k.forget /\ l.visited = k.visited
          /\ l.disposed = k.disposed
      BY <2>2, <3>1, <3>2, <3>3 DEF ShellState
    <3> QED BY <3>4 DEF bling
  <2> HIDE DEF l
  <2>4. WidgetsFollow(l.widgets, k.active) BY <2>2, <2>3 DEF Followed
  <2>5. /\ r \in ShellState /\ WidgetsFollow(r.widgets, next)
        /\ r.pressed = active_menu_ids(l.view, next)
        /\ r.view = l.view /\ r.active = l.active /\ r.preference = l.preference
        /\ r.main = l.main /\ r.reconciled = l.reconciled /\ r.flowers = l.flowers
        /\ r.room = l.room /\ r.remembered = l.remembered
        /\ r.forget = l.forget /\ r.visited = l.visited /\ r.disposed = l.disposed
    BY <2>3, <2>4, ReconcileWidgets
  <2> HIDE DEF r
  <2>6. Followed(r) BY <2>2, <2>3, <2>5 DEF Followed
  <2>7. Away(r) BY <2>2, <2>3, <2>5 DEF Away
  <2>8. RoomHeld(r) BY <2>2, <2>3, <2>5 DEF RoomHeld
  <2> QED BY <2>1, <2>3, <2>5, <2>6, <2>7, <2>8 DEF Orderly
<1> QED BY <1>1, <1>2

\* Mounting, on whatever the store and the address say.
LEMMA MountedShell ==
  ASSUME NEW view \in MAIN_VIEW_IDS \union {NoView}, NEW active \in SUBSET WIDGET_IDS,
         NEW room \in {NoRoom, Malformed} \union ShellRooms, NEW direct \in BOOLEAN, NEW made \in Nat,
         view # Towl => room \notin ShellRooms,
         view = Towl => made < MaxRooms
  PROVE  Orderly(mounted_shell(view, active, room, direct, made))
<1> DEFINE remembered == IF room \in ShellRooms THEN room ELSE NoRoom
           blank == [view |-> view, active |-> active, preference |-> BlingWidget \in active,
                main |-> [v \in MAIN_VIEW_IDS |-> Unmounted],
                widgets |-> [w \in WIDGET_IDS |-> Unmounted], pressed |-> {},
                reconciled |-> NoView, flowers |-> FALSE, room |-> room, direct |-> direct,
                made |-> made, remembered |-> IF room \in ShellRooms THEN room ELSE NoRoom,
                forget |-> FALSE, visited |-> NoRoom, disposed |-> FALSE]
           k == IF view = NoView THEN blank ELSE reconcileMain(blank, view)
           r == reconcileWidgets(k, active)
<1>1. mounted_shell(view, active, room, direct, made) = Visited(r) BY DEF mounted_shell
<1>2. NoRoom \notin ShellRooms /\ Malformed \notin ShellRooms /\ NoView \notin MAIN_VIEW_IDS
  BY ShellAssumption DEF ShellRooms, MAIN_VIEW_IDS
<1>3. /\ blank.view = view /\ blank.active = active /\ blank.preference = (BlingWidget \in active)
      /\ blank.main = [v \in MAIN_VIEW_IDS |-> Unmounted]
      /\ blank.widgets = [w \in WIDGET_IDS |-> Unmounted]
      /\ blank.reconciled = NoView /\ ~blank.flowers /\ blank.room = room /\ blank.made = made
      /\ blank.remembered = remembered /\ ~blank.forget /\ blank.visited = NoRoom /\ ~blank.disposed
  OBVIOUS
<1>4. blank \in ShellState
  <2>1. Unmounted \in Surface BY DEF Unmounted, Surface
  <2>2. [v \in MAIN_VIEW_IDS |-> Unmounted] \in [MAIN_VIEW_IDS -> Surface] BY <2>1
  <2>3. [w \in WIDGET_IDS |-> Unmounted] \in [WIDGET_IDS -> Surface] BY <2>1
  <2>4. remembered \in Remembered /\ NoRoom \in Remembered BY RoomNames
  <2>5. room \in Rooms BY RoomNames DEF Rooms
  <2> QED BY <2>2, <2>3, <2>4, <2>5 DEF ShellState
<1>5. MainFollows(blank.main, NoView) BY <1>2, <1>3 DEF MainFollows, Unmounted
<1>6. WidgetsFollow(blank.widgets, {}) BY <1>3 DEF WidgetsFollow
<1> HIDE DEF blank
<1>7. /\ k \in ShellState /\ MainFollows(k.main, view) /\ k.reconciled = view
      /\ k.flowers => view = Fleurs
      /\ k.view = view /\ k.active = active /\ k.preference = (BlingWidget \in active)
      /\ k.widgets = blank.widgets /\ k.visited = NoRoom /\ ~k.disposed /\ ~k.forget
      /\ k.room \in {NoRoom, Malformed} \union ShellRooms
      /\ view # Towl => k.room \notin ShellRooms
      /\ view = Towl => k.room # NoRoom
      /\ (view = Towl /\ k.room \in ShellRooms) \/ k.remembered = NoRoom
  <2>1. CASE view = NoView
    <3>1. view # Towl BY <1>2, <2>1 DEF MAIN_VIEW_IDS
    <3> QED BY <1>3, <1>4, <1>5, <2>1, <3>1
  <2>2. CASE view # NoView
    <3>1. k = reconcileMain(blank, view) BY <2>2
    <3> HIDE DEF k
    <3>2. view = Towl => /\ blank.remembered \in {NoRoom} \union ShellRooms
                         /\ blank.made < MaxRooms
      BY <1>3
    <3>3. /\ k \in ShellState /\ Moved(k, blank, view)
          /\ MainFollows(k.main, view) /\ k.reconciled = view
          /\ k.flowers => view = Fleurs
          /\ k.view = blank.view /\ k.active = blank.active /\ k.preference = blank.preference
          /\ k.widgets = blank.widgets /\ k.visited = blank.visited /\ k.disposed = blank.disposed
      BY <1>3, <1>4, <1>5, <3>1, <3>2, ReconcileMain
    <3>4. NoView # Towl BY <1>2 DEF MAIN_VIEW_IDS
    <3>5. CASE view = Towl
      <4>1. /\ k.room \in {Malformed} \union ShellRooms /\ ~k.forget
            /\ k.remembered = IF k.room \in ShellRooms THEN k.room ELSE blank.remembered
            /\ room # NoRoom => k.room = room
        BY <1>3, <3>3, <3>5 DEF Moved
      <4>2. k.room # NoRoom BY <1>2, <4>1, ShellAssumption
      <4>3. k.room \notin ShellRooms => k.remembered = NoRoom
        <5> SUFFICES ASSUME k.room \notin ShellRooms, room \in ShellRooms PROVE FALSE
          BY <1>3, <4>1
        <5>1. room # NoRoom BY <1>2
        <5> QED BY <4>1, <5>1
      <4> QED BY <1>3, <3>3, <3>5, <4>1, <4>2, <4>3
    <3>6. CASE view # Towl BY <1>2, <1>3, <3>3, <3>4, <3>6 DEF Moved
    <3> QED BY <3>5, <3>6
  <2> QED BY <2>1, <2>2
<1> HIDE DEF k
<1>8. /\ r \in ShellState /\ WidgetsFollow(r.widgets, active)
      /\ r.pressed = active_menu_ids(k.view, active)
      /\ r.view = k.view /\ r.active = k.active /\ r.preference = k.preference
      /\ r.main = k.main /\ r.reconciled = k.reconciled /\ r.flowers = k.flowers
      /\ r.room = k.room /\ r.made = k.made /\ r.remembered = k.remembered
      /\ r.forget = k.forget /\ r.visited = k.visited /\ r.disposed = k.disposed
  BY <1>6, <1>7, ReconcileWidgets
<1> HIDE DEF r
<1>9. Followed(r) BY <1>7, <1>8 DEF Followed
<1>10. Away(r) BY <1>7, <1>8 DEF Away
<1>11. Orderly(Visited(r)) BY <1>7, <1>8, <1>9, <1>10, Visiting
<1> QED BY <1>1, <1>11

-----------------------------------------------------------------------------
(* The steps.                                                              *)

\* What one step may do to the room, RoomKept's formula.
KeptStep ==
  /\ shell.view # Towl /\ shell'.view = Towl /\ shell.room = NoRoom /\ ~shell.disposed =>
       shell'.room = IF shell.visited # NoRoom THEN shell.visited ELSE shell.made + 1
  /\ shell'.view # Towl /\ ~shell'.disposed => shell'.room \notin ShellRooms

LEMMA ViewNames ==
  NoView \notin MAIN_VIEW_IDS /\ Towl \in MAIN_VIEW_IDS /\ Hidden \in MAIN_VIEW_IDS
    /\ Fleurs \in MAIN_VIEW_IDS /\ Hidden # Towl /\ NoView # Towl
BY ShellAssumption DEF MAIN_VIEW_IDS

\* An action that shows TOWL no more than it was shown.
LEMMA NotArriving ==
  ASSUME Orderly(shell'), shell'.view = shell.view \/ shell'.view # Towl \/ shell.disposed
  PROVE  KeptStep
BY DEF KeptStep, Orderly, Away

LEMMA ViewSteps ==
  ASSUME ShellInv, ~shell.disposed,
         (\E view \in MAIN_VIEW_IDS \ {Hidden} : toggle_view(view)) \/ KeyZero \/ backFromTowl
  PROVE  ShellInv' /\ KeptStep
<1>1. Orderly(shell) BY DEF ShellInv
<1>2. ASSUME NEW view \in MAIN_VIEW_IDS \ {Hidden}, toggle_view(view) PROVE ShellInv' /\ KeptStep
  <2> DEFINE next == IF shell.view = view THEN NoView ELSE view
             r == set_view(shell, next)
  <2>1. next \in MAIN_VIEW_IDS \union {NoView} /\ (next = Towl => shell.made < MaxRooms)
    BY <1>2, ViewNames DEF toggle_view, RoomLeft
  <2>2. shell' = Visited(r) BY <1>2 DEF toggle_view
  <2> HIDE DEF next
  <2>3. /\ Orderly(Visited(r)) /\ Visited(r).view = next /\ Visited(r).room = r.room
        /\ shell.view # Towl /\ next = Towl /\ shell.room = NoRoom =>
             r.room = IF shell.visited # NoRoom THEN shell.visited ELSE shell.made + 1
    BY <1>1, <2>1, ChangeView
  <2> HIDE DEF r
  <2>4. KeptStep BY <2>2, <2>3 DEF KeptStep, Orderly, Away
  <2> QED BY <2>2, <2>3, <2>4 DEF ShellInv
<1>3. ASSUME KeyZero \/ backFromTowl PROVE ShellInv' /\ KeptStep
  <2>1. PICK next \in {Hidden, NoView} : shell' = set_view(shell, next)
    BY <1>3 DEF KeyZero, backFromTowl
  <2>2. next \in MAIN_VIEW_IDS \union {NoView} /\ next # Towl BY ViewNames
  <2>3. Orderly(shell') /\ shell'.view = next BY <1>1, <2>1, <2>2, ChangeView
  <2> QED BY <2>2, <2>3, NotArriving DEF ShellInv
<1> QED BY <1>2, <1>3

LEMMA WidgetSteps ==
  ASSUME ShellInv, ~shell.disposed, (\E widget \in WIDGET_IDS : toggle_widget(widget)) \/ KeyEscape
  PROVE  ShellInv' /\ KeptStep
<1>1. Orderly(shell) /\ shell.active \subseteq WIDGET_IDS BY DEF ShellInv, Orderly, ShellState
<1>2. PICK next \in SUBSET WIDGET_IDS : shell' = set_widgets(shell, next)
  <2>1. ASSUME NEW widget \in WIDGET_IDS, toggle_widget(widget)
        PROVE  \E next \in SUBSET WIDGET_IDS : shell' = set_widgets(shell, next)
    <3>1. CASE widget \in shell.active
      <4>1. shell' = set_widgets(shell, shell.active \ {widget}) BY <2>1, <3>1 DEF toggle_widget
      <4>2. shell.active \ {widget} \in SUBSET WIDGET_IDS BY <1>1
      <4> QED BY <4>1, <4>2
    <3>2. CASE widget \notin shell.active
      <4>1. shell' = set_widgets(shell, shell.active \union {widget}) BY <2>1, <3>2 DEF toggle_widget
      <4>2. shell.active \union {widget} \in SUBSET WIDGET_IDS BY <1>1
      <4> QED BY <4>1, <4>2
    <3> QED BY <3>1, <3>2
  <2>2. ASSUME KeyEscape PROVE \E next \in SUBSET WIDGET_IDS : shell' = set_widgets(shell, next)
    <3>1. shell' = set_widgets(shell, shell.active \ KeyedWidgets) BY <2>2 DEF KeyEscape
    <3>2. shell.active \ KeyedWidgets \in SUBSET WIDGET_IDS BY <1>1
    <3> QED BY <3>1, <3>2
  <2> QED BY <2>1, <2>2
<1>3. Orderly(shell') /\ shell'.view = shell.view BY <1>1, <1>2, SetWidgets
<1> QED BY <1>3, NotArriving DEF ShellInv

\* Leaving a room: it is not remembered.
LEMMA LeaveStep ==
  ASSUME ShellInv, ~shell.disposed, leaveTowl
  PROVE  ShellInv' /\ KeptStep
<1> DEFINE k == [shell EXCEPT !.forget = TRUE, !.visited = NoRoom]
           r == set_view(k, NoView)
<1>1. shell \in ShellState /\ Away(shell) /\ Followed(shell) BY DEF ShellInv, Orderly
<1>2. shell.view = Towl /\ shell' = r BY DEF leaveTowl
<1>3. /\ k \in ShellState /\ k.view = shell.view /\ k.active = shell.active
      /\ k.preference = shell.preference /\ k.main = shell.main /\ k.widgets = shell.widgets
      /\ k.pressed = shell.pressed /\ k.reconciled = shell.reconciled /\ k.flowers = shell.flowers
      /\ k.room = shell.room /\ k.forget /\ k.visited = NoRoom /\ k.disposed = shell.disposed
  BY <1>1, RoomNames DEF ShellState
<1> HIDE DEF k
<1>4. Followed(k) /\ Away(k) BY <1>1, <1>3 DEF Followed, Away
<1>5. NoView \in MAIN_VIEW_IDS \union {NoView} /\ NoView # k.view /\ NoView # Towl
  BY <1>2, <1>3, ViewNames
<1>6. /\ r \in ShellState /\ Followed(r) /\ Moved(r, k, NoView)
      /\ r.view = NoView /\ r.visited = k.visited /\ r.disposed = k.disposed
  BY <1>3, <1>4, <1>5, SetView
<1> HIDE DEF r
<1>7. r.room = NoRoom /\ ~r.forget /\ r.remembered = NoRoom
  BY <1>2, <1>3, <1>4, <1>5, <1>6 DEF Moved, Followed
<1>8. NoRoom \notin ShellRooms BY ShellAssumption DEF ShellRooms
<1>9. Away(r) BY <1>7, <1>8 DEF Away
<1>10. RoomHeld(r) BY <1>3, <1>5, <1>6, <1>7 DEF RoomHeld
<1>11. Orderly(shell') BY <1>2, <1>6, <1>9, <1>10 DEF Orderly
<1>12. shell'.view # Towl BY <1>2, <1>5, <1>6
<1> QED BY <1>11, <1>12, NotArriving DEF ShellInv

\* A room in place of a malformed one.
LEMMA CreateStep ==
  ASSUME ShellInv, ~shell.disposed, createRoom
  PROVE  ShellInv' /\ KeptStep
<1> DEFINE k == [shell EXCEPT !.room = shell.made + 1, !.made = @ + 1]
<1>1. shell \in ShellState /\ Followed(shell) /\ RoomHeld(shell) BY DEF ShellInv, Orderly
<1>2. /\ shell.view = Towl /\ shell.room = Malformed /\ shell.made < MaxRooms
      /\ shell' = Visited(k)
  BY DEF createRoom, RoomLeft
<1>3. shell.made + 1 \in ShellRooms /\ shell.made + 1 \in Rooms /\ shell.made + 1 \in Nat
  BY <1>1, <1>2, ShellAssumption DEF ShellState, ShellRooms, Rooms
<1>4. /\ k \in ShellState /\ k.view = shell.view /\ k.active = shell.active
      /\ k.preference = shell.preference /\ k.main = shell.main /\ k.widgets = shell.widgets
      /\ k.pressed = shell.pressed /\ k.reconciled = shell.reconciled /\ k.flowers = shell.flowers
      /\ k.room = shell.made + 1 /\ k.forget = shell.forget /\ k.visited = shell.visited
      /\ k.disposed = shell.disposed
  BY <1>1, <1>3 DEF ShellState
<1> HIDE DEF k
<1>5. Followed(k) /\ Away(k) BY <1>1, <1>2, <1>3, <1>4 DEF Followed, Away
<1>6. ~k.forget /\ k.visited \in {NoRoom} \union ShellRooms BY <1>1, <1>4 DEF RoomHeld
<1>7. k.room \in ShellRooms /\ k.room # NoRoom BY <1>3, <1>4, ShellAssumption DEF ShellRooms
<1>8. Orderly(Visited(k)) /\ Visited(k).view = k.view BY <1>2, <1>4, <1>5, <1>6, <1>7, Visiting
<1> QED BY <1>2, <1>4, <1>8, NotArriving DEF ShellInv

LEMMA FlowerStep ==
  ASSUME ShellInv, spawn_flower
  PROVE  ShellInv' /\ KeptStep
<1>1. shell \in ShellState /\ shell.view = Fleurs /\ shell' = [shell EXCEPT !.flowers = TRUE]
  BY DEF ShellInv, Orderly, spawn_flower
<1>2. /\ shell' \in ShellState /\ shell'.view = shell.view /\ shell'.active = shell.active
      /\ shell'.preference = shell.preference /\ shell'.main = shell.main
      /\ shell'.widgets = shell.widgets /\ shell'.pressed = shell.pressed
      /\ shell'.reconciled = shell.reconciled /\ shell'.room = shell.room
      /\ shell'.remembered = shell.remembered /\ shell'.forget = shell.forget
      /\ shell'.visited = shell.visited /\ shell'.disposed = shell.disposed
  BY <1>1 DEF ShellState
<1>3. Followed(shell) => Followed(shell') BY <1>1, <1>2 DEF Followed
<1>4. Away(shell) => Away(shell') BY <1>2 DEF Away
<1>5. RoomHeld(shell) => RoomHeld(shell') BY <1>2 DEF RoomHeld
<1>6. Orderly(shell') BY <1>2, <1>3, <1>4, <1>5 DEF ShellInv, Orderly
<1> QED BY <1>2, <1>6, NotArriving DEF ShellInv

LEMMA DisposeStep ==
  ASSUME ShellInv, dispose_shell
  PROVE  ShellInv' /\ KeptStep
<1> DEFINE lit == shell.flowers /\ shell.view # Fleurs
           main == [v \in MAIN_VIEW_IDS |-> Unmounted]
           widgets == [w \in WIDGET_IDS |-> Unmounted]
<1>1. shell \in ShellState /\ Away(shell) BY DEF ShellInv, Orderly
<1>2. main \in [MAIN_VIEW_IDS -> Surface] /\ widgets \in [WIDGET_IDS -> Surface]
  BY DEF Unmounted, Surface
<1>3. lit \in BOOLEAN OBVIOUS
<1>4. shell' = [shell EXCEPT !.disposed = TRUE, !.flowers = lit, !.main = main, !.widgets = widgets]
  BY <1>1 DEF dispose_shell, ShellState
<1> HIDE DEF lit, main, widgets
<1>5. /\ shell' \in ShellState /\ shell'.view = shell.view /\ shell'.room = shell.room
      /\ shell'.disposed
  BY <1>1, <1>2, <1>3, <1>4 DEF ShellState
<1>6. Away(shell') BY <1>1, <1>5 DEF Away
<1>7. Orderly(shell') BY <1>5, <1>6 DEF Orderly
<1> QED BY <1>5, <1>7, NotArriving DEF ShellInv

LEMMA MountStep ==
  ASSUME ShellInv, mount_shell
  PROVE  ShellInv' /\ KeptStep
<1>1. shell \in ShellState /\ Away(shell) BY DEF ShellInv, Orderly
<1>2. /\ shell.disposed /\ shell.made < MaxRooms
      /\ shell' = mounted_shell(shell.view, shell.active, shell.room, shell.direct, shell.made)
  BY DEF mount_shell, RoomLeft
<1>3. /\ shell.view \in MAIN_VIEW_IDS \union {NoView} /\ shell.active \in SUBSET WIDGET_IDS
      /\ shell.direct \in BOOLEAN /\ shell.made \in Nat
  BY <1>1 DEF ShellState
<1>4. /\ shell.room \in {NoRoom, Malformed} \union ShellRooms
      /\ shell.view # Towl => shell.room \notin ShellRooms
  BY <1>1 DEF Away
<1>5. Orderly(shell') BY <1>2, <1>3, <1>4, MountedShell
<1> QED BY <1>2, <1>5, NotArriving DEF ShellInv

LEMMA Started == ShellInit => ShellInv
<1> SUFFICES ASSUME ShellInit PROVE Orderly(shell) BY DEF ShellInv
<1>1. PICK room \in {NoRoom, Malformed, Invited}, direct \in BOOLEAN, bling \in BOOLEAN :
        shell = mounted_shell(IF classify_towl_entry_url(room, direct) THEN Towl ELSE NoView,
                              IF bling THEN {BlingWidget} ELSE {}, room, direct, 0)
  BY DEF ShellInit
<1> DEFINE view == IF classify_towl_entry_url(room, direct) THEN Towl ELSE NoView
           active == IF bling THEN {BlingWidget} ELSE {}
<1>2. view \in MAIN_VIEW_IDS \union {NoView} /\ active \in SUBSET WIDGET_IDS
  BY ViewNames DEF WIDGET_IDS
<1>3. /\ room \in {NoRoom, Malformed} \union ShellRooms
      /\ view # Towl => room \notin ShellRooms
  BY ShellAssumption DEF ShellRooms, classify_towl_entry_url
<1>4. 0 \in Nat /\ 0 < MaxRooms BY ShellAssumption
<1> HIDE DEF view, active
<1>5. Orderly(mounted_shell(view, active, room, direct, 0)) BY <1>2, <1>3, <1>4, MountedShell
<1> QED BY <1>1, <1>5 DEF view, active

LEMMA Stepped ==
  ASSUME ShellInv, [ShellNext]_shell
  PROVE  ShellInv' /\ [KeptStep]_shell
<1>1. CASE shell' = shell BY <1>1 DEF ShellInv, Orderly, ShellState, Followed, Away, RoomHeld
<1>2. CASE ShellNext
  <2>1. CASE ~shell.disposed /\ ((\E view \in MAIN_VIEW_IDS \ {Hidden} : toggle_view(view))
                                   \/ KeyZero \/ backFromTowl)
    BY <2>1, ViewSteps
  <2>2. CASE ~shell.disposed /\ ((\E widget \in WIDGET_IDS : toggle_widget(widget)) \/ KeyEscape)
    BY <2>2, WidgetSteps
  <2>3. CASE ~shell.disposed /\ leaveTowl BY <2>3, LeaveStep
  <2>4. CASE ~shell.disposed /\ createRoom BY <2>4, CreateStep
  <2>5. CASE spawn_flower BY <2>5, FlowerStep
  <2>6. CASE dispose_shell BY <2>6, DisposeStep
  <2>7. CASE mount_shell BY <2>7, MountStep
  <2> QED BY <1>2, <2>1, <2>2, <2>3, <2>4, <2>5, <2>6, <2>7 DEF ShellNext
<1> QED BY <1>1, <1>2

LEMMA Invariance == ShellSpec => []ShellInv
<1>1. ShellInv /\ [ShellNext]_shell => ShellInv' BY Stepped
<1> QED BY <1>1, Started, PTL DEF ShellSpec

LEMMA ShellTyped == ShellInv => ShellTypeOK
  BY DEF ShellInv, Orderly, ShellState, Remembered, Away, ShellTypeOK

(* Whatever views, widgets and rooms there are, the surfaces, the menu and *)
(* the stored preference follow what is selected (shell-lifecycle.ts and   *)
(* mount-demo.ts's reconcileMain and reconcileWidgets).                    *)
THEOREM SurfacesAgree == ShellSpec => []SurfacesFollow
<1>1. ShellInv => SurfacesFollow
  BY DEF ShellInv, Orderly, Followed, MainFollows, WidgetsFollow, SurfacesFollow
<1> QED BY <1>1, Invariance, PTL

(* However many rooms are made, the room that was shown is the one that    *)
(* is come back to, unless it was left (mount-demo.ts's remembered room    *)
(* and forgetting flag, towl.room.ts's address).                           *)
THEOREM RoomsKept == ShellSpec => RoomKept
<1>1. ShellInv /\ [ShellNext]_shell => [KeptStep]_shell BY Stepped
<1>2. [KeptStep]_shell =>
        [/\ shell.view # Towl /\ shell'.view = Towl /\ shell.room = NoRoom /\ ~shell.disposed =>
              shell'.room = IF shell.visited # NoRoom THEN shell.visited ELSE shell.made + 1
         /\ shell'.view # Towl /\ ~shell'.disposed => shell'.room \notin ShellRooms]_shell
  BY DEF KeptStep
<1> QED BY <1>1, <1>2, Invariance, PTL DEF ShellSpec, RoomKept
=============================================================================
