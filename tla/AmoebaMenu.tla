------------------------------ MODULE AmoebaMenu ------------------------------
(***************************************************************************)
(* The amoebic menu, make-amoebi.ts, and the plain one it takes turns with *)
(* (mount-demo.ts): tiles that grow and recede with the hovered item and   *)
(* the selection, each motion played over animation frames and superseded  *)
(* by the next one of its tile, and the whole menu entering and exiting as *)
(* the bling widget is switched on and off.                                *)
(***************************************************************************)
EXTENDS Integers, FiniteSets

CONSTANTS NoItem,
          Views,   \* the items that are main views: at most one is active
          Widgets, \* the isolated items
          Bling    \* the widget that shows this menu

ASSUME MenuAssumption == Bling \in Widgets /\ Views \intersect Widgets = {} /\ NoItem \notin Views \union Widgets

VARIABLE menu

Items == Views \union Widgets

\* A motion of a tile: the frames left to it, unless a later motion has taken
\* its token.  Growing begins at the seed's scale and needs two frames.
Motion == [grows : BOOLEAN, frames : 1..2, current : BOOLEAN]
superseded(motions) == {[m EXCEPT !.current = FALSE] : m \in motions}

\* Mutant: the motion of before keeps its token.
begun_untokened(tile, motion) == [tile EXCEPT !.motions = @ \union {motion}]

begun(tile, motion) == [tile EXCEPT !.motions = superseded(@) \union {motion}]

play_amoebi_motion(tile) ==
  [begun(tile, [grows |-> TRUE, frames |-> 2, current |-> TRUE]) EXCEPT !.pose = "seed"]
recede_amoebi_motion(tile) == begun(tile, [grows |-> FALSE, frames |-> 1, current |-> TRUE])

grow_amoebi_tile(tile) ==
  IF tile.receded THEN [play_amoebi_motion(tile) EXCEPT !.receded = FALSE] ELSE tile
recede_amoebi_tile(tile) ==
  IF tile.receded THEN tile ELSE [recede_amoebi_motion(tile) EXCEPT !.receded = TRUE]

shouldGrow(hovered, active, item) == item = hovered \/ item \in active \/ active \subseteq Widgets

apply_amoebi_menu_motion(k) ==
  [k EXCEPT !.tiles = [i \in Items |-> IF shouldGrow(k.hovered, k.active, i)
                                       THEN grow_amoebi_tile(@[i]) ELSE recede_amoebi_tile(@[i])]]

refresh(k, ids) == apply_amoebi_menu_motion([k EXCEPT !.active = ids])

\* The timer of an earlier entrance or exit is cleared: the transition's name
\* says which timer runs.
enter(k) ==
  [k EXCEPT !.transition = "entering",
            !.tiles = [i \in Items |-> [play_amoebi_motion(@[i]) EXCEPT !.receded = FALSE]]]
exit(k) ==
  [k EXCEPT !.transition = "exiting", !.tiles = [i \in Items |-> recede_amoebi_tile(@[i])]]

setBlingPresentation(k, enabled) ==
  IF enabled THEN enter([k EXCEPT !.skin = "amoebic", !.displayed = {"amoebic"}]) ELSE exit(k)

\* An item is toggled, in the menu that is displayed: the watchers of the
\* selection run first, then the widgets are reconciled.
onToggle(item) ==
  LET others == IF item \in Views THEN menu.active \ Views ELSE menu.active \ {item}
      active == IF item \in menu.active THEN others ELSE others \union {item}
      refreshed == refresh(menu, active)
  IN menu' = IF item = Bling THEN setBlingPresentation(refreshed, Bling \in active) ELSE refreshed

\* Hovering or focusing a tile drops every pending departure.
showHover(item) ==
  /\ "amoebic" \in menu.displayed
  /\ menu' = apply_amoebi_menu_motion([menu EXCEPT !.hovered = item, !.leaving = {}])

clearHover(item) ==
  /\ "amoebic" \in menu.displayed
  /\ menu' = [menu EXCEPT !.leaving = @ \union {item}]

HoverLeft(item) ==
  /\ item \in menu.leaving
  /\ LET left == [menu EXCEPT !.leaving = @ \ {item}]
     IN menu' = IF menu.hovered = item
                THEN apply_amoebi_menu_motion([left EXCEPT !.hovered = NoItem]) ELSE left

\* An animation frame: every callback that waits for it runs.
ran(tile) ==
  [tile EXCEPT
    !.motions = {[m EXCEPT !.frames = 1] : m \in {n \in @ : n.current /\ n.frames = 2}},
    !.pose = IF \E m \in tile.motions : m.current /\ m.frames = 1
             THEN IF (CHOOSE m \in tile.motions : m.current /\ m.frames = 1).grows
                  THEN "grown" ELSE "receded"
             ELSE @]
MotionFrame ==
  /\ \E i \in Items : menu.tiles[i].motions # {}
  /\ menu' = [menu EXCEPT !.tiles = [i \in Items |-> ran(@[i])]]

Entered == menu.transition = "entering" /\ menu' = [menu EXCEPT !.transition = "settled"]
Exited ==
  /\ menu.transition = "exiting"
  /\ menu' = [menu EXCEPT !.transition = "hidden", !.skin = "plain", !.displayed = {"plain"}]

dispose_menu ==
  menu' = [menu EXCEPT !.disposed = TRUE, !.leaving = {},
                       !.tiles = [i \in Items |-> [@[i] EXCEPT !.motions = {}]]]

\* Tiles grow as they are rendered; the menu itself is hidden instantly, and
\* enters if the bling widget is active from the start.
hidden(active) ==
  [hovered |-> NoItem, active |-> active, leaving |-> {}, transition |-> "hidden",
   skin |-> "plain", displayed |-> {"plain"}, disposed |-> FALSE,
   tiles |-> [i \in Items |-> [receded |-> FALSE, pose |-> "seed",
              motions |-> {[grows |-> TRUE, frames |-> 2, current |-> TRUE]}]]]
MenuInit ==
  \E active \in {{}, {Bling}} :
    menu = IF active = {} THEN hidden({}) ELSE setBlingPresentation(hidden(active), TRUE)

MenuNext ==
  /\ ~menu.disposed
  /\ \/ \E item \in Items : onToggle(item) \/ showHover(item) \/ clearHover(item) \/ HoverLeft(item)
     \/ MotionFrame \/ Entered \/ Exited \/ dispose_menu

-----------------------------------------------------------------------------
MenuTypeOK ==
  /\ menu.hovered \in Items \union {NoItem} /\ menu.active \subseteq Items
  /\ menu.leaving \subseteq Items
  /\ \A i \in Items : menu.tiles[i].motions \subseteq Motion

(* Whatever motions interrupt one another, a tile with no frame to come is *)
(* posed as its last motion left it, and the book of receded tiles, which  *)
(* decides whether it moves at all, agrees with its pose.                  *)
PosesFollow ==
  \A i \in Items :
    (~\E m \in menu.tiles[i].motions : m.current) /\ ~menu.disposed =>
      menu.tiles[i].pose = IF menu.tiles[i].receded THEN "receded" ELSE "grown"

(* While the menu is there to be used no tile that hovering or selection   *)
(* calls for is receded, whatever departures, selections and entrances     *)
(* came before.                                                            *)
TilesReachable ==
  menu.transition \in {"entering", "settled"} =>
    \A i \in Items : shouldGrow(menu.hovered, menu.active, i) => ~menu.tiles[i].receded

(* Exactly one menu is displayed, the amoebic one while bling is active    *)
(* and no longer than its exit: an exit overtaken by an entrance never     *)
(* takes the menu away.                                                    *)
OneMenu ==
  /\ Cardinality(menu.displayed) = 1 /\ menu.skin \in menu.displayed
  /\ Bling \in menu.active => menu.skin = "amoebic" /\ menu.transition \in {"entering", "settled"}
  /\ Bling \notin menu.active => menu.skin = "plain" \/ menu.transition = "exiting"

(* The menu can be used: one is displayed, its items can be reached, and    *)
(* its poses are what its book says.                                        *)
MenuUsable == PosesFollow /\ TilesReachable /\ OneMenu
=============================================================================
