------------------------------- MODULE SoftTiles -------------------------------
(***************************************************************************)
(* The layout of the menu: amoebi-geometry.ts gives every label a body of  *)
(* hexagons, a core with a random fringe, and the tile field of            *)
(* ui/soft-tile puts the bodies one after the other on a lattice.  The     *)
(* search weighs positions by cost and energy and keeps the best; here it  *)
(* may keep any.  Of a length, the horizontal unit is half a column of the *)
(* lattice, the vertical one a third of a row.                             *)
(***************************************************************************)
EXTENDS Integers, SequencesExt

CONSTANTS Menus,         \* sequences of cores, [columns, rows], smaller than the ten of the menu
          FieldRight, FieldBottom,   \* the field begins at 0, where odd rows do, and -2, where row 0 does
          MaxBodyWidth

ASSUME ColonyAssumption ==
  /\ Menus \subseteq Seq([columns : Nat \ {0}, rows : Nat \ {0}])
  /\ FieldRight \in Int /\ FieldBottom \in Int

VARIABLE colony

soft_tile_neighbors(c) ==
  {<<c[1] + 1, c[2]>>, <<c[1] + 1, c[2] - 1>>, <<c[1], c[2] - 1>>,
   <<c[1] - 1, c[2]>>, <<c[1] - 1, c[2] + 1>>, <<c[1], c[2] + 1>>}
around(cells) == (UNION {soft_tile_neighbors(c) : c \in cells}) \ cells

center_x(c) == 2 * c[1] + c[2]
center_y(c) == 3 * c[2]

soft_tile_bounds(cells) ==
  LET xs == {center_x(c) : c \in cells}
      ys == {center_y(c) : c \in cells}
  IN [left |-> Min(xs) - 1, right |-> Max(xs) + 1, top |-> Min(ys) - 2, bottom |-> Max(ys) + 2]
width(b) == b.right - b.left
height(b) == b.bottom - b.top

soft_tile_translate(cells, t) == {<<c[1] + t[1], c[2] + t[2]>> : c \in cells}

-----------------------------------------------------------------------------
(* Bodies.                                                                 *)

make_core(size) ==
  {<<column - (size.columns \div 2) - (r \div 2), r>> :
     column \in 0..size.columns - 1, r \in -(size.rows \div 2)..size.rows - 1 - (size.rows \div 2)}

\* 0.045 and 0.16 of the core, rounded.
horizontalTarget(core) == (45 * Cardinality(core) + 500) \div 1000
verticalTarget(core) == (16 * Cardinality(core) + 50) \div 100

\* At most 3.35 to one, in units of 7.794 and 4.5 pixels.
aspect_is_allowed(b) == 7794 * width(b) <= 15075 * height(b) /\ 4500 * height(b) <= 26110 * width(b)

is_horizontal(core, c) ==
  center_x(c) < soft_tile_bounds(core).left \/ center_x(c) > soft_tile_bounds(core).right

\* What add_fringe may choose from, in the band around the core.
viable(core, cells) ==
  LET added(kind) == Cardinality({c \in cells \ core : is_horizontal(core, c) = kind})
      limit == Min({MaxBodyWidth, width(soft_tile_bounds(core)) + 2})
  IN {c \in around(core) \ cells :
        LET next == soft_tile_bounds(cells \union {c})
        IN /\ width(next) <= limit /\ aspect_is_allowed(next)
           /\ IF is_horizontal(core, c) THEN added(TRUE) < horizontalTarget(core)
              ELSE added(FALSE) < verticalTarget(core)}

fringed(core, cells) ==
  \/ Cardinality(cells) = Cardinality(core) + horizontalTarget(core) + verticalTarget(core)
  \/ viable(core, cells) = {}

-----------------------------------------------------------------------------
(* The field.                                                              *)

\* occupied maps a hexagon to the index of its tile.
Occupied(tiles) ==
  [c \in UNION {tiles[i].cells : i \in DOMAIN tiles} |-> CHOOSE i \in DOMAIN tiles : c \in tiles[i].cells]

crowded(c, occupied) ==
  LET near == soft_tile_neighbors(c) \intersect DOMAIN occupied
  IN Cardinality({occupied[n] : n \in near}) >= 2 \/ Cardinality(near) >= 3

soft_tile_cavity_cells(occupied) == {c \in around(DOMAIN occupied) : crowded(c, occupied)}

\* Mutant: what was hollow before is counted once more.
newly_enclosed_anew(cells, occupied, priorCavities, index) ==
  LET together == [c \in cells \union DOMAIN occupied |-> IF c \in cells THEN index ELSE occupied[c]]
  IN Cardinality({c \in around(cells) \ DOMAIN occupied : crowded(c, together)})

\* Only hexagons beside the candidate are looked at.
newly_enclosed_empty_cells(cells, occupied, priorCavities, index) ==
  LET together == [c \in cells \union DOMAIN occupied |-> IF c \in cells THEN index ELSE occupied[c]]
  IN Cardinality({c \in around(cells) \ DOMAIN occupied : c \notin priorCavities /\ crowded(c, together)})

\* What is reached from some hexagons through hexagons of a set.
flooded(from, within) ==
  LET reached[n \in 0..Cardinality(within)] ==
        IF n = 0 THEN from
        ELSE LET before == reached[n - 1] IN before \union (around(before) \intersect within)
  IN reached[Cardinality(within)]

\* Open hexagons of the box around the tiles which its rim does not reach.
soft_tile_empty_hole_count(cells) ==
  LET qs == {c[1] : c \in cells}
      rs == {c[2] : c \in cells}
      box == (Min(qs) - 1..Max(qs) + 1) \X (Min(rs) - 1..Max(rs) + 1)
      open == box \ cells
      rim == {c \in open : c[1] \in {Min(qs) - 1, Max(qs) + 1} \/ c[2] \in {Min(rs) - 1, Max(rs) + 1}}
  IN Cardinality(open \ flooded(rim, open))

inside_field(b) == b.left >= 0 /\ b.right <= FieldRight /\ b.top >= -2 /\ b.bottom <= FieldBottom

\* Along growth, (0.3, 1), of twice the center of a core: the least step and
\* the farthest one that is searched, as they are configured.
orderProjection(core) ==
  LET b == soft_tile_bounds(core) IN 2338 * (b.left + b.right) + 4500 * (b.top + b.bottom)
minOrderStep == 5638
searchMargin == 169140

\* The walls that support are the left and the upper one.
walls(cells) ==
  (IF soft_tile_bounds(cells).left = 0 THEN {"left"} ELSE {})
  \union (IF soft_tile_bounds(cells).top = -2 THEN {"top"} ELSE {})
contactedTiles(tiles, cells) == {i \in DOMAIN tiles : around(cells) \intersect tiles[i].cells # {}}

placed(tiles, core, cells, t) ==
  LET there == soft_tile_translate(cells, t)
      occupied == Occupied(tiles)
  IN [cells |-> there, core |-> soft_tile_translate(core, t),
      contacts |-> contactedTiles(tiles, there), walls |-> walls(there),
      newlyEnclosed |-> newly_enclosed_empty_cells(there, occupied, soft_tile_cavity_cells(occupied), Len(tiles) + 1)]

enumerate_soft_tile_candidates(tiles, core, cells) ==
  LET lattice == (-FieldBottom..FieldRight) \X (0..FieldBottom)
      tried == {placed(tiles, core, cells, t) : t \in {t \in lattice : inside_field(soft_tile_bounds(soft_tile_translate(cells, t)))}}
  IN {tile \in tried :
        /\ \A i \in DOMAIN tiles : tiles[i].cells \intersect tile.cells = {}
        /\ tiles # << >> =>
             LET step == orderProjection(tile.core) - orderProjection(Last(tiles).core)
             IN step >= minOrderStep /\ step <= searchMargin
        /\ tile.contacts # {} \/ tile.walls # {}}

-----------------------------------------------------------------------------
core_of(k) == make_core(k.menu[Len(k.tiles) + 1])
begun_body(k) == IF Len(k.tiles) < Len(k.menu) THEN [k EXCEPT !.cells = core_of(k)] ELSE [k EXCEPT !.cells = {}]

add_fringe ==
  /\ colony.cells # {} /\ ~colony.failed /\ ~fringed(core_of(colony), colony.cells)
  /\ \E c \in viable(core_of(colony), colony.cells) :
       colony' = [colony EXCEPT !.cells = @ \union {c}]

\* A body for which the field has no place makes the search throw.
state_with_candidate ==
  /\ colony.cells # {} /\ ~colony.failed /\ fringed(core_of(colony), colony.cells)
  /\ LET candidates == enumerate_soft_tile_candidates(colony.tiles, core_of(colony), colony.cells)
     IN \/ candidates = {} /\ colony' = [colony EXCEPT !.failed = TRUE]
        \/ \E tile \in candidates : colony' = begun_body([colony EXCEPT !.tiles = Append(@, tile)])

ColonyInit ==
  \E menu \in Menus :
    colony = begun_body([menu |-> menu, tiles |-> << >>, cells |-> {}, failed |-> FALSE])

ColonyNext == add_fringe \/ state_with_candidate

-----------------------------------------------------------------------------
\* Hexagons that touch directly or through others of them.
InOnePiece(cells) == flooded({CHOOSE c \in cells : TRUE}, cells) = cells

(* What is clicked is what is seen: a body, also a growing one, is in one  *)
(* piece around its core and has no hole, so that the one outline that is  *)
(* drawn, the longest, is the outline of all of it, and no hexagon belongs *)
(* to two tiles.                                                           *)
BodiesWhole ==
  LET tiles == colony.tiles
      growing == IF colony.cells = {} THEN {} ELSE {[cells |-> colony.cells, core |-> core_of(colony)]}
      bodies == {[cells |-> tiles[i].cells, core |-> tiles[i].core] : i \in DOMAIN tiles} \union growing
  IN /\ \A body \in bodies :
          /\ body.core \subseteq body.cells
          /\ InOnePiece(body.cells)
          /\ soft_tile_empty_hole_count(body.cells) = 0
     /\ \A i, j \in DOMAIN tiles : i # j => tiles[i].cells \intersect tiles[j].cells = {}

(* The search counts the hollows that a tile makes from its own hexagons;  *)
(* that is what counting them anew over all tiles, with and without it,    *)
(* gives.  Contacts are recorded with tiles it touches, and the menu is    *)
(* read in the order of its items, each below or to the right of the one   *)
(* before.                                                                 *)
PlacementsRecorded ==
  LET tiles == colony.tiles
      hollows(n) == soft_tile_cavity_cells(Occupied(SubSeq(tiles, 1, n)))
  IN \A i \in DOMAIN tiles :
       /\ tiles[i].newlyEnclosed = Cardinality(hollows(i) \ hollows(i - 1))
       /\ tiles[i].contacts \subseteq 1..i - 1
       /\ \A j \in 1..i - 1 : orderProjection(tiles[j].core) < orderProjection(tiles[i].core)

MenuLaidOut == BodiesWhole /\ PlacementsRecorded
=============================================================================
