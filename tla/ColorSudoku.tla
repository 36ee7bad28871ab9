----------------------------- MODULE ColorSudoku -----------------------------
(***************************************************************************)
(* Color Sudoku, mount-color-sudoku.ts: eight sources around a board whose *)
(* four cells take the weighted colors of their corners; two sources are   *)
(* swapped by clicks or by dragging until the cells equal the target's,    *)
(* and the picture of the board is animated from one field to the next.    *)
(* Colors are in hundredths and fields in twenty-fourths, so that equality *)
(* stands for the source's comparisons up to MATCH_ and CHANGE_EPSILON.    *)
(***************************************************************************)
EXTENDS Integers, Sequences, FiniteSetsExt

CONSTANTS NoSlot,      \* no slot selected, no animation running
          PlayedSlots, \* the slots a player touches
          ShuffledOrders, \* the arrangements shuffling comes upon
          MaxMoves     \* bound: swaps since the board was laid out

VARIABLE sudoku

Slots == 0..7
TokenColors == << <<67, 16, 8>>, <<78, 5, 14>>, <<86, -2, 13>>, <<72, -13, 9>>,
                  <<76, -14, -2>>, <<64, -5, -17>>, <<67, 9, -15>>, <<70, 17, -6>> >>
OrderOf(tokens) == [s \in Slots |-> tokens[s + 1]]
TargetOrder == OrderOf(<<0, 1, 2, 3, 4, 5, 6, 7>>)
StartOrder == OrderOf(<<4, 2, 7, 1, 6, 0, 3, 5>>)

\* An arrangement has every token once.
Arrangements == {order \in [Slots -> 0..7] : \A s, t \in Slots : order[s] = order[t] => s = t}

ASSUME SudokuAssumption ==
  /\ PlayedSlots \subseteq Slots /\ MaxMoves \in Nat
  /\ NoSlot \notin Slots /\ NoSlot \notin [1..4 -> [1..3 -> Int]]
  /\ \A order \in ShuffledOrders : order \in Arrangements

\* The two sources of each corner and the weights of the corners in each cell.
CornerSlots == << <<0, 6>>, <<1, 2>>, <<7, 4>>, <<3, 5>> >>
Weights == << <<7, 2, 2, 1>>, <<2, 7, 1, 2>>, <<2, 1, 7, 2>>, <<1, 2, 2, 7>> >>

color(order, slot) == TokenColors[order[slot] + 1]

\* Dimension d of what the two sources of corner k add up to.
corner(order, k, d) == color(order, CornerSlots[k][1])[d] + color(order, CornerSlots[k][2])[d]

weighted_color(order, w) ==
  [d \in 1..3 |-> w[1] * corner(order, 1, d) + w[2] * corner(order, 2, d)
                   + w[3] * corner(order, 3, d) + w[4] * corner(order, 4, d)]

solve_field(order) == [cell \in 1..4 |-> weighted_color(order, Weights[cell])]

Target == solve_field(TargetOrder)

\* The square of the largest distance of two corresponding cells.
square(n) == n * n
color_distance(x, y) == square(x[1] - y[1]) + square(x[2] - y[2]) + square(x[3] - y[3])
field_distance(x, y) == Max({color_distance(x[cell], y[cell]) : cell \in 1..4})

\* Mutant: a running animation is kept.
animate_to_once(k) ==
  IF k.displayed = k.field \/ k.animation # NoSlot THEN k
  ELSE [k EXCEPT !.animation = k.field, !.stale = FALSE]

\* The picture sets out for the field, from where it is; a picture that shows
\* the field already is left alone, with whatever animation is running.
animate_to(k) ==
  IF k.displayed = k.field THEN [k EXCEPT !.stale = k.animation \notin {NoSlot, k.field}]
  ELSE [k EXCEPT !.animation = k.field, !.stale = FALSE]

swapped(order, from, to) == [order EXCEPT ![from] = order[to], ![to] = order[from]]
exchanged(k, from, to) ==
  LET order == swapped(k.order, from, to)
      field == solve_field(order)
      before == field_distance(k.field, Target)
      next == field_distance(field, Target)
  IN [k EXCEPT !.order = order, !.field = field, !.selected = NoSlot, !.moves = @ + 1,
               !.solved = next = 0,
               !.trend = IF next < before THEN 1 ELSE IF next > before THEN -1 ELSE 0]

swap_slots(k, from, to) ==
  IF from = to THEN [k EXCEPT !.selected = NoSlot] ELSE exchanged(k, from, to)

\* A transaction of the map is followed by render, which animates.
Rendered(k) == sudoku' = animate_to(k)
Playing(from, to) == from = to \/ sudoku.moves < MaxMoves

select_or_swap(slot) ==
  \/ sudoku.selected = NoSlot /\ Rendered([sudoku EXCEPT !.selected = slot])
  \/ /\ sudoku.selected # NoSlot /\ Playing(sudoku.selected, slot)
     /\ Rendered(swap_slots(sudoku, sudoku.selected, slot))

DragStart(slot) == Rendered([sudoku EXCEPT !.selected = slot])

\* What is dropped names a source, or is a text that means the selected one.
Drop(source, slot) ==
  /\ source # NoSlot /\ Playing(source, slot)
  /\ Rendered(swap_slots(sudoku, source, slot))

DragEnd == sudoku.selected # NoSlot /\ Rendered([sudoku EXCEPT !.selected = NoSlot])

\* Shuffling is repeated while the board shows the target, in any arrangement.
shuffled(order) == field_distance(solve_field(order), Target) # 0

scramble ==
  \E order \in ShuffledOrders :
    /\ shuffled(order)
    /\ Rendered([sudoku EXCEPT !.order = order, !.field = solve_field(order), !.selected = NoSlot,
                               !.moves = 0, !.solved = FALSE, !.trend = 0])

\* A frame of the animation, the last one or one on the way.
Frame ==
  /\ sudoku.animation # NoSlot
  /\ \/ sudoku' = [sudoku EXCEPT !.displayed = NoSlot]
     \/ sudoku' = [sudoku EXCEPT !.displayed = sudoku.animation, !.animation = NoSlot]

dispose_sudoku == sudoku' = [sudoku EXCEPT !.disposed = TRUE, !.animation = NoSlot]

SudokuInit ==
  sudoku = [order |-> StartOrder, field |-> solve_field(StartOrder), selected |-> NoSlot,
            moves |-> 0, solved |-> FALSE, trend |-> 0, disposed |-> FALSE,
            displayed |-> solve_field(StartOrder), animation |-> NoSlot, stale |-> FALSE]

SudokuNext ==
  /\ ~sudoku.disposed
  /\ \/ \E slot \in PlayedSlots :
          \/ select_or_swap(slot) \/ DragStart(slot)
          \/ \E source \in {slot, sudoku.selected} \union PlayedSlots : Drop(source, slot)
     \/ DragEnd \/ scramble \/ Frame \/ dispose_sudoku

-----------------------------------------------------------------------------
SudokuTypeOK ==
  /\ \A t \in 0..7 : \E s \in Slots : sudoku.order[s] = t
  /\ DOMAIN sudoku.order = Slots /\ sudoku.selected \in Slots \union {NoSlot}
  /\ sudoku.moves \in 0..MaxMoves /\ sudoku.trend \in -1..1

(* The board is declared matched exactly when every corner holds the two   *)
(* sources the target has there, in either order: sixteen arrangements,    *)
(* no other of the tokens' colors add up to the same cells, and no board   *)
(* is dealt or left matched without saying so.                             *)
SolvedByCorners ==
  sudoku.solved <=>
    \A k \in 1..4 : {sudoku.order[CornerSlots[k][i]] : i \in 1..2}
                    = {TargetOrder[CornerSlots[k][i]] : i \in 1..2}

(* However swaps, scrambles and frames interleave, the picture shows the   *)
(* board's field or is on its way there, unless a move was undone before   *)
(* the first frame of its animation: that animation then runs on.          *)
PictureFollows ==
  ~sudoku.disposed /\ ~sudoku.stale =>
    (IF sudoku.animation = NoSlot THEN sudoku.displayed ELSE sudoku.animation) = sudoku.field

(* What the player is told is true: the verdict and the picture.           *)
BoardTruthful == SolvedByCorners /\ PictureFollows
=============================================================================
