------------------------------- MODULE Cellsheet -------------------------------
(***************************************************************************)
(* The cellsheet panel, cellsheet.ts: cells typed into a workbook whose    *)
(* every change is evaluated anew, and edges of cells dragged by pointers  *)
(* to resize columns and rows.  A retained surface: while its view is left *)
(* it is deactivated, and its gestures end.                                *)
(***************************************************************************)
EXTENDS CellsheetEvaluator

CONSTANTS NoCell,     \* no cell, no gesture
          Authorable, \* bound: the texts typed into a cell
          Focusable,  \* bound: the cells that are focused
          Grabbed,    \* bound: the cells whose edges are dragged
          GrabbedWidths, \* bound: the widths a gesture starts from
          Pointers, Deltas

VARIABLE sheet

DEFAULT == 56
MIN_COL_WIDTH == 34
MAX_COL_WIDTH == 140
Cols == 0..COLS - 1

\* Columns stand for both axes.
Gesture == [pointer : Pointers, cell : Grabbed, index : Cols, neighbor : Cols \union {NoCell},
            sign : {-1, 1}, size : Int, neighborSize : Int \union {NoCell}]

ASSUME SheetAssumption ==
  /\ DOMAIN Authorable \subseteq Cells /\ \A c \in DOMAIN Authorable : Authorable[c] \subseteq Raw
  /\ Focusable \subseteq Cells /\ Grabbed \subseteq Cells /\ Deltas \subseteq Int
  /\ NoCell \notin Int /\ NoCell \notin Cells /\ NoCell \notin Gesture

clampDimension(n, low, high) == IF n > high THEN (IF high < low THEN low ELSE high)
                                ELSE IF n < low THEN low ELSE n

Edited(raws) == sheet' = [sheet EXCEPT !.raws = raws, !.evaluation = evaluate_cellsheet(raws)]

\* The input event of a cell; gestures are explored on an empty sheet.
input(cell, raw) ==
  /\ raw # sheet.raws[cell] /\ sheet.active /\ sheet.gesture = NoCell
  /\ sheet.widths = [c \in Cols |-> DEFAULT]
  /\ Edited([sheet.raws EXCEPT ![cell] = raw])

focus(cell) ==
  /\ sheet.active /\ sheet.gesture = NoCell /\ sheet.widths = [c \in Cols |-> DEFAULT]
  /\ sheet' = [sheet EXCEPT !.selected = cell]

finishResize(k) == [k EXCEPT !.gesture = NoCell, !.hover = NoCell, !.captured = {}]

\* The column an edge of a cell resizes, and the direction that widens it.
resizeTarget(cell, edge) ==
  LET index == IF edge = "left" /\ cell[2] > 0 THEN cell[2] - 1 ELSE cell[2]
  IN [index |-> index, neighbor |-> IF index < COLS - 1 THEN index + 1 ELSE NoCell,
      sign |-> IF edge = "left" /\ cell[2] = 0 THEN -1 ELSE 1]

maybeStartCellResize(cell, edge, pointer, shift) ==
  LET to == resizeTarget(cell, edge)
  IN /\ sheet.active /\ sheet.raws = [c \in Cells |-> "blank"]
     /\ {sheet.widths[c] : c \in Cols} \subseteq GrabbedWidths
     /\ sheet' = [finishResize(sheet) EXCEPT
          !.captured = {pointer},
          !.gesture = [pointer |-> pointer, cell |-> cell, index |-> to.index,
                       neighbor |-> to.neighbor, sign |-> to.sign, size |-> sheet.widths[to.index],
                       neighborSize |-> IF shift /\ to.neighbor # NoCell
                                        THEN sheet.widths[to.neighbor] ELSE NoCell]]

\* A pair is resized within its total, a column alone within its limits.
resized(g, widths, delta) ==
  LET size == g.size + delta * g.sign
      pair == g.size + g.neighborSize
      primary == clampDimension(size, MIN_COL_WIDTH, pair - MIN_COL_WIDTH)
  IN IF g.neighborSize # NoCell
     THEN [widths EXCEPT ![g.index] = primary, ![g.neighbor] = pair - primary]
     ELSE [widths EXCEPT ![g.index] = clampDimension(size, MIN_COL_WIDTH, MAX_COL_WIDTH)]

\* Only the pointer that began a gesture, in the cell where it did, moves it.
updateResize(cell, pointer, delta) ==
  /\ sheet.active /\ sheet.gesture # NoCell
  /\ sheet.gesture.cell = cell /\ sheet.gesture.pointer = pointer
  /\ sheet' = [sheet EXCEPT !.widths = resized(sheet.gesture, @, delta)]

setResizeHover(cell) ==
  /\ sheet.active /\ sheet.gesture = NoCell /\ sheet.raws = [c \in Cells |-> "blank"]
  /\ \E hover \in {cell, NoCell} :
       /\ hover = NoCell => sheet.hover = cell
       /\ sheet' = [sheet EXCEPT !.hover = hover]

PointerEnds(cell, pointer) ==
  /\ sheet.gesture # NoCell /\ sheet.gesture.cell = cell /\ sheet.gesture.pointer = pointer
  /\ sheet' = finishResize(sheet)

reset ==
  /\ sheet.active
  /\ sheet' = [finishResize(sheet) EXCEPT
       !.selected = NoCell, !.widths = [c \in Cols |-> DEFAULT],
       !.raws = [c \in Cells |-> "blank"],
       !.evaluation = evaluate_cellsheet([c \in Cells |-> "blank"])]

activate_sheet == ~sheet.active /\ sheet' = [sheet EXCEPT !.active = TRUE]
deactivate_sheet == sheet.active /\ sheet' = [finishResize(sheet) EXCEPT !.active = FALSE]
dispose_sheet == sheet' = [finishResize(sheet) EXCEPT !.active = FALSE, !.disposed = TRUE]

\* The seeded workbook's first row.
Seed == [c \in Cells |-> IF c = <<0, 0>> THEN "one" ELSE IF c = <<0, 1>> THEN "+"
                         ELSE IF c = <<0, 2>> THEN "two" ELSE "blank"]

SheetInit ==
  sheet = [raws |-> Seed, evaluation |-> evaluate_cellsheet(Seed), selected |-> NoCell,
           widths |-> [c \in Cols |-> DEFAULT], gesture |-> NoCell, hover |-> NoCell,
           captured |-> {}, active |-> TRUE, disposed |-> FALSE]

SheetNext ==
  /\ ~sheet.disposed
  /\ \/ \E cell \in DOMAIN Authorable : \E raw \in Authorable[cell] : input(cell, raw)
     \/ \E cell \in Focusable : focus(cell)
     \/ \E cell \in Grabbed, pointer \in Pointers :
          \/ \E edge \in {"left", "right"}, shift \in BOOLEAN :
               maybeStartCellResize(cell, edge, pointer, shift)
          \/ \E delta \in Deltas : updateResize(cell, pointer, delta)
          \/ PointerEnds(cell, pointer) \/ setResizeHover(cell)
     \/ reset \/ activate_sheet \/ deactivate_sheet \/ dispose_sheet

-----------------------------------------------------------------------------
SheetTypeOK ==
  /\ sheet.raws \in [Cells -> Raw] /\ sheet.selected \in Cells \union {NoCell}
  /\ sheet.gesture = NoCell \/ sheet.gesture \in Gesture
  /\ sheet.hover \in Grabbed \union {NoCell} /\ sheet.captured \subseteq Pointers

(* Whatever was typed in whatever order, what the sheet shows is one fixed *)
(* point of its operators: every operation has its result or its error, no *)
(* typed cell is overwritten and no error of an earlier pass is left over. *)
SheetSettled == ~sheet.disposed => Settled(sheet.evaluation, sheet.raws)

(* A blocked target of an operation that touches the selected cell is seen *)
(* blocked, whichever other operations use it as an operand.               *)
BlockedShown ==
  \A i \in 1..Len(sheet.evaluation.operations) :
    LET o == sheet.evaluation.operations[i]
    IN sheet.selected \in Cells /\ touches(o, sheet.selected)
       /\ sheet.evaluation.cells[target(o)].error # "none" =>
         derive_cellsheet_relations(sheet.evaluation, sheet.selected)[target(o)]
           \in {"blocked", "selected"}

(* A pointer is captured exactly while its gesture lasts, none while the   *)
(* panel is left or disposed; with two pointers down the last one resizes. *)
CaptureMatchesGesture ==
  sheet.captured = IF sheet.gesture = NoCell THEN {} ELSE {sheet.gesture.pointer}

(* Resizing leaves no column below the minimum, and while two neighbors    *)
(* are resized together the space they share stays what it was.            *)
SizesHold ==
  /\ \A c \in Cols : sheet.widths[c] >= MIN_COL_WIDTH
  /\ sheet.gesture # NoCell /\ sheet.gesture.neighborSize # NoCell =>
       sheet.widths[sheet.gesture.index] + sheet.widths[sheet.gesture.neighbor]
       = sheet.gesture.size + sheet.gesture.neighborSize

(* The grid, its relations, its gesture and its sizes keep together through *)
(* typing, resizing with two pointers, leaving and coming back.             *)
SheetTruthful == BlockedShown /\ CaptureMatchesGesture /\ SizesHold
=============================================================================
