-------------------------- MODULE CellsheetEvaluator --------------------------
(***************************************************************************)
(* The cellsheet's evaluation, cellsheet-evaluator.ts: an operator cell    *)
(* takes its operands from its neighbors, horizontally and vertically, and *)
(* writes the cell behind the second one; passes over the grid in reading  *)
(* order repeat until one changes nothing.  A text is known for a text,    *)
(* and a quotient is rounded down.                                         *)
(***************************************************************************)
EXTENDS Integers, Sequences, SequencesExt

CONSTANTS ROWS, COLS

ASSUME CellsheetAssumption == ROWS \in Nat \ {0} /\ COLS \in Nat \ {0}

Cells == (0..ROWS - 1) \X (0..COLS - 1)
ReadingOrder == [i \in 1..ROWS * COLS |-> <<(i - 1) \div COLS, (i - 1) % COLS>>]
MAX_EVALUATION_PASSES == ROWS * COLS

NoValue == <<>>
Text == <<"text">>
Number(n) == <<"number", n>>
IsNumber(v) == v # NoValue /\ v[1] = "number"

\* What a cell's raw text can be, and what it stands for.
RawNumbers == [zero |-> 0, one |-> 1, two |-> 2]
Operators == {"+", "-", "*", "/"}
Raw == {"blank", "words"} \union DOMAIN RawNumbers \union Operators

parse_cell(raw) ==
  [kind |-> IF raw = "blank" THEN "blank" ELSE IF raw \in Operators THEN "operator"
            ELSE IF raw = "words" THEN "text" ELSE "number",
   value |-> IF raw = "blank" THEN NoValue
             ELSE IF raw \in DOMAIN RawNumbers THEN Number(RawNumbers[raw]) ELSE Text,
   authored |-> raw # "blank", resultOf |-> <<>>, error |-> "none"]

\* An operation is known by its operator cell and its direction.
at(cell, direction, n) ==
  IF direction = "h" THEN <<cell[1], cell[2] + n>> ELSE <<cell[1] + n, cell[2]>>
Operation == Cells \X {"h", "v"}
first(o) == at(o[1], o[2], -1)
second(o) == at(o[1], o[2], 1)
target(o) == at(o[1], o[2], 2)

compute_result(op, a, b) ==
  IF op = "+" THEN IF IsNumber(a) /\ IsNumber(b) THEN Number(a[2] + b[2]) ELSE Text
  ELSE IF ~IsNumber(a) \/ ~IsNumber(b) THEN NoValue
  ELSE IF op = "-" THEN Number(a[2] - b[2])
  ELSE IF op = "*" THEN Number(a[2] * b[2])
  ELSE IF b[2] = 0 THEN NoValue
  ELSE Number(IF b[2] < 0 THEN (-a[2]) \div (-b[2]) ELSE a[2] \div b[2])

operation_error(op, a, b) ==
  IF compute_result(op, a, b) # NoValue THEN "none"
  ELSE IF ~IsNumber(a) \/ ~IsNumber(b) THEN "operands"
  ELSE "division"

result_target_error(k, o) ==
  LET t == k.cells[target(o)]
  IN IF t.kind = "result" /\ t.resultOf # o THEN "collision"
     ELSE IF t.authored THEN "occupied" ELSE "none"

found(k, o) ==
  /\ {first(o), second(o), target(o)} \subseteq Cells
  /\ k.cells[first(o)].value # NoValue /\ k.cells[second(o)].value # NoValue

flag(cells, c, e) == [cells EXCEPT ![c].error = e]

\* Operation o in its place in a pass.
operate(k, raws, o) ==
  LET op == raws[o[1]]
      a == k.cells[first(o)].value
      b == k.cells[second(o)].value
      listed == IF Contains(k.operations, o) THEN k.operations ELSE Append(k.operations, o)
      failing == operation_error(op, a, b)
      blocked == result_target_error(k, o)
      done == [k.cells[target(o)] EXCEPT !.kind = "result", !.value = compute_result(op, a, b),
                                         !.resultOf = o]
  IN IF failing = "operands"
     THEN [k EXCEPT !.operations = listed, !.cells = flag(flag(@, o[1], failing), target(o), failing)]
     ELSE IF failing # "none"
     THEN [k EXCEPT !.operations = listed, !.cells = flag(@, o[1], failing)]
     ELSE IF blocked # "none"
     THEN [k EXCEPT !.operations = listed, !.cells = flag(flag(@, o[1], blocked), target(o), blocked)]
     ELSE [k EXCEPT !.operations = listed, !.cells[target(o)] = done,
                    !.changed = @ \/ done # k.cells[target(o)]]

\* The operations of an operator cell: one that finds its operands is done.
directed(k, raws, o) == IF found(k, o) THEN operate(k, raws, o) ELSE k
find_operations(k, raws, c) ==
  IF raws[c] \in Operators THEN directed(directed(k, raws, <<c, "h">>), raws, <<c, "v">>) ELSE k

pass(k, raws) ==
  FoldLeft(LAMBDA s, c : find_operations(s, raws, c), [k EXCEPT !.changed = FALSE], ReadingOrder)

parsed(raws) == [cells |-> [c \in Cells |-> parse_cell(raws[c])], operations |-> <<>>, changed |-> TRUE]

\* Mutant: a single pass.
evaluate_cellsheet_once(raws) == pass(parsed(raws), raws)

\* Passes until one changes nothing.
evaluate_cellsheet(raws) ==
  FoldLeft(LAMBDA k, i : IF k.changed THEN pass(k, raws) ELSE k, parsed(raws),
           [i \in 1..MAX_EVALUATION_PASSES |-> i])

\* How the cells relate to the selected one: later operations mark over
\* earlier ones, but neither the selected nor a blocked cell.
touches(o, cell) == cell \in {o[1], first(o), second(o), target(o)}

\* Mutant: only the selected cell keeps its mark.
mark_over(relations, cell, relation) ==
  IF relations[cell] = "selected" THEN relations ELSE [relations EXCEPT ![cell] = relation]

mark(relations, cell, relation) ==
  IF relations[cell] \in {"selected", "blocked"} THEN relations
  ELSE [relations EXCEPT ![cell] = relation]

relate(k, selected, r, o) ==
  IF selected \in Cells /\ touches(o, selected)
  THEN mark(mark(mark(mark(r, first(o), "operand"), second(o), "operand"), o[1], "operator"),
            target(o), IF k.cells[target(o)].error # "none" THEN "blocked" ELSE "target")
  ELSE r
derive_cellsheet_relations(k, selected) ==
  FoldLeft(LAMBDA r, o : relate(k, selected, r, o),
           [c \in Cells |-> IF c = selected THEN "selected" ELSE "none"], k.operations)

-----------------------------------------------------------------------------
\* What operation o of an evaluation comes to, judged by the final grid.
verdict(k, raws, o) ==
  LET failing == operation_error(raws[o[1]], k.cells[first(o)].value, k.cells[second(o)].value)
  IN IF failing # "none" THEN failing ELSE result_target_error(k, o)

\* An evaluation is settled when the passes reached their fixed point, every
\* operation that succeeds wrote its result, and an error is shown exactly
\* where an operation of the final grid has it: none is left over from values
\* an earlier pass saw.
Settled(k, raws) ==
  /\ \A o \in Operation :
       /\ raws[o[1]] \in Operators /\ found(k, o) <=> Contains(k.operations, o)
       /\ Contains(k.operations, o) /\ verdict(k, raws, o) = "none" =>
            /\ k.cells[target(o)].resultOf = o
            /\ k.cells[target(o)].value
               = compute_result(raws[o[1]], k.cells[first(o)].value, k.cells[second(o)].value)
  /\ \A c \in Cells :
       /\ raws[c] # "blank" => k.cells[c].value = parse_cell(raws[c]).value
       /\ k.cells[c].error # "none" <=>
            \E i \in 1..Len(k.operations) :
              LET o == k.operations[i]
                  e == verdict(k, raws, o)
              IN \/ c = o[1] /\ e # "none"
                 \/ c = target(o) /\ e \notin {"none", "division"}
=============================================================================
