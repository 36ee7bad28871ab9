------------------------------ MODULE PointPanel ------------------------------
(***************************************************************************)
(* The point widget, point.ts: on a frame after the pointer has moved it   *)
(* lists what is under it, the elements of the page that take the pointer  *)
(* first and then those of its own that are only seen.                     *)
(***************************************************************************)
EXTENDS Integers, Sequences, FiniteSets

CONSTANTS Positions,   \* where the pointer can be
          Elements,    \* of the page: area, the positions covered, the level painted at, whether
                       \* it lets the pointer through ("ghost", pointer-events none) or is hidden,
                       \* and whether it is the widget's own: its root or in its content
          Rows         \* rows of the read-out

\* Nothing is painted at the level of another element.
ASSUME PointAssumption ==
  /\ IsFiniteSet(Elements) /\ Rows \in Nat
  /\ \A e \in Elements : e.area \in Nat /\ e.level \in Nat /\ {e.ghost, e.hidden, e.own} \subseteq BOOLEAN
  /\ \A e, f \in Elements : e.level = f.level => e = f

VARIABLE point

\* The elements of S, each after all that come before it.
inOrder(S, before(_, _)) ==
  CHOOSE s \in [1..Cardinality(S) -> S] :
    \A i, j \in 1..Cardinality(S) : i < j => before(s[i], s[j])

covering(pos) == {e \in Elements : pos \in e.covers /\ ~e.hidden /\ e.area > 0}

\* treesFromPoint, reversed: what is painted last comes last.
hitStack(pos) == inOrder({e \in covering(pos) : ~e.ghost}, LAMBDA e, f : e.level < f.level)

\* Looked for in the widget's own tree only.  Smaller first; equal areas keep
\* the order of the document.
find_visual_only_elements(pos) ==
  inOrder({e \in covering(pos) : e.ghost /\ e.own},
          LAMBDA e, f : e.area < f.area \/ (e.area = f.area /\ e.level < f.level))

render_stack(k) ==
  LET stack == hitStack(k.lastPos) \o find_visual_only_elements(k.lastPos)
  IN [k EXCEPT !.of = k.lastPos,
               !.rows = [i \in 1..Rows |-> IF i <= Len(stack) THEN {stack[i]} ELSE {}]]

onMove(pos) ==
  /\ point.mounted
  /\ point' = [point EXCEPT !.lastPos = pos, !.changed = TRUE]

\* A frame; it asks for the next one.
tick ==
  /\ point.raf /\ point.mounted
  /\ point' = IF point.changed THEN render_stack([point EXCEPT !.changed = FALSE]) ELSE point

dispose_point ==
  /\ point.mounted
  /\ point' = [point EXCEPT !.mounted = FALSE, !.raf = FALSE]

PointInit ==
  \E pos \in Positions :
    point = [lastPos |-> pos, changed |-> TRUE, mounted |-> TRUE, raf |-> TRUE, of |-> pos,
             rows |-> [i \in 1..Rows |-> {}]]

PointNext == tick \/ dispose_point \/ \E pos \in Positions : onMove(pos)

-----------------------------------------------------------------------------
(* The read-out is a faithful, bounded list of what is under the pointer:  *)
(* once a frame has run since the last move, its rows hold no element      *)
(* twice and none that is elsewhere or hidden, no gap, what takes the      *)
(* pointer before what does not, and, if there is room, everything there   *)
(* that takes the pointer and what of the widget itself does not; of the   *)
(* rest of the page, what lets the pointer through is never listed.  A     *)
(* disposed widget has no frame pending.                                   *)
ReadoutTrue ==
  /\ ~point.mounted => ~point.raf
  /\ ~point.changed =>
       LET shown == UNION {point.rows[i] : i \in 1..Rows}
           under == {e \in covering(point.of) : e.ghost => e.own}
       IN /\ point.of = point.lastPos /\ shown \subseteq under
          /\ Cardinality(shown) = IF Cardinality(under) < Rows THEN Cardinality(under) ELSE Rows
          /\ \A i, j \in 1..Rows : i < j =>
               /\ point.rows[i] \intersect point.rows[j] = {}
               /\ point.rows[i] = {} => point.rows[j] = {}
               /\ \A e \in point.rows[i], f \in point.rows[j] : e.ghost => f.ghost /\ e.area <= f.area
=============================================================================
