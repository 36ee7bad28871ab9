------------------------------ MODULE OklchPanel ------------------------------
(***************************************************************************)
(* The OKLCH picker, mount-oklch.ts: a store of one color for each target  *)
(* and of the active target, projected onto CSS variables, sliders, a      *)
(* preview and a list.  A number is an integer of a tenth of its slider's  *)
(* step, so that rounding to the step is to be seen.                       *)
(***************************************************************************)
EXTENDS Integers, Sequences, FiniteSets

CONSTANTS Paths,         \* the targets' paths, in order
          Initial,       \* what each target was configured with, as parsed; {} when it does not parse
          SliderValues   \* what the sliders can be moved to, of each channel

VARIABLE picker

Channels == {"l", "c", "h", "a"}
Highest == [l |-> 10000, c |-> 10000, h |-> 36000, a |-> 1000]
OKLCH_DEFAULT_STATE == [l |-> 8000, c |-> 0, h |-> 0, a |-> 1000]
TargetPaths == {Paths[i] : i \in 1..Len(Paths)}

ASSUME PickerAssumption ==
  /\ Len(Paths) \in Nat \ {0}
  /\ \A path \in TargetPaths : Initial[path] \subseteq [Channels -> Int]
  /\ \A channel \in Channels : SliderValues[channel] \subseteq Int

clamp(n, lo, hi) == IF n < lo THEN lo ELSE IF n > hi THEN hi ELSE n
round(n) == ((n + 5) \div 10) * 10

normalizeOklch(value) ==
  [k \in Channels |-> IF k = "h" THEN round(value[k] % Highest["h"]) ELSE round(clamp(value[k], 0, Highest[k]))]

\* What is written of a color: it is normalized once more, and alpha is left
\* out when it is 1.
oklchToCss(value) == [css |-> normalizeOklch(value)]
\* A target's own text, which the variable holds before mounting and after.
configured(path) == [text |-> path]

\* parse_oklch takes a lightness of at most 1 for a CSS number.
normalizeLightness(l) == IF l <= 100 THEN l * 100 ELSE l

stateOrDefault(path) ==
  IF Initial[path] = {} THEN OKLCH_DEFAULT_STATE
  ELSE LET parsed == CHOOSE value \in Initial[path] : TRUE
       IN normalizeOklch([parsed EXCEPT !.l = normalizeLightness(@)])

updateOklchState(value, channel, n) == normalizeOklch([value EXCEPT ![channel] = n])

isTokenChanged(k, path) == oklchToCss(k.token[path]) # oklchToCss(stateOrDefault(path))

projectTokens(k) == [k EXCEPT !.css = [path \in TargetPaths |-> oklchToCss(k.token[path])]]

\* renderPrev and syncInputsToState, and the list with the count to reset.
render_picker(k) ==
  LET state == k.token[k.activePath]
  IN [k EXCEPT !.current = oklchToCss(state), !.inputs = state,
               !.rows = [path \in TargetPaths |-> oklchToCss(k.token[path])],
               !.resetBtn = Cardinality({path \in TargetPaths : isTokenChanged(k, path)})]

\* Mutant: the watcher of the tokens leaves the CSS variables alone.
watched_unprojected(k) == render_picker(k)

\* The watcher of the tokens.
watched(k) == render_picker(projectTokens(k))

onInput(channel, n) ==
  /\ ~picker.disposed
  /\ picker' = watched([picker EXCEPT !.token[picker.activePath] =
                                        updateOklchState(@, channel, n)])

\* A row is clicked: the watcher of the active path only renders.
selectTarget(path) ==
  /\ ~picker.disposed
  /\ picker' = render_picker([picker EXCEPT !.activePath = path])

resetTokenValues ==
  /\ ~picker.disposed
  /\ picker' = watched([picker EXCEPT !.token = [path \in TargetPaths |-> stateOrDefault(path)]])

dispose_picker ==
  /\ ~picker.disposed
  /\ picker' = [picker EXCEPT !.disposed = TRUE, !.current = configured("none"),
                              !.css = [path \in TargetPaths |-> configured(path)]]

\* The variables are seeded, the store is made, and all of it is shown.
PickerInit ==
  picker = watched([activePath |-> Paths[1], token |-> [path \in TargetPaths |-> stateOrDefault(path)],
                    css |-> [path \in TargetPaths |-> configured(path)], current |-> configured("none"),
                    inputs |-> OKLCH_DEFAULT_STATE, rows |-> << >>, resetBtn |-> 0, disposed |-> FALSE])

PickerNext ==
  \/ \E channel \in Channels : \E n \in SliderValues[channel] : onInput(channel, n)
  \/ \E path \in TargetPaths : selectTarget(path)
  \/ resetTokenValues
  \/ dispose_picker

-----------------------------------------------------------------------------
(* The application wears the colors the picker shows, and only as long as  *)
(* it is open: every target's variable and row agree with its own color,   *)
(* preview and sliders with the active one's, a count of zero means that   *)
(* nothing differs from what mounting made of the configuration, and a     *)
(* disposed picker leaves every variable as it was configured.             *)
ColorsWorn ==
  /\ ~picker.disposed =>
       /\ picker.css = picker.rows /\ picker.current = picker.css[picker.activePath]
       /\ normalizeOklch(picker.inputs) = picker.current.css
       /\ picker.resetBtn = 0 <=>
            \A path \in TargetPaths : picker.css[path] = oklchToCss(stateOrDefault(path))
  /\ picker.disposed => picker.css = [path \in TargetPaths |-> configured(path)]
  /\ \A path \in TargetPaths : \A k \in Channels : picker.token[path][k] \in 0..Highest[k]
=============================================================================
