---------------------------------- MODULE Boot ----------------------------------
(***************************************************************************)
(* How the application comes up, app.ts: the brand intro, the splash as a  *)
(* cancellable run (splash-lifecycle.ts) and then the demo, any of the     *)
(* first two skipped by one press; and the fireworks that the splash and   *)
(* the demo mount (wasm-fireworks.ts), with their rendering loop.          *)
(***************************************************************************)
EXTENDS Integers, Sequences, SequencesExt

CONSTANTS MaxLive,   \* MAX_LIVE_FIREWORKS
          Sparks,    \* fireworks scheduled by the splash
          MaxEffects \* bound: effects on the canvas when a player fires

ASSUME BootAssumption == {MaxLive, Sparks, MaxEffects} \subseteq Nat \ {0}

VARIABLE boot

\* Frames an effect of each kind is drawn for, shortened.
Lifetime == [live |-> 2, pops |-> 1, smokes |-> 2, flashes |-> 1]
Effects == DOMAIN Lifetime
Canvases == {"none", "loading", "up", "down"}
Unlit == [canvas |-> "none", frame |-> FALSE, charged |-> FALSE, effects |-> [k \in Effects |-> << >>]]
drawing(show) == \E k \in Effects : show.effects[k] # << >>

mount_firework(show) == [show EXCEPT !.canvas = "up", !.frame = TRUE]

\* A firework with its pop, smoke and flash; the oldest give way to it.
spawn_firework(show) ==
  LET kept == IF Len(show.effects.live) < MaxLive THEN show.effects.live
              ELSE SubSeq(show.effects.live, Len(show.effects.live) - MaxLive + 2, Len(show.effects.live))
  IN [show EXCEPT !.effects = [k \in Effects |-> Append(IF k = "live" THEN kept ELSE @[k], 0)],
                  !.frame = TRUE]

fire(show, level) ==
  LET one == spawn_firework(show)
      two == spawn_firework(one)
  IN <<one, two, spawn_firework(two)>>[level + 1]

\* Every effect is drawn and ages by a frame; the loop stops on an empty canvas.
remaining(ages, lifetime) ==
  FoldLeft(LAMBDA kept, age : IF age < lifetime THEN Append(kept, age + 1) ELSE kept, << >>, ages)
render_frame(show) ==
  LET next == [show EXCEPT !.effects = [k \in Effects |-> remaining(@[k], Lifetime[k])]]
  IN [next EXCEPT !.frame = drawing(next)]

\* What was on the canvas goes with it.
teardown(show) == [Unlit EXCEPT !.canvas = "down"]

\* Aborting the signal a mount was given ends the load, or tears it down.
abort_firework(show) ==
  CASE show.canvas = "loading" -> [show EXCEPT !.canvas = "none"]
    [] show.canvas = "up" -> teardown(show)
    [] OTHER -> show

Frames(name) == boot[name].frame /\ boot' = [boot EXCEPT ![name] = render_frame(@)]

\* The one key that fires: held, and let go after less than one, two seconds or more.
onKeyDown(name) ==
  /\ boot[name].canvas = "up" /\ ~boot[name].charged
  /\ boot' = [boot EXCEPT ![name].charged = TRUE]
onKeyUp(name) ==
  /\ boot[name].canvas = "up" /\ boot[name].charged /\ Len(boot[name].effects.smokes) < MaxEffects
  /\ \E held \in 0..2 : boot' = [boot EXCEPT ![name] = [fire(@, held) EXCEPT !.charged = FALSE]]

-----------------------------------------------------------------------------
\* The left button is pressed on the stage before the demo is reached.
make_skip_promise ==
  /\ boot.phase \in {"intro", "splash", "linger"} /\ ~boot.skip
  /\ boot' = [boot EXCEPT !.skip = TRUE]

\* The splash begins: it owns the stage and loads its fireworks.
create_splash_run(k) ==
  [k EXCEPT !.phase = "splash", !.run = "loading", !.cleanups = <<"stage">>, !.stage = "splash",
            !.sparkles.canvas = "loading"]

\* The intro has ended, or is cut.
IntroOver == boot.phase = "intro" /\ boot' = create_splash_run([boot EXCEPT !.stage = "empty"])

\* The end of a run, in one go: its signal aborted, its timers cleared and its
\* cleanups run from the last to the first.
completion(k, terminal) ==
  [k EXCEPT !.run = terminal, !.aborted = TRUE, !.timers = 0, !.cleanups = << >>,
            !.sparkles = abort_firework(@),
            !.stage = IF "stage" \in {k.cleanups[i] : i \in DOMAIN k.cleanups} THEN "empty" ELSE @]

Running == {"loading", "sun", "star"}

\* Fireworks that cannot be loaded fail the splash, and with it the application.
SparklesFail ==
  /\ boot.run = "loading" /\ ~boot.aborted
  /\ boot' = [completion([boot EXCEPT !.sparkles.canvas = "none"], "failed") EXCEPT !.phase = "failed"]
SparklesLoad ==
  /\ boot.run = "loading" /\ ~boot.aborted
  /\ boot' = [boot EXCEPT !.run = "sun", !.sparkles = mount_firework(@),
                          !.cleanups = Append(@, "sparkles")]

\* The star rises and fireworks are scheduled.
StarRises ==
  /\ boot.run = "sun" /\ ~boot.aborted
  /\ boot' = [boot EXCEPT !.run = "star", !.timers = Sparks]

schedule ==
  /\ boot.timers > 0
  /\ boot' = [boot EXCEPT !.timers = @ - 1, !.sparkles = IF boot.aborted THEN @ ELSE fire(@, 2)]

StarSets ==
  /\ boot.run = "star" /\ ~boot.aborted
  /\ boot' = [completion(boot, "completed") EXCEPT !.phase = "linger"]

\* The wait that an abort interrupted rejects, and so does the run.
RunCancelled == boot.run \in Running /\ boot.aborted /\ boot' = completion(boot, "cancelled")

demo_mounted(k) == [k EXCEPT !.phase = "demo", !.stage = "demo", !.fireworks.canvas = "loading"]

\* A press cancels the run ...
SkipSplash ==
  /\ boot.phase \in {"splash", "linger"} /\ boot.skip /\ ~boot.aborted
  /\ boot' = [boot EXCEPT !.aborted = TRUE, !.sparkles = abort_firework(@)]

\* Mutant: ... and the demo is mounted without waiting for it.
mount_demo_meanwhile ==
  /\ boot.phase \in {"splash", "linger"} /\ (boot.aborted \/ boot.run \notin Running)
  /\ boot' = demo_mounted(boot)

\* ... and the demo is mounted when it has ended, whichever way.
mount_demo ==
  /\ boot.phase \in {"splash", "linger"} /\ boot.run \in {"completed", "cancelled"}
  /\ boot' = demo_mounted(boot)

FireworksLoad ==
  /\ boot.fireworks.canvas = "loading"
  /\ \/ boot' = [boot EXCEPT !.fireworks = mount_firework(@)]
     \/ boot' = [boot EXCEPT !.fireworks.canvas = "none"]
dispose_demo ==
  /\ boot.phase = "demo"
  /\ boot' = [boot EXCEPT !.phase = "disposed", !.stage = "empty", !.fireworks = abort_firework(@)]

\* An address that names TOWL or a frozen inspector goes to the demo at once.
BootstrapStart ==
  [phase |-> "intro", skip |-> FALSE, stage |-> "intro", run |-> "none", aborted |-> FALSE,
   timers |-> 0, cleanups |-> << >>, sparkles |-> Unlit, fireworks |-> Unlit]
BootInit == boot \in {BootstrapStart, demo_mounted(BootstrapStart)}

BootNext ==
  \/ make_skip_promise \/ IntroOver \/ SparklesFail \/ SparklesLoad \/ StarRises \/ schedule \/ StarSets
  \/ RunCancelled \/ SkipSplash \/ mount_demo \/ FireworksLoad \/ dispose_demo
  \/ \E name \in {"sparkles", "fireworks"} : Frames(name) \/ onKeyDown(name) \/ onKeyUp(name)

-----------------------------------------------------------------------------
BootTypeOK ==
  /\ boot.timers \in 0..Sparks
  /\ \A show \in {boot.sparkles, boot.fireworks} :
       show.canvas \in Canvases /\ Len(show.effects.live) <= MaxLive

(* Whatever is fired, by keys, by the splash's timers or by neither, is    *)
(* drawn to its end: a canvas with something on it has a frame to come,    *)
(* and a canvas that was torn down, or never came up, never draws again,   *)
(* not even for a timer that was set before.                               *)
LoopRuns ==
  \A show \in {boot.sparkles, boot.fireworks} :
    /\ show.canvas = "up" /\ drawing(show) => show.frame
    /\ show.canvas # "up" => ~show.frame

(* However the intro, the splash and the press that skips them interleave, *)
(* nothing of the splash reaches the demo: its run has ended, its timers   *)
(* and cleanups are done, its fireworks are gone, and the stage is not     *)
(* emptied again by a cleanup that came late.                              *)
SplashGone ==
  boot.phase \in {"demo", "disposed"} =>
    /\ boot.run \notin Running /\ boot.timers = 0 /\ boot.cleanups = << >>
    /\ boot.sparkles.canvas \in {"none", "down"}
    /\ boot.phase = "demo" => boot.stage = "demo"

(* What is begun before the demo ends before it, and what is lit burns out. *)
BootOrderly == LoopRuns /\ SplashGone
=============================================================================
