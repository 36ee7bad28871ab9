--------------------------- MODULE Application_proofs ---------------------------
(***************************************************************************)
(* Proofs about the parts of the application's instance, for all values of *)
(* their constants: what the start waits for, servers and sockets, the     *)
(* eviction of rooms, the board of the sudoku and the marks of the sheet;  *)
(* and, with what Demos_proofs shows of each, that the menu can be used,   *)
(* its tiles are laid out and the small panels tell the truth.             *)
(***************************************************************************)
EXTENDS MCApplication, Demos_proofs, ParsingPanels_proofs, Shell_proofs

-----------------------------------------------------------------------------
(* The waits.                                                              *)

Wait ==
  [kind : {"none", "sleep", "animation", "pointer"}, signalled : BOOLEAN, timed : BOOLEAN,
   inner : {"none", "pending", "ok", "aborted"},
   outer : {"none", "pending", "ok", "aborted", "timeout"},
   sub : BOOLEAN, to : BOOLEAN, innerAbort : BOOLEAN, onAbort : BOOLEAN]

\* A wait, given whether the signal was aborted: what is registered for it
\* says how far it is.
Heeds(k, aborted_) ==
  /\ k.kind = "none" => k = NoWait
  /\ k.sub => k.inner = "pending"
  /\ k.innerAbort => k.signalled /\ k.inner = "pending" /\ (k.sub \/ k.kind = "sleep")
  /\ k.onAbort => k.signalled /\ k.outer = "pending"
  /\ k.kind = "sleep" => ~k.sub /\ ~k.onAbort /\ (k.to <=> k.outer = "pending")
                         /\ (k.outer = "pending" => k.inner = "pending" /\ (k.signalled => k.innerAbort))
  /\ k.outer = "pending" /\ k.signalled /\ k.kind # "sleep" => k.onAbort
  /\ k.to => k.outer = "pending"
  /\ k.sub /\ k.signalled => k.innerAbort
  /\ k.kind \in {"animation", "pointer"} => k.inner # "none" /\ k.outer # "none"
  /\ aborted_ /\ k.signalled => k.outer # "pending" /\ ~k.sub /\ ~k.to /\ ~k.innerAbort /\ ~k.onAbort
  /\ k.outer \in {"ok", "aborted"} => ~k.sub /\ ~k.to /\ ~k.innerAbort /\ ~k.onAbort
  /\ k.outer = "ok" => k.inner = "ok"
  /\ k.outer = "pending" => k.sub \/ k.to \/ k.inner = "ok"

WaitsInv ==
  /\ waits \in [aborted : BOOLEAN, of : [Waiting -> Wait]]
  /\ \A w \in Waiting : Heeds(waits.of[w], waits.aborted)

Sound(k, aborted_) == k \in Wait /\ Heeds(k, aborted_)

LEMMA Began ==
  ASSUME NEW kind \in {"animation", "pointer"}, NEW signalled \in BOOLEAN, NEW timed \in BOOLEAN,
         waits.aborted \in BOOLEAN
  PROVE  Sound(withControls(listened([NoWait EXCEPT !.kind = kind, !.signalled = signalled,
                                                    !.timed = timed, !.outer = "pending"])), waits.aborted)
<1> DEFINE k == [NoWait EXCEPT !.kind = kind, !.signalled = signalled, !.timed = timed,
                               !.outer = "pending"]
           l == listened(k)
<1>1. /\ k \in Wait /\ k.kind = kind /\ k.signalled = signalled /\ k.timed = timed
      /\ k.inner = "none" /\ k.outer = "pending"
      /\ ~k.sub /\ ~k.to /\ ~k.innerAbort /\ ~k.onAbort
  BY DEF NoWait, Wait
<1> HIDE DEF k
<1>2. CASE waits.aborted /\ signalled
  <2>1. l = [k EXCEPT !.inner = "aborted"]
    BY <1>1, <1>2 DEF listened
  <2>2. withControls(l) = [l EXCEPT !.outer = "aborted", !.to = FALSE, !.onAbort = FALSE]
    BY <1>1, <1>2, <2>1 DEF withControls, finish, clearControls, Wait
  <2> DEFINE r == withControls(l)
  <2>3. /\ r \in Wait /\ r.kind = kind /\ r.signalled = signalled
        /\ r.inner = "aborted" /\ r.outer = "aborted"
        /\ ~r.sub /\ ~r.to /\ ~r.innerAbort /\ ~r.onAbort
    BY <1>1, <2>1, <2>2 DEF Wait
  <2> HIDE DEF r
  <2>4. Sound(r, waits.aborted)
    BY <2>3 DEF Sound, Heeds
  <2> QED
    BY <2>4 DEF r, k
<1>3. CASE ~(waits.aborted /\ signalled)
  <2>1. l = [k EXCEPT !.inner = "pending", !.sub = TRUE, !.innerAbort = signalled]
    BY <1>1, <1>3 DEF listened
  <2>2. /\ l \in Wait /\ l.kind = kind /\ l.signalled = signalled /\ l.timed = timed
        /\ l.inner = "pending" /\ l.outer = "pending" /\ l.sub /\ ~l.to
        /\ l.innerAbort = signalled /\ ~l.onAbort
    BY <1>1, <2>1 DEF Wait
  <2> HIDE DEF l
  <2>3. withControls(l) = [l EXCEPT !.to = timed, !.onAbort = signalled]
    BY <1>3, <2>2 DEF withControls, Wait
  <2> DEFINE r == withControls(l)
  <2>4. /\ r \in Wait /\ r.kind = kind /\ r.signalled = signalled
        /\ r.inner = "pending" /\ r.outer = "pending" /\ r.sub
        /\ r.to = timed /\ r.innerAbort = signalled /\ r.onAbort = signalled
    BY <2>2, <2>3 DEF Wait
  <2> HIDE DEF r
  <2>5. Sound(r, waits.aborted)
    BY <1>3, <2>4 DEF Sound, Heeds
  <2> QED
    BY <2>5 DEF r, l, k
<1> QED
  BY <1>2, <1>3 DEF k

LEMMA Slept ==
  ASSUME NEW signalled \in BOOLEAN, NEW ab \in BOOLEAN
  PROVE  /\ ab /\ signalled =>
              Sound([NoWait EXCEPT !.kind = "sleep", !.signalled = TRUE, !.inner = "aborted",
                                   !.outer = "aborted"], ab)
         /\ ~(ab /\ signalled) =>
              Sound([NoWait EXCEPT !.kind = "sleep", !.signalled = signalled, !.inner = "pending",
                                   !.outer = "pending", !.to = TRUE, !.innerAbort = signalled], ab)
  BY DEF Sound, Heeds, Wait, NoWait

LEMMA Went ==
  ASSUME NEW k, NEW ab \in BOOLEAN, Sound(k, ab)
  PROVE  /\ k.sub => Sound(resolved(k), ab)
         /\ k.inner = "ok" /\ k.outer = "pending" => Sound(finish(k, "ok"), ab)
         /\ k.to /\ k.kind # "sleep" => Sound(finish(k, "timeout"), ab)
         /\ k.to /\ k.kind = "sleep" =>
              Sound([k EXCEPT !.inner = "ok", !.outer = "ok", !.to = FALSE, !.innerAbort = FALSE], ab)
<1> USE DEF Sound
<1>1. ASSUME k.sub PROVE Sound(resolved(k), ab)
  <2> DEFINE r == resolved(k)
  <2>1. /\ r \in Wait /\ r.kind = k.kind /\ r.signalled = k.signalled
        /\ r.inner = "ok" /\ r.outer = k.outer /\ r.to = k.to /\ r.onAbort = k.onAbort
        /\ ~r.sub /\ ~r.innerAbort
    BY DEF resolved, Wait
  <2>2. k.kind # "none" /\ k.kind # "sleep"
    BY <1>1 DEF Heeds, NoWait
  <2> HIDE DEF r
  <2>3. Sound(r, ab)
    BY <1>1, <2>1, <2>2 DEF Heeds
  <2> QED
    BY <2>3 DEF r
<1>5. ASSUME NEW how \in {"ok", "timeout"}, how = "ok" => k.inner = "ok",
             k.outer = "pending", k.kind # "sleep"
      PROVE  Sound(finish(k, how), ab)
  <2> DEFINE r == finish(k, how)
  <2>1. /\ r \in Wait /\ r.kind = k.kind /\ r.signalled = k.signalled
        /\ r.inner = k.inner /\ r.outer = how /\ ~r.to /\ ~r.onAbort
        /\ r.sub = k.sub /\ r.innerAbort = k.innerAbort
    BY <1>5 DEF finish, clearControls, Wait
  <2>2. k.kind # "none"
    BY <1>5 DEF Heeds, NoWait
  <2> HIDE DEF r
  <2>3. Sound(r, ab)
    BY <1>5, <2>1, <2>2 DEF Heeds
  <2> QED
    BY <2>3 DEF r
<1>2. ASSUME k.inner = "ok", k.outer = "pending" PROVE Sound(finish(k, "ok"), ab)
  BY <1>2, <1>5 DEF Heeds
<1>3. ASSUME k.to, k.kind # "sleep" PROVE Sound(finish(k, "timeout"), ab)
  BY <1>3, <1>5 DEF Heeds
<1>4. ASSUME k.to, k.kind = "sleep"
      PROVE  Sound([k EXCEPT !.inner = "ok", !.outer = "ok", !.to = FALSE, !.innerAbort = FALSE], ab)
  BY <1>4 DEF Heeds, Wait, NoWait
<1> QED
  BY <1>1, <1>2, <1>3, <1>4

LEMMA GivenUp ==
  ASSUME NEW k, Sound(k, FALSE)
  PROVE  Sound(aborted(k), TRUE)
<1> DEFINE within == IF k.innerAbort THEN [k EXCEPT !.inner = "aborted", !.sub = FALSE, !.innerAbort = FALSE] ELSE k
<1>1. k \in Wait /\ Heeds(k, FALSE)
  BY DEF Sound
<1>2. CASE k.kind = "sleep" /\ k.innerAbort
  <2>1. aborted(k) = [k EXCEPT !.inner = "aborted", !.sub = FALSE, !.innerAbort = FALSE,
                               !.outer = "aborted", !.to = FALSE]
    BY <1>1, <1>2 DEF aborted, Wait
  <2> QED
    BY <1>1, <1>2, <2>1 DEF Sound, Heeds, Wait, NoWait
<1>3. CASE ~(k.kind = "sleep" /\ k.innerAbort) /\ k.onAbort
  <2>1. k.outer = "pending" /\ k.signalled /\ k.kind # "sleep"
    BY <1>1, <1>3 DEF Heeds
  <2>2. aborted(k) = [within EXCEPT !.outer = "aborted", !.to = FALSE, !.onAbort = FALSE]
    BY <1>1, <1>3, <2>1 DEF aborted, finish, clearControls, Wait
  <2> DEFINE r == aborted(k)
  <2>3. /\ r \in Wait /\ r.kind = k.kind /\ r.signalled = k.signalled
        /\ r.inner = (IF k.innerAbort THEN "aborted" ELSE k.inner) /\ r.outer = "aborted"
        /\ ~r.to /\ ~r.onAbort /\ ~r.innerAbort /\ (r.sub => k.sub /\ ~k.innerAbort)
    BY <1>1, <2>2 DEF Wait
  <2> HIDE DEF r
  <2>4. Sound(r, TRUE)
    BY <1>1, <2>1, <2>3 DEF Sound, Heeds, NoWait
  <2> QED
    BY <2>4 DEF r
<1>4. CASE ~(k.kind = "sleep" /\ k.innerAbort) /\ ~k.onAbort
  <2>1. aborted(k) = within
    BY <1>4 DEF aborted
  <2> DEFINE r == aborted(k)
  <2>2. /\ r \in Wait /\ r.kind = k.kind /\ r.signalled = k.signalled
        /\ r.inner = (IF k.innerAbort THEN "aborted" ELSE k.inner) /\ r.outer = k.outer
        /\ r.to = k.to /\ ~r.onAbort /\ ~r.innerAbort /\ (r.sub <=> k.sub /\ ~k.innerAbort)
        /\ ~k.innerAbort => r = k
    BY <1>1, <1>4, <2>1 DEF Wait
  <2>3. k.kind = "none" => ~k.innerAbort
    BY <1>1 DEF Heeds, NoWait
  <2> HIDE DEF r
  <2>4. Sound(r, TRUE)
    BY <1>1, <1>4, <2>2, <2>3 DEF Sound, Heeds
  <2> QED
    BY <2>4 DEF r
<1> QED
  BY <1>2, <1>3, <1>4

LEMMA WaitsBegin == WaitsInit => WaitsInv
  BY DEF WaitsInit, WaitsInv, Wait, Heeds, NoWait

\* A step that changes waits one by one, each to a sound one.
LEMMA WaitsChanged ==
  ASSUME WaitsInv, NEW ab \in BOOLEAN, NEW next,
         waits' = [aborted |-> ab, of |-> [w \in Waiting |-> next[w]]],
         \A w \in Waiting : Sound(next[w], ab)
  PROVE  WaitsInv'
  BY DEF WaitsInv, Sound

LEMMA OneWaitChanged ==
  ASSUME WaitsInv, NEW w \in Waiting, NEW k, Sound(k, waits.aborted),
         waits' = [waits EXCEPT !.of[w] = k]
  PROVE  WaitsInv'
<1>1. waits \in [aborted : BOOLEAN, of : [Waiting -> Wait]]
  BY DEF WaitsInv
<1>2. waits' = [aborted |-> waits.aborted, of |-> [waits.of EXCEPT ![w] = k]]
  BY <1>1
<1> QED
  BY <1>1, <1>2 DEF WaitsInv, Sound

LEMMA WaitsStep == WaitsInv /\ [WaitsNext]_waits => WaitsInv'
<1> SUFFICES ASSUME WaitsInv, [WaitsNext]_waits PROVE WaitsInv'
  OBVIOUS
<1>1. /\ waits \in [aborted : BOOLEAN, of : [Waiting -> Wait]] /\ waits.aborted \in BOOLEAN
      /\ \A w \in Waiting : Sound(waits.of[w], waits.aborted)
  BY DEF WaitsInv, Sound
<1>2. ASSUME NEW w \in Waiting, NEW kind \in {"animation", "pointer"}, NEW signalled \in BOOLEAN,
             NEW timed \in BOOLEAN, begin(w, kind, signalled, timed)
      PROVE  WaitsInv'
  <2> DEFINE k == withControls(listened([NoWait EXCEPT !.kind = kind, !.signalled = signalled,
                                                       !.timed = timed, !.outer = "pending"]))
  <2>1. Sound(k, waits.aborted) /\ waits' = [waits EXCEPT !.of[w] = k]
    BY <1>1, <1>2, Began DEF begin
  <2> HIDE DEF k
  <2> QED
    BY <2>1, OneWaitChanged
<1>3. ASSUME NEW w \in Waiting, NEW signalled \in BOOLEAN, sleep(w, signalled)
      PROVE  WaitsInv'
  <2> DEFINE k == IF waits.aborted /\ signalled
                  THEN [NoWait EXCEPT !.kind = "sleep", !.signalled = TRUE, !.inner = "aborted",
                                      !.outer = "aborted"]
                  ELSE [NoWait EXCEPT !.kind = "sleep", !.signalled = signalled, !.inner = "pending",
                                      !.outer = "pending", !.to = TRUE, !.innerAbort = signalled]
  <2>1. waits' = [waits EXCEPT !.of[w] = k]
    BY <1>3 DEF sleep
  <2>2. Sound(k, waits.aborted)
    BY <1>1, Slept
  <2> HIDE DEF k
  <2> QED
    BY <2>1, <2>2, OneWaitChanged
<1>4. ASSUME NEW w \in Waiting, Handed(w)
      PROVE  WaitsInv'
  <2>1. Sound(finish(waits.of[w], "ok"), waits.aborted)
    BY <1>1, <1>4, Went DEF Handed
  <2>2. waits' = [waits EXCEPT !.of[w] = finish(waits.of[w], "ok")]
    BY <1>1, <1>4 DEF Handed
  <2> QED
    BY <2>1, <2>2, OneWaitChanged
<1>5. ASSUME NEW w \in Waiting, TimeOut(w)
      PROVE  WaitsInv'
  <2> DEFINE o == waits.of[w]
             k == IF o.kind = "sleep"
                  THEN [o EXCEPT !.inner = "ok", !.outer = "ok", !.to = FALSE, !.innerAbort = FALSE]
                  ELSE finish(o, "timeout")
  <2>1. Sound(k, waits.aborted)
    BY <1>1, <1>5, Went DEF TimeOut
  <2>2. waits' = [waits EXCEPT !.of[w] = k]
    BY <1>1, <1>5 DEF TimeOut
  <2> HIDE DEF k
  <2> QED
    BY <2>1, <2>2, OneWaitChanged
<1>6. ASSUME NEW kind \in {"animation", "pointer"}, Event(kind)
      PROVE  WaitsInv'
  <2> DEFINE next == [w \in Waiting |-> IF waits.of[w].sub /\ waits.of[w].kind = kind
                                        THEN resolved(waits.of[w]) ELSE waits.of[w]]
  <2>1. waits' = [aborted |-> waits.aborted, of |-> [w \in Waiting |-> next[w]]]
    BY <1>1, <1>6 DEF Event
  <2>2. \A w \in Waiting : Sound(next[w], waits.aborted)
    BY <1>1, Went
  <2> HIDE DEF next
  <2> QED
    BY <1>1, <2>1, <2>2, WaitsChanged
<1>7. CASE Abort
  <2> DEFINE next == [w \in Waiting |-> aborted(waits.of[w])]
  <2>1. waits' = [aborted |-> TRUE, of |-> [w \in Waiting |-> next[w]]]
    BY <1>7 DEF Abort
  <2>2. \A w \in Waiting : Sound(next[w], TRUE)
    BY <1>1, <1>7, GivenUp DEF Abort
  <2> HIDE DEF next
  <2> QED
    BY <2>1, <2>2, WaitsChanged
<1>8. CASE UNCHANGED waits
  BY <1>8 DEF WaitsInv
<1> QED
  BY <1>2, <1>3, <1>4, <1>5, <1>6, <1>7, <1>8 DEF WaitsNext

LEMMA WaitsSound == WaitsInv => WaitsHonoured
<1> SUFFICES ASSUME WaitsInv, NEW w \in Waiting, NEW k, k = waits.of[w]
             PROVE  /\ waits.aborted /\ k.signalled =>
                         k.outer # "pending" /\ {k.sub, k.to, k.innerAbort, k.onAbort} = {FALSE}
                    /\ k.outer \in {"ok", "aborted"} => {k.sub, k.to, k.innerAbort, k.onAbort} = {FALSE}
                    /\ k.outer = "timeout" => ~k.to /\ ~k.onAbort
                    /\ k.outer = "ok" => k.inner = "ok"
                    /\ k.outer = "pending" => k.sub \/ k.to \/ k.inner = "ok"
  BY DEF WaitsHonoured
<1>1. k \in Wait /\ Heeds(k, waits.aborted)
  BY DEF WaitsInv
<1>2. k.sub \in BOOLEAN /\ k.to \in BOOLEAN /\ k.innerAbort \in BOOLEAN /\ k.onAbort \in BOOLEAN
  BY <1>1 DEF Wait
<1>3. ASSUME ~k.sub, ~k.to, ~k.innerAbort, ~k.onAbort
      PROVE  {k.sub, k.to, k.innerAbort, k.onAbort} = {FALSE}
  <2>1. k.sub = FALSE /\ k.to = FALSE /\ k.innerAbort = FALSE /\ k.onAbort = FALSE
    BY <1>2, <1>3
  <2> QED
    BY <2>1
<1>4. /\ waits.aborted /\ k.signalled => k.outer # "pending" /\ ~k.sub /\ ~k.to /\ ~k.innerAbort /\ ~k.onAbort
      /\ k.outer \in {"ok", "aborted"} => ~k.sub /\ ~k.to /\ ~k.innerAbort /\ ~k.onAbort
      /\ k.outer = "ok" => k.inner = "ok"
      /\ k.outer = "pending" => k.sub \/ k.to \/ k.inner = "ok"
      /\ k.outer = "timeout" => ~k.to /\ ~k.onAbort
  BY <1>1 DEF Heeds
<1> QED
  BY <1>3, <1>4

-----------------------------------------------------------------------------
(* The start.                                                              *)

\* No more than so many fireworks are live at a time.
Limited(effects) == effects \in [Effects -> Seq(Int)] /\ Len(effects.live) <= MaxLive

\* A canvas with something on it has a frame to come, another one none.
Lit(show) ==
  /\ DOMAIN show = {"canvas", "frame", "charged", "effects"}
  /\ show.canvas \in Canvases /\ show.frame \in BOOLEAN /\ Limited(show.effects)
  /\ show.canvas = "up" /\ drawing(show) => show.frame
  /\ show.canvas # "up" => ~show.frame

BootFields == {"phase", "skip", "stage", "run", "aborted", "timers", "cleanups", "sparkles", "fireworks"}

\* The splash has its run, its timers and its fireworks while it lasts.
Up(k) ==
  /\ DOMAIN k = BootFields
  /\ Lit(k.sparkles) /\ Lit(k.fireworks)
  /\ k.timers \in 0..Sparks /\ k.aborted \in BOOLEAN
  /\ k.phase = "intro" => ~k.aborted
  /\ k.run \in Running => k.phase = "splash"
  /\ k.run \in Running /\ ~k.aborted =>
       k.sparkles.canvas = IF k.run = "loading" THEN "loading" ELSE "up"
  /\ k.aborted \/ k.run \notin Running => k.sparkles.canvas \in {"none", "down"}
  /\ k.run \notin Running => k.cleanups = << >>
  /\ k.timers > 0 => k.run = "star"
  /\ k.phase = "demo" => k.stage = "demo"
  /\ k.phase \notin {"demo", "disposed"} => k.fireworks.canvas = "none"
BootInv == Up(boot)

LEMMA Dark == Lit(Unlit) /\ Unlit.canvas = "none" /\ Lit([Unlit EXCEPT !.canvas = "down"])
<1> DEFINE none == [k \in Effects |-> << >>]
           down == [Unlit EXCEPT !.canvas = "down"]
<1>1. Limited(none)
  <2>1. none \in [Effects -> Seq(Int)] /\ none.live = << >> /\ 0 <= MaxLive
    BY BootAssumption DEF Effects, Lifetime
  <2> HIDE DEF none
  <2> QED
    BY <2>1 DEF Limited
<1> HIDE DEF none
<1>2. /\ DOMAIN Unlit = {"canvas", "frame", "charged", "effects"} /\ Unlit.canvas = "none"
      /\ Unlit.frame = FALSE /\ Unlit.effects = none
  BY DEF Unlit, none
<1>3. /\ DOMAIN down = {"canvas", "frame", "charged", "effects"} /\ down.canvas = "down"
      /\ down.frame = FALSE /\ down.effects = none
  BY <1>2 DEF Unlit, none
<1> HIDE DEF down
<1> QED
  BY <1>1, <1>2, <1>3 DEF Lit, Canvases, down

LEMMA Phased ==
  ASSUME NEW r, DOMAIN r = BootFields, NEW phase
  PROVE  LET t == [r EXCEPT !.phase = phase]
         IN /\ DOMAIN t = BootFields /\ t.phase = phase /\ t.run = r.run /\ t.aborted = r.aborted
            /\ t.timers = r.timers /\ t.cleanups = r.cleanups /\ t.stage = r.stage
            /\ t.sparkles = r.sparkles /\ t.fireworks = r.fireworks
  BY DEF BootFields

LEMMA Mounted ==
  ASSUME NEW s, Lit(s)
  PROVE  Lit(mount_firework(s)) /\ mount_firework(s).canvas = "up"
  BY DEF Lit, mount_firework, Canvases

LEMMA Loaded ==
  ASSUME NEW s, Lit(s), s.canvas # "up", NEW canvas \in {"none", "loading"}
  PROVE  LET r == [s EXCEPT !.canvas = canvas] IN Lit(r) /\ r.canvas = canvas
  BY DEF Lit, Canvases

LEMMA Spawned ==
  ASSUME NEW s, Lit(s), s.canvas = "up"
  PROVE  Lit(spawn_firework(s)) /\ spawn_firework(s).canvas = "up"
<1> DEFINE r == spawn_firework(s)
           live == s.effects.live
           kept == IF Len(live) < MaxLive THEN live ELSE SubSeq(live, Len(live) - MaxLive + 2, Len(live))
           effects == [k \in Effects |-> Append(IF k = "live" THEN kept ELSE s.effects[k], 0)]
<1>1. DOMAIN r = DOMAIN s /\ r.canvas = "up" /\ r.frame = TRUE /\ r.effects = effects
  BY DEF Lit, spawn_firework
<1>2. live \in Seq(Int) /\ Len(live) \in Nat /\ Len(live) <= MaxLive /\ s.effects \in [Effects -> Seq(Int)]
  BY DEF Lit, Limited, Effects, Lifetime
<1>3. MaxLive \in Nat /\ MaxLive >= 1
  BY BootAssumption
<1> HIDE DEF live
<1>4. kept \in Seq(Int) /\ Len(kept) <= MaxLive - 1
  <2>1. CASE Len(live) < MaxLive
    BY <1>2, <1>3, <2>1
  <2>2. CASE Len(live) = MaxLive
    <3> DEFINE tail == SubSeq(live, 2, MaxLive)
    <3>1. \A i \in 2..MaxLive : live[i] \in Int
      BY <1>2, <2>2
    <3>2. tail \in Seq(Int) /\ Len(tail) = MaxLive - 1
      BY <1>2, <1>3, <2>2, <3>1
    <3>3. kept = tail
      BY <1>2, <1>3, <2>2
    <3> HIDE DEF tail, kept
    <3> QED
      BY <1>3, <3>2, <3>3
  <2> QED
    BY <1>2, <1>3, <2>1, <2>2
<1> HIDE DEF kept
<1>5. Limited(effects)
  <2>1. ASSUME NEW k \in Effects
        PROVE  Append(IF k = "live" THEN kept ELSE s.effects[k], 0) \in Seq(Int)
    BY <1>2, <1>4
  <2>2. "live" \in Effects
    BY DEF Effects, Lifetime
  <2>3. effects \in [Effects -> Seq(Int)] /\ effects.live = Append(kept, 0)
    BY <2>1, <2>2
  <2>4. Len(Append(kept, 0)) = Len(kept) + 1 /\ Len(kept) \in Nat
    BY <1>4
  <2> HIDE DEF effects
  <2> QED
    BY <1>3, <1>4, <2>3, <2>4 DEF Limited
<1> HIDE DEF r, effects
<1>6. Lit(r)
  BY <1>1, <1>5 DEF Lit, Canvases
<1> QED
  BY <1>1, <1>6 DEF r

LEMMA Fired ==
  ASSUME NEW s, Lit(s), s.canvas = "up", NEW level \in 0..2
  PROVE  Lit(fire(s, level)) /\ fire(s, level).canvas = "up"
<1> DEFINE one == spawn_firework(s)
           two == spawn_firework(one)
           three == spawn_firework(two)
<1>1. Lit(one) /\ one.canvas = "up"
  BY Spawned
<1> HIDE DEF one
<1>2. Lit(two) /\ two.canvas = "up"
  BY <1>1, Spawned
<1> HIDE DEF two
<1>3. Lit(three) /\ three.canvas = "up"
  BY <1>2, Spawned
<1> HIDE DEF three
<1>4. fire(s, level) = <<one, two, three>>[level + 1]
  BY DEF fire, one, two, three
<1>5. fire(s, level) \in {one, two, three}
  BY <1>4
<1> QED
  BY <1>1, <1>2, <1>3, <1>5

LEMMA Remains ==
  ASSUME NEW ages \in Seq(Int), NEW lifetime \in Int
  PROVE  remaining(ages, lifetime) \in Seq(Int) /\ Len(remaining(ages, lifetime)) <= Len(ages)
<1> DEFINE n == Len(ages)
           Ages == Seq(Int)
           base == << >>
           next(r, i) == IF ages[i] < lifetime THEN Append(r, ages[i] + 1) ELSE r
           Step == [q \in Ages \X (1..n) |-> next(q[1], q[2])]
           unfolds(iter) ==
             iter = [s \in SUBSET (1..n) |-> IF s = {} THEN base ELSE next(iter[s \ {Max(s)}], Max(s))]
           all == CHOOSE iter : unfolds(iter)
<1>1. n \in Nat /\ DOMAIN ages = 1..n /\ \A i \in 1..n : ages[i] \in Int
  OBVIOUS
<1>2. base \in Ages /\ Len(base) = 0
  OBVIOUS
<1>3. remaining(ages, lifetime) = all[1..n]
  <2>1. remaining(ages, lifetime) =
          (CHOOSE iter : iter = [s \in SUBSET DOMAIN ages |->
             IF s = {} THEN << >>
             ELSE IF ages[Max(s)] < lifetime THEN Append(iter[s \ {Max(s)}], ages[Max(s)] + 1)
                  ELSE iter[s \ {Max(s)}]])[DOMAIN ages]
    BY DEF remaining, FoldLeft, MapThenFoldSet
  <2> HIDE DEF n
  <2> QED
    BY <1>1, <2>1
<1> HIDE DEF n, base
<1>4. ASSUME NEW r \in Ages, NEW i \in 1..n
      PROVE  next(r, i) \in Ages /\ Len(next(r, i)) <= Len(r) + 1
  <2>1. ages[i] + 1 \in Int /\ Len(r) \in Nat
    BY <1>1
  <2>2. Append(r, ages[i] + 1) \in Seq(Int) /\ Len(Append(r, ages[i] + 1)) = Len(r) + 1
    BY <2>1
  <2> QED
    BY <2>1, <2>2
<1> HIDE DEF next
<1>5. Step \in [Ages \X (1..n) -> Ages]
  BY <1>4
<1>6. \A r \in Ages : Len(r) \in Nat
  OBVIOUS
<1> HIDE DEF Ages
<1>7. PICK made : Repeats(made, n, base, Step, Ages)
  <2> HIDE DEF Step
  <2> QED
    BY <1>1, <1>2, <1>5, Iterated
<1>8. /\ made \in [SUBSET (1..n) -> Ages]
      /\ \A s \in SUBSET (1..n) : made[s] = IF s = {} THEN base ELSE Step[<<made[s \ {Max(s)}], Max(s)>>]
  BY <1>7 DEF Repeats
<1>9. \A s \in SUBSET (1..n) : s # {} => Max(s) \in s /\ Max(s) \in 1..n
  BY <1>1, Uppermost
<1>10. unfolds(all)
  <2>1. ASSUME NEW s \in SUBSET (1..n), s # {}
        PROVE  made[s] = next(made[s \ {Max(s)}], Max(s))
    <3>1. made[s \ {Max(s)}] \in Ages /\ Max(s) \in 1..n
      BY <1>8, <1>9, <2>1
    <3> QED
      BY <1>8, <2>1, <3>1
  <2>2. made = [s \in SUBSET (1..n) |-> made[s]]
    BY <1>8
  <2>3. unfolds(made)
    BY <1>8, <2>1, <2>2
  <2> QED
    BY <2>3
<1> HIDE DEF all
<1> DEFINE True == {s \in SUBSET (1..n) : all[s] \in Ages /\ Len(all[s]) <= Cardinality(s)}
<1>11. {} \in True
  BY <1>2, <1>10, FS_EmptySet
<1>12. ASSUME NEW s \in SUBSET (1..n), s # {}, s \ {Max(s)} \in True PROVE s \in True
  <2> DEFINE i == Max(s)
             before == all[s \ {i}]
  <2>1. all[s] = next(before, i)
    BY <1>10, <1>12
  <2>2. before \in Ages /\ Len(before) <= Cardinality(s \ {i}) /\ i \in s /\ i \in 1..n
    BY <1>9, <1>12
  <2> HIDE DEF before, i
  <2>3. IsFiniteSet(s)
    <3>1. 1 \in Int /\ n \in Int
      BY <1>1
    <3>2. IsFiniteSet(1..n)
      BY <3>1, FS_Interval
    <3> QED
      BY <3>2, FS_Subset
  <2>4. Cardinality(s \ {i}) = Cardinality(s) - 1 /\ Cardinality(s) \in Nat
    BY <2>2, <2>3, FS_RemoveElement, FS_CardinalityType
  <2>5. next(before, i) \in Ages /\ Len(next(before, i)) <= Len(before) + 1
    BY <1>4, <2>2
  <2>6. Len(before) \in Nat /\ Len(next(before, i)) \in Nat
    BY <1>6, <2>2, <2>5
  <2>7. all[s] \in Ages /\ Len(all[s]) <= Cardinality(s)
    BY <2>1, <2>2, <2>4, <2>5, <2>6
  <2> QED
    BY <2>7
<1>13. True \in SUBSET (SUBSET (1..n))
  OBVIOUS
<1> DEFINE full == 1..n
<1>14. full \in True
  <2>1. full \in SUBSET (1..n)
    OBVIOUS
  <2> HIDE DEF True, full
  <2> QED
    BY <1>1, <1>11, <1>12, <1>13, <2>1, AlongIndices
<1>15. Cardinality(1..n) = n
  <2>1. 1 \in Int /\ n \in Int /\ n >= 1 - 1
    BY <1>1
  <2>2. Cardinality(1..n) = IF 1 > n THEN 0 ELSE n - 1 + 1
    BY <2>1, FS_Interval
  <2> QED
    BY <1>1, <2>2
<1>16. all[1..n] \in Ages /\ Len(all[1..n]) <= n
  BY <1>14, <1>15
<1> QED
  BY <1>3, <1>16 DEF n, Ages

LEMMA Drawn ==
  ASSUME NEW s, Lit(s), s.frame
  PROVE  Lit(render_frame(s)) /\ render_frame(s).canvas = s.canvas
<1> DEFINE effects == [k \in Effects |-> remaining(s.effects[k], Lifetime[k])]
<1>0. Limited(effects)
  <2>1. s.effects \in [Effects -> Seq(Int)] /\ Len(s.effects.live) <= MaxLive
    BY DEF Lit, Limited
  <2>2. \A k \in Effects : Lifetime[k] \in Int
    BY DEF Effects, Lifetime
  <2>3. "live" \in Effects /\ MaxLive \in Nat
    BY BootAssumption DEF Effects, Lifetime
  <2>4. effects \in [Effects -> Seq(Int)] /\ effects.live = remaining(s.effects.live, Lifetime.live)
    BY <2>1, <2>2, <2>3, Remains
  <2>5. Len(remaining(s.effects.live, Lifetime.live)) <= Len(s.effects.live)
    BY <2>1, <2>2, <2>3, Remains
  <2>6. Len(effects.live) \in Nat /\ Len(s.effects.live) \in Nat
    BY <2>1, <2>3, <2>4
  <2> HIDE DEF effects
  <2> QED
    BY <2>1, <2>3, <2>4, <2>5, <2>6 DEF Limited
<1>1. LET next == [s EXCEPT !.effects = effects]
      IN render_frame(s) = [next EXCEPT !.frame = drawing(next)]
  BY DEF render_frame, Lit
<1> HIDE DEF effects
<1> DEFINE next == [s EXCEPT !.effects = effects]
           lit == drawing(next)
           r == [next EXCEPT !.frame = lit]
<1>2. DOMAIN next = DOMAIN s /\ next.canvas = s.canvas /\ next.effects = effects
  BY DEF Lit
<1>3. lit \in BOOLEAN /\ (lit <=> \E k \in Effects : effects[k] # << >>)
  BY <1>2 DEF drawing
<1> HIDE DEF next, lit
<1>4. DOMAIN r = DOMAIN s /\ r.canvas = s.canvas /\ r.frame = lit /\ r.effects = effects
  BY <1>2 DEF Lit
<1>5. render_frame(s) = r
  BY <1>1 DEF r, next, lit
<1> HIDE DEF r
<1>6. Lit(r)
  BY <1>0, <1>3, <1>4 DEF Lit, drawing
<1> QED
  BY <1>4, <1>5, <1>6

LEMMA AbortedLoad ==
  ASSUME NEW s, Lit(s)
  PROVE  Lit(abort_firework(s)) /\ abort_firework(s).canvas \in {"none", "down"}
<1>1. CASE s.canvas = "loading"
  BY <1>1 DEF Lit, abort_firework, Canvases
<1>2. CASE s.canvas = "up"
  <2>1. abort_firework(s) = [Unlit EXCEPT !.canvas = "down"]
    BY <1>2 DEF abort_firework, teardown
  <2> QED
    BY <2>1, Dark DEF Unlit
<1>3. CASE s.canvas \notin {"loading", "up"}
  BY <1>3 DEF Lit, abort_firework, Canvases
<1> QED
  BY <1>1, <1>2, <1>3

LEMMA BootBegins == BootInit => BootInv
<1> SUFFICES ASSUME BootInit PROVE BootInv
  OBVIOUS
<1>0. 0 \in 0..Sparks
  BY BootAssumption
<1>1. Lit(Unlit) /\ Unlit.canvas = "none"
  BY Dark
<1>2. Lit([Unlit EXCEPT !.canvas = "loading"])
  BY <1>1, Loaded
<1> HIDE DEF Unlit
<1> DEFINE k == BootstrapStart
           d == demo_mounted(k)
<1>3. /\ DOMAIN k = BootFields /\ k.phase = "intro" /\ k.run = "none" /\ k.aborted = FALSE
      /\ k.aborted \in BOOLEAN /\ k.timers = 0
      /\ k.cleanups = << >> /\ k.sparkles = Unlit /\ k.fireworks = Unlit
  BY DEF BootstrapStart, BootFields
<1> HIDE DEF k
<1>4. /\ DOMAIN d = BootFields /\ d.phase = "demo" /\ d.stage = "demo" /\ d.run = "none"
      /\ d.aborted = FALSE /\ d.aborted \in BOOLEAN /\ d.timers = 0 /\ d.cleanups = << >> /\ d.sparkles = Unlit
      /\ d.fireworks = [Unlit EXCEPT !.canvas = "loading"]
  BY <1>3 DEF demo_mounted, BootFields
<1>5. boot \in {k, d}
  BY DEF BootInit, k
<1> HIDE DEF d
<1>6. Up(k)
  BY <1>0, <1>1, <1>3 DEF Up, Running
<1>7. Up(d)
  BY <1>0, <1>1, <1>2, <1>4 DEF Up, Running
<1> QED
  BY <1>5, <1>6, <1>7 DEF BootInv

\* A completed run leaves nothing, whatever it had.
Done(r, k, terminal) ==
  /\ DOMAIN r = BootFields /\ r.run = terminal /\ r.aborted = TRUE /\ r.aborted \in BOOLEAN
  /\ r.timers = 0
  /\ r.cleanups = << >> /\ Lit(r.sparkles) /\ r.sparkles.canvas \in {"none", "down"}
  /\ r.fireworks = k.fireworks /\ r.phase = k.phase

LEMMA Completed ==
  ASSUME NEW k, DOMAIN k = BootFields, Lit(k.sparkles), NEW terminal
  PROVE  Done(completion(k, terminal), k, terminal)
  BY AbortedLoad DEF completion, BootFields, Done

LEMMA Over ==
  ASSUME NEW r, NEW k, NEW terminal \in {"completed", "cancelled", "failed"},
         NEW phase \in {"splash", "linger", "failed"}, Done(r, k, terminal), Lit(k.fireworks),
         k.fireworks.canvas = "none"
  PROVE  /\ r.phase = phase => Up(r)
         /\ Up([r EXCEPT !.phase = phase])
<1>0. 0 \in 0..Sparks
  BY BootAssumption
<1>1. r.phase = phase => Up(r)
  BY <1>0 DEF Done, Up, Running
<1> DEFINE t == [r EXCEPT !.phase = phase]
<1>2. /\ DOMAIN t = BootFields /\ t.phase = phase /\ t.run = r.run /\ t.aborted = r.aborted
      /\ t.timers = r.timers /\ t.cleanups = r.cleanups
      /\ t.sparkles = r.sparkles /\ t.fireworks = r.fireworks
  BY Phased DEF Done
<1> HIDE DEF t
<1>3. Up(t)
  BY <1>0, <1>2 DEF Done, Up, Running
<1> QED
  BY <1>1, <1>3 DEF t

LEMMA BootStep == BootInv /\ [BootNext]_boot => BootInv'
<1> SUFFICES ASSUME BootInv, [BootNext]_boot PROVE Up(boot')
  BY DEF BootInv, Up, Lit, drawing
<1> DEFINE b == boot'
<1>0. /\ DOMAIN boot = BootFields /\ Lit(boot.sparkles) /\ Lit(boot.fireworks)
      /\ boot.timers \in 0..Sparks /\ boot.aborted \in BOOLEAN
      /\ boot.phase = "intro" => ~boot.aborted
      /\ boot.run \in Running => boot.phase = "splash"
      /\ boot.run \in Running /\ ~boot.aborted =>
           boot.sparkles.canvas = IF boot.run = "loading" THEN "loading" ELSE "up"
      /\ boot.aborted \/ boot.run \notin Running => boot.sparkles.canvas \in {"none", "down"}
      /\ boot.run \notin Running => boot.cleanups = << >>
      /\ boot.timers > 0 => boot.run = "star"
      /\ boot.phase = "demo" => boot.stage = "demo"
      /\ boot.phase \notin {"demo", "disposed"} => boot.fireworks.canvas = "none"
  BY DEF BootInv, Up
<1>1. DOMAIN boot = BootFields /\ Lit(boot.sparkles) /\ Lit(boot.fireworks)
  BY <1>0
<1>2. CASE make_skip_promise
  <2>1. /\ DOMAIN b = BootFields /\ b.phase = boot.phase /\ b.stage = boot.stage /\ b.run = boot.run
        /\ b.aborted = boot.aborted /\ b.timers = boot.timers /\ b.cleanups = boot.cleanups
        /\ b.sparkles = boot.sparkles /\ b.fireworks = boot.fireworks
    BY <1>1, <1>2 DEF make_skip_promise, BootFields
  <2> HIDE DEF b
  <2>2. Up(b)
    BY <1>0, <2>1 DEF Up
  <2> QED
    BY <2>2 DEF b
<1>3. CASE IntroOver
  <2> DEFINE lit == [boot.sparkles EXCEPT !.canvas = "loading"]
  <2>1. /\ boot.run \notin Running /\ boot.timers = 0 /\ boot.aborted = FALSE /\ boot.aborted \in BOOLEAN
        /\ boot.fireworks.canvas = "none"
    BY <1>0, <1>3 DEF IntroOver, Running
  <2>2. boot.sparkles.canvas # "up"
    BY <1>0, <2>1
  <2>3. Lit(lit) /\ lit.canvas = "loading"
    BY <1>1, <2>2, Loaded
  <2>4. /\ DOMAIN b = BootFields /\ b.phase = "splash" /\ b.stage = "splash" /\ b.run = "loading"
        /\ b.aborted = boot.aborted /\ b.timers = boot.timers
        /\ b.sparkles = lit /\ b.fireworks = boot.fireworks
    BY <1>1, <1>3 DEF IntroOver, create_splash_run, BootFields
  <2> HIDE DEF b, lit
  <2>5. 0 \in 0..Sparks
    BY BootAssumption
  <2>6. Up(b)
    BY <1>1, <2>1, <2>3, <2>4, <2>5 DEF Up, Running
  <2> QED
    BY <2>6 DEF b
<1>4. CASE SparklesFail
  <2> DEFINE k == [boot EXCEPT !.sparkles.canvas = "none"]
             r == completion(k, "failed")
  <2>1. boot.sparkles.canvas # "up"
    BY <1>0, <1>4 DEF SparklesFail, Running
  <2>2. Lit([boot.sparkles EXCEPT !.canvas = "none"])
    BY <1>1, <2>1, Loaded
  <2>3. DOMAIN k = BootFields /\ Lit(k.sparkles) /\ k.fireworks = boot.fireworks
    BY <1>1, <2>2 DEF BootFields
  <2> HIDE DEF k
  <2>4. Done(r, k, "failed")
    BY <2>3, Completed
  <2>5. boot' = [r EXCEPT !.phase = "failed"] /\ k.fireworks.canvas = "none"
    BY <1>0, <1>4, <2>3 DEF SparklesFail, Running, k
  <2> HIDE DEF r
  <2> QED
    BY <1>1, <2>3, <2>4, <2>5, Over
<1>5. CASE SparklesLoad
  <2> DEFINE lit == mount_firework(boot.sparkles)
  <2>1. Lit(lit) /\ lit.canvas = "up"
    BY <1>1, Mounted
  <2>2. boot.run = "loading" /\ boot.aborted = FALSE
    BY <1>0, <1>5 DEF SparklesLoad
  <2>3. /\ DOMAIN b = BootFields /\ b.phase = boot.phase /\ b.stage = boot.stage /\ b.run = "sun"
        /\ b.aborted = boot.aborted /\ b.timers = boot.timers
        /\ b.sparkles = lit /\ b.fireworks = boot.fireworks
    BY <1>1, <1>5 DEF SparklesLoad, BootFields
  <2> HIDE DEF b, lit
  <2>4. Up(b)
    BY <1>0, <2>1, <2>2, <2>3 DEF Up, Running
  <2> QED
    BY <2>4 DEF b
<1>6. CASE StarRises
  <2>1. boot.run = "sun" /\ boot.aborted = FALSE /\ Sparks \in Nat
    BY <1>0, <1>6, BootAssumption DEF StarRises
  <2>2. /\ DOMAIN b = BootFields /\ b.phase = boot.phase /\ b.stage = boot.stage /\ b.run = "star"
        /\ b.aborted = boot.aborted /\ b.timers = Sparks
        /\ b.sparkles = boot.sparkles /\ b.fireworks = boot.fireworks
    BY <1>1, <1>6 DEF StarRises, BootFields
  <2> HIDE DEF b
  <2>3. Up(b)
    BY <1>0, <2>1, <2>2 DEF Up, Running
  <2> QED
    BY <2>3 DEF b
<1>7. CASE schedule
  <2> DEFINE lit == IF boot.aborted THEN boot.sparkles ELSE fire(boot.sparkles, 2)
  <2>1. boot.run = "star" /\ boot.timers > 0 /\ (~boot.aborted => boot.sparkles.canvas = "up")
    BY <1>0, <1>7 DEF schedule, Running
  <2>2. ~boot.aborted => Lit(fire(boot.sparkles, 2)) /\ fire(boot.sparkles, 2).canvas = "up"
    BY <1>1, <2>1, Fired
  <2>3. Lit(lit) /\ lit.canvas = boot.sparkles.canvas
    BY <1>1, <2>1, <2>2
  <2>4. /\ DOMAIN b = BootFields /\ b.phase = boot.phase /\ b.stage = boot.stage /\ b.run = boot.run
        /\ b.aborted = boot.aborted /\ b.timers = boot.timers - 1
        /\ b.sparkles = lit /\ b.fireworks = boot.fireworks
    BY <1>1, <1>7 DEF schedule, BootFields
  <2>5. boot.timers - 1 \in 0..Sparks
    BY <1>0, <2>1, BootAssumption
  <2> HIDE DEF b, lit
  <2>6. Up(b)
    BY <1>0, <2>1, <2>3, <2>4, <2>5 DEF Up, Running
  <2> QED
    BY <2>6 DEF b
<1>8. CASE StarSets
  <2> DEFINE r == completion(boot, "completed")
  <2>1. Done(r, boot, "completed")
    BY <1>1, Completed
  <2>2. boot' = [r EXCEPT !.phase = "linger"] /\ boot.fireworks.canvas = "none"
    BY <1>0, <1>8 DEF StarSets, Running
  <2> HIDE DEF r
  <2> QED
    BY <1>1, <2>1, <2>2, Over
<1>9. CASE RunCancelled
  <2> DEFINE r == completion(boot, "cancelled")
  <2>1. Done(r, boot, "cancelled")
    BY <1>1, Completed
  <2>2. boot' = r /\ boot.phase = "splash" /\ boot.fireworks.canvas = "none"
    BY <1>0, <1>9 DEF RunCancelled
  <2>3. r.phase = "splash"
    BY <2>1, <2>2 DEF Done
  <2> HIDE DEF r
  <2> QED
    BY <1>1, <2>1, <2>2, <2>3, Over
<1>10. CASE SkipSplash
  <2> DEFINE lit == abort_firework(boot.sparkles)
  <2>1. Lit(lit) /\ lit.canvas \in {"none", "down"}
    BY <1>1, AbortedLoad
  <2>2. /\ DOMAIN b = BootFields /\ b.phase = boot.phase /\ b.stage = boot.stage /\ b.run = boot.run
        /\ b.aborted = TRUE /\ b.timers = boot.timers /\ b.cleanups = boot.cleanups
        /\ b.sparkles = lit /\ b.fireworks = boot.fireworks /\ b.phase # "intro"
    BY <1>1, <1>10 DEF SkipSplash, BootFields
  <2> HIDE DEF b, lit
  <2>3. Up(b)
    BY <1>0, <2>1, <2>2 DEF Up
  <2> QED
    BY <2>3 DEF b
<1>11. CASE mount_demo
  <2> DEFINE lit == [boot.fireworks EXCEPT !.canvas = "loading"]
  <2>1. boot.run \notin Running
    BY <1>11 DEF mount_demo, Running
  <2>2. Lit(lit)
    BY <1>0, <1>11, Loaded DEF mount_demo
  <2>3. /\ DOMAIN b = BootFields /\ b.phase = "demo" /\ b.stage = "demo" /\ b.run = boot.run
        /\ b.aborted = boot.aborted /\ b.timers = boot.timers /\ b.cleanups = boot.cleanups
        /\ b.sparkles = boot.sparkles /\ b.fireworks = lit
    BY <1>1, <1>11 DEF mount_demo, demo_mounted, BootFields
  <2> HIDE DEF b, lit
  <2>4. Up(b)
    BY <1>0, <2>1, <2>2, <2>3 DEF Up
  <2> QED
    BY <2>4 DEF b
<1>12. ASSUME NEW lit, Lit(lit), NEW phase, NEW stage, boot.phase # "intro" => phase # "intro",
              boot.run \in Running => phase = boot.phase, phase = "demo" => stage = "demo",
              phase \notin {"demo", "disposed"} => lit.canvas = "none",
              DOMAIN b = BootFields, b.phase = phase, b.stage = stage, b.run = boot.run,
              b.aborted = boot.aborted, b.timers = boot.timers, b.cleanups = boot.cleanups,
              b.sparkles = boot.sparkles, b.fireworks = lit
       PROVE  Up(b)
  <2> HIDE DEF b
  <2> QED
    BY <1>0, <1>12 DEF Up
<1>13. CASE FireworksLoad
  <2>1. Lit(mount_firework(boot.fireworks)) /\ Lit([boot.fireworks EXCEPT !.canvas = "none"])
    BY <1>1, <1>13, Mounted, Loaded DEF FireworksLoad
  <2>2. PICK lit : /\ Lit(lit) /\ DOMAIN b = BootFields /\ b.phase = boot.phase /\ b.stage = boot.stage
                   /\ b.run = boot.run /\ b.aborted = boot.aborted /\ b.timers = boot.timers
                   /\ b.cleanups = boot.cleanups /\ b.sparkles = boot.sparkles /\ b.fireworks = lit
    <3>1. CASE boot' = [boot EXCEPT !.fireworks = mount_firework(@)]
      BY <1>1, <2>1, <3>1 DEF BootFields
    <3>2. CASE boot' = [boot EXCEPT !.fireworks.canvas = "none"]
      BY <1>1, <2>1, <3>2 DEF BootFields
    <3> QED
      BY <1>13, <3>1, <3>2 DEF FireworksLoad
  <2>3. boot.phase \in {"demo", "disposed"}
    BY <1>0, <1>13 DEF FireworksLoad
  <2> QED
    BY <1>0, <1>12, <2>2, <2>3
<1>14. CASE dispose_demo
  <2> DEFINE lit == abort_firework(boot.fireworks)
  <2>1. Lit(lit)
    BY <1>1, AbortedLoad
  <2>2. /\ DOMAIN b = BootFields /\ b.phase = "disposed" /\ b.stage = "empty"
        /\ b.run = boot.run /\ b.aborted = boot.aborted /\ b.timers = boot.timers
        /\ b.cleanups = boot.cleanups /\ b.sparkles = boot.sparkles /\ b.fireworks = lit
    BY <1>1, <1>14 DEF dispose_demo, BootFields
  <2>3. boot.run \notin Running
    BY <1>0, <1>14 DEF dispose_demo
  <2> HIDE DEF lit
  <2> QED
    BY <1>12, <2>1, <2>2, <2>3
<1>15. ASSUME NEW name \in {"sparkles", "fireworks"},
              Frames(name) \/ onKeyDown(name) \/ onKeyUp(name)
       PROVE  Up(b)
  <2>0. Lit(boot[name])
    BY <1>1
  <2> DEFINE s == boot[name]
  <2>1. PICK show : /\ Lit(show) /\ show.canvas = s.canvas
                    /\ boot' = [boot EXCEPT ![name] = show]
    <3>1. CASE Frames(name)
      <4>1. Lit(render_frame(s)) /\ render_frame(s).canvas = s.canvas
        BY <2>0, <3>1, Drawn DEF Frames
      <4> QED
        BY <1>1, <3>1, <4>1 DEF Frames
    <3>2. CASE onKeyDown(name)
      <4> DEFINE held == [s EXCEPT !.charged = TRUE]
      <4>1. DOMAIN held = DOMAIN s /\ held.canvas = s.canvas /\ held.frame = s.frame
            /\ held.effects = s.effects
        BY <2>0 DEF Lit
      <4>2. boot' = [boot EXCEPT ![name] = held]
        BY <1>1, <3>2 DEF onKeyDown
      <4> HIDE DEF held, s
      <4>3. Lit(held)
        BY <2>0, <4>1 DEF Lit, drawing, s
      <4> QED
        BY <4>1, <4>2, <4>3
    <3>3. CASE onKeyUp(name)
      <4>1. PICK held \in 0..2 : boot' = [boot EXCEPT ![name] = [fire(@, held) EXCEPT !.charged = FALSE]]
        BY <3>3 DEF onKeyUp
      <4> DEFINE fired == fire(s, held)
                 calm == [fired EXCEPT !.charged = FALSE]
      <4>2. Lit(fired) /\ fired.canvas = "up" /\ s.canvas = "up"
        BY <2>0, <3>3, Fired DEF onKeyUp
      <4>3. boot' = [boot EXCEPT ![name] = calm]
        BY <1>1, <4>1
      <4> HIDE DEF fired
      <4>4. DOMAIN calm = DOMAIN fired /\ calm.canvas = fired.canvas /\ calm.frame = fired.frame
            /\ calm.effects = fired.effects
        BY <4>2 DEF Lit
      <4> HIDE DEF calm, s
      <4>5. Lit(calm)
        BY <4>2, <4>4 DEF Lit, drawing
      <4> QED
        BY <4>2, <4>3, <4>4, <4>5
    <3> QED
      BY <1>15, <3>1, <3>2, <3>3
  <2> HIDE DEF s
  <2>2. /\ DOMAIN b = BootFields /\ b.phase = boot.phase /\ b.stage = boot.stage
        /\ b.run = boot.run /\ b.aborted = boot.aborted /\ b.timers = boot.timers
        /\ b.cleanups = boot.cleanups
    BY <1>1, <2>1 DEF BootFields
  <2>3. CASE name = "fireworks"
    <3>1. b.sparkles = boot.sparkles /\ b.fireworks = show /\ show.canvas = boot.fireworks.canvas
      BY <1>1, <2>1, <2>3 DEF BootFields, s
    <3> QED
      BY <1>0, <1>12, <2>1, <2>2, <3>1
  <2>4. CASE name = "sparkles"
    <3>1. b.sparkles = show /\ b.fireworks = boot.fireworks /\ show.canvas = boot.sparkles.canvas
      BY <1>1, <2>1, <2>4 DEF BootFields, s
    <3> HIDE DEF b
    <3> QED
      BY <1>0, <2>1, <2>2, <3>1 DEF Up
  <2> QED
    BY <2>3, <2>4
<1>16. CASE UNCHANGED boot
  BY <1>16 DEF BootInv
<1> QED
  BY <1>2, <1>3, <1>4, <1>5, <1>6, <1>7, <1>8, <1>9, <1>10, <1>11, <1>13, <1>14, <1>15, <1>16
  DEF BootNext

LEMMA BootSound == BootInv => BootOrderly
<1> SUFFICES ASSUME BootInv PROVE BootOrderly
  OBVIOUS
<1>1. LoopRuns
  BY DEF LoopRuns, BootInv, Up, Lit
<1>2. boot.phase \in {"demo", "disposed"} => boot.run \notin Running
  BY DEF BootInv, Up
<1>3. SplashGone
  BY <1>2 DEF SplashGone, BootInv, Up, Running
<1> QED
  BY <1>1, <1>3 DEF BootOrderly

LEMMA BootTyped == BootInv => BootTypeOK
  BY DEF BootInv, BootTypeOK, Up, Lit, Limited

-----------------------------------------------------------------------------
(* Sockets.                                                                *)

GateState ==
  [disposed : [Sides -> BOOLEAN],
   pipe : [Pipes -> {"none", "asking", "lost", "open", "closing", "closed", "abandoned"}],
   side : [Pipes -> Sides \union {"none"}], attached : SUBSET Pipes, tracked : SUBSET Pipes,
   late : SUBSET Pipes, prod : BOOLEAN, configured : Configured, pending : BOOLEAN,
   fetches : Int, caller : [Callers -> {"idle", "failed", "waiting", "admitted", "connected"}]]

\* A socket that nothing was made of is in no gateway's books; one that is
\* tracked is the gateway's it was accepted by.
Plumbed(k) ==
  /\ k.attached \subseteq k.tracked
  /\ \A w \in k.tracked \ k.attached : k.pipe[w] = "closing"
  /\ \A w \in k.attached \ k.late : k.pipe[w] = "open" /\ ~k.disposed[k.side[w]]
  /\ \A w \in k.late : k.side[w] = "durable"
  /\ \A w \in Pipes :
       /\ k.pipe[w] \in {"none", "asking", "lost"} => w \notin k.tracked /\ w \notin k.late
       /\ k.pipe[w] \in {"asking", "lost"} => k.side[w] = "durable"
       /\ w \in k.tracked => k.side[w] \in Sides
       /\ k.pipe[w] = "closing" => k.side[w] = "circuit"

\* One request is under way for all who wait.
Admitting(k) ==
  /\ k.fetches = IF k.pending THEN 1 ELSE 0
  /\ \A c \in Callers : k.caller[c] = "waiting" => k.pending
  /\ \A c \in Callers : k.caller[c] = "connected" /\ k.prod =>
       k.configured.set /\ (k.configured.scheme = "wss" \/ k.configured.local)

GateInv == gate \in GateState /\ Plumbed(gate) /\ Admitting(gate)

LEMMA GateBegins == GateInit => GateInv
<1> SUFFICES ASSUME GateInit PROVE GateInv
  OBVIOUS
<1>1. PICK prod \in BOOLEAN, origin \in Configured :
        gate = [disposed |-> [side \in Sides |-> FALSE], pipe |-> [w \in Pipes |-> "none"],
                side |-> [w \in Pipes |-> "none"], attached |-> {}, tracked |-> {}, late |-> {},
                prod |-> prod, configured |-> origin, pending |-> FALSE, fetches |-> 0,
                caller |-> [k \in Callers |-> "idle"]]
  BY DEF GateInit
<1>2. gate \in GateState
  BY <1>1 DEF GateState
<1>3. Plumbed(gate) /\ Admitting(gate)
  BY <1>1 DEF Plumbed, Admitting
<1> QED
  BY <1>2, <1>3 DEF GateInv

\* The browser's part of the state, and the servers'.
SameBrowser(t, k) ==
  t.prod = k.prod /\ t.configured = k.configured /\ t.pending = k.pending /\ t.fetches = k.fetches
  /\ t.caller = k.caller
SameServers(t, k) ==
  t.disposed = k.disposed /\ t.pipe = k.pipe /\ t.side = k.side /\ t.attached = k.attached
  /\ t.tracked = k.tracked /\ t.late = k.late

LEMMA Apart ==
  ASSUME NEW k, NEW t
  PROVE  /\ SameBrowser(t, k) /\ Admitting(k) => Admitting(t)
         /\ SameServers(t, k) /\ Plumbed(k) => Plumbed(t)
  BY DEF SameBrowser, SameServers, Admitting, Plumbed

LEMMA ServersPlumb ==
  ASSUME gate \in GateState, Plumbed(gate), ServerStep
  PROVE  gate' \in GateState /\ Plumbed(gate') /\ SameBrowser(gate', gate)
<1> DEFINE t == gate'
<1> SUFFICES t \in GateState /\ Plumbed(t) /\ SameBrowser(t, gate)
  OBVIOUS
<1>0. Sides = {"durable", "circuit"}
  BY DEF Sides
<1>1. ASSUME NEW w \in Pipes, accept_durable(w)
      PROVE  t \in GateState /\ Plumbed(t) /\ SameBrowser(t, gate)
  <2>1. /\ t \in GateState /\ SameBrowser(t, gate)
        /\ t.disposed = gate.disposed /\ t.attached = gate.attached /\ t.tracked = gate.tracked
        /\ t.late = gate.late /\ t.side = [gate.side EXCEPT ![w] = "durable"]
        /\ t.pipe = [gate.pipe EXCEPT ![w] = IF gate.disposed["durable"] THEN "closed" ELSE "asking"]
    <3>1. CASE gate.disposed["durable"]
      BY <1>0, <1>1, <3>1 DEF accept_durable, GateState, SameBrowser
    <3>2. CASE ~gate.disposed["durable"]
      BY <1>0, <1>1, <3>2 DEF accept_durable, GateState, SameBrowser
    <3> QED
      BY <3>1, <3>2
  <2>2. gate.pipe[w] = "none"
    BY <1>1 DEF accept_durable
  <2> HIDE DEF t
  <2>3. Plumbed(t)
    BY <2>1, <2>2 DEF Plumbed, GateState, Sides
  <2> QED
    BY <2>1, <2>3
<1>2. ASSUME NEW w \in Pipes, Connected(w)
      PROVE  t \in GateState /\ Plumbed(t) /\ SameBrowser(t, gate)
  <2>1. /\ t \in GateState /\ SameBrowser(t, gate)
        /\ t.disposed = gate.disposed /\ t.attached = gate.attached \union {w}
        /\ t.tracked = gate.tracked \union {w} /\ t.side = gate.side
        /\ t.late = IF gate.pipe[w] = "lost" \/ gate.disposed["durable"] THEN gate.late \union {w}
                    ELSE gate.late
        /\ t.pipe = [gate.pipe EXCEPT ![w] = IF gate.pipe[w] = "lost" THEN "closed" ELSE "open"]
    BY <1>2 DEF Connected, GateState, SameBrowser
  <2>2. gate.pipe[w] \in {"asking", "lost"}
    BY <1>2 DEF Connected
  <2> HIDE DEF t
  <2>3. Plumbed(t)
    BY <2>1, <2>2 DEF Plumbed, GateState, Sides
  <2> QED
    BY <2>1, <2>3
<1>3. ASSUME NEW w \in Pipes, PipeEnds(w)
      PROVE  t \in GateState /\ Plumbed(t) /\ SameBrowser(t, gate)
  <2>1. gate.pipe[w] \in {"asking", "open"}
    BY <1>3 DEF PipeEnds
  <2>2. CASE gate.pipe[w] = "asking"
    <3>1. /\ t \in GateState /\ SameBrowser(t, gate)
          /\ t.disposed = gate.disposed /\ t.attached = gate.attached /\ t.tracked = gate.tracked
          /\ t.side = gate.side /\ t.late = gate.late /\ t.pipe = [gate.pipe EXCEPT ![w] = "lost"]
      BY <1>3, <2>2 DEF PipeEnds, GateState, SameBrowser
    <3> HIDE DEF t
    <3>2. Plumbed(t)
      BY <2>2, <3>1 DEF Plumbed, GateState, Sides
    <3> QED
      BY <3>1, <3>2
  <2>3. CASE gate.pipe[w] = "open"
    <3>1. /\ t \in GateState /\ SameBrowser(t, gate)
          /\ t.disposed = gate.disposed /\ t.attached = gate.attached \ {w} /\ t.tracked = gate.tracked \ {w}
          /\ t.side = gate.side /\ t.late = gate.late /\ t.pipe = [gate.pipe EXCEPT ![w] = "closed"]
      BY <1>3, <2>3 DEF PipeEnds, cleanup, GateState, SameBrowser
    <3> HIDE DEF t
    <3>2. Plumbed(t)
      BY <2>3, <3>1 DEF Plumbed, GateState, Sides
    <3> QED
      BY <3>1, <3>2
  <2> QED
    BY <2>1, <2>2, <2>3
<1>4. ASSUME NEW w \in Pipes, Closed(w)
      PROVE  t \in GateState /\ Plumbed(t) /\ SameBrowser(t, gate)
  <2>1. /\ t \in GateState /\ SameBrowser(t, gate)
        /\ t.disposed = gate.disposed /\ t.attached = gate.attached \ {w} /\ t.tracked = gate.tracked \ {w}
        /\ t.side = gate.side /\ t.late = gate.late /\ t.pipe = [gate.pipe EXCEPT ![w] = "closed"]
    BY <1>4 DEF Closed, cleanup, GateState, SameBrowser
  <2> HIDE DEF t
  <2>2. Plumbed(t)
    BY <2>1 DEF Plumbed, GateState, Sides
  <2> QED
    BY <2>1, <2>2
<1>5. ASSUME NEW w \in Pipes, NEW known \in BOOLEAN, accept_circuit(w, known)
      PROVE  t \in GateState /\ Plumbed(t) /\ SameBrowser(t, gate)
  <2>1. gate.pipe[w] = "none"
    BY <1>5 DEF accept_circuit
  <2>2. CASE gate.disposed["circuit"] \/ ~known
    <3>1. /\ t \in GateState /\ SameBrowser(t, gate)
          /\ t.disposed = gate.disposed /\ t.attached = gate.attached /\ t.tracked = gate.tracked
          /\ t.side = [gate.side EXCEPT ![w] = "circuit"] /\ t.late = gate.late
          /\ t.pipe = [gate.pipe EXCEPT ![w] = "closed"]
      BY <1>0, <1>5, <2>2 DEF accept_circuit, GateState, SameBrowser
    <3> HIDE DEF t
    <3>2. Plumbed(t)
      BY <2>1, <3>1 DEF Plumbed, GateState, Sides
    <3> QED
      BY <3>1, <3>2
  <2>3. CASE ~(gate.disposed["circuit"] \/ ~known)
    <3>1. /\ t \in GateState /\ SameBrowser(t, gate)
          /\ t.disposed = gate.disposed /\ t.attached = gate.attached \union {w}
          /\ t.tracked = gate.tracked \union {w}
          /\ t.side = [gate.side EXCEPT ![w] = "circuit"] /\ t.late = gate.late
          /\ t.pipe = [gate.pipe EXCEPT ![w] = "open"]
      BY <1>0, <1>5, <2>3 DEF accept_circuit, GateState, SameBrowser
    <3> HIDE DEF t
    <3>2. Plumbed(t)
      BY <2>1, <2>3, <3>1 DEF Plumbed, GateState, Sides
    <3> QED
      BY <3>1, <3>2
  <2> QED
    BY <2>2, <2>3
<1>6. ASSUME NEW w \in Pipes, NEW threw \in BOOLEAN, NotConnected(w, threw)
      PROVE  t \in GateState /\ Plumbed(t) /\ SameBrowser(t, gate)
  <2>1. PICK end \in {"abandoned", "closed"} :
          /\ t \in GateState /\ SameBrowser(t, gate)
          /\ t.disposed = gate.disposed /\ t.attached = gate.attached /\ t.tracked = gate.tracked
          /\ t.side = gate.side /\ t.late = gate.late /\ t.pipe = [gate.pipe EXCEPT ![w] = end]
    BY <1>6 DEF NotConnected, GateState, SameBrowser
  <2>2. gate.pipe[w] \in {"asking", "lost"}
    BY <1>6 DEF NotConnected
  <2> HIDE DEF t
  <2>3. Plumbed(t)
    BY <2>1, <2>2 DEF Plumbed, GateState, Sides
  <2> QED
    BY <2>1, <2>3
<1>7. CASE dispose_durable
  <2>1. /\ t \in GateState /\ SameBrowser(t, gate)
        /\ t.disposed = [gate.disposed EXCEPT !["durable"] = TRUE]
        /\ t.attached = {w \in gate.attached : gate.side[w] # "durable"}
        /\ t.tracked = {w \in gate.tracked : gate.side[w] # "durable"}
        /\ t.side = gate.side /\ t.late = gate.late
        /\ t.pipe = [w \in Pipes |-> IF w \in gate.tracked /\ gate.side[w] = "durable"
                                     THEN "closed" ELSE gate.pipe[w]]
    BY <1>7 DEF dispose_durable, GateState, SameBrowser
  <2> HIDE DEF t
  <2>2. Plumbed(t)
    BY <2>1 DEF Plumbed, GateState, Sides
  <2> QED
    BY <2>1, <2>2
<1>8. CASE disconnectConnections
  <2>1. /\ t \in GateState /\ SameBrowser(t, gate)
        /\ t.disposed = gate.disposed
        /\ t.attached = gate.attached \ ofCircuit(gate) /\ t.tracked = gate.tracked
        /\ t.side = gate.side /\ t.late = gate.late
        /\ t.pipe = [w \in Pipes |-> IF w \in ofCircuit(gate) THEN "closing" ELSE gate.pipe[w]]
    BY <1>8 DEF disconnectConnections, closed_all, GateState, SameBrowser
  <2> HIDE DEF t
  <2>2. Plumbed(t)
    BY <2>1 DEF Plumbed, GateState, Sides, ofCircuit
  <2> QED
    BY <2>1, <2>2
<1>9. CASE dispose_circuit_application
  <2>1. /\ t \in GateState /\ SameBrowser(t, gate)
        /\ t.disposed = [gate.disposed EXCEPT !["circuit"] = TRUE]
        /\ t.attached = gate.attached \ ofCircuit(gate) /\ t.tracked = gate.tracked \ ofCircuit(gate)
        /\ t.side = gate.side /\ t.late = gate.late
        /\ t.pipe = [w \in Pipes |-> IF w \in ofCircuit(gate) THEN "closing" ELSE gate.pipe[w]]
    <3> DEFINE all == closed_all(gate)
    <3>1. /\ all \in GateState /\ SameBrowser(all, gate) /\ all.disposed = gate.disposed
          /\ all.attached = gate.attached \ ofCircuit(gate) /\ all.tracked = gate.tracked
          /\ all.side = gate.side /\ all.late = gate.late
          /\ all.pipe = [w \in Pipes |-> IF w \in ofCircuit(gate) THEN "closing" ELSE gate.pipe[w]]
      BY DEF closed_all, GateState, SameBrowser
    <3>2. t = [all EXCEPT !.disposed["circuit"] = TRUE, !.tracked = @ \ ofCircuit(gate)]
      BY <1>9 DEF dispose_circuit_application
    <3> HIDE DEF all
    <3> QED
      BY <3>1, <3>2 DEF GateState, SameBrowser
  <2> HIDE DEF t
  <2>2. Plumbed(t)
    BY <2>1 DEF Plumbed, GateState, Sides, ofCircuit
  <2> QED
    BY <2>1, <2>2
<1> QED
  BY <1>1, <1>2, <1>3, <1>4, <1>5, <1>6, <1>7, <1>8, <1>9 DEF ServerStep

LEMMA BrowserAdmits ==
  ASSUME gate \in GateState, Admitting(gate), BrowserStep
  PROVE  gate' \in GateState /\ Admitting(gate') /\ SameServers(gate', gate)
<1> DEFINE t == gate'
<1>1. ASSUME NEW k \in Callers, bootstrap_livehost_browser_session(k)
      PROVE  t \in GateState /\ Admitting(t) /\ SameServers(t, gate)
  <2>1. PICK phase \in {"admitted", "failed"} :
          \/ t = [gate EXCEPT !.caller[k] = phase]
          \/ t = [gate EXCEPT !.caller[k] = "waiting",
                              !.fetches = IF gate.pending THEN @ ELSE @ + 1, !.pending = TRUE]
    BY <1>1 DEF bootstrap_livehost_browser_session
  <2>2. gate.fetches + 1 \in Int /\ gate.pending \in BOOLEAN
    BY DEF GateState
  <2>3. CASE t = [gate EXCEPT !.caller[k] = phase]
    <3>1. /\ t \in GateState /\ SameServers(t, gate) /\ t.caller = [gate.caller EXCEPT ![k] = phase]
          /\ t.fetches = gate.fetches /\ t.pending = gate.pending /\ t.prod = gate.prod
          /\ t.configured = gate.configured
      BY <2>3 DEF GateState, SameServers
    <3> HIDE DEF t
    <3>2. Admitting(t)
      BY <3>1 DEF Admitting, GateState
    <3> QED
      BY <3>1, <3>2
  <2>4. CASE t = [gate EXCEPT !.caller[k] = "waiting",
                              !.fetches = IF gate.pending THEN @ ELSE @ + 1, !.pending = TRUE]
    <3>1. /\ t \in GateState /\ SameServers(t, gate) /\ t.caller = [gate.caller EXCEPT ![k] = "waiting"]
          /\ t.fetches = IF gate.pending THEN gate.fetches ELSE gate.fetches + 1
          /\ t.pending = TRUE /\ t.prod = gate.prod /\ t.configured = gate.configured
      BY <2>2, <2>4 DEF GateState, SameServers
    <3> HIDE DEF t
    <3>2. t.fetches = 1
      BY <2>2, <3>1 DEF Admitting
    <3>3. Admitting(t)
      BY <3>1, <3>2 DEF Admitting, GateState
    <3> QED
      BY <3>1, <3>3
  <2> QED
    BY <2>1, <2>3, <2>4
<1>2. ASSUME NEW k \in Callers, SocketOpened(k)
      PROVE  t \in GateState /\ Admitting(t) /\ SameServers(t, gate)
  <2>1. PICK phase \in {"failed", "connected"} :
          /\ t = [gate EXCEPT !.caller[k] = phase]
          /\ phase = "connected" /\ gate.prod =>
               gate.configured.set /\ (gate.configured.scheme = "wss" \/ gate.configured.local)
    BY <1>2 DEF SocketOpened, resolve_livehost_websocket_base_url
  <2>2. /\ t \in GateState /\ SameServers(t, gate) /\ t.caller = [gate.caller EXCEPT ![k] = phase]
        /\ t.fetches = gate.fetches /\ t.pending = gate.pending /\ t.prod = gate.prod
        /\ t.configured = gate.configured
    BY <2>1 DEF GateState, SameServers
  <2> HIDE DEF t
  <2>3. Admitting(t)
    BY <2>1, <2>2 DEF Admitting, GateState
  <2> QED
    BY <2>2, <2>3
<1>3. ASSUME NEW ok \in BOOLEAN, SessionAnswered(ok)
      PROVE  t \in GateState /\ Admitting(t) /\ SameServers(t, gate)
  <2>1. gate.fetches = 1 /\ gate.pending
    BY <1>3 DEF SessionAnswered, Admitting
  <2> DEFINE called == [k \in Callers |-> IF gate.caller[k] # "waiting" THEN gate.caller[k]
                                          ELSE IF ok THEN "admitted" ELSE "failed"]
  <2>2. called \in [Callers -> {"idle", "failed", "admitted", "connected"}]
        /\ \A k \in Callers : called[k] = "connected" => gate.caller[k] = "connected"
    BY DEF GateState
  <2>3. t = [gate EXCEPT !.pending = FALSE, !.fetches = 0, !.caller = called]
    BY <1>3, <2>1 DEF SessionAnswered
  <2> HIDE DEF called
  <2>4. called \in [Callers -> {"idle", "failed", "waiting", "admitted", "connected"}]
    BY <2>2
  <2>5. /\ t \in GateState /\ SameServers(t, gate) /\ t.pending = FALSE /\ t.fetches = 0
        /\ t.prod = gate.prod /\ t.configured = gate.configured /\ t.caller = called
    <3>1. t.pending = FALSE /\ t.fetches = 0 /\ t.caller = called
      BY <2>3 DEF GateState
    <3>2. t.prod = gate.prod /\ t.configured = gate.configured /\ SameServers(t, gate)
      BY <2>3 DEF GateState, SameServers
    <3>3. t \in GateState
      <4> DEFINE idle == [gate EXCEPT !.pending = FALSE, !.fetches = 0]
      <4>1. idle \in GateState
        <5> DEFINE none == [gate EXCEPT !.fetches = 0]
        <5>1. none \in GateState
          BY DEF GateState
        <5>2. idle = [none EXCEPT !.pending = FALSE]
          BY DEF GateState
        <5> HIDE DEF none, idle
        <5> QED
          BY <5>1, <5>2 DEF GateState
      <4>2. t = [idle EXCEPT !.caller = called]
        BY <2>3 DEF GateState
      <4> HIDE DEF idle, t
      <4> QED
        BY <2>4, <4>1, <4>2 DEF GateState
    <3> QED
      BY <3>1, <3>2, <3>3
  <2> HIDE DEF t
  <2>6. Admitting(t)
    BY <2>2, <2>5 DEF Admitting, GateState
  <2> QED
    BY <2>5, <2>6
<1> QED
  BY <1>1, <1>2, <1>3 DEF BrowserStep

LEMMA GateStep == GateInv /\ [GateNext]_gate => GateInv'
<1> SUFFICES ASSUME GateInv, [GateNext]_gate
             PROVE  gate' \in GateState /\ Plumbed(gate') /\ Admitting(gate')
  BY DEF GateInv, Plumbed, Admitting, GateState, Sides, Configured
<1>1. gate \in GateState /\ Plumbed(gate) /\ Admitting(gate)
  BY DEF GateInv
<1>2. CASE ServerStep
  BY <1>1, <1>2, ServersPlumb, Apart
<1>3. CASE BrowserStep
  BY <1>1, <1>3, BrowserAdmits, Apart
<1>4. CASE UNCHANGED gate
  BY <1>1, <1>4
<1> QED
  BY <1>2, <1>3, <1>4 DEF GateNext

LEMMA GateSound == GateInv => ConnectionsOwned
  BY DEF GateInv, Plumbed, Admitting, ConnectionsOwned
-----------------------------------------------------------------------------
(* The server process and its rooms.                                       *)

Lodging ==
  [live : BOOLEAN, leases : Nat, attached : SUBSET Connections, retained : BOOLEAN, idle : Times]
Links ==
  [phase : {"none", "acquiring", "acquired", "open", "closed"}, room : HostedRooms \union {NoHostedRoom}]
HostState ==
  [now : 0..MaxNow, server : {"towl", "host", "up", "failed", "stopping", "exited"}, towl : {"live", "disposed"},
   circuit : {"none", "live", "disposed"}, room : [HostedRooms -> Lodging],
   connection : [Connections -> Links], late : SUBSET Connections,
   entries : Seq(HostedRooms), idleSince : [HostedRooms -> Times], acquisitions : [HostedRooms -> Int],
   due : Times, sweepNow : Times, left : Seq(HostedRooms), waited : Int]

LEMMA Timing ==
  /\ MaxNow \in Nat /\ 0..MaxNow \subseteq Nat /\ 0..MaxNow \subseteq Times /\ Times \subseteq Int
  /\ 0 \in 0..MaxNow /\ Busy \in Times /\ NeverDue \in Times
  /\ \A n \in 0..MaxNow : n + sweepIntervalMs \in Times
BY HostingAssumption DEF Times, Busy, NeverDue

LEMMA Timed ==
  ASSUME NEW h \in HostState
  PROVE  /\ h.now \in Nat /\ h.sweepNow \in Int /\ h.due \in Int /\ h.waited \in Int
         /\ \A r \in HostedRooms : h.room[r].idle \in Int /\ h.idleSince[r] \in Int
<1>1. h.now \in 0..MaxNow /\ h.sweepNow \in Times /\ h.due \in Times /\ h.waited \in Int
  BY DEF HostState
<1>2. \A r \in HostedRooms : h.room[r].idle \in Times /\ h.idleSince[r] \in Times
  BY DEF HostState, Lodging
<1> QED
  BY <1>1, <1>2, Timing

\* The connections that hold a lease of a room.
holders(h, r) == {c \in Connections : h.connection[c].phase = "acquired" /\ h.connection[c].room = r}

\* The process and its applications: what failed or exited is disposed of, and
\* what is disposed of has let go of its rooms and of its recorded connections.
Staged(h) ==
  /\ h.server = "towl" => h.circuit = "none"
  /\ h.server \in {"failed", "exited"} => h.towl = "disposed"
  /\ h.towl = "disposed" =>
       /\ h.server \in {"failed", "stopping", "exited"} /\ h.circuit # "live"
       /\ h.due = NeverDue /\ h.entries = <<>>
       /\ \A r \in HostedRooms : h.room[r] = Vacant
       /\ \A c \in Connections : h.connection[c].phase \in {"acquired", "open"} => c \in h.late
  /\ h.sweepNow <= h.now
  /\ \A c \in Connections : h.connection[c].phase # "none" => h.connection[c].room \in HostedRooms

\* The registry's count is that of the connections between acquisition and
\* connect; no acquisition of the sweep's is left between two handlers.
Leased(h) ==
  h.towl = "live" =>
    \A r \in HostedRooms : /\ IsFiniteSet(holders(h, r))
                           /\ h.room[r].leases = Cardinality(holders(h, r))
                           /\ ~h.room[r].live => h.room[r].leases = 0

\* The sweep's age of a room it tracks is the time the room is idle for,
\* unless a lease keeps it.
Aged(h, r) ==
  h.room[r].live /\ r \in ToSet(h.entries) /\ h.room[r].leases <= 0 =>
    /\ h.room[r].idle = h.idleSince[r]
    /\ h.room[r].idle = Busy <=> h.room[r].attached # {} \/ h.room[r].retained

Hosted(h) ==
  /\ h \in HostState /\ Staged(h) /\ Leased(h)
  /\ \A r \in HostedRooms : h.acquisitions[r] = 0
  /\ \A r \in HostedRooms : Aged(h, r)

\* The longest a room may have been idle for when the next sweep falls due.
Latest == idleMs - 1 + maxRooms * EvictMs + sweepIntervalMs

\* The sweep's entries are the registry's rooms, each once, within the limit.
Booked(h) ==
  h.towl = "live" =>
    /\ \A i, k \in 1..Len(h.entries) : h.entries[i] = h.entries[k] => i = k
    /\ \A r \in HostedRooms : h.room[r].live <=> r \in ToSet(h.entries)
    /\ Len(h.entries) <= maxRooms

\* A leased room is not idle.
Rested(h) ==
  h.towl = "live" =>
    \A r \in HostedRooms : h.room[r].live /\ h.room[r].leases > 0 => h.room[r].idle = Busy

\* A sweep falls due within an interval or is under way, and has then taken no
\* longer than the rooms it is through with may have cost the registry.
Clocked(h) ==
  h.towl = "live" /\ Scheduled =>
    IF h.sweepNow = NeverDue THEN h.now <= h.due /\ h.due <= h.now + sweepIntervalMs
    ELSE /\ h.due = NeverDue /\ Len(h.left) <= maxRooms - 1 /\ 0 <= h.waited /\ h.waited <= EvictMs
         /\ h.now - h.sweepNow <= (maxRooms - Len(h.left) - 1) * EvictMs + h.waited

\* What is idle will be looked at in time, or was looked at in this sweep and
\* had not been idle for long.
Fresh(h, r) ==
  IF h.sweepNow = NeverDue THEN h.due - h.room[r].idle <= Latest
  ELSE IF r \in ToSet(h.left) THEN h.sweepNow - h.room[r].idle <= Latest
       ELSE h.sweepNow - h.room[r].idle < idleMs
Young(h) ==
  h.towl = "live" /\ Scheduled =>
    \A r \in HostedRooms : h.room[r].live /\ h.room[r].idle # Busy => Fresh(h, r)

Timely(h) == Booked(h) /\ Rested(h) /\ Clocked(h) /\ Young(h)
HostingInv == Hosted(hosting) /\ Timely(hosting)

\* What is left when an element is removed: the elements around its first place.
LEMMA Removed ==
  ASSUME NEW s \in Seq(HostedRooms), NEW e, \E i \in 1..Len(s) : s[i] = e
  PROVE  \E place \in 1..Len(s) :
           /\ s[place] = e
           /\ RemoveFirst(s, e) \in Seq(HostedRooms) /\ Len(RemoveFirst(s, e)) = Len(s) - 1
           /\ \A i \in 1..(Len(s) - 1) :
                RemoveFirst(s, e)[i] = IF i < place THEN s[i] ELSE s[i + 1]
<1> DEFINE I == {i \in 1..Len(s) : s[i] = e}
           place == Min(I)
<1>1. Len(s) \in Nat /\ DOMAIN s = 1..Len(s) /\ \A i \in 1..Len(s) : s[i] \in HostedRooms
  OBVIOUS
<1>2. I # {} /\ I \subseteq Nat
  BY <1>1
<1>3. place \in I
  BY <1>2, Smallest
<1>4. place \in 1..Len(s)
  BY <1>3
<1>11. s[place] = e
  BY <1>3
<1>5. RemoveFirst(s, e) = SubSeq(s, 1, place - 1) \o SubSeq(s, place + 1, Len(s))
  BY <1>2 DEF RemoveFirst, RemoveAt, SelectInSeq
<1> HIDE DEF place, I
<1> DEFINE a == SubSeq(s, 1, place - 1)
           b == SubSeq(s, place + 1, Len(s))
<1>6. a \in Seq(HostedRooms) /\ Len(a) = place - 1 /\ \A i \in 1..Len(a) : a[i] = s[i]
  BY <1>1, <1>4
<1>7. b \in Seq(HostedRooms) /\ Len(b) = Len(s) - place /\ \A i \in 1..Len(b) : b[i] = s[place + i]
  <2>1. place + 1 \in Int /\ Len(s) \in Int /\ \A i \in (place + 1)..Len(s) : s[i] \in HostedRooms
    BY <1>1, <1>4
  <2>2. /\ b \in Seq(HostedRooms) /\ Len(b) = IF place + 1 <= Len(s) THEN Len(s) - (place + 1) + 1 ELSE 0
        /\ \A i \in 1..(Len(s) - (place + 1) + 1) : b[i] = s[(place + 1) + i - 1]
    BY <2>1, SubSeqProperties
  <2> HIDE DEF b
  <2>3. Len(b) = Len(s) - place
    <3>1. place \in Nat /\ place <= Len(s) /\ Len(s) \in Nat
      BY <1>1, <1>4
    <3>2. Len(b) = IF place + 1 <= Len(s) THEN Len(s) - (place + 1) + 1 ELSE 0
      BY <2>2
    <3> QED
      BY <3>1, <3>2
  <2>4. ASSUME NEW i \in 1..(Len(s) - place) PROVE b[i] = s[place + i]
    <3>1. i \in 1..(Len(s) - (place + 1) + 1) /\ (place + 1) + i - 1 = place + i
      BY <1>1, <1>4
    <3>2. b[i] = s[(place + 1) + i - 1]
      BY <2>2, <3>1
    <3> QED
      BY <3>1, <3>2
  <2> QED
    BY <2>2, <2>3, <2>4
<1> HIDE DEF a, b
<1>8. a \o b \in Seq(HostedRooms) /\ Len(a \o b) = Len(s) - 1
  <2>1. a \o b \in Seq(HostedRooms) /\ Len(a \o b) = Len(a) + Len(b)
    BY <1>6, <1>7
  <2>2. place \in Nat
    BY <1>1, <1>4
  <2> QED
    BY <1>1, <1>6, <1>7, <2>1, <2>2
<1>9. ASSUME NEW i \in 1..(Len(s) - 1)
      PROVE  (a \o b)[i] = IF i < place THEN s[i] ELSE s[i + 1]
  <2>1. (a \o b)[i] = IF i <= Len(a) THEN a[i] ELSE b[i - Len(a)]
    BY <1>1, <1>4, <1>6, <1>7
  <2>2. CASE i < place
    <3>1. i \in 1..Len(a)
      BY <1>1, <1>4, <1>6, <2>2
    <3> QED
      BY <1>6, <2>1, <2>2, <3>1
  <2>3. CASE ~(i < place)
    <3>1. i - Len(a) \in 1..Len(b) /\ ~(i <= Len(a)) /\ place + (i - Len(a)) = i + 1
      BY <1>1, <1>4, <1>6, <1>7, <2>3
    <3>2. b[i - Len(a)] = s[place + (i - Len(a))]
      BY <1>7, <3>1
    <3> QED
      BY <2>1, <2>3, <3>1, <3>2
  <2> QED
    BY <2>2, <2>3
<1>10. RemoveFirst(s, e) = a \o b
  BY <1>5 DEF a, b
<1> QED
  BY <1>4, <1>8, <1>9, <1>10, <1>11

\* What is left was there.
LEMMA Removal ==
  ASSUME NEW s \in Seq(HostedRooms), NEW e
  PROVE  RemoveFirst(s, e) \in Seq(HostedRooms) /\ ToSet(RemoveFirst(s, e)) \subseteq ToSet(s)
<1> DEFINE w == RemoveFirst(s, e)
<1>1. Len(s) \in Nat /\ DOMAIN s = 1..Len(s)
  OBVIOUS
<1>2. CASE ~\E i \in 1..Len(s) : s[i] = e
  BY <1>2 DEF RemoveFirst
<1>3. CASE \E i \in 1..Len(s) : s[i] = e
  <2>1. PICK place \in 1..Len(s) : /\ w \in Seq(HostedRooms) /\ Len(w) = Len(s) - 1
                                   /\ \A i \in 1..(Len(s) - 1) : w[i] = IF i < place THEN s[i] ELSE s[i + 1]
    BY <1>3, Removed
  <2> HIDE DEF w
  <2>2. DOMAIN w = 1..(Len(s) - 1)
    BY <2>1
  <2>3. ASSUME NEW i \in 1..(Len(s) - 1) PROVE \E k \in 1..Len(s) : w[i] = s[k]
    <3>1. i \in 1..Len(s) /\ i + 1 \in 1..Len(s)
      BY <1>1
    <3> QED
      BY <2>1, <3>1
  <2>4. ToSet(w) \subseteq ToSet(s)
    BY <1>1, <2>2, <2>3 DEF ToSet
  <2> QED
    BY <2>1, <2>4 DEF w
<1> QED
  BY <1>2, <1>3

\* The time evictions take.
LEMMA Spans ==
  ASSUME NEW a \in Nat, NEW b \in Nat, NEW e \in Nat
  PROVE  a * e \in Nat /\ (a + b) * e = a * e + b * e
OBVIOUS

LEMMA Product ==
  ASSUME NEW a \in Nat, NEW e \in Nat
  PROVE  a * e \in Nat
OBVIOUS

LEMMA Limits ==
  /\ maxRooms \in Nat /\ idleMs \in Nat /\ sweepIntervalMs \in Nat /\ EvictMs \in Nat
  /\ maxRooms >= 1 /\ idleMs >= 1
BY HostingAssumption

LEMMA Budget ==
  /\ maxRooms \in Nat /\ idleMs \in Nat /\ sweepIntervalMs \in Nat /\ EvictMs \in Nat
  /\ maxRooms >= 1 /\ idleMs >= 1 /\ maxRooms * EvictMs \in Nat /\ EvictMs <= maxRooms * EvictMs
  /\ (2 * maxRooms - 1) * EvictMs = 2 * (maxRooms * EvictMs) - EvictMs
  /\ Latest \in Nat /\ sweepIntervalMs <= Latest
<1>1. /\ maxRooms \in Nat /\ idleMs \in Nat /\ sweepIntervalMs \in Nat /\ EvictMs \in Nat
      /\ maxRooms >= 1 /\ idleMs >= 1
  BY HostingAssumption
<1>2. maxRooms - 1 \in Nat /\ 1 \in Nat /\ 1 * EvictMs = EvictMs /\ (maxRooms - 1) + 1 = maxRooms
  BY <1>1
<1>3. (maxRooms - 1) * EvictMs \in Nat /\ maxRooms * EvictMs = (maxRooms - 1) * EvictMs + EvictMs
  <2>1. ((maxRooms - 1) + 1) * EvictMs = (maxRooms - 1) * EvictMs + 1 * EvictMs
    BY <1>1, <1>2, Spans
  <2> QED
    BY <1>1, <1>2, <2>1, Spans
<1>4. (2 * maxRooms - 1) * EvictMs = maxRooms * EvictMs + (maxRooms - 1) * EvictMs
  <2>1. 2 * maxRooms - 1 = maxRooms + (maxRooms - 1)
    BY <1>1
  <2> QED
    BY <1>1, <1>2, <2>1, Spans
<1> DEFINE P == maxRooms * EvictMs
           Q == (maxRooms - 1) * EvictMs
<1>5. P = Q + EvictMs /\ Q \in Nat /\ (2 * maxRooms - 1) * EvictMs = P + Q
  BY <1>3, <1>4
<1>6. Latest = idleMs - 1 + P + sweepIntervalMs
  BY DEF Latest
<1> HIDE DEF P, Q
<1>7. P \in Nat /\ EvictMs <= P /\ P + Q = 2 * P - EvictMs
  BY <1>1, <1>5
<1>8. Latest \in Nat /\ sweepIntervalMs <= Latest
  BY <1>1, <1>6, <1>7
<1> QED
  BY <1>1, <1>5, <1>7, <1>8 DEF P

\* There are as many entries as rooms.
LEMMA Counting ==
  ASSUME NEW h \in HostState, Booked(h), h.towl = "live"
  PROVE  IsFiniteSet(liveRooms(h)) /\ Cardinality(liveRooms(h)) = Len(h.entries)
<1> DEFINE L == liveRooms(h)
           N == 1..Len(h.entries)
<1>1. h.entries \in Seq(HostedRooms) /\ Len(h.entries) \in Nat /\ DOMAIN h.entries = N
  BY DEF HostState
<1>2. \A i \in N : h.entries[i] \in HostedRooms
  BY <1>1
<1>3. L = {h.entries[i] : i \in N}
  <2>1. L = {r \in HostedRooms : r \in ToSet(h.entries)}
    BY DEF Booked, liveRooms
  <2>2. ToSet(h.entries) = {h.entries[i] : i \in N}
    BY <1>1 DEF ToSet
  <2> QED
    BY <1>2, <2>1, <2>2
<1>4. h.entries \in [N -> L]
  BY <1>1, <1>3
<1>5. \A i, k \in N : h.entries[i] = h.entries[k] => i = k
  BY DEF Booked
<1>6. h.entries \in Bijection(N, L)
  <2> HIDE DEF L, N
  <2>1. h.entries \in Injection(N, L)
    BY <1>4, <1>5 DEF Injection, IsInjective
  <2>2. h.entries \in Surjection(N, L)
    BY <1>3, <1>4 DEF Surjection
  <2> QED
    BY <2>1, <2>2 DEF Bijection
<1>7. IsFiniteSet(N) /\ Cardinality(N) = Len(h.entries)
  <2>1. /\ IsFiniteSet(1..Len(h.entries))
        /\ Cardinality(1..Len(h.entries)) = IF 1 > Len(h.entries) THEN 0 ELSE Len(h.entries) - 1 + 1
    BY <1>1, FS_Interval
  <2> QED
    BY <1>1, <2>1
<1> HIDE DEF L, N
<1>8. IsFiniteSet(L) /\ Cardinality(L) = Cardinality(N)
  BY <1>6, <1>7, FS_Bijection DEF ExistsBijection
<1> QED
  BY <1>7, <1>8 DEF L

\* An activity that changes moves no clock; a room then idle was so before or is
\* so from now on.
SameTime(t, h) ==
  /\ t.towl = h.towl /\ t.now = h.now /\ t.due = h.due
  /\ t.sweepNow = h.sweepNow /\ t.left = h.left /\ t.waited = h.waited
Dated(t, h, r) ==
  \/ h.room[r].live /\ t.room[r].idle = h.room[r].idle
  \/ t.room[r].idle = Busy
  \/ t.room[r].idle = h.now

LEMMA Dating ==
  ASSUME NEW h, Hosted(h), Timely(h), NEW t, SameTime(t, h), Booked(t), Rested(t),
         h.towl = "live" => \A r \in HostedRooms : t.room[r].live => Dated(t, h, r)
  PROVE  Timely(t)
<1>1. Clocked(t)
  BY DEF Timely, Clocked, SameTime
<1>2. Young(t)
  <2> SUFFICES ASSUME t.towl = "live", Scheduled, NEW r \in HostedRooms, t.room[r].live, t.room[r].idle # Busy
               PROVE  Fresh(t, r)
    BY DEF Young
  <2>1. h.towl = "live" /\ Dated(t, h, r)
    BY DEF SameTime
  <2>2. h.now \in Nat /\ h.sweepNow \in Int /\ h.due \in Int /\ h.sweepNow <= h.now
    BY Timing DEF Hosted, HostState, Staged
  <2>3. CASE h.room[r].live /\ t.room[r].idle = h.room[r].idle
    BY <2>1, <2>3 DEF Timely, Young, Fresh, SameTime
  <2>4. CASE t.room[r].idle = h.now
    <3>1. h.sweepNow = NeverDue => h.due <= h.now + sweepIntervalMs
      BY <2>1 DEF Timely, Clocked
    <3>2. Latest \in Nat /\ sweepIntervalMs <= Latest /\ idleMs >= 1 /\ idleMs \in Nat /\ sweepIntervalMs \in Nat
      BY Budget
    <3>3. h.sweepNow = NeverDue => h.due - h.now <= Latest
      BY <2>2, <3>1, <3>2
    <3>4. h.sweepNow - h.now <= Latest /\ h.sweepNow - h.now < idleMs
      BY <2>2, <3>2
    <3> QED
      BY <2>4, <3>3, <3>4 DEF Fresh, SameTime
  <2> QED
    BY <2>1, <2>3, <2>4 DEF Dated
<1> QED
  BY <1>1, <1>2 DEF Timely

\* Of what is disposed of nothing is claimed.
LEMMA Untimed ==
  ASSUME NEW t, t.towl = "disposed"
  PROVE  Timely(t)
<1>1. t.towl # "live"
  OBVIOUS
<1> QED
  BY <1>1, Zenon DEF Timely, Booked, Rested, Clocked, Young

\* Where no entry comes or goes the books stay right.
LEMMA Keeping ==
  ASSUME NEW h, Timely(h), NEW t, t.towl = h.towl, t.entries = h.entries,
         \A r \in HostedRooms : t.room[r].live = h.room[r].live
  PROVE  Booked(t)
BY DEF Timely, Booked

LEMMA Stillness ==
  ASSUME NEW h, Hosted(h), Timely(h), NEW t, SameTime(t, h), t.entries = h.entries, t.room = h.room
  PROVE  Timely(t)
<1>1. Booked(t)
  BY Keeping DEF SameTime
<1>2. Rested(t)
  BY DEF Timely, Rested, SameTime
<1>3. \A r \in HostedRooms : t.room[r].live => Dated(t, h, r)
  BY DEF Dated
<1> QED
  BY <1>1, <1>2, <1>3, Dating

\* What a change of activity leaves alone, and what it makes of the ages.
SameHost(t, h) ==
  /\ t.now = h.now /\ t.server = h.server /\ t.towl = h.towl /\ t.circuit = h.circuit
  /\ t.due = h.due /\ t.sweepNow = h.sweepNow /\ t.left = h.left /\ t.waited = h.waited
  /\ t.late = h.late
SameUse(room, old) ==
  room.live = old.live /\ room.leases = old.leases /\ room.attached = old.attached
  /\ room.retained = old.retained
Noted(t, h, r) ==
  /\ t \in HostState /\ SameHost(t, h)
  /\ t.connection = h.connection /\ t.entries = h.entries /\ t.acquisitions = h.acquisitions
  /\ \A s \in HostedRooms : SameUse(t.room[s], h.room[s])
  /\ \A s \in HostedRooms : s # r => t.room[s] = h.room[s] /\ t.idleSince[s] = h.idleSince[s]
  /\ t.idleSince[r] = IF r \in ToSet(h.entries) THEN reconcile(h, r) ELSE h.idleSince[r]
  /\ t.room[r].idle = idle_from(h, r)

LEMMA Noting ==
  ASSUME NEW h \in HostState, NEW r \in HostedRooms
  PROVE  Noted(onChange(h, r), h, r)
<1> DEFINE since == IF r \in ToSet(h.entries) THEN reconcile(h, r) ELSE h.idleSince[r]
           idle == idle_from(h, r)
           t == onChange(h, r)
<1>1. /\ h.now \in Nat /\ h.idleSince \in [HostedRooms -> Times] /\ h.room \in [HostedRooms -> Lodging]
      /\ h.room[r] \in Lodging /\ h.room[r].idle \in Times /\ h.idleSince[r] \in Times
      /\ h.now \in Times
  BY Timing DEF HostState, Lodging
<1>2. since \in Times /\ idle \in Times
  BY <1>1, Timing DEF reconcile, idle_from
<1>3. t = [h EXCEPT !.idleSince[r] = since, !.room[r].idle = idle]
  BY DEF onChange
<1> HIDE DEF since, idle, t
<1>4. /\ t.room = [h.room EXCEPT ![r].idle = idle] /\ t.idleSince = [h.idleSince EXCEPT ![r] = since]
      /\ SameHost(t, h)
      /\ t.connection = h.connection /\ t.entries = h.entries /\ t.acquisitions = h.acquisitions
  BY <1>3 DEF HostState, SameHost
<1>5. [h.room[r] EXCEPT !.idle = idle] \in Lodging
  BY <1>1, <1>2 DEF Lodging
<1>6. t.room \in [HostedRooms -> Lodging] /\ t.idleSince \in [HostedRooms -> Times]
  BY <1>1, <1>2, <1>4, <1>5
<1>7. t \in HostState
  <2> DEFINE a == [h EXCEPT !.idleSince = t.idleSince]
  <2>1. a \in HostState
    BY <1>6 DEF HostState
  <2>2. t = [a EXCEPT !.room = t.room]
    BY <1>3, <1>4 DEF HostState
  <2> HIDE DEF a
  <2> QED
    BY <1>6, <2>1, <2>2 DEF HostState
<1>8. \A s \in HostedRooms : SameUse(t.room[s], h.room[s])
  BY <1>1, <1>4 DEF SameUse, Lodging
<1>9. \A s \in HostedRooms : s # r => t.room[s] = h.room[s] /\ t.idleSince[s] = h.idleSince[s]
  BY <1>1, <1>4
<1>10. t.idleSince[r] = since /\ t.room[r].idle = idle
  BY <1>1, <1>4 DEF Lodging
<1> QED
  BY <1>4, <1>7, <1>8, <1>9, <1>10 DEF Noted, since, idle, t

\* What is noted of a room keeps its time.
LEMMA Noticed ==
  ASSUME NEW h, Hosted(h), Timely(h), NEW r \in HostedRooms, NEW k, SameTime(k, h), k.entries = h.entries,
         \A s \in HostedRooms : k.room[s].live = h.room[s].live,
         \A s \in HostedRooms : s # r => k.room[s] = h.room[s],
         k.room[r].idle = h.room[r].idle \/ k.room[r].idle = Busy,
         NEW t, Noted(t, k, r)
  PROVE  Timely(t)
<1>1. SameTime(t, h) /\ t.entries = h.entries
  BY DEF Noted, SameHost, SameTime
<1>2. \A s \in HostedRooms : t.room[s].live = h.room[s].live
  BY DEF Noted, SameUse
<1>3. Booked(t)
  BY <1>1, <1>2, Keeping DEF SameTime
<1>4. \A s \in HostedRooms : s # r => t.room[s] = h.room[s]
  BY DEF Noted
<1>5. t.room[r].idle = idle_from(k, r) /\ t.room[r].leases = k.room[r].leases /\ k.now = h.now
  BY DEF Noted, SameUse, SameTime
<1>6. Rested(t)
  <2>1. t.room[r].leases > 0 => t.room[r].idle = Busy
    BY <1>5 DEF idle_from, occupied
  <2> QED
    BY <1>1, <1>4, <2>1 DEF Timely, Rested, SameTime
<1>7. ASSUME NEW s \in HostedRooms, t.room[s].live
      PROVE  Dated(t, h, s)
  <2>1. CASE s = r
    BY <1>2, <1>5, <1>7, <2>1 DEF Dated, idle_from
  <2>2. CASE s # r
    BY <1>4, <1>7, <2>2 DEF Dated
  <2> QED
    BY <2>1, <2>2
<1> QED
  BY <1>1, <1>3, <1>6, <1>7, Dating

\* The ages of a room agree, or become so with the next change of activity.
Level(h, r) ==
  h.room[r].live /\ r \in ToSet(h.entries) /\ h.room[r].leases <= 0 =>
    \/ h.room[r].idle = h.idleSince[r]
    \/ h.room[r].idle \in {Busy, h.now} /\ h.idleSince[r] \in {Busy, h.now}

Nearly(h, r) ==
  /\ h \in HostState /\ Staged(h) /\ Leased(h) /\ h.towl = "live"
  /\ \A s \in HostedRooms : h.acquisitions[s] = 0
  /\ \A s \in HostedRooms : s # r => Aged(h, s)
  /\ Level(h, r)

LEMMA Renewed ==
  ASSUME NEW h, NEW r \in HostedRooms, Nearly(h, r)
  PROVE  Hosted(onChange(h, r)) /\ Noted(onChange(h, r), h, r)
<1> DEFINE t == onChange(h, r)
<1>1. Noted(t, h, r)
  BY Noting DEF Nearly
<1> HIDE DEF t
<1>2. \A s \in HostedRooms : holders(t, s) = holders(h, s)
  BY <1>1 DEF Noted, holders
<1>3. Staged(t)
  BY <1>1 DEF Noted, Nearly, Staged, SameHost, SameUse
<1>4. Leased(t)
  BY <1>1, <1>2 DEF Noted, Nearly, Leased, SameHost, SameUse
<1>5. ASSUME NEW s \in HostedRooms, s # r PROVE Aged(t, s)
  BY <1>1, <1>5 DEF Noted, Nearly, Aged
<1>6. Aged(t, r)
  <2> SUFFICES ASSUME t.room[r].live, r \in ToSet(t.entries), t.room[r].leases <= 0
               PROVE  /\ t.room[r].idle = t.idleSince[r]
                      /\ t.room[r].idle = Busy <=> t.room[r].attached # {} \/ t.room[r].retained
    BY DEF Aged
  <2>1. /\ h.room[r].live /\ r \in ToSet(h.entries) /\ h.room[r].leases <= 0
        /\ t.room[r].attached = h.room[r].attached /\ t.room[r].retained = h.room[r].retained
    BY <1>1 DEF Noted, SameUse
  <2>2. h.now \in Nat /\ h.acquisitions[r] = 0 /\ h.room[r].leases \in Int
    BY DEF Nearly, HostState, Lodging
  <2>3. /\ t.idleSince[r] = IF h.room[r].attached # {} \/ h.room[r].retained THEN Busy
                            ELSE IF h.idleSince[r] = Busy THEN h.now ELSE h.idleSince[r]
        /\ t.room[r].idle = IF h.room[r].attached # {} \/ h.room[r].retained THEN Busy
                            ELSE IF h.room[r].idle = Busy THEN h.now ELSE h.room[r].idle
    BY <1>1, <2>1, <2>2 DEF Noted, reconcile, idle_from, occupied
  <2>4. \/ h.room[r].idle = h.idleSince[r]
        \/ h.room[r].idle \in {Busy, h.now} /\ h.idleSince[r] \in {Busy, h.now}
    BY <2>1 DEF Nearly, Level
  <2>5. h.now # Busy
    BY <2>2 DEF Busy
  <2> QED
    BY <2>1, <2>3, <2>4, <2>5
<1>7. t \in HostState /\ \A s \in HostedRooms : t.acquisitions[s] = 0
  BY <1>1 DEF Noted, Nearly
<1> QED
  BY <1>1, <1>3, <1>4, <1>5, <1>6, <1>7 DEF Hosted, t

\* A room is lost only after a whole idle time.
Kept(h, t) ==
  \A r \in HostedRooms :
    h.room[r].live /\ ~t.room[r].live /\ t.towl = "live" =>
      h.room[r].idle # Busy /\ h.now - h.room[r].idle >= idleMs

\* A step that leaves the rooms and their leases alone.
LEMMA Steady ==
  ASSUME NEW h, Hosted(h), NEW t \in HostState, Staged(t),
         t.towl = h.towl, t.room = h.room, t.entries = h.entries, t.idleSince = h.idleSince,
         t.acquisitions = h.acquisitions, \A r \in HostedRooms : holders(t, r) = holders(h, r)
  PROVE  Hosted(t) /\ Kept(h, t)
<1>1. Leased(t)
  BY DEF Hosted, Leased
<1>2. \A r \in HostedRooms : Aged(t, r)
  BY DEF Hosted, Aged
<1> QED
  BY <1>1, <1>2 DEF Hosted, Kept

\* A disposal leaves nothing to keep.
LEMMA Disposed ==
  ASSUME NEW h, NEW t \in HostState, Staged(t), t.towl = "disposed",
         \A r \in HostedRooms : t.acquisitions[r] = 0
  PROVE  Hosted(t) /\ Kept(h, t)
<1>1. \A r \in HostedRooms : ~t.room[r].live
  BY DEF Staged, Vacant
<1> QED
  BY <1>1 DEF Hosted, Leased, Aged, Kept

\* Scheduling a sweep changes when the next one is due, of a live application.
LEMMA Scheduling ==
  ASSUME NEW h \in HostState
  PROVE  \E d \in Times : /\ schedule_next(h) = [h EXCEPT !.due = d]
                          /\ h.towl = "disposed" => d = h.due
                          /\ h.towl = "live" /\ Scheduled /\ h.due = NeverDue =>
                               d = h.now + sweepIntervalMs
<1>1. h.due \in Times /\ h.now \in 0..MaxNow /\ h = [h EXCEPT !.due = h.due]
  BY DEF HostState
<1>2. h.now + sweepIntervalMs \in Times
  BY <1>1, Timing
<1>3. CASE h.towl = "disposed" \/ ~Scheduled \/ h.due # NeverDue
  BY <1>1, <1>3 DEF schedule_next
<1>4. CASE ~(h.towl = "disposed" \/ ~Scheduled \/ h.due # NeverDue)
  BY <1>2, <1>4 DEF schedule_next
<1> QED
  BY <1>3, <1>4

\* The process starts without rooms.
LEMMA HostingBegins == HostingInit => HostingInv
<1> SUFFICES ASSUME HostingInit PROVE Hosted(hosting) /\ Timely(hosting)
  BY DEF HostingInv
<1> DEFINE start ==
      [now |-> 0, server |-> "towl", towl |-> "live", circuit |-> "none",
       room |-> [r \in HostedRooms |-> Vacant],
       connection |-> [c \in Connections |-> [phase |-> "none", room |-> NoHostedRoom]],
       late |-> {}, entries |-> <<>>, idleSince |-> [r \in HostedRooms |-> Busy],
       acquisitions |-> [r \in HostedRooms |-> 0],
       due |-> NeverDue, sweepNow |-> NeverDue, left |-> <<>>, waited |-> 0]
<1>1. hosting = schedule_next(start)
  BY Zenon DEF HostingInit
<1>2. Vacant \in Lodging /\ ~Vacant.live /\ Vacant.leases = 0
  BY Timing DEF Vacant, Lodging
<1>3. start \in HostState
  BY <1>2, Timing DEF HostState, Links
<1>4. \A r \in HostedRooms : holders(start, r) = {}
  BY DEF holders
<1>5. IsFiniteSet({}) /\ Cardinality({}) = 0
  BY FS_EmptySet
<1>6. Staged(start) /\ start.towl = "live"
  BY DEF Staged, NeverDue
<1>7. \A r \in HostedRooms : start.room[r] = Vacant /\ start.acquisitions[r] = 0
  OBVIOUS
<1> HIDE DEF start
<1>8. Leased(start) /\ \A r \in HostedRooms : Aged(start, r)
  BY <1>2, <1>4, <1>5, <1>7 DEF Leased, Aged
<1>9. Hosted(start)
  BY <1>3, <1>6, <1>7, <1>8 DEF Hosted
<1>10. PICK d \in Times : /\ hosting = [start EXCEPT !.due = d]
                          /\ start.towl = "disposed" => d = start.due
                          /\ start.towl = "live" /\ Scheduled /\ start.due = NeverDue =>
                               d = start.now + sweepIntervalMs
  BY <1>1, <1>3, Scheduling
<1>11. /\ hosting.due = d /\ hosting \in HostState /\ hosting.towl = "live" /\ hosting.server = start.server
       /\ hosting.circuit = start.circuit /\ hosting.now = start.now /\ hosting.sweepNow = start.sweepNow
       /\ hosting.room = start.room /\ hosting.connection = start.connection
       /\ hosting.entries = start.entries /\ hosting.idleSince = start.idleSince
       /\ hosting.acquisitions = start.acquisitions
  <2>1. hosting = [start EXCEPT !.due = d]
    BY <1>10
  <2>2. hosting \in HostState
    BY <1>3, <2>1 DEF HostState
  <2>3. /\ hosting.due = d /\ hosting.towl = start.towl /\ hosting.server = start.server
        /\ hosting.circuit = start.circuit /\ hosting.now = start.now /\ hosting.sweepNow = start.sweepNow
        /\ hosting.room = start.room /\ hosting.connection = start.connection
        /\ hosting.entries = start.entries /\ hosting.idleSince = start.idleSince
        /\ hosting.acquisitions = start.acquisitions
    BY <1>3, <2>1 DEF HostState
  <2> QED
    BY <1>6, <2>2, <2>3
<1>14. start.entries = <<>> /\ start.now = 0 /\ start.due = NeverDue /\ start.sweepNow = NeverDue
  BY DEF start
<1>15. Booked(hosting)
  <2>1. hosting.entries = <<>> /\ \A r \in HostedRooms : ~hosting.room[r].live
    BY <1>2, <1>7, <1>11, <1>14
  <2>2. ToSet(hosting.entries) = {} /\ Len(hosting.entries) = 0 /\ 1..Len(hosting.entries) = {}
    BY <2>1 DEF ToSet
  <2> QED
    BY <2>1, <2>2, Budget DEF Booked
<1>16. Clocked(hosting)
  <2>1. Scheduled => hosting.due = sweepIntervalMs
    BY <1>6, <1>10, <1>11, <1>14, Budget
  <2> QED
    BY <1>11, <1>14, <2>1, Budget DEF Clocked
<1>17. Timely(hosting)
  BY <1>2, <1>7, <1>11, <1>15, <1>16 DEF Timely, Rested, Young
<1>12. Staged(hosting)
  BY <1>6, <1>11 DEF Staged
<1>13. \A r \in HostedRooms : holders(hosting, r) = holders(start, r)
  BY <1>11 DEF holders
<1> QED
  BY <1>6, <1>9, <1>11, <1>12, <1>13, <1>17, Steady

HostStepped == HostingInv' /\ Kept(hosting, hosting')

Unmoved(t, h) ==
  /\ t.towl = h.towl /\ t.room = h.room /\ t.connection = h.connection
  /\ t.entries = h.entries /\ t.idleSince = h.idleSince /\ t.acquisitions = h.acquisitions
  /\ t.sweepNow = h.sweepNow /\ t.due = h.due /\ t.now >= h.now
  /\ h.server \in {"towl", "host", "up", "stopping"} /\ t.server \in {"host", "up", "stopping"}
  /\ t.late = h.late
  /\ h.towl = "disposed" => t.server = h.server /\ t.circuit = h.circuit

\* The clock may go on, not past what is due.
Clicks(t, h) ==
  /\ t.left = h.left
  /\ \/ t.now = h.now /\ t.waited = h.waited
     \/ /\ t.now = h.now + 1 /\ h.due # h.now
        /\ IF h.sweepNow = NeverDue THEN t.waited = h.waited
           ELSE h.waited < EvictMs /\ t.waited = h.waited + 1

LEMMA Clicking ==
  ASSUME NEW h, Hosted(h), Timely(h), NEW t, Unmoved(t, h), Clicks(t, h)
  PROVE  Timely(t)
<1>1. Booked(t)
  BY Keeping DEF Unmoved
<1>2. Rested(t) /\ Young(t)
  BY DEF Unmoved, Clicks, Timely, Rested, Young, Fresh
<1>3. Clocked(t)
  <2> SUFFICES ASSUME t.towl = "live", Scheduled PROVE Clocked(t)
    BY DEF Clocked
  <2>1. /\ h.towl = "live" /\ t.sweepNow = h.sweepNow /\ t.due = h.due /\ t.left = h.left
    BY DEF Unmoved, Clicks
  <2>2. h.now \in Nat /\ h.waited \in Int /\ h.due \in Int /\ h.sweepNow \in Int
    BY Timing DEF Hosted, HostState
  <2>3. CASE t.now = h.now /\ t.waited = h.waited
    BY <2>1, <2>3 DEF Timely, Clocked
  <2>4. CASE h.sweepNow = NeverDue /\ t.now = h.now + 1 /\ h.due # h.now
    <3>1. h.now <= h.due /\ h.due <= h.now + sweepIntervalMs
      BY <2>1, <2>4 DEF Timely, Clocked
    <3>2. t.now <= h.due /\ h.due <= t.now + sweepIntervalMs
      BY <2>2, <2>4, <3>1, Budget
    <3> QED
      BY <2>1, <2>4, <3>2 DEF Clocked
  <2>5. CASE h.sweepNow # NeverDue /\ t.now = h.now + 1 /\ h.waited < EvictMs /\ t.waited = h.waited + 1
    <3> DEFINE spent == (maxRooms - Len(h.left) - 1) * EvictMs
    <3>1. /\ h.due = NeverDue /\ Len(h.left) <= maxRooms - 1 /\ 0 <= h.waited
          /\ h.now - h.sweepNow <= spent + h.waited
      BY <2>1, <2>5 DEF Timely, Clocked
    <3>2. spent \in Int
      <4>1. Len(h.left) \in Nat
        BY DEF Hosted, HostState
      <4>2. maxRooms \in Int /\ EvictMs \in Int
        BY HostingAssumption
      <4>3. maxRooms - Len(h.left) - 1 \in Int
        BY <4>1, <4>2
      <4> QED
        BY <4>2, <4>3
    <3>3. t.now - t.sweepNow <= spent + t.waited /\ 0 <= t.waited /\ t.waited <= EvictMs
      <4> HIDE DEF spent
      <4>1. EvictMs \in Nat
        BY HostingAssumption
      <4>2. t.now - t.sweepNow = (h.now - h.sweepNow) + 1 /\ t.waited = h.waited + 1
        BY <2>1, <2>2, <2>5
      <4>3. h.now - h.sweepNow \in Int /\ h.now - h.sweepNow <= spent + h.waited
        BY <2>2, <3>1
      <4>4. 0 <= h.waited /\ h.waited < EvictMs /\ h.waited \in Int
        BY <2>2, <2>5, <3>1
      <4> QED
        BY <3>2, <4>1, <4>2, <4>3, <4>4
    <3> QED
      BY <2>1, <2>5, <3>1, <3>3 DEF Clocked
  <2> QED
    BY <2>3, <2>4, <2>5 DEF Clicks
<1> QED
  BY <1>1, <1>2, <1>3 DEF Timely

\* Startup, signals and the clock leave rooms and connections alone.
LEMMA LifecycleSteps ==
  ASSUME HostingInv, CircuitReady \/ HostStarts \/ handleSignal \/ (Serving /\ Tick)
  PROVE  HostStepped
<1> DEFINE h == hosting
           t == hosting'
<1>1. h \in HostState /\ Staged(h) /\ Hosted(h) /\ Timely(h)
  BY DEF HostingInv, Hosted
<1>2. t \in HostState /\ Unmoved(t, h)
  <2>1. CASE CircuitReady
    <3> DEFINE k == [h EXCEPT !.server = "host"]
    <3>1. t = [k EXCEPT !.circuit = "live"] /\ h.server = "towl"
      BY <2>1 DEF CircuitReady
    <3> HIDE DEF h, t
    <3>0. h.now \in Nat
      BY <1>1 DEF HostState
    <3>2. k \in HostState
      BY <1>1 DEF HostState
    <3>4. Unmoved(k, h) /\ h.towl # "disposed"
      BY <1>1, <3>0, <3>1 DEF HostState, Unmoved, Staged
    <3> HIDE DEF k
    <3>3. t \in HostState
      BY <3>1, <3>2 DEF HostState
    <3> QED
      BY <3>1, <3>2, <3>3, <3>4 DEF HostState, Unmoved
  <2>2. CASE HostStarts
    <3>0. h.now \in Nat
      BY <1>1 DEF HostState
    <3>1. t = [h EXCEPT !.server = "up"] /\ h.server = "host"
      BY <2>2 DEF HostStarts
    <3> HIDE DEF h, t
    <3>2. t \in HostState
      BY <1>1, <3>1 DEF HostState
    <3>3. /\ t.towl = h.towl /\ t.room = h.room /\ t.connection = h.connection
          /\ t.entries = h.entries /\ t.idleSince = h.idleSince /\ t.acquisitions = h.acquisitions
          /\ t.sweepNow = h.sweepNow /\ t.due = h.due /\ t.now = h.now /\ t.server = "up"
          /\ t.late = h.late
      BY <1>1, <3>1 DEF HostState
    <3> QED
      BY <1>1, <3>0, <3>1, <3>2, <3>3 DEF Unmoved, Staged
  <2>3. CASE handleSignal
    <3>0. h.now \in Nat
      BY <1>1 DEF HostState
    <3>1. t = [h EXCEPT !.server = "stopping"] /\ h.server = "up"
      BY <2>3 DEF handleSignal
    <3> HIDE DEF h, t
    <3>2. t \in HostState
      BY <1>1, <3>1 DEF HostState
    <3>3. /\ t.towl = h.towl /\ t.room = h.room /\ t.connection = h.connection
          /\ t.entries = h.entries /\ t.idleSince = h.idleSince /\ t.acquisitions = h.acquisitions
          /\ t.sweepNow = h.sweepNow /\ t.due = h.due /\ t.now = h.now /\ t.server = "stopping"
          /\ t.late = h.late
      BY <1>1, <3>1 DEF HostState
    <3> QED
      BY <1>1, <3>0, <3>1, <3>2, <3>3 DEF Unmoved, Staged
  <2>4. CASE Serving /\ Tick
    <3>1. h.now \in Nat /\ h.waited \in Int
      BY <1>1 DEF HostState
    <3> DEFINE k == IF Sweeping THEN h.waited + 1 ELSE h.waited
    <3>2. k \in Int
      BY <3>1
    <3>3. /\ t = [h EXCEPT !.now = h.now + 1, !.waited = k] /\ h.server \in {"up", "stopping"}
          /\ h.now < MaxNow
      BY <2>4 DEF Tick, Serving
    <3> HIDE DEF k, h, t
    <3> DEFINE a == [h EXCEPT !.now = h.now + 1]
    <3>4. h.now + 1 \in 0..MaxNow
      BY <3>1, <3>3, Timing
    <3>5. a \in HostState
      BY <1>1, <3>4 DEF HostState
    <3>6. Unmoved(a, h)
      BY <1>1, <3>1, <3>3 DEF HostState, Unmoved
    <3>7. t = [a EXCEPT !.waited = k]
      BY <3>3
    <3> HIDE DEF a
    <3>8. t \in HostState
      BY <3>2, <3>5, <3>7 DEF HostState
    <3> QED
      BY <3>2, <3>5, <3>6, <3>7, <3>8 DEF HostState, Unmoved
  <2> QED
    BY <2>1, <2>2, <2>3, <2>4
<1>7. Clicks(t, h)
  <2>1. CASE CircuitReady \/ HostStarts \/ handleSignal
    <3>1. \/ t = [h EXCEPT !.server = "host", !.circuit = "live"]
          \/ t = [h EXCEPT !.server = "up"]
          \/ t = [h EXCEPT !.server = "stopping"]
      BY <2>1 DEF CircuitReady, HostStarts, handleSignal
    <3> HIDE DEF h, t
    <3> QED
      BY <1>1, <3>1 DEF HostState, Clicks
  <2>2. CASE Tick
    <3> DEFINE k == IF Sweeping THEN h.waited + 1 ELSE h.waited
    <3>1. /\ t = [h EXCEPT !.now = h.now + 1, !.waited = k] /\ h.due # h.now
          /\ h.sweepNow # NeverDue => h.waited < EvictMs
          /\ k = IF h.sweepNow = NeverDue THEN h.waited ELSE h.waited + 1
      BY <2>2 DEF Tick, Sweeping
    <3> HIDE DEF k, h, t
    <3>2. t.left = h.left /\ t.now = h.now + 1 /\ t.waited = k
      BY <1>1, <3>1 DEF HostState
    <3> QED
      BY <3>1, <3>2 DEF Clicks
  <2> QED
    BY <2>1, <2>2
<1> HIDE DEF h, t
<1>8. Timely(t)
  BY <1>1, <1>2, <1>7, Clicking
<1>3. h.sweepNow \in Int /\ h.now \in Nat /\ t.now \in Nat
  BY <1>1, <1>2, Timing DEF HostState
<1>4. Staged(t)
  BY <1>1, <1>2, <1>3 DEF Staged, Unmoved
<1>5. \A r \in HostedRooms : holders(t, r) = holders(h, r)
  BY <1>2 DEF holders, Unmoved
<1>6. Hosted(t) /\ Kept(h, t)
  BY <1>1, <1>2, <1>4, <1>5, Steady DEF Unmoved
<1> QED
  BY <1>6, <1>8 DEF HostStepped, HostingInv, h, t

Rest(t, h) ==
  /\ t.now = h.now /\ t.server = h.server /\ t.circuit = h.circuit
  /\ t.sweepNow = h.sweepNow /\ t.acquisitions = h.acquisitions

\* A start that fails and a shutdown dispose of the rooms and close every
\* connection.
LEMMA DisposalSteps ==
  ASSUME HostingInv, CircuitFails \/ HostFails \/ ApplicationsDisposed
  PROVE  HostStepped
<1> DEFINE h == hosting
           t == hosting'
           ends == [c \in Connections |-> [h.connection[c] EXCEPT !.phase = Ended(@)]]
           admitted == {c \in Connections : h.connection[c].phase = "acquired"}
           k == [h EXCEPT !.towl = "disposed", !.due = NeverDue, !.entries = <<>>,
                          !.room = [r \in HostedRooms |-> Vacant], !.late = admitted,
                          !.connection = ends]
<1>1. h \in HostState /\ Staged(h) /\ \A r \in HostedRooms : h.acquisitions[r] = 0
  BY DEF HostingInv, Hosted
<1>2. dispose_towl(h) = k
  BY DEF dispose_towl
<1>3. /\ ends \in [Connections -> Links]
      /\ \A c \in Connections : /\ ends[c].phase # "open" /\ ends[c].room = h.connection[c].room
                                /\ ends[c].phase = "none" <=> h.connection[c].phase = "none"
                                /\ ends[c].phase = "acquired" => c \in admitted
  <2>1. ASSUME NEW c \in Connections
        PROVE  h.connection[c] \in Links
    BY <1>1 DEF HostState
  <2> QED
    BY <2>1 DEF Ended, Links
<1>0. admitted \in SUBSET Connections
  OBVIOUS
<1> HIDE DEF ends, admitted
<1>4. Vacant \in Lodging /\ ~Vacant.live
  BY Timing DEF Vacant, Lodging
<1>5. /\ k \in HostState /\ k.towl = "disposed" /\ k.due = NeverDue /\ k.connection = ends
      /\ k.room = [r \in HostedRooms |-> Vacant] /\ k.entries = <<>> /\ k.late = admitted
      /\ k.now = h.now /\ k.server = h.server /\ k.circuit = h.circuit
      /\ k.sweepNow = h.sweepNow /\ k.acquisitions = h.acquisitions
  <2> DEFINE a == [h EXCEPT !.towl = "disposed"]
             b == [a EXCEPT !.due = NeverDue]
             c == [b EXCEPT !.entries = <<>>]
             d == [c EXCEPT !.room = [r \in HostedRooms |-> Vacant]]
             e == [d EXCEPT !.late = admitted]
  <2>1. k = [e EXCEPT !.connection = ends]
    OBVIOUS
  <2>2. a \in HostState /\ a.towl = "disposed" /\ Rest(a, h)
    BY <1>1 DEF HostState, Rest
  <2> HIDE DEF k, a
  <2>3. NeverDue \in Times
    BY Timing
  <2>4. b \in HostState /\ b.towl = a.towl /\ b.due = NeverDue /\ Rest(b, a)
    BY <2>2, <2>3 DEF HostState, Rest
  <2> HIDE DEF b
  <2>5. c \in HostState /\ c.towl = b.towl /\ c.due = b.due /\ c.entries = <<>> /\ Rest(c, b)
    <3>1. <<>> \in Seq(HostedRooms)
      OBVIOUS
    <3>2. c \in HostState
      BY <2>4, <3>1 DEF HostState
    <3> QED
      BY <2>4, <3>2 DEF HostState, Rest
  <2> HIDE DEF c
  <2>6. [r \in HostedRooms |-> Vacant] \in [HostedRooms -> Lodging]
    BY <1>4
  <2>7. d \in HostState
    BY <2>5, <2>6 DEF HostState
  <2>8. d.towl = c.towl /\ d.due = c.due /\ d.room = [r \in HostedRooms |-> Vacant] /\ d.entries = c.entries
        /\ Rest(d, c)
    BY <2>5 DEF HostState, Rest
  <2> HIDE DEF d
  <2>11. e \in HostState
    BY <1>0, <2>7 DEF HostState
  <2>12. e.late = admitted /\ e.towl = d.towl /\ e.due = d.due /\ e.room = d.room /\ e.entries = d.entries /\ Rest(e, d)
    BY <2>7 DEF HostState, Rest
  <2> HIDE DEF e
  <2>9. k \in HostState
    BY <1>3, <2>1, <2>11 DEF HostState
  <2>10. k.towl = e.towl /\ k.due = e.due /\ k.room = e.room /\ k.entries = e.entries
         /\ k.connection = ends /\ k.late = e.late /\ Rest(k, e)
    BY <2>1, <2>11 DEF HostState, Rest
  <2> QED
    BY <2>2, <2>4, <2>5, <2>8, <2>9, <2>10, <2>12 DEF Rest
<1> HIDE DEF k
<1>6. /\ t = [k EXCEPT !.server = t.server, !.circuit = t.circuit]
      /\ t.server \in {"failed", "stopping"} /\ t.circuit \in {"none", "disposed"}
  <2>1. CASE CircuitFails
    <3>1. t = [k EXCEPT !.server = "failed"] /\ h.server = "towl"
      BY <1>2, <2>1 DEF CircuitFails
    <3> HIDE DEF h, t
    <3> QED
      BY <1>1, <1>5, <3>1 DEF HostState, Staged
  <2>2. CASE HostFails
    <3>1. t = [[k EXCEPT !.circuit = "disposed"] EXCEPT !.server = "failed"]
      BY <1>2, <2>2 DEF HostFails, dispose_circuit
    <3> HIDE DEF h, t
    <3> QED
      BY <1>5, <3>1 DEF HostState
  <2>3. CASE ApplicationsDisposed
    <3>1. t = [k EXCEPT !.circuit = "disposed"] /\ h.server = "stopping"
      BY <1>2, <2>3 DEF ApplicationsDisposed, dispose_circuit
    <3> HIDE DEF h, t
    <3> QED
      BY <1>5, <3>1 DEF HostState
  <2> QED
    BY <2>1, <2>2, <2>3
<1> HIDE DEF h, t
<1>7. /\ t \in HostState /\ t.towl = k.towl /\ t.due = k.due /\ t.connection = k.connection /\ t.room = k.room
      /\ t.entries = k.entries /\ t.late = k.late
      /\ t.now = k.now /\ t.sweepNow = k.sweepNow /\ t.acquisitions = k.acquisitions
  BY <1>5, <1>6 DEF HostState
<1>8. Staged(t)
  <2>1. t.server \notin {"towl", "exited"} /\ t.circuit # "live" /\ \A r \in HostedRooms : t.room[r] = Vacant
    BY <1>5, <1>6, <1>7
  <2>2. \A c \in Connections : /\ t.connection[c].phase # "open"
                               /\ t.connection[c].phase = "acquired" => c \in t.late
                               /\ t.connection[c].phase # "none" => t.connection[c].room \in HostedRooms
    <3> TAKE c \in Connections
    <3>1. t.connection[c] = ends[c]
      BY <1>5, <1>7
    <3>2. h.connection[c].phase # "none" => h.connection[c].room \in HostedRooms
      BY <1>1 DEF Staged
    <3>3. ends[c].phase # "open"
      BY <1>3
    <3>5. ends[c].room = h.connection[c].room
      BY <1>3
    <3>4. ends[c].phase # "none" => h.connection[c].phase # "none"
      BY <1>3
    <3>6. ends[c].phase = "acquired" => c \in t.late
      BY <1>3, <1>5, <1>7
    <3> QED
      BY <3>1, <3>2, <3>3, <3>4, <3>5, <3>6
  <2>3. t.sweepNow <= t.now
    BY <1>1, <1>5, <1>7 DEF Staged
  <2>4. t.towl = "disposed" /\ t.due = NeverDue /\ t.entries = <<>>
    BY <1>5, <1>7
  <2>5. t.server \in {"failed", "stopping"}
    BY <1>6
  <2> QED
    BY <2>1, <2>2, <2>3, <2>4, <2>5 DEF Staged
<1>9. Hosted(t) /\ Kept(h, t)
  BY <1>1, <1>5, <1>7, <1>8, Disposed
<1>11. t.towl = "disposed"
  BY <1>5, <1>7
<1>10. Timely(t)
  BY <1>11, Untimed
<1> QED
  BY <1>9, <1>10 DEF HostStepped, HostingInv, h, t

\* The process exits when its applications are disposed of.
LEMMA ExitStep ==
  ASSUME HostingInv, Stopped
  PROVE  HostStepped
<1> DEFINE h == hosting
           t == hosting'
<1>1. h \in HostState /\ Staged(h) /\ \A r \in HostedRooms : h.acquisitions[r] = 0
  BY DEF HostingInv, Hosted
<1>2. t = [h EXCEPT !.server = "exited"] /\ h.towl = "disposed"
  BY DEF Stopped
<1> HIDE DEF h, t
<1>3. /\ t \in HostState /\ t.server = "exited" /\ t.towl = h.towl /\ t.circuit = h.circuit
      /\ t.due = h.due /\ t.entries = h.entries /\ t.room = h.room /\ t.connection = h.connection
      /\ t.late = h.late /\ t.sweepNow = h.sweepNow /\ t.now = h.now /\ t.acquisitions = h.acquisitions
  BY <1>1, <1>2 DEF HostState
<1>4. Staged(t)
  BY <1>1, <1>2, <1>3 DEF Staged
<1>5. Hosted(t) /\ Kept(h, t)
  BY <1>1, <1>2, <1>3, <1>4, Disposed
<1>6. Timely(t)
  BY <1>2, <1>3, Untimed
<1> QED
  BY <1>5, <1>6 DEF HostStepped, HostingInv, h, t

\* A connection that is accepted holds nothing yet; one that is refused never
\* does, nor one whose room is gone.
LEMMA AdmissionSteps ==
  ASSUME HostingInv, NEW c \in Connections,
         \/ Refused(c) \/ \E r \in HostedRooms : accept(c, r)
         \/ \E retained \in BOOLEAN : Disconnected(c, retained) /\ ~hosting.room[hosting.connection[c].room].live
  PROVE  HostStepped
<1> DEFINE h == hosting
           t == hosting'
<1>1. h \in HostState /\ Staged(h) /\ Hosted(h) /\ Timely(h)
  BY DEF HostingInv, Hosted
<1>2. h.connection \in [Connections -> Links] /\ h.connection[c] \in Links
  BY <1>1 DEF HostState
<1>3. PICK link \in Links : /\ t = [h EXCEPT !.connection[c] = link]
                            /\ link.phase \in {"acquiring", "closed"}
                            /\ link.room \in HostedRooms
                            /\ h.connection[c].phase \in {"none", "acquiring", "open"}
  <2>1. CASE Refused(c)
    <3> DEFINE link == [h.connection[c] EXCEPT !.phase = "closed"]
    <3>1. h.connection[c].phase = "acquiring" /\ t = [h EXCEPT !.connection[c].phase = "closed"]
      BY <2>1 DEF Refused
    <3>2. t = [h EXCEPT !.connection[c] = link]
      BY <3>1
    <3>3. h.connection[c].room \in HostedRooms
      BY <1>1, <3>1 DEF Staged
    <3>4. link \in Links /\ link.phase = "closed" /\ link.room \in HostedRooms
      BY <1>2, <3>3 DEF Links
    <3> QED
      BY <3>1, <3>2, <3>4
  <2>2. CASE \E r \in HostedRooms : accept(c, r)
    <3> PICK r \in HostedRooms : accept(c, r)
      BY <2>2
    <3> DEFINE link == [phase |-> IF h.towl = "disposed" THEN "closed" ELSE "acquiring", room |-> r]
    <3>1. t = [h EXCEPT !.connection[c] = link] /\ h.connection[c].phase = "none"
      BY DEF accept
    <3>2. link \in Links /\ link.phase \in {"acquiring", "closed"} /\ link.room \in HostedRooms
      BY DEF Links
    <3> HIDE DEF link, h, t
    <3> QED
      BY <3>1, <3>2
  <2>3. CASE \E retained \in BOOLEAN : Disconnected(c, retained) /\ ~h.room[h.connection[c].room].live
    <3> DEFINE link == [h.connection[c] EXCEPT !.phase = "closed"]
    <3>1. h.connection[c].phase = "open" /\ t = [h EXCEPT !.connection[c].phase = "closed"]
      BY <2>3 DEF Disconnected
    <3>2. t = [h EXCEPT !.connection[c] = link]
      BY <3>1
    <3>3. h.connection[c].room \in HostedRooms
      BY <1>1, <3>1 DEF Staged
    <3>4. link \in Links /\ link.phase = "closed" /\ link.room \in HostedRooms
      BY <1>2, <3>3 DEF Links
    <3> QED
      BY <3>1, <3>2, <3>4
  <2> QED
    BY <2>1, <2>2, <2>3
<1> HIDE DEF h, t
<1>4. /\ t.connection = [h.connection EXCEPT ![c] = link]
      /\ t.towl = h.towl /\ t.room = h.room /\ t.server = h.server /\ t.circuit = h.circuit
      /\ t.entries = h.entries /\ t.idleSince = h.idleSince /\ t.acquisitions = h.acquisitions
      /\ t.sweepNow = h.sweepNow /\ t.due = h.due /\ t.now = h.now
      /\ t.left = h.left /\ t.waited = h.waited /\ t.late = h.late
  BY <1>1, <1>3 DEF HostState
<1>5. t.connection \in [Connections -> Links]
  BY <1>2, <1>3, <1>4
<1>6. t \in HostState
  <2>1. t = [h EXCEPT !.connection = t.connection]
    BY <1>1, <1>3, <1>4 DEF HostState
  <2> QED
    BY <1>1, <1>5, <2>1 DEF HostState
<1>7. \A d \in Connections : d # c => t.connection[d] = h.connection[d]
  BY <1>2, <1>4
<1>8. t.connection[c] = link
  BY <1>2, <1>4
<1>9. Staged(t)
  BY <1>1, <1>3, <1>4, <1>7, <1>8 DEF Staged
<1>10. \A r \in HostedRooms : holders(t, r) = holders(h, r)
  BY <1>3, <1>7, <1>8 DEF holders
<1>11. Hosted(t) /\ Kept(h, t)
  BY <1>1, <1>4, <1>6, <1>9, <1>10, Steady
<1>12. Timely(t)
  BY <1>1, <1>4, Stillness DEF SameTime
<1> QED
  BY <1>11, <1>12 DEF HostStepped, HostingInv, h, t

Departing(k, h, r) ==
  /\ k \in HostState /\ SameHost(k, h)
  /\ k.entries = h.entries /\ k.idleSince = h.idleSince /\ k.acquisitions = h.acquisitions
  /\ \A s \in HostedRooms : s # r => k.room[s] = h.room[s]
  /\ k.room[r].live = h.room[r].live /\ k.room[r].leases = h.room[r].leases
  /\ k.room[r].idle = h.room[r].idle
  /\ \A d \in Connections :
       \/ k.connection[d] = h.connection[d]
       \/ h.connection[d].phase = "open" /\ k.connection[d].phase = "closed"
          /\ k.connection[d].room = h.connection[d].room

\* A socket that closes and a session that expires change the activity of their
\* room, whose entry follows.
LEMMA DepartureSteps ==
  ASSUME HostingInv,
         \/ \E c \in Connections, retained \in BOOLEAN :
              Disconnected(c, retained) /\ hosting.room[hosting.connection[c].room].live
         \/ \E r \in HostedRooms : SessionExpires(r)
  PROVE  HostStepped
<1> DEFINE h == hosting
           t == hosting'
<1>1. h \in HostState /\ Hosted(h) /\ Timely(h) /\ Staged(h) /\ Leased(h) /\ \A r \in HostedRooms : Aged(h, r)
  BY DEF HostingInv, Hosted
<1>2. /\ h.room \in [HostedRooms -> Lodging] /\ h.connection \in [Connections -> Links]
      /\ h.entries \in Seq(HostedRooms) /\ h.idleSince \in [HostedRooms -> Times]
      /\ h.acquisitions \in [HostedRooms -> Int]
  BY <1>1 DEF HostState
<1>0. h.towl = "live"
  <2>1. \E r \in HostedRooms : h.room[r].live \/ h.room[r].retained
    <3>1. ASSUME NEW c \in Connections, h.connection[c].phase = "open", h.room[h.connection[c].room].live
          PROVE  \E r \in HostedRooms : h.room[r].live \/ h.room[r].retained
      BY <1>1, <3>1 DEF Staged
    <3> QED
      BY <3>1 DEF Disconnected, SessionExpires
  <2> HIDE DEF h
  <2>2. h.towl \in {"live", "disposed"}
    BY <1>1 DEF HostState
  <2> QED
    BY <1>1, <2>1, <2>2 DEF Staged, Vacant
<1>3. \E r \in HostedRooms : \E k : t = onChange(k, r) /\ Departing(k, h, r)
  <2>1. ASSUME NEW c \in Connections, NEW retained \in BOOLEAN, Disconnected(c, retained),
               hosting.room[hosting.connection[c].room].live
        PROVE  \E r \in HostedRooms : \E k : t = onChange(k, r) /\ Departing(k, h, r)
    <3> DEFINE r == h.connection[c].room
               lodge == [h.room[r] EXCEPT !.attached = @ \ {c}, !.retained = @ \/ retained]
               link == [h.connection[c] EXCEPT !.phase = "closed"]
               k == [h EXCEPT !.connection[c].phase = "closed",
                              !.room[r].attached = @ \ {c}, !.room[r].retained = @ \/ retained]
    <3>1. t = onChange(k, r) /\ h.connection[c].phase = "open"
      BY <2>1 DEF Disconnected
    <3>2. r \in HostedRooms
      BY <1>1, <3>1 DEF Staged
    <3>3. h.room[r] \in Lodging /\ h.connection[c] \in Links
      BY <1>2, <3>2
    <3> HIDE DEF r, h, t
    <3>4. lodge \in Lodging /\ lodge.live = h.room[r].live /\ lodge.leases = h.room[r].leases
          /\ lodge.idle = h.room[r].idle
      BY <3>3 DEF Lodging
    <3>5. link \in Links /\ link.phase = "closed" /\ link.room = h.connection[c].room
      BY <3>3 DEF Links
    <3>6. k.room = [h.room EXCEPT ![r] = lodge]
      BY <1>1, <1>2, <3>2 DEF HostState
    <3>7. k.connection = [h.connection EXCEPT ![c] = link]
      BY <1>1, <1>2 DEF HostState
    <3>8. k.entries = h.entries /\ k.idleSince = h.idleSince /\ k.acquisitions = h.acquisitions
      BY <1>1 DEF HostState
    <3>10. k.room \in [HostedRooms -> Lodging] /\ k.connection \in [Connections -> Links]
      <4> HIDE DEF k, link, lodge
      <4> QED
        BY <1>2, <3>2, <3>4, <3>5, <3>6, <3>7
    <3>9. SameHost(k, h)
      BY <1>1 DEF HostState, SameHost
    <3>11. k \in HostState
      BY <1>1, <3>6, <3>7, <3>8, <3>9, <3>10 DEF HostState, SameHost
    <3> HIDE DEF k, link, lodge
    <3>12. k.room[r] = lodge /\ \A s \in HostedRooms : s # r => k.room[s] = h.room[s]
      BY <1>2, <3>2, <3>6
    <3>13. k.connection[c] = link /\ \A d \in Connections : d # c => k.connection[d] = h.connection[d]
      BY <1>2, <3>7
    <3>14. Departing(k, h, r)
      BY <3>1, <3>4, <3>5, <3>8, <3>9, <3>11, <3>12, <3>13 DEF Departing
    <3> QED
      BY <3>1, <3>2, <3>14
  <2>2. ASSUME NEW r \in HostedRooms, SessionExpires(r)
        PROVE  \E s \in HostedRooms : \E k : t = onChange(k, s) /\ Departing(k, h, s)
    <3> DEFINE lodge == [h.room[r] EXCEPT !.retained = FALSE]
               k == [h EXCEPT !.room[r].retained = FALSE]
    <3>1. t = onChange(k, r)
      BY <2>2 DEF SessionExpires
    <3>3. h.room[r] \in Lodging
      BY <1>2
    <3> HIDE DEF h, t
    <3>4. lodge \in Lodging /\ lodge.live = h.room[r].live /\ lodge.leases = h.room[r].leases
          /\ lodge.idle = h.room[r].idle
      BY <3>3 DEF Lodging
    <3>6. k.room = [h.room EXCEPT ![r] = lodge]
      BY <1>1, <1>2 DEF HostState
    <3>8. k.entries = h.entries /\ k.idleSince = h.idleSince /\ k.acquisitions = h.acquisitions
          /\ k.connection = h.connection
      BY <1>1 DEF HostState
    <3>10. k.room \in [HostedRooms -> Lodging]
      <4> HIDE DEF k, lodge
      <4> QED
        BY <1>2, <3>4, <3>6
    <3>9. SameHost(k, h)
      BY <1>1 DEF HostState, SameHost
    <3>11. k \in HostState
      BY <1>1, <3>6, <3>8, <3>9, <3>10 DEF HostState, SameHost
    <3> HIDE DEF k, lodge
    <3>12. k.room[r] = lodge /\ \A s \in HostedRooms : s # r => k.room[s] = h.room[s]
      BY <1>2, <3>6
    <3>14. Departing(k, h, r)
      BY <3>4, <3>8, <3>9, <3>11, <3>12 DEF Departing
    <3> QED
      BY <3>1, <3>14
  <2> QED
    BY <2>1, <2>2
<1> HIDE DEF h, t
<1> PICK r \in HostedRooms : \E k_ : t = onChange(k_, r) /\ Departing(k_, h, r)
  BY <1>3
<1>4. PICK k : t = onChange(k, r) /\ Departing(k, h, r)
  OBVIOUS
<1>5. k \in HostState /\ SameHost(k, h)
  BY <1>4 DEF Departing
<1>6. \A s \in HostedRooms : holders(k, s) = holders(h, s)
  BY <1>4 DEF Departing, holders
<1>7. \A s \in HostedRooms : k.room[s].live = h.room[s].live /\ k.room[s].leases = h.room[s].leases
  BY <1>4 DEF Departing
<1>8. Staged(k)
  <2>1. \A d \in Connections : k.connection[d].phase = "open" => h.connection[d].phase = "open"
    BY <1>4 DEF Departing
  <2>2. \A d \in Connections : k.connection[d].phase # "none" => k.connection[d].room \in HostedRooms
    BY <1>1, <1>4 DEF Departing, Staged
  <2> QED
    BY <1>0, <1>1, <1>5, <1>7, <2>1, <2>2 DEF Staged, SameHost
<1>9. Leased(k)
  BY <1>1, <1>5, <1>6, <1>7 DEF Leased, SameHost
<1>10. \A s \in HostedRooms : s # r => Aged(k, s)
  BY <1>1, <1>4 DEF Departing, Aged
<1>11. Level(k, r)
  BY <1>1, <1>4 DEF Departing, Level, Aged
<1>12. \A s \in HostedRooms : k.acquisitions[s] = 0
  BY <1>1, <1>4 DEF Departing, Hosted
<1>13. Nearly(k, r)
  BY <1>0, <1>5, <1>8, <1>9, <1>10, <1>11, <1>12 DEF Nearly, SameHost
<1>14. Hosted(t) /\ Noted(t, k, r)
  BY <1>4, <1>13, Renewed
<1>15. Kept(h, t)
  BY <1>7, <1>14 DEF Noted, SameUse, Kept
<1>16. Timely(t)
  <2>1. SameTime(k, h)
    BY <1>5 DEF SameHost, SameTime
  <2>2. /\ k.entries = h.entries /\ k.room[r].idle = h.room[r].idle
        /\ \A s \in HostedRooms : s # r => k.room[s] = h.room[s]
    BY <1>4 DEF Departing
  <2> QED
    BY <1>1, <1>7, <1>14, <2>1, <2>2, Noticed
<1> QED
  BY <1>14, <1>15, <1>16 DEF HostStepped, HostingInv, h, t

\* What is appended is there besides what was.
LEMMA Appending ==
  ASSUME NEW s \in Seq(HostedRooms), NEW e \in HostedRooms
  PROVE  Append(s, e) \in Seq(HostedRooms) /\ ToSet(Append(s, e)) = ToSet(s) \union {e}
<1> DEFINE w == Append(s, e)
<1>1. /\ w \in Seq(HostedRooms) /\ Len(w) = Len(s) + 1 /\ Len(s) \in Nat
      /\ DOMAIN s = 1..Len(s) /\ DOMAIN w = 1..(Len(s) + 1)
  OBVIOUS
<1>2. w[Len(s) + 1] = e /\ \A i \in 1..Len(s) : w[i] = s[i]
  OBVIOUS
<1> HIDE DEF w
<1>3. \A i \in 1..(Len(s) + 1) : i = Len(s) + 1 \/ i \in 1..Len(s)
  BY <1>1
<1>4. Len(s) + 1 \in 1..(Len(s) + 1) /\ \A i \in 1..Len(s) : i \in 1..(Len(s) + 1)
  BY <1>1
<1>5. ToSet(w) = ToSet(s) \union {e}
  BY <1>1, <1>2, <1>3, <1>4 DEF ToSet
<1> QED
  BY <1>1, <1>5 DEF w

\* A room that is created within the limit is booked once.
LEMMA Booking ==
  ASSUME NEW h \in HostState, Booked(h), h.towl = "live", NEW r \in HostedRooms, ~h.room[r].live,
         Cardinality(liveRooms(h)) < maxRooms, NEW t, t.entries = Append(h.entries, r), t.room[r].live,
         \A s \in HostedRooms : s # r => t.room[s].live = h.room[s].live
  PROVE  Booked(t)
<1> DEFINE n == Len(h.entries)
<1>0. h.entries \in Seq(HostedRooms) /\ n = Cardinality(liveRooms(h))
  BY Counting DEF HostState
<1>1. h.entries \in Seq(HostedRooms) /\ n \in Nat /\ n = Cardinality(liveRooms(h))
  BY <1>0
<1>2. Len(t.entries) = n + 1 /\ t.entries[n + 1] = r /\ \A i \in 1..n : t.entries[i] = h.entries[i]
  BY <1>1
<1>3. ToSet(t.entries) = ToSet(h.entries) \union {r}
  BY <1>1, Appending
<1>4. \A i \in 1..n : h.entries[i] # r
  <2>1. r \notin ToSet(h.entries)
    BY DEF Booked
  <2>2. DOMAIN h.entries = 1..n
    BY <1>1
  <2> QED
    BY <2>1, <2>2 DEF ToSet
<1>5. \A i, k \in 1..n : h.entries[i] = h.entries[k] => i = k
  BY DEF Booked
<1> HIDE DEF n
<1>6. \A i \in 1..(n + 1) : i = n + 1 \/ i \in 1..n
  BY <1>1
<1>7. \A i, k \in 1..Len(t.entries) : t.entries[i] = t.entries[k] => i = k
  BY <1>2, <1>4, <1>5, <1>6
<1>8. \A s \in HostedRooms : t.room[s].live <=> s \in ToSet(t.entries)
  <2>1. \A s \in HostedRooms : h.room[s].live <=> s \in ToSet(h.entries)
    BY DEF Booked
  <2> QED
    BY <1>3, <2>1
<1>9. Len(t.entries) <= maxRooms
  BY <1>1, <1>2, Budget
<1> QED
  BY <1>7, <1>8, <1>9 DEF Booked

\* A room the registry has, whether it had it or creates and tracks it, with
\* the rest of the state as it was.
Provided(b, h, r) ==
  /\ Hosted(b) /\ b.connection = h.connection /\ b.towl = h.towl
  /\ b.room[r].live /\ \A s \in HostedRooms : h.room[s].live => b.room[s].live
  /\ SameHost(b, h) /\ \A s \in HostedRooms : s # r => b.room[s] = h.room[s]
  /\ b.entries = IF h.room[r].live THEN h.entries ELSE Append(h.entries, r)

LEMMA Creation ==
  ASSUME NEW h, Hosted(h), h.towl = "live", NEW r \in HostedRooms, ~h.room[r].live
  PROVE  Provided(track([h EXCEPT !.room[r] = [Vacant EXCEPT !.live = TRUE]], r), h, r)
<1> DEFINE fresh == [Vacant EXCEPT !.live = TRUE]
           opened == [h EXCEPT !.room[r] = fresh]
           k == [opened EXCEPT !.entries = Append(@, r), !.idleSince[r] = opened.now, !.acquisitions[r] = 0]
<1>1. h \in HostState /\ Staged(h) /\ Leased(h) /\ \A s \in HostedRooms : h.acquisitions[s] = 0 /\ Aged(h, s)
  BY DEF Hosted
<1>2. /\ h.room \in [HostedRooms -> Lodging] /\ h.entries \in Seq(HostedRooms)
      /\ h.idleSince \in [HostedRooms -> Times] /\ h.acquisitions \in [HostedRooms -> Int]
      /\ h.now \in Nat
  BY <1>1 DEF HostState
<1>3. fresh \in Lodging /\ fresh.live /\ fresh.leases = 0 /\ fresh.idle = Busy
  <2>1. Vacant \in Lodging /\ Vacant.leases = 0 /\ Vacant.idle = Busy
    BY Timing DEF Vacant, Lodging
  <2>2. fresh \in Lodging
    BY <2>1 DEF Lodging
  <2> QED
    BY <2>1, <2>2 DEF Lodging
<1> HIDE DEF fresh
<1>4. /\ opened \in HostState /\ SameHost(opened, h) /\ opened.room = [h.room EXCEPT ![r] = fresh]
      /\ opened.connection = h.connection /\ opened.entries = h.entries
      /\ opened.idleSince = h.idleSince /\ opened.acquisitions = h.acquisitions
  <2>1. opened \in HostState
    BY <1>1, <1>2, <1>3 DEF HostState
  <2> QED
    BY <1>1, <2>1 DEF HostState, SameHost
<1> HIDE DEF opened
<1>5. Append(h.entries, r) \in Seq(HostedRooms) /\ ToSet(Append(h.entries, r)) \subseteq ToSet(h.entries) \union {r}
  BY <1>2, Appending
<1>6. /\ k.room = opened.room /\ k.connection = opened.connection /\ SameHost(k, opened)
      /\ k.entries = Append(h.entries, r)
  BY <1>4 DEF HostState, SameHost
<1>7. /\ k.idleSince = [h.idleSince EXCEPT ![r] = h.now]
      /\ k.acquisitions = [h.acquisitions EXCEPT ![r] = 0]
  BY <1>4 DEF HostState, SameHost
<1>8. k \in HostState
  <2> DEFINE since == [h.idleSince EXCEPT ![r] = h.now]
             counts == [h.acquisitions EXCEPT ![r] = 0]
  <2>1. since \in [HostedRooms -> Times] /\ counts \in [HostedRooms -> Int]
    <3>1. h.now \in 0..MaxNow
      BY DEF Hosted, HostState
    <3>2. h.now \in Times
      BY <3>1, Timing
    <3> QED
      BY <1>2, <3>2
  <2>2. k.idleSince = since /\ k.acquisitions = counts
    BY <1>7
  <2> HIDE DEF since, counts
  <2> QED
    BY <1>4, <1>5, <1>6, <2>1, <2>2 DEF HostState, SameHost
<1>9. track(opened, r) = onChange(k, r)
  BY DEF track
<1> HIDE DEF k
<1>10. k.room[r] = fresh /\ \A s \in HostedRooms : s # r => k.room[s] = h.room[s]
  BY <1>2, <1>4, <1>6
<1>11. \A s \in HostedRooms : holders(k, s) = holders(h, s)
  BY <1>4, <1>6 DEF holders
<1>12. SameHost(k, h) /\ k.connection = h.connection
  BY <1>4, <1>6 DEF SameHost
<1>13. Staged(k)
  BY <1>1, <1>12 DEF Staged, SameHost
<1>14. Leased(k)
  BY <1>1, <1>3, <1>10, <1>11, <1>12 DEF Leased, SameHost
<1>15. ASSUME NEW s \in HostedRooms, s # r PROVE Aged(k, s)
  <2>1. s \in ToSet(k.entries) => s \in ToSet(h.entries)
    BY <1>5, <1>6, <1>15
  <2>2. k.room[s] = h.room[s] /\ k.idleSince[s] = h.idleSince[s]
    BY <1>2, <1>7, <1>10, <1>15
  <2> QED
    BY <1>1, <2>1, <2>2 DEF Aged
<1>16. Level(k, r)
  BY <1>2, <1>3, <1>7, <1>10, <1>12 DEF Level, SameHost
<1>17. \A s \in HostedRooms : k.acquisitions[s] = 0
  BY <1>1, <1>2, <1>7
<1>18. Nearly(k, r)
  BY <1>8, <1>12, <1>13, <1>14, <1>15, <1>16, <1>17 DEF Nearly, SameHost
<1> DEFINE b == onChange(k, r)
<1>19. Hosted(b) /\ Noted(b, k, r)
  BY <1>18, Renewed
<1> HIDE DEF b
<1>20. b.room[r].live /\ \A s \in HostedRooms : h.room[s].live => b.room[s].live
  BY <1>3, <1>10, <1>19 DEF Noted, SameUse
<1>21. b.connection = h.connection /\ b.towl = h.towl
  BY <1>12, <1>19 DEF Noted, SameHost
<1>23. SameHost(b, h) /\ \A s \in HostedRooms : s # r => b.room[s] = h.room[s]
  BY <1>10, <1>12, <1>19 DEF Noted, SameHost
<1>24. b.entries = Append(h.entries, r)
  BY <1>6, <1>19 DEF Noted
<1>22. Provided(b, h, r)
  BY <1>19, <1>20, <1>21, <1>23, <1>24 DEF Provided
<1> QED
  BY <1>9, <1>22 DEF b, opened, fresh

\* A lease is taken of a room the registry has.
LEMMA AcquisitionStep ==
  ASSUME HostingInv, NEW c \in Connections, Acquired(c)
  PROVE  HostStepped
<1> DEFINE h == hosting
           t == hosting'
           r == h.connection[c].room
<1>1. Hosted(h) /\ Timely(h) /\ Staged(h) /\ h \in HostState
  BY DEF HostingInv, Hosted
<1>2. /\ h.connection[c].phase = "acquiring" /\ h.towl = "live"
      /\ h.room[r].live \/ Cardinality(liveRooms(h)) < maxRooms
  BY DEF Acquired
<1>3. r \in HostedRooms
  BY <1>1, <1>2 DEF Staged
<1>4. PICK b : /\ Provided(b, h, r)
               /\ t = [b EXCEPT !.room[r].leases = @ + 1, !.room[r].idle = Busy,
                                !.connection[c].phase = "acquired"]
  <2>1. CASE h.room[r].live
    <3>1. Provided(h, h, r)
      BY <1>1, <2>1 DEF Provided, SameHost
    <3> QED
      BY <2>1, <3>1 DEF Acquired
  <2>2. CASE ~h.room[r].live
    <3> DEFINE b == track([h EXCEPT !.room[r] = [Vacant EXCEPT !.live = TRUE]], r)
    <3>1. t = [b EXCEPT !.room[r].leases = @ + 1, !.room[r].idle = Busy,
                        !.connection[c].phase = "acquired"]
      BY <2>2 DEF Acquired
    <3> HIDE DEF h, t, r
    <3>2. Provided(b, h, r)
      BY <1>1, <1>2, <1>3, <2>2, Creation
    <3> HIDE DEF b
    <3> QED
      BY <3>1, <3>2
  <2> QED
    BY <2>1, <2>2
<1> HIDE DEF h, t, r
<1>5. /\ b \in HostState /\ Staged(b) /\ Leased(b) /\ b.towl = "live" /\ b.room[r].live
      /\ b.connection = h.connection
      /\ \A s \in HostedRooms : b.acquisitions[s] = 0 /\ Aged(b, s)
  BY <1>2, <1>4 DEF Provided, Hosted
<1>6. /\ b.room \in [HostedRooms -> Lodging] /\ b.connection \in [Connections -> Links]
      /\ b.room[r] \in Lodging /\ b.connection[c] \in Links
  BY <1>3, <1>5 DEF HostState
<1> DEFINE lodge == [b.room[r] EXCEPT !.leases = @ + 1, !.idle = Busy]
           link == [b.connection[c] EXCEPT !.phase = "acquired"]
<1>7. /\ lodge \in Lodging /\ lodge.live = b.room[r].live /\ lodge.leases = b.room[r].leases + 1
      /\ lodge.idle = Busy
  <2>1. b.room[r].leases + 1 \in Nat /\ Busy \in Times
    BY <1>6, Timing DEF Lodging
  <2>2. lodge \in Lodging
    BY <1>6, <2>1 DEF Lodging
  <2> QED
    BY <1>6, <2>2 DEF Lodging
<1>8. link \in Links /\ link.phase = "acquired" /\ link.room = r
  BY <1>5, <1>6 DEF Links, r
<1>9. t.room = [b.room EXCEPT ![r] = lodge]
  BY <1>3, <1>4, <1>5, <1>6 DEF HostState
<1>10. t.connection = [b.connection EXCEPT ![c] = link]
  BY <1>4, <1>5, <1>6 DEF HostState
<1>11. t.entries = b.entries /\ t.idleSince = b.idleSince /\ t.acquisitions = b.acquisitions /\ SameHost(t, b)
  BY <1>4, <1>5 DEF HostState, SameHost
<1> HIDE DEF lodge, link
<1>12. t.room \in [HostedRooms -> Lodging] /\ t.connection \in [Connections -> Links]
  BY <1>3, <1>6, <1>7, <1>8, <1>9, <1>10
<1>13. t \in HostState
  BY <1>4, <1>5, <1>9, <1>10, <1>11, <1>12 DEF HostState, SameHost
<1>14. t.room[r] = lodge /\ \A s \in HostedRooms : s # r => t.room[s] = b.room[s]
  BY <1>3, <1>6, <1>9
<1>15. t.connection[c] = link /\ \A d \in Connections : d # c => t.connection[d] = b.connection[d]
  BY <1>6, <1>10
<1>16. Staged(t)
  BY <1>3, <1>5, <1>8, <1>11, <1>15 DEF Staged, SameHost
<1>17. \A s \in HostedRooms : s # r => holders(t, s) = holders(b, s)
  BY <1>2, <1>5, <1>8, <1>15 DEF holders
<1>18. holders(t, r) = holders(b, r) \union {c} /\ c \notin holders(b, r)
  BY <1>2, <1>5, <1>8, <1>15 DEF holders
<1>19. IsFiniteSet(holders(b, r)) /\ b.room[r].leases = Cardinality(holders(b, r))
  BY <1>3, <1>5 DEF Leased
<1>20. /\ IsFiniteSet(holders(t, r)) /\ lodge.leases = Cardinality(holders(t, r))
       /\ lodge.leases \in Nat \ {0}
  BY <1>7, <1>18, <1>19, FS_AddElement, FS_CardinalityType
<1>21. Leased(t)
  BY <1>5, <1>7, <1>14, <1>17, <1>20 DEF Leased
<1>22. Aged(t, r)
  BY <1>14, <1>20 DEF Aged
<1>23. \A s \in HostedRooms : s # r => Aged(t, s)
  BY <1>5, <1>11, <1>14 DEF Aged
<1>24. Hosted(t)
  BY <1>5, <1>11, <1>13, <1>16, <1>21, <1>22, <1>23 DEF Hosted
<1>25. Kept(h, t)
  BY <1>4, <1>5, <1>7, <1>14 DEF Kept, Provided
<1>26. SameTime(t, h) /\ \A s \in HostedRooms : s # r => t.room[s] = h.room[s]
  BY <1>4, <1>11, <1>14 DEF Provided, SameHost, SameTime
<1>27. t.room[r].live /\ t.room[r].idle = Busy
  BY <1>5, <1>7, <1>14
<1>28. Booked(t)
  <2>1. CASE h.room[r].live
    <3>1. t.entries = h.entries /\ t.towl = h.towl
      BY <1>4, <1>11, <1>26, <2>1 DEF Provided, SameTime
    <3>2. \A s \in HostedRooms : t.room[s].live = h.room[s].live
      <4>1. t.room[r].live = h.room[r].live
        <5>1. t.room[r].live = b.room[r].live /\ b.room[r].live \in BOOLEAN /\ h.room[r].live \in BOOLEAN
          BY <1>1, <1>3, <1>6, <1>7, <1>14 DEF HostState, Lodging
        <5> QED
          BY <1>5, <2>1, <5>1, Zenon
      <4> QED
        BY <1>26, <4>1
    <3> QED
      BY <1>1, <3>1, <3>2, Keeping
  <2>2. CASE ~h.room[r].live
    <3>1. t.entries = Append(h.entries, r)
      BY <1>4, <1>11, <2>2 DEF Provided
    <3> QED
      BY <1>1, <1>2, <1>3, <1>26, <1>27, <2>2, <3>1, Booking DEF Timely
  <2> QED
    BY <2>1, <2>2
<1>29. Rested(t)
  BY <1>1, <1>2, <1>26, <1>27 DEF Timely, Rested
<1>30. \A s \in HostedRooms : t.room[s].live => Dated(t, h, s)
  BY <1>26, <1>27 DEF Dated
<1>31. Timely(t)
  BY <1>1, <1>26, <1>28, <1>29, <1>30, Dating
<1> QED
  BY <1>24, <1>25, <1>31 DEF HostStepped, HostingInv, h, t

\* An acquisition of the sweep's has begun of a leased room: the room is busy,
\* and so is its entry.
Acquiring(b, h, r) ==
  /\ b \in HostState /\ SameHost(b, h)
  /\ b.connection = h.connection /\ b.entries = h.entries
  /\ b.acquisitions = [h.acquisitions EXCEPT ![r] = 1]
  /\ \A s \in HostedRooms : s # r => b.room[s] = h.room[s] /\ b.idleSince[s] = h.idleSince[s]
  /\ b.room[r].live = h.room[r].live /\ b.room[r].leases = h.room[r].leases
  /\ b.room[r].idle = Busy
  /\ r \in ToSet(h.entries) => b.idleSince[r] = Busy

LEMMA Beginning ==
  ASSUME NEW h \in HostState, NEW r \in HostedRooms, h.acquisitions[r] = 0, h.room[r].leases > 0,
         r \in ToSet(h.entries)
  PROVE  Acquiring(beginAcquisition(h, r), h, r)
<1> DEFINE k == [h EXCEPT !.acquisitions[r] = @ + 1]
           b == onChange(k, r)
<1>1. beginAcquisition(h, r) = b
  BY DEF beginAcquisition
<1>2. h.acquisitions \in [HostedRooms -> Int] /\ h.room \in [HostedRooms -> Lodging]
  BY DEF HostState
<1>3. /\ k.room = h.room /\ k.connection = h.connection /\ k.entries = h.entries /\ k.idleSince = h.idleSince
      /\ SameHost(k, h)
  BY DEF HostState, SameHost
<1>4. k.acquisitions = [h.acquisitions EXCEPT ![r] = 1]
  BY <1>2 DEF HostState
<1>5. k \in HostState
  <2> DEFINE counts == [h.acquisitions EXCEPT ![r] = 1]
  <2>1. counts \in [HostedRooms -> Int]
    BY <1>2
  <2>2. k.acquisitions = counts
    BY <1>4
  <2> HIDE DEF counts
  <2> QED
    BY <1>3, <2>1, <2>2 DEF HostState, SameHost
<1> HIDE DEF k
<1>6. Noted(b, k, r)
  BY <1>5, Noting
<1> HIDE DEF b
<1>7. k.acquisitions[r] = 1
  BY <1>2, <1>4
<1>8. reconcile(k, r) = Busy
  BY <1>7 DEF reconcile
<1>9. idle_from(k, r) = Busy
  BY <1>3 DEF idle_from, occupied
<1>10. SameHost(b, h) /\ b \in HostState
  BY <1>3, <1>6 DEF Noted, SameHost
<1>11. Acquiring(b, h, r)
  BY <1>3, <1>4, <1>6, <1>8, <1>9, <1>10 DEF Acquiring, Noted, SameUse
<1> QED
  BY <1>1, <1>11

\* So it stays when the session of the connection is attached.
LEMMA Attaching ==
  ASSUME NEW h \in HostState, NEW r \in HostedRooms, NEW c \in Connections, NEW b, Acquiring(b, h, r),
         h.room[r].leases > 0, h.room[r].live
  PROVE  Acquiring(attach(b, c, r), h, r)
<1> DEFINE k == [b EXCEPT !.room[r].attached = @ \union {c}]
           lodge == [b.room[r] EXCEPT !.attached = @ \union {c}]
           a == onChange(k, r)
<1>1. attach(b, c, r) = a
  <2>1. b.room[r].live
    BY DEF Acquiring
  <2> QED
    BY <2>1 DEF attach
<1>2. b \in HostState /\ b.room \in [HostedRooms -> Lodging] /\ b.room[r] \in Lodging
      /\ h.acquisitions \in [HostedRooms -> Int]
  BY DEF Acquiring, HostState
<1>3. lodge \in Lodging /\ lodge.live = b.room[r].live /\ lodge.leases = b.room[r].leases
  BY <1>2 DEF Lodging
<1>4. /\ k.room = [b.room EXCEPT ![r] = lodge] /\ k.connection = b.connection /\ k.entries = b.entries
      /\ k.idleSince = b.idleSince /\ k.acquisitions = b.acquisitions /\ SameHost(k, b)
  BY <1>2 DEF HostState, SameHost
<1>5. k \in HostState
  <2>1. k.room \in [HostedRooms -> Lodging]
    <3> HIDE DEF lodge, k
    <3> QED
      BY <1>2, <1>3, <1>4
  <2> QED
    BY <1>2, <1>4, <2>1 DEF HostState, SameHost
<1> HIDE DEF k, lodge
<1>6. Noted(a, k, r)
  BY <1>5, Noting
<1> HIDE DEF a
<1>7. k.acquisitions[r] = 1
  BY <1>2, <1>4 DEF Acquiring
<1>8. reconcile(k, r) = Busy
  BY <1>7 DEF reconcile
<1>9. k.room[r] = lodge /\ \A s \in HostedRooms : s # r => k.room[s] = b.room[s]
  BY <1>2, <1>4
<1>10. idle_from(k, r) = Busy
  BY <1>3, <1>9 DEF idle_from, occupied, Acquiring
<1>11. SameHost(a, h) /\ a \in HostState
  BY <1>4, <1>6 DEF Noted, SameHost, Acquiring
<1>12. /\ a.connection = h.connection /\ a.entries = h.entries
       /\ a.acquisitions = [h.acquisitions EXCEPT ![r] = 1]
  BY <1>4, <1>6 DEF Noted, Acquiring
<1>13. a.room[r].live = h.room[r].live /\ a.room[r].leases = h.room[r].leases /\ a.room[r].idle = Busy
  BY <1>3, <1>6, <1>9, <1>10 DEF Noted, Acquiring, SameUse
<1>14. \A s \in HostedRooms : s # r => a.room[s] = h.room[s] /\ a.idleSince[s] = h.idleSince[s]
  BY <1>4, <1>6, <1>9 DEF Noted, Acquiring
<1>15. r \in ToSet(h.entries) => a.idleSince[r] = Busy
  BY <1>4, <1>6, <1>8 DEF Noted, Acquiring
<1>16. Acquiring(a, h, r)
  BY <1>11, <1>12, <1>13, <1>14, <1>15 DEF Acquiring
<1> QED
  BY <1>1, <1>16

\* When the connect is over, whatever became of it, the lease is returned and
\* the ages of the room agree again.
LEMMA Returning ==
  ASSUME NEW h, Hosted(h), Timely(h), h.towl = "live", NEW c \in Connections, h.connection[c].phase = "acquired",
         NEW phase \in {"open", "closed"}, NEW b, Acquiring(b, h, h.connection[c].room),
         h.room[h.connection[c].room].live, h.connection[c].room \in ToSet(h.entries)
  PROVE  LET r == h.connection[c].room
             t == endAcquisition([release(b, r) EXCEPT !.connection[c].phase = phase], r)
         IN Hosted(t) /\ Timely(t) /\ Kept(h, t)
<1> DEFINE r == h.connection[c].room
           f == [b EXCEPT !.room[r].leases = @ - 1, !.connection[c].phase = phase]
           k == [f EXCEPT !.acquisitions[r] = IF @ > 0 THEN @ - 1 ELSE 0]
           t == onChange(k, r)
           lodge == [b.room[r] EXCEPT !.leases = @ - 1]
           link == [b.connection[c] EXCEPT !.phase = phase]
<1>1. endAcquisition([release(b, r) EXCEPT !.connection[c].phase = phase], r) = t
  <2>1. b.room[r].live /\ b.entries = h.entries /\ b \in HostState
    BY DEF Acquiring
  <2>2. [release(b, r) EXCEPT !.connection[c].phase = phase] = f
    BY <2>1 DEF release
  <2>3. r \in ToSet(f.entries)
    BY <2>1 DEF HostState
  <2> HIDE DEF f, r
  <2> QED
    BY <2>2, <2>3 DEF endAcquisition
<1>2. /\ h \in HostState /\ Staged(h) /\ Leased(h)
      /\ \A s \in HostedRooms : h.acquisitions[s] = 0 /\ Aged(h, s)
  BY DEF Hosted
<1>3. r \in HostedRooms
  BY <1>2 DEF Staged
<1>4. Acquiring(b, h, r)
  OBVIOUS
<1>5. r = h.connection[c].room
  OBVIOUS
<1> HIDE DEF r
<1>6. /\ b \in HostState /\ b.room \in [HostedRooms -> Lodging] /\ b.room[r] \in Lodging
      /\ b.connection \in [Connections -> Links] /\ b.connection[c] \in Links
      /\ b.acquisitions \in [HostedRooms -> Int] /\ h.acquisitions \in [HostedRooms -> Int]
  BY <1>2, <1>3, <1>4 DEF Acquiring, HostState
<1>7. lodge \in Lodging /\ lodge.live = b.room[r].live /\ lodge.leases = b.room[r].leases - 1 /\ lodge.idle = b.room[r].idle
  <2>0. IsFiniteSet(holders(h, r)) /\ b.room[r].leases = Cardinality(holders(h, r)) /\ c \in holders(h, r)
    BY <1>2, <1>3, <1>4, <1>5 DEF Leased, Acquiring, holders
  <2>3. b.room[r].leases # 0
    BY <2>0, FS_EmptySet
  <2>1. b.room[r].leases - 1 \in Nat
    BY <1>6, <2>3 DEF Lodging
  <2>2. lodge \in Lodging
    BY <1>6, <2>1 DEF Lodging
  <2> QED
    BY <1>6, <2>2 DEF Lodging
<1>8. link \in Links /\ link.phase = phase /\ link.room = r
  BY <1>4, <1>5, <1>6 DEF Links, Acquiring
<1>9. /\ f.room = [b.room EXCEPT ![r] = lodge] /\ f.connection = [b.connection EXCEPT ![c] = link]
      /\ f.entries = b.entries /\ f.idleSince = b.idleSince /\ f.acquisitions = b.acquisitions /\ SameHost(f, b)
  <2>1. f.room = [b.room EXCEPT ![r] = lodge]
    BY <1>6 DEF HostState
  <2>2. f.connection = [b.connection EXCEPT ![c] = link]
    BY <1>6 DEF HostState
  <2> QED
    BY <1>6, <2>1, <2>2 DEF HostState, SameHost
<1>10. f \in HostState
  <2>1. f.room \in [HostedRooms -> Lodging] /\ f.connection \in [Connections -> Links]
    <3> HIDE DEF lodge, link, f
    <3> QED
      BY <1>3, <1>6, <1>7, <1>8, <1>9
  <2> QED
    BY <1>6, <1>9, <2>1 DEF HostState, SameHost
<1> HIDE DEF f, lodge, link
<1>11. f.acquisitions[r] = 1
  BY <1>3, <1>4, <1>6, <1>9 DEF Acquiring
<1>12. /\ k.room = f.room /\ k.connection = f.connection /\ k.entries = f.entries /\ k.idleSince = f.idleSince
       /\ SameHost(k, f)
  BY <1>10 DEF HostState, SameHost
<1>13. k.acquisitions = [f.acquisitions EXCEPT ![r] = 0]
  BY <1>10, <1>11 DEF HostState
<1>14. k.acquisitions \in [HostedRooms -> Int] /\ \A s \in HostedRooms : k.acquisitions[s] = 0
  <2> HIDE DEF k
  <2> QED
    BY <1>2, <1>3, <1>4, <1>6, <1>9, <1>13 DEF Acquiring
<1>15. k \in HostState
  BY <1>10, <1>12, <1>14 DEF HostState, SameHost
<1> HIDE DEF k
<1>16. k.room[r] = lodge /\ \A s \in HostedRooms : s # r => k.room[s] = b.room[s]
  BY <1>3, <1>6, <1>9, <1>12
<1>17. k.connection[c] = link /\ \A d \in Connections : d # c => k.connection[d] = h.connection[d]
  BY <1>4, <1>6, <1>9, <1>12 DEF Acquiring
<1>18. SameHost(k, h)
  BY <1>4, <1>9, <1>12 DEF SameHost, Acquiring
<1>19. k.entries = h.entries /\ k.idleSince = b.idleSince
  BY <1>4, <1>9, <1>12 DEF Acquiring
<1>20. \A s \in HostedRooms : s # r => holders(k, s) = holders(h, s)
  BY <1>5, <1>8, <1>17 DEF holders
<1>21. c \in holders(h, r) /\ holders(k, r) = holders(h, r) \ {c}
  BY <1>5, <1>8, <1>17 DEF holders
<1>22. IsFiniteSet(holders(h, r)) /\ h.room[r].leases = Cardinality(holders(h, r))
  BY <1>2, <1>3 DEF Leased
<1>23. IsFiniteSet(holders(k, r)) /\ Cardinality(holders(k, r)) = Cardinality(holders(h, r)) - 1
  BY <1>21, <1>22, FS_RemoveElement
<1>24. Cardinality(holders(h, r)) # 0
  BY <1>21, <1>22, FS_EmptySet
<1>25. lodge.leases = Cardinality(holders(k, r)) /\ lodge.live
  BY <1>2, <1>3, <1>4, <1>7, <1>22, <1>23, <1>24 DEF Leased, Acquiring
<1>26. Staged(k)
  BY <1>2, <1>3, <1>8, <1>17, <1>18 DEF Staged, SameHost
<1>27. Leased(k)
  BY <1>2, <1>4, <1>16, <1>18, <1>20, <1>23, <1>25 DEF Leased, SameHost, Acquiring
<1>28. \A s \in HostedRooms : s # r => Aged(k, s)
  BY <1>2, <1>4, <1>16, <1>19 DEF Aged, Acquiring
<1>29. Level(k, r)
  BY <1>4, <1>7, <1>16, <1>19 DEF Level, Acquiring
<1>30. Hosted(t) /\ Noted(t, k, r)
  BY <1>3, <1>14, <1>15, <1>18, <1>26, <1>27, <1>28, <1>29, Renewed DEF Nearly, SameHost
<1>33. \A s \in HostedRooms : k.room[s].live = h.room[s].live
  <2>1. k.room[r].live = h.room[r].live
    BY <1>4, <1>7, <1>16 DEF Acquiring
  <2>2. \A s \in HostedRooms : s # r => k.room[s] = h.room[s]
    BY <1>4, <1>16 DEF Acquiring
  <2> QED
    BY <2>1, <2>2
<1>34. Timely(t)
  <2>1. SameTime(k, h) /\ k.room[r].idle = Busy
    BY <1>4, <1>7, <1>16, <1>18 DEF SameHost, SameTime, Acquiring
  <2>2. \A s \in HostedRooms : s # r => k.room[s] = h.room[s]
    BY <1>4, <1>16 DEF Acquiring
  <2> HIDE DEF t
  <2> QED
    BY <1>3, <1>19, <1>30, <1>33, <2>1, <2>2, Noticed
<1> HIDE DEF t
<1>31. \A s \in HostedRooms : h.room[s].live => t.room[s].live
  BY <1>4, <1>16, <1>25, <1>30 DEF Noted, SameUse, Acquiring
<1>32. Kept(h, t)
  BY <1>31 DEF Kept
<1> QED
  BY <1>1, <1>30, <1>32, <1>34 DEF f, r

\* A connect ends with the lease returned.  After the disposal there is neither
\* room nor entry to change, and the connection is recorded all the same.
LEMMA ConnectStep ==
  ASSUME HostingInv, NEW c \in Connections, NEW connects \in BOOLEAN, connectBounded(c, connects)
  PROVE  HostStepped
<1> DEFINE h == hosting
           t == hosting'
           r == h.connection[c].room
           taken == beginAcquisition(h, r)
           linked == IF connects THEN attach(taken, c, r) ELSE taken
           phase == IF connects THEN "open" ELSE "closed"
<1>1. /\ Hosted(h) /\ Timely(h) /\ Staged(h) /\ Leased(h) /\ h \in HostState
      /\ \A s \in HostedRooms : h.acquisitions[s] = 0
  BY DEF HostingInv, Hosted
<1>2. h.connection[c].phase = "acquired"
  BY DEF connectBounded
<1>3. r \in HostedRooms
  BY <1>1, <1>2 DEF Staged
<1>4. t = endAcquisition([release(linked, r) EXCEPT !.connection[c].phase = phase], r)
  BY DEF connectBounded
<1>5. r = h.connection[c].room /\ phase \in {"open", "closed"}
  OBVIOUS
<1>6. CASE h.towl = "disposed"
  <2> DEFINE link == [h.connection[c] EXCEPT !.phase = phase]
             noted == [h EXCEPT !.connection[c].phase = phase]
  <2>1. ~h.room[r].live /\ h.entries = <<>> /\ c \in h.late
    BY <1>1, <1>2, <1>3, <1>6 DEF Staged, Vacant
  <2>2. r \notin ToSet(h.entries)
    BY <2>1 DEF ToSet
  <2>3. taken = h
    BY <2>2 DEF beginAcquisition
  <2>4. linked = h
    BY <2>1, <2>3 DEF attach
  <2>5. release(linked, r) = h
    BY <2>1, <2>4 DEF release
  <2>6. noted.entries = h.entries
    BY <1>1 DEF HostState
  <2>7. t = noted
    <3> HIDE DEF h, t, r, taken, linked, phase, noted
    <3>1. t = endAcquisition(noted, r)
      BY <1>4, <2>5 DEF noted
    <3> QED
      BY <2>2, <2>6, <3>1 DEF endAcquisition
  <2> HIDE DEF h, t, r, taken, linked, phase
  <2>8. h.connection \in [Connections -> Links] /\ h.connection[c] \in Links
    BY <1>1 DEF HostState
  <2>9. link \in Links /\ link.phase = phase /\ link.room = h.connection[c].room
    BY <1>5, <2>8 DEF Links
  <2>10. /\ t.connection = [h.connection EXCEPT ![c] = link] /\ SameHost(t, h)
         /\ t.room = h.room /\ t.entries = h.entries /\ t.idleSince = h.idleSince
         /\ t.acquisitions = h.acquisitions
    BY <1>1, <2>7, <2>8 DEF HostState, SameHost
  <2>11. t \in HostState
    <3>1. t.connection \in [Connections -> Links]
      <4> HIDE DEF link
      <4> QED
        BY <2>8, <2>9, <2>10
    <3> QED
      BY <1>1, <2>7, <2>10, <3>1 DEF HostState, SameHost
  <2> HIDE DEF link, noted
  <2>12. t.connection[c] = link /\ \A d \in Connections : d # c => t.connection[d] = h.connection[d]
    BY <2>8, <2>10
  <2>13. Staged(t)
    BY <1>1, <1>2, <2>1, <2>9, <2>10, <2>12 DEF Staged, SameHost
  <2>14. t.towl = "disposed" /\ \A s \in HostedRooms : t.acquisitions[s] = 0
    BY <1>1, <1>6, <2>10 DEF SameHost
  <2>15. Hosted(t) /\ Kept(h, t)
    BY <2>11, <2>13, <2>14, Disposed
  <2>16. Timely(t)
    BY <2>14, Untimed
  <2> QED
    BY <2>15, <2>16 DEF HostStepped, HostingInv, h, t
<1>7. CASE h.towl # "disposed"
  <2>1. h.towl = "live"
    BY <1>1, <1>7 DEF HostState
  <2> HIDE DEF h, t, r
  <2>2. c \in holders(h, r)
    BY <1>2, <1>5 DEF holders
  <2>3. IsFiniteSet(holders(h, r)) /\ h.room[r].leases = Cardinality(holders(h, r))
    BY <1>1, <1>3, <2>1 DEF Leased
  <2>4. Cardinality(holders(h, r)) \in Nat /\ Cardinality(holders(h, r)) # 0
    BY <2>2, <2>3, FS_CardinalityType, FS_EmptySet
  <2>5. h.room[r].leases > 0 /\ h.room[r].leases # 0
    BY <2>3, <2>4
  <2>6. h.room[r].live
    BY <1>1, <1>3, <2>1, <2>5 DEF Leased
  <2>7. r \in ToSet(h.entries)
    BY <1>1, <1>3, <2>1, <2>6 DEF Timely, Booked
  <2>8. Acquiring(taken, h, r)
    BY <1>1, <1>3, <2>5, <2>7, Beginning
  <2> HIDE DEF taken
  <2>9. Acquiring(linked, h, r)
    BY <1>1, <1>3, <2>5, <2>6, <2>8, Attaching
  <2> HIDE DEF linked, phase
  <2>10. Hosted(t) /\ Timely(t) /\ Kept(h, t)
    BY <1>1, <1>2, <1>4, <1>5, <2>1, <2>6, <2>7, <2>9, Returning
  <2> QED
    BY <2>10 DEF HostStepped, HostingInv, h, t
<1> QED
  BY <1>6, <1>7

\* An eviction takes the one entry of its room from the books.
LEMMA Unbooking ==
  ASSUME NEW h \in HostState, Booked(h), NEW r \in HostedRooms, r \in ToSet(h.entries),
         NEW t, t.towl = h.towl, t.entries = RemoveFirst(h.entries, r), ~t.room[r].live,
         \A s \in HostedRooms : s # r => t.room[s].live = h.room[s].live
  PROVE  Booked(t)
<1> SUFFICES ASSUME h.towl = "live" PROVE Booked(t)
  BY DEF Booked
<1> DEFINE n == Len(h.entries)
           w == RemoveFirst(h.entries, r)
<1>1. h.entries \in Seq(HostedRooms)
  BY DEF HostState
<1>2. n \in Nat /\ DOMAIN h.entries = 1..n
  BY <1>1
<1>3. \E i \in 1..n : h.entries[i] = r
  BY <1>2 DEF ToSet
<1>4. PICK place \in 1..n : /\ h.entries[place] = r /\ w \in Seq(HostedRooms) /\ Len(w) = n - 1
                            /\ \A i \in 1..(n - 1) : w[i] = IF i < place THEN h.entries[i] ELSE h.entries[i + 1]
  <2>1. \E i \in 1..Len(h.entries) : h.entries[i] = r
    BY <1>3
  <2> HIDE DEF n, w
  <2>2. \E place \in 1..Len(h.entries) :
          /\ h.entries[place] = r
          /\ RemoveFirst(h.entries, r) \in Seq(HostedRooms)
          /\ Len(RemoveFirst(h.entries, r)) = Len(h.entries) - 1
          /\ \A i \in 1..(Len(h.entries) - 1) :
               RemoveFirst(h.entries, r)[i] = IF i < place THEN h.entries[i] ELSE h.entries[i + 1]
    BY <1>1, <2>1, Removed
  <2> QED
    BY <2>2, Zenon DEF n, w
<1>5. \A i, k \in 1..n : h.entries[i] = h.entries[k] => i = k
  BY DEF Booked
<1>6. (\A s \in HostedRooms : h.room[s].live <=> s \in ToSet(h.entries)) /\ n <= maxRooms
  BY DEF Booked
<1> DEFINE from(i) == IF i < place THEN i ELSE i + 1
<1>7. ASSUME NEW i \in 1..(n - 1)
      PROVE  from(i) \in 1..n /\ from(i) # place /\ w[i] = h.entries[from(i)]
  BY <1>2, <1>4
<1>8. ASSUME NEW i \in 1..n, i # place
      PROVE  \E k \in 1..(n - 1) : from(k) = i
  <2>1. CASE i < place
    <3>1. i \in 1..(n - 1)
      BY <1>2, <2>1
    <3> QED
      BY <2>1, <3>1
  <2>2. CASE ~(i < place)
    <3>1. i - 1 \in 1..(n - 1) /\ ~(i - 1 < place) /\ (i - 1) + 1 = i
      BY <1>2, <1>8, <2>2
    <3> QED
      BY <3>1
  <2> QED
    BY <2>1, <2>2
<1>9. ASSUME NEW i \in 1..(n - 1), NEW k \in 1..(n - 1), from(i) = from(k)
      PROVE  i = k
  BY <1>2, <1>9
<1> HIDE DEF n, w, from
<1>15. t.entries = w
  BY DEF w
<1>10. DOMAIN w = 1..(n - 1)
  BY <1>4
<1>11. \A i, k \in 1..(n - 1) : w[i] = w[k] => i = k
  BY <1>5, <1>7, <1>9
<1>12. ASSUME NEW s \in HostedRooms
       PROVE  s \in ToSet(w) <=> s \in ToSet(h.entries) /\ s # r
  <2>1. s \in ToSet(w) <=> \E k \in 1..(n - 1) : w[k] = s
    BY <1>10 DEF ToSet
  <2>2. s \in ToSet(h.entries) <=> \E i \in 1..n : h.entries[i] = s
    BY <1>2 DEF ToSet
  <2>3. ASSUME NEW k \in 1..(n - 1), w[k] = s
        PROVE  s # r /\ \E i \in 1..n : h.entries[i] = s
    BY <1>4, <1>5, <1>7, <2>3
  <2>4. ASSUME NEW i \in 1..n, h.entries[i] = s, s # r
        PROVE  \E k \in 1..(n - 1) : w[k] = s
    <3>1. i # place
      BY <1>4, <2>4
    <3>2. PICK k \in 1..(n - 1) : from(k) = i
      BY <1>8, <3>1
    <3> QED
      BY <1>7, <2>4, <3>2
  <2> QED
    BY <2>1, <2>2, <2>3, <2>4
<1>13. \A s \in HostedRooms : t.room[s].live <=> s \in ToSet(w)
  BY <1>6, <1>12
<1>14. Len(w) = n - 1 /\ n - 1 <= maxRooms
  BY <1>2, <1>4, <1>6, Budget
<1> QED
  BY <1>11, <1>13, <1>14, <1>15, <1>4 DEF Booked

\* What an eviction leaves is as it was.
Shrunk(t, h, r) ==
  /\ \A s \in HostedRooms : t.room[s].live => t.room[s] = h.room[s]
  /\ t.room[r].live => occupied(h.room[r])

\* An eviction takes a room that nothing occupies, and no other.
LEMMA Evicting ==
  ASSUME NEW h, Hosted(h), NEW r \in HostedRooms, sweepable(h, r)
  PROVE  /\ Hosted(evict(h, r)) /\ Kept(h, evict(h, r)) /\ SameHost(evict(h, r), h)
         /\ Shrunk(evict(h, r), h, r) /\ (Booked(h) => Booked(evict(h, r)))
<1>1. /\ h \in HostState /\ Staged(h) /\ Leased(h) /\ \A s \in HostedRooms : h.acquisitions[s] = 0 /\ Aged(h, s)
      /\ h.room[r] \in Lodging /\ h.room \in [HostedRooms -> Lodging] /\ h.entries \in Seq(HostedRooms)
      /\ h.now \in Nat /\ h.sweepNow \in Int /\ h.idleSince[r] \in Int
  BY Timed DEF Hosted, HostState
<1>2. CASE occupied(h.room[r])
  BY <1>2 DEF evict, Kept, SameHost, Shrunk
<1>3. CASE ~occupied(h.room[r])
  <2> DEFINE k == [h EXCEPT !.room[r] = Vacant]
             t == remove(k, r)
  <2>1. evict(h, r) = t
    BY <1>3 DEF evict
  <2>2. Vacant \in Lodging /\ ~Vacant.live /\ Vacant.leases = 0
    BY Timing DEF Vacant, Lodging
  <2>3. /\ k \in HostState /\ SameHost(k, h) /\ k.room = [h.room EXCEPT ![r] = Vacant]
        /\ k.connection = h.connection /\ k.entries = h.entries
        /\ k.idleSince = h.idleSince /\ k.acquisitions = h.acquisitions
    <3>1. k \in HostState
      BY <1>1, <2>2 DEF HostState
    <3> QED
      BY <1>1, <3>1 DEF HostState, SameHost
  <2> HIDE DEF k
  <2>4. RemoveFirst(h.entries, r) \in Seq(HostedRooms) /\ ToSet(RemoveFirst(h.entries, r)) \subseteq ToSet(h.entries)
    BY <1>1, Removal
  <2>5. t = [k EXCEPT !.entries = RemoveFirst(h.entries, r)]
    BY <2>3 DEF remove
  <2> HIDE DEF t
  <2>6. t \in HostState
    BY <2>3, <2>4, <2>5 DEF HostState
  <2>7. /\ SameHost(t, h) /\ t.room = [h.room EXCEPT ![r] = Vacant] /\ t.connection = h.connection
        /\ t.entries = RemoveFirst(h.entries, r) /\ ToSet(t.entries) \subseteq ToSet(h.entries)
        /\ t.idleSince = h.idleSince /\ t.acquisitions = h.acquisitions
    BY <2>3, <2>4, <2>5 DEF HostState, SameHost
  <2>8. t.room[r] = Vacant /\ \A s \in HostedRooms : s # r => t.room[s] = h.room[s]
    BY <1>1, <2>7
  <2>9. \A s \in HostedRooms : holders(t, s) = holders(h, s)
    BY <2>7 DEF holders
  <2>10. Staged(t)
    <3>1. r \in ToSet(h.entries)
      BY DEF sweepable
    <3>2. h.entries # <<>>
      BY <3>1 DEF ToSet
    <3>3. h.towl # "disposed"
      BY <1>1, <3>2 DEF Staged
    <3> QED
      BY <1>1, <2>7, <3>3 DEF Staged, SameHost
  <2>11. h.room[r].leases \in Int /\ h.room[r].leases <= 0
    BY <1>1, <1>3 DEF occupied, Lodging
  <2>12. h.towl = "live" => h.room[r].leases = 0
    BY <1>1, <2>11, FS_CardinalityType DEF Leased
  <2>13. Leased(t)
    BY <1>1, <2>2, <2>7, <2>8, <2>9, <2>12 DEF Leased, SameHost
  <2>14. \A s \in HostedRooms : Aged(t, s)
    BY <1>1, <2>2, <2>7, <2>8 DEF Aged
  <2>15. Hosted(t)
    BY <1>1, <2>6, <2>7, <2>10, <2>13, <2>14 DEF Hosted
  <2>16. ASSUME h.room[r].live
         PROVE  h.room[r].idle # Busy /\ h.now - h.room[r].idle >= idleMs
    <3>1. /\ r \in ToSet(h.entries) /\ h.room[r].attached = {} /\ ~h.room[r].retained
          /\ h.sweepNow - reconcile(h, r) >= idleMs
      BY DEF sweepable
    <3>2. h.room[r].idle = h.idleSince[r] /\ h.room[r].idle # Busy
      BY <1>1, <2>11, <2>16, <3>1 DEF Aged
    <3>3. reconcile(h, r) = h.idleSince[r]
      BY <1>1, <3>1, <3>2 DEF reconcile
    <3>4. h.sweepNow <= h.now
      BY <1>1 DEF Staged
    <3> QED
      BY <1>1, <3>1, <3>2, <3>3, <3>4, HostingAssumption
  <2>17. Kept(h, t)
    BY <2>8, <2>16 DEF Kept
  <2>18. Shrunk(t, h, r)
    BY <2>2, <2>8 DEF Shrunk
  <2>19. Booked(h) => Booked(t)
    <3>1. r \in ToSet(h.entries)
      BY DEF sweepable
    <3>2. t.towl = h.towl /\ t.entries = RemoveFirst(h.entries, r) /\ ~t.room[r].live
      BY <2>2, <2>7, <2>8 DEF SameHost
    <3>3. \A s \in HostedRooms : s # r => t.room[s].live = h.room[s].live
      BY <2>8
    <3> QED
      BY <1>1, <3>1, <3>2, <3>3, Unbooking
  <2> QED
    BY <2>1, <2>7, <2>15, <2>17, <2>18, <2>19
<1> QED
  BY <1>2, <1>3

\* What a sweep leaves alone but for its evictions.
Unswept(t, h) ==
  /\ t.now = h.now /\ t.server = h.server /\ t.towl = h.towl /\ t.circuit = h.circuit
  /\ t.room = h.room /\ t.connection = h.connection /\ t.entries = h.entries
  /\ t.idleSince = h.idleSince /\ t.acquisitions = h.acquisitions /\ t.late = h.late

\* What the sweep passes over has not been idle for long.
LEMMA Passed ==
  ASSUME NEW h, Hosted(h), Booked(h), Rested(h), h.towl = "live", NEW r \in HostedRooms,
         h.room[r].live, h.room[r].idle # Busy, ~sweepable(h, r)
  PROVE  h.sweepNow - h.room[r].idle < idleMs
<1>1. r \in ToSet(h.entries)
  BY DEF Booked
<1>2. h.room[r].leases \in Int /\ h.room[r].idle \in Int /\ h.sweepNow \in Int
  <2>1. h \in HostState
    BY DEF Hosted
  <2>2. h.room[r].leases \in Int
    BY <2>1 DEF HostState, Lodging
  <2> QED
    BY <2>1, <2>2, Timed
<1>3. h.room[r].leases <= 0
  BY <1>2 DEF Rested
<1>4. h.room[r].idle = h.idleSince[r] /\ h.room[r].attached = {} /\ ~h.room[r].retained
  BY <1>1, <1>3 DEF Hosted, Aged
<1>5. h.acquisitions[r] = 0
  BY DEF Hosted
<1>6. reconcile(h, r) = h.room[r].idle
  BY <1>4, <1>5 DEF reconcile
<1>7. ~(h.sweepNow - h.room[r].idle >= idleMs)
  BY <1>1, <1>4, <1>5, <1>6 DEF sweepable
<1> QED
  BY <1>2, <1>7, Budget

\* A sweep that is to look at what is left.
Underway(h) ==
  h.towl = "live" /\ Scheduled =>
    /\ h.sweepNow # NeverDue /\ h.due = NeverDue /\ Len(h.left) <= maxRooms
    /\ h.now - h.sweepNow <= (maxRooms - Len(h.left)) * EvictMs
    /\ \A r \in HostedRooms : h.room[r].live /\ h.room[r].idle # Busy => Fresh(h, r)

\* A sweep goes to its next eviction or ends, and schedules the next.
LEMMA Sweep ==
  ASSUME NEW h, Hosted(h), Booked(h), Rested(h), Underway(h)
  PROVE  Hosted(run_sweep(h)) /\ Kept(h, run_sweep(h)) /\ Timely(run_sweep(h))
<1> DEFINE I == {i \in 1..Len(h.left) : sweepable(h, h.left[i])}
           n == SelectInSeq(h.left, LAMBDA r : sweepable(h, r))
<1>1. h \in HostState /\ Staged(h) /\ h.left \in Seq(HostedRooms) /\ h.now \in Nat
  BY DEF Hosted, HostState
<1>2. n = IF I # {} THEN Min(I) ELSE 0
  BY DEF SelectInSeq
<1>3. run_sweep(h) = IF n = 0 THEN schedule_next([h EXCEPT !.sweepNow = NeverDue, !.left = <<>>])
                     ELSE [evict(h, h.left[n]) EXCEPT !.left = SubSeq(@, n + 1, Len(@)), !.waited = 0]
  BY DEF run_sweep
<1>6. ASSUME NEW r \in HostedRooms, h.towl = "live", Scheduled, h.room[r].live, h.room[r].idle # Busy
      PROVE  /\ Fresh(h, r) /\ h.sweepNow # NeverDue
             /\ ~sweepable(h, r) => h.sweepNow - h.room[r].idle < idleMs
  BY <1>6, Passed DEF Underway
<1> DEFINE L == Len(h.left)
<1>7. /\ L \in Nat /\ h.left \in Seq(HostedRooms) /\ DOMAIN h.left = 1..L
      /\ h.now \in Nat /\ h.sweepNow \in Int
      /\ \A r \in HostedRooms : h.room[r].idle \in Int
  <2>1. L \in Nat /\ h.left \in Seq(HostedRooms) /\ DOMAIN h.left = 1..L
    BY <1>1
  <2> QED
    BY <1>1, <2>1, Timed
<1>8. h.towl = "live" /\ Scheduled =>
        h.due = NeverDue /\ L <= maxRooms /\ h.now - h.sweepNow <= (maxRooms - L) * EvictMs
  BY DEF Underway
<1> HIDE DEF n
<1>4. CASE I = {}
  <2> DEFINE k == [h EXCEPT !.sweepNow = NeverDue, !.left = <<>>]
             t == schedule_next(k)
  <2>1. run_sweep(h) = t
    BY <1>2, <1>3, <1>4
  <2>2. <<>> \in Seq(HostedRooms) /\ NeverDue \in Times
    BY Timing
  <2>3. k \in HostState /\ k.sweepNow = NeverDue /\ Unswept(k, h) /\ k.due = h.due
    <3> DEFINE a == [h EXCEPT !.sweepNow = NeverDue]
    <3>1. a \in HostState /\ a.sweepNow = NeverDue /\ Unswept(a, h) /\ a.due = h.due
      BY <1>1, <2>2 DEF HostState, Unswept
    <3>2. k = [a EXCEPT !.left = <<>>]
      OBVIOUS
    <3> HIDE DEF a, k
    <3>3. k \in HostState
      BY <2>2, <3>1, <3>2 DEF HostState
    <3> QED
      BY <3>1, <3>2, <3>3 DEF HostState, Unswept
  <2> HIDE DEF k
  <2>14. PICK d \in Times : /\ t = [k EXCEPT !.due = d] /\ (k.towl = "disposed" => d = k.due)
                            /\ k.towl = "live" /\ Scheduled /\ k.due = NeverDue =>
                                 d = k.now + sweepIntervalMs
    BY <2>3, Scheduling
  <2>4. t = [k EXCEPT !.due = d] /\ (k.towl = "disposed" => d = k.due)
    BY <2>14
  <2> HIDE DEF t
  <2>5. t \in HostState /\ t.sweepNow = NeverDue /\ Unswept(t, k) /\ t.due = d
    BY <2>3, <2>4 DEF HostState, Unswept
  <2>6. Staged(t)
    <3>1. t.sweepNow <= t.now
      BY <1>1, <2>3, <2>5 DEF NeverDue, Unswept
    <3>2. t.towl = "disposed" => t.due = NeverDue
      BY <1>1, <2>3, <2>4, <2>5 DEF Staged, Unswept
    <3> QED
      BY <1>1, <2>3, <2>5, <3>1, <3>2 DEF Staged, Unswept
  <2>7. \A s \in HostedRooms : holders(t, s) = holders(h, s)
    BY <2>3, <2>5 DEF holders, Unswept
  <2>8. Booked(t) /\ Rested(t)
    BY <2>3, <2>5 DEF Unswept, Booked, Rested
  <2>9. ASSUME h.towl = "live", Scheduled
        PROVE  t.due = h.now + sweepIntervalMs
    <3>1. k.towl = "live" /\ k.due = NeverDue /\ k.now = h.now /\ t.due = d
      BY <1>8, <2>3, <2>5, <2>9 DEF Unswept
    <3> QED
      BY <2>9, <2>14, <3>1
  <2>10. t.towl = h.towl /\ t.now = h.now /\ t.room = h.room
    BY <2>3, <2>5 DEF Unswept
  <2>11. Clocked(t)
    BY <1>7, <2>5, <2>9, <2>10, Budget DEF Clocked
  <2>12. Young(t)
    <3> SUFFICES ASSUME h.towl = "live", Scheduled, NEW r \in HostedRooms, h.room[r].live,
                        h.room[r].idle # Busy
                 PROVE  t.due - h.room[r].idle <= Latest
      BY <2>5, <2>10 DEF Young, Fresh
    <3>1. h.sweepNow - h.room[r].idle < idleMs
      <4>1. CASE r \in ToSet(h.left)
        <5>1. PICK i \in 1..L : h.left[i] = r
          BY <1>7, <4>1 DEF ToSet
        <5>2. ~sweepable(h, r)
          BY <1>4, <5>1
        <5> QED
          BY <1>6, <5>2
      <4>2. CASE r \notin ToSet(h.left)
        BY <1>6, <4>2 DEF Fresh
      <4> QED
        BY <4>1, <4>2
    <3>2. h.now - h.sweepNow <= maxRooms * EvictMs
      <4>5. L \in Nat /\ L <= maxRooms
        BY <1>7, <1>8
      <4> HIDE DEF L
      <4>1. maxRooms - L \in Nat /\ (maxRooms - L) + L = maxRooms
        BY <4>5, Limits
      <4>6. ((maxRooms - L) + L) * EvictMs = (maxRooms - L) * EvictMs + L * EvictMs
        BY <4>1, <4>5, Limits, Spans
      <4>7. L * EvictMs \in Nat /\ (maxRooms - L) * EvictMs \in Nat
        BY <4>1, <4>5, Limits, Product
      <4>2. L * EvictMs \in Nat /\ (maxRooms - L) * EvictMs \in Nat
            /\ maxRooms * EvictMs = (maxRooms - L) * EvictMs + L * EvictMs
        BY <4>1, <4>6, <4>7
      <4> DEFINE x == (maxRooms - L) * EvictMs
                 y == L * EvictMs
      <4>3. x \in Nat /\ y \in Nat /\ maxRooms * EvictMs = x + y /\ h.now - h.sweepNow <= x
        BY <1>8, <4>2
      <4> HIDE DEF x, y
      <4> QED
        BY <1>7, <4>3
    <3> DEFINE P == maxRooms * EvictMs
    <3>3. Latest = idleMs - 1 + P + sweepIntervalMs /\ P \in Nat /\ h.now - h.sweepNow <= P
      BY <3>2, Budget DEF Latest
    <3>4. h.room[r].idle \in Int /\ h.now \in Nat /\ h.sweepNow \in Int
      BY <1>7
    <3>5. t.due = h.now + sweepIntervalMs
      BY <2>9
    <3> HIDE DEF P, L
    <3> QED
      BY <3>1, <3>3, <3>4, <3>5, Limits
  <2>13. Timely(t)
    BY <2>8, <2>11, <2>12 DEF Timely
  <2> QED
    BY <2>1, <2>3, <2>5, <2>6, <2>7, <2>13, Steady DEF Unswept
<1>5. CASE I # {}
  <2>1. I \subseteq Nat
    BY <1>1
  <2>2. n \in I /\ \A i \in I : n <= i
    BY <1>2, <1>5, <2>1, Smallest
  <2>3. n \in 1..Len(h.left) /\ sweepable(h, h.left[n])
    BY <2>2
  <2>14. ASSUME NEW i \in 1..L, i < n PROVE ~sweepable(h, h.left[i])
    <3>1. n \in Nat /\ i \in Nat
      BY <1>7, <2>3
    <3>2. ~(n <= i)
      BY <2>14, <3>1
    <3> QED
      BY <2>2, <3>2
  <2> HIDE DEF I
  <2>4. h.left[n] \in HostedRooms /\ n \in Nat /\ n # 0
    BY <1>1, <2>3
  <2> DEFINE e == evict(h, h.left[n])
             t == [e EXCEPT !.left = SubSeq(@, n + 1, Len(@)), !.waited = 0]
  <2>5. run_sweep(h) = t
    BY <1>3, <2>4
  <2>6. /\ Hosted(e) /\ Kept(h, e) /\ SameHost(e, h)
        /\ Shrunk(e, h, h.left[n]) /\ Booked(e)
    BY <2>3, <2>4, Evicting
  <2> HIDE DEF e
  <2>7. e \in HostState /\ Staged(e)
    BY <2>6 DEF Hosted
  <2>8. SubSeq(e.left, n + 1, Len(e.left)) \in Seq(HostedRooms)
    <3>1. e.left = h.left
      BY <2>6 DEF SameHost
    <3> QED
      BY <1>1, <2>4, <3>1
  <2>9. /\ t \in HostState /\ Unswept(t, e) /\ t.due = e.due /\ t.sweepNow = e.sweepNow
    <3> DEFINE rest == SubSeq(e.left, n + 1, Len(e.left))
               a == [e EXCEPT !.left = rest]
    <3>1. t = [a EXCEPT !.waited = 0]
      OBVIOUS
    <3> HIDE DEF rest
    <3>5. a \in HostState
      BY <2>7, <2>8 DEF HostState, rest
    <3>2. Unswept(a, e) /\ a.due = e.due /\ a.sweepNow = e.sweepNow
      BY <2>7, <3>5 DEF HostState, Unswept
    <3> HIDE DEF a, t
    <3>3. t \in HostState
      <4> DEFINE start == 0
      <4>1. t = [a EXCEPT !.waited = start]
        BY <3>1
      <4>2. a \in HostState
        BY <3>5
      <4>3. start \in Int
        OBVIOUS
      <4> HIDE DEF start
      <4> QED
        BY <4>1, <4>2, <4>3 DEF HostState
    <3>4. Unswept(t, a) /\ t.due = a.due /\ t.sweepNow = a.sweepNow
      BY <3>1, <3>5 DEF HostState, Unswept
    <3> QED
      BY <3>2, <3>3, <3>4 DEF Unswept
  <2>15. t.left = SubSeq(h.left, n + 1, L) /\ t.waited = 0
    BY <2>6, <2>7 DEF HostState, SameHost
  <2> HIDE DEF t
  <2>16. /\ Len(t.left) = L - n
         /\ \A i \in 1..L : n < i => h.left[i] \in ToSet(t.left)
         /\ ToSet(t.left) \subseteq ToSet(h.left)
    <3>1. n \in Nat /\ n <= L /\ 1 <= n
      BY <1>7, <2>3
    <3>2. n + 1 \in Int /\ L \in Int /\ \A i \in (n + 1)..L : h.left[i] \in HostedRooms
      BY <1>7, <3>1
    <3>3. /\ t.left \in Seq(HostedRooms) /\ Len(t.left) = IF n + 1 <= L THEN L - (n + 1) + 1 ELSE 0
          /\ \A i \in 1..(L - (n + 1) + 1) : t.left[i] = h.left[(n + 1) + i - 1]
      BY <2>15, <3>2, SubSeqProperties
    <3> HIDE DEF L
    <3>9. Len(t.left) = IF n + 1 <= L THEN L - (n + 1) + 1 ELSE 0
      BY <3>3
    <3>10. L \in Nat
      BY <1>7
    <3>4. Len(t.left) = L - n
      BY <3>1, <3>9, <3>10
    <3>5. DOMAIN t.left = 1..(L - n)
      BY <3>3, <3>4
    <3>6. ASSUME NEW i \in 1..(L - n) PROVE t.left[i] = h.left[n + i] /\ n + i \in 1..L
      <4>1. i \in 1..(L - (n + 1) + 1) /\ (n + 1) + i - 1 = n + i /\ n + i \in 1..L
        BY <1>7, <3>1
      <4> QED
        BY <3>3, <4>1
    <3>7. ASSUME NEW i \in 1..L, n < i PROVE h.left[i] \in ToSet(t.left)
      <4>1. i - n \in 1..(L - n) /\ n + (i - n) = i
        BY <1>7, <3>1, <3>7
      <4>2. t.left[i - n] = h.left[i]
        BY <3>6, <4>1
      <4> QED
        BY <3>5, <4>1, <4>2 DEF ToSet
    <3>8. ToSet(t.left) \subseteq ToSet(h.left)
      BY <1>7, <3>5, <3>6 DEF ToSet
    <3> QED
      BY <3>4, <3>7, <3>8
  <2>17. /\ t.towl = h.towl /\ t.now = h.now /\ t.sweepNow = h.sweepNow /\ t.due = h.due
         /\ t.entries = e.entries /\ t.room = e.room /\ e.towl = h.towl
    BY <2>6, <2>9 DEF SameHost, Unswept
  <2>18. Booked(t)
    BY <2>6, <2>17 DEF Booked
  <2>19. \A r \in HostedRooms : t.room[r].live => t.room[r] = h.room[r]
    BY <2>6, <2>17 DEF Shrunk
  <2>20. Rested(t)
    BY <2>17, <2>19 DEF Rested
  <2>21. Clocked(t)
    <3> SUFFICES ASSUME h.towl = "live", Scheduled PROVE Clocked(t)
      BY <2>17 DEF Clocked
    <3>1. h.sweepNow # NeverDue /\ h.due = NeverDue
      BY DEF Underway
    <3>2. n \in Nat /\ n <= L /\ 1 <= n
      BY <1>7, <2>3
    <3>10. maxRooms \in Nat /\ L \in Nat /\ L <= maxRooms /\ Len(t.left) = L - n
      BY <1>7, <1>8, <2>16, HostingAssumption
    <3> HIDE DEF L
    <3>3. Len(t.left) <= maxRooms - 1 /\ Len(t.left) \in Nat
      BY <3>2, <3>10
    <3>4. maxRooms - L \in Nat /\ n - 1 \in Nat
          /\ maxRooms - Len(t.left) - 1 = (maxRooms - L) + (n - 1)
      BY <3>2, <3>10
    <3> DEFINE x == (maxRooms - L) * EvictMs
               y == (n - 1) * EvictMs
    <3>5. /\ x \in Nat /\ y \in Nat /\ (maxRooms - Len(t.left) - 1) * EvictMs = x + y
      <4>1. x \in Nat /\ y \in Nat
        BY <3>4, Limits, Product
      <4>2. ((maxRooms - L) + (n - 1)) * EvictMs = (maxRooms - L) * EvictMs + (n - 1) * EvictMs
        BY <3>4, Limits, Spans
      <4> QED
        BY <3>4, <4>1, <4>2
    <3>6. h.now - h.sweepNow <= x
      BY <1>8
    <3> HIDE DEF x, y
    <3>7. h.now - h.sweepNow <= x + y + 0
      BY <1>7, <3>5, <3>6
    <3>8. h.now - h.sweepNow <= (maxRooms - Len(t.left) - 1) * EvictMs + t.waited
      BY <2>15, <3>5, <3>7
    <3>9. 0 <= t.waited /\ t.waited <= EvictMs
      BY <2>15, Limits
    <3> QED
      BY <2>17, <3>1, <3>3, <3>8, <3>9 DEF Clocked
  <2>22. Young(t)
    <3> SUFFICES ASSUME h.towl = "live", Scheduled, NEW r \in HostedRooms, t.room[r].live,
                        t.room[r].idle # Busy
                 PROVE  Fresh(t, r)
      BY <2>17 DEF Young
    <3>1. t.room[r] = h.room[r] /\ h.room[r].live /\ h.room[r].idle # Busy
      BY <2>19
    <3>2. Fresh(h, r) /\ h.sweepNow # NeverDue
      BY <1>6, <3>1
    <3>3. CASE r \in ToSet(t.left)
      BY <2>16, <2>17, <3>1, <3>2, <3>3 DEF Fresh
    <3>4. CASE r \notin ToSet(t.left)
      <4>1. h.sweepNow - h.room[r].idle < idleMs
        <5>1. CASE r \notin ToSet(h.left)
          BY <3>2, <5>1 DEF Fresh
        <5>2. CASE r \in ToSet(h.left)
          <6>1. PICK i \in 1..L : h.left[i] = r
            BY <1>7, <5>2 DEF ToSet
          <6>2. ~(n < i)
            BY <2>16, <3>4, <6>1
          <6>3. i # n
            <7> SUFFICES ASSUME i = n PROVE FALSE
              OBVIOUS
            <7>1. sweepable(h, r) /\ occupied(h.room[r])
              BY <2>3, <2>6, <2>17, <6>1 DEF Shrunk
            <7>2. h.room[r].leases > 0
              BY <7>1 DEF sweepable, occupied
            <7> QED
              BY <3>1, <7>2 DEF Rested
          <6>4. i < n
            BY <1>7, <2>4, <6>2, <6>3
          <6> QED
            BY <1>6, <2>14, <3>1, <6>1, <6>4
        <5> QED
          BY <5>1, <5>2
      <4> QED
        BY <2>17, <3>1, <3>2, <3>4, <4>1 DEF Fresh
    <3> QED
      BY <3>3, <3>4
  <2>23. Timely(t)
    BY <2>18, <2>20, <2>21, <2>22 DEF Timely
  <2>10. Staged(t)
    BY <2>7, <2>9 DEF Staged, Unswept
  <2>11. \A s \in HostedRooms : holders(t, s) = holders(e, s)
    BY <2>9 DEF holders, Unswept
  <2>12. Hosted(t) /\ Kept(e, t)
    BY <2>6, <2>9, <2>10, <2>11, Steady DEF Unswept
  <2>13. Kept(h, t)
    BY <2>6, <2>9 DEF Kept, Unswept
  <2> QED
    BY <2>5, <2>12, <2>13, <2>23
<1> QED
  BY <1>4, <1>5

\* A sweep that falls due, and one that goes on after an eviction.
LEMMA SweepSteps ==
  ASSUME HostingInv, SweepDue \/ Evicted
  PROVE  HostStepped
<1> DEFINE h == hosting
           t == hosting'
<1>1. Hosted(h) /\ Timely(h) /\ h \in HostState /\ Staged(h)
  BY DEF HostingInv, Hosted
<1>2. CASE SweepDue
  <2> DEFINE k == [h EXCEPT !.due = NeverDue, !.sweepNow = h.now, !.left = h.entries]
  <2>1. t = run_sweep(k)
    BY <1>2 DEF SweepDue
  <2>9. h.due # NeverDue /\ h.due = h.now
    BY <1>2 DEF SweepDue
  <2>10. k.left = h.entries
    BY <1>1 DEF HostState
  <2> HIDE DEF h, t
  <2>2. NeverDue \in Times /\ h.now \in Times /\ h.now \in Nat /\ h.entries \in Seq(HostedRooms)
    BY <1>1, Timing DEF HostState
  <2>3. k \in HostState /\ Unswept(k, h) /\ k.due = NeverDue /\ k.sweepNow = h.now
    <3> DEFINE a == [h EXCEPT !.due = NeverDue]
               b == [a EXCEPT !.sweepNow = h.now]
    <3>1. k = [b EXCEPT !.left = h.entries]
      OBVIOUS
    <3>2. a \in HostState /\ Unswept(a, h) /\ a.due = NeverDue
      BY <1>1, <2>2 DEF HostState, Unswept
    <3> HIDE DEF a, k
    <3>3. h.now \in Times
      BY <2>2
    <3>4. b \in HostState /\ Unswept(b, a) /\ b.due = a.due /\ b.sweepNow = h.now
      BY <3>2, <3>3 DEF HostState, Unswept
    <3> HIDE DEF b
    <3>5. k \in HostState
      BY <2>2, <3>1, <3>4 DEF HostState
    <3>6. Unswept(k, b) /\ k.due = b.due /\ k.sweepNow = b.sweepNow
      BY <3>1, <3>4 DEF HostState, Unswept
    <3> QED
      BY <3>2, <3>4, <3>5, <3>6 DEF Unswept
  <2> HIDE DEF k
  <2>4. Staged(k)
    <3>1. k.sweepNow <= k.now
      BY <2>2, <2>3 DEF Unswept
    <3> QED
      BY <1>1, <2>3, <3>1 DEF Staged, Unswept
  <2>5. \A s \in HostedRooms : holders(k, s) = holders(h, s)
    BY <2>3 DEF holders, Unswept
  <2>6. Hosted(k)
    BY <1>1, <2>3, <2>4, <2>5, Steady DEF Unswept
  <2>11. Booked(k) /\ Rested(k)
    BY <1>1, <2>3 DEF Unswept, Timely, Booked, Rested
  <2>12. Underway(k)
    <3> SUFFICES ASSUME h.towl = "live", Scheduled PROVE Underway(k)
      BY <2>3 DEF Underway, Unswept
    <3>1. h.sweepNow = NeverDue
      BY <1>1, <2>9 DEF Timely, Clocked
    <3>2. k.sweepNow # NeverDue /\ k.now - k.sweepNow = 0
      BY <2>2, <2>3 DEF Unswept, NeverDue
    <3>3. Len(k.left) <= maxRooms /\ Len(k.left) \in Nat
      BY <1>1, <2>2, <2>10 DEF Timely, Booked
    <3>4. 0 <= (maxRooms - Len(k.left)) * EvictMs
      <4>1. maxRooms - Len(k.left) \in Nat
        BY <3>3, Budget
      <4> QED
        BY <4>1, Budget, Spans
    <3>5. ASSUME NEW r \in HostedRooms, k.room[r].live, k.room[r].idle # Busy
          PROVE  Fresh(k, r)
      <4>1. k.room = h.room
        BY <2>3 DEF Unswept
      <4>2. h.due - h.room[r].idle <= Latest
        BY <1>1, <3>1, <3>5, <4>1 DEF Timely, Young, Fresh
      <4>3. r \in ToSet(k.left)
        BY <1>1, <2>10, <3>5, <4>1 DEF Timely, Booked
      <4> QED
        BY <2>3, <2>9, <3>2, <4>1, <4>2, <4>3 DEF Fresh
    <3> QED
      BY <2>3, <3>2, <3>3, <3>4, <3>5 DEF Underway
  <2>7. Hosted(t) /\ Kept(k, t) /\ Timely(t)
    BY <2>1, <2>6, <2>11, <2>12, Sweep
  <2>8. Kept(h, t)
    BY <2>3, <2>7 DEF Kept, Unswept
  <2> QED
    BY <2>7, <2>8 DEF HostStepped, HostingInv, h, t
<1>3. CASE Evicted
  <2>1. t = run_sweep(h) /\ h.sweepNow # NeverDue
    BY <1>3 DEF Evicted, Sweeping
  <2> HIDE DEF h, t
  <2>3. Underway(h)
    <3> SUFFICES ASSUME h.towl = "live", Scheduled PROVE Underway(h)
      BY DEF Underway
    <3> DEFINE L == Len(h.left)
               x == (maxRooms - L - 1) * EvictMs
               y == (maxRooms - L) * EvictMs
    <3>1. /\ h.due = NeverDue /\ L <= maxRooms - 1 /\ h.waited <= EvictMs
          /\ h.now - h.sweepNow <= x + h.waited
      BY <1>1, <2>1 DEF Timely, Clocked
    <3>2. L \in Nat /\ h.now \in Nat /\ h.sweepNow \in Int /\ h.waited \in Int
      <4>1. h.left \in Seq(HostedRooms)
        BY <1>1 DEF HostState
      <4>2. L \in Nat
        BY <4>1
      <4> HIDE DEF L
      <4> QED
        BY <1>1, <4>2, Timed
    <3>3. maxRooms - L - 1 \in Nat /\ (maxRooms - L - 1) + 1 = maxRooms - L /\ L <= maxRooms
      <4>1. maxRooms \in Nat /\ L <= maxRooms - 1
        BY <3>1, HostingAssumption
      <4> HIDE DEF L
      <4> QED
        BY <3>2, <4>1
    <3>4. x \in Nat /\ y = x + EvictMs
      <4>1. ((maxRooms - L - 1) + 1) * EvictMs = x + 1 * EvictMs
        <5> DEFINE rooms == maxRooms - L - 1
        <5>1. rooms \in Nat /\ 1 \in Nat /\ EvictMs \in Nat
          BY <3>3, Limits
        <5> HIDE DEF rooms
        <5>2. (rooms + 1) * EvictMs = rooms * EvictMs + 1 * EvictMs
          BY <5>1, Spans
        <5> QED
          BY <5>2 DEF rooms
      <4>2. 1 * EvictMs = EvictMs /\ x \in Nat
        BY <3>3, Limits, Product
      <4> QED
        BY <3>3, <4>1, <4>2
    <3> HIDE DEF x, y
    <3>5. h.now - h.sweepNow <= y
      BY <3>1, <3>2, <3>4, Budget
    <3>6. \A r \in HostedRooms : h.room[r].live /\ h.room[r].idle # Busy => Fresh(h, r)
      BY <1>1 DEF Timely, Young
    <3> QED
      BY <2>1, <3>1, <3>3, <3>5, <3>6 DEF Underway, y
  <2>2. Hosted(t) /\ Kept(h, t) /\ Timely(t)
    BY <1>1, <2>1, <2>3, Sweep DEF Timely
  <2> QED
    BY <2>2 DEF HostStepped, HostingInv, h, t
<1> QED
  BY <1>2, <1>3

\* Every step of the process keeps its invariant and evicts only idle rooms.
LEMMA HostingStep == HostingInv /\ [HostingNext]_hosting => HostStepped
<1> SUFFICES ASSUME HostingInv, [HostingNext]_hosting PROVE HostStepped
  OBVIOUS
<1>1. CASE UNCHANGED hosting
  BY <1>1 DEF HostStepped, HostingInv, Kept
<1>2. CASE CircuitReady \/ HostStarts \/ handleSignal \/ (Serving /\ Tick)
  BY <1>2, LifecycleSteps
<1>3. CASE CircuitFails \/ HostFails \/ ApplicationsDisposed
  BY <1>3, DisposalSteps
<1>9. CASE Stopped
  BY <1>9, ExitStep
<1>4. ASSUME NEW c \in Connections,
             \/ Refused(c) \/ \E r \in HostedRooms : accept(c, r)
             \/ \E retained \in BOOLEAN : Disconnected(c, retained) /\ ~hosting.room[hosting.connection[c].room].live
      PROVE  HostStepped
  BY <1>4, AdmissionSteps
<1>5. ASSUME NEW c \in Connections, Acquired(c) PROVE HostStepped
  BY <1>5, AcquisitionStep
<1>6. ASSUME NEW c \in Connections, NEW connects \in BOOLEAN, connectBounded(c, connects) PROVE HostStepped
  BY <1>6, ConnectStep
<1>7. CASE \/ \E c \in Connections, retained \in BOOLEAN :
                Disconnected(c, retained) /\ hosting.room[hosting.connection[c].room].live
           \/ \E r \in HostedRooms : SessionExpires(r)
  BY <1>7, DepartureSteps
<1>8. CASE SweepDue \/ Evicted
  BY <1>8, SweepSteps
<1> QED
  BY <1>1, <1>2, <1>3, <1>4, <1>5, <1>6, <1>7, <1>8, <1>9 DEF HostingNext, ServingStep

\* What is disposed of is gone.
LEMMA HostingSound == HostingInv => DisposalIsFinal
<1> SUFFICES ASSUME HostingInv PROVE DisposalIsFinal
  OBVIOUS
<1>1. hosting \in HostState /\ Staged(hosting)
  BY DEF HostingInv, Hosted
<1> QED
  BY <1>1 DEF DisposalIsFinal, Staged

LEMMA HostingTyped == HostingInv => HostingTypeOK
  BY DEF HostingInv, Hosted, HostState, Lodging, HostingTypeOK

\* What is idle goes within the idle time, an interval and the time of two sweeps.
LEMMA HostingPunctual == HostingInv => (Scheduled => IdleRoomsEvicted)
<1> DEFINE h == hosting
<1> SUFFICES ASSUME HostingInv, Scheduled, NEW r \in HostedRooms, h.room[r].live, h.room[r].idle # Busy
             PROVE  h.now - h.room[r].idle <= idleMs + sweepIntervalMs + (2 * maxRooms - 1) * EvictMs
  BY DEF IdleRoomsEvicted, liveRooms
<1>1. h \in HostState /\ Staged(h) /\ Clocked(h) /\ Young(h)
  BY DEF HostingInv, Hosted, Timely
<1>2. /\ h.now \in Nat /\ h.sweepNow \in Int /\ h.due \in Int /\ h.waited \in Int
      /\ h.room[r].idle \in Int /\ h.left \in Seq(HostedRooms) /\ h.towl = "live"
  <2>1. h.left \in Seq(HostedRooms) /\ h.towl \in {"live", "disposed"}
    BY <1>1 DEF HostState
  <2>2. h.towl = "live"
    BY <1>1, <2>1 DEF Staged, Vacant
  <2> QED
    BY <1>1, <2>1, <2>2, Timed
<1> HIDE DEF h
<1>3. Fresh(h, r)
  BY <1>1, <1>2 DEF Young
<1> DEFINE P == maxRooms * EvictMs
           bound == idleMs + sweepIntervalMs + 2 * P - EvictMs
<1>4. P \in Nat /\ EvictMs <= P /\ (2 * maxRooms - 1) * EvictMs = 2 * P - EvictMs
  BY Budget
<1>5. Latest = idleMs - 1 + P + sweepIntervalMs
  BY DEF Latest
<1>6. CASE h.sweepNow = NeverDue
  <2>1. h.now <= h.due /\ h.due - h.room[r].idle <= Latest
    BY <1>1, <1>2, <1>3, <1>6 DEF Clocked, Fresh
  <2> HIDE DEF P
  <2> QED
    BY <1>2, <1>4, <1>5, <2>1, Limits
<1>7. CASE h.sweepNow # NeverDue
  <2> DEFINE L == Len(h.left)
             x == (maxRooms - L - 1) * EvictMs
             y == L * EvictMs
  <2>1. /\ h.now - h.sweepNow <= x + h.waited /\ h.waited <= EvictMs
        /\ L <= maxRooms - 1 /\ L \in Nat
    BY <1>1, <1>2, <1>7 DEF Clocked
  <2>2. x \in Nat /\ y \in Nat /\ P = x + EvictMs + y
    <3> HIDE DEF L
    <3>1. maxRooms - L - 1 \in Nat /\ L + 1 \in Nat /\ (maxRooms - L - 1) + (L + 1) = maxRooms /\ 1 \in Nat
      BY <2>1, Limits
    <3>2. ((maxRooms - L - 1) + (L + 1)) * EvictMs = x + (L + 1) * EvictMs
      BY <3>1, Limits, Spans
    <3>3. (L + 1) * EvictMs = y + 1 * EvictMs
      BY <2>1, <3>1, Limits, Spans
    <3>4. x \in Nat /\ y \in Nat
      BY <2>1, <3>1, Limits, Product
    <3>5. 1 * EvictMs = EvictMs
      BY Limits
    <3>6. P = x + (y + EvictMs)
      BY <3>1, <3>2, <3>3, <3>5
    <3> HIDE DEF x, y, P
    <3> QED
      BY <3>4, <3>6, Limits
  <2> HIDE DEF x, P
  <2>3. CASE r \in ToSet(h.left)
    <3>1. h.sweepNow - h.room[r].idle <= Latest
      BY <1>3, <1>7, <2>3 DEF Fresh
    <3>2. L >= 1
      <4>1. DOMAIN h.left = 1..L
        BY <1>2
      <4>2. \E i \in 1..L : h.left[i] = r
        BY <2>3, <4>1 DEF ToSet
      <4> QED
        BY <2>1, <4>2
    <3>3. y >= EvictMs
      <4> HIDE DEF L
      <4>1. L - 1 \in Nat /\ (L - 1) + 1 = L /\ 1 \in Nat
        BY <2>1, <3>2
      <4>2. ((L - 1) + 1) * EvictMs = (L - 1) * EvictMs + 1 * EvictMs
        BY <4>1, Limits, Spans
      <4>3. (L - 1) * EvictMs \in Nat /\ 1 * EvictMs = EvictMs
        BY <4>1, Limits, Product
      <4> QED
        BY <4>1, <4>2, <4>3, Limits
    <3> HIDE DEF y, L
    <3> QED
      BY <1>2, <1>4, <1>5, <2>1, <2>2, <3>1, <3>3, Limits
  <2>4. CASE r \notin ToSet(h.left)
    <3>1. h.sweepNow - h.room[r].idle < idleMs
      BY <1>3, <1>7, <2>4 DEF Fresh
    <3> HIDE DEF y, L
    <3> QED
      BY <1>2, <1>4, <1>5, <2>1, <2>2, <3>1, Limits
  <2> QED
    BY <2>3, <2>4
<1> QED
  BY <1>6, <1>7

-----------------------------------------------------------------------------
(* The board.                                                              *)

\* The slots of corner k, and what their sources are.
Pair(order, k) == {order[CornerSlots[k][i]] : i \in 1..2}
Cornered(order) == \A k \in 1..4 : Pair(order, k) = Pair(TargetOrder, k)

Hues == [1..3 -> Int]
Fields == [1..4 -> Hues]
Board ==
  [order : Arrangements, field : Fields, selected : Slots \union {NoSlot}, moves : 0..MaxMoves,
   solved : BOOLEAN, trend : {-1, 0, 1}, disposed : BOOLEAN, displayed : Fields \union {NoSlot},
   animation : Fields \union {NoSlot}, stale : BOOLEAN]

\* Field and verdict are those of the arrangement; and the picture is the
\* field's, or on its way.
Judged(k) == k.field = solve_field(k.order) /\ (k.solved <=> Cornered(k.order))
Pictured(k) ==
  ~k.disposed /\ ~k.stale => (IF k.animation = NoSlot THEN k.displayed ELSE k.animation) = k.field
SudokuInv == sudoku \in Board /\ Judged(sudoku) /\ Pictured(sudoku)

LEMMA Squares ==
  ASSUME NEW n \in Int
  PROVE  square(n) \in Nat /\ (square(n) = 0 <=> n = 0)
BY DEF square

LEMMA Distance ==
  ASSUME NEW x \in Hues, NEW y \in Hues
  PROVE  color_distance(x, y) \in Nat /\ (color_distance(x, y) = 0 <=> x = y)
<1>1. /\ x[1] - y[1] \in Int /\ x[2] - y[2] \in Int /\ x[3] - y[3] \in Int
  BY DEF Hues
<1> DEFINE a == square(x[1] - y[1])
           b == square(x[2] - y[2])
           c == square(x[3] - y[3])
<1>2. /\ a \in Nat /\ (a = 0 <=> x[1] - y[1] = 0)
      /\ b \in Nat /\ (b = 0 <=> x[2] - y[2] = 0)
      /\ c \in Nat /\ (c = 0 <=> x[3] - y[3] = 0)
  BY <1>1, Squares
<1>3. color_distance(x, y) = a + b + c
  BY DEF color_distance
<1> HIDE DEF a, b, c
<1>4. x = y <=> x[1] = y[1] /\ x[2] = y[2] /\ x[3] = y[3]
  BY DEF Hues
<1>5. /\ x[1] - y[1] = 0 <=> x[1] = y[1]
      /\ x[2] - y[2] = 0 <=> x[2] = y[2]
      /\ x[3] - y[3] = 0 <=> x[3] = y[3]
  BY DEF Hues
<1> QED
  BY <1>2, <1>3, <1>4, <1>5

LEMMA Largest ==
  ASSUME NEW a \in Nat, NEW b \in Nat, NEW c \in Nat, NEW d \in Nat
  PROVE  Max({a, b, c, d}) = 0 <=> a = 0 /\ b = 0 /\ c = 0 /\ d = 0
<1> DEFINE S == {a, b, c, d}
<1>1. \E m \in S : \A n \in S : m >= n
  OBVIOUS
<1>2. Max(S) \in S /\ \A n \in S : Max(S) >= n
  BY <1>1 DEF Max
<1> QED
  BY <1>2

LEMMA FieldsApart ==
  ASSUME NEW x \in Fields, NEW y \in Fields
  PROVE  field_distance(x, y) = 0 <=> x = y
<1>1. \A cell \in 1..4 : x[cell] \in Hues /\ y[cell] \in Hues
  BY DEF Fields
<1> DEFINE D(cell) == color_distance(x[cell], y[cell])
<1>2. \A cell \in 1..4 : D(cell) \in Nat /\ (D(cell) = 0 <=> x[cell] = y[cell])
  BY <1>1, Distance
<1> HIDE DEF D
<1>3. {D(cell) : cell \in 1..4} = {D(1), D(2), D(3), D(4)}
  OBVIOUS
<1>4. Max({D(cell) : cell \in 1..4}) = 0 <=> D(1) = 0 /\ D(2) = 0 /\ D(3) = 0 /\ D(4) = 0
  BY <1>2, <1>3, Largest
<1>5. field_distance(x, y) = Max({D(cell) : cell \in 1..4})
  BY DEF field_distance, D
<1>6. x = y <=> x[1] = y[1] /\ x[2] = y[2] /\ x[3] = y[3] /\ x[4] = y[4]
  BY DEF Fields
<1> QED
  BY <1>2, <1>4, <1>5, <1>6

-----------------------------------------------------------------------------
\* Two tokens are known by what their colors add up to.
ColorSum(x, y, d) == TokenColors[x + 1][d] + TokenColors[y + 1][d]

LEMMA Tokens ==
  /\ \A x \in 0..7, d \in 1..3 : TokenColors[x + 1][d] \in Int
  /\ LET l(x) == TokenColors[x + 1][1]
     IN l(0) = 67 /\ l(1) = 78 /\ l(2) = 86 /\ l(3) = 72 /\ l(4) = 76 /\ l(5) = 64 /\ l(6) = 67 /\ l(7) = 70
  /\ LET l(x) == TokenColors[x + 1][2]
     IN l(0) = 16 /\ l(1) = 5 /\ l(2) = -2 /\ l(3) = -13 /\ l(4) = -14 /\ l(5) = -5 /\ l(6) = 9 /\ l(7) = 17
BY DEF TokenColors

\* Two tokens and two others are the same ones.
SamePair(x, y, a, b) == (x = a /\ y = b) \/ (x = b /\ y = a)

\* The tokens of a corner of the target.
Home(a, b) == (a = 0 /\ b = 6) \/ (a = 1 /\ b = 2) \/ (a = 7 /\ b = 4) \/ (a = 3 /\ b = 5)

LEMMA SumsTell ==
  ASSUME NEW x \in 0..7, NEW y \in 0..7, x # y,
         NEW a \in 0..7, NEW b \in 0..7,
         Home(a, b),
         ColorSum(x, y, 1) = ColorSum(a, b, 1), ColorSum(x, y, 2) = ColorSum(a, b, 2)
  PROVE  SamePair(x, y, a, b)
<1> DEFINE L == [t \in 0..7 |-> TokenColors[t + 1][1]]
           A == [t \in 0..7 |-> TokenColors[t + 1][2]]
<1>1. /\ L[0] = 67 /\ L[1] = 78 /\ L[2] = 86 /\ L[3] = 72 /\ L[4] = 76 /\ L[5] = 64 /\ L[6] = 67 /\ L[7] = 70
  BY Tokens
<1>2. /\ A[0] = 16 /\ A[1] = 5 /\ A[2] = -2 /\ A[3] = -13 /\ A[4] = -14 /\ A[5] = -5 /\ A[6] = 9 /\ A[7] = 17
  BY Tokens
<1>3. L[x] + L[y] = L[a] + L[b] /\ A[x] + A[y] = A[a] + A[b]
  BY DEF ColorSum
<1> HIDE DEF L, A
<1>4. (x = a /\ y = b) \/ (x = b /\ y = a)
  BY <1>1, <1>2, <1>3 DEF Home
<1> QED
  BY <1>4 DEF SamePair

\* The board's two equations for a corner, from the cells' four.
LEMMA Corners ==
  ASSUME NEW a \in Int, NEW b \in Int, NEW c \in Int, NEW d \in Int,
         NEW e \in Int, NEW f \in Int, NEW g \in Int, NEW h \in Int,
         7 * a + 2 * b + 2 * c + 1 * d = 7 * e + 2 * f + 2 * g + 1 * h,
         2 * a + 7 * b + 1 * c + 2 * d = 2 * e + 7 * f + 1 * g + 2 * h,
         2 * a + 1 * b + 7 * c + 2 * d = 2 * e + 1 * f + 7 * g + 2 * h,
         1 * a + 2 * b + 2 * c + 7 * d = 1 * e + 2 * f + 2 * g + 7 * h
  PROVE  a = e /\ b = f /\ c = g /\ d = h
OBVIOUS

LEMMA SlotsOfCorners ==
  /\ \A k \in 1..4, i \in 1..2 : CornerSlots[k][i] \in Slots
  /\ \A k \in 1..4 : CornerSlots[k][1] # CornerSlots[k][2]
  /\ \A order : /\ Pair(order, 1) = {order[0], order[6]} /\ Pair(order, 2) = {order[1], order[2]}
                /\ Pair(order, 3) = {order[7], order[4]} /\ Pair(order, 4) = {order[3], order[5]}
<1>1. /\ CornerSlots[1][1] = 0 /\ CornerSlots[1][2] = 6 /\ CornerSlots[2][1] = 1 /\ CornerSlots[2][2] = 2
      /\ CornerSlots[3][1] = 7 /\ CornerSlots[3][2] = 4 /\ CornerSlots[4][1] = 3 /\ CornerSlots[4][2] = 5
  BY DEF CornerSlots
<1>2. \A order, k : Pair(order, k) = {order[CornerSlots[k][1]], order[CornerSlots[k][2]]}
  BY DEF Pair
<1> QED
  BY <1>1, <1>2 DEF Slots

LEMMA Sources ==
  ASSUME NEW order \in Arrangements
  PROVE  /\ \A k \in 1..4, d \in 1..3 : corner(order, k, d) \in Int
         /\ \A d \in 1..3 :
              /\ corner(order, 1, d) = ColorSum(order[0], order[6], d)
              /\ corner(order, 2, d) = ColorSum(order[1], order[2], d)
              /\ corner(order, 3, d) = ColorSum(order[7], order[4], d)
              /\ corner(order, 4, d) = ColorSum(order[3], order[5], d)
<1>1. \A s \in Slots : order[s] \in 0..7
  BY DEF Arrangements
<1>2. \A s \in Slots, d \in 1..3 : color(order, s)[d] \in Int
  BY <1>1, Tokens DEF color
<1>3. \A k \in 1..4, d \in 1..3 : corner(order, k, d) \in Int
  BY <1>2, SlotsOfCorners DEF corner
<1>4. /\ CornerSlots[1][1] = 0 /\ CornerSlots[1][2] = 6 /\ CornerSlots[2][1] = 1 /\ CornerSlots[2][2] = 2
      /\ CornerSlots[3][1] = 7 /\ CornerSlots[3][2] = 4 /\ CornerSlots[4][1] = 3 /\ CornerSlots[4][2] = 5
  BY DEF CornerSlots
<1> QED
  BY <1>3, <1>4 DEF corner, color, ColorSum

\* Dimension d of a cell.
LEMMA CellColors ==
  ASSUME NEW order \in Arrangements
  PROVE  /\ solve_field(order) \in Fields
         /\ \A d \in 1..3 :
              LET c(k) == corner(order, k, d)
                  f == solve_field(order)
              IN /\ f[1][d] = 7 * c(1) + 2 * c(2) + 2 * c(3) + 1 * c(4)
                 /\ f[2][d] = 2 * c(1) + 7 * c(2) + 1 * c(3) + 2 * c(4)
                 /\ f[3][d] = 2 * c(1) + 1 * c(2) + 7 * c(3) + 2 * c(4)
                 /\ f[4][d] = 1 * c(1) + 2 * c(2) + 2 * c(3) + 7 * c(4)
<1>1. /\ Weights[1][1] = 7 /\ Weights[1][2] = 2 /\ Weights[1][3] = 2 /\ Weights[1][4] = 1
      /\ Weights[2][1] = 2 /\ Weights[2][2] = 7 /\ Weights[2][3] = 1 /\ Weights[2][4] = 2
      /\ Weights[3][1] = 2 /\ Weights[3][2] = 1 /\ Weights[3][3] = 7 /\ Weights[3][4] = 2
      /\ Weights[4][1] = 1 /\ Weights[4][2] = 2 /\ Weights[4][3] = 2 /\ Weights[4][4] = 7
  BY DEF Weights
<1>2. \A k \in 1..4, d \in 1..3 : corner(order, k, d) \in Int
  BY Sources
<1>3. \A cell \in 1..4 : solve_field(order)[cell] = weighted_color(order, Weights[cell])
  BY DEF solve_field
<1>4. \A cell \in 1..4, i \in 1..4 : Weights[cell][i] \in Int
  BY <1>1
<1>5. \A a, b \in Int : a + b \in Int /\ a * b \in Int
  OBVIOUS
<1>6. ASSUME NEW cell \in 1..4
      PROVE  weighted_color(order, Weights[cell]) \in Hues
  <2> DEFINE w == Weights[cell]
  <2>1. w[1] \in Int /\ w[2] \in Int /\ w[3] \in Int /\ w[4] \in Int
    BY <1>4
  <2> HIDE DEF w
  <2>2. \A d \in 1..3 : w[1] * corner(order, 1, d) + w[2] * corner(order, 2, d)
                        + w[3] * corner(order, 3, d) + w[4] * corner(order, 4, d) \in Int
    BY <1>2, <1>5, <2>1
  <2>3. weighted_color(order, w) \in Hues
    BY <2>2 DEF weighted_color, Hues
  <2> QED
    BY <2>3 DEF w
<1>7. solve_field(order) \in Fields
  BY <1>6 DEF solve_field, Fields
<1>8. ASSUME NEW d \in 1..3, NEW cell \in 1..4
      PROVE  solve_field(order)[cell][d]
               = Weights[cell][1] * corner(order, 1, d) + Weights[cell][2] * corner(order, 2, d)
                 + Weights[cell][3] * corner(order, 3, d) + Weights[cell][4] * corner(order, 4, d)
  <2> DEFINE w == Weights[cell]
  <2>1. solve_field(order)[cell] = weighted_color(order, w)
    BY <1>3
  <2> HIDE DEF w
  <2>2. solve_field(order)[cell][d] = w[1] * corner(order, 1, d) + w[2] * corner(order, 2, d)
                                      + w[3] * corner(order, 3, d) + w[4] * corner(order, 4, d)
    <3> DEFINE Mix(e) == w[1] * corner(order, 1, e) + w[2] * corner(order, 2, e)
                         + w[3] * corner(order, 3, e) + w[4] * corner(order, 4, e)
    <3>1. weighted_color(order, w) = [e \in 1..3 |-> Mix(e)]
      BY DEF weighted_color
    <3> HIDE DEF Mix
    <3>2. solve_field(order)[cell][d] = Mix(d)
      BY <2>1, <3>1
    <3> QED
      BY <3>2 DEF Mix
  <2> QED
    BY <2>2 DEF w
<1> QED
  BY <1>1, <1>7, <1>8

\* Two arrangements have the same field if their corners have the same sums.
LEMMA SameField ==
  ASSUME NEW x \in Arrangements, NEW y \in Arrangements
  PROVE  solve_field(x) = solve_field(y)
           <=> \A k \in 1..4, d \in 1..3 : corner(x, k, d) = corner(y, k, d)
<1>1. ASSUME \A k \in 1..4, d \in 1..3 : corner(x, k, d) = corner(y, k, d)
      PROVE  solve_field(x) = solve_field(y)
  <2>1. \A w : weighted_color(x, w) = weighted_color(y, w)
    BY <1>1 DEF weighted_color
  <2> QED
    BY <2>1 DEF solve_field
<1>2. ASSUME solve_field(x) = solve_field(y), NEW d \in 1..3
      PROVE  \A k \in 1..4 : corner(x, k, d) = corner(y, k, d)
  <2>1. \A k \in 1..4 : corner(x, k, d) \in Int /\ corner(y, k, d) \in Int
    BY Sources
  <2>2. /\ corner(x, 1, d) = corner(y, 1, d) /\ corner(x, 2, d) = corner(y, 2, d)
        /\ corner(x, 3, d) = corner(y, 3, d) /\ corner(x, 4, d) = corner(y, 4, d)
    <3> DEFINE a == corner(x, 1, d)
               b == corner(x, 2, d)
               c == corner(x, 3, d)
               z == corner(x, 4, d)
               e == corner(y, 1, d)
               f == corner(y, 2, d)
               g == corner(y, 3, d)
               h == corner(y, 4, d)
    <3>1. /\ 7 * a + 2 * b + 2 * c + 1 * z = 7 * e + 2 * f + 2 * g + 1 * h
          /\ 2 * a + 7 * b + 1 * c + 2 * z = 2 * e + 7 * f + 1 * g + 2 * h
          /\ 2 * a + 1 * b + 7 * c + 2 * z = 2 * e + 1 * f + 7 * g + 2 * h
          /\ 1 * a + 2 * b + 2 * c + 7 * z = 1 * e + 2 * f + 2 * g + 7 * h
      BY <1>2, CellColors
    <3>2. a \in Int /\ b \in Int /\ c \in Int /\ z \in Int /\ e \in Int /\ f \in Int /\ g \in Int /\ h \in Int
      BY <2>1
    <3> HIDE DEF a, b, c, z, e, f, g, h
    <3>3. a = e /\ b = f /\ c = g /\ z = h
      BY <3>1, <3>2, Corners
    <3> QED
      BY <3>3 DEF a, b, c, z, e, f, g, h
  <2> QED
    BY <2>2
<1> QED
  BY <1>1, <1>2

LEMMA TargetArranged ==
  /\ TargetOrder \in Arrangements
  /\ TargetOrder[0] = 0 /\ TargetOrder[1] = 1 /\ TargetOrder[2] = 2 /\ TargetOrder[3] = 3
  /\ TargetOrder[4] = 4 /\ TargetOrder[5] = 5 /\ TargetOrder[6] = 6 /\ TargetOrder[7] = 7
BY DEF TargetOrder, OrderOf, Slots, Arrangements

LEMMA StartArranged ==
  /\ StartOrder \in Arrangements
  /\ StartOrder[0] = 4 /\ StartOrder[6] = 3
BY DEF StartOrder, OrderOf, Slots, Arrangements

\* The same tokens in a corner, in either order, and only they, add up to the
\* same colors.
LEMMA OneCorner ==
  ASSUME NEW x \in 0..7, NEW y \in 0..7, x # y,
         NEW a \in 0..7, NEW b \in 0..7,
         Home(a, b)
  PROVE  (\A d \in 1..3 : ColorSum(x, y, d) = ColorSum(a, b, d)) <=> SamePair(x, y, a, b)
<1>1. ASSUME \A d \in 1..3 : ColorSum(x, y, d) = ColorSum(a, b, d)
      PROVE  SamePair(x, y, a, b)
  <2>1. ColorSum(x, y, 1) = ColorSum(a, b, 1) /\ ColorSum(x, y, 2) = ColorSum(a, b, 2)
    BY <1>1
  <2> QED
    BY <2>1, SumsTell
<1>2. ASSUME SamePair(x, y, a, b), NEW d \in 1..3
      PROVE  ColorSum(x, y, d) = ColorSum(a, b, d)
  <2>1. (x = a /\ y = b) \/ (x = b /\ y = a)
    BY <1>2 DEF SamePair
  <2>2. TokenColors[a + 1][d] \in Int /\ TokenColors[b + 1][d] \in Int
    BY Tokens
  <2> QED
    BY <2>1, <2>2 DEF ColorSum
<1> QED
  BY <1>1, <1>2

\* Sixteen arrangements have the target's field, no other.
LEMMA Matched ==
  ASSUME NEW order \in Arrangements
  PROVE  field_distance(solve_field(order), Target) = 0 <=> Cornered(order)
<1>1. Target = solve_field(TargetOrder)
  BY DEF Target
<1>2. field_distance(solve_field(order), Target) = 0
        <=> \A k \in 1..4, d \in 1..3 : corner(order, k, d) = corner(TargetOrder, k, d)
  BY <1>1, CellColors, FieldsApart, SameField, TargetArranged
<1>3. \A s, t \in Slots : order[s] \in 0..7 /\ (s # t => order[s] # order[t])
  BY DEF Arrangements
<1> DEFINE Alike(k) == \A d \in 1..3 : corner(order, k, d) = corner(TargetOrder, k, d)
           a == order[0]
           b == order[6]
           c == order[1]
           e == order[2]
           f == order[7]
           g == order[4]
           h == order[3]
           i == order[5]
<1>4. /\ a \in 0..7 /\ b \in 0..7 /\ c \in 0..7 /\ e \in 0..7 /\ f \in 0..7 /\ g \in 0..7 /\ h \in 0..7
      /\ i \in 0..7 /\ a # b /\ c # e /\ f # g /\ h # i
  BY <1>3 DEF Slots
<1>5. /\ Alike(1) <=> \A d \in 1..3 : ColorSum(a, b, d) = ColorSum(0, 6, d)
      /\ Alike(2) <=> \A d \in 1..3 : ColorSum(c, e, d) = ColorSum(1, 2, d)
      /\ Alike(3) <=> \A d \in 1..3 : ColorSum(f, g, d) = ColorSum(7, 4, d)
      /\ Alike(4) <=> \A d \in 1..3 : ColorSum(h, i, d) = ColorSum(3, 5, d)
  BY Sources, TargetArranged
<1>6. /\ Pair(order, 1) = {a, b} /\ Pair(order, 2) = {c, e} /\ Pair(order, 3) = {f, g} /\ Pair(order, 4) = {h, i}
      /\ Pair(TargetOrder, 1) = {0, 6} /\ Pair(TargetOrder, 2) = {1, 2}
      /\ Pair(TargetOrder, 3) = {7, 4} /\ Pair(TargetOrder, 4) = {3, 5}
  BY SlotsOfCorners, TargetArranged
<1> HIDE DEF Alike, a, b, c, e, f, g, h, i
<1>7. /\ (\A d \in 1..3 : ColorSum(a, b, d) = ColorSum(0, 6, d)) <=> SamePair(a, b, 0, 6)
      /\ (\A d \in 1..3 : ColorSum(c, e, d) = ColorSum(1, 2, d)) <=> SamePair(c, e, 1, 2)
      /\ (\A d \in 1..3 : ColorSum(f, g, d) = ColorSum(7, 4, d)) <=> SamePair(f, g, 7, 4)
      /\ (\A d \in 1..3 : ColorSum(h, i, d) = ColorSum(3, 5, d)) <=> SamePair(h, i, 3, 5)
  <2>1. Home(0, 6) /\ Home(1, 2) /\ Home(7, 4) /\ Home(3, 5)
    BY DEF Home
  <2>2. 0 \in 0..7 /\ 1 \in 0..7 /\ 2 \in 0..7 /\ 3 \in 0..7 /\ 4 \in 0..7 /\ 5 \in 0..7 /\ 6 \in 0..7 /\ 7 \in 0..7
    OBVIOUS
  <2>3. (\A d \in 1..3 : ColorSum(a, b, d) = ColorSum(0, 6, d)) <=> SamePair(a, b, 0, 6)
    BY <1>4, <2>1, <2>2, OneCorner, Zenon
  <2>4. (\A d \in 1..3 : ColorSum(c, e, d) = ColorSum(1, 2, d)) <=> SamePair(c, e, 1, 2)
    BY <1>4, <2>1, <2>2, OneCorner, Zenon
  <2>5. (\A d \in 1..3 : ColorSum(f, g, d) = ColorSum(7, 4, d)) <=> SamePair(f, g, 7, 4)
    BY <1>4, <2>1, <2>2, OneCorner, Zenon
  <2>6. (\A d \in 1..3 : ColorSum(h, i, d) = ColorSum(3, 5, d)) <=> SamePair(h, i, 3, 5)
    BY <1>4, <2>1, <2>2, OneCorner, Zenon
  <2> QED
    BY <2>3, <2>4, <2>5, <2>6
<1>8. \A k \in 1..4 : Alike(k) <=> Pair(order, k) = Pair(TargetOrder, k)
  <2>1. /\ Alike(1) <=> Pair(order, 1) = Pair(TargetOrder, 1)
        /\ Alike(2) <=> Pair(order, 2) = Pair(TargetOrder, 2)
        /\ Alike(3) <=> Pair(order, 3) = Pair(TargetOrder, 3)
        /\ Alike(4) <=> Pair(order, 4) = Pair(TargetOrder, 4)
    <3>1. \A w, x, y, z : {w, x} = {y, z} <=> SamePair(w, x, y, z)
      BY DEF SamePair
    <3> QED
      BY <1>5, <1>6, <1>7, <3>1
  <2> QED
    BY <2>1
<1>9. field_distance(solve_field(order), Target) = 0 <=> \A k \in 1..4 : Alike(k)
  BY <1>2 DEF Alike
<1> QED
  BY <1>8, <1>9 DEF Cornered

LEMMA Swapped ==
  ASSUME NEW order \in Arrangements, NEW from \in Slots, NEW to \in Slots
  PROVE  swapped(order, from, to) \in Arrangements
<1> DEFINE o == swapped(order, from, to)
<1>1. order \in [Slots -> 0..7] /\ \A s, t \in Slots : order[s] = order[t] => s = t
  BY DEF Arrangements
<1>2. /\ o \in [Slots -> 0..7]
      /\ \A s \in Slots : o[s] = IF s = to THEN order[from] ELSE IF s = from THEN order[to] ELSE order[s]
  BY <1>1 DEF swapped
<1> HIDE DEF o
<1>3. \A s, t \in Slots : o[s] = o[t] => s = t
  BY <1>1, <1>2
<1>4. o \in Arrangements
  BY <1>2, <1>3 DEF Arrangements
<1> QED
  BY <1>4 DEF o

\* What the map holds after a transaction.
LEMMA Painted ==
  ASSUME NEW k \in Board, Judged(k)
  PROVE  animate_to(k) \in Board /\ Judged(animate_to(k)) /\ Pictured(animate_to(k))
<1>1. k.field # NoSlot
  BY SudokuAssumption DEF Board, Fields, Hues
<1>2. CASE k.displayed = k.field
  <2> DEFINE stale == k.animation \notin {NoSlot, k.field}
             t == [k EXCEPT !.stale = stale]
  <2>1. animate_to(k) = t /\ stale \in BOOLEAN
    BY <1>2 DEF animate_to
  <2> HIDE DEF stale
  <2>2. /\ t \in Board /\ t.order = k.order /\ t.field = k.field /\ t.solved = k.solved
        /\ t.displayed = k.displayed /\ t.animation = k.animation /\ t.stale = stale
    BY <2>1 DEF Board
  <2> HIDE DEF t
  <2>3. Judged(t)
    BY <2>2 DEF Judged
  <2>4. ~stale => k.animation \in {NoSlot, k.field}
    BY DEF stale
  <2>5. Pictured(t)
    BY <1>2, <2>2, <2>4 DEF Pictured
  <2> QED
    BY <2>1, <2>2, <2>3, <2>5 DEF t
<1>3. CASE k.displayed # k.field
  <2> DEFINE t == [k EXCEPT !.animation = k.field, !.stale = FALSE]
  <2>1. animate_to(k) = t
    BY <1>3 DEF animate_to
  <2>2. /\ t \in Board /\ t.order = k.order /\ t.field = k.field /\ t.solved = k.solved
        /\ t.animation = k.field
    BY DEF Board
  <2> HIDE DEF t
  <2>3. Judged(t) /\ Pictured(t)
    BY <1>1, <2>2 DEF Judged, Pictured
  <2> QED
    BY <2>1, <2>2, <2>3
<1> QED
  BY <1>2, <1>3

\* A swap and a scramble judge the board anew.
LEMMA Laid ==
  ASSUME NEW k \in Board, NEW order \in Arrangements, NEW moves \in 0..MaxMoves, NEW solved \in BOOLEAN,
         NEW trend \in {-1, 0, 1}, solved <=> Cornered(order)
  PROVE  LET t == [k EXCEPT !.order = order, !.field = solve_field(order), !.selected = NoSlot,
                            !.moves = moves, !.solved = solved, !.trend = trend]
         IN t \in Board /\ Judged(t)
<1> DEFINE field == solve_field(order)
           t == [k EXCEPT !.order = order, !.field = field, !.selected = NoSlot,
                          !.moves = moves, !.solved = solved, !.trend = trend]
<1>1. field \in Fields
  BY CellColors
<1> HIDE DEF field
<1>2. t \in Board /\ t.order = order /\ t.field = field /\ t.solved = solved
  BY <1>1 DEF Board
<1> HIDE DEF t
<1>3. Judged(t)
  BY <1>2 DEF Judged, field
<1> QED
  BY <1>2, <1>3 DEF t, field

LEMMA Swaps ==
  ASSUME NEW k \in Board, Judged(k), NEW from \in Slots, NEW to \in Slots,
         from = to \/ k.moves < MaxMoves
  PROVE  swap_slots(k, from, to) \in Board /\ Judged(swap_slots(k, from, to))
<1>1. CASE from = to
  BY <1>1 DEF swap_slots, Board, Judged
<1>2. CASE from # to
  <2> DEFINE order == swapped(k.order, from, to)
             next == field_distance(solve_field(order), Target)
             before == field_distance(k.field, Target)
             trend == IF next < before THEN 1 ELSE IF next > before THEN -1 ELSE 0
             solved == next = 0
             moves == k.moves + 1
             t == [k EXCEPT !.order = order, !.field = solve_field(order), !.selected = NoSlot,
                            !.moves = moves, !.solved = solved, !.trend = trend]
  <2>1. k.order \in Arrangements /\ k.moves \in Nat /\ k.moves < MaxMoves
    BY <1>2 DEF Board
  <2>2. order \in Arrangements
    BY <2>1, Swapped
  <2>3. solved \in BOOLEAN /\ (solved <=> Cornered(order)) /\ trend \in {-1, 0, 1} /\ moves \in 0..MaxMoves
    BY <2>1, <2>2, Matched, SudokuAssumption
  <2>4. swap_slots(k, from, to) = t
    BY <1>2 DEF swap_slots, exchanged, Board
  <2> HIDE DEF order, trend, solved, moves
  <2>5. t \in Board /\ Judged(t)
    BY <2>2, <2>3, Laid
  <2> QED
    BY <2>4, <2>5
<1> QED
  BY <1>1, <1>2

\* What only selects leaves the board as it is.
LEMMA Selects ==
  ASSUME NEW k \in Board, Judged(k), NEW slot \in Slots \union {NoSlot}
  PROVE  [k EXCEPT !.selected = slot] \in Board /\ Judged([k EXCEPT !.selected = slot])
BY DEF Board, Judged

LEMMA SudokuBegins == SudokuInit => SudokuInv
<1> SUFFICES ASSUME SudokuInit PROVE SudokuInv
  OBVIOUS
<1>1. solve_field(StartOrder) \in Fields
  BY CellColors, StartArranged
<1>2. ~Cornered(StartOrder)
  <2>1. Pair(StartOrder, 1) = {4, 3} /\ Pair(TargetOrder, 1) = {0, 6}
    BY SlotsOfCorners, StartArranged, TargetArranged
  <2>2. {4, 3} # {0, 6}
    OBVIOUS
  <2> QED
    BY <2>1, <2>2 DEF Cornered
<1> DEFINE field == solve_field(StartOrder)
<1>3. sudoku = [order |-> StartOrder, field |-> field, selected |-> NoSlot,
                moves |-> 0, solved |-> FALSE, trend |-> 0, disposed |-> FALSE,
                displayed |-> field, animation |-> NoSlot, stale |-> FALSE]
  BY DEF SudokuInit
<1> HIDE DEF field
<1>4. field \in Fields
  BY <1>1 DEF field
<1>5. sudoku \in Board
  <2>1. 0 \in 0..MaxMoves
    BY SudokuAssumption
  <2> QED
    BY <1>3, <1>4, <2>1, StartArranged DEF Board
<1>6. Judged(sudoku)
  BY <1>2, <1>3 DEF Judged, field
<1>7. Pictured(sudoku)
  BY <1>3 DEF Pictured
<1> QED
  BY <1>5, <1>6, <1>7 DEF SudokuInv

LEMMA SudokuStep == SudokuInv /\ [SudokuNext]_sudoku => SudokuInv'
<1> SUFFICES ASSUME SudokuInv, [SudokuNext]_sudoku PROVE SudokuInv'
  OBVIOUS
<1> USE DEF SudokuInv
<1>1. sudoku \in Board /\ Judged(sudoku) /\ Pictured(sudoku)
  OBVIOUS
<1>2. ASSUME NEW k \in Board, Judged(k), Rendered(k) PROVE SudokuInv'
  BY <1>2, Painted DEF Rendered
<1>3. PlayedSlots \subseteq Slots /\ sudoku.selected \in Slots \union {NoSlot}
  BY <1>1, SudokuAssumption DEF Board
<1>4. ASSUME NEW slot \in PlayedSlots, select_or_swap(slot) PROVE SudokuInv'
  <2>1. CASE Rendered([sudoku EXCEPT !.selected = slot])
    BY <1>1, <1>2, <1>3, <2>1, Selects
  <2>2. CASE /\ sudoku.selected # NoSlot /\ Playing(sudoku.selected, slot)
             /\ Rendered(swap_slots(sudoku, sudoku.selected, slot))
    BY <1>1, <1>2, <1>3, <2>2, Swaps DEF Playing
  <2> QED
    BY <1>4, <2>1, <2>2 DEF select_or_swap
<1>5. ASSUME NEW slot \in PlayedSlots, DragStart(slot) PROVE SudokuInv'
  BY <1>1, <1>2, <1>3, <1>5, Selects DEF DragStart
<1>6. ASSUME NEW slot \in PlayedSlots, NEW source \in {slot, sudoku.selected} \union PlayedSlots,
             Drop(source, slot)
      PROVE  SudokuInv'
  <2>1. /\ source \in Slots /\ slot \in Slots /\ (source = slot \/ sudoku.moves < MaxMoves)
        /\ Rendered(swap_slots(sudoku, source, slot))
    BY <1>3, <1>6 DEF Drop, Playing
  <2> QED
    BY <1>1, <1>2, <2>1, Swaps
<1>7. CASE DragEnd
  BY <1>1, <1>2, <1>7, Selects DEF DragEnd
<1>8. CASE scramble
  <2> PICK order \in ShuffledOrders :
        /\ shuffled(order)
        /\ Rendered([sudoku EXCEPT !.order = order, !.field = solve_field(order), !.selected = NoSlot,
                                   !.moves = 0, !.solved = FALSE, !.trend = 0])
    BY <1>8 DEF scramble
  <2>1. order \in Arrangements
    BY SudokuAssumption
  <2>2. ~Cornered(order)
    BY <2>1, Matched DEF shuffled
  <2> DEFINE moves == 0
             solved == FALSE
             trend == 0
             k == [sudoku EXCEPT !.order = order, !.field = solve_field(order), !.selected = NoSlot,
                                 !.moves = moves, !.solved = solved, !.trend = trend]
  <2>3. moves \in 0..MaxMoves /\ solved \in BOOLEAN /\ trend \in {-1, 0, 1} /\ (solved <=> Cornered(order))
    BY <2>2, SudokuAssumption
  <2>4. Rendered(k)
    OBVIOUS
  <2> HIDE DEF moves, solved, trend
  <2>5. k \in Board /\ Judged(k)
    BY <1>1, <2>1, <2>3, Laid
  <2> HIDE DEF k
  <2> QED
    BY <1>2, <2>4, <2>5
<1>9. CASE Frame
  <2>1. CASE sudoku' = [sudoku EXCEPT !.displayed = NoSlot]
    <3>1. /\ sudoku' \in Board /\ sudoku'.order = sudoku.order /\ sudoku'.field = sudoku.field
          /\ sudoku'.solved = sudoku.solved /\ sudoku'.disposed = sudoku.disposed
          /\ sudoku'.stale = sudoku.stale /\ sudoku'.animation = sudoku.animation
      BY <1>1, <2>1 DEF Board
    <3> QED
      BY <1>1, <1>9, <3>1 DEF Judged, Pictured, Frame
  <2>2. CASE sudoku' = [sudoku EXCEPT !.displayed = sudoku.animation, !.animation = NoSlot]
    <3>1. /\ sudoku' \in Board /\ sudoku'.order = sudoku.order /\ sudoku'.field = sudoku.field
          /\ sudoku'.solved = sudoku.solved /\ sudoku'.disposed = sudoku.disposed
          /\ sudoku'.stale = sudoku.stale /\ sudoku'.animation = NoSlot
          /\ sudoku'.displayed = sudoku.animation
      BY <1>1, <2>2 DEF Board
    <3> QED
      BY <1>1, <1>9, <3>1 DEF Judged, Pictured, Frame
  <2> QED
    BY <1>9, <2>1, <2>2 DEF Frame
<1>10. CASE dispose_sudoku
  <2>1. /\ sudoku' \in Board /\ sudoku'.order = sudoku.order /\ sudoku'.field = sudoku.field
        /\ sudoku'.solved = sudoku.solved /\ sudoku'.disposed
    BY <1>1, <1>10 DEF Board, dispose_sudoku
  <2> QED
    BY <1>1, <2>1 DEF Judged, Pictured
<1>11. CASE UNCHANGED sudoku
  BY <1>1, <1>11
<1> QED
  BY <1>4, <1>5, <1>6, <1>7, <1>8, <1>9, <1>10, <1>11 DEF SudokuNext

\* Tokens that differ from slot to slot are all there: as many as slots.
LEMMA SudokuTyped == SudokuInv => SudokuTypeOK
<1> SUFFICES ASSUME SudokuInv PROVE SudokuTypeOK
  OBVIOUS
<1> DEFINE order == sudoku.order
<1>1. order \in Arrangements
  BY DEF SudokuInv, Board
<1>2. /\ DOMAIN sudoku.order = Slots /\ sudoku.selected \in Slots \union {NoSlot}
      /\ sudoku.moves \in 0..MaxMoves /\ sudoku.trend \in -1..1
  BY <1>1 DEF SudokuInv, Board, Arrangements
<1> HIDE DEF order
<1>3. order \in Injection(Slots, Slots)
  <2>1. order \in [Slots -> 0..7] /\ \A s, t \in Slots : order[s] = order[t] => s = t
    BY <1>1 DEF Arrangements
  <2>2. order \in [Slots -> Slots] /\ DOMAIN order = Slots
    BY <2>1 DEF Slots
  <2>3. IsInjective(order)
    BY <2>1, <2>2 DEF IsInjective
  <2> QED
    BY <2>2, <2>3 DEF Injection
<1>4. IsFiniteSet(Slots)
  <2>1. 0 \in Int /\ 7 \in Int
    OBVIOUS
  <2>2. IsFiniteSet(0..7)
    BY <2>1, FS_Interval, Zenon
  <2> QED
    BY <2>2 DEF Slots
<1>5. order \in Surjection(Slots, Slots)
  BY <1>3, <1>4, FS_Injection
<1>6. \A t \in 0..7 : \E s \in Slots : order[s] = t
  BY <1>5 DEF Surjection, Slots
<1> QED
  BY <1>2, <1>6 DEF SudokuTypeOK, order

LEMMA SudokuSound == SudokuInv => BoardTruthful
BY DEF SudokuInv, Judged, Pictured, Cornered, Pair, BoardTruthful, SolvedByCorners, PictureFollows

-----------------------------------------------------------------------------
(* The cellsheet.                                                          *)

Values == {NoValue, Text} \union ({"number"} \X Int)
Kinds == {"blank", "operator", "text", "number", "result"}
Errors == {"none", "operands", "division", "collision", "occupied"}
CellState ==
  [kind : Kinds, value : Values, authored : BOOLEAN, resultOf : {<<>>} \union Operation, error : Errors]
\* Operations whose cells are those of the sheet.
Placed == {o \in Operation : {first(o), second(o), target(o)} \subseteq Cells}
Evaluation == [cells : [Cells -> CellState], operations : Seq(Placed), changed : BOOLEAN]

LEMMA OperatorCell == ASSUME NEW o \in Operation PROVE o[1] \in Cells
BY DEF Operation

LEMMA Computes ==
  ASSUME NEW op, NEW a \in Values, NEW b \in Values
  PROVE  compute_result(op, a, b) \in Values
<1>1. ASSUME NEW v \in Values, IsNumber(v) PROVE v[2] \in Int
  BY <1>1 DEF Values, IsNumber, Text, NoValue
<1>2. ASSUME NEW n \in Int PROVE Number(n) \in Values
  BY DEF Number, Values
<1>3. NoValue \in Values /\ Text \in Values
  BY DEF Values
<1>4. CASE ~(IsNumber(a) /\ IsNumber(b))
  BY <1>3, <1>4 DEF compute_result
<1>5. CASE IsNumber(a) /\ IsNumber(b)
  <2> DEFINE x == a[2]
             y == b[2]
  <2>1. x \in Int /\ y \in Int
    BY <1>1, <1>5
  <2>2. compute_result(op, a, b) =
          IF op = "+" THEN Number(x + y) ELSE IF op = "-" THEN Number(x - y)
          ELSE IF op = "*" THEN Number(x * y) ELSE IF y = 0 THEN NoValue
          ELSE Number(IF y < 0 THEN (-x) \div (-y) ELSE x \div y)
    BY <1>5 DEF compute_result
  <2> HIDE DEF x, y
  <2>3. x + y \in Int /\ x - y \in Int /\ x * y \in Int
    BY <2>1
  <2>4. y # 0 => (IF y < 0 THEN (-x) \div (-y) ELSE x \div y) \in Int
    BY <2>1
  <2> QED
    BY <1>2, <1>3, <2>2, <2>3, <2>4
<1> QED
  BY <1>4, <1>5

LEMMA Flags ==
  ASSUME NEW cells \in [Cells -> CellState], NEW c \in Cells, NEW e \in Errors
  PROVE  flag(cells, c, e) \in [Cells -> CellState]
<1>1. [cells[c] EXCEPT !.error = e] \in CellState
  BY DEF CellState
<1> QED
  BY <1>1 DEF flag

LEMMA Operates ==
  ASSUME NEW k \in Evaluation, NEW raws, NEW o \in Placed
  PROVE  operate(k, raws, o) \in Evaluation
<1> DEFINE op == raws[o[1]]
           a == k.cells[first(o)].value
           b == k.cells[second(o)].value
           noted == IF Contains(k.operations, o) THEN k.operations ELSE Append(k.operations, o)
           failing == operation_error(op, a, b)
           blocked == result_target_error(k, o)
           result == compute_result(op, a, b)
           done == [k.cells[target(o)] EXCEPT !.kind = "result", !.value = result, !.resultOf = o]
<1>1. /\ k.cells \in [Cells -> CellState] /\ k.operations \in Seq(Placed) /\ k.changed \in BOOLEAN
      /\ first(o) \in Cells /\ second(o) \in Cells /\ target(o) \in Cells /\ o \in Operation /\ o[1] \in Cells
  BY OperatorCell DEF Evaluation, Placed
<1>2. noted \in Seq(Placed)
  BY <1>1
<1>3. failing \in Errors /\ blocked \in Errors
  BY DEF operation_error, result_target_error, Errors
<1>4. a \in Values /\ b \in Values
  BY <1>1 DEF CellState
<1>5. result \in Values
  BY <1>4, Computes
<1>6. k.cells[target(o)] \in CellState
  BY <1>1
<1>7. done \in CellState
  <2> HIDE DEF result
  <2> QED
    BY <1>1, <1>5, <1>6 DEF CellState, Kinds
<1> DEFINE t == operate(k, raws, o)
           both(e) == flag(flag(k.cells, o[1], e), target(o), e)
           one == flag(k.cells, o[1], failing)
           written == [k.cells EXCEPT ![target(o)] = done]
           changed == k.changed \/ done # k.cells[target(o)]
<1>8. t = IF failing = "operands" THEN [k EXCEPT !.operations = noted, !.cells = both(failing)]
          ELSE IF failing # "none" THEN [k EXCEPT !.operations = noted, !.cells = one]
          ELSE IF blocked # "none" THEN [k EXCEPT !.operations = noted, !.cells = both(blocked)]
          ELSE [k EXCEPT !.operations = noted, !.cells = written, !.changed = changed]
  BY DEF operate
<1>9. one \in [Cells -> CellState]
  BY <1>1, <1>3, Flags
<1>10. ASSUME NEW e \in Errors PROVE both(e) \in [Cells -> CellState]
  BY <1>1, Flags
<1>11. written \in [Cells -> CellState]
  BY <1>1, <1>7
<1>12. changed \in BOOLEAN
  OBVIOUS
<1>13. ASSUME NEW cells \in [Cells -> CellState]
       PROVE  [k EXCEPT !.operations = noted, !.cells = cells] \in Evaluation
  <2> HIDE DEF noted
  <2> QED
    BY <1>2 DEF Evaluation
<1>14. [k EXCEPT !.operations = noted, !.cells = written, !.changed = changed] \in Evaluation
  <2> HIDE DEF noted, written, changed
  <2> QED
    BY <1>2, <1>11, <1>12 DEF Evaluation
<1> HIDE DEF t, both, one, written, changed, noted, failing, blocked
<1> QED
  BY <1>3, <1>8, <1>9, <1>10, <1>13, <1>14 DEF t

LEMMA Directed ==
  ASSUME NEW k \in Evaluation, NEW raws, NEW o \in Operation
  PROVE  directed(k, raws, o) \in Evaluation
<1>1. found(k, o) => o \in Placed
  BY DEF found, Placed
<1> QED
  BY <1>1, Operates DEF directed

LEMMA Finds ==
  ASSUME NEW k \in Evaluation, NEW raws, NEW c \in Cells
  PROVE  find_operations(k, raws, c) \in Evaluation
<1>1. <<c, "h">> \in Operation /\ <<c, "v">> \in Operation
  BY DEF Operation
<1>2. directed(k, raws, <<c, "h">>) \in Evaluation
  BY <1>1, Directed
<1>3. directed(directed(k, raws, <<c, "h">>), raws, <<c, "v">>) \in Evaluation
  BY <1>1, <1>2, Directed
<1> QED
  BY <1>3 DEF find_operations

LEMMA Quotients ==
  ASSUME NEW r \in Nat \ {0}, NEW c \in Nat \ {0}, NEW x \in 0..(r * c - 1)
  PROVE  x \div c \in 0..r - 1 /\ x % c \in 0..c - 1
<1> DEFINE q == x \div c
           m == x % c
<1>1. x \in Int /\ 0 <= x /\ x < r * c /\ r * c \in Int
  OBVIOUS
<1>2. q \in Int /\ m \in 0..c - 1 /\ x = c * q + m
  BY <1>1
<1> HIDE DEF q, m
<1>3. 0 <= q
  <2> SUFFICES ASSUME q <= -1 PROVE FALSE
    BY <1>2
  <2>1. c * q <= c * (-1)
    BY <1>2
  <2> QED
    BY <1>1, <1>2, <2>1
<1>4. q < r
  <2> SUFFICES ASSUME r <= q PROVE FALSE
    BY <1>2
  <2>1. c * r <= c * q
    BY <1>2
  <2>2. c * r = r * c
    OBVIOUS
  <2> QED
    BY <1>1, <1>2, <2>1, <2>2
<1> QED
  BY <1>2, <1>3, <1>4 DEF q, m

LEMMA Reading == ReadingOrder \in Seq(Cells) /\ DOMAIN ReadingOrder = 1..ROWS * COLS
<1> DEFINE n == ROWS * COLS
<1>1. n \in Nat
  BY CellsheetAssumption
<1>2. ASSUME NEW i \in 1..n PROVE <<(i - 1) \div COLS, (i - 1) % COLS>> \in Cells
  <2> DEFINE x == i - 1
  <2>1. x \in 0..(ROWS * COLS - 1)
    BY <1>1
  <2> HIDE DEF x
  <2>2. x \div COLS \in 0..ROWS - 1 /\ x % COLS \in 0..COLS - 1
    BY <2>1, Quotients, CellsheetAssumption
  <2> QED
    BY <2>2 DEF x, Cells
<1>3. ReadingOrder = [i \in 1..n |-> <<(i - 1) \div COLS, (i - 1) % COLS>>]
  BY DEF ReadingOrder
<1> HIDE DEF n
<1>4. ReadingOrder \in [1..n -> Cells]
  BY <1>2, <1>3
<1>5. ReadingOrder \in Seq(Cells)
  BY <1>1, <1>4
<1> QED
  BY <1>4, <1>5 DEF n

\* A pass over the grid, cell by cell in reading order.
LEMMA PassUnfolds ==
  ASSUME NEW k \in Evaluation, NEW raws
  PROVE  \E iter :
           /\ iter[{}] = [k EXCEPT !.changed = FALSE]
           /\ \A s \in SUBSET (1..ROWS * COLS) : s # {} =>
                iter[s] = find_operations(iter[s \ {Max(s)}], raws, ReadingOrder[Max(s)])
           /\ pass(k, raws) = iter[1..ROWS * COLS]
<1> DEFINE n == ROWS * COLS
           base == [k EXCEPT !.changed = FALSE]
           Step == [q \in Evaluation \X (1..n) |-> find_operations(q[1], raws, ReadingOrder[q[2]])]
           unfolds(iter) ==
             iter = [s \in SUBSET (1..n) |->
                       IF s = {} THEN base
                       ELSE find_operations(iter[s \ {Max(s)}], raws, ReadingOrder[Max(s)])]
           all == CHOOSE iter : unfolds(iter)
<1>1. n \in Nat /\ DOMAIN ReadingOrder = 1..n /\ \A i \in 1..n : ReadingOrder[i] \in Cells
  BY CellsheetAssumption, Reading
<1>2. base \in Evaluation
  <2> DEFINE no == FALSE
  <2>1. no \in BOOLEAN /\ base = [k EXCEPT !.changed = no]
    OBVIOUS
  <2> HIDE DEF no, base
  <2> QED
    BY <2>1 DEF Evaluation
<1>3. pass(k, raws) = all[1..n]
  <2>1. pass(k, raws) =
          (CHOOSE iter : iter = [s \in SUBSET DOMAIN ReadingOrder |->
             IF s = {} THEN base
             ELSE find_operations(iter[s \ {Max(s)}], raws, ReadingOrder[Max(s)])])[DOMAIN ReadingOrder]
    BY DEF pass, FoldLeft, MapThenFoldSet
  <2> HIDE DEF n, base
  <2> QED
    BY <1>1, <2>1
<1> HIDE DEF n, base
<1>4. ASSUME NEW x \in Evaluation, NEW i \in 1..n PROVE find_operations(x, raws, ReadingOrder[i]) \in Evaluation
  BY <1>1, Finds
<1>5. Step \in [Evaluation \X (1..n) -> Evaluation]
  BY <1>4
<1>6. PICK made : Repeats(made, n, base, Step, Evaluation)
  <2> HIDE DEF Step
  <2> QED
    BY <1>1, <1>2, <1>5, Iterated
<1>7. /\ made \in [SUBSET (1..n) -> Evaluation]
      /\ \A s \in SUBSET (1..n) : made[s] = IF s = {} THEN base ELSE Step[<<made[s \ {Max(s)}], Max(s)>>]
  BY <1>6 DEF Repeats
<1>8. \A s \in SUBSET (1..n) : s # {} => Max(s) \in 1..n
  BY <1>1, Uppermost
<1>9. unfolds(all)
  <2>1. ASSUME NEW s \in SUBSET (1..n), s # {}
        PROVE  made[s] = find_operations(made[s \ {Max(s)}], raws, ReadingOrder[Max(s)])
    <3>1. made[s \ {Max(s)}] \in Evaluation /\ Max(s) \in 1..n
      BY <1>7, <1>8, <2>1
    <3> QED
      BY <1>7, <2>1, <3>1
  <2>2. made = [s \in SUBSET (1..n) |-> made[s]]
    BY <1>7
  <2>3. unfolds(made)
    BY <1>7, <2>1, <2>2
  <2> QED
    BY <2>3
<1> HIDE DEF all
<1>10. /\ all[{}] = base
       /\ \A s \in SUBSET (1..n) : s # {} =>
            all[s] = find_operations(all[s \ {Max(s)}], raws, ReadingOrder[Max(s)])
  BY <1>9
<1>11. /\ all[{}] = [k EXCEPT !.changed = FALSE]
       /\ \A s \in SUBSET (1..ROWS * COLS) : s # {} =>
            all[s] = find_operations(all[s \ {Max(s)}], raws, ReadingOrder[Max(s)])
       /\ pass(k, raws) = all[1..ROWS * COLS]
  BY <1>3, <1>10 DEF n, base
<1> QED
  BY <1>11

LEMMA Passes ==
  ASSUME NEW k \in Evaluation, NEW raws
  PROVE  pass(k, raws) \in Evaluation
<1> DEFINE n == ROWS * COLS
           base == [k EXCEPT !.changed = FALSE]
<1>1. n \in Nat /\ \A i \in 1..n : ReadingOrder[i] \in Cells
  BY CellsheetAssumption, Reading
<1>2. base \in Evaluation
  <2> DEFINE no == FALSE
  <2>1. no \in BOOLEAN /\ base = [k EXCEPT !.changed = no]
    OBVIOUS
  <2> HIDE DEF no, base
  <2> QED
    BY <2>1 DEF Evaluation
<1>3. PICK iter :
        /\ iter[{}] = base
        /\ \A s \in SUBSET (1..n) : s # {} =>
             iter[s] = find_operations(iter[s \ {Max(s)}], raws, ReadingOrder[Max(s)])
        /\ pass(k, raws) = iter[1..n]
  BY PassUnfolds
<1> HIDE DEF n, base
<1>4. ASSUME NEW s \in SUBSET (1..n), s # {}, iter[s \ {Max(s)}] \in Evaluation
      PROVE  iter[s] \in Evaluation
  <2> DEFINE m == Max(s)
             before == iter[s \ {m}]
  <2>1. m \in s /\ m \in 1..n /\ before \in Evaluation
    BY <1>1, <1>4, Uppermost
  <2>2. iter[s] = find_operations(before, raws, ReadingOrder[m])
    BY <1>3, <1>4
  <2> HIDE DEF before, m
  <2>3. ReadingOrder[m] \in Cells
    BY <1>1, <2>1
  <2> QED
    BY <2>1, <2>2, <2>3, Finds
<1>5. iter[1..n] \in Evaluation
  BY <1>1, <1>2, <1>3, <1>4, StaysWithin
<1> QED
  BY <1>3, <1>5

LEMMA Parses == ASSUME NEW raws \in [Cells -> Raw] PROVE parsed(raws) \in Evaluation
<1>1. ASSUME NEW raw \in Raw PROVE parse_cell(raw) \in CellState
  <2> DEFINE kind == IF raw = "blank" THEN "blank" ELSE IF raw \in Operators THEN "operator"
                     ELSE IF raw = "words" THEN "text" ELSE "number"
             value == IF raw = "blank" THEN NoValue
                      ELSE IF raw \in DOMAIN RawNumbers THEN Number(RawNumbers[raw]) ELSE Text
             typed == raw # "blank"
  <2>1. kind \in Kinds
    BY DEF Kinds
  <2>2. raw \in DOMAIN RawNumbers => RawNumbers[raw] \in Int
    BY DEF RawNumbers
  <2>3. value \in Values
    BY <2>2 DEF Values, Number
  <2>4. parse_cell(raw) = [kind |-> kind, value |-> value, authored |-> typed, resultOf |-> <<>>, error |-> "none"]
    BY DEF parse_cell
  <2>5. typed \in BOOLEAN /\ "none" \in Errors
    BY DEF Errors
  <2> HIDE DEF kind, value, typed
  <2> QED
    BY <2>1, <2>3, <2>4, <2>5 DEF CellState
<1> DEFINE cells == [c \in Cells |-> parse_cell(raws[c])]
           yes == TRUE
<1>2. cells \in [Cells -> CellState]
  BY <1>1
<1>3. parsed(raws) = [cells |-> cells, operations |-> <<>>, changed |-> yes] /\ yes \in BOOLEAN
  BY DEF parsed
<1>4. <<>> \in Seq(Placed)
  OBVIOUS
<1> HIDE DEF cells, yes
<1> QED
  BY <1>2, <1>3, <1>4 DEF Evaluation

\* Passes over the grid, while the last one changed it.
LEMMA EvaluationUnfolds ==
  ASSUME NEW raws \in [Cells -> Raw]
  PROVE  \E iter :
           /\ iter[{}] = parsed(raws)
           /\ \A s \in SUBSET (1..MAX_EVALUATION_PASSES) : s # {} =>
                iter[s] = IF iter[s \ {Max(s)}].changed THEN pass(iter[s \ {Max(s)}], raws)
                          ELSE iter[s \ {Max(s)}]
           /\ evaluate_cellsheet(raws) = iter[1..MAX_EVALUATION_PASSES]
<1> DEFINE n == MAX_EVALUATION_PASSES
           count == [i \in 1..n |-> i]
           base == parsed(raws)
           next(k) == IF k.changed THEN pass(k, raws) ELSE k
           Step == [q \in Evaluation \X (1..n) |-> next(q[1])]
           unfolds(iter) ==
             iter = [s \in SUBSET (1..n) |-> IF s = {} THEN base ELSE next(iter[s \ {Max(s)}])]
           all == CHOOSE iter : unfolds(iter)
<1>1. n \in Nat /\ DOMAIN count = 1..n
  BY CellsheetAssumption DEF MAX_EVALUATION_PASSES
<1>2. base \in Evaluation
  BY Parses
<1>3. evaluate_cellsheet(raws) = all[1..n]
  <2>1. evaluate_cellsheet(raws) =
          (CHOOSE iter : iter = [s \in SUBSET DOMAIN count |->
             IF s = {} THEN base
             ELSE IF iter[s \ {Max(s)}].changed THEN pass(iter[s \ {Max(s)}], raws)
                  ELSE iter[s \ {Max(s)}]])[DOMAIN count]
    BY DEF evaluate_cellsheet, FoldLeft, MapThenFoldSet
  <2> HIDE DEF count, base
  <2> QED
    BY <1>1, <2>1
<1> HIDE DEF n, base
<1>4. ASSUME NEW x \in Evaluation PROVE next(x) \in Evaluation
  BY Passes
<1> HIDE DEF next
<1>5. Step \in [Evaluation \X (1..n) -> Evaluation]
  BY <1>4
<1>6. PICK made : Repeats(made, n, base, Step, Evaluation)
  <2> HIDE DEF Step
  <2> QED
    BY <1>1, <1>2, <1>5, Iterated
<1>7. /\ made \in [SUBSET (1..n) -> Evaluation]
      /\ \A s \in SUBSET (1..n) : made[s] = IF s = {} THEN base ELSE Step[<<made[s \ {Max(s)}], Max(s)>>]
  BY <1>6 DEF Repeats
<1>8. \A s \in SUBSET (1..n) : s # {} => Max(s) \in 1..n
  BY <1>1, Uppermost
<1>9. unfolds(all)
  <2>1. ASSUME NEW s \in SUBSET (1..n), s # {}
        PROVE  made[s] = next(made[s \ {Max(s)}])
    <3>1. made[s \ {Max(s)}] \in Evaluation /\ Max(s) \in 1..n
      BY <1>7, <1>8, <2>1
    <3> QED
      BY <1>7, <2>1, <3>1
  <2>2. made = [s \in SUBSET (1..n) |-> made[s]]
    BY <1>7
  <2>3. unfolds(made)
    BY <1>7, <2>1, <2>2
  <2> QED
    BY <2>3
<1> HIDE DEF all
<1>10. all[{}] = base /\ \A s \in SUBSET (1..n) : s # {} => all[s] = next(all[s \ {Max(s)}])
  BY <1>9
<1>11. /\ all[{}] = parsed(raws)
       /\ \A s \in SUBSET (1..MAX_EVALUATION_PASSES) : s # {} =>
            all[s] = IF all[s \ {Max(s)}].changed THEN pass(all[s \ {Max(s)}], raws)
                     ELSE all[s \ {Max(s)}]
       /\ evaluate_cellsheet(raws) = all[1..MAX_EVALUATION_PASSES]
  BY <1>3, <1>10 DEF n, base, next
<1> QED
  BY <1>11

LEMMA Evaluates ==
  ASSUME NEW raws \in [Cells -> Raw]
  PROVE  evaluate_cellsheet(raws) \in Evaluation
<1> DEFINE n == MAX_EVALUATION_PASSES
<1>1. n \in Nat
  BY CellsheetAssumption DEF MAX_EVALUATION_PASSES
<1>2. PICK iter :
        /\ iter[{}] = parsed(raws)
        /\ \A s \in SUBSET (1..n) : s # {} =>
             iter[s] = IF iter[s \ {Max(s)}].changed THEN pass(iter[s \ {Max(s)}], raws)
                       ELSE iter[s \ {Max(s)}]
        /\ evaluate_cellsheet(raws) = iter[1..n]
  BY EvaluationUnfolds
<1> HIDE DEF n
<1>3. iter[{}] \in Evaluation
  BY <1>2, Parses
<1>4. ASSUME NEW s \in SUBSET (1..n), s # {}, iter[s \ {Max(s)}] \in Evaluation
      PROVE  iter[s] \in Evaluation
  <2> DEFINE before == iter[s \ {Max(s)}]
  <2>1. before \in Evaluation
    BY <1>4
  <2>2. iter[s] = IF before.changed THEN pass(before, raws) ELSE before
    BY <1>2, <1>4
  <2> HIDE DEF before
  <2> QED
    BY <2>1, <2>2, Passes
<1>5. iter[1..n] \in Evaluation
  BY <1>1, <1>3, <1>4, StaysWithin
<1> QED
  BY <1>2, <1>5

-----------------------------------------------------------------------------
(* Why the passes over a sheet end: a value is never replaced by another.  *)

\* A cell is as it was typed, or empty, or has the result of an operation
\* that was found.
CellStands(k, raws, c) ==
  LET x == k.cells[c]
      o == x.resultOf
  IN /\ x.authored <=> raws[c] # "blank"
     /\ x.authored => x.kind # "result" /\ x.value = parse_cell(raws[c]).value
     /\ ~x.authored /\ x.kind # "result" => x.value = NoValue
     /\ x.kind = "result" =>
          /\ o \in Placed /\ target(o) = c /\ Contains(k.operations, o)
          /\ x.value = compute_result(raws[o[1]], k.cells[first(o)].value, k.cells[second(o)].value)
          /\ x.value # NoValue

\* What was found is still there, and has written its result unless it fails.
OperationStands(k, raws, o) ==
  /\ raws[o[1]] \in Operators /\ found(k, o)
  /\ verdict(k, raws, o) = "none" => k.cells[target(o)].kind = "result"

FailsAt(k, raws, o, c) ==
  LET e == verdict(k, raws, o)
  IN \/ c = o[1] /\ e # "none"
     \/ c = target(o) /\ e \notin {"none", "division"}
ErrorsStand(k, raws, c) ==
  k.cells[c].error # "none" <=> \E o \in Operation : Contains(k.operations, o) /\ FailsAt(k, raws, o, c)

Stands(k, raws) ==
  /\ k \in Evaluation
  /\ \A c \in Cells : CellStands(k, raws, c) /\ ErrorsStand(k, raws, c)
  /\ \A o \in Operation : Contains(k.operations, o) => OperationStands(k, raws, o)

\* What evaluating leads to: values and operations are added, and a change is
\* a cell that was empty.
Fills(k, t) ==
  /\ \A c \in Cells : k.cells[c].value # NoValue => t.cells[c].value = k.cells[c].value
  /\ \A o \in Operation : Contains(k.operations, o) => Contains(t.operations, o)
  /\ ~t.changed => ~k.changed /\ \A c \in Cells : t.cells[c].value = k.cells[c].value
  /\ t.changed => k.changed \/ \E c \in Cells : k.cells[c].value = NoValue /\ t.cells[c].value # NoValue

LEMMA FillsOn ==
  ASSUME NEW j, NEW k, NEW t, Fills(j, k), Fills(k, t)
  PROVE  Fills(j, t)
<1>1. \A c \in Cells : j.cells[c].value # NoValue => t.cells[c].value = j.cells[c].value
  BY DEF Fills
<1>2. ASSUME t.changed, ~j.changed
      PROVE  \E c \in Cells : j.cells[c].value = NoValue /\ t.cells[c].value # NoValue
  <2>1. CASE k.changed
    <3>1. PICK c \in Cells : j.cells[c].value = NoValue /\ k.cells[c].value # NoValue
      BY <1>2, <2>1 DEF Fills
    <3>2. t.cells[c].value = k.cells[c].value
      BY <3>1 DEF Fills
    <3> QED
      BY <3>1, <3>2
  <2>2. CASE ~k.changed
    <3>1. PICK c \in Cells : k.cells[c].value = NoValue /\ t.cells[c].value # NoValue
      BY <1>2, <2>2 DEF Fills
    <3>2. j.cells[c].value = NoValue
      BY <3>1 DEF Fills
    <3> QED
      BY <3>1, <3>2
  <2> QED
    BY <2>1, <2>2
<1> QED
  BY <1>1, <1>2 DEF Fills

LEMMA Appended ==
  ASSUME NEW s \in Seq(Placed), NEW o \in Placed, NEW q
  PROVE  Contains(IF Contains(s, o) THEN s ELSE Append(s, o), q) <=> Contains(s, q) \/ q = o
<1> DEFINE t == Append(s, o)
           n == Len(s)
<1>1. /\ n \in Nat /\ Len(t) = n + 1 /\ t[n + 1] = o
      /\ \A i \in 1..n : t[i] = s[i]
  OBVIOUS
<1>2. Contains(t, q) <=> \E i \in 1..(n + 1) : t[i] = q
  BY <1>1 DEF Contains
<1>3. Contains(s, q) <=> \E i \in 1..n : s[i] = q
  BY DEF Contains
<1> HIDE DEF t, n
<1>4. Contains(t, q) <=> Contains(s, q) \/ q = o
  <2>1. \A i \in 1..(n + 1) : i = n + 1 \/ i \in 1..n
    BY <1>1
  <2>2. (n + 1) \in 1..(n + 1) /\ \A i \in 1..n : i \in 1..(n + 1)
    BY <1>1
  <2> QED
    BY <1>1, <1>2, <1>3, <2>1, <2>2
<1> QED
  BY <1>4 DEF t

LEMMA Overwritten ==
  ASSUME NEW x \in CellState, NEW v, NEW o
  PROVE  [x EXCEPT !.kind = "result", !.value = v, !.resultOf = o]
         = [kind |-> "result", value |-> v, authored |-> x.authored, resultOf |-> o, error |-> x.error]
<1>1. PICK a \in Kinds, b \in Values, c \in BOOLEAN, d \in {<<>>} \union Operation, e \in Errors :
        x = [kind |-> a, value |-> b, authored |-> c, resultOf |-> d, error |-> e]
  BY DEF CellState
<1>2. x.authored = c /\ x.error = e
  BY <1>1
<1> DEFINE y == [kind |-> "result", value |-> b, authored |-> c, resultOf |-> d, error |-> e]
           z == [kind |-> "result", value |-> v, authored |-> c, resultOf |-> d, error |-> e]
<1>3. [x EXCEPT !.kind = "result"] = y
  BY <1>1
<1>4. [y EXCEPT !.value = v] = z
  OBVIOUS
<1>5. [z EXCEPT !.resultOf = o] = [kind |-> "result", value |-> v, authored |-> c, resultOf |-> o, error |-> e]
  OBVIOUS
<1> HIDE DEF y, z
<1> QED
  BY <1>2, <1>3, <1>4, <1>5

\* What an operation that is found does to the sheet.
LEMMA OperateDoes ==
  ASSUME NEW k \in Evaluation, NEW raws, NEW o \in Placed
  PROVE  /\ operate(k, raws, o) \in Evaluation
         /\ \A q : Contains(operate(k, raws, o).operations, q) <=> Contains(k.operations, q) \/ q = o
         /\ verdict(k, raws, o) # "none" =>
              /\ operate(k, raws, o).changed = k.changed
              /\ \A c \in Cells :
                   /\ operate(k, raws, o).cells[c].kind = k.cells[c].kind
                   /\ operate(k, raws, o).cells[c].value = k.cells[c].value
                   /\ operate(k, raws, o).cells[c].authored = k.cells[c].authored
                   /\ operate(k, raws, o).cells[c].resultOf = k.cells[c].resultOf
                   /\ operate(k, raws, o).cells[c].error
                      = IF FailsAt(k, raws, o, c) THEN verdict(k, raws, o) ELSE k.cells[c].error
         /\ verdict(k, raws, o) = "none" =>
              /\ operate(k, raws, o).cells[target(o)].kind = "result"
              /\ operate(k, raws, o).cells[target(o)].value
                 = compute_result(raws[o[1]], k.cells[first(o)].value, k.cells[second(o)].value)
              /\ operate(k, raws, o).cells[target(o)].resultOf = o
              /\ operate(k, raws, o).cells[target(o)].authored = k.cells[target(o)].authored
              /\ operate(k, raws, o).cells[target(o)].error = k.cells[target(o)].error
              /\ \A c \in Cells : c # target(o) => operate(k, raws, o).cells[c] = k.cells[c]
              /\ operate(k, raws, o).changed
                 = (k.changed \/ operate(k, raws, o).cells[target(o)] # k.cells[target(o)])
              /\ operate(k, raws, o).operations
                 = IF Contains(k.operations, o) THEN k.operations ELSE Append(k.operations, o)
<1> DEFINE op == raws[o[1]]
           a == k.cells[first(o)].value
           b == k.cells[second(o)].value
           noted == IF Contains(k.operations, o) THEN k.operations ELSE Append(k.operations, o)
           failing == operation_error(op, a, b)
           blocked == result_target_error(k, o)
           result == compute_result(op, a, b)
           done == [k.cells[target(o)] EXCEPT !.kind = "result", !.value = result, !.resultOf = o]
           written == [k.cells EXCEPT ![target(o)] = done]
           changed == k.changed \/ done # k.cells[target(o)]
           both(e) == flag(flag(k.cells, o[1], e), target(o), e)
           one == flag(k.cells, o[1], failing)
           t == operate(k, raws, o)
           v == verdict(k, raws, o)
<1>1. /\ k.cells \in [Cells -> CellState] /\ k.operations \in Seq(Placed)
      /\ target(o) \in Cells /\ o \in Operation /\ o[1] \in Cells
  BY OperatorCell DEF Evaluation, Placed
<1>2. failing \in {"none", "operands", "division"} /\ blocked \in {"none", "collision", "occupied"}
  BY DEF operation_error, result_target_error
<1>3. v = IF failing # "none" THEN failing ELSE blocked
  BY DEF verdict
<1>4. t \in Evaluation
  BY Operates
<1>5. t = IF failing = "operands" THEN [k EXCEPT !.operations = noted, !.cells = both(failing)]
          ELSE IF failing # "none" THEN [k EXCEPT !.operations = noted, !.cells = one]
          ELSE IF blocked # "none" THEN [k EXCEPT !.operations = noted, !.cells = both(blocked)]
          ELSE [k EXCEPT !.operations = noted, !.cells = written, !.changed = changed]
  BY DEF operate
<1>6. k = [cells |-> k.cells, operations |-> k.operations, changed |-> k.changed]
  BY DEF Evaluation
<1> HIDE DEF t, v, failing, blocked, done
<1>7. ASSUME NEW cells
      PROVE  LET made == [k EXCEPT !.operations = noted, !.cells = cells]
             IN made.cells = cells /\ made.operations = noted /\ made.changed = k.changed
  <2> HIDE DEF noted
  <2> QED
    BY <1>6
<1>8. LET made == [k EXCEPT !.operations = noted, !.cells = written, !.changed = changed]
      IN made.cells = written /\ made.operations = noted /\ made.changed = changed
  <2> HIDE DEF noted, written, changed
  <2> QED
    BY <1>6
<1>9. t.operations = noted
  BY <1>5, <1>7, <1>8
<1>10. \A q : Contains(t.operations, q) <=> Contains(k.operations, q) \/ q = o
  BY <1>1, <1>9, Appended
<1>11. ASSUME NEW c \in Cells, NEW e, NEW d \in Cells, NEW cells \in [Cells -> CellState]
       PROVE  LET f == flag(cells, d, e)
              IN /\ f[c].kind = cells[c].kind /\ f[c].value = cells[c].value
                 /\ f[c].authored = cells[c].authored /\ f[c].resultOf = cells[c].resultOf
                 /\ f[c].error = IF c = d THEN e ELSE cells[c].error
  <2>1. cells[c] \in CellState
    OBVIOUS
  <2>2. flag(cells, d, e)[c] = IF c = d THEN [cells[c] EXCEPT !.error = e] ELSE cells[c]
    BY DEF flag
  <2> QED
    BY <2>1, <2>2 DEF CellState
<1>12. ASSUME v # "none"
       PROVE  /\ t.changed = k.changed
              /\ \A c \in Cells :
                   /\ t.cells[c].kind = k.cells[c].kind /\ t.cells[c].value = k.cells[c].value
                   /\ t.cells[c].authored = k.cells[c].authored /\ t.cells[c].resultOf = k.cells[c].resultOf
                   /\ t.cells[c].error = IF FailsAt(k, raws, o, c) THEN v ELSE k.cells[c].error
  <2>1. \A c : FailsAt(k, raws, o, c) <=> c = o[1] \/ (c = target(o) /\ v # "division")
    BY <1>12 DEF FailsAt, v
  <2>2. CASE v = "division"
    <3>1. t.cells = flag(k.cells, o[1], v) /\ t.changed = k.changed
      BY <1>2, <1>3, <1>5, <1>7, <2>2
    <3> QED
      BY <1>1, <1>11, <2>1, <2>2, <3>1
  <2>3. CASE v # "division"
    <3>1. t.cells = both(v) /\ t.changed = k.changed
      BY <1>2, <1>3, <1>5, <1>7, <1>12, <2>3
    <3>2. v \in Errors
      BY <1>2, <1>3 DEF Errors
    <3>3. flag(k.cells, o[1], v) \in [Cells -> CellState]
      BY <1>1, <3>2, Flags
    <3> QED
      BY <1>1, <1>11, <2>1, <2>3, <3>1, <3>3
  <2> QED
    BY <2>2, <2>3
<1>13. ASSUME v = "none"
       PROVE  /\ t.cells[target(o)].kind = "result" /\ t.cells[target(o)].value = result
              /\ t.cells[target(o)].resultOf = o /\ t.cells[target(o)].authored = k.cells[target(o)].authored
              /\ t.cells[target(o)].error = k.cells[target(o)].error
              /\ \A c \in Cells : c # target(o) => t.cells[c] = k.cells[c]
              /\ t.changed = (k.changed \/ t.cells[target(o)] # k.cells[target(o)])
  <2> DEFINE x == k.cells[target(o)]
             w == [kind |-> "result", value |-> result, authored |-> x.authored, resultOf |-> o, error |-> x.error]
  <2>1. t.cells = written /\ t.changed = changed
    BY <1>2, <1>3, <1>5, <1>8, <1>13
  <2>2. x \in CellState
    BY <1>1
  <2>3. done = w
    BY <2>2, Overwritten DEF done
  <2>4. t.cells[target(o)] = w /\ \A c \in Cells : c # target(o) => t.cells[c] = k.cells[c]
    <3> HIDE DEF w
    <3> QED
      BY <1>1, <2>1, <2>3
  <2>5. t.changed = (k.changed \/ w # x)
    BY <2>1, <2>3
  <2> HIDE DEF x, result
  <2> QED
    BY <2>4, <2>5 DEF x
<1> HIDE DEF result, noted
<1> QED
  BY <1>4, <1>9, <1>10, <1>12, <1>13 DEF t, v, result, noted

\* Where only errors are added, what was found stays as it is.
LEMMA VerdictsStay ==
  ASSUME NEW k \in Evaluation, NEW t \in Evaluation, NEW raws,
         \A c \in Cells : /\ t.cells[c].kind = k.cells[c].kind /\ t.cells[c].value = k.cells[c].value
                          /\ t.cells[c].authored = k.cells[c].authored
                          /\ t.cells[c].resultOf = k.cells[c].resultOf
  PROVE  /\ \A o \in Operation : found(t, o) <=> found(k, o)
         /\ \A o \in Placed : verdict(t, raws, o) = verdict(k, raws, o)
         /\ \A o \in Placed : \A c : FailsAt(t, raws, o, c) <=> FailsAt(k, raws, o, c)
<1>1. \A o \in Operation : found(t, o) <=> found(k, o)
  BY DEF found
<1>2. ASSUME NEW o \in Placed PROVE verdict(t, raws, o) = verdict(k, raws, o)
  <2>1. first(o) \in Cells /\ second(o) \in Cells /\ target(o) \in Cells
    BY DEF Placed
  <2>2. result_target_error(t, o) = result_target_error(k, o)
    BY <2>1 DEF result_target_error
  <2> QED
    BY <2>1, <2>2 DEF verdict
<1> QED
  BY <1>1, <1>2 DEF FailsAt

LEMMA ListedPlaced ==
  ASSUME NEW k \in Evaluation, NEW o, Contains(k.operations, o)
  PROVE  o \in Placed /\ o \in Operation
<1>1. k.operations \in Seq(Placed)
  BY DEF Evaluation
<1>2. PICK i \in 1..Len(k.operations) : k.operations[i] = o
  BY DEF Contains
<1>3. k.operations[i] \in Placed
  BY <1>1, <1>2
<1> QED
  BY <1>2, <1>3 DEF Placed

\* An operation that fails, or is blocked, leaves all values alone.
LEMMA OperateFails ==
  ASSUME NEW k, NEW raws, NEW o \in Placed, Stands(k, raws), raws[o[1]] \in Operators, found(k, o),
         verdict(k, raws, o) # "none"
  PROVE  Stands(operate(k, raws, o), raws) /\ Fills(k, operate(k, raws, o))
<1> DEFINE t == operate(k, raws, o)
<1>1. k \in Evaluation /\ o \in Operation
  BY DEF Stands, Placed
<1>2. /\ t \in Evaluation /\ t.changed = k.changed
      /\ \A q : Contains(t.operations, q) <=> Contains(k.operations, q) \/ q = o
      /\ \A c \in Cells :
           /\ t.cells[c].kind = k.cells[c].kind /\ t.cells[c].value = k.cells[c].value
           /\ t.cells[c].authored = k.cells[c].authored /\ t.cells[c].resultOf = k.cells[c].resultOf
           /\ t.cells[c].error = IF FailsAt(k, raws, o, c) THEN verdict(k, raws, o) ELSE k.cells[c].error
  BY <1>1, OperateDoes
<1> HIDE DEF t
<1>3. /\ \A q \in Operation : found(t, q) <=> found(k, q)
      /\ \A q \in Placed : verdict(t, raws, q) = verdict(k, raws, q)
      /\ \A q \in Placed : \A c : FailsAt(t, raws, q, c) <=> FailsAt(k, raws, q, c)
  BY <1>1, <1>2, VerdictsStay
<1>4. ASSUME NEW c \in Cells PROVE CellStands(t, raws, c)
  <2>1. CellStands(k, raws, c)
    BY DEF Stands
  <2>2. \A q \in Placed : first(q) \in Cells /\ second(q) \in Cells
    BY DEF Placed
  <2> QED
    BY <1>2, <2>1, <2>2 DEF CellStands
<1>5. ASSUME NEW c \in Cells PROVE ErrorsStand(t, raws, c)
  <2>1. k.cells[c].error # "none" <=> \E q \in Operation : Contains(k.operations, q) /\ FailsAt(k, raws, q, c)
    BY DEF Stands, ErrorsStand
  <2>2. \A q : Contains(k.operations, q) => q \in Placed /\ q \in Operation
    BY <1>1, ListedPlaced
  <2>3. t.cells[c].error # "none" <=> k.cells[c].error # "none" \/ FailsAt(k, raws, o, c)
    BY <1>2
  <2>4. (\E q \in Operation : Contains(t.operations, q) /\ FailsAt(t, raws, q, c))
          <=> (\E q \in Operation : Contains(k.operations, q) /\ FailsAt(k, raws, q, c)) \/ FailsAt(k, raws, o, c)
    BY <1>1, <1>2, <1>3, <2>2
  <2> QED
    BY <2>1, <2>3, <2>4 DEF ErrorsStand
<1>6. ASSUME NEW q \in Operation, Contains(t.operations, q) PROVE OperationStands(t, raws, q)
  <2>1. q \in Placed /\ target(q) \in Cells
    BY <1>2, <1>6, ListedPlaced DEF Placed
  <2>2. CASE q = o
    BY <1>1, <1>3, <2>2 DEF OperationStands
  <2>3. CASE Contains(k.operations, q)
    <3>1. OperationStands(k, raws, q)
      BY <2>3 DEF Stands
    <3> QED
      BY <1>2, <1>3, <2>1, <3>1 DEF OperationStands
  <2> QED
    BY <1>2, <1>6, <2>2, <2>3
<1>7. Fills(k, t)
  BY <1>2 DEF Fills
<1> QED
  BY <1>2, <1>4, <1>5, <1>6, <1>7 DEF Stands, t

\* An operation that succeeds fills an empty cell, or finds its result there.
LEMMA OperateWrites ==
  ASSUME NEW k, NEW raws, NEW o \in Placed, Stands(k, raws), raws[o[1]] \in Operators, found(k, o),
         verdict(k, raws, o) = "none"
  PROVE  Stands(operate(k, raws, o), raws) /\ Fills(k, operate(k, raws, o))
<1> DEFINE t == operate(k, raws, o)
           goal == target(o)
           x == k.cells[goal]
           a == k.cells[first(o)].value
           b == k.cells[second(o)].value
           result == compute_result(raws[o[1]], a, b)
<1>1. /\ k \in Evaluation /\ o \in Operation /\ goal \in Cells /\ first(o) \in Cells /\ second(o) \in Cells
      /\ k.cells \in [Cells -> CellState]
  BY DEF Stands, Placed, Evaluation
<1>2. /\ t \in Evaluation
      /\ \A q : Contains(t.operations, q) <=> Contains(k.operations, q) \/ q = o
      /\ t.cells[goal].kind = "result" /\ t.cells[goal].value = result /\ t.cells[goal].resultOf = o
      /\ t.cells[goal].authored = x.authored /\ t.cells[goal].error = x.error
      /\ \A c \in Cells : c # goal => t.cells[c] = k.cells[c]
      /\ t.changed = (k.changed \/ t.cells[goal] # x)
      /\ t.operations = IF Contains(k.operations, o) THEN k.operations ELSE Append(k.operations, o)
  <2> HIDE DEF goal
  <2>1. verdict(k, raws, o) = "none" /\ k \in Evaluation /\ o \in Placed
    BY <1>1
  <2> QED
    BY <2>1, OperateDoes DEF goal
<1>3. result # NoValue /\ a # NoValue /\ b # NoValue
  <2>1. a # NoValue /\ b # NoValue
    BY DEF found
  <2>2. operation_error(raws[o[1]], a, b) = "none"
    BY DEF verdict
  <2> QED
    BY <2>1, <2>2 DEF operation_error
<1>4. ~x.authored /\ (x.kind = "result" => x.resultOf = o)
  BY DEF verdict, result_target_error
<1>5. x \in CellState /\ t.cells \in [Cells -> CellState] /\ t.cells[goal] \in CellState
  BY <1>1, <1>2 DEF Evaluation
<1>7. CellStands(k, raws, goal)
  BY <1>1 DEF Stands
<1> HIDE DEF t
<1>8. CASE x.kind = "result"
  <2>1. x.resultOf = o /\ Contains(k.operations, o) /\ x.value = result
    BY <1>4, <1>7, <1>8 DEF CellStands
  <2>2. t.cells[goal] = x
    <3> DEFINE y == t.cells[goal]
    <3>1. /\ y \in CellState /\ y.kind = x.kind /\ y.value = x.value /\ y.authored = x.authored
          /\ y.resultOf = x.resultOf /\ y.error = x.error
      BY <1>2, <1>5, <1>8, <2>1
    <3> HIDE DEF x, y
    <3>2. y = x
      BY <1>5, <3>1 DEF CellState
    <3> QED
      BY <3>2 DEF y
  <2>3. t.cells = k.cells /\ t.changed = k.changed /\ t.operations = k.operations
    <3>1. \A c \in Cells : t.cells[c] = k.cells[c]
      BY <1>2, <2>2
    <3>2. t.cells = k.cells
      <4> HIDE DEF x, goal
      <4> QED
        BY <1>1, <1>5, <3>1
    <3>3. k.changed \in BOOLEAN
      BY <1>1 DEF Evaluation
    <3> QED
      BY <1>2, <2>1, <2>2, <3>2, <3>3
  <2>4. t = k
    BY <1>1, <1>2, <2>3 DEF Evaluation
  <2>5. Fills(k, k)
    BY DEF Fills
  <2> QED
    BY <2>4, <2>5 DEF t
<1>9. CASE x.kind # "result"
  <2>1. x.value = NoValue
    BY <1>4, <1>7, <1>9 DEF CellStands
  <2>2. t.changed = TRUE
    BY <1>2, <1>9
  <2>3. /\ t.cells[goal].kind = "result" /\ t.cells[goal].value = result /\ t.cells[goal].resultOf = o
        /\ t.cells[goal].authored = x.authored /\ t.cells[goal].error = x.error
        /\ \A c \in Cells : c # goal => t.cells[c] = k.cells[c]
    BY <1>2
  <2>4. \A c \in Cells : k.cells[c].value # NoValue => c # goal /\ t.cells[c] = k.cells[c]
    BY <2>1, <2>3
  <2>5. ASSUME NEW q \in Operation, found(k, q)
        PROVE  /\ found(t, q) /\ q \in Placed
               /\ t.cells[first(q)] = k.cells[first(q)] /\ t.cells[second(q)] = k.cells[second(q)]
    <3>1. /\ {first(q), second(q), target(q)} \subseteq Cells
          /\ k.cells[first(q)].value # NoValue /\ k.cells[second(q)].value # NoValue
      BY <2>5 DEF found
    <3>2. t.cells[first(q)] = k.cells[first(q)] /\ t.cells[second(q)] = k.cells[second(q)]
      BY <2>4, <3>1
    <3> QED
      BY <3>1, <3>2 DEF found, Placed
  \* What is listed has had its verdict: it did not wait for this cell.
  <2>6. ASSUME NEW q \in Operation, Contains(k.operations, q)
        PROVE  q # o /\ verdict(t, raws, q) = verdict(k, raws, q)
    <3>1. OperationStands(k, raws, q)
      BY <2>6 DEF Stands
    <3>2. /\ found(k, q) /\ q \in Placed /\ target(q) \in Cells
          /\ t.cells[first(q)] = k.cells[first(q)] /\ t.cells[second(q)] = k.cells[second(q)]
      BY <2>5, <3>1 DEF OperationStands, Placed
    <3>3. q # o
      BY <1>9, <3>1 DEF OperationStands
    <3>4. CASE target(q) # goal
      <4>1. result_target_error(t, q) = result_target_error(k, q)
        BY <2>3, <3>2, <3>4 DEF result_target_error
      <4> QED
        BY <3>2, <3>3, <4>1 DEF verdict
    <3>5. CASE target(q) = goal
      <4>1. verdict(k, raws, q) # "none"
        BY <1>9, <3>1, <3>5 DEF OperationStands
      <4>2. result_target_error(k, q) = "none"
        BY <1>4, <1>9, <3>5 DEF result_target_error
      <4>3. operation_error(raws[q[1]], k.cells[first(q)].value, k.cells[second(q)].value) # "none"
        BY <4>1, <4>2 DEF verdict
      <4> QED
        BY <3>2, <3>3, <4>3 DEF verdict
    <3> QED
      BY <3>4, <3>5
  <2>7. verdict(t, raws, o) = "none"
    <3>1. t.cells[first(o)] = k.cells[first(o)] /\ t.cells[second(o)] = k.cells[second(o)]
      BY <1>1, <2>5
    <3>2. operation_error(raws[o[1]], a, b) = "none"
      BY DEF verdict
    <3>3. result_target_error(t, o) = "none"
      BY <1>4, <2>3 DEF result_target_error
    <3> QED
      BY <3>1, <3>2, <3>3 DEF verdict
  <2>8. ASSUME NEW c \in Cells PROVE CellStands(t, raws, c)
    <3>1. CellStands(k, raws, c)
      BY DEF Stands
    <3>2. CASE c = goal
      <4>1. t.cells[first(o)] = k.cells[first(o)] /\ t.cells[second(o)] = k.cells[second(o)]
        BY <1>1, <2>5
      <4>2. Contains(t.operations, o) /\ ~x.authored /\ (x.authored <=> raws[goal] # "blank")
        BY <1>2, <1>4, <1>7 DEF CellStands
      <4> QED
        BY <1>3, <2>3, <3>2, <4>1, <4>2 DEF CellStands
    <3>3. CASE c # goal
      <4> DEFINE q == k.cells[c].resultOf
      <4>1. t.cells[c] = k.cells[c]
        BY <2>3, <3>3
      <4>2. CASE k.cells[c].kind = "result"
        <5>1. q \in Placed /\ q \in Operation /\ Contains(k.operations, q)
          BY <3>1, <4>2 DEF CellStands, Placed
        <5>2. found(k, q)
          BY <5>1 DEF Stands, OperationStands
        <5>3. t.cells[first(q)] = k.cells[first(q)] /\ t.cells[second(q)] = k.cells[second(q)]
          BY <2>5, <5>1, <5>2
        <5> QED
          BY <1>2, <3>1, <4>1, <5>3 DEF CellStands
      <4>3. CASE k.cells[c].kind # "result"
        BY <3>1, <4>1, <4>3 DEF CellStands
      <4> QED
        BY <4>2, <4>3
    <3> QED
      BY <3>2, <3>3
  <2>9. ASSUME NEW c \in Cells PROVE ErrorsStand(t, raws, c)
    <3>1. k.cells[c].error # "none" <=> \E q \in Operation : Contains(k.operations, q) /\ FailsAt(k, raws, q, c)
      BY DEF Stands, ErrorsStand
    <3>2. t.cells[c].error = k.cells[c].error
      BY <2>3
    <3>3. ~FailsAt(t, raws, o, c)
      BY <2>7 DEF FailsAt
    <3>4. \A q \in Operation : Contains(k.operations, q) => (FailsAt(t, raws, q, c) <=> FailsAt(k, raws, q, c))
      BY <2>6 DEF FailsAt
    <3> QED
      BY <1>2, <3>1, <3>2, <3>3, <3>4 DEF ErrorsStand
  <2>10. ASSUME NEW q \in Operation, Contains(t.operations, q) PROVE OperationStands(t, raws, q)
    <3>1. CASE q = o
      BY <1>1, <2>3, <2>5, <3>1 DEF OperationStands
    <3>2. CASE Contains(k.operations, q)
      <4>1. OperationStands(k, raws, q) /\ verdict(t, raws, q) = verdict(k, raws, q)
        BY <2>6, <3>2 DEF Stands
      <4>2. found(t, q) /\ target(q) \in Cells
        BY <2>5, <4>1 DEF OperationStands, Placed
      <4>3. k.cells[target(q)].kind = "result" => t.cells[target(q)].kind = "result"
        BY <2>3, <4>2
      <4> QED
        BY <4>1, <4>2, <4>3 DEF OperationStands
    <3> QED
      BY <1>2, <2>10, <3>1, <3>2
  <2>11. Fills(k, t)
    <3>1. x.value = NoValue /\ t.cells[goal].value # NoValue
      BY <1>3, <2>1, <2>3
    <3> QED
      BY <1>1, <1>2, <2>2, <2>4, <3>1 DEF Fills
  <2> QED
    BY <1>2, <2>8, <2>9, <2>10, <2>11 DEF Stands, t
<1> QED
  BY <1>8, <1>9

LEMMA DirectedOn ==
  ASSUME NEW k, NEW raws, NEW o \in Operation, Stands(k, raws), raws[o[1]] \in Operators
  PROVE  LET t == directed(k, raws, o)
         IN Stands(t, raws) /\ Fills(k, t) /\ (found(k, o) => Contains(t.operations, o))
<1>1. Fills(k, k)
  BY DEF Fills
<1>2. ASSUME found(k, o)
      PROVE  /\ Stands(operate(k, raws, o), raws) /\ Fills(k, operate(k, raws, o))
             /\ Contains(operate(k, raws, o).operations, o)
  <2>1. o \in Placed /\ k \in Evaluation
    BY <1>2 DEF found, Placed, Stands
  <2>2. Contains(operate(k, raws, o).operations, o)
    BY <2>1, OperateDoes
  <2> QED
    BY <1>2, <2>1, <2>2, OperateFails, OperateWrites
<1> QED
  BY <1>1, <1>2 DEF directed

\* Every cell is read.
LEMMA ReadingAll == \A c \in Cells : \E i \in 1..ROWS * COLS : ReadingOrder[i] = c
<1> SUFFICES ASSUME NEW c \in Cells PROVE \E i \in 1..ROWS * COLS : ReadingOrder[i] = c
  OBVIOUS
<1>1. PICK r \in 0..ROWS - 1, q \in 0..COLS - 1 : c = <<r, q>>
  BY DEF Cells
<1>2. ROWS \in Nat \ {0} /\ COLS \in Nat \ {0}
  BY CellsheetAssumption
<1> DEFINE x == r * COLS + q
           d == x \div COLS
           m == x % COLS
<1>3. x \in 0..(ROWS * COLS - 1)
  <2>1. r <= ROWS - 1 /\ r \in Nat /\ r * COLS \in Nat /\ q <= COLS - 1 /\ q \in Nat
    BY <1>1, <1>2
  <2>2. r * COLS <= (ROWS - 1) * COLS
    BY <1>2, <2>1
  <2>3. (ROWS - 1) * COLS = ROWS * COLS - COLS
    BY <1>2
  <2> QED
    BY <1>2, <2>1, <2>2, <2>3
<1>4. x = r * COLS + q /\ x \in Int /\ d \in Int /\ m \in 0..COLS - 1 /\ x = COLS * d + m
  BY <1>2, <1>3
<1> HIDE DEF x, d, m
<1>5. r \in Int /\ q \in Int /\ 0 <= q /\ q < COLS
  BY <1>1, <1>2
<1>6. d = r
  <2>1. COLS * (d - r) = q - m
    <3>1. COLS * (d - r) = COLS * d - r * COLS
      BY <1>2, <1>4, <1>5
    <3> QED
      BY <1>2, <1>4, <1>5, <3>1
  <2>2. CASE d >= r + 1
    <3>1. COLS * 1 <= COLS * (d - r)
      BY <1>2, <1>4, <1>5, <2>2
    <3> QED
      BY <1>2, <1>4, <1>5, <2>1, <3>1
  <2>3. CASE d <= r - 1
    <3>1. COLS * (d - r) <= COLS * (-1)
      BY <1>2, <1>4, <1>5, <2>3
    <3> QED
      BY <1>2, <1>4, <1>5, <2>1, <3>1
  <2> QED
    BY <1>4, <1>5, <2>2, <2>3
<1>7. m = q
  BY <1>2, <1>4, <1>5, <1>6
<1>8. x + 1 \in 1..ROWS * COLS /\ (x + 1) - 1 = x
  BY <1>2, <1>3
<1>9. ReadingOrder[x + 1] = <<((x + 1) - 1) \div COLS, ((x + 1) - 1) % COLS>>
  BY <1>8 DEF ReadingOrder
<1>10. ReadingOrder[x + 1] = c
  BY <1>1, <1>6, <1>7, <1>8, <1>9 DEF d, m
<1> QED
  BY <1>8, <1>10

\* The operations of one cell.
LEMMA FindsOn ==
  ASSUME NEW k, NEW raws, NEW c \in Cells, Stands(k, raws)
  PROVE  LET t == find_operations(k, raws, c)
         IN /\ Stands(t, raws) /\ Fills(k, t)
            /\ ~t.changed => \A way \in {"h", "v"} :
                 raws[c] \in Operators /\ found(t, <<c, way>>) => Contains(t.operations, <<c, way>>)
<1> DEFINE across == <<c, "h">>
           down == <<c, "v">>
           j == directed(k, raws, across)
           t == directed(j, raws, down)
<1>1. Fills(k, k)
  BY DEF Fills
<1>2. ASSUME raws[c] \in Operators
      PROVE  /\ Stands(t, raws) /\ Fills(k, t)
             /\ ~t.changed => /\ found(t, across) => Contains(t.operations, across)
                              /\ found(t, down) => Contains(t.operations, down)
  <2>1. across \in Operation /\ down \in Operation /\ across[1] = c /\ down[1] = c
    BY DEF Operation
  <2> HIDE DEF across, down
  <2>2. Stands(j, raws) /\ Fills(k, j) /\ (found(k, across) => Contains(j.operations, across))
    BY <1>2, <2>1, DirectedOn
  <2> HIDE DEF j
  <2>3. Stands(t, raws) /\ Fills(j, t) /\ (found(j, down) => Contains(t.operations, down))
    BY <1>2, <2>1, <2>2, DirectedOn
  <2> HIDE DEF t
  <2>4. ASSUME ~t.changed, NEW o \in Operation
        PROVE  /\ found(t, o) <=> found(j, o)
               /\ found(t, o) <=> found(k, o)
    <3>1. ~j.changed /\ \A d \in Cells : t.cells[d].value = j.cells[d].value
      BY <2>3, <2>4 DEF Fills
    <3>2. \A d \in Cells : j.cells[d].value = k.cells[d].value
      BY <2>2, <3>1 DEF Fills
    <3> QED
      BY <3>1, <3>2 DEF found
  <2>5. Fills(k, t)
    BY <2>2, <2>3, FillsOn
  <2>6. Contains(j.operations, across) => Contains(t.operations, across)
    BY <2>1, <2>3 DEF Fills
  <2> QED
    BY <2>1, <2>2, <2>3, <2>4, <2>5, <2>6
<1> QED
  BY <1>1, <1>2 DEF find_operations

\* All operations that can be found have been.
AllFound(k, raws) ==
  \A o \in Operation : raws[o[1]] \in Operators /\ found(k, o) => Contains(k.operations, o)

LEMMA PassOn ==
  ASSUME NEW k, NEW raws, Stands(k, raws)
  PROVE  /\ Stands(pass(k, raws), raws)
         /\ Fills([k EXCEPT !.changed = FALSE], pass(k, raws))
         /\ ~pass(k, raws).changed => AllFound(pass(k, raws), raws)
<1> DEFINE n == ROWS * COLS
           base == [k EXCEPT !.changed = FALSE]
<1>1. n \in Nat /\ k \in Evaluation /\ (\A i \in 1..n : ReadingOrder[i] \in Cells)
  BY CellsheetAssumption, Reading DEF Stands
<1>2. base \in Evaluation /\ base.cells = k.cells /\ base.operations = k.operations /\ ~base.changed
  <2> DEFINE no == FALSE
  <2>1. no \in BOOLEAN /\ ~no
    OBVIOUS
  <2> HIDE DEF no
  <2>2. /\ [k EXCEPT !.changed = no] \in Evaluation /\ [k EXCEPT !.changed = no].cells = k.cells
        /\ [k EXCEPT !.changed = no].operations = k.operations /\ [k EXCEPT !.changed = no].changed = no
    BY <1>1, <2>1 DEF Evaluation
  <2> QED
    BY <2>1, <2>2 DEF no
<1> HIDE DEF base
<1>3. Stands(base, raws)
  <2>1. \A o : found(base, o) <=> found(k, o)
    BY <1>2 DEF found
  <2>2. \A o : verdict(base, raws, o) = verdict(k, raws, o)
    BY <1>2 DEF verdict, result_target_error
  <2>3. \A o, c : FailsAt(base, raws, o, c) <=> FailsAt(k, raws, o, c)
    BY <2>2 DEF FailsAt
  <2>4. \A c \in Cells : CellStands(base, raws, c)
    BY <1>2 DEF Stands, CellStands
  <2>5. \A c \in Cells : ErrorsStand(base, raws, c)
    BY <1>2, <2>3 DEF Stands, ErrorsStand
  <2>6. \A o \in Operation : Contains(base.operations, o) => OperationStands(base, raws, o)
    BY <1>2, <2>1, <2>2 DEF Stands, OperationStands
  <2> QED
    BY <1>2, <2>4, <2>5, <2>6 DEF Stands
<1>4. PICK iter :
        /\ iter[{}] = base
        /\ \A s \in SUBSET (1..n) : s # {} =>
             iter[s] = find_operations(iter[s \ {Max(s)}], raws, ReadingOrder[Max(s)])
        /\ pass(k, raws) = iter[1..n]
  BY <1>1, PassUnfolds DEF base
<1> DEFINE Searched(t, i) ==
             \A way \in {"h", "v"} :
               raws[ReadingOrder[i]] \in Operators /\ found(t, <<ReadingOrder[i], way>>)
                 => Contains(t.operations, <<ReadingOrder[i], way>>)
           Sofar(s, t) == Stands(t, raws) /\ Fills(base, t) /\ (~t.changed => \A i \in s : Searched(t, i))
           True == {s \in SUBSET (1..n) : Sofar(s, iter[s])}
<1>5. {} \in True
  <2>1. Fills(base, base)
    BY DEF Fills
  <2> QED
    BY <1>3, <1>4, <2>1
<1>6. ASSUME NEW s \in SUBSET (1..n), s # {}, s \ {Max(s)} \in True PROVE s \in True
  <2> DEFINE before == iter[s \ {Max(s)}]
             m == Max(s)
             t == iter[s]
  <2>1. m \in s /\ m \in 1..n
    BY <1>1, <1>6, Uppermost
  <2>2. t = find_operations(before, raws, ReadingOrder[m])
    BY <1>4, <1>6
  <2>3. Stands(before, raws) /\ Fills(base, before) /\ (~before.changed => \A i \in s \ {m} : Searched(before, i))
    BY <1>6
  <2> HIDE DEF before, m, t, Searched
  <2>4. Stands(t, raws) /\ Fills(before, t) /\ (~t.changed => Searched(t, m))
    BY <1>1, <2>1, <2>2, <2>3, FindsOn DEF Searched
  <2>5. Fills(base, t)
    BY <2>3, <2>4, FillsOn
  <2>6. ASSUME ~t.changed, NEW i \in s PROVE Searched(t, i)
    <3>1. CASE i = m
      BY <2>4, <2>6, <3>1
    <3>2. CASE i # m
      <4>1. ~before.changed /\ \A d \in Cells : t.cells[d].value = before.cells[d].value
        BY <2>4, <2>6 DEF Fills
      <4>2. Searched(before, i)
        BY <2>3, <3>2, <4>1
      <4>3. \A way \in {"h", "v"} : <<ReadingOrder[i], way>> \in Operation
        BY <1>1 DEF Operation
      <4>4. \A o \in Operation : (found(t, o) <=> found(before, o))
                                 /\ (Contains(before.operations, o) => Contains(t.operations, o))
        BY <2>4, <4>1 DEF found, Fills
      <4> QED
        BY <4>2, <4>3, <4>4 DEF Searched
    <3> QED
      BY <3>1, <3>2
  <2>7. Sofar(s, t)
    BY <2>4, <2>5, <2>6
  <2> QED
    BY <2>7 DEF t
<1>7. True \in SUBSET (SUBSET (1..n))
  OBVIOUS
<1> DEFINE full == 1..n
<1>8. full \in True
  <2>1. full \in SUBSET (1..n)
    OBVIOUS
  <2> HIDE DEF True, full
  <2> QED
    BY <1>1, <1>5, <1>6, <1>7, <2>1, AlongIndices
<1> DEFINE t == pass(k, raws)
<1>9. Stands(t, raws) /\ Fills(base, t) /\ (~t.changed => \A i \in 1..n : Searched(t, i))
  BY <1>4, <1>8
<1> HIDE DEF t
<1>10. ASSUME ~t.changed PROVE AllFound(t, raws)
  <2> SUFFICES ASSUME NEW o \in Operation, raws[o[1]] \in Operators, found(t, o)
               PROVE  Contains(t.operations, o)
    BY DEF AllFound
  <2>1. o = <<o[1], o[2]>> /\ o[1] \in Cells /\ o[2] \in {"h", "v"}
    BY DEF Operation
  <2>2. PICK i \in 1..n : ReadingOrder[i] = o[1]
    BY <2>1, ReadingAll
  <2>3. Searched(t, i)
    BY <1>9, <1>10
  <2> QED
    BY <2>1, <2>2, <2>3
<1> QED
  BY <1>9, <1>10 DEF t, base

\* Cells with results: every pass that changes something adds to them.
Written(k) == {c \in Cells : k.cells[c].kind = "result"}

LEMMA CellsCounted == IsFiniteSet(Cells) /\ Cardinality(Cells) = ROWS * COLS
<1> DEFINE rows == 0..ROWS - 1
           cols == 0..COLS - 1
<1>1. ROWS \in Nat \ {0} /\ COLS \in Nat \ {0} /\ 0 \in Int /\ ROWS - 1 \in Int /\ COLS - 1 \in Int
  BY CellsheetAssumption
<1>2. IsFiniteSet(rows) /\ Cardinality(rows) = ROWS
  <2>1. IsFiniteSet(rows) /\ Cardinality(rows) = IF 0 > ROWS - 1 THEN 0 ELSE (ROWS - 1) - 0 + 1
    BY <1>1, FS_Interval
  <2> QED
    BY <1>1, <2>1
<1>3. IsFiniteSet(cols) /\ Cardinality(cols) = COLS
  <2>1. IsFiniteSet(cols) /\ Cardinality(cols) = IF 0 > COLS - 1 THEN 0 ELSE (COLS - 1) - 0 + 1
    BY <1>1, FS_Interval
  <2> QED
    BY <1>1, <2>1
<1> HIDE DEF rows, cols
<1>4. IsFiniteSet(rows \X cols) /\ Cardinality(rows \X cols) = Cardinality(rows) * Cardinality(cols)
  BY <1>2, <1>3, FS_Product
<1> QED
  BY <1>2, <1>3, <1>4 DEF Cells, rows, cols

LEMMA WrittenBounded ==
  ASSUME NEW k, NEW raws, Stands(k, raws)
  PROVE  IsFiniteSet(Written(k)) /\ Cardinality(Written(k)) \in Nat /\ Cardinality(Written(k)) < ROWS * COLS
<1>1. Written(k) \subseteq Cells
  BY DEF Written
<1>2. IsFiniteSet(Written(k)) /\ Cardinality(Written(k)) \in Nat
  BY <1>1, CellsCounted, FS_Subset, FS_CardinalityType
<1>3. \E c \in Cells : c \notin Written(k)
  <2>1. <<0, 0>> \in Cells
    BY CellsheetAssumption DEF Cells
  <2>2. CASE <<0, 0>> \in Written(k)
    <3> DEFINE o == k.cells[<<0, 0>>].resultOf
    <3>1. o \in Operation /\ o[1] \in Cells /\ Contains(k.operations, o)
      BY <2>1, <2>2, OperatorCell DEF Stands, CellStands, Written, Placed
    <3>2. raws[o[1]] \in Operators
      BY <3>1 DEF Stands, OperationStands
    <3>3. raws[o[1]] # "blank"
      BY <3>2 DEF Operators
    <3>4. k.cells[o[1]].kind # "result"
      BY <3>1, <3>3 DEF Stands, CellStands
    <3> QED
      BY <3>1, <3>4 DEF Written
  <2> QED
    BY <2>1, <2>2
<1>4. Cardinality(Written(k)) < Cardinality(Cells)
  <2>1. /\ Cardinality(Written(k)) <= Cardinality(Cells)
        /\ Cardinality(Cells) = Cardinality(Written(k)) => Cells = Written(k)
    BY <1>1, CellsCounted, FS_Subset
  <2>2. Cardinality(Cells) \in Nat
    BY CellsCounted, FS_CardinalityType
  <2> QED
    BY <1>2, <1>3, <2>1, <2>2
<1> QED
  BY <1>2, <1>4, CellsCounted

LEMMA WrittenMore ==
  ASSUME NEW k, NEW t, NEW raws, Stands(k, raws), Stands(t, raws), t.changed,
         Fills([k EXCEPT !.changed = FALSE], t)
  PROVE  Cardinality(Written(t)) >= Cardinality(Written(k)) + 1
<1> DEFINE base == [k EXCEPT !.changed = FALSE]
<1>1. base.cells = k.cells /\ ~base.changed
  <2> DEFINE no == FALSE
  <2>1. ~no
    OBVIOUS
  <2> HIDE DEF no
  <2>2. [k EXCEPT !.changed = no].cells = k.cells /\ [k EXCEPT !.changed = no].changed = no
    BY DEF Stands, Evaluation
  <2> QED
    BY <2>1, <2>2 DEF no
<1> HIDE DEF base
<1>2. Fills(base, t)
  BY DEF base
<1>3. \A c \in Cells : k.cells[c].value # NoValue => t.cells[c].value = k.cells[c].value
  BY <1>1, <1>2 DEF Fills
<1>4. PICK c \in Cells : k.cells[c].value = NoValue /\ t.cells[c].value # NoValue
  BY <1>1, <1>2 DEF Fills
<1>5. \A d \in Cells : CellStands(k, raws, d) /\ CellStands(t, raws, d)
  BY DEF Stands
<1>6. c \in Written(t) /\ c \notin Written(k)
  BY <1>4, <1>5 DEF CellStands, Written
<1>7. Written(k) \subseteq Written(t)
  BY <1>3, <1>5 DEF CellStands, Written
<1>8. Cardinality(Written(k)) < Cardinality(Written(t))
  BY <1>6, <1>7, WrittenBounded, FS_Subset
<1> QED
  BY <1>8, WrittenBounded

\* What is typed is evaluated from scratch.
LEMMA ParsedOn ==
  ASSUME NEW raws \in [Cells -> Raw]
  PROVE  Stands(parsed(raws), raws)
<1> DEFINE k == parsed(raws)
           none == <<>>
<1>1. /\ k.operations = none /\ \A c \in Cells : k.cells[c] = parse_cell(raws[c])
  BY DEF parsed
<1>2. k \in Evaluation
  BY Parses
<1>3. \A o : ~Contains(none, o)
  BY DEF Contains
<1> HIDE DEF k, none
<1>4. ASSUME NEW c \in Cells PROVE CellStands(k, raws, c) /\ ErrorsStand(k, raws, c)
  <2> DEFINE x == k.cells[c]
  <2>1. raws[c] \in Raw /\ x = parse_cell(raws[c])
    BY <1>1
  <2>2. /\ x.kind # "result" /\ (x.authored <=> raws[c] # "blank")
        /\ (raws[c] = "blank" => x.value = NoValue) /\ x.error = "none"
    <3> DEFINE raw == raws[c]
               kind == IF raw = "blank" THEN "blank" ELSE IF raw \in Operators THEN "operator"
                       ELSE IF raw = "words" THEN "text" ELSE "number"
               value == IF raw = "blank" THEN NoValue
                        ELSE IF raw \in DOMAIN RawNumbers THEN Number(RawNumbers[raw]) ELSE Text
               typed == raw # "blank"
    <3>1. kind # "result" /\ (raw = "blank" => value = NoValue)
      OBVIOUS
    <3>2. x = [kind |-> kind, value |-> value, authored |-> typed, resultOf |-> none, error |-> "none"]
      BY <2>1 DEF parse_cell, none
    <3> HIDE DEF x, kind, value, typed
    <3>3. x.kind = kind /\ x.value = value /\ x.authored = typed /\ x.error = "none"
      BY <3>2
    <3> QED
      BY <3>1, <3>3 DEF typed
  <2>3. x.value = parse_cell(raws[c]).value
    BY <2>1
  <2>4. CellStands(k, raws, c)
    BY <2>2, <2>3 DEF CellStands
  <2>5. ErrorsStand(k, raws, c)
    BY <1>1, <1>3, <2>2 DEF ErrorsStand
  <2> QED
    BY <2>4, <2>5
<1> QED
  BY <1>1, <1>2, <1>3, <1>4 DEF Stands, k

LEMMA SettledOn ==
  ASSUME NEW k, NEW raws, Stands(k, raws), AllFound(k, raws)
  PROVE  Settled(k, raws)
<1>1. ASSUME NEW o \in Operation
      PROVE  raws[o[1]] \in Operators /\ found(k, o) <=> Contains(k.operations, o)
  BY DEF AllFound, Stands, OperationStands
<1>2. ASSUME NEW o \in Operation, Contains(k.operations, o), verdict(k, raws, o) = "none"
      PROVE  /\ k.cells[target(o)].resultOf = o
             /\ k.cells[target(o)].value
                = compute_result(raws[o[1]], k.cells[first(o)].value, k.cells[second(o)].value)
  <2>1. target(o) \in Cells /\ k.cells[target(o)].kind = "result"
    BY <1>2 DEF Stands, OperationStands, found
  <2>2. k.cells[target(o)].resultOf = o
    BY <1>2, <2>1 DEF verdict, result_target_error
  <2> QED
    BY <2>1, <2>2 DEF Stands, CellStands
<1>3. ASSUME NEW c \in Cells
      PROVE  /\ raws[c] # "blank" => k.cells[c].value = parse_cell(raws[c]).value
             /\ k.cells[c].error # "none" <=>
                  \E i \in 1..Len(k.operations) :
                    LET o == k.operations[i]
                        e == verdict(k, raws, o)
                    IN \/ c = o[1] /\ e # "none"
                       \/ c = target(o) /\ e \notin {"none", "division"}
  <2>1. CellStands(k, raws, c) /\ ErrorsStand(k, raws, c) /\ k \in Evaluation
    BY DEF Stands
  <2>2. (\E o \in Operation : Contains(k.operations, o) /\ FailsAt(k, raws, o, c))
          <=> \E i \in 1..Len(k.operations) : FailsAt(k, raws, k.operations[i], c)
    <3>1. ASSUME NEW i \in 1..Len(k.operations)
          PROVE  k.operations[i] \in Operation /\ Contains(k.operations, k.operations[i])
      <4>1. Contains(k.operations, k.operations[i])
        BY DEF Contains
      <4> QED
        BY <2>1, <4>1, ListedPlaced
    <3> QED
      BY <3>1 DEF Contains
  <2>3. (\E i \in 1..Len(k.operations) : FailsAt(k, raws, k.operations[i], c))
          <=> \E i \in 1..Len(k.operations) :
                LET o == k.operations[i]
                    e == verdict(k, raws, o)
                IN \/ c = o[1] /\ e # "none"
                   \/ c = target(o) /\ e \notin {"none", "division"}
    BY DEF FailsAt
  <2> QED
    BY <2>1, <2>2, <2>3 DEF CellStands, ErrorsStand
<1> QED
  BY <1>1, <1>2, <1>3 DEF Settled

\* There are more passes than cells a pass could still fill.
LEMMA EvaluationSettles ==
  ASSUME NEW raws \in [Cells -> Raw]
  PROVE  Settled(evaluate_cellsheet(raws), raws)
<1> DEFINE n == MAX_EVALUATION_PASSES
<1>1. n \in Nat /\ n = ROWS * COLS
  BY CellsheetAssumption DEF MAX_EVALUATION_PASSES
<1>2. PICK iter :
        /\ iter[{}] = parsed(raws)
        /\ \A s \in SUBSET (1..n) : s # {} =>
             iter[s] = IF iter[s \ {Max(s)}].changed THEN pass(iter[s \ {Max(s)}], raws)
                       ELSE iter[s \ {Max(s)}]
        /\ evaluate_cellsheet(raws) = iter[1..n]
  BY EvaluationUnfolds
<1> HIDE DEF n
<1> DEFINE Sofar(s, k) ==
             /\ Stands(k, raws) /\ (~k.changed => AllFound(k, raws))
             /\ k.changed => Cardinality(Written(k)) >= Cardinality(s)
           True == {s \in SUBSET (1..n) : Sofar(s, iter[s])}
<1>3. {} \in True
  <2>1. Stands(iter[{}], raws) /\ iter[{}].changed
    BY <1>2, ParsedOn DEF parsed
  <2>2. Cardinality(Written(iter[{}])) \in Nat
    BY <2>1, WrittenBounded
  <2>3. Cardinality({}) = 0
    BY FS_EmptySet
  <2> QED
    BY <2>1, <2>2, <2>3
<1>4. ASSUME NEW s \in SUBSET (1..n), s # {}, s \ {Max(s)} \in True PROVE s \in True
  <2> DEFINE before == iter[s \ {Max(s)}]
             m == Max(s)
             t == iter[s]
  <2>1. m \in s
    BY <1>1, <1>4, Uppermost
  <2>2. t = IF before.changed THEN pass(before, raws) ELSE before
    BY <1>2, <1>4
  <2>3. Sofar(s \ {m}, before)
    BY <1>4
  <2> HIDE DEF before, m, t
  <2>4. CASE ~before.changed
    BY <2>2, <2>3, <2>4 DEF t
  <2>5. CASE before.changed
    <3>1. t = pass(before, raws)
      BY <2>2, <2>5
    <3>2. Stands(t, raws) /\ Fills([before EXCEPT !.changed = FALSE], t) /\ (~t.changed => AllFound(t, raws))
      BY <2>3, <3>1, PassOn
    <3>3. ASSUME t.changed PROVE Cardinality(Written(t)) >= Cardinality(s)
      <4>1. Cardinality(Written(t)) >= Cardinality(Written(before)) + 1
        BY <2>3, <3>2, <3>3, WrittenMore
      <4>2. IsFiniteSet(1..n) /\ s \subseteq 1..n
        BY <1>1, FS_Interval
      <4>3. IsFiniteSet(s)
        BY <4>2, FS_Subset
      <4>4. Cardinality(s \ {m}) = Cardinality(s) - 1 /\ Cardinality(s) \in Nat
        BY <2>1, <4>3, FS_RemoveElement, FS_CardinalityType
      <4>5. Cardinality(Written(t)) \in Nat /\ Cardinality(Written(before)) \in Nat
        BY <2>3, <3>2, WrittenBounded
      <4> QED
        BY <2>3, <2>5, <4>1, <4>4, <4>5
    <3>4. Sofar(s, t)
      BY <3>2, <3>3
    <3> QED
      BY <3>4 DEF t
  <2> QED
    BY <2>4, <2>5
<1>5. True \in SUBSET (SUBSET (1..n))
  OBVIOUS
<1> DEFINE full == 1..n
<1>6. full \in True
  <2>1. full \in SUBSET (1..n)
    OBVIOUS
  <2> HIDE DEF True, full
  <2> QED
    BY <1>1, <1>3, <1>4, <1>5, <2>1, AlongIndices
<1> DEFINE k == evaluate_cellsheet(raws)
<1>7. Sofar(1..n, k)
  BY <1>2, <1>6
<1> HIDE DEF k
<1>8. Cardinality(1..n) = n
  <2>1. 1 \in Int /\ n \in Int
    BY <1>1
  <2>2. Cardinality(1..n) = IF 1 > n THEN 0 ELSE n - 1 + 1
    BY <2>1, FS_Interval
  <2> QED
    BY <1>1, <2>2
<1>9. ~k.changed
  <2>1. Cardinality(Written(k)) \in Nat /\ Cardinality(Written(k)) < n
    BY <1>1, <1>7, WrittenBounded
  <2> QED
    BY <1>1, <1>7, <1>8, <2>1
<1> QED
  BY <1>7, <1>9, SettledOn DEF k

-----------------------------------------------------------------------------
\* What a cell can be to the selected one.
Relations == {"none", "selected", "blocked", "operand", "operator", "target"}
Shows == {"blocked", "selected"}

LEMMA Marks ==
  ASSUME NEW r \in [Cells -> Relations], NEW c \in Cells, NEW relation \in Relations
  PROVE  LET t == mark(r, c, relation)
         IN /\ t \in [Cells -> Relations]
            /\ \A d \in Cells : r[d] \in Shows => t[d] = r[d]
            /\ relation = "blocked" => t[c] \in Shows
BY DEF mark, Shows

LEMMA Relates ==
  ASSUME NEW k \in Evaluation, NEW chosen, NEW o \in Placed, NEW r \in [Cells -> Relations]
  PROVE  LET t == relate(k, chosen, r, o)
         IN /\ t \in [Cells -> Relations]
            /\ \A d \in Cells : r[d] \in Shows => t[d] \in Shows
            /\ chosen \in Cells /\ touches(o, chosen) /\ k.cells[target(o)].error # "none" =>
                 t[target(o)] \in Shows
<1> DEFINE last == IF k.cells[target(o)].error # "none" THEN "blocked" ELSE "target"
           r1 == mark(r, first(o), "operand")
           r2 == mark(r1, second(o), "operand")
           r3 == mark(r2, o[1], "operator")
           r4 == mark(r3, target(o), last)
           t == relate(k, chosen, r, o)
<1>1. first(o) \in Cells /\ second(o) \in Cells /\ target(o) \in Cells /\ o[1] \in Cells
  BY OperatorCell DEF Placed
<1>2. "operand" \in Relations /\ "operator" \in Relations /\ last \in Relations
  BY DEF Relations
<1>3. t = IF chosen \in Cells /\ touches(o, chosen) THEN r4 ELSE r
  BY DEF relate
<1>4. k.cells[target(o)].error # "none" => last = "blocked"
  OBVIOUS
<1> HIDE DEF r1, r2, r3, r4, last, t
<1>5. r1 \in [Cells -> Relations] /\ \A d \in Cells : r[d] \in Shows => r1[d] = r[d]
  BY <1>1, <1>2, Marks DEF r1
<1>6. r2 \in [Cells -> Relations] /\ \A d \in Cells : r1[d] \in Shows => r2[d] = r1[d]
  BY <1>1, <1>2, <1>5, Marks DEF r2
<1>7. r3 \in [Cells -> Relations] /\ \A d \in Cells : r2[d] \in Shows => r3[d] = r2[d]
  BY <1>1, <1>2, <1>6, Marks DEF r3
<1>8. /\ r4 \in [Cells -> Relations] /\ \A d \in Cells : r3[d] \in Shows => r4[d] = r3[d]
      /\ last = "blocked" => r4[target(o)] \in Shows
  BY <1>1, <1>2, <1>7, Marks DEF r4
<1> QED
  BY <1>3, <1>4, <1>5, <1>6, <1>7, <1>8 DEF t

\* Whatever is marked after it, what was seen blocked stays so.
LEMMA Related ==
  ASSUME NEW k \in Evaluation, NEW chosen, NEW j \in 1..Len(k.operations), chosen \in Cells,
         touches(k.operations[j], chosen), k.cells[target(k.operations[j])].error # "none"
  PROVE  derive_cellsheet_relations(k, chosen)[target(k.operations[j])] \in Shows
<1> DEFINE ops == k.operations
           n == Len(ops)
           Maps == [Cells -> Relations]
           base == [c \in Cells |-> IF c = chosen THEN "selected" ELSE "none"]
           next(r, i) == relate(k, chosen, r, ops[i])
           Step == [q \in Maps \X (1..n) |-> next(q[1], q[2])]
           unfolds(iter) ==
             iter = [s \in SUBSET (1..n) |-> IF s = {} THEN base ELSE next(iter[s \ {Max(s)}], Max(s))]
           all == CHOOSE iter : unfolds(iter)
           goal == target(ops[j])
<1>1. n \in Nat /\ DOMAIN ops = 1..n /\ (\A i \in 1..n : ops[i] \in Placed) /\ j \in 1..n
  BY DEF Evaluation
<1>2. base \in Maps
  BY DEF Relations
<1>3. derive_cellsheet_relations(k, chosen) = all[1..n]
  <2>1. derive_cellsheet_relations(k, chosen) =
          (CHOOSE iter : iter = [s \in SUBSET DOMAIN ops |->
             IF s = {} THEN base ELSE relate(k, chosen, iter[s \ {Max(s)}], ops[Max(s)])])[DOMAIN ops]
    BY DEF derive_cellsheet_relations, FoldLeft, MapThenFoldSet
  <2> HIDE DEF n, base, ops
  <2> QED
    BY <1>1, <2>1
<1>4. goal \in Cells /\ touches(ops[j], chosen) /\ k.cells[goal].error # "none"
  BY <1>1 DEF Placed
<1> HIDE DEF n, base, ops
<1>5. ASSUME NEW r \in Maps, NEW i \in 1..n
      PROVE  /\ next(r, i) \in Maps
             /\ \A d \in Cells : r[d] \in Shows => next(r, i)[d] \in Shows
             /\ i = j => next(r, i)[goal] \in Shows
  <2>1. ops[i] \in Placed
    BY <1>1
  <2> QED
    BY <1>4, <2>1, Relates
<1> HIDE DEF next
<1>6. Step \in [Maps \X (1..n) -> Maps]
  BY <1>5
<1> HIDE DEF Maps
<1>7. PICK made : Repeats(made, n, base, Step, Maps)
  <2> HIDE DEF Step
  <2> QED
    BY <1>1, <1>2, <1>6, Iterated
<1>8. /\ made \in [SUBSET (1..n) -> Maps]
      /\ \A s \in SUBSET (1..n) : made[s] = IF s = {} THEN base ELSE Step[<<made[s \ {Max(s)}], Max(s)>>]
  BY <1>7 DEF Repeats
<1>9. \A s \in SUBSET (1..n) : s # {} => Max(s) \in s /\ Max(s) \in 1..n
  BY <1>1, Uppermost
<1>10. unfolds(all)
  <2>1. ASSUME NEW s \in SUBSET (1..n), s # {}
        PROVE  made[s] = next(made[s \ {Max(s)}], Max(s))
    <3>1. made[s \ {Max(s)}] \in Maps /\ Max(s) \in 1..n
      BY <1>8, <1>9, <2>1
    <3> QED
      BY <1>8, <2>1, <3>1
  <2>2. made = [s \in SUBSET (1..n) |-> made[s]]
    BY <1>8
  <2>3. unfolds(made)
    BY <1>8, <2>1, <2>2
  <2> QED
    BY <2>3
<1> HIDE DEF all
<1> DEFINE True == {s \in SUBSET (1..n) : all[s] \in Maps /\ (j \in s => all[s][goal] \in Shows)}
<1>11. {} \in True
  BY <1>2, <1>10
<1>12. ASSUME NEW s \in SUBSET (1..n), s # {}, s \ {Max(s)} \in True PROVE s \in True
  <2> DEFINE before == all[s \ {Max(s)}]
             i == Max(s)
  <2>1. all[s] = next(before, i)
    BY <1>10, <1>12
  <2>2. before \in Maps /\ (j \in s \ {i} => before[goal] \in Shows) /\ i \in 1..n
    BY <1>9, <1>12
  <2> HIDE DEF before, i
  <2>3. all[s] \in Maps
    BY <1>5, <2>1, <2>2
  <2>4. ASSUME j \in s PROVE all[s][goal] \in Shows
    <3>1. CASE i = j
      BY <1>5, <2>1, <2>2, <3>1
    <3>2. CASE i # j
      <4>1. before[goal] \in Shows
        BY <2>2, <2>4, <3>2
      <4> QED
        BY <1>4, <1>5, <2>1, <2>2, <4>1
    <3> QED
      BY <3>1, <3>2
  <2> QED
    BY <2>3, <2>4
<1>13. True \in SUBSET (SUBSET (1..n))
  OBVIOUS
<1> DEFINE full == 1..n
<1>14. full \in True
  <2>1. full \in SUBSET (1..n)
    OBVIOUS
  <2> HIDE DEF True, full
  <2> QED
    BY <1>1, <1>11, <1>12, <1>13, <2>1, AlongIndices
<1>15. all[1..n][goal] \in Shows
  BY <1>1, <1>14
<1> QED
  BY <1>3, <1>15 DEF ops

-----------------------------------------------------------------------------
SheetState ==
  [raws : [Cells -> Raw], evaluation : Evaluation, selected : Cells \union {NoCell},
   widths : [Cols -> Int], gesture : Gesture \union {NoCell}, hover : Grabbed \union {NoCell},
   captured : SUBSET Pointers, active : BOOLEAN, disposed : BOOLEAN]
\* Two neighbors that are resized together are two, and large enough.
Grips(g) ==
  /\ g.size >= MIN_COL_WIDTH
  /\ g.neighborSize # NoCell =>
       g.neighborSize >= MIN_COL_WIDTH /\ g.neighbor \in Cols /\ g.neighbor # g.index
SheetInv ==
  /\ sheet \in SheetState /\ CaptureMatchesGesture /\ SizesHold
  /\ sheet.gesture # NoCell => Grips(sheet.gesture)

Blank == [c \in Cells |-> "blank"]
LEMMA Blanks == Blank \in [Cells -> Raw]
BY DEF Blank, Raw

Even == [c \in Cols |-> DEFAULT]
LEMMA Levels == Even \in [Cols -> Int] /\ \A c \in Cols : Even[c] >= MIN_COL_WIDTH
BY DEF Even, DEFAULT, MIN_COL_WIDTH

\* A sheet without a gesture is asked for little.
LEMMA AtRest ==
  ASSUME sheet' \in SheetState, sheet'.gesture = NoCell, sheet'.captured = {},
         \A c \in Cols : sheet'.widths[c] >= MIN_COL_WIDTH
  PROVE  SheetInv'
BY DEF SheetInv, CaptureMatchesGesture, SizesHold

LEMMA Finishes ==
  ASSUME NEW k \in SheetState
  PROVE  LET t == finishResize(k)
         IN /\ t \in SheetState /\ t.gesture = NoCell /\ t.captured = {}
            /\ t.raws = k.raws /\ t.evaluation = k.evaluation /\ t.selected = k.selected
            /\ t.widths = k.widths /\ t.active = k.active /\ t.disposed = k.disposed
BY DEF finishResize, SheetState

\* What leaves widths and gesture alone.
LEMMA StillHeld ==
  ASSUME SheetInv, sheet' \in SheetState, sheet'.gesture = sheet.gesture,
         sheet'.captured = sheet.captured, sheet'.widths = sheet.widths
  PROVE  SheetInv'
BY DEF SheetInv, CaptureMatchesGesture, SizesHold

LEMMA SheetTyped == SheetInv => SheetTypeOK
BY DEF SheetInv, SheetState, SheetTypeOK

LEMMA SheetSound == SheetInv => SheetTruthful
<1> SUFFICES ASSUME SheetInv PROVE SheetTruthful
  OBVIOUS
<1>1. sheet.evaluation \in Evaluation
  BY DEF SheetInv, SheetState
<1>2. BlockedShown
  BY <1>1, Related DEF BlockedShown, Shows
<1> QED
  BY <1>2 DEF SheetInv, SheetTruthful

LEMMA SheetBegins == SheetInit => SheetInv
<1> SUFFICES ASSUME SheetInit PROVE SheetInv
  OBVIOUS
<1>1. Seed \in [Cells -> Raw]
  BY DEF Seed, Raw, Operators, RawNumbers
<1> DEFINE evaluation == evaluate_cellsheet(Seed)
           yes == TRUE
           no == FALSE
<1>2. evaluation \in Evaluation
  BY <1>1, Evaluates
<1>3. sheet = [raws |-> Seed, evaluation |-> evaluation, selected |-> NoCell,
               widths |-> Even, gesture |-> NoCell, hover |-> NoCell,
               captured |-> {}, active |-> yes, disposed |-> no]
  BY DEF SheetInit, Even
<1>4. yes \in BOOLEAN /\ no \in BOOLEAN
  OBVIOUS
<1> HIDE DEF evaluation, yes, no
<1>5. sheet \in SheetState /\ sheet.gesture = NoCell /\ sheet.captured = {} /\ sheet.widths = Even
  BY <1>1, <1>2, <1>3, <1>4, Levels DEF SheetState
<1> QED
  BY <1>5, Levels DEF SheetInv, CaptureMatchesGesture, SizesHold

\* The edge of a cell that is grabbed.
LEMMA Edges ==
  ASSUME NEW cell \in Grabbed, NEW edge
  PROVE  LET to == resizeTarget(cell, edge)
         IN /\ to.index \in Cols /\ to.neighbor \in Cols \union {NoCell} /\ to.sign \in {-1, 1}
            /\ to.neighbor # NoCell => to.neighbor \in Cols /\ to.neighbor # to.index
<1> DEFINE x == cell[2]
           index == IF edge = "left" /\ x > 0 THEN x - 1 ELSE x
<1>1. x \in 0..COLS - 1 /\ COLS \in Nat
  BY SheetAssumption, CellsheetAssumption DEF Cells
<1>2. resizeTarget(cell, edge) =
        [index |-> index, neighbor |-> IF index < COLS - 1 THEN index + 1 ELSE NoCell,
         sign |-> IF edge = "left" /\ x = 0 THEN -1 ELSE 1]
  BY DEF resizeTarget
<1>3. index \in 0..COLS - 1
  BY <1>1
<1> HIDE DEF index, x
<1>4. index < COLS - 1 => index + 1 \in 0..COLS - 1 /\ index + 1 # index
  BY <1>1, <1>3
<1> QED
  BY <1>2, <1>3, <1>4 DEF Cols

LEMMA Clamps ==
  ASSUME NEW n \in Int, NEW low \in Int, NEW high \in Int, low <= high
  PROVE  clampDimension(n, low, high) \in Int /\ low <= clampDimension(n, low, high)
         /\ clampDimension(n, low, high) <= high
BY DEF clampDimension

\* A gesture moves its columns within what they may be.
LEMMA Resizes ==
  ASSUME NEW g \in Gesture, Grips(g), NEW widths \in [Cols -> Int], NEW delta \in Int,
         \A c \in Cols : widths[c] >= MIN_COL_WIDTH
  PROVE  LET t == resized(g, widths, delta)
         IN /\ t \in [Cols -> Int] /\ \A c \in Cols : t[c] >= MIN_COL_WIDTH
            /\ g.neighborSize # NoCell => t[g.index] + t[g.neighbor] = g.size + g.neighborSize
<1> DEFINE size == g.size + delta * g.sign
           pair == g.size + g.neighborSize
           primary == clampDimension(size, MIN_COL_WIDTH, pair - MIN_COL_WIDTH)
           alone == clampDimension(size, MIN_COL_WIDTH, MAX_COL_WIDTH)
           t == resized(g, widths, delta)
<1>1. /\ g.index \in Cols /\ g.size \in Int /\ g.sign \in {-1, 1}
      /\ g.neighborSize # NoCell => g.neighborSize \in Int
  BY DEF Gesture
<1>2. delta * g.sign \in Int
  BY <1>1
<1>3. size \in Int
  BY <1>1, <1>2
<1>4. MIN_COL_WIDTH \in Int /\ MAX_COL_WIDTH \in Int /\ MIN_COL_WIDTH <= MAX_COL_WIDTH
  BY DEF MIN_COL_WIDTH, MAX_COL_WIDTH
<1> HIDE DEF size
<1>5. CASE g.neighborSize # NoCell
  <2>1. /\ g.neighborSize \in Int /\ g.size >= MIN_COL_WIDTH /\ g.neighborSize >= MIN_COL_WIDTH
        /\ g.neighbor \in Cols /\ g.neighbor # g.index
    BY <1>1, <1>5 DEF Grips
  <2> DEFINE high == pair - MIN_COL_WIDTH
  <2>2. pair \in Int /\ high \in Int /\ MIN_COL_WIDTH <= high
    BY <1>1, <1>4, <2>1
  <2>3. high = pair - MIN_COL_WIDTH
    OBVIOUS
  <2>4. primary = clampDimension(size, MIN_COL_WIDTH, high)
    OBVIOUS
  <2>5. t = [[widths EXCEPT ![g.index] = primary] EXCEPT ![g.neighbor] = pair - primary]
    BY <1>5 DEF resized, size
  <2>6. pair = g.size + g.neighborSize
    OBVIOUS
  <2> HIDE DEF pair, high, primary, t
  <2>7. primary \in Int /\ MIN_COL_WIDTH <= primary /\ primary <= high
    BY <1>3, <1>4, <2>2, <2>4, Clamps
  <2> DEFINE rest == pair - primary
  <2>8. rest \in Int /\ MIN_COL_WIDTH <= rest /\ primary + rest = pair
    BY <1>4, <2>2, <2>3, <2>7
  <2>9. t = [[widths EXCEPT ![g.index] = primary] EXCEPT ![g.neighbor] = rest]
    BY <2>5
  <2> HIDE DEF rest
  <2>10. t \in [Cols -> Int] /\ t[g.index] = primary /\ t[g.neighbor] = rest
         /\ \A c \in Cols : c # g.index /\ c # g.neighbor => t[c] = widths[c]
    BY <1>1, <2>1, <2>7, <2>8, <2>9
  <2>11. \A c \in Cols : t[c] >= MIN_COL_WIDTH
    BY <1>4, <2>7, <2>8, <2>10
  <2> QED
    BY <2>6, <2>8, <2>10, <2>11 DEF t
<1>6. CASE g.neighborSize = NoCell
  <2>1. t = [widths EXCEPT ![g.index] = alone]
    BY <1>6 DEF resized, size
  <2> HIDE DEF alone, t
  <2>2. alone \in Int /\ MIN_COL_WIDTH <= alone
    BY <1>3, <1>4, Clamps DEF alone
  <2>3. t \in [Cols -> Int] /\ \A c \in Cols : t[c] = alone \/ t[c] = widths[c]
    BY <1>1, <2>1, <2>2
  <2>4. \A c \in Cols : t[c] >= MIN_COL_WIDTH
    BY <1>4, <2>2, <2>3
  <2> QED
    BY <1>6, <2>3, <2>4 DEF t
<1> QED
  BY <1>5, <1>6

LEMMA Starts ==
  ASSUME SheetInv, NEW cell \in Grabbed, NEW edge, NEW pointer \in Pointers, NEW shift \in BOOLEAN,
         maybeStartCellResize(cell, edge, pointer, shift)
  PROVE  SheetInv'
<1> DEFINE to == resizeTarget(cell, edge)
           other == IF shift /\ to.neighbor # NoCell THEN sheet.widths[to.neighbor] ELSE NoCell
           g == [pointer |-> pointer, cell |-> cell, index |-> to.index, neighbor |-> to.neighbor,
                 sign |-> to.sign, size |-> sheet.widths[to.index], neighborSize |-> other]
           rested == finishResize(sheet)
<1>1. sheet \in SheetState /\ SizesHold /\ sheet.widths \in [Cols -> Int]
  BY DEF SheetInv, SheetState
<1>2. /\ to.index \in Cols /\ to.neighbor \in Cols \union {NoCell} /\ to.sign \in {-1, 1}
      /\ to.neighbor # NoCell => to.neighbor \in Cols /\ to.neighbor # to.index
  BY Edges
<1>3. sheet' = [rested EXCEPT !.captured = {pointer}, !.gesture = g]
  BY DEF maybeStartCellResize
<1> HIDE DEF to
<1>4. \A c \in Cols : sheet.widths[c] \in Int /\ sheet.widths[c] >= MIN_COL_WIDTH
  BY <1>1 DEF SizesHold
<1>5. other # NoCell => other = sheet.widths[to.neighbor] /\ other \in Int /\ other >= MIN_COL_WIDTH
                        /\ to.neighbor # NoCell
  BY <1>2, <1>4
<1> HIDE DEF other
<1>6. g \in Gesture
  BY <1>2, <1>4, <1>5 DEF Gesture
<1>7. /\ g.index = to.index /\ g.neighbor = to.neighbor /\ g.size = sheet.widths[to.index]
      /\ g.neighborSize = other /\ g.pointer = pointer
  OBVIOUS
<1> HIDE DEF g, rested
<1>8. Grips(g)
  BY <1>2, <1>4, <1>5, <1>7 DEF Grips
<1>9. rested \in SheetState /\ rested.widths = sheet.widths
  BY <1>1, Finishes DEF rested
<1>10. sheet' \in SheetState /\ sheet'.gesture = g /\ sheet'.captured = {pointer} /\ sheet'.widths = sheet.widths
  BY <1>3, <1>6, <1>9 DEF SheetState
<1>11. g # NoCell
  BY <1>6, SheetAssumption
<1>12. CaptureMatchesGesture'
  BY <1>7, <1>10, <1>11 DEF CaptureMatchesGesture
<1>13. SizesHold'
  BY <1>4, <1>5, <1>7, <1>10 DEF SizesHold
<1> QED
  BY <1>8, <1>10, <1>12, <1>13 DEF SheetInv

LEMMA Updates ==
  ASSUME SheetInv, NEW cell, NEW pointer, NEW delta \in Int, updateResize(cell, pointer, delta)
  PROVE  SheetInv'
<1> DEFINE g == sheet.gesture
           widths == resized(g, sheet.widths, delta)
<1>1. /\ sheet \in SheetState /\ g # NoCell /\ g \in Gesture /\ Grips(g) /\ sheet.widths \in [Cols -> Int]
      /\ \A c \in Cols : sheet.widths[c] >= MIN_COL_WIDTH
  BY DEF SheetInv, SheetState, SizesHold, updateResize
<1>2. sheet' = [sheet EXCEPT !.widths = widths]
  BY DEF updateResize
<1>3. /\ widths \in [Cols -> Int] /\ \A c \in Cols : widths[c] >= MIN_COL_WIDTH
      /\ g.neighborSize # NoCell => widths[g.index] + widths[g.neighbor] = g.size + g.neighborSize
  BY <1>1, Resizes
<1> HIDE DEF widths
<1>4. /\ sheet' \in SheetState /\ sheet'.widths = widths /\ sheet'.gesture = sheet.gesture
      /\ sheet'.captured = sheet.captured
  BY <1>1, <1>2, <1>3 DEF SheetState
<1>5. SizesHold'
  BY <1>3, <1>4 DEF SizesHold
<1> QED
  BY <1>4, <1>5 DEF SheetInv, CaptureMatchesGesture

\* What is typed is evaluated anew.
LEMMA Types ==
  ASSUME SheetInv, NEW raws \in [Cells -> Raw], Edited(raws)
  PROVE  SheetInv'
<1> DEFINE evaluation == evaluate_cellsheet(raws)
<1>1. evaluation \in Evaluation
  BY Evaluates
<1>2. sheet \in SheetState /\ sheet' = [sheet EXCEPT !.raws = raws, !.evaluation = evaluation]
  BY DEF SheetInv, Edited
<1> HIDE DEF evaluation
<1>3. /\ sheet' \in SheetState /\ sheet'.gesture = sheet.gesture /\ sheet'.captured = sheet.captured
      /\ sheet'.widths = sheet.widths
  BY <1>1, <1>2 DEF SheetState
<1> QED
  BY <1>3, StillHeld

LEMMA Resets == ASSUME SheetInv, reset PROVE SheetInv'
<1> DEFINE evaluation == evaluate_cellsheet(Blank)
           rested == finishResize(sheet)
<1>1. evaluation \in Evaluation
  BY Blanks, Evaluates
<1>2. sheet' = [rested EXCEPT !.selected = NoCell, !.widths = Even, !.raws = Blank, !.evaluation = evaluation]
  BY DEF reset, Even, Blank
<1>3. rested \in SheetState /\ rested.gesture = NoCell /\ rested.captured = {}
  BY Finishes DEF SheetInv
<1> HIDE DEF evaluation, rested
<1>4. sheet' \in SheetState /\ sheet'.gesture = NoCell /\ sheet'.captured = {} /\ sheet'.widths = Even
  BY <1>1, <1>2, <1>3, Blanks, Levels DEF SheetState
<1> QED
  BY <1>4, AtRest, Levels

LEMMA SheetStep == SheetInv /\ [SheetNext]_sheet => SheetInv'
<1> SUFFICES ASSUME SheetInv, [SheetNext]_sheet PROVE SheetInv'
  OBVIOUS
<1> DEFINE rested == finishResize(sheet)
<1>1. /\ sheet \in SheetState /\ SizesHold /\ \A c \in Cols : sheet.widths[c] >= MIN_COL_WIDTH
      /\ sheet.raws \in [Cells -> Raw]
  BY DEF SheetInv, SheetState, SizesHold
<1>2. /\ rested \in SheetState /\ rested.gesture = NoCell /\ rested.captured = {} /\ rested.widths = sheet.widths
  BY <1>1, Finishes
<1> HIDE DEF rested
<1>3. ASSUME NEW cell \in DOMAIN Authorable, NEW raw \in Authorable[cell], input(cell, raw) PROVE SheetInv'
  <2> DEFINE raws == [sheet.raws EXCEPT ![cell] = raw]
  <2>1. cell \in Cells /\ raw \in Raw
    BY SheetAssumption
  <2>2. raws \in [Cells -> Raw] /\ Edited(raws)
    BY <1>1, <1>3, <2>1 DEF input
  <2> HIDE DEF raws
  <2> QED
    BY <2>2, Types
<1>4. ASSUME NEW cell \in Focusable, focus(cell) PROVE SheetInv'
  <2>1. cell \in Cells
    BY SheetAssumption
  <2>2. /\ sheet' \in SheetState /\ sheet'.gesture = sheet.gesture /\ sheet'.captured = sheet.captured
        /\ sheet'.widths = sheet.widths
    BY <1>1, <1>4, <2>1 DEF focus, SheetState
  <2> QED
    BY <2>2, StillHeld
<1>5. ASSUME NEW cell \in Grabbed, NEW pointer \in Pointers, NEW edge, NEW shift \in BOOLEAN,
             maybeStartCellResize(cell, edge, pointer, shift)
      PROVE  SheetInv'
  BY <1>5, Starts
<1>6. ASSUME NEW cell, NEW pointer, NEW delta \in Deltas, updateResize(cell, pointer, delta) PROVE SheetInv'
  <2>1. delta \in Int
    BY SheetAssumption
  <2> QED
    BY <1>6, <2>1, Updates
<1>7. ASSUME NEW cell, NEW pointer, PointerEnds(cell, pointer) PROVE SheetInv'
  <2>1. sheet' = rested
    BY <1>7 DEF PointerEnds, rested
  <2> QED
    BY <1>1, <1>2, <2>1, AtRest
<1>8. ASSUME NEW cell \in Grabbed, setResizeHover(cell) PROVE SheetInv'
  <2>1. PICK hover \in {cell, NoCell} : sheet' = [sheet EXCEPT !.hover = hover]
    BY <1>8 DEF setResizeHover
  <2>2. hover \in Grabbed \union {NoCell}
    OBVIOUS
  <2>3. /\ sheet' \in SheetState /\ sheet'.gesture = sheet.gesture /\ sheet'.captured = sheet.captured
        /\ sheet'.widths = sheet.widths
    BY <1>1, <2>1, <2>2 DEF SheetState
  <2> QED
    BY <2>3, StillHeld
<1>9. CASE reset
  BY <1>9, Resets
<1>10. CASE activate_sheet
  <2>1. /\ sheet' \in SheetState /\ sheet'.gesture = sheet.gesture /\ sheet'.captured = sheet.captured
        /\ sheet'.widths = sheet.widths
    BY <1>1, <1>10 DEF activate_sheet, SheetState
  <2> QED
    BY <2>1, StillHeld
<1>11. CASE deactivate_sheet
  <2>1. sheet' = [rested EXCEPT !.active = FALSE]
    BY <1>11 DEF deactivate_sheet, rested
  <2>2. sheet' \in SheetState /\ sheet'.gesture = NoCell /\ sheet'.captured = {} /\ sheet'.widths = sheet.widths
    BY <1>2, <2>1 DEF SheetState
  <2> QED
    BY <1>1, <2>2, AtRest
<1>12. CASE dispose_sheet
  <2>1. sheet' = [[rested EXCEPT !.active = FALSE] EXCEPT !.disposed = TRUE]
    BY <1>12 DEF dispose_sheet, rested
  <2>2. sheet' \in SheetState /\ sheet'.gesture = NoCell /\ sheet'.captured = {} /\ sheet'.widths = sheet.widths
    BY <1>2, <2>1 DEF SheetState
  <2> QED
    BY <1>1, <2>2, AtRest
<1>13. CASE UNCHANGED sheet
  BY <1>1, <1>13, StillHeld
<1> QED
  BY <1>3, <1>4, <1>5, <1>6, <1>7, <1>8, <1>9, <1>10, <1>11, <1>12, <1>13 DEF SheetNext

\* What is shown is the evaluation of what is typed.
Evaluated == sheet.evaluation = evaluate_cellsheet(sheet.raws)

LEMMA EvaluatedBegins == SheetInit => Evaluated
BY DEF SheetInit, Evaluated

LEMMA EvaluatedStep == SheetInv /\ Evaluated /\ [SheetNext]_sheet => Evaluated'
<1> SUFFICES ASSUME SheetInv, Evaluated, [SheetNext]_sheet PROVE Evaluated'
  OBVIOUS
<1> DEFINE rested == finishResize(sheet)
<1>1. sheet \in SheetState
  BY DEF SheetInv
<1>2. rested \in SheetState /\ rested.raws = sheet.raws /\ rested.evaluation = sheet.evaluation
  BY <1>1, Finishes
<1> HIDE DEF rested
<1>3. ASSUME sheet'.raws = sheet.raws, sheet'.evaluation = sheet.evaluation PROVE Evaluated'
  BY <1>3 DEF Evaluated
<1>4. ASSUME NEW raws, Edited(raws) PROVE Evaluated'
  <2> DEFINE evaluation == evaluate_cellsheet(raws)
  <2>1. sheet' = [sheet EXCEPT !.raws = raws, !.evaluation = evaluation]
    BY <1>4 DEF Edited
  <2> HIDE DEF evaluation
  <2>2. sheet'.raws = raws /\ sheet'.evaluation = evaluation
    BY <1>1, <2>1 DEF SheetState
  <2> QED
    BY <2>2 DEF Evaluated, evaluation
<1>5. CASE reset
  <2> DEFINE evaluation == evaluate_cellsheet(Blank)
  <2>1. sheet' = [rested EXCEPT !.selected = NoCell, !.widths = Even, !.raws = Blank, !.evaluation = evaluation]
    BY <1>5 DEF reset, Even, Blank, rested
  <2> HIDE DEF evaluation
  <2>2. sheet'.raws = Blank /\ sheet'.evaluation = evaluation
    BY <1>2, <2>1 DEF SheetState
  <2> QED
    BY <2>2 DEF Evaluated, evaluation
<1>6. ASSUME NEW cell, focus(cell) PROVE Evaluated'
  BY <1>1, <1>3, <1>6 DEF focus, SheetState
<1>7. ASSUME NEW cell, NEW edge, NEW pointer, NEW shift, maybeStartCellResize(cell, edge, pointer, shift)
      PROVE  Evaluated'
  <2>1. PICK gesture : sheet' = [rested EXCEPT !.captured = {pointer}, !.gesture = gesture]
    BY <1>7 DEF maybeStartCellResize, rested
  <2>2. sheet'.raws = rested.raws /\ sheet'.evaluation = rested.evaluation
    BY <1>2, <2>1 DEF SheetState
  <2> QED
    BY <1>2, <1>3, <2>2
<1>8. ASSUME NEW cell, NEW pointer, NEW delta, updateResize(cell, pointer, delta) PROVE Evaluated'
  <2>1. PICK widths : sheet' = [sheet EXCEPT !.widths = widths]
    BY <1>8 DEF updateResize
  <2> QED
    BY <1>1, <1>3, <2>1 DEF SheetState
<1>9. ASSUME NEW cell, NEW pointer, PointerEnds(cell, pointer) PROVE Evaluated'
  BY <1>2, <1>3, <1>9 DEF PointerEnds, rested
<1>10. ASSUME NEW cell, setResizeHover(cell) PROVE Evaluated'
  <2>1. PICK hover \in {cell, NoCell} : sheet' = [sheet EXCEPT !.hover = hover]
    BY <1>10 DEF setResizeHover
  <2> QED
    BY <1>1, <1>3, <2>1 DEF SheetState
<1>11. CASE activate_sheet
  BY <1>1, <1>3, <1>11 DEF activate_sheet, SheetState
<1>12. CASE deactivate_sheet
  <2>1. sheet' = [rested EXCEPT !.active = FALSE]
    BY <1>12 DEF deactivate_sheet, rested
  <2> QED
    BY <1>2, <1>3, <2>1 DEF SheetState
<1>13. CASE dispose_sheet
  <2>1. sheet' = [[rested EXCEPT !.active = FALSE] EXCEPT !.disposed = TRUE]
    BY <1>13 DEF dispose_sheet, rested
  <2> QED
    BY <1>2, <1>3, <2>1 DEF SheetState
<1>14. CASE UNCHANGED sheet
  BY <1>3, <1>14
<1> QED
  BY <1>4, <1>5, <1>6, <1>7, <1>8, <1>9, <1>10, <1>11, <1>12, <1>13, <1>14 DEF SheetNext, input

LEMMA SheetSettling == SheetInv /\ Evaluated => SheetSettled
BY EvaluationSettles DEF SheetInv, SheetState, Evaluated, SheetSettled

-----------------------------------------------------------------------------
(* What crosses the wire.                                                  *)

Refusals == {failed(code, TRUE) : code \in {"CIRCUIT_WORKER_UNAVAILABLE", "CIRCUIT_WORKER_EXECUTION_FAILED"}}
ProgressReplies ==
  {[kind |-> "progress", keys |-> ReplyKeys \union {"progress"}, progress |-> progress] :
     progress \in CircuitProgress}
ResultReplies(request) ==
  {[kind |-> "complete", keys |-> ReplyKeys \union {"result"}, result |-> result] :
     result \in CircuitResults(request)}

\* A request that has left the Locus was accepted there; what is on its way
\* back is one thing the worker may say of it; and what is settled was decoded.
WireInv ==
  /\ wire = [at |-> wire.at, request |-> wire.request, reply |-> wire.reply]
  /\ wire.request \in Candidates
  /\ wire.at \in {"asked", "refused", "queued", "posted", "running", "rejected", "settled", "violation", "shown"}
  /\ wire.at \notin {"asked", "refused"} => decode_circuit_verification_request(wire.request)
  /\ wire.at \notin {"asked", "refused", "queued"} =>
       \E reply \in Refusals \union ProgressReplies \union ResultReplies(wire.request) : wire.reply = {reply}
  /\ wire.at = "violation" => Oversized(Reply)
  /\ wire.at = "settled" => Reply.kind = "complete" /\ decode_worker_reply(Reply)

\* A candidate is a record of the five fields.
LEMMA Requests ==
  ASSUME NEW request \in Candidates
  PROVE  /\ request.panelId \in {0, 1, 128, 129} /\ request.inputRevision \in {-1, 0}
         /\ request.source \in {0, 262144, 262145}
BY DEF Candidates, MAX_PANEL_ID_LENGTH, MAX_SOURCE_LENGTH

\* A request is accepted by the worker where the Locus accepts it.
LEMMA Agree ==
  ASSUME NEW request \in Candidates, decode_circuit_verification_request(request)
  PROVE  decodeRequest(request)
<1>1. request.keys = RequestKeys
  BY DEF decode_circuit_verification_request, exact_keys
<1> QED
  BY <1>1, Requests DEF decode_circuit_verification_request, decodeRequest, MAX_PANEL_ID_LENGTH, MAX_SOURCE_LENGTH

LEMMA RunDecoded ==
  ASSUME NEW request, decodeRequest(request)
  PROVE  decodeMessage(run_message(request))
<1> DEFINE keys == {"kind", "jobId", "request", "cancellation"}
           message == [kind |-> "run", keys |-> keys, jobId |-> 9, request |-> request]
<1>1. 9 \in 1..128
  OBVIOUS
<1> HIDE DEF keys
<1>2. message.kind = "run" /\ message.keys = keys /\ message.jobId = 9 /\ message.request = request
  OBVIOUS
<1>3. run_message(request) = message
  BY DEF run_message, keys
<1> HIDE DEF message
<1>4. message.keys = {"kind", "jobId", "request", "cancellation"}
  BY <1>2 DEF keys
<1> QED
  BY <1>1, <1>2, <1>3, <1>4 DEF decodeMessage

\* The exceptions that send_worker reports, with what belongs to the request.
LEMMA RefusalsDecoded ==
  ASSUME NEW reply \in Refusals
  PROVE  reply.kind = "failed" /\ decode_worker_reply(reply)
<1>1. PICK code \in {"CIRCUIT_WORKER_UNAVAILABLE", "CIRCUIT_WORKER_EXECUTION_FAILED"} : reply = failed(code, TRUE)
  BY DEF Refusals
<1> DEFINE keys == {"kind", "jobId", "code", "message"} \union {"panelId", "inputRevision", "entry"}
<1>2. keys = ReplyKeys \union {"entry", "code", "message"}
  BY DEF ReplyKeys
<1> HIDE DEF keys
<1>3. failed(code, TRUE) = [kind |-> "failed", code |-> code, keys |-> keys]
  BY DEF failed, keys
<1> DEFINE known == [kind |-> "failed", code |-> code, keys |-> keys]
<1>4. known.kind = "failed" /\ known.code = code /\ known.keys = keys
  OBVIOUS
<1>5. reply = known
  BY <1>1, <1>3, Zenon
<1> HIDE DEF known
<1> QED
  BY <1>2, <1>4, <1>5 DEF decode_worker_reply, WORKER_FAILURES

\* What the circuit reports passes both checks of a progress.
LEMMA ProgressDecoded ==
  ASSUME NEW progress \in CircuitProgress
  PROVE  /\ decode_circuit_verification_progress(progress)
         /\ progress.stage \in {"cw-lap-complete", "ccw-lap-complete", "comparing"}
         /\ valid_worker_progress(progress)
<1> DEFINE lapKeys == {"stage", "completed", "total", "direction", "lap"}
           endKeys == {"stage", "completed", "total"}
<1>1. exact_keys(lapKeys, {"stage", "completed", "total"}, {"direction", "lap"})
  BY DEF exact_keys
<1>2. exact_keys(endKeys, {"stage", "completed", "total"}, {"direction", "lap"})
  BY DEF exact_keys
<1>3. \/ \E lap \in 1..3 : progress = [keys |-> lapKeys, stage |-> "cw-lap-complete", completed |-> lap,
                                        total |-> TOTAL_STAGES, direction |-> "cw", lap |-> lap]
      \/ \E lap \in 1..3 : progress = [keys |-> lapKeys, stage |-> "ccw-lap-complete", completed |-> 3 + lap,
                                        total |-> TOTAL_STAGES, direction |-> "ccw", lap |-> lap]
      \/ progress = [keys |-> endKeys, stage |-> "comparing", completed |-> 6, total |-> TOTAL_STAGES,
                     direction |-> "none", lap |-> 0]
  BY DEF CircuitProgress
<1> HIDE DEF lapKeys, endKeys
<1>4. CASE \E lap \in 1..3 : progress = [keys |-> lapKeys, stage |-> "cw-lap-complete", completed |-> lap,
                                          total |-> TOTAL_STAGES, direction |-> "cw", lap |-> lap]
  <2>1. PICK lap \in 1..3 : progress = [keys |-> lapKeys, stage |-> "cw-lap-complete", completed |-> lap,
                                        total |-> TOTAL_STAGES, direction |-> "cw", lap |-> lap]
    BY <1>4
  <2>2. /\ progress.keys = lapKeys /\ progress.stage = "cw-lap-complete" /\ progress.completed = lap
        /\ progress.total = 7 /\ progress.direction = "cw" /\ progress.lap = lap
    BY <2>1 DEF TOTAL_STAGES
  <2> QED
    BY <1>1, <2>2 DEF decode_circuit_verification_progress, PROGRESS_STAGES, valid_worker_progress, TOTAL_STAGES
<1>5. CASE \E lap \in 1..3 : progress = [keys |-> lapKeys, stage |-> "ccw-lap-complete", completed |-> 3 + lap,
                                          total |-> TOTAL_STAGES, direction |-> "ccw", lap |-> lap]
  <2>1. PICK lap \in 1..3 : progress = [keys |-> lapKeys, stage |-> "ccw-lap-complete", completed |-> 3 + lap,
                                        total |-> TOTAL_STAGES, direction |-> "ccw", lap |-> lap]
    BY <1>5
  <2>2. /\ progress.keys = lapKeys /\ progress.stage = "ccw-lap-complete" /\ progress.completed = 3 + lap
        /\ progress.total = 7 /\ progress.direction = "ccw" /\ progress.lap = lap
    BY <2>1 DEF TOTAL_STAGES
  <2> QED
    BY <1>1, <2>2 DEF decode_circuit_verification_progress, PROGRESS_STAGES, valid_worker_progress, TOTAL_STAGES
<1>6. CASE progress = [keys |-> endKeys, stage |-> "comparing", completed |-> 6, total |-> TOTAL_STAGES,
                       direction |-> "none", lap |-> 0]
  <2>2. /\ progress.keys = endKeys /\ progress.stage = "comparing" /\ progress.completed = 6
        /\ progress.total = 7 /\ progress.direction = "none" /\ progress.lap = 0
    BY <1>6 DEF TOTAL_STAGES
  <2> QED
    BY <1>2, <2>2 DEF decode_circuit_verification_progress, PROGRESS_STAGES, valid_worker_progress, TOTAL_STAGES
<1> QED
  BY <1>3, <1>4, <1>5, <1>6

\* What the service says of itself while a job waits, starts and ends.
LEMMA OwnProgressDecoded ==
  ASSUME NEW stage \in PROGRESS_STAGES, NEW completed \in 0..TOTAL_STAGES
  PROVE  decode_circuit_verification_progress(OwnProgress(stage, completed))
<1> DEFINE keys == {"stage", "completed", "total"}
<1>1. exact_keys(keys, {"stage", "completed", "total"}, {"direction", "lap"})
  BY DEF exact_keys
<1> HIDE DEF keys
<1> DEFINE progress == [keys |-> keys, stage |-> stage, completed |-> completed, total |-> 7,
                        direction |-> "none", lap |-> 0]
<1>2. OwnProgress(stage, completed) = progress
  BY DEF OwnProgress, keys, TOTAL_STAGES
<1>3. /\ progress.keys = keys /\ progress.stage = stage /\ progress.completed = completed
      /\ progress.total = 7 /\ progress.direction = "none" /\ progress.lap = 0
  OBVIOUS
<1> HIDE DEF progress
<1> QED
  BY <1>1, <1>2, <1>3 DEF decode_circuit_verification_progress, TOTAL_STAGES

LEMMA ResultFields ==
  ASSUME NEW request, NEW status, NEW counts, NEW failure, NEW texts, NEW length,
         NEW result, result = result_of(request, status, counts, failure, texts, length)
  PROVE  /\ result.panelId = request.panelId /\ result.inputRevision = request.inputRevision
         /\ result.status = status /\ result.entry = request.entry /\ result.operationCounts = counts
         /\ result.failure = failure /\ result.texts = texts /\ result.length = length
BY DEF result_of

\* The part of a result that its request decides.
LEMMA OfRequest ==
  ASSUME NEW request \in Candidates, decode_circuit_verification_request(request)
  PROVE  /\ request.panelId \in 1..MAX_PANEL_ID_LENGTH /\ request.inputRevision >= 0
         /\ request.entry \in Entries
<1>1. /\ request.panelId # 0 /\ request.panelId <= 128 /\ request.inputRevision >= 0
      /\ request.entry \in Entries
  BY DEF decode_circuit_verification_request, MAX_PANEL_ID_LENGTH
<1>2. request.panelId \in {0, 1, 128, 129}
  BY Requests
<1>3. request.panelId \in 1..128
  BY <1>1, <1>2
<1> QED
  BY <1>1, <1>3 DEF MAX_PANEL_ID_LENGTH

\* The limit of a text is a number; how large it is matters to no proof.
LEMMA TextLimit ==
  /\ MAX_RESULT_TEXT_LENGTH \in Int /\ MAX_RESULT_TEXT_LENGTH >= 0 /\ Lengths \subseteq Int
BY SMT DEF MAX_RESULT_TEXT_LENGTH, Lengths

\* What the circuit makes of an accepted request passes the decoder and the
\* service's own conditions, unless it is beyond a limit.
LEMMA ResultDecoded ==
  ASSUME NEW request \in Candidates, decode_circuit_verification_request(request),
         NEW result \in CircuitResults(request),
         ~(result.length > MAX_RESULT_TEXT_LENGTH),
         ~(result.failure.message > 512), ~(result.failure.path > 64)
  PROVE  /\ decode_circuit_verification_result(result) /\ valid_worker_result(result)
         /\ result.failure # NoFailure => result.failure.code \in Listed
<1>1. /\ request.panelId \in 1..MAX_PANEL_ID_LENGTH /\ request.inputRevision >= 0
      /\ request.entry \in Entries
  BY OfRequest
<1>2. ASSUME NEW length \in Lengths, ~(length > MAX_RESULT_TEXT_LENGTH) PROVE optional_bounded_text(length)
  <2> DEFINE limit == MAX_RESULT_TEXT_LENGTH
  <2>1. length \in Int /\ limit \in Int /\ ~(length > limit)
    BY <1>2, TextLimit
  <2> HIDE DEF limit
  <2>2. length <= limit
    BY <2>1
  <2> QED
    BY <2>2 DEF optional_bounded_text, limit
<1>3. \/ \E length \in Lengths :
            result = result_of(request, "verified", "full", NoFailure, TextKeys, length)
      \/ \E status \in {"failed", "cancelled"}, failure \in Failures, texts \in {{}, {"baselineHson"}},
            length \in Lengths : result = result_of(request, status, "some", failure, texts, length)
  BY DEF CircuitResults
<1>4. CASE \E length \in Lengths :
             result = result_of(request, "verified", "full", NoFailure, TextKeys, length)
  <2>1. PICK length \in Lengths :
          result = result_of(request, "verified", "full", NoFailure, TextKeys, length)
    BY <1>4
  <2>2. /\ result.panelId = request.panelId /\ result.inputRevision = request.inputRevision
        /\ result.status = "verified" /\ result.entry = request.entry /\ result.operationCounts = "full"
        /\ result.failure = NoFailure /\ result.texts = TextKeys /\ result.length = length
    BY <2>1, ResultFields
  <2>3. optional_bounded_text(result.length)
    BY <1>2, <2>2
  <2> QED
    BY <1>1, <2>2, <2>3
    DEF decode_circuit_verification_result, valid_worker_result, decode_counts, Counts
<1>5. CASE \E status \in {"failed", "cancelled"}, failure \in Failures, texts \in {{}, {"baselineHson"}},
             length \in Lengths : result = result_of(request, status, "some", failure, texts, length)
  <2>1. PICK status \in {"failed", "cancelled"}, failure \in Failures, texts \in {{}, {"baselineHson"}},
             length \in Lengths : result = result_of(request, status, "some", failure, texts, length)
    BY <1>5
  <2>2. /\ result.panelId = request.panelId /\ result.inputRevision = request.inputRevision
        /\ result.status = status /\ result.entry = request.entry /\ result.operationCounts = "some"
        /\ result.failure = failure /\ result.texts = texts /\ result.length = length
    BY <2>1, ResultFields
  <2>3. optional_bounded_text(result.length)
    BY <1>2, <2>2
  <2>4. failure.stage = "parse" /\ failure.code \in Listed /\ failure.message \in {1, 512, 513}
        /\ failure.path \in {0, 64, 65}
    BY DEF Failures
  <2>5. failure.message \in 1..512 /\ failure.path <= 64
    BY <2>2, <2>4
  <2>6. failure # NoFailure
    BY <2>4 DEF NoFailure
  <2>7. decode_failure(result.failure)
    BY <2>2, <2>4, <2>5 DEF decode_failure, decode_path
  <2>8. status \in {"verified", "failed", "cancelled", "superseded"}
        /\ status # "verified" /\ status # "superseded"
    BY <2>1
  <2>9. decode_circuit_verification_result(result)
    BY <1>1, <2>2, <2>3, <2>7, <2>8 DEF decode_circuit_verification_result, decode_counts, Counts
  <2> QED
    BY <2>2, <2>4, <2>6, <2>8, <2>9 DEF valid_worker_result
<1> QED
  BY <1>3, <1>4, <1>5

\* The service's own results carry counts that the worker's passed with.
LEMMA ObsoleteDecoded ==
  ASSUME NEW request \in Candidates, decode_circuit_verification_request(request),
         NEW status \in {"cancelled", "superseded"}, NEW counts \in Counts
  PROVE  decode_circuit_verification_result(obsolete_result(request, status, counts))
<1> DEFINE failure == [stage |-> status, code |-> "SERVICE", message |-> 60, path |-> 0]
           texts == {}
           result == result_of(request, status, counts, failure, texts, 0)
<1>1. obsolete_result(request, status, counts) = result
  BY DEF obsolete_result
<1>2. failure.stage = status /\ failure.message = 60 /\ failure.path = 0
  OBVIOUS
<1>3. texts = {}
  OBVIOUS
<1>4. status # "none" /\ 60 \in 1..512 /\ 0 <= 64
  OBVIOUS
<1> HIDE DEF failure, texts
<1>5. /\ result.panelId = request.panelId /\ result.inputRevision = request.inputRevision
      /\ result.status = status /\ result.entry = request.entry /\ result.operationCounts = counts
      /\ result.failure = failure /\ result.texts = texts /\ result.length = 0
  BY ResultFields
<1> HIDE DEF result
<1>6. decode_failure(result.failure)
  BY <1>2, <1>4, <1>5 DEF decode_failure, decode_path
<1>7. \A key \in result.texts : optional_bounded_text(result.length)
  BY <1>3, <1>5
<1> QED
  BY <1>1, <1>5, <1>6, <1>7, OfRequest DEF decode_circuit_verification_result, decode_counts

\* What the worker posts is one of these and names its kind.
LEMMA ResultReply ==
  ASSUME NEW request, NEW reply \in ResultReplies(request)
  PROVE  /\ reply.kind = "complete" /\ reply.keys = ReplyKeys \union {"result"}
         /\ reply.result \in CircuitResults(request)
BY DEF ResultReplies

LEMMA ProgressReply ==
  ASSUME NEW reply \in ProgressReplies
  PROVE  /\ reply.kind = "progress" /\ reply.keys = ReplyKeys \union {"progress"}
         /\ reply.progress \in CircuitProgress
BY DEF ProgressReplies

\* Nothing the worker posts is taken for a violation but what is oversized.
LEMMA RepliesDecoded ==
  ASSUME NEW request \in Candidates, decode_circuit_verification_request(request),
         NEW reply \in Refusals \union ProgressReplies \union ResultReplies(request)
  PROVE  /\ Oversized(reply) \/ decode_worker_reply(reply)
         /\ reply.kind \in {"failed", "progress", "complete"}
         /\ reply.kind = "progress" => reply.progress \in CircuitProgress
<1>1. CASE reply \in Refusals
  BY <1>1, RefusalsDecoded
<1>2. CASE reply \in ProgressReplies
  <2>1. /\ reply.kind = "progress" /\ reply.keys = ReplyKeys \union {"progress"}
        /\ reply.progress \in CircuitProgress
    BY <1>2, ProgressReply
  <2>2. /\ decode_circuit_verification_progress(reply.progress)
        /\ reply.progress.stage \in {"cw-lap-complete", "ccw-lap-complete", "comparing"}
        /\ valid_worker_progress(reply.progress)
    BY <2>1, ProgressDecoded
  <2>3. decode_worker_reply(reply)
    BY <2>1, <2>2, Zenon DEF decode_worker_reply
  <2> QED
    BY <2>1, <2>3
<1>3. CASE reply \in ResultReplies(request)
  <2>1. /\ reply.kind = "complete" /\ reply.keys = ReplyKeys \union {"result"}
        /\ reply.result \in CircuitResults(request)
    BY <1>3, ResultReply
  <2>2. CASE Oversized(reply)
    BY <2>1, <2>2
  <2>3. CASE ~Oversized(reply)
    <3>1. /\ ~(reply.result.length > MAX_RESULT_TEXT_LENGTH) /\ ~(reply.result.failure.message > 512)
          /\ ~(reply.result.failure.path > 64)
      BY <2>1, <2>3 DEF Oversized
    <3>2. /\ decode_circuit_verification_result(reply.result) /\ valid_worker_result(reply.result)
          /\ reply.result.failure # NoFailure => reply.result.failure.code \in Listed
      BY <2>1, <3>1, ResultDecoded
    <3>3. decode_worker_reply(reply)
      BY <2>1, <3>2, Zenon DEF decode_worker_reply
    <3> QED
      BY <2>1, <3>3
  <2> QED
    BY <2>2, <2>3
<1> QED
  BY <1>1, <1>2, <1>3

LEMMA WireBegins == WireInit => WireInv
<1> SUFFICES ASSUME WireInit PROVE WireInv
  OBVIOUS
<1> DEFINE none == {}
<1>1. PICK request \in Candidates : wire = [at |-> "asked", request |-> request, reply |-> none]
  BY DEF WireInit
<1> HIDE DEF none
<1>2. wire.at = "asked" /\ wire.request = request /\ wire.reply = none
  BY <1>1
<1> QED
  BY <1>1, <1>2 DEF WireInv

\* Where the wire moves to a later state of the same request and reply.
LEMMA Onward ==
  ASSUME WireInv, NEW after, wire' = [wire EXCEPT !.at = after]
  PROVE  /\ wire' = [at |-> wire'.at, request |-> wire'.request, reply |-> wire'.reply]
         /\ wire'.at = after /\ wire'.request = wire.request /\ wire'.reply = wire.reply
         /\ Reply' = Reply
<1>1. wire = [at |-> wire.at, request |-> wire.request, reply |-> wire.reply]
  BY DEF WireInv
<1>2. wire' = [at |-> after, request |-> wire.request, reply |-> wire.reply]
  BY <1>1
<1>3. wire'.at = after /\ wire'.request = wire.request /\ wire'.reply = wire.reply
  BY <1>2
<1> QED
  BY <1>2, <1>3 DEF Reply

\* What is posted is what arrives.
LEMMA Carried ==
  ASSUME NEW reply, wire.reply = {reply}
  PROVE  Reply = reply
BY DEF Reply

LEMMA WireStep == WireInv /\ [WireNext]_wire => WireInv'
<1> SUFFICES ASSUME WireInv, [WireNext]_wire PROVE WireInv'
  OBVIOUS
<1>1. CASE UNCHANGED wire
  BY <1>1 DEF WireInv, Reply
<1>2. CASE decode_circuit_payload
  <2>1. wire.at = "asked" /\ wire.request \in Candidates
    BY <1>2 DEF decode_circuit_payload, WireInv
  <2>2. CASE decode_circuit_verification_request(wire.request)
    <3>1. wire' = [wire EXCEPT !.at = "queued"]
      BY <1>2, <2>2 DEF decode_circuit_payload
    <3>2. /\ wire' = [at |-> wire'.at, request |-> wire'.request, reply |-> wire'.reply]
          /\ wire'.at = "queued" /\ wire'.request = wire.request
      BY <3>1, Onward
    <3> QED
      BY <2>1, <2>2, <3>2 DEF WireInv
  <2>3. CASE ~decode_circuit_verification_request(wire.request)
    <3>1. wire' = [wire EXCEPT !.at = "refused"]
      BY <1>2, <2>3 DEF decode_circuit_payload
    <3>2. /\ wire' = [at |-> wire'.at, request |-> wire'.request, reply |-> wire'.reply]
          /\ wire'.at = "refused" /\ wire'.request = wire.request
      BY <3>1, Onward
    <3> QED
      BY <2>1, <3>2 DEF WireInv
  <2> QED
    BY <2>2, <2>3
<1>3. CASE WorkerPosts
  <2>1. /\ wire.at \in {"queued", "running"} /\ wire.request \in Candidates
        /\ decode_circuit_verification_request(wire.request)
        /\ wire = [at |-> wire.at, request |-> wire.request, reply |-> wire.reply]
    BY <1>3 DEF WorkerPosts, WireInv
  <2>2. decodeMessage(run_message(wire.request))
    BY <2>1, Agree, RunDecoded
  <2>3. PICK reply \in Refusals \union ProgressReplies \union ResultReplies(wire.request) :
          wire' = [wire EXCEPT !.at = "posted", !.reply = {reply}]
    BY <1>3, <2>2 DEF WorkerPosts, Refusals, ProgressReplies, ResultReplies
  <2> DEFINE posted == {reply}
  <2> HIDE DEF posted
  <2>4. wire' = [at |-> "posted", request |-> wire.request, reply |-> posted]
    BY <2>1, <2>3 DEF posted
  <2>5. wire'.at = "posted" /\ wire'.request = wire.request /\ wire'.reply = posted
    BY <2>4
  <2>6. wire'.reply = {reply}
    BY <2>5 DEF posted
  <2> QED
    BY <2>1, <2>3, <2>4, <2>5, <2>6 DEF WireInv
<1>4. CASE ReplyArrives
  <2>1. /\ wire.at = "posted" /\ wire.request \in Candidates
        /\ decode_circuit_verification_request(wire.request)
    BY <1>4 DEF ReplyArrives, WireInv
  <2>2. PICK reply \in Refusals \union ProgressReplies \union ResultReplies(wire.request) : wire.reply = {reply}
    BY <2>1 DEF WireInv
  <2>3. Reply = reply
    BY <2>2, Carried
  <2>4. /\ Oversized(Reply) \/ decode_worker_reply(Reply)
        /\ Reply.kind \in {"failed", "progress", "complete"}
    BY <2>1, <2>2, <2>3, RepliesDecoded
  <2>5. PICK after : /\ wire' = [wire EXCEPT !.at = after] /\ after \in {"violation", "running", "rejected", "settled"}
                     /\ after = "violation" => ~decode_worker_reply(Reply)
                     /\ after = "settled" => decode_worker_reply(Reply) /\ Reply.kind = "complete"
    <3> DEFINE after == IF ~decode_worker_reply(Reply) THEN "violation"
                     ELSE IF Reply.kind = "progress" THEN "running"
                     ELSE IF Reply.kind = "failed" THEN "rejected" ELSE "settled"
    <3>1. after \in {"violation", "running", "rejected", "settled"}
      OBVIOUS
    <3>2. after = "violation" => ~decode_worker_reply(Reply)
      OBVIOUS
    <3>3. after = "settled" => decode_worker_reply(Reply) /\ Reply.kind = "complete"
      BY <2>4
    <3>4. wire' = [wire EXCEPT !.at = after]
      BY <1>4 DEF ReplyArrives
    <3> HIDE DEF after
    <3> QED
      BY <3>1, <3>2, <3>3, <3>4
  <2>6. /\ wire' = [at |-> wire'.at, request |-> wire'.request, reply |-> wire'.reply]
        /\ wire'.at = after /\ wire'.request = wire.request /\ wire'.reply = wire.reply
        /\ Reply' = Reply
    BY <2>5, Onward
  <2>7. /\ after = "violation" => Oversized(Reply)
        /\ after = "settled" => Reply.kind = "complete" /\ decode_worker_reply(Reply)
    BY <2>4, <2>5
  <2>8. Oversized(Reply)' = Oversized(Reply) /\ decode_worker_reply(Reply)' = decode_worker_reply(Reply)
    BY <2>6
  <2> QED
    BY <2>1, <2>2, <2>5, <2>6, <2>7, <2>8 DEF WireInv
<1>5. CASE BrowserDecodes
  <2>1. /\ wire.at = "settled" /\ wire.request \in Candidates
        /\ decode_circuit_verification_request(wire.request)
        /\ Reply.kind = "complete" /\ decode_worker_reply(Reply)
    BY <1>5 DEF BrowserDecodes, WireInv
  <2>2. PICK reply \in Refusals \union ProgressReplies \union ResultReplies(wire.request) : wire.reply = {reply}
    BY <2>1 DEF WireInv
  <2>3. decode_circuit_verification_result(Reply.result)
    BY <2>1, Zenon DEF decode_worker_reply
  <2>4. Reply.result.operationCounts \in Counts /\ "zero" \in Counts
    BY <2>3 DEF decode_circuit_verification_result, decode_counts, Counts
  <2>5. PICK result \in {Reply.result}
                        \union {obsolete_result(wire.request, status, counts) :
                                  status \in {"cancelled", "superseded"},
                                  counts \in {"zero", Reply.result.operationCounts}} :
          wire' = [wire EXCEPT !.at = IF decode_circuit_verification_result(result) THEN "shown" ELSE "invalid"]
    BY <1>5 DEF BrowserDecodes
  <2>6. decode_circuit_verification_result(result)
    <3>1. CASE result = Reply.result
      BY <3>1, <2>3
    <3>2. CASE \E status \in {"cancelled", "superseded"}, counts \in {"zero", Reply.result.operationCounts} :
                 result = obsolete_result(wire.request, status, counts)
      BY <3>2, <2>1, <2>4, ObsoleteDecoded
    <3> QED
      BY <2>5, <3>1, <3>2
  <2>7. wire' = [wire EXCEPT !.at = "shown"]
    BY <2>5, <2>6
  <2>8. /\ wire' = [at |-> wire'.at, request |-> wire'.request, reply |-> wire'.reply]
        /\ wire'.at = "shown" /\ wire'.request = wire.request /\ wire'.reply = wire.reply
    BY <2>7, Onward
  <2> QED
    BY <2>1, <2>2, <2>8 DEF WireInv
<1> QED
  BY <1>1, <1>2, <1>3, <1>4, <1>5 DEF WireNext

LEMMA WireSound == WireInv => WireAgrees
<1> SUFFICES ASSUME WireInv PROVE WireAgrees
  OBVIOUS
<1>1. wire.at \notin {"asked", "refused"} =>
        decode_circuit_verification_request(wire.request) /\ decodeRequest(wire.request)
  BY Agree DEF WireInv
<1>2. (wire.at = "violation" => Oversized(Reply)) /\ wire.at # "invalid"
  BY DEF WireInv
<1>3. ASSUME wire.at = "posted", Reply.kind = "progress"
      PROVE  decode_circuit_verification_progress(Reply.progress)
  <2>1. PICK reply \in Refusals \union ProgressReplies \union ResultReplies(wire.request) : wire.reply = {reply}
    BY <1>3 DEF WireInv
  <2>2. Reply = reply
    BY <2>1, Carried
  <2>3. wire.request \in Candidates /\ decode_circuit_verification_request(wire.request)
    BY <1>3 DEF WireInv
  <2>4. Reply.progress \in CircuitProgress
    BY <1>3, <2>1, <2>2, <2>3, RepliesDecoded
  <2> QED
    BY <2>4, ProgressDecoded
<1>4. \A stage \in {"queued", "started", "cancelled", "failed"}, completed \in 0..6 :
        decode_circuit_verification_progress(OwnProgress(stage, completed))
  BY OwnProgressDecoded DEF PROGRESS_STAGES, TOTAL_STAGES
<1>5. decode_circuit_verification_progress(OwnProgress("completed", TOTAL_STAGES))
  BY OwnProgressDecoded DEF PROGRESS_STAGES, TOTAL_STAGES
<1> QED
  BY <1>1, <1>2, <1>3, <1>4, <1>5 DEF WireAgrees

-----------------------------------------------------------------------------
(* The application.                                                        *)

AppInv ==
  /\ Inv /\ DeckInv /\ ReaderInv /\ MenuInv /\ ColonyInv /\ ShellInv /\ SheetInv /\ WireInv
  /\ Evaluated /\ WaitsInv /\ BootInv /\ GateInv /\ HostingInv /\ SudokuInv
  /\ Picked(picker) /\ Built(build) /\ Pointed(point) /\ Explores(explorer)

\* Whatever part moves, the others stay as they are.
LEMMA OnePartMoves ==
  [AppNext]_whole => /\ [WaitsNext]_waits /\ [BootNext]_boot /\ [GateNext]_gate
                     /\ [HostingNext]_hosting /\ [SudokuNext]_sudoku
                     /\ [PickerNext]_picker /\ [BuildNext]_build /\ [PointNext]_point
                     /\ [ExplorerNext]_explorer
BY DEF AppNext, PageNext, DemoNext, FrameNext, ServerNext, whole, frame, servers, demos

LEMMA OneSurfaceMoves ==
  [AppNext]_whole => /\ [Next]_vars /\ [DeckNext]_deck /\ [MenuNext]_menu
                     /\ [ShellNext]_shell /\ [SheetNext]_sheet /\ [WireNext]_wire
                     /\ [ReaderNext]_reader /\ [ColonyNext]_colony
BY DEF AppNext, PageNext, DemoNext, FrameNext, ServerNext, whole, vars, pages, frame, servers, demos

\* A shell that is not the part that moves starts with nothing selected.
LEMMA ShellAtRest == shell = mounted_shell(NoView, {}, NoRoom, FALSE, 0) => ShellInv
<1> DEFINE none == {}
           closed == FALSE
<1>1. /\ NoView \in MAIN_VIEW_IDS \union {NoView} /\ none \in SUBSET WIDGET_IDS
      /\ NoRoom \in {NoRoom, Malformed} \union ShellRooms /\ closed \in BOOLEAN
  OBVIOUS
<1>2. NoView # Towl /\ NoRoom \notin ShellRooms /\ 0 \in Nat
  BY ShellAssumption, ViewNames DEF ShellRooms
<1> HIDE DEF none, closed
<1>3. Orderly(mounted_shell(NoView, none, NoRoom, closed, 0))
  BY <1>1, <1>2, MountedShell
<1> QED
  BY <1>3 DEF ShellInv, none, closed

\* Every part begins with its invariant and keeps it.
LEMMA AppBegins == AppInit => AppInv
<1> SUFFICES ASSUME AppInit PROVE AppInv
  OBVIOUS
<1>1. BootInit
  BY DEF AppInit, BootInit
<1>2. Picked(picker) /\ Built(build) /\ Pointed(point) /\ Explores(explorer)
  BY PickerBegins, BuildBegins, PointBegins, ExplorerBegins DEF AppInit
<1>3. Inv /\ DeckInv /\ ReaderInv /\ SheetInv /\ Evaluated /\ WireInv
  BY Initially, DeckBegins, ReaderBegins, SheetBegins, EvaluatedBegins, WireBegins DEF AppInit
<1>4. MenuInv /\ ColonyInv
  BY MenuBegins, MenuHidden, ColonyBegins DEF AppInit
<1>5. ShellInv
  BY Started, ShellAtRest DEF AppInit
<1> QED
  BY <1>1, <1>2, <1>3, <1>4, <1>5, WaitsBegin, BootBegins, GateBegins, HostingBegins, SudokuBegins
  DEF AppInit, AppInv

LEMMA AppStep == AppInv /\ [AppNext]_whole => AppInv' /\ HostStepped
<1> SUFFICES ASSUME AppInv, [AppNext]_whole PROVE AppInv' /\ HostStepped
  OBVIOUS
<1>1. WaitsInv' /\ BootInv' /\ GateInv' /\ HostingInv' /\ SudokuInv' /\ HostStepped
  BY OnePartMoves, WaitsStep, BootStep, GateStep, HostingStep, SudokuStep DEF AppInv, HostStepped
<1>2. Picked(picker') /\ Built(build') /\ Pointed(point') /\ Explores(explorer')
  BY OnePartMoves, PickerStep, BuildStep, PointStep, ExplorerStep DEF AppInv
<1>3. Inv'
  <2>1. Inv /\ [Next]_vars
    BY OneSurfaceMoves DEF AppInv
  <2> QED
    BY <2>1, Stepping
<1>4. ShellInv'
  <2>1. ShellInv /\ [ShellNext]_shell
    BY OneSurfaceMoves DEF AppInv
  <2> QED
    BY <2>1, Stepped
<1>5. DeckInv' /\ MenuInv' /\ ColonyInv' /\ SheetInv' /\ WireInv'
  BY OneSurfaceMoves, DeckStep, MenuStep, ColonyStep, SheetStep, WireStep DEF AppInv
<1>6. ReaderInv'
  <2>1. ReaderInv /\ [ReaderNext]_reader
    BY OneSurfaceMoves DEF AppInv
  <2> QED
    BY <2>1, ReaderStep
<1>7. Evaluated'
  <2>1. SheetInv /\ Evaluated /\ [SheetNext]_sheet
    BY OneSurfaceMoves DEF AppInv
  <2> QED
    BY <2>1, EvaluatedStep
<1> QED
  BY <1>1, <1>2, <1>3, <1>4, <1>5, <1>6, <1>7 DEF AppInv

LEMMA AppKept == AppSpec => []AppInv
<1>1. AppInv /\ [AppNext]_whole => AppInv'
  BY AppStep
<1> QED
  BY <1>1, AppBegins, PTL DEF AppSpec

(* Every part of the application keeps its types, and with them its limits:*)
(* no more fireworks are live than wasm-fireworks.ts allows, no entry of   *)
(* the history of mount-test-panels.ts is shown that is not there, no slide*)
(* of mount-deck.ts that the deck does not have, and a board of            *)
(* mount-color-sudoku.ts holds every token once.                           *)
THEOREM AppTyped == AppSpec => []AppTypeOK
<1>1. Inv => TypeOK
  BY EditsTyped
<1>2. DeckInv => DeckTypeOK
  BY DEF DeckInv, DeckState, DeckTypeOK
<1>3. Explores(explorer) => ExplorerTypeOK
  BY DEF Explores, Explored, ExplorerState, ExplorerTypeOK, Stages
<1>4. MenuInv => MenuTypeOK
  BY MenuWorks
<1>5. AppInv => AppTypeOK
  BY <1>1, <1>2, <1>3, <1>4, SudokuTyped, SheetTyped, BootTyped, ShellTyped, HostingTyped
  DEF AppInv, AppTypeOK
<1> QED
  BY <1>5, AppKept, PTL

(* What intro and splash wait for comes in order, and a wait that is       *)
(* settled, aborted or timed out leaves nothing registered behind.         *)
THEOREM StartsInOrder == AppSpec => []StartOrderly
<1>1. AppInv => StartOrderly
  BY WaitsSound, BootSound DEF AppInv, StartOrderly
<1> QED
  BY <1>1, AppKept, PTL

(* What has stopped or failed to start is disposed of whole, and every     *)
(* socket is owned by the application that answers for it.                 *)
THEOREM ServersOwned == AppSpec => []ServersOwnUp
<1>1. AppInv => ServersOwnUp
  BY HostingSound, GateSound DEF AppInv, ServersOwnUp
<1> QED
  BY <1>1, AppKept, PTL

(* Whatever is swapped, dragged, scrambled and drawn in between, and for   *)
(* any slots and any shuffles, the verdict of mount-color-sudoku.ts is that *)
(* of the corners, and the picture shows the board or is on its way there. *)
THEOREM BoardTrue == AppSpec => []BoardTruthful
<1>1. AppInv => BoardTruthful
  BY SudokuSound DEF AppInv
<1> QED
  BY <1>1, AppKept, PTL

(* Whatever is typed, moved, clicked, fetched and answered late, the small  *)
(* panels tell the truth: the picker (mount-oklch.ts) about the colors in  *)
(* use, the build panel (mount-bp.ts) about its output, the point widget   *)
(* (point.ts) about the page, and the explorer (mount-test-panels.ts)      *)
(* about what it has loaded and what it still retains; and a sheet of any  *)
(* size shows the blocked target of an operation that touches the selected *)
(* cell blocked (cellsheet-evaluator.ts), captures the pointer just while  *)
(* a gesture lasts, and in resizing leaves no column narrower than it may  *)
(* be and keeps the space two neighbors share (cellsheet.ts).              *)
THEOREM PanelsTrue == AppSpec => []PanelsTruthful
<1>1. AppInv => PanelsTruthful
  BY PickerSound, BuildSound, PointSound, ExplorerSound, SheetSound DEF AppInv, PanelsTruthful
<1> QED
  BY <1>1, AppKept, PTL

(* Of a sheet of any size and whatever was typed in whatever order, the    *)
(* bounded passes of cellsheet-evaluator.ts come to the one fixed point:   *)
(* every operation that can be found has its result or its error, no typed *)
(* cell is overwritten and no error of an earlier pass is left over.       *)
THEOREM SheetSettles == AppSpec => []SheetSettled
<1>1. AppInv => SheetSettled
  BY SheetSettling DEF AppInv
<1> QED
  BY <1>1, AppKept, PTL

(* However presentation, motion, presses and animations that end or are     *)
(* cancelled interleave, and for any items, one menu is displayed, its      *)
(* tiles can be reached and their poses are what the book of poses says     *)
(* (make-amoebi.ts). However wide and high the cores of the items are, and  *)
(* wherever the choices of soft-tile-candidates.ts put them, every body is  *)
(* of one piece without a hole, no two share a hexagon, and what a placement*)
(* records of contacts and hollows is what it changed (soft-tile.ts).       *)
THEOREM MenuHandled == AppSpec => [](MenuSound /\ MenuLaidOut)
<1>1. AppInv => MenuSound /\ MenuLaidOut
  BY MenuWorks, ColonySound DEF AppInv, MenuSound
<1> QED
  BY <1>1, AppKept, PTL

(* The three files that check what crosses the wire of circuit verification*)
(* agree: what the Locus accepts the worker accepts, what the worker posts *)
(* is a violation only beyond limits that only the decoder of results      *)
(* knows, and whatever the service settles or reports the browser decodes. *)
THEOREM EndsAgree == AppSpec => []WireAgrees
<1>1. AppInv => WireAgrees
  BY WireSound DEF AppInv
<1> QED
  BY <1>1, AppKept, PTL

(* Of a text of any number of lines, in any order of their kinds and       *)
(* wherever it ends, mount-deck.ts mounts every line once and in order, and*)
(* markdown-parser.ts every line once, out of order only where a url or a  *)
(* copyright within a fence goes before the code of the fence.             *)
THEOREM LinesShown == AppSpec => []EveryLineShown
<1>1. AppInv => EveryLineShown
  BY ReaderSound DEF AppInv
<1> QED
  BY <1>1, AppKept, PTL

(* Where the sweep of application-idle-sweep.ts is given a schedule, no     *)
(* room stays idle for longer than the idle time, one interval and the     *)
(* evictions of two sweeps, for any number of rooms and connections.       *)
THEOREM IdleRoomsGo == AppSpec => [](Scheduled => IdleRoomsEvicted)
<1>1. AppInv => (Scheduled => IdleRoomsEvicted)
  BY HostingPunctual DEF AppInv
<1> QED
  BY <1>1, AppKept, PTL

(* However connects, disconnects, expiries and sweeps interleave, a room is *)
(* evicted only after it was idle for the whole time it is allowed.        *)
THEOREM RoomsKeptWhileUsed == AppSpec => OnlyIdleRoomsEvicted
<1>1. AppInv /\ [AppNext]_whole =>
        [\A r \in HostedRooms :
           hosting.room[r].live /\ ~hosting'.room[r].live /\ hosting'.towl = "live" =>
             hosting.room[r].idle # Busy /\ hosting.now - hosting.room[r].idle >= idleMs]_hosting
  BY AppStep DEF HostStepped, Kept
<1> QED
  BY <1>1, AppKept, PTL DEF AppSpec, OnlyIdleRoomsEvicted
=============================================================================
