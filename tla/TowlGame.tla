------------------------------ MODULE TowlGame ------------------------------
(***************************************************************************)
(* The TOWL room: towl.transitions.ts, and towl.runtime.ts which runs its  *)
(* transitions inside a Locus.  An action reads a snapshot of the governed *)
(* map, computes the whole next state and hands it to mutate; a session    *)
(* that attaches, detaches, expires or says goodbye is reflected the same  *)
(* way.  When the Locus commits a mutation is not the repository's to say: *)
(* lag = 0 commits it in the turn that computed it (what the suites of     *)
(* tests/suites/towl observe), a larger lag lets that many replacements    *)
(* wait while others are computed from the old snapshot.                   *)
(***************************************************************************)
EXTENDS Integers, Sequences

CONSTANTS Sessions, None, Win, MaxRound,
          MaxLag    \* bound on lag

ASSUME RoomAssumption ==
  /\ None \notin Sessions
  /\ None \notin {"player1", "player2"}
  /\ Win \in Nat \ {0}
  /\ MaxRound \in Nat \ {0}
  /\ MaxLag \in Nat

VARIABLES
  game,      \* the governed map
  session,   \* what the Locus knows of each session
  queue,     \* replacements handed to mutate and not committed
  disposed,  \* create_towl_runtime's flag
  lag        \* how many replacements the Locus lets wait; never changes
gameVars == <<game, session, queue, disposed, lag>>

Seats == {"player1", "player2"}
Phases == {"lobby", "ready", "playing", "finished"}
TowlSeatState == [session : Sessions \union {None}, connected : BOOLEAN, ready : BOOLEAN]
TowlState == [phase : Phases, seat : [Seats -> TowlSeatState], position : -Win..Win,
              winner : Seats \union {None}, round : Nat \ {0}]

-----------------------------------------------------------------------------
(* The pure transitions.  An operator named X_ok is X's early returns.     *)

VACANT_SEAT == [session |-> None, connected |-> FALSE, ready |-> FALSE]

create_towl_state ==
  [phase |-> "lobby", seat |-> [k \in Seats |-> VACANT_SEAT], position |-> 0,
   winner |-> None, round |-> 1]

seat_for_session(g, s) ==
  IF g.seat["player1"].session = s THEN "player1"
  ELSE IF g.seat["player2"].session = s THEN "player2" ELSE None

occupied(g) == {k \in Seats : g.seat[k].session # None}

derive_lobby_phase(g) == IF occupied(g) = Seats THEN "ready" ELSE "lobby"

unready(g) == [k \in Seats |-> [g.seat[k] EXCEPT !.ready = FALSE]]

\* Mutant: the seats keep their readiness.
cancel_round_ready(g) == [g EXCEPT !.phase = "lobby", !.position = 0, !.winner = None]

cancel_round(g) ==
  [g EXCEPT !.phase = "lobby", !.seat = unready(g), !.position = 0, !.winner = None]

vacant_seat(g) == IF g.seat["player1"].session = None THEN "player1" ELSE "player2"

join_ok(g, s) == seat_for_session(g, s) = None /\ occupied(g) # Seats

\* Mutant: the seat is taken as if its session had not attached yet.
join_towl_session_absent(g, s) ==
  LET assigned == [g EXCEPT !.seat[vacant_seat(g)] = [VACANT_SEAT EXCEPT !.session = s]]
  IN [assigned EXCEPT !.phase = derive_lobby_phase(assigned)]

join_towl_session(g, s) ==
  LET assigned == [g EXCEPT !.seat[vacant_seat(g)] =
                     [session |-> s, connected |-> TRUE, ready |-> FALSE]]
  IN [assigned EXCEPT !.phase = derive_lobby_phase(assigned)]

leave_towl_session(g, s) ==
  cancel_round([g EXCEPT !.seat[seat_for_session(g, s)] = VACANT_SEAT])

set_towl_ready(g, s, ready) ==
  LET changed == [g EXCEPT !.seat[seat_for_session(g, s)].ready = ready]
  IN IF \A k \in Seats : changed.seat[k].ready
     THEN [changed EXCEPT !.phase = "playing", !.position = 0, !.winner = None]
     ELSE changed

pull_ok(g, s) ==
  seat_for_session(g, s) # None /\ g.phase = "playing" /\ occupied(g) = Seats

\* Mutant: the winning pull leaves the round open.
pull_towl_rope_open(g, s) ==
  [g EXCEPT !.position = @ + (IF seat_for_session(g, s) = "player1" THEN 1 ELSE -1)]

pull_towl_rope(g, s) ==
  LET moved == g.position + (IF seat_for_session(g, s) = "player1" THEN 1 ELSE -1)
      position == IF moved > Win THEN Win ELSE IF moved < -Win THEN -Win ELSE moved
      winner == IF position = Win THEN "player1"
                ELSE IF position = -Win THEN "player2" ELSE None
  IN IF winner = None THEN [g EXCEPT !.position = position]
     ELSE [g EXCEPT !.phase = "finished", !.seat = unready(g),
                    !.position = position, !.winner = winner]

\* Mutant: any seated player may reset.
reset_ok_anyone(g, s) == seat_for_session(g, s) # None /\ g.winner # None

reset_ok(g, s) ==
  /\ seat_for_session(g, s) # None
  /\ g.phase = "finished" /\ g.winner # None
  /\ seat_for_session(g, s) = g.winner

reset_towl_round(g) ==
  [g EXCEPT !.phase = derive_lobby_phase(g), !.seat = unready(g), !.position = 0,
            !.winner = None, !.round = @ + 1]

reflect_connected(g, s, connected) ==
  IF seat_for_session(g, s) = None THEN g
  ELSE [g EXCEPT !.seat[seat_for_session(g, s)].connected = connected]

\* Mutant: an expired session is only marked as absent.
remove_towl_session_absent(g, s) == reflect_connected(g, s, FALSE)

remove_towl_session(g, s) ==
  IF seat_for_session(g, s) = None THEN g ELSE leave_towl_session(g, s)

-----------------------------------------------------------------------------
(* The runtime.                                                            *)

mutate(next) ==
  \/ queue = << >> /\ game' = next /\ UNCHANGED queue
  \/ Len(queue) < lag /\ queue' = Append(queue, next) /\ UNCHANGED game

Commit ==
  /\ queue # << >> /\ ~disposed
  /\ game' = Head(queue) /\ queue' = Tail(queue)
  /\ UNCHANGED <<session, disposed, lag>>

reflect(next) == IF next = game THEN UNCHANGED <<game, queue>> ELSE mutate(next)

LifecycleEvent(s, from, to, next) ==
  /\ ~disposed /\ session[s] \in from
  /\ session' = [session EXCEPT ![s] = to]
  /\ reflect(next)
  /\ UNCHANGED <<disposed, lag>>

Attached(s) == LifecycleEvent(s, {"absent", "detached"}, "attached", reflect_connected(game, s, TRUE))
Detached(s) == LifecycleEvent(s, {"attached"}, "detached", reflect_connected(game, s, FALSE))
Expired(s)  == LifecycleEvent(s, {"detached"}, "gone", remove_towl_session(game, s))
Goodbye(s)  == LifecycleEvent(s, {"attached"}, "gone", remove_towl_session(game, s))

\* require_session: the Locus delivers an action only from an attached session.
Action(s, ok, next) ==
  /\ ~disposed /\ session[s] = "attached" /\ ok
  /\ mutate(next)
  /\ UNCHANGED <<session, disposed, lag>>

join(s)  == Action(s, join_ok(game, s), join_towl_session(game, s))
leave_seat(s) == Action(s, seat_for_session(game, s) # None, leave_towl_session(game, s))
set_ready(s, ready) ==
  Action(s, seat_for_session(game, s) # None /\ game.phase = "ready", set_towl_ready(game, s, ready))
pull(s) == Action(s, pull_ok(game, s), pull_towl_rope(game, s))
reset_round(s) ==
  Action(s, reset_ok(game, s) /\ game.round < MaxRound, reset_towl_round(game))

dispose_room ==
  /\ ~disposed /\ disposed' = TRUE
  /\ UNCHANGED <<game, session, queue, lag>>

GameInit ==
  /\ game = create_towl_state
  /\ session = [s \in Sessions |-> "absent"]
  /\ queue = << >>
  /\ disposed = FALSE
  /\ lag \in 0..MaxLag

GameNext ==
  \/ \E s \in Sessions :
       \/ Attached(s) \/ Detached(s) \/ Expired(s) \/ Goodbye(s)
       \/ join(s) \/ leave_seat(s) \/ pull(s) \/ reset_round(s)
       \/ \E ready \in BOOLEAN : set_ready(s, ready)
  \/ Commit
  \/ dispose_room

GameSpec == GameInit /\ [][GameNext]_gameVars

\* The Locus expires a detached session when its grace period ends.
GameFairness == \A s \in Sessions : WF_gameVars(Expired(s))
GameFairSpec == GameSpec /\ GameFairness

-----------------------------------------------------------------------------
GameTypeOK ==
  /\ game \in TowlState
  /\ session \in [Sessions -> {"absent", "attached", "detached", "gone"}]
  /\ queue \in Seq(TowlState) /\ Len(queue) <= lag
  /\ disposed \in BOOLEAN
  /\ lag \in 0..MaxLag

(* What a client may rely on in any committed state, whatever joined, left *)
(* or expired before: the phase says how many seats are taken and who is   *)
(* ready, the rope is off centre only during and after play, and the       *)
(* winner, the boundary and the phase finished come together.              *)
SeatsCoherent(g) ==
  /\ g.phase = "lobby" <=> occupied(g) # Seats
  /\ g.seat["player1"].session = g.seat["player2"].session => occupied(g) = {}
  /\ \A k \in Seats : g.seat[k].session = None => g.seat[k] = VACANT_SEAT
RoundCoherent(g) ==
  /\ g.phase = "playing" <=> \A k \in Seats : g.seat[k].ready
  /\ g.phase \in {"lobby", "finished"} => \A k \in Seats : ~g.seat[k].ready
  /\ g.phase \in {"lobby", "ready"} => g.position = 0
  /\ g.phase = "finished" <=> g.winner # None
  /\ g.winner = "player1" <=> g.position = Win
  /\ g.winner = "player2" <=> g.position = -Win
Coherent == SeatsCoherent(game) /\ RoundCoherent(game)

\* What a step may do to a recorded win, and to the number of the round.
WinKept ==
  /\ game.winner # None /\ game'.winner # game.winner =>
       \/ game'.round = game.round + 1 /\ game'.phase = "ready"
          /\ \E s \in Sessions : game.seat[game.winner].session = s /\ reset_round(s)
       \/ game'.round = game.round /\ occupied(game') # Seats
  /\ game'.round # game.round => game.winner # None

(* With mutations committed in the turn that computes them, a recorded win *)
(* is given up only by the winner's own reset, which opens the next round  *)
(* with both players seated, or because a player is gone; and no other     *)
(* step moves to another round.                                            *)
WinStands == [][lag = 0 => WinKept]_gameVars

(* With mutations committed in the turn that computes them, the seats show *)
(* who is there: no seat belongs to a session the Locus gave up, and a     *)
(* seat is shown connected exactly while its session is attached.          *)
PresenceMirrored ==
  lag = 0 /\ ~disposed => \A k \in Seats : \A s \in Sessions :
    game.seat[k].session = s =>
      /\ session[s] \in {"attached", "detached"}
      /\ game.seat[k].connected <=> session[s] = "attached"

(* Committed in their turn, a player who lost the connection does not keep *)
(* the room from others: the seat is connected again or given up.          *)
AbandonedSeatFreed ==
  lag = 0 => \A s \in Sessions :
    (seat_for_session(game, s) # None /\ session[s] = "detached")
      ~> (session[s] = "attached" \/ seat_for_session(game, s) = None \/ disposed)
=============================================================================
