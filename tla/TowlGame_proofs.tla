---------------------------- MODULE TowlGame_proofs ----------------------------
(* Proofs about TowlGame and TowlClient, for any set of sessions, any       *)
(* number of pulls to win, of rounds and of mutations that wait.           *)
EXTENDS MCTowl, TowlPanel_proofs

\* What every committed state is, and every state that waits to be.
Good(g) == g \in TowlState /\ SeatsCoherent(g) /\ RoundCoherent(g)

-----------------------------------------------------------------------------
(* Seats.                                                                  *)

LEMMA SeatOf ==
  ASSUME NEW g \in TowlState, NEW s \in Sessions
  PROVE  /\ seat_for_session(g, s) \in Seats \union {None}
         /\ seat_for_session(g, s) \in Seats => g.seat[seat_for_session(g, s)].session = s
         /\ seat_for_session(g, s) = None <=> \A k \in Seats : g.seat[k].session # s
  BY RoomAssumption DEF seat_for_session, Seats

LEMMA Taken ==
  ASSUME NEW g
  PROVE  /\ occupied(g) = Seats <=> \A k \in Seats : g.seat[k].session # None
         /\ occupied(g) = {} <=> \A k \in Seats : g.seat[k].session = None
  BY DEF occupied, Seats

LEMMA Vacant == VACANT_SEAT \in TowlSeatState
  BY DEF VACANT_SEAT, TowlSeatState

LEMMA Unready ==
  ASSUME NEW g \in TowlState
  PROVE  /\ unready(g) \in [Seats -> TowlSeatState]
         /\ \A k \in Seats : /\ ~unready(g)[k].ready
                             /\ unready(g)[k].session = g.seat[k].session
                             /\ unready(g)[k].connected = g.seat[k].connected
                             /\ g.seat[k] = VACANT_SEAT => unready(g)[k] = VACANT_SEAT
<1>1. g.seat \in [Seats -> TowlSeatState] BY DEF TowlState
<1>2. \A k \in Seats : g.seat[k] \in TowlSeatState BY <1>1
<1>3. \A k \in Seats : unready(g)[k] = [g.seat[k] EXCEPT !.ready = FALSE] BY DEF unready
<1>4. \A k \in Seats : unready(g)[k] \in TowlSeatState BY <1>2, <1>3 DEF TowlSeatState
<1>5. unready(g) \in [Seats -> TowlSeatState] BY <1>4 DEF unready
<1>6. \A k \in Seats : /\ ~unready(g)[k].ready
                       /\ unready(g)[k].session = g.seat[k].session
                       /\ unready(g)[k].connected = g.seat[k].connected
  BY <1>2, <1>3 DEF TowlSeatState
<1>7. \A k \in Seats : g.seat[k] = VACANT_SEAT => unready(g)[k] = VACANT_SEAT
  BY <1>2, <1>3 DEF TowlSeatState, VACANT_SEAT
<1> QED BY <1>5, <1>6, <1>7

LEMMA Ranges ==
  /\ 0 \in -Win..Win /\ Win \in -Win..Win /\ -Win \in -Win..Win
  /\ Win # 0 /\ -Win # 0 /\ Win # -Win
  /\ None \notin Seats /\ {"lobby", "ready", "playing", "finished"} \subseteq Phases
  /\ "player1" \in Seats /\ "player2" \in Seats
  BY RoomAssumption DEF Seats, Phases

-----------------------------------------------------------------------------
(* Every transition leads from a good state to a good one.                 *)

LEMMA Created == Good(create_towl_state)
<1> DEFINE g == create_towl_state
<1>1. g.seat = [k \in Seats |-> VACANT_SEAT] BY DEF create_towl_state
<1>2. g \in TowlState BY Vacant, RoomAssumption DEF create_towl_state, TowlState, Phases
<1>3. SeatsCoherent(g)
  BY <1>1, Taken DEF SeatsCoherent, VACANT_SEAT, Seats, create_towl_state
<1>4. RoundCoherent(g)
  BY <1>1, RoomAssumption DEF RoundCoherent, VACANT_SEAT, Seats, create_towl_state
<1> QED BY <1>2, <1>3, <1>4 DEF Good

\* Once a seat is given up the round is over.
LEMMA Cancelled ==
  ASSUME NEW g \in TowlState, NEW k \in Seats, g.seat[k].session = None,
         \A j \in Seats : g.seat[j].session = None => g.seat[j] = VACANT_SEAT
  PROVE  Good(cancel_round(g))
<1> DEFINE h == cancel_round(g)
<1>1. /\ h.seat = unready(g) /\ h.phase = "lobby" /\ h.position = 0 /\ h.winner = None
      /\ h.round = g.round
  BY DEF cancel_round, TowlState
<1>2. h \in TowlState
  BY Unready, Ranges DEF cancel_round, TowlState
<1>3. SeatsCoherent(h)
  <2>1. h.seat[k].session = None BY <1>1, Unready
  <2>2. occupied(h) # Seats BY <2>1, Taken
  <2>3. h.seat["player1"].session = h.seat["player2"].session => occupied(h) = {}
    BY <2>1, Taken DEF Seats
  <2>4. \A j \in Seats : h.seat[j].session = None => h.seat[j] = VACANT_SEAT
    BY <1>1, Unready
  <2> QED BY <1>1, <2>2, <2>3, <2>4 DEF SeatsCoherent
<1>4. \A j \in Seats : ~h.seat[j].ready BY <1>1, Unready
<1>5. RoundCoherent(h) BY <1>1, <1>4, RoomAssumption DEF RoundCoherent, Seats
<1> QED BY <1>2, <1>3, <1>5 DEF Good

LEMMA Leaving ==
  ASSUME NEW g, Good(g), NEW s \in Sessions, seat_for_session(g, s) # None
  PROVE  /\ Good(leave_towl_session(g, s))
         /\ leave_towl_session(g, s).round = g.round
         /\ occupied(leave_towl_session(g, s)) # Seats
         /\ \A k \in Seats :
              IF k = seat_for_session(g, s) THEN leave_towl_session(g, s).seat[k].session = None
              ELSE /\ leave_towl_session(g, s).seat[k].session = g.seat[k].session
                   /\ leave_towl_session(g, s).seat[k].connected = g.seat[k].connected
<1> DEFINE k == seat_for_session(g, s)
           w == [g EXCEPT !.seat[k] = VACANT_SEAT]
           h == leave_towl_session(g, s)
<1>1. g \in TowlState /\ k \in Seats BY SeatOf DEF Good
<1>2. w.seat = [g.seat EXCEPT ![k] = VACANT_SEAT] /\ w.round = g.round BY <1>1 DEF TowlState
<1>3. w \in TowlState BY <1>1, Vacant DEF TowlState
<1>4. w.seat[k] = VACANT_SEAT /\ \A j \in Seats \ {k} : w.seat[j] = g.seat[j]
  BY <1>1, <1>2 DEF TowlState
<1>5. \A j \in Seats : w.seat[j].session = None => w.seat[j] = VACANT_SEAT
  BY <1>4 DEF Good, SeatsCoherent
<1>6. w.seat[k].session = None BY <1>4 DEF VACANT_SEAT
<1>7. h = cancel_round(w) BY DEF leave_towl_session
<1>8. Good(h) BY <1>1, <1>3, <1>5, <1>6, <1>7, Cancelled
<1>9. h.seat = unready(w) /\ h.round = w.round BY <1>3, <1>7 DEF cancel_round, TowlState
<1>10. \A j \in Seats : h.seat[j].session = w.seat[j].session /\ h.seat[j].connected = w.seat[j].connected
  BY <1>3, <1>9, Unready
<1>11. occupied(h) # Seats BY <1>1, <1>6, <1>10, Taken
<1> QED BY <1>2, <1>4, <1>6, <1>8, <1>9, <1>10, <1>11

\* A game given by its fields.
LEMMA Fields ==
  ASSUME NEW g \in TowlState
  PROVE  /\ g.phase \in Phases /\ g.seat \in [Seats -> TowlSeatState] /\ g.position \in -Win..Win
         /\ g.winner \in Seats \union {None} /\ g.round \in Nat \ {0}
         /\ \A k \in Seats : /\ g.seat[k] \in TowlSeatState
                             /\ g.seat[k].session \in Sessions \union {None}
                             /\ g.seat[k].ready \in BOOLEAN /\ g.seat[k].connected \in BOOLEAN
  BY DEF TowlState, TowlSeatState

LEMMA Joining ==
  ASSUME NEW g, Good(g), NEW s \in Sessions, join_ok(g, s)
  PROVE  /\ Good(join_towl_session(g, s))
         /\ join_towl_session(g, s).round = g.round
         /\ g.winner = None /\ join_towl_session(g, s).winner = None
         /\ \A k \in Seats :
              IF k = vacant_seat(g)
              THEN join_towl_session(g, s).seat[k].session = s /\ join_towl_session(g, s).seat[k].connected
              ELSE join_towl_session(g, s).seat[k] = g.seat[k]
<1> DEFINE w == vacant_seat(g)
           taken == [session |-> s, connected |-> TRUE, ready |-> FALSE]
           a == [g EXCEPT !.seat[w] = taken]
           h == join_towl_session(g, s)
<1>1. g \in TowlState BY DEF Good
<1>2. w \in Seats /\ g.seat[w].session = None
  BY Taken DEF join_ok, vacant_seat, Seats
<1>3. \A k \in Seats : g.seat[k].session # s
  BY <1>1, SeatOf DEF join_ok
<1>4. g.phase = "lobby" /\ g.position = 0 /\ g.winner = None /\ \A k \in Seats : ~g.seat[k].ready
  BY <1>1, Ranges DEF Good, SeatsCoherent, RoundCoherent, join_ok
<1>5. taken \in TowlSeatState BY DEF TowlSeatState
<1>6. a.seat = [g.seat EXCEPT ![w] = taken] BY <1>1 DEF TowlState
<1>7. a \in TowlState BY <1>1, <1>2, <1>5, <1>6 DEF TowlState
<1>8. h = [a EXCEPT !.phase = derive_lobby_phase(a)] BY DEF join_towl_session
<1>9. derive_lobby_phase(a) \in Phases BY Ranges DEF derive_lobby_phase
<1>10. /\ h.seat = a.seat /\ h.phase = derive_lobby_phase(a) /\ h.position = g.position
       /\ h.winner = g.winner /\ h.round = g.round
  BY <1>1, <1>7, <1>8 DEF TowlState
<1>11. h \in TowlState BY <1>7, <1>8, <1>9 DEF TowlState
<1>12. h.seat[w] = taken /\ \A k \in Seats \ {w} : h.seat[k] = g.seat[k]
  BY <1>1, <1>2, <1>6, <1>10 DEF TowlState
<1>13. occupied(h) = occupied(a) BY <1>10 DEF occupied
<1>14. SeatsCoherent(h)
  <2>1. h.phase = "lobby" <=> occupied(h) # Seats
    BY <1>10, <1>13 DEF derive_lobby_phase
  <2>2. h.seat[w].session = s /\ \A k \in Seats \ {w} : h.seat[k].session # s
    BY <1>3, <1>12
  <2>3. h.seat["player1"].session # h.seat["player2"].session
    BY <1>2, <2>2 DEF Seats
  <2>4. \A k \in Seats : h.seat[k].session = None => h.seat[k] = VACANT_SEAT
    BY <1>12, <2>2, RoomAssumption DEF Good, SeatsCoherent
  <2> QED BY <2>1, <2>3, <2>4 DEF SeatsCoherent
<1>15. \A k \in Seats : ~h.seat[k].ready BY <1>4, <1>12
<1>16. h.phase \in {"lobby", "ready"} BY <1>10 DEF derive_lobby_phase
<1>17. RoundCoherent(h) BY <1>4, <1>10, <1>15, <1>16, Ranges DEF RoundCoherent
<1>18. h.seat[w].session = s /\ h.seat[w].connected BY <1>12
<1> QED BY <1>4, <1>10, <1>11, <1>12, <1>14, <1>17, <1>18 DEF Good

LEMMA Readying ==
  ASSUME NEW g, Good(g), NEW s \in Sessions, NEW ready \in BOOLEAN,
         seat_for_session(g, s) # None, g.phase = "ready"
  PROVE  /\ Good(set_towl_ready(g, s, ready))
         /\ set_towl_ready(g, s, ready).round = g.round
         /\ g.winner = None /\ set_towl_ready(g, s, ready).winner = None
         /\ \A k \in Seats :
              /\ set_towl_ready(g, s, ready).seat[k].session = g.seat[k].session
              /\ set_towl_ready(g, s, ready).seat[k].connected = g.seat[k].connected
<1> DEFINE w == seat_for_session(g, s)
           a == [g EXCEPT !.seat[w].ready = ready]
           h == set_towl_ready(g, s, ready)
           all == \A k \in Seats : a.seat[k].ready
<1>1. g \in TowlState /\ w \in Seats BY SeatOf DEF Good
<1>2. g.position = 0 /\ g.winner = None /\ \A k \in Seats : g.seat[k].session # None
  BY Taken DEF Good, SeatsCoherent, RoundCoherent
<1>3. a.seat = [g.seat EXCEPT ![w] = [@ EXCEPT !.ready = ready]] BY <1>1 DEF TowlState
<1>4. [g.seat[w] EXCEPT !.ready = ready] \in TowlSeatState BY <1>1, Fields DEF TowlSeatState
<1>5. a \in TowlState BY <1>1, <1>3, <1>4 DEF TowlState
<1>6. a.seat[w] = [g.seat[w] EXCEPT !.ready = ready] /\ \A k \in Seats \ {w} : a.seat[k] = g.seat[k]
  BY <1>1, <1>3 DEF TowlState
<1>7. \A k \in Seats : a.seat[k].session = g.seat[k].session /\ a.seat[k].connected = g.seat[k].connected
  BY <1>1, <1>6, Fields DEF TowlSeatState
<1>8. a.phase = "ready" /\ a.position = 0 /\ a.winner = None /\ a.round = g.round
  BY <1>1, <1>2 DEF TowlState
<1>9. h = IF all THEN [a EXCEPT !.phase = "playing", !.position = 0, !.winner = None] ELSE a
  BY DEF set_towl_ready
<1>10. /\ h \in TowlState /\ h.seat = a.seat /\ h.position = 0 /\ h.winner = None /\ h.round = g.round
       /\ h.phase = IF all THEN "playing" ELSE "ready"
  <2>1. CASE ~all
    <3>1. h = a BY <1>9, <2>1
    <3> QED BY <1>5, <1>8, <2>1, <3>1
  <2>2. CASE all
    <3>1. h = [a EXCEPT !.phase = "playing", !.position = 0, !.winner = None] BY <1>9, <2>2
    <3> HIDE DEF all
    <3> QED BY <1>5, <1>8, <2>2, <3>1, Ranges DEF TowlState
  <2> QED BY <2>1, <2>2
<1>11. SeatsCoherent(h)
  <2>1. \A k \in Seats : h.seat[k].session = g.seat[k].session BY <1>7, <1>10
  <2>2. occupied(h) = Seats BY <1>2, <2>1, Taken
  <2>3. g.seat["player1"].session # g.seat["player2"].session
    BY <1>2, Taken, Ranges DEF Good, SeatsCoherent
  <2> QED BY <1>2, <1>10, <2>1, <2>2, <2>3, Ranges DEF SeatsCoherent
<1>12. RoundCoherent(h) BY <1>10, Ranges DEF RoundCoherent
<1> QED BY <1>2, <1>7, <1>10, <1>11, <1>12 DEF Good

\* A pull moves the rope, and finishes the round where it ends.
LEMMA Pulling ==
  ASSUME NEW g, Good(g), NEW s \in Sessions, pull_ok(g, s)
  PROVE  /\ Good(pull_towl_rope(g, s))
         /\ pull_towl_rope(g, s).round = g.round
         /\ g.winner = None
         /\ \A k \in Seats :
              /\ pull_towl_rope(g, s).seat[k].session = g.seat[k].session
              /\ pull_towl_rope(g, s).seat[k].connected = g.seat[k].connected
<1> DEFINE h == pull_towl_rope(g, s)
           moved == g.position + (IF seat_for_session(g, s) = "player1" THEN 1 ELSE -1)
           position == IF moved > Win THEN Win ELSE IF moved < -Win THEN -Win ELSE moved
           winner == IF position = Win THEN "player1" ELSE IF position = -Win THEN "player2" ELSE None
<1>1. g \in TowlState BY DEF Good
<1>2. /\ g.phase = "playing" /\ g.winner = None /\ occupied(g) = Seats
      /\ \A k \in Seats : g.seat[k].session # None /\ g.seat[k].ready
      /\ g.seat["player1"].session # g.seat["player2"].session
  <2>1. g.phase = "playing" /\ occupied(g) = Seats BY DEF pull_ok
  <2>2. \A k \in Seats : g.seat[k].session # None BY <2>1, Taken
  <2>3. g.seat["player1"].session # g.seat["player2"].session
    BY <2>1, Ranges DEF Good, SeatsCoherent
  <2>4. g.winner = None /\ \A k \in Seats : g.seat[k].ready BY <2>1 DEF Good, RoundCoherent
  <2> QED BY <2>1, <2>2, <2>3, <2>4
<1>3. position \in -Win..Win
  <2>1. g.position \in -Win..Win BY <1>1, Fields
  <2> QED BY <2>1, RoomAssumption
<1>4. /\ winner \in Seats \union {None}
      /\ winner = "player1" <=> position = Win
      /\ winner = "player2" <=> position = -Win
  <2> HIDE DEF position
  <2> QED BY Ranges DEF Seats
<1>5. h = IF winner = None THEN [g EXCEPT !.position = position]
          ELSE [g EXCEPT !.phase = "finished", !.seat = unready(g), !.position = position,
                         !.winner = winner]
  BY DEF pull_towl_rope
<1> HIDE DEF position, winner, h
<1>6. CASE winner = None
  <2>1. h = [g EXCEPT !.position = position] BY <1>5, <1>6
  <2>2. h \in TowlState BY <1>1, <1>3, <2>1 DEF TowlState
  <2>3. h.phase = g.phase /\ h.seat = g.seat /\ h.position = position /\ h.winner = None /\ h.round = g.round
    BY <1>1, <1>2, <2>1 DEF TowlState
  <2>4. SeatsCoherent(h) BY <2>3 DEF SeatsCoherent, occupied, Good
  <2>5. RoundCoherent(h) BY <1>2, <1>4, <1>6, <2>3, Ranges DEF RoundCoherent
  <2> QED BY <1>2, <2>2, <2>3, <2>4, <2>5 DEF Good, h
<1>7. CASE winner # None
  <2>1. h = [g EXCEPT !.phase = "finished", !.seat = unready(g), !.position = position, !.winner = winner]
    BY <1>5, <1>7
  <2>2. h \in TowlState BY <1>1, <1>3, <1>4, <2>1, Unready, Ranges DEF TowlState
  <2>3. /\ h.phase = "finished" /\ h.seat = unready(g) /\ h.position = position /\ h.winner = winner
        /\ h.round = g.round
    BY <1>1, <2>1 DEF TowlState
  <2>4. \A k \in Seats : /\ ~h.seat[k].ready /\ h.seat[k].session = g.seat[k].session
                         /\ h.seat[k].connected = g.seat[k].connected
    BY <1>1, <2>3, Unready
  <2>5. occupied(h) = Seats BY <1>2, <2>4, Taken
  <2>6. SeatsCoherent(h) BY <1>2, <2>3, <2>4, <2>5, Ranges DEF SeatsCoherent
  <2>7. RoundCoherent(h) BY <1>4, <1>7, <2>3, <2>4, Ranges DEF RoundCoherent
  <2> QED BY <1>2, <2>2, <2>3, <2>4, <2>6, <2>7 DEF Good, h
<1> QED BY <1>6, <1>7

LEMMA Resetting ==
  ASSUME NEW g, Good(g), NEW s \in Sessions, reset_ok(g, s)
  PROVE  /\ Good(reset_towl_round(g))
         /\ reset_towl_round(g).round = g.round + 1
         /\ reset_towl_round(g).phase = "ready"
         /\ g.winner # None /\ g.seat[g.winner].session = s
         /\ \A k \in Seats :
              /\ reset_towl_round(g).seat[k].session = g.seat[k].session
              /\ reset_towl_round(g).seat[k].connected = g.seat[k].connected
<1> DEFINE h == reset_towl_round(g)
<1>1. g \in TowlState BY DEF Good
<1>2. g.phase = "finished" /\ g.winner # None /\ g.winner = seat_for_session(g, s) BY DEF reset_ok
<1>3. g.seat[g.winner].session = s BY <1>1, <1>2, SeatOf
<1>4. occupied(g) = Seats BY <1>2 DEF Good, SeatsCoherent
<1>5. \A k \in Seats : g.seat[k].session # None BY <1>4, Taken
<1>6. derive_lobby_phase(g) = "ready" BY <1>4 DEF derive_lobby_phase
<1>7. h = [g EXCEPT !.phase = "ready", !.seat = unready(g), !.position = 0, !.winner = None, !.round = @ + 1]
  BY <1>6 DEF reset_towl_round
<1>8. g.round + 1 \in Nat \ {0} BY <1>1, Fields
<1> HIDE DEF h
<1>9. h \in TowlState BY <1>1, <1>7, <1>8, Unready, Ranges DEF TowlState
<1>10. /\ h.phase = "ready" /\ h.seat = unready(g) /\ h.position = 0 /\ h.winner = None
       /\ h.round = g.round + 1
  BY <1>1, <1>7 DEF TowlState
<1>11. \A k \in Seats : /\ ~h.seat[k].ready /\ h.seat[k].session = g.seat[k].session
                        /\ h.seat[k].connected = g.seat[k].connected
  BY <1>1, <1>10, Unready
<1>12. occupied(h) = Seats BY <1>5, <1>11, Taken
<1>13. g.seat["player1"].session # g.seat["player2"].session
  BY <1>4, Ranges DEF Good, SeatsCoherent
<1>14. SeatsCoherent(h) BY <1>5, <1>10, <1>11, <1>12, <1>13, Ranges DEF SeatsCoherent
<1>15. RoundCoherent(h) BY <1>10, <1>11, Ranges DEF RoundCoherent
<1> QED BY <1>2, <1>3, <1>9, <1>10, <1>11, <1>14, <1>15 DEF Good, h

\* A session that comes or goes changes how its seat is shown, and nothing else.
LEMMA Reflected ==
  ASSUME NEW g, Good(g), NEW s \in Sessions, NEW b \in BOOLEAN
  PROVE  /\ Good(reflect_connected(g, s, b))
         /\ reflect_connected(g, s, b).round = g.round
         /\ reflect_connected(g, s, b).winner = g.winner
         /\ \A k \in Seats :
              /\ reflect_connected(g, s, b).seat[k].session = g.seat[k].session
              /\ reflect_connected(g, s, b).seat[k].connected
                   = IF g.seat[k].session = s THEN b ELSE g.seat[k].connected
<1> DEFINE w == seat_for_session(g, s)
           h == reflect_connected(g, s, b)
<1>1. g \in TowlState BY DEF Good
<1>2. CASE w = None
  <2>1. h = g BY <1>2 DEF reflect_connected
  <2>2. \A k \in Seats : g.seat[k].session # s BY <1>1, <1>2, SeatOf
  <2> QED BY <2>1, <2>2
<1>3. CASE w # None
  <2>1. w \in Seats /\ g.seat[w].session = s BY <1>1, <1>3, SeatOf
  <2>2. h = [g EXCEPT !.seat[w].connected = b] BY <1>3 DEF reflect_connected
  <2>3. [g.seat[w] EXCEPT !.connected = b] \in TowlSeatState BY <1>1, <2>1, Fields DEF TowlSeatState
  <2> HIDE DEF h, w
  <2>4. h.seat = [g.seat EXCEPT ![w] = [@ EXCEPT !.connected = b]] BY <1>1, <2>2 DEF TowlState
  <2>5. h.phase = g.phase /\ h.position = g.position /\ h.winner = g.winner /\ h.round = g.round
    BY <1>1, <2>2 DEF TowlState
  <2>6. h \in TowlState BY <1>1, <2>1, <2>2, <2>3 DEF TowlState
  <2>7. h.seat[w] = [g.seat[w] EXCEPT !.connected = b] /\ \A k \in Seats \ {w} : h.seat[k] = g.seat[k]
    BY <1>1, <2>1, <2>4 DEF TowlState
  <2>8. g.seat[w] \in TowlSeatState BY <1>1, <2>1, Fields
  <2>9. /\ h.seat[w].session = s /\ h.seat[w].connected = b /\ h.seat[w].ready = g.seat[w].ready
    BY <2>1, <2>7, <2>8 DEF TowlSeatState
  <2>10. \A k \in Seats : h.seat[k].session = g.seat[k].session /\ h.seat[k].ready = g.seat[k].ready
    BY <2>1, <2>7, <2>9
  <2>11. occupied(h) = occupied(g) BY <2>10 DEF occupied
  <2>12. \A k \in Seats : h.seat[k].session = None => h.seat[k] = VACANT_SEAT
    BY <2>7, <2>9, RoomAssumption DEF Good, SeatsCoherent
  <2>13. SeatsCoherent(h) BY <2>5, <2>10, <2>11, <2>12, Ranges DEF SeatsCoherent, Good
  <2>14. RoundCoherent(h) BY <2>5, <2>10, Ranges DEF RoundCoherent, Good
  <2>15. \A k \in Seats \ {w} : g.seat[k].session # s
    <3>1. g.seat["player1"].session = g.seat["player2"].session
            => \A k \in Seats : g.seat[k].session = None
      BY Taken DEF Good, SeatsCoherent
    <3> QED BY <2>1, <3>1, RoomAssumption DEF Seats
  <2> QED BY <2>1, <2>5, <2>6, <2>7, <2>9, <2>10, <2>13, <2>14, <2>15 DEF Good, h, w
<1> QED BY <1>2, <1>3

-----------------------------------------------------------------------------
(* Mutations.                                                              *)

Waiting ==
  /\ lag \in 0..MaxLag /\ queue \in Seq(TowlState) /\ Len(queue) <= lag
  /\ Good(game) /\ \A i \in 1..Len(queue) : Good(queue[i])

Lives == {"absent", "attached", "detached", "gone"}

\* The seats of g show who is there, if the sessions are as life says.
Present(g, life) ==
  \A k \in Seats : \A s \in Sessions :
    g.seat[k].session = s =>
      life[s] \in {"attached", "detached"} /\ (g.seat[k].connected <=> life[s] = "attached")

RoomInv ==
  /\ Waiting /\ session \in [Sessions -> Lives] /\ disposed \in BOOLEAN
  /\ PresenceMirrored

LEMMA Mutated ==
  ASSUME Waiting, lag' = lag, NEW next, Good(next), mutate(next) \/ reflect(next)
  PROVE  Waiting' /\ (lag = 0 => game' = next)
<1>1. next \in TowlState BY DEF Good
<1>2. CASE queue = << >> /\ game' = next /\ UNCHANGED queue
  BY <1>2 DEF Waiting
<1>3. CASE Len(queue) < lag /\ queue' = Append(queue, next) /\ UNCHANGED game
  <2>1. queue' \in Seq(TowlState) /\ Len(queue') = Len(queue) + 1 BY <1>1, <1>3 DEF Waiting
  <2>2. Len(queue) \in Nat /\ lag \in Nat BY DEF Waiting
  <2>3. Len(queue') <= lag' /\ lag # 0 BY <1>3, <2>1, <2>2
  <2>4. \A i \in 1..Len(queue') : Good(queue'[i])
    <3> SUFFICES ASSUME NEW i \in 1..Len(queue') PROVE Good(queue'[i])
      OBVIOUS
    <3>1. CASE i \in 1..Len(queue)
      <4>1. queue'[i] = queue[i] BY <1>1, <1>3, <3>1 DEF Waiting
      <4> QED BY <3>1, <4>1 DEF Waiting
    <3>2. CASE i = Len(queue) + 1
      <4>1. queue'[i] = next BY <1>1, <1>3, <3>2 DEF Waiting
      <4> QED BY <4>1
    <3> QED BY <2>1, <2>2, <3>1, <3>2
  <2> QED BY <1>3, <2>1, <2>3, <2>4 DEF Waiting
<1>4. CASE UNCHANGED <<game, queue>> /\ next = game
  BY <1>4 DEF Waiting
<1> QED BY <1>2, <1>3, <1>4 DEF mutate, reflect

LEMMA Presence ==
  ASSUME session \in [Sessions -> Lives]
  PROVE  PresenceMirrored <=> (lag = 0 /\ ~disposed => Present(game, session))
  BY DEF PresenceMirrored, Present

-----------------------------------------------------------------------------
(* What each kind of step needs of its transition.                         *)

LEMMA Acting ==
  ASSUME RoomInv, NEW s \in Sessions, NEW ok, NEW next, Good(next), Action(s, ok, next),
         Present(game, session) /\ session[s] = "attached" => Present(next, session)
  PROVE  RoomInv'
<1>1. Waiting' /\ (lag = 0 => game' = next) BY Mutated DEF Action, RoomInv
<1>2. session' = session /\ disposed' = disposed /\ lag' = lag /\ session[s] = "attached" /\ ~disposed
  BY DEF Action
<1>3. lag = 0 => Present(game, session) BY <1>2, Presence DEF RoomInv
<1>4. lag = 0 => Present(game, session)'
  BY <1>1, <1>2, <1>3 DEF Present
<1>5. PresenceMirrored' BY <1>2, <1>4 DEF PresenceMirrored, Present
<1> QED BY <1>1, <1>2, <1>5 DEF RoomInv

LEMMA Living ==
  ASSUME RoomInv, NEW s \in Sessions, NEW from \in SUBSET Lives, NEW to \in Lives, NEW next,
         Good(next), LifecycleEvent(s, from, to, next),
         Present(game, session) => Present(next, [session EXCEPT ![s] = to])
  PROVE  RoomInv'
<1>1. Waiting' /\ (lag = 0 => game' = next) BY Mutated DEF LifecycleEvent, RoomInv
<1>2. session' = [session EXCEPT ![s] = to] /\ disposed' = disposed /\ lag' = lag /\ ~disposed
  BY DEF LifecycleEvent
<1>3. lag = 0 => Present(game, session) BY <1>2, Presence DEF RoomInv
<1>4. lag = 0 => Present(game, session)'
  BY <1>1, <1>2, <1>3 DEF Present
<1>5. PresenceMirrored' BY <1>2, <1>4 DEF PresenceMirrored, Present
<1>6. session' \in [Sessions -> Lives] BY <1>2 DEF RoomInv
<1> QED BY <1>1, <1>2, <1>5, <1>6 DEF RoomInv

LEMMA Kept ==
  ASSUME NEW g, NEW h, NEW life, Present(g, life),
         \A k \in Seats : h.seat[k].session = g.seat[k].session /\ h.seat[k].connected = g.seat[k].connected
  PROVE  Present(h, life)
  BY DEF Present

LEMMA Removing ==
  ASSUME NEW g, Good(g), NEW s \in Sessions
  PROVE  /\ Good(remove_towl_session(g, s))
         /\ remove_towl_session(g, s).round = g.round
         /\ \/ remove_towl_session(g, s) = g
            \/ occupied(remove_towl_session(g, s)) # Seats
         /\ \A life \in [Sessions -> Lives] :
              Present(g, life) => Present(remove_towl_session(g, s), [life EXCEPT ![s] = "gone"])
<1> DEFINE h == remove_towl_session(g, s)
<1>1. g \in TowlState BY DEF Good
<1>2. CASE seat_for_session(g, s) = None
  <2>1. h = g BY <1>2 DEF remove_towl_session
  <2>2. \A k \in Seats : g.seat[k].session # s BY <1>1, <1>2, SeatOf
  <2>3. \A life \in [Sessions -> Lives] : Present(g, life) => Present(h, [life EXCEPT ![s] = "gone"])
    BY <2>1, <2>2 DEF Present
  <2> QED BY <2>1, <2>3
<1>3. CASE seat_for_session(g, s) # None
  <2>1. h = leave_towl_session(g, s) BY <1>3 DEF remove_towl_session
  <2>2. Good(h) /\ h.round = g.round /\ occupied(h) # Seats BY <1>3, <2>1, Leaving
  <2>3. \A k \in Seats :
          IF k = seat_for_session(g, s) THEN h.seat[k].session = None
          ELSE h.seat[k].session = g.seat[k].session /\ h.seat[k].connected = g.seat[k].connected
    BY <1>3, <2>1, Leaving
  <2> HIDE DEF h
  <2>4. g.seat["player1"].session = g.seat["player2"].session => \A k \in Seats : g.seat[k].session = None
    BY Taken DEF Good, SeatsCoherent
  <2>5. \A k \in Seats : g.seat[k].session = s => k = seat_for_session(g, s)
    BY <1>1, <1>3, <2>4, SeatOf, RoomAssumption DEF Seats
  <2>6. \A k \in Seats : h.seat[k].session # s
    BY <2>3, <2>5, RoomAssumption
  <2>7. \A life \in [Sessions -> Lives] : Present(g, life) => Present(h, [life EXCEPT ![s] = "gone"])
    BY <2>3, <2>6, RoomAssumption DEF Present
  <2> QED BY <2>2, <2>7 DEF h
<1> QED BY <1>2, <1>3

LEMMA Shown ==
  ASSUME NEW g, Good(g), NEW s \in Sessions, NEW b \in BOOLEAN, NEW life \in [Sessions -> Lives],
         Present(g, life), NEW to \in {"attached", "detached"}, b <=> to = "attached"
  PROVE  Present(reflect_connected(g, s, b), [life EXCEPT ![s] = to])
<1> DEFINE h == reflect_connected(g, s, b)
<1>1. \A k \in Seats : /\ h.seat[k].session = g.seat[k].session
                       /\ h.seat[k].connected = IF g.seat[k].session = s THEN b ELSE g.seat[k].connected
  BY Reflected
<1> HIDE DEF h
<1>2. ASSUME NEW k \in Seats, NEW t \in Sessions, h.seat[k].session = t
      PROVE  LET next == [life EXCEPT ![s] = to]
             IN next[t] \in {"attached", "detached"} /\ (h.seat[k].connected <=> next[t] = "attached")
  <2>1. CASE t = s BY <1>1, <1>2, <2>1
  <2>2. CASE t # s BY <1>1, <1>2, <2>2 DEF Present
  <2> QED BY <2>1, <2>2
<1> QED BY <1>2 DEF Present, h

-----------------------------------------------------------------------------
(* Every step keeps the invariant.                                         *)

LEMMA Begins == GameInit => RoomInv
<1> SUFFICES ASSUME GameInit PROVE RoomInv
  OBVIOUS
<1>1. game = create_towl_state /\ queue = << >> /\ lag \in 0..MaxLag /\ disposed = FALSE
  BY DEF GameInit
<1>2. session \in [Sessions -> Lives] BY DEF GameInit, Lives
<1>3. \A k \in Seats : game.seat[k] = VACANT_SEAT BY <1>1 DEF create_towl_state
<1>4. PresenceMirrored BY <1>3, RoomAssumption DEF PresenceMirrored, VACANT_SEAT
<1>5. Good(game) BY <1>1, Created
<1>6. queue \in Seq(TowlState) /\ Len(queue) <= lag /\ \A i \in 1..Len(queue) : Good(queue[i])
  BY <1>1, RoomAssumption
<1> QED BY <1>1, <1>2, <1>4, <1>5, <1>6 DEF RoomInv, Waiting

LEMMA ComesAndGoes ==
  ASSUME RoomInv, NEW s \in Sessions, Attached(s) \/ Detached(s) \/ Expired(s) \/ Goodbye(s)
  PROVE  RoomInv'
<1>1. Good(game) /\ session \in [Sessions -> Lives] BY DEF RoomInv, Waiting
<1>2. CASE Attached(s)
  <2>1. Good(reflect_connected(game, s, TRUE)) BY <1>1, Reflected
  <2>2. Present(game, session)
          => Present(reflect_connected(game, s, TRUE), [session EXCEPT ![s] = "attached"])
    BY <1>1, Shown
  <2> QED BY <1>2, <2>1, <2>2, Living DEF Attached, Lives
<1>3. CASE Detached(s)
  <2>1. Good(reflect_connected(game, s, FALSE)) BY <1>1, Reflected
  <2>2. Present(game, session)
          => Present(reflect_connected(game, s, FALSE), [session EXCEPT ![s] = "detached"])
    BY <1>1, Shown
  <2> QED BY <1>3, <2>1, <2>2, Living DEF Detached, Lives
<1>4. Good(remove_towl_session(game, s)) BY <1>1, Removing
<1>5. Present(game, session) => Present(remove_towl_session(game, s), [session EXCEPT ![s] = "gone"])
  BY <1>1, Removing
<1>6. CASE Expired(s) BY <1>4, <1>5, <1>6, Living DEF Expired, Lives
<1>7. CASE Goodbye(s) BY <1>4, <1>5, <1>7, Living DEF Goodbye, Lives
<1> QED BY <1>2, <1>3, <1>6, <1>7

LEMMA Plays ==
  ASSUME RoomInv, NEW s \in Sessions,
         \/ join(s) \/ leave_seat(s) \/ pull(s) \/ reset_round(s)
         \/ \E ready \in BOOLEAN : set_ready(s, ready)
  PROVE  RoomInv'
<1>1. Good(game) BY DEF RoomInv, Waiting
<1>2. CASE join(s)
  <2>1. join_ok(game, s) BY <1>2 DEF join, Action
  <2> DEFINE h == join_towl_session(game, s)
  <2>2. /\ Good(h)
        /\ \A k \in Seats : IF k = vacant_seat(game) THEN h.seat[k].session = s /\ h.seat[k].connected
                            ELSE h.seat[k] = game.seat[k]
    BY <1>1, <2>1, Joining
  <2>3. Action(s, join_ok(game, s), h) BY <1>2 DEF join
  <2> HIDE DEF h
  <2>4. Present(game, session) /\ session[s] = "attached" => Present(h, session)
    BY <2>2 DEF Present
  <2> QED BY <2>2, <2>3, <2>4, Acting
<1>3. CASE leave_seat(s)
  <2>1. seat_for_session(game, s) # None BY <1>3 DEF leave_seat, Action
  <2> DEFINE h == leave_towl_session(game, s)
  <2>2. /\ Good(h)
        /\ \A k \in Seats :
             IF k = seat_for_session(game, s) THEN h.seat[k].session = None
             ELSE h.seat[k].session = game.seat[k].session /\ h.seat[k].connected = game.seat[k].connected
    BY <1>1, <2>1, Leaving
  <2>3. Action(s, seat_for_session(game, s) # None, h) BY <1>3 DEF leave_seat
  <2> HIDE DEF h
  <2>4. Present(game, session) /\ session[s] = "attached" => Present(h, session)
    BY <2>2, RoomAssumption DEF Present
  <2> QED BY <2>2, <2>3, <2>4, Acting
<1>4. CASE pull(s)
  <2>1. pull_ok(game, s) BY <1>4 DEF pull, Action
  <2>2. Action(s, pull_ok(game, s), pull_towl_rope(game, s)) BY <1>4 DEF pull
  <2>3. Good(pull_towl_rope(game, s)) BY <1>1, <2>1, Pulling
  <2>4. Present(game, session) => Present(pull_towl_rope(game, s), session)
    BY <1>1, <2>1, Pulling, Kept
  <2> QED BY <2>2, <2>3, <2>4, Acting
<1>5. CASE reset_round(s)
  <2>1. reset_ok(game, s) BY <1>5 DEF reset_round, Action
  <2>2. Action(s, reset_ok(game, s) /\ game.round < MaxRound, reset_towl_round(game))
    BY <1>5 DEF reset_round
  <2>3. Good(reset_towl_round(game)) BY <1>1, <2>1, Resetting
  <2>4. Present(game, session) => Present(reset_towl_round(game), session)
    BY <1>1, <2>1, Resetting, Kept
  <2> QED BY <2>2, <2>3, <2>4, Acting
<1>6. ASSUME NEW ready \in BOOLEAN, set_ready(s, ready) PROVE RoomInv'
  <2>1. seat_for_session(game, s) # None /\ game.phase = "ready" BY <1>6 DEF set_ready, Action
  <2>2. Action(s, seat_for_session(game, s) # None /\ game.phase = "ready", set_towl_ready(game, s, ready))
    BY <1>6 DEF set_ready
  <2>3. Good(set_towl_ready(game, s, ready)) BY <1>1, <2>1, Readying
  <2>4. Present(game, session) => Present(set_towl_ready(game, s, ready), session)
    BY <1>1, <2>1, Readying, Kept
  <2> QED BY <2>2, <2>3, <2>4, Acting
<1> QED BY <1>2, <1>3, <1>4, <1>5, <1>6

LEMMA Commits == ASSUME RoomInv, Commit PROVE RoomInv'
<1>1. queue \in Seq(TowlState) /\ queue # << >> BY DEF Commit, RoomInv, Waiting
<1>2. game' = Head(queue) /\ queue' = Tail(queue) /\ lag' = lag BY DEF Commit
<1>3. Len(queue) \in Nat /\ Len(queue) # 0 BY <1>1
<1>4. game' = queue[1] /\ 1 \in 1..Len(queue) BY <1>1, <1>2, <1>3
<1>5. Good(game)' BY <1>4 DEF RoomInv, Waiting
<1>6. /\ queue' \in Seq(TowlState) /\ Len(queue') = Len(queue) - 1
      /\ \A i \in 1..Len(queue') : queue'[i] = queue[i + 1]
  BY <1>1, <1>2
<1>7. \A i \in 1..Len(queue') : Good(queue'[i])
  <2> SUFFICES ASSUME NEW i \in 1..Len(queue') PROVE Good(queue'[i])
    OBVIOUS
  <2>1. i + 1 \in 1..Len(queue) BY <1>3, <1>6
  <2> QED BY <1>6, <2>1 DEF RoomInv, Waiting
<1>8. lag \in Nat /\ Len(queue) <= lag BY DEF RoomInv, Waiting
<1>9. Len(queue') <= lag' /\ lag # 0 BY <1>2, <1>3, <1>6, <1>8
<1>10. Waiting' BY <1>2, <1>5, <1>6, <1>7, <1>9 DEF RoomInv, Waiting
<1>11. PresenceMirrored' BY <1>2, <1>9 DEF PresenceMirrored
<1> QED BY <1>10, <1>11 DEF RoomInv, Commit

LEMMA RoomStep == RoomInv /\ [GameNext]_gameVars => RoomInv'
<1> SUFFICES ASSUME RoomInv, [GameNext]_gameVars PROVE RoomInv'
  OBVIOUS
<1>1. CASE dispose_room
  BY <1>1 DEF dispose_room, RoomInv, Waiting, PresenceMirrored
<1>2. CASE UNCHANGED gameVars
  BY <1>2 DEF gameVars, RoomInv, Waiting, PresenceMirrored
<1> QED BY <1>1, <1>2, ComesAndGoes, Plays, Commits DEF GameNext

\* A step of a room that commits mutations in the turn that computes them.
LEMMA Turn ==
  ASSUME RoomInv, lag = 0, [GameNext]_gameVars
  PROVE  WinKept
<1>1. Good(game) /\ queue = << >> /\ Waiting
  <2>1. Len(queue) = 0 BY DEF RoomInv, Waiting
  <2> QED BY <2>1 DEF RoomInv, Waiting
<1>2. ASSUME NEW next, Good(next), mutate(next) \/ reflect(next), lag' = lag PROVE game' = next
  BY <1>1, <1>2, Mutated
<1>3. ASSUME NEW s \in Sessions, Attached(s) \/ Detached(s) PROVE WinKept
  <2>1. PICK b \in BOOLEAN : reflect(reflect_connected(game, s, b)) /\ lag' = lag
    BY <1>3 DEF Attached, Detached, LifecycleEvent
  <2>2. game' = reflect_connected(game, s, b) BY <1>1, <1>2, <2>1, Reflected
  <2>3. game'.winner = game.winner /\ game'.round = game.round BY <1>1, <2>2, Reflected
  <2> QED BY <2>3 DEF WinKept
<1>4. ASSUME NEW s \in Sessions, Expired(s) \/ Goodbye(s) PROVE WinKept
  <2>1. reflect(remove_towl_session(game, s)) /\ lag' = lag
    BY <1>4 DEF Expired, Goodbye, LifecycleEvent
  <2>2. game' = remove_towl_session(game, s) BY <1>1, <1>2, <2>1, Removing
  <2>3. game'.round = game.round /\ (game' = game \/ occupied(game') # Seats)
    BY <1>1, <2>2, Removing
  <2> QED BY <2>3 DEF WinKept
<1>5. ASSUME NEW s \in Sessions, join(s) PROVE WinKept
  <2>1. join_ok(game, s) /\ mutate(join_towl_session(game, s)) /\ lag' = lag
    BY <1>5 DEF join, Action
  <2>2. game' = join_towl_session(game, s) BY <1>1, <1>2, <2>1, Joining
  <2>3. game.winner = None /\ game'.round = game.round BY <1>1, <2>1, <2>2, Joining
  <2> QED BY <2>3 DEF WinKept
<1>6. ASSUME NEW s \in Sessions, leave_seat(s) PROVE WinKept
  <2>1. seat_for_session(game, s) # None /\ mutate(leave_towl_session(game, s)) /\ lag' = lag
    BY <1>6 DEF leave_seat, Action
  <2>2. game' = leave_towl_session(game, s) BY <1>1, <1>2, <2>1, Leaving
  <2>3. game'.round = game.round /\ occupied(game') # Seats BY <1>1, <2>1, <2>2, Leaving
  <2> QED BY <2>3 DEF WinKept
<1>7. ASSUME NEW s \in Sessions, pull(s) PROVE WinKept
  <2>1. pull_ok(game, s) /\ mutate(pull_towl_rope(game, s)) /\ lag' = lag
    BY <1>7 DEF pull, Action
  <2>2. game' = pull_towl_rope(game, s) BY <1>1, <1>2, <2>1, Pulling
  <2>3. game.winner = None /\ game'.round = game.round BY <1>1, <2>1, <2>2, Pulling
  <2> QED BY <2>3 DEF WinKept
<1>8. ASSUME NEW s \in Sessions, reset_round(s) PROVE WinKept
  <2>1. reset_ok(game, s) /\ mutate(reset_towl_round(game)) /\ lag' = lag
    BY <1>8 DEF reset_round, Action
  <2>2. game' = reset_towl_round(game) BY <1>1, <1>2, <2>1, Resetting
  <2>3. /\ game'.round = game.round + 1 /\ game'.phase = "ready"
        /\ game.winner # None /\ game.seat[game.winner].session = s
    BY <1>1, <2>1, <2>2, Resetting
  <2> QED BY <1>8, <2>3 DEF WinKept
<1>9. ASSUME NEW s \in Sessions, NEW ready \in BOOLEAN, set_ready(s, ready) PROVE WinKept
  <2>1. /\ seat_for_session(game, s) # None /\ game.phase = "ready"
        /\ mutate(set_towl_ready(game, s, ready)) /\ lag' = lag
    BY <1>9 DEF set_ready, Action
  <2>2. game' = set_towl_ready(game, s, ready) BY <1>1, <1>2, <2>1, Readying
  <2>3. game.winner = None /\ game'.round = game.round BY <1>1, <2>1, <2>2, Readying
  <2> QED BY <2>3 DEF WinKept
<1>10. ~Commit BY <1>1 DEF Commit
<1>11. CASE game' = game BY <1>11 DEF WinKept
<1> QED BY <1>3, <1>4, <1>5, <1>6, <1>7, <1>8, <1>9, <1>10, <1>11 DEF GameNext, dispose_room, gameVars

-----------------------------------------------------------------------------
LEMMA RoomInvariant == GameSpec => []RoomInv
  BY Begins, RoomStep, PTL DEF GameSpec

(* Every variable of a room keeps its range: towl.transitions.ts returns   *)
(* what TowlState allows, whatever the sessions do.                        *)
THEOREM RoomTyped == GameSpec => []GameTypeOK
<1>1. RoomInv => GameTypeOK BY DEF RoomInv, Waiting, Good, GameTypeOK, Lives
<1> QED BY <1>1, RoomInvariant, PTL

(* In every committed state phase, seats, readiness, position and winner   *)
(* agree, also if mutations overwrite each other (towl.runtime.ts).        *)
THEOREM RoomCoherent == GameSpec => []Coherent
<1>1. RoomInv => Coherent BY DEF RoomInv, Waiting, Good, Coherent
<1> QED BY <1>1, RoomInvariant, PTL

(* Committed in their turn, the reflections of the sessions' lives keep    *)
(* the seats true to who is there (towl.runtime.ts).                       *)
THEOREM RoomMirrors == GameSpec => []PresenceMirrored
<1>1. RoomInv => PresenceMirrored BY DEF RoomInv
<1> QED BY <1>1, RoomInvariant, PTL

(* Committed in its turn, no operation takes a win from who has it.        *)
THEOREM RoomKeepsWins == GameSpec => WinStands
<1>1. RoomInv /\ [GameNext]_gameVars => [lag = 0 => WinKept]_gameVars
  BY Turn
<1> QED BY <1>1, RoomInvariant, PTL DEF GameSpec, WinStands

-----------------------------------------------------------------------------
(* What the players are told.                                              *)

\* Which seat is whose, from the seats alone.
LEMMA SeatIs ==
  ASSUME NEW g \in TowlState, NEW s \in Sessions, NEW k \in Seats, g.seat[k].session = s,
         \A j \in Seats \ {k} : g.seat[j].session # s
  PROVE  seat_for_session(g, s) = k
  BY SeatOf

\* The sessions of the seats tell who sits where.
LEMMA SameSeat ==
  ASSUME NEW g \in TowlState, NEW h \in TowlState, NEW s \in Sessions,
         \A k \in Seats : h.seat[k].session = g.seat[k].session
  PROVE  seat_for_session(h, s) = seat_for_session(g, s)
  BY DEF seat_for_session, Seats

LEMMA JoinTold ==
  ASSUME NEW g, Good(g), NEW s \in Sessions, join_ok(g, s)
  PROVE  decode_join_result(result_join(g, s)) = [seat |-> seat_for_state(join_towl_session(g, s), s)]
<1> DEFINE w == vacant_seat(g)
           h == join_towl_session(g, s)
           r == result_join(g, s)
<1>1. g \in TowlState BY DEF Good
<1>2. w \in Seats BY Ranges DEF vacant_seat
<1>3. /\ Good(h)
      /\ \A j \in Seats : IF j = w THEN h.seat[j].session = s /\ h.seat[j].connected
                           ELSE h.seat[j] = g.seat[j]
  BY Joining
<1>4. \A j \in Seats : g.seat[j].session # s BY <1>1, SeatOf DEF join_ok
<1>5. h \in TowlState BY <1>3 DEF Good
<1> HIDE DEF h
<1>6. seat_for_session(h, s) = w BY <1>2, <1>3, <1>4, <1>5, SeatIs
<1> HIDE DEF w
<1>7. r = [seat |-> w] BY DEF result_join, w
<1>8. DOMAIN r = {"seat"} /\ seated(r) BY <1>2, <1>7 DEF seated
<1> HIDE DEF r
<1>9. decode_join_result(r) = r BY <1>8 DEF decode_join_result, decoded_as
<1> QED BY <1>6, <1>7, <1>9 DEF seat_for_state, r, h

LEMMA LeaveTold ==
  ASSUME NEW g, Good(g), NEW s \in Sessions, seat_for_session(g, s) # None
  PROVE  LET left == decode_leave_result(result_leave(g, s))
         IN left # Invalid /\ leave_towl_session(g, s).seat[left.seat] = VACANT_SEAT
<1> DEFINE k == seat_for_session(g, s)
           h == leave_towl_session(g, s)
           r == result_leave(g, s)
<1>1. k \in Seats BY SeatOf DEF Good
<1>2. Good(h) /\ h.seat[k].session = None BY <1>1, Leaving
<1>3. h.seat[k] = VACANT_SEAT BY <1>1, <1>2 DEF Good, SeatsCoherent
<1> HIDE DEF k, h
<1>4. r = [seat |-> k] BY DEF result_leave, k
<1>5. DOMAIN r = {"seat"} /\ seated(r) BY <1>1, <1>4 DEF seated
<1> HIDE DEF r
<1>6. decode_leave_result(r) = r /\ r # Invalid
  BY <1>5 DEF decode_leave_result, decoded_as, Invalid
<1> QED BY <1>3, <1>4, <1>6 DEF r, h

LEMMA ReadyTold ==
  ASSUME NEW g, Good(g), NEW s \in Sessions, NEW ready \in BOOLEAN,
         seat_for_session(g, s) # None, g.phase = "ready"
  PROVE  LET told == decode_ready_result(result_ready(g, s, ready))
             next == set_towl_ready(g, s, ready)
         IN told # Invalid /\ (next.phase = "playing" \/ next.seat[told.seat].ready = told.ready)
<1> DEFINE k == seat_for_session(g, s)
           a == [g EXCEPT !.seat[k].ready = ready]
           h == set_towl_ready(g, s, ready)
           r == result_ready(g, s, ready)
           all == \A j \in Seats : a.seat[j].ready
<1>1. g \in TowlState /\ k \in Seats BY SeatOf DEF Good
<1>2. a.seat = [g.seat EXCEPT ![k] = [@ EXCEPT !.ready = ready]] BY <1>1 DEF TowlState
<1>3. a.seat[k].ready = ready BY <1>1, <1>2, Fields DEF TowlSeatState
<1>4. h = IF all THEN [a EXCEPT !.phase = "playing", !.position = 0, !.winner = None] ELSE a
  BY DEF set_towl_ready
<1>5. DOMAIN a = {"phase", "seat", "position", "winner", "round"} BY <1>1 DEF TowlState
<1> HIDE DEF a, h, all
<1>6. h.phase = "playing" \/ h.seat[k].ready = ready BY <1>3, <1>4, <1>5
<1> HIDE DEF k
<1>7. r = [seat |-> k, ready |-> ready] BY DEF result_ready, k
<1>8. DOMAIN r = {"seat", "ready"} /\ seated(r) /\ r.ready \in BOOLEAN BY <1>1, <1>7 DEF seated
<1> HIDE DEF r
<1>9. decode_ready_result(r) = r /\ r # Invalid
  BY <1>8 DEF decode_ready_result, decoded_as, Invalid
<1>10. r.seat = k /\ r.ready = ready BY <1>7
<1> QED BY <1>6, <1>9, <1>10 DEF r, h

LEMMA PullTold ==
  ASSUME NEW g, Good(g), NEW s \in Sessions, pull_ok(g, s)
  PROVE  LET told == decode_pull_result(result_pull(g, s))
             next == pull_towl_rope(g, s)
         IN /\ told.position = next.position /\ told.winner = next.winner
            /\ seat_for_state(next, s) = told.seat
<1> DEFINE k == seat_for_session(g, s)
           h == pull_towl_rope(g, s)
           r == result_pull(g, s)
<1>1. g \in TowlState /\ k \in Seats BY SeatOf DEF Good, pull_ok
<1>2. Good(h) /\ \A j \in Seats : h.seat[j].session = g.seat[j].session BY Pulling
<1>3. h \in TowlState BY <1>2 DEF Good
<1> HIDE DEF h
<1>4. seat_for_session(h, s) = k BY <1>1, <1>2, <1>3, SameSeat
<1>5. h.position \in Int /\ h.winner \in Seats \union {None} BY <1>3, Fields, RoomAssumption
<1> HIDE DEF k
<1>6. r = [seat |-> k, position |-> h.position, winner |-> h.winner] BY DEF result_pull, k, h
<1>7. /\ DOMAIN r = {"seat", "position", "winner"} /\ seated(r)
      /\ r.position \in Int /\ r.winner \in Seats \union {None}
  BY <1>1, <1>5, <1>6 DEF seated
<1> HIDE DEF r
<1>8. decode_pull_result(r) = r BY <1>7 DEF decode_pull_result, decoded_as
<1>9. r.seat = k /\ r.position = h.position /\ r.winner = h.winner BY <1>6
<1> QED BY <1>4, <1>8, <1>9 DEF seat_for_state, r, h

LEMMA ResetTold ==
  ASSUME NEW g, Good(g), NEW s \in Sessions, reset_ok(g, s)
  PROVE  decode_reset_result(result_reset(g)).round = reset_towl_round(g).round
<1> DEFINE h == reset_towl_round(g)
           r == result_reset(g)
<1>1. g.round \in Nat \ {0} /\ h.round = g.round + 1 BY Fields, Resetting DEF Good
<1>2. h.round \in Nat /\ h.round >= 1 BY <1>1
<1> HIDE DEF h
<1>3. r = [round |-> h.round] BY DEF result_reset, h
<1>4. DOMAIN r = {"round"} /\ r.round = h.round BY <1>3
<1> HIDE DEF r
<1>5. decode_reset_result(r) = r BY <1>2, <1>4 DEF decode_reset_result, decoded_as
<1> QED BY <1>4, <1>5 DEF r, h

(* Whoever acts in a room is told what happened there: the results of      *)
(* towl.runtime.ts pass the decoders of towl.client.ts in every state of   *)
(* the room, and say what the client then finds in its mirror.             *)
THEOREM RoomTells == GameSpec => []AnswersTrue
<1>1. RoomInv => AnswersTrue
  <2> SUFFICES ASSUME RoomInv PROVE AnswersTrue OBVIOUS
  <2>1. Good(game) BY DEF RoomInv, Waiting
  <2>2. ASSUME NEW s \in Sessions, join_ok(game, s)
        PROVE  decode_join_result(result_join(game, s)) = [seat |-> seat_for_state(join_towl_session(game, s), s)]
    BY <2>1, <2>2, JoinTold
  <2>3. ASSUME NEW s \in Sessions, seat_for_session(game, s) # None
        PROVE  LET left == decode_leave_result(result_leave(game, s))
               IN left # Invalid /\ leave_towl_session(game, s).seat[left.seat] = VACANT_SEAT
    BY <2>1, <2>3, LeaveTold
  <2>4. ASSUME NEW s \in Sessions, seat_for_session(game, s) # None, game.phase = "ready",
               NEW ready \in BOOLEAN
        PROVE  LET told == decode_ready_result(result_ready(game, s, ready))
                   next == set_towl_ready(game, s, ready)
               IN told # Invalid /\ (next.phase = "playing" \/ next.seat[told.seat].ready = told.ready)
    BY <2>1, <2>4, ReadyTold
  <2>5. ASSUME NEW s \in Sessions, pull_ok(game, s)
        PROVE  LET told == decode_pull_result(result_pull(game, s))
                   next == pull_towl_rope(game, s)
               IN /\ told.position = next.position /\ told.winner = next.winner
                  /\ seat_for_state(next, s) = told.seat
    BY <2>1, <2>5, PullTold
  <2>6. ASSUME NEW s \in Sessions, reset_ok(game, s)
        PROVE  decode_reset_result(result_reset(game)).round = reset_towl_round(game).round
    BY <2>1, <2>6, ResetTold
  <2> QED BY <2>2, <2>3, <2>4, <2>5, <2>6 DEF AnswersTrue
<1> QED BY <1>1, RoomInvariant, PTL

-----------------------------------------------------------------------------
(* Room and panel in one instance: what each keeps, both keep.             *)

LEMMA BothStep == [TowlNext]_towl => [PanelNext]_panelVars /\ [GameNext]_gameVars
BY DEF TowlNext, towl

(* Room and panel keep their types in every behaviour of the two:          *)
(* attempts, transports and clients of towl.connection.ts stay within what *)
(* the reconnection loops allow, the credential stored is one that was     *)
(* issued, and no more mutations of towl.runtime.ts wait than may.         *)
THEOREM BothTyped == TowlSpec => []TowlTypeOK
<1> DEFINE Inv == PanelTyped /\ RoomInv
<1>1. TowlInit => Inv BY PanelTypedBegins, Begins DEF TowlInit
<1>2. Inv /\ [TowlNext]_towl => Inv' BY BothStep, PanelTypedStep, RoomStep
<1>3. Inv => TowlTypeOK
  <2>1. RoomInv => GameTypeOK BY DEF RoomInv, Waiting, Good, GameTypeOK, Lives
  <2> QED BY <2>1, PanelTypes DEF TowlTypeOK
<1> HIDE DEF Inv
<1> QED BY <1>1, <1>2, <1>3, PTL DEF TowlSpec
=============================================================================
