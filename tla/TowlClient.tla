------------------------------ MODULE TowlClient ------------------------------
(***************************************************************************)
(* What an action of the TOWL room returns to the player who asked for it  *)
(* and how towl.client.ts reads it: the results the transitions accept     *)
(* with, and the decoders that take nothing else.                          *)
(***************************************************************************)
EXTENDS TowlGame

Invalid == [invalid |-> TRUE]

\* A record decoded: it has these keys, and its values are what they must be.
decoded_as(record, keys, valid) == IF DOMAIN record = keys /\ valid THEN record ELSE Invalid

\* result_seat of a member.
seated(record) == "seat" \in DOMAIN record /\ record.seat \in Seats

decode_join_result(record) == decoded_as(record, {"seat"}, seated(record))
decode_leave_result(record) == decoded_as(record, {"seat"}, seated(record))
decode_ready_result(record) ==
  decoded_as(record, {"seat", "ready"}, seated(record) /\ record.ready \in BOOLEAN)
decode_pull_result(record) ==
  decoded_as(record, {"seat", "position", "winner"},
             seated(record) /\ record.position \in Int /\ record.winner \in Seats \union {None})
decode_reset_result(record) == decoded_as(record, {"round"}, record.round \in Nat /\ record.round >= 1)

\* The results of the transitions, of the state they compute.
result_join(g, s) == [seat |-> vacant_seat(g)]
result_leave(g, s) == [seat |-> seat_for_session(g, s)]
result_ready(g, s, ready) == [seat |-> seat_for_session(g, s), ready |-> ready]

\* Mutant: the result is read from the state before the pull.
result_pull_before(g, s) == [seat |-> seat_for_session(g, s), position |-> g.position, winner |-> g.winner]

result_pull(g, s) ==
  LET next == pull_towl_rope(g, s)
  IN [seat |-> seat_for_session(g, s), position |-> next.position, winner |-> next.winner]

result_reset(g) == [round |-> reset_towl_round(g).round]

\* The seat a client shows as its own, of the state in its mirror.
seat_for_state(g, s) == seat_for_session(g, s)

-----------------------------------------------------------------------------
(* Whoever acts is told what happened: in every state of the room an       *)
(* action it allows returns a result the client accepts, and committed, it *)
(* is what the client then finds in its mirror: the seat joined is the     *)
(* seat it shows, the seat left is vacant, a readiness that starts the     *)
(* round is not taken for one that is awaited, the position and the winner *)
(* are the room's, and so is the round.                                    *)
AnswersTrue ==
  \A s \in Sessions :
    /\ join_ok(game, s) =>
         decode_join_result(result_join(game, s)) = [seat |-> seat_for_state(join_towl_session(game, s), s)]
    /\ seat_for_session(game, s) # None =>
         LET left == decode_leave_result(result_leave(game, s))
         IN left # Invalid /\ leave_towl_session(game, s).seat[left.seat] = VACANT_SEAT
    /\ seat_for_session(game, s) # None /\ game.phase = "ready" => \A ready \in BOOLEAN :
         LET told == decode_ready_result(result_ready(game, s, ready))
             next == set_towl_ready(game, s, ready)
         IN told # Invalid /\ (next.phase = "playing" \/ next.seat[told.seat].ready = told.ready)
    /\ pull_ok(game, s) =>
         LET told == decode_pull_result(result_pull(game, s))
             next == pull_towl_rope(game, s)
         IN /\ told.position = next.position /\ told.winner = next.winner
            /\ seat_for_state(next, s) = told.seat
    /\ reset_ok(game, s) => decode_reset_result(result_reset(game)).round = reset_towl_round(game).round
=============================================================================
