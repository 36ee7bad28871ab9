------------------------------ MODULE TowlPanel ------------------------------
(***************************************************************************)
(* The TOWL panel, mount-towl.ts, over the connection controller: which    *)
(* room the address asks for, what the buttons allow, and the requests the *)
(* panel itself has pending.  The buttons follow two callbacks of the      *)
(* controller, onConnection and onState, and stay as the last one left     *)
(* them; a click on a disabled button does nothing.                        *)
(***************************************************************************)
EXTENDS TowlConnection

VARIABLE v
panelVars == <<c, v>>

GameActions == {"join", "ready", "pull", "reset"}
\* What a governed state offers the local session, by its seat and the phase:
\* the conditions of render_state on the four buttons.
Offers == {{}, {"join"}, {"ready"}, {"pull"}, {"reset"}}

-----------------------------------------------------------------------------
(* onConnection and onState, and the connection steps that call them.      *)

\* Mutant: the buttons wait for the next state to be disabled.
render_connection_lazy(k, next) ==
  IF k.content # "room" \/ k.leavePending THEN k
  ELSE [k EXCEPT !.reconnect = next.status = "failed" /\ ~k.manualReconnectPending]

render_connection(k, next) ==
  IF k.content # "room" \/ k.leavePending THEN k
  ELSE [k EXCEPT !.reconnect = next.status = "failed" /\ ~k.manualReconnectPending,
                 !.buttons = IF next.status = "connected" THEN @ ELSE {}]

\* The controller's client getter.
has_client(k) == k.shown.status = "connected" /\ k.leave = "none"

render_state(k, controller) ==
  IF k.content # "room" THEN k
  ELSE [k EXCEPT !.buttons = IF has_client(controller) THEN k.offer ELSE {}]

\* After a step of the controller: what it published, and the state it hands
\* over when it has just connected.
rendered(k, was, now) ==
  LET told == IF now.shown = was.shown THEN k ELSE render_connection(k, now.shown)
  IN IF now.shown.status = "connected" /\ was.shown.status # "connected"
     THEN render_state(told, now) ELSE told

Controller ==
  /\ v.mounted
  /\ Answers \/ Departure \/ \E t \in Ids : Closed(t)
  /\ v' = rendered(v, c, c')

\* A committed mutation reaches the mirror, through whichever client is live.
MirrorChanges(offer) ==
  /\ v.content = "room" /\ ~c.disposed
  /\ \E t \in Ids : c.client[t] = "live"
  /\ v' = render_state([v EXCEPT !.offer = offer], c)
  /\ UNCHANGED c

-----------------------------------------------------------------------------
(* Clicks, and what they wait for.                                         *)

run_action(name) ==
  /\ v.content = "room" /\ name \in v.buttons
  /\ v.pending # name /\ has_client(c)
  /\ v' = [v EXCEPT !.pending = name]
  /\ UNCHANGED c

\* The action returned, was rejected, or its connection is gone.
ActionEnded ==
  /\ v.content = "room" /\ v.pending # "none"
  /\ v' = [v EXCEPT !.pending = "none"]
  /\ UNCHANGED c

share ==
  /\ v.content = "room" /\ v.share /\ ~v.sharePending /\ ~v.leavePending
  /\ v' = [v EXCEPT !.sharePending = TRUE, !.share = FALSE]
  /\ UNCHANGED c

\* share_towl_room: shared, cancelled, copied, or neither; it never throws.
Shared ==
  /\ v.content = "room" /\ v.sharePending
  /\ v' = [v EXCEPT !.sharePending = FALSE, !.share = TRUE]
  /\ UNCHANGED c

manual_reconnect ==
  /\ v.content = "room" /\ v.reconnect /\ ~v.leavePending /\ ~v.manualReconnectPending
  /\ c.shown.status = "failed" /\ reconnect
  /\ v' = rendered([v EXCEPT !.manualReconnectPending = TRUE, !.reconnect = FALSE], c, c')

\* Mutant: only a successful reconnection settles.
ReconnectSettled_connected ==
  /\ v.content = "room" /\ v.manualReconnectPending /\ c.shown.status = "connected"
  /\ v' = render_connection([v EXCEPT !.manualReconnectPending = FALSE], c.shown)
  /\ UNCHANGED c

\* The promise of reconnect settles when the loop it joined or began ends.
ReconnectSettled ==
  /\ v.content = "room" /\ v.manualReconnectPending /\ c.work.at = "none"
  /\ v' = render_connection([v EXCEPT !.manualReconnectPending = FALSE], c.shown)
  /\ UNCHANGED c

leave ==
  /\ v.content = "room" /\ ~v.leavePending
  /\ leave_room
  /\ v' = [v EXCEPT !.leavePending = TRUE, !.buttons = {}, !.share = FALSE, !.reconnect = FALSE]

\* leaveRoom returned: the panel asks to be left, and is disposed by its owner.
Left ==
  /\ v.content = "room" /\ v.leavePending /\ c.leave = "done" /\ ~v.left
  /\ v' = [v EXCEPT !.left = TRUE]
  /\ UNCHANGED c

\* The invalid invitation's button: the address gets a new room.
createRoom ==
  /\ v.content = "invalid"
  /\ v' = [v EXCEPT !.content = "room", !.mounted = TRUE]
  /\ UNCHANGED c

dispose_panel ==
  /\ v.content # "disposed"
  /\ v' = [v EXCEPT !.content = "disposed"]
  /\ IF v.content = "room" THEN dispose ELSE UNCHANGED c

\* Mutant: an address without a room is taken for a content of its own.
classify_towl_room_url_absent(kind) == kind

\* classify_towl_room_url: no room or a valid one is opened, anything else is
\* shown as an invalid invitation.
classify_towl_room_url(kind) == IF kind = "invalid" THEN "invalid" ELSE "room"

PanelInit ==
  /\ Init
  /\ \E kind \in {"absent", "valid", "invalid"} :
       v = [content |-> classify_towl_room_url(kind),
            mounted |-> classify_towl_room_url(kind) = "room", buttons |-> {}, offer |-> {},
            pending |-> "none", sharePending |-> FALSE, share |-> TRUE, reconnect |-> FALSE,
            leavePending |-> FALSE, manualReconnectPending |-> FALSE, left |-> FALSE]

PanelNext ==
  \/ Controller
  \/ \E offer \in Offers : MirrorChanges(offer)
  \/ \E name \in GameActions : run_action(name)
  \/ ActionEnded \/ share \/ Shared
  \/ manual_reconnect \/ ReconnectSettled
  \/ leave \/ Left \/ createRoom \/ dispose_panel

PanelSpec == PanelInit /\ [][PanelNext]_panelVars

\* Timers fire, requests are answered or rejected, departures are bounded, and
\* a settled promise is noticed.
PanelFairness ==
  /\ WF_panelVars(Controller /\ Answers)
  /\ WF_panelVars(Controller /\ Departure)
  /\ WF_panelVars(ReconnectSettled) /\ WF_panelVars(Left)

PanelFairSpec == PanelSpec /\ PanelFairness

-----------------------------------------------------------------------------
PanelTypeOK ==
  /\ TypeOK
  /\ v.content \in {"invalid", "room", "disposed"}
  /\ v.buttons \subseteq GameActions /\ v.offer \in Offers
  /\ v.pending \in GameActions \union {"none"}
  /\ {v.mounted, v.sharePending, v.share, v.reconnect, v.leavePending, v.manualReconnectPending,
      v.left} \subseteq BOOLEAN

(* The buttons mean what they offer.  While the room is shown, a game      *)
(* action can be clicked only when there is a client to send it and the    *)
(* player is not leaving, and then exactly what the last governed state    *)
(* offers can be: neither a lost connection nor a late state of the mirror *)
(* leaves a button behind, and a new connection brings them back.  And a   *)
(* player whose connection failed can try again, unless a try is under way *)
(* or the room is being left.                                              *)
ButtonsMatchRoom ==
  v.content = "room" =>
    /\ v.buttons = IF has_client(c) THEN v.offer ELSE {}
    /\ ~v.leavePending =>
         v.reconnect = (c.shown.status = "failed" /\ ~v.manualReconnectPending)

(* What the user asked for comes to its end: reconnecting ends in a        *)
(* connection, in a failure that offers the button, or with the room left; *)
(* a departure ends although the authority never answers; a manual         *)
(* reconnection stops holding the button, and leaving the room leaves the  *)
(* panel.                                                                  *)
RequestsEnd ==
  /\ (v.mounted /\ c.work.at # "none") ~> (c.work.at = "none")
  /\ (c.leave # "none") ~> (c.leave = "done")
  /\ v.manualReconnectPending ~> (~v.manualReconnectPending \/ v.content = "disposed")
  /\ v.leavePending ~> (v.left \/ v.content = "disposed")
=============================================================================
