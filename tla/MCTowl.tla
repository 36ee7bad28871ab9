------------------------------- MODULE MCTowl -------------------------------
(***************************************************************************)
(* The TOWL room and the TOWL panel, which meet only in what a client is   *)
(* shown, in one instance for TLC: a behaviour moves one of them and       *)
(* leaves the other where none of its fair steps is enabled.               *)
(***************************************************************************)
EXTENDS TowlPanel, TowlClient

VARIABLE part
towl == <<panelVars, gameVars, part>>

TowlInit ==
  /\ part \in {"panel", "game"}
  /\ PanelInit /\ GameInit
  /\ part = "panel" => lag = 0
  /\ part = "game" => v.content = "invalid" /\ c.credential = 0

TowlNext ==
  \/ part = "panel" /\ PanelNext /\ UNCHANGED <<part, gameVars>>
  \/ part = "game" /\ GameNext /\ UNCHANGED <<part, panelVars>>

TowlSpec == TowlInit /\ [][TowlNext]_towl /\ PanelFairness /\ GameFairness

\* Both keep their types.
TowlTypeOK == PanelTypeOK /\ GameTypeOK
=============================================================================
