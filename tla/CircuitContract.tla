--------------------------- MODULE CircuitContract ---------------------------
(***************************************************************************)
(* CircuitService implements LatestWins: the line is the active job, while *)
(* nothing made it obsolete, followed by the queue.                        *)
(***************************************************************************)
EXTENDS CircuitService

\* What stands for the claim of a job not submitted yet is no claim.
ASSUME NoClaimAssumption == NoRequest \notin [panel : Panel, revision : Revision]

claimed ==
  [j \in Job |-> IF submitted(svc, j)
                 THEN [panel |-> panelOf(svc, j), revision |-> revisionOf(svc, j)]
                 ELSE NoRequest]

lined ==
  (IF svc.active # None /\ live(svc, svc.active) THEN <<svc.active>> ELSE <<>>) \o svc.queue

Contract == INSTANCE LatestWins WITH
  Jobs <- Job, NoClaim <- NoRequest,
  claim <- claimed, outcome <- svc.outcome, line <- lined,
  open <- ~svc.disposed /\ ~svc.unavailable

\* Whatever workers, connections and the factory do, submissions see a verifier
\* that serves the line in order and lets the latest revision of a panel win.
ImplementsLatestWins == Contract!Spec
=============================================================================
