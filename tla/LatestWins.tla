----------------------------- MODULE LatestWins -----------------------------
(***************************************************************************)
(* What a panel may rely on when it submits to the verifier, without       *)
(* worker, queue, connections or failures: the contract of                 *)
(* CircuitVerificationSubmitter.  Jobs that can still get a verdict stand  *)
(* in a line in the order they were submitted; only the head of the line   *)
(* gets a verdict; a newer revision takes its panel's place in the line    *)
(* from an older one, and nothing else of another panel.                   *)
(***************************************************************************)
EXTENDS Naturals, Sequences, SequencesExt

CONSTANTS Panel, Revision, Jobs, NoClaim

Claim == [panel : Panel, revision : Revision]
Verdict == {"verified", "failed"}
Refusal == {"cancelled", "superseded", "error"}

VARIABLES
  claim,     \* what each job was submitted for
  outcome,   \* how its promise settled, or "pending"
  line,      \* the pending jobs that can still get a verdict
  open       \* submissions are accepted

vars == <<claim, outcome, line, open>>

Pending == {j \in Jobs : claim[j] # NoClaim /\ outcome[j] = "pending"}

\* q holds jobs of r, in the order they stand there.
Follows(q, r) ==
  /\ ToSet(q) \subseteq ToSet(r)
  /\ \A i, k \in 1..Len(q) : i < k =>
       \E a, b \in 1..Len(r) : a < b /\ r[a] = q[i] /\ r[b] = q[k]

Init ==
  /\ claim = [j \in Jobs |-> NoClaim]
  /\ outcome = [j \in Jobs |-> "pending"]
  /\ line = <<>>
  /\ open \in BOOLEAN

\* Jobs leave the line from anywhere, keep their order, and never come back.
\* Whoever leaves is settled, except at most one job: it was withdrawn while
\* it ran and is refused when its run ends.
Leaves(arrived) ==
  /\ outcome' \in [Jobs -> {"pending"} \cup Verdict \cup Refusal]
  /\ \A j \in Jobs : outcome[j] # "pending" => outcome'[j] = outcome[j]
  /\ \A j \in Jobs : outcome[j] = "pending" /\ outcome'[j] \in Verdict =>
       line # <<>> /\ j = Head(line)
  /\ Follows(line', arrived)
  /\ ToSet(line') \subseteq Pending'
  /\ \A i, k \in Pending' \ ToSet(line') : i = k
  /\ open' \in BOOLEAN /\ (open' => open)

\* j is submitted for c.
Arrive(j, c) ==
  LET rivals == {k \in ToSet(line) : claim[k].panel = c.panel}
  IN  /\ open
      /\ claim[j] = NoClaim
      /\ claim' = [claim EXCEPT ![j] = c]
      /\ Leaves(Append(line, j))
      \* An older revision goes, even if the newer one is then refused for
      \* lack of room, unless nobody listens to the newer one any more; a
      \* repeated or older submission is refused itself.
      /\ \A k \in rivals :
           claim[k].revision < c.revision /\ outcome'[j] # "cancelled" => k \notin ToSet(line')
      /\ \A k \in rivals : claim[k].revision >= c.revision => j \notin ToSet(line')
      /\ \A k \in ToSet(line) : outcome'[k] = "superseded" =>
           k \in rivals /\ claim[k].revision < c.revision

\* Runs end, connections close, the verifier fails or stops: no job in the
\* line is superseded without an arrival.
Serve ==
  /\ UNCHANGED claim
  /\ Leaves(line)
  /\ \A k \in ToSet(line) : outcome'[k] # "superseded"

Next == Serve \/ \E j \in Jobs, c \in Claim : Arrive(j, c)

Spec == Init /\ [][Next]_vars
=============================================================================
