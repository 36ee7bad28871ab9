------------------------ MODULE CircuitService_proofs ------------------------
(***************************************************************************)
(* Proofs about CircuitService, for all values of its constants: every     *)
(* promise has one owner until it settles, jobs keep their order, a        *)
(* promise settles once and for a reason its events agree with, only the   *)
(* newest revision of a panel can still get a verdict, an idle worker      *)
(* leaves no job waiting, and the service implements LatestWins.           *)
(***************************************************************************)
EXTENDS CircuitContract, TLAPS

(* The queue is in submission order and holds jobs that can still run.     *)
Increasing(s) == \A i, k \in 1..Len(s.queue) : i < k => s.queue[i] < s.queue[k]

Queue(s) ==
  /\ Increasing(s)
  /\ Len(s.queue) <= MaxPending
  /\ \A j \in queued(s) : live(s, j) /\ submitted(s, j)

\* Unsettled jobs are active or queued, except those of loose, which the
\* running handler is about to settle or to queue.
Owner(s, loose) ==
  \A j \in Job : submitted(s, j) /\ ~settled(s, j) =>
    s.active = j \/ j \in queued(s) \/ j \in loose

ActiveJob(s) ==
  s.active # None =>
    ~settled(s, s.active) /\ submitted(s, s.active) /\ \A j \in queued(s) : s.active < j

\* Jobs not submitted yet are untouched.
Fresh(s) ==
  /\ \A j \in Job : submitted(s, j) \/ s.obsolete[j] = "no"
  /\ \A p \in Panel : s.latest[p] = None \/ submitted(s, s.latest[p])

Jobs(s, loose) ==
  s \in ServiceState /\ Queue(s) /\ Owner(s, loose) /\ ActiveJob(s) /\ Fresh(s)

\* latestByPanel points at the job.
Current(s, j) == s.request[j] \in Request /\ s.latest[panelOf(s, j)] = j

\* A queued job is the latest of its panel.  So is the active one, unless it is
\* obsolete and a queued job of a higher revision has taken its place.
Newest(s) ==
  /\ \A p \in Panel : s.latest[p] # None => panelOf(s, s.latest[p]) = p
  /\ \A j \in queued(s) : Current(s, j)
  /\ s.active # None =>
       \/ Current(s, s.active)
       \/ \E j \in queued(s) :
            /\ panelOf(s, j) = panelOf(s, s.active)
            /\ s.obsolete[s.active] # "no"
            /\ revisionOf(s, s.active) < revisionOf(s, j)

\* Whoever waits for the worker to start has been submitted.
Awaited(s) ==
  /\ \A i \in 1..Len(s.waiters) : s.waiters[i] <= s.submitted
  /\ \A i \in 1..Len(s.callbacks) : s.callbacks[i] <= s.submitted

Supervised(s) ==
  /\ Awaited(s)
  /\ s.worker # None <=> ~s.disposed /\ ~s.unavailable
  /\ s.ready => s.worker # None /\ s.waiters = <<>> /\ s.callbacks = <<>>
  /\ s.active # None => s.ready
  /\ s.disposed => s.queue = <<>>

Busy(s) == s.ready /\ s.active = None => s.queue = <<>>

Requested(s) == \A j \in Job : submitted(s, j) <=> s.request[j] # NoRequest

\* A job in the queue was told nothing but that.
Waiting(s) == \A j \in queued(s) : s.stage[j] \in {"silent", "queued"}

\* A request of the panel that is not older than job j.
Rivalled(s, j) ==
  \E k \in Job \ {j} :
    submitted(s, k) /\ panelOf(s, k) = panelOf(s, j) /\ revisionOf(s, k) >= revisionOf(s, j)

\* Why job j is obsolete, and what its promise may say then.
Reasonable(s, j) ==
  /\ s.obsolete[j] # "no" => s.outcome[j] \notin {"verified", "failed"}
  /\ s.obsolete[j] = "cancelled" => ~hears(s, j)
  /\ s.obsolete[j] = "superseded" => Rivalled(s, j)
  /\ s.outcome[j] \in {"cancelled", "superseded"} => s.outcome[j] = s.obsolete[j]

\* A verdict is told before it is given.
Agreed(s, j) ==
  \/ s.stage[j] = "completed" /\ s.outcome[j] = "verified"
  \/ s.stage[j] = "failed" /\ s.outcome[j] \in {"failed", "error"}
  \/ s.stage[j] = "cancelled" /\ s.outcome[j] \in {"cancelled", "superseded"}
  \/ s.stage[j] \notin FinalStage /\ s.outcome[j] \notin {"verified", "failed"}

Blank(s, j) == s.outcome[j] = "pending" /\ s.stage[j] = "silent"

Told(s) ==
  \A j \in Job : IF submitted(s, j) THEN Reasonable(s, j) /\ Agreed(s, j) ELSE Blank(s, j)

Environment ==
  /\ closed \subseteq Client
  /\ faulted \subseteq Worker /\ exited \subseteq Worker /\ deaf \subseteq Worker

IInv ==
  /\ Jobs(svc, {}) /\ Newest(svc) /\ Waiting(svc) /\ Told(svc)
  /\ Supervised(svc) /\ Busy(svc) /\ Requested(svc) /\ Environment

-----------------------------------------------------------------------------
(* Steps of a handler that only settle jobs and take them off the queue.   *)

\* What the operators on jobs leave alone.
Frame(s, t) ==
  /\ t.submitted = s.submitted /\ t.request = s.request
  /\ t.active = s.active /\ t.worker = s.worker /\ t.starts = s.starts /\ t.ready = s.ready
  /\ t.waiters = s.waiters /\ t.callbacks = s.callbacks
  /\ t.failures = s.failures /\ t.unavailable = s.unavailable /\ t.disposed = s.disposed

Keeps(s, t) == \A j \in Job : settled(s, j) => t.outcome[j] = s.outcome[j]

Shrinks(s, t) ==
  /\ Increasing(t)
  /\ Len(t.queue) <= Len(s.queue)
  /\ queued(t) \subseteq queued(s)

\* Only submitted jobs become obsolete, for good; latest forgets settled jobs.
Touches(s, t) ==
  /\ \A j \in Job : submitted(s, j) \/ t.obsolete[j] = s.obsolete[j]
  /\ \A j \in Job : s.obsolete[j] # "no" => t.obsolete[j] = s.obsolete[j]
  /\ \A p \in Panel :
       t.latest[p] = s.latest[p] \/ (t.latest[p] = None /\ settled(t, s.latest[p]))

Quiet(s, t) ==
  /\ t \in ServiceState
  /\ Frame(s, t)
  /\ Keeps(s, t)
  /\ Shrinks(s, t)
  /\ Touches(s, t)
  /\ \A j \in queued(s) : IF j \in queued(t)
                          THEN /\ t.outcome[j] = s.outcome[j] /\ t.obsolete[j] = s.obsolete[j]
                               /\ t.stage[j] = s.stage[j]
                          ELSE settled(t, j)

Only(s, t, j) ==
  /\ \A k \in Job \ {j} :
       t.outcome[k] = s.outcome[k] /\ t.obsolete[k] = s.obsolete[k] /\ t.stage[k] = s.stage[k]
  /\ s.obsolete[j] # "no" => t.obsolete[j] = s.obsolete[j]

\* What may become of job k, for handlers that give a verdict to jobs of V
\* and supersede jobs of S: why it is obsolete, how it settles, what its
\* listener is told.
Excused(s, t, k, S) ==
  \/ t.obsolete[k] = s.obsolete[k]
  \/ /\ s.obsolete[k] = "no"
     /\ \/ t.obsolete[k] = "cancelled" /\ ~hears(s, k)
        \/ t.obsolete[k] = "superseded" /\ k \in S

Ruled(t, k, V) ==
  \/ t.outcome[k] \in {"pending", "error"}
  \/ t.outcome[k] \in {"cancelled", "superseded"} /\ t.outcome[k] = t.obsolete[k]
  \/ t.outcome[k] \in {"verified", "failed"} /\ t.obsolete[k] = "no" /\ k \in V

Onward(a, b) ==
  \/ b = a
  \/ a = "silent" /\ b \in {"queued", "started", "lap"}
  \/ a = "queued" /\ b \in {"started", "lap"}
  \/ a = "started" /\ b = "lap"

Informed(s, t, k) ==
  \/ Onward(s.stage[k], t.stage[k]) /\ t.outcome[k] \notin {"verified", "failed"}
  \/ t.stage[k] = "completed" /\ t.outcome[k] = "verified"
  \/ t.stage[k] = "failed" /\ t.outcome[k] \in {"failed", "error"}
  \/ t.stage[k] = "cancelled" /\ t.outcome[k] \in {"cancelled", "superseded"}

Same(s, t, k) ==
  t.outcome[k] = s.outcome[k] /\ t.obsolete[k] = s.obsolete[k] /\ t.stage[k] = s.stage[k]

Fate(s, t, k, V, S) ==
  IF ~submitted(s, k) \/ settled(s, k) THEN Same(s, t, k)
  ELSE Excused(s, t, k, S) /\ Ruled(t, k, V) /\ Informed(s, t, k)

Fates(s, t, V, S) ==
  /\ t.submitted = s.submitted /\ t.request = s.request
  /\ \A k \in Job : Fate(s, t, k, V, S)

\* No verdict is given and no job superseded.
Plain(s, t) == \A V, S : Fates(s, t, V, S)

LEMMA Fields ==
  ASSUME NEW s \in ServiceState
  PROVE  /\ s.submitted \in 0..MaxJobs
         /\ s.request \in [Job -> Request \cup {NoRequest}]
         /\ s.obsolete \in [Job -> Obsolete]
         /\ s.outcome \in [Job -> Outcome]
         /\ s.stage \in [Job -> Stage]
         /\ s.queue \in Seq(Job)
         /\ s.latest \in [Panel -> Job \cup {None}]
         /\ s.active \in Job \cup {None}
         /\ s.worker \in Nat /\ s.starts \in Nat /\ s.failures \in Nat
         /\ s.waiters \in Seq(Job) /\ s.callbacks \in Seq(Job)
         /\ s.ready \in BOOLEAN /\ s.unavailable \in BOOLEAN /\ s.disposed \in BOOLEAN
BY DEF ServiceState

LEMMA QueuedJobs ==
  ASSUME NEW s \in ServiceState
  PROVE  queued(s) \subseteq Job
<1>1. s.queue \in Seq(Job)
  BY Fields
<1>2. \A i \in 1..Len(s.queue) : s.queue[i] \in Job
  BY <1>1
<1> QED
  BY <1>2 DEF queued

LEMMA QuietRefl ==
  ASSUME NEW s \in ServiceState, Increasing(s)
  PROVE  Quiet(s, s)
BY DEF Quiet, Frame, Keeps, Shrinks, Touches, ServiceState

LEMMA QuietTrans ==
  ASSUME NEW s \in ServiceState, NEW t \in ServiceState, NEW u \in ServiceState,
         Quiet(s, t), Quiet(t, u)
  PROVE  Quiet(s, u)
<1>2. queued(s) \subseteq Job
  BY QueuedJobs
<1>3. Frame(s, u)
  BY DEF Quiet, Frame
<1>4. Keeps(s, u)
  BY DEF Quiet, Keeps, settled
<1>5. Shrinks(s, u)
  BY SMTT(30) DEF Quiet, Shrinks, ServiceState
<1>6. ASSUME NEW j \in queued(s)
      PROVE  IF j \in queued(u)
             THEN /\ u.outcome[j] = s.outcome[j] /\ u.obsolete[j] = s.obsolete[j]
                  /\ u.stage[j] = s.stage[j]
             ELSE settled(u, j)
  BY <1>2 DEF Quiet, Keeps, Shrinks, settled
<1>7. Touches(s, u)
  <2>1. \A p \in Panel : s.latest[p] \in Job \cup {None} /\ t.latest[p] \in Job \cup {None}
    BY Fields
  <2>2. ASSUME NEW p \in Panel
        PROVE  u.latest[p] = s.latest[p] \/ (u.latest[p] = None /\ settled(u, s.latest[p]))
    BY <2>1 DEF Quiet, Touches, Keeps, settled
  <2> QED
    BY <2>2 DEF Quiet, Touches, Frame, submitted
<1> QED
  BY <1>3, <1>4, <1>5, <1>6, <1>7 DEF Quiet

LEMMA SameFate ==
  ASSUME NEW s, NEW t, NEW k, Same(s, t, k), NEW V, NEW S
  PROVE  Fate(s, t, k, V, S)
BY DEF Same, Fate, Excused, Ruled, Informed, Onward, settled

LEMMA FateTrans ==
  ASSUME NEW s, NEW t, NEW u, NEW k, NEW V, NEW S, t.request = s.request,
         t.submitted = s.submitted, Fate(s, t, k, V, S), Fate(t, u, k, V, S)
  PROVE  Fate(s, u, k, V, S)
<1>1. CASE ~submitted(s, k) \/ settled(s, k)
  BY <1>1 DEF Fate, Same, settled, submitted
<1>2. CASE submitted(s, k) /\ ~settled(s, k) /\ settled(t, k)
  BY <1>2 DEF Fate, Same, Excused, Ruled, Informed
<1>3. CASE submitted(s, k) /\ ~settled(s, k) /\ ~settled(t, k)
  <2>1. Onward(s.stage[k], t.stage[k]) /\ Excused(s, t, k, S)
    BY <1>3 DEF Fate, Informed, settled
  <2>2. Excused(t, u, k, S) /\ Ruled(u, k, V) /\ Informed(t, u, k)
    BY <1>3 DEF Fate, submitted
  <2>3. Excused(s, u, k, S)
    BY <2>1, <2>2 DEF Excused, hears
  <2>4. Informed(s, u, k)
    BY <2>1, <2>2 DEF Informed, Onward
  <2> QED
    BY <1>3, <2>2, <2>3, <2>4 DEF Fate
<1> QED
  BY <1>1, <1>2, <1>3

LEMMA FateOf ==
  ASSUME NEW s, NEW t, NEW j, NEW V, NEW S, t.request = s.request,
         t.submitted = s.submitted, Only(s, t, j), Fate(s, t, j, V, S)
  PROVE  Fates(s, t, V, S)
BY SameFate DEF Fates, Only, Same

LEMMA FatesTrans ==
  ASSUME NEW s, NEW t, NEW u, NEW V, NEW S, Fates(s, t, V, S), Fates(t, u, V, S)
  PROVE  Fates(s, u, V, S)
BY FateTrans DEF Fates

LEMMA PlainTrans ==
  ASSUME NEW s, NEW t, NEW u, Plain(s, t), Plain(t, u)
  PROVE  Plain(s, u)
BY FatesTrans DEF Plain

LEMMA PlainSame ==
  ASSUME NEW s, NEW t, t.submitted = s.submitted, t.request = s.request,
         \A k \in Job : Same(s, t, k)
  PROVE  Plain(s, t)
BY SameFate DEF Plain, Fates

LEMMA QuietParts ==
  ASSUME NEW s \in ServiceState, NEW t, NEW loose, Jobs(s, loose), Quiet(s, t)
  PROVE  Queue(t) /\ Owner(t, loose) /\ Fresh(t)
<1>1. queued(t) \subseteq queued(s) /\ queued(s) \subseteq Job
  BY QueuedJobs DEF Quiet, Shrinks
<1>2. Queue(t)
  <2>1. Len(t.queue) <= MaxPending
    BY ConstantsAssumption DEF Quiet, Shrinks, Jobs, Queue, ServiceState
  <2>2. \A j \in queued(t) : live(t, j) /\ submitted(t, j)
    BY <1>1 DEF Quiet, Frame, Jobs, Queue, live, settled, submitted
  <2> QED
    BY <2>1, <2>2 DEF Queue, Quiet, Shrinks
<1>3. Owner(t, loose)
  <2> SUFFICES ASSUME NEW j \in Job, submitted(t, j), ~settled(t, j)
               PROVE  t.active = j \/ j \in queued(t) \/ j \in loose
    BY DEF Owner
  <2>1. submitted(s, j) /\ ~settled(s, j)
    BY DEF Quiet, Frame, Keeps, submitted, settled
  <2> QED
    BY <2>1 DEF Jobs, Owner, Quiet, Frame
<1>4. Fresh(t)
  BY DEF Jobs, Fresh, Quiet, Touches, Frame, submitted
<1> QED
  BY <1>2, <1>3, <1>4

LEMMA QuietQueue ==
  ASSUME NEW s \in ServiceState, NEW t, NEW loose, Jobs(s, loose), Quiet(s, t),
         t.active # None => ~settled(t, t.active)
  PROVE  Jobs(t, loose)
<1>1. ActiveJob(t)
  BY DEF Jobs, ActiveJob, Quiet, Shrinks, Frame, submitted
<1> QED
  BY <1>1, QuietParts DEF Jobs, Quiet

-----------------------------------------------------------------------------
(* What the operators on jobs do, field by field.                          *)

\* What settle does: it changes outcomes, and forgets who was latest.
Settling(s, t, J, result) ==
  /\ t \in ServiceState
  /\ Frame(s, t)
  /\ t.queue = s.queue /\ t.obsolete = s.obsolete /\ t.stage = s.stage
  /\ \A p \in Panel :
       \/ t.latest[p] = s.latest[p]
       \/ t.latest[p] = None /\ s.latest[p] \in J /\ settled(t, s.latest[p])
  /\ \A j \in Job : t.outcome[j] = IF j \in J /\ ~settled(s, j) THEN result[j] ELSE s.outcome[j]

LEMMA Settle ==
  ASSUME NEW s \in ServiceState, NEW J \in SUBSET Job, NEW result,
         \A j \in J : ~settled(s, j) => result[j] \in Outcome \ {"pending"},
         NEW t, t = settle(s, J, result)
  PROVE  Settling(s, t, J, result)
<1> DEFINE now == {j \in J : ~settled(s, j)}
           outcome == [j \in Job |-> IF j \in now THEN result[j] ELSE s.outcome[j]]
           latest == [p \in Panel |-> IF s.latest[p] \in now THEN None ELSE s.latest[p]]
<1>1. t = [s EXCEPT !.outcome = outcome, !.latest = latest]
  BY DEF settle
<1>2. outcome \in [Job -> Outcome]
  BY Fields
<1>3. latest \in [Panel -> Job \cup {None}]
  BY Fields
<1> HIDE DEF outcome, latest
<1>4. t \in ServiceState
  BY <1>1, <1>2, <1>3 DEF ServiceState
<1>5. /\ Frame(s, t) /\ t.queue = s.queue /\ t.obsolete = s.obsolete /\ t.stage = s.stage
      /\ t.outcome = outcome /\ t.latest = latest
  BY <1>1 DEF ServiceState, Frame
<1>6. ASSUME NEW p \in Panel
      PROVE  \/ t.latest[p] = s.latest[p]
             \/ t.latest[p] = None /\ s.latest[p] \in J /\ settled(t, s.latest[p])
  <2>1. t.latest[p] = IF s.latest[p] \in now THEN None ELSE s.latest[p]
    BY <1>5 DEF latest
  <2>2. s.latest[p] \in now => t.outcome[s.latest[p]] = result[s.latest[p]]
    BY <1>5 DEF outcome
  <2> QED
    BY <2>1, <2>2 DEF settled
<1> QED
  BY <1>4, <1>5, <1>6 DEF Settling, outcome

LEMMA Deliver ==
  ASSUME NEW s \in ServiceState, NEW j \in Job, NEW stage \in Stage,
         NEW t, t = deliver(s, j, stage)
  PROVE  /\ t \in ServiceState
         /\ Frame(s, t)
         /\ t.queue = s.queue /\ t.obsolete = s.obsolete /\ t.outcome = s.outcome
         /\ t.latest = s.latest
         /\ \A k \in Job : t.stage[k] = IF k = j /\ hears(s, j) THEN stage ELSE s.stage[k]
<1>1. CASE hears(s, j)
  <2>1. t = [s EXCEPT !.stage = [s.stage EXCEPT ![j] = stage]]
    BY <1>1 DEF deliver, ServiceState
  <2>2. /\ [s.stage EXCEPT ![j] = stage] \in [Job -> Stage]
        /\ \A k \in Job : [s.stage EXCEPT ![j] = stage][k] = IF k = j THEN stage ELSE s.stage[k]
    BY Fields
  <2> QED
    BY <1>1, <2>1, <2>2 DEF ServiceState, Frame
<1>2. CASE ~hears(s, j)
  BY <1>2 DEF deliver, Frame
<1> QED
  BY <1>1, <1>2

LEMMA Remove ==
  ASSUME NEW s \in ServiceState, Increasing(s), NEW j \in Job,
         NEW t, t = remove_pending(s, j)
  PROVE  /\ t \in ServiceState
         /\ Frame(s, t) /\ Shrinks(s, t)
         /\ t.obsolete = s.obsolete /\ t.outcome = s.outcome /\ t.latest = s.latest
         /\ t.stage = s.stage
         /\ queued(t) = queued(s) \ {j}
         /\ j \in queued(s) => Len(t.queue) < Len(s.queue)
<1>1. CASE j \notin queued(s)
  BY <1>1, Fields DEF remove_pending, Frame, Shrinks
<1>2. CASE j \in queued(s)
  <2> DEFINE n == Len(s.queue)
             at == CHOOSE i \in 1..n : s.queue[i] = j
             q == [i \in 1..(n - 1) |-> IF i < at THEN s.queue[i] ELSE s.queue[i + 1]]
  <2>1. at \in 1..n /\ s.queue[at] = j
    BY <1>2 DEF queued
  <2>2. n \in Nat /\ s.queue \in Seq(Job) /\ \A i \in 1..n : s.queue[i] \in Job
    BY Fields
  <2>3. t = [s EXCEPT !.queue = q]
    BY <1>2 DEF remove_pending, ServiceState
  <2> HIDE DEF at
  <2>4. q \in Seq(Job) /\ Len(q) = n - 1
    <3>1. n - 1 \in Nat
      BY <2>1, <2>2
    <3>2. \A i \in 1..(n - 1) : q[i] \in Job
      BY <2>1, <2>2
    <3>3. q \in [1..(n - 1) -> Job]
      BY <3>2
    <3> QED
      BY <3>1, <3>3
  <2>5. \A i \in 1..(n - 1) : q[i] = IF i < at THEN s.queue[i] ELSE s.queue[i + 1]
    OBVIOUS
  <2> HIDE DEF q
  <2>6. /\ t \in ServiceState /\ Frame(s, t) /\ t.queue = q
        /\ t.obsolete = s.obsolete /\ t.outcome = s.outcome /\ t.latest = s.latest
        /\ t.stage = s.stage
    BY <2>3, <2>4 DEF ServiceState, Frame
  <2>7. Increasing(t)
    BY <2>1, <2>2, <2>4, <2>5, <2>6 DEF Increasing
  <2>8. queued(t) = queued(s) \ {j}
    <3>1. ASSUME NEW i \in 1..(n - 1)
          PROVE  q[i] \in queued(s) /\ q[i] # j
      <4> DEFINE k == IF i < at THEN i ELSE i + 1
      <4>1. k \in 1..n /\ (k < at \/ at < k) /\ q[i] = s.queue[k]
        BY <2>1, <2>2, <2>5
      <4> HIDE DEF k
      <4>2. s.queue[k] < s.queue[at] \/ s.queue[at] < s.queue[k]
        BY <4>1, <2>1 DEF Increasing
      <4>3. s.queue[k] \in Nat /\ s.queue[at] \in Nat
        BY <4>1, <2>1, <2>2, ConstantsAssumption DEF Job
      <4>4. s.queue[k] # j
        BY <4>2, <4>3, <2>1
      <4> QED
        BY <4>1, <4>4 DEF queued
    <3>2. ASSUME NEW k \in 1..n, s.queue[k] # j
          PROVE  \E i \in 1..(n - 1) : q[i] = s.queue[k]
      <4>1. CASE k < at
        BY <4>1, <2>1, <2>2, <2>5
      <4>2. CASE k > at
        <5>1. k - 1 \in 1..(n - 1) /\ q[k - 1] = s.queue[k]
          BY <4>2, <2>1, <2>2, <2>5
        <5> QED
          BY <5>1
      <4> QED
        BY <4>1, <4>2, <2>1, <2>2, <3>2
    <3>3. queued(t) = {q[i] : i \in 1..(n - 1)}
      BY <2>4, <2>6 DEF queued
    <3>4. queued(t) \subseteq queued(s) \ {j}
      BY <3>1, <3>3
    <3>5. ASSUME NEW x \in queued(s) \ {j}
          PROVE  x \in queued(t)
      <4>1. PICK k \in 1..n : s.queue[k] = x
        BY DEF queued
      <4> QED
        BY <4>1, <3>2, <3>3
    <3> QED
      BY <3>4, <3>5
  <2> QED
    BY <2>2, <2>4, <2>6, <2>7, <2>8 DEF Shrinks
<1> QED
  BY <1>1, <1>2

-----------------------------------------------------------------------------
(* The operators on jobs are quiet.                                        *)

Calm(s) == Increasing(s) /\ s.active \notin queued(s)

LEMMA QuietCalm ==
  ASSUME NEW s \in ServiceState, NEW t, Calm(s), Quiet(s, t)
  PROVE  Calm(t) /\ t \in ServiceState
BY DEF Calm, Quiet, Shrinks, Frame

LEMMA OnlyTrans ==
  ASSUME NEW s, NEW t, NEW u, NEW j \in Job, Only(s, t, j), Only(t, u, j)
  PROVE  Only(s, u, j)
BY DEF Only

LEMMA SettleQuiet ==
  ASSUME NEW s \in ServiceState, Increasing(s), NEW J \in SUBSET Job, J \cap queued(s) = {},
         NEW result, \A j \in J : ~settled(s, j) => result[j] \in Outcome \ {"pending"},
         NEW t, t = settle(s, J, result)
  PROVE  Quiet(s, t) /\ \A j \in J : settled(t, j)
<1>1. Settling(s, t, J, result)
  BY Settle
<1>2. Shrinks(s, t) /\ queued(t) = queued(s) /\ queued(s) \subseteq Job
  BY <1>1, QueuedJobs, Fields DEF Settling, Shrinks, Increasing, queued
<1>3. Keeps(s, t)
  BY <1>1 DEF Settling, Keeps
<1>4. \A j \in J : settled(t, j)
  BY <1>1 DEF Settling, settled
<1>5. Touches(s, t)
  BY <1>1 DEF Settling, Touches
<1> QED
  BY <1>1, <1>2, <1>3, <1>4, <1>5 DEF Settling, Quiet

LEMMA SettleResult ==
  ASSUME NEW s \in ServiceState, Increasing(s), NEW j \in Job, j \notin queued(s),
         NEW outcome \in Outcome \ {"pending"}, NEW t, t = settle_result(s, j, outcome)
  PROVE  /\ Quiet(s, t) /\ Only(s, t, j) /\ settled(t, j)
         /\ t.stage = s.stage /\ t.obsolete = s.obsolete
         /\ t.outcome[j] = IF settled(s, j) THEN s.outcome[j] ELSE outcome
<1>1. t = settle(s, {j}, always(outcome)) /\ always(outcome)[j] = outcome
  BY DEF settle_result, always
<1>2. Quiet(s, t) /\ settled(t, j)
  BY <1>1, SettleQuiet
<1>3. Settling(s, t, {j}, always(outcome))
  BY <1>1, Settle
<1>4. Only(s, t, j)
  BY <1>3 DEF Only, Settling
<1> QED
  BY <1>1, <1>2, <1>3, <1>4 DEF Settling

LEMMA Cancel ==
  ASSUME NEW s \in ServiceState, Calm(s), NEW j \in Job, submitted(s, j),
         NEW reason \in {"cancelled", "superseded"}, NEW t, t = cancel_job(s, j, reason)
  PROVE  /\ Quiet(s, t) /\ Only(s, t, j)
         /\ s.active = j => t.outcome = s.outcome
         /\ s.active # j /\ live(s, j) => settled(t, j)
         /\ s.active # j /\ live(s, j) /\ j \in queued(s) => Len(t.queue) < Len(s.queue)
         /\ settled(t, j) \/ t.obsolete[j] # "no"
         /\ ~live(s, j) => t = s
         /\ t.outcome[j] \in {s.outcome[j], reason}
         /\ \A V, S : IF reason = "cancelled" THEN ~hears(s, j) => Fate(s, t, j, V, S)
                     ELSE j \in S => Fate(s, t, j, V, S)
<1>1. CASE ~live(s, j)
  <2>1. t = s
    BY <1>1 DEF cancel_job
  <2>2. \A V, S : Fate(s, t, j, V, S)
    BY <2>1, SameFate DEF Same
  <2> QED
    BY <1>1, <2>1, <2>2, QuietRefl DEF Only, Calm, live
<1>2. CASE live(s, j)
  <2> DEFINE marked == [s EXCEPT !.obsolete[j] = reason]
  <2>1. /\ marked \in ServiceState /\ Frame(s, marked)
        /\ marked.queue = s.queue /\ marked.outcome = s.outcome
        /\ marked.obsolete = [s.obsolete EXCEPT ![j] = reason] /\ marked.latest = s.latest
        /\ marked.stage = s.stage
    <3>1. marked = [s EXCEPT !.obsolete = [s.obsolete EXCEPT ![j] = reason]]
      BY DEF ServiceState
    <3>2. [s.obsolete EXCEPT ![j] = reason] \in [Job -> Obsolete]
      BY Fields DEF Obsolete
    <3> QED
      BY <3>1, <3>2 DEF ServiceState, Frame
  <2> HIDE DEF marked
  <2>2. Increasing(marked) /\ queued(marked) = queued(s)
    BY <2>1 DEF Calm, Increasing, queued
  <2>3. s.obsolete[j] = "no" /\ ~settled(s, j)
    BY <1>2 DEF live
  <2>4. \A k \in Job : marked.obsolete[k] = IF k = j THEN reason ELSE s.obsolete[k]
    BY <2>1, Fields
  <2>5. CASE s.active = j
    <3>1. t = marked
      BY <1>2, <2>5 DEF cancel_job, marked
    <3>2. Only(s, t, j)
      BY <3>1, <2>1, <2>3, <2>4 DEF Only
    <3>3. Shrinks(s, t) /\ Keeps(s, t)
      BY <3>1, <2>1, <2>2, Fields DEF Shrinks, Keeps
    <3>4. \A k \in queued(s) : k \in Job /\ k # j
      BY <2>5, QueuedJobs DEF Calm
    <3>5. Touches(s, t)
      BY <3>1, <2>1, <2>3, <2>4 DEF Touches
    <3>6. \A V, S : IF reason = "cancelled" THEN ~hears(s, j) => Fate(s, t, j, V, S)
                    ELSE j \in S => Fate(s, t, j, V, S)
      BY <3>1, <2>1, <2>3, <2>4 DEF Fate, Excused, Ruled, Informed, Onward, settled
    <3> QED
      BY <3>1, <3>2, <3>3, <3>4, <3>5, <3>6, <2>1, <2>2, <2>4, <1>2, <2>5 DEF Quiet
  <2>6. CASE s.active # j
    <3> DEFINE u == remove_pending(marked, j)
               v == deliver(u, j, "cancelled")
    <3>1. t = settle_result(v, j, reason)
      BY <1>2, <2>6 DEF cancel_job, marked, settle_result
    <3>2. /\ u \in ServiceState /\ Frame(marked, u) /\ Shrinks(marked, u)
          /\ u.obsolete = marked.obsolete /\ u.outcome = marked.outcome
          /\ u.latest = marked.latest /\ u.stage = s.stage
          /\ queued(u) = queued(s) \ {j}
          /\ j \in queued(s) => Len(u.queue) < Len(s.queue)
      BY <2>1, <2>2, Remove
    <3> HIDE DEF u
    <3>3. /\ v \in ServiceState /\ Frame(u, v)
          /\ v.queue = u.queue /\ v.obsolete = u.obsolete /\ v.outcome = u.outcome
          /\ v.latest = u.latest
          /\ \A k \in Job : v.stage[k] = IF k = j /\ hears(u, j) THEN "cancelled" ELSE u.stage[k]
      <4>1. v = deliver(u, j, "cancelled") /\ "cancelled" \in Stage
        BY DEF Stage
      <4> HIDE DEF v
      <4> QED
        BY <4>1, <3>2, Deliver
    <3> HIDE DEF v
    <3>4. /\ queued(v) = queued(s) \ {j} /\ Increasing(v) /\ Len(v.queue) <= Len(s.queue)
          /\ j \in queued(s) => Len(v.queue) < Len(s.queue)
      <4>1. v.queue = u.queue /\ marked.queue = s.queue
        BY <3>3, <2>1
      <4> QED
        BY <4>1, <3>2 DEF queued, Increasing, Shrinks
    <3>5. /\ Quiet(v, t) /\ Only(v, t, j) /\ settled(t, j)
          /\ t.stage = v.stage /\ t.obsolete = v.obsolete
          /\ t.outcome[j] = IF settled(v, j) THEN v.outcome[j] ELSE reason
      BY <3>1, <3>3, <3>4, SettleResult DEF Outcome
    <3>6. Frame(s, t)
      BY <2>1, <3>2, <3>3, <3>5 DEF Frame, Quiet
    <3>7. \A k \in Job \ {j} :
            t.outcome[k] = s.outcome[k] /\ t.obsolete[k] = s.obsolete[k] /\ t.stage[k] = s.stage[k]
      BY <2>1, <2>4, <3>2, <3>3, <3>5 DEF Only
    <3>8. Only(s, t, j) /\ Keeps(s, t)
      BY <3>7, <2>3 DEF Only, Keeps
    <3>9. queued(t) \subseteq queued(s) \ {j} /\ Increasing(t) /\ t \in ServiceState
      BY <3>4, <3>5 DEF Quiet, Shrinks
    <3>10. /\ Len(t.queue) <= Len(s.queue)
           /\ j \in queued(s) => Len(t.queue) < Len(s.queue)
      BY <3>4, <3>5, <3>3, Fields, <3>9 DEF Quiet, Shrinks
    <3>11. \A k \in queued(s) : k \in queued(t) \/ settled(t, k)
      BY <3>4, <3>5 DEF Quiet
    <3>12. \A k \in queued(s) : k \in Job
      BY QueuedJobs
    <3>13. Shrinks(s, t)
      BY <3>9, <3>10 DEF Shrinks
    <3>14. Touches(s, t)
      BY <3>7, <3>5, <3>3, <3>2, <2>1, <2>3 DEF Touches, Quiet
    <3>16. t.outcome[j] \in {s.outcome[j], reason}
      BY <2>1, <3>2, <3>3, <3>5
    <3>15. \A V, S : IF reason = "cancelled" THEN ~hears(s, j) => Fate(s, t, j, V, S)
                     ELSE j \in S => Fate(s, t, j, V, S)
      <4>1. t.outcome[j] = reason /\ t.obsolete[j] = reason
        BY <2>1, <2>3, <2>4, <3>2, <3>3, <3>5 DEF settled
      <4>2. t.stage[j] = IF hears(u, j) THEN "cancelled" ELSE s.stage[j]
        BY <3>2, <3>3, <3>5
      <4> QED
        BY <4>1, <4>2, <2>3 DEF Fate, Excused, Ruled, Informed, Onward, settled
    <3> QED
      BY <1>2, <2>6, <3>5, <3>6, <3>7, <3>8, <3>9, <3>10, <3>11, <3>12, <3>13, <3>14,
         <3>15, <3>16 DEF Quiet
  <2> QED
    BY <2>5, <2>6
<1> QED
  BY <1>1, <1>2

\* The listener was told.
Heard(s, t, j, stage) ==
  /\ live(s, j) \/ (~settled(s, j) /\ stage = "cancelled")
  /\ t.stage[j] = stage /\ t.outcome[j] = s.outcome[j] /\ t.obsolete[j] = s.obsolete[j]

LEMMA Emit ==
  ASSUME NEW s \in ServiceState, Calm(s), NEW j \in Job, submitted(s, j), NEW stage \in Stage,
         j \notin queued(s), NEW t, t = emit(s, j, stage)
  PROVE  /\ Quiet(s, t) /\ Only(s, t, j)
         /\ s.active = j => t.outcome = s.outcome
         /\ s.active # j /\ ~settled(t, j) => t.obsolete[j] = s.obsolete[j]
         /\ t.outcome[j] \in {s.outcome[j], "cancelled"}
         /\ \/ Heard(s, t, j, stage)
            \/ /\ live(s, j) /\ s.active # j => settled(t, j)
               /\ \A V, S : Fate(s, t, j, V, S)
<1>1. CASE settled(s, j) \/ (s.obsolete[j] # "no" /\ stage # "cancelled")
  <2>1. t = s
    BY <1>1 DEF emit
  <2>2. \A V, S : Fate(s, t, j, V, S)
    BY <2>1, SameFate DEF Same
  <2> QED
    BY <1>1, <2>1, <2>2, QuietRefl DEF Only, Calm, live
<1>2. CASE ~(settled(s, j) \/ (s.obsolete[j] # "no" /\ stage # "cancelled")) /\ hears(s, j)
  <2>1. t = deliver(s, j, stage)
    BY <1>2 DEF emit
  <2>2. /\ t \in ServiceState /\ Frame(s, t)
        /\ t.queue = s.queue /\ t.obsolete = s.obsolete /\ t.outcome = s.outcome
        /\ t.latest = s.latest
        /\ \A k \in Job : t.stage[k] = IF k = j /\ hears(s, j) THEN stage ELSE s.stage[k]
    BY <2>1, Deliver
  <2>3. queued(t) = queued(s) /\ queued(s) \subseteq Job
    BY <2>2, QueuedJobs DEF queued
  <2>4. Quiet(s, t) /\ Only(s, t, j)
    BY <2>2, <2>3, Fields DEF Quiet, Only, Keeps, Shrinks, Touches, Calm, Increasing
  <2>5. Heard(s, t, j, stage)
    BY <1>2, <2>2 DEF Heard, live
  <2> QED
    BY <2>2, <2>4, <2>5
<1>3. CASE ~(settled(s, j) \/ (s.obsolete[j] # "no" /\ stage # "cancelled")) /\ ~hears(s, j)
  <2>1. t = cancel_job(s, j, "cancelled")
    BY <1>3 DEF emit
  <2>2. \A V, S : Fate(s, t, j, V, S)
    BY <1>3, <2>1, Cancel
  <2> QED
    BY <2>1, <2>2, Cancel
<1> QED
  BY <1>1, <1>2, <1>3

LEMMA SettleError ==
  ASSUME NEW s \in ServiceState, Calm(s), NEW j \in Job, submitted(s, j),
         j \notin queued(s), NEW t, t = settle_error(s, j)
  PROVE  /\ Quiet(s, t) /\ Only(s, t, j) /\ settled(t, j)
         /\ Plain(s, t)
<1> DEFINE u == emit(s, j, "failed")
<1>1. /\ Quiet(s, u) /\ Only(s, u, j)
      /\ Heard(s, u, j, "failed") \/ \A V, S : Fate(s, u, j, V, S)
  BY Emit DEF Stage
<1>2. Calm(u) /\ u \in ServiceState /\ j \notin queued(u) /\ submitted(u, j)
  BY <1>1, QuietCalm DEF Quiet, Shrinks, Frame, submitted
<1>3. t = settle_result(u, j, "error")
  BY DEF settle_error
<1> HIDE DEF u
<1>4. /\ Quiet(u, t) /\ Only(u, t, j) /\ settled(t, j)
      /\ t.stage = u.stage /\ t.obsolete = u.obsolete
      /\ t.outcome[j] = IF settled(u, j) THEN u.outcome[j] ELSE "error"
  BY <1>2, <1>3, SettleResult DEF Outcome, Calm
<1>5. t \in ServiceState
  BY <1>4 DEF Quiet
<1>6. ASSUME NEW V, NEW S PROVE Fate(s, t, j, V, S)
  <2>1. CASE Heard(s, u, j, "failed")
    BY <2>1, <1>4 DEF Heard, live, Fate, Excused, Ruled, Informed, settled
  <2>2. CASE \A W, R : Fate(s, u, j, W, R)
    <3>1. Fate(u, t, j, V, S)
      BY <1>2, <1>4 DEF Fate, Same, Excused, Ruled, Informed, Onward, settled
    <3> QED
      BY <2>2, <3>1, <1>1, FateTrans DEF Quiet, Frame
  <2> QED
    BY <2>1, <2>2, <1>1
<1>7. Quiet(s, t) /\ Only(s, t, j)
  BY <1>1, <1>2, <1>4, <1>5, QuietTrans, OnlyTrans
<1>8. t.submitted = s.submitted /\ t.request = s.request
  BY <1>7 DEF Quiet, Frame
<1> QED
  BY <1>4, <1>6, <1>7, <1>8, FateOf DEF Plain

LEMMA SettleObsolete ==
  ASSUME NEW s \in ServiceState, Calm(s), NEW j \in Job, submitted(s, j),
         j \notin queued(s), s.obsolete[j] # "no", NEW t, t = settle_obsolete(s, j)
  PROVE  /\ Quiet(s, t) /\ Only(s, t, j) /\ settled(t, j)
         /\ Plain(s, t)
<1> DEFINE u == emit(s, j, "cancelled")
<1>1. /\ Quiet(s, u) /\ Only(s, u, j)
      /\ Heard(s, u, j, "cancelled") \/ \A V, S : Fate(s, u, j, V, S)
  BY Emit DEF Stage
<1>2. Calm(u) /\ u \in ServiceState /\ j \notin queued(u) /\ submitted(u, j)
  BY <1>1, QuietCalm DEF Quiet, Shrinks, Frame, submitted
<1>3. t = settle_result(u, j, s.obsolete[j])
  BY DEF settle_obsolete
<1>4. s.obsolete[j] \in Outcome \ {"pending"}
  BY Fields DEF Obsolete, Outcome
<1> HIDE DEF u
<1>5. /\ Quiet(u, t) /\ Only(u, t, j) /\ settled(t, j)
      /\ t.stage = u.stage /\ t.obsolete = u.obsolete
      /\ t.outcome[j] = IF settled(u, j) THEN u.outcome[j] ELSE s.obsolete[j]
  BY <1>2, <1>3, <1>4, SettleResult DEF Calm
<1>6. t \in ServiceState
  BY <1>5 DEF Quiet
<1>7. t.obsolete[j] = s.obsolete[j] /\ s.obsolete[j] \in {"cancelled", "superseded"}
  BY <1>1, <1>5, Fields DEF Only, Obsolete
<1>8. ASSUME NEW V, NEW S PROVE Fate(s, t, j, V, S)
  <2>1. CASE Heard(s, u, j, "cancelled")
    BY <2>1, <1>5, <1>7 DEF Heard, live, Fate, Excused, Ruled, Informed, settled
  <2>2. CASE \A W, R : Fate(s, u, j, W, R)
    <3>1. Fate(u, t, j, V, S)
      BY <1>1, <1>2, <1>5, <1>7 DEF Only, Fate, Same, Excused, Ruled, Informed, Onward, settled
    <3> QED
      BY <2>2, <3>1, <1>1, FateTrans DEF Quiet, Frame
  <2> QED
    BY <2>1, <2>2, <1>1
<1>9. Quiet(s, t) /\ Only(s, t, j)
  BY <1>1, <1>2, <1>5, <1>6, QuietTrans, OnlyTrans
<1>10. t.submitted = s.submitted /\ t.request = s.request
  BY <1>9 DEF Quiet, Frame
<1> QED
  BY <1>5, <1>8, <1>9, <1>10, FateOf DEF Plain

LEMMA FailPending ==
  ASSUME NEW s \in ServiceState, Calm(s), \A j \in queued(s) : submitted(s, j),
         \A j \in queued(s) : live(s, j), NEW t, t = fail_pending(s)
  PROVE  /\ Quiet(s, t) /\ t.queue = <<>>
         /\ \A j \in Job \ queued(s) : t.outcome[j] = s.outcome[j]
         /\ Plain(s, t)
<1> DEFINE jobs == queued(s)
           told == {j \in jobs : live(s, j) /\ hears(s, j)}
           lost == {j \in jobs : live(s, j) /\ ~hears(s, j)}
           stage == [j \in Job |-> IF j \in told THEN "failed" ELSE s.stage[j]]
           obsolete == [j \in Job |-> IF j \in lost THEN "cancelled" ELSE s.obsolete[j]]
           result == [j \in Job |-> IF j \in lost THEN "cancelled" ELSE "error"]
           u == [s EXCEPT !.queue = <<>>, !.stage = stage, !.obsolete = obsolete]
<1>1. jobs \in SUBSET Job
  BY QueuedJobs
<1>2. t = settle(u, jobs, result)
  BY DEF fail_pending
<1>3. stage \in [Job -> Stage] /\ obsolete \in [Job -> Obsolete]
  BY Fields DEF Stage, Obsolete
<1>4. \A j \in Job : result[j] \in Outcome \ {"pending"}
  BY DEF Outcome
<1>5. \A j \in Job \ jobs : obsolete[j] = s.obsolete[j]
  OBVIOUS
<1> HIDE DEF stage, obsolete, result
<1>6. /\ u \in ServiceState /\ Frame(s, u) /\ u.queue = <<>>
      /\ u.obsolete = obsolete /\ u.outcome = s.outcome /\ u.latest = s.latest
      /\ u.stage = stage
  <2>1. <<>> \in Seq(Job)
    OBVIOUS
  <2>2. u \in ServiceState
    BY <2>1, <1>3 DEF ServiceState
  <2> QED
    BY <2>2 DEF ServiceState, Frame
<1> HIDE DEF u
<1>7. Settling(u, t, jobs, result)
  BY <1>1, <1>2, <1>4, <1>6, Settle
<1>8. t \in ServiceState /\ Frame(s, t) /\ t.queue = <<>> /\ t.latest \in [Panel -> Job \cup {None}]
  BY <1>6, <1>7, Fields DEF Settling, Frame
<1>9. Shrinks(s, t) /\ queued(t) = {}
  BY <1>8, Fields DEF Shrinks, Increasing, queued
<1>10. \A j \in Job : t.outcome[j] = IF j \in jobs /\ ~settled(s, j) THEN result[j]
                                   ELSE s.outcome[j]
  BY <1>6, <1>7 DEF Settling, settled
<1>11. Keeps(s, t)
  BY <1>10 DEF Keeps
<1>12. \A j \in jobs : settled(t, j)
  BY <1>1, <1>4, <1>10 DEF settled
<1>13. Touches(s, t)
  <2>1. t.obsolete = obsolete
    BY <1>6, <1>7 DEF Settling
  <2>2. \A j \in Job : s.obsolete[j] # "no" => t.obsolete[j] = s.obsolete[j]
    BY <2>1 DEF obsolete, live
  <2> QED
    BY <2>1, <2>2, <1>5, <1>6, <1>7 DEF Settling, Touches
<1>14. ASSUME NEW j \in Job, NEW V, NEW S
       PROVE  Fate(s, t, j, V, S)
  <2>1. t.obsolete[j] = obsolete[j] /\ t.stage[j] = stage[j]
    BY <1>6, <1>7 DEF Settling
  <2>2. CASE j \in jobs
    BY <2>1, <2>2, <1>10
    DEF stage, obsolete, result, live, Fate, Excused, Ruled, Informed, Onward, settled
  <2>3. CASE j \notin jobs
    BY <2>1, <2>3, <1>10, SameFate DEF stage, obsolete, Same
  <2> QED
    BY <2>2, <2>3
<1>15. t.submitted = s.submitted /\ t.request = s.request
  BY <1>8 DEF Frame
<1> QED
  BY <1>8, <1>9, <1>10, <1>11, <1>12, <1>13, <1>14, <1>15 DEF Quiet, Fates, Plain

-----------------------------------------------------------------------------
(* Who is the latest of its panel.                                         *)

Carries(s, t) == (Newest(s) => Newest(t)) /\ (Waiting(s) => Waiting(t))

LEMMA SameNewest ==
  ASSUME NEW s, NEW t, t.request = s.request, t.obsolete = s.obsolete, t.latest = s.latest,
         t.stage = s.stage,
         \/ queued(t) = queued(s) /\ t.active \in {None, s.active}
         \/ queued(t) \subseteq queued(s) /\ t.active = None
  PROVE  Carries(s, t)
BY DEF Carries, Newest, Current, Waiting, panelOf, revisionOf

LEMMA NothingNewest ==
  ASSUME NEW s, s.queue = <<>>, s.active = None,
         \A p \in Panel : s.latest[p] # None => panelOf(s, s.latest[p]) = p
  PROVE  Newest(s) /\ Waiting(s)
<1>1. queued(s) = {}
  BY DEF queued
<1> QED
  BY <1>1 DEF Newest, Waiting

\* Jobs that settle are forgotten by latestByPanel alone: the others stay the
\* latest.  The active one can lose its successor only with its activity.
LEMMA QuietNewest ==
  ASSUME NEW s \in ServiceState, NEW t, NEW loose, Jobs(s, loose), Quiet(s, t),
         t.active # None => /\ ~settled(t, t.active)
                            /\ \A k \in queued(s) : t.outcome[k] = s.outcome[k]
  PROVE  Carries(s, t)
<1>6. Waiting(s) => Waiting(t)
  BY DEF Quiet, Shrinks, Waiting
<1> SUFFICES ASSUME Newest(s) PROVE Newest(t)
  BY <1>6 DEF Carries
<1>1. Queue(t) /\ t.request = s.request /\ t.active = s.active
  BY QuietParts DEF Quiet, Frame
<1>2. queued(t) \subseteq queued(s) /\ \A j \in queued(t) : ~settled(t, j)
  BY <1>1 DEF Quiet, Shrinks, Queue, live
<1>3. ASSUME NEW j, Current(s, j), ~settled(t, j)
      PROVE  Current(t, j)
  <2>1. panelOf(s, j) \in Panel /\ panelOf(t, j) = panelOf(s, j)
    BY <1>1, <1>3 DEF Current, Request, panelOf
  <2> QED
    BY <2>1, <1>1, <1>3 DEF Current, Quiet, Touches
<1>4. /\ \A j \in queued(t) : Current(t, j)
      /\ \A p \in Panel : t.latest[p] # None => panelOf(t, t.latest[p]) = p
  BY <1>1, <1>2, <1>3 DEF Newest, Quiet, Touches, panelOf
<1>5. ASSUME t.active # None
      PROVE  \/ Current(t, t.active)
             \/ \E j \in queued(t) :
                  /\ panelOf(t, j) = panelOf(t, t.active)
                  /\ t.obsolete[t.active] # "no"
                  /\ revisionOf(t, t.active) < revisionOf(t, j)
  <2>1. CASE Current(s, s.active)
    BY <2>1, <1>1, <1>3, <1>5
  <2>2. CASE ~Current(s, s.active)
    <3>1. PICK j \in queued(s) :
            /\ panelOf(s, j) = panelOf(s, s.active)
            /\ s.obsolete[s.active] # "no"
            /\ revisionOf(s, s.active) < revisionOf(s, j)
      BY <2>2, <1>1, <1>5 DEF Newest
    <3>2. j \in queued(t) /\ t.active \in Job
      BY <3>1, <1>1, <1>5, Fields DEF Quiet, Jobs, Queue, live, settled
    <3>3. t.obsolete[t.active] # "no"
      BY <3>1, <3>2, <1>1 DEF Quiet, Touches
    <3> QED
      BY <3>1, <3>2, <3>3, <1>1 DEF panelOf, revisionOf
  <2> QED
    BY <2>1, <2>2
<1> QED
  BY <1>4, <1>5 DEF Newest

-----------------------------------------------------------------------------
(* The worker: startup, replacement, dispatch.                             *)

LEMMA QuietSupervised ==
  ASSUME NEW s \in ServiceState, NEW t, Quiet(s, t)
  PROVE  /\ Supervised(s) => Supervised(t)
         /\ Busy(s) => Busy(t)
<1>1. s.queue = <<>> => t.queue = <<>>
  BY Fields DEF Quiet, Shrinks, ServiceState
<1> QED
  BY <1>1 DEF Supervised, Awaited, Busy, Quiet, Frame

LEMMA KeepsTrans ==
  ASSUME NEW s, NEW t, NEW u, Keeps(s, t), Keeps(t, u)
  PROVE  Keeps(s, u)
BY DEF Keeps, settled

\* What the supervision of the worker leaves alone.
SameJobs(s, t) ==
  /\ t \in ServiceState
  /\ t.submitted = s.submitted /\ t.request = s.request /\ t.obsolete = s.obsolete
  /\ t.outcome = s.outcome /\ t.queue = s.queue /\ t.latest = s.latest
  /\ t.stage = s.stage /\ t.starts >= s.starts

LEMMA SameJobsKeepsJobs ==
  ASSUME NEW s \in ServiceState, NEW t, NEW loose, Jobs(s, loose), SameJobs(s, t),
         t.active = s.active
  PROVE  Jobs(t, loose)
<1>1. Queue(t) /\ queued(t) = queued(s)
  BY DEF Jobs, SameJobs, Queue, Increasing, queued, live, settled, submitted
<1>2. Owner(t, loose) /\ ActiveJob(t) /\ Fresh(t)
  BY <1>1 DEF Jobs, SameJobs, Owner, ActiveJob, Fresh, settled, submitted
<1> QED
  BY <1>1, <1>2 DEF Jobs, SameJobs

LEMMA StartWorker ==
  ASSUME NEW s \in ServiceState, NEW made \in BOOLEAN, NEW t, t = start_worker(s, made)
  PROVE  /\ SameJobs(s, t) /\ t.active = s.active /\ t.disposed = s.disposed
         /\ t.waiters = s.waiters /\ t.callbacks = s.callbacks
         /\ IF s.disposed \/ s.unavailable \/ s.worker # None THEN t = s
            ELSE IF made THEN t.worker # None /\ ~t.ready /\ t.unavailable = s.unavailable
            ELSE t.worker = None /\ t.ready = s.ready /\ t.unavailable
<1>1. CASE s.disposed \/ s.unavailable \/ s.worker # None
  BY <1>1, Fields DEF start_worker, SameJobs
<1>2. CASE ~(s.disposed \/ s.unavailable \/ s.worker # None) /\ made
  <2>1. t = [s EXCEPT !.worker = s.starts + 1, !.starts = s.starts + 1, !.ready = FALSE]
    BY <1>2 DEF start_worker, ServiceState
  <2>2. t \in ServiceState
    <3>1. s.starts + 1 \in Nat
      BY Fields
    <3> QED
      BY <3>1, <2>1 DEF ServiceState
  <2>3. /\ t.submitted = s.submitted /\ t.request = s.request /\ t.obsolete = s.obsolete
        /\ t.outcome = s.outcome /\ t.queue = s.queue /\ t.latest = s.latest
        /\ t.active = s.active /\ t.disposed = s.disposed
        /\ t.waiters = s.waiters /\ t.callbacks = s.callbacks
        /\ t.stage = s.stage /\ t.starts = s.starts + 1 /\ t.worker = s.starts + 1 /\ t.ready = FALSE
        /\ t.unavailable = s.unavailable
    BY <2>1 DEF ServiceState
  <2>4. t.starts >= s.starts /\ t.worker # None
    BY <2>3, Fields DEF None
  <2> QED
    BY <1>2, <2>2, <2>3, <2>4 DEF SameJobs
<1>3. CASE ~(s.disposed \/ s.unavailable \/ s.worker # None) /\ ~made
  <2>1. t = [s EXCEPT !.unavailable = TRUE]
    BY <1>3 DEF start_worker
  <2>2. t \in ServiceState
    BY <2>1 DEF ServiceState
  <2>3. /\ t.submitted = s.submitted /\ t.request = s.request /\ t.obsolete = s.obsolete
        /\ t.outcome = s.outcome /\ t.queue = s.queue /\ t.latest = s.latest
        /\ t.active = s.active /\ t.disposed = s.disposed
        /\ t.waiters = s.waiters /\ t.callbacks = s.callbacks
        /\ t.starts = s.starts /\ t.worker = s.worker /\ t.ready = s.ready
        /\ t.unavailable = TRUE /\ t.stage = s.stage
    BY <2>1 DEF ServiceState
  <2>4. t.starts >= s.starts
    BY <2>3, Fields
  <2> QED
    BY <1>3, <2>2, <2>3, <2>4 DEF SameJobs
<1> QED
  BY <1>1, <1>2, <1>3

\* What a handler returns to the event loop.
Handled(s, t) ==
  /\ Jobs(t, {}) /\ Supervised(t) /\ Busy(t)
  /\ Keeps(s, t)
  /\ t.submitted = s.submitted /\ t.request = s.request /\ t.starts >= s.starts

LEMMA LooseSettled ==
  ASSUME NEW s, NEW j, Jobs(s, {j}), settled(s, j)
  PROVE  Jobs(s, {})
BY DEF Jobs, Owner

\* A job that is neither active nor queued is calm to settle.
LEMMA JobsCalm ==
  ASSUME NEW s, NEW loose, Jobs(s, loose)
  PROVE  s \in ServiceState /\ Calm(s) /\ \A j \in queued(s) : submitted(s, j) /\ live(s, j)
<1>1. s \in ServiceState /\ Increasing(s) /\ \A j \in queued(s) : submitted(s, j) /\ live(s, j)
  BY DEF Jobs, Queue
<1>2. queued(s) \subseteq Job /\ None \notin Job /\ \A j \in Job : j \in Nat
  BY <1>1, QueuedJobs, ConstantsAssumption DEF Job, None
<1>3. s.active \notin queued(s)
  <2>1. CASE s.active = None
    BY <2>1, <1>2
  <2>2. CASE s.active # None
    <3> SUFFICES ASSUME s.active \in queued(s) PROVE FALSE
      OBVIOUS
    <3>1. s.active < s.active
      BY <2>2 DEF Jobs, ActiveJob
    <3>2. s.active \in Nat
      BY <1>2
    <3> QED
      BY <3>1, <3>2
  <2> QED
    BY <2>1, <2>2
<1> QED
  BY <1>1, <1>3 DEF Calm

\* Whatever was running is released, settled.
LEMMA Release ==
  ASSUME NEW s \in ServiceState, NEW j \in Job, Jobs(s, {j}), submitted(s, j),
         s.active = None, j \notin queued(s),
         NEW t, \/ t = settle_error(s, j)
                \/ s.obsolete[j] # "no" /\ t = settle_obsolete(s, j)
  PROVE  Jobs(t, {}) /\ Quiet(s, t) /\ t.active = None /\ Plain(s, t)
<1>1. Quiet(s, t) /\ settled(t, j) /\ Plain(s, t)
  BY JobsCalm, SettleError, SettleObsolete
<1>2. t.active = None
  BY <1>1 DEF Quiet, Frame
<1>3. Jobs(t, {j})
  BY <1>1, <1>2, QuietQueue
<1> QED
  BY <1>1, <1>2, <1>3, LooseSettled

\* The active job is no longer active.
LEMMA Detach ==
  ASSUME NEW s \in ServiceState, Jobs(s, {}), NEW t \in ServiceState,
         t.submitted = s.submitted, t.obsolete = s.obsolete,
         t.outcome = s.outcome, t.queue = s.queue, t.latest = s.latest, t.active = None
  PROVE  /\ Jobs(t, {s.active}) /\ queued(t) = queued(s)
         /\ s.active = None => Jobs(t, {})
         /\ s.active # None => s.active \in Job /\ s.active \notin queued(t) /\ submitted(t, s.active)
<1>1. Queue(t) /\ queued(t) = queued(s)
  BY DEF Jobs, Queue, Increasing, queued, live, settled, submitted
<1>2. ActiveJob(t) /\ Fresh(t)
  BY DEF Jobs, ActiveJob, Fresh, submitted
<1>3. Owner(t, {s.active})
  BY <1>1 DEF Jobs, Owner, settled, submitted
<1>4. s.active = None => Owner(t, {})
  BY <1>1 DEF Jobs, Owner, settled, submitted
<1>5. s.active # None => s.active \in Job /\ s.active \notin queued(t) /\ submitted(t, s.active)
  BY <1>1, Fields, JobsCalm DEF Jobs, ActiveJob, Calm, submitted
<1> QED
  BY <1>1, <1>2, <1>3, <1>4, <1>5 DEF Jobs

LEMMA CallsInOrder ==
  ASSUME NEW a \in Seq(Job), NEW b \in Seq(Job), NEW n,
         \A i \in 1..Len(a) : a[i] <= n, \A i \in 1..Len(b) : b[i] <= n
  PROVE  \A i \in 1..Len(a \o b) : (a \o b)[i] <= n
<1> SUFFICES ASSUME NEW i \in 1..Len(a \o b) PROVE (a \o b)[i] <= n
  OBVIOUS
<1>1. CASE i \in 1..Len(a)
  BY <1>1
<1>2. CASE i \notin 1..Len(a)
  <2>1. i - Len(a) \in 1..Len(b) /\ (a \o b)[i] = b[i - Len(a)]
    BY <1>2
  <2> QED
    BY <2>1
<1> QED
  BY <1>1, <1>2

LEMMA ReplaceWorker ==
  ASSUME NEW s \in ServiceState, Jobs(s, {}), Supervised(s), s.worker # None,
         NEW made \in BOOLEAN, NEW t, t = replace_worker(s, made)
  PROVE  Handled(s, t) /\ Carries(s, t) /\ Plain(s, t)
<1> DEFINE failed == s.active
           detached == [reject_startup(s) EXCEPT !.worker = None, !.ready = FALSE, !.active = None]
           released == IF failed = None THEN detached
                       ELSE IF s.obsolete[failed] # "no" THEN settle_obsolete(detached, failed)
                       ELSE settle_error(detached, failed)
           charged == [released EXCEPT !.failures = released.failures + 1]
           limited == [charged EXCEPT !.unavailable = TRUE]
<1>1. ~s.disposed /\ ~s.unavailable
  BY DEF Supervised
<1>2. detached = [s EXCEPT !.callbacks = s.callbacks \o s.waiters, !.waiters = <<>>,
                           !.worker = None, !.ready = FALSE, !.active = None]
  BY DEF reject_startup, ServiceState
<1>3. detached \in ServiceState
  <2>1. s.callbacks \o s.waiters \in Seq(Job) /\ <<>> \in Seq(Job)
    BY Fields
  <2> QED
    BY <1>2, <2>1 DEF ServiceState, None
<1>4. /\ detached.submitted = s.submitted /\ detached.request = s.request
      /\ detached.obsolete = s.obsolete /\ detached.outcome = s.outcome
      /\ detached.queue = s.queue /\ detached.latest = s.latest
      /\ detached.active = None /\ detached.worker = None /\ detached.ready = FALSE
      /\ detached.starts = s.starts /\ detached.disposed = s.disposed
      /\ detached.unavailable = s.unavailable /\ detached.stage = s.stage
      /\ detached.waiters = <<>> /\ detached.callbacks = s.callbacks \o s.waiters
  BY <1>2 DEF ServiceState
<1> HIDE DEF detached
<1>5. /\ Jobs(detached, {failed}) /\ queued(detached) = queued(s)
      /\ failed = None => Jobs(detached, {})
      /\ failed # None => failed \in Job /\ failed \notin queued(detached) /\ submitted(detached, failed)
  BY <1>3, <1>4, Detach
<1>6. /\ Jobs(released, {}) /\ Quiet(detached, released) /\ released.active = None
      /\ Plain(detached, released)
  <2>1. CASE failed = None
    <3>1. Increasing(detached)
      BY <1>5 DEF Jobs, Queue
    <3>2. released = detached
      BY <2>1
    <3>3. Plain(detached, released)
      BY <3>2, PlainSame DEF Same
    <3> QED
      BY <2>1, <3>1, <3>2, <3>3, <1>3, <1>4, <1>5, QuietRefl
  <2>2. CASE failed # None
    <3>1. \/ released = settle_error(detached, failed)
          \/ detached.obsolete[failed] # "no" /\ released = settle_obsolete(detached, failed)
      BY <2>2, <1>4
    <3> HIDE DEF released
    <3> QED
      BY <2>2, <3>1, <1>3, <1>4, <1>5, Release
  <2> QED
    BY <2>1, <2>2
<1> HIDE DEF released
<1> DEFINE calls == s.callbacks \o s.waiters
<1>7. /\ released \in ServiceState /\ Keeps(s, released)
      /\ released.submitted = s.submitted /\ released.request = s.request
      /\ released.worker = None /\ released.ready = FALSE /\ released.starts = s.starts
      /\ released.disposed = FALSE /\ released.unavailable = FALSE
      /\ released.waiters = <<>> /\ released.callbacks = calls
  BY <1>1, <1>4, <1>6, Fields DEF Quiet, Frame, Keeps, settled
<1>8. /\ charged \in ServiceState /\ SameJobs(released, charged)
      /\ charged.active = None /\ charged.worker = None /\ charged.ready = FALSE
      /\ charged.disposed = FALSE /\ charged.unavailable = FALSE /\ charged.starts = s.starts
      /\ charged.waiters = <<>> /\ charged.callbacks = calls
  <2>1. released.failures + 1 \in Nat
    BY <1>7, Fields
  <2>2. charged \in ServiceState
    BY <2>1, <1>7 DEF ServiceState
  <2>3. /\ charged.submitted = released.submitted /\ charged.request = released.request
        /\ charged.obsolete = released.obsolete /\ charged.outcome = released.outcome
        /\ charged.queue = released.queue /\ charged.latest = released.latest
        /\ charged.active = released.active /\ charged.worker = released.worker
        /\ charged.ready = released.ready /\ charged.starts = released.starts
        /\ charged.disposed = released.disposed /\ charged.unavailable = released.unavailable
        /\ charged.waiters = released.waiters /\ charged.callbacks = released.callbacks
        /\ charged.stage = released.stage
    BY <1>7 DEF ServiceState
  <2>4. charged.starts >= released.starts
    BY <2>3, <1>7, Fields
  <2> QED
    BY <2>2, <2>3, <2>4, <1>6, <1>7 DEF SameJobs
<1> HIDE DEF charged
<1>9. Jobs(charged, {}) /\ Keeps(s, charged) /\ charged.submitted = s.submitted
      /\ charged.request = s.request
  BY <1>6, <1>7, <1>8, SameJobsKeepsJobs DEF SameJobs, Keeps, settled
<1>15. Plain(s, charged)
  <2>1. Plain(s, detached)
    BY <1>4, PlainSame DEF Same
  <2>2. Plain(released, charged)
    BY <1>8, PlainSame DEF Same, SameJobs
  <2> QED
    BY <2>1, <2>2, <1>6, PlainTrans
<1>14. Carries(s, charged)
  <2>1. Carries(s, detached)
    BY <1>4, <1>5, SameNewest
  <2>2. Carries(detached, released)
    BY <1>3, <1>5, <1>6, QuietNewest
  <2>3. Carries(released, charged)
    BY <1>6, <1>8, SameNewest DEF SameJobs, queued
  <2> QED
    BY <2>1, <2>2, <2>3 DEF Carries
<1>10. ASSUME NEW u, u.waiters = <<>>, u.callbacks = calls, u.submitted = s.submitted
       PROVE  Awaited(u)
  <2>1. \A i \in 1..Len(calls) : calls[i] <= s.submitted
    BY Fields, CallsInOrder DEF Supervised, Awaited
  <2>2. \A i \in 1..Len(u.callbacks) : u.callbacks[i] <= u.submitted
    BY <2>1, <1>10
  <2>3. 1..Len(u.waiters) = {}
    BY <1>10
  <2> HIDE DEF calls
  <2> QED
    BY <2>2, <2>3 DEF Awaited
<1> HIDE DEF calls
<1>11. t = IF charged.failures > MaxWorkerReplacements THEN fail_pending(limited)
           ELSE start_worker(charged, made)
  BY <1>1 DEF replace_worker, charged, released, detached
<1>12. CASE charged.failures > MaxWorkerReplacements
  <2>1. /\ limited \in ServiceState /\ SameJobs(charged, limited)
        /\ limited.active = None /\ limited.worker = None /\ limited.ready = FALSE
        /\ limited.unavailable = TRUE /\ limited.disposed = FALSE /\ limited.starts = s.starts
        /\ limited.waiters = <<>> /\ limited.callbacks = calls
    <3>1. limited \in ServiceState
      BY <1>8 DEF ServiceState
    <3>2. /\ limited.submitted = charged.submitted /\ limited.request = charged.request
          /\ limited.obsolete = charged.obsolete /\ limited.outcome = charged.outcome
          /\ limited.queue = charged.queue /\ limited.latest = charged.latest
          /\ limited.active = charged.active /\ limited.worker = charged.worker
          /\ limited.ready = charged.ready /\ limited.starts = charged.starts
          /\ limited.disposed = charged.disposed /\ limited.unavailable = TRUE
          /\ limited.waiters = charged.waiters /\ limited.callbacks = charged.callbacks
          /\ limited.stage = charged.stage
      BY <1>8 DEF ServiceState
    <3>3. limited.starts >= charged.starts
      BY <3>2, <1>8, Fields
    <3> QED
      BY <3>1, <3>2, <3>3, <1>8 DEF SameJobs
  <2> HIDE DEF limited
  <2>2. Jobs(limited, {})
    BY <2>1, <1>8, <1>9, SameJobsKeepsJobs
  <2>3. Quiet(limited, t) /\ t.queue = <<>> /\ Plain(limited, t)
    BY <2>1, <2>2, <1>11, <1>12, JobsCalm, FailPending
  <2>10. Plain(charged, limited)
    BY <2>1, PlainSame DEF Same, SameJobs
  <2>4. Jobs(t, {})
    BY <2>1, <2>2, <2>3, QuietQueue DEF Quiet, Frame
  <2>5. Keeps(s, t)
    BY <2>1, <2>3, <1>9 DEF SameJobs, Quiet, Keeps, settled
  <2>6. Supervised(t) /\ Busy(t)
    <3>1. Awaited(t)
      BY <2>1, <2>3, <1>9, <1>10 DEF SameJobs, Quiet, Frame
    <3> QED
      BY <3>1, <2>1, <2>3 DEF Supervised, Busy, Quiet, Frame
  <2>7. t.submitted = s.submitted /\ t.request = s.request /\ t.starts >= s.starts
    BY <2>1, <2>3, <1>9, Fields DEF SameJobs, Quiet, Frame
  <2>8. Carries(charged, limited)
    BY <2>1, <1>8, SameNewest DEF SameJobs, queued
  <2>9. Carries(limited, t)
    BY <2>1, <2>2, <2>3, QuietNewest DEF Quiet, Frame
  <2> QED
    BY <2>3, <2>4, <2>5, <2>6, <2>7, <2>8, <2>9, <2>10, <1>14, <1>15, PlainTrans
    DEF Handled, Carries
<1>13. CASE ~(charged.failures > MaxWorkerReplacements)
  <2>1. t = start_worker(charged, made)
    BY <1>11, <1>13
  <2>2. /\ SameJobs(charged, t) /\ t.active = None /\ t.disposed = FALSE
        /\ t.ready = FALSE /\ t.waiters = <<>> /\ t.callbacks = calls
        /\ t.worker # None <=> ~t.unavailable
    <3>1. /\ SameJobs(charged, t) /\ t.active = charged.active /\ t.disposed = charged.disposed
          /\ t.waiters = charged.waiters /\ t.callbacks = charged.callbacks
          /\ IF made THEN t.worker # None /\ ~t.ready /\ t.unavailable = charged.unavailable
             ELSE t.worker = None /\ t.ready = charged.ready /\ t.unavailable
      BY <2>1, <1>8, StartWorker
    <3>2. t.ready \in BOOLEAN
      BY <3>1, Fields DEF SameJobs
    <3> QED
      BY <3>1, <3>2, <1>8
  <2>3. Jobs(t, {})
    BY <2>2, <1>8, <1>9, SameJobsKeepsJobs
  <2>4. Keeps(s, t)
    BY <2>2, <1>9 DEF SameJobs, Keeps, settled
  <2>5. Supervised(t) /\ Busy(t)
    <3>1. Awaited(t)
      BY <2>2, <1>9, <1>10 DEF SameJobs
    <3> QED
      BY <3>1, <2>2 DEF Supervised, Busy
  <2>6. t.submitted = s.submitted /\ t.request = s.request /\ t.starts >= s.starts
    BY <2>2, <1>8, <1>9 DEF SameJobs
  <2>7. Carries(charged, t)
    BY <2>2, <1>8, SameNewest DEF SameJobs, queued
  <2>8. Plain(charged, t)
    BY <2>2, PlainSame DEF Same, SameJobs
  <2> QED
    BY <2>3, <2>4, <2>5, <2>6, <2>7, <2>8, <1>14, <1>15, PlainTrans DEF Handled, Carries
<1> QED
  BY <1>12, <1>13

\* The head of the queue becomes the active job.
LEMMA TakeHead ==
  ASSUME NEW s \in ServiceState, Jobs(s, {}), s.active = None, s.queue # <<>>,
         NEW t \in ServiceState,
         t.queue = SubSeq(s.queue, 2, Len(s.queue)), t.active = s.queue[1],
         t.submitted = s.submitted, t.request = s.request, t.obsolete = s.obsolete,
         t.stage = s.stage, \A j \in Job : t.outcome[j] = s.outcome[j],
         \A p \in Panel : t.latest[p] = s.latest[p]
  PROVE  Jobs(t, {}) /\ Carries(s, t)
<1> DEFINE n == Len(s.queue)
<1>1. n \in Nat \ {0} /\ \A i \in 1..n : s.queue[i] \in Job
  BY Fields
<1>2. None \notin Job /\ \A j \in Job : j \in Nat
  BY ConstantsAssumption DEF Job, None
<1>3. Len(t.queue) = n - 1 /\ \A i \in 1..(n - 1) : t.queue[i] = s.queue[i + 1]
  BY <1>1, Fields
<1>4. queued(t) = {s.queue[i] : i \in 2..n}
  <2>1. \A i \in 1..(n - 1) : i + 1 \in 2..n
    BY <1>1
  <2>2. \A i \in 2..n : i - 1 \in 1..(n - 1) /\ t.queue[i - 1] = s.queue[i]
    BY <1>1, <1>3
  <2> QED
    BY <1>3, <2>1, <2>2 DEF queued
<1>5. /\ queued(t) \subseteq queued(s)
      /\ \A j \in queued(s) : j = s.queue[1] \/ j \in queued(t)
      /\ s.queue[1] \in queued(s)
  <2>1. \A i \in 1..n : i = 1 \/ i \in 2..n
    BY <1>1
  <2>2. 2..n \subseteq 1..n /\ 1 \in 1..n
    BY <1>1
  <2> QED
    BY <2>1, <2>2, <1>4 DEF queued
<1>6. Queue(t)
  <2>1. Increasing(t)
    BY <1>1, <1>3 DEF Jobs, Queue, Increasing
  <2>2. Len(t.queue) <= MaxPending
    BY <1>1, <1>3, ConstantsAssumption DEF Jobs, Queue
  <2>3. \A j \in queued(t) : live(t, j) /\ submitted(t, j)
    BY <1>5, QueuedJobs DEF Jobs, Queue, live, settled, submitted
  <2> QED
    BY <2>1, <2>2, <2>3 DEF Queue
<1>7. Owner(t, {})
  <2> SUFFICES ASSUME NEW j \in Job, submitted(t, j), ~settled(t, j)
               PROVE  t.active = j \/ j \in queued(t)
    BY DEF Owner
  <2>1. submitted(s, j) /\ ~settled(s, j)
    BY DEF submitted, settled
  <2>2. j \in queued(s)
    BY <2>1, <1>2 DEF Jobs, Owner
  <2> QED
    BY <2>2, <1>5
<1>8. ActiveJob(t)
  <2>1. \A i \in 2..n : s.queue[1] < s.queue[i]
    BY <1>1 DEF Jobs, Queue, Increasing
  <2>2. ~settled(t, t.active) /\ submitted(t, t.active)
    BY <1>1, <1>5 DEF Jobs, Queue, live, settled, submitted
  <2> QED
    BY <2>1, <2>2, <1>4 DEF ActiveJob
<1>9. Fresh(t)
  BY DEF Jobs, Fresh, submitted
<1>10. Carries(s, t)
  <2>1. \A j : Current(s, j) => Current(t, j)
    BY DEF Current, Request, panelOf
  <2> QED
    BY <2>1, <1>5 DEF Carries, Newest, Waiting, panelOf
<1> QED
  BY <1>6, <1>7, <1>8, <1>9, <1>10 DEF Jobs

LEMMA Dispatch ==
  ASSUME NEW s \in ServiceState, Jobs(s, {}), Supervised(s),
         NEW made \in BOOLEAN, NEW t, t = dispatch_next(s, made)
  PROVE  Handled(s, t) /\ Carries(s, t) /\ (Waiting(s) => Plain(s, t))
<1> DEFINE idle == ~(s.disposed \/ s.unavailable \/ ~s.ready \/ s.worker = None
                     \/ s.active # None \/ s.queue = <<>>)
<1>1. CASE ~idle
  <2>1. t = s
    BY <1>1 DEF dispatch_next
  <2>2. Busy(s)
    BY <1>1 DEF Supervised, Busy
  <2>3. s.starts >= s.starts
    BY Fields
  <2> QED
    BY <2>1, <2>2, <2>3, PlainSame DEF Handled, Keeps, Carries, Same
<1>2. CASE idle
  <2> DEFINE runnable == {i \in 1..Len(s.queue) : live(s, s.queue[i])}
             first == IF runnable = {} THEN Len(s.queue) + 1
                      ELSE CHOOSE i \in runnable : \A k \in runnable : i <= k
             skipped == {s.queue[i] : i \in 1..(first - 1)}
             next == [s EXCEPT !.queue = SubSeq(s.queue, first + 1, Len(s.queue))]
             shifted == settle(next, skipped, s.obsolete)
             job == s.queue[first]
             started == [shifted EXCEPT !.active = job]
             running == emit(started, job, "started")
  <2>1. Len(s.queue) \in Nat \ {0} /\ \A i \in 1..Len(s.queue) : s.queue[i] \in Job
    BY <1>2, Fields
  <2>2. runnable = 1..Len(s.queue) /\ runnable # {}
    BY <2>1 DEF Jobs, Queue, queued
  <2>3. t = IF s.worker \in deaf THEN replace_worker(running, made) ELSE running
    BY <1>2, <2>2 DEF dispatch_next
  <2>4. first = 1
    <3>1. 1 \in runnable /\ \A k \in runnable : 1 <= k
      BY <2>1, <2>2
    <3>2. \A i \in runnable : (\A k \in runnable : i <= k) => i = 1
      BY <3>1, <2>1, <2>2
    <3> HIDE DEF runnable
    <3> QED
      BY <3>1, <3>2, <2>2
  <2> HIDE DEF first
  <2>5. skipped = {} /\ job = s.queue[1] /\ job \in Job
    BY <2>1, <2>4
  <2>6. next \in ServiceState /\ next.queue = SubSeq(s.queue, 2, Len(s.queue))
    <3> DEFINE rest == SubSeq(s.queue, 2, Len(s.queue))
    <3>1. rest \in Seq(Job)
      BY Fields
    <3>2. next = [s EXCEPT !.queue = rest]
      BY <2>4
    <3> HIDE DEF rest, next
    <3>3. next \in ServiceState /\ next.queue = rest
      BY <3>1, <3>2 DEF ServiceState
    <3> QED
      BY <3>3 DEF rest
  <2>7. Frame(s, next) /\ next.obsolete = s.obsolete /\ next.outcome = s.outcome
        /\ next.latest = s.latest /\ next.stage = s.stage
    BY DEF ServiceState, Frame
  <2> HIDE DEF next, skipped, job
  <2>8. Settling(next, shifted, {}, s.obsolete)
    BY <2>5, <2>6, Settle
  <2> HIDE DEF shifted
  <2>9. /\ shifted \in ServiceState /\ Frame(s, shifted) /\ shifted.queue = next.queue
        /\ shifted.obsolete = s.obsolete /\ shifted.stage = s.stage
        /\ \A j \in Job : shifted.outcome[j] = s.outcome[j]
        /\ \A p \in Panel : shifted.latest[p] = s.latest[p]
    BY <2>7, <2>8 DEF Settling, Frame
  <2>10. started \in ServiceState
    BY <2>5, <2>9 DEF ServiceState
  <2>11. /\ started.queue = next.queue /\ started.obsolete = s.obsolete
         /\ started.outcome = shifted.outcome /\ started.latest = shifted.latest
         /\ started.active = job /\ started.stage = s.stage
         /\ started.submitted = s.submitted /\ started.request = s.request
         /\ started.worker = s.worker /\ started.starts = s.starts /\ started.ready = s.ready
         /\ started.waiters = s.waiters /\ started.callbacks = s.callbacks
         /\ started.unavailable = s.unavailable /\ started.disposed = s.disposed
    BY <2>9 DEF ServiceState, Frame
  <2> HIDE DEF started
  <2>12. Jobs(started, {}) /\ Carries(s, started)
    BY <1>2, <2>5, <2>6, <2>9, <2>10, <2>11, TakeHead
  <2>13. Supervised(started) /\ Keeps(s, started)
    BY <1>2, <2>9, <2>11 DEF Supervised, Awaited, Keeps
  <2>14. submitted(started, job) /\ job # None
    BY <2>5, <2>11, <2>12, ConstantsAssumption DEF Jobs, ActiveJob, Job, None
  <2>15. /\ Quiet(started, running) /\ running.outcome = started.outcome
         /\ Only(started, running, job)
         /\ Heard(started, running, job, "started") \/ \A V, S : Fate(started, running, job, V, S)
    BY <2>5, <2>10, <2>11, <2>12, <2>14, JobsCalm, Emit DEF Stage, Calm
  <2> HIDE DEF running
  <2>16. /\ running \in ServiceState /\ running.active = job /\ running.worker = s.worker
         /\ running.submitted = s.submitted /\ running.request = s.request
         /\ running.starts = s.starts
    BY <2>11, <2>15 DEF Quiet, Frame
  <2>17. Jobs(running, {})
    <3>1. running.active # None => ~settled(running, running.active)
      BY <2>11, <2>12, <2>14, <2>15, <2>16 DEF Jobs, ActiveJob, settled
    <3> QED
      BY <3>1, <2>10, <2>12, <2>15, QuietQueue
  <2>18. Supervised(running) /\ Busy(running) /\ Keeps(s, running)
    BY <2>10, <2>13, <2>14, <2>15, <2>16, QuietSupervised, KeepsTrans DEF Busy, Quiet
  <2>21. Carries(s, running)
    <3>1. running.active # None => ~settled(running, running.active)
      BY <2>17 DEF Jobs, ActiveJob
    <3>2. Carries(started, running)
      BY <3>1, <2>10, <2>12, <2>15, QuietNewest
    <3> QED
      BY <3>2, <2>12 DEF Carries
  <2>22. ASSUME Waiting(s)
         PROVE  Plain(s, running)
    <3>1. Plain(s, started)
      BY <2>9, <2>11, PlainSame DEF Same
    <3>2. started.stage[job] \in {"silent", "queued"}
      BY <2>1, <2>5, <2>11, <2>22 DEF Waiting, queued
    <3>3. ASSUME NEW V, NEW S
          PROVE  Fate(started, running, job, V, S)
      BY <3>2, <2>14, <2>15
      DEF Heard, live, settled, Fate, Excused, Ruled, Informed, Onward
    <3>4. Plain(started, running)
      <4>1. running.submitted = started.submitted /\ running.request = started.request
        BY <2>11, <2>16
      <4> QED
        BY <4>1, <3>3, <2>15, FateOf DEF Plain
    <3> QED
      BY <3>1, <3>4, PlainTrans
  <2>19. CASE s.worker \in deaf
    <3>1. Handled(running, t) /\ Carries(running, t) /\ Plain(running, t)
      BY <1>2, <2>3, <2>16, <2>17, <2>18, <2>19, ReplaceWorker
    <3> QED
      BY <3>1, <2>16, <2>18, <2>21, <2>22, KeepsTrans, PlainTrans DEF Handled, Carries
  <2>20. CASE s.worker \notin deaf
    <3>1. running.starts >= s.starts
      BY <2>16, Fields
    <3> QED
      BY <3>1, <2>3, <2>16, <2>17, <2>18, <2>20, <2>21, <2>22 DEF Handled
  <2> QED
    BY <2>19, <2>20
<1> QED
  BY <1>1, <1>2

-----------------------------------------------------------------------------
(* The event handlers: each returns a state that satisfies the invariant,  *)
(* and changes no promise that was settled.                                *)

\* What the handlers use of the invariant.
LEMMA Before ==
  ASSUME IInv
  PROVE  /\ svc \in ServiceState
         /\ Jobs(svc, {}) /\ Supervised(svc) /\ Busy(svc) /\ Waiting(svc)
         /\ svc.active # None => svc.active \in Job /\ submitted(svc, svc.active)
         /\ svc.starts >= svc.starts
         /\ Made \subseteq BOOLEAN
<1>1. svc \in ServiceState /\ Jobs(svc, {}) /\ Supervised(svc) /\ Busy(svc) /\ Waiting(svc)
  BY DEF IInv, Jobs
<1>2. svc.active # None => svc.active \in Job /\ submitted(svc, svc.active)
  BY <1>1, Fields DEF Jobs, ActiveJob
<1>3. svc.starts >= svc.starts
  BY <1>1, Fields
<1>4. Made \subseteq BOOLEAN
  BY DEF Made
<1> QED
  BY <1>1, <1>2, <1>3, <1>4

\* A handler gives a verdict to the job that was running at most, and
\* supersedes none: only submit() does.
Returned(t) ==
  Handled(svc, t) /\ Carries(svc, t) /\ Fates(svc, t, {svc.active}, {})

LEMMA Unchanged ==
  ASSUME IInv
  PROVE  Returned(svc)
<1>1. Plain(svc, svc)
  BY PlainSame DEF Same
<1> QED
  BY <1>1, Before DEF Returned, Plain, Handled, Keeps, Carries

\* Handlers that only settle jobs and take them off the queue.
LEMMA QuietHandled ==
  ASSUME NEW s \in ServiceState, NEW t, Jobs(s, {}), Supervised(s), Busy(s), Quiet(s, t),
         t.active # None => ~settled(t, t.active),
         t.outcome = s.outcome
  PROVE  Handled(s, t) /\ Carries(s, t)
<1>1. Jobs(t, {}) /\ Supervised(t) /\ Busy(t)
  BY QuietQueue, QuietSupervised
<1>2. t.starts >= s.starts
  BY Fields DEF Quiet, Frame
<1>3. Carries(s, t)
  BY QuietNewest
<1> QED
  BY <1>1, <1>2, <1>3 DEF Handled, Quiet, Frame

\* What a handler does before it dispatches.
Continues(s, t) ==
  /\ t \in ServiceState /\ Keeps(s, t)
  /\ t.submitted = s.submitted /\ t.request = s.request /\ t.starts = s.starts

LEMMA ThenHandled ==
  ASSUME NEW s, NEW t, NEW u, Continues(s, t), Handled(t, u)
  PROVE  Handled(s, u) /\ (Carries(s, t) /\ Carries(t, u) => Carries(s, u))
BY KeepsTrans DEF Continues, Handled, Carries

LEMMA ThenReturned ==
  ASSUME NEW t, NEW u, Continues(svc, t), Carries(svc, t), Plain(svc, t),
         Handled(t, u), Carries(t, u), Plain(t, u)
  PROVE  Returned(u)
BY ThenHandled, PlainTrans DEF Returned, Plain

LEMMA LoseWorkerHandled ==
  ASSUME IInv, NEW w \in Worker, NEW made \in Made
  PROVE  Returned(lose_worker(w, made))
<1>1. CASE w = svc.worker
  <2>1. svc.worker # None
    BY <1>1 DEF Worker, None
  <2> QED
    BY <1>1, <2>1, Before, ReplaceWorker DEF lose_worker, Returned, Plain
<1>2. CASE w # svc.worker
  BY <1>2, Unchanged DEF lose_worker
<1> QED
  BY <1>1, <1>2

LEMMA InitializedHandled ==
  ASSUME IInv, NEW w \in Worker, NEW made \in Made, Initialized(w, made)
  PROVE  Returned(svc')
<1> DEFINE s == [svc EXCEPT !.ready = TRUE, !.waiters = <<>>]
<1>1. svc' = dispatch_next(s, made) /\ svc.callbacks = <<>> /\ ~svc.disposed
  BY DEF Initialized, Idle, Installed
<1>2. w = svc.worker /\ svc.worker # None
  BY DEF Initialized, Installed, Worker, None
<1>3. s \in ServiceState
  <2>1. <<>> \in Seq(Job)
    OBVIOUS
  <2> QED
    BY <2>1, Before DEF ServiceState
<1>4. /\ s.submitted = svc.submitted /\ s.request = svc.request /\ s.obsolete = svc.obsolete
      /\ s.outcome = svc.outcome /\ s.queue = svc.queue /\ s.latest = svc.latest
      /\ s.active = svc.active /\ s.worker = svc.worker /\ s.starts = svc.starts
      /\ s.ready = TRUE /\ s.waiters = <<>> /\ s.callbacks = svc.callbacks
      /\ s.stage = svc.stage
      /\ s.unavailable = svc.unavailable /\ s.disposed = svc.disposed
  BY Before DEF ServiceState
<1> HIDE DEF s
<1>5. Jobs(s, {})
  BY <1>3, <1>4, Before, SameJobsKeepsJobs DEF SameJobs
<1>6. Supervised(s)
  <2>1. Awaited(s)
    BY <1>1, <1>4 DEF Awaited
  <2> QED
    BY <2>1, <1>1, <1>2, <1>4, Before DEF Supervised
<1>7. Continues(svc, s)
  BY <1>3, <1>4 DEF Continues, Keeps
<1>8. Handled(s, svc') /\ Carries(s, svc') /\ (Waiting(s) => Plain(s, svc'))
  BY <1>1, <1>3, <1>5, <1>6, Before, Dispatch
<1>9. Carries(svc, s)
  BY <1>4, SameNewest DEF queued
<1>10. Plain(svc, s)
  BY <1>4, PlainSame DEF Same
<1>11. Waiting(s)
  BY <1>9, Before DEF Carries
<1> QED
  BY <1>7, <1>8, <1>9, <1>10, <1>11, ThenReturned

LEMMA ProgressHandled ==
  ASSUME IInv, NEW w \in Worker, Progress(w)
  PROVE  Returned(svc')
<1>1. svc' = emit(svc, svc.active, "lap") /\ svc.active # None
  BY DEF Progress, Running
<1> DEFINE job == svc.active
<1>2. /\ Quiet(svc, svc') /\ Only(svc, svc', job) /\ svc'.outcome = svc.outcome
      /\ Heard(svc, svc', job, "lap") \/ \A V, S : Fate(svc, svc', job, V, S)
  BY <1>1, Before, JobsCalm, Emit DEF Stage, Calm
<1>3. svc'.active # None => ~settled(svc', svc'.active)
  BY <1>2, Before DEF Quiet, Frame, Jobs, ActiveJob, settled
<1>4. /\ svc.stage[job] \in {"silent", "queued", "started", "lap"}
      /\ submitted(svc, job) /\ ~settled(svc, job)
  <2>1. submitted(svc, job) /\ ~settled(svc, job) /\ job \in Job
    BY <1>1, Before DEF Jobs, ActiveJob
  <2>2. Agreed(svc, job) /\ svc.stage[job] \in Stage
    BY <2>1, Before, Fields DEF IInv, Told
  <2> QED
    BY <2>1, <2>2 DEF Agreed, settled, Stage, FinalStage
<1>5. Fate(svc, svc', job, {job}, {})
  BY <1>2, <1>4 DEF Heard, live, settled, Fate, Same, Excused, Ruled, Informed, Onward
<1>6. Fates(svc, svc', {job}, {})
  <2>1. svc'.submitted = svc.submitted /\ svc'.request = svc.request
    BY <1>2 DEF Quiet, Frame
  <2> QED
    BY <2>1, <1>2, <1>5, FateOf
<1> QED
  BY <1>2, <1>3, <1>6, Before, QuietHandled DEF Returned

\* The result of a run that is over.
LEMMA Finish ==
  ASSUME NEW s \in ServiceState, NEW j \in Job, Jobs(s, {j}), submitted(s, j),
         s.active = None, j \notin queued(s), NEW status \in {"verified", "failed", "cancelled"},
         status = "cancelled" => s.obsolete[j] # "no",
         NEW t, t = finish(s, j, status)
  PROVE  Jobs(t, {}) /\ Quiet(s, t) /\ t.active = None /\ Fates(s, t, {j}, {})
<1>1. CASE s.obsolete[j] # "no"
  BY <1>1, Release DEF finish, Plain
<1>2. CASE s.obsolete[j] = "no"
  <2> DEFINE u == emit(s, j, final_event(status))
  <2>1. t = settle_result(u, j, status)
    BY <1>2 DEF finish
  <2>2. final_event(status) \in Stage /\ status \in Outcome \ {"pending"}
    BY DEF final_event, Stage, Outcome
  <2> DEFINE event == final_event(status)
  <2>3. /\ Quiet(s, u) /\ Only(s, u, j)
        /\ \/ Heard(s, u, j, event)
           \/ /\ live(s, j) /\ s.active # j => settled(u, j)
              /\ \A V, S : Fate(s, u, j, V, S)
    BY <2>2, JobsCalm, Emit
  <2> HIDE DEF u
  <2>4. u \in ServiceState /\ Calm(u) /\ j \notin queued(u) /\ submitted(u, j)
    BY <2>3, JobsCalm, QuietCalm DEF Quiet, Shrinks, Frame, submitted
  <2>5. /\ Quiet(u, t) /\ Only(u, t, j) /\ settled(t, j)
        /\ t.stage = u.stage /\ t.obsolete = u.obsolete
        /\ t.outcome[j] = IF settled(u, j) THEN u.outcome[j] ELSE status
    BY <2>1, <2>2, <2>4, SettleResult DEF Calm
  <2>8. Fate(s, t, j, {j}, {})
    <3>1. CASE Heard(s, u, j, event)
      <4>1. status \in {"verified", "failed"}
        BY <1>2
      <4>2. ~settled(s, j) /\ u.stage[j] = event /\ t.stage[j] = event
            /\ t.outcome[j] = status /\ t.obsolete[j] = "no"
        BY <3>1, <1>2, <2>5 DEF Heard, live, settled
      <4>3. \/ event = "completed" /\ status = "verified"
            \/ event = "failed" /\ status = "failed"
        BY <4>1 DEF final_event
      <4> HIDE DEF event
      <4> QED
        BY <4>2, <4>3, <1>2 DEF Fate, Excused, Ruled, Informed
    <3>2. CASE ~Heard(s, u, j, event)
      <4>1. Fate(s, u, j, {j}, {}) /\ (live(s, j) /\ s.active # j => settled(u, j))
        BY <3>2, <2>3
      <4>2. None \notin Job
        BY ConstantsAssumption DEF Job, None
      <4>3. settled(u, j)
        BY <4>1, <4>2, <1>2 DEF live, Fate, Same, settled
      <4>4. Fate(u, t, j, {j}, {})
        BY <4>3, <2>5, SameFate DEF Same
      <4> QED
        BY <4>1, <4>4, <2>3, FateTrans DEF Quiet, Frame
    <3> QED
      BY <3>1, <3>2
  <2>9. Only(s, t, j)
    BY <2>3, <2>5, OnlyTrans
  <2>6. Quiet(s, t)
    BY <2>3, <2>4, <2>5, QuietTrans DEF Quiet
  <2>7. t.active = None /\ t.submitted = s.submitted /\ t.request = s.request
    BY <2>6 DEF Quiet, Frame
  <2>10. Fates(s, t, {j}, {})
    BY <2>7, <2>8, <2>9, FateOf
  <2> QED
    BY <2>5, <2>6, <2>7, <2>10, QuietQueue, LooseSettled
<1> QED
  BY <1>1, <1>2

\* A ready worker whose run is over is given the next job.
LEMMA RunOver ==
  ASSUME IInv, svc.active # None, NEW free \in ServiceState,
         free.submitted = svc.submitted, free.request = svc.request,
         free.obsolete = svc.obsolete, free.outcome = svc.outcome, free.queue = svc.queue,
         free.latest = svc.latest, free.stage = svc.stage, free.active = None, free.worker = svc.worker,
         free.starts = svc.starts, free.ready = svc.ready, free.waiters = svc.waiters,
         free.callbacks = svc.callbacks, free.unavailable = svc.unavailable,
         free.disposed = svc.disposed
  PROVE  /\ Jobs(free, {svc.active}) /\ svc.active \in Job
         /\ svc.active \notin queued(free) /\ submitted(free, svc.active)
         /\ \A s, t : \A made \in Made :
              /\ Jobs(s, {}) /\ Quiet(free, s) /\ Fates(free, s, {svc.active}, {})
              /\ t = dispatch_next(s, made)
              => Returned(t)
<1>1. /\ Jobs(free, {svc.active}) /\ svc.active \in Job
      /\ svc.active \notin queued(free) /\ submitted(free, svc.active)
  BY Before, Detach
<1>2. Supervised(free)
  BY Before DEF Supervised, Awaited
<1>3. ASSUME NEW s, NEW made \in Made, NEW t, Jobs(s, {}), Quiet(free, s),
             Fates(free, s, {svc.active}, {}), t = dispatch_next(s, made)
      PROVE  Returned(t)
  <2>1. s \in ServiceState /\ Supervised(s)
    BY <1>2, <1>3, QuietSupervised DEF Quiet
  <2>2. Handled(s, t) /\ Carries(s, t) /\ (Waiting(s) => Plain(s, t))
    BY <1>3, <2>1, Before, Dispatch
  <2>3. Continues(svc, s)
    BY <1>3, <2>1 DEF Continues, Quiet, Frame, Keeps, settled
  <2>4. Carries(svc, free)
    BY SameNewest DEF queued
  <2>5. Carries(free, s)
    BY <1>1, <1>3, QuietNewest DEF Quiet, Frame
  <2>6. Carries(svc, s) /\ Waiting(s)
    BY <2>4, <2>5, Before DEF Carries
  <2>7. Plain(svc, free)
    BY PlainSame DEF Same
  <2>8. Fates(svc, t, {svc.active}, {})
    BY <1>3, <2>2, <2>6, <2>7, FatesTrans DEF Plain
  <2> QED
    BY <2>2, <2>3, <2>6, <2>8, ThenHandled DEF Returned
<1> QED
  BY <1>1, <1>3

LEMMA FailedHandled ==
  ASSUME IInv, NEW w \in Worker, NEW made \in Made, Failed(w, made)
  PROVE  Returned(svc')
<1> DEFINE job == svc.active
           free == [svc EXCEPT !.active = None]
           released == IF svc.obsolete[job] # "no" THEN settle_obsolete(free, job)
                       ELSE settle_error(free, job)
<1>1. svc.active # None /\ svc' = dispatch_next(released, made)
  BY DEF Failed, Running
<1>2. free \in ServiceState
  BY Before DEF ServiceState
<1>3. /\ free.submitted = svc.submitted /\ free.request = svc.request
      /\ free.obsolete = svc.obsolete /\ free.outcome = svc.outcome /\ free.queue = svc.queue
      /\ free.latest = svc.latest /\ free.active = None /\ free.worker = svc.worker
      /\ free.starts = svc.starts /\ free.ready = svc.ready /\ free.waiters = svc.waiters
      /\ free.callbacks = svc.callbacks /\ free.unavailable = svc.unavailable
      /\ free.disposed = svc.disposed /\ free.stage = svc.stage
  BY Before DEF ServiceState
<1> HIDE DEF free
<1>4. /\ Jobs(free, {job}) /\ job \in Job /\ job \notin queued(free) /\ submitted(free, job)
      /\ \A s, t : \A m \in Made :
           /\ Jobs(s, {}) /\ Quiet(free, s) /\ Fates(free, s, {job}, {})
           /\ t = dispatch_next(s, m)
           => Returned(t)
  BY <1>1, <1>2, <1>3, RunOver
<1>5. \/ released = settle_error(free, job)
      \/ free.obsolete[job] # "no" /\ released = settle_obsolete(free, job)
  BY <1>3
<1> HIDE DEF released
<1>6. Jobs(released, {}) /\ Quiet(free, released) /\ Fates(free, released, {job}, {})
  BY <1>2, <1>3, <1>4, <1>5, Release DEF Plain
<1> QED
  BY <1>1, <1>4, <1>6

LEMMA CompleteHandled ==
  ASSUME IInv, NEW w \in Worker, NEW status \in {"verified", "failed", "cancelled"},
         NEW made \in Made, Complete(w, status, made)
  PROVE  Returned(svc')
<1> DEFINE job == svc.active
           free == [svc EXCEPT !.active = None, !.failures = 0]
           finished == finish(free, job, status)
<1>1. svc.active # None /\ svc' = dispatch_next(finished, made)
      /\ (status = "cancelled" => svc.obsolete[job] # "no")
  BY DEF Complete, Running
<1>2. free \in ServiceState
  BY Before DEF ServiceState
<1>3. /\ free.submitted = svc.submitted /\ free.request = svc.request
      /\ free.obsolete = svc.obsolete /\ free.outcome = svc.outcome /\ free.queue = svc.queue
      /\ free.latest = svc.latest /\ free.active = None /\ free.worker = svc.worker
      /\ free.starts = svc.starts /\ free.ready = svc.ready /\ free.waiters = svc.waiters
      /\ free.callbacks = svc.callbacks /\ free.unavailable = svc.unavailable
      /\ free.disposed = svc.disposed /\ free.stage = svc.stage
  BY Before DEF ServiceState
<1> HIDE DEF free
<1>4. /\ Jobs(free, {job}) /\ job \in Job /\ job \notin queued(free) /\ submitted(free, job)
      /\ \A s, t : \A m \in Made :
           /\ Jobs(s, {}) /\ Quiet(free, s) /\ Fates(free, s, {job}, {})
           /\ t = dispatch_next(s, m)
           => Returned(t)
  BY <1>1, <1>2, <1>3, RunOver
<1>5. Jobs(finished, {}) /\ Quiet(free, finished) /\ Fates(free, finished, {job}, {})
  BY <1>1, <1>2, <1>3, <1>4, Finish
<1> HIDE DEF finished
<1> QED
  BY <1>1, <1>4, <1>5

LEMMA StartupRejectedHandled ==
  ASSUME IInv, StartupRejected
  PROVE  Returned(svc') /\ svc'.worker = svc.worker
<1> DEFINE job == Head(svc.callbacks)
           called == [svc EXCEPT !.callbacks = Tail(svc.callbacks)]
           removed == remove_pending(called, job)
<1>1. svc.callbacks # <<>> /\ svc' = settle_error(removed, job)
  BY DEF StartupRejected, Idle
<1>2. /\ Tail(svc.callbacks) \in Seq(Job) /\ job \in Job /\ job <= svc.submitted
      /\ \A i \in 1..Len(Tail(svc.callbacks)) : Tail(svc.callbacks)[i] <= svc.submitted
  <2>1. svc.callbacks \in Seq(Job) /\ Len(svc.callbacks) \in Nat \ {0}
    BY <1>1, Before, Fields
  <2>2. \A i \in 1..Len(svc.callbacks) : svc.callbacks[i] <= svc.submitted
    BY Before DEF Supervised, Awaited
  <2>3. job = svc.callbacks[1] /\ 1 \in 1..Len(svc.callbacks)
    BY <1>1, <2>1
  <2>4. \A i \in 1..Len(Tail(svc.callbacks)) :
          i + 1 \in 1..Len(svc.callbacks) /\ Tail(svc.callbacks)[i] = svc.callbacks[i + 1]
    BY <1>1, <2>1
  <2> QED
    BY <1>1, <2>1, <2>2, <2>3, <2>4
<1>3. called \in ServiceState
  BY <1>2, Before DEF ServiceState
<1>4. /\ called.submitted = svc.submitted /\ called.request = svc.request
      /\ called.obsolete = svc.obsolete /\ called.outcome = svc.outcome
      /\ called.queue = svc.queue /\ called.latest = svc.latest
      /\ called.active = svc.active /\ called.worker = svc.worker
      /\ called.starts = svc.starts /\ called.ready = svc.ready
      /\ called.waiters = svc.waiters /\ called.callbacks = Tail(svc.callbacks)
      /\ called.unavailable = svc.unavailable /\ called.disposed = svc.disposed
      /\ called.stage = svc.stage
  BY Before DEF ServiceState
<1>5. svc.ready = FALSE /\ svc.active = None
  BY <1>1, Before, Fields DEF Supervised
<1> HIDE DEF called, job
<1>6. Jobs(called, {})
  BY <1>3, <1>4, Before, SameJobsKeepsJobs DEF SameJobs
<1>7. Supervised(called) /\ Busy(called)
  BY <1>2, <1>4, <1>5, Before DEF Supervised, Awaited, Busy
<1>8. /\ removed \in ServiceState /\ Frame(called, removed) /\ Shrinks(called, removed)
      /\ removed.obsolete = called.obsolete /\ removed.outcome = called.outcome
      /\ removed.latest = called.latest /\ removed.stage = called.stage
      /\ queued(removed) = queued(called) \ {job}
  BY <1>2, <1>3, <1>6, Remove DEF Jobs, Queue
<1> HIDE DEF removed
<1>9. Jobs(removed, {job})
  <2>1. Queue(removed)
    <3>1. Len(removed.queue) <= MaxPending
      BY <1>3, <1>6, <1>8, Fields, ConstantsAssumption DEF Jobs, Queue, Shrinks
    <3> QED
      BY <3>1, <1>6, <1>8 DEF Jobs, Queue, Shrinks, Frame, live, settled, submitted
  <2>2. Owner(removed, {job}) /\ Fresh(removed)
    BY <1>6, <1>8 DEF Jobs, Owner, Fresh, Frame, settled, submitted
  <2>3. ActiveJob(removed)
    BY <1>4, <1>5, <1>8 DEF ActiveJob, Frame
  <2> QED
    BY <2>1, <2>2, <2>3, <1>8 DEF Jobs
<1>10. Supervised(removed) /\ Busy(removed)
  <2>1. called.queue = <<>> => removed.queue = <<>>
    BY <1>3, <1>8, Fields DEF Shrinks
  <2> QED
    BY <2>1, <1>7, <1>8 DEF Supervised, Awaited, Busy, Frame
<1>11. removed.active = None /\ submitted(removed, job) /\ job \notin queued(removed)
  BY <1>2, <1>4, <1>5, <1>8 DEF Frame, submitted
<1>12. Jobs(svc', {}) /\ Quiet(removed, svc') /\ Plain(removed, svc')
  BY <1>1, <1>2, <1>8, <1>9, <1>11, Release
<1>13. Handled(removed, svc')
  <2>1. Supervised(svc') /\ Busy(svc')
    BY <1>8, <1>10, <1>12, QuietSupervised
  <2>2. svc'.starts >= removed.starts
    BY <1>8, <1>12, Fields DEF Quiet, Frame
  <2> QED
    BY <2>1, <2>2, <1>12 DEF Handled, Quiet, Frame
<1>14. Continues(svc, removed)
  BY <1>4, <1>8 DEF Continues, Keeps, Frame
<1>15. Carries(svc, removed) /\ Carries(removed, svc')
  <2>1. Carries(svc, removed)
    <3>1. queued(called) = queued(svc)
      BY <1>4 DEF queued
    <3>2. removed.request = svc.request /\ removed.obsolete = svc.obsolete
          /\ removed.latest = svc.latest /\ removed.stage = svc.stage
      BY <1>4, <1>8 DEF Frame
    <3> QED
      BY <3>1, <3>2, <1>8, <1>11, SameNewest
  <2>2. Carries(removed, svc')
    BY <1>8, <1>9, <1>11, <1>12, QuietNewest DEF Quiet, Frame
  <2> QED
    BY <2>1, <2>2
<1>16. Plain(svc, removed)
  BY <1>4, <1>8, PlainSame DEF Same, Frame
<1>17. svc'.worker = svc.worker
  BY <1>4, <1>8, <1>12 DEF Quiet, Frame
<1> QED
  BY <1>12, <1>13, <1>14, <1>15, <1>16, <1>17, ThenReturned

LEMMA DisposeHandled ==
  ASSUME IInv, dispose
  PROVE  Returned(svc') /\ svc'.disposed
<1> DEFINE rejected == reject_startup([svc EXCEPT !.disposed = TRUE])
           errored == settle_error(rejected, svc.active)
           stopped == IF svc.active = None THEN rejected ELSE [errored EXCEPT !.active = None]
           emptied == fail_pending(stopped)
           latest == [p \in Panel |-> None]
           calls == svc.callbacks \o svc.waiters
<1>1. svc' = [emptied EXCEPT !.latest = latest, !.worker = None, !.ready = FALSE]
  BY DEF dispose
<1>2. rejected = [svc EXCEPT !.disposed = TRUE, !.callbacks = calls, !.waiters = <<>>]
  BY Before DEF reject_startup, ServiceState
<1>3. calls \in Seq(Job) /\ \A i \in 1..Len(calls) : calls[i] <= svc.submitted
  <2>1. svc.callbacks \in Seq(Job) /\ svc.waiters \in Seq(Job)
    BY Before, Fields
  <2>2. /\ \A i \in 1..Len(svc.waiters) : svc.waiters[i] <= svc.submitted
        /\ \A i \in 1..Len(svc.callbacks) : svc.callbacks[i] <= svc.submitted
    BY Before DEF Supervised, Awaited
  <2>3. calls \in Seq(Job)
    BY <2>1
  <2> QED
    BY <2>1, <2>2, <2>3, CallsInOrder
<1> HIDE DEF calls
<1>4. rejected \in ServiceState
  <2>1. <<>> \in Seq(Job)
    OBVIOUS
  <2> HIDE DEF rejected
  <2> QED
    BY <2>1, <1>2, <1>3, Before DEF ServiceState
<1>5. /\ rejected.submitted = svc.submitted /\ rejected.request = svc.request
      /\ rejected.obsolete = svc.obsolete /\ rejected.outcome = svc.outcome
      /\ rejected.queue = svc.queue /\ rejected.latest = svc.latest
      /\ rejected.active = svc.active /\ rejected.starts = svc.starts
      /\ rejected.waiters = <<>> /\ rejected.callbacks = calls /\ rejected.disposed = TRUE
      /\ rejected.stage = svc.stage
  <2> HIDE DEF rejected
  <2> QED
    BY <1>2, Before DEF ServiceState
<1> HIDE DEF rejected
<1>6. Jobs(rejected, {})
  BY <1>4, <1>5, Before, SameJobsKeepsJobs DEF SameJobs
<1>16. Plain(svc, rejected)
  BY <1>5, PlainSame DEF Same
<1>7. /\ Jobs(stopped, {}) /\ stopped.active = None /\ Keeps(svc, stopped)
      /\ Plain(rejected, stopped)
      /\ stopped.submitted = svc.submitted /\ stopped.request = svc.request
      /\ stopped.starts = svc.starts /\ stopped.disposed = TRUE
      /\ stopped.waiters = <<>> /\ stopped.callbacks = calls
  <2>1. CASE svc.active = None
    <3>1. Plain(rejected, rejected)
      BY PlainSame DEF Same
    <3> QED
      BY <2>1, <3>1, <1>5, <1>6 DEF Keeps, settled
  <2>2. CASE svc.active # None
    <3>1. svc.active \in Job /\ submitted(rejected, svc.active) /\ svc.active \notin queued(rejected)
      BY <2>2, <1>5, <1>6, Before, JobsCalm DEF Calm, submitted
    <3>2. Quiet(rejected, errored) /\ settled(errored, svc.active) /\ Plain(rejected, errored)
      BY <3>1, <1>4, <1>6, JobsCalm, SettleError
    <3> HIDE DEF errored
    <3>3. Queue(errored) /\ Owner(errored, {}) /\ Fresh(errored) /\ errored \in ServiceState
      BY <3>2, <1>4, <1>6, QuietParts DEF Quiet
    <3>4. stopped = [errored EXCEPT !.active = None]
      BY <2>2
    <3> HIDE DEF stopped
    <3>5. stopped \in ServiceState
      BY <3>3, <3>4 DEF ServiceState
    <3>6. /\ stopped.submitted = errored.submitted /\ stopped.request = errored.request
          /\ stopped.obsolete = errored.obsolete /\ stopped.outcome = errored.outcome
          /\ stopped.queue = errored.queue /\ stopped.latest = errored.latest
          /\ stopped.active = None /\ stopped.starts = errored.starts
          /\ stopped.waiters = errored.waiters /\ stopped.callbacks = errored.callbacks
          /\ stopped.disposed = errored.disposed /\ stopped.stage = errored.stage
      BY <3>3, <3>4 DEF ServiceState
    <3>7. Queue(stopped) /\ Fresh(stopped) /\ ActiveJob(stopped)
      BY <3>3, <3>6 DEF Queue, Increasing, queued, live, settled, submitted, Fresh, ActiveJob
    <3>8. errored.active = svc.active
      BY <3>2, <1>5 DEF Quiet, Frame
    <3>9. Owner(stopped, {})
      BY <3>2, <3>3, <3>6, <3>8 DEF Owner, queued, settled, submitted
    <3>10. Keeps(svc, stopped)
      BY <3>2, <3>6, <1>5 DEF Quiet, Keeps, settled
    <3>11. Plain(rejected, stopped)
      <4>1. Plain(errored, stopped)
        BY <3>6, PlainSame DEF Same
      <4> QED
        BY <4>1, <3>2, PlainTrans
    <3> QED
      BY <3>2, <3>5, <3>6, <3>7, <3>9, <3>10, <3>11, <1>5 DEF Jobs, Quiet, Frame
  <2> QED
    BY <2>1, <2>2
<1> HIDE DEF stopped
<1>8. Quiet(stopped, emptied) /\ emptied.queue = <<>> /\ Plain(stopped, emptied)
  BY <1>7, JobsCalm, FailPending
<1> HIDE DEF emptied
<1>9. /\ Jobs(emptied, {}) /\ emptied \in ServiceState /\ Keeps(svc, emptied)
      /\ emptied.active = None
      /\ emptied.submitted = svc.submitted /\ emptied.request = svc.request
      /\ emptied.starts = svc.starts /\ emptied.disposed = TRUE
      /\ emptied.waiters = <<>> /\ emptied.callbacks = calls
  <2>1. /\ emptied \in ServiceState /\ emptied.active = None
        /\ emptied.submitted = svc.submitted /\ emptied.request = svc.request
        /\ emptied.starts = svc.starts /\ emptied.disposed = TRUE
        /\ emptied.waiters = <<>> /\ emptied.callbacks = calls
    BY <1>7, <1>8 DEF Quiet, Frame
  <2>2. Jobs(emptied, {})
    BY <2>1, <1>7, <1>8, QuietQueue DEF Jobs
  <2>3. Keeps(svc, emptied)
    BY <1>7, <1>8, KeepsTrans DEF Quiet
  <2> QED
    BY <2>1, <2>2, <2>3
<1>10. svc' \in ServiceState
  <2>1. latest \in [Panel -> Job \cup {None}]
    OBVIOUS
  <2> HIDE DEF latest
  <2> QED
    BY <2>1, <1>1, <1>9 DEF ServiceState, None
<1>11. /\ svc'.submitted = emptied.submitted /\ svc'.request = emptied.request
       /\ svc'.obsolete = emptied.obsolete /\ svc'.outcome = emptied.outcome
       /\ svc'.queue = emptied.queue /\ svc'.latest = latest
       /\ svc'.active = emptied.active /\ svc'.starts = emptied.starts
       /\ svc'.waiters = emptied.waiters /\ svc'.callbacks = emptied.callbacks
       /\ svc'.disposed = emptied.disposed /\ svc'.worker = None /\ svc'.ready = FALSE
       /\ svc'.stage = emptied.stage
  <2> HIDE DEF latest
  <2> QED
    BY <1>1, <1>9 DEF ServiceState
<1>12. Jobs(svc', {})
  <2>1. Queue(svc') /\ Owner(svc', {}) /\ ActiveJob(svc')
    BY <1>9, <1>11
    DEF Jobs, Queue, Increasing, Owner, ActiveJob, queued, live, settled, submitted
  <2>2. Fresh(svc')
    BY <1>9, <1>11 DEF Jobs, Fresh, submitted
  <2> QED
    BY <2>1, <2>2, <1>10 DEF Jobs
<1>13. Supervised(svc') /\ Busy(svc')
  <2>1. Awaited(svc')
    <3>1. \A i \in 1..Len(svc'.callbacks) : svc'.callbacks[i] <= svc'.submitted
      BY <1>3, <1>9, <1>11
    <3>2. 1..Len(svc'.waiters) = {}
      BY <1>9, <1>11
    <3> QED
      BY <3>1, <3>2 DEF Awaited
  <2> QED
    BY <2>1, <1>8, <1>9, <1>11 DEF Supervised, Busy
<1>14. Keeps(svc, svc') /\ svc'.starts >= svc.starts
  BY <1>9, <1>11, Before DEF Keeps
<1>15. Newest(svc') /\ Waiting(svc')
  <2>1. \A p \in Panel : svc'.latest[p] = None
    BY <1>11 DEF latest
  <2> QED
    BY <2>1, <1>8, <1>9, <1>11, NothingNewest
<1>17. Plain(svc, svc')
  <2>1. Plain(emptied, svc')
    BY <1>11, PlainSame DEF Same
  <2> QED
    BY <2>1, <1>7, <1>8, <1>16, PlainTrans
<1> QED
  BY <1>9, <1>11, <1>12, <1>13, <1>14, <1>15, <1>17 DEF Returned, Handled, Carries, Plain

LEMMA SettleLoose ==
  ASSUME NEW s \in ServiceState, NEW j \in Job, Jobs(s, {j}), Supervised(s), Busy(s),
         s.active # j, j \notin queued(s), NEW t, Quiet(s, t), Only(s, t, j), settled(t, j)
  PROVE  Handled(s, t) /\ Carries(s, t)
<1>1. t.active # None => ~settled(t, t.active)
  BY Fields DEF Jobs, ActiveJob, Quiet, Frame, Only, settled
<1>2. Jobs(t, {})
  BY <1>1, QuietQueue, LooseSettled
<1>3. Supervised(t) /\ Busy(t)
  BY QuietSupervised
<1>4. t.starts >= s.starts
  BY Fields DEF Quiet, Frame
<1>5. Carries(s, t)
  BY <1>1, QueuedJobs, QuietNewest DEF Only
<1> QED
  BY <1>2, <1>3, <1>4, <1>5 DEF Handled, Quiet, Frame

\* A new job stands at the end of the queue.
LEMMA Enqueue ==
  ASSUME NEW s \in ServiceState, NEW j \in Job, Jobs(s, {j}), j = s.submitted, live(s, j),
         s.active # j, j \notin queued(s), panelOf(s, j) \in Panel, Len(s.queue) < MaxPending,
         NEW t, t = enqueue(s, j)
  PROVE  /\ Jobs(t, {}) /\ Frame(s, t) /\ queued(t) = queued(s) \cup {j}
         /\ t.outcome = s.outcome /\ t.obsolete = s.obsolete /\ t.stage = s.stage
<1> DEFINE latest == [s.latest EXCEPT ![panelOf(s, j)] = j]
           queue == Append(s.queue, j)
           n == Len(s.queue)
<1>1. t = [s EXCEPT !.latest = latest, !.queue = queue]
  BY DEF enqueue, ServiceState
<1>2. latest \in [Panel -> Job \cup {None}] /\ queue \in Seq(Job)
  BY Fields
<1>3. n \in Nat /\ Len(queue) = n + 1 /\ queue[n + 1] = j /\ \A i \in 1..n : queue[i] = s.queue[i]
  BY Fields
<1>4. \A p \in Panel : latest[p] \in {j, s.latest[p]}
  BY Fields
<1> HIDE DEF latest, queue
<1>5. t \in ServiceState
  BY <1>1, <1>2 DEF ServiceState
<1>6. /\ t.queue = queue /\ t.latest = latest
      /\ t.outcome = s.outcome /\ t.obsolete = s.obsolete /\ t.stage = s.stage /\ Frame(s, t)
  BY <1>1 DEF ServiceState, Frame
<1>7. queued(t) = queued(s) \cup {j}
  <2>1. 1..(n + 1) = (1..n) \cup {n + 1}
    BY <1>3
  <2> QED
    BY <2>1, <1>3, <1>6 DEF queued
<1>8. \A k \in queued(s) : k < j
  <2> SUFFICES ASSUME NEW k \in queued(s) PROVE k < j
    OBVIOUS
  <2>1. k \in Job /\ k <= j /\ k # j
    BY QueuedJobs DEF Jobs, Queue, submitted
  <2> QED
    BY <2>1, ConstantsAssumption DEF Job
<1>9. Queue(t)
  <2>1. Increasing(t)
    <3> SUFFICES ASSUME NEW i \in 1..(n + 1), NEW k \in 1..(n + 1), i < k
                 PROVE  queue[i] < queue[k]
      BY <1>3, <1>6 DEF Increasing
    <3>1. CASE k = n + 1
      <4>1. i \in 1..n
        BY <3>1, <1>3
      <4> QED
        BY <4>1, <3>1, <1>3, <1>8 DEF queued
    <3>2. CASE k # n + 1
      <4>1. i \in 1..n /\ k \in 1..n
        BY <3>2, <1>3
      <4> QED
        BY <4>1, <1>3 DEF Jobs, Queue, Increasing
    <3> QED
      BY <3>1, <3>2
  <2>2. Len(t.queue) <= MaxPending
    BY <1>3, <1>6, ConstantsAssumption
  <2>3. \A k \in queued(t) : live(t, k) /\ submitted(t, k)
    BY <1>6, <1>7, Fields, ConstantsAssumption
    DEF Jobs, Queue, Frame, live, settled, submitted, Job
  <2> QED
    BY <2>1, <2>2, <2>3 DEF Queue
<1>10. Owner(t, {})
  BY <1>6, <1>7 DEF Jobs, Owner, Frame, settled, submitted
<1>11. ActiveJob(t)
  <2> SUFFICES ASSUME t.active # None
               PROVE  ~settled(t, t.active) /\ submitted(t, t.active)
                      /\ \A k \in queued(t) : t.active < k
    BY DEF ActiveJob
  <2>1. /\ ~settled(s, s.active) /\ submitted(s, s.active) /\ s.active \in Job
        /\ \A k \in queued(s) : s.active < k
    BY <1>6, Fields DEF Jobs, ActiveJob, Frame
  <2>2. s.active < j
    BY <2>1, ConstantsAssumption DEF submitted, Job
  <2> QED
    BY <2>1, <2>2, <1>6, <1>7 DEF Frame, settled, submitted
<1>12. Fresh(t)
  <2>1. submitted(s, j)
    BY ConstantsAssumption DEF submitted, Job
  <2> QED
    BY <2>1, <1>4, <1>6 DEF Jobs, Fresh, Frame, submitted
<1> QED
  BY <1>5, <1>6, <1>7, <1>9, <1>10, <1>11, <1>12 DEF Jobs

-----------------------------------------------------------------------------
(* submit(), by the state of its new job j: offered, fenced, queued.       *)

\* Nobody owns the new job yet.
Offered(s, j) ==
  /\ s \in ServiceState /\ Jobs(s, {j}) /\ Supervised(s) /\ Busy(s)
  /\ ~s.disposed /\ ~s.unavailable
  /\ j \in Job /\ s.submitted = j /\ s.request[j] \in Request
  /\ s.active # j /\ j \notin queued(s)
  /\ \A p \in Panel : s.latest[p] # j

LEMMA OfferedSubmitted ==
  ASSUME NEW s, NEW j, Offered(s, j)
  PROVE  submitted(s, j) /\ s \in ServiceState /\ j \in Job /\ Calm(s)
BY JobsCalm, ConstantsAssumption DEF Offered, submitted, Job

LEMMA OfferedQuiet ==
  ASSUME NEW s, NEW j, Offered(s, j), NEW t, Quiet(s, t),
         t.active # None => ~settled(t, t.active)
  PROVE  Offered(t, j) /\ Continues(s, t)
<1>1. Jobs(t, {j}) /\ Supervised(t) /\ Busy(t)
  BY QuietQueue, QuietSupervised DEF Offered
<1>2. j \notin queued(t)
  BY DEF Offered, Quiet, Shrinks
<1>3. \A p \in Panel : t.latest[p] # j
  BY ConstantsAssumption DEF Offered, Quiet, Touches, Job, None
<1> QED
  BY <1>1, <1>2, <1>3 DEF Offered, Quiet, Frame, Continues

\* A new job that settles leaves the service as a handler must.
LEMMA OfferedSettles ==
  ASSUME NEW s, NEW j, Offered(s, j), NEW t, Quiet(s, t), Only(s, t, j), settled(t, j)
  PROVE  Handled(s, t) /\ Carries(s, t)
BY SettleLoose DEF Offered

LEMMA RunningUnsettled ==
  ASSUME NEW s, NEW j, Offered(s, j), NEW k \in Job, NEW t, Quiet(s, t), Only(s, t, k),
         s.active = k => t.outcome = s.outcome
  PROVE  t.active # None => ~settled(t, t.active)
BY Fields DEF Offered, Jobs, ActiveJob, Quiet, Frame, Only, settled

\* A stale job is marked before it is settled.
LEMMA OfferedOutdated ==
  ASSUME NEW s, NEW j, Offered(s, j), NEW t, t = [s EXCEPT !.obsolete[j] = "superseded"]
  PROVE  /\ Offered(t, j) /\ Continues(s, t) /\ Carries(s, t) /\ t.obsolete[j] # "no"
         /\ live(s, j) => Fates(s, t, {}, {j})
<1> DEFINE obsolete == [s.obsolete EXCEPT ![j] = "superseded"]
<1>1. s \in ServiceState /\ j \in Job /\ submitted(s, j)
  BY OfferedSubmitted
<1>2. /\ obsolete \in [Job -> Obsolete]
      /\ \A k \in Job : obsolete[k] = IF k = j THEN "superseded" ELSE s.obsolete[k]
  BY <1>1, Fields DEF Obsolete
<1>3. t = [s EXCEPT !.obsolete = obsolete]
  BY <1>1 DEF ServiceState
<1> HIDE DEF obsolete
<1>4. t \in ServiceState
  BY <1>1, <1>2, <1>3 DEF ServiceState
<1>5. Frame(s, t) /\ t.obsolete = obsolete /\ t.outcome = s.outcome /\ t.queue = s.queue
      /\ t.latest = s.latest /\ t.stage = s.stage
  BY <1>1, <1>3 DEF ServiceState, Frame
<1>6. queued(t) = queued(s) /\ j \notin queued(s) /\ queued(s) \subseteq Job
  BY <1>1, <1>5, QueuedJobs DEF queued, Offered
<1>7. Queue(t)
  BY <1>2, <1>5, <1>6 DEF Offered, Jobs, Queue, Increasing, Frame, live, settled, submitted
<1>8. Owner(t, {j}) /\ ActiveJob(t)
  BY <1>5, <1>6 DEF Offered, Jobs, Owner, ActiveJob, Frame, settled, submitted
<1>9. Fresh(t)
  BY <1>1, <1>2, <1>5 DEF Offered, Jobs, Fresh, Frame, submitted
<1>10. Supervised(t) /\ Busy(t)
  BY <1>5 DEF Offered, Supervised, Awaited, Busy, Frame
<1>11. t.obsolete[j] # "no" /\ Continues(s, t)
  BY <1>1, <1>2, <1>4, <1>5 DEF Continues, Keeps, Frame
<1>12. Carries(s, t)
  <2>1. t.active # None => t.obsolete[t.active] = s.obsolete[s.active]
    BY <1>1, <1>2, <1>5, Fields DEF Offered, Frame
  <2> QED
    BY <2>1, <1>5, <1>6 DEF Carries, Newest, Current, Waiting, panelOf, revisionOf, Frame
<1>13. ASSUME live(s, j)
       PROVE  Fates(s, t, {}, {j})
  <2>1. Only(s, t, j)
    BY <1>1, <1>2, <1>5, <1>13 DEF Only, live
  <2>2. Fate(s, t, j, {}, {j})
    BY <1>1, <1>2, <1>5, <1>13 DEF live, settled, Fate, Excused, Ruled, Informed, Onward
  <2> QED
    BY <2>1, <2>2, <1>5, FateOf DEF Frame
<1> QED
  BY <1>4, <1>5, <1>6, <1>7, <1>8, <1>9, <1>10, <1>11, <1>12, <1>13 DEF Offered, Jobs, Frame

\* The job it supersedes is cancelled, and the new one stays live.
LEMMA OfferedFenced ==
  ASSUME NEW s, NEW j, Offered(s, j), live(s, j), NEW p \in Panel,
         s.latest[p] # None, ~settled(s, s.latest[p]),
         NEW t, t = cancel_job(s, s.latest[p], "superseded")
  PROVE  /\ Offered(t, j) /\ Continues(s, t) /\ live(t, j)
         /\ t.stage[j] = s.stage[j] /\ (Waiting(s) => Waiting(t))
         /\ Fates(s, t, {}, {s.latest[p]})
<1> DEFINE previous == s.latest[p]
<1>1. s \in ServiceState /\ j \in Job /\ Calm(s)
  BY OfferedSubmitted
<1>2. previous \in Job /\ previous # j /\ submitted(s, previous)
  BY <1>1, Fields DEF Offered, Jobs, Fresh
<1> HIDE DEF previous
<1>3. t = cancel_job(s, previous, "superseded")
  BY DEF previous
<1>4. /\ Quiet(s, t) /\ Only(s, t, previous) /\ (s.active = previous => t.outcome = s.outcome)
      /\ Fate(s, t, previous, {}, {previous})
  BY <1>1, <1>2, <1>3, Cancel
<1>6. t.stage[j] = s.stage[j] /\ (Waiting(s) => Waiting(t))
  BY <1>1, <1>2, <1>4 DEF Only, Waiting, Quiet, Shrinks
<1>7. Fates(s, t, {}, {previous})
  <2>1. t.submitted = s.submitted /\ t.request = s.request
    BY <1>4 DEF Quiet, Frame
  <2> QED
    BY <2>1, <1>4, FateOf
<1>5. live(t, j)
  BY <1>1, <1>2, <1>4 DEF Only, live, settled
<1>8. Offered(t, j) /\ Continues(s, t)
  BY <1>2, <1>4, RunningUnsettled, OfferedQuiet
<1> QED
  BY <1>5, <1>6, <1>7, <1>8 DEF previous

\* Nothing of the new job's panel is left but an obsolete run of a lower
\* revision.
Aside(s, j) ==
  /\ \A p \in Panel : s.latest[p] # None => panelOf(s, s.latest[p]) = p
  /\ \A k \in queued(s) : Current(s, k) /\ panelOf(s, k) # panelOf(s, j)
  /\ s.active # None =>
       IF panelOf(s, s.active) = panelOf(s, j)
       THEN s.obsolete[s.active] # "no" /\ revisionOf(s, s.active) < revisionOf(s, j)
       ELSE \/ Current(s, s.active)
            \/ \E k \in queued(s) :
                 /\ panelOf(s, k) = panelOf(s, s.active)
                 /\ s.obsolete[s.active] # "no"
                 /\ revisionOf(s, s.active) < revisionOf(s, k)

\* latestByPanel knows every job that could still contest the panel.
LEMMA Uncontested ==
  ASSUME NEW s, NEW j, Offered(s, j), Newest(s), NEW p \in Panel, p = panelOf(s, j),
         s.latest[p] = None \/ settled(s, s.latest[p])
  PROVE  Aside(s, j)
<1>1. None \notin Job /\ queued(s) \subseteq Job /\ \A k \in queued(s) : ~settled(s, k)
  BY ConstantsAssumption, QueuedJobs DEF Offered, Jobs, Queue, live, Job, None
<1>2. s.active # None => s.active \in Job /\ ~settled(s, s.active)
  BY Fields DEF Offered, Jobs, ActiveJob
<1>3. \A k \in queued(s) : Current(s, k) /\ panelOf(s, k) # p
  BY <1>1 DEF Newest, Current
<1>4. s.active # None /\ Current(s, s.active) => panelOf(s, s.active) # p
  BY <1>1, <1>2 DEF Current
<1> QED
  BY <1>3, <1>4 DEF Newest, Aside

\* The job it supersedes is cancelled at once or is the active one.
LEMMA Contested ==
  ASSUME NEW s, NEW j, Offered(s, j), Requested(s), Newest(s),
         NEW p \in Panel, p = panelOf(s, j),
         NEW previous, previous = s.latest[p], previous # None, ~settled(s, previous),
         revisionOf(s, previous) < revisionOf(s, j),
         NEW t, t = cancel_job(s, previous, "superseded")
  PROVE  Aside(t, j) /\ (Len(t.queue) >= MaxPending => Newest(t))
<1>1. /\ s \in ServiceState /\ j \in Job /\ Calm(s) /\ None \notin Job
      /\ Jobs(s, {j}) /\ queued(s) \subseteq Job /\ s.active # j
      /\ \A k \in queued(s) : live(s, k)
  BY OfferedSubmitted, QueuedJobs, ConstantsAssumption DEF Offered, Jobs, Queue, Job, None
<1>2. previous \in Job /\ previous # j /\ submitted(s, previous) /\ panelOf(s, previous) = p
  BY <1>1, Fields DEF Offered, Jobs, Fresh, Newest
<1>3. /\ Quiet(s, t) /\ Only(s, t, previous)
      /\ s.active = previous => t.outcome = s.outcome
      /\ s.active # previous /\ live(s, previous) => settled(t, previous)
      /\ s.active # previous /\ live(s, previous) /\ previous \in queued(s)
           => Len(t.queue) < Len(s.queue)
      /\ settled(t, previous) \/ t.obsolete[previous] # "no"
  BY <1>1, <1>2, Cancel
<1>4. /\ t \in ServiceState /\ t.request = s.request /\ t.active = s.active
      /\ queued(t) \subseteq queued(s) /\ \A k \in queued(t) : live(t, k)
  BY <1>1, <1>3, QuietParts DEF Quiet, Frame, Shrinks, Queue
<1>5. t.active # None => ~settled(t, t.active) /\ t.active \in Job
  BY <1>1, <1>2, <1>3, <1>4, Fields, RunningUnsettled
<1>6. ASSUME NEW k \in Job, Current(s, k), ~settled(t, k)
      PROVE  Current(t, k)
  <2>1. panelOf(s, k) \in Panel /\ panelOf(t, k) = panelOf(s, k)
    BY <1>4, <1>6 DEF Current, Request, panelOf
  <2> QED
    BY <2>1, <1>3, <1>4, <1>6 DEF Current, Quiet, Touches
<1>7. \A q \in Panel : t.latest[q] # None => panelOf(t, t.latest[q]) = q
  BY <1>3, <1>4 DEF Newest, Quiet, Touches, panelOf
<1>8. \A k \in queued(s) \ {previous} : panelOf(s, k) # p
  BY DEF Newest, Current
<1>9. \A k \in queued(s) \ {previous} : k \in queued(t)
  <2> SUFFICES ASSUME NEW k \in queued(s) \ {previous} PROVE k \in queued(t)
    OBVIOUS
  <2>1. k \in Job /\ ~settled(t, k)
    BY <1>1, <1>3 DEF Only, live, settled
  <2> QED
    BY <2>1, <1>3 DEF Quiet
<1>10. previous \notin queued(t)
  <2>1. CASE s.active = previous
    BY <2>1, <1>1, <1>4 DEF Calm
  <2>2. CASE s.active # previous
    BY <2>2, <1>1, <1>3, <1>4 DEF live
  <2> QED
    BY <2>1, <2>2
<1>11. \A k \in queued(t) : Current(t, k) /\ panelOf(t, k) # panelOf(t, j)
  <2> SUFFICES ASSUME NEW k \in queued(t)
               PROVE  Current(t, k) /\ panelOf(t, k) # panelOf(t, j)
    OBVIOUS
  <2>1. k \in queued(s) \ {previous} /\ k \in Job /\ ~settled(t, k)
    BY <1>1, <1>4, <1>10 DEF live
  <2>2. Current(s, k) /\ panelOf(s, k) # p
    BY <2>1, <1>8 DEF Newest
  <2> QED
    BY <2>1, <2>2, <1>4, <1>6 DEF panelOf
<1>12. ASSUME t.active # None, panelOf(s, s.active) = p
       PROVE  t.obsolete[t.active] # "no" /\ revisionOf(s, s.active) < revisionOf(s, j)
  <2>1. CASE s.active = previous
    BY <2>1, <1>3, <1>4, <1>5, <1>12
  <2>2. CASE s.active # previous
    <3>1. ~Current(s, s.active)
      BY <2>2, <1>12 DEF Current
    <3>2. PICK k \in queued(s) :
            /\ panelOf(s, k) = panelOf(s, s.active)
            /\ s.obsolete[s.active] # "no"
            /\ revisionOf(s, s.active) < revisionOf(s, k)
      BY <3>1, <1>4, <1>12 DEF Newest
    <3>3. k = previous
      BY <3>2, <1>8, <1>12
    <3>4. s.request[s.active] \in Request /\ s.request[previous] \in Request
           /\ s.request[j] \in Request
      <4>1. submitted(s, s.active)
        BY <1>1, <1>4, <1>12 DEF Jobs, ActiveJob
      <4> QED
        BY <4>1, <1>1, <1>2, <1>4, <1>5, <1>12, Fields DEF Requested, Offered
    <3>5. /\ revisionOf(s, s.active) \in Nat /\ revisionOf(s, previous) \in Nat
          /\ revisionOf(s, j) \in Nat
      BY <3>4, ConstantsAssumption DEF Request, revisionOf
    <3>6. t.obsolete[t.active] # "no"
      BY <3>2, <1>3, <1>4, <1>5, <1>12 DEF Quiet, Touches
    <3> QED
      BY <3>2, <3>3, <3>5, <3>6
  <2> QED
    BY <2>1, <2>2
<1>13. ASSUME t.active # None, panelOf(s, s.active) # p
       PROVE  \/ Current(t, t.active)
              \/ \E k \in queued(t) :
                   /\ panelOf(t, k) = panelOf(t, t.active)
                   /\ t.obsolete[t.active] # "no"
                   /\ revisionOf(t, t.active) < revisionOf(t, k)
  <2>1. CASE Current(s, s.active)
    BY <2>1, <1>4, <1>5, <1>6, <1>13
  <2>2. CASE ~Current(s, s.active)
    <3>1. PICK k \in queued(s) :
            /\ panelOf(s, k) = panelOf(s, s.active)
            /\ s.obsolete[s.active] # "no"
            /\ revisionOf(s, s.active) < revisionOf(s, k)
      BY <2>2, <1>4, <1>13 DEF Newest
    <3>2. k \in queued(t)
      BY <3>1, <1>2, <1>9, <1>13
    <3>3. t.obsolete[t.active] # "no"
      BY <3>1, <1>3, <1>4, <1>5, <1>13 DEF Quiet, Touches
    <3> QED
      BY <3>1, <3>2, <3>3, <1>4 DEF panelOf, revisionOf
  <2> QED
    BY <2>1, <2>2
<1>14. Aside(t, j)
  BY <1>4, <1>7, <1>11, <1>12, <1>13 DEF Aside, panelOf, revisionOf
<1>15. ASSUME Len(t.queue) >= MaxPending
       PROVE  Newest(t)
  <2>1. s.active = previous
    <3> SUFFICES ASSUME s.active # previous PROVE FALSE
      OBVIOUS
    <3>1. previous \in queued(s)
      BY <1>1, <1>2 DEF Jobs, Owner
    <3>2. Len(t.queue) < Len(s.queue) /\ Len(s.queue) <= MaxPending
      BY <3>1, <1>1, <1>3 DEF Jobs, Queue
    <3> QED
      BY <3>2, <1>1, <1>4, <1>15, Fields, ConstantsAssumption
  <2> QED
    BY <2>1, <1>1, <1>3, <1>4, <1>5, QuietNewest DEF Carries
<1> QED
  BY <1>14, <1>15

LEMMA EnqueuedNewest ==
  ASSUME NEW s, NEW j, Offered(s, j), Aside(s, j), NEW t, t = enqueue(s, j)
  PROVE  Newest(t)
<1> DEFINE p == panelOf(s, j)
           latest == [s.latest EXCEPT ![p] = j]
           queue == Append(s.queue, j)
           n == Len(s.queue)
<1>1. s \in ServiceState /\ j \in Job /\ p \in Panel
  BY DEF Offered, Request, panelOf
<1>2. \A q \in Panel : latest[q] = IF q = p THEN j ELSE s.latest[q]
  BY <1>1, Fields
<1>3. n \in Nat /\ Len(queue) = n + 1 /\ queue[n + 1] = j /\ \A i \in 1..n : queue[i] = s.queue[i]
  BY <1>1, Fields
<1>4. t = [s EXCEPT !.latest = latest, !.queue = queue]
  BY <1>1 DEF enqueue, ServiceState
<1> HIDE DEF latest, queue
<1>5. /\ t.queue = queue /\ t.latest = latest /\ t.request = s.request
      /\ t.obsolete = s.obsolete /\ t.active = s.active
  BY <1>1, <1>4 DEF ServiceState
<1>6. queued(t) = queued(s) \cup {j}
  <2>1. 1..(n + 1) = (1..n) \cup {n + 1}
    BY <1>3
  <2> QED
    BY <2>1, <1>3, <1>5 DEF queued
<1>7. ASSUME NEW k, Current(s, k), panelOf(s, k) # p
      PROVE  Current(t, k)
  BY <1>2, <1>5, <1>7 DEF Current, Request, panelOf
<1>8. Current(t, j)
  BY <1>1, <1>2, <1>5 DEF Current, Offered, panelOf
<1>9. \A q \in Panel : t.latest[q] # None => panelOf(t, t.latest[q]) = q
  BY <1>2, <1>5 DEF Aside, panelOf
<1>10. \A k \in queued(t) : Current(t, k)
  BY <1>6, <1>7, <1>8 DEF Aside
<1>11. ASSUME t.active # None
       PROVE  \/ Current(t, t.active)
              \/ \E k \in queued(t) :
                   /\ panelOf(t, k) = panelOf(t, t.active)
                   /\ t.obsolete[t.active] # "no"
                   /\ revisionOf(t, t.active) < revisionOf(t, k)
  <2>1. CASE panelOf(s, s.active) = p
    BY <2>1, <1>5, <1>6, <1>11 DEF Aside, panelOf, revisionOf
  <2>2. CASE panelOf(s, s.active) # p
    BY <2>2, <1>5, <1>6, <1>7, <1>11 DEF Aside, panelOf, revisionOf
  <2> QED
    BY <2>1, <2>2
<1> QED
  BY <1>9, <1>10, <1>11 DEF Newest

\* Of the new job j and a live job of its panel at most one stays live: the
\* older revision goes, unless nobody listens to j any more.
Resolved(s, t, j) ==
  \A k \in Job \ {j} : submitted(s, k) /\ live(s, k) /\ panelOf(s, k) = panelOf(s, j) =>
    IF revisionOf(s, k) < revisionOf(s, j) THEN t.outcome[j] = "cancelled" \/ ~live(t, k)
    ELSE settled(t, j)

\* The job that j takes the place of.
Outdone(s, k, j) == panelOf(s, k) = panelOf(s, j) /\ revisionOf(s, k) < revisionOf(s, j)

Submitting(job, request, s) ==
  /\ job = svc.submitted + 1
  /\ s = [svc EXCEPT !.submitted = job, !.request[job] = request]

LEMMA Offer ==
  ASSUME IInv, ~svc.disposed, ~svc.unavailable, svc.submitted < MaxJobs,
         NEW request \in Request, NEW job, NEW s, Submitting(job, request, s)
  PROVE  /\ Offered(s, job) /\ Requested(s) /\ Keeps(svc, s) /\ s.starts = svc.starts
         /\ s.obsolete[job] = "no" /\ s.request[job] = request
         /\ Newest(s) /\ Waiting(s) /\ Told(s)
         /\ s.stage = svc.stage /\ s.stage[job] = "silent"
<1> DEFINE requests == [svc.request EXCEPT ![job] = request]
<1>0. job = svc.submitted + 1 /\ s = [svc EXCEPT !.submitted = job, !.request[job] = request]
  BY DEF Submitting
<1>1. job \in Job /\ job \in 0..MaxJobs /\ svc.submitted \in Nat
  BY <1>0, Before, Fields, ConstantsAssumption DEF Job
<1>2. requests \in [Job -> Request \cup {NoRequest}]
  BY Before, Fields
<1>3. \A k \in Job : requests[k] = IF k = job THEN request ELSE svc.request[k]
  BY Before, Fields
<1>4. s = [svc EXCEPT !.submitted = job, !.request = requests]
  BY <1>0, Before DEF ServiceState
<1> HIDE DEF requests
<1>5. s \in ServiceState
  BY <1>1, <1>2, <1>4, Before DEF ServiceState
<1>6. /\ s.submitted = job /\ s.request = requests /\ s.obsolete = svc.obsolete
      /\ s.outcome = svc.outcome /\ s.queue = svc.queue /\ s.latest = svc.latest
      /\ s.active = svc.active /\ s.worker = svc.worker /\ s.starts = svc.starts
      /\ s.ready = svc.ready /\ s.waiters = svc.waiters /\ s.callbacks = svc.callbacks
      /\ s.unavailable = svc.unavailable /\ s.disposed = svc.disposed
      /\ s.stage = svc.stage
  BY <1>4, Before DEF ServiceState
<1>7. \A k \in Job : submitted(s, k) <=> submitted(svc, k) \/ k = job
  BY <1>0, <1>1, <1>6, ConstantsAssumption DEF submitted, Job
<1>8. ~submitted(svc, job)
  BY <1>0, <1>1 DEF submitted
<1>9. queued(s) = queued(svc) /\ queued(svc) \subseteq Job /\ job # None
  BY <1>1, <1>6, Before, QueuedJobs, ConstantsAssumption DEF queued, Job, None
<1>10. Jobs(s, {job})
  <2>1. Queue(s)
    BY <1>6, <1>7, <1>9, Before DEF Jobs, Queue, Increasing, live, settled
  <2>2. Owner(s, {job})
    BY <1>6, <1>7, <1>9, Before DEF Jobs, Owner, settled
  <2>3. ActiveJob(s)
    BY <1>6, <1>7, <1>9, Before DEF Jobs, ActiveJob, settled
  <2>4. Fresh(s)
    <3>1. \A p \in Panel : svc.latest[p] \in Job \cup {None}
      BY Before, Fields
    <3> QED
      BY <3>1, <1>6, <1>7, Before DEF Jobs, Fresh
  <2> QED
    BY <2>1, <2>2, <2>3, <2>4, <1>5 DEF Jobs
<1>11. Supervised(s) /\ Busy(s)
  <2>1. svc.waiters \in Seq(Job) /\ svc.callbacks \in Seq(Job)
    BY Before, Fields
  <2>2. /\ \A i \in 1..Len(svc.waiters) : svc.waiters[i] \in Nat /\ svc.waiters[i] <= svc.submitted
        /\ \A i \in 1..Len(svc.callbacks) :
             svc.callbacks[i] \in Nat /\ svc.callbacks[i] <= svc.submitted
    BY <2>1, Before, ConstantsAssumption DEF Supervised, Awaited, Job
  <2>3. Awaited(s)
    BY <2>2, <1>0, <1>1, <1>6 DEF Awaited
  <2> QED
    BY <2>3, <1>6, Before DEF Supervised, Busy
<1>12. Requested(s)
  BY <1>3, <1>6, <1>7, NoRequestAssumption DEF IInv, Requested
<1>13. s.active # job /\ job \notin queued(s) /\ \A p \in Panel : s.latest[p] # job
  BY <1>6, <1>8, <1>9, Before DEF Jobs, Queue, ActiveJob, Fresh
<1>14. s.obsolete[job] = "no" /\ s.request[job] = request
  BY <1>1, <1>3, <1>6, <1>8, Before DEF Jobs, Fresh
<1>15. Newest(s)
  <2>1. svc.active # job /\ job \notin queued(svc) /\ \A p \in Panel : svc.latest[p] # job
    BY <1>6, <1>9, <1>13
  <2>2. /\ queued(svc) \subseteq Job /\ svc.active \in Job \cup {None}
        /\ \A p \in Panel : svc.latest[p] \in Job \cup {None}
    BY <1>9, Before, Fields
  <2>3. \A k \in Job \ {job} : s.request[k] = svc.request[k]
    BY <1>3, <1>6
  <2>4. \A k \in Job \ {job} : Current(svc, k) => Current(s, k)
    BY <2>3, <1>6 DEF Current, panelOf
  <2>5. Newest(svc)
    BY DEF IInv
  <2>6. \A p \in Panel : s.latest[p] # None => panelOf(s, s.latest[p]) = p
    BY <2>1, <2>2, <2>3, <2>5, <1>6 DEF Newest, panelOf
  <2>7. \A k \in queued(s) : Current(s, k)
    BY <2>1, <2>2, <2>4, <2>5, <1>9 DEF Newest
  <2> QED
    BY <2>1, <2>2, <2>3, <2>4, <2>5, <2>6, <2>7, <1>6, <1>9 DEF Newest, panelOf, revisionOf
<1>16. Waiting(s)
  BY <1>6, <1>9, Before DEF Waiting
<1>17. Blank(svc, job)
  BY <1>1, <1>8 DEF IInv, Told
<1>18. Told(s)
  <2>1. Reasonable(s, job) /\ Agreed(s, job)
    BY <1>6, <1>14, <1>17 DEF Blank, Reasonable, Agreed, FinalStage
  <2>2. ASSUME NEW k \in Job, submitted(svc, k)
        PROVE  Reasonable(s, k) /\ Agreed(s, k)
    <3>1. Reasonable(svc, k) /\ Agreed(svc, k)
      BY <2>2 DEF IInv, Told
    <3>2. \A m \in Job : submitted(svc, m) => submitted(s, m) /\ s.request[m] = svc.request[m]
      BY <1>3, <1>6, <1>7, <1>8
    <3>3. Rivalled(svc, k) => Rivalled(s, k)
      BY <3>2, <2>2 DEF Rivalled, panelOf, revisionOf
    <3> QED
      BY <3>1, <3>2, <3>3, <2>2, <1>6 DEF Reasonable, Agreed, hears
  <2>3. ASSUME NEW k \in Job, ~submitted(s, k)
        PROVE  Blank(s, k)
    BY <2>3, <1>6, <1>7 DEF IInv, Told, Blank
  <2> QED
    BY <2>1, <2>2, <2>3, <1>7 DEF Told
<1> QED
  BY <1>1, <1>5, <1>6, <1>10, <1>11, <1>12, <1>13, <1>14, <1>15, <1>16, <1>17, <1>18
  DEF Offered, Keeps, Blank

\* The new job is put in the queue and offered to the worker.
LEMMA Accept ==
  ASSUME NEW s, NEW j, Offered(s, j), live(s, j), Len(s.queue) < MaxPending,
         NEW made \in BOOLEAN,
         NEW t, t = dispatch_next(await_worker(start_worker(enqueue(s, j), made), j), made)
  PROVE  /\ Handled(s, t)
         /\ Aside(s, j) => Newest(t)
         /\ Waiting(s) /\ s.stage[j] \in {"silent", "queued"} => Waiting(t) /\ Plain(s, t)
<1> DEFINE added == enqueue(s, j)
           awaited == await_worker(added, j)
<1>1. /\ s \in ServiceState /\ j \in Job /\ Jobs(s, {j}) /\ j = s.submitted
      /\ s.active # j /\ j \notin queued(s) /\ panelOf(s, j) \in Panel
  BY DEF Offered, panelOf, Request
<1>2. /\ Jobs(added, {}) /\ Frame(s, added) /\ added.outcome = s.outcome
      /\ added.obsolete = s.obsolete /\ added.stage = s.stage /\ queued(added) = queued(s) \cup {j}
  BY <1>1, Enqueue
<1>10. Aside(s, j) => Newest(added)
  BY EnqueuedNewest
<1> HIDE DEF added
<1>3. added \in ServiceState /\ added.worker # None /\ ~added.unavailable /\ ~added.disposed
  BY <1>2 DEF Jobs, Offered, Supervised, Frame
<1>4. start_worker(added, made) = added
  BY <1>3 DEF start_worker
<1>5. Awaited(added)
  BY <1>2 DEF Offered, Supervised, Awaited, Frame
<1>6. Supervised(added)
  BY <1>2, <1>3, <1>5 DEF Offered, Supervised, Frame
<1>7. /\ awaited \in ServiceState /\ Jobs(awaited, {}) /\ Supervised(awaited)
      /\ Continues(s, awaited) /\ Carries(added, awaited) /\ Plain(added, awaited)
  <2>1. CASE added.ready
    <3>1. awaited = added
      BY <2>1, <1>3 DEF await_worker
    <3>2. Plain(added, added)
      BY PlainSame DEF Same
    <3> QED
      BY <3>1, <3>2, <1>2, <1>3, <1>6 DEF Continues, Keeps, Frame, Carries
  <2>2. CASE ~added.ready
    <3> DEFINE waiters == Append(added.waiters, j)
    <3>1. awaited = [added EXCEPT !.waiters = waiters]
      BY <2>2, <1>3 DEF await_worker, ServiceState
    <3>2. added.waiters \in Seq(Job)
      BY <1>3, Fields
    <3>3. waiters \in Seq(Job) /\ Len(waiters) = Len(added.waiters) + 1 /\ Len(added.waiters) \in Nat
      BY <3>2, <1>1
    <3>4. waiters[Len(waiters)] = j /\ \A i \in 1..Len(added.waiters) : waiters[i] = added.waiters[i]
      BY <3>2, <1>1
    <3> HIDE DEF waiters, awaited
    <3>5. awaited \in ServiceState
      BY <3>1, <3>3, <1>3 DEF ServiceState
    <3>6. /\ awaited.submitted = added.submitted /\ awaited.request = added.request
          /\ awaited.obsolete = added.obsolete /\ awaited.outcome = added.outcome
          /\ awaited.queue = added.queue /\ awaited.latest = added.latest
          /\ awaited.active = added.active /\ awaited.worker = added.worker
          /\ awaited.starts = added.starts /\ awaited.ready = added.ready
          /\ awaited.waiters = waiters /\ awaited.callbacks = added.callbacks
          /\ awaited.unavailable = added.unavailable /\ awaited.disposed = added.disposed
          /\ awaited.stage = added.stage
      BY <3>1, <1>3 DEF ServiceState
    <3>7. Jobs(awaited, {})
      <4>1. awaited.starts >= added.starts
        BY <3>6, <1>3, Fields
      <4> QED
        BY <4>1, <3>5, <3>6, <1>2, <1>3, SameJobsKeepsJobs DEF SameJobs
    <3>8. Awaited(awaited)
      <4>1. j <= awaited.submitted
        BY <3>6, <1>1, <1>2, ConstantsAssumption DEF Frame, Job
      <4>2. \A i \in 1..Len(waiters) : i = Len(waiters) \/ i \in 1..Len(added.waiters)
        BY <3>3
      <4> QED
        BY <4>1, <4>2, <3>4, <3>6, <1>5 DEF Awaited
    <3>9. Supervised(awaited)
      BY <3>6, <3>8, <2>2, <1>6 DEF Supervised
    <3>10. Carries(added, awaited)
      BY <3>6, SameNewest DEF queued
    <3>11. Plain(added, awaited)
      BY <3>6, PlainSame DEF Same
    <3> QED
      BY <3>5, <3>6, <3>7, <3>9, <3>10, <3>11, <1>2 DEF Continues, Keeps, Frame
  <2> QED
    BY <2>1, <2>2
<1>8. t = dispatch_next(awaited, made)
  BY <1>4 DEF added
<1> HIDE DEF awaited
<1>9. Handled(awaited, t) /\ Carries(awaited, t) /\ (Waiting(awaited) => Plain(awaited, t))
  BY <1>7, <1>8, Dispatch
<1>11. ASSUME Waiting(s), s.stage[j] \in {"silent", "queued"}
       PROVE  Waiting(t) /\ Plain(s, t)
  <2>1. Waiting(awaited) /\ Waiting(t)
    BY <1>2, <1>7, <1>9, <1>11 DEF Waiting, Carries
  <2>2. Plain(s, added)
    BY <1>2, PlainSame DEF Same, Frame
  <2> QED
    BY <2>1, <2>2, <1>7, <1>9, PlainTrans
<1> QED
  BY <1>7, <1>9, <1>10, <1>11, ThenHandled DEF Carries

\* The service with the submission entered, the jobs a rival outdoes, and what
\* submit() makes of them.
Entered(request, s, S, t) ==
  /\ s \in ServiceState /\ Submitting(svc.submitted + 1, request, s)
  /\ Told(s) /\ s.stage = svc.stage
  /\ Fates(s, t, {}, S) /\ \A k \in S : Rivalled(s, k)
  /\ \A k \in S : k = svc.submitted + 1 \/ Outdone(s, k, svc.submitted + 1)
  /\ Resolved(s, t, svc.submitted + 1)

LEMMA SubmitHandled ==
  ASSUME IInv, NEW request \in Request, NEW made \in Made, submit(request, made)
  PROVE  /\ Jobs(svc', {}) /\ Newest(svc')
         /\ Supervised(svc') /\ Busy(svc') /\ Requested(svc')
         /\ Keeps(svc, svc') /\ svc'.starts >= svc.starts /\ Waiting(svc')
         /\ \E s, S : Entered(request, s, S, svc')
<1> DEFINE job       == svc.submitted + 1
           new       == [svc EXCEPT !.submitted = job, !.request[job] = request]
           offered   == emit(new, job, "queued")
           previous  == offered.latest[request.panel]
           contested == previous # None /\ ~settled(offered, previous)
           stale     == contested /\ is_stale(offered, job, previous)
           fenced    == IF contested THEN cancel_job(offered, previous, "superseded") ELSE offered
           outdated  == [offered EXCEPT !.obsolete[job] = "superseded"]
<1>1. ~svc.disposed /\ ~svc.unavailable /\ svc.submitted < MaxJobs
  BY DEF submit
<1>2. svc' = IF settled(offered, job) THEN offered
             ELSE IF stale THEN settle_obsolete(outdated, job)
             ELSE IF Len(fenced.queue) >= MaxPending THEN settle_error(fenced, job)
             ELSE dispatch_next(await_worker(start_worker(enqueue(fenced, job), made), job), made)
  BY DEF submit
<1>3. /\ Offered(new, job) /\ Requested(new) /\ Keeps(svc, new) /\ new.starts = svc.starts
      /\ new.obsolete[job] = "no" /\ new.request[job] = request /\ Newest(new)
      /\ Waiting(new) /\ Told(new) /\ new.stage = svc.stage /\ new.stage[job] = "silent"
  <2>1. Submitting(job, request, new)
    BY DEF Submitting
  <2> HIDE DEF new, job
  <2> QED
    BY <2>1, <1>1, Offer
<1>9. job = svc.submitted + 1 /\ Submitting(svc.submitted + 1, request, new)
  BY DEF Submitting
<1> HIDE DEF new, job
<1>4. /\ Quiet(new, offered) /\ Only(new, offered, job)
      /\ ~settled(offered, job) => offered.obsolete[job] = "no"
      /\ offered.outcome[job] \in {new.outcome[job], "cancelled"}
      /\ \/ Heard(new, offered, job, "queued")
         \/ /\ live(new, job) /\ new.active # job => settled(offered, job)
            /\ \A V, S : Fate(new, offered, job, V, S)
  BY <1>3, OfferedSubmitted, Emit DEF Offered, Stage
<1> HIDE DEF offered
<1>10. ~settled(new, job) /\ submitted(new, job)
  <2>1. ~submitted(svc, job) /\ new.outcome = svc.outcome
    <3>1. svc.submitted \in Nat
      BY Before, Fields
    <3>2. new = [svc EXCEPT !.submitted = job, !.request[job] = request]
      BY <1>9 DEF Submitting
    <3> QED
      BY <3>1, <3>2, <1>9, Before DEF submitted, ServiceState
  <2> QED
    BY <2>1, <1>3, OfferedSubmitted DEF IInv, Told, Blank, settled
<1>11. Plain(new, offered)
  <2>1. \A V, S : Fate(new, offered, job, V, S)
    BY <1>3, <1>4, <1>10 DEF Heard, live, settled, Fate, Excused, Ruled, Informed, Onward
  <2>2. offered.submitted = new.submitted /\ offered.request = new.request
    BY <1>4 DEF Quiet, Frame
  <2> QED
    BY <2>1, <2>2, <1>4, FateOf DEF Plain
<1>5. new.active # job /\ job \in Job
  BY <1>3 DEF Offered
<1>6. Offered(offered, job) /\ Continues(new, offered)
  BY <1>3, <1>4, <1>5, RunningUnsettled, OfferedQuiet
<1>8. Newest(offered) /\ Requested(offered) /\ request.panel = panelOf(offered, job)
  <2>1. offered.active # None => ~settled(offered, offered.active)
    BY <1>6 DEF Offered, Jobs, ActiveJob
  <2>2. \A k \in queued(new) : offered.outcome[k] = new.outcome[k]
    BY <1>3, <1>4, QueuedJobs DEF Only, Offered
  <2>3. Newest(offered)
    BY <2>1, <2>2, <1>3, <1>4, QuietNewest DEF Carries, Offered
  <2> QED
    BY <2>3, <1>3, <1>4 DEF Requested, Quiet, Frame, submitted, panelOf
<1>12. Waiting(offered) /\ (~settled(offered, job) => offered.stage[job] = "queued")
  <2>1. Waiting(offered)
    BY <1>3, <1>4 DEF Waiting, Quiet, Shrinks
  <2> QED
    BY <2>1, <1>3, <1>4, <1>5, <1>10 DEF Heard, live
<1>13. ASSUME contested
       PROVE  /\ stale => Rivalled(new, job)
              /\ ~stale => /\ Rivalled(new, previous) /\ Outdone(new, previous, job)
                           /\ revisionOf(offered, previous) < revisionOf(offered, job)
  <2>1. previous # None /\ request.panel \in Panel /\ offered.request = new.request
        /\ offered.submitted = new.submitted
    BY <1>4, <1>13 DEF Request, Quiet, Frame
  <2>2. previous \in Job /\ submitted(offered, previous) /\ previous # job
        /\ panelOf(offered, previous) = panelOf(offered, job)
    BY <2>1, <1>6, <1>8, Fields DEF Offered, Jobs, Fresh, Newest
  <2>3. offered.request[previous] \in Request /\ offered.request[job] \in Request
    BY <2>2, <1>6, <1>8, Fields DEF Offered, Requested
  <2>4. revisionOf(offered, previous) \in Nat /\ revisionOf(offered, job) \in Nat
    BY <2>3, ConstantsAssumption DEF Request, revisionOf
  <2>5. stale <=> revisionOf(offered, job) <= revisionOf(offered, previous)
    BY <1>13 DEF is_stale
  <2> HIDE DEF previous, stale, contested
  <2>6. stale => revisionOf(offered, previous) >= revisionOf(offered, job)
    BY <2>4, <2>5
  <2>7. ~stale => /\ revisionOf(offered, previous) < revisionOf(offered, job)
                  /\ revisionOf(offered, job) >= revisionOf(offered, previous)
    BY <2>4, <2>5
  <2> QED
    BY <2>1, <2>2, <2>6, <2>7, <1>5, <1>10
    DEF Rivalled, Outdone, panelOf, revisionOf, submitted
<1>14. ASSUME NEW k \in Job \ {job}, submitted(new, k), live(new, k),
              panelOf(new, k) = panelOf(new, job)
       PROVE  /\ contested /\ k = previous /\ k \in Job
              /\ stale <=> ~(revisionOf(new, k) < revisionOf(new, job))
  <2>1. new.latest[request.panel] = k /\ request.panel \in Panel
    <3>1. k = new.active \/ k \in queued(new)
      BY <1>3, <1>14 DEF Offered, Jobs, Owner, live
    <3>2. k # None /\ panelOf(new, job) = request.panel /\ request.panel \in Panel
      BY <1>3, <1>14, ConstantsAssumption DEF Job, None, panelOf, Request
    <3>3. Current(new, k)
      BY <3>1, <3>2, <1>3, <1>14 DEF Newest, live
    <3> QED
      BY <3>2, <3>3, <1>14 DEF Current
  <2>2. ~settled(offered, k)
    BY <1>4, <1>14 DEF Only, live, settled
  <2>3. previous = k
    BY <2>1, <2>2, <1>4 DEF Quiet, Touches
  <2>4. contested /\ k # None
    BY <2>2, <2>3, ConstantsAssumption DEF Job, None
  <2>5. offered.request = new.request /\ offered.submitted = new.submitted
    BY <1>4 DEF Quiet, Frame
  <2>6. new.request[k] \in Request /\ new.request[job] \in Request
    BY <1>3, <1>10, <1>14, Fields DEF Offered, Requested
  <2>7. revisionOf(new, k) \in Nat /\ revisionOf(new, job) \in Nat
    BY <2>6, ConstantsAssumption DEF Request, revisionOf
  <2>8. stale <=> revisionOf(new, job) <= revisionOf(new, k)
    BY <2>3, <2>4, <2>5 DEF is_stale, revisionOf
  <2> HIDE DEF stale, contested, previous
  <2> QED
    BY <2>3, <2>4, <2>7, <2>8
<1>7. /\ Handled(new, svc') /\ Newest(svc') /\ Waiting(svc')
      /\ \E S : /\ Fates(new, svc', {}, S) /\ \A k \in S : Rivalled(new, k)
                /\ \A k \in S : k = job \/ Outdone(new, k, job)
      /\ Resolved(new, svc', job)
  <2>1. CASE settled(offered, job)
    <3>1. Fates(new, svc', {}, {})
      BY <2>1, <1>2, <1>11 DEF Plain
    <3>2. settled(svc', job) /\ svc'.outcome[job] = "cancelled"
      BY <2>1, <1>2, <1>4, <1>10 DEF settled
    <3> QED
      BY <3>1, <3>2, <1>2, <1>3, <1>4, <1>8, <1>12, <2>1, OfferedSettles DEF Resolved
  <2>2. CASE ~settled(offered, job) /\ stale
    <3>1. svc' = settle_obsolete(outdated, job)
      BY <1>2, <2>2
    <3>2. /\ Offered(outdated, job) /\ Continues(offered, outdated) /\ outdated.obsolete[job] # "no"
          /\ Newest(outdated) /\ Waiting(outdated) /\ Fates(offered, outdated, {}, {job})
      BY <2>2, <1>4, <1>6, <1>8, <1>12, OfferedOutdated DEF Carries, live
    <3> HIDE DEF outdated
    <3>3. /\ Quiet(outdated, svc') /\ Only(outdated, svc', job) /\ settled(svc', job)
          /\ Plain(outdated, svc')
      BY <3>1, <3>2, OfferedSubmitted, SettleObsolete DEF Offered
    <3>4. Handled(outdated, svc') /\ Newest(svc') /\ Waiting(svc')
      BY <3>2, <3>3, OfferedSettles DEF Carries
    <3>5. Fates(new, svc', {}, {job})
      BY <3>2, <3>3, <1>11, FatesTrans DEF Plain
    <3>6. \A k \in {job} : Rivalled(new, k)
      BY <2>2, <1>13
    <3>7. Resolved(new, svc', job)
      BY <3>3, <2>2, <1>14 DEF Resolved
    <3> HIDE DEF stale, contested
    <3> QED
      BY <3>2, <3>4, <3>5, <3>6, <3>7, <1>6, ThenHandled
  <2>3. CASE ~settled(offered, job) /\ ~stale
    <3>1. live(offered, job)
      BY <1>4, <2>3 DEF live
    <3> DEFINE rivals == IF contested THEN {previous} ELSE {}
    <3>2. /\ Offered(fenced, job) /\ Continues(offered, fenced) /\ live(fenced, job)
          /\ fenced.stage[job] = "queued" /\ Waiting(fenced)
          /\ Fates(offered, fenced, {}, rivals)
      <4>1. CASE ~contested
        <5>1. Plain(offered, offered)
          BY PlainSame DEF Same
        <5> QED
          BY <4>1, <5>1, <3>1, <2>3, <1>6, <1>12 DEF Offered, Continues, Keeps, Plain
      <4>2. CASE contested
        <5>1. previous # None /\ ~settled(offered, previous) /\ request.panel \in Panel
          BY <4>2 DEF Request
        <5>2. fenced = cancel_job(offered, previous, "superseded")
          BY <4>2
        <5>3. rivals = {offered.latest[request.panel]}
          BY <4>2
        <5> HIDE DEF fenced, contested, stale, rivals
        <5> QED
          BY <5>1, <5>2, <5>3, <3>1, <2>3, <1>6, <1>12, OfferedFenced
      <4> QED
        BY <4>1, <4>2
    <3>6. Aside(fenced, job) /\ (Len(fenced.queue) >= MaxPending => Newest(fenced))
      <4>1. request.panel \in Panel
        BY DEF Request
      <4>2. CASE ~contested
        BY <4>1, <4>2, <1>6, <1>8, Uncontested
      <4>3. CASE contested
        <5>1. previous # None /\ ~settled(offered, previous)
          BY <4>3
        <5>2. revisionOf(offered, previous) < revisionOf(offered, job)
          BY <4>3, <2>3, <1>13
        <5>3. fenced = cancel_job(offered, previous, "superseded")
          BY <4>3
        <5>4. previous = offered.latest[request.panel]
          OBVIOUS
        <5> HIDE DEF fenced, contested, stale, previous
        <5> QED
          BY <5>1, <5>2, <5>3, <5>4, <4>1, <1>6, <1>8, Contested
      <4> QED
        BY <4>2, <4>3
    <3>3. svc' = IF Len(fenced.queue) >= MaxPending THEN settle_error(fenced, job)
                 ELSE dispatch_next(await_worker(start_worker(enqueue(fenced, job), made), job), made)
      BY <1>2, <2>3
    <3>7. \A k \in rivals : Rivalled(new, k) /\ Outdone(new, k, job)
      BY <2>3, <1>13
    <3>9. contested => ~live(fenced, previous)
      <4> SUFFICES ASSUME contested PROVE ~live(fenced, previous)
        OBVIOUS
      <4>1. /\ fenced = cancel_job(offered, previous, "superseded") /\ previous \in Job
            /\ submitted(offered, previous) /\ Calm(offered) /\ offered \in ServiceState
        <5>1. previous # None /\ request.panel \in Panel
          BY DEF Request
        <5> QED
          BY <5>1, <1>6, OfferedSubmitted, Fields DEF Offered, Jobs, Fresh
      <4> HIDE DEF fenced, previous, contested, stale
      <4>2. settled(fenced, previous) \/ fenced.obsolete[previous] # "no"
        BY <4>1, Cancel
      <4> QED
        BY <4>2 DEF live
    <3>10. Plain(fenced, svc') => Resolved(new, svc', job)
      <4> SUFFICES ASSUME Plain(fenced, svc'), NEW k \in Job \ {job}, submitted(new, k),
                          live(new, k), panelOf(new, k) = panelOf(new, job)
                   PROVE  ~live(svc', k) /\ revisionOf(new, k) < revisionOf(new, job)
        BY DEF Resolved
      <4>1. /\ contested /\ k = previous /\ k \in Job /\ revisionOf(new, k) < revisionOf(new, job)
        BY <2>3, <1>14
      <4>2. ~live(fenced, k)
        BY <4>1, <3>9
      <4>3. Fate(fenced, svc', k, {}, {})
        BY DEF Plain, Fates
      <4> HIDE DEF fenced
      <4>4. ~live(svc', k)
        BY <4>2, <4>3, <3>2, <1>6 DEF Fate, Same, Excused, live, settled, submitted
      <4> QED
        BY <4>1, <4>4
    <3> HIDE DEF fenced, rivals
    <3>8. Plain(fenced, svc') => Fates(new, svc', {}, rivals)
      BY <3>2, <1>11, FatesTrans DEF Plain
    <3>4. CASE Len(fenced.queue) >= MaxPending
      <4>1. /\ Quiet(fenced, svc') /\ Only(fenced, svc', job) /\ settled(svc', job)
            /\ Plain(fenced, svc')
        BY <3>2, <3>3, <3>4, OfferedSubmitted, SettleError DEF Offered
      <4>2. Handled(fenced, svc') /\ Newest(svc') /\ Waiting(svc')
        BY <4>1, <3>2, <3>4, <3>6, OfferedSettles DEF Carries
      <4> QED
        BY <4>1, <4>2, <3>2, <3>7, <3>8, <3>10, <1>6, ThenHandled
    <3>5. CASE ~(Len(fenced.queue) >= MaxPending)
      <4>1. Len(fenced.queue) < MaxPending
        BY <3>2, <3>5, Fields, ConstantsAssumption DEF Offered
      <4>2. Handled(fenced, svc') /\ Newest(svc') /\ Waiting(svc') /\ Plain(fenced, svc')
        BY <4>1, <3>2, <3>3, <3>5, <3>6, Before, Accept
      <4> QED
        BY <4>2, <3>2, <3>7, <3>8, <3>10, <1>6, ThenHandled
    <3> QED
      BY <3>4, <3>5
  <2> QED
    BY <2>1, <2>2, <2>3
<1> QED
  <2>1. \E S : Entered(request, new, S, svc')
    BY <1>3, <1>7, <1>9 DEF Entered, Offered
  <2> QED
    BY <2>1, <1>3, <1>7, <1>9, KeepsTrans DEF Handled, Requested, submitted, Offered

-----------------------------------------------------------------------------
(* The invariant.                                                          *)

LEMMA InitIInv ==
  ASSUME Init
  PROVE  /\ IInv
         /\ svc.submitted = 0 /\ svc.active = None /\ svc.queue = <<>>
         /\ svc.outcome = [j \in Job |-> "pending"]
<1>1. PICK made \in BOOLEAN : svc = start_worker(Init0, made)
  BY DEF Init
<1>2. Init0 \in ServiceState
  <2>1. <<>> \in Seq(Job) /\ 0 \in 0..MaxJobs
    BY ConstantsAssumption
  <2> QED
    BY <2>1 DEF Init0, ServiceState, None, Obsolete, Outcome, Stage
<1>3. /\ Init0.submitted = 0 /\ Init0.queue = <<>> /\ Init0.active = None /\ Init0.starts = 0
      /\ Init0.worker = None /\ ~Init0.ready /\ ~Init0.disposed /\ ~Init0.unavailable
      /\ Init0.waiters = <<>> /\ Init0.callbacks = <<>>
      /\ Init0.request = [j \in Job |-> NoRequest] /\ Init0.obsolete = [j \in Job |-> "no"]
      /\ Init0.latest = [p \in Panel |-> None]
  BY DEF Init0
<1>4. \A j \in Job : ~submitted(Init0, j)
  BY <1>3, ConstantsAssumption DEF submitted, Job
<1>5. Jobs(Init0, {})
  <2>1. queued(Init0) = {} /\ Increasing(Init0) /\ Len(Init0.queue) <= MaxPending
    BY <1>3, ConstantsAssumption DEF queued, Increasing
  <2> QED
    BY <2>1, <1>2, <1>3, <1>4 DEF Jobs, Queue, Owner, ActiveJob, Fresh
<1>6. SameJobs(Init0, svc) /\ svc.active = None /\ svc.waiters = <<>> /\ svc.callbacks = <<>>
      /\ ~svc.disposed /\ ~svc.ready /\ (svc.worker # None <=> ~svc.unavailable)
  BY <1>1, <1>2, <1>3, StartWorker
<1>7. Jobs(svc, {})
  BY <1>2, <1>3, <1>5, <1>6, SameJobsKeepsJobs
<1>8. Supervised(svc) /\ Busy(svc)
  <2>1. Awaited(svc)
    BY <1>6 DEF Awaited
  <2> QED
    BY <2>1, <1>6 DEF Supervised, Busy
<1>9. Requested(svc)
  BY <1>3, <1>4, <1>6 DEF SameJobs, Requested, submitted
<1>10. Environment
  BY DEF Init, Environment
<1>11. Newest(svc) /\ Waiting(svc)
  <2>1. \A p \in Panel : svc.latest[p] = None
    BY <1>3, <1>6 DEF SameJobs
  <2>2. svc.queue = <<>>
    BY <1>3, <1>6 DEF SameJobs
  <2> QED
    BY <2>1, <2>2, <1>6, NothingNewest
<1>12. Init0.outcome = [j \in Job |-> "pending"] /\ Init0.stage = [j \in Job |-> "silent"]
  BY DEF Init0
<1>13. Told(svc)
  BY <1>4, <1>6, <1>12 DEF SameJobs, Told, Blank, submitted
<1>14. svc.submitted = 0 /\ svc.queue = <<>> /\ svc.outcome = [j \in Job |-> "pending"]
  BY <1>3, <1>6, <1>12 DEF SameJobs
<1> QED
  BY <1>6, <1>7, <1>8, <1>9, <1>10, <1>11, <1>13, <1>14 DEF IInv

\* The events of a job go forward, and none follows a final one.
Forth(s, t) ==
  \A j \in Job : t.stage[j] # s.stage[j] =>
    /\ s.stage[j] \notin FinalStage
    /\ t.stage[j] \in FinalStage \/ Onward(s.stage[j], t.stage[j])

\* What becomes of the jobs keeps what they were told true.
LEMMA FatesTold ==
  ASSUME NEW s \in ServiceState, NEW t \in ServiceState, Told(s), NEW V, NEW S,
         Fates(s, t, V, S), \A k \in S : Rivalled(s, k)
  PROVE  Told(t) /\ Forth(s, t)
<1> SUFFICES ASSUME NEW j \in Job
             PROVE  /\ IF submitted(t, j) THEN Reasonable(t, j) /\ Agreed(t, j) ELSE Blank(t, j)
                    /\ t.stage[j] # s.stage[j] =>
                         /\ s.stage[j] \notin FinalStage
                         /\ t.stage[j] \in FinalStage \/ Onward(s.stage[j], t.stage[j])
  BY DEF Told, Forth
<1>1. submitted(t, j) <=> submitted(s, j)
  BY DEF Fates, submitted
<1>2. Rivalled(s, j) => Rivalled(t, j)
  BY DEF Rivalled, Fates, submitted, panelOf, revisionOf
<1>3. hears(t, j) <=> hears(s, j)
  BY DEF Fates, hears
<1>4. Fate(s, t, j, V, S)
  BY DEF Fates
<1>5. CASE ~submitted(s, j)
  BY <1>1, <1>4, <1>5 DEF Fate, Same, Told, Blank
<1>6. CASE submitted(s, j) /\ settled(s, j)
  BY <1>1, <1>2, <1>3, <1>4, <1>6 DEF Fate, Same, Told, Reasonable, Agreed
<1>7. CASE submitted(s, j) /\ ~settled(s, j)
  <2>1. Reasonable(s, j) /\ Agreed(s, j) /\ s.outcome[j] = "pending"
    BY <1>7 DEF Told, settled
  <2>2. Excused(s, t, j, S) /\ Ruled(t, j, V) /\ Informed(s, t, j)
    BY <1>4, <1>7 DEF Fate
  <2>3. s.stage[j] \notin FinalStage
    BY <2>1 DEF Agreed
  <2>4. Reasonable(t, j)
    BY <2>1, <2>2, <1>2, <1>3 DEF Reasonable, Excused, Ruled
  <2>5. Agreed(t, j)
    BY <2>2, <2>3 DEF Agreed, Informed, Onward, FinalStage
  <2>6. t.stage[j] \in FinalStage \/ Onward(s.stage[j], t.stage[j])
    BY <2>2 DEF Informed, FinalStage
  <2> QED
    BY <2>3, <2>4, <2>5, <2>6, <1>1, <1>7
<1> QED
  BY <1>5, <1>6, <1>7

\* Worker ids are never forgotten, closed connections stay closed.
LEMMA InvariantAfter ==
  ASSUME IInv, Jobs(svc', {}), Newest(svc'), Waiting(svc'), Told(svc'),
         Supervised(svc'), Busy(svc'), Requested(svc'),
         svc'.starts >= svc.starts, closed \subseteq closed', closed' \subseteq Client,
         faulted' \subseteq Worker, exited' \subseteq Worker, deaf' \subseteq Worker
  PROVE  IInv'
<1>1. svc.starts \in Nat /\ svc'.starts \in Nat
  BY Before, Fields DEF Jobs
<1>2. Worker \subseteq Worker'
  BY <1>1 DEF Worker
<1>3. Environment'
  BY <1>2 DEF Environment
<1>4. Told(svc)'
  <2>1. \A j \in Job : Reasonable(svc', j) => Reasonable(svc, j)'
    BY DEF Reasonable, Rivalled, hears, submitted, panelOf, revisionOf
  <2>2. \A j \in Job : Agreed(svc', j) => Agreed(svc, j)'
    BY DEF Agreed
  <2> QED
    BY <2>1, <2>2 DEF Told, Blank, submitted
<1> QED
  BY <1>3, <1>4 DEF IInv

LEMMA HandlerStep ==
  ASSUME IInv, Returned(svc'), closed \subseteq closed', closed' \subseteq Client,
         faulted' \subseteq Worker, exited' \subseteq Worker, deaf' \subseteq Worker
  PROVE  IInv' /\ Keeps(svc, svc') /\ Forth(svc, svc')
<1>1. Requested(svc') /\ svc \in ServiceState /\ svc' \in ServiceState
  BY DEF IInv, Returned, Handled, Requested, submitted, Jobs
<1>2. Told(svc') /\ Forth(svc, svc')
  BY <1>1, FatesTold DEF IInv, Returned
<1> QED
  BY <1>1, <1>2, InvariantAfter DEF IInv, Returned, Handled, Carries

Widens ==
  /\ closed \subseteq closed' /\ closed' \subseteq Client
  /\ faulted' \subseteq Worker /\ exited' \subseteq Worker /\ deaf' \subseteq Worker

\* Every event is an accepted submission, or a handler that serves the others.
LEMMA Answers ==
  ASSUME IInv, [Next]_vars
  PROVE  /\ Widens
         /\ \/ Returned(svc')
            \/ \E request \in Request, made \in Made : submit(request, made)
<1> USE DEF Environment
<1>1. Environment
  BY DEF IInv
<1>2. ASSUME UNCHANGED <<closed, faulted, exited, deaf>> PROVE Widens
  BY <1>1, <1>2 DEF Widens
<1>3. ASSUME NEW request \in Request, NEW made \in Made, submit(request, made)
      PROVE  Widens
  BY <1>2, <1>3 DEF submit
<1>4. CASE StartupRejected
  BY <1>2, <1>4, StartupRejectedHandled DEF StartupRejected
<1>5. ASSUME NEW w \in Worker, NEW made \in Made, Initialized(w, made)
      PROVE  Widens /\ Returned(svc')
  <2>1. UNCHANGED <<closed, faulted, exited, deaf>>
    BY <1>5 DEF Initialized
  <2> QED
    BY <2>1, <1>2, <1>5, InitializedHandled
<1>6. ASSUME NEW w \in Worker, NEW made \in Made, Failed(w, made)
      PROVE  Widens /\ Returned(svc')
  <2>1. UNCHANGED <<closed, faulted, exited, deaf>>
    BY <1>6 DEF Failed
  <2> QED
    BY <2>1, <1>2, <1>6, FailedHandled
<1>7. ASSUME NEW w \in Worker, NEW made \in Made,
             NEW status \in {"verified", "failed", "cancelled"}, Complete(w, status, made)
      PROVE  Widens /\ Returned(svc')
  <2>1. UNCHANGED <<closed, faulted, exited, deaf>>
    BY <1>7 DEF Complete
  <2> QED
    BY <2>1, <1>2, <1>7, CompleteHandled
<1>8. ASSUME NEW w \in Worker, NEW made \in Made,
             \/ ProtocolViolation(w, made) \/ WorkerError(w, made)
             \/ WorkerExit(w, made) \/ StartupTimeout(w, made)
      PROVE  Widens /\ Returned(svc')
  <2>1. svc' \in {svc, lose_worker(w, made)}
    BY <1>8 DEF ProtocolViolation, WorkerError, WorkerExit, StartupTimeout
  <2>2. Returned(svc')
    BY <2>1, Unchanged, LoseWorkerHandled
  <2>3. /\ closed' = closed /\ deaf' = deaf /\ faulted' = faulted \cup {w}
        /\ exited' \in {exited, exited \cup {w}}
    BY <1>8 DEF ProtocolViolation, WorkerError, WorkerExit, StartupTimeout
  <2> QED
    BY <2>2, <2>3, <1>1 DEF Widens
<1>9. ASSUME NEW w \in Worker, Progress(w)
      PROVE  Widens /\ Returned(svc')
  <2>1. UNCHANGED <<closed, faulted, exited, deaf>>
    BY <1>9 DEF Progress
  <2> QED
    BY <2>1, <1>2, <1>9, ProgressHandled
<1>10. ASSUME NEW w \in Worker, PortRefuses(w)
       PROVE  Widens /\ Returned(svc')
  BY <1>1, <1>10, Unchanged DEF PortRefuses, Widens
<1>11. ASSUME NEW c \in Client, Disconnect(c)
       PROVE  Widens /\ Returned(svc')
  BY <1>1, <1>11, Unchanged DEF Disconnect, Widens
<1>12. CASE dispose
  BY <1>2, <1>12, DisposeHandled DEF dispose
<1>13. CASE UNCHANGED vars
  BY <1>2, <1>13, Unchanged DEF vars
<1> QED
  BY <1>3, <1>4, <1>5, <1>6, <1>7, <1>8, <1>9, <1>10, <1>11, <1>12, <1>13 DEF Next

LEMMA Step ==
  ASSUME IInv, [Next]_vars
  PROVE  IInv' /\ Keeps(svc, svc') /\ Forth(svc, svc')
<1>1. Widens
  BY Answers
<1>2. ASSUME NEW request \in Request, NEW made \in Made, submit(request, made)
      PROVE  IInv' /\ Keeps(svc, svc') /\ Forth(svc, svc')
  <2>1. /\ Jobs(svc', {}) /\ Newest(svc') /\ Waiting(svc')
        /\ Supervised(svc') /\ Busy(svc') /\ Requested(svc')
        /\ Keeps(svc, svc') /\ svc'.starts >= svc.starts
    BY <1>2, SubmitHandled
  <2>2. PICK s, S : Entered(request, s, S, svc')
    BY <1>2, SubmitHandled
  <2>3. /\ s \in ServiceState
        /\ Told(s) /\ s.stage = svc.stage /\ Fates(s, svc', {}, S) /\ \A k \in S : Rivalled(s, k)
    BY <2>2 DEF Entered
  <2>4. Told(svc') /\ Forth(s, svc')
    BY <2>1, <2>3, FatesTold DEF Jobs
  <2>5. Forth(svc, svc')
    BY <2>3, <2>4 DEF Forth
  <2> QED
    BY <2>1, <2>4, <2>5, <1>1, InvariantAfter DEF Widens
<1>3. CASE Returned(svc')
  BY <1>1, <1>3, HandlerStep DEF Widens
<1> QED
  BY <1>2, <1>3, Answers

\* Every unsettled promise has its one owner, the queue is ordered and holds
\* only jobs that may run, and the worker is there and never idle needlessly.
THEOREM Invariant == Spec => []IInv
<1>1. Init => IInv
  BY InitIInv
<1>2. IInv /\ [Next]_vars => IInv'
  BY Step
<1> QED
  BY <1>1, <1>2, PTL DEF Spec

-----------------------------------------------------------------------------
(* What follows from it.                                                   *)

\* The service's state keeps its types, and exactly the submitted jobs have a
\* request.
THEOREM TypeCorrect == Spec => []TypeOK
<1>1. IInv => TypeOK
  BY Before DEF IInv, Requested, Environment, TypeOK
<1> QED
  BY <1>1, Invariant, PTL

\* No promise submit() hands out is ever lost or owned twice, for any number
\* of panels, clients, revisions and worker replacements.
THEOREM Ownership == Spec => []OwnedUntilSettled
<1>1. IInv => OwnedUntilSettled
  <2> SUFFICES ASSUME IInv PROVE OwnedUntilSettled
    OBVIOUS
  <2>1. svc \in ServiceState /\ svc.active \notin queued(svc) /\ queued(svc) \subseteq Job
    BY Before, JobsCalm, QueuedJobs DEF Calm
  <2>2. \A j \in unsettled(svc) : svc.active = j \/ j \in queued(svc)
    BY Before DEF Jobs, Owner, unsettled
  <2>3. queued(svc) \subseteq unsettled(svc)
    BY <2>1, Before DEF Jobs, Queue, live, unsettled
  <2>4. svc.active # None => svc.active \in unsettled(svc)
    BY Before DEF Jobs, ActiveJob, unsettled
  <2> QED
    BY <2>1, <2>2, <2>3, <2>4, Before DEF Jobs, Queue, OwnedUntilSettled
<1> QED
  BY <1>1, Invariant, PTL

\* Jobs run in the order of their submission, whatever was superseded,
\* cancelled or lost with a worker between.
THEOREM Order == Spec => []FifoOrder
<1>1. IInv => FifoOrder
  BY DEF IInv, Jobs, Queue, Increasing, ActiveJob, FifoOrder
<1> QED
  BY <1>1, Invariant, PTL

\* Of all the requests for a panel only the newest accepted one can still get a
\* verdict, whichever were superseded, cancelled or rejected before it.
THEOREM NewestWins == Spec => []NewestRevisionWins
<1>1. IInv => NewestRevisionWins
  <2> SUFFICES ASSUME IInv, NEW j \in unsettled(svc), live(svc, j),
                      NEW k \in unsettled(svc) \ {j}
               PROVE  /\ svc.latest[panelOf(svc, j)] = j
                      /\ panelOf(svc, k) = panelOf(svc, j) => revisionOf(svc, k) < revisionOf(svc, j)
    <3>1. IInv => \A j \in unsettled(svc) : live(svc, j) => svc.latest[panelOf(svc, j)] = j
      <4> SUFFICES ASSUME IInv, NEW j \in unsettled(svc), live(svc, j)
                   PROVE  svc.latest[panelOf(svc, j)] = j
        OBVIOUS
      <4>1. j = svc.active \/ j \in queued(svc)
        BY DEF IInv, Jobs, Owner, unsettled
      <4> QED
        BY <4>1, ConstantsAssumption DEF IInv, Newest, Current, live, unsettled, Job, None
    <3> QED
      BY <3>1 DEF NewestRevisionWins
  <2>1. /\ j = svc.active \/ j \in queued(svc)
        /\ k = svc.active \/ k \in queued(svc)
        /\ j # None /\ k # None
    BY ConstantsAssumption DEF IInv, Jobs, Owner, unsettled, Job, None
  <2>2. Current(svc, j)
    BY <2>1 DEF IInv, Newest, live
  <2>3. ASSUME panelOf(svc, k) = panelOf(svc, j)
        PROVE  revisionOf(svc, k) < revisionOf(svc, j)
    <3>1. ~Current(svc, k)
      BY <2>2, <2>3 DEF Current
    <3>2. k = svc.active
      BY <2>1, <3>1 DEF IInv, Newest
    <3>3. PICK l \in queued(svc) :
            /\ panelOf(svc, l) = panelOf(svc, k)
            /\ revisionOf(svc, k) < revisionOf(svc, l)
      BY <2>1, <3>1, <3>2 DEF IInv, Newest
    <3>4. l = j
      BY <2>2, <2>3, <3>3 DEF IInv, Newest, Current
    <3> QED
      BY <3>3, <3>4
  <2> QED
    BY <2>2, <2>3 DEF Current
<1> QED
  BY <1>1, Invariant, PTL

\* A ready worker that runs nothing has an empty queue behind it.
THEOREM WorkConserved == Spec => []WorkConserving
<1>1. IInv => WorkConserving
  BY DEF IInv, Busy, WorkConserving
<1> QED
  BY <1>1, Invariant, PTL

\* The service has a worker exactly while it accepts submissions, and only a
\* ready worker runs a job.
THEOREM WorkerAlways == Spec => []WorkerPresent
<1>1. IInv => WorkerPresent
  BY DEF IInv, Supervised, WorkerPresent
<1> QED
  BY <1>1, Invariant, PTL

\* A disposed service owes nothing: dispose() settles the active job and the
\* queue, and no later event adds to them.
THEOREM Disposal == Spec => []DisposalSettles
<1>1. IInv => DisposalSettles
  <2> SUFFICES ASSUME IInv, svc.disposed PROVE unsettled(svc) = {}
    BY DEF DisposalSettles
  <2>1. svc.active = None /\ svc.queue = <<>>
    BY DEF IInv, Supervised
  <2>2. queued(svc) = {} /\ None \notin Job
    BY <2>1, ConstantsAssumption DEF queued, Job, None
  <2> QED
    BY <2>1, <2>2 DEF IInv, Jobs, Owner, unsettled
<1> QED
  BY <1>1, Invariant, PTL

\* Nothing a submitter waits for is stranded: the three facts above together.
THEOREM Unstranded == Spec => []NothingStranded
<1>1. WorkConserving /\ WorkerPresent /\ DisposalSettles => NothingStranded
  BY DEF NothingStranded
<1> QED
  BY <1>1, WorkConserved, WorkerAlways, Disposal, PTL

\* No event changes how a promise was settled, whatever the interleaving of
\* replies, crashes, supersession and disposal.
THEOREM SettledForGood == Spec => SettledOnce
<1>1. IInv /\ [Next]_vars =>
        [\A j \in Job : settled(svc, j) => svc'.outcome[j] = svc.outcome[j]]_vars
  BY Step DEF Keeps
<1> QED
  BY <1>1, Invariant, PTL DEF Spec, SettledOnce

LEMMA SubmittedJobs ==
  ASSUME IInv
  PROVE  1..svc.submitted \subseteq Job /\ \A j \in 1..svc.submitted : submitted(svc, j)
BY Before, Fields, ConstantsAssumption DEF Job, submitted

LEMMA Reasons == IInv => ObsoleteForAReason
<1> SUFFICES ASSUME IInv, NEW j \in 1..svc.submitted
             PROVE  /\ svc.obsolete[j] # "no" => svc.outcome[j] \notin {"verified", "failed"}
                    /\ svc.obsolete[j] = "cancelled" => ~hears(svc, j)
                    /\ svc.obsolete[j] = "superseded" =>
                         \E k \in 1..svc.submitted \ {j} :
                           panelOf(svc, k) = panelOf(svc, j) /\ revisionOf(svc, k) >= revisionOf(svc, j)
                    /\ svc.outcome[j] \in {"cancelled", "superseded"} => svc.outcome[j] = svc.obsolete[j]
  BY DEF ObsoleteForAReason
<1>1. j \in Job /\ Reasonable(svc, j)
  BY SubmittedJobs DEF IInv, Told
<1>2. ASSUME NEW k \in Job, submitted(svc, k)
      PROVE  k \in 1..svc.submitted
  BY <1>2, Before, Fields, ConstantsAssumption DEF Job, submitted
<1> QED
  BY <1>1, <1>2 DEF Reasonable, Rivalled

LEMMA Agreement == IInv => EventsAgreeWithOutcome
<1> SUFFICES ASSUME IInv, NEW j \in 1..svc.submitted
             PROVE  CASE svc.stage[j] = "completed" -> svc.outcome[j] = "verified"
                      [] svc.stage[j] = "failed"    -> svc.outcome[j] \in {"failed", "error"}
                      [] svc.stage[j] = "cancelled" -> svc.outcome[j] \in {"cancelled", "superseded"}
                      [] OTHER -> svc.outcome[j] \in {"verified", "failed"} => ~hears(svc, j)
  BY Zenon DEF EventsAgreeWithOutcome
<1>1. Agreed(svc, j)
  BY SubmittedJobs DEF IInv, Told
<1>2. CASE svc.stage[j] = "completed"
  <2>1. svc.outcome[j] = "verified"
    BY <1>1, <1>2 DEF Agreed, FinalStage
  <2> QED
    BY <1>2, <2>1, Zenon
<1>3. CASE svc.stage[j] = "failed"
  <2>1. svc.outcome[j] \in {"failed", "error"}
    BY <1>1, <1>3 DEF Agreed, FinalStage
  <2> QED
    BY <1>3, <2>1, Zenon
<1>4. CASE svc.stage[j] = "cancelled"
  <2>1. svc.outcome[j] \in {"cancelled", "superseded"}
    BY <1>1, <1>4 DEF Agreed, FinalStage
  <2> QED
    BY <1>4, <2>1, Zenon
<1>5. CASE svc.stage[j] \notin FinalStage
  <2>1. svc.stage[j] # "completed" /\ svc.stage[j] # "failed" /\ svc.stage[j] # "cancelled"
    BY <1>5 DEF FinalStage
  <2>2. svc.outcome[j] \notin {"verified", "failed"}
    BY <1>1, <2>1 DEF Agreed
  <2> QED
    BY <2>1, <2>2, Zenon
<1> QED
  BY <1>2, <1>3, <1>4, <1>5 DEF FinalStage

LEMMA Ranks ==
  /\ Rank("silent") = 0 /\ Rank("queued") = 1 /\ Rank("started") = 2 /\ Rank("lap") = 3
  /\ \A stage \in FinalStage : Rank(stage) = 4
<1>1. Rank("silent") = 0
  BY Zenon DEF Rank, FinalStage
<1>2. Rank("queued") = 1
  BY Zenon DEF Rank, FinalStage
<1>3. Rank("started") = 2
  BY Zenon DEF Rank, FinalStage
<1>4. Rank("lap") = 3
  BY Zenon DEF Rank, FinalStage
<1>5. Rank("completed") = 4 /\ Rank("failed") = 4 /\ Rank("cancelled") = 4
  BY Zenon DEF Rank, FinalStage
<1> QED
  BY <1>1, <1>2, <1>3, <1>4, <1>5 DEF FinalStage

LEMMA ForthRanks ==
  ASSUME IInv, IInv', Forth(svc, svc')
  PROVE  \A j \in Job : svc'.stage[j] # svc.stage[j] => Rank(svc.stage[j]) < Rank(svc'.stage[j])
<1> SUFFICES ASSUME NEW j \in Job, svc'.stage[j] # svc.stage[j]
             PROVE  Rank(svc.stage[j]) < Rank(svc'.stage[j])
  OBVIOUS
<1>1. svc.stage[j] \in Stage \ FinalStage
  BY Before, Fields DEF Forth
<1>2. svc'.stage[j] \in FinalStage \/ Onward(svc.stage[j], svc'.stage[j])
  BY DEF Forth
<1>3. Rank(svc.stage[j]) \in 0..3
  BY <1>1, Ranks DEF Stage, FinalStage
<1>4. CASE svc'.stage[j] \in FinalStage
  BY <1>3, <1>4, Ranks
<1>5. CASE Onward(svc.stage[j], svc'.stage[j])
  BY <1>5, Ranks DEF Onward
<1> QED
  BY <1>2, <1>4, <1>5

\* Whatever a submitter is told is true, for any number of panels, clients and
\* worker losses: its events come in order, the final one agrees with how its
\* promise settles, and its job is given up only for a closed connection or a
\* request of the panel that is not older.
THEOREM Truthful == Spec => ToldTheTruth
<1>1. IInv /\ [Next]_vars =>
        [\A j \in Job : svc'.stage[j] # svc.stage[j] =>
           Rank(svc.stage[j]) < Rank(svc'.stage[j])]_vars
  BY Step, ForthRanks
<1> QED
  BY <1>1, Reasons, Agreement, Invariant, PTL
  DEF Spec, ToldTheTruth, EventsInOrder

-----------------------------------------------------------------------------
(* The service implements LatestWins.                                      *)

Line(s) == (IF s.active # None /\ live(s, s.active) THEN <<s.active>> ELSE <<>>) \o s.queue

Elements(q) == {q[i] : i \in 1..Len(q)}

Ascending(q) == \A i, k \in 1..Len(q) : i < k => q[i] < q[k]

\* The line holds the live jobs, oldest first.
LEMMA LineHolds ==
  ASSUME NEW s, Jobs(s, {})
  PROVE  /\ Line(s) \in Seq(Job) /\ Ascending(Line(s))
         /\ Elements(Line(s)) = {j \in Job : submitted(s, j) /\ live(s, j)}
         /\ s.active # None /\ live(s, s.active) => Line(s) # <<>> /\ Head(Line(s)) = s.active
<1>1. /\ s \in ServiceState /\ s.queue \in Seq(Job) /\ Len(s.queue) \in Nat
      /\ queued(s) \subseteq Job /\ s.active \in Job \cup {None}
      /\ None \notin Job /\ \A j \in Job : j \in Nat
  BY Fields, QueuedJobs, ConstantsAssumption DEF Jobs, Job, None
<1>2. /\ \A j \in queued(s) : live(s, j) /\ submitted(s, j)
      /\ \A j \in Job : submitted(s, j) /\ live(s, j) => s.active = j \/ j \in queued(s)
      /\ s.active # None => submitted(s, s.active)
  BY DEF Jobs, Queue, Owner, ActiveJob, live
<1> DEFINE n == Len(s.queue)
           line == Line(s)
<1>3. CASE s.active # None /\ live(s, s.active)
  <2>1. line = <<s.active>> \o s.queue
    BY <1>3 DEF Line
  <2> HIDE DEF line
  <2>2. /\ line \in Seq(Job) /\ Len(line) = n + 1 /\ line[1] = s.active
        /\ \A i \in 1..n : line[i + 1] = s.queue[i]
    BY <1>1, <1>3, <2>1
  <2>3. \A i \in 1..(n + 1) : i = 1 \/ (i - 1 \in 1..n /\ line[i] = s.queue[i - 1])
    BY <1>1, <2>2
  <2>4. Elements(line) = {s.active} \cup queued(s)
    <3>1. \A i \in 1..n : i + 1 \in 1..(n + 1)
      BY <1>1
    <3>2. 1 \in 1..(n + 1)
      BY <1>1
    <3>3. Elements(line) \subseteq {s.active} \cup queued(s)
      <4>1. \A i \in 1..n : s.queue[i] \in queued(s)
        BY DEF queued
      <4>2. \A i \in 1..(n + 1) : line[i] \in {s.active} \cup queued(s)
        BY <2>2, <2>3, <4>1
      <4> QED
        BY <2>2, <4>2 DEF Elements
    <3>4. {s.active} \cup queued(s) \subseteq Elements(line)
      BY <2>2, <3>1, <3>2 DEF Elements, queued
    <3> QED
      BY <3>3, <3>4
  <2>5. Ascending(line)
    <3> SUFFICES ASSUME NEW i \in 1..(n + 1), NEW k \in 1..(n + 1), i < k
                 PROVE  line[i] < line[k]
      BY <2>2 DEF Ascending
    <3>1. k - 1 \in 1..n /\ line[k] = s.queue[k - 1]
      BY <1>1, <2>3
    <3>2. CASE i = 1
      BY <3>1, <3>2, <2>2, <1>3 DEF Jobs, ActiveJob, queued
    <3>3. CASE i # 1
      <4>1. i - 1 \in 1..n /\ line[i] = s.queue[i - 1] /\ i - 1 < k - 1
        BY <3>3, <2>3, <1>1
      <4> QED
        BY <4>1, <3>1 DEF Jobs, Queue, Increasing
    <3> QED
      BY <3>2, <3>3
  <2>6. line # <<>> /\ Head(line) = s.active
    BY <2>2, <1>1
  <2>7. Elements(line) = {j \in Job : submitted(s, j) /\ live(s, j)}
    BY <2>4, <1>1, <1>2, <1>3
  <2> QED
    BY <2>2, <2>5, <2>6, <2>7 DEF line
<1>4. CASE ~(s.active # None /\ live(s, s.active))
  <2>1. line = s.queue
    <3>1. line = <<>> \o s.queue
      BY <1>4 DEF Line
    <3> QED
      BY <3>1, <1>1
  <2>2. Elements(line) = queued(s)
    BY <2>1 DEF Elements, queued
  <2>3. Ascending(line)
    BY <2>1 DEF Jobs, Queue, Increasing, Ascending
  <2>4. Elements(line) = {j \in Job : submitted(s, j) /\ live(s, j)}
    BY <2>2, <1>1, <1>2, <1>4
  <2> QED
    BY <2>1, <2>3, <2>4, <1>1, <1>4 DEF line
<1> QED
  BY <1>3, <1>4

LEMMA LineSet ==
  ASSUME NEW s, Jobs(s, {})
  PROVE  Contract!ToSet(Line(s)) = {j \in Job : submitted(s, j) /\ live(s, j)}
<1> DEFINE line == Line(s)
<1>1. line \in Seq(Job) /\ Elements(line) = {j \in Job : submitted(s, j) /\ live(s, j)}
  BY LineHolds
<1> HIDE DEF line
<1>2. DOMAIN line = 1..Len(line)
  BY <1>1
<1>3. Contract!ToSet(line) = Elements(line)
  BY <1>2 DEF Contract!ToSet, Elements
<1> QED
  BY <1>1, <1>3 DEF line

\* Two ascending lines agree on the order.
LEMMA FollowsInOrder ==
  ASSUME NEW q \in Seq(Job), NEW r \in Seq(Job), Ascending(q), Ascending(r),
         Elements(q) \subseteq Elements(r)
  PROVE  Contract!Follows(q, r)
<1>1. DOMAIN q = 1..Len(q) /\ DOMAIN r = 1..Len(r)
  OBVIOUS
<1>2. Contract!ToSet(q) = Elements(q) /\ Contract!ToSet(r) = Elements(r)
  BY <1>1 DEF Contract!ToSet, Elements
<1>3. \A j \in Job : j \in Nat
  BY ConstantsAssumption DEF Job
<1>4. ASSUME NEW i \in 1..Len(q), NEW k \in 1..Len(q), i < k
      PROVE  \E a, b \in 1..Len(r) : a < b /\ r[a] = q[i] /\ r[b] = q[k]
  <2>1. PICK a \in 1..Len(r) : r[a] = q[i]
    BY DEF Elements
  <2>2. PICK b \in 1..Len(r) : r[b] = q[k]
    BY DEF Elements
  <2>3. q[i] < q[k] /\ r[a] \in Nat /\ r[b] \in Nat /\ Len(r) \in Nat
    BY <1>3, <1>4 DEF Ascending
  <2>4. ~(b < a) /\ a # b
    BY <2>1, <2>2, <2>3 DEF Ascending
  <2> QED
    BY <2>1, <2>2, <2>3, <2>4
<1> QED
  BY <1>2, <1>4 DEF Contract!Follows

Claimed(s, j) ==
  IF submitted(s, j) THEN [panel |-> panelOf(s, j), revision |-> revisionOf(s, j)] ELSE NoRequest

LEMMA Claims ==
  ASSUME NEW s \in ServiceState, Requested(s), NEW j \in Job
  PROVE  /\ Claimed(s, j) # NoRequest <=> submitted(s, j)
         /\ submitted(s, j) => /\ Claimed(s, j) \in Contract!Claim
                              /\ Claimed(s, j).panel = panelOf(s, j)
                              /\ Claimed(s, j).revision = revisionOf(s, j)
<1>1. CASE submitted(s, j)
  <2>1. s.request[j] \in Request
    BY <1>1, Fields DEF Requested
  <2>2. panelOf(s, j) \in Panel /\ revisionOf(s, j) \in Revision
    BY <2>1 DEF Request, panelOf, revisionOf
  <2>3. Claimed(s, j) = [panel |-> panelOf(s, j), revision |-> revisionOf(s, j)]
    BY <1>1 DEF Claimed
  <2>4. Claimed(s, j) \in [panel : Panel, revision : Revision]
    BY <2>2, <2>3
  <2> QED
    BY <1>1, <2>3, <2>4, NoClaimAssumption DEF Contract!Claim
<1>2. CASE ~submitted(s, j)
  BY <1>2 DEF Claimed
<1> QED
  BY <1>1, <1>2

\* What LatestWins asks of every step.
LEMMA LeavesLine ==
  ASSUME IInv, IInv', Keeps(svc, svc'), NEW arrived \in Seq(Job), Ascending(arrived),
         \A j \in Job : submitted(svc', j) /\ live(svc', j) => j \in Elements(arrived),
         \A j \in Job : ~settled(svc, j) /\ svc'.outcome[j] \in {"verified", "failed"} =>
           j = svc.active /\ live(svc, j),
         ~svc'.disposed /\ ~svc'.unavailable => ~svc.disposed /\ ~svc.unavailable
  PROVE  Contract!Leaves(arrived)
<1>1. /\ svc \in ServiceState /\ svc' \in ServiceState
      /\ Jobs(svc, {}) /\ Jobs(svc', {}) /\ Requested(svc')
  BY DEF IInv, Jobs
<1>2. lined = Line(svc) /\ lined' = Line(svc')
  BY DEF lined, Line
<1>3. /\ lined' \in Seq(Job) /\ Ascending(lined')
      /\ Elements(lined') = {j \in Job : submitted(svc', j) /\ live(svc', j)}
  BY <1>1, <1>2, LineHolds
<1>4. Contract!Follows(lined', arrived)
  <2> DEFINE line == lined'
  <2>1. /\ line \in Seq(Job) /\ Ascending(line)
        /\ Elements(line) = {j \in Job : submitted(svc', j) /\ live(svc', j)}
    BY <1>3
  <2> HIDE DEF line
  <2>2. Contract!Follows(line, arrived)
    BY <2>1, FollowsInOrder
  <2> QED
    BY <2>2 DEF line
<1>5. Contract!ToSet(lined') = {j \in Job : submitted(svc', j) /\ live(svc', j)}
  BY <1>1, <1>2, LineSet
<1>6. Contract!Pending' = {j \in Job : submitted(svc', j) /\ ~settled(svc', j)}
  <2>1. \A j \in Job : claimed'[j] = Claimed(svc', j)
    BY DEF claimed, Claimed, submitted, panelOf, revisionOf
  <2>2. \A j \in Job : claimed'[j] # NoRequest <=> submitted(svc', j)
    BY <2>1, <1>1, Claims
  <2> QED
    BY <2>2 DEF Contract!Pending, settled
<1>7. \A j, k \in Contract!Pending' \ Contract!ToSet(lined') : j = k
  BY <1>1, <1>5, <1>6 DEF Jobs, Owner, Queue
<1>8. svc'.outcome \in [Job -> {"pending"} \cup Contract!Verdict \cup Contract!Refusal]
  BY <1>1, Fields DEF Outcome, Contract!Verdict, Contract!Refusal
<1>9. \A j \in Job : svc.outcome[j] # "pending" => svc'.outcome[j] = svc.outcome[j]
  BY DEF Keeps, settled
<1>10. ASSUME NEW j \in Job, svc.outcome[j] = "pending", svc'.outcome[j] \in Contract!Verdict
       PROVE  lined # <<>> /\ j = Head(lined)
  <2>1. j = svc.active /\ live(svc, j) /\ None \notin Job
    BY <1>10, ConstantsAssumption DEF settled, Contract!Verdict, Job, None
  <2> QED
    BY <2>1, <1>1, <1>2, LineHolds
<1>11. Contract!ToSet(lined') \subseteq Contract!Pending'
  BY <1>5, <1>6 DEF live
<1>12. /\ (~svc'.disposed /\ ~svc'.unavailable) \in BOOLEAN
       /\ (~svc'.disposed /\ ~svc'.unavailable) => (~svc.disposed /\ ~svc.unavailable)
  OBVIOUS
<1> QED
  BY <1>4, <1>7, <1>8, <1>9, <1>10, <1>11, <1>12 DEF Contract!Leaves

\* No event opens a service that accepts no submissions.
LEMMA StaysShut ==
  ASSUME IInv, [Next]_vars, svc.disposed \/ svc.unavailable
  PROVE  svc'.disposed \/ svc'.unavailable
<1>1. svc.worker = None /\ \A w \in Worker : w # svc.worker /\ ~Installed(w)
  BY Before DEF Supervised, Worker, Installed, None
<1>2. CASE svc' = svc
  BY <1>2
<1>3. ASSUME NEW request \in Request, NEW made \in Made, submit(request, made)
      PROVE  FALSE
  BY <1>3 DEF submit
<1>4. CASE StartupRejected
  <2>1. Returned(svc') /\ svc'.worker = None
    BY <1>1, <1>4, StartupRejectedHandled
  <2> QED
    BY <2>1 DEF Returned, Handled, Supervised
<1>5. ASSUME NEW w \in Worker, NEW made \in Made,
             \/ Initialized(w, made) \/ Failed(w, made)
             \/ \E status \in {"verified", "failed", "cancelled"} : Complete(w, status, made)
             \/ StartupTimeout(w, made)
      PROVE  FALSE
  BY <1>1, <1>5 DEF Initialized, Failed, Complete, StartupTimeout, Running
<1>6. ASSUME NEW w \in Worker, NEW made \in Made,
             ProtocolViolation(w, made) \/ WorkerError(w, made) \/ WorkerExit(w, made)
      PROVE  svc' = svc
  BY <1>1, <1>6 DEF ProtocolViolation, WorkerError, WorkerExit, lose_worker
<1>7. ASSUME NEW w \in Worker, PortRefuses(w)
      PROVE  svc' = svc
  BY <1>7 DEF PortRefuses
<1>8. ASSUME NEW c \in Client, Disconnect(c)
      PROVE  svc' = svc
  BY <1>8 DEF Disconnect
<1>9. CASE dispose
  BY <1>9, DisposeHandled
<1>10. CASE UNCHANGED vars
  BY <1>2, <1>10 DEF vars
<1>11. ASSUME NEW w \in Worker, Progress(w)
       PROVE  FALSE
  BY <1>1, <1>11 DEF Progress, Running
<1> QED
  BY <1>2, <1>3, <1>4, <1>5, <1>6, <1>7, <1>8, <1>9, <1>10, <1>11 DEF Next

\* A handler that is not submit() serves the line.
LEMMA Serves ==
  ASSUME IInv, IInv', Returned(svc'),
         svc.disposed \/ svc.unavailable => svc'.disposed \/ svc'.unavailable
  PROVE  Contract!Serve
<1>1. /\ svc \in ServiceState /\ Jobs(svc, {}) /\ lined = Line(svc)
      /\ Keeps(svc, svc') /\ svc'.submitted = svc.submitted /\ svc'.request = svc.request
  BY DEF IInv, Jobs, lined, Line, Returned, Handled
<1>2. /\ lined \in Seq(Job) /\ Ascending(lined)
      /\ Elements(lined) = {j \in Job : submitted(svc, j) /\ live(svc, j)}
  BY <1>1, LineHolds
<1>3. ASSUME NEW j \in Job
      PROVE  Fate(svc, svc', j, {svc.active}, {})
  BY DEF Returned, Fates
<1>4. UNCHANGED claimed
  BY <1>1 DEF claimed, submitted, panelOf, revisionOf
<1>5. ASSUME NEW j \in Job, submitted(svc', j), live(svc', j)
      PROVE  j \in Elements(lined)
  <2>1. submitted(svc, j) /\ live(svc, j)
    BY <1>1, <1>3, <1>5 DEF Fate, Same, Excused, submitted, live, settled
  <2> QED
    BY <2>1, <1>2
<1>6. ASSUME NEW j \in Job, ~settled(svc, j), svc'.outcome[j] \in {"verified", "failed"}
      PROVE  j = svc.active /\ live(svc, j)
  BY <1>3, <1>6 DEF Fate, Same, Excused, Ruled, live, settled
<1>7. Contract!Leaves(lined)
  BY <1>1, <1>2, <1>5, <1>6, LeavesLine
<1>8. ASSUME NEW k \in Contract!ToSet(lined)
      PROVE  svc'.outcome[k] # "superseded"
  <2>2. k \in Job /\ submitted(svc, k) /\ live(svc, k)
    BY <1>1, <1>8, LineSet
  <2> QED
    BY <2>2, <1>3 DEF Fate, Excused, Ruled, live
<1> QED
  BY <1>4, <1>7, <1>8 DEF Contract!Serve

LEMMA Joins ==
  ASSUME NEW q \in Seq(Job), Ascending(q), NEW j \in Job, \A k \in Elements(q) : k < j
  PROVE  /\ Append(q, j) \in Seq(Job) /\ Ascending(Append(q, j))
         /\ Elements(Append(q, j)) = Elements(q) \cup {j}
<1> DEFINE r == Append(q, j)
<1>1. /\ r \in Seq(Job) /\ Len(q) \in Nat /\ Len(r) = Len(q) + 1
      /\ r[Len(q) + 1] = j /\ \A i \in 1..Len(q) : r[i] = q[i]
  OBVIOUS
<1> HIDE DEF r
<1>2. Ascending(r)
  <2> SUFFICES ASSUME NEW i \in 1..Len(r), NEW k \in 1..Len(r), i < k
               PROVE  r[i] < r[k]
    BY DEF Ascending
  <2>1. CASE k \in 1..Len(q)
    BY <1>1, <2>1 DEF Ascending
  <2>2. CASE k = Len(q) + 1
    <3>1. i \in 1..Len(q)
      BY <1>1, <2>2
    <3>2. r[i] = q[i] /\ q[i] \in Elements(q)
      BY <1>1, <3>1 DEF Elements
    <3> QED
      BY <1>1, <2>2, <3>2
  <2> QED
    BY <1>1, <2>1, <2>2
<1>3. Elements(r) = Elements(q) \cup {j}
  <2>1. ASSUME NEW x \in Elements(r) PROVE x \in Elements(q) \cup {j}
    BY <1>1, <2>1 DEF Elements
  <2>2. ASSUME NEW x \in Elements(q) PROVE x \in Elements(r)
    BY <1>1, <2>2 DEF Elements
  <2>3. j \in Elements(r)
    <3>1. Len(q) + 1 \in 1..Len(r)
      BY <1>1
    <3> QED
      BY <1>1, <3>1 DEF Elements
  <2> QED
    BY <2>1, <2>2, <2>3
<1> QED
  BY <1>1, <1>2, <1>3 DEF r

\* submit() is an arrival.
LEMMA Arrives ==
  ASSUME IInv, IInv', NEW request \in Request, NEW made \in Made, submit(request, made)
  PROVE  \E j \in Job, c \in Contract!Claim : Contract!Arrive(j, c)
<1> DEFINE job == svc.submitted + 1
           c == [panel |-> request.panel, revision |-> request.revision]
           arrived == Append(lined, job)
           rivals == {k \in Contract!ToSet(lined) : claimed[k].panel = c.panel}
<1>1. PICK s, S : /\ Submitting(job, request, s) /\ Fates(s, svc', {}, S)
                  /\ \A k \in S : k = job \/ Outdone(s, k, job)
                  /\ Resolved(s, svc', job)
  <2>1. PICK s, S : Entered(request, s, S, svc')
    BY SubmitHandled
  <2> QED
    BY <2>1 DEF Entered
<1>2. /\ ~svc.disposed /\ ~svc.unavailable /\ svc.submitted \in Nat /\ job \in Job
      /\ Keeps(svc, svc')
  <2>1. Keeps(svc, svc')
    BY SubmitHandled
  <2>2. svc \in ServiceState
    BY Before
  <2>3. svc.submitted \in Nat
    BY <2>2, Fields
  <2>4. ~svc.disposed /\ ~svc.unavailable /\ svc.submitted < MaxJobs
    BY DEF submit
  <2> QED
    BY <2>1, <2>3, <2>4, ConstantsAssumption DEF Job
<1>3. /\ s.submitted = job /\ s.outcome = svc.outcome /\ s.obsolete = svc.obsolete
      /\ \A k \in Job : s.request[k] = IF k = job THEN request ELSE svc.request[k]
  <2>1. s = [svc EXCEPT !.submitted = job, !.request[job] = request]
    BY <1>1 DEF Submitting
  <2> QED
    BY <2>1, Before, Fields DEF ServiceState
<1>4. /\ svc'.submitted = job
      /\ \A k \in Job : svc'.request[k] = IF k = job THEN request ELSE svc.request[k]
  BY <1>1, <1>3 DEF Fates
<1>5. /\ ~submitted(svc, job)
      /\ \A k \in Job : (submitted(s, k) <=> submitted(svc, k) \/ k = job)
                       /\ (submitted(svc', k) <=> submitted(svc, k) \/ k = job)
  BY <1>2, <1>3, <1>4, ConstantsAssumption DEF submitted, Job
<1>6. /\ svc \in ServiceState /\ Jobs(svc, {}) /\ Requested(svc) /\ lined = Line(svc)
      /\ Jobs(svc', {}) /\ lined' = Line(svc')
  BY DEF IInv, Jobs, lined, Line
<1>7. /\ lined \in Seq(Job) /\ Ascending(lined)
      /\ Elements(lined) = {j \in Job : submitted(svc, j) /\ live(svc, j)}
  BY <1>6, LineHolds
<1>8. /\ Contract!ToSet(lined) = {j \in Job : submitted(svc, j) /\ live(svc, j)}
      /\ Contract!ToSet(lined') = {j \in Job : submitted(svc', j) /\ live(svc', j)}
  BY <1>6, LineSet
<1>9. \A k \in Job : claimed[k] = Claimed(svc, k)
  BY DEF claimed, Claimed
<1>10. claimed[job] = NoRequest /\ c \in Contract!Claim
  BY <1>2, <1>5, <1>9 DEF Claimed, Request, Contract!Claim
<1>11. claimed' = [claimed EXCEPT ![job] = c]
  <2>1. /\ claimed' = [k \in Job |-> Claimed(svc', k)]
        /\ claimed = [k \in Job |-> Claimed(svc, k)]
    BY DEF claimed, Claimed, submitted, panelOf, revisionOf
  <2>2. \A k \in Job : Claimed(svc', k) = IF k = job THEN c ELSE Claimed(svc, k)
    BY <1>2, <1>4, <1>5 DEF Claimed, panelOf, revisionOf
  <2> HIDE DEF c, job
  <2> QED
    BY <2>1, <2>2
<1> HIDE DEF c, job
<1>12. arrived \in Seq(Job) /\ Ascending(arrived) /\ Elements(arrived) = Elements(lined) \cup {job}
  <2>1. \A k \in Elements(lined) : k < job
    BY <1>2, <1>7 DEF submitted, job, Job
  <2> QED
    BY <1>2, <1>7, <2>1, Joins DEF arrived
<1>13. ASSUME NEW k \in Job
       PROVE  Fate(s, svc', k, {}, S)
  BY <1>1 DEF Fates
<1>14. ASSUME NEW k \in Job, submitted(svc', k), live(svc', k)
       PROVE  k \in Elements(arrived)
  <2>1. k = job \/ (submitted(svc, k) /\ live(svc, k))
    BY <1>3, <1>5, <1>13, <1>14 DEF Fate, Same, Excused, live, settled
  <2> QED
    BY <2>1, <1>7, <1>12
<1>15. ASSUME NEW k \in Job, ~settled(svc, k), svc'.outcome[k] \in {"verified", "failed"}
       PROVE  FALSE
  BY <1>3, <1>13, <1>15 DEF Fate, Same, Ruled, settled
<1>16. Contract!Leaves(arrived)
  <2> HIDE DEF arrived
  <2> QED
    BY <1>2, <1>12, <1>14, <1>15, LeavesLine
<1>17. ASSUME NEW k \in Contract!ToSet(lined)
       PROVE  /\ k \in Job \ {job} /\ submitted(svc, k) /\ live(svc, k)
              /\ submitted(s, k) /\ live(s, k)
              /\ claimed[k].panel = panelOf(s, k) /\ claimed[k].revision = revisionOf(s, k)
              /\ panelOf(s, job) = c.panel /\ revisionOf(s, job) = c.revision
  <2>1. k \in Job \ {job} /\ submitted(svc, k) /\ live(svc, k)
    BY <1>5, <1>8, <1>17
  <2>2. submitted(s, k) /\ live(s, k)
    BY <2>1, <1>3, <1>5 DEF live, settled
  <2>3. claimed[k].panel = panelOf(svc, k) /\ claimed[k].revision = revisionOf(svc, k)
    BY <2>1, <1>6, <1>9, Claims
  <2>4. panelOf(s, k) = panelOf(svc, k) /\ revisionOf(s, k) = revisionOf(svc, k)
    BY <2>1, <1>3 DEF panelOf, revisionOf
  <2>5. panelOf(s, job) = c.panel /\ revisionOf(s, job) = c.revision
    BY <1>2, <1>3 DEF panelOf, revisionOf, c
  <2> QED
    BY <2>1, <2>2, <2>3, <2>4, <2>5
<1>18. ASSUME NEW k \in rivals, claimed[k].revision < c.revision, svc'.outcome[job] # "cancelled"
       PROVE  k \notin Contract!ToSet(lined')
  BY <1>1, <1>8, <1>17, <1>18 DEF Resolved
<1>19. ASSUME NEW k \in rivals, claimed[k].revision >= c.revision
       PROVE  job \notin Contract!ToSet(lined')
  <2>1. ~(revisionOf(s, k) < revisionOf(s, job))
    <3>1. claimed[k] \in Contract!Claim
      BY <1>6, <1>9, <1>17, <1>19, Claims
    <3>2. claimed[k].revision \in Nat /\ c.revision \in Nat
      BY <3>1, <1>10, ConstantsAssumption DEF Contract!Claim
    <3> QED
      BY <3>2, <1>17, <1>19
  <2> QED
    BY <2>1, <1>1, <1>8, <1>17, <1>19 DEF Resolved, live
<1>20. ASSUME NEW k \in Contract!ToSet(lined), svc'.outcome[k] = "superseded"
       PROVE  k \in rivals /\ claimed[k].revision < c.revision
  <2>1. k \in S
    BY <1>13, <1>17, <1>20 DEF Fate, Excused, Ruled, live
  <2> QED
    BY <2>1, <1>1, <1>17 DEF Outdone
<1>21. Contract!Arrive(job, c)
  BY <1>2, <1>10, <1>11, <1>16, <1>18, <1>19, <1>20 DEF Contract!Arrive
<1> QED
  BY <1>2, <1>10, <1>21

LEMMA ContractInit == Init => Contract!Init
<1> SUFFICES ASSUME Init PROVE Contract!Init
  OBVIOUS
<1>1. /\ svc.submitted = 0 /\ svc.active = None /\ svc.queue = <<>>
      /\ svc.outcome = [j \in Job |-> "pending"]
  BY InitIInv
<1>2. claimed = [j \in Job |-> NoRequest]
  BY <1>1, ConstantsAssumption DEF claimed, submitted, Job
<1>3. lined = <<>>
  BY <1>1 DEF lined
<1> QED
  BY <1>1, <1>2, <1>3 DEF Contract!Init

\* Every event of the service is an arrival, a turn of the line or nothing.
LEMMA ContractNext ==
  ASSUME IInv, IInv', [Next]_vars
  PROVE  Contract!Next
<1>1. CASE Returned(svc')
  <2>1. svc.disposed \/ svc.unavailable => svc'.disposed \/ svc'.unavailable
    BY StaysShut
  <2> QED
    BY <1>1, <2>1, Serves DEF Contract!Next
<1>2. ASSUME NEW request \in Request, NEW made \in Made, submit(request, made)
      PROVE  Contract!Next
  BY <1>2, Arrives DEF Contract!Next
<1> QED
  BY <1>1, <1>2, Answers

\* Whatever workers, connections and the factory do, submissions see a line that
\* is served in order and in which the latest revision of a panel wins: every
\* step of the service is one of the contract's, for any number of panels,
\* clients, revisions and worker replacements.
THEOREM ImplementsContract == Spec => ImplementsLatestWins
<1>1. Init => Contract!Init
  BY ContractInit
<1>2. IInv /\ IInv' /\ [Next]_vars => [Contract!Next]_(Contract!vars)
  BY ContractNext
<1> QED
  BY <1>1, <1>2, Invariant, PTL DEF Spec, ImplementsLatestWins, Contract!Spec
=============================================================================
