--------------------------- MODULE CircuitService ---------------------------
(***************************************************************************)
(* The circuit verification service: a queue of verification jobs in front *)
(* of one worker thread                                                    *)
(* (src/src/server/circuit/circuit-verification-service.ts).               *)
(*                                                                         *)
(* Every function of the service runs to completion on the main thread, so *)
(* a function is an operator from service states to service states, named  *)
(* as in the source, and an event handler is one action that applies it to *)
(* svc.  The worker threads, the connections and the worker factory are    *)
(* the environment.  What a job computes and the progress numbers are left *)
(* out; CircuitHandshake has the shared-memory protocol of one run.        *)
(***************************************************************************)
EXTENDS Naturals, Sequences, FiniteSets

CONSTANTS
  Panel,                  \* panel ids
  Client,                 \* connections a submission may come from
  Revision,               \* input revisions
  MaxJobs,                \* bound: submissions per behaviour
  MaxPending,             \* options.maxPending
  MaxWorkerReplacements,  \* options.maxWorkerReplacements
  FactoryMayThrow,        \* whether workerFactory() may throw
  PortMayRefuse,          \* whether postMessage of a run may throw
  NoRequest               \* request of a job not submitted yet

ASSUME ConstantsAssumption ==
  /\ Revision \subseteq Nat
  /\ MaxJobs \in Nat
  /\ MaxPending \in Nat \ {0}
  /\ MaxWorkerReplacements \in Nat
  /\ FactoryMayThrow \in BOOLEAN
  /\ PortMayRefuse \in BOOLEAN

Job == 1..MaxJobs         \* job ids count submissions (nextJob)
None == 0                 \* undefined, for jobs and workers

Request == [panel : Panel, revision : Revision, client : Client]

ASSUME NoRequestAssumption == NoRequest \notin Request

Obsolete == {"no", "cancelled", "superseded"}
Outcome == {"pending", "verified", "failed", "cancelled", "superseded", "error"}
Stage == {"silent", "queued", "started", "lap", "completed", "failed", "cancelled"}
FinalStage == {"completed", "failed", "cancelled"}

VARIABLES
  svc,      \* the service's own state, a record (see TypeOK)
  closed,   \* clients whose connection is closed: their listeners return false
  faulted,  \* workers that failed by themselves, whatever the service noticed
  exited,   \* workers whose "exit" event was delivered
  deaf      \* workers whose port refuses a run command

vars == <<svc, closed, faulted, exited, deaf>>

(***************************************************************************)
(* svc.queue, active, latest, worker, ready, failures, unavailable and     *)
(* disposed are the variables of the source; latest is latestByPanel.      *)
(* request, obsolete and outcome are the fields of Job (outcome is the     *)
(* settled flag and what the promise was settled with), stage is the last  *)
(* progress event its listener accepted.  waiters are the jobs whose       *)
(* submission awaits the startup promise, callbacks those among them whose *)
(* rejection handler is in the microtask queue.                            *)
(***************************************************************************)
Init0 ==
  [ submitted   |-> 0,
    request     |-> [j \in Job |-> NoRequest],
    obsolete    |-> [j \in Job |-> "no"],
    outcome     |-> [j \in Job |-> "pending"],
    stage       |-> [j \in Job |-> "silent"],
    queue       |-> <<>>,
    latest      |-> [p \in Panel |-> None],
    active      |-> None,
    worker      |-> None,
    starts      |-> 0,
    ready       |-> FALSE,
    waiters     |-> <<>>,
    callbacks   |-> <<>>,
    failures    |-> 0,
    unavailable |-> FALSE,
    disposed    |-> FALSE ]

submitted(s, j) == j <= s.submitted
settled(s, j) == s.outcome[j] # "pending"
unsettled(s) == {j \in Job : submitted(s, j) /\ ~settled(s, j)}
live(s, j) == ~settled(s, j) /\ s.obsolete[j] = "no"
panelOf(s, j) == s.request[j].panel
revisionOf(s, j) == s.request[j].revision
hears(s, j) == s.request[j].client \notin closed
queued(s) == {s.queue[i] : i \in 1..Len(s.queue)}
always(outcome) == [j \in Job |-> outcome]

-----------------------------------------------------------------------------
(* Jobs: settling, progress events, cancellation.                          *)

\* Mutant: settle_result without its "already settled" return.
settle_again(s, J, result) ==
  [s EXCEPT !.outcome = [j \in Job |-> IF j \in J THEN result[j] ELSE @[j]],
            !.latest  = [p \in Panel |-> IF @[p] \in J THEN None ELSE @[p]]]

\* settle_result and cleanup_job, for every unsettled job of J at once.
settle(s, J, result) ==
  LET now == {j \in J : ~settled(s, j)}
  IN  [s EXCEPT !.outcome = [j \in Job |-> IF j \in now THEN result[j] ELSE @[j]],
                !.latest  = [p \in Panel |-> IF @[p] \in now THEN None ELSE @[p]]]

\* job.onProgress?.(event): only an open connection sees the event.
deliver(s, j, stage) ==
  IF hears(s, j) THEN [s EXCEPT !.stage[j] = stage] ELSE s

remove_pending(s, j) ==
  IF j \notin queued(s) THEN s
  ELSE LET at == CHOOSE i \in 1..Len(s.queue) : s.queue[i] = j
       IN  [s EXCEPT !.queue = [i \in 1..(Len(@) - 1) |-> IF i < at THEN @[i] ELSE @[i + 1]]]

\* Mutant: cancel_job settles a pending job and leaves it in the queue.
cancel_job_in_place(s, j, reason) ==
  IF ~live(s, j) THEN s
  ELSE LET marked == [s EXCEPT !.obsolete[j] = reason]
       IN  IF s.active = j THEN marked
           ELSE settle(deliver(marked, j, "cancelled"), {j}, always(reason))

\* A queued job settles now; the active one only gets its flag set and its
\* promise waits for what the worker answers.
cancel_job(s, j, reason) ==
  IF ~live(s, j) THEN s
  ELSE LET marked == [s EXCEPT !.obsolete[j] = reason]
       IN  IF s.active = j THEN marked
           ELSE settle(deliver(remove_pending(marked, j), j, "cancelled"), {j}, always(reason))

\* A listener that does not accept the event cancels its job.
emit(s, j, stage) ==
  IF settled(s, j) \/ (s.obsolete[j] # "no" /\ stage # "cancelled") THEN s
  ELSE IF hears(s, j) THEN deliver(s, j, stage)
  ELSE cancel_job(s, j, "cancelled")

settle_result(s, j, outcome) == settle(s, {j}, always(outcome))

settle_error(s, j) == settle_result(emit(s, j, "failed"), j, "error")

settle_obsolete(s, j) == settle_result(emit(s, j, "cancelled"), j, s.obsolete[j])

\* Mutant: the queue is emptied and its promises are forgotten.
fail_pending_silently(s) == [s EXCEPT !.queue = <<>>]

\* settle_error for every job of queue.splice(0); their events do not interact.
fail_pending(s) ==
  LET jobs == queued(s)
      told == {j \in jobs : live(s, j) /\ hears(s, j)}
      lost == {j \in jobs : live(s, j) /\ ~hears(s, j)}
      told_failed ==
        [s EXCEPT !.queue    = <<>>,
                  !.stage    = [j \in Job |-> IF j \in told THEN "failed" ELSE @[j]],
                  !.obsolete = [j \in Job |-> IF j \in lost THEN "cancelled" ELSE @[j]]]
  IN  settle(told_failed, jobs, [j \in Job |-> IF j \in lost THEN "cancelled" ELSE "error"])

-----------------------------------------------------------------------------
(* The worker: startup, replacement, dispatch.                             *)

\* made: whether workerFactory() returns.  A worker that is set is ready or
\* has its startup promise pending, and start_worker returns that promise.
start_worker(s, made) ==
  IF s.disposed \/ s.unavailable \/ s.worker # None THEN s
  ELSE IF made THEN [s EXCEPT !.worker = s.starts + 1, !.starts = @ + 1, !.ready = FALSE]
  ELSE [s EXCEPT !.unavailable = TRUE]

\* The startup promise is rejected: its handlers become microtasks.
reject_startup(s) ==
  [s EXCEPT !.callbacks = @ \o s.waiters, !.waiters = <<>>]

\* The caller has checked worker === failedWorker.
replace_worker(s, made) ==
  LET failed   == s.active
      detached == [reject_startup(s) EXCEPT !.worker = None, !.ready = FALSE, !.active = None]
      released == IF failed = None THEN detached
                  ELSE IF s.obsolete[failed] # "no" THEN settle_obsolete(detached, failed)
                  ELSE settle_error(detached, failed)
      charged  == [released EXCEPT !.failures = @ + 1]
  IN  IF s.disposed THEN released
      ELSE IF charged.failures > MaxWorkerReplacements
           THEN fail_pending([charged EXCEPT !.unavailable = TRUE])
           ELSE start_worker(charged, made)

\* The first job that is neither settled nor obsolete runs; the ones before
\* it leave the queue, settled with the reason they are obsolete.
dispatch_next(s, made) ==
  IF s.disposed \/ s.unavailable \/ ~s.ready \/ s.worker = None \/ s.active # None
     \/ s.queue = <<>>
  THEN s
  ELSE LET runnable == {i \in 1..Len(s.queue) : live(s, s.queue[i])}
           first    == IF runnable = {} THEN Len(s.queue) + 1
                       ELSE CHOOSE i \in runnable : \A k \in runnable : i <= k
           skipped  == {s.queue[i] : i \in 1..(first - 1)}
           shifted  == settle([s EXCEPT !.queue = SubSeq(@, first + 1, Len(@))],
                              skipped, s.obsolete)
       IN  IF runnable = {} THEN shifted
           ELSE LET job     == s.queue[first]
                    running == emit([shifted EXCEPT !.active = job], job, "started")
                IN  IF s.worker \in deaf THEN replace_worker(running, made) ELSE running

\* start_worker().then(dispatch_next, ...): the handler of job waits with the
\* startup promise, or runs now that it is rejected.  A fulfilled promise
\* calls dispatch_next once more, which WorkConserving shows to change nothing.
await_worker(s, job) ==
  IF s.unavailable THEN [s EXCEPT !.callbacks = Append(@, job)]
  ELSE IF ~s.ready THEN [s EXCEPT !.waiters = Append(@, job)]
  ELSE s

\* Mutants: the queue used as a stack; a repeated revision accepted as newer.
enqueue_first(s, job) == [s EXCEPT !.latest[panelOf(s, job)] = job, !.queue = <<job>> \o @]
is_stale_strict(s, job, previous) == revisionOf(s, job) < revisionOf(s, previous)

enqueue(s, job) == [s EXCEPT !.latest[panelOf(s, job)] = job, !.queue = Append(@, job)]

is_stale(s, job, previous) == revisionOf(s, job) <= revisionOf(s, previous)

\* Mutant: the status of the result used as the stage of the event.
final_event_status(status) == status

\* The event for a result of a job that is not obsolete.
final_event(status) == IF status = "verified" THEN "completed" ELSE status

\* Mutant: the result of an obsolete job is passed on.
finish_anyway(s, job, status) ==
  settle_result(emit(s, job, final_event(status)), job, status)

\* The active job has its result.
finish(s, job, status) ==
  IF s.obsolete[job] # "no" THEN settle_obsolete(s, job)
  ELSE settle_result(emit(s, job, final_event(status)), job, status)

-----------------------------------------------------------------------------
(* The event handlers.  A rejection handler is a microtask and runs before *)
(* any other event.                                                        *)

Idle == svc.callbacks = <<>>
Made == IF FactoryMayThrow THEN BOOLEAN ELSE {TRUE}
Worker == 1..svc.starts
Installed(w) == w = svc.worker /\ ~svc.disposed

Init ==
  /\ \E made \in (IF FactoryMayThrow THEN BOOLEAN ELSE {TRUE}) :
       svc = start_worker(Init0, made)
  /\ closed = {}
  /\ faulted = {}
  /\ exited = {}
  /\ deaf = {}

\* submit() of a service that is neither disposed nor unavailable; otherwise
\* it rejects and changes nothing.
submit(request, made) ==
  LET job       == svc.submitted + 1
      offered   == emit([svc EXCEPT !.submitted = job, !.request[job] = request], job, "queued")
      previous  == offered.latest[request.panel]
      contested == previous # None /\ ~settled(offered, previous)
      stale     == contested /\ is_stale(offered, job, previous)
      fenced    == IF contested THEN cancel_job(offered, previous, "superseded") ELSE offered
      outdated  == [offered EXCEPT !.obsolete[job] = "superseded"]
  IN  /\ Idle
      /\ ~svc.disposed /\ ~svc.unavailable
      /\ svc.submitted < MaxJobs
      /\ svc' = IF settled(offered, job) THEN offered
                ELSE IF stale THEN settle_obsolete(outdated, job)
                ELSE IF Len(fenced.queue) >= MaxPending THEN settle_error(fenced, job)
                ELSE dispatch_next(await_worker(start_worker(enqueue(fenced, job), made), job), made)
      /\ UNCHANGED <<closed, faulted, exited, deaf>>

\* The rejection handler submit() attached to the startup promise.
StartupRejected ==
  LET job == Head(svc.callbacks)
  IN  /\ ~Idle
      /\ svc' = settle_error(remove_pending([svc EXCEPT !.callbacks = Tail(@)], job), job)
      /\ UNCHANGED <<closed, faulted, exited, deaf>>

\* handle_reply, "initialized" from a worker that is starting.
Initialized(w, made) ==
  /\ Idle
  /\ Installed(w) /\ ~svc.ready
  /\ svc' = dispatch_next([svc EXCEPT !.ready = TRUE, !.waiters = <<>>], made)
  /\ UNCHANGED <<closed, faulted, exited, deaf>>

Running(w) == Idle /\ Installed(w) /\ svc.ready /\ svc.active # None

\* Mutant: a lap is told with the event of the queue.
Progress_requeued(w) ==
  /\ Running(w)
  /\ svc' = emit(svc, svc.active, "queued")
  /\ UNCHANGED <<closed, faulted, exited, deaf>>

\* handle_reply, "progress": the event is dropped once the job is obsolete.
Progress(w) ==
  /\ Running(w)
  /\ svc' = emit(svc, svc.active, "lap")
  /\ UNCHANGED <<closed, faulted, exited, deaf>>

\* Mutant: a failed run frees the worker and nothing is dispatched to it.
Failed_undispatched(w, made) ==
  LET free == [svc EXCEPT !.active = None]
  IN  /\ Running(w)
      /\ svc' = IF svc.obsolete[svc.active] # "no" THEN settle_obsolete(free, svc.active)
                ELSE settle_error(free, svc.active)
      /\ UNCHANGED <<closed, faulted, exited, deaf>>

\* handle_reply, "failed": the run threw inside the worker.
Failed(w, made) ==
  LET job  == svc.active
      free == [svc EXCEPT !.active = None]
  IN  /\ Running(w)
      /\ svc' = dispatch_next(IF svc.obsolete[job] # "no" THEN settle_obsolete(free, job)
                              ELSE settle_error(free, job), made)
      /\ UNCHANGED <<closed, faulted, exited, deaf>>

\* handle_reply, "complete": the worker reports "cancelled" only when it saw
\* the flag cancel_job sets.
Complete(w, status, made) ==
  LET job  == svc.active
      free == [svc EXCEPT !.active = None, !.failures = 0]
  IN  /\ Running(w)
      /\ status = "cancelled" => svc.obsolete[job] # "no"
      /\ svc' = dispatch_next(finish(free, job, status), made)
      /\ UNCHANGED <<closed, faulted, exited, deaf>>

\* replace_worker, called for an event of worker w.
lose_worker(w, made) ==
  IF w = svc.worker THEN replace_worker(svc, made) ELSE svc

\* handle_reply or "messageerror": a reply that fails to decode or does not
\* belong to the active job.
ProtocolViolation(w, made) ==
  /\ Idle
  /\ w \notin exited
  /\ faulted' = faulted \cup {w}
  /\ svc' = IF svc.disposed THEN svc ELSE lose_worker(w, made)
  /\ UNCHANGED <<closed, exited, deaf>>

\* The "error" event; Node delivers "exit" for the same worker later.
WorkerError(w, made) ==
  /\ Idle
  /\ w \notin exited
  /\ faulted' = faulted \cup {w}
  /\ svc' = lose_worker(w, made)
  /\ UNCHANGED <<closed, exited, deaf>>

\* The "exit" event, once per worker, also after terminate().
WorkerExit(w, made) ==
  /\ Idle
  /\ w \notin exited
  /\ faulted' = faulted \cup {w}
  /\ exited' = exited \cup {w}
  /\ svc' = IF svc.disposed THEN svc ELSE lose_worker(w, made)
  /\ UNCHANGED <<closed, deaf>>

\* startupTimer of the current worker.
StartupTimeout(w, made) ==
  /\ Idle
  /\ Installed(w) /\ ~svc.ready
  /\ faulted' = faulted \cup {w}
  /\ svc' = lose_worker(w, made)
  /\ UNCHANGED <<closed, exited, deaf>>

PortRefuses(w) ==
  /\ Idle
  /\ PortMayRefuse
  /\ Installed(w) /\ w \notin deaf
  /\ deaf' = deaf \cup {w}
  /\ UNCHANGED <<svc, closed, faulted, exited>>

Disconnect(c) ==
  /\ Idle
  /\ closed' = closed \cup {c}
  /\ UNCHANGED <<svc, faulted, exited, deaf>>

dispose ==
  LET rejected == reject_startup([svc EXCEPT !.disposed = TRUE])
      stopped  == IF svc.active = None THEN rejected
                  ELSE [settle_error(rejected, svc.active) EXCEPT !.active = None]
  IN  /\ Idle
      /\ ~svc.disposed
      /\ svc' = [fail_pending(stopped) EXCEPT !.latest = [p \in Panel |-> None],
                                              !.worker = None, !.ready = FALSE]
      /\ UNCHANGED <<closed, faulted, exited, deaf>>

Next ==
  \/ \E request \in Request, made \in Made : submit(request, made)
  \/ StartupRejected
  \/ \E w \in Worker, made \in Made :
       \/ Initialized(w, made)
       \/ Failed(w, made)
       \/ \E status \in {"verified", "failed", "cancelled"} : Complete(w, status, made)
       \/ ProtocolViolation(w, made)
       \/ WorkerError(w, made)
       \/ WorkerExit(w, made)
       \/ StartupTimeout(w, made)
  \/ \E w \in Worker : Progress(w)
  \/ \E w \in Worker : PortRefuses(w)
  \/ \E c \in Client : Disconnect(c)
  \/ dispose

Spec == Init /\ [][Next]_vars

(***************************************************************************)
(* Weak fairness of the microtasks and of the startup timer, which fires   *)
(* unless the worker reported first.  The handlers are total, so each of   *)
(* these actions is enabled exactly when its guard holds: WF is written    *)
(* with the guard for ENABLED, which TLC would take exponential time to    *)
(* evaluate.                                                               *)
(***************************************************************************)
EndsStartup ==
  \E w \in Worker, made \in Made : Initialized(w, made) \/ StartupTimeout(w, made)

Fairness ==
  /\ []<>Idle \/ []<><<StartupRejected>>_vars
  /\ []<>~(Idle /\ svc.worker # None /\ ~svc.ready) \/ []<><<EndsStartup>>_vars

FairSpec == Spec /\ Fairness

-----------------------------------------------------------------------------
(* Properties.                                                             *)

ServiceState ==
  [ submitted : 0..MaxJobs,
    request : [Job -> Request \cup {NoRequest}],
    obsolete : [Job -> Obsolete],
    outcome : [Job -> Outcome],
    stage : [Job -> Stage],
    queue : Seq(Job),
    latest : [Panel -> Job \cup {None}],
    active : Job \cup {None},
    worker : Nat,
    starts : Nat,
    ready : BOOLEAN,
    waiters : Seq(Job),
    callbacks : Seq(Job),
    failures : Nat,
    unavailable : BOOLEAN,
    disposed : BOOLEAN ]

TypeOK ==
  /\ svc \in ServiceState
  /\ \A j \in Job : submitted(svc, j) <=> svc.request[j] # NoRequest
  /\ closed \subseteq Client
  /\ faulted \subseteq Worker /\ exited \subseteq Worker /\ deaf \subseteq Worker

\* Every promise submit() handed out has exactly one owner that will settle
\* it: an unsettled job is the active one or is queued once, never both, and
\* nothing settled or obsolete is left in the queue, which maxPending bounds.
OwnedUntilSettled ==
  /\ Len(svc.queue) <= MaxPending
  /\ \A j \in unsettled(svc) : (svc.active = j) # (j \in queued(svc))
  /\ queued(svc) \subseteq unsettled(svc)
  /\ \A j \in queued(svc) : live(svc, j)
  /\ svc.active # None => svc.active \in unsettled(svc)

\* Jobs run in submission order, whatever was superseded or removed between:
\* the queue is ordered by job id and the active job is older than all of it.
FifoOrder ==
  /\ \A i, k \in 1..Len(svc.queue) : i < k => svc.queue[i] < svc.queue[k]
  /\ svc.active # None => \A j \in queued(svc) : svc.active < j

\* Per panel only the newest accepted request can still get a verdict:
\* latestByPanel points at it, and every other unsettled job of the panel is
\* obsolete and of a lower revision.
NewestRevisionWins ==
  ~svc.disposed =>
    \A j \in unsettled(svc) : live(svc, j) =>
      /\ svc.latest[panelOf(svc, j)] = j
      /\ \A k \in unsettled(svc) \ {j} :
           panelOf(svc, k) = panelOf(svc, j) => revisionOf(svc, k) < revisionOf(svc, j)

\* A superseded or cancelled job never ends with a verdict, even when the
\* worker had already finished it, and it is obsolete for a reason: its
\* connection closed, or a request for the same panel and at least its
\* revision was submitted.
ObsoleteForAReason ==
  \A j \in 1..svc.submitted :
    /\ svc.obsolete[j] # "no" => svc.outcome[j] \notin {"verified", "failed"}
    /\ svc.obsolete[j] = "cancelled" => ~hears(svc, j)
    /\ svc.obsolete[j] = "superseded" =>
         \E k \in 1..svc.submitted \ {j} :
           panelOf(svc, k) = panelOf(svc, j) /\ revisionOf(svc, k) >= revisionOf(svc, j)
    /\ svc.outcome[j] \in {"cancelled", "superseded"} => svc.outcome[j] = svc.obsolete[j]

\* The last progress event a listener saw agrees with how the promise
\* settled, and no final event precedes the settling.
EventsAgreeWithOutcome ==
  \A j \in 1..svc.submitted :
    CASE svc.stage[j] = "completed" -> svc.outcome[j] = "verified"
      [] svc.stage[j] = "failed"    -> svc.outcome[j] \in {"failed", "error"}
      [] svc.stage[j] = "cancelled" -> svc.outcome[j] \in {"cancelled", "superseded"}
      [] OTHER -> svc.outcome[j] \in {"verified", "failed"} => ~hears(svc, j)

\* An idle ready worker never leaves a job waiting: every handler that frees
\* the worker or fills the queue dispatches before it returns.
WorkConserving ==
  svc.ready /\ svc.active = None => svc.queue = <<>>

\* A service that is neither disposed nor unavailable has a worker, starting
\* or ready; one that is has none, and nothing runs.
WorkerPresent ==
  /\ svc.worker # None <=> ~svc.disposed /\ ~svc.unavailable
  /\ svc.ready => svc.worker # None
  /\ svc.active # None => svc.ready

\* The "error", "exit" and protocol events of one lost worker take one unit of
\* the replacement budget, however many of them arrive and whenever they do.
BudgetPerWorker == svc.failures <= Cardinality(faulted \cup deaf)

\* dispose() settles everything the service owned.
DisposalSettles == svc.disposed => unsettled(svc) = {}

\* A promise settles once: later replies, crashes, closures and disposal do
\* not change how.
SettledOnce ==
  [][\A j \in Job : settled(svc, j) => svc'.outcome[j] = svc.outcome[j]]_vars

Rank(stage) ==
  CASE stage = "silent"  -> 0
    [] stage = "queued"  -> 1
    [] stage = "started" -> 2
    [] stage = "lap"     -> 3
    [] stage \in FinalStage -> 4

\* A listener sees queued, started, laps and one final event in this order,
\* and nothing after the final one.
EventsInOrder ==
  [][\A j \in Job : svc'.stage[j] # svc.stage[j] => Rank(svc.stage[j]) < Rank(svc'.stage[j])]_vars

\* What a submitter is told is true: the events come in order, end with the
\* one that agrees with its outcome, and a job is given up for a reason only.
ToldTheTruth == []ObsoleteForAReason /\ []EventsAgreeWithOutcome /\ EventsInOrder

\* Nothing a submitter waits for is stranded: the service has a worker while it
\* can be used, an idle worker leaves no job waiting, and disposal settles all.
NothingStranded == WorkConserving /\ WorkerPresent /\ DisposalSettles

\* Once the replacement limit or a failed start makes the worker unavailable,
\* the pending jobs are rejected.
PendingRejectedWhenUnavailable ==
  svc.unavailable /\ Idle => unsettled(svc) = {}

\* The service has no timer for a run, so it settles what it owes only if every
\* run ends: the worker answers, or its thread fails and Node says so.
RunsEnd == \A j \in Job : []<>(svc.active # j)

\* If every run ends, every submission settles: supersession, closed
\* connections, worker loss, failed starts and disposal leave no promise open.
SettlesIfRunsEnd ==
  RunsEnd => \A j \in Job : (j \in unsettled(svc)) ~> (j \notin unsettled(svc))

\* The loss of a worker costs one replacement and no promise.
LossesSurvived == []BudgetPerWorker /\ SettlesIfRunsEnd
=============================================================================
