-------------------------- MODULE CircuitHandshake --------------------------
(***************************************************************************)
(* One run of the circuit worker, at the granularity of atomic operations. *)
(*                                                                         *)
(* The worker thread (src/src/server/circuit/circuit-verification-worker.mjs) *)
(* verifies synchronously and cannot receive messages meanwhile: it stops  *)
(* after every progress report until the main thread acknowledged it or    *)
(* raised the cancellation flag.  Both are words of one shared Int32Array: *)
(* cancellation[0] is the flag, cancellation[1] counts acknowledgments and *)
(* is the word the worker sleeps on.  The main thread is the service       *)
(* (circuit-verification-service.ts) as far as it touches that array.      *)
(***************************************************************************)
EXTENDS Naturals, Sequences

CONSTANTS
  Stages,         \* progress reports of a full run
  MaySupersede    \* whether a newer revision may supersede this run

ASSUME HandshakeAssumption ==
  /\ Stages \in Nat \ {0}
  /\ MaySupersede \in BOOLEAN

VARIABLES
  flag,       \* cancellation[CANCELLATION_INDEX]
  ack,        \* cancellation[PROGRESS_ACK_INDEX]
  wpc,        \* what the worker does next
  expected,   \* expectedProgressAcknowledgments
  observed,   \* the local of the same name
  channel,    \* messages of the worker the main thread has not handled
  mpc,        \* the atomic operations the running main-thread handler has left
  obsolete,   \* job.obsolete is set
  settled,    \* job.settled
  listening   \* the job's connection is open

vars == <<flag, ack, wpc, expected, observed, channel, mpc, obsolete, settled, listening>>
shared == <<flag, ack>>
worker == <<wpc, expected, observed>>
job == <<obsolete, settled, listening>>

Result == {"verified", "failed", "cancelled"}
WorkerPc == {"compute", "load_flag", "load_ack", "observe", "wait", "asleep", "answered",
             "terminated"}
MainOp == {"store_flag", "notify_flag", "add_ack", "notify_ack", "terminate"}

Init ==
  /\ flag = 0 /\ ack = 0
  /\ wpc = "compute" /\ expected = 0 /\ observed = 0
  /\ channel = <<>>
  /\ mpc = <<>>
  /\ obsolete = FALSE /\ settled = FALSE /\ listening = TRUE

-----------------------------------------------------------------------------
(* The worker thread.                                                      *)

WorkerStep(from, to) == wpc = from /\ wpc' = to

\* onProgress: postMessage, then count the acknowledgment to wait for.
Report ==
  /\ WorkerStep("compute", "load_flag")
  /\ expected < Stages
  /\ expected' = expected + 1
  /\ channel' = Append(channel, "progress")
  /\ UNCHANGED <<shared, observed, mpc, job>>

\* The condition of the while loop, one atomic load at a time.
LoadFlag ==
  /\ wpc = "load_flag"
  /\ wpc' = IF flag = 0 THEN "load_ack" ELSE "compute"
  /\ UNCHANGED <<shared, expected, observed, channel, mpc, job>>

\* Mutant: one acknowledgment too few is enough.
LoadAck_early ==
  /\ wpc = "load_ack"
  /\ wpc' = IF ack + 1 < expected THEN "observe" ELSE "compute"
  /\ UNCHANGED <<shared, expected, observed, channel, mpc, job>>

LoadAck ==
  /\ wpc = "load_ack"
  /\ wpc' = IF ack < expected THEN "observe" ELSE "compute"
  /\ UNCHANGED <<shared, expected, observed, channel, mpc, job>>

Observe ==
  /\ WorkerStep("observe", "wait")
  /\ observed' = ack
  /\ UNCHANGED <<shared, expected, channel, mpc, job>>

\* Atomics.wait compares and goes to sleep in one step.
Wait ==
  /\ wpc = "wait"
  /\ wpc' = IF ack = observed THEN "asleep" ELSE "load_flag"
  /\ UNCHANGED <<shared, expected, observed, channel, mpc, job>>

\* verify_universal_circuit returned, or threw ("failed" stands for both); it
\* returns "cancelled" when shouldCancel saw the flag.
Answer(result) ==
  /\ WorkerStep("compute", "answered")
  /\ result = "cancelled" => flag = 1
  /\ result = "verified" => expected = Stages
  /\ channel' = Append(channel, result)
  /\ UNCHANGED <<shared, expected, observed, mpc, job>>

-----------------------------------------------------------------------------
(* The main thread.  A handler runs to completion, but the worker runs in  *)
(* between its atomic operations.                                          *)

Resting == mpc = <<>>

\* The first two operations of cancel_job.
CancelOps == <<"store_flag", "notify_flag">>

\* Mutant: notify without counting.
acknowledge_uncounted == (IF listening THEN <<>> ELSE CancelOps) \o <<"notify_ack">>
\* The progress branch of handle_reply: emit may cancel, then acknowledge.
acknowledge == (IF listening THEN <<>> ELSE CancelOps) \o <<"add_ack", "notify_ack">>

\* handle_reply, "progress": dropped without acknowledgment when obsolete.
HandleProgress ==
  /\ Resting /\ ~settled
  /\ channel # <<>> /\ Head(channel) = "progress"
  /\ channel' = Tail(channel)
  /\ IF obsolete THEN UNCHANGED <<mpc, obsolete>>
     ELSE mpc' = acknowledge /\ obsolete' = ~listening
  /\ UNCHANGED <<shared, worker, settled, listening>>

\* Mutant: the early return for obsolete jobs placed before the answers.
HandleAnswer_dropped ==
  /\ Resting /\ ~settled
  /\ channel # <<>> /\ Head(channel) \in Result
  /\ channel' = Tail(channel)
  /\ settled' = ~obsolete
  /\ UNCHANGED <<shared, worker, mpc, obsolete, listening>>

\* handle_reply, "complete" and "failed".
HandleAnswer ==
  /\ Resting /\ ~settled
  /\ channel # <<>> /\ Head(channel) \in Result
  /\ channel' = Tail(channel)
  /\ settled' = TRUE
  /\ UNCHANGED <<shared, worker, mpc, obsolete, listening>>

\* submit() of a newer revision calls cancel_job on the active job.
Supersede ==
  /\ MaySupersede
  /\ Resting /\ ~settled /\ ~obsolete
  /\ obsolete' = TRUE
  /\ mpc' = CancelOps
  /\ UNCHANGED <<shared, worker, channel, settled, listening>>

Disconnect ==
  /\ listening /\ listening' = FALSE
  /\ UNCHANGED <<shared, worker, channel, mpc, obsolete, settled>>

dispose ==
  /\ Resting /\ ~settled
  /\ settled' = TRUE
  /\ mpc' = CancelOps \o <<"terminate">>
  /\ UNCHANGED <<shared, worker, channel, obsolete, listening>>

\* Atomics.notify on the acknowledgment word.
Wake == wpc' = IF wpc = "asleep" THEN "load_flag" ELSE wpc

MainOperation ==
  /\ ~Resting
  /\ mpc' = Tail(mpc)
  /\ CASE Head(mpc) = "store_flag" -> flag' = 1 /\ UNCHANGED <<ack, wpc>>
       [] Head(mpc) = "add_ack"    -> ack' = ack + 1 /\ UNCHANGED <<flag, wpc>>
       [] Head(mpc) \in {"notify_flag", "notify_ack"} -> Wake /\ UNCHANGED shared
       [] Head(mpc) = "terminate"  -> wpc' = "terminated" /\ UNCHANGED shared
  /\ UNCHANGED <<expected, observed, channel, job>>

WorkerNext ==
  Report \/ LoadFlag \/ LoadAck \/ Observe \/ Wait \/ \E result \in Result : Answer(result)

MainNext == HandleProgress \/ HandleAnswer \/ MainOperation

Next == WorkerNext \/ MainNext \/ Supersede \/ Disconnect \/ dispose

Spec == Init /\ [][Next]_vars

\* Both threads are scheduled.  Nothing forces a supersession, a closed
\* connection or disposal to happen.
FairSpec == Spec /\ WF_vars(WorkerNext) /\ WF_vars(MainNext)

-----------------------------------------------------------------------------
(* Properties.                                                             *)

TypeOK ==
  /\ flag \in 0..1
  /\ ack \in 0..Stages
  /\ wpc \in WorkerPc
  /\ expected \in 0..Stages
  /\ observed \in 0..Stages
  /\ channel \in Seq(Result \cup {"progress"})
  /\ mpc \in Seq(MainOp)
  /\ obsolete \in BOOLEAN /\ settled \in BOOLEAN /\ listening \in BOOLEAN

\* Backpressure: until the run is cancelled the worker is at most one progress
\* report ahead of the acknowledgments, so the main thread never has a
\* backlog of reports to work off before it sees the answer.
OneReportAhead ==
  flag = 0 => expected <= ack + 1 /\ Len(channel) <= 1

\* A worker that sleeps before its report is acknowledged is not forgotten:
\* unless the job is obsolete, the report is still to be handled or its
\* handler is about to count the acknowledgment.
AcknowledgmentOnItsWay ==
  wpc = "asleep" /\ ack < expected /\ ~obsolete /\ ~settled =>
    channel = <<"progress">> \/ \E i \in 1..Len(mpc) : mpc[i] = "add_ack"

\* The only thing that can keep a run from settling is a worker that sleeps:
\* neither thread spins and no answer is dropped.
SettlesUnlessAsleep == <>[](settled \/ wpc = "asleep")

\* A run that nothing makes obsolete delivers its reports and its answer: its
\* promise settles.
UndisturbedRunSettles == <>(settled \/ obsolete)

\* Raising the flag interrupts a worker that waits for an acknowledgment: it
\* does not fall asleep with the flag up and no notification to come.
CancellationInterrupts ==
  wpc = "asleep" /\ flag = 1 /\ ack < expected => mpc # <<>>
=============================================================================
