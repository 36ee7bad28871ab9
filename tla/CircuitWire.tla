----------------------------- MODULE CircuitWire -----------------------------
(***************************************************************************)
(* What crosses the boundaries of circuit verification, and who checks it: *)
(* the contract's decoders, which Locus and browser use, the worker's own, *)
(* and the service's decoder of what the worker posts.  The limits are     *)
(* written in three files.  A text is known by its length, a record by the *)
(* set of its keys.  What the universal circuit of the library puts into   *)
(* a result is external and free within its types.                         *)
(***************************************************************************)
EXTENDS Integers

VARIABLE wire

Entries == {"hson", "json", "html"}
MAX_SOURCE_LENGTH == 262144
MAX_RESULT_TEXT_LENGTH == 1048576
MAX_PANEL_ID_LENGTH == 128
TOTAL_STAGES == 7

exact_keys(keys, required, optional) == required \subseteq keys /\ keys \subseteq required \union optional

-----------------------------------------------------------------------------
(* Requests, at the Locus and in the worker.                               *)

RequestKeys == {"panelId", "inputRevision", "entry", "source"}

decode_circuit_verification_request(request) ==
  /\ exact_keys(request.keys, RequestKeys, {})
  /\ request.panelId # 0 /\ request.panelId <= MAX_PANEL_ID_LENGTH
  /\ request.inputRevision >= 0 /\ request.entry \in Entries
  /\ request.source <= MAX_SOURCE_LENGTH

\* Mutant: the worker's limit is exclusive.
decodeRequest_exclusive(request) ==
  /\ request.keys = RequestKeys
  /\ request.panelId # 0 /\ request.panelId < 128
  /\ request.inputRevision >= 0 /\ request.entry \in Entries
  /\ request.source <= 262144

decodeRequest(request) ==
  /\ request.keys = RequestKeys
  /\ request.panelId # 0 /\ request.panelId <= 128
  /\ request.inputRevision >= 0 /\ request.entry \in Entries
  /\ request.source <= 262144

\* The commands of send_worker.
decodeMessage(message) ==
  CASE message.kind = "initialize" -> message.keys = {"kind", "protocolVersion"} /\ message.protocolVersion = 1
    [] message.kind = "run" -> /\ message.keys = {"kind", "jobId", "request", "cancellation"}
                               /\ message.jobId \in 1..128 /\ decodeRequest(message.request)
    [] message.kind = "cancel" -> message.keys = {"kind", "jobId"} /\ message.jobId \in 1..128
    [] message.kind = "dispose" -> message.keys = {"kind"}
    [] OTHER -> FALSE

-----------------------------------------------------------------------------
(* Results and progress.                                                   *)

TextKeys == {"baselineHson", "clockwiseFinalHson", "counterclockwiseFinalHson", "finalHtml"}
Counts == {"zero", "some", "full"}
Listed == {"CIRCUIT_CANCELLED", "CIRCUIT_PARSE_FAILED", "CIRCUIT_STRICT_COMPARISON_FAILED"}
NoFailure == [stage |-> "none", code |-> "none", message |-> 0, path |-> 0]

decode_counts(counts) == counts \in Counts
decode_path(path) == path <= 64
decode_failure(failure) ==
  failure.stage # "none" /\ failure.message \in 1..512 /\ decode_path(failure.path)
optional_bounded_text(length) == length <= MAX_RESULT_TEXT_LENGTH

decode_circuit_verification_result(result) ==
  /\ result.panelId \in 1..MAX_PANEL_ID_LENGTH /\ result.inputRevision >= 0
  /\ result.status \in {"verified", "failed", "cancelled", "superseded"}
  /\ result.entry \in Entries /\ decode_counts(result.operationCounts)
  /\ result.failure # NoFailure => decode_failure(result.failure)
  /\ \A key \in result.texts : optional_bounded_text(result.length)

PROGRESS_STAGES == {"queued", "started", "cw-lap-complete", "ccw-lap-complete", "comparing", "completed",
                    "cancelled", "failed"}

decode_circuit_verification_progress(progress) ==
  /\ exact_keys(progress.keys, {"stage", "completed", "total"}, {"direction", "lap"})
  /\ progress.stage \in PROGRESS_STAGES
  /\ progress.completed >= 0 /\ progress.completed <= progress.total
  /\ progress.direction \in {"none", "cw", "ccw"} /\ progress.lap >= 0

valid_worker_result(result) ==
  /\ result.status # "superseded"
  /\ result.status = "verified" =>
       result.failure = NoFailure /\ result.texts = TextKeys /\ result.operationCounts = "full"
  /\ result.status # "verified" => result.failure # NoFailure

\* direction is absent as "none", a lap as 0.
valid_worker_progress(progress) ==
  /\ progress.total = TOTAL_STAGES
  /\ IF progress.stage = "comparing"
     THEN progress.completed = 6 /\ progress.direction = "none" /\ progress.lap = 0
     ELSE /\ progress.lap \in 1..3
          /\ IF progress.stage = "cw-lap-complete"
             THEN progress.direction = "cw" /\ progress.completed = progress.lap
             ELSE progress.direction = "ccw" /\ progress.completed = 3 + progress.lap

ReplyKeys == {"kind", "jobId", "panelId", "inputRevision"}
WORKER_FAILURES == {"CIRCUIT_WORKER_EXECUTION_FAILED", "CIRCUIT_WORKER_PROTOCOL_VIOLATION",
                    "CIRCUIT_WORKER_UNAVAILABLE"}

decode_worker_reply(reply) ==
  CASE reply.kind = "failed" ->
         /\ reply.keys = ReplyKeys \union {"entry", "code", "message"}
         /\ reply.code \in WORKER_FAILURES
    [] reply.kind = "complete" ->
         /\ reply.keys = ReplyKeys \union {"result"}
         /\ decode_circuit_verification_result(reply.result) /\ valid_worker_result(reply.result)
         /\ reply.result.failure # NoFailure => reply.result.failure.code \in Listed
    [] reply.kind = "progress" ->
         /\ reply.keys = ReplyKeys \union {"progress"}
         /\ decode_circuit_verification_progress(reply.progress)
         /\ reply.progress.stage \in {"cw-lap-complete", "ccw-lap-complete", "comparing"}
         /\ valid_worker_progress(reply.progress)
    [] OTHER -> FALSE

-----------------------------------------------------------------------------
(* What is written: by the worker, by the circuit it runs, by the service. *)

\* failed, which leaves out what belongs to the request when it is given none.
failed(code, known) ==
  [kind |-> "failed", code |-> code,
   keys |-> {"kind", "jobId", "code", "message"}
            \union (IF known THEN {"panelId", "inputRevision", "entry"} ELSE {})]

result_of(request, status, counts, failure, texts, length) ==
  [panelId |-> request.panelId, inputRevision |-> request.inputRevision, status |-> status,
   entry |-> request.entry, operationCounts |-> counts, failure |-> failure, texts |-> texts, length |-> length]

Lengths == {1, MAX_RESULT_TEXT_LENGTH, MAX_RESULT_TEXT_LENGTH + 1}
Failures == [stage : {"parse"}, code : Listed, message : {1, 512, 513}, path : {0, 64, 65}]

CircuitResults(request) ==
  {result_of(request, "verified", "full", NoFailure, TextKeys, length) : length \in Lengths}
  \union {result_of(request, status, "some", failure, texts, length) :
            status \in {"failed", "cancelled"}, failure \in Failures,
            texts \in {{}, {"baselineHson"}}, length \in Lengths}

\* The library reports a lap for each direction, then the comparison.
CircuitProgress ==
  {[keys |-> {"stage", "completed", "total", "direction", "lap"}, stage |-> "cw-lap-complete",
    completed |-> lap, total |-> TOTAL_STAGES, direction |-> "cw", lap |-> lap] : lap \in 1..3}
  \union {[keys |-> {"stage", "completed", "total", "direction", "lap"}, stage |-> "ccw-lap-complete",
    completed |-> 3 + lap, total |-> TOTAL_STAGES, direction |-> "ccw", lap |-> lap] : lap \in 1..3}
  \union {[keys |-> {"stage", "completed", "total"}, stage |-> "comparing", completed |-> 6,
    total |-> TOTAL_STAGES, direction |-> "none", lap |-> 0]}

\* emit, with what it is given by the service itself.
OwnProgress(stage, completed) ==
  [keys |-> {"stage", "completed", "total"}, stage |-> stage, completed |-> completed,
   total |-> TOTAL_STAGES, direction |-> "none", lap |-> 0]

obsolete_result(request, status, counts) ==
  result_of(request, status, counts, [stage |-> status, code |-> "SERVICE", message |-> 60, path |-> 0], {}, 0)

\* What the code does not bound before it is checked.
Oversized(reply) ==
  /\ reply.kind = "complete"
  /\ \/ reply.result.length > MAX_RESULT_TEXT_LENGTH
     \/ reply.result.failure.message > 512 \/ reply.result.failure.path > 64

-----------------------------------------------------------------------------
(* The way of a request.                                                   *)

Candidates ==
  [keys : {RequestKeys, RequestKeys \ {"source"}, RequestKeys \union {"id"}},
   panelId : {0, 1, MAX_PANEL_ID_LENGTH, MAX_PANEL_ID_LENGTH + 1}, inputRevision : {-1, 0},
   entry : {"hson", "auto"}, source : {0, MAX_SOURCE_LENGTH, MAX_SOURCE_LENGTH + 1}]

decode_circuit_payload ==
  /\ wire.at = "asked"
  /\ wire' = [wire EXCEPT !.at = IF decode_circuit_verification_request(wire.request)
                                 THEN "queued" ELSE "refused"]

run_message(request) ==
  [kind |-> "run", keys |-> {"kind", "jobId", "request", "cancellation"}, jobId |-> 9, request |-> request]

\* The job is sent, and what the worker posts arrives: a refusal of the
\* message, of the moment, a progress, an exception, or a result.
WorkerPosts ==
  /\ wire.at \in {"queued", "running"}
  /\ \E reply \in
       IF ~decodeMessage(run_message(wire.request)) THEN {failed("CIRCUIT_WORKER_PROTOCOL_VIOLATION", FALSE)}
       ELSE {failed(code, TRUE) : code \in {"CIRCUIT_WORKER_UNAVAILABLE", "CIRCUIT_WORKER_EXECUTION_FAILED"}}
            \union {[kind |-> "progress", keys |-> ReplyKeys \union {"progress"}, progress |-> progress] :
                      progress \in CircuitProgress}
            \union {[kind |-> "complete", keys |-> ReplyKeys \union {"result"}, result |-> result] :
                      result \in CircuitResults(wire.request)} :
       wire' = [wire EXCEPT !.at = "posted", !.reply = {reply}]

Reply == CHOOSE reply \in wire.reply : TRUE

ReplyArrives ==
  /\ wire.at = "posted"
  /\ wire' = [wire EXCEPT !.at =
       IF ~decode_worker_reply(Reply) THEN "violation"
       ELSE IF Reply.kind = "progress" THEN "running"
       ELSE IF Reply.kind = "failed" THEN "rejected" ELSE "settled"]

\* The result goes to the browser: the worker's, or, of an obsolete job, the
\* service's with the counts of the worker's or of none.
BrowserDecodes ==
  /\ wire.at = "settled"
  /\ \E result \in {Reply.result}
                   \union {obsolete_result(wire.request, status, counts) :
                             status \in {"cancelled", "superseded"}, counts \in {"zero", Reply.result.operationCounts}} :
       wire' = [wire EXCEPT !.at = IF decode_circuit_verification_result(result) THEN "shown" ELSE "invalid"]

WireInit == \E request \in Candidates : wire = [at |-> "asked", request |-> request, reply |-> {}]

WireNext == decode_circuit_payload \/ WorkerPosts \/ ReplyArrives \/ BrowserDecodes

-----------------------------------------------------------------------------
(* The three files agree on what may be said.  A request the Locus accepts *)
(* is one the worker accepts; what the worker posts about it is never      *)
(* taken for a protocol violation, which would cost a worker, unless a     *)
(* text, message or path of the result is beyond the limits that only the  *)
(* decoder knows; and every result the service settles, and every progress *)
(* it emits, is one the browser accepts.                                   *)
WireAgrees ==
  /\ wire.at \notin {"asked", "refused"} =>
       decode_circuit_verification_request(wire.request) /\ decodeRequest(wire.request)
  /\ wire.at = "violation" => Oversized(Reply)
  /\ wire.at # "invalid"
  /\ wire.at = "posted" /\ Reply.kind = "progress" => decode_circuit_verification_progress(Reply.progress)
  /\ \A stage \in {"queued", "started", "cancelled", "failed"}, completed \in 0..6 :
       decode_circuit_verification_progress(OwnProgress(stage, completed))
  /\ decode_circuit_verification_progress(OwnProgress("completed", TOTAL_STAGES))
=============================================================================
