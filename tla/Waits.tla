-------------------------------- MODULE Waits --------------------------------
(***************************************************************************)
(* The waits of intro and splash, wait.ts: a promise of an event of a tree *)
(* or of a timer, wrapped in a timeout and an AbortSignal.  The promise    *)
(* inside and the wrapper each listen to the signal, the wrapper takes the *)
(* inner result a microtask later, and a timeout does not withdraw what is *)
(* inside.                                                                 *)
(***************************************************************************)
EXTENDS Integers

CONSTANT Waiting    \* waits begun on one tree with one AbortController

VARIABLE waits

NoWait == [kind |-> "none", signalled |-> FALSE, timed |-> FALSE, inner |-> "none", outer |-> "none",
           sub |-> FALSE, to |-> FALSE, innerAbort |-> FALSE, onAbort |-> FALSE]

\* clearControls, of the wrapper.
clearControls(k) == [k EXCEPT !.to = FALSE, !.onAbort = FALSE]

finish(k, how) == IF k.outer = "pending" THEN clearControls([k EXCEPT !.outer = how]) ELSE k

\* A promise wrapped by nothing is the wait itself.
withControls(k) ==
  IF ~k.timed /\ ~k.signalled THEN k
  ELSE IF waits.aborted /\ k.signalled THEN finish(k, "aborted")
  ELSE [k EXCEPT !.to = k.timed, !.onAbort = k.signalled]

\* waitAnimEvent and waitPointerDown listen to the tree, unless the signal was
\* aborted before.
listened(k) ==
  IF waits.aborted /\ k.signalled THEN [k EXCEPT !.inner = "aborted"]
  ELSE [k EXCEPT !.inner = "pending", !.sub = TRUE, !.innerAbort = k.signalled]

begin(w, kind, signalled, timed) ==
  /\ waits.of[w].kind = "none"
  /\ waits' = [waits EXCEPT !.of[w] =
       withControls(listened([NoWait EXCEPT !.kind = kind, !.signalled = signalled, !.timed = timed,
                                            !.outer = "pending"]))]

\* sleep and timer have no wrapper: a timeout of their own, cleared on abort.
sleep(w, signalled) ==
  /\ waits.of[w].kind = "none"
  /\ waits' = [waits EXCEPT !.of[w] =
       IF waits.aborted /\ signalled
       THEN [NoWait EXCEPT !.kind = "sleep", !.signalled = TRUE, !.inner = "aborted", !.outer = "aborted"]
       ELSE [NoWait EXCEPT !.kind = "sleep", !.signalled = signalled, !.inner = "pending",
                           !.outer = "pending", !.to = TRUE, !.innerAbort = signalled]]

\* finish of the promise inside: it stops listening to tree and signal.
resolved(k) == [k EXCEPT !.inner = "ok", !.sub = FALSE, !.innerAbort = FALSE]

\* An event of the tree: every wait of its kind and name that listens takes it.
Event(kind) ==
  /\ \E w \in Waiting : waits.of[w].sub /\ waits.of[w].kind = kind
  /\ waits' = [waits EXCEPT !.of = [w \in Waiting |->
       IF @[w].sub /\ @[w].kind = kind THEN resolved(@[w]) ELSE @[w]]]

\* p.then(finish_ok): the microtask that hands the inner result on.
Handed(w) ==
  /\ waits.of[w].inner = "ok" /\ waits.of[w].outer = "pending"
  /\ waits' = [waits EXCEPT !.of[w] = finish(@, "ok")]

TimeOut(w) ==
  /\ waits.of[w].to
  /\ waits' = [waits EXCEPT !.of[w] =
       IF @.kind = "sleep" THEN [@ EXCEPT !.inner = "ok", !.outer = "ok", !.to = FALSE, !.innerAbort = FALSE]
       ELSE finish(@, "timeout")]

\* The listener inside rejects and stops listening, then the wrapper's does.
aborted(k) ==
  LET within == IF k.innerAbort THEN [k EXCEPT !.inner = "aborted", !.sub = FALSE, !.innerAbort = FALSE] ELSE k
  IN IF k.kind = "sleep" /\ k.innerAbort THEN [within EXCEPT !.outer = "aborted", !.to = FALSE]
     ELSE IF k.onAbort THEN finish(within, "aborted") ELSE within

Abort ==
  /\ ~waits.aborted
  /\ waits' = [aborted |-> TRUE, of |-> [w \in Waiting |-> aborted(waits.of[w])]]

WaitsInit == waits = [aborted |-> FALSE, of |-> [w \in Waiting |-> NoWait]]

WaitsNext ==
  \/ \E w \in Waiting :
       \/ \E kind \in {"animation", "pointer"}, signalled, timed \in BOOLEAN : begin(w, kind, signalled, timed)
       \/ \E signalled \in BOOLEAN : sleep(w, signalled)
       \/ Handed(w) \/ TimeOut(w)
  \/ \E kind \in {"animation", "pointer"} : Event(kind)
  \/ Abort

-----------------------------------------------------------------------------
(* A wait is settled by what it waited for or by who gave it up, and then  *)
(* nothing is left behind: after an abort nothing of a wait that heard it  *)
(* is pending or listening, whatever raced it; a settled wait listens to   *)
(* nothing, except that one timed out leaves its subscription; and while   *)
(* a wait is pending something can still settle it.                        *)
WaitsHonoured ==
  \A w \in Waiting : LET k == waits.of[w] IN
    /\ waits.aborted /\ k.signalled => k.outer # "pending" /\ {k.sub, k.to, k.innerAbort, k.onAbort} = {FALSE}
    /\ k.outer \in {"ok", "aborted"} => {k.sub, k.to, k.innerAbort, k.onAbort} = {FALSE}
    /\ k.outer = "timeout" => ~k.to /\ ~k.onAbort
    /\ k.outer = "ok" => k.inner = "ok"
    /\ k.outer = "pending" => k.sub \/ k.to \/ k.inner = "ok"
=============================================================================
