------------------------- MODULE ParsingCoordinator -------------------------
(***************************************************************************)
(* Remote verification of the parsing panels:                              *)
(* parsing-verification-coordinator.ts, which debounces edits and launches *)
(* one request for each, over circuit-verification-browser-transport.ts,   *)
(* which opens a shared socket when it is needed.  Requests of older edits *)
(* are never withdrawn: their answers arrive and have to be ignored.  The  *)
(* controllers' variables are the fields of one record p, changed by the   *)
(* operators named after their closures; an edit is known by its revision. *)
(* What the network, the authority and the certifier answer, and when, is  *)
(* external and free.                                                      *)
(***************************************************************************)
EXTENDS Integers, Sequences

CONSTANTS None,
          MaxEdits,   \* bound: edits of all panels
          MaxSockets  \* bound: sockets opened

\* The editors in the order of Object.keys(pp.panels).
Formats == <<"json", "hson", "html">>
Format == {"json", "hson", "html"}

ASSUME ConstantsAssumption ==
  /\ None \notin Format
  /\ MaxEdits \in Nat /\ MaxSockets \in Nat

VARIABLE p

Edits == 1..MaxEdits
Sockets == 1..MaxSockets
Statuses == {"idle", "invalid", "parsed", "queued", "verifying", "browser-check",
             "verified", "failed", "unavailable"}
\* Where launch(candidate) of an edit is.
Phases == {"none", "opening", "acting", "certifying", "ended", "dropped"}

-----------------------------------------------------------------------------
(* The coordinator.                                                        *)

publish(k, status, entry, revision) ==
  IF k.disposed THEN k
  ELSE [k EXCEPT !.state = [status |-> status, entry |-> entry, revision |-> revision]]

\* Mutant: only disposal makes an edit stale.
current_undisposed(k, r) == ~k.disposed

current(k, r) == ~k.disposed /\ k.revision = r /\ k.pending = r

about(k, r, status) ==
  IF current(k, r) THEN publish(k, status, k.entryOf[r], r) ELSE k

ended(k, r) == [k EXCEPT !.launch[r] = "ended"]

\* launch is over without a word: it returned, or its promise was rejected,
\* which nobody catches.
dropped(k, r) == [k EXCEPT !.launch[r] = "dropped"]

\* submit, up to what it waits for: an open client, or the opening promise.
submit(k, r) ==
  IF k.transportDisposed THEN about(ended(k, r), r, "unavailable")
  ELSE IF k.client # 0
       THEN [k EXCEPT !.launch[r] = "acting", !.listening = @ \union {r}]
  ELSE [k EXCEPT !.launch[r] = "opening",
                 !.opening = IF @ = "none" THEN "bootstrap" ELSE @]

launch(k, r) ==
  IF current(k, r) THEN submit(about([k EXCEPT !.timer = 0], r, "queued"), r) ELSE k

\* edit, given what admit said of the source: "ok", "invalid" or "large".
edit(k, entry, admitted) ==
  LET r == k.revision + 1
      begun == [k EXCEPT !.revision = r, !.timer = 0, !.pending = 0, !.entryOf[r] = entry]
      candidate == [begun EXCEPT !.pending = r]
  IN IF k.disposed THEN k
     ELSE IF admitted = "invalid" THEN publish(begun, "invalid", entry, r)
     ELSE IF admitted = "large" THEN publish(candidate, "unavailable", entry, r)
     ELSE [publish(candidate, "parsed", entry, r) EXCEPT !.timer = r]

\* Mutant: the debounce timer stays armed.
flush_armed(k) ==
  IF k.disposed \/ k.pending = 0 \/ k.timer = 0 THEN k
  ELSE [launch(k, k.pending) EXCEPT !.timer = k.timer]

flush(k) ==
  IF k.disposed \/ k.pending = 0 \/ k.timer = 0 THEN k
  ELSE launch([k EXCEPT !.timer = 0], k.pending)

-----------------------------------------------------------------------------
(* The transport.                                                          *)

\* Mutant: the rejection of a request is dropped.
rejected_silently(k, phase) ==
  LET gone == {r \in Edits : k.launch[r] = phase}
  IN [k EXCEPT !.launch = [r \in Edits |-> IF r \in gone THEN "ended" ELSE @[r]],
               !.listening = @ \ gone]

\* Requests whose client is gone are rejected; so are those whose opening
\* failed: submit throws and launch reports it for the current edit.
rejected(k, phase) ==
  LET gone == {r \in Edits : k.launch[r] = phase}
      told == [k EXCEPT !.launch = [r \in Edits |-> IF r \in gone THEN "ended" ELSE @[r]],
                        !.listening = @ \ gone]
  IN IF k.pending \in gone THEN about(told, k.pending, "unavailable") ELSE told

dispose_transport(k) ==
  IF k.transportDisposed THEN k
  ELSE rejected([k EXCEPT !.transportDisposed = TRUE, !.listening = {}, !.client = 0,
                          !.socket = [i \in Sockets |-> IF i = k.client THEN "disposed" ELSE @[i]]],
                "acting")

\* Mutant: disposal is shown as a state of its own.
dispose_shown(k) ==
  IF k.disposed THEN k
  ELSE dispose_transport([publish(k, "disposed", None, k.revision) EXCEPT
                            !.timer = 0, !.disposed = TRUE, !.revision = @ + 1, !.pending = 0])

dispose(k) ==
  IF k.disposed THEN k
  ELSE dispose_transport([k EXCEPT !.timer = 0, !.disposed = TRUE,
                                   !.revision = @ + 1, !.pending = 0])

\* Mutant: the catch of open forgets the socket.
open_failed_leaking(k) == rejected([k EXCEPT !.opening = "none"], "opening")

open_failed(k) ==
  rejected([k EXCEPT !.opening = "none",
              !.socket = [i \in Sockets |-> IF k.opening # "bootstrap" /\ i = k.opened
                                            THEN "disposed" ELSE @[i]]], "opening")

\* The client is installed, whether or not the transport was disposed while
\* its session was created, and every submit that waited for it goes on.  The
\* dispose of such a transport has returned: its socket is stranded.
installed(k) ==
  LET waiting == {r \in Edits : k.launch[r] = "opening"}
  IN [k EXCEPT !.opening = "none", !.client = k.opened,
        !.socket = [i \in Sockets |-> IF k.transportDisposed /\ i = k.opened THEN "stranded" ELSE @[i]],
        !.launch = [r \in Edits |-> IF r \in waiting THEN "acting" ELSE @[r]],
        !.listening = @ \union waiting]

-----------------------------------------------------------------------------
(* What happens to them.                                                   *)

DebounceOver ==
  /\ p.timer # 0
  /\ p' = launch([p EXCEPT !.timer = 0], p.timer)

\* bootstrap_livehost_browser_session answered; the socket is created.
Bootstrapped ==
  /\ p.opening = "bootstrap" /\ p.opened < MaxSockets
  /\ p' = [p EXCEPT !.opening = "ready", !.opened = @ + 1, !.socket[p.opened + 1] = "live"]

SocketReady ==
  /\ p.opening = "ready"
  /\ p' = IF p.transportDisposed THEN open_failed(p) ELSE [p EXCEPT !.opening = "creating"]

SessionCreated == p.opening = "creating" /\ p' = installed(p)

OpeningFails == p.opening # "none" /\ p' = open_failed(p)

SocketClosed ==
  /\ p.client # 0
  /\ p' = rejected([p EXCEPT !.client = 0, !.listening = {}, !.socket[p.client] = "disposed"],
                   "acting")

\* A progress event; the authority sends queued before the stages of a run.
Progress(r, status) ==
  /\ r \in p.listening
  /\ status = "queued" => ~p.started[r]
  /\ p' = about([p EXCEPT !.started[r] = (status = "verifying")], r, status)

\* stopEvents, of submit's finally.
stopEvents(k, r) == [k EXCEPT !.listening = @ \ {r}]

ResultStatus == {"verified", "failed", "withdrawn", "other", "error"}

\* submit returns or throws; "withdrawn" is a cancelled or superseded result,
\* "other" one of another panel, revision or entry.
Answered(r, result) ==
  LET answered == stopEvents(p, r)
      over == ended(answered, r)
  IN /\ p.launch[r] = "acting"
     /\ p' = IF ~current(p, r) THEN over
             ELSE CASE result = "error" -> about(over, r, "unavailable")
                    [] result = "other" -> dropped(answered, r)
                    [] result = "withdrawn" -> about(over, r, "parsed")
                    [] result = "failed" -> about(over, r, "failed")
                    [] OTHER -> about([answered EXCEPT !.launch[r] = "certifying"], r, "browser-check")

\* What certify_browser_circuit_boundary asks for, in turn: the first that
\* fails is the certificate's failure, and "none" is a certificate.  Another
\* certifier may throw.
Demand == {"worker-evidence", "baseline-admission", "final-html-admission",
           "final-html-comparison", "origin-comparison"}

Certified(r, failing) ==
  /\ p.launch[r] = "certifying"
  /\ p' = IF failing = "throws" THEN dropped(p, r)
          ELSE about(ended(p, r), r, IF failing \in Demand THEN "failed" ELSE "verified")

InitCoordinator ==
  p = [state |-> [status |-> "idle", entry |-> None, revision |-> 0], revision |-> 0,
       timer |-> 0, pending |-> 0, disposed |-> FALSE, entryOf |-> [r \in Edits |-> None],
       launch |-> [r \in Edits |-> "none"], started |-> [r \in Edits |-> FALSE],
       transportDisposed |-> FALSE, opening |-> "none", opened |-> 0, client |-> 0,
       socket |-> [i \in Sockets |-> "none"], listening |-> {}]

Opening == Bootstrapped \/ SocketReady \/ SessionCreated \/ OpeningFails

Settling(r) ==
  \/ \E reply \in ResultStatus : Answered(r, reply)
  \/ \E failing \in Demand \union {"none", "throws"} : Certified(r, failing)

Reporting(r) == \E status \in {"queued", "verifying"} : Progress(r, status)
=============================================================================
