--------------------------- MODULE TowlConnection ---------------------------
(***************************************************************************)
(* The TOWL connection controller, towl.connection.ts: one attempt at a    *)
(* time opens a transport, waits for it, attaches or creates a session,    *)
(* recovers the mirror and installs itself; a lost transport starts a loop *)
(* of Retries attempts; leaving and disposal may come at any moment.  The  *)
(* controller's variables are the fields of one record, changed by the     *)
(* operators named after its closures.  An await is a value of work.at,    *)
(* and the promise it waits for settles in an action of its own: what the  *)
(* network, the Locus and its Echo client answer is external and free.     *)
(***************************************************************************)
EXTENDS Integers

CONSTANTS Retries,   \* retryDelays.length
          MaxLoops   \* bound: reconnection loops started, by loss or by hand

ASSUME ConstantsAssumption == Retries \in Nat /\ MaxLoops \in Nat

VARIABLE c
vars == <<c>>

MaxOpen == 1 + MaxLoops * Retries
Ids == 1..MaxOpen    \* transports, and the client made for each, by attempt

Statuses == {"connecting", "creating-session", "reattaching-session",
             "connected", "reconnecting", "failed", "disposed"}
Status == [status : Statuses, attempt : 0..Retries, sessionReplaced : BOOLEAN,
           sessionRestored : BOOLEAN,
           failureKind : {"none", "retry-exhausted", "terminal"}]
\* The running attempt.  index is 0 for the initial one; stage is at itself.
Work == [at : {"none", "delay", "opening", "ready", "creating", "reattaching", "recovering"},
         generation : Nat, index : 0..Retries,
         sessionReplaced : BOOLEAN, sessionRestored : BOOLEAN]
NoWork == [at |-> "none", generation |-> 0, index |-> 0,
           sessionReplaced |-> FALSE, sessionRestored |-> FALSE]

-----------------------------------------------------------------------------
(* The closures.                                                           *)

publish(k, status, attempt, sessionReplaced, failureKind, sessionRestored) ==
  IF k.disposed /\ status # "disposed" THEN k
  ELSE [k EXCEPT !.shown = [status |-> status, attempt |-> attempt,
          sessionReplaced |-> sessionReplaced, sessionRestored |-> sessionRestored,
          failureKind |-> failureKind]]

is_current(k) == ~k.disposed /\ k.generation = k.work.generation

dispose_client(k, id) == IF id = 0 THEN k ELSE [k EXCEPT !.client[id] = "disposed"]
dispose_transport(k, id) == IF id = 0 THEN k ELSE [k EXCEPT !.transport[id] = "disposed"]

cancel_reconnect_work(k) ==
  [dispose_transport(dispose_client(k, k.openingClient), k.openingTransport)
     EXCEPT !.generation = @ + 1, !.watched = FALSE,
            !.openingClient = 0, !.openingTransport = 0]

dispose_all(k) ==
  IF k.disposed THEN k
  ELSE LET cancelled == cancel_reconnect_work([k EXCEPT !.disposed = TRUE])
           released == dispose_transport(dispose_client(cancelled, cancelled.activeClient),
                                         cancelled.activeTransport)
       IN publish([released EXCEPT !.activeClient = 0, !.activeTransport = 0],
                  "disposed", k.shown.attempt, k.shown.sessionReplaced, "none",
                  k.shown.sessionRestored)

\* ensure_reconnected: the loop's head, at index 1 or after a failed attempt.
next_attempt(k, index, generation) ==
  [publish(k, "reconnecting", index, FALSE, "none", k.shown.sessionRestored)
     EXCEPT !.work = [NoWork EXCEPT !.at = "delay", !.generation = generation, !.index = index]]

ensure_reconnected(k) ==
  IF \/ k.disposed \/ k.leave # "none"
     \/ k.work.at # "none"
     \/ k.shown.status \notin {"reconnecting", "failed"}
  THEN k
  ELSE LET begun == [k EXCEPT !.generation = @ + 1, !.loops = @ + 1]
       IN IF Retries = 0
          THEN publish(begun, "failed", 0, FALSE, "retry-exhausted", k.shown.sessionRestored)
          ELSE next_attempt(begun, 1, begun.generation)

\* open, up to its first await.
open(k) ==
  [k EXCEPT !.transportAttempts = @ + 1, !.work.at = "opening"]

id(k) == k.transportAttempts

\* open's catch, and its callers': error is "cancelled", "transport" or "terminal".
abandon(k, error) ==
  LET released ==
        LET t == IF k.transport[id(k)] = "none" THEN k ELSE dispose_transport(k, id(k))
        IN IF k.client[id(k)] = "none" THEN t ELSE dispose_client(t, id(k))
      undone == [released EXCEPT
                   !.openingClient = IF @ = id(k) THEN 0 ELSE @,
                   !.openingTransport = IF @ = id(k) THEN 0 ELSE @,
                   !.work = NoWork]
      failed(kind) == publish(undone, "failed", k.work.index, FALSE, kind, k.shown.sessionRestored)
  IN IF error = "cancelled" THEN undone
     ELSE IF error = "terminal" THEN failed("terminal")
     ELSE IF k.work.index \in 1..Retries - 1
          THEN next_attempt(undone, k.work.index + 1, k.work.generation)
     ELSE failed("retry-exhausted")

store_credential(k, credential) == [k EXCEPT !.credential = credential]

creating(k, sessionReplaced) ==
  [publish(k, "creating-session", k.work.index, sessionReplaced, "none", k.shown.sessionRestored)
     EXCEPT !.work.at = "creating", !.work.sessionReplaced = sessionReplaced]

\* Mutant: the client of the lost transport is disposed only on installation.
attach_beside(k) == creating([k EXCEPT !.client[id(k)] = "live", !.openingClient = id(k)], FALSE)

\* From a transport that is ready to the request for a session.
attach(k) ==
  LET fresh == [dispose_client(k, k.activeClient) EXCEPT
                  !.activeClient = 0, !.client[id(k)] = "live", !.openingClient = id(k)]
  IN IF k.credential = 0 THEN creating(fresh, FALSE)
     ELSE [publish(fresh, "reattaching-session", k.work.index, FALSE, "none", k.shown.sessionRestored)
             EXCEPT !.work.at = "reattaching"]

install(k) ==
  LET prior == dispose_transport(dispose_client(k, k.activeClient), k.activeTransport)
      placed == [prior EXCEPT !.activeClient = id(k), !.activeTransport = id(k), !.watched = TRUE,
                   !.openingClient = 0, !.openingTransport = 0, !.work = NoWork]
  IN publish(placed, "connected", k.work.index, k.work.sessionReplaced, "none", k.work.sessionRestored)

-----------------------------------------------------------------------------
(* What settles: the transport, the client's requests, the retry timer.    *)

waits(at) == c.work.at = at

DelayOver ==
  /\ waits("delay")
  /\ c' = IF is_current(c) THEN open(c) ELSE [c EXCEPT !.work = NoWork]

TransportOpened ==
  /\ waits("opening")
  /\ c' = [c EXCEPT !.transport[id(c)] = "open", !.openingTransport = id(c), !.work.at = "ready"]

TransportReady ==
  /\ waits("ready")
  /\ c' = IF ~is_current(c) THEN abandon(c, "cancelled")
          ELSE IF c.transport[id(c)] = "closed" THEN abandon(c, "transport")
          ELSE attach(c)

SessionCreated ==
  /\ waits("creating")
  /\ c' = IF ~is_current(c) THEN abandon(c, "cancelled")
          ELSE [store_credential(c, c.issued + 1) EXCEPT !.issued = @ + 1, !.work.at = "recovering"]

SessionReattached ==
  /\ waits("reattaching")
  /\ c' = [c EXCEPT !.work.sessionRestored = TRUE, !.work.at = "recovering"]

CredentialRejected ==
  /\ waits("reattaching")
  /\ c' = IF ~is_current(c) THEN abandon(c, "cancelled")
          ELSE creating(store_credential(c, 0), TRUE)

\* Mutant: a transport that closed before it was installed is not noticed.
Recovered_closed ==
  /\ waits("recovering")
  /\ c' = IF ~is_current(c) THEN abandon(c, "cancelled") ELSE install(c)

Recovered ==
  /\ waits("recovering")
  /\ c' = IF ~is_current(c) THEN abandon(c, "cancelled")
          ELSE IF c.transport[id(c)] = "closed" THEN abandon(c, "transport")
          ELSE install(c)

\* A rejection: openTransport and ready fail as transport errors, a request
\* as the kind its error is classified to.
Rejected(error) ==
  /\ c.work.at \in {"opening", "ready", "creating", "reattaching", "recovering"}
  /\ c.work.at \in {"opening", "ready"} => error = "transport"
  /\ c' = abandon(c, IF waits("reattaching") /\ ~is_current(c) THEN "cancelled" ELSE error)

\* The socket's close event: the listener open registered, while it is.
Closed(t) ==
  /\ c.transport[t] = "open" /\ (c.watched => c.loops < MaxLoops)
  /\ LET lost == [c EXCEPT !.transport[t] = "closed"]
     IN c' = IF c.watched /\ t = c.activeTransport
             THEN ensure_reconnected(
                    publish([lost EXCEPT !.watched = FALSE], "reconnecting", 0, FALSE, "none",
                            c.shown.sessionRestored))
             ELSE lost

-----------------------------------------------------------------------------
(* What the panel calls, and the steps of a departure.                     *)

reconnect == c.loops < MaxLoops /\ c' = ensure_reconnected(c)

dispose == c' = dispose_all(c)

forget(k) == [dispose_all(store_credential(k, 0)) EXCEPT !.leave = "done"]

\* Leaving asks the authority only for a seat, and to say goodbye only for an
\* attached session; whether the client has them is free here.
leave_room ==
  /\ c.leave = "none"
  /\ LET gone == cancel_reconnect_work([c EXCEPT !.leave = "leaving"])
     IN \/ c.shown.status = "connected" /\ c' \in {gone, [gone EXCEPT !.leave = "goodbye"], forget(gone)}
        \/ c.shown.status # "connected" /\ c' = forget(gone)

\* The bounded leave request is answered, rejected or timed out.
LeaveEnded == c.leave = "leaving" /\ c' \in {[c EXCEPT !.leave = "goodbye"], forget(c)}
GoodbyeEnded == c.leave = "goodbye" /\ c' = forget(c)

\* readCredential finds a credential of an earlier visit (1), or none.
Init ==
  \E stored \in {0, 1} : c = open([shown |-> [status |-> "connecting", attempt |-> 0, sessionReplaced |-> FALSE,
                       sessionRestored |-> FALSE, failureKind |-> "none"],
            disposed |-> FALSE, generation |-> 1, loops |-> 0, leave |-> "none",
            work |-> [NoWork EXCEPT !.generation = 1],
            transportAttempts |-> 0,
            transport |-> [t \in Ids |-> "none"], client |-> [t \in Ids |-> "none"],
            activeTransport |-> 0, activeClient |-> 0, watched |-> FALSE,
            openingTransport |-> 0, openingClient |-> 0,
            credential |-> stored, issued |-> stored])

Answers ==
  \/ DelayOver \/ TransportOpened \/ TransportReady \/ SessionCreated
  \/ SessionReattached \/ CredentialRejected \/ Recovered
  \/ \E error \in {"transport", "terminal"} : Rejected(error)
Departure == LeaveEnded \/ GoodbyeEnded

Next ==
  \/ Answers \/ Departure
  \/ \E t \in Ids : Closed(t)
  \/ reconnect \/ leave_room \/ dispose

Spec == Init /\ [][Next]_vars

\* Timers fire, requests are answered or rejected, departures are bounded.
FairSpec == Spec /\ WF_vars(Answers) /\ WF_vars(Departure)

-----------------------------------------------------------------------------
TypeOK ==
  /\ c.shown \in Status /\ c.work \in Work
  /\ c.leave \in {"none", "leaving", "goodbye", "done"}
  /\ c.transport \in [Ids -> {"none", "open", "closed", "disposed"}]
  /\ c.client \in [Ids -> {"none", "live", "disposed"}]
  /\ {c.activeTransport, c.activeClient, c.openingTransport, c.openingClient,
      c.transportAttempts} \subseteq 0..MaxOpen
  /\ c.loops \in 0..MaxLoops /\ c.generation \in Nat /\ c.credential \in 0..c.issued

(* One mirror, one writer, and nothing leaked: whatever is lost, retried,  *)
(* left or disposed in between, no two clients that are both alive write   *)
(* into the shared mirror, and the installed one is alive; a transport or  *)
(* client that is neither installed nor the running attempt's has been     *)
(* disposed, so after disposal nothing is left but a transport whose       *)
(* attempt is about to release it.                                         *)
OneClient ==
  /\ \A s, t \in Ids : c.client[s] = "live" /\ c.client[t] = "live" => s = t
  /\ c.activeClient # 0 => c.client[c.activeClient] = "live"
  /\ \A t \in Ids :
       /\ c.transport[t] \in {"open", "closed"} =>
            t = c.activeTransport \/ (c.work.at # "none" /\ t = id(c))
       /\ c.client[t] = "live" => t = c.activeClient \/ (c.work.at # "none" /\ t = id(c))
  /\ c.disposed => \A t \in Ids : c.client[t] # "live"

(* What the panel shows is what the controller does: it says that it       *)
(* connects exactly while an attempt runs that will change this status,    *)
(* and connected only over an installed client whose transport is open.    *)
StatusTruthful ==
  ~c.disposed /\ c.leave = "none" =>
    /\ c.work.at # "none" <=> c.shown.status \notin {"connected", "failed"}
    /\ c.work.at # "none" => is_current(c)
    /\ c.shown.status = "connected" =>
         c.watched /\ c.activeClient # 0 /\ c.transport[c.activeTransport] = "open"

(* A room that was left is forgotten: once the departure ended no late     *)
(* answer brings a credential back, and the controller stays disposed.     *)
LeftForGood == c.leave = "done" => c.credential = 0 /\ c.shown.status = "disposed"

(* Nothing of the controller outlives its use: client, transport,          *)
(* credential.                                                             *)
OwnedOrForgotten == OneClient /\ LeftForGood

(* The session a player is connected with is the one whose credential was  *)
(* first issued to this controller, or the panel says that it was          *)
(* replaced: "definitive stale credential creates a truthful unseated      *)
(* replacement session".                                                   *)
ReplacementAnnounced ==
  [][ c'.shown.status = "connected" /\ c.shown.status # "connected"
        /\ c'.credential > 1 /\ ~c'.shown.sessionRestored => c'.shown.sessionReplaced ]_vars
=============================================================================
