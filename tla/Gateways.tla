------------------------------- MODULE Gateways -------------------------------
(***************************************************************************)
(* Where sockets meet an authority: the durable object of TOWL, which      *)
(* waits for the authority before it listens to the socket; the node       *)
(* application of circuit verification, which connects at once; and the    *)
(* browser's side of admission, one request for a session however many     *)
(* sockets wait for it.  What sockets and authorities do is external.      *)
(***************************************************************************)
EXTENDS Integers, FiniteSets

CONSTANTS Pipes,    \* sockets, of either gateway
          Callers   \* parts of the page that open a socket

VARIABLE gate

Sides == {"durable", "circuit"}

-----------------------------------------------------------------------------
(* The durable object.  Its sockets: accepted while the authority is       *)
(* asked, then tracked with a cleanup.                                     *)

\* The gateway's end of the socket is done with, and the authority's.
cleanup(k, w) ==
  [k EXCEPT !.tracked = @ \ {w}, !.attached = @ \ {w}]

accept_durable(w) ==
  /\ gate.pipe[w] = "none"
  /\ gate' = IF gate.disposed["durable"] THEN [gate EXCEPT !.pipe[w] = "closed", !.side[w] = "durable"]
             ELSE [gate EXCEPT !.pipe[w] = "asking", !.side[w] = "durable"]

\* connectBounded answered: the listeners are added, and the cleanup is kept,
\* whatever happened to the socket or to the object meanwhile.
Connected(w) ==
  /\ gate.pipe[w] \in {"asking", "lost"}
  /\ gate' = [gate EXCEPT !.pipe[w] = IF @ = "lost" THEN "closed" ELSE "open",
                          !.attached = @ \union {w}, !.tracked = @ \union {w},
                          !.late = IF gate.pipe[w] = "lost" \/ gate.disposed["durable"] THEN @ \union {w} ELSE @]

\* The authority has no room, or threw; only a refusal closes the socket.
NotConnected(w, threw) ==
  /\ gate.pipe[w] \in {"asking", "lost"}
  /\ gate' = [gate EXCEPT !.pipe[w] = IF threw /\ @ = "asking" THEN "abandoned" ELSE "closed"]

\* The close or error event of a socket nobody listens to yet is lost.
PipeEnds(w) ==
  /\ gate.pipe[w] \in {"asking", "open"}
  /\ gate' = IF gate.pipe[w] = "asking" THEN [gate EXCEPT !.pipe[w] = "lost"]
             ELSE cleanup([gate EXCEPT !.pipe[w] = "closed"], w)

\* Mutant: the sockets are closed and forgotten without their cleanup.
dispose_durable_forgetting ==
  /\ ~gate.disposed["durable"]
  /\ gate' = [gate EXCEPT !.disposed["durable"] = TRUE,
                          !.tracked = {w \in @ : gate.side[w] # "durable"},
                          !.pipe = [w \in Pipes |-> IF w \in gate.tracked /\ gate.side[w] = "durable"
                                                    THEN "closed" ELSE @[w]]]

dispose_durable ==
  /\ ~gate.disposed["durable"]
  /\ gate' = [gate EXCEPT !.disposed["durable"] = TRUE,
                          !.tracked = {w \in @ : gate.side[w] # "durable"},
                          !.attached = {w \in @ : gate.side[w] # "durable"},
                          !.pipe = [w \in Pipes |-> IF w \in gate.tracked /\ gate.side[w] = "durable"
                                                    THEN "closed" ELSE @[w]]]

-----------------------------------------------------------------------------
(* The circuit application.                                                *)

\* known is whether the address names the verifier.
accept_circuit(w, known) ==
  /\ gate.pipe[w] = "none"
  /\ gate' = IF gate.disposed["circuit"] \/ ~known
             THEN [gate EXCEPT !.pipe[w] = "closed", !.side[w] = "circuit"]
             ELSE [gate EXCEPT !.pipe[w] = "open", !.side[w] = "circuit",
                               !.attached = @ \union {w}, !.tracked = @ \union {w}]

ofCircuit(k) == {w \in k.tracked : k.side[w] = "circuit"}

\* Every connection is disconnected and its close begun.
closed_all(k) ==
  [k EXCEPT !.attached = @ \ ofCircuit(k),
            !.pipe = [w \in Pipes |-> IF w \in ofCircuit(k) THEN "closing" ELSE @[w]]]

disconnectConnections == ofCircuit(gate) # {} /\ gate' = closed_all(gate)

\* The close event: what is still recorded is disconnected again and forgotten.
Closed(w) ==
  /\ gate.pipe[w] = "closing"
  /\ gate' = cleanup([gate EXCEPT !.pipe[w] = "closed"], w)

dispose_circuit_application ==
  /\ ~gate.disposed["circuit"]
  /\ gate' = [closed_all(gate) EXCEPT !.disposed["circuit"] = TRUE, !.tracked = @ \ ofCircuit(gate)]

-----------------------------------------------------------------------------
(* The browser.                                                            *)

\* What the build is configured with: nothing, or an origin.
Configured == [set : {FALSE}] \union
              [set : {TRUE}, scheme : {"ws", "wss", "http"}, local : BOOLEAN, path : BOOLEAN]

\* is_local_livehost_websocket_origin names the development origin too.
DEVELOPMENT_LIVEHOST_WS_URL == [set |-> TRUE, scheme |-> "ws", local |-> TRUE, path |-> FALSE]
Unresolved == [set |-> FALSE]

resolve_livehost_websocket_base_url(prod, configured, explicit) ==
  IF ~configured.set THEN IF prod THEN Unresolved ELSE DEVELOPMENT_LIVEHOST_WS_URL
  ELSE IF \/ configured.scheme \notin {"ws", "wss"}
          \/ ~explicit /\ configured.path
          \/ prod /\ configured.scheme # "wss" /\ ~configured.local
       THEN Unresolved ELSE configured

\* A caller asks for the session: there is none in development, one that is
\* under way is joined, and an address that does not resolve throws.
bootstrap_livehost_browser_session(k) ==
  /\ gate.caller[k] \in {"idle", "failed"}
  /\ LET base == resolve_livehost_websocket_base_url(gate.prod, gate.configured, FALSE)
     IN gate' = IF ~gate.prod THEN [gate EXCEPT !.caller[k] = "admitted"]
                ELSE IF base = Unresolved THEN [gate EXCEPT !.caller[k] = "failed"]
                ELSE [gate EXCEPT !.caller[k] = "waiting",
                                  !.fetches = IF gate.pending THEN @ ELSE @ + 1, !.pending = TRUE]

\* The endpoint answers, and whoever waited goes on; nothing is remembered.
SessionAnswered(ok) ==
  /\ gate.pending
  /\ gate' = [gate EXCEPT !.pending = FALSE, !.fetches = @ - 1,
                          !.caller = [k \in Callers |-> IF @[k] # "waiting" THEN @[k]
                                                        ELSE IF ok THEN "admitted" ELSE "failed"]]

\* An admitted caller opens its socket, to the origin that resolves.
SocketOpened(k) ==
  /\ gate.caller[k] = "admitted"
  /\ gate' = [gate EXCEPT !.caller[k] =
       IF resolve_livehost_websocket_base_url(gate.prod, gate.configured, FALSE) = Unresolved
       THEN "failed" ELSE "connected"]

-----------------------------------------------------------------------------
GateInit ==
  \E prod \in BOOLEAN, configured \in Configured :
    gate = [disposed |-> [side \in Sides |-> FALSE], pipe |-> [w \in Pipes |-> "none"],
            side |-> [w \in Pipes |-> "none"], attached |-> {}, tracked |-> {}, late |-> {},
            prod |-> prod, configured |-> configured, pending |-> FALSE, fetches |-> 0,
            caller |-> [k \in Callers |-> "idle"]]

ServerStep ==
  \/ \E w \in Pipes :
       \/ accept_durable(w) \/ Connected(w) \/ PipeEnds(w) \/ Closed(w)
       \/ \E flag \in BOOLEAN : accept_circuit(w, flag) \/ NotConnected(w, flag)
  \/ dispose_durable \/ disconnectConnections \/ dispose_circuit_application

BrowserStep ==
  \/ \E k \in Callers : bootstrap_livehost_browser_session(k) \/ SocketOpened(k)
  \/ \E ok \in BOOLEAN : SessionAnswered(ok)

\* The two sides meet only in the network: a build's browser is let loose on
\* servers that have not begun, and servers on one build.
GateNext ==
  \/ gate.prod /\ gate.configured = Unresolved /\ ServerStep
  \/ (\A w \in Pipes : gate.pipe[w] = "none") /\ (\A side \in Sides : ~gate.disposed[side]) /\ BrowserStep

-----------------------------------------------------------------------------
(* No authority holds a socket nobody will take from it: what is attached  *)
(* is tracked by its gateway and its socket is open, so that its close, or *)
(* the disposal of the gateway, detaches it; what is tracked longer is     *)
(* closing; the exceptions, late, are the sockets of the durable object    *)
(* that closed, or whose object was disposed of, while the authority was   *)
(* being asked: a later disposal detaches them, an earlier one never does. *)
(* And sockets wait for one request at a time, for as long as it is under  *)
(* way, and are never opened to an origin a production build must not use. *)
ConnectionsOwned ==
  /\ gate.attached \subseteq gate.tracked
  /\ \A w \in gate.tracked \ gate.attached : gate.pipe[w] = "closing"
  /\ \A w \in gate.attached \ gate.late : gate.pipe[w] = "open" /\ ~gate.disposed[gate.side[w]]
  /\ \A w \in gate.late : gate.side[w] = "durable"
  /\ gate.fetches = IF gate.pending THEN 1 ELSE 0
  /\ \A k \in Callers : gate.caller[k] = "waiting" => gate.pending
  /\ (\E k \in Callers : gate.caller[k] = "connected") /\ gate.prod =>
       gate.configured.set /\ (gate.configured.scheme = "wss" \/ gate.configured.local)
=============================================================================
