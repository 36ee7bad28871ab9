---------------------------- MODULE TowlPanel_proofs ----------------------------
(* Proofs about TowlConnection and TowlPanel, for any number of retries    *)
(* and of reconnection loops.                                              *)
EXTENDS TowlPanel, TLAPS

State ==
  [shown : Status, disposed : BOOLEAN, generation : Nat, loops : 0..MaxLoops,
   leave : {"none", "leaving", "goodbye", "done"}, work : Work, transportAttempts : Nat,
   transport : [Ids -> {"none", "open", "closed", "disposed"}],
   client : [Ids -> {"none", "live", "disposed"}],
   activeTransport : Nat, activeClient : Nat, watched : BOOLEAN,
   openingTransport : Nat, openingClient : Nat, credential : Nat, issued : Nat]

\* Where an attempt holds a transport, and where it holds a client.
Opened == {"ready", "creating", "reattaching", "recovering"}
Attaching == {"creating", "reattaching", "recovering"}

\* Attempts the running loop has left; each is one of the Retries of its loop.
AttemptsLeft(w) ==
  IF w.at = "delay" THEN Retries - w.index + 1
  ELSE IF w.at = "none" \/ w.index = 0 THEN 0 ELSE Retries - w.index
Counted(k) ==
  /\ k.transportAttempts + AttemptsLeft(k.work) <= 1 + k.loops * Retries
  /\ 1 <= k.transportAttempts
  /\ k.work.at = "delay" => 1 <= k.work.index

\* A transport that is open or closed is the installed one or the running
\* attempt's; the running attempt's is neither missing nor disposed of while
\* the attempt is current.
Transports(k) ==
  /\ \A t \in Ids : t > id(k) => k.transport[t] = "none"
  /\ \A t \in Ids : k.transport[t] \in {"open", "closed"} =>
       t = k.activeTransport \/ (k.work.at \in Opened /\ t = id(k))
  /\ k.work.at = "opening" => k.transport[id(k)] = "none"
  /\ k.work.at \in Opened /\ is_current(k) => k.transport[id(k)] \in {"open", "closed"}
  /\ k.activeTransport <= id(k)
  /\ k.work.at \notin {"none", "delay"} => k.activeTransport < id(k)
  /\ k.openingTransport # 0 => k.work.at \in Opened /\ k.openingTransport = id(k)

\* A live client is the installed one or the running attempt's, which takes
\* the place of the other.
Clients(k) ==
  /\ \A t \in Ids : t > id(k) => k.client[t] = "none"
  /\ \A t \in Ids : k.client[t] = "live" =>
       t = k.activeClient \/ (k.work.at \in Attaching /\ t = id(k) /\ k.openingClient = t)
  /\ k.work.at \in {"opening", "ready"} => k.client[id(k)] = "none"
  /\ k.work.at \in Attaching => k.activeClient = 0
  /\ k.work.at \in Attaching /\ is_current(k) => k.client[id(k)] = "live"
  /\ k.activeClient # 0 => k.activeClient \in Ids /\ k.client[k.activeClient] = "live"
  /\ k.activeClient <= id(k)
  /\ k.work.at \notin {"none", "delay"} => k.activeClient < id(k)
  /\ k.openingClient # 0 => k.work.at \in Attaching /\ k.openingClient = id(k)
  /\ k.disposed => k.activeClient = 0 /\ k.openingClient = 0

\* No attempt is of a later generation; the watched transport is the installed
\* one and open; disposal and departure are final.
Fenced(k) ==
  /\ k.work.generation <= k.generation
  /\ k.watched => /\ k.work.at = "none" /\ k.shown.status = "connected" /\ k.activeClient # 0
                  /\ k.activeTransport \in Ids /\ k.transport[k.activeTransport] = "open"
  /\ k.disposed => k.shown.status = "disposed"
  /\ k.leave = "done" => k.disposed /\ k.credential = 0

\* The controller, but for what it says of itself; and what it says.
Core(k) == k \in State /\ Counted(k) /\ Transports(k) /\ Clients(k) /\ Fenced(k)
Honest(k) ==
  ~k.disposed /\ k.leave = "none" =>
    /\ k.work.at # "none" <=> k.shown.status \notin {"connected", "failed"}
    /\ k.work.at # "none" => k.generation = k.work.generation
    /\ k.shown.status = "connected" => k.watched

ConnectionInv == Core(c) /\ Honest(c)

-----------------------------------------------------------------------------
(* Records: what an operator changes.                                      *)

\* All but the status and the running attempt; all but transports and clients.
Resources(r, k) ==
  /\ r.transport = k.transport /\ r.client = k.client
  /\ r.activeTransport = k.activeTransport /\ r.activeClient = k.activeClient
  /\ r.openingTransport = k.openingTransport /\ r.openingClient = k.openingClient
Counters(r, k) ==
  /\ r.disposed = k.disposed /\ r.generation = k.generation /\ r.loops = k.loops
  /\ r.leave = k.leave /\ r.transportAttempts = k.transportAttempts
  /\ r.watched = k.watched /\ r.credential = k.credential /\ r.issued = k.issued

LEMMA Range ==
  ASSUME NEW k \in State, Counted(k)
  PROVE  id(k) \in Ids /\ id(k) \in Nat /\ id(k) # 0
<1>1. k.transportAttempts \in Nat /\ k.loops \in 0..MaxLoops /\ k.work \in Work BY DEF State
<1>2. k.work.index \in 0..Retries BY <1>1 DEF Work
<1>3. AttemptsLeft(k.work) >= 0 BY <1>2, ConstantsAssumption DEF AttemptsLeft
<1>4. AttemptsLeft(k.work) \in Int BY <1>2, ConstantsAssumption DEF AttemptsLeft
<1>5. k.loops * Retries <= MaxLoops * Retries
  <2>1. \A l, m, n \in Nat : l <= m => l * n <= m * n OBVIOUS
  <2> QED BY <1>1, <2>1, ConstantsAssumption
<1>6. k.loops * Retries \in Nat /\ MaxLoops * Retries \in Nat BY <1>1, ConstantsAssumption
<1> QED BY <1>1, <1>3, <1>4, <1>5, <1>6 DEF Counted, id, Ids, MaxOpen

LEMMA Publishing ==
  ASSUME NEW k \in State, NEW status \in Statuses, NEW attempt \in 0..Retries,
         NEW sessionReplaced \in BOOLEAN, NEW sessionRestored \in BOOLEAN,
         NEW failureKind \in {"none", "retry-exhausted", "terminal"}
  PROVE  LET r == publish(k, status, attempt, sessionReplaced, failureKind, sessionRestored)
         IN /\ r \in State /\ Resources(r, k) /\ Counters(r, k) /\ r.work = k.work
            /\ (status = "disposed" \/ ~k.disposed) => r.shown.status = status
            /\ (status # "disposed" /\ k.disposed) => r.shown = k.shown
<1> DEFINE shown == [status |-> status, attempt |-> attempt, sessionReplaced |-> sessionReplaced,
                     sessionRestored |-> sessionRestored, failureKind |-> failureKind]
           r == publish(k, status, attempt, sessionReplaced, failureKind, sessionRestored)
<1>1. shown \in Status /\ shown.status = status BY DEF Status
<1>2. CASE k.disposed /\ status # "disposed"
  <2>1. r = k BY <1>2 DEF publish
  <2> QED BY <1>2, <2>1 DEF Resources, Counters
<1>3. CASE ~(k.disposed /\ status # "disposed")
  <2>1. r = [k EXCEPT !.shown = shown] BY <1>3 DEF publish
  <2> HIDE DEF shown, r
  <2>2. r \in State /\ Resources(r, k) /\ Counters(r, k) /\ r.work = k.work /\ r.shown = shown
    BY <1>1, <2>1 DEF State, Resources, Counters
  <2> QED BY <1>1, <1>3, <2>2 DEF r
<1> QED BY <1>2, <1>3

LEMMA DisposingClient ==
  ASSUME NEW k \in State, NEW i \in Ids \union {0}
  PROVE  LET r == dispose_client(k, i)
         IN /\ r \in State /\ Counters(r, k) /\ r.work = k.work /\ r.shown = k.shown
            /\ r.transport = k.transport
            /\ r.activeTransport = k.activeTransport /\ r.activeClient = k.activeClient
            /\ r.openingTransport = k.openingTransport /\ r.openingClient = k.openingClient
            /\ \A t \in Ids : r.client[t] = IF t = i THEN "disposed" ELSE k.client[t]
<1> DEFINE r == dispose_client(k, i)
<1>1. 0 \notin Ids BY DEF Ids
<1>2. CASE i = 0 BY <1>1, <1>2 DEF dispose_client, Counters
<1>3. CASE i # 0
  <2> DEFINE client == [k.client EXCEPT ![i] = "disposed"]
  <2>1. r = [k EXCEPT !.client = client] BY <1>3 DEF dispose_client, State
  <2>2. client \in [Ids -> {"none", "live", "disposed"}] BY DEF State
  <2>3. \A t \in Ids : client[t] = IF t = i THEN "disposed" ELSE k.client[t] BY DEF State
  <2> HIDE DEF client, r
  <2>4. /\ r \in State /\ Counters(r, k) /\ r.work = k.work /\ r.shown = k.shown
        /\ r.transport = k.transport
        /\ r.activeTransport = k.activeTransport /\ r.activeClient = k.activeClient
        /\ r.openingTransport = k.openingTransport /\ r.openingClient = k.openingClient
        /\ r.client = client
    BY <2>1, <2>2 DEF State, Counters
  <2> QED BY <2>3, <2>4 DEF r
<1> QED BY <1>2, <1>3

LEMMA DisposingTransport ==
  ASSUME NEW k \in State, NEW i \in Ids \union {0}
  PROVE  LET r == dispose_transport(k, i)
         IN /\ r \in State /\ Counters(r, k) /\ r.work = k.work /\ r.shown = k.shown
            /\ r.client = k.client
            /\ r.activeTransport = k.activeTransport /\ r.activeClient = k.activeClient
            /\ r.openingTransport = k.openingTransport /\ r.openingClient = k.openingClient
            /\ \A t \in Ids : r.transport[t] = IF t = i THEN "disposed" ELSE k.transport[t]
<1> DEFINE r == dispose_transport(k, i)
<1>1. 0 \notin Ids BY DEF Ids
<1>2. CASE i = 0 BY <1>1, <1>2 DEF dispose_transport, Counters
<1>3. CASE i # 0
  <2> DEFINE transport == [k.transport EXCEPT ![i] = "disposed"]
  <2>1. r = [k EXCEPT !.transport = transport] BY <1>3 DEF dispose_transport, State
  <2>2. transport \in [Ids -> {"none", "open", "closed", "disposed"}] BY DEF State
  <2>3. \A t \in Ids : transport[t] = IF t = i THEN "disposed" ELSE k.transport[t] BY DEF State
  <2> HIDE DEF transport, r
  <2>4. /\ r \in State /\ Counters(r, k) /\ r.work = k.work /\ r.shown = k.shown
        /\ r.client = k.client
        /\ r.activeTransport = k.activeTransport /\ r.activeClient = k.activeClient
        /\ r.openingTransport = k.openingTransport /\ r.openingClient = k.openingClient
        /\ r.transport = transport
    BY <2>1, <2>2 DEF State, Counters
  <2> QED BY <2>3, <2>4 DEF r
<1> QED BY <1>2, <1>3

-----------------------------------------------------------------------------
(* Disposal and departure.                                                 *)

\* Which transports and clients are in use: no opening ones are left behind.
LEMMA Owned ==
  ASSUME NEW k, Core(k)
  PROVE  /\ id(k) \in Ids /\ id(k) # 0
         /\ k.openingClient \in Ids \union {0} /\ k.openingTransport \in Ids \union {0}
         /\ k.activeClient \in Ids \union {0} /\ k.activeTransport \in Ids \union {0}
<1>1. k \in State /\ Counted(k) /\ Transports(k) /\ Clients(k) BY DEF Core
<1>2. id(k) \in Ids /\ id(k) \in Nat /\ id(k) # 0 BY <1>1, Range
<1>3. k.openingClient \in Ids \union {0} BY <1>1, <1>2 DEF Clients
<1>4. k.openingTransport \in Ids \union {0} BY <1>1, <1>2 DEF Transports
<1>5. k.activeClient \in Ids \union {0} BY <1>1 DEF Clients
<1>6. k.activeTransport \in Nat /\ k.activeTransport <= id(k) BY <1>1 DEF Transports, State
<1>7. k.activeTransport \in Ids \union {0}
  <2>1. MaxOpen \in Nat BY ConstantsAssumption DEF MaxOpen
  <2> QED BY <1>2, <1>6, <2>1 DEF Ids
<1> QED BY <1>2, <1>3, <1>4, <1>5, <1>7

\* What cancelling changes: the generation, and what was opening is disposed of.
Quieted(r, k) ==
  /\ r \in State /\ r.shown = k.shown /\ r.work = k.work
  /\ r.disposed = k.disposed /\ r.generation = k.generation + 1 /\ r.loops = k.loops
  /\ r.leave = k.leave /\ r.transportAttempts = k.transportAttempts
  /\ ~r.watched /\ r.credential = k.credential /\ r.issued = k.issued
  /\ r.activeTransport = k.activeTransport /\ r.activeClient = k.activeClient
  /\ r.openingTransport = 0 /\ r.openingClient = 0
  /\ \A t \in Ids : r.client[t] = IF t = k.openingClient THEN "disposed" ELSE k.client[t]
  /\ \A t \in Ids : r.transport[t] = IF t = k.openingTransport THEN "disposed" ELSE k.transport[t]

LEMMA Cancelling ==
  ASSUME NEW k \in State, k.openingClient \in Ids \union {0}, k.openingTransport \in Ids \union {0}
  PROVE  Quieted(cancel_reconnect_work(k), k)
<1> DEFINE d == dispose_client(k, k.openingClient)
           e == dispose_transport(d, k.openingTransport)
           r == cancel_reconnect_work(k)
<1>1. /\ d \in State /\ Counters(d, k) /\ d.work = k.work /\ d.shown = k.shown
      /\ d.transport = k.transport
      /\ d.activeTransport = k.activeTransport /\ d.activeClient = k.activeClient
      /\ d.openingTransport = k.openingTransport /\ d.openingClient = k.openingClient
      /\ \A t \in Ids : d.client[t] = IF t = k.openingClient THEN "disposed" ELSE k.client[t]
  BY DisposingClient
<1> HIDE DEF d
<1>2. /\ e \in State /\ Counters(e, d) /\ e.work = d.work /\ e.shown = d.shown
      /\ e.client = d.client
      /\ e.activeTransport = d.activeTransport /\ e.activeClient = d.activeClient
      /\ \A t \in Ids : e.transport[t] = IF t = k.openingTransport THEN "disposed" ELSE d.transport[t]
  BY <1>1, DisposingTransport
<1>3. r = [e EXCEPT !.generation = @ + 1, !.watched = FALSE, !.openingClient = 0, !.openingTransport = 0]
  BY DEF cancel_reconnect_work, d
<1> HIDE DEF e, r
<1>4. e.generation + 1 \in Nat BY <1>2 DEF State
<1>5. /\ r \in State /\ r.shown = e.shown /\ r.work = e.work
      /\ r.disposed = e.disposed /\ r.generation = e.generation + 1 /\ r.loops = e.loops
      /\ r.leave = e.leave /\ r.transportAttempts = e.transportAttempts
      /\ ~r.watched /\ r.credential = e.credential /\ r.issued = e.issued
      /\ r.activeTransport = e.activeTransport /\ r.activeClient = e.activeClient
      /\ r.openingTransport = 0 /\ r.openingClient = 0
      /\ r.client = e.client /\ r.transport = e.transport
  BY <1>2, <1>3, <1>4 DEF State
<1> QED BY <1>1, <1>2, <1>5 DEF Counters, Quieted, r

\* Cancelling leaves nothing of the running attempt but a transport it may
\* still open, which is no longer current.
LEMMA Overtaken ==
  ASSUME NEW k, Core(k)
  PROVE  LET r == cancel_reconnect_work(k) IN Core(r) /\ r.leave = k.leave /\ r.disposed = k.disposed
<1> DEFINE r == cancel_reconnect_work(k)
<1>1. k \in State /\ Counted(k) /\ Transports(k) /\ Clients(k) /\ Fenced(k) BY DEF Core
<1>2. /\ r \in State /\ r.shown = k.shown /\ r.work = k.work
      /\ r.disposed = k.disposed /\ r.generation = k.generation + 1 /\ r.loops = k.loops
      /\ r.leave = k.leave /\ r.transportAttempts = k.transportAttempts
      /\ ~r.watched /\ r.credential = k.credential /\ r.issued = k.issued
      /\ r.activeTransport = k.activeTransport /\ r.activeClient = k.activeClient
      /\ r.openingTransport = 0 /\ r.openingClient = 0
      /\ \A t \in Ids : r.client[t] = IF t = k.openingClient THEN "disposed" ELSE k.client[t]
      /\ \A t \in Ids : r.transport[t] = IF t = k.openingTransport THEN "disposed" ELSE k.transport[t]
  <2>1. Quieted(r, k) BY <1>1, Owned, Cancelling
  <2> HIDE DEF r
  <2> QED BY <2>1 DEF Quieted
<1> HIDE DEF r
<1>3. /\ id(r) = id(k) /\ id(k) \in Ids /\ id(k) \in Nat /\ id(k) # 0
      /\ \A t \in Ids : t \in Int /\ t # 0
  BY <1>1, <1>2, Range DEF id, Ids
<1>4. k.generation \in Nat /\ k.work.generation \in Nat /\ k.activeTransport \in Nat /\ k.activeClient \in Nat
  BY <1>1 DEF State, Work
<1>5. ~is_current(r) BY <1>1, <1>2, <1>4 DEF is_current, Fenced
<1>6. Counted(r) BY <1>1, <1>2 DEF Counted
<1>7. Transports(r)
  <2>1. \A t \in Ids : t > id(r) => r.transport[t] = "none" BY <1>1, <1>2, <1>3 DEF Transports
  <2>2. r.work.at = "opening" => r.transport[id(r)] = "none" BY <1>1, <1>2, <1>3 DEF Transports, Opened
  <2> QED BY <1>1, <1>2, <1>3, <1>5, <2>1, <2>2 DEF Transports
<1>8. Clients(r)
  <2>1. \A t \in Ids : t > id(r) => r.client[t] = "none" BY <1>1, <1>2, <1>3 DEF Clients
  <2>2. r.work.at \in {"opening", "ready"} => r.client[id(r)] = "none"
    BY <1>1, <1>2, <1>3 DEF Clients, Attaching
  <2>3. r.activeClient # 0 => r.activeClient \in Ids /\ r.client[r.activeClient] = "live"
    BY <1>1, <1>2, <1>3 DEF Clients
  <2> QED BY <1>1, <1>2, <1>3, <1>5, <2>1, <2>2, <2>3 DEF Clients
<1>9. Fenced(r) BY <1>1, <1>2, <1>4 DEF Fenced
<1> QED BY <1>2, <1>6, <1>7, <1>8, <1>9 DEF Core, r

\* Disposal releases everything, and is final.
LEMMA Released ==
  ASSUME NEW k, Core(k)
  PROVE  LET r == dispose_all(k)
         IN Core(r) /\ r.disposed /\ r.leave = k.leave /\ r.credential = k.credential
<1> DEFINE r == dispose_all(k)
<1>1. CASE k.disposed BY <1>1 DEF dispose_all
<1>2. CASE ~k.disposed
  <2> DEFINE ended == [k EXCEPT !.disposed = TRUE]
             d == cancel_reconnect_work(ended)
             e == dispose_client(d, d.activeClient)
             f == dispose_transport(e, d.activeTransport)
             g == [f EXCEPT !.activeClient = 0, !.activeTransport = 0]
  <2>1. k \in State /\ Counted(k) /\ Transports(k) /\ Clients(k) /\ Fenced(k) BY DEF Core
  <2>2. /\ ended \in State /\ ended.shown = k.shown /\ ended.work = k.work /\ Resources(ended, k)
        /\ ended.disposed /\ ended.generation = k.generation /\ ended.loops = k.loops
        /\ ended.leave = k.leave /\ ended.transportAttempts = k.transportAttempts
        /\ ended.credential = k.credential /\ ended.issued = k.issued
    BY <2>1 DEF State, Resources
  <2> HIDE DEF ended
  <2>3. /\ d \in State /\ d.shown = ended.shown /\ d.work = ended.work
        /\ d.disposed = ended.disposed /\ d.generation = ended.generation + 1 /\ d.loops = ended.loops
        /\ d.leave = ended.leave /\ d.transportAttempts = ended.transportAttempts
        /\ ~d.watched /\ d.credential = ended.credential /\ d.issued = ended.issued
        /\ d.activeTransport = ended.activeTransport /\ d.activeClient = ended.activeClient
        /\ d.openingTransport = 0 /\ d.openingClient = 0
        /\ \A t \in Ids : d.client[t] = IF t = ended.openingClient THEN "disposed" ELSE ended.client[t]
        /\ \A t \in Ids : d.transport[t] =
             IF t = ended.openingTransport THEN "disposed" ELSE ended.transport[t]
    <3>1. ended.openingClient \in Ids \union {0} /\ ended.openingTransport \in Ids \union {0}
      BY <2>2, Owned DEF Resources
    <3>2. Quieted(d, ended) BY <2>2, <3>1, Cancelling
    <3> HIDE DEF d
    <3> QED BY <3>2 DEF Quieted
  <2> HIDE DEF d
  <2>4. d.activeClient \in Ids \union {0} /\ d.activeTransport \in Ids \union {0}
    BY <2>2, <2>3, Owned DEF Resources
  <2>5. /\ e \in State /\ Counters(e, d) /\ e.work = d.work /\ e.shown = d.shown
        /\ e.transport = d.transport
        /\ e.activeTransport = d.activeTransport /\ e.activeClient = d.activeClient
        /\ e.openingTransport = d.openingTransport /\ e.openingClient = d.openingClient
        /\ \A t \in Ids : e.client[t] = IF t = d.activeClient THEN "disposed" ELSE d.client[t]
    BY <2>3, <2>4, DisposingClient
  <2> HIDE DEF e
  <2>6. /\ f \in State /\ Counters(f, e) /\ f.work = e.work /\ f.shown = e.shown
        /\ f.client = e.client
        /\ f.activeTransport = e.activeTransport /\ f.activeClient = e.activeClient
        /\ f.openingTransport = e.openingTransport /\ f.openingClient = e.openingClient
        /\ \A t \in Ids : f.transport[t] = IF t = d.activeTransport THEN "disposed" ELSE e.transport[t]
    BY <2>4, <2>5, DisposingTransport
  <2> HIDE DEF f
  <2>7. /\ g \in State /\ Counters(g, f) /\ g.work = f.work /\ g.shown = f.shown
        /\ g.client = f.client /\ g.transport = f.transport
        /\ g.activeTransport = 0 /\ g.activeClient = 0
        /\ g.openingTransport = f.openingTransport /\ g.openingClient = f.openingClient
    BY <2>6 DEF State, Counters
  <2>8. r = publish(g, "disposed", k.shown.attempt, k.shown.sessionReplaced, "none", k.shown.sessionRestored)
    BY <1>2 DEF dispose_all, d, e, f, ended
  <2> HIDE DEF g
  <2> HIDE DEF r
  <2> DEFINE attempt == k.shown.attempt
             replaced == k.shown.sessionReplaced
             restored == k.shown.sessionRestored
             p == publish(g, "disposed", attempt, replaced, "none", restored)
  <2>9. attempt \in 0..Retries /\ replaced \in BOOLEAN /\ restored \in BOOLEAN
    BY <2>1 DEF State, Status
  <2>10. r \in State /\ Resources(r, g) /\ Counters(r, g) /\ r.work = g.work /\ r.shown.status = "disposed"
    <3>1. r = p BY <2>8
    <3> HIDE DEF attempt, replaced, restored
    <3>2. p \in State /\ Resources(p, g) /\ Counters(p, g) /\ p.work = g.work /\ p.shown.status = "disposed"
      BY <2>7, <2>9, Publishing DEF Statuses
    <3> HIDE DEF p
    <3> QED BY <3>1, <3>2
  <2>11. /\ r.work = k.work /\ r.disposed /\ r.generation = k.generation + 1 /\ r.loops = k.loops
         /\ r.leave = k.leave /\ r.transportAttempts = k.transportAttempts /\ ~r.watched
         /\ r.credential = k.credential /\ r.activeTransport = 0 /\ r.activeClient = 0
         /\ r.openingTransport = 0 /\ r.openingClient = 0
    BY <2>2, <2>3, <2>5, <2>6, <2>7, <2>10 DEF Counters, Resources
  <2>12. \A t \in Ids : r.client[t] =
           IF t = k.activeClient \/ t = k.openingClient THEN "disposed" ELSE k.client[t]
    BY <2>2, <2>3, <2>5, <2>6, <2>7, <2>10 DEF Resources
  <2>13. \A t \in Ids : r.transport[t] =
           IF t = k.activeTransport \/ t = k.openingTransport THEN "disposed" ELSE k.transport[t]
    BY <2>2, <2>3, <2>5, <2>6, <2>7, <2>10 DEF Resources
  <2>14. /\ id(r) = id(k) /\ id(k) \in Ids /\ id(k) \in Nat /\ id(k) # 0
         /\ \A t \in Ids : t \in Int /\ t # 0
    BY <2>1, <2>11, Range DEF id, Ids
  <2>15. k.generation \in Nat /\ k.work.generation \in Nat /\ k.activeTransport \in Nat /\ k.activeClient \in Nat
    BY <2>1 DEF State, Work
  <2>16. Counted(r) BY <2>1, <2>11 DEF Counted
  <2>17. Transports(r)
    <3>1. \A t \in Ids : t > id(r) => r.transport[t] = "none"
      BY <2>1, <2>13, <2>14, <2>15 DEF Transports
    <3>2. r.work.at = "opening" => r.transport[id(r)] = "none"
      BY <2>1, <2>11, <2>13, <2>14, <2>15 DEF Transports, Opened
    <3> QED BY <2>1, <2>11, <2>13, <2>14, <3>1, <3>2 DEF Transports, is_current
  <2>18. Clients(r)
    <3>1. \A t \in Ids : t > id(r) => r.client[t] = "none"
      BY <2>1, <2>12, <2>14, <2>15 DEF Clients
    <3>2. r.work.at \in {"opening", "ready"} => r.client[id(r)] = "none"
      BY <2>1, <2>11, <2>12, <2>14, <2>15 DEF Clients, Attaching
    <3> QED BY <2>1, <2>11, <2>12, <2>14, <3>1, <3>2 DEF Clients, is_current
  <2>19. Fenced(r) BY <1>2, <2>1, <2>10, <2>11, <2>15 DEF Fenced
  <2> QED BY <2>10, <2>11, <2>16, <2>17, <2>18, <2>19 DEF Core, r
<1> QED BY <1>1, <1>2

\* Changing the departure or the credential changes nothing else.
LEMMA Departing ==
  ASSUME NEW k, Core(k), NEW how \in {"leaving", "goodbye"}
  PROVE  LET r == [k EXCEPT !.leave = how]
         IN Core(r) /\ r.leave = how /\ r.disposed = k.disposed
<1> DEFINE r == [k EXCEPT !.leave = how]
<1>1. k \in State /\ Counted(k) /\ Transports(k) /\ Clients(k) /\ Fenced(k) BY DEF Core
<1>2. /\ r \in State /\ Resources(r, k) /\ r.work = k.work /\ r.shown = k.shown
      /\ r.disposed = k.disposed /\ r.generation = k.generation /\ r.loops = k.loops
      /\ r.leave = how /\ r.transportAttempts = k.transportAttempts
      /\ r.watched = k.watched /\ r.credential = k.credential
  BY <1>1 DEF State, Resources
<1> HIDE DEF r
<1>3. Counted(r) BY <1>1, <1>2 DEF Counted
<1>4. Transports(r) BY <1>1, <1>2 DEF Transports, Resources, is_current, id
<1>5. Clients(r) BY <1>1, <1>2 DEF Clients, Resources, is_current, id
<1>6. Fenced(r) BY <1>1, <1>2 DEF Fenced, Resources
<1> QED BY <1>2, <1>3, <1>4, <1>5, <1>6 DEF Core, r

LEMMA Forgotten ==
  ASSUME NEW k, Core(k)
  PROVE  LET r == forget(k) IN Core(r) /\ r.leave = "done" /\ r.disposed
<1> DEFINE s == store_credential(k, 0)
           d == dispose_all(s)
           r == forget(k)
<1>1. k \in State /\ Counted(k) /\ Transports(k) /\ Clients(k) /\ Fenced(k) BY DEF Core
<1>2. /\ s \in State /\ Resources(s, k) /\ s.work = k.work /\ s.shown = k.shown
      /\ s.disposed = k.disposed /\ s.generation = k.generation /\ s.loops = k.loops
      /\ s.leave = k.leave /\ s.transportAttempts = k.transportAttempts
      /\ s.watched = k.watched /\ s.credential = 0
  BY <1>1 DEF State, Resources, store_credential
<1> HIDE DEF s
<1>3. Counted(s) BY <1>1, <1>2 DEF Counted
<1>4. Transports(s) BY <1>1, <1>2 DEF Transports, Resources, is_current, id
<1>5. Clients(s) BY <1>1, <1>2 DEF Clients, Resources, is_current, id
<1>6. Fenced(s) BY <1>1, <1>2 DEF Fenced, Resources
<1>7. Core(d) /\ d.disposed /\ d.leave = s.leave /\ d.credential = 0
  <2>1. Core(s) BY <1>2, <1>3, <1>4, <1>5, <1>6 DEF Core
  <2> QED BY <1>2, <2>1, Released
<1>8. r = [d EXCEPT !.leave = "done"] BY DEF forget, s
<1> HIDE DEF d, r
<1>9. d \in State /\ Counted(d) /\ Transports(d) /\ Clients(d) /\ Fenced(d) BY <1>7 DEF Core
<1>10. /\ r \in State /\ Resources(r, d) /\ r.work = d.work /\ r.shown = d.shown
       /\ r.disposed = d.disposed /\ r.generation = d.generation /\ r.loops = d.loops
       /\ r.leave = "done" /\ r.transportAttempts = d.transportAttempts
       /\ r.watched = d.watched /\ r.credential = d.credential
  BY <1>8, <1>9 DEF State, Resources
<1>11. Counted(r) BY <1>9, <1>10 DEF Counted
<1>12. Transports(r) BY <1>9, <1>10 DEF Transports, Resources, is_current, id
<1>13. Clients(r) BY <1>9, <1>10 DEF Clients, Resources, is_current, id
<1>14. Fenced(r) BY <1>7, <1>9, <1>10 DEF Fenced, Resources
<1> QED BY <1>7, <1>10, <1>11, <1>12, <1>13, <1>14 DEF Core, r

-----------------------------------------------------------------------------
(* Attempts that end, and the ones that follow them.                       *)

LEMMA NextAttempt ==
  ASSUME NEW k \in State, NEW index \in 1..Retries, NEW generation \in Nat
  PROVE  LET r == next_attempt(k, index, generation)
         IN /\ r \in State /\ Resources(r, k) /\ Counters(r, k)
            /\ r.work.at = "delay" /\ r.work.index = index /\ r.work.generation = generation
            /\ ~k.disposed => r.shown.status = "reconnecting"
            /\ k.disposed => r.shown = k.shown
<1> DEFINE restored == k.shown.sessionRestored
           no == FALSE
           p == publish(k, "reconnecting", index, no, "none", restored)
           work == [NoWork EXCEPT !.at = "delay", !.generation = generation, !.index = index]
           r == next_attempt(k, index, generation)
<1>1. restored \in BOOLEAN /\ no \in BOOLEAN BY DEF State, Status
<1>2. r = [p EXCEPT !.work = work] BY DEF next_attempt
<1>3. work \in Work /\ work.at = "delay" /\ work.index = index /\ work.generation = generation
  <2>1. index \in 0..Retries BY ConstantsAssumption
  <2>2. NoWork \in Work BY ConstantsAssumption DEF NoWork, Work
  <2> HIDE DEF NoWork
  <2> QED BY <2>1, <2>2 DEF Work
<1> HIDE DEF restored, no, r, work
<1>4. /\ p \in State /\ Resources(p, k) /\ Counters(p, k)
      /\ ~k.disposed => p.shown.status = "reconnecting"
      /\ k.disposed => p.shown = k.shown
  BY <1>1, Publishing, ConstantsAssumption DEF Statuses
<1> HIDE DEF p
<1>5. r \in State /\ Resources(r, k) /\ Counters(r, k) /\ r.work = work /\ r.shown = p.shown
  BY <1>2, <1>3, <1>4 DEF State, Resources, Counters
<1> QED BY <1>3, <1>4, <1>5 DEF r

\* A controller between attempts begins the next one.
LEMMA Retrying ==
  ASSUME NEW k, Core(k), k.work.at = "none", ~k.watched, NEW index \in 1..Retries,
         NEW generation \in Nat, generation <= k.generation,
         ~k.disposed /\ k.leave = "none" => generation = k.generation,
         k.transportAttempts + (Retries - index + 1) <= 1 + k.loops * Retries
  PROVE  LET r == next_attempt(k, index, generation)
         IN Core(r) /\ Honest(r) /\ r.leave = k.leave
<1> DEFINE r == next_attempt(k, index, generation)
<1>1. k \in State /\ Counted(k) /\ Transports(k) /\ Clients(k) /\ Fenced(k) BY DEF Core
<1>2. /\ r \in State /\ Resources(r, k) /\ Counters(r, k)
      /\ r.work.at = "delay" /\ r.work.index = index /\ r.work.generation = generation
      /\ ~k.disposed => r.shown.status = "reconnecting"
      /\ k.disposed => r.shown = k.shown
  BY <1>1, NextAttempt
<1> HIDE DEF r
<1>3. Counted(r) BY <1>1, <1>2 DEF Counted, Counters, AttemptsLeft
<1>4. Transports(r) BY <1>1, <1>2 DEF Transports, Resources, Counters, id, Opened
<1>5. Clients(r) BY <1>1, <1>2 DEF Clients, Resources, Counters, id, Attaching
<1>6. Fenced(r) BY <1>1, <1>2 DEF Fenced, Counters
<1>7. Honest(r) BY <1>2 DEF Honest, Counters
<1> QED BY <1>2, <1>3, <1>4, <1>5, <1>6, <1>7 DEF Core, Counters, r

LEMMA Failing ==
  ASSUME NEW k, Core(k), k.work.at = "none", ~k.watched, NEW index \in 0..Retries,
         NEW kind \in {"retry-exhausted", "terminal"}, NEW restored \in BOOLEAN
  PROVE  LET r == publish(k, "failed", index, FALSE, kind, restored)
         IN Core(r) /\ Honest(r) /\ r.leave = k.leave
<1> DEFINE no == FALSE
           r == publish(k, "failed", index, no, kind, restored)
<1>1. k \in State /\ Counted(k) /\ Transports(k) /\ Clients(k) /\ Fenced(k) BY DEF Core
<1>2. /\ r \in State /\ Resources(r, k) /\ Counters(r, k) /\ r.work = k.work
      /\ ~k.disposed => r.shown.status = "failed"
      /\ k.disposed => r.shown = k.shown
  <2>1. no \in BOOLEAN /\ kind \in {"none", "retry-exhausted", "terminal"} OBVIOUS
  <2>2. "failed" \in Statuses BY DEF Statuses
  <2> HIDE DEF no
  <2> QED BY <1>1, <2>1, <2>2, Publishing
<1> HIDE DEF r
<1>3. Counted(r) BY <1>1, <1>2 DEF Counted, Counters
<1>4. Transports(r) BY <1>1, <1>2 DEF Transports, Resources, Counters, is_current, id
<1>5. Clients(r) BY <1>1, <1>2 DEF Clients, Resources, Counters, is_current, id
<1>6. Fenced(r) BY <1>1, <1>2 DEF Fenced, Counters
<1>7. Honest(r) BY <1>2 DEF Honest, Counters
<1> QED BY <1>2, <1>3, <1>4, <1>5, <1>6, <1>7 DEF Core, Counters, r

\* The attempt's catch releases what it opened: a cancelled attempt ends there,
\* a terminal error or the last attempt's ends the loop, another goes on.
LEMMA Abandoned ==
  ASSUME NEW k, Core(k), Honest(k), k.work.at \in {"opening"} \union Opened,
         NEW error \in {"cancelled", "transport", "terminal"},
         error = "cancelled" => ~is_current(k)
  PROVE  LET r == abandon(k, error) IN Core(r) /\ Honest(r) /\ r.leave = k.leave
<1> DEFINE i == id(k)
           t == IF k.transport[i] = "none" THEN k ELSE dispose_transport(k, i)
           s == IF k.client[i] = "none" THEN t ELSE dispose_client(t, i)
           oc == IF s.openingClient = i THEN 0 ELSE s.openingClient
           ot == IF s.openingTransport = i THEN 0 ELSE s.openingTransport
           u == [s EXCEPT !.openingClient = oc, !.openingTransport = ot, !.work = NoWork]
           restored == k.shown.sessionRestored
           index == k.work.index
           r == abandon(k, error)
<1>1. k \in State /\ Counted(k) /\ Transports(k) /\ Clients(k) /\ Fenced(k) BY DEF Core
<1>2. i \in Ids /\ i \in Nat /\ i # 0 /\ \A x \in Ids : x \in Int /\ x # 0 BY <1>1, Range DEF Ids
<1>3. i = k.transportAttempts /\ id(k) = i BY DEF id
<1>4. k.work \in Work /\ index \in 0..Retries /\ k.work.generation \in Nat /\ k.generation \in Nat
  BY <1>1 DEF State, Work
<1>5. /\ r = IF error = "cancelled" THEN u
             ELSE IF error = "terminal" THEN publish(u, "failed", index, FALSE, "terminal", restored)
             ELSE IF index \in 1..Retries - 1 THEN next_attempt(u, index + 1, k.work.generation)
             ELSE publish(u, "failed", index, FALSE, "retry-exhausted", restored)
  BY DEF abandon
<1>6. restored \in BOOLEAN BY <1>1 DEF State, Status
<1> HIDE DEF r, restored, index, i
<1>7. /\ t \in State /\ Counters(t, k) /\ t.work = k.work /\ t.shown = k.shown
      /\ t.client = k.client
      /\ t.activeTransport = k.activeTransport /\ t.activeClient = k.activeClient
      /\ t.openingTransport = k.openingTransport /\ t.openingClient = k.openingClient
      /\ \A x \in Ids : t.transport[x] =
           IF x = i /\ k.transport[i] # "none" THEN "disposed" ELSE k.transport[x]
  <2>1. CASE k.transport[i] = "none" BY <1>1, <2>1 DEF Counters
  <2>2. CASE k.transport[i] # "none" BY <1>1, <1>2, <2>2, DisposingTransport
  <2> QED BY <2>1, <2>2
<1> HIDE DEF t
<1>8. /\ s \in State /\ Counters(s, t) /\ s.work = t.work /\ s.shown = t.shown
      /\ s.transport = t.transport
      /\ s.activeTransport = t.activeTransport /\ s.activeClient = t.activeClient
      /\ s.openingTransport = t.openingTransport /\ s.openingClient = t.openingClient
      /\ \A x \in Ids : s.client[x] =
           IF x = i /\ k.client[i] # "none" THEN "disposed" ELSE t.client[x]
  <2>1. CASE k.client[i] = "none" BY <1>7, <2>1 DEF Counters
  <2>2. CASE k.client[i] # "none" BY <1>2, <1>7, <2>2, DisposingClient
  <2> QED BY <2>1, <2>2
<1> HIDE DEF s
<1>9. oc = 0 /\ ot = 0 BY <1>1, <1>3, <1>7, <1>8 DEF Transports, Clients
<1>10. NoWork \in Work /\ NoWork.at = "none" /\ NoWork.generation = 0
  BY ConstantsAssumption DEF NoWork, Work
<1>11. u = [s EXCEPT !.openingClient = 0, !.openingTransport = 0, !.work = NoWork] BY <1>9
<1> HIDE DEF u, oc, ot
<1>12. /\ u \in State /\ Counters(u, s) /\ u.work = NoWork /\ u.shown = s.shown
       /\ u.transport = s.transport /\ u.client = s.client
       /\ u.activeTransport = s.activeTransport /\ u.activeClient = s.activeClient
       /\ u.openingTransport = 0 /\ u.openingClient = 0
  <2> HIDE DEF NoWork
  <2> QED BY <1>8, <1>10, <1>11 DEF State, Counters
<1>13. /\ u.shown = k.shown /\ Counters(u, k) /\ id(u) = i
       /\ u.activeTransport = k.activeTransport /\ u.activeClient = k.activeClient
       /\ \A x \in Ids : u.transport[x] =
            IF x = i /\ k.transport[i] # "none" THEN "disposed" ELSE k.transport[x]
       /\ \A x \in Ids : u.client[x] =
            IF x = i /\ k.client[i] # "none" THEN "disposed" ELSE k.client[x]
  BY <1>3, <1>7, <1>8, <1>12 DEF Counters, id
<1>14. k.activeTransport \in Nat /\ k.activeTransport < i /\ k.activeClient \in Nat /\ k.activeClient < i
       /\ ~k.watched
  BY <1>1, <1>3 DEF Transports, Clients, Fenced, State, Opened
<1>15. u.work.at = "none" /\ ~u.watched /\ u.leave = k.leave
  BY <1>10, <1>12, <1>13, <1>14 DEF Counters
<1>16. Core(u)
  <2>1. Counted(u)
    <3>1. AttemptsLeft(u.work) = 0 BY <1>10, <1>12 DEF AttemptsLeft
    <3>2. AttemptsLeft(k.work) \in Int /\ AttemptsLeft(k.work) >= 0
      BY <1>4, ConstantsAssumption DEF AttemptsLeft, Work
    <3>3. k.loops * Retries \in Int BY <1>1, ConstantsAssumption DEF State
    <3> QED BY <1>1, <1>2, <1>3, <1>10, <1>12, <1>13, <3>1, <3>2, <3>3 DEF Counted, Counters
  <2>2. Transports(u)
    <3>1. \A x \in Ids : x > id(u) => u.transport[x] = "none"
      BY <1>1, <1>2, <1>3, <1>13 DEF Transports
    <3>2. \A x \in Ids : u.transport[x] \in {"open", "closed"} => x = u.activeTransport
      BY <1>1, <1>2, <1>3, <1>13 DEF Transports
    <3>3. u.work.at \notin Opened /\ u.work.at # "opening" BY <1>15 DEF Opened
    <3>4. u.activeTransport <= id(u) BY <1>2, <1>13, <1>14
    <3>5. u.openingTransport = 0 BY <1>12
    <3> HIDE DEF i
    <3> QED BY <1>15, <3>1, <3>2, <3>3, <3>4, <3>5 DEF Transports
  <2>3. Clients(u)
    <3>1. \A x \in Ids : x > id(u) => u.client[x] = "none"
      BY <1>1, <1>2, <1>3, <1>13 DEF Clients
    <3>2. \A x \in Ids : u.client[x] = "live" => x = u.activeClient
      BY <1>1, <1>2, <1>3, <1>13 DEF Clients
    <3>3. u.activeClient # 0 => u.activeClient \in Ids /\ u.client[u.activeClient] = "live"
      BY <1>1, <1>2, <1>13, <1>14 DEF Clients
    <3>4. u.disposed => u.activeClient = 0
      BY <1>1, <1>13 DEF Clients, Counters
    <3> QED BY <1>2, <1>12, <1>13, <1>14, <1>15, <3>1, <3>2, <3>3, <3>4 DEF Clients, Attaching
  <2>4. Fenced(u) BY <1>1, <1>4, <1>10, <1>12, <1>13, <1>14 DEF Fenced, Counters
  <2> QED BY <1>12, <2>1, <2>2, <2>3, <2>4 DEF Core
<1>17. CASE error = "cancelled"
  <2>1. Honest(u) BY <1>13, <1>17 DEF Honest, Counters, is_current, Opened
  <2> QED BY <1>5, <1>15, <1>16, <1>17, <2>1 DEF r
<1>18. CASE error = "transport" /\ index \in 1..Retries - 1
  <2> DEFINE n == index + 1
             g == k.work.generation
             q == next_attempt(u, n, g)
  <2>1. r = q BY <1>5, <1>18
  <2>2. n \in 1..Retries /\ g \in Nat BY <1>4, <1>18, ConstantsAssumption
  <2>3. g <= u.generation /\ (~u.disposed /\ u.leave = "none" => g = u.generation)
    BY <1>1, <1>13 DEF Fenced, Honest, Counters, Opened
  <2>4. u.transportAttempts + (Retries - n + 1) <= 1 + u.loops * Retries
    <3>1. k.loops * Retries \in Int BY <1>1, ConstantsAssumption DEF State
    <3>2. AttemptsLeft(k.work) = Retries - index BY <1>18 DEF AttemptsLeft, Opened, index
    <3> QED BY <1>1, <1>2, <1>3, <1>4, <1>13, <3>1, <3>2, ConstantsAssumption DEF Counted, Counters
  <2> HIDE DEF n, g
  <2>5. Core(q) /\ Honest(q) /\ q.leave = u.leave BY <1>15, <1>16, <2>2, <2>3, <2>4, Retrying
  <2> QED BY <1>15, <2>1, <2>5 DEF r
<1>19. CASE error = "terminal"
  <2> DEFINE q == publish(u, "failed", index, FALSE, "terminal", restored)
  <2>1. Core(q) /\ Honest(q) /\ q.leave = u.leave BY <1>4, <1>6, <1>15, <1>16, Failing
  <2> QED BY <1>5, <1>15, <1>19, <2>1 DEF r
<1>20. CASE error = "transport" /\ index \notin 1..Retries - 1
  <2> DEFINE q == publish(u, "failed", index, FALSE, "retry-exhausted", restored)
  <2>1. Core(q) /\ Honest(q) /\ q.leave = u.leave BY <1>4, <1>6, <1>15, <1>16, Failing
  <2> QED BY <1>5, <1>15, <1>20, <2>1 DEF r
<1> QED BY <1>17, <1>18, <1>19, <1>20

-----------------------------------------------------------------------------
(* The steps of an attempt.                                                *)

\* A stage of the attempt begins: nothing else changes.
LEMMA Staging ==
  ASSUME NEW k \in State,
         NEW at \in {"none", "delay", "opening", "ready", "creating", "reattaching", "recovering"}
  PROVE  LET r == [k EXCEPT !.work.at = at]
         IN /\ r \in State /\ Resources(r, k) /\ Counters(r, k) /\ r.shown = k.shown
            /\ r.work.at = at /\ r.work.generation = k.work.generation /\ r.work.index = k.work.index
            /\ r.work.sessionReplaced = k.work.sessionReplaced
            /\ r.work.sessionRestored = k.work.sessionRestored
<1> DEFINE work == [k.work EXCEPT !.at = at]
           r == [k EXCEPT !.work.at = at]
<1>1. /\ work \in Work /\ work.at = at
      /\ work.generation = k.work.generation /\ work.index = k.work.index
      /\ work.sessionReplaced = k.work.sessionReplaced /\ work.sessionRestored = k.work.sessionRestored
  BY DEF State, Work
<1>2. r = [k EXCEPT !.work = work] BY DEF State
<1> HIDE DEF work, r
<1>3. r \in State /\ Resources(r, k) /\ Counters(r, k) /\ r.shown = k.shown /\ r.work = work
  BY <1>1, <1>2 DEF State, Resources, Counters
<1> QED BY <1>1, <1>3 DEF r

LEMMA Creating ==
  ASSUME NEW k \in State, ~k.disposed, NEW replaced \in BOOLEAN
  PROVE  LET r == creating(k, replaced)
         IN /\ r \in State /\ Resources(r, k) /\ Counters(r, k) /\ r.shown.status = "creating-session"
            /\ r.work.at = "creating" /\ r.work.generation = k.work.generation
            /\ r.work.index = k.work.index
<1> DEFINE restored == k.shown.sessionRestored
           index == k.work.index
           p == publish(k, "creating-session", index, replaced, "none", restored)
           work == [p.work EXCEPT !.at = "creating", !.sessionReplaced = replaced]
           r == creating(k, replaced)
<1>1. restored \in BOOLEAN /\ index \in 0..Retries BY DEF State, Status, Work
<1>2. r = [p EXCEPT !.work.at = "creating", !.work.sessionReplaced = replaced] BY DEF creating
<1> HIDE DEF restored, index, r
<1>3. p \in State /\ Resources(p, k) /\ Counters(p, k) /\ p.work = k.work /\ p.shown.status = "creating-session"
  <2>1. "creating-session" \in Statuses /\ "none" \in {"none", "retry-exhausted", "terminal"}
    BY DEF Statuses
  <2> QED BY <1>1, <2>1, Publishing
<1> HIDE DEF p
<1>4. work \in Work /\ work.at = "creating" /\ work.generation = k.work.generation
      /\ work.index = k.work.index
  BY <1>3 DEF State, Work
<1>5. r = [p EXCEPT !.work = work] BY <1>2, <1>3 DEF State, Work
<1> HIDE DEF work
<1>6. r \in State /\ Resources(r, p) /\ Counters(r, p) /\ r.work = work /\ r.shown = p.shown
  BY <1>3, <1>4, <1>5 DEF State, Resources, Counters
<1> QED BY <1>3, <1>4, <1>6 DEF Resources, Counters, r

\* An attached attempt that goes on to another request, or records its answer.
LEMMA Proceeding ==
  ASSUME NEW k, NEW r \in State, Core(k), Honest(k), Resources(r, k),
         r.disposed = k.disposed, r.generation = k.generation, r.loops = k.loops, r.leave = k.leave,
         r.transportAttempts = k.transportAttempts, r.watched = k.watched,
         k.disposed => r.credential = k.credential,
         k.work.at \in Attaching, r.work.at \in Attaching,
         r.work.generation = k.work.generation, r.work.index = k.work.index,
         r.shown.status = k.shown.status \/ (~k.disposed /\ r.shown.status = "creating-session")
  PROVE  Core(r) /\ Honest(r)
<1>1. k \in State /\ Counted(k) /\ Transports(k) /\ Clients(k) /\ Fenced(k) BY DEF Core
<1>2. Counted(r) BY <1>1 DEF Counted, AttemptsLeft, Attaching
<1>3. Transports(r) BY <1>1 DEF Transports, Resources, is_current, id, Opened, Attaching
<1>4. Clients(r) BY <1>1 DEF Clients, Resources, is_current, id, Attaching
<1>5. Fenced(r) BY <1>1 DEF Fenced, Resources, Attaching
<1>6. Honest(r) BY DEF Honest, Attaching
<1> QED BY <1>2, <1>3, <1>4, <1>5, <1>6 DEF Core

\* The retry timer fires in the loop that set it.
LEMMA Opening ==
  ASSUME NEW k, Core(k), Honest(k), k.work.at = "delay", is_current(k)
  PROVE  LET r == open(k) IN Core(r) /\ Honest(r) /\ r.leave = k.leave
<1> DEFINE s == [k EXCEPT !.work.at = "opening"]
           n == k.transportAttempts + 1
           r == open(k)
<1>1. k \in State /\ Counted(k) /\ Transports(k) /\ Clients(k) /\ Fenced(k) BY DEF Core
<1>2. /\ s \in State /\ Resources(s, k) /\ Counters(s, k) /\ s.shown = k.shown
      /\ s.work.at = "opening" /\ s.work.generation = k.work.generation /\ s.work.index = k.work.index
  BY <1>1, Staging
<1>3. n \in Nat /\ n = id(k) + 1 /\ id(k) \in Nat /\ \A t \in Ids : t \in Int /\ t # 0
  BY <1>1 DEF State, id, Ids
<1>4. r = [s EXCEPT !.transportAttempts = n] BY <1>1 DEF open, State
<1> HIDE DEF s, r, n
<1>5. /\ r \in State /\ Resources(r, s) /\ r.shown = s.shown /\ r.work = s.work
      /\ r.disposed = s.disposed /\ r.generation = s.generation /\ r.loops = s.loops /\ r.leave = s.leave
      /\ r.transportAttempts = n /\ r.watched = s.watched /\ r.credential = s.credential
  BY <1>2, <1>3, <1>4 DEF State, Resources
<1>6. /\ Resources(r, k) /\ r.shown = k.shown /\ r.disposed = k.disposed
      /\ r.generation = k.generation /\ r.loops = k.loops /\ r.leave = k.leave
      /\ r.watched = k.watched /\ r.credential = k.credential /\ id(r) = n
      /\ r.work.at = "opening" /\ r.work.generation = k.work.generation /\ r.work.index = k.work.index
  BY <1>2, <1>5 DEF Resources, Counters, id
<1>7. Counted(r)
  <2>1. k.loops * Retries \in Int BY <1>1, ConstantsAssumption DEF State
  <2>2. k.work.index \in Nat BY <1>1, ConstantsAssumption DEF State, Work
  <2>3. AttemptsLeft(k.work) = Retries - k.work.index + 1 BY DEF AttemptsLeft
  <2>4. AttemptsLeft(r.work) = Retries - k.work.index BY <1>1, <1>6 DEF AttemptsLeft, Counted
  <2> QED BY <1>1, <1>3, <1>5, <1>6, <2>1, <2>2, <2>3, <2>4, ConstantsAssumption DEF Counted, id
<1>8. n \in Ids BY <1>5, <1>6, <1>7, Range
<1>9. Transports(r)
  <2>1. \A t \in Ids : t > n => r.transport[t] = "none" BY <1>1, <1>3, <1>6 DEF Transports, Resources
  <2>2. r.transport[n] = "none" BY <1>1, <1>3, <1>6, <1>8 DEF Transports, Resources
  <2>3. r.activeTransport <= id(k) /\ r.openingTransport = 0 /\ r.activeTransport \in Nat
    BY <1>1, <1>6 DEF Transports, Resources, Opened, State
  <2> QED BY <1>1, <1>3, <1>6, <2>1, <2>2, <2>3 DEF Transports, Resources, Opened
<1>10. Clients(r)
  <2>1. \A t \in Ids : t > n => r.client[t] = "none" BY <1>1, <1>3, <1>6 DEF Clients, Resources
  <2>2. r.client[n] = "none" BY <1>1, <1>3, <1>6, <1>8 DEF Clients, Resources
  <2>3. r.activeClient <= id(k) /\ r.openingClient = 0 /\ r.activeClient \in Nat
    BY <1>1, <1>6 DEF Clients, Resources, Attaching, State
  <2> QED BY <1>1, <1>3, <1>6, <2>1, <2>2, <2>3 DEF Clients, Resources, Attaching
<1>11. Fenced(r) BY <1>1, <1>6 DEF Fenced, Resources
<1>12. Honest(r) BY <1>6 DEF Honest
<1> QED BY <1>5, <1>6, <1>7, <1>9, <1>10, <1>11, <1>12 DEF Core, r

\* The retry timer of a loop that is over finds itself cancelled.
LEMMA Stopping ==
  ASSUME NEW k, Core(k), Honest(k), k.work.at = "delay", ~is_current(k)
  PROVE  LET r == [k EXCEPT !.work = NoWork] IN Core(r) /\ Honest(r) /\ r.leave = k.leave
<1> DEFINE r == [k EXCEPT !.work = NoWork]
<1>1. k \in State /\ Counted(k) /\ Transports(k) /\ Clients(k) /\ Fenced(k) BY DEF Core
<1>2. NoWork \in Work /\ NoWork.at = "none" /\ NoWork.generation = 0 BY ConstantsAssumption DEF NoWork, Work
<1> HIDE DEF r
<1>3. r \in State /\ Resources(r, k) /\ Counters(r, k) /\ r.shown = k.shown /\ r.work = NoWork
  <2> HIDE DEF NoWork
  <2> QED BY <1>1, <1>2 DEF State, Resources, Counters, r
<1>4. r.work.at = "none" /\ r.work.generation = 0 BY <1>2, <1>3
<1>5. Counted(r)
  <2>1. k.loops * Retries \in Int BY <1>1, ConstantsAssumption DEF State
  <2>2. k.work.index \in 0..Retries BY <1>1 DEF State, Work
  <2>3. AttemptsLeft(k.work) = Retries - k.work.index + 1 BY DEF AttemptsLeft
  <2>4. AttemptsLeft(r.work) = 0 BY <1>4 DEF AttemptsLeft
  <2>5. k.transportAttempts \in Nat BY <1>1 DEF State
  <2> QED BY <1>1, <1>3, <1>4, <2>1, <2>2, <2>3, <2>4, <2>5, ConstantsAssumption DEF Counted, Counters
<1>6. Transports(r) BY <1>1, <1>3, <1>4 DEF Transports, Resources, Counters, id, Opened
<1>7. Clients(r) BY <1>1, <1>3, <1>4 DEF Clients, Resources, Counters, id, Attaching
<1>8. Fenced(r)
  <2>1. k.generation \in Nat BY <1>1 DEF State
  <2> QED BY <1>1, <1>3, <1>4, <2>1 DEF Fenced, Resources, Counters
<1>9. Honest(r) BY <1>3, <1>4 DEF Honest, Counters, is_current
<1> QED BY <1>3, <1>5, <1>6, <1>7, <1>8, <1>9 DEF Core, Counters, r

\* A transport opened: the attempt owns it, current or not.
LEMMA Ready ==
  ASSUME NEW k, Core(k), Honest(k), k.work.at = "opening"
  PROVE  LET r == [k EXCEPT !.transport[id(k)] = "open", !.openingTransport = id(k), !.work.at = "ready"]
         IN Core(r) /\ Honest(r) /\ r.leave = k.leave
<1> DEFINE i == id(k)
           s == [k EXCEPT !.work.at = "ready"]
           transport == [k.transport EXCEPT ![i] = "open"]
           r == [k EXCEPT !.transport[i] = "open", !.openingTransport = i, !.work.at = "ready"]
<1>1. k \in State /\ Counted(k) /\ Transports(k) /\ Clients(k) /\ Fenced(k) BY DEF Core
<1>2. i \in Ids /\ i \in Nat /\ i # 0 /\ id(k) = i /\ i = k.transportAttempts BY <1>1, Range DEF id
<1>3. /\ s \in State /\ Resources(s, k) /\ Counters(s, k) /\ s.shown = k.shown
      /\ s.work.at = "ready" /\ s.work.generation = k.work.generation /\ s.work.index = k.work.index
  BY <1>1, Staging
<1>4. r = [s EXCEPT !.transport = transport, !.openingTransport = i] BY <1>1 DEF State
<1>5. transport \in [Ids -> {"none", "open", "closed", "disposed"}]
      /\ \A t \in Ids : transport[t] = IF t = i THEN "open" ELSE k.transport[t]
  BY <1>1, <1>2 DEF State
<1> HIDE DEF i, s, transport, r
<1>6. /\ r \in State /\ Counters(r, s) /\ r.shown = s.shown /\ r.work = s.work
      /\ r.transport = transport /\ r.openingTransport = i /\ r.client = s.client
      /\ r.activeTransport = s.activeTransport /\ r.activeClient = s.activeClient
      /\ r.openingClient = s.openingClient
  BY <1>2, <1>3, <1>4, <1>5 DEF State, Counters
<1>7. /\ r.work.at = "ready" /\ r.work.generation = k.work.generation /\ r.work.index = k.work.index
      /\ Counters(r, k) /\ r.shown = k.shown /\ r.client = k.client /\ id(r) = i
      /\ r.activeTransport = k.activeTransport /\ r.activeClient = k.activeClient
      /\ r.openingClient = k.openingClient
      /\ \A t \in Ids : r.transport[t] = IF t = i THEN "open" ELSE k.transport[t]
  BY <1>2, <1>3, <1>5, <1>6 DEF Resources, Counters, id
<1>8. \A t \in Ids : t \in Int BY DEF Ids
<1>9. Counted(r) BY <1>1, <1>7 DEF Counted, Counters, AttemptsLeft
<1>10. Transports(r)
  <2>1. \A t \in Ids : t > id(r) => r.transport[t] = "none" BY <1>1, <1>2, <1>7, <1>8 DEF Transports
  <2> QED BY <1>1, <1>2, <1>6, <1>7, <2>1 DEF Transports, Opened
<1>11. Clients(r) BY <1>1, <1>2, <1>7 DEF Clients, Attaching, Counters
<1>12. Fenced(r) BY <1>1, <1>7 DEF Fenced, Counters
<1>13. Honest(r) BY <1>7 DEF Honest, Counters
<1> QED BY <1>6, <1>7, <1>9, <1>10, <1>11, <1>12, <1>13 DEF Core, Counters, r, i

\* The attempt makes its client in the place of the one that lost its transport,
\* and asks for the session.
LEMMA Attaches ==
  ASSUME NEW k, Core(k), Honest(k), k.work.at = "ready", is_current(k)
  PROVE  LET r == attach(k) IN Core(r) /\ Honest(r) /\ r.leave = k.leave
<1> DEFINE i == id(k)
           d == dispose_client(k, k.activeClient)
           client == [d.client EXCEPT ![i] = "live"]
           fresh == [d EXCEPT !.activeClient = 0, !.client[i] = "live", !.openingClient = i]
           no == FALSE
           restored == k.shown.sessionRestored
           index == k.work.index
           p == publish(fresh, "reattaching-session", index, no, "none", restored)
           s == [p EXCEPT !.work.at = "reattaching"]
           e == creating(fresh, no)
           r == attach(k)
<1>1. k \in State /\ Counted(k) /\ Transports(k) /\ Clients(k) /\ Fenced(k) BY DEF Core
<1>2. i \in Ids /\ i \in Nat /\ i # 0 /\ id(k) = i /\ i = k.transportAttempts BY <1>1, Range DEF id
<1>3. r = IF k.credential = 0 THEN e ELSE s BY DEF attach
<1> HIDE DEF i, r
<1>4. /\ d \in State /\ Counters(d, k) /\ d.work = k.work /\ d.shown = k.shown
      /\ d.transport = k.transport
      /\ d.activeTransport = k.activeTransport /\ d.activeClient = k.activeClient
      /\ d.openingTransport = k.openingTransport /\ d.openingClient = k.openingClient
      /\ \A t \in Ids : d.client[t] = IF t = k.activeClient THEN "disposed" ELSE k.client[t]
  BY <1>1, Owned, DisposingClient
<1> HIDE DEF d
<1>5. client \in [Ids -> {"none", "live", "disposed"}]
      /\ \A t \in Ids : client[t] = IF t = i THEN "live" ELSE d.client[t]
  BY <1>2, <1>4 DEF State
<1>6. fresh = [d EXCEPT !.activeClient = 0, !.client = client, !.openingClient = i] BY <1>4 DEF State
<1> HIDE DEF client, fresh
<1>7. /\ fresh \in State /\ Counters(fresh, d) /\ fresh.work = d.work /\ fresh.shown = d.shown
      /\ fresh.transport = d.transport /\ fresh.client = client
      /\ fresh.activeTransport = d.activeTransport /\ fresh.activeClient = 0
      /\ fresh.openingTransport = d.openingTransport /\ fresh.openingClient = i
  BY <1>2, <1>4, <1>5, <1>6 DEF State, Counters
<1>8. ~k.disposed /\ ~fresh.disposed BY <1>4, <1>7 DEF is_current, Counters
<1>9. /\ r \in State /\ Resources(r, fresh) /\ Counters(r, fresh)
      /\ r.work.at \in {"creating", "reattaching"} /\ r.work.generation = fresh.work.generation
      /\ r.work.index = fresh.work.index
      /\ r.shown.status \in {"creating-session", "reattaching-session"}
  <2>1. CASE k.credential = 0
    <3>1. no \in BOOLEAN OBVIOUS
    <3> HIDE DEF no
    <3> QED BY <1>3, <1>7, <1>8, <2>1, <3>1, Creating
  <2>2. CASE k.credential # 0
    <3>1. no \in BOOLEAN /\ restored \in BOOLEAN /\ index \in 0..Retries
      BY <1>1, <1>7 DEF State, Status, Work
    <3>2. "reattaching-session" \in Statuses /\ "none" \in {"none", "retry-exhausted", "terminal"}
      BY DEF Statuses
    <3> HIDE DEF no, restored, index
    <3>3. /\ p \in State /\ Resources(p, fresh) /\ Counters(p, fresh) /\ p.work = fresh.work
          /\ p.shown.status = "reattaching-session"
      BY <1>7, <1>8, <3>1, <3>2, Publishing
    <3> HIDE DEF p
    <3>4. /\ s \in State /\ Resources(s, p) /\ Counters(s, p) /\ s.shown = p.shown
          /\ s.work.at = "reattaching" /\ s.work.generation = p.work.generation
          /\ s.work.index = p.work.index
      BY <3>3, Staging
    <3> QED BY <1>3, <2>2, <3>3, <3>4 DEF Resources, Counters
  <2> QED BY <2>1, <2>2
<1>10. /\ r.work.generation = k.work.generation /\ r.work.index = k.work.index
       /\ Counters(r, k) /\ id(r) = i /\ r.transport = k.transport
       /\ r.activeTransport = k.activeTransport /\ r.openingTransport = k.openingTransport
       /\ r.activeClient = 0 /\ r.openingClient = i
  BY <1>2, <1>4, <1>7, <1>9 DEF Resources, Counters, id
<1>11. \A t \in Ids : r.client[t] =
         IF t = i THEN "live" ELSE IF t = k.activeClient THEN "disposed" ELSE k.client[t]
  BY <1>4, <1>5, <1>7, <1>9 DEF Resources
<1>12. \A t \in Ids : t \in Int /\ t # 0 BY DEF Ids
<1>13. Counted(r) BY <1>1, <1>9, <1>10 DEF Counted, Counters, AttemptsLeft
<1>14. Transports(r)
  BY <1>1, <1>2, <1>9, <1>10 DEF Transports, Opened, Counters, is_current
<1>15. Clients(r)
  <2>1. k.activeClient \in Nat /\ k.activeClient < i BY <1>1, <1>2 DEF Clients, State
  <2>2. \A t \in Ids : t > i => r.client[t] = "none"
    BY <1>1, <1>2, <1>11, <1>12, <2>1 DEF Clients
  <2>3. \A t \in Ids : r.client[t] = "live" => t = i
    BY <1>1, <1>2, <1>11, <1>12 DEF Clients, Attaching
  <2> QED BY <1>2, <1>8, <1>9, <1>10, <1>11, <2>2, <2>3 DEF Clients, Attaching, Counters
<1>16. Fenced(r) BY <1>1, <1>8, <1>10 DEF Fenced, Counters
<1>17. Honest(r) BY <1>9, <1>10 DEF Honest, Counters
<1> QED BY <1>9, <1>10, <1>13, <1>14, <1>15, <1>16, <1>17 DEF Core, Counters, r

\* The attempt that recovered the mirror over an open transport is installed,
\* and releases what was installed before.
LEMMA Installed ==
  ASSUME NEW k, Core(k), Honest(k), k.work.at = "recovering", is_current(k),
         k.transport[id(k)] # "closed"
  PROVE  LET r == install(k) IN Core(r) /\ Honest(r) /\ r.leave = k.leave
<1> DEFINE i == id(k)
           d == dispose_client(k, k.activeClient)
           e == dispose_transport(d, k.activeTransport)
           placed == [e EXCEPT !.activeClient = i, !.activeTransport = i, !.watched = TRUE,
                        !.openingClient = 0, !.openingTransport = 0, !.work = NoWork]
           index == k.work.index
           replaced == k.work.sessionReplaced
           restored == k.work.sessionRestored
           r == publish(placed, "connected", index, replaced, "none", restored)
<1>1. k \in State /\ Counted(k) /\ Transports(k) /\ Clients(k) /\ Fenced(k) BY DEF Core
<1>2. i \in Ids /\ i \in Nat /\ i # 0 /\ id(k) = i /\ i = k.transportAttempts BY <1>1, Range DEF id
<1>3. install(k) = r BY DEF install
<1>4. k.activeClient = 0 /\ k.activeTransport \in Nat /\ k.activeTransport < i /\ ~k.disposed
      /\ k.transport[i] = "open" /\ k.client[i] = "live" /\ k.openingClient \in {0, i}
  BY <1>1, <1>2 DEF Clients, Transports, State, is_current, Opened, Attaching
<1>5. index \in 0..Retries /\ replaced \in BOOLEAN /\ restored \in BOOLEAN BY <1>1 DEF State, Work
<1>6. d = k BY <1>4 DEF dispose_client
<1> HIDE DEF i, d, index, replaced, restored
<1>7. /\ e \in State /\ Counters(e, k) /\ e.work = k.work /\ e.shown = k.shown
      /\ e.client = k.client
      /\ \A t \in Ids : e.transport[t] = IF t = k.activeTransport THEN "disposed" ELSE k.transport[t]
  BY <1>1, <1>6, Owned, DisposingTransport
<1> HIDE DEF e
<1>8. NoWork \in Work /\ NoWork.at = "none" /\ NoWork.generation = 0
  BY ConstantsAssumption DEF NoWork, Work
<1>9. /\ placed \in State /\ placed.disposed = e.disposed /\ placed.generation = e.generation
      /\ placed.loops = e.loops /\ placed.leave = e.leave /\ placed.watched
      /\ placed.transportAttempts = e.transportAttempts /\ placed.work = NoWork
      /\ placed.shown = e.shown /\ placed.client = e.client /\ placed.transport = e.transport
      /\ placed.activeTransport = i /\ placed.activeClient = i
      /\ placed.openingTransport = 0 /\ placed.openingClient = 0
      /\ placed.credential = e.credential
  <2> HIDE DEF NoWork
  <2> QED BY <1>2, <1>7, <1>8 DEF State
<1> HIDE DEF placed
<1>10. /\ r \in State /\ Resources(r, placed) /\ Counters(r, placed) /\ r.work = placed.work
       /\ r.shown.status = "connected"
  <2>1. "connected" \in Statuses /\ "none" \in {"none", "retry-exhausted", "terminal"}
    BY DEF Statuses
  <2>2. ~placed.disposed BY <1>4, <1>7, <1>9 DEF Counters
  <2> QED BY <1>5, <1>9, <2>1, <2>2, Publishing
<1> HIDE DEF r
<1>11. /\ r.disposed = k.disposed /\ r.generation = k.generation /\ r.loops = k.loops
       /\ r.leave = k.leave /\ r.watched /\ r.transportAttempts = k.transportAttempts
       /\ r.work.at = "none" /\ r.work.generation = 0 /\ r.client = k.client /\ id(r) = i
       /\ r.activeTransport = i /\ r.activeClient = i
       /\ r.openingTransport = 0 /\ r.openingClient = 0
       /\ \A t \in Ids : r.transport[t] = IF t = k.activeTransport THEN "disposed" ELSE k.transport[t]
  <2>1. r.work.at = "none" /\ r.work.generation = 0 BY <1>8, <1>9, <1>10
  <2>2. r.watched BY <1>9, <1>10 DEF Counters
  <2>3. r.transport = e.transport /\ r.client = k.client /\ r.activeTransport = i /\ r.activeClient = i
        /\ r.openingTransport = 0 /\ r.openingClient = 0
    BY <1>7, <1>9, <1>10 DEF Resources
  <2>4. /\ r.disposed = k.disposed /\ r.generation = k.generation /\ r.loops = k.loops
        /\ r.leave = k.leave /\ r.transportAttempts = k.transportAttempts
    BY <1>7, <1>9, <1>10 DEF Counters
  <2> QED BY <1>2, <1>7, <2>1, <2>2, <2>3, <2>4 DEF id
<1>12. \A t \in Ids : t \in Int /\ t # 0 BY DEF Ids
<1>13. Counted(r)
  <2>1. k.loops * Retries \in Int BY <1>1, ConstantsAssumption DEF State
  <2>2. AttemptsLeft(r.work) = 0 BY <1>11 DEF AttemptsLeft
  <2>3. AttemptsLeft(k.work) \in Int /\ AttemptsLeft(k.work) >= 0
    BY <1>1, ConstantsAssumption DEF AttemptsLeft, State, Work
  <2> QED BY <1>1, <1>2, <1>11, <2>1, <2>2, <2>3 DEF Counted
<1>14. Transports(r)
  <2>1. \A t \in Ids : t > i => r.transport[t] = "none"
    BY <1>1, <1>2, <1>4, <1>11, <1>12 DEF Transports
  <2>2. \A t \in Ids : r.transport[t] \in {"open", "closed"} => t = i
    BY <1>1, <1>2, <1>11, <1>12 DEF Transports
  <2> QED BY <1>2, <1>11, <2>1, <2>2 DEF Transports, Opened
<1>15. Clients(r)
  <2>1. \A t \in Ids : r.client[t] = "live" => t = i
    BY <1>1, <1>2, <1>4, <1>11, <1>12 DEF Clients
  <2> QED BY <1>1, <1>2, <1>4, <1>11, <2>1 DEF Clients, Attaching
<1>16. Fenced(r)
  <2>1. r.transport[i] = "open" BY <1>2, <1>4, <1>11
  <2>2. k.generation \in Nat BY <1>1 DEF State
  <2>3. k.leave # "done" BY <1>1, <1>4 DEF Fenced
  <2> QED BY <1>2, <1>4, <1>10, <1>11, <2>1, <2>2, <2>3 DEF Fenced
<1>17. Honest(r) BY <1>10, <1>11 DEF Honest
<1> QED BY <1>3, <1>10, <1>11, <1>13, <1>14, <1>15, <1>16, <1>17 DEF Core

-----------------------------------------------------------------------------
(* Lost transports, and the loops that replace them.                       *)

\* A loop is begun only where none runs; a controller that just lost its
\* transport says already that it reconnects.
LEMMA EnsureReconnected ==
  ASSUME NEW k, Core(k), k.loops < MaxLoops,
         Honest(k) \/ (k.work.at = "none" /\ k.shown.status = "reconnecting")
  PROVE  LET r == ensure_reconnected(k) IN Core(r) /\ Honest(r) /\ r.leave = k.leave
<1> DEFINE g == k.generation + 1
           l == k.loops + 1
           b == [k EXCEPT !.generation = @ + 1, !.loops = @ + 1]
           restored == k.shown.sessionRestored
           failed == publish(b, "failed", 0, FALSE, "retry-exhausted", restored)
           next == next_attempt(b, 1, b.generation)
           r == ensure_reconnected(k)
<1>1. k \in State /\ Counted(k) /\ Transports(k) /\ Clients(k) /\ Fenced(k) BY DEF Core
<1>2. CASE \/ k.disposed \/ k.leave # "none" \/ k.work.at # "none"
           \/ k.shown.status \notin {"reconnecting", "failed"}
  <2>1. r = k BY <1>2 DEF ensure_reconnected
  <2>2. Honest(k) BY <1>2 DEF Honest
  <2> QED BY <2>1, <2>2
<1>3. CASE /\ ~k.disposed /\ k.leave = "none" /\ k.work.at = "none"
           /\ k.shown.status \in {"reconnecting", "failed"}
  <2>1. g \in Nat /\ l \in 0..MaxLoops /\ l = k.loops + 1 /\ g = k.generation + 1 /\ k.loops \in Nat
    BY <1>1, ConstantsAssumption DEF State
  <2>2. b = [k EXCEPT !.generation = g, !.loops = l] OBVIOUS
  <2>3. r = IF Retries = 0 THEN failed ELSE next BY <1>3 DEF ensure_reconnected
  <2> HIDE DEF b, g, l, r
  <2>4. /\ b \in State /\ Resources(b, k) /\ b.work = k.work /\ b.shown = k.shown
        /\ b.disposed = k.disposed /\ b.generation = g /\ b.loops = l /\ b.leave = k.leave
        /\ b.transportAttempts = k.transportAttempts /\ b.watched = k.watched
        /\ b.credential = k.credential
    BY <1>1, <2>1, <2>2 DEF State, Resources
  <2>5. ~k.watched BY <1>1, <1>3 DEF Fenced
  <2>6. k.loops * Retries \in Int /\ l * Retries = k.loops * Retries + Retries
    <3>1. \A x, y \in Nat : x * y \in Int /\ (x + 1) * y = x * y + y OBVIOUS
    <3> QED BY <2>1, <3>1, ConstantsAssumption
  <2>7. k.transportAttempts \in Nat /\ k.transportAttempts <= 1 + k.loops * Retries
    <3>1. AttemptsLeft(k.work) = 0 BY <1>3 DEF AttemptsLeft
    <3> QED BY <1>1, <2>6, <3>1 DEF Counted, State
  <2>8. Core(b)
    <3>1. Counted(b)
      <4>1. AttemptsLeft(b.work) = 0 BY <1>3, <2>4 DEF AttemptsLeft
      <4> QED BY <1>1, <1>3, <2>4, <2>6, <2>7, <4>1, ConstantsAssumption DEF Counted
    <3>2. Transports(b) BY <1>1, <1>3, <2>4 DEF Transports, Resources, id, Opened
    <3>3. Clients(b) BY <1>1, <1>3, <2>4 DEF Clients, Resources, id, Attaching
    <3>4. k.generation \in Nat /\ k.work.generation \in Nat BY <1>1 DEF State, Work
    <3>5. Fenced(b) BY <1>1, <2>1, <2>4, <2>5, <3>4 DEF Fenced, Resources
    <3> QED BY <2>4, <3>1, <3>2, <3>3, <3>5 DEF Core
  <2>9. CASE Retries = 0
    <3>1. restored \in BOOLEAN /\ 0 \in 0..Retries BY <1>1, ConstantsAssumption DEF State, Status
    <3> HIDE DEF restored
    <3>2. Core(failed) /\ Honest(failed) /\ failed.leave = b.leave
      BY <1>3, <2>4, <2>5, <2>8, <3>1, Failing
    <3> QED BY <2>3, <2>4, <2>9, <3>2 DEF r
  <2>10. CASE Retries # 0
    <3>1. 1 \in 1..Retries BY <2>10, ConstantsAssumption
    <3>2. b.transportAttempts + (Retries - 1 + 1) <= 1 + b.loops * Retries
      BY <2>4, <2>6, <2>7, ConstantsAssumption
    <3>3. b.generation \in Nat /\ b.generation <= b.generation BY <2>1, <2>4
    <3>4. b.work.at = "none" /\ ~b.watched BY <1>3, <2>4, <2>5
    <3>5. Core(next) /\ Honest(next) /\ next.leave = b.leave
      BY <2>1, <2>8, <3>1, <3>2, <3>3, <3>4, Retrying
    <3> QED BY <2>3, <2>4, <2>10, <3>5 DEF r
  <2> QED BY <2>9, <2>10
<1> QED BY <1>2, <1>3

\* An open transport closes: only the watched one begins a loop.
LEMMA Losing ==
  ASSUME NEW k, Core(k), Honest(k), NEW t \in Ids, k.transport[t] = "open"
  PROVE  LET r == [k EXCEPT !.transport[t] = "closed"]
         IN /\ r \in State /\ r.shown = k.shown /\ r.leave = k.leave /\ r.loops = k.loops
            /\ ~(k.watched /\ t = k.activeTransport) => Core(r) /\ Honest(r)
            /\ k.watched /\ t = k.activeTransport =>
                 LET u == [r EXCEPT !.watched = FALSE]
                 IN /\ Core(u) /\ u.shown = k.shown /\ u.leave = k.leave /\ u.loops = k.loops
                    /\ u.work.at = "none" /\ ~u.disposed
<1> DEFINE transport == [k.transport EXCEPT ![t] = "closed"]
           r == [k EXCEPT !.transport[t] = "closed"]
           u == [r EXCEPT !.watched = FALSE]
<1>1. k \in State /\ Counted(k) /\ Transports(k) /\ Clients(k) /\ Fenced(k) BY DEF Core
<1>2. r = [k EXCEPT !.transport = transport] BY <1>1 DEF State
<1>3. transport \in [Ids -> {"none", "open", "closed", "disposed"}]
      /\ \A x \in Ids : transport[x] = IF x = t THEN "closed" ELSE k.transport[x]
  BY <1>1 DEF State
<1> HIDE DEF transport, r
<1>4. /\ r \in State /\ Counters(r, k) /\ r.shown = k.shown /\ r.work = k.work
      /\ r.transport = transport /\ r.client = k.client
      /\ r.activeTransport = k.activeTransport /\ r.activeClient = k.activeClient
      /\ r.openingTransport = k.openingTransport /\ r.openingClient = k.openingClient
  BY <1>1, <1>2, <1>3 DEF State, Counters
<1>5. id(k) \in Ids BY <1>1, Range
<1>6. CASE ~(k.watched /\ t = k.activeTransport)
  <2>1. Counted(r) BY <1>1, <1>4 DEF Counted, Counters
  <2>2. Transports(r) BY <1>1, <1>3, <1>4, <1>5 DEF Transports, Counters, is_current, id, Opened
  <2>3. Clients(r) BY <1>1, <1>4 DEF Clients, Counters, is_current, id
  <2>4. Fenced(r) BY <1>1, <1>3, <1>4, <1>6 DEF Fenced, Counters
  <2>5. Honest(r) BY <1>4 DEF Honest, Counters
  <2> QED BY <1>4, <1>6, <2>1, <2>2, <2>3, <2>4, <2>5 DEF Core, Counters, r
<1>7. CASE k.watched /\ t = k.activeTransport
  <2>1. /\ u \in State /\ u.shown = k.shown /\ u.work = k.work /\ Resources(u, r) /\ ~u.watched
        /\ u.disposed = k.disposed /\ u.generation = k.generation /\ u.loops = k.loops
        /\ u.leave = k.leave /\ u.transportAttempts = k.transportAttempts
        /\ u.credential = k.credential
    BY <1>4 DEF State, Resources, Counters
  <2> HIDE DEF u
  <2>2. k.work.at = "none" /\ ~k.disposed BY <1>1, <1>7 DEF Fenced, Clients
  <2>3. /\ u.client = k.client /\ u.transport = transport
        /\ u.activeTransport = k.activeTransport /\ u.activeClient = k.activeClient
        /\ u.openingTransport = k.openingTransport /\ u.openingClient = k.openingClient
    BY <1>4, <2>1 DEF Resources
  <2>4. Counted(u) BY <1>1, <2>1 DEF Counted
  <2>5. Transports(u) BY <1>1, <1>3, <1>5, <2>1, <2>2, <2>3 DEF Transports, id, Opened
  <2>6. Clients(u) BY <1>1, <2>1, <2>2, <2>3 DEF Clients, id, Attaching
  <2>7. Fenced(u) BY <1>1, <2>1, <2>3 DEF Fenced
  <2>8. Core(u) BY <2>1, <2>4, <2>5, <2>6, <2>7 DEF Core
  <2> QED BY <1>4, <1>7, <2>1, <2>2, <2>8 DEF Counters, u, r
<1> QED BY <1>6, <1>7

-----------------------------------------------------------------------------
(* The actions.                                                            *)

LEMMA ClosedStep ==
  ASSUME ConnectionInv, NEW t \in Ids, Closed(t)
  PROVE  ConnectionInv' /\ c'.leave = c.leave
<1> DEFINE lost == [c EXCEPT !.transport[t] = "closed"]
           unwatched == [lost EXCEPT !.watched = FALSE]
           no == FALSE
           restored == c.shown.sessionRestored
           told == publish(unwatched, "reconnecting", 0, no, "none", restored)
           next == ensure_reconnected(told)
<1>1. Core(c) /\ Honest(c) /\ c.transport[t] = "open" /\ (c.watched => c.loops < MaxLoops)
  BY DEF ConnectionInv, Closed
<1>2. /\ lost \in State /\ lost.shown = c.shown /\ lost.leave = c.leave /\ lost.loops = c.loops
      /\ ~(c.watched /\ t = c.activeTransport) => Core(lost) /\ Honest(lost)
      /\ c.watched /\ t = c.activeTransport =>
           /\ Core(unwatched) /\ unwatched.shown = c.shown /\ unwatched.leave = c.leave
           /\ unwatched.loops = c.loops /\ unwatched.work.at = "none" /\ ~unwatched.disposed
  BY <1>1, Losing
<1>3. c' = IF c.watched /\ t = c.activeTransport THEN next ELSE lost BY DEF Closed
<1>4. restored \in BOOLEAN /\ no \in BOOLEAN BY <1>1 DEF Core, State, Status
<1> HIDE DEF lost, unwatched, restored, no
<1>5. CASE ~(c.watched /\ t = c.activeTransport)
  <2>1. c' = lost BY <1>3, <1>5
  <2>2. Core(c') /\ Honest(c') /\ c'.leave = c.leave BY <1>2, <1>5, <2>1
  <2> QED BY <2>2 DEF ConnectionInv
<1>6. CASE c.watched /\ t = c.activeTransport
  <2> DEFINE u == unwatched
  <2>1. u \in State /\ Counted(u) /\ Transports(u) /\ Clients(u) /\ Fenced(u)
    BY <1>2, <1>6 DEF Core
  <2>2. "reconnecting" \in Statuses /\ "none" \in {"none", "retry-exhausted", "terminal"} BY DEF Statuses
  <2> HIDE DEF u
  <2>3. /\ told \in State /\ Resources(told, u) /\ Counters(told, u) /\ told.work = u.work
        /\ told.shown.status = "reconnecting"
    <3>1. 0 \in 0..Retries BY ConstantsAssumption
    <3> QED BY <1>2, <1>4, <1>6, <2>1, <2>2, <3>1, Publishing DEF u
  <2> HIDE DEF told
  <2>4. Core(told)
    <3>1. Counted(told) BY <2>1, <2>3 DEF Counted, Counters
    <3>2. Transports(told) BY <2>1, <2>3 DEF Transports, Resources, Counters, is_current, id
    <3>3. Clients(told) BY <2>1, <2>3 DEF Clients, Resources, Counters, is_current, id
    <3>4. ~u.watched /\ ~u.disposed
      <4>1. ~u.disposed BY <1>2, <1>6 DEF u
      <4>2. ~u.watched BY <1>2 DEF u, unwatched, State
      <4> QED BY <4>1, <4>2
    <3>5. Fenced(told) BY <2>1, <2>3, <3>4 DEF Fenced, Counters
    <3> QED BY <2>3, <3>1, <3>2, <3>3, <3>5 DEF Core
  <2>5. told.loops < MaxLoops /\ told.work.at = "none" /\ told.leave = c.leave
    BY <1>1, <1>2, <1>6, <2>3 DEF Counters, u
  <2>6. Core(next) /\ Honest(next) /\ next.leave = c.leave
    BY <2>3, <2>4, <2>5, EnsureReconnected
  <2> HIDE DEF next
  <2>7. c' = next BY <1>3, <1>6
  <2>8. Core(c') /\ Honest(c') /\ c'.leave = c.leave BY <2>6, <2>7
  <2> QED BY <2>8 DEF ConnectionInv
<1> QED BY <1>5, <1>6

LEMMA AnswersStep ==
  ASSUME ConnectionInv, Answers
  PROVE  ConnectionInv' /\ c'.leave = c.leave
<1>1. Core(c) /\ Honest(c) BY DEF ConnectionInv
<1>2. c \in State /\ Counted(c) /\ Transports(c) /\ Clients(c) /\ Fenced(c) BY <1>1 DEF Core
<1>3. SUFFICES Core(c') /\ Honest(c') /\ c'.leave = c.leave BY DEF ConnectionInv
<1>4. CASE DelayOver
  <2> DEFINE next == open(c)
             stopped == [c EXCEPT !.work = NoWork]
  <2>1. c.work.at = "delay" /\ c' = IF is_current(c) THEN next ELSE stopped
    BY <1>4 DEF DelayOver, waits
  <2>2. is_current(c) => Core(next) /\ Honest(next) /\ next.leave = c.leave BY <1>1, <2>1, Opening
  <2>3. ~is_current(c) => Core(stopped) /\ Honest(stopped) /\ stopped.leave = c.leave
    BY <1>1, <2>1, Stopping
  <2> HIDE DEF next, stopped
  <2> QED BY <2>1, <2>2, <2>3
<1>5. CASE TransportOpened
  <2> DEFINE next == [c EXCEPT !.transport[id(c)] = "open", !.openingTransport = id(c), !.work.at = "ready"]
  <2>1. c.work.at = "opening" /\ c' = next BY <1>5 DEF TransportOpened, waits
  <2>2. Core(next) /\ Honest(next) /\ next.leave = c.leave BY <1>1, <2>1, Ready
  <2> HIDE DEF next
  <2> QED BY <2>1, <2>2
<1>6. CASE TransportReady
  <2> DEFINE cancelled == abandon(c, "cancelled")
             closed == abandon(c, "transport")
             next == attach(c)
  <2>1. c.work.at = "ready" BY <1>6 DEF TransportReady, waits
  <2>2. c' = IF ~is_current(c) THEN cancelled ELSE IF c.transport[id(c)] = "closed" THEN closed ELSE next
    BY <1>6 DEF TransportReady
  <2>3. ~is_current(c) => Core(cancelled) /\ Honest(cancelled) /\ cancelled.leave = c.leave
    BY <1>1, <2>1, Abandoned DEF Opened
  <2>4. Core(closed) /\ Honest(closed) /\ closed.leave = c.leave BY <1>1, <2>1, Abandoned DEF Opened
  <2>5. is_current(c) => Core(next) /\ Honest(next) /\ next.leave = c.leave BY <1>1, <2>1, Attaches
  <2> HIDE DEF cancelled, closed, next
  <2> QED BY <2>2, <2>3, <2>4, <2>5
<1>7. CASE SessionCreated
  <2> DEFINE cancelled == abandon(c, "cancelled")
             s == [c EXCEPT !.work.at = "recovering"]
             n == c.issued + 1
             next == [store_credential(c, n) EXCEPT !.issued = @ + 1, !.work.at = "recovering"]
  <2>1. c.work.at = "creating" BY <1>7 DEF SessionCreated, waits
  <2>2. c' = IF ~is_current(c) THEN cancelled ELSE next BY <1>7 DEF SessionCreated
  <2>3. ~is_current(c) => Core(cancelled) /\ Honest(cancelled) /\ cancelled.leave = c.leave
    BY <1>1, <2>1, Abandoned DEF Opened
  <2>4. /\ s \in State /\ Resources(s, c) /\ Counters(s, c) /\ s.shown = c.shown
        /\ s.work.at = "recovering" /\ s.work.generation = c.work.generation /\ s.work.index = c.work.index
    BY <1>2, Staging
  <2>5. next = [s EXCEPT !.credential = n, !.issued = n] BY <1>2 DEF store_credential, State
  <2>6. n \in Nat BY <1>2 DEF State
  <2> HIDE DEF s, next, cancelled, n
  <2>7. /\ next \in State /\ Resources(next, s) /\ next.shown = s.shown /\ next.work = s.work
        /\ next.disposed = s.disposed /\ next.generation = s.generation /\ next.loops = s.loops
        /\ next.leave = s.leave /\ next.transportAttempts = s.transportAttempts
        /\ next.watched = s.watched
    BY <2>4, <2>5, <2>6 DEF State, Resources
  <2>8. is_current(c) => Core(next) /\ Honest(next) /\ next.leave = c.leave
    <3>1. Resources(next, c) BY <2>4, <2>7 DEF Resources
    <3>2. SUFFICES ASSUME ~c.disposed PROVE Core(next) /\ Honest(next) /\ next.leave = c.leave
      BY DEF is_current
    <3> QED BY <1>1, <2>1, <2>4, <2>7, <3>1, <3>2, Proceeding DEF Counters, Attaching
  <2> QED BY <2>2, <2>3, <2>8
<1>8. CASE SessionReattached
  <2> DEFINE work == [c.work EXCEPT !.sessionRestored = TRUE, !.at = "recovering"]
             next == [c EXCEPT !.work.sessionRestored = TRUE, !.work.at = "recovering"]
  <2>1. c.work.at = "reattaching" /\ c' = next BY <1>8 DEF SessionReattached, waits
  <2>2. work \in Work /\ work.at = "recovering" /\ work.generation = c.work.generation
        /\ work.index = c.work.index
    BY <1>2 DEF State, Work
  <2>3. next = [c EXCEPT !.work = work] BY <1>2 DEF State, Work
  <2> HIDE DEF work, next
  <2>4. next \in State /\ Resources(next, c) /\ Counters(next, c) /\ next.shown = c.shown /\ next.work = work
    BY <1>2, <2>2, <2>3 DEF State, Resources, Counters
  <2>5. Core(next) /\ Honest(next)
    BY <1>1, <2>1, <2>2, <2>4, Proceeding DEF Counters, Attaching
  <2> QED BY <2>1, <2>4, <2>5 DEF Counters
<1>9. CASE CredentialRejected
  <2> DEFINE cancelled == abandon(c, "cancelled")
             s == store_credential(c, 0)
             yes == TRUE
             next == creating(s, yes)
  <2>1. c.work.at = "reattaching" BY <1>9 DEF CredentialRejected, waits
  <2>2. c' = IF ~is_current(c) THEN cancelled ELSE next BY <1>9 DEF CredentialRejected
  <2>3. ~is_current(c) => Core(cancelled) /\ Honest(cancelled) /\ cancelled.leave = c.leave
    BY <1>1, <2>1, Abandoned DEF Opened
  <2>4. /\ s \in State /\ Resources(s, c) /\ s.shown = c.shown /\ s.work = c.work
        /\ s.disposed = c.disposed /\ s.generation = c.generation /\ s.loops = c.loops
        /\ s.leave = c.leave /\ s.transportAttempts = c.transportAttempts /\ s.watched = c.watched
    BY <1>2 DEF store_credential, State, Resources
  <2>5. yes \in BOOLEAN OBVIOUS
  <2> HIDE DEF cancelled, s, yes
  <2>6. ~c.disposed =>
          /\ next \in State /\ Resources(next, s) /\ Counters(next, s)
          /\ next.shown.status = "creating-session"
          /\ next.work.at = "creating" /\ next.work.generation = s.work.generation
          /\ next.work.index = s.work.index
    BY <2>4, <2>5, Creating
  <2> HIDE DEF next
  <2>7. is_current(c) => Core(next) /\ Honest(next) /\ next.leave = c.leave
    <3>1. SUFFICES ASSUME ~c.disposed PROVE Core(next) /\ Honest(next) /\ next.leave = c.leave
      BY DEF is_current
    <3>2. Resources(next, c) BY <2>4, <2>6, <3>1 DEF Resources
    <3> QED BY <1>1, <2>1, <2>4, <2>6, <3>1, <3>2, Proceeding DEF Counters, Attaching
  <2> QED BY <2>2, <2>3, <2>7
<1>10. CASE Recovered
  <2> DEFINE cancelled == abandon(c, "cancelled")
             closed == abandon(c, "transport")
             next == install(c)
  <2>1. c.work.at = "recovering" BY <1>10 DEF Recovered, waits
  <2>2. c' = IF ~is_current(c) THEN cancelled ELSE IF c.transport[id(c)] = "closed" THEN closed ELSE next
    BY <1>10 DEF Recovered
  <2>3. ~is_current(c) => Core(cancelled) /\ Honest(cancelled) /\ cancelled.leave = c.leave
    BY <1>1, <2>1, Abandoned DEF Opened
  <2>4. Core(closed) /\ Honest(closed) /\ closed.leave = c.leave BY <1>1, <2>1, Abandoned DEF Opened
  <2>5. is_current(c) /\ c.transport[id(c)] # "closed" =>
          Core(next) /\ Honest(next) /\ next.leave = c.leave
    BY <1>1, <2>1, Installed
  <2> HIDE DEF cancelled, closed, next
  <2> QED BY <2>2, <2>3, <2>4, <2>5
<1>11. CASE \E error \in {"transport", "terminal"} : Rejected(error)
  <2>1. PICK error \in {"transport", "terminal"} : Rejected(error) BY <1>11
  <2> DEFINE e == IF c.work.at = "reattaching" /\ ~is_current(c) THEN "cancelled" ELSE error
             next == abandon(c, e)
  <2>2. c' = next /\ c.work.at \in {"opening"} \union Opened BY <2>1 DEF Rejected, waits, Opened
  <2>3. e \in {"cancelled", "transport", "terminal"} /\ (e = "cancelled" => ~is_current(c)) BY <2>1
  <2> HIDE DEF e
  <2>4. Core(next) /\ Honest(next) /\ next.leave = c.leave BY <1>1, <2>2, <2>3, Abandoned
  <2> HIDE DEF next
  <2> QED BY <2>2, <2>4
<1> QED BY <1>4, <1>5, <1>6, <1>7, <1>8, <1>9, <1>10, <1>11 DEF Answers

LEMMA ReconnectStep ==
  ASSUME ConnectionInv, reconnect
  PROVE  ConnectionInv' /\ c'.leave = c.leave
<1> DEFINE next == ensure_reconnected(c)
<1>1. Core(c) /\ Honest(c) /\ c.loops < MaxLoops /\ c' = next BY DEF ConnectionInv, reconnect
<1>2. Core(next) /\ Honest(next) /\ next.leave = c.leave BY <1>1, EnsureReconnected
<1> HIDE DEF next
<1>3. Core(c') /\ Honest(c') /\ c'.leave = c.leave BY <1>1, <1>2
<1> QED BY <1>3 DEF ConnectionInv

LEMMA DisposeStep ==
  ASSUME ConnectionInv, dispose
  PROVE  ConnectionInv'
<1> DEFINE next == dispose_all(c)
<1>1. Core(c) /\ c' = next BY DEF ConnectionInv, dispose
<1>2. Core(next) /\ next.disposed BY <1>1, Released
<1> HIDE DEF next
<1>3. Core(c') /\ Honest(c') BY <1>1, <1>2 DEF Honest
<1> QED BY <1>3 DEF ConnectionInv

\* A departure begins, and shuts out what the attempts still answer.
LEMMA LeaveStep ==
  ASSUME ConnectionInv, leave_room
  PROVE  ConnectionInv' /\ c'.leave # "none"
<1> DEFINE leaving == [c EXCEPT !.leave = "leaving"]
           gone == cancel_reconnect_work(leaving)
           goodbye == [gone EXCEPT !.leave = "goodbye"]
           forgotten == forget(gone)
<1>1. Core(c) /\ c' \in {gone, goodbye, forgotten} BY DEF ConnectionInv, leave_room
<1>2. Core(leaving) /\ leaving.leave = "leaving" BY <1>1, Departing
<1> HIDE DEF leaving
<1>3. Core(gone) /\ gone.leave = "leaving" BY <1>2, Overtaken
<1> HIDE DEF gone
<1>4. Core(goodbye) /\ goodbye.leave = "goodbye" BY <1>3, Departing
<1>5. Core(forgotten) /\ forgotten.leave = "done" BY <1>3, Forgotten
<1> HIDE DEF goodbye, forgotten
<1>6. Core(c') /\ c'.leave # "none" BY <1>1, <1>3, <1>4, <1>5
<1>7. Honest(c') BY <1>6 DEF Honest
<1> QED BY <1>6, <1>7 DEF ConnectionInv

LEMMA DepartureStep ==
  ASSUME ConnectionInv, Departure
  PROVE  ConnectionInv' /\ c.leave # "none" /\ c'.leave # "none"
<1> DEFINE goodbye == [c EXCEPT !.leave = "goodbye"]
           forgotten == forget(c)
<1>1. Core(c) /\ c' \in {goodbye, forgotten} /\ c.leave # "none"
  BY DEF ConnectionInv, Departure, LeaveEnded, GoodbyeEnded
<1>2. Core(goodbye) /\ goodbye.leave = "goodbye" BY <1>1, Departing
<1>3. Core(forgotten) /\ forgotten.leave = "done" BY <1>1, Forgotten
<1> HIDE DEF goodbye, forgotten
<1>4. Core(c') /\ c'.leave # "none" BY <1>1, <1>2, <1>3
<1>5. Honest(c') BY <1>4 DEF Honest
<1> QED BY <1>1, <1>4, <1>5 DEF ConnectionInv

LEMMA Initial ==
  ASSUME Init
  PROVE  ConnectionInv /\ c.leave = "none" /\ c.shown.status = "connecting"
<1>1. PICK stored \in {0, 1} :
        c = open([shown |-> [status |-> "connecting", attempt |-> 0, sessionReplaced |-> FALSE,
                       sessionRestored |-> FALSE, failureKind |-> "none"],
            disposed |-> FALSE, generation |-> 1, loops |-> 0, leave |-> "none",
            work |-> [NoWork EXCEPT !.generation = 1],
            transportAttempts |-> 0,
            transport |-> [t \in Ids |-> "none"], client |-> [t \in Ids |-> "none"],
            activeTransport |-> 0, activeClient |-> 0, watched |-> FALSE,
            openingTransport |-> 0, openingClient |-> 0,
            credential |-> stored, issued |-> stored])
  BY DEF Init
<1> DEFINE work == [NoWork EXCEPT !.generation = 1]
           shown == [status |-> "connecting", attempt |-> 0, sessionReplaced |-> FALSE,
                     sessionRestored |-> FALSE, failureKind |-> "none"]
           none == [t \in Ids |-> "none"]
           k == [shown |-> shown, disposed |-> FALSE, generation |-> 1, loops |-> 0, leave |-> "none",
                 work |-> work, transportAttempts |-> 0, transport |-> none, client |-> none,
                 activeTransport |-> 0, activeClient |-> 0, watched |-> FALSE,
                 openingTransport |-> 0, openingClient |-> 0,
                 credential |-> stored, issued |-> stored]
           s == [k EXCEPT !.work.at = "opening"]
<1>2. c = open(k) BY <1>1
<1>3. work \in Work /\ work.index = 0 /\ work.generation = 1
  <2>1. NoWork \in Work /\ NoWork.index = 0 BY ConstantsAssumption DEF NoWork, Work
  <2> HIDE DEF NoWork
  <2> QED BY <2>1 DEF Work
<1>4. shown \in Status /\ shown.status = "connecting" BY ConstantsAssumption DEF Status, Statuses
<1>5. none \in [Ids -> {"none", "open", "closed", "disposed"}] /\ none \in [Ids -> {"none", "live", "disposed"}]
      /\ \A t \in Ids : none[t] = "none"
  OBVIOUS
<1> HIDE DEF work, shown, none
<1>6. k \in State BY <1>3, <1>4, <1>5, ConstantsAssumption DEF State
<1>7. /\ k.shown = shown /\ ~k.disposed /\ k.generation = 1 /\ k.loops = 0 /\ k.leave = "none"
      /\ k.work = work /\ k.transport = none /\ k.client = none /\ k.transportAttempts = 0
      /\ k.activeTransport = 0 /\ k.activeClient = 0 /\ ~k.watched
      /\ k.openingTransport = 0 /\ k.openingClient = 0
  OBVIOUS
<1> HIDE DEF k
<1>8. /\ s \in State /\ Resources(s, k) /\ Counters(s, k) /\ s.shown = k.shown
      /\ s.work.at = "opening" /\ s.work.generation = k.work.generation /\ s.work.index = k.work.index
  BY <1>6, Staging
<1> DEFINE n == k.transportAttempts + 1
<1>9. c = [s EXCEPT !.transportAttempts = n] BY <1>2, <1>6 DEF open, State
<1>n. n = 1 BY <1>7
<1> HIDE DEF s, n
<1>10. /\ c \in State /\ Resources(c, s) /\ c.shown = s.shown /\ c.work = s.work
       /\ c.disposed = s.disposed /\ c.generation = s.generation /\ c.loops = s.loops
       /\ c.leave = s.leave /\ c.transportAttempts = 1 /\ c.watched = s.watched
  BY <1>8, <1>9, <1>n DEF State, Resources
<1>11. /\ c.transport = none /\ c.client = none /\ c.activeTransport = 0 /\ c.activeClient = 0
       /\ c.openingTransport = 0 /\ c.openingClient = 0
  BY <1>7, <1>8, <1>10 DEF Resources
<1>12. /\ c.shown.status = "connecting" /\ ~c.disposed /\ c.generation = 1 /\ c.loops = 0
       /\ c.leave = "none" /\ ~c.watched /\ c.work.at = "opening" /\ c.work.generation = 1
       /\ c.work.index = 0
  BY <1>3, <1>4, <1>7, <1>8, <1>10 DEF Counters
<1>13. Counted(c) BY <1>10, <1>12, ConstantsAssumption DEF Counted, AttemptsLeft
<1>14. id(c) = 1 /\ id(c) \in Ids BY <1>10, <1>13, Range DEF id
<1>15. Transports(c) BY <1>5, <1>11, <1>12, <1>14 DEF Transports, Opened
<1>16. Clients(c) BY <1>5, <1>11, <1>12, <1>14 DEF Clients, Attaching
<1>17. Fenced(c) /\ Honest(c) BY <1>12 DEF Fenced, Honest
<1> QED BY <1>10, <1>12, <1>13, <1>15, <1>16, <1>17 DEF ConnectionInv, Core

LEMMA ConnectionStep ==
  ASSUME ConnectionInv, [Next]_vars
  PROVE  ConnectionInv'
<1>1. CASE Answers BY <1>1, AnswersStep
<1>2. CASE Departure BY <1>2, DepartureStep
<1>3. CASE \E t \in Ids : Closed(t) BY <1>3, ClosedStep
<1>4. CASE reconnect BY <1>4, ReconnectStep
<1>5. CASE leave_room BY <1>5, LeaveStep
<1>6. CASE dispose BY <1>6, DisposeStep
<1>7. CASE UNCHANGED vars
  <2>1. c' = c BY <1>7 DEF vars
  <2>2. Core(c') /\ Honest(c') BY <2>1 DEF ConnectionInv
  <2> QED BY <2>2 DEF ConnectionInv
<1> QED BY <1>1, <1>2, <1>3, <1>4, <1>5, <1>6, <1>7 DEF Next

LEMMA ConnectionSound ==
  ASSUME ConnectionInv
  PROVE  OwnedOrForgotten /\ StatusTruthful
<1>1. c \in State /\ Counted(c) /\ Transports(c) /\ Clients(c) /\ Fenced(c) /\ Honest(c)
  BY DEF ConnectionInv, Core
<1>2. OneClient
  <2>1. \A s, t \in Ids : c.client[s] = "live" /\ c.client[t] = "live" => s = t
    BY <1>1 DEF Clients, Ids
  <2>2. c.activeClient # 0 => c.client[c.activeClient] = "live" BY <1>1 DEF Clients
  <2>3. \A t \in Ids :
          /\ c.transport[t] \in {"open", "closed"} =>
               t = c.activeTransport \/ (c.work.at # "none" /\ t = id(c))
          /\ c.client[t] = "live" => t = c.activeClient \/ (c.work.at # "none" /\ t = id(c))
    BY <1>1 DEF Transports, Clients, Opened, Attaching
  <2>4. c.disposed => \A t \in Ids : c.client[t] # "live" BY <1>1 DEF Clients, Ids
  <2> QED BY <2>1, <2>2, <2>3, <2>4 DEF OneClient
<1>3. LeftForGood BY <1>1 DEF LeftForGood, Fenced
<1>4. StatusTruthful BY <1>1 DEF StatusTruthful, Honest, Fenced, is_current
<1> QED BY <1>2, <1>3, <1>4 DEF OwnedOrForgotten

-----------------------------------------------------------------------------
(* The credential that is stored was issued: only the answers to a request *)
(* for a session and to a departure touch it.                              *)

Booked(k) == {"credential", "issued"} \subseteq DOMAIN k
Carries(r, k) == DOMAIN r = DOMAIN k /\ r.credential = k.credential /\ r.issued = k.issued

LEMMA CarriesOn ==
  ASSUME NEW k, NEW r, NEW e, Booked(k), Carries(r, k), Booked(r) => Carries(e, r)
  PROVE  Carries(e, k) /\ Booked(r)
BY DEF Carries, Booked

LEMMA PublishCarries ==
  ASSUME NEW k, Booked(k), NEW status, NEW attempt, NEW sessionReplaced, NEW failureKind, NEW sessionRestored
  PROVE  Carries(publish(k, status, attempt, sessionReplaced, failureKind, sessionRestored), k)
<1> DEFINE told == [status |-> status, attempt |-> attempt, sessionReplaced |-> sessionReplaced,
                    sessionRestored |-> sessionRestored, failureKind |-> failureKind]
           r == publish(k, status, attempt, sessionReplaced, failureKind, sessionRestored)
<1>1. r = k \/ r = [k EXCEPT !.shown = told] BY DEF publish
<1> HIDE DEF told, r
<1>2. Carries(r, k) BY <1>1 DEF Carries, Booked
<1> QED BY <1>2 DEF r

LEMMA DisposeCarries ==
  ASSUME NEW k, Booked(k), NEW t
  PROVE  Carries(dispose_client(k, t), k) /\ Carries(dispose_transport(k, t), k)
BY DEF dispose_client, dispose_transport, Carries, Booked

LEMMA CancelCarries ==
  ASSUME NEW k, Booked(k)
  PROVE  Carries(cancel_reconnect_work(k), k)
<1> DEFINE a == dispose_client(k, k.openingClient)
           b == dispose_transport(a, k.openingTransport)
           r == [b EXCEPT !.generation = @ + 1, !.watched = FALSE, !.openingClient = 0, !.openingTransport = 0]
<1>1. Carries(a, k) BY DisposeCarries
<1>2. Booked(a) BY <1>1 DEF Carries, Booked
<1>3. Carries(b, a) BY <1>2, DisposeCarries
<1>4. cancel_reconnect_work(k) = r BY DEF cancel_reconnect_work
<1> HIDE DEF a, b
<1>5. Carries(r, b) /\ Booked(b) BY <1>2, <1>3 DEF Carries, Booked
<1> QED BY <1>1, <1>3, <1>4, <1>5 DEF Carries

LEMMA DisposalCarries ==
  ASSUME NEW k, Booked(k)
  PROVE  Carries(dispose_all(k), k)
<1> DEFINE ended == [k EXCEPT !.disposed = TRUE]
           cancelled == cancel_reconnect_work(ended)
           client == dispose_client(cancelled, cancelled.activeClient)
           released == dispose_transport(client, cancelled.activeTransport)
           gone == [released EXCEPT !.activeClient = 0, !.activeTransport = 0]
           told == publish(gone, "disposed", k.shown.attempt, k.shown.sessionReplaced, "none",
                           k.shown.sessionRestored)
<1>1. dispose_all(k) = IF k.disposed THEN k ELSE told BY DEF dispose_all
<1>2. Carries(ended, k) /\ Booked(ended) BY DEF Carries, Booked
<1> HIDE DEF ended
<1>3. Carries(cancelled, ended) BY <1>2, CancelCarries
<1>4. Booked(cancelled) BY <1>2, <1>3 DEF Carries, Booked
<1> HIDE DEF cancelled
<1>5. Carries(client, cancelled) BY <1>4, DisposeCarries
<1>6. Booked(client) BY <1>4, <1>5 DEF Carries, Booked
<1> HIDE DEF client
<1>7. Carries(released, client) BY <1>6, DisposeCarries
<1>8. Booked(released) BY <1>6, <1>7 DEF Carries, Booked
<1> HIDE DEF released
<1>9. Carries(gone, released) /\ Booked(gone) BY <1>8 DEF Carries, Booked
<1> HIDE DEF gone
<1>10. Carries(told, gone) BY <1>9, PublishCarries
<1> HIDE DEF told
<1> QED BY <1>1, <1>2, <1>3, <1>5, <1>7, <1>9, <1>10 DEF Carries

LEMMA NextCarries ==
  ASSUME NEW k, Booked(k), NEW index, NEW generation
  PROVE  Carries(next_attempt(k, index, generation), k)
<1> DEFINE told == publish(k, "reconnecting", index, FALSE, "none", k.shown.sessionRestored)
           work == [NoWork EXCEPT !.at = "delay", !.generation = generation, !.index = index]
<1>1. Carries(told, k) BY PublishCarries
<1>2. next_attempt(k, index, generation) = [told EXCEPT !.work = work] BY DEF next_attempt
<1> HIDE DEF told, work
<1> QED BY <1>1, <1>2 DEF Carries, Booked

LEMMA ReconnectCarries ==
  ASSUME NEW k, Booked(k)
  PROVE  Carries(ensure_reconnected(k), k)
<1> DEFINE begun == [k EXCEPT !.generation = @ + 1, !.loops = @ + 1]
           failed == publish(begun, "failed", 0, FALSE, "retry-exhausted", k.shown.sessionRestored)
           next == next_attempt(begun, 1, begun.generation)
<1>1. ensure_reconnected(k) \in {k, failed, next} BY DEF ensure_reconnected
<1>2. Carries(begun, k) /\ Booked(begun) /\ Carries(k, k) BY DEF Carries, Booked
<1> HIDE DEF begun
<1>3. Carries(failed, begun) /\ Carries(next, begun) BY <1>2, PublishCarries, NextCarries
<1> HIDE DEF failed, next
<1> QED BY <1>1, <1>2, <1>3 DEF Carries

LEMMA AbandonCarries ==
  ASSUME NEW k, Booked(k), NEW error
  PROVE  Carries(abandon(k, error), k)
<1> DEFINE t == IF k.transport[id(k)] = "none" THEN k ELSE dispose_transport(k, id(k))
           released == IF k.client[id(k)] = "none" THEN t ELSE dispose_client(t, id(k))
           undone == [released EXCEPT !.openingClient = IF @ = id(k) THEN 0 ELSE @,
                                      !.openingTransport = IF @ = id(k) THEN 0 ELSE @,
                                      !.work = NoWork]
           failed(kind) == publish(undone, "failed", k.work.index, FALSE, kind, k.shown.sessionRestored)
           next == next_attempt(undone, k.work.index + 1, k.work.generation)
<1>1. abandon(k, error) \in {undone, failed("terminal"), next, failed("retry-exhausted")} BY DEF abandon
<1>2. Carries(k, k) BY DEF Carries
<1>3. Carries(t, k) BY <1>2, DisposeCarries
<1>4. Booked(t) BY <1>3 DEF Carries, Booked
<1> HIDE DEF t
<1>5. Carries(released, k)
  <2>1. Carries(dispose_client(t, id(k)), t) BY <1>4, DisposeCarries
  <2> QED BY <1>3, <2>1 DEF Carries
<1>6. Booked(released) BY <1>5 DEF Carries, Booked
<1> HIDE DEF released
<1>7. Carries(undone, released) /\ Booked(undone) BY <1>6 DEF Carries, Booked
<1> HIDE DEF undone
<1>8. Carries(next, undone) BY <1>7, NextCarries
<1>9. \A kind : Carries(failed(kind), undone) BY <1>7, PublishCarries
<1> HIDE DEF failed, next
<1> QED BY <1>1, <1>5, <1>7, <1>8, <1>9 DEF Carries

LEMMA CreatingCarries ==
  ASSUME NEW k, Booked(k), NEW sessionReplaced
  PROVE  Carries(creating(k, sessionReplaced), k)
<1> DEFINE told == publish(k, "creating-session", k.work.index, sessionReplaced, "none",
                           k.shown.sessionRestored)
<1>1. Carries(told, k) BY PublishCarries
<1>2. creating(k, sessionReplaced) =
        [told EXCEPT !.work.at = "creating", !.work.sessionReplaced = sessionReplaced]
  BY DEF creating
<1> HIDE DEF told
<1> QED BY <1>1, <1>2 DEF Carries, Booked

LEMMA AttachCarries ==
  ASSUME NEW k, Booked(k)
  PROVE  Carries(attach(k), k)
<1> DEFINE d == dispose_client(k, k.activeClient)
           fresh == [d EXCEPT !.activeClient = 0, !.client[id(k)] = "live", !.openingClient = id(k)]
           told == publish(fresh, "reattaching-session", k.work.index, FALSE, "none", k.shown.sessionRestored)
           asked == [told EXCEPT !.work.at = "reattaching"]
           made == creating(fresh, FALSE)
<1>1. attach(k) \in {made, asked} BY DEF attach
<1>2. Carries(d, k) BY DisposeCarries
<1> HIDE DEF d
<1>3. Carries(fresh, k) /\ Booked(fresh) BY <1>2 DEF Carries, Booked
<1> HIDE DEF fresh
<1>4. Carries(told, fresh) /\ Carries(made, fresh) BY <1>3, PublishCarries, CreatingCarries
<1> HIDE DEF told, made
<1>5. Carries(asked, fresh) BY <1>3, <1>4 DEF Carries, Booked
<1> HIDE DEF asked
<1> QED BY <1>1, <1>3, <1>4, <1>5 DEF Carries

LEMMA InstallCarries ==
  ASSUME NEW k, Booked(k)
  PROVE  Carries(install(k), k)
<1> DEFINE d == dispose_client(k, k.activeClient)
           prior == dispose_transport(d, k.activeTransport)
           placed == [prior EXCEPT !.activeClient = id(k), !.activeTransport = id(k), !.watched = TRUE,
                        !.openingClient = 0, !.openingTransport = 0, !.work = NoWork]
           told == publish(placed, "connected", k.work.index, k.work.sessionReplaced, "none",
                           k.work.sessionRestored)
<1>1. install(k) = told BY DEF install
<1>2. Carries(d, k) BY DisposeCarries
<1>3. Booked(d) BY <1>2 DEF Carries, Booked
<1> HIDE DEF d
<1>4. Carries(prior, d) BY <1>3, DisposeCarries
<1>5. Booked(prior) BY <1>3, <1>4 DEF Carries, Booked
<1> HIDE DEF prior
<1>6. Carries(placed, prior) /\ Booked(placed) BY <1>5 DEF Carries, Booked
<1> HIDE DEF placed
<1>7. Carries(told, placed) BY <1>6, PublishCarries
<1> HIDE DEF told
<1> QED BY <1>1, <1>2, <1>4, <1>6, <1>7 DEF Carries

LEMMA ForgetCarries ==
  ASSUME NEW k, Booked(k)
  PROVE  LET r == forget(k) IN DOMAIN r = DOMAIN k /\ r.credential = 0 /\ r.issued = k.issued
<1> DEFINE s == store_credential(k, 0)
           d == dispose_all(s)
<1>1. DOMAIN s = DOMAIN k /\ s.credential = 0 /\ s.issued = k.issued BY DEF store_credential, Booked
<1>2. Booked(s) BY <1>1 DEF Booked
<1>3. forget(k) = [d EXCEPT !.leave = "done"] BY DEF forget
<1> HIDE DEF s
<1>4. Carries(d, s) BY <1>2, DisposalCarries
<1> HIDE DEF d
<1> QED BY <1>1, <1>2, <1>3, <1>4 DEF Carries, Booked

\* What the steps of the controller do to the credential.
Credited(k) == k.credential <= k.issued

LEMMA CreditStep ==
  ASSUME c \in State, Credited(c), [Next]_vars
  PROVE  Credited(c')
<1>1. Booked(c) /\ c.credential \in Nat /\ c.issued \in Nat /\ 0 <= c.issued BY DEF State, Booked
<1>2. ASSUME Carries(c', c) PROVE Credited(c') BY <1>2 DEF Credited, Carries
<1>3. ASSUME NEW k, Carries(k, c), c' = forget(k) PROVE Credited(c')
  <2>1. Booked(k) /\ k.issued = c.issued BY <1>1, <1>3 DEF Carries, Booked
  <2>2. c'.credential = 0 /\ c'.issued = c.issued BY <1>3, <2>1, ForgetCarries
  <2> QED BY <1>1, <2>2 DEF Credited
<1>4. Carries(c, c) BY DEF Carries
<1>5. \A error : Carries(abandon(c, error), c) BY <1>1, AbandonCarries
<1>6. CASE UNCHANGED vars BY <1>2, <1>4, <1>6 DEF vars
<1>7. CASE DelayOver BY <1>1, <1>2, <1>7 DEF DelayOver, open, Carries, Booked
<1>8. CASE TransportOpened BY <1>1, <1>2, <1>8 DEF TransportOpened, Carries, Booked
<1>9. CASE TransportReady
  <2>1. Carries(attach(c), c) BY <1>1, AttachCarries
  <2>2. (\E error : c' = abandon(c, error)) \/ c' = attach(c) BY <1>9 DEF TransportReady
  <2> QED BY <1>2, <1>5, <2>1, <2>2
<1>10. CASE SessionCreated
  <2>1. CASE \E error : c' = abandon(c, error) BY <1>2, <1>5, <2>1
  <2> DEFINE s == store_credential(c, c.issued + 1)
  <2>2. CASE c' = [s EXCEPT !.issued = @ + 1, !.work.at = "recovering"]
    <3>1. DOMAIN s = DOMAIN c /\ s.credential = c.issued + 1 /\ s.issued = c.issued
      BY <1>1 DEF store_credential, Booked
    <3> HIDE DEF s
    <3>2. c'.credential = c.issued + 1 /\ c'.issued = c.issued + 1 BY <1>1, <2>2, <3>1 DEF Booked
    <3> QED BY <1>1, <3>2 DEF Credited
  <2> QED BY <1>10, <2>1, <2>2 DEF SessionCreated
<1>11. CASE SessionReattached BY <1>1, <1>2, <1>11 DEF SessionReattached, Carries, Booked
<1>12. CASE CredentialRejected
  <2>1. CASE \E error : c' = abandon(c, error) BY <1>2, <1>5, <2>1
  <2> DEFINE s == store_credential(c, 0)
  <2>2. CASE c' = creating(s, TRUE)
    <3>1. DOMAIN s = DOMAIN c /\ s.credential = 0 /\ s.issued = c.issued
      BY <1>1 DEF store_credential, Booked
    <3>2. Booked(s) BY <1>1, <3>1 DEF Booked
    <3> HIDE DEF s
    <3>3. Carries(c', s) BY <2>2, <3>2, CreatingCarries
    <3> QED BY <1>1, <3>1, <3>3 DEF Credited, Carries
  <2> QED BY <1>12, <2>1, <2>2 DEF CredentialRejected
<1>13. CASE Recovered
  <2>1. Carries(install(c), c) BY <1>1, InstallCarries
  <2>2. (\E error : c' = abandon(c, error)) \/ c' = install(c) BY <1>13 DEF Recovered
  <2> QED BY <1>2, <1>5, <2>1, <2>2
<1>14. CASE \E error \in {"transport", "terminal"} : Rejected(error)
  <2>1. \E error : c' = abandon(c, error) BY <1>14 DEF Rejected
  <2> QED BY <1>2, <1>5, <2>1
<1>15. CASE \E t \in Ids : Closed(t)
  <2>1. PICK t \in Ids : Closed(t) BY <1>15
  <2> DEFINE lost == [c EXCEPT !.transport[t] = "closed"]
             unwatched == [lost EXCEPT !.watched = FALSE]
             told == publish(unwatched, "reconnecting", 0, FALSE, "none", c.shown.sessionRestored)
  <2>2. c' \in {lost, ensure_reconnected(told)} BY <2>1 DEF Closed
  <2>3. Carries(lost, c) /\ Carries(unwatched, c) /\ Booked(unwatched) BY <1>1 DEF Carries, Booked
  <2> HIDE DEF lost, unwatched
  <2>4. Carries(told, unwatched) BY <2>3, PublishCarries
  <2>5. Booked(told) BY <2>3, <2>4 DEF Carries, Booked
  <2> HIDE DEF told
  <2>6. Carries(ensure_reconnected(told), told) BY <2>5, ReconnectCarries
  <2>7. Carries(c', c) BY <2>2, <2>3, <2>4, <2>6 DEF Carries
  <2> QED BY <1>2, <2>7
<1>16. CASE reconnect BY <1>1, <1>2, <1>16, ReconnectCarries DEF reconnect
<1>17. CASE dispose BY <1>1, <1>2, <1>17, DisposalCarries DEF dispose
<1>18. CASE leave_room
  <2> DEFINE asked == [c EXCEPT !.leave = "leaving"]
             gone == cancel_reconnect_work(asked)
             parting == [gone EXCEPT !.leave = "goodbye"]
  <2>1. c' \in {gone, parting, forget(gone)} BY <1>18 DEF leave_room
  <2>2. Carries(asked, c) /\ Booked(asked) BY <1>1 DEF Carries, Booked
  <2> HIDE DEF asked
  <2>3. Carries(gone, asked) BY <2>2, CancelCarries
  <2> HIDE DEF gone
  <2>4. Carries(gone, c) /\ Carries(parting, c) BY <2>2, <2>3 DEF Carries, Booked
  <2> HIDE DEF parting
  <2> QED BY <1>2, <1>3, <2>1, <2>4
<1>19. CASE Departure
  <2>1. c' = forget(c) \/ c' = [c EXCEPT !.leave = "goodbye"] BY <1>19 DEF Departure, LeaveEnded, GoodbyeEnded
  <2>2. Carries([c EXCEPT !.leave = "goodbye"], c) BY <1>1 DEF Carries, Booked
  <2> QED BY <1>2, <1>3, <1>4, <2>1, <2>2
<1> QED
  BY <1>6, <1>7, <1>8, <1>9, <1>10, <1>11, <1>12, <1>13, <1>14, <1>15, <1>16, <1>17, <1>18, <1>19 DEF Next, Answers

LEMMA CreditBegins == Init => Credited(c)
<1> SUFFICES ASSUME Init PROVE Credited(c) OBVIOUS
<1> DEFINE fresh(stored) ==
             [shown |-> [status |-> "connecting", attempt |-> 0, sessionReplaced |-> FALSE,
                         sessionRestored |-> FALSE, failureKind |-> "none"],
              disposed |-> FALSE, generation |-> 1, loops |-> 0, leave |-> "none",
              work |-> [NoWork EXCEPT !.generation = 1],
              transportAttempts |-> 0,
              transport |-> [t \in Ids |-> "none"], client |-> [t \in Ids |-> "none"],
              activeTransport |-> 0, activeClient |-> 0, watched |-> FALSE,
              openingTransport |-> 0, openingClient |-> 0,
              credential |-> stored, issued |-> stored]
<1>1. PICK stored \in {0, 1} : c = open(fresh(stored)) BY DEF Init
<1> DEFINE k == fresh(stored)
<1>2. k.credential = stored /\ k.issued = stored /\ Booked(k) BY DEF Booked
<1> HIDE DEF fresh
<1>3. c.credential = stored /\ c.issued = stored BY <1>1, <1>2 DEF open, Booked
<1> QED BY <1>3 DEF Credited

LEMMA ConnectionTyped ==
  ASSUME ConnectionInv, Credited(c)
  PROVE  TypeOK
<1>1. c \in State /\ Counted(c) /\ Transports(c) /\ Clients(c) BY DEF ConnectionInv, Core
<1>2. id(c) \in Ids BY <1>1, Range
<1>3. MaxOpen \in Nat
  <2>1. MaxLoops * Retries \in Nat BY ConstantsAssumption
  <2> HIDE DEF MaxOpen
  <2>2. MaxOpen = 1 + MaxLoops * Retries BY DEF MaxOpen
  <2> QED BY <2>1, <2>2
<1>4. id(c) \in 0..MaxOpen BY <1>2, <1>3 DEF Ids
<1>5. \A x \in Nat : x <= id(c) => x \in 0..MaxOpen BY <1>3, <1>4
<1>6. /\ {c.activeTransport, c.activeClient, c.openingTransport, c.openingClient} \subseteq Nat
      /\ c.activeTransport <= id(c) /\ c.activeClient <= id(c)
      /\ c.openingTransport \in {0, id(c)} /\ c.openingClient \in {0, id(c)}
  BY <1>1 DEF State, Transports, Clients
<1>7. {c.activeTransport, c.activeClient, c.openingTransport, c.openingClient,
       c.transportAttempts} \subseteq 0..MaxOpen
  <2>1. 0 \in 0..MaxOpen BY <1>3
  <2> QED BY <1>4, <1>5, <1>6, <2>1 DEF id
<1>8. c.credential \in 0..c.issued
  <2>1. c.credential \in Nat /\ c.issued \in Nat BY <1>1 DEF State
  <2> QED BY <2>1 DEF Credited
<1> QED BY <1>1, <1>7, <1>8 DEF TypeOK, State

-----------------------------------------------------------------------------
\* One mirror, one writer, nothing leaked, and nothing brought back after a
\* departure, for any number of retries and of reconnection loops, wherever the
\* awaits of towl.connection.ts are overtaken.
THEOREM ConnectionOwned == Spec => []OwnedOrForgotten
<1>1. Init => ConnectionInv BY Initial
<1>2. ConnectionInv /\ [Next]_vars => ConnectionInv' BY ConnectionStep
<1>3. ConnectionInv => OwnedOrForgotten BY ConnectionSound
<1> QED BY <1>1, <1>2, <1>3, PTL DEF Spec

\* The status of towl.connection.ts says what its attempts and its installed
\* client do.
THEOREM ConnectionTruthful == Spec => []StatusTruthful
<1>1. Init => ConnectionInv BY Initial
<1>2. ConnectionInv /\ [Next]_vars => ConnectionInv' BY ConnectionStep
<1>3. ConnectionInv => StatusTruthful BY ConnectionSound
<1> QED BY <1>1, <1>2, <1>3, PTL DEF Spec

-----------------------------------------------------------------------------
(* The panel over the controller.                                          *)

Panel ==
  [content : {"invalid", "room", "disposed"}, mounted : BOOLEAN,
   buttons : SUBSET GameActions, offer : Offers,
   pending : GameActions \union {"none"}, sharePending : BOOLEAN, share : BOOLEAN,
   reconnect : BOOLEAN, leavePending : BOOLEAN, manualReconnectPending : BOOLEAN, left : BOOLEAN]

\* What the buttons of k mean over the controller w.
Buttons(k, w) ==
  /\ k.buttons = IF has_client(w) THEN k.offer ELSE {}
  /\ ~k.leavePending => k.reconnect = (w.shown.status = "failed" /\ ~k.manualReconnectPending)

\* A room is left through its panel only, and an invalid invitation has a
\* controller that nothing moves.
PanelInv ==
  /\ ConnectionInv /\ v \in Panel
  /\ v.content = "room" => (v.leavePending <=> c.leave # "none") /\ Buttons(v, c)
  /\ v.content = "invalid" =>
       /\ ~v.mounted /\ ~v.leavePending /\ v.buttons = {} /\ ~v.reconnect
       /\ c.shown.status = "connecting" /\ c.leave = "none"

\* The rest of the panel's record.
Alike(r, k) ==
  /\ r.content = k.content /\ r.mounted = k.mounted /\ r.offer = k.offer
  /\ r.leavePending = k.leavePending /\ r.manualReconnectPending = k.manualReconnectPending

LEMMA RenderConnection ==
  ASSUME NEW k \in Panel, k.content = "room", ~k.leavePending, NEW next
  PROVE  LET r == render_connection(k, next)
         IN /\ r \in Panel /\ Alike(r, k)
            /\ r.buttons = IF next.status = "connected" THEN k.buttons ELSE {}
            /\ r.reconnect = (next.status = "failed" /\ ~k.manualReconnectPending)
<1> DEFINE reconnect1 == next.status = "failed" /\ ~k.manualReconnectPending
           buttons == IF next.status = "connected" THEN k.buttons ELSE {}
           r == render_connection(k, next)
<1>1. r = [k EXCEPT !.reconnect = reconnect1, !.buttons = buttons] BY DEF render_connection, Panel
<1>2. reconnect1 \in BOOLEAN /\ buttons \in SUBSET GameActions BY DEF Panel
<1> HIDE DEF reconnect1, buttons, r
<1>3. r \in Panel /\ Alike(r, k) /\ r.buttons = buttons /\ r.reconnect = reconnect1
  BY <1>1, <1>2 DEF Panel, Alike
<1> QED BY <1>3 DEF reconnect1, buttons, r

LEMMA RenderState ==
  ASSUME NEW k \in Panel, k.content = "room", NEW w
  PROVE  LET r == render_state(k, w)
         IN /\ r \in Panel /\ Alike(r, k) /\ r.reconnect = k.reconnect
            /\ r.buttons = IF has_client(w) THEN k.offer ELSE {}
<1> DEFINE buttons == IF has_client(w) THEN k.offer ELSE {}
           r == render_state(k, w)
<1>1. r = [k EXCEPT !.buttons = buttons] BY DEF render_state
<1>2. buttons \in SUBSET GameActions
  <2>1. k.offer \in Offers BY DEF Panel
  <2>2. k.offer \in SUBSET GameActions BY <2>1 DEF Offers, GameActions
  <2> QED BY <2>2
<1> HIDE DEF buttons, r
<1>3. r \in Panel /\ Alike(r, k) /\ r.buttons = buttons /\ r.reconnect = k.reconnect
  BY <1>1, <1>2 DEF Panel, Alike
<1> QED BY <1>3 DEF buttons, r

\* The callbacks of a connection step keep the buttons right.
LEMMA Rendered ==
  ASSUME NEW k \in Panel, k.content = "room", NEW was, NEW now,
         k.leavePending <=> was.leave # "none", was.leave = "none" <=> now.leave = "none",
         Buttons(k, was)
  PROVE  LET r == rendered(k, was, now) IN r \in Panel /\ Alike(r, k) /\ Buttons(r, now)
<1> DEFINE told == IF now.shown = was.shown THEN k ELSE render_connection(k, now.shown)
           stated == render_state(told, now)
           arrived == now.shown.status = "connected" /\ was.shown.status # "connected"
           r == rendered(k, was, now)
<1>1. r = IF arrived THEN stated ELSE told BY DEF rendered
<1>2. told \in Panel /\ Alike(told, k)
  <2>1. CASE now.shown = was.shown BY <2>1 DEF Alike
  <2>2. CASE now.shown # was.shown /\ k.leavePending BY <2>2 DEF Alike, render_connection
  <2>3. CASE now.shown # was.shown /\ ~k.leavePending BY <2>3, RenderConnection
  <2> QED BY <2>1, <2>2, <2>3
<1>3. k.leavePending => told = k BY DEF render_connection
<1>4. ~k.leavePending =>
        /\ told.reconnect = (now.shown.status = "failed" /\ ~k.manualReconnectPending)
        /\ ~arrived => told.buttons = IF now.shown.status = "connected" THEN k.offer ELSE {}
  <2> SUFFICES ASSUME ~k.leavePending
               PROVE  /\ told.reconnect = (now.shown.status = "failed" /\ ~k.manualReconnectPending)
                      /\ ~arrived =>
                           told.buttons = IF now.shown.status = "connected" THEN k.offer ELSE {}
    OBVIOUS
  <2>1. CASE now.shown = was.shown BY <2>1 DEF Buttons, has_client
  <2>2. CASE now.shown # was.shown
    <3>1. /\ told.buttons = IF now.shown.status = "connected" THEN k.buttons ELSE {}
          /\ told.reconnect = (now.shown.status = "failed" /\ ~k.manualReconnectPending)
      BY <2>2, RenderConnection
    <3> HIDE DEF told
    <3> QED BY <3>1 DEF Buttons, has_client
  <2> QED BY <2>1, <2>2
<1> HIDE DEF told, r
<1>5. /\ stated \in Panel /\ Alike(stated, told) /\ stated.reconnect = told.reconnect
      /\ stated.buttons = IF has_client(now) THEN told.offer ELSE {}
  BY <1>2, RenderState DEF Alike
<1> HIDE DEF stated
<1>6. r \in Panel /\ Alike(r, k) BY <1>1, <1>2, <1>5 DEF Alike
<1>7. Buttons(r, now)
  <2>1. CASE k.leavePending BY <1>1, <1>2, <1>3, <1>5, <2>1 DEF Buttons, has_client, Alike
  <2>2. CASE ~k.leavePending BY <1>1, <1>2, <1>4, <1>5, <2>2 DEF Buttons, has_client, Alike
  <2> QED BY <2>1, <2>2
<1> QED BY <1>6, <1>7 DEF r

LEMMA ControllerStep ==
  ASSUME PanelInv, Controller
  PROVE  PanelInv'
<1> DEFINE next == rendered(v, c, c')
<1>1. v \in Panel /\ v.content # "invalid" /\ v' = next BY DEF PanelInv, Controller, Panel
<1>2. ConnectionInv' /\ (c.leave = "none" <=> c'.leave = "none")
  BY AnswersStep, DepartureStep, ClosedStep DEF Controller, PanelInv
<1>3. CASE v.content = "room"
  <2>1. next \in Panel /\ Alike(next, v) /\ Buttons(next, c') BY <1>1, <1>2, <1>3, Rendered DEF PanelInv
  <2> HIDE DEF next
  <2>2. v' \in Panel /\ v'.content = "room" /\ (v'.leavePending <=> c'.leave # "none") /\ Buttons(v', c')
    BY <1>1, <1>2, <1>3, <2>1 DEF PanelInv, Alike
  <2> QED BY <1>2, <2>2 DEF PanelInv, Buttons, has_client
<1>4. CASE v.content = "disposed"
  <2>1. next = v BY <1>4 DEF rendered, render_connection, render_state
  <2> HIDE DEF next
  <2> QED BY <1>1, <1>2, <1>4, <2>1 DEF PanelInv
<1> QED BY <1>1, <1>3, <1>4 DEF Panel

LEMMA manual_reconnectStep ==
  ASSUME PanelInv, manual_reconnect
  PROVE  PanelInv'
<1> DEFINE k == [v EXCEPT !.manualReconnectPending = TRUE, !.reconnect = FALSE]
           next == rendered(k, c, c')
<1>1. v \in Panel /\ v.content = "room" /\ reconnect /\ v' = next BY DEF PanelInv, manual_reconnect
<1>2. ConnectionInv' /\ c'.leave = c.leave BY <1>1, ReconnectStep DEF PanelInv
<1>3. /\ k \in Panel /\ k.content = "room" /\ k.buttons = v.buttons /\ k.offer = v.offer
      /\ k.leavePending = v.leavePending /\ k.manualReconnectPending /\ ~k.reconnect
  BY <1>1 DEF Panel
<1> HIDE DEF k
<1>4. Buttons(k, c)
  <2>1. k.buttons = IF has_client(c) THEN k.offer ELSE {} BY <1>1, <1>3 DEF PanelInv, Buttons
  <2>2. k.reconnect = FALSE /\ k.manualReconnectPending = TRUE BY <1>3 DEF Panel
  <2>3. k.reconnect = (c.shown.status = "failed" /\ ~k.manualReconnectPending) BY <2>2
  <2> QED BY <2>1, <2>3 DEF Buttons
<1>5. next \in Panel /\ Alike(next, k) /\ Buttons(next, c')
  BY <1>1, <1>2, <1>3, <1>4, Rendered DEF PanelInv
<1> HIDE DEF next
<1>6. v' \in Panel /\ v'.content = "room" /\ (v'.leavePending <=> c'.leave # "none") /\ Buttons(v', c')
  BY <1>1, <1>2, <1>3, <1>5 DEF PanelInv, Alike
<1> QED BY <1>2, <1>6 DEF PanelInv, Buttons, has_client

\* Clicks that change no button, and the state they find.
LEMMA StateStep ==
  ASSUME PanelInv, NEW offer \in Offers, MirrorChanges(offer)
  PROVE  PanelInv'
<1> DEFINE k == [v EXCEPT !.offer = offer]
           next == render_state(k, c)
<1>1. v \in Panel /\ v.content = "room" /\ v' = next /\ c' = c BY DEF PanelInv, MirrorChanges
<1>3. /\ k \in Panel /\ k.content = "room"
      /\ k.leavePending = v.leavePending /\ k.manualReconnectPending = v.manualReconnectPending
      /\ k.reconnect = v.reconnect
  BY <1>1 DEF Panel
<1> HIDE DEF k
<1>4. /\ next \in Panel /\ Alike(next, k) /\ next.reconnect = k.reconnect
      /\ next.buttons = IF has_client(c) THEN k.offer ELSE {}
  BY <1>3, RenderState
<1> HIDE DEF next
<1>5. Buttons(next, c) BY <1>1, <1>3, <1>4 DEF Buttons, Alike, PanelInv
<1>6. next.content = "room" /\ next.leavePending = v.leavePending BY <1>3, <1>4 DEF Alike
<1>7. v' \in Panel /\ v'.content = "room" /\ (v'.leavePending <=> c'.leave # "none") /\ Buttons(v', c')
  BY <1>1, <1>4, <1>5, <1>6 DEF PanelInv
<1>8. ConnectionInv' BY <1>1 DEF PanelInv, ConnectionInv
<1> QED BY <1>7, <1>8 DEF PanelInv, Buttons, has_client

LEMMA Untouched ==
  ASSUME PanelInv, c' = c, v' \in Panel, v'.content = v.content, v'.mounted = v.mounted,
         v'.buttons = v.buttons, v'.offer = v.offer, v'.reconnect = v.reconnect,
         v'.leavePending = v.leavePending, v'.manualReconnectPending = v.manualReconnectPending
  PROVE  PanelInv'
<1>1. ConnectionInv' BY DEF PanelInv, ConnectionInv
<1>2. v'.content = "room" => (v'.leavePending <=> c'.leave # "none") BY DEF PanelInv
<1>3. v'.content = "room" => v'.buttons = IF has_client(c') THEN v'.offer ELSE {}
  BY DEF PanelInv, Buttons, has_client
<1>4. v'.content = "room" /\ ~v'.leavePending =>
        v'.reconnect = (c'.shown.status = "failed" /\ ~v'.manualReconnectPending)
  BY DEF PanelInv, Buttons
<1>5. v'.content = "invalid" =>
        /\ ~v'.mounted /\ ~v'.leavePending /\ v'.buttons = {} /\ ~v'.reconnect
        /\ c'.shown.status = "connecting" /\ c'.leave = "none"
  BY DEF PanelInv
<1> QED BY <1>1, <1>2, <1>3, <1>4, <1>5 DEF PanelInv, Buttons

LEMMA PanelStep ==
  ASSUME PanelInv, [PanelNext]_panelVars
  PROVE  PanelInv'
<1>1. v \in Panel BY DEF PanelInv
<1>2. CASE Controller BY <1>2, ControllerStep
<1>3. CASE \E offer \in Offers : MirrorChanges(offer) BY <1>3, StateStep
<1>4. CASE \E name \in GameActions : run_action(name)
  <2>1. PICK name \in GameActions : run_action(name) BY <1>4
  <2> QED BY <1>1, <2>1, Untouched DEF run_action, Panel
<1>5. CASE ActionEnded BY <1>1, <1>5, Untouched DEF ActionEnded, Panel
<1>6. CASE share BY <1>1, <1>6, Untouched DEF share, Panel
<1>7. CASE Shared BY <1>1, <1>7, Untouched DEF Shared, Panel
<1>8. CASE Left BY <1>1, <1>8, Untouched DEF Left, Panel
<1>9. CASE UNCHANGED panelVars BY <1>1, <1>9, Untouched DEF panelVars
<1>10. CASE manual_reconnect BY <1>10, manual_reconnectStep
<1>11. CASE ReconnectSettled
  <2> DEFINE k == [v EXCEPT !.manualReconnectPending = FALSE]
             next == render_connection(k, c.shown)
  <2>1. v.content = "room" /\ v' = next /\ c' = c BY <1>11 DEF ReconnectSettled
  <2>2. /\ k \in Panel /\ k.content = "room" /\ k.buttons = v.buttons /\ k.offer = v.offer
        /\ k.leavePending = v.leavePending
    BY <1>1, <2>1 DEF Panel
  <2> HIDE DEF k
  <2>3. /\ next \in Panel /\ Alike(next, k)
        /\ next.buttons = IF has_client(c) THEN next.offer ELSE {}
    <3>1. CASE k.leavePending BY <2>1, <2>2, <3>1 DEF render_connection, Alike, PanelInv, Buttons
    <3>2. CASE ~k.leavePending
      <4>1. /\ next \in Panel /\ Alike(next, k)
            /\ next.buttons = IF c.shown.status = "connected" THEN k.buttons ELSE {}
        BY <2>2, <3>2, RenderConnection
      <4> HIDE DEF next
      <4> QED BY <2>1, <2>2, <3>2, <4>1 DEF Alike, PanelInv, Buttons, has_client
    <3> QED BY <3>1, <3>2
  <2>4. ~k.leavePending =>
          next.reconnect = (c.shown.status = "failed" /\ ~k.manualReconnectPending)
    BY <2>2, RenderConnection
  <2> HIDE DEF next
  <2>5. Buttons(next, c) BY <2>3, <2>4 DEF Buttons, Alike
  <2>6. next.content = "room" /\ next.leavePending = v.leavePending BY <2>2, <2>3 DEF Alike
  <2>7. v' \in Panel /\ v'.content = "room" /\ (v'.leavePending <=> c'.leave # "none") /\ Buttons(v', c')
    BY <2>1, <2>3, <2>5, <2>6 DEF PanelInv
  <2>8. ConnectionInv' BY <2>1 DEF PanelInv, ConnectionInv
  <2> QED BY <2>7, <2>8 DEF PanelInv, Buttons, has_client
<1>12. CASE leave
  <2>1. ConnectionInv' /\ c'.leave # "none" BY <1>12, LeaveStep DEF leave, PanelInv
  <2>2. v' \in Panel /\ v'.content = "room" /\ v'.leavePending /\ v'.buttons = {}
    BY <1>1, <1>12 DEF leave, Panel
  <2> QED BY <2>1, <2>2 DEF PanelInv, Buttons, has_client
<1>13. CASE createRoom
  <2>1. v.content = "invalid" /\ c' = c BY <1>13 DEF createRoom
  <2>2. /\ v' \in Panel /\ v'.content = "room" /\ v'.buttons = v.buttons /\ v'.reconnect = v.reconnect
        /\ v'.leavePending = v.leavePending
    BY <1>1, <1>13 DEF createRoom, Panel
  <2>3. ConnectionInv' BY <2>1 DEF PanelInv, ConnectionInv
  <2>4. v'.buttons = {} /\ ~v'.reconnect /\ ~v'.leavePending /\ c'.leave = "none"
        /\ c'.shown.status = "connecting"
    BY <2>1, <2>2 DEF PanelInv
  <2>5. v'.reconnect = FALSE BY <2>2, <2>4 DEF Panel
  <2>6. v'.reconnect = (c'.shown.status = "failed" /\ ~v'.manualReconnectPending) BY <2>4, <2>5
  <2>7. v'.buttons = IF has_client(c') THEN v'.offer ELSE {} BY <2>4 DEF has_client
  <2> QED BY <2>2, <2>3, <2>4, <2>6, <2>7 DEF PanelInv, Buttons
<1>14. CASE dispose_panel
  <2>1. v' \in Panel /\ v'.content = "disposed" BY <1>1, <1>14 DEF dispose_panel, Panel
  <2>2. ConnectionInv'
    <3>1. CASE v.content = "room" BY <1>14, <3>1, DisposeStep DEF dispose_panel, PanelInv
    <3>2. CASE v.content # "room"
      <4>1. c' = c BY <1>14, <3>2 DEF dispose_panel
      <4> QED BY <4>1 DEF PanelInv, ConnectionInv
    <3> QED BY <3>1, <3>2
  <2> QED BY <2>1, <2>2 DEF PanelInv
<1> QED BY <1>2, <1>3, <1>4, <1>5, <1>6, <1>7, <1>8, <1>9, <1>10, <1>11, <1>12, <1>13, <1>14 DEF PanelNext

LEMMA PanelInitial ==
  ASSUME PanelInit
  PROVE  PanelInv
<1>1. ConnectionInv /\ c.leave = "none" /\ c.shown.status = "connecting" BY Initial DEF PanelInit
<1>2. PICK kind \in {"absent", "valid", "invalid"} :
        v = [content |-> classify_towl_room_url(kind),
             mounted |-> classify_towl_room_url(kind) = "room", buttons |-> {}, offer |-> {},
             pending |-> "none", sharePending |-> FALSE, share |-> TRUE, reconnect |-> FALSE,
             leavePending |-> FALSE, manualReconnectPending |-> FALSE, left |-> FALSE]
  BY DEF PanelInit
<1> DEFINE content == classify_towl_room_url(kind)
           mounted == content = "room"
<1>3. content \in {"invalid", "room"} BY DEF classify_towl_room_url
<1>4. mounted \in BOOLEAN /\ (content = "invalid" => ~mounted) OBVIOUS
<1>5. v = [content |-> content, mounted |-> mounted, buttons |-> {}, offer |-> {},
           pending |-> "none", sharePending |-> FALSE, share |-> TRUE, reconnect |-> FALSE,
           leavePending |-> FALSE, manualReconnectPending |-> FALSE, left |-> FALSE]
  BY <1>2
<1> HIDE DEF content, mounted
<1>6. v \in Panel
  <2>1. {} \in Offers BY DEF Offers
  <2> QED BY <1>3, <1>4, <1>5, <2>1 DEF Panel
<1>7. /\ v.content = content /\ v.mounted = mounted /\ v.buttons = {} /\ v.offer = {}
      /\ v.reconnect = FALSE /\ v.leavePending = FALSE
  BY <1>5
<1>8. v.buttons = IF has_client(c) THEN v.offer ELSE {} BY <1>7
<1>9. v.reconnect = (c.shown.status = "failed" /\ ~v.manualReconnectPending) BY <1>1, <1>7
<1> QED BY <1>1, <1>4, <1>6, <1>7, <1>8, <1>9 DEF PanelInv, Buttons

LEMMA PanelInvariant == PanelSpec => []PanelInv
<1>1. PanelInit => PanelInv BY PanelInitial
<1>2. PanelInv /\ [PanelNext]_panelVars => PanelInv' BY PanelStep
<1> QED BY <1>1, <1>2, PTL DEF PanelSpec

\* The panel moves its controller by the controller's own steps.
LEMMA PanelMoves ==
  ASSUME [PanelNext]_panelVars
  PROVE  [Next]_vars
<1>1. CASE c' = c BY <1>1 DEF vars
<1>2. CASE Controller BY <1>2 DEF Controller, Next
<1>3. CASE manual_reconnect BY <1>3 DEF manual_reconnect, Next
<1>4. CASE leave BY <1>4 DEF leave, Next
<1>5. CASE dispose_panel BY <1>1, <1>5 DEF dispose_panel, Next
<1> QED
  BY <1>1, <1>2, <1>3, <1>4, <1>5
     DEF PanelNext, panelVars, MirrorChanges, run_action, ActionEnded, share, Shared,
         ReconnectSettled, Left, createRoom

\* The panel's types, those of its controller included.
PanelTyped == PanelInv /\ Credited(c)

LEMMA PanelTypedStep == PanelTyped /\ [PanelNext]_panelVars => PanelTyped'
<1> SUFFICES ASSUME PanelTyped, [PanelNext]_panelVars PROVE PanelTyped' OBVIOUS
<1>1. PanelInv' BY PanelStep DEF PanelTyped
<1>2. c \in State BY DEF PanelTyped, PanelInv, ConnectionInv, Core
<1>3. Credited(c') BY <1>2, PanelMoves, CreditStep DEF PanelTyped
<1> QED BY <1>1, <1>3 DEF PanelTyped

LEMMA PanelTypedBegins == PanelInit => PanelTyped
BY PanelInitial, CreditBegins DEF PanelInit, PanelTyped

LEMMA PanelTypes == PanelTyped => PanelTypeOK
<1> SUFFICES ASSUME PanelTyped PROVE PanelTypeOK OBVIOUS
<1>1. ConnectionInv /\ v \in Panel /\ Credited(c) BY DEF PanelTyped, PanelInv
<1>2. TypeOK BY <1>1, ConnectionTyped
<1> QED BY <1>1, <1>2 DEF PanelTypeOK, Panel

\* The same two under the panel of mount-towl.ts, which calls the controller.
THEOREM PanelOwned == PanelSpec => []OwnedOrForgotten
<1>1. PanelInv => OwnedOrForgotten BY ConnectionSound DEF PanelInv
<1> QED BY <1>1, PanelInvariant, PTL

\* Under the panel the status still says what attempts and client do: every
\* click of mount-towl.ts goes through the operations of towl.connection.ts.
THEOREM PanelTruthful == PanelSpec => []StatusTruthful
<1>1. PanelInv => StatusTruthful BY ConnectionSound DEF PanelInv
<1> QED BY <1>1, PanelInvariant, PTL

\* A button of the panel can be clicked exactly when what it does is possible:
\* the game actions that the last state offers while there is a client, and a
\* manual reconnection after a failure, whatever callbacks came in between.
THEOREM PanelButtons == PanelSpec => []ButtonsMatchRoom
<1>1. PanelInv => ButtonsMatchRoom BY DEF PanelInv, Buttons, ButtonsMatchRoom
<1> QED BY <1>1, PanelInvariant, PTL
=============================================================================
