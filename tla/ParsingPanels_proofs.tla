------------------------- MODULE ParsingPanels_proofs -------------------------
(* Proofs about ParsingCoordinator and ParsingPanels, for any number of    *)
(* edits and of sockets.                                                   *)
EXTENDS ParsingPanels, TLAPS

SocketStates == {"none", "live", "stranded", "disposed"}
Published == [status : Statuses, entry : Format \union {None}, revision : 0..MaxEdits]
Coordinator ==
  [state : Published, revision : 0..MaxEdits + 1, timer : Nat, pending : Nat, disposed : BOOLEAN,
   entryOf : [Edits -> Format \union {None}], launch : [Edits -> Phases],
   started : [Edits -> BOOLEAN], transportDisposed : BOOLEAN,
   opening : {"none", "bootstrap", "ready", "creating"}, opened : 0..MaxSockets,
   client : Nat, socket : [Sockets -> SocketStates], listening : SUBSET Edits]

\* What is shown, armed and pending is about the latest edit; no later edit
\* has been sent.
UpToDate(k) ==
  /\ k.disposed <=> k.transportDisposed
  /\ ~k.disposed => k.state.revision = k.revision /\ k.revision <= MaxEdits
  /\ ~k.disposed /\ k.pending = 0 => k.state.status \in {"idle", "invalid"}
  /\ k.pending # 0 => /\ ~k.disposed /\ k.pending = k.revision /\ k.pending \in Edits
                      /\ k.state.status \notin {"idle", "invalid"}
  /\ k.timer # 0 => k.timer = k.pending /\ k.state.status = "parsed" /\ k.launch[k.timer] = "none"
  /\ \A r \in Edits : r > k.revision => k.launch[r] = "none"

\* How far the request of the pending edit is, the state says.
Progressing(k) ==
  /\ k.pending # 0 =>
       /\ k.launch[k.pending] = "opening" => k.state.status = "queued"
       /\ k.launch[k.pending] = "acting" =>
            \/ k.state.status = "queued"
            \/ k.state.status = "verifying" /\ k.started[k.pending]
       /\ k.launch[k.pending] = "certifying" => k.state.status = "browser-check"
  /\ \A r \in k.listening : k.launch[r] = "acting"

\* At most one socket is live, the client's of a live transport or the
\* opening's; a stranded one is the client's.
Attended(k) ==
  /\ k.opening # "none" => k.client = 0
  /\ k.opening \in {"ready", "creating"} => k.opened # 0
  /\ k.client # 0 => k.client \in Sockets
  /\ \A i \in Sockets :
       /\ k.socket[i] = "live" =>
            \/ k.client = i /\ ~k.transportDisposed
            \/ k.opening \in {"ready", "creating"} /\ k.opened = i
       /\ k.socket[i] = "stranded" => k.client = i /\ k.transportDisposed
  /\ \A r \in Edits : /\ k.launch[r] = "opening" => k.opening # "none"
                      /\ k.launch[r] = "acting" => k.client # 0

Coordinated(k) == k \in Coordinator /\ UpToDate(k) /\ Progressing(k) /\ Attended(k)

\* What a step may do to the state of an edit, and to its request.
Ahead(r, k) ==
  /\ r.state.revision = k.state.revision =>
       \/ Rank(r.state.status) >= Rank(k.state.status)
       \/ r.state.status = "parsed" /\ k.launch[k.revision] = "acting"
  /\ \A e \in Edits : k.launch[e] # "none" =>
       r.launch[e] \notin {"none", "opening"} \/ r.launch[e] = k.launch[e]

\* The editors: the texts are no later than the latest edit, all are of the
\* pending one, and the owner of the refused text holds a refused text.
Editors ==
  [text : [Format -> 0..MaxEdits], kind : [Edits -> {"empty", "ok", "large", "bad"}],
   active : Format \union {None}, invalidOwner : Format \union {None},
   invalidClearTimer : Format \union {None}, hasAuthoredInput : BOOLEAN,
   loading : BOOLEAN, disposed : BOOLEAN]
RefusedHeld(v) ==
  v.invalidOwner # None =>
    LET r == v.text[v.invalidOwner] IN r \in Edits /\ v.kind[r] \in {"bad", "empty"}
Composed(v, k) ==
  /\ v \in Editors
  /\ v.disposed <=> k.disposed
  /\ \A f \in Format : v.text[f] <= k.revision
  /\ k.pending # 0 => v.invalidOwner = None /\ \A f \in Format : v.text[f] = k.pending
  /\ RefusedHeld(v)
  /\ v.disposed => v.invalidClearTimer = None
  /\ v.invalidClearTimer # None => v.active = None

-----------------------------------------------------------------------------
(* Records: what an operator changes.                                      *)

\* All fields but the state, the requests and who listens.
Undisturbed(r, k) ==
  /\ r.revision = k.revision /\ r.timer = k.timer /\ r.pending = k.pending
  /\ r.disposed = k.disposed /\ r.entryOf = k.entryOf /\ r.started = k.started
  /\ r.transportDisposed = k.transportDisposed /\ r.opening = k.opening /\ r.opened = k.opened
  /\ r.client = k.client /\ r.socket = k.socket

LEMMA Publishing ==
  ASSUME NEW k \in Coordinator, NEW status \in Statuses, NEW entry \in Format \union {None},
         NEW revision \in 0..MaxEdits
  PROVE  LET r == publish(k, status, entry, revision)
         IN /\ r \in Coordinator /\ Undisturbed(r, k) /\ r.launch = k.launch /\ r.listening = k.listening
            /\ k.disposed => r.state = k.state
            /\ ~k.disposed => r.state.status = status /\ r.state.revision = revision
<1> DEFINE state == [status |-> status, entry |-> entry, revision |-> revision]
           r == publish(k, status, entry, revision)
<1>1. state \in Published /\ state.status = status /\ state.revision = revision BY DEF Published
<1>2. CASE k.disposed BY <1>2 DEF publish, Undisturbed
<1>3. CASE ~k.disposed
  <2>1. r = [k EXCEPT !.state = state] BY <1>3 DEF publish
  <2> HIDE DEF state, r
  <2>2. /\ r \in Coordinator /\ Undisturbed(r, k) /\ r.launch = k.launch /\ r.listening = k.listening
        /\ r.state = state
    BY <1>1, <2>1 DEF Coordinator, Undisturbed
  <2> QED BY <1>1, <1>3, <2>2 DEF r
<1> QED BY <1>2, <1>3

LEMMA About ==
  ASSUME NEW k \in Coordinator, NEW e \in Edits, NEW status \in Statuses
  PROVE  LET r == about(k, e, status)
         IN /\ r \in Coordinator /\ Undisturbed(r, k) /\ r.launch = k.launch /\ r.listening = k.listening
            /\ ~current(k, e) => r.state = k.state
            /\ current(k, e) => r.state.status = status /\ r.state.revision = e
<1> DEFINE entry == k.entryOf[e]
           q == publish(k, status, entry, e)
           r == about(k, e, status)
<1>1. entry \in Format \union {None} /\ e \in 0..MaxEdits
  <2>1. entry \in Format \union {None} BY DEF Coordinator
  <2>2. e \in 0..MaxEdits BY ConstantsAssumption DEF Edits
  <2> QED BY <2>1, <2>2
<1>2. r = IF current(k, e) THEN q ELSE k BY DEF about
<1> HIDE DEF entry
<1>3. /\ q \in Coordinator /\ Undisturbed(q, k) /\ q.launch = k.launch /\ q.listening = k.listening
      /\ ~k.disposed => q.state.status = status /\ q.state.revision = e
  BY <1>1, Publishing
<1> HIDE DEF q, r
<1>4. CASE current(k, e) BY <1>2, <1>3, <1>4 DEF current, r
<1>5. CASE ~current(k, e) BY <1>2, <1>5 DEF Undisturbed, r
<1> QED BY <1>4, <1>5

LEMMA PhaseSet ==
  ASSUME NEW k \in Coordinator, NEW e \in Edits, NEW phase \in Phases
  PROVE  LET r == [k EXCEPT !.launch[e] = phase]
         IN /\ r \in Coordinator /\ Undisturbed(r, k) /\ r.state = k.state /\ r.listening = k.listening
            /\ \A x \in Edits : r.launch[x] = IF x = e THEN phase ELSE k.launch[x]
<1> DEFINE phases == [k.launch EXCEPT ![e] = phase]
           r == [k EXCEPT !.launch[e] = phase]
<1>1. phases \in [Edits -> Phases] /\ \A x \in Edits : phases[x] = IF x = e THEN phase ELSE k.launch[x]
  BY DEF Coordinator
<1>2. r = [k EXCEPT !.launch = phases] BY DEF Coordinator
<1> HIDE DEF phases, r
<1>3. r \in Coordinator /\ Undisturbed(r, k) /\ r.state = k.state /\ r.listening = k.listening /\ r.launch = phases
  BY <1>1, <1>2 DEF Coordinator, Undisturbed
<1> QED BY <1>1, <1>3 DEF r

LEMMA Rejected ==
  ASSUME NEW k \in Coordinator, NEW phase \in {"opening", "acting"}
  PROVE  LET r == rejected(k, phase)
             told == k.pending \in Edits /\ k.launch[k.pending] = phase /\ current(k, k.pending)
         IN /\ r \in Coordinator /\ Undisturbed(r, k)
            /\ \A x \in Edits : r.launch[x] = IF k.launch[x] = phase THEN "ended" ELSE k.launch[x]
            /\ r.listening = {x \in k.listening : k.launch[x] # phase}
            /\ ~told => r.state = k.state
            /\ told => r.state.status = "unavailable" /\ r.state.revision = k.pending
<1> DEFINE gone == {x \in Edits : k.launch[x] = phase}
           phases == [x \in Edits |-> IF x \in gone THEN "ended" ELSE k.launch[x]]
           listening == k.listening \ gone
           told == [k EXCEPT !.launch = phases, !.listening = listening]
           e == k.pending
           q == about(told, e, "unavailable")
           r == rejected(k, phase)
<1>1. phases \in [Edits -> Phases]
      /\ \A x \in Edits : phases[x] = IF k.launch[x] = phase THEN "ended" ELSE k.launch[x]
  BY DEF Coordinator, Phases
<1>2. listening \in SUBSET Edits /\ listening = {x \in k.listening : k.launch[x] # phase}
  BY DEF Coordinator
<1>3. told.launch = phases /\ told.listening = listening BY DEF Coordinator
<1>4. r = IF e \in gone THEN q ELSE told BY DEF rejected
<1>5. e \in gone <=> e \in Edits /\ k.launch[e] = phase OBVIOUS
<1> HIDE DEF gone, phases, listening, told, e, r
<1>6. told \in Coordinator /\ Undisturbed(told, k) /\ told.state = k.state
  BY <1>1, <1>2 DEF Coordinator, Undisturbed, told
<1>7. current(told, e) <=> current(k, e) BY <1>6 DEF current, Undisturbed
<1>8. CASE e \in gone
  <2>1. "unavailable" \in Statuses BY DEF Statuses
  <2>2. /\ q \in Coordinator /\ Undisturbed(q, told) /\ q.launch = phases /\ q.listening = listening
        /\ ~current(told, e) => q.state = told.state
        /\ current(told, e) => q.state.status = "unavailable" /\ q.state.revision = e
    BY <1>3, <1>5, <1>6, <1>8, <2>1, About
  <2> HIDE DEF q
  <2>3. r = q BY <1>4, <1>8
  <2>4. Undisturbed(q, k) BY <1>6, <2>2 DEF Undisturbed
  <2> QED BY <1>1, <1>2, <1>5, <1>6, <1>7, <1>8, <2>2, <2>3, <2>4 DEF r, e
<1>9. CASE e \notin gone
  <2>1. r = told BY <1>4, <1>9
  <2> QED BY <1>1, <1>2, <1>3, <1>5, <1>6, <1>9, <2>1 DEF r, e
<1> QED BY <1>8, <1>9

\* Without a timer, everything else is as it was.
Unarmed(r, k) ==
  /\ r.state = k.state /\ r.revision = k.revision /\ r.timer = 0 /\ r.pending = k.pending
  /\ r.disposed = k.disposed /\ r.entryOf = k.entryOf /\ r.launch = k.launch
  /\ r.started = k.started /\ r.transportDisposed = k.transportDisposed
  /\ r.opening = k.opening /\ r.opened = k.opened /\ r.client = k.client
  /\ r.socket = k.socket /\ r.listening = k.listening

LEMMA Disarmed ==
  ASSUME NEW k \in Coordinator
  PROVE  LET r == [k EXCEPT !.timer = 0] IN r \in Coordinator /\ Unarmed(r, k)
BY DEF Coordinator, Unarmed

\* The transport takes a request: of an open client, or for an opening.
Submitted(r, k, e) ==
  /\ r.state = k.state /\ r.revision = k.revision /\ r.timer = k.timer
  /\ r.pending = k.pending /\ r.disposed = k.disposed /\ r.started = k.started
  /\ r.transportDisposed = k.transportDisposed /\ r.opened = k.opened
  /\ r.client = k.client /\ r.socket = k.socket
  /\ \A x \in Edits : r.launch[x] = IF x = e THEN IF k.client # 0 THEN "acting" ELSE "opening"
                                     ELSE k.launch[x]
  /\ r.listening = IF k.client # 0 THEN k.listening \union {e} ELSE k.listening
  /\ r.opening = IF k.client = 0 /\ k.opening = "none" THEN "bootstrap" ELSE k.opening

LEMMA Submitting ==
  ASSUME NEW k \in Coordinator, NEW e \in Edits, ~k.transportDisposed
  PROVE  LET r == submit(k, e)
         IN r \in Coordinator /\ Submitted(r, k, e)
<1> DEFINE phase == IF k.client # 0 THEN "acting" ELSE "opening"
           phases == [k.launch EXCEPT ![e] = phase]
           listening == k.listening \union {e}
           opening == IF k.opening = "none" THEN "bootstrap" ELSE k.opening
           r == submit(k, e)
<1>1. /\ phases \in [Edits -> Phases]
      /\ \A x \in Edits : phases[x] = IF x = e THEN phase ELSE k.launch[x]
  BY DEF Coordinator, Phases
<1>2. listening \in SUBSET Edits /\ opening \in {"none", "bootstrap", "ready", "creating"}
  BY DEF Coordinator
<1>3. CASE k.client # 0
  <2>1. r = [k EXCEPT !.launch = phases, !.listening = listening] BY <1>3 DEF submit, Coordinator
  <2> HIDE DEF r, phases, listening
  <2>2. r \in Coordinator BY <1>1, <1>2, <2>1 DEF Coordinator
  <2>3. r.launch = phases /\ r.listening = listening BY <2>1 DEF Coordinator
  <2>4. /\ r.state = k.state /\ r.revision = k.revision /\ r.timer = k.timer
        /\ r.pending = k.pending /\ r.disposed = k.disposed /\ r.started = k.started
        /\ r.transportDisposed = k.transportDisposed /\ r.opened = k.opened
        /\ r.client = k.client /\ r.socket = k.socket /\ r.opening = k.opening
    BY <2>1 DEF Coordinator
  <2> QED BY <1>1, <1>3, <2>2, <2>3, <2>4 DEF r, listening, Submitted
<1>4. CASE k.client = 0
  <2>1. r = [k EXCEPT !.launch = phases, !.opening = opening] BY <1>4 DEF submit, Coordinator
  <2> HIDE DEF r, phases, opening
  <2>2. r \in Coordinator BY <1>1, <1>2, <2>1 DEF Coordinator
  <2>3. r.launch = phases /\ r.opening = opening BY <2>1 DEF Coordinator
  <2>4. /\ r.state = k.state /\ r.revision = k.revision /\ r.timer = k.timer
        /\ r.pending = k.pending /\ r.disposed = k.disposed /\ r.started = k.started
        /\ r.transportDisposed = k.transportDisposed /\ r.opened = k.opened
        /\ r.client = k.client /\ r.socket = k.socket /\ r.listening = k.listening
    BY <2>1 DEF Coordinator
  <2> QED BY <1>1, <1>4, <2>2, <2>3, <2>4 DEF r, opening, Submitted
<1> QED BY <1>3, <1>4 DEF Coordinator

-----------------------------------------------------------------------------
(* The steps of the coordinator.                                           *)

LEMMA Ranks ==
  /\ Rank("parsed") = 0 /\ Rank("queued") = 1 /\ Rank("verifying") = 2 /\ Rank("browser-check") = 3
  /\ Rank("verified") = 4 /\ Rank("failed") = 4 /\ Rank("unavailable") = 4
  /\ \A s \in Statuses : Rank(s) \in 0..4
<1>1. Rank("idle") = 0 BY Zenon DEF Rank
<1>2. Rank("invalid") = 0 BY Zenon DEF Rank
<1>3. Rank("parsed") = 0 BY Zenon DEF Rank
<1>4. Rank("queued") = 1 BY Zenon DEF Rank
<1>5. Rank("verifying") = 2 BY Zenon DEF Rank
<1>6. Rank("browser-check") = 3 BY Zenon DEF Rank
<1>7. Rank("verified") = 4 BY Zenon DEF Rank
<1>8. Rank("failed") = 4 BY Zenon DEF Rank
<1>9. Rank("unavailable") = 4 BY Zenon DEF Rank
<1>10. ASSUME NEW s \in Statuses PROVE Rank(s) \in 0..4
  <2>1. \/ s = "idle" \/ s = "invalid" \/ s = "parsed" \/ s = "queued" \/ s = "verifying"
        \/ s = "browser-check" \/ s = "verified" \/ s = "failed" \/ s = "unavailable"
    BY DEF Statuses
  <2> QED BY <1>1, <1>2, <1>3, <1>4, <1>5, <1>6, <1>7, <1>8, <1>9, <2>1
<1> QED BY <1>3, <1>4, <1>5, <1>6, <1>7, <1>8, <1>9, <1>10

\* What no answer of the network changes.
Same(r, k) == r.revision = k.revision /\ r.pending = k.pending /\ r.disposed = k.disposed

\* The debounce timer or a blur sends the pending edit, once.
LEMMA Launching ==
  ASSUME NEW k, Coordinated(k), k.timer # 0
  PROVE  LET r == launch([k EXCEPT !.timer = 0], k.timer)
         IN Coordinated(r) /\ Ahead(r, k) /\ Same(r, k)
<1> DEFINE e == k.timer
           i == [k EXCEPT !.timer = 0]
           j == [i EXCEPT !.timer = 0]
           l == about(j, e, "queued")
           r == submit(l, e)
<1>1. /\ k \in Coordinator /\ k.timer = k.pending /\ e \in Edits /\ ~k.disposed
      /\ k.pending = k.revision /\ ~k.transportDisposed /\ k.state.status = "parsed"
      /\ k.launch[e] = "none" /\ k.pending # 0
  BY DEF Coordinated, UpToDate
<1>2. i \in Coordinator /\ Unarmed(i, k) BY <1>1, Disarmed
<1> HIDE DEF i
<1>3. j \in Coordinator /\ Unarmed(j, i) BY <1>2, Disarmed
<1>4. current(i, e) BY <1>1, <1>2 DEF current, Unarmed
<1>5. launch([k EXCEPT !.timer = 0], k.timer) = r BY <1>4 DEF launch, i
<1> HIDE DEF j
<1>6. Unarmed(j, k) BY <1>2, <1>3 DEF Unarmed
<1>7. current(j, e) BY <1>1, <1>6 DEF current, Unarmed
<1>8. "queued" \in Statuses BY DEF Statuses
<1>9. /\ l \in Coordinator /\ Undisturbed(l, j) /\ l.launch = j.launch /\ l.listening = j.listening
      /\ l.state.status = "queued" /\ l.state.revision = e
  BY <1>1, <1>3, <1>7, <1>8, About
<1> HIDE DEF l, e
<1>10. ~l.transportDisposed /\ l.client = k.client /\ l.launch = k.launch /\ l.opening = k.opening
  BY <1>1, <1>6, <1>9 DEF Undisturbed, Unarmed
<1>11. r \in Coordinator /\ Submitted(r, l, e) BY <1>1, <1>9, <1>10, Submitting
<1> HIDE DEF r
<1>12. /\ r.revision = k.revision /\ r.timer = 0 /\ r.pending = k.pending
       /\ r.disposed = k.disposed /\ r.started = k.started
       /\ r.transportDisposed = k.transportDisposed /\ r.opened = k.opened
       /\ r.client = k.client /\ r.socket = k.socket
       /\ r.state.status = "queued" /\ r.state.revision = e
       /\ r.listening = IF k.client # 0 THEN k.listening \union {e} ELSE k.listening
       /\ r.opening = IF k.client = 0 /\ k.opening = "none" THEN "bootstrap" ELSE k.opening
  BY <1>6, <1>9, <1>11 DEF Undisturbed, Unarmed, Submitted
<1>13. \A x \in Edits : r.launch[x] = IF x = e THEN IF k.client # 0 THEN "acting" ELSE "opening"
                                       ELSE k.launch[x]
  BY <1>10, <1>11 DEF Submitted
<1>14. e = k.pending BY <1>1 DEF e
<1>15. UpToDate(r) BY <1>1, <1>12, <1>13, <1>14 DEF Coordinated, UpToDate, Edits
<1>16. Progressing(r) BY <1>1, <1>12, <1>13, <1>14 DEF Coordinated, Progressing, Coordinator
<1>17. Attended(r) BY <1>1, <1>12, <1>13 DEF Coordinated, Attended
<1>18. Ahead(r, k)
  <2>1. r.state.status = "queued" BY <1>12
  <2>2. Rank(r.state.status) >= Rank(k.state.status) BY <1>1, <2>1, Ranks
  <2> QED BY <1>1, <1>13, <2>2 DEF Ahead
<1> QED BY <1>5, <1>11, <1>12, <1>15, <1>16, <1>17, <1>18 DEF Coordinated, Same

\* A request is rejected for lack of its client or of its opening: all of
\* that phase end, and the pending one is shown.
LEMMA Rejecting ==
  ASSUME NEW k, Coordinated(k), NEW j \in Coordinator, NEW phase \in {"opening", "acting"},
         j.state = k.state, j.revision = k.revision, j.timer = k.timer, j.pending = k.pending,
         j.disposed = k.disposed, j.transportDisposed = k.transportDisposed,
         j.started = k.started, j.launch = k.launch, j.listening \subseteq k.listening
  PROVE  LET r == rejected(j, phase)
         IN /\ r \in Coordinator /\ UpToDate(r) /\ Progressing(r) /\ Ahead(r, k) /\ Same(r, k)
            /\ r.opening = j.opening /\ r.opened = j.opened /\ r.client = j.client
            /\ r.socket = j.socket
            /\ \A x \in Edits : r.launch[x] = IF k.launch[x] = phase THEN "ended" ELSE k.launch[x]
<1> DEFINE r == rejected(j, phase)
           e == k.pending
           told == j.pending \in Edits /\ j.launch[j.pending] = phase /\ current(j, j.pending)
<1>1. /\ r \in Coordinator /\ Undisturbed(r, j)
      /\ \A x \in Edits : r.launch[x] = IF j.launch[x] = phase THEN "ended" ELSE j.launch[x]
      /\ r.listening = {x \in j.listening : j.launch[x] # phase}
      /\ ~told => r.state = j.state
      /\ told => r.state.status = "unavailable" /\ r.state.revision = j.pending
  BY Rejected
<1>2. told <=> e # 0 /\ k.launch[e] = phase
  BY ConstantsAssumption DEF Coordinated, UpToDate, current, Edits
<1> HIDE DEF r, told
<1>3. /\ ~told => r.state = k.state
      /\ told => r.state.status = "unavailable" /\ r.state.revision = e
  BY <1>1
<1>4. \A x \in Edits : r.launch[x] = IF k.launch[x] = phase THEN "ended" ELSE k.launch[x]
  BY <1>1
<1>5. /\ r.revision = k.revision /\ r.timer = k.timer /\ r.pending = k.pending
      /\ r.disposed = k.disposed /\ r.transportDisposed = k.transportDisposed
      /\ r.started = k.started /\ r.opening = j.opening /\ r.opened = j.opened
      /\ r.client = j.client /\ r.socket = j.socket
  BY <1>1 DEF Undisturbed
<1>6. UpToDate(r) BY <1>2, <1>3, <1>4, <1>5 DEF Coordinated, UpToDate
<1>7. Progressing(r)
  <2>1. ASSUME NEW x \in r.listening PROVE r.launch[x] = "acting"
    <3>1. x \in Edits /\ k.launch[x] = "acting" /\ k.launch[x] # phase
      BY <1>1 DEF Coordinated, Progressing, Coordinator
    <3> QED BY <1>4, <3>1
  <2>2. e # 0 => e \in Edits BY DEF Coordinated, UpToDate
  <2> QED BY <1>2, <1>3, <1>4, <1>5, <2>1, <2>2 DEF Coordinated, Progressing
<1>8. Ahead(r, k)
  <2>1. k.state.status \in Statuses BY DEF Coordinated, Coordinator, Published
  <2>2. Rank(r.state.status) >= Rank(k.state.status) BY <1>3, <2>1, Ranks
  <2> QED BY <1>4, <2>2 DEF Ahead
<1> QED BY <1>1, <1>4, <1>5, <1>6, <1>7, <1>8 DEF r, Same

\* The opening fails: its socket is disposed.
LEMMA Failing ==
  ASSUME NEW k, Coordinated(k), k.opening # "none"
  PROVE  Coordinated(open_failed(k)) /\ Ahead(open_failed(k), k) /\ Same(open_failed(k), k)
<1> DEFINE socket == [i \in Sockets |-> IF k.opening # "bootstrap" /\ i = k.opened
                                       THEN "disposed" ELSE k.socket[i]]
           j == [k EXCEPT !.opening = "none", !.socket = socket]
           phase == "opening"
           r == rejected(j, phase)
<1>1. k \in Coordinator BY DEF Coordinated
<1>2. socket \in [Sockets -> SocketStates]
      /\ \A i \in Sockets : socket[i] = IF k.opening # "bootstrap" /\ i = k.opened
                                       THEN "disposed" ELSE k.socket[i]
  BY <1>1 DEF Coordinator, SocketStates
<1>3. open_failed(k) = r BY DEF open_failed
<1> HIDE DEF socket
<1>4. /\ j \in Coordinator /\ j.state = k.state /\ j.revision = k.revision /\ j.timer = k.timer
      /\ j.pending = k.pending /\ j.disposed = k.disposed
      /\ j.transportDisposed = k.transportDisposed /\ j.started = k.started
      /\ j.launch = k.launch /\ j.listening = k.listening /\ j.opening = "none"
      /\ j.opened = k.opened /\ j.client = k.client /\ j.socket = socket
  BY <1>1, <1>2 DEF Coordinator
<1>5. phase \in {"opening", "acting"} OBVIOUS
<1> HIDE DEF j, phase
<1>6. /\ r \in Coordinator /\ UpToDate(r) /\ Progressing(r) /\ Ahead(r, k) /\ Same(r, k)
      /\ r.opening = j.opening /\ r.opened = j.opened /\ r.client = j.client
      /\ r.socket = j.socket
      /\ \A x \in Edits : r.launch[x] = IF k.launch[x] = phase THEN "ended" ELSE k.launch[x]
  BY <1>4, <1>5, Rejecting
<1> HIDE DEF r
<1>7. Attended(r)
  <2>1. k.client = 0 /\ r.client = 0 /\ r.opening = "none"
    BY <1>4, <1>6 DEF Coordinated, Attended
  <2>2. \A i \in Sockets : r.socket[i] \notin {"live", "stranded"}
    <3>1. \A i \in Sockets : r.socket[i] = IF k.opening # "bootstrap" /\ i = k.opened
                                           THEN "disposed" ELSE k.socket[i]
      BY <1>2, <1>4, <1>6
    <3>2. \A i \in Sockets : /\ k.socket[i] = "live" => k.opening # "bootstrap" /\ k.opened = i
                             /\ k.socket[i] # "stranded"
      <4>1. \A i \in Sockets : i # 0 BY DEF Sockets
      <4> QED BY <2>1, <4>1 DEF Coordinated, Attended
    <3> SUFFICES ASSUME NEW i \in Sockets PROVE r.socket[i] \notin {"live", "stranded"} OBVIOUS
    <3>3. CASE k.opening # "bootstrap" /\ i = k.opened
      <4>1. r.socket[i] = "disposed" BY <3>1, <3>3
      <4> QED BY <4>1
    <3>4. CASE ~(k.opening # "bootstrap" /\ i = k.opened)
      <4>1. r.socket[i] = k.socket[i] BY <3>1, <3>4
      <4>2. k.socket[i] # "live" /\ k.socket[i] # "stranded" BY <3>2, <3>4
      <4> QED BY <4>1, <4>2
    <3> QED BY <3>3, <3>4
  <2>3. \A x \in Edits : r.launch[x] \notin {"opening", "acting"}
    BY <1>6, <2>1 DEF Coordinated, Attended, phase
  <2> QED BY <2>1, <2>2, <2>3 DEF Attended
<1> QED BY <1>3, <1>6, <1>7 DEF Coordinated

\* The client's socket closes.
LEMMA Closing ==
  ASSUME NEW k, Coordinated(k), k.client # 0
  PROVE  LET r == rejected([k EXCEPT !.client = 0, !.listening = {}, !.socket[k.client] = "disposed"],
                           "acting")
         IN Coordinated(r) /\ Ahead(r, k) /\ Same(r, k)
<1> DEFINE socket == [k.socket EXCEPT ![k.client] = "disposed"]
           j == [k EXCEPT !.client = 0, !.listening = {}, !.socket[k.client] = "disposed"]
           phase == "acting"
           r == rejected(j, phase)
<1>1. k \in Coordinator /\ k.client \in Sockets /\ k.opening = "none"
  BY DEF Coordinated, Attended
<1>2. socket \in [Sockets -> SocketStates]
      /\ \A i \in Sockets : socket[i] = IF i = k.client THEN "disposed" ELSE k.socket[i]
  BY <1>1 DEF Coordinator, SocketStates
<1>3. j = [k EXCEPT !.client = 0, !.listening = {}, !.socket = socket] BY <1>1 DEF Coordinator
<1> HIDE DEF socket, j
<1>4. /\ j \in Coordinator /\ j.state = k.state /\ j.revision = k.revision /\ j.timer = k.timer
      /\ j.pending = k.pending /\ j.disposed = k.disposed
      /\ j.transportDisposed = k.transportDisposed /\ j.started = k.started
      /\ j.launch = k.launch /\ j.listening = {} /\ j.opening = k.opening
      /\ j.opened = k.opened /\ j.client = 0 /\ j.socket = socket
  BY <1>1, <1>2, <1>3 DEF Coordinator
<1>5. phase \in {"opening", "acting"} /\ j.listening \subseteq k.listening BY <1>4
<1> HIDE DEF phase
<1>6. /\ r \in Coordinator /\ UpToDate(r) /\ Progressing(r) /\ Ahead(r, k) /\ Same(r, k)
      /\ r.opening = j.opening /\ r.opened = j.opened /\ r.client = j.client
      /\ r.socket = j.socket
      /\ \A x \in Edits : r.launch[x] = IF k.launch[x] = phase THEN "ended" ELSE k.launch[x]
  BY <1>4, <1>5, Rejecting
<1> HIDE DEF r
<1>7. Attended(r) BY <1>1, <1>2, <1>4, <1>6 DEF Coordinated, Attended, phase
<1>8. Coordinated(r) /\ Ahead(r, k) /\ Same(r, k) BY <1>6, <1>7 DEF Coordinated
<1> QED BY <1>8 DEF r, j, phase

\* Disposal: nothing is shown any more, whatever is under way.
LEMMA Disposing ==
  ASSUME NEW k, Coordinated(k), ~k.disposed
  PROVE  LET r == dispose(k)
         IN /\ Coordinated(r) /\ Ahead(r, k)
            /\ r.disposed /\ r.pending = 0 /\ r.revision = k.revision + 1
<1> DEFINE revision == k.revision + 1
           i == [k EXCEPT !.timer = 0, !.disposed = TRUE, !.revision = @ + 1, !.pending = 0]
           socket == [x \in Sockets |-> IF x = k.client THEN "disposed" ELSE k.socket[x]]
           j == [i EXCEPT !.transportDisposed = TRUE, !.listening = {}, !.client = 0,
                          !.socket = [x \in Sockets |-> IF x = i.client THEN "disposed" ELSE @[x]]]
           phase == "acting"
           r == rejected(j, phase)
<1>1. k \in Coordinator /\ k.transportDisposed = FALSE /\ revision \in 0..MaxEdits + 1
  <2>1. k \in Coordinator BY DEF Coordinated
  <2>2. k.transportDisposed \in BOOLEAN /\ k.revision \in 0..MaxEdits + 1 BY <2>1 DEF Coordinator
  <2>3. ~k.transportDisposed /\ k.revision <= MaxEdits BY DEF Coordinated, UpToDate
  <2>4. revision \in 0..MaxEdits + 1 BY <2>2, <2>3, ConstantsAssumption
  <2> QED BY <2>1, <2>2, <2>3, <2>4
<1>2. /\ i \in Coordinator /\ i.state = k.state /\ i.revision = k.revision + 1 /\ i.timer = 0
      /\ i.pending = 0 /\ i.disposed = TRUE /\ i.transportDisposed = FALSE
      /\ i.started = k.started /\ i.launch = k.launch /\ i.listening = k.listening
      /\ i.opening = k.opening /\ i.opened = k.opened /\ i.client = k.client
      /\ i.socket = k.socket
  <2>1. revision \in 0..MaxEdits + 1 BY <1>1
  <2>2. i = [k EXCEPT !.timer = 0, !.disposed = TRUE, !.revision = revision, !.pending = 0] OBVIOUS
  <2> HIDE DEF i, revision
  <2>3. i \in Coordinator BY <1>1, <2>1, <2>2 DEF Coordinator
  <2>4. i.revision = revision /\ i.timer = 0 /\ i.pending = 0 /\ i.disposed = TRUE
    BY <1>1, <2>2 DEF Coordinator
  <2>5. i.transportDisposed = FALSE
    <3>1. i.transportDisposed = k.transportDisposed BY <1>1, <2>2 DEF Coordinator
    <3> QED BY <1>1, <3>1
  <2>6. /\ i.state = k.state /\ i.started = k.started /\ i.launch = k.launch
        /\ i.listening = k.listening /\ i.opening = k.opening /\ i.opened = k.opened
        /\ i.client = k.client /\ i.socket = k.socket
    BY <1>1, <2>2 DEF Coordinator
  <2> QED BY <2>3, <2>4, <2>5, <2>6 DEF revision
<1>3. dispose(k) = dispose_transport(i) BY DEF dispose
<1> HIDE DEF i
<1>4. dispose(k) = r BY <1>2, <1>3 DEF dispose_transport
<1>5. socket \in [Sockets -> SocketStates]
      /\ \A x \in Sockets : socket[x] = IF x = k.client THEN "disposed" ELSE k.socket[x]
  BY <1>1 DEF Coordinator, SocketStates
<1>6. j = [i EXCEPT !.transportDisposed = TRUE, !.listening = {}, !.client = 0, !.socket = socket]
  BY <1>2
<1> HIDE DEF socket, j
<1>7. /\ j \in Coordinator /\ j.state = k.state /\ j.revision = k.revision + 1 /\ j.timer = 0
      /\ j.pending = 0 /\ j.disposed = TRUE /\ j.transportDisposed = TRUE
      /\ j.started = k.started /\ j.launch = k.launch /\ j.listening = {}
      /\ j.opening = k.opening /\ j.opened = k.opened /\ j.client = 0
      /\ j.socket = socket
  BY <1>2, <1>5, <1>6 DEF Coordinator
<1>8. phase \in {"opening", "acting"} OBVIOUS
<1> DEFINE told == j.pending \in Edits /\ j.launch[j.pending] = phase /\ current(j, j.pending)
<1>9. /\ r \in Coordinator /\ Undisturbed(r, j)
      /\ \A x \in Edits : r.launch[x] = IF j.launch[x] = phase THEN "ended" ELSE j.launch[x]
      /\ r.listening = {x \in j.listening : j.launch[x] # phase}
      /\ ~told => r.state = j.state
  BY <1>7, <1>8, Rejected
<1>10. ~told BY <1>7 DEF current
<1> HIDE DEF r, told
<1>11. /\ r.state = k.state /\ r.revision = k.revision + 1 /\ r.timer = 0 /\ r.pending = 0
       /\ r.disposed = TRUE /\ r.transportDisposed = TRUE /\ r.listening = {}
       /\ r.opening = k.opening /\ r.opened = k.opened /\ r.client = 0 /\ r.socket = socket
       /\ \A x \in Edits : r.launch[x] = IF k.launch[x] = phase THEN "ended" ELSE k.launch[x]
  BY <1>7, <1>9, <1>10 DEF Undisturbed
<1>12. UpToDate(r)
  <2>1. k.revision \in Nat BY <1>1, ConstantsAssumption DEF Coordinator
  <2>2. \A x \in Edits : x > k.revision + 1 => x > k.revision BY <2>1, ConstantsAssumption DEF Edits
  <2>3. \A x \in Edits : x > k.revision => k.launch[x] = "none" BY DEF Coordinated, UpToDate
  <2>4. \A x \in Edits : x > r.revision => r.launch[x] = "none" BY <1>11, <2>2, <2>3 DEF phase
  <2> QED BY <1>11, <2>4 DEF UpToDate
<1>13. Progressing(r) BY <1>11 DEF Progressing
<1>14. Attended(r) BY <1>5, <1>11 DEF Coordinated, Attended, phase
<1>15. Ahead(r, k)
  <2>1. k.state.status \in Statuses BY <1>1 DEF Coordinator, Published
  <2>2. Rank(r.state.status) >= Rank(k.state.status) BY <1>11, <2>1, Ranks
  <2> QED BY <1>11, <2>2 DEF Ahead
<1> QED BY <1>4, <1>9, <1>11, <1>12, <1>13, <1>14, <1>15 DEF Coordinated

\* The client is installed, and the requests that waited are of its.
LEMMA Installing ==
  ASSUME NEW k, Coordinated(k), k.opening = "creating"
  PROVE  Coordinated(installed(k)) /\ Ahead(installed(k), k) /\ Same(installed(k), k)
<1> DEFINE waiting == {x \in Edits : k.launch[x] = "opening"}
           phases == [x \in Edits |-> IF x \in waiting THEN "acting" ELSE k.launch[x]]
           listening == k.listening \union waiting
           socket == [i \in Sockets |-> IF k.transportDisposed /\ i = k.opened THEN "stranded" ELSE k.socket[i]]
           r == installed(k)
<1>1. k \in Coordinator /\ k.opened # 0 /\ k.client = 0 BY DEF Coordinated, Attended
<1>2. phases \in [Edits -> Phases]
      /\ \A x \in Edits : phases[x] = IF k.launch[x] = "opening" THEN "acting" ELSE k.launch[x]
  BY <1>1 DEF Coordinator, Phases
<1>3. listening \in SUBSET Edits
      /\ \A x \in listening : x \in Edits /\ (x \in k.listening \/ k.launch[x] = "opening")
  BY <1>1 DEF Coordinator
<1>4. k.opened \in Nat /\ k.opened \in Sockets
  BY <1>1, ConstantsAssumption DEF Coordinator, Sockets
<1>5. r = [k EXCEPT !.opening = "none", !.client = k.opened, !.socket = socket, !.launch = phases,
                    !.listening = listening]
  BY <1>1 DEF installed, Coordinator
<1>11. /\ socket \in [Sockets -> SocketStates]
       /\ \A i \in Sockets : socket[i] = IF k.transportDisposed /\ i = k.opened THEN "stranded" ELSE k.socket[i]
  BY <1>1 DEF Coordinator, SocketStates
<1> HIDE DEF phases, listening, socket, r, waiting
<1>6. /\ r \in Coordinator /\ r.state = k.state /\ r.revision = k.revision /\ r.timer = k.timer
      /\ r.pending = k.pending /\ r.disposed = k.disposed
      /\ r.transportDisposed = k.transportDisposed /\ r.started = k.started
      /\ r.launch = phases /\ r.listening = listening /\ r.opening = "none"
      /\ r.opened = k.opened /\ r.client = k.opened /\ r.socket = socket
  BY <1>1, <1>2, <1>3, <1>4, <1>5, <1>11 DEF Coordinator
<1>7. UpToDate(r) BY <1>2, <1>6 DEF Coordinated, UpToDate
<1>8. Progressing(r)
  <2>1. ASSUME NEW x \in r.listening PROVE r.launch[x] = "acting"
    BY <1>2, <1>3, <1>6 DEF Coordinated, Progressing
  <2>2. k.pending # 0 => k.pending \in Edits BY DEF Coordinated, UpToDate
  <2> QED BY <1>2, <1>6, <2>1, <2>2 DEF Coordinated, Progressing
<1>9. Attended(r)
  <2>1. k.opened # 0 /\ \A i \in Sockets : i # 0 BY <1>1, ConstantsAssumption DEF Sockets
  <2>2. \A i \in Sockets : k.socket[i] # "stranded" BY <1>1, <2>1 DEF Coordinated, Attended
  <2> QED BY <1>1, <1>2, <1>4, <1>6, <1>11, <2>1, <2>2 DEF Coordinated, Attended
<1>10. Ahead(r, k)
  <2>1. k.state.status \in Statuses BY <1>1 DEF Coordinator, Published
  <2>2. Rank(r.state.status) >= Rank(k.state.status) BY <1>6, <2>1, Ranks
  <2> QED BY <1>2, <1>6, <2>2 DEF Ahead
<1> QED BY <1>6, <1>7, <1>8, <1>9, <1>10 DEF Coordinated, Same, r

\* A socket is created for the opening: no other one is live.
LEMMA Bootstrapping ==
  ASSUME NEW k, Coordinated(k), k.opening = "bootstrap", k.opened < MaxSockets
  PROVE  LET r == [k EXCEPT !.opening = "ready", !.opened = @ + 1, !.socket[k.opened + 1] = "live"]
         IN Coordinated(r) /\ Ahead(r, k) /\ Same(r, k)
<1> DEFINE n == k.opened + 1
           socket == [k.socket EXCEPT ![n] = "live"]
           r == [k EXCEPT !.opening = "ready", !.opened = @ + 1, !.socket[k.opened + 1] = "live"]
<1>1. k \in Coordinator /\ k.client = 0 BY DEF Coordinated, Attended
<1>2. n \in 0..MaxSockets /\ n \in Sockets /\ n # 0
  BY <1>1, ConstantsAssumption DEF Coordinator, Sockets
<1>3. socket \in [Sockets -> SocketStates]
      /\ \A i \in Sockets : socket[i] = IF i = n THEN "live" ELSE k.socket[i]
  BY <1>1, <1>2 DEF Coordinator, SocketStates
<1>4. r = [k EXCEPT !.opening = "ready", !.opened = n, !.socket = socket] BY <1>1 DEF Coordinator
<1> HIDE DEF n, socket, r
<1>5. /\ r \in Coordinator /\ r.state = k.state /\ r.revision = k.revision /\ r.timer = k.timer
      /\ r.pending = k.pending /\ r.disposed = k.disposed
      /\ r.transportDisposed = k.transportDisposed /\ r.started = k.started
      /\ r.launch = k.launch /\ r.listening = k.listening /\ r.opening = "ready"
      /\ r.opened = n /\ r.client = k.client /\ r.socket = socket
  BY <1>1, <1>2, <1>3, <1>4 DEF Coordinator
<1>6. UpToDate(r) BY <1>5 DEF Coordinated, UpToDate
<1>7. Progressing(r) BY <1>5 DEF Coordinated, Progressing
<1>8. Attended(r)
  <2>1. \A i \in Sockets : i # 0 BY ConstantsAssumption DEF Sockets
  <2> QED BY <1>1, <1>2, <1>3, <1>5, <2>1 DEF Coordinated, Attended
<1>9. Ahead(r, k)
  <2>1. k.state.status \in Statuses BY <1>1 DEF Coordinator, Published
  <2> QED BY <1>5, <2>1, Ranks DEF Ahead
<1> QED BY <1>5, <1>6, <1>7, <1>8, <1>9 DEF Coordinated, Same, r

LEMMA Creating ==
  ASSUME NEW k, Coordinated(k), k.opening = "ready"
  PROVE  LET r == [k EXCEPT !.opening = "creating"] IN Coordinated(r) /\ Ahead(r, k) /\ Same(r, k)
<1> DEFINE r == [k EXCEPT !.opening = "creating"]
<1>1. k \in Coordinator BY DEF Coordinated
<1>2. /\ r \in Coordinator /\ r.state = k.state /\ r.revision = k.revision /\ r.timer = k.timer
      /\ r.pending = k.pending /\ r.disposed = k.disposed
      /\ r.transportDisposed = k.transportDisposed /\ r.started = k.started
      /\ r.launch = k.launch /\ r.listening = k.listening /\ r.opening = "creating"
      /\ r.opened = k.opened /\ r.client = k.client /\ r.socket = k.socket
  BY <1>1 DEF Coordinator
<1> HIDE DEF r
<1>3. UpToDate(r) BY <1>2 DEF Coordinated, UpToDate
<1>4. Progressing(r) BY <1>2 DEF Coordinated, Progressing
<1>5. Attended(r) BY <1>2 DEF Coordinated, Attended
<1>6. Ahead(r, k)
  <2>1. k.state.status \in Statuses BY <1>1 DEF Coordinator, Published
  <2> QED BY <1>2, <2>1, Ranks DEF Ahead
<1> QED BY <1>2, <1>3, <1>4, <1>5, <1>6 DEF Coordinated, Same, r

\* Only the pending edit, and nothing else about it, is current.
LEMMA Current ==
  ASSUME NEW k, Coordinated(k), NEW e \in Edits
  PROVE  current(k, e) <=> k.pending = e
BY ConstantsAssumption DEF Coordinated, UpToDate, current, Edits

\* A progress event, at its place in the run, of whichever edit.
LEMMA Progressed ==
  ASSUME NEW k, Coordinated(k), NEW e \in k.listening, NEW status \in {"queued", "verifying"},
         status = "queued" => ~k.started[e]
  PROVE  LET r == about([k EXCEPT !.started[e] = (status = "verifying")], e, status)
         IN Coordinated(r) /\ Ahead(r, k) /\ Same(r, k)
<1> DEFINE begun == (status = "verifying")
           started == [k.started EXCEPT ![e] = begun]
           j == [k EXCEPT !.started[e] = (status = "verifying")]
           r == about(j, e, status)
<1>1. k \in Coordinator /\ e \in Edits /\ k.launch[e] = "acting" /\ status \in Statuses
  BY DEF Coordinated, Progressing, Coordinator, Statuses
<1>2. begun \in BOOLEAN OBVIOUS
<1>3. j = [k EXCEPT !.started = started] BY <1>1 DEF Coordinator
<1>4. begun <=> status = "verifying" OBVIOUS
<1> HIDE DEF begun
<1>5. /\ started \in [Edits -> BOOLEAN] /\ started[e] = begun
      /\ \A x \in Edits : x # e => started[x] = k.started[x]
  BY <1>1, <1>2 DEF Coordinator
<1> HIDE DEF started, j
<1>6. /\ j \in Coordinator /\ j.state = k.state /\ j.revision = k.revision /\ j.timer = k.timer
      /\ j.pending = k.pending /\ j.disposed = k.disposed
      /\ j.transportDisposed = k.transportDisposed /\ j.started = started
      /\ j.launch = k.launch /\ j.listening = k.listening /\ j.opening = k.opening
      /\ j.opened = k.opened /\ j.client = k.client /\ j.socket = k.socket
  BY <1>1, <1>3, <1>5 DEF Coordinator
<1>7. /\ r \in Coordinator /\ Undisturbed(r, j) /\ r.launch = j.launch /\ r.listening = j.listening
      /\ ~current(j, e) => r.state = j.state
      /\ current(j, e) => r.state.status = status /\ r.state.revision = e
  BY <1>1, <1>6, About
<1> HIDE DEF r
<1>8. current(j, e) <=> k.pending = e BY <1>1, <1>6, Current DEF current
<1>9. /\ r.revision = k.revision /\ r.timer = k.timer /\ r.pending = k.pending
      /\ r.disposed = k.disposed /\ r.transportDisposed = k.transportDisposed
      /\ r.started = started /\ r.launch = k.launch /\ r.listening = k.listening
      /\ r.opening = k.opening /\ r.opened = k.opened /\ r.client = k.client
      /\ r.socket = k.socket
      /\ k.pending # e => r.state = k.state
      /\ k.pending = e => r.state.status = status /\ r.state.revision = e
  BY <1>6, <1>7, <1>8 DEF Undisturbed
<1>10. UpToDate(r)
  <2>1. e # 0 BY <1>1, ConstantsAssumption DEF Edits
  <2>2. k.pending = e => k.timer = 0 BY <1>1, <2>1 DEF Coordinated, UpToDate
  <2> QED BY <1>1, <1>9, <2>1, <2>2 DEF Coordinated, UpToDate
<1>11. Progressing(r)
  <2>1. k.pending # 0 => k.pending \in Edits BY DEF Coordinated, UpToDate
  <2> QED BY <1>1, <1>4, <1>5, <1>9, <2>1 DEF Coordinated, Progressing
<1>12. Attended(r) BY <1>9 DEF Coordinated, Attended
<1>13. Ahead(r, k)
  <2>1. k.state.status \in Statuses BY <1>1 DEF Coordinator, Published
  <2>2. k.pending = e => \/ k.state.status = "queued"
                         \/ k.state.status = "verifying" /\ status = "verifying"
    <3>1. e # 0 BY <1>1, ConstantsAssumption DEF Edits
    <3> QED BY <1>1, <3>1 DEF Coordinated, Progressing
  <2>3. Rank(r.state.status) >= Rank(k.state.status) BY <1>9, <2>1, <2>2, Ranks
  <2> QED BY <1>9, <2>3 DEF Ahead
<1> QED BY <1>7, <1>9, <1>10, <1>11, <1>12, <1>13 DEF Coordinated, Same, r, j

\* A request is over, and nothing is said of it.
LEMMA Dropping ==
  ASSUME NEW k, Coordinated(k), NEW e \in Edits, k.launch[e] \in {"acting", "certifying"},
         NEW j \in Coordinator, j.state = k.state, Undisturbed(j, k),
         j.listening \subseteq k.listening, e \notin j.listening,
         \A x \in Edits : j.launch[x] = IF x = e THEN "dropped" ELSE k.launch[x]
  PROVE  Coordinated(j) /\ Ahead(j, k) /\ Same(j, k)
<1>1. /\ j.revision = k.revision /\ j.timer = k.timer /\ j.pending = k.pending
      /\ j.disposed = k.disposed /\ j.transportDisposed = k.transportDisposed
      /\ j.started = k.started /\ j.opening = k.opening /\ j.opened = k.opened
      /\ j.client = k.client /\ j.socket = k.socket
  BY DEF Undisturbed
<1>2. e # 0 /\ (k.pending # 0 => k.pending \in Edits)
  BY ConstantsAssumption DEF Coordinated, UpToDate, Edits
<1>3. UpToDate(j) BY <1>1, <1>2 DEF Coordinated, UpToDate
<1>4. Progressing(j)
  <2>1. ASSUME NEW x \in j.listening PROVE j.launch[x] = "acting"
    <3>1. x \in Edits /\ x # e /\ k.launch[x] = "acting" BY DEF Coordinated, Progressing, Coordinator
    <3> QED BY <3>1
  <2> QED BY <1>1, <1>2, <2>1 DEF Coordinated, Progressing
<1>5. Attended(j) BY <1>1 DEF Coordinated, Attended
<1>6. Ahead(j, k)
  <2>1. k.state.status \in Statuses BY DEF Coordinated, Coordinator, Published
  <2> QED BY <2>1, Ranks DEF Ahead
<1> QED BY <1>1, <1>3, <1>4, <1>5, <1>6 DEF Coordinated, Same

\* A request comes to its end, or to its certificate: its edit shows so, if
\* it is still the pending one.
LEMMA Concluding ==
  ASSUME NEW k, Coordinated(k), NEW e \in Edits, k.launch[e] \in {"acting", "certifying"},
         NEW phase \in {"ended", "certifying"}, NEW status \in Statuses, NEW j \in Coordinator,
         j.state = k.state, Undisturbed(j, k), j.listening \subseteq k.listening, e \notin j.listening,
         \A x \in Edits : j.launch[x] = IF x = e THEN phase ELSE k.launch[x],
         phase = "certifying" => status = "browser-check" /\ k.launch[e] = "acting",
         phase = "ended" => \/ status \in {"verified", "failed", "unavailable"}
                            \/ status = "parsed" /\ k.launch[e] = "acting"
  PROVE  LET r == about(j, e, status) IN Coordinated(r) /\ Ahead(r, k) /\ Same(r, k)
<1> DEFINE r == about(j, e, status)
<1>1. /\ r \in Coordinator /\ Undisturbed(r, j) /\ r.launch = j.launch /\ r.listening = j.listening
      /\ ~current(j, e) => r.state = j.state
      /\ current(j, e) => r.state.status = status /\ r.state.revision = e
  BY About
<1> HIDE DEF r
<1>2. current(j, e) <=> k.pending = e BY Current DEF current, Undisturbed
<1>3. /\ r.revision = k.revision /\ r.timer = k.timer /\ r.pending = k.pending
      /\ r.disposed = k.disposed /\ r.transportDisposed = k.transportDisposed
      /\ r.started = k.started /\ r.opening = k.opening /\ r.opened = k.opened
      /\ r.client = k.client /\ r.socket = k.socket
      /\ k.pending # e => r.state = k.state
      /\ k.pending = e => r.state.status = status /\ r.state.revision = e
  BY <1>1, <1>2 DEF Undisturbed
<1>4. \A x \in Edits : r.launch[x] = IF x = e THEN phase ELSE k.launch[x] BY <1>1
<1>5. e # 0 /\ (k.pending # 0 => k.pending \in Edits)
  BY ConstantsAssumption DEF Coordinated, UpToDate, Edits
<1>6. UpToDate(r) BY <1>3, <1>4, <1>5 DEF Coordinated, UpToDate
<1>7. Progressing(r)
  <2>1. ASSUME NEW x \in r.listening PROVE r.launch[x] = "acting"
    <3>1. x \in Edits /\ x # e /\ k.launch[x] = "acting"
      BY <1>1 DEF Coordinated, Progressing, Coordinator
    <3> QED BY <1>4, <3>1
  <2> QED BY <1>3, <1>4, <1>5, <2>1 DEF Coordinated, Progressing
<1>8. Attended(r) BY <1>3, <1>4 DEF Coordinated, Attended
<1>9. Ahead(r, k)
  <2>1. k.state.status \in Statuses BY DEF Coordinated, Coordinator, Published
  <2>2. k.pending = e => k.pending = k.revision BY <1>5 DEF Coordinated, UpToDate
  <2>3. k.pending = e /\ k.launch[e] = "acting" => k.state.status \in {"queued", "verifying"}
    BY <1>5 DEF Coordinated, Progressing
  <2>4. \/ Rank(r.state.status) >= Rank(k.state.status)
        \/ r.state.status = "parsed" /\ k.launch[k.revision] = "acting"
    BY <1>3, <2>1, <2>2, <2>3, Ranks
  <2> QED BY <1>4, <2>4 DEF Ahead
<1> QED BY <1>1, <1>3, <1>6, <1>7, <1>8, <1>9 DEF Coordinated, Same, r

\* An edit begins anew, pending if its source was admitted.
LEMMA Editing ==
  ASSUME NEW k, Coordinated(k), ~k.disposed, k.revision + 1 \in Edits,
         NEW entry \in Format, NEW admitted \in {"ok", "large", "invalid"}
  PROVE  LET r == edit(k, entry, admitted)
         IN /\ Coordinated(r) /\ Ahead(r, k)
            /\ ~r.disposed /\ r.revision = k.revision + 1
            /\ r.pending = IF admitted = "invalid" THEN 0 ELSE k.revision + 1
<1> DEFINE e == k.revision + 1
           entries == [k.entryOf EXCEPT ![e] = entry]
           begun == [k EXCEPT !.revision = e, !.timer = 0, !.pending = 0, !.entryOf[e] = entry]
           candidate == [begun EXCEPT !.pending = e]
           r == edit(k, entry, admitted)
           Begun(j) == /\ j \in Coordinator /\ j.state = k.state /\ j.revision = e
                       /\ j.disposed = k.disposed /\ j.transportDisposed = k.transportDisposed
                       /\ j.launch = k.launch /\ j.started = k.started /\ j.opening = k.opening
                       /\ j.opened = k.opened /\ j.client = k.client /\ j.socket = k.socket
                       /\ j.listening = k.listening /\ j.timer = 0
<1>1. /\ k \in Coordinator /\ k.revision \in Nat /\ e \in Nat /\ e \in Edits /\ e # 0
      /\ e # k.revision /\ k.state.revision = k.revision
      /\ e \in 0..MaxEdits /\ e \in 0..MaxEdits + 1 /\ e <= MaxEdits
  <2>1. k \in Coordinator BY DEF Coordinated
  <2>2. k.revision \in Nat BY <2>1, ConstantsAssumption DEF Coordinator
  <2>3. e \in 0..MaxEdits /\ e \in 0..MaxEdits + 1 /\ e <= MaxEdits BY ConstantsAssumption DEF Edits
  <2> QED BY <2>1, <2>2, <2>3 DEF Coordinated, UpToDate
<1>2. entries \in [Edits -> Format \union {None}] BY <1>1 DEF Coordinator
<1>3. begun = [k EXCEPT !.revision = e, !.timer = 0, !.pending = 0, !.entryOf = entries]
  BY <1>1 DEF Coordinator
<1>4. r = IF admitted = "invalid" THEN publish(begun, "invalid", entry, e)
          ELSE IF admitted = "large" THEN publish(candidate, "unavailable", entry, e)
          ELSE [publish(candidate, "parsed", entry, e) EXCEPT !.timer = e]
  BY DEF edit
<1> HIDE DEF entries, begun, e
<1>5. Begun(begun) /\ begun.pending = 0 BY <1>1, <1>2, <1>3 DEF Coordinator
<1>6. Begun(candidate) /\ candidate.pending = e BY <1>1, <1>5 DEF Coordinator
<1> HIDE DEF candidate
<1> DEFINE Shows(j, status) ==
      /\ j \in Coordinator /\ j.state.status = status /\ j.state.revision = e
      /\ j.revision = e /\ ~j.disposed /\ ~j.transportDisposed
      /\ j.launch = k.launch /\ j.started = k.started /\ j.opening = k.opening
      /\ j.opened = k.opened /\ j.client = k.client /\ j.socket = k.socket
      /\ j.listening = k.listening
<1>7. ~k.transportDisposed /\ entry \in Format \union {None} BY DEF Coordinated, UpToDate
<1>8. ASSUME NEW j, Begun(j), NEW status \in Statuses
      PROVE  LET q == publish(j, status, entry, e)
             IN Shows(q, status) /\ q.pending = j.pending /\ q.timer = 0
  <2> DEFINE q == publish(j, status, entry, e)
  <2>1. /\ q \in Coordinator /\ Undisturbed(q, j) /\ q.launch = j.launch /\ q.listening = j.listening
        /\ ~j.disposed => q.state.status = status /\ q.state.revision = e
    BY <1>1, <1>7, <1>8, Publishing
  <2> HIDE DEF q
  <2> QED BY <1>7, <1>8, <2>1 DEF Undisturbed, q
<1>9. "invalid" \in Statuses /\ "unavailable" \in Statuses /\ "parsed" \in Statuses BY DEF Statuses
<1>10. ASSUME NEW q, NEW status \in Statuses, Shows(q, status),
              \/ q.pending = 0 /\ q.timer = 0 /\ status = "invalid"
              \/ q.pending = e /\ q.timer = 0 /\ status = "unavailable"
              \/ q.pending = e /\ q.timer = e /\ status = "parsed"
       PROVE  Coordinated(q) /\ Ahead(q, k)
  <2>1. k.launch[e] = "none" BY <1>1 DEF Coordinated, UpToDate, e
  <2>2. UpToDate(q)
    <3>1. \A x \in Edits : x > e => x > k.revision BY <1>1, ConstantsAssumption DEF Edits, e
    <3> QED BY <1>1, <1>10, <2>1, <3>1 DEF Coordinated, UpToDate
  <2>3. Progressing(q) BY <1>1, <1>10, <2>1 DEF Coordinated, Progressing
  <2>4. Attended(q) BY <1>7, <1>10 DEF Coordinated, Attended
  <2>5. Ahead(q, k) BY <1>1, <1>10 DEF Ahead
  <2> QED BY <1>10, <2>2, <2>3, <2>4, <2>5 DEF Coordinated
<1>11. CASE admitted = "invalid"
  <2>1. Shows(r, "invalid") /\ r.pending = 0 /\ r.timer = 0 BY <1>4, <1>5, <1>8, <1>9, <1>11
  <2> HIDE DEF r, Shows
  <2>2. Coordinated(r) /\ Ahead(r, k) BY <1>9, <1>10, <2>1
  <2> QED BY <1>11, <2>1, <2>2 DEF Shows, r, e
<1>12. CASE admitted = "large"
  <2>1. Shows(r, "unavailable") /\ r.pending = e /\ r.timer = 0 BY <1>4, <1>6, <1>8, <1>9, <1>12
  <2> HIDE DEF r, Shows
  <2>2. Coordinated(r) /\ Ahead(r, k) BY <1>9, <1>10, <2>1
  <2> QED BY <1>12, <2>1, <2>2 DEF Shows, r, e
<1>13. CASE admitted = "ok"
  <2> DEFINE q == publish(candidate, "parsed", entry, e)
  <2>1. Shows(q, "parsed") /\ q.pending = e BY <1>6, <1>8, <1>9
  <2>2. r = [q EXCEPT !.timer = e] BY <1>4, <1>13
  <2> HIDE DEF q, r
  <2>3. Shows(r, "parsed") /\ r.pending = e /\ r.timer = e BY <1>1, <2>1, <2>2 DEF Coordinator
  <2> HIDE DEF Shows
  <2>4. Coordinated(r) /\ Ahead(r, k) BY <1>9, <1>10, <2>3
  <2> QED BY <1>13, <2>3, <2>4 DEF Shows, r, e
<1> QED BY <1>11, <1>12, <1>13

\* Whatever answers, at whatever time.
LEMMA RemoteStep ==
  ASSUME Coordinated(p), Remote
  PROVE  Coordinated(p') /\ Ahead(p', p) /\ Same(p', p) /\ u' = u
<1>1. u' = u BY DEF Remote
<1>2. CASE DebounceOver
  <2>1. p.timer # 0 /\ p' = launch([p EXCEPT !.timer = 0], p.timer) BY <1>2 DEF DebounceOver
  <2> QED BY <1>1, <2>1, Launching
<1>3. CASE Bootstrapped BY <1>1, <1>3, Bootstrapping DEF Bootstrapped
<1>4. CASE SocketReady
  <2>1. p.opening = "ready" BY <1>4 DEF SocketReady
  <2>2. CASE p.transportDisposed
    <3>1. p' = open_failed(p) BY <1>4, <2>2 DEF SocketReady
    <3> QED BY <1>1, <2>1, <3>1, Failing
  <2>3. CASE ~p.transportDisposed
    <3>1. p' = [p EXCEPT !.opening = "creating"] BY <1>4, <2>3 DEF SocketReady
    <3> QED BY <1>1, <2>1, <3>1, Creating
  <2> QED BY <2>2, <2>3
<1>5. CASE SessionCreated BY <1>1, <1>5, Installing DEF SessionCreated
<1>6. CASE OpeningFails BY <1>1, <1>6, Failing DEF OpeningFails
<1>7. CASE SocketClosed
  <2>1. p.client # 0 BY <1>7 DEF SocketClosed
  <2> QED BY <1>1, <1>7, <2>1, Closing DEF SocketClosed
<1>8. ASSUME NEW e \in Edits, NEW status \in {"queued", "verifying"}, Progress(e, status)
      PROVE  Coordinated(p') /\ Ahead(p', p) /\ Same(p', p)
  BY <1>8, Progressed DEF Progress
<1>9. ASSUME NEW e \in Edits, NEW reply \in ResultStatus, Answered(e, reply)
      PROVE  Coordinated(p') /\ Ahead(p', p) /\ Same(p', p)
  <2> DEFINE listening == p.listening \ {e}
             answered == stopEvents(p, e)
             over == ended(answered, e)
             certifying == [answered EXCEPT !.launch[e] = "certifying"]
             silent == dropped(answered, e)
  <2>1. p \in Coordinator /\ p.launch[e] = "acting" BY <1>9 DEF Coordinated, Answered
  <2>2. listening \in SUBSET Edits BY <2>1 DEF Coordinator
  <2>3. answered \in Coordinator /\ Undisturbed(answered, p) /\ answered.state = p.state
        /\ answered.launch = p.launch /\ answered.listening = listening
    <3>1. answered = [p EXCEPT !.listening = listening] BY DEF stopEvents
    <3> HIDE DEF answered, listening
    <3> QED BY <2>1, <2>2, <3>1 DEF Coordinator, Undisturbed
  <2>4. p' = IF ~current(p, e) THEN over
             ELSE CASE reply = "error" -> about(over, e, "unavailable")
                    [] reply = "other" -> silent
                    [] reply = "withdrawn" -> about(over, e, "parsed")
                    [] reply = "failed" -> about(over, e, "failed")
                    [] OTHER -> about(certifying, e, "browser-check")
    BY <1>9 DEF Answered
  <2>5. listening \subseteq p.listening /\ e \notin listening OBVIOUS
  <2>6. /\ over = [answered EXCEPT !.launch[e] = "ended"]
        /\ silent = [answered EXCEPT !.launch[e] = "dropped"]
    BY DEF ended, dropped
  <2> HIDE DEF answered, listening
  <2>7. "ended" \in Phases /\ "certifying" \in Phases /\ "dropped" \in Phases BY DEF Phases
  <2>8. ASSUME NEW phase \in {"ended", "certifying", "dropped"}
        PROVE  LET j == [answered EXCEPT !.launch[e] = phase]
               IN /\ j \in Coordinator /\ j.state = p.state /\ Undisturbed(j, p)
                  /\ j.listening = listening
                  /\ \A x \in Edits : j.launch[x] = IF x = e THEN phase ELSE p.launch[x]
    <3> DEFINE j == [answered EXCEPT !.launch[e] = phase]
    <3>1. phase \in Phases BY <2>7
    <3>2. /\ j \in Coordinator /\ Undisturbed(j, answered) /\ j.state = answered.state
          /\ j.listening = answered.listening
          /\ \A x \in Edits : j.launch[x] = IF x = e THEN phase ELSE answered.launch[x]
      BY <2>3, <3>1, PhaseSet
    <3> HIDE DEF j
    <3>3. Undisturbed(j, p) BY <2>3, <3>2 DEF Undisturbed
    <3> QED BY <2>3, <3>2, <3>3 DEF j
  <2>9. /\ over \in Coordinator /\ over.state = p.state /\ Undisturbed(over, p)
        /\ over.listening = listening
        /\ \A x \in Edits : over.launch[x] = IF x = e THEN "ended" ELSE p.launch[x]
    BY <2>6, <2>8
  <2>10. /\ certifying \in Coordinator /\ certifying.state = p.state /\ Undisturbed(certifying, p)
         /\ certifying.listening = listening
         /\ \A x \in Edits : certifying.launch[x] = IF x = e THEN "certifying" ELSE p.launch[x]
    BY <2>8
  <2>15. /\ silent \in Coordinator /\ silent.state = p.state /\ Undisturbed(silent, p)
         /\ silent.listening = listening
         /\ \A x \in Edits : silent.launch[x] = IF x = e THEN "dropped" ELSE p.launch[x]
    BY <2>6, <2>8
  <2> HIDE DEF over, certifying, silent
  <2> DEFINE Step(q) == Coordinated(q) /\ Ahead(q, p) /\ Same(q, p)
  <2>11. ASSUME NEW status \in {"unavailable", "parsed", "failed"}
         PROVE  Step(about(over, e, status))
    <3>1. status \in Statuses /\ "ended" \in {"ended", "certifying"} BY DEF Statuses
    <3>2. p.launch[e] \in {"acting", "certifying"} BY <2>1
    <3> DEFINE phase == "ended"
    <3>3. phase \in {"ended", "certifying"} /\ phase = "ended" /\ phase # "certifying" OBVIOUS
    <3>4. \A x \in Edits : over.launch[x] = IF x = e THEN phase ELSE p.launch[x] BY <2>9
    <3> HIDE DEF phase
    <3> QED BY <2>1, <2>5, <2>9, <3>1, <3>2, <3>3, <3>4, Concluding
  <2>12. Step(about(certifying, e, "browser-check"))
    <3> DEFINE phase == "certifying"
               status == "browser-check"
    <3>1. /\ status \in Statuses /\ phase \in {"ended", "certifying"} /\ phase # "ended"
          /\ status = "browser-check"
      BY DEF Statuses
    <3>2. p.launch[e] \in {"acting", "certifying"} BY <2>1
    <3>3. \A x \in Edits : certifying.launch[x] = IF x = e THEN phase ELSE p.launch[x] BY <2>10
    <3> HIDE DEF phase, status
    <3>4. Step(about(certifying, e, status))
      BY <2>1, <2>5, <2>10, <3>1, <3>2, <3>3, Concluding
    <3> QED BY <3>4 DEF status
  <2>16. Step(silent)
    <3>1. p.launch[e] \in {"acting", "certifying"} BY <2>1
    <3> QED BY <2>5, <2>15, <3>1, Dropping
  <2>13. CASE ~current(p, e)
    <3>1. ~current(over, e) BY <2>9, <2>13 DEF current, Undisturbed
    <3>2. \A status : about(over, e, status) = over BY <3>1 DEF about
    <3>3. p' = over BY <2>4, <2>13
    <3>4. Step(over) BY <2>11, <3>2
    <3> QED BY <3>3, <3>4
  <2>14. CASE current(p, e)
    <3>1. \/ p' = about(over, e, "unavailable") \/ p' = about(over, e, "parsed")
          \/ p' = about(over, e, "failed") \/ p' = about(certifying, e, "browser-check")
          \/ p' = silent
      BY <2>4, <2>14, Zenon
    <3> HIDE DEF Step
    <3>2. Step(p') BY <2>11, <2>12, <2>16, <3>1
    <3> QED BY <3>2 DEF Step
  <2> QED BY <2>13, <2>14
<1>12. ASSUME NEW e \in Edits, Certified(e, "throws")
       PROVE  Coordinated(p') /\ Ahead(p', p) /\ Same(p', p)
  <2> DEFINE silent == dropped(p, e)
             phase == "dropped"
  <2>1. p \in Coordinator /\ p.launch[e] = "certifying" /\ p' = silent
    BY <1>12 DEF Coordinated, Certified
  <2>2. silent = [p EXCEPT !.launch[e] = phase] BY DEF dropped
  <2>3. phase \in Phases BY DEF Phases
  <2>4. phase = "dropped" OBVIOUS
  <2> HIDE DEF silent, phase
  <2>5. /\ silent \in Coordinator /\ Undisturbed(silent, p) /\ silent.state = p.state
        /\ silent.listening = p.listening
        /\ \A x \in Edits : silent.launch[x] = IF x = e THEN phase ELSE p.launch[x]
    BY <2>1, <2>2, <2>3, PhaseSet
  <2>6. e \notin p.listening BY <2>1 DEF Coordinated, Progressing
  <2>7. p.launch[e] \in {"acting", "certifying"} /\ silent.listening \subseteq p.listening
        /\ e \notin silent.listening
        /\ \A x \in Edits : silent.launch[x] = IF x = e THEN "dropped" ELSE p.launch[x]
    BY <2>1, <2>4, <2>5, <2>6
  <2> QED BY <2>1, <2>5, <2>7, Dropping
<1>10. ASSUME NEW e \in Edits, NEW failing \in Demand \union {"none"}, Certified(e, failing)
       PROVE  Coordinated(p') /\ Ahead(p', p) /\ Same(p', p)
  <2> DEFINE over == ended(p, e)
             status == IF failing \in Demand THEN "failed" ELSE "verified"
             phase == "ended"
  <2>1. p \in Coordinator /\ p.launch[e] = "certifying" /\ p' = about(over, e, status)
    BY <1>10 DEF Coordinated, Certified, Demand
  <2>2. over = [p EXCEPT !.launch[e] = phase] BY DEF ended
  <2>3. status \in Statuses /\ status \in {"verified", "failed", "unavailable"} BY DEF Statuses
  <2>4. phase \in {"ended", "certifying"} /\ phase # "certifying" /\ phase \in Phases BY DEF Phases
  <2> HIDE DEF over, status, phase
  <2>5. /\ over \in Coordinator /\ Undisturbed(over, p) /\ over.state = p.state
        /\ over.listening = p.listening
        /\ \A x \in Edits : over.launch[x] = IF x = e THEN phase ELSE p.launch[x]
    BY <2>1, <2>2, <2>4, PhaseSet
  <2>6. e \notin p.listening BY <2>1 DEF Coordinated, Progressing
  <2>7. p.launch[e] \in {"acting", "certifying"} /\ over.listening \subseteq p.listening
        /\ e \notin over.listening
    BY <2>1, <2>5, <2>6
  <2> QED BY <2>1, <2>3, <2>4, <2>5, <2>7, Concluding
<1>11. CASE \E e \in Edits : Settling(e) \/ Reporting(e)
  BY <1>1, <1>8, <1>9, <1>10, <1>11, <1>12 DEF Settling, Reporting
<1> QED BY <1>2, <1>3, <1>4, <1>5, <1>6, <1>7, <1>11 DEF Remote, Opening

-----------------------------------------------------------------------------
(* The editors.                                                            *)

LEMMA SourceKinds ==
  ASSUME NEW source \in Source
  PROVE  /\ source.kind \in {"empty", "ok", "large", "bad"}
         /\ Admitted(source) \in {"ok", "large", "invalid"}
         /\ Admitted(source) = "invalid" <=> source.kind \in {"empty", "bad"}
<1>1. source.kind \in {"empty", "ok", "large", "bad"} BY DEF Source
<1> QED BY <1>1 DEF Admitted

\* An editor holds a new source: its own text and those admit rewrites are of
\* this edit.  v is u but for what says that the panels were touched.
LEMMA Authoring ==
  ASSUME Coordinated(p), NEW v, Composed(v, p), ~v.disposed,
         NEW f \in Format, NEW source \in Source, authored(v, f, source)
  PROVE  Coordinated(p') /\ Ahead(p', p) /\ Composed(u', p')
<1> DEFINE e == p.revision + 1
           sort == source.kind
           typed == [v.text EXCEPT ![f] = e]
           kinds == [v.kind EXCEPT ![e] = sort]
           w == [v EXCEPT !.text[f] = e, !.kind[e] = source.kind]
           over == rewritten(w, f, source)
           texts == [g \in Format |-> IF g \in over THEN e ELSE w.text[g]]
           written == [w EXCEPT !.text = texts]
<1>1. /\ p \in Coordinator /\ v \in Editors /\ ~p.disposed /\ p.revision \in Nat
      /\ e \in Edits /\ e \in 0..MaxEdits /\ \A x \in Nat : x <= p.revision => x # e /\ x <= e
  <2>1. p \in Coordinator BY DEF Coordinated
  <2>2. p.revision \in Nat BY <2>1, ConstantsAssumption DEF Coordinator
  <2>3. e \in 0..MaxEdits BY ConstantsAssumption DEF authored, Edits
  <2> QED BY <2>1, <2>2, <2>3 DEF Composed, authored
<1>2. sort \in {"empty", "ok", "large", "bad"} BY SourceKinds
<1>3. /\ Coordinated(p') /\ Ahead(p', p) /\ ~p'.disposed /\ p'.revision = e
      /\ p'.pending = IF sort \in {"empty", "bad"} THEN 0 ELSE e
  <2> DEFINE admitted == Admitted(source)
  <2>1. /\ p' = edit(p, f, admitted) /\ admitted \in {"ok", "large", "invalid"}
        /\ admitted = "invalid" <=> sort \in {"empty", "bad"}
    BY SourceKinds DEF authored
  <2> HIDE DEF admitted
  <2>2. p.revision + 1 \in Edits BY <1>1
  <2> QED BY <1>1, <2>1, <2>2, Editing
<1>4. /\ u' = admit(w, f, e, source)
      /\ u' = IF sort = "empty" THEN w
              ELSE IF sort = "bad" THEN [written EXCEPT !.invalidOwner = f]
              ELSE [written EXCEPT !.invalidOwner = None, !.invalidClearTimer = None]
  BY DEF authored, admit
<1>5. sort \in {"ok", "large"} => over = Format \ {f} BY DEF rewritten
<1> HIDE DEF over
<1>6. /\ typed \in [Format -> 0..MaxEdits] /\ kinds \in [Edits -> {"empty", "ok", "large", "bad"}]
      /\ \A g \in Format : typed[g] = IF g = f THEN e ELSE v.text[g]
      /\ \A x \in Edits : kinds[x] = IF x = e THEN sort ELSE v.kind[x]
  BY <1>1, <1>2 DEF Editors
<1>7. w = [v EXCEPT !.text = typed, !.kind = kinds] BY <1>1 DEF Editors
<1> HIDE DEF typed, kinds, w, sort, e
<1>8. /\ w \in Editors /\ w.text = typed /\ w.kind = kinds /\ w.active = v.active
      /\ w.invalidOwner = v.invalidOwner /\ w.invalidClearTimer = v.invalidClearTimer
      /\ w.disposed = v.disposed
  BY <1>1, <1>6, <1>7 DEF Editors
<1>9. texts \in [Format -> 0..MaxEdits] /\ \A g \in Format : texts[g] = IF g \in over THEN e ELSE typed[g]
  BY <1>1, <1>6, <1>8
<1> HIDE DEF texts
<1>10. /\ written \in Editors /\ written.text = texts /\ written.kind = kinds
       /\ written.active = v.active /\ written.invalidOwner = v.invalidOwner
       /\ written.invalidClearTimer = v.invalidClearTimer /\ written.disposed = v.disposed
  BY <1>8, <1>9 DEF Editors
<1> HIDE DEF written
<1>11. ~v.disposed /\ \A g \in Format : v.text[g] \in Nat /\ v.text[g] <= p.revision
  BY <1>1, ConstantsAssumption DEF Composed, Editors
<1>12. \A g \in Format : typed[g] <= e BY <1>1, <1>6, <1>11
<1>13. \A g \in Format : texts[g] <= e BY <1>1, <1>9, <1>12
<1>14. None \notin Format BY ConstantsAssumption
<1>15. CASE sort = "empty"
  <2>1. u' = w BY <1>4, <1>15
  <2>2. RefusedHeld(w)
    <3> DEFINE o == v.invalidOwner
    <3>1. ASSUME o # None PROVE typed[o] \in Edits /\ kinds[typed[o]] \in {"bad", "empty"}
      <4>1. o \in Format BY <1>1, <3>1 DEF Editors
      <4>2. CASE o = f BY <1>1, <1>6, <1>15, <4>2
      <4>3. CASE o # f
        <5> DEFINE x == v.text[o]
        <5>1. x \in Edits /\ v.kind[x] \in {"bad", "empty"} BY <3>1 DEF Composed, RefusedHeld
        <5>2. x # e BY <1>1, <1>11, <4>1
        <5> QED BY <1>6, <4>1, <4>3, <5>1, <5>2
      <4> QED BY <4>2, <4>3
    <3> QED BY <1>8, <3>1 DEF RefusedHeld
  <2> QED BY <1>3, <1>8, <1>11, <1>12, <1>15, <2>1, <2>2 DEF Composed
<1>16. CASE sort = "bad"
  <2>1. u' = [written EXCEPT !.invalidOwner = f] BY <1>4, <1>16
  <2>2. /\ u' \in Editors /\ u'.text = texts /\ u'.kind = kinds /\ u'.active = v.active
        /\ u'.invalidOwner = f /\ u'.invalidClearTimer = v.invalidClearTimer
        /\ u'.disposed = v.disposed
    BY <1>10, <2>1 DEF Editors
  <2>3. texts[f] = e BY <1>6, <1>9
  <2>4. texts[f] \in Edits /\ kinds[texts[f]] \in {"bad", "empty"} BY <1>1, <1>6, <1>16, <2>3
  <2> QED BY <1>3, <1>11, <1>13, <1>16, <2>2, <2>4 DEF Composed, RefusedHeld
<1>17. CASE sort \in {"ok", "large"}
  <2>1. u' = [written EXCEPT !.invalidOwner = None, !.invalidClearTimer = None] BY <1>4, <1>17
  <2>2. /\ u' \in Editors /\ u'.text = texts /\ u'.invalidOwner = None
        /\ u'.invalidClearTimer = None /\ u'.disposed = v.disposed
    BY <1>10, <2>1 DEF Editors
  <2>3. \A g \in Format : texts[g] = e BY <1>5, <1>6, <1>9, <1>17
  <2> QED BY <1>3, <1>11, <1>13, <1>17, <2>2, <2>3 DEF Composed, RefusedHeld
<1> QED BY <1>2, <1>15, <1>16, <1>17

Inv == Coordinated(p) /\ Composed(u, p)

LEMMA Staying ==
  ASSUME NEW k, Coordinated(k)
  PROVE  Ahead(k, k)
<1>1. k.state.status \in Statuses BY DEF Coordinated, Coordinator, Published
<1> QED BY <1>1, Ranks DEF Ahead

\* Who keeps revision, pending edit and disposal keeps what relates them to
\* the editors.
LEMMA Unedited ==
  ASSUME NEW k, NEW j, NEW v, Composed(v, k), Same(j, k)
  PROVE  Composed(v, j)
BY DEF Composed, Same

LEMMA Initially == Init => Inv
<1> SUFFICES ASSUME Init PROVE Inv OBVIOUS
<1>1. p = [state |-> [status |-> "idle", entry |-> None, revision |-> 0], revision |-> 0,
           timer |-> 0, pending |-> 0, disposed |-> FALSE, entryOf |-> [r \in Edits |-> None],
           launch |-> [r \in Edits |-> "none"], started |-> [r \in Edits |-> FALSE],
           transportDisposed |-> FALSE, opening |-> "none", opened |-> 0, client |-> 0,
           socket |-> [i \in Sockets |-> "none"], listening |-> {}]
  BY DEF Init, InitCoordinator
<1>2. u = [text |-> [f \in Format |-> 0], kind |-> [r \in Edits |-> "empty"],
           active |-> None, invalidOwner |-> None, invalidClearTimer |-> None,
           hasAuthoredInput |-> FALSE, loading |-> TRUE, disposed |-> FALSE]
  BY DEF Init
<1>3. p \in Coordinator
  <2>1. [status |-> "idle", entry |-> None, revision |-> 0] \in Published BY ConstantsAssumption DEF Published, Statuses
  <2>2. [r \in Edits |-> None] \in [Edits -> Format \union {None}] OBVIOUS
  <2>3. [r \in Edits |-> "none"] \in [Edits -> Phases] BY DEF Phases
  <2>4. [r \in Edits |-> FALSE] \in [Edits -> BOOLEAN] OBVIOUS
  <2>5. [i \in Sockets |-> "none"] \in [Sockets -> SocketStates] BY DEF SocketStates
  <2>6. 0 \in 0..MaxSockets /\ 0 \in 0..MaxEdits /\ 0 \in 0..MaxEdits + 1 BY ConstantsAssumption
  <2> QED BY <1>1, <2>1, <2>2, <2>3, <2>4, <2>5, <2>6 DEF Coordinator
<1>4. UpToDate(p) BY <1>1, ConstantsAssumption DEF UpToDate
<1>5. Progressing(p) BY <1>1 DEF Progressing
<1>6. Attended(p) BY <1>1 DEF Attended
<1>7. u \in Editors
  <2>1. 0 \in 0..MaxEdits BY ConstantsAssumption
  <2> QED BY <1>2, <2>1 DEF Editors
<1>8. RefusedHeld(u) BY <1>2 DEF RefusedHeld
<1>9. Composed(u, p)
  <2>1. p.revision = 0 /\ p.pending = 0 /\ ~p.disposed BY <1>1
  <2>2. ~u.disposed /\ u.invalidClearTimer = None BY <1>2
  <2>3. \A f \in Format : u.text[f] = 0 BY <1>2
  <2> QED BY <1>7, <1>8, <2>1, <2>2, <2>3 DEF Composed
<1> QED BY <1>3, <1>4, <1>5, <1>6, <1>9 DEF Inv, Coordinated

\* Each step of the panels and of what they wait for.
LEMMA Stepping ==
  ASSUME Inv, [Next]_vars
  PROVE  Inv' /\ Ahead(p', p)
<1>1. Coordinated(p) /\ Composed(u, p) /\ u \in Editors BY DEF Inv, Composed
<1>2. CASE UNCHANGED vars
  <2>1. p' = p /\ u' = u BY <1>2 DEF vars
  <2> QED BY <1>1, <2>1, Staying DEF Inv
<1>3. ASSUME NEW f \in Format, handleFocus(f) PROVE Inv' /\ Ahead(p', p)
  <2>1. p' = p /\ u' = [u EXCEPT !.active = f, !.invalidClearTimer = None]
    BY <1>3 DEF handleFocus
  <2>2. /\ u' \in Editors /\ u'.text = u.text /\ u'.kind = u.kind /\ u'.disposed = u.disposed
        /\ u'.invalidOwner = u.invalidOwner /\ u'.invalidClearTimer = None
    BY <1>1, <2>1 DEF Editors
  <2>3. Composed(u', p) BY <1>1, <2>2 DEF Composed, RefusedHeld
  <2> QED BY <1>1, <2>1, <2>3, Staying DEF Inv
<1>4. ASSUME NEW f \in Format, handleBlur(f) PROVE Inv' /\ Ahead(p', p)
  <2> DEFINE timer == IF u.invalidOwner = f THEN f ELSE u.invalidClearTimer
  <2>1. p' = flush(p) /\ u' = [u EXCEPT !.active = None, !.invalidClearTimer = timer] /\ ~u.disposed
    BY <1>4 DEF handleBlur
  <2>2. timer \in Format \union {None} BY <1>1 DEF Editors
  <2> HIDE DEF timer
  <2>3. /\ u' \in Editors /\ u'.text = u.text /\ u'.kind = u.kind /\ u'.disposed = u.disposed
        /\ u'.invalidOwner = u.invalidOwner /\ u'.active = None
    BY <1>1, <2>1, <2>2 DEF Editors
  <2>4. Composed(u', p) BY <1>1, <2>1, <2>3 DEF Composed, RefusedHeld
  <2>5. Coordinated(p') /\ Ahead(p', p) /\ Same(p', p)
    <3>1. CASE p.disposed \/ p.pending = 0 \/ p.timer = 0
      <4>1. p' = p BY <2>1, <3>1 DEF flush
      <4> QED BY <1>1, <4>1, Staying DEF Same
    <3>2. CASE ~(p.disposed \/ p.pending = 0 \/ p.timer = 0)
      <4>1. p' = launch([p EXCEPT !.timer = 0], p.pending) BY <2>1, <3>2 DEF flush
      <4>2. p.pending = p.timer /\ p.timer # 0 BY <1>1, <3>2 DEF Coordinated, UpToDate
      <4> QED BY <1>1, <4>1, <4>2, Launching
    <3> QED BY <3>1, <3>2
  <2>6. Composed(u', p') BY <2>4, <2>5, Unedited
  <2> QED BY <2>5, <2>6 DEF Inv
<1>5. ASSUME NEW f \in Format, NEW source \in Source, handleInput(f, source)
      PROVE  Inv' /\ Ahead(p', p)
  <2> DEFINE v == [u EXCEPT !.hasAuthoredInput = TRUE]
  <2>1. authored(v, f, source) /\ ~u.disposed BY <1>5 DEF handleInput
  <2>2. /\ v \in Editors /\ v.text = u.text /\ v.kind = u.kind /\ v.disposed = u.disposed
        /\ v.invalidOwner = u.invalidOwner /\ v.invalidClearTimer = u.invalidClearTimer
        /\ v.active = u.active
    BY <1>1 DEF Editors
  <2> HIDE DEF v
  <2>3. Composed(v, p) /\ ~v.disposed BY <1>1, <2>1, <2>2 DEF Composed, RefusedHeld
  <2> QED BY <1>1, <2>1, <2>3, Authoring DEF Inv
<1>6. ASSUME NEW f \in Format, NEW source \in Source, InitialSource(f, source)
      PROVE  Inv' /\ Ahead(p', p)
  <2> DEFINE v == [u EXCEPT !.loading = FALSE]
  <2>1. authored(v, f, source) /\ ~u.disposed BY <1>6 DEF InitialSource
  <2>2. /\ v \in Editors /\ v.text = u.text /\ v.kind = u.kind /\ v.disposed = u.disposed
        /\ v.invalidOwner = u.invalidOwner /\ v.invalidClearTimer = u.invalidClearTimer
        /\ v.active = u.active
    BY <1>1 DEF Editors
  <2> HIDE DEF v
  <2>3. Composed(v, p) /\ ~v.disposed BY <1>1, <2>1, <2>2 DEF Composed, RefusedHeld
  <2> QED BY <1>1, <2>1, <2>3, Authoring DEF Inv
<1>7. CASE Erase
  <2>1. p' = p /\ u.invalidClearTimer # None BY <1>7 DEF Erase
  <2>2. CASE u.invalidOwner = u.invalidClearTimer
    <3> DEFINE f == u.invalidClearTimer
               texts == [u.text EXCEPT ![f] = 0]
    <3>1. f \in Format BY <1>1, <2>1 DEF Editors
    <3>2. u' = [u EXCEPT !.invalidClearTimer = None, !.invalidOwner = None, !.text = texts]
      BY <1>1, <1>7, <2>2 DEF Erase, Editors
    <3>3. texts \in [Format -> 0..MaxEdits] /\ \A g \in Format : texts[g] = IF g = f THEN 0 ELSE u.text[g]
      BY <1>1, <3>1, ConstantsAssumption DEF Editors
    <3> HIDE DEF texts
    <3>4. /\ u' \in Editors /\ u'.text = texts /\ u'.disposed = u.disposed
          /\ u'.invalidOwner = None /\ u'.invalidClearTimer = None
      BY <1>1, <3>2, <3>3 DEF Editors
    <3>5. p.pending = 0 BY <1>1, <2>1, <2>2 DEF Composed
    <3>6. p.revision \in Nat BY <1>1, ConstantsAssumption DEF Coordinated, Coordinator
    <3>7. Composed(u', p) BY <1>1, <3>3, <3>4, <3>5, <3>6 DEF Composed, RefusedHeld
    <3> QED BY <1>1, <2>1, <3>7, Staying DEF Inv
  <2>3. CASE u.invalidOwner # u.invalidClearTimer
    <3>1. u' = [u EXCEPT !.invalidClearTimer = None] BY <1>7, <2>3 DEF Erase
    <3>2. /\ u' \in Editors /\ u'.text = u.text /\ u'.kind = u.kind /\ u'.disposed = u.disposed
          /\ u'.invalidOwner = u.invalidOwner /\ u'.invalidClearTimer = None
      BY <1>1, <3>1 DEF Editors
    <3>3. Composed(u', p) BY <1>1, <3>2 DEF Composed, RefusedHeld
    <3> QED BY <1>1, <2>1, <3>3, Staying DEF Inv
  <2> QED BY <2>2, <2>3
<1>8. CASE dispose_panels
  <2>1. /\ ~u.disposed /\ p' = dispose(p)
        /\ u' = [u EXCEPT !.disposed = TRUE, !.invalidClearTimer = None, !.loading = FALSE]
    BY <1>8 DEF dispose_panels
  <2>2. ~p.disposed BY <1>1, <2>1 DEF Composed
  <2>3. /\ Coordinated(p') /\ Ahead(p', p) /\ p'.disposed /\ p'.pending = 0
        /\ p'.revision = p.revision + 1
    BY <1>1, <2>1, <2>2, Disposing
  <2>4. /\ u' \in Editors /\ u'.text = u.text /\ u'.kind = u.kind /\ u'.disposed = TRUE
        /\ u'.invalidOwner = u.invalidOwner /\ u'.invalidClearTimer = None
    BY <1>1, <2>1 DEF Editors
  <2>5. \A f \in Format : u'.text[f] <= p'.revision
    <3>1. p.revision \in Nat BY <1>1, ConstantsAssumption DEF Coordinated, Coordinator
    <3>2. \A f \in Format : u.text[f] \in Nat /\ u.text[f] <= p.revision BY <1>1 DEF Composed, Editors
    <3> QED BY <2>3, <2>4, <3>1, <3>2
  <2>6. RefusedHeld(u') BY <1>1, <2>4 DEF Composed, RefusedHeld
  <2>7. Composed(u', p') BY <2>3, <2>4, <2>5, <2>6 DEF Composed
  <2> QED BY <2>3, <2>7 DEF Inv
<1>9. CASE Remote
  <2>1. Coordinated(p') /\ Ahead(p', p) /\ Same(p', p) /\ u' = u BY <1>1, <1>9, RemoteStep
  <2>2. Composed(u', p') BY <1>1, <2>1, Unedited
  <2> QED BY <2>1, <2>2 DEF Inv
<1> QED BY <1>2, <1>3, <1>4, <1>5, <1>6, <1>7, <1>8, <1>9 DEF Next

-----------------------------------------------------------------------------
LEMMA EditsTyped == Inv => TypeOK
<1> SUFFICES ASSUME Inv PROVE TypeOK OBVIOUS
<1>1. p \in Coordinator /\ UpToDate(p) /\ Attended(p) /\ u \in Editors BY DEF Inv, Coordinated, Composed
<1>2. p.state \in [status : Statuses, entry : Format \union {None}, revision : 0..MaxEdits]
  BY <1>1 DEF Coordinator, Published
<1>3. p.pending \in 0..MaxEdits /\ p.timer \in 0..MaxEdits
  <2>1. p.pending \in 0..MaxEdits BY <1>1, ConstantsAssumption DEF UpToDate, Edits
  <2> QED BY <1>1, <2>1, ConstantsAssumption DEF UpToDate
<1>4. p.client \in 0..MaxSockets BY <1>1, ConstantsAssumption DEF Attended, Sockets
<1>5. /\ p.revision \in 0..MaxEdits + 1 /\ p.launch \in [Edits -> Phases] /\ p.listening \subseteq Edits
      /\ p.opening \in {"none", "bootstrap", "ready", "creating"} /\ p.opened \in 0..MaxSockets
      /\ p.socket \in [Sockets -> SocketStates]
  BY <1>1 DEF Coordinator
<1>6. /\ u.text \in [Format -> 0..MaxEdits]
      /\ {u.active, u.invalidOwner, u.invalidClearTimer} \subseteq Format \union {None}
  BY <1>1 DEF Editors
<1> QED BY <1>2, <1>3, <1>4, <1>5, <1>6 DEF TypeOK, SocketStates

LEMMA Invariantly == Spec => []Inv
<1>1. Init => Inv BY Initially
<1>2. Inv /\ [Next]_vars => Inv' BY Stepping
<1> QED BY <1>1, <1>2, PTL DEF Spec

(* Whatever answers late, the panels show the state of their latest edit,  *)
(* which all editors hold, and only refused, unattended text is erased:    *)
(* current() guards every publish, edit and blur the timers.               *)
THEOREM LatestEditShown == Spec => []PanelsShowLatestEdit
<1>1. Inv => PanelsShowLatestEdit
  <2> SUFFICES ASSUME Inv PROVE PanelsShowLatestEdit OBVIOUS
  <2>1. Coordinated(p) /\ Composed(u, p) /\ u \in Editors BY DEF Inv, Composed
  <2>2. ShowsLatestEdit
    <3> SUFFICES ASSUME ~u.disposed
                 PROVE  /\ p.state.revision = p.revision
                        /\ \A f, g \in Format : render(f) \notin {"--", "derived", "invalid"}
                                                 => u.text[g] = p.revision
      BY DEF ShowsLatestEdit
    <3>1. ~p.disposed BY <2>1 DEF Composed
    <3>2. p.state.revision = p.revision BY <2>1, <3>1 DEF Coordinated, UpToDate
    <3>3. ASSUME NEW f \in Format, NEW g \in Format, render(f) \notin {"--", "derived", "invalid"}
          PROVE  u.text[g] = p.revision
      <4>1. p.state.status \notin {"idle", "invalid"} BY <3>3 DEF render
      <4>2. p.pending # 0 /\ p.pending = p.revision BY <2>1, <3>1, <4>1 DEF Coordinated, UpToDate
      <4> QED BY <2>1, <4>2 DEF Composed
    <3> QED BY <3>2, <3>3
  <2>3. ErasesOnlyInvalid BY <2>1 DEF ErasesOnlyInvalid, Composed, RefusedHeld
  <2> QED BY <2>2, <2>3 DEF PanelsShowLatestEdit
<1> QED BY <1>1, Invariantly, PTL

(* No live socket is without an owner who will dispose it, and no request  *)
(* waits for a client or an opening that is gone: open, its catch and the  *)
(* close handler of circuit-verification-browser-transport.ts.             *)
THEOREM NoSocketForgotten == Spec => []SocketsOwned
<1>1. Inv => SocketsOwned BY DEF Inv, Coordinated, Attended, SocketsOwned
<1> QED BY <1>1, Invariantly, PTL

(* For one edit the shown state goes forward, whatever arrives in which    *)
(* order, and an edit is sent at most once: launch, run by the debounce    *)
(* timer or by a blur.                                                     *)
THEOREM OnlyForward == Spec => Forward
<1>1. Inv /\ [Next]_vars =>
        [ /\ p'.state.revision = p.state.revision =>
                \/ Rank(p'.state.status) >= Rank(p.state.status)
                \/ p'.state.status = "parsed" /\ p.launch[p.revision] = "acting"
          /\ \A r \in Edits : p.launch[r] # "none" =>
                p'.launch[r] \notin {"none", "opening"} \/ p'.launch[r] = p.launch[r] ]_vars
  BY Stepping DEF Ahead
<1> QED BY <1>1, Invariantly, PTL DEF Spec, Forward
=============================================================================
