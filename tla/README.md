# Specifications of hson-demo2

This directory holds TLA+ specifications of the program in this repository: models that TLC
checks on small instances and theorems that TLAPS proves for every instance. Paths below are
relative to the repository root; in `PROJECT.json` they carry the prefix `src/`.

The repository is a browser application (an animated shell with demos), the Node and Cloudflare
servers that two of the demos talk to, and a test harness. It is built on the library
`hson-live` (Locus, Echo, LiveMap, LiveTree, `verify_universal_circuit`), which is not part of
the repository and counts as external here: the models take from it what the repository's code
relies on and leave open what it answers, and when.

## 1. Inventory

Nearly everything hard in this code comes from one source: single-threaded handlers that read
state, await something, and go on when the state may have changed. The defences are always
the same few, a revision or generation number, a token, a `disposed` flag, an abort signal, and
the question is always whether every continuation looks at the right one. The exception is the circuit
worker, a second thread with shared memory.

| part | sources | state | operations and callbacks | correct if |
|---|---|---|---|---|
| Circuit verification service | `src/server/circuit/circuit-verification-service.ts` | a bounded queue, the active job, `latestByPanel`, one worker with its startup, a replacement budget, promises | `submit`, `dispose`, worker `message`, `messageerror`, `error`, `exit`, startup timer, microtasks | every promise has one owner and settles once, in order and for a true reason; a panel's newest revision wins; an idle worker leaves no job waiting; the loss of a worker costs one replacement |
| Circuit worker | `src/server/circuit/circuit-verification-worker.mjs` | job, expected acknowledgments; shared: cancellation flag, acknowledgment count | commands; inside a run, one report per stage, then `Atomics.wait` | not ahead of the acknowledgments, and never asleep when nobody will wake it |
| Contract and application | `src/shared/circuit-verification-contract.ts`, `circuit-verification-livehost.ts`, `node-circuit-verification-application.ts` | connections, `disposed` | decoding, accepting, closing, disposing | what one side writes the others accept; no connection outlives the application |
| Parsing panel | `src/app/demos/parse/`, `src/app/livehost/browser-livehost-websocket.ts` | three editors, focus, invalid text and its timer; `inputRevision`, debounce, published state; socket, session, client | input, focus, blur, `edit`, `flush`, the continuations of `launch`, opening and closing of the socket | what is shown belongs to the latest edit; every edit ends in a verdict; every socket has an owner |
| TOWL game | `src/app/demos/towl/towl.transitions.ts`, `towl.runtime.ts`, `towl.client.ts` | phase, two seats, rope, winner, round; sessions; queued mutations | `join`, `leave`, `set_ready`, `pull`, `reset_round`, reflections of sessions | phase, seats, rope and winner agree; wins stand; abandoned seats are freed; answers are true |
| TOWL connection and panel | `towl.connection.ts`, `towl.room.ts`, `mount-towl.ts` | status, generation, credential, transports, clients; buttons, pending requests | opening, reattachment, recovery, retries, leaving, disposal; clicks, `onConnection`, `onState` | one writer of the mirror, nothing leaked, status and buttons true, requests end |
| TOWL authority, server process | `src/server/towl/`, `src/server/livehost/`, `src/server/cloudflare/`, `src/server/public-livehost-server.ts` | rooms, owners, idle times, connections, sweep; starting, listening, stopping | acquire, accept, close, sweep, dispose; start, signal, stop | rooms within their limit, only idle ones evicted, idle ones evicted, nothing but late connections survives disposal |
| App start | `src/app/app.ts`, `phase-2-splash/`, `utils/wait.ts`, `wasm-fireworks.ts` | phase, skip, the splash's signal, timers and cleanups; canvases; waits | loading, animation, skipping, cancelling, frames, timeouts, aborts | nothing of the splash reaches the demo; waits settle and leave nothing |
| App shell | `phase-3-demo/`, `state/store.ts`, `local-preferences.ts`, `towl.room.ts` | selected view and widgets, surfaces, address, remembered room | toggles, keys, links, panels, disposal | surfaces agree with the selection; the room is kept until it is left |
| Menu | `src/app/demos/amoeba/`, `src/app/ui/soft-tile/` | poses and motions of tiles, hovering, entering and exiting; hexagons on a lattice | toggles, hovering, frames, timers; growing and placing bodies | the menu can be used; bodies are whole and apart |
| Cellsheet | `src/app/demos/cellsheet/` | raw texts, evaluation, selection, sizes, gesture | typing, selecting, dragging, leaving | the grid is a fixed point of its operators, errors are where they belong |
| Color sudoku | `mount-color-sudoku.ts` | slots, board, picture, animation | swaps, dragging, scrambles, frames, solving | verdict and picture are true |
| Deck and documents | `src/app/demos/deck/`, `src/app/demos/about/` | slide, timers, frames; buffers of the readers | opening, moving, closing, timers; lines | a settled deck shows its selection; every line is shown, once and in order |
| Color picker, build panel, point widget | `oklch/`, `build/`, `pointer/` | targets and sliders; editor, tree and output; pointer and list | their handlers | each shows what it says it shows |
| Test explorer | `src/app/demos/tests/panel/` | index, disclosures, history, inspector, copies | loading, opening, closing, navigation, copying, leaving | one detail is kept, none outlives its owner, late answers are ignored |
| Presentation | `fleurs/`, `motes/`, `bar-bar.ts/`, `phase-1-brand/`, `make-cloud.ts` | – | drawing | not modelled, see 8 |
| Test harness | `tests/harness/` | – | – | not modelled, see 8 |

Interactions. The parsing panel submits through a Locus action to the service; progress events
go back through `emitEvent`, whose refusal is how the service learns that a connection closed. The
service commands its worker by `postMessage` and cancels and acknowledges through shared memory. The
TOWL panel follows two callbacks of its controller, and controller and room meet in the mirror the
Locus keeps. The shell mounts the panels, and the address tells it the room; the address is also
what the test explorer's inspector follows. `PROJECT.json` lists under `hazards` where each of these
is hard to test, at the line where it bites, with the properties that would catch it.

## 2. Plan

| modules | subject | status |
|---|---|---|
| `CircuitService`, `LatestWins`, `CircuitContract` | the service, and that it implements what a panel is promised | checked; all safety and the refinement proved |
| `CircuitHandshake` | one run, two threads, shared memory | checked, safety proved |
| `CircuitWire` | decoders against writers | checked, proved |
| `ParsingCoordinator`, `ParsingPanels` | edits, debounce, transport, certificate; the panels over them | checked, safety proved |
| `TowlGame`, `TowlClient` | the room, and the answers a player reads | checked, safety proved |
| `TowlConnection`, `TowlPanel` | the controller, and the panel over it | checked, safety proved |
| `Hosting`, `Gateways` | rooms, admission, sweep, start and stop; sockets | checked; safety proved |
| `Boot`, `Waits`, `Shell` | start, waits, shell | checked, proved |
| `AmoebaMenu`, `SoftTiles`, `CellsheetEvaluator`, `Cellsheet`, `ColorSudoku`, `Deck`, `Markdown`, `OklchPanel`, `BuildPanel`, `PointPanel`, `TestExplorer` | the demos | checked, proved |
| `MCCircuitService`, `MCCircuitContract`, `MCTowl`, `MCApplication` | instances for TLC | – |

Every safety property and action property of the plan is proved. What is left to TLC is liveness, at the end of section 6.

## 3. Modules and how they correspond to the code

Conventions shared by all modules. Everything on one thread runs to completion, so a function of
the source is an operator from states to states with the function's name, and each event (a click, a
reply, a timer, a settled promise) is one action that applies those operators in the order of the
code. The variables of a closure are the fields of one record. Where the code awaits, the operator
ends, a field says what is waited for, and the promise settles in an action of its own, so everything
else may happen in between. What a network, an authority or the library answers is external and free. Counters are
bounded by constants marked "bound". The operators whose comment begins "Mutant:" are plausible
mistakes in the code; `PROJECT.json` pairs each property with one of them that breaks it.

### 3.1 Circuit verification

**`CircuitService`.** `svc` is the record of the closure's variables; `closed`, `faulted`, `exited`, `deaf`
are the environment. A call of a listener is `hears`: a listener of a closed connection returns false,
and `emit` then cancels the job inside whatever handler is running. A promise is an `outcome`; the
`.then` of the startup promise is the pair `waiters` (registered) and `callbacks` (in the microtask
queue), and every action except `StartupRejected` waits until the microtasks are done, as in Node. A
lost worker may produce an `error`, an `exit`, malformed messages and a timeout, in any order, also after it
was replaced or terminated. Left out: text, codes and numbers of events, the diagnostics,
`ready()` (which returns the startup promise and changes nothing while the service has a worker), a
`postMessage` of `initialize` that throws (a port does not refuse a plain object), submissions after
disposal or unavailability, which reject and change nothing.

**`LatestWins`** promises, without worker and queue: pending jobs stand in a line in order of
submission, only its head gets a verdict, a newer revision of a panel takes the older one's place,
nothing else of another panel changes, and at most one withdrawn job may still be running.
**`CircuitContract`** maps the service to it: the line is the active job while nothing made it obsolete,
followed by the queue.

**`CircuitHandshake`.** One run at the granularity of atomic operations. `wpc` is the worker's place in
`onProgress`: report, load the flag, load the count, load `observed`, `Atomics.wait`. A main-thread handler
takes its decisions in one step, because no other handler can run in between, and leaves its atomic
operations in `mpc`, between which the worker runs. `Atomics.wait` compares and sleeps in one step, as it
is specified; `Atomics.notify` wakes a sleeper or does nothing.

**`CircuitWire`.** Requests, progress events, results and worker replies as records, with each of the four
places that decode them (contract, service, worker, browser) as an operator over every field the writers
may put there. A text is its length, so the limits written in three files are compared. Each initial state is a
message; a behaviour passes it from its writer to its readers.

### 3.2 Parsing panels

**`ParsingCoordinator`** is the coordinator and the browser transport. An edit is known by its
revision; `launch[r]` is where the continuation of `launch` for edit `r` stands, and every continuation
may be late. It ends with a verdict (`ended`) or without a word (`dropped`): on a result of another panel, revision or
entry (`parsing-verification-coordinator.ts:193`), and when the certifier throws (`:208`, which nothing catches). A socket installed after
the transport was disposed of is `stranded`: nobody but the network closes it. **`ParsingPanels`** adds the three editors: an edit of one rewrites the others when its source is
admitted, text nobody fixed is erased some time after its editor lost the focus, and each edit goes to the
coordinator in the same step. Parsing is abstracted to whether a source is empty, bad (and
how many of the other texts were rewritten before it threw), too large or admitted.

### 3.3 TOWL

**`TowlGame`** is the room: every transition, and the reflection of every event of a session's life,
computes the whole next state from a snapshot and hands it to `mutate`. When the Locus commits it is not in
the repository, so it is a parameter of the behaviour: with `lag = 0` a mutation is committed in the turn that
computed it, which is what `tests/suites/towl` observe; with a larger `lag` that many replacements wait
while others are computed from the older snapshot. `Coherent` must hold in both; what can be promised
only without lag says so. **`TowlClient`** adds what an action returns and how `towl.client.ts` decodes it.

**`TowlConnection`** is the controller. `work.at` is what the running attempt awaits (transport,
reattachment, creation, recovery, a delay); each settles or is rejected in its own action, and transports close, the
user reconnects, leaves or disposes at any moment. Clients and transports are numbered by the attempt that made
them, so the model can tell a late one from the current one. **`TowlPanel`** composes with it: buttons follow
`onConnection` and `onState` and stay as the last callback left them.

### 3.4 Servers

**`Hosting`** is the server process and its TOWL rooms: start and its failures, signals, stop; admission,
which reserves a place and then awaits; the sweep, one eviction per await against a clock read once; disposal
in between. The continuations of `connectBounded` and `accept` do not look whether the application was disposed of, so a
connection admitted before is recorded after it: the history field `late` names these. What was begun goes on
until the process exits (`Stopped`), which is a step after the applications are disposed of
(`ApplicationsDisposed`). The registry of the library is modelled from how it is used: a room that is disposed of listens to
nobody and counts no lease, and the sweep's calls about a room it has forgotten do nothing. **`Gateways`** is where sockets meet an
authority: the durable object, which waits before it listens; the node application of verification,
which connects at once; and the page's side of admission, one request however many wait for it.

### 3.5 Application frame

**`Boot`**: phases, skip, the splash as a cancellable run with its timers and cleanups, and the canvas of
the fireworks with its loop. **`Waits`**: the promises of `wait.ts` with their events, timers and signals, and the
wrapper that learns of the inner result one microtask later. **`Shell`**: store, reconciler, surfaces, the
keys, and the room in the address; a history variable `visited` records the room last shown and not left.

### 3.6 Demos

**`AmoebaMenu`** (motions of tiles over frames, each superseded by the next one of its tile; entering and
exiting) and **`SoftTiles`** (bodies of hexagons and where the search may place them; the search may keep any
admissible place, the energy that ranks them is left out). **`CellsheetEvaluator`** is the evaluation as
operators, passes over the grid until one changes nothing; **`Cellsheet`** is typing, selecting and
resizing over it. **`ColorSudoku`** keeps colours as integers in hundredths, so that equality stands for the
comparison with an epsilon. **`Deck`** is the slides with their timers, **`Markdown`** both readers, one line at
a time by the kind of the line. **`OklchPanel`**, **`BuildPanel`** and **`PointPanel`** are one action per
handler; the point panel finds what takes the pointer anywhere on the page, but what lets it through only in the widget's own
tree (`own`, `point.ts:138`). **`TestExplorer`** is the explorer of test reports: categories and suites are disclosures loaded on
opening; the address names what the inspector shows, and `reconcile_location` awaits up to three
fetches. One suite with one case stands for a category's suites; a fetch that was superseded is dropped
unless a continuation of it still does something.

### 3.7 Instances

**`MCCircuitService`** and **`MCCircuitContract`** add symmetry. **`MCTowl`** and **`MCApplication`** put
parts that share no state into one instance: an initial choice `part` says which of them the behaviour
moves, and the others keep one of their initial states. That is a union of the parts' behaviours, not their product: each part
is explored as if alone, and a property about one part is evaluated in all of its states.

## 4. Runs

| run | question | bounds |
|---|---|---|
| `service` | one owner and one settling for each promise, order, supersession, true reasons, with connections that close | 2 panels over 2 connections, 3 submissions, 2 revisions, queue of 2 |
| `liveness` | a lost worker costs one replacement, and every submission settles if runs end | 2 submissions, queue of 1, one replacement, a port that may refuse |
| `contract` | the service implements `LatestWins`; nothing is stranded | 3 submissions, one replacement, a factory that may throw |
| `handshake` | all interleavings of one run | the 7 reports of a full run |
| `towl` | the room; the panel over its controller | room: 3 sessions, 2 pulls to win, 2 rounds, one mutation waiting; panel: 2 retries, one loop |
| `application` | the seventeen parts of `MCApplication` | see below |
| `unavailable` | are pending jobs rejected when the worker becomes unavailable? | violated, finding 3 |
| `handshake_undisturbed` | does a run nobody disturbs settle? | violated with 2 reports, finding 1 |
| `handshake_cancellation` | does the flag interrupt a waiting worker? | violated with 2 reports, finding 2 |
| `towl_replacement` | is a replaced session announced? | violated with 2 retries, finding 4 |
| `hosting_unscheduled` | are idle rooms evicted with the servers' options? | violated, finding 5 |
| `late_responses` | is a late case response ignored? | violated with two categories, finding 6 |

Why these bounds are enough. *Service*: two jobs share a panel or do not; the third is needed for a queue
whose middle is removed and for one that is full while a job runs; nothing in the code compares more than
a job with its panel's predecessor and the queue's length with its limit. One replacement has a first loss, a
second that exhausts the budget, and a completed job that resets it. *Room*: three sessions are one more
than there are seats; two pulls from the centre pass through a position that is neither; two rounds have a reset; one
waiting mutation is enough to overwrite another. *Panel*: two retries are a first one and a last one, and the loop may be begun by a
lost transport or by hand.

*Application*, by part: two edits (one stale, one current) and two sockets; a board of the sudoku with two
moves over three of its slots and three outcomes of a shuffle (as it starts, with a corner swapped, and unsolved); a sheet of four rows by five columns in which one operator feeds another
that comes before it in reading order, two operators can claim one target, a target that is taken is an operand of the next
and an operation can fail; three slides; texts of four
lines, the length that fills a buffer, flushes it, and opens another; one view and two widgets of the menu; two
menus of one and three bodies; three fireworks; three rooms in the address; two waits on one signal; two
targets of the colour picker, one configured off the sliders' steps and one that does not parse; two rooms, two
connections and a limit of two rooms, with six ticks against idle times, intervals and evictions of one; two
pipes; a category of the explorer, two entries of history, two waiting fetches. `Scheduled = TRUE` in this
run, as the tests configure the sweep, so that it can be checked at all; the servers do not (finding 5).
The explorer with two categories has some millions of states: it satisfies `OneDetailRetained`, but is checked apart
from the runs; `late_responses` uses it.

Panels and connections are interchangeable, so the safety runs of the service use symmetry; those with
temporal properties under fairness do not. `CHECK_DEADLOCK` is off in every run because
submissions, edits, rooms and the like are finite, and what has settled everything, was left or disposed of stops.

## 5. Fairness

*Handshake*: weak fairness of the worker and of the main thread, what an operating system and an event
loop give. Nothing forces a supersession, a closed connection or disposal.

*Service*: weak fairness of microtasks and of the end of a startup (`EndsStartup`: the worker reports or the startup
timer fires; the code always sets that timer). The code has no timer for a run, so nothing forces one to end:
`LossesSurvived` assumes `RunsEnd` for its liveness part, and `handshake_undisturbed` shows that the assumption is not
idle. The factory always returns in this run; `unavailable` shows what happens otherwise. The fairness is
written with the guards of the two actions in place of `ENABLED`, which is equivalent because the handlers are total and
change the state.

*Parsing panels* (`Answering`): the debounce timer fires; whoever was asked answers, with success or not:
the socket opens or fails, the action is acknowledged or rejected, a certificate is computed. Neither progress events nor
closing sockets are forced. This is an assumption about the other side: the browser has no timeout
for an action, so `EveryEditConcluded` says what the panel makes of an answer, not that there is one. It excepts an edit whose
`launch` ended without a word, which leaves its panel busy: neither the authority of this repository, which
answers the request it was sent, nor its certifier, which catches what it runs, does that to it.

*TOWL panel*: requests are answered or rejected and delays end (`Answers`), the bounded requests of a
departure end (`Departure`: `towl.connection.ts` races them against timers), settled promises are noticed
(`ReconnectSettled`, `Left`). *Room*: a detached session expires, which the Locus's grace period
does. Players are never forced to do anything.

No strong fairness is used. No fairness is assumed of the servers: `IdleRoomsEvicted` is a safety property of a
clock that does not run past a due timer.

## 6. Proofs

All theorems hold for every value of the constants that satisfies the named assumptions of the modules, which
TLC evaluates in the runs: `ConstantsAssumption` (one in each of `CircuitService`, `ParsingCoordinator`,
`TowlConnection`: the bounds are natural numbers, a value that stands for none is none of the others),
`NoRequestAssumption`, `NoClaimAssumption`, `HandshakeAssumption`, `RoomAssumption`, `DeckAssumption`, `ShellAssumption`,
`BootAssumption`, `HostingAssumption`, `SudokuAssumption` (what a shuffle may leave behind is an arrangement of the tokens),
`ExplorerAssumption` (there are finitely many categories), `CellsheetAssumption` and `SheetAssumption` (the sheet has a cell; texts are
typed and edges dragged inside it), `MenuAssumption` (views and widgets have different names), `PickerAssumption` (there is a target; colours and sliders give
integers), `BuildAssumption` (the empty text is not valid), `ColonyAssumption` (a core has columns and rows, as `core_dimensions` gives
them, and the field's bounds are integers), `PointAssumption` (a page has finitely many elements, painted one
over the other).

**`CircuitService_proofs`** (`Ownership`, `Order`, `SettledForGood`, `Unstranded`, `TypeCorrect`, `NewestWins`,
`Truthful`, `ImplementsContract`), for all panels,
connections, revisions, submissions, queue limits and replacement budgets, with or without a throwing factory and a
refusing port: every unsettled promise is the active job or stands in the queue once, never both, and the queue holds at most
`maxPending` live jobs; the queue is in submission order and the active job older than all of it; no step changes how a
promise was settled; there is a worker exactly while the service is open, an idle ready worker leaves no
job waiting, and disposal settles everything. Neither ownership nor order is inductive. That a job enqueued last is the newest
needs that every queued job was submitted; that `dispatch_next` takes the head needs that no queued job is obsolete;
that `submit` finds a live job after `emit`, and that the predecessor it supersedes is another job, needs that jobs not
submitted yet are untouched and that `latest` points to submitted ones (`Fresh`); that the rejection of the startup
promise never settles the running job needs that somebody waits for the worker only while nothing runs (`Supervised`).
`IInv` is the conjunction of these. `Quiet(s, t)` says that an operator only settles jobs and takes them off the queue, and that everything it
takes off is settled; it is reflexive and transitive and preserves the invariant, and one lemma per operator shows it. In
the middle of a handler one job may have no owner: `Jobs(s, loose)` is the invariant but for the jobs of
`loose`. `ReplaceWorker` and `Dispatch` show that the worker's operators return a state without loose jobs (`Handled`), and
one lemma per event handler composes them.

Three theorems add to this what is true of the single jobs. `NewestWins`: a queued job is the latest of its panel, and so is
the active one unless it is obsolete and a queued job of a higher revision has its place (`Newest`).
`Truthful`: `Told` says for every job why it is obsolete (`Reasonable`: its connection is closed, or there is a request of the panel
that is not older, `Rivalled`), that the last event and the promise agree (`Agreed`), and that a job not submitted was
told nothing (`Blank`). `Fates(s, t, V, S)` is what an operator may do to the jobs, where only those of `V` get a verdict and only those of
`S` are superseded; it composes, and every handler but `submit` returns with `V` the active job and `S` empty (`Returned`).
`ImplementsContract` needs no further invariant: by `Order` and `Ownership` the line of `CircuitContract` is what its
set of live jobs is, in ascending order, so a step that keeps a part of them keeps their order. The lemma `Answers` makes
of `Returned` that the head of the line is served or jobs leave it (`Serves`, `LeavesLine`), and `submit` that a job arrives, in the place of an
older one of its panel or at the end (`Arrives`).

**`CircuitHandshake_proofs`** (`TypeCorrect`, `Backpressure`, `NotForgotten`), for any number of stages, superseded or
not: the worker is at most one report ahead of the acknowledgments until the flag is raised, and a worker asleep before its report
is acknowledged has the report in the channel or the acknowledgment among the handler's remaining operations. `IInv`
adds which sequences of operations a handler can have left (`Shapes`), what the worker's place says about its last two
loads (`Phase`), that an acknowledgment is counted, under way or still to be caused by a report in the channel
(`Counted`), and that nothing but the flag makes the worker go on early (`Ownership`).

**`TowlGame_proofs`** (`RoomTyped`, `RoomCoherent`, `RoomMirrors`, `RoomKeepsWins`, `RoomTells`), for any sessions, any number of pulls
to win, rounds and waiting mutations. Coherence is not a property of the committed state alone, which the next
commit replaces: the invariant `RoomInv` says of every replacement that waits that it is good by itself, and the
lemmas (`Leaving`, `Cancelled`, and one for each transition) show that each transition leads from a good state to a good one,
whatever snapshot it starts from. That is why lag does no harm to coherence, while `PresenceMirrored` and
`WinStands`, which relate the state to sessions and to its predecessor, are claimed without lag. `RoomTells` is about
each state by itself: in a good one no session has two seats, so whatever an action answers passes the decoders of
`towl.client.ts` and names the seat, the readiness and the position the client then finds in its mirror.
`BothTyped` is the type invariant of `MCTowl`, room and panel together; for the panel it needs that a stored credential was
issued by some attempt (`Credited`).

**`TowlPanel_proofs`** (`ConnectionOwned`, `ConnectionTruthful` for the controller under any calls; `PanelOwned`,
`PanelTruthful`, `PanelButtons` under the panel), for any number of retries and of loops. `ConnectionInv` has two
parts. `Core` is kept by every operator in whatever order: attempts are within what the loops allow (`Counted`, without which an
identifier could be used twice); a transport that is not disposed of, and a live client, is the installed one or the running
attempt's, and one the attempt still needs is there (`Transports`, `Clients`); no attempt is of a later generation,
the watched transport is installed and open, and disposal and departure are final (`Fenced`). `Honest`, that status and
attempt agree, is broken in the middle of a handler and restored at its end. `PanelInv` adds that the buttons are those of the
last offer while there is a client and of the failure while nobody is reconnecting (`Buttons`): the callbacks of
`publish` come in the same step, which is what the proof has to show for every operation that calls it.

**`ParsingPanels_proofs`** (`LatestEditShown`, `NoSocketForgotten`, `OnlyForward`), for any number of edits and sockets.
`Coordinated` is the invariant of the coordinator: what is shown, armed and pending is about the latest edit, of which
nothing later was sent (`UpToDate`); the state says how far the pending edit's request is (`Progressing`); one socket at most is live
or stranded, the client's or the opening's, stranded exactly if it is the client's of a disposed transport, and who waits for
one finds it there (`Attended`). `Composed` ties the editors to it: while an edit is
pending all three hold its text. `Forward` follows from `Ahead`, shown for each continuation: a late one
finds that its edit is not current and leaves the state alone, a current one finds the phase before its own. `Spec` is
the panels alone, part `parsing` of `application`.

**`Demos_proofs`** (`Settles`, and the invariants of menu, readers and four panels for `Application_proofs`), for decks of any
length, texts of any number of lines, any tiles, categories, colours and pages. `DeckSettles` is inductive once the deck is a record of the right fields (`DeckInv`).
The explorer's `OneDetailRetained` is not: its invariant `Explores` adds the types, that what waits for a listing asks for
that category (`Awaited`), and that the address names an entry of the history. One lemma for each function of
`mount-tp-frozen.ts` says what it keeps, whatever state it is entered in, because the continuations of an answer run it once
for every waiting navigation. They are a fold over a sequence of any length, which the library computes along the subsets of its
indices: `AlongIndices` is the induction on these, `Iterated` that a step that stays among the states can be repeated, so that the
fold is what it says it is, and `CategoriesListed`, `SuitesListed` and `ClicksFollow` apply them. `CategoryCloses` and `AllClose` carry the counts of the listings,
which are cardinalities, through closing one and all of them. The picker's `Picked` is a closed form: whatever happened, it
is what rendering makes of its tokens and its target (`Worn`), or that put away; that each number stays in its channel's range
is `Normal`.
`Built` is the claim with types. `Pointed` says that the rows are the list of the last position; that there is such a list is
`Ranked`: a finite set in a strict total order can be listed by the number of predecessors. `Complete` and `Counted` say that such a
list has everything, each once.

The menu's `MenuInv` is `MenuUsable` with types and one strengthening (`Posed`): a motion that still decides over its tile moves it
where the book says the tile is going, so that a tile without such a motion has got there. `Begun` is what supersession is
for: whatever moved a tile before, a new motion alone decides. The readers' `ReaderInv` has two levels. Of each reader, after n lines (`Reads`): the lines of
its blocks are in order but for the lines that may be moved, at most one of its buffers is filled, with lines that come after those
of all blocks, and every line of the content is in a block or a buffer. Of the about view also that it is within a fence
exactly where the number of fences is odd (`fenced`), without which it could not be said which lines it may move: the urls
and copyright lines within a fence. There is one lemma for each kind of step (a line joins a buffer, a buffer becomes a block, a
block is made of one line); `Trimmed` shows that cutting the blank lines off a code block leaves a run of it with all that is not
blank, and `FencesCounted` and `HoistedMore` how the counts of fences grow with the text, by cardinalities. When the text ends, the
buffers are flushed, so the blocks have everything: `EveryLineShown`.

The layout of the menu is proved for cores of any width and height, fields of any size and any choices of fringe and place. `ColonyInv`
says of every tile, and of the body that is growing, that it is `Whole`: its core is a slab of staggered rows (`Slab`), every other
hexagon touches the core, there are finitely many of them, and no part of the body is without a neighbour in the rest (`Linked`).
The claims themselves are made by flooding, and that is a function of the number of steps: `Flooding` shows by
induction on it that a flood of enough steps is closed under neighbours, because each step before that gains a hexagon. Then
`OnePiece` follows from `Linked`, and `Holeless` from the shape: from every open hexagon
a straight line leads out of the box without meeting the body, because the slab's rows are wide and the rest is a `Band` around them. A body keeps all this under translation (`WholeThere`). That counting
hollows beside the new tile is enough is `Enclosing`: a hexagon elsewhere has the neighbours it had. What a placement records
is about the tiles before it, which later placements leave as they are (`Placing`); the order of the menu is that each projection exceeds
the last one's (`Projected`).

**`Shell_proofs`** (`SurfacesAgree`, `RoomsKept`), for any views, widgets and number of rooms made. `ShellInv` says that a shell that
is not disposed of is followed by its surfaces (`Followed`: `reconciled` is the view, every surface is in the state the
reconciler left it in) and that the room shown or, away from TOWL, the one remembered is the one last visited
(`RoomHeld`: in particular `forget` is never left set). `RoomKept` is then a consequence of `RoomHeld` before a step and of `Moved`,
what a change of view does to the rooms. What remains true of a disposed shell is that the address names no room
away from TOWL (`Away`): the next mount starts from it. `ShellSpec` is the shell alone, the behaviours of part `shell` in
the run `application`.

**`Application_proofs`** (`StartsInOrder`, `ServersOwned`, `RoomsKeptWhileUsed`, `IdleRoomsGo`, `BoardTrue`, `EndsAgree`, `MenuHandled`,
`LinesShown`, `PanelsTrue`, `SheetSettles`, `AppTyped`), about all of `AppSpec`. The parts do not
interact, so `AppInv` is the conjunction of one invariant for each of them, those of the other
proof modules included; each theorem follows from one or a few of its conjuncts, and the type invariant of the instance
(`AppTyped`) from all of them.
`WaitsInv`: what is registered for a wait says how far it is, whichever of event, timer and signal came first. `BootInv`: the
splash has its run, its timers and its fireworks while it lasts and none afterwards (`Up`), and a canvas with something on it
has a frame to come (`Lit`). `GateInv`: a socket nothing was made of is in no gateway's books, and a tracked one belongs to
the gateway that accepted it (`Plumbed`). `HostingInv` is the one with work in it. `OnlyIdleRoomsEvicted` compares the sweep's age of a room, which is
refreshed by callbacks, with how long it was really idle, and `run_sweep` decides by a clock read before its awaits. It takes that a
room's leases are the connections between its acquisition and their connect (`Leased`), that for a tracked room without leases
the two ages are equal, and both undefined exactly if a session is attached or retained (`Aged`), and that the sweep's clock is not ahead (`Staged`).
In the middle of `connectBounded` an acquisition is counted that the invariant denies; `Acquiring` and
`Nearly` say what is true there. `DisposalIsFinal` is in `Staged`, with what is left of a disposed application: no room, no
sweep to come, nobody acquiring but those of `late`, so that a connect that returns then finds a room that counts nothing.
`IdleRoomsEvicted` is the other direction, and rests on `Timely`: the registry's rooms are entered once each and within `maxRooms`
(`Booked`), a leased room is not idle (`Rested`), and a sweep falls due within an interval, or is under way and has taken no longer than
the rooms it is through with may cost (`Clocked`). Hence (`Young`) a room idle between sweeps will be met by the next one
before its time is up, and one that a sweep has passed was not yet idle for long when the sweep read its clock. An idle time, an interval and
two sweeps add up to the bound; the lemmas on `maxRooms * EvictMs` are separate, because the solver
is poor at products. `IdleRoomsGo` is conditional on `Scheduled`; finding 5 is about the other case.
`SudokuInv` says that field and verdict are those of the arrangement (`Judged`) and that the picture is the field's, or the one
an animation under way comes from (`Pictured`). The code computes the verdict from the distance of two
colour fields; that it is true of the tokens themselves is the lemma `Matched`: the corners' weights make the four cells at the
corners a system of linear equations with one solution (`Corners`), so equal fields have equal sums at every corner,
and the sums of two tokens tell which two they are (`SumsTell`).
`SheetInv` says that the captured pointer is the gesture's, that no column is narrower than the least width, and that two columns
resized together are two and were wide enough to begin with (`Grips`). What is shown blocked is a matter of each state by itself: the
evaluation is a fold of passes, each a fold over the cells in reading order; `Passes` and `Evaluates` carry its type along both
(`Evaluation`: the operations recorded lie within the sheet), and `Related` that the fold which paints operands and targets
leaves the target of a failed operation marked as blocked.
That the bounded passes are enough (`SheetSettles`) is an argument about every sheet, operators in a ring included:
`Stands` says that a cell is as typed, empty, or has the result of an operation that was found, that a found operation has written
its result unless it fails, and that errors are those of the found operations; an operation keeps it whether it fails (`OperateFails`) or
succeeds (`OperateWrites`). `Fills` says that no value is ever replaced, and that a pass which changed something filled an empty cell;
it is transitive. A pass that changes nothing has found all there is to find (`FindsOn`, `PassOn`), and such a state is settled (`SettledOn`).
Each changing pass adds a cell with a result (`WrittenMore`), an operator is never such a cell (`WrittenBounded`), and there are as many passes as
cells, so the last one changes nothing (`EvaluationSettles`). `Evaluated` says that what is shown is the evaluation of what is typed.
`WireInv` says that whatever left an end was accepted by that
end's decoder, and that a reply is among those the worker may write (`ProgressReplies`, `ResultReplies`). `RunDecoded`, `RepliesDecoded` and
`ObsoleteDecoded` show field by field that what an end writes the next one accepts; the limits on lengths that the three files state
separately meet in `TextLimit`.

Only model-checked. *Liveness* under fairness (`LossesSurvived`, `SettlesUnlessAsleep`, `AbandonedSeatFreed`, `RequestsEnd`,
`EveryEditConcluded`) and `ENABLED` are out of the prover's reach. Every other property of a run that passes is proved.

## 7. Findings

1. **An undisturbed run can hang** (`handshake_undisturbed`). The worker loads the acknowledgment count
   for the loop condition (`circuit-verification-worker.mjs:145`) and again as `observed` (`:147`). If the main
   thread's add and notify (`circuit-verification-service.ts:542-543`) fall in between, the worker waits for the count
   to differ from what it already is. There is no timer for a run: the promise and the queue behind it stay
   open. `tests/suites/livehost/circuit-worker-service-suite.ts:154` describes the complete sequence of events of
   such a run. Loading `observed` before the condition closes the window.
2. **A cancellation can be lost** (`handshake_cancellation`). `cancel_job` notifies the acknowledgment word without
   changing it (`:417-418`), and progress of an obsolete job is not acknowledged (`:539`). A worker that has loaded the flag but
   not yet gone to sleep sleeps through it, contrary to `circuit-verification-worker.mjs:110`.
3. **Jobs stranded by a throwing factory** (`unavailable`). When the factory throws inside `replace_worker`, the
   service becomes unavailable (`:584`) but, unlike at the replacement limit (`:462-467`), does not reject the
   queue; `circuit-worker-service-suite.ts:224` expects that a startup failure rejects.
4. **A replaced session is not announced** (`towl_replacement`). Whether reattachment was rejected is
   remembered by one attempt only (`towl.connection.ts:321-328`); if that attempt then fails, the next one connects with a new
   session and `sessionReplaced` false (`:316`, `:360`), against `tests/suites/towl/towl-connection-suite.ts:593`.
5. **Idle rooms are never evicted** (`hosting_unscheduled`). `schedule_next` returns without a schedule
   (`application-idle-sweep.ts:76`), and none of the three servers passes one, although `DEPLOYMENT.md:62-64`
   documents the limits. After `maxRooms` rooms every new one is refused until the process restarts.
6. **A late response opens the inspector** (`late_responses`). `reconcile_location` supersedes an older navigation only
   when it opens or closes the inspector; going back, while a case is fetched, to an address whose category has to be loaded
   leaves the fetch current, and it opens a case the address no longer names
   (`mount-tp-frozen.ts:492`), against `tests/integration/browser/frozen-test-panel.spec.ts:125`.

Three more disagreements have no run of their own. They are exceptions that a checked property names exactly, and says to be the
only ones:

- **A disposed transport keeps a socket** (`SocketsOwned`: `stranded`). The browser's transport installs its client after
  the session was created without looking at `disposed` again (`circuit-verification-browser-transport.ts:141`; it does
  look after the await before, `:126`). A `dispose` in between found nothing to release, and a second one returns at once (`:202`), so
  the socket lasts until the network closes it. `tests/suites/transform/parsing-verification-coordinator-suite.ts:193` says of the
  coordinator: "dispose must clear timer and release transport".
- **A durable object keeps a late socket** (`ServersOwnUp`: `late` of `Gateways`). `accept` awaits its authority before it listens for
  the socket's end and without looking at `disposed` again (`towl-durable-object-runtime.ts:68`, `:104-107`). A socket that closed
  meanwhile is attached and, unless the object is disposed of later, never detached; one whose object was disposed of meanwhile is attached for
  good. `tests/integration/cloudflare/run-towl-worker-compatibility.node.mts:97` and `:99` say "socket close detaches exactly once"
  and "runtime disposal detaches remaining connections", for sockets whose authority has answered. `cloudflare/worker.ts` never disposes of its runtime.
- **A disposed application keeps a late connection** (`ServersOwnUp`: `late` of `Hosting`). A connection that is admitted to its room
  when the application is disposed of is recorded afterwards and not closed
  (`node-towl-application.ts:68-77`, `towl-authority-application.ts:120-139`).

Observations that no run states, because the repository does not say otherwise or because they depend on the
library:

- `circuit-verification-browser-transport.ts:185` decodes a response without the `materialize()` that `towl.client.ts:93` and
  the live-host suite use; the model takes results as plain data.
- An answer to another request and a certifier that throws leave the parsing panel busy until the next edit
  (`parsing-verification-coordinator.ts:193`, `:208`); `EveryEditConcluded` says that nothing else does.
- TOWL: sharing re-enables its button while the room is being left (`mount-towl.ts:352-357`).
- Boot: a failed load of the fireworks fails the splash, and the demo is not reached (`app.ts:84-115`). A
  timeout of `wait.ts` leaves the subscription of the inner wait behind.
- Cellsheet: results that are not numbers make the evaluation run all its passes, because they differ from
  themselves; a shift-drag ignores the largest width for the neighbour of the pair.
- Sudoku: an animation whose picture is already reached leaves the one that runs running.
- About: links and copyright lines inside a fence are shown before the code. OKLCH: a hue of 359.96 becomes 360.
- Explorer: a failed or closed load leaves the old inspector shown (`mount-tp-frozen.ts:493`), and closing a suite while its case
  is awaited does not stop the inspector from opening (`:583-588`).
- Menu: `enter()` grows all tiles, also the ones not selected. The beam's penalty for holes is recomputed away at the next
  step (`soft-tile-field.ts:60`, `:104`).

## 8. Not modelled

- **Test harness** (`tests/harness/`): it runs the tests and is not part of the program.
- **Presentation** (`fleurs/`, `motes/`, `bar-bar.ts/`, `phase-1-brand/`, `make-cloud.ts` and styling everywhere): shapes, colours and
  styles computed once, without state that a later event could find wrong.
- **Decoders of test reports and their presentation**: stateless checks of files the build wrote.
- **Routing, origin and token checks** of the servers: functions of one request. The adapter of Cloudflare's
  sockets to the library's interface.
- **Parts of modelled components**: the energy that ranks placements of tiles (any admissible one may be kept); the bodies of
  join requests; inline markup; decimals in the sheet; a `postMessage` of `initialize` that throws
  (`circuit-verification-service.ts:616`).
- **The library** `hson-live`, the browser, Node and Cloudflare: external, as used by the code.
