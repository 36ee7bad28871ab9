---------------------------- MODULE ParsingPanels ----------------------------
(***************************************************************************)
(* The parsing panels, init-pp.ts: one editor for each format, an edit of  *)
(* one rewrites the others when its source is admitted, text nobody fixed  *)
(* is erased a while after its editor lost the focus, and every edit goes  *)
(* to the coordinator.  A text is known by the edit it was typed in or     *)
(* derived from.                                                           *)
(***************************************************************************)
EXTENDS ParsingCoordinator

VARIABLE u
vars == <<p, u>>

\* admit of a source: it is empty; or it throws after rewriting the first n
\* of the other editors; or it is transformed, within or beyond the limit.
Others(f) == SelectSeq(Formats, LAMBDA g : g # f)
Source == [kind : {"empty", "ok", "large"}, n : {0}]
          \union [kind : {"bad"}, n : 0..Len(Formats) - 2]
Admitted(source) == IF source.kind \in {"empty", "bad"} THEN "invalid" ELSE source.kind

rewritten(k, f, source) ==
  IF source.kind = "empty" THEN {}
  ELSE IF source.kind = "bad" THEN {Others(f)[i] : i \in 1..source.n}
  ELSE Format \ {f}

\* The editors after edit r of f, as far as admit changes them.
admit(k, f, r, source) ==
  LET written == [k EXCEPT !.text = [g \in Format |->
                    IF g \in rewritten(k, f, source) THEN r ELSE @[g]]]
  IN IF source.kind = "empty" THEN k
     ELSE IF source.kind = "bad" THEN [written EXCEPT !.invalidOwner = f]
     ELSE [written EXCEPT !.invalidOwner = None, !.invalidClearTimer = None]

\* The editor of f holds a new source, and coordinator and editors take the edit.
authored(k, f, source) ==
  LET r == p.revision + 1
  IN /\ r \in Edits
     /\ p' = edit(p, f, Admitted(source))
     /\ u' = admit([k EXCEPT !.text[f] = r, !.kind[r] = source.kind], f, r, source)

handleFocus(f) ==
  /\ ~u.disposed /\ u.active = None
  /\ u' = [u EXCEPT !.active = f, !.invalidClearTimer = None]
  /\ UNCHANGED p

handleInput(f, source) ==
  /\ ~u.disposed /\ u.active = f
  /\ authored([u EXCEPT !.hasAuthoredInput = TRUE], f, source)

handleBlur(f) ==
  /\ ~u.disposed /\ u.active = f
  /\ p' = flush(p)
  /\ u' = [u EXCEPT !.active = None,
                    !.invalidClearTimer = IF u.invalidOwner = f THEN f ELSE @]

\* The callback of invalidClearTimer.
Erase ==
  /\ u.invalidClearTimer # None
  /\ u' = IF u.invalidOwner = u.invalidClearTimer
          THEN [u EXCEPT !.invalidClearTimer = None, !.invalidOwner = None,
                         !.text[u.invalidClearTimer] = 0]
          ELSE [u EXCEPT !.invalidClearTimer = None]
  /\ UNCHANGED p

\* initialSource.load settles, once; only untouched editors take the source.
InitialSource(f, source) ==
  /\ u.loading /\ ~u.disposed /\ ~u.hasAuthoredInput
  /\ authored([u EXCEPT !.loading = FALSE], f, source)

dispose_panels ==
  /\ ~u.disposed
  /\ u' = [u EXCEPT !.disposed = TRUE, !.invalidClearTimer = None, !.loading = FALSE]
  /\ p' = dispose(p)

Init ==
  /\ InitCoordinator
  /\ u = [text |-> [f \in Format |-> 0], kind |-> [r \in Edits |-> "empty"],
          active |-> None, invalidOwner |-> None, invalidClearTimer |-> None,
          hasAuthoredInput |-> FALSE, loading |-> TRUE, disposed |-> FALSE]

Remote ==
  /\ DebounceOver \/ Opening \/ SocketClosed \/ \E r \in Edits : Settling(r) \/ Reporting(r)
  /\ UNCHANGED u

Next ==
  \/ \E f \in Format :
       \/ handleFocus(f) \/ handleBlur(f)
       \/ \E source \in Source : handleInput(f, source) \/ InitialSource(f, source)
  \/ Erase
  \/ dispose_panels
  \/ Remote

Spec == Init /\ [][Next]_vars

\* Timers fire, and whoever was asked answers: the network opens or fails, an
\* action is acknowledged or rejected, and a certificate is computed.
Answering ==
  /\ WF_vars(DebounceOver /\ UNCHANGED u)
  /\ WF_vars(Opening /\ UNCHANGED u)
  /\ \A r \in Edits : WF_vars(Settling(r) /\ UNCHANGED u)

FairSpec == Spec /\ Answering

\* render: what the status of an editor reads.
render(f) ==
  IF p.state.status = "idle" THEN "--"
  ELSE IF p.state.entry = f THEN p.state.status ELSE "derived"

-----------------------------------------------------------------------------
TypeOK ==
  /\ p.state \in [status : Statuses, entry : Format \union {None}, revision : 0..MaxEdits]
  /\ p.revision \in 0..MaxEdits + 1 /\ p.timer \in 0..MaxEdits /\ p.pending \in 0..MaxEdits
  /\ p.launch \in [Edits -> Phases] /\ p.listening \subseteq Edits
  /\ p.opening \in {"none", "bootstrap", "ready", "creating"}
  /\ p.opened \in 0..MaxSockets /\ p.client \in 0..MaxSockets
  /\ p.socket \in [Sockets -> {"none", "live", "stranded", "disposed"}]
  /\ u.text \in [Format -> 0..MaxEdits]
  /\ {u.active, u.invalidOwner, u.invalidClearTimer} \subseteq Format \union {None}

(* The panels never show a state of an older text: whatever answers late,  *)
(* the state is about the latest edit, and while an editor shows anything  *)
(* but a refusal, all three hold its edit or what was derived from it.     *)
ShowsLatestEdit ==
  ~u.disposed =>
    /\ p.state.revision = p.revision
    /\ \A f, g \in Format : render(f) \notin {"--", "derived", "invalid"} => u.text[g] = p.revision

(* A text is only ever erased for being invalid and unattended: while its  *)
(* timer runs no editor has the focus, and it is still the text that was   *)
(* refused, not one typed or derived since.                                *)
ErasesOnlyInvalid ==
  u.invalidClearTimer # None =>
    /\ u.active = None
    /\ u.invalidOwner = u.invalidClearTimer =>
         LET r == u.text[u.invalidClearTimer] IN r # 0 => u.kind[r] \in {"bad", "empty"}

(* What the panels show is about the latest edit, and what they erase is   *)
(* not.                                                                    *)
PanelsShowLatestEdit == ShowsLatestEdit /\ ErasesOnlyInvalid

(* Every live socket has an owner who will dispose it, the client of a     *)
(* transport that is not disposed of or the opening that created it; one   *)
(* that its opening installed after the disposal has none, and lasts until *)
(* the network closes it.  And a request waits only for an opening or for  *)
(* a client: it is not left behind when a socket closes.                   *)
SocketsOwned ==
  /\ \A i \in Sockets :
       /\ p.socket[i] = "live" =>
            \/ p.client = i /\ ~p.transportDisposed
            \/ p.opening \in {"ready", "creating"} /\ p.opened = i
       /\ p.socket[i] = "stranded" => p.client = i /\ p.transportDisposed
  /\ \A r \in Edits :
       /\ p.launch[r] = "opening" => p.opening # "none"
       /\ p.launch[r] = "acting" => p.client # 0

Rank(status) ==
  CASE status \in {"idle", "invalid", "parsed"} -> 0
    [] status = "queued" -> 1
    [] status = "verifying" -> 2
    [] status = "browser-check" -> 3
    [] OTHER -> 4

(* For one edit the shown state only moves forward, from parsed to a       *)
(* verdict, except that a request the authority withdrew leaves it parsed; *)
(* and an edit is sent at most once.                                       *)
Forward ==
  [][ /\ p'.state.revision = p.state.revision =>
           \/ Rank(p'.state.status) >= Rank(p.state.status)
           \/ p'.state.status = "parsed" /\ p.launch[p.revision] = "acting"
      /\ \A r \in Edits : p.launch[r] # "none" => p'.launch[r] \notin {"none", "opening"} \/ p'.launch[r] = p.launch[r]
    ]_vars

InProgress(r) == p.state.revision = r /\ Rank(p.state.status) \in 1..3

(* If everyone who is asked answers, the panels do not stay busy: every    *)
(* admitted edit is verified, refused or found impossible to verify, or it *)
(* is edited again or disposed of, but for the two ways in which launch    *)
(* ends without a word: an answer to another request, and a certifier that *)
(* throws.  The authority of this repository does not give the one nor its *)
(* certifier do the other, and nothing else leaves a panel busy.           *)
EveryEditConcluded ==
  \A r \in Edits :
    InProgress(r) ~> (p.revision # r \/ Rank(p.state.status) \notin 1..3 \/ p.launch[r] = "dropped")
=============================================================================
