----------------------------- MODULE TestExplorer -----------------------------
(***************************************************************************)
(* The explorer of test reports: mount-test-panels.ts, which imports it,   *)
(* mount-tp-frozen.ts, and the client that fetches its reports.  Categories*)
(* and suites are disclosures loaded when they are opened; the address     *)
(* names what the inspector shows, so every opening goes through           *)
(* history and reconcile_location, which awaits up to three fetches.  One  *)
(* suite with one case stands for a category's suites, and a fetch that    *)
(* was superseded is gone unless a continuation of it still does something.*)
(***************************************************************************)
EXTENDS Integers, Sequences, SequencesExt

CONSTANTS Groups,      \* the categories
          NoGroup,
          MaxEntries,  \* bound on the entries of the history
          MaxWaiting   \* bound on what waits for one fetch, and on calls of history.back

ASSUME ExplorerAssumption ==
  IsFiniteSet(Groups) /\ NoGroup \notin Groups /\ MaxEntries \in Nat \ {0} /\ MaxWaiting \in Nat \ {0}

VARIABLE explorer

Nowhere == <<"none">>
\* What an address may name; a lost case is one its suite does not list.
Targets == {"category", "suite", "case", "lost"} \X Groups
Keys == {"suite", "case"} \X Groups

-----------------------------------------------------------------------------
(* The surface of the inspector.                                           *)

\* A copy that shared the inspector's request awaits it alone from now on.
outdated(e) ==
  [e EXCEPT !.copying = [g \in Groups |-> IF @[g] = "shared" THEN "own" ELSE @[g]]]

close_surface(e) ==
  [outdated(e) EXCEPT !.active = Nowhere, !.pending = Nowhere, !.failed = FALSE, !.retained = NoGroup]

open_artifact(e, key) == [close_surface(e) EXCEPT !.active = key]
open_selection(e, key) == [close_surface(e) EXCEPT !.pending = key, !.retained = key[2]]

location(e) == e.entries[e.at].target
replaceState(e, target) == [e EXCEPT !.entries[e.at].target = target]
pushState(e, target) ==
  [e EXCEPT !.entries = Append(SubSeq(@, 1, e.at), [target |-> target, marked |-> TRUE]), !.at = @ + 1]

-----------------------------------------------------------------------------
(* The disclosures.  A closed one forgets its fetch: whoever awaits it is  *)
(* told undefined, which only the navigation to a category acts upon.      *)

onDisclosureClose(e, g) ==
  IF e.active \in {<<"suite", g>>, <<"case", g>>} THEN close_surface(replaceState(e, Nowhere)) ELSE e

close_suite(e, g) ==
  onDisclosureClose([e EXCEPT !.renderedCases = IF e.suite[g] = "ready" THEN @ - 1 ELSE @,
                              !.suite[g] = "closed", !.suiteWaits[g] = << >>], g)

close_category(e, g) ==
  LET emptied == IF e.category[g] # "ready" THEN e
                 ELSE [close_suite(e, g) EXCEPT !.renderedSuites = @ - 1, !.suiteOpen[g] = FALSE]
  IN [emptied EXCEPT !.category[g] = "closed", !.categoryWaits[g] = << >>,
                     !.stale = IF Contains(e.categoryWaits[g], <<"category", g>>) THEN @ + 1 ELSE @]

close_all(e) == FoldLeft(close_category, e, SetToSeq(Groups))

load_category(e, g, open) ==
  [e EXCEPT !.categoryOpen[g] = @ \/ open, !.category[g] = IF @ = "ready" THEN @ ELSE "loading"]

load_suite(e, g, open) ==
  [e EXCEPT !.suiteOpen[g] = @ \/ open, !.suite[g] = IF @ = "ready" THEN @ ELSE "loading"]

-----------------------------------------------------------------------------
(* reconcile_location, cut at its awaits.  A promise that is settled       *)
(* already is no cut: nothing runs in between but other continuations.     *)

suite_listed(e, t) ==
  CASE t[1] = "case"  -> IF t \in {e.active, e.pending} THEN e ELSE open_selection(e, t)
    [] t[1] = "suite" -> IF t = e.active THEN e ELSE open_artifact(e, t)
    [] t[1] = "lost"  -> [close_surface(e) EXCEPT !.failed = TRUE]

category_listed(e, t) ==
  IF t[1] = "category" THEN close_surface(e)
  ELSE LET loading == load_suite(e, t[2], TRUE)
       IN IF loading.suite[t[2]] = "ready" THEN suite_listed(loading, t)
          ELSE [loading EXCEPT !.suiteWaits[t[2]] = Append(@, t)]

reconcile_location(e) ==
  LET t == location(e)
      loading == load_category(e, t[2], TRUE)
  IN IF e.disposed \/ e.panel # "ready" THEN e
     ELSE IF t = Nowhere THEN close_surface(e)
     ELSE IF loading.category[t[2]] = "ready" THEN category_listed(loading, t)
     ELSE [loading EXCEPT !.categoryWaits[t[2]] = Append(@, t)]

\* Opening what a row offers: it is named by the address first.
view(e, key) == reconcile_location(pushState(e, key))

-----------------------------------------------------------------------------
(* mount_test_panels imports the panel, whose index is loaded then.        *)

deactivate_panel(e) ==
  IF e.panel = "ready" THEN close_surface(close_all(replaceState(e, Nowhere))) ELSE close_surface(e)

PanelImported ==
  /\ explorer.panel = "importing"
  /\ \E came \in BOOLEAN : explorer' = [explorer EXCEPT !.panel = IF came THEN "loading" ELSE "failed"]

IndexLoaded ==
  /\ explorer.panel = "loading"
  /\ LET shown == reconcile_location([explorer EXCEPT !.panel = "ready"])
     IN explorer' = IF shown.live THEN shown ELSE deactivate_panel(shown)

IndexFailed == explorer.panel = "loading" /\ explorer' = [explorer EXCEPT !.panel = "error"]

activate_tests == ~explorer.live /\ explorer' = [explorer EXCEPT !.live = TRUE]
deactivate_tests ==
  /\ explorer.live
  /\ explorer' = [(IF explorer.panel \in {"importing", "failed"} THEN explorer
                   ELSE deactivate_panel(explorer)) EXCEPT !.live = FALSE]

dispose_explorer ==
  explorer' = [close_surface(IF explorer.panel = "ready" THEN close_all(explorer) ELSE explorer)
                 EXCEPT !.disposed = TRUE]

-----------------------------------------------------------------------------
(* What the user does, and what the client's fetches answer.               *)

Shown == explorer.panel = "ready" /\ explorer.live /\ ~explorer.disposed

ToggleCategory(g) ==
  /\ Shown
  /\ explorer' = IF explorer.categoryOpen[g]
                 THEN [close_category(explorer, g) EXCEPT !.categoryOpen[g] = FALSE]
                 ELSE load_category(explorer, g, TRUE)

ToggleSuite(g) ==
  /\ Shown /\ explorer.category[g] = "ready"
  /\ explorer' = IF explorer.suiteOpen[g]
                 THEN [close_suite(explorer, g) EXCEPT !.suiteOpen[g] = FALSE]
                 ELSE load_suite(explorer, g, TRUE)

\* The name of a suite; its "Copy" only loads.
ClickSuite(g) ==
  /\ Shown /\ explorer.category[g] = "ready"
  /\ \E action \in {"view", "copy"} :
       LET loading == load_suite(explorer, g, FALSE)
       IN explorer' = IF action = "copy" THEN loading
                      ELSE IF loading.suite[g] = "ready" THEN view(loading, <<"suite", g>>)
                      ELSE [loading EXCEPT !.suiteWaits[g] = Append(@, <<"view", g>>)]

ViewCase(g) == Shown /\ explorer.suite[g] = "ready" /\ explorer' = view(explorer, <<"case", g>>)

CategoryArrives(g) ==
  /\ explorer.category[g] = "loading"
  /\ LET answered == [explorer EXCEPT !.categoryWaits[g] = << >>]
     IN \/ explorer' = FoldLeft(category_listed,
                                [answered EXCEPT !.category[g] = "ready", !.renderedSuites = @ + 1],
                                explorer.categoryWaits[g])
        \/ explorer' = IF Contains(explorer.categoryWaits[g], <<"category", g>>)
                       THEN close_surface([answered EXCEPT !.category[g] = "error"])
                       ELSE [answered EXCEPT !.category[g] = "error"]

\* The navigation to a category that was closed meanwhile.
StaleCategoryArrives ==
  explorer.stale > 0 /\ explorer' = close_surface([explorer EXCEPT !.stale = @ - 1])

\* What waited for a suite: the navigations, and the clicks on its name.
navigated(e, w) == IF w[1] = "view" THEN e ELSE suite_listed(e, w)
clicked(e, w) == IF w[1] = "view" THEN view(e, <<"suite", w[2]>>) ELSE e

\* The clicks go on after the navigations that awaited the same fetch: each
\* awaits two more promises.
SuiteArrives(g) ==
  /\ explorer.suite[g] = "loading"
  /\ LET answered == [explorer EXCEPT !.suiteWaits[g] = << >>]
         waits_ == explorer.suiteWaits[g]
         listed == FoldLeft(navigated, [answered EXCEPT !.suite[g] = "ready", !.renderedCases = @ + 1], waits_)
     IN \/ explorer' = FoldLeft(clicked, listed, waits_)
        \/ explorer' = [answered EXCEPT !.suite[g] = "error"]

ends_copy(e, g) ==
  [e EXCEPT !.copying[g] = "none", !.retained = IF @ = g THEN NoGroup ELSE @]

EvidenceArrives ==
  /\ explorer.pending # Nowhere
  /\ LET g == explorer.pending[2]
         answered == [explorer EXCEPT !.pending = Nowhere]
         shared == explorer.copying[g] = "shared"
     IN \/ explorer' = [answered EXCEPT !.active = explorer.pending,
                                        !.copying[g] = IF shared THEN "writing" ELSE @]
        \/ explorer' = [(IF shared THEN ends_copy(answered, g) ELSE answered)
                          EXCEPT !.failed = TRUE, !.retained = IF @ = g THEN NoGroup ELSE @]

\* The client hands out the request it retains, and retains the one it makes.
CopyCase(g) ==
  /\ Shown /\ explorer.suite[g] = "ready" /\ explorer.copying[g] = "none"
  /\ explorer' = IF explorer.retained # g
                 THEN [explorer EXCEPT !.copying[g] = "own", !.retained = g]
                 ELSE [explorer EXCEPT !.copying[g] = IF explorer.pending = <<"case", g>> THEN "shared"
                                                      ELSE "writing"]

CopyArrives(g) ==
  /\ explorer.copying[g] = "own"
  /\ \/ ~explorer.disposed /\ explorer' = [explorer EXCEPT !.copying[g] = "writing"]
     \/ explorer' = ends_copy(explorer, g)

CopyWritten(g) == explorer.copying[g] = "writing" /\ explorer' = ends_copy(explorer, g)

\* The inspector's own close button; history.back is a task of its own.
close_from_control ==
  /\ Shown /\ explorer.active # Nowhere
  /\ explorer' = IF explorer.entries[explorer.at].marked
                 THEN [explorer EXCEPT !.backs = @ + 1]
                 ELSE reconcile_location(replaceState(explorer, Nowhere))

\* A traversal asked for by that button, or by the browser's; popstate follows.
Traverse(step) ==
  /\ explorer.at + step \in 1..Len(explorer.entries)
  /\ \/ step = -1 /\ explorer.backs > 0
        /\ explorer' = reconcile_location([explorer EXCEPT !.at = @ - 1, !.backs = @ - 1])
     \/ explorer.backs = 0
        /\ explorer' = reconcile_location([explorer EXCEPT !.at = @ + step])

-----------------------------------------------------------------------------
ExplorerInit ==
  \E t \in Targets \union {Nowhere} :
    explorer = [panel |-> "importing", live |-> TRUE, disposed |-> FALSE,
                entries |-> <<[target |-> t, marked |-> FALSE]>>, at |-> 1, backs |-> 0,
                category |-> [g \in Groups |-> "closed"], categoryOpen |-> [g \in Groups |-> FALSE],
                suite |-> [g \in Groups |-> "closed"], suiteOpen |-> [g \in Groups |-> FALSE],
                categoryWaits |-> [g \in Groups |-> << >>], suiteWaits |-> [g \in Groups |-> << >>],
                stale |-> 0, active |-> Nowhere, pending |-> Nowhere, failed |-> FALSE,
                retained |-> NoGroup, copying |-> [g \in Groups |-> "none"],
                renderedCases |-> 0, renderedSuites |-> 0]

Within(e) ==
  /\ Len(e.entries) <= MaxEntries /\ e.backs <= MaxWaiting /\ e.stale <= MaxWaiting
  /\ \A g \in Groups : Len(e.categoryWaits[g]) <= MaxWaiting /\ Len(e.suiteWaits[g]) <= MaxWaiting

ExplorerNext ==
  /\ \/ ~explorer.disposed
        /\ \/ PanelImported \/ IndexLoaded \/ IndexFailed
           \/ activate_tests \/ deactivate_tests \/ dispose_explorer \/ close_from_control \/ EvidenceArrives
           \/ \E step \in {-1, 1} : Traverse(step)
           \/ \E g \in Groups : \/ ToggleCategory(g) \/ ToggleSuite(g) \/ ClickSuite(g) \/ ViewCase(g)
                                \/ CategoryArrives(g) \/ SuiteArrives(g) \/ CopyCase(g)
     \/ StaleCategoryArrives
     \/ \E g \in Groups : CopyArrives(g) \/ CopyWritten(g)
  /\ Within(explorer')

ExplorerSpec == ExplorerInit /\ [][ExplorerNext]_explorer

-----------------------------------------------------------------------------
ExplorerTypeOK ==
  /\ explorer.panel \in {"importing", "failed", "loading", "ready", "error"}
  /\ {explorer.live, explorer.disposed, explorer.failed} \subseteq BOOLEAN
  /\ explorer.at \in 1..Len(explorer.entries)
  /\ {explorer.active, explorer.pending} \subseteq Keys \union {Nowhere}
  /\ explorer.retained \in Groups \union {NoGroup}
  /\ \A g \in Groups :
       /\ {explorer.category[g], explorer.suite[g]} \subseteq {"closed", "loading", "ready", "error"}
       /\ explorer.copying[g] \in {"none", "own", "shared", "writing"}

(* "Only one detail is retained": the client keeps a case's report only    *)
(* while the inspector shows or awaits it, or it is being copied; what was *)
(* closed is counted no longer and awaited by nobody; and a panel that was *)
(* disposed of, or is not ready, shows nothing, whatever arrives late.     *)
OneDetailRetained ==
  /\ explorer.retained # NoGroup =>
       \/ <<"case", explorer.retained>> \in {explorer.active, explorer.pending}
       \/ explorer.copying[explorer.retained] # "none"
  /\ explorer.active = Nowhere \/ explorer.pending = Nowhere
  /\ explorer.renderedSuites = Cardinality({g \in Groups : explorer.category[g] = "ready"})
  /\ explorer.renderedCases = Cardinality({g \in Groups : explorer.suite[g] = "ready"})
  /\ \A g \in Groups :
       /\ explorer.categoryWaits[g] # << >> => explorer.category[g] = "loading"
       /\ explorer.suiteWaits[g] # << >> => explorer.suite[g] = "loading"
       /\ explorer.suite[g] # "closed" => explorer.category[g] = "ready"
  /\ explorer.disposed \/ explorer.panel # "ready" =>
       /\ explorer.active = Nowhere /\ explorer.pending = Nowhere
       /\ \A g \in Groups : explorer.category[g] = "closed"

(* "Late case response is ignored after inspector navigation": what the    *)
(* inspector newly shows is what the address names.                        *)
LateResponsesIgnored ==
  [][explorer'.active \notin {explorer.active, Nowhere} => explorer'.active = location(explorer')]_explorer
=============================================================================
