----------------------------- MODULE Demos_proofs -----------------------------
(***************************************************************************)
(* Proofs about the small panels, the menu, the deck and the readers of    *)
(* its texts, for all values of their constants: the explorer of test      *)
(* reports, the color picker, the build panel, the point widget, menus of  *)
(* any items laid out on a field of any size, decks of any length, and     *)
(* texts of any lines.                                                     *)
(***************************************************************************)
EXTENDS Deck, Markdown, OklchPanel, BuildPanel, PointPanel, TestExplorer, AmoebaMenu, SoftTiles,
        TLAPS, FiniteSetTheorems, SequenceTheorems, WellFoundedInduction

LEMMA Smallest ==
  ASSUME NEW S, S \subseteq Nat, S # {}
  PROVE  Min(S) \in S /\ \A y \in S : Min(S) <= y
<1> DEFINE below == OpToRel(<, Nat)
<1>1. IsWellFoundedOn(below, Nat)
  BY NatLessThanWellFounded
<1>2. ASSUME NEW x \in Nat, NEW y \in Nat PROVE <<y, x>> \in below <=> y < x
  BY DEF OpToRel
<1> HIDE DEF below
<1>3. PICK x \in S : \A y \in S : ~(<<y, x>> \in below)
  BY <1>1, WFMin
<1>4. ASSUME NEW y \in S PROVE x <= y
  <2>1. x \in Nat /\ y \in Nat
    OBVIOUS
  <2>2. ~(y < x)
    BY <1>2, <1>3, <2>1
  <2> QED
    BY <2>1, <2>2
<1> QED
  BY <1>4 DEF Min

-----------------------------------------------------------------------------
(* Folds over a sequence, which the library computes along the subsets of  *)
(* its indices.                                                            *)

\* The largest index of a set that has its bound.
LEMMA Topmost ==
  ASSUME NEW n \in Nat, NEW s \in SUBSET (1..(n + 1)), n + 1 \in s
  PROVE  Max(s) = n + 1 /\ s \ {Max(s)} \in SUBSET (1..n)
<1>1. \A y \in s : y \in Int /\ y <= n + 1
  OBVIOUS
<1>2. \A x \in s : (\A y \in s : x >= y) => x = n + 1
  BY <1>1
<1>3. \A y \in s : n + 1 >= y
  BY <1>1
<1>4. Max(s) = n + 1
  BY <1>2, <1>3 DEF Max
<1>5. ASSUME NEW y \in s \ {n + 1} PROVE y \in 1..n
  BY <1>1
<1> QED
  BY <1>4, <1>5

\* What holds of the set of no index, and of a set if it holds of the set
\* without its largest index, holds of all.
LEMMA AlongIndices ==
  ASSUME NEW n \in Nat, NEW True \in SUBSET (SUBSET (1..n)), {} \in True,
         \A s \in SUBSET (1..n) : s # {} /\ s \ {Max(s)} \in True => s \in True
  PROVE  \A s \in SUBSET (1..n) : s \in True
<1> DEFINE Bad == {m \in 0..n : \E s \in SUBSET (1..m) : s \notin True}
<1>1. SUFFICES ASSUME Bad # {} PROVE FALSE
  BY DEF Bad
<1> DEFINE m == Min(Bad)
<1>2. m \in Bad /\ \A k \in Bad : m <= k
  <2>1. Bad \subseteq Nat
    OBVIOUS
  <2> HIDE DEF Bad
  <2> QED
    BY <1>1, <2>1, Smallest
<1>3. m \in 0..n
  BY <1>2
<1>4. PICK s \in SUBSET (1..m) : s \notin True
  BY <1>2
<1> HIDE DEF m
<1>5. m # 0
  <2> SUFFICES ASSUME m = 0 PROVE FALSE
    OBVIOUS
  <2>1. s = {}
    BY <1>4
  <2> QED
    BY <1>4, <2>1
<1>6. m \in Nat /\ m - 1 \in Nat /\ m - 1 \in 0..n /\ ~(m <= m - 1)
  BY <1>3, <1>5
<1>7. \A r \in SUBSET (1..(m - 1)) : r \in True
  BY <1>2, <1>6
<1> HIDE DEF Bad
<1>8. m \in s
  <2> SUFFICES ASSUME m \notin s PROVE FALSE
    OBVIOUS
  <2>1. s \in SUBSET (1..(m - 1))
    BY <1>3, <1>4
  <2> QED
    BY <1>4, <1>7, <2>1
<1>9. Max(s) = m /\ s \ {Max(s)} \in SUBSET (1..(m - 1))
  <2> DEFINE k == m - 1
  <2>1. k \in Nat /\ k + 1 = m
    BY <1>6
  <2> HIDE DEF k
  <2>2. Max(s) = k + 1 /\ s \ {Max(s)} \in SUBSET (1..k)
    BY <1>4, <1>8, <2>1, Topmost
  <2> QED
    BY <2>1, <2>2 DEF k
<1>10. s \in SUBSET (1..n)
  BY <1>3, <1>4
<1> QED
  BY <1>4, <1>7, <1>8, <1>9, <1>10

\* iter repeats a step from base on, along the indices.
Repeats(iter, n, base, Step, States) ==
  /\ iter \in [SUBSET (1..n) -> States]
  /\ \A s \in SUBSET (1..n) :
       iter[s] = IF s = {} THEN base ELSE Step[<<iter[s \ {Max(s)}], Max(s)>>]

\* A step that stays among the states can be repeated.
LEMMA Iterated ==
  ASSUME NEW n \in Nat, NEW States, NEW base \in States, NEW Step \in [States \X (1..n) -> States]
  PROVE  \E iter : Repeats(iter, n, base, Step, States)
<1> DEFINE Along(iter, m) ==
             \A s \in SUBSET (1..m) :
               iter[s] = IF s = {} THEN base ELSE Step[<<iter[s \ {Max(s)}], Max(s)>>]
           Bad == {m \in 0..n : ~\E iter \in [SUBSET (1..m) -> States] : Along(iter, m)}
<1>1. SUFFICES ASSUME Bad # {} PROVE FALSE
  <2>1. n \in 0..n
    OBVIOUS
  <2>2. (\E iter \in [SUBSET (1..n) -> States] : Along(iter, n)) => \E iter : Repeats(iter, n, base, Step, States)
    BY DEF Repeats
  <2> QED
    BY <2>1, <2>2
<1> DEFINE m == Min(Bad)
<1>2. m \in Bad /\ \A k \in Bad : m <= k
  <2>1. Bad \subseteq Nat
    OBVIOUS
  <2> HIDE DEF Bad
  <2> QED
    BY <1>1, <2>1, Smallest
<1>3. m \in 0..n /\ ~\E iter \in [SUBSET (1..m) -> States] : Along(iter, m)
  BY <1>2
<1> HIDE DEF m
<1>5. m # 0
  <2> SUFFICES ASSUME m = 0 PROVE FALSE
    OBVIOUS
  <2> DEFINE iter == [s \in SUBSET (1..m) |-> base]
  <2>1. \A s \in SUBSET (1..m) : s = {}
    OBVIOUS
  <2>2. iter \in [SUBSET (1..m) -> States] /\ Along(iter, m)
    BY <2>1
  <2> QED
    BY <1>3, <2>2
<1>6. m \in Nat /\ m - 1 \in Nat /\ m - 1 \in 0..n /\ ~(m <= m - 1)
  BY <1>3, <1>5
<1>7. PICK before \in [SUBSET (1..(m - 1)) -> States] : Along(before, m - 1)
  BY <1>2, <1>6
<1> HIDE DEF Bad
<1> DEFINE iter == [s \in SUBSET (1..m) |-> IF m \in s THEN Step[<<before[s \ {m}], m>>] ELSE before[s]]
<1>8. \A s \in SUBSET (1..m) : m \in s => Max(s) = m /\ s \ {m} \in SUBSET (1..(m - 1))
  <2> DEFINE k == m - 1
  <2>1. k \in Nat /\ k + 1 = m
    BY <1>6
  <2> HIDE DEF k
  <2>2. ASSUME NEW s \in SUBSET (1..m), m \in s PROVE Max(s) = k + 1 /\ s \ {Max(s)} \in SUBSET (1..k)
    BY <2>1, <2>2, Topmost
  <2> QED
    BY <2>1, <2>2 DEF k
<1>9. \A s \in SUBSET (1..m) : m \notin s => s \in SUBSET (1..(m - 1))
  BY <1>3
<1>10. m \in 1..n
  BY <1>3, <1>5
<1>11. iter \in [SUBSET (1..m) -> States]
  <2>1. ASSUME NEW s \in SUBSET (1..m), m \in s PROVE Step[<<before[s \ {m}], m>>] \in States
    <3>1. before[s \ {m}] \in States
      BY <1>8, <2>1
    <3> QED
      BY <1>10, <3>1
  <2>2. ASSUME NEW s \in SUBSET (1..m), m \notin s PROVE before[s] \in States
    BY <1>9, <2>2
  <2> QED
    BY <2>1, <2>2
<1>12. ASSUME NEW s \in SUBSET (1..m)
       PROVE  iter[s] = IF s = {} THEN base ELSE Step[<<iter[s \ {Max(s)}], Max(s)>>]
  <2>1. CASE m \in s
    <3>1. Max(s) = m /\ s \ {m} \in SUBSET (1..(m - 1)) /\ s # {}
      BY <1>8, <2>1
    <3>2. s \ {m} \in SUBSET (1..m) /\ m \notin s \ {m}
      BY <1>3
    <3>3. iter[s \ {m}] = before[s \ {m}]
      BY <3>2
    <3>4. iter[s] = Step[<<before[s \ {m}], m>>]
      BY <2>1
    <3> QED
      BY <3>1, <3>3, <3>4
  <2>2. CASE m \notin s
    <3>1. s \in SUBSET (1..(m - 1)) /\ iter[s] = before[s]
      BY <1>9, <2>2
    <3>2. s \ {Max(s)} \in SUBSET (1..m) /\ m \notin s \ {Max(s)}
      BY <2>2
    <3>3. iter[s \ {Max(s)}] = before[s \ {Max(s)}]
      BY <3>2
    <3>4. before[s] = IF s = {} THEN base ELSE Step[<<before[s \ {Max(s)}], Max(s)>>]
      BY <1>7, <3>1
    <3> QED
      BY <3>1, <3>3, <3>4
  <2> QED
    BY <2>1, <2>2
<1> HIDE DEF iter
<1> QED
  BY <1>3, <1>11, <1>12

-----------------------------------------------------------------------------
(* The explorer of test reports: its types, and what holds of it between   *)
(* two of its steps.                                                       *)

Stages == {"closed", "loading", "ready", "error"}
Asks == {"view", "suite", "case", "lost"} \X Groups
Entry == [target : Targets \union {Nowhere}, marked : BOOLEAN]
ExplorerState ==
  [panel : {"importing", "failed", "loading", "ready", "error"}, live : BOOLEAN, disposed : BOOLEAN,
   entries : Seq(Entry), at : Nat, backs : Int,
   category : [Groups -> Stages], categoryOpen : [Groups -> BOOLEAN],
   suite : [Groups -> Stages], suiteOpen : [Groups -> BOOLEAN],
   categoryWaits : [Groups -> Seq(Targets)], suiteWaits : [Groups -> Seq(Asks)],
   stale : Int, active : Keys \union {Nowhere}, pending : Keys \union {Nowhere}, failed : BOOLEAN,
   retained : Groups \union {NoGroup}, copying : [Groups -> {"none", "own", "shared", "writing"}],
   renderedCases : Int, renderedSuites : Int]

\* The counts are those of the listings shown.
Tallied(e) ==
  /\ e.renderedSuites = Cardinality({g \in Groups : e.category[g] = "ready"})
  /\ e.renderedCases = Cardinality({g \in Groups : e.suite[g] = "ready"})

\* What is awaited is of the listing that is fetched, and a suite is looked
\* into below its category.
Awaited(e) ==
  \A g \in Groups :
    /\ e.categoryWaits[g] # << >> => e.category[g] = "loading"
    /\ e.suiteWaits[g] # << >> => e.suite[g] = "loading"
    /\ e.suite[g] # "closed" => e.category[g] = "ready"
    /\ \A i \in 1..Len(e.categoryWaits[g]) : e.categoryWaits[g][i][2] = g
    /\ \A i \in 1..Len(e.suiteWaits[g]) : e.suiteWaits[g][i][2] = g

\* What the client retains is shown, awaited or copied.
Held(e) ==
  /\ e.retained # NoGroup => \/ <<"case", e.retained>> \in {e.active, e.pending}
                             \/ e.copying[e.retained] # "none"
  /\ e.active = Nowhere \/ e.pending = Nowhere

\* A panel that is not there shows nothing.
Quiet(e) ==
  e.disposed \/ e.panel # "ready" =>
    /\ e.active = Nowhere /\ e.pending = Nowhere
    /\ \A g \in Groups : e.category[g] = "closed"

Explored(e) == e.at \in 1..Len(e.entries) /\ Tallied(e) /\ Awaited(e) /\ Held(e) /\ Quiet(e)

\* The same panel.
SamePanel(t, e) == t.panel = e.panel /\ t.disposed = e.disposed
\* The same listings.
SameLists(t, e) ==
  /\ t.category = e.category /\ t.suite = e.suite
  /\ t.categoryWaits = e.categoryWaits /\ t.suiteWaits = e.suiteWaits
  /\ t.renderedCases = e.renderedCases /\ t.renderedSuites = e.renderedSuites
\* The same inspector.
SameDetail(t, e) ==
  t.active = e.active /\ t.pending = e.pending /\ t.retained = e.retained /\ t.copying = e.copying
\* The same place in the history.
SamePlace(t, e) == t.entries = e.entries /\ t.at = e.at

Alive(e) == e.panel = "ready" /\ ~e.disposed
Explores(e) == e \in ExplorerState /\ Explored(e)

LEMMA ListsKept ==
  ASSUME NEW e, NEW t, SameLists(t, e)
  PROVE  (Tallied(e) => Tallied(t)) /\ (Awaited(e) => Awaited(t))
BY DEF SameLists, Tallied, Awaited

LEMMA DetailKept ==
  ASSUME NEW e, NEW t, SameDetail(t, e)
  PROVE  Held(e) => Held(t)
BY DEF SameDetail, Held

LEMMA Surfaced ==
  ASSUME NEW e \in ExplorerState
  PROVE  /\ close_surface(e) \in ExplorerState
         /\ SamePanel(close_surface(e), e) /\ SameLists(close_surface(e), e) /\ SamePlace(close_surface(e), e)
         /\ close_surface(e).active = Nowhere /\ close_surface(e).pending = Nowhere
         /\ close_surface(e).retained = NoGroup
<1> DEFINE o == outdated(e)
<1>1. o \in ExplorerState /\ SamePanel(o, e) /\ SameLists(o, e) /\ SamePlace(o, e)
  <2> DEFINE alone == [g \in Groups |-> IF e.copying[g] = "shared" THEN "own" ELSE e.copying[g]]
  <2>1. o = [e EXCEPT !.copying = alone]
    BY DEF outdated
  <2>2. alone \in [Groups -> {"none", "own", "shared", "writing"}]
    BY DEF ExplorerState
  <2> HIDE DEF alone
  <2> DEFINE t == [e EXCEPT !.copying = alone]
  <2>4. t \in ExplorerState
    BY <2>2 DEF ExplorerState
  <2>3. o \in ExplorerState
    BY <2>1, <2>4
  <2> HIDE DEF o
  <2> QED
    BY <2>1, <2>3 DEF ExplorerState, SamePanel, SameLists, SamePlace
<1> DEFINE nowhere == Nowhere
           a == [o EXCEPT !.active = nowhere]
           b == [a EXCEPT !.pending = nowhere]
           c == [b EXCEPT !.failed = FALSE]
           d == [c EXCEPT !.retained = NoGroup]
<1>2. close_surface(e) = d
  BY DEF close_surface
<1> HIDE DEF o
<1>3. nowhere \in Keys \union {Nowhere}
  OBVIOUS
<1> HIDE DEF nowhere
<1>4. a \in ExplorerState /\ SamePanel(a, o) /\ SameLists(a, o) /\ SamePlace(a, o) /\ a.active = nowhere
  BY <1>1, <1>3 DEF ExplorerState, SamePanel, SameLists, SamePlace
<1> HIDE DEF a
<1>5. b \in ExplorerState /\ SamePanel(b, a) /\ SameLists(b, a) /\ SamePlace(b, a) /\ b.active = a.active
      /\ b.pending = nowhere
  BY <1>4, <1>3 DEF ExplorerState, SamePanel, SameLists, SamePlace
<1> HIDE DEF b
<1>6. c \in ExplorerState /\ SamePanel(c, b) /\ SameLists(c, b) /\ SamePlace(c, b) /\ c.active = b.active
      /\ c.pending = b.pending
  BY <1>5 DEF ExplorerState, SamePanel, SameLists, SamePlace
<1> HIDE DEF c
<1>7. d \in ExplorerState /\ SamePanel(d, c) /\ SameLists(d, c) /\ SamePlace(d, c) /\ d.active = c.active
      /\ d.pending = c.pending /\ d.retained = NoGroup
  BY <1>6 DEF ExplorerState, SamePanel, SameLists, SamePlace
<1> HIDE DEF d
<1> QED
  BY <1>1, <1>2, <1>4, <1>5, <1>6, <1>7 DEF SamePanel, SameLists, SamePlace, nowhere

\* The inspector is closed.
LEMMA SurfaceCloses ==
  ASSUME NEW e, Explores(e)
  PROVE  Explores(close_surface(e))
<1> DEFINE t == close_surface(e)
<1>1. /\ t \in ExplorerState /\ SamePanel(t, e) /\ SameLists(t, e) /\ SamePlace(t, e)
      /\ t.active = Nowhere /\ t.pending = Nowhere /\ t.retained = NoGroup
  BY Surfaced DEF Explores
<1> HIDE DEF t
<1>2. Tallied(t) /\ Awaited(t)
  BY <1>1, ListsKept DEF Explores, Explored
<1>3. Held(t)
  BY <1>1 DEF Held
<1>4. Quiet(t)
  BY <1>1 DEF Explores, Explored, Quiet, SamePanel, SameLists
<1>5. t.at \in 1..Len(t.entries)
  BY <1>1 DEF Explores, Explored, SamePlace
<1>6. t \in ExplorerState /\ Explored(t)
  BY <1>1, <1>2, <1>3, <1>4, <1>5 DEF Explored
<1> QED
  BY <1>6 DEF Explores, t

\* An artifact, or a case that is fetched, is opened.
LEMMA ArtifactOpens ==
  ASSUME NEW e, Explores(e), Alive(e), NEW key \in Keys
  PROVE  Explores(open_artifact(e, key)) /\ SamePanel(open_artifact(e, key), e)
         /\ SameLists(open_artifact(e, key), e)
<1> DEFINE c == close_surface(e)
           t == [c EXCEPT !.active = key]
<1>1. /\ Explores(c) /\ SamePanel(c, e) /\ SameLists(c, e)
      /\ c.active = Nowhere /\ c.pending = Nowhere /\ c.retained = NoGroup
  BY Surfaced, SurfaceCloses DEF Explores
<1>2. open_artifact(e, key) = t
  BY DEF open_artifact
<1> HIDE DEF c
<1>3. t \in ExplorerState
  BY <1>1 DEF Explores, ExplorerState
<1>4. /\ SamePanel(t, c) /\ SameLists(t, c) /\ SamePlace(t, c) /\ t.pending = Nowhere /\ t.retained = NoGroup
  BY <1>1, <1>3 DEF Explores, ExplorerState, SamePanel, SameLists, SamePlace
<1> HIDE DEF t
<1>5. Tallied(t) /\ Awaited(t)
  BY <1>1, <1>4, ListsKept DEF Explores, Explored
<1>6. Held(t)
  BY <1>4 DEF Held
<1>7. Quiet(t)
  BY <1>1, <1>4 DEF Quiet, Alive, SamePanel
<1>8. t.at \in 1..Len(t.entries)
  BY <1>1, <1>4 DEF Explores, Explored, SamePlace
<1>9. Explored(t) /\ SamePanel(t, e) /\ SameLists(t, e)
  BY <1>1, <1>4, <1>5, <1>6, <1>7, <1>8 DEF Explored, SamePanel, SameLists
<1> QED
  BY <1>2, <1>3, <1>9 DEF Explores

LEMMA SelectionOpens ==
  ASSUME NEW e, Explores(e), Alive(e), NEW key \in Keys, key[1] = "case"
  PROVE  Explores(open_selection(e, key)) /\ SamePanel(open_selection(e, key), e)
         /\ SameLists(open_selection(e, key), e)
<1> DEFINE c == close_surface(e)
           s == [c EXCEPT !.pending = key]
           t == [s EXCEPT !.retained = key[2]]
<1>1. /\ Explores(c) /\ SamePanel(c, e) /\ SameLists(c, e)
      /\ c.active = Nowhere /\ c.pending = Nowhere /\ c.retained = NoGroup
  BY Surfaced, SurfaceCloses DEF Explores
<1>2. open_selection(e, key) = t
  BY DEF open_selection
<1> HIDE DEF c
<1>3. s \in ExplorerState
  BY <1>1 DEF Explores, ExplorerState
<1>4. SamePanel(s, c) /\ SameLists(s, c) /\ SamePlace(s, c) /\ s.active = Nowhere /\ s.pending = key
  BY <1>1, <1>3 DEF Explores, ExplorerState, SamePanel, SameLists, SamePlace
<1> HIDE DEF s
<1>10. key[2] \in Groups /\ key = <<"case", key[2]>>
  BY DEF Keys
<1>11. t \in ExplorerState
  BY <1>3, <1>10 DEF ExplorerState
<1>12. /\ SamePanel(t, s) /\ SameLists(t, s) /\ SamePlace(t, s) /\ t.active = s.active /\ t.pending = s.pending
       /\ t.retained = key[2]
  BY <1>3, <1>11 DEF ExplorerState, SamePanel, SameLists, SamePlace
<1> HIDE DEF t
<1>13. SamePanel(t, c) /\ SameLists(t, c) /\ SamePlace(t, c)
  BY <1>4, <1>12 DEF SamePanel, SameLists, SamePlace
<1>5. Tallied(t) /\ Awaited(t)
  BY <1>1, <1>13, ListsKept DEF Explores, Explored
<1>6. Held(t)
  BY <1>4, <1>10, <1>12 DEF Held
<1>7. Quiet(t)
  BY <1>1, <1>13 DEF Quiet, Alive, SamePanel
<1>8. t.at \in 1..Len(t.entries)
  BY <1>1, <1>13 DEF Explores, Explored, SamePlace
<1>9. Explored(t) /\ SamePanel(t, e) /\ SameLists(t, e)
  BY <1>1, <1>13, <1>5, <1>6, <1>7, <1>8 DEF Explored, SamePanel, SameLists
<1> QED
  BY <1>2, <1>9, <1>11 DEF Explores

\* What keeps listings, inspector and panel keeps what holds of them.
LEMMA Unchanging ==
  ASSUME NEW e, NEW t \in ExplorerState, Explores(e), SamePanel(t, e), SameLists(t, e), SameDetail(t, e),
         t.at \in 1..Len(t.entries)
  PROVE  Explores(t)
<1>1. Tallied(t) /\ Awaited(t) /\ Held(t)
  BY ListsKept, DetailKept DEF Explores, Explored
<1>2. Quiet(t)
  BY DEF Explores, Explored, Quiet, SamePanel, SameLists, SameDetail
<1> QED
  BY <1>1, <1>2 DEF Explores, Explored

\* The history.
LEMMA Replaced ==
  ASSUME NEW e, Explores(e), NEW target \in Targets \union {Nowhere}
  PROVE  Explores(replaceState(e, target)) /\ SamePanel(replaceState(e, target), e)
         /\ SameLists(replaceState(e, target), e) /\ SameDetail(replaceState(e, target), e)
<1>1. e \in ExplorerState /\ e.at \in 1..Len(e.entries) /\ e.entries \in Seq(Entry)
  BY DEF Explores, Explored, ExplorerState
<1> DEFINE entry == [e.entries[e.at] EXCEPT !.target = target]
           list == [e.entries EXCEPT ![e.at] = entry]
           t == [e EXCEPT !.entries = list]
<1>2. t = replaceState(e, target)
  BY DEF replaceState
<1>3. entry \in Entry
  <2> DEFINE old == e.entries[e.at]
  <2>1. old \in Entry
    BY <1>1
  <2> HIDE DEF old
  <2>2. [old EXCEPT !.target = target] \in Entry
    BY <2>1 DEF Entry
  <2> QED
    BY <2>2 DEF old
<1> HIDE DEF entry
<1>4. list \in Seq(Entry) /\ Len(list) = Len(e.entries)
  BY <1>1, <1>3
<1> HIDE DEF list
<1>5. t \in ExplorerState
  BY <1>1, <1>4 DEF ExplorerState
<1>6. SamePanel(t, e) /\ SameLists(t, e) /\ SameDetail(t, e) /\ t.at = e.at /\ t.entries = list
  BY <1>1, <1>5 DEF ExplorerState, SamePanel, SameLists, SameDetail
<1> HIDE DEF t
<1>7. Explores(t)
  BY <1>1, <1>4, <1>5, <1>6, Unchanging
<1> QED
  BY <1>2, <1>6, <1>7

LEMMA Pushed ==
  ASSUME NEW e, Explores(e), NEW target \in Targets
  PROVE  Explores(pushState(e, target)) /\ SamePanel(pushState(e, target), e)
         /\ SameLists(pushState(e, target), e) /\ SameDetail(pushState(e, target), e)
<1>1. e \in ExplorerState /\ e.at \in 1..Len(e.entries) /\ e.entries \in Seq(Entry) /\ e.at \in Nat
  BY DEF Explores, Explored, ExplorerState
<1> DEFINE entry == [target |-> target, marked |-> TRUE]
           kept == SubSeq(e.entries, 1, e.at)
           list == Append(kept, entry)
           s == [e EXCEPT !.entries = list]
           next == e.at + 1
           t == [s EXCEPT !.at = next]
<1>2. t = pushState(e, target)
  BY <1>1 DEF pushState, ExplorerState
<1>3. entry \in Entry
  BY DEF Entry
<1> HIDE DEF entry
<1>4. kept \in Seq(Entry) /\ Len(kept) = e.at
  BY <1>1
<1> HIDE DEF kept
<1>5. list \in Seq(Entry) /\ Len(list) = e.at + 1
  BY <1>3, <1>4
<1> HIDE DEF list
<1>6. s \in ExplorerState
  BY <1>1, <1>5 DEF ExplorerState
<1>7. SamePanel(s, e) /\ SameLists(s, e) /\ SameDetail(s, e) /\ s.at = e.at /\ s.entries = list
  BY <1>1, <1>6 DEF ExplorerState, SamePanel, SameLists, SameDetail
<1> HIDE DEF s
<1>12. next \in Nat
  BY <1>1
<1> HIDE DEF next
<1>8. t \in ExplorerState
  BY <1>6, <1>12 DEF ExplorerState
<1>9. SamePanel(t, s) /\ SameLists(t, s) /\ SameDetail(t, s) /\ t.at = next /\ t.entries = s.entries
  BY <1>6, <1>8 DEF ExplorerState, SamePanel, SameLists, SameDetail
<1> HIDE DEF t
<1>10. SamePanel(t, e) /\ SameLists(t, e) /\ SameDetail(t, e) /\ t.at \in 1..Len(t.entries)
  BY <1>1, <1>5, <1>7, <1>9 DEF next, SamePanel, SameLists, SameDetail
<1>11. Explores(t)
  BY <1>8, <1>10, Unchanging
<1> QED
  BY <1>2, <1>10, <1>11

Ready(f) == {g \in Groups : f[g] = "ready"}
One(stage) == IF stage = "ready" THEN 1 ELSE 0

\* What is ready, when one listing changes.
LEMMA Recounted ==
  ASSUME NEW f \in [Groups -> Stages], NEW g \in Groups, NEW v \in Stages
  PROVE  Cardinality(Ready([f EXCEPT ![g] = v])) = Cardinality(Ready(f)) + One(v) - One(f[g])
<1> DEFINE rest == Ready(f) \ {g}
           h == [f EXCEPT ![g] = v]
<1>1. IsFiniteSet(Ready(f)) /\ IsFiniteSet(rest) /\ g \notin rest
  BY ExplorerAssumption, FS_Subset DEF Ready
<1>2. Cardinality(rest) \in Nat /\ Cardinality(Ready(f)) \in Nat
  BY <1>1, FS_CardinalityType
<1>3. Cardinality(rest \union {g}) = Cardinality(rest) + 1
  BY <1>1, FS_AddElement
<1>4. ASSUME NEW r \in [Groups -> Stages], \A x \in Groups : x # g => r[x] = f[x]
      PROVE  Cardinality(Ready(r)) = Cardinality(rest) + One(r[g])
  <2>1. CASE r[g] = "ready"
    <3>1. Ready(r) = rest \union {g}
      BY <1>4, <2>1 DEF Ready
    <3> QED
      BY <1>3, <2>1, <3>1 DEF One
  <2>2. CASE r[g] # "ready"
    <3>1. Ready(r) = rest
      BY <1>4, <2>2 DEF Ready
    <3> QED
      BY <1>2, <2>2, <3>1 DEF One
  <2> QED
    BY <2>1, <2>2
<1>5. h \in [Groups -> Stages] /\ h[g] = v /\ \A x \in Groups : x # g => h[x] = f[x]
  OBVIOUS
<1> HIDE DEF rest, h
<1>6. Cardinality(Ready(h)) = Cardinality(rest) + One(v)
  BY <1>4, <1>5
<1>7. Cardinality(Ready(f)) = Cardinality(rest) + One(f[g])
  BY <1>4
<1>8. One(v) \in Int /\ One(f[g]) \in Int
  BY DEF One
<1> QED
  BY <1>2, <1>6, <1>7, <1>8 DEF h

\* A category's listing changes.
LEMMA CategoryChanges ==
  ASSUME NEW e, NEW t, Explores(e), t \in ExplorerState, SamePanel(t, e), SameDetail(t, e),
         t.at \in 1..Len(t.entries),
         t.suite = e.suite, t.suiteWaits = e.suiteWaits, t.renderedCases = e.renderedCases,
         NEW g \in Groups, NEW v \in Stages, NEW w \in Seq(Targets),
         t.category = [e.category EXCEPT ![g] = v], t.categoryWaits = [e.categoryWaits EXCEPT ![g] = w],
         t.renderedSuites = e.renderedSuites + One(v) - One(e.category[g]),
         w # << >> => v = "loading",
         \A i \in 1..Len(w) : w[i][2] = g,
         e.suite[g] # "closed" => v = "ready",
         v = "closed" \/ Alive(e)
  PROVE  Explores(t)
<1>1. /\ e \in ExplorerState /\ Tallied(e) /\ Awaited(e) /\ Held(e) /\ Quiet(e)
      /\ e.category \in [Groups -> Stages] /\ e.categoryWaits \in [Groups -> Seq(Targets)]
  BY DEF Explores, Explored, ExplorerState
<1>2. Tallied(t)
  <2>1. Cardinality(Ready(t.category)) = Cardinality(Ready(e.category)) + One(v) - One(e.category[g])
    BY <1>1, Recounted
  <2>2. e.renderedSuites = Cardinality(Ready(e.category)) /\ e.renderedCases = Cardinality(Ready(e.suite))
    BY <1>1 DEF Tallied, Ready
  <2> QED
    BY <2>1, <2>2 DEF Tallied, Ready
<1>3. Awaited(t)
  <2> SUFFICES ASSUME NEW x \in Groups
               PROVE  /\ t.categoryWaits[x] # << >> => t.category[x] = "loading"
                      /\ t.suiteWaits[x] # << >> => t.suite[x] = "loading"
                      /\ t.suite[x] # "closed" => t.category[x] = "ready"
                      /\ \A i \in 1..Len(t.categoryWaits[x]) : t.categoryWaits[x][i][2] = x
                      /\ \A i \in 1..Len(t.suiteWaits[x]) : t.suiteWaits[x][i][2] = x
    BY DEF Awaited
  <2>1. CASE x = g
    <3>1. t.category[x] = v /\ t.categoryWaits[x] = w
      BY <1>1, <2>1
    <3> QED
      BY <1>1, <2>1, <3>1 DEF Awaited
  <2>2. CASE x # g
    <3>1. t.category[x] = e.category[x] /\ t.categoryWaits[x] = e.categoryWaits[x]
      BY <1>1, <2>2
    <3> QED
      BY <1>1, <3>1 DEF Awaited
  <2> QED
    BY <2>1, <2>2
<1>4. Held(t)
  BY <1>1, DetailKept
<1>5. Quiet(t)
  BY <1>1 DEF Quiet, Alive, SamePanel, SameDetail
<1> QED
  BY <1>2, <1>3, <1>4, <1>5 DEF Explores, Explored

\* A suite's listing changes.
LEMMA SuiteChanges ==
  ASSUME NEW e, NEW t, Explores(e), t \in ExplorerState, SamePanel(t, e), SameDetail(t, e),
         t.at \in 1..Len(t.entries),
         t.category = e.category, t.categoryWaits = e.categoryWaits, t.renderedSuites = e.renderedSuites,
         NEW g \in Groups, NEW v \in Stages, NEW w \in Seq(Asks),
         t.suite = [e.suite EXCEPT ![g] = v], t.suiteWaits = [e.suiteWaits EXCEPT ![g] = w],
         t.renderedCases = e.renderedCases + One(v) - One(e.suite[g]),
         w # << >> => v = "loading",
         \A i \in 1..Len(w) : w[i][2] = g,
         v # "closed" => e.category[g] = "ready"
  PROVE  Explores(t)
<1>1. /\ e \in ExplorerState /\ Tallied(e) /\ Awaited(e) /\ Held(e) /\ Quiet(e)
      /\ e.suite \in [Groups -> Stages] /\ e.suiteWaits \in [Groups -> Seq(Asks)]
  BY DEF Explores, Explored, ExplorerState
<1>2. Tallied(t)
  <2>1. Cardinality(Ready(t.suite)) = Cardinality(Ready(e.suite)) + One(v) - One(e.suite[g])
    BY <1>1, Recounted
  <2>2. e.renderedSuites = Cardinality(Ready(e.category)) /\ e.renderedCases = Cardinality(Ready(e.suite))
    BY <1>1 DEF Tallied, Ready
  <2> QED
    BY <2>1, <2>2 DEF Tallied, Ready
<1>3. Awaited(t)
  <2> SUFFICES ASSUME NEW x \in Groups
               PROVE  /\ t.categoryWaits[x] # << >> => t.category[x] = "loading"
                      /\ t.suiteWaits[x] # << >> => t.suite[x] = "loading"
                      /\ t.suite[x] # "closed" => t.category[x] = "ready"
                      /\ \A i \in 1..Len(t.categoryWaits[x]) : t.categoryWaits[x][i][2] = x
                      /\ \A i \in 1..Len(t.suiteWaits[x]) : t.suiteWaits[x][i][2] = x
    BY DEF Awaited
  <2>1. CASE x = g
    <3>1. t.suite[x] = v /\ t.suiteWaits[x] = w
      BY <1>1, <2>1
    <3> QED
      BY <1>1, <2>1, <3>1 DEF Awaited
  <2>2. CASE x # g
    <3>1. t.suite[x] = e.suite[x] /\ t.suiteWaits[x] = e.suiteWaits[x]
      BY <1>1, <2>2
    <3> QED
      BY <1>1, <3>1 DEF Awaited
  <2> QED
    BY <2>1, <2>2
<1>4. Held(t)
  BY <1>1, DetailKept
<1>5. Quiet(t)
  BY <1>1 DEF Quiet, SamePanel, SameDetail
<1> QED
  BY <1>2, <1>3, <1>4, <1>5 DEF Explores, Explored

LEMMA DisclosureCloses ==
  ASSUME NEW e, Explores(e), NEW g
  PROVE  Explores(onDisclosureClose(e, g)) /\ SamePanel(onDisclosureClose(e, g), e)
         /\ SameLists(onDisclosureClose(e, g), e)
<1> DEFINE r == replaceState(e, Nowhere)
<1>1. Explores(r) /\ SamePanel(r, e) /\ SameLists(r, e)
  BY Replaced
<1>2. r \in ExplorerState
  BY <1>1 DEF Explores
<1> HIDE DEF r
<1>3. Explores(close_surface(r)) /\ SamePanel(close_surface(r), r) /\ SameLists(close_surface(r), r)
  BY <1>1, <1>2, Surfaced, SurfaceCloses
<1>4. onDisclosureClose(e, g) = close_surface(r) \/ onDisclosureClose(e, g) = e
  BY DEF onDisclosureClose, r
<1>5. Explores(close_surface(r)) /\ SamePanel(close_surface(r), e) /\ SameLists(close_surface(r), e)
  BY <1>1, <1>3 DEF SamePanel, SameLists
<1>6. SamePanel(e, e) /\ SameLists(e, e)
  BY DEF SamePanel, SameLists
<1> QED
  BY <1>4, <1>5, <1>6

LEMMA SuiteCloses ==
  ASSUME NEW e, Explores(e), NEW g \in Groups
  PROVE  /\ Explores(close_suite(e, g)) /\ SamePanel(close_suite(e, g), e)
         /\ close_suite(e, g).suite = [e.suite EXCEPT ![g] = "closed"]
         /\ close_suite(e, g).category = e.category /\ close_suite(e, g).categoryWaits = e.categoryWaits
         /\ close_suite(e, g).renderedSuites = e.renderedSuites
<1> DEFINE cases == IF e.suite[g] = "ready" THEN e.renderedCases - 1 ELSE e.renderedCases
           suites == [e.suite EXCEPT ![g] = "closed"]
           empty == << >>
           asks == [e.suiteWaits EXCEPT ![g] = empty]
           a == [e EXCEPT !.renderedCases = cases]
           b == [a EXCEPT !.suite = suites]
           t == [b EXCEPT !.suiteWaits = asks]
<1>1. e \in ExplorerState /\ e.at \in 1..Len(e.entries)
  BY DEF Explores, Explored
<1>2. /\ cases \in Int /\ cases = e.renderedCases + One("closed") - One(e.suite[g])
      /\ suites \in [Groups -> Stages] /\ empty \in Seq(Asks) /\ asks \in [Groups -> Seq(Asks)]
  <2>1. e.renderedCases \in Int /\ e.suite \in [Groups -> Stages] /\ e.suiteWaits \in [Groups -> Seq(Asks)]
    BY <1>1 DEF ExplorerState
  <2>2. empty \in Seq(Asks)
    OBVIOUS
  <2> QED
    BY <2>1, <2>2 DEF One, Stages
<1>3. close_suite(e, g) = onDisclosureClose(t, g)
  <2>1. e.suite = a.suite /\ e.suiteWaits = b.suiteWaits
    BY <1>1 DEF ExplorerState
  <2> QED
    BY <1>1, <2>1 DEF close_suite, ExplorerState
<1> HIDE DEF cases, suites, asks
<1>4. a \in ExplorerState
  BY <1>1, <1>2 DEF ExplorerState
<1> DEFINE Else(x, y) == SamePanel(x, y) /\ SameDetail(x, y) /\ SamePlace(x, y) /\ x.category = y.category
                         /\ x.categoryWaits = y.categoryWaits /\ x.renderedSuites = y.renderedSuites
<1>5. Else(a, e) /\ a.renderedCases = cases
  BY <1>1, <1>4 DEF ExplorerState, SamePanel, SameDetail, SamePlace
<1> HIDE DEF a
<1>6. b \in ExplorerState
  BY <1>4, <1>2 DEF ExplorerState
<1>7. Else(b, a) /\ b.renderedCases = a.renderedCases /\ b.suite = suites
  BY <1>4, <1>6 DEF ExplorerState, SamePanel, SameDetail, SamePlace
<1> HIDE DEF b
<1>8. t \in ExplorerState
  BY <1>6, <1>2 DEF ExplorerState
<1>9. Else(t, b) /\ t.renderedCases = b.renderedCases /\ t.suite = b.suite /\ t.suiteWaits = asks
  BY <1>6, <1>8 DEF ExplorerState, SamePanel, SameDetail, SamePlace
<1> HIDE DEF t
<1>10. Else(t, e) /\ t.renderedCases = cases /\ t.suite = suites /\ t.suiteWaits = asks
  BY <1>5, <1>7, <1>9 DEF SamePanel, SameDetail, SamePlace
<1>11. t.at \in 1..Len(t.entries)
  BY <1>1, <1>10 DEF SamePlace
<1>14. t.suite = [e.suite EXCEPT ![g] = "closed"] /\ t.suiteWaits = [e.suiteWaits EXCEPT ![g] = empty]
  BY <1>10 DEF suites, asks
<1>12. Explores(t)
  <2> DEFINE v == "closed"
  <2>1. v \in Stages /\ \A i \in 1..Len(empty) : empty[i][2] = g
    BY DEF Stages
  <2>2. t.renderedCases = e.renderedCases + One(v) - One(e.suite[g])
    BY <1>2, <1>10
  <2>3. t.suite = [e.suite EXCEPT ![g] = v]
    BY <1>14
  <2>4. v = "closed" /\ empty = << >>
    OBVIOUS
  <2> HIDE DEF v, empty
  <2>5. /\ SamePanel(t, e) /\ SameDetail(t, e) /\ t.category = e.category
        /\ t.categoryWaits = e.categoryWaits /\ t.renderedSuites = e.renderedSuites
    BY <1>10
  <2>6. empty \in Seq(Asks) /\ t.suiteWaits = [e.suiteWaits EXCEPT ![g] = empty]
    BY <1>2, <1>14
  <2>7. (empty # << >> => v = "loading") /\ (v # "closed" => e.category[g] = "ready")
    BY <2>4
  <2> HIDE DEF Else
  <2> QED
    BY <1>8, <1>11, <2>1, <2>2, <2>3, <2>5, <2>6, <2>7, SuiteChanges
<1>13. Explores(onDisclosureClose(t, g)) /\ SamePanel(onDisclosureClose(t, g), t)
       /\ SameLists(onDisclosureClose(t, g), t)
  BY <1>12, DisclosureCloses
<1> QED
  BY <1>3, <1>10, <1>13, <1>14 DEF SamePanel, SameLists

LEMMA CategoryCloses ==
  ASSUME NEW e, Explores(e), NEW g \in Groups
  PROVE  /\ Explores(close_category(e, g)) /\ SamePanel(close_category(e, g), e)
         /\ close_category(e, g).category = [e.category EXCEPT ![g] = "closed"]
<1> DEFINE ready == e.category[g] = "ready"
           s == close_suite(e, g)
           base == IF ready THEN s ELSE e
           suites == e.renderedSuites - One(e.category[g])
           opened == IF ready THEN [base.suiteOpen EXCEPT ![g] = FALSE] ELSE base.suiteOpen
           categories == [e.category EXCEPT ![g] = "closed"]
           empty == << >>
           targets == [e.categoryWaits EXCEPT ![g] = empty]
           missed == IF Contains(e.categoryWaits[g], <<"category", g>>) THEN base.stale + 1 ELSE base.stale
           a == [base EXCEPT !.renderedSuites = suites]
           b == [a EXCEPT !.suiteOpen = opened]
           c == [b EXCEPT !.category = categories]
           d == [c EXCEPT !.categoryWaits = targets]
           t == [d EXCEPT !.stale = missed]
<1>1. e \in ExplorerState
  BY DEF Explores
<1>2. /\ Explores(s) /\ SamePanel(s, e) /\ s.suite = [e.suite EXCEPT ![g] = "closed"]
      /\ s.category = e.category /\ s.categoryWaits = e.categoryWaits /\ s.renderedSuites = e.renderedSuites
  BY SuiteCloses
<1>3. /\ Explores(base) /\ SamePanel(base, e) /\ base.category = e.category
      /\ base.categoryWaits = e.categoryWaits /\ base.renderedSuites = e.renderedSuites
      /\ base.suite[g] = "closed"
  <2>1. e.suite \in [Groups -> Stages]
    BY <1>1 DEF ExplorerState
  <2>2. CASE ready
    BY <1>2, <2>1, <2>2
  <2>3. CASE ~ready
    <3>1. e.suite[g] = "closed"
      BY <2>3 DEF Explores, Explored, Awaited
    <3> QED
      BY <2>3, <3>1 DEF SamePanel
  <2> QED
    BY <2>2, <2>3
<1>4. close_category(e, g) = t
  <2>1. base \in ExplorerState
    BY <1>3 DEF Explores
  <2>2. CASE ready
    <3>1. close_category(e, g) =
            [[[[[s EXCEPT !.renderedSuites = s.renderedSuites - 1] EXCEPT !.suiteOpen = [s.suiteOpen EXCEPT ![g] = FALSE]]
               EXCEPT !.category = [s.category EXCEPT ![g] = "closed"]]
               EXCEPT !.categoryWaits = [s.categoryWaits EXCEPT ![g] = << >>]]
               EXCEPT !.stale = IF Contains(e.categoryWaits[g], <<"category", g>>) THEN s.stale + 1 ELSE s.stale]
      BY <2>1, <2>2 DEF close_category, ExplorerState
    <3> QED
      BY <1>2, <2>2, <3>1 DEF One
  <2>3. CASE ~ready
    <3>1. close_category(e, g) =
            [[[e EXCEPT !.category = [e.category EXCEPT ![g] = "closed"]]
               EXCEPT !.categoryWaits = [e.categoryWaits EXCEPT ![g] = << >>]]
               EXCEPT !.stale = IF Contains(e.categoryWaits[g], <<"category", g>>) THEN e.stale + 1 ELSE e.stale]
      BY <1>1, <2>3 DEF close_category, ExplorerState
    <3>2. suites = e.renderedSuites /\ opened = e.suiteOpen
      BY <1>1, <2>3 DEF ExplorerState, One
    <3>3. [[e EXCEPT !.renderedSuites = e.renderedSuites] EXCEPT !.suiteOpen = e.suiteOpen] = e
      BY <1>1 DEF ExplorerState
    <3> QED
      BY <2>3, <3>1, <3>2, <3>3
  <2> QED
    BY <2>2, <2>3
<1>5. base \in ExplorerState /\ base.at \in 1..Len(base.entries)
  BY <1>3 DEF Explores, Explored
<1>6. /\ suites \in Int /\ opened \in [Groups -> BOOLEAN] /\ missed \in Int
      /\ categories \in [Groups -> Stages] /\ targets \in [Groups -> Seq(Targets)]
  <2>1. e.category \in [Groups -> Stages] /\ e.categoryWaits \in [Groups -> Seq(Targets)] /\ e.renderedSuites \in Int
    BY <1>1 DEF ExplorerState
  <2>2. base.suiteOpen \in [Groups -> BOOLEAN] /\ base.stale \in Int
    BY <1>5 DEF ExplorerState
  <2> HIDE DEF base
  <2>3. suites \in Int
    BY <2>1 DEF One
  <2>4. opened \in [Groups -> BOOLEAN] /\ missed \in Int
    BY <2>2
  <2>5. categories \in [Groups -> Stages]
    BY <2>1 DEF Stages
  <2>6. targets \in [Groups -> Seq(Targets)]
    BY <2>1
  <2> QED
    BY <2>3, <2>4, <2>5, <2>6
<1> DEFINE Else(x, y) == SamePanel(x, y) /\ SameDetail(x, y) /\ SamePlace(x, y) /\ x.suite = y.suite
                         /\ x.suiteWaits = y.suiteWaits /\ x.renderedCases = y.renderedCases
<1> HIDE DEF base, s, suites, opened, categories, targets, missed
<1>7. a \in ExplorerState
  BY <1>5, <1>6 DEF ExplorerState
<1>8. Else(a, base) /\ a.renderedSuites = suites
  BY <1>5, <1>7 DEF ExplorerState, SamePanel, SameDetail, SamePlace
<1> HIDE DEF a
<1>9. b \in ExplorerState
  BY <1>6, <1>7 DEF ExplorerState
<1>10. Else(b, a) /\ b.renderedSuites = a.renderedSuites
  BY <1>7, <1>9 DEF ExplorerState, SamePanel, SameDetail, SamePlace
<1> HIDE DEF b
<1>11. c \in ExplorerState
  BY <1>6, <1>9 DEF ExplorerState
<1>12. Else(c, b) /\ c.renderedSuites = b.renderedSuites /\ c.category = categories
  BY <1>9, <1>11 DEF ExplorerState, SamePanel, SameDetail, SamePlace
<1> HIDE DEF c
<1>13. d \in ExplorerState
  BY <1>6, <1>11 DEF ExplorerState
<1>14. Else(d, c) /\ d.renderedSuites = c.renderedSuites /\ d.category = c.category
       /\ d.categoryWaits = targets
  BY <1>11, <1>13 DEF ExplorerState, SamePanel, SameDetail, SamePlace
<1> HIDE DEF d
<1>15. t \in ExplorerState
  BY <1>6, <1>13 DEF ExplorerState
<1>16. Else(t, d) /\ t.renderedSuites = d.renderedSuites /\ t.category = d.category
       /\ t.categoryWaits = d.categoryWaits
  BY <1>13, <1>15 DEF ExplorerState, SamePanel, SameDetail, SamePlace
<1> HIDE DEF t
<1>17. Else(t, base) /\ t.renderedSuites = suites /\ t.category = categories /\ t.categoryWaits = targets
  BY <1>8, <1>10, <1>12, <1>14, <1>16 DEF SamePanel, SameDetail, SamePlace
<1>18. Explores(t)
  <2> DEFINE v == "closed"
  <2>1. v \in Stages /\ v = "closed" /\ empty = << >> /\ empty \in Seq(Targets)
    BY DEF Stages
  <2>2. /\ t.category = [base.category EXCEPT ![g] = v]
        /\ t.categoryWaits = [base.categoryWaits EXCEPT ![g] = empty]
    BY <1>3, <1>17 DEF categories, targets
  <2>3. t.renderedSuites = base.renderedSuites + One(v) - One(base.category[g])
    <3>1. One(v) = 0 /\ One(e.category[g]) \in Int /\ e.renderedSuites \in Int
      BY <1>1 DEF One, ExplorerState
    <3> QED
      BY <1>3, <1>17, <3>1 DEF suites
  <2>4. (empty # << >> => v = "loading") /\ (\A i \in 1..Len(empty) : empty[i][2] = g)
    OBVIOUS
  <2>5. t.at \in 1..Len(t.entries)
    BY <1>5, <1>17 DEF SamePlace
  <2>6. (base.suite[g] # "closed" => v = "ready") /\ (v = "closed" \/ Alive(base))
    BY <1>3, <2>1
  <2>7. /\ SamePanel(t, base) /\ SameDetail(t, base) /\ t.suite = base.suite
        /\ t.suiteWaits = base.suiteWaits /\ t.renderedCases = base.renderedCases
    BY <1>17
  <2> HIDE DEF v, empty, Else
  <2> QED
    BY <1>3, <1>15, <2>1, <2>2, <2>3, <2>4, <2>5, <2>6, <2>7, CategoryChanges
<1> QED
  BY <1>3, <1>4, <1>17, <1>18 DEF SamePanel, categories

-----------------------------------------------------------------------------
\* A set of indices has a largest one.
LEMMA Uppermost ==
  ASSUME NEW n \in Nat, NEW s \in SUBSET (1..n), s # {}
  PROVE  Max(s) \in s /\ \A y \in s : y <= Max(s)
<1> DEFINE below == {n - i : i \in s}
           m == Min(below)
<1>0. \A i \in s : n - i \in Nat
  OBVIOUS
<1>1. below \subseteq Nat /\ below # {}
  BY <1>0
<1>2. m \in below /\ \A y \in below : m <= y
  BY <1>1, Smallest
<1> HIDE DEF m
<1>3. PICK i \in s : m = n - i
  BY <1>2
<1>4. \A j \in s : n - i <= n - j
  BY <1>2, <1>3
<1>5. \A j \in s : i >= j
  <2> TAKE j \in s
  <2>1. i \in Int /\ j \in Int /\ n - i <= n - j
    BY <1>4
  <2> QED
    BY <2>1
<1>6. Max(s) \in s /\ \A y \in s : Max(s) >= y
  BY <1>5 DEF Max
<1>7. \A y \in s : y \in Int
  OBVIOUS
<1> QED
  BY <1>6, <1>7

\* The sequence made of a set has all of its elements.
LEMMA SetListed ==
  ASSUME NEW S, IsFiniteSet(S)
  PROVE  /\ Cardinality(S) \in Nat /\ SetToSeq(S) \in [1..Cardinality(S) -> S]
         /\ \A x \in S : \E i \in 1..Cardinality(S) : SetToSeq(S)[i] = x
<1> DEFINE n == Cardinality(S)
           seq == SetToSeq(S)
<1>1. n \in Nat /\ ExistsBijection(1..n, S)
  BY FS_CardinalityType
<1>2. PICK f : f \in Bijection(1..n, S)
  BY <1>1 DEF ExistsBijection
<1>3. f \in [1..n -> S] /\ IsInjective(f)
  BY <1>2 DEF Bijection, Injection
<1>4. seq \in [1..n -> S] /\ IsInjective(seq)
  BY <1>3 DEF SetToSeq
<1> HIDE DEF seq
<1>5. seq \in Injection(1..n, S)
  BY <1>4 DEF Injection
<1>6. IsFiniteSet(1..n) /\ Cardinality(1..n) = n
  BY <1>1, FS_Interval
<1>7. seq \in Surjection(1..n, S)
  BY <1>5, <1>6, FS_Injection
<1>8. \A x \in S : \E i \in 1..n : seq[i] = x
  BY <1>7 DEF Surjection
<1> QED
  BY <1>1, <1>4, <1>8 DEF seq

LEMMA AllClose ==
  ASSUME NEW e, Explores(e)
  PROVE  /\ Explores(close_all(e)) /\ SamePanel(close_all(e), e)
         /\ \A g \in Groups : close_all(e).category[g] = "closed"
<1> DEFINE n == Cardinality(Groups)
           seq == SetToSeq(Groups)
           States == {x \in ExplorerState : Explored(x)}
           Step == [q \in States \X (1..n) |-> close_category(q[1], seq[q[2]])]
           unfolds(iter) ==
             iter = [s \in SUBSET (1..n) |->
                       IF s = {} THEN e ELSE close_category(iter[s \ {Max(s)}], seq[Max(s)])]
           whole_ == CHOOSE iter : unfolds(iter)
<1>1. n \in Nat /\ seq \in [1..n -> Groups] /\ \A g \in Groups : \E i \in 1..n : seq[i] = g
  BY ExplorerAssumption, SetListed
<1>2. \A x : x \in States <=> Explores(x)
  BY DEF Explores
<1>3. close_all(e) = whole_[1..n]
  <2>1. DOMAIN seq = 1..n
    BY <1>1
  <2>2. close_all(e) = (CHOOSE iter : iter = [s \in SUBSET DOMAIN seq |->
                         IF s = {} THEN e ELSE close_category(iter[s \ {Max(s)}], seq[Max(s)])])[DOMAIN seq]
    BY DEF close_all, FoldLeft, MapThenFoldSet
  <2> HIDE DEF seq, n
  <2> QED
    BY <2>1, <2>2
<1> HIDE DEF n, seq, States
<1>4. Step \in [States \X (1..n) -> States]
  <2>1. ASSUME NEW x \in States, NEW i \in 1..n PROVE close_category(x, seq[i]) \in States
    BY <1>1, <1>2, <2>1, CategoryCloses
  <2> QED
    BY <2>1
<1>13. PICK made : Repeats(made, n, e, Step, States)
  <2>1. e \in States
    BY <1>2
  <2> HIDE DEF Step
  <2> QED
    BY <1>1, <1>4, <2>1, Iterated
<1>5. /\ made \in [SUBSET (1..n) -> States]
      /\ \A s \in SUBSET (1..n) : made[s] = IF s = {} THEN e ELSE Step[<<made[s \ {Max(s)}], Max(s)>>]
  BY <1>13 DEF Repeats
<1>6. unfolds(made)
  <2>1. ASSUME NEW s \in SUBSET (1..n), s # {} PROVE made[s] = close_category(made[s \ {Max(s)}], seq[Max(s)])
    <3>1. Max(s) \in 1..n
      BY <1>1, <2>1, Uppermost
    <3>2. made[s \ {Max(s)}] \in States
      BY <1>5
    <3> QED
      BY <1>5, <2>1, <3>1, <3>2
  <2>2. made = [s \in SUBSET (1..n) |-> made[s]]
    BY <1>5
  <2>3. \A s \in SUBSET (1..n) :
          made[s] = IF s = {} THEN e ELSE close_category(made[s \ {Max(s)}], seq[Max(s)])
    BY <1>5, <2>1
  <2> QED
    BY <2>2, <2>3
<1>7. unfolds(whole_)
  BY <1>6
<1> HIDE DEF whole_, Step
<1> DEFINE Closed(s) == /\ Explores(whole_[s]) /\ SamePanel(whole_[s], e)
                        /\ \A i \in s : whole_[s].category[seq[i]] = "closed"
           True == {s \in SUBSET (1..n) : Closed(s)}
<1>8. {} \in True
  <2>1. whole_[{}] = e
    BY <1>7
  <2> QED
    BY <2>1 DEF SamePanel
<1>9. ASSUME NEW s \in SUBSET (1..n), s # {}, s \ {Max(s)} \in True PROVE s \in True
  <2> DEFINE m == Max(s)
             x == whole_[s \ {m}]
  <2>1. m \in s /\ m \in 1..n
    BY <1>1, <1>9, Uppermost
  <2>2. whole_[s] = close_category(x, seq[m])
    BY <1>7, <1>9
  <2>3. Explores(x) /\ SamePanel(x, e) /\ \A i \in s \ {m} : x.category[seq[i]] = "closed"
    BY <1>9
  <2> HIDE DEF x, m
  <2>4. seq[m] \in Groups
    BY <1>1, <2>1
  <2>5. /\ Explores(whole_[s]) /\ SamePanel(whole_[s], x)
        /\ whole_[s].category = [x.category EXCEPT ![seq[m]] = "closed"]
    BY <2>2, <2>3, <2>4, CategoryCloses
  <2>6. x.category \in [Groups -> Stages] /\ \A i \in s : seq[i] \in Groups
    BY <1>1, <2>3 DEF Explores, ExplorerState
  <2>7. \A i \in s : whole_[s].category[seq[i]] = "closed"
    BY <2>3, <2>4, <2>5, <2>6
  <2>8. SamePanel(whole_[s], e)
    BY <2>3, <2>5 DEF SamePanel
  <2> QED
    BY <2>5, <2>7, <2>8
<1> HIDE DEF Closed
<1>10. True \in SUBSET (SUBSET (1..n))
  OBVIOUS
<1>11. 1..n \in True
  <2> HIDE DEF True
  <2>1. \A s \in SUBSET (1..n) : s \in True
    BY <1>1, <1>8, <1>9, <1>10, AlongIndices
  <2> QED
    BY <2>1
<1>12. Closed(1..n)
  BY <1>11
<1> QED
  BY <1>1, <1>3, <1>12 DEF Closed

LEMMA LoadsCategory ==
  ASSUME NEW e, Explores(e), Alive(e), NEW g \in Groups, NEW open \in BOOLEAN
  PROVE  LET t == load_category(e, g, open)
         IN /\ Explores(t) /\ SamePanel(t, e) /\ SameDetail(t, e) /\ SamePlace(t, e)
            /\ t.category[g] \in {"ready", "loading"} /\ t.categoryWaits = e.categoryWaits
            /\ t.suite = e.suite
            /\ e.category[g] = "ready" => t.category[g] = "ready"
<1> DEFINE v == IF e.category[g] = "ready" THEN e.category[g] ELSE "loading"
           categories == [e.category EXCEPT ![g] = v]
           opened == [e.categoryOpen EXCEPT ![g] = @ \/ open]
           a == [e EXCEPT !.categoryOpen = opened]
           t == [a EXCEPT !.category = categories]
<1>1. e \in ExplorerState /\ e.at \in 1..Len(e.entries)
  BY DEF Explores, Explored
<1>2. /\ e.category \in [Groups -> Stages] /\ e.categoryOpen \in [Groups -> BOOLEAN]
      /\ e.categoryWaits \in [Groups -> Seq(Targets)] /\ e.renderedSuites \in Int
  BY <1>1 DEF ExplorerState
<1>3. v \in Stages /\ v \in {"ready", "loading"} /\ (e.category[g] = "ready" => v = "ready")
      /\ (e.category[g] # "ready" => v = "loading")
  BY DEF Stages
<1>4. load_category(e, g, open) = t
  BY <1>1 DEF load_category, ExplorerState
<1>5. categories \in [Groups -> Stages] /\ opened \in [Groups -> BOOLEAN] /\ categories[g] = v
  BY <1>2, <1>3
<1> HIDE DEF v, categories, opened
<1>6. a \in ExplorerState
  BY <1>1, <1>5 DEF ExplorerState
<1> DEFINE Else(x, y) == SamePanel(x, y) /\ SameDetail(x, y) /\ SamePlace(x, y) /\ x.suite = y.suite
                         /\ x.suiteWaits = y.suiteWaits /\ x.renderedCases = y.renderedCases
                         /\ x.categoryWaits = y.categoryWaits /\ x.renderedSuites = y.renderedSuites
<1>7. Else(a, e)
  BY <1>1, <1>6 DEF ExplorerState, SamePanel, SameDetail, SamePlace
<1> HIDE DEF a
<1>8. t \in ExplorerState
  BY <1>5, <1>6 DEF ExplorerState
<1>9. Else(t, a) /\ t.category = categories
  BY <1>6, <1>8 DEF ExplorerState, SamePanel, SameDetail, SamePlace
<1> HIDE DEF t
<1>10. Else(t, e) /\ t.category = categories
  BY <1>7, <1>9 DEF SamePanel, SameDetail, SamePlace
<1>11. Explores(t)
  <2> DEFINE w == e.categoryWaits[g]
  <2>1. w \in Seq(Targets) /\ t.categoryWaits = [e.categoryWaits EXCEPT ![g] = w]
    BY <1>2, <1>10
  <2>2. t.renderedSuites = e.renderedSuites + One(v) - One(e.category[g])
    <3>1. One(v) = One(e.category[g]) /\ One(v) \in Int
      BY <1>3 DEF One
    <3> QED
      BY <1>2, <1>10, <3>1
  <2>3. (w # << >> => v = "loading") /\ (\A i \in 1..Len(w) : w[i][2] = g)
        /\ (e.suite[g] # "closed" => v = "ready")
    BY <1>3 DEF Explores, Explored, Awaited
  <2>4. t.at \in 1..Len(t.entries)
    BY <1>1, <1>10 DEF SamePlace
  <2>5. /\ SamePanel(t, e) /\ SameDetail(t, e) /\ t.suite = e.suite
        /\ t.suiteWaits = e.suiteWaits /\ t.renderedCases = e.renderedCases
    BY <1>10
  <2>6. t.category = [e.category EXCEPT ![g] = v] /\ v \in Stages
    BY <1>3, <1>10 DEF categories
  <2> HIDE DEF w, Else
  <2> QED
    BY <1>8, <2>1, <2>2, <2>3, <2>4, <2>5, <2>6, CategoryChanges
<1> QED
  BY <1>3, <1>4, <1>5, <1>10, <1>11

LEMMA LoadsSuite ==
  ASSUME NEW e, Explores(e), NEW g \in Groups, e.category[g] = "ready", NEW open \in BOOLEAN
  PROVE  LET t == load_suite(e, g, open)
         IN /\ Explores(t) /\ SamePanel(t, e) /\ SameDetail(t, e) /\ SamePlace(t, e)
            /\ t.suite[g] \in {"ready", "loading"} /\ t.category = e.category /\ t.suiteWaits = e.suiteWaits
<1> DEFINE v == IF e.suite[g] = "ready" THEN e.suite[g] ELSE "loading"
           suites == [e.suite EXCEPT ![g] = v]
           opened == [e.suiteOpen EXCEPT ![g] = @ \/ open]
           a == [e EXCEPT !.suiteOpen = opened]
           t == [a EXCEPT !.suite = suites]
<1>1. e \in ExplorerState /\ e.at \in 1..Len(e.entries)
  BY DEF Explores, Explored
<1>2. /\ e.suite \in [Groups -> Stages] /\ e.suiteOpen \in [Groups -> BOOLEAN]
      /\ e.suiteWaits \in [Groups -> Seq(Asks)] /\ e.renderedCases \in Int
  BY <1>1 DEF ExplorerState
<1>3. v \in Stages /\ v \in {"ready", "loading"} /\ (e.suite[g] = "ready" => v = "ready")
      /\ (e.suite[g] # "ready" => v = "loading")
  BY DEF Stages
<1>4. load_suite(e, g, open) = t
  BY <1>1 DEF load_suite, ExplorerState
<1>5. suites \in [Groups -> Stages] /\ opened \in [Groups -> BOOLEAN] /\ suites[g] = v
  BY <1>2, <1>3
<1> HIDE DEF v, suites, opened
<1>6. a \in ExplorerState
  BY <1>1, <1>5 DEF ExplorerState
<1> DEFINE Else(x, y) == SamePanel(x, y) /\ SameDetail(x, y) /\ SamePlace(x, y) /\ x.category = y.category
                         /\ x.suiteWaits = y.suiteWaits /\ x.renderedCases = y.renderedCases
                         /\ x.categoryWaits = y.categoryWaits /\ x.renderedSuites = y.renderedSuites
<1>7. Else(a, e)
  BY <1>1, <1>6 DEF ExplorerState, SamePanel, SameDetail, SamePlace
<1> HIDE DEF a
<1>8. t \in ExplorerState
  BY <1>5, <1>6 DEF ExplorerState
<1>9. Else(t, a) /\ t.suite = suites
  BY <1>6, <1>8 DEF ExplorerState, SamePanel, SameDetail, SamePlace
<1> HIDE DEF t
<1>10. Else(t, e) /\ t.suite = suites
  BY <1>7, <1>9 DEF SamePanel, SameDetail, SamePlace
<1>11. Explores(t)
  <2> DEFINE w == e.suiteWaits[g]
  <2>1. w \in Seq(Asks) /\ t.suiteWaits = [e.suiteWaits EXCEPT ![g] = w]
    BY <1>2, <1>10
  <2>2. t.renderedCases = e.renderedCases + One(v) - One(e.suite[g])
    <3>1. One(v) = One(e.suite[g]) /\ One(v) \in Int
      BY <1>3 DEF One
    <3> QED
      BY <1>2, <1>10, <3>1
  <2>3. (w # << >> => v = "loading") /\ (\A i \in 1..Len(w) : w[i][2] = g)
        /\ (v # "closed" => e.category[g] = "ready")
    BY <1>3 DEF Explores, Explored, Awaited
  <2>4. t.at \in 1..Len(t.entries)
    BY <1>1, <1>10 DEF SamePlace
  <2>5. /\ SamePanel(t, e) /\ SameDetail(t, e) /\ t.category = e.category
        /\ t.categoryWaits = e.categoryWaits /\ t.renderedSuites = e.renderedSuites
    BY <1>10
  <2>6. t.suite = [e.suite EXCEPT ![g] = v] /\ v \in Stages
    BY <1>3, <1>10 DEF suites
  <2> HIDE DEF w, Else
  <2> QED
    BY <1>8, <2>1, <2>2, <2>3, <2>4, <2>5, <2>6, SuiteChanges
<1> QED
  BY <1>3, <1>4, <1>5, <1>10, <1>11

\* A navigation waits for a category.
LEMMA CategoryAwaited ==
  ASSUME NEW e, Explores(e), Alive(e), NEW g \in Groups, e.category[g] = "loading",
         NEW target \in Targets, target[2] = g
  PROVE  LET t == [e EXCEPT !.categoryWaits[g] = Append(@, target)]
         IN Explores(t) /\ SamePanel(t, e)
<1> DEFINE w == Append(e.categoryWaits[g], target)
           targets == [e.categoryWaits EXCEPT ![g] = w]
           t == [e EXCEPT !.categoryWaits = targets]
<1>1. e \in ExplorerState /\ e.at \in 1..Len(e.entries)
  BY DEF Explores, Explored
<1>2. /\ e.category \in [Groups -> Stages] /\ e.categoryWaits \in [Groups -> Seq(Targets)]
      /\ e.renderedSuites \in Int
  BY <1>1 DEF ExplorerState
<1>3. /\ w \in Seq(Targets) /\ targets \in [Groups -> Seq(Targets)]
      /\ \A i \in 1..Len(w) : w[i][2] = g
  <2> DEFINE old == e.categoryWaits[g]
  <2>1. old \in Seq(Targets)
    BY <1>2
  <2>2. \A i \in 1..Len(old) : old[i][2] = g
    BY DEF Explores, Explored, Awaited
  <2> HIDE DEF old
  <2>3. /\ Append(old, target) \in Seq(Targets) /\ Len(Append(old, target)) = Len(old) + 1
        /\ \A i \in 1..(Len(old) + 1) : Append(old, target)[i] = IF i <= Len(old) THEN old[i] ELSE target
    BY <2>1
  <2>4. Len(old) \in Nat
    BY <2>1
  <2>5. \A i \in 1..Len(Append(old, target)) : Append(old, target)[i][2] = g
    BY <2>2, <2>3, <2>4
  <2> QED
    BY <1>2, <2>3, <2>5 DEF old
<1> HIDE DEF w, targets
<1>4. t \in ExplorerState
  BY <1>1, <1>3 DEF ExplorerState
<1>5. /\ SamePanel(t, e) /\ SameDetail(t, e) /\ t.suite = e.suite /\ SamePlace(t, e)
      /\ t.suiteWaits = e.suiteWaits /\ t.renderedCases = e.renderedCases
      /\ t.category = e.category /\ t.categoryWaits = targets /\ t.renderedSuites = e.renderedSuites
  BY <1>1, <1>4 DEF ExplorerState, SamePanel, SameDetail, SamePlace
<1> HIDE DEF t
<1>6. Explores(t)
  <2> DEFINE v == e.category[g]
  <2>1. v \in Stages /\ t.category = [e.category EXCEPT ![g] = v] /\ v = "loading"
    BY <1>2, <1>5
  <2>2. t.renderedSuites = e.renderedSuites + One(v) - One(e.category[g])
    BY <1>2, <1>5 DEF One
  <2>3. e.suite[g] = "closed"
    BY DEF Explores, Explored, Awaited
  <2>4. t.at \in 1..Len(t.entries)
    BY <1>1, <1>5 DEF SamePlace
  <2>5. t.categoryWaits = [e.categoryWaits EXCEPT ![g] = w]
    BY <1>5 DEF targets
  <2>6. e.suite[g] # "closed" => v = "ready"
    BY <2>3
  <2> HIDE DEF v
  <2> QED
    BY <1>3, <1>4, <1>5, <2>1, <2>2, <2>4, <2>5, <2>6, CategoryChanges
<1>7. t = [e EXCEPT !.categoryWaits[g] = Append(@, target)]
  BY <1>1 DEF t, targets, w, ExplorerState
<1> QED
  BY <1>5, <1>6, <1>7

\* A navigation, or a click, waits for a suite.
LEMMA SuiteAwaited ==
  ASSUME NEW e, Explores(e), NEW g \in Groups, e.suite[g] = "loading",
         NEW ask \in Asks, ask[2] = g
  PROVE  LET t == [e EXCEPT !.suiteWaits[g] = Append(@, ask)]
         IN Explores(t) /\ SamePanel(t, e) /\ t.category = e.category
<1> DEFINE w == Append(e.suiteWaits[g], ask)
           asks == [e.suiteWaits EXCEPT ![g] = w]
           t == [e EXCEPT !.suiteWaits = asks]
<1>1. e \in ExplorerState /\ e.at \in 1..Len(e.entries)
  BY DEF Explores, Explored
<1>2. /\ e.suite \in [Groups -> Stages] /\ e.suiteWaits \in [Groups -> Seq(Asks)]
      /\ e.renderedCases \in Int
  BY <1>1 DEF ExplorerState
<1>3. /\ w \in Seq(Asks) /\ asks \in [Groups -> Seq(Asks)]
      /\ \A i \in 1..Len(w) : w[i][2] = g
  <2> DEFINE old == e.suiteWaits[g]
  <2>1. old \in Seq(Asks)
    BY <1>2
  <2>2. \A i \in 1..Len(old) : old[i][2] = g
    BY DEF Explores, Explored, Awaited
  <2> HIDE DEF old
  <2>3. /\ Append(old, ask) \in Seq(Asks) /\ Len(Append(old, ask)) = Len(old) + 1
        /\ \A i \in 1..(Len(old) + 1) : Append(old, ask)[i] = IF i <= Len(old) THEN old[i] ELSE ask
    BY <2>1
  <2>4. Len(old) \in Nat
    BY <2>1
  <2>5. \A i \in 1..Len(Append(old, ask)) : Append(old, ask)[i][2] = g
    BY <2>2, <2>3, <2>4
  <2> QED
    BY <1>2, <2>3, <2>5 DEF old
<1> HIDE DEF w, asks
<1>4. t \in ExplorerState
  BY <1>1, <1>3 DEF ExplorerState
<1>5. /\ SamePanel(t, e) /\ SameDetail(t, e) /\ t.category = e.category /\ SamePlace(t, e)
      /\ t.categoryWaits = e.categoryWaits /\ t.renderedCases = e.renderedCases
      /\ t.suite = e.suite /\ t.suiteWaits = asks /\ t.renderedSuites = e.renderedSuites
  BY <1>1, <1>4 DEF ExplorerState, SamePanel, SameDetail, SamePlace
<1> HIDE DEF t
<1>6. Explores(t)
  <2> DEFINE v == e.suite[g]
  <2>1. v \in Stages /\ t.suite = [e.suite EXCEPT ![g] = v] /\ v = "loading"
    BY <1>2, <1>5
  <2>2. t.renderedCases = e.renderedCases + One(v) - One(e.suite[g])
    BY <1>2, <1>5 DEF One
  <2>3. e.category[g] = "ready"
    BY DEF Explores, Explored, Awaited
  <2>4. t.at \in 1..Len(t.entries)
    BY <1>1, <1>5 DEF SamePlace
  <2>5. t.suiteWaits = [e.suiteWaits EXCEPT ![g] = w]
    BY <1>5 DEF asks
  <2>6. (w # << >> => v = "loading") /\ (v # "closed" => e.category[g] = "ready")
    BY <2>1, <2>3
  <2>7. /\ SamePanel(t, e) /\ SameDetail(t, e) /\ t.category = e.category
        /\ t.categoryWaits = e.categoryWaits /\ t.renderedSuites = e.renderedSuites
    BY <1>5
  <2>8. w \in Seq(Asks) /\ \A i \in 1..Len(w) : w[i][2] = g
    BY <1>3
  <2> HIDE DEF v
  <2> QED
    BY <1>4, <2>1, <2>2, <2>4, <2>5, <2>6, <2>7, <2>8, SuiteChanges
<1>7. t = [e EXCEPT !.suiteWaits[g] = Append(@, ask)]
  BY <1>1 DEF t, asks, w, ExplorerState
<1> QED
  BY <1>5, <1>6, <1>7

\* What is awaited does for the panel what it is for.
LEMMA SuiteIsListed ==
  ASSUME NEW e, Explores(e), Alive(e), NEW target \in Targets, target[1] # "category"
  PROVE  LET t == suite_listed(e, target)
         IN Explores(t) /\ SamePanel(t, e) /\ t.category = e.category
<1>1. target[1] \in {"case", "suite", "lost"} /\ target[2] \in Groups /\ target = <<target[1], target[2]>>
  BY DEF Targets
<1>2. SamePanel(e, e)
  BY DEF SamePanel
<1>3. CASE target[1] = "case"
  <2>1. suite_listed(e, target) = IF target \in {e.active, e.pending} THEN e ELSE open_selection(e, target)
    BY <1>3, Zenon DEF suite_listed
  <2>2. target \in Keys
    BY <1>1, <1>3 DEF Keys
  <2>3. /\ Explores(open_selection(e, target)) /\ SamePanel(open_selection(e, target), e)
        /\ open_selection(e, target).category = e.category
    BY <1>3, <2>2, SelectionOpens DEF SameLists
  <2> QED
    BY <1>2, <2>1, <2>3
<1>4. CASE target[1] = "suite"
  <2>1. suite_listed(e, target) = IF target = e.active THEN e ELSE open_artifact(e, target)
    <3>1. target[1] # "case"
      BY <1>4
    <3> QED
      BY <1>4, <3>1, Zenon DEF suite_listed
  <2>2. target \in Keys
    BY <1>1, <1>4 DEF Keys
  <2>3. /\ Explores(open_artifact(e, target)) /\ SamePanel(open_artifact(e, target), e)
        /\ open_artifact(e, target).category = e.category
    BY <2>2, ArtifactOpens DEF SameLists
  <2> QED
    BY <1>2, <2>1, <2>3
<1>5. CASE target[1] = "lost"
  <2> DEFINE c == close_surface(e)
             t == [c EXCEPT !.failed = TRUE]
  <2>1. suite_listed(e, target) = t
    <3>1. target[1] # "case" /\ target[1] # "suite"
      BY <1>5
    <3> QED
      BY <1>5, <3>1, Zenon DEF suite_listed
  <2>2. Explores(c) /\ SamePanel(c, e) /\ SameLists(c, e)
    BY Surfaced, SurfaceCloses DEF Explores
  <2> HIDE DEF c
  <2>3. c \in ExplorerState /\ c.at \in 1..Len(c.entries)
    BY <2>2 DEF Explores, Explored
  <2>4. t \in ExplorerState
    BY <2>3 DEF ExplorerState
  <2>5. SamePanel(t, c) /\ SameLists(t, c) /\ SameDetail(t, c) /\ SamePlace(t, c)
    BY <2>3, <2>4 DEF ExplorerState, SamePanel, SameLists, SameDetail, SamePlace
  <2> HIDE DEF t
  <2>6. Explores(t)
    BY <2>2, <2>3, <2>4, <2>5, Unchanging DEF SamePlace
  <2> QED
    BY <2>1, <2>2, <2>5, <2>6 DEF SamePanel, SameLists
<1> QED
  BY <1>1, <1>3, <1>4, <1>5

LEMMA CategoryIsListed ==
  ASSUME NEW e, Explores(e), Alive(e), NEW target \in Targets, e.category[target[2]] = "ready"
  PROVE  LET t == category_listed(e, target)
         IN Explores(t) /\ SamePanel(t, e) /\ t.category = e.category
<1> DEFINE g == target[2]
           l == load_suite(e, g, TRUE)
<1>1. target[1] \in {"category", "case", "suite", "lost"} /\ g \in Groups /\ target = <<target[1], g>>
  BY DEF Targets
<1> HIDE DEF g
<1>2. CASE target[1] = "category"
  <2>1. category_listed(e, target) = close_surface(e)
    BY <1>2 DEF category_listed
  <2>2. Explores(close_surface(e)) /\ SamePanel(close_surface(e), e) /\ SameLists(close_surface(e), e)
    BY Surfaced, SurfaceCloses DEF Explores
  <2> QED
    BY <2>1, <2>2 DEF SameLists
<1>3. CASE target[1] # "category"
  <2>1. e.category[g] = "ready" /\ TRUE \in BOOLEAN
    BY DEF g
  <2>2. /\ Explores(l) /\ SamePanel(l, e) /\ l.suite[g] \in {"ready", "loading"} /\ l.category = e.category
    BY <1>1, <2>1, LoadsSuite
  <2>3. category_listed(e, target) = IF l.suite[g] = "ready" THEN suite_listed(l, target)
                                     ELSE [l EXCEPT !.suiteWaits[g] = Append(@, target)]
    BY <1>3 DEF category_listed, g
  <2> HIDE DEF l
  <2>4. Alive(l)
    BY <2>2 DEF Alive, SamePanel
  <2>5. Explores(suite_listed(l, target)) /\ SamePanel(suite_listed(l, target), l)
        /\ suite_listed(l, target).category = l.category
    BY <1>3, <2>2, <2>4, SuiteIsListed
  <2> DEFINE w == [l EXCEPT !.suiteWaits[g] = Append(@, target)]
  <2>6. ASSUME l.suite[g] # "ready" PROVE Explores(w) /\ SamePanel(w, l) /\ w.category = l.category
    <3>1. l.suite[g] = "loading"
      BY <2>2, <2>6
    <3>2. target \in Asks /\ target[2] = g
      BY <1>1, <1>3 DEF Asks, g
    <3> QED
      BY <1>1, <2>2, <3>1, <3>2, SuiteAwaited
  <2> HIDE DEF w
  <2>7. Explores(category_listed(e, target)) /\ SamePanel(category_listed(e, target), l)
        /\ category_listed(e, target).category = l.category
    BY <2>3, <2>5, <2>6 DEF w
  <2> QED
    BY <2>2, <2>7 DEF SamePanel
<1> QED
  BY <1>2, <1>3

\* The panel follows the address.
LEMMA Reconciled ==
  ASSUME NEW e, Explores(e)
  PROVE  Explores(reconcile_location(e)) /\ SamePanel(reconcile_location(e), e)
<1> DEFINE target == location(e)
           g == target[2]
           l == load_category(e, g, TRUE)
           w == [l EXCEPT !.categoryWaits[g] = Append(@, target)]
           t == reconcile_location(e)
<1>1. target \in Targets \union {Nowhere}
  <2> DEFINE entry == e.entries[e.at]
  <2>1. entry \in Entry
    BY DEF Explores, Explored, ExplorerState
  <2> HIDE DEF entry
  <2>2. entry.target \in Targets \union {Nowhere}
    BY <2>1 DEF Entry
  <2> QED
    BY <2>2 DEF location, entry
<1>2. SamePanel(e, e)
  BY DEF SamePanel
<1>3. CASE e.disposed \/ e.panel # "ready"
  <2>1. t = e
    BY <1>3 DEF reconcile_location
  <2> QED
    BY <1>2, <2>1
<1>4. CASE ~(e.disposed \/ e.panel # "ready") /\ target = Nowhere
  <2>1. t = close_surface(e)
    BY <1>4 DEF reconcile_location
  <2>2. Explores(close_surface(e)) /\ SamePanel(close_surface(e), e)
    BY Surfaced, SurfaceCloses DEF Explores
  <2> QED
    BY <2>1, <2>2
<1>5. CASE ~(e.disposed \/ e.panel # "ready") /\ target # Nowhere
  <2>1. t = IF l.category[g] = "ready" THEN category_listed(l, target) ELSE w
    BY <1>5 DEF reconcile_location
  <2>2. target \in Targets
    BY <1>1, <1>5
  <2> HIDE DEF target
  <2>3. g \in Groups
    BY <2>2 DEF Targets
  <2>4. Alive(e) /\ TRUE \in BOOLEAN
    BY <1>5 DEF Alive, Explores, ExplorerState
  <2> HIDE DEF t
  <2>5. Explores(l) /\ SamePanel(l, e) /\ l.category[g] \in {"ready", "loading"}
    <3> HIDE DEF g
    <3> QED
      BY <2>3, <2>4, LoadsCategory
  <2> HIDE DEF l
  <2>6. Alive(l)
    BY <2>4, <2>5 DEF Alive, SamePanel
  <2>7. CASE l.category[g] = "ready"
    <3>1. Explores(category_listed(l, target)) /\ SamePanel(category_listed(l, target), l)
      BY <2>2, <2>5, <2>6, <2>7, CategoryIsListed
    <3> QED
      BY <2>1, <2>5, <2>7, <3>1 DEF SamePanel, t
  <2>8. CASE l.category[g] = "loading"
    <3>1. Explores(w) /\ SamePanel(w, l)
      BY <2>2, <2>3, <2>5, <2>6, <2>8, CategoryAwaited
    <3> HIDE DEF w
    <3> QED
      BY <2>1, <2>5, <2>8, <3>1 DEF SamePanel, t
  <2> QED
    BY <2>5, <2>7, <2>8
<1> QED
  BY <1>1, <1>3, <1>4, <1>5

LEMMA Viewed ==
  ASSUME NEW e, Explores(e), NEW key \in Keys
  PROVE  Explores(view(e, key)) /\ SamePanel(view(e, key), e)
<1> DEFINE s == pushState(e, key)
<1>1. key \in Targets
  BY DEF Keys, Targets
<1>2. Explores(s) /\ SamePanel(s, e)
  BY <1>1, Pushed
<1> HIDE DEF s
<1>3. Explores(reconcile_location(s)) /\ SamePanel(reconcile_location(s), s)
  BY <1>2, Reconciled
<1> QED
  BY <1>2, <1>3 DEF view, s, SamePanel

\* A fold whose steps stay among the states ends there.
LEMMA StaysWithin ==
  ASSUME NEW n \in Nat, NEW States, NEW iter, iter[{}] \in States,
         \A s \in SUBSET (1..n) : s # {} /\ iter[s \ {Max(s)}] \in States => iter[s] \in States
  PROVE  iter[1..n] \in States
<1> DEFINE True == {s \in SUBSET (1..n) : iter[s] \in States}
<1>1. {} \in True /\ True \in SUBSET (SUBSET (1..n))
  OBVIOUS
<1>2. \A s \in SUBSET (1..n) : s # {} /\ s \ {Max(s)} \in True => s \in True
  OBVIOUS
<1> HIDE DEF True
<1>3. \A s \in SUBSET (1..n) : s \in True
  BY <1>1, <1>2, AlongIndices
<1>4. 1..n \in True
  BY <1>3
<1> QED
  BY <1>4 DEF True

\* Every navigation that waited for a category.
LEMMA CategoriesListed ==
  ASSUME NEW e, Explores(e), Alive(e), NEW waiting \in Seq(Targets),
         \A i \in 1..Len(waiting) : e.category[waiting[i][2]] = "ready"
  PROVE  LET t == FoldLeft(category_listed, e, waiting)
         IN Explores(t) /\ SamePanel(t, e)
<1> DEFINE n == Len(waiting)
           States == {x \in ExplorerState : Explored(x) /\ SamePanel(x, e) /\ x.category = e.category}
           Step == [q \in States \X (1..n) |-> category_listed(q[1], waiting[q[2]])]
           unfolds(iter) ==
             iter = [s \in SUBSET (1..n) |->
                       IF s = {} THEN e ELSE category_listed(iter[s \ {Max(s)}], waiting[Max(s)])]
           all == CHOOSE iter : unfolds(iter)
<1>1. n \in Nat /\ DOMAIN waiting = 1..n /\ \A i \in 1..n : waiting[i] \in Targets
  OBVIOUS
<1>2. /\ e \in States
      /\ \A x \in States : Explores(x) /\ Alive(x) /\ SamePanel(x, e) /\ x.category = e.category
      /\ \A x : Explores(x) /\ SamePanel(x, e) /\ x.category = e.category => x \in States
  BY DEF Explores, Alive, SamePanel
<1>3. FoldLeft(category_listed, e, waiting) = all[1..n]
  <2>1. FoldLeft(category_listed, e, waiting) =
          (CHOOSE iter : iter = [s \in SUBSET DOMAIN waiting |->
             IF s = {} THEN e ELSE category_listed(iter[s \ {Max(s)}], waiting[Max(s)])])[DOMAIN waiting]
    BY DEF FoldLeft, MapThenFoldSet
  <2> HIDE DEF n
  <2> QED
    BY <1>1, <2>1
<1> HIDE DEF n, States
<1>4. ASSUME NEW x \in States, NEW i \in 1..n PROVE category_listed(x, waiting[i]) \in States
  <2> DEFINE t == category_listed(x, waiting[i])
  <2>1. Explores(x) /\ Alive(x) /\ SamePanel(x, e) /\ x.category = e.category /\ waiting[i] \in Targets
        /\ x.category[waiting[i][2]] = "ready"
    BY <1>1, <1>2 DEF n
  <2>2. Explores(t) /\ SamePanel(t, x) /\ t.category = x.category
    BY <2>1, CategoryIsListed
  <2> HIDE DEF t
  <2>3. t \in States
    BY <1>2, <2>1, <2>2 DEF SamePanel
  <2> QED
    BY <2>3 DEF t
<1>5. Step \in [States \X (1..n) -> States]
  BY <1>4
<1>6. PICK made : Repeats(made, n, e, Step, States)
  <2> HIDE DEF Step
  <2> QED
    BY <1>1, <1>2, <1>5, Iterated
<1>7. /\ made \in [SUBSET (1..n) -> States]
      /\ \A s \in SUBSET (1..n) : made[s] = IF s = {} THEN e ELSE Step[<<made[s \ {Max(s)}], Max(s)>>]
  BY <1>6 DEF Repeats
<1>8. \A s \in SUBSET (1..n) : s # {} => Max(s) \in 1..n
  BY <1>1, Uppermost
<1>9. unfolds(all)
  <2>1. ASSUME NEW s \in SUBSET (1..n), s # {}
        PROVE  made[s] = category_listed(made[s \ {Max(s)}], waiting[Max(s)])
    <3>1. made[s \ {Max(s)}] \in States /\ Max(s) \in 1..n
      BY <1>7, <1>8, <2>1
    <3> QED
      BY <1>7, <2>1, <3>1
  <2>2. made = [s \in SUBSET (1..n) |-> made[s]]
    BY <1>7
  <2>3. unfolds(made)
    BY <1>7, <2>1, <2>2
  <2> QED
    BY <2>3
<1> HIDE DEF all
<1>10. all[{}] \in States
  BY <1>2, <1>9
<1>11. ASSUME NEW s \in SUBSET (1..n), s # {}, all[s \ {Max(s)}] \in States PROVE all[s] \in States
  <2>1. all[s] = category_listed(all[s \ {Max(s)}], waiting[Max(s)])
    BY <1>9, <1>11
  <2> QED
    BY <1>4, <1>8, <1>11, <2>1
<1>12. all[1..n] \in States
  BY <1>1, <1>10, <1>11, StaysWithin
<1> QED
  BY <1>2, <1>3, <1>12

\* Everything that waited for a suite: the navigations, then the clicks.
LEMMA Navigates ==
  ASSUME NEW e, Explores(e), Alive(e), NEW ask \in Asks
  PROVE  Explores(navigated(e, ask)) /\ SamePanel(navigated(e, ask), e)
<1>1. SamePanel(e, e)
  BY DEF SamePanel
<1>2. CASE ask[1] = "view"
  BY <1>1, <1>2 DEF navigated
<1>3. CASE ask[1] # "view"
  <2>1. ask \in Targets /\ ask[1] # "category"
    BY <1>3 DEF Asks, Targets
  <2>2. Explores(suite_listed(e, ask)) /\ SamePanel(suite_listed(e, ask), e)
    BY <2>1, SuiteIsListed
  <2> QED
    BY <1>3, <2>2 DEF navigated
<1> QED
  BY <1>2, <1>3

LEMMA Clicked ==
  ASSUME NEW e, Explores(e), NEW ask \in Asks
  PROVE  Explores(clicked(e, ask)) /\ SamePanel(clicked(e, ask), e)
<1>1. SamePanel(e, e)
  BY DEF SamePanel
<1>2. CASE ask[1] # "view"
  BY <1>1, <1>2 DEF clicked
<1>3. CASE ask[1] = "view"
  <2> DEFINE key == <<"suite", ask[2]>>
  <2>1. key \in Keys
    BY DEF Asks, Keys
  <2>2. clicked(e, ask) = view(e, key)
    BY <1>3 DEF clicked
  <2> HIDE DEF key
  <2> QED
    BY <2>1, <2>2, Viewed
<1> QED
  BY <1>2, <1>3

LEMMA SuitesListed ==
  ASSUME NEW e, Explores(e), Alive(e), NEW waiting \in Seq(Asks)
  PROVE  LET t == FoldLeft(navigated, e, waiting)
         IN Explores(t) /\ SamePanel(t, e)
<1> DEFINE n == Len(waiting)
           States == {x \in ExplorerState : Explored(x) /\ SamePanel(x, e)}
           Step == [q \in States \X (1..n) |-> navigated(q[1], waiting[q[2]])]
           unfolds(iter) ==
             iter = [s \in SUBSET (1..n) |->
                       IF s = {} THEN e ELSE navigated(iter[s \ {Max(s)}], waiting[Max(s)])]
           all == CHOOSE iter : unfolds(iter)
<1>1. n \in Nat /\ DOMAIN waiting = 1..n /\ \A i \in 1..n : waiting[i] \in Asks
  OBVIOUS
<1>2. /\ e \in States
      /\ \A x \in States : Explores(x) /\ Alive(x) /\ SamePanel(x, e)
      /\ \A x : Explores(x) /\ SamePanel(x, e) => x \in States
  BY DEF Explores, Alive, SamePanel
<1>3. FoldLeft(navigated, e, waiting) = all[1..n]
  <2>1. FoldLeft(navigated, e, waiting) =
          (CHOOSE iter : iter = [s \in SUBSET DOMAIN waiting |->
             IF s = {} THEN e ELSE navigated(iter[s \ {Max(s)}], waiting[Max(s)])])[DOMAIN waiting]
    BY DEF FoldLeft, MapThenFoldSet
  <2> HIDE DEF n
  <2> QED
    BY <1>1, <2>1
<1> HIDE DEF n, States
<1>4. ASSUME NEW x \in States, NEW i \in 1..n PROVE navigated(x, waiting[i]) \in States
  <2> DEFINE t == navigated(x, waiting[i])
  <2>1. Explores(x) /\ Alive(x) /\ SamePanel(x, e) /\ waiting[i] \in Asks
    BY <1>1, <1>2
  <2>2. Explores(t) /\ SamePanel(t, x)
    BY <2>1, Navigates
  <2> HIDE DEF t
  <2>3. t \in States
    BY <1>2, <2>1, <2>2 DEF SamePanel
  <2> QED
    BY <2>3 DEF t
<1>5. Step \in [States \X (1..n) -> States]
  BY <1>4
<1>6. PICK made : Repeats(made, n, e, Step, States)
  <2> HIDE DEF Step
  <2> QED
    BY <1>1, <1>2, <1>5, Iterated
<1>7. /\ made \in [SUBSET (1..n) -> States]
      /\ \A s \in SUBSET (1..n) : made[s] = IF s = {} THEN e ELSE Step[<<made[s \ {Max(s)}], Max(s)>>]
  BY <1>6 DEF Repeats
<1>8. \A s \in SUBSET (1..n) : s # {} => Max(s) \in 1..n
  BY <1>1, Uppermost
<1>9. unfolds(all)
  <2>1. ASSUME NEW s \in SUBSET (1..n), s # {}
        PROVE  made[s] = navigated(made[s \ {Max(s)}], waiting[Max(s)])
    <3>1. made[s \ {Max(s)}] \in States /\ Max(s) \in 1..n
      BY <1>7, <1>8, <2>1
    <3> QED
      BY <1>7, <2>1, <3>1
  <2>2. made = [s \in SUBSET (1..n) |-> made[s]]
    BY <1>7
  <2>3. unfolds(made)
    BY <1>7, <2>1, <2>2
  <2> QED
    BY <2>3
<1> HIDE DEF all
<1>10. all[{}] \in States
  BY <1>2, <1>9
<1>11. ASSUME NEW s \in SUBSET (1..n), s # {}, all[s \ {Max(s)}] \in States PROVE all[s] \in States
  <2>1. all[s] = navigated(all[s \ {Max(s)}], waiting[Max(s)])
    BY <1>9, <1>11
  <2> QED
    BY <1>4, <1>8, <1>11, <2>1
<1>12. all[1..n] \in States
  BY <1>1, <1>10, <1>11, StaysWithin
<1> QED
  BY <1>2, <1>3, <1>12

LEMMA ClicksFollow ==
  ASSUME NEW e, Explores(e), Alive(e), NEW waiting \in Seq(Asks)
  PROVE  LET t == FoldLeft(clicked, e, waiting)
         IN Explores(t) /\ SamePanel(t, e)
<1> DEFINE n == Len(waiting)
           States == {x \in ExplorerState : Explored(x) /\ SamePanel(x, e)}
           Step == [q \in States \X (1..n) |-> clicked(q[1], waiting[q[2]])]
           unfolds(iter) ==
             iter = [s \in SUBSET (1..n) |->
                       IF s = {} THEN e ELSE clicked(iter[s \ {Max(s)}], waiting[Max(s)])]
           all == CHOOSE iter : unfolds(iter)
<1>1. n \in Nat /\ DOMAIN waiting = 1..n /\ \A i \in 1..n : waiting[i] \in Asks
  OBVIOUS
<1>2. /\ e \in States
      /\ \A x \in States : Explores(x) /\ Alive(x) /\ SamePanel(x, e)
      /\ \A x : Explores(x) /\ SamePanel(x, e) => x \in States
  BY DEF Explores, Alive, SamePanel
<1>3. FoldLeft(clicked, e, waiting) = all[1..n]
  <2>1. FoldLeft(clicked, e, waiting) =
          (CHOOSE iter : iter = [s \in SUBSET DOMAIN waiting |->
             IF s = {} THEN e ELSE clicked(iter[s \ {Max(s)}], waiting[Max(s)])])[DOMAIN waiting]
    BY DEF FoldLeft, MapThenFoldSet
  <2> HIDE DEF n
  <2> QED
    BY <1>1, <2>1
<1> HIDE DEF n, States
<1>4. ASSUME NEW x \in States, NEW i \in 1..n PROVE clicked(x, waiting[i]) \in States
  <2> DEFINE t == clicked(x, waiting[i])
  <2>1. Explores(x) /\ Alive(x) /\ SamePanel(x, e) /\ waiting[i] \in Asks
    BY <1>1, <1>2
  <2>2. Explores(t) /\ SamePanel(t, x)
    BY <2>1, Clicked
  <2> HIDE DEF t
  <2>3. t \in States
    BY <1>2, <2>1, <2>2 DEF SamePanel
  <2> QED
    BY <2>3 DEF t
<1>5. Step \in [States \X (1..n) -> States]
  BY <1>4
<1>6. PICK made : Repeats(made, n, e, Step, States)
  <2> HIDE DEF Step
  <2> QED
    BY <1>1, <1>2, <1>5, Iterated
<1>7. /\ made \in [SUBSET (1..n) -> States]
      /\ \A s \in SUBSET (1..n) : made[s] = IF s = {} THEN e ELSE Step[<<made[s \ {Max(s)}], Max(s)>>]
  BY <1>6 DEF Repeats
<1>8. \A s \in SUBSET (1..n) : s # {} => Max(s) \in 1..n
  BY <1>1, Uppermost
<1>9. unfolds(all)
  <2>1. ASSUME NEW s \in SUBSET (1..n), s # {}
        PROVE  made[s] = clicked(made[s \ {Max(s)}], waiting[Max(s)])
    <3>1. made[s \ {Max(s)}] \in States /\ Max(s) \in 1..n
      BY <1>7, <1>8, <2>1
    <3> QED
      BY <1>7, <2>1, <3>1
  <2>2. made = [s \in SUBSET (1..n) |-> made[s]]
    BY <1>7
  <2>3. unfolds(made)
    BY <1>7, <2>1, <2>2
  <2> QED
    BY <2>3
<1> HIDE DEF all
<1>10. all[{}] \in States
  BY <1>2, <1>9
<1>11. ASSUME NEW s \in SUBSET (1..n), s # {}, all[s \ {Max(s)}] \in States PROVE all[s] \in States
  <2>1. all[s] = clicked(all[s \ {Max(s)}], waiting[Max(s)])
    BY <1>9, <1>11
  <2> QED
    BY <1>4, <1>8, <1>11, <2>1
<1>12. all[1..n] \in States
  BY <1>1, <1>10, <1>11, StaysWithin
<1> QED
  BY <1>2, <1>3, <1>12

\* What changes the inspector only.
LEMMA DetailChanges ==
  ASSUME NEW e, NEW t \in ExplorerState, Explores(e), SamePanel(t, e), SameLists(t, e), SamePlace(t, e), Held(t),
         Alive(e) \/ (t.active = Nowhere /\ t.pending = Nowhere)
  PROVE  Explores(t)
<1>1. Tallied(t) /\ Awaited(t)
  BY ListsKept DEF Explores, Explored
<1>2. Quiet(t)
  BY DEF Explores, Explored, Quiet, Alive, SamePanel, SameLists
<1>3. t.at \in 1..Len(t.entries)
  BY DEF Explores, Explored, SamePlace
<1> QED
  BY <1>1, <1>2, <1>3 DEF Explores, Explored

\* A panel with nothing open may be in any phase.
LEMMA PanelTurns ==
  ASSUME NEW e, NEW t \in ExplorerState, Explores(e), SameLists(t, e), SameDetail(t, e), SamePlace(t, e),
         e.active = Nowhere, e.pending = Nowhere, \A g \in Groups : e.category[g] = "closed"
  PROVE  Explores(t)
<1>1. Tallied(t) /\ Awaited(t) /\ Held(t)
  BY ListsKept, DetailKept DEF Explores, Explored
<1>2. Quiet(t)
  BY DEF Quiet, SameDetail, SameLists
<1>3. t.at \in 1..Len(t.entries)
  BY DEF Explores, Explored, SamePlace
<1> QED
  BY <1>1, <1>2, <1>3 DEF Explores, Explored

LEMMA Deactivated ==
  ASSUME NEW e, Explores(e)
  PROVE  Explores(deactivate_panel(e))
<1> DEFINE r == replaceState(e, Nowhere)
           c == close_all(r)
<1>1. Explores(r)
  BY Replaced
<1> HIDE DEF r
<1>2. Explores(c)
  BY <1>1, AllClose
<1> HIDE DEF c
<1>3. Explores(close_surface(c)) /\ Explores(close_surface(e))
  BY <1>2, SurfaceCloses
<1>4. deactivate_panel(e) = close_surface(c) \/ deactivate_panel(e) = close_surface(e)
  BY DEF deactivate_panel, c, r
<1> QED
  BY <1>3, <1>4

LEMMA PanelSteps ==
  ASSUME Explores(explorer),
         PanelImported \/ IndexLoaded \/ IndexFailed \/ activate_tests \/ deactivate_tests
  PROVE  Explores(explorer')
<1> DEFINE e == explorer
<1>1. e \in ExplorerState /\ Quiet(e) /\ e.at \in 1..Len(e.entries)
  BY DEF Explores, Explored
<1>2. ASSUME NEW v \in {"failed", "loading", "ready", "error"}, e.panel # "ready"
      PROVE  Explores([e EXCEPT !.panel = v])
  <2> DEFINE t == [e EXCEPT !.panel = v]
  <2>1. t \in ExplorerState
    BY <1>1 DEF ExplorerState
  <2>2. SameLists(t, e) /\ SameDetail(t, e) /\ SamePlace(t, e)
    BY <1>1, <2>1 DEF ExplorerState, SameLists, SameDetail, SamePlace
  <2> HIDE DEF t
  <2>3. Explores(t)
    BY <1>1, <1>2, <2>1, <2>2, PanelTurns DEF Quiet
  <2> QED
    BY <2>3 DEF t
<1>3. ASSUME NEW k, Explores(k), NEW b \in BOOLEAN
      PROVE  Explores([k EXCEPT !.live = b])
  <2> DEFINE t == [k EXCEPT !.live = b]
  <2>1. k \in ExplorerState
    BY <1>3 DEF Explores
  <2>2. t \in ExplorerState
    BY <2>1 DEF ExplorerState
  <2>3. SamePanel(t, k) /\ SameLists(t, k) /\ SameDetail(t, k) /\ SamePlace(t, k)
    BY <2>1, <2>2 DEF ExplorerState, SamePanel, SameLists, SameDetail, SamePlace
  <2> HIDE DEF t
  <2>4. Explores(t)
    BY <1>3, <2>2, <2>3, Unchanging DEF Explores, Explored, SamePlace
  <2> QED
    BY <2>4 DEF t
<1>4. CASE PanelImported
  <2> PICK came \in BOOLEAN : explorer' = [e EXCEPT !.panel = IF came THEN "loading" ELSE "failed"]
    BY <1>4 DEF PanelImported
  <2> DEFINE v == IF came THEN "loading" ELSE "failed"
  <2>1. v \in {"failed", "loading", "ready", "error"} /\ e.panel # "ready" /\ explorer' = [e EXCEPT !.panel = v]
    BY <1>4 DEF PanelImported
  <2> HIDE DEF v, e
  <2> QED
    BY <1>2, <2>1
<1>5. CASE IndexLoaded
  <2> DEFINE r == [e EXCEPT !.panel = "ready"]
             s == reconcile_location(r)
  <2>1. e.panel # "ready" /\ (explorer' = s \/ explorer' = deactivate_panel(s))
    BY <1>5 DEF IndexLoaded
  <2>2. Explores(r)
    BY <1>2, <2>1
  <2> HIDE DEF r
  <2>3. Explores(s)
    BY <2>2, Reconciled
  <2> HIDE DEF s
  <2>4. Explores(deactivate_panel(s))
    BY <2>3, Deactivated
  <2> QED
    BY <2>1, <2>3, <2>4
<1>6. CASE IndexFailed
  BY <1>2, <1>6 DEF IndexFailed
<1>7. CASE activate_tests
  BY <1>3, <1>7 DEF activate_tests
<1>8. CASE deactivate_tests
  <2> DEFINE k == IF e.panel \in {"importing", "failed"} THEN e ELSE deactivate_panel(e)
  <2>1. Explores(k) /\ explorer' = [k EXCEPT !.live = FALSE]
    BY <1>8, Deactivated DEF deactivate_tests
  <2> HIDE DEF k
  <2> QED
    BY <1>3, <2>1
<1> QED
  BY <1>4, <1>5, <1>6, <1>7, <1>8

LEMMA DisposalStep ==
  ASSUME Explores(explorer), dispose_explorer
  PROVE  Explores(explorer')
<1> DEFINE e == explorer
           k == IF e.panel = "ready" THEN close_all(e) ELSE e
           c == close_surface(k)
           t == [c EXCEPT !.disposed = TRUE]
<1>1. explorer' = t
  BY DEF dispose_explorer
<1>2. Explores(k) /\ \A g \in Groups : k.category[g] = "closed"
  <2>1. CASE e.panel = "ready"
    BY <2>1, AllClose
  <2>2. CASE e.panel # "ready"
    BY <2>2 DEF Explores, Explored, Quiet
  <2> QED
    BY <2>1, <2>2
<1> HIDE DEF k
<1>3. Explores(c) /\ SameLists(c, k) /\ c.active = Nowhere /\ c.pending = Nowhere
  BY <1>2, Surfaced, SurfaceCloses DEF Explores
<1> HIDE DEF c
<1>4. c \in ExplorerState /\ \A g \in Groups : c.category[g] = "closed"
  BY <1>2, <1>3 DEF Explores, SameLists
<1>5. t \in ExplorerState
  BY <1>4 DEF ExplorerState
<1>6. SameLists(t, c) /\ SameDetail(t, c) /\ SamePlace(t, c)
  BY <1>4, <1>5 DEF ExplorerState, SameLists, SameDetail, SamePlace
<1> HIDE DEF t
<1>7. Explores(t)
  BY <1>3, <1>4, <1>5, <1>6, PanelTurns
<1> QED
  BY <1>1, <1>7

LEMMA HistorySteps ==
  ASSUME Explores(explorer), close_from_control \/ \E step \in {-1, 1} : Traverse(step)
  PROVE  Explores(explorer')
<1> DEFINE e == explorer
<1>1. e \in ExplorerState /\ e.at \in 1..Len(e.entries)
  BY DEF Explores, Explored
<1>2. ASSUME NEW at \in Nat, at \in 1..Len(e.entries), NEW backs \in Int
      PROVE  Explores([[e EXCEPT !.at = at] EXCEPT !.backs = backs])
  <2> DEFINE a == [e EXCEPT !.at = at]
             t == [a EXCEPT !.backs = backs]
  <2>1. a \in ExplorerState
    BY <1>1 DEF ExplorerState
  <2>2. SamePanel(a, e) /\ SameLists(a, e) /\ SameDetail(a, e) /\ a.at = at /\ a.entries = e.entries
    BY <1>1, <2>1 DEF ExplorerState, SamePanel, SameLists, SameDetail
  <2> HIDE DEF a
  <2>3. t \in ExplorerState
    BY <2>1 DEF ExplorerState
  <2>4. SamePanel(t, a) /\ SameLists(t, a) /\ SameDetail(t, a) /\ t.at = a.at /\ t.entries = a.entries
    BY <2>1, <2>3 DEF ExplorerState, SamePanel, SameLists, SameDetail
  <2> HIDE DEF t
  <2>5. SamePanel(t, e) /\ SameLists(t, e) /\ SameDetail(t, e) /\ t.at \in 1..Len(t.entries)
    BY <1>2, <2>2, <2>4 DEF SamePanel, SameLists, SameDetail
  <2>6. Explores(t)
    BY <2>3, <2>5, Unchanging
  <2> QED
    BY <2>6 DEF t, a
<1>3. e.at \in Nat /\ e.backs \in Int /\ Len(e.entries) \in Nat
  BY <1>1 DEF ExplorerState
<1>4. CASE close_from_control
  <2>1. CASE explorer' = [e EXCEPT !.backs = @ + 1]
    <3> DEFINE backs == e.backs + 1
               at == e.at
    <3>1. backs \in Int /\ at \in Nat /\ at \in 1..Len(e.entries)
      BY <1>1, <1>3
    <3>2. explorer' = [[e EXCEPT !.at = at] EXCEPT !.backs = backs]
      BY <1>1, <2>1 DEF ExplorerState
    <3> HIDE DEF backs, at
    <3> QED
      BY <1>2, <3>1, <3>2
  <2>2. CASE explorer' = reconcile_location(replaceState(e, Nowhere))
    <3> DEFINE r == replaceState(e, Nowhere)
    <3>1. Explores(r)
      BY Replaced
    <3> HIDE DEF r
    <3>2. Explores(reconcile_location(r))
      BY <3>1, Reconciled
    <3> QED
      BY <2>2, <3>2 DEF r
  <2> QED
    BY <1>4, <2>1, <2>2 DEF close_from_control
<1>5. ASSUME NEW step \in {-1, 1}, Traverse(step) PROVE Explores(explorer')
  <2>1. e.at + step \in 1..Len(e.entries) /\ e.at + step \in Nat
    BY <1>3, <1>5 DEF Traverse
  <2>2. ASSUME NEW at, NEW backs, at = e.at + step, backs \in Int,
               explorer' = reconcile_location([[e EXCEPT !.at = at] EXCEPT !.backs = backs])
        PROVE  Explores(explorer')
    <3> DEFINE r == [[e EXCEPT !.at = at] EXCEPT !.backs = backs]
    <3>1. Explores(r)
      BY <1>2, <2>1, <2>2
    <3> HIDE DEF r
    <3>2. Explores(reconcile_location(r))
      BY <3>1, Reconciled
    <3> QED
      BY <2>2, <3>2 DEF r
  <2>3. CASE step = -1 /\ explorer' = reconcile_location([e EXCEPT !.at = @ - 1, !.backs = @ - 1])
    <3> DEFINE at == e.at + step
               backs == e.backs - 1
    <3>1. explorer' = reconcile_location([[e EXCEPT !.at = at] EXCEPT !.backs = backs])
      <4>1. [e EXCEPT !.at = @ - 1, !.backs = @ - 1] = [[e EXCEPT !.at = at] EXCEPT !.backs = backs]
        BY <1>1, <1>3, <2>3 DEF ExplorerState
      <4> QED
        BY <2>3, <4>1
    <3>2. at = e.at + step /\ backs \in Int
      BY <1>3
    <3> HIDE DEF at, backs, e
    <3> QED
      BY <2>2, <3>1, <3>2
  <2>4. CASE explorer' = reconcile_location([e EXCEPT !.at = @ + step])
    <3> DEFINE at == e.at + step
               backs == e.backs
    <3>1. explorer' = reconcile_location([[e EXCEPT !.at = at] EXCEPT !.backs = backs])
      <4>1. [e EXCEPT !.at = @ + step] = [[e EXCEPT !.at = at] EXCEPT !.backs = backs]
        BY <1>1, <1>3 DEF ExplorerState
      <4> QED
        BY <2>4, <4>1
    <3>2. at = e.at + step /\ backs \in Int
      BY <1>3
    <3> HIDE DEF at, backs, e
    <3> QED
      BY <2>2, <3>1, <3>2
  <2> QED
    BY <1>5, <2>3, <2>4 DEF Traverse
<1> QED
  BY <1>4, <1>5

\* What a disclosure shows as open decides nothing else.
LEMMA OpenChanges ==
  ASSUME NEW e, Explores(e), NEW g \in Groups, NEW b \in BOOLEAN
  PROVE  Explores([e EXCEPT !.categoryOpen[g] = b]) /\ Explores([e EXCEPT !.suiteOpen[g] = b])
<1> DEFINE f == [e.categoryOpen EXCEPT ![g] = b]
           h == [e.suiteOpen EXCEPT ![g] = b]
           s == [e EXCEPT !.categoryOpen = f]
           t == [e EXCEPT !.suiteOpen = h]
<1>1. e \in ExplorerState /\ e.at \in 1..Len(e.entries)
  BY DEF Explores, Explored
<1>2. f \in [Groups -> BOOLEAN] /\ h \in [Groups -> BOOLEAN]
  BY <1>1 DEF ExplorerState
<1>3. s = [e EXCEPT !.categoryOpen[g] = b] /\ t = [e EXCEPT !.suiteOpen[g] = b]
  OBVIOUS
<1> HIDE DEF f, h
<1>4. s \in ExplorerState /\ t \in ExplorerState
  BY <1>1, <1>2 DEF ExplorerState
<1>5. SamePanel(s, e) /\ SameLists(s, e) /\ SameDetail(s, e) /\ SamePlace(s, e)
  BY <1>1, <1>4 DEF ExplorerState, SamePanel, SameLists, SameDetail, SamePlace
<1>6. SamePanel(t, e) /\ SameLists(t, e) /\ SameDetail(t, e) /\ SamePlace(t, e)
  BY <1>1, <1>4 DEF ExplorerState, SamePanel, SameLists, SameDetail, SamePlace
<1> HIDE DEF s, t
<1>7. s.at \in 1..Len(s.entries) /\ t.at \in 1..Len(t.entries)
  BY <1>1, <1>5, <1>6 DEF SamePlace
<1>8. Explores(s)
  BY <1>4, <1>5, <1>7, Unchanging
<1>9. Explores(t)
  BY <1>4, <1>6, <1>7, Unchanging
<1> QED
  BY <1>3, <1>8, <1>9

LEMMA ListSteps ==
  ASSUME Explores(explorer), NEW g \in Groups, ToggleCategory(g) \/ ToggleSuite(g) \/ ClickSuite(g) \/ ViewCase(g)
  PROVE  Explores(explorer')
<1> DEFINE e == explorer
<1>1. Alive(e)
  BY DEF ToggleCategory, ToggleSuite, ClickSuite, ViewCase, Shown, Alive
<1>2. CASE ToggleCategory(g)
  <2> DEFINE c == close_category(e, g)
  <2>1. explorer' = [c EXCEPT !.categoryOpen[g] = FALSE] \/ explorer' = load_category(e, g, TRUE)
    BY <1>2 DEF ToggleCategory
  <2>2. Explores(c)
    BY CategoryCloses
  <2>3. Explores(load_category(e, g, TRUE))
    BY <1>1, LoadsCategory
  <2> HIDE DEF c
  <2>4. Explores([c EXCEPT !.categoryOpen[g] = FALSE])
    BY <2>2, OpenChanges
  <2> QED
    BY <2>1, <2>3, <2>4
<1>3. CASE ToggleSuite(g)
  <2> DEFINE c == close_suite(e, g)
  <2>1. e.category[g] = "ready"
        /\ (explorer' = [c EXCEPT !.suiteOpen[g] = FALSE] \/ explorer' = load_suite(e, g, TRUE))
    BY <1>3 DEF ToggleSuite
  <2>2. Explores(c)
    BY SuiteCloses
  <2>3. Explores(load_suite(e, g, TRUE))
    BY <2>1, LoadsSuite
  <2> HIDE DEF c
  <2>4. Explores([c EXCEPT !.suiteOpen[g] = FALSE])
    BY <2>2, OpenChanges
  <2> QED
    BY <2>1, <2>3, <2>4
<1>4. CASE ClickSuite(g)
  <2> DEFINE l == load_suite(e, g, FALSE)
             key == <<"suite", g>>
             ask == <<"view", g>>
             t == [l EXCEPT !.suiteWaits[g] = Append(@, ask)]
  <2>1. /\ e.category[g] = "ready"
        /\ \/ explorer' = l
           \/ explorer' = view(l, key)
           \/ l.suite[g] # "ready" /\ explorer' = t
    BY <1>4 DEF ClickSuite
  <2>2. Explores(l) /\ l.suite[g] \in {"ready", "loading"}
    BY <2>1, LoadsSuite
  <2>3. key \in Keys /\ ask \in Asks /\ ask[2] = g
    BY DEF Keys, Asks
  <2> HIDE DEF l, key, ask
  <2>4. Explores(view(l, key))
    BY <2>2, <2>3, Viewed
  <2>5. CASE l.suite[g] # "ready" /\ explorer' = t
    <3>1. l.suite[g] = "loading"
      BY <2>2, <2>5
    <3>2. Explores(t)
      BY <2>2, <2>3, <3>1, SuiteAwaited
    <3> QED
      BY <2>5, <3>2
  <2> QED
    BY <2>1, <2>2, <2>4, <2>5
<1>5. CASE ViewCase(g)
  <2> DEFINE key == <<"case", g>>
  <2>1. key \in Keys /\ explorer' = view(e, key)
    BY <1>5 DEF Keys, ViewCase
  <2> HIDE DEF key
  <2> QED
    BY <2>1, Viewed
<1> QED
  BY <1>2, <1>3, <1>4, <1>5

LEMMA StaleStep ==
  ASSUME Explores(explorer), StaleCategoryArrives
  PROVE  Explores(explorer')
<1> DEFINE e == explorer
           n == e.stale - 1
           t == [e EXCEPT !.stale = n]
<1>1. e \in ExplorerState /\ e.at \in 1..Len(e.entries)
  BY DEF Explores, Explored
<1>2. n \in Int
  BY <1>1 DEF ExplorerState
<1>3. explorer' = close_surface(t)
  BY DEF StaleCategoryArrives
<1> HIDE DEF n
<1>4. t \in ExplorerState
  BY <1>1, <1>2 DEF ExplorerState
<1>5. SamePanel(t, e) /\ SameLists(t, e) /\ SameDetail(t, e) /\ SamePlace(t, e)
  BY <1>1, <1>4 DEF ExplorerState, SamePanel, SameLists, SameDetail, SamePlace
<1> HIDE DEF t
<1>6. t.at \in 1..Len(t.entries)
  BY <1>1, <1>5 DEF SamePlace
<1>7. Explores(t)
  BY <1>4, <1>5, <1>6, Unchanging
<1> QED
  BY <1>3, <1>7, SurfaceCloses

LEMMA CategoryStep ==
  ASSUME Explores(explorer), NEW g \in Groups, CategoryArrives(g)
  PROVE  Explores(explorer')
<1> DEFINE e == explorer
           none == [e.categoryWaits EXCEPT ![g] = << >>]
           w == e.categoryWaits[g]
           a == [e EXCEPT !.categoryWaits = none]
<1>1. e \in ExplorerState /\ e.at \in 1..Len(e.entries) /\ Awaited(e) /\ Quiet(e) /\ e.category[g] = "loading"
  BY DEF Explores, Explored, CategoryArrives
<1>2. Alive(e) /\ e.suite[g] = "closed"
  BY <1>1 DEF Alive, Quiet, Awaited, ExplorerState
<1>3. w \in Seq(Targets) /\ \A i \in 1..Len(w) : w[i][2] = g
  BY <1>1 DEF Awaited, ExplorerState
<1>4. none \in [Groups -> Seq(Targets)]
  BY <1>1 DEF ExplorerState
<1>5. a = [e EXCEPT !.categoryWaits[g] = << >>]
  OBVIOUS
<1> HIDE DEF none
<1>6. a \in ExplorerState
  BY <1>1, <1>4 DEF ExplorerState
<1>7. /\ SamePanel(a, e) /\ SameDetail(a, e) /\ SamePlace(a, e) /\ a.suite = e.suite /\ a.suiteWaits = e.suiteWaits
      /\ a.renderedCases = e.renderedCases /\ a.renderedSuites = e.renderedSuites
      /\ a.category = e.category /\ a.categoryWaits = none
  BY <1>1, <1>4, <1>6 DEF ExplorerState, SamePanel, SameDetail, SamePlace
<1> HIDE DEF a
<1>8. ASSUME NEW v \in {"ready", "error"}, NEW k \in Int, k = One(v),
             NEW t, t = [[a EXCEPT !.category[g] = v] EXCEPT !.renderedSuites = e.renderedSuites + k]
      PROVE  Explores(t) /\ SamePanel(t, e) /\ t.category[g] = v
  <2> DEFINE f == [e.category EXCEPT ![g] = v]
             b == [a EXCEPT !.category = f]
             n == e.renderedSuites + k
             c == [b EXCEPT !.renderedSuites = n]
  <2>1. f \in [Groups -> Stages] /\ n \in Int /\ f[g] = v
    BY <1>1 DEF ExplorerState, Stages
  <2>2. t = c
    BY <1>7, <1>8
  <2>3. n = e.renderedSuites + One(v) - One(e.category[g])
    BY <1>1, <1>8 DEF One, ExplorerState
  <2>4. f = [e.category EXCEPT ![g] = v]
    OBVIOUS
  <2> HIDE DEF f, n
  <2>5. b \in ExplorerState
    BY <1>6, <2>1 DEF ExplorerState
  <2>6. /\ SamePanel(b, a) /\ SameDetail(b, a) /\ SamePlace(b, a) /\ b.suite = a.suite /\ b.suiteWaits = a.suiteWaits
        /\ b.renderedCases = a.renderedCases /\ b.categoryWaits = a.categoryWaits /\ b.category = f
    BY <1>6, <2>1, <2>5 DEF ExplorerState, SamePanel, SameDetail, SamePlace
  <2> HIDE DEF b
  <2>7. c \in ExplorerState
    BY <2>5, <2>1 DEF ExplorerState
  <2>8. /\ SamePanel(c, b) /\ SameDetail(c, b) /\ SamePlace(c, b) /\ c.suite = b.suite /\ c.suiteWaits = b.suiteWaits
        /\ c.renderedCases = b.renderedCases /\ c.categoryWaits = b.categoryWaits /\ c.category = b.category
        /\ c.renderedSuites = n
    BY <2>5, <2>1, <2>7 DEF ExplorerState, SamePanel, SameDetail, SamePlace
  <2> HIDE DEF c
  <2>9. /\ SamePanel(c, e) /\ SameDetail(c, e) /\ c.at \in 1..Len(c.entries)
        /\ c.suite = e.suite /\ c.suiteWaits = e.suiteWaits /\ c.renderedCases = e.renderedCases
        /\ c.category = f /\ c.categoryWaits = none
    BY <1>1, <1>7, <2>6, <2>8 DEF SamePanel, SameDetail, SamePlace
  <2> DEFINE empty == << >>
  <2>10. empty \in Seq(Targets) /\ none = [e.categoryWaits EXCEPT ![g] = empty] /\ Len(empty) = 0
    BY DEF none
  <2>11. (empty # << >> => v = "loading") /\ (\A i \in 1..Len(empty) : empty[i][2] = g)
    BY <2>10
  <2>12. v \in Stages /\ (e.suite[g] # "closed" => v = "ready") /\ (v = "closed" \/ Alive(e))
    BY <1>2 DEF Stages
  <2> HIDE DEF empty
  <2>13. c.category = [e.category EXCEPT ![g] = v] /\ c.categoryWaits = [e.categoryWaits EXCEPT ![g] = empty]
         /\ c.renderedSuites = e.renderedSuites + One(v) - One(e.category[g])
    BY <2>3, <2>4, <2>8, <2>9, <2>10
  <2>14. Explores(c)
    BY <2>7, <2>9, <2>10, <2>11, <2>12, <2>13, CategoryChanges
  <2> QED
    BY <2>1, <2>2, <2>9, <2>14
<1>9. CASE explorer' = FoldLeft(category_listed,
                                [a EXCEPT !.category[g] = "ready", !.renderedSuites = @ + 1], w)
  <2> DEFINE v == "ready"
             k == 1
             t == [[a EXCEPT !.category[g] = v] EXCEPT !.renderedSuites = e.renderedSuites + k]
  <2>1. v \in {"ready", "error"} /\ k \in Int /\ k = One(v)
    BY DEF One
  <2>2. [a EXCEPT !.category[g] = "ready", !.renderedSuites = @ + 1] = t
    BY <1>6, <1>7 DEF ExplorerState
  <2>3. explorer' = FoldLeft(category_listed, t, w)
    BY <1>9, <2>2
  <2>4. Explores(t) /\ SamePanel(t, e) /\ t.category[g] = v
    BY <1>8, <2>1
  <2>5. v = "ready"
    OBVIOUS
  <2> HIDE DEF t, v, w
  <2>6. Alive(t) /\ \A i \in 1..Len(w) : t.category[w[i][2]] = "ready"
    BY <1>2, <1>3, <2>4, <2>5 DEF Alive, SamePanel
  <2>7. Explores(FoldLeft(category_listed, t, w))
    BY <1>3, <2>4, <2>6, CategoriesListed
  <2> QED
    BY <2>3, <2>7
<1>10. ASSUME NEW t, t = [a EXCEPT !.category[g] = "error"]
       PROVE  Explores(t)
  <2> DEFINE v == "error"
             k == 0
             u == [[a EXCEPT !.category[g] = v] EXCEPT !.renderedSuites = e.renderedSuites + k]
  <2>1. v \in {"ready", "error"} /\ k \in Int /\ k = One(v)
    BY DEF One
  <2>2. e.renderedSuites \in Int
    BY <1>1 DEF ExplorerState
  <2>3. t = u
    <3> DEFINE f == [a.category EXCEPT ![g] = v]
               b == [a EXCEPT !.category = f]
               n == e.renderedSuites + k
    <3>1. t = b /\ u = [b EXCEPT !.renderedSuites = n] /\ n = a.renderedSuites
      BY <1>7, <1>10, <2>2
    <3>2. f \in [Groups -> Stages]
      BY <1>6 DEF ExplorerState, Stages
    <3> HIDE DEF f
    <3>3. b \in ExplorerState
      BY <1>6, <3>2 DEF ExplorerState
    <3>4. b.renderedSuites = a.renderedSuites
      BY <1>6, <3>3 DEF ExplorerState
    <3> HIDE DEF b, n, u
    <3>5. [b EXCEPT !.renderedSuites = b.renderedSuites] = b
      BY <3>3 DEF ExplorerState
    <3> QED
      BY <3>1, <3>4, <3>5
  <2>4. Explores(u)
    BY <1>8, <2>1
  <2> QED
    BY <2>3, <2>4
<1>11. CASE explorer' = IF Contains(e.categoryWaits[g], <<"category", g>>)
                        THEN close_surface([a EXCEPT !.category[g] = "error"])
                        ELSE [a EXCEPT !.category[g] = "error"]
  <2> DEFINE t == [a EXCEPT !.category[g] = "error"]
  <2>1. explorer' = close_surface(t) \/ explorer' = t
    BY <1>11
  <2>2. Explores(t)
    BY <1>10
  <2> HIDE DEF t
  <2> QED
    BY <2>1, <2>2, SurfaceCloses
<1> QED
  BY <1>5, <1>9, <1>11 DEF CategoryArrives

LEMMA SuiteStep ==
  ASSUME Explores(explorer), NEW g \in Groups, SuiteArrives(g)
  PROVE  Explores(explorer')
<1> DEFINE e == explorer
           none == [e.suiteWaits EXCEPT ![g] = << >>]
           w == e.suiteWaits[g]
           a == [e EXCEPT !.suiteWaits = none]
<1>1. e \in ExplorerState /\ e.at \in 1..Len(e.entries) /\ Awaited(e) /\ Quiet(e) /\ e.suite[g] = "loading"
  BY DEF Explores, Explored, SuiteArrives
<1>2. Alive(e) /\ e.category[g] = "ready"
  BY <1>1 DEF Alive, Quiet, Awaited, ExplorerState
<1>3. w \in Seq(Asks)
  BY <1>1 DEF ExplorerState
<1>4. none \in [Groups -> Seq(Asks)]
  BY <1>1 DEF ExplorerState
<1>5. a = [e EXCEPT !.suiteWaits[g] = << >>]
  OBVIOUS
<1> HIDE DEF none
<1>6. a \in ExplorerState
  BY <1>1, <1>4 DEF ExplorerState
<1>7. /\ SamePanel(a, e) /\ SameDetail(a, e) /\ SamePlace(a, e) /\ a.category = e.category
      /\ a.categoryWaits = e.categoryWaits
      /\ a.renderedCases = e.renderedCases /\ a.renderedSuites = e.renderedSuites
      /\ a.suite = e.suite /\ a.suiteWaits = none
  BY <1>1, <1>4, <1>6 DEF ExplorerState, SamePanel, SameDetail, SamePlace
<1> HIDE DEF a
<1>8. ASSUME NEW v \in {"ready", "error"}, NEW k \in Int, k = One(v),
             NEW t, t = [[a EXCEPT !.suite[g] = v] EXCEPT !.renderedCases = e.renderedCases + k]
      PROVE  Explores(t) /\ SamePanel(t, e)
  <2> DEFINE f == [e.suite EXCEPT ![g] = v]
             b == [a EXCEPT !.suite = f]
             n == e.renderedCases + k
             c == [b EXCEPT !.renderedCases = n]
  <2>1. f \in [Groups -> Stages] /\ n \in Int
    BY <1>1 DEF ExplorerState, Stages
  <2>2. t = c
    BY <1>7, <1>8
  <2>3. n = e.renderedCases + One(v) - One(e.suite[g])
    BY <1>1, <1>8 DEF One, ExplorerState
  <2>4. f = [e.suite EXCEPT ![g] = v]
    OBVIOUS
  <2> HIDE DEF f, n
  <2>5. b \in ExplorerState
    BY <1>6, <2>1 DEF ExplorerState
  <2>6. /\ SamePanel(b, a) /\ SameDetail(b, a) /\ SamePlace(b, a) /\ b.category = a.category
        /\ b.categoryWaits = a.categoryWaits /\ b.suiteWaits = a.suiteWaits
        /\ b.renderedSuites = a.renderedSuites /\ b.suite = f
    BY <1>6, <2>1, <2>5 DEF ExplorerState, SamePanel, SameDetail, SamePlace
  <2> HIDE DEF b
  <2>7. c \in ExplorerState
    BY <2>5, <2>1 DEF ExplorerState
  <2>8. /\ SamePanel(c, b) /\ SameDetail(c, b) /\ SamePlace(c, b) /\ c.category = b.category
        /\ c.categoryWaits = b.categoryWaits /\ c.suiteWaits = b.suiteWaits
        /\ c.renderedSuites = b.renderedSuites /\ c.suite = b.suite /\ c.renderedCases = n
    BY <2>5, <2>1, <2>7 DEF ExplorerState, SamePanel, SameDetail, SamePlace
  <2> HIDE DEF c
  <2>9. /\ SamePanel(c, e) /\ SameDetail(c, e) /\ c.at \in 1..Len(c.entries)
        /\ c.category = e.category /\ c.categoryWaits = e.categoryWaits /\ c.renderedSuites = e.renderedSuites
        /\ c.suite = f /\ c.suiteWaits = none
    BY <1>1, <1>7, <2>6, <2>8 DEF SamePanel, SameDetail, SamePlace
  <2> DEFINE empty == << >>
  <2>10. empty \in Seq(Asks) /\ none = [e.suiteWaits EXCEPT ![g] = empty] /\ Len(empty) = 0
    BY DEF none
  <2>11. Len(empty) = 0 => \A i \in 1..Len(empty) : empty[i][2] = g
    OBVIOUS
  <2>12. v \in Stages /\ (v # "closed" => e.category[g] = "ready") /\ (empty # << >> => v = "loading")
    BY <1>2 DEF Stages
  <2> HIDE DEF empty
  <2>13. c.suite = [e.suite EXCEPT ![g] = v]
    BY <2>4, <2>9
  <2>14. c.suiteWaits = [e.suiteWaits EXCEPT ![g] = empty]
    BY <2>9, <2>10
  <2>15. c.renderedCases = e.renderedCases + One(v) - One(e.suite[g])
    BY <2>3, <2>8
  <2>16. \A i \in 1..Len(empty) : empty[i][2] = g
    BY <2>10, <2>11
  <2> HIDE DEF e, w
  <2>17. Explores(c)
    <3>1. Explores(e)
      BY DEF e
    <3>2. SamePanel(c, e) /\ SameDetail(c, e) /\ c.at \in 1..Len(c.entries)
      BY <2>9
    <3>3. c.category = e.category /\ c.categoryWaits = e.categoryWaits /\ c.renderedSuites = e.renderedSuites
      BY <2>9
    <3>4. empty \in Seq(Asks)
      BY <2>10
    <3> QED
      BY <2>7, <2>12, <2>13, <2>14, <2>15, <2>16, <3>1, <3>2, <3>3, <3>4, SuiteChanges
  <2> QED
    BY <2>2, <2>9, <2>17
<1> DEFINE first == [a EXCEPT !.suite[g] = "ready", !.renderedCases = @ + 1]
           listed == FoldLeft(navigated, first, w)
           last == FoldLeft(clicked, listed, w)
<1>9. CASE explorer' = last
  <2> DEFINE v == "ready"
             k == 1
             t == [[a EXCEPT !.suite[g] = v] EXCEPT !.renderedCases = e.renderedCases + k]
  <2>1. v \in {"ready", "error"} /\ k \in Int /\ k = One(v)
    BY DEF One
  <2>2. first = t
    BY <1>6, <1>7 DEF ExplorerState
  <2>3. Explores(t) /\ SamePanel(t, e)
    BY <1>8, <2>1
  <2>4. Explores(first) /\ Alive(first)
    BY <1>2, <2>2, <2>3 DEF Alive, SamePanel
  <2> HIDE DEF t, v, w, first
  <2>5. Explores(listed) /\ SamePanel(listed, first)
    BY <1>3, <2>4, SuitesListed
  <2> HIDE DEF listed
  <2>6. Alive(listed)
    BY <2>4, <2>5 DEF Alive, SamePanel
  <2>7. Explores(last)
    BY <1>3, <2>5, <2>6, ClicksFollow
  <2> QED
    BY <1>9, <2>7
<1>10. CASE explorer' = [a EXCEPT !.suite[g] = "error"]
  <2> DEFINE v == "error"
             k == 0
             f == [a.suite EXCEPT ![g] = v]
             b == [a EXCEPT !.suite = f]
             n == e.renderedCases + k
             u == [[a EXCEPT !.suite[g] = v] EXCEPT !.renderedCases = e.renderedCases + k]
  <2>1. v \in {"ready", "error"} /\ k \in Int /\ k = One(v)
    BY DEF One
  <2>2. e.renderedCases \in Int
    BY <1>1 DEF ExplorerState
  <2>3. explorer' = b /\ u = [b EXCEPT !.renderedCases = n] /\ n = a.renderedCases
    BY <1>7, <1>10, <2>2
  <2>4. f \in [Groups -> Stages]
    BY <1>6 DEF ExplorerState, Stages
  <2>5. Explores(u)
    BY <1>8, <2>1
  <2> HIDE DEF f
  <2>6. b \in ExplorerState
    BY <1>6, <2>4 DEF ExplorerState
  <2>7. b.renderedCases = a.renderedCases
    BY <1>6, <2>6 DEF ExplorerState
  <2> HIDE DEF b, n, u
  <2>8. [b EXCEPT !.renderedCases = b.renderedCases] = b
    BY <2>6 DEF ExplorerState
  <2> QED
    BY <2>3, <2>5, <2>7, <2>8
<1>11. explorer' = last \/ explorer' = [a EXCEPT !.suite[g] = "error"]
  <2> HIDE DEF a, w
  <2>1. explorer' = FoldLeft(clicked, FoldLeft(navigated, [a EXCEPT !.suite[g] = "ready", !.renderedCases = @ + 1], w), w)
        \/ explorer' = [a EXCEPT !.suite[g] = "error"]
    BY <1>5 DEF SuiteArrives, w
  <2> QED
    BY <2>1
<1> QED
  BY <1>9, <1>10, <1>11

\* The rest of the panel is as it was.
RestKept(t, e) == t \in ExplorerState /\ SamePanel(t, e) /\ SameLists(t, e) /\ SamePlace(t, e)
Copyings == [Groups -> {"none", "own", "shared", "writing"}]

LEMMA ActiveSet ==
  ASSUME NEW e \in ExplorerState, NEW key \in Keys \union {Nowhere}
  PROVE  LET t == [e EXCEPT !.active = key]
         IN RestKept(t, e) /\ t.active = key /\ t.pending = e.pending /\ t.retained = e.retained /\ t.copying = e.copying
<1> DEFINE t == [e EXCEPT !.active = key]
<1>1. t \in ExplorerState
  BY DEF ExplorerState
<1>2. SamePanel(t, e) /\ SameLists(t, e) /\ SamePlace(t, e)
      /\ t.active = key /\ t.pending = e.pending /\ t.retained = e.retained /\ t.copying = e.copying
  BY <1>1 DEF ExplorerState, SamePanel, SameLists, SamePlace
<1> QED
  BY <1>1, <1>2 DEF RestKept

LEMMA PendingSet ==
  ASSUME NEW e \in ExplorerState, NEW key \in Keys \union {Nowhere}
  PROVE  LET t == [e EXCEPT !.pending = key]
         IN RestKept(t, e) /\ t.active = e.active /\ t.pending = key /\ t.retained = e.retained /\ t.copying = e.copying
<1> DEFINE t == [e EXCEPT !.pending = key]
<1>1. t \in ExplorerState
  BY DEF ExplorerState
<1>2. SamePanel(t, e) /\ SameLists(t, e) /\ SamePlace(t, e)
      /\ t.active = e.active /\ t.pending = key /\ t.retained = e.retained /\ t.copying = e.copying
  BY <1>1 DEF ExplorerState, SamePanel, SameLists, SamePlace
<1> QED
  BY <1>1, <1>2 DEF RestKept

LEMMA FailedSet ==
  ASSUME NEW e \in ExplorerState, NEW b \in BOOLEAN
  PROVE  LET t == [e EXCEPT !.failed = b]
         IN RestKept(t, e) /\ t.active = e.active /\ t.pending = e.pending /\ t.retained = e.retained /\ t.copying = e.copying
<1> DEFINE t == [e EXCEPT !.failed = b]
<1>1. t \in ExplorerState
  BY DEF ExplorerState
<1>2. SamePanel(t, e) /\ SameLists(t, e) /\ SamePlace(t, e)
      /\ t.active = e.active /\ t.pending = e.pending /\ t.retained = e.retained /\ t.copying = e.copying
  BY <1>1 DEF ExplorerState, SamePanel, SameLists, SamePlace
<1> QED
  BY <1>1, <1>2 DEF RestKept

LEMMA RetainedSet ==
  ASSUME NEW e \in ExplorerState, NEW r \in Groups \union {NoGroup}
  PROVE  LET t == [e EXCEPT !.retained = r]
         IN RestKept(t, e) /\ t.active = e.active /\ t.pending = e.pending /\ t.retained = r /\ t.copying = e.copying
<1> DEFINE t == [e EXCEPT !.retained = r]
<1>1. t \in ExplorerState
  BY DEF ExplorerState
<1>2. SamePanel(t, e) /\ SameLists(t, e) /\ SamePlace(t, e)
      /\ t.active = e.active /\ t.pending = e.pending /\ t.retained = r /\ t.copying = e.copying
  BY <1>1 DEF ExplorerState, SamePanel, SameLists, SamePlace
<1> QED
  BY <1>1, <1>2 DEF RestKept

LEMMA CopyingSet ==
  ASSUME NEW e \in ExplorerState, NEW c \in Copyings
  PROVE  LET t == [e EXCEPT !.copying = c]
         IN RestKept(t, e) /\ t.active = e.active /\ t.pending = e.pending /\ t.retained = e.retained /\ t.copying = c
<1> DEFINE t == [e EXCEPT !.copying = c]
<1>1. t \in ExplorerState
  BY DEF ExplorerState, Copyings
<1>2. SamePanel(t, e) /\ SameLists(t, e) /\ SamePlace(t, e)
      /\ t.active = e.active /\ t.pending = e.pending /\ t.retained = e.retained /\ t.copying = c
  BY <1>1 DEF ExplorerState, SamePanel, SameLists, SamePlace
<1> QED
  BY <1>1, <1>2 DEF RestKept

LEMMA RestTrans ==
  ASSUME NEW s, NEW t, NEW e, RestKept(t, s), RestKept(s, e)
  PROVE  RestKept(t, e)
BY DEF RestKept, SamePanel, SameLists, SamePlace

LEMMA RestExplores ==
  ASSUME NEW e, NEW t, Explores(e), RestKept(t, e), Held(t),
         Alive(e) \/ (t.active = Nowhere /\ t.pending = Nowhere)
  PROVE  Explores(t)
BY DetailChanges DEF RestKept

\* A copy that ends lets go of what only it held.
LEMMA CopyEnds ==
  ASSUME NEW e \in ExplorerState, NEW g \in Groups
  PROVE  LET t == ends_copy(e, g)
         IN /\ RestKept(t, e) /\ t.active = e.active /\ t.pending = e.pending
            /\ t.copying = [e.copying EXCEPT ![g] = "none"]
            /\ t.retained = IF e.retained = g THEN NoGroup ELSE e.retained
<1> DEFINE c == [e.copying EXCEPT ![g] = "none"]
           r == IF e.retained = g THEN NoGroup ELSE e.retained
           a == [e EXCEPT !.copying = c]
           t == [a EXCEPT !.retained = r]
<1>1. c \in Copyings /\ r \in Groups \union {NoGroup} /\ e.retained \in Groups \union {NoGroup}
  BY DEF ExplorerState, Copyings
<1>2. a.retained = e.retained
  BY DEF ExplorerState
<1>3. ends_copy(e, g) = t
  BY <1>2 DEF ends_copy
<1> HIDE DEF c, r
<1>4. RestKept(a, e) /\ a.active = e.active /\ a.pending = e.pending /\ a.retained = e.retained /\ a.copying = c
  BY <1>1, CopyingSet
<1> HIDE DEF a
<1>5. RestKept(t, a) /\ t.active = a.active /\ t.pending = a.pending /\ t.retained = r /\ t.copying = a.copying
  BY <1>1, <1>4, RetainedSet DEF RestKept
<1> HIDE DEF t
<1>6. RestKept(t, e)
  BY <1>4, <1>5, RestTrans
<1> QED
  BY <1>3, <1>4, <1>5, <1>6 DEF c, r

LEMMA CopySteps ==
  ASSUME Explores(explorer), NEW g \in Groups, CopyCase(g) \/ CopyArrives(g) \/ CopyWritten(g)
  PROVE  Explores(explorer')
<1> DEFINE e == explorer
<1>1. e \in ExplorerState /\ Held(e) /\ Quiet(e) /\ e.copying \in Copyings
  BY DEF Explores, Explored, ExplorerState, Copyings
<1>2. Alive(e) \/ (e.active = Nowhere /\ e.pending = Nowhere)
  BY <1>1 DEF Quiet, Alive
<1>3. ASSUME NEW v \in {"own", "shared", "writing"}, NEW r \in Groups \union {NoGroup}, r \in {g, e.retained},
             NEW t, t = [[e EXCEPT !.copying[g] = v] EXCEPT !.retained = r]
      PROVE  Explores(t)
  <2> DEFINE c == [e.copying EXCEPT ![g] = v]
             a == [e EXCEPT !.copying = c]
             u == [a EXCEPT !.retained = r]
  <2>1. c \in Copyings /\ c[g] = v /\ \A x \in Groups : e.copying[x] # "none" => c[x] # "none"
    BY <1>1 DEF Copyings
  <2>2. t = u
    BY <1>3
  <2> HIDE DEF c
  <2>3. RestKept(a, e) /\ a.active = e.active /\ a.pending = e.pending /\ a.retained = e.retained /\ a.copying = c
    BY <1>1, <2>1, CopyingSet
  <2> HIDE DEF a
  <2>4. RestKept(u, a) /\ u.active = a.active /\ u.pending = a.pending /\ u.retained = r /\ u.copying = a.copying
    BY <1>3, <2>3, RetainedSet DEF RestKept
  <2> HIDE DEF u
  <2>5. RestKept(u, e)
    BY <2>3, <2>4, RestTrans
  <2>6. Held(u)
    BY <1>1, <1>3, <2>1, <2>3, <2>4, ExplorerAssumption DEF Held
  <2>7. Explores(u)
    BY <1>2, <2>3, <2>4, <2>5, <2>6, RestExplores
  <2> QED
    BY <2>2, <2>7
<1>4. ASSUME NEW v \in {"shared", "writing"}, NEW t, t = [e EXCEPT !.copying[g] = v]
      PROVE  Explores(t)
  <2> DEFINE c == [e.copying EXCEPT ![g] = v]
             a == [e EXCEPT !.copying = c]
  <2>1. c \in Copyings /\ c[g] = v /\ \A x \in Groups : e.copying[x] # "none" => c[x] # "none"
    BY <1>1 DEF Copyings
  <2>2. t = a
    BY <1>4
  <2> HIDE DEF c
  <2>3. RestKept(a, e) /\ a.active = e.active /\ a.pending = e.pending /\ a.retained = e.retained /\ a.copying = c
    BY <1>1, <2>1, CopyingSet
  <2> HIDE DEF a
  <2>4. e.retained \in Groups \union {NoGroup}
    BY <1>1 DEF ExplorerState
  <2>5. Held(a)
    BY <1>1, <2>1, <2>3, <2>4 DEF Held
  <2>6. Explores(a)
    BY <1>2, <2>3, <2>5, RestExplores
  <2> QED
    BY <2>2, <2>6
<1>5. Explores(ends_copy(e, g))
  <2> DEFINE t == ends_copy(e, g)
             c == [e.copying EXCEPT ![g] = "none"]
             r == IF e.retained = g THEN NoGroup ELSE e.retained
  <2>1. RestKept(t, e) /\ t.active = e.active /\ t.pending = e.pending /\ t.copying = c /\ t.retained = r
    BY <1>1, CopyEnds
  <2>2. r # NoGroup => r = e.retained /\ r # g /\ r \in Groups
    BY <1>1 DEF ExplorerState
  <2>3. \A x \in Groups : x # g => c[x] = e.copying[x]
    BY <1>1 DEF Copyings
  <2> HIDE DEF t, c, r
  <2>4. Held(t)
    BY <1>1, <2>1, <2>2, <2>3 DEF Held
  <2>5. Alive(e) \/ (t.active = Nowhere /\ t.pending = Nowhere)
    BY <1>2, <2>1
  <2>6. Explores(t)
    BY <2>1, <2>4, <2>5, RestExplores
  <2> QED
    BY <2>6 DEF t
<1>6. CASE CopyCase(g)
  <2>1. CASE e.retained # g
    <3>1. explorer' = [e EXCEPT !.copying[g] = "own", !.retained = g]
      BY <1>6, <2>1 DEF CopyCase
    <3> QED
      BY <1>3, <3>1
  <2>2. CASE e.retained = g
    <3> DEFINE v == IF e.pending = <<"case", g>> THEN "shared" ELSE "writing"
    <3>1. explorer' = [e EXCEPT !.copying[g] = v] /\ v \in {"shared", "writing"}
      BY <1>6, <2>2 DEF CopyCase
    <3> HIDE DEF v
    <3> QED
      BY <1>4, <3>1
  <2> QED
    BY <2>1, <2>2
<1>7. CASE CopyArrives(g)
  BY <1>4, <1>5, <1>7 DEF CopyArrives
<1>8. CASE CopyWritten(g)
  BY <1>5, <1>8 DEF CopyWritten
<1> QED
  BY <1>6, <1>7, <1>8

LEMMA EvidenceStep ==
  ASSUME Explores(explorer), EvidenceArrives
  PROVE  Explores(explorer')
<1> DEFINE e == explorer
           g == e.pending[2]
           key == e.pending
           a == [e EXCEPT !.pending = Nowhere]
<1>1. e \in ExplorerState /\ Held(e) /\ Quiet(e) /\ e.copying \in Copyings /\ key # Nowhere
  BY DEF Explores, Explored, ExplorerState, Copyings, EvidenceArrives
<1>2. Alive(e) /\ e.active = Nowhere /\ key \in Keys /\ e.retained \in Groups \union {NoGroup}
  BY <1>1 DEF Quiet, Alive, Held, ExplorerState
<1>3. g \in Groups /\ \A r : r # g => <<"case", r>> # key
  BY <1>2 DEF Keys
<1>4. \A r : <<"case", r>> # Nowhere
  <2>1. \A r : <<"case", r>>[1] = "case" /\ Nowhere[1] = "none"
    BY DEF Nowhere
  <2> QED
    BY <2>1
<1>5. \/ explorer' = [a EXCEPT !.active = key, !.copying[g] = IF e.copying[g] = "shared" THEN "writing" ELSE @]
      \/ explorer' = [(IF e.copying[g] = "shared" THEN ends_copy(a, g) ELSE a)
                       EXCEPT !.failed = TRUE, !.retained = IF @ = g THEN NoGroup ELSE @]
  BY DEF EvidenceArrives
<1> DEFINE nowhere == Nowhere
<1>6. nowhere \in Keys \union {Nowhere} /\ key \in Keys \union {Nowhere} /\ nowhere = Nowhere
  BY <1>2
<1>7. a = [e EXCEPT !.pending = nowhere]
  OBVIOUS
<1> HIDE DEF nowhere, key, g, e
<1>8. RestKept(a, e) /\ a.active = e.active /\ a.pending = nowhere /\ a.retained = e.retained /\ a.copying = e.copying
  BY <1>1, <1>6, <1>7, PendingSet
<1> HIDE DEF a
<1>9. a \in ExplorerState
  BY <1>8 DEF RestKept
<1>10. CASE explorer' = [a EXCEPT !.active = key, !.copying[g] = IF e.copying[g] = "shared" THEN "writing" ELSE @]
  <2> DEFINE c == [a.copying EXCEPT ![g] = IF e.copying[g] = "shared" THEN "writing" ELSE @]
             s == [a EXCEPT !.active = key]
             t == [s EXCEPT !.copying = c]
  <2>1. c \in Copyings /\ \A x \in Groups : a.copying[x] # "none" => c[x] # "none"
    BY <1>1, <1>3, <1>8 DEF Copyings
  <2>2. s.copying = a.copying
    BY <1>9 DEF ExplorerState
  <2>3. explorer' = t
    BY <1>10, <2>2
  <2> HIDE DEF c
  <2>4. RestKept(s, a) /\ s.active = key /\ s.pending = a.pending /\ s.retained = a.retained
    BY <1>6, <1>9, ActiveSet
  <2> HIDE DEF s
  <2>5. s \in ExplorerState
    BY <2>4 DEF RestKept
  <2>6. RestKept(t, s) /\ t.active = s.active /\ t.pending = s.pending /\ t.retained = s.retained /\ t.copying = c
    BY <2>1, <2>5, CopyingSet
  <2> HIDE DEF t
  <2>7. RestKept(t, a)
    BY <2>4, <2>6, RestTrans
  <2>8. RestKept(t, e)
    BY <1>8, <2>7, RestTrans
  <2>9. t.active = key /\ t.pending = Nowhere /\ t.retained = e.retained /\ t.copying = c
    BY <1>6, <1>8, <2>4, <2>6
  <2>10. Held(t)
    BY <1>1, <1>2, <1>4, <1>8, <2>1, <2>9 DEF Held, key
  <2>11. Explores(t)
    <3>1. Explores(e)
      BY DEF e
    <3> QED
      BY <1>2, <2>8, <2>10, <3>1, RestExplores
  <2> QED
    BY <2>3, <2>11
<1>11. CASE explorer' = [(IF e.copying[g] = "shared" THEN ends_copy(a, g) ELSE a)
                          EXCEPT !.failed = TRUE, !.retained = IF @ = g THEN NoGroup ELSE @]
  <2> DEFINE k == IF e.copying[g] = "shared" THEN ends_copy(a, g) ELSE a
             s == [k EXCEPT !.failed = TRUE]
             r == IF k.retained = g THEN NoGroup ELSE k.retained
             t == [s EXCEPT !.retained = r]
             c == [a.copying EXCEPT ![g] = "none"]
  <2>1. \A x \in Groups : x # g => c[x] = a.copying[x]
    BY <1>1, <1>8 DEF Copyings
  <2>2. /\ RestKept(ends_copy(a, g), a) /\ ends_copy(a, g).active = a.active /\ ends_copy(a, g).pending = a.pending
        /\ ends_copy(a, g).copying = c
        /\ ends_copy(a, g).retained = IF a.retained = g THEN NoGroup ELSE a.retained
    BY <1>3, <1>9, CopyEnds
  <2>3. RestKept(a, a)
    BY <1>9 DEF RestKept, SamePanel, SameLists, SamePlace
  <2> DEFINE held == k.retained = a.retained \/ k.retained = NoGroup
             kept == \A x \in Groups : x # g => k.copying[x] = a.copying[x]
  <2>4. RestKept(k, a) /\ k.active = a.active /\ k.pending = a.pending
    BY <2>2, <2>3
  <2>5. held /\ kept
    BY <2>1, <2>2
  <2>6. k \in ExplorerState
    BY <2>4 DEF RestKept
  <2>7. s.retained = k.retained
    BY <2>6 DEF ExplorerState
  <2>8. explorer' = t
    BY <1>11, <2>7
  <2> HIDE DEF k
  <2>9. r \in Groups \union {NoGroup} /\ (r # NoGroup => r # g /\ r = a.retained)
    BY <2>5, <2>6 DEF ExplorerState
  <2> HIDE DEF r
  <2>10. RestKept(s, k) /\ s.active = k.active /\ s.pending = k.pending /\ s.copying = k.copying
    <3>1. TRUE \in BOOLEAN
      OBVIOUS
    <3> QED
      BY <2>6, <3>1, FailedSet
  <2> HIDE DEF s
  <2>11. s \in ExplorerState
    BY <2>10 DEF RestKept
  <2>12. RestKept(t, s) /\ t.active = s.active /\ t.pending = s.pending /\ t.retained = r /\ t.copying = s.copying
    BY <2>9, <2>11, RetainedSet
  <2> HIDE DEF t
  <2>13. RestKept(t, k)
    BY <2>10, <2>12, RestTrans
  <2>14. RestKept(t, a)
    BY <2>4, <2>13, RestTrans
  <2>15. RestKept(t, e)
    BY <1>8, <2>14, RestTrans
  <2>16. t.active = Nowhere /\ t.pending = Nowhere /\ t.retained = r /\ t.copying = k.copying
    BY <1>2, <1>6, <1>8, <2>4, <2>10, <2>12
  <2>17. Held(t)
    <3>1. CASE r = NoGroup
      BY <2>16, <3>1 DEF Held
    <3>2. CASE r # NoGroup
      <4>1. r \in Groups /\ r # g /\ r = e.retained
        BY <1>8, <2>9, <3>2
      <4>2. e.copying[r] # "none"
        BY <1>1, <1>2, <1>3, <1>4, <3>2, <4>1 DEF Held, key
      <4>3. t.copying[r] # "none"
        BY <1>8, <2>5, <2>16, <4>1, <4>2
      <4> QED
        BY <2>16, <4>3 DEF Held
    <3> QED
      BY <3>1, <3>2
  <2>18. Explores(t)
    <3>1. Explores(e)
      BY DEF e
    <3> QED
      BY <1>2, <2>15, <2>17, <3>1, RestExplores
  <2> QED
    BY <2>8, <2>18
<1> QED
  BY <1>5, <1>10, <1>11 DEF e, g, key

LEMMA ExplorerBegins ==
  ASSUME ExplorerInit
  PROVE  Explores(explorer)
<1> DEFINE e == explorer
<1>1. PICK place \in Targets \union {Nowhere} :
        e = [panel |-> "importing", live |-> TRUE, disposed |-> FALSE,
             entries |-> <<[target |-> place, marked |-> FALSE]>>, at |-> 1, backs |-> 0,
             category |-> [g \in Groups |-> "closed"], categoryOpen |-> [g \in Groups |-> FALSE],
             suite |-> [g \in Groups |-> "closed"], suiteOpen |-> [g \in Groups |-> FALSE],
             categoryWaits |-> [g \in Groups |-> << >>], suiteWaits |-> [g \in Groups |-> << >>],
             stale |-> 0, active |-> Nowhere, pending |-> Nowhere, failed |-> FALSE,
             retained |-> NoGroup, copying |-> [g \in Groups |-> "none"],
             renderedCases |-> 0, renderedSuites |-> 0]
  BY DEF ExplorerInit
<1> DEFINE first == <<[target |-> place, marked |-> FALSE]>>
           closed == [g \in Groups |-> "closed"]
           shut == [g \in Groups |-> FALSE]
           waits == [g \in Groups |-> << >>]
           copying == [g \in Groups |-> "none"]
<1>2. first \in Seq(Entry) /\ Len(first) = 1
  <2>1. [target |-> place, marked |-> FALSE] \in Entry
    BY DEF Entry
  <2> QED
    BY <2>1
<1>3. closed \in [Groups -> Stages] /\ shut \in [Groups -> BOOLEAN] /\ copying \in Copyings
  BY DEF Stages, Copyings
<1>4. waits \in [Groups -> Seq(Targets)] /\ waits \in [Groups -> Seq(Asks)]
  OBVIOUS
<1>5. \A g \in Groups : closed[g] = "closed" /\ waits[g] = << >>
  OBVIOUS
<1>6. e = [panel |-> "importing", live |-> TRUE, disposed |-> FALSE,
             entries |-> first, at |-> 1, backs |-> 0,
             category |-> closed, categoryOpen |-> shut,
             suite |-> closed, suiteOpen |-> shut,
             categoryWaits |-> waits, suiteWaits |-> waits,
             stale |-> 0, active |-> Nowhere, pending |-> Nowhere, failed |-> FALSE,
             retained |-> NoGroup, copying |-> copying,
             renderedCases |-> 0, renderedSuites |-> 0]
  BY <1>1
<1> HIDE DEF first, closed, shut, waits, copying, e
<1>7. e \in ExplorerState
  BY <1>2, <1>3, <1>4, <1>6 DEF ExplorerState, Copyings
<1>8. /\ e.at = 1 /\ e.entries = first /\ e.category = closed /\ e.suite = closed /\ e.categoryWaits = waits
      /\ e.suiteWaits = waits /\ e.active = Nowhere /\ e.pending = Nowhere /\ e.retained = NoGroup
      /\ e.renderedCases = 0 /\ e.renderedSuites = 0
  BY <1>6
<1>9. Tallied(e)
  <2>1. {g \in Groups : closed[g] = "ready"} = {}
    BY <1>5
  <2>2. Cardinality({}) = 0
    BY FS_EmptySet
  <2> QED
    BY <1>8, <2>1, <2>2 DEF Tallied
<1>10. Awaited(e)
  BY <1>5, <1>8 DEF Awaited
<1>11. Held(e) /\ Quiet(e)
  BY <1>5, <1>8 DEF Held, Quiet
<1>12. e.at \in 1..Len(e.entries)
  <2>1. e.at = 1 /\ Len(e.entries) = 1
    BY <1>2, <1>8
  <2>2. \A i, n : i = 1 /\ n = 1 => i \in 1..n
    OBVIOUS
  <2> QED
    BY <2>1, <2>2
<1> QED
  BY <1>7, <1>9, <1>10, <1>11, <1>12 DEF Explores, Explored, e

LEMMA ExplorerStep ==
  ASSUME Explores(explorer), [ExplorerNext]_explorer
  PROVE  Explores(explorer')
<1>1. CASE explorer' = explorer
  BY <1>1
<1>2. CASE PanelImported \/ IndexLoaded \/ IndexFailed \/ activate_tests \/ deactivate_tests
  BY <1>2, PanelSteps
<1>3. CASE dispose_explorer
  BY <1>3, DisposalStep
<1>4. CASE close_from_control \/ \E step \in {-1, 1} : Traverse(step)
  BY <1>4, HistorySteps
<1>5. CASE EvidenceArrives
  BY <1>5, EvidenceStep
<1>6. CASE StaleCategoryArrives
  BY <1>6, StaleStep
<1>7. CASE \E g \in Groups : ToggleCategory(g) \/ ToggleSuite(g) \/ ClickSuite(g) \/ ViewCase(g)
  BY <1>7, ListSteps
<1>8. CASE \E g \in Groups : CategoryArrives(g)
  BY <1>8, CategoryStep
<1>9. CASE \E g \in Groups : SuiteArrives(g)
  BY <1>9, SuiteStep
<1>10. CASE \E g \in Groups : CopyCase(g) \/ CopyArrives(g) \/ CopyWritten(g)
  BY <1>10, CopySteps
<1> QED
  BY <1>1, <1>2, <1>3, <1>4, <1>5, <1>6, <1>7, <1>8, <1>9, <1>10 DEF ExplorerNext

LEMMA ExplorerSound ==
  ASSUME Explores(explorer)
  PROVE  OneDetailRetained
BY DEF Explores, Explored, Tallied, Awaited, Held, Quiet, OneDetailRetained

-----------------------------------------------------------------------------
(* The color picker.                                                       *)

Shades == {value \in [Channels -> Int] : \A k \in Channels : value[k] \in 0..Highest[k]}

\* What the picker is when it has shown its store.
Worn(token, path) ==
  [activePath |-> path, token |-> token, css |-> [target \in TargetPaths |-> oklchToCss(token[target])],
   current |-> oklchToCss(token[path]), inputs |-> token[path],
   rows |-> [target \in TargetPaths |-> oklchToCss(token[target])],
   resetBtn |-> Cardinality({target \in TargetPaths :
                               oklchToCss(token[target]) # oklchToCss(stateOrDefault(target))}),
   disposed |-> FALSE]
PutAway(token, path) ==
  [Worn(token, path) EXCEPT !.disposed = TRUE, !.current = configured("none"),
                            !.css = [target \in TargetPaths |-> configured(target)]]
Picked(k) == \E token \in [TargetPaths -> Shades], path \in TargetPaths : k \in {Worn(token, path), PutAway(token, path)}

LEMMA Bounds ==
  /\ Highest["l"] = 10000 /\ Highest["c"] = 10000 /\ Highest["h"] = 36000 /\ Highest["a"] = 1000
BY DEF Highest

LEMMA Between == ASSUME NEW x \in Int, NEW hi \in Int, 0 <= x, x <= hi PROVE x \in 0..hi
OBVIOUS

LEMMA RoundsWithin ==
  ASSUME NEW n \in Int, 0 <= n
  PROVE  /\ round(n) \in Int /\ 0 <= round(n)
         /\ n <= 1000 => round(n) <= 1000
         /\ n <= 10000 => round(n) <= 10000
         /\ n <= 36000 => round(n) <= 36000
<1> DEFINE q == (n + 5) \div 10
<1>1. q \in Int /\ 0 <= q /\ q * 10 <= n + 5
  OBVIOUS
<1>2. round(n) = q * 10
  BY DEF round
<1> HIDE DEF q
<1>3. q * 10 \in Int /\ 0 <= q * 10
  BY <1>1
<1>4. n <= 1000 => q * 10 <= 1000
  BY <1>1
<1>5. n <= 10000 => q * 10 <= 10000
  BY <1>1
<1>6. n <= 36000 => q * 10 <= 36000
  BY <1>1
<1> QED
  BY <1>2, <1>3, <1>4, <1>5, <1>6

LEMMA Normal ==
  ASSUME NEW value \in [Channels -> Int]
  PROVE  normalizeOklch(value) \in Shades
<1> DEFINE t == [k \in Channels |-> IF k = "h" THEN round(value[k] % Highest["h"])
                                   ELSE round(clamp(value[k], 0, Highest[k]))]
<1>3. ASSUME NEW k \in Channels PROVE t[k] \in 0..Highest[k] /\ Highest[k] \in Int
  <2>1. CASE k = "h"
    <3> DEFINE n == value["h"] % 36000
    <3>1. n \in Int /\ 0 <= n /\ n <= 36000
      BY DEF Channels
    <3>2. t[k] = round(n) /\ Highest[k] = 36000
      BY <2>1, Bounds
    <3> HIDE DEF t, n
    <3>3. round(n) \in Int /\ 0 <= round(n) /\ round(n) <= 36000
      BY <3>1, RoundsWithin
    <3> DEFINE x == round(n)
               hi == Highest[k]
    <3>4. x \in Int /\ 0 <= x /\ t[k] = x
      BY <3>2, <3>3
    <3>5. x <= 36000 /\ hi = 36000
      BY <3>2, <3>3
    <3> HIDE DEF x, hi
    <3>6. hi \in Int /\ x <= hi
      BY <3>4, <3>5
    <3>7. x \in 0..hi
      BY <3>4, <3>6, Between
    <3> QED
      BY <3>4, <3>6, <3>7 DEF hi
  <2>2. CASE k = "a"
    <3> DEFINE n == clamp(value["a"], 0, 1000)
    <3>1. n \in Int /\ 0 <= n /\ n <= 1000
      BY DEF Channels, clamp
    <3>2. t[k] = round(n) /\ Highest[k] = 1000
      BY <2>2, Bounds
    <3> HIDE DEF t, n
    <3>3. round(n) \in Int /\ 0 <= round(n) /\ round(n) <= 1000
      BY <3>1, RoundsWithin
    <3> DEFINE x == round(n)
               hi == Highest[k]
    <3>4. x \in Int /\ 0 <= x /\ t[k] = x
      BY <3>2, <3>3
    <3>5. x <= 1000 /\ hi = 1000
      BY <3>2, <3>3
    <3> HIDE DEF x, hi
    <3>6. hi \in Int /\ x <= hi
      BY <3>4, <3>5
    <3>7. x \in 0..hi
      BY <3>4, <3>6, Between
    <3> QED
      BY <3>4, <3>6, <3>7 DEF hi
  <2>3. CASE k \in {"l", "c"}
    <3> DEFINE n == clamp(value[k], 0, 10000)
    <3>1. n \in Int /\ 0 <= n /\ n <= 10000
      BY DEF clamp
    <3>2. t[k] = round(n) /\ Highest[k] = 10000
      BY <2>3, Bounds
    <3> HIDE DEF t, n
    <3>3. round(n) \in Int /\ 0 <= round(n) /\ round(n) <= 10000
      BY <3>1, RoundsWithin
    <3> DEFINE x == round(n)
               hi == Highest[k]
    <3>4. x \in Int /\ 0 <= x /\ t[k] = x
      BY <3>2, <3>3
    <3>5. x <= 10000 /\ hi = 10000
      BY <3>2, <3>3
    <3> HIDE DEF x, hi
    <3>6. hi \in Int /\ x <= hi
      BY <3>4, <3>5
    <3>7. x \in 0..hi
      BY <3>4, <3>6, Between
    <3> QED
      BY <3>4, <3>6, <3>7 DEF hi
  <2> QED
    BY <2>1, <2>2, <2>3 DEF Channels
<1>4. t \in [Channels -> Int]
  <2>1. \A k \in Channels : t[k] \in Int
    BY <1>3
  <2>2. t = [k \in Channels |-> t[k]]
    OBVIOUS
  <2> HIDE DEF t
  <2> QED
    BY <2>1, <2>2
<1>5. t = normalizeOklch(value)
  BY DEF normalizeOklch
<1> HIDE DEF t
<1> QED
  BY <1>3, <1>4, <1>5 DEF Shades

LEMMA Configures ==
  ASSUME NEW path \in TargetPaths
  PROVE  stateOrDefault(path) \in Shades
<1>1. CASE Initial[path] = {}
  <2> DEFINE d == OKLCH_DEFAULT_STATE
  <2>1. d["l"] = 8000 /\ d["c"] = 0 /\ d["h"] = 0 /\ d["a"] = 1000
    BY DEF OKLCH_DEFAULT_STATE
  <2>2. d \in [Channels -> Int]
    BY DEF OKLCH_DEFAULT_STATE, Channels
  <2> HIDE DEF d
  <2>3. \A k \in Channels : d[k] \in 0..Highest[k]
    BY <2>1, Bounds DEF Channels
  <2>4. stateOrDefault(path) = d
    BY <1>1 DEF stateOrDefault, d
  <2> QED
    BY <2>2, <2>3, <2>4 DEF Shades
<1>2. CASE Initial[path] # {}
  <2> DEFINE parsed == CHOOSE value \in Initial[path] : TRUE
             lighter == [parsed EXCEPT !["l"] = normalizeLightness(parsed["l"])]
  <2>1. parsed \in [Channels -> Int]
    BY <1>2, PickerAssumption
  <2>2. stateOrDefault(path) = normalizeOklch(lighter)
    BY <1>2 DEF stateOrDefault
  <2> HIDE DEF parsed
  <2>3. normalizeLightness(parsed["l"]) \in Int
    BY <2>1 DEF normalizeLightness, Channels
  <2>4. lighter \in [Channels -> Int]
    BY <2>1, <2>3
  <2> HIDE DEF lighter
  <2> QED
    BY <2>2, <2>4, Normal
<1> QED
  BY <1>1, <1>2

\* The picker's record, by its fields.
Picker(path, token, css, current, inputs, rows, count, disposed) ==
  [activePath |-> path, token |-> token, css |-> css, current |-> current, inputs |-> inputs,
   rows |-> rows, resetBtn |-> count, disposed |-> disposed]

LEMMA PickerFields ==
  ASSUME NEW path, NEW token, NEW css, NEW current, NEW inputs, NEW rows, NEW count, NEW disposed, NEW v,
         NEW k, k = Picker(path, token, css, current, inputs, rows, count, disposed)
  PROVE  /\ [k EXCEPT !.token = v] = Picker(path, v, css, current, inputs, rows, count, disposed)
         /\ [k EXCEPT !.css = v] = Picker(path, token, v, current, inputs, rows, count, disposed)
         /\ k.token = token /\ k.activePath = path /\ k.css = css
BY DEF Picker

LEMMA PickerRenders ==
  ASSUME NEW path, NEW token, NEW css, NEW current, NEW inputs, NEW rows, NEW count, NEW disposed,
         NEW k, k = Picker(path, token, css, current, inputs, rows, count, disposed)
  PROVE  render_picker(k) =
           Picker(path, token, css, oklchToCss(token[path]), token[path],
                  [target \in TargetPaths |-> oklchToCss(token[target])],
                  Cardinality({target \in TargetPaths :
                                 oklchToCss(token[target]) # oklchToCss(stateOrDefault(target))}), disposed)
<1> DEFINE color == oklchToCss(token[path])
           state == token[path]
           colors == [target \in TargetPaths |-> oklchToCss(token[target])]
           changed == Cardinality({target \in TargetPaths :
                                 oklchToCss(token[target]) # oklchToCss(stateOrDefault(target))})
<1>1. k.token = token /\ k.activePath = path
  BY DEF Picker
<1>2. render_picker(k) =
        [[[[k EXCEPT !.current = color] EXCEPT !.inputs = state] EXCEPT !.rows = colors] EXCEPT !.resetBtn = changed]
  BY <1>1 DEF render_picker, isTokenChanged
<1> HIDE DEF color, state, colors, changed
<1> DEFINE k1 == [k EXCEPT !.current = color]
           k2 == [k1 EXCEPT !.inputs = state]
           k3 == [k2 EXCEPT !.rows = colors]
           k4 == [k3 EXCEPT !.resetBtn = changed]
<1>3. k1 = Picker(path, token, css, color, inputs, rows, count, disposed)
  BY DEF Picker
<1> HIDE DEF k1
<1>4. k2 = Picker(path, token, css, color, state, rows, count, disposed)
  BY <1>3 DEF Picker
<1> HIDE DEF k2
<1>5. k3 = Picker(path, token, css, color, state, colors, count, disposed)
  BY <1>4 DEF Picker
<1> HIDE DEF k3
<1>6. k4 = Picker(path, token, css, color, state, colors, changed, disposed)
  BY <1>5 DEF Picker
<1> QED
  BY <1>2, <1>6 DEF k1, k2, k3, color, state, colors, changed

LEMMA Watched ==
  ASSUME NEW path, NEW token, NEW css, NEW current, NEW inputs, NEW rows, NEW count, NEW disposed,
         NEW k, k = Picker(path, token, css, current, inputs, rows, count, disposed)
  PROVE  watched(k) =
           Picker(path, token, [target \in TargetPaths |-> oklchToCss(token[target])],
                  oklchToCss(token[path]), token[path],
                  [target \in TargetPaths |-> oklchToCss(token[target])],
                  Cardinality({target \in TargetPaths :
                                 oklchToCss(token[target]) # oklchToCss(stateOrDefault(target))}), disposed)
<1> DEFINE colors == [target \in TargetPaths |-> oklchToCss(token[target])]
           t == [k EXCEPT !.css = colors]
<1>1. k.token = token
  BY DEF Picker
<1>2. projectTokens(k) = t
  BY <1>1 DEF projectTokens
<1> HIDE DEF colors
<1>3. t = Picker(path, token, colors, current, inputs, rows, count, disposed)
  BY DEF Picker
<1> HIDE DEF t
<1>4. render_picker(t) =
        Picker(path, token, colors, oklchToCss(token[path]), token[path],
               [target \in TargetPaths |-> oklchToCss(token[target])],
               Cardinality({target \in TargetPaths :
                              oklchToCss(token[target]) # oklchToCss(stateOrDefault(target))}), disposed)
  BY <1>3, PickerRenders
<1> QED
  BY <1>2, <1>4 DEF watched, colors

\* The store of tokens changes while the picker is open.
LEMMA Restored ==
  ASSUME NEW token, NEW path, NEW turned
  PROVE  watched([Worn(token, path) EXCEPT !.token = turned]) = Worn(turned, path)
<1> DEFINE css == [target \in TargetPaths |-> oklchToCss(token[target])]
           current == oklchToCss(token[path])
           inputs == token[path]
           count == Cardinality({target \in TargetPaths :
                               oklchToCss(token[target]) # oklchToCss(stateOrDefault(target))})
           closed == FALSE
           k == Worn(token, path)
           t == [k EXCEPT !.token = turned]
<1>1. k = Picker(path, token, css, current, inputs, css, count, closed)
  BY DEF Worn, Picker
<1> HIDE DEF css, current, inputs, count, k, closed
<1>2. t = Picker(path, turned, css, current, inputs, css, count, closed)
  BY <1>1, PickerFields
<1> HIDE DEF t
<1>3. watched(t) =
        Picker(path, turned, [target \in TargetPaths |-> oklchToCss(turned[target])],
               oklchToCss(turned[path]), turned[path],
               [target \in TargetPaths |-> oklchToCss(turned[target])],
               Cardinality({target \in TargetPaths :
                              oklchToCss(turned[target]) # oklchToCss(stateOrDefault(target))}), closed)
  BY <1>2, Watched
<1> QED
  BY <1>3 DEF t, k, Worn, Picker, closed

LEMMA PickerBegins == PickerInit => Picked(picker)
<1> SUFFICES ASSUME PickerInit PROVE Picked(picker)
  OBVIOUS
<1> DEFINE token == [target \in TargetPaths |-> stateOrDefault(target)]
           path == Paths[1]
<1>1. path \in TargetPaths
  BY PickerAssumption DEF TargetPaths
<1>2. token \in [TargetPaths -> Shades]
  BY Configures
<1>3. picker = watched([activePath |-> path, token |-> token,
                        css |-> [target \in TargetPaths |-> configured(target)], current |-> configured("none"),
                        inputs |-> OKLCH_DEFAULT_STATE, rows |-> << >>, resetBtn |-> 0, disposed |-> FALSE])
  BY DEF PickerInit
<1> HIDE DEF token, path
<1>4. picker = Worn(token, path)
  BY <1>3 DEF watched, render_picker, projectTokens, isTokenChanged, Worn
<1> QED
  BY <1>1, <1>2, <1>4 DEF Picked

LEMMA PickerStep == Picked(picker) /\ [PickerNext]_picker => Picked(picker')
<1> SUFFICES ASSUME Picked(picker), [PickerNext]_picker PROVE Picked(picker')
  OBVIOUS
<1>1. CASE picker' = picker
  BY <1>1
<1>2. CASE PickerNext
  <2>1. PICK token \in [TargetPaths -> Shades], path \in TargetPaths : picker \in {Worn(token, path), PutAway(token, path)}
    BY DEF Picked
  <2>2. ~picker.disposed
    BY <1>2 DEF PickerNext, onInput, selectTarget, resetTokenValues, dispose_picker
  <2>3. picker = Worn(token, path)
    BY <2>1, <2>2 DEF PutAway, Worn
  <2>4. picker.token = token /\ picker.activePath = path
    BY <2>3 DEF Worn
  <2>5. ASSUME NEW channel \in Channels, NEW n \in SliderValues[channel], onInput(channel, n) PROVE Picked(picker')
    <3> DEFINE value == normalizeOklch([token[path] EXCEPT ![channel] = n])
               turned == [token EXCEPT ![path] = value]
               k == [picker EXCEPT !.token = turned]
    <3>1. [token[path] EXCEPT ![channel] = n] \in [Channels -> Int]
      <4>1. token[path] \in [Channels -> Int] /\ n \in Int
        BY PickerAssumption DEF Shades
      <4> QED
        BY <4>1
    <3>2. value \in Shades
      BY <3>1, Normal
    <3>3. picker' = watched(k)
      BY <2>4, <2>5 DEF onInput, updateOklchState
    <3> HIDE DEF value
    <3>4. turned \in [TargetPaths -> Shades]
      BY <3>2
    <3> HIDE DEF turned
    <3>5. picker' = Worn(turned, path)
      BY <2>3, <3>3, Restored
    <3> QED
      BY <3>4, <3>5 DEF Picked
  <2>6. ASSUME NEW other \in TargetPaths, selectTarget(other) PROVE Picked(picker')
    <3>1. picker' = render_picker([picker EXCEPT !.activePath = other])
      BY <2>6 DEF selectTarget
    <3>2. picker' = Worn(token, other)
      BY <2>3, <3>1 DEF render_picker, isTokenChanged, Worn
    <3> QED
      BY <3>2 DEF Picked
  <2>7. CASE resetTokenValues
    <3> DEFINE reset == [target \in TargetPaths |-> stateOrDefault(target)]
               k == [picker EXCEPT !.token = reset]
    <3>1. picker' = watched(k)
      BY <2>7 DEF resetTokenValues
    <3>2. reset \in [TargetPaths -> Shades]
      BY Configures
    <3> HIDE DEF reset
    <3>3. picker' = Worn(reset, path)
      BY <2>3, <3>1, Restored
    <3> QED
      BY <3>2, <3>3 DEF Picked
  <2>8. CASE dispose_picker
    <3>1. picker' = PutAway(token, path)
      BY <2>3, <2>8 DEF dispose_picker, PutAway
    <3> QED
      BY <3>1 DEF Picked
  <2> QED
    BY <1>2, <2>5, <2>6, <2>7, <2>8 DEF PickerNext
<1> QED
  BY <1>1, <1>2

LEMMA PickerSound == Picked(picker) => ColorsWorn
<1> SUFFICES ASSUME Picked(picker) PROVE ColorsWorn
  OBVIOUS
<1>1. PICK token \in [TargetPaths -> Shades], path \in TargetPaths : picker \in {Worn(token, path), PutAway(token, path)}
  BY DEF Picked
<1> DEFINE colors == [target \in TargetPaths |-> oklchToCss(token[target])]
           changed == {target \in TargetPaths : oklchToCss(token[target]) # oklchToCss(stateOrDefault(target))}
<1>2. picker.token = token
  <2>1. Worn(token, path).token = token /\ PutAway(token, path).token = token
    BY DEF PutAway, Worn
  <2> QED
    BY <1>1, <2>1
<1>3. \A target \in TargetPaths : \A k \in Channels : picker.token[target][k] \in 0..Highest[k]
  BY <1>2 DEF Shades
<1>4. picker.disposed => picker.css = [target \in TargetPaths |-> configured(target)]
  <2>1. ~Worn(token, path).disposed
    BY DEF Worn
  <2>2. PutAway(token, path).css = [target \in TargetPaths |-> configured(target)]
    BY DEF PutAway, Worn
  <2> QED
    BY <1>1, <2>1, <2>2
<1>5. ASSUME ~picker.disposed
      PROVE  /\ picker.css = picker.rows /\ picker.current = picker.css[picker.activePath]
             /\ normalizeOklch(picker.inputs) = picker.current.css
             /\ picker.resetBtn = 0 <=>
                  \A target \in TargetPaths : picker.css[target] = oklchToCss(stateOrDefault(target))
  <2>1. picker = Worn(token, path)
    BY <1>1, <1>5 DEF PutAway, Worn
  <2>2. /\ picker.css = colors /\ picker.rows = colors /\ picker.activePath = path
        /\ picker.current = oklchToCss(token[path]) /\ picker.inputs = token[path]
        /\ picker.resetBtn = Cardinality(changed)
    BY <2>1 DEF Worn
  <2>3. oklchToCss(token[path]).css = normalizeOklch(token[path])
    BY DEF oklchToCss
  <2>4. IsFiniteSet(changed)
    <3> DEFINE all == [i \in 1..Len(Paths) |-> Paths[i]]
    <3>1. IsFiniteSet(1..Len(Paths))
      BY FS_Interval, PickerAssumption
    <3>2. all \in [1..Len(Paths) -> TargetPaths] /\ \A target \in TargetPaths : \E i \in 1..Len(Paths) : all[i] = target
      BY DEF TargetPaths
    <3> HIDE DEF all
    <3>3. all \in Surjection(1..Len(Paths), TargetPaths)
      BY <3>2 DEF Surjection
    <3>4. IsFiniteSet(TargetPaths)
      BY <3>1, <3>3, FS_Surjection
    <3>5. changed \subseteq TargetPaths
      OBVIOUS
    <3> HIDE DEF changed
    <3> QED
      BY <3>4, <3>5, FS_Subset
  <2>5. Cardinality(changed) = 0 <=> changed = {}
    <3> HIDE DEF changed
    <3> QED
      BY <2>4, FS_EmptySet
  <2>6. changed = {} <=> \A target \in TargetPaths : colors[target] = oklchToCss(stateOrDefault(target))
    OBVIOUS
  <2>7. colors[path] = oklchToCss(token[path])
    OBVIOUS
  <2> HIDE DEF colors, changed
  <2> QED
    BY <2>2, <2>3, <2>5, <2>6, <2>7
<1> QED
  BY <1>3, <1>4, <1>5 DEF ColorsWorn

-----------------------------------------------------------------------------
(* The build panel.                                                        *)

BuildState ==
  [src : Texts, touched : BOOLEAN, activeTab : {"render", "html"},
   status : {"idle", "typing", "valid", "invalid"},
   preview : Texts, htmlBox : Texts, clipboard : Texts]
Built(b) ==
  /\ b \in BuildState
  /\ b.status = "valid" => b.preview = b.src /\ b.htmlBox = b.src /\ b.src \in Valid
  /\ b.status # "valid" => b.src \notin Valid
  /\ b.preview # b.htmlBox => b.preview = Empty
  /\ {b.preview, b.htmlBox} \subseteq Valid \union {Empty}

LEMMA BuildRenders ==
  ASSUME NEW k \in BuildState, {k.preview, k.htmlBox} \subseteq Valid \union {Empty},
         k.preview # k.htmlBox => k.preview = Empty
  PROVE  Built(render_build(k))
<1> DEFINE status == IF ~k.touched THEN "idle" ELSE IF k.src = Empty THEN "invalid" ELSE "typing"
           told == [k EXCEPT !.status = status]
<1>1. render_build(k) = IF k.src = Empty THEN told ELSE try(told, k.src)
  BY DEF render_build, setStatus
<1>2. told \in BuildState
  BY DEF BuildState
<1>3. told.src = k.src /\ told.preview = k.preview /\ told.htmlBox = k.htmlBox /\ told.status # "valid"
  BY DEF BuildState
<1> HIDE DEF told
<1>4. Empty \notin Valid /\ k.src \in Texts
  BY BuildAssumption DEF BuildState
<1>5. CASE k.src = Empty
  BY <1>1, <1>2, <1>3, <1>4, <1>5 DEF Built
<1>6. CASE k.src # Empty /\ k.src \in Valid
  <2> DEFINE a == [told EXCEPT !.preview = k.src, !.htmlBox = k.src]
             b == [a EXCEPT !.status = "valid"]
  <2>1. render_build(k) = b
    BY <1>1, <1>6 DEF try, setStatus
  <2>2. a \in BuildState /\ a.src = k.src /\ a.preview = k.src /\ a.htmlBox = k.src
    BY <1>2, <1>3, <1>4 DEF BuildState
  <2> HIDE DEF a
  <2>3. b \in BuildState /\ b.src = a.src /\ b.preview = a.preview /\ b.htmlBox = a.htmlBox /\ b.status = "valid"
    BY <2>2 DEF BuildState
  <2> HIDE DEF b
  <2> QED
    BY <1>6, <2>1, <2>2, <2>3 DEF Built
<1>7. CASE k.src # Empty /\ k.src \notin Valid
  <2> DEFINE a == IF k.src \in Ungrown THEN [told EXCEPT !.preview = Empty] ELSE told
             b == [a EXCEPT !.status = "invalid"]
  <2>1. render_build(k) = b
    BY <1>1, <1>7 DEF try, setStatus
  <2>2. Empty \in Texts
    BY DEF Texts
  <2>3. a \in BuildState /\ a.src = k.src /\ a.preview \in {Empty, k.preview} /\ a.htmlBox = k.htmlBox
    BY <1>2, <1>3, <2>2 DEF BuildState
  <2> HIDE DEF a
  <2>4. b \in BuildState /\ b.src = a.src /\ b.preview = a.preview /\ b.htmlBox = a.htmlBox /\ b.status = "invalid"
    BY <2>3 DEF BuildState
  <2> HIDE DEF b
  <2> QED
    BY <1>7, <2>1, <2>3, <2>4 DEF Built
<1> QED
  BY <1>5, <1>6, <1>7

LEMMA BuildBegins == BuildInit => Built(build)
<1> SUFFICES ASSUME BuildInit PROVE Built(build)
  OBVIOUS
<1>1. PICK seed \in Texts :
        build = render_build([src |-> seed, touched |-> FALSE, activeTab |-> "render", status |-> "idle",
                              preview |-> Empty, htmlBox |-> Empty, clipboard |-> Empty])
  BY DEF BuildInit
<1> DEFINE k == [src |-> seed, touched |-> FALSE, activeTab |-> "render", status |-> "idle",
                 preview |-> Empty, htmlBox |-> Empty, clipboard |-> Empty]
<1>2. k \in BuildState /\ k.preview = Empty /\ k.htmlBox = Empty
  BY DEF BuildState, Texts
<1>3. build = render_build(k)
  BY <1>1
<1> HIDE DEF k
<1> QED
  BY <1>2, <1>3, BuildRenders

LEMMA BuildStep == Built(build) /\ [BuildNext]_build => Built(build')
<1> SUFFICES ASSUME Built(build), [BuildNext]_build PROVE Built(build')
  OBVIOUS
<1>1. build \in BuildState /\ Built(build) /\ Empty \in Texts
  BY DEF Built, Texts
<1>2. CASE build' = build
  BY <1>2 DEF Built
<1>3. ASSUME NEW text \in Texts, onBuildInput(text) PROVE Built(build')
  <2> DEFINE k == [build EXCEPT !.src = text, !.touched = TRUE]
  <2>1. k \in BuildState /\ k.preview = build.preview /\ k.htmlBox = build.htmlBox
    BY <1>1 DEF BuildState
  <2>2. build' = render_build(k)
    BY <1>3 DEF onBuildInput
  <2> HIDE DEF k
  <2> QED
    BY <1>1, <2>1, <2>2, BuildRenders DEF Built
<1>4. CASE clear
  <2> DEFINE a == [build EXCEPT !.touched = FALSE, !.src = Empty]
             b == [a EXCEPT !.preview = Empty, !.htmlBox = Empty]
             c == [b EXCEPT !.status = "idle"]
  <2>1. a \in BuildState
    BY <1>1 DEF BuildState
  <2>2. a.src = Empty
    BY <1>1 DEF BuildState
  <2>3. build' = c
    BY <1>4 DEF clear, setStatus
  <2> HIDE DEF a
  <2>4. b \in BuildState /\ b.src = Empty /\ b.preview = Empty /\ b.htmlBox = Empty
    BY <1>1, <2>1, <2>2 DEF BuildState
  <2> HIDE DEF b
  <2>5. c \in BuildState /\ c.src = Empty /\ c.preview = Empty /\ c.htmlBox = Empty /\ c.status = "idle"
    BY <2>4 DEF BuildState
  <2> QED
    BY <2>3, <2>5, BuildAssumption DEF Built
<1>5. CASE toggleTab
  <2> DEFINE tab == IF build.activeTab = "render" THEN "html" ELSE "render"
  <2>1. build' = [build EXCEPT !.activeTab = tab] /\ tab \in {"render", "html"}
    BY <1>5 DEF toggleTab
  <2> HIDE DEF tab
  <2>2. build' \in BuildState /\ build'.src = build.src /\ build'.preview = build.preview
        /\ build'.htmlBox = build.htmlBox /\ build'.status = build.status
    BY <1>1, <2>1 DEF BuildState
  <2> QED
    BY <1>1, <2>2 DEF Built
<1>6. CASE copy
  <2> DEFINE text == IF build.activeTab = "html" THEN build.htmlBox ELSE build.src
  <2>1. build' = [build EXCEPT !.clipboard = text] /\ text \in Texts
    BY <1>1, <1>6 DEF copy, BuildState
  <2> HIDE DEF text
  <2>2. build' \in BuildState /\ build'.src = build.src /\ build'.preview = build.preview
        /\ build'.htmlBox = build.htmlBox /\ build'.status = build.status
    BY <1>1, <2>1 DEF BuildState
  <2> QED
    BY <1>1, <2>2 DEF Built
<1> QED
  BY <1>2, <1>3, <1>4, <1>5, <1>6 DEF BuildNext
LEMMA BuildSound == Built(build) => OutputHonest
BY DEF Built, OutputHonest

-----------------------------------------------------------------------------
(* The point widget. What is under a position is finite and in a strict    *)
(* order, so that there is a list of it.                                   *)

LEMMA Ranked ==
  ASSUME NEW S, IsFiniteSet(S), NEW less \in SUBSET (S \X S),
         \A x \in S : <<x, x>> \notin less,
         \A x, y, z \in S : <<x, y>> \in less /\ <<y, z>> \in less => <<x, z>> \in less,
         \A x, y \in S : x = y \/ <<x, y>> \in less \/ <<y, x>> \in less
  PROVE  \E s \in [1..Cardinality(S) -> S] :
           \A i, j \in 1..Cardinality(S) : i < j => <<s[i], s[j]>> \in less
<1> DEFINE n == Cardinality(S)
           below(x) == {y \in S : <<y, x>> \in less}
           rank == [x \in S |-> Cardinality(below(x)) + 1]
<1>1. n \in Nat
  BY FS_CardinalityType
<1>2. ASSUME NEW x \in S PROVE IsFiniteSet(below(x)) /\ x \notin below(x) /\ Cardinality(below(x)) \in Nat
  <2>1. below(x) \subseteq S /\ x \notin below(x)
    OBVIOUS
  <2> HIDE DEF below
  <2>2. IsFiniteSet(below(x))
    BY <2>1, FS_Subset
  <2> QED
    BY <2>1, <2>2, FS_CardinalityType
<1>3. ASSUME NEW T, T \subseteq S, NEW x \in S, x \notin T PROVE Cardinality(T) + 1 <= n
  <2>1. IsFiniteSet(T)
    BY <1>3, FS_Subset
  <2>2. IsFiniteSet(T \union {x}) /\ Cardinality(T \union {x}) = Cardinality(T) + 1
    BY <1>3, <2>1, FS_AddElement
  <2>3. T \union {x} \subseteq S
    BY <1>3
  <2> HIDE DEF n
  <2>4. Cardinality(T \union {x}) <= Cardinality(S)
    BY <2>3, FS_Subset
  <2> QED
    BY <2>2, <2>4 DEF n
<1>4. rank \in [S -> 1..n]
  <2>1. ASSUME NEW x \in S PROVE Cardinality(below(x)) + 1 \in 1..n
    <3>1. below(x) \subseteq S /\ x \notin below(x) /\ Cardinality(below(x)) \in Nat
      BY <1>2
    <3> HIDE DEF below, n
    <3>2. Cardinality(below(x)) + 1 <= n
      BY <1>3, <3>1
    <3> QED
      BY <1>1, <3>1, <3>2
  <2> HIDE DEF below, n
  <2> QED
    BY <2>1
<1>5. ASSUME NEW x \in S, NEW y \in S, <<x, y>> \in less PROVE rank[x] < rank[y]
  <2>1. below(x) \union {x} \subseteq below(y) /\ IsFiniteSet(below(y)) /\ IsFiniteSet(below(x)) /\ x \notin below(x)
    BY <1>2, <1>5
  <2>2. rank[x] = Cardinality(below(x)) + 1 /\ rank[y] = Cardinality(below(y)) + 1
    OBVIOUS
  <2>3. Cardinality(below(x)) \in Nat /\ Cardinality(below(y)) \in Nat
    BY <1>2
  <2> HIDE DEF below, rank
  <2>4. Cardinality(below(x) \union {x}) = Cardinality(below(x)) + 1
    BY <2>1, FS_AddElement
  <2>5. Cardinality(below(x) \union {x}) <= Cardinality(below(y))
    BY <2>1, FS_Subset
  <2> QED
    BY <2>2, <2>3, <2>4, <2>5
<1> HIDE DEF rank, n
<1>6. rank \in Injection(S, 1..n)
  <2>1. ASSUME NEW x \in S, NEW y \in S, rank[x] = rank[y] PROVE x = y
    <3>1. rank[x] \in Int /\ rank[y] \in Int
      BY <1>1, <1>4
    <3>2. ~(rank[x] < rank[y]) /\ ~(rank[y] < rank[x])
      BY <2>1, <3>1
    <3>3. <<x, y>> \notin less /\ <<y, x>> \notin less
      BY <1>5, <3>2
    <3> QED
      BY <3>3
  <2> QED
    BY <1>4, <2>1 DEF Injection, IsInjective
<1>7. rank \in Surjection(S, 1..n)
  <2>1. IsFiniteSet(1..n) /\ Cardinality(1..n) = n
    BY <1>1, FS_Interval
  <2>2. Cardinality(1..n) = Cardinality(S)
    BY <2>1 DEF n
  <2> QED
    BY <1>6, <2>1, <2>2, FS_Injection
<1> DEFINE s == [i \in 1..n |-> CHOOSE x \in S : rank[x] = i]
<1>8. \A i \in 1..n : s[i] \in S /\ rank[s[i]] = i
  BY <1>7 DEF Surjection
<1>9. s \in [1..n -> S]
  BY <1>8
<1> HIDE DEF s
<1>10. ASSUME NEW i \in 1..n, NEW j \in 1..n, i < j PROVE <<s[i], s[j]>> \in less
  <2>1. s[i] \in S /\ s[j] \in S /\ rank[s[i]] = i /\ rank[s[j]] = j
    BY <1>8
  <2>2. s[i] # s[j]
    BY <1>10, <2>1
  <2> DEFINE x == s[i]
             y == s[j]
  <2>3. x \in S /\ y \in S /\ rank[x] = i /\ rank[y] = j
    BY <2>1
  <2> HIDE DEF x, y
  <2>4. ASSUME <<y, x>> \in less PROVE rank[y] < rank[x]
    BY <1>5, <2>3, <2>4
  <2>5. ~(j < i)
    BY <1>1, <1>10
  <2>6. <<s[j], s[i]>> \notin less
    BY <2>3, <2>4, <2>5 DEF x, y
  <2> QED
    BY <2>1, <2>2, <2>6
<1> QED
  BY <1>9, <1>10 DEF n

\* What a list that is in order lists: everything, each once.
LEMMA Complete ==
  ASSUME NEW S, IsFiniteSet(S), NEW s \in [1..Cardinality(S) -> S],
         \A i, j \in 1..Cardinality(S) : i < j => s[i] # s[j]
  PROVE  \A x \in S : \E i \in 1..Cardinality(S) : s[i] = x
<1> DEFINE n == Cardinality(S)
<1>1. n \in Nat
  BY FS_CardinalityType
<1>2. IsFiniteSet(1..n) /\ Cardinality(1..n) = n
  BY <1>1, FS_Interval
<1>3. s \in Injection(1..n, S)
  <2>1. ASSUME NEW i \in 1..n, NEW j \in 1..n, s[i] = s[j] PROVE i = j
    BY <1>1, <2>1
  <2> HIDE DEF n
  <2>2. s \in [1..n -> S]
    BY DEF n
  <2> QED
    BY <2>1, <2>2 DEF Injection, IsInjective
<1>4. Cardinality(1..n) = Cardinality(S)
  BY <1>2
<1>5. s \in Surjection(1..n, S)
  <2> HIDE DEF n
  <2> QED
    BY <1>3, <1>4, FS_Injection
<1> QED
  BY <1>5 DEF Surjection

\* The elements of a list, counted.
LEMMA Counted ==
  ASSUME NEW n \in Nat, NEW s, \A i, j \in 1..n : i < j => s[i] # s[j]
  PROVE  Cardinality({s[i] : i \in 1..n}) = n
<1> DEFINE T == {s[i] : i \in 1..n}
           f == [i \in 1..n |-> s[i]]
<1>1. IsFiniteSet(1..n) /\ Cardinality(1..n) = n
  BY FS_Interval
<1>2. f \in [1..n -> T] /\ (\A x \in T : \E i \in 1..n : f[i] = x)
      /\ \A i, j \in 1..n : f[i] = f[j] => i = j
  OBVIOUS
<1> HIDE DEF f, T
<1>3. f \in Bijection(1..n, T)
  BY <1>2 DEF Bijection, Injection, Surjection, IsInjective
<1>4. Cardinality(T) = Cardinality(1..n)
  BY <1>1, <1>3, FS_Bijection DEF ExistsBijection
<1> QED
  BY <1>1, <1>4 DEF T

\* Smaller first, and of the same area by the level painted at.
smaller(e, f) == e.area < f.area \/ (e.area = f.area /\ e.level < f.level)

Lists(s, S) ==
  /\ s \in [1..Cardinality(S) -> S]
  /\ \A i, j \in 1..Cardinality(S) : i < j => s[i] # s[j]
  /\ \A x \in S : \E i \in 1..Cardinality(S) : s[i] = x

Solid(pos) == {e \in covering(pos) : ~e.ghost}
Seen(pos) == {e \in covering(pos) : e.ghost /\ e.own}

LEMMA CoveringFinite ==
  ASSUME NEW S \in SUBSET Elements
  PROVE  IsFiniteSet(S) /\ Cardinality(S) \in Nat
<1>1. IsFiniteSet(S)
  BY PointAssumption, FS_Subset
<1> QED
  BY <1>1, FS_CardinalityType

LEMMA CoveringElements ==
  ASSUME NEW pos
  PROVE  Solid(pos) \in SUBSET Elements /\ Seen(pos) \in SUBSET Elements
BY DEF Solid, Seen, covering

LEMMA HitStack ==
  ASSUME NEW pos
  PROVE  Lists(hitStack(pos), Solid(pos))
<1> DEFINE S == Solid(pos)
           n == Cardinality(S)
           less == {q \in S \X S : q[1].level < q[2].level}
           sorted(s) == \A i, j \in 1..n : i < j => s[i].level < s[j].level
<1>1. IsFiniteSet(S)
  BY CoveringFinite, CoveringElements
<1>2. \A e \in S : e.level \in Nat
  BY PointAssumption DEF Solid, covering
<1>3. \A e, f \in S : e.level = f.level => e = f
  BY PointAssumption DEF Solid, covering
<1>4. hitStack(pos) = CHOOSE s \in [1..n -> S] : sorted(s)
  BY DEF hitStack, inOrder, Solid
<1> HIDE DEF S
<1>5. \A e, f \in S : <<e, f>> \in less <=> e.level < f.level
  OBVIOUS
<1>6. less \in SUBSET (S \X S)
  OBVIOUS
<1> HIDE DEF less
<1>7. \A x \in S : <<x, x>> \notin less
  BY <1>2, <1>5
<1>8. \A x, y, z \in S : <<x, y>> \in less /\ <<y, z>> \in less => <<x, z>> \in less
  BY <1>2, <1>5
<1>9. \A x, y \in S : x = y \/ <<x, y>> \in less \/ <<y, x>> \in less
  <2>1. \A x, y \in S : x = y \/ x.level < y.level \/ y.level < x.level
    BY <1>2, <1>3
  <2> QED
    BY <1>5, <2>1
<1>10. PICK made \in [1..n -> S] : \A i, j \in 1..n : i < j => <<made[i], made[j]>> \in less
  BY <1>1, <1>6, <1>7, <1>8, <1>9, Ranked
<1>11. sorted(made)
  BY <1>5, <1>10
<1> DEFINE s == hitStack(pos)
<1>12. s \in [1..n -> S] /\ sorted(s)
  BY <1>4, <1>10, <1>11
<1> HIDE DEF s
<1>13. \A i, j \in 1..n : i < j => s[i] # s[j]
  <2>1. ASSUME NEW i \in 1..n, NEW j \in 1..n, i < j PROVE s[i] # s[j]
    <3>1. s[i].level < s[j].level /\ s[i].level \in Nat /\ s[j].level \in Nat
      BY <1>2, <1>12, <2>1
    <3> QED
      BY <3>1
  <2> QED
    BY <2>1
<1>14. \A x \in S : \E i \in 1..n : s[i] = x
  BY <1>1, <1>12, <1>13, Complete
<1> QED
  BY <1>12, <1>13, <1>14 DEF Lists, s, S

LEMMA VisualOnly ==
  ASSUME NEW pos
  PROVE  /\ Lists(find_visual_only_elements(pos), Seen(pos))
         /\ \A i, j \in 1..Cardinality(Seen(pos)) : i < j =>
              find_visual_only_elements(pos)[i].area <= find_visual_only_elements(pos)[j].area
<1> DEFINE S == Seen(pos)
           n == Cardinality(S)
           less == {q \in S \X S : smaller(q[1], q[2])}
           sorted(s) == \A i, j \in 1..n : i < j => smaller(s[i], s[j])
<1>1. IsFiniteSet(S)
  BY CoveringFinite, CoveringElements
<1>2. \A e \in S : e.level \in Nat /\ e.area \in Nat
  BY PointAssumption DEF Seen, covering
<1>3. \A e, f \in S : e.level = f.level => e = f
  BY PointAssumption DEF Seen, covering
<1>4. find_visual_only_elements(pos) = CHOOSE s \in [1..n -> S] : sorted(s)
  BY DEF find_visual_only_elements, inOrder, smaller, Seen
<1> HIDE DEF S
<1>5. \A e, f \in S : <<e, f>> \in less <=> smaller(e, f)
  OBVIOUS
<1>6. less \in SUBSET (S \X S)
  OBVIOUS
<1> HIDE DEF less
<1>7. \A x \in S : <<x, x>> \notin less
  BY <1>2, <1>5 DEF smaller
<1>8. ASSUME NEW x \in S, NEW y \in S, NEW z \in S, <<x, y>> \in less, <<y, z>> \in less
      PROVE  <<x, z>> \in less
  <2>1. smaller(x, y) /\ smaller(y, z)
    BY <1>5, <1>8
  <2>2. smaller(x, z)
    BY <1>2, <2>1 DEF smaller
  <2> QED
    BY <1>5, <2>2
<1>9. \A x, y \in S : x = y \/ <<x, y>> \in less \/ <<y, x>> \in less
  <2>1. \A x, y \in S : x = y \/ smaller(x, y) \/ smaller(y, x)
    BY <1>2, <1>3 DEF smaller
  <2> QED
    BY <1>5, <2>1
<1>10. PICK made \in [1..n -> S] : \A i, j \in 1..n : i < j => <<made[i], made[j]>> \in less
  <2>1. \A x, y, z \in S : <<x, y>> \in less /\ <<y, z>> \in less => <<x, z>> \in less
    BY <1>8
  <2> QED
    BY <1>1, <1>6, <1>7, <1>9, <2>1, Ranked
<1>11. sorted(made)
  BY <1>5, <1>10
<1> DEFINE s == find_visual_only_elements(pos)
<1>12. s \in [1..n -> S] /\ sorted(s)
  BY <1>4, <1>10, <1>11
<1> HIDE DEF s
<1>13. \A i, j \in 1..n : i < j => (s[i] # s[j] /\ s[i].area <= s[j].area)
  <2>1. ASSUME NEW i \in 1..n, NEW j \in 1..n, i < j PROVE s[i] # s[j] /\ s[i].area <= s[j].area
    <3> DEFINE e == s[i]
               f == s[j]
    <3>1. smaller(e, f) /\ e \in S /\ f \in S
      BY <1>12, <2>1
    <3> HIDE DEF e, f
    <3>2. e.area \in Nat /\ e.level \in Nat /\ f.area \in Nat /\ f.level \in Nat
      BY <1>2, <3>1
    <3>3. e # f /\ e.area <= f.area
      BY <3>1, <3>2 DEF smaller
    <3> QED
      BY <3>3 DEF e, f
  <2> HIDE DEF n
  <2> QED
    BY <2>1
<1>14. \A x \in S : \E i \in 1..n : s[i] = x
  <2>1. s \in [1..n -> S] /\ \A i, j \in 1..n : i < j => s[i] # s[j]
    BY <1>12, <1>13
  <2> QED
    BY <1>1, <2>1, Complete
<1> QED
  BY <1>12, <1>13, <1>14 DEF Lists, s, S

under(pos) == {e \in covering(pos) : e.ghost => e.own}
listed(pos) == hitStack(pos) \o find_visual_only_elements(pos)
Rowed(pos) == [i \in 1..Rows |-> IF i <= Len(listed(pos)) THEN {listed(pos)[i]} ELSE {}]

\* What is under a position is listed once, and what takes the pointer before
\* what is only seen.
LEMMA Stacked ==
  ASSUME NEW pos
  PROVE  LET stack == listed(pos)
             n == Len(stack)
         IN /\ n \in Nat
            /\ \A i \in 1..n : stack[i] \in under(pos)
            /\ \A i, j \in 1..n : i < j => stack[i] # stack[j]
            /\ \A e \in under(pos) : \E i \in 1..n : stack[i] = e
            /\ \A i, j \in 1..n : i < j /\ stack[i].ghost => stack[j].ghost /\ stack[i].area <= stack[j].area
<1> DEFINE S == Solid(pos)
           T == Seen(pos)
           m == Cardinality(S)
           k == Cardinality(T)
           a == hitStack(pos)
           b == find_visual_only_elements(pos)
           stack == a \o b
<1>1. m \in Nat /\ k \in Nat
  BY CoveringFinite, CoveringElements
<1>2. Lists(a, S)
  BY HitStack
<1>3. Lists(b, T) /\ \A i, j \in 1..k : i < j => b[i].area <= b[j].area
  BY VisualOnly
<1>4. under(pos) = S \union T
  BY PointAssumption DEF under, covering, Solid, Seen
<1>5. (\A e \in S : ~e.ghost) /\ (\A e \in T : e.ghost)
  BY DEF Solid, Seen
<1> HIDE DEF S, T, m, k, a, b
<1>6. /\ a \in [1..m -> S] /\ (\A i, j \in 1..m : i < j => a[i] # a[j])
      /\ \A x \in S : \E i \in 1..m : a[i] = x
  BY <1>2 DEF Lists, m
<1>7. /\ b \in [1..k -> T] /\ (\A i, j \in 1..k : i < j => b[i] # b[j])
      /\ \A x \in T : \E i \in 1..k : b[i] = x
  BY <1>3 DEF Lists, k
<1>8. a \in Seq(S) /\ b \in Seq(T) /\ Len(a) = m /\ Len(b) = k
  BY <1>1, <1>6, <1>7
<1>9. Len(stack) = m + k /\ \A i \in 1..(m + k) : stack[i] = IF i <= m THEN a[i] ELSE b[i - m]
  BY <1>1, <1>8
<1> HIDE DEF stack
<1> DEFINE n == m + k
<1>10. n \in Nat
  BY <1>1
<1>11. ASSUME NEW i \in 1..n
       PROVE  \/ i \in 1..m /\ stack[i] = a[i] /\ stack[i] \in S
              \/ i - m \in 1..k /\ ~(i <= m) /\ stack[i] = b[i - m] /\ stack[i] \in T
  BY <1>1, <1>6, <1>7, <1>9
<1>12. \A i \in 1..n : stack[i] \in under(pos)
  BY <1>4, <1>11
<1>13. ASSUME NEW i \in 1..n, NEW j \in 1..n, i < j
       PROVE  stack[i] # stack[j]
              /\ (stack[i].ghost => stack[j].ghost /\ stack[i].area <= stack[j].area)
  <2>1. CASE i \in 1..m /\ stack[i] = a[i] /\ stack[i] \in S
    <3>1. CASE j \in 1..m /\ stack[j] = a[j] /\ stack[j] \in S
      BY <1>5, <1>6, <1>13, <2>1, <3>1
    <3>2. CASE stack[j] \in T
      BY <1>5, <2>1, <3>2
    <3> QED
      BY <1>11, <3>1, <3>2
  <2>2. CASE i - m \in 1..k /\ ~(i <= m) /\ stack[i] = b[i - m] /\ stack[i] \in T
    <3>1. ~(j \in 1..m)
      BY <1>1, <1>13, <2>2
    <3>2. j - m \in 1..k /\ stack[j] = b[j - m] /\ stack[j] \in T
      BY <1>11, <3>1
    <3>3. i - m < j - m
      BY <1>1, <1>13
    <3>4. b[i - m] # b[j - m] /\ b[i - m].area <= b[j - m].area
      BY <1>3, <1>7, <2>2, <3>2, <3>3 DEF k
    <3> QED
      BY <1>5, <2>2, <3>2, <3>4
  <2> QED
    BY <1>11, <2>1, <2>2
<1>14. ASSUME NEW e \in under(pos) PROVE \E i \in 1..n : stack[i] = e
  <2>1. CASE e \in S
    <3>1. PICK i \in 1..m : a[i] = e
      BY <1>6, <2>1
    <3>2. i \in 1..n /\ stack[i] = e
      BY <1>1, <1>9, <3>1
    <3> QED
      BY <3>2
  <2>2. CASE e \in T
    <3>1. PICK i \in 1..k : b[i] = e
      BY <1>7, <2>2
    <3>2. i + m \in 1..n /\ ~(i + m <= m) /\ (i + m) - m = i
      BY <1>1, <3>1
    <3>3. stack[i + m] = e
      BY <1>9, <3>1, <3>2
    <3> QED
      BY <3>2, <3>3
  <2> QED
    BY <1>4, <2>1, <2>2
<1>15. listed(pos) = stack /\ Len(stack) = n
  BY <1>9 DEF listed, stack, a, b
<1> HIDE DEF n
<1> QED
  BY <1>10, <1>12, <1>13, <1>14, <1>15

PointState ==
  [lastPos : Positions, changed : BOOLEAN, mounted : BOOLEAN, raf : BOOLEAN, of : Positions,
   rows : [1..Rows -> SUBSET Elements]]
Pointed(k) ==
  /\ k \in PointState
  /\ ~k.mounted => ~k.raf
  /\ ~k.changed => k.of = k.lastPos /\ k.rows = Rowed(k.of)

LEMMA RowsTyped ==
  ASSUME NEW pos
  PROVE  Rowed(pos) \in [1..Rows -> SUBSET Elements]
<1>1. \A i \in 1..Len(listed(pos)) : listed(pos)[i] \in Elements
  BY Stacked DEF under, covering
<1>2. Len(listed(pos)) \in Nat
  BY Stacked
<1> QED
  BY <1>1, <1>2 DEF Rowed

LEMMA PointBegins == PointInit => Pointed(point)
<1> SUFFICES ASSUME PointInit PROVE Pointed(point)
  OBVIOUS
<1> DEFINE none == [i \in 1..Rows |-> {}]
<1>1. none \in [1..Rows -> SUBSET Elements]
  OBVIOUS
<1>2. PICK pos \in Positions :
        point = [lastPos |-> pos, changed |-> TRUE, mounted |-> TRUE, raf |-> TRUE, of |-> pos, rows |-> none]
  BY DEF PointInit
<1> HIDE DEF none
<1> QED
  BY <1>1, <1>2 DEF Pointed, PointState

LEMMA PointStep == Pointed(point) /\ [PointNext]_point => Pointed(point')
<1> SUFFICES ASSUME Pointed(point), [PointNext]_point PROVE Pointed(point')
  OBVIOUS
<1> DEFINE k == point
<1>1. k \in PointState
  BY DEF Pointed
<1>2. CASE point' = point
  BY <1>2
<1>3. CASE tick
  <2>1. CASE k.changed
    <3> DEFINE s == [k EXCEPT !.changed = FALSE]
               r == Rowed(s.lastPos)
               a == [s EXCEPT !.of = s.lastPos]
               t == [a EXCEPT !.rows = r]
    <3>1. point' = render_stack(s)
      BY <1>3, <2>1 DEF tick
    <3>2. s \in PointState /\ ~s.changed /\ s.mounted = k.mounted /\ s.raf = k.raf
      BY <1>1 DEF PointState
    <3>3. point' = t
      BY <3>1 DEF render_stack, Rowed, listed
    <3>4. r \in [1..Rows -> SUBSET Elements] /\ r = Rowed(s.lastPos)
      BY RowsTyped
    <3> HIDE DEF s, r
    <3>5. a \in PointState /\ a.of = s.lastPos /\ a.lastPos = s.lastPos /\ ~a.changed
          /\ a.mounted = s.mounted /\ a.raf = s.raf
      BY <3>2 DEF PointState
    <3> HIDE DEF a
    <3>6. t \in PointState /\ t.of = a.of /\ t.lastPos = a.lastPos /\ t.rows = r
          /\ t.mounted = a.mounted /\ t.raf = a.raf
      BY <3>4, <3>5 DEF PointState
    <3> HIDE DEF t
    <3> QED
      BY <3>2, <3>3, <3>4, <3>5, <3>6 DEF Pointed
  <2>2. CASE ~k.changed
    BY <1>3, <2>2 DEF tick
  <2> QED
    BY <2>1, <2>2
<1>4. CASE dispose_point
  <2> DEFINE a == [k EXCEPT !.mounted = FALSE]
             t == [a EXCEPT !.raf = FALSE]
  <2>1. point' = t
    BY <1>4 DEF dispose_point
  <2>2. a \in PointState /\ a.of = k.of /\ a.lastPos = k.lastPos /\ a.changed = k.changed /\ a.rows = k.rows
    BY <1>1 DEF PointState
  <2> HIDE DEF a
  <2>3. t \in PointState /\ t.of = a.of /\ t.lastPos = a.lastPos /\ t.changed = a.changed /\ t.rows = a.rows /\ ~t.raf
    BY <2>2 DEF PointState
  <2> HIDE DEF t
  <2> QED
    BY <2>1, <2>2, <2>3 DEF Pointed
<1>5. ASSUME NEW pos \in Positions, onMove(pos) PROVE Pointed(point')
  <2> DEFINE a == [k EXCEPT !.lastPos = pos]
             t == [a EXCEPT !.changed = TRUE]
  <2>1. point' = t
    BY <1>5 DEF onMove
  <2>2. a \in PointState /\ a.mounted = k.mounted /\ a.raf = k.raf
    BY <1>1 DEF PointState
  <2> HIDE DEF a
  <2>3. t \in PointState /\ t.mounted = a.mounted /\ t.raf = a.raf /\ t.changed
    BY <2>2 DEF PointState
  <2> HIDE DEF t
  <2> QED
    BY <2>1, <2>2, <2>3 DEF Pointed
<1> QED
  BY <1>2, <1>3, <1>4, <1>5 DEF PointNext

LEMMA PointSound == Pointed(point) => ReadoutTrue
<1> SUFFICES ASSUME Pointed(point), ~point.changed
             PROVE  LET shown == UNION {point.rows[i] : i \in 1..Rows}
                        found == {e \in covering(point.of) : e.ghost => e.own}
                    IN /\ point.of = point.lastPos /\ shown \subseteq found
                       /\ Cardinality(shown) = IF Cardinality(found) < Rows THEN Cardinality(found) ELSE Rows
                       /\ \A i, j \in 1..Rows : i < j =>
                            /\ point.rows[i] \intersect point.rows[j] = {}
                            /\ point.rows[i] = {} => point.rows[j] = {}
                            /\ \A e \in point.rows[i], f \in point.rows[j] : e.ghost => f.ghost /\ e.area <= f.area
  BY DEF ReadoutTrue, Pointed
<1> DEFINE pos == point.of
           stack == listed(pos)
           n == Len(stack)
           rows == point.rows
           shown == UNION {rows[i] : i \in 1..Rows}
           room == IF n < Rows THEN n ELSE Rows
<1>1. pos = point.lastPos /\ rows = Rowed(pos) /\ Rows \in Nat
  BY PointAssumption DEF Pointed
<1>2. /\ n \in Nat
      /\ \A i \in 1..n : stack[i] \in under(pos)
      /\ \A i, j \in 1..n : i < j => stack[i] # stack[j]
      /\ \A e \in under(pos) : \E i \in 1..n : stack[i] = e
      /\ \A i, j \in 1..n : i < j /\ stack[i].ghost => stack[j].ghost /\ stack[i].area <= stack[j].area
  BY Stacked
<1>3. \A i \in 1..Rows : rows[i] = IF i <= n THEN {stack[i]} ELSE {}
  BY <1>1 DEF Rowed
<1> HIDE DEF stack, n, rows
<1>4. shown = {stack[i] : i \in 1..room}
  <2>1. \A i : i \in 1..room <=> i \in 1..Rows /\ i <= n
    BY <1>1, <1>2
  <2> HIDE DEF room
  <2>2. ASSUME NEW e \in shown PROVE \E i \in 1..room : e = stack[i]
    <3>1. PICK i \in 1..Rows : e \in rows[i]
      BY <2>2
    <3>2. i <= n /\ e = stack[i]
      BY <1>3, <3>1
    <3> QED
      BY <2>1, <3>2
  <2>3. ASSUME NEW i \in 1..room PROVE stack[i] \in shown
    <3>1. i \in 1..Rows /\ i <= n
      BY <2>1
    <3>2. stack[i] \in rows[i]
      BY <1>3, <3>1
    <3> QED
      BY <3>1, <3>2
  <2> HIDE DEF shown
  <2> QED
    BY <2>2, <2>3
<1>5. room \in Nat /\ \A i \in 1..room : i \in 1..n
  BY <1>1, <1>2
<1> HIDE DEF shown
<1>6. Cardinality(shown) = room
  <2> HIDE DEF room
  <2>1. \A i, j \in 1..room : i < j => stack[i] # stack[j]
    BY <1>2, <1>5
  <2>2. Cardinality({stack[i] : i \in 1..room}) = room
    BY <1>5, <2>1, Counted
  <2> QED
    BY <1>4, <2>2
<1>7. Cardinality(under(pos)) = n
  <2>1. under(pos) = {stack[i] : i \in 1..n}
    BY <1>2
  <2>2. Cardinality({stack[i] : i \in 1..n}) = n
    BY <1>2, Counted
  <2> QED
    BY <2>1, <2>2
<1>8. shown \subseteq under(pos)
  BY <1>2, <1>4, <1>5
<1>9. ASSUME NEW i \in 1..Rows, NEW j \in 1..Rows, i < j
      PROVE  /\ rows[i] \intersect rows[j] = {}
             /\ rows[i] = {} => rows[j] = {}
             /\ \A e \in rows[i], f \in rows[j] : e.ghost => f.ghost /\ e.area <= f.area
  <2>1. rows[i] = (IF i <= n THEN {stack[i]} ELSE {}) /\ rows[j] = (IF j <= n THEN {stack[j]} ELSE {})
    BY <1>3
  <2>2. CASE j <= n
    <3>1. i \in 1..n /\ j \in 1..n /\ i <= n
      BY <1>1, <1>2, <1>9, <2>2
    <3>2. stack[i] # stack[j] /\ (stack[i].ghost => stack[j].ghost /\ stack[i].area <= stack[j].area)
      BY <1>2, <1>9, <3>1
    <3>3. rows[i] = {stack[i]} /\ rows[j] = {stack[j]}
      BY <2>1, <2>2, <3>1
    <3> QED
      BY <3>2, <3>3
  <2>3. CASE ~(j <= n)
    BY <2>1, <2>3
  <2> QED
    BY <2>2, <2>3
<1>10. under(pos) = {e \in covering(point.of) : e.ghost => e.own}
  BY DEF under
<1> HIDE DEF pos
<1> QED
  BY <1>1, <1>6, <1>7, <1>8, <1>9, <1>10 DEF shown, rows, pos

-----------------------------------------------------------------------------
(* The amoebic menu.                                                       *)

Tile == [receded : BOOLEAN, pose : {"seed", "grown", "receded"}, motions : SUBSET Motion]
\* What moves a tile moves it to what the book says, and what has moved it did.
Posed(tile) ==
  /\ \A m \in tile.motions : m.current => (m.grows <=> ~tile.receded)
  /\ (\A m \in tile.motions : ~m.current) => tile.pose = IF tile.receded THEN "receded" ELSE "grown"
MenuState ==
  [hovered : Items \union {NoItem}, active : SUBSET Items, leaving : SUBSET Items,
   transition : {"hidden", "entering", "settled", "exiting"}, skin : {"plain", "amoebic"},
   displayed : SUBSET {"plain", "amoebic"}, disposed : BOOLEAN, tiles : [Items -> Tile]]

Poses(k) == k.disposed \/ \A i \in Items : Posed(k.tiles[i])
Reachable(k) ==
  k.transition \in {"entering", "settled"} =>
    \A i \in Items : shouldGrow(k.hovered, k.active, i) => ~k.tiles[i].receded
Skinned(k) ==
  /\ k.displayed = {k.skin}
  /\ Bling \in k.active => k.skin = "amoebic" /\ k.transition \in {"entering", "settled"}
  /\ Bling \notin k.active => k.skin = "plain" \/ k.transition = "exiting"
MenuInv == menu \in MenuState /\ Poses(menu) /\ Reachable(menu) /\ Skinned(menu)

\* Whatever moved a tile before, a new motion alone decides.
LEMMA Begun ==
  ASSUME NEW earlier \in SUBSET Motion, NEW motion \in Motion
  PROVE  LET motions == superseded(earlier) \union {motion}
         IN motions \in SUBSET Motion /\ motion \in motions /\ \A m \in motions : m.current => m = motion
<1>1. ASSUME NEW m \in Motion PROVE [m EXCEPT !.current = FALSE] \in Motion /\ ~[m EXCEPT !.current = FALSE].current
  BY DEF Motion
<1> QED
  BY <1>1 DEF superseded

LEMMA Plays ==
  ASSUME NEW tile \in Tile
  PROVE  LET t == [play_amoebi_motion(tile) EXCEPT !.receded = FALSE]
         IN t \in Tile /\ Posed(t) /\ ~t.receded
<1> DEFINE motion == [grows |-> TRUE, frames |-> 2, current |-> TRUE]
           r == FALSE
           t == [play_amoebi_motion(tile) EXCEPT !.receded = r]
           motions == superseded(tile.motions) \union {motion}
<1>1. motion \in Motion /\ motion.current /\ motion.grows /\ r \in BOOLEAN /\ ~r /\ tile.motions \in SUBSET Motion
  BY DEF Motion, Tile
<1> HIDE DEF r
<1>2. t = [tile EXCEPT !.motions = motions, !.pose = "seed", !.receded = r]
  BY DEF play_amoebi_motion, begun, Tile
<1> HIDE DEF t, motion
<1>3. motions \in SUBSET Motion /\ motion \in motions /\ \A m \in motions : m.current => m = motion
  BY <1>1, Begun
<1> HIDE DEF motions
<1>4. t \in Tile /\ t.motions = motions /\ t.receded = r
  BY <1>1, <1>2, <1>3 DEF Tile
<1>5. Posed(t)
  BY <1>1, <1>3, <1>4 DEF Posed
<1> QED
  BY <1>1, <1>4, <1>5 DEF t, r

LEMMA Grows ==
  ASSUME NEW tile \in Tile
  PROVE  LET t == grow_amoebi_tile(tile)
         IN t \in Tile /\ ~t.receded /\ (Posed(tile) => Posed(t))
<1>1. CASE tile.receded
  <2>1. grow_amoebi_tile(tile) = [play_amoebi_motion(tile) EXCEPT !.receded = FALSE]
    BY <1>1 DEF grow_amoebi_tile
  <2> QED
    BY <2>1, Plays
<1>2. CASE ~tile.receded
  BY <1>2 DEF grow_amoebi_tile
<1> QED
  BY <1>1, <1>2

LEMMA Recedes ==
  ASSUME NEW tile \in Tile
  PROVE  LET t == recede_amoebi_tile(tile)
         IN t \in Tile /\ t.receded /\ (Posed(tile) => Posed(t))
<1>1. CASE tile.receded
  BY <1>1 DEF recede_amoebi_tile
<1>2. CASE ~tile.receded
  <2> DEFINE motion == [grows |-> FALSE, frames |-> 1, current |-> TRUE]
             r == TRUE
             t == recede_amoebi_tile(tile)
             motions == superseded(tile.motions) \union {motion}
  <2>1. motion \in Motion /\ motion.current /\ ~motion.grows /\ r \in BOOLEAN /\ r /\ tile.motions \in SUBSET Motion
    BY DEF Motion, Tile
  <2> HIDE DEF r
  <2>2. t = [[tile EXCEPT !.motions = motions] EXCEPT !.receded = r]
    BY <1>2 DEF recede_amoebi_tile, recede_amoebi_motion, begun, r
  <2> HIDE DEF t, motion
  <2>3. motions \in SUBSET Motion /\ motion \in motions /\ \A m \in motions : m.current => m = motion
    BY <2>1, Begun
  <2> HIDE DEF motions
  <2>4. t \in Tile /\ t.motions = motions /\ t.receded = r
    BY <2>1, <2>2, <2>3 DEF Tile
  <2>5. Posed(t)
    BY <2>1, <2>3, <2>4 DEF Posed
  <2> QED
    BY <2>1, <2>4, <2>5 DEF t, r
<1> QED
  BY <1>1, <1>2

\* A frame plays what is left of the motions.
LEMMA Runs ==
  ASSUME NEW tile \in Tile
  PROVE  LET t == ran(tile) IN t \in Tile /\ t.receded = tile.receded /\ (Posed(tile) => Posed(t))
<1> DEFINE left == {n \in tile.motions : n.current /\ n.frames = 2}
           motions == {[m EXCEPT !.frames = 1] : m \in left}
           last == CHOOSE m \in tile.motions : m.current /\ m.frames = 1
           ends == \E m \in tile.motions : m.current /\ m.frames = 1
           pose == IF ends THEN IF last.grows THEN "grown" ELSE "receded" ELSE tile.pose
           t == ran(tile)
<1>1. t = [tile EXCEPT !.motions = motions, !.pose = pose]
  BY DEF ran
<1>2. tile.motions \subseteq Motion
  BY DEF Tile
<1>3. \A n \in motions : n \in Motion /\ \E m \in left : n.current = m.current /\ n.grows = m.grows
  <2>1. ASSUME NEW m \in Motion
        PROVE  LET n == [m EXCEPT !.frames = 1] IN n \in Motion /\ n.current = m.current /\ n.grows = m.grows
    BY DEF Motion
  <2> QED
    BY <1>2, <2>1
<1>4. pose \in {"seed", "grown", "receded"}
  BY DEF Tile
<1>5. t \in Tile /\ t.motions = motions /\ t.pose = pose /\ t.receded = tile.receded
  <2>1. motions \subseteq Motion
    BY <1>3
  <2> HIDE DEF t, motions, pose
  <2> QED
    BY <1>1, <1>4, <2>1 DEF Tile
<1>6. ends => last \in tile.motions /\ last.current
  OBVIOUS
<1>7. ASSUME NEW m \in left PROVE [m EXCEPT !.frames = 1] \in motions /\ [m EXCEPT !.frames = 1].current
  BY <1>2 DEF Motion
<1>8. ASSUME Posed(tile) PROVE Posed(t)
  <2>1. \A m \in t.motions : m.current => (m.grows <=> ~t.receded)
    <3>1. \A m \in left : m.current => (m.grows <=> ~tile.receded)
      BY <1>8 DEF Posed
    <3> HIDE DEF t, motions, left
    <3> QED
      BY <1>3, <1>5, <3>1
  <2>2. ASSUME \A m \in t.motions : ~m.current
        PROVE  t.pose = IF t.receded THEN "receded" ELSE "grown"
    <3>1. left = {}
      BY <1>5, <1>7, <2>2
    <3>2. \A m \in tile.motions : m.current => m.frames = 1
      BY <1>2, <3>1 DEF Motion
    <3>3. CASE ends
      <4>1. last.grows <=> ~tile.receded
        BY <1>6, <1>8, <3>3 DEF Posed
      <4> HIDE DEF last, t, motions
      <4> QED
        BY <1>5, <3>3, <4>1
    <3>4. CASE ~ends
      <4>1. \A m \in tile.motions : ~m.current
        BY <3>2, <3>4
      <4> HIDE DEF t, motions, ends, last
      <4> QED
        BY <1>5, <1>8, <3>4, <4>1 DEF Posed
    <3> QED
      BY <3>3, <3>4
  <2> QED
    BY <2>1, <2>2 DEF Posed
<1> QED
  BY <1>5, <1>8

\* All tiles at once.
LEMMA Applied ==
  ASSUME NEW k \in MenuState
  PROVE  LET r == apply_amoebi_menu_motion(k)
         IN /\ r \in MenuState /\ Reachable(r) /\ (Poses(k) => Poses(r))
            /\ r.active = k.active /\ r.skin = k.skin /\ r.displayed = k.displayed
            /\ r.transition = k.transition /\ r.disposed = k.disposed
<1> DEFINE moved(i) == IF shouldGrow(k.hovered, k.active, i)
                       THEN grow_amoebi_tile(k.tiles[i]) ELSE recede_amoebi_tile(k.tiles[i])
           tiles == [i \in Items |-> moved(i)]
           r == apply_amoebi_menu_motion(k)
<1>1. ASSUME NEW i \in Items
      PROVE  /\ moved(i) \in Tile /\ (Posed(k.tiles[i]) => Posed(moved(i)))
             /\ moved(i).receded <=> ~shouldGrow(k.hovered, k.active, i)
  <2>1. k.tiles[i] \in Tile
    BY DEF MenuState
  <2>2. CASE shouldGrow(k.hovered, k.active, i)
    BY <2>1, <2>2, Grows
  <2>3. CASE ~shouldGrow(k.hovered, k.active, i)
    BY <2>1, <2>3, Recedes
  <2> QED
    BY <2>2, <2>3
<1>2. r = [k EXCEPT !.tiles = tiles]
  BY DEF apply_amoebi_menu_motion, MenuState
<1>3. tiles \in [Items -> Tile] /\ \A i \in Items : tiles[i] = moved(i)
  BY <1>1
<1> HIDE DEF tiles, moved, r
<1>4. /\ r \in MenuState /\ r.tiles = tiles /\ r.active = k.active /\ r.skin = k.skin
      /\ r.displayed = k.displayed /\ r.transition = k.transition /\ r.disposed = k.disposed
      /\ r.hovered = k.hovered
  BY <1>2, <1>3 DEF MenuState
<1>5. Reachable(r)
  BY <1>1, <1>3, <1>4 DEF Reachable
<1>6. Poses(k) => Poses(r)
  BY <1>1, <1>3, <1>4 DEF Poses
<1> QED
  BY <1>4, <1>5, <1>6 DEF r

LEMMA Enters ==
  ASSUME NEW k \in MenuState
  PROVE  LET r == setBlingPresentation(k, TRUE)
         IN /\ r \in MenuState /\ Reachable(r) /\ Poses(r) /\ r.active = k.active
            /\ r.skin = "amoebic" /\ r.displayed = {"amoebic"} /\ r.transition = "entering"
<1> DEFINE shown == [k EXCEPT !.skin = "amoebic", !.displayed = {"amoebic"}]
           played(i) == [play_amoebi_motion(k.tiles[i]) EXCEPT !.receded = FALSE]
           tiles == [i \in Items |-> played(i)]
           r == setBlingPresentation(k, TRUE)
<1>1. ASSUME NEW i \in Items PROVE played(i) \in Tile /\ Posed(played(i)) /\ ~played(i).receded
  <2>1. k.tiles[i] \in Tile
    BY DEF MenuState
  <2> QED
    BY <2>1, Plays
<1>2. shown.tiles = k.tiles /\ r = [shown EXCEPT !.transition = "entering", !.tiles = tiles]
  <2>1. shown.tiles = k.tiles
    BY DEF MenuState
  <2>2. r = enter(shown)
    BY DEF setBlingPresentation
  <2>3. k.tiles = [i \in Items |-> k.tiles[i]]
    BY DEF MenuState
  <2> HIDE DEF shown
  <2> QED
    BY <2>1, <2>2, <2>3 DEF enter
<1>3. tiles \in [Items -> Tile] /\ \A i \in Items : tiles[i] = played(i)
  BY <1>1
<1> HIDE DEF tiles, played, r
<1>4. /\ r \in MenuState /\ r.tiles = tiles /\ r.active = k.active /\ r.skin = "amoebic"
      /\ r.displayed = {"amoebic"} /\ r.transition = "entering"
  BY <1>2, <1>3 DEF MenuState
<1>5. Reachable(r) /\ Poses(r)
  BY <1>1, <1>3, <1>4 DEF Reachable, Poses
<1> QED
  BY <1>4, <1>5 DEF r

LEMMA Exits ==
  ASSUME NEW k \in MenuState
  PROVE  LET r == setBlingPresentation(k, FALSE)
         IN /\ r \in MenuState /\ Reachable(r) /\ (Poses(k) => Poses(r)) /\ r.active = k.active
            /\ r.skin = k.skin /\ r.displayed = k.displayed /\ r.transition = "exiting"
<1> DEFINE tiles == [i \in Items |-> recede_amoebi_tile(k.tiles[i])]
           r == setBlingPresentation(k, FALSE)
<1>1. ASSUME NEW i \in Items
      PROVE  recede_amoebi_tile(k.tiles[i]) \in Tile
             /\ (Posed(k.tiles[i]) => Posed(recede_amoebi_tile(k.tiles[i])))
  <2>1. k.tiles[i] \in Tile
    BY DEF MenuState
  <2> QED
    BY <2>1, Recedes
<1>2. r = [k EXCEPT !.transition = "exiting", !.tiles = tiles]
  BY DEF setBlingPresentation, exit
<1>3. tiles \in [Items -> Tile] /\ \A i \in Items : tiles[i] = recede_amoebi_tile(k.tiles[i])
  BY <1>1
<1> HIDE DEF tiles, r
<1>4. /\ r \in MenuState /\ r.tiles = tiles /\ r.active = k.active /\ r.skin = k.skin
      /\ r.displayed = k.displayed /\ r.transition = "exiting" /\ r.disposed = k.disposed
  BY <1>2, <1>3 DEF MenuState
<1>5. Reachable(r) /\ (Poses(k) => Poses(r))
  BY <1>1, <1>3, <1>4 DEF Reachable, Poses
<1> QED
  BY <1>4, <1>5 DEF r

LEMMA Toggled ==
  ASSUME MenuInv, NEW item \in Items, onToggle(item)
  PROVE  MenuInv'
<1> DEFINE others == IF item \in Views THEN menu.active \ Views ELSE menu.active \ {item}
           active == IF item \in menu.active THEN others ELSE others \union {item}
           k == [menu EXCEPT !.active = active]
           refreshed == apply_amoebi_menu_motion(k)
<1>1. menu \in MenuState /\ menu.active \subseteq Items
  BY DEF MenuInv, MenuState
<1>2. active \subseteq Items
  BY <1>1
<1>3. item # Bling => (Bling \in active <=> Bling \in menu.active)
  BY MenuAssumption
<1>4. menu' = IF item = Bling THEN setBlingPresentation(refreshed, Bling \in active) ELSE refreshed
  BY DEF onToggle, refresh
<1> HIDE DEF active
<1>5. /\ k \in MenuState /\ k.active = active /\ k.skin = menu.skin /\ k.displayed = menu.displayed
      /\ k.transition = menu.transition /\ k.disposed = menu.disposed /\ k.tiles = menu.tiles
  BY <1>1, <1>2 DEF MenuState
<1>6. Poses(k)
  BY <1>5 DEF MenuInv, Poses
<1> HIDE DEF k
<1>7. /\ refreshed \in MenuState /\ Reachable(refreshed) /\ Poses(refreshed) /\ refreshed.active = active
      /\ refreshed.skin = menu.skin /\ refreshed.displayed = menu.displayed
      /\ refreshed.transition = menu.transition
  BY <1>5, <1>6, Applied
<1> HIDE DEF refreshed
<1>8. CASE item # Bling
  <2>1. menu' = refreshed
    BY <1>4, <1>8
  <2>2. Skinned(menu')
    BY <1>3, <1>7, <1>8, <2>1 DEF MenuInv, Skinned
  <2> QED
    BY <1>7, <2>1, <2>2 DEF MenuInv
<1>9. CASE item = Bling /\ Bling \in active
  <2>1. menu' = setBlingPresentation(refreshed, TRUE)
    BY <1>4, <1>9
  <2>2. /\ menu' \in MenuState /\ Reachable(menu') /\ Poses(menu') /\ menu'.active = active
        /\ menu'.skin = "amoebic" /\ menu'.displayed = {"amoebic"} /\ menu'.transition = "entering"
    BY <1>7, <2>1, Enters
  <2> QED
    BY <1>9, <2>2 DEF MenuInv, Skinned
<1>10. CASE item = Bling /\ Bling \notin active
  <2>1. menu' = setBlingPresentation(refreshed, FALSE)
    <3>1. menu' = exit(refreshed)
      BY <1>4, <1>10 DEF setBlingPresentation
    <3> QED
      BY <3>1 DEF setBlingPresentation
  <2>2. /\ menu' \in MenuState /\ Reachable(menu') /\ Poses(menu') /\ menu'.active = active
        /\ menu'.skin = menu.skin /\ menu'.displayed = menu.displayed /\ menu'.transition = "exiting"
    BY <1>7, <2>1, Exits
  <2> QED
    BY <1>10, <2>2 DEF MenuInv, Skinned
<1> QED
  BY <1>8, <1>9, <1>10

\* A change of what is hovered.
LEMMA Hovers ==
  ASSUME MenuInv, NEW hovered \in Items \union {NoItem}, NEW leaving \in SUBSET Items,
         menu' = apply_amoebi_menu_motion([menu EXCEPT !.hovered = hovered, !.leaving = leaving])
  PROVE  MenuInv'
<1> DEFINE k == [menu EXCEPT !.hovered = hovered, !.leaving = leaving]
<1>1. /\ k \in MenuState /\ k.active = menu.active /\ k.skin = menu.skin /\ k.displayed = menu.displayed
      /\ k.transition = menu.transition /\ k.disposed = menu.disposed /\ k.tiles = menu.tiles
  BY DEF MenuInv, MenuState
<1>2. Poses(k)
  BY <1>1 DEF MenuInv, Poses
<1>3. menu' = apply_amoebi_menu_motion(k)
  OBVIOUS
<1> HIDE DEF k
<1>4. /\ menu' \in MenuState /\ Reachable(menu') /\ Poses(menu') /\ menu'.active = menu.active
      /\ menu'.skin = menu.skin /\ menu'.displayed = menu.displayed /\ menu'.transition = menu.transition
  BY <1>1, <1>2, <1>3, Applied
<1> QED
  BY <1>4 DEF MenuInv, Skinned

\* A step that touches no tile.
LEMMA Rests ==
  ASSUME MenuInv, menu' \in MenuState, menu'.hovered = menu.hovered, menu'.active = menu.active,
         menu'.tiles = menu.tiles, menu'.disposed = menu.disposed, Skinned(menu'),
         menu'.transition \in {"entering", "settled"} => menu.transition \in {"entering", "settled"}
  PROVE  MenuInv'
BY DEF MenuInv, Poses, Reachable

LEMMA MenuStep == MenuInv /\ [MenuNext]_menu => MenuInv'
<1> SUFFICES ASSUME MenuInv, [MenuNext]_menu PROVE MenuInv'
  OBVIOUS
<1>1. menu \in MenuState /\ Poses(menu) /\ Reachable(menu) /\ Skinned(menu)
  BY DEF MenuInv
<1>2. CASE UNCHANGED menu
  BY <1>2 DEF MenuInv
<1>3. ASSUME NEW item \in Items, onToggle(item) PROVE MenuInv'
  BY <1>3, Toggled
<1>4. ASSUME NEW item \in Items, showHover(item) PROVE MenuInv'
  BY <1>4, Hovers DEF showHover
<1>5. ASSUME NEW item \in Items, clearHover(item) PROVE MenuInv'
  <2> DEFINE leaving == menu.leaving \union {item}
  <2>1. leaving \in SUBSET Items /\ menu' = [menu EXCEPT !.leaving = leaving]
    BY <1>1, <1>5 DEF clearHover, MenuState
  <2> HIDE DEF leaving
  <2>2. /\ menu' \in MenuState /\ menu'.hovered = menu.hovered /\ menu'.active = menu.active
        /\ menu'.tiles = menu.tiles /\ menu'.disposed = menu.disposed /\ menu'.skin = menu.skin
        /\ menu'.displayed = menu.displayed /\ menu'.transition = menu.transition
    BY <1>1, <2>1 DEF MenuState
  <2>3. Skinned(menu')
    BY <1>1, <2>2 DEF Skinned
  <2> QED
    BY <2>2, <2>3, Rests
<1>6. ASSUME NEW item \in Items, HoverLeft(item) PROVE MenuInv'
  <2> DEFINE leaving == menu.leaving \ {item}
             left == [menu EXCEPT !.leaving = leaving]
  <2>1. leaving \in SUBSET Items
    BY <1>1 DEF MenuState
  <2>2. menu' = IF menu.hovered = item THEN apply_amoebi_menu_motion([left EXCEPT !.hovered = NoItem]) ELSE left
    BY <1>6 DEF HoverLeft
  <2> HIDE DEF leaving
  <2>3. CASE menu.hovered = item
    <3>1. [left EXCEPT !.hovered = NoItem] = [menu EXCEPT !.hovered = NoItem, !.leaving = leaving]
      BY <1>1 DEF MenuState
    <3>2. menu' = apply_amoebi_menu_motion([menu EXCEPT !.hovered = NoItem, !.leaving = leaving])
      BY <2>2, <2>3, <3>1
    <3> QED
      BY <2>1, <3>2, Hovers
  <2>4. CASE menu.hovered # item
    <3>1. menu' = [menu EXCEPT !.leaving = leaving]
      BY <2>2, <2>4
    <3>2. /\ menu' \in MenuState /\ menu'.hovered = menu.hovered /\ menu'.active = menu.active
          /\ menu'.tiles = menu.tiles /\ menu'.disposed = menu.disposed /\ menu'.skin = menu.skin
          /\ menu'.displayed = menu.displayed /\ menu'.transition = menu.transition
      BY <1>1, <2>1, <3>1 DEF MenuState
    <3>3. Skinned(menu')
      BY <1>1, <3>2 DEF Skinned
    <3> QED
      BY <3>2, <3>3, Rests
  <2> QED
    BY <2>3, <2>4
<1>7. CASE MotionFrame
  <2> DEFINE tiles == [i \in Items |-> ran(menu.tiles[i])]
  <2>1. ASSUME NEW i \in Items
        PROVE  /\ ran(menu.tiles[i]) \in Tile /\ ran(menu.tiles[i]).receded = menu.tiles[i].receded
               /\ Posed(menu.tiles[i]) => Posed(ran(menu.tiles[i]))
    <3>1. menu.tiles[i] \in Tile
      BY <1>1 DEF MenuState
    <3> QED
      BY <3>1, Runs
  <2>2. menu' = [menu EXCEPT !.tiles = tiles]
    BY <1>7 DEF MotionFrame
  <2>3. tiles \in [Items -> Tile] /\ \A i \in Items : tiles[i] = ran(menu.tiles[i])
    BY <2>1
  <2> HIDE DEF tiles
  <2>4. /\ menu' \in MenuState /\ menu'.tiles = tiles /\ menu'.hovered = menu.hovered /\ menu'.active = menu.active
        /\ menu'.disposed = menu.disposed /\ menu'.skin = menu.skin
        /\ menu'.displayed = menu.displayed /\ menu'.transition = menu.transition
    BY <1>1, <2>2, <2>3 DEF MenuState
  <2>5. Poses(menu') /\ Reachable(menu')
    BY <1>1, <2>1, <2>3, <2>4 DEF Poses, Reachable
  <2>6. Skinned(menu')
    BY <1>1, <2>4 DEF Skinned
  <2> QED
    BY <2>4, <2>5, <2>6 DEF MenuInv
<1>8. CASE Entered
  <2>1. /\ menu.transition = "entering" /\ menu' \in MenuState /\ menu'.hovered = menu.hovered
        /\ menu'.active = menu.active /\ menu'.tiles = menu.tiles /\ menu'.disposed = menu.disposed
        /\ menu'.skin = menu.skin /\ menu'.displayed = menu.displayed /\ menu'.transition = "settled"
    BY <1>1, <1>8 DEF Entered, MenuState
  <2>2. Skinned(menu')
    BY <1>1, <2>1 DEF Skinned
  <2> QED
    BY <2>1, <2>2, Rests
<1>9. CASE Exited
  <2>1. /\ menu.transition = "exiting" /\ menu' \in MenuState /\ menu'.hovered = menu.hovered
        /\ menu'.active = menu.active /\ menu'.tiles = menu.tiles /\ menu'.disposed = menu.disposed
        /\ menu'.skin = "plain" /\ menu'.displayed = {"plain"} /\ menu'.transition = "hidden"
    BY <1>1, <1>9 DEF Exited, MenuState
  <2>2. Skinned(menu')
    BY <1>1, <2>1 DEF Skinned
  <2> QED
    BY <2>1, <2>2, Rests
<1>10. CASE dispose_menu
  <2> DEFINE stilled(i) == [menu.tiles[i] EXCEPT !.motions = {}]
             tiles == [i \in Items |-> stilled(i)]
  <2>1. ASSUME NEW i \in Items PROVE stilled(i) \in Tile /\ stilled(i).receded = menu.tiles[i].receded
    <3>1. menu.tiles[i] \in Tile
      BY <1>1 DEF MenuState
    <3> QED
      BY <3>1 DEF Tile
  <2>2. menu' = [menu EXCEPT !.disposed = TRUE, !.leaving = {}, !.tiles = tiles]
    BY <1>10 DEF dispose_menu
  <2>3. tiles \in [Items -> Tile] /\ \A i \in Items : tiles[i] = stilled(i)
    BY <2>1
  <2> HIDE DEF tiles, stilled
  <2>4. /\ menu' \in MenuState /\ menu'.tiles = tiles /\ menu'.hovered = menu.hovered /\ menu'.active = menu.active
        /\ menu'.disposed /\ menu'.skin = menu.skin
        /\ menu'.displayed = menu.displayed /\ menu'.transition = menu.transition
    BY <1>1, <2>2, <2>3 DEF MenuState
  <2>5. Poses(menu') /\ Reachable(menu') /\ Skinned(menu')
    BY <1>1, <2>1, <2>3, <2>4 DEF Poses, Reachable, Skinned
  <2> QED
    BY <2>4, <2>5 DEF MenuInv
<1> QED
  BY <1>2, <1>3, <1>4, <1>5, <1>6, <1>7, <1>8, <1>9, <1>10 DEF MenuNext

LEMMA Hides ==
  ASSUME NEW active \in SUBSET Items
  PROVE  LET k == hidden(active)
         IN /\ k \in MenuState /\ Poses(k) /\ Reachable(k) /\ k.active = active
            /\ k.skin = "plain" /\ k.displayed = {"plain"} /\ k.transition = "hidden"
<1> DEFINE motion == [grows |-> TRUE, frames |-> 2, current |-> TRUE]
           r == FALSE
           tile == [receded |-> r, pose |-> "seed", motions |-> {motion}]
           tiles == [i \in Items |-> tile]
           k == hidden(active)
<1>1. motion \in Motion /\ motion.current /\ motion.grows /\ r \in BOOLEAN /\ ~r
  BY DEF Motion
<1> HIDE DEF motion, r
<1>2. tile \in Tile /\ tile.motions = {motion} /\ tile.receded = r
  BY <1>1 DEF Tile
<1> HIDE DEF tile
<1>3. tiles \in [Items -> Tile] /\ \A i \in Items : tiles[i] = tile
  BY <1>2
<1>4. k = [hovered |-> NoItem, active |-> active, leaving |-> {}, transition |-> "hidden",
           skin |-> "plain", displayed |-> {"plain"}, disposed |-> r, tiles |-> tiles]
  BY DEF hidden, tiles, tile, motion, r
<1> HIDE DEF tiles, k
<1>5. /\ k \in MenuState /\ k.active = active /\ k.skin = "plain" /\ k.displayed = {"plain"}
      /\ k.transition = "hidden" /\ k.tiles = tiles
  BY <1>1, <1>3, <1>4 DEF MenuState
<1>6. Posed(tile)
  BY <1>1, <1>2 DEF Posed
<1>7. Poses(k) /\ Reachable(k)
  BY <1>3, <1>5, <1>6 DEF Poses, Reachable
<1> QED
  BY <1>5, <1>7 DEF k

LEMMA MenuHidden == menu = hidden({}) => MenuInv
<1> SUFFICES ASSUME menu = hidden({}) PROVE MenuInv
  OBVIOUS
<1> DEFINE active == {}
<1>1. active \in SUBSET Items /\ Bling \notin active
  OBVIOUS
<1> HIDE DEF active
<1>2. LET k == hidden(active)
      IN /\ k \in MenuState /\ Poses(k) /\ Reachable(k) /\ k.active = active
         /\ k.skin = "plain" /\ k.displayed = {"plain"} /\ k.transition = "hidden"
  BY <1>1, Hides
<1>3. menu = hidden(active)
  BY DEF active
<1> QED
  BY <1>1, <1>2, <1>3 DEF MenuInv, Skinned

LEMMA MenuBegins == MenuInit => MenuInv
<1> SUFFICES ASSUME MenuInit PROVE MenuInv
  OBVIOUS
<1> DEFINE active == {Bling}
           k == hidden(active)
<1>1. menu = hidden({}) \/ menu = setBlingPresentation(k, TRUE)
  BY DEF MenuInit
<1>2. active \in SUBSET Items /\ Bling \in active
  BY MenuAssumption DEF Items
<1> HIDE DEF active
<1>3. k \in MenuState /\ k.active = active
  BY <1>2, Hides
<1> HIDE DEF k
<1>4. CASE menu = setBlingPresentation(k, TRUE)
  <2>1. /\ menu \in MenuState /\ Reachable(menu) /\ Poses(menu) /\ menu.active = active
        /\ menu.skin = "amoebic" /\ menu.displayed = {"amoebic"} /\ menu.transition = "entering"
    BY <1>3, <1>4, Enters
  <2> QED
    BY <1>2, <2>1 DEF MenuInv, Skinned
<1> QED
  BY <1>1, <1>4, MenuHidden

LEMMA MenuWorks == MenuInv => MenuTypeOK /\ MenuUsable
<1> SUFFICES ASSUME MenuInv PROVE MenuTypeOK /\ MenuUsable
  OBVIOUS
<1>1. menu \in MenuState /\ Poses(menu) /\ Reachable(menu) /\ Skinned(menu)
  BY DEF MenuInv
<1>2. MenuTypeOK
  BY <1>1 DEF MenuTypeOK, MenuState, Tile
<1>3. PosesFollow
  BY <1>1 DEF PosesFollow, Poses, Posed
<1>4. TilesReachable
  BY <1>1 DEF TilesReachable, Reachable
<1>5. Cardinality(menu.displayed) = 1
  BY <1>1, FS_Singleton DEF Skinned
<1>6. OneMenu
  BY <1>1, <1>5 DEF OneMenu, Skinned
<1> QED
  BY <1>2, <1>3, <1>4, <1>6 DEF MenuUsable

-----------------------------------------------------------------------------
(* The deck.                                                               *)

DeckState ==
  [isOpen : BOOLEAN, index : SlideIndex, counter : SlideIndex, mounted : SlideIndex \union {NoSlide},
   opaque : BOOLEAN, written : BOOLEAN, timeout : BOOLEAN, frame : BOOLEAN, writing : BOOLEAN,
   disposed : BOOLEAN]

\* DeckSettles is inductive once the deck is a record of these fields.
DeckInv == deck \in DeckState /\ DeckSettles

\* Whatever is asked for, the next slide is one of the deck's.
LEMMA DeckClamps == ASSUME NEW i \in Int PROVE clamp_index(i) \in SlideIndex
  BY DeckAssumption DEF clamp_index, SlideIndex

LEMMA DeckBegins == DeckInit => DeckInv
  BY DeckAssumption DEF DeckInit, DeckInv, DeckState, DeckSettles, SlideIndex

\* Rendering leaves one timer running, and none of what was written before.
LEMMA DeckRenders ==
  ASSUME NEW k \in DeckState, k.isOpen
  PROVE  /\ render_current(k) \in DeckState
         /\ render_current(k).isOpen /\ render_current(k).counter = render_current(k).index
         /\ render_current(k).timeout /\ ~render_current(k).frame /\ ~render_current(k).writing
  BY DEF render_current, clear_timers, DeckState

LEMMA DeckClears ==
  ASSUME NEW k \in DeckState, ~k.isOpen
  PROVE  /\ clear_timers(k) \in DeckState /\ ~clear_timers(k).isOpen
         /\ ~clear_timers(k).timeout /\ ~clear_timers(k).frame /\ ~clear_timers(k).writing
  BY DEF clear_timers, DeckState

LEMMA DeckStep == DeckInv /\ [DeckNext]_deck => DeckInv'
<1> SUFFICES ASSUME DeckInv, [DeckNext]_deck PROVE DeckInv'
  OBVIOUS
<1> USE DEF DeckInv
<1>1. CASE open_deck
  <2> DEFINE k == [deck EXCEPT !.isOpen = TRUE]
  <2>1. k \in DeckState /\ k.isOpen BY DEF DeckState
  <2>2. deck' = render_current(k) BY <1>1 DEF open_deck
  <2> QED BY <2>1, <2>2, DeckRenders DEF DeckSettles
<1>2. CASE close_deck
  <2> DEFINE k == [deck EXCEPT !.isOpen = FALSE]
  <2>1. k \in DeckState /\ ~k.isOpen BY DEF DeckState
  <2>2. deck' = clear_timers(k) BY <1>2 DEF close_deck
  <2> QED BY <2>1, <2>2, DeckClears DEF DeckSettles
<1>3. ASSUME NEW i \in Int, goTo(i) PROVE DeckInv'
  <2> DEFINE k == [deck EXCEPT !.index = clamp_index(i)]
  <2>1. clamp_index(i) \in SlideIndex BY DeckClamps
  <2>2. k \in DeckState /\ k.isOpen BY <1>3, <2>1 DEF goTo, DeckState
  <2>3. deck' = render_current(k) BY <1>3 DEF goTo
  <2> QED BY <2>2, <2>3, DeckRenders DEF DeckSettles
<1>4. CASE mount_slide
  \* The timer runs only in an open deck that does nothing else.
  BY <1>4 DEF mount_slide, DeckSettles, DeckState
<1>5. CASE FadeIn BY <1>5 DEF FadeIn, DeckSettles, DeckState
<1>6. CASE write_text_value BY <1>6 DEF write_text_value, DeckSettles, DeckState
<1>7. CASE dispose_deck
  <2> DEFINE k == [deck EXCEPT !.disposed = TRUE, !.isOpen = FALSE]
  <2>1. k \in DeckState /\ ~k.isOpen BY DEF DeckState
  <2>2. deck' = clear_timers(k) BY <1>7 DEF dispose_deck
  <2> QED BY <2>1, <2>2, DeckClears DEF DeckSettles
<1>8. CASE UNCHANGED deck BY <1>8 DEF DeckSettles
<1>9. deck.index + 1 \in Int /\ deck.index - 1 \in Int BY DeckAssumption DEF DeckState, SlideIndex
<1> QED BY <1>1, <1>2, <1>3, <1>4, <1>5, <1>6, <1>7, <1>8, <1>9 DEF DeckNext

(* Decks of any length settle: an open one shows the slide it counts or    *)
(* has the timer running that will, a closed one has none (mount-deck.ts). *)
THEOREM Settles == DeckSpec => [](DeckTypeOK /\ DeckSettles)
<1>1. DeckInv => DeckTypeOK /\ DeckSettles BY DEF DeckInv, DeckState, DeckTypeOK
<1> QED BY DeckBegins, DeckStep, <1>1, PTL DEF DeckSpec

-----------------------------------------------------------------------------
(* The readers of texts, over texts of any number of lines.                *)

\* A reader's buffers and blocks.
BlockKinds == LineKinds \union {"paragraph", "code"}
Gatherings == [blocks : Seq([kind : BlockKinds, lines : Seq(Nat)]), para : Seq(Nat), list : Seq(Nat),
               listKind : BlockKinds, code : Seq(Nat), inCode : BOOLEAN]

Ascending(s) == \A a, b \in 1..Len(s) : a < b => s[a] < s[b]
Read(s, n, fences) == \A a \in 1..Len(s) : s[a] \in 1..n /\ s[a] \notin fences
Following(s, blocks, moved) ==
  \A i \in 1..Len(blocks) : \A a \in 1..Len(blocks[i].lines), b \in 1..Len(s) :
    \/ blocks[i].lines[a] < s[b]
    \/ blocks[i].lines[a] # s[b] /\ blocks[i].lines[a] \in moved
Buffered(s, n, fences, blocks, moved) == Ascending(s) /\ Read(s, n, fences) /\ Following(s, blocks, moved)

\* What a reader has made of n lines: its blocks are in order but for the moved
\* lines, at most one buffer is filled, with lines that follow all blocks, and
\* every line of the content is in a block or a buffer.
Reads(k, n, content, fences, moved) ==
  /\ k \in Gatherings
  /\ KeptInOrder(k.blocks, moved) /\ \A i \in 1..Len(k.blocks) : Read(k.blocks[i].lines, n, fences)
  /\ Buffered(k.para, n, fences, k.blocks, moved) /\ Buffered(k.list, n, fences, k.blocks, moved)
  /\ Buffered(k.code, n, fences, k.blocks, moved)
  /\ k.para = <<>> \/ k.list = <<>>
  /\ IF k.inCode THEN k.para = <<>> /\ k.list = <<>> ELSE k.code = <<>>
  /\ content \subseteq lines_of(k.blocks) \union ToSet(k.para) \union ToSet(k.list) \union ToSet(k.code)

Fences == {n \in 1..Len(reader.kinds) : reader.kinds[n] = "fence"}

\* The about view is within a fence where the number of fences is odd.
ReaderInv ==
  /\ reader = [kinds |-> reader.kinds, deck |-> reader.deck, about |-> reader.about]
  /\ reader.kinds \in Seq(LineKinds)
  /\ Reads(reader.deck, Len(reader.kinds), Content, Fences, {})
  /\ Reads(reader.about, Len(reader.kinds), Content, Fences, Hoisted)
  /\ reader.about.inCode <=> fenced(Len(reader.kinds))

\* Cutting blank lines off both ends leaves a run of the lines, with all that
\* are not blank.
RunOf(t, s, kinds) ==
  /\ t \in Seq(Nat)
  /\ \E c \in Nat : \A b \in 1..Len(t) : b + c \in 1..Len(s) /\ t[b] = s[b + c]
  /\ \A b \in 1..Len(s) : kinds[s[b]] # "blank" => \E a \in 1..Len(t) : t[a] = s[b]

LEMMA Trimmed ==
  ASSUME NEW s \in Seq(Nat), NEW kinds
  PROVE  RunOf(normalize_code_block_text(s, kinds), s, kinds)
<1> DEFINE t == normalize_code_block_text(s, kinds)
           full == {i \in 1..Len(s) : kinds[s[i]] # "blank"}
           low == Min(full)
           high == Max(full)
<1>1. Len(s) \in Nat /\ full \in SUBSET (1..Len(s)) /\ full \subseteq Nat
  OBVIOUS
<1>2. \A i \in 1..Len(s) : kinds[s[i]] # "blank" => i \in full
  OBVIOUS
<1>3. t = IF full = {} THEN <<>> ELSE SubSeq(s, low, high)
  BY DEF normalize_code_block_text
<1>4. \A i \in 1..Len(s) : s[i] \in Nat
  BY ElementOfSeq
<1> SUFFICES RunOf(t, s, kinds)
  OBVIOUS
<1> HIDE DEF full, t
<1>5. CASE full = {}
  <2>1. t = <<>> /\ t \in Seq(Nat) /\ Len(t) = 0
    BY <1>3, <1>5
  <2> QED
    <3>1. \A b \in 1..Len(t) : b + 0 \in 1..Len(s) /\ t[b] = s[b + 0]
      BY <2>1
    <3>2. \A b \in 1..Len(s) : kinds[s[b]] # "blank" => \E a \in 1..Len(t) : t[a] = s[b]
      BY <1>2, <1>5
    <3>3. \E c \in Nat : \A b \in 1..Len(t) : b + c \in 1..Len(s) /\ t[b] = s[b + c]
      BY <3>1
    <3> QED
      BY <2>1, <3>2, <3>3 DEF RunOf
<1>6. CASE full # {}
  <2>1. low \in full /\ high \in full /\ \A i \in full : low <= i /\ i <= high
    BY <1>1, <1>6, Smallest, Uppermost
  <2>2. low \in 1..Len(s) /\ high \in 1..Len(s) /\ low <= high
    BY <1>1, <2>1
  <2>3. t = SubSeq(s, low, high)
    BY <1>3, <1>6
  <2> HIDE DEF low, high
  <2>4. \A i \in low..high : s[i] \in Nat
    BY <1>1, <1>4, <2>2
  <2>5. /\ t \in Seq(Nat) /\ Len(t) = high - low + 1
        /\ \A b \in 1..high - low + 1 : t[b] = s[low + b - 1]
    BY <2>2, <2>3, <2>4, SubSeqProperties
  <2>6. low - 1 \in Nat /\ \A b \in 1..Len(t) : b + (low - 1) \in 1..Len(s) /\ t[b] = s[b + (low - 1)]
    BY <1>1, <2>2, <2>5
  <2>7. ASSUME NEW b \in 1..Len(s), kinds[s[b]] # "blank" PROVE \E a \in 1..Len(t) : t[a] = s[b]
    <3>1. b \in full /\ low <= b /\ b <= high
      BY <1>2, <2>1, <2>7
    <3>2. b - low + 1 \in 1..high - low + 1 /\ low + (b - low + 1) - 1 = b
      BY <1>1, <2>2, <3>1
    <3> QED
      BY <2>5, <3>2
  <2> QED
    <3>1. \E c \in Nat : \A b \in 1..Len(t) : b + c \in 1..Len(s) /\ t[b] = s[b + c]
      BY <2>6
    <3> QED
      BY <2>5, <2>7, <3>1 DEF RunOf
<1> QED
  BY <1>5, <1>6

\* A block more at the end.
LEMMA Mounting ==
  ASSUME NEW k \in Gatherings, NEW kind \in BlockKinds, NEW s \in Seq(Nat),
         NEW blocks, blocks = Append(k.blocks, Block(kind, s))
  PROVE  /\ blocks \in Seq([kind : BlockKinds, lines : Seq(Nat)]) /\ Len(blocks) = Len(k.blocks) + 1
         /\ Len(k.blocks) \in Nat /\ blocks[Len(k.blocks) + 1].lines = s
         /\ \A i \in 1..Len(k.blocks) : blocks[i] = k.blocks[i]
<1>1. k.blocks \in Seq([kind : BlockKinds, lines : Seq(Nat)])
  BY DEF Gatherings
<1>2. Block(kind, s) \in [kind : BlockKinds, lines : Seq(Nat)] /\ Block(kind, s).lines = s
  BY DEF Block
<1> DEFINE last == Block(kind, s)
<1> HIDE DEF last
<1>3. last \in [kind : BlockKinds, lines : Seq(Nat)] /\ last.lines = s /\ blocks = Append(k.blocks, last)
  BY <1>2 DEF last
<1> QED
  BY <1>1, <1>3, AppendProperties

LEMMA LinesMounted ==
  ASSUME NEW k \in Gatherings, NEW kind \in BlockKinds, NEW s \in Seq(Nat),
         NEW blocks, blocks = Append(k.blocks, Block(kind, s))
  PROVE  lines_of(blocks) = lines_of(k.blocks) \union ToSet(s)
<1> DEFINE n == Len(k.blocks)
<1>1. /\ Len(blocks) = n + 1 /\ n \in Nat /\ blocks[n + 1].lines = s
      /\ \A i \in 1..n : blocks[i] = k.blocks[i]
  BY Mounting
<1>2. lines_of(blocks) = UNION {ToSet(blocks[i].lines) : i \in 1..n + 1}
  BY <1>1 DEF lines_of
<1>3. lines_of(k.blocks) = UNION {ToSet(blocks[i].lines) : i \in 1..n}
  BY <1>1 DEF lines_of
<1>4. 1..n + 1 = (1..n) \union {n + 1}
  BY <1>1
<1> HIDE DEF n
<1> DEFINE told(i) == ToSet(blocks[i].lines)
<1>5. lines_of(blocks) = UNION {told(i) : i \in (1..n) \union {n + 1}}
  BY <1>2, <1>4
<1>6. lines_of(k.blocks) = UNION {told(i) : i \in 1..n}
  BY <1>3
<1>7. told(n + 1) = ToSet(s)
  BY <1>1
<1> HIDE DEF told
<1> QED
  BY <1>5, <1>6, <1>7

\* Lines that follow all blocks may be mounted as the next.
LEMMA MountedInOrder ==
  ASSUME NEW k \in Gatherings, NEW kind \in BlockKinds, NEW s \in Seq(Nat), NEW n \in Nat, NEW fences, NEW moved,
         KeptInOrder(k.blocks, moved), \A i \in 1..Len(k.blocks) : Read(k.blocks[i].lines, n, fences),
         Buffered(s, n, fences, k.blocks, moved),
         NEW blocks, blocks = Append(k.blocks, Block(kind, s))
  PROVE  KeptInOrder(blocks, moved) /\ \A i \in 1..Len(blocks) : Read(blocks[i].lines, n, fences)
<1> DEFINE m == Len(k.blocks)
<1>1. /\ Len(blocks) = m + 1 /\ m \in Nat /\ blocks[m + 1].lines = s
      /\ \A i \in 1..m : blocks[i] = k.blocks[i]
  BY Mounting
<1>2. \A i \in 1..m + 1 : i \in 1..m \/ i = m + 1
  BY <1>1
<1>3. \A i \in 1..Len(blocks) : Read(blocks[i].lines, n, fences)
  BY <1>1, <1>2 DEF Buffered
<1>4. ASSUME NEW i \in 1..Len(blocks), NEW j \in 1..Len(blocks),
             NEW a \in 1..Len(blocks[i].lines), NEW b \in 1..Len(blocks[j].lines),
             i < j \/ (i = j /\ a < b)
      PROVE  \/ blocks[i].lines[a] < blocks[j].lines[b]
             \/ /\ blocks[i].lines[a] # blocks[j].lines[b]
                /\ blocks[i].lines[a] \in moved \/ blocks[j].lines[b] \in moved
  <2>1. CASE i \in 1..m /\ j \in 1..m
    <3>1. blocks[i] = k.blocks[i] /\ blocks[j] = k.blocks[j]
      BY <1>1, <2>1
    <3>2. /\ i \in 1..Len(k.blocks) /\ j \in 1..Len(k.blocks)
          /\ a \in 1..Len(k.blocks[i].lines) /\ b \in 1..Len(k.blocks[j].lines)
      BY <2>1, <3>1
    <3>3. \/ k.blocks[i].lines[a] < k.blocks[j].lines[b]
          \/ /\ k.blocks[i].lines[a] # k.blocks[j].lines[b]
             /\ k.blocks[i].lines[a] \in moved \/ k.blocks[j].lines[b] \in moved
      BY <1>4, <3>2 DEF KeptInOrder
    <3> QED
      BY <3>1, <3>3
  <2>2. CASE i \in 1..m /\ j = m + 1
    <3>1. blocks[i] = k.blocks[i] /\ blocks[j].lines = s
      BY <1>1, <2>2
    <3> QED
      BY <2>2, <3>1 DEF Buffered, Following
  <2>3. CASE i = m + 1 /\ j = m + 1
    <3>1. blocks[i].lines = s /\ blocks[j].lines = s /\ a < b
      BY <1>1, <1>4, <2>3
    <3> QED
      BY <3>1 DEF Buffered, Ascending
  <2>4. ~(i = m + 1 /\ j \in 1..m)
    BY <1>1, <1>4
  <2> QED
    BY <1>1, <1>2, <2>1, <2>2, <2>3, <2>4
<1> QED
  BY <1>3, <1>4 DEF KeptInOrder

\* A buffer with nothing in it.
LEMMA EmptyBuffer ==
  ASSUME NEW n, NEW fences, NEW blocks, NEW moved
  PROVE  Buffered(<<>>, n, fences, blocks, moved) /\ ToSet(<<>>) = {}
<1>1. Len(<<>>) = 0 /\ DOMAIN <<>> = {}
  OBVIOUS
<1>2. \A a \in 1..0 : FALSE
  OBVIOUS
<1> QED
  BY <1>1, <1>2 DEF Buffered, Ascending, Read, Following, ToSet

\* What follows the blocks follows them with one more line of the text read.
LEMMA LineLater ==
  ASSUME NEW k \in Gatherings, NEW n \in Nat, NEW s \in Seq(Nat), NEW fences, NEW moved,
         Buffered(s, n, fences, k.blocks, moved),
         NEW fences2, fences2 \subseteq fences \union {n + 1}, NEW moved2, moved \subseteq moved2
  PROVE  Buffered(s, n + 1, fences2, k.blocks, moved2)
<1>1. \A a \in 1..Len(s) : s[a] \in 1..n /\ s[a] \notin fences
  BY DEF Buffered, Read
<1>2. \A a \in 1..Len(s) : s[a] \in 1..n + 1 /\ s[a] # n + 1
  BY <1>1
<1>3. Read(s, n + 1, fences2)
  BY <1>1, <1>2 DEF Read
<1>4. Following(s, k.blocks, moved2)
  BY DEF Buffered, Following
<1> QED
  BY <1>3, <1>4 DEF Buffered

LEMMA Gained ==
  ASSUME NEW s \in Seq(Nat), NEW x \in Nat
  PROVE  ToSet(Append(s, x)) = ToSet(s) \union {x}
<1> DEFINE m == Len(s)
           t == Append(s, x)
<1>1. /\ Len(t) = m + 1 /\ t[m + 1] = x /\ m \in Nat /\ t \in Seq(Nat)
      /\ \A a \in 1..m : t[a] = s[a]
  BY AppendProperties
<1> HIDE DEF t
<1>2. DOMAIN t = 1..m + 1 /\ DOMAIN s = 1..m /\ 1..m + 1 = (1..m) \union {m + 1}
  BY <1>1, LenProperties
<1> HIDE DEF m
<1>3. ToSet(t) = ToSet(s) \union {x}
  BY <1>1, <1>2 DEF ToSet
<1> QED
  BY <1>3 DEF t

\* The next line follows all that were read.
LEMMA LineBuffered ==
  ASSUME NEW k \in Gatherings, NEW n \in Nat, NEW s \in Seq(Nat), NEW fences, NEW moved,
         Buffered(s, n, fences, k.blocks, moved),
         \A i \in 1..Len(k.blocks) : Read(k.blocks[i].lines, n, fences),
         NEW fences2, fences2 \subseteq fences, n + 1 \notin fences2, NEW moved2, moved \subseteq moved2,
         NEW t, t = Append(s, n + 1)
  PROVE  t \in Seq(Nat) /\ Buffered(t, n + 1, fences2, k.blocks, moved2)
<1> DEFINE m == Len(s)
<1>1. /\ t \in Seq(Nat) /\ Len(t) = m + 1 /\ t[m + 1] = n + 1 /\ m \in Nat
      /\ \A a \in 1..m : t[a] = s[a]
  BY AppendProperties
<1>2. \A a \in 1..m + 1 : a \in 1..m \/ a = m + 1
  BY <1>1
<1>3. \A a \in 1..m : s[a] \in 1..n /\ s[a] \notin fences
  BY DEF Buffered, Read
<1>4. \A i \in 1..Len(k.blocks) : \A a \in 1..Len(k.blocks[i].lines) : k.blocks[i].lines[a] \in 1..n
  BY DEF Read
<1>6. Read(t, n + 1, fences2)
  <2> SUFFICES ASSUME NEW a \in 1..m + 1 PROVE t[a] \in 1..n + 1 /\ t[a] \notin fences2
    BY <1>1 DEF Read
  <2>1. CASE a = m + 1
    BY <1>1, <2>1
  <2>2. CASE a \in 1..m
    BY <1>1, <1>3, <2>2
  <2> QED
    BY <1>2, <2>1, <2>2
<1>7. Ascending(t)
  <2> SUFFICES ASSUME NEW a \in 1..m + 1, NEW b \in 1..m + 1, a < b PROVE t[a] < t[b]
    BY <1>1 DEF Ascending
  <2>1. a \in 1..m
    BY <1>1
  <2>2. CASE b = m + 1
    BY <1>1, <1>3, <2>1, <2>2
  <2>3. CASE b \in 1..m
    BY <1>1, <2>1, <2>3 DEF Buffered, Ascending
  <2> QED
    BY <1>2, <2>2, <2>3
<1>8. Following(t, k.blocks, moved2)
  <2> SUFFICES ASSUME NEW i \in 1..Len(k.blocks), NEW a \in 1..Len(k.blocks[i].lines), NEW b \in 1..m + 1
               PROVE  \/ k.blocks[i].lines[a] < t[b]
                      \/ k.blocks[i].lines[a] # t[b] /\ k.blocks[i].lines[a] \in moved2
    BY <1>1 DEF Following
  <2>1. CASE b = m + 1
    BY <1>1, <1>4, <2>1
  <2>2. CASE b \in 1..m
    BY <1>1, <2>2 DEF Buffered, Following
  <2> QED
    BY <1>2, <2>1, <2>2
<1> QED
  BY <1>1, <1>6, <1>7, <1>8 DEF Buffered

LEMMA BlocksLater ==
  ASSUME NEW blocks, NEW n \in Nat, NEW fences, NEW moved, KeptInOrder(blocks, moved),
         \A i \in 1..Len(blocks) : Read(blocks[i].lines, n, fences),
         NEW fences2, fences2 \subseteq fences \union {n + 1}, NEW moved2, moved \subseteq moved2
  PROVE  KeptInOrder(blocks, moved2) /\ \A i \in 1..Len(blocks) : Read(blocks[i].lines, n + 1, fences2)
<1>1. KeptInOrder(blocks, moved2)
  BY DEF KeptInOrder
<1>2. ASSUME NEW i \in 1..Len(blocks), NEW a \in 1..Len(blocks[i].lines)
      PROVE  blocks[i].lines[a] \in 1..n + 1 /\ blocks[i].lines[a] \notin fences2
  <2>1. blocks[i].lines[a] \in 1..n /\ blocks[i].lines[a] \notin fences
    BY DEF Read
  <2> QED
    BY <2>1
<1> QED
  BY <1>1, <1>2 DEF Read

\* A line that is in no block and no buffer, blank or a fence.
LEMMA Passing ==
  ASSUME NEW k, NEW n \in Nat, NEW content, NEW fences, NEW moved, Reads(k, n, content, fences, moved),
         NEW content2, content2 \subseteq content, NEW fences2, fences2 \subseteq fences \union {n + 1},
         NEW moved2, moved \subseteq moved2
  PROVE  Reads(k, n + 1, content2, fences2, moved2)
<1>1. k \in Gatherings /\ k.para \in Seq(Nat) /\ k.list \in Seq(Nat) /\ k.code \in Seq(Nat)
  BY DEF Reads, Gatherings
<1>2. /\ Buffered(k.para, n, fences, k.blocks, moved) /\ Buffered(k.list, n, fences, k.blocks, moved)
      /\ Buffered(k.code, n, fences, k.blocks, moved)
      /\ KeptInOrder(k.blocks, moved) /\ \A i \in 1..Len(k.blocks) : Read(k.blocks[i].lines, n, fences)
  BY DEF Reads
<1>3. /\ Buffered(k.para, n + 1, fences2, k.blocks, moved2) /\ Buffered(k.list, n + 1, fences2, k.blocks, moved2)
      /\ Buffered(k.code, n + 1, fences2, k.blocks, moved2)
  BY <1>1, <1>2, LineLater
<1>4. KeptInOrder(k.blocks, moved2) /\ \A i \in 1..Len(k.blocks) : Read(k.blocks[i].lines, n + 1, fences2)
  BY <1>2, BlocksLater
<1> QED
  BY <1>3, <1>4 DEF Reads

\* The buffer that is filled becomes a block, and none is filled.
LEMMA Emptied ==
  ASSUME NEW k, NEW n \in Nat, NEW content, NEW fences, NEW moved, Reads(k, n, content, fences, moved),
         NEW kind \in BlockKinds, NEW s \in Seq(Nat), Buffered(s, n, fences, k.blocks, moved),
         content \intersect (ToSet(k.para) \union ToSet(k.list) \union ToSet(k.code)) \subseteq ToSet(s),
         NEW e \in Gatherings, e.blocks = Append(k.blocks, Block(kind, s)),
         e.para = <<>>, e.list = <<>>, e.code = <<>>
  PROVE  Reads(e, n, content, fences, moved)
<1>1. k \in Gatherings
  BY DEF Reads
<1>2. KeptInOrder(k.blocks, moved) /\ \A i \in 1..Len(k.blocks) : Read(k.blocks[i].lines, n, fences)
  BY DEF Reads
<1>3. KeptInOrder(e.blocks, moved) /\ \A i \in 1..Len(e.blocks) : Read(e.blocks[i].lines, n, fences)
  BY <1>1, <1>2, MountedInOrder
<1> DEFINE blocks == Append(k.blocks, Block(kind, s))
<1>4. lines_of(blocks) = lines_of(k.blocks) \union ToSet(s)
  <2>1. blocks = Append(k.blocks, Block(kind, s))
    OBVIOUS
  <2> HIDE DEF blocks
  <2> QED
    BY <1>1, <2>1, LinesMounted
<1>5. /\ Buffered(e.para, n, fences, e.blocks, moved) /\ Buffered(e.list, n, fences, e.blocks, moved)
      /\ Buffered(e.code, n, fences, e.blocks, moved)
  BY EmptyBuffer
<1>6. content \subseteq lines_of(k.blocks) \union ToSet(k.para) \union ToSet(k.list) \union ToSet(k.code)
  BY DEF Reads
<1>7. content \subseteq lines_of(e.blocks)
  BY <1>4, <1>6
<1> QED
  BY <1>3, <1>5, <1>7 DEF Reads

\* With no buffer filled, a fence may open or close.
LEMMA FenceOnly ==
  ASSUME NEW k, NEW n \in Nat, NEW content, NEW fences, NEW moved, Reads(k, n, content, fences, moved),
         k.para = <<>>, k.list = <<>>, k.code = <<>>,
         NEW e \in Gatherings, e.blocks = k.blocks, e.para = <<>>, e.list = <<>>, e.code = <<>>
  PROVE  Reads(e, n, content, fences, moved)
BY DEF Reads

\* The next line as a block of its own.
mounted(k, kind, m) == Append(k.blocks, Block(kind, <<m>>))

LEMMA OneLine ==
  ASSUME NEW k \in Gatherings, NEW m \in Nat, m # 0, NEW kind \in BlockKinds, NEW fences, m \notin fences, NEW moved,
         KeptInOrder(k.blocks, moved), \A i \in 1..Len(k.blocks) : Read(k.blocks[i].lines, m, fences),
         \A i \in 1..Len(k.blocks) : \A a \in 1..Len(k.blocks[i].lines) : k.blocks[i].lines[a] # m
  PROVE  /\ KeptInOrder(mounted(k, kind, m), moved) /\ lines_of(mounted(k, kind, m)) = lines_of(k.blocks) \union {m}
         /\ \A i \in 1..Len(mounted(k, kind, m)) : Read(mounted(k, kind, m)[i].lines, m, fences)
<1> DEFINE s == <<m>>
           blocks == mounted(k, kind, m)
<1>0. blocks = Append(k.blocks, Block(kind, s))
  BY DEF mounted
<1>1. s \in Seq(Nat) /\ Len(s) = 1 /\ s[1] = m /\ ToSet(s) = {m}
  BY DEF ToSet
<1> HIDE DEF s, blocks
<1>2. \A b \in 1..Len(s) : b = 1
  BY <1>1
<1>3. Ascending(s) /\ Read(s, m, fences)
  BY <1>1, <1>2 DEF Ascending, Read
<1>4. Following(s, k.blocks, moved)
  <2>1. \A i \in 1..Len(k.blocks) : \A a \in 1..Len(k.blocks[i].lines) : k.blocks[i].lines[a] < m
    BY DEF Read
  <2> QED
    BY <1>1, <1>2, <2>1 DEF Following
<1>5. Buffered(s, m, fences, k.blocks, moved)
  BY <1>3, <1>4 DEF Buffered
<1>6. KeptInOrder(blocks, moved) /\ \A i \in 1..Len(blocks) : Read(blocks[i].lines, m, fences)
  BY <1>0, <1>1, <1>5, MountedInOrder, ZenonT(60)
<1>7. lines_of(blocks) = lines_of(k.blocks) \union ToSet(s)
  BY <1>0, <1>1, LinesMounted
<1> QED
  BY <1>1, <1>6, <1>7 DEF blocks

LEMMA LastLine ==
  ASSUME NEW k \in Gatherings, NEW m \in Nat, NEW kind \in BlockKinds
  PROVE  /\ Len(mounted(k, kind, m)) = Len(k.blocks) + 1 /\ Len(k.blocks) \in Nat
         /\ \A i \in 1..Len(k.blocks) : mounted(k, kind, m)[i] = k.blocks[i]
         /\ Len(mounted(k, kind, m)[Len(k.blocks) + 1].lines) = 1
         /\ mounted(k, kind, m)[Len(k.blocks) + 1].lines[1] = m
<1> DEFINE s == <<m>>
           blocks == mounted(k, kind, m)
<1>0. blocks = Append(k.blocks, Block(kind, s))
  BY DEF mounted
<1>1. s \in Seq(Nat) /\ Len(s) = 1 /\ s[1] = m
  OBVIOUS
<1> HIDE DEF s, blocks
<1>2. /\ Len(blocks) = Len(k.blocks) + 1 /\ Len(k.blocks) \in Nat /\ blocks[Len(k.blocks) + 1].lines = s
      /\ \A i \in 1..Len(k.blocks) : blocks[i] = k.blocks[i]
  BY <1>0, <1>1, Mounting
<1> QED
  BY <1>1, <1>2 DEF blocks

\* A line that is a block of its own, where no buffer is filled or the line may
\* be moved before the buffer's.
LEMMA Alone ==
  ASSUME NEW k, NEW n \in Nat, NEW content, NEW fences, NEW moved, Reads(k, n, content, fences, moved),
         NEW content2, content2 \subseteq content \union {n + 1}, NEW fences2, fences2 \subseteq fences,
         n + 1 \notin fences2, NEW moved2, moved \subseteq moved2, NEW kind \in BlockKinds,
         n + 1 \in moved2 \/ (k.para = <<>> /\ k.list = <<>> /\ k.code = <<>>),
         NEW e \in Gatherings, e.blocks = mounted(k, kind, n + 1),
         e.para = k.para, e.list = k.list, e.code = k.code, e.inCode = k.inCode
  PROVE  Reads(e, n + 1, content2, fences2, moved2)
<1>1. k \in Gatherings /\ k.para \in Seq(Nat) /\ k.list \in Seq(Nat) /\ k.code \in Seq(Nat)
  BY DEF Reads, Gatherings
<1>3. Reads(k, n + 1, content, fences2, moved2)
  <2>1. content \subseteq content /\ fences2 \subseteq fences \union {n + 1}
    OBVIOUS
  <2> QED
    BY <2>1, Passing
<1>4. \A i \in 1..Len(k.blocks) : \A a \in 1..Len(k.blocks[i].lines) : k.blocks[i].lines[a] \in 1..n
  BY DEF Reads, Read
<1> DEFINE blocks == mounted(k, kind, n + 1)
<1>5. e.blocks = blocks
  OBVIOUS
<1>6. KeptInOrder(k.blocks, moved2) /\ \A i \in 1..Len(k.blocks) : Read(k.blocks[i].lines, n + 1, fences2)
  BY <1>3 DEF Reads
<1> HIDE DEF blocks
<1>7. /\ KeptInOrder(blocks, moved2) /\ \A i \in 1..Len(blocks) : Read(blocks[i].lines, n + 1, fences2)
      /\ lines_of(blocks) = lines_of(k.blocks) \union {n + 1}
  <2> DEFINE m == n + 1
  <2>1. m \notin fences2 /\ m \in Nat /\ m # 0
    OBVIOUS
  <2>2. \A i \in 1..Len(k.blocks) : \A a \in 1..Len(k.blocks[i].lines) : k.blocks[i].lines[a] # m
    BY <1>4
  <2>3. \A i \in 1..Len(k.blocks) : Read(k.blocks[i].lines, m, fences2)
    BY <1>6
  <2> HIDE DEF m
  <2>4. /\ KeptInOrder(mounted(k, kind, m), moved2)
        /\ lines_of(mounted(k, kind, m)) = lines_of(k.blocks) \union {m}
        /\ \A i \in 1..Len(mounted(k, kind, m)) : Read(mounted(k, kind, m)[i].lines, m, fences2)
    BY <1>1, <1>6, <2>1, <2>2, <2>3, OneLine
  <2> QED
    BY <2>4 DEF m, blocks
<1>10. content2 \subseteq lines_of(e.blocks) \union ToSet(e.para) \union ToSet(e.list) \union ToSet(e.code)
  <2>1. content \subseteq lines_of(k.blocks) \union ToSet(k.para) \union ToSet(k.list) \union ToSet(k.code)
    BY DEF Reads
  <2> QED
    BY <1>5, <1>7, <2>1
<1>11. ASSUME NEW t \in {k.para, k.list, k.code} PROVE Buffered(t, n + 1, fences2, blocks, moved2)
  <2>1. /\ t \in Seq(Nat) /\ Buffered(t, n, fences, k.blocks, moved)
        /\ Buffered(t, n + 1, fences2, k.blocks, moved2)
    BY <1>1, <1>3 DEF Reads
  <2>2. CASE t = <<>>
    BY <2>2, EmptyBuffer
  <2>3. CASE n + 1 \in moved2
    <3> DEFINE m == Len(k.blocks)
    <3>1. /\ Len(blocks) = m + 1 /\ m \in Nat /\ \A i \in 1..m : blocks[i] = k.blocks[i]
          /\ Len(blocks[m + 1].lines) = 1 /\ blocks[m + 1].lines[1] = n + 1
      <4>1. n + 1 \in Nat
        OBVIOUS
      <4> QED
        BY <1>1, <4>1, LastLine DEF blocks
    <3>2. \A i \in 1..m + 1 : i \in 1..m \/ i = m + 1
      BY <3>1
    <3>3. \A b \in 1..Len(t) : t[b] \in 1..n
      BY <2>1 DEF Buffered, Read
    <3>4. Following(t, blocks, moved2)
      <4> SUFFICES ASSUME NEW i \in 1..m + 1, NEW a \in 1..Len(blocks[i].lines), NEW b \in 1..Len(t)
                   PROVE  \/ blocks[i].lines[a] < t[b]
                          \/ blocks[i].lines[a] # t[b] /\ blocks[i].lines[a] \in moved2
        BY <3>1 DEF Following
      <4>1. CASE i = m + 1
        <5>1. a \in 1..1
          BY <3>1, <4>1
        <5>2. a = 1
          BY <5>1
        <5> QED
          <6>1. blocks[i].lines[a] = n + 1 /\ t[b] \in 1..n
            BY <3>1, <3>3, <4>1, <5>2
          <6> QED
            BY <2>3, <6>1
      <4>2. CASE i \in 1..m
        <5>1. blocks[i] = k.blocks[i] /\ a \in 1..Len(k.blocks[i].lines) /\ i \in 1..Len(k.blocks)
          BY <3>1, <4>2
        <5>2. \/ k.blocks[i].lines[a] < t[b]
              \/ k.blocks[i].lines[a] # t[b] /\ k.blocks[i].lines[a] \in moved2
          BY <2>1, <5>1 DEF Buffered, Following
        <5> QED
          BY <5>1, <5>2
      <4> QED
        BY <3>2, <4>1, <4>2
    <3> QED
      BY <2>1, <3>4 DEF Buffered
  <2> QED
    BY <2>2, <2>3
<1>12. e.para = <<>> \/ e.list = <<>>
  BY DEF Reads
<1>13. IF e.inCode THEN e.para = <<>> /\ e.list = <<>> ELSE e.code = <<>>
  BY DEF Reads
<1> QED
  BY <1>5, <1>7, <1>10, <1>11, <1>12, <1>13 DEF Reads

\* A line that is gathered.
LEMMA GatheredLine ==
  ASSUME NEW k, NEW n \in Nat, NEW content, NEW fences, NEW moved, Reads(k, n, content, fences, moved),
         NEW content2, content2 \subseteq content \union {n + 1}, NEW fences2, fences2 \subseteq fences,
         n + 1 \notin fences2, NEW moved2, moved \subseteq moved2,
         NEW e \in Gatherings, e.blocks = k.blocks, e.inCode = k.inCode,
         \/ /\ ~k.inCode /\ k.list = <<>>
            /\ e.para = Append(k.para, n + 1) /\ e.list = k.list /\ e.code = k.code
         \/ /\ ~k.inCode /\ k.para = <<>>
            /\ e.list = Append(k.list, n + 1) /\ e.para = k.para /\ e.code = k.code
         \/ k.inCode /\ e.code = Append(k.code, n + 1) /\ e.para = k.para /\ e.list = k.list
  PROVE  Reads(e, n + 1, content2, fences2, moved2)
<1>1. k \in Gatherings /\ k.para \in Seq(Nat) /\ k.list \in Seq(Nat) /\ k.code \in Seq(Nat)
  BY DEF Reads, Gatherings
<1>2. Reads(k, n + 1, content, fences2, moved2)
  <2>1. content \subseteq content /\ fences2 \subseteq fences \union {n + 1}
    OBVIOUS
  <2> QED
    BY <2>1, Passing
<1>3. \A i \in 1..Len(k.blocks) : Read(k.blocks[i].lines, n, fences)
  BY DEF Reads
<1>4. ASSUME NEW s \in Seq(Nat), Buffered(s, n, fences, k.blocks, moved)
      PROVE  /\ Buffered(Append(s, n + 1), n + 1, fences2, k.blocks, moved2)
             /\ ToSet(Append(s, n + 1)) = ToSet(s) \union {n + 1}
  <2> DEFINE t == Append(s, n + 1)
  <2>1. t = Append(s, n + 1)
    OBVIOUS
  <2> HIDE DEF t
  <2>2. Buffered(t, n + 1, fences2, k.blocks, moved2)
    BY <1>1, <1>3, <1>4, <2>1, LineBuffered
  <2>3. ToSet(Append(s, n + 1)) = ToSet(s) \union {n + 1}
    BY Gained
  <2> QED
    BY <2>1, <2>2, <2>3
<1>5. /\ Buffered(k.para, n, fences, k.blocks, moved) /\ Buffered(k.list, n, fences, k.blocks, moved)
      /\ Buffered(k.code, n, fences, k.blocks, moved)
  BY DEF Reads
<1>6. /\ Buffered(k.para, n + 1, fences2, k.blocks, moved2) /\ Buffered(k.list, n + 1, fences2, k.blocks, moved2)
      /\ Buffered(k.code, n + 1, fences2, k.blocks, moved2)
      /\ KeptInOrder(k.blocks, moved2) /\ \A i \in 1..Len(k.blocks) : Read(k.blocks[i].lines, n + 1, fences2)
  BY <1>2 DEF Reads
<1>7. content \subseteq lines_of(k.blocks) \union ToSet(k.para) \union ToSet(k.list) \union ToSet(k.code)
  BY DEF Reads
<1>8. /\ k.para = <<>> \/ k.list = <<>>
      /\ IF k.inCode THEN k.para = <<>> /\ k.list = <<>> ELSE k.code = <<>>
  BY DEF Reads
<1>9. CASE /\ ~k.inCode /\ k.list = <<>>
           /\ e.para = Append(k.para, n + 1) /\ e.list = k.list /\ e.code = k.code
  <2>1. /\ Buffered(e.para, n + 1, fences2, k.blocks, moved2) /\ ToSet(e.para) = ToSet(k.para) \union {n + 1}
    BY <1>1, <1>4, <1>5, <1>9
  <2>2. content2 \subseteq lines_of(e.blocks) \union ToSet(e.para) \union ToSet(e.list) \union ToSet(e.code)
    BY <1>7, <1>9, <2>1
  <2> QED
    BY <1>6, <1>8, <1>9, <2>1, <2>2 DEF Reads
<1>10. CASE /\ ~k.inCode /\ k.para = <<>>
            /\ e.list = Append(k.list, n + 1) /\ e.para = k.para /\ e.code = k.code
  <2>1. /\ Buffered(e.list, n + 1, fences2, k.blocks, moved2) /\ ToSet(e.list) = ToSet(k.list) \union {n + 1}
    BY <1>1, <1>4, <1>5, <1>10
  <2>2. content2 \subseteq lines_of(e.blocks) \union ToSet(e.para) \union ToSet(e.list) \union ToSet(e.code)
    BY <1>7, <1>10, <2>1
  <2> QED
    BY <1>6, <1>8, <1>10, <2>1, <2>2 DEF Reads
<1>11. CASE k.inCode /\ e.code = Append(k.code, n + 1) /\ e.para = k.para /\ e.list = k.list
  <2>1. /\ Buffered(e.code, n + 1, fences2, k.blocks, moved2) /\ ToSet(e.code) = ToSet(k.code) \union {n + 1}
    BY <1>1, <1>4, <1>5, <1>11
  <2>2. content2 \subseteq lines_of(e.blocks) \union ToSet(e.para) \union ToSet(e.list) \union ToSet(e.code)
    BY <1>7, <1>11, <2>1
  <2> QED
    BY <1>6, <1>8, <1>11, <2>1, <2>2 DEF Reads
<1> QED
  BY <1>9, <1>10, <1>11

\* The fields of a reader that a step writes.
LEMMA ReaderFields ==
  ASSUME NEW k \in Gatherings
  PROVE  /\ k.blocks \in Seq([kind : BlockKinds, lines : Seq(Nat)]) /\ k.para \in Seq(Nat) /\ k.list \in Seq(Nat)
         /\ k.listKind \in BlockKinds /\ k.code \in Seq(Nat) /\ k.inCode \in BOOLEAN
         /\ k = [blocks |-> k.blocks, para |-> k.para, list |-> k.list, listKind |-> k.listKind,
                 code |-> k.code, inCode |-> k.inCode]
BY DEF Gatherings

LEMMA Mounts ==
  ASSUME NEW k \in Gatherings, NEW blocks
  PROVE  [k EXCEPT !.blocks = blocks] = [blocks |-> blocks, para |-> k.para, list |-> k.list,
                                         listKind |-> k.listKind, code |-> k.code, inCode |-> k.inCode]
<1>1. k = [blocks |-> k.blocks, para |-> k.para, list |-> k.list, listKind |-> k.listKind,
           code |-> k.code, inCode |-> k.inCode]
  BY ReaderFields
<1> QED
  BY <1>1

LEMMA Emission ==
  ASSUME NEW k \in Gatherings, NEW kind \in BlockKinds, NEW s \in Seq(Nat)
  PROVE  Append(k.blocks, Block(kind, s)) \in Seq([kind : BlockKinds, lines : Seq(Nat)])
<1> DEFINE blocks == Append(k.blocks, Block(kind, s))
<1>1. blocks = Append(k.blocks, Block(kind, s))
  OBVIOUS
<1> HIDE DEF blocks
<1>2. blocks \in Seq([kind : BlockKinds, lines : Seq(Nat)])
  BY <1>1, Mounting
<1> QED
  BY <1>1, <1>2

\* A flush of the paragraph, and of the list, leaves what was read as it was.
LEMMA ParaFlushes ==
  ASSUME NEW k, NEW n \in Nat, NEW content, NEW fences, NEW moved, Reads(k, n, content, fences, moved),
         NEW e, e = flushPara(k)
  PROVE  /\ Reads(e, n, content, fences, moved) /\ e.para = <<>> /\ e.list = k.list /\ e.code = k.code
         /\ e.inCode = k.inCode /\ e.listKind = k.listKind
<1>1. CASE k.para = <<>>
  BY <1>1 DEF flushPara
<1>2. CASE k.para # <<>>
  <2> DEFINE none == <<>>
             blocks == Append(k.blocks, Block("paragraph", k.para))
  <2>1. k \in Gatherings
    BY DEF Reads
  <2>2. none \in Seq(Nat) /\ blocks \in Seq([kind : BlockKinds, lines : Seq(Nat)])
    <3>1. none \in Seq(Nat) /\ "paragraph" \in BlockKinds
      BY EmptySeq DEF BlockKinds
    <3>2. k.para \in Seq(Nat)
      BY <2>1, ReaderFields
    <3> QED
      BY <2>1, <3>1, <3>2, Emission
  <2>3. e = [[k EXCEPT !.blocks = blocks] EXCEPT !.para = none]
    BY <1>2 DEF flushPara, emitted
  <2> HIDE DEF none, blocks
  <2>4. [k EXCEPT !.blocks = blocks] = [blocks |-> blocks, para |-> k.para, list |-> k.list,
                                        listKind |-> k.listKind, code |-> k.code, inCode |-> k.inCode]
    BY <2>1, Mounts
  <2>5. e = [blocks |-> blocks, para |-> none, list |-> k.list, listKind |-> k.listKind,
             code |-> k.code, inCode |-> k.inCode]
    BY <2>3, <2>4
  <2>6. /\ e \in Gatherings /\ e.blocks = blocks /\ e.para = none /\ e.list = k.list
        /\ e.listKind = k.listKind /\ e.code = k.code /\ e.inCode = k.inCode
    <3>1. /\ k.para \in Seq(Nat) /\ k.list \in Seq(Nat) /\ k.listKind \in BlockKinds
          /\ k.code \in Seq(Nat) /\ k.inCode \in BOOLEAN
      BY <2>1, ReaderFields
    <3>2. e \in Gatherings
      BY <2>2, <2>5, <3>1 DEF Gatherings
    <3> QED
      BY <2>5, <3>2
  <2>7. k.list = <<>> /\ k.code = <<>> /\ Buffered(k.para, n, fences, k.blocks, moved)
    BY <1>2 DEF Reads
  <2>8. content \intersect (ToSet(k.para) \union ToSet(k.list) \union ToSet(k.code)) \subseteq ToSet(k.para)
    BY <2>7, EmptyBuffer
  <2>9. Reads(e, n, content, fences, moved)
    <3>1. e.blocks = Append(k.blocks, Block("paragraph", k.para)) /\ e.para = <<>> /\ e.list = <<>>
          /\ e.code = <<>>
      BY <2>6, <2>7 DEF blocks, none
    <3>2. k.para \in Seq(Nat)
      BY <2>1, ReaderFields
    <3>3. "paragraph" \in BlockKinds
      BY DEF BlockKinds
    <3> QED
      BY <2>6, <2>7, <2>8, <3>1, <3>2, <3>3, Emptied
  <2> QED
    BY <2>6, <2>9 DEF none
<1> QED
  BY <1>1, <1>2

LEMMA ListFlushes ==
  ASSUME NEW k, NEW n \in Nat, NEW content, NEW fences, NEW moved, Reads(k, n, content, fences, moved),
         NEW e, e = flushList(k)
  PROVE  /\ Reads(e, n, content, fences, moved) /\ e.list = <<>> /\ e.para = k.para /\ e.code = k.code
         /\ e.inCode = k.inCode /\ e.listKind = k.listKind
<1>1. CASE k.list = <<>>
  BY <1>1 DEF flushList
<1>2. CASE k.list # <<>>
  <2> DEFINE none == <<>>
             blocks == Append(k.blocks, Block(k.listKind, k.list))
  <2>1. k \in Gatherings
    BY DEF Reads
  <2>2. none \in Seq(Nat) /\ blocks \in Seq([kind : BlockKinds, lines : Seq(Nat)])
    <3>1. none \in Seq(Nat)
      OBVIOUS
    <3>2. k.list \in Seq(Nat) /\ k.listKind \in BlockKinds
      BY <2>1, ReaderFields
    <3> QED
      BY <2>1, <3>1, <3>2, Emission
  <2>3. e = [[k EXCEPT !.blocks = blocks] EXCEPT !.list = none]
    BY <1>2 DEF flushList, emitted
  <2> HIDE DEF none, blocks
  <2>4. [k EXCEPT !.blocks = blocks] = [blocks |-> blocks, para |-> k.para, list |-> k.list,
                                        listKind |-> k.listKind, code |-> k.code, inCode |-> k.inCode]
    BY <2>1, Mounts
  <2>5. e = [blocks |-> blocks, para |-> k.para, list |-> none, listKind |-> k.listKind,
             code |-> k.code, inCode |-> k.inCode]
    BY <2>3, <2>4
  <2>6. /\ e \in Gatherings /\ e.blocks = blocks /\ e.para = k.para /\ e.list = none
        /\ e.listKind = k.listKind /\ e.code = k.code /\ e.inCode = k.inCode
    <3>1. /\ k.para \in Seq(Nat) /\ k.list \in Seq(Nat) /\ k.listKind \in BlockKinds
          /\ k.code \in Seq(Nat) /\ k.inCode \in BOOLEAN
      BY <2>1, ReaderFields
    <3>2. e \in Gatherings
      BY <2>2, <2>5, <3>1 DEF Gatherings
    <3> QED
      BY <2>5, <3>2
  <2>7. k.para = <<>> /\ k.code = <<>> /\ Buffered(k.list, n, fences, k.blocks, moved)
    BY <1>2 DEF Reads
  <2>8. content \intersect (ToSet(k.para) \union ToSet(k.list) \union ToSet(k.code)) \subseteq ToSet(k.list)
    BY <2>7, EmptyBuffer
  <2>9. Reads(e, n, content, fences, moved)
    <3>1. e.blocks = Append(k.blocks, Block(k.listKind, k.list)) /\ e.para = <<>> /\ e.list = <<>>
          /\ e.code = <<>> /\ k.list \in Seq(Nat) /\ k.listKind \in BlockKinds
      BY <2>1, <2>6, <2>7, ReaderFields DEF blocks, none
    <3> QED
      BY <2>6, <2>7, <2>8, <3>1, Emptied
  <2> QED
    BY <2>6, <2>9 DEF none
<1> QED
  BY <1>1, <1>2

LEMMA Flushes ==
  ASSUME NEW k, NEW n \in Nat, NEW content, NEW fences, NEW moved, Reads(k, n, content, fences, moved),
         NEW e, e = flushed(k)
  PROVE  /\ Reads(e, n, content, fences, moved) /\ e.para = <<>> /\ e.list = <<>> /\ e.code = k.code
         /\ e.inCode = k.inCode /\ e.listKind = k.listKind
<1> DEFINE d == flushPara(k)
<1>1. e = flushList(d) /\ d = flushPara(k)
  BY DEF flushed
<1> HIDE DEF d
<1>2. /\ Reads(d, n, content, fences, moved) /\ d.para = <<>> /\ d.list = k.list /\ d.code = k.code
      /\ d.inCode = k.inCode /\ d.listKind = k.listKind
  BY <1>1, ParaFlushes
<1> QED
  BY <1>1, <1>2, ListFlushes

\* What is left of a code block's lines is still in order, and has its content.
LEMMA TrimmedBuffer ==
  ASSUME NEW k \in Gatherings, NEW n \in Nat, NEW content, NEW fences, NEW moved,
         Buffered(k.code, n, fences, k.blocks, moved), NEW kinds, \A m \in content : kinds[m] # "blank",
         NEW t, RunOf(t, k.code, kinds)
  PROVE  t \in Seq(Nat) /\ Buffered(t, n, fences, k.blocks, moved) /\ content \intersect ToSet(k.code) \subseteq ToSet(t)
<1> DEFINE s == k.code
<1>1. s \in Seq(Nat) /\ RunOf(t, s, kinds)
  BY ReaderFields
<1>2. Ascending(s) /\ Read(s, n, fences) /\ Following(s, k.blocks, moved)
  BY DEF Buffered
<1> HIDE DEF s
<1>3. /\ t \in Seq(Nat)
      /\ \E c \in Nat : \A b \in 1..Len(t) : b + c \in 1..Len(s) /\ t[b] = s[b + c]
      /\ \A b \in 1..Len(s) : kinds[s[b]] # "blank" => \E a \in 1..Len(t) : t[a] = s[b]
  BY <1>1 DEF RunOf
<1>4. PICK c \in Nat : \A b \in 1..Len(t) : b + c \in 1..Len(s) /\ t[b] = s[b + c]
  BY <1>3
<1>5. Ascending(t)
  <2> SUFFICES ASSUME NEW a \in 1..Len(t), NEW b \in 1..Len(t), a < b PROVE t[a] < t[b]
    BY DEF Ascending
  <2>1. a + c \in 1..Len(s) /\ b + c \in 1..Len(s) /\ a + c < b + c /\ t[a] = s[a + c] /\ t[b] = s[b + c]
    BY <1>4
  <2> QED
    BY <1>2, <2>1 DEF Ascending
<1>6. Read(t, n, fences)
  BY <1>2, <1>4 DEF Read
<1>7. Following(t, k.blocks, moved)
  <2> SUFFICES ASSUME NEW i \in 1..Len(k.blocks), NEW a \in 1..Len(k.blocks[i].lines), NEW b \in 1..Len(t)
               PROVE  \/ k.blocks[i].lines[a] < t[b]
                      \/ k.blocks[i].lines[a] # t[b] /\ k.blocks[i].lines[a] \in moved
    BY DEF Following
  <2>1. b + c \in 1..Len(s) /\ t[b] = s[b + c]
    BY <1>4
  <2> QED
    BY <1>2, <2>1 DEF Following
<1>8. content \intersect ToSet(s) \subseteq ToSet(t)
  <2> SUFFICES ASSUME NEW m \in content, m \in ToSet(s) PROVE m \in ToSet(t)
    OBVIOUS
  <2>1. DOMAIN s = 1..Len(s) /\ DOMAIN t = 1..Len(t)
    BY <1>1, <1>3, LenProperties
  <2>2. PICK b \in 1..Len(s) : s[b] = m
    BY <2>1 DEF ToSet
  <2>3. PICK a \in 1..Len(t) : t[a] = m
    BY <1>3, <2>2
  <2> QED
    BY <2>1, <2>3 DEF ToSet
<1> QED
  BY <1>3, <1>5, <1>6, <1>7, <1>8 DEF Buffered, s

LEMMA DeckCodeEnds ==
  ASSUME NEW k, NEW n \in Nat, NEW content, NEW fences, NEW moved, Reads(k, n, content, fences, moved),
         k.inCode, NEW kinds, \A m \in content : kinds[m] # "blank",
         NEW e, e = deck_code(k, kinds)
  PROVE  Reads(e, n, content, fences, moved) /\ e.para = <<>> /\ e.list = <<>> /\ e.code = <<>>
<1> DEFINE s == normalize_code_block_text(k.code, kinds)
           blocks == Append(k.blocks, Block("code", s))
           none == <<>>
           out == FALSE
<1>1. k \in Gatherings /\ k.para = <<>> /\ k.list = <<>> /\ Buffered(k.code, n, fences, k.blocks, moved)
  BY DEF Reads
<1>2. s = normalize_code_block_text(k.code, kinds) /\ blocks = Append(k.blocks, Block("code", s)) /\ none = <<>>
  OBVIOUS
<1>3. e = [[k EXCEPT !.blocks = blocks] EXCEPT !.code = none, !.inCode = out]
  BY DEF deck_code, emitted
<1>4. none \in Seq(Nat) /\ out \in BOOLEAN
  BY EmptySeq
<1> HIDE DEF s, blocks, none, out
<1>5. s \in Seq(Nat) /\ Buffered(s, n, fences, k.blocks, moved) /\ content \intersect ToSet(k.code) \subseteq ToSet(s)
  <2>1. RunOf(s, k.code, kinds)
    <3>1. k.code \in Seq(Nat)
      BY <1>1, ReaderFields
    <3> QED
      BY <1>2, <3>1, Trimmed
  <2> QED
    BY <1>1, <2>1, TrimmedBuffer
<1>6. /\ k.para \in Seq(Nat) /\ k.list \in Seq(Nat) /\ k.listKind \in BlockKinds
      /\ k.code \in Seq(Nat) /\ k.inCode \in BOOLEAN
      /\ k = [blocks |-> k.blocks, para |-> k.para, list |-> k.list, listKind |-> k.listKind,
              code |-> k.code, inCode |-> k.inCode]
  BY <1>1, ReaderFields
<1>7. "code" \in BlockKinds
  BY DEF BlockKinds
<1>8. blocks \in Seq([kind : BlockKinds, lines : Seq(Nat)])
  <2>1. Append(k.blocks, Block("code", s)) \in Seq([kind : BlockKinds, lines : Seq(Nat)])
    BY <1>1, <1>5, <1>7, Emission
  <2> QED
    BY <1>2, <2>1
<1>9. [k EXCEPT !.blocks = blocks] = [blocks |-> blocks, para |-> k.para, list |-> k.list,
                                      listKind |-> k.listKind, code |-> k.code, inCode |-> k.inCode]
  BY <1>1, Mounts
<1>10. e = [blocks |-> blocks, para |-> k.para, list |-> k.list, listKind |-> k.listKind,
            code |-> none, inCode |-> out]
  BY <1>3, <1>9
<1>11. e \in Gatherings
  BY <1>4, <1>6, <1>8, <1>10 DEF Gatherings
<1>12. e.blocks = blocks /\ e.para = k.para /\ e.list = k.list /\ e.code = none
  BY <1>10
<1>13. content \intersect (ToSet(k.para) \union ToSet(k.list) \union ToSet(k.code)) \subseteq ToSet(s)
  BY <1>1, <1>5, EmptyBuffer
<1>14. e.blocks = Append(k.blocks, Block("code", s)) /\ e.para = <<>> /\ e.list = <<>> /\ e.code = <<>>
  BY <1>1, <1>2, <1>12
<1> QED
  BY <1>5, <1>7, <1>11, <1>13, <1>14, Emptied

SameBuffers(d, k) ==
  d \in Gatherings /\ d.blocks = k.blocks /\ d.para = k.para /\ d.list = k.list /\ d.code = k.code

LEMMA CodeFlushes ==
  ASSUME NEW k, NEW n \in Nat, NEW content, NEW fences, NEW moved, Reads(k, n, content, fences, moved),
         k.inCode, NEW d, SameBuffers(d, k)
  PROVE  /\ Reads(flushCode(d), n, content, fences, moved) /\ flushCode(d).inCode = d.inCode
         /\ flushCode(d).para = <<>> /\ flushCode(d).list = <<>> /\ flushCode(d).code = <<>>
<1> DEFINE e == flushCode(d)
<1> SUFFICES /\ Reads(e, n, content, fences, moved) /\ e.inCode = d.inCode
             /\ e.para = <<>> /\ e.list = <<>> /\ e.code = <<>>
  OBVIOUS
<1>4. e = flushCode(d)
  OBVIOUS
<1> HIDE DEF e
<1>0. d \in Gatherings /\ d.blocks = k.blocks /\ d.para = k.para /\ d.list = k.list /\ d.code = k.code
  BY DEF SameBuffers
<1>1. k \in Gatherings /\ k.para = <<>> /\ k.list = <<>> /\ Buffered(k.code, n, fences, k.blocks, moved)
  BY DEF Reads
<1>2. CASE d.code = <<>>
  <2>1. e = d
    BY <1>2, <1>4 DEF flushCode
  <2> QED
    BY <1>0, <1>1, <1>2, <2>1, FenceOnly
<1>3. CASE d.code # <<>>
  <2> DEFINE blocks == Append(k.blocks, Block("code", k.code))
             none == <<>>
  <2>1. blocks = Append(k.blocks, Block("code", k.code)) /\ none = <<>>
    OBVIOUS
  <2>2. e = [[d EXCEPT !.blocks = blocks] EXCEPT !.code = none]
    BY <1>0, <1>3, <1>4 DEF flushCode, emitted
  <2>3. none \in Seq(Nat)
    BY EmptySeq
  <2> HIDE DEF blocks, none
  <2>4. /\ d.para \in Seq(Nat) /\ d.list \in Seq(Nat) /\ d.listKind \in BlockKinds
        /\ d.code \in Seq(Nat) /\ d.inCode \in BOOLEAN
        /\ d = [blocks |-> d.blocks, para |-> d.para, list |-> d.list, listKind |-> d.listKind,
                code |-> d.code, inCode |-> d.inCode]
    BY <1>0, ReaderFields
  <2>5. "code" \in BlockKinds
    BY DEF BlockKinds
  <2>13. k.code \in Seq(Nat)
    BY <1>1, ReaderFields
  <2>6. blocks \in Seq([kind : BlockKinds, lines : Seq(Nat)])
    <3>1. Append(k.blocks, Block("code", k.code)) \in Seq([kind : BlockKinds, lines : Seq(Nat)])
      BY <1>1, <2>5, <2>13, Emission
    <3> QED
      BY <2>1, <3>1
  <2>7. [d EXCEPT !.blocks = blocks] = [blocks |-> blocks, para |-> d.para, list |-> d.list,
                                        listKind |-> d.listKind, code |-> d.code, inCode |-> d.inCode]
    BY <1>0, Mounts
  <2>8. e = [blocks |-> blocks, para |-> d.para, list |-> d.list, listKind |-> d.listKind,
             code |-> none, inCode |-> d.inCode]
    BY <2>2, <2>7
  <2>9. e \in Gatherings
    BY <2>3, <2>4, <2>6, <2>8 DEF Gatherings
  <2>10. e.blocks = blocks /\ e.para = d.para /\ e.list = d.list /\ e.code = none /\ e.inCode = d.inCode
    BY <2>8
  <2>11. content \intersect (ToSet(k.para) \union ToSet(k.list) \union ToSet(k.code)) \subseteq ToSet(k.code)
    BY <1>1, EmptyBuffer
  <2>12. e.blocks = Append(k.blocks, Block("code", k.code)) /\ e.para = <<>> /\ e.list = <<>> /\ e.code = <<>>
    BY <1>0, <1>1, <2>1, <2>10
  <2> QED
    BY <1>1, <2>5, <2>9, <2>10, <2>11, <2>12, <2>13, Emptied
<1> QED
  BY <1>2, <1>3

\* What a line does to a reader's fields: it is gathered, is a block of its own,
\* or opens or closes a fence.
LEMMA CodeGathers ==
  ASSUME NEW k \in Gatherings, NEW m \in Nat, NEW e, e = [k EXCEPT !.code = Append(@, m)]
  PROVE  /\ e \in Gatherings /\ e.blocks = k.blocks /\ e.inCode = k.inCode /\ e.listKind = k.listKind
         /\ e.code = Append(k.code, m) /\ e.para = k.para /\ e.list = k.list
<1> DEFINE more == Append(k.code, m)
<1>1. more \in Seq(Nat)
  BY ReaderFields, AppendProperties
<1>2. e = [k EXCEPT !.code = more]
  OBVIOUS
<1> HIDE DEF more
<1>3. k = [blocks |-> k.blocks, para |-> k.para, list |-> k.list, listKind |-> k.listKind,
           code |-> k.code, inCode |-> k.inCode]
  BY ReaderFields
<1>4. e = [blocks |-> k.blocks, para |-> k.para, list |-> k.list, listKind |-> k.listKind,
           code |-> more, inCode |-> k.inCode]
  BY <1>2, <1>3
<1>5. e \in Gatherings
  BY <1>1, <1>4, ReaderFields DEF Gatherings
<1> QED
  BY <1>4, <1>5 DEF more

LEMMA ParaGathers ==
  ASSUME NEW k \in Gatherings, NEW m \in Nat, NEW e, e = [k EXCEPT !.para = Append(@, m)]
  PROVE  /\ e \in Gatherings /\ e.blocks = k.blocks /\ e.inCode = k.inCode /\ e.listKind = k.listKind
         /\ e.para = Append(k.para, m) /\ e.code = k.code /\ e.list = k.list
<1> DEFINE more == Append(k.para, m)
<1>1. more \in Seq(Nat)
  BY ReaderFields, AppendProperties
<1>2. e = [k EXCEPT !.para = more]
  OBVIOUS
<1> HIDE DEF more
<1>3. k = [blocks |-> k.blocks, para |-> k.para, list |-> k.list, listKind |-> k.listKind,
           code |-> k.code, inCode |-> k.inCode]
  BY ReaderFields
<1>4. e = [blocks |-> k.blocks, para |-> more, list |-> k.list, listKind |-> k.listKind,
           code |-> k.code, inCode |-> k.inCode]
  BY <1>2, <1>3
<1>5. e \in Gatherings
  BY <1>1, <1>4, ReaderFields DEF Gatherings
<1> QED
  BY <1>4, <1>5 DEF more

LEMMA ListGathers ==
  ASSUME NEW k \in Gatherings, NEW m \in Nat, NEW e, e = [k EXCEPT !.list = Append(@, m)]
  PROVE  /\ e \in Gatherings /\ e.blocks = k.blocks /\ e.inCode = k.inCode /\ e.listKind = k.listKind
         /\ e.list = Append(k.list, m) /\ e.code = k.code /\ e.para = k.para
<1> DEFINE more == Append(k.list, m)
<1>1. more \in Seq(Nat)
  BY ReaderFields, AppendProperties
<1>2. e = [k EXCEPT !.list = more]
  OBVIOUS
<1> HIDE DEF more
<1>3. k = [blocks |-> k.blocks, para |-> k.para, list |-> k.list, listKind |-> k.listKind,
           code |-> k.code, inCode |-> k.inCode]
  BY ReaderFields
<1>4. e = [blocks |-> k.blocks, para |-> k.para, list |-> more, listKind |-> k.listKind,
           code |-> k.code, inCode |-> k.inCode]
  BY <1>2, <1>3
<1>5. e \in Gatherings
  BY <1>1, <1>4, ReaderFields DEF Gatherings
<1> QED
  BY <1>4, <1>5 DEF more

LEMMA KindTaken ==
  ASSUME NEW k \in Gatherings, NEW kind \in BlockKinds, NEW e, e = [k EXCEPT !.listKind = kind]
  PROVE  /\ e \in Gatherings /\ e.blocks = k.blocks /\ e.inCode = k.inCode
         /\ e.list = k.list /\ e.code = k.code /\ e.para = k.para
<1>3. k = [blocks |-> k.blocks, para |-> k.para, list |-> k.list, listKind |-> k.listKind,
           code |-> k.code, inCode |-> k.inCode]
  BY ReaderFields
<1>4. e = [blocks |-> k.blocks, para |-> k.para, list |-> k.list, listKind |-> kind,
           code |-> k.code, inCode |-> k.inCode]
  BY <1>3
<1>5. e \in Gatherings
  BY <1>4, ReaderFields DEF Gatherings
<1> QED
  BY <1>4, <1>5

LEMMA FenceTurned ==
  ASSUME NEW k \in Gatherings, NEW in \in BOOLEAN, NEW e, e = [k EXCEPT !.inCode = in]
  PROVE  /\ e \in Gatherings /\ e.blocks = k.blocks /\ e.inCode = in /\ e.listKind = k.listKind
         /\ e.list = k.list /\ e.code = k.code /\ e.para = k.para
<1>3. k = [blocks |-> k.blocks, para |-> k.para, list |-> k.list, listKind |-> k.listKind,
           code |-> k.code, inCode |-> k.inCode]
  BY ReaderFields
<1>4. e = [blocks |-> k.blocks, para |-> k.para, list |-> k.list, listKind |-> k.listKind,
           code |-> k.code, inCode |-> in]
  BY <1>3
<1>5. e \in Gatherings
  BY <1>4, ReaderFields DEF Gatherings
<1> QED
  BY <1>4, <1>5

LEMMA OwnBlock ==
  ASSUME NEW k \in Gatherings, NEW m \in Nat, NEW kind \in BlockKinds, NEW e, e = emitted(k, kind, <<m>>)
  PROVE  /\ e \in Gatherings /\ e.blocks = mounted(k, kind, m) /\ e.inCode = k.inCode
         /\ e.list = k.list /\ e.code = k.code /\ e.para = k.para
<1> DEFINE s == <<m>>
           blocks == Append(k.blocks, Block(kind, s))
<1>1. s \in Seq(Nat)
  OBVIOUS
<1>2. e = [k EXCEPT !.blocks = blocks] /\ blocks = mounted(k, kind, m)
  BY DEF emitted, mounted
<1> HIDE DEF s
<1>3. blocks \in Seq([kind : BlockKinds, lines : Seq(Nat)])
  BY <1>1, Emission
<1> HIDE DEF blocks
<1>4. e = [blocks |-> blocks, para |-> k.para, list |-> k.list, listKind |-> k.listKind,
           code |-> k.code, inCode |-> k.inCode]
  BY <1>2, Mounts
<1>5. e \in Gatherings
  BY <1>3, <1>4, ReaderFields DEF Gatherings
<1> QED
  BY <1>2, <1>4, <1>5

\* The next line is shown, or is not: a fence or a blank line.
LineShown(n, content, content2, fences, fences2, moved, moved2) ==
  /\ content2 \subseteq content \union {n + 1} /\ fences2 \subseteq fences /\ n + 1 \notin fences2
  /\ moved \subseteq moved2
LineSkipped(n, content, content2, fences, fences2, moved, moved2) ==
  content2 \subseteq content /\ fences2 \subseteq fences \union {n + 1} /\ moved \subseteq moved2

LEMMA ThenPasses ==
  ASSUME NEW k, NEW n \in Nat, NEW content, NEW fences, NEW moved, Reads(k, n, content, fences, moved),
         NEW content2, NEW fences2, NEW moved2, LineSkipped(n, content, content2, fences, fences2, moved, moved2)
  PROVE  Reads(k, n + 1, content2, fences2, moved2)
<1>1. content2 \subseteq content /\ fences2 \subseteq fences \union {n + 1} /\ moved \subseteq moved2
  BY DEF LineSkipped
<1> QED
  BY <1>1, Passing

\* The next line read by a flushed reader.
LEMMA ThenAlone ==
  ASSUME NEW k, NEW n \in Nat, NEW content, NEW fences, NEW moved, Reads(k, n, content, fences, moved),
         ~k.inCode, NEW content2, NEW fences2, NEW moved2,
         LineShown(n, content, content2, fences, fences2, moved, moved2), NEW kind \in BlockKinds,
         NEW e, e = emitted(flushed(k), kind, <<n + 1>>)
  PROVE  Reads(e, n + 1, content2, fences2, moved2) /\ e.inCode = k.inCode
<1>9. /\ content2 \subseteq content \union {n + 1} /\ fences2 \subseteq fences /\ n + 1 \notin fences2
      /\ moved \subseteq moved2
  BY DEF LineShown
<1> DEFINE d == flushed(k)
<1>1. d = flushed(k) /\ e = emitted(d, kind, <<n + 1>>)
  OBVIOUS
<1> HIDE DEF d
<1>2. /\ Reads(d, n, content, fences, moved) /\ d.para = <<>> /\ d.list = <<>> /\ d.code = k.code
      /\ d.inCode = k.inCode
  BY <1>1, Flushes
<1>3. k.code = <<>>
  BY DEF Reads
<1>4. d \in Gatherings /\ n + 1 \in Nat
  BY <1>2 DEF Reads
<1>5. /\ e \in Gatherings /\ e.blocks = mounted(d, kind, n + 1) /\ e.inCode = d.inCode
      /\ e.list = d.list /\ e.code = d.code /\ e.para = d.para
  BY <1>1, <1>4, OwnBlock
<1>6. d.code = <<>>
  BY <1>2, <1>3
<1>7. Reads(e, n + 1, content2, fences2, moved2)
  BY <1>9, <1>2, <1>5, <1>6, Alone
<1> QED
  BY <1>2, <1>5, <1>7

LEMMA ThenOpens ==
  ASSUME NEW k, NEW n \in Nat, NEW content, NEW fences, NEW moved, Reads(k, n, content, fences, moved),
         ~k.inCode, NEW content2, NEW fences2, NEW moved2,
         LineSkipped(n, content, content2, fences, fences2, moved, moved2),
         NEW e, e = [flushed(k) EXCEPT !.inCode = TRUE]
  PROVE  Reads(e, n + 1, content2, fences2, moved2) /\ e.inCode
<1>9. content2 \subseteq content /\ fences2 \subseteq fences \union {n + 1} /\ moved \subseteq moved2
  BY DEF LineSkipped
<1> DEFINE d == flushed(k)
           in == TRUE
<1>1. d = flushed(k) /\ e = [d EXCEPT !.inCode = in] /\ in \in BOOLEAN /\ in
  OBVIOUS
<1> HIDE DEF d, in
<1>2. /\ Reads(d, n, content, fences, moved) /\ d.para = <<>> /\ d.list = <<>> /\ d.code = k.code
  BY <1>1, Flushes
<1>3. k.code = <<>>
  BY DEF Reads
<1>4. d \in Gatherings
  BY <1>2 DEF Reads
<1>5. /\ e \in Gatherings /\ e.blocks = d.blocks /\ e.inCode = in
      /\ e.list = d.list /\ e.code = d.code /\ e.para = d.para
  BY <1>1, <1>4, FenceTurned
<1>6. d.code = <<>> /\ e.code = <<>> /\ e.para = <<>> /\ e.list = <<>>
  BY <1>2, <1>3, <1>5
<1>7. Reads(e, n, content, fences, moved)
  BY <1>2, <1>5, <1>6, FenceOnly
<1> QED
  BY <1>9, <1>1, <1>5, <1>7, Passing

LEMMA ThenGathers ==
  ASSUME NEW k, NEW n \in Nat, NEW content, NEW fences, NEW moved, Reads(k, n, content, fences, moved),
         ~k.inCode, NEW content2, NEW fences2, NEW moved2,
         LineShown(n, content, content2, fences, fences2, moved, moved2),
         NEW e, \/ e = [flushList(k) EXCEPT !.para = Append(@, n + 1)]
                \/ e = [flushPara(k) EXCEPT !.list = Append(@, n + 1)]
  PROVE  Reads(e, n + 1, content2, fences2, moved2) /\ e.inCode = k.inCode
<1>9. /\ content2 \subseteq content \union {n + 1} /\ fences2 \subseteq fences /\ n + 1 \notin fences2
      /\ moved \subseteq moved2
  BY DEF LineShown
<1>0. n + 1 \in Nat
  OBVIOUS
<1>1. CASE e = [flushList(k) EXCEPT !.para = Append(@, n + 1)]
  <2> DEFINE d == flushList(k)
  <2>1. d = flushList(k) /\ e = [d EXCEPT !.para = Append(@, n + 1)]
    BY <1>1
  <2> HIDE DEF d
  <2>2. Reads(d, n, content, fences, moved) /\ d.list = <<>> /\ d.inCode = k.inCode
    BY <2>1, ListFlushes
  <2>3. d \in Gatherings
    BY <2>2 DEF Reads
  <2>4. /\ e \in Gatherings /\ e.blocks = d.blocks /\ e.inCode = d.inCode
        /\ e.para = Append(d.para, n + 1) /\ e.code = d.code /\ e.list = d.list
    BY <1>0, <2>1, <2>3, ParaGathers
  <2>5. ~d.inCode
    BY <2>2
  <2> QED
    BY <1>9, <2>2, <2>4, <2>5, GatheredLine
<1>2. CASE e = [flushPara(k) EXCEPT !.list = Append(@, n + 1)]
  <2> DEFINE d == flushPara(k)
  <2>1. d = flushPara(k) /\ e = [d EXCEPT !.list = Append(@, n + 1)]
    BY <1>2
  <2> HIDE DEF d
  <2>2. Reads(d, n, content, fences, moved) /\ d.para = <<>> /\ d.inCode = k.inCode
    BY <2>1, ParaFlushes
  <2>3. d \in Gatherings
    BY <2>2 DEF Reads
  <2>4. /\ e \in Gatherings /\ e.blocks = d.blocks /\ e.inCode = d.inCode
        /\ e.list = Append(d.list, n + 1) /\ e.code = d.code /\ e.para = d.para
    BY <1>0, <2>1, <2>3, ListGathers
  <2>5. ~d.inCode
    BY <2>2
  <2> QED
    BY <1>9, <2>2, <2>4, <2>5, GatheredLine
<1> QED
  BY <1>1, <1>2

LEMMA ListGoesOn ==
  ASSUME NEW k, NEW n \in Nat, NEW content, NEW fences, NEW moved, Reads(k, n, content, fences, moved),
         ~k.inCode, k.list # <<>>, NEW content2, NEW fences2, NEW moved2,
         LineShown(n, content, content2, fences, fences2, moved, moved2),
         NEW e, e = [k EXCEPT !.list = Append(@, n + 1)]
  PROVE  Reads(e, n + 1, content2, fences2, moved2) /\ e.inCode = k.inCode
<1>9. /\ content2 \subseteq content \union {n + 1} /\ fences2 \subseteq fences /\ n + 1 \notin fences2
      /\ moved \subseteq moved2
  BY DEF LineShown
<1>1. k \in Gatherings /\ n + 1 \in Nat /\ k.para = <<>>
  BY DEF Reads
<1>2. /\ e \in Gatherings /\ e.blocks = k.blocks /\ e.inCode = k.inCode
      /\ e.list = Append(k.list, n + 1) /\ e.code = k.code /\ e.para = k.para
  BY <1>1, ListGathers
<1> QED
  BY <1>9, <1>1, <1>2, GatheredLine

LEMMA CodeGoesOn ==
  ASSUME NEW k, NEW n \in Nat, NEW content, NEW fences, NEW moved, Reads(k, n, content, fences, moved),
         k.inCode, NEW content2, NEW fences2, NEW moved2,
         LineShown(n, content, content2, fences, fences2, moved, moved2),
         NEW e, e = [k EXCEPT !.code = Append(@, n + 1)]
  PROVE  Reads(e, n + 1, content2, fences2, moved2) /\ e.inCode = k.inCode
<1>9. /\ content2 \subseteq content \union {n + 1} /\ fences2 \subseteq fences /\ n + 1 \notin fences2
      /\ moved \subseteq moved2
  BY DEF LineShown
<1>1. k \in Gatherings /\ n + 1 \in Nat
  BY DEF Reads
<1>2. /\ e \in Gatherings /\ e.blocks = k.blocks /\ e.inCode = k.inCode
      /\ e.code = Append(k.code, n + 1) /\ e.list = k.list /\ e.para = k.para
  BY <1>1, CodeGathers
<1> QED
  BY <1>9, <1>2, GatheredLine

\* What the next line adds to the content, and to the fences.
Adds(n, kind, content, content2, fences, fences2, moved, moved2) ==
  /\ kind # "fence" => LineShown(n, content, content2, fences, fences2, moved, moved2)
  /\ kind \in {"blank", "fence"} => LineSkipped(n, content, content2, fences, fences2, moved, moved2)

\* A line more is read by the deck, whatever its kind.
LEMMA DeckReads ==
  ASSUME NEW k, NEW n \in Nat, NEW content, NEW fences, NEW moved, Reads(k, n, content, fences, moved),
         NEW kinds, \A m \in content : kinds[m] # "blank",
         NEW kind \in LineKinds, kinds[n + 1] = kind,
         NEW content2, NEW fences2, NEW moved2,
         Adds(n, kind, content, content2, fences, fences2, moved, moved2),
         NEW e, e = parse_deck_markdown(k, n + 1, kinds)
  PROVE  Reads(e, n + 1, content2, fences2, moved2)
<1>1. /\ kind # "fence" => LineShown(n, content, content2, fences, fences2, moved, moved2)
      /\ kind \in {"blank", "fence"} => LineSkipped(n, content, content2, fences, fences2, moved, moved2)
  BY DEF Adds
<1>2. e = IF k.inCode
          THEN IF kind = "fence" THEN deck_code(k, kinds) ELSE [k EXCEPT !.code = Append(@, n + 1)]
          ELSE IF kind = "deck-rule" THEN emitted(flushed(k), "rule", <<n + 1>>)
          ELSE IF kind = "fence" THEN [flushed(k) EXCEPT !.inCode = TRUE]
          ELSE IF kind = "heading" THEN emitted(flushed(k), "heading", <<n + 1>>)
          ELSE IF kind = "blank" THEN flushed(k)
          ELSE IF kind \in {"bullet", "ordered", "nested"}
          THEN [flushPara(k) EXCEPT !.list = Append(@, n + 1)]
          ELSE IF kind = "indented" /\ k.list # <<>> THEN [k EXCEPT !.list = Append(@, n + 1)]
          ELSE [flushList(k) EXCEPT !.para = Append(@, n + 1)]
  BY Zenon DEF parse_deck_markdown
<1>3. "rule" \in BlockKinds /\ "heading" \in BlockKinds
  BY DEF BlockKinds, LineKinds
<1>4. CASE k.inCode /\ kind = "fence"
  <2>1. e = deck_code(k, kinds)
    BY <1>2, <1>4, Zenon
  <2>2. Reads(e, n, content, fences, moved)
    BY <1>4, <2>1, DeckCodeEnds
  <2> QED
    BY <1>1, <1>4, <2>2, ThenPasses
<1>5. CASE k.inCode /\ kind # "fence"
  <2>1. e = [k EXCEPT !.code = Append(@, n + 1)]
    BY <1>2, <1>5, Zenon
  <2> QED
    BY <1>1, <1>5, <2>1, CodeGoesOn
<1>6. CASE ~k.inCode /\ kind = "deck-rule"
  <2>1. e = emitted(flushed(k), "rule", <<n + 1>>)
    BY <1>2, <1>6, Zenon
  <2>2. kind # "fence"
    BY <1>6
  <2> QED
    BY <1>1, <1>3, <1>6, <2>1, <2>2, ThenAlone
<1>7. CASE ~k.inCode /\ kind = "fence"
  <2>1. e = [flushed(k) EXCEPT !.inCode = TRUE]
    <3>1. kind # "deck-rule"
      BY <1>7
    <3> QED
      BY <1>2, <1>7, <3>1, Zenon
  <2> QED
    BY <1>1, <1>7, <2>1, ThenOpens
<1>8. CASE ~k.inCode /\ kind = "heading"
  <2>1. kind # "fence" /\ kind # "deck-rule"
    BY <1>8
  <2>2. e = emitted(flushed(k), "heading", <<n + 1>>)
    BY <1>2, <1>8, <2>1, Zenon
  <2> QED
    BY <1>1, <1>3, <1>8, <2>1, <2>2, ThenAlone
<1>9. CASE ~k.inCode /\ kind = "blank"
  <2>1. kind # "fence" /\ kind # "deck-rule" /\ kind # "heading"
    BY <1>9
  <2>2. e = flushed(k)
    BY <1>2, <1>9, <2>1, Zenon
  <2>3. Reads(e, n, content, fences, moved)
    BY <2>2, Flushes
  <2> QED
    BY <1>1, <1>9, <2>3, ThenPasses
<1>10. CASE ~k.inCode /\ kind \notin {"deck-rule", "fence", "heading", "blank"}
  <2>1. kind # "deck-rule" /\ kind # "fence" /\ kind # "heading" /\ kind # "blank"
    BY <1>10
  <2>2. e = IF kind \in {"bullet", "ordered", "nested"} THEN [flushPara(k) EXCEPT !.list = Append(@, n + 1)]
            ELSE IF kind = "indented" /\ k.list # <<>> THEN [k EXCEPT !.list = Append(@, n + 1)]
            ELSE [flushList(k) EXCEPT !.para = Append(@, n + 1)]
    BY <1>2, <1>10, <2>1, Zenon
  <2>3. CASE \/ e = [flushPara(k) EXCEPT !.list = Append(@, n + 1)]
             \/ e = [flushList(k) EXCEPT !.para = Append(@, n + 1)]
    BY <1>1, <1>10, <2>1, <2>3, ThenGathers
  <2>4. CASE k.list # <<>> /\ e = [k EXCEPT !.list = Append(@, n + 1)]
    BY <1>1, <1>10, <2>1, <2>4, ListGoesOn
  <2> QED
    BY <2>2, <2>3, <2>4, Zenon
<1> QED
  BY <1>4, <1>5, <1>6, <1>7, <1>8, <1>9, <1>10

\* A fence is crossed, or the side is kept.
Crosses(kind, k, e) ==
  /\ kind # "fence" => e.inCode = k.inCode
  /\ kind = "fence" => (e.inCode <=> ~k.inCode)

\* A url or a copyright within a fence may be moved.
Hoists(k, n, kind, moved) == k.inCode /\ kind \in {"url", "copyright"} => n + 1 \in moved

\* A line more is read by the about view, whatever its kind; it is within a
\* fence after it just if a fence was crossed or none.
LEMMA AboutReads ==
  ASSUME NEW k, NEW n \in Nat, NEW content, NEW fences, NEW moved, Reads(k, n, content, fences, moved),
         NEW kinds, NEW kind \in LineKinds, kinds[n + 1] = kind,
         NEW content2, NEW fences2, NEW moved2,
         Adds(n, kind, content, content2, fences, fences2, moved, moved2), Hoists(k, n, kind, moved2)
  PROVE  /\ Reads(render_md_doc(k, n + 1, kinds), n + 1, content2, fences2, moved2)
         /\ Crosses(kind, k, render_md_doc(k, n + 1, kinds))
<1> SUFFICES ASSUME NEW e, e = render_md_doc(k, n + 1, kinds)
             PROVE  /\ Reads(e, n + 1, content2, fences2, moved2)
                    /\ kind # "fence" => e.inCode = k.inCode
                    /\ kind = "fence" => (e.inCode <=> ~k.inCode)
  BY Zenon DEF Crosses
<1>0. k \in Gatherings /\ n + 1 \in Nat /\ k.inCode \in BOOLEAN /\ LineKinds \subseteq BlockKinds
  BY ReaderFields DEF Reads, BlockKinds
<1>1. /\ kind # "fence" => LineShown(n, content, content2, fences, fences2, moved, moved2)
      /\ kind \in {"blank", "fence"} => LineSkipped(n, content, content2, fences, fences2, moved, moved2)
  BY DEF Adds
<1> DEFINE ongoing == IF k.list # <<>> /\ k.listKind = kind THEN flushPara(k) ELSE flushList(flushPara(k))
<1>2. e = IF kind \in {"url", "copyright"} THEN emitted(flushed(k), kind, <<n + 1>>)
          ELSE IF kind = "fence"
          THEN IF k.inCode THEN flushCode([k EXCEPT !.inCode = FALSE]) ELSE [flushed(k) EXCEPT !.inCode = TRUE]
          ELSE IF k.inCode THEN [k EXCEPT !.code = Append(@, n + 1)]
          ELSE IF kind \in {"rule", "heading", "warning"} THEN emitted(flushed(k), kind, <<n + 1>>)
          ELSE IF kind = "blank" THEN flushed(k)
          ELSE IF kind \in {"bullet", "ordered", "anti"}
          THEN [ongoing EXCEPT !.list = Append(@, n + 1), !.listKind = kind]
          ELSE IF kind \in {"indented", "nested"} /\ k.list # <<>> THEN [k EXCEPT !.list = Append(@, n + 1)]
          ELSE [flushList(k) EXCEPT !.para = Append(@, n + 1)]
  BY Zenon DEF render_md_doc
<1>3. CASE kind \in {"url", "copyright"}
  <2>1. e = emitted(flushed(k), kind, <<n + 1>>)
    BY <1>2, <1>3, Zenon
  <2>2. kind # "fence" /\ kind \in BlockKinds
    BY <1>0, <1>3
  <2>5. LineShown(n, content, content2, fences, fences2, moved, moved2)
    BY <1>1, <2>2
  <2>3. CASE ~k.inCode
    <3>1. Reads(e, n + 1, content2, fences2, moved2) /\ e.inCode = k.inCode
      BY <2>1, <2>2, <2>3, <2>5, ThenAlone
    <3> QED
      BY <2>2, <3>1
  <2>4. CASE k.inCode
    <3> DEFINE d == flushed(k)
    <3>1. d = flushed(k) /\ e = emitted(d, kind, <<n + 1>>)
      BY <2>1
    <3> HIDE DEF d
    <3>2. Reads(d, n, content, fences, moved) /\ d.inCode = k.inCode
      BY <3>1, Flushes
    <3>3. d \in Gatherings
      BY <3>2 DEF Reads
    <3>4. /\ e \in Gatherings /\ e.blocks = mounted(d, kind, n + 1) /\ e.inCode = d.inCode
          /\ e.list = d.list /\ e.code = d.code /\ e.para = d.para
      BY <1>0, <2>2, <3>1, <3>3, OwnBlock
    <3>7. /\ content2 \subseteq content \union {n + 1} /\ fences2 \subseteq fences /\ n + 1 \notin fences2
          /\ moved \subseteq moved2
      BY <2>5 DEF LineShown
    <3>5. n + 1 \in moved2
      BY <1>3, <2>4 DEF Hoists
    <3>6. Reads(e, n + 1, content2, fences2, moved2)
      BY <2>2, <3>7, <3>2, <3>4, <3>5, Alone
    <3> QED
      BY <2>2, <3>2, <3>4, <3>6
  <2> QED
    BY <1>0, <2>3, <2>4
<1>4. CASE kind = "fence"
  <2>1. e = IF k.inCode THEN flushCode([k EXCEPT !.inCode = FALSE]) ELSE [flushed(k) EXCEPT !.inCode = TRUE]
    <3>1. kind \notin {"url", "copyright"}
      BY <1>4
    <3> QED
      BY <1>2, <1>4, <3>1, Zenon
  <2>4. LineSkipped(n, content, content2, fences, fences2, moved, moved2)
    BY <1>1, <1>4
  <2>2. CASE ~k.inCode
    <3>1. e = [flushed(k) EXCEPT !.inCode = TRUE]
      BY <2>1, <2>2, Zenon
    <3>2. Reads(e, n + 1, content2, fences2, moved2) /\ e.inCode
      BY <2>2, <2>4, <3>1, ThenOpens
    <3> QED
      BY <1>4, <2>2, <3>2
  <2>3. CASE k.inCode
    <3> DEFINE in == FALSE
               d == [k EXCEPT !.inCode = in]
    <3>1. e = flushCode(d) /\ d = [k EXCEPT !.inCode = in] /\ in \in BOOLEAN /\ ~in
      BY <2>1, <2>3, Zenon
    <3> HIDE DEF d, in
    <3>2. /\ d \in Gatherings /\ d.blocks = k.blocks /\ d.inCode = in
          /\ d.list = k.list /\ d.code = k.code /\ d.para = k.para
      BY <1>0, <3>1, FenceTurned
    <3>6. SameBuffers(d, k)
      BY <3>2 DEF SameBuffers
    <3>8. Reads(flushCode(d), n, content, fences, moved) /\ flushCode(d).inCode = d.inCode
      BY <2>3, <3>6, CodeFlushes
    <3>3. Reads(e, n, content, fences, moved) /\ e.inCode = d.inCode
      BY <3>1, <3>8
    <3>4. Reads(e, n + 1, content2, fences2, moved2)
      BY <2>4, <3>3, ThenPasses
    <3>5. e.inCode = in
      BY <3>2, <3>3
    <3> QED
      BY <1>4, <2>3, <3>1, <3>4, <3>5
  <2> QED
    BY <1>0, <2>2, <2>3
<1>5. CASE k.inCode /\ kind \notin {"url", "copyright"} /\ kind # "fence"
  <2>1. e = [k EXCEPT !.code = Append(@, n + 1)]
    BY <1>2, <1>5, Zenon
  <2>3. LineShown(n, content, content2, fences, fences2, moved, moved2)
    BY <1>1, <1>5
  <2>2. Reads(e, n + 1, content2, fences2, moved2) /\ e.inCode = k.inCode
    BY <1>5, <2>1, <2>3, CodeGoesOn
  <2> QED
    BY <1>5, <2>2
<1>6. CASE ~k.inCode /\ kind \in {"rule", "heading", "warning"}
  <2>1. kind \notin {"url", "copyright"} /\ kind # "fence" /\ kind \in BlockKinds
    BY <1>0, <1>6
  <2>2. e = emitted(flushed(k), kind, <<n + 1>>)
    BY <1>2, <1>6, <2>1, Zenon
  <2>4. LineShown(n, content, content2, fences, fences2, moved, moved2)
    BY <1>1, <2>1
  <2>3. Reads(e, n + 1, content2, fences2, moved2) /\ e.inCode = k.inCode
    BY <1>6, <2>1, <2>2, <2>4, ThenAlone
  <2> QED
    BY <1>6, <2>1, <2>3
<1>7. CASE ~k.inCode /\ kind = "blank"
  <2>1. kind \notin {"url", "copyright"} /\ kind # "fence" /\ kind \notin {"rule", "heading", "warning"}
    BY <1>7
  <2>2. e = flushed(k)
    BY <1>2, <1>7, <2>1, Zenon
  <2>3. Reads(e, n, content, fences, moved) /\ e.inCode = k.inCode
    BY <2>2, Flushes
  <2>5. LineSkipped(n, content, content2, fences, fences2, moved, moved2)
    BY <1>1, <1>7
  <2>4. Reads(e, n + 1, content2, fences2, moved2)
    BY <2>5, <2>3, ThenPasses
  <2> QED
    BY <1>7, <2>1, <2>3, <2>4
<1>8. CASE ~k.inCode /\ kind \in {"bullet", "ordered", "anti"}
  <2>1. /\ kind \notin {"url", "copyright"} /\ kind # "fence" /\ kind \notin {"rule", "heading", "warning"}
        /\ kind # "blank" /\ kind \in BlockKinds
    BY <1>0, <1>8
  <2>2. e = [ongoing EXCEPT !.list = Append(@, n + 1), !.listKind = kind]
    BY <1>2, <1>8, <2>1, Zenon
  <2>3. /\ Reads(ongoing, n, content, fences, moved) /\ ongoing.para = <<>> /\ ongoing.inCode = k.inCode
    <3> DEFINE d == flushPara(k)
    <3>1. d = flushPara(k) /\ (ongoing = d \/ ongoing = flushList(d))
      OBVIOUS
    <3> HIDE DEF d
    <3>2. Reads(d, n, content, fences, moved) /\ d.para = <<>> /\ d.inCode = k.inCode
      BY <3>1, ParaFlushes
    <3>3. /\ Reads(flushList(d), n, content, fences, moved) /\ flushList(d).para = <<>>
          /\ flushList(d).inCode = k.inCode
      BY <3>2, ListFlushes
    <3> HIDE DEF ongoing
    <3> QED
      BY <3>1, <3>2, <3>3
  <2> HIDE DEF ongoing
  <2> DEFINE d == [ongoing EXCEPT !.list = Append(@, n + 1)]
  <2>4. e = [d EXCEPT !.listKind = kind] /\ d = [ongoing EXCEPT !.list = Append(@, n + 1)]
    BY <2>2
  <2> HIDE DEF d
  <2>5. ongoing \in Gatherings
    BY <2>3 DEF Reads
  <2>6. /\ d \in Gatherings /\ d.blocks = ongoing.blocks /\ d.inCode = ongoing.inCode
        /\ d.list = Append(ongoing.list, n + 1) /\ d.code = ongoing.code /\ d.para = ongoing.para
    BY <1>0, <2>4, <2>5, ListGathers
  <2>7. /\ e \in Gatherings /\ e.blocks = d.blocks /\ e.inCode = d.inCode
        /\ e.list = d.list /\ e.code = d.code /\ e.para = d.para
    BY <2>1, <2>4, <2>6, KindTaken
  <2>8. /\ content2 \subseteq content \union {n + 1} /\ fences2 \subseteq fences /\ n + 1 \notin fences2
        /\ moved \subseteq moved2
    BY <1>1, <2>1 DEF LineShown
  <2>9. /\ e.blocks = ongoing.blocks /\ e.inCode = ongoing.inCode
        /\ e.list = Append(ongoing.list, n + 1) /\ e.code = ongoing.code /\ e.para = ongoing.para
    BY <2>6, <2>7
  <2>10. ~ongoing.inCode /\ ongoing.para = <<>> /\ e \in Gatherings
    BY <1>8, <2>3, <2>7
  <2>11. Reads(ongoing, n, content, fences, moved)
    BY <2>3
  <2>12. Reads(e, n + 1, content2, fences2, moved2)
    BY <2>8, <2>9, <2>10, <2>11, GatheredLine
  <2>13. e.inCode = k.inCode
    BY <2>3, <2>9
  <2> QED
    BY <1>8, <2>1, <2>12, <2>13
<1>9. CASE ~k.inCode /\ kind \notin {"url", "copyright", "fence", "rule", "heading", "warning", "blank",
                                     "bullet", "ordered", "anti"}
  <2>1. /\ kind \notin {"url", "copyright"} /\ kind # "fence" /\ kind \notin {"rule", "heading", "warning"}
        /\ kind # "blank" /\ kind \notin {"bullet", "ordered", "anti"}
    BY <1>9
  <2>2. e = IF kind \in {"indented", "nested"} /\ k.list # <<>> THEN [k EXCEPT !.list = Append(@, n + 1)]
            ELSE [flushList(k) EXCEPT !.para = Append(@, n + 1)]
    BY <1>2, <1>9, <2>1, Zenon
  <2>5. LineShown(n, content, content2, fences, fences2, moved, moved2)
    BY <1>1, <2>1
  <2>3. CASE e = [flushList(k) EXCEPT !.para = Append(@, n + 1)]
    <3>1. Reads(e, n + 1, content2, fences2, moved2) /\ e.inCode = k.inCode
      BY <1>9, <2>5, <2>3, ThenGathers
    <3> QED
      BY <1>9, <2>1, <3>1
  <2>4. CASE k.list # <<>> /\ e = [k EXCEPT !.list = Append(@, n + 1)]
    <3>1. Reads(e, n + 1, content2, fences2, moved2) /\ e.inCode = k.inCode
      BY <1>9, <2>5, <2>4, ListGoesOn
    <3> QED
      BY <1>9, <2>1, <3>1
  <2> QED
    BY <2>2, <2>3, <2>4, Zenon
<1> QED
  BY <1>3, <1>4, <1>5, <1>6, <1>7, <1>8, <1>9

\* One line more of the text.
LEMMA TextGrows ==
  ASSUME reader.kinds \in Seq(LineKinds), NEW kind \in LineKinds, NEW n, n = Len(reader.kinds),
         reader'.kinds = Append(reader.kinds, kind)
  PROVE  /\ n \in Nat /\ Len(reader'.kinds) = n + 1 /\ reader'.kinds \in Seq(LineKinds) /\ reader'.kinds[n + 1] = kind
         /\ \A m \in Content : reader'.kinds[m] # "blank"
         /\ Content' \subseteq Content \union {n + 1} /\ Fences' \subseteq Fences \union {n + 1}
         /\ kind \in {"blank", "fence"} => Content' \subseteq Content
         /\ kind # "fence" => Fences' \subseteq Fences /\ n + 1 \notin Fences'
         /\ \A m \in 1..n : {f \in 1..m : reader'.kinds[f] = "fence"} = {f \in 1..m : reader.kinds[f] = "fence"}
<1>1. /\ n \in Nat /\ Len(reader'.kinds) = n + 1 /\ reader'.kinds \in Seq(LineKinds)
      /\ reader'.kinds[n + 1] = kind /\ \A m \in 1..n : reader'.kinds[m] = reader.kinds[m]
  BY AppendProperties
<1>2. \A m \in 1..n + 1 : m \in 1..n \/ m = n + 1
  BY <1>1
<1>3. Content = {m \in 1..n : reader.kinds[m] \notin {"blank", "fence"}}
  BY DEF Content
<1>4. Content' = {m \in 1..n + 1 : reader'.kinds[m] \notin {"blank", "fence"}}
  BY <1>1 DEF Content
<1>5. Fences = {m \in 1..n : reader.kinds[m] = "fence"}
  BY DEF Fences
<1>6. Fences' = {m \in 1..n + 1 : reader'.kinds[m] = "fence"}
  BY <1>1 DEF Fences
<1>7. \A m \in Content : reader'.kinds[m] # "blank"
  BY <1>1, <1>3
<1>8. Content' \subseteq Content \union {n + 1} /\ Fences' \subseteq Fences \union {n + 1}
  BY <1>1, <1>2, <1>3, <1>4, <1>5, <1>6
<1>9. kind \in {"blank", "fence"} => Content' \subseteq Content
  BY <1>1, <1>4, <1>8
<1>10. kind # "fence" => Fences' \subseteq Fences /\ n + 1 \notin Fences'
  BY <1>1, <1>6, <1>8
<1>11. ASSUME NEW m \in 1..n
       PROVE  {f \in 1..m : reader'.kinds[f] = "fence"} = {f \in 1..m : reader.kinds[f] = "fence"}
  <2>1. \A f \in 1..m : f \in 1..n
    BY <1>1
  <2> QED
    BY <1>1, <2>1
<1> QED
  BY <1>1, <1>7, <1>8, <1>9, <1>10, <1>11

\* A fence changes the side, another line does not.
LEMMA FencesCounted ==
  ASSUME reader.kinds \in Seq(LineKinds), NEW kind \in LineKinds, NEW n, n = Len(reader.kinds),
         reader'.kinds = Append(reader.kinds, kind)
  PROVE  /\ kind # "fence" => (fenced(n + 1)' <=> fenced(n))
         /\ kind = "fence" => (fenced(n + 1)' <=> ~fenced(n))
<1> DEFINE S(m) == {f \in 1..m : reader.kinds[f] = "fence"}
           T == {f \in 1..n + 1 : reader'.kinds[f] = "fence"}
           c == Cardinality(S(n))
<1>1. /\ n \in Nat /\ Len(reader'.kinds) = n + 1
      /\ reader'.kinds[n + 1] = kind /\ \A m \in 1..n : reader'.kinds[m] = reader.kinds[m]
  BY AppendProperties
<1>2. \A m \in 1..n + 1 : m \in 1..n \/ m = n + 1
  BY <1>1
<1>3. n + 1 \notin S(n)
  BY <1>1
<1>4. kind = "fence" => T = S(n) \union {n + 1}
  BY <1>1, <1>2
<1>5. kind # "fence" => T = S(n)
  BY <1>1, <1>2
<1>6. IsFiniteSet(S(n)) /\ c \in Nat
  <2>1. IsFiniteSet(1..n)
    BY <1>1, FS_Interval
  <2>2. S(n) \subseteq 1..n
    OBVIOUS
  <2>3. IsFiniteSet(S(n))
    <3> HIDE DEF S
    <3> QED
      BY <2>1, <2>2, FS_Subset
  <2> QED
    BY <2>3, FS_CardinalityType
<1>7. fenced(n + 1)' <=> Cardinality(T) % 2 = 1
  BY DEF fenced
<1>8. fenced(n) <=> c % 2 = 1
  BY DEF fenced
<1> HIDE DEF S, T
<1>9. kind = "fence" => Cardinality(T) = c + 1
  BY <1>3, <1>4, <1>6, FS_AddElement
<1>10. kind # "fence" => Cardinality(T) = c
  BY <1>5
<1> HIDE DEF c
<1>11. (c + 1) % 2 = 1 <=> ~(c % 2 = 1)
  BY <1>6
<1> QED
  BY <1>7, <1>8, <1>9, <1>10, <1>11

LEMMA HoistedMore ==
  ASSUME reader.kinds \in Seq(LineKinds), NEW kind \in LineKinds, NEW n, n = Len(reader.kinds),
         reader'.kinds = Append(reader.kinds, kind)
  PROVE  Hoisted \subseteq Hoisted' /\ (fenced(n) /\ kind \in {"url", "copyright"} => n + 1 \in Hoisted')
<1>1. /\ n \in Nat /\ Len(reader'.kinds) = n + 1
      /\ reader'.kinds[n + 1] = kind /\ \A m \in 1..n : reader'.kinds[m] = reader.kinds[m]
  BY AppendProperties
<1>2. ASSUME NEW m \in 1..n PROVE fenced(m)' <=> fenced(m)
  <2>1. {f \in 1..m : reader'.kinds[f] = "fence"} = {f \in 1..m : reader.kinds[f] = "fence"}
    BY TextGrows
  <2>2. fenced(m)' <=> Cardinality({f \in 1..m : reader'.kinds[f] = "fence"}) % 2 = 1
    BY DEF fenced
  <2> QED
    BY <2>1, <2>2 DEF fenced
<1>3. Hoisted = {m \in 1..n : fenced(m) /\ reader.kinds[m] \in {"url", "copyright"}}
  BY DEF Hoisted
<1>4. Hoisted' = {m \in 1..n + 1 : fenced(m)' /\ reader'.kinds[m] \in {"url", "copyright"}}
  BY <1>1 DEF Hoisted
<1>5. Hoisted \subseteq Hoisted'
  <2> SUFFICES ASSUME NEW m \in Hoisted PROVE m \in Hoisted'
    OBVIOUS
  <2>1. m \in 1..n /\ fenced(m) /\ reader.kinds[m] \in {"url", "copyright"}
    BY <1>3
  <2>2. m \in 1..n + 1 /\ fenced(m)' /\ reader'.kinds[m] \in {"url", "copyright"}
    BY <1>1, <1>2, <2>1
  <2> QED
    BY <1>4, <2>2
<1>6. fenced(n) /\ kind \in {"url", "copyright"} => n + 1 \in Hoisted'
  <2> SUFFICES ASSUME fenced(n), kind \in {"url", "copyright"} PROVE n + 1 \in Hoisted'
    OBVIOUS
  <2>1. fenced(n + 1)'
    BY FencesCounted
  <2> QED
    BY <1>1, <1>4, <2>1
<1> QED
  BY <1>5, <1>6

\* With nothing left in a buffer, the blocks show the whole content in order.
LEMMA AllShown ==
  ASSUME NEW k, NEW n \in Nat, NEW content, NEW fences, NEW moved, Reads(k, n, content, fences, moved),
         k.para = <<>>, k.list = <<>>, k.code = <<>>
  PROVE  /\ KeptInOrder(k.blocks, moved) /\ content \subseteq lines_of(k.blocks)
         /\ \A m \in lines_of(k.blocks) : m \in 1..n /\ m \notin fences
<1>1. /\ KeptInOrder(k.blocks, moved) /\ \A i \in 1..Len(k.blocks) : Read(k.blocks[i].lines, n, fences)
      /\ content \subseteq lines_of(k.blocks) \union ToSet(k.para) \union ToSet(k.list) \union ToSet(k.code)
      /\ k \in Gatherings
  BY DEF Reads
<1>2. content \subseteq lines_of(k.blocks)
  BY <1>1, EmptyBuffer
<1>3. ASSUME NEW i \in 1..Len(k.blocks), NEW m \in ToSet(k.blocks[i].lines) PROVE m \in 1..n /\ m \notin fences
  <2>1. k.blocks \in Seq([kind : BlockKinds, lines : Seq(Nat)])
    BY <1>1, ReaderFields
  <2>2. k.blocks[i] \in [kind : BlockKinds, lines : Seq(Nat)]
    BY <2>1, ElementOfSeq
  <2>3. k.blocks[i].lines \in Seq(Nat)
    BY <2>2
  <2>4. DOMAIN k.blocks[i].lines = 1..Len(k.blocks[i].lines)
    BY <2>3, LenProperties
  <2>5. PICK a \in 1..Len(k.blocks[i].lines) : k.blocks[i].lines[a] = m
    BY <2>4 DEF ToSet
  <2> QED
    BY <1>1, <2>5 DEF Read
<1>4. \A m \in lines_of(k.blocks) : m \in 1..n /\ m \notin fences
  BY <1>3 DEF lines_of
<1> QED
  BY <1>1, <1>2, <1>4

LEMMA DeckSound ==
  ASSUME ReaderInv
  PROVE  DeckKeepsLines
<1> DEFINE n == Len(reader.kinds)
           k == flushed(reader.deck)
           e == IF reader.deck.inCode THEN deck_code(k, reader.kinds) ELSE k
<1>1. n \in Nat /\ Reads(reader.deck, n, Content, Fences, {})
  BY DEF ReaderInv
<1>2. deck_blocks = e.blocks
  BY DEF deck_blocks
<1>3. \A m \in Content : reader.kinds[m] # "blank"
  BY DEF Content
<1>4. \A m \in 1..n : m \notin Fences => reader.kinds[m] # "fence"
  BY DEF Fences
<1>5. k = flushed(reader.deck) /\ e = IF reader.deck.inCode THEN deck_code(k, reader.kinds) ELSE k
  OBVIOUS
<1> HIDE DEF n, k, e
<1>6. /\ Reads(k, n, Content, Fences, {}) /\ k.para = <<>> /\ k.list = <<>> /\ k.code = reader.deck.code
      /\ k.inCode = reader.deck.inCode
  BY <1>1, <1>5, Flushes
<1>7. Reads(e, n, Content, Fences, {}) /\ e.para = <<>> /\ e.list = <<>> /\ e.code = <<>>
  <2>1. CASE reader.deck.inCode
    <3>1. k.inCode /\ e = deck_code(k, reader.kinds)
      BY <1>5, <1>6, <2>1
    <3> QED
      BY <1>1, <1>3, <1>6, <3>1, DeckCodeEnds
  <2>2. CASE ~reader.deck.inCode
    <3>1. e = k /\ reader.deck.code = <<>>
      BY <1>1, <1>5, <2>2 DEF Reads
    <3> QED
      BY <1>6, <3>1
  <2> QED
    BY <2>1, <2>2
<1>8. /\ KeptInOrder(e.blocks, {}) /\ Content \subseteq lines_of(e.blocks)
      /\ \A m \in lines_of(e.blocks) : m \in 1..n /\ m \notin Fences
  BY <1>1, <1>7, AllShown
<1> QED
  BY <1>2, <1>4, <1>8 DEF DeckKeepsLines

LEMMA AboutSound ==
  ASSUME ReaderInv
  PROVE  AboutKeepsLines
<1> DEFINE n == Len(reader.kinds)
           k == flushed(reader.about)
           e == IF reader.about.inCode THEN flushCode(k) ELSE k
<1>1. n \in Nat /\ Reads(reader.about, n, Content, Fences, Hoisted)
  BY DEF ReaderInv
<1>2. about_blocks = e.blocks
  BY DEF about_blocks
<1>5. k = flushed(reader.about) /\ e = IF reader.about.inCode THEN flushCode(k) ELSE k
  OBVIOUS
<1> HIDE DEF n, k, e
<1>6. /\ Reads(k, n, Content, Fences, Hoisted) /\ k.para = <<>> /\ k.list = <<>> /\ k.code = reader.about.code
      /\ k.inCode = reader.about.inCode
  BY <1>1, <1>5, Flushes
<1>7. Reads(e, n, Content, Fences, Hoisted) /\ e.para = <<>> /\ e.list = <<>> /\ e.code = <<>>
  <2>1. CASE reader.about.inCode
    <3>1. k.inCode /\ e = flushCode(k)
      BY <1>5, <1>6, <2>1
    <3>2. SameBuffers(k, k)
      BY <1>6 DEF SameBuffers, Reads
    <3> QED
      BY <1>1, <1>6, <3>1, <3>2, CodeFlushes
  <2>2. CASE ~reader.about.inCode
    <3>1. e = k /\ reader.about.code = <<>>
      BY <1>1, <1>5, <2>2 DEF Reads
    <3> QED
      BY <1>6, <3>1
  <2> QED
    BY <2>1, <2>2
<1>8. KeptInOrder(e.blocks, Hoisted) /\ Content \subseteq lines_of(e.blocks)
  BY <1>1, <1>7, AllShown
<1> QED
  BY <1>2, <1>8 DEF AboutKeepsLines

LEMMA ReaderSound ==
  ASSUME ReaderInv
  PROVE  EveryLineShown
BY DeckSound, AboutSound DEF EveryLineShown

LEMMA ReaderBegins ==
  ASSUME ReaderInit
  PROVE  ReaderInv
<1> DEFINE none == <<>>
           out == FALSE
<1>1. none \in Seq(Nat) /\ none \in Seq([kind : BlockKinds, lines : Seq(Nat)]) /\ none \in Seq(LineKinds)
      /\ Len(none) = 0 /\ out \in BOOLEAN /\ ~out /\ ToSet(none) = {}
  BY EmptyBuffer
<1>2. "bullet" \in BlockKinds
  BY DEF BlockKinds, LineKinds
<1>3. NothingRead = [blocks |-> none, para |-> none, list |-> none, listKind |-> "bullet",
                     code |-> none, inCode |-> out]
  BY DEF NothingRead
<1>4. /\ NothingRead.blocks = none /\ NothingRead.para = none /\ NothingRead.list = none
      /\ NothingRead.code = none /\ NothingRead.inCode = out
  BY DEF NothingRead
<1>5. NothingRead \in Gatherings
  <2> HIDE DEF none, out
  <2> QED
    BY <1>1, <1>2, <1>3 DEF Gatherings
<1>6. reader = [kinds |-> none, deck |-> NothingRead, about |-> NothingRead]
  BY DEF ReaderInit
<1>7. ASSUME NEW fences, NEW moved PROVE Buffered(none, 0, fences, none, moved)
  BY EmptyBuffer
<1> HIDE DEF none, out
<1>8. reader.kinds = none /\ reader.deck = NothingRead /\ reader.about = NothingRead
  BY <1>6
<1>9. Content = {} /\ Fences = {} /\ Hoisted = {}
  BY <1>1, <1>8 DEF Content, Fences, Hoisted
<1>10. ASSUME NEW moved PROVE Reads(NothingRead, 0, {}, {}, moved)
  <2>1. KeptInOrder(none, moved) /\ \A i \in 1..Len(none) : Read(none[i].lines, 0, {})
    BY <1>1 DEF KeptInOrder
  <2>2. none = <<>>
    BY DEF none
  <2> QED
    BY <1>1, <1>4, <1>5, <1>7, <2>1, <2>2 DEF Reads
<1>11. ~fenced(0)
  <2>1. {f \in 1..0 : reader.kinds[f] = "fence"} = {}
    OBVIOUS
  <2>2. Cardinality({}) = 0
    BY FS_EmptySet
  <2> QED
    BY <2>1, <2>2 DEF fenced
<1>12. ~reader.about.inCode
  BY <1>1, <1>4, <1>8
<1> QED
  BY <1>1, <1>6, <1>8, <1>9, <1>10, <1>11, <1>12 DEF ReaderInv

LEMMA ReaderStep ==
  ASSUME ReaderInv, [ReaderNext]_reader
  PROVE  ReaderInv'
<1>1. CASE UNCHANGED reader
  <2>1. reader' = reader
    BY <1>1
  <2>2. /\ Content' = Content /\ Fences' = Fences /\ Hoisted' = Hoisted
        /\ fenced(Len(reader.kinds))' <=> fenced(Len(reader.kinds))
    BY <2>1 DEF Content, Fences, Hoisted, fenced
  <2> QED
    BY <2>1, <2>2 DEF ReaderInv
<1>2. ASSUME NEW kind \in LineKinds, ReadLine(kind) PROVE ReaderInv'
  <2> DEFINE kinds == Append(reader.kinds, kind)
  <2>1. reader' = [kinds |-> kinds,
                   deck |-> parse_deck_markdown(reader.deck, Len(kinds), kinds),
                   about |-> render_md_doc(reader.about, Len(kinds), kinds)]
    BY <1>2 DEF ReadLine
  <2>2. PICK n : n = Len(reader.kinds)
    OBVIOUS
  <2>3. /\ reader'.kinds = kinds /\ reader'.deck = parse_deck_markdown(reader.deck, Len(kinds), kinds)
        /\ reader'.about = render_md_doc(reader.about, Len(kinds), kinds)
    BY <2>1
  <2>4. reader' = [kinds |-> reader'.kinds, deck |-> reader'.deck, about |-> reader'.about]
    <3> HIDE DEF kinds
    <3> QED
      BY <2>1, <2>3
  <2>5. reader.kinds \in Seq(LineKinds) /\ reader'.kinds = Append(reader.kinds, kind)
    BY <2>3 DEF ReaderInv
  <2>6. /\ n \in Nat /\ Len(reader'.kinds) = n + 1 /\ reader'.kinds \in Seq(LineKinds) /\ reader'.kinds[n + 1] = kind
        /\ \A m \in Content : reader'.kinds[m] # "blank"
        /\ Content' \subseteq Content \union {n + 1} /\ Fences' \subseteq Fences \union {n + 1}
        /\ kind \in {"blank", "fence"} => Content' \subseteq Content
        /\ kind # "fence" => Fences' \subseteq Fences /\ n + 1 \notin Fences'
    BY <2>2, <2>5, TextGrows
  <2>7. /\ kind # "fence" => (fenced(n + 1)' <=> fenced(n))
        /\ kind = "fence" => (fenced(n + 1)' <=> ~fenced(n))
    BY <2>2, <2>5, FencesCounted
  <2>8. Hoisted \subseteq Hoisted' /\ (fenced(n) /\ kind \in {"url", "copyright"} => n + 1 \in Hoisted')
    BY <2>2, <2>5, HoistedMore
  <2>9. /\ reader'.deck = parse_deck_markdown(reader.deck, n + 1, reader'.kinds)
        /\ reader'.about = render_md_doc(reader.about, n + 1, reader'.kinds)
    BY <2>3, <2>6
  <2>10. /\ Reads(reader.deck, n, Content, Fences, {}) /\ Reads(reader.about, n, Content, Fences, Hoisted)
         /\ reader.about.inCode <=> fenced(n)
    BY <2>2 DEF ReaderInv
  <2> HIDE DEF kinds
  <2>11. Reads(reader'.deck, n + 1, Content', Fences', {})
    <3>1. Adds(n, kind, Content, Content', Fences, Fences', {}, {})
      BY <2>6 DEF Adds, LineShown, LineSkipped
    <3> QED
      BY <2>6, <2>9, <2>10, <3>1, DeckReads
  <2>12. /\ Reads(reader'.about, n + 1, Content', Fences', Hoisted')
         /\ kind # "fence" => reader'.about.inCode = reader.about.inCode
         /\ kind = "fence" => (reader'.about.inCode <=> ~reader.about.inCode)
    <3>1. Adds(n, kind, Content, Content', Fences, Fences', Hoisted, Hoisted')
      BY <2>6, <2>8 DEF Adds, LineShown, LineSkipped
    <3>2. Hoists(reader.about, n, kind, Hoisted')
      BY <2>8, <2>10 DEF Hoists
    <3>3. reader'.kinds[n + 1] = kind /\ n \in Nat
      BY <2>6
    <3>4. reader'.about = render_md_doc(reader.about, n + 1, reader'.kinds)
      BY <2>9
    <3>5. Reads(reader.about, n, Content, Fences, Hoisted)
      BY <2>10
    <3> DEFINE kinds2 == reader'.kinds
    <3>6. kinds2[n + 1] = kind
      BY <3>3
    <3> HIDE DEF kinds2
    <3> DEFINE e == render_md_doc(reader.about, n + 1, kinds2)
    <3>7. Reads(e, n + 1, Content', Fences', Hoisted') /\ Crosses(kind, reader.about, e)
      BY <3>1, <3>2, <3>3, <3>5, <3>6, AboutReads
    <3> QED
      BY <3>4, <3>7, Zenon DEF kinds2, Crosses
  <2>13. reader'.about.inCode <=> fenced(n + 1)'
    BY <2>7, <2>10, <2>12
  <2>14. fenced(Len(reader.kinds))' <=> fenced(n + 1)'
    BY <2>6 DEF fenced
  <2> QED
    BY <2>4, <2>6, <2>11, <2>12, <2>13, <2>14 DEF ReaderInv
<1> QED
  BY <1>1, <1>2 DEF ReaderNext

-----------------------------------------------------------------------------
(* The layout of the menu: bodies of hexagons on a field of any size.      *)

Hexes == Int \X Int
Sizes == [columns : Nat \ {0}, rows : Nat \ {0}]

\* Rows of hexagons, each as long as the others and half a hexagon to the left
\* or to the right of the one before.
InRows(core, low, high, n, left) ==
  /\ low \in Int /\ high \in Int /\ low <= high /\ n \in Nat \ {0} /\ left \in [Int -> Int]
  /\ \A r \in Int : left[r + 1] = left[r] \/ left[r + 1] = left[r] - 1
  /\ core = {c \in Hexes : low <= c[2] /\ c[2] <= high /\ left[c[2]] <= c[1] /\ c[1] < left[c[2]] + n}
Slab(core) == \E low, high, n, left : InRows(core, low, high, n, left)

\* No part of the cells is without a neighbor in the rest.
Linked(cells) == \A S \in SUBSET cells : S # {} /\ S # cells => around(S) \intersect cells # {}

\* What a body is: its core and hexagons that touch it, in one piece.
Whole(core, cells) ==
  /\ Slab(core) /\ IsFiniteSet(cells) /\ core # {} /\ core \subseteq cells
  /\ cells \subseteq core \union around(core) /\ Linked(cells)

LEMMA Neighbors ==
  ASSUME NEW c \in Hexes
  PROVE  /\ soft_tile_neighbors(c) \subseteq Hexes /\ c \notin soft_tile_neighbors(c)
         /\ \A d \in Hexes : d \in soft_tile_neighbors(c) <=> c \in soft_tile_neighbors(d)
<1>1. c = <<c[1], c[2]>> /\ c[1] \in Int /\ c[2] \in Int
  BY DEF Hexes
<1>2. soft_tile_neighbors(c) \subseteq Hexes /\ c \notin soft_tile_neighbors(c)
  BY <1>1 DEF Hexes, soft_tile_neighbors
<1>3. ASSUME NEW d \in Hexes, NEW e \in Hexes, d \in soft_tile_neighbors(e) PROVE e \in soft_tile_neighbors(d)
  <2>1. /\ d = <<d[1], d[2]>> /\ d[1] \in Int /\ d[2] \in Int
        /\ e = <<e[1], e[2]>> /\ e[1] \in Int /\ e[2] \in Int
    BY DEF Hexes
  <2>2. \/ d[1] = e[1] + 1 /\ d[2] = e[2]
        \/ d[1] = e[1] + 1 /\ d[2] = e[2] - 1
        \/ d[1] = e[1] /\ d[2] = e[2] - 1
        \/ d[1] = e[1] - 1 /\ d[2] = e[2]
        \/ d[1] = e[1] - 1 /\ d[2] = e[2] + 1
        \/ d[1] = e[1] /\ d[2] = e[2] + 1
    BY <1>3, <2>1 DEF soft_tile_neighbors
  <2>3. \/ e[1] = d[1] - 1 /\ e[2] = d[2]
        \/ e[1] = d[1] - 1 /\ e[2] = d[2] + 1
        \/ e[1] = d[1] /\ e[2] = d[2] + 1
        \/ e[1] = d[1] + 1 /\ e[2] = d[2]
        \/ e[1] = d[1] + 1 /\ e[2] = d[2] - 1
        \/ e[1] = d[1] /\ e[2] = d[2] - 1
    BY <2>1, <2>2
  <2> QED
    BY <2>1, <2>3 DEF soft_tile_neighbors
<1>4. ASSUME NEW d \in Hexes PROVE d \in soft_tile_neighbors(c) <=> c \in soft_tile_neighbors(d)
  <2>1. d \in soft_tile_neighbors(c) => c \in soft_tile_neighbors(d)
    BY <1>3, Zenon
  <2>2. c \in soft_tile_neighbors(d) => d \in soft_tile_neighbors(c)
    BY <1>3, Zenon
  <2> QED
    BY <2>1, <2>2, Zenon
<1> QED
  BY <1>2, <1>4, Zenon

\* What is around some hexagons touches one of them and is none of them.
LEMMA Around ==
  ASSUME NEW cells
  PROVE  \A c : c \in around(cells) <=> c \notin cells /\ \E d \in cells : c \in soft_tile_neighbors(d)
BY DEF around

\* A hexagon that touches the cells joins them.
LEMMA TileJoins ==
  ASSUME NEW cells \in SUBSET Hexes, Linked(cells), NEW c \in around(cells)
  PROVE  Linked(cells \union {c})
<1>1. c \notin cells /\ \E d \in cells : c \in soft_tile_neighbors(d)
  BY Around
<1>2. PICK d \in cells : c \in soft_tile_neighbors(d)
  BY <1>1
<1>3. c \in Hexes /\ d \in soft_tile_neighbors(c)
  BY <1>2, Neighbors
<1>4. ASSUME NEW S \in SUBSET (cells \union {c}), S # {}, S # cells \union {c}
      PROVE  around(S) \intersect (cells \union {c}) # {}
  <2>1. CASE c \notin S /\ S = cells
    BY <2>1
  <2>2. CASE c \notin S /\ S # cells
    BY <1>4, <2>2 DEF Linked
  <2>3. CASE S = {c}
    <3>1. d \in around(S)
      BY <1>1, <1>2, <1>3, <2>3, Around
    <3> QED
      BY <1>2, <3>1
  <2>4. CASE c \in S /\ S # {c}
    <3> DEFINE T == S \ {c}
    <3>1. T \in SUBSET cells /\ T # {} /\ T # cells
      BY <1>4, <2>4
    <3>2. PICK y : y \in around(T) \intersect cells
      BY <3>1 DEF Linked
    <3>3. y \in around(S)
      BY <1>1, <2>4, <3>2, Around
    <3> QED
      BY <3>2, <3>3
  <2> QED
    BY <2>1, <2>2, <2>3, <2>4
<1> QED
  BY <1>4 DEF Linked

\* Moving hexagons keeps their neighborhoods.
Shifted(c, t) == <<c[1] + t[1], c[2] + t[2]>>
LEMMA Movement ==
  ASSUME NEW t \in Hexes, NEW c \in Hexes, NEW d \in Hexes
  PROVE  /\ Shifted(c, t) \in Hexes
         /\ Shifted(c, t) = Shifted(d, t) => c = d
         /\ d \in soft_tile_neighbors(c) => Shifted(d, t) \in soft_tile_neighbors(Shifted(c, t))
<1>1. /\ c = <<c[1], c[2]>> /\ c[1] \in Int /\ c[2] \in Int
      /\ d = <<d[1], d[2]>> /\ d[1] \in Int /\ d[2] \in Int
      /\ t[1] \in Int /\ t[2] \in Int
  BY DEF Hexes
<1>2. Shifted(c, t) \in Hexes
  BY <1>1 DEF Hexes, Shifted
<1>3. ASSUME Shifted(c, t) = Shifted(d, t) PROVE c = d
  <2>1. c[1] + t[1] = d[1] + t[1] /\ c[2] + t[2] = d[2] + t[2]
    BY <1>3 DEF Shifted
  <2>2. \A x, y, z \in Int : x + z = y + z => x = y
    OBVIOUS
  <2>3. c[1] = d[1] /\ c[2] = d[2]
    BY <1>1, <2>1, <2>2, Zenon
  <2> QED
    BY <1>1, <2>3, Zenon
<1>4. ASSUME d \in soft_tile_neighbors(c) PROVE Shifted(d, t) \in soft_tile_neighbors(Shifted(c, t))
  <2> DEFINE e == Shifted(d, t)
             b == Shifted(c, t)
  <2>1. e = <<e[1], e[2]>> /\ e[1] = d[1] + t[1] /\ e[2] = d[2] + t[2] /\ b[1] = c[1] + t[1] /\ b[2] = c[2] + t[2]
    BY DEF Shifted
  <2>2. \/ d[1] = c[1] + 1 /\ d[2] = c[2]
        \/ d[1] = c[1] + 1 /\ d[2] = c[2] - 1
        \/ d[1] = c[1] /\ d[2] = c[2] - 1
        \/ d[1] = c[1] - 1 /\ d[2] = c[2]
        \/ d[1] = c[1] - 1 /\ d[2] = c[2] + 1
        \/ d[1] = c[1] /\ d[2] = c[2] + 1
    BY <1>1, <1>4 DEF soft_tile_neighbors
  <2>3. /\ b[1] \in Int /\ b[2] \in Int
        /\ \/ e[1] = b[1] + 1 /\ e[2] = b[2]
           \/ e[1] = b[1] + 1 /\ e[2] = b[2] - 1
           \/ e[1] = b[1] /\ e[2] = b[2] - 1
           \/ e[1] = b[1] - 1 /\ e[2] = b[2]
           \/ e[1] = b[1] - 1 /\ e[2] = b[2] + 1
           \/ e[1] = b[1] /\ e[2] = b[2] + 1
    BY <1>1, <2>1, <2>2
  <2> HIDE DEF e, b
  <2>4. e \in soft_tile_neighbors(b)
    BY <2>1, <2>3 DEF soft_tile_neighbors
  <2> QED
    BY <2>4 DEF e, b
<1> QED
  BY <1>2, <1>3, <1>4

LEMMA Translated ==
  ASSUME NEW cells \in SUBSET Hexes, NEW t \in Hexes
  PROVE  LET there == soft_tile_translate(cells, t)
         IN /\ there = {Shifted(c, t) : c \in cells} /\ there \subseteq Hexes
            /\ cells # {} => there # {}
            /\ IsFiniteSet(cells) => IsFiniteSet(there)
<1> DEFINE there == soft_tile_translate(cells, t)
<1>1. there = {Shifted(c, t) : c \in cells}
  BY DEF soft_tile_translate, Shifted
<1>2. there \subseteq Hexes /\ (cells # {} => there # {})
  BY <1>1, Movement
<1>3. ASSUME IsFiniteSet(cells) PROVE IsFiniteSet(there)
  <2> DEFINE f == [c \in cells |-> Shifted(c, t)]
  <2>1. f \in [cells -> there] /\ \A e \in there : \E c \in cells : f[c] = e
    BY <1>1
  <2>2. f \in Surjection(cells, there)
    BY <2>1 DEF Surjection
  <2> QED
    BY <1>3, <2>2, FS_Surjection
<1> QED
  BY <1>1, <1>2, <1>3

LEMMA LinkedThere ==
  ASSUME NEW cells \in SUBSET Hexes, Linked(cells), NEW t \in Hexes
  PROVE  Linked(soft_tile_translate(cells, t))
<1> DEFINE there == soft_tile_translate(cells, t)
<1>1. there = {Shifted(c, t) : c \in cells}
  BY Translated
<1> HIDE DEF there
<1>2. ASSUME NEW S \in SUBSET there, S # {}, S # there PROVE around(S) \intersect there # {}
  <2> DEFINE here == {c \in cells : Shifted(c, t) \in S}
  <2>1. here \in SUBSET cells /\ here # {} /\ here # cells
    BY <1>1, <1>2
  <2> HIDE DEF here
  <2>2. PICK y : y \in around(here) \intersect cells
    BY <2>1 DEF Linked
  <2>3. y \notin here
    BY <2>2, Around
  <2>4. PICK x \in here : y \in soft_tile_neighbors(x)
    BY <2>2, Around
  <2>5. x \in Hexes /\ y \in Hexes
    BY <2>1, <2>2, <2>4
  <2>6. Shifted(y, t) \in soft_tile_neighbors(Shifted(x, t)) /\ Shifted(x, t) \in S /\ Shifted(y, t) \notin S
    BY <2>2, <2>3, <2>4, <2>5, Movement DEF here
  <2>7. Shifted(y, t) \in around(S)
    BY <2>6, Around
  <2> QED
    BY <1>1, <2>2, <2>7
<1> QED
  BY <1>2 DEF Linked, there

-----------------------------------------------------------------------------
\* A core is rows of hexagons.
LEMMA CoreRows ==
  ASSUME NEW size \in Sizes
  PROVE  /\ Slab(make_core(size)) /\ IsFiniteSet(make_core(size)) /\ make_core(size) # {}
         /\ make_core(size) \subseteq Hexes
<1> DEFINE n == size.columns
           low == -(size.rows \div 2)
           high == size.rows - 1 - (size.rows \div 2)
           left == [r \in Int |-> -(n \div 2) - (r \div 2)]
           core == make_core(size)
           cell(column, r) == <<column - (n \div 2) - (r \div 2), r>>
<1>1. n \in Nat \ {0} /\ size.rows \in Nat \ {0}
  BY DEF Sizes
<1>2. low \in Int /\ high \in Int /\ low <= high /\ n \div 2 \in Int /\ \A r \in Int : r \div 2 \in Int
  BY <1>1
<1>3. left \in [Int -> Int] /\ \A r \in Int : left[r + 1] = left[r] \/ left[r + 1] = left[r] - 1
  <2>1. \A r \in Int : (r + 1) \div 2 = r \div 2 \/ (r + 1) \div 2 = r \div 2 + 1
    OBVIOUS
  <2>2. ASSUME NEW r \in Int PROVE left[r + 1] = left[r] \/ left[r + 1] = left[r] - 1
    <3>1. r + 1 \in Int /\ r \div 2 \in Int /\ (r + 1) \div 2 \in Int
      BY <1>2
    <3>2. left[r + 1] = -(n \div 2) - ((r + 1) \div 2) /\ left[r] = -(n \div 2) - (r \div 2)
      BY <3>1
    <3> HIDE DEF left
    <3> QED
      BY <1>2, <2>1, <3>1, <3>2
  <2>3. left \in [Int -> Int]
    BY <1>2
  <2> QED
    BY <2>2, <2>3
<1>4. core = {cell(column, r) : column \in 0..n - 1, r \in low..high}
  BY DEF make_core
<1>5. ASSUME NEW column \in 0..n - 1, NEW r \in low..high
      PROVE  /\ cell(column, r) \in Hexes /\ cell(column, r)[1] = column - (n \div 2) - (r \div 2)
             /\ cell(column, r)[2] = r /\ r \in Int /\ low <= r /\ r <= high
             /\ left[r] <= column - (n \div 2) - (r \div 2)
             /\ column - (n \div 2) - (r \div 2) < left[r] + n
  <2>1. /\ r \in Int /\ column \in Int /\ 0 <= column /\ column <= n - 1 /\ n \div 2 \in Int
        /\ r \div 2 \in Int /\ low <= r /\ r <= high
    BY <1>1, <1>2
  <2>2. cell(column, r) \in Hexes
    BY <2>1 DEF Hexes
  <2> QED
    BY <1>1, <2>1, <2>2
<1>6. core \subseteq {c \in Hexes : low <= c[2] /\ c[2] <= high /\ left[c[2]] <= c[1] /\ c[1] < left[c[2]] + n}
  BY <1>4, <1>5
<1>7. ASSUME NEW c \in Hexes, low <= c[2], c[2] <= high, left[c[2]] <= c[1], c[1] < left[c[2]] + n
      PROVE  c \in core
  <2> DEFINE column == c[1] + (n \div 2) + (c[2] \div 2)
  <2>1. c = <<c[1], c[2]>> /\ c[1] \in Int /\ c[2] \in Int
    BY DEF Hexes
  <2>2. column \in 0..n - 1 /\ c[2] \in low..high /\ column - (n \div 2) - (c[2] \div 2) = c[1]
    BY <1>1, <1>2, <1>7, <2>1
  <2>3. c = cell(column, c[2])
    BY <2>1, <2>2
  <2> QED
    BY <1>4, <2>2, <2>3
<1>8. InRows(core, low, high, n, left)
  <2>1. core = {c \in Hexes : low <= c[2] /\ c[2] <= high /\ left[c[2]] <= c[1] /\ c[1] < left[c[2]] + n}
    BY <1>6, <1>7
  <2> HIDE DEF core, low, high, n, left
  <2> QED
    BY <1>1, <1>2, <1>3, <2>1 DEF InRows
<1>9. Slab(core)
  BY <1>8 DEF Slab
<1>10. IsFiniteSet(core)
  <2> DEFINE grid == (0..n - 1) \X (low..high)
             f == [g \in grid |-> cell(g[1], g[2])]
  <2>1. IsFiniteSet(0..n - 1) /\ IsFiniteSet(low..high)
    <3>1. 0 \in Int /\ n - 1 \in Int
      BY <1>1
    <3> HIDE DEF n, low, high
    <3> QED
      BY <1>2, <3>1, FS_Interval
  <2>2. f \in [grid -> core] /\ \A c \in core : \E g \in grid : f[g] = c
    <3> HIDE DEF cell, low, high, n, core
    <3>1. \A g \in grid : g[1] \in 0..n - 1 /\ g[2] \in low..high
      OBVIOUS
    <3>2. \A g \in grid : f[g] \in core
      BY <1>4, <3>1
    <3>3. ASSUME NEW c \in core PROVE \E g \in grid : f[g] = c
      <4>1. PICK column \in 0..n - 1, r \in low..high : c = cell(column, r)
        BY <1>4
      <4>2. <<column, r>> \in grid /\ f[<<column, r>>] = cell(column, r)
        OBVIOUS
      <4> QED
        BY <4>1, <4>2
    <3> QED
      BY <3>2, <3>3
  <2>3. f \in Surjection(grid, core)
    BY <2>2 DEF Surjection
  <2>4. IsFiniteSet(grid)
    <3> HIDE DEF n, low, high
    <3> QED
      BY <2>1, FS_Product
  <2> QED
    BY <2>3, <2>4, FS_Surjection
<1>11. core # {} /\ core \subseteq Hexes
  <2>1. 0 \in 0..n - 1 /\ low \in low..high
    BY <1>1, <1>2
  <2> HIDE DEF cell, low, high, n
  <2>2. cell(0, low) \in core
    BY <1>4, <2>1
  <2> QED
    BY <1>6, <2>2
<1> QED
  BY <1>9, <1>10, <1>11

LEMMA RowsThere ==
  ASSUME NEW core, Slab(core), NEW t \in Hexes
  PROVE  Slab(soft_tile_translate(core, t))
<1> DEFINE there == soft_tile_translate(core, t)
<1>1. PICK low, high, n, left : InRows(core, low, high, n, left)
  BY DEF Slab
<1>2. /\ low \in Int /\ high \in Int /\ low <= high /\ n \in Nat \ {0} /\ left \in [Int -> Int]
      /\ \A r \in Int : left[r + 1] = left[r] \/ left[r + 1] = left[r] - 1
      /\ core = {c \in Hexes : low <= c[2] /\ c[2] <= high /\ left[c[2]] <= c[1] /\ c[1] < left[c[2]] + n}
  BY <1>1 DEF InRows
<1>3. t[1] \in Int /\ t[2] \in Int
  BY DEF Hexes
<1> DEFINE bottom == low + t[2]
           top == high + t[2]
           side == [r \in Int |-> left[r - t[2]] + t[1]]
<1>4. bottom \in Int /\ top \in Int /\ bottom <= top
  BY <1>2, <1>3
<1>5. side \in [Int -> Int]
  BY <1>2, <1>3
<1>0. \A r \in Int : side[r] = left[r - t[2]] + t[1]
  OBVIOUS
<1> HIDE DEF side
<1>6. ASSUME NEW r \in Int PROVE side[r + 1] = side[r] \/ side[r + 1] = side[r] - 1
  <2> DEFINE b == r - t[2]
  <2>1. b \in Int /\ (r + 1) - t[2] = b + 1 /\ r + 1 \in Int
    BY <1>3
  <2>2. side[r + 1] = left[b + 1] + t[1] /\ side[r] = left[b] + t[1]
    <3>1. side[r + 1] = left[(r + 1) - t[2]] + t[1]
      BY <1>0, <2>1
    <3>2. side[r] = left[b] + t[1]
      BY <1>0, Zenon
    <3> QED
      BY <2>1, <3>1, <3>2, Zenon
  <2>3. left[b] \in Int /\ left[b + 1] \in Int /\ (left[b + 1] = left[b] \/ left[b + 1] = left[b] - 1)
    BY <1>2, <2>1
  <2> HIDE DEF b
  <2> QED
    BY <1>3, <2>2, <2>3
<1> DEFINE rows == {c \in Hexes : bottom <= c[2] /\ c[2] <= top /\ side[c[2]] <= c[1] /\ c[1] < side[c[2]] + n}
<1>7. ASSUME NEW c \in core PROVE Shifted(c, t) \in rows
  <2>1. c[1] \in Int /\ c[2] \in Int /\ low <= c[2] /\ c[2] <= high /\ left[c[2]] <= c[1] /\ c[1] < left[c[2]] + n
    BY <1>2 DEF Hexes
  <2>2. /\ Shifted(c, t) \in Hexes /\ Shifted(c, t)[1] = c[1] + t[1] /\ Shifted(c, t)[2] = c[2] + t[2]
    BY <1>2, <1>3, <2>1, Movement DEF Shifted
  <2>3. c[2] + t[2] \in Int /\ (c[2] + t[2]) - t[2] = c[2] /\ left[c[2]] \in Int
    BY <1>2, <1>3, <2>1
  <2>4. side[c[2] + t[2]] = left[c[2]] + t[1]
    <3>1. side[c[2] + t[2]] = left[(c[2] + t[2]) - t[2]] + t[1]
      BY <1>0, <2>3
    <3> QED
      BY <2>3, <3>1, Zenon
  <2>5. /\ bottom <= c[2] + t[2] /\ c[2] + t[2] <= top /\ side[c[2] + t[2]] <= c[1] + t[1]
        /\ c[1] + t[1] < side[c[2] + t[2]] + n
    BY <1>2, <1>3, <2>1, <2>3, <2>4
  <2> HIDE DEF bottom, top
  <2> QED
    BY <2>2, <2>5
<1>8. ASSUME NEW d \in rows PROVE \E c \in core : d = Shifted(c, t)
  <2> DEFINE c == <<d[1] - t[1], d[2] - t[2]>>
  <2>1. /\ d = <<d[1], d[2]>> /\ d[1] \in Int /\ d[2] \in Int /\ bottom <= d[2] /\ d[2] <= top
        /\ side[d[2]] <= d[1] /\ d[1] < side[d[2]] + n
    BY DEF Hexes
  <2>2. side[d[2]] = left[d[2] - t[2]] + t[1] /\ d[2] - t[2] \in Int /\ left[d[2] - t[2]] \in Int
    BY <1>0, <1>2, <1>3, <2>1
  <2>3. /\ low <= d[2] - t[2] /\ d[2] - t[2] <= high /\ left[d[2] - t[2]] <= d[1] - t[1]
        /\ d[1] - t[1] < left[d[2] - t[2]] + n /\ d[1] - t[1] \in Int
    BY <1>2, <1>3, <2>1, <2>2
  <2>4. c \in Hexes /\ c[1] = d[1] - t[1] /\ c[2] = d[2] - t[2]
    BY <2>2, <2>3 DEF Hexes
  <2>5. c \in core
    BY <1>2, <2>3, <2>4
  <2>6. c[1] + t[1] = d[1] /\ c[2] + t[2] = d[2]
    BY <1>3, <2>1, <2>4
  <2>7. d = Shifted(c, t)
    BY <2>1, <2>6 DEF Shifted
  <2> QED
    BY <2>5, <2>7
<1>9. there = rows
  <2>1. there = {Shifted(c, t) : c \in core}
    BY <1>2, Translated
  <2> HIDE DEF there, rows
  <2> QED
    BY <1>7, <1>8, <2>1
<1>10. InRows(there, bottom, top, n, side)
  <2>1. there = {c \in Hexes : bottom <= c[2] /\ c[2] <= top /\ side[c[2]] <= c[1] /\ c[1] < side[c[2]] + n}
    BY <1>9
  <2> HIDE DEF there, bottom, top
  <2> QED
    BY <1>2, <1>4, <1>5, <1>6, <2>1 DEF InRows
<1> QED
  BY <1>10 DEF Slab

\* Rows of hexagons are in one piece.
LEMMA RowsLinked ==
  ASSUME NEW core, Slab(core)
  PROVE  Linked(core)
<1>1. PICK low, high, n, left : InRows(core, low, high, n, left)
  BY DEF Slab
<1>2. /\ low \in Int /\ high \in Int /\ low <= high /\ n \in Nat \ {0} /\ left \in [Int -> Int]
      /\ \A r \in Int : left[r + 1] = left[r] \/ left[r + 1] = left[r] - 1
      /\ core = {c \in Hexes : low <= c[2] /\ c[2] <= high /\ left[c[2]] <= c[1] /\ c[1] < left[c[2]] + n}
  BY <1>1 DEF InRows
<1>3. \A q, r \in Int : <<q, r>> \in core <=> low <= r /\ r <= high /\ left[r] <= q /\ q < left[r] + n
  BY <1>2 DEF Hexes
<1>4. \A c \in core : c = <<c[1], c[2]>> /\ c[1] \in Int /\ c[2] \in Int
  BY <1>2 DEF Hexes
<1>5. SUFFICES ASSUME NEW S \in SUBSET core, S # {}, around(S) \intersect core = {} PROVE S = core
  BY DEF Linked
<1>6. ASSUME NEW c \in S, NEW d \in core, d \in soft_tile_neighbors(c) PROVE d \in S
  BY <1>5, <1>6, Around
<1>7. \A q, r \in Int : <<q, r>> \in S => <<q, r>> \in core
  OBVIOUS
<1>8. ASSUME NEW q \in Int, NEW r \in Int, <<q, r>> \in S
      PROVE  /\ <<q + 1, r>> \in core => <<q + 1, r>> \in S
             /\ <<q - 1, r>> \in core => <<q - 1, r>> \in S
             /\ <<q, r + 1>> \in core => <<q, r + 1>> \in S
             /\ <<q - 1, r + 1>> \in core => <<q - 1, r + 1>> \in S
             /\ <<q, r - 1>> \in core => <<q, r - 1>> \in S
             /\ <<q + 1, r - 1>> \in core => <<q + 1, r - 1>> \in S
  <2>1. /\ <<q + 1, r>> \in soft_tile_neighbors(<<q, r>>) /\ <<q - 1, r>> \in soft_tile_neighbors(<<q, r>>)
        /\ <<q, r + 1>> \in soft_tile_neighbors(<<q, r>>) /\ <<q - 1, r + 1>> \in soft_tile_neighbors(<<q, r>>)
        /\ <<q, r - 1>> \in soft_tile_neighbors(<<q, r>>) /\ <<q + 1, r - 1>> \in soft_tile_neighbors(<<q, r>>)
    BY DEF soft_tile_neighbors
  <2> QED
    BY <1>6, <1>8, <2>1
<1> HIDE DEF Linked
<1>9. ASSUME NEW q \in Int, NEW r \in Int, <<q, r>> \in S, NEW e \in Int, <<e, r>> \in core
      PROVE  <<e, r>> \in S
  <2>1. low <= r /\ r <= high /\ left[r] <= q /\ q < left[r] + n /\ left[r] <= e /\ e < left[r] + n /\ left[r] \in Int
    BY <1>2, <1>3, <1>9
  <2>2. CASE q <= e
    <3> DEFINE Bad == {d \in Nat : q + d <= e /\ <<q + d, r>> \notin S}
               d == Min(Bad)
    <3>1. SUFFICES ASSUME <<e, r>> \notin S PROVE FALSE
      OBVIOUS
    <3>2. Bad \subseteq Nat /\ Bad # {}
      <4>1. e - q \in Nat /\ q + (e - q) = e
        BY <1>9, <2>2
      <4>2. e - q \in Bad
        BY <3>1, <4>1
      <4> QED
        BY <4>2
    <3> HIDE DEF Bad
    <3>3. d \in Bad /\ \A k \in Bad : d <= k
      BY <3>2, Smallest
    <3> HIDE DEF d
    <3>4. d \in Nat /\ q + d <= e /\ <<q + d, r>> \notin S
      BY <3>3 DEF Bad
    <3>5. d # 0
      <4>1. q + 0 = q
        OBVIOUS
      <4> QED
        BY <1>9, <3>4, <4>1
    <3>6. d - 1 \in Nat /\ q + (d - 1) <= e /\ ~(d <= d - 1)
      BY <1>9, <3>4, <3>5
    <3>7. <<q + (d - 1), r>> \in S
      BY <3>3, <3>6 DEF Bad
    <3>8. q + (d - 1) \in Int /\ (q + (d - 1)) + 1 = q + d /\ q + d \in Int /\ left[r] <= q + d /\ q + d < left[r] + n
      BY <1>2, <1>9, <2>1, <3>4, <3>6
    <3>9. <<q + d, r>> \in core
      BY <1>3, <2>1, <3>8
    <3> QED
      BY <1>8, <3>4, <3>7, <3>8, <3>9
  <2>3. CASE e <= q
    <3> DEFINE Bad == {d \in Nat : e <= q - d /\ <<q - d, r>> \notin S}
               d == Min(Bad)
    <3>1. SUFFICES ASSUME <<e, r>> \notin S PROVE FALSE
      OBVIOUS
    <3>2. Bad \subseteq Nat /\ Bad # {}
      <4>1. q - e \in Nat /\ q - (q - e) = e
        BY <1>9, <2>3
      <4>2. q - e \in Bad
        BY <3>1, <4>1
      <4> QED
        BY <4>2
    <3> HIDE DEF Bad
    <3>3. d \in Bad /\ \A k \in Bad : d <= k
      BY <3>2, Smallest
    <3> HIDE DEF d
    <3>4. d \in Nat /\ e <= q - d /\ <<q - d, r>> \notin S
      BY <3>3 DEF Bad
    <3>5. d # 0
      <4>1. q - 0 = q
        OBVIOUS
      <4> QED
        BY <1>9, <3>4, <4>1
    <3>6. d - 1 \in Nat /\ e <= q - (d - 1) /\ ~(d <= d - 1)
      BY <1>9, <3>4, <3>5
    <3>7. <<q - (d - 1), r>> \in S
      BY <3>3, <3>6 DEF Bad
    <3>8. q - (d - 1) \in Int /\ (q - (d - 1)) - 1 = q - d /\ q - d \in Int /\ left[r] <= q - d /\ q - d < left[r] + n
      BY <1>2, <1>9, <2>1, <3>4, <3>6
    <3>9. <<q - d, r>> \in core
      BY <1>3, <2>1, <3>8
    <3> QED
      BY <1>8, <3>4, <3>7, <3>8, <3>9
  <2> QED
    BY <1>9, <2>2, <2>3
<1> DEFINE Full(r) == \A q \in Int : <<q, r>> \in core => <<q, r>> \in S
<1>10. \A r \in Int : low <= r /\ r <= high => <<left[r], r>> \in core
  BY <1>2, <1>3
<1>11. ASSUME NEW r \in Int, low <= r, r + 1 <= high, Full(r) PROVE Full(r + 1)
  <2>1. r + 1 \in Int /\ r <= high /\ low <= r + 1 /\ left[r] \in Int /\ left[r + 1] \in Int
    BY <1>2, <1>11
  <2>2. <<left[r], r>> \in S /\ <<left[r + 1], r + 1>> \in core
    BY <1>10, <1>11, <2>1
  <2>3. <<left[r + 1], r + 1>> \in S
    BY <1>2, <1>8, <2>1, <2>2
  <2> QED
    BY <1>9, <2>1, <2>3
<1>12. ASSUME NEW r \in Int, low <= r - 1, r <= high, Full(r) PROVE Full(r - 1)
  <2>1. r - 1 \in Int /\ r - 1 <= high /\ low <= r /\ left[r] \in Int /\ left[r - 1] \in Int /\ (r - 1) + 1 = r
    BY <1>2, <1>12
  <2>2. left[r - 1] = left[r] \/ left[r - 1] = left[r] + 1
    <3>1. left[(r - 1) + 1] = left[r - 1] \/ left[(r - 1) + 1] = left[r - 1] - 1
      BY <1>2, <2>1
    <3> QED
      BY <2>1, <3>1
  <2>3. <<left[r], r>> \in S /\ <<left[r - 1], r - 1>> \in core
    BY <1>10, <1>12, <2>1
  <2>4. <<left[r - 1], r - 1>> \in S
    BY <1>8, <2>1, <2>2, <2>3
  <2> QED
    BY <1>9, <2>1, <2>4
<1>13. PICK s \in S : TRUE
  BY <1>5
<1> DEFINE home == s[2]
<1>14. home \in Int /\ low <= home /\ home <= high /\ Full(home)
  <2>1. s = <<s[1], s[2]>> /\ s[1] \in Int /\ s[2] \in Int /\ s \in core
    BY <1>4, <1>13
  <2>2. <<s[1], s[2]>> \in core /\ <<s[1], s[2]>> \in S
    BY <1>13, <2>1
  <2> QED
    BY <1>3, <1>9, <2>1, <2>2
<1> HIDE DEF home, Full
<1>15. ASSUME NEW r \in Int, home <= r, r <= high PROVE Full(r)
  <2> DEFINE Bad == {d \in Nat : home + d <= r /\ ~Full(home + d)}
             d == Min(Bad)
  <2>1. SUFFICES ASSUME ~Full(r) PROVE FALSE
    OBVIOUS
  <2>2. Bad \subseteq Nat /\ Bad # {}
    <3>1. r - home \in Nat /\ home + (r - home) = r
      BY <1>14, <1>15
    <3>2. r - home \in Bad
      BY <2>1, <3>1
    <3> QED
      BY <3>2
  <2> HIDE DEF Bad
  <2>3. d \in Bad /\ \A k \in Bad : d <= k
    BY <2>2, Smallest
  <2> HIDE DEF d
  <2>4. d \in Nat /\ home + d <= r /\ ~Full(home + d)
    BY <2>3 DEF Bad
  <2>5. d # 0
    <3>1. home + 0 = home
      BY <1>14
    <3> QED
      BY <1>14, <2>4, <3>1
  <2>6. d - 1 \in Nat /\ home + (d - 1) <= r /\ ~(d <= d - 1)
    BY <1>14, <1>15, <2>4, <2>5
  <2>7. Full(home + (d - 1))
    BY <2>3, <2>6 DEF Bad
  <2>8. home + (d - 1) \in Int /\ (home + (d - 1)) + 1 = home + d /\ low <= home + (d - 1) /\ home + d <= high
    BY <1>2, <1>14, <1>15, <2>4, <2>6
  <2> QED
    BY <1>11, <2>4, <2>7, <2>8
<1>16. ASSUME NEW r \in Int, r <= home, low <= r PROVE Full(r)
  <2> DEFINE Bad == {d \in Nat : r <= home - d /\ ~Full(home - d)}
             d == Min(Bad)
  <2>1. SUFFICES ASSUME ~Full(r) PROVE FALSE
    OBVIOUS
  <2>2. Bad \subseteq Nat /\ Bad # {}
    <3>1. home - r \in Nat /\ home - (home - r) = r
      BY <1>14, <1>16
    <3>2. home - r \in Bad
      BY <2>1, <3>1
    <3> QED
      BY <3>2
  <2> HIDE DEF Bad
  <2>3. d \in Bad /\ \A k \in Bad : d <= k
    BY <2>2, Smallest
  <2> HIDE DEF d
  <2>4. d \in Nat /\ r <= home - d /\ ~Full(home - d)
    BY <2>3 DEF Bad
  <2>5. d # 0
    <3>1. home - 0 = home
      BY <1>14
    <3> QED
      BY <1>14, <2>4, <3>1
  <2>6. d - 1 \in Nat /\ r <= home - (d - 1) /\ ~(d <= d - 1)
    BY <1>14, <1>16, <2>4, <2>5
  <2>7. Full(home - (d - 1))
    BY <2>3, <2>6 DEF Bad
  <2>8. home - (d - 1) \in Int /\ (home - (d - 1)) - 1 = home - d /\ low <= home - d /\ home - (d - 1) <= high
    BY <1>2, <1>14, <1>16, <2>4, <2>6
  <2> QED
    BY <1>12, <2>4, <2>7, <2>8
<1>17. ASSUME NEW c \in core PROVE c \in S
  <2>1. c = <<c[1], c[2]>> /\ c[1] \in Int /\ c[2] \in Int
    BY <1>4
  <2>2. low <= c[2] /\ c[2] <= high
    BY <1>3, <2>1
  <2>3. Full(c[2])
    BY <1>14, <1>15, <1>16, <2>1, <2>2
  <2> QED
    BY <2>1, <2>3 DEF Full
<1> QED
  BY <1>17

-----------------------------------------------------------------------------
\* A finite set of integers has its bounds.
LEMMA Lowest ==
  ASSUME NEW S, S \subseteq Int, S # {}, IsFiniteSet(S)
  PROVE  /\ Min(S) \in S /\ Min(S) \in Int /\ \A y \in S : Min(S) <= y
         /\ Max(S) \in S /\ Max(S) \in Int /\ \A y \in S : y <= Max(S)
<1> DEFINE Below(x) == {y \in S : y < x}
           Above(x) == {y \in S : y > x}
           fewest == Min({Cardinality(Below(x)) : x \in S})
           least == Min({Cardinality(Above(x)) : x \in S})
<1>1. \A x \in S : Cardinality(Below(x)) \in Nat /\ Cardinality(Above(x)) \in Nat
  <2> TAKE x \in S
  <2>1. Below(x) \in SUBSET S /\ Above(x) \in SUBSET S
    OBVIOUS
  <2> HIDE DEF Below, Above
  <2>2. IsFiniteSet(Below(x)) /\ IsFiniteSet(Above(x))
    BY <2>1, FS_Subset
  <2> QED
    BY <2>2, FS_CardinalityType
<1>2. \A x, y \in S : y < x =>
        ~(Cardinality(Below(x)) <= Cardinality(Below(y))) /\ ~(Cardinality(Above(y)) <= Cardinality(Above(x)))
  <2> SUFFICES ASSUME NEW x \in S, NEW y \in S, y < x
               PROVE  ~(Cardinality(Below(x)) <= Cardinality(Below(y))) /\ ~(Cardinality(Above(y)) <= Cardinality(Above(x)))
    OBVIOUS
  <2>1. /\ Below(x) \in SUBSET S /\ Below(y) \in SUBSET Below(x) /\ y \in Below(x) /\ y \notin Below(y)
        /\ Above(y) \in SUBSET S /\ Above(x) \in SUBSET Above(y) /\ x \in Above(y) /\ x \notin Above(x)
    <3>1. x \in Int /\ y \in Int /\ y < x /\ ~(y < y) /\ ~(x > x) /\ x > y
      OBVIOUS
    <3>2. ASSUME NEW z \in S PROVE z \in Int /\ (z < y => z < x) /\ (z > x => z > y)
      BY <3>1, z \in Int
    <3> QED
      BY <3>1, <3>2
  <2>2. Cardinality(Below(x)) \in Nat /\ Cardinality(Below(y)) \in Nat
        /\ Cardinality(Above(x)) \in Nat /\ Cardinality(Above(y)) \in Nat
    BY <1>1
  <2> HIDE DEF Below, Above
  <2>3. IsFiniteSet(Below(x)) /\ IsFiniteSet(Above(y))
    BY <2>1, FS_Subset
  <2>4. /\ Cardinality(Below(y)) <= Cardinality(Below(x))
        /\ Cardinality(Below(x)) = Cardinality(Below(y)) => Below(x) = Below(y)
    BY <2>1, <2>3, FS_Subset
  <2>5. /\ Cardinality(Above(x)) <= Cardinality(Above(y))
        /\ Cardinality(Above(y)) = Cardinality(Above(x)) => Above(y) = Above(x)
    BY <2>1, <2>3, FS_Subset
  <2> QED
    BY <2>1, <2>2, <2>4, <2>5
<1> HIDE DEF Below, Above
<1>3. /\ fewest \in {Cardinality(Below(x)) : x \in S} /\ \A k \in {Cardinality(Below(x)) : x \in S} : fewest <= k
      /\ least \in {Cardinality(Above(x)) : x \in S} /\ \A k \in {Cardinality(Above(x)) : x \in S} : least <= k
  <2>1. /\ {Cardinality(Below(x)) : x \in S} \subseteq Nat /\ {Cardinality(Below(x)) : x \in S} # {}
        /\ {Cardinality(Above(x)) : x \in S} \subseteq Nat /\ {Cardinality(Above(x)) : x \in S} # {}
    BY <1>1
  <2> QED
    BY <2>1, Smallest
<1> HIDE DEF fewest, least
<1>4. PICK low \in S : fewest = Cardinality(Below(low))
  BY <1>3
<1>5. PICK high \in S : least = Cardinality(Above(high))
  BY <1>3
<1>6. \A y \in S : low <= y
  <2> SUFFICES ASSUME NEW y \in S, ~(low <= y) PROVE FALSE
    OBVIOUS
  <2>1. y < low
    BY low \in Int, y \in Int
  <2> QED
    BY <1>2, <1>3, <1>4, <2>1
<1>7. \A y \in S : high >= y
  <2> SUFFICES ASSUME NEW y \in S, ~(high >= y) PROVE FALSE
    OBVIOUS
  <2>1. high < y
    BY high \in Int, y \in Int
  <2> QED
    BY <1>2, <1>3, <1>5, <2>1
<1>8. Min(S) \in S /\ \A y \in S : Min(S) <= y
  BY <1>6 DEF Min
<1>9. Max(S) \in S /\ \A y \in S : Max(S) >= y
  BY <1>7 DEF Max
<1> QED
  BY <1>8, <1>9

\* A flood stops where it has everything it touches.
LEMMA Flooding ==
  ASSUME NEW within, IsFiniteSet(within), NEW from \in SUBSET within
  PROVE  LET reach == flooded(from, within)
         IN from \subseteq reach /\ reach \subseteq within /\ around(reach) \intersect within = {}
<1> DEFINE N == Cardinality(within)
           wider(s) == s \union (around(s) \intersect within)
           unfolds(f) == f = [n \in 0..N |-> IF n = 0 THEN from ELSE wider(f[n - 1])]
           reached == CHOOSE f : unfolds(f)
<1>1. N \in Nat
  BY FS_CardinalityType
<1>2. flooded(from, within) = reached[N]
  BY DEF flooded
<1> HIDE DEF N
<1>3. unfolds(reached)
  <2> DEFINE States == SUBSET within
             Step == [q \in States \X (1..N) |-> wider(q[1])]
  <2>1. Step \in [States \X (1..N) -> States]
    OBVIOUS
  <2>2. PICK made : Repeats(made, N, from, Step, States)
    <3> HIDE DEF Step
    <3> QED
      BY <1>1, <2>1, Iterated
  <2>3. /\ made \in [SUBSET (1..N) -> States]
        /\ \A s \in SUBSET (1..N) : made[s] = IF s = {} THEN from ELSE Step[<<made[s \ {Max(s)}], Max(s)>>]
    BY <2>2 DEF Repeats
  <2> DEFINE f == [n \in 0..N |-> made[1..n]]
  <2>4. ASSUME NEW n \in 0..N, n # 0 PROVE f[n] = wider(f[n - 1])
    <3> DEFINE k == n - 1
    <3>1. k \in Nat /\ k + 1 = n /\ k \in 0..N /\ n \in 1..N
      BY <1>1, <2>4
    <3> HIDE DEF k
    <3>2. 1..n \in SUBSET (1..(k + 1)) /\ k + 1 \in 1..n /\ 1..n \in SUBSET (1..N) /\ 1..k \in SUBSET (1..N)
      BY <1>1, <3>1
    <3>3. Max(1..n) = n
      BY <3>1, <3>2, Topmost
    <3>4. (1..n) \ {n} = 1..k
      BY <3>1
    <3>5. 1..n # {}
      BY <3>2
    <3>6. made[1..n] = Step[<<made[1..k], n>>]
      BY <2>3, <3>2, <3>3, <3>4, <3>5
    <3>7. made[1..k] \in States
      BY <2>3, <3>2
    <3>8. Step[<<made[1..k], n>>] = wider(made[1..k])
      <4> HIDE DEF wider, States
      <4> QED
        BY <3>1, <3>7
    <3>9. f[n] = made[1..n] /\ f[k] = made[1..k]
      BY <3>1
    <3> HIDE DEF wider, f
    <3>10. f[n] = wider(f[k])
      BY <3>6, <3>8, <3>9, Zenon
    <3> QED
      BY <3>10 DEF k
  <2>5. f[0] = from
    <3>1. 1..0 = {} /\ {} \in SUBSET (1..N) /\ 0 \in 0..N
      BY <1>1
    <3> QED
      BY <2>3, <3>1
  <2>6. f = [n \in 0..N |-> IF n = 0 THEN from ELSE wider(f[n - 1])]
    <3>1. f = [n \in 0..N |-> f[n]]
      OBVIOUS
    <3> HIDE DEF f, wider
    <3> QED
      BY <2>4, <2>5, <3>1
  <2>7. unfolds(f)
    BY <2>6
  <2> HIDE DEF f, unfolds
  <2> QED
    BY <2>7
<1> HIDE DEF reached
<1>4. /\ reached[0] = from
      /\ \A n \in 0..N : n # 0 => reached[n] = wider(reached[n - 1])
  <2>1. 0 \in 0..N
    BY <1>1
  <2> HIDE DEF wider
  <2> QED
    BY <1>3, <2>1
<1> DEFINE Closed(s) == around(s) \intersect within = {}
           Good(n) == /\ reached[n] \in SUBSET within /\ from \subseteq reached[n]
                      /\ Closed(reached[n]) \/ Cardinality(reached[n]) >= n
           Bad == {n \in 0..N : ~Good(n)}
           m == Min(Bad)
<1>5. Bad = {}
  <2> SUFFICES ASSUME Bad # {} PROVE FALSE
    OBVIOUS
  <2>1. m \in Bad /\ \A k \in Bad : m <= k
    <3>1. Bad \subseteq Nat
      BY <1>1
    <3> HIDE DEF Bad
    <3> QED
      BY <3>1, Smallest
  <2> HIDE DEF m, Good
  <2>2. m \in 0..N /\ ~Good(m)
    BY <2>1
  <2>3. m # 0
    <3> SUFFICES ASSUME m = 0 PROVE FALSE
      OBVIOUS
    <3>1. Cardinality(from) \in Nat
      BY FS_Subset, FS_CardinalityType
    <3>2. Good(0)
      BY <1>4, <3>1 DEF Good
    <3> QED
      BY <2>2, <3>2
  <2> DEFINE k == m - 1
             s == reached[k]
             t == reached[m]
  <2>4. k \in 0..N /\ ~(m <= k) /\ k + 1 = m /\ k \in Nat
    BY <1>1, <2>2, <2>3
  <2>5. Good(k)
    BY <2>1, <2>4
  <2>6. t = wider(s)
    <3> HIDE DEF wider
    <3> QED
      BY <1>4, <2>2, <2>3
  <2> HIDE DEF k, t, s
  <2>7. s \in SUBSET within /\ from \subseteq s /\ (Closed(s) \/ Cardinality(s) >= k)
    BY <2>5 DEF Good, s
  <2>8. t \in SUBSET within /\ from \subseteq t /\ s \in SUBSET t
    BY <2>6, <2>7
  <2>9. Closed(t) \/ Cardinality(t) >= m
    <3>1. CASE Closed(s)
      BY <2>6, <3>1
    <3>2. CASE ~Closed(s)
      <4>1. s # t
        BY <2>6, <3>2, Around
      <4>2. IsFiniteSet(t) /\ IsFiniteSet(s)
        BY <2>7, <2>8, FS_Subset
      <4>3. Cardinality(t) \in Nat /\ Cardinality(s) \in Nat
        BY <4>2, FS_CardinalityType
      <4>4. Cardinality(s) <= Cardinality(t) /\ Cardinality(t) # Cardinality(s)
        BY <2>8, <4>1, <4>2, FS_Subset
      <4> QED
        BY <2>4, <2>7, <3>2, <4>3, <4>4
    <3> QED
      BY <3>1, <3>2
  <2>10. Good(m)
    BY <2>8, <2>9 DEF Good, t
  <2> QED
    BY <2>2, <2>10
<1>6. Good(N)
  BY <1>1, <1>5
<1>7. ASSUME Cardinality(reached[N]) >= N PROVE Closed(reached[N])
  <2>1. reached[N] \in SUBSET within
    BY <1>6
  <2>2. Cardinality(reached[N]) <= N /\ Cardinality(reached[N]) \in Nat
    <3>1. IsFiniteSet(reached[N]) /\ Cardinality(reached[N]) <= Cardinality(within)
      BY <2>1, FS_Subset
    <3> QED
      BY <3>1, FS_CardinalityType DEF N
  <2>3. reached[N] = within
    <3>1. Cardinality(within) = Cardinality(reached[N])
      BY <1>1, <1>7, <2>2 DEF N
    <3> QED
      BY <2>1, <3>1, FS_Subset
  <2> QED
    BY <2>3, Around
<1> QED
  BY <1>2, <1>6, <1>7

LEMMA OnePiece ==
  ASSUME NEW cells, IsFiniteSet(cells), cells # {}, Linked(cells)
  PROVE  InOnePiece(cells)
<1> DEFINE root == CHOOSE c \in cells : TRUE
           reach == flooded({root}, cells)
<1>1. root \in cells
  OBVIOUS
<1> HIDE DEF root
<1>2. {root} \subseteq reach /\ reach \subseteq cells /\ around(reach) \intersect cells = {}
  BY <1>1, Flooding
<1>3. reach = cells
  BY <1>2 DEF Linked
<1> QED
  BY <1>3 DEF InOnePiece, root

-----------------------------------------------------------------------------
\* Whatever touches the rows is one hexagon away from them.
LEMMA Band ==
  ASSUME NEW core, NEW low, NEW high, NEW n, NEW left, InRows(core, low, high, n, left),
         NEW c \in core \union around(core)
  PROVE  /\ c \in Hexes /\ low - 1 <= c[2] /\ c[2] <= high + 1
         /\ low <= c[2] /\ c[2] <= high => left[c[2]] - 1 <= c[1] /\ c[1] <= left[c[2]] + n
<1>1. /\ low \in Int /\ high \in Int /\ low <= high /\ n \in Nat \ {0} /\ left \in [Int -> Int]
      /\ \A r \in Int : left[r + 1] = left[r] \/ left[r + 1] = left[r] - 1
      /\ core = {d \in Hexes : low <= d[2] /\ d[2] <= high /\ left[d[2]] <= d[1] /\ d[1] < left[d[2]] + n}
  BY DEF InRows
<1>2. ASSUME NEW d \in core
      PROVE  /\ d \in Hexes /\ d[1] \in Int /\ d[2] \in Int /\ left[d[2]] \in Int
             /\ low <= d[2] /\ d[2] <= high /\ left[d[2]] <= d[1] /\ d[1] < left[d[2]] + n
  BY <1>1 DEF Hexes
<1>3. CASE c \in core
  BY <1>1, <1>2, <1>3
<1>4. CASE c \in around(core)
  <2>1. PICK d \in core : c \in soft_tile_neighbors(d)
    BY <1>4, Around
  <2>2. /\ d[1] \in Int /\ d[2] \in Int /\ left[d[2]] \in Int
        /\ low <= d[2] /\ d[2] <= high /\ left[d[2]] <= d[1] /\ d[1] < left[d[2]] + n
    BY <1>2
  <2>3. c \in Hexes
    BY <1>2, <2>1, Neighbors
  <2>4. c[1] \in Int /\ c[2] \in Int
    BY <2>3 DEF Hexes
  <2>5. \/ (c[1] = d[1] + 1 \/ c[1] = d[1] - 1) /\ c[2] = d[2]
        \/ (c[1] = d[1] \/ c[1] = d[1] + 1) /\ c[2] = d[2] - 1
        \/ (c[1] = d[1] \/ c[1] = d[1] - 1) /\ c[2] = d[2] + 1
    BY <2>1, <2>2 DEF soft_tile_neighbors
  <2>6. CASE (c[1] = d[1] + 1 \/ c[1] = d[1] - 1) /\ c[2] = d[2]
    BY <1>1, <2>2, <2>3, <2>4, <2>6
  <2>7. CASE (c[1] = d[1] \/ c[1] = d[1] + 1) /\ c[2] = d[2] - 1
    <3> DEFINE b == left[c[2]]
    <3>1. b \in Int /\ c[2] + 1 = d[2]
      BY <1>1, <2>2, <2>4, <2>7
    <3>2. left[d[2]] = b \/ left[d[2]] = b - 1
      BY <1>1, <2>4, <3>1
    <3> HIDE DEF b
    <3>3. b - 1 <= c[1] /\ c[1] <= b + n
      BY <1>1, <2>2, <2>4, <2>7, <3>1, <3>2
    <3>4. low - 1 <= c[2] /\ c[2] <= high + 1
      BY <1>1, <2>2, <2>4, <2>7
    <3> QED
      BY <2>3, <3>3, <3>4 DEF b
  <2>8. CASE (c[1] = d[1] \/ c[1] = d[1] - 1) /\ c[2] = d[2] + 1
    <3> DEFINE b == left[c[2]]
    <3>1. b \in Int /\ (b = left[d[2]] \/ b = left[d[2]] - 1)
      BY <1>1, <2>2, <2>4, <2>8
    <3> HIDE DEF b
    <3>3. b - 1 <= c[1] /\ c[1] <= b + n
      BY <1>1, <2>2, <2>4, <2>8, <3>1
    <3>4. low - 1 <= c[2] /\ c[2] <= high + 1
      BY <1>1, <2>2, <2>4, <2>8
    <3> QED
      BY <2>3, <3>3, <3>4 DEF b
  <2> QED
    BY <2>5, <2>6, <2>7, <2>8
<1> QED
  BY <1>3, <1>4

LEMMA WholeTyped ==
  ASSUME NEW core, NEW cells, Whole(core, cells)
  PROVE  core \subseteq Hexes /\ cells \subseteq Hexes /\ cells # {} /\ IsFiniteSet(core)
<1>1. PICK low, high, n, left : InRows(core, low, high, n, left)
  BY DEF Whole, Slab
<1>2. core \subseteq Hexes
  BY <1>1 DEF InRows
<1>3. cells \subseteq Hexes
  BY <1>1, Band DEF Whole
<1> QED
  BY <1>2, <1>3, FS_Subset DEF Whole

\* Each open hexagon beside the rows has a way out: down below them, up above
\* them, to the left or to the right between.
LEMMA Holeless ==
  ASSUME NEW core, NEW cells, Whole(core, cells)
  PROVE  soft_tile_empty_hole_count(cells) = 0
<1> DEFINE qs == {c[1] : c \in cells}
           rs == {c[2] : c \in cells}
           west == Min(qs)
           east == Max(qs)
           north == Min(rs)
           south == Max(rs)
           box == (west - 1..east + 1) \X (north - 1..south + 1)
           open == box \ cells
           rim == {c \in open : c[1] \in {west - 1, east + 1} \/ c[2] \in {north - 1, south + 1}}
           reach == flooded(rim, open)
           U == open \ reach
<1>1. soft_tile_empty_hole_count(cells) = Cardinality(U)
  BY DEF soft_tile_empty_hole_count
<1>2. cells \subseteq Hexes /\ cells # {} /\ IsFiniteSet(cells)
  BY WholeTyped DEF Whole
<1>3. \A c \in Hexes : c = <<c[1], c[2]>> /\ c[1] \in Int /\ c[2] \in Int
  BY DEF Hexes
<1>4. qs \subseteq Int /\ rs \subseteq Int /\ qs # {} /\ rs # {}
  BY <1>2, <1>3
<1>5. IsFiniteSet(qs) /\ IsFiniteSet(rs)
  <2> DEFINE f == [c \in cells |-> c[1]]
             g == [c \in cells |-> c[2]]
  <2>1. f \in [cells -> qs] /\ (\A q \in qs : \E c \in cells : f[c] = q)
        /\ g \in [cells -> rs] /\ (\A r \in rs : \E c \in cells : g[c] = r)
    OBVIOUS
  <2>2. f \in Surjection(cells, qs) /\ g \in Surjection(cells, rs)
    BY <2>1 DEF Surjection
  <2> HIDE DEF f, g, qs, rs
  <2> QED
    BY <1>2, <2>2, FS_Surjection
<1>6. west \in Int /\ east \in Int /\ north \in Int /\ south \in Int
  <2> HIDE DEF qs, rs
  <2> QED
    BY <1>4, <1>5, Lowest
<1> HIDE DEF west, east, north, south
<1>7. IsFiniteSet(open)
  <2>1. west - 1 \in Int /\ east + 1 \in Int /\ north - 1 \in Int /\ south + 1 \in Int
    BY <1>6
  <2>2. IsFiniteSet(west - 1..east + 1) /\ IsFiniteSet(north - 1..south + 1)
    BY <2>1, FS_Interval
  <2>3. IsFiniteSet(box)
    BY <2>2, FS_Product
  <2> QED
    BY <2>3, FS_Subset
<1>8. rim \subseteq reach /\ reach \subseteq open /\ around(reach) \intersect open = {}
  <2>1. rim \in SUBSET open
    OBVIOUS
  <2> HIDE DEF open, rim
  <2> QED
    BY <1>7, <2>1, Flooding
<1> HIDE DEF reach
<1>9. \A c : c \in box <=> c \in Hexes /\ west - 1 <= c[1] /\ c[1] <= east + 1 /\ north - 1 <= c[2] /\ c[2] <= south + 1
  BY <1>6 DEF Hexes
<1> HIDE DEF box
<1>10. \A c \in U : /\ c \in Hexes /\ c \notin cells /\ c[1] \in Int /\ c[2] \in Int
                    /\ west <= c[1] /\ c[1] <= east /\ north <= c[2] /\ c[2] <= south
  <2> TAKE c \in U
  <2>1. c \in box /\ c \notin cells /\ c \notin rim
    BY <1>8
  <2>2. c \in Hexes /\ c[1] \in Int /\ c[2] \in Int
    BY <1>3, <1>9, <2>1
  <2>3. c[1] # west - 1 /\ c[1] # east + 1 /\ c[2] # north - 1 /\ c[2] # south + 1
    BY <2>1
  <2> QED
    BY <1>6, <1>9, <2>1, <2>2, <2>3
<1>11. ASSUME NEW c \in U, NEW d \in soft_tile_neighbors(c), d \notin cells PROVE d \in U
  <2>1. c \in Hexes /\ c[1] \in Int /\ c[2] \in Int /\ west <= c[1] /\ c[1] <= east /\ north <= c[2] /\ c[2] <= south
    BY <1>10
  <2>2. d \in Hexes /\ c \in soft_tile_neighbors(d)
    BY <2>1, Neighbors
  <2>3. /\ d[1] \in Int /\ d[2] \in Int
        /\ c[1] - 1 <= d[1] /\ d[1] <= c[1] + 1 /\ c[2] - 1 <= d[2] /\ d[2] <= c[2] + 1
    BY <1>11, <2>1 DEF soft_tile_neighbors
  <2>4. d \in box
    BY <1>6, <1>9, <2>1, <2>2, <2>3
  <2>5. d \in open
    BY <1>11, <2>4
  <2>6. d \notin reach
    <3> SUFFICES ASSUME d \in reach PROVE FALSE
      OBVIOUS
    <3>1. c \in around(reach)
      BY <2>2, Around
    <3> QED
      BY <1>8, <3>1
  <2> QED
    BY <2>5, <2>6
<1>12. PICK low, high, n, left : InRows(core, low, high, n, left)
  BY DEF Whole, Slab
<1>13. /\ low \in Int /\ high \in Int /\ low <= high /\ n \in Nat \ {0} /\ left \in [Int -> Int]
       /\ core = {c \in Hexes : low <= c[2] /\ c[2] <= high /\ left[c[2]] <= c[1] /\ c[1] < left[c[2]] + n}
  BY <1>12 DEF InRows
<1>14. \A c \in cells : /\ low - 1 <= c[2] /\ c[2] <= high + 1
                        /\ low <= c[2] /\ c[2] <= high => left[c[2]] - 1 <= c[1] /\ c[1] <= left[c[2]] + n
  BY <1>12, Band DEF Whole
<1>15. \A q, r \in Int : <<q, r>> \in U =>
         /\ west <= q /\ q <= east /\ north <= r /\ r <= south
         /\ <<q, r + 1>> \notin cells => <<q, r + 1>> \in U
         /\ <<q, r - 1>> \notin cells => <<q, r - 1>> \in U
         /\ <<q + 1, r>> \notin cells => <<q + 1, r>> \in U
         /\ <<q - 1, r>> \notin cells => <<q - 1, r>> \in U
  <2> SUFFICES ASSUME NEW q \in Int, NEW r \in Int, <<q, r>> \in U
               PROVE  /\ west <= q /\ q <= east /\ north <= r /\ r <= south
                      /\ <<q, r + 1>> \notin cells => <<q, r + 1>> \in U
                      /\ <<q, r - 1>> \notin cells => <<q, r - 1>> \in U
                      /\ <<q + 1, r>> \notin cells => <<q + 1, r>> \in U
                      /\ <<q - 1, r>> \notin cells => <<q - 1, r>> \in U
    OBVIOUS
  <2>1. /\ <<q, r + 1>> \in soft_tile_neighbors(<<q, r>>) /\ <<q, r - 1>> \in soft_tile_neighbors(<<q, r>>)
        /\ <<q + 1, r>> \in soft_tile_neighbors(<<q, r>>) /\ <<q - 1, r>> \in soft_tile_neighbors(<<q, r>>)
    BY DEF soft_tile_neighbors
  <2> HIDE DEF U
  <2>2. west <= q /\ q <= east /\ north <= r /\ r <= south
    BY <1>10
  <2> QED
    BY <1>11, <2>1, <2>2
<1> DEFINE open_at(q, r) == <<q, r>> \in U
<1> HIDE DEF U
<1>16. \A q, r \in Int : <<q, r>> \in cells =>
         /\ low - 1 <= r /\ r <= high + 1
         /\ low <= r /\ r <= high => left[r] - 1 <= q /\ q <= left[r] + n
  BY <1>14
<1>17. ASSUME NEW q \in Int, NEW r \in Int, <<q, r>> \in U, high < r PROVE FALSE
  <2> DEFINE Bad == {d \in Nat : <<q, r + d>> \notin U}
             d == Min(Bad)
  <2>1. Bad \subseteq Nat /\ Bad # {}
    <3>0. west <= q /\ q <= east /\ north <= r /\ r <= south
      BY <1>15, <1>17
    <3>1. south + 1 - r \in Nat /\ r + (south + 1 - r) = south + 1
      BY <1>6, <1>17, <3>0
    <3>2. <<q, south + 1>> \notin U
      <4>1. south + 1 \in Int /\ ~(south + 1 <= south)
        BY <1>6
      <4> QED
        BY <1>15, <4>1
    <3>3. south + 1 - r \in Bad
      BY <3>1, <3>2
    <3> QED
      BY <3>3
  <2> HIDE DEF Bad
  <2>2. d \in Bad /\ \A k \in Bad : d <= k
    BY <2>1, Smallest
  <2> HIDE DEF d
  <2>3. d \in Nat /\ <<q, r + d>> \notin U
    BY <2>2 DEF Bad
  <2>4. d # 0
    <3>1. r + 0 = r
      OBVIOUS
    <3> QED
      BY <1>17, <2>3, <3>1
  <2>5. d - 1 \in Nat /\ ~(d <= d - 1)
    BY <2>3, <2>4
  <2>6. <<q, r + (d - 1)>> \in U
    BY <2>2, <2>5 DEF Bad
  <2>7. r + (d - 1) \in Int /\ (r + (d - 1)) + 1 = r + d /\ r + d \in Int /\ ~(r + d <= high + 1)
    BY <1>13, <1>17, <2>3, <2>5
  <2> QED
    BY <1>15, <1>16, <2>3, <2>6, <2>7
<1>18. ASSUME NEW q \in Int, NEW r \in Int, <<q, r>> \in U, r < low PROVE FALSE
  <2> DEFINE Bad == {d \in Nat : <<q, r - d>> \notin U}
             d == Min(Bad)
  <2>1. Bad \subseteq Nat /\ Bad # {}
    <3>0. west <= q /\ q <= east /\ north <= r /\ r <= south
      BY <1>15, <1>18
    <3>1. r - (north - 1) \in Nat /\ r - (r - (north - 1)) = north - 1
      BY <1>6, <1>18, <3>0
    <3>2. <<q, north - 1>> \notin U
      <4>1. north - 1 \in Int /\ ~(north <= north - 1)
        BY <1>6
      <4> QED
        BY <1>15, <4>1
    <3>3. r - (north - 1) \in Bad
      BY <3>1, <3>2
    <3> QED
      BY <3>3
  <2> HIDE DEF Bad
  <2>2. d \in Bad /\ \A k \in Bad : d <= k
    BY <2>1, Smallest
  <2> HIDE DEF d
  <2>3. d \in Nat /\ <<q, r - d>> \notin U
    BY <2>2 DEF Bad
  <2>4. d # 0
    <3>1. r - 0 = r
      OBVIOUS
    <3> QED
      BY <1>18, <2>3, <3>1
  <2>5. d - 1 \in Nat /\ ~(d <= d - 1)
    BY <2>3, <2>4
  <2>6. <<q, r - (d - 1)>> \in U
    BY <2>2, <2>5 DEF Bad
  <2>7. r - (d - 1) \in Int /\ (r - (d - 1)) - 1 = r - d /\ r - d \in Int /\ ~(low - 1 <= r - d)
    BY <1>13, <1>18, <2>3, <2>5
  <2> QED
    BY <1>15, <1>16, <2>3, <2>6, <2>7
<1>19. ASSUME NEW q \in Int, NEW r \in Int, <<q, r>> \in U, low <= r, r <= high, left[r] + n <= q PROVE FALSE
  <2> DEFINE Bad == {d \in Nat : <<q + d, r>> \notin U}
             d == Min(Bad)
  <2>1. Bad \subseteq Nat /\ Bad # {}
    <3>0. west <= q /\ q <= east /\ north <= r /\ r <= south
      BY <1>15, <1>19
    <3>1. east + 1 - q \in Nat /\ q + (east + 1 - q) = east + 1
      BY <1>6, <1>19, <3>0
    <3>2. <<east + 1, r>> \notin U
      <4>1. east + 1 \in Int /\ ~(east + 1 <= east)
        BY <1>6
      <4> QED
        BY <1>15, <4>1
    <3>3. east + 1 - q \in Bad
      BY <3>1, <3>2
    <3> QED
      BY <3>3
  <2> HIDE DEF Bad
  <2>2. d \in Bad /\ \A k \in Bad : d <= k
    BY <2>1, Smallest
  <2> HIDE DEF d
  <2>3. d \in Nat /\ <<q + d, r>> \notin U
    BY <2>2 DEF Bad
  <2>4. d # 0
    <3>1. q + 0 = q
      OBVIOUS
    <3> QED
      BY <1>19, <2>3, <3>1
  <2>5. d - 1 \in Nat /\ ~(d <= d - 1)
    BY <2>3, <2>4
  <2>6. <<q + (d - 1), r>> \in U
    BY <2>2, <2>5 DEF Bad
  <2>7. /\ q + (d - 1) \in Int /\ (q + (d - 1)) + 1 = q + d /\ q + d \in Int /\ left[r] \in Int
        /\ ~(q + d <= left[r] + n)
    <3>1. left[r] \in Int
      BY <1>13
    <3> QED
      BY <1>13, <1>19, <2>3, <2>5, <3>1
  <2> QED
    BY <1>15, <1>16, <1>19, <2>3, <2>6, <2>7
<1>20. ASSUME NEW q \in Int, NEW r \in Int, <<q, r>> \in U, low <= r, r <= high, q < left[r] PROVE FALSE
  <2> DEFINE Bad == {d \in Nat : <<q - d, r>> \notin U}
             d == Min(Bad)
  <2>1. Bad \subseteq Nat /\ Bad # {}
    <3>0. west <= q /\ q <= east /\ north <= r /\ r <= south
      BY <1>15, <1>20
    <3>1. q - (west - 1) \in Nat /\ q - (q - (west - 1)) = west - 1
      BY <1>6, <1>20, <3>0
    <3>2. <<west - 1, r>> \notin U
      <4>1. west - 1 \in Int /\ ~(west <= west - 1)
        BY <1>6
      <4> QED
        BY <1>15, <4>1
    <3>3. q - (west - 1) \in Bad
      BY <3>1, <3>2
    <3> QED
      BY <3>3
  <2> HIDE DEF Bad
  <2>2. d \in Bad /\ \A k \in Bad : d <= k
    BY <2>1, Smallest
  <2> HIDE DEF d
  <2>3. d \in Nat /\ <<q - d, r>> \notin U
    BY <2>2 DEF Bad
  <2>4. d # 0
    <3>1. q - 0 = q
      OBVIOUS
    <3> QED
      BY <1>20, <2>3, <3>1
  <2>5. d - 1 \in Nat /\ ~(d <= d - 1)
    BY <2>3, <2>4
  <2>6. <<q - (d - 1), r>> \in U
    BY <2>2, <2>5 DEF Bad
  <2>7. /\ q - (d - 1) \in Int /\ (q - (d - 1)) - 1 = q - d /\ q - d \in Int /\ left[r] \in Int
        /\ ~(left[r] - 1 <= q - d)
    <3>1. left[r] \in Int
      BY <1>13
    <3> QED
      BY <1>13, <1>20, <2>3, <2>5, <3>1
  <2> QED
    BY <1>15, <1>16, <1>20, <2>3, <2>6, <2>7
<1>21. U = {}
  <2> SUFFICES ASSUME NEW c \in U PROVE FALSE
    OBVIOUS
  <2>1. c \in Hexes /\ c \notin cells
    BY <1>10
  <2>2. c = <<c[1], c[2]>> /\ c[1] \in Int /\ c[2] \in Int
    BY <1>3, <2>1
  <2>3. c \notin core
    BY <2>1 DEF Whole
  <2>4. left[c[2]] \in Int
    BY <1>13, <2>2
  <2>5. \/ high < c[2] \/ c[2] < low
        \/ low <= c[2] /\ c[2] <= high /\ left[c[2]] + n <= c[1]
        \/ low <= c[2] /\ c[2] <= high /\ c[1] < left[c[2]]
    BY <1>13, <2>1, <2>2, <2>3, <2>4
  <2>6. <<c[1], c[2]>> \in U
    BY <2>2
  <2> QED
    BY <1>17, <1>18, <1>19, <1>20, <2>2, <2>5, <2>6
<1> QED
  BY <1>1, <1>21, FS_EmptySet

-----------------------------------------------------------------------------
\* A body begins as its core, grows by what touches the core, and is moved.
LEMMA CoreWhole ==
  ASSUME NEW size \in Sizes
  PROVE  Whole(make_core(size), make_core(size))
BY CoreRows, RowsLinked DEF Whole

LEMMA WholeGrows ==
  ASSUME NEW core, NEW cells, Whole(core, cells), NEW c \in around(core) \ cells
  PROVE  Whole(core, cells \union {c}) /\ cells \union {c} \subseteq Hexes
<1>1. cells \subseteq Hexes
  BY WholeTyped
<1>2. c \in around(cells)
  <2>1. PICK d \in core : c \in soft_tile_neighbors(d)
    BY Around
  <2>2. d \in cells
    BY DEF Whole
  <2> QED
    BY <2>1, <2>2, Around
<1>3. Linked(cells \union {c})
  BY <1>1, <1>2, TileJoins DEF Whole
<1>4. IsFiniteSet(cells \union {c})
  BY FS_AddElement DEF Whole
<1>5. Whole(core, cells \union {c})
  BY <1>3, <1>4 DEF Whole
<1> QED
  BY <1>5, WholeTyped

LEMMA WholeThere ==
  ASSUME NEW core, NEW cells, Whole(core, cells), NEW t \in Hexes
  PROVE  Whole(soft_tile_translate(core, t), soft_tile_translate(cells, t))
<1> DEFINE rows == soft_tile_translate(core, t)
           there == soft_tile_translate(cells, t)
<1>1. core \subseteq Hexes /\ cells \subseteq Hexes
  BY WholeTyped
<1>2. rows = {Shifted(c, t) : c \in core} /\ there = {Shifted(c, t) : c \in cells}
  BY <1>1, Translated
<1>3. Slab(rows) /\ IsFiniteSet(there) /\ rows # {} /\ Linked(there)
  BY <1>1, RowsThere, Translated, LinkedThere DEF Whole
<1> HIDE DEF rows, there
<1>4. rows \subseteq there
  BY <1>2 DEF Whole
<1>5. ASSUME NEW c \in cells PROVE Shifted(c, t) \in rows \union around(rows)
  <2>1. CASE c \in core
    BY <1>2, <2>1
  <2>2. CASE c \notin core
    <3>1. PICK d \in core : c \in soft_tile_neighbors(d)
      BY <2>2, Around DEF Whole
    <3>2. Shifted(c, t) \in soft_tile_neighbors(Shifted(d, t))
      BY <1>1, <3>1, Movement
    <3>3. Shifted(d, t) \in rows
      BY <1>2
    <3> QED
      BY <3>2, <3>3, Around
  <2> QED
    BY <2>1, <2>2
<1>6. there \subseteq rows \union around(rows)
  BY <1>2, <1>5
<1> QED
  BY <1>3, <1>4, <1>6 DEF Whole, rows, there

LEMMA Projected ==
  ASSUME NEW core, core \subseteq Hexes, core # {}, IsFiniteSet(core)
  PROVE  orderProjection(core) \in Int
<1> DEFINE xs == {center_x(c) : c \in core}
           ys == {center_y(c) : c \in core}
<1>1. xs \subseteq Int /\ ys \subseteq Int /\ xs # {} /\ ys # {}
  BY DEF Hexes, center_x, center_y
<1>2. IsFiniteSet(xs) /\ IsFiniteSet(ys)
  <2> DEFINE f == [c \in core |-> center_x(c)]
             g == [c \in core |-> center_y(c)]
  <2>1. f \in [core -> xs] /\ (\A q \in xs : \E c \in core : f[c] = q)
        /\ g \in [core -> ys] /\ (\A r \in ys : \E c \in core : g[c] = r)
    OBVIOUS
  <2>2. f \in Surjection(core, xs) /\ g \in Surjection(core, ys)
    BY <2>1 DEF Surjection
  <2> HIDE DEF f, g, xs, ys
  <2> QED
    BY <2>2, FS_Surjection
<1> HIDE DEF xs, ys
<1>3. Min(xs) \in Int /\ Max(xs) \in Int /\ Min(ys) \in Int /\ Max(ys) \in Int
  BY <1>1, <1>2, Lowest
<1>4. soft_tile_bounds(core) = [left |-> Min(xs) - 1, right |-> Max(xs) + 1, top |-> Min(ys) - 2, bottom |-> Max(ys) + 2]
  BY DEF soft_tile_bounds, xs, ys
<1> QED
  BY <1>3, <1>4 DEF orderProjection

-----------------------------------------------------------------------------
LaidTile == [cells : SUBSET Hexes, core : SUBSET Hexes, contacts : SUBSET Nat, walls : SUBSET {"left", "top"},
         newlyEnclosed : {Cardinality(s) : s \in SUBSET Hexes}]
Colonies == [menu : Menus, tiles : Seq(LaidTile), cells : SUBSET Hexes, failed : BOOLEAN]

TilesApart(tiles) == \A i, j \in 1..Len(tiles) : i # j => tiles[i].cells \intersect tiles[j].cells = {}
Hollows(tiles, n) == soft_tile_cavity_cells(Occupied(SubSeq(tiles, 1, n)))
SoundTile(tiles, i) ==
  /\ Whole(tiles[i].core, tiles[i].cells)
  /\ tiles[i].newlyEnclosed = Cardinality(Hollows(tiles, i) \ Hollows(tiles, i - 1))
  /\ tiles[i].contacts \subseteq 1..i - 1
  /\ \A j \in 1..i - 1 : orderProjection(tiles[j].core) < orderProjection(tiles[i].core)
Growing(k) == k.cells # {} => Len(k.tiles) < Len(k.menu) /\ Whole(core_of(k), k.cells)
ColonyInv ==
  /\ colony \in Colonies /\ TilesApart(colony.tiles)
  /\ \A i \in 1..Len(colony.tiles) : SoundTile(colony.tiles, i)
  /\ Growing(colony)

LEMMA FirstTiles ==
  ASSUME NEW S, NEW s \in Seq(S), NEW e \in S
  PROVE  /\ \A n \in 0..Len(s) : SubSeq(Append(s, e), 1, n) = SubSeq(s, 1, n)
         /\ SubSeq(Append(s, e), 1, Len(s) + 1) = Append(s, e) /\ SubSeq(s, 1, Len(s)) = s
<1>1. /\ Append(s, e) \in Seq(S) /\ Len(Append(s, e)) = Len(s) + 1 /\ Len(s) \in Nat
      /\ \A i \in 1..Len(s) : Append(s, e)[i] = s[i]
  BY AppendProperties
<1>2. \A n \in 0..Len(s) : SubSeq(Append(s, e), 1, n) = SubSeq(s, 1, n)
  BY <1>1
<1>3. SubSeq(Append(s, e), 1, Len(s) + 1) = Append(s, e) /\ SubSeq(s, 1, Len(s)) = s
  BY <1>1
<1> QED
  BY <1>2, <1>3

\* The hexagons that are occupied, and by whom, when no two tiles share one.
LEMMA Occupants ==
  ASSUME NEW tiles \in Seq(LaidTile), TilesApart(tiles)
  PROVE  /\ \A c : c \in DOMAIN Occupied(tiles) <=> \E i \in 1..Len(tiles) : c \in tiles[i].cells
         /\ \A i \in 1..Len(tiles) : \A c \in tiles[i].cells : Occupied(tiles)[c] = i
<1> DEFINE all == UNION {tiles[i].cells : i \in DOMAIN tiles}
<1>1. DOMAIN tiles = 1..Len(tiles)
  OBVIOUS
<1>2. Occupied(tiles) = [c \in all |-> CHOOSE i \in DOMAIN tiles : c \in tiles[i].cells]
  BY DEF Occupied
<1>3. \A c : c \in all <=> \E i \in 1..Len(tiles) : c \in tiles[i].cells
  BY <1>1
<1> HIDE DEF all
<1>4. DOMAIN Occupied(tiles) = all
  BY <1>2
<1>5. ASSUME NEW i \in 1..Len(tiles), NEW c \in tiles[i].cells PROVE Occupied(tiles)[c] = i
  <2>1. Occupied(tiles)[c] = CHOOSE j \in 1..Len(tiles) : c \in tiles[j].cells
    BY <1>1, <1>2, <1>3
  <2>2. \A j \in 1..Len(tiles) : c \in tiles[j].cells => j = i
    BY DEF TilesApart
  <2> QED
    BY <2>1, <2>2
<1> QED
  BY <1>3, <1>4, <1>5

\* Looking only beside a new tile finds the hollows it makes, all of them.
LEMMA Enclosing ==
  ASSUME NEW tiles \in Seq(LaidTile), TilesApart(tiles), NEW tile \in LaidTile, TilesApart(Append(tiles, tile))
  PROVE  LET occupied == Occupied(tiles)
             prior == soft_tile_cavity_cells(occupied)
         IN newly_enclosed_empty_cells(tile.cells, occupied, prior, Len(tiles) + 1)
            = Cardinality(soft_tile_cavity_cells(Occupied(Append(tiles, tile))) \ prior)
<1> DEFINE occupied == Occupied(tiles)
           prior == soft_tile_cavity_cells(occupied)
           next == Append(tiles, tile)
           cells == tile.cells
           index == Len(tiles) + 1
           together == [c \in cells \union DOMAIN occupied |-> IF c \in cells THEN index ELSE occupied[c]]
           found == {c \in around(cells) \ DOMAIN occupied : c \notin prior /\ crowded(c, together)}
           after == soft_tile_cavity_cells(Occupied(next))
<1>1. newly_enclosed_empty_cells(cells, occupied, prior, index) = Cardinality(found)
  BY DEF newly_enclosed_empty_cells
<1>2. /\ next \in Seq(LaidTile) /\ Len(next) = index /\ Len(tiles) \in Nat /\ next[index] = tile
      /\ \A i \in 1..Len(tiles) : next[i] = tiles[i]
  BY AppendProperties
<1>3. /\ \A c : c \in DOMAIN occupied <=> \E i \in 1..Len(tiles) : c \in tiles[i].cells
      /\ \A i \in 1..Len(tiles) : \A c \in tiles[i].cells : occupied[c] = i
  BY Occupants
<1>4. /\ \A c : c \in DOMAIN Occupied(next) <=> \E i \in 1..index : c \in next[i].cells
      /\ \A i \in 1..index : \A c \in next[i].cells : Occupied(next)[c] = i
  BY <1>2, Occupants
<1> HIDE DEF occupied, next
<1>5. together = Occupied(next)
  <2>1. DOMAIN Occupied(next) = cells \union DOMAIN occupied
    <3>1. ASSUME NEW c PROVE c \in DOMAIN Occupied(next) <=> c \in cells \/ c \in DOMAIN occupied
      <4>1. index \in 1..index /\ \A i \in 1..index : i = index \/ i \in 1..Len(tiles)
        BY <1>2
      <4>2. \A i \in 1..Len(tiles) : i \in 1..index
        BY <1>2
      <4> HIDE DEF index
      <4> QED
        BY <1>2, <1>3, <1>4, <4>1, <4>2
    <3> QED
      BY <3>1
  <2>2. ASSUME NEW c \in cells \union DOMAIN occupied PROVE together[c] = Occupied(next)[c]
    <3>1. CASE c \in cells
      <4>1. index \in 1..index
        BY <1>2
      <4> QED
        BY <1>2, <1>4, <3>1, <4>1
    <3>2. CASE c \notin cells
      <4>1. PICK i \in 1..Len(tiles) : c \in tiles[i].cells
        BY <1>3, <3>2
      <4>2. i \in 1..index /\ c \in next[i].cells
        BY <1>2, <4>1
      <4> QED
        BY <1>3, <1>4, <3>2, <4>1, <4>2
    <3> QED
      BY <3>1, <3>2
  <2>3. Occupied(next) = [c \in DOMAIN Occupied(next) |-> Occupied(next)[c]]
    BY DEF Occupied
  <2> QED
    BY <2>1, <2>2, <2>3
<1>6. DOMAIN together = cells \union DOMAIN occupied
  OBVIOUS
<1>7. \A c : c \in after <=> c \in around(DOMAIN together) /\ crowded(c, together)
  BY <1>5 DEF soft_tile_cavity_cells
<1>8. \A c : c \in prior <=> c \in around(DOMAIN occupied) /\ crowded(c, occupied)
  BY DEF soft_tile_cavity_cells
<1>9. \A c \in DOMAIN occupied \ cells : together[c] = occupied[c]
  OBVIOUS
<1> HIDE DEF together, after, prior
<1>10. DOMAIN occupied \subseteq Hexes /\ cells \subseteq Hexes
  <2>1. \A i \in 1..Len(tiles) : tiles[i] \in LaidTile
    OBVIOUS
  <2> QED
    BY <1>3, <2>1 DEF LaidTile
<1>11. ASSUME NEW c \in around(DOMAIN together), c \notin around(cells), crowded(c, together)
       PROVE  c \in around(DOMAIN occupied) /\ crowded(c, occupied)
  <2>1. c \notin cells /\ c \notin DOMAIN occupied /\ \E d \in DOMAIN together : c \in soft_tile_neighbors(d)
    BY <1>6, <1>11, Around
  <2>2. \A d \in cells : c \notin soft_tile_neighbors(d)
    BY <1>11, <2>1, Around
  <2>3. c \in around(DOMAIN occupied)
    BY <1>6, <2>1, <2>2, Around
  <2>4. c \in Hexes
    BY <1>10, <2>3, Around, Neighbors
  <2>5. \A d \in soft_tile_neighbors(c) : d \notin cells
    BY <1>10, <2>2, <2>4, Neighbors
  <2> DEFINE near == soft_tile_neighbors(c) \intersect DOMAIN together
  <2>6. near = soft_tile_neighbors(c) \intersect DOMAIN occupied
    BY <1>6, <2>5
  <2>7. \A d \in near : together[d] = occupied[d]
    BY <1>9, <2>5, <2>6
  <2>8. {together[d] : d \in near} = {occupied[d] : d \in near}
    <3> HIDE DEF near
    <3> QED
      BY <2>7
  <2>9. crowded(c, together) <=> Cardinality({together[d] : d \in near}) >= 2 \/ Cardinality(near) >= 3
    BY DEF crowded
  <2>10. crowded(c, occupied) <=> Cardinality({occupied[d] : d \in near}) >= 2 \/ Cardinality(near) >= 3
    BY <2>6 DEF crowded
  <2> HIDE DEF near
  <2> QED
    BY <1>11, <2>3, <2>8, <2>9, <2>10
<1>12. found = after \ prior
  <2>1. ASSUME NEW c \in found PROVE c \in after \ prior
    <3>1. c \in around(cells) /\ c \notin DOMAIN occupied /\ c \notin prior /\ crowded(c, together)
      OBVIOUS
    <3>2. c \in around(DOMAIN together)
      BY <1>6, <3>1, Around
    <3> QED
      BY <1>7, <3>1, <3>2
  <2>2. ASSUME NEW c \in after \ prior PROVE c \in found
    <3>1. c \in around(DOMAIN together) /\ crowded(c, together) /\ c \notin prior
      BY <1>7
    <3>2. c \in around(cells)
      BY <1>8, <1>11, <3>1
    <3>3. c \notin DOMAIN occupied
      BY <1>6, <3>1, Around
    <3> QED
      BY <3>1, <3>2, <3>3
  <2> QED
    BY <2>1, <2>2
<1> QED
  BY <1>1, <1>12 DEF after, prior, occupied, next

\* What the search may place keeps all that was laid out.
LEMMA Placing ==
  ASSUME NEW tiles \in Seq(LaidTile), TilesApart(tiles), \A i \in 1..Len(tiles) : SoundTile(tiles, i),
         NEW core, NEW cells, Whole(core, cells),
         NEW tile \in enumerate_soft_tile_candidates(tiles, core, cells)
  PROVE  LET next == Append(tiles, tile)
         IN next \in Seq(LaidTile) /\ TilesApart(next) /\ \A i \in 1..Len(next) : SoundTile(next, i)
<1> DEFINE occupied == Occupied(tiles)
           prior == soft_tile_cavity_cells(occupied)
           next == Append(tiles, tile)
           index == Len(tiles) + 1
<1>1. PICK t \in Hexes : tile = placed(tiles, core, cells, t)
  <2>1. (-FieldBottom..FieldRight) \X (0..FieldBottom) \subseteq Hexes
    BY ColonyAssumption DEF Hexes
  <2> QED
    BY <2>1 DEF enumerate_soft_tile_candidates
<1>2. /\ \A i \in DOMAIN tiles : tiles[i].cells \intersect tile.cells = {}
      /\ tiles # <<>> => orderProjection(tile.core) - orderProjection(Last(tiles).core) >= minOrderStep
  BY DEF enumerate_soft_tile_candidates
<1>3. /\ tile.cells = soft_tile_translate(cells, t) /\ tile.core = soft_tile_translate(core, t)
      /\ tile.contacts = contactedTiles(tiles, tile.cells) /\ tile.walls = walls(tile.cells)
      /\ tile.newlyEnclosed = newly_enclosed_empty_cells(tile.cells, occupied, prior, index)
      /\ DOMAIN tile = {"cells", "core", "contacts", "walls", "newlyEnclosed"}
      /\ tile = [cells |-> tile.cells, core |-> tile.core, contacts |-> tile.contacts, walls |-> tile.walls,
                 newlyEnclosed |-> tile.newlyEnclosed]
  BY <1>1 DEF placed
<1>4. Whole(tile.core, tile.cells)
  BY <1>1, <1>3, WholeThere
<1>5. tile.core \subseteq Hexes /\ tile.cells \subseteq Hexes /\ tile.core # {} /\ IsFiniteSet(tile.core)
  BY <1>4, WholeTyped DEF Whole
<1>6. Len(tiles) \in Nat /\ DOMAIN tiles = 1..Len(tiles)
  OBVIOUS
<1>7. tile.contacts \subseteq 1..Len(tiles) /\ tile.contacts \in SUBSET Nat
  BY <1>3, <1>6 DEF contactedTiles
<1>8. tile.walls \in SUBSET {"left", "top"}
  BY <1>3 DEF walls
<1>9. tile.newlyEnclosed \in {Cardinality(s) : s \in SUBSET Hexes}
  <2> DEFINE together == [c \in tile.cells \union DOMAIN occupied |-> IF c \in tile.cells THEN index ELSE occupied[c]]
             found == {c \in around(tile.cells) \ DOMAIN occupied : c \notin prior /\ crowded(c, together)}
  <2>1. tile.newlyEnclosed = Cardinality(found)
    BY <1>3 DEF newly_enclosed_empty_cells
  <2>2. around(tile.cells) \subseteq Hexes
    BY <1>5, Neighbors, Around
  <2>3. found \in SUBSET Hexes
    BY <2>2
  <2> HIDE DEF found
  <2> QED
    BY <2>1, <2>3
<1>10. tile \in LaidTile
  BY <1>3, <1>5, <1>7, <1>8, <1>9 DEF LaidTile
<1>11. /\ next \in Seq(LaidTile) /\ Len(next) = index /\ next[index] = tile
       /\ \A i \in 1..Len(tiles) : next[i] = tiles[i]
  BY <1>10, AppendProperties
<1>12. /\ \A n \in 0..Len(tiles) : SubSeq(next, 1, n) = SubSeq(tiles, 1, n)
       /\ SubSeq(next, 1, index) = next /\ SubSeq(tiles, 1, Len(tiles)) = tiles
  <2> HIDE DEF LaidTile
  <2>1. tiles \in Seq(LaidTile) /\ tile \in LaidTile
    BY <1>10
  <2> QED
    BY <2>1, FirstTiles
<1> HIDE DEF next
<1>13. \A i \in 1..index : i = index \/ i \in 1..Len(tiles)
  BY <1>6
<1>14. TilesApart(next)
  BY <1>2, <1>6, <1>11, <1>13 DEF TilesApart
<1>15. tile.newlyEnclosed = Cardinality(Hollows(next, index) \ Hollows(next, index - 1))
  <2>1. index - 1 = Len(tiles) /\ Len(tiles) \in 0..Len(tiles)
    BY <1>6
  <2>2. Hollows(next, index) = soft_tile_cavity_cells(Occupied(next)) /\ Hollows(next, index - 1) = prior
    BY <1>12, <2>1 DEF Hollows
  <2>3. TilesApart(Append(tiles, tile))
    BY <1>14 DEF next
  <2>4. tile.newlyEnclosed = Cardinality(soft_tile_cavity_cells(Occupied(next)) \ prior)
    BY <1>3, <1>10, <2>3, Enclosing DEF next
  <2> QED
    BY <2>2, <2>4
<1>16. ASSUME NEW j \in 1..Len(tiles) PROVE orderProjection(tiles[j].core) < orderProjection(tile.core)
  <2> DEFINE n == Len(tiles)
  <2>1. tiles # <<>> /\ n \in 1..Len(tiles) /\ Last(tiles) = tiles[n] /\ Len(tiles) > 0
    BY <1>6 DEF Last
  <2>2. ASSUME NEW i \in 1..Len(tiles) PROVE orderProjection(tiles[i].core) \in Int
    <3>1. Whole(tiles[i].core, tiles[i].cells)
      BY DEF SoundTile
    <3>2. tiles[i].core \subseteq Hexes /\ tiles[i].core # {} /\ IsFiniteSet(tiles[i].core)
      BY <3>1, WholeTyped DEF Whole
    <3> QED
      BY <3>2, Projected
  <2>3. orderProjection(tile.core) \in Int
    BY <1>5, Projected
  <2>4. orderProjection(tiles[n].core) < orderProjection(tile.core)
    BY <1>2, <2>1, <2>2, <2>3 DEF minOrderStep
  <2>5. CASE j = n
    BY <2>4, <2>5
  <2>6. CASE j # n
    <3>1. j \in 1..n - 1
      <4>1. n \in Nat /\ j \in 1..n
        BY <1>6
      <4> HIDE DEF n
      <4> QED
        BY <2>6, <4>1
    <3>2. orderProjection(tiles[j].core) < orderProjection(tiles[n].core)
      BY <2>1, <3>1 DEF SoundTile
    <3>3. orderProjection(tiles[j].core) \in Int /\ orderProjection(tiles[n].core) \in Int
      BY <2>1, <2>2
    <3> QED
      BY <2>3, <2>4, <3>2, <3>3
  <2> QED
    BY <2>5, <2>6
<1>17. SoundTile(next, index)
  <2>1. index - 1 = Len(tiles)
    BY <1>6
  <2>2. tile.contacts \subseteq 1..index - 1
    BY <1>7, <2>1
  <2>3. \A j \in 1..index - 1 : orderProjection(next[j].core) < orderProjection(next[index].core)
    BY <1>11, <1>16, <2>1
  <2> QED
    BY <1>4, <1>11, <1>15, <2>2, <2>3 DEF SoundTile
<1>18. ASSUME NEW i \in 1..Len(tiles) PROVE SoundTile(next, i)
  <2>1. i \in 0..Len(tiles) /\ i - 1 \in 0..Len(tiles) /\ \A j \in 1..i - 1 : j \in 1..Len(tiles)
    BY <1>6
  <2>2. Hollows(next, i) = Hollows(tiles, i) /\ Hollows(next, i - 1) = Hollows(tiles, i - 1)
    BY <1>12, <2>1 DEF Hollows
  <2>3. next[i] = tiles[i] /\ \A j \in 1..i - 1 : next[j] = tiles[j]
    BY <1>11, <2>1
  <2>4. SoundTile(tiles, i)
    OBVIOUS
  <2> QED
    BY <2>2, <2>3, <2>4 DEF SoundTile
<1>19. \A i \in 1..Len(next) : SoundTile(next, i)
  BY <1>11, <1>13, <1>17, <1>18
<1> QED
  BY <1>11, <1>14, <1>19 DEF next

\* The next body to grow, if any is left.
LEMMA NextBody ==
  ASSUME NEW k, k.menu \in Menus, k.tiles \in Seq(LaidTile), k.failed \in BOOLEAN,
         k = [menu |-> k.menu, tiles |-> k.tiles, cells |-> k.cells, failed |-> k.failed]
  PROVE  LET b == begun_body(k)
         IN b \in Colonies /\ b.tiles = k.tiles /\ Growing(b)
<1> DEFINE b == begun_body(k)
<1>1. CASE Len(k.tiles) < Len(k.menu)
  <2>1. b = [menu |-> k.menu, tiles |-> k.tiles, cells |-> core_of(k), failed |-> k.failed]
    BY <1>1 DEF begun_body
  <2>2. Len(k.tiles) + 1 \in 1..Len(k.menu) /\ k.menu \in Seq(Sizes)
    <3>1. k.menu \in Seq(Sizes)
      BY ColonyAssumption DEF Sizes
    <3>2. Len(k.tiles) \in Nat /\ Len(k.menu) \in Nat
      BY <3>1
    <3> QED
      BY <1>1, <3>1, <3>2
  <2>3. k.menu[Len(k.tiles) + 1] \in Sizes
    BY <2>2, ElementOfSeq
  <2>4. Whole(core_of(k), core_of(k)) /\ core_of(k) \subseteq Hexes
    BY <2>3, CoreWhole, CoreRows DEF core_of
  <2>5. core_of(b) = core_of(k)
    BY <2>1 DEF core_of
  <2>6. b \in Colonies
    BY <2>1, <2>4 DEF Colonies
  <2> QED
    BY <1>1, <2>1, <2>4, <2>5, <2>6 DEF Growing
<1>2. CASE ~(Len(k.tiles) < Len(k.menu))
  <2>1. b = [menu |-> k.menu, tiles |-> k.tiles, cells |-> {}, failed |-> k.failed]
    BY <1>2 DEF begun_body
  <2>2. b \in Colonies
    BY <2>1 DEF Colonies
  <2> QED
    BY <2>1, <2>2 DEF Growing
<1> QED
  BY <1>1, <1>2

LEMMA ColonyBegins == ColonyInit => ColonyInv
<1> SUFFICES ASSUME ColonyInit PROVE ColonyInv
  OBVIOUS
<1>1. PICK cores \in Menus : colony = begun_body([menu |-> cores, tiles |-> <<>>, cells |-> {}, failed |-> FALSE])
  BY DEF ColonyInit
<1> DEFINE k == [menu |-> cores, tiles |-> <<>>, cells |-> {}, failed |-> FALSE]
<1>2. /\ k.menu \in Menus /\ k.tiles \in Seq(LaidTile) /\ k.failed \in BOOLEAN /\ k.tiles = <<>>
      /\ k = [menu |-> k.menu, tiles |-> k.tiles, cells |-> k.cells, failed |-> k.failed]
  OBVIOUS
<1> HIDE DEF k
<1>3. colony \in Colonies /\ colony.tiles = <<>> /\ Growing(colony)
  BY <1>1, <1>2, NextBody DEF k
<1>4. 1..Len(<<>>) = {}
  OBVIOUS
<1> QED
  BY <1>3, <1>4 DEF ColonyInv, TilesApart

LEMMA ColonyStep == ColonyInv /\ [ColonyNext]_colony => ColonyInv'
<1> SUFFICES ASSUME ColonyInv, [ColonyNext]_colony PROVE ColonyInv'
  OBVIOUS
<1>1. /\ colony.menu \in Menus /\ colony.tiles \in Seq(LaidTile) /\ colony.cells \in SUBSET Hexes
      /\ colony.failed \in BOOLEAN
      /\ colony = [menu |-> colony.menu, tiles |-> colony.tiles, cells |-> colony.cells, failed |-> colony.failed]
  BY DEF ColonyInv, Colonies
<1>2. CASE add_fringe
  <2>1. /\ colony.cells # {}
        /\ \E c \in viable(core_of(colony), colony.cells) : colony' = [colony EXCEPT !.cells = @ \union {c}]
    BY <1>2 DEF add_fringe
  <2>2. PICK c \in viable(core_of(colony), colony.cells) : colony' = [colony EXCEPT !.cells = @ \union {c}]
    BY <2>1
  <2>3. c \in around(core_of(colony)) \ colony.cells
    BY DEF viable
  <2>4. Len(colony.tiles) < Len(colony.menu) /\ Whole(core_of(colony), colony.cells)
    BY <2>1 DEF ColonyInv, Growing
  <2>5. Whole(core_of(colony), colony.cells \union {c}) /\ colony.cells \union {c} \subseteq Hexes
    BY <2>3, <2>4, WholeGrows
  <2>6. colony' = [menu |-> colony.menu, tiles |-> colony.tiles, cells |-> colony.cells \union {c}, failed |-> colony.failed]
    BY <1>1, <2>2
  <2>7. colony' \in Colonies
    BY <1>1, <2>5, <2>6 DEF Colonies
  <2>8. /\ colony'.tiles = colony.tiles /\ colony'.menu = colony.menu /\ colony'.cells = colony.cells \union {c}
        /\ core_of(colony') = core_of(colony)
    BY <2>6 DEF core_of
  <2>9. Growing(colony')
    BY <2>4, <2>5, <2>8 DEF Growing
  <2> QED
    BY <2>7, <2>8, <2>9 DEF ColonyInv
<1>3. CASE state_with_candidate
  <2> DEFINE candidates == enumerate_soft_tile_candidates(colony.tiles, core_of(colony), colony.cells)
  <2>1. /\ colony.cells # {}
        /\ \/ colony' = [colony EXCEPT !.failed = TRUE]
           \/ \E tile \in candidates : colony' = begun_body([colony EXCEPT !.tiles = Append(@, tile)])
    BY <1>3 DEF state_with_candidate
  <2>2. Len(colony.tiles) < Len(colony.menu) /\ Whole(core_of(colony), colony.cells)
    BY <2>1 DEF ColonyInv, Growing
  <2> HIDE DEF candidates
  <2>3. CASE colony' = [colony EXCEPT !.failed = TRUE]
    <3>1. colony' = [menu |-> colony.menu, tiles |-> colony.tiles, cells |-> colony.cells, failed |-> TRUE]
      BY <1>1, <2>3
    <3>2. colony' \in Colonies
      BY <1>1, <3>1 DEF Colonies
    <3>3. /\ colony'.tiles = colony.tiles /\ colony'.menu = colony.menu /\ colony'.cells = colony.cells
          /\ core_of(colony') = core_of(colony)
      BY <3>1 DEF core_of
    <3>4. Growing(colony')
      BY <2>2, <3>3 DEF Growing
    <3> QED
      BY <3>2, <3>3, <3>4 DEF ColonyInv
  <2>4. ASSUME NEW tile \in candidates, colony' = begun_body([colony EXCEPT !.tiles = Append(@, tile)])
        PROVE  ColonyInv'
    <3> DEFINE next == Append(colony.tiles, tile)
               k == [colony EXCEPT !.tiles = next]
    <3>1. next \in Seq(LaidTile) /\ TilesApart(next) /\ \A i \in 1..Len(next) : SoundTile(next, i)
      BY <1>1, <2>2, Placing DEF ColonyInv, candidates
    <3> HIDE DEF next
    <3>2. /\ k.menu \in Menus /\ k.tiles \in Seq(LaidTile) /\ k.failed \in BOOLEAN /\ k.tiles = next
          /\ k = [menu |-> k.menu, tiles |-> k.tiles, cells |-> k.cells, failed |-> k.failed]
      BY <1>1, <3>1
    <3>3. colony' = begun_body(k)
      BY <2>4 DEF next
    <3> HIDE DEF k
    <3>4. colony' \in Colonies /\ colony'.tiles = next /\ Growing(colony')
      BY <3>2, <3>3, NextBody
    <3> QED
      BY <3>1, <3>4 DEF ColonyInv
  <2> QED
    BY <2>1, <2>3, <2>4
<1>4. CASE UNCHANGED colony
  BY <1>4 DEF ColonyInv, Growing, core_of
<1> QED
  BY <1>2, <1>3, <1>4 DEF ColonyNext

LEMMA ColonySound == ColonyInv => MenuLaidOut
<1> SUFFICES ASSUME ColonyInv PROVE MenuLaidOut
  OBVIOUS
<1> DEFINE tiles == colony.tiles
           growing == IF colony.cells = {} THEN {} ELSE {[cells |-> colony.cells, core |-> core_of(colony)]}
           bodies == {[cells |-> tiles[i].cells, core |-> tiles[i].core] : i \in DOMAIN tiles} \union growing
<1>1. DOMAIN tiles = 1..Len(tiles) /\ \A i \in 1..Len(tiles) : SoundTile(tiles, i)
  BY DEF ColonyInv, Colonies
<1>2. ASSUME NEW core, NEW cells, Whole(core, cells)
      PROVE  core \subseteq cells /\ InOnePiece(cells) /\ soft_tile_empty_hole_count(cells) = 0
  BY <1>2, WholeTyped, OnePiece, Holeless DEF Whole
<1>3. ASSUME NEW body \in bodies PROVE Whole(body.core, body.cells)
  <2>1. CASE body \in growing
    BY <2>1 DEF ColonyInv, Growing
  <2>2. CASE body \notin growing
    <3>1. PICK i \in DOMAIN tiles : body = [cells |-> tiles[i].cells, core |-> tiles[i].core]
      BY <2>2
    <3> QED
      BY <1>1, <3>1 DEF SoundTile
  <2> QED
    BY <2>1, <2>2
<1>4. \A i, j \in DOMAIN tiles : i # j => tiles[i].cells \intersect tiles[j].cells = {}
  BY <1>1 DEF ColonyInv, TilesApart
<1>5. BodiesWhole
  <2>1. \A body \in bodies : body.core \subseteq body.cells /\ InOnePiece(body.cells) /\ soft_tile_empty_hole_count(body.cells) = 0
    BY <1>2, <1>3
  <2> QED
    BY <1>4, <2>1 DEF BodiesWhole
<1>6. PlacementsRecorded
  BY <1>1 DEF PlacementsRecorded, SoundTile, Hollows
<1> QED
  BY <1>5, <1>6 DEF MenuLaidOut
=============================================================================
