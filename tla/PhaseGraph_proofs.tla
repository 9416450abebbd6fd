------------------------- MODULE PhaseGraph_proofs --------------------------
(***************************************************************************)
(* What the operators of PhaseGraph return and keep, for every number of   *)
(* phases and every graph: of any phases, as a PRD that is edited gives    *)
(* (Intake), and of all of them, as a product that is worked on has.       *)
(***************************************************************************)
EXTENDS PhaseGraph, WellFoundedInduction, FiniteSetTheorems, TLAPS

Statuses == [Phase -> Status]
Graph == [Phase -> SUBSET Phase]

\* Graphs and statuses here have every phase.
LEMMA OnPhases == /\ \A g \in Graph : DOMAIN g = Phase
                  /\ \A s \in Statuses : DOMAIN s = Phase
BY DEF Graph, Statuses

-----------------------------------------------------------------------------
\* Refresh, of a graph with any phases

\* Refresh returns statuses of the same phases.
LEMMA PassType ==
  ASSUME NEW g, NEW D, NEW s \in [D -> Status]
  PROVE  Refresh(g, s) \in [D -> Status]
BY DEF Refresh, Derive, Status

\* It leaves a sticky status alone and makes no other status sticky.
LEMMA PassSticky ==
  ASSUME NEW g, NEW s, NEW p \in DOMAIN s
  PROVE  /\ s[p] \in Sticky => Refresh(g, s)[p] = s[p]
         /\ s[p] \notin Sticky => Refresh(g, s)[p] \in {"READY", "BLOCKED"}
BY DEF Refresh, Derive

\* So it changes neither what is COMPLETED nor what is RUNNING.
LEMMA PassKeeps ==
  ASSUME NEW g, NEW s, NEW p \in DOMAIN s
  PROVE  /\ Refresh(g, s)[p] = "COMPLETED" <=> s[p] = "COMPLETED"
         /\ Refresh(g, s)[p] = "RUNNING" <=> s[p] = "RUNNING"
BY PassSticky DEF Sticky

\* After it, a READY phase has all its dependencies COMPLETED.
LEMMA PassReady ==
  ASSUME NEW g, NEW s, NEW p \in DOMAIN s, g[p] \subseteq DOMAIN s,
         Refresh(g, s)[p] = "READY", NEW d \in g[p]
  PROVE  Refresh(g, s)[d] = "COMPLETED"
<1>1. s[p] \notin Sticky BY PassSticky DEF Sticky
<1>2. s[d] = "COMPLETED" BY <1>1 DEF Refresh, Derive
<1> QED BY <1>2, PassKeeps

-----------------------------------------------------------------------------
\* Refresh, of a graph with every phase

\* Refresh returns statuses.
LEMMA RefreshType ==
  ASSUME NEW g \in Graph, NEW s \in Statuses
  PROVE  Refresh(g, s) \in Statuses
BY PassType DEF Statuses

\* Refresh leaves a sticky status alone and makes no other status sticky.
LEMMA RefreshSticky ==
  ASSUME NEW g \in Graph, NEW s \in Statuses, NEW p \in Phase
  PROVE  /\ s[p] \in Sticky => Refresh(g, s)[p] = s[p]
         /\ s[p] \notin Sticky => Refresh(g, s)[p] \in {"READY", "BLOCKED"}
BY OnPhases DEF Refresh, Derive

\* So it changes neither what is COMPLETED nor what is RUNNING.
LEMMA RefreshKeeps ==
  ASSUME NEW g \in Graph, NEW s \in Statuses, NEW p \in Phase
  PROVE  /\ Refresh(g, s)[p] \in Sticky <=> s[p] \in Sticky
         /\ Refresh(g, s)[p] = "COMPLETED" <=> s[p] = "COMPLETED"
         /\ Refresh(g, s)[p] = "RUNNING" <=> s[p] = "RUNNING"
BY RefreshSticky DEF Sticky

\* A second pass changes nothing.
LEMMA RefreshTwice ==
  ASSUME NEW g \in Graph, NEW s \in Statuses
  PROVE  Refresh(g, Refresh(g, s)) = Refresh(g, s)
<1> DEFINE t == Refresh(g, s)
<1>1. t \in Statuses BY RefreshType
<1>2. \A p \in Phase : Derive(g, t, p) = Derive(g, s, p)
  <2> SUFFICES ASSUME NEW p \in Phase PROVE Derive(g, t, p) = Derive(g, s, p) OBVIOUS
  <2>1. \A d \in g[p] : t[d] = "COMPLETED" <=> s[d] = "COMPLETED"
    BY RefreshKeeps DEF Graph
  <2> QED BY <2>1 DEF Derive
<1>3. \A p \in Phase : s[p] \in Sticky => t[p] = s[p] BY RefreshSticky
<1>4. \A p \in Phase : s[p] \notin Sticky => t[p] = Derive(g, s, p) BY OnPhases DEF Refresh
<1> HIDE DEF t
<1>5. Refresh(g, t) \in Statuses BY <1>1, RefreshType
<1>6. \A p \in Phase : Refresh(g, t)[p] = t[p]
  BY <1>1, <1>2, <1>3, <1>4, OnPhases DEF Refresh
<1> QED BY <1>1, <1>5, <1>6 DEF Statuses, t

\* After Refresh, a READY phase has all its dependencies COMPLETED.
LEMMA RefreshReady ==
  ASSUME NEW g \in Graph, NEW s \in Statuses, NEW p \in Phase,
         Refresh(g, s)[p] = "READY", NEW d \in g[p]
  PROVE  Refresh(g, s)[d] = "COMPLETED"
<1>1. s[p] \notin Sticky BY RefreshSticky DEF Sticky
<1>2. s[d] = "COMPLETED" BY <1>1, OnPhases DEF Refresh, Derive
<1>3. d \in Phase BY DEF Graph
<1> QED BY <1>2, <1>3, RefreshKeeps

\* The parts of the inductive invariant, of any statuses s.
Ordered(g, s) ==
  \A p \in Phase : s[p] \in Sticky => \A d \in g[p] : s[d] = "COMPLETED"

ReadyInOrder(g, s) ==
  \A p \in Phase : s[p] = "READY" => \A d \in g[p] : s[d] = "COMPLETED"

\* The invariants carry over from the statuses before a pass to those after.
LEMMA RefreshOrdered ==
  ASSUME NEW g \in Graph, NEW s \in Statuses, Ordered(g, s)
  PROVE  Ordered(g, Refresh(g, s)) /\ ReadyInOrder(g, Refresh(g, s))
<1>1. ReadyInOrder(g, Refresh(g, s)) BY RefreshReady DEF ReadyInOrder
<1>2. ASSUME NEW p \in Phase, Refresh(g, s)[p] \in Sticky, NEW d \in g[p]
      PROVE  Refresh(g, s)[d] = "COMPLETED"
  <2>1. s[p] \in Sticky BY <1>2, RefreshKeeps
  <2>2. s[d] = "COMPLETED" BY <2>1, <1>2 DEF Ordered
  <2>3. d \in Phase BY DEF Graph
  <2> QED BY <2>2, <2>3, RefreshKeeps
<1> QED BY <1>1, <1>2 DEF Ordered

-----------------------------------------------------------------------------
\* Choosing a phase

\* First returns an element of every set of phases that has one.  (A minimum
\* exists because the initial segments 1..p are well-founded under inclusion.)
LEMMA FirstIsElement ==
  ASSUME NEW S \in SUBSET Phase, S # {}
  PROVE  First(S) \in S
<1> DEFINE R == StrictSubsetOrdering(Phase)
           Below == {1..p : p \in S}
<1>1. S \subseteq Nat /\ IsFiniteSet(Phase)
  BY PhaseAssumption, FS_Interval DEF Phase
<1>2. IsWellFoundedOn(R, FiniteSubsetsOf(Phase))
  BY FS_StrictSubsetOrderingWellFounded
<1>3. ASSUME NEW p \in S PROVE 1..p \in FiniteSubsetsOf(Phase)
  <2>1. IsFiniteSet(1..p) BY <1>1, FS_Interval
  <2>2. 1..p \subseteq Phase BY <1>1, PhaseAssumption DEF Phase
  <2> QED BY <2>1, <2>2 DEF FiniteSubsetsOf
<1>4. Below \subseteq FiniteSubsetsOf(Phase) /\ Below # {} BY <1>3
<1>5. PICK b \in Below : \A c \in Below : <<c, b>> \notin R
  <2> HIDE DEF R, Below
  <2> QED BY <1>2, <1>4, WFMin
<1>6. PICK p \in S : b = 1..p BY <1>5
<1>7. ASSUME NEW q \in S PROVE p <= q
  <2>1. <<1..q, 1..p>> \notin R BY <1>5, <1>6
  <2>2. 1..q \in SUBSET Phase /\ 1..p \in SUBSET Phase BY <1>3 DEF FiniteSubsetsOf
  <2>3. ~(1..q \subseteq 1..p) \/ 1..q = 1..p
    BY <2>1, <2>2 DEF StrictSubsetOrdering
  <2>4. q \in Nat /\ p \in Nat /\ p >= 1 BY <1>1 DEF Phase
  <2>5. CASE q < p
    <3>1. 1..q \subseteq 1..p BY <2>4, <2>5
    <3>2. p \in 1..p /\ p \notin 1..q BY <2>4, <2>5
    <3> QED BY <2>3, <3>1, <3>2
  <2> QED BY <2>4, <2>5
<1> QED BY <1>7 DEF First

\* selectRunnablePhase (graphutil.go) names no phase, or one of the graph that is
\* READY, or RUNNING already.
LEMMA SelectsRunnable ==
  ASSUME NEW D \in SUBSET Phase, NEW s \in [D -> Status], NEW requested, NEW current
  PROVE  LET choice == SelectRunnable(s, requested, current)
         IN  /\ choice.reason \in BOOLEAN
             /\ \/ choice.phase = NoPhase
                \/ choice.phase \in D /\ s[choice.phase] \in {"READY", "RUNNING"}
<1>1. \A x : Having(s, x) \in SUBSET D BY DEF Having
<1>2. FirstReady(s) = NoPhase \/ FirstReady(s) \in Having(s, "READY")
  <2>1. Having(s, "READY") \in SUBSET Phase BY <1>1
  <2>2. CASE Having(s, "READY") = {} BY <2>2 DEF FirstReady, First
  <2>3. CASE Having(s, "READY") # {} BY <2>1, <2>3, FirstIsElement DEF FirstReady
  <2> QED BY <2>2, <2>3
<1>3. FirstReady(s) = NoPhase \/ (FirstReady(s) \in D /\ s[FirstReady(s)] = "READY")
  BY <1>2 DEF Having
<1> QED BY <1>3 DEF SelectRunnable

-----------------------------------------------------------------------------
\* Replays

\* The descendants of a phase hold whatever depends on it or on one of them.
LEMMA DescendantsClosed ==
  ASSUME NEW g \in Graph, NEW p \in Phase, NEW q \in Replayed(g, p),
         NEW r \in Phase, q \in g[r]
  PROVE  r \in Descendants(g, p)
<1>1. r \in Dependents(g, q) BY OnPhases DEF Dependents
<1>2. ASSUME NEW S \in SUBSET Phase, \A t \in S \cup {p} : Dependents(g, t) \subseteq S
      PROVE  r \in S
  <2>1. q \in S \cup {p} BY <1>2, OnPhases DEF Replayed, Descendants
  <2> QED BY <2>1, <1>1, <1>2
<1> QED BY <1>2, OnPhases DEF Descendants

\* So a replay holds whatever depends on one of its members.
LEMMA ReplayedClosed ==
  ASSUME NEW g \in Graph, NEW p \in Phase, NEW q \in Replayed(g, p),
         NEW r \in Phase, q \in g[r]
  PROVE  r \in Replayed(g, p)
BY DescendantsClosed DEF Replayed

\* A phase has fewer descendants than what it depends on, unless there is a cycle.
LEMMA FewerDescendants ==
  ASSUME NEW g \in Graph, ~Cyclic(g), NEW p \in Phase, NEW q \in g[p]
  PROVE  Descendants(g, p) \subseteq Descendants(g, q) \ {p} /\ p \in Descendants(g, q)
<1>1. q \in Phase BY DEF Graph
<1>2. p \in Descendants(g, q) BY <1>1, DescendantsClosed DEF Replayed
<1>3. p \notin Descendants(g, p) BY OnPhases DEF Cyclic
<1>4. ASSUME NEW r \in Descendants(g, p) PROVE r \in Descendants(g, q)
  <2> DEFINE S == Descendants(g, q)
  <2>1. S \in SUBSET Phase BY OnPhases DEF Descendants
  <2>2. \A t \in S \cup {p} : Dependents(g, t) \subseteq S
    <3> SUFFICES ASSUME NEW t \in S, NEW u \in Dependents(g, t) PROVE u \in S BY <1>2
    <3>1. u \in Phase /\ t \in g[u] BY OnPhases DEF Dependents
    <3> QED BY <1>1, <3>1, DescendantsClosed DEF Replayed
  <2> HIDE DEF S
  <2>3. r \in S BY <1>4, <2>1, <2>2, OnPhases DEF Descendants
  <2> QED BY <2>3 DEF S
<1> QED BY <1>2, <1>3, <1>4

\* In a graph without a cycle, of any phases some one depends on none of the others:
\* one with as many descendants as can be.
LEMMA SourceExists ==
  ASSUME NEW g \in Graph, ~Cyclic(g), NEW U \in SUBSET Phase, U # {}
  PROVE  \E p \in U : g[p] \cap U = {}
<1> DEFINE R == StrictSubsetOrdering(Phase)
           rest(p) == Phase \ Descendants(g, p)
           Rests == {rest(p) : p \in U}
<1>1. IsFiniteSet(Phase) BY PhaseAssumption, FS_Interval DEF Phase
<1>2. IsWellFoundedOn(R, FiniteSubsetsOf(Phase))
  BY <1>1, FS_StrictSubsetOrderingWellFounded
<1>3. Rests \subseteq FiniteSubsetsOf(Phase) /\ Rests # {}
  <2>1. \A p \in U : rest(p) \subseteq Phase OBVIOUS
  <2>2. \A S \in SUBSET Phase : S \in FiniteSubsetsOf(Phase)
    BY <1>1, FS_Subset DEF FiniteSubsetsOf
  <2> QED BY <2>1, <2>2
<1>4. PICK b \in Rests : \A c \in Rests : <<c, b>> \notin R
  <2> HIDE DEF R, Rests
  <2> QED BY <1>2, <1>3, WFMin
<1>5. PICK p \in U : b = rest(p) BY <1>4
<1>6. ASSUME NEW q \in g[p] \cap U PROVE FALSE
  <2>1. Descendants(g, p) \subseteq Descendants(g, q) \ {p} /\ p \in Descendants(g, q)
    BY FewerDescendants
  <2>2. rest(q) \subseteq rest(p) /\ p \in rest(p) /\ p \notin rest(q) BY <2>1
  <2>3. <<rest(q), rest(p)>> \in R BY <2>2 DEF StrictSubsetOrdering
  <2> QED BY <1>4, <1>5, <2>3
<1> QED BY <1>6
=============================================================================
