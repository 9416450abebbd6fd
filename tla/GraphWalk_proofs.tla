-------------------------- MODULE GraphWalk_proofs --------------------------
(***************************************************************************)
(* Proofs about the persisted graph for every number of phases and every   *)
(* declared graph: TypeOK, StartedInOrder, ReasonsMatchFile and            *)
(* SomethingToDo.                                                          *)
(* OrdersRespectDependencies and RefreshIsOnePass stay with TLC: they say  *)
(* what a recursive definition computes.                                   *)
(***************************************************************************)
EXTENDS GraphWalk, PhaseGraph_proofs, TLAPS

\* prepare starts a phase of the graph that is READY, or takes up one in work,
\* whatever phase is requested and whatever phase state.json names.
LEMMA StartPicks ==
  ASSUME status \in Statuses, Start
  PROVE  \E p \in Phase : /\ status[p] \in {"READY", "RUNNING"}
                          /\ PersistGraph(SetStatus(deps, status, p, "RUNNING"))
<1>1. PICK requested \in Phase \cup {NoPhase}, current \in Phase \cup {NoPhase} :
        LET choice == SelectRunnable(status, requested, current)
        IN  /\ choice.phase # NoPhase
            /\ PersistGraph(SetStatus(deps, status, choice.phase, "RUNNING"))
  BY DEF Start
<1> DEFINE p == SelectRunnable(status, requested, current).phase
<1>2. p # NoPhase /\ PersistGraph(SetStatus(deps, status, p, "RUNNING")) BY <1>1
<1>3. p \in Phase /\ status[p] \in {"READY", "RUNNING"}
  <2>1. status \in [Phase -> Status] BY DEF Statuses
  <2> QED BY <2>1, <1>2, SelectsRunnable
<1> HIDE DEF p
<1> QED BY <1>2, <1>3

-----------------------------------------------------------------------------
\* The inductive invariant.  A status changes in one of two ways: one phase is
\* set (Marked), or the phases of a replay go back to PENDING (Rewound).

IInv ==
  /\ TypeOK
  /\ Ordered(deps, status)
  /\ ReadyInOrder(deps, status)

\* The reasons recorded for a phase are reasons of the type.
LEMMA ReasonsType ==
  ASSUME NEW g \in Graph, NEW s \in Statuses, NEW p \in Phase
  PROVE  BlockReasons(g, s, p) \subseteq [code : ReasonCodes, dep : Phase \cup {NoPhase}]
<1>1. \A x : ReasonCode(x) \in ReasonCodes BY DEF ReasonCode, ReasonCodes
<1>2. g[p] \subseteq Phase BY DEF Graph
<1>3. "GRAPH_INVALID" \in ReasonCodes BY DEF ReasonCodes
<1> QED BY <1>1, <1>2, <1>3 DEF BlockReasons

\* What persistGraph writes from statuses that are in order is in order.
LEMMA PersistKeeps ==
  ASSUME deps \in Graph, NEW s \in Statuses, PersistGraph(s), Ordered(deps, s)
  PROVE  IInv'
<1>1. deps' = deps /\ status' = Refresh(deps, s) BY DEF PersistGraph
<1>2. TypeOK'
  <2>1. deps' \in [Phase -> SUBSET Phase] BY <1>1 DEF Graph
  <2>2. status' \in [Phase -> Status] BY <1>1, RefreshType DEF Statuses
  <2>3. reasons' \in [Phase -> SUBSET [code : ReasonCodes, dep : Phase \cup {NoPhase}]]
    BY ReasonsType DEF PersistGraph
  <2> QED BY <2>1, <2>2, <2>3 DEF TypeOK
<1>3. Ordered(deps, status)' /\ ReadyInOrder(deps, status)'
  <2>1. Ordered(deps, Refresh(deps, s)) /\ ReadyInOrder(deps, Refresh(deps, s))
    BY RefreshOrdered
  <2> QED BY <2>1, <1>1 DEF Ordered, ReadyInOrder
<1> QED BY <1>2, <1>3 DEF IInv

\* Setting the status of a phase whose dependencies are COMPLETED keeps the
\* order, when the phase is not taken back from COMPLETED.
LEMMA MarkOrdered ==
  ASSUME NEW g \in Graph, NEW s \in Statuses, NEW p \in Phase, NEW x \in Status,
         Ordered(g, s), \A d \in g[p] : s[d] = "COMPLETED",
         s[p] = "COMPLETED" => x = "COMPLETED"
  PROVE  SetStatus(g, s, p, x) \in Statuses /\ Ordered(g, SetStatus(g, s, p, x))
<1> DEFINE t == [s EXCEPT ![p] = x]
<1>1. t \in Statuses BY DEF Statuses
<1>2. Ordered(g, t)
  <2> SUFFICES ASSUME NEW q \in Phase, t[q] \in Sticky, NEW d \in g[q]
               PROVE  t[d] = "COMPLETED"
    BY DEF Ordered
  <2>1. s[d] = "COMPLETED" BY DEF Ordered, Statuses
  <2> QED BY <2>1 DEF Graph, Statuses
<1>3. SetStatus(g, s, p, x) = Refresh(g, t) BY OnPhases DEF SetStatus
<1> QED BY <1>1, <1>2, <1>3, RefreshType, RefreshOrdered

\* A rewind of any phase keeps the order: it takes back whatever depends on
\* what it takes back.
LEMMA RewindOrdered ==
  ASSUME NEW g \in Graph, NEW s \in Statuses, NEW p \in Phase, Ordered(g, s)
  PROVE  LET after == ApplyRewind(g, s, Replayed(g, p))
         IN  after \in Statuses /\ Ordered(g, after)
<1> DEFINE t == [q \in Phase |-> IF q \in Replayed(g, p) THEN "PENDING" ELSE s[q]]
<1>1. t \in Statuses BY DEF Statuses, Status
<1>2. Ordered(g, t)
  <2> SUFFICES ASSUME NEW q \in Phase, t[q] \in Sticky, NEW d \in g[q]
               PROVE  t[d] = "COMPLETED"
    BY DEF Ordered
  <2>1. q \notin Replayed(g, p) /\ s[q] \in Sticky BY DEF Sticky
  <2>2. s[d] = "COMPLETED" BY <2>1 DEF Ordered
  <2>3. d \in Phase BY DEF Graph
  <2>4. d \notin Replayed(g, p) BY <2>1, ReplayedClosed
  <2> QED BY <2>2, <2>3, <2>4
<1>3. ApplyRewind(g, s, Replayed(g, p)) = Refresh(g, t) BY OnPhases DEF ApplyRewind
<1> HIDE DEF t
<1> QED BY <1>1, <1>2, <1>3, RefreshType, RefreshOrdered

\* The graph FromSpecs builds satisfies the invariant.
LEMMA IInvInit == Init => IInv
<1> SUFFICES ASSUME Init PROVE IInv OBVIOUS
<1> DEFINE pending == [p \in Phase |-> "PENDING"]
<1>1. deps \in Graph BY DEF Init, Graph
<1>2. pending \in Statuses BY DEF Statuses, Status
<1>3. status = Refresh(deps, pending) BY DEF Init
<1>4. Ordered(deps, pending) BY DEF Ordered, Sticky
<1> HIDE DEF pending
<1>5. status \in Statuses BY <1>1, <1>2, <1>3, RefreshType
<1>6. reasons = [p \in Phase |-> BlockReasons(deps, status, p)] BY <1>3 DEF Init, pending
<1>7. TypeOK BY <1>1, <1>5, <1>6, ReasonsType DEF TypeOK, Graph, Statuses
<1>8. Ordered(deps, status) /\ ReadyInOrder(deps, status)
  BY <1>1, <1>2, <1>3, <1>4, RefreshOrdered
<1> QED BY <1>7, <1>8 DEF IInv

\* Every step preserves it: one step of the proof per action.
LEMMA IInvStep == IInv /\ [Next]_vars => IInv'
<1> SUFFICES ASSUME IInv, [Next]_vars PROVE IInv' OBVIOUS
<1>1. deps \in Graph /\ status \in Statuses BY DEF IInv, TypeOK, Graph, Statuses
<1>2. Ordered(deps, status) /\ ReadyInOrder(deps, status) BY DEF IInv
<1>3. CASE Start
  <2>1. PICK p \in Phase : /\ status[p] \in {"READY", "RUNNING"}
                          /\ PersistGraph(SetStatus(deps, status, p, "RUNNING"))
    BY <1>1, <1>3, StartPicks
  <2>2. \A d \in deps[p] : status[d] = "COMPLETED"
    BY <1>2, <2>1 DEF Ordered, ReadyInOrder, Sticky
  <2>3. SetStatus(deps, status, p, "RUNNING") \in Statuses
        /\ Ordered(deps, SetStatus(deps, status, p, "RUNNING"))
    BY <1>1, <1>2, <2>1, <2>2, MarkOrdered DEF Status
  <2> QED BY <1>1, <2>1, <2>3, PersistKeeps
<1>4. ASSUME NEW p \in Phase, NEW x \in {"COMPLETED", "WAITING_FOR_HUMAN"},
             status[p] \in {"RUNNING", "WAITING_FOR_HUMAN"},
             PersistGraph(SetStatus(deps, status, p, x))
      PROVE  IInv'
  <2>1. \A d \in deps[p] : status[d] = "COMPLETED" BY <1>2, <1>4 DEF Ordered, Sticky
  <2>2. SetStatus(deps, status, p, x) \in Statuses
        /\ Ordered(deps, SetStatus(deps, status, p, x))
    BY <1>1, <1>2, <1>4, <2>1, MarkOrdered DEF Status
  <2> QED BY <1>1, <1>4, <2>2, PersistKeeps
<1>5. ASSUME NEW p \in Phase, Complete(p) PROVE IInv'
  BY <1>4, <1>5 DEF Complete
<1>6. ASSUME NEW p \in Phase, Stop(p) PROVE IInv'
  BY <1>4, <1>6 DEF Stop
<1>7. ASSUME NEW p \in Phase, Rewind(p) PROVE IInv'
  <2> DEFINE after == ApplyRewind(deps, status, Replayed(deps, p))
  <2>1. PersistGraph(after) BY <1>7 DEF Rewind
  <2>2. after \in Statuses /\ Ordered(deps, after)
    BY <1>1, <1>2, RewindOrdered
  <2> HIDE DEF after
  <2> QED BY <1>1, <2>1, <2>2, PersistKeeps
<1>8. CASE UNCHANGED vars
  BY <1>8, <1>2 DEF IInv, TypeOK, Ordered, ReadyInOrder, vars
<1> QED BY <1>3, <1>5, <1>6, <1>7, <1>8 DEF Next

\* The invariant holds throughout.
LEMMA Invariance == Spec => []IInv
BY IInvInit, IInvStep, PTL DEF Spec

-----------------------------------------------------------------------------
\* Theorems

\* graph.json holds statuses and reasons of the declared kinds.
THEOREM TypeCorrect == Spec => []TypeOK
<1>1. IInv => TypeOK BY DEF IInv
<1> QED BY <1>1, Invariance, PTL

\* However many phases there are and whatever their dependencies, a phase in
\* work, waiting or done has all its dependencies done, through any sequence of
\* starts, completions, stops and rewinds (query.go Refresh, SetStatus, Rewind).
THEOREM WorkIsInOrder == Spec => []StartedInOrder
<1>1. IInv => StartedInOrder BY DEF IInv, Ordered, StartedInOrder
<1> QED BY <1>1, Invariance, PTL

-----------------------------------------------------------------------------
\* The reasons

\* What the file holds has been through a pass, and its reasons are those a
\* further pass would find.
Settled ==
  /\ Refresh(deps, status) = status
  /\ \A p \in Phase : reasons[p] = BlockReasons(deps, status, p)

\* persistGraph is only called with statuses that have been through a pass.
LEMMA PersistSettles ==
  ASSUME NEW s \in Statuses, deps \in Graph, PersistGraph(Refresh(deps, s))
  PROVE  Settled'
<1>1. Refresh(deps, s) \in Statuses /\ Refresh(deps, Refresh(deps, s)) = Refresh(deps, s)
  BY RefreshType, RefreshTwice
<1>2. deps' = deps /\ status' = Refresh(deps, s) BY <1>1 DEF PersistGraph
<1>3. \A p \in Phase : reasons'[p] = BlockReasons(deps', status', p)
  BY <1>2 DEF PersistGraph
<1>4. Refresh(deps', status') = status' BY <1>1, <1>2
<1> QED BY <1>3, <1>4 DEF Settled

\* Every write of graph.json is such a call, or changes nothing.
LEMMA SettledStep == IInv /\ Settled /\ [Next]_vars => Settled'
<1> SUFFICES ASSUME IInv, Settled, [Next]_vars PROVE Settled' OBVIOUS
<1>1. deps \in Graph /\ status \in Statuses BY DEF IInv, TypeOK, Graph, Statuses
<1>2. ASSUME NEW p \in Phase, NEW x \in Status, PersistGraph(SetStatus(deps, status, p, x))
      PROVE  Settled'
  <2> DEFINE s == [status EXCEPT ![p] = x]
  <2>1. s \in Statuses BY <1>1 DEF Statuses
  <2>2. SetStatus(deps, status, p, x) = Refresh(deps, s) BY <1>1, OnPhases DEF SetStatus
  <2> HIDE DEF s
  <2> QED BY <1>1, <1>2, <2>1, <2>2, PersistSettles
<1>3. CASE Start
  <2>1. PICK p \in Phase : PersistGraph(SetStatus(deps, status, p, "RUNNING"))
    BY <1>1, <1>3, StartPicks
  <2> QED BY <1>2, <2>1 DEF Status
<1>4. ASSUME NEW p \in Phase, Complete(p) PROVE Settled'
  BY <1>2, <1>4 DEF Complete, Status
<1>5. ASSUME NEW p \in Phase, Stop(p) PROVE Settled'
  BY <1>2, <1>5 DEF Stop, Status
<1>6. ASSUME NEW p \in Phase, Rewind(p) PROVE Settled'
  <2> DEFINE s == [q \in Phase |-> IF q \in Replayed(deps, p) THEN "PENDING" ELSE status[q]]
  <2>1. s \in Statuses BY <1>1 DEF Statuses, Status
  <2>2. ApplyRewind(deps, status, Replayed(deps, p)) = Refresh(deps, s)
    BY <1>1, OnPhases DEF ApplyRewind
  <2> HIDE DEF s
  <2> QED BY <1>1, <1>6, <2>1, <2>2, PersistSettles DEF Rewind
<1>7. CASE UNCHANGED vars BY <1>7 DEF vars, Settled
<1> QED BY <1>3, <1>4, <1>5, <1>6, <1>7 DEF Next

\* The first graph.json has been through a pass too (graph.go FromSpecs).
LEMMA SettledInit == Init => Settled
<1> SUFFICES ASSUME Init PROVE Settled OBVIOUS
<1> DEFINE pending == [p \in Phase |-> "PENDING"]
<1>1. deps \in Graph BY DEF Init, Graph
<1>2. pending \in Statuses BY DEF Statuses, Status
<1>3. status = Refresh(deps, pending) BY DEF Init
<1>4. reasons = [p \in Phase |-> BlockReasons(deps, status, p)] BY <1>3 DEF Init, pending
<1> HIDE DEF pending
<1>5. Refresh(deps, status) = status BY <1>1, <1>2, <1>3, RefreshTwice
<1> QED BY <1>4, <1>5 DEF Settled

\* A blocked phase always has a reason in graph.json, and each names a dependency
\* of the phase that the file beside it does not have as COMPLETED, with the code of
\* its status there, although a pass records reasons while it is changing statuses
\* (query.go Refresh, BlockReasons; graphutil.go persistGraph).
THEOREM ReasonsAreRight == Spec => []ReasonsMatchFile
<1>1. IInv /\ Settled => ReasonsMatchFile
  <2> SUFFICES ASSUME IInv, Settled, NEW p \in Phase
               PROVE  IF status[p] = "BLOCKED" /\ ~Cyclic(deps)
                      THEN /\ reasons[p] # {}
                           /\ \A r \in reasons[p] :
                                /\ r.dep \in deps[p]
                                /\ status[r.dep] # "COMPLETED"
                                /\ r.code = ReasonCode(status[r.dep])
                      ELSE status[p] # "BLOCKED" => reasons[p] = {}
    BY DEF ReasonsMatchFile
  <2>1. deps \in Graph /\ status \in Statuses BY DEF IInv, TypeOK, Graph, Statuses
  <2>2. Refresh(deps, status) = status /\ reasons[p] = BlockReasons(deps, status, p)
    BY DEF Settled
  <2>3. status[p] \notin Sticky => status[p] = Derive(deps, status, p)
    <3>1. status[p] \notin Sticky => Refresh(deps, status)[p] = Derive(deps, status, p)
      BY <2>1, OnPhases DEF Refresh
    <3> QED BY <2>2, <3>1
  <2>4. BlockReasons(deps, status, p) =
          IF status[p] \in Sticky THEN {}
          ELSE IF Cyclic(deps) THEN {[code |-> "GRAPH_INVALID", dep |-> NoPhase]}
          ELSE {[code |-> ReasonCode(status[d]), dep |-> d] :
                  d \in {e \in deps[p] : status[e] # "COMPLETED"}}
    BY <2>2 DEF BlockReasons
  <2>5. CASE status[p] \in Sticky
    BY <2>2, <2>4, <2>5 DEF Sticky
  <2>6. CASE status[p] \notin Sticky /\ Cyclic(deps)
    <3>1. status[p] = "BLOCKED" BY <2>3, <2>6 DEF Derive
    <3> QED BY <2>6, <3>1
  <2>7. CASE status[p] \notin Sticky /\ ~Cyclic(deps)
    <3>1. reasons[p] = {[code |-> ReasonCode(status[d]), dep |-> d] :
                          d \in {e \in deps[p] : status[e] # "COMPLETED"}}
      BY <2>2, <2>4, <2>7
    <3>2. status[p] = "BLOCKED" <=> \E d \in deps[p] : status[d] # "COMPLETED"
      BY <2>3, <2>7 DEF Derive
    <3>3. \A r \in reasons[p] : /\ r.dep \in deps[p]
                               /\ status[r.dep] # "COMPLETED"
                               /\ r.code = ReasonCode(status[r.dep])
      BY <3>1
    <3>4. reasons[p] = {} <=> \A d \in deps[p] : status[d] = "COMPLETED" BY <3>1
    <3> QED BY <2>7, <3>2, <3>3, <3>4
  <2> QED BY <2>5, <2>6, <2>7
<1>2. Spec => []Settled
  <2>1. IInv /\ Settled /\ [Next]_vars => Settled' BY SettledStep
  <2> QED BY <2>1, SettledInit, Invariance, PTL DEF Spec
<1> QED BY <1>1, <1>2, Invariance, PTL

-----------------------------------------------------------------------------
\* The walk is never stuck

\* Nothing in the walk fails a phase (the engine never writes FAILED).
NoneFailed == \A p \in Phase : status[p] # "FAILED"

\* A pass fails none either, so what a step sets is all there is to look at.
LEMMA NoneFailedStep == IInv /\ NoneFailed /\ [Next]_vars => NoneFailed'
<1> SUFFICES ASSUME IInv, NoneFailed, [Next]_vars PROVE NoneFailed' OBVIOUS
<1>1. deps \in Graph /\ status \in Statuses BY DEF IInv, TypeOK, Graph, Statuses
<1>2. ASSUME NEW s \in Statuses, \A p \in Phase : s[p] # "FAILED"
      PROVE  Refresh(deps, s) \in Statuses /\ \A p \in Phase : Refresh(deps, s)[p] # "FAILED"
  BY <1>1, <1>2, RefreshType, RefreshSticky DEF Sticky
<1>3. ASSUME NEW s \in Statuses, \A p \in Phase : s[p] # "FAILED", PersistGraph(Refresh(deps, s))
      PROVE  NoneFailed'
  BY <1>2, <1>3 DEF PersistGraph, NoneFailed
<1>4. ASSUME NEW p \in Phase, NEW x \in Status \ {"FAILED"},
             PersistGraph(SetStatus(deps, status, p, x))
      PROVE  NoneFailed'
  <2> DEFINE s == [status EXCEPT ![p] = x]
  <2>1. s \in Statuses /\ \A q \in Phase : s[q] # "FAILED" BY <1>1 DEF Statuses, NoneFailed
  <2>2. SetStatus(deps, status, p, x) = Refresh(deps, s) BY <1>1, OnPhases DEF SetStatus
  <2> HIDE DEF s
  <2> QED BY <1>3, <1>4, <2>1, <2>2
<1>5. CASE Start
  <2>1. PICK p \in Phase : PersistGraph(SetStatus(deps, status, p, "RUNNING"))
    BY <1>1, <1>5, StartPicks
  <2> QED BY <1>4, <2>1 DEF Status
<1>6. ASSUME NEW p \in Phase, Complete(p) \/ Stop(p) PROVE NoneFailed'
  BY <1>4, <1>6 DEF Complete, Stop, Status
<1>7. ASSUME NEW p \in Phase, Rewind(p) PROVE NoneFailed'
  <2> DEFINE s == [q \in Phase |-> IF q \in Replayed(deps, p) THEN "PENDING" ELSE status[q]]
  <2>1. s \in Statuses /\ \A q \in Phase : s[q] # "FAILED"
    BY <1>1 DEF Statuses, Status, NoneFailed
  <2>2. ApplyRewind(deps, status, Replayed(deps, p)) = Refresh(deps, s)
    BY <1>1, OnPhases DEF ApplyRewind
  <2> HIDE DEF s
  <2> QED BY <1>3, <1>7, <2>1, <2>2 DEF Rewind
<1>8. CASE UNCHANGED vars BY <1>8 DEF vars, NoneFailed
<1> QED BY <1>5, <1>6, <1>7, <1>8 DEF Next

\* A graph without a cycle always has a phase to run, in work or waiting for a human,
\* until all are done: of the phases that are not, one has all its dependencies done,
\* and the pass that wrote the file has made it READY if nothing else
\* (query.go Refresh; RunGraph's walk ends only with every phase COMPLETED).
THEOREM NeverStuck == Spec => []SomethingToDo
<1>1. ASSUME IInv, Settled, NoneFailed PROVE SomethingToDo
  <2> SUFFICES ASSUME ~Cyclic(deps), ~AllCompleted(status)
               PROVE  \E p \in Phase : status[p] \in {"READY", "RUNNING", "WAITING_FOR_HUMAN"}
    BY DEF SomethingToDo
  <2>1. deps \in Graph /\ status \in Statuses BY <1>1 DEF IInv, TypeOK, Graph, Statuses
  <2> DEFINE U == {p \in Phase : status[p] # "COMPLETED"}
  <2>2. U # {}
    <3>1. 1 \in Phase BY PhaseAssumption DEF Phase
    <3> QED BY <2>1, <3>1, OnPhases DEF AllCompleted
  <2>3. U \in SUBSET Phase OBVIOUS
  <2>4. PICK p \in U : deps[p] \cap U = {}
    <3> HIDE DEF U
    <3> QED BY <2>1, <2>2, <2>3, SourceExists
  <2>5. \A d \in deps[p] : status[d] = "COMPLETED" BY <2>1, <2>4 DEF Graph
  <2>6. CASE status[p] \in Sticky
    BY <1>1, <2>4, <2>6 DEF Sticky, NoneFailed
  <2>7. CASE status[p] \notin Sticky
    <3>1. Refresh(deps, status)[p] = "READY" BY <2>1, <2>4, <2>5, <2>7, OnPhases DEF Refresh, Derive
    <3>2. status[p] = "READY" BY <1>1, <3>1 DEF Settled
    <3> QED BY <3>2
  <2> QED BY <2>6, <2>7
<1>2. Init => NoneFailed
  <2> SUFFICES ASSUME Init PROVE NoneFailed OBVIOUS
  <2>1. status = Refresh(deps, [p \in Phase |-> "PENDING"]) BY DEF Init
  <2> QED BY <2>1 DEF NoneFailed, Refresh, Derive, Sticky
<1>3. IInv /\ Settled /\ [Next]_vars => Settled' BY SettledStep
<1>4. IInv /\ NoneFailed /\ [Next]_vars => NoneFailed' BY NoneFailedStep
<1> QED BY <1>1, <1>2, <1>3, <1>4, SettledInit, Invariance, PTL DEF Spec
=============================================================================
