----------------------------- MODULE GraphWalk ------------------------------
(***************************************************************************)
(* The persisted graph.json while a client walks it: every declared graph  *)
(* of N phases, built by FromSpecs, then the changes the engine makes to   *)
(* it.  persistGraph runs Refresh once more on the graph that SetStatus or *)
(* applyRewind has already refreshed, and writes statuses and reasons.     *)
(*                                                                         *)
(* The client starts what prepare may start, and completes, stops or       *)
(* rewinds from there.  More than one phase may be RUNNING: prepare --phase*)
(* starts a READY phase beside another.                                    *)
(***************************************************************************)
EXTENDS PhaseGraph

VARIABLES deps,     \* the declared dependencies
          status,   \* the status of each phase
          reasons   \* blocked_reasons of each phase

vars == <<deps, status, reasons>>

ReasonCodes == {"DEPENDENCY_INCOMPLETE", "DEPENDENCY_FAILED",
                "DEPENDENCY_BLOCKED", "DEPENDENCY_WAITING_FOR_HUMAN",
                "GRAPH_INVALID"}

TypeOK ==
  /\ deps \in [Phase -> SUBSET Phase]
  /\ status \in [Phase -> Status]
  /\ reasons \in [Phase -> SUBSET [code : ReasonCodes, dep : Phase \cup {NoPhase}]]

\* Mutant: the reasons are those of the graph before the change.
PersistGraphOldReasons(s) ==
  /\ status' = Refresh(deps, s)
  /\ reasons' = [p \in Phase |-> BlockReasons(deps, status, p)]
  /\ UNCHANGED deps

\* The pass persistGraph makes over the statuses s, and what it writes.
PersistGraph(s) ==
  /\ status' = Refresh(deps, s)
  /\ reasons' = [p \in Phase |-> BlockReasons(deps, s, p)]
  /\ UNCHANGED deps

\* FromSpecs: self-dependencies are refused, the rest may be any graph; every
\* phase starts PENDING and finalize refreshes.
Init ==
  LET pending == [p \in Phase |-> "PENDING"]
  IN  /\ deps \in {d \in [Phase -> SUBSET Phase] : \A p \in Phase : p \notin d[p]}
      /\ status = Refresh(deps, pending)
      /\ reasons = [p \in Phase |-> BlockReasons(deps, Refresh(deps, pending), p)]

\* prepareLocked marks what selectRunnablePhase returns, for the phase --phase
\* requests, if any, and the one state.json names.  What that is, is Engine's
\* subject: none before the first phase and in a completed project, else the
\* phase in work, or one that a crash, a rewind or an answer has left there.
Start ==
  \E requested, current \in Phase \cup {NoPhase} :
    LET choice == SelectRunnable(status, requested, current)
    IN  /\ choice.phase # NoPhase
        /\ PersistGraph(SetStatus(deps, status, choice.phase, "RUNNING"))

\* completeLocked, for the phase in work or one a human had to answer for.
Complete(p) ==
  /\ status[p] \in {"RUNNING", "WAITING_FOR_HUMAN"}
  /\ PersistGraph(SetStatus(deps, status, p, "COMPLETED"))

\* requestHumanLocked
Stop(p) ==
  /\ status[p] = "RUNNING"
  /\ PersistGraph(SetStatus(deps, status, p, "WAITING_FOR_HUMAN"))

\* prepareRepairLocked with an upstream origin: Rewind(p), then applyRewind.
Rewind(p) ==
  /\ ~Cyclic(deps)
  /\ PersistGraph(ApplyRewind(deps, status, Replayed(deps, p)))

Next == Start \/ \E p \in Phase : Complete(p) \/ Stop(p) \/ Rewind(p)

Fairness == WF_vars(Start) /\ \A p \in Phase : WF_vars(Complete(p))

Spec == Init /\ [][Next]_vars
FairWalk == Spec /\ Fairness

-----------------------------------------------------------------------------
\* Properties

\* A phase that is being worked on, waits or is done has all its dependencies
\* done, also after a rewind of any phase: a replay never leaves a started or
\* finished phase above an unfinished one, and --phase never bypasses READY.
StartedInOrder ==
  \A p \in Phase : status[p] \in Sticky =>
    \A d \in deps[p] : status[d] = "COMPLETED"

\* Whoever reads graph.json sees why a phase is blocked: a blocked phase of an
\* acyclic graph has a reason, every reason names a dependency of the phase that is
\* not done by the file, with the code of the status it has there, and no other
\* phase has any reason.
ReasonsMatchFile ==
  \A p \in Phase :
    IF status[p] = "BLOCKED" /\ ~Cyclic(deps)
    THEN /\ reasons[p] # {}
         /\ \A r \in reasons[p] : /\ r.dep \in deps[p]
                                 /\ status[r.dep] # "COMPLETED"
                                 /\ r.code = ReasonCode(status[r.dep])
    ELSE status[p] # "BLOCKED" => reasons[p] = {}

\* The walk is never stuck: a valid graph with work left has a phase to run,
\* in work, or waiting for a human.
SomethingToDo ==
  ~Cyclic(deps) => \/ AllCompleted(status)
                   \/ \E p \in Phase : status[p] \in {"READY", "RUNNING", "WAITING_FOR_HUMAN"}

\* kahn fails exactly on the graphs detectCycles rejects, and its order puts
\* every phase after its dependencies; so does every replay order.
InOrder(s) == \A i, j \in DOMAIN s : s[i] \in deps[s[j]] => i < j
OrdersRespectDependencies ==
  /\ (Len(KahnPrefix(deps)) = N) = ~Cyclic(deps)
  /\ InOrder(SequentialOrder(deps))
  /\ \A p \in Phase : /\ ~Cyclic(deps) => InOrder(ReplayOrder(deps, p))
                      /\ ToSet(ReplayOrder(deps, p)) = Replayed(deps, p)

\* Refresh as query.go writes it, one phase at a time over the same array,
\* gives the statuses and reasons of Refresh and BlockReasons; and many such
\* passes, one after each phase a merge or a rewind sets, are as good as one.
RefreshPass(s) ==
  FoldLeft(LAMBDA g, p :
             IF g.status[p] \in Sticky
             THEN [g EXCEPT !.reasons[p] = {}]
             ELSE LET open == {d \in deps[p] : g.status[d] # "COMPLETED"}
                  IN  IF ~Cyclic(deps) /\ open = {}
                      THEN [g EXCEPT !.status[p] = "READY", !.reasons[p] = {}]
                      ELSE [g EXCEPT !.status[p] = "BLOCKED",
                              !.reasons[p] =
                                IF Cyclic(deps)
                                THEN {[code |-> "GRAPH_INVALID", dep |-> NoPhase]}
                                ELSE {[code |-> ReasonCode(g.status[d]), dep |-> d] : d \in open}],
           [status |-> s, reasons |-> [p \in Phase |-> {}]],
           [p \in Phase |-> p])
PassAfterEach(s, order, new(_)) ==
  Refresh(deps, FoldLeft(LAMBDA t, p : SetStatus(deps, t, p, new(p)), s, order))
RefreshIsOnePass ==
  \A p \in Phase, x \in Status :
    LET s == [status EXCEPT ![p] = x]
        pending == [q \in Phase |-> "PENDING"]
    IN  /\ RefreshPass(s) = [status  |-> Refresh(deps, s),
                             reasons |-> [q \in Phase |-> BlockReasons(deps, s, q)]]
        /\ MergeStatus(deps, s) =
             PassAfterEach(pending, [q \in Phase |-> q], LAMBDA q : s[q])
        /\ ApplyRewind(deps, s, Replayed(deps, p)) =
             PassAfterEach(s, ReplayOrder(deps, p), LAMBDA q : "PENDING")

\* Once no phase is rewound any more, a walk in which whoever waits is answered
\* finishes every acyclic graph, unless a phase was started beside one in work:
\* nothing takes the older one up again (selectRunnablePhase).
OneInWork == Cardinality(Having(status, "RUNNING")) <= 1
WalkFinishes ==
  <>[][\A p \in Phase : ~Rewind(p)]_vars /\ []OneInWork =>
    (~Cyclic(deps) => <>[]AllCompleted(status))
=============================================================================
