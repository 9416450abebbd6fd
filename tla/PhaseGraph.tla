----------------------------- MODULE PhaseGraph -----------------------------
(***************************************************************************)
(* The phase graph of internal/graph and the engine's helpers around it    *)
(* (internal/engine/graphutil.go), as operators on statuses.               *)
(*                                                                         *)
(* Phases are numbered in the order of their identifiers (lessID), the     *)
(* order of Graph.Nodes.  deps[p] is the set of phases p depends on, status*)
(* a function from the phases of the graph to Status; a graph need not have*)
(* every phase.                                                            *)
(***************************************************************************)
EXTENDS Integers, FiniteSets, Sequences, SequencesExt

CONSTANT N           \* how many phase identifiers a PRD may declare

ASSUME PhaseAssumption == N \in Nat \ {0}

Phase == 1..N
NoPhase == 0         \* the empty phase identifier

Status == {"PENDING", "READY", "RUNNING", "COMPLETED", "FAILED", "BLOCKED",
           "WAITING_FOR_HUMAN"}

\* Statuses Refresh leaves alone; the others are derived from dependencies.
Sticky == {"COMPLETED", "FAILED", "RUNNING", "WAITING_FOR_HUMAN"}

-----------------------------------------------------------------------------
\* Edges

Dependents(deps, p) == {q \in DOMAIN deps : p \in deps[q]}

\* What the depth-first walk of Affected marks: the least set that holds p's
\* dependents and the dependents of its own members.
Descendants(deps, p) ==
  {q \in DOMAIN deps :
     \A S \in SUBSET DOMAIN deps :
       (\A r \in S \cup {p} : Dependents(deps, r) \subseteq S) => q \in S}

Cyclic(deps) == \E p \in DOMAIN deps : p \in Descendants(deps, p)

\* Mutant: the phases in the order of their identifiers.
KahnPrefixById(deps) == [p \in Phase |-> p]

\* kahn: repeatedly take the smallest phase whose dependencies are all out.
KahnPrefix(deps) ==
  LET after[n \in 0..N] ==
        IF n = 0 THEN << >>
        ELSE LET done == ToSet(after[n - 1])
                 free == {p \in DOMAIN deps \ done : deps[p] \subseteq done}
             IN  IF free = {} THEN after[n - 1]
                 ELSE Append(after[n - 1],
                             CHOOSE p \in free : \A q \in free : p <= q)
  IN  after[N]

\* Empty when the graph has a cycle.
SequentialOrder(deps) ==
  IF Cyclic(deps) \/ Len(KahnPrefix(deps)) # Cardinality(DOMAIN deps) THEN << >> ELSE KahnPrefix(deps)

\* Strict descendants, in topological order; Rewind replays p and then these.
Affected(deps, p) ==
  LET seen == Descendants(deps, p)
      order == SequentialOrder(deps)
  IN  IF order = << >> THEN SetToSortSeq(seen, LAMBDA a, b : a < b)
      ELSE SelectSeq(order, LAMBDA q : q \in seen)

ReplayOrder(deps, p) == <<p>> \o Affected(deps, p)
Replayed(deps, p) == {p} \cup Descendants(deps, p)   \* the phases in it

-----------------------------------------------------------------------------
\* Statuses

\* Mutant: a phase without dependencies never becomes READY.
DeriveNeedsDependency(deps, status, p) ==
  IF /\ ~Cyclic(deps) /\ deps[p] # {}
     /\ \A d \in deps[p] : status[d] = "COMPLETED"
  THEN "READY" ELSE "BLOCKED"

\* One derived status: READY when every dependency is COMPLETED.
Derive(deps, status, p) ==
  IF ~Cyclic(deps) /\ \A d \in deps[p] : status[d] = "COMPLETED"
  THEN "READY" ELSE "BLOCKED"

\* Mutants: no status is left alone; BLOCKED is left alone too.
RefreshAll(deps, status) == [p \in DOMAIN status |-> Derive(deps, status, p)]
RefreshKeepsBlocked(deps, status) ==
  [p \in DOMAIN status |-> IF status[p] \in Sticky \cup {"BLOCKED"} THEN status[p]
                   ELSE Derive(deps, status, p)]

\* Refresh is one pass in the order of the phases, each derived from the array
\* as the pass has left it so far.  What a derived status depends on, which
\* phases are COMPLETED, does not change during the pass.
Refresh(deps, status) ==
  [p \in DOMAIN status |-> IF status[p] \in Sticky THEN status[p]
                           ELSE Derive(deps, status, p)]

ReasonCodeOfStatus(s) == s   \* mutant: the status itself for a code

ReasonCode(s) ==
  CASE s = "FAILED"            -> "DEPENDENCY_FAILED"
    [] s = "BLOCKED"           -> "DEPENDENCY_BLOCKED"
    [] s = "WAITING_FOR_HUMAN" -> "DEPENDENCY_WAITING_FOR_HUMAN"
    [] OTHER                   -> "DEPENDENCY_INCOMPLETE"

\* The reasons a pass over status records for p: an earlier dependency already
\* has its new status then, a later one still its old status.
BlockReasons(deps, status, p) ==
  LET seen(d) == IF d < p THEN Refresh(deps, status)[d] ELSE status[d]
  IN  IF status[p] \in Sticky THEN {}
      ELSE IF Cyclic(deps) THEN {[code |-> "GRAPH_INVALID", dep |-> NoPhase]}
      ELSE {[code |-> ReasonCode(seen(d)), dep |-> d] :
              d \in {e \in deps[p] : seen(e) # "COMPLETED"}}

\* SetStatus and markPhase: unknown and empty identifiers change nothing.
SetStatus(deps, status, p, s) ==
  IF p \in DOMAIN status THEN Refresh(deps, [status EXCEPT ![p] = s]) ELSE status

\* Mutants: completed phases stay though the PRD has dropped them; the persisted
\* statuses are lost.
MergeKeeps(deps, persisted) ==
  Refresh(deps, [p \in DOMAIN deps \cup {q \in DOMAIN persisted : persisted[q] = "COMPLETED"} |->
                   IF p \in DOMAIN persisted THEN persisted[p] ELSE "PENDING"])
MergeForgets(deps, persisted) == Refresh(deps, [p \in DOMAIN deps |-> "PENDING"])

\* mergeGraphStatus of a graph without a history: every phase PENDING, then
\* the statuses of the phases the persisted graph has too.
MergeStatus(deps, persisted) ==
  Refresh(deps, [p \in DOMAIN deps |->
                   IF p \in DOMAIN persisted THEN persisted[p] ELSE "PENDING"])

\* applyRewind: every phase of the plan becomes PENDING.  The passes between
\* make no difference to the last one (RefreshIsOnePass in GraphWalk).
ApplyRewind(deps, status, plan) ==
  Refresh(deps, [p \in DOMAIN status |-> IF p \in plan THEN "PENDING" ELSE status[p]])

AllCompleted(status) ==
  DOMAIN status # {} /\ \A p \in DOMAIN status : status[p] = "COMPLETED"
Having(status, s) == {p \in DOMAIN status : status[p] = s}

First(S) == IF S = {} THEN NoPhase ELSE CHOOSE p \in S : \A q \in S : p <= q
FirstReady(status) == First(Having(status, "READY"))
FirstWaiting(status) == First(Having(status, "WAITING_FOR_HUMAN"))

\* Mutant: --phase bypasses READY.
SelectForced(status, requested, current) ==
  [phase |-> IF requested \in DOMAIN status THEN requested ELSE FirstReady(status),
   reason |-> FALSE]

\* selectRunnablePhase: the phase to run, or NoPhase and whether the engine
\* has a reason to report (it has none when there is simply nothing to run).
SelectRunnable(status, requested, current) ==
  LET Run(p) == [phase |-> p, reason |-> FALSE]
      Refuse(why) == [phase |-> NoPhase, reason |-> why]
  IN  IF requested # NoPhase
      THEN IF /\ requested \in DOMAIN status
              /\ \/ status[requested] = "READY"
                 \/ status[requested] = "RUNNING" /\ current = requested
           THEN Run(requested) ELSE Refuse(TRUE)
      ELSE IF current \in DOMAIN status /\ status[current] = "RUNNING"
           THEN Run(current)
      ELSE IF current \in DOMAIN status /\ status[current] = "WAITING_FOR_HUMAN"
           THEN Refuse(TRUE)
      ELSE IF FirstReady(status) # NoPhase THEN Run(FirstReady(status))
      ELSE Refuse(FirstWaiting(status) # NoPhase)
=============================================================================
