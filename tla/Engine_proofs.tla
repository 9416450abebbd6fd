---------------------------- MODULE Engine_proofs ---------------------------
(***************************************************************************)
(* Proofs about the commands, for every number of phases, every graph, any *)
(* limit on the attempts and any number of crashes: TypeOK,                *)
(* AttemptsBounded, ChainKeepsAttempts, RepairOnlyFailures, and, of the    *)
(* commands and crashes under which they hold, CompletedWasVerified,       *)
(* CommitsTestedWork and the refinement of PhaseOrder.                     *)
(*                                                                         *)
(* A handler computes its whole sequence of writes from the files it read. *)
(* The lemmas show of each handler that its writes form a History: every   *)
(* state of the files it passes through is Sound, and each Follows from    *)
(* the one before.  The invariant says the same of what the command at     *)
(* work has still to write, so a crash may cut the sequence anywhere.      *)
(* The same is then shown of Backing, what a COMPLETED phase rests on, of  *)
(* Careful, what a commit rests on, and of Lined, which says that phases   *)
(* are begun and finished in order.                                        *)
(***************************************************************************)
EXTENDS Engine, PhaseGraph_proofs, TLAPS

-----------------------------------------------------------------------------
\* What every state of .project/ satisfies, and every two that follow one another

\* The attempts of the incident, and the one the execution carries, are within
\* the limit, and unless the incident is of the runtime it includes the latter;
\* an incident without a phase has none; a packet has a phase.
Sound(d) ==
  /\ d.inc.attempts <= MaxAttempts
  /\ d.ex.attempt <= MaxAttempts
  /\ ~d.inc.rt => d.ex.attempt <= d.inc.attempts
  /\ d.inc.phase = NoPhase => d.inc.attempts = 0 /\ ~d.inc.rt
  /\ d.ex.packet => d.ex.phase # NoPhase

\* From one write to the next no attempt is forgotten, an incident stays what it
\* was opened for, and repair begins only with an attempt at a failed verification.
Follows(d, e) ==
  /\ e.inc.attempts >= d.inc.attempts
  /\ e.inc.rt = d.inc.rt
  /\ d.cur # "REPAIRING" /\ e.cur = "REPAIRING" =>
       d.ver.status = "FAILED" /\ d.ex.attempt >= 1

\* A repair of the runtime may take the incident over from a phase, attempts and
\* all, and begins with an attempt of its own.
Turns(d, e) ==
  /\ e.inc.attempts >= d.inc.attempts \/ ~d.inc.rt
  /\ d.inc.rt \/ e.inc # d.inc => e.inc.rt
  /\ d.cur # "REPAIRING" /\ e.cur = "REPAIRING" => e.inc.rt

\* What a write of the command cmd may do.
Obeys(cmd, d, e) == Follows(d, e) \/ (cmd = "runtime" /\ Turns(d, e))

\* The writes of a handler of the command cmd from the files d on.
History(cmd, h, d) ==
  /\ h \in Seq(Write) /\ h # << >> /\ h[1].disk = d
  /\ \A i \in 1..Len(h) : Sound(h[i].disk)
  /\ \A i \in 1..(Len(h) - 1) : Obeys(cmd, h[i].disk, h[i + 1].disk)

\* What a handler returns for the files d.
Handled(cmd, r, d) ==
  /\ History(cmd, r.writes, d)
  /\ r.reply \in Reply
  /\ r.wait \in {"none", "worker", "bare worker", "tests"}
  /\ r.wait = "worker" => Now(r.writes).phase \in Phase

\* Graph and statuses of the product have every phase.
LEMMA DepsType == Deps \in Graph
BY ProjectAssumption, EngineAssumption DEF Graph

-----------------------------------------------------------------------------
\* Histories

\* A handler starts from the files as they are, with nothing written.
LEMMA StartHistory ==
  ASSUME NEW cmd, NEW d \in Disk, Sound(d)
  PROVE  History(cmd, Start(d), d) /\ Now(Start(d)) = d
BY DEF Start, Now, History, Write

\* The files a handler has reached are files of the type, and Sound.
LEMMA NowType ==
  ASSUME NEW cmd, NEW d, NEW h, History(cmd, h, d)
  PROVE  Now(h) \in Disk /\ Sound(Now(h))
<1>1. h \in Seq(Write) /\ Len(h) \in 1..Len(h) BY DEF History
<1>2. h[Len(h)] \in Write BY <1>1
<1> QED BY <1>1, <1>2 DEF Now, Write, History

\* One more write extends a history when it follows from the last.
LEMMA AppendHistory ==
  ASSUME NEW cmd, NEW d, NEW h, History(cmd, h, d), NEW w \in Write,
         Sound(w.disk), Obeys(cmd, Now(h), w.disk)
  PROVE  History(cmd, Append(h, w), d) /\ Now(Append(h, w)) = w.disk
<1> DEFINE g == Append(h, w)
<1>1. /\ h \in Seq(Write) /\ h # << >> /\ h[1].disk = d
      /\ \A i \in 1..Len(h) : Sound(h[i].disk)
      /\ \A i \in 1..(Len(h) - 1) : Obeys(cmd, h[i].disk, h[i + 1].disk)
  BY DEF History
<1>2. /\ g \in Seq(Write) /\ Len(g) = Len(h) + 1 /\ g # << >>
      /\ \A i \in 1..Len(h) : g[i] = h[i]
      /\ g[Len(h) + 1] = w /\ Len(h) \in Nat /\ Len(h) >= 1
  BY <1>1
<1> HIDE DEF g
<1>3. g[1].disk = d BY <1>1, <1>2
<1>4. \A i \in 1..Len(g) : Sound(g[i].disk)
  <2> SUFFICES ASSUME NEW i \in 1..Len(g) PROVE Sound(g[i].disk) OBVIOUS
  <2>1. CASE i \in 1..Len(h) BY <1>1, <1>2, <2>1
  <2>2. CASE i = Len(h) + 1 BY <1>2, <2>2
  <2> QED BY <1>2, <2>1, <2>2
<1>5. \A i \in 1..(Len(g) - 1) : Obeys(cmd, g[i].disk, g[i + 1].disk)
  <2> SUFFICES ASSUME NEW i \in 1..(Len(g) - 1)
               PROVE  Obeys(cmd, g[i].disk, g[i + 1].disk) OBVIOUS
  <2>1. CASE i \in 1..(Len(h) - 1)
    <3>1. i \in 1..Len(h) /\ i + 1 \in 1..Len(h) BY <1>2, <2>1
    <3> QED BY <1>1, <1>2, <2>1, <3>1
  <2>2. CASE i = Len(h)
    <3>1. g[i].disk = Now(h) /\ g[i + 1] = w BY <1>2, <2>2 DEF Now
    <3> QED BY <3>1
  <2> QED BY <1>2, <2>1, <2>2
<1>6. Now(g) = w.disk BY <1>2 DEF Now
<1> QED BY <1>2, <1>3, <1>4, <1>5, <1>6 DEF History, g

\* The same for a write that makes no checkpoint.
LEMMA ThenHistory ==
  ASSUME NEW cmd, NEW d, NEW h, History(cmd, h, d),
         NEW e \in Disk, Sound(e), Obeys(cmd, Now(h), e)
  PROVE  History(cmd, Then(h, e), d) /\ Now(Then(h, e)) = e
<1> DEFINE w == [disk |-> e, commit |-> FALSE]
<1>1. w \in Write /\ w.disk = e BY DEF Write
<1> HIDE DEF w
<1>2. Then(h, e) = Append(h, w) BY DEF Then, w
<1> QED BY <1>1, <1>2, AppendHistory

\* A Git checkpoint writes nothing to .project/.
LEMMA CommitHistory ==
  ASSUME NEW cmd, NEW d, NEW h, History(cmd, h, d)
  PROVE  LET g == Append(h, [disk |-> Now(h), commit |-> TRUE])
         IN  History(cmd, g, d) /\ Now(g) = Now(h)
<1> DEFINE w == [disk |-> Now(h), commit |-> TRUE]
<1>1. Now(h) \in Disk /\ Sound(Now(h)) BY NowType
<1>2. w \in Write /\ w.disk = Now(h) BY <1>1 DEF Write
<1>3. Obeys(cmd, Now(h), w.disk) BY <1>1, <1>2 DEF Obeys, Follows, Disk, Incident
<1> HIDE DEF w
<1> QED BY <1>1, <1>2, <1>3, AppendHistory DEF w

\* Everything but state.json stays.
SameFiles(d, e) ==
  e.node = d.node /\ e.ex = d.ex /\ e.ver = d.ver /\ e.inc = d.inc /\ e.req = d.req

\* A save of state.json changes state and phase alone; REPAIRING needs an attempt
\* at a failed verification.
LEMMA SaveHistory ==
  ASSUME NEW cmd, NEW d, NEW h, History(cmd, h, d), NEW cur \in CurrentState, NEW phase \in PhaseId,
         cur = "REPAIRING" => Now(h).ver.status = "FAILED" /\ Now(h).ex.attempt >= 1
  PROVE  LET g == Save(h, cur, phase)
         IN  History(cmd, g, d) /\ SameFiles(Now(h), Now(g)) /\ Now(g).cur = cur /\ Now(g).phase = phase
<1> DEFINE e == [Now(h) EXCEPT !.cur = cur, !.phase = phase]
<1>1. Now(h) \in Disk /\ Sound(Now(h)) BY NowType
<1>2. e \in Disk /\ SameFiles(Now(h), e) /\ e.cur = cur /\ e.phase = phase
  BY <1>1 DEF Disk, SameFiles
<1> HIDE DEF e
<1>3. Sound(e) BY <1>1, <1>2 DEF Sound, SameFiles
<1>4. Obeys(cmd, Now(h), e) BY <1>1, <1>2 DEF Obeys, Follows, SameFiles, Disk, Incident
<1>5. Save(h, cur, phase) = Then(h, e) BY DEF Save, e
<1> QED BY <1>2, <1>3, <1>4, <1>5, ThenHistory

\* The states other than REPAIRING may be saved at any time.
Calm == CurrentState \ {"REPAIRING"}

\* So it needs nothing more for the other states (store.go Save).
LEMMA CalmSave ==
  ASSUME NEW cmd, NEW d, NEW h, History(cmd, h, d), NEW cur \in Calm, NEW phase \in PhaseId
  PROVE  /\ History(cmd, Save(h, cur, phase), d)
         /\ SameFiles(Now(h), Now(Save(h, cur, phase)))
         /\ Now(Save(h, cur, phase)).cur = cur /\ Now(Save(h, cur, phase)).phase = phase
<1>1. cur \in CurrentState /\ cur # "REPAIRING" BY DEF Calm
<1> HIDE DEF Calm
<1> QED BY <1>1, SaveHistory

\* Which these are.
LEMMA AreCalm ==
  /\ "WORKER_CLAIMED_DONE" \in Calm /\ "WORKER_REFUSED" \in Calm
  /\ "WORKER_RUNNING" \in Calm /\ "PREPARED" \in Calm /\ "VERIFYING" \in Calm
  /\ "VERIFIED" \in Calm /\ "VERIFICATION_FAILED" \in Calm
  /\ "VERIFICATION_INCOMPLETE" \in Calm /\ "REVIEWING" \in Calm
  /\ "WAITING_FOR_HUMAN" \in Calm /\ "COMPLETED" \in Calm
BY DEF Calm, CurrentState

\* execution.json may be written with an attempt the incident knows.
LEMMA ExecutionHistory ==
  ASSUME NEW cmd, NEW d, NEW h, History(cmd, h, d), NEW ex \in Execution,
         ex.attempt <= MaxAttempts, ~Now(h).inc.rt => ex.attempt <= Now(h).inc.attempts,
         ex.packet => ex.phase # NoPhase
  PROVE  LET g == WriteExecution(h, ex)
         IN  History(cmd, g, d) /\ Now(g) = [Now(h) EXCEPT !.ex = ex]
<1> DEFINE e == [Now(h) EXCEPT !.ex = ex]
<1>1. Now(h) \in Disk /\ Sound(Now(h)) BY NowType
<1>2. e \in Disk /\ e.ex = ex /\ e.inc = Now(h).inc /\ e.cur = Now(h).cur BY <1>1 DEF Disk
<1> HIDE DEF e
<1>3. Sound(e) BY <1>1, <1>2 DEF Sound
<1>4. Obeys(cmd, Now(h), e) BY <1>1, <1>2 DEF Obeys, Follows, Disk, Incident
<1>5. WriteExecution(h, ex) = Then(h, e) BY DEF WriteExecution, e
<1> QED BY <1>2, <1>3, <1>4, <1>5, ThenHistory DEF e

\* incident.json may be written when it forgets no attempt and passes no limit.
LEMMA IncidentHistory ==
  ASSUME NEW cmd, NEW d, NEW h, History(cmd, h, d), NEW inc \in Incident,
         inc.attempts >= Now(h).inc.attempts, inc.attempts <= MaxAttempts,
         inc.rt = Now(h).inc.rt, inc.phase = NoPhase => inc.attempts = 0 /\ ~inc.rt
  PROVE  LET g == SaveIncident(h, inc)
         IN  History(cmd, g, d) /\ Now(g) = [Now(h) EXCEPT !.inc = inc]
<1> DEFINE e == [Now(h) EXCEPT !.inc = inc]
<1>1. Now(h) \in Disk /\ Sound(Now(h)) BY NowType
<1>2. e \in Disk /\ e.inc = inc /\ e.ex = Now(h).ex /\ e.cur = Now(h).cur BY <1>1 DEF Disk
<1> HIDE DEF e
<1>3. Sound(e) BY <1>1, <1>2, ProjectAssumption DEF Sound, Disk, Incident, Execution
<1>4. Obeys(cmd, Now(h), e) BY <1>1, <1>2 DEF Obeys, Follows
<1>5. SaveIncident(h, inc) = Then(h, e) BY DEF SaveIncident, e
<1> QED BY <1>2, <1>3, <1>4, <1>5, ThenHistory DEF e

\* A write of graph.json leaves the rest alone.
LEMMA GraphHistory ==
  ASSUME NEW cmd, NEW d, NEW h, History(cmd, h, d), NEW node \in Statuses
  PROVE  LET g == PersistGraph(h, node)
         IN  /\ History(cmd, g, d) /\ Now(g) = [Now(h) EXCEPT !.node = Refresh(Deps, node)]
             /\ Now(g).node \in Statuses
<1> DEFINE e == [Now(h) EXCEPT !.node = Refresh(Deps, node)]
<1>1. Now(h) \in Disk /\ Sound(Now(h)) BY NowType
<1>2. Refresh(Deps, node) \in Statuses BY DepsType, RefreshType
<1>3. /\ e \in Disk /\ e.inc = Now(h).inc /\ e.ex = Now(h).ex /\ e.cur = Now(h).cur
      /\ e.node \in Statuses
  BY <1>1, <1>2 DEF Disk, Statuses
<1> HIDE DEF e
<1>4. Sound(e) BY <1>1, <1>3 DEF Sound
<1>5. Obeys(cmd, Now(h), e) BY <1>1, <1>3 DEF Obeys, Follows, Disk, Incident
<1>6. PersistGraph(h, node) = Then(h, e) BY DEF PersistGraph, e
<1>7. History(cmd, PersistGraph(h, node), d) /\ Now(PersistGraph(h, node)) = e
  BY <1>3, <1>4, <1>5, <1>6, ThenHistory
<1> QED BY <1>3, <1>7 DEF e

\* What a change of graph.json leaves alone.
SameButGraph(d, e) ==
  /\ e.cur = d.cur /\ e.phase = d.phase
  /\ e.ex = d.ex /\ e.ver = d.ver /\ e.inc = d.inc /\ e.req = d.req

\* A mark in graph.json leaves every other file alone, when the phase is none too
\* (graphutil.go markPhase).
LEMMA MarkHistory ==
  ASSUME NEW cmd, NEW d, NEW h, History(cmd, h, d), NEW p \in PhaseId, NEW s \in Status
  PROVE  LET g == MarkPhase(h, p, s)
         IN  History(cmd, g, d) /\ SameButGraph(Now(h), Now(g))
<1> DEFINE node == SetStatus(Deps, Now(h).node, p, s)
<1>1. Now(h) \in Disk BY NowType
<1>2. Now(h).node \in Statuses BY <1>1 DEF Disk, Statuses
<1>3. node \in Statuses
  <2>1. CASE p \in Phase
    <3>1. [Now(h).node EXCEPT ![p] = s] \in Statuses BY <1>2, <2>1 DEF Statuses
    <3> QED BY <3>1, <1>2, <2>1, OnPhases, DepsType, RefreshType DEF SetStatus
  <2>2. CASE p \notin Phase BY <2>2, <1>2, OnPhases DEF SetStatus
  <2> QED BY <2>1, <2>2
<1>4. MarkPhase(h, p, s) = PersistGraph(h, node) BY DEF MarkPhase
<1> HIDE DEF node
<1> QED BY <1>1, <1>3, <1>4, GraphHistory DEF SameButGraph, Disk

-----------------------------------------------------------------------------
\* Handlers

\* selectRunnablePhase returns a phase or none.
LEMMA SelectType ==
  ASSUME NEW s \in Statuses, NEW requested \in PhaseId, NEW current \in PhaseId
  PROVE  LET choice == SelectRunnable(s, requested, current)
         IN  choice.phase \in PhaseId /\ choice.reason \in BOOLEAN
BY SelectsRunnable DEF Statuses, PhaseId

\* The replies of the handlers below.
LEMMA AreReplies ==
  /\ "" \in Reply /\ "ok" \in Reply /\ "error" \in Reply /\ "stop" \in Reply
  /\ "waiting" \in Reply /\ "refused" \in Reply /\ "project completed" \in Reply
  /\ "prepared" \in Reply /\ "repair" \in Reply /\ "human" \in Reply
  /\ "verify" \in Reply
BY DEF Reply

\* A handler that ends without waiting.
LEMMA ReturnHandled ==
  ASSUME NEW cmd, NEW d, NEW h, History(cmd, h, d), NEW reply \in Reply
  PROVE  Handled(cmd, Return(h, reply), d)
BY DEF Handled, Return

\* A request to a human, its graph mark and the state WAITING_FOR_HUMAN
\* (human.go requestHumanLocked) touch no attempt.
LEMMA RequestHistory ==
  ASSUME NEW cmd, NEW d, NEW h, History(cmd, h, d), NEW phase \in PhaseId,
         NEW kind \in {"manual", "repair", "blocked", "runtime"}
  PROVE  History(cmd, RequestHuman(h, phase, kind), d)
<1> DEFINE e == [Now(h) EXCEPT !.req = [kind |-> kind, stamp |-> ~@.stamp]]
           asked == Then(h, e)
           marked == MarkPhase(asked, phase, "WAITING_FOR_HUMAN")
<1>1. Now(h) \in Disk /\ Sound(Now(h)) BY NowType
<1>2. e \in Disk /\ e.inc = Now(h).inc /\ e.ex = Now(h).ex /\ e.cur = Now(h).cur
  BY <1>1 DEF Disk, Request
<1> HIDE DEF e
<1>3. Sound(e) BY <1>1, <1>2 DEF Sound
<1>4. Obeys(cmd, Now(h), e) BY <1>1, <1>2 DEF Obeys, Follows, Disk, Incident
<1>5. History(cmd, asked, d) BY <1>2, <1>3, <1>4, ThenHistory
<1>6. RequestHuman(h, phase, kind) = Save(marked, "WAITING_FOR_HUMAN", phase)
  BY DEF RequestHuman, e
<1> HIDE DEF asked
<1>7. History(cmd, marked, d) BY <1>5, MarkHistory DEF Status
<1> HIDE DEF marked
<1> QED BY <1>6, <1>7, CalmSave, AreCalm

\* The completion of a verified phase (loop.go completeLocked) touches no attempt.
LEMMA CompleteHistory ==
  ASSUME NEW cmd, NEW d, NEW h, History(cmd, h, d), NEW phase \in PhaseId
  PROVE  History(cmd, CompletePhase(h, phase), d)
<1> DEFINE committed == IF AutoCommit
                        THEN Append(h, [disk |-> Now(h), commit |-> TRUE]) ELSE h
           marked == MarkPhase(committed, phase, "COMPLETED")
<1>1. History(cmd, committed, d) BY CommitHistory
<1>2. CompletePhase(h, phase) = Save(marked, "COMPLETED", phase) BY DEF CompletePhase
<1> HIDE DEF committed
<1>3. History(cmd, marked, d) BY <1>1, MarkHistory DEF Status
<1> HIDE DEF marked
<1> QED BY <1>2, <1>3, CalmSave, AreCalm

\* What a command does with the state a crash left (recover.go) begins no repair.
LEMMA RecoverHandled ==
  ASSUME NEW cmd, NEW d, NEW h, History(cmd, h, d)
  PROVE  Handled(cmd, Recover(h), d)
<1> DEFINE e == Now(h)
<1>1. e \in Disk BY NowType
<1> HIDE DEF e
<1>2. e.phase \in PhaseId /\ e.cur \in CurrentState BY <1>1 DEF Disk
<1>3. History(cmd, Save(h, "WORKER_CLAIMED_DONE", e.phase), d)
  BY <1>2, CalmSave, AreCalm
<1>4. History(cmd, CompletePhase(h, e.phase), d) BY <1>2, CompleteHistory
<1>5. \/ Recover(h) = Return(Save(h, "WORKER_CLAIMED_DONE", e.phase), "ok")
      \/ Recover(h) = Return(CompletePhase(h, e.phase), "ok")
      \/ Recover(h) = Return(h, "error")
      \/ Recover(h) = Return(h, "ok")
  BY DEF Recover, e
<1>6. "ok" \in Reply /\ "error" \in Reply BY AreReplies
<1>7. /\ Handled(cmd, Return(Save(h, "WORKER_CLAIMED_DONE", e.phase), "ok"), d)
      /\ Handled(cmd, Return(CompletePhase(h, e.phase), "ok"), d)
      /\ Handled(cmd, Return(h, "error"), d) /\ Handled(cmd, Return(h, "ok"), d)
  BY <1>3, <1>4, <1>6, ReturnHandled, AreReplies
<1> QED BY <1>5, <1>7

\* A refused prepare writes an execution with no packet and no attempt, which
\* every incident covers (prepare.go).
LEMMA RefusalHistory ==
  ASSUME NEW cmd, NEW d, NEW h, History(cmd, h, d), NEW p \in PhaseId
  PROVE  History(cmd, RefusalFor(h, p), d)
<1> DEFINE ex == [phase |-> p, packet |-> FALSE, invoked |-> FALSE,
                  verified |-> FALSE, attempt |-> 0]
<1>1. ex \in Execution BY DEF Execution
<1>2. Now(h).inc.attempts \in Nat BY NowType DEF Disk, Incident
<1>3. 0 <= Now(h).inc.attempts /\ 0 <= MaxAttempts BY <1>2, ProjectAssumption
<1>4. RefusalFor(h, p) = WriteExecution(h, ex) BY DEF RefusalFor
<1> QED BY <1>1, <1>3, <1>4, ExecutionHistory

\* prepareLocked; what it has prepared is a phase.
LEMMA PrepareLockedHandled ==
  ASSUME NEW cmd, NEW d, NEW h, History(cmd, h, d), NEW requested \in PhaseId,
         NEW checks \in BOOLEAN, NEW unclean \in BOOLEAN
  PROVE  LET r == PrepareLocked(h, requested, checks, unclean)
         IN  /\ Handled(cmd, r, d)
             /\ r.reply = "prepared" => Now(r.writes).phase \in Phase
<1> DEFINE e == Now(h)
           merged == MergeStatus(Deps, e.node)
           finished == e.cur = "COMPLETED" /\ e.phase \in DOMAIN merged
                       /\ merged[e.phase] = "RUNNING"
           start == IF finished THEN SetStatus(Deps, merged, e.phase, "COMPLETED") ELSE merged
           graph == PersistGraph(h, start)
           node == Now(graph).node
           resume == IF e.cur = "COMPLETED" THEN NoPhase ELSE e.phase
           choice == SelectRunnable(node, requested, resume)
           p == choice.phase
           marked == IF node[p] = "RUNNING" THEN graph ELSE MarkPhase(graph, p, "RUNNING")
           ex == [phase |-> p, packet |-> TRUE, invoked |-> FALSE,
                  verified |-> FALSE, attempt |-> 0]
           packet == WriteExecution(marked, ex)
           r == PrepareLocked(h, requested, checks, unclean)
<1>1. e \in Disk BY NowType
<1> HIDE DEF e
<1>2. e.phase \in PhaseId /\ e.node \in Statuses BY <1>1 DEF Disk, Statuses
<1>3. merged \in Statuses
  <2> DEFINE all == [q \in Phase |-> IF q \in Phase THEN e.node[q] ELSE "PENDING"]
  <2>1. all \in Statuses BY <1>2 DEF Statuses
  <2>2. merged = Refresh(Deps, all) BY <1>2, OnPhases, DepsType DEF MergeStatus
  <2> QED BY <2>1, <2>2, DepsType, RefreshType
<1> HIDE DEF merged
<1>4. start \in Statuses
  <2>1. CASE finished
    <3>1. e.phase \in Phase BY <2>1, <1>3, OnPhases
    <3>2. [merged EXCEPT ![e.phase] = "COMPLETED"] \in Statuses
      BY <1>3, <3>1 DEF Statuses, Status
    <3> QED BY <2>1, <3>1, <3>2, <1>3, OnPhases, DepsType, RefreshType DEF SetStatus
  <2>2. CASE ~finished BY <2>2, <1>3
  <2> QED BY <2>1, <2>2
<1> HIDE DEF start
<1>5. History(cmd, graph, d) /\ node \in Statuses BY <1>4, GraphHistory
<1> HIDE DEF graph
<1>6. resume \in PhaseId BY <1>2 DEF PhaseId
<1>7. p \in PhaseId BY <1>5, <1>6, SelectType
<1> HIDE DEF resume, node, p
<1>8. History(cmd, marked, d) BY <1>5, <1>7, MarkHistory DEF Status
<1> HIDE DEF marked
<1>9. p # NoPhase => History(cmd, packet, d)
  <2>1. ex \in Execution BY <1>7 DEF Execution
  <2>2. Now(marked).inc.attempts \in Nat BY <1>8, NowType DEF Disk, Incident
  <2> QED BY <1>8, <2>1, <2>2, ExecutionHistory, ProjectAssumption
<1> HIDE DEF packet
<1>10. p # NoPhase => History(cmd, Save(packet, "PREPARED", p), d)
                      /\ Now(Save(packet, "PREPARED", p)).phase = p
  BY <1>7, <1>9, CalmSave, AreCalm
<1>11. History(cmd, Save(graph, "COMPLETED", e.phase), d)
  BY <1>2, <1>5, CalmSave, AreCalm
<1>12. \/ r = Return(h, "waiting")
       \/ r = Return(RefusalFor(h, NoPhase), "refused")
       \/ r = Return(Save(graph, "COMPLETED", e.phase), "project completed")
       \/ r = Return(RefusalFor(graph, requested), "refused")
       \/ r = Return(RefusalFor(marked, p), "refused")
       \/ p # NoPhase /\ r = Return(Save(packet, "PREPARED", p), "prepared")
  BY DEF PrepareLocked, e, merged, start, graph, node, resume, p, marked, packet
<1>13. NoPhase \in PhaseId BY DEF PhaseId
<1> HIDE DEF r
<1>14. Handled(cmd, r, d)
  <2>1. /\ History(cmd, RefusalFor(h, NoPhase), d) /\ History(cmd, RefusalFor(graph, requested), d)
        /\ History(cmd, RefusalFor(marked, p), d)
    BY <1>5, <1>7, <1>8, <1>13, RefusalHistory
  <2>2. /\ Handled(cmd, Return(h, "waiting"), d)
        /\ Handled(cmd, Return(RefusalFor(h, NoPhase), "refused"), d)
        /\ Handled(cmd, Return(Save(graph, "COMPLETED", e.phase), "project completed"), d)
        /\ Handled(cmd, Return(RefusalFor(graph, requested), "refused"), d)
        /\ Handled(cmd, Return(RefusalFor(marked, p), "refused"), d)
    BY <2>1, <1>11, ReturnHandled, AreReplies
  <2>3. p # NoPhase => Handled(cmd, Return(Save(packet, "PREPARED", p), "prepared"), d)
    BY <1>10, ReturnHandled, AreReplies
  <2> QED BY <1>12, <2>2, <2>3
<1>15. r.reply = "prepared" => Now(r.writes).phase \in Phase
  <2>1. ASSUME r.reply = "prepared"
        PROVE  p # NoPhase /\ r = Return(Save(packet, "PREPARED", p), "prepared")
    <3>1. \A g, x : Return(g, x).reply = x BY DEF Return
    <3> QED BY <1>12, <2>1, <3>1
  <2>2. ASSUME r = Return(Save(packet, "PREPARED", p), "prepared")
        PROVE  r.writes = Save(packet, "PREPARED", p)
    BY <2>2 DEF Return
  <2> QED BY <2>1, <2>2, <1>7, <1>10 DEF PhaseId
<1> QED BY <1>14, <1>15 DEF r

\* prepare, with its recovery.
LEMMA PrepareHandled ==
  ASSUME NEW cmd, NEW d \in Disk, Sound(d), NEW requested \in PhaseId,
         NEW checks \in BOOLEAN, NEW unclean \in BOOLEAN
  PROVE  Handled(cmd, Prepare(d, requested, checks, unclean), d)
<1>1. Handled(cmd, Recover(Start(d)), d) BY StartHistory, RecoverHandled
<1>2. History(cmd, Recover(Start(d)).writes, d) BY <1>1 DEF Handled
<1> QED BY <1>1, <1>2, PrepareLockedHandled DEF Prepare

\* runProduct up to its worker; a packet is only handed to the worker of a phase.
LEMMA RunHandled ==
  ASSUME NEW cmd, NEW d \in Disk, Sound(d), NEW requested \in PhaseId,
         NEW checks \in BOOLEAN, NEW unclean \in BOOLEAN, NEW ready \in BOOLEAN
  PROVE  Handled(cmd, RunProduct(d, requested, checks, unclean, ready), d)
<1> DEFINE rec == Recover(Start(d))
           prep == PrepareLocked(rec.writes, requested, checks, unclean)
           p == IF prep.reply = "waiting" THEN NoPhase ELSE Now(prep.writes).phase
           running == Save(prep.writes, "WORKER_RUNNING", p)
           wait == IF prep.reply = "prepared" THEN "worker" ELSE "bare worker"
           r == RunProduct(d, requested, checks, unclean, ready)
<1>1. Handled(cmd, rec, d) BY StartHistory, RecoverHandled
<1> HIDE DEF rec
<1>2. History(cmd, rec.writes, d) BY <1>1 DEF Handled
<1>3. Handled(cmd, prep, d) /\ (prep.reply = "prepared" => Now(prep.writes).phase \in Phase)
  BY <1>2, PrepareLockedHandled
<1> HIDE DEF prep
<1>4. History(cmd, prep.writes, d) BY <1>3 DEF Handled
<1>5. p \in PhaseId BY <1>4, NowType DEF Disk, PhaseId
<1>6. prep.reply = "prepared" => p \in Phase BY <1>3
<1> HIDE DEF p
<1>7. History(cmd, running, d) /\ Now(running).phase = p BY <1>4, <1>5, CalmSave, AreCalm
<1> HIDE DEF running
<1>8. Handled(cmd, AwaitFor(running, wait), d) BY <1>6, <1>7, AreReplies DEF AwaitFor, Handled
<1>9. History(cmd, RefusalFor(prep.writes, p), d) BY <1>4, <1>5, RefusalHistory
<1>10. /\ Handled(cmd, Return(rec.writes, "ok"), d) /\ Handled(cmd, Return(prep.writes, "stop"), d)
       /\ Handled(cmd, Return(RefusalFor(prep.writes, p), "stop"), d)
  BY <1>2, <1>4, <1>9, ReturnHandled, AreReplies
<1>11. \/ r = rec \/ r = Return(rec.writes, "ok") \/ r = Return(prep.writes, "stop")
       \/ r = Return(RefusalFor(prep.writes, p), "stop") \/ r = AwaitFor(running, wait)
  BY DEF RunProduct, rec, prep, p, running
<1> HIDE DEF r, wait
<1> QED BY <1>1, <1>8, <1>10, <1>11 DEF r

\* What runProduct writes once its worker is back: an execution with no attempt
\* (engine.go).
LEMMA AfterWorkerHandled ==
  ASSUME NEW cmd, NEW d \in Disk, Sound(d), NEW packet \in BOOLEAN, NEW invoked \in BOOLEAN,
         packet => d.phase \in Phase
  PROVE  Handled(cmd, AfterWorker(d, packet, invoked), d)
<1> DEFINE ex == [phase |-> d.phase, packet |-> packet, invoked |-> invoked,
                  verified |-> FALSE, attempt |-> 0]
           written == WriteExecution(Start(d), ex)
           cur == IF invoked THEN "WORKER_CLAIMED_DONE" ELSE "WORKER_REFUSED"
           reply == IF invoked THEN "ok" ELSE "stop"
<1>1. d.phase \in PhaseId /\ d.inc.attempts \in Nat BY DEF Disk, Incident
<1>2. ex \in Execution BY <1>1 DEF Execution
<1>3. ex.packet => ex.phase # NoPhase BY PhaseAssumption DEF Phase, NoPhase
<1>4. History(cmd, Start(d), d) /\ Now(Start(d)) = d BY StartHistory
<1>5. ex.attempt <= d.inc.attempts /\ ex.attempt <= MaxAttempts BY <1>1, ProjectAssumption
<1> HIDE DEF ex
<1>6. History(cmd, written, d) BY <1>2, <1>3, <1>4, <1>5, ExecutionHistory
<1> HIDE DEF written
<1>7. cur \in Calm BY AreCalm
<1> HIDE DEF cur
<1>8. History(cmd, Save(written, cur, d.phase), d) BY <1>1, <1>6, <1>7, CalmSave
<1>9. AfterWorker(d, packet, invoked) = Return(Save(written, cur, d.phase), reply)
  BY DEF AfterWorker, ex, written, cur
<1>10. reply \in Reply BY AreReplies
<1> QED BY <1>8, <1>9, <1>10, ReturnHandled, AreReplies

\* An attempt the incident knows already is not counted again, and none is counted
\* past the limit.
LEMMA FinishedAttempt ==
  ASSUME NEW inc \in Incident, NEW number \in Nat, number <= MaxAttempts,
         inc.attempts <= MaxAttempts, NEW ok \in BOOLEAN
  PROVE  LET after == FinishAttempt(inc, number, ok)
         IN  /\ after \in Incident /\ after.phase = inc.phase /\ after.rt = inc.rt
             /\ after.attempts >= inc.attempts /\ after.attempts <= MaxAttempts
             /\ number <= inc.attempts => after.attempts = inc.attempts
<1>1. inc.attempts \in Nat /\ MaxAttempts \in Nat BY ProjectAssumption DEF Incident
<1> DEFINE after == FinishAttempt(inc, number, ok)
           attempts == IF number <= inc.attempts THEN inc.attempts ELSE inc.attempts + 1
<1>2. /\ attempts \in Nat /\ attempts >= inc.attempts /\ attempts <= MaxAttempts
      /\ number <= inc.attempts => attempts = inc.attempts
  BY <1>1
<1>3. after = [inc EXCEPT !.attempts = attempts,
                          !.exhausted = ~ok /\ (@ \/ attempts >= MaxAttempts)]
  BY DEF FinishAttempt
<1> HIDE DEF attempts
<1>4. /\ after \in Incident /\ after.phase = inc.phase /\ after.rt = inc.rt
      /\ after.attempts = attempts
  BY <1>2, <1>3 DEF Incident
<1> QED BY <1>2, <1>4

\* So an attempt the incident must know, unless it is of the runtime, may be
\* finished at any time.
LEMMA FinishHistory ==
  ASSUME NEW cmd, NEW d, NEW h, History(cmd, h, d), NEW number \in Nat, number <= MaxAttempts,
         ~Now(h).inc.rt => number <= Now(h).inc.attempts, NEW ok \in BOOLEAN
  PROVE  History(cmd, SaveIncident(h, FinishAttempt(Now(h).inc, number, ok)), d)
<1> DEFINE inc == FinishAttempt(Now(h).inc, number, ok)
<1>1. Now(h) \in Disk /\ Sound(Now(h)) BY NowType
<1>2. Now(h).inc \in Incident /\ Now(h).inc.attempts \in Nat BY <1>1 DEF Disk, Incident
<1>3. /\ inc \in Incident /\ inc.phase = Now(h).inc.phase /\ inc.rt = Now(h).inc.rt
      /\ inc.attempts >= Now(h).inc.attempts /\ inc.attempts <= MaxAttempts
      /\ number <= Now(h).inc.attempts => inc.attempts = Now(h).inc.attempts
  BY <1>1, <1>2, FinishedAttempt DEF Sound
<1>4. inc.phase = NoPhase => inc.attempts = 0 /\ ~inc.rt BY <1>1, <1>3 DEF Sound
<1> HIDE DEF inc
<1> QED BY <1>3, <1>4, IncidentHistory DEF inc

\* A verdict and all that follows from it: completion, the question to a human,
\* the attempt finished in the incident (verify.go persistVerify).
LEMMA PersistVerifyHandled ==
  ASSUME NEW cmd, NEW d \in Disk, Sound(d), NEW status \in Verdict, NEW of \in PhaseId
  PROVE  Handled(cmd, PersistVerify(Start(d), status, of), d)
<1> DEFINE phase == IF of = NoPhase THEN d.phase ELSE of
           ok == status = "VERIFIED"
           e == [d EXCEPT !.ver = [status |-> status, phase |-> of]]
           verdict == Then(Start(d), e)
           ex == [d.ex EXCEPT !.verified = ok]
           recorded == WriteExecution(verdict, ex)
           inc == FinishAttempt(d.inc, d.ex.attempt, ok)
           counted == IF d.ex.attempt = 0 THEN recorded ELSE SaveIncident(recorded, inc)
           r == PersistVerify(Start(d), status, of)
<1>1. /\ d.phase \in PhaseId /\ d.ex \in Execution /\ d.inc \in Incident
      /\ d.ex.attempt \in Nat /\ d.inc.attempts \in Nat
  BY DEF Disk, Incident, Execution
<1>2. /\ e \in Disk /\ e.cur = d.cur /\ e.ex = d.ex /\ e.inc = d.inc BY DEF Disk
<1> HIDE DEF e
<1>3. Sound(e) /\ Obeys(cmd, d, e) BY <1>1, <1>2 DEF Obeys, Sound, Follows
<1>4. History(cmd, Start(d), d) /\ Now(Start(d)) = d BY StartHistory
<1>5. History(cmd, verdict, d) /\ Now(verdict) = e BY <1>2, <1>3, <1>4, ThenHistory
<1> HIDE DEF verdict
<1>6. /\ ex \in Execution /\ ex.attempt <= MaxAttempts
      /\ ~e.inc.rt => ex.attempt <= e.inc.attempts
      /\ ex.packet => ex.phase # NoPhase
  BY <1>1, <1>2 DEF Execution, Sound
<1> HIDE DEF ex
<1>7. History(cmd, recorded, d) /\ Now(recorded) = [e EXCEPT !.ex = ex]
  BY <1>5, <1>6, ExecutionHistory
<1>8. Now(recorded).inc = d.inc BY <1>2, <1>7 DEF Disk
<1> HIDE DEF recorded
<1>9. d.ex.attempt <= MaxAttempts /\ (~d.inc.rt => d.ex.attempt <= d.inc.attempts)
  BY DEF Sound
<1>10. History(cmd, counted, d)
  <2>1. History(cmd, SaveIncident(recorded, inc), d)
    <3>1. ok \in BOOLEAN OBVIOUS
    <3> HIDE DEF ok
    <3> QED BY <1>1, <1>7, <1>8, <1>9, <3>1, FinishHistory
  <2> QED BY <1>7, <2>1
<1> HIDE DEF inc
<1>11. phase \in PhaseId BY <1>1
<1>12. \/ r = Return(CompletePhase(counted, phase), status)
       \/ r = Return(RequestHuman(counted, phase, "manual"), status)
       \/ r = Return(Save(counted, "VERIFICATION_INCOMPLETE", phase), status)
       \/ r = Return(Save(counted, "VERIFICATION_FAILED", phase), status)
  BY <1>4, <1>5, <1>7 DEF PersistVerify, e, verdict, ex, recorded, inc
<1> HIDE DEF counted, phase
<1>13. /\ History(cmd, CompletePhase(counted, phase), d)
       /\ History(cmd, RequestHuman(counted, phase, "manual"), d)
       /\ History(cmd, Save(counted, "VERIFICATION_INCOMPLETE", phase), d)
       /\ History(cmd, Save(counted, "VERIFICATION_FAILED", phase), d)
  BY <1>10, <1>11, CompleteHistory, RequestHistory, CalmSave, AreCalm
<1>14. status \in Reply BY DEF Reply
<1> HIDE DEF r
<1> QED BY <1>12, <1>13, <1>14, ReturnHandled, AreReplies DEF r

\* verify, up to its tests.
LEMMA VerifyHandled ==
  ASSUME NEW cmd, NEW d \in Disk, Sound(d)
  PROVE  Handled(cmd, Verify(d), d)
<1>1. d.phase \in PhaseId /\ d.ex.phase \in PhaseId BY DEF Disk, Execution
<1>2. History(cmd, Save(Start(d), "VERIFYING", d.phase), d)
  BY <1>1, StartHistory, CalmSave, AreCalm
<1>3. Handled(cmd, AwaitFor(Save(Start(d), "VERIFYING", d.phase), "tests"), d)
  BY <1>2, AreReplies DEF Handled, AwaitFor
<1>4. Handled(cmd, PersistVerify(Start(d), "INCOMPLETE", d.ex.phase), d)
  BY <1>1, PersistVerifyHandled DEF Verdict
<1> QED BY <1>3, <1>4 DEF Verify

\* verify, from its tests on.
LEMMA AfterTestsHandled ==
  ASSUME NEW cmd, NEW d \in Disk, Sound(d), NEW tests, NEW confirmed
  PROVE  Handled(cmd, AfterTests(d, tests, confirmed), d)
<1>1. d.ex.phase \in PhaseId BY DEF Disk, Execution
<1>2. Judge(d.ex.phase, tests, confirmed) \in Verdict BY DEF Judge, Verdict
<1> QED BY <1>1, <1>2, PersistVerifyHandled DEF AfterTests

\* A review that recommends repair has a failed verification before it.
LEMMA ReviewHandled ==
  ASSUME NEW cmd, NEW d \in Disk, Sound(d)
  PROVE  LET r == Review(Start(d))
         IN  /\ Handled(cmd, r, d)
             /\ SameFiles(d, Now(r.writes))
             /\ r.reply = "repair" =>
                  d.ver.status = "FAILED" /\ d.inc.attempts < MaxAttempts
<1> DEFINE after == IF RecommendHuman(d) THEN "WAITING_FOR_HUMAN"
                    ELSE IF d.ver.status = "VERIFIED" THEN "VERIFIED"
                    ELSE "VERIFICATION_FAILED"
           reviewing == Save(Start(d), "REVIEWING", d.phase)
           reviewed == Save(reviewing, after, d.phase)
           reply == IF RecommendRepair(d) THEN "repair" ELSE "human"
           r == Review(Start(d))
<1>1. d.phase \in PhaseId BY DEF Disk
<1>2. after \in Calm BY AreCalm
<1>3. History(cmd, Start(d), d) /\ Now(Start(d)) = d BY StartHistory
<1>4. r = Return(reviewed, reply) BY <1>3 DEF Review
<1> HIDE DEF after
<1>5. History(cmd, reviewing, d) /\ SameFiles(d, Now(reviewing))
  <2>1. History(cmd, reviewing, d) /\ SameFiles(Now(Start(d)), Now(reviewing))
    BY <1>1, <1>3, CalmSave, AreCalm
  <2> QED BY <1>3, <2>1
<1> HIDE DEF reviewing
<1>6. History(cmd, reviewed, d) /\ SameFiles(Now(reviewing), Now(reviewed))
  BY <1>1, <1>2, <1>5, CalmSave
<1> HIDE DEF reviewed
<1>7. SameFiles(d, Now(reviewed)) BY <1>5, <1>6 DEF SameFiles
<1>8. reply \in Reply BY AreReplies
<1>9. Handled(cmd, r, d) BY <1>4, <1>6, <1>8, ReturnHandled, AreReplies
<1>10. r.writes = reviewed /\ r.reply = reply BY <1>4 DEF Return
<1> QED BY <1>7, <1>9, <1>10 DEF RecommendRepair

\* repair: it spends one attempt of the incident, below the limit, before it
\* writes REPAIRING; or it declares the incident exhausted (repair.go).
LEMMA PrepareRepairHandled ==
  ASSUME NEW cmd, NEW d \in Disk, Sound(d)
  PROVE  Handled(cmd, PrepareRepair(d), d)
<1> DEFINE rev == Review(Start(d))
           inc == IF d.inc.phase # NoPhase THEN d.inc
                  ELSE [phase |-> d.ex.phase, attempts |-> 0, exhausted |-> FALSE, rt |-> FALSE]
           begun == [inc EXCEPT !.attempts = @ + 1]
           spent == [d.inc EXCEPT !.exhausted = TRUE]
           ex == [d.ex EXCEPT !.attempt = begun.attempts]
           counted == SaveIncident(rev.writes, begun)
           given == WriteExecution(counted, ex)
           r == PrepareRepair(d)
<1>1. /\ d.phase \in PhaseId /\ d.ex \in Execution /\ d.inc \in Incident
      /\ d.ex.attempt \in Nat /\ d.inc.attempts \in Nat /\ MaxAttempts \in Nat
      /\ d.ex.phase \in PhaseId
  BY ProjectAssumption DEF Disk, Incident, Execution
<1>2. History(cmd, Start(d), d) /\ Now(Start(d)) = d BY StartHistory
<1>3. /\ Handled(cmd, rev, d) /\ SameFiles(d, Now(rev.writes))
      /\ rev.reply = "repair" => d.ver.status = "FAILED" /\ d.inc.attempts < MaxAttempts
  BY ReviewHandled
<1>4. \/ r = Return(RequestHuman(SaveIncident(Start(d), spent), d.phase, "repair"), "error")
      \/ r = Return(rev.writes, "error")
      \/ /\ rev.reply = "repair" /\ d.ex.packet
         /\ r = Return(Save(given, "REPAIRING", d.phase), "ok")
  BY DEF PrepareRepair
<1> HIDE DEF rev, r
<1>5. History(cmd, rev.writes, d) BY <1>3 DEF Handled
<1>6. Handled(cmd, Return(rev.writes, "error"), d) BY <1>5, ReturnHandled, AreReplies
<1>7. Handled(cmd, Return(RequestHuman(SaveIncident(Start(d), spent), d.phase, "repair"), "error"), d)
  <2>1. /\ spent \in Incident /\ spent.attempts = d.inc.attempts
        /\ spent.phase = d.inc.phase /\ spent.rt = d.inc.rt
    BY <1>1 DEF Incident
  <2> HIDE DEF spent
  <2>2. History(cmd, SaveIncident(Start(d), spent), d)
    BY <1>1, <1>2, <2>1, IncidentHistory DEF Sound
  <2>3. History(cmd, RequestHuman(SaveIncident(Start(d), spent), d.phase, "repair"), d)
    BY <1>1, <2>2, RequestHistory
  <2> QED BY <2>3, ReturnHandled, AreReplies
<1>8. ASSUME rev.reply = "repair", d.ex.packet
      PROVE  Handled(cmd, Return(Save(given, "REPAIRING", d.phase), "ok"), d)
  <2>1. d.ex.phase # NoPhase BY <1>8 DEF Sound
  <2>2. /\ inc \in Incident /\ inc.attempts = d.inc.attempts /\ inc.phase # NoPhase
        /\ inc.rt = d.inc.rt
    BY <1>1, <2>1 DEF Sound, Incident
  <2> HIDE DEF inc
  <2>3. /\ begun \in Incident /\ begun.attempts = d.inc.attempts + 1
        /\ begun.phase # NoPhase /\ begun.rt = d.inc.rt
    BY <1>1, <2>2 DEF Incident
  <2> HIDE DEF begun
  <2>4. Now(rev.writes).inc = d.inc /\ Now(rev.writes).ver = d.ver
    BY <1>3 DEF SameFiles
  <2>5. d.inc.attempts < MaxAttempts /\ d.ver.status = "FAILED" BY <1>3, <1>8
  <2>6. /\ begun.attempts >= Now(rev.writes).inc.attempts
        /\ begun.attempts <= MaxAttempts
    BY <1>1, <2>3, <2>4, <2>5
  <2>7. History(cmd, counted, d) /\ Now(counted) = [Now(rev.writes) EXCEPT !.inc = begun]
    BY <1>5, <2>3, <2>4, <2>6, IncidentHistory
  <2>8. Now(rev.writes) \in Disk BY <1>5, NowType
  <2>9. Now(counted).inc = begun /\ Now(counted).ver = d.ver
    BY <2>4, <2>7, <2>8 DEF Disk
  <2>10. /\ ex \in Execution /\ ex.attempt = begun.attempts /\ ex.attempt \in Nat
         /\ ex.phase = d.ex.phase
    BY <1>1, <2>3 DEF Execution, Incident
  <2> HIDE DEF counted, ex
  <2>11. ex.attempt <= Now(counted).inc.attempts /\ ex.attempt <= MaxAttempts
    BY <1>1, <2>3, <2>5, <2>9, <2>10
  <2>12. History(cmd, given, d) /\ Now(given) = [Now(counted) EXCEPT !.ex = ex]
    <3>1. ex.packet => ex.phase # NoPhase BY <2>1, <2>10
    <3>2. History(cmd, counted, d) BY <2>7
    <3>3. ex \in Execution BY <2>10
    <3> QED BY <2>11, <3>1, <3>2, <3>3, ExecutionHistory
  <2>13. Now(counted) \in Disk BY <2>7, NowType
  <2>14. Now(given).ver = d.ver /\ Now(given).ex = ex BY <2>9, <2>12, <2>13 DEF Disk
  <2> HIDE DEF given
  <2>15. Now(given).ver.status = "FAILED" /\ Now(given).ex.attempt >= 1
    BY <1>1, <2>3, <2>5, <2>10, <2>14
  <2>16. "REPAIRING" \in CurrentState BY DEF CurrentState
  <2>17. History(cmd, Save(given, "REPAIRING", d.phase), d)
    BY <1>1, <2>12, <2>15, <2>16, SaveHistory
  <2> QED BY <2>17, ReturnHandled, AreReplies
<1> QED BY <1>4, <1>6, <1>7, <1>8 DEF r

\* resume writes state.json and never REPAIRING (human.go).
LEMMA ResumeHandled ==
  ASSUME NEW cmd, NEW d \in Disk, Sound(d), NEW answer
  PROVE  Handled(cmd, Resume(d, answer), d)
<1> DEFINE cur == IF d.req.kind = "runtime" THEN "COMPLETED" ELSE "VERIFICATION_FAILED"
           reply == IF ManualConfirmed(d, answer) THEN "verify" ELSE "ok"
<1>1. d.phase \in PhaseId BY DEF Disk
<1>2. cur \in Calm BY AreCalm
<1>3. reply \in Reply BY AreReplies
<1>4. \/ Resume(d, answer) = Return(Start(d), "error")
      \/ Resume(d, answer) = Return(Save(Start(d), cur, d.phase), reply)
  BY DEF Resume
<1> HIDE DEF cur, reply
<1>5. History(cmd, Start(d), d) BY StartHistory
<1>6. History(cmd, Save(Start(d), cur, d.phase), d) BY <1>1, <1>2, <1>5, CalmSave
<1>7. "error" \in Reply BY AreReplies
<1> QED BY <1>3, <1>4, <1>5, <1>6, <1>7, ReturnHandled, AreReplies

-----------------------------------------------------------------------------
\* The command at work

\* What it still has to write, from the files d on, and the files at the end.
Planned(cmd, todo, d) ==
  \A i \in 1..Len(todo) :
    /\ Sound(todo[i].disk)
    /\ Obeys(cmd, IF i = 1 THEN d ELSE todo[i - 1].disk, todo[i].disk)
Ends(todo, d) == IF todo = << >> THEN d ELSE todo[Len(todo)].disk

\* A handler begins, or goes on, at the files as they are.
LEMMA TailPlanned ==
  ASSUME NEW cmd, NEW d, NEW r, Handled(cmd, r, d)
  PROVE  LET todo == Tail(r.writes)
         IN  /\ todo \in Seq(Write)
             /\ Planned(cmd, todo, d)
             /\ r.wait = "worker" => Ends(todo, d).phase \in Phase
<1> DEFINE h == r.writes
           todo == Tail(h)
<1>1. /\ h \in Seq(Write) /\ h # << >> /\ h[1].disk = d
      /\ \A i \in 1..Len(h) : Sound(h[i].disk)
      /\ \A i \in 1..(Len(h) - 1) : Obeys(cmd, h[i].disk, h[i + 1].disk)
      /\ r.wait = "worker" => Now(h).phase \in Phase
  BY DEF Handled, History
<1> HIDE DEF h
<1>2. /\ todo \in Seq(Write) /\ Len(todo) = Len(h) - 1 /\ Len(h) \in Nat /\ Len(h) >= 1
      /\ \A i \in 1..Len(todo) : todo[i] = h[i + 1]
  BY <1>1
<1> HIDE DEF todo
<1>3. Planned(cmd, todo, d)
  <2> SUFFICES ASSUME NEW i \in 1..Len(todo)
               PROVE  /\ Sound(todo[i].disk)
                      /\ Obeys(cmd, IF i = 1 THEN d ELSE todo[i - 1].disk, todo[i].disk)
    BY DEF Planned
  <2>1. i \in 1..(Len(h) - 1) /\ i + 1 \in 1..Len(h) BY <1>2
  <2>2. Sound(todo[i].disk) /\ Obeys(cmd, h[i].disk, todo[i].disk) BY <1>1, <1>2, <2>1
  <2>3. i # 1 => todo[i - 1] = h[i]
    <3>1. i # 1 => i - 1 \in 1..Len(todo) /\ (i - 1) + 1 = i BY <1>2
    <3> QED BY <1>2, <3>1
  <2> QED BY <1>1, <2>2, <2>3
<1>4. r.wait = "worker" => Ends(todo, d).phase \in Phase
  <2>1. CASE todo = << >>
    <3>1. Len(h) = 1 BY <1>2, <2>1
    <3> QED BY <1>1, <2>1, <3>1 DEF Ends, Now
  <2>2. CASE todo # << >>
    <3>1. Len(todo) \in 1..Len(todo) /\ Len(todo) + 1 = Len(h) BY <1>2, <2>2
    <3>2. todo[Len(todo)] = h[Len(h)] BY <1>2, <3>1
    <3> QED BY <1>1, <2>2, <3>2 DEF Ends, Now
  <2> QED BY <2>1, <2>2
<1> QED BY <1>2, <1>3, <1>4 DEF h, todo

\* One write further, the rest is still planned.
LEMMA NextPlanned ==
  ASSUME NEW cmd, NEW d, NEW todo \in Seq(Write), todo # << >>, Planned(cmd, todo, d)
  PROVE  LET e == Head(todo).disk
         IN  /\ e \in Disk /\ Sound(e) /\ Obeys(cmd, d, e)
             /\ Tail(todo) \in Seq(Write) /\ Planned(cmd, Tail(todo), e)
             /\ Ends(Tail(todo), e) = Ends(todo, d)
<1> DEFINE e == Head(todo).disk
           rest == Tail(todo)
<1>1. /\ Len(todo) \in Nat /\ Len(todo) >= 1 /\ Head(todo) = todo[1] /\ Head(todo) \in Write
      /\ rest \in Seq(Write) /\ Len(rest) = Len(todo) - 1
      /\ \A i \in 1..Len(rest) : rest[i] = todo[i + 1]
  OBVIOUS
<1>2. 1 \in 1..Len(todo) BY <1>1
<1>3. e \in Disk BY <1>1 DEF Write
<1>4. e = todo[1].disk BY <1>1
<1> HIDE DEF e, rest
<1>5. Sound(e) /\ Obeys(cmd, d, e) BY <1>2, <1>4 DEF Planned
<1>6. Planned(cmd, rest, e)
  <2> SUFFICES ASSUME NEW i \in 1..Len(rest)
               PROVE  /\ Sound(rest[i].disk)
                      /\ Obeys(cmd, IF i = 1 THEN e ELSE rest[i - 1].disk, rest[i].disk)
    BY DEF Planned
  <2>1. i + 1 \in 1..Len(todo) /\ i + 1 # 1 /\ (i + 1) - 1 = i BY <1>1
  <2>2. Sound(todo[i + 1].disk) /\ Obeys(cmd, todo[i].disk, todo[i + 1].disk)
    BY <2>1 DEF Planned
  <2>3. rest[i] = todo[i + 1] BY <1>1
  <2>4. i # 1 => rest[i - 1] = todo[i]
    <3>1. i # 1 => i - 1 \in 1..Len(rest) /\ (i - 1) + 1 = i BY <1>1
    <3> QED BY <1>1, <3>1
  <2> QED BY <1>4, <2>2, <2>3, <2>4
<1>7. Ends(rest, e) = Ends(todo, d)
  <2>1. CASE rest = << >>
    <3>1. Len(todo) = 1 BY <1>1, <2>1
    <3> QED BY <1>4, <2>1, <3>1 DEF Ends
  <2>2. CASE rest # << >>
    <3>1. Len(rest) \in 1..Len(rest) /\ Len(rest) + 1 = Len(todo) BY <1>1, <2>2
    <3>2. rest[Len(rest)] = todo[Len(todo)] BY <1>1, <3>1
    <3> QED BY <2>2, <3>2 DEF Ends
  <2> QED BY <2>1, <2>2
<1> QED BY <1>1, <1>3, <1>5, <1>6, <1>7 DEF e, rest

\* The files and the command at work, apart from what the other variables hold.
WorkOK(d, j) ==
  /\ d \in Disk /\ Sound(d) /\ j \in Job
  /\ Planned(j.cmd, j.todo, d)
  /\ j.wait = "worker" => Ends(j.todo, d).phase \in Phase

OthersOK ==
  /\ resp \in Response
  /\ dirty \in BOOLEAN /\ resuming \in BOOLEAN /\ untested \in BOOLEAN
  /\ committer \in [pc : {"idle", "cleared", "committed", "loaded"},
                    cur : CurrentState, phase : PhaseId]
  /\ crashes \in 0..MaxCrashes
  /\ passed \subseteq Phase
  /\ answered \in PhaseId

IInv == WorkOK(disk, job) /\ OthersOK

\* No command at work.
LEMMA NoJobOK ==
  ASSUME NEW d \in Disk, Sound(d)
  PROVE  WorkOK(d, NoJob)
<1>1. << >> \in Seq(Write) OBVIOUS
<1>2. NoJob \in Job BY <1>1, AreReplies DEF NoJob, Job, LockedCommand
<1>3. NoJob.todo = << >> /\ NoJob.wait = "none" BY DEF NoJob
<1>4. Planned(NoJob.cmd, << >>, d) BY DEF Planned
<1> QED BY <1>2, <1>3, <1>4 DEF WorkOK

\* A command begins: what it has to write is planned from the files as they are.
LEMMA BeginOK ==
  ASSUME WorkOK(disk, job), NEW cmd \in LockedCommand, NEW by \in {"user", "loop"},
         NEW r, Handled(cmd, r, disk), Begin(cmd, by, r)
  PROVE  WorkOK(disk, job')
<1> DEFINE todo == Tail(r.writes)
<1>1. /\ todo \in Seq(Write) /\ Planned(cmd, todo, disk)
      /\ r.wait = "worker" => Ends(todo, disk).phase \in Phase
  BY TailPlanned
<1>2. job' = [cmd |-> cmd, by |-> by, todo |-> todo, wait |-> r.wait, reply |-> r.reply]
  BY DEF Begin
<1> HIDE DEF todo
<1>3. r.wait \in {"none", "worker", "bare worker", "tests"} /\ r.reply \in Reply
  BY DEF Handled, History
<1>4. job' \in Job BY <1>1, <1>2, <1>3 DEF Job
<1>5. job'.todo = todo /\ job'.wait = r.wait /\ job'.cmd = cmd BY <1>2
<1> QED BY <1>1, <1>4, <1>5 DEF WorkOK

\* A command goes on after its worker or its tests: likewise.
LEMMA ContinueOK ==
  ASSUME WorkOK(disk, job), NEW r, Handled(job.cmd, r, disk), Continue(r)
  PROVE  WorkOK(disk, job')
<1> DEFINE todo == Tail(r.writes)
<1>1. /\ todo \in Seq(Write) /\ Planned(job.cmd, todo, disk)
      /\ r.wait = "worker" => Ends(todo, disk).phase \in Phase
  BY TailPlanned
<1>2. job' = [job EXCEPT !.todo = todo, !.wait = r.wait, !.reply = r.reply]
  BY DEF Continue
<1> HIDE DEF todo
<1>3. r.wait \in {"none", "worker", "bare worker", "tests"} /\ r.reply \in Reply
  BY DEF Handled, History
<1>4. job \in Job BY DEF WorkOK
<1>5. job' \in Job /\ job'.todo = todo /\ job'.wait = r.wait /\ job'.cmd = job.cmd
  BY <1>1, <1>2, <1>3, <1>4 DEF Job
<1> QED BY <1>1, <1>5 DEF WorkOK

\* A new project has no attempts and no command at work.
LEMMA IInvInit == Init => IInv
<1> SUFFICES ASSUME Init PROVE IInv OBVIOUS
<1>1. disk \in Disk
  BY DEF Init, EmptyDisk, Disk, CurrentState, PhaseId, Status, Execution, Verdict,
         Incident, Request
<1>2. Sound(disk)
  <2>1. /\ disk.inc.attempts = 0 /\ disk.ex.attempt = 0 /\ disk.ex.packet = FALSE
        /\ disk.inc.rt = FALSE
    BY DEF Init, EmptyDisk
  <2> QED BY <2>1, ProjectAssumption DEF Sound
<1>3. WorkOK(disk, job) BY <1>1, <1>2, NoJobOK DEF Init
<1>4. OthersOK
  <2>1. resp \in Response BY DEF Init, Response
  <2>2. committer \in [pc : {"idle", "cleared", "committed", "loaded"},
                       cur : CurrentState, phase : PhaseId]
    BY DEF Init, CurrentState, PhaseId
  <2>3. crashes \in 0..MaxCrashes
    <3>1. MaxCrashes \in Nat BY EngineAssumption
    <3>2. crashes = 0 BY DEF Init
    <3> QED BY <3>1, <3>2
  <2>4. passed \subseteq Phase /\ answered \in PhaseId BY DEF Init, PhaseId
  <2> QED BY <2>1, <2>2, <2>3, <2>4 DEF Init, OthersOK
<1> QED BY <1>3, <1>4 DEF IInv

\* A write changes the files to the next of the plan.
LEMMA WriteStep ==
  ASSUME IInv, WriteNext
  PROVE  IInv' /\ Obeys(job.cmd, disk, disk')
<1> DEFINE w == Head(job.todo)
<1>1. WorkOK(disk, job) /\ OthersOK BY DEF IInv
<1>2. /\ job \in Job /\ job.todo \in Seq(Write) /\ job.todo # << >>
      /\ Planned(job.cmd, job.todo, disk)
  BY <1>1 DEF WorkOK, Job, WriteNext
<1>3. /\ w.disk \in Disk /\ Sound(w.disk) /\ Obeys(job.cmd, disk, w.disk)
      /\ Tail(job.todo) \in Seq(Write) /\ Planned(job.cmd, Tail(job.todo), w.disk)
      /\ Ends(Tail(job.todo), w.disk) = Ends(job.todo, disk)
  BY <1>2, NextPlanned
<1>4. disk' = w.disk /\ job' = [job EXCEPT !.todo = Tail(job.todo)] BY DEF WriteNext
<1>5. job' \in Job /\ job'.todo = Tail(job.todo) /\ job'.wait = job.wait
      /\ job'.cmd = job.cmd
  BY <1>2, <1>3, <1>4 DEF Job
<1>6. WorkOK(disk', job') BY <1>1, <1>3, <1>4, <1>5 DEF WorkOK
<1>7. OthersOK'
  <2>1. w.commit \in BOOLEAN
    <3>1. w \in Write BY <1>2
    <3> QED BY <3>1 DEF Write
  <2>2. w.disk.ver.phase \in PhaseId BY <1>3 DEF Disk
  <2>3. dirty' \in BOOLEAN BY <1>1, <2>1 DEF WriteNext, OthersOK
  <2>4. resp' \in Response BY <1>1 DEF WriteNext, OthersOK, Response
  <2>5. passed' \subseteq Phase BY <1>1, <2>2 DEF WriteNext, OthersOK, PhaseId
  <2> QED BY <1>1, <2>3, <2>4, <2>5 DEF WriteNext, OthersOK
<1> QED BY <1>3, <1>4, <1>6, <1>7 DEF IInv

\* The other steps that may change the files: CommitSave, without a command.
LEMMA CommitSaveStep ==
  ASSUME IInv, CommitSave
  PROVE  IInv' /\ disk'.inc = disk.inc
<1>1. WorkOK(disk, job) /\ OthersOK BY DEF IInv
<1>2. /\ disk' \in Disk /\ disk'.inc = disk.inc /\ disk'.ex = disk.ex
  BY <1>1 DEF CommitSave, WorkOK, OthersOK, Disk
<1>3. Sound(disk') BY <1>1, <1>2 DEF WorkOK, Sound
<1>4. job' = job BY DEF CommitSave
<1>5. WorkOK(disk', job')
  <2>1. CASE job = NoJob BY <1>2, <1>3, <1>4, <2>1, NoJobOK
  <2>2. CASE job # NoJob BY <1>1, <1>4, <2>2 DEF CommitSave
  <2> QED BY <2>1, <2>2
<1>6. OthersOK' BY <1>1 DEF CommitSave, OthersOK, CurrentState, PhaseId
<1> QED BY <1>2, <1>5, <1>6 DEF IInv

\* What users start.
LEMMA StartStep ==
  ASSUME IInv, UserStarts \/ ResumeVerify
  PROVE  IInv' /\ UNCHANGED disk
<1>1. /\ WorkOK(disk, job) /\ OthersOK /\ disk \in Disk /\ Sound(disk) /\ dirty \in BOOLEAN
  BY DEF IInv, WorkOK, OthersOK
<1>2. ASSUME NEW cmd \in LockedCommand, NEW r, Handled(cmd, r, disk), UserCommand(cmd, r)
      PROVE  IInv' /\ UNCHANGED disk
  <2>1. WorkOK(disk, job') BY <1>1, <1>2, BeginOK DEF UserCommand
  <2>2. UNCHANGED <<disk, resp, dirty, resuming, committer, crashes, untested, passed, answered>>
    BY <1>2 DEF UserCommand
  <2>3. OthersOK' BY <1>1, <2>2 DEF OthersOK
  <2> QED BY <2>1, <2>2, <2>3 DEF IInv
<1>3. /\ "run" \in LockedCommand /\ "prepare" \in LockedCommand /\ "verify" \in LockedCommand
      /\ "review" \in LockedCommand /\ "repair" \in LockedCommand /\ "resume" \in LockedCommand
  BY DEF LockedCommand
<1>4. CASE RunCommand
  <2>1. PICK requested \in PhaseId, checks \in Health, ready \in Health :
          UserCommand("run", RunProduct(disk, requested, checks, dirty, ready))
    BY <1>4 DEF RunCommand
  <2>2. checks \in BOOLEAN /\ ready \in BOOLEAN BY EngineAssumption
  <2>3. Handled("run", RunProduct(disk, requested, checks, dirty, ready), disk)
    BY <1>1, <2>2, RunHandled
  <2> QED BY <1>2, <1>3, <2>1, <2>3
<1>5. CASE PrepareCommand
  <2>1. PICK requested \in PhaseId, checks \in Health :
          UserCommand("prepare", Prepare(disk, requested, checks, dirty))
    BY <1>5 DEF PrepareCommand
  <2>2. checks \in BOOLEAN BY EngineAssumption
  <2>3. Handled("prepare", Prepare(disk, requested, checks, dirty), disk)
    BY <1>1, <2>2, PrepareHandled
  <2> QED BY <1>2, <1>3, <2>1, <2>3
<1>6. CASE VerifyCommand
  BY <1>1, <1>2, <1>3, <1>6, VerifyHandled DEF VerifyCommand
<1>7. CASE ReviewCommand
  <2>1. Handled("review", Review(Start(disk)), disk) BY <1>1, ReviewHandled
  <2> QED BY <1>2, <1>3, <1>7, <2>1 DEF ReviewCommand
<1>8. CASE RepairCommand
  BY <1>1, <1>2, <1>3, <1>8, PrepareRepairHandled DEF RepairCommand
<1>9. CASE ResumeCommand
  BY <1>1, <1>2, <1>3, <1>9, ResumeHandled DEF ResumeCommand
<1>10. CASE ResumeVerify
  <2>1. UNCHANGED <<disk, resp, dirty, committer, crashes, untested, passed, answered>>
        /\ resuming' = FALSE
    BY <1>10 DEF ResumeVerify
  <2>2. WorkOK(disk, job')
    <3>1. CASE job = NoJob
      <4>1. Begin("verify", "user", Verify(disk)) BY <1>10, <3>1 DEF ResumeVerify
      <4> QED BY <1>1, <1>3, <4>1, VerifyHandled, BeginOK
    <3>2. CASE job # NoJob
      <4>1. job' = job BY <1>10, <3>2 DEF ResumeVerify
      <4> QED BY <1>1, <4>1
    <3> QED BY <3>1, <3>2
  <2>3. OthersOK' BY <1>1, <2>1 DEF OthersOK
  <2> QED BY <2>1, <2>2, <2>3 DEF IInv
<1> QED BY <1>4, <1>5, <1>6, <1>7, <1>8, <1>9, <1>10 DEF UserStarts

\* The worker and the tests, in the middle of a command.
LEMMA WorkStep ==
  ASSUME IInv, \/ \E invoked \in Health, edits \in BOOLEAN : Work(invoked, edits)
               \/ \E outcome \in Outcomes : RunTests(outcome)
  PROVE  IInv' /\ UNCHANGED disk
<1>1. /\ WorkOK(disk, job) /\ OthersOK /\ disk \in Disk /\ Sound(disk)
  BY DEF IInv, WorkOK
<1>2. ASSUME NEW invoked \in Health, NEW edits \in BOOLEAN, Work(invoked, edits)
      PROVE  IInv' /\ UNCHANGED disk
  <2>1. invoked \in BOOLEAN BY EngineAssumption
  <2>2. job.wait = "worker" => disk.phase \in Phase BY <1>1, <1>2 DEF Work, WorkOK, Ends
  <2>3. (job.wait = "worker") \in BOOLEAN OBVIOUS
  <2>4. Handled(job.cmd, AfterWorker(disk, job.wait = "worker", invoked), disk)
    BY <1>1, <2>1, <2>2, <2>3, AfterWorkerHandled
  <2>5. WorkOK(disk, job') BY <1>1, <1>2, <2>4, ContinueOK DEF Work
  <2>6. UNCHANGED disk /\ OthersOK' BY <1>1, <1>2 DEF Work, OthersOK
  <2> QED BY <2>5, <2>6 DEF IInv
<1>3. ASSUME NEW outcome \in Outcomes, RunTests(outcome)
      PROVE  IInv' /\ UNCHANGED disk
  <2> DEFINE r == AfterTests(disk, outcome, ManualConfirmed(disk, resp))
  <2>1. Handled(job.cmd, r, disk) BY <1>1, AfterTestsHandled
  <2>2. Continue(r) BY <1>3 DEF RunTests
  <2> HIDE DEF r
  <2>3. WorkOK(disk, job') BY <1>1, <2>1, <2>2, ContinueOK
  <2>4. UNCHANGED disk /\ OthersOK' BY <1>1, <1>3 DEF RunTests, OthersOK
  <2> QED BY <2>3, <2>4 DEF IInv
<1> QED BY <1>2, <1>3

\* Every other step leaves the files and, unless it ends, the command alone.
LEMMA OtherStep ==
  ASSUME IInv, \/ Unlock \/ Crash \/ Feedback \/ Edit \/ Clean
               \/ CommitCheck \/ CommitTree \/ CommitLoad \/ UNCHANGED vars
  PROVE  IInv' /\ UNCHANGED disk
<1>1. /\ WorkOK(disk, job) /\ OthersOK /\ disk \in Disk /\ Sound(disk)
      /\ disk.cur \in CurrentState /\ disk.phase \in PhaseId
  BY DEF IInv, WorkOK, Disk
<1>2. UNCHANGED disk /\ (job' = job \/ job' = NoJob)
  BY DEF Unlock, Crash, Feedback, Edit, Clean, CommitCheck, CommitTree, CommitLoad, vars
<1>3. WorkOK(disk', job') BY <1>1, <1>2, NoJobOK
<1>4. OthersOK'
  <2>1. CASE Unlock BY <1>1, <2>1 DEF Unlock, OthersOK
  <2>2. CASE Crash
    <3>1. crashes' \in 0..MaxCrashes
      <4>1. crashes \in 0..MaxCrashes BY <1>1 DEF OthersOK
      <4>2. crashes < MaxCrashes /\ crashes' = crashes + 1 BY <2>2 DEF Crash
      <4>3. MaxCrashes \in Nat BY EngineAssumption
      <4> QED BY <4>1, <4>2, <4>3
    <3>2. dirty' \in BOOLEAN /\ untested' \in BOOLEAN BY <1>1, <2>2 DEF Crash, OthersOK
    <3> QED BY <1>1, <2>2, <3>1, <3>2 DEF Crash, OthersOK
  <2>3. CASE Feedback BY <1>1, <2>3 DEF Feedback, OthersOK, Response, PhaseId
  <2>4. CASE Edit BY <1>1, <2>4 DEF Edit, OthersOK
  <2>5. CASE Clean BY <1>1, <2>5 DEF Clean, OthersOK
  <2>6. CASE CommitCheck BY <1>1, <2>6 DEF CommitCheck, OthersOK
  <2>7. CASE CommitTree BY <1>1, <2>7 DEF CommitTree, OthersOK
  <2>8. CASE CommitLoad BY <1>1, <2>8 DEF CommitLoad, OthersOK
  <2>9. CASE UNCHANGED vars BY <1>1, <2>9 DEF vars, OthersOK
  <2> QED BY <2>1, <2>2, <2>3, <2>4, <2>5, <2>6, <2>7, <2>8, <2>9
<1> QED BY <1>2, <1>3, <1>4 DEF IInv

\* Every step keeps the invariant, and its writes follow one another.
LEMMA Step ==
  ASSUME IInv, [Next]_vars
  PROVE  /\ IInv'
         /\ \/ disk' = disk
            \/ Obeys(job.cmd, disk, disk')
            \/ CommitSave /\ disk'.inc = disk.inc
<1>1. CASE WriteNext BY <1>1, WriteStep
<1>2. CASE CommitSave BY <1>2, CommitSaveStep
<1>3. CASE UserStarts \/ ResumeVerify BY <1>3, StartStep
<1>4. CASE \/ \E invoked \in Health, edits \in BOOLEAN : Work(invoked, edits)
           \/ \E outcome \in Outcomes : RunTests(outcome)
  BY <1>4, WorkStep
<1>5. CASE \/ Unlock \/ Crash \/ Feedback \/ Edit \/ Clean
           \/ CommitCheck \/ CommitTree \/ CommitLoad \/ UNCHANGED vars
  BY <1>5, OtherStep
<1> QED BY <1>1, <1>2, <1>3, <1>4, <1>5 DEF Next, Working, Committing

\* The users' commands and prdpr phase never repair the runtime.
PhaseOnly == job.cmd # "runtime" /\ ~disk.inc.rt

\* Nor does any step of Engine, and so what the commands write follows one another.
LEMMA PhaseOnlyStep ==
  ASSUME IInv, PhaseOnly, [Next]_vars
  PROVE  PhaseOnly' /\ (Follows(disk, disk') \/ CommitSave)
<1>1. disk \in Disk BY DEF IInv, WorkOK
<1>2. disk' = disk \/ Follows(disk, disk') \/ (CommitSave /\ disk'.inc = disk.inc)
  <2>1. disk' = disk \/ Obeys(job.cmd, disk, disk') \/ (CommitSave /\ disk'.inc = disk.inc)
    BY Step
  <2>2. job.cmd # "runtime" BY DEF PhaseOnly
  <2> QED BY <2>1, <2>2 DEF Obeys
<1>3. Follows(disk, disk) BY <1>1 DEF Follows, Disk, Incident
<1>4. Follows(disk, disk') \/ CommitSave BY <1>2, <1>3
<1>5. disk'.inc.rt = disk.inc.rt BY <1>2 DEF Follows
<1>6. job'.cmd # "runtime"
  <2>1. \A cmd, by, r : Begin(cmd, by, r) => job'.cmd = cmd BY DEF Begin
  <2>3. job \in Job BY DEF IInv, WorkOK
  <2>4. \A r : Continue(r) => job'.cmd = job.cmd BY <2>3 DEF Continue, Job
  <2>5. CASE UserStarts \/ ResumeVerify
    <3>1. ASSUME NEW cmd \in LockedCommand \ {"runtime"}, NEW r, UserCommand(cmd, r)
          PROVE  job'.cmd # "runtime"
      BY <2>1, <3>1 DEF UserCommand
    <3>2. CASE RunCommand BY <3>1, <3>2 DEF RunCommand, LockedCommand
    <3>3. CASE PrepareCommand BY <3>1, <3>3 DEF PrepareCommand, LockedCommand
    <3>4. CASE VerifyCommand BY <3>1, <3>4 DEF VerifyCommand, LockedCommand
    <3>5. CASE ReviewCommand BY <3>1, <3>5 DEF ReviewCommand, LockedCommand
    <3>6. CASE RepairCommand BY <3>1, <3>6 DEF RepairCommand, LockedCommand
    <3>7. CASE ResumeCommand BY <3>1, <3>7 DEF ResumeCommand, LockedCommand
    <3>8. CASE ResumeVerify
      <4>1. Begin("verify", "user", Verify(disk)) \/ job' = job BY <3>8 DEF ResumeVerify
      <4> QED BY <2>1, <4>1 DEF PhaseOnly
    <3> QED BY <2>5, <3>2, <3>3, <3>4, <3>5, <3>6, <3>7, <3>8 DEF UserStarts
  <2>6. CASE Working
    <3>1. CASE WriteNext BY <2>3, <3>1 DEF WriteNext, PhaseOnly, Job
    <3>2. ASSUME NEW invoked \in Health, NEW edits \in BOOLEAN, Work(invoked, edits)
          PROVE  job'.cmd # "runtime"
      BY <2>4, <3>2 DEF Work, PhaseOnly
    <3>3. ASSUME NEW outcome \in Outcomes, RunTests(outcome)
          PROVE  job'.cmd # "runtime"
      BY <2>4, <3>3 DEF RunTests, PhaseOnly
    <3> QED BY <2>6, <3>1, <3>2, <3>3 DEF Working
  <2>7. CASE \/ Unlock \/ Crash \/ Feedback \/ Edit \/ Clean \/ Committing \/ UNCHANGED vars
    <3>1. job' = job \/ job' = NoJob
      BY <2>7 DEF Unlock, Crash, Feedback, Edit, Clean, Committing, CommitCheck, CommitTree,
                  CommitLoad, CommitSave, vars
    <3>2. NoJob.cmd # "runtime" BY DEF NoJob
    <3> QED BY <3>1, <3>2 DEF PhaseOnly
  <2> QED BY <2>5, <2>6, <2>7 DEF Next
<1> QED BY <1>4, <1>5, <1>6 DEF PhaseOnly

\* The invariants hold throughout.
LEMMA Invariance == Spec => []IInv
<1>1. IInv /\ [Next]_vars => IInv' BY Step
<1> QED BY <1>1, IInvInit, PTL DEF Spec

\* Likewise.
LEMMA PhaseInvariance == Spec => [](IInv /\ PhaseOnly)
<1>1. Init => PhaseOnly
  <2>1. NoJob.cmd # "runtime" /\ ~EmptyDisk.inc.rt BY DEF NoJob, EmptyDisk
  <2> QED BY <2>1 DEF Init, PhaseOnly
<1>2. IInv /\ PhaseOnly /\ [Next]_vars => PhaseOnly' BY PhaseOnlyStep
<1> QED BY <1>1, <1>2, Invariance, PTL DEF Spec

-----------------------------------------------------------------------------
\* Theorems

\* The files, the command at work and the interrupted commits keep their types.
THEOREM TypeCorrect == Spec => []TypeOK
<1>1. IInv => TypeOK BY DEF IInv, WorkOK, OthersOK, TypeOK
<1> QED BY <1>1, Invariance, PTL

\* However the commands of users, their crashes and the checkpoints interleave, no
\* incident holds more attempts than the limit, and the execution never carries
\* one the incident does not know (repair.go).
THEOREM AttemptsAreBounded == Spec => []AttemptsBounded
<1>1. IInv /\ PhaseOnly => AttemptsBounded
  BY DEF IInv, PhaseOnly, WorkOK, Sound, AttemptsBounded
<1> QED BY <1>1, PhaseInvariance, PTL

\* Nothing gives a failure chain a second set of attempts: not a crash between two
\* writes, not a verdict, not a resume, not the work on a later phase (repair/repair.go FinishAttempt, engine/repair.go).
THEOREM AttemptsAreKept == Spec => ChainKeepsAttempts
<1>1. IInv /\ PhaseOnly /\ [Next]_vars =>
        [disk'.inc.phase = disk.inc.phase => disk'.inc.attempts >= disk.inc.attempts]_vars
  <2> SUFFICES ASSUME IInv, PhaseOnly, [Next]_vars
               PROVE  disk'.inc.attempts >= disk.inc.attempts
    OBVIOUS
  <2>1. disk.inc.attempts \in Nat BY DEF IInv, WorkOK, Disk, Incident
  <2>2. Follows(disk, disk') \/ CommitSave BY PhaseOnlyStep
  <2>3. CommitSave => disk'.inc = disk.inc BY CommitSaveStep
  <2> QED BY <2>1, <2>2, <2>3 DEF Follows
<1> QED BY <1>1, PhaseInvariance, PTL DEF Spec, ChainKeepsAttempts

\* A repair packet is handed out with a failed verification on disk and an attempt
\* spent on it, unless a commit writes back the state it had loaded before
\* (repair.go prepareRepairLocked).
THEOREM RepairsFollowFailures == Spec => RepairOnlyFailures
<1> DEFINE Justified == disk.cur # "REPAIRING" /\ disk'.cur = "REPAIRING" =>
                          \/ disk.ver.status = "FAILED" /\ disk.ex.attempt >= 1
                          \/ committer.pc = "loaded"
<1>1. IInv /\ PhaseOnly /\ [Next]_vars => [Justified]_vars
  <2> SUFFICES ASSUME IInv, PhaseOnly, [Next]_vars PROVE Justified OBVIOUS
  <2>1. Follows(disk, disk') \/ CommitSave BY PhaseOnlyStep
  <2> QED BY <2>1 DEF Follows, CommitSave
<1> QED BY <1>1, PhaseInvariance, PTL DEF Spec, RepairOnlyFailures

-----------------------------------------------------------------------------
\* What has been verified

\* The phases that may be COMPLETED while passed is P: those with a verdict
\* VERIFIED, that of verification.json included; and the empty identifier.
Earned(P, d) ==
  {NoPhase} \cup P \cup (IF d.ver.status = "VERIFIED" THEN {d.ver.phase} ELSE {})

\* The commands that put another phase into state.json.
Preparing(cmd) == cmd \in {"prepare", "run"}

\* Files from which nothing unverified becomes COMPLETED.  v: an execution that is
\* verified is of a verified phase, as far as state.json says; a: a packet is of
\* the phase of state.json, unless that one is verified.  Both fail between two
\* writes of some commands.  A request about the runtime, which resume takes for
\* a completed phase, only where there is no resume.
Backing(v, a, P, d) ==
  /\ \A p \in Phase : d.node[p] = "COMPLETED" => p \in Earned(P, d)
  /\ d.cur = "COMPLETED" => d.phase \in Earned(P, d)
  /\ "resume" \in Commands => d.req.kind # "runtime"
  /\ v /\ d.ex.verified => d.phase \in Earned(P, d)
  /\ a /\ d.ex.packet => d.phase \in Earned(P, d) \cup {d.ex.phase}

\* All files of a handler are such.
Backed(v, a, P, h) == \A i \in 1..Len(h) : Backing(v, a, P, h[i].disk)

\* What a handler of cmd returns.  s: its writes may be cut off by a crash after
\* which others may crash.
Backs(s, P, cmd, r) ==
  /\ Backed(s, s /\ ~Preparing(cmd), P, r.writes)
  /\ Backing(TRUE, s, P, Now(r.writes))
  /\ r.wait = "tests" => Now(r.writes).ex.packet

\* The verdict on disk is recorded.
Recorded(P, d) == d.ver.status = "VERIFIED" => d.ver.phase \in P \cup {NoPhase}

\* Fewer demands, and more verdicts, are met as well.
LEMMA BackingWeaker ==
  ASSUME NEW v \in BOOLEAN, NEW a \in BOOLEAN, NEW P, NEW d, Backing(v, a, P, d),
         NEW v2 \in BOOLEAN, NEW a2 \in BOOLEAN, NEW P2, v2 => v, a2 => a, P \subseteq P2
  PROVE  Backing(v2, a2, P2, d)
BY DEF Backing, Earned

\* One write more.
LEMMA AppendBacked ==
  ASSUME NEW v \in BOOLEAN, NEW a \in BOOLEAN, NEW P, NEW h \in Seq(Write), Backed(v, a, P, h),
         NEW w \in Write, Backing(v, a, P, w.disk)
  PROVE  Backed(v, a, P, Append(h, w))
<1> DEFINE g == Append(h, w)
<1>1. /\ Len(g) = Len(h) + 1 /\ Len(h) \in Nat
      /\ \A i \in 1..Len(h) : g[i] = h[i]
      /\ g[Len(h) + 1] = w
  OBVIOUS
<1> HIDE DEF g
<1>2. ASSUME NEW i \in 1..Len(g) PROVE Backing(v, a, P, g[i].disk)
  <2>1. CASE i \in 1..Len(h) BY <1>1, <2>1 DEF Backed
  <2>2. CASE i = Len(h) + 1 BY <1>1, <2>2
  <2> QED BY <1>1, <2>1, <2>2
<1> QED BY <1>2 DEF Backed, g

\* The same for a write that makes no checkpoint.
LEMMA ThenBacked ==
  ASSUME NEW v \in BOOLEAN, NEW a \in BOOLEAN, NEW P, NEW h \in Seq(Write), Backed(v, a, P, h),
         NEW e \in Disk, Backing(v, a, P, e)
  PROVE  Backed(v, a, P, Then(h, e))
<1> DEFINE w == [disk |-> e, commit |-> FALSE]
<1>1. w \in Write /\ w.disk = e BY DEF Write
<1> HIDE DEF w
<1>2. Then(h, e) = Append(h, w) BY DEF Then, w
<1> QED BY <1>1, <1>2, AppendBacked

\* The last files of a handler are such.
LEMMA NowBacking ==
  ASSUME NEW v \in BOOLEAN, NEW a \in BOOLEAN, NEW P, NEW cmd, NEW d, NEW h,
         History(cmd, h, d), Backed(v, a, P, h)
  PROVE  Backing(v, a, P, Now(h))
<1>1. h \in Seq(Write) /\ Len(h) \in 1..Len(h) BY DEF History
<1> QED BY <1>1 DEF Backed, Now

\* A handler starts from the files as they are.
LEMMA StartBacked ==
  ASSUME NEW v \in BOOLEAN, NEW a \in BOOLEAN, NEW P, NEW d \in Disk, Backing(v, a, P, d)
  PROVE  Backed(v, a, P, Start(d))
BY DEF Backed, Start

\* state.json may name a verified phase, and another as long as no verified
\* execution, or packet, needs more; COMPLETED only a verified one.
LEMMA SaveBacked ==
  ASSUME NEW v \in BOOLEAN, NEW a \in BOOLEAN, NEW P, NEW cmd, NEW d, NEW h, History(cmd, h, d),
         NEW cur \in CurrentState, NEW phase \in PhaseId,
         Backing(FALSE, FALSE, P, Now(h)),
         cur = "COMPLETED" => phase \in Earned(P, Now(h)),
         v /\ Now(h).ex.verified => phase \in Earned(P, Now(h)),
         a /\ Now(h).ex.packet => phase \in Earned(P, Now(h)) \cup {Now(h).ex.phase}
  PROVE  LET g == Save(h, cur, phase)
         IN  /\ Backing(v, a, P, Now(g))
             /\ Backed(v, a, P, h) => Backed(v, a, P, g)
<1> DEFINE e == [Now(h) EXCEPT !.cur = cur, !.phase = phase]
<1>1. Now(h) \in Disk /\ h \in Seq(Write) BY NowType DEF History
<1>2. e \in Disk /\ SameFiles(Now(h), e) /\ e.cur = cur /\ e.phase = phase
  BY <1>1 DEF Disk, SameFiles
<1>3. Save(h, cur, phase) = Then(h, e) BY DEF Save
<1> HIDE DEF e
<1>4. Earned(P, e) = Earned(P, Now(h)) BY <1>2 DEF Earned, SameFiles
<1>5. Backing(v, a, P, e) BY <1>2, <1>4 DEF Backing, SameFiles
<1>6. Now(Then(h, e)) = e BY <1>1 DEF Then, Now
<1> QED BY <1>1, <1>2, <1>3, <1>5, <1>6, ThenBacked

\* The same phase may be saved in another state.
LEMMA SaveSameBacked ==
  ASSUME NEW v \in BOOLEAN, NEW a \in BOOLEAN, NEW P, NEW cmd, NEW d, NEW h, History(cmd, h, d),
         NEW cur \in CurrentState, Backing(v, a, P, Now(h)),
         cur = "COMPLETED" => Now(h).phase \in Earned(P, Now(h))
  PROVE  LET g == Save(h, cur, Now(h).phase)
         IN  /\ Backing(v, a, P, Now(g))
             /\ Backed(v, a, P, h) => Backed(v, a, P, g)
<1>1. Now(h).phase \in PhaseId BY NowType DEF Disk
<1>2. Backing(FALSE, FALSE, P, Now(h)) BY BackingWeaker
<1> QED BY <1>1, <1>2, SaveBacked DEF Backing

\* What a write of execution.json, and of incident.json, leaves alone.
SameButExecution(d, e) ==
  /\ e.cur = d.cur /\ e.phase = d.phase /\ e.node = d.node
  /\ e.ver = d.ver /\ e.inc = d.inc /\ e.req = d.req
SameButIncident(d, e) ==
  /\ e.cur = d.cur /\ e.phase = d.phase /\ e.node = d.node
  /\ e.ex = d.ex /\ e.ver = d.ver /\ e.req = d.req

\* They do.
LEMMA ExecutionWritten ==
  ASSUME NEW cmd, NEW d, NEW h, History(cmd, h, d), NEW ex \in Execution
  PROVE  LET g == WriteExecution(h, ex)
         IN  Now(g) \in Disk /\ Now(g).ex = ex /\ SameButExecution(Now(h), Now(g))
<1> DEFINE e == [Now(h) EXCEPT !.ex = ex]
<1>1. Now(h) \in Disk /\ h \in Seq(Write) BY NowType DEF History
<1>2. e \in Disk /\ e.ex = ex /\ SameButExecution(Now(h), e) BY <1>1 DEF Disk, SameButExecution
<1>3. WriteExecution(h, ex) = Then(h, e) BY DEF WriteExecution
<1> HIDE DEF e
<1>4. Now(Then(h, e)) = e BY <1>1 DEF Then, Now
<1> QED BY <1>2, <1>3, <1>4

\* Likewise.
LEMMA IncidentWritten ==
  ASSUME NEW cmd, NEW d, NEW h, History(cmd, h, d), NEW inc \in Incident
  PROVE  LET g == SaveIncident(h, inc)
         IN  Now(g) \in Disk /\ Now(g).inc = inc /\ SameButIncident(Now(h), Now(g))
<1> DEFINE e == [Now(h) EXCEPT !.inc = inc]
<1>1. Now(h) \in Disk /\ h \in Seq(Write) BY NowType DEF History
<1>2. e \in Disk /\ e.inc = inc /\ SameButIncident(Now(h), e) BY <1>1 DEF Disk, SameButIncident
<1>3. SaveIncident(h, inc) = Then(h, e) BY DEF SaveIncident
<1> HIDE DEF e
<1>4. Now(Then(h, e)) = e BY <1>1 DEF Then, Now
<1> QED BY <1>2, <1>3, <1>4

\* execution.json, of an execution that is not verified or of a verified phase.
LEMMA ExecutionBacked ==
  ASSUME NEW v \in BOOLEAN, NEW a \in BOOLEAN, NEW P, NEW cmd, NEW d, NEW h, History(cmd, h, d),
         NEW ex \in Execution, Backing(FALSE, FALSE, P, Now(h)),
         v /\ ex.verified => Now(h).phase \in Earned(P, Now(h)),
         a /\ ex.packet => Now(h).phase \in Earned(P, Now(h)) \cup {ex.phase}
  PROVE  LET g == WriteExecution(h, ex)
         IN  /\ Backing(v, a, P, Now(g))
             /\ Backed(v, a, P, h) => Backed(v, a, P, g)
<1> DEFINE e == [Now(h) EXCEPT !.ex = ex]
<1>1. Now(h) \in Disk /\ h \in Seq(Write) BY NowType DEF History
<1>2. /\ e \in Disk /\ e.ex = ex /\ e.cur = Now(h).cur /\ e.phase = Now(h).phase
      /\ e.node = Now(h).node /\ e.ver = Now(h).ver /\ e.req = Now(h).req /\ e.inc = Now(h).inc
  BY <1>1 DEF Disk
<1>3. WriteExecution(h, ex) = Then(h, e) BY DEF WriteExecution
<1> HIDE DEF e
<1>4. Earned(P, e) = Earned(P, Now(h)) BY <1>2 DEF Earned
<1>5. Backing(v, a, P, e) BY <1>2, <1>4 DEF Backing
<1>6. Now(Then(h, e)) = e BY <1>1 DEF Then, Now
<1> QED BY <1>1, <1>2, <1>3, <1>5, <1>6, ThenBacked

\* incident.json has no part in it.
LEMMA IncidentBacked ==
  ASSUME NEW v \in BOOLEAN, NEW a \in BOOLEAN, NEW P, NEW cmd, NEW d, NEW h, History(cmd, h, d),
         NEW inc \in Incident, Backing(v, a, P, Now(h))
  PROVE  LET g == SaveIncident(h, inc)
         IN  /\ Backing(v, a, P, Now(g))
             /\ Backed(v, a, P, h) => Backed(v, a, P, g)
<1> DEFINE e == [Now(h) EXCEPT !.inc = inc]
<1>1. Now(h) \in Disk /\ h \in Seq(Write) BY NowType DEF History
<1>2. /\ e \in Disk /\ e.inc = inc /\ e.ex = Now(h).ex /\ e.cur = Now(h).cur /\ e.phase = Now(h).phase
      /\ e.node = Now(h).node /\ e.ver = Now(h).ver /\ e.req = Now(h).req
  BY <1>1 DEF Disk
<1>3. SaveIncident(h, inc) = Then(h, e) BY DEF SaveIncident
<1> HIDE DEF e
<1>4. Earned(P, e) = Earned(P, Now(h)) BY <1>2 DEF Earned
<1>5. Backing(v, a, P, e) BY <1>2, <1>4 DEF Backing
<1>6. Now(Then(h, e)) = e BY <1>1 DEF Then, Now
<1> QED BY <1>1, <1>2, <1>3, <1>5, <1>6, ThenBacked

\* graph.json may say COMPLETED of verified phases.
LEMMA GraphBacked ==
  ASSUME NEW v \in BOOLEAN, NEW a \in BOOLEAN, NEW P, NEW cmd, NEW d, NEW h, History(cmd, h, d),
         NEW node \in Statuses, Backing(v, a, P, Now(h)),
         \A p \in Phase : node[p] = "COMPLETED" => p \in Earned(P, Now(h))
  PROVE  LET g == PersistGraph(h, node)
         IN  /\ Backing(v, a, P, Now(g))
             /\ Backed(v, a, P, h) => Backed(v, a, P, g)
<1> DEFINE e == [Now(h) EXCEPT !.node = Refresh(Deps, node)]
<1>1. Now(h) \in Disk /\ h \in Seq(Write) BY NowType DEF History
<1>2. Refresh(Deps, node) \in Statuses BY DepsType, RefreshType
<1>3. /\ e \in Disk /\ e.ex = Now(h).ex /\ e.cur = Now(h).cur /\ e.phase = Now(h).phase
      /\ e.node = Refresh(Deps, node) /\ e.ver = Now(h).ver /\ e.req = Now(h).req
  BY <1>1, <1>2 DEF Disk, Statuses
<1>4. PersistGraph(h, node) = Then(h, e) BY DEF PersistGraph
<1> HIDE DEF e
<1>5. Earned(P, e) = Earned(P, Now(h)) BY <1>3 DEF Earned
<1>6. \A p \in Phase : e.node[p] = "COMPLETED" => p \in Earned(P, e)
  BY <1>3, <1>5, DepsType, RefreshKeeps
<1>7. Backing(v, a, P, e) BY <1>3, <1>5, <1>6 DEF Backing
<1>8. Now(Then(h, e)) = e BY <1>1 DEF Then, Now
<1> QED BY <1>1, <1>3, <1>4, <1>7, <1>8, ThenBacked

\* So a phase may be marked, COMPLETED if it is verified.
LEMMA MarkBacked ==
  ASSUME NEW v \in BOOLEAN, NEW a \in BOOLEAN, NEW P, NEW cmd, NEW d, NEW h, History(cmd, h, d),
         NEW p \in PhaseId, NEW s \in Status, Backing(v, a, P, Now(h)),
         s = "COMPLETED" => p \in Earned(P, Now(h))
  PROVE  LET g == MarkPhase(h, p, s)
         IN  /\ Backing(v, a, P, Now(g))
             /\ Backed(v, a, P, h) => Backed(v, a, P, g)
<1> DEFINE node == SetStatus(Deps, Now(h).node, p, s)
<1>1. Now(h).node \in Statuses BY NowType DEF Disk, Statuses
<1>2. \A q \in Phase : Now(h).node[q] = "COMPLETED" => q \in Earned(P, Now(h)) BY DEF Backing
<1>3. node \in Statuses /\ \A q \in Phase : node[q] = "COMPLETED" => q \in Earned(P, Now(h))
  <2>1. CASE p \in Phase
    <3> DEFINE set == [Now(h).node EXCEPT ![p] = s]
    <3>1. set \in Statuses BY <1>1, <2>1 DEF Statuses
    <3>2. \A q \in Phase : set[q] = "COMPLETED" => q \in Earned(P, Now(h))
      BY <1>1, <1>2 DEF Statuses
    <3>3. node = Refresh(Deps, set) BY <1>1, <2>1, OnPhases DEF SetStatus
    <3> HIDE DEF set, node
    <3> QED BY <3>1, <3>2, <3>3, DepsType, RefreshType, RefreshKeeps
  <2>2. CASE p \notin Phase BY <2>2, <1>1, <1>2, OnPhases DEF SetStatus
  <2> QED BY <2>1, <2>2
<1>4. MarkPhase(h, p, s) = PersistGraph(h, node) BY DEF MarkPhase
<1> HIDE DEF node
<1> QED BY <1>3, <1>4, GraphBacked

\* A Git checkpoint writes nothing to .project/.
LEMMA CommitBacked ==
  ASSUME NEW v \in BOOLEAN, NEW a \in BOOLEAN, NEW P, NEW cmd, NEW d, NEW h, History(cmd, h, d),
         Backed(v, a, P, h)
  PROVE  LET g == Append(h, [disk |-> Now(h), commit |-> TRUE])
         IN  Backed(v, a, P, g) /\ Now(g) = Now(h)
<1> DEFINE w == [disk |-> Now(h), commit |-> TRUE]
<1>1. Now(h) \in Disk /\ h \in Seq(Write) BY NowType DEF History
<1>2. w \in Write /\ w.disk = Now(h) BY <1>1 DEF Write
<1>3. Backing(v, a, P, Now(h)) BY NowBacking
<1> HIDE DEF w
<1>4. Backed(v, a, P, Append(h, w)) BY <1>1, <1>2, <1>3, AppendBacked
<1>5. Now(Append(h, w)) = w.disk BY <1>1, <1>2 DEF Now
<1> QED BY <1>2, <1>4, <1>5 DEF w

-----------------------------------------------------------------------------
\* Handlers

\* A verified phase is completed (loop.go completeLocked).
LEMMA CompleteBacked ==
  ASSUME NEW v \in BOOLEAN, NEW a \in BOOLEAN, NEW P, NEW cmd, NEW d, NEW h, History(cmd, h, d),
         Backed(v, a, P, h), NEW phase \in PhaseId, phase \in Earned(P, Now(h))
  PROVE  LET g == CompletePhase(h, phase)
         IN  Backed(v, a, P, g) /\ Backing(TRUE, TRUE, P, Now(g))
<1> DEFINE committed == IF AutoCommit
                        THEN Append(h, [disk |-> Now(h), commit |-> TRUE]) ELSE h
           marked == MarkPhase(committed, phase, "COMPLETED")
<1>1. History(cmd, committed, d) /\ Backed(v, a, P, committed) /\ Now(committed) = Now(h)
  BY CommitHistory, CommitBacked
<1>2. CompletePhase(h, phase) = Save(marked, "COMPLETED", phase) BY DEF CompletePhase
<1> HIDE DEF committed
<1>3. Backing(v, a, P, Now(committed)) BY <1>1, NowBacking
<1>4. "COMPLETED" \in Status /\ "COMPLETED" \in CurrentState BY DEF Status, CurrentState
<1>5. /\ History(cmd, marked, d) /\ SameButGraph(Now(committed), Now(marked))
      /\ Backing(v, a, P, Now(marked)) /\ Backed(v, a, P, marked)
  BY <1>1, <1>3, <1>4, MarkHistory, MarkBacked
<1> HIDE DEF marked
<1>6. phase \in Earned(P, Now(marked)) BY <1>1, <1>5 DEF SameButGraph, Earned
<1>7. Backing(FALSE, FALSE, P, Now(marked)) BY <1>5, BackingWeaker
<1>8. Backed(v, a, P, Save(marked, "COMPLETED", phase))
  BY <1>4, <1>5, <1>6, <1>7, SaveBacked
<1>9. Backing(TRUE, TRUE, P, Now(Save(marked, "COMPLETED", phase)))
  BY <1>4, <1>5, <1>6, <1>7, SaveBacked
<1> QED BY <1>2, <1>8, <1>9

\* A human is asked about a phase (human.go requestHumanLocked).  The last write
\* may name another phase than the files before, and then meet more (v2, a2).
LEMMA RequestBacked ==
  ASSUME NEW v \in BOOLEAN, NEW a \in BOOLEAN, NEW P, NEW cmd, NEW d, NEW h, History(cmd, h, d),
         Backed(v, a, P, h), NEW phase \in PhaseId,
         NEW kind \in {"manual", "repair", "blocked", "runtime"},
         kind = "runtime" => "resume" \notin Commands,
         NEW v2 \in BOOLEAN, NEW a2 \in BOOLEAN, v => v2, a => a2,
         v2 /\ Now(h).ex.verified => phase \in Earned(P, Now(h)),
         a2 /\ Now(h).ex.packet => phase \in Earned(P, Now(h)) \cup {Now(h).ex.phase}
  PROVE  LET g == RequestHuman(h, phase, kind)
         IN  Backed(v, a, P, g) /\ Backing(v2, a2, P, Now(g))
<1> DEFINE e == [Now(h) EXCEPT !.req = [kind |-> kind, stamp |-> ~@.stamp]]
           asked == Then(h, e)
           marked == MarkPhase(asked, phase, "WAITING_FOR_HUMAN")
<1>1. Now(h) \in Disk /\ Sound(Now(h)) /\ h \in Seq(Write) BY NowType DEF History
<1>2. /\ e \in Disk /\ e.inc = Now(h).inc /\ e.ex = Now(h).ex /\ e.cur = Now(h).cur
      /\ e.phase = Now(h).phase /\ e.node = Now(h).node /\ e.ver = Now(h).ver
      /\ e.req.kind = kind
  BY <1>1 DEF Disk, Request
<1>3. RequestHuman(h, phase, kind) = Save(marked, "WAITING_FOR_HUMAN", phase)
  BY DEF RequestHuman
<1> HIDE DEF e
<1>4. Sound(e) BY <1>1, <1>2 DEF Sound
<1>5. Obeys(cmd, Now(h), e) BY <1>1, <1>2 DEF Obeys, Follows, Disk, Incident
<1>6. History(cmd, asked, d) /\ Now(asked) = e BY <1>2, <1>4, <1>5, ThenHistory
<1>7. Backing(v, a, P, Now(h)) BY NowBacking
<1>8. Backing(v, a, P, e) BY <1>2, <1>7 DEF Backing, Earned
<1>9. Backed(v, a, P, asked) BY <1>1, <1>2, <1>8, ThenBacked
<1> HIDE DEF asked
<1>10. /\ "WAITING_FOR_HUMAN" \in Status /\ "WAITING_FOR_HUMAN" \in CurrentState
  BY DEF Status, CurrentState
<1>11. /\ History(cmd, marked, d) /\ SameButGraph(e, Now(marked))
       /\ Backing(v, a, P, Now(marked)) /\ Backed(v, a, P, marked)
  BY <1>6, <1>8, <1>9, <1>10, MarkHistory, MarkBacked
<1> HIDE DEF marked
<1>12. Earned(P, Now(marked)) = Earned(P, Now(h)) /\ Now(marked).ex = Now(h).ex
  BY <1>2, <1>11 DEF SameButGraph, Earned
<1>13. Backing(FALSE, FALSE, P, Now(marked)) BY <1>11, BackingWeaker
<1>14. Backed(v, a, P, Save(marked, "WAITING_FOR_HUMAN", phase))
  BY <1>10, <1>11, <1>12, <1>13, SaveBacked
<1>15. Backing(v2, a2, P, Now(Save(marked, "WAITING_FOR_HUMAN", phase)))
  BY <1>10, <1>11, <1>12, <1>13, SaveBacked
<1> QED BY <1>3, <1>14, <1>15

\* What a command finishes of the state a crash left (recover.go): with AutoCommit
\* a state VERIFIED is completed only with a verified execution.
LEMMA RecoverBacked ==
  ASSUME AutoCommit, NEW s \in BOOLEAN, NEW P, NEW cmd, NEW d, NEW h, History(cmd, h, d),
         Backed(TRUE, FALSE, P, h), Backing(TRUE, s, P, Now(h))
  PROVE  LET g == Recover(h).writes
         IN  Backed(TRUE, FALSE, P, g) /\ Backing(TRUE, s, P, Now(g))
<1> DEFINE e == Now(h)
<1>1. e \in Disk /\ e.phase \in PhaseId BY NowType DEF Disk
<1>2. Backing(TRUE, FALSE, P, e) BY BackingWeaker
<1>3. \/ Recover(h).writes = h
      \/ Recover(h).writes = Save(h, "WORKER_CLAIMED_DONE", e.phase)
      \/ /\ e.ex.verified
         /\ Recover(h).writes = CompletePhase(h, e.phase)
  BY DEF Recover, Return, CommitGate
<1>4. /\ Backed(TRUE, FALSE, P, Save(h, "WORKER_CLAIMED_DONE", e.phase))
      /\ Backing(TRUE, s, P, Now(Save(h, "WORKER_CLAIMED_DONE", e.phase)))
  <2>1. "WORKER_CLAIMED_DONE" \in CurrentState BY DEF CurrentState
  <2> QED BY <1>2, <2>1, SaveSameBacked
<1>5. ASSUME e.ex.verified
      PROVE  /\ Backed(TRUE, FALSE, P, CompletePhase(h, e.phase))
             /\ Backing(TRUE, s, P, Now(CompletePhase(h, e.phase)))
  <2>1. e.phase \in Earned(P, Now(h)) BY <1>5 DEF Backing
  <2> DEFINE g == CompletePhase(h, e.phase)
  <2>2. Backed(TRUE, FALSE, P, g) /\ Backing(TRUE, TRUE, P, Now(g))
    BY <1>1, <2>1, CompleteBacked
  <2> HIDE DEF g
  <2>3. Backing(TRUE, s, P, Now(g)) BY <2>2, BackingWeaker
  <2> QED BY <2>2, <2>3 DEF g
<1> QED BY <1>3, <1>4, <1>5

\* A refusal writes an execution that is neither verified nor has a packet.
LEMMA RefusalBacked ==
  ASSUME NEW v \in BOOLEAN, NEW a \in BOOLEAN, NEW P, NEW cmd, NEW d, NEW h, History(cmd, h, d),
         Backed(v, a, P, h), NEW p \in PhaseId
  PROVE  LET g == RefusalFor(h, p)
         IN  Backed(v, a, P, g) /\ Backing(TRUE, TRUE, P, Now(g))
<1> DEFINE ex == [phase |-> p, packet |-> FALSE, invoked |-> FALSE,
                  verified |-> FALSE, attempt |-> 0]
<1>1. ex \in Execution /\ ~ex.verified /\ ~ex.packet BY DEF Execution
<1>2. RefusalFor(h, p) = WriteExecution(h, ex) BY DEF RefusalFor
<1> HIDE DEF ex
<1>3. Backing(FALSE, FALSE, P, Now(h)) BY NowBacking, BackingWeaker
<1>4. Backed(v, a, P, WriteExecution(h, ex)) BY <1>1, <1>3, ExecutionBacked
<1>5. Backing(TRUE, TRUE, P, Now(WriteExecution(h, ex))) BY <1>1, <1>3, ExecutionBacked
<1> QED BY <1>2, <1>4, <1>5

\* What prepareLocked returns: a packet it leaves is of the phase it names.
Prepares(s, P, r) ==
  /\ Backed(TRUE, FALSE, P, r.writes) /\ Backing(TRUE, s, P, Now(r.writes))
  /\ r.reply = "prepared" =>
       Now(r.writes).ex.packet /\ Now(r.writes).ex.phase = Now(r.writes).phase

\* prepareLocked completes what a repair marked RUNNING again, if it was verified,
\* and prepares another phase.
LEMMA PrepareLockedBacked ==
  ASSUME NEW s \in BOOLEAN, NEW P, NEW cmd, NEW d, NEW h, History(cmd, h, d),
         Backed(TRUE, FALSE, P, h), Backing(TRUE, s, P, Now(h)),
         NEW requested \in PhaseId, NEW checks \in BOOLEAN, NEW unclean \in BOOLEAN
  PROVE  Prepares(s, P, PrepareLocked(h, requested, checks, unclean))
<1> DEFINE e == Now(h)
           merged == MergeStatus(Deps, e.node)
           finished == e.cur = "COMPLETED" /\ e.phase \in DOMAIN merged
                       /\ merged[e.phase] = "RUNNING"
           start == IF finished THEN SetStatus(Deps, merged, e.phase, "COMPLETED") ELSE merged
           graph == PersistGraph(h, start)
           node == Now(graph).node
           resume == IF e.cur = "COMPLETED" THEN NoPhase ELSE e.phase
           choice == SelectRunnable(node, requested, resume)
           p == choice.phase
           marked == IF node[p] = "RUNNING" THEN graph ELSE MarkPhase(graph, p, "RUNNING")
           ex == [phase |-> p, packet |-> TRUE, invoked |-> FALSE,
                  verified |-> FALSE, attempt |-> 0]
           packet == WriteExecution(marked, ex)
           r == PrepareLocked(h, requested, checks, unclean)
<1>1. /\ e \in Disk /\ e.phase \in PhaseId /\ e.node \in Statuses
      /\ Backing(TRUE, s, P, e) /\ Backing(TRUE, FALSE, P, e)
  BY NowType, BackingWeaker DEF Disk, Statuses
<1>2. \/ r = Return(h, "waiting")
      \/ r = Return(RefusalFor(h, NoPhase), "refused")
      \/ AllCompleted(node) /\ r = Return(Save(graph, "COMPLETED", e.phase), "project completed")
      \/ r = Return(RefusalFor(graph, requested), "refused")
      \/ r = Return(RefusalFor(marked, p), "refused")
      \/ p # NoPhase /\ r = Return(Save(packet, "PREPARED", p), "prepared")
  BY DEF PrepareLocked
<1>3. History(cmd, h, d) OBVIOUS
<1> HIDE DEF e, r
<1>4. merged \in Statuses /\ \A q \in Phase : merged[q] = "COMPLETED" => e.node[q] = "COMPLETED"
  <2> DEFINE all == [q \in Phase |-> IF q \in Phase THEN e.node[q] ELSE "PENDING"]
  <2>1. all \in Statuses /\ all = e.node BY <1>1 DEF Statuses
  <2>2. merged = Refresh(Deps, all) BY <1>1, OnPhases, DepsType DEF MergeStatus
  <2> HIDE DEF all
  <2> QED BY <2>1, <2>2, DepsType, RefreshType, RefreshKeeps
<1> HIDE DEF merged
<1>5. /\ start \in Statuses
      /\ \A q \in Phase : start[q] = "COMPLETED" => q \in Earned(P, e)
  <2>1. \A q \in Phase : merged[q] = "COMPLETED" => q \in Earned(P, e)
    BY <1>1, <1>4 DEF Backing
  <2>2. CASE finished
    <3> DEFINE set == [merged EXCEPT ![e.phase] = "COMPLETED"]
    <3>1. e.phase \in Phase /\ e.cur = "COMPLETED" BY <2>2, <1>4, OnPhases
    <3>2. e.phase \in Earned(P, e) BY <1>1, <3>1 DEF Backing
    <3>3. set \in Statuses /\ \A q \in Phase : set[q] = "COMPLETED" => q \in Earned(P, e)
      BY <1>4, <2>1, <3>1, <3>2 DEF Statuses, Status
    <3>4. start = Refresh(Deps, set) BY <2>2, <3>1, <1>4, OnPhases DEF SetStatus
    <3> HIDE DEF set, start
    <3> QED BY <3>3, <3>4, DepsType, RefreshType, RefreshKeeps
  <2>3. CASE ~finished BY <2>1, <2>3, <1>4
  <2> QED BY <2>2, <2>3
<1> HIDE DEF start
<1>6. /\ History(cmd, graph, d) /\ node \in Statuses
      /\ Now(graph) = [e EXCEPT !.node = Refresh(Deps, start)]
  BY <1>5, GraphHistory DEF e
<1>7. /\ Backed(TRUE, FALSE, P, graph) /\ Backing(TRUE, FALSE, P, Now(graph))
      /\ Backing(TRUE, s, P, Now(graph))
  BY <1>1, <1>5, GraphBacked DEF e
<1> HIDE DEF graph
<1>8. Now(graph).phase = e.phase /\ Now(graph).node = node /\ Now(graph) \in Disk
  BY <1>1, <1>6, NowType DEF Disk
<1>9. resume \in PhaseId BY <1>1 DEF PhaseId
<1>10. p \in PhaseId BY <1>6, <1>9, SelectType
<1> HIDE DEF resume, node, p
<1>11. /\ History(cmd, marked, d)
       /\ Backed(TRUE, FALSE, P, marked) /\ Backing(TRUE, FALSE, P, Now(marked))
  BY <1>6, <1>7, <1>10, MarkHistory, MarkBacked DEF Status
<1> HIDE DEF marked
<1>12. Backing(FALSE, FALSE, P, Now(marked)) BY <1>11, BackingWeaker
<1>13. ex \in Execution /\ ~ex.verified /\ ex.packet /\ ex.phase = p /\ ex.attempt = 0
  BY <1>10 DEF Execution
<1> HIDE DEF ex
<1>14. p # NoPhase => History(cmd, packet, d)
  <2>1. Now(marked).inc.attempts \in Nat BY <1>11, NowType DEF Disk, Incident
  <2> QED BY <1>11, <1>13, <2>1, ExecutionHistory, ProjectAssumption
<1>15. /\ Backed(TRUE, FALSE, P, packet) /\ Backing(TRUE, FALSE, P, Now(packet))
       /\ Now(packet).ex = ex
  <2>1. Backed(TRUE, FALSE, P, packet) BY <1>11, <1>12, <1>13, ExecutionBacked
  <2>2. Backing(TRUE, FALSE, P, Now(packet)) BY <1>11, <1>12, <1>13, ExecutionBacked
  <2>3. Now(packet).ex = ex BY <1>11, <1>13, ExecutionWritten
  <2> QED BY <2>1, <2>2, <2>3
<1> HIDE DEF packet
<1>17. ASSUME p # NoPhase
       PROVE  /\ Backed(TRUE, FALSE, P, Save(packet, "PREPARED", p))
              /\ Backing(TRUE, s, P, Now(Save(packet, "PREPARED", p)))
              /\ Now(Save(packet, "PREPARED", p)).ex.packet
              /\ Now(Save(packet, "PREPARED", p)).ex.phase = Now(Save(packet, "PREPARED", p)).phase
  <2>1. "PREPARED" \in CurrentState /\ "PREPARED" \in Calm BY AreCalm DEF CurrentState
  <2>2. Backing(FALSE, FALSE, P, Now(packet)) /\ History(cmd, packet, d)
    BY <1>14, <1>15, <1>17, BackingWeaker
  <2>3. /\ SameFiles(Now(packet), Now(Save(packet, "PREPARED", p)))
        /\ Now(Save(packet, "PREPARED", p)).phase = p
    BY <1>10, <2>1, <2>2, CalmSave
  <2>4. Backed(TRUE, FALSE, P, Save(packet, "PREPARED", p))
    BY <1>10, <1>13, <1>15, <2>1, <2>2, SaveBacked
  <2>5. Backing(TRUE, s, P, Now(Save(packet, "PREPARED", p)))
    BY <1>10, <1>13, <1>15, <2>1, <2>2, SaveBacked
  <2> QED BY <1>13, <1>15, <2>3, <2>4, <2>5 DEF SameFiles
<1>18. ASSUME AllCompleted(node)
       PROVE  /\ Backed(TRUE, FALSE, P, Save(graph, "COMPLETED", e.phase))
              /\ Backing(TRUE, s, P, Now(Save(graph, "COMPLETED", e.phase)))
  <2>1. e.phase \in Phase => Now(graph).node[e.phase] = "COMPLETED"
    BY <1>6, <1>8, <1>18, OnPhases DEF AllCompleted
  <2>2. Now(graph).phase \in Earned(P, Now(graph))
    BY <1>1, <1>7, <1>8, <2>1 DEF Backing, Earned, PhaseId
  <2>3. "COMPLETED" \in CurrentState BY DEF CurrentState
  <2> QED BY <1>6, <1>7, <1>8, <2>2, <2>3, SaveSameBacked
<1>19. /\ Backed(TRUE, FALSE, P, RefusalFor(h, NoPhase)) /\ Backing(TRUE, s, P, Now(RefusalFor(h, NoPhase)))
       /\ Backed(TRUE, FALSE, P, RefusalFor(graph, requested))
       /\ Backing(TRUE, s, P, Now(RefusalFor(graph, requested)))
       /\ Backed(TRUE, FALSE, P, RefusalFor(marked, p)) /\ Backing(TRUE, s, P, Now(RefusalFor(marked, p)))
  <2>1. ASSUME NEW g, History(cmd, g, d), Backed(TRUE, FALSE, P, g), NEW q \in PhaseId
        PROVE  Backed(TRUE, FALSE, P, RefusalFor(g, q)) /\ Backing(TRUE, s, P, Now(RefusalFor(g, q)))
    <3>1. Backed(TRUE, FALSE, P, RefusalFor(g, q)) /\ Backing(TRUE, TRUE, P, Now(RefusalFor(g, q)))
      BY <2>1, RefusalBacked
    <3> QED BY <3>1, BackingWeaker
  <2>2. NoPhase \in PhaseId BY DEF PhaseId
  <2> QED BY <1>3, <1>6, <1>7, <1>10, <1>11, <2>1, <2>2
<1>20. ASSUME NEW g, NEW x, r = Return(g, x) PROVE r.writes = g /\ r.reply = x
  BY <1>20 DEF Return
<1>21. Backed(TRUE, FALSE, P, r.writes) /\ Backing(TRUE, s, P, Now(r.writes))
  <2> DEFINE Good(g) == Backed(TRUE, FALSE, P, g) /\ Backing(TRUE, s, P, Now(g))
  <2>1. /\ Good(h) /\ Good(RefusalFor(h, NoPhase)) /\ Good(RefusalFor(graph, requested))
        /\ Good(RefusalFor(marked, p))
        /\ AllCompleted(node) => Good(Save(graph, "COMPLETED", e.phase))
        /\ p # NoPhase => Good(Save(packet, "PREPARED", p))
    BY <1>17, <1>18, <1>19 DEF e
  <2> HIDE DEF Good
  <2>2. Good(r.writes) BY <1>2, <1>20, <2>1
  <2> QED BY <2>2 DEF Good
<1>22. ASSUME r.reply = "prepared"
       PROVE  p # NoPhase /\ r = Return(Save(packet, "PREPARED", p), "prepared")
  <2>1. \A g, x : Return(g, x).reply = x BY DEF Return
  <2> QED BY <1>2, <1>22, <2>1
<1>23. r.reply = "prepared" => p # NoPhase /\ r.writes = Save(packet, "PREPARED", p)
  BY <1>20, <1>22
<1>24. Prepares(s, P, r) BY <1>17, <1>21, <1>23 DEF Prepares
<1> QED BY <1>24 DEF r

\* Fewer demands on a handler's files.
LEMMA BackedWeaker ==
  ASSUME NEW v \in BOOLEAN, NEW a \in BOOLEAN, NEW P, NEW h, Backed(v, a, P, h),
         NEW v2 \in BOOLEAN, NEW a2 \in BOOLEAN, v2 => v, a2 => a
  PROVE  Backed(v2, a2, P, h)
<1>1. \A i \in 1..Len(h) : Backing(v2, a2, P, h[i].disk) BY BackingWeaker DEF Backed
<1> QED BY <1>1 DEF Backed

\* A handler that ends; one that prepares may leave a packet unsettled on its way.
LEMMA ReturnBacks ==
  ASSUME NEW s \in BOOLEAN, NEW P, NEW cmd, NEW h, NEW reply,
         Backed(s, s, P, h) \/ (Preparing(cmd) /\ Backed(TRUE, FALSE, P, h)),
         Backing(TRUE, s, P, Now(h))
  PROVE  Backs(s, P, cmd, Return(h, reply))
<1> DEFINE a == s /\ ~Preparing(cmd)
<1>1. a \in BOOLEAN /\ (a => s) /\ (Preparing(cmd) => (a => FALSE)) OBVIOUS
<1> HIDE DEF a
<1>2. Backed(s, a, P, h) BY <1>1, BackedWeaker
<1>3. Return(h, reply).writes = h /\ Return(h, reply).wait = "none" BY DEF Return
<1> HIDE DEF Return
<1> QED BY <1>2, <1>3 DEF Backs, a

\* prepare, with its recovery.
LEMMA PrepareBacks ==
  ASSUME AutoCommit, NEW s \in BOOLEAN, NEW P, NEW d \in Disk, Sound(d), Backing(TRUE, s, P, d),
         NEW requested \in PhaseId, NEW checks \in BOOLEAN, NEW unclean \in BOOLEAN
  PROVE  Backs(s, P, "prepare", Prepare(d, requested, checks, unclean))
<1> DEFINE rec == Recover(Start(d))
           h == rec.writes
           prep == PrepareLocked(h, requested, checks, unclean)
<1>1. Backing(TRUE, FALSE, P, d) BY BackingWeaker
<1>2. /\ History("prepare", Start(d), d) /\ Now(Start(d)) = d
      /\ Backed(TRUE, FALSE, P, Start(d))
  BY <1>1, StartHistory, StartBacked
<1>3. Backed(TRUE, FALSE, P, h) /\ Backing(TRUE, s, P, Now(h))
  BY <1>2, RecoverBacked
<1>4. History("prepare", h, d) BY <1>2, RecoverHandled DEF Handled
<1>5. rec = Return(h, rec.reply) BY DEF Recover, Return
<1> HIDE DEF rec, h
<1>6. Backed(TRUE, FALSE, P, prep.writes) /\ Backing(TRUE, s, P, Now(prep.writes))
  <2> HIDE DEF prep
  <2>1. Prepares(s, P, prep) BY <1>3, <1>4, PrepareLockedBacked DEF prep
  <2> QED BY <2>1 DEF Prepares
<1>7. prep = Return(prep.writes, prep.reply) BY DEF PrepareLocked, Return
<1> HIDE DEF prep
<1>8. Prepare(d, requested, checks, unclean) \in {rec, prep} BY DEF Prepare, rec, h, prep
<1>9. Preparing("prepare") BY DEF Preparing
<1>10. Backs(s, P, "prepare", rec) BY <1>3, <1>5, <1>9, ReturnBacks
<1>11. Backs(s, P, "prepare", prep) BY <1>6, <1>7, <1>9, ReturnBacks
<1> QED BY <1>8, <1>10, <1>11

\* run up to its worker: state.json names the phase of the packet, the phase it
\* named before, or none.
LEMMA RunBacks ==
  ASSUME AutoCommit, NEW s \in BOOLEAN, NEW P, NEW d \in Disk, Sound(d), Backing(TRUE, s, P, d),
         NEW requested \in PhaseId, NEW checks \in BOOLEAN, NEW unclean \in BOOLEAN,
         NEW ready \in BOOLEAN
  PROVE  Backs(s, P, "run", RunProduct(d, requested, checks, unclean, ready))
<1> DEFINE rec == Recover(Start(d))
           h == rec.writes
           prep == PrepareLocked(h, requested, checks, unclean)
           p == IF prep.reply = "waiting" THEN NoPhase ELSE Now(prep.writes).phase
           running == Save(prep.writes, "WORKER_RUNNING", p)
           wait == IF prep.reply = "prepared" THEN "worker" ELSE "bare worker"
           r == RunProduct(d, requested, checks, unclean, ready)
<1>1. Backing(TRUE, FALSE, P, d) BY BackingWeaker
<1>2. /\ History("run", Start(d), d) /\ Now(Start(d)) = d
      /\ Backed(TRUE, FALSE, P, Start(d))
  BY <1>1, StartHistory, StartBacked
<1>3. Backed(TRUE, FALSE, P, h) /\ Backing(TRUE, s, P, Now(h))
  BY <1>2, RecoverBacked
<1>4. History("run", h, d) BY <1>2, RecoverHandled DEF Handled
<1>5. rec = Return(h, rec.reply) BY DEF Recover, Return
<1>6. \/ r = rec \/ r = Return(h, "ok") \/ r = Return(prep.writes, "stop")
      \/ r = Return(RefusalFor(prep.writes, p), "stop") \/ r = AwaitFor(running, wait)
  BY DEF RunProduct
<1> HIDE DEF rec, h, r
<1>7. Backed(TRUE, FALSE, P, prep.writes) /\ Backing(TRUE, s, P, Now(prep.writes))
  <2> HIDE DEF prep
  <2>1. Prepares(s, P, prep) BY <1>3, <1>4, PrepareLockedBacked DEF prep
  <2> QED BY <2>1 DEF Prepares
<1>8. History("run", prep.writes, d) BY <1>4, PrepareLockedHandled DEF Handled
<1> HIDE DEF prep
<1>9. p \in PhaseId BY <1>8, NowType DEF Disk, PhaseId
<1>10. p \in {NoPhase, Now(prep.writes).phase} OBVIOUS
<1> HIDE DEF p
<1>11. Backed(TRUE, FALSE, P, running) /\ Backing(TRUE, s, P, Now(running))
  <2>1. "WORKER_RUNNING" \in CurrentState BY DEF CurrentState
  <2>2. Backing(FALSE, FALSE, P, Now(prep.writes)) BY <1>7, BackingWeaker
  <2>3. /\ Now(prep.writes).ex.verified => p \in Earned(P, Now(prep.writes))
        /\ s /\ Now(prep.writes).ex.packet =>
             p \in Earned(P, Now(prep.writes)) \cup {Now(prep.writes).ex.phase}
    BY <1>7, <1>10 DEF Backing, Earned
  <2>4. Backed(TRUE, FALSE, P, running) BY <1>7, <1>8, <1>9, <2>1, <2>2, <2>3, SaveBacked
  <2>5. Backing(TRUE, s, P, Now(running)) BY <1>8, <1>9, <2>1, <2>2, <2>3, SaveBacked
  <2> QED BY <2>4, <2>5
<1> HIDE DEF running
<1>12. Preparing("run") BY DEF Preparing
<1>13. Backs(s, P, "run", AwaitFor(running, wait))
  <2>1. Backs(s, P, "run", Return(running, "")) BY <1>11, <1>12, ReturnBacks
  <2>2. /\ Return(running, "").writes = running /\ AwaitFor(running, wait).writes = running
        /\ AwaitFor(running, wait).wait # "tests"
    BY DEF Return, AwaitFor
  <2> QED BY <2>1, <2>2 DEF Backs
<1>14. Backs(s, P, "run", Return(RefusalFor(prep.writes, p), "stop"))
  <2>1. /\ Backed(TRUE, FALSE, P, RefusalFor(prep.writes, p))
        /\ Backing(TRUE, TRUE, P, Now(RefusalFor(prep.writes, p)))
    BY <1>7, <1>8, <1>9, RefusalBacked
  <2>2. Backing(TRUE, s, P, Now(RefusalFor(prep.writes, p))) BY <2>1, BackingWeaker
  <2> QED BY <1>12, <2>1, <2>2, ReturnBacks
<1>15. Backs(s, P, "run", rec) BY <1>3, <1>5, <1>12, ReturnBacks
<1>16. Backs(s, P, "run", Return(h, "ok")) BY <1>3, <1>12, ReturnBacks
<1>17. Backs(s, P, "run", Return(prep.writes, "stop")) BY <1>7, <1>12, ReturnBacks
<1> QED BY <1>6, <1>13, <1>14, <1>15, <1>16, <1>17 DEF r

\* What runProduct writes once its worker is back is of the phase of state.json.
LEMMA AfterWorkerBacks ==
  ASSUME NEW s \in BOOLEAN, NEW P, NEW cmd, NEW d \in Disk, Sound(d), Backing(TRUE, s, P, d),
         NEW packet \in BOOLEAN, NEW invoked \in BOOLEAN, packet => d.phase \in Phase
  PROVE  Backs(s, P, cmd, AfterWorker(d, packet, invoked))
<1> DEFINE ex == [phase |-> d.phase, packet |-> packet, invoked |-> invoked,
                  verified |-> FALSE, attempt |-> 0]
           written == WriteExecution(Start(d), ex)
           cur == IF invoked THEN "WORKER_CLAIMED_DONE" ELSE "WORKER_REFUSED"
           reply == IF invoked THEN "ok" ELSE "stop"
<1>1. d.phase \in PhaseId /\ d.inc.attempts \in Nat BY DEF Disk, Incident
<1>2. AfterWorker(d, packet, invoked) = Return(Save(written, cur, d.phase), reply)
  BY DEF AfterWorker
<1>3. ex \in Execution /\ ~ex.verified /\ ex.phase = d.phase /\ ex.attempt = 0
      /\ (ex.packet => ex.phase # NoPhase)
  BY <1>1, PhaseAssumption DEF Execution, Phase, NoPhase
<1>4. Backing(s, s, P, d) /\ Backing(FALSE, FALSE, P, d) BY BackingWeaker
<1>5. History(cmd, Start(d), d) /\ Now(Start(d)) = d /\ Backed(s, s, P, Start(d))
  BY <1>4, StartHistory, StartBacked
<1> HIDE DEF ex
<1>6. Now(written).phase = d.phase BY <1>3, <1>5, ExecutionWritten DEF SameButExecution
<1>7. History(cmd, written, d) BY <1>1, <1>3, <1>5, ExecutionHistory, ProjectAssumption
<1>8. Backed(s, s, P, written) BY <1>3, <1>4, <1>5, ExecutionBacked
<1>9. Backing(TRUE, s, P, Now(written)) BY <1>3, <1>4, <1>5, ExecutionBacked
<1> HIDE DEF written
<1>10. cur \in CurrentState /\ cur # "COMPLETED" BY DEF CurrentState
<1> HIDE DEF cur
<1>11. Backed(s, s, P, Save(written, cur, Now(written).phase))
  BY <1>7, <1>8, <1>10, NowBacking, SaveSameBacked
<1>12. Backing(TRUE, s, P, Now(Save(written, cur, Now(written).phase)))
  BY <1>7, <1>9, <1>10, SaveSameBacked
<1> QED BY <1>2, <1>6, <1>11, <1>12, ReturnBacks

\* A verdict and what follows from it.  VERIFIED only from tests, which need a
\* packet; then the phase it completes is the one it has just been recorded for.
LEMMA PersistVerifyBacks ==
  ASSUME NEW s \in BOOLEAN, NEW P, NEW cmd, NEW d \in Disk, Sound(d), Backing(TRUE, s, P, d),
         Recorded(P, d), NEW status \in Verdict, status = "VERIFIED" => d.ex.packet
  PROVE  Backs(s, P, cmd, PersistVerify(Start(d), status, d.ex.phase))
<1> DEFINE of == d.ex.phase
           phase == IF of = NoPhase THEN d.phase ELSE of
           ok == status = "VERIFIED"
           e == [d EXCEPT !.ver = [status |-> status, phase |-> of]]
           verdict == Then(Start(d), e)
           ex == [d.ex EXCEPT !.verified = ok]
           recorded == WriteExecution(verdict, ex)
           inc == FinishAttempt(d.inc, d.ex.attempt, ok)
           counted == IF d.ex.attempt = 0 THEN recorded ELSE SaveIncident(recorded, inc)
           r == PersistVerify(Start(d), status, of)
<1>1. /\ d.phase \in PhaseId /\ d.ex \in Execution /\ d.inc \in Incident /\ of \in PhaseId
      /\ d.ex.attempt \in Nat /\ d.inc.attempts \in Nat /\ phase \in PhaseId
  BY DEF Disk, Incident, Execution
<1>2. /\ ok => r = Return(CompletePhase(counted, phase), status)
      /\ ~ok => \/ r = Return(RequestHuman(counted, phase, "manual"), status)
                \/ r = Return(Save(counted, "VERIFICATION_INCOMPLETE", phase), status)
                \/ r = Return(Save(counted, "VERIFICATION_FAILED", phase), status)
  <2>1. Now(Start(d)) = d BY DEF Start, Now
  <2>2. Now(verdict) = e /\ e.ex = d.ex /\ e.inc = d.inc /\ e.phase = d.phase
    BY DEF Then, Now, Start, Disk
  <2> QED BY <2>1, <2>2 DEF PersistVerify
<1> HIDE DEF r
<1>3. /\ e \in Disk /\ e.cur = d.cur /\ e.phase = d.phase /\ e.node = d.node /\ e.ex = d.ex
      /\ e.inc = d.inc /\ e.req = d.req /\ e.ver.status = status /\ e.ver.phase = of
  BY <1>1 DEF Disk
<1> HIDE DEF e
<1>4. Sound(e) /\ Obeys(cmd, d, e) BY <1>1, <1>3 DEF Obeys, Sound, Follows
<1>5. Earned(P, d) \subseteq Earned(P, e) /\ (ok => of \in Earned(P, e))
  BY <1>3 DEF Earned, Recorded
<1>6. Backing(TRUE, s, P, e) /\ Backing(s, s, P, e) /\ Backing(FALSE, FALSE, P, e)
  <2>1. Backing(TRUE, s, P, e) BY <1>3, <1>5 DEF Backing
  <2> QED BY <2>1, BackingWeaker
<1>7. Backing(s, s, P, d) BY BackingWeaker
<1>8. /\ History(cmd, Start(d), d) /\ Now(Start(d)) = d /\ Backed(s, s, P, Start(d))
      /\ Start(d) \in Seq(Write)
  BY <1>7, StartHistory, StartBacked DEF History
<1>9. History(cmd, verdict, d) /\ Now(verdict) = e /\ Backed(s, s, P, verdict)
  BY <1>3, <1>4, <1>6, <1>8, ThenHistory, ThenBacked
<1> HIDE DEF verdict
<1>10. /\ ex \in Execution /\ ex.phase = of /\ ex.packet = d.ex.packet /\ ex.verified = ok
       /\ ex.attempt = d.ex.attempt
  BY <1>1 DEF Execution
<1> HIDE DEF ex
<1>11. /\ s /\ ex.verified => e.phase \in Earned(P, e)
       /\ s /\ ex.packet => e.phase \in Earned(P, e) \cup {ex.phase}
  <2>1. s /\ d.ex.packet => d.phase \in Earned(P, d) \cup {d.ex.phase} BY DEF Backing
  <2> QED BY <1>3, <1>5, <1>10, <2>1
<1>12. Backed(s, s, P, recorded) /\ Backing(s, s, P, Now(recorded))
  BY <1>6, <1>9, <1>10, <1>11, ExecutionBacked
<1>13. /\ Now(recorded).ex = ex /\ Now(recorded).ver = e.ver /\ Now(recorded).inc = d.inc
  BY <1>3, <1>9, <1>10, ExecutionWritten DEF SameButExecution
<1>14. History(cmd, recorded, d)
  <2>1. /\ ex.attempt <= MaxAttempts /\ (~e.inc.rt => ex.attempt <= e.inc.attempts)
        /\ (ex.packet => ex.phase # NoPhase)
    BY <1>3, <1>10 DEF Sound
  <2> QED BY <1>9, <1>10, <2>1, ExecutionHistory
<1> HIDE DEF recorded
<1>15. /\ History(cmd, counted, d) /\ Backed(s, s, P, counted)
       /\ Now(counted).ex = ex /\ Now(counted).ver = e.ver
  <2>1. ok \in BOOLEAN OBVIOUS
  <2> HIDE DEF ok
  <2>2. inc \in Incident
    BY <1>1, <2>1, FinishedAttempt DEF Sound
  <2>3. History(cmd, SaveIncident(recorded, inc), d)
    BY <1>1, <1>13, <1>14, <2>1, FinishHistory DEF Sound
  <2> HIDE DEF inc
  <2>4. Backed(s, s, P, SaveIncident(recorded, inc)) BY <1>12, <1>14, <2>2, IncidentBacked
  <2>5. Now(SaveIncident(recorded, inc)).ex = ex /\ Now(SaveIncident(recorded, inc)).ver = e.ver
    BY <1>13, <1>14, <2>2, IncidentWritten DEF SameButIncident
  <2> QED BY <1>12, <1>13, <1>14, <2>3, <2>4, <2>5
<1> HIDE DEF counted
<1>16. Earned(P, Now(counted)) = Earned(P, e) BY <1>15 DEF Earned
<1>17. s /\ Now(counted).ex.packet => phase \in Earned(P, Now(counted)) \cup {Now(counted).ex.phase}
  BY <1>10, <1>15 DEF Sound
<1>18. CASE ok
  <2>1. of # NoPhase BY <1>18 DEF Sound
  <2>2. phase \in Earned(P, Now(counted)) BY <1>5, <1>16, <1>18, <2>1
  <2> DEFINE g == CompletePhase(counted, phase)
  <2>3. Backed(s, s, P, g) /\ Backing(TRUE, TRUE, P, Now(g))
    BY <1>1, <1>15, <2>2, CompleteBacked
  <2> HIDE DEF g
  <2>4. Backing(TRUE, s, P, Now(g)) BY <2>3, BackingWeaker
  <2>5. Backs(s, P, cmd, Return(g, status)) BY <2>3, <2>4, ReturnBacks
  <2> QED BY <1>2, <1>18, <2>5 DEF g, r
<1>19. CASE ~ok
  <2> HIDE DEF phase, ok
  <2>1. ~Now(counted).ex.verified BY <1>10, <1>15, <1>19
  <2>2. Backs(s, P, cmd, Return(RequestHuman(counted, phase, "manual"), status))
    <3> DEFINE g == RequestHuman(counted, phase, "manual")
    <3>1. Backed(s, s, P, g) /\ Backing(TRUE, s, P, Now(g))
      BY <1>1, <1>15, <1>17, <2>1, RequestBacked
    <3> HIDE DEF g
    <3>2. Backs(s, P, cmd, Return(g, status)) BY <3>1, ReturnBacks
    <3> QED BY <3>2 DEF g
  <2>3. ASSUME NEW cur \in {"VERIFICATION_INCOMPLETE", "VERIFICATION_FAILED"}
        PROVE  Backs(s, P, cmd, Return(Save(counted, cur, phase), status))
    <3> DEFINE g == Save(counted, cur, phase)
    <3>1. cur \in CurrentState /\ cur # "COMPLETED" BY DEF CurrentState
    <3>2. Backing(FALSE, FALSE, P, Now(counted)) BY <1>15, NowBacking, BackingWeaker
    <3>3. Backed(s, s, P, g) BY <1>1, <1>15, <1>17, <2>1, <3>1, <3>2, SaveBacked
    <3>4. Backing(TRUE, s, P, Now(g)) BY <1>1, <1>15, <1>17, <2>1, <3>1, <3>2, SaveBacked
    <3> HIDE DEF g
    <3>5. Backs(s, P, cmd, Return(g, status)) BY <3>3, <3>4, ReturnBacks
    <3> QED BY <3>5 DEF g
  <2> QED BY <1>2, <1>19, <2>2, <2>3 DEF r
<1> QED BY <1>18, <1>19

\* verify, up to its tests; without a packet there are none, and no VERIFIED.
LEMMA VerifyBacks ==
  ASSUME NEW s \in BOOLEAN, NEW P, NEW cmd, NEW d \in Disk, Sound(d), Backing(TRUE, s, P, d),
         Recorded(P, d)
  PROVE  Backs(s, P, cmd, Verify(d))
<1> DEFINE g == Save(Start(d), "VERIFYING", d.phase)
<1>1. Backing(s, s, P, d) BY BackingWeaker
<1>2. History(cmd, Start(d), d) /\ Now(Start(d)) = d /\ Backed(s, s, P, Start(d))
  BY <1>1, StartHistory, StartBacked
<1>3. "VERIFYING" \in CurrentState /\ "VERIFYING" \in Calm /\ d.phase \in PhaseId
  BY AreCalm DEF CurrentState, Disk
<1>4. SameFiles(d, Now(g))
  <2>1. SameFiles(Now(Start(d)), Now(g)) BY <1>2, <1>3, CalmSave
  <2> QED BY <1>2, <2>1
<1>5. Backed(s, s, P, Save(Start(d), "VERIFYING", Now(Start(d)).phase))
  BY <1>1, <1>2, <1>3, SaveSameBacked
<1>6. Backing(TRUE, s, P, Now(Save(Start(d), "VERIFYING", Now(Start(d)).phase)))
  BY <1>2, <1>3, SaveSameBacked
<1>7. Backed(s, s, P, g) /\ Backing(TRUE, s, P, Now(g)) BY <1>2, <1>5, <1>6
<1>8. Verify(d) = IF d.ex.packet THEN AwaitFor(g, "tests")
                  ELSE PersistVerify(Start(d), "INCOMPLETE", d.ex.phase)
  BY DEF Verify
<1> HIDE DEF g
<1>9. CASE d.ex.packet
  <2>1. Backs(s, P, cmd, Return(g, "")) BY <1>7, ReturnBacks
  <2>2. Return(g, "").writes = g /\ AwaitFor(g, "tests").writes = g BY DEF Return, AwaitFor
  <2>3. Now(g).ex.packet BY <1>4, <1>9 DEF SameFiles
  <2>4. Backs(s, P, cmd, AwaitFor(g, "tests")) BY <2>1, <2>2, <2>3 DEF Backs
  <2> QED BY <1>8, <1>9, <2>4
<1>10. CASE ~d.ex.packet
  <2>1. "INCOMPLETE" \in Verdict BY DEF Verdict
  <2>2. Backs(s, P, cmd, PersistVerify(Start(d), "INCOMPLETE", d.ex.phase))
    BY <2>1, PersistVerifyBacks
  <2> QED BY <1>8, <1>10, <2>2
<1> QED BY <1>9, <1>10

\* verify, from its tests on.
LEMMA AfterTestsBacks ==
  ASSUME NEW s \in BOOLEAN, NEW P, NEW cmd, NEW d \in Disk, Sound(d), Backing(TRUE, s, P, d),
         Recorded(P, d), d.ex.packet, NEW tests, NEW confirmed
  PROVE  Backs(s, P, cmd, AfterTests(d, tests, confirmed))
<1>1. Judge(d.ex.phase, tests, confirmed) \in Verdict BY DEF Judge, Verdict
<1> QED BY <1>1, PersistVerifyBacks DEF AfterTests

\* A handler that saves state.json once, for the same phase.
LEMMA SaveOnceBacks ==
  ASSUME NEW s \in BOOLEAN, NEW P, NEW cmd, NEW d, NEW h, History(cmd, h, d), Backed(s, s, P, h),
         Backing(TRUE, s, P, Now(h)), NEW cur \in CurrentState \ {"COMPLETED"}, NEW reply
  PROVE  /\ Backs(s, P, cmd, Return(Save(h, cur, Now(h).phase), reply))
         /\ Backed(s, s, P, Save(h, cur, Now(h).phase))
         /\ Backing(TRUE, s, P, Now(Save(h, cur, Now(h).phase)))
<1> DEFINE g == Save(h, cur, Now(h).phase)
<1>1. Backing(s, s, P, Now(h)) BY BackingWeaker
<1>2. cur \in CurrentState /\ cur # "COMPLETED" OBVIOUS
<1>3. Backed(s, s, P, g) BY <1>1, <1>2, SaveSameBacked
<1>4. Backing(TRUE, s, P, Now(g)) BY <1>2, SaveSameBacked
<1> HIDE DEF g
<1>5. Backs(s, P, cmd, Return(g, reply)) BY <1>3, <1>4, ReturnBacks
<1> QED BY <1>3, <1>4, <1>5 DEF g

\* review saves state.json twice (review.go reviewLocked).
LEMMA ReviewBacks ==
  ASSUME NEW s \in BOOLEAN, NEW P, NEW cmd, NEW d \in Disk, Sound(d), Backing(TRUE, s, P, d)
  PROVE  /\ Backs(s, P, cmd, Review(Start(d)))
         /\ Backed(s, s, P, Review(Start(d)).writes)
         /\ Backing(TRUE, s, P, Now(Review(Start(d)).writes))
         /\ SameFiles(d, Now(Review(Start(d)).writes))
         /\ Now(Review(Start(d)).writes).phase = d.phase
<1> DEFINE h == Start(d)
           after == IF RecommendHuman(d) THEN "WAITING_FOR_HUMAN"
                    ELSE IF d.ver.status = "VERIFIED" THEN "VERIFIED"
                    ELSE "VERIFICATION_FAILED"
           reviewing == Save(h, "REVIEWING", d.phase)
           reviewed == Save(reviewing, after, d.phase)
           reply == IF RecommendRepair(d) THEN "repair" ELSE "human"
<1>1. Backing(s, s, P, d) BY BackingWeaker
<1>2. History(cmd, h, d) /\ Now(h) = d /\ Backed(s, s, P, h)
  BY <1>1, StartHistory, StartBacked
<1>3. Review(h) = Return(reviewed, reply) BY <1>2 DEF Review
<1> HIDE DEF h
<1>4. /\ "REVIEWING" \in CurrentState \ {"COMPLETED"} /\ "REVIEWING" \in Calm
      /\ after \in CurrentState \ {"COMPLETED"} /\ after \in Calm
      /\ d.phase \in PhaseId
  BY AreCalm DEF CurrentState, Disk
<1> HIDE DEF after, reply
<1>5. Backed(s, s, P, reviewing) /\ Backing(TRUE, s, P, Now(reviewing))
  <2>1. /\ Backed(s, s, P, Save(h, "REVIEWING", Now(h).phase))
        /\ Backing(TRUE, s, P, Now(Save(h, "REVIEWING", Now(h).phase)))
    BY <1>2, <1>4, SaveOnceBacks
  <2> QED BY <1>2, <2>1
<1>6. History(cmd, reviewing, d) /\ SameFiles(d, Now(reviewing)) /\ Now(reviewing).phase = d.phase
  <2>1. History(cmd, reviewing, d) /\ SameFiles(Now(h), Now(reviewing)) /\ Now(reviewing).phase = d.phase
    BY <1>2, <1>4, CalmSave
  <2> QED BY <1>2, <2>1
<1> HIDE DEF reviewing
<1>7. /\ Backs(s, P, cmd, Return(reviewed, reply))
      /\ Backed(s, s, P, reviewed) /\ Backing(TRUE, s, P, Now(reviewed))
  <2>1. reviewed = Save(reviewing, after, Now(reviewing).phase) BY <1>6
  <2> HIDE DEF reviewed
  <2> QED BY <1>4, <1>5, <1>6, <2>1, SaveOnceBacks
<1>8. SameFiles(d, Now(reviewed)) /\ Now(reviewed).phase = d.phase
  <2>1. SameFiles(Now(reviewing), Now(reviewed)) /\ Now(reviewed).phase = d.phase
    BY <1>4, <1>6, CalmSave
  <2> QED BY <1>6, <2>1 DEF SameFiles
<1>9. Review(h).writes = reviewed BY <1>3 DEF Return
<1> QED BY <1>3, <1>7, <1>8, <1>9 DEF h

\* repair keeps the phase and writes no verdict (repair.go).
LEMMA PrepareRepairBacks ==
  ASSUME NEW s \in BOOLEAN, NEW P, NEW cmd, NEW d \in Disk, Sound(d), Backing(TRUE, s, P, d)
  PROVE  Backs(s, P, cmd, PrepareRepair(d))
<1> DEFINE rev == Review(Start(d))
           inc == IF d.inc.phase # NoPhase THEN d.inc
                  ELSE [phase |-> d.ex.phase, attempts |-> 0, exhausted |-> FALSE, rt |-> FALSE]
           begun == [inc EXCEPT !.attempts = @ + 1]
           spent == [d.inc EXCEPT !.exhausted = TRUE]
           ex == [d.ex EXCEPT !.attempt = begun.attempts]
           counted == SaveIncident(rev.writes, begun)
           given == WriteExecution(counted, ex)
           r == PrepareRepair(d)
<1>1. /\ d.phase \in PhaseId /\ d.ex \in Execution /\ d.inc \in Incident
      /\ d.ex.attempt \in Nat /\ d.inc.attempts \in Nat /\ MaxAttempts \in Nat
      /\ d.ex.phase \in PhaseId
  BY ProjectAssumption DEF Disk, Incident, Execution
<1>2. Backing(s, s, P, d) BY BackingWeaker
<1>3. History(cmd, Start(d), d) /\ Now(Start(d)) = d /\ Backed(s, s, P, Start(d))
  BY <1>2, StartHistory, StartBacked
<1>4. /\ Backs(s, P, cmd, rev)
      /\ Backed(s, s, P, rev.writes) /\ Backing(TRUE, s, P, Now(rev.writes))
      /\ SameFiles(d, Now(rev.writes)) /\ Now(rev.writes).phase = d.phase
  BY ReviewBacks
<1>5. /\ Handled(cmd, rev, d)
      /\ rev.reply = "repair" => d.ver.status = "FAILED" /\ d.inc.attempts < MaxAttempts
  BY ReviewHandled
<1>6. \/ r = Return(RequestHuman(SaveIncident(Start(d), spent), d.phase, "repair"), "error")
      \/ r = Return(rev.writes, "error")
      \/ /\ rev.reply = "repair" /\ d.ex.packet
         /\ r = Return(Save(given, "REPAIRING", d.phase), "ok")
  BY DEF PrepareRepair
<1> HIDE DEF rev, r
<1>7. Backs(s, P, cmd, Return(rev.writes, "error")) BY <1>4, ReturnBacks
<1>8. Backs(s, P, cmd, Return(RequestHuman(SaveIncident(Start(d), spent), d.phase, "repair"), "error"))
  <2>1. /\ spent \in Incident /\ spent.attempts = d.inc.attempts
        /\ spent.phase = d.inc.phase /\ spent.rt = d.inc.rt
    BY <1>1 DEF Incident
  <2> HIDE DEF spent
  <2> DEFINE h == SaveIncident(Start(d), spent)
             g == RequestHuman(h, d.phase, "repair")
  <2>2. History(cmd, h, d)
    BY <1>1, <1>3, <2>1, IncidentHistory DEF Sound
  <2>3. Backed(s, s, P, h) BY <1>2, <1>3, <2>1, IncidentBacked
  <2>4. Now(h).ex = d.ex /\ Now(h).ver = d.ver
    BY <1>3, <2>1, IncidentWritten DEF SameButIncident
  <2> HIDE DEF h
  <2>5. /\ Now(h).ex.verified => d.phase \in Earned(P, Now(h))
        /\ s /\ Now(h).ex.packet => d.phase \in Earned(P, Now(h)) \cup {Now(h).ex.phase}
    BY <2>4 DEF Backing, Earned
  <2>6. Backed(s, s, P, g) /\ Backing(TRUE, s, P, Now(g))
    BY <1>1, <2>2, <2>3, <2>5, RequestBacked
  <2> HIDE DEF g
  <2>7. Backs(s, P, cmd, Return(g, "error")) BY <2>6, ReturnBacks
  <2> QED BY <2>7 DEF g, h
<1>9. ASSUME rev.reply = "repair", d.ex.packet
      PROVE  Backs(s, P, cmd, Return(Save(given, "REPAIRING", d.phase), "ok"))
  <2>1. d.ex.phase # NoPhase BY <1>9 DEF Sound
  <2>2. /\ inc \in Incident /\ inc.attempts = d.inc.attempts /\ inc.phase # NoPhase
        /\ inc.rt = d.inc.rt
    BY <1>1, <2>1 DEF Sound, Incident
  <2> HIDE DEF inc
  <2>3. /\ begun \in Incident /\ begun.attempts = d.inc.attempts + 1
        /\ begun.phase # NoPhase /\ begun.rt = d.inc.rt /\ begun.attempts \in Nat
    BY <1>1, <2>2 DEF Incident
  <2> HIDE DEF begun
  <2>4. /\ ex \in Execution /\ ex.attempt = begun.attempts
        /\ ex.phase = d.ex.phase /\ ex.packet = d.ex.packet /\ ex.verified = d.ex.verified
    BY <1>1, <2>3 DEF Execution
  <2> HIDE DEF ex
  <2>5. History(cmd, rev.writes, d) BY <1>5 DEF Handled
  <2>6. /\ Now(rev.writes).inc = d.inc /\ Now(rev.writes).ver = d.ver
        /\ Now(rev.writes).ex = d.ex
    BY <1>4 DEF SameFiles
  <2>7. d.inc.attempts < MaxAttempts BY <1>5, <1>9
  <2>8. History(cmd, counted, d)
    BY <1>1, <2>3, <2>5, <2>6, <2>7, IncidentHistory
  <2>9. Backing(s, s, P, Now(rev.writes)) BY <1>4, BackingWeaker
  <2>10. Backed(s, s, P, counted) BY <1>4, <2>3, <2>5, <2>9, IncidentBacked
  <2>11. Backing(TRUE, s, P, Now(counted)) BY <1>4, <2>3, <2>5, IncidentBacked
  <2>12. /\ Now(counted).ex = d.ex /\ Now(counted).phase = d.phase
         /\ Now(counted).inc = begun
    BY <1>4, <2>3, <2>5, <2>6, IncidentWritten DEF SameButIncident
  <2> HIDE DEF counted
  <2>13. /\ Now(counted).ex.verified => d.phase \in Earned(P, Now(counted))
         /\ s /\ Now(counted).ex.packet => d.phase \in Earned(P, Now(counted)) \cup {d.ex.phase}
    BY <2>11, <2>12 DEF Backing
  <2>14. Backing(FALSE, FALSE, P, Now(counted)) BY <2>11, BackingWeaker
  <2>15. Backed(s, s, P, given) BY <2>4, <2>8, <2>10, <2>12, <2>13, <2>14, ExecutionBacked
  <2>16. Backing(TRUE, s, P, Now(given)) BY <2>4, <2>8, <2>12, <2>13, <2>14, ExecutionBacked
  <2>17. History(cmd, given, d)
    <3>1. ex.attempt <= Now(counted).inc.attempts /\ ex.attempt <= MaxAttempts
      BY <1>1, <2>3, <2>4, <2>7, <2>12
    <3>2. ex.packet => ex.phase # NoPhase BY <2>1, <2>4
    <3> QED BY <2>4, <2>8, <3>1, <3>2, ExecutionHistory
  <2>18. Now(given).phase = d.phase
    BY <2>4, <2>8, <2>12, ExecutionWritten DEF SameButExecution
  <2> HIDE DEF given
  <2>19. "REPAIRING" \in CurrentState \ {"COMPLETED"} BY DEF CurrentState
  <2>20. Backs(s, P, cmd, Return(Save(given, "REPAIRING", Now(given).phase), "ok"))
    BY <2>15, <2>16, <2>17, <2>19, SaveOnceBacks
  <2> QED BY <2>18, <2>20
<1> QED BY <1>6, <1>7, <1>8, <1>9 DEF r

\* resume takes nothing for completed where no request is about the runtime.
LEMMA ResumeBacks ==
  ASSUME NEW s \in BOOLEAN, NEW P, NEW cmd, NEW d \in Disk, Sound(d), Backing(TRUE, s, P, d),
         "resume" \in Commands, NEW answer
  PROVE  Backs(s, P, cmd, Resume(d, answer))
<1> DEFINE reply == IF ManualConfirmed(d, answer) THEN "verify" ELSE "ok"
<1>1. d.req.kind # "runtime" BY DEF Backing
<1>2. \/ Resume(d, answer) = Return(Start(d), "error")
      \/ Resume(d, answer) = Return(Save(Start(d), "VERIFICATION_FAILED", d.phase), reply)
  BY <1>1 DEF Resume
<1> HIDE DEF reply
<1>3. Backing(s, s, P, d) BY BackingWeaker
<1>4. History(cmd, Start(d), d) /\ Now(Start(d)) = d /\ Backed(s, s, P, Start(d))
  BY <1>3, StartHistory, StartBacked
<1>5. Backs(s, P, cmd, Return(Start(d), "error")) BY <1>4, ReturnBacks
<1>6. "VERIFICATION_FAILED" \in CurrentState \ {"COMPLETED"} BY DEF CurrentState
<1>7. Backs(s, P, cmd, Return(Save(Start(d), "VERIFICATION_FAILED", Now(Start(d)).phase), reply))
  BY <1>4, <1>6, SaveOnceBacks
<1> QED BY <1>2, <1>4, <1>5, <1>7

-----------------------------------------------------------------------------
\* The command at work, and the invariant

\* What the command at work has still to write, the files as they are and those
\* at its end; tests are waited for with a packet.
BackedJob(s, P, d, j) ==
  /\ Backed(s, s /\ ~Preparing(j.cmd), P, j.todo)
  /\ Backing(s, s /\ ~Preparing(j.cmd), P, d)
  /\ Backing(TRUE, s, P, Ends(j.todo, d))
  /\ j.wait = "tests" => Ends(j.todo, d).ex.packet

\* No crash has cut off a command that prepares, or none can.
Strict == crashes = 0 \/ {"prepare", "run"} \cap Crashes = {}

VInv == BackedJob(Strict, passed, disk, job) /\ Recorded(passed, disk) /\ committer.pc = "idle"

\* What the invariant needs: completion asks for a verified execution; the user
\* makes no commit of a verified phase, which saves the state it has loaded before; and
\* no second crash follows one of a command that prepares.
Guarded ==
  /\ AutoCommit /\ "commit" \notin Commands
  /\ {"prepare", "run"} \cap Crashes = {} \/ MaxCrashes \in {0, 1}

\* No command at work.
LEMMA NoJobBacked ==
  ASSUME NEW s \in BOOLEAN, NEW P, NEW d, Backing(TRUE, s, P, d)
  PROVE  BackedJob(s, P, d, NoJob)
<1>1. NoJob.todo = << >> /\ NoJob.wait = "none" /\ NoJob.cmd = "none" BY DEF NoJob
<1>2. ~Preparing("none") BY DEF Preparing
<1>3. Backing(s, s, P, d) BY BackingWeaker
<1>4. Backed(s, s, P, << >>) BY DEF Backed
<1> QED BY <1>1, <1>2, <1>3, <1>4 DEF BackedJob, Ends

\* And of nothing at work: the files are settled.
LEMMA Settled ==
  ASSUME NEW s, NEW P, NEW d, NEW j, BackedJob(s, P, d, j), j.todo = << >>
  PROVE  Backing(TRUE, s, P, d) /\ (j.wait = "tests" => d.ex.packet)
BY DEF BackedJob, Ends

\* A handler begins, or goes on, at the files as they are.
LEMMA TailBacked ==
  ASSUME NEW s \in BOOLEAN, NEW P, NEW cmd, NEW d, NEW r, Handled(cmd, r, d),
         Backs(s, P, cmd, r), NEW j, j.cmd = cmd, j.todo = Tail(r.writes), j.wait = r.wait
  PROVE  BackedJob(s, P, d, j)
<1> DEFINE h == r.writes
           todo == Tail(h)
           a == s /\ ~Preparing(cmd)
<1>1. /\ h \in Seq(Write) /\ h # << >> /\ h[1].disk = d
      /\ Backed(s, a, P, h) /\ Backing(TRUE, s, P, Now(h))
      /\ r.wait = "tests" => Now(h).ex.packet
      /\ j.cmd = cmd /\ j.todo = todo /\ j.wait = r.wait
  BY DEF Handled, History, Backs
<1> HIDE DEF h, a
<1>2. /\ todo \in Seq(Write) /\ Len(todo) = Len(h) - 1 /\ Len(h) \in Nat /\ Len(h) >= 1
      /\ \A i \in 1..Len(todo) : todo[i] = h[i + 1]
  BY <1>1
<1> HIDE DEF todo
<1>3. Backed(s, a, P, todo)
  <2>1. ASSUME NEW i \in 1..Len(todo) PROVE Backing(s, a, P, todo[i].disk)
    <3>1. i + 1 \in 1..Len(h) BY <1>2
    <3> QED BY <1>1, <1>2, <3>1 DEF Backed
  <2> QED BY <2>1 DEF Backed
<1>4. Backing(s, a, P, d)
  <2>1. 1 \in 1..Len(h) BY <1>2
  <2> QED BY <1>1, <2>1 DEF Backed
<1>5. Ends(todo, d) = Now(h)
  <2>1. CASE todo = << >>
    <3>1. Len(h) = 1 BY <1>2, <2>1
    <3> QED BY <1>1, <2>1, <3>1 DEF Ends, Now
  <2>2. CASE todo # << >>
    <3>1. Len(todo) \in 1..Len(todo) /\ Len(todo) + 1 = Len(h) BY <1>2, <2>2
    <3>2. todo[Len(todo)] = h[Len(h)] BY <1>2, <3>1
    <3> QED BY <2>2, <3>2 DEF Ends, Now
  <2> QED BY <2>1, <2>2
<1> QED BY <1>1, <1>3, <1>4, <1>5 DEF BackedJob, a

\* One write further, and its verdict recorded.
LEMMA NextBacked ==
  ASSUME NEW s \in BOOLEAN, NEW P, NEW P2, P \subseteq P2, NEW d, NEW j \in Job,
         j.todo # << >>, BackedJob(s, P, d, j), NEW k, k = [j EXCEPT !.todo = Tail(@)]
  PROVE  BackedJob(s, P2, Head(j.todo).disk, k)
<1> DEFINE todo == j.todo
           e == Head(todo).disk
           rest == Tail(todo)
           a == s /\ ~Preparing(j.cmd)
<1>1. /\ todo \in Seq(Write) /\ Backed(s, a, P, todo) /\ Backing(TRUE, s, P, Ends(todo, d))
      /\ j.wait = "tests" => Ends(todo, d).ex.packet
      /\ k.todo = rest /\ k.cmd = j.cmd /\ k.wait = j.wait /\ todo # << >>
  BY DEF BackedJob, Job
<1>2. a \in BOOLEAN OBVIOUS
<1> HIDE DEF a, todo
<1>3. /\ Len(todo) \in Nat /\ Len(todo) >= 1 /\ Head(todo) = todo[1]
      /\ rest \in Seq(Write) /\ Len(rest) = Len(todo) - 1
      /\ \A i \in 1..Len(rest) : rest[i] = todo[i + 1]
  BY <1>1
<1>4. e = todo[1].disk BY <1>3
<1> HIDE DEF e, rest
<1>5. ASSUME NEW i \in 1..Len(todo) PROVE Backing(s, a, P2, todo[i].disk)
  <2>1. Backing(s, a, P, todo[i].disk) BY <1>1, <1>5 DEF Backed
  <2> QED BY <1>2, <2>1, BackingWeaker
<1>6. Backing(s, a, P2, e)
  <2>1. 1 \in 1..Len(todo) BY <1>3
  <2> QED BY <1>4, <1>5, <2>1
<1>7. Backed(s, a, P2, rest)
  <2>1. ASSUME NEW i \in 1..Len(rest) PROVE Backing(s, a, P2, rest[i].disk)
    <3>1. i + 1 \in 1..Len(todo) BY <1>3
    <3> QED BY <1>3, <1>5, <3>1
  <2> QED BY <2>1 DEF Backed
<1>8. Ends(rest, e) = Ends(todo, d)
  <2>1. CASE rest = << >>
    <3>1. Len(todo) = 1 BY <1>3, <2>1
    <3> QED BY <1>1, <1>4, <2>1, <3>1 DEF Ends
  <2>2. CASE rest # << >>
    <3>1. Len(rest) \in 1..Len(rest) /\ Len(rest) + 1 = Len(todo) BY <1>3, <2>2
    <3>2. rest[Len(rest)] = todo[Len(todo)] BY <1>3, <3>1
    <3> QED BY <1>1, <2>2, <3>2 DEF Ends
  <2> QED BY <2>1, <2>2
<1>9. Backing(TRUE, s, P2, Ends(todo, d)) BY <1>1, BackingWeaker
<1> QED BY <1>1, <1>6, <1>7, <1>8, <1>9 DEF BackedJob, a, e, todo

\* A command begins.
LEMMA BeginBacked ==
  ASSUME NEW s \in BOOLEAN, NEW P, NEW cmd, NEW by, NEW r, Handled(cmd, r, disk),
         Backs(s, P, cmd, r), Begin(cmd, by, r)
  PROVE  BackedJob(s, P, disk, job')
<1>1. job'.cmd = cmd /\ job'.todo = Tail(r.writes) /\ job'.wait = r.wait BY DEF Begin
<1> QED BY <1>1, TailBacked

\* A command goes on.
LEMMA ContinueBacked ==
  ASSUME NEW s \in BOOLEAN, NEW P, NEW r, job \in Job, Handled(job.cmd, r, disk),
         Backs(s, P, job.cmd, r), Continue(r)
  PROVE  BackedJob(s, P, disk, job')
<1>1. job'.cmd = job.cmd /\ job'.todo = Tail(r.writes) /\ job'.wait = r.wait
  BY DEF Continue, Job
<1> QED BY <1>1, TailBacked

\* A new project.
LEMMA VInvInit == Init => VInv
<1> SUFFICES ASSUME Init PROVE VInv OBVIOUS
<1>1. disk = EmptyDisk /\ job = NoJob /\ passed = {} /\ committer.pc = "idle" BY DEF Init
<1>2. /\ \A p \in Phase : EmptyDisk.node[p] = "PENDING"
      /\ EmptyDisk.cur = "" /\ EmptyDisk.phase = NoPhase /\ EmptyDisk.req.kind = "none"
      /\ EmptyDisk.ver.status = "INCOMPLETE"
  BY DEF EmptyDisk
<1>3. Backing(TRUE, Strict, passed, disk) BY <1>1, <1>2 DEF Backing, Earned
<1>4. Strict \in BOOLEAN BY DEF Strict
<1>5. Recorded(passed, disk) BY <1>1, <1>2 DEF Recorded
<1> QED BY <1>1, <1>3, <1>4, <1>5, NoJobBacked DEF VInv

\* A write.
LEMMA WriteBacked ==
  ASSUME IInv, VInv, WriteNext
  PROVE  VInv'
<1> DEFINE w == Head(job.todo)
<1>1. job \in Job /\ BackedJob(Strict, passed, disk, job) /\ Strict \in BOOLEAN
  BY DEF IInv, WorkOK, VInv, Strict
<1>2. /\ job.todo # << >> /\ disk' = w.disk /\ job' = [job EXCEPT !.todo = Tail(@)]
      /\ passed' = IF w.disk.ver.status = "VERIFIED"
                   THEN passed \cup ({w.disk.ver.phase} \ {NoPhase}) ELSE passed
      /\ UNCHANGED <<committer, crashes>>
  BY DEF WriteNext
<1>3. passed \subseteq passed' /\ Recorded(passed', disk') BY <1>2 DEF Recorded
<1>4. BackedJob(Strict, passed', disk', job')
  <2>1. \A k : k = [job EXCEPT !.todo = Tail(@)] => BackedJob(Strict, passed', w.disk, k)
    BY <1>1, <1>2, <1>3, NextBacked
  <2> QED BY <1>2, <2>1
<1>5. Strict' = Strict /\ committer' = committer BY <1>2 DEF Strict
<1> QED BY <1>3, <1>4, <1>5 DEF VInv

\* The worker and the tests.
LEMMA WorkBacked ==
  ASSUME IInv, VInv, \/ \E invoked \in Health, edits \in BOOLEAN : Work(invoked, edits)
                     \/ \E outcome \in Outcomes : RunTests(outcome)
  PROVE  VInv'
<1>1. /\ job \in Job /\ disk \in Disk /\ Sound(disk) /\ WorkOK(disk, job)
      /\ BackedJob(Strict, passed, disk, job) /\ Recorded(passed, disk)
  BY DEF IInv, WorkOK, VInv
<1>2. Strict \in BOOLEAN BY DEF Strict
<1>3. job.todo = << >> BY DEF Work, RunTests
<1>4. Backing(TRUE, Strict, passed, disk) /\ (job.wait = "tests" => disk.ex.packet)
  BY <1>1, <1>3, Settled
<1>5. BackedJob(Strict, passed, disk, job')
  <2>1. ASSUME NEW invoked \in Health, NEW edits \in BOOLEAN, Work(invoked, edits)
        PROVE  BackedJob(Strict, passed, disk, job')
    <3>1. invoked \in BOOLEAN /\ (job.wait = "worker") \in BOOLEAN BY EngineAssumption
    <3>2. job.wait = "worker" => disk.phase \in Phase BY <1>1, <1>3 DEF WorkOK, Ends
    <3> DEFINE r == AfterWorker(disk, job.wait = "worker", invoked)
    <3>3. Handled(job.cmd, r, disk) BY <1>1, <3>1, <3>2, AfterWorkerHandled
    <3>4. Backs(Strict, passed, job.cmd, r)
      BY <1>1, <1>2, <1>4, <3>1, <3>2, AfterWorkerBacks
    <3>5. Continue(r) BY <2>1 DEF Work
    <3> HIDE DEF r
    <3> QED BY <1>1, <1>2, <3>3, <3>4, <3>5, ContinueBacked
  <2>2. ASSUME NEW outcome \in Outcomes, RunTests(outcome)
        PROVE  BackedJob(Strict, passed, disk, job')
    <3> DEFINE r == AfterTests(disk, outcome, ManualConfirmed(disk, resp))
    <3>1. Continue(r) /\ disk.ex.packet BY <1>4, <2>2 DEF RunTests
    <3>2. Handled(job.cmd, r, disk) BY <1>1, AfterTestsHandled
    <3>3. Backs(Strict, passed, job.cmd, r) BY <1>1, <1>2, <1>4, <3>1, AfterTestsBacks
    <3> HIDE DEF r
    <3> QED BY <1>1, <1>2, <3>1, <3>2, <3>3, ContinueBacked
  <2> QED BY <2>1, <2>2
<1>6. UNCHANGED <<disk, committer, crashes, passed>> BY DEF Work, RunTests
<1> QED BY <1>1, <1>5, <1>6 DEF VInv, Strict

\* What users start.
LEMMA StartedBacked ==
  ASSUME Guarded, IInv, VInv, UserStarts \/ ResumeVerify
  PROVE  VInv'
<1>1. /\ disk \in Disk /\ Sound(disk) /\ dirty \in BOOLEAN /\ AutoCommit
      /\ BackedJob(Strict, passed, disk, job) /\ Recorded(passed, disk)
  BY DEF IInv, WorkOK, OthersOK, VInv, Guarded
<1>2. Strict \in BOOLEAN BY DEF Strict
<1>3. job = NoJob => Backing(TRUE, Strict, passed, disk)
  BY <1>1, Settled DEF NoJob
<1>4. ASSUME NEW cmd, NEW r, UserCommand(cmd, r), Handled(cmd, r, disk),
             Backs(Strict, passed, cmd, r)
      PROVE  VInv'
  <2>1. Begin(cmd, "user", r) /\ UNCHANGED <<disk, committer, crashes, passed>>
    BY <1>4 DEF UserCommand
  <2>2. BackedJob(Strict, passed, disk, job') BY <1>2, <1>4, <2>1, BeginBacked
  <2> QED BY <1>1, <2>1, <2>2 DEF VInv, Strict
<1>5. ASSUME NEW cmd, NEW r, UserCommand(cmd, r)
      PROVE  Backing(TRUE, Strict, passed, disk) /\ cmd \in Commands
  BY <1>3, <1>5 DEF UserCommand, Begin
<1>6. CASE RunCommand
  <2>1. PICK requested \in PhaseId, checks \in Health, ready \in Health :
          UserCommand("run", RunProduct(disk, requested, checks, dirty, ready))
    BY <1>6 DEF RunCommand
  <2>2. checks \in BOOLEAN /\ ready \in BOOLEAN BY EngineAssumption
  <2> DEFINE r == RunProduct(disk, requested, checks, dirty, ready)
  <2>3. Handled("run", r, disk) BY <1>1, <2>2, RunHandled
  <2>4. Backing(TRUE, Strict, passed, disk) BY <1>5, <2>1
  <2>5. Backs(Strict, passed, "run", r) BY <1>1, <1>2, <2>2, <2>4, RunBacks
  <2> HIDE DEF r
  <2> QED BY <1>4, <2>1, <2>3, <2>5 DEF r
<1>7. CASE PrepareCommand
  <2>1. PICK requested \in PhaseId, checks \in Health :
          UserCommand("prepare", Prepare(disk, requested, checks, dirty))
    BY <1>7 DEF PrepareCommand
  <2>2. checks \in BOOLEAN BY EngineAssumption
  <2> DEFINE r == Prepare(disk, requested, checks, dirty)
  <2>3. Handled("prepare", r, disk) BY <1>1, <2>2, PrepareHandled
  <2>4. Backing(TRUE, Strict, passed, disk) BY <1>5, <2>1
  <2>5. Backs(Strict, passed, "prepare", r) BY <1>1, <1>2, <2>2, <2>4, PrepareBacks
  <2> HIDE DEF r
  <2> QED BY <1>4, <2>1, <2>3, <2>5 DEF r
<1>8. CASE VerifyCommand
  <2>1. UserCommand("verify", Verify(disk)) BY <1>8 DEF VerifyCommand
  <2>2. Backing(TRUE, Strict, passed, disk) BY <1>5, <2>1
  <2>3. Handled("verify", Verify(disk), disk) BY <1>1, VerifyHandled
  <2>4. Backs(Strict, passed, "verify", Verify(disk)) BY <1>1, <1>2, <2>2, VerifyBacks
  <2> QED BY <1>4, <2>1, <2>3, <2>4
<1>9. CASE ReviewCommand
  <2>1. UserCommand("review", Review(Start(disk))) BY <1>9 DEF ReviewCommand
  <2>2. Backing(TRUE, Strict, passed, disk) BY <1>5, <2>1
  <2>3. Handled("review", Review(Start(disk)), disk) BY <1>1, ReviewHandled
  <2>4. Backs(Strict, passed, "review", Review(Start(disk))) BY <1>1, <1>2, <2>2, ReviewBacks
  <2> QED BY <1>4, <2>1, <2>3, <2>4
<1>10. CASE RepairCommand
  <2>1. UserCommand("repair", PrepareRepair(disk)) BY <1>10 DEF RepairCommand
  <2>2. Backing(TRUE, Strict, passed, disk) BY <1>5, <2>1
  <2>3. Handled("repair", PrepareRepair(disk), disk) BY <1>1, PrepareRepairHandled
  <2>4. Backs(Strict, passed, "repair", PrepareRepair(disk)) BY <1>1, <1>2, <2>2, PrepareRepairBacks
  <2> QED BY <1>4, <2>1, <2>3, <2>4
<1>11. CASE ResumeCommand
  <2>1. UserCommand("resume", Resume(disk, resp)) BY <1>11 DEF ResumeCommand
  <2>2. Backing(TRUE, Strict, passed, disk) /\ "resume" \in Commands BY <1>5, <2>1
  <2>3. Handled("resume", Resume(disk, resp), disk) BY <1>1, ResumeHandled
  <2>4. Backs(Strict, passed, "resume", Resume(disk, resp)) BY <1>1, <1>2, <2>2, ResumeBacks
  <2> QED BY <1>4, <2>1, <2>3, <2>4
<1>12. CASE ResumeVerify
  <2>1. UNCHANGED <<disk, committer, crashes, passed>> BY <1>12 DEF ResumeVerify
  <2>2. BackedJob(Strict, passed, disk, job')
    <3>1. CASE job = NoJob
      <4>1. Begin("verify", "user", Verify(disk)) BY <1>12, <3>1 DEF ResumeVerify
      <4>2. Handled("verify", Verify(disk), disk) BY <1>1, VerifyHandled
      <4>3. Backs(Strict, passed, "verify", Verify(disk)) BY <1>1, <1>2, <1>3, <3>1, VerifyBacks
      <4> QED BY <1>2, <4>1, <4>2, <4>3, BeginBacked
    <3>2. CASE job # NoJob
      <4>1. job' = job BY <1>12, <3>2 DEF ResumeVerify
      <4> QED BY <1>1, <4>1
    <3> QED BY <3>1, <3>2
  <2> QED BY <1>1, <2>1, <2>2 DEF VInv, Strict
<1> QED BY <1>6, <1>7, <1>8, <1>9, <1>10, <1>11, <1>12 DEF UserStarts

\* A crash.  The one that may come after a command that prepares is the last.
LEMMA CrashBacked ==
  ASSUME Guarded, IInv, VInv, Crash
  PROVE  VInv'
<1>1. /\ BackedJob(Strict, passed, disk, job) /\ Recorded(passed, disk) /\ committer.pc = "idle"
      /\ crashes \in 0..MaxCrashes /\ MaxCrashes \in Nat
  BY EngineAssumption DEF IInv, VInv, OthersOK
<1>2. /\ job.cmd \in Crashes /\ crashes < MaxCrashes /\ crashes' = crashes + 1 /\ job' = NoJob
      /\ UNCHANGED <<disk, committer, passed>>
  BY DEF Crash
<1>3. Strict
  <2>1. CASE {"prepare", "run"} \cap Crashes = {} BY <2>1 DEF Strict
  <2>2. CASE MaxCrashes \in {0, 1}
    <3>1. crashes = 0 BY <1>1, <1>2, <2>2
    <3> QED BY <3>1 DEF Strict
  <2> QED BY <2>1, <2>2 DEF Guarded
<1>4. Strict' => ~Preparing(job.cmd)
  <2>1. crashes' # 0 BY <1>1, <1>2
  <2> QED BY <1>2, <2>1 DEF Strict, Preparing
<1>5. Strict' \in BOOLEAN BY DEF Strict
<1>6. Backing(TRUE, ~Preparing(job.cmd), passed, disk) BY <1>1, <1>3 DEF BackedJob, Backing
<1>7. Backing(TRUE, Strict', passed, disk) BY <1>4, <1>6 DEF Backing
<1>8. BackedJob(Strict', passed, disk, NoJob) BY <1>5, <1>7, NoJobBacked
<1> QED BY <1>1, <1>2, <1>8 DEF VInv

\* Every step.
LEMMA VStep ==
  ASSUME Guarded, IInv, VInv, [Next]_vars
  PROVE  VInv'
<1>1. CASE WriteNext BY <1>1, WriteBacked
<1>2. CASE \/ \E invoked \in Health, edits \in BOOLEAN : Work(invoked, edits)
           \/ \E outcome \in Outcomes : RunTests(outcome)
  BY <1>2, WorkBacked
<1>3. CASE UserStarts \/ ResumeVerify BY <1>3, StartedBacked
<1>4. CASE Crash BY <1>4, CrashBacked
<1>5. CASE Unlock
  <2>1. job.todo = << >> /\ job' = NoJob /\ UNCHANGED <<disk, committer, crashes, passed>>
    BY <1>5 DEF Unlock
  <2>2. Strict \in BOOLEAN BY DEF Strict
  <2>3. Backing(TRUE, Strict, passed, disk) BY <2>1, Settled DEF VInv
  <2>4. BackedJob(Strict, passed, disk, NoJob) BY <2>2, <2>3, NoJobBacked
  <2> QED BY <2>1, <2>4 DEF VInv, Strict
<1>6. CASE Committing
  BY <1>6 DEF Committing, CommitCheck, CommitTree, CommitLoad, CommitSave, VInv, Guarded
<1>7. CASE Feedback \/ Edit \/ Clean \/ UNCHANGED vars
  <2>1. UNCHANGED <<disk, job, committer, crashes, passed>>
    BY <1>7 DEF Feedback, Edit, Clean, vars
  <2> QED BY <2>1 DEF VInv, Strict
<1> QED BY <1>1, <1>2, <1>3, <1>4, <1>5, <1>6, <1>7 DEF Next, Working

\* It says that what is COMPLETED was verified.
LEMMA VInvVerified == IInv /\ VInv => CompletedWasVerified
<1> SUFFICES ASSUME IInv, VInv, NEW p \in Phase, disk.node[p] = "COMPLETED"
             PROVE  p \in passed
  BY DEF CompletedWasVerified
<1>1. p \in Earned(passed, disk) BY DEF VInv, BackedJob, Backing
<1>2. p # NoPhase BY PhaseAssumption DEF Phase, NoPhase
<1> QED BY <1>1, <1>2 DEF Earned, VInv, Recorded

\* No phase is COMPLETED in graph.json without a verdict VERIFIED recorded for it,
\* whatever prepare, run, verify, review, repair, resume and feedback do in any
\* order: wherever verify, review, repair and resume crash, any number of times,
\* and wherever prepare or run crash, once (loop.go completeLocked, recover.go).
THEOREM CompletedIsVerified ==
  ASSUME Guarded
  PROVE  Spec => []CompletedWasVerified
<1>1. IInv /\ VInv /\ [Next]_vars => VInv' BY VStep
<1>2. IInv /\ VInv => CompletedWasVerified BY VInvVerified
<1> QED BY <1>1, <1>2, VInvInit, Invariance, PTL DEF Spec

-----------------------------------------------------------------------------
\* What a commit may contain

\* Where the worker or the session may edit, and where completion is due, the
\* files say no more, and no less, than that.
Plain(d) ==
  /\ d.ex.verified => d.ex.packet
  /\ d.cur = "PREPARED" => ~d.ex.verified
  /\ d.cur = "REPAIRING" => d.ver.status # "VERIFIED"
  /\ d.cur = "VERIFIED" => ~d.ex.verified \/ d.ver.status = "VERIFIED"

\* c: the tree has no work the tests have not seen.  If it has, there is no evidence.
Caring(c, d) == Plain(d) /\ (Credible(d) => c)

\* And no commit.
Careful(c, h) == \A i \in 1..Len(h) : Caring(c, h[i].disk) /\ (h[i].commit => c)

\* What a handler of cmd returns.  Only run has a worker; tests are run in the
\* state VERIFYING, with a packet.
Cares(c, cmd, r) ==
  /\ Careful(c, r.writes)
  /\ r.wait = "tests" => Now(r.writes).ex.packet /\ Now(r.writes).cur = "VERIFYING"
  /\ r.wait \in {"worker", "bare worker"} => cmd = "run"

\* One write more.
LEMMA AppendCareful ==
  ASSUME NEW c \in BOOLEAN, NEW h \in Seq(Write), Careful(c, h),
         NEW w \in Write, Caring(c, w.disk), w.commit => c
  PROVE  Careful(c, Append(h, w))
<1> DEFINE g == Append(h, w)
<1>1. /\ Len(g) = Len(h) + 1 /\ Len(h) \in Nat
      /\ \A i \in 1..Len(h) : g[i] = h[i]
      /\ g[Len(h) + 1] = w
  OBVIOUS
<1> HIDE DEF g
<1>2. ASSUME NEW i \in 1..Len(g) PROVE Caring(c, g[i].disk) /\ (g[i].commit => c)
  <2>1. CASE i \in 1..Len(h) BY <1>1, <2>1 DEF Careful
  <2>2. CASE i = Len(h) + 1 BY <1>1, <2>2
  <2> QED BY <1>1, <2>1, <2>2
<1> QED BY <1>2 DEF Careful, g

\* The same for a write that makes no checkpoint.
LEMMA ThenCareful ==
  ASSUME NEW c \in BOOLEAN, NEW h \in Seq(Write), Careful(c, h), NEW e \in Disk, Caring(c, e)
  PROVE  Careful(c, Then(h, e))
<1> DEFINE w == [disk |-> e, commit |-> FALSE]
<1>1. w \in Write /\ w.disk = e /\ ~w.commit BY DEF Write
<1> HIDE DEF w
<1>2. Then(h, e) = Append(h, w) BY DEF Then, w
<1> QED BY <1>1, <1>2, AppendCareful

\* The last files of a handler are such.
LEMMA NowCaring ==
  ASSUME NEW c \in BOOLEAN, NEW cmd, NEW d, NEW h, History(cmd, h, d), Careful(c, h)
  PROVE  Caring(c, Now(h))
<1>1. h \in Seq(Write) /\ Len(h) \in 1..Len(h) BY DEF History
<1> QED BY <1>1 DEF Careful, Now

\* A handler starts from the files as they are.
LEMMA StartCareful ==
  ASSUME NEW c \in BOOLEAN, NEW d \in Disk, Caring(c, d)
  PROVE  Careful(c, Start(d))
BY DEF Careful, Start

\* state.json.
LEMMA SaveCareful ==
  ASSUME NEW c \in BOOLEAN, NEW cmd, NEW d, NEW h, History(cmd, h, d), Careful(c, h),
         NEW cur \in CurrentState, NEW phase \in PhaseId,
         cur = "PREPARED" => ~Now(h).ex.verified,
         cur = "REPAIRING" => Now(h).ver.status # "VERIFIED",
         cur = "VERIFIED" => Now(h).ver.status = "VERIFIED"
  PROVE  Careful(c, Save(h, cur, phase))
<1> DEFINE e == [Now(h) EXCEPT !.cur = cur, !.phase = phase]
<1>1. Now(h) \in Disk /\ h \in Seq(Write) BY NowType DEF History
<1>2. e \in Disk /\ e.ex = Now(h).ex /\ e.ver = Now(h).ver /\ e.cur = cur BY <1>1 DEF Disk
<1>3. Save(h, cur, phase) = Then(h, e) BY DEF Save
<1> HIDE DEF e
<1>4. Caring(c, Now(h)) BY NowCaring
<1>5. Caring(c, e) BY <1>2, <1>4 DEF Caring, Plain, Credible
<1> QED BY <1>1, <1>2, <1>3, <1>5, ThenCareful

\* execution.json, of an execution that is not verified, or one with a packet
\* that nothing of the above speaks against.
LEMMA ExecutionCareful ==
  ASSUME NEW c \in BOOLEAN, NEW cmd, NEW d, NEW h, History(cmd, h, d), Careful(c, h),
         NEW ex \in Execution,
         ex.verified => /\ ex.packet /\ Now(h).cur \notin {"PREPARED", "VERIFIED"}
                        /\ c \/ Now(h).ver.status # "VERIFIED"
  PROVE  Careful(c, WriteExecution(h, ex))
<1> DEFINE e == [Now(h) EXCEPT !.ex = ex]
<1>1. Now(h) \in Disk /\ h \in Seq(Write) BY NowType DEF History
<1>2. e \in Disk /\ e.ex = ex /\ e.ver = Now(h).ver /\ e.cur = Now(h).cur BY <1>1 DEF Disk
<1>3. WriteExecution(h, ex) = Then(h, e) BY DEF WriteExecution
<1> HIDE DEF e
<1>4. Caring(c, Now(h)) BY NowCaring
<1>5. Caring(c, e) BY <1>2, <1>4 DEF Caring, Plain, Credible
<1> QED BY <1>1, <1>2, <1>3, <1>5, ThenCareful

\* incident.json and graph.json have no part in it.
LEMMA IncidentCareful ==
  ASSUME NEW c \in BOOLEAN, NEW cmd, NEW d, NEW h, History(cmd, h, d), Careful(c, h),
         NEW inc \in Incident
  PROVE  Careful(c, SaveIncident(h, inc))
<1> DEFINE e == [Now(h) EXCEPT !.inc = inc]
<1>1. Now(h) \in Disk /\ h \in Seq(Write) BY NowType DEF History
<1>2. e \in Disk /\ e.ex = Now(h).ex /\ e.ver = Now(h).ver /\ e.cur = Now(h).cur
  BY <1>1 DEF Disk
<1>3. SaveIncident(h, inc) = Then(h, e) BY DEF SaveIncident
<1> HIDE DEF e
<1>4. Caring(c, Now(h)) BY NowCaring
<1>5. Caring(c, e) BY <1>2, <1>4 DEF Caring, Plain, Credible
<1> QED BY <1>1, <1>2, <1>3, <1>5, ThenCareful

\* Likewise.
LEMMA GraphCareful ==
  ASSUME NEW c \in BOOLEAN, NEW cmd, NEW d, NEW h, History(cmd, h, d), Careful(c, h),
         NEW node \in Statuses
  PROVE  Careful(c, PersistGraph(h, node))
<1> DEFINE e == [Now(h) EXCEPT !.node = Refresh(Deps, node)]
<1>1. Now(h) \in Disk /\ h \in Seq(Write) BY NowType DEF History
<1>2. Refresh(Deps, node) \in Statuses BY DepsType, RefreshType
<1>3. e \in Disk /\ e.ex = Now(h).ex /\ e.ver = Now(h).ver /\ e.cur = Now(h).cur
  BY <1>1, <1>2 DEF Disk, Statuses
<1>4. PersistGraph(h, node) = Then(h, e) BY DEF PersistGraph
<1> HIDE DEF e
<1>5. Caring(c, Now(h)) BY NowCaring
<1>6. Caring(c, e) BY <1>3, <1>5 DEF Caring, Plain, Credible
<1> QED BY <1>1, <1>3, <1>4, <1>6, ThenCareful

\* A status may be set of any phase, and of none.
LEMMA SetType ==
  ASSUME NEW node \in Statuses, NEW p, NEW s \in Status
  PROVE  SetStatus(Deps, node, p, s) \in Statuses
<1>1. CASE p \in Phase
  <2>1. [node EXCEPT ![p] = s] \in Statuses BY <1>1 DEF Statuses
  <2> QED BY <2>1, <1>1, OnPhases, DepsType, RefreshType DEF SetStatus
<1>2. CASE p \notin Phase BY <1>2, OnPhases DEF SetStatus
<1> QED BY <1>1, <1>2

\* Nor has a mark.
LEMMA MarkCareful ==
  ASSUME NEW c \in BOOLEAN, NEW cmd, NEW d, NEW h, History(cmd, h, d), Careful(c, h),
         NEW p \in PhaseId, NEW s \in Status
  PROVE  Careful(c, MarkPhase(h, p, s))
<1> DEFINE node == SetStatus(Deps, Now(h).node, p, s)
<1>1. Now(h).node \in Statuses BY NowType DEF Disk, Statuses
<1>2. node \in Statuses BY <1>1, SetType
<1>3. MarkPhase(h, p, s) = PersistGraph(h, node) BY DEF MarkPhase
<1> HIDE DEF node
<1> QED BY <1>2, <1>3, GraphCareful

-----------------------------------------------------------------------------
\* Handlers

\* A phase is completed, and committed, when the tree has no untested work.
LEMMA CompleteCareful ==
  ASSUME NEW c \in BOOLEAN, NEW cmd, NEW d, NEW h, History(cmd, h, d), Careful(c, h),
         NEW phase \in PhaseId, AutoCommit => c
  PROVE  Careful(c, CompletePhase(h, phase))
<1> DEFINE w == [disk |-> Now(h), commit |-> TRUE]
           committed == IF AutoCommit THEN Append(h, w) ELSE h
           marked == MarkPhase(committed, phase, "COMPLETED")
<1>1. History(cmd, committed, d) BY CommitHistory
<1>2. Careful(c, committed)
  <2>1. CASE AutoCommit
    <3>1. w \in Write /\ w.disk = Now(h) /\ h \in Seq(Write) BY NowType DEF Write, History
    <3>2. Caring(c, Now(h)) BY NowCaring
    <3> HIDE DEF w
    <3>3. Careful(c, Append(h, w)) BY <2>1, <3>1, <3>2, AppendCareful
    <3> QED BY <2>1, <3>3
  <2>2. CASE ~AutoCommit BY <2>2
  <2> QED BY <2>1, <2>2
<1>3. CompletePhase(h, phase) = Save(marked, "COMPLETED", phase) BY DEF CompletePhase
<1> HIDE DEF committed
<1>4. "COMPLETED" \in Status /\ "COMPLETED" \in CurrentState BY DEF Status, CurrentState
<1>5. History(cmd, marked, d) /\ Careful(c, marked)
  BY <1>1, <1>2, <1>4, MarkHistory, MarkCareful
<1> HIDE DEF marked
<1> QED BY <1>3, <1>4, <1>5, SaveCareful

\* A human is asked.
LEMMA RequestCareful ==
  ASSUME NEW c \in BOOLEAN, NEW cmd, NEW d, NEW h, History(cmd, h, d), Careful(c, h),
         NEW phase \in PhaseId, NEW kind \in {"manual", "repair", "blocked", "runtime"}
  PROVE  Careful(c, RequestHuman(h, phase, kind))
<1> DEFINE e == [Now(h) EXCEPT !.req = [kind |-> kind, stamp |-> ~@.stamp]]
           asked == Then(h, e)
           marked == MarkPhase(asked, phase, "WAITING_FOR_HUMAN")
<1>1. Now(h) \in Disk /\ Sound(Now(h)) /\ h \in Seq(Write) BY NowType DEF History
<1>2. e \in Disk /\ e.inc = Now(h).inc /\ e.ex = Now(h).ex /\ e.cur = Now(h).cur
      /\ e.ver = Now(h).ver
  BY <1>1 DEF Disk, Request
<1>3. RequestHuman(h, phase, kind) = Save(marked, "WAITING_FOR_HUMAN", phase)
  BY DEF RequestHuman
<1> HIDE DEF e
<1>4. Sound(e) BY <1>1, <1>2 DEF Sound
<1>5. Obeys(cmd, Now(h), e) BY <1>1, <1>2 DEF Obeys, Follows, Disk, Incident
<1>6. History(cmd, asked, d) BY <1>2, <1>4, <1>5, ThenHistory
<1>7. Caring(c, Now(h)) BY NowCaring
<1>8. Caring(c, e) BY <1>2, <1>7 DEF Caring, Plain, Credible
<1>9. Careful(c, asked) BY <1>1, <1>2, <1>8, ThenCareful
<1> HIDE DEF asked
<1>10. "WAITING_FOR_HUMAN" \in Status /\ "WAITING_FOR_HUMAN" \in CurrentState
  BY DEF Status, CurrentState
<1>11. History(cmd, marked, d) /\ Careful(c, marked)
  BY <1>6, <1>9, <1>10, MarkHistory, MarkCareful
<1> HIDE DEF marked
<1> QED BY <1>3, <1>10, <1>11, SaveCareful

\* What is left VERIFIED is committed only on evidence.
LEMMA RecoverCareful ==
  ASSUME NEW c \in BOOLEAN, NEW cmd, NEW d, NEW h, History(cmd, h, d), Careful(c, h)
  PROVE  Careful(c, Recover(h).writes)
<1> DEFINE e == Now(h)
<1>1. e \in Disk /\ e.phase \in PhaseId BY NowType DEF Disk
<1>2. Caring(c, e) BY NowCaring
<1>3. \/ Recover(h).writes = h
      \/ Recover(h).writes = Save(h, "WORKER_CLAIMED_DONE", e.phase)
      \/ /\ e.cur = "VERIFIED" /\ (AutoCommit => e.ex.verified)
         /\ Recover(h).writes = CompletePhase(h, e.phase)
  BY DEF Recover, Return, CommitGate
<1>4. Careful(c, Save(h, "WORKER_CLAIMED_DONE", e.phase))
  BY <1>1, SaveCareful DEF CurrentState
<1>5. ASSUME e.cur = "VERIFIED", AutoCommit => e.ex.verified
      PROVE  Careful(c, CompletePhase(h, e.phase))
  <2>1. AutoCommit => c BY <1>2, <1>5 DEF Caring, Plain, Credible
  <2> QED BY <1>1, <2>1, CompleteCareful
<1> QED BY <1>3, <1>4, <1>5

\* A refusal.
LEMMA RefusalCareful ==
  ASSUME NEW c \in BOOLEAN, NEW cmd, NEW d, NEW h, History(cmd, h, d), Careful(c, h),
         NEW p \in PhaseId
  PROVE  Careful(c, RefusalFor(h, p))
<1> DEFINE ex == [phase |-> p, packet |-> FALSE, invoked |-> FALSE,
                  verified |-> FALSE, attempt |-> 0]
<1>1. ex \in Execution /\ ~ex.verified BY DEF Execution
<1>2. RefusalFor(h, p) = WriteExecution(h, ex) BY DEF RefusalFor
<1> HIDE DEF ex
<1> QED BY <1>1, <1>2, ExecutionCareful

\* A new packet comes with an execution of its own.
LEMMA PrepareLockedCareful ==
  ASSUME NEW c \in BOOLEAN, NEW cmd, NEW d, NEW h, History(cmd, h, d), Careful(c, h),
         NEW requested \in PhaseId, NEW checks \in BOOLEAN, NEW unclean \in BOOLEAN
  PROVE  Careful(c, PrepareLocked(h, requested, checks, unclean).writes)
<1> DEFINE e == Now(h)
           merged == MergeStatus(Deps, e.node)
           finished == e.cur = "COMPLETED" /\ e.phase \in DOMAIN merged
                       /\ merged[e.phase] = "RUNNING"
           start == IF finished THEN SetStatus(Deps, merged, e.phase, "COMPLETED") ELSE merged
           graph == PersistGraph(h, start)
           node == Now(graph).node
           resume == IF e.cur = "COMPLETED" THEN NoPhase ELSE e.phase
           choice == SelectRunnable(node, requested, resume)
           p == choice.phase
           marked == IF node[p] = "RUNNING" THEN graph ELSE MarkPhase(graph, p, "RUNNING")
           ex == [phase |-> p, packet |-> TRUE, invoked |-> FALSE,
                  verified |-> FALSE, attempt |-> 0]
           packet == WriteExecution(marked, ex)
           r == PrepareLocked(h, requested, checks, unclean)
<1>1. e \in Disk /\ e.phase \in PhaseId /\ e.node \in Statuses BY NowType DEF Disk, Statuses
<1>2. \/ r.writes = h
      \/ r.writes = RefusalFor(h, NoPhase)
      \/ r.writes = Save(graph, "COMPLETED", e.phase)
      \/ r.writes = RefusalFor(graph, requested)
      \/ r.writes = RefusalFor(marked, p)
      \/ p # NoPhase /\ r.writes = Save(packet, "PREPARED", p)
  BY DEF PrepareLocked, Return
<1> HIDE DEF r
<1>3. merged \in Statuses
  <2> DEFINE all == [q \in Phase |-> IF q \in Phase THEN e.node[q] ELSE "PENDING"]
  <2>1. all \in Statuses BY <1>1 DEF Statuses
  <2>2. merged = Refresh(Deps, all) BY <1>1, OnPhases, DepsType DEF MergeStatus
  <2> HIDE DEF all
  <2> QED BY <2>1, <2>2, DepsType, RefreshType
<1> HIDE DEF e, merged
<1>4. start \in Statuses BY <1>3, SetType DEF Status
<1> HIDE DEF start
<1>5. /\ History(cmd, graph, d) /\ Careful(c, graph) /\ node \in Statuses
  BY <1>4, GraphHistory, GraphCareful
<1> HIDE DEF graph
<1>6. resume \in PhaseId BY <1>1 DEF PhaseId
<1>7. p \in PhaseId BY <1>5, <1>6, SelectType
<1> HIDE DEF resume, node, p
<1>8. History(cmd, marked, d) /\ Careful(c, marked)
  BY <1>5, <1>7, MarkHistory, MarkCareful DEF Status
<1> HIDE DEF marked
<1>9. ex \in Execution /\ ~ex.verified /\ ex.phase = p /\ ex.attempt = 0
  BY <1>7 DEF Execution
<1> HIDE DEF ex
<1>10. ASSUME p # NoPhase PROVE Careful(c, Save(packet, "PREPARED", p))
  <2>1. Now(marked).inc.attempts \in Nat BY <1>8, NowType DEF Disk, Incident
  <2>2. History(cmd, packet, d)
    BY <1>8, <1>9, <1>10, <2>1, ExecutionHistory, ProjectAssumption
  <2>3. Careful(c, packet) BY <1>8, <1>9, ExecutionCareful
  <2>4. Now(packet).ex = ex BY <1>8, <1>9, ExecutionWritten
  <2> HIDE DEF packet
  <2> QED BY <1>7, <1>9, <2>2, <2>3, <2>4, SaveCareful DEF CurrentState
<1>11. Careful(c, Save(graph, "COMPLETED", e.phase))
  BY <1>1, <1>5, SaveCareful DEF CurrentState
<1>12. Careful(c, RefusalFor(graph, requested)) /\ Careful(c, RefusalFor(marked, p))
  BY <1>5, <1>7, <1>8, RefusalCareful
<1>13. Careful(c, RefusalFor(h, NoPhase)) BY RefusalCareful DEF PhaseId
<1> QED BY <1>2, <1>10, <1>11, <1>12, <1>13 DEF r

\* A handler that ends, or waits for something else than the tests.
LEMMA ReturnCares ==
  ASSUME NEW c \in BOOLEAN, NEW cmd, NEW h, Careful(c, h), NEW reply
  PROVE  Cares(c, cmd, Return(h, reply))
BY DEF Cares, Return

\* prepare.
LEMMA PrepareCares ==
  ASSUME NEW c \in BOOLEAN, NEW d \in Disk, Sound(d), Caring(c, d),
         NEW requested \in PhaseId, NEW checks \in BOOLEAN, NEW unclean \in BOOLEAN
  PROVE  Cares(c, "prepare", Prepare(d, requested, checks, unclean))
<1> DEFINE rec == Recover(Start(d))
           prep == PrepareLocked(rec.writes, requested, checks, unclean)
<1>1. History("prepare", Start(d), d) /\ Careful(c, Start(d)) BY StartHistory, StartCareful
<1>2. Careful(c, rec.writes) /\ History("prepare", rec.writes, d)
  BY <1>1, RecoverCareful, RecoverHandled DEF Handled
<1>3. rec = Return(rec.writes, rec.reply) BY DEF Recover, Return
<1> HIDE DEF rec
<1>4. Careful(c, prep.writes) BY <1>2, PrepareLockedCareful
<1>5. prep = Return(prep.writes, prep.reply) BY DEF PrepareLocked, Return
<1> HIDE DEF prep
<1>6. Prepare(d, requested, checks, unclean) \in {rec, prep} BY DEF Prepare, rec, prep
<1>7. Cares(c, "prepare", rec) BY <1>2, <1>3, ReturnCares
<1>8. Cares(c, "prepare", prep) BY <1>4, <1>5, ReturnCares
<1> QED BY <1>6, <1>7, <1>8

\* run up to its worker.
LEMMA RunCares ==
  ASSUME NEW c \in BOOLEAN, NEW d \in Disk, Sound(d), Caring(c, d),
         NEW requested \in PhaseId, NEW checks \in BOOLEAN, NEW unclean \in BOOLEAN,
         NEW ready \in BOOLEAN
  PROVE  Cares(c, "run", RunProduct(d, requested, checks, unclean, ready))
<1> DEFINE rec == Recover(Start(d))
           h == rec.writes
           prep == PrepareLocked(h, requested, checks, unclean)
           p == IF prep.reply = "waiting" THEN NoPhase ELSE Now(prep.writes).phase
           running == Save(prep.writes, "WORKER_RUNNING", p)
           wait == IF prep.reply = "prepared" THEN "worker" ELSE "bare worker"
           r == RunProduct(d, requested, checks, unclean, ready)
<1>1. History("run", Start(d), d) /\ Careful(c, Start(d)) BY StartHistory, StartCareful
<1>2. Careful(c, h) /\ History("run", h, d)
  BY <1>1, RecoverCareful, RecoverHandled DEF Handled
<1>3. rec = Return(h, rec.reply) BY DEF Recover, Return
<1>4. \/ r = rec \/ r = Return(h, "ok") \/ r = Return(prep.writes, "stop")
      \/ r = Return(RefusalFor(prep.writes, p), "stop") \/ r = AwaitFor(running, wait)
  BY DEF RunProduct
<1> HIDE DEF rec, h, r
<1>5. Careful(c, prep.writes) BY <1>2, PrepareLockedCareful
<1>6. History("run", prep.writes, d) BY <1>2, PrepareLockedHandled DEF Handled
<1> HIDE DEF prep
<1>7. p \in PhaseId BY <1>6, NowType DEF Disk, PhaseId
<1> HIDE DEF p
<1>8. Careful(c, running) BY <1>5, <1>6, <1>7, SaveCareful DEF CurrentState
<1>9. Careful(c, RefusalFor(prep.writes, p)) BY <1>5, <1>6, <1>7, RefusalCareful
<1> HIDE DEF running
<1>10. Cares(c, "run", AwaitFor(running, wait)) BY <1>8 DEF Cares, AwaitFor
<1>11. /\ Cares(c, "run", rec) /\ Cares(c, "run", Return(h, "ok"))
       /\ Cares(c, "run", Return(prep.writes, "stop"))
       /\ Cares(c, "run", Return(RefusalFor(prep.writes, p), "stop"))
  BY <1>2, <1>3, <1>5, <1>9, ReturnCares
<1> QED BY <1>4, <1>10, <1>11 DEF r

\* A verdict: a phase is completed only after tests passed, on the tree as it is.
LEMMA PersistVerifyCareful ==
  ASSUME NEW c \in BOOLEAN, NEW cmd, NEW d \in Disk, Sound(d), Caring(c, d),
         NEW status \in Verdict, NEW of \in PhaseId,
         status = "VERIFIED" => c /\ d.ex.packet,
         d.cur = "VERIFYING" \/ (status = "INCOMPLETE" /\ ~d.ex.packet)
  PROVE  Careful(c, PersistVerify(Start(d), status, of).writes)
<1> DEFINE phase == IF of = NoPhase THEN d.phase ELSE of
           ok == status = "VERIFIED"
           e == [d EXCEPT !.ver = [status |-> status, phase |-> of]]
           verdict == Then(Start(d), e)
           ex == [d.ex EXCEPT !.verified = ok]
           recorded == WriteExecution(verdict, ex)
           inc == FinishAttempt(d.inc, d.ex.attempt, ok)
           counted == IF d.ex.attempt = 0 THEN recorded ELSE SaveIncident(recorded, inc)
           h == PersistVerify(Start(d), status, of).writes
<1>1. /\ d.phase \in PhaseId /\ d.ex \in Execution /\ d.inc \in Incident
      /\ d.ex.attempt \in Nat /\ d.inc.attempts \in Nat /\ phase \in PhaseId
  BY DEF Disk, Incident, Execution
<1>2. \/ ok /\ h = CompletePhase(counted, phase)
      \/ h = RequestHuman(counted, phase, "manual")
      \/ h = Save(counted, "VERIFICATION_INCOMPLETE", phase)
      \/ h = Save(counted, "VERIFICATION_FAILED", phase)
  <2>1. Now(Start(d)) = d BY DEF Start, Now
  <2>2. Now(verdict) = e /\ e.ex = d.ex /\ e.inc = d.inc /\ e.phase = d.phase
    BY DEF Then, Now, Start, Disk
  <2> QED BY <2>1, <2>2 DEF PersistVerify, Return
<1> HIDE DEF h
<1>3. /\ e \in Disk /\ e.cur = d.cur /\ e.phase = d.phase /\ e.ex = d.ex
      /\ e.inc = d.inc /\ e.ver.status = status
  BY <1>1 DEF Disk
<1> HIDE DEF e
<1>4. Sound(e) /\ Obeys(cmd, d, e) BY <1>1, <1>3 DEF Obeys, Sound, Follows
<1>5. Caring(c, e) BY <1>3 DEF Caring, Plain, Credible
<1>6. /\ History(cmd, Start(d), d) /\ Now(Start(d)) = d /\ Careful(c, Start(d))
      /\ Start(d) \in Seq(Write)
  BY StartHistory, StartCareful DEF History
<1>7. History(cmd, verdict, d) /\ Now(verdict) = e /\ Careful(c, verdict)
  BY <1>3, <1>4, <1>5, <1>6, ThenHistory, ThenCareful
<1> HIDE DEF verdict
<1>8. /\ ex \in Execution /\ ex.phase = d.ex.phase /\ ex.packet = d.ex.packet
      /\ ex.verified = ok /\ ex.attempt = d.ex.attempt
  BY <1>1 DEF Execution
<1> HIDE DEF ex
<1>9. Careful(c, recorded) BY <1>3, <1>7, <1>8, ExecutionCareful
<1>10. Now(recorded).inc = d.inc
  BY <1>3, <1>7, <1>8, ExecutionWritten DEF SameButExecution
<1>11. History(cmd, recorded, d)
  <2>1. /\ ex.attempt <= MaxAttempts /\ (~e.inc.rt => ex.attempt <= e.inc.attempts)
        /\ (ex.packet => ex.phase # NoPhase)
    BY <1>3, <1>8 DEF Sound
  <2> QED BY <1>7, <1>8, <2>1, ExecutionHistory
<1> HIDE DEF recorded
<1>12. History(cmd, counted, d) /\ Careful(c, counted)
  <2>1. ok \in BOOLEAN OBVIOUS
  <2> HIDE DEF ok
  <2>2. inc \in Incident BY <1>1, <2>1, FinishedAttempt DEF Sound
  <2>3. History(cmd, SaveIncident(recorded, inc), d)
    BY <1>1, <1>10, <1>11, <2>1, FinishHistory DEF Sound
  <2> HIDE DEF inc
  <2>4. Careful(c, SaveIncident(recorded, inc)) BY <1>9, <1>11, <2>2, IncidentCareful
  <2> QED BY <1>9, <1>11, <2>3, <2>4
<1> HIDE DEF counted, phase
<1>13. ok => Careful(c, CompletePhase(counted, phase)) BY <1>1, <1>12, CompleteCareful
<1>14. Careful(c, RequestHuman(counted, phase, "manual")) BY <1>1, <1>12, RequestCareful
<1>15. /\ Careful(c, Save(counted, "VERIFICATION_INCOMPLETE", phase))
       /\ Careful(c, Save(counted, "VERIFICATION_FAILED", phase))
  BY <1>1, <1>12, SaveCareful DEF CurrentState
<1> QED BY <1>2, <1>13, <1>14, <1>15 DEF h

\* verify up to its tests, which leaves no evidence without a packet.
LEMMA VerifyCares ==
  ASSUME NEW c \in BOOLEAN, NEW cmd, NEW d \in Disk, Sound(d), Caring(c, d)
  PROVE  Cares(c, cmd, Verify(d))
<1> DEFINE g == Save(Start(d), "VERIFYING", d.phase)
           r == PersistVerify(Start(d), "INCOMPLETE", d.ex.phase)
<1>1. History(cmd, Start(d), d) /\ Now(Start(d)) = d /\ Careful(c, Start(d))
  BY StartHistory, StartCareful
<1>2. "VERIFYING" \in CurrentState /\ "VERIFYING" \in Calm /\ d.phase \in PhaseId
      /\ d.ex.phase \in PhaseId
  BY AreCalm DEF CurrentState, Disk, Execution
<1>3. Careful(c, g) BY <1>1, <1>2, SaveCareful
<1>4. SameFiles(d, Now(g)) /\ Now(g).cur = "VERIFYING"
  <2>1. SameFiles(Now(Start(d)), Now(g)) /\ Now(g).cur = "VERIFYING" BY <1>1, <1>2, CalmSave
  <2> QED BY <1>1, <2>1
<1>5. Verify(d) = IF d.ex.packet THEN AwaitFor(g, "tests") ELSE r BY DEF Verify
<1> HIDE DEF g
<1>6. CASE d.ex.packet
  <2>1. Now(g).ex.packet BY <1>4, <1>6 DEF SameFiles
  <2>2. Cares(c, cmd, AwaitFor(g, "tests")) BY <1>3, <1>4, <2>1 DEF Cares, AwaitFor
  <2> QED BY <1>5, <1>6, <2>2
<1>7. CASE ~d.ex.packet
  <2>1. Careful(c, r.writes) BY <1>2, <1>7, PersistVerifyCareful DEF Verdict
  <2>2. r.wait = "none" BY DEF PersistVerify, Return
  <2> HIDE DEF r
  <2>3. Cares(c, cmd, r) BY <2>1, <2>2 DEF Cares
  <2> QED BY <1>5, <1>7, <2>3
<1> QED BY <1>6, <1>7

\* verify from its tests on; when they pass, the work is tested.
LEMMA AfterTestsCares ==
  ASSUME NEW c \in BOOLEAN, NEW cmd, NEW d \in Disk, Sound(d), Caring(c, d),
         d.ex.packet, d.cur = "VERIFYING", NEW tests, NEW confirmed,
         AfterTests(d, tests, confirmed).reply = "VERIFIED" => c
  PROVE  Cares(c, cmd, AfterTests(d, tests, confirmed))
<1> DEFINE status == Judge(d.ex.phase, tests, confirmed)
           r == PersistVerify(Start(d), status, d.ex.phase)
<1>1. status \in Verdict BY DEF Judge, Verdict
<1>2. AfterTests(d, tests, confirmed) = r BY DEF AfterTests
<1> HIDE DEF status
<1>3. r.reply = status /\ r.wait = "none" BY DEF PersistVerify, Return
<1>4. d.ex.phase \in PhaseId BY DEF Disk, Execution
<1> HIDE DEF r
<1>5. status = "VERIFIED" => c /\ d.ex.packet BY <1>2, <1>3
<1>6. Careful(c, r.writes) BY <1>1, <1>4, <1>5, PersistVerifyCareful DEF r
<1>7. Cares(c, cmd, r) BY <1>3, <1>6 DEF Cares
<1> QED BY <1>2, <1>7

\* review takes a phase for VERIFIED only when the last verdict was.
LEMMA ReviewCares ==
  ASSUME NEW c \in BOOLEAN, NEW cmd, NEW d \in Disk, Sound(d), Caring(c, d)
  PROVE  /\ Cares(c, cmd, Review(Start(d)))
         /\ Careful(c, Review(Start(d)).writes)
         /\ SameFiles(d, Now(Review(Start(d)).writes))
         /\ Review(Start(d)).reply = "repair" =>
              Now(Review(Start(d)).writes).cur = "VERIFICATION_FAILED"
<1> DEFINE h == Start(d)
           after == IF RecommendHuman(d) THEN "WAITING_FOR_HUMAN"
                    ELSE IF d.ver.status = "VERIFIED" THEN "VERIFIED"
                    ELSE "VERIFICATION_FAILED"
           reviewing == Save(h, "REVIEWING", d.phase)
           reviewed == Save(reviewing, after, d.phase)
           reply == IF RecommendRepair(d) THEN "repair" ELSE "human"
<1>1. History(cmd, h, d) /\ Now(h) = d /\ Careful(c, h) BY StartHistory, StartCareful
<1>2. Review(h) = Return(reviewed, reply) BY <1>1 DEF Review
<1> HIDE DEF h
<1>3. d.inc.attempts \in Nat /\ MaxAttempts \in Nat BY ProjectAssumption DEF Disk, Incident
<1>4. reply = "repair" => after = "VERIFICATION_FAILED"
  BY <1>3 DEF RecommendRepair, RecommendHuman
<1>5. /\ "REVIEWING" \in Calm /\ "REVIEWING" \in CurrentState
      /\ after \in CurrentState /\ after \in Calm
      /\ after \in {"WAITING_FOR_HUMAN", "VERIFIED", "VERIFICATION_FAILED"}
      /\ d.phase \in PhaseId /\ (after = "VERIFIED" => d.ver.status = "VERIFIED")
  BY AreCalm DEF CurrentState, Disk
<1> HIDE DEF after, reply
<1>6. Careful(c, reviewing) BY <1>1, <1>5, SaveCareful
<1>7. History(cmd, reviewing, d) /\ SameFiles(d, Now(reviewing))
  <2>1. History(cmd, reviewing, d) /\ SameFiles(Now(h), Now(reviewing))
    BY <1>1, <1>5, CalmSave
  <2> QED BY <1>1, <2>1
<1> HIDE DEF reviewing
<1>8. Careful(c, reviewed) BY <1>5, <1>6, <1>7, SaveCareful DEF SameFiles
<1>9. SameFiles(d, Now(reviewed)) /\ Now(reviewed).cur = after
  <2>1. SameFiles(Now(reviewing), Now(reviewed)) /\ Now(reviewed).cur = after
    BY <1>5, <1>7, CalmSave
  <2> QED BY <1>7, <2>1 DEF SameFiles
<1> HIDE DEF reviewed
<1>10. Review(h).writes = reviewed /\ Review(h).reply = reply BY <1>2 DEF Return
<1>11. Cares(c, cmd, Review(h)) BY <1>2, <1>8, ReturnCares
<1> QED BY <1>4, <1>8, <1>9, <1>10, <1>11 DEF h

\* repair hands out a packet only after a failed verification.
LEMMA PrepareRepairCares ==
  ASSUME NEW c \in BOOLEAN, NEW cmd, NEW d \in Disk, Sound(d), Caring(c, d)
  PROVE  Cares(c, cmd, PrepareRepair(d))
<1> DEFINE rev == Review(Start(d))
           inc == IF d.inc.phase # NoPhase THEN d.inc
                  ELSE [phase |-> d.ex.phase, attempts |-> 0, exhausted |-> FALSE, rt |-> FALSE]
           begun == [inc EXCEPT !.attempts = @ + 1]
           spent == [d.inc EXCEPT !.exhausted = TRUE]
           ex == [d.ex EXCEPT !.attempt = begun.attempts]
           counted == SaveIncident(rev.writes, begun)
           given == WriteExecution(counted, ex)
           r == PrepareRepair(d)
<1>1. /\ d.phase \in PhaseId /\ d.ex \in Execution /\ d.inc \in Incident
      /\ d.ex.attempt \in Nat /\ d.inc.attempts \in Nat /\ MaxAttempts \in Nat
      /\ d.ex.phase \in PhaseId
  BY ProjectAssumption DEF Disk, Incident, Execution
<1>2. History(cmd, Start(d), d) /\ Now(Start(d)) = d /\ Careful(c, Start(d))
  BY StartHistory, StartCareful
<1>3. /\ Careful(c, rev.writes) /\ SameFiles(d, Now(rev.writes))
      /\ rev.reply = "repair" => Now(rev.writes).cur = "VERIFICATION_FAILED"
  BY ReviewCares
<1>4. /\ Handled(cmd, rev, d)
      /\ rev.reply = "repair" => d.ver.status = "FAILED" /\ d.inc.attempts < MaxAttempts
  BY ReviewHandled
<1>5. \/ r = Return(RequestHuman(SaveIncident(Start(d), spent), d.phase, "repair"), "error")
      \/ r = Return(rev.writes, "error")
      \/ /\ rev.reply = "repair" /\ d.ex.packet
         /\ r = Return(Save(given, "REPAIRING", d.phase), "ok")
  BY DEF PrepareRepair
<1> HIDE DEF rev, r
<1>6. Cares(c, cmd, Return(rev.writes, "error")) BY <1>3, ReturnCares
<1>7. Cares(c, cmd, Return(RequestHuman(SaveIncident(Start(d), spent), d.phase, "repair"), "error"))
  <2>1. /\ spent \in Incident /\ spent.attempts = d.inc.attempts
        /\ spent.phase = d.inc.phase /\ spent.rt = d.inc.rt
    BY <1>1 DEF Incident
  <2> HIDE DEF spent
  <2> DEFINE h == SaveIncident(Start(d), spent)
             g == RequestHuman(h, d.phase, "repair")
  <2>2. History(cmd, h, d) BY <1>1, <1>2, <2>1, IncidentHistory DEF Sound
  <2>3. Careful(c, h) BY <1>2, <2>1, IncidentCareful
  <2> HIDE DEF h
  <2>4. Careful(c, g) BY <1>1, <2>2, <2>3, RequestCareful
  <2> HIDE DEF g
  <2>5. Cares(c, cmd, Return(g, "error")) BY <2>4, ReturnCares
  <2> QED BY <2>5 DEF g, h
<1>8. ASSUME rev.reply = "repair", d.ex.packet
      PROVE  Cares(c, cmd, Return(Save(given, "REPAIRING", d.phase), "ok"))
  <2>1. d.ex.phase # NoPhase BY <1>8 DEF Sound
  <2>2. /\ inc \in Incident /\ inc.attempts = d.inc.attempts /\ inc.phase # NoPhase
        /\ inc.rt = d.inc.rt
    BY <1>1, <2>1 DEF Sound, Incident
  <2> HIDE DEF inc
  <2>3. /\ begun \in Incident /\ begun.attempts = d.inc.attempts + 1
        /\ begun.phase # NoPhase /\ begun.rt = d.inc.rt /\ begun.attempts \in Nat
    BY <1>1, <2>2 DEF Incident
  <2> HIDE DEF begun
  <2>4. /\ ex \in Execution /\ ex.attempt = begun.attempts
        /\ ex.phase = d.ex.phase /\ ex.packet = d.ex.packet /\ ex.verified = d.ex.verified
    BY <1>1, <2>3 DEF Execution
  <2> HIDE DEF ex
  <2>5. History(cmd, rev.writes, d) BY <1>4 DEF Handled
  <2>6. /\ Now(rev.writes).inc = d.inc /\ Now(rev.writes).ver = d.ver
        /\ Now(rev.writes).ex = d.ex /\ d.ver.status = "FAILED"
    BY <1>3, <1>4, <1>8 DEF SameFiles
  <2>7. d.inc.attempts < MaxAttempts BY <1>4, <1>8
  <2>8. History(cmd, counted, d) BY <1>1, <2>3, <2>5, <2>6, <2>7, IncidentHistory
  <2>9. Careful(c, counted) BY <1>3, <2>3, <2>5, IncidentCareful
  <2>10. /\ Now(counted).ver.status = "FAILED" /\ Now(counted).cur = "VERIFICATION_FAILED"
         /\ Now(counted).inc = begun
    BY <1>3, <1>8, <2>3, <2>5, <2>6, IncidentWritten DEF SameButIncident
  <2> HIDE DEF counted
  <2>11. Careful(c, given) BY <1>8, <2>4, <2>8, <2>9, <2>10, ExecutionCareful
  <2>12. History(cmd, given, d)
    <3>1. ex.attempt <= Now(counted).inc.attempts /\ ex.attempt <= MaxAttempts
      BY <1>1, <2>3, <2>4, <2>7, <2>10
    <3>2. ex.packet => ex.phase # NoPhase BY <2>1, <2>4
    <3> QED BY <2>4, <2>8, <3>1, <3>2, ExecutionHistory
  <2>13. Now(given).ver.status = "FAILED"
    BY <2>4, <2>8, <2>10, ExecutionWritten DEF SameButExecution
  <2> HIDE DEF given
  <2>14. Careful(c, Save(given, "REPAIRING", d.phase))
    BY <1>1, <2>11, <2>12, <2>13, SaveCareful DEF CurrentState
  <2> QED BY <2>14, ReturnCares
<1> QED BY <1>5, <1>6, <1>7, <1>8 DEF r

\* resume.
LEMMA ResumeCares ==
  ASSUME NEW c \in BOOLEAN, NEW cmd, NEW d \in Disk, Sound(d), Caring(c, d), NEW answer
  PROVE  Cares(c, cmd, Resume(d, answer))
<1> DEFINE cur == IF d.req.kind = "runtime" THEN "COMPLETED" ELSE "VERIFICATION_FAILED"
           reply == IF ManualConfirmed(d, answer) THEN "verify" ELSE "ok"
<1>1. History(cmd, Start(d), d) /\ Careful(c, Start(d)) BY StartHistory, StartCareful
<1>2. \/ Resume(d, answer) = Return(Start(d), "error")
      \/ Resume(d, answer) = Return(Save(Start(d), cur, d.phase), reply)
  BY DEF Resume
<1>3. cur \in CurrentState /\ cur \notin {"PREPARED", "REPAIRING", "VERIFIED"} /\ d.phase \in PhaseId
  BY DEF CurrentState, Disk
<1> HIDE DEF cur, reply
<1>4. Careful(c, Save(Start(d), cur, d.phase)) BY <1>1, <1>3, SaveCareful
<1> QED BY <1>1, <1>2, <1>4, ReturnCares

\* Append adds one write at the end.
LEMMA Appended ==
  ASSUME NEW h \in Seq(Write), NEW w \in Write
  PROVE  /\ Append(h, w) \in Seq(Write) /\ Len(Append(h, w)) = Len(h) + 1 /\ Len(h) \in Nat
         /\ \A i \in 1..Len(h) : Append(h, w)[i] = h[i]
         /\ Append(h, w)[Len(h) + 1] = w
OBVIOUS

\* What runProduct writes once its worker is back is no evidence, whatever there was.
LEMMA AfterWorkerCares ==
  ASSUME NEW c \in BOOLEAN, NEW d \in Disk, Plain(d), NEW packet \in BOOLEAN, NEW invoked \in BOOLEAN
  PROVE  LET r == AfterWorker(d, packet, invoked)
         IN  /\ Careful(c, Tail(r.writes)) /\ Tail(r.writes) # << >>
             /\ r.wait = "none"
<1> DEFINE ex == [phase |-> d.phase, packet |-> packet, invoked |-> invoked,
                  verified |-> FALSE, attempt |-> 0]
           cur == IF invoked THEN "WORKER_CLAIMED_DONE" ELSE "WORKER_REFUSED"
           e == [d EXCEPT !.ex = ex]
           f == [e EXCEPT !.cur = cur, !.phase = d.phase]
           s == Start(d)
           w == [disk |-> e, commit |-> FALSE]
           x == [disk |-> f, commit |-> FALSE]
           g == Append(s, w)
           k == Append(g, x)
           r == AfterWorker(d, packet, invoked)
<1>1. /\ e \in Disk /\ e.ex = ex /\ ~ex.verified /\ e.cur = d.cur /\ e.ver = d.ver
      /\ f \in Disk /\ f.ex = ex /\ f.cur = cur
  BY DEF Disk, Execution, CurrentState
<1>2. cur \notin {"PREPARED", "REPAIRING", "VERIFIED"} OBVIOUS
<1>3. r.wait = "none" /\ r.writes = Save(WriteExecution(s, ex), cur, d.phase)
  BY DEF AfterWorker, Return
<1> HIDE DEF r, ex, cur
<1>4. s \in Seq(Write) /\ Len(s) = 1 /\ Now(s) = d BY DEF Start, Now, Write
<1> HIDE DEF s
<1>5. WriteExecution(s, ex) = g BY <1>4 DEF WriteExecution, Then
<1> HIDE DEF e
<1>6. w \in Write /\ w.disk = e /\ ~w.commit BY <1>1 DEF Write
<1> HIDE DEF w
<1>7. g \in Seq(Write) /\ Len(g) = 2 /\ g[2] = w
  <2>1. g \in Seq(Write) /\ Len(g) = Len(s) + 1 /\ g[Len(s) + 1] = w BY <1>4, <1>6, Appended
  <2> HIDE DEF g
  <2> QED BY <1>4, <2>1
<1>8. Now(g) = e BY <1>6, <1>7 DEF Now
<1> HIDE DEF g
<1>9. Save(g, cur, d.phase) = k BY <1>8 DEF Save, Then
<1> HIDE DEF f
<1>10. x \in Write /\ x.disk = f /\ ~x.commit BY <1>1 DEF Write
<1> HIDE DEF x
<1>11. k \in Seq(Write) /\ Len(k) = 3 /\ k[2] = w /\ k[3] = x
  <2>1. /\ k \in Seq(Write) /\ Len(k) = Len(g) + 1 /\ k[Len(g) + 1] = x
        /\ \A i \in 1..Len(g) : k[i] = g[i]
    BY <1>7, <1>10, Appended
  <2> HIDE DEF k
  <2> QED BY <1>7, <2>1
<1> HIDE DEF k
<1>12. Len(Tail(k)) = 2 /\ Tail(k)[1] = w /\ Tail(k)[2] = x BY <1>11
<1>13. Caring(c, e) /\ Caring(c, f) BY <1>1, <1>2 DEF Caring, Plain, Credible
<1>14. Careful(c, Tail(k)) BY <1>6, <1>10, <1>12, <1>13 DEF Careful
<1>15. Tail(k) # << >> BY <1>12
<1> QED BY <1>3, <1>5, <1>9, <1>14, <1>15 DEF r

-----------------------------------------------------------------------------
\* The command at work, and the invariant

\* The files, and what the command at work has still to write.  The tree that a
\* worker has just left may differ from what the evidence is of, until run has
\* written the next file.
CaringJob(c, d, j) ==
  /\ Careful(c, j.todo)
  /\ Plain(d) /\ (Caring(c, d) \/ (j.cmd = "run" /\ j.todo # << >>))
  /\ j.wait = "tests" => Ends(j.todo, d).ex.packet /\ Ends(j.todo, d).cur = "VERIFYING"
  /\ j.wait \in {"worker", "bare worker"} => j.cmd = "run"

\* Whatever work is in the tree has been tested.
Tried == ~untested

CInv == CaringJob(Tried, disk, job) /\ committer.pc = "idle"

\* What it needs: nobody else commits, and run is not cut off behind its worker.
Attended == "commit" \notin Commands /\ "run" \notin Crashes

\* No command at work.
LEMMA NoJobCaring ==
  ASSUME NEW c \in BOOLEAN, NEW d, Caring(c, d)
  PROVE  CaringJob(c, d, NoJob)
<1>1. NoJob.todo = << >> /\ NoJob.wait = "none" BY DEF NoJob
<1>2. Careful(c, << >>) BY DEF Careful
<1> QED BY <1>1, <1>2 DEF CaringJob, Caring

\* Nothing left to write: the files are settled.
LEMMA SettledCaring ==
  ASSUME NEW c, NEW d, NEW j, CaringJob(c, d, j), j.todo = << >> \/ j.cmd # "run"
  PROVE  Caring(c, d)
BY DEF CaringJob

\* A handler begins, or goes on, at the files as they are.
LEMMA TailCaring ==
  ASSUME NEW c \in BOOLEAN, NEW cmd, NEW d, NEW r, Handled(cmd, r, d), Cares(c, cmd, r),
         NEW j, j.cmd = cmd, j.todo = Tail(r.writes), j.wait = r.wait
  PROVE  CaringJob(c, d, j)
<1> DEFINE h == r.writes
           todo == Tail(h)
<1>1. /\ h \in Seq(Write) /\ h # << >> /\ h[1].disk = d /\ Careful(c, h)
      /\ r.wait = "tests" => Now(h).ex.packet /\ Now(h).cur = "VERIFYING"
      /\ r.wait \in {"worker", "bare worker"} => cmd = "run"
      /\ j.cmd = cmd /\ j.todo = todo /\ j.wait = r.wait
  BY DEF Handled, History, Cares
<1> HIDE DEF h
<1>2. /\ todo \in Seq(Write) /\ Len(todo) = Len(h) - 1 /\ Len(h) \in Nat /\ Len(h) >= 1
      /\ \A i \in 1..Len(todo) : todo[i] = h[i + 1]
  <2>1. h \in Seq(Write) /\ h # << >> BY <1>1
  <2> QED BY <2>1
<1> HIDE DEF todo
<1>3. Careful(c, todo)
  <2>1. ASSUME NEW i \in 1..Len(todo) PROVE Caring(c, todo[i].disk) /\ (todo[i].commit => c)
    <3>1. i + 1 \in 1..Len(h) BY <1>2
    <3> QED BY <1>1, <1>2, <3>1 DEF Careful
  <2> QED BY <2>1 DEF Careful
<1>4. Caring(c, d) /\ Plain(d)
  <2>1. 1 \in 1..Len(h) BY <1>2
  <2> QED BY <1>1, <2>1 DEF Careful, Caring
<1>5. Ends(todo, d) = Now(h)
  <2>1. CASE todo = << >>
    <3>1. Len(h) = 1 BY <1>2, <2>1
    <3> QED BY <1>1, <2>1, <3>1 DEF Ends, Now
  <2>2. CASE todo # << >>
    <3>1. Len(todo) \in 1..Len(todo) /\ Len(todo) + 1 = Len(h) BY <1>2, <2>2
    <3>2. todo[Len(todo)] = h[Len(h)] BY <1>2, <3>1
    <3> QED BY <2>2, <3>2 DEF Ends, Now
  <2> QED BY <2>1, <2>2
<1> QED BY <1>1, <1>3, <1>4, <1>5 DEF CaringJob

\* One write further.
LEMMA NextCaring ==
  ASSUME NEW c \in BOOLEAN, NEW d, NEW j \in Job, j.todo # << >>, Planned(j.cmd, j.todo, d),
         CaringJob(c, d, j), NEW k, k = [j EXCEPT !.todo = Tail(@)]
  PROVE  CaringJob(c, Head(j.todo).disk, k) /\ (Head(j.todo).commit => c)
<1> DEFINE todo == j.todo
           e == Head(todo).disk
           rest == Tail(todo)
<1>1. /\ todo \in Seq(Write) /\ Careful(c, todo) /\ todo # << >>
      /\ k.todo = rest /\ k.cmd = j.cmd /\ k.wait = j.wait
  BY DEF CaringJob, Job
<1>2. Ends(rest, e) = Ends(todo, d) BY <1>1, NextPlanned
<1>3. /\ Len(todo) \in Nat /\ Len(todo) >= 1 /\ Head(todo) = todo[1]
      /\ rest \in Seq(Write) /\ Len(rest) = Len(todo) - 1
      /\ \A i \in 1..Len(rest) : rest[i] = todo[i + 1]
  BY <1>1
<1> HIDE DEF todo
<1>4. 1 \in 1..Len(todo) /\ e = todo[1].disk BY <1>3
<1> HIDE DEF rest
<1>5. Careful(c, rest)
  <2>1. ASSUME NEW i \in 1..Len(rest) PROVE Caring(c, rest[i].disk) /\ (rest[i].commit => c)
    <3>1. i + 1 \in 1..Len(todo) BY <1>3
    <3> QED BY <1>1, <1>3, <3>1 DEF Careful
  <2> QED BY <2>1 DEF Careful
<1>6. Caring(c, e) /\ (Head(todo).commit => c) BY <1>1, <1>3, <1>4 DEF Careful
<1> HIDE DEF e
<1>7. Plain(e) BY <1>6 DEF Caring
<1> QED BY <1>1, <1>2, <1>5, <1>6, <1>7 DEF CaringJob, e, todo

\* A new project.
LEMMA CInvInit == Init => CInv
<1> SUFFICES ASSUME Init PROVE CInv OBVIOUS
<1>1. disk = EmptyDisk /\ job = NoJob /\ committer.pc = "idle" BY DEF Init
<1>2. EmptyDisk.cur = "" /\ ~EmptyDisk.ex.verified BY DEF EmptyDisk
<1>3. Caring(Tried, disk) BY <1>1, <1>2 DEF Caring, Plain, Credible
<1>4. Tried \in BOOLEAN BY DEF Tried
<1> QED BY <1>1, <1>3, <1>4, NoJobCaring DEF CInv

\* A write; the one that commits has the work tested.
LEMMA WriteCaring ==
  ASSUME IInv, CInv, WriteNext
  PROVE  CInv' /\ (dirty /\ ~dirty' => ~untested)
<1> DEFINE w == Head(job.todo)
<1>1. /\ job \in Job /\ Planned(job.cmd, job.todo, disk) /\ dirty \in BOOLEAN /\ untested \in BOOLEAN
      /\ CaringJob(Tried, disk, job) /\ Tried \in BOOLEAN
  BY DEF IInv, WorkOK, OthersOK, CInv, Tried
<1>2. /\ job.todo # << >> /\ disk' = w.disk /\ job' = [job EXCEPT !.todo = Tail(@)]
      /\ dirty' = (dirty /\ ~w.commit) /\ untested' = (untested /\ ~w.commit)
      /\ UNCHANGED committer
  BY DEF WriteNext
<1>3. (w.commit => Tried) /\ CaringJob(Tried, disk', job')
  <2>1. \A k : k = [job EXCEPT !.todo = Tail(@)] =>
               CaringJob(Tried, w.disk, k) /\ (w.commit => Tried)
    BY <1>1, <1>2, NextCaring
  <2> QED BY <1>2, <2>1
<1> HIDE DEF w
<1>4. Tried' = Tried
  <2>1. CASE w.commit
    <3>1. Tried /\ Tried' BY <1>2, <1>3, <2>1 DEF Tried
    <3> QED BY <3>1 DEF Tried
  <2>2. CASE ~w.commit
    <3>1. untested' = untested BY <1>1, <1>2, <2>2
    <3> QED BY <3>1 DEF Tried
  <2> QED BY <2>1, <2>2
<1>5. dirty /\ ~dirty' => ~untested BY <1>2, <1>3 DEF Tried
<1> QED BY <1>2, <1>3, <1>4, <1>5 DEF CInv

\* The worker.
LEMMA WorkCaring ==
  ASSUME IInv, CInv, NEW invoked \in Health, NEW edits \in BOOLEAN, Work(invoked, edits)
  PROVE  CInv'
<1> DEFINE r == AfterWorker(disk, job.wait = "worker", invoked)
<1>1. /\ disk \in Disk /\ job \in Job /\ Plain(disk) /\ (job.wait = "worker") \in BOOLEAN
      /\ invoked \in BOOLEAN /\ Tried' \in BOOLEAN
  BY EngineAssumption DEF IInv, WorkOK, CInv, CaringJob, Tried
<1>2. job.cmd = "run" BY DEF CInv, CaringJob, Work
<1>3. Careful(Tried', Tail(r.writes)) /\ Tail(r.writes) # << >> /\ r.wait = "none"
  BY <1>1, AfterWorkerCares
<1>4. Continue(r) /\ UNCHANGED <<disk, committer>> BY DEF Work
<1> HIDE DEF r
<1>5. job'.cmd = "run" /\ job'.todo = Tail(r.writes) /\ job'.wait = "none"
  BY <1>1, <1>2, <1>3, <1>4 DEF Continue, Job
<1>6. CaringJob(Tried', disk, job') BY <1>1, <1>3, <1>5 DEF CaringJob
<1> QED BY <1>4, <1>6 DEF CInv

\* The tests.
LEMMA TestsCaring ==
  ASSUME IInv, CInv, NEW outcome \in Outcomes, RunTests(outcome)
  PROVE  CInv'
<1> DEFINE confirmed == ManualConfirmed(disk, resp)
           r == AfterTests(disk, outcome, confirmed)
<1>1. /\ disk \in Disk /\ Sound(disk) /\ job \in Job /\ dirty \in BOOLEAN /\ untested \in BOOLEAN
      /\ CaringJob(Tried, disk, job) /\ Tried' \in BOOLEAN
  BY DEF IInv, WorkOK, OthersOK, CInv, Tried
<1>2. /\ Continue(r) /\ untested' = (untested /\ r.reply # "VERIFIED")
      /\ job.todo = << >> /\ job.wait = "tests" /\ UNCHANGED <<disk, dirty, committer>>
  BY DEF RunTests
<1>3. Handled(job.cmd, r, disk) BY <1>1, AfterTestsHandled
<1>4. disk.ex.packet /\ disk.cur = "VERIFYING" /\ Caring(Tried, disk)
  BY <1>1, <1>2 DEF CaringJob, Ends
<1>5. /\ Tried => Tried' BY <1>2 DEF Tried
<1>6. r.reply = "VERIFIED" => Tried' BY <1>2 DEF Tried
<1>7. Caring(Tried', disk) BY <1>4, <1>5 DEF Caring
<1>8. Cares(Tried', job.cmd, r)
  <2>1. \A c \in BOOLEAN : Caring(c, disk) /\ (r.reply = "VERIFIED" => c) => Cares(c, job.cmd, r)
    BY <1>1, <1>4, AfterTestsCares
  <2> HIDE DEF r
  <2> QED BY <1>1, <1>6, <1>7, <2>1
<1> HIDE DEF r
<1>9. job'.cmd = job.cmd /\ job'.todo = Tail(r.writes) /\ job'.wait = r.wait
  BY <1>1, <1>2 DEF Continue, Job
<1>10. CaringJob(Tried', disk, job')
  <2>1. \A c \in BOOLEAN : Cares(c, job.cmd, r) => CaringJob(c, disk, job')
    BY <1>3, <1>9, TailCaring
  <2> QED BY <1>1, <1>8, <2>1
<1> QED BY <1>2, <1>10 DEF CInv

\* A command begins.
LEMMA BeginCaring ==
  ASSUME NEW cmd, NEW by, NEW r, Handled(cmd, r, disk), Cares(Tried, cmd, r),
         Begin(cmd, by, r), UNCHANGED <<disk, dirty, untested, committer>>, CInv
  PROVE  CInv'
<1>1. job'.cmd = cmd /\ job'.todo = Tail(r.writes) /\ job'.wait = r.wait BY DEF Begin
<1>2. Tried \in BOOLEAN /\ Tried' = Tried BY DEF Tried
<1>3. CaringJob(Tried, disk, job') BY <1>1, <1>2, TailCaring
<1> QED BY <1>2, <1>3 DEF CInv

\* What users start.
LEMMA StartedCaring ==
  ASSUME IInv, CInv, UserStarts \/ ResumeVerify
  PROVE  CInv'
<1>1. disk \in Disk /\ Sound(disk) /\ dirty \in BOOLEAN /\ CaringJob(Tried, disk, job)
  BY DEF IInv, WorkOK, OthersOK, CInv
<1>2. Tried \in BOOLEAN BY DEF Tried
<1>3. job = NoJob => Caring(Tried, disk) BY <1>1, SettledCaring DEF NoJob
<1>4. ASSUME NEW cmd, NEW r, UserCommand(cmd, r), Handled(cmd, r, disk), Cares(Tried, cmd, r)
      PROVE  CInv'
  BY <1>4, BeginCaring DEF UserCommand
<1>5. ASSUME NEW cmd, NEW r, UserCommand(cmd, r) PROVE Caring(Tried, disk)
  BY <1>3, <1>5 DEF UserCommand, Begin
<1>6. CASE RunCommand
  <2>1. PICK requested \in PhaseId, checks \in Health, ready \in Health :
          UserCommand("run", RunProduct(disk, requested, checks, dirty, ready))
    BY <1>6 DEF RunCommand
  <2>2. checks \in BOOLEAN /\ ready \in BOOLEAN BY EngineAssumption
  <2> DEFINE r == RunProduct(disk, requested, checks, dirty, ready)
  <2>3. Handled("run", r, disk) BY <1>1, <2>2, RunHandled
  <2>4. Cares(Tried, "run", r) BY <1>1, <1>2, <1>5, <2>1, <2>2, RunCares
  <2> HIDE DEF r
  <2> QED BY <1>4, <2>1, <2>3, <2>4 DEF r
<1>7. CASE PrepareCommand
  <2>1. PICK requested \in PhaseId, checks \in Health :
          UserCommand("prepare", Prepare(disk, requested, checks, dirty))
    BY <1>7 DEF PrepareCommand
  <2>2. checks \in BOOLEAN BY EngineAssumption
  <2> DEFINE r == Prepare(disk, requested, checks, dirty)
  <2>3. Handled("prepare", r, disk) BY <1>1, <2>2, PrepareHandled
  <2>4. Cares(Tried, "prepare", r) BY <1>1, <1>2, <1>5, <2>1, <2>2, PrepareCares
  <2> HIDE DEF r
  <2> QED BY <1>4, <2>1, <2>3, <2>4 DEF r
<1>8. CASE VerifyCommand
  <2>1. UserCommand("verify", Verify(disk)) BY <1>8 DEF VerifyCommand
  <2>2. Handled("verify", Verify(disk), disk) BY <1>1, VerifyHandled
  <2>3. Cares(Tried, "verify", Verify(disk)) BY <1>1, <1>2, <1>5, <2>1, VerifyCares
  <2> QED BY <1>4, <2>1, <2>2, <2>3
<1>9. CASE ReviewCommand
  <2>1. UserCommand("review", Review(Start(disk))) BY <1>9 DEF ReviewCommand
  <2>2. Handled("review", Review(Start(disk)), disk) BY <1>1, ReviewHandled
  <2>3. Cares(Tried, "review", Review(Start(disk))) BY <1>1, <1>2, <1>5, <2>1, ReviewCares
  <2> QED BY <1>4, <2>1, <2>2, <2>3
<1>10. CASE RepairCommand
  <2>1. UserCommand("repair", PrepareRepair(disk)) BY <1>10 DEF RepairCommand
  <2>2. Handled("repair", PrepareRepair(disk), disk) BY <1>1, PrepareRepairHandled
  <2>3. Cares(Tried, "repair", PrepareRepair(disk)) BY <1>1, <1>2, <1>5, <2>1, PrepareRepairCares
  <2> QED BY <1>4, <2>1, <2>2, <2>3
<1>11. CASE ResumeCommand
  <2>1. UserCommand("resume", Resume(disk, resp)) BY <1>11 DEF ResumeCommand
  <2>2. Handled("resume", Resume(disk, resp), disk) BY <1>1, ResumeHandled
  <2>3. Cares(Tried, "resume", Resume(disk, resp)) BY <1>1, <1>2, <1>5, <2>1, ResumeCares
  <2> QED BY <1>4, <2>1, <2>2, <2>3
<1>12. CASE ResumeVerify
  <2>1. UNCHANGED <<disk, dirty, untested, committer>> BY <1>12 DEF ResumeVerify
  <2>2. CASE job = NoJob
    <3>1. Begin("verify", "user", Verify(disk)) BY <1>12, <2>2 DEF ResumeVerify
    <3>2. Handled("verify", Verify(disk), disk) BY <1>1, VerifyHandled
    <3>3. Cares(Tried, "verify", Verify(disk)) BY <1>1, <1>2, <1>3, <2>2, VerifyCares
    <3> QED BY <2>1, <3>1, <3>2, <3>3, BeginCaring
  <2>3. CASE job # NoJob
    <3>1. job' = job BY <1>12, <2>3 DEF ResumeVerify
    <3> QED BY <2>1, <3>1 DEF CInv, Tried
  <2> QED BY <2>2, <2>3
<1> QED BY <1>6, <1>7, <1>8, <1>9, <1>10, <1>11, <1>12 DEF UserStarts

\* A crash of any command but run leaves the tree as it is.
LEMMA CrashCaring ==
  ASSUME Attended, IInv, CInv, Crash
  PROVE  CInv' /\ dirty' = dirty
<1>1. /\ CaringJob(Tried, disk, job) /\ committer.pc = "idle" /\ dirty \in BOOLEAN /\ untested \in BOOLEAN
      /\ job.cmd \in Crashes /\ job.cmd # "run" /\ job' = NoJob /\ UNCHANGED <<disk, committer>>
  BY DEF IInv, OthersOK, CInv, Crash, Attended
<1>2. PICK edits \in BOOLEAN :
        /\ edits => job.wait \in {"worker", "bare worker"}
        /\ dirty' = (dirty \/ edits) /\ untested' = (untested \/ edits)
  BY DEF Crash
<1>3. ~edits BY <1>1, <1>2 DEF CaringJob
<1>4. dirty' = dirty /\ untested' = untested BY <1>1, <1>2, <1>3
<1>5. Tried' = Tried /\ Tried \in BOOLEAN BY <1>4 DEF Tried
<1>6. Caring(Tried, disk) BY <1>1, SettledCaring
<1>7. CaringJob(Tried, disk, NoJob) BY <1>5, <1>6, NoJobCaring
<1> QED BY <1>1, <1>4, <1>5, <1>7 DEF CInv

\* Every step.
LEMMA CStep ==
  ASSUME Attended, IInv, CInv, [Next]_vars
  PROVE  /\ CInv'
         /\ dirty /\ ~dirty' /\ (job.cmd # "none" \/ committer.pc = "cleared") => ~untested
<1>1. /\ CaringJob(Tried, disk, job) /\ committer.pc = "idle" /\ dirty \in BOOLEAN /\ untested \in BOOLEAN
      /\ job \in Job
  BY DEF IInv, WorkOK, OthersOK, CInv
<1>2. CASE WriteNext BY <1>2, WriteCaring
<1>3. ASSUME NEW invoked \in Health, NEW edits \in BOOLEAN, Work(invoked, edits)
      PROVE  CInv' /\ (dirty => dirty')
  BY <1>3, WorkCaring DEF Work
<1>4. ASSUME NEW outcome \in Outcomes, RunTests(outcome) PROVE CInv' /\ (dirty => dirty')
  BY <1>4, TestsCaring DEF RunTests
<1>5. CASE UserStarts \/ ResumeVerify
  <2>1. CInv' BY <1>5, StartedCaring
  <2>2. dirty' = dirty
    BY <1>5 DEF UserStarts, ResumeVerify, RunCommand, PrepareCommand, VerifyCommand,
                ReviewCommand, RepairCommand, ResumeCommand, UserCommand
  <2> QED BY <2>1, <2>2
<1>6. CASE Crash BY <1>6, CrashCaring
<1>7. CASE Unlock
  <2>1. job.todo = << >> /\ job' = NoJob /\ UNCHANGED <<disk, dirty, untested, committer>>
    BY <1>7 DEF Unlock
  <2>2. Tried' = Tried /\ Tried \in BOOLEAN BY <2>1 DEF Tried
  <2>3. Caring(Tried, disk) BY <1>1, <2>1, SettledCaring
  <2>4. CaringJob(Tried, disk, NoJob) BY <2>2, <2>3, NoJobCaring
  <2> QED BY <1>1, <2>1, <2>2, <2>4 DEF CInv
<1>8. CASE Edit
  <2>1. dirty' = TRUE /\ untested' = (untested \/ ~Trusted) /\ UNCHANGED <<disk, job, committer>>
    BY <1>8 DEF Edit
  <2>2. CASE Trusted
    <3>1. Tried' = Tried BY <1>1, <2>1, <2>2 DEF Tried
    <3> QED BY <2>1, <3>1, <1>1 DEF CInv
  <2>3. CASE ~Trusted
    <3>1. Tried' = FALSE BY <2>1, <2>3 DEF Tried
    <3>2. Careful(FALSE, job.todo)
      <4>1. \A i \in 1..Len(job.todo) :
              Caring(Tried, job.todo[i].disk) /\ (job.todo[i].commit => Tried)
        BY <1>1 DEF CaringJob, Careful
      <4>2. \A i \in 1..Len(job.todo) : ~Credible(job.todo[i].disk) /\ ~job.todo[i].commit
        <5>1. job.todo \in Seq(Write) BY <1>1 DEF Job
        <5>2. DOMAIN job.todo = 1..Len(job.todo) BY <5>1
        <5> QED BY <2>3, <5>2 DEF Trusted
      <4> QED BY <4>1, <4>2 DEF Careful, Caring
    <3>3. Plain(disk) /\ Caring(FALSE, disk) BY <1>1, <2>3 DEF CaringJob, Caring, Trusted
    <3>4. CaringJob(FALSE, disk, job) BY <1>1, <3>2, <3>3 DEF CaringJob
    <3> QED BY <1>1, <2>1, <3>1, <3>4 DEF CInv
  <2> QED BY <2>2, <2>3
<1>9. CASE Clean
  <2>1. job = NoJob /\ dirty' = FALSE /\ untested' = FALSE /\ UNCHANGED <<disk, job, committer>>
    BY <1>9 DEF Clean
  <2>2. Tried' /\ Tried' \in BOOLEAN BY <2>1 DEF Tried
  <2>3. Caring(Tried', disk) BY <1>1, <2>2 DEF CaringJob, Caring
  <2>4. CaringJob(Tried', disk, NoJob) BY <2>2, <2>3, NoJobCaring
  <2>5. job.cmd = "none" BY <2>1 DEF NoJob
  <2> QED BY <1>1, <2>1, <2>4, <2>5 DEF CInv
<1>10. CASE Committing
  BY <1>1, <1>10 DEF Committing, CommitCheck, CommitTree, CommitLoad, CommitSave, Attended
<1>11. CASE Feedback \/ UNCHANGED vars
  <2>1. UNCHANGED <<disk, dirty, job, committer, untested>> BY <1>11 DEF Feedback, vars
  <2> QED BY <2>1 DEF CInv, Tried
<1> QED BY <1>2, <1>3, <1>4, <1>5, <1>6, <1>7, <1>8, <1>9, <1>10, <1>11 DEF Next, Working

\* The engine commits no work that no passing tests have seen, whatever its commands
\* do in any order and wherever any of them but run crashes: a commit is made only for
\* evidence (loop.go checkpointLocked), and while a packet is worked on, by a worker or
\* in the session, there is none.  After a crash of run behind its worker there may be.
\* Edits made on top of evidence are outside the statement (Edit): verify has then
\* judged another tree than the one it commits.
THEOREM WorkIsTestedFirst ==
  ASSUME Attended
  PROVE  Spec => CommitsTestedWork
<1>1. IInv /\ CInv /\ [Next]_vars =>
        /\ CInv'
        /\ [dirty /\ ~dirty' /\ (job.cmd # "none" \/ committer.pc = "cleared") => ~untested]_vars
  BY CStep
<1> QED BY <1>1, CInvInit, Invariance, PTL DEF Spec, CommitsTestedWork

-----------------------------------------------------------------------------
\* The order of the phases

\* The phases that are COMPLETED, and those a pass over the graph leaves alone.
Done(s) == {p \in Phase : s[p] = "COMPLETED"}
Begun(s) == {p \in Phase : s[p] \in Sticky}

\* Files in which phases are in order.  A phase is begun only when what it depends
\* on is done; what may be COMPLETED, and a packet, are of begun phases; and, t,
\* no phase that depends on that of the packet is begun, which fails between two
\* writes of a command that prepares.
Lining(t, P, d) ==
  /\ \A p \in Begun(d.node) : Deps[p] \subseteq Done(d.node)
  /\ Earned(P, d) \ {NoPhase} \subseteq Begun(d.node)
  /\ d.ex.packet => d.ex.phase \in Begun(d.node)
  /\ t /\ d.ex.packet => \A p \in Begun(d.node) : d.ex.phase \notin Deps[p]

\* No phase is as if it had never begun.
Kept(d, e) == Begun(d.node) \subseteq Begun(e.node)

\* A write finishes a phase that has earned it and is due, or reopens one, or
\* neither; and whichever it does, it is not the write of a verdict.
Moves(P, d, e) ==
  \/ Done(e.node) = Done(d.node)
  \/ /\ e.ver = d.ver
     /\ \E p \in Phase :
          \/ Done(e.node) = Done(d.node) \ {p}
          \/ /\ p \in Earned(P, d) /\ Deps[p] \subseteq Done(d.node)
             /\ Done(e.node) = Done(d.node) \cup {p}

\* All files of a handler are such, and all it does from one to the next.
Lined(t, P, h) ==
  /\ \A i \in 1..Len(h) : Lining(t, P, h[i].disk)
  /\ \A i, k \in 1..Len(h) : i <= k => Kept(h[i].disk, h[k].disk)
  /\ \A i \in 1..(Len(h) - 1) : Moves(P, h[i].disk, h[i + 1].disk)

\* What a handler of cmd returns; it waits for a worker with the packet of its phase.
Lines(P, cmd, r) ==
  /\ Lined(~Preparing(cmd), P, r.writes)
  /\ Lining(TRUE, P, Now(r.writes))
  /\ r.wait = "worker" =>
       Now(r.writes).ex.packet /\ Now(r.writes).ex.phase = Now(r.writes).phase

\* A pass changes neither set.
LEMMA RefreshSets ==
  ASSUME NEW s \in Statuses
  PROVE  Done(Refresh(Deps, s)) = Done(s) /\ Begun(Refresh(Deps, s)) = Begun(s)
BY DepsType, RefreshKeeps DEF Done, Begun

\* What SetStatus does to them.
LEMMA SetSets ==
  ASSUME NEW s \in Statuses, NEW p \in PhaseId, NEW x \in Sticky
  PROVE  LET u == SetStatus(Deps, s, p, x)
         IN  /\ u \in Statuses
             /\ p \notin Phase => Done(u) = Done(s) /\ Begun(u) = Begun(s)
             /\ p \in Phase =>
                  /\ Begun(u) = Begun(s) \cup {p}
                  /\ Done(u) = IF x = "COMPLETED" THEN Done(s) \cup {p} ELSE Done(s) \ {p}
<1>1. DOMAIN s = Phase BY OnPhases
<1>2. CASE p \notin Phase BY <1>1, <1>2 DEF SetStatus
<1>3. CASE p \in Phase
  <2> DEFINE set == [s EXCEPT ![p] = x]
  <2>1. set \in Statuses BY <1>3 DEF Statuses, Status, Sticky
  <2>2. SetStatus(Deps, s, p, x) = Refresh(Deps, set) BY <1>1, <1>3 DEF SetStatus
  <2>3. \A q \in Phase : set[q] = IF q = p THEN x ELSE s[q] BY <1>3 DEF Statuses
  <2> HIDE DEF set
  <2>4. Begun(set) = Begun(s) \cup {p} BY <1>3, <2>3 DEF Begun
  <2>5. Done(set) = IF x = "COMPLETED" THEN Done(s) \cup {p} ELSE Done(s) \ {p}
    <3>1. CASE x = "COMPLETED" BY <1>3, <2>3, <3>1 DEF Done
    <3>2. CASE x # "COMPLETED" BY <1>3, <2>3, <3>2 DEF Done
    <3> QED BY <3>1, <3>2
  <2>6. Refresh(Deps, set) \in Statuses BY <2>1, DepsType, RefreshType
  <2> QED BY <1>3, <2>1, <2>2, <2>4, <2>5, <2>6, RefreshSets
<1> QED BY <1>2, <1>3

\* Files that differ in neither the graph, the packet nor the verdict.
Alike(d, e) ==
  /\ e.node = d.node /\ e.ver = d.ver
  /\ e.ex.packet => d.ex.packet /\ e.ex.phase = d.ex.phase

\* They are in order alike.
LEMMA AlikeLining ==
  ASSUME NEW t, NEW P, NEW d, NEW e, Alike(d, e), Lining(t, P, d)
  PROVE  Lining(t, P, e) /\ Kept(d, e) /\ Moves(P, d, e)
<1>1. Earned(P, e) = Earned(P, d) BY DEF Alike, Earned
<1> QED BY <1>1 DEF Alike, Lining, Kept, Moves

\* Less is demanded in the middle of a command that prepares.
LEMMA LiningWeaker ==
  ASSUME NEW t, NEW P, NEW d, Lining(TRUE, P, d)
  PROVE  Lining(t, P, d)
BY DEF Lining

\* One write more.
LEMMA AppendLined ==
  ASSUME NEW t, NEW P, NEW h \in Seq(Write), h # << >>, Lined(t, P, h), NEW w \in Write,
         Lining(t, P, w.disk), Kept(Now(h), w.disk), Moves(P, Now(h), w.disk)
  PROVE  Lined(t, P, Append(h, w))
<1> DEFINE g == Append(h, w)
           n == Len(h)
<1>1. /\ Len(g) = n + 1 /\ n \in Nat /\ n >= 1
      /\ \A i \in 1..n : g[i] = h[i]
      /\ g[n + 1] = w
  OBVIOUS
<1>2. Now(h) = h[n].disk BY DEF Now
<1> HIDE DEF g, n
<1>3. ASSUME NEW i \in 1..Len(g) PROVE Lining(t, P, g[i].disk)
  <2>1. CASE i \in 1..n BY <1>1, <2>1 DEF Lined, n
  <2>2. CASE i = n + 1 BY <1>1, <2>2
  <2> QED BY <1>1, <2>1, <2>2
<1>4. ASSUME NEW i \in 1..Len(g), NEW k \in 1..Len(g), i <= k
      PROVE  Kept(g[i].disk, g[k].disk)
  <2>1. CASE k \in 1..n
    <3>1. i \in 1..n BY <1>1, <1>4, <2>1
    <3> QED BY <1>1, <1>4, <2>1, <3>1 DEF Lined, n
  <2>2. CASE i \in 1..n /\ k = n + 1
    <3>1. n \in 1..n /\ i <= n BY <1>1, <2>2
    <3>2. Kept(h[i].disk, h[n].disk) BY <2>2, <3>1 DEF Lined, n
    <3>3. Kept(h[i].disk, w.disk) BY <1>2, <3>2 DEF Kept
    <3> QED BY <1>1, <2>2, <3>3
  <2>3. CASE i = n + 1 /\ k = n + 1 BY <2>3 DEF Kept
  <2> QED BY <1>1, <1>4, <2>1, <2>2, <2>3
<1>5. ASSUME NEW i \in 1..(Len(g) - 1) PROVE Moves(P, g[i].disk, g[i + 1].disk)
  <2>1. CASE i \in 1..(n - 1)
    <3>1. i \in 1..n /\ i + 1 \in 1..n BY <1>1, <2>1
    <3> QED BY <1>1, <2>1, <3>1 DEF Lined, n
  <2>2. CASE i = n
    <3>1. n \in 1..n BY <1>1
    <3> QED BY <1>1, <1>2, <2>2, <3>1
  <2> QED BY <1>1, <2>1, <2>2
<1> QED BY <1>3, <1>4, <1>5 DEF Lined, g

\* The same for a write that makes no checkpoint.
LEMMA ThenLined ==
  ASSUME NEW t, NEW P, NEW cmd, NEW d, NEW h, History(cmd, h, d), Lined(t, P, h),
         NEW e \in Disk, Lining(t, P, e), Kept(Now(h), e), Moves(P, Now(h), e)
  PROVE  Lined(t, P, Then(h, e)) /\ Now(Then(h, e)) = e
<1> DEFINE w == [disk |-> e, commit |-> FALSE]
<1>1. w \in Write /\ w.disk = e BY DEF Write
<1> HIDE DEF w
<1>2. Then(h, e) = Append(h, w) BY DEF Then, w
<1>3. h \in Seq(Write) /\ h # << >> BY DEF History
<1>4. Now(Append(h, w)) = w.disk BY <1>3 DEF Now
<1> QED BY <1>1, <1>2, <1>3, <1>4, AppendLined

\* The last files of a handler.
LEMMA NowLining ==
  ASSUME NEW t, NEW P, NEW cmd, NEW d, NEW h, History(cmd, h, d), Lined(t, P, h)
  PROVE  Lining(t, P, Now(h))
<1>1. h \in Seq(Write) /\ Len(h) \in 1..Len(h) BY DEF History
<1> QED BY <1>1 DEF Lined, Now

\* A handler starts from the files as they are.
LEMMA StartLined ==
  ASSUME NEW t, NEW P, NEW d \in Disk, Lining(t, P, d)
  PROVE  Lined(t, P, Start(d))
<1>1. Len(Start(d)) = 1 /\ Start(d)[1].disk = d BY DEF Start
<1> HIDE DEF Start
<1>2. Kept(d, d) BY DEF Kept
<1> QED BY <1>1, <1>2 DEF Lined

\* A write of neither the graph nor a packet nor a verdict.
LEMMA AlikeLined ==
  ASSUME NEW t, NEW P, NEW cmd, NEW d, NEW h, History(cmd, h, d), Lined(t, P, h),
         NEW e \in Disk, Alike(Now(h), e), NEW t2, Lining(t2, P, Now(h))
  PROVE  Lined(t, P, Then(h, e)) /\ Lining(t2, P, Now(Then(h, e)))
<1>1. Lining(t, P, Now(h)) BY NowLining
<1>2. Lining(t, P, e) /\ Kept(Now(h), e) /\ Moves(P, Now(h), e) BY <1>1, AlikeLining
<1>3. Lining(t2, P, e) BY AlikeLining
<1> QED BY <1>2, <1>3, ThenLined

\* Such as those of state.json.
LEMMA SaveLined ==
  ASSUME NEW t, NEW P, NEW cmd, NEW d, NEW h, History(cmd, h, d), Lined(t, P, h),
         NEW cur \in CurrentState, NEW phase \in PhaseId, NEW t2, Lining(t2, P, Now(h))
  PROVE  Lined(t, P, Save(h, cur, phase)) /\ Lining(t2, P, Now(Save(h, cur, phase)))
<1> DEFINE e == [Now(h) EXCEPT !.cur = cur, !.phase = phase]
<1>1. Now(h) \in Disk BY NowType
<1>2. e \in Disk /\ Alike(Now(h), e) BY <1>1 DEF Disk, Alike
<1>3. Save(h, cur, phase) = Then(h, e) BY DEF Save
<1> HIDE DEF e
<1> QED BY <1>2, <1>3, AlikeLined

\* Those of incident.json.
LEMMA IncidentLined ==
  ASSUME NEW t, NEW P, NEW cmd, NEW d, NEW h, History(cmd, h, d), Lined(t, P, h),
         NEW inc \in Incident, NEW t2, Lining(t2, P, Now(h))
  PROVE  Lined(t, P, SaveIncident(h, inc)) /\ Lining(t2, P, Now(SaveIncident(h, inc)))
<1> DEFINE e == [Now(h) EXCEPT !.inc = inc]
<1>1. Now(h) \in Disk BY NowType
<1>2. e \in Disk /\ Alike(Now(h), e) BY <1>1 DEF Disk, Alike
<1>3. SaveIncident(h, inc) = Then(h, e) BY DEF SaveIncident
<1> HIDE DEF e
<1> QED BY <1>2, <1>3, AlikeLined

\* An execution with the packet there was, or without one.
LEMMA ExecutionLined ==
  ASSUME NEW t, NEW P, NEW cmd, NEW d, NEW h, History(cmd, h, d), Lined(t, P, h),
         NEW ex \in Execution,
         ex.packet => Now(h).ex.packet /\ ex.phase = Now(h).ex.phase,
         NEW t2, Lining(t2, P, Now(h)) \/ ~ex.packet
  PROVE  Lined(t, P, WriteExecution(h, ex)) /\ Lining(t2, P, Now(WriteExecution(h, ex)))
<1> DEFINE e == [Now(h) EXCEPT !.ex = ex]
<1>1. Now(h) \in Disk BY NowType
<1>2. e \in Disk /\ Alike(Now(h), e) /\ e.ex = ex BY <1>1 DEF Disk, Alike
<1>3. WriteExecution(h, ex) = Then(h, e) BY DEF WriteExecution
<1> HIDE DEF e
<1>4. Lining(t, P, Now(h)) BY NowLining
<1>5. Lining(t, P, e) /\ Kept(Now(h), e) /\ Moves(P, Now(h), e) BY <1>2, <1>4, AlikeLining
<1>6. Lining(t2, P, e)
  <2>1. CASE Lining(t2, P, Now(h)) BY <1>2, <2>1, AlikeLining
  <2>2. CASE ~ex.packet BY <1>2, <1>5, <2>2 DEF Lining
  <2> QED BY <2>1, <2>2
<1>7. Lined(t, P, Then(h, e)) /\ Now(Then(h, e)) = e BY <1>2, <1>5, ThenLined
<1> QED BY <1>3, <1>6, <1>7

\* What a pass over the graph, written to it, leaves of the files.
LEMMA Regraphed ==
  ASSUME NEW cmd, NEW d, NEW h, History(cmd, h, d), NEW node \in Statuses
  PROVE  LET g == PersistGraph(h, node)
         IN  /\ g = Then(h, Now(g)) /\ Now(g) \in Disk
             /\ SameButGraph(Now(h), Now(g)) /\ Now(g).node = Refresh(Deps, node)
             /\ Done(Now(g).node) = Done(node) /\ Begun(Now(g).node) = Begun(node)
<1> DEFINE e == [Now(h) EXCEPT !.node = Refresh(Deps, node)]
<1>1. Now(h) \in Disk /\ h \in Seq(Write) BY NowType DEF History
<1>2. Refresh(Deps, node) \in Statuses BY DepsType, RefreshType
<1>3. e \in Disk /\ SameButGraph(Now(h), e) /\ e.node = Refresh(Deps, node)
  BY <1>1, <1>2 DEF Disk, SameButGraph, Statuses
<1>4. PersistGraph(h, node) = Then(h, e) BY DEF PersistGraph
<1> HIDE DEF e
<1>5. Now(Then(h, e)) = e BY <1>1 DEF Then, Now
<1> QED BY <1>3, <1>4, <1>5, RefreshSets

\* And what markPhase does.
LEMMA Marked ==
  ASSUME NEW cmd, NEW d, NEW h, History(cmd, h, d), NEW p \in PhaseId, NEW x \in Sticky
  PROVE  LET g == MarkPhase(h, p, x)
             e == Now(g)
         IN  /\ g = Then(h, e) /\ e \in Disk /\ SameButGraph(Now(h), e)
             /\ p \notin Phase => Done(e.node) = Done(Now(h).node) /\ Begun(e.node) = Begun(Now(h).node)
             /\ p \in Phase =>
                  /\ Begun(e.node) = Begun(Now(h).node) \cup {p}
                  /\ x = "COMPLETED" => Done(e.node) = Done(Now(h).node) \cup {p}
                  /\ x # "COMPLETED" => Done(e.node) = Done(Now(h).node) \ {p}
<1> DEFINE u == SetStatus(Deps, Now(h).node, p, x)
<1>1. Now(h).node \in Statuses BY NowType DEF Disk, Statuses
<1>2. /\ u \in Statuses
      /\ p \notin Phase => Done(u) = Done(Now(h).node) /\ Begun(u) = Begun(Now(h).node)
      /\ p \in Phase =>
           /\ Begun(u) = Begun(Now(h).node) \cup {p}
           /\ Done(u) = IF x = "COMPLETED" THEN Done(Now(h).node) \cup {p}
                        ELSE Done(Now(h).node) \ {p}
  BY <1>1, SetSets
<1>3. MarkPhase(h, p, x) = PersistGraph(h, u) BY DEF MarkPhase
<1> HIDE DEF u
<1> QED BY <1>2, <1>3, Regraphed

\* Of a phase of the graph, and any status but COMPLETED.
LEMMA MarkedBegun ==
  ASSUME NEW cmd, NEW d, NEW h, History(cmd, h, d), NEW p \in Phase,
         NEW x \in Sticky \ {"COMPLETED"}
  PROVE  LET g == MarkPhase(h, p, x)
             e == Now(g)
         IN  /\ g = Then(h, e) /\ e \in Disk /\ SameButGraph(Now(h), e)
             /\ Begun(e.node) = Begun(Now(h).node) \cup {p}
             /\ Done(e.node) = Done(Now(h).node) \ {p}
<1>1. p \in PhaseId BY DEF PhaseId
<1> QED BY <1>1, Marked

\* Nothing but the derived statuses changes.
LEMMA Resting ==
  ASSUME NEW t, NEW P, NEW d, NEW e, Lining(t, P, d), SameButGraph(d, e),
         Done(e.node) = Done(d.node), Begun(e.node) = Begun(d.node)
  PROVE  Lining(t, P, e) /\ Kept(d, e) /\ Moves(P, d, e)
<1>1. Earned(P, e) = Earned(P, d) BY DEF SameButGraph, Earned
<1> QED BY <1>1 DEF SameButGraph, Lining, Kept, Moves

\* A phase is finished that has earned it: it was begun, so it is due.
LEMMA Finishing ==
  ASSUME NEW t, NEW P, NEW d, NEW e, Lining(t, P, d), SameButGraph(d, e),
         NEW p \in Phase, p \in Earned(P, d),
         Done(e.node) = Done(d.node) \cup {p}, Begun(e.node) = Begun(d.node) \cup {p}
  PROVE  Lining(t, P, e) /\ Kept(d, e) /\ Moves(P, d, e)
<1>1. Earned(P, e) = Earned(P, d) BY DEF SameButGraph, Earned
<1>2. p # NoPhase BY PhaseAssumption DEF Phase, NoPhase
<1>3. p \in Begun(d.node) BY <1>2 DEF Lining
<1>4. Begun(e.node) = Begun(d.node) BY <1>3
<1>5. Deps[p] \subseteq Done(d.node) BY <1>3 DEF Lining
<1>6. Kept(d, e) /\ Moves(P, d, e) BY <1>4, <1>5 DEF SameButGraph, Kept, Moves
<1>7. Lining(t, P, e) BY <1>1, <1>4 DEF SameButGraph, Lining
<1> QED BY <1>6, <1>7

\* The phase of the packet is reopened, on which nothing begun depends.
LEMMA Reopening ==
  ASSUME NEW P, NEW d, NEW e, Lining(TRUE, P, d), SameButGraph(d, e),
         d.ex.packet, NEW p \in Phase, p = d.ex.phase,
         Done(e.node) = Done(d.node) \ {p}, Begun(e.node) = Begun(d.node) \cup {p}
  PROVE  Lining(TRUE, P, e) /\ Kept(d, e) /\ Moves(P, d, e)
<1>1. Earned(P, e) = Earned(P, d) BY DEF SameButGraph, Earned
<1>2. Begun(e.node) = Begun(d.node) BY DEF Lining
<1>3. \A q \in Begun(d.node) : p \notin Deps[q] /\ Deps[q] \subseteq Done(d.node) BY DEF Lining
<1>4. Kept(d, e) /\ Moves(P, d, e) BY <1>2 DEF SameButGraph, Kept, Moves
<1>5. Lining(TRUE, P, e) BY <1>1, <1>2, <1>3 DEF SameButGraph, Lining
<1> QED BY <1>4, <1>5

\* A phase that is due is begun.
LEMMA Starting ==
  ASSUME NEW P, NEW d, NEW e, Lining(FALSE, P, d), SameButGraph(d, e),
         NEW p \in Phase, Deps[p] \subseteq Done(d.node), p \notin Done(d.node),
         Done(e.node) = Done(d.node) \ {p}, Begun(e.node) = Begun(d.node) \cup {p}
  PROVE  Lining(FALSE, P, e) /\ Kept(d, e) /\ Moves(P, d, e)
<1>1. Earned(P, e) = Earned(P, d) BY DEF SameButGraph, Earned
<1>2. Done(e.node) = Done(d.node) OBVIOUS
<1>3. Kept(d, e) /\ Moves(P, d, e) BY <1>2 DEF Kept, Moves
<1>4. Lining(FALSE, P, e) BY <1>1, <1>2 DEF SameButGraph, Lining
<1> QED BY <1>3, <1>4

\* It gets its packet: what depends on it is not begun, as it is not done.
LEMMA Packing ==
  ASSUME NEW P, NEW d, NEW e, Lining(FALSE, P, d), SameButExecution(d, e),
         e.ex.phase \in Begun(d.node), e.ex.phase \notin Done(d.node)
  PROVE  Lining(TRUE, P, e) /\ Kept(d, e) /\ Moves(P, d, e)
<1>1. Earned(P, e) = Earned(P, d) BY DEF SameButExecution, Earned
<1> QED BY <1>1 DEF SameButExecution, Lining, Kept, Moves

\* completeLocked finishes what has earned it.
LEMMA CompleteLined ==
  ASSUME NEW t, NEW P, NEW cmd, NEW d, NEW h, History(cmd, h, d), Lined(t, P, h),
         NEW phase \in PhaseId, phase \in Earned(P, Now(h)), NEW t2, Lining(t2, P, Now(h))
  PROVE  LET g == CompletePhase(h, phase)
         IN  Lined(t, P, g) /\ Lining(t2, P, Now(g))
<1> DEFINE w == [disk |-> Now(h), commit |-> TRUE]
           b == IF AutoCommit THEN Append(h, w) ELSE h
           m == MarkPhase(b, phase, "COMPLETED")
<1>1. Now(h) \in Disk /\ h \in Seq(Write) /\ h # << >> BY NowType DEF History
<1>2. Lining(t, P, Now(h)) BY NowLining
<1>3. History(cmd, b, d) /\ Now(b) = Now(h) /\ Lined(t, P, b)
  <2>1. w \in Write /\ w.disk = Now(h) BY <1>1 DEF Write
  <2>2. Kept(Now(h), Now(h)) /\ Moves(P, Now(h), Now(h)) BY DEF Kept, Moves
  <2>3. Lined(t, P, Append(h, w)) BY <1>1, <1>2, <2>1, <2>2, AppendLined
  <2>4. History(cmd, Append(h, w), d) /\ Now(Append(h, w)) = Now(h) BY CommitHistory
  <2> QED BY <2>3, <2>4
<1>4. CompletePhase(h, phase) = Save(m, "COMPLETED", phase) BY DEF CompletePhase
<1> HIDE DEF b
<1>5. "COMPLETED" \in Sticky /\ "COMPLETED" \in Status /\ "COMPLETED" \in CurrentState
  BY DEF Sticky, Status, CurrentState
<1>6. History(cmd, m, d) BY <1>3, <1>5, MarkHistory
<1>7. /\ m = Then(b, Now(m)) /\ Now(m) \in Disk
      /\ \A x : Lining(x, P, Now(b)) =>
           Lining(x, P, Now(m)) /\ Kept(Now(b), Now(m)) /\ Moves(P, Now(b), Now(m))
  <2>1. /\ m = Then(b, Now(m)) /\ Now(m) \in Disk /\ SameButGraph(Now(b), Now(m))
        /\ phase \notin Phase => Done(Now(m).node) = Done(Now(b).node) /\ Begun(Now(m).node) = Begun(Now(b).node)
        /\ phase \in Phase => /\ Begun(Now(m).node) = Begun(Now(b).node) \cup {phase}
                              /\ Done(Now(m).node) = Done(Now(b).node) \cup {phase}
    <3>1. \A x \in Sticky : x = "COMPLETED" =>
            LET g == MarkPhase(b, phase, x)
                e == Now(g)
            IN  /\ g = Then(b, e) /\ e \in Disk /\ SameButGraph(Now(b), e)
                /\ phase \notin Phase => Done(e.node) = Done(Now(b).node) /\ Begun(e.node) = Begun(Now(b).node)
                /\ phase \in Phase => /\ Begun(e.node) = Begun(Now(b).node) \cup {phase}
                                      /\ Done(e.node) = Done(Now(b).node) \cup {phase}
      BY <1>3, Marked
    <3> QED BY <1>5, <3>1
  <2> HIDE DEF m
  <2>2. ASSUME NEW x, Lining(x, P, Now(b))
        PROVE  Lining(x, P, Now(m)) /\ Kept(Now(b), Now(m)) /\ Moves(P, Now(b), Now(m))
    <3>1. CASE phase \notin Phase BY <2>1, <2>2, <3>1, Resting
    <3>2. CASE phase \in Phase
      <4>1. phase \in Earned(P, Now(b)) BY <1>3
      <4> QED BY <2>1, <2>2, <3>2, <4>1, Finishing
    <3> QED BY <3>1, <3>2
  <2> QED BY <2>1, <2>2
<1> HIDE DEF m
<1>8. Lined(t, P, m) /\ Lining(t2, P, Now(m)) BY <1>2, <1>3, <1>7, ThenLined
<1> QED BY <1>4, <1>5, <1>6, <1>8, SaveLined

\* A request for a human reopens the phase of the packet.
LEMMA RequestLined ==
  ASSUME NEW t \in BOOLEAN, NEW P, NEW cmd, NEW d, NEW h, History(cmd, h, d), Lined(t, P, h),
         Lining(TRUE, P, Now(h)), Now(h).ex.packet, NEW phase \in Phase, phase = Now(h).ex.phase,
         NEW kind \in {"manual", "repair", "blocked", "runtime"}
  PROVE  LET g == RequestHuman(h, phase, kind)
         IN  Lined(t, P, g) /\ Lining(TRUE, P, Now(g))
<1> DEFINE e == [Now(h) EXCEPT !.req = [kind |-> kind, stamp |-> ~@.stamp]]
           a == Then(h, e)
           m == MarkPhase(a, phase, "WAITING_FOR_HUMAN")
<1>1. Now(h) \in Disk /\ Sound(Now(h)) BY NowType
<1>2. /\ e \in Disk /\ e.inc = Now(h).inc /\ e.ex = Now(h).ex /\ e.cur = Now(h).cur
      /\ e.node = Now(h).node /\ e.ver = Now(h).ver
  BY <1>1 DEF Disk, Request
<1>3. RequestHuman(h, phase, kind) = Save(m, "WAITING_FOR_HUMAN", phase) BY DEF RequestHuman
<1> HIDE DEF e
<1>4. /\ History(cmd, a, d) /\ Now(a) = e
      /\ Lined(t, P, a) /\ Lining(TRUE, P, Now(a))
  <2>1. Sound(e) BY <1>1, <1>2 DEF Sound
  <2>2. Obeys(cmd, Now(h), e) BY <1>1, <1>2 DEF Obeys, Follows, Disk, Incident
  <2>3. Alike(Now(h), e) BY <1>2 DEF Alike
  <2>4. History(cmd, a, d) /\ Now(a) = e BY <1>2, <2>1, <2>2, ThenHistory
  <2>5. Lined(t, P, a) /\ Lining(TRUE, P, Now(a)) BY <1>2, <2>3, AlikeLined
  <2> QED BY <2>4, <2>5
<1> HIDE DEF a
<1>5. phase \in PhaseId /\ "WAITING_FOR_HUMAN" \in Sticky /\ "WAITING_FOR_HUMAN" \in Status
      /\ "WAITING_FOR_HUMAN" \in CurrentState
  BY DEF Sticky, Status, CurrentState, PhaseId
<1>6. History(cmd, m, d) BY <1>4, <1>5, MarkHistory
<1>7. /\ m = Then(a, Now(m)) /\ Now(m) \in Disk /\ SameButGraph(Now(a), Now(m))
      /\ Begun(Now(m).node) = Begun(Now(a).node) \cup {phase}
      /\ Done(Now(m).node) = Done(Now(a).node) \ {phase}
  <2>1. History(cmd, a, d) /\ "WAITING_FOR_HUMAN" \in Sticky \ {"COMPLETED"} BY <1>4 DEF Sticky
  <2> QED BY ONLY <2>1, phase \in Phase, MarkedBegun
<1> HIDE DEF m
<1>8. Lining(TRUE, P, Now(m)) /\ Kept(Now(a), Now(m)) /\ Moves(P, Now(a), Now(m))
  <2>1. Now(a).ex.packet /\ phase = Now(a).ex.phase BY <1>2, <1>4
  <2> QED BY <1>4, <1>7, <2>1, Reopening
<1>9. Lined(t, P, m)
  <2>1. Lining(t, P, Now(m)) BY <1>8, LiningWeaker
  <2> QED BY <1>4, <1>7, <1>8, <2>1, ThenLined
<1> QED BY <1>3, <1>5, <1>6, <1>8, <1>9, SaveLined

\* A refusal leaves no packet.
LEMMA RefusalLined ==
  ASSUME NEW t, NEW P, NEW cmd, NEW d, NEW h, History(cmd, h, d), Lined(t, P, h), NEW p \in PhaseId
  PROVE  Lined(t, P, RefusalFor(h, p)) /\ Lining(TRUE, P, Now(RefusalFor(h, p)))
<1> DEFINE ex == [phase |-> p, packet |-> FALSE, invoked |-> FALSE,
                  verified |-> FALSE, attempt |-> 0]
<1>1. ex \in Execution /\ ~ex.packet BY DEF Execution
<1>2. RefusalFor(h, p) = WriteExecution(h, ex) BY DEF RefusalFor
<1> HIDE DEF ex
<1> QED BY <1>1, <1>2, ExecutionLined

\* recoverLocked completes a phase with a verified execution, which has earned it.
LEMMA RecoverLined ==
  ASSUME AutoCommit, NEW t, NEW P, NEW cmd, NEW d, NEW h, History(cmd, h, d), Lined(t, P, h),
         Backing(TRUE, FALSE, P, Now(h)), NEW t2, Lining(t2, P, Now(h))
  PROVE  LET g == Recover(h).writes
         IN  Lined(t, P, g) /\ Lining(t2, P, Now(g))
<1> DEFINE e == Now(h)
<1>1. e.phase \in PhaseId BY NowType DEF Disk
<1>2. \/ Recover(h).writes = h
      \/ Recover(h).writes = Save(h, "WORKER_CLAIMED_DONE", e.phase)
      \/ /\ e.ex.verified
         /\ Recover(h).writes = CompletePhase(h, e.phase)
  BY DEF Recover, Return, CommitGate
<1>3. "WORKER_CLAIMED_DONE" \in CurrentState BY DEF CurrentState
<1>4. /\ Lined(t, P, Save(h, "WORKER_CLAIMED_DONE", e.phase))
      /\ Lining(t2, P, Now(Save(h, "WORKER_CLAIMED_DONE", e.phase)))
  BY <1>1, <1>3, SaveLined
<1>5. ASSUME e.ex.verified
      PROVE  /\ Lined(t, P, CompletePhase(h, e.phase))
             /\ Lining(t2, P, Now(CompletePhase(h, e.phase)))
  <2>1. e.phase \in Earned(P, e) BY <1>5 DEF Backing
  <2> QED BY <1>1, <2>1, CompleteLined
<1> QED BY <1>2, <1>4, <1>5

\* prepareLocked begins only a phase that is due.
LEMMA PrepareLockedLined ==
  ASSUME NEW P, NEW cmd, NEW d, NEW h, History(cmd, h, d), Lined(FALSE, P, h),
         Backing(TRUE, FALSE, P, Now(h)), Lining(TRUE, P, Now(h)),
         NEW requested \in PhaseId, NEW checks \in BOOLEAN, NEW unclean \in BOOLEAN
  PROVE  LET r == PrepareLocked(h, requested, checks, unclean)
         IN  Lined(FALSE, P, r.writes) /\ Lining(TRUE, P, Now(r.writes))
<1> DEFINE e == Now(h)
           merged == MergeStatus(Deps, e.node)
           finished == e.cur = "COMPLETED" /\ e.phase \in DOMAIN merged
                       /\ merged[e.phase] = "RUNNING"
           start == IF finished THEN SetStatus(Deps, merged, e.phase, "COMPLETED") ELSE merged
           graph == PersistGraph(h, start)
           node == Now(graph).node
           resume == IF e.cur = "COMPLETED" THEN NoPhase ELSE e.phase
           choice == SelectRunnable(node, requested, resume)
           p == choice.phase
           marked == IF node[p] = "RUNNING" THEN graph ELSE MarkPhase(graph, p, "RUNNING")
           ex == [phase |-> p, packet |-> TRUE, invoked |-> FALSE,
                  verified |-> FALSE, attempt |-> 0]
           packet == WriteExecution(marked, ex)
           r == PrepareLocked(h, requested, checks, unclean)
<1>1. e \in Disk /\ e.phase \in PhaseId /\ e.node \in Statuses BY NowType DEF Disk, Statuses
<1>2. \/ r = Return(h, "waiting")
      \/ r = Return(RefusalFor(h, NoPhase), "refused")
      \/ r = Return(Save(graph, "COMPLETED", e.phase), "project completed")
      \/ r = Return(RefusalFor(graph, requested), "refused")
      \/ p # NoPhase /\ r = Return(RefusalFor(marked, p), "refused")
      \/ p # NoPhase /\ r = Return(Save(packet, "PREPARED", p), "prepared")
  BY DEF PrepareLocked
<1> DEFINE Good(g) == Lined(FALSE, P, g) /\ Lining(TRUE, P, Now(g))
<1>3. History(cmd, h, d) /\ Good(h) OBVIOUS
<1> HIDE DEF r
<1>4. merged \in Statuses /\ Done(merged) = Done(e.node) /\ Begun(merged) = Begun(e.node)
  <2> DEFINE all == [q \in Phase |-> IF q \in Phase THEN e.node[q] ELSE "PENDING"]
  <2>1. all = e.node BY <1>1 DEF Statuses
  <2>2. merged = Refresh(Deps, all) BY <1>1, OnPhases, DepsType DEF MergeStatus
  <2> HIDE DEF all, e
  <2>3. merged = Refresh(Deps, e.node) BY <2>1, <2>2
  <2> QED BY <1>1, <2>3, DepsType, RefreshType, RefreshSets
<1> HIDE DEF merged
<1>5. /\ start \in Statuses
      /\ \/ Done(start) = Done(e.node) /\ Begun(start) = Begun(e.node)
         \/ /\ e.phase \in Phase /\ e.phase \in Earned(P, e)
            /\ Done(start) = Done(e.node) \cup {e.phase}
            /\ Begun(start) = Begun(e.node) \cup {e.phase}
  <2>1. CASE finished
    <3>1. e.phase \in Phase /\ e.cur = "COMPLETED" BY <1>4, <2>1, OnPhases
    <3>2. e.phase \in Earned(P, e) BY <3>1 DEF Backing
    <3>3. start = SetStatus(Deps, merged, e.phase, "COMPLETED") BY <2>1
    <3>4. "COMPLETED" \in Sticky BY DEF Sticky
    <3> HIDE DEF start, e
    <3> QED BY <1>1, <1>4, <3>1, <3>2, <3>3, <3>4, SetSets
  <2>2. CASE ~finished BY <1>4, <2>2
  <2> QED BY <2>1, <2>2
<1> HIDE DEF start
<1>6. /\ graph = Then(h, Now(graph)) /\ Now(graph) \in Disk /\ SameButGraph(e, Now(graph))
      /\ node = Refresh(Deps, start) /\ Done(node) = Done(start) /\ Begun(node) = Begun(start)
  BY <1>5, Regraphed
<1>7. History(cmd, graph, d) /\ node \in Statuses BY <1>5, GraphHistory
<1> HIDE DEF graph
<1>8. Good(graph)
  <2>1. ASSUME NEW x, Lining(x, P, e)
        PROVE  Lining(x, P, Now(graph)) /\ Kept(e, Now(graph)) /\ Moves(P, e, Now(graph))
    <3>1. CASE Done(start) = Done(e.node) /\ Begun(start) = Begun(e.node)
      <4>1. Done(node) = Done(e.node) /\ Begun(node) = Begun(e.node) BY <1>6, <3>1
      <4> QED BY <1>6, <2>1, <4>1, Resting
    <3>2. CASE ~(Done(start) = Done(e.node) /\ Begun(start) = Begun(e.node))
      <4>1. /\ e.phase \in Phase /\ e.phase \in Earned(P, e)
            /\ Done(node) = Done(e.node) \cup {e.phase}
            /\ Begun(node) = Begun(e.node) \cup {e.phase}
        BY <1>5, <1>6, <3>2
      <4> QED BY <1>6, <2>1, <4>1, Finishing
    <3> QED BY <3>1, <3>2
  <2>2. Lining(FALSE, P, e) /\ Lining(TRUE, P, e) BY LiningWeaker
  <2>3. /\ Lining(FALSE, P, Now(graph)) /\ Lining(TRUE, P, Now(graph))
        /\ Kept(e, Now(graph)) /\ Moves(P, e, Now(graph))
    BY <2>1, <2>2
  <2>4. Lined(FALSE, P, Then(h, Now(graph))) BY <1>6, <2>3, ThenLined
  <2> QED BY <1>6, <2>3, <2>4
<1>9. resume \in PhaseId BY <1>1 DEF PhaseId
<1>10. p \in PhaseId /\ (p = NoPhase \/ node[p] \in {"READY", "RUNNING"})
  BY <1>7, <1>9, SelectType, SelectsRunnable DEF Statuses
<1> HIDE DEF resume, p
<1>11. ASSUME p # NoPhase
       PROVE  /\ p \in Phase /\ p \notin Done(node)
              /\ node[p] = "READY" => Deps[p] \subseteq Done(node)
              /\ node[p] = "RUNNING" => p \in Begun(node)
  <2>1. p \in Phase BY <1>10, <1>11 DEF PhaseId
  <2>2. p \notin Done(node) BY <1>10, <1>11 DEF Done
  <2>3. node[p] = "READY" => Deps[p] \subseteq Done(node)
    <3> SUFFICES ASSUME node[p] = "READY", NEW q \in Deps[p] PROVE q \in Done(node) OBVIOUS
    <3>1. q \in Phase BY <2>1, DepsType DEF Graph
    <3>2. Refresh(Deps, start)[p] = "READY" BY <1>6
    <3>3. Refresh(Deps, start)[q] = "COMPLETED" BY <1>5, <2>1, <3>2, DepsType, RefreshReady
    <3> QED BY <1>6, <3>1, <3>3 DEF Done
  <2>4. node[p] = "RUNNING" => p \in Begun(node) BY <2>1 DEF Begun, Sticky
  <2> QED BY <2>1, <2>2, <2>3, <2>4
<1>12. ASSUME p # NoPhase
       PROVE  /\ History(cmd, marked, d) /\ Lined(FALSE, P, marked)
              /\ p \in Begun(Now(marked).node) /\ p \notin Done(Now(marked).node)
  <2>1. CASE node[p] = "RUNNING" BY <1>7, <1>8, <1>11, <1>12, <2>1
  <2>2. CASE node[p] # "RUNNING"
    <3> DEFINE m == MarkPhase(graph, p, "RUNNING")
    <3>1. marked = m BY <2>2
    <3> HIDE DEF node, marked
    <3>2. /\ p \in Phase /\ p \notin Done(node) /\ Deps[p] \subseteq Done(node)
      BY <1>10, <1>11, <1>12, <2>2
    <3>3. "RUNNING" \in Status /\ "RUNNING" \in Sticky \ {"COMPLETED"} BY DEF Status, Sticky
    <3>4. History(cmd, m, d) BY <1>7, <1>10, <3>3, MarkHistory
    <3>5. /\ m = Then(graph, Now(m)) /\ Now(m) \in Disk /\ SameButGraph(Now(graph), Now(m))
          /\ Begun(Now(m).node) = Begun(Now(graph).node) \cup {p}
          /\ Done(Now(m).node) = Done(Now(graph).node) \ {p}
      BY ONLY <1>7, <3>2, <3>3, MarkedBegun
    <3> HIDE DEF m
    <3>6. Lining(FALSE, P, Now(graph)) BY <1>8, LiningWeaker
    <3>7. /\ Lining(FALSE, P, Now(m)) /\ Kept(Now(graph), Now(m))
          /\ Moves(P, Now(graph), Now(m))
      BY <3>2, <3>5, <3>6, Starting DEF node
    <3>8. Lined(FALSE, P, m)
      <4>1. /\ History(cmd, graph, d) /\ Lined(FALSE, P, graph) /\ Now(m) \in Disk
            /\ Lining(FALSE, P, Now(m)) /\ Kept(Now(graph), Now(m)) /\ Moves(P, Now(graph), Now(m))
        BY <1>7, <1>8, <3>5, <3>7
      <4>2. Lined(FALSE, P, Then(graph, Now(m))) BY ONLY <4>1, ThenLined
      <4> QED BY <3>5, <4>2
    <3> QED BY <3>1, <3>4, <3>5, <3>8
  <2> QED BY <2>1, <2>2
<1> HIDE DEF marked, node
<1>13. ex \in Execution /\ ex.packet /\ ex.phase = p /\ ex.attempt = 0
  BY <1>10 DEF Execution
<1> HIDE DEF ex
<1>14. ASSUME p # NoPhase
       PROVE  History(cmd, packet, d) /\ Good(packet)
  <2>1. Now(marked).inc.attempts \in Nat BY <1>12, <1>14, NowType DEF Disk, Incident
  <2>2. History(cmd, packet, d)
    BY <1>12, <1>13, <1>14, <2>1, ExecutionHistory, ProjectAssumption
  <2> DEFINE f == [Now(marked) EXCEPT !.ex = ex]
  <2>3. Now(marked) \in Disk /\ Lining(FALSE, P, Now(marked)) BY <1>12, <1>14, NowType, NowLining
  <2>4. f \in Disk /\ f.ex = ex /\ SameButExecution(Now(marked), f)
    BY <1>13, <2>3 DEF Disk, SameButExecution
  <2>5. packet = Then(marked, f) BY DEF WriteExecution
  <2> HIDE DEF f, packet
  <2>6. Lining(TRUE, P, f) /\ Kept(Now(marked), f) /\ Moves(P, Now(marked), f)
    BY <1>12, <1>13, <1>14, <2>3, <2>4, Packing
  <2>7. Lining(FALSE, P, f) BY <2>6, LiningWeaker
  <2>8. Lined(FALSE, P, Then(marked, f)) /\ Now(Then(marked, f)) = f
    <3>1. History(cmd, marked, d) /\ Lined(FALSE, P, marked) BY <1>12, <1>14
    <3>2. /\ History(cmd, marked, d) /\ Lined(FALSE, P, marked) /\ f \in Disk
          /\ Lining(FALSE, P, f) /\ Kept(Now(marked), f) /\ Moves(P, Now(marked), f)
      BY <2>4, <2>6, <2>7, <3>1
    <3>3. Lined(FALSE, P, Then(marked, f)) BY ONLY <3>2, ThenLined
    <3>4. Now(Then(marked, f)) = f
      <4>1. marked \in Seq(Write) BY <3>2 DEF History
      <4> QED BY <4>1 DEF Then, Now
    <3> QED BY <3>3, <3>4
  <2> QED BY <2>2, <2>5, <2>6, <2>8
<1> HIDE DEF packet
<1>15. p # NoPhase => Good(Save(packet, "PREPARED", p))
  <2>1. "PREPARED" \in CurrentState BY DEF CurrentState
  <2> QED BY <1>10, <1>14, <2>1, SaveLined
<1>16. Good(Save(graph, "COMPLETED", e.phase))
  <2>1. "COMPLETED" \in CurrentState BY DEF CurrentState
  <2> QED BY <1>1, <1>7, <1>8, <2>1, SaveLined
<1>17. /\ Good(RefusalFor(h, NoPhase)) /\ Good(RefusalFor(graph, requested))
       /\ p # NoPhase => Good(RefusalFor(marked, p))
  <2>1. ASSUME NEW g, History(cmd, g, d), Lined(FALSE, P, g), NEW q \in PhaseId
        PROVE  Good(RefusalFor(g, q))
    BY <2>1, RefusalLined
  <2>2. NoPhase \in PhaseId BY DEF PhaseId
  <2> HIDE DEF Good
  <2> QED BY <1>3, <1>7, <1>8, <1>10, <1>12, <2>1, <2>2 DEF Good
<1> HIDE DEF Good
<1>18. ASSUME NEW g, NEW x, r = Return(g, x) PROVE r.writes = g
  BY <1>18 DEF Return
<1>19. Good(r.writes)
  <2>1. /\ Good(h) /\ Good(RefusalFor(h, NoPhase)) /\ Good(RefusalFor(graph, requested))
        /\ Good(Save(graph, "COMPLETED", e.phase))
        /\ p # NoPhase => Good(RefusalFor(marked, p)) /\ Good(Save(packet, "PREPARED", p))
    BY <1>3, <1>15, <1>16, <1>17
  <2> HIDE DEF e
  <2> QED BY <1>2, <1>18, <2>1
<1> QED BY <1>19 DEF Good, r

\* A handler that ends.
LEMMA ReturnLines ==
  ASSUME NEW P, NEW cmd, NEW h, NEW reply, Lined(~Preparing(cmd), P, h), Lining(TRUE, P, Now(h))
  PROVE  Lines(P, cmd, Return(h, reply))
<1>1. Return(h, reply).writes = h /\ Return(h, reply).wait = "none" BY DEF Return
<1> QED BY <1>1 DEF Lines

\* The two commands that prepare.
LEMMA AtPreparing ==
  ASSUME NEW P, NEW h, Lined(FALSE, P, h)
  PROVE  Lined(~Preparing("prepare"), P, h) /\ Lined(~Preparing("run"), P, h)
BY DEF Preparing, Lined, Lining

\* prepare.
LEMMA PrepareLines ==
  ASSUME AutoCommit, NEW P, NEW d \in Disk, Sound(d), Backing(TRUE, TRUE, P, d),
         Lining(TRUE, P, d),
         NEW requested \in PhaseId, NEW checks \in BOOLEAN, NEW unclean \in BOOLEAN
  PROVE  Lines(P, "prepare", Prepare(d, requested, checks, unclean))
<1> DEFINE rec == Recover(Start(d))
           h == rec.writes
           prep == PrepareLocked(h, requested, checks, unclean)
<1>1. Backing(TRUE, FALSE, P, d) /\ Lining(FALSE, P, d) BY BackingWeaker, LiningWeaker
<1>2. /\ History("prepare", Start(d), d) /\ Now(Start(d)) = d
      /\ Backed(TRUE, FALSE, P, Start(d)) /\ Lined(FALSE, P, Start(d))
  BY <1>1, StartHistory, StartBacked, StartLined
<1>3. Backing(TRUE, FALSE, P, Now(h)) BY <1>1, <1>2, RecoverBacked
<1>4. Lined(FALSE, P, h) /\ Lining(TRUE, P, Now(h)) BY <1>1, <1>2, RecoverLined
<1>5. History("prepare", h, d) BY <1>2, RecoverHandled DEF Handled
<1>6. rec = Return(h, rec.reply) BY DEF Recover, Return
<1> HIDE DEF rec, h
<1>7. Lined(FALSE, P, prep.writes) /\ Lining(TRUE, P, Now(prep.writes))
  BY <1>3, <1>4, <1>5, PrepareLockedLined
<1>8. prep = Return(prep.writes, prep.reply) BY DEF PrepareLocked, Return
<1> HIDE DEF prep
<1>9. Prepare(d, requested, checks, unclean) \in {rec, prep} BY DEF Prepare, rec, h, prep
<1>10. Lines(P, "prepare", rec) BY <1>4, <1>6, AtPreparing, ReturnLines
<1>11. Lines(P, "prepare", prep) BY <1>7, <1>8, AtPreparing, ReturnLines
<1> QED BY <1>9, <1>10, <1>11

\* run, up to its worker.
LEMMA RunLines ==
  ASSUME AutoCommit, NEW P, NEW d \in Disk, Sound(d), Backing(TRUE, TRUE, P, d),
         Lining(TRUE, P, d),
         NEW requested \in PhaseId, NEW checks \in BOOLEAN, NEW unclean \in BOOLEAN,
         NEW ready \in BOOLEAN
  PROVE  Lines(P, "run", RunProduct(d, requested, checks, unclean, ready))
<1> DEFINE rec == Recover(Start(d))
           h == rec.writes
           prep == PrepareLocked(h, requested, checks, unclean)
           p == IF prep.reply = "waiting" THEN NoPhase ELSE Now(prep.writes).phase
           running == Save(prep.writes, "WORKER_RUNNING", p)
           wait == IF prep.reply = "prepared" THEN "worker" ELSE "bare worker"
           r == RunProduct(d, requested, checks, unclean, ready)
<1>1. Backing(TRUE, FALSE, P, d) /\ Lining(FALSE, P, d) BY BackingWeaker, LiningWeaker
<1>2. /\ History("run", Start(d), d) /\ Now(Start(d)) = d
      /\ Backed(TRUE, FALSE, P, Start(d)) /\ Lined(FALSE, P, Start(d))
  BY <1>1, StartHistory, StartBacked, StartLined
<1>3. Backed(TRUE, FALSE, P, h) /\ Backing(TRUE, FALSE, P, Now(h)) BY <1>1, <1>2, RecoverBacked
<1>4. Lined(FALSE, P, h) /\ Lining(TRUE, P, Now(h)) BY <1>1, <1>2, RecoverLined
<1>5. History("run", h, d) BY <1>2, RecoverHandled DEF Handled
<1>6. rec = Return(h, rec.reply) BY DEF Recover, Return
<1>7. \/ r = rec \/ r = Return(h, "ok") \/ r = Return(prep.writes, "stop")
      \/ r = Return(RefusalFor(prep.writes, p), "stop") \/ r = AwaitFor(running, wait)
  BY DEF RunProduct
<1> HIDE DEF rec, h, r
<1>8. Lined(FALSE, P, prep.writes) /\ Lining(TRUE, P, Now(prep.writes))
  BY <1>3, <1>4, <1>5, PrepareLockedLined
<1>9. prep.reply = "prepared" =>
        Now(prep.writes).ex.packet /\ Now(prep.writes).ex.phase = Now(prep.writes).phase
  <2> HIDE DEF prep
  <2>1. Prepares(FALSE, P, prep) BY <1>3, <1>5, PrepareLockedBacked DEF prep
  <2> QED BY <2>1 DEF Prepares
<1>10. History("run", prep.writes, d) BY <1>5, PrepareLockedHandled DEF Handled
<1> HIDE DEF prep
<1>11. p \in PhaseId BY <1>10, NowType DEF Disk, PhaseId
<1>12. wait = "worker" => prep.reply = "prepared" /\ p = Now(prep.writes).phase OBVIOUS
<1> HIDE DEF p, wait
<1>13. "WORKER_RUNNING" \in CurrentState /\ "WORKER_RUNNING" \in Calm BY AreCalm DEF CurrentState
<1>14. /\ Lined(FALSE, P, running) /\ Lining(TRUE, P, Now(running))
       /\ SameFiles(Now(prep.writes), Now(running)) /\ Now(running).phase = p
  <2>1. Lined(FALSE, P, running) /\ Lining(TRUE, P, Now(running))
    BY ONLY <1>8, <1>10, <1>11, <1>13, SaveLined
  <2>2. SameFiles(Now(prep.writes), Now(running)) /\ Now(running).phase = p
    BY ONLY <1>10, <1>11, <1>13, CalmSave
  <2> QED BY <2>1, <2>2
<1> HIDE DEF running
<1>15. Lines(P, "run", AwaitFor(running, wait))
  <2>1. AwaitFor(running, wait).writes = running /\ AwaitFor(running, wait).wait = wait
    BY DEF AwaitFor
  <2>2. wait = "worker" => Now(running).ex.packet /\ Now(running).ex.phase = Now(running).phase
    BY <1>9, <1>12, <1>14 DEF SameFiles
  <2> QED BY <1>14, <2>1, <2>2, AtPreparing DEF Lines
<1>16. Lines(P, "run", Return(RefusalFor(prep.writes, p), "stop"))
  <2>1. /\ Lined(FALSE, P, RefusalFor(prep.writes, p))
        /\ Lining(TRUE, P, Now(RefusalFor(prep.writes, p)))
    BY <1>8, <1>10, <1>11, RefusalLined
  <2> QED BY <2>1, AtPreparing, ReturnLines
<1>17. Lines(P, "run", rec) BY <1>4, <1>6, AtPreparing, ReturnLines
<1>18. Lines(P, "run", Return(h, "ok")) BY <1>4, AtPreparing, ReturnLines
<1>19. Lines(P, "run", Return(prep.writes, "stop")) BY <1>8, AtPreparing, ReturnLines
<1> QED BY <1>7, <1>15, <1>16, <1>17, <1>18, <1>19 DEF r

\* Any handler starts in order, if the files are settled.
LEMMA StartInOrder ==
  ASSUME NEW P, NEW cmd, NEW d \in Disk, Sound(d), Lining(TRUE, P, d)
  PROVE  /\ History(cmd, Start(d), d) /\ Now(Start(d)) = d
         /\ Lined(~Preparing(cmd), P, Start(d))
<1>1. Lining(~Preparing(cmd), P, d) BY LiningWeaker
<1> QED BY <1>1, StartHistory, StartLined

\* run, from its worker on: the packet it records is the one it was given.
LEMMA AfterWorkerLines ==
  ASSUME NEW P, NEW cmd, NEW d \in Disk, Sound(d), Lining(TRUE, P, d),
         NEW packet \in BOOLEAN, NEW invoked \in BOOLEAN,
         packet => d.ex.packet /\ d.ex.phase = d.phase
  PROVE  Lines(P, cmd, AfterWorker(d, packet, invoked))
<1> DEFINE ex == [phase |-> d.phase, packet |-> packet, invoked |-> invoked,
                  verified |-> FALSE, attempt |-> 0]
           t == ~Preparing(cmd)
           written == WriteExecution(Start(d), ex)
           cur == IF invoked THEN "WORKER_CLAIMED_DONE" ELSE "WORKER_REFUSED"
           reply == IF invoked THEN "ok" ELSE "stop"
<1>1. d.phase \in PhaseId /\ d.inc.attempts \in Nat BY DEF Disk, Incident
<1>2. AfterWorker(d, packet, invoked) = Return(Save(written, cur, d.phase), reply)
  BY DEF AfterWorker
<1>3. /\ ex \in Execution /\ ex.attempt = 0
      /\ ex.packet => ex.phase # NoPhase
      /\ ex.packet => d.ex.packet /\ ex.phase = d.ex.phase
  <2>1. d.ex.packet => d.ex.phase # NoPhase BY DEF Sound
  <2> QED BY <1>1, <2>1 DEF Execution
<1>4. History(cmd, Start(d), d) /\ Now(Start(d)) = d /\ Lined(t, P, Start(d))
  BY StartInOrder
<1> HIDE DEF ex, t
<1>5. History(cmd, written, d) BY <1>1, <1>3, <1>4, ExecutionHistory, ProjectAssumption
<1>6. Lined(t, P, written) /\ Lining(TRUE, P, Now(written)) BY <1>3, <1>4, ExecutionLined
<1> HIDE DEF written
<1>7. cur \in CurrentState BY DEF CurrentState
<1> HIDE DEF cur, reply
<1>8. Lined(t, P, Save(written, cur, d.phase)) /\ Lining(TRUE, P, Now(Save(written, cur, d.phase)))
  BY ONLY <1>1, <1>5, <1>6, <1>7, SaveLined
<1> QED BY <1>2, <1>8, ReturnLines DEF t

\* A verdict and what follows from it: the phase it finishes, or a human is to
\* judge, is that of the packet.
LEMMA PersistVerifyLines ==
  ASSUME NEW P, NEW cmd, NEW d \in Disk, Sound(d), Lining(TRUE, P, d),
         NEW status \in Verdict, status \in {"VERIFIED", "MANUAL"} => d.ex.packet
  PROVE  Lines(P, cmd, PersistVerify(Start(d), status, d.ex.phase))
<1> DEFINE of == d.ex.phase
           t == ~Preparing(cmd)
           phase == IF of = NoPhase THEN d.phase ELSE of
           ok == status = "VERIFIED"
           e == [d EXCEPT !.ver = [status |-> status, phase |-> of]]
           verdict == Then(Start(d), e)
           ex == [d.ex EXCEPT !.verified = ok]
           recorded == WriteExecution(verdict, ex)
           inc == FinishAttempt(d.inc, d.ex.attempt, ok)
           counted == IF d.ex.attempt = 0 THEN recorded ELSE SaveIncident(recorded, inc)
           r == PersistVerify(Start(d), status, of)
<1>1. /\ d.phase \in PhaseId /\ d.ex \in Execution /\ d.inc \in Incident /\ of \in PhaseId
      /\ d.ex.attempt \in Nat /\ d.inc.attempts \in Nat /\ phase \in PhaseId
      /\ t \in BOOLEAN
  BY DEF Disk, Incident, Execution
<1>2. \/ ok /\ r = Return(CompletePhase(counted, phase), status)
      \/ status = "MANUAL" /\ r = Return(RequestHuman(counted, phase, "manual"), status)
      \/ r = Return(Save(counted, "VERIFICATION_INCOMPLETE", phase), status)
      \/ r = Return(Save(counted, "VERIFICATION_FAILED", phase), status)
  <2>1. Now(Start(d)) = d BY DEF Start, Now
  <2>2. Now(verdict) = e /\ e.ex = d.ex /\ e.inc = d.inc /\ e.phase = d.phase
    BY DEF Then, Now, Start, Disk
  <2> QED BY <2>1, <2>2 DEF PersistVerify
<1> HIDE DEF r
<1>3. /\ e \in Disk /\ e.cur = d.cur /\ e.phase = d.phase /\ e.node = d.node /\ e.ex = d.ex
      /\ e.inc = d.inc /\ e.req = d.req /\ e.ver.status = status /\ e.ver.phase = of
  BY <1>1 DEF Disk
<1> HIDE DEF e
<1>4. Sound(e) /\ Obeys(cmd, d, e) BY <1>1, <1>3 DEF Obeys, Sound, Follows
<1>5. d.ex.packet => phase = of /\ of \in Phase BY <1>1 DEF Sound, PhaseId
<1>6. \A x : Lining(x, P, d) => Lining(x, P, e) /\ Kept(d, e) /\ Moves(P, d, e)
  <2>1. Earned(P, e) \ {NoPhase} \subseteq (Earned(P, d) \ {NoPhase}) \cup (IF ok THEN {of} ELSE {})
    BY <1>3 DEF Earned
  <2>2. ok => d.ex.packet OBVIOUS
  <2> HIDE DEF ok, of
  <2>3. ASSUME NEW x, Lining(x, P, d) PROVE Lining(x, P, e)
    <3>1. ok => of \in Begun(d.node) BY <2>2, <2>3 DEF Lining, of
    <3> QED BY <1>3, <2>1, <2>3, <3>1 DEF Lining
  <2>4. Kept(d, e) /\ Moves(P, d, e) BY <1>3 DEF Kept, Moves
  <2> QED BY <2>3, <2>4
<1>7. /\ History(cmd, Start(d), d) /\ Now(Start(d)) = d /\ Lined(t, P, Start(d))
  BY StartInOrder
<1> HIDE DEF t
<1>8. History(cmd, verdict, d) /\ Now(verdict) = e /\ Lined(t, P, verdict) /\ Lining(TRUE, P, e)
  <2>1. History(cmd, verdict, d) /\ Now(verdict) = e BY <1>3, <1>4, <1>7, ThenHistory
  <2>2. Lining(t, P, e) /\ Lining(TRUE, P, e) /\ Kept(d, e) /\ Moves(P, d, e)
    BY <1>6, LiningWeaker
  <2>3. Lined(t, P, verdict) BY ONLY <1>3, <1>7, <2>2, ThenLined
  <2> QED BY <2>1, <2>2, <2>3
<1> HIDE DEF verdict
<1>9. /\ ex \in Execution /\ ex.phase = of /\ ex.packet = d.ex.packet /\ ex.verified = ok
      /\ ex.attempt = d.ex.attempt
  BY <1>1 DEF Execution
<1> HIDE DEF ex
<1>10. Lined(t, P, recorded) /\ Lining(TRUE, P, Now(recorded))
  <2>1. ex.packet => Now(verdict).ex.packet /\ ex.phase = Now(verdict).ex.phase BY <1>3, <1>8, <1>9
  <2>2. Lining(TRUE, P, Now(verdict)) BY <1>8
  <2> QED BY ONLY <1>8, <1>9, <2>1, <2>2, ExecutionLined
<1>11. /\ Now(recorded).ex = ex /\ Now(recorded).ver = e.ver /\ Now(recorded).inc = d.inc
  BY <1>3, <1>8, <1>9, ExecutionWritten DEF SameButExecution
<1>12. History(cmd, recorded, d)
  <2>1. /\ ex.attempt <= MaxAttempts /\ (~e.inc.rt => ex.attempt <= e.inc.attempts)
        /\ (ex.packet => ex.phase # NoPhase)
    BY <1>3, <1>9 DEF Sound
  <2> QED BY <1>8, <1>9, <2>1, ExecutionHistory
<1> HIDE DEF recorded
<1>13. /\ History(cmd, counted, d) /\ Lined(t, P, counted) /\ Lining(TRUE, P, Now(counted))
       /\ Now(counted).ex = ex /\ Now(counted).ver = e.ver
  <2>1. ok \in BOOLEAN OBVIOUS
  <2> HIDE DEF ok
  <2>2. inc \in Incident BY <1>1, <2>1, FinishedAttempt DEF Sound
  <2>3. History(cmd, SaveIncident(recorded, inc), d)
    BY <1>1, <1>11, <1>12, <2>1, FinishHistory DEF Sound
  <2> HIDE DEF inc
  <2>4. /\ Lined(t, P, SaveIncident(recorded, inc))
        /\ Lining(TRUE, P, Now(SaveIncident(recorded, inc)))
    BY ONLY <1>10, <1>12, <2>2, IncidentLined
  <2>5. Now(SaveIncident(recorded, inc)).ex = ex /\ Now(SaveIncident(recorded, inc)).ver = e.ver
    BY <1>11, <1>12, <2>2, IncidentWritten DEF SameButIncident
  <2> QED BY <1>10, <1>11, <1>12, <2>3, <2>4, <2>5
<1> HIDE DEF counted
<1> DEFINE Good(g) == Lined(t, P, g) /\ Lining(TRUE, P, Now(g))
<1>14. ok => Good(CompletePhase(counted, phase))
  <2> SUFFICES ASSUME ok PROVE Good(CompletePhase(counted, phase)) OBVIOUS
  <2>1. d.ex.packet OBVIOUS
  <2>2. phase \in Earned(P, Now(counted)) BY <1>3, <1>5, <1>13, <2>1 DEF Earned
  <2> HIDE DEF phase
  <2> QED BY <1>1, <1>13, <2>2, CompleteLined
<1>15. status = "MANUAL" => Good(RequestHuman(counted, phase, "manual"))
  <2> SUFFICES ASSUME status = "MANUAL"
               PROVE  Good(RequestHuman(counted, phase, "manual"))
    OBVIOUS
  <2>1. d.ex.packet OBVIOUS
  <2>2. Now(counted).ex.packet /\ phase \in Phase /\ phase = Now(counted).ex.phase
    BY <1>5, <1>9, <1>13, <2>1
  <2>3. "manual" \in {"manual", "repair", "blocked", "runtime"} OBVIOUS
  <2> HIDE DEF phase
  <2>4. /\ Lined(t, P, RequestHuman(counted, phase, "manual"))
        /\ Lining(TRUE, P, Now(RequestHuman(counted, phase, "manual")))
    BY ONLY <1>1, <1>13, <2>2, <2>3, RequestLined
  <2> QED BY <2>4
<1>16. ASSUME NEW cur \in {"VERIFICATION_INCOMPLETE", "VERIFICATION_FAILED"}
       PROVE  Good(Save(counted, cur, phase))
  <2>1. cur \in CurrentState BY DEF CurrentState
  <2> HIDE DEF phase
  <2>2. Lined(t, P, Save(counted, cur, phase)) /\ Lining(TRUE, P, Now(Save(counted, cur, phase)))
    BY ONLY <1>1, <1>13, <2>1, SaveLined
  <2> QED BY <2>2
<1>17. ASSUME NEW g, Good(g) PROVE Lines(P, cmd, Return(g, status))
  BY <1>17, ReturnLines DEF t
<1> HIDE DEF Good, phase, ok
<1> QED BY <1>2, <1>14, <1>15, <1>16, <1>17 DEF r

\* verify, up to its tests.
LEMMA VerifyLines ==
  ASSUME NEW P, NEW cmd, NEW d \in Disk, Sound(d), Lining(TRUE, P, d)
  PROVE  Lines(P, cmd, Verify(d))
<1> DEFINE g == Save(Start(d), "VERIFYING", d.phase)
           t == ~Preparing(cmd)
<1>1. /\ History(cmd, Start(d), d) /\ Now(Start(d)) = d /\ Lined(t, P, Start(d))
      /\ Lining(TRUE, P, Now(Start(d)))
  BY StartInOrder
<1>2. "VERIFYING" \in CurrentState /\ d.phase \in PhaseId BY DEF CurrentState, Disk
<1>3. Verify(d) = IF d.ex.packet THEN AwaitFor(g, "tests")
                  ELSE PersistVerify(Start(d), "INCOMPLETE", d.ex.phase)
  BY DEF Verify
<1> HIDE DEF t
<1>4. Lined(t, P, g) /\ Lining(TRUE, P, Now(g)) BY ONLY <1>1, <1>2, SaveLined
<1> HIDE DEF g
<1>5. Lines(P, cmd, AwaitFor(g, "tests"))
  <2>1. AwaitFor(g, "tests").writes = g /\ AwaitFor(g, "tests").wait = "tests" BY DEF AwaitFor
  <2> QED BY <1>4, <2>1 DEF Lines, t
<1>6. Lines(P, cmd, PersistVerify(Start(d), "INCOMPLETE", d.ex.phase))
  BY PersistVerifyLines DEF Verdict
<1> QED BY <1>3, <1>5, <1>6

\* verify, from its tests on.
LEMMA AfterTestsLines ==
  ASSUME NEW P, NEW cmd, NEW d \in Disk, Sound(d), Lining(TRUE, P, d), d.ex.packet,
         NEW tests, NEW confirmed
  PROVE  Lines(P, cmd, AfterTests(d, tests, confirmed))
<1>1. Judge(d.ex.phase, tests, confirmed) \in Verdict BY DEF Judge, Verdict
<1> QED BY <1>1, PersistVerifyLines DEF AfterTests

\* review saves state.json twice, resume once.
LEMMA ReviewResumeLines ==
  ASSUME NEW P, NEW cmd, NEW d \in Disk, Sound(d), Lining(TRUE, P, d), NEW answer
  PROVE  Lines(P, cmd, Review(Start(d))) /\ Lines(P, cmd, Resume(d, answer))
<1> DEFINE h == Start(d)
           t == ~Preparing(cmd)
           after == IF RecommendHuman(d) THEN "WAITING_FOR_HUMAN"
                    ELSE IF d.ver.status = "VERIFIED" THEN "VERIFIED"
                    ELSE "VERIFICATION_FAILED"
           reviewing == Save(h, "REVIEWING", d.phase)
           reviewed == Save(reviewing, after, d.phase)
           reply == IF RecommendRepair(d) THEN "repair" ELSE "human"
           cur == IF d.req.kind = "runtime" THEN "COMPLETED" ELSE "VERIFICATION_FAILED"
           resumed == Save(h, cur, d.phase)
           next == IF ManualConfirmed(d, answer) THEN "verify" ELSE "ok"
<1>1. /\ History(cmd, h, d) /\ Now(h) = d /\ Lined(t, P, h) /\ Lining(TRUE, P, Now(h))
  BY StartInOrder
<1>2. Review(h) = Return(reviewed, reply) BY <1>1 DEF Review
<1>3. Resume(d, answer) \in {Return(h, "error"), Return(resumed, next)} BY DEF Resume
<1>4. /\ "REVIEWING" \in CurrentState /\ "REVIEWING" \in Calm /\ after \in CurrentState
      /\ cur \in CurrentState /\ d.phase \in PhaseId
  BY AreCalm DEF CurrentState, Disk
<1> HIDE DEF h, after, reply, cur, next, t
<1>5. Lined(t, P, reviewing) /\ Lining(TRUE, P, Now(reviewing)) BY ONLY <1>1, <1>4, SaveLined
<1>6. History(cmd, reviewing, d) BY <1>1, <1>4, CalmSave
<1> HIDE DEF reviewing
<1>7. Lined(t, P, reviewed) /\ Lining(TRUE, P, Now(reviewed)) BY ONLY <1>4, <1>5, <1>6, SaveLined
<1>8. Lined(t, P, resumed) /\ Lining(TRUE, P, Now(resumed)) BY ONLY <1>1, <1>4, SaveLined
<1> HIDE DEF reviewed, resumed
<1>9. ASSUME NEW g, NEW x, Lined(t, P, g), Lining(TRUE, P, Now(g))
      PROVE  Lines(P, cmd, Return(g, x))
  BY <1>9, ReturnLines DEF t
<1> QED BY <1>1, <1>2, <1>3, <1>7, <1>8, <1>9 DEF h

\* The command at work, with the files it has yet to write; and, if it waits for
\* a worker, the packet of its phase.
LinedJob(P, d, j) ==
  /\ Lined(~Preparing(j.cmd), P, j.todo)
  /\ Lining(~Preparing(j.cmd), P, d)
  /\ \A i \in 1..Len(j.todo) : Kept(d, j.todo[i].disk)
  /\ j.todo # << >> => Moves(P, d, j.todo[1].disk)
  /\ Lining(TRUE, P, Ends(j.todo, d))
  /\ j.wait = "worker" =>
       Ends(j.todo, d).ex.packet /\ Ends(j.todo, d).ex.phase = Ends(j.todo, d).phase

OInv == LinedJob(passed, disk, job)

\* What the order needs: completion asks for a verified execution; nobody saves a
\* state he has loaded before; nobody repairs a phase that is not due; and no
\* command that prepares is cut off.
Orderly ==
  /\ AutoCommit
  /\ {"commit", "repair"} \cap Commands = {}
  /\ {"prepare", "run"} \cap Crashes = {}

\* Nothing is lost when one more verdict is recorded that had been earned.
LEMMA MoreEarned ==
  ASSUME NEW P, NEW P2, P \subseteq P2, NEW t, NEW d, Lining(t, P, d),
         P2 \ {NoPhase} \subseteq Begun(d.node)
  PROVE  Lining(t, P2, d)
<1>1. Earned(P2, d) \ {NoPhase} \subseteq Begun(d.node) BY DEF Lining, Earned
<1> QED BY <1>1 DEF Lining

\* And what was due is due.
LEMMA MoreMoves ==
  ASSUME NEW P, NEW P2, P \subseteq P2, NEW d, NEW e, Moves(P, d, e)
  PROVE  Moves(P2, d, e)
<1>1. Earned(P, d) \subseteq Earned(P2, d) BY DEF Earned
<1> QED BY <1>1 DEF Moves

\* No command at work.
LEMMA NoJobLined ==
  ASSUME NEW P, NEW d, Lining(TRUE, P, d)
  PROVE  LinedJob(P, d, NoJob)
<1>1. NoJob.todo = << >> /\ NoJob.wait = "none" /\ NoJob.cmd = "none" BY DEF NoJob
<1>2. ~Preparing("none") BY DEF Preparing
<1>3. Lining(~Preparing("none"), P, d) BY LiningWeaker
<1> DEFINE t == ~Preparing("none")
           none == << >>
<1>4. Len(none) = 0 /\ 1..Len(none) = {} /\ 1..(Len(none) - 1) = {} OBVIOUS
<1> HIDE DEF t, none
<1>5. Lined(t, P, none) BY <1>4 DEF Lined
<1>6. \A i \in 1..Len(none) : Kept(d, none[i].disk) BY <1>4
<1> QED BY <1>1, <1>3, <1>5, <1>6 DEF LinedJob, Ends, t, none

\* And of nothing at work: the files are settled.
LEMMA SettledLined ==
  ASSUME NEW P, NEW d, NEW j, LinedJob(P, d, j), j.todo = << >>
  PROVE  /\ Lining(TRUE, P, d)
         /\ j.wait = "worker" => d.ex.packet /\ d.ex.phase = d.phase
BY DEF LinedJob, Ends

\* A handler begins, or goes on, at the files as they are.
LEMMA TailLined ==
  ASSUME NEW P, NEW cmd, NEW d, NEW r, Handled(cmd, r, d), Lines(P, cmd, r),
         NEW j, j.cmd = cmd, j.todo = Tail(r.writes), j.wait = r.wait
  PROVE  LinedJob(P, d, j)
<1> DEFINE h == r.writes
           todo == Tail(h)
           t == ~Preparing(cmd)
<1>1. /\ h \in Seq(Write) /\ h # << >> /\ h[1].disk = d
      /\ Lined(t, P, h) /\ Lining(TRUE, P, Now(h))
      /\ r.wait = "worker" => Now(h).ex.packet /\ Now(h).ex.phase = Now(h).phase
      /\ j.cmd = cmd /\ j.todo = todo /\ j.wait = r.wait
  BY DEF Handled, History, Lines
<1> HIDE DEF h, t
<1>2. /\ todo \in Seq(Write) /\ Len(todo) = Len(h) - 1 /\ Len(h) \in Nat /\ Len(h) >= 1
      /\ \A i \in 1..Len(todo) : todo[i] = h[i + 1]
      /\ todo # << >> => Len(todo) >= 1
  BY <1>1
<1> HIDE DEF todo
<1>3. 1 \in 1..Len(h) BY <1>2
<1>4. ASSUME NEW i \in 1..Len(todo)
      PROVE  i + 1 \in 1..Len(h) /\ todo[i] = h[i + 1]
  BY <1>2
<1>5. Lined(t, P, todo)
  <2>1. ASSUME NEW i \in 1..Len(todo) PROVE Lining(t, P, todo[i].disk)
    BY <1>1, <1>4 DEF Lined
  <2>2. ASSUME NEW i \in 1..Len(todo), NEW k \in 1..Len(todo), i <= k
        PROVE  Kept(todo[i].disk, todo[k].disk)
    <3>1. i + 1 <= k + 1 BY <1>2, <2>2
    <3> QED BY <1>1, <1>4, <3>1 DEF Lined
  <2>3. ASSUME NEW i \in 1..(Len(todo) - 1)
        PROVE  Moves(P, todo[i].disk, todo[i + 1].disk)
    <3>1. /\ i \in 1..Len(todo) /\ i + 1 \in 1..Len(todo)
          /\ i + 1 \in 1..(Len(h) - 1)
      BY <1>2
    <3>2. Moves(P, h[i + 1].disk, h[(i + 1) + 1].disk) BY <1>1, <3>1 DEF Lined
    <3> QED BY <1>4, <3>1, <3>2
  <2> QED BY <2>1, <2>2, <2>3 DEF Lined
<1>6. Lining(t, P, d) BY <1>1, <1>3 DEF Lined
<1>7. ASSUME NEW i \in 1..Len(todo) PROVE Kept(d, todo[i].disk)
  <2>1. 1 <= i + 1 BY <1>2
  <2> QED BY <1>1, <1>3, <1>4, <2>1 DEF Lined
<1>8. ASSUME todo # << >> PROVE Moves(P, d, todo[1].disk)
  <2>1. 1 \in 1..(Len(h) - 1) /\ 1 \in 1..Len(todo) BY <1>2, <1>8
  <2>2. Moves(P, h[1].disk, h[1 + 1].disk) BY <1>1, <2>1 DEF Lined
  <2> QED BY <1>1, <1>4, <2>1, <2>2
<1>9. Ends(todo, d) = Now(h)
  <2>1. CASE todo = << >>
    <3>1. Len(h) = 1 BY <1>2, <2>1
    <3> QED BY <1>1, <2>1, <3>1 DEF Ends, Now
  <2>2. CASE todo # << >>
    <3>1. Len(todo) \in 1..Len(todo) /\ Len(todo) + 1 = Len(h) BY <1>2, <2>2
    <3>2. todo[Len(todo)] = h[Len(h)] BY <1>2, <3>1
    <3> QED BY <2>2, <3>2 DEF Ends, Now
  <2> QED BY <2>1, <2>2
<1> QED BY <1>1, <1>5, <1>6, <1>7, <1>8, <1>9 DEF LinedJob, t

\* One write further, and its verdict recorded.
LEMMA NextLined ==
  ASSUME NEW P, NEW P2, NEW d, NEW j \in Job, j.todo # << >>, LinedJob(P, d, j),
         P \subseteq P2, P2 \subseteq Earned(P, Head(j.todo).disk),
         NEW k, k = [j EXCEPT !.todo = Tail(@)]
  PROVE  LinedJob(P2, Head(j.todo).disk, k)
<1> DEFINE todo == j.todo
           e == Head(todo).disk
           rest == Tail(todo)
           t == ~Preparing(j.cmd)
<1>1. /\ todo \in Seq(Write) /\ todo # << >>
      /\ Lined(t, P, todo) /\ Lining(TRUE, P, Ends(todo, d))
      /\ j.wait = "worker" =>
           Ends(todo, d).ex.packet /\ Ends(todo, d).ex.phase = Ends(todo, d).phase
      /\ k.todo = rest /\ k.cmd = j.cmd /\ k.wait = j.wait
      /\ P2 \subseteq Earned(P, e)
  BY DEF LinedJob, Job
<1> HIDE DEF t, todo
<1>2. /\ Len(todo) \in Nat /\ Len(todo) >= 1 /\ Head(todo) = todo[1]
      /\ rest \in Seq(Write) /\ Len(rest) = Len(todo) - 1
      /\ \A i \in 1..Len(rest) : rest[i] = todo[i + 1]
      /\ rest # << >> => Len(rest) >= 1
  BY <1>1
<1>3. e = todo[1].disk /\ 1 \in 1..Len(todo) BY <1>2
<1> HIDE DEF e, rest
<1>4. P2 \ {NoPhase} \subseteq Begun(e.node) BY <1>1, <1>3 DEF Lined, Lining
<1>5. ASSUME NEW i \in 1..Len(todo) PROVE Lining(t, P2, todo[i].disk) /\ Kept(e, todo[i].disk)
  <2>1. Lining(t, P, todo[i].disk) BY <1>1 DEF Lined
  <2>2. 1 <= i BY <1>2
  <2>3. Kept(e, todo[i].disk) BY <1>1, <1>3, <2>2 DEF Lined
  <2>4. P2 \ {NoPhase} \subseteq Begun(todo[i].disk.node) BY <1>4, <2>3 DEF Kept
  <2> QED BY <2>1, <2>3, <2>4, MoreEarned
<1>6. ASSUME NEW i \in 1..Len(rest)
      PROVE  i + 1 \in 1..Len(todo) /\ rest[i] = todo[i + 1]
  BY <1>2
<1>7. Lined(t, P2, rest)
  <2>1. ASSUME NEW i \in 1..Len(rest) PROVE Lining(t, P2, rest[i].disk)
    BY <1>5, <1>6
  <2>2. ASSUME NEW i \in 1..Len(rest), NEW n \in 1..Len(rest), i <= n
        PROVE  Kept(rest[i].disk, rest[n].disk)
    <3>1. i + 1 <= n + 1 BY <1>2, <2>2
    <3> QED BY <1>1, <1>6, <3>1 DEF Lined
  <2>3. ASSUME NEW i \in 1..(Len(rest) - 1)
        PROVE  Moves(P2, rest[i].disk, rest[i + 1].disk)
    <3>1. /\ i \in 1..Len(rest) /\ i + 1 \in 1..Len(rest)
          /\ i + 1 \in 1..(Len(todo) - 1)
      BY <1>2
    <3>2. Moves(P, todo[i + 1].disk, todo[(i + 1) + 1].disk) BY <1>1, <3>1 DEF Lined
    <3>3. Moves(P, rest[i].disk, rest[i + 1].disk) BY <1>6, <3>1, <3>2
    <3> QED BY <3>3, MoreMoves
  <2> QED BY <2>1, <2>2, <2>3 DEF Lined
<1>8. Lining(t, P2, e) BY <1>3, <1>5
<1>9. ASSUME NEW i \in 1..Len(rest) PROVE Kept(e, rest[i].disk)
  BY <1>5, <1>6
<1>10. ASSUME rest # << >> PROVE Moves(P2, e, rest[1].disk)
  <2>1. 1 \in 1..(Len(todo) - 1) /\ 1 \in 1..Len(rest) BY <1>2, <1>10
  <2>2. Moves(P, todo[1].disk, todo[1 + 1].disk) BY <1>1, <2>1 DEF Lined
  <2>3. Moves(P, e, rest[1].disk) BY <1>3, <1>6, <2>1, <2>2
  <2> QED BY <2>3, MoreMoves
<1>11. Ends(rest, e) = Ends(todo, d) /\ Ends(todo, d) = todo[Len(todo)].disk
  <2>1. CASE rest = << >>
    <3>1. Len(todo) = 1 BY <1>2, <2>1
    <3> QED BY <1>1, <1>3, <2>1, <3>1 DEF Ends
  <2>2. CASE rest # << >>
    <3>1. Len(rest) \in 1..Len(rest) /\ Len(rest) + 1 = Len(todo) BY <1>2, <2>2
    <3>2. rest[Len(rest)] = todo[Len(todo)] BY <1>2, <3>1
    <3> QED BY <1>1, <2>2, <3>2 DEF Ends
  <2> QED BY <2>1, <2>2
<1>12. Lining(TRUE, P2, Ends(rest, e))
  <2>1. Len(todo) \in 1..Len(todo) BY <1>2
  <2>2. Kept(e, todo[Len(todo)].disk) BY <1>5, <2>1
  <2>3. P2 \ {NoPhase} \subseteq Begun(Ends(todo, d).node) BY <1>4, <1>11, <2>2 DEF Kept
  <2>4. Lining(TRUE, P2, Ends(todo, d)) BY <1>1, <2>3, MoreEarned
  <2> QED BY <1>11, <2>4
<1> QED BY <1>1, <1>7, <1>8, <1>9, <1>10, <1>11, <1>12 DEF LinedJob, e, t, todo

\* A command begins.
LEMMA BeginLined ==
  ASSUME NEW P, NEW cmd, NEW by, NEW r, Handled(cmd, r, disk), Lines(P, cmd, r),
         Begin(cmd, by, r)
  PROVE  LinedJob(P, disk, job')
<1>1. job'.cmd = cmd /\ job'.todo = Tail(r.writes) /\ job'.wait = r.wait BY DEF Begin
<1> QED BY <1>1, TailLined

\* A command goes on.
LEMMA ContinueLined ==
  ASSUME NEW P, NEW r, job \in Job, Handled(job.cmd, r, disk), Lines(P, job.cmd, r),
         Continue(r)
  PROVE  LinedJob(P, disk, job')
<1>1. job'.cmd = job.cmd /\ job'.todo = Tail(r.writes) /\ job'.wait = r.wait
  BY DEF Continue, Job
<1> QED BY <1>1, TailLined

\* What the first invariant adds under these hypotheses.
LEMMA OrderlyBacks ==
  ASSUME Orderly, VInv
  PROVE  /\ Guarded
         /\ committer.pc = "idle" /\ Recorded(passed, disk)
         /\ job.todo = << >> =>
              Backing(TRUE, TRUE, passed, disk) /\ (job.wait = "tests" => disk.ex.packet)
<1>1. Strict BY DEF Orderly, Strict
<1>2. BackedJob(TRUE, passed, disk, job) BY <1>1 DEF VInv, BackedJob, Backed, Backing
<1>3. job.todo = << >> =>
        Backing(TRUE, TRUE, passed, disk) /\ (job.wait = "tests" => disk.ex.packet)
  BY <1>2, Settled
<1>4. Guarded BY DEF Orderly, Guarded
<1> QED BY <1>3, <1>4 DEF VInv

\* The abstract steps.
OrderStep == [Order!Next]_<<passed, Done(disk.node)>>

\* A new project.
LEMMA OInvInit == Init => OInv
<1> SUFFICES ASSUME Init PROVE OInv OBVIOUS
<1>1. disk = EmptyDisk /\ job = NoJob /\ passed = {} BY DEF Init
<1>2. /\ \A p \in Phase : EmptyDisk.node[p] = "PENDING"
      /\ ~EmptyDisk.ex.packet /\ EmptyDisk.ver.status = "INCOMPLETE"
  BY DEF EmptyDisk
<1>3. Begun(EmptyDisk.node) = {} BY <1>2 DEF Begun, Sticky
<1>4. Earned({}, EmptyDisk) = {NoPhase} BY <1>2 DEF Earned
<1>5. Lining(TRUE, passed, disk) BY <1>1, <1>2, <1>3, <1>4 DEF Lining
<1> QED BY <1>1, <1>5, NoJobLined DEF OInv

\* A write: at most one phase is finished, or reopened, or has a verdict recorded.
LEMMA WriteLined ==
  ASSUME Orderly, IInv, VInv, OInv, WriteNext
  PROVE  OInv' /\ OrderStep
<1> DEFINE w == Head(job.todo)
           e == w.disk
<1>1. job \in Job /\ LinedJob(passed, disk, job) /\ Recorded(passed, disk)
  BY OrderlyBacks DEF IInv, WorkOK, OInv
<1>2. /\ job.todo # << >> /\ disk' = e /\ job' = [job EXCEPT !.todo = Tail(@)]
      /\ passed' = IF e.ver.status = "VERIFIED"
                   THEN passed \cup ({e.ver.phase} \ {NoPhase}) ELSE passed
  BY DEF WriteNext
<1>3. job.todo \in Seq(Write) BY <1>1 DEF Job
<1>4. e \in Disk /\ w = job.todo[1]
  <2>1. Len(job.todo) >= 1 /\ w = job.todo[1] BY <1>2, <1>3
  <2>2. job.todo[1] \in Write BY <1>3, <2>1
  <2>3. job.todo[1].disk \in Disk BY <2>2 DEF Write
  <2> QED BY <2>1, <2>3
<1>5. Moves(passed, disk, e) BY <1>1, <1>2, <1>4 DEF LinedJob
<1> HIDE DEF w
<1>6. passed \subseteq passed' /\ passed' \subseteq Earned(passed, e) BY <1>2 DEF Earned
<1>7. OInv'
  <2>1. \A k : k = [job EXCEPT !.todo = Tail(@)] => LinedJob(passed', e, k)
    BY <1>1, <1>2, <1>6, NextLined DEF w
  <2> QED BY <1>2, <2>1 DEF OInv
<1>8. OrderStep
  <2>1. CASE Done(e.node) = Done(disk.node)
    <3>1. Done(disk.node)' = Done(disk.node) BY <1>2, <2>1
    <3>2. e.ver.phase \in Phase \cup {NoPhase} BY <1>4 DEF Disk, PhaseId
    <3>3. passed' = passed \/ \E p \in Phase : passed' = passed \cup {p}
      BY <1>2, <3>2
    <3>4. passed' = passed \/ \E p \in Phase : Order!Record(p)
      BY <3>1, <3>3 DEF Order!Record, Done
    <3> QED BY <3>1, <3>4 DEF OrderStep, Order!Next
  <2>2. CASE Done(e.node) # Done(disk.node)
    <3>1. /\ e.ver = disk.ver
          /\ \E p \in Phase :
               \/ Done(e.node) = Done(disk.node) \ {p}
               \/ /\ p \in Earned(passed, disk) /\ Deps[p] \subseteq Done(disk.node)
                  /\ Done(e.node) = Done(disk.node) \cup {p}
      BY <1>5, <2>2 DEF Moves
    <3>2. passed' = passed BY <1>1, <1>2, <3>1 DEF Recorded
    <3>3. PICK p \in Phase :
               \/ Done(e.node) = Done(disk.node) \ {p}
               \/ /\ p \in Earned(passed, disk) /\ Deps[p] \subseteq Done(disk.node)
                  /\ Done(e.node) = Done(disk.node) \cup {p}
      BY <3>1
    <3>4. Done(disk.node)' = Done(e.node) BY <1>2
    <3>5. p \in Earned(passed, disk) => p \in passed
      BY <1>1, PhaseAssumption DEF Recorded, Earned, Phase, NoPhase
    <3>6. Order!Reopen(p) \/ Order!Finish(p)
      BY <3>2, <3>3, <3>4, <3>5 DEF Order!Reopen, Order!Finish, Done
    <3> QED BY <3>6 DEF OrderStep, Order!Next
  <2> QED BY <2>1, <2>2
<1> QED BY <1>7, <1>8

\* The worker and the tests.
LEMMA WorkLined ==
  ASSUME Orderly, IInv, VInv, OInv,
         \/ \E invoked \in Health, edits \in BOOLEAN : Work(invoked, edits)
         \/ \E outcome \in Outcomes : RunTests(outcome)
  PROVE  OInv'
<1>1. /\ job \in Job /\ disk \in Disk /\ Sound(disk) /\ WorkOK(disk, job)
      /\ LinedJob(passed, disk, job)
  BY DEF IInv, WorkOK, OInv
<1>2. job.todo = << >> BY DEF Work, RunTests
<1>3. /\ Lining(TRUE, passed, disk)
      /\ job.wait = "worker" => disk.ex.packet /\ disk.ex.phase = disk.phase
      /\ job.wait = "tests" => disk.ex.packet
  BY <1>1, <1>2, SettledLined, OrderlyBacks
<1>4. LinedJob(passed, disk, job')
  <2>1. ASSUME NEW invoked \in Health, NEW edits \in BOOLEAN, Work(invoked, edits)
        PROVE  LinedJob(passed, disk, job')
    <3>1. invoked \in BOOLEAN /\ (job.wait = "worker") \in BOOLEAN BY EngineAssumption
    <3>2. job.wait = "worker" => disk.phase \in Phase BY <1>1, <1>2 DEF WorkOK, Ends
    <3> DEFINE r == AfterWorker(disk, job.wait = "worker", invoked)
    <3>3. Handled(job.cmd, r, disk) BY <1>1, <3>1, <3>2, AfterWorkerHandled
    <3>4. Lines(passed, job.cmd, r) BY <1>1, <1>3, <3>1, AfterWorkerLines
    <3>5. Continue(r) BY <2>1 DEF Work
    <3> HIDE DEF r
    <3> QED BY <1>1, <3>3, <3>4, <3>5, ContinueLined
  <2>2. ASSUME NEW outcome \in Outcomes, RunTests(outcome)
        PROVE  LinedJob(passed, disk, job')
    <3> DEFINE r == AfterTests(disk, outcome, ManualConfirmed(disk, resp))
    <3>1. Continue(r) /\ disk.ex.packet BY <1>3, <2>2 DEF RunTests
    <3>2. Handled(job.cmd, r, disk) BY <1>1, AfterTestsHandled
    <3>3. Lines(passed, job.cmd, r) BY <1>1, <1>3, <3>1, AfterTestsLines
    <3> HIDE DEF r
    <3> QED BY <1>1, <3>1, <3>2, <3>3, ContinueLined
  <2> QED BY <2>1, <2>2
<1>5. UNCHANGED <<disk, passed>> BY DEF Work, RunTests
<1> QED BY <1>4, <1>5 DEF OInv

\* What users start.
LEMMA StartedLined ==
  ASSUME Orderly, IInv, VInv, OInv, UserStarts \/ ResumeVerify
  PROVE  OInv'
<1>1. /\ disk \in Disk /\ Sound(disk) /\ dirty \in BOOLEAN /\ AutoCommit
      /\ LinedJob(passed, disk, job)
  BY DEF IInv, WorkOK, OthersOK, OInv, Orderly
<1>2. ASSUME job = NoJob
      PROVE  Lining(TRUE, passed, disk) /\ Backing(TRUE, TRUE, passed, disk)
  <2>1. job.todo = << >> BY <1>2 DEF NoJob
  <2>2. Backing(TRUE, TRUE, passed, disk) BY <2>1, OrderlyBacks
  <2>3. Lining(TRUE, passed, disk) BY <1>1, <2>1, SettledLined
  <2> QED BY <2>2, <2>3
<1>3. ASSUME NEW cmd, NEW r, UserCommand(cmd, r)
      PROVE  Lining(TRUE, passed, disk) /\ Backing(TRUE, TRUE, passed, disk) /\ cmd \in Commands
  BY <1>2, <1>3 DEF UserCommand, Begin
<1>4. ASSUME NEW cmd, NEW r, UserCommand(cmd, r), Handled(cmd, r, disk), Lines(passed, cmd, r)
      PROVE  OInv'
  <2>1. Begin(cmd, "user", r) /\ UNCHANGED <<disk, passed>> BY <1>4 DEF UserCommand
  <2>2. LinedJob(passed, disk, job') BY <1>4, <2>1, BeginLined
  <2> QED BY <2>1, <2>2 DEF OInv
<1>5. CASE RunCommand
  <2>1. PICK requested \in PhaseId, checks \in Health, ready \in Health :
          UserCommand("run", RunProduct(disk, requested, checks, dirty, ready))
    BY <1>5 DEF RunCommand
  <2>2. checks \in BOOLEAN /\ ready \in BOOLEAN BY EngineAssumption
  <2> DEFINE r == RunProduct(disk, requested, checks, dirty, ready)
  <2>3. Handled("run", r, disk) BY <1>1, <2>2, RunHandled
  <2>4. Lining(TRUE, passed, disk) /\ Backing(TRUE, TRUE, passed, disk) BY <1>3, <2>1
  <2>5. Lines(passed, "run", r) BY <1>1, <2>2, <2>4, RunLines
  <2> HIDE DEF r
  <2> QED BY <1>4, <2>1, <2>3, <2>5 DEF r
<1>6. CASE PrepareCommand
  <2>1. PICK requested \in PhaseId, checks \in Health :
          UserCommand("prepare", Prepare(disk, requested, checks, dirty))
    BY <1>6 DEF PrepareCommand
  <2>2. checks \in BOOLEAN BY EngineAssumption
  <2> DEFINE r == Prepare(disk, requested, checks, dirty)
  <2>3. Handled("prepare", r, disk) BY <1>1, <2>2, PrepareHandled
  <2>4. Lining(TRUE, passed, disk) /\ Backing(TRUE, TRUE, passed, disk) BY <1>3, <2>1
  <2>5. Lines(passed, "prepare", r) BY <1>1, <2>2, <2>4, PrepareLines
  <2> HIDE DEF r
  <2> QED BY <1>4, <2>1, <2>3, <2>5 DEF r
<1>7. CASE VerifyCommand
  <2>1. UserCommand("verify", Verify(disk)) BY <1>7 DEF VerifyCommand
  <2>2. Lining(TRUE, passed, disk) BY <1>3, <2>1
  <2>3. Handled("verify", Verify(disk), disk) BY <1>1, VerifyHandled
  <2>4. Lines(passed, "verify", Verify(disk)) BY <1>1, <2>2, VerifyLines
  <2> QED BY <1>4, <2>1, <2>3, <2>4
<1>8. CASE ReviewCommand
  <2>1. UserCommand("review", Review(Start(disk))) BY <1>8 DEF ReviewCommand
  <2>2. Lining(TRUE, passed, disk) BY <1>3, <2>1
  <2>3. Handled("review", Review(Start(disk)), disk) BY <1>1, ReviewHandled
  <2>4. Lines(passed, "review", Review(Start(disk))) BY <1>1, <2>2, ReviewResumeLines
  <2> QED BY <1>4, <2>1, <2>3, <2>4
<1>9. CASE RepairCommand
  BY <1>9 DEF RepairCommand, UserCommand, Orderly
<1>10. CASE ResumeCommand
  <2>1. UserCommand("resume", Resume(disk, resp)) BY <1>10 DEF ResumeCommand
  <2>2. Lining(TRUE, passed, disk) BY <1>3, <2>1
  <2>3. Handled("resume", Resume(disk, resp), disk) BY <1>1, ResumeHandled
  <2>4. Lines(passed, "resume", Resume(disk, resp)) BY <1>1, <2>2, ReviewResumeLines
  <2> QED BY <1>4, <2>1, <2>3, <2>4
<1>11. CASE ResumeVerify
  <2>1. UNCHANGED <<disk, passed>> BY <1>11 DEF ResumeVerify
  <2>2. LinedJob(passed, disk, job')
    <3>1. CASE job = NoJob
      <4>1. Begin("verify", "user", Verify(disk)) BY <1>11, <3>1 DEF ResumeVerify
      <4>2. Handled("verify", Verify(disk), disk) BY <1>1, VerifyHandled
      <4>3. Lines(passed, "verify", Verify(disk)) BY <1>1, <1>2, <3>1, VerifyLines
      <4> QED BY <4>1, <4>2, <4>3, BeginLined
    <3>2. CASE job # NoJob
      <4>1. job' = job BY <1>11, <3>2 DEF ResumeVerify
      <4> QED BY <1>1, <4>1
    <3> QED BY <3>1, <3>2
  <2> QED BY <2>1, <2>2 DEF OInv
<1> QED BY <1>5, <1>6, <1>7, <1>8, <1>9, <1>10, <1>11 DEF UserStarts

\* A crash, of a command that leaves the files settled after each write.
LEMMA CrashLined ==
  ASSUME Orderly, OInv, Crash
  PROVE  OInv'
<1>1. /\ job.cmd \in Crashes /\ job' = NoJob /\ UNCHANGED <<disk, passed>>
      /\ LinedJob(passed, disk, job)
  BY DEF Crash, OInv
<1>2. ~Preparing(job.cmd) BY <1>1 DEF Preparing, Orderly
<1>3. Lining(TRUE, passed, disk) BY <1>1, <1>2 DEF LinedJob, Lining
<1>4. LinedJob(passed, disk, NoJob) BY <1>3, NoJobLined
<1> QED BY <1>1, <1>4 DEF OInv

\* Every step.
LEMMA OStep ==
  ASSUME Orderly, IInv, VInv, OInv, [Next]_vars
  PROVE  OInv' /\ OrderStep
<1>1. CASE WriteNext BY <1>1, WriteLined
<1>2. CASE \/ \E invoked \in Health, edits \in BOOLEAN : Work(invoked, edits)
           \/ \E outcome \in Outcomes : RunTests(outcome)
  <2>1. UNCHANGED <<disk, passed>> BY <1>2 DEF Work, RunTests
  <2>2. OrderStep BY <2>1 DEF OrderStep
  <2> QED BY <1>2, <2>2, WorkLined
<1>3. CASE UserStarts \/ ResumeVerify
  <2>1. UNCHANGED <<disk, passed>>
    BY <1>3 DEF UserStarts, ResumeVerify, RunCommand, PrepareCommand, VerifyCommand,
                ReviewCommand, RepairCommand, ResumeCommand, UserCommand
  <2>2. OrderStep BY <2>1 DEF OrderStep
  <2> QED BY <1>3, <2>2, StartedLined
<1>4. CASE Crash
  <2>1. UNCHANGED <<disk, passed>> BY <1>4 DEF Crash
  <2>2. OrderStep BY <2>1 DEF OrderStep
  <2> QED BY <1>4, <2>2, CrashLined
<1>5. CASE Unlock
  <2>1. job.todo = << >> /\ job' = NoJob /\ UNCHANGED <<disk, passed>>
    BY <1>5 DEF Unlock
  <2>2. Lining(TRUE, passed, disk) BY <2>1, SettledLined DEF OInv
  <2>3. LinedJob(passed, disk, NoJob) BY <2>2, NoJobLined
  <2> QED BY <2>1, <2>3 DEF OInv, OrderStep
<1>6. CASE Committing
  <2>1. committer.pc = "idle" /\ "commit" \notin Commands BY OrderlyBacks DEF Orderly
  <2> QED BY <1>6, <2>1 DEF Committing, CommitCheck, CommitTree, CommitLoad, CommitSave
<1>7. CASE Feedback \/ Edit \/ Clean \/ UNCHANGED vars
  <2>1. UNCHANGED <<disk, job, passed>>
    BY <1>7 DEF Feedback, Edit, Clean, vars
  <2> QED BY <2>1 DEF OInv, OrderStep
<1> QED BY <1>1, <1>2, <1>3, <1>4, <1>5, <1>6, <1>7 DEF Next, Working

\* A phase becomes COMPLETED only by a write made while all it depends on is
\* COMPLETED, after a verdict VERIFIED was recorded for it; one that is reopened is
\* reopened alone; and verdicts are never forgotten: prepare, run, verify, review,
\* resume and feedback, in any order and with any number of crashes of the last
\* four, implement PhaseOrder (prepare.go, loop.go completeLocked, verify.go).
THEOREM EngineImplementsPhaseOrder ==
  ASSUME Orderly
  PROVE  Spec => ImplementsPhaseOrder
<1>1. Init => Order!Init
  <2> SUFFICES ASSUME Init PROVE Order!Init OBVIOUS
  <2>1. passed = {} /\ disk = EmptyDisk BY DEF Init
  <2>2. \A p \in Phase : disk.node[p] = "PENDING" BY <2>1 DEF EmptyDisk
  <2> QED BY <2>1, <2>2 DEF Order!Init
<1>2. IInv /\ VInv /\ [Next]_vars => VInv' BY OrderlyBacks, VStep DEF VInv
<1>3. IInv /\ VInv /\ OInv /\ [Next]_vars => OInv' /\ OrderStep BY OStep
<1>4. OrderStep => [Order!Next]_<<passed, {p \in Phase : disk.node[p] = "COMPLETED"}>>
  BY DEF OrderStep, Done
<1> QED BY <1>1, <1>2, <1>3, <1>4, VInvInit, OInvInit, Invariance, PTL
        DEF Spec, ImplementsPhaseOrder, Order!Spec
=============================================================================
