------------------------------ MODULE Project -------------------------------
(***************************************************************************)
(* What the engine keeps in .project/ about one product, and what each     *)
(* engine command writes there (internal/engine, internal/repair,          *)
(* internal/human), GitHub disabled.                                       *)
(*                                                                         *)
(* Every command holds the project lock while it works, so its effect is a *)
(* sequence of file writes nobody else interleaves with.  A handler here   *)
(* maps the files at its start to that sequence: each element is .project/ *)
(* after one write, so that a crash may fall between any two of them.      *)
(*                                                                         *)
(* Not in the records: identifiers, hashes, paths, timestamps, and events. *)
(***************************************************************************)
EXTENDS PhaseGraph

CONSTANTS Deps,          \* the dependencies the PRD declares
          Manual,        \* phases with acceptance criteria no test covers
          MaxAttempts,   \* Config.MaxRepairAttempts
          AutoCommit     \* Config.AutoCommit

ASSUME ProjectAssumption ==
  /\ DOMAIN Deps \subseteq Phase /\ Deps \in [DOMAIN Deps -> SUBSET DOMAIN Deps]
  /\ ~Cyclic(Deps)
  /\ Manual \subseteq Phase
  /\ MaxAttempts \in Nat \ {0}
  /\ AutoCommit \in BOOLEAN

CurrentState ==
  {"", "PREPARED", "WORKER_RUNNING", "WORKER_CLAIMED_DONE", "WORKER_REFUSED",
   "VERIFYING", "VERIFIED", "VERIFICATION_FAILED", "VERIFICATION_INCOMPLETE",
   "REVIEWING", "REPAIRING", "WAITING_FOR_HUMAN", "COMPLETED"}

\* testeng statuses by what they lead to: UNSUPPORTED and INFRASTRUCTURE as
\* INCOMPLETE, a failure that reads as ambiguous as TIMEOUT (both stop review).
Verdict == {"VERIFIED", "FAILED", "TIMEOUT", "INCOMPLETE", "MANUAL"}

PhaseId == Phase \cup {NoPhase}

\* Execution: packet when packet_ref is set, attempt is repair_attempt.
Execution == [phase : PhaseId, packet : BOOLEAN, invoked : BOOLEAN,
              verified : BOOLEAN, attempt : Nat]
\* Incident: none when phase is NoPhase; attempts counts the recorded ones, rt
\* is whether it was opened for a runtime that did not start.
Incident == [phase : PhaseId, attempts : Nat, exhausted : BOOLEAN, rt : BOOLEAN]
\* human/request.json: a new request has a new identifier (stamp flips).
Request == [kind : {"none", "manual", "repair", "blocked", "runtime"},
            stamp : BOOLEAN]

Disk == [cur : CurrentState, phase : PhaseId,         \* state.json
         node : [Phase -> Status],                    \* graph.json
         ex : Execution,                              \* execution.json
         ver : [status : Verdict, phase : PhaseId],   \* verification.json
         inc : Incident,                              \* incident.json
         req : Request]                               \* human/request.json

\* No file but state.json yet.  A missing verification.json reads INCOMPLETE,
\* a missing execution.json has no packet, a missing graph.json no status.
EmptyDisk ==
  [cur |-> "", phase |-> NoPhase, node |-> [p \in Phase |-> "PENDING"],
   ex |-> [phase |-> NoPhase, packet |-> FALSE, invoked |-> FALSE,
           verified |-> FALSE, attempt |-> 0],
   ver |-> [status |-> "INCOMPLETE", phase |-> NoPhase],
   inc |-> [phase |-> NoPhase, attempts |-> 0, exhausted |-> FALSE, rt |-> FALSE],
   req |-> [kind |-> "none", stamp |-> FALSE]]

\* human/response.json, written by prdpr feedback without the lock.  to says
\* whether it names no request, the current one or an earlier one.
Response == [given : BOOLEAN, confirmed : BOOLEAN, to : {"any", "this", "old"}]

\* ManualConfirmed
ManualConfirmed(d, resp) ==
  d.req.kind = "manual" /\ resp.given /\ resp.to # "old" /\ resp.confirmed

-----------------------------------------------------------------------------
\* Writes.  commit marks the write that is a Git checkpoint of the product
\* tree, not a file of .project/.

Write == [disk : Disk, commit : BOOLEAN]
Start(d) == <<[disk |-> d, commit |-> FALSE]>>
Now(h) == h[Len(h)].disk
Then(h, d) == Append(h, [disk |-> d, commit |-> FALSE])

Save(h, cur, phase) == Then(h, [Now(h) EXCEPT !.cur = cur, !.phase = phase])
WriteExecution(h, ex) == Then(h, [Now(h) EXCEPT !.ex = ex])
SaveIncident(h, inc) == Then(h, [Now(h) EXCEPT !.inc = inc])
PersistGraph(h, node) == Then(h, [Now(h) EXCEPT !.node = Refresh(Deps, node)])
MarkPhase(h, p, s) == PersistGraph(h, SetStatus(Deps, Now(h).node, p, s))

\* What callers see of a command: a verdict, or how it ended.
Reply ==
  Verdict \cup {"", "ok", "error", "stop", "waiting", "refused", "project completed",
                "prepared", "repair", "human", "verify", "again", "exhausted", "asked",
                "skipped", "ready", "failed", "infra"}

\* What a handler returns: its writes, the reply its caller sees, and what it
\* waits for before it goes on: a worker, a worker it gave no packet, the tests.
Return(h, reply) == [writes |-> h, reply |-> reply, wait |-> "none"]
AwaitFor(h, wait) == [writes |-> h, reply |-> "", wait |-> wait]

-----------------------------------------------------------------------------
\* Completion and human requests

\* requestHumanLocked, phase being the loaded state's CurrentPhaseID.
RequestHuman(h, phase, kind) ==
  LET asked == Then(h, [Now(h) EXCEPT !.req = [kind |-> kind, stamp |-> ~@.stamp]])
  IN  Save(MarkPhase(asked, phase, "WAITING_FOR_HUMAN"), "WAITING_FOR_HUMAN", phase)

CommitGateOpen(d) == TRUE   \* mutant: no gate

\* assertCommitGate for a state that is VERIFIED, as both callers have it.
CommitGate(d) == AutoCommit => d.ex.verified

\* completeLocked: checkpointLocked commits (a clean tree has nothing to
\* commit), then the graph, then state.json.
CompletePhase(h, phase) ==
  LET committed == IF AutoCommit
                   THEN Append(h, [disk |-> Now(h), commit |-> TRUE]) ELSE h
  IN  Save(MarkPhase(committed, phase, "COMPLETED"), "COMPLETED", phase)

\* recoverLocked.  WORKER_RUNNING is saved after an execution.json exists.
Recover(h) ==
  LET d == Now(h)
  IN  CASE d.cur \in {"WORKER_RUNNING", "VERIFYING"} ->
             Return(Save(h, "WORKER_CLAIMED_DONE", d.phase), "ok")
        [] d.cur = "VERIFIED" ->
             IF CommitGate(d) THEN Return(CompletePhase(h, d.phase), "ok")
                              ELSE Return(h, "error")
        [] OTHER -> Return(h, "ok")

-----------------------------------------------------------------------------
\* prepare and run

\* persistPrepareRefusal and persistRefusal
RefusalFor(h, p) ==
  WriteExecution(h, [phase |-> p, packet |-> FALSE, invoked |-> FALSE,
                     verified |-> FALSE, attempt |-> 0])

\* prepareLocked.  dirty is the working tree as bootstrap and baseline see it,
\* checks is whether preflight and the PRD pass.
PrepareLocked(h, requested, checks, dirty) ==
  LET d == Now(h)
      merged == MergeStatus(Deps, d.node)
      finished == d.cur = "COMPLETED" /\ d.phase \in DOMAIN merged
                  /\ merged[d.phase] = "RUNNING"
      graph == PersistGraph(h, IF finished THEN SetStatus(Deps, merged, d.phase, "COMPLETED")
                                           ELSE merged)
      node == Now(graph).node
      resume == IF d.cur = "COMPLETED" THEN NoPhase ELSE d.phase
      choice == SelectRunnable(node, requested, resume)
      p == choice.phase
      marked == IF node[p] = "RUNNING" THEN graph ELSE MarkPhase(graph, p, "RUNNING")
      packet == WriteExecution(marked, [phase |-> p, packet |-> TRUE, invoked |-> FALSE,
                                        verified |-> FALSE, attempt |-> 0])
  IN  CASE d.cur = "WAITING_FOR_HUMAN" -> Return(h, "waiting")
        [] d.cur # "WAITING_FOR_HUMAN" /\ ~checks -> Return(RefusalFor(h, NoPhase), "refused")
        [] OTHER ->
           IF p = NoPhase
           THEN IF ~choice.reason /\ AllCompleted(node)
                THEN Return(Save(graph, "COMPLETED", d.phase), "project completed")
                ELSE Return(RefusalFor(graph, requested), "refused")
           ELSE IF dirty THEN Return(RefusalFor(marked, p), "refused")
           ELSE Return(Save(packet, "PREPARED", p), "prepared")

\* Prepare
Prepare(d, requested, checks, dirty) ==
  LET r == Recover(Start(d))
  IN  IF r.reply = "error" THEN r
      ELSE PrepareLocked(r.writes, requested, checks, dirty)

\* States in which runProduct hands back the execution that has been worked on.
Worked == {"WORKER_CLAIMED_DONE", "VERIFICATION_FAILED", "VERIFICATION_INCOMPLETE",
           "REVIEWING", "REPAIRING", "VERIFYING", "VERIFIED"}

\* runProduct up to the worker.  It looks at what prepareLocked returned only
\* for a refusal reason: the one of a WAITING project is the request's text,
\* empty when there is no request, and a completed project has none.  ready is
\* the worker's Ready check.
RunProduct(d, requested, checks, dirty, ready) ==
  LET r == Recover(Start(d))
      now == Now(r.writes)
      prep == PrepareLocked(r.writes, requested, checks, dirty)
      p == IF prep.reply = "waiting" THEN NoPhase ELSE Now(prep.writes).phase
  IN  IF r.reply = "error" THEN r
      ELSE IF now.cur \in Worked /\ now.ex.invoked THEN Return(r.writes, "ok")
      ELSE IF \/ prep.reply = "refused"
              \/ prep.reply = "waiting" /\ now.req.kind # "none"
           THEN Return(prep.writes, "stop")
      ELSE IF ~ready THEN Return(RefusalFor(prep.writes, p), "stop")
      ELSE AwaitFor(Save(prep.writes, "WORKER_RUNNING", p),
                 IF prep.reply = "prepared" THEN "worker" ELSE "bare worker")

\* runProduct after the worker; a worker that is not invoked gives a reason.
AfterWorker(d, packet, invoked) ==
  LET ex == [phase |-> d.phase, packet |-> packet, invoked |-> invoked,
             verified |-> FALSE, attempt |-> 0]
  IN  Return(Save(WriteExecution(Start(d), ex),
                  IF invoked THEN "WORKER_CLAIMED_DONE" ELSE "WORKER_REFUSED",
                  d.phase),
             IF invoked THEN "ok" ELSE "stop")

-----------------------------------------------------------------------------
\* verify

\* finalize: the tests pass, fail, time out, or cannot be run.
Judge(p, tests, confirmed) ==
  CASE tests = "pass"    -> IF p \in Manual /\ ~confirmed THEN "MANUAL" ELSE "VERIFIED"
    [] tests = "fail"    -> "FAILED"
    [] tests = "timeout" -> "TIMEOUT"
    [] OTHER             -> "INCOMPLETE"

CanAttempt(inc) == inc.attempts < MaxAttempts /\ ~inc.exhausted

\* Mutants: an attempt already recorded is recorded again; the execution's
\* number replaces the incident's count.
FinishAttemptTwice(inc, number, verified) ==
  [inc EXCEPT !.attempts = @ + 1,
              !.exhausted = ~verified /\ (@ \/ inc.attempts + 1 >= MaxAttempts)]
FinishAttemptRecounts(inc, number, verified) ==
  [inc EXCEPT !.attempts = number,
              !.exhausted = ~verified /\ (@ \/ number >= MaxAttempts)]

\* FinishAttempt with RecordAttempt and markExhausted; attempts are numbered
\* from 1 without gaps.
FinishAttempt(inc, number, verified) ==
  LET attempts == IF number <= inc.attempts THEN inc.attempts ELSE inc.attempts + 1
  IN  [inc EXCEPT !.attempts = attempts,
                  !.exhausted = ~verified /\ (@ \/ attempts >= MaxAttempts)]

\* persistVerify.  of is the verdict's phase; it replaces CurrentPhaseID.
PersistVerify(h, status, of) ==
  LET phase == IF of = NoPhase THEN Now(h).phase ELSE of
      ok == status = "VERIFIED"
      verdict == Then(h, [Now(h) EXCEPT !.ver = [status |-> status, phase |-> of]])
      recorded == WriteExecution(verdict, [Now(h).ex EXCEPT !.verified = ok])
      counted == IF Now(h).ex.attempt = 0 THEN recorded
                 ELSE SaveIncident(recorded,
                        FinishAttempt(Now(h).inc, Now(h).ex.attempt, ok))
  IN  CASE ok -> Return(CompletePhase(counted, phase), status)
        [] status = "MANUAL" -> Return(RequestHuman(counted, phase, "manual"), status)
        [] status = "INCOMPLETE" ->
             Return(Save(counted, "VERIFICATION_INCOMPLETE", phase), status)
        [] OTHER -> Return(Save(counted, "VERIFICATION_FAILED", phase), status)

\* Verify up to the tests; without a packet to verify there are none to run.
Verify(d) ==
  IF d.ex.packet THEN AwaitFor(Save(Start(d), "VERIFYING", d.phase), "tests")
  ELSE PersistVerify(Start(d), "INCOMPLETE", d.ex.phase)

\* Mutant: the verdict does not say whose it is.
AfterTestsUnnamed(d, tests, confirmed) ==
  PersistVerify(Start(d), Judge(d.ex.phase, tests, confirmed), NoPhase)

AfterTests(d, tests, confirmed) ==
  PersistVerify(Start(d), Judge(d.ex.phase, tests, confirmed), d.ex.phase)

-----------------------------------------------------------------------------
\* review and repair

\* Mutant: whatever has not passed can be repaired.
RecommendRepairAny(d) == d.ver.status # "VERIFIED" /\ d.inc.attempts < MaxAttempts

\* diagnose.Classify and review.Run.  No classification asks for a model.
RecommendRepair(d) == d.ver.status = "FAILED" /\ d.inc.attempts < MaxAttempts
RecommendHuman(d) ==
  \/ d.ver.status \in {"TIMEOUT", "INCOMPLETE", "MANUAL"}
  \/ d.inc.attempts >= MaxAttempts

\* reviewLocked
Review(h) ==
  LET d == Now(h)
      after == IF RecommendHuman(d) THEN "WAITING_FOR_HUMAN"
               ELSE IF d.ver.status = "VERIFIED" THEN "VERIFIED"
               ELSE "VERIFICATION_FAILED"
  IN  Return(Save(Save(h, "REVIEWING", d.phase), after, d.phase),
             IF RecommendRepair(d) THEN "repair" ELSE "human")

\* PrepareRepair and prepareRepairLocked.  Classify always finds the origin in
\* the phase itself, so the graph is never rewound from here; a review that
\* recommends repair leaves an attempt to make.
PrepareRepair(d) ==
  LET h == Start(d)
      rev == Review(h)
      inc == IF d.inc.phase # NoPhase THEN d.inc
             ELSE [phase |-> d.ex.phase, attempts |-> 0, exhausted |-> FALSE, rt |-> FALSE]
      begun == [inc EXCEPT !.attempts = @ + 1]       \* BeginAttempt
  IN  IF d.inc.phase # NoPhase /\ ~CanAttempt(d.inc)
      THEN Return(RequestHuman(SaveIncident(h, [d.inc EXCEPT !.exhausted = TRUE]),
                               d.phase, "repair"), "error")
      ELSE IF rev.reply # "repair" \/ ~d.ex.packet THEN Return(rev.writes, "error")
      ELSE Return(Save(WriteExecution(SaveIncident(rev.writes, begun),
                                      [d.ex EXCEPT !.attempt = begun.attempts]),
                       "REPAIRING", d.phase), "ok")

\* recordRepairAttempt, for the attempt and the result the loop holds.
RecordRepairAttempt(d, number, verified) ==
  LET inc == FinishAttempt(d.inc, number, verified)
  IN  Return(SaveIncident(Start(d), inc),
             IF CanAttempt(inc) THEN "again" ELSE "exhausted")

\* Resume.  With GitHub disabled a request about the runtime leads to COMPLETED
\* (and to a start of the runtime, see Runtime), every other to
\* VERIFICATION_FAILED, from where a confirmed manual request goes on to Verify.
Resume(d, resp) ==
  IF d.cur # "WAITING_FOR_HUMAN" \/ ~resp.given THEN Return(Start(d), "error")
  ELSE Return(Save(Start(d),
                   IF d.req.kind = "runtime" THEN "COMPLETED" ELSE "VERIFICATION_FAILED",
                   d.phase),
              IF ManualConfirmed(d, resp) THEN "verify" ELSE "ok")
=============================================================================
