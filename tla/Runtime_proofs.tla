--------------------------- MODULE Runtime_proofs ---------------------------
(***************************************************************************)
(* Proofs about prdpr phase and prdpr runtime working beside the users'    *)
(* commands, for every number of phases, every graph, any limits and any   *)
(* number of crashes: LoopTypeOK and RepairsBounded; and, under the        *)
(* hypotheses of Engine_proofs, CompletedWasVerified.                      *)
(*                                                                         *)
(* The loop is one more caller of the commands, so what Engine_proofs says *)
(* of the files and the command at work stays the invariant.  It is joined *)
(* by what the loop remembers: the attempt it will record is one the       *)
(* incident on disk has already counted, unless the runtime has taken the  *)
(* incident over; and the command at work on its behalf is the one the     *)
(* loop waits for.                                                         *)
(***************************************************************************)
EXTENDS Runtime, Engine_proofs

-----------------------------------------------------------------------------
\* The loop's handlers, and those of the runtime

\* recordRepairAttempt counts no attempt past the limit (repair.go).
LEMMA RecordHandled ==
  ASSUME NEW cmd, NEW d \in Disk, Sound(d), NEW number \in Nat, number <= MaxAttempts,
         ~d.inc.rt => number <= d.inc.attempts, NEW ok \in BOOLEAN
  PROVE  Handled(cmd, RecordRepairAttempt(d, number, ok), d)
<1> DEFINE inc == FinishAttempt(d.inc, number, ok)
           reply == IF CanAttempt(inc) THEN "again" ELSE "exhausted"
<1>1. History(cmd, Start(d), d) /\ Now(Start(d)) = d BY StartHistory
<1>2. History(cmd, SaveIncident(Start(d), inc), d) BY <1>1, FinishHistory
<1>3. RecordRepairAttempt(d, number, ok) = Return(SaveIncident(Start(d), inc), reply)
  BY DEF RecordRepairAttempt
<1>4. reply \in Reply BY DEF Reply
<1> QED BY <1>2, <1>3, <1>4, ReturnHandled

\* The loop's request to a human (human.go RequestHuman).
LEMMA AskHandled ==
  ASSUME NEW cmd, NEW d \in Disk, Sound(d), NEW kind \in {"manual", "repair", "blocked"}
  PROVE  Handled(cmd, Return(RequestHuman(Start(d), d.phase, kind), "asked"), d)
<1>1. History(cmd, Start(d), d) /\ d.phase \in PhaseId BY StartHistory DEF Disk
<1>2. History(cmd, RequestHuman(Start(d), d.phase, kind), d) BY <1>1, RequestHistory
<1>3. "asked" \in Reply BY DEF Reply
<1> QED BY <1>2, <1>3, ReturnHandled

\* What a start of the runtime comes to is a reply.
LEMMA StartsAreReplies == Starts \subseteq Reply
<1>1. \A exit, log : StartEnds(exit, log) \in Reply BY DEF StartEnds, Reply
<1> QED BY <1>1 DEF Starts

\* A start of the runtime writes nothing (runtime.go StartRuntime).
LEMMA StartRuntimeHandled ==
  ASSUME NEW d \in Disk, Sound(d), NEW ends \in Starts
  PROVE  Handled("runtime", Return(Start(d), ends), d)
BY StartHistory, StartsAreReplies, ReturnHandled

\* The incident of a runtime repair is of the runtime and within the limit.
LEMMA RuntimeIncidentType ==
  ASSUME NEW d \in Disk, Sound(d), d.phase # NoPhase
  PROVE  LET inc == RuntimeIncident(d)
         IN  /\ inc \in Incident /\ inc.rt /\ inc.phase # NoPhase
             /\ inc.attempts <= MaxAttempts
             /\ d.inc.rt => inc = d.inc
<1>1. d.inc \in Incident /\ d.phase \in PhaseId BY DEF Disk
<1>2. CASE d.inc.rt BY <1>1, <1>2 DEF RuntimeIncident, Sound
<1>3. CASE ~d.inc.rt
  <2> DEFINE inc == [phase |-> d.phase, attempts |-> 0, exhausted |-> FALSE, rt |-> TRUE]
  <2>1. inc \in Incident BY <1>1 DEF Incident
  <2> QED BY <1>3, <2>1, ProjectAssumption DEF RuntimeIncident
<1> QED BY <1>2, <1>3

\* A runtime repair may save an incident of the runtime that has at least the
\* attempts of the one it replaces, if that was of the runtime too.
LEMMA TurnHistory ==
  ASSUME NEW d, NEW h, History("runtime", h, d), NEW inc \in Incident, inc.rt,
         inc.phase # NoPhase, inc.attempts <= MaxAttempts,
         Now(h).inc.rt => inc.attempts >= Now(h).inc.attempts
  PROVE  LET g == SaveIncident(h, inc)
         IN  History("runtime", g, d) /\ Now(g).inc.rt
<1> DEFINE e == [Now(h) EXCEPT !.inc = inc]
<1>1. Now(h) \in Disk /\ Sound(Now(h)) BY NowType
<1>2. e \in Disk /\ e.inc = inc /\ e.ex = Now(h).ex /\ e.cur = Now(h).cur BY <1>1 DEF Disk
<1> HIDE DEF e
<1>3. Sound(e) BY <1>1, <1>2 DEF Sound
<1>4. Obeys("runtime", Now(h), e) BY <1>1, <1>2 DEF Obeys, Turns
<1>5. SaveIncident(h, inc) = Then(h, e) BY DEF SaveIncident, e
<1> QED BY <1>2, <1>3, <1>4, <1>5, ThenHistory

\* And hand out a packet for it.
LEMMA RuntimeRepairing ==
  ASSUME NEW d, NEW h, History("runtime", h, d), Now(h).inc.rt, NEW phase \in PhaseId
  PROVE  History("runtime", Save(h, "REPAIRING", phase), d)
<1> DEFINE e == [Now(h) EXCEPT !.cur = "REPAIRING", !.phase = phase]
<1>1. Now(h) \in Disk /\ Sound(Now(h)) BY NowType
<1>2. e \in Disk /\ SameFiles(Now(h), e) BY <1>1 DEF Disk, SameFiles, CurrentState
<1> HIDE DEF e
<1>3. Sound(e) BY <1>1, <1>2 DEF Sound, SameFiles
<1>4. Now(h).inc.attempts \in Nat BY <1>1 DEF Disk, Incident
<1>5. Obeys("runtime", Now(h), e) BY <1>2, <1>4 DEF Obeys, Turns, SameFiles
<1>6. Save(h, "REPAIRING", phase) = Then(h, e) BY DEF Save, e
<1> QED BY <1>2, <1>3, <1>5, <1>6, ThenHistory

\* The repair of the runtime (runtime.go RepairRuntime).
LEMMA RepairRuntimeHandled ==
  ASSUME NEW d \in Disk, Sound(d), d.phase # NoPhase, NEW ends
  PROVE  Handled("runtime", RepairRuntime(d, ends), d)
<1> DEFINE h == Start(d)
           inc == RuntimeIncident(d)
           begun == [inc EXCEPT !.attempts = @ + 1]
           spent == [inc EXCEPT !.exhausted = TRUE]
           r == RepairRuntime(d, ends)
<1>1. History("runtime", h, d) /\ Now(h) = d BY StartHistory
<1>2. d.phase \in PhaseId /\ d.inc \in Incident BY DEF Disk
<1>3. /\ inc \in Incident /\ inc.rt /\ inc.phase # NoPhase /\ inc.attempts <= MaxAttempts
      /\ d.inc.rt => inc = d.inc
  BY RuntimeIncidentType
<1>4. \/ r = Return(h, "ok")
      \/ r = Return(RequestHuman(h, d.phase, "runtime"), "ok")
      \/ /\ CanAttempt(inc)
         /\ r = Return(Save(SaveIncident(h, begun), "REPAIRING", d.phase), "ok")
      \/ r = Return(RequestHuman(SaveIncident(h, spent), d.phase, "runtime"), "error")
  BY DEF RepairRuntime
<1> HIDE DEF h, inc, r
<1>5. inc.attempts \in Nat /\ MaxAttempts \in Nat BY <1>3, ProjectAssumption DEF Incident
<1>6. "ok" \in Reply /\ "error" \in Reply BY AreReplies
<1>7. Handled("runtime", Return(h, "ok"), d) BY <1>1, <1>6, ReturnHandled
<1>8. Handled("runtime", Return(RequestHuman(h, d.phase, "runtime"), "ok"), d)
  <2>1. History("runtime", RequestHuman(h, d.phase, "runtime"), d)
    BY <1>1, <1>2, RequestHistory
  <2> QED BY <2>1, <1>6, ReturnHandled
<1>9. ASSUME CanAttempt(inc)
      PROVE  Handled("runtime", Return(Save(SaveIncident(h, begun), "REPAIRING", d.phase), "ok"), d)
  <2>1. /\ begun \in Incident /\ begun.rt /\ begun.phase # NoPhase
        /\ begun.attempts = inc.attempts + 1
    BY <1>3, <1>5 DEF Incident
  <2>2. begun.attempts <= MaxAttempts BY <1>5, <1>9, <2>1 DEF CanAttempt
  <2>3. d.inc.rt => begun.attempts >= d.inc.attempts BY <1>3, <1>5, <2>1
  <2> HIDE DEF begun
  <2> DEFINE g == SaveIncident(h, begun)
  <2>4. History("runtime", g, d) /\ Now(g).inc.rt
    BY <1>1, <2>1, <2>2, <2>3, TurnHistory
  <2> HIDE DEF g
  <2>5. History("runtime", Save(g, "REPAIRING", d.phase), d) BY <1>2, <2>4, RuntimeRepairing
  <2> QED BY <2>5, <1>6, ReturnHandled DEF g
<1>10. Handled("runtime",
               Return(RequestHuman(SaveIncident(h, spent), d.phase, "runtime"), "error"), d)
  <2>1. /\ spent \in Incident /\ spent.rt /\ spent.phase # NoPhase
        /\ spent.attempts = inc.attempts
    BY <1>3, <1>5 DEF Incident
  <2>2. d.inc.rt => spent.attempts >= d.inc.attempts BY <1>3, <1>5, <2>1
  <2> HIDE DEF spent
  <2> DEFINE g == SaveIncident(h, spent)
  <2>3. History("runtime", g, d) BY <1>1, <1>3, <2>1, <2>2, TurnHistory
  <2> HIDE DEF g
  <2>4. History("runtime", RequestHuman(g, d.phase, "runtime"), d)
    BY <1>2, <2>3, RequestHistory
  <2> QED BY <2>4, <1>6, ReturnHandled DEF g
<1> QED BY <1>4, <1>7, <1>8, <1>9, <1>10 DEF r

-----------------------------------------------------------------------------
\* The invariant

\* What the loop remembers.
Memory == [pc : {"idle", "run", "verify", "review", "repair", "worker", "reverify",
                 "record", "ask", "delivered", "next"},
           requested : PhaseId, ran : PhaseId, seen : SUBSET Phase,
           i : 0..LoopAttempts, attempt : Nat, verdict : Verdict \cup {""},
           kind : {"none", "manual", "repair", "blocked"}]

\* The attempt it has handed to the repair worker is one the incident knows, and
\* it asks nothing without a question.
Remembers(m, d) ==
  /\ m \in Memory
  /\ m.attempt <= MaxAttempts
  /\ ~d.inc.rt => m.attempt <= d.inc.attempts
  /\ m.pc = "ask" => m.kind # "none"

\* The command at work on behalf of the loop is the one it has called, and what
\* verify replies is a verdict.
CallOK(j, m) ==
  /\ j.by = "loop" => m.pc \in DOMAIN Call /\ j.cmd = Call[m.pc]
  /\ j.cmd = "verify" => j.wait \in {"none", "tests"} /\ j.reply \in Verdict \cup {""}

RInv == IInv /\ Remembers(loop, disk) /\ CallOK(job, loop)

\* A loop that has not begun remembers nothing.
LEMMA IdleRemembers ==
  ASSUME NEW d \in Disk
  PROVE  Remembers(Idle, d)
<1>1. d.inc.attempts \in Nat /\ MaxAttempts \in Nat BY ProjectAssumption DEF Disk, Incident
<1>2. LoopAttempts \in Nat BY LoopAssumption
<1>3. Idle \in Memory BY <1>2 DEF Idle, Memory, PhaseId
<1>4. Idle.attempt = 0 /\ Idle.pc = "idle" BY DEF Idle
<1> QED BY <1>1, <1>3, <1>4 DEF Remembers

\* Nobody waits for a command that is not there.
LEMMA NobodyCalls == \A m : CallOK(NoJob, m)
BY DEF CallOK, NoJob

\* A write of any command leaves the loop's attempt known.
LEMMA StillRemembers ==
  ASSUME NEW m, NEW d \in Disk, NEW e \in Disk, Remembers(m, d),
         e = d \/ e.inc = d.inc \/ (\E cmd : Obeys(cmd, d, e))
  PROVE  Remembers(m, e)
<1>1. m.attempt \in Nat /\ d.inc.attempts \in Nat /\ e.inc.attempts \in Nat
  BY DEF Remembers, Memory, Disk, Incident
<1> QED BY <1>1 DEF Remembers, Obeys, Follows, Turns

\* What verify replies.
LEMMA VerifyReplies ==
  ASSUME NEW d \in Disk
  PROVE  LET r == Verify(d) IN r.wait \in {"none", "tests"} /\ r.reply \in Verdict \cup {""}
<1>1. CASE d.ex.packet BY <1>1 DEF Verify, AwaitFor
<1>2. CASE ~d.ex.packet BY <1>2 DEF Verify, PersistVerify, Return, Verdict
<1> QED BY <1>1, <1>2

\* And after its tests.
LEMMA TestsReply ==
  ASSUME NEW d, NEW tests, NEW confirmed
  PROVE  LET r == AfterTests(d, tests, confirmed) IN r.wait = "none" /\ r.reply \in Verdict
<1>1. Judge(d.ex.phase, tests, confirmed) \in Verdict BY DEF Judge, Verdict
<1> DEFINE status == Judge(d.ex.phase, tests, confirmed)
<1> HIDE DEF status
<1>2. \A of : LET r == PersistVerify(Start(d), status, of)
              IN  r.wait = "none" /\ r.reply = status
  BY DEF PersistVerify, Return
<1> QED BY <1>1, <1>2 DEF AfterTests, status

-----------------------------------------------------------------------------
\* Steps of the commands beside the loop

\* A command that a user starts is none of the loop's.
LEMMA UserCalls ==
  ASSUME NEW cmd, NEW r, NEW m, Begin(cmd, "user", r),
         cmd = "verify" => r.wait \in {"none", "tests"} /\ r.reply \in Verdict \cup {""}
  PROVE  CallOK(job', m)
BY DEF Begin, CallOK

\* No step of the commands disturbs whom they work for.
LEMMA CommandCalls ==
  ASSUME IInv, NEW m, CallOK(job, m),
         \/ Working \/ Unlock \/ UserStarts \/ ResumeVerify \/ Feedback \/ Edit \/ Clean
         \/ Committing
  PROVE  CallOK(job', m)
<1>1. job \in Job /\ disk \in Disk BY DEF IInv, WorkOK
<1>2. CASE WriteNext BY <1>1, <1>2 DEF WriteNext, CallOK, Job
<1>3. ASSUME NEW invoked \in Health, NEW edits \in BOOLEAN, Work(invoked, edits)
      PROVE  CallOK(job', m)
  <2>1. job.cmd # "verify" BY <1>3 DEF Work, CallOK
  <2>2. job'.cmd = job.cmd /\ job'.by = job.by BY <1>1, <1>3 DEF Work, Continue, Job
  <2> QED BY <2>1, <2>2 DEF CallOK
<1>4. ASSUME NEW outcome \in Outcomes, RunTests(outcome)
      PROVE  CallOK(job', m)
  <2> DEFINE r == AfterTests(disk, outcome, ManualConfirmed(disk, resp))
  <2>1. r.wait = "none" /\ r.reply \in Verdict BY TestsReply
  <2>2. Continue(r) BY <1>4 DEF RunTests
  <2> HIDE DEF r
  <2>3. /\ job'.cmd = job.cmd /\ job'.by = job.by
        /\ job'.wait = r.wait /\ job'.reply = r.reply
    BY <1>1, <2>2 DEF Continue, Job
  <2> QED BY <2>1, <2>3 DEF CallOK
<1>5. CASE \/ Unlock \/ Feedback \/ Edit \/ Clean \/ Committing
  <2>1. job' = job \/ job' = NoJob
    BY <1>5 DEF Unlock, Feedback, Edit, Clean, Committing, CommitCheck, CommitTree,
                CommitLoad, CommitSave
  <2> QED BY <2>1, NobodyCalls
<1>6. ASSUME NEW cmd, NEW r, UserCommand(cmd, r), cmd # "verify"
      PROVE  CallOK(job', m)
  BY <1>6, UserCalls DEF UserCommand
<1>7. CASE VerifyCommand BY <1>1, <1>7, UserCalls, VerifyReplies DEF VerifyCommand, UserCommand
<1>8. CASE ResumeVerify
  <2>1. Begin("verify", "user", Verify(disk)) \/ job' = job BY <1>8 DEF ResumeVerify
  <2> QED BY <1>1, <2>1, UserCalls, VerifyReplies
<1>9. CASE RunCommand BY <1>6, <1>9 DEF RunCommand
<1>10. CASE PrepareCommand BY <1>6, <1>10 DEF PrepareCommand
<1>11. CASE ReviewCommand BY <1>6, <1>11 DEF ReviewCommand
<1>12. CASE RepairCommand BY <1>6, <1>12 DEF RepairCommand
<1>13. CASE ResumeCommand BY <1>6, <1>13 DEF ResumeCommand
<1> QED BY <1>2, <1>3, <1>4, <1>5, <1>7, <1>8, <1>9, <1>10, <1>11, <1>12, <1>13
        DEF Working, UserStarts

\* What a step may do to the files.
Written == disk' = disk \/ disk'.inc = disk.inc \/ Obeys(job.cmd, disk, disk')

\* A step of Engine, the loop going on or dying with its command.
LEMMA EngineStepOK ==
  ASSUME RInv, EngineStep
  PROVE  RInv' /\ Written
<1>1. IInv /\ Remembers(loop, disk) /\ CallOK(job, loop) BY DEF RInv
<1>2. Next BY DEF EngineStep, Next
<1>3. IInv' /\ Written BY <1>1, <1>2, Step DEF Written
<1>4. disk \in Disk /\ disk' \in Disk BY <1>1, <1>3 DEF IInv, WorkOK
<1>5. Remembers(loop, disk') BY <1>1, <1>3, <1>4, StillRemembers DEF Written
<1>6. Remembers(Idle, disk') BY <1>4, IdleRemembers
<1>7. CASE Crash /\ loop' = IF job.by = "loop" THEN Idle ELSE loop
  <2>1. job' = NoJob BY <1>7 DEF Crash
  <2> QED BY <1>3, <1>5, <1>6, <1>7, <2>1, NobodyCalls DEF RInv
<1>8. CASE /\ \/ Working \/ Unlock \/ UserStarts \/ ResumeVerify \/ Feedback \/ Edit \/ Clean
              \/ Committing
           /\ UNCHANGED loop
  <2>1. CallOK(job', loop) BY <1>1, <1>8, CommandCalls
  <2> QED BY <1>3, <1>5, <1>8, <2>1 DEF RInv
<1> QED BY <1>7, <1>8 DEF EngineStep

-----------------------------------------------------------------------------
\* Steps of the loop

\* Everything but the command at work stays.
Beside == UNCHANGED <<disk, resp, dirty, resuming, committer, crashes, untested, passed, answered>>

\* The commands it calls take the lock.
LEMMA CallType ==
  \A pc \in DOMAIN Call : Call[pc] \in {"run", "verify", "review", "repair", "record", "ask"}
BY DEF Call

\* The loop calls a command.
LEMMA LoopBegins ==
  ASSUME RInv, NEW pc \in DOMAIN Call, NEW r, LoopBegin(pc, r), Handled(Call[pc], r, disk),
         Call[pc] = "verify" =>
           r.wait \in {"none", "tests"} /\ r.reply \in Verdict \cup {""}
  PROVE  RInv' /\ Written
<1>1. IInv /\ Remembers(loop, disk) /\ CallOK(job, loop) BY DEF RInv
<1>2. WorkOK(disk, job) /\ OthersOK BY <1>1 DEF IInv
<1>3. loop.pc = pc /\ Begin(Call[pc], "loop", r) /\ Beside /\ UNCHANGED loop
  BY DEF LoopBegin, Beside
<1>4. Call[pc] \in LockedCommand
  <2>1. Call[pc] \in {"run", "verify", "review", "repair", "record", "ask"} BY CallType
  <2> QED BY <2>1 DEF LockedCommand
<1>5. WorkOK(disk, job') BY <1>2, <1>3, <1>4, BeginOK
<1>6. OthersOK' BY <1>2, <1>3 DEF OthersOK, Beside
<1>7. CallOK(job', loop) BY <1>3 DEF CallOK, Begin
<1> QED BY <1>1, <1>3, <1>5, <1>6, <1>7 DEF RInv, IInv, Written, Beside

\* Each of its calls.
LEMMA LoopCallOK ==
  ASSUME RInv, LoopCall
  PROVE  RInv' /\ Written
<1>1. /\ disk \in Disk /\ Sound(disk) /\ dirty \in BOOLEAN
      /\ Remembers(loop, disk) /\ loop \in Memory
  BY DEF RInv, IInv, WorkOK, OthersOK, Remembers
<1>2. /\ loop.requested \in PhaseId /\ loop.attempt \in Nat
      /\ loop.kind \in {"none", "manual", "repair", "blocked"}
  BY <1>1 DEF Memory
<1>3. /\ DOMAIN Call = {"run", "verify", "review", "repair", "reverify", "record", "ask"}
      /\ Call["run"] = "run" /\ Call["verify"] = "verify" /\ Call["review"] = "review"
      /\ Call["repair"] = "repair" /\ Call["reverify"] = "verify"
      /\ Call["record"] = "record" /\ Call["ask"] = "ask"
  BY DEF Call
<1>4. CASE LoopRun
  <2>1. PICK checks \in Health, ready \in Health :
          LoopBegin("run", RunProduct(disk, loop.requested, checks, dirty, ready))
    BY <1>4 DEF LoopRun
  <2>2. checks \in BOOLEAN /\ ready \in BOOLEAN BY EngineAssumption
  <2> DEFINE r == RunProduct(disk, loop.requested, checks, dirty, ready)
  <2>3. Handled("run", r, disk) BY <1>1, <1>2, <2>2, RunHandled
  <2>4. LoopBegin("run", r) BY <2>1
  <2> HIDE DEF r
  <2> QED BY <1>3, <2>3, <2>4, LoopBegins
<1>5. CASE LoopVerify
  <2>1. Handled("verify", Verify(disk), disk) BY <1>1, VerifyHandled
  <2> QED BY <1>1, <1>3, <1>5, <2>1, VerifyReplies, LoopBegins DEF LoopVerify
<1>6. CASE LoopReverify
  <2>1. Handled("verify", Verify(disk), disk) BY <1>1, VerifyHandled
  <2> QED BY <1>1, <1>3, <1>6, <2>1, VerifyReplies, LoopBegins DEF LoopReverify
<1>7. CASE LoopReview
  <2>1. Handled("review", Review(Start(disk)), disk) BY <1>1, ReviewHandled
  <2> QED BY <1>3, <1>7, <2>1, LoopBegins DEF LoopReview
<1>8. CASE LoopRepair
  <2>1. Handled("repair", PrepareRepair(disk), disk) BY <1>1, PrepareRepairHandled
  <2> QED BY <1>3, <1>8, <2>1, LoopBegins DEF LoopRepair
<1>9. CASE LoopRecord
  <2> DEFINE ok == loop.verdict = "VERIFIED"
             r == RecordRepairAttempt(disk, loop.attempt, ok)
  <2>1. ok \in BOOLEAN OBVIOUS
  <2>2. LoopBegin("record", r) BY <1>9 DEF LoopRecord
  <2> HIDE DEF ok
  <2>3. Handled("record", r, disk) BY <1>1, <1>2, <2>1, RecordHandled DEF Remembers
  <2> HIDE DEF r
  <2> QED BY <1>3, <2>2, <2>3, LoopBegins
<1>10. CASE LoopAsk
  <2> DEFINE r == Return(RequestHuman(Start(disk), disk.phase, loop.kind), "asked")
  <2>1. LoopBegin("ask", r) BY <1>10 DEF LoopAsk
  <2>2. loop.pc = "ask" BY <2>1 DEF LoopBegin
  <2>3. loop.kind \in {"manual", "repair", "blocked"} BY <1>1, <1>2, <2>2 DEF Remembers
  <2>4. Handled("ask", r, disk) BY <1>1, <2>3, AskHandled
  <2> HIDE DEF r
  <2> QED BY <1>3, <2>1, <2>4, LoopBegins
<1> QED BY <1>4, <1>5, <1>6, <1>7, <1>8, <1>9, <1>10 DEF LoopCall

\* Where the loop goes without forgetting anything.
LEMMA Goes ==
  ASSUME Remembers(loop, disk),
         NEW pc \in {"run", "verify", "review", "repair", "worker", "reverify", "record",
                     "delivered", "next"}
  PROVE  /\ Remembers(Goto(pc), disk)
         /\ Goto(pc) \in Memory /\ Goto(pc).attempt = loop.attempt /\ Goto(pc).pc = pc
BY DEF Remembers, Goto, Memory

\* A question has its kind.
LEMMA Asks ==
  ASSUME Remembers(loop, disk), NEW kind \in {"manual", "repair", "blocked"}
  PROVE  Remembers(Ask(kind), disk)
BY DEF Remembers, Ask, Memory

\* The rounds of the repair loop.
LEMMA Rounds ==
  /\ 0 \in 0..LoopAttempts
  /\ \A i \in 0..LoopAttempts : i + 1 < LoopAttempts => i + 1 \in 0..LoopAttempts
BY LoopAssumption

\* What the loop remembers of a reply.
LEMMA AfterOK ==
  ASSUME disk \in Disk, Sound(disk), Remembers(loop, disk), NEW reply \in Reply,
         loop.pc \in {"verify", "reverify"} => reply \in Verdict \cup {""}
  PROVE  Remembers(After(loop.pc, reply), disk)
<1>1. /\ loop \in Memory /\ disk.ex.phase \in PhaseId /\ disk.ex.attempt \in Nat
      /\ loop.i \in 0..LoopAttempts
      /\ MaxAttempts \in Nat /\ disk.inc.attempts \in Nat
  BY ProjectAssumption DEF Remembers, Memory, Disk, Execution, Incident
<1>2. Remembers(Idle, disk) BY IdleRemembers
<1>3. Remembers(AfterRun(reply), disk)
  <2> DEFINE m == [Goto("verify") EXCEPT !.ran = disk.ex.phase]
  <2>1. Remembers(m, disk) BY <1>1, Goes DEF Remembers, Memory
  <2> QED BY <1>2, <2>1 DEF AfterRun
<1>4. Remembers(AfterVerify(reply), disk)
  <2> DEFINE m == [Goto("review") EXCEPT !.i = 0]
  <2>1. Remembers(m, disk)
    <3>1. Remembers(Goto("review"), disk) /\ Goto("review") \in Memory
          /\ Goto("review").pc = "review"
      BY Goes
    <3>2. 0 \in 0..LoopAttempts BY Rounds
    <3>3. m \in Memory /\ m.attempt = Goto("review").attempt /\ m.pc = "review"
      BY <3>1, <3>2 DEF Memory
    <3> QED BY <3>1, <3>3 DEF Remembers
  <2>2. Remembers(Goto("delivered"), disk) /\ Remembers(Ask("manual"), disk) BY Goes, Asks
  <2> QED BY <2>1, <2>2 DEF AfterVerify
<1>5. Remembers(AfterReview(reply), disk)
  <2>1. /\ Remembers(Goto("repair"), disk) /\ Remembers(Ask("manual"), disk)
        /\ Remembers(Ask("blocked"), disk)
    BY Goes, Asks
  <2> QED BY <2>1 DEF AfterReview
<1>6. Remembers(AfterRepair(reply), disk)
  <2> DEFINE m == [Goto("worker") EXCEPT !.attempt = disk.ex.attempt]
  <2>1. m \in Memory /\ m.attempt = disk.ex.attempt /\ m.pc = "worker"
    BY <1>1, Goes DEF Memory
  <2>2. Remembers(m, disk) BY <2>1 DEF Remembers, Sound
  <2>3. Remembers(Ask("repair"), disk) BY Asks
  <2> QED BY <2>2, <2>3 DEF AfterRepair
<1>7. loop.pc = "reverify" => Remembers(AfterReverify(reply), disk)
  <2> DEFINE m == [Goto("record") EXCEPT !.verdict = reply]
  <2>1. ASSUME reply \in Verdict \cup {""} PROVE Remembers(m, disk)
    <3>1. Remembers(Goto("record"), disk) /\ Goto("record") \in Memory
          /\ Goto("record").pc = "record"
      BY Goes
    <3>2. m \in Memory /\ m.attempt = Goto("record").attempt /\ m.pc = "record"
      BY <2>1, <3>1 DEF Memory
    <3> QED BY <3>1, <3>2 DEF Remembers
  <2> QED BY <2>1 DEF AfterReverify
<1>8. Remembers(AfterRecord(reply), disk)
  <2> DEFINE m == [Goto("review") EXCEPT !.i = @ + 1]
  <2>1. Goto("review").i = loop.i BY <1>1 DEF Goto, Memory
  <2>2. loop.i + 1 < LoopAttempts => loop.i + 1 \in 0..LoopAttempts BY <1>1, Rounds
  <2>3. ASSUME loop.i + 1 < LoopAttempts PROVE Remembers(m, disk)
    <3>1. Remembers(Goto("review"), disk) /\ Goto("review") \in Memory
          /\ Goto("review").pc = "review"
      BY Goes
    <3>2. m \in Memory /\ m.attempt = Goto("review").attempt /\ m.pc = "review"
      BY <2>1, <2>2, <2>3, <3>1 DEF Memory
    <3> QED BY <3>1, <3>2 DEF Remembers
  <2>4. Remembers(Goto("next"), disk) /\ Remembers(Ask("repair"), disk) BY Goes, Asks
  <2> QED BY <1>2, <2>3, <2>4 DEF AfterRecord
<1> QED BY <1>2, <1>3, <1>4, <1>5, <1>6, <1>7, <1>8 DEF After

\* Neither the files nor the command change, only the loop and the product tree.
LEMMA LoopAlone ==
  ASSUME RInv, UNCHANGED <<disk, resp, job, resuming, committer, passed, answered>>,
         dirty' \in BOOLEAN, untested' \in BOOLEAN, crashes' \in 0..MaxCrashes,
         Remembers(loop', disk), job.by # "loop"
  PROVE  RInv' /\ Written
<1>1. IInv /\ CallOK(job, loop) BY DEF RInv
<1>2. IInv' BY <1>1 DEF IInv, WorkOK, OthersOK
<1>3. CallOK(job, loop') BY <1>1 DEF CallOK
<1> QED BY <1>2, <1>3 DEF RInv, Written

\* Nobody else works for the loop when it is not at a call.
LEMMA AtNoCall ==
  ASSUME RInv, loop.pc \notin DOMAIN Call
  PROVE  job.by # "loop"
BY DEF RInv, CallOK

\* What RunGraph starts with is a phase or none.
LEMMA FirstReadyType ==
  ASSUME disk \in Disk
  PROVE  FirstReady(Refresh(Deps, disk.node)) \in PhaseId
<1>1. Refresh(Deps, disk.node) \in Statuses
  BY DepsType, RefreshType DEF Disk, Statuses
<1>2. \A x : Having(Refresh(Deps, disk.node), x) \in SUBSET Phase BY <1>1, OnPhases DEF Having
<1>3. \A S \in SUBSET Phase : First(S) \in PhaseId
  BY FirstIsElement DEF First, PhaseId
<1> QED BY <1>2, <1>3 DEF FirstReady

\* The answer to a call comes back, or the loop goes on by itself.
LEMMA LoopMoveOK ==
  ASSUME RInv, LoopMove
  PROVE  RInv' /\ Written
<1>1. /\ IInv /\ Remembers(loop, disk) /\ CallOK(job, loop) /\ disk \in Disk /\ Sound(disk)
      /\ job \in Job /\ OthersOK /\ loop \in Memory
  BY DEF RInv, IInv, WorkOK, Remembers
<1>2. /\ dirty \in BOOLEAN /\ untested \in BOOLEAN /\ crashes \in 0..MaxCrashes
  BY <1>1 DEF OthersOK
<1>3. CASE LoopReply
  <2>1. /\ job.by = "loop" /\ job' = NoJob /\ loop' = After(loop.pc, job.reply)
        /\ Beside
    BY <1>3 DEF LoopReply, Beside
  <2>2. job.reply \in Reply BY <1>1 DEF Job
  <2>3. loop.pc \in {"verify", "reverify"} => job.reply \in Verdict \cup {""}
    <3>1. Call["verify"] = "verify" /\ Call["reverify"] = "verify" BY DEF Call
    <3> QED BY <1>1, <2>1, <3>1 DEF CallOK
  <2>4. Remembers(loop', disk) BY <1>1, <2>1, <2>2, <2>3, AfterOK
  <2>5. WorkOK(disk, job') BY <1>1, <2>1, NoJobOK
  <2>6. IInv' BY <1>1, <2>1, <2>5 DEF IInv, OthersOK, Beside
  <2> QED BY <2>1, <2>4, <2>6, NobodyCalls DEF RInv, Written, Beside
<1>4. CASE LoopWorker
  <2>1. loop.pc \notin DOMAIN Call BY <1>4 DEF LoopWorker, Call
  <2>2. dirty' \in BOOLEAN /\ untested' \in BOOLEAN BY <1>2, <1>4 DEF LoopWorker
  <2>3. Remembers(loop', disk) BY <1>1, <1>4, Goes DEF LoopWorker
  <2> QED BY <1>2, <1>4, <2>1, <2>2, <2>3, AtNoCall, LoopAlone DEF LoopWorker
<1>5. CASE LoopDelivered
  <2>1. loop.pc \notin DOMAIN Call BY <1>5 DEF LoopDelivered, Call
  <2>2. Remembers(Idle, disk) /\ Remembers(Goto("next"), disk) BY <1>1, IdleRemembers, Goes
  <2>3. Remembers(loop', disk) BY <1>5, <2>2 DEF LoopDelivered
  <2> QED BY <1>2, <1>5, <2>1, <2>3, AtNoCall, LoopAlone DEF LoopDelivered, vars
<1>6. CASE LoopNext
  <2> DEFINE q == FirstReady(Refresh(Deps, disk.node))
             seen == loop.seen \cup ({loop.ran} \ {NoPhase})
             m == [Idle EXCEPT !.pc = "run", !.requested = q, !.seen = seen]
  <2>1. loop.pc \notin DOMAIN Call BY <1>6 DEF LoopNext, Call
  <2>2. loop' = Idle \/ loop' = m BY <1>6 DEF LoopNext
  <2>3. q \in PhaseId BY <1>1, FirstReadyType
  <2>4. seen \in SUBSET Phase BY <1>1 DEF Memory, PhaseId
  <2> HIDE DEF q, seen
  <2>5. Remembers(Idle, disk) BY <1>1, IdleRemembers
  <2>6. m \in Memory /\ m.attempt = Idle.attempt /\ m.pc = "run"
    <3>1. Idle \in Memory BY <2>5 DEF Remembers
    <3> QED BY <2>3, <2>4, <3>1 DEF Memory
  <2>7. Remembers(m, disk) BY <2>5, <2>6 DEF Remembers
  <2>8. UNCHANGED vars BY <1>6 DEF LoopNext
  <2> QED BY <1>2, <2>1, <2>2, <2>5, <2>7, <2>8, AtNoCall, LoopAlone DEF vars
<1> QED BY <1>3, <1>4, <1>5, <1>6 DEF LoopMove

\* It starts, is refused a call, or dies.
LEMMA LoopEndsOK ==
  ASSUME RInv, \/ LoopRefused \/ LoopCrash \/ \E requested \in PhaseId : LoopStart(requested)
  PROVE  RInv' /\ Written
<1>1. /\ IInv /\ Remembers(loop, disk) /\ disk \in Disk /\ OthersOK
  BY DEF RInv, IInv, WorkOK
<1>2. /\ dirty \in BOOLEAN /\ untested \in BOOLEAN /\ crashes \in 0..MaxCrashes
  BY <1>1 DEF OthersOK
<1>3. Remembers(Idle, disk) BY <1>1, IdleRemembers
<1>4. CASE LoopRefused
  <2>1. job.by # "loop" BY <1>4 DEF LoopRefused
  <2>2. Remembers(Ask("repair"), disk) BY <1>1, Asks
  <2> QED BY <1>2, <1>3, <1>4, <2>1, <2>2, LoopAlone DEF LoopRefused, vars
<1>5. CASE LoopCrash
  <2>1. crashes' \in 0..MaxCrashes
    <3>1. crashes < MaxCrashes /\ crashes' = crashes + 1 BY <1>5 DEF LoopCrash
    <3>2. MaxCrashes \in Nat BY EngineAssumption
    <3> QED BY <1>2, <3>1, <3>2
  <2>2. dirty' \in BOOLEAN /\ untested' \in BOOLEAN BY <1>2, <1>5 DEF LoopCrash
  <2> QED BY <1>3, <1>5, <2>1, <2>2, LoopAlone DEF LoopCrash
<1>6. ASSUME NEW requested \in PhaseId, LoopStart(requested)
      PROVE  RInv' /\ Written
  <2> DEFINE m == [Idle EXCEPT !.pc = "run", !.requested = requested]
  <2>1. m \in Memory /\ m.attempt = Idle.attempt /\ m.pc = "run"
    <3>1. Idle \in Memory BY <1>3 DEF Remembers
    <3> QED BY <3>1 DEF Memory
  <2>2. Remembers(m, disk) BY <1>3, <2>1 DEF Remembers
  <2>3. loop' = m /\ job.by # "loop" /\ UNCHANGED vars BY <1>6 DEF LoopStart
  <2> QED BY <1>2, <2>2, <2>3, LoopAlone DEF vars
<1> QED BY <1>4, <1>5, <1>6

\* prdpr runtime.
LEMMA RuntimeOK ==
  ASSUME RInv, NEW ends \in Starts, RuntimeStart(ends) \/ RuntimeRepair(ends)
  PROVE  RInv' /\ Written
<1>1. /\ Remembers(loop, disk) /\ disk \in Disk /\ Sound(disk) /\ WorkOK(disk, job) /\ OthersOK
  BY DEF RInv, IInv, WorkOK
<1>2. disk.phase # NoPhase /\ UNCHANGED loop BY DEF RuntimeStart, RuntimeRepair
<1>3. ASSUME NEW r, UserCommand("runtime", r), Handled("runtime", r, disk)
      PROVE  RInv' /\ Written
  <2>1. Begin("runtime", "user", r) /\ Beside BY <1>3 DEF UserCommand, Beside
  <2>2. "runtime" \in LockedCommand BY DEF LockedCommand
  <2>3. WorkOK(disk, job') BY <1>1, <1>3, <2>1, <2>2, BeginOK
  <2>4. CallOK(job', loop) BY <2>1, UserCalls
  <2>5. OthersOK' BY <1>1, <2>1 DEF OthersOK, Beside
  <2> QED BY <1>1, <1>2, <2>1, <2>3, <2>4, <2>5 DEF RInv, IInv, Written, Beside
<1>4. CASE RuntimeStart(ends)
  <2>1. Handled("runtime", Return(Start(disk), ends), disk) BY <1>1, StartRuntimeHandled
  <2> QED BY <1>3, <1>4, <2>1 DEF RuntimeStart
<1>5. CASE RuntimeRepair(ends)
  <2>1. Handled("runtime", RepairRuntime(disk, ends), disk)
    BY <1>1, <1>2, RepairRuntimeHandled
  <2> QED BY <1>3, <1>5, <2>1 DEF RuntimeRepair
<1> QED BY <1>4, <1>5

\* Every step keeps the invariant.
LEMMA RuntimeStep ==
  ASSUME RInv, [RuntimeNext]_loopvars
  PROVE  RInv' /\ Written
<1>1. CASE EngineStep BY <1>1, EngineStepOK
<1>2. CASE LoopCall BY <1>2, LoopCallOK
<1>3. CASE LoopMove BY <1>3, LoopMoveOK
<1>4. CASE \/ LoopRefused \/ LoopCrash \/ \E requested \in PhaseId : LoopStart(requested)
  BY <1>4, LoopEndsOK
<1>5. CASE \E ends \in Starts : RuntimeStart(ends) \/ RuntimeRepair(ends)
  BY <1>5, RuntimeOK
<1>6. CASE UNCHANGED loopvars
  BY <1>6 DEF RInv, IInv, WorkOK, OthersOK, CallOK, Remembers, Written, loopvars, vars
<1> QED BY <1>1, <1>2, <1>3, <1>4, <1>5, <1>6 DEF RuntimeNext, LoopNextState

\* It holds at the beginning.
LEMMA RuntimeBegins == LoopInit => RInv
<1> SUFFICES ASSUME LoopInit PROVE RInv OBVIOUS
<1>1. IInv /\ job = NoJob /\ loop = Idle BY IInvInit DEF LoopInit, Init
<1>2. disk \in Disk BY <1>1 DEF IInv, WorkOK
<1> QED BY <1>1, <1>2, IdleRemembers, NobodyCalls DEF RInv

\* And throughout.
LEMMA RuntimeInvariance == RuntimeSpec => []RInv
<1>1. RInv /\ [RuntimeNext]_loopvars => RInv' BY RuntimeStep
<1> QED BY <1>1, RuntimeBegins, PTL DEF RuntimeSpec

\* For prdpr phase alone as well, whose steps are among these.
LEMMA LoopInvariance == LoopSpec => []RInv
<1>1. RInv /\ [LoopNextState]_loopvars => RInv' BY RuntimeStep DEF RuntimeNext
<1> QED BY <1>1, RuntimeBegins, PTL DEF LoopSpec

\* Nor does prdpr phase ever repair the runtime.
LEMMA LoopPhaseOnly ==
  ASSUME RInv, PhaseOnly, [LoopNextState]_loopvars
  PROVE  PhaseOnly' /\ (Follows(disk, disk') \/ CommitSave)
<1>1. IInv /\ disk \in Disk BY DEF RInv, IInv, WorkOK
<1>2. Follows(disk, disk) BY <1>1 DEF Follows, Disk, Incident
<1>3. CASE EngineStep
  <2>1. Next BY <1>3 DEF EngineStep, Next
  <2> QED BY <1>1, <2>1, PhaseOnlyStep
<1>4. CASE LoopCall
  <2>1. ASSUME NEW pc \in DOMAIN Call, NEW r, LoopBegin(pc, r)
        PROVE  job'.cmd # "runtime" /\ disk' = disk
    <3>1. Call[pc] # "runtime" BY CallType
    <3> QED BY <2>1, <3>1 DEF LoopBegin, Begin
  <2>2. {"run", "verify", "review", "repair", "reverify", "record", "ask"} \subseteq DOMAIN Call
    BY DEF Call
  <2>3. job'.cmd # "runtime" /\ disk' = disk
    BY <1>4, <2>1, <2>2 DEF LoopCall, LoopRun, LoopVerify, LoopReverify, LoopReview,
                            LoopRepair, LoopRecord, LoopAsk
  <2> QED BY <1>2, <2>3 DEF PhaseOnly
<1>5. CASE \/ LoopRefused \/ LoopMove \/ LoopCrash \/ UNCHANGED loopvars
           \/ \E requested \in PhaseId : LoopStart(requested)
  <2>1. disk' = disk /\ (job' = job \/ job' = NoJob)
    BY <1>5 DEF LoopRefused, LoopMove, LoopReply, LoopWorker, LoopDelivered, LoopNext,
                LoopCrash, LoopStart, loopvars, vars
  <2>2. NoJob.cmd # "runtime" BY DEF NoJob
  <2> QED BY <1>2, <2>1, <2>2 DEF PhaseOnly
<1> QED BY <1>3, <1>4, <1>5 DEF LoopNextState

\* Likewise.
LEMMA LoopPhaseInvariance == LoopSpec => [](RInv /\ PhaseOnly)
<1>1. LoopInit => PhaseOnly
  <2>1. NoJob.cmd # "runtime" /\ ~EmptyDisk.inc.rt BY DEF NoJob, EmptyDisk
  <2> QED BY <2>1 DEF LoopInit, Init, PhaseOnly
<1>2. RInv /\ PhaseOnly /\ [LoopNextState]_loopvars => PhaseOnly' BY LoopPhaseOnly
<1> QED BY <1>1, <1>2, LoopInvariance, PTL DEF LoopSpec

-----------------------------------------------------------------------------
\* What prdpr phase and prdpr runtime leave of the proof that only verified phases complete

\* A runtime repair asks the human, and resume would take that answer for completion.
NoRuntimeAnswer == "resume" \notin Commands \/ "runtime" \notin Commands

\* The loop's record of an attempt writes incident.json alone.
LEMMA RecordBacks ==
  ASSUME NEW s \in BOOLEAN, NEW P, NEW cmd, NEW d \in Disk, Sound(d), Backing(TRUE, s, P, d),
         NEW number \in Nat, number <= MaxAttempts, NEW ok \in BOOLEAN
  PROVE  Backs(s, P, cmd, RecordRepairAttempt(d, number, ok))
<1> DEFINE inc == FinishAttempt(d.inc, number, ok)
           g == SaveIncident(Start(d), inc)
           reply == IF CanAttempt(inc) THEN "again" ELSE "exhausted"
<1>1. Backing(s, s, P, d) BY BackingWeaker
<1>2. History(cmd, Start(d), d) /\ Now(Start(d)) = d /\ Backed(s, s, P, Start(d))
  BY <1>1, StartHistory, StartBacked
<1>3. inc \in Incident
  <2>1. d.inc \in Incident /\ d.inc.attempts <= MaxAttempts BY DEF Disk, Sound
  <2> QED BY <2>1, FinishedAttempt
<1>4. RecordRepairAttempt(d, number, ok) = Return(g, reply) BY DEF RecordRepairAttempt
<1> HIDE DEF inc
<1>5. Backed(s, s, P, g) BY <1>1, <1>2, <1>3, IncidentBacked
<1>6. Backing(TRUE, s, P, Now(g)) BY <1>2, <1>3, IncidentBacked
<1> HIDE DEF g, reply
<1>7. Backs(s, P, cmd, Return(g, reply)) BY <1>5, <1>6, ReturnBacks
<1> QED BY <1>4, <1>7

\* A request of any kind, about a phase that may be named by state.json.
LEMMA RequestKinds ==
  ASSUME NEW s \in BOOLEAN, NEW P, NEW cmd, NEW d, NEW h, History(cmd, h, d), Backed(s, s, P, h),
         NEW q \in PhaseId, Now(h).ex.verified => q \in Earned(P, Now(h)),
         s /\ Now(h).ex.packet => q \in Earned(P, Now(h)) \cup {Now(h).ex.phase}
  PROVE  \A kind \in {"manual", "repair", "blocked", "runtime"} :
           (kind = "runtime" => "resume" \notin Commands) =>
             /\ Backed(s, s, P, RequestHuman(h, q, kind))
             /\ Backing(TRUE, s, P, Now(RequestHuman(h, q, kind)))
<1> DEFINE Asked(k) == /\ Backed(s, s, P, RequestHuman(h, q, k))
                       /\ Backing(TRUE, s, P, Now(RequestHuman(h, q, k)))
<1>1. Asked("manual") BY RequestBacked
<1>2. Asked("repair") BY RequestBacked
<1>3. Asked("blocked") BY RequestBacked
<1>4. ASSUME "resume" \notin Commands PROVE Asked("runtime") BY <1>4, RequestBacked
<1> QED BY <1>1, <1>2, <1>3, <1>4

\* A request about the phase of state.json, after at most a write of incident.json.
LEMMA AskBacks ==
  ASSUME NEW s \in BOOLEAN, NEW P, NEW cmd, NEW d \in Disk, Sound(d), Backing(TRUE, s, P, d),
         NEW h, History(cmd, h, d), Backed(s, s, P, h), Now(h).ex = d.ex, Now(h).ver = d.ver,
         NEW kind \in {"manual", "repair", "blocked", "runtime"},
         kind = "runtime" => "resume" \notin Commands, NEW reply
  PROVE  Backs(s, P, cmd, Return(RequestHuman(h, d.phase, kind), reply))
<1> DEFINE g == RequestHuman(h, d.phase, kind)
<1>1. d.phase \in PhaseId BY DEF Disk
<1>2. /\ Now(h).ex.verified => d.phase \in Earned(P, Now(h))
      /\ s /\ Now(h).ex.packet => d.phase \in Earned(P, Now(h)) \cup {Now(h).ex.phase}
  BY DEF Backing, Earned
<1>3. Backed(s, s, P, g) /\ Backing(TRUE, s, P, Now(g)) BY <1>1, <1>2, RequestKinds
<1> HIDE DEF g
<1>4. Backs(s, P, cmd, Return(g, reply)) BY <1>3, ReturnBacks
<1> QED BY <1>4 DEF g

\* A repair of the runtime names no other phase and writes no verdict.
LEMMA RepairRuntimeBacks ==
  ASSUME NEW s \in BOOLEAN, NEW P, NEW d \in Disk, Sound(d), d.phase # NoPhase,
         Backing(TRUE, s, P, d), "resume" \notin Commands, NEW ends
  PROVE  Backs(s, P, "runtime", RepairRuntime(d, ends))
<1> DEFINE h == Start(d)
           inc == RuntimeIncident(d)
           begun == [inc EXCEPT !.attempts = @ + 1]
           spent == [inc EXCEPT !.exhausted = TRUE]
           r == RepairRuntime(d, ends)
<1>1. Backing(s, s, P, d) BY BackingWeaker
<1>2. History("runtime", h, d) /\ Now(h) = d /\ Backed(s, s, P, h)
  BY <1>1, StartHistory, StartBacked
<1>3. d.phase \in PhaseId BY DEF Disk
<1>4. /\ inc \in Incident /\ inc.rt /\ inc.phase # NoPhase /\ inc.attempts <= MaxAttempts
      /\ d.inc.rt => inc = d.inc
  BY RuntimeIncidentType
<1>5. \/ r = Return(h, "ok")
      \/ r = Return(RequestHuman(h, d.phase, "runtime"), "ok")
      \/ /\ CanAttempt(inc)
         /\ r = Return(Save(SaveIncident(h, begun), "REPAIRING", d.phase), "ok")
      \/ r = Return(RequestHuman(SaveIncident(h, spent), d.phase, "runtime"), "error")
  BY DEF RepairRuntime
<1> HIDE DEF h, inc, r
<1>6. inc.attempts \in Nat /\ MaxAttempts \in Nat BY <1>4, ProjectAssumption DEF Incident
<1>7. Backs(s, P, "runtime", Return(h, "ok")) BY <1>2, ReturnBacks
<1>8. Backs(s, P, "runtime", Return(RequestHuman(h, d.phase, "runtime"), "ok"))
  BY <1>2, AskBacks
<1>9. ASSUME CanAttempt(inc)
      PROVE  Backs(s, P, "runtime", Return(Save(SaveIncident(h, begun), "REPAIRING", d.phase), "ok"))
  <2>1. /\ begun \in Incident /\ begun.rt /\ begun.phase # NoPhase
        /\ begun.attempts = inc.attempts + 1
    BY <1>4, <1>6 DEF Incident
  <2>2. begun.attempts <= MaxAttempts BY <1>6, <1>9, <2>1 DEF CanAttempt
  <2>3. d.inc.rt => begun.attempts >= d.inc.attempts BY <1>4, <1>6, <2>1
  <2> HIDE DEF begun
  <2> DEFINE g == SaveIncident(h, begun)
  <2>4. History("runtime", g, d) BY <1>2, <2>1, <2>2, <2>3, TurnHistory
  <2>5. Backed(s, s, P, g) BY <1>1, <1>2, <2>1, IncidentBacked
  <2>6. Backing(TRUE, s, P, Now(g)) BY <1>2, <2>1, IncidentBacked
  <2>7. Now(g).phase = d.phase BY <1>2, <2>1, IncidentWritten DEF SameButIncident
  <2> HIDE DEF g
  <2>8. "REPAIRING" \in CurrentState \ {"COMPLETED"} BY DEF CurrentState
  <2>9. Backs(s, P, "runtime", Return(Save(g, "REPAIRING", Now(g).phase), "ok"))
    BY <2>4, <2>5, <2>6, <2>8, SaveOnceBacks
  <2> QED BY <2>7, <2>9 DEF g
<1>10. Backs(s, P, "runtime",
             Return(RequestHuman(SaveIncident(h, spent), d.phase, "runtime"), "error"))
  <2>1. /\ spent \in Incident /\ spent.rt /\ spent.phase # NoPhase
        /\ spent.attempts = inc.attempts
    BY <1>4, <1>6 DEF Incident
  <2>2. d.inc.rt => spent.attempts >= d.inc.attempts BY <1>4, <1>6, <2>1
  <2> HIDE DEF spent
  <2> DEFINE g == SaveIncident(h, spent)
  <2>3. History("runtime", g, d) BY <1>2, <1>4, <2>1, <2>2, TurnHistory
  <2>4. Backed(s, s, P, g) BY <1>1, <1>2, <2>1, IncidentBacked
  <2>5. Now(g).ex = d.ex /\ Now(g).ver = d.ver
    BY <1>2, <2>1, IncidentWritten DEF SameButIncident
  <2> HIDE DEF g
  <2>6. Backs(s, P, "runtime", Return(RequestHuman(g, d.phase, "runtime"), "error"))
    BY <2>3, <2>4, <2>5, AskBacks
  <2> QED BY <2>6 DEF g
<1> QED BY <1>5, <1>7, <1>8, <1>9, <1>10 DEF r

\* A command at work is backed under fewer demands as well.
LEMMA JobWeaker ==
  ASSUME NEW s \in BOOLEAN, NEW P, NEW d, NEW j, BackedJob(s, P, d, j),
         NEW s2 \in BOOLEAN, s2 => s
  PROVE  BackedJob(s2, P, d, j)
<1> DEFINE a == s /\ ~Preparing(j.cmd)
           a2 == s2 /\ ~Preparing(j.cmd)
<1>1. a \in BOOLEAN /\ a2 \in BOOLEAN /\ (a2 => a) OBVIOUS
<1>2. Backed(s, a, P, j.todo) /\ Backing(s, a, P, d) /\ Backing(TRUE, s, P, Ends(j.todo, d))
  BY DEF BackedJob
<1> HIDE DEF a, a2
<1>3. Backed(s2, a2, P, j.todo) BY <1>1, <1>2, BackingWeaker DEF Backed
<1>4. Backing(s2, a2, P, d) BY <1>1, <1>2, BackingWeaker
<1>5. Backing(TRUE, s2, P, Ends(j.todo, d)) BY <1>2, BackingWeaker
<1>6. j.wait = "tests" => Ends(j.todo, d).ex.packet BY DEF BackedJob
<1> QED BY <1>3, <1>4, <1>5, <1>6 DEF BackedJob, a2

\* A command begins, by whomever it is called.
LEMMA AnyBegins ==
  ASSUME RInv, VInv, NEW cmd, NEW by, NEW r, Begin(cmd, by, r), Handled(cmd, r, disk),
         Backs(Strict, passed, cmd, r), UNCHANGED <<disk, committer, crashes, passed>>
  PROVE  VInv'
<1>1. Strict \in BOOLEAN BY DEF Strict
<1>2. BackedJob(Strict, passed, disk, job') BY <1>1, BeginBacked
<1> QED BY <1>2 DEF VInv, Strict

\* Nothing is at work when one begins.
LEMMA SettledBefore ==
  ASSUME VInv, NEW cmd, NEW by, NEW r, Begin(cmd, by, r)
  PROVE  Backing(TRUE, Strict, passed, disk)
<1>1. job.todo = << >> BY DEF Begin, NoJob
<1>2. BackedJob(Strict, passed, disk, job) BY DEF VInv
<1> QED BY <1>1, <1>2, Settled

\* The calls of the loop.
LEMMA LoopCallBacked ==
  ASSUME Guarded, RInv, VInv, LoopCall
  PROVE  VInv'
<1>1. /\ disk \in Disk /\ Sound(disk) /\ dirty \in BOOLEAN /\ AutoCommit
      /\ Remembers(loop, disk) /\ loop \in Memory /\ Recorded(passed, disk)
  BY DEF RInv, IInv, WorkOK, OthersOK, Remembers, VInv, Guarded
<1>2. /\ loop.requested \in PhaseId /\ loop.attempt \in Nat
      /\ loop.kind \in {"none", "manual", "repair", "blocked"}
  BY <1>1 DEF Memory
<1>3. /\ Call["run"] = "run" /\ Call["verify"] = "verify" /\ Call["review"] = "review"
      /\ Call["repair"] = "repair" /\ Call["reverify"] = "verify"
      /\ Call["record"] = "record" /\ Call["ask"] = "ask"
  BY DEF Call
<1>4. Strict \in BOOLEAN BY DEF Strict
<1>5. ASSUME NEW pc, NEW r, LoopBegin(pc, r)
      PROVE  Backing(TRUE, Strict, passed, disk)
  BY <1>5, SettledBefore DEF LoopBegin
<1>6. ASSUME NEW pc, NEW r, LoopBegin(pc, r), Handled(Call[pc], r, disk),
             Backs(Strict, passed, Call[pc], r)
      PROVE  VInv'
  <2>1. Begin(Call[pc], "loop", r) /\ UNCHANGED <<disk, committer, crashes, passed>>
    BY <1>6 DEF LoopBegin
  <2> QED BY <1>6, <2>1, AnyBegins
<1>7. CASE LoopRun
  <2>1. PICK checks \in Health, ready \in Health :
          LoopBegin("run", RunProduct(disk, loop.requested, checks, dirty, ready))
    BY <1>7 DEF LoopRun
  <2>2. checks \in BOOLEAN /\ ready \in BOOLEAN BY EngineAssumption
  <2> DEFINE r == RunProduct(disk, loop.requested, checks, dirty, ready)
  <2>3. Backing(TRUE, Strict, passed, disk) BY <1>5, <2>1
  <2>4. Handled("run", r, disk) BY <1>1, <1>2, <2>2, RunHandled
  <2>5. Backs(Strict, passed, "run", r) BY <1>1, <1>2, <1>4, <2>2, <2>3, RunBacks
  <2> HIDE DEF r
  <2> QED BY <1>3, <1>6, <2>1, <2>4, <2>5 DEF r
<1>8. ASSUME NEW pc \in {"verify", "reverify"}, LoopBegin(pc, Verify(disk))
      PROVE  VInv'
  <2>1. Backing(TRUE, Strict, passed, disk) BY <1>5, <1>8
  <2>2. Handled("verify", Verify(disk), disk) BY <1>1, VerifyHandled
  <2>3. Backs(Strict, passed, "verify", Verify(disk)) BY <1>1, <1>4, <2>1, VerifyBacks
  <2>4. Call[pc] = "verify" BY <1>3
  <2> QED BY <1>6, <1>8, <2>2, <2>3, <2>4
<1>9. CASE LoopReview
  <2>1. LoopBegin("review", Review(Start(disk))) BY <1>9 DEF LoopReview
  <2>2. Backing(TRUE, Strict, passed, disk) BY <1>5, <2>1
  <2>3. Handled("review", Review(Start(disk)), disk) BY <1>1, ReviewHandled
  <2>4. Backs(Strict, passed, "review", Review(Start(disk))) BY <1>1, <1>4, <2>2, ReviewBacks
  <2> QED BY <1>3, <1>6, <2>1, <2>3, <2>4
<1>10. CASE LoopRepair
  <2>1. LoopBegin("repair", PrepareRepair(disk)) BY <1>10 DEF LoopRepair
  <2>2. Backing(TRUE, Strict, passed, disk) BY <1>5, <2>1
  <2>3. Handled("repair", PrepareRepair(disk), disk) BY <1>1, PrepareRepairHandled
  <2>4. Backs(Strict, passed, "repair", PrepareRepair(disk))
    BY <1>1, <1>4, <2>2, PrepareRepairBacks
  <2> QED BY <1>3, <1>6, <2>1, <2>3, <2>4
<1>11. CASE LoopRecord
  <2> DEFINE ok == loop.verdict = "VERIFIED"
             r == RecordRepairAttempt(disk, loop.attempt, ok)
  <2>1. ok \in BOOLEAN OBVIOUS
  <2>2. LoopBegin("record", r) BY <1>11 DEF LoopRecord
  <2>3. Backing(TRUE, Strict, passed, disk) BY <1>5, <2>2
  <2> HIDE DEF ok
  <2>4. Handled("record", r, disk) BY <1>1, <1>2, <2>1, RecordHandled DEF Remembers
  <2>5. Backs(Strict, passed, "record", r) BY <1>1, <1>2, <1>4, <2>1, <2>3, RecordBacks DEF Remembers
  <2> HIDE DEF r
  <2> QED BY <1>3, <1>6, <2>2, <2>4, <2>5
<1>12. CASE LoopAsk
  <2> DEFINE r == Return(RequestHuman(Start(disk), disk.phase, loop.kind), "asked")
  <2>1. LoopBegin("ask", r) BY <1>12 DEF LoopAsk
  <2>2. loop.pc = "ask" BY <2>1 DEF LoopBegin
  <2>3. loop.kind \in {"manual", "repair", "blocked"} BY <1>1, <1>2, <2>2 DEF Remembers
  <2>4. Handled("ask", r, disk) BY <1>1, <2>3, AskHandled
  <2>5. Backing(TRUE, Strict, passed, disk) BY <1>5, <2>1
  <2>6. Backing(Strict, Strict, passed, disk) BY <1>4, <2>5, BackingWeaker
  <2>7. /\ History("ask", Start(disk), disk) /\ Now(Start(disk)) = disk
        /\ Backed(Strict, Strict, passed, Start(disk))
    BY <1>1, <1>4, <2>6, StartHistory, StartBacked
  <2>8. Backs(Strict, passed, "ask", r) BY <1>1, <1>4, <2>3, <2>5, <2>7, AskBacks
  <2> HIDE DEF r
  <2> QED BY <1>3, <1>6, <2>1, <2>4, <2>8
<1> QED BY <1>7, <1>8, <1>9, <1>10, <1>11, <1>12 DEF LoopCall, LoopVerify, LoopReverify

\* A call returns: its files are settled.
LEMMA ReplyBacked ==
  ASSUME VInv, LoopReply
  PROVE  VInv'
<1>1. job.todo = << >> /\ job' = NoJob /\ UNCHANGED <<disk, committer, crashes, passed>>
  BY DEF LoopReply
<1>2. Strict \in BOOLEAN BY DEF Strict
<1>3. Backing(TRUE, Strict, passed, disk) BY <1>1, Settled DEF VInv
<1>4. BackedJob(Strict, passed, disk, NoJob) BY <1>2, <1>3, NoJobBacked
<1> QED BY <1>1, <1>4 DEF VInv, Strict

\* The loop dies between two calls: one crash more.
LEMMA LoopCrashBacked ==
  ASSUME RInv, VInv, LoopCrash
  PROVE  VInv'
<1>1. crashes' = crashes + 1 /\ UNCHANGED <<disk, job, committer, passed>> BY DEF LoopCrash
<1>2. crashes \in Nat
  <2>1. crashes \in 0..MaxCrashes /\ MaxCrashes \in Nat
    BY EngineAssumption DEF RInv, IInv, OthersOK
  <2> QED BY <2>1
<1>3. Strict \in BOOLEAN /\ Strict' \in BOOLEAN /\ (Strict' => Strict)
  BY <1>1, <1>2 DEF Strict
<1>4. BackedJob(Strict', passed, disk, job) BY <1>3, JobWeaker DEF VInv
<1> QED BY <1>1, <1>4 DEF VInv

\* prdpr runtime.
LEMMA RuntimeBacked ==
  ASSUME RInv, VInv, NoRuntimeAnswer,
         NEW ends \in Starts, RuntimeStart(ends) \/ RuntimeRepair(ends)
  PROVE  VInv'
<1>1. disk \in Disk /\ Sound(disk) /\ disk.phase # NoPhase
  BY DEF RInv, IInv, WorkOK, RuntimeStart, RuntimeRepair
<1>2. Strict \in BOOLEAN BY DEF Strict
<1>3. CASE RuntimeStart(ends)
  <2> DEFINE r == Return(Start(disk), ends)
  <2>1. /\ Begin("runtime", "user", r) /\ UNCHANGED <<disk, committer, crashes, passed>>
    BY <1>3 DEF RuntimeStart, UserCommand
  <2>2. Backing(TRUE, Strict, passed, disk) BY <2>1, SettledBefore
  <2>3. Backing(Strict, Strict, passed, disk) BY <1>2, <2>2, BackingWeaker
  <2>4. Backed(Strict, Strict, passed, Start(disk)) /\ Now(Start(disk)) = disk
    BY <1>1, <1>2, <2>3, StartHistory, StartBacked
  <2>5. Backs(Strict, passed, "runtime", r) BY <1>2, <2>2, <2>4, ReturnBacks
  <2>6. Handled("runtime", r, disk) BY <1>1, StartRuntimeHandled
  <2> HIDE DEF r
  <2> QED BY <2>1, <2>5, <2>6, AnyBegins
<1>4. CASE RuntimeRepair(ends)
  <2> DEFINE r == RepairRuntime(disk, ends)
  <2>1. /\ Begin("runtime", "user", r) /\ "runtime" \in Commands
        /\ UNCHANGED <<disk, committer, crashes, passed>>
    BY <1>4 DEF RuntimeRepair, UserCommand
  <2>2. Backing(TRUE, Strict, passed, disk) BY <2>1, SettledBefore
  <2>3. "resume" \notin Commands BY <2>1 DEF NoRuntimeAnswer
  <2>4. Backs(Strict, passed, "runtime", r) BY <1>1, <1>2, <2>2, <2>3, RepairRuntimeBacks
  <2>5. Handled("runtime", r, disk) BY <1>1, RepairRuntimeHandled
  <2> HIDE DEF r
  <2> QED BY <2>1, <2>4, <2>5, AnyBegins
<1> QED BY <1>3, <1>4

\* Every step of prdpr phase and of the commands beside it.
LEMMA LoopVStep ==
  ASSUME Guarded, RInv, VInv, [LoopNextState]_loopvars
  PROVE  VInv'
<1>1. IInv BY DEF RInv
<1>2. CASE EngineStep
  <2>1. Next BY <1>2 DEF EngineStep, Next
  <2> QED BY <1>1, <2>1, VStep
<1>3. CASE LoopCall BY <1>3, LoopCallBacked
<1>4. CASE LoopReply BY <1>4, ReplyBacked
<1>5. CASE LoopCrash BY <1>5, LoopCrashBacked
<1>6. CASE \/ LoopRefused \/ LoopWorker \/ LoopDelivered \/ LoopNext \/ UNCHANGED loopvars
           \/ \E requested \in PhaseId : LoopStart(requested)
  <2>1. UNCHANGED <<disk, job, committer, crashes, passed>>
    BY <1>6 DEF LoopRefused, LoopWorker, LoopDelivered, LoopNext, LoopStart, loopvars, vars
  <2> QED BY <2>1 DEF VInv, Strict
<1> QED BY <1>2, <1>3, <1>4, <1>5, <1>6 DEF LoopNextState, LoopMove

-----------------------------------------------------------------------------
\* Theorems

\* What the loop remembers keeps its type while the users' commands interleave
\* with its calls: it never asks a human a question without a kind, never records
\* a verdict that verify does not give, and never runs past its rounds (loop.go).
THEOREM LoopTypeCorrect == LoopSpec => []LoopTypeOK
<1>1. RInv => LoopTypeOK
  BY DEF RInv, IInv, WorkOK, OthersOK, Remembers, Memory, LoopTypeOK, TypeOK
<1> QED BY <1>1, LoopInvariance, PTL

\* With prdpr phase beside the users' commands, and what it remembers from call to
\* call, no incident holds more attempts than the limit (loop.go recordRepairAttempt).
THEOREM LoopAttemptsAreBounded == LoopSpec => []AttemptsBounded
<1>1. RInv /\ PhaseOnly => AttemptsBounded
  BY DEF RInv, IInv, PhaseOnly, WorkOK, Sound, AttemptsBounded
<1> QED BY <1>1, LoopPhaseInvariance, PTL

\* Nor does prdpr phase, dying or not, ever forget an attempt.
THEOREM LoopAttemptsAreKept == LoopSpec => ChainKeepsAttempts
<1>1. RInv /\ PhaseOnly /\ [LoopNextState]_loopvars
        => [disk'.inc.phase = disk.inc.phase => disk'.inc.attempts >= disk.inc.attempts]_vars
  <2> SUFFICES ASSUME RInv, PhaseOnly, [LoopNextState]_loopvars
               PROVE  disk'.inc.attempts >= disk.inc.attempts
    OBVIOUS
  <2>1. disk.inc.attempts \in Nat BY DEF RInv, IInv, WorkOK, Disk, Incident
  <2>2. Follows(disk, disk') \/ CommitSave BY LoopPhaseOnly
  <2>3. CommitSave => disk'.inc = disk.inc BY CommitSaveStep DEF RInv
  <2> QED BY <2>1, <2>2, <2>3 DEF Follows
<1> QED BY <1>1, LoopPhaseInvariance, PTL DEF LoopSpec, ChainKeepsAttempts

\* Nor does it hand out a packet but after a failed verification.
THEOREM LoopRepairsFollowFailures == LoopSpec => RepairOnlyFailures
<1> DEFINE Justified == disk.cur # "REPAIRING" /\ disk'.cur = "REPAIRING" =>
                          \/ disk.ver.status = "FAILED" /\ disk.ex.attempt >= 1
                          \/ committer.pc = "loaded"
<1>1. RInv /\ PhaseOnly /\ [LoopNextState]_loopvars => [Justified]_vars
  <2> SUFFICES ASSUME RInv, PhaseOnly, [LoopNextState]_loopvars PROVE Justified OBVIOUS
  <2>1. Follows(disk, disk') \/ CommitSave BY LoopPhaseOnly
  <2> QED BY <2>1 DEF Follows, CommitSave
<1> QED BY <1>1, LoopPhaseInvariance, PTL DEF LoopSpec, RepairOnlyFailures

\* Phase and runtime repairs share incident.json and still never pass the limit,
\* and attempts are forgotten only once, when the runtime takes the incident of
\* a phase over (runtime.go prepareRuntimeRepairLocked).
THEOREM RuntimeRepairsAreBounded == RuntimeSpec => RepairsBounded
<1> DEFINE Bounded == /\ disk'.inc.attempts <= MaxAttempts
                      /\ disk.inc.rt => disk'.inc.rt
                      /\ disk'.inc.attempts < disk.inc.attempts => ~disk.inc.rt /\ disk'.inc.rt
<1>1. RInv /\ [RuntimeNext]_loopvars => [Bounded]_loopvars
  <2> SUFFICES ASSUME RInv, [RuntimeNext]_loopvars PROVE Bounded OBVIOUS
  <2>1. RInv' /\ Written BY RuntimeStep
  <2>2. /\ disk.inc.attempts \in Nat /\ disk'.inc.attempts \in Nat
        /\ disk'.inc.attempts <= MaxAttempts /\ disk'.inc.rt \in BOOLEAN
    BY <2>1 DEF RInv, IInv, WorkOK, Sound, Disk, Incident
  <2> QED BY <2>1, <2>2 DEF Written, Obeys, Follows, Turns
<1> QED BY <1>1, RuntimeInvariance, PTL DEF RuntimeSpec, RepairsBounded

\* prdpr phase completes no phase that verify has not found VERIFIED, whatever the
\* users' commands do to state.json and execution.json between its calls, and wherever
\* it dies (loop.go RunPhase, completeLocked).
THEOREM LoopCompletesVerified ==
  ASSUME Guarded
  PROVE  LoopSpec => []CompletedWasVerified
<1>1. LoopInit => VInv BY VInvInit DEF LoopInit
<1>2. RInv /\ VInv /\ [LoopNextState]_loopvars => VInv' BY LoopVStep
<1>3. RInv /\ VInv => CompletedWasVerified BY VInvVerified DEF RInv
<1> QED BY <1>1, <1>2, <1>3, LoopInvariance, PTL DEF LoopSpec

\* Nor does a start or a repair of the runtime in the middle of a phase, though both put
\* the project into states of their own, as long as the request of a runtime repair
\* is not answered by resume (runtime.go RepairRuntime, human.go Resume).
THEOREM RuntimeCompletesVerified ==
  ASSUME Guarded, NoRuntimeAnswer
  PROVE  RuntimeSpec => []CompletedWasVerified
<1>1. LoopInit => VInv BY VInvInit DEF LoopInit
<1>2. RInv /\ VInv /\ [RuntimeNext]_loopvars => VInv'
  BY LoopVStep, RuntimeBacked DEF RuntimeNext
<1>3. RInv /\ VInv => CompletedWasVerified BY VInvVerified DEF RInv
<1> QED BY <1>1, <1>2, <1>3, RuntimeInvariance, PTL DEF RuntimeSpec
=============================================================================
