------------------------------- MODULE Engine -------------------------------
(***************************************************************************)
(* The engine's commands as a user runs them on one product: prepare, run, *)
(* verify, review, repair, resume, feedback and commit (internal/engine,   *)
(* internal/cli), with crashes between any two writes of a command.        *)
(*                                                                         *)
(* A command works through the writes Project computes for it while it     *)
(* holds the project lock; a second locked command is refused meanwhile,   *)
(* which changes nothing (see ProjectLock for what the lock guarantees).   *)
(* feedback and commit do not hold the lock.                               *)
(***************************************************************************)
EXTENDS Project

CONSTANTS Commands,   \* the commands and events that may happen
          Crashes,    \* the commands that may crash
          MaxCrashes, \* how many crashes a behaviour has, a bound for checking
          Outcomes,   \* how a test run may end
          Health      \* whether preflight, Ready and the worker may succeed, fail

ASSUME EngineAssumption ==
  /\ DOMAIN Deps = Phase
  /\ MaxCrashes \in Nat
  /\ Outcomes \subseteq {"pass", "fail", "timeout", "broken"}
  /\ Health \subseteq BOOLEAN

VARIABLES disk,       \* the files of .project/
          resp,       \* human/response.json
          dirty,      \* the product tree differs from HEAD
          job,        \* the command that holds the lock
          resuming,   \* a resume has unlocked and will verify next
          committer,  \* prdpr commit: where it is, and the state it loaded
          crashes,    \* how many crashes there have been
          untested,   \* history: the tree has work no passing tests have seen (Edit)
          passed,     \* history: the phases a verdict VERIFIED was recorded for
          answered    \* history: the phase whose manual criteria the human was
                      \* asked about when the last feedback came

vars == <<disk, resp, dirty, job, resuming, committer, crashes, untested, passed, answered>>

NoJob == [cmd |-> "none", by |-> "none", todo |-> << >>, wait |-> "none", reply |-> ""]

Init ==
  /\ disk = EmptyDisk
  /\ resp = [given |-> FALSE, confirmed |-> FALSE, to |-> "old"]
  /\ dirty = FALSE
  /\ job = NoJob
  /\ resuming = FALSE
  /\ committer = [pc |-> "idle", cur |-> "", phase |-> NoPhase]
  /\ crashes = 0
  /\ untested = FALSE
  /\ passed = {}
  /\ answered = NoPhase

\* The commands that take the lock; "record" and "ask" are the loop's calls.
LockedCommand == {"none", "prepare", "run", "verify", "review", "repair", "resume",
                  "record", "ask", "runtime"}

Job == [cmd : LockedCommand, by : {"none", "user", "loop"}, todo : Seq(Write),
        wait : {"none", "worker", "bare worker", "tests"}, reply : Reply]

TypeOK ==
  /\ disk \in Disk
  /\ resp \in Response
  /\ dirty \in BOOLEAN /\ resuming \in BOOLEAN /\ untested \in BOOLEAN
  /\ job \in Job
  /\ committer \in [pc : {"idle", "cleared", "committed", "loaded"},
                    cur : CurrentState, phase : PhaseId]
  /\ crashes \in 0..MaxCrashes
  /\ passed \subseteq Phase
  /\ answered \in PhaseId

-----------------------------------------------------------------------------
\* A command under the lock

\* Lock, and the writes of the handler r up to its end or what it waits for.
Begin(cmd, by, r) ==
  /\ job = NoJob
  /\ job' = [cmd |-> cmd, by |-> by, todo |-> Tail(r.writes),
             wait |-> r.wait, reply |-> r.reply]

\* The handler goes on as r.
Continue(r) ==
  job' = [job EXCEPT !.todo = Tail(r.writes), !.wait = r.wait, !.reply = r.reply]

\* One write.  A new request outdates a response to the one before.
WriteNext ==
  /\ job.todo # << >>
  /\ LET w == Head(job.todo)
     IN  /\ disk' = w.disk
         /\ dirty' = (dirty /\ ~w.commit)
         /\ untested' = (untested /\ ~w.commit)
         /\ resp' = IF w.disk.req.stamp # disk.req.stamp /\ resp.to = "this"
                    THEN [resp EXCEPT !.to = "old"] ELSE resp
         /\ passed' = IF w.disk.ver.status = "VERIFIED"
                      THEN passed \cup ({w.disk.ver.phase} \ {NoPhase}) ELSE passed
  /\ job' = [job EXCEPT !.todo = Tail(@)]
  /\ UNCHANGED <<resuming, committer, crashes, answered>>

\* The worker of run; it edits the tree only when it was invoked.
Work(invoked, edits) ==
  /\ job.todo = << >> /\ job.wait \in {"worker", "bare worker"}
  /\ edits => invoked
  /\ dirty' = (dirty \/ edits)
  /\ untested' = (untested \/ edits)
  /\ Continue(AfterWorker(disk, job.wait = "worker", invoked))
  /\ UNCHANGED <<disk, resp, resuming, committer, crashes, passed, answered>>

\* testeng.Run: reads the human's answer, then runs the tests on the tree.
RunTests(outcome) ==
  LET r == AfterTests(disk, outcome, ManualConfirmed(disk, resp))
  IN  /\ job.todo = << >> /\ job.wait = "tests"
      /\ Continue(r)
      /\ untested' = (untested /\ r.reply # "VERIFIED")
      /\ UNCHANGED <<disk, resp, dirty, resuming, committer, crashes, passed, answered>>

\* The command ends.  Of the users' commands only resume has a sequel.
Unlock ==
  /\ job.todo = << >> /\ job.wait = "none" /\ job.by = "user"
  /\ job' = NoJob
  /\ resuming' = (resuming \/ job.reply = "verify")
  /\ UNCHANGED <<disk, resp, dirty, committer, crashes, untested, passed, answered>>

\* The process dies: the lock is stale and will be recovered.  A worker may
\* have edited the tree by then.
Crash ==
  /\ job.cmd \in Crashes /\ crashes < MaxCrashes
  /\ crashes' = crashes + 1
  /\ job' = NoJob
  /\ \E edits \in BOOLEAN :
       /\ edits => job.todo = << >> /\ job.wait \in {"worker", "bare worker"}
       /\ dirty' = (dirty \/ edits)
       /\ untested' = (untested \/ edits)
  /\ UNCHANGED <<disk, resp, resuming, committer, passed, answered>>

-----------------------------------------------------------------------------
\* What users do

UserCommand(cmd, r) ==
  /\ cmd \in Commands
  /\ Begin(cmd, "user", r)
  /\ UNCHANGED <<disk, resp, dirty, resuming, committer, crashes, untested, passed, answered>>

RunCommand == \E requested \in PhaseId, checks, ready \in Health :
  UserCommand("run", RunProduct(disk, requested, checks, dirty, ready))
PrepareCommand == \E requested \in PhaseId, checks \in Health :
  UserCommand("prepare", Prepare(disk, requested, checks, dirty))
VerifyCommand == UserCommand("verify", Verify(disk))
ReviewCommand == UserCommand("review", Review(Start(disk)))
RepairCommand == UserCommand("repair", PrepareRepair(disk))
ResumeCommand == ~resuming /\ UserCommand("resume", Resume(disk, resp))

\* The end of Resume: Verify takes the lock anew, or is refused it.
ResumeVerify ==
  /\ resuming
  /\ resuming' = FALSE
  /\ IF job = NoJob THEN Begin("verify", "user", Verify(disk)) ELSE UNCHANGED job
  /\ UNCHANGED <<disk, resp, dirty, committer, crashes, untested, passed, answered>>

\* Feedback
Feedback ==
  /\ "feedback" \in Commands
  /\ \E confirmed \in BOOLEAN, to \in {"any", "this"} :
       /\ to = "this" => disk.req.kind # "none"
       /\ resp' = [given |-> TRUE, confirmed |-> confirmed, to |-> to]
  /\ answered' = IF disk.req.kind = "manual" THEN disk.phase ELSE NoPhase
  /\ UNCHANGED <<disk, dirty, job, resuming, committer, crashes, untested, passed>>

\* The files hold, or the command at work goes on to write, the evidence a
\* checkpoint is committed on.
Credible(d) == d.ex.verified /\ d.ver.status = "VERIFIED"
Trusted ==
  \/ Credible(disk)
  \/ \E i \in DOMAIN job.todo : Credible(job.todo[i].disk) \/ job.todo[i].commit

\* The session, or the user, edits the tree: nothing keeps them from it at any
\* time.  What they do on top of trusted evidence is no part of the history:
\* nothing in the code notices that the tree has changed under the evidence.
Edit ==
  /\ "edit" \in Commands
  /\ dirty' = TRUE
  /\ untested' = (untested \/ ~Trusted)
  /\ UNCHANGED <<disk, resp, job, resuming, committer, crashes, passed, answered>>

\* The user cleans the tree by hand (git stash, git commit).
Clean ==
  /\ "clean" \in Commands
  /\ job = NoJob
  /\ dirty' = FALSE /\ untested' = FALSE
  /\ UNCHANGED <<disk, resp, job, resuming, committer, crashes, passed, answered>>

-----------------------------------------------------------------------------
\* prdpr commit (CommitVerified), which takes the lock only to save

CommitCheck ==
  /\ "commit" \in Commands
  /\ committer.pc = "idle"
  /\ disk.cur \in {"VERIFIED", "COMPLETED"} /\ disk.ex.verified
  /\ committer' = [committer EXCEPT !.pc = "cleared"]
  /\ UNCHANGED <<disk, resp, dirty, job, resuming, crashes, untested, passed, answered>>

CommitTree ==
  /\ committer.pc = "cleared"
  /\ committer' = [committer EXCEPT !.pc = IF dirty THEN "committed" ELSE "idle"]
  /\ dirty' = FALSE /\ untested' = FALSE
  /\ UNCHANGED <<disk, resp, job, resuming, crashes, passed, answered>>

CommitLoad ==
  /\ committer.pc = "committed"
  /\ committer' = [pc |-> "loaded", cur |-> disk.cur, phase |-> disk.phase]
  /\ UNCHANGED <<disk, resp, dirty, job, resuming, crashes, untested, passed, answered>>

CommitSave ==
  /\ committer.pc = "loaded"
  /\ disk' = IF job = NoJob
             THEN [disk EXCEPT !.cur = committer.cur, !.phase = committer.phase]
             ELSE disk
  /\ committer' = [pc |-> "idle", cur |-> "", phase |-> NoPhase]
  /\ UNCHANGED <<resp, dirty, job, resuming, crashes, untested, passed, answered>>

-----------------------------------------------------------------------------

\* The command at work: everything under the lock but its end.
Working ==
  \/ WriteNext
  \/ \E invoked \in Health, edits \in BOOLEAN : Work(invoked, edits)
  \/ \E outcome \in Outcomes : RunTests(outcome)

UserStarts == \/ RunCommand \/ PrepareCommand \/ VerifyCommand \/ ReviewCommand
              \/ RepairCommand \/ ResumeCommand

Committing == CommitCheck \/ CommitTree \/ CommitLoad \/ CommitSave

Next == \/ Working \/ Unlock \/ Crash
        \/ UserStarts \/ ResumeVerify \/ Feedback \/ Edit \/ Clean
        \/ Committing

Spec == Init /\ [][Next]_vars

-----------------------------------------------------------------------------
\* Properties

\* A phase is COMPLETED in graph.json only if a verdict VERIFIED was recorded
\* for it, whatever the commands, their order and their crashes.
CompletedWasVerified == \A p \in Phase : disk.node[p] = "COMPLETED" => p \in passed

\* No commit takes in work that no passing tests have seen: what a worker did, cut off
\* or not, and whatever else was edited before there was the evidence to commit on.
\* (Edits made after that, up to the next packet, are committed unseen.)
CommitsTestedWork ==
  [][dirty /\ ~dirty' /\ (job.cmd # "none" \/ committer.pc = "cleared") => ~untested]_vars

\* No incident ever holds more attempts than MaxAttempts, and the attempt an
\* execution carries is one the incident has recorded.
AttemptsBounded ==
  /\ disk.inc.attempts <= MaxAttempts
  /\ disk.ex.attempt <= disk.inc.attempts

\* The attempts of a failure chain are never forgotten, whatever commands follow
\* and whatever crashes: no chain gets a second set of attempts.  A chain is the
\* incident of one phase, whatever goes wrong with it; that the failures of another
\* phase might have an incident of their own (repair.go) would be no loss.
ChainKeepsAttempts ==
  [][disk'.inc.phase = disk.inc.phase => disk'.inc.attempts >= disk.inc.attempts]_vars

\* A repair packet is handed out only when the evidence on disk is a failed
\* verification and the incident still has an attempt.
RepairOnlyFailures ==
  [][disk.cur # "REPAIRING" /\ disk'.cur = "REPAIRING" =>
       \/ disk.ver.status = "FAILED" /\ disk.ex.attempt >= 1
       \/ committer.pc = "loaded"]_vars

\* An answer a human gave to the question about one phase never passes another
\* phase that stops for a human.
AnswerIsForThePhase ==
  [][\A p \in (passed' \ passed) \cap Manual : answered \in {p, NoPhase}]_vars

\* The engine implements PhaseOrder: a phase becomes COMPLETED (completeLocked)
\* only by a write made while its dependencies are, after a verdict of its own.
Order == INSTANCE PhaseOrder WITH
  evidence <- passed, done <- {p \in Phase : disk.node[p] = "COMPLETED"}
ImplementsPhaseOrder == Order!Spec
=============================================================================
