------------------------------ MODULE RunLoop -------------------------------
(***************************************************************************)
(* prdpr phase: the outer walk over the graph (RunGraph) and the inner     *)
(* loop of one phase (RunPhase), composed with the commands of Engine      *)
(* (internal/engine/loop.go).                                              *)
(*                                                                         *)
(* The loop is one process that calls run, verify, review, repair and      *)
(* request-human one after the other.  Each call takes the project lock    *)
(* anew; between two calls, and while the repair worker edits the tree,    *)
(* the lock is free and other commands come in.  What a call returned      *)
(* stays in the loop's memory and may be stale by the next call.           *)
(***************************************************************************)
EXTENDS Engine

CONSTANT LoopAttempts  \* repair.MaxAttempts, the bound of the loop itself

ASSUME LoopAssumption == LoopAttempts \in Nat \ {0}

VARIABLE loop  \* the memory of the process running prdpr phase

loopvars == <<vars, loop>>

Idle == [pc |-> "idle", requested |-> NoPhase, ran |-> NoPhase, seen |-> {},
         i |-> 0, attempt |-> 0, verdict |-> "", kind |-> "none"]

LoopInit == Init /\ loop = Idle

LoopTypeOK ==
  /\ TypeOK
  /\ loop \in [pc : {"idle", "run", "verify", "review", "repair", "worker", "reverify",
                     "record", "ask", "delivered", "next"},
               requested : PhaseId, ran : PhaseId, seen : SUBSET Phase,
               i : 0..LoopAttempts, attempt : Nat, verdict : Verdict \cup {""},
               kind : {"none", "manual", "repair", "blocked"}]

-----------------------------------------------------------------------------
\* Calls

Goto(pc) == [loop EXCEPT !.pc = pc]
\* Mutant: the verdict is taken for the kind of request.
AskVerdict(kind) == [loop EXCEPT !.pc = "ask", !.kind = disk.ver.status]
Ask(kind) == [loop EXCEPT !.pc = "ask", !.kind = kind]

\* The pcs at which the loop calls a command, and that command.
Call == [run      |-> "run",    verify |-> "verify", review |-> "review",
         repair   |-> "repair", reverify |-> "verify", record |-> "record",
         ask      |-> "ask"]

\* The loop takes the lock and the command begins.
LoopBegin(pc, r) ==
  /\ loop.pc = pc
  /\ Begin(Call[pc], "loop", r)
  /\ UNCHANGED <<disk, resp, dirty, resuming, committer, crashes, untested, passed, answered, loop>>

LoopRun == \E checks, ready \in Health :
  LoopBegin("run", RunProduct(disk, loop.requested, checks, dirty, ready))
LoopVerify == LoopBegin("verify", Verify(disk))
LoopReverify == LoopBegin("reverify", Verify(disk))
LoopReview == LoopBegin("review", Review(Start(disk)))
LoopRepair == LoopBegin("repair", PrepareRepair(disk))
LoopRecord ==
  LoopBegin("record", RecordRepairAttempt(disk, loop.attempt, loop.verdict = "VERIFIED"))
LoopAsk ==
  LoopBegin("ask", Return(RequestHuman(Start(disk), disk.phase, loop.kind), "asked"))

\* Another command holds the lock: the call fails at once.  The loop gives up,
\* after a failed repair it asks the human.
LoopRefused ==
  /\ loop.pc \in DOMAIN Call /\ job.by = "user"
  /\ loop' = IF loop.pc = "repair" THEN Ask("repair") ELSE Idle
  /\ UNCHANGED vars

\* What RunPhase does with the reply of each call.
AfterRun(reply) ==
  IF reply = "ok" THEN [Goto("verify") EXCEPT !.ran = disk.ex.phase] ELSE Idle

\* Mutant: a verified phase is reviewed all the same.
AfterVerifyReviews(reply) ==
  IF reply = "MANUAL" THEN Ask("manual") ELSE [Goto("review") EXCEPT !.i = 0]

AfterVerify(reply) ==
  CASE reply = "VERIFIED" -> Goto("delivered")
    [] reply = "MANUAL"   -> Ask("manual")
    [] OTHER              -> [Goto("review") EXCEPT !.i = 0]

\* Mutant: nobody is asked.
AfterReviewSilent(reply) == IF reply = "repair" THEN Goto("repair") ELSE Idle

\* humanFromReview
AfterReview(reply) ==
  IF reply = "repair" THEN Goto("repair")
  ELSE Ask(IF disk.ver.status = "MANUAL" THEN "manual" ELSE "blocked")

AfterRepair(reply) ==
  IF reply = "ok" THEN [Goto("worker") EXCEPT !.attempt = disk.ex.attempt]
  ELSE Ask("repair")

\* Mutant: the worker gets the same attempt again until it succeeds.
AfterReverifyInsists(reply) ==
  IF reply = "VERIFIED" THEN [Goto("record") EXCEPT !.verdict = reply] ELSE Goto("worker")

AfterReverify(reply) == [Goto("record") EXCEPT !.verdict = reply]

AfterRecord(reply) ==
  IF loop.verdict = "VERIFIED" THEN Goto("next")
  ELSE IF reply = "exhausted" THEN Ask("repair")
  ELSE IF loop.i + 1 < LoopAttempts THEN [Goto("review") EXCEPT !.i = @ + 1]
  ELSE Idle

After(pc, reply) ==
  CASE pc = "run"      -> AfterRun(reply)
    [] pc = "verify"   -> AfterVerify(reply)
    [] pc = "review"   -> AfterReview(reply)
    [] pc = "repair"   -> AfterRepair(reply)
    [] pc = "reverify" -> AfterReverify(reply)
    [] pc = "record"   -> AfterRecord(reply)
    [] OTHER           -> Idle

LoopReply ==
  /\ job.by = "loop" /\ job.todo = << >> /\ job.wait = "none"
  /\ job' = NoJob
  /\ loop' = After(loop.pc, job.reply)
  /\ UNCHANGED <<disk, resp, dirty, resuming, committer, crashes, untested, passed, answered>>

-----------------------------------------------------------------------------
\* What the loop does without the lock

\* RunGraph until its first RunPhase.
LoopStart(requested) ==
  /\ "phase" \in Commands
  /\ loop.pc = "idle" /\ job.by # "loop"
  /\ LET status == Refresh(Deps, disk.node)
     IN  ~AllCompleted(status) /\ FirstWaiting(status) = NoPhase
  /\ loop' = [Idle EXCEPT !.pc = "run", !.requested = requested]
  /\ UNCHANGED vars

\* applyRepairWorker, which may leave the tree as it is.
LoopWorker ==
  /\ loop.pc = "worker"
  /\ \E edits \in BOOLEAN : dirty' = (dirty \/ edits) /\ untested' = (untested \/ edits)
  /\ loop' = Goto("reverify")
  /\ UNCHANGED <<disk, resp, job, resuming, committer, crashes, passed, answered>>

\* deliveryWaiting: a delivery that waits for a human is not a completed phase.
LoopDelivered ==
  /\ loop.pc = "delivered"
  /\ loop' = IF disk.cur = "WAITING_FOR_HUMAN" THEN Idle ELSE Goto("next")
  /\ UNCHANGED vars

\* RunGraph after a completed phase.
LoopNext ==
  LET status == Refresh(Deps, disk.node)
  IN  /\ loop.pc = "next"
      /\ loop' = IF \/ loop.ran \in loop.seen
                    \/ AllCompleted(status)
                    \/ FirstWaiting(status) # NoPhase
                    \/ FirstReady(status) = NoPhase
                 THEN Idle
                 ELSE [Idle EXCEPT !.pc = "run", !.requested = FirstReady(status),
                                   !.seen = loop.seen \cup ({loop.ran} \ {NoPhase})]
      /\ UNCHANGED vars

\* The process dies between two calls.
LoopCrash ==
  /\ "loop" \in Crashes /\ crashes < MaxCrashes
  /\ loop.pc # "idle" /\ job.by # "loop"
  /\ loop' = Idle
  /\ crashes' = crashes + 1
  /\ \E edits \in BOOLEAN :
       /\ edits => loop.pc = "worker"
       /\ dirty' = (dirty \/ edits)
       /\ untested' = (untested \/ edits)
  /\ UNCHANGED <<disk, resp, job, resuming, committer, passed, answered>>

-----------------------------------------------------------------------------

\* A step of Engine.  When the command that dies is the loop's, so does the loop.
EngineStep ==
  \/ /\ \/ Working \/ Unlock \/ UserStarts \/ ResumeVerify \/ Feedback \/ Edit \/ Clean
        \/ Committing
     /\ UNCHANGED loop
  \/ Crash /\ loop' = IF job.by = "loop" THEN Idle ELSE loop

LoopCall == LoopRun \/ LoopVerify \/ LoopReverify \/ LoopReview \/ LoopRepair
            \/ LoopRecord \/ LoopAsk

LoopMove == LoopReply \/ LoopWorker \/ LoopDelivered \/ LoopNext

LoopNextState ==
  \/ EngineStep \/ LoopCall \/ LoopRefused \/ LoopMove \/ LoopCrash
  \/ \E requested \in PhaseId : LoopStart(requested)

LoopSpec == LoopInit /\ [][LoopNextState]_loopvars

\* A process that runs is scheduled: commands at work and the loop take their
\* steps, workers and tests end (they have timeouts), a call gets the lock or is
\* refused it.  The last conjunct is weak fairness of LoopCall \/ LoopRefused,
\* with the ENABLED written out (MayCall), which TLC evaluates much faster.
MayCall == loop.pc \in DOMAIN Call /\ job.by # "loop"

LoopFairness ==
  /\ WF_loopvars(Working /\ UNCHANGED loop)
  /\ WF_loopvars(Unlock /\ UNCHANGED loop)
  /\ WF_loopvars(LoopMove)
  /\ []<>~MayCall \/ []<><<LoopCall \/ LoopRefused>>_loopvars

FairLoop == LoopSpec /\ LoopFairness

\* Moreover whoever started prdpr phase starts it again as long as there is
\* something to do, and cleans up what a dead worker has left in the tree.
Persistent ==
  FairLoop /\ SF_loopvars(LoopStart(NoPhase)) /\ SF_loopvars(Clean /\ UNCHANGED loop)

-----------------------------------------------------------------------------
\* Properties

\* prdpr phase comes to an end whatever the tests say: neither the graph walk
\* nor the repair loop goes round for ever.
LoopReturns == loop.pc # "idle" ~> loop.pc = "idle"

\* Once tests pass and nothing fails any more, starting prdpr phase again and
\* again completes the whole graph, even after a crash.
GraphCompletes == <>[]AllCompleted(disk.node)

\* One walk never works on a phase it has completed before, and never starts a
\* phase before what it depends on is COMPLETED.
WalkGoesForward ==
  [][loop.pc = "run" /\ loop'.pc = "verify" /\ loop'.ran # NoPhase =>
       /\ loop'.ran \notin loop.seen
       /\ \A d \in Deps[loop'.ran] : disk.node[d] = "COMPLETED"]_loopvars

\* A phase once COMPLETED stays so while prdpr phase is all that runs.
CompletedStays ==
  [][\A p \in Phase : disk.node[p] = "COMPLETED" => disk'.node[p] = "COMPLETED"]_loopvars

\* Unless it is killed, when prdpr phase leaves the project waiting for a human, there is a request
\* that the human can answer.
LeavesRequest ==
  [][loop.pc # "idle" /\ loop'.pc = "idle" /\ crashes' = 0
     /\ disk.cur = "WAITING_FOR_HUMAN" => disk.req.kind # "none"]_loopvars
=============================================================================
