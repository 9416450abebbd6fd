------------------------------ MODULE Delivery ------------------------------
(***************************************************************************)
(* How verified work reaches GitHub: bootstrap of the repository,          *)
(* checkpoint, push, pull request, merge and recovery (internal/engine,    *)
(* internal/vcs, internal/ci), with GitHub enabled, AutoCommit, AutoPush   *)
(* and feature branches.                                                   *)
(*                                                                         *)
(* A command works on its own copy of state.json and saves it where the    *)
(* code does; every call to git or gh is a step of its own, may fail where *)
(* the code handles that, and a crash may come between any two steps.      *)
(* Commands have the project lock, so one works at a time; the person who  *)
(* merges on GitHub and its checks need no lock.                           *)
(***************************************************************************)
EXTENDS PhaseGraph

CONSTANTS Deps,        \* the dependencies the PRD declares
          Configs,     \* the configurations considered
          MaxCommits,  \* bound on commits of the product
          MaxPRs,      \* bound on pull requests
          MaxCrashes,  \* bound on crashes
          EditOnBase   \* whether a worker edits also while HEAD is on the base branch

ASSUME DeliveryAssumption ==
  /\ Deps \in [Phase -> SUBSET Phase]
  /\ ~Cyclic(Deps)
  /\ MaxCommits \in Nat \ {0}
  /\ MaxPRs \in Nat
  /\ MaxCrashes \in Nat
  /\ EditOnBase \in BOOLEAN

\* Config: PRBoundary, AutoMergeEnabled, whether merges squash,
\* DeleteBranchAfterMerge.
Config == [boundary : {"run", "phase"}, autoMerge : BOOLEAN,
           squash : BOOLEAN, delete : BOOLEAN]
ASSUME ConfigsAssumption == Configs \subseteq Config

VARIABLES
  config,   \* the configuration
  disk,     \* state.json
  files,    \* graph.json and what execution.json says
  job,      \* the command at work: its steps to come and its copy of state.json
  tree,     \* the local repository
  remote,   \* the repository on GitHub
  prs,      \* its pull requests, all from the feature branch to the base
  ci,       \* the checks of the feature branch's tip
  made,     \* history: the commits made for each phase
  crashes   \* crashes so far

vars == <<config, disk, files, job, tree, remote, prs, ci, made, crashes>>

-----------------------------------------------------------------------------
\* A commit of work is a positive number; -c is the commit by which a merge of
\* the pull request brought c, and what was before it, to the base.  A branch is
\* the set of its commits without the initial one, which is 0.
Commit == 1 .. MaxCommits
Sha == -MaxCommits .. MaxCommits
Branch == {"base", "feature"}
Distance(c) == IF c < 0 THEN -c ELSE c
Work(branch) == {Distance(c) : c \in branch}
Tip(branch) == IF branch = {} THEN 0
               ELSE LET m == Max(Work(branch)) IN IF -m \in branch THEN -m ELSE m

State == [cur : {"", "PREPARED", "CLAIMED_DONE", "VERIFYING", "VERIFIED", "FAILED",
                 "INCOMPLETE", "REPAIRING", "WAITING", "COMPLETED"},
          phase : Phase \cup {NoPhase},
          finished : BOOLEAN,               \* ProjectStatus
          commit : Sha,
          checkpoints : SUBSET Phase,       \* PhaseCheckpoints
          branch : BOOLEAN,                 \* FeatureBranch is recorded
          push : {"", "pending", "pushed", "failed", "skipped"},
          pr : 0 .. MaxPRs,
          merge : {"", "open", "checking", "waiting", "merged"}]

EmptyState == [cur |-> "", phase |-> NoPhase, finished |-> FALSE, commit |-> 0,
               checkpoints |-> {}, branch |-> FALSE, push |-> "", pr |-> 0,
               merge |-> ""]

NoJob == [todo |-> << >>, st |-> EmptyState, resume |-> FALSE, autoMerge |-> FALSE]
Idle == job = NoJob

Init ==
  /\ config \in Configs
  /\ disk = EmptyState
  /\ files = [node |-> Refresh(Deps, [p \in Phase |-> "PENDING"]),
              packet |-> FALSE, verified |-> FALSE]
  /\ job = NoJob
  /\ tree = [head |-> "base", dirty |-> FALSE, branch |-> FALSE,
             base |-> {}, feature |-> {}]
  /\ remote = [exists |-> FALSE, refs |-> {}, base |-> {}, feature |-> {}]
  /\ prs = << >>
  /\ ci = "pending"
  /\ made = [p \in Phase |-> {}]
  /\ crashes = 0

At(step) == job.todo # << >> /\ Head(job.todo) = step

\* The command goes on with these steps before those it had left, and with
\* this copy of state.json; it ends when no step is left.
GoOn(steps, st) ==
  LET todo == steps \o Tail(job.todo)
  IN  job' = IF todo = << >> THEN NoJob ELSE [job EXCEPT !.todo = todo, !.st = st]

Mark(p, s) == files' = [files EXCEPT !.node = SetStatus(Deps, @, p, s)]

\* Mutant: that the branch is there is taken for pushed.
PushedBefore(st) == (IF st.branch THEN "feature" ELSE "base") \in remote.refs

\* Pushed: the recorded branch is on GitHub at the commit the state records.  Git
\* reads its remote-tracking branch, which is up to date: only this repository
\* pushes to the feature branch or deletes it, and nothing merges to the base
\* before there is a feature branch.
Pushed(st) == IF st.branch
              THEN "feature" \in remote.refs /\ Tip(remote.feature) = st.commit
              ELSE "base" \in remote.refs /\ Tip(remote.base) = st.commit


SaveState ==
  /\ At("save")
  /\ disk' = job.st
  /\ GoOn(<< >>, job.st)
  /\ UNCHANGED <<config, files, tree, remote, prs, ci, made, crashes>>

-----------------------------------------------------------------------------
\* completeLocked, from the checkpoint to the end of the phase.  The steps of
\* maybeDeliverLocked are put in by "deliver".

\* Mutant: graph.json says COMPLETED before the checkpoint.
CompletionStepsMarkFirst == <<"graph", "checkpoint", "push", "deliver", "complete">>

CompletionSteps == <<"checkpoint", "push", "deliver", "graph", "complete">>

\* checkpointLocked.  Its gate is open here: the state is VERIFIED and so is
\* the execution.  A clean tree records HEAD, unless the phase has its commit.
\* (A phase with an earlier commit than the latest, HEAD having moved on, the
\* code records anew; here it keeps the old one.)
Checkpoint ==
  /\ At("checkpoint")
  /\ LET st == job.st
         c == Cardinality(UNION {made[p] : p \in Phase}) + 1
     IN  \/ /\ tree.dirty
            /\ tree' = [tree EXCEPT !.dirty = FALSE, ![tree.head] = @ \cup {c}]
            /\ made' = [made EXCEPT ![st.phase] = @ \cup {c}]
            /\ GoOn(<< >>, [st EXCEPT !.commit = c,
                                      !.checkpoints = @ \cup {st.phase},
                                      !.push = IF @ \in {"", "pushed"} THEN "pending" ELSE @])
         \/ /\ ~tree.dirty
            /\ GoOn(<< >>, IF st.phase \in st.checkpoints THEN st
                           ELSE [st EXCEPT !.commit = Tip(tree[tree.head]),
                                           !.checkpoints = @ \cup {st.phase}])
            /\ UNCHANGED <<tree, made>>
  /\ UNCHANGED <<config, disk, files, remote, prs, ci, crashes>>

\* What git push does when it succeeds: it sends the recorded branch, the feature branch once
\* there is one, without regard to HEAD and never by force.
Send ==
  IF job.st.branch
  THEN /\ tree.branch /\ remote.feature \subseteq tree.feature
       /\ remote' = [remote EXCEPT !.refs = @ \cup {"feature"}, !.feature = tree.feature]
       /\ ci' = IF remote.feature = tree.feature THEN ci ELSE "pending"
  ELSE /\ remote.base \subseteq tree.base
       /\ remote' = [remote EXCEPT !.refs = @ \cup {"base"}, !.base = tree.base]
       /\ UNCHANGED ci

PushSucceeds ==
  /\ At("push") \/ At("initial push")
  /\ remote.exists
  /\ ~Pushed(job.st)
  /\ Send
  /\ GoOn(<< >>, [job.st EXCEPT !.push = "pushed"])
  /\ UNCHANGED <<config, disk, files, tree, prs, made, crashes>>

\* The steps left once a completion under way is given up.
AfterCompletion(todo) ==
  IF \E i \in DOMAIN todo : todo[i] = "complete"
  THEN LET n == CHOOSE i \in DOMAIN todo : todo[i] = "complete"
       IN  SubSeq(todo, n + 1, Len(todo))
  ELSE todo

\* pushLocked otherwise.  A push that fails stops a completion for a human;
\* the initial push of a bootstrap only takes note.  FeatureBranch is recorded
\* before the first packet, so a completion never means to push the base.
PushLocked ==
  /\ At("push") \/ At("initial push")
  /\ LET st == job.st
     IN  \/ /\ ~remote.exists
            /\ GoOn(<< >>, [st EXCEPT !.push = "skipped"])
            /\ UNCHANGED files
         \/ /\ remote.exists /\ Pushed(st)
            /\ GoOn(<< >>, [st EXCEPT !.push = "pushed"])
            /\ UNCHANGED files
         \/ /\ remote.exists /\ ~Pushed(st) /\ At("initial push")
            /\ GoOn(<< >>, [st EXCEPT !.push = "failed"])
            /\ UNCHANGED files
         \/ /\ remote.exists /\ ~Pushed(st) /\ At("push")
            /\ Mark(st.phase, "WAITING_FOR_HUMAN")
            /\ job' = [job EXCEPT
                 !.st = [st EXCEPT !.push = "failed", !.cur = "WAITING"],
                 !.todo = <<"save">> \o AfterCompletion(Tail(@))]
  /\ UNCHANGED <<config, disk, tree, remote, prs, ci, made, crashes>>

\* maybeDeliverLocked
Deliver ==
  /\ At("deliver")
  /\ GoOn(IF config.boundary = "phase" \/ job.st.finished
          THEN <<"open pr">> \o (IF config.autoMerge THEN <<"merge">> ELSE << >>)
          ELSE << >>, job.st)
  /\ UNCHANGED <<config, disk, files, tree, remote, prs, ci, made, crashes>>

MarkCompleted ==
  /\ At("graph")
  /\ Mark(job.st.phase, "COMPLETED")
  /\ GoOn(<< >>, job.st)
  /\ UNCHANGED <<config, disk, tree, remote, prs, ci, made, crashes>>

Complete ==
  /\ At("complete")
  /\ disk' = [job.st EXCEPT !.cur = "COMPLETED", !.finished = @ \/ AllCompleted(files.node)]
  /\ GoOn(<< >>, disk')
  /\ UNCHANGED <<config, files, tree, remote, prs, ci, made, crashes>>

-----------------------------------------------------------------------------
\* Pull requests and merges

Open == {n \in DOMAIN prs : prs[n] = "open"}
Merge(st, to) == IF st.merge = "merged" THEN st ELSE [st EXCEPT !.merge = to]
Known(st, n) == Merge([st EXCEPT !.pr = n], "open")

\* ensurePRLocked when it leaves the state as it is: gh is not there or
\* refuses, there is no remote, or the branch is known not to be pushed.
OpenNone ==
  /\ At("open pr")
  /\ GoOn(<< >>, job.st)
  /\ UNCHANGED <<config, disk, files, tree, remote, prs, ci, made, crashes>>

MayOpen == /\ At("open pr")
           /\ remote.exists
           /\ job.st.push = "failed" => Pushed(job.st)

\* EnsurePR: an open pull request is used again
ReusePR ==
  /\ MayOpen
  /\ \E n \in Open : GoOn(<< >>, Known(job.st, n))
  /\ UNCHANGED <<config, disk, files, tree, remote, prs, ci, made, crashes>>

\* or one is created, which GitHub allows between branches it has, the head
\* being ahead of the base.
CreatePR ==
  /\ MayOpen
  /\ Open = {}
  /\ remote.refs = {"base", "feature"}
  /\ remote.feature \ remote.base # {}
  /\ Len(prs) < MaxPRs
  /\ prs' = Append(prs, "open")
  /\ GoOn(<< >>, Known(job.st, Len(prs')))
  /\ UNCHANGED <<config, disk, files, tree, remote, ci, made, crashes>>

\* EvaluateMerge for a pull request that is open or closed.
EvaluateMerge(st, pr) ==
  IF \/ pr = "closed"
     \/ ~files.verified
     \/ st.cur \notin {"VERIFIED", "COMPLETED"}
  THEN "waiting"
  ELSE IF ci = "pending" THEN "checking"
  ELSE IF ci = "pass" /\ job.autoMerge THEN "ready" ELSE "waiting"

\* mergeLocked up to gh pr merge; it saves what it finds.
ViewPR ==
  /\ At("merge")
  /\ LET st == job.st
         Found(to) == [st EXCEPT !.merge = to]
         Record(found) == disk' = found /\ GoOn(<< >>, found)
     IN  \/ st.pr = 0 /\ Record(Found("waiting"))
         \/ st.pr # 0 /\ Record(st)                        \* gh refuses
         \/ /\ st.pr # 0
            /\ \/ prs[st.pr] = "merged" /\ Record(Found("merged"))
               \/ /\ prs[st.pr] # "merged"
                  /\ LET to == EvaluateMerge(st, prs[st.pr])
                     IN  IF to = "ready"
                         THEN GoOn(<<"merge pr">>, st) /\ UNCHANGED disk
                         ELSE Record(Found(to))
  /\ UNCHANGED <<config, files, tree, remote, prs, ci, made, crashes>>

\* What a merge, by whomever, does to GitHub's branches.
Merged == [remote EXCEPT !.base = @ \cup
             LET new == remote.feature \ @
             IN  IF config.squash THEN {-Distance(c) : c \in new}
                 ELSE new \cup {-Max(Work(remote.feature))}]

\* cleanupMergedBranch
CleanupSteps ==
  IF config.delete
  THEN IF tree.branch THEN <<"delete remote", "delete local", "to base">> ELSE << >>
  ELSE <<"to base">>

MergeOr(refused) ==
  /\ At("merge pr")
  /\ \/ /\ prs[job.st.pr] = "open"
        /\ prs' = [prs EXCEPT ![job.st.pr] = "merged"]
        /\ remote' = Merged
        /\ GoOn(CleanupSteps \o <<"save">>, [job.st EXCEPT !.merge = "merged"])
     \/ /\ \E to \in refused : GoOn(<<"save">>, [job.st EXCEPT !.merge = to])
        /\ UNCHANGED <<prs, remote>>
  /\ UNCHANGED <<config, disk, files, tree, ci, made, crashes>>

\* Mutants: the decision is recorded, or a merge is taken for granted.
MergePRDecided == MergeOr({"ready"})
MergePRTrusting == MergeOr({"merged"})

\* gh pr merge merges, or refuses ("waiting"), or fails and leaves the state.
MergePR == MergeOr({"waiting", job.st.merge})

\* DeleteRemoteBranch, whose error is ignored; GitHub closes what is open of
\* a deleted branch.
DeleteRemote ==
  /\ At("delete remote")
  /\ \/ /\ remote' = [remote EXCEPT !.refs = @ \ {"feature"}, !.feature = {}]
        /\ prs' = [n \in DOMAIN prs |-> IF n \in Open THEN "closed" ELSE prs[n]]
     \/ UNCHANGED <<remote, prs>>
  /\ GoOn(<< >>, job.st)
  /\ UNCHANGED <<config, disk, files, tree, ci, made, crashes>>

\* DeleteBranch: never the current branch, and git branch -d asks that it is
\* merged to its upstream, or to HEAD when that is gone.
DeleteLocal ==
  /\ At("delete local")
  /\ LET upstream == IF "feature" \in remote.refs THEN remote.feature ELSE tree.base
     IN  IF tree.head = "base" /\ tree.feature \subseteq upstream
         THEN tree' = [tree EXCEPT !.branch = FALSE, !.feature = {}]
         ELSE UNCHANGED tree
  /\ GoOn(<< >>, job.st)
  /\ UNCHANGED <<config, disk, files, remote, prs, ci, made, crashes>>

\* FastForwardBase: nothing on a dirty tree or when the fetch fails; a base
\* that cannot be fast-forwarded stays checked out.
ToBase ==
  /\ At("to base")
  /\ \/ GoOn(<< >>, job.st) /\ UNCHANGED tree
     \/ /\ ~tree.dirty /\ "base" \in remote.refs
        /\ IF tree.base \subseteq remote.base
           THEN /\ tree' = [tree EXCEPT !.head = "base", !.base = remote.base]
                /\ GoOn(IF tree.head = "base" THEN << >> ELSE <<"back">>, job.st)
           ELSE /\ tree' = [tree EXCEPT !.head = "base"]
                /\ GoOn(<< >>, job.st)
  /\ UNCHANGED <<config, disk, files, remote, prs, ci, made, crashes>>

Back ==
  /\ At("back")
  /\ tree' = [tree EXCEPT !.head = "feature"]
  /\ GoOn(<< >>, job.st)
  /\ UNCHANGED <<config, disk, files, remote, prs, ci, made, crashes>>

-----------------------------------------------------------------------------
\* Recovery

\* recoverLocked up to reconcileDeliveryLocked, which saves nothing itself.
Recover ==
  /\ At("recover")
  /\ LET st == job.st
         claimed == [st EXCEPT !.cur = "CLAIMED_DONE"]
     IN  IF st.cur = "VERIFYING"
         THEN disk' = claimed /\ GoOn(<<"reconcile">>, claimed)
         ELSE /\ GoOn(CASE st.cur = "VERIFIED" -> CompletionSteps \o <<"reconcile">>
                        [] st.cur = "COMPLETED" -> <<"push", "reconcile", "save">>
                        [] OTHER -> <<"reconcile">>, st)
              /\ UNCHANGED disk
  /\ UNCHANGED <<config, files, tree, remote, prs, ci, made, crashes>>

\* reconcileDeliveryLocked, gh being there or not
Reconcile ==
  /\ At("reconcile")
  /\ LET st == IF job.st.branch /\ Pushed(job.st) THEN [job.st EXCEPT !.push = "pushed"] ELSE job.st
         found == IF st.pr # 0 \/ Open = {} \/ ~st.branch THEN st
                  ELSE Known(st, CHOOSE n \in Open : TRUE)
     IN  \/ GoOn(<< >>, st)
         \/ found.pr = 0 /\ GoOn(<< >>, found)
         \/ found.pr # 0 /\ prs[found.pr] = "merged"
            /\ GoOn(CleanupSteps, [found EXCEPT !.merge = "merged"])
         \/ found.pr # 0 /\ prs[found.pr] # "merged"
            /\ GoOn(<< >>, IF ci = "pending" THEN Merge(found, "checking")
                           ELSE IF found.merge = "" THEN Merge(found, "open") ELSE found)
  /\ UNCHANGED <<config, disk, files, tree, remote, prs, ci, made, crashes>>

-----------------------------------------------------------------------------
\* Bootstrap and preparation

Start(steps, autoMerge) ==
  job' = [todo |-> steps, st |-> disk, resume |-> FALSE, autoMerge |-> autoMerge]

PrepareSteps == <<"recover", "bootstrap", "select">>

Prepare ==
  /\ Idle
  /\ Start(PrepareSteps, config.autoMerge)
  /\ UNCHANGED <<config, disk, files, tree, remote, prs, ci, made, crashes>>

\* bootstrapRepo of a dirty tree: it is left as it is.
BootstrapDirty ==
  /\ At("bootstrap")
  /\ tree.dirty
  /\ disk' = job.st
  /\ IF job.st.cur = "WAITING" THEN job' = NoJob ELSE GoOn(<< >>, job.st)
  /\ UNCHANGED <<config, files, tree, remote, prs, ci, made, crashes>>

\* configureRemote, by what becomes of the remote and of push_status.
Configured(st) ==
  IF remote.exists
  THEN {[exists |-> TRUE, push |-> IF st.push \in {"", "skipped"} THEN "pending" ELSE st.push]}
  ELSE {[exists |-> TRUE, push |-> IF st.push = "" THEN "pending" ELSE st.push],
        [exists |-> FALSE, push |-> "skipped"]}

\* bootstrapRepo of a clean tree checks out the base and, unless the project
\* waits for a human, pushes.  A preparation from a PRD alone (any may be one,
\* that of Resume is) asks a human for the remote it cannot have.
Bootstrap ==
  /\ At("bootstrap")
  /\ ~tree.dirty
  /\ tree' = [tree EXCEPT !.head = "base"]
  /\ \E r \in Configured(job.st) :
       LET st == [job.st EXCEPT !.push = r.push]
           ready == [st EXCEPT !.commit = Tip(tree.base)]
           send == IF r.exists /\ r.push # "skipped" THEN <<"initial push">> ELSE << >>
           End(last) == job' = [job EXCEPT !.todo = <<"save">>, !.st = last]
           Ask == /\ Mark(st.phase, "WAITING_FOR_HUMAN")          \* githubHuman
                  /\ End([job.st EXCEPT !.cur = "WAITING"])
           Continue == /\ IF st.cur = "WAITING" THEN End(st) ELSE GoOn(send \o <<"save">>, ready)
                       /\ UNCHANGED files
       IN  /\ remote' = [remote EXCEPT !.exists = r.exists]
           /\ \/ ~r.exists /\ Ask
              \/ (r.exists \/ ~job.resume) /\ Continue
  /\ UNCHANGED <<config, disk, prs, ci, made, crashes>>

\* prepareLocked chooses a phase.  That a COMPLETED state's phase is still
\* RUNNING in graph.json, which it would mend first, does not happen here.
Resumed(st) == IF st.cur \in {"COMPLETED", "WAITING"} THEN NoPhase ELSE st.phase
Selected == SelectRunnable(files.node, NoPhase, Resumed(job.st))

\* prepareLocked after preflight: persistProjectCompleted,
SelectNone ==
  /\ At("select")
  /\ Selected.phase = NoPhase
  /\ IF ~Selected.reason /\ AllCompleted(files.node)
     THEN /\ GoOn(<<"deliver", "save">>,
                  [job.st EXCEPT !.finished = TRUE, !.cur = "COMPLETED"])
          /\ UNCHANGED files
     ELSE /\ GoOn(<< >>, job.st)
          /\ files' = [files EXCEPT !.packet = FALSE, !.verified = FALSE]
  /\ UNCHANGED <<config, disk, tree, remote, prs, ci, made, crashes>>

\* or ensureExecutionBranch, the baseline, and a packet.
SelectPhase ==
  /\ At("select")
  /\ LET p == Selected.phase
         branch == IF tree.branch THEN tree.feature ELSE tree[tree.head]
     IN  /\ p # NoPhase
         /\ tree' = [tree EXCEPT !.head = "feature", !.branch = TRUE, !.feature = branch]
         /\ files' = [node |-> SetStatus(Deps, files.node, p, "RUNNING"),
                      packet |-> ~tree.dirty, verified |-> FALSE]
         /\ GoOn(IF tree.dirty THEN << >> ELSE <<"save">>,
                 [job.st EXCEPT !.cur = "PREPARED", !.phase = p, !.branch = TRUE,
                                !.commit = Tip(branch)])
  /\ UNCHANGED <<config, disk, remote, prs, ci, made, crashes>>

-----------------------------------------------------------------------------
\* The other commands

\* Verify up to the tests; without a packet there is nothing to test.
Verify ==
  /\ Idle
  /\ disk.phase # NoPhase
  /\ disk' = [disk EXCEPT !.cur = IF files.packet THEN "VERIFYING" ELSE "INCOMPLETE"]
  /\ IF files.packet
     THEN job' = [todo |-> <<"tests">>, st |-> disk', resume |-> FALSE,
                  autoMerge |-> config.autoMerge]
     ELSE UNCHANGED job
  /\ UNCHANGED <<config, files, tree, remote, prs, ci, made, crashes>>

\* persistVerify: VERIFIED is not saved before the phase has been delivered.
\* A phase's tests need work, all of what was committed for it.
Tests ==
  /\ At("tests")
  /\ \E pass \in BOOLEAN :
       /\ pass => /\ made[job.st.phase] \subseteq Work(tree[tree.head])
                  /\ tree.dirty \/ made[job.st.phase] # {}
       /\ files' = [files EXCEPT !.verified = pass]
       /\ GoOn(IF pass THEN CompletionSteps ELSE <<"save">>,
               [job.st EXCEPT !.cur = IF pass THEN "VERIFIED" ELSE "FAILED",
                              !.commit = Tip(tree[tree.head])])
  /\ UNCHANGED <<config, disk, tree, remote, prs, ci, made, crashes>>

\* A repair packet, by PrepareRepair of what failed or by RepairRuntime of a
\* finished product that does not start.
Repair ==
  /\ Idle
  /\ disk.cur = "FAILED" \/ (disk.cur = "COMPLETED" /\ disk.finished)
  /\ disk' = [disk EXCEPT !.cur = "REPAIRING"]
  /\ UNCHANGED <<config, files, job, tree, remote, prs, ci, made, crashes>>

\* Resume, the human having answered a GitHub request: it saves, gives the
\* lock up, and goes on with Reconcile or with a PRD-only Prepare.  What another
\* command does in that gap it can do after a crash of Resume, too.
Resume ==
  /\ Idle
  /\ disk.cur = "WAITING"
  /\ disk' = [disk EXCEPT !.cur = IF files.verified THEN "VERIFIED" ELSE "PREPARED"]
  /\ job' = [todo |-> IF files.verified THEN <<"recover", "save">> ELSE PrepareSteps,
             st |-> disk', resume |-> TRUE, autoMerge |-> config.autoMerge]
  /\ UNCHANGED <<config, files, tree, remote, prs, ci, made, crashes>>

\* requireVerifiedExecution
Gate == disk.cur \in {"VERIFIED", "COMPLETED"} /\ files.verified

\* prdpr pr and prdpr merge, which never merge: the command line gives them
\* default settings.
OpenMilestonePR ==
  /\ Idle /\ Gate
  /\ Start(<<"open pr", "save">>, FALSE)
  /\ UNCHANGED <<config, disk, files, tree, remote, prs, ci, made, crashes>>

TryMerge ==
  /\ Idle /\ Gate
  /\ Start(<<"merge">>, FALSE)
  /\ UNCHANGED <<config, disk, files, tree, remote, prs, ci, made, crashes>>

\* prdpr checks
InspectChecks ==
  /\ Idle
  /\ disk' = IF ci = "pending" THEN Merge(disk, "checking")
             ELSE IF disk.pr # 0 /\ disk.merge = "" THEN Merge(disk, "open") ELSE disk
  /\ UNCHANGED <<config, files, job, tree, remote, prs, ci, made, crashes>>

-----------------------------------------------------------------------------
\* The worker, the user, GitHub, crashes

Edit ==
  /\ Idle
  /\ files.packet /\ disk.cur \in {"PREPARED", "REPAIRING"} /\ ~tree.dirty
  /\ tree.head = "feature" \/ EditOnBase
  /\ Cardinality(UNION {made[p] : p \in Phase}) < MaxCommits
  /\ tree' = [tree EXCEPT !.dirty = TRUE]
  /\ UNCHANGED <<config, disk, files, job, remote, prs, ci, made, crashes>>

\* The user cleans the tree prepare has refused.
Discard ==
  /\ Idle
  /\ tree.dirty /\ ~files.packet
  /\ tree' = [tree EXCEPT !.dirty = FALSE]
  /\ UNCHANGED <<config, disk, files, job, remote, prs, ci, made, crashes>>

\* Someone merges or closes a pull request on GitHub, at any time.
Decide ==
  /\ \E n \in Open :
       \/ prs' = [prs EXCEPT ![n] = "merged"] /\ remote' = Merged
       \/ prs' = [prs EXCEPT ![n] = "closed"] /\ UNCHANGED remote
  /\ UNCHANGED <<config, disk, files, job, tree, ci, made, crashes>>

ChecksEnd ==
  /\ "feature" \in remote.refs /\ ci = "pending"
  /\ ci' \in {"pass", "fail"}
  /\ UNCHANGED <<config, disk, files, job, tree, remote, prs, made, crashes>>

Crash ==
  /\ ~Idle
  /\ crashes < MaxCrashes
  /\ crashes' = crashes + 1
  /\ job' = NoJob
  /\ UNCHANGED <<config, disk, files, tree, remote, prs, ci, made>>

Step == \/ SaveState \/ Checkpoint \/ PushSucceeds \/ PushLocked \/ Deliver
        \/ MarkCompleted \/ Complete \/ OpenNone \/ ReusePR \/ CreatePR
        \/ ViewPR \/ MergePR \/ DeleteRemote \/ DeleteLocal \/ ToBase \/ Back
        \/ Recover \/ Reconcile \/ BootstrapDirty \/ Bootstrap
        \/ SelectNone \/ SelectPhase \/ Tests

Next == \/ Step
        \/ Prepare \/ Verify \/ Repair \/ Resume
        \/ OpenMilestonePR \/ TryMerge \/ InspectChecks
        \/ Edit \/ Discard \/ Decide \/ ChecksEnd \/ Crash

Spec == Init /\ [][Next]_vars

-----------------------------------------------------------------------------
TypeOK ==
  /\ config \in Configs
  /\ disk \in State
  /\ files \in [node : [Phase -> Status], packet : BOOLEAN, verified : BOOLEAN]
  /\ job.st \in State
  /\ tree \in [head : Branch, dirty : BOOLEAN, branch : BOOLEAN,
               base : SUBSET Sha, feature : SUBSET Sha]
  /\ remote \in [exists : BOOLEAN, refs : SUBSET Branch,
                 base : SUBSET Sha, feature : SUBSET Sha]
  /\ \A n \in DOMAIN prs : prs[n] \in {"open", "merged", "closed"}
  /\ ci \in {"pending", "pass", "fail"}
  /\ made \in [Phase -> SUBSET Commit]
  /\ crashes \in 0 .. MaxCrashes

OnGitHub == Work(remote.base) \cup Work(remote.feature)

\* What state.json records as completed and pushed is on GitHub: the work of
\* every completed phase is on the feature branch there, or merged.
RecordedWorkIsPushed ==
  Idle /\ disk.cur = "COMPLETED" /\ disk.push = "pushed" =>
    \A p \in Phase : files.node[p] = "COMPLETED" => made[p] \subseteq OnGitHub

\* So it is where merged branches are kept and no repair is under way: prepare
\* completes a finished project again whose repair was interrupted.
PushRecordIsTrue == ~config.delete /\ ~tree.dirty => RecordedWorkIsPushed

\* A phase becomes completed only with its work in commits, never with some of
\* it in the working tree alone, whichever command or recovery completes it.
CompletesCommitted ==
  [][\A p \in Phase : files.node[p] # "COMPLETED" /\ files'.node[p] = "COMPLETED"
        => ~tree.dirty /\ made[p] # {}]_vars

\* Commits already made are kept: whatever is merged, deleted and interrupted,
\* verified work is on a branch here or on GitHub.
CommitsAreKept ==
  \A p \in Phase : made[p] \subseteq Work(tree.base) \cup Work(tree.feature) \cup OnGitHub

\* state.json starts to say merged only of a pull request that is.
MergeRecordIsTrue ==
  [][disk.merge # "merged" /\ disk'.merge = "merged" =>
       disk'.pr \in DOMAIN prs /\ prs[disk'.pr] = "merged"]_vars
=============================================================================
