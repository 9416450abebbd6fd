# PRD→PR: a TLA+ model of the engine

`prdpr` turns a PRD into code phase by phase: it parses the PRD into a graph of
phases, prepares a task packet for a phase, lets a coding worker implement it,
verifies the result with the product's tests, repairs failures a bounded number
of times, asks a human when it cannot go on, and commits what was verified.
Every step is a separate command (or a call of the headless loop) that reads
and writes small JSON files under `.project/` of the product; the processes
share nothing else. This directory models that protocol of files, lock and
commands, checks it with TLC and proves parts of it with TLAPS.

Contents: [parts of the system](#parts-of-the-system), [modules](#modules),
[how code becomes actions](#how-code-becomes-actions), [properties](#properties),
[runs and bounds](#runs-and-bounds), [fairness](#fairness),
[what the runs refute](#what-the-runs-refute), [proofs](#proofs),
[not modelled](#not-modelled), [plan](#plan).

## Parts of the system

| Part (code) | State it keeps | Operations | Correct when |
|---|---|---|---|
| Project lock (`internal/state/lock.go`) | `.project/LOCK` (a PID) | `Lock` (two attempts: create with O_EXCL, else inspect and remove a stale file), `Unlock` | exclusive; a stale file is recovered; `Lock` returns |
| Phase graph (`internal/graph`, `internal/engine/graphutil.go`) | `graph.json`: dependencies, status and block reasons of each phase | `FromSpecs`, `Refresh`, `SetStatus`, `Rewind`, `mergeGraphStatus`, `selectRunnablePhase` | phases are worked on in dependency order, and the walk is never stuck |
| Engine commands (`internal/engine/{engine,prepare,verify,review,repair,human,recover}.go`) | `state.json`, `execution.json`, `verification.json` | prepare, run, verify, review, repair, request-human, feedback, resume, recovery of a dead command | COMPLETED only on evidence, whatever the order of commands and crashes |
| Loops and commit (`internal/engine/loop.go`) | none on disk; what `RunGraph` and `RunPhase` remember between calls | the phase loop, the repair loop, `completeLocked`, `CommitVerified` | they end, go forward, and commit only tested work |
| Repair incidents (`internal/repair`) | `incident.json`: the attempts made | `BeginAttempt`, `FinishAttempt`, `RecordAttempt` | attempts counted once, bounded, never forgotten |
| Human requests (`internal/human`) | `human/request.json`, `human/response.json` | `WriteRequest`, `WriteResponse`, `ManualConfirmed` | who waits can be answered; an answer is for its question |
| PRD and contract gate (`internal/prd`) | none; reads `PRD.md` | `Parse` with `validate`, `ValidateContract` | it rejects what the rest cannot work on, and nothing it accepts is refused later |
| Preflight (`internal/preflight`) | none; reads the PRD, the tools and the repository | `Run` | it blocks exactly what must not start |
| Planner and packets (`internal/plan`, `internal/packet`) | the packet files | `Packet` | a packet says what the PRD asks of the phase |
| Verification (`internal/testeng`) | the verdict | `BuildPlan`, `Run`, `finalize` | VERIFIED means all the PRD asked for; a verdict names its phase |
| Diagnosis and review (`internal/diagnose`, `internal/review`) | none | `Classify`, `review.Run` | only product failures consume attempts |
| State files (`internal/state`) | the files above, and `events.jsonl` | atomic replacement, append | a reader sees whole files |
| Delivery (`internal/engine/{delivery,repo,recover}.go`, `internal/vcs`, `internal/ci`) | `state.json.repository`, the Git tree, GitHub | bootstrap, checkpoint, push, pull request, checks, merge, cleanup, reconciliation | the record agrees with GitHub, and verified work is never lost |
| Runtime (`internal/engine/runtime.go`, `internal/apprun`) | `state.json.runtime`, `incident.json` | start the product, runtime repair | bounded repairs; nothing completed by a start |
| Markdown splitting, bootstrap, configuration, model router, knowledge, CLI | | pure translations, text | |

How they meet: every locked command takes `.project/LOCK`, first recovers what
a dead command left (`recoverLocked`), then reads the files, works, and writes
them one after the other. `prdpr feedback` writes `response.json` and `prdpr
commit` works on the Git tree without the lock. `prdpr prepare` reads `PRD.md`
three times, the first (the contract gate) without the lock. `prdpr phase` is a process that
makes such locked calls one after the other and keeps their results in memory.

What is hard here: a crash may fall between any two writes; a second command
comes in wherever the lock is free; the PRD may be saved between any two
readings of it; what one phase left in `execution.json`,
`verification.json`, `incident.json` or the human files is still there in the
next phase; the lock itself is recovered by guessing who is alive. The
`hazards` of PROJECT.json list these places, each at its line.

## Modules

| Module | What it is |
|---|---|
| `ProjectLock` | the lock file, one action per system call |
| `ProjectLock_proofs` | theorems about it |
| `PhaseGraph` | the graph as operators on statuses |
| `GraphWalk` | `graph.json` under the engine's changes, for every graph of N phases |
| `PhaseGraph_proofs` | lemmas about the graph's operators |
| `GraphWalk_proofs` | theorems about it |
| `Project` | the files of `.project/` and what each handler writes, as operators |
| `PhaseOrder` | the abstract promise: done only after evidence and in order |
| `Engine` | the commands under the lock, users, crashes; refines `PhaseOrder` |
| `Engine_proofs` | theorems about it |
| `RunLoop` | `prdpr phase` composed with `Engine` |
| `Contract` | what the parser and the contract gate reject, and the graph built from a document |
| `Preflight` | what blocks prepare |
| `Verification` | packet, checks and verdict, as operators |
| `Intake` | prepare, verify, feedback and resume while the PRD is edited, on `Project` |
| `Intake_proofs` | theorems about it and about Verification |
| `Runtime` | `prdpr runtime` composed with `RunLoop` |
| `Runtime_proofs` | theorems about it and about `RunLoop` |
| `Delivery` | bootstrap, commit, push, pull request, merge and recovery with Git and GitHub |
| `Delivery_proofs` | theorems about it: its types, what is recorded as merged, and what a phase is completed with |
| `DeliveryPush_proofs` | a theorem about it: what is recorded as completed and pushed |
| `MCEngine`, `MCRunLoop`, `MCRuntime`, `MCDelivery` | instances on a chain of phases |
| `MCIntake` | the documents, calls and products of `intake` |

`ProjectLock` justifies how `Engine` treats the lock: there, a locked command
has no competitor (`job = NoJob` to begin), which is what ProjectLock shows for
calls of `Lock` that do not overlap. That overlapping calls can both succeed is
a finding about the lock; Engine and RunLoop ask what goes wrong *even when the
lock works*.

An operator under a comment "Mutant" is a deliberately wrong variant of the
definition after it. No specification uses it; PROJECT.json says which property
catches it, so that each property is known to depend on the code it is about.

## How code becomes actions

**ProjectLock.** `OpenFile`, the write of the PID, `ReadFile`, `kill(pid, 0)`
and `Remove` are actions of their own. The file is its creator and whether the
PID has been written; an empty or missing file reads as stale, as in
`inspectLock`. A write goes to the open descriptor (lost when the path has been
removed meanwhile), a removal to the path. `Die` covers exits and crashes,
`Spawn` gives a PID out again, also one that is still in the file. `overlapped` is a history variable for the properties.

**PhaseGraph, GraphWalk.** Phases are numbered in `lessID` order. `Refresh` in
the code is one in-place pass; the operator is its result, and the invariant
`RefreshIsOnePass` compares it, and the block reasons, with the literal pass (a
fold) for every status of every phase. `Affected` and `kahn` likewise:
`Descendants` is the least fixpoint the depth-first walk computes, `KahnPrefix`
the loop; `OrdersRespectDependencies` relates them. `Start` is a prepare with any
phase as the current one of `state.json` (or none) and any or none asked for with
`--phase`, so that a READY phase may be started beside one RUNNING.

**Project, Engine.** `Project!Disk` is `.project/`. A handler maps the files at
its start to a *sequence* of states of `.project/`, one per file write, in the
order of the code. `Engine!Begin` takes the lock and the sequence, `WriteNext`
performs one write, `Crash` may come between any two, and the worker
(`Work`) and the test run (`RunTests`) are steps of their own in the middle of
run and verify; the handler goes on from the files it finds then. The user's
`Edit` of the tree comes at any moment, also in the middle of a command. `CommitCheck`,
`CommitTree`, `CommitLoad` and `CommitSave` are `CommitVerified` with its
unlocked gaps (the two reads of its gate are one step). Writes that fail are
not modelled: the code ignores most of these errors, and a failed write
followed by the end of the command is a crash there.

Data is reduced to what decisions look at: verdicts to VERIFIED, FAILED,
TIMEOUT, INCOMPLETE, MANUAL (UNSUPPORTED and INFRASTRUCTURE lead where
INCOMPLETE leads; failures classified as ambiguous lead to a human, as TIMEOUT
does; a FAILED verdict whose tests pass, with manual criteria open, is treated
with these); requests to manual, repair and blocked; identifiers of requests to
a stamp that changes with each request. A commit is the product tree becoming
clean; `.project/` is not part of the tree (`productDirtyPaths`). `untested`,
`passed` and `answered` are history variables. `untested` says that the tree has
work no passing tests have seen. A worker's edits count, and a user's unless they are made on
top of evidence a checkpoint is committed on (`Trusted`: the files hold a verified
execution with the verdict VERIFIED, or the command at work goes on to write
them, or to commit); why these are excepted is said [below](#what-the-runs-refute).

**Contract, Preflight, Verification.** Operators on a parsed document. A text
is the set of phrases that some expression of the gate, of the planner of checks or of
preflight looks for: the modules keep which check looks for which phrase, where
(the whole text, a section, an item), and what it concludes, and leave out the
expressions. Each `Blocks...` operator is one check of `ValidateContract`
reduced to whether it blocks; warnings change nothing. Both depth-first searches
for cycles are modelled as searches (`Search`, one step per successor looked at),
with the path they report; `Cyclic`, a fixpoint, is their reference. `BuildPlan` keeps of a check its
kind; `Outcome` and `Finalize` follow the order of the code's tests.

**Intake.** A prepare is three steps, one for each reading of `PRD.md`: `Gate`
(before the lock), `Check` (preflight) and `Plan` (the parse that graph and
packet come from, and the writes, which are `Project`'s `PrepareLocked` over the
graph just built: `New` is Project on that graph, `Old` on the one in
`graph.json`). The author's `Edit` comes between any two. A packet carries the
document it was made from, for the properties. Verify makes the packet's checks
on any product.

**Runtime.** `prdpr runtime` starts the application (`RuntimeStart`), unlocks,
and after a failure locks again and repairs (`RuntimeRepair`). What a start
comes to is any of `Starts` for the kind of application. `state.json.runtime` is
left out, since only reports read it; so the first start leaves no trace, and
the repair may come in every state in which there is something to start.

**RunLoop.** `loop` is the memory of `RunGraph` and `RunPhase`: where they are,
the phase they ran, the phases seen, the repair iteration, the attempt and the
verdict last returned. Each call is a locked command of Engine; `LoopRefused` is
the same call finding the lock taken. Between calls, and while the repair
worker runs, users' commands interleave.

**Delivery.** With GitHub enabled, every call to git or gh is a step, since each
may fail and a crash may follow each. A locked command is `job`: the names of
its steps to come and its own copy of `state.json`, which it writes only where
the code saves. A branch is a set of commits, so that an ancestor is a subset
and a fast-forward an inclusion; `-c` is the merge commit that brought `c` to
the base. `disk`, `files`, `tree`, `remote`, `prs` and `ci` are what outlives a
crash. People merge and close pull requests at any moment (`Decide`). The
protocol of `.project/` files is `Engine`'s subject and is coarser here:
verification is one step, the repair loop is `Verify`, `Repair` and `Edit`, and
`prdpr run` with its recovery is left to `Engine`. `made` is a history variable: the
commits made for each phase, all of which must be in the tree at HEAD, and some
work there, for the phase's tests to pass.

## Properties

Lock: `ExclusiveUnlessOverlap`, `HolderUndisturbed`,
`GiveUpOnlyUnderContention`, `LockReturns`, `StaleLockRecovered`.

Graph: `StartedInOrder` (nothing started above unfinished dependencies, `--phase`
and rewinds included), `ReasonsMatchFile` (a block reason is of a phase that is
not done, names a dependency of it that is not done, and gives the code of that dependency's
status), `SomethingToDo` (never stuck), `WalkFinishes`.

Engine: `CompletedWasVerified` (no phase is COMPLETED without a recorded
verdict VERIFIED of its own), `CommitsTestedWork` (no commit takes in work that no
passing tests have seen, edits on top of the evidence excepted), `AttemptsBounded`,
`ChainKeepsAttempts` (while the incident stays with its phase, its attempts are not
forgotten), `RepairOnlyFailures`, and `ImplementsPhaseOrder`: Engine implements `PhaseOrder` under the mapping
`evidence <- passed`, `done <-` the COMPLETED phases, so a phase becomes done
only by a step taken while its dependencies are done.

Loop: `WalkGoesForward`, `CompletedStays`, `LeavesRequest`, `LoopReturns`,
`GraphCompletes`.

Runtime: `RepairsBounded` (the incident file that phase and runtime repairs
share stays within the limit, and its attempts are forgotten at most once, so
at most two incidents' worth of packets are handed out).

Intake: `GateAgreesWithGraph` (the gate rejects for its phases exactly what the
graph has errors for), `CyclesAgree` (both searches against `Cyclic`, and the
path reported is a cycle), `ValidCanStart` (what the gate accepts, the rest of
prepare accepts), `PacketsAreSound` (a packet comes from a PRD without errors and, when
nobody edits meanwhile, one the gate accepts), `StartsInOrder` and
`CompletedSurvivesEdits` (order and completion across edits),
`VerdictIsSpecified` (VERIFIED is exactly what the PRD asks of the phase).

Delivery: `PushRecordIsTrue` (a project recorded as completed and pushed has the
work of its completed phases on GitHub, unless a repair is still in the working tree), `MergeRecordIsTrue` (merged is recorded
only of a merged pull request), `CompletesCommitted` (a phase becomes completed
only with its work in commits, on every path through recovery).

## Runs and bounds

| Run | Instance | Shows |
|---|---|---|
| `lock` | 3 processes, PIDs reused | safety of the lock, its end, recovery of stale files |
| `graph_walk` | all graphs of 3 phases | the graph's invariants, the operators against literal passes, the end of the walk |
| `engine` | 2 phases, none manual, 2 attempts, 1 crash in any command, all outcomes | the engine's safety |
| `engine_human` | 2 phases, the second manual, run, resume, feedback and commit at any time, 1 crash | the refinement of `PhaseOrder` with human answers and lost updates |
| `run_loop` | 3 phases, the last manual, all outcomes, 1 crash | the unattended loop, and that it ends |
| `loop_runtime` | 2 phases, 2 attempts, 1 crash of a repair, the loop against repair and runtime of a user | repairs stay bounded, and nothing completes without a verdict, under concurrency |
| `intake` | 640 graphs, 15 documents with a flaw, 4 accepted, 8 revisions, 1 edit, 5 calls, 96 products | gate, preflight, graph, packet and verdict against each other, and PRD edits |
| `loop_completes` | 3 phases, passing tests, 2 crashes | the graph completes |
| `delivery` | 2 phases, 2 commits, 2 pull requests, 1 crash anywhere, 2 configurations | the record against GitHub |

Three processes are enough for a lock holder, a recoverer and a newcomer, the
three roles of every interleaving of two system calls by path. Three phases
hold every shape in which an edge crosses the order of identifiers, chains,
forks, joins and cycles; the proofs then cover every number. For the commands two
phases are one that ends and one that inherits its files; a longer plan repeats
that pair (`run_loop` and `loop_completes` have three, for a walk with a middle). Two attempts
are the first and the last. One crash is the bound within which the engine's
completion promise holds; two break it (below). In `delivery`, two commits and two
pull requests are what is delivered and what comes after it, of the same phase
(a repair) or the next; the configurations cross the two boundaries with both kinds of
merge, with merging by people only and by the engine, and with and without
deletion of merged branches.
In `intake`, three phases are the cycles of length one to three and every order of
identifiers; a document with one flaw for each check of the gate, and accepted ones in which
most checks find something and still do not block, are the ways a check can
go; one edit meets each of the three readings, the packet and the verdict, and
the revisions change one thing a decision looks at. The dependency lists leave a
decision open, so that only the operators, not the commands, are evaluated on them.
`MaxCrashes` bounds crashes, `MaxEdits` edits, `MaxCommits` and
`MaxPRs` what is delivered, `MaxAttempts` and `LoopAttempts` are the code's own
limits (3 there, with the same roles); no other quantity grows.

Deadlock is allowed in `graph_walk`, whose walk ends after its last phase, and
in `intake`, where a rejected PRD that is not edited any more is the end. The
other models never deadlock, since a command can always be given again.

What the bounds leave out, on purpose: `lock` checks exclusion only outside
overlaps, because with them it fails (below). `run_loop` has no crash of verify:
after one, a flaky test takes a COMPLETED phase back to waiting (a hazard of
PROJECT.json). `loop_completes` has no crash of prepare, which orphans a phase
(below). `loop_runtime` has neither resume nor the order of completion: with
`prdpr runtime` both break what the other runs show (below). `PushRecordIsTrue` is
checked where merged branches are kept and with workers that edit on the feature branch
only (`EditOnBase = FALSE`), and says nothing of a dirty tree; the exceptions are real
and below. `CommitsTestedWork` is checked without `prdpr commit`, and does not count edits made
on top of evidence that is still to be committed on; both break it (below). `ImplementsPhaseOrder` is checked without `repair`, which may
reopen a completed phase under the next one, with a crash (a hazard of PROJECT.json)
and without any (below). `CompletedWasVerified` is checked with `AutoCommit`, since without
it the commands alone break it (below).

## Fairness

- `ProjectLock!Fairness`: a process that is inside `Lock` or `Unlock` and is not
  killed executes its next system call. Nothing makes it start a command or end
  its work.
- `GraphWalk!Fairness`: the walk starts what it may start, and a phase in work
  or waiting is completed in the end (workers have timeouts, and the person
  who is asked answers); `WalkFinishes` moreover supposes that rewinds stop and
  that no phase is started beside one in work (`OneInWork`), since nothing takes the older
  one up again. It is about the graph's logic alone.
- `RunLoop!LoopFairness`: weak fairness of the command at work, of the loop's own
  steps, and of its calls. A call needs the lock and is refused at once when it is
  taken, so call-or-refusal is always possible; weak fairness of that pair is what
  an ordinary scheduler gives. Workers and test runs end because both run under
  timeouts. Users' commands have no fairness: they need never be given.
- `RunLoop!Persistent` adds strong fairness of starting `prdpr phase` and of
  cleaning the tree: an operator who keeps restarting. It is used only to ask
  whether restarting is enough.

## What the runs refute

Each of these runs checks one property that a document or comment of the
repository states, and TLC finds it violated by what the code does. PROJECT.json
quotes the statement and the line that breaks it.

- `lock_exclusive`: two overlapping `Lock` calls both succeed, since the file is
  empty, hence stale, until the PID is written, and removal goes by path.
- `engine_answer`: one phase's manual confirmation passes the next phase.
- `delivery_deletes`: pull request 1 is merged by a person while a repair of its
  phase is under way; the repair is pushed, gh fails to open the next pull
  request, and the reconciliation that finds 1 merged deletes the branch the
  repair is on. HEAD is on the base, so the local branch goes, while its deletion on GitHub
  fails; the same prepare creates the branch anew from the base for the next
  phase; and the next reconciliation, which looks for a local branch first, deletes the one on
  GitHub too: the commit is on no branch any more.

Met while modelling, without a run of their own. About the PRD and the graph:

- The gate looks for conflicting requirements in one order only: "be public"
  before "be private" is rejected, the reverse accepted (contract_checks.go:178).
- Gate, preflight and planner read `PRD.md` separately and only parse and graph errors are
  looked at again (engine/prepare.go:118): a PRD saved meanwhile that the gate would
  reject gets its packet (against docs/PRD_AUTHORING_CONTRACT.md:57).
- A VALID PRD without phases can never be prepared ("no ready phase"), although
  the gate lets a product without phases pass (contract_checks.go:344).
- An expected output outside of the product root passes the gate and makes the phase
  unverifiable; so is every phase of a product that is not written in Go.
- A criterion that says both "tests pass" and "implement Symbol(" is checked for the
  tests only; a criterion no section declares becomes a manual one; a requirement or
  criterion no phase lists passes the gate and is never looked at.
- A Go file that cannot be read, while the tests pass, is FAILED and consumes a
  repair attempt (testeng/run.go:237).
- When the PRD drops the phase in work and all others are COMPLETED, prepare
  reports the project completed but leaves `execution.json`: a verify still
  verifies the phase that is gone.
- `prepare --phase` on a READY phase while another is RUNNING leaves two RUNNING
  phases, of which nothing takes up the older (graphutil.go:81, against
  docs/GRAPH_AND_LOOPS.md:21). A crash of prepare between `graph.json` and
  `state.json` (engine/prepare.go:157) leaves such a phase too; with "run" among
  `Crashes`, `loop_completes` fails for it.
- A completed phase is removed from the PRD and restored, and the next prepare is
  refused for a dirty tree after it has marked the phase RUNNING: the prepare after
  that finds `state.json` COMPLETED and marks the phase COMPLETED without a
  verification (engine/prepare.go:134).

About the runtime (`MCRuntime` with `ImplementsPhaseOrder`, or with resume and
feedback among `Commands` and `CompletedWasVerified`):

- `prdpr runtime` fails for the environment while the second phase has just been
  started: the request marks the current, already COMPLETED phase
  WAITING_FOR_HUMAN (engine/human.go:50), and the second phase completes above it.
- A request about the runtime, answered while a phase is at work, makes `prdpr
  resume` save COMPLETED; the next prepare takes the RUNNING phase for finished and
  marks it COMPLETED without a verification (engine/human.go:173, prepare.go:134).
- After such a request and a resume, the last phase stays WAITING_FOR_HUMAN in
  `graph.json`, and the project is never completed again.
- A server that logs "ready" or "listening", "not ready" included, and then crashes counts as
  ready (apprun.go:92).
- A runtime incident stays: later phases' repairs go on with it, and neither kind
  gets a second one.

About the engine and delivery:

- `MCEngine` with `ImplementsPhaseOrder`, prepare, verify and repair, one attempt and no crash:
  a refused prepare records the phase it was asked for in `execution.json`
  (engine/prepare.go:255), and the verify after it makes that phase the current one
  (engine/verify.go:177), which counts as the active phase from then on. With phase 1
  COMPLETED and phase 2 in repair: `prepare --phase 1` and verify make 1 current, a refused
  prepare puts 2 into `execution.json` again, repair finds the attempts used up
  and marks the current phase, 1, WAITING_FOR_HUMAN; verify makes 2 current, prepare goes
  on with it, and it becomes COMPLETED above phase 1 (against docs/GRAPH_AND_LOOPS.md:15 and :21:
  "`--phase` does **not** bypass READY").
- `MCEngine` with `AutoCommit = FALSE`, prepare, verify and review: review takes the
  previous phase's verdict for that of the phase just prepared and saves VERIFIED
  (engine/review.go:103); the next command completes that phase (engine/recover.go:32)
  and, without a commit gate, looks at no evidence (engine/loop.go:240, against
  docs/GRAPH_AND_LOOPS.md:17).
- `MCEngine` with two crashes: the commit gate (engine/repo.go:389) reads a
  `verified_success` that may belong to another phase; a crash between a phase's
  COMPLETED in `graph.json` and `state.json`, and another in the prepare that
  follows, let a later VERIFIED state complete the next phase over the old flag.
- `MCEngine` with prepare, verify and `prdpr commit`: the gate is tested without the
  lock (engine/loop.go:316), and an edit made after it is committed untested. Its late
  save may also bring back the state VERIFIED of another phase, which a phase prepared
  meanwhile beside it completes with.
- `MCEngine` with `CommitsTestedWork`, where `Edit` sets `untested` whatever there is to trust.
  (a) An edit made while verify goes from the tests to the checkpoint is committed with
  what they passed on (engine/verify.go:93 to 134, engine/repo.go:357). (b) A COMPLETED
  project is edited; review, which looks only at the verdict on disk, saves VERIFIED
  (engine/review.go:103); the next prepare takes that up as an interrupted completion and
  commits the edit untested (engine/recover.go:32). Against docs/DEVELOPER_GUIDE.md:227, "No
  unverified implementation may be committed/pushed." The commit gate looks at flags,
  never at the tree.
- `MCEngine` with the invariant that an execution with an attempt has it from an incident
  of its own phase (`disk.ex.attempt > 0 => disk.inc.phase = disk.ex.phase`): a later
  phase's repairs go on with an earlier phase's incident, and count against its limit
  (engine/repair.go:78, which never renews one), against repair/repair.go:34: "Unrelated failures
  get a new incident." `ChainKeepsAttempts` is stated for the incident of one phase, so that
  code doing what the comment says would keep it too.
- A crash of `prdpr run` behind a worker it started without a packet leaves the worker's
  edits beside the evidence of the phase before: the next completion commits them
  (engine/prepare.go:90, engine/repo.go:389).
- `MCDelivery` with `EditOnBase = TRUE`: a push fails and the project waits; prepare
  checks out the base (engine/repo.go:132) and stops; verify fails there, and a
  repair is edited and committed on the base; the push of the feature branch,
  which is unchanged, is recorded as the phase's push.
- A first push of the base that fails is only recorded; nothing pushes the base
  later, since completion pushes the feature branch alone, and no pull request
  can be opened against it (engine/repo.go:475).
- A GitHub request in a project whose phase is in work leaves the node
  WAITING_FOR_HUMAN in `graph.json`; `Resume` answers in `state.json` only, and
  prepare refuses the waiting node from then on (engine/human.go:183).
- With `pr_boundary=run` and squash merges the branch stays ahead of the base by
  its original commits, so a later prepare of the finished project opens another pull request
  (engine/prepare.go:317, against docs/GIT_GITHUB.md:52).
- After a prepare in the middle of a runtime repair, the project is
  COMPLETED again with the repair uncommitted (engine/prepare.go:317). With three commits
  it is so although an earlier commit of the repair was never pushed: a crash comes
  between that commit and its push, the next verification fails, and prepare, which leaves a
  dirty tree alone and sends nothing (engine/repo.go:101), takes the completed
  phases for the whole and keeps push_status "pushed".

Further: a stale lock whose PID was given
to another live process is never recovered (lock.go:123); `prdpr review` leaves the project waiting without a request
(engine/review.go:101, against docs/USER_GUIDE.md:213), and `prdpr run` then starts
a worker without a packet (engine/prepare.go:90, engine/engine.go:269).

## Proofs

All proofs hold for every value of the constants, under the named
assumptions of the modules (`LockAssumption`: no process is called `Nobody`;
`PhaseAssumption`: there is at least one phase; `ProjectAssumption` and
`EngineAssumption`: the limits are numbers, the commands are the engine's, and
every phase of the graph is declared; `DeliveryAssumption`: the graph has no cycle
and the bounds are numbers; `ConfigsAssumption`: configurations are members of
`Config`; `IntakeAssumption`: products are members of `Product`, and documents and
calls name phases of `Phase`, which holds every identifier there is).

**ProjectLock_proofs**, any set of processes. `ExclusiveUnlessOverlap` is not
inductive: it says nothing about who is between system calls. `IInv` adds
`Undisturbed`: until two acquisitions overlap, at most one process is inside the
lock's code, the file is that process's own from its creation until its removal,
it has been written when it is held, and a second attempt is begun only when the
path is free. `IInvStep` treats each system call; exclusion, `HolderUndisturbed`
and `GiveUpOnlyUnderContention` follow from it (`Exclusion`, `HolderKeepsFile`,
`TwoAttemptsSuffice`), types from `TypeStep` (`TypeCorrect`).

**PhaseGraph_proofs**, any number of phases, any graph. Lemmas about `Refresh` (it
changes no started or finished phase and completes none, and a second pass
changes nothing), about the choice of a phase (every set of phases has a first, by
well-founded induction over the initial segments) and about rewinds.
`SourceExists`: in a graph without a cycle, among any phases one depends on none of
the others. A phase's dependencies have strictly more descendants than it has, and set
inclusion on finite sets is well-founded, so one with the most will do. All other proofs of
statuses use them.

**GraphWalk_proofs**. `StartedInOrder` is inductive because `Start` takes
READY phases, whose dependencies are complete by `Derive`, so the invariant also
says that a READY phase's dependencies are; a rewind keeps it because the phases
of the plan contain all dependents of their members, for which the least fixpoint
of `Descendants` is used. Whatever is current or asked for, the phase started was READY or
RUNNING (`StartPicks`).
`ReasonsMatchFile` (`ReasonsAreRight`) follows from `Settled`: whatever `persistGraph` is given has been
through a pass, so the reasons of one more pass are the reasons of its own statuses.
`SomethingToDo` (`NeverStuck`) applies `SourceExists` to the phases that are not
COMPLETED: one has all its dependencies done, and the pass that wrote the file made
it READY unless it is in work, failed or waiting.
Graphs may be partial (a PRD that drops a phase);
GraphWalk's has every phase, which its lemmas use.

**Engine_proofs**, any number of phases and crashes, any limit on attempts. A
handler is a sequence of writes computed from the files it finds, so the lemmas
say of each handler, by way of each helper it calls (`Save`, `WriteExecution`,
`MarkPhase`, ...), that the sequence is a `History`: every state of `.project/` on
the way is `Sound` (the incident's attempts are within the limit and cover the one
the execution carries; an incident of no phase has none; a packet has a phase), and
each `Follows` from the one before (no attempt is forgotten, and REPAIRING is
written only over a failed verification with an attempt spent). `IInv` says that
what the command at work has still to write is such a sequence from the files as
they are. Nothing else is needed for crashes, which drop the rest of it, and for
other writers, which come between commands or touch other files: `CommitSave` alone
writes `state.json` beside a command's end, and changes no attempt. `TypeCorrect`,
`AttemptsAreBounded`, `AttemptsAreKept` and `RepairsFollowFailures` follow. That a
packet has a phase is needed since the worker of a phase without name would mark
no node of the graph. The lemmas are stated for each handler, not for Engine's `Next`,
so that the loop's calls can use them.

Three more promises hold for some commands and crashes only. Each theorem names its
hypothesis, TLC shows what breaks without it, and each has an invariant of the same
form: what the command at work has still to write, and the files it will leave, are such
that a crash at any write does no harm.

- `CompletedIsVerified`, under `Guarded`: `AutoCommit`, no `prdpr commit`, and crashes of
  prepare and run either never or in runs of one crash. `CompletedWasVerified` alone is
  far from inductive, since a phase becomes COMPLETED on the strength of files written
  long before, by commands that did not look at each other's. `Backing` says what they owe each
  other: a COMPLETED phase, in `graph.json` or in `state.json`, has earned it
  (`Earned`: its verdict is recorded, or is on disk); an execution that is `verified` is, as far as
  `state.json` says, of such a phase (`v`); and a packet is of the phase of
  `state.json` unless that one has earned it (`a`). Both flags fail between two writes of some
  commands, which is why the invariant (`BackedJob`) speaks of each write to come, and
  why only one crash of a command that prepares is borne: it leaves `a` broken for the
  commands after it (`Strict`). `PersistVerifyBacks`, about the writes of a verdict and of the
  completion that follows it behind the commit gate, is the lemma the rest hangs on. The run
  `engine` is an instance.
- `WorkIsTestedFirst` (`CommitsTestedWork`), under `Attended`: no `prdpr commit` and no
  crash of run. A checkpoint looks at a flag and a verdict (`Credible`), not at the
  tree; `Caring` says that these are there, or still to be written, only while the tree has no
  untested work or is clean. Edits come at any moment: one that counts finds no evidence to
  commit on, in the files or in what the command has still to write, by the
  definition of `Trusted`, so what the proof shows is that no command, worker, crash or recovery makes
  evidence for work it has not tested. The run `engine` is an instance.
- `EngineImplementsPhaseOrder`, under `Orderly`: `AutoCommit`, neither `prdpr commit` nor
  repair, and no crash of prepare and run. The refinement needs that what has earned its
  completion is also due, however long the command that completes it comes after the one
  that started it. `Lining` says so: what a begun phase depends on is done; what has earned
  its completion has begun; and no begun phase rests on that of the packet, which is the only one
  that may be reopened. `Kept` says that no phase is as if it had never begun, so
  a verdict recorded in the middle of a command still is of a begun phase later; `Moves` says of
  two writes one after the other that they finish a due phase, reopen one or do neither, and
  never record a verdict at once, which is the step of `PhaseOrder`. Repair is left out because it may
  reopen the phase of `state.json`, whatever the packet is of (above). No run is an instance: `engine_human` has `prdpr commit` and a crash of
  run besides, with which the refinement is only model-checked. Without them TLC finds no error either,
  with three phases in a chain and with two independent ones and two crashes.

**Runtime_proofs**, the same, with `prdpr phase` and `prdpr runtime` beside the users.
The loop is one more caller, so Engine's invariant stays and is joined by the loop's
memory (`RInv`): the attempt it is going to record is one that the incident on disk
has counted already, the command at work on its behalf is the one it waits for, and
its last reply is one that command gives. The first part is the delicate one. The
loop keeps the number of an attempt in memory while its worker runs without the lock,
and another command, or another process' repair, may write `incident.json` in between;
the number stays covered because attempts are never forgotten, except when the runtime
takes the incident over, which also changes its kind. `LoopTypeOK`,
`AttemptsBounded`, `ChainKeepsAttempts` and `RepairOnlyFailures` are so proved of
`LoopSpec`, and `RepairsBounded` of `RuntimeSpec`, where `Turns` weakens `Follows` by
just that one turn.
`LoopCompletesVerified` and `RuntimeCompletesVerified` say that with these callers too
no phase is COMPLETED without a verdict VERIFIED of its own: Engine's `BackedJob`, joined to
`RInv`, is kept by each call of the loop at whatever files other commands have left
for it, by its record of an attempt, by its questions and by both commands of the
runtime. They hold under Engine's `Guarded`; a crash of the loop between two calls counts
as one of the crashes, and may come when no more of prepare or run are borne, since
the files are settled then (`JobWeaker`). For the runtime moreover `NoRuntimeAnswer`:
no `prdpr resume`, which with feedback does complete an unverified phase (above). The run
`loop_runtime` is an instance.

**Intake_proofs**, any documents, edits, products and dependency graphs. `VerdictOfPacket` is
about the operators alone: `PacketTexts` says that the planner hands on exactly the
texts of the phase, `PlanOfPacket` which kinds of checks the plan then has,
`OutcomeWhenTestsPass` what each comes to, `FinalVerdict` what they come to together; the theorem
splits on whether the product can be tested and its tests pass.
`VerdictMeansFulfilled` carries it to every state: that the packet is the planner's
for the document it records (`PacketFromSource`) is inductive, and each action keeps
the packet, removes it, or makes it anew (`PacketStep`).
The files beside the PRD have an invariant of three parts: `GraphOK` (graph.json has
statuses for exactly its own phases, each with dependencies among them), `ReadingOK` (what a prepare has read
so far was free of errors when it was read, and accepted by the gate if nobody has
edited since) and `RestOK` (types). `StartsInOrder`, `CompletedSurvivesEdits` and
`PacketsAreSound` follow from it and the lemmas about a pass, for graphs that change
under their statuses (`PhasesStartInOrder`, `CompletedIsKept`,
`PacketsComeFromValidPRDs`).

**Delivery_proofs**, any graph, configuration and number of commits, pull requests and
crashes. `MergeRecordIsTrue` is not inductive: reconciliation learns of a merge in the
command's copy of state.json, a later step saves the copy, and between the two the
copy must not turn to another pull request, which would inherit the word. The
invariant therefore speaks of the steps the command has left. `Unsaved` names a copy
that says merged while the file does not; then the pull request it names is merged,
and the plan is `Shielded`: it saves before any step that may open a pull request or
plan to. `Planned` says the same of what follows each reconciliation still to come.
The lemmas on sequences show that putting steps before a plan, taking its first step
and giving a completion up keep this, and there is a lemma for each plan the code
has. People only take a pull request from open to merged or closed, never back.

The second half is about what a phase is completed with. Between the tests of a phase and the step that marks
it COMPLETED lie a commit, a push, a delivery, possibly a crash, a wait for a human and
a recovery in another command, and `CompletesCommitted` looks at that last step only.
Its invariant `WorkOK` says how the verdict is carried there. In the files: a
verification is that of a packet, and of work that is in the tree or committed, and
VERIFIED is said of a verified phase only. In the plan: while the tree is dirty, a
checkpoint comes before the mark; without a verification no step of a completion is left;
what is VERIFIED is completed, or taken back by a recovery, before a phase is chosen, and
what comes after a completion completes nothing. In the copy: it is of the phase of
`state.json` until it is saved. `UsualStep` shows that a step which keeps the phase
and says nothing new of it keeps all that; recovery, tests, choices, and a push
that fails and gives the completion up each have a lemma of their own. `TypeOK` is part
of the same induction, since a commit needs a phase, and a merge needs work to
merge (`OpenHasWork`: an open pull request has a branch that is not empty).

**DeliveryPush_proofs**, the same, under the hypothesis `~EditOnBase` (workers edit on the
feature branch; without it the property fails, above). `PushRecordIsTrue` is about the
record at rest; what makes it true are the steps that lead there, and two things had
to be found for an inductive invariant. *Branches* (`Branching`): the commits are
numbered as they are made, and the feature branch has all of them, GitHub's the first
few, so equal tips mean equal branches (`TipsAreRight`). On a base it is different: everything
there came with a merge that is as late (`Sealed`), so the tip of a base is a merge,
never a commit of the feature branch, and git never takes for pushed a copy that
records it once GitHub has work. *Copies* (`CopyIsRight`, of the file and of the copy in the command):
where git would say of a copy that its commit is pushed (`Sent`), everything is on GitHub
(`Honest`). The exception is a verification under way or broken off on a clean tree,
whose copy may record an old tip until the next tests, checkpoint or preparation
writes it anew; and a copy that says WAITING over a verified execution is one `Resume` may turn to VERIFIED,
so it must be `Deliverable`: it has a commit of its own still to send, or git is right.
Because a command works on its copy for many steps, the rest is said of its plan
(`Fits`): where a phase is to be marked without a commit or a push to come, all the work is on
GitHub or there is no remote (`Calm`); before a push what is pushed is deliverable (`Pushes`), and
before a checkpoint what the tests found (`Checks`). The lemmas follow the actions:
steps beside the feature branch (`Beside`) can only add to what is on GitHub, a commit makes a
tip GitHub does not have (`CommitStep`), a push gives everything (`PushGives`), a
push that fails stops the completion (`PushFails`). A dirty tree is outside the property at
rest, but not outside the invariant: an interrupted repair of a finished project is dirty
and has a packet, and what prepare does to it is a case of `SelectNoneRight`.

Only model-checked, and why:

- Liveness (`LockReturns`, `StaleLockRecovered`, `WalkFinishes`, `LoopReturns`,
  `GraphCompletes`), which is beyond the prover.
- `OrdersRespectDependencies`, `RefreshIsOnePass`, `CyclesAgree` and what of
  `GateAgreesWithGraph` and `ValidCanStart` rests on the searches: they are about what
  folds and recursive searches compute, an induction over data.
- `ImplementsPhaseOrder` with `prdpr commit` and a crash of run (`engine_human`).
- `WalkGoesForward`, `CompletedStays` and `LeavesRequest`, which depend on what the
  users beside the loop may call (`Commands`) and on who may crash (`Crashes`).

## Not modelled

- Delivery: cloning a repository, branch rulesets, `pr_boundary=never`, rebase merges,
  approvals, merge conflicts, pushes by others to the feature branch, an answer of
  GitHub that is lost after a merge (other than as a crash), a new record of HEAD for a phase
  whose commit is not the latest (engine/repo.go:346), and liveness. With the default
  configuration GitHub is off: the other models show what that engine does.
- PRD: splitting Markdown into sections and items, and the expressions that look for a
  phrase; the models start from parsed documents.
- Runtime: the start after the last phase and after `resume`, which leaves no trace but
  in reports; the process and its logs.
- Engine: self-development runs, credentials, budgets; the event log, which no decision
  reads; writes that fail without a crash.
- The contents of prompts, of repair packets and of diagnoses; redaction, the file guard,
  notifications, knowledge, studio, printing: text and I/O on which no modelled decision
  depends.
- The model router and the LLM: no classification the engine makes asks a model.
- `prdpr bootstrap`: creates the product's directory before the engine runs.

PROJECT.json lists every package with its status.

## Plan

Done: the modules and proofs above. What would add most next, in this order:

1. What of the refinement of `PhaseOrder` survives repair (a completion step has
   its evidence, if not its order) as a theorem about Engine.
2. The loop's properties under a hypothesis on `Commands` and `Crashes`, once runs with
   more crashes have confirmed it.
3. Liveness of Delivery (verified work is pushed and its pull request opened in the
   end) under fairness of its steps and of an operator who keeps preparing, on a
   smaller instance; Delivery composed with the loops.
4. Rulesets; the model router against a reference definition.
