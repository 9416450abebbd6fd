------------------------ MODULE DeliveryPush_proofs -------------------------
(***************************************************************************)
(* A proof, for any graph, configuration that keeps merged branches,       *)
(* number of commits, of pull requests and of crashes, that what           *)
(* state.json records as completed and pushed is on GitHub, with workers   *)
(* that edit on the feature branch.                                        *)
(*                                                                         *)
(* The record is made in one command and read in another, and it is about  *)
(* a push in a third.  Whether git takes the branch for pushed depends on  *)
(* the commit recorded, which the tests, a checkpoint, the preparation of  *)
(* the repository and the choice of a phase each write from another        *)
(* branch.  So the invariant is about what git would say of every copy of  *)
(* state.json, in the file and in the command at work: where it would say  *)
(* pushed, all the work is on GitHub.  What a plan still does decides what *)
(* its copy may say meanwhile: before a phase is marked there must be a    *)
(* push to come, or nothing to push.                                       *)
(***************************************************************************)
EXTENDS Delivery_proofs

-----------------------------------------------------------------------------
\* Branches

\* The work of the first k commits is these, and the last is their tip.
LEMMA FirstCommits ==
  ASSUME NEW k \in 0 .. MaxCommits
  PROVE  /\ Work(1 .. k) = 1 .. k
         /\ k # 0 => Max(1 .. k) = k
         /\ Tip(1 .. k) = k
<1>1. MaxCommits \in Nat BY DeliveryAssumption
<1> DEFINE S == 1 .. k
<1>2. \A c \in S : Distance(c) = c /\ -c \notin S BY <1>1 DEF Distance
<1>3. Work(S) = S BY <1>2 DEF Work
<1>4. k = 0 => S = {} BY <1>1
<1>5. k # 0 => S # {} /\ k \in S BY <1>1
<1>6. S \in SUBSET (0 .. MaxCommits) /\ \A c \in S : c \in Int /\ c <= k BY <1>1
<1> HIDE DEF S
<1>7. k # 0 => Max(S) = k
  <2> SUFFICES ASSUME k # 0 PROVE Max(S) = k OBVIOUS
  <2> DEFINE m == Max(S)
  <2>1. m \in S /\ m >= k BY <1>5, <1>6, MaxIsElement
  <2> HIDE DEF m
  <2>2. m \in Int /\ m <= k BY <1>6, <2>1
  <2>3. m = k BY <1>1, <2>1, <2>2
  <2> QED BY <2>3 DEF m
<1>8. Tip(S) = k
  <2>1. CASE k = 0
    <3>1. S = {} BY <1>4, <2>1
    <3> QED BY <2>1, <3>1 DEF Tip
  <2>2. CASE k # 0 BY <1>2, <1>3, <1>5, <1>7, <2>2 DEF Tip
  <2> QED BY <2>1, <2>2
<1> QED BY <1>3, <1>7, <1>8 DEF S

\* What is on the base came with a merge that is as late as it.
Sealed(b) == \A c \in b : \E d \in b : d < 0 /\ Distance(d) >= Distance(c)

\* So the tip of the base is a merge, or the initial commit.
LEMMA TipOfBase ==
  ASSUME NEW b \in SUBSET Sha, Sealed(b)
  PROVE  Tip(b) \in Int /\ Tip(b) <= 0
<1> DEFINE m == Max(Work(b))
<1>1. MaxCommits \in Nat BY DeliveryAssumption
<1>2. Work(b) \in SUBSET (0 .. MaxCommits) /\ (Work(b) = {} <=> b = {}) BY Branches
<1>3. Tip(b) = IF b = {} THEN 0 ELSE IF -m \in b THEN -m ELSE m BY DEF Tip
<1>4. CASE b # {}
  <2>1. m \in Work(b) /\ \A n \in Work(b) : m >= n BY <1>2, <1>4, MaxIsElement
  <2> HIDE DEF m
  <2>2. PICK c \in b : m = Distance(c) BY <2>1 DEF Work
  <2>3. PICK d \in b : d < 0 /\ Distance(d) >= Distance(c) BY DEF Sealed
  <2>4. d \in Int /\ Distance(d) = -d BY <1>1, <2>3 DEF Sha, Distance
  <2>5. Distance(d) \in Work(b) BY DEF Work
  <2>6. m \in 0 .. MaxCommits BY <1>2, <2>1
  <2>7. m = -d BY <1>1, <2>1, <2>2, <2>3, <2>4, <2>5, <2>6
  <2>8. -m = d BY <2>4, <2>7
  <2> QED BY <1>3, <1>4, <2>3, <2>4, <2>8
<1> QED BY <1>3, <1>4

\* A merge seals the base, with the first k commits on the branch.
LEMMA MergeSeals ==
  ASSUME NEW b \in SUBSET Sha, Sealed(b), NEW k \in 1 .. MaxCommits
  PROVE  LET new == (1 .. k) \ b
         IN  /\ Sealed(b \cup {-Distance(c) : c \in new})
             /\ Sealed(b \cup (new \cup {-Max(Work(1 .. k))}))
<1>1. MaxCommits \in Nat BY DeliveryAssumption
<1> DEFINE new == (1 .. k) \ b
<1>2. \A c \in new : Distance(c) = c /\ c > 0 /\ c \in Int /\ c <= k BY <1>1 DEF Distance
<1> HIDE DEF new
<1>3. Max(Work(1 .. k)) = k
  <2>1. k \in 0 .. MaxCommits /\ k # 0 BY <1>1
  <2> QED BY <2>1, FirstCommits
<1>4. Sealed(b \cup {-Distance(c) : c \in new})
  <2> DEFINE s == {-Distance(c) : c \in new}
  <2>1. \A x \in s : x < 0 /\ Distance(x) >= Distance(x)
    BY <1>2 DEF Distance
  <2> QED BY <2>1 DEF Sealed
<1>5. Sealed(b \cup (new \cup {-k}))
  <2>1. -k < 0 /\ Distance(-k) = k BY <1>1 DEF Distance
  <2>2. \A c \in new : Distance(-k) >= Distance(c) BY <1>1, <1>2, <2>1
  <2>3. Distance(-k) >= Distance(-k) BY <1>1, <2>1
  <2> QED BY <2>1, <2>2, <2>3 DEF Sealed
<1> QED BY <1>3, <1>4, <1>5 DEF new

-----------------------------------------------------------------------------
\* The invariant
\*
\* Of the tree t, of GitHub's branches r, of the commits made m, of the files f
\* and of a copy st of state.json.

\* All commits made.  They are on GitHub; or some are, as the feature branch there.
Made(m) == UNION {m[p] : p \in Phase}
Synced(t, r) == t.feature \subseteq Work(r.base) \cup Work(r.feature)
Started(r, m) == Made(m) # {} /\ ("feature" \in r.refs => r.feature # {})

\* Git takes the recorded feature branch for pushed, and is right.
Sent(st, r) == "feature" \in r.refs /\ Tip(r.feature) = st.commit
Honest(st, t, r, m) == Sent(st, r) /\ Started(r, m) => Synced(t, r)

\* What is VERIFIED may be completed when git is right about it: with a commit of
\* its own, or one that is there.
Deliverable(st, t, r, m) ==
  /\ Sent(st, r) => Synced(t, r) /\ ~t.dirty
  /\ st.phase \in st.checkpoints \/ Started(r, m)

\* The commits are those of the feature branch, of which GitHub has the first ones;
\* nothing is on the base that was not merged to it; edits are on the feature branch.
Branching(t, r, m) ==
  /\ t.dirty => t.head = "feature"
  /\ t.head = "feature" => t.branch
  /\ t.feature = Made(m) /\ \E n \in 0 .. MaxCommits : Made(m) = 1 .. n
  /\ r.feature \subseteq Made(m) /\ \E k \in 0 .. MaxCommits : r.feature = 1 .. k
  /\ ~t.branch => Made(m) = {} /\ t.base = {} /\ r.base = {}
  /\ Sealed(t.base) /\ Sealed(r.base)
  /\ t.base \cup r.base # {} => r.feature # {}
  /\ r.refs # {} => r.exists
  /\ "feature" \notin r.refs => r.feature = {}

\* What state.json says is so.  Where the commit it records may be an old one, a
\* verification is under way or was broken off.
Unsettled == {"VERIFYING", "CLAIMED_DONE", "INCOMPLETE"}
CopyIsRight(st, f, t, r, m) ==
  /\ st.phase # NoPhase \/ Made(m) # {} => st.branch
  /\ st.push = "pushed" => r.exists
  /\ t.dirty \/ st.cur \notin Unsettled => Honest(st, t, r, m)
  /\ st.cur = "WAITING" /\ f.verified => Deliverable(st, t, r, m)
  /\ st.cur = "COMPLETED" => Started(r, m)
  /\ st.cur = "COMPLETED" /\ st.push = "pushed" /\ ~(t.dirty /\ f.packet) => Synced(t, r)

FilesAreRight(d, f, t, r, m) ==
  /\ CopyIsRight(d, f, t, r, m)
  /\ d.cur = "VERIFIED" => Deliverable(d, t, r, m)
  /\ t.dirty /\ ~f.packet => ~AllCompleted(f.node)
  /\ (\E p \in Phase : f.node[p] = "COMPLETED") => Started(r, m)

\* A plan, by the set T of its steps: without a commit or a push to come, all the
\* work is on GitHub before a phase is marked, and whatever is chosen after the
\* repository has been prepared, git is right about what there is.
Loud == {"checkpoint", "push", "recover", "tests", "delete remote", "delete local"}
Marking == {"graph", "complete"}
Calm(T, st, d, t, r, m) ==
  /\ T \cap Loud = {}
  /\ T \cap Marking # {} => ~t.dirty /\ Made(m) # {} /\ (Synced(t, r) \/ ~r.exists)
  /\ st.cur = "VERIFIED" => Deliverable(st, t, r, m)
  /\ "initial push" \in T => ~t.dirty
  /\ "back" \in T => t.branch
  /\ "select" \in T /\ "bootstrap" \notin T =>
       /\ Honest(st, t, r, m)
       /\ ~t.dirty /\ "initial push" \notin T /\ st.push = "pushed" /\ Started(r, m) =>
            Synced(t, r)
       /\ t.dirty /\ d.cur = "COMPLETED" /\ d.push = "pushed" => Synced(t, r)
  /\ "select" \in T /\ st.cur = "COMPLETED" /\ st.push = "pushed" => Synced(t, r)

\* What comes after a push, with what is pushed, and after a commit.
Closing(T) ==
  /\ T \subseteq {"deliver", "graph", "complete", "reconcile", "save", "bootstrap", "select"}
  /\ "select" \in T => "bootstrap" \in T
  /\ "graph" \in T => "complete" \in T
Pushes(T, st, d, t, r, m) ==
  /\ Closing(T)
  /\ IF T \cap Marking # {} THEN ~t.dirty /\ Made(m) # {} /\ Deliverable(st, t, r, m)
     ELSE d.cur = "COMPLETED" /\ st.cur = "COMPLETED"
Checks(T, st, d, t, r, m) ==
  /\ Closing(T) /\ "graph" \in T
  /\ d.cur \in {"VERIFYING", "VERIFIED"}
  /\ ~t.dirty => /\ Sent(st, r) => Synced(t, r)
                 /\ \/ st.phase \in st.checkpoints \/ Started(r, m)
                    \/ t.head = "feature"

\* The steps of a plan, and a plan that fits.
Of(todo) == {todo[i] : i \in 1 .. Len(todo)}
Fits(todo, st, d, t, r, m) ==
  /\ Head(todo) = "push" => Pushes(Of(Tail(todo)), st, d, t, r, m)
  /\ Head(todo) = "checkpoint" =>
       /\ Tail(todo) # << >> /\ Head(Tail(todo)) = "push"
       /\ Checks(Of(Tail(Tail(todo))), st, d, t, r, m)
  /\ Head(todo) = "recover" =>
       /\ st = d
       /\ Of(Tail(todo)) \subseteq {"bootstrap", "select", "save"}
       /\ "select" \in Of(Tail(todo)) => "bootstrap" \in Of(Tail(todo))
  /\ Head(todo) = "tests" =>
       Tail(todo) = << >> /\ d.cur = "VERIFYING" /\ st.cur = "VERIFYING"
  /\ Head(todo) \notin {"push", "checkpoint", "recover", "tests"} =>
       Calm(Of(todo), st, d, t, r, m)
PlanIsRight(todo, st, d, f, t, r, m) ==
  todo # << >> =>
    /\ CopyIsRight(st, f, t, r, m)
    /\ NoneAfter(todo, {"bootstrap", "complete"}, Marking)
    /\ Fits(todo, st, d, t, r, m)

PushOK == /\ Branching(tree, remote, made)
          /\ FilesAreRight(disk, files, tree, remote, made)
          /\ PlanIsRight(job.todo, job.st, disk, files, tree, remote, made)
PInv == WInv /\ (~config.delete => PushOK)

\* The hypothesis of what follows: merged branches are kept.
Sound == WInv /\ PushOK /\ ~config.delete /\ ~EditOnBase

-----------------------------------------------------------------------------
\* The steps of a plan

\* The steps of a plan are those of its parts.
LEMMA OfPlans ==
  /\ Of(<< >>) = {}
  /\ \A x : Of(<<x>>) = {x}
  /\ \A s \in Steps, t \in Steps : Of(s \o t) = Of(s) \cup Of(t)
  /\ \A t \in Steps : t # << >> => Of(t) = {Head(t)} \cup Of(Tail(t))
<1>1. Of(<< >>) = {} BY DEF Of
<1>2. ASSUME NEW x PROVE Of(<<x>>) = {x}
  <2>1. Len(<<x>>) = 1 /\ <<x>>[1] = x OBVIOUS
  <2>2. 1 .. 1 = {1} OBVIOUS
  <2> QED BY <2>1, <2>2 DEF Of
<1>3. ASSUME NEW s \in Steps, NEW t \in Steps PROVE Of(s \o t) = Of(s) \cup Of(t)
  <2> DEFINE u == s \o t
  <2>1. /\ Len(u) = Len(s) + Len(t) /\ Len(s) \in Nat /\ Len(t) \in Nat
        /\ \A i \in 1 .. Len(s) : u[i] = s[i]
        /\ \A i \in 1 .. Len(t) : u[i + Len(s)] = t[i]
    BY ConcatIndex
  <2> HIDE DEF u
  <2>2. ASSUME NEW i \in 1 .. Len(u) PROVE u[i] \in Of(s) \cup Of(t)
    <3>1. CASE i \in 1 .. Len(s) BY <2>1, <3>1 DEF Of
    <3>2. CASE i \notin 1 .. Len(s)
      <4> DEFINE a == i - Len(s)
      <4>1. a \in 1 .. Len(t) /\ a + Len(s) = i BY <2>1, <3>2
      <4> HIDE DEF a
      <4> QED BY <2>1, <4>1 DEF Of
    <3> QED BY <3>1, <3>2
  <2>3. ASSUME NEW i \in 1 .. Len(s) PROVE s[i] \in Of(u)
    <3>1. i \in 1 .. Len(u) BY <2>1
    <3> QED BY <2>1, <3>1 DEF Of
  <2>4. ASSUME NEW i \in 1 .. Len(t) PROVE t[i] \in Of(u)
    <3>1. i + Len(s) \in 1 .. Len(u) BY <2>1
    <3> QED BY <2>1, <3>1 DEF Of
  <2> QED BY <2>2, <2>3, <2>4 DEF Of, u
<1>4. ASSUME NEW t \in Steps, t # << >> PROVE Of(t) = {Head(t)} \cup Of(Tail(t))
  <2> DEFINE z == Tail(t)
  <2>1. /\ Len(z) = Len(t) - 1 /\ Len(t) \in Nat /\ Len(t) >= 1
        /\ Head(t) = t[1] /\ \A i \in 1 .. Len(z) : z[i] = t[i + 1]
    BY <1>4, TailIndex
  <2> HIDE DEF z
  <2>2. ASSUME NEW i \in 1 .. Len(t) PROVE t[i] \in {Head(t)} \cup Of(z)
    <3>1. CASE i = 1 BY <2>1, <3>1
    <3>2. CASE i # 1
      <4> DEFINE a == i - 1
      <4>1. a \in 1 .. Len(z) /\ a + 1 = i BY <2>1, <3>2
      <4> HIDE DEF a
      <4> QED BY <2>1, <4>1 DEF Of
    <3> QED BY <3>1, <3>2
  <2>3. ASSUME NEW i \in 1 .. Len(z) PROVE z[i] \in Of(t)
    <3>1. i + 1 \in 1 .. Len(t) BY <2>1
    <3> QED BY <2>1, <3>1 DEF Of
  <2>4. Head(t) \in Of(t)
    <3>1. 1 \in 1 .. Len(t) BY <2>1
    <3> QED BY <2>1, <3>1 DEF Of
  <2> QED BY <2>2, <2>3, <2>4 DEF Of, z
<1> QED BY <1>1, <1>2, <1>3, <1>4

\* What does not occur in a plan, and where that leaves its order.
LEMMA NotOf ==
  ASSUME NEW t \in Steps, NEW S
  PROVE  /\ None(t, S) <=> Of(t) \cap S = {}
         /\ Of(t) \cap S = {} => \A T : NoneAfter(t, S, T) /\ NoneAfter(t, T, S)
<1>1. None(t, S) <=> Of(t) \cap S = {} BY DEF None, Of
<1>2. ASSUME None(t, S), NEW T PROVE NoneAfter(t, S, T) /\ NoneAfter(t, T, S)
  <2>1. Len(t) \in Nat BY DEF Steps
  <2>2. \A i \in 1 .. Len(t) : \A k \in (i + 1) .. Len(t) : k \in 1 .. Len(t) BY <2>1
  <2> QED BY <1>2, <2>2 DEF None, NoneAfter
<1> QED BY <1>1, <1>2

\* What the plan of the command at work is.
LEMMA CurrentPlan ==
  ASSUME Sound, job.todo # << >>
  PROVE  /\ job.todo \in Steps /\ Tail(job.todo) \in Steps
         /\ Of(job.todo) = {Head(job.todo)} \cup Of(Tail(job.todo))
         /\ NoneAfter(Tail(job.todo), {"bootstrap", "complete"}, Marking)
         /\ Head(job.todo) \in {"bootstrap", "complete"} => Of(Tail(job.todo)) \cap Marking = {}
         /\ Fits(job.todo, job.st, disk, tree, remote, made)
         /\ CopyIsRight(job.st, files, tree, remote, made)
<1>1. job.todo \in Steps BY DEF Sound, WInv, WorkOK, PlanOK
<1>2. Tail(job.todo) \in Steps BY <1>1, TailIndex
<1>3. /\ CopyIsRight(job.st, files, tree, remote, made)
      /\ NoneAfter(job.todo, {"bootstrap", "complete"}, Marking)
      /\ Fits(job.todo, job.st, disk, tree, remote, made)
  BY DEF Sound, PushOK, PlanIsRight
<1>4. /\ NoneAfter(Tail(job.todo), {"bootstrap", "complete"}, Marking)
      /\ Head(job.todo) \in {"bootstrap", "complete"} => None(Tail(job.todo), Marking)
  BY <1>1, <1>3, NoneAfterTail
<1>5. None(Tail(job.todo), Marking) => Of(Tail(job.todo)) \cap Marking = {} BY <1>2, NotOf
<1>6. Of(job.todo) = {Head(job.todo)} \cup Of(Tail(job.todo)) BY <1>1, OfPlans
<1> QED BY <1>1, <1>2, <1>3, <1>4, <1>5, <1>6

\* A plan that is calm.
LEMMA CalmNow ==
  ASSUME Sound, job.todo # << >>,
         Head(job.todo) \notin {"push", "checkpoint", "recover", "tests"}
  PROVE  Calm(Of(job.todo), job.st, disk, tree, remote, made)
BY CurrentPlan DEF Fits

\* The command goes on with such a plan.
LEMMA GoesOnRight ==
  ASSUME Sound, NEW steps, NEW st, GoOn(steps, st),
         PlanIsRight(steps \o Tail(job.todo), st, disk', files', tree', remote', made')
  PROVE  PlanIsRight(job'.todo, job'.st, disk', files', tree', remote', made')
<1> DEFINE todo == steps \o Tail(job.todo)
<1>1. CASE todo = << >>
  <2>1. job'.todo = << >> BY <1>1 DEF GoOn, NoJob
  <2> QED BY <2>1 DEF PlanIsRight
<1>2. CASE todo # << >>
  <2>1. job' = [job EXCEPT !.todo = todo, !.st = st] BY <1>2 DEF GoOn
  <2>2. DOMAIN job = DOMAIN NoJob
    <3>1. IInv BY DEF Sound, WInv
    <3> QED BY <3>1, CopyOK
  <2>3. "todo" \in DOMAIN NoJob /\ "st" \in DOMAIN NoJob BY DEF NoJob
  <2>4. job'.todo = todo /\ job'.st = st BY <2>1, <2>2, <2>3
  <2> QED BY <2>4
<1> QED BY <1>1, <1>2

\* No command is at work.
LEMMA IdleRight ==
  ASSUME job' = NoJob
  PROVE  PlanIsRight(job'.todo, job'.st, disk', files', tree', remote', made')
BY DEF PlanIsRight, NoJob

-----------------------------------------------------------------------------
\* What follows from the invariant

\* Git is right about the tip of the feature branch, and takes no tip of the base
\* for pushed when there is work on GitHub.
LEMMA TipsAreRight ==
  ASSUME NEW t \in Tree, NEW r \in Remote, NEW m, Branching(t, r, m), NEW st
  PROVE  /\ st.commit = Tip(t.feature) /\ Sent(st, r) => Synced(t, r)
         /\ st.commit = Tip(t.base) /\ Sent(st, r) => r.feature = {}
<1>1. PICK n \in 0 .. MaxCommits : t.feature = 1 .. n BY DEF Branching
<1>2. PICK k \in 0 .. MaxCommits : r.feature = 1 .. k BY DEF Branching
<1>3. /\ Work(1 .. n) = 1 .. n /\ Tip(1 .. n) = n
      /\ Work(1 .. k) = 1 .. k /\ Tip(1 .. k) = k
  BY FirstCommits
<1>4. ASSUME st.commit = Tip(t.feature), Sent(st, r) PROVE Synced(t, r)
  <2>1. n = k BY <1>1, <1>2, <1>3, <1>4 DEF Sent
  <2> QED BY <1>1, <1>2, <1>3, <2>1 DEF Synced
<1>5. ASSUME st.commit = Tip(t.base), Sent(st, r) PROVE r.feature = {}
  <2>1. t.base \in SUBSET Sha /\ Sealed(t.base) BY DEF Tree, Branching
  <2>2. Tip(t.base) \in Int /\ Tip(t.base) <= 0 BY <2>1, TipOfBase
  <2>3. k = Tip(t.base) BY <1>2, <1>3, <1>5 DEF Sent
  <2>4. MaxCommits \in Nat BY DeliveryAssumption
  <2>5. k = 0 BY <2>2, <2>3, <2>4
  <2>6. \A x \in 1 .. 0 : FALSE OBVIOUS
  <2> QED BY <1>2, <2>5, <2>6
<1> QED BY <1>4, <1>5

\* Where a phase is marked, work has begun to reach GitHub, if there is one.
LEMMA MarkingStarted ==
  ASSUME NEW t, NEW r, NEW m, Branching(t, r, m),
         Made(m) # {}, Synced(t, r) \/ ~r.exists
  PROVE  Started(r, m)
<1>1. CASE r.refs = {} BY <1>1 DEF Started
<1>2. CASE r.refs # {}
  <2>1. Synced(t, r) /\ t.feature # {} BY <1>2 DEF Branching
  <2>2. r.base # {} \/ r.feature # {} BY <2>1 DEF Synced, Work
  <2>3. r.feature # {} BY <2>2 DEF Branching
  <2> QED BY <2>3 DEF Started
<1> QED BY <1>1, <1>2

\* A copy that says no more and no less.
Same(a, b) == /\ a.cur = b.cur /\ a.phase = b.phase /\ a.commit = b.commit
              /\ a.checkpoints = b.checkpoints /\ a.branch = b.branch /\ a.push = b.push

LEMMA SameIsRight ==
  ASSUME NEW a, NEW b, Same(a, b), NEW d, NEW f, NEW t, NEW r, NEW m
  PROVE  /\ CopyIsRight(a, f, t, r, m) => CopyIsRight(b, f, t, r, m)
         /\ Deliverable(a, t, r, m) => Deliverable(b, t, r, m)
         /\ Honest(a, t, r, m) => Honest(b, t, r, m)
         /\ \A T : Calm(T, a, d, t, r, m) => Calm(T, b, d, t, r, m)
<1>1. Sent(a, r) <=> Sent(b, r) BY DEF Sent, Same
<1>2. Deliverable(a, t, r, m) <=> Deliverable(b, t, r, m) BY <1>1 DEF Deliverable, Same
<1>3. Honest(a, t, r, m) <=> Honest(b, t, r, m) BY <1>1 DEF Honest
<1>4. CopyIsRight(a, f, t, r, m) => CopyIsRight(b, f, t, r, m)
  BY <1>2, <1>3 DEF CopyIsRight, Same
<1>5. ASSUME NEW T, Calm(T, a, d, t, r, m) PROVE Calm(T, b, d, t, r, m)
  BY <1>2, <1>3, <1>5 DEF Calm, Same
<1> QED BY <1>2, <1>3, <1>4, <1>5

\* What happens beside the feature branch: it stays as it is, here and there, and
\* nothing goes from the base.
Beside(t, r, u, s) ==
  /\ u.feature = t.feature /\ u.dirty = t.dirty
  /\ s.feature = r.feature /\ ("feature" \in s.refs <=> "feature" \in r.refs)
  /\ Work(r.base) \subseteq Work(s.base)
  /\ r.exists => s.exists

LEMMA BesideIsRight ==
  ASSUME NEW t, NEW r, NEW u, NEW s, Beside(t, r, u, s), NEW m, NEW f, NEW g,
         g.packet = f.packet, g.verified => f.verified, NEW st
  PROVE  /\ Synced(t, r) => Synced(u, s)
         /\ Started(r, m) <=> Started(s, m)
         /\ Sent(st, r) <=> Sent(st, s)
         /\ Honest(st, t, r, m) => Honest(st, u, s, m)
         /\ Deliverable(st, t, r, m) => Deliverable(st, u, s, m)
         /\ CopyIsRight(st, f, t, r, m) => CopyIsRight(st, g, u, s, m)
<1>1. Synced(t, r) => Synced(u, s) BY DEF Synced, Beside
<1>2. Started(r, m) <=> Started(s, m) BY DEF Started, Beside
<1>3. Sent(st, r) <=> Sent(st, s) BY DEF Sent, Beside
<1>4. Honest(st, t, r, m) => Honest(st, u, s, m) BY <1>1, <1>2, <1>3 DEF Honest
<1>5. Deliverable(st, t, r, m) => Deliverable(st, u, s, m)
  BY <1>1, <1>2, <1>3 DEF Deliverable, Beside
<1>6. CopyIsRight(st, f, t, r, m) => CopyIsRight(st, g, u, s, m)
  BY <1>1, <1>2, <1>4, <1>5 DEF CopyIsRight, Beside
<1> QED BY <1>1, <1>2, <1>3, <1>4, <1>5, <1>6

\* A calm plan stays calm, and so does what is left of it, or some of that.
LEMMA BesideCalm ==
  ASSUME NEW t, NEW r, NEW u, NEW s, Beside(t, r, u, s), s.exists = r.exists,
         t.branch => u.branch, NEW m, NEW st, NEW d, NEW T, Calm(T, st, d, t, r, m)
  PROVE  Calm(T, st, d, u, s, m)
<1>1. /\ Synced(t, r) => Synced(u, s)
      /\ Started(r, m) <=> Started(s, m)
      /\ Honest(st, t, r, m) => Honest(st, u, s, m)
      /\ Deliverable(st, t, r, m) => Deliverable(st, u, s, m)
  BY BesideIsRight
<1>2. u.dirty = t.dirty BY DEF Beside
<1> QED BY <1>1, <1>2 DEF Calm

-----------------------------------------------------------------------------
\* Steps beside the feature branch

\* What is at hand.
LEMMA Now ==
  ASSUME Sound
  PROVE  /\ WInv /\ tree \in Tree /\ remote \in Remote /\ made \in [Phase -> SUBSET Commit]
         /\ job.st \in State /\ disk \in State
         /\ files \in [node : [Phase -> Status], packet : BOOLEAN, verified : BOOLEAN]
         /\ Branching(tree, remote, made)
         /\ FilesAreRight(disk, files, tree, remote, made)
         /\ {"base", "feature"} = Branch
BY Given DEF Sound, PushOK, Tree, Remote, Branch

\* Loud steps apart, none is first.
LEMMA Quiet ==
  ASSUME Sound, job.todo # << >>, Head(job.todo) \in {"delete remote", "delete local"}
  PROVE  FALSE
<1>1. Calm(Of(job.todo), job.st, disk, tree, remote, made) BY CalmNow
<1>2. Head(job.todo) \in Of(job.todo) BY CurrentPlan
<1> QED BY <1>1, <1>2 DEF Calm, Loud

\* The branches stay in order when the feature branch stays as it is, here and there.
LEMMA BesideBranching ==
  ASSUME NEW t, NEW r, NEW m, Branching(t, r, m), NEW u, NEW s,
         u.feature = t.feature, s.feature = r.feature,
         "feature" \in s.refs <=> "feature" \in r.refs,
         t.branch => u.branch,
         u.head = "feature" => u.branch, u.dirty => u.head = "feature",
         Sealed(u.base), Sealed(s.base), u.base \cup s.base # {} => r.feature # {},
         s.refs # {} => s.exists
  PROVE  Branching(u, s, m)
<1>1. r.feature # {} => t.branch BY DEF Branching
<1> QED BY <1>1 DEF Branching

\* A merge brings work of the feature branch.
LEMMA MergedBranch ==
  ASSUME Sound, Open # {}
  PROVE  /\ Merged.feature = remote.feature /\ Merged.refs = remote.refs
         /\ Merged.exists = remote.exists
         /\ remote.base \subseteq Merged.base /\ Sealed(Merged.base)
         /\ remote.feature # {}
<1>1. remote.feature # {} BY DEF Sound, WInv, TypesOK, OpenHasWork
<1>2. remote \in Remote /\ Branching(tree, remote, made) BY Now
<1>3. PICK k \in 0 .. MaxCommits : remote.feature = 1 .. k BY <1>2 DEF Branching
<1>4. k \in 1 .. MaxCommits
  <2>1. MaxCommits \in Nat BY DeliveryAssumption
  <2>2. k # 0 BY <1>1, <1>3
  <2> QED BY <2>1, <2>2
<1> DEFINE b == remote.base
           new == (1 .. k) \ b
           x == IF config.squash THEN {-Distance(c) : c \in new}
                ELSE new \cup {-Max(Work(1 .. k))}
           base == b \cup x
<1>5. Merged = [remote EXCEPT !.base = base] BY <1>3 DEF Merged
<1>6. b \in SUBSET Sha /\ Sealed(b) BY <1>2 DEF Remote, Branching
<1>7. Sealed(base) BY <1>4, <1>6, MergeSeals
<1>8. b \subseteq base OBVIOUS
<1> HIDE DEF base
<1> QED BY <1>1, <1>2, <1>5, <1>7, <1>8 DEF Remote

\* gh pr merge merges a pull request that is open.
LEMMA MergesOpen ==
  ASSUME Sound, MergePR \/ Decide
  PROVE  remote' = remote \/ (Open # {} /\ remote' = Merged)
<1>1. CASE Decide BY <1>1 DEF Decide
<1>2. CASE MergePR
  <2>1. \/ remote' = remote
        \/ prs[job.st.pr] = "open" /\ remote' = Merged
    BY <1>2 DEF MergePR, MergeOr
  <2>2. CASE prs[job.st.pr] = "open" /\ remote' = Merged
    <3>1. WInv BY DEF Sound
    <3>2. job.st.pr = 0 \/ job.st.pr \in DOMAIN prs BY <3>1 DEF WInv, IInv, JobOK, IsState
    <3>3. job.st.pr # 0
      <4>1. job.todo \in Steps /\ job.todo # << >> /\ Head(job.todo) = "merge pr"
        BY <1>2, <3>1 DEF WInv, IInv, JobOK, MergePR, MergeOr, At
      <4>2. ~None(job.todo, {"merge pr"}) BY <4>1, NoneHead
      <4> QED BY <3>1, <4>2 DEF WInv, IInv, JobOK
    <3>4. job.st.pr \in Open BY <2>2, <3>2, <3>3 DEF Open
    <3> QED BY <2>2, <3>4
  <2> QED BY <2>1, <2>2
<1> QED BY <1>1, <1>2

\* What the preparation of the repository makes of the remote and of the copy.
LEMMA BootstrapBy ==
  ASSUME Sound, Bootstrap
  PROVE  \E e \in BOOLEAN : \E w :
    LET st == [job.st EXCEPT !.push = w]
        send == IF e /\ w # "skipped" THEN <<"initial push">> ELSE << >>
        End(last) == job' = [job EXCEPT !.todo = <<"save">>, !.st = last]
    IN  /\ (remote.exists => e) /\ remote' = [remote EXCEPT !.exists = e]
        /\ w = "pushed" => e /\ job.st.push = "pushed"
        /\ \/ /\ ~e /\ Mark(job.st.phase, "WAITING_FOR_HUMAN")
              /\ End([job.st EXCEPT !.cur = "WAITING"])
           \/ /\ job.st.cur = "WAITING" /\ End(st) /\ files' = files
           \/ /\ job.st.cur # "WAITING" /\ files' = files
              /\ GoOn(send \o <<"save">>, [st EXCEPT !.commit = Tip(tree.base)])
<1>1. job.st \in State BY Now
<1>2. PICK r \in Configured(job.st) :
        LET st == [job.st EXCEPT !.push = r.push]
            ready == [st EXCEPT !.commit = Tip(tree.base)]
            asked == [job.st EXCEPT !.cur = "WAITING"]
            send == IF r.exists /\ r.push # "skipped" THEN <<"initial push">> ELSE << >>
            End(last) == job' = [job EXCEPT !.todo = <<"save">>, !.st = last]
        IN  /\ remote' = [remote EXCEPT !.exists = r.exists]
            /\ \/ ~r.exists /\ Mark(st.phase, "WAITING_FOR_HUMAN") /\ End(asked)
               \/ st.cur = "WAITING" /\ End(st) /\ files' = files
               \/ st.cur # "WAITING" /\ GoOn(send \o <<"save">>, ready) /\ files' = files
  BY DEF Bootstrap
<1> DEFINE e == r.exists
           w == r.push
<1>3. /\ e \in BOOLEAN /\ (remote.exists => e)
      /\ w = "pushed" => e /\ job.st.push = "pushed"
  <2>1. CASE remote.exists
    <3>1. r = [exists |-> TRUE, push |-> IF job.st.push \in {"", "skipped"} THEN "pending"
                                        ELSE job.st.push]
      BY <2>1 DEF Configured
    <3> QED BY <3>1
  <2>2. CASE r = [exists |-> TRUE, push |-> IF job.st.push = "" THEN "pending"
                                           ELSE job.st.push]
    <3>1. r.exists = TRUE BY <2>2
    <3>2. r.push = "pending" \/ r.push = job.st.push BY <2>2
    <3> QED BY <3>1, <3>2
  <2>3. CASE r = [exists |-> FALSE, push |-> "skipped"] /\ ~remote.exists
    <3>1. r.exists = FALSE BY <2>3
    <3>2. r.push = "skipped" BY <2>3
    <3> QED BY <2>3, <3>1, <3>2
  <2> QED BY <2>1, <2>2, <2>3 DEF Configured
<1>4. /\ [job.st EXCEPT !.push = w].phase = job.st.phase
      /\ [job.st EXCEPT !.push = w].cur = job.st.cur
  BY <1>1 DEF State
<1> HIDE DEF e, w
<1>5. LET st == [job.st EXCEPT !.push = w]
          ready == [st EXCEPT !.commit = Tip(tree.base)]
          asked == [job.st EXCEPT !.cur = "WAITING"]
          send == IF e /\ w # "skipped" THEN <<"initial push">> ELSE << >>
          End(last) == job' = [job EXCEPT !.todo = <<"save">>, !.st = last]
      IN  /\ remote' = [remote EXCEPT !.exists = e]
          /\ \/ ~e /\ Mark(st.phase, "WAITING_FOR_HUMAN") /\ End(asked)
             \/ st.cur = "WAITING" /\ End(st) /\ files' = files
             \/ st.cur # "WAITING" /\ GoOn(send \o <<"save">>, ready) /\ files' = files
  BY <1>2 DEF e, w
<1> QED BY <1>3, <1>4, <1>5

\* The steps beside the feature branch: what is checked out, the base and merges.
LEMMA BesideStep ==
  ASSUME Sound, \/ ToBase \/ Back \/ Bootstrap \/ SelectPhase \/ MergePR \/ Decide
                \/ PushSucceeds /\ ~job.st.branch
                \/ tree' = tree /\ remote' = remote /\ made' = made
  PROVE  /\ Branching(tree', remote', made') /\ made' = made
         /\ Beside(tree, remote, tree', remote')
         /\ tree.branch => tree'.branch
         /\ remote'.exists = remote.exists \/ Bootstrap
<1>1. /\ tree \in Tree /\ remote \in Remote /\ Branching(tree, remote, made)
      /\ job.st \in State
  BY Now
<1>2. \A a, b : a \subseteq b => Work(a) \subseteq Work(b) BY DEF Work
<1>3. ASSUME made' = made, tree'.feature = tree.feature, tree'.dirty = tree.dirty,
             remote'.feature = remote.feature,
             "feature" \in remote'.refs <=> "feature" \in remote.refs,
             remote.base \subseteq remote'.base, remote.exists => remote'.exists,
             remote'.exists = remote.exists \/ Bootstrap,
             tree.branch => tree'.branch,
             tree'.head = "feature" => tree'.branch, tree'.dirty => tree'.head = "feature",
             Sealed(tree'.base), Sealed(remote'.base),
             tree'.base \cup remote'.base # {} => remote.feature # {},
             remote'.refs # {} => remote'.exists
      PROVE  /\ Branching(tree', remote', made') /\ made' = made
             /\ Beside(tree, remote, tree', remote')
             /\ tree.branch => tree'.branch
             /\ remote'.exists = remote.exists \/ Bootstrap
  <2>1. Branching(tree', remote', made) BY <1>1, <1>3, BesideBranching
  <2>2. Beside(tree, remote, tree', remote') BY <1>2, <1>3 DEF Beside
  <2> QED BY <1>3, <2>1, <2>2
<1>4. CASE tree' = tree /\ remote' = remote /\ made' = made
  BY <1>1, <1>3, <1>4 DEF Branching
<1>5. CASE ToBase
  <2>1. /\ remote' = remote /\ made' = made
        /\ \/ tree' = tree
           \/ ~tree.dirty /\ \E b \in {tree.base, remote.base} :
                tree' = [tree EXCEPT !.head = "base", !.base = b]
    <3>1. [tree EXCEPT !.head = "base"] = [tree EXCEPT !.head = "base", !.base = tree.base]
      BY <1>1 DEF Tree
    <3> QED BY <1>5, <3>1 DEF ToBase
  <2>2. CASE tree' = tree BY <1>4, <2>1, <2>2
  <2>3. CASE tree' # tree
    <3>1. PICK b \in {tree.base, remote.base} :
            ~tree.dirty /\ tree' = [tree EXCEPT !.head = "base", !.base = b]
      BY <2>1, <2>3
    <3>2. /\ tree'.head = "base" /\ tree'.base = b /\ tree'.feature = tree.feature
          /\ tree'.dirty = tree.dirty /\ tree'.branch = tree.branch
      BY <1>1, <3>1 DEF Tree
    <3>3. Sealed(b) /\ (b # {} => remote.feature # {}) BY <1>1, <3>1 DEF Branching
    <3> QED BY <1>1, <1>3, <2>1, <3>1, <3>2, <3>3 DEF Branching
  <2> QED BY <2>2, <2>3
<1>6. CASE Back
  <2>1. tree' = [tree EXCEPT !.head = "feature"] /\ remote' = remote /\ made' = made
        /\ job.todo # << >> /\ Head(job.todo) = "back"
    BY <1>6 DEF Back, At
  <2>2. tree.branch
    <3>1. Calm(Of(job.todo), job.st, disk, tree, remote, made) BY <2>1, CalmNow
    <3>2. "back" \in Of(job.todo) BY <2>1, CurrentPlan
    <3> QED BY <3>1, <3>2 DEF Calm
  <2>3. /\ tree'.head = "feature" /\ tree'.base = tree.base /\ tree'.feature = tree.feature
        /\ tree'.dirty = tree.dirty /\ tree'.branch = tree.branch
    BY <1>1, <2>1 DEF Tree
  <2> QED BY <1>1, <1>3, <2>1, <2>2, <2>3 DEF Branching
<1>7. CASE Bootstrap
  <2>1. /\ tree' = [tree EXCEPT !.head = "base"] /\ made' = made /\ ~tree.dirty
        /\ \E e \in BOOLEAN : (remote.exists => e) /\ remote' = [remote EXCEPT !.exists = e]
    <3>1. \E e \in BOOLEAN : (remote.exists => e) /\ remote' = [remote EXCEPT !.exists = e]
      BY <1>7, BootstrapBy
    <3> QED BY <1>7, <3>1 DEF Bootstrap
  <2>2. PICK e \in BOOLEAN : (remote.exists => e) /\ remote' = [remote EXCEPT !.exists = e]
    BY <2>1
  <2>3. /\ tree'.head = "base" /\ tree'.base = tree.base /\ tree'.feature = tree.feature
        /\ tree'.dirty = tree.dirty /\ tree'.branch = tree.branch
        /\ remote'.exists = e /\ remote'.refs = remote.refs /\ remote'.base = remote.base
        /\ remote'.feature = remote.feature
    BY <1>1, <2>1, <2>2 DEF Tree, Remote
  <2> QED BY <1>1, <1>3, <1>7, <2>1, <2>2, <2>3 DEF Branching
<1>8. CASE SelectPhase
  <2> DEFINE branch == IF tree.branch THEN tree.feature ELSE tree[tree.head]
  <2>1. /\ tree' = [tree EXCEPT !.head = "feature", !.branch = TRUE, !.feature = branch]
        /\ remote' = remote /\ made' = made
    BY <1>8 DEF SelectPhase
  <2>2. branch = tree.feature
    <3>1. CASE ~tree.branch
      <4>1. tree.head = "base" BY <1>1, <3>1 DEF Branching, Tree, Branch
      <4> QED BY <1>1, <3>1, <4>1 DEF Branching
    <3> QED BY <3>1
  <2> HIDE DEF branch
  <2>3. /\ tree'.head = "feature" /\ tree'.base = tree.base /\ tree'.feature = tree.feature
        /\ tree'.dirty = tree.dirty /\ tree'.branch
    BY <1>1, <2>1, <2>2 DEF Tree
  <2> QED BY <1>1, <1>3, <2>1, <2>3 DEF Branching
<1>9. CASE MergePR \/ Decide
  <2>1. tree' = tree /\ made' = made BY <1>9 DEF MergePR, MergeOr, Decide
  <2>2. CASE remote' = remote BY <1>4, <2>1, <2>2
  <2>3. CASE Open # {} /\ remote' = Merged
    <3>1. /\ remote'.feature = remote.feature /\ remote'.refs = remote.refs
          /\ remote'.exists = remote.exists
          /\ remote.base \subseteq remote'.base /\ Sealed(remote'.base)
          /\ remote.feature # {}
      BY <2>3, MergedBranch
    <3> QED BY <1>1, <1>3, <2>1, <3>1 DEF Branching
  <2> QED BY <1>9, <2>2, <2>3, MergesOpen
<1>10. CASE PushSucceeds /\ ~job.st.branch
  <2>1. /\ tree' = tree /\ made' = made /\ remote.base \subseteq tree.base /\ remote.exists
        /\ remote' = [remote EXCEPT !.refs = remote.refs \cup {"base"}, !.base = tree.base]
    BY <1>10 DEF PushSucceeds, Send
  <2>2. /\ remote'.exists = remote.exists /\ remote'.refs = remote.refs \cup {"base"}
        /\ remote'.base = tree.base /\ remote'.feature = remote.feature
    BY <1>1, <2>1 DEF Remote
  <2> QED BY <1>1, <1>3, <2>1, <2>2 DEF Branching
<1> QED BY <1>4, <1>5, <1>6, <1>7, <1>8, <1>9, <1>10

-----------------------------------------------------------------------------
\* Commits, pushes and edits

\* A checkpoint of a dirty tree makes the next commit of the feature branch, later
\* than what is on GitHub.
LEMMA CommitStep ==
  ASSUME Sound, Checkpoint, tree.dirty
  PROVE  /\ Branching(tree', remote', made') /\ Made(made') # {}
         /\ ~tree'.dirty /\ tree'.branch /\ made'[job.st.phase] # {}
         /\ LET c == Cardinality(Made(made)) + 1
            IN  /\ ~Sent([job.st EXCEPT !.commit = c], remote)
                /\ GoOn(<< >>, [job.st EXCEPT !.commit = c,
                                  !.checkpoints = @ \cup {job.st.phase},
                                  !.push = IF @ \in {"", "pushed"} THEN "pending" ELSE @])
<1> DEFINE c == Cardinality(Made(made)) + 1
           p == job.st.phase
           clean == [tree EXCEPT !.dirty = FALSE]
<1>1. /\ tree \in Tree /\ remote \in Remote /\ Branching(tree, remote, made)
      /\ made \in [Phase -> SUBSET Commit] /\ job.st \in State
  BY Now
<1>2. tree.head = "feature" /\ tree.branch /\ tree.feature = Made(made) BY <1>1 DEF Branching
<1>3. PICK n \in 0 .. MaxCommits : Made(made) = 1 .. n BY <1>1 DEF Branching
<1>4. PICK k \in 0 .. MaxCommits : remote.feature = 1 .. k BY <1>1 DEF Branching
<1>5. MaxCommits \in Nat BY DeliveryAssumption
<1>6. Cardinality(1 .. n) = n
  <2>1. Cardinality(1 .. n) = IF 1 > n THEN 0 ELSE n - 1 + 1 BY <1>5, FS_Interval
  <2> QED BY <1>5, <2>1
<1>7. c = n + 1 BY <1>3, <1>6
<1>8. n < MaxCommits
  <2>1. Room BY DEF Sound, WInv, TypesOK
  <2>2. Cardinality(Made(made)) < MaxCommits BY <2>1 DEF Room, Made
  <2> QED BY <1>3, <1>6, <2>2
<1>9. p \in Phase
  <2>1. WInv /\ job.todo # << >> /\ Head(job.todo) \in Working
    BY DEF Sound, Checkpoint, At, Working
  <2> QED BY <2>1, WorkingPhase
<1>10. /\ tree' = [clean EXCEPT ![tree.head] = tree[tree.head] \cup {c}]
       /\ made' = [made EXCEPT ![p] = @ \cup {c}] /\ remote' = remote
       /\ GoOn(<< >>, [job.st EXCEPT !.commit = c,
                         !.checkpoints = @ \cup {p},
                         !.push = IF @ \in {"", "pushed"} THEN "pending" ELSE @])
  BY DEF Checkpoint, Made
<1> HIDE DEF c
<1>11. /\ tree'.head = "feature" /\ tree'.branch /\ ~tree'.dirty /\ tree'.base = tree.base
       /\ tree'.feature = tree.feature \cup {c}
  BY <1>1, <1>2, <1>10 DEF Tree
<1>12. Made(made') = Made(made) \cup {c} /\ c \in made'[p]
  <2>1. made'[p] = made[p] \cup {c} /\ \A q \in Phase \ {p} : made'[q] = made[q]
    BY <1>1, <1>9, <1>10
  <2> QED BY <1>9, <2>1 DEF Made
<1>13. /\ n + 1 \in 0 .. MaxCommits /\ 1 .. (n + 1) = (1 .. n) \cup {n + 1}
  BY <1>5, <1>8
<1>14. Branching(tree', remote, made')
  <2>1. tree'.feature = Made(made') BY <1>2, <1>11, <1>12
  <2>2. Made(made') = 1 .. (n + 1) BY <1>3, <1>7, <1>12, <1>13
  <2>3. Made(made) \subseteq Made(made') BY <1>12
  <2> QED BY <1>1, <1>11, <1>13, <2>1, <2>2, <2>3 DEF Branching
<1>15. ~Sent([job.st EXCEPT !.commit = c], remote)
  <2>1. Tip(remote.feature) = k BY <1>4, FirstCommits
  <2>2. remote.feature \subseteq Made(made) BY <1>1 DEF Branching
  <2>3. k <= n
    <3>1. CASE k = 0 BY <1>5, <3>1
    <3>2. CASE k # 0
      <4>1. k \in 1 .. k BY <1>5, <3>2
      <4>2. k \in 1 .. n BY <1>3, <1>4, <2>2, <4>1
      <4> QED BY <1>5, <4>2
    <3> QED BY <3>1, <3>2
  <2>4. k # c BY <1>5, <1>7, <2>3
  <2>5. [job.st EXCEPT !.commit = c].commit = c BY <1>1 DEF State
  <2> QED BY <2>1, <2>4, <2>5 DEF Sent
<1> QED BY <1>10, <1>11, <1>12, <1>14, <1>15 DEF c

\* A push of the feature branch has it on GitHub, all of it.
LEMMA FeaturePush ==
  ASSUME Sound, PushSucceeds, job.st.branch
  PROVE  /\ Branching(tree', remote', made') /\ tree' = tree /\ made' = made
         /\ Synced(tree', remote') /\ remote'.exists /\ remote'.exists = remote.exists
         /\ Made(made) # {} => Started(remote', made')
         /\ Started(remote, made) => Started(remote', made')
<1>1. tree \in Tree /\ remote \in Remote /\ Branching(tree, remote, made) BY Now
<1>2. /\ tree' = tree /\ made' = made /\ remote.exists /\ tree.branch
      /\ remote' = [remote EXCEPT !.refs = remote.refs \cup {"feature"},
                                  !.feature = tree.feature]
  BY DEF PushSucceeds, Send
<1>3. /\ remote'.exists /\ remote'.refs = remote.refs \cup {"feature"}
      /\ remote'.base = remote.base /\ remote'.feature = tree.feature
  BY <1>1, <1>2 DEF Remote
<1>4. Branching(tree, remote', made)
  <2>1. remote.feature # {} => tree.feature # {} BY <1>1 DEF Branching
  <2> QED BY <1>1, <1>2, <1>3, <2>1 DEF Branching
<1>5. Synced(tree, remote')
  <2>1. PICK n \in 0 .. MaxCommits : tree.feature = 1 .. n BY <1>1 DEF Branching
  <2>2. Work(1 .. n) = 1 .. n BY FirstCommits
  <2> QED BY <1>3, <2>1, <2>2 DEF Synced
<1>6. Made(made) # {} => Started(remote', made)
  BY <1>1, <1>3 DEF Started, Branching
<1> QED BY <1>2, <1>3, <1>4, <1>5, <1>6 DEF Started

\* The worker edits on the feature branch.
LEMMA EditStep ==
  ASSUME Sound, Edit \/ Discard
  PROVE  /\ Branching(tree', remote', made') /\ remote' = remote /\ made' = made
         /\ tree'.feature = tree.feature /\ tree'.branch = tree.branch
         /\ Edit => ~tree.dirty /\ tree'.dirty
         /\ Discard => tree.dirty /\ ~tree'.dirty
<1>1. tree \in Tree /\ Branching(tree, remote, made) BY Now
<1>2. /\ remote' = remote /\ made' = made
      /\ Edit => /\ tree.head = "feature" /\ ~tree.dirty
                 /\ tree' = [tree EXCEPT !.dirty = TRUE]
      /\ Discard => tree.dirty /\ tree' = [tree EXCEPT !.dirty = FALSE]
  BY DEF Edit, Discard, Sound
<1>3. /\ Edit => tree'.dirty /\ ~tree.dirty
      /\ Discard => ~tree'.dirty /\ tree.dirty
      /\ tree'.head = tree.head /\ tree'.feature = tree.feature
      /\ tree'.branch = tree.branch /\ tree'.base = tree.base
  BY <1>1, <1>2 DEF Tree
<1>4. tree'.dirty => tree.head = "feature" BY <1>2, <1>3
<1>5. Branching(tree', remote, made) BY <1>1, <1>3, <1>4 DEF Branching
<1> QED BY <1>2, <1>3, <1>5

-----------------------------------------------------------------------------
\* Calm plans

\* What is left of a calm plan after its first step, with steps put before it that
\* are neither loud nor marks nor choices, is calm.
Minors == {"save", "deliver", "open pr", "merge", "merge pr", "to base", "reconcile"}
LEMMA CalmLess ==
  ASSUME NEW T, NEW U, U \subseteq T \cup Minors, "bootstrap" \in T => "bootstrap" \in U,
         "initial push" \in T => "initial push" \in U,
         NEW st, NEW d, NEW t, NEW r, NEW m, Calm(T, st, d, t, r, m)
  PROVE  Calm(U, st, d, t, r, m)
<1>1. /\ U \cap Loud \subseteq T \cap Loud /\ U \cap Marking \subseteq T \cap Marking
      /\ \A x \in {"initial push", "back", "select"} : x \in U => x \in T
  BY DEF Minors, Loud, Marking
<1> QED BY <1>1 DEF Calm

\* And so is one whose copy has been saved.
LEMMA CalmSaved ==
  ASSUME NEW T, NEW st, NEW d, NEW e, e.cur = st.cur, e.push = st.push,
         NEW t, NEW r, NEW m, Calm(T, st, d, t, r, m)
  PROVE  Calm(T, st, e, t, r, m)
BY DEF Calm

\* A calm plan is right.
LEMMA CalmIsRight ==
  ASSUME NEW todo \in Steps, NEW st, NEW d, NEW f, NEW t, NEW r, NEW m,
         CopyIsRight(st, f, t, r, m), NoneAfter(todo, {"bootstrap", "complete"}, Marking),
         Calm(Of(todo), st, d, t, r, m)
  PROVE  PlanIsRight(todo, st, d, f, t, r, m)
<1> SUFFICES ASSUME todo # << >> PROVE Fits(todo, st, d, t, r, m) BY DEF PlanIsRight
<1>1. Head(todo) \in Of(todo) BY OfPlans
<1>2. Head(todo) \notin {"push", "checkpoint", "recover", "tests"} BY <1>1 DEF Calm, Loud
<1> QED BY <1>2 DEF Fits

\* Steps before the rest of the plan.
LEMMA BeforeRest ==
  ASSUME Sound, job.todo # << >>, NEW steps \in Steps,
         Of(steps) \cap {"bootstrap", "complete"} = {} \/ Of(Tail(job.todo)) \cap Marking = {},
         NoneAfter(steps, {"bootstrap", "complete"}, Marking)
  PROVE  LET todo == steps \o Tail(job.todo)
         IN  /\ todo \in Steps /\ Of(todo) = Of(steps) \cup Of(Tail(job.todo))
             /\ NoneAfter(todo, {"bootstrap", "complete"}, Marking)
<1>1. /\ Tail(job.todo) \in Steps
      /\ NoneAfter(Tail(job.todo), {"bootstrap", "complete"}, Marking)
  BY CurrentPlan
<1>2. /\ steps \o Tail(job.todo) \in Steps
      /\ Of(steps \o Tail(job.todo)) = Of(steps) \cup Of(Tail(job.todo))
  BY <1>1, OfPlans, ConcatIndex
<1>3. None(steps, {"bootstrap", "complete"}) \/ None(Tail(job.todo), Marking)
  BY <1>1, NotOf
<1>4. NoneAfter(steps \o Tail(job.todo), {"bootstrap", "complete"}, Marking)
  BY <1>1, <1>3, NoneAfterConcat
<1> QED BY <1>2, <1>4

\* The command goes on with a calm plan.
LEMMA GoesCalmly ==
  ASSUME Sound, job.todo # << >>, NEW steps \in Steps,
         Of(steps) \cap {"bootstrap", "complete"} = {}, NEW st, GoOn(steps, st),
         CopyIsRight(st, files', tree', remote', made'),
         Calm(Of(steps) \cup Of(Tail(job.todo)), st, disk', tree', remote', made')
  PROVE  PlanIsRight(job'.todo, job'.st, disk', files', tree', remote', made')
<1> DEFINE todo == steps \o Tail(job.todo)
<1>1. NoneAfter(steps, {"bootstrap", "complete"}, Marking) BY NotOf
<1>2. /\ todo \in Steps /\ Of(todo) = Of(steps) \cup Of(Tail(job.todo))
      /\ NoneAfter(todo, {"bootstrap", "complete"}, Marking)
  BY <1>1, BeforeRest
<1> HIDE DEF todo
<1>3. PlanIsRight(todo, st, disk', files', tree', remote', made') BY <1>2, CalmIsRight
<1> QED BY <1>3, GoesOnRight DEF todo

\* A step of a plan that is calm with a copy, beside the feature branch, to a copy
\* that says the same.
LEMMA CalmFrom ==
  ASSUME Sound, job.todo # << >>, NEW a, CopyIsRight(a, files, tree, remote, made),
         Calm(Of(job.todo), a, disk, tree, remote, made),
         Head(job.todo) \notin {"bootstrap", "initial push"},
         NEW steps \in Steps, Of(steps) \subseteq Minors, NEW st, GoOn(steps, st),
         Same(a, st), disk' \in {disk, a, st},
         files'.packet = files.packet, files'.verified = files.verified, made' = made,
         Beside(tree, remote, tree', remote'), tree.branch => tree'.branch,
         remote'.exists = remote.exists
  PROVE  PlanIsRight(job'.todo, job'.st, disk', files', tree', remote', made')
<1> DEFINE T == Of(job.todo)
           U == Of(steps) \cup Of(Tail(job.todo))
<1>1. T = {Head(job.todo)} \cup Of(Tail(job.todo)) BY CurrentPlan
<1>2. Calm(T, a, disk, tree, remote, made) OBVIOUS
<1> HIDE DEF T
<1>3. /\ U \subseteq T \cup Minors
      /\ "bootstrap" \in T => "bootstrap" \in U
      /\ "initial push" \in T => "initial push" \in U
  BY <1>1
<1>4. Of(steps) \cap {"bootstrap", "complete"} = {} BY DEF Minors
<1> HIDE DEF U
<1>5. Calm(U, a, disk, tree, remote, made) BY <1>2, <1>3, CalmLess
<1>6. Calm(U, a, disk, tree', remote', made) BY <1>5, BesideCalm
<1>7. Calm(U, st, disk, tree', remote', made) BY <1>6, SameIsRight
<1>8. Calm(U, st, disk', tree', remote', made')
  <2>1. CASE disk' = disk BY <1>7, <2>1
  <2>2. CASE disk' # disk
    <3>1. disk'.cur = st.cur /\ disk'.push = st.push BY <2>2 DEF Same
    <3>2. Calm(U, st, disk', tree', remote', made) BY <1>7, <3>1, CalmSaved
    <3> QED BY <3>2
  <2> QED BY <2>1, <2>2
<1>9. CopyIsRight(st, files', tree', remote', made')
  <2>1. CopyIsRight(a, files', tree', remote', made) BY BesideIsRight
  <2> QED BY <2>1, SameIsRight
<1> QED BY <1>4, <1>8, <1>9, GoesCalmly DEF U

\* To a copy that says the same as the command's.
LEMMA CalmStep ==
  ASSUME Sound, job.todo # << >>,
         Head(job.todo) \notin {"push", "checkpoint", "recover", "tests", "bootstrap",
                                "initial push"},
         NEW steps \in Steps, Of(steps) \subseteq Minors, NEW st, GoOn(steps, st),
         Same(job.st, st), disk' \in {disk, job.st, st},
         files'.packet = files.packet, files'.verified = files.verified, made' = made,
         Beside(tree, remote, tree', remote'), tree.branch => tree'.branch,
         remote'.exists = remote.exists
  PROVE  PlanIsRight(job'.todo, job'.st, disk', files', tree', remote', made')
<1>1. /\ CopyIsRight(job.st, files, tree, remote, made)
      /\ Calm(Of(job.todo), job.st, disk, tree, remote, made)
  BY CurrentPlan, CalmNow
<1> QED BY <1>1, CalmFrom

\* The files stay right when nothing is written, beside the feature branch.
LEMMA FilesKept ==
  ASSUME NEW d, NEW f, NEW t, NEW r, NEW m, FilesAreRight(d, f, t, r, m),
         NEW u, NEW s, Beside(t, r, u, s)
  PROVE  FilesAreRight(d, f, u, s, m)
<1>1. /\ CopyIsRight(d, f, t, r, m) => CopyIsRight(d, f, u, s, m)
      /\ Deliverable(d, t, r, m) => Deliverable(d, u, s, m)
      /\ Started(r, m) <=> Started(s, m)
  BY BesideIsRight
<1>2. u.dirty = t.dirty BY DEF Beside
<1> QED BY <1>1, <1>2 DEF FilesAreRight

\* Nor when a calm plan saves its copy.
LEMMA FilesSaved ==
  ASSUME Sound, job.todo # << >>,
         Head(job.todo) \notin {"push", "checkpoint", "recover", "tests"},
         NEW st, Same(job.st, st)
  PROVE  FilesAreRight(st, files, tree, remote, made)
<1>1. /\ CopyIsRight(job.st, files, tree, remote, made)
      /\ FilesAreRight(disk, files, tree, remote, made)
  BY CurrentPlan, Now
<1>2. Calm(Of(job.todo), job.st, disk, tree, remote, made) BY CalmNow
<1>3. /\ CopyIsRight(st, files, tree, remote, made)
      /\ Deliverable(job.st, tree, remote, made) => Deliverable(st, tree, remote, made)
  BY <1>1, SameIsRight
<1>4. st.cur = "VERIFIED" => Deliverable(st, tree, remote, made)
  BY <1>2, <1>3 DEF Calm, Same
<1> QED BY <1>1, <1>3, <1>4 DEF FilesAreRight

-----------------------------------------------------------------------------
\* Steps of calm plans

Right == /\ FilesAreRight(disk, files, tree, remote, made)
         /\ PlanIsRight(job.todo, job.st, disk, files, tree, remote, made)

\* Short plans of minor steps.
MinorPlan(s) == s \in Steps /\ Of(s) \subseteq Minors
LEMMA MinorPlans ==
  /\ MinorPlan(<< >>)
  /\ \A x \in Minors : MinorPlan(<<x>>)
  /\ \A s, t : MinorPlan(s) /\ MinorPlan(t) => MinorPlan(s \o t)
  /\ ~config.delete => CleanupSteps = <<"to base">> /\ MinorPlan(CleanupSteps)
<1>1. MinorPlan(<< >>) BY ShortPlans, OfPlans DEF MinorPlan
<1>2. \A x \in Minors : MinorPlan(<<x>>)
  <2> SUFFICES ASSUME NEW x \in Minors PROVE MinorPlan(<<x>>) OBVIOUS
  <2>1. <<x>> \in Steps BY ShortPlans DEF Minors, StepName
  <2>2. Of(<<x>>) = {x} BY OfPlans
  <2> QED BY <2>1, <2>2 DEF MinorPlan
<1>3. \A s, t : MinorPlan(s) /\ MinorPlan(t) => MinorPlan(s \o t)
  BY OfPlans, ConcatIndex DEF MinorPlan
<1>4. "to base" \in Minors BY DEF Minors
<1> QED BY <1>1, <1>2, <1>3, <1>4 DEF CleanupSteps

\* What a pull request changes of a copy.
LEMMA SameCopies ==
  ASSUME NEW st \in State
  PROVE  /\ Same(st, st) /\ \A x : Same(st, [st EXCEPT !.merge = x])
         /\ \A x : Same(st, Merge(st, x)) /\ \A n : Same(st, Known(st, n))
<1>1. \A x : Same(st, [st EXCEPT !.merge = x]) /\ Same(st, [st EXCEPT !.pr = x])
  BY DEF Same, State
<1>2. Same(st, st) BY DEF Same
<1>3. \A x : Same(st, Merge(st, x)) BY <1>1, <1>2 DEF Merge
<1>4. ASSUME NEW n PROVE Same(st, Known(st, n))
  <2> DEFINE a == [st EXCEPT !.pr = n]
  <2>1. Same(st, a) BY <1>1
  <2>2. Same(a, [a EXCEPT !.merge = "open"])
    <3>1. /\ [a EXCEPT !.merge = "open"].cur = a.cur
          /\ [a EXCEPT !.merge = "open"].phase = a.phase
          /\ [a EXCEPT !.merge = "open"].commit = a.commit
          /\ [a EXCEPT !.merge = "open"].checkpoints = a.checkpoints
          /\ [a EXCEPT !.merge = "open"].branch = a.branch
          /\ [a EXCEPT !.merge = "open"].push = a.push
      BY DEF State
    <3> QED BY <3>1 DEF Same
  <2>3. Known(st, n) = a \/ Known(st, n) = [a EXCEPT !.merge = "open"] BY DEF Known, Merge
  <2> QED BY <2>1, <2>2, <2>3 DEF Same
<1> QED BY <1>1, <1>2, <1>3, <1>4

\* The steps that write no more than what pull requests are known of.
LEMMA SameSteps ==
  ASSUME Sound, job.todo # << >>,
         Head(job.todo) \notin {"push", "checkpoint", "recover", "tests", "bootstrap",
                                "initial push"},
         NEW steps, MinorPlan(steps), NEW st, GoOn(steps, st),
         Same(job.st, st), disk' \in {disk, job.st, st},
         files' = files, made' = made,
         Beside(tree, remote, tree', remote'), tree.branch => tree'.branch,
         remote'.exists = remote.exists
  PROVE  Right'
<1>1. PlanIsRight(job'.todo, job'.st, disk', files', tree', remote', made')
  BY CalmStep DEF MinorPlan
<1>2. FilesAreRight(disk', files, tree, remote, made)
  <2>1. Same(job.st, job.st) BY DEF Same
  <2> QED BY <2>1, Now, FilesSaved
<1>3. FilesAreRight(disk', files', tree', remote', made') BY <1>2, FilesKept
<1> QED BY <1>1, <1>3 DEF Right

\* Saves, and the steps of a delivery up to gh pr merge.
LEMMA DeliverySteps ==
  ASSUME Sound, SaveState \/ Deliver \/ OpenNone \/ ReusePR \/ CreatePR \/ ViewPR \/ Back
  PROVE  Right'
<1>1. /\ job.todo # << >> /\ job.st \in State
      /\ Head(job.todo) \notin {"push", "checkpoint", "recover", "tests", "bootstrap",
                                "initial push"}
  BY Now DEF SaveState, Deliver, OpenNone, ReusePR, CreatePR, ViewPR, MayOpen, Back, At
<1>2. files' = files /\ made' = made
  BY DEF SaveState, Deliver, OpenNone, ReusePR, CreatePR, ViewPR, Back
<1>3. /\ Beside(tree, remote, tree', remote')
      /\ tree.branch => tree'.branch
      /\ remote'.exists = remote.exists
  <2>1. (tree' = tree /\ remote' = remote) \/ Back
    BY DEF SaveState, Deliver, OpenNone, ReusePR, CreatePR, ViewPR
  <2>2. ~Bootstrap BY <1>1 DEF Bootstrap, At
  <2> QED BY <1>2, <2>1, <2>2, BesideStep
<1>4. ASSUME NEW steps, MinorPlan(steps), NEW st, GoOn(steps, st), Same(job.st, st),
             disk' \in {disk, job.st, st}
      PROVE  Right'
  BY <1>1, <1>2, <1>3, <1>4, SameSteps
<1>5. "merge pr" \in Minors /\ "open pr" \in Minors /\ "merge" \in Minors BY DEF Minors
<1>6. CASE SaveState \/ OpenNone \/ ReusePR \/ CreatePR \/ Back
  <2>1. \E st : GoOn(<< >>, st) /\ Same(job.st, st) /\ disk' \in {disk, job.st, st}
    BY <1>1, <1>6, SameCopies DEF SaveState, OpenNone, ReusePR, CreatePR, Back
  <2> QED BY <1>4, <2>1, MinorPlans
<1>7. CASE Deliver
  <2> DEFINE merge == IF config.autoMerge THEN <<"merge">> ELSE << >>
             steps == IF config.boundary = "phase" \/ job.st.finished
                      THEN <<"open pr">> \o merge ELSE << >>
  <2>1. GoOn(steps, job.st) /\ disk' = disk BY <1>7 DEF Deliver
  <2>2. MinorPlan(<<"open pr">>) /\ MinorPlan(merge) BY <1>5, MinorPlans
  <2> HIDE DEF merge
  <2>3. MinorPlan(steps) BY <2>2, MinorPlans
  <2> HIDE DEF steps
  <2> QED BY <1>1, <1>4, <2>1, <2>3, SameCopies
<1>8. CASE ViewPR
  <2>1. \/ \E st : GoOn(<< >>, st) /\ disk' = st /\ Same(job.st, st)
        \/ GoOn(<<"merge pr">>, job.st) /\ disk' = disk
    BY <1>1, <1>8, SameCopies DEF ViewPR
  <2>2. MinorPlan(<< >>) /\ MinorPlan(<<"merge pr">>) BY <1>5, MinorPlans
  <2>3. Same(job.st, job.st) BY DEF Same
  <2> QED BY <1>4, <2>1, <2>2, <2>3
<1> QED BY <1>6, <1>7, <1>8

\* gh pr merge and the clean-up that follows, with the base checked out.
LEMMA MergeSteps ==
  ASSUME Sound, MergePR \/ ToBase
  PROVE  Right'
<1>1. /\ job.todo # << >> /\ job.st \in State /\ ~config.delete
      /\ Head(job.todo) \in {"merge pr", "to base"}
  BY Now DEF MergePR, MergeOr, ToBase, At, Sound
<1>2. files' = files /\ made' = made /\ disk' = disk BY DEF MergePR, MergeOr, ToBase
<1>3. /\ Beside(tree, remote, tree', remote')
      /\ tree.branch => tree'.branch
      /\ remote'.exists = remote.exists
      /\ Branching(tree', remote', made')
  <2>1. ~Bootstrap BY <1>1 DEF Bootstrap, At
  <2> QED BY <2>1, BesideStep
<1>4. ASSUME NEW steps, MinorPlan(steps), NEW st, GoOn(steps, st), Same(job.st, st)
      PROVE  Right'
  BY <1>1, <1>2, <1>3, <1>4, SameSteps
<1>5. MinorPlan(<<"save">>) /\ MinorPlan(CleanupSteps)
  <2>1. "save" \in Minors BY DEF Minors
  <2> QED BY <1>1, <2>1, MinorPlans
<1>6. CASE MergePR
  <2>1. \/ GoOn(CleanupSteps \o <<"save">>, [job.st EXCEPT !.merge = "merged"])
        \/ \E to : GoOn(<<"save">>, [job.st EXCEPT !.merge = to])
    BY <1>6 DEF MergePR, MergeOr
  <2>2. \A x : Same(job.st, [job.st EXCEPT !.merge = x]) BY <1>1, SameCopies
  <2>3. MinorPlan(CleanupSteps \o <<"save">>) BY <1>5, MinorPlans
  <2> QED BY <1>4, <1>5, <2>1, <2>2, <2>3
<1>7. CASE ToBase
  <2>1. \/ GoOn(<< >>, job.st)
        \/ GoOn(<<"back">>, job.st) /\ tree.head # "base"
    BY <1>7 DEF ToBase
  <2>2. CASE GoOn(<< >>, job.st) BY <1>1, <1>4, <2>2, MinorPlans, SameCopies
  <2>3. CASE GoOn(<<"back">>, job.st) /\ tree.head # "base"
    <3> DEFINE U == Of(Tail(job.todo))
    <3>1. tree'.branch
      <4>1. tree.head = "feature" /\ tree.branch BY <2>3, Now DEF Tree, Branch, Branching
      <4> QED BY <1>3, <4>1
    <3>2. /\ CopyIsRight(job.st, files, tree, remote, made)
          /\ Of(job.todo) = {Head(job.todo)} \cup U
          /\ Calm(Of(job.todo), job.st, disk, tree, remote, made)
      BY <1>1, CurrentPlan, CalmNow
    <3> HIDE DEF U
    <3>3. Calm(U, job.st, disk, tree, remote, made) BY <1>1, <3>2, CalmLess
    <3>4. Calm(U, job.st, disk, tree', remote', made) BY <1>3, <3>3, BesideCalm
    <3>5. Calm({"back"} \cup U, job.st, disk', tree', remote', made')
      BY <1>2, <3>1, <3>4 DEF Calm, Loud, Marking
    <3>6. CopyIsRight(job.st, files', tree', remote', made')
      BY <1>2, <1>3, <3>2, BesideIsRight
    <3>7. <<"back">> \in Steps /\ Of(<<"back">>) = {"back"}
      BY OfPlans, ShortPlans DEF StepName
    <3>8. PlanIsRight(job'.todo, job'.st, disk', files', tree', remote', made')
      BY <1>1, <2>3, <3>5, <3>6, <3>7, GoesCalmly DEF U
    <3>9. FilesAreRight(disk', files', tree', remote', made')
      BY <1>2, <1>3, Now, FilesKept
    <3> QED BY <3>8, <3>9 DEF Right
  <2> QED BY <2>1, <2>2, <2>3
<1> QED BY <1>6, <1>7

\* What git takes for pushed is on GitHub: a copy of a calm plan that says so is
\* right, and so is what is left of the plan.
LEMMA PushFound ==
  ASSUME Sound, job.todo # << >>,
         Head(job.todo) \notin {"push", "checkpoint", "recover", "tests"}, Pushed(job.st),
         NEW U, U \subseteq Of(job.todo), "bootstrap" \in Of(job.todo) => "bootstrap" \in U
  PROVE  LET a == [job.st EXCEPT !.push = "pushed"]
         IN  /\ CopyIsRight(a, files, tree, remote, made)
             /\ Calm(U, a, disk, tree, remote, made)
<1> DEFINE a == [job.st EXCEPT !.push = "pushed"]
           T == Of(job.todo)
<1>1. /\ job.st \in State /\ Branching(tree, remote, made)
      /\ CopyIsRight(job.st, files, tree, remote, made)
      /\ Calm(T, job.st, disk, tree, remote, made)
  BY Now, CurrentPlan, CalmNow
<1>0. U \subseteq T /\ ("bootstrap" \in T => "bootstrap" \in U) OBVIOUS
<1> HIDE DEF T
<1>2. /\ a.cur = job.st.cur /\ a.phase = job.st.phase /\ a.commit = job.st.commit
      /\ a.checkpoints = job.st.checkpoints /\ a.branch = job.st.branch
  BY <1>1 DEF State
<1> HIDE DEF a
<1>3. remote.exists BY <1>1 DEF Pushed, Branching
<1>4. Honest(job.st, tree, remote, made) /\ Started(remote, made) => Synced(tree, remote)
  <2>1. job.st.branch => Sent(job.st, remote) BY DEF Pushed, Sent
  <2>2. Started(remote, made) => job.st.branch BY <1>1 DEF Started, CopyIsRight
  <2> QED BY <2>1, <2>2 DEF Honest
<1>5. Sent(a, remote) <=> Sent(job.st, remote) BY <1>2 DEF Sent
<1>6. /\ Deliverable(a, tree, remote, made) <=> Deliverable(job.st, tree, remote, made)
      /\ Honest(a, tree, remote, made) <=> Honest(job.st, tree, remote, made)
  BY <1>2, <1>5 DEF Deliverable, Honest
<1>7. job.st.cur = "COMPLETED" => Synced(tree, remote)
  <2>1. "COMPLETED" \notin Unsettled BY DEF Unsettled
  <2> QED BY <1>1, <1>4, <2>1 DEF CopyIsRight
<1>8. CopyIsRight(a, files, tree, remote, made)
  BY <1>1, <1>2, <1>3, <1>6, <1>7 DEF CopyIsRight
<1>9. Calm(U, a, disk, tree, remote, made)
  <2>1. U \cap Loud \subseteq T \cap Loud /\ U \cap Marking \subseteq T \cap Marking BY <1>0
  <2> QED BY <1>0, <1>1, <1>2, <1>4, <1>6, <1>7, <2>1 DEF Calm
<1> QED BY <1>8, <1>9 DEF a, T

\* A copy that does not say so claims less.
LEMMA PushUnknown ==
  ASSUME Sound, job.todo # << >>,
         Head(job.todo) \notin {"push", "checkpoint", "recover", "tests"},
         NEW w, w # "pushed",
         NEW U, U \subseteq Of(job.todo), "bootstrap" \in Of(job.todo) => "bootstrap" \in U
  PROVE  LET a == [job.st EXCEPT !.push = w]
         IN  /\ CopyIsRight(a, files, tree, remote, made)
             /\ Calm(U, a, disk, tree, remote, made)
<1> DEFINE a == [job.st EXCEPT !.push = w]
           T == Of(job.todo)
<1>1. /\ job.st \in State
      /\ CopyIsRight(job.st, files, tree, remote, made)
      /\ Calm(T, job.st, disk, tree, remote, made)
  BY Now, CurrentPlan, CalmNow
<1>0. U \subseteq T /\ ("bootstrap" \in T => "bootstrap" \in U) OBVIOUS
<1> HIDE DEF T
<1>2. /\ a.cur = job.st.cur /\ a.phase = job.st.phase /\ a.commit = job.st.commit
      /\ a.checkpoints = job.st.checkpoints /\ a.branch = job.st.branch /\ a.push = w
  BY <1>1 DEF State
<1> HIDE DEF a
<1>3. Sent(a, remote) <=> Sent(job.st, remote) BY <1>2 DEF Sent
<1>4. /\ Deliverable(a, tree, remote, made) <=> Deliverable(job.st, tree, remote, made)
      /\ Honest(a, tree, remote, made) <=> Honest(job.st, tree, remote, made)
  BY <1>2, <1>3 DEF Deliverable, Honest
<1>5. CopyIsRight(a, files, tree, remote, made) BY <1>1, <1>2, <1>4 DEF CopyIsRight
<1>6. Calm(U, a, disk, tree, remote, made)
  <2>1. U \cap Loud \subseteq T \cap Loud /\ U \cap Marking \subseteq T \cap Marking BY <1>0
  <2> QED BY <1>0, <1>1, <1>2, <1>4, <2>1 DEF Calm
<1> QED BY <1>5, <1>6 DEF a, T

\* Recovery learns what became of the push and of the pull request.
LEMMA ReconcileRight == Sound /\ Reconcile => Right'
<1> SUFFICES ASSUME Sound, Reconcile PROVE Right' OBVIOUS
<1> DEFINE st == IF job.st.branch /\ Pushed(job.st) THEN [job.st EXCEPT !.push = "pushed"]
                 ELSE job.st
           found == IF st.pr # 0 \/ Open = {} \/ ~st.branch THEN st
                    ELSE Known(st, CHOOSE n \in Open : TRUE)
           last == IF ci = "pending" THEN Merge(found, "checking")
                   ELSE IF found.merge = "" THEN Merge(found, "open") ELSE found
<1>1. /\ job.todo # << >> /\ Head(job.todo) = "reconcile" /\ job.st \in State
      /\ ~config.delete
      /\ files' = files /\ made' = made /\ disk' = disk /\ tree' = tree /\ remote' = remote
  BY Now DEF Reconcile, At, Sound
<1>2. /\ CopyIsRight(st, files, tree, remote, made)
      /\ Calm(Of(job.todo), st, disk, tree, remote, made)
  <2>1. CASE job.st.branch /\ Pushed(job.st) BY <1>1, <2>1, PushFound
  <2>2. CASE ~(job.st.branch /\ Pushed(job.st)) BY <1>1, <2>2, CurrentPlan, CalmNow
  <2> QED BY <2>1, <2>2
<1>3. \/ GoOn(<< >>, st) \/ GoOn(<< >>, found) \/ GoOn(<< >>, last)
      \/ GoOn(CleanupSteps, [found EXCEPT !.merge = "merged"])
  BY DEF Reconcile
<1>4. st \in State
  <2>1. "pushed" \in Push BY DEF Push
  <2> QED BY <1>1, <2>1, Updates
<1> HIDE DEF st
<1>5. Same(st, st) /\ Same(st, found) BY <1>4, SameCopies
<1>6. found \in State
  <2>1. WInv BY DEF Sound
  <2>2. \A n \in Open : n \in 0 .. MaxPRs
    <3>1. prs \in Seq({"open", "merged", "closed"}) /\ Len(prs) <= MaxPRs
      BY <2>1 DEF WInv, IInv, TypesOK, FewPRs
    <3> QED BY <3>1, DeliveryAssumption DEF Open
  <2>3. Open # {} => (CHOOSE n \in Open : TRUE) \in Open OBVIOUS
  <2>4. "open" \in MergeWord BY DEF MergeWord
  <2> QED BY <1>4, <2>2, <2>3, <2>4, MergeType
<1> HIDE DEF found
<1>7. Same(found, last) /\ Same(found, [found EXCEPT !.merge = "merged"])
  BY <1>6, SameCopies
<1>8. Same(st, last) /\ Same(st, [found EXCEPT !.merge = "merged"])
  BY <1>5, <1>7 DEF Same
<1> HIDE DEF last
<1>9. MinorPlan(<< >>) /\ MinorPlan(CleanupSteps) BY <1>1, MinorPlans
<1>10. /\ Beside(tree, remote, tree', remote')
       /\ tree.branch => tree'.branch
       /\ remote'.exists = remote.exists
  BY <1>1 DEF Beside
<1>11. ASSUME NEW steps, MinorPlan(steps), NEW s, GoOn(steps, s), Same(st, s)
       PROVE  PlanIsRight(job'.todo, job'.st, disk', files', tree', remote', made')
  BY <1>1, <1>2, <1>10, <1>11, CalmFrom DEF MinorPlan
<1>12. PlanIsRight(job'.todo, job'.st, disk', files', tree', remote', made')
  BY <1>3, <1>5, <1>8, <1>9, <1>11
<1>13. FilesAreRight(disk', files', tree', remote', made') BY <1>1, Now
<1> QED BY <1>12, <1>13 DEF Right

-----------------------------------------------------------------------------
\* Pushes

\* After a push all the work is on GitHub.
LEMMA PushGives ==
  ASSUME Sound, PushSucceeds
  PROVE  /\ Branching(tree', remote', made') /\ tree' = tree /\ made' = made
         /\ Synced(tree', remote') /\ remote'.exists /\ remote'.exists = remote.exists
         /\ Made(made) # {} => Started(remote', made')
         /\ Started(remote, made) => Started(remote', made')
<1>1. CASE job.st.branch BY <1>1, FeaturePush
<1>2. CASE ~job.st.branch
  <2>1. job.todo # << >> /\ ~Bootstrap BY DEF PushSucceeds, Bootstrap, At
  <2>2. CopyIsRight(job.st, files, tree, remote, made) BY <2>1, CurrentPlan
  <2>3. Made(made) = {} /\ ~Started(remote, made) BY <1>2, <2>2 DEF CopyIsRight, Started
  <2>4. /\ Branching(tree', remote', made') /\ made' = made
        /\ remote'.exists = remote.exists
    BY <1>2, <2>1, BesideStep
  <2>5. tree' = tree /\ remote.exists BY <1>2 DEF PushSucceeds, Send
  <2>6. Synced(tree', remote') BY <2>3, <2>4 DEF Branching, Synced
  <2> QED BY <2>3, <2>4, <2>5, <2>6
<1> QED BY <1>1, <1>2

\* So what was right of a copy is right of it, and of one that says so.
LEMMA PushedIsRight ==
  ASSUME NEW t, NEW s, Synced(t, s), s.exists, NEW r, NEW m,
         Started(r, m) => Started(s, m), NEW a, NEW b, b.cur = a.cur, b.phase = a.phase,
         b.checkpoints = a.checkpoints, b.branch = a.branch, NEW f
  PROVE  /\ Honest(b, t, s, m)
         /\ ~t.dirty /\ Deliverable(a, t, r, m) => Deliverable(b, t, s, m)
         /\ ~t.dirty \/ a.cur # "WAITING" =>
              (CopyIsRight(a, f, t, r, m) => CopyIsRight(b, f, t, s, m))
<1>1. Honest(b, t, s, m) BY DEF Honest
<1>2. ~t.dirty /\ Deliverable(a, t, r, m) => Deliverable(b, t, s, m) BY DEF Deliverable
<1> QED BY <1>1, <1>2 DEF CopyIsRight

\* The files stay right over a push.
LEMMA PushedFiles ==
  ASSUME Sound, PushSucceeds, ~tree.dirty \/ disk.cur \notin {"WAITING", "VERIFIED"}
  PROVE  FilesAreRight(disk', files', tree', remote', made')
<1>1. /\ tree' = tree /\ made' = made /\ disk' = disk /\ files' = files
      /\ Synced(tree, remote') /\ remote'.exists
      /\ Started(remote, made) => Started(remote', made)
  BY PushGives DEF PushSucceeds
<1>2. FilesAreRight(disk, files, tree, remote, made) BY Now
<1>3. /\ ~tree.dirty /\ Deliverable(disk, tree, remote, made) =>
           Deliverable(disk, tree, remote', made)
      /\ ~tree.dirty \/ disk.cur # "WAITING" =>
           (CopyIsRight(disk, files, tree, remote, made) =>
              CopyIsRight(disk, files, tree, remote', made))
  BY <1>1, PushedIsRight
<1> QED BY <1>1, <1>2, <1>3 DEF FilesAreRight

\* The initial push of a bootstrap, which may fail.
LEMMA InitialPush ==
  ASSUME Sound, PushSucceeds \/ PushLocked, At("initial push")
  PROVE  Right'
<1> DEFINE T == Of(job.todo)
           U == Of(Tail(job.todo))
           a(w) == [job.st EXCEPT !.push = w]
<1>1. /\ job.todo # << >> /\ Head(job.todo) = "initial push" /\ job.st \in State
      /\ T = {"initial push"} \cup U
      /\ CopyIsRight(job.st, files, tree, remote, made)
      /\ Calm(T, job.st, disk, tree, remote, made)
  BY Now, CurrentPlan, CalmNow DEF At
<1> HIDE DEF T, U
<1>2. ~tree.dirty BY <1>1 DEF Calm
<1>3. U \subseteq T /\ ("bootstrap" \in T => "bootstrap" \in U) BY <1>1
<1>4. << >> \in Steps /\ Of(<< >>) = {} BY OfPlans, ShortPlans
<1>5. CASE PushSucceeds
  <2>1. /\ tree' = tree /\ made' = made /\ disk' = disk /\ files' = files
        /\ Synced(tree, remote') /\ remote'.exists
        /\ Made(made) # {} => Started(remote', made)
        /\ Started(remote, made) => Started(remote', made)
        /\ GoOn(<< >>, a("pushed"))
    BY <1>5, PushGives DEF PushSucceeds
  <2>2. /\ a("pushed").cur = job.st.cur /\ a("pushed").phase = job.st.phase
        /\ a("pushed").checkpoints = job.st.checkpoints /\ a("pushed").branch = job.st.branch
    BY <1>1 DEF State
  <2> DEFINE b == a("pushed")
  <2> HIDE DEF a
  <2>3. /\ Honest(b, tree, remote', made)
        /\ Deliverable(job.st, tree, remote, made) => Deliverable(b, tree, remote', made)
        /\ CopyIsRight(b, files, tree, remote', made)
    BY <1>1, <1>2, <2>1, <2>2, PushedIsRight
  <2>4. Calm(U, b, disk, tree, remote', made)
    <3>1. U \cap Loud \subseteq T \cap Loud /\ U \cap Marking \subseteq T \cap Marking BY <1>3
    <3> QED BY <1>1, <1>2, <1>3, <2>1, <2>2, <2>3, <3>1 DEF Calm
  <2>5. PlanIsRight(job'.todo, job'.st, disk', files', tree', remote', made')
    <3>1. Calm(Of(<< >>) \cup U, b, disk', tree', remote', made') BY <1>4, <2>1, <2>4
    <3> QED BY <1>1, <1>4, <2>1, <2>3, <3>1, GoesCalmly DEF U
  <2>6. FilesAreRight(disk', files', tree', remote', made') BY <1>2, <1>5, PushedFiles
  <2> QED BY <2>5, <2>6 DEF Right
<1>6. CASE PushLocked
  <2>1. /\ tree' = tree /\ made' = made /\ disk' = disk /\ remote' = remote
        /\ files' = files
        /\ \/ GoOn(<< >>, a("skipped")) \/ GoOn(<< >>, a("failed"))
           \/ Pushed(job.st) /\ GoOn(<< >>, a("pushed"))
    BY <1>1, <1>6 DEF PushLocked, At
  <2>2. PICK w : /\ GoOn(<< >>, a(w))
                 /\ CopyIsRight(a(w), files, tree, remote, made)
                 /\ Calm(U, a(w), disk, tree, remote, made)
    <3>1. ASSUME Pushed(job.st)
          PROVE  /\ CopyIsRight(a("pushed"), files, tree, remote, made)
                 /\ Calm(U, a("pushed"), disk, tree, remote, made)
      BY <1>1, <1>3, <3>1, PushFound DEF T
    <3>2. ASSUME NEW w, w # "pushed"
          PROVE  /\ CopyIsRight(a(w), files, tree, remote, made)
                 /\ Calm(U, a(w), disk, tree, remote, made)
      BY <1>1, <1>3, <3>2, PushUnknown DEF T
    <3> HIDE DEF a
    <3> QED BY <2>1, <3>1, <3>2
  <2> HIDE DEF a
  <2>3. PlanIsRight(job'.todo, job'.st, disk', files', tree', remote', made')
    <3>1. Calm(Of(<< >>) \cup U, a(w), disk', tree', remote', made') BY <1>4, <2>1, <2>2
    <3> QED BY <1>1, <1>4, <2>1, <2>2, <3>1, GoesCalmly DEF U
  <2>4. FilesAreRight(disk', files', tree', remote', made') BY <2>1, Now
  <2> QED BY <2>3, <2>4 DEF Right
<1> QED BY <1>5, <1>6

\* Marking a phase: work has reached GitHub, if there is one.
LEMMA MarkRight == Sound /\ MarkCompleted => Right'
<1> SUFFICES ASSUME Sound, MarkCompleted PROVE Right' OBVIOUS
<1>1. /\ job.todo # << >> /\ Head(job.todo) = "graph" /\ job.st \in State
      /\ tree' = tree /\ made' = made /\ disk' = disk /\ remote' = remote
      /\ Mark(job.st.phase, "COMPLETED") /\ GoOn(<< >>, job.st)
  BY Now DEF MarkCompleted, At
<1>2. files'.packet = files.packet /\ files'.verified = files.verified
  BY <1>1, MarkAside DEF Sound
<1>3. PlanIsRight(job'.todo, job'.st, disk', files', tree', remote', made')
  <2>1. MinorPlan(<< >>) /\ Same(job.st, job.st) BY MinorPlans DEF Same
  <2>2. /\ Beside(tree, remote, tree', remote') /\ remote'.exists = remote.exists
        /\ tree'.branch = tree.branch
    BY <1>1 DEF Beside
  <2> QED BY <1>1, <1>2, <2>1, <2>2, CalmStep DEF MinorPlan
<1>4. ~tree.dirty /\ Started(remote, made)
  <2>1. Calm(Of(job.todo), job.st, disk, tree, remote, made) BY <1>1, CalmNow
  <2>2. "graph" \in Of(job.todo) BY <1>1, CurrentPlan
  <2>3. ~tree.dirty /\ Made(made) # {} /\ (Synced(tree, remote) \/ ~remote.exists)
    BY <2>1, <2>2 DEF Calm, Marking
  <2> QED BY <2>3, Now, MarkingStarted
<1>5. FilesAreRight(disk', files', tree', remote', made')
  <2>1. CopyIsRight(disk, files', tree, remote, made)
    BY <1>2, Now DEF FilesAreRight, CopyIsRight
  <2> QED BY <1>1, <1>4, <2>1, Now DEF FilesAreRight
<1> QED BY <1>3, <1>5 DEF Right

\* The end of a completion: the phase's work is on GitHub.
LEMMA CompleteRight == Sound /\ Complete => Right'
<1> SUFFICES ASSUME Sound, Complete PROVE Right' OBVIOUS
<1> DEFINE T == Of(job.todo)
           U == Of(Tail(job.todo))
<1>1. /\ job.todo # << >> /\ Head(job.todo) = "complete" /\ job.st \in State
      /\ tree' = tree /\ made' = made /\ files' = files /\ remote' = remote
      /\ disk' = [job.st EXCEPT !.cur = "COMPLETED", !.finished = @ \/ AllCompleted(files.node)]
      /\ GoOn(<< >>, disk')
  BY Now DEF Complete, At
<1>2. /\ disk'.cur = "COMPLETED" /\ disk'.phase = job.st.phase /\ disk'.commit = job.st.commit
      /\ disk'.branch = job.st.branch /\ disk'.push = job.st.push
  BY <1>1 DEF State
<1>3. /\ CopyIsRight(job.st, files, tree, remote, made)
      /\ Calm(T, job.st, disk, tree, remote, made)
      /\ T = {"complete"} \cup U /\ U \cap Marking = {}
  BY <1>1, CalmNow, CurrentPlan
<1> HIDE DEF T, U
<1>4. Branching(tree, remote, made) BY Now
<1>5. ~tree.dirty /\ Made(made) # {} /\ (Synced(tree, remote) \/ ~remote.exists)
  BY <1>3 DEF Calm, Marking
<1>6. Started(remote, made) BY <1>4, <1>5, MarkingStarted
<1>7. Honest(disk', tree, remote, made) BY <1>4, <1>5 DEF Branching, Honest, Sent
<1>8. disk'.push = "pushed" => Synced(tree, remote) BY <1>2, <1>3, <1>5 DEF CopyIsRight
<1>9. CopyIsRight(disk', files, tree, remote, made)
  BY <1>2, <1>3, <1>6, <1>7, <1>8 DEF CopyIsRight
<1>10. Calm(U, disk', disk', tree, remote, made)
  <2>1. U \cap Loud \subseteq T \cap Loud BY <1>3
  <2> QED BY <1>2, <1>3, <1>5, <1>7, <1>8, <2>1 DEF Calm
<1>11. PlanIsRight(job'.todo, job'.st, disk', files', tree', remote', made')
  <2>1. << >> \in Steps /\ Of(<< >>) = {} BY OfPlans, ShortPlans
  <2>2. Calm(Of(<< >>) \cup U, disk', disk', tree', remote', made') BY <1>1, <1>10, <2>1
  <2> QED BY <1>1, <1>9, <2>1, <2>2, GoesCalmly DEF U
<1>12. FilesAreRight(disk', files', tree', remote', made')
  BY <1>1, <1>2, <1>9, Now DEF FilesAreRight
<1> QED BY <1>11, <1>12 DEF Right

\* Marking a phase otherwise completes nothing.
LEMMA MarkOther ==
  ASSUME Sound, NEW p, NEW s \in Status, s # "COMPLETED", Mark(p, s)
  PROVE  FilesAreRight(disk, files', tree, remote, made)
<1>1. /\ FilesAreRight(disk, files, tree, remote, made)
      /\ files \in [node : [Phase -> Status], packet : BOOLEAN, verified : BOOLEAN]
  BY Now
<1>2. /\ files'.node = SetStatus(Deps, files.node, p, s)
      /\ files'.verified = files.verified /\ files'.packet = files.packet
  BY <1>1 DEF Mark
<1>3. \A q \in Phase : files.node[q] # "COMPLETED" => files'.node[q] # "COMPLETED"
  BY <1>1, <1>2, CompletesNothing
<1>4. CopyIsRight(disk, files', tree, remote, made)
  BY <1>1, <1>2 DEF FilesAreRight, CopyIsRight
<1>5. AllCompleted(files'.node) => AllCompleted(files.node)
  <2>1. files'.node \in [Phase -> Status]
    <3>1. \A n \in [Phase -> Status] : Refresh(Deps, n) \in [Phase -> Status] BY PassType
    <3>2. [files.node EXCEPT ![p] = s] \in [Phase -> Status] BY <1>1
    <3> QED BY <1>1, <1>2, <3>1, <3>2 DEF SetStatus
  <2> QED BY <1>1, <1>3, <2>1 DEF AllCompleted
<1> QED BY <1>1, <1>2, <1>3, <1>4, <1>5 DEF FilesAreRight

\* The plan of a push, and what it may rely on.
LEMMA PushPlanNow ==
  ASSUME Sound, At("push")
  PROVE  /\ job.todo # << >> /\ job.st \in State /\ job.st.branch
         /\ Of(job.todo) = {"push"} \cup Of(Tail(job.todo))
         /\ CopyIsRight(job.st, files, tree, remote, made)
         /\ Pushes(Of(Tail(job.todo)), job.st, disk, tree, remote, made)
         /\ ~tree.dirty \/ (job.st.cur = "COMPLETED" /\ disk.cur = "COMPLETED")
         /\ Pushed(job.st) <=> Sent(job.st, remote)
         /\ Sent(job.st, remote) => Synced(tree, remote)
<1>1. job.todo # << >> /\ Head(job.todo) = "push" /\ job.st \in State BY Now DEF At
<1>2. /\ Of(job.todo) = {"push"} \cup Of(Tail(job.todo))
      /\ CopyIsRight(job.st, files, tree, remote, made)
      /\ Pushes(Of(Tail(job.todo)), job.st, disk, tree, remote, made)
  BY <1>1, CurrentPlan DEF Fits
<1>3. ~tree.dirty \/ (job.st.cur = "COMPLETED" /\ disk.cur = "COMPLETED")
  BY <1>2 DEF Pushes
<1>4. \/ Made(made) # {} /\ Deliverable(job.st, tree, remote, made)
      \/ Started(remote, made) /\ Honest(job.st, tree, remote, made)
  <2>1. "COMPLETED" \notin Unsettled BY DEF Unsettled
  <2> QED BY <1>2, <2>1 DEF Pushes, CopyIsRight
<1>5. job.st.branch BY <1>2, <1>4 DEF Started, CopyIsRight
<1>6. Pushed(job.st) <=> Sent(job.st, remote) BY <1>5 DEF Pushed, Sent
<1>7. Sent(job.st, remote) => Synced(tree, remote) BY <1>4 DEF Deliverable, Honest
<1> QED BY <1>1, <1>2, <1>3, <1>5, <1>6, <1>7

\* A push that succeeds, is not needed or cannot be, is followed by a calm plan.
LEMMA PushGoesOn ==
  ASSUME Sound, At("push"), \/ PushSucceeds
                            \/ PushLocked /\ (~remote.exists \/ Pushed(job.st))
  PROVE  Right'
<1> DEFINE U == Of(Tail(job.todo))
           a(w) == [job.st EXCEPT !.push = w]
<1>1. /\ job.todo # << >> /\ job.st \in State
      /\ CopyIsRight(job.st, files, tree, remote, made)
      /\ Pushes(U, job.st, disk, tree, remote, made)
      /\ ~tree.dirty \/ (job.st.cur = "COMPLETED" /\ disk.cur = "COMPLETED")
      /\ Pushed(job.st) => Synced(tree, remote)
  BY PushPlanNow
<1> HIDE DEF U
<1>2. Closing(U) BY <1>1 DEF Pushes
<1>3. U \cap Loud = {} /\ "initial push" \notin U /\ "back" \notin U
      /\ ("select" \in U => "bootstrap" \in U)
  BY <1>2 DEF Closing, Loud
<1>4. << >> \in Steps /\ Of(<< >>) = {} BY OfPlans, ShortPlans
<1>5. \A w : /\ a(w).cur = job.st.cur /\ a(w).phase = job.st.phase
             /\ a(w).checkpoints = job.st.checkpoints /\ a(w).branch = job.st.branch
             /\ a(w).commit = job.st.commit /\ a(w).push = w
  BY <1>1 DEF State
<1> HIDE DEF a
<1>6. ASSUME NEW w, GoOn(<< >>, a(w)), CopyIsRight(a(w), files', tree', remote', made'),
             FilesAreRight(disk', files', tree', remote', made'),
             disk' = disk, tree' = tree, made' = made,
             Synced(tree', remote') \/ (~remote'.exists /\ w # "pushed"),
             job.st.cur # "COMPLETED" /\ Deliverable(job.st, tree, remote, made) =>
               Deliverable(a(w), tree', remote', made')
      PROVE  Right'
  <2>1. Calm(U, a(w), disk', tree', remote', made')
    BY <1>1, <1>3, <1>5, <1>6 DEF Calm, Pushes
  <2>2. Calm(Of(<< >>) \cup U, a(w), disk', tree', remote', made') BY <1>4, <2>1
  <2>3. PlanIsRight(job'.todo, job'.st, disk', files', tree', remote', made')
    BY <1>1, <1>4, <1>6, <2>2, GoesCalmly DEF U
  <2> QED BY <1>6, <2>3 DEF Right
<1>7. CASE PushSucceeds
  <2>1. /\ tree' = tree /\ made' = made /\ disk' = disk /\ files' = files
        /\ Synced(tree, remote') /\ remote'.exists
        /\ Started(remote, made) => Started(remote', made)
        /\ GoOn(<< >>, a("pushed"))
    BY <1>7, PushGives DEF PushSucceeds, a
  <2> DEFINE b == a("pushed")
  <2>2. /\ b.cur = job.st.cur /\ b.phase = job.st.phase
        /\ b.checkpoints = job.st.checkpoints /\ b.branch = job.st.branch
    BY <1>5
  <2> HIDE DEF b
  <2>3. /\ ~tree.dirty /\ Deliverable(job.st, tree, remote, made) =>
             Deliverable(b, tree, remote', made)
        /\ CopyIsRight(b, files, tree, remote', made)
    BY <1>1, <2>1, <2>2, PushedIsRight
  <2>4. FilesAreRight(disk', files', tree', remote', made')
    <3>1. ~tree.dirty \/ disk.cur \notin {"WAITING", "VERIFIED"} BY <1>1
    <3> QED BY <1>7, <3>1, PushedFiles
  <2> QED BY <1>1, <1>6, <2>1, <2>3, <2>4 DEF b
<1>8. CASE PushLocked /\ (~remote.exists \/ Pushed(job.st))
  <2>1. /\ tree' = tree /\ made' = made /\ disk' = disk /\ remote' = remote
        /\ files' = files
        /\ \/ ~remote.exists /\ GoOn(<< >>, a("skipped"))
           \/ remote.exists /\ Pushed(job.st) /\ GoOn(<< >>, a("pushed"))
    BY <1>8, PushPlanNow DEF PushLocked, At, a
  <2>2. ASSUME NEW w, w = "pushed" => remote.exists /\ Synced(tree, remote)
        PROVE  /\ CopyIsRight(a(w), files, tree, remote, made)
               /\ Deliverable(job.st, tree, remote, made) => Deliverable(a(w), tree, remote, made)
    <3>1. Sent(a(w), remote) <=> Sent(job.st, remote) BY <1>5 DEF Sent
    <3>2. /\ Deliverable(a(w), tree, remote, made) <=> Deliverable(job.st, tree, remote, made)
          /\ Honest(a(w), tree, remote, made) <=> Honest(job.st, tree, remote, made)
      BY <1>5, <3>1 DEF Deliverable, Honest
    <3> QED BY <1>1, <1>5, <2>2, <3>2 DEF CopyIsRight
  <2>3. FilesAreRight(disk', files', tree', remote', made') BY <2>1, Now
  <2>4. CASE ~remote.exists /\ GoOn(<< >>, a("skipped"))
    BY <1>6, <2>1, <2>2, <2>3, <2>4
  <2>5. CASE remote.exists /\ Pushed(job.st) /\ GoOn(<< >>, a("pushed"))
    BY <1>1, <1>6, <2>1, <2>2, <2>3, <2>5
  <2> QED BY <2>1, <2>4, <2>5
<1> QED BY <1>7, <1>8

\* A push that fails stops the completion for a human, who is told so.
LEMMA PushFails ==
  ASSUME Sound, At("push"), PushLocked, remote.exists, ~Pushed(job.st)
  PROVE  Right'
<1> DEFINE rest == Tail(job.todo)
           U == Of(rest)
           left == AfterCompletion(rest)
           a == [job.st EXCEPT !.push = "failed", !.cur = "WAITING"]
           todo == <<"save">> \o left
<1>1. /\ job.todo # << >> /\ job.st \in State /\ job.st.branch
      /\ CopyIsRight(job.st, files, tree, remote, made)
      /\ Pushes(U, job.st, disk, tree, remote, made)
      /\ ~tree.dirty \/ (job.st.cur = "COMPLETED" /\ disk.cur = "COMPLETED")
      /\ Pushed(job.st) <=> Sent(job.st, remote)
  BY PushPlanNow
<1>2. rest \in Steps /\ NoneAfter(rest, {"bootstrap", "complete"}, Marking)
  BY <1>1, CurrentPlan
<1>3. /\ tree' = tree /\ made' = made /\ disk' = disk /\ remote' = remote
      /\ Mark(job.st.phase, "WAITING_FOR_HUMAN")
      /\ job' = [job EXCEPT !.st = a, !.todo = todo]
  BY DEF PushLocked, At
<1>4. /\ a.cur = "WAITING" /\ a.push = "failed" /\ a.phase = job.st.phase
      /\ a.checkpoints = job.st.checkpoints /\ a.branch = job.st.branch
      /\ a.commit = job.st.commit
  BY <1>1 DEF State
<1> HIDE DEF a, todo
<1>5. job'.todo = todo /\ job'.st = a
  <2>1. IInv BY DEF Sound, WInv
  <2>2. DOMAIN job = DOMAIN NoJob /\ "todo" \in DOMAIN NoJob /\ "st" \in DOMAIN NoJob
    BY <2>1, CopyOK DEF NoJob
  <2> QED BY <1>3, <2>2
<1> HIDE DEF rest
<1>6. /\ left \in Steps /\ NoneAfter(left, {"bootstrap", "complete"}, Marking)
      /\ \/ left = rest /\ None(rest, {"complete"})
         \/ \A T : NoneAfter(rest, {"complete"}, T) => None(left, T)
  BY <1>2, AfterCompletionOrder
<1>7. Of(left) \subseteq U
  <2>1. Planned(rest)
    <3>1. IInv BY DEF Sound, WInv
    <3>2. job.todo \in Steps /\ Planned(job.todo) BY <3>1 DEF IInv, JobOK
    <3> QED BY <1>1, <3>2, TailPlanned DEF rest
  <2>2. ASSUME NEW x, x \notin U PROVE x \notin Of(left)
    <3>1. None(rest, {x}) BY <1>2, <2>2, NotOf
    <3>2. None(left, {x}) BY <1>2, <2>1, <3>1, AfterCompletionPlanned
    <3> QED BY <1>6, <3>2, NotOf
  <2> QED BY <2>2
<1> HIDE DEF left, U
<1>8. Closing(U) BY <1>1 DEF Pushes
<1>9. Of(left) \cap Marking = {}
  <2>1. CASE left = rest /\ None(rest, {"complete"})
    <3>1. "complete" \notin U BY <1>2, <2>1, NotOf DEF U
    <3>2. U \cap Marking = {} BY <1>8, <3>1 DEF Closing, Marking
    <3> QED BY <1>7, <3>2
  <2>2. CASE \A T : NoneAfter(rest, {"complete"}, T) => None(left, T)
    <3>1. NoneAfter(rest, {"complete"}, Marking) BY <1>2 DEF NoneAfter
    <3>2. None(left, Marking) BY <2>2, <3>1
    <3> QED BY <1>6, <3>2, NotOf
  <2> QED BY <1>6, <2>1, <2>2
<1>10. tree.dirty => ("select" \in Of(left) => "bootstrap" \in Of(left))
  <2> SUFFICES ASSUME tree.dirty, "select" \in Of(left) PROVE "bootstrap" \in Of(left) OBVIOUS
  <2>1. None(rest, {"complete"})
    <3>1. U \cap {"complete"} = {} BY <1>1 DEF Pushes, Marking
    <3> QED BY <1>2, <3>1, NotOf DEF U
  <2>2. CASE left = rest BY <1>8, <2>2 DEF Closing, U
  <2>3. CASE \A T : NoneAfter(rest, {"complete"}, T) => None(left, T)
    <3>1. NoneAfter(rest, {"complete"}, {"select"}) BY <2>1, NoneNeeds
    <3>2. None(left, {"select"}) BY <2>3, <3>1
    <3>3. Of(left) \cap {"select"} = {} BY <1>6, <3>2, NotOf
    <3> QED BY <3>3
  <2> QED BY <1>6, <2>2, <2>3
<1>11. ~Sent(a, remote) BY <1>1, <1>4 DEF Sent
<1>12. Deliverable(a, tree, remote, made)
  <2>1. "COMPLETED" \notin Unsettled BY DEF Unsettled
  <2>2. job.st.phase \in job.st.checkpoints \/ Started(remote, made)
    BY <1>1 DEF Pushes, Deliverable, CopyIsRight
  <2> QED BY <1>4, <1>11, <2>2 DEF Deliverable
<1>13. Honest(a, tree, remote, made) BY <1>11 DEF Honest
<1>14. CopyIsRight(a, files', tree, remote, made)
  BY <1>1, <1>4, <1>12, <1>13 DEF CopyIsRight
<1>15. Calm({"save"} \cup Of(left), a, disk, tree, remote, made)
  <2>1. ({"save"} \cup Of(left)) \cap Loud = {} BY <1>7, <1>8 DEF Closing, Loud
  <2>2. ({"save"} \cup Of(left)) \cap Marking = {} BY <1>9 DEF Marking
  <2>3. "initial push" \notin Of(left) /\ "back" \notin Of(left) BY <1>7, <1>8 DEF Closing
  <2> QED BY <1>4, <1>10, <1>13, <2>1, <2>2, <2>3 DEF Calm
<1>16. /\ todo \in Steps /\ Of(todo) = {"save"} \cup Of(left)
       /\ NoneAfter(todo, {"bootstrap", "complete"}, Marking)
  <2>1. <<"save">> \in Steps /\ Of(<<"save">>) = {"save"} BY ShortPlans, OfPlans DEF StepName
  <2>2. NoneAfter(<<"save">>, {"bootstrap", "complete"}, Marking)
    <3>1. Of(<<"save">>) \cap {"bootstrap", "complete"} = {} BY <2>1
    <3> QED BY <2>1, <3>1, NotOf
  <2>3. None(left, Marking) BY <1>6, <1>9, NotOf
  <2>4. todo \in Steps /\ Of(todo) = Of(<<"save">>) \cup Of(left)
    BY <1>6, <2>1, OfPlans, ConcatIndex DEF todo
  <2>5. NoneAfter(todo, {"bootstrap", "complete"}, Marking)
    BY <1>6, <2>1, <2>2, <2>3, NoneAfterConcat DEF todo
  <2> QED BY <2>1, <2>4, <2>5
<1>17. PlanIsRight(todo, a, disk, files', tree, remote, made)
  BY <1>14, <1>15, <1>16, CalmIsRight
<1>18. FilesAreRight(disk, files', tree, remote, made)
  <2>1. "WAITING_FOR_HUMAN" \in Status BY DEF Status
  <2> QED BY <1>3, <2>1, MarkOther
<1> QED BY <1>3, <1>5, <1>17, <1>18 DEF Right

\* The push of a completion or a recovery.
LEMMA PushRight == Sound /\ At("push") /\ (PushSucceeds \/ PushLocked) => Right'
<1> SUFFICES ASSUME Sound, At("push"), PushSucceeds \/ PushLocked PROVE Right' OBVIOUS
<1>1. CASE PushLocked /\ remote.exists /\ ~Pushed(job.st) BY <1>1, PushFails
<1>2. CASE PushSucceeds \/ (PushLocked /\ (~remote.exists \/ Pushed(job.st)))
  BY <1>2, PushGoesOn
<1> QED BY <1>1, <1>2

-----------------------------------------------------------------------------
\* Checkpoints, recovery and tests

\* A completion and what may follow it.
LEMMA CompletionAhead ==
  ASSUME NEW t \in Steps, Of(t) \subseteq {"reconcile", "save", "bootstrap", "select"}
  PROVE  LET todo == CompletionSteps \o t
         IN  /\ todo \in Steps /\ todo # << >> /\ Head(todo) = "checkpoint"
             /\ Tail(todo) # << >> /\ Head(Tail(todo)) = "push"
             /\ Of(Tail(Tail(todo))) = {"deliver", "graph", "complete"} \cup Of(t)
             /\ NoneAfter(todo, {"bootstrap", "complete"}, Marking)
<1> DEFINE s == CompletionSteps
           todo == s \o t
           v == Tail(todo)
           u == Tail(v)
<1>1. s \in Steps /\ Len(s) = 5 BY CompletionInOrder DEF CompletionSteps
<1>2. /\ s[1] = "checkpoint" /\ s[2] = "push" /\ s[3] = "deliver" /\ s[4] = "graph"
      /\ s[5] = "complete"
  BY DEF CompletionSteps
<1> HIDE DEF s
<1>3. /\ todo \in Steps /\ Len(todo) = 5 + Len(t) /\ Len(t) \in Nat
      /\ \A i \in 1 .. 5 : todo[i] = s[i]
      /\ \A i \in 1 .. Len(t) : todo[i + 5] = t[i]
  <2>1. /\ todo \in Steps /\ Len(todo) = Len(s) + Len(t) /\ Len(t) \in Nat
        /\ \A i \in 1 .. Len(s) : todo[i] = s[i]
        /\ \A i \in 1 .. Len(t) : todo[i + Len(s)] = t[i]
    BY <1>1, ConcatIndex
  <2> HIDE DEF todo
  <2> QED BY <1>1, <2>1
<1> HIDE DEF todo
<1>4. todo # << >>
  <2>1. Len(<< >>) = 0 OBVIOUS
  <2> QED BY <1>3, <2>1
<1>5. /\ v \in Steps /\ Len(v) = 4 + Len(t) /\ Head(todo) = todo[1]
      /\ \A i \in 1 .. Len(v) : v[i] = todo[i + 1]
  BY <1>3, <1>4, TailIndex
<1> HIDE DEF v
<1>6. v # << >>
  <2>1. Len(<< >>) = 0 OBVIOUS
  <2> QED BY <1>3, <1>5, <2>1
<1>7. /\ u \in Steps /\ Len(u) = 3 + Len(t) /\ Head(v) = v[1]
      /\ \A i \in 1 .. Len(u) : u[i] = v[i + 1]
  BY <1>3, <1>5, <1>6, TailIndex
<1> HIDE DEF u
<1>8. Head(todo) = "checkpoint" /\ Head(v) = "push"
  <2>1. 1 \in 1 .. 5 /\ 2 \in 1 .. 5 /\ 1 \in 1 .. Len(v) /\ 1 + 1 = 2 BY <1>3, <1>5
  <2>2. v[1] = todo[2] BY <1>5, <2>1
  <2> QED BY <1>2, <1>3, <1>5, <1>7, <2>1, <2>2
<1>9. \A i \in 1 .. Len(u) : u[i] = todo[i + 2]
  <2> SUFFICES ASSUME NEW i \in 1 .. Len(u) PROVE u[i] = todo[i + 2] OBVIOUS
  <2>1. i + 1 \in 1 .. Len(v) /\ (i + 1) + 1 = i + 2 BY <1>3, <1>5, <1>7
  <2> QED BY <1>5, <1>7, <2>1
<1>10. u[1] = "deliver" /\ u[2] = "graph" /\ u[3] = "complete"
  <2>1. /\ 1 \in 1 .. Len(u) /\ 2 \in 1 .. Len(u) /\ 3 \in 1 .. Len(u)
        /\ 1 + 2 = 3 /\ 2 + 2 = 4 /\ 3 + 2 = 5
        /\ 3 \in 1 .. 5 /\ 4 \in 1 .. 5 /\ 5 \in 1 .. 5
    BY <1>3, <1>7
  <2> QED BY <1>2, <1>3, <1>9, <2>1
<1>11. \A i \in 1 .. Len(t) : u[i + 3] = t[i] /\ i + 3 \in 1 .. Len(u)
  <2> SUFFICES ASSUME NEW i \in 1 .. Len(t)
               PROVE  u[i + 3] = t[i] /\ i + 3 \in 1 .. Len(u)
    OBVIOUS
  <2>1. i + 3 \in 1 .. Len(u) /\ (i + 3) + 2 = i + 5 BY <1>3, <1>7
  <2> QED BY <1>3, <1>9, <2>1
<1>12. Of(u) = {"deliver", "graph", "complete"} \cup Of(t)
  <2>1. ASSUME NEW i \in 1 .. Len(u) PROVE u[i] \in {"deliver", "graph", "complete"} \cup Of(t)
    <3>1. CASE i \in 1 .. 3
      <4>1. i = 1 \/ i = 2 \/ i = 3 BY <3>1
      <4> QED BY <1>10, <4>1
    <3>2. CASE i \notin 1 .. 3
      <4> DEFINE k == i - 3
      <4>1. k \in 1 .. Len(t) /\ k + 3 = i BY <1>3, <1>7, <3>2
      <4> HIDE DEF k
      <4> QED BY <1>11, <4>1 DEF Of
    <3> QED BY <3>1, <3>2
  <2>2. 1 \in 1 .. Len(u) /\ 2 \in 1 .. Len(u) /\ 3 \in 1 .. Len(u) BY <1>3, <1>7
  <2>3. {"deliver", "graph", "complete"} \subseteq Of(u) BY <1>10, <2>2 DEF Of
  <2>4. Of(t) \subseteq Of(u) BY <1>11 DEF Of
  <2> QED BY <2>1, <2>3, <2>4 DEF Of
<1>13. NoneAfter(todo, {"bootstrap", "complete"}, Marking)
  <2>1. Of(t) \cap Marking = {} BY DEF Marking
  <2>2. None(t, Marking) /\ NoneAfter(t, {"bootstrap", "complete"}, Marking)
    BY <2>1, NotOf
  <2>3. \A i \in 1 .. 5 : s[i] \in {"bootstrap", "complete"} => i = 5
    <3>1. \A i \in 1 .. 5 : i = 1 \/ i = 2 \/ i = 3 \/ i = 4 \/ i = 5 OBVIOUS
    <3> QED BY <1>2, <3>1
  <2>4. (5 + 1) .. 5 = {} OBVIOUS
  <2>5. NoneAfter(s, {"bootstrap", "complete"}, Marking) BY <1>1, <2>3, <2>4 DEF NoneAfter
  <2> QED BY <1>1, <2>2, <2>5, NoneAfterConcat DEF todo
<1> QED BY <1>3, <1>4, <1>6, <1>8, <1>12, <1>13 DEF s, todo, v, u

\* A checkpoint leaves what may be pushed: a commit of its own, which git has not
\* sent, or one that is there.
LEMMA CheckpointRight == Sound /\ Checkpoint => Branching(tree', remote', made') /\ Right'
<1> SUFFICES ASSUME Sound, Checkpoint PROVE Branching(tree', remote', made') /\ Right'
  OBVIOUS
<1> DEFINE st == job.st
           rest == Tail(job.todo)
           U == Of(Tail(rest))
<1>1. /\ job.todo # << >> /\ Head(job.todo) = "checkpoint" /\ st \in State
      /\ disk' = disk /\ files' = files /\ remote' = remote
      /\ tree \in Tree /\ remote \in Remote /\ made \in [Phase -> SUBSET Commit]
      /\ Branching(tree, remote, made)
      /\ FilesAreRight(disk, files, tree, remote, made)
  BY Now DEF Checkpoint, At
<1>2. /\ files.verified /\ st.phase = disk.phase /\ disk.phase \in Phase
      /\ tree.dirty \/ made[disk.phase] # {}
  <2>1. WInv BY DEF Sound
  <2>2. files.verified /\ st.phase = disk.phase /\ disk.phase \in Phase
    BY <1>1, <2>1, WorkingPhase DEF Working
  <2>3. FilesOK(disk, files, tree, made) BY <2>1, Given
  <2> QED BY <2>2, <2>3 DEF FilesOK
<1>3. /\ CopyIsRight(st, files, tree, remote, made)
      /\ rest \in Steps /\ rest # << >> /\ Head(rest) = "push"
      /\ NoneAfter(rest, {"bootstrap", "complete"}, Marking)
      /\ Checks(U, st, disk, tree, remote, made)
  BY <1>1, CurrentPlan DEF Fits
<1>4. << >> \o rest = rest BY <1>3, ConcatEmptySeq DEF Steps
<1> HIDE DEF rest, U
<1>5. "graph" \in U /\ Closing(U) /\ disk.cur \in {"VERIFYING", "VERIFIED"}
  BY <1>3 DEF Checks
<1>6. st.phase # NoPhase
  BY <1>2, PhaseAssumption DEF Phase, NoPhase
<1>7. ASSUME NEW a, GoOn(<< >>, a), CopyIsRight(a, files, tree', remote, made'),
             ~tree'.dirty, Made(made') # {}, Deliverable(a, tree', remote, made')
      PROVE  PlanIsRight(job'.todo, job'.st, disk', files', tree', remote', made')
  <2>1. Pushes(U, a, disk, tree', remote, made') BY <1>5, <1>7 DEF Pushes, Marking
  <2>2. Fits(rest, a, disk, tree', remote, made') BY <1>3, <2>1 DEF Fits, U
  <2>3. PlanIsRight(rest, a, disk, files, tree', remote, made')
    BY <1>3, <1>7, <2>2 DEF PlanIsRight
  <2> QED BY <1>1, <1>4, <1>7, <2>3, GoesOnRight DEF rest
<1>8. CASE tree.dirty
  <2> DEFINE c == Cardinality(Made(made)) + 1
             w == IF st.push \in {"", "pushed"} THEN "pending" ELSE st.push
             a == [st EXCEPT !.commit = c, !.checkpoints = @ \cup {st.phase}, !.push = w]
  <2>1. /\ Branching(tree', remote', made') /\ Made(made') # {}
        /\ ~tree'.dirty /\ tree'.branch
        /\ ~Sent([st EXCEPT !.commit = c], remote) /\ GoOn(<< >>, a)
    BY <1>8, CommitStep
  <2>2. /\ a.cur = st.cur /\ a.phase = st.phase /\ a.branch = st.branch /\ a.commit = c
        /\ st.phase \in a.checkpoints /\ a.push # "pushed"
        /\ [st EXCEPT !.commit = c].commit = c
    BY <1>1 DEF State
  <2> HIDE DEF c, w, a
  <2>3. ~Sent(a, remote) BY <2>1, <2>2 DEF Sent
  <2>4. Started(remote, made) => Started(remote, made') BY <2>1 DEF Started
  <2>5. Deliverable(a, tree', remote, made') /\ Honest(a, tree', remote, made')
    BY <2>2, <2>3 DEF Deliverable, Honest
  <2>6. CopyIsRight(a, files, tree', remote, made')
    BY <1>3, <1>6, <2>2, <2>4, <2>5 DEF CopyIsRight
  <2>7. FilesAreRight(disk, files, tree', remote, made')
    <3>1. CASE disk.cur = "VERIFYING"
      <4>1. CopyIsRight(disk, files, tree', remote, made')
        BY <1>1, <1>2, <1>6, <2>1, <3>1 DEF FilesAreRight, CopyIsRight, Unsettled
      <4> QED BY <1>1, <2>1, <2>4, <3>1, <4>1 DEF FilesAreRight
    <3>2. CASE disk.cur = "VERIFIED"
      <4>1. Deliverable(disk, tree, remote, made) BY <1>1, <3>2 DEF FilesAreRight
      <4>2. ~Sent(disk, remote) BY <1>8, <4>1 DEF Deliverable
      <4>3. Deliverable(disk, tree', remote, made') BY <2>4, <4>1, <4>2 DEF Deliverable
      <4>4. Honest(disk, tree', remote, made') BY <4>2 DEF Honest
      <4>5. CopyIsRight(disk, files, tree', remote, made')
        BY <1>1, <1>2, <1>6, <3>2, <4>4 DEF FilesAreRight, CopyIsRight
      <4> QED BY <1>1, <2>1, <2>4, <3>2, <4>3, <4>5 DEF FilesAreRight
    <3> QED BY <1>5, <3>1, <3>2
  <2>8. PlanIsRight(job'.todo, job'.st, disk', files', tree', remote', made')
    BY <1>7, <2>1, <2>5, <2>6
  <2> QED BY <1>1, <2>1, <2>7, <2>8 DEF Right
<1>9. CASE ~tree.dirty
  <2> DEFINE new == [st EXCEPT !.commit = Tip(tree[tree.head]), !.checkpoints = @ \cup {st.phase}]
             a == IF st.phase \in st.checkpoints THEN st ELSE new
  <2>1. tree' = tree /\ made' = made /\ GoOn(<< >>, a) BY <1>9 DEF Checkpoint
  <2>2. Made(made) # {} BY <1>2, <1>9 DEF Made
  <2>3. /\ new.cur = st.cur /\ new.phase = st.phase /\ new.branch = st.branch
        /\ new.commit = Tip(tree[tree.head]) /\ st.phase \in new.checkpoints
        /\ new.push = st.push
    BY <1>1 DEF State
  <2> HIDE DEF new
  <2>4. Deliverable(a, tree, remote, made)
    <3>1. CASE st.phase \in st.checkpoints
      BY <1>3, <1>9, <3>1 DEF Checks, Deliverable
    <3>2. CASE st.phase \notin st.checkpoints
      <4>1. Sent(new, remote) => Synced(tree, remote)
        <5>1. CASE tree.head = "feature" BY <1>1, <2>3, <5>1, TipsAreRight
        <5>2. CASE tree.head = "base"
          <6>1. Started(remote, made) BY <1>3, <1>9, <3>2, <5>2 DEF Checks
          <6>2. Sent(new, remote) => remote.feature = {} BY <1>1, <2>3, <5>2, TipsAreRight
          <6> QED BY <6>1, <6>2 DEF Sent, Started
        <5> QED BY <1>1, <5>1, <5>2 DEF Tree, Branch
      <4> QED BY <1>9, <2>3, <3>2, <4>1 DEF Deliverable
    <3> QED BY <3>1, <3>2
  <2>5. a.cur = st.cur /\ a.phase = st.phase /\ a.branch = st.branch /\ a.push = st.push
    BY <2>3
  <2> HIDE DEF a
  <2>6. Honest(a, tree, remote, made) BY <2>4 DEF Deliverable, Honest
  <2>7. CopyIsRight(a, files, tree, remote, made)
    BY <1>3, <2>4, <2>5, <2>6 DEF CopyIsRight
  <2>8. PlanIsRight(job'.todo, job'.st, disk', files', tree', remote', made')
    BY <1>7, <1>9, <2>1, <2>2, <2>4, <2>7
  <2> QED BY <1>1, <2>1, <2>8 DEF Right
<1> QED BY <1>8, <1>9

\* A first step put before a plan.
LEMMA HeadTailOfPush ==
  ASSUME NEW t \in Steps
  PROVE  LET todo == <<"push">> \o t
         IN  todo # << >> /\ Head(todo) = "push" /\ Tail(todo) = t
<1> DEFINE s == <<"push">>
           todo == s \o t
           v == Tail(todo)
<1>1. s \in Steps /\ Len(s) = 1 /\ s[1] = "push" BY ShortPlans DEF StepName
<1> HIDE DEF s
<1>2. /\ todo \in Steps /\ Len(todo) = 1 + Len(t) /\ Len(t) \in Nat
      /\ todo[1] = "push" /\ \A i \in 1 .. Len(t) : todo[i + 1] = t[i]
  <2>1. /\ todo \in Steps /\ Len(todo) = Len(s) + Len(t) /\ Len(t) \in Nat
        /\ \A i \in 1 .. Len(s) : todo[i] = s[i]
        /\ \A i \in 1 .. Len(t) : todo[i + Len(s)] = t[i]
    BY <1>1, ConcatIndex
  <2> HIDE DEF todo
  <2>2. 1 \in 1 .. Len(s) BY <1>1
  <2> QED BY <1>1, <2>1, <2>2
<1> HIDE DEF todo
<1>3. todo # << >>
  <2>1. Len(<< >>) = 0 OBVIOUS
  <2> QED BY <1>2, <2>1
<1>4. /\ v \in Steps /\ Len(v) = Len(t) /\ Head(todo) = "push"
      /\ \A i \in 1 .. Len(v) : v[i] = t[i]
  <2>1. /\ v \in Steps /\ Len(v) = Len(todo) - 1 /\ Head(todo) = todo[1]
        /\ \A i \in 1 .. Len(v) : v[i] = todo[i + 1]
    BY <1>2, <1>3, TailIndex
  <2> HIDE DEF v
  <2> QED BY <1>2, <2>1
<1> HIDE DEF v
<1>5. v = t BY <1>4, SeqEqual DEF Steps
<1> QED BY <1>3, <1>4, <1>5 DEF s, todo, v

\* A plan that begins with the completion of what is or has just been verified.
LEMMA CompletesRight ==
  ASSUME NEW rest \in Steps, Of(rest) \subseteq {"reconcile", "save", "bootstrap", "select"},
         "select" \in Of(rest) => "bootstrap" \in Of(rest),
         NEW st, NEW d, NEW f, NEW t, NEW r, NEW m,
         CopyIsRight(st, f, t, r, m), d.cur \in {"VERIFYING", "VERIFIED"},
         ~t.dirty => /\ Sent(st, r) => Synced(t, r)
                     /\ \/ st.phase \in st.checkpoints \/ Started(r, m)
                        \/ t.head = "feature"
  PROVE  PlanIsRight(CompletionSteps \o rest, st, d, f, t, r, m)
<1> DEFINE todo == CompletionSteps \o rest
           T == Of(Tail(Tail(todo)))
<1>1. /\ todo # << >> /\ Head(todo) = "checkpoint"
      /\ Tail(todo) # << >> /\ Head(Tail(todo)) = "push"
      /\ T = {"deliver", "graph", "complete"} \cup Of(rest)
      /\ NoneAfter(todo, {"bootstrap", "complete"}, Marking)
  BY CompletionAhead
<1> HIDE DEF T
<1>2. Checks(T, st, d, t, r, m) BY <1>1 DEF Checks, Closing
<1> HIDE DEF todo
<1>3. Fits(todo, st, d, t, r, m) BY <1>1, <1>2 DEF Fits, T
<1>4. PlanIsRight(todo, st, d, f, t, r, m) BY <1>1, <1>3 DEF PlanIsRight
<1> QED BY <1>4 DEF todo

\* Plans one before the other.
LEMMA ConcatOf ==
  ASSUME NEW s \in Steps, NEW t \in Steps
  PROVE  s \o t \in Steps /\ Of(s \o t) = Of(s) \cup Of(t)
BY OfPlans, ConcatIndex

\* A plan of two steps.
LEMMA TwoSteps ==
  ASSUME NEW x \in StepName, NEW y \in StepName
  PROVE  <<x, y>> \in Steps /\ Of(<<x, y>>) = {x, y}
<1> DEFINE t == <<x, y>>
<1>1. t \in Steps /\ Len(t) = 2 /\ t[1] = x /\ t[2] = y BY DEF Steps
<1> HIDE DEF t
<1>2. \A i \in 1 .. 2 : i = 1 \/ i = 2 OBVIOUS
<1>3. 1 \in 1 .. 2 /\ 2 \in 1 .. 2 OBVIOUS
<1> QED BY <1>1, <1>2, <1>3 DEF Of, t

\* Recovery takes a verification that was broken off back, completes what was
\* verified and pushes what is completed.
LEMMA RecoverRight == Sound /\ Recover => Right'
<1> SUFFICES ASSUME Sound, Recover PROVE Right' OBVIOUS
<1> DEFINE st == job.st
           rest == Tail(job.todo)
           U == Of(rest)
           Plan(s) == s \o rest
<1>1. /\ job.todo # << >> /\ Head(job.todo) = "recover" /\ st \in State
      /\ files' = files /\ remote' = remote /\ tree' = tree /\ made' = made
      /\ Branching(tree, remote, made)
      /\ FilesAreRight(disk, files, tree, remote, made)
  BY Now DEF Recover, At
<1>2. /\ CopyIsRight(st, files, tree, remote, made) /\ rest \in Steps
      /\ st = disk /\ U \subseteq {"bootstrap", "select", "save"}
      /\ "select" \in U => "bootstrap" \in U
  BY <1>1, CurrentPlan DEF Fits
<1> HIDE DEF rest, U
<1>3. <<"reconcile">> \in Steps /\ Of(<<"reconcile">>) = {"reconcile"}
  BY OfPlans, ShortPlans DEF StepName
<1>4. ASSUME NEW a, a.cur \notin {"VERIFIED", "COMPLETED"}, GoOn(<<"reconcile">>, a),
             CopyIsRight(a, files, tree, remote, made)
      PROVE  PlanIsRight(job'.todo, job'.st, disk', files', tree', remote', made')
  <2>1. ({"reconcile"} \cup U) \cap (Loud \cup Marking) = {} BY <1>2 DEF Loud, Marking
  <2>2. Calm({"reconcile"} \cup U, a, disk', tree, remote, made)
    BY <1>2, <1>4, <2>1 DEF Calm
  <2>3. Calm(Of(<<"reconcile">>) \cup Of(Tail(job.todo)), a, disk', tree', remote', made')
    BY <1>1, <1>3, <2>2 DEF U, rest
  <2>4. CopyIsRight(a, files', tree', remote', made') BY <1>1, <1>4
  <2>5. Of(<<"reconcile">>) \cap {"bootstrap", "complete"} = {} BY <1>3
  <2> QED BY <1>1, <1>3, <1>4, <2>3, <2>4, <2>5, GoesCalmly
<1>5. CASE st.cur = "VERIFYING"
  <2> DEFINE a == [st EXCEPT !.cur = "CLAIMED_DONE"]
  <2>1. disk' = a /\ GoOn(<<"reconcile">>, a) BY <1>5 DEF Recover
  <2>2. /\ a.cur = "CLAIMED_DONE" /\ a.phase = st.phase /\ a.commit = st.commit
        /\ a.branch = st.branch /\ a.push = st.push
    BY <1>1 DEF State
  <2> HIDE DEF a
  <2>3. Sent(a, remote) <=> Sent(st, remote) BY <2>2 DEF Sent
  <2>4. Honest(a, tree, remote, made) <=> Honest(st, tree, remote, made)
    BY <2>3 DEF Honest
  <2>5. CopyIsRight(a, files, tree, remote, made)
    BY <1>2, <2>2, <2>4 DEF CopyIsRight, Unsettled
  <2>6. PlanIsRight(job'.todo, job'.st, disk', files', tree', remote', made')
    BY <1>4, <2>1, <2>2, <2>5
  <2>7. FilesAreRight(a, files, tree, remote, made)
    BY <1>1, <2>2, <2>5 DEF FilesAreRight
  <2> QED BY <1>1, <2>1, <2>6, <2>7 DEF Right
<1>6. ASSUME disk' = disk,
             PlanIsRight(job'.todo, job'.st, disk', files', tree', remote', made')
      PROVE  Right'
  BY <1>1, <1>6 DEF Right
<1>7. CASE st.cur = "VERIFIED"
  <2> DEFINE t == <<"reconcile">> \o rest
  <2>1. disk' = disk /\ GoOn(CompletionSteps \o <<"reconcile">>, st) BY <1>7 DEF Recover
  <2>2. t \in Steps /\ Of(t) = {"reconcile"} \cup U
    <3> DEFINE one == <<"reconcile">>
    <3>1. one \in Steps /\ Of(one) = {"reconcile"} BY <1>3
    <3> HIDE DEF one
    <3>2. one \o rest \in Steps /\ Of(one \o rest) = Of(one) \cup Of(rest)
      BY <1>2, <3>1, ConcatOf
    <3> QED BY <3>1, <3>2 DEF U, one
  <2>3. (CompletionSteps \o <<"reconcile">>) \o rest = CompletionSteps \o t
    BY <1>2, <1>3, CompletionInOrder, ConcatAssociative DEF Steps
  <2> HIDE DEF t
  <2>4. Deliverable(st, tree, remote, made) BY <1>1, <1>2, <1>7 DEF FilesAreRight
  <2>5. PlanIsRight(CompletionSteps \o t, st, disk, files, tree, remote, made)
    <3>1. /\ Of(t) \subseteq {"reconcile", "save", "bootstrap", "select"}
          /\ "select" \in Of(t) => "bootstrap" \in Of(t)
      BY <1>2, <2>2
    <3>2. /\ disk.cur \in {"VERIFYING", "VERIFIED"}
          /\ Sent(st, remote) => Synced(tree, remote)
          /\ st.phase \in st.checkpoints \/ Started(remote, made)
      BY <1>2, <1>7, <2>4 DEF Deliverable
    <3> QED BY <1>2, <2>2, <3>1, <3>2, CompletesRight
  <2>6. PlanIsRight(job'.todo, job'.st, disk', files', tree', remote', made')
    BY <1>1, <2>1, <2>3, <2>5, GoesOnRight DEF rest
  <2> QED BY <1>6, <2>1, <2>6
<1>8. CASE st.cur = "COMPLETED"
  <2> DEFINE t == <<"reconcile", "save">> \o rest
             todo == <<"push">> \o t
  <2>1. disk' = disk /\ GoOn(<<"push", "reconcile", "save">>, st) BY <1>8 DEF Recover
  <2>2. <<"reconcile", "save">> \in Steps /\ Of(<<"reconcile", "save">>) = {"reconcile", "save"}
    BY TwoSteps DEF StepName
  <2>3. t \in Steps /\ Of(t) = {"reconcile", "save"} \cup U
    <3> DEFINE two == <<"reconcile", "save">>
    <3>1. two \in Steps /\ Of(two) = {"reconcile", "save"} BY <2>2
    <3> HIDE DEF two
    <3>2. two \o rest \in Steps /\ Of(two \o rest) = Of(two) \cup Of(rest)
      BY <1>2, <3>1, ConcatOf
    <3> QED BY <3>1, <3>2 DEF U, two
  <2>4. <<"push">> \in Steps /\ Of(<<"push">>) = {"push"} BY OfPlans, ShortPlans DEF StepName
  <2>5. <<"push", "reconcile", "save">> \o rest = todo
    <3>1. <<"push", "reconcile", "save">> = <<"push">> \o <<"reconcile", "save">> OBVIOUS
    <3> QED BY <1>2, <2>2, <2>4, <3>1, ConcatAssociative DEF Steps
  <2> HIDE DEF t
  <2>6. todo \in Steps /\ Of(todo) = {"push"} \cup Of(t)
    <3> DEFINE one == <<"push">>
    <3>1. one \in Steps /\ Of(one) = {"push"} BY <2>4
    <3> HIDE DEF one
    <3>2. one \o t \in Steps /\ Of(one \o t) = Of(one) \cup Of(t)
      BY <2>3, <3>1, ConcatOf
    <3> QED BY <3>1, <3>2 DEF one
  <2>7. todo # << >> /\ Head(todo) = "push" /\ Tail(todo) = t
    BY <2>3, HeadTailOfPush
  <2> HIDE DEF todo
  <2>8. NoneAfter(todo, {"bootstrap", "complete"}, Marking)
    <3>1. Of(todo) \cap Marking = {} BY <1>2, <2>3, <2>6 DEF Marking
    <3> QED BY <2>6, <3>1, NotOf
  <2>9. Pushes(Of(t), st, disk, tree, remote, made)
    BY <1>2, <1>8, <2>3 DEF Pushes, Closing, Marking
  <2>10. PlanIsRight(todo, st, disk, files, tree, remote, made)
    BY <1>2, <2>7, <2>8, <2>9 DEF PlanIsRight, Fits
  <2>11. PlanIsRight(job'.todo, job'.st, disk', files', tree', remote', made')
    BY <1>1, <2>1, <2>5, <2>10, GoesOnRight DEF rest
  <2> QED BY <1>6, <2>1, <2>11
<1>9. CASE st.cur \notin {"VERIFYING", "VERIFIED", "COMPLETED"}
  <2>1. disk' = disk /\ GoOn(<<"reconcile">>, st) BY <1>9 DEF Recover
  <2>2. PlanIsRight(job'.todo, job'.st, disk', files', tree', remote', made')
    BY <1>2, <1>4, <1>9, <2>1
  <2> QED BY <1>6, <2>1, <2>2
<1> QED BY <1>5, <1>7, <1>8, <1>9

\* The tests of a phase record the tip they ran on; git is right about it.
LEMMA TestsRight == Sound /\ Tests => Right'
<1> SUFFICES ASSUME Sound, Tests PROVE Right' OBVIOUS
<1> DEFINE a(x) == [job.st EXCEPT !.cur = x, !.commit = Tip(tree[tree.head])]
           f(x) == [files EXCEPT !.verified = x]
<1>1. /\ job.todo # << >> /\ Head(job.todo) = "tests" /\ job.st \in State
      /\ remote' = remote /\ tree' = tree /\ made' = made /\ disk' = disk
      /\ tree \in Tree /\ remote \in Remote
      /\ Branching(tree, remote, made)
      /\ FilesAreRight(disk, files, tree, remote, made)
      /\ files \in [node : [Phase -> Status], packet : BOOLEAN, verified : BOOLEAN]
  BY Now DEF Tests, At
<1>2. /\ CopyIsRight(job.st, files, tree, remote, made)
      /\ Tail(job.todo) = << >> /\ disk.cur = "VERIFYING" /\ job.st.cur = "VERIFYING"
  BY <1>1, CurrentPlan DEF Fits
<1>3. job.st.phase \in Phase
  <2>1. Coherent(job.todo, job.st, disk, files, tree) BY Given DEF Sound
  <2>2. job.todo # <<"save">> BY <1>1
  <2> QED BY <1>1, <2>1, <2>2 DEF Coherent
<1>4. PICK pass \in BOOLEAN :
        /\ pass => /\ made[job.st.phase] \subseteq Work(tree[tree.head])
                   /\ tree.dirty \/ made[job.st.phase] # {}
        /\ files' = f(pass)
        /\ GoOn(IF pass THEN CompletionSteps ELSE <<"save">>,
                a(IF pass THEN "VERIFIED" ELSE "FAILED"))
  BY DEF Tests
<1>5. \A x : /\ a(x).cur = x /\ a(x).phase = job.st.phase /\ a(x).branch = job.st.branch
             /\ a(x).commit = Tip(tree[tree.head]) /\ a(x).push = job.st.push
  BY <1>1 DEF State
<1>6. files'.packet = files.packet /\ files'.node = files.node BY <1>1, <1>4
<1> HIDE DEF a, f
<1>7. tree.head = "feature" \/ tree.head = "base" BY <1>1 DEF Tree, Branch
<1>8. \A x : /\ tree.head = "feature" /\ Sent(a(x), remote) => Synced(tree, remote)
             /\ tree.head = "base" /\ Sent(a(x), remote) => remote.feature = {}
  <2> SUFFICES ASSUME NEW x
               PROVE  /\ tree.head = "feature" /\ Sent(a(x), remote) => Synced(tree, remote)
                      /\ tree.head = "base" /\ Sent(a(x), remote) => remote.feature = {}
    OBVIOUS
  <2>1. /\ tree.head = "feature" => a(x).commit = Tip(tree.feature)
        /\ tree.head = "base" => a(x).commit = Tip(tree.base)
    BY <1>5
  <2> QED BY <1>1, <2>1, TipsAreRight
<1>9. \A x : Honest(a(x), tree, remote, made)
  BY <1>7, <1>8 DEF Honest, Started, Sent
<1>10. ASSUME NEW x \in {"VERIFIED", "FAILED"}
       PROVE  CopyIsRight(a(x), files', tree, remote, made)
  BY <1>2, <1>5, <1>9 DEF CopyIsRight
<1>11. FilesAreRight(disk', files', tree', remote', made')
  <2>1. CopyIsRight(disk, files', tree, remote, made)
    BY <1>1, <1>2, <1>6 DEF FilesAreRight, CopyIsRight
  <2> QED BY <1>1, <1>2, <1>6, <2>1 DEF FilesAreRight
<1>12. << >> \in Steps /\ Of(<< >>) = {} BY OfPlans, ShortPlans
<1>13. CASE pass
  <2>1. ~tree.dirty => /\ Sent(a("VERIFIED"), remote) => Synced(tree, remote)
                       /\ Started(remote, made) \/ tree.head = "feature"
    <3> SUFFICES ASSUME ~tree.dirty, tree.head = "base"
                 PROVE  ~Sent(a("VERIFIED"), remote) /\ Started(remote, made)
      BY <1>7, <1>8
    <3>1. made[job.st.phase] # {} /\ made[job.st.phase] \subseteq Work(tree.base)
      BY <1>4, <1>13
    <3>2. tree.base # {} BY <3>1 DEF Work
    <3>3. remote.feature # {} BY <1>1, <3>2 DEF Branching
    <3>4. Made(made) # {} BY <1>3, <3>1 DEF Made
    <3> QED BY <1>8, <3>3, <3>4 DEF Started
  <2>2. CopyIsRight(a("VERIFIED"), files', tree, remote, made) BY <1>10
  <2>3. PlanIsRight(CompletionSteps \o << >>, a("VERIFIED"), disk, files', tree, remote, made)
    BY <1>2, <1>12, <2>1, <2>2, CompletesRight
  <2>4. PlanIsRight(job'.todo, job'.st, disk', files', tree', remote', made')
    BY <1>1, <1>2, <1>4, <1>13, <2>3, GoesOnRight
  <2> QED BY <1>11, <2>4 DEF Right
<1>14. CASE ~pass
  <2>1. <<"save">> \in Steps /\ Of(<<"save">>) = {"save"} BY OfPlans, ShortPlans DEF StepName
  <2>2. Calm({"save"}, a("FAILED"), disk, tree, remote, made)
    BY <1>5 DEF Calm, Loud, Marking
  <2>3. Calm(Of(<<"save">>) \cup Of(Tail(job.todo)), a("FAILED"), disk', tree', remote', made')
    BY <1>1, <1>2, <1>12, <2>1, <2>2
  <2>4. CopyIsRight(a("FAILED"), files', tree', remote', made') BY <1>1, <1>10
  <2>5. GoOn(<<"save">>, a("FAILED")) BY <1>4, <1>14
  <2>6. Of(<<"save">>) \cap {"bootstrap", "complete"} = {} BY <2>1
  <2>7. PlanIsRight(job'.todo, job'.st, disk', files', tree', remote', made')
    BY <1>1, <2>1, <2>3, <2>4, <2>5, <2>6, GoesCalmly
  <2> QED BY <1>11, <2>7 DEF Right
<1> QED BY <1>13, <1>14

\* The command ends with a save.
LEMMA EndsRight ==
  ASSUME Sound, NEW st, st.cur # "VERIFIED",
         job' = [job EXCEPT !.todo = <<"save">>, !.st = st],
         CopyIsRight(st, files', tree', remote', made')
  PROVE  PlanIsRight(job'.todo, job'.st, disk', files', tree', remote', made')
<1>1. job'.todo = <<"save">> /\ job'.st = st
  <2>1. DOMAIN job = DOMAIN NoJob
    <3>1. IInv BY DEF Sound, WInv
    <3> QED BY <3>1, CopyOK
  <2>2. "todo" \in DOMAIN NoJob /\ "st" \in DOMAIN NoJob BY DEF NoJob
  <2> QED BY <2>1, <2>2
<1>2. <<"save">> \in Steps /\ Of(<<"save">>) = {"save"} BY OfPlans, ShortPlans DEF StepName
<1>3. Calm({"save"}, st, disk', tree', remote', made') BY DEF Calm, Loud, Marking
<1>4. NoneAfter(<<"save">>, {"bootstrap", "complete"}, Marking)
  <2>1. Of(<<"save">>) \cap Marking = {} BY <1>2 DEF Marking
  <2> QED BY <1>2, <2>1, NotOf
<1>5. Calm(Of(<<"save">>), st, disk', tree', remote', made') BY <1>2, <1>3
<1>6. PlanIsRight(<<"save">>, st, disk', files', tree', remote', made')
  BY <1>2, <1>4, <1>5, CalmIsRight
<1> QED BY <1>1, <1>6

\* The repository is left as it is when it is dirty.
LEMMA DirtyRight == Sound /\ BootstrapDirty => Right'
<1> SUFFICES ASSUME Sound, BootstrapDirty PROVE Right' OBVIOUS
<1> DEFINE T == Of(job.todo)
           U == Of(Tail(job.todo))
           st == job.st
<1>1. /\ job.todo # << >> /\ Head(job.todo) = "bootstrap" /\ tree.dirty
      /\ disk' = st /\ files' = files /\ tree' = tree /\ remote' = remote /\ made' = made
      /\ job' = NoJob \/ GoOn(<< >>, st)
  BY DEF BootstrapDirty, At
<1>2. /\ CopyIsRight(st, files, tree, remote, made)
      /\ Calm(T, st, disk, tree, remote, made)
      /\ T = {"bootstrap"} \cup U /\ U \cap Marking = {}
  BY <1>1, CurrentPlan, CalmNow
<1>3. FilesAreRight(st, files, tree, remote, made)
  <2>1. Same(st, st) BY DEF Same
  <2> QED BY <1>1, <2>1, FilesSaved
<1> HIDE DEF T, U
<1>4. Calm(U, st, st, tree, remote, made)
  <2>1. U \cap Loud \subseteq T \cap Loud BY <1>2
  <2>2. Honest(st, tree, remote, made) BY <1>1, <1>2 DEF CopyIsRight
  <2> QED BY <1>1, <1>2, <2>1, <2>2 DEF Calm
<1>5. PlanIsRight(job'.todo, job'.st, disk', files', tree', remote', made')
  <2>1. CASE job' = NoJob BY <2>1, IdleRight
  <2>2. CASE GoOn(<< >>, st)
    <3>1. << >> \in Steps /\ Of(<< >>) = {} BY OfPlans, ShortPlans
    <3>2. Calm(Of(<< >>) \cup U, st, disk', tree', remote', made') BY <1>1, <1>4, <3>1
    <3> QED BY <1>1, <1>2, <2>2, <3>1, <3>2, GoesCalmly DEF U
  <2> QED BY <1>1, <2>1, <2>2
<1> QED BY <1>1, <1>3, <1>5 DEF Right

\* A clean repository is prepared: the copy records the tip of the base, which git
\* does not take for the feature branch's.
LEMMA BootstrapRight == Sound /\ Bootstrap => Right'
<1> SUFFICES ASSUME Sound, Bootstrap PROVE Right' OBVIOUS
<1> DEFINE T == Of(job.todo)
           U == Of(Tail(job.todo))
           p(w) == [job.st EXCEPT !.push = w]
           asked == [job.st EXCEPT !.cur = "WAITING"]
           ready(w) == [p(w) EXCEPT !.commit = Tip(tree.base)]
           send(e, w) == IF e /\ w # "skipped" THEN <<"initial push">> ELSE << >>
<1>1. /\ job.todo # << >> /\ Head(job.todo) = "bootstrap" /\ ~tree.dirty
      /\ disk' = disk /\ job.st \in State /\ WInv
      /\ tree \in Tree /\ remote \in Remote /\ Branching(tree, remote, made)
      /\ FilesAreRight(disk, files, tree, remote, made)
  BY Now DEF Bootstrap, At
<1>2. /\ CopyIsRight(job.st, files, tree, remote, made)
      /\ Calm(T, job.st, disk, tree, remote, made)
      /\ T = {"bootstrap"} \cup U /\ U \cap Marking = {}
  BY <1>1, CurrentPlan, CalmNow
<1>3. /\ Branching(tree', remote', made') /\ made' = made
      /\ Beside(tree, remote, tree', remote') /\ (tree.branch => tree'.branch)
  BY BesideStep
<1>4. PICK e \in BOOLEAN : \E w :
        /\ (remote.exists => e) /\ remote' = [remote EXCEPT !.exists = e]
        /\ w = "pushed" => e /\ job.st.push = "pushed"
        /\ \/ /\ ~e /\ Mark(job.st.phase, "WAITING_FOR_HUMAN")
              /\ job' = [job EXCEPT !.todo = <<"save">>, !.st = asked]
           \/ /\ job.st.cur = "WAITING" /\ files' = files
              /\ job' = [job EXCEPT !.todo = <<"save">>, !.st = p(w)]
           \/ /\ job.st.cur # "WAITING" /\ files' = files
              /\ GoOn(send(e, w) \o <<"save">>, ready(w))
  BY BootstrapBy
<1>5. PICK w :
        /\ (remote.exists => e) /\ remote' = [remote EXCEPT !.exists = e]
        /\ w = "pushed" => e /\ job.st.push = "pushed"
        /\ \/ /\ ~e /\ Mark(job.st.phase, "WAITING_FOR_HUMAN")
              /\ job' = [job EXCEPT !.todo = <<"save">>, !.st = asked]
           \/ /\ job.st.cur = "WAITING" /\ files' = files
              /\ job' = [job EXCEPT !.todo = <<"save">>, !.st = p(w)]
           \/ /\ job.st.cur # "WAITING" /\ files' = files
              /\ GoOn(send(e, w) \o <<"save">>, ready(w))
  BY <1>4
<1>6. remote'.exists = e BY <1>1, <1>5 DEF Remote
<1>7. /\ p(w).cur = job.st.cur /\ p(w).phase = job.st.phase /\ p(w).branch = job.st.branch
      /\ p(w).commit = job.st.commit /\ p(w).checkpoints = job.st.checkpoints
      /\ p(w).push = w
      /\ ready(w).cur = job.st.cur /\ ready(w).phase = job.st.phase
      /\ ready(w).branch = job.st.branch /\ ready(w).commit = Tip(tree.base)
      /\ ready(w).push = w
      /\ asked.cur = "WAITING" /\ asked.phase = job.st.phase
      /\ asked.branch = job.st.branch /\ asked.commit = job.st.commit
      /\ asked.push = job.st.push
  BY <1>1 DEF State
<1> HIDE DEF T, U, p, asked, ready
<1>8. CASE /\ ~e /\ Mark(job.st.phase, "WAITING_FOR_HUMAN")
           /\ job' = [job EXCEPT !.todo = <<"save">>, !.st = asked]
  <2>1. /\ FilesAreRight(disk, files', tree, remote, made)
        /\ files'.verified = files.verified /\ files'.packet = files.packet
    <3>1. "WAITING_FOR_HUMAN" \in Status BY DEF Status
    <3> QED BY <1>1, <1>8, <3>1, MarkOther, MarkAside
  <2>2. FilesAreRight(disk', files', tree', remote', made') BY <1>1, <1>3, <2>1, FilesKept
  <2>3. remote.refs = {} /\ ~remote.exists BY <1>1, <1>5, <1>8 DEF Branching
  <2>4. ~Sent(asked, remote) BY <2>3 DEF Sent
  <2>5. files.verified => Started(remote, made)
    <3>1. FilesOK(disk, files, tree, made) BY <1>1, Given
    <3> QED BY <1>1, <2>3, <3>1 DEF FilesOK, Started, Made
  <2>6. Deliverable(asked, tree, remote, made) \/ ~files.verified
    BY <2>4, <2>5 DEF Deliverable
  <2>7. CopyIsRight(asked, files', tree, remote, made)
    BY <1>2, <1>7, <2>1, <2>3, <2>4, <2>6 DEF CopyIsRight, Honest
  <2>8. CopyIsRight(asked, files', tree', remote', made') BY <1>3, <2>7, BesideIsRight
  <2>9. asked.cur # "VERIFIED" BY <1>7
  <2>10. PlanIsRight(job'.todo, job'.st, disk', files', tree', remote', made')
    BY <1>8, <2>8, <2>9, EndsRight
  <2> QED BY <2>2, <2>10 DEF Right
<1>9. ASSUME files' = files PROVE FilesAreRight(disk', files', tree', remote', made')
  BY <1>1, <1>3, <1>9, FilesKept
<1>10. CASE /\ job.st.cur = "WAITING" /\ files' = files
            /\ job' = [job EXCEPT !.todo = <<"save">>, !.st = p(w)]
  <2>1. CopyIsRight(job.st, files, tree', remote', made) BY <1>2, <1>3, BesideIsRight
  <2>2. Sent(p(w), remote') <=> Sent(job.st, remote') BY <1>7 DEF Sent
  <2>3. /\ Honest(p(w), tree', remote', made) <=> Honest(job.st, tree', remote', made)
        /\ Deliverable(p(w), tree', remote', made) <=> Deliverable(job.st, tree', remote', made)
    BY <1>7, <2>2 DEF Honest, Deliverable
  <2>4. CopyIsRight(p(w), files, tree', remote', made)
    BY <1>5, <1>6, <1>7, <1>10, <2>1, <2>3 DEF CopyIsRight
  <2>5. p(w).cur # "VERIFIED" BY <1>7, <1>10
  <2>6. CopyIsRight(p(w), files', tree', remote', made') BY <1>3, <1>10, <2>4
  <2>7. PlanIsRight(job'.todo, job'.st, disk', files', tree', remote', made')
    BY <1>10, <2>5, <2>6, EndsRight
  <2> QED BY <1>9, <1>10, <2>7 DEF Right
<1>11. CASE /\ job.st.cur # "WAITING" /\ files' = files
            /\ GoOn(send(e, w) \o <<"save">>, ready(w))
  <2> DEFINE b == ready(w)
             s == send(e, w)
             steps == s \o <<"save">>
  <2>1. CopyIsRight(job.st, files, tree', remote', made) BY <1>2, <1>3, BesideIsRight
  <2>2. Honest(b, tree', remote', made')
    <3>1. Sent(b, remote) => remote.feature = {} BY <1>1, <1>7, TipsAreRight
    <3>2. Honest(b, tree, remote, made) BY <3>1 DEF Honest, Started, Sent
    <3> QED BY <1>3, <3>2, BesideIsRight
  <2>3. b.push = "pushed" => job.st.push = "pushed" BY <1>5, <1>7
  <2>4. CopyIsRight(b, files', tree', remote', made')
    BY <1>3, <1>5, <1>6, <1>7, <1>11, <2>1, <2>2 DEF CopyIsRight
  <2>5. ~tree'.dirty BY <1>1, <1>3 DEF Beside
  <2>6. /\ s \in Steps /\ Of(s) \subseteq {"initial push"}
        /\ ("initial push" \notin Of(s) /\ e => w = "skipped")
    <3>1. << >> \in Steps /\ Of(<< >>) = {} BY OfPlans, ShortPlans
    <3>2. <<"initial push">> \in Steps /\ Of(<<"initial push">>) = {"initial push"}
      BY OfPlans, ShortPlans DEF StepName
    <3> QED BY <3>1, <3>2
  <2> HIDE DEF s
  <2>7. steps \in Steps /\ Of(steps) = Of(s) \cup {"save"}
    <3> DEFINE one == <<"save">>
    <3>1. one \in Steps /\ Of(one) = {"save"} BY OfPlans, ShortPlans DEF StepName
    <3> HIDE DEF one
    <3>2. s \o one \in Steps /\ Of(s \o one) = Of(s) \cup Of(one) BY <2>6, <3>1, ConcatOf
    <3> QED BY <3>1, <3>2 DEF one
  <2>8. GoOn(steps, b) BY <1>11 DEF s
  <2>9. b.cur # "VERIFIED"
    <3>1. Head(job.todo) \in Choosing BY <1>1 DEF Choosing
    <3> QED BY <1>1, <1>7, <3>1, BeforeChoice
  <2> HIDE DEF b, steps
  <2> DEFINE V == Of(steps) \cup U
  <2>10. /\ V \cap Loud \subseteq T \cap Loud /\ V \cap Marking = {}
         /\ "back" \in V => "back" \in T
         /\ "initial push" \notin V /\ e => w = "skipped"
    <3>1. {"initial push", "save"} \cap (Loud \cup Marking) = {} BY DEF Loud, Marking
    <3> QED BY <1>2, <2>6, <2>7, <3>1
  <2> HIDE DEF V
  <2>11. T \cap Loud = {} /\ ("back" \in T => tree.branch) BY <1>2 DEF Calm
  <2>12. b.push = "pushed" => e /\ w # "skipped" BY <1>5, <1>7 DEF b
  <2>13. b.cur = "COMPLETED" /\ b.push = "pushed" => Synced(tree', remote')
    BY <2>4, <2>5 DEF CopyIsRight
  <2>14. Calm(V, b, disk', tree', remote', made')
    BY <1>3, <2>2, <2>5, <2>9, <2>10, <2>11, <2>12, <2>13 DEF Calm
  <2>15. Of(steps) \cap {"bootstrap", "complete"} = {} BY <2>6, <2>7
  <2>16. PlanIsRight(job'.todo, job'.st, disk', files', tree', remote', made')
    BY <1>1, <2>4, <2>7, <2>8, <2>14, <2>15, GoesCalmly DEF V, U
  <2> QED BY <1>9, <1>11, <2>16 DEF Right
<1> QED BY <1>5, <1>8, <1>10, <1>11

\* What a preparation may rely on when it chooses, and the files without a verdict.
LEMMA ChoiceNow ==
  ASSUME Sound, At("select")
  PROVE  /\ job.todo # << >> /\ Head(job.todo) = "select" /\ Tail(job.todo) = << >>
         /\ job.st \in State /\ job.st.cur # "VERIFIED" /\ disk.cur # "VERIFIED"
         /\ CopyIsRight(job.st, files, tree, remote, made)
         /\ Honest(job.st, tree, remote, made)
         /\ ~tree.dirty /\ job.st.push = "pushed" /\ Started(remote, made) =>
              Synced(tree, remote)
         /\ \A g : ~g.verified => CopyIsRight(disk, g, tree, remote, made)
<1>1. job.todo # << >> /\ Head(job.todo) = "select" /\ job.st \in State /\ WInv
  BY Now DEF At
<1>2. /\ Tail(job.todo) = << >> /\ job.st.cur # "VERIFIED" /\ disk.cur # "VERIFIED"
  BY <1>1, BeforeChoice DEF Choosing
<1>3. /\ CopyIsRight(job.st, files, tree, remote, made)
      /\ Calm(Of(job.todo), job.st, disk, tree, remote, made)
      /\ Of(job.todo) = {"select"}
  <2>1. Of(<< >>) = {} BY OfPlans
  <2>2. Of(job.todo) = {Head(job.todo)} \cup Of(Tail(job.todo)) BY <1>1, CurrentPlan
  <2>3. Of(job.todo) = {"select"} BY <1>1, <1>2, <2>1, <2>2
  <2> QED BY <1>1, <2>3, CurrentPlan, CalmNow
<1>4. Calm({"select"}, job.st, disk, tree, remote, made) BY <1>3
<1>5. /\ Honest(job.st, tree, remote, made)
      /\ ~tree.dirty /\ job.st.push = "pushed" /\ Started(remote, made) =>
           Synced(tree, remote)
      /\ tree.dirty /\ disk.cur = "COMPLETED" /\ disk.push = "pushed" => Synced(tree, remote)
  BY <1>4 DEF Calm
<1>6. CopyIsRight(disk, files, tree, remote, made) BY Now DEF FilesAreRight
<1>7. \A g : ~g.verified => CopyIsRight(disk, g, tree, remote, made)
  BY <1>5, <1>6 DEF CopyIsRight
<1> QED BY <1>1, <1>2, <1>3, <1>5, <1>7

\* The command ends without a step.
LEMMA ChoiceEnds ==
  ASSUME Sound, At("select"), NEW st, GoOn(<< >>, st)
  PROVE  job' = NoJob
<1> DEFINE rest == Tail(job.todo)
<1>1. rest = << >> BY ChoiceNow
<1> HIDE DEF rest
<1>2. << >> \o rest = << >> BY <1>1
<1>3. << >> \o Tail(job.todo) = << >> BY <1>2 DEF rest
<1> QED BY <1>3 DEF GoOn

\* When all phases are completed there is nothing to report.
LEMMA NothingWaits ==
  ASSUME Sound, Selected.phase = NoPhase, AllCompleted(files.node)
  PROVE  ~Selected.reason
<1>1. files.node \in [Phase -> Status] BY Now
<1>2. DOMAIN files.node = Phase BY <1>1
<1>3. \A p \in Phase : files.node[p] = "COMPLETED" BY <1>2 DEF AllCompleted
<1>4. FirstWaiting(files.node) = NoPhase
  <2>1. Having(files.node, "WAITING_FOR_HUMAN") = {} BY <1>2, <1>3 DEF Having
  <2> QED BY <2>1 DEF FirstWaiting, First
<1>5. FirstReady(files.node) = NoPhase
  <2>1. Having(files.node, "READY") = {} BY <1>2, <1>3 DEF Having
  <2> QED BY <2>1 DEF FirstReady, First
<1> DEFINE c == Resumed(job.st)
<1>6. ~(c \in DOMAIN files.node /\ files.node[c] = "RUNNING") /\
      ~(c \in DOMAIN files.node /\ files.node[c] = "WAITING_FOR_HUMAN")
  BY <1>2, <1>3
<1> HIDE DEF c
<1>7. SelectRunnable(files.node, NoPhase, c) = [phase |-> NoPhase, reason |-> FALSE]
  BY <1>4, <1>5, <1>6 DEF SelectRunnable
<1> QED BY <1>7 DEF Selected, c

\* Nothing to run: the project is completed, or what hinders it is reported.
LEMMA SelectNoneRight == Sound /\ SelectNone => Right'
<1> SUFFICES ASSUME Sound, SelectNone PROVE Right' OBVIOUS
<1> DEFINE a == [job.st EXCEPT !.finished = TRUE, !.cur = "COMPLETED"]
           t == <<"deliver", "save">>
<1>1. /\ At("select") /\ disk' = disk /\ tree' = tree /\ remote' = remote /\ made' = made
      /\ FilesAreRight(disk, files, tree, remote, made)
      /\ files \in [node : [Phase -> Status], packet : BOOLEAN, verified : BOOLEAN]
  BY Now DEF SelectNone
<1>2. /\ job.todo # << >> /\ Tail(job.todo) = << >> /\ job.st \in State
      /\ disk.cur # "VERIFIED"
      /\ CopyIsRight(job.st, files, tree, remote, made)
      /\ Honest(job.st, tree, remote, made)
      /\ ~tree.dirty /\ job.st.push = "pushed" /\ Started(remote, made) =>
           Synced(tree, remote)
      /\ \A g : ~g.verified => CopyIsRight(disk, g, tree, remote, made)
  BY <1>1, ChoiceNow
<1>3. CASE ~Selected.reason /\ AllCompleted(files.node)
  <2>1. GoOn(t, a) /\ files' = files BY <1>3 DEF SelectNone
  <2>2. /\ a.cur = "COMPLETED" /\ a.phase = job.st.phase /\ a.branch = job.st.branch
        /\ a.commit = job.st.commit /\ a.push = job.st.push
    BY <1>2 DEF State
  <2> HIDE DEF a
  <2>3. Honest(a, tree, remote, made) BY <1>2, <2>2 DEF Honest, Sent
  <2>4. Started(remote, made) BY <1>1, <1>3 DEF AllCompleted, FilesAreRight
  <2>5. tree.dirty => files.packet BY <1>1, <1>3 DEF FilesAreRight
  <2>6. CopyIsRight(a, files, tree, remote, made)
    BY <1>2, <2>2, <2>3, <2>4, <2>5 DEF CopyIsRight
  <2>7. t \in Steps /\ Of(t) = {"deliver", "save"} BY TwoSteps DEF StepName
  <2> HIDE DEF t
  <2>8. Calm({"deliver", "save"}, a, disk, tree, remote, made)
    BY <2>2 DEF Calm, Loud, Marking
  <2>9. Of(t) \cup Of(Tail(job.todo)) = {"deliver", "save"} BY <1>2, <2>7, OfPlans
  <2>10. Calm(Of(t) \cup Of(Tail(job.todo)), a, disk', tree', remote', made')
    BY <1>1, <2>8, <2>9
  <2>11. Of(t) \cap {"bootstrap", "complete"} = {} BY <2>7
  <2>12. CopyIsRight(a, files', tree', remote', made') BY <1>1, <2>1, <2>6
  <2>13. PlanIsRight(job'.todo, job'.st, disk', files', tree', remote', made')
    BY <1>2, <2>1, <2>7, <2>10, <2>11, <2>12, GoesCalmly
  <2> QED BY <1>1, <2>1, <2>13 DEF Right
<1>4. CASE ~(~Selected.reason /\ AllCompleted(files.node))
  <2>1. /\ GoOn(<< >>, job.st)
        /\ files' = [files EXCEPT !.packet = FALSE, !.verified = FALSE]
    BY <1>4 DEF SelectNone
  <2>2. ~files'.verified /\ files'.node = files.node BY <1>1, <2>1
  <2>3. ~AllCompleted(files'.node)
    <3>1. Selected.phase = NoPhase BY DEF SelectNone
    <3> QED BY <1>4, <2>2, <3>1, NothingWaits
  <2>4. CopyIsRight(disk, files', tree, remote, made) BY <1>2, <2>2
  <2>5. FilesAreRight(disk', files', tree', remote', made')
    BY <1>1, <1>2, <2>2, <2>3, <2>4 DEF FilesAreRight
  <2>6. PlanIsRight(job'.todo, job'.st, disk', files', tree', remote', made')
    BY <1>1, <2>1, ChoiceEnds, IdleRight
  <2> QED BY <2>5, <2>6 DEF Right
<1> QED BY <1>3, <1>4

\* A phase to run: the copy records the tip of the feature branch.
LEMMA SelectPhaseRight == Sound /\ SelectPhase => Right'
<1> SUFFICES ASSUME Sound, SelectPhase PROVE Right' OBVIOUS
<1> DEFINE p == Selected.phase
           branch == IF tree.branch THEN tree.feature ELSE tree[tree.head]
           a == [job.st EXCEPT !.cur = "PREPARED", !.phase = p, !.branch = TRUE,
                               !.commit = Tip(branch)]
           n == SetStatus(Deps, files.node, p, "RUNNING")
<1>1. /\ At("select") /\ disk' = disk /\ remote' = remote /\ p # NoPhase
      /\ tree \in Tree /\ remote \in Remote /\ Branching(tree, remote, made)
      /\ FilesAreRight(disk, files, tree, remote, made)
      /\ files \in [node : [Phase -> Status], packet : BOOLEAN, verified : BOOLEAN]
      /\ tree' = [tree EXCEPT !.head = "feature", !.branch = TRUE, !.feature = branch]
      /\ files' = [node |-> n, packet |-> ~tree.dirty, verified |-> FALSE]
      /\ GoOn(IF tree.dirty THEN << >> ELSE <<"save">>, a)
  BY Now DEF SelectPhase
<1>2. /\ job.todo # << >> /\ Tail(job.todo) = << >> /\ job.st \in State
      /\ disk.cur # "VERIFIED"
      /\ CopyIsRight(job.st, files, tree, remote, made)
      /\ \A g : ~g.verified => CopyIsRight(disk, g, tree, remote, made)
  BY <1>1, ChoiceNow
<1>3. Branching(tree', remote', made') /\ made' = made /\ Beside(tree, remote, tree', remote')
  BY BesideStep
<1>4. p \in Phase /\ files.node[p] # "COMPLETED"
  <2>1. WInv BY DEF Sound
  <2> QED BY <1>1, <2>1, SelectedPhase
<1>5. /\ a.cur = "PREPARED" /\ a.branch = TRUE /\ a.commit = Tip(branch)
      /\ a.push = job.st.push
  BY <1>2 DEF State
<1>6. branch = tree'.feature BY <1>1 DEF Tree
<1> HIDE DEF a, branch, p
<1>7. files'.node = n /\ ~files'.verified BY <1>1
<1>8. n \in [Phase -> Status] /\ \A q \in Phase : files.node[q] # "COMPLETED" => n[q] # "COMPLETED"
  <2>1. "RUNNING" \in Status BY DEF Status
  <2>2. \A m \in [Phase -> Status] : Refresh(Deps, m) \in [Phase -> Status] BY PassType
  <2>3. [files.node EXCEPT ![p] = "RUNNING"] \in [Phase -> Status] BY <1>1, <2>1
  <2> QED BY <1>1, <2>2, <2>3, CompletesNothing DEF SetStatus
<1> HIDE DEF n
<1>9. FilesAreRight(disk, files', tree, remote, made)
  <2>1. ~AllCompleted(n) BY <1>4, <1>8 DEF AllCompleted
  <2> QED BY <1>1, <1>2, <1>7, <1>8, <2>1 DEF FilesAreRight
<1>10. FilesAreRight(disk', files', tree', remote', made') BY <1>1, <1>3, <1>9, FilesKept
<1>11. CASE tree.dirty
  <2>1. GoOn(<< >>, a) BY <1>1, <1>11
  <2>2. PlanIsRight(job'.todo, job'.st, disk', files', tree', remote', made')
    BY <1>1, <2>1, ChoiceEnds, IdleRight
  <2> QED BY <1>10, <2>2 DEF Right
<1>12. CASE ~tree.dirty
  <2>1. GoOn(<<"save">>, a) BY <1>1, <1>12
  <2>2. Honest(a, tree', remote', made')
    <3>1. tree' \in Tree /\ remote' \in Remote
      <4>1. tree.feature \in SUBSET Sha /\ tree.base \in SUBSET Sha BY <1>1 DEF Tree
      <4>2. branch = tree.feature BY <1>3, <1>6 DEF Beside
      <4> QED BY <1>1, <4>1, <4>2 DEF Tree, Branch
    <3> QED BY <1>3, <1>5, <1>6, <3>1, TipsAreRight DEF Honest
  <2>3. CopyIsRight(a, files', tree', remote', made')
    BY <1>1, <1>2, <1>5, <2>2 DEF CopyIsRight
  <2>4. <<"save">> \in Steps /\ Of(<<"save">>) = {"save"} BY OfPlans, ShortPlans DEF StepName
  <2>5. Calm({"save"}, a, disk', tree', remote', made') BY <1>5 DEF Calm, Loud, Marking
  <2>6. Of(<<"save">>) \cup Of(Tail(job.todo)) = {"save"} BY <1>2, <2>4, OfPlans
  <2>7. Calm(Of(<<"save">>) \cup Of(Tail(job.todo)), a, disk', tree', remote', made')
    BY <2>5, <2>6
  <2>8. Of(<<"save">>) \cap {"bootstrap", "complete"} = {} BY <2>4
  <2>9. PlanIsRight(job'.todo, job'.st, disk', files', tree', remote', made')
    BY <1>2, <2>1, <2>3, <2>4, <2>7, <2>8, GoesCalmly
  <2> QED BY <1>10, <2>9 DEF Right
<1> QED BY <1>11, <1>12

-----------------------------------------------------------------------------
\* Commands, and what happens without one

\* A command begins with the copy it has read or written, and a plan that marks
\* nothing.
LEMMA BeginsRight ==
  ASSUME Sound, files' = files, tree' = tree, remote' = remote, made' = made,
         FilesAreRight(disk', files, tree, remote, made),
         NEW t \in Steps, Of(t) \cap Marking = {}, job'.todo = t, job'.st = disk',
         t # << >> => Fits(t, disk', disk', tree, remote, made)
  PROVE  Right'
<1>1. NoneAfter(t, {"bootstrap", "complete"}, Marking) BY NotOf
<1>2. CopyIsRight(disk', files, tree, remote, made) BY DEF FilesAreRight
<1>3. PlanIsRight(t, disk', disk', files, tree, remote, made)
  BY <1>1, <1>2 DEF PlanIsRight
<1>4. PlanIsRight(job'.todo, job'.st, disk', files', tree', remote', made') BY <1>3
<1> QED BY <1>4 DEF Right

\* The plans of commands: of one step,
LEMMA OneStepPlan ==
  ASSUME NEW x \in StepName
  PROVE  /\ <<x>> \in Steps /\ <<x>> # << >> /\ Head(<<x>>) = x
         /\ Of(<<x>>) = {x} /\ Tail(<<x>>) = << >>
<1>1. <<x>> \in Steps /\ <<x>> # << >> /\ Head(<<x>>) = x BY ShortPlans
<1>2. Tail(<<x>>) = << >> OBVIOUS
<1> QED BY <1>1, <1>2, OfPlans

\* of two,
LEMMA TwoStepPlan ==
  ASSUME NEW x \in StepName, NEW y \in StepName
  PROVE  /\ <<x, y>> \in Steps /\ <<x, y>> # << >> /\ Head(<<x, y>>) = x
         /\ Of(<<x, y>>) = {x, y} /\ Of(Tail(<<x, y>>)) = {y}
<1> DEFINE t == <<x, y>>
           v == Tail(t)
<1>1. t \in Steps /\ Len(t) = 2 /\ t # << >> /\ t[1] = x /\ t[2] = y BY DEF Steps
<1>2. Of(t) = {x, y} BY TwoSteps
<1> HIDE DEF t
<1>3. /\ Len(v) = Len(t) - 1 /\ Head(t) = t[1]
      /\ \A i \in 1 .. Len(v) : v[i] = t[i + 1]
  BY <1>1, TailIndex
<1> HIDE DEF v
<1>4. Len(v) = 1 /\ 1 .. 1 = {1} BY <1>1, <1>3
<1>5. v[1] = y BY <1>1, <1>3, <1>4
<1>6. Of(v) = {y} BY <1>4, <1>5 DEF Of
<1> QED BY <1>1, <1>2, <1>3, <1>6 DEF t, v

\* and of a preparation.
LEMMA PreparationPlan ==
  /\ PrepareSteps \in Steps /\ PrepareSteps # << >> /\ Head(PrepareSteps) = "recover"
  /\ Of(PrepareSteps) = {"recover", "bootstrap", "select"}
  /\ Of(Tail(PrepareSteps)) = {"bootstrap", "select"}
<1> DEFINE t == PrepareSteps
           v == Tail(t)
<1>1. /\ t \in Steps /\ Len(t) = 3 /\ t # << >>
      /\ t[1] = "recover" /\ t[2] = "bootstrap" /\ t[3] = "select"
  BY DEF Steps, StepName, PrepareSteps
<1> HIDE DEF t
<1>2. /\ v \in Steps /\ Len(v) = Len(t) - 1 /\ Head(t) = t[1]
      /\ \A i \in 1 .. Len(v) : v[i] = t[i + 1]
  BY <1>1, TailIndex
<1>3. Of(t) = {Head(t)} \cup Of(v) BY <1>1, OfPlans
<1> HIDE DEF v
<1>4. Len(v) = 2 /\ 1 \in 1 .. 2 /\ 2 \in 1 .. 2 /\ \A i \in 1 .. 2 : i = 1 \/ i = 2
  BY <1>1, <1>2
<1>5. v[1] = "bootstrap" /\ v[2] = "select" BY <1>1, <1>2, <1>4
<1>6. Of(v) = {"bootstrap", "select"} BY <1>4, <1>5 DEF Of
<1>7. Of(t) = {"recover", "bootstrap", "select"} BY <1>1, <1>2, <1>3, <1>6
<1> QED BY <1>1, <1>2, <1>6, <1>7 DEF t, v

\* The commands that take the lock.
LEMMA CommandRight ==
  ASSUME Sound, \/ Prepare \/ Verify \/ Repair \/ Resume
                \/ OpenMilestonePR \/ TryMerge \/ InspectChecks
  PROVE  Right'
<1> DEFINE e(x) == [disk EXCEPT !.cur = x]
<1>1. /\ disk \in State /\ FilesAreRight(disk, files, tree, remote, made)
      /\ files' = files /\ tree' = tree /\ remote' = remote /\ made' = made
      /\ job = NoJob
  BY Now DEF Prepare, Verify, Repair, Resume, OpenMilestonePR, TryMerge, InspectChecks, Idle
<1>2. CopyIsRight(disk, files, tree, remote, made) BY <1>1 DEF FilesAreRight
<1>3. \A x : /\ e(x).cur = x /\ e(x).phase = disk.phase /\ e(x).commit = disk.commit
             /\ e(x).checkpoints = disk.checkpoints /\ e(x).branch = disk.branch
             /\ e(x).push = disk.push
  BY <1>1 DEF State
<1> HIDE DEF e
<1>4. \A x : /\ Honest(e(x), tree, remote, made) <=> Honest(disk, tree, remote, made)
             /\ Deliverable(e(x), tree, remote, made) <=> Deliverable(disk, tree, remote, made)
  BY <1>3 DEF Honest, Deliverable, Sent
<1>5. ASSUME NEW x, x \notin {"WAITING", "COMPLETED"},
             x \in Unsettled \/ disk.cur \notin Unsettled,
             x = "VERIFIED" => Deliverable(disk, tree, remote, made)
      PROVE  FilesAreRight(e(x), files, tree, remote, made)
  <2>1. CopyIsRight(e(x), files, tree, remote, made)
    BY <1>2, <1>3, <1>4, <1>5 DEF CopyIsRight
  <2> QED BY <1>1, <1>3, <1>4, <1>5, <2>1 DEF FilesAreRight
<1>6. ASSUME FilesAreRight(disk', files, tree, remote, made), job' = job PROVE Right'
  <2>1. PlanIsRight(job'.todo, job'.st, disk', files', tree', remote', made')
    BY <1>1, <1>6, IdleRight
  <2> QED BY <1>1, <1>6, <2>1 DEF Right
<1>7. {"recover", "bootstrap", "select", "save", "tests", "open pr", "merge"} \cap Marking = {}
  BY DEF Marking
<1>8. ASSUME NEW t \in Steps, t # << >>, Head(t) = "recover",
             Of(t) = {"recover"} \cup Of(Tail(t)),
             Of(Tail(t)) = {"bootstrap", "select"} \/ Of(Tail(t)) = {"save"},
             job'.todo = t, job'.st = disk', FilesAreRight(disk', files, tree, remote, made)
      PROVE  Right'
  <2>1. Fits(t, disk', disk', tree, remote, made) BY <1>8 DEF Fits
  <2>2. Of(t) \cap Marking = {} BY <1>7, <1>8
  <2> QED BY <1>1, <1>8, <2>1, <2>2, BeginsRight
<1>9. ASSUME NEW t \in Steps, t # << >>, Of(t) \subseteq {"open pr", "save", "merge"},
             Head(t) \in {"open pr", "merge"},
             job'.todo = t, job'.st = disk, disk' = disk
      PROVE  Right'
  <2>1. Calm(Of(t), disk, disk, tree, remote, made)
    BY <1>1, <1>9 DEF Calm, Loud, Marking, FilesAreRight
  <2>2. Fits(t, disk', disk', tree, remote, made) BY <1>9, <2>1 DEF Fits
  <2>3. Of(t) \cap Marking = {} BY <1>7, <1>9
  <2> QED BY <1>1, <1>9, <2>2, <2>3, BeginsRight
<1>10. /\ "recover" \in StepName /\ "save" \in StepName /\ "tests" \in StepName
       /\ "open pr" \in StepName /\ "merge" \in StepName
  BY DEF StepName
<1>11. CASE Prepare
  <2>1. job'.todo = PrepareSteps /\ job'.st = disk /\ disk' = disk
    BY <1>11 DEF Prepare, Start
  <2> QED BY <1>1, <1>8, <2>1, PreparationPlan
<1>12. CASE Verify
  <2>1. CASE files.packet
    <3>1. /\ disk' = e("VERIFYING") /\ job'.todo = <<"tests">> /\ job'.st = disk'
      BY <1>12, <2>1 DEF Verify, e
    <3>2. FilesAreRight(disk', files, tree, remote, made) BY <1>5, <3>1 DEF Unsettled
    <3>3. /\ <<"tests">> \in Steps /\ Head(<<"tests">>) = "tests"
          /\ Of(<<"tests">>) = {"tests"} /\ Tail(<<"tests">>) = << >>
      BY <1>10, OneStepPlan
    <3>4. disk'.cur = "VERIFYING" BY <1>3, <3>1
    <3>5. Fits(<<"tests">>, disk', disk', tree, remote, made) BY <3>3, <3>4 DEF Fits
    <3>6. Of(<<"tests">>) \cap Marking = {} BY <1>7, <3>3
    <3> QED BY <1>1, <3>1, <3>2, <3>3, <3>5, <3>6, BeginsRight
  <2>2. CASE ~files.packet
    <3>1. disk' = e("INCOMPLETE") /\ job' = job BY <1>12, <2>2 DEF Verify, e
    <3> QED BY <1>5, <1>6, <3>1 DEF Unsettled
  <2> QED BY <2>1, <2>2
<1>13. CASE Repair
  <2>1. disk' = e("REPAIRING") /\ job' = job /\ disk.cur \in {"FAILED", "COMPLETED"}
    BY <1>13 DEF Repair, e
  <2> QED BY <1>5, <1>6, <2>1 DEF Unsettled
<1>14. CASE Resume
  <2> DEFINE x == IF files.verified THEN "VERIFIED" ELSE "PREPARED"
  <2>1. /\ disk' = e(x) /\ disk.cur = "WAITING" /\ job'.st = disk'
        /\ job'.todo = IF files.verified THEN <<"recover", "save">> ELSE PrepareSteps
    BY <1>14 DEF Resume, e
  <2>2. files.verified => Deliverable(disk, tree, remote, made)
    BY <1>2, <2>1 DEF CopyIsRight
  <2>3. FilesAreRight(disk', files, tree, remote, made) BY <1>5, <2>1, <2>2 DEF Unsettled
  <2> HIDE DEF x
  <2>4. CASE files.verified
    <3> DEFINE t == <<"recover", "save">>
    <3>1. /\ t \in Steps /\ t # << >> /\ Head(t) = "recover"
          /\ Of(t) = {"recover", "save"} /\ Of(Tail(t)) = {"save"}
      BY <1>10, TwoStepPlan
    <3>2. job'.todo = t BY <2>1, <2>4
    <3> HIDE DEF t
    <3> QED BY <1>8, <2>1, <2>3, <3>1, <3>2
  <2>5. CASE ~files.verified
    <3>1. job'.todo = PrepareSteps BY <2>1, <2>5
    <3> QED BY <1>8, <2>1, <2>3, <3>1, PreparationPlan
  <2> QED BY <2>4, <2>5
<1>15. CASE OpenMilestonePR
  <2> DEFINE t == <<"open pr", "save">>
  <2>1. job'.todo = t /\ job'.st = disk /\ disk' = disk
    BY <1>15 DEF OpenMilestonePR, Start
  <2>2. t \in Steps /\ t # << >> /\ Head(t) = "open pr" /\ Of(t) = {"open pr", "save"}
    BY <1>10, TwoStepPlan
  <2> HIDE DEF t
  <2> QED BY <1>9, <2>1, <2>2
<1>16. CASE TryMerge
  <2> DEFINE t == <<"merge">>
  <2>1. job'.todo = t /\ job'.st = disk /\ disk' = disk
    BY <1>16 DEF TryMerge, Start
  <2>2. t \in Steps /\ t # << >> /\ Head(t) = "merge" /\ Of(t) = {"merge"}
    BY <1>10, OneStepPlan
  <2> HIDE DEF t
  <2> QED BY <1>9, <2>1, <2>2
<1>17. CASE InspectChecks
  <2>1. disk' \in {disk, Merge(disk, "checking"), Merge(disk, "open")} /\ job' = job
    BY <1>17 DEF InspectChecks
  <2>2. Same(disk, disk') BY <1>1, <2>1, SameCopies
  <2>3. /\ CopyIsRight(disk', files, tree, remote, made)
        /\ Deliverable(disk, tree, remote, made) => Deliverable(disk', tree, remote, made)
    BY <1>2, <2>2, SameIsRight
  <2>4. FilesAreRight(disk', files, tree, remote, made)
    BY <1>1, <2>2, <2>3 DEF FilesAreRight, Same
  <2> QED BY <1>6, <2>1, <2>4
<1> QED BY <1>11, <1>12, <1>13, <1>14, <1>15, <1>16, <1>17

\* A plan that fits goes on to fit beside the feature branch.
LEMMA BesideFits ==
  ASSUME NEW t, NEW r, NEW u, NEW s, Beside(t, r, u, s), s.exists = r.exists,
         u.branch = t.branch, u.head = t.head, NEW m, NEW st, NEW d, NEW todo,
         Fits(todo, st, d, t, r, m)
  PROVE  Fits(todo, st, d, u, s, m)
<1> DEFINE f == [packet |-> FALSE, verified |-> FALSE]
<1>1. f.packet = FALSE /\ f.verified = FALSE OBVIOUS
<1> HIDE DEF f
<1>2. /\ Synced(t, r) => Synced(u, s)
      /\ Started(r, m) <=> Started(s, m)
      /\ Sent(st, r) <=> Sent(st, s)
      /\ Deliverable(st, t, r, m) => Deliverable(st, u, s, m)
  BY <1>1, BesideIsRight
<1>3. u.dirty = t.dirty BY DEF Beside
<1>4. \A T : Pushes(T, st, d, t, r, m) => Pushes(T, st, d, u, s, m)
  BY <1>2, <1>3 DEF Pushes
<1>5. \A T : Checks(T, st, d, t, r, m) => Checks(T, st, d, u, s, m)
  BY <1>2, <1>3 DEF Checks
<1>6. \A T : Calm(T, st, d, t, r, m) => Calm(T, st, d, u, s, m)
  BY BesideCalm
<1> QED BY <1>4, <1>5, <1>6 DEF Fits

\* The worker, the user, GitHub, crashes.
LEMMA WorldRight ==
  ASSUME Sound, Edit \/ Discard \/ Decide \/ ChecksEnd \/ Crash
  PROVE  Right'
<1>1. /\ FilesAreRight(disk, files, tree, remote, made)
      /\ disk' = disk /\ files' = files
      /\ PlanIsRight(job.todo, job.st, disk, files, tree, remote, made)
  BY Now DEF Edit, Discard, Decide, ChecksEnd, Crash, Sound, PushOK
<1>2. CASE Edit \/ Discard
  <2>1. /\ remote' = remote /\ made' = made /\ tree'.feature = tree.feature
        /\ Edit => ~tree.dirty /\ tree'.dirty
        /\ Discard => tree.dirty /\ ~tree'.dirty
    BY <1>2, EditStep
  <2>2. /\ job' = NoJob
        /\ Edit => files.packet /\ disk.cur \in {"PREPARED", "REPAIRING"}
        /\ Discard => ~files.packet
    BY <1>2 DEF Edit, Discard, Idle
  <2>3. /\ Synced(tree, remote) <=> Synced(tree', remote)
        /\ Honest(disk, tree, remote, made) <=> Honest(disk, tree', remote, made)
    BY <2>1 DEF Synced, Honest
  <2>4. CASE Edit
    <3>1. CopyIsRight(disk, files, tree', remote, made)
      BY <1>1, <2>1, <2>2, <2>3, <2>4 DEF FilesAreRight, CopyIsRight, Unsettled
    <3> QED BY <1>1, <2>1, <2>2, <2>4, <3>1, IdleRight DEF FilesAreRight, Right
  <2>5. CASE Discard
    <3>1. Deliverable(disk, tree, remote, made) => Deliverable(disk, tree', remote, made)
      BY <2>1, <2>3, <2>5 DEF Deliverable
    <3>2. CopyIsRight(disk, files, tree', remote, made)
      BY <1>1, <2>1, <2>2, <2>3, <2>5, <3>1 DEF FilesAreRight, CopyIsRight
    <3>3. FilesAreRight(disk, files, tree', remote, made)
      BY <1>1, <2>1, <2>5, <3>1, <3>2 DEF FilesAreRight
    <3> QED BY <1>1, <2>1, <2>2, <3>3, IdleRight DEF Right
  <2> QED BY <1>2, <2>4, <2>5
<1>3. CASE Decide \/ ChecksEnd
  <2>1. job' = job /\ tree' = tree /\ made' = made BY <1>3 DEF Decide, ChecksEnd
  <2>2. remote'.exists = remote.exists
    <3>1. CASE Decide BY <3>1, MergesOpen, MergedBranch
    <3>2. CASE ChecksEnd BY <3>2 DEF ChecksEnd
    <3> QED BY <1>3, <3>1, <3>2
  <2>3. Beside(tree, remote, tree', remote')
    <3>1. CASE Decide BY <3>1, BesideStep
    <3>2. CASE ChecksEnd
      <4>1. remote' = remote BY <3>2 DEF ChecksEnd
      <4> QED BY <2>1, <4>1, BesideStep
    <3> QED BY <1>3, <3>1, <3>2
  <2>4. FilesAreRight(disk', files', tree', remote', made')
    BY <1>1, <2>1, <2>3, FilesKept
  <2>5. PlanIsRight(job.todo, job.st, disk, files, tree', remote', made)
    <3> SUFFICES ASSUME job.todo # << >>
                 PROVE  /\ CopyIsRight(job.st, files, tree', remote', made)
                        /\ NoneAfter(job.todo, {"bootstrap", "complete"}, Marking)
                        /\ Fits(job.todo, job.st, disk, tree', remote', made)
      BY DEF PlanIsRight
    <3>1. /\ CopyIsRight(job.st, files, tree, remote, made)
          /\ NoneAfter(job.todo, {"bootstrap", "complete"}, Marking)
          /\ Fits(job.todo, job.st, disk, tree, remote, made)
      BY <1>1 DEF PlanIsRight
    <3>2. CopyIsRight(job.st, files, tree', remote', made) BY <2>3, <3>1, BesideIsRight
    <3>3. Fits(job.todo, job.st, disk, tree', remote', made)
      BY <2>1, <2>2, <2>3, <3>1, BesideFits
    <3> QED BY <3>1, <3>2, <3>3
  <2> QED BY <1>1, <2>1, <2>4, <2>5 DEF Right
<1>4. CASE Crash
  <2>1. job' = NoJob /\ tree' = tree /\ remote' = remote /\ made' = made
    BY <1>4 DEF Crash
  <2> QED BY <1>1, <2>1, IdleRight DEF Right
<1> QED BY <1>2, <1>3, <1>4

-----------------------------------------------------------------------------
\* The invariant is one

\* The branches stay in order.
LEMMA BranchesStep ==
  ASSUME Sound, Next
  PROVE  Branching(tree', remote', made')
<1>1. CASE tree' = tree /\ remote' = remote /\ made' = made BY <1>1, BesideStep
<1>2. CASE ToBase \/ Back \/ Bootstrap \/ SelectPhase \/ MergePR \/ Decide
  BY <1>2, BesideStep
<1>3. CASE PushSucceeds BY <1>3, PushGives
<1>4. CASE Checkpoint BY <1>4, CheckpointRight
<1>5. CASE Edit \/ Discard BY <1>5, EditStep
<1>6. ~DeleteRemote /\ ~DeleteLocal BY Quiet DEF DeleteRemote, DeleteLocal, At
<1>7. CASE SaveState \/ PushLocked \/ Deliver \/ MarkCompleted \/ Complete
  BY <1>1, <1>7 DEF SaveState, PushLocked, Deliver, MarkCompleted, Complete
<1>8. CASE OpenNone \/ ReusePR \/ CreatePR \/ ViewPR \/ Recover \/ Reconcile
  BY <1>1, <1>8 DEF OpenNone, ReusePR, CreatePR, ViewPR, Recover, Reconcile
<1>9. CASE BootstrapDirty \/ SelectNone \/ Tests \/ ChecksEnd \/ Crash
  BY <1>1, <1>9 DEF BootstrapDirty, SelectNone, Tests, ChecksEnd, Crash
<1>10. CASE Prepare \/ Verify \/ Repair \/ Resume \/ OpenMilestonePR \/ TryMerge \/ InspectChecks
  BY <1>1, <1>10 DEF Prepare, Verify, Repair, Resume, OpenMilestonePR, TryMerge, InspectChecks
<1> QED BY <1>2, <1>3, <1>4, <1>5, <1>6, <1>7, <1>8, <1>9, <1>10 DEF Next, Step

\* So do the files and the plan.
LEMMA RightStep ==
  ASSUME Sound, Next
  PROVE  Right'
<1>1. CASE SaveState \/ Deliver \/ OpenNone \/ ReusePR \/ CreatePR \/ ViewPR \/ Back
  BY <1>1, DeliverySteps
<1>2. CASE MergePR \/ ToBase BY <1>2, MergeSteps
<1>3. CASE Checkpoint BY <1>3, CheckpointRight
<1>4. CASE PushSucceeds \/ PushLocked
  <2>1. At("push") \/ At("initial push") BY <1>4 DEF PushSucceeds, PushLocked
  <2> QED BY <1>4, <2>1, PushRight, InitialPush
<1>5. CASE MarkCompleted \/ Complete BY <1>5, MarkRight, CompleteRight
<1>6. CASE Recover \/ Reconcile \/ Tests BY <1>6, RecoverRight, ReconcileRight, TestsRight
<1>7. CASE BootstrapDirty \/ Bootstrap BY <1>7, DirtyRight, BootstrapRight
<1>8. CASE SelectNone \/ SelectPhase BY <1>8, SelectNoneRight, SelectPhaseRight
<1>9. CASE Prepare \/ Verify \/ Repair \/ Resume \/ OpenMilestonePR \/ TryMerge \/ InspectChecks
  BY <1>9, CommandRight
<1>10. CASE Edit \/ Discard \/ Decide \/ ChecksEnd \/ Crash BY <1>10, WorldRight
<1>11. ~DeleteRemote /\ ~DeleteLocal BY Quiet DEF DeleteRemote, DeleteLocal, At
<1> QED BY <1>1, <1>2, <1>3, <1>4, <1>5, <1>6, <1>7, <1>8, <1>9, <1>10, <1>11 DEF Next, Step

\* The invariant holds at first.
LEMMA PInvInit == Init => PInv
<1> SUFFICES ASSUME Init PROVE PInv OBVIOUS
<1>1. WInv BY WInvInit
<1>2. /\ disk = EmptyState /\ job = NoJob /\ ~files.packet /\ ~files.verified
      /\ files.node = Refresh(Deps, [p \in Phase |-> "PENDING"])
      /\ tree = [head |-> "base", dirty |-> FALSE, branch |-> FALSE,
                 base |-> {}, feature |-> {}]
      /\ remote = [exists |-> FALSE, refs |-> {}, base |-> {}, feature |-> {}]
      /\ made = [p \in Phase |-> {}]
  BY DEF Init
<1>3. Made(made) = {} BY <1>2 DEF Made
<1>4. MaxCommits \in Nat /\ 0 \in 0 .. MaxCommits /\ 1 .. 0 = {} BY DeliveryAssumption
<1>5. Branching(tree, remote, made)
  <2>1. Sealed({}) BY DEF Sealed
  <2>2. /\ tree.head = "base" /\ ~tree.dirty /\ ~tree.branch /\ tree.base = {}
        /\ tree.feature = {} /\ remote.refs = {} /\ remote.base = {} /\ remote.feature = {}
    BY <1>2
  <2> HIDE DEF Sealed
  <2> QED BY <1>3, <1>4, <2>1, <2>2 DEF Branching
<1>6. /\ disk.cur = "" /\ disk.phase = NoPhase /\ disk.push = "" BY <1>2 DEF EmptyState
<1>7. ~Started(remote, made) BY <1>3 DEF Started
<1>8. \A p \in Phase : files.node[p] # "COMPLETED"
  <2> DEFINE n == [p \in Phase |-> "PENDING"]
  <2>1. DOMAIN n = Phase /\ \A p \in Phase : n[p] # "COMPLETED" OBVIOUS
  <2>2. files.node = Refresh(Deps, n) BY <1>2
  <2> HIDE DEF n
  <2> QED BY <2>1, <2>2, PassKeeps
<1>9. FilesAreRight(disk, files, tree, remote, made)
  <2>1. CopyIsRight(disk, files, tree, remote, made)
    BY <1>3, <1>6, <1>7 DEF CopyIsRight, Honest
  <2>2. ~tree.dirty BY <1>2
  <2> QED BY <1>6, <1>8, <2>1, <2>2 DEF FilesAreRight
<1>10. PlanIsRight(job.todo, job.st, disk, files, tree, remote, made)
  BY <1>2 DEF PlanIsRight, NoJob
<1> QED BY <1>1, <1>5, <1>9, <1>10 DEF PInv, PushOK

\* And every step keeps it.
LEMMA PInvStep ==
  ASSUME ~EditOnBase, PInv, [Next]_vars
  PROVE  PInv'
<1>1. WInv' BY WInvStep DEF PInv
<1>2. config' = config
  <2>1. CASE Step
    BY <2>1 DEF Step, SaveState, Checkpoint, PushSucceeds, PushLocked, Deliver,
      MarkCompleted, Complete, OpenNone, ReusePR, CreatePR, ViewPR, MergePR, MergeOr,
      DeleteRemote, DeleteLocal, ToBase, Back, Recover, Reconcile, BootstrapDirty,
      Bootstrap, SelectNone, SelectPhase, Tests
  <2>2. CASE Prepare \/ Verify \/ Repair \/ Resume \/ OpenMilestonePR \/ TryMerge \/ InspectChecks
    BY <2>2 DEF Prepare, Verify, Repair, Resume, OpenMilestonePR, TryMerge, InspectChecks
  <2>3. CASE Edit \/ Discard \/ Decide \/ ChecksEnd \/ Crash
    BY <2>3 DEF Edit, Discard, Decide, ChecksEnd, Crash
  <2>4. CASE UNCHANGED vars BY <2>4 DEF vars
  <2> QED BY <2>1, <2>2, <2>3, <2>4 DEF Next
<1>3. ASSUME ~config.delete PROVE PushOK'
  <2>1. Sound BY <1>3 DEF PInv, Sound
  <2>2. CASE Next BY <2>1, <2>2, BranchesStep, RightStep DEF Right, PushOK
  <2>3. CASE UNCHANGED vars BY <2>1, <2>3 DEF vars, Sound, PushOK
  <2> QED BY <2>2, <2>3
<1> QED BY <1>1, <1>2, <1>3 DEF PInv

\* What the record promises.
LEMMA RecordIsTrue == PInv => PushRecordIsTrue
<1> SUFFICES ASSUME PInv, ~config.delete, ~tree.dirty,
                    disk.cur = "COMPLETED", disk.push = "pushed", NEW p \in Phase
             PROVE  made[p] \subseteq OnGitHub
  BY DEF PushRecordIsTrue, RecordedWorkIsPushed
<1>1. Branching(tree, remote, made) /\ CopyIsRight(disk, files, tree, remote, made)
  BY DEF PInv, PushOK, FilesAreRight
<1>2. Synced(tree, remote) BY <1>1 DEF CopyIsRight
<1>3. made[p] \subseteq Made(made) BY DEF Made
<1>4. tree.feature = Made(made) BY <1>1 DEF Branching
<1> QED BY <1>2, <1>3, <1>4 DEF Synced, OnGitHub

\* Where merged branches are kept, no worker edits the base and no repair is under
\* way, what state.json records as completed and pushed is on GitHub
\* (push.go pushLocked, recover.go recoverLocked and reconcileDeliveryLocked,
\* prepare.go persistProjectCompleted).
THEOREM CompletedWorkIsPushed == ~EditOnBase => (Spec => []PushRecordIsTrue)
<1> SUFFICES ASSUME ~EditOnBase PROVE Spec => []PushRecordIsTrue OBVIOUS
<1>1. Init => PInv BY PInvInit
<1>2. PInv /\ [Next]_vars => PInv' BY PInvStep
<1>3. PInv => PushRecordIsTrue BY RecordIsTrue
<1> QED BY <1>1, <1>2, <1>3, PTL DEF Spec
=============================================================================
