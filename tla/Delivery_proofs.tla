-------------------------- MODULE Delivery_proofs --------------------------
(***************************************************************************)
(* Proofs, for any graph, configuration, number of commits, of pull        *)
(* requests and of crashes, that the delivery keeps to its types, begins   *)
(* to say merged of merged pull requests only, and completes a phase only  *)
(* with its work in commits.                                               *)
(*                                                                         *)
(* A command learns of a merge in its copy of state.json, and saves the    *)
(* copy some steps later.  In between it must not turn to another pull     *)
(* request, which would inherit the word.  The proof is that the steps     *)
(* which may turn to one come after a save, in every plan a command has.   *)
(*                                                                         *)
(* Many commands, refusals and crashes may come between the tests of a     *)
(* phase and the step that completes it. What carries the verdict over to  *)
(* it is in files, in the copy of state.json and in the plan of the        *)
(* command; the second invariant says how these fit. A dirty tree is       *)
(* committed in the plan before the phase is marked, no plan goes on to    *)
(* mark a phase without a verification, and a verification is not          *)
(* outlived: the plan that says VERIFIED completes, or takes it back,      *)
(* before it chooses the next phase.                                       *)
(***************************************************************************)
EXTENDS Delivery, PhaseGraph_proofs, SequenceTheorems, TLAPS

-----------------------------------------------------------------------------
\* Plans

\* The steps that open a pull request, or plan to.
Opening == {"recover", "tests", "select", "deliver", "open pr"}
\* The steps that save the copy, at once or as their next step but one.
Saving == {"save", "bootstrap"}

\* From its step n on, the plan opens no pull request before it saves.
Shielded(todo, n) ==
  \A k \in n .. Len(todo) : todo[k] \in Opening =>
    \E j \in n .. (k - 1) : todo[j] \in Saving

\* What follows a reconciliation is shielded: it may find a merge.
Reconciling == {"recover", "reconcile"}
Planned(todo) ==
  \A i \in 1 .. Len(todo) : todo[i] \in Reconciling => Shielded(todo, i + 1)

StepName ==
  {"save", "checkpoint", "push", "deliver", "graph", "complete", "open pr", "merge",
   "merge pr", "delete remote", "delete local", "to base", "back", "recover",
   "reconcile", "bootstrap", "initial push", "select", "tests"}
Steps == Seq(StepName)
None(steps, S) == \A i \in 1 .. Len(steps) : steps[i] \notin S

\* Indices of a plan put before another.
LEMMA ConcatIndex ==
  ASSUME NEW s \in Steps, NEW t \in Steps
  PROVE  /\ s \o t \in Steps /\ Len(s \o t) = Len(s) + Len(t)
         /\ Len(s) \in Nat /\ Len(t) \in Nat
         /\ \A i \in 1 .. Len(s) : (s \o t)[i] = s[i]
         /\ \A i \in 1 .. Len(t) : (s \o t)[i + Len(s)] = t[i]
BY DEF Steps

\* Indices of what is left after the first step.
LEMMA TailIndex ==
  ASSUME NEW t \in Steps, t # << >>
  PROVE  /\ Tail(t) \in Steps /\ Len(Tail(t)) = Len(t) - 1
         /\ Len(t) \in Nat /\ Len(t) >= 1
         /\ Head(t) = t[1]
         /\ \A i \in 1 .. Len(Tail(t)) : Tail(t)[i] = t[i + 1]
BY DEF Steps

\* Steps may be put before a plan when what follows a reconciliation in them
\* opens nothing, nor does the plan unsaved.
LEMMA PrefixPlanned ==
  ASSUME NEW s \in Steps, NEW t \in Steps, Planned(t),
         \A i \in 1 .. Len(s) : s[i] \in Reconciling =>
           Shielded(t, 1) /\ \A k \in (i + 1) .. Len(s) : s[k] \notin Opening
  PROVE  Planned(s \o t)
<1> DEFINE u == s \o t
<1>1. /\ u \in Steps /\ Len(u) = Len(s) + Len(t) /\ Len(s) \in Nat /\ Len(t) \in Nat
      /\ \A i \in 1 .. Len(s) : u[i] = s[i]
      /\ \A i \in 1 .. Len(t) : u[i + Len(s)] = t[i]
  BY ConcatIndex
<1> HIDE DEF u
<1> SUFFICES ASSUME NEW i \in 1 .. Len(u), u[i] \in Reconciling,
                    NEW k \in (i + 1) .. Len(u), u[k] \in Opening
             PROVE  \E j \in (i + 1) .. (k - 1) : u[j] \in Saving
  BY DEF Planned, Shielded, u
<1>2. PICK a \in 0 .. Len(t) : /\ Shielded(t, a + 1) /\ i <= a + Len(s)
                               /\ k > a + Len(s)
  <2>1. CASE i \in 1 .. Len(s)
    <3>1. s[i] \in Reconciling BY <1>1, <2>1
    <3>2. Shielded(t, 1) /\ \A n \in (i + 1) .. Len(s) : s[n] \notin Opening BY <2>1, <3>1
    <3>3. k \notin 1 .. Len(s)
      <4> SUFFICES ASSUME k \in 1 .. Len(s) PROVE FALSE OBVIOUS
      <4>1. k \in (i + 1) .. Len(s) /\ s[k] \in Opening BY <1>1
      <4> QED BY <3>2, <4>1
    <3>4. 0 \in 0 .. Len(t) /\ 0 + 1 = 1 /\ i <= 0 + Len(s) /\ k > 0 + Len(s)
      BY <1>1, <2>1, <3>3
    <3> QED BY <3>2, <3>4
  <2>2. CASE i \notin 1 .. Len(s)
    <3> DEFINE a == i - Len(s)
    <3>1. a \in 1 .. Len(t) /\ a + Len(s) = i /\ k > i BY <1>1, <2>2
    <3> HIDE DEF a
    <3>2. t[a] \in Reconciling BY <1>1, <3>1
    <3>3. Shielded(t, a + 1) BY <3>1, <3>2 DEF Planned
    <3>4. a \in 0 .. Len(t) /\ i <= a + Len(s) /\ k > a + Len(s) BY <1>1, <3>1
    <3> QED BY <3>3, <3>4
  <2> QED BY <2>1, <2>2
<1> DEFINE b == k - Len(s)
<1>3. b \in (a + 1) .. Len(t) /\ b \in 1 .. Len(t) /\ b + Len(s) = k BY <1>1, <1>2
<1> HIDE DEF b
<1>4. t[b] \in Opening BY <1>1, <1>3
<1>5. PICK j \in (a + 1) .. (b - 1) : t[j] \in Saving BY <1>2, <1>3, <1>4 DEF Shielded
<1>6. j \in 1 .. Len(t) /\ j + Len(s) \in (i + 1) .. (k - 1) BY <1>1, <1>2, <1>3
<1>7. u[j + Len(s)] = t[j] BY <1>1, <1>6
<1> QED BY <1>5, <1>6, <1>7

\* A plan is shielded when steps that open nothing precede a shielded one, or
\* when they save.
LEMMA PrefixShielded ==
  ASSUME NEW s \in Steps, NEW t \in Steps, None(s, Opening),
         Shielded(t, 1) \/ \E i \in 1 .. Len(s) : s[i] \in Saving
  PROVE  Shielded(s \o t, 1)
<1> DEFINE u == s \o t
<1>1. /\ u \in Steps /\ Len(u) = Len(s) + Len(t) /\ Len(s) \in Nat /\ Len(t) \in Nat
      /\ \A i \in 1 .. Len(s) : u[i] = s[i]
      /\ \A i \in 1 .. Len(t) : u[i + Len(s)] = t[i]
  BY ConcatIndex
<1> HIDE DEF u
<1> SUFFICES ASSUME NEW k \in 1 .. Len(u), u[k] \in Opening
             PROVE  \E j \in 1 .. (k - 1) : u[j] \in Saving
  BY DEF Shielded, u
<1>2. k \notin 1 .. Len(s) BY <1>1 DEF None
<1>3. CASE \E i \in 1 .. Len(s) : s[i] \in Saving
  <2>1. PICK i \in 1 .. Len(s) : s[i] \in Saving BY <1>3
  <2>2. i \in 1 .. (k - 1) BY <1>1, <1>2
  <2> QED BY <1>1, <2>1, <2>2
<1>4. CASE Shielded(t, 1)
  <2> DEFINE b == k - Len(s)
  <2>1. b \in 1 .. Len(t) /\ b + Len(s) = k BY <1>1, <1>2
  <2> HIDE DEF b
  <2>2. t[b] \in Opening BY <1>1, <2>1
  <2>3. PICK j \in 1 .. (b - 1) : t[j] \in Saving BY <1>4, <2>1, <2>2 DEF Shielded
  <2>4. j \in 1 .. Len(t) /\ j + Len(s) \in 1 .. (k - 1) BY <1>1, <2>1
  <2>5. u[j + Len(s)] = t[j] BY <1>1, <2>4
  <2> QED BY <2>3, <2>4, <2>5
<1> QED BY <1>3, <1>4

\* A suffix of a plan is a plan.
LEMMA SuffixPlanned ==
  ASSUME NEW t \in Steps, NEW n \in 0 .. Len(t), Planned(t), NEW u \in Steps,
         Len(u) = Len(t) - n, \A i \in 1 .. Len(u) : u[i] = t[i + n]
  PROVE  /\ Planned(u)
         /\ Shielded(t, n + 1) => Shielded(u, 1)
<1>1. Len(t) \in Nat /\ Len(u) \in Nat BY DEF Steps
<1>2. ASSUME NEW a \in 1 .. (Len(u) + 1), Shielded(t, a + n)
      PROVE  Shielded(u, a)
  <2> SUFFICES ASSUME NEW k \in a .. Len(u), u[k] \in Opening
               PROVE  \E j \in a .. (k - 1) : u[j] \in Saving
    BY DEF Shielded
  <2>1. k + n \in (a + n) .. Len(t) /\ k \in 1 .. Len(u) BY <1>1
  <2>2. t[k + n] \in Opening BY <2>1
  <2>3. PICK j \in (a + n) .. (k + n - 1) : t[j] \in Saving BY <1>2, <2>1, <2>2 DEF Shielded
  <2>4. j - n \in a .. (k - 1) /\ j - n \in 1 .. Len(u) /\ (j - n) + n = j BY <1>1, <2>1
  <2>5. u[j - n] = t[j] BY <2>4
  <2> QED BY <2>3, <2>4, <2>5
<1>3. Planned(u)
  <2> SUFFICES ASSUME NEW i \in 1 .. Len(u), u[i] \in Reconciling PROVE Shielded(u, i + 1)
    BY DEF Planned
  <2>1. i + n \in 1 .. Len(t) /\ i + 1 \in 1 .. (Len(u) + 1) /\ (i + 1) + n = (i + n) + 1
    BY <1>1
  <2>2. t[i + n] \in Reconciling OBVIOUS
  <2>3. Shielded(t, (i + n) + 1) BY <2>1, <2>2 DEF Planned
  <2> QED BY <1>2, <2>1, <2>3
<1>4. Shielded(t, n + 1) => Shielded(u, 1)
  <2>1. 1 \in 1 .. (Len(u) + 1) /\ 1 + n = n + 1 BY <1>1
  <2> QED BY <1>2, <2>1
<1> QED BY <1>3, <1>4

\* So is what is left after the first step.
LEMMA TailPlanned ==
  ASSUME NEW t \in Steps, t # << >>, Planned(t)
  PROVE  /\ Planned(Tail(t))
         /\ t[1] \in Reconciling => Shielded(Tail(t), 1)
         /\ Shielded(t, 1) => t[1] \notin Opening
         /\ Shielded(t, 1) /\ t[1] \notin Saving => Shielded(Tail(t), 1)
<1>1. /\ Tail(t) \in Steps /\ Len(Tail(t)) = Len(t) - 1 /\ 1 \in 0 .. Len(t)
      /\ Len(t) \in Nat /\ Len(t) >= 1
      /\ \A i \in 1 .. Len(Tail(t)) : Tail(t)[i] = t[i + 1]
  BY TailIndex
<1>2. Planned(Tail(t)) /\ (Shielded(t, 1 + 1) => Shielded(Tail(t), 1))
  BY <1>1, SuffixPlanned
<1>3. t[1] \in Reconciling => Shielded(t, 1 + 1) BY <1>1 DEF Planned
<1>4. Shielded(t, 1) => t[1] \notin Opening
  <2>1. 1 \in 1 .. Len(t) /\ 1 .. (1 - 1) = {} BY <1>1
  <2> QED BY <2>1 DEF Shielded
<1>5. Shielded(t, 1) /\ t[1] \notin Saving => Shielded(t, 1 + 1)
  <2> SUFFICES ASSUME Shielded(t, 1), t[1] \notin Saving,
                      NEW k \in (1 + 1) .. Len(t), t[k] \in Opening
               PROVE  \E j \in (1 + 1) .. (k - 1) : t[j] \in Saving
    BY DEF Shielded
  <2>1. k \in 1 .. Len(t) BY <1>1
  <2>2. PICK j \in 1 .. (k - 1) : t[j] \in Saving BY <2>1 DEF Shielded
  <2>3. j # 1 BY <2>2
  <2>4. j \in (1 + 1) .. (k - 1) BY <1>1, <2>3
  <2> QED BY <2>2, <2>4
<1> QED BY <1>2, <1>3, <1>4, <1>5

\* And what is left of one that gives its completion up.
LEMMA AfterCompletionPlanned ==
  ASSUME NEW t \in Steps, Planned(t)
  PROVE  /\ AfterCompletion(t) \in Steps /\ Planned(AfterCompletion(t))
         /\ \A S : None(t, S) => None(AfterCompletion(t), S)
<1>1. CASE \E i \in DOMAIN t : t[i] = "complete"
  <2> DEFINE n == CHOOSE i \in DOMAIN t : t[i] = "complete"
             u == SubSeq(t, n + 1, Len(t))
  <2>1. n \in DOMAIN t BY <1>1
  <2>2. DOMAIN t = 1 .. Len(t) /\ Len(t) \in Nat BY DEF Steps
  <2>3. AfterCompletion(t) = u BY <1>1 DEF AfterCompletion
  <2> HIDE DEF n
  <2>4. n \in 0 .. Len(t) BY <2>1, <2>2
  <2>5. u \in Steps /\ Len(u) = Len(t) - n BY <2>1, <2>2, SubSeqProperties DEF Steps
  <2>6. \A i \in 1 .. Len(u) : u[i] = t[i + n]
    <3> SUFFICES ASSUME NEW i \in 1 .. Len(u) PROVE u[i] = t[i + n] OBVIOUS
    <3>1. i \in 1 .. (Len(t) - (n + 1) + 1) BY <2>1, <2>2, <2>5
    <3>2. u[i] = t[(n + 1) + i - 1] BY <2>1, <2>2, <3>1, SubSeqProperties DEF Steps
    <3> QED BY <2>1, <2>2, <3>1, <3>2
  <2> HIDE DEF u
  <2>7. ASSUME NEW S, None(t, S) PROVE None(u, S)
    <3> SUFFICES ASSUME NEW i \in 1 .. Len(u) PROVE u[i] \notin S BY DEF None
    <3>1. i + n \in 1 .. Len(t) BY <2>2, <2>4, <2>5
    <3> QED BY <2>6, <2>7, <3>1 DEF None
  <2> QED BY <2>3, <2>4, <2>5, <2>6, <2>7, SuffixPlanned
<1>2. CASE ~\E i \in DOMAIN t : t[i] = "complete" BY <1>2 DEF AfterCompletion
<1> QED BY <1>1, <1>2

-----------------------------------------------------------------------------
\* The invariant

IsState(s, ps) ==
  /\ DOMAIN s = DOMAIN EmptyState
  /\ s.pr = 0 \/ s.pr \in DOMAIN ps
IsMerged(s, ps) == s.pr \in DOMAIN ps /\ ps[s.pr] = "merged"

\* The copy says merged and the file does not.
Unsaved(s, d) == s.merge = "merged" /\ d.merge # "merged"

\* What a copy says that the file does not is so, and is saved in time.
JobOK(j, d, ps) ==
  /\ DOMAIN j = DOMAIN NoJob
  /\ j.todo \in Steps /\ Planned(j.todo)
  /\ IsState(j.st, ps)
  /\ Unsaved(j.st, d) => IsMerged(j.st, ps) /\ Shielded(j.todo, 1)
  /\ ~None(j.todo, {"merge pr"}) => j.st.pr # 0

IInv == /\ prs \in Seq({"open", "merged", "closed"})
        /\ IsState(disk, prs)
        /\ JobOK(job, disk, prs)

\* No command is at work.
LEMMA NoJobOK ==
  ASSUME NEW d, NEW ps
  PROVE  JobOK(NoJob, d, ps)
<1>1. NoJob.todo = << >> /\ NoJob.st = EmptyState BY DEF NoJob
<1>2. EmptyState.merge = "" /\ EmptyState.pr = 0 BY DEF EmptyState
<1>3. << >> \in Steps /\ Len(<< >>) = 0 BY DEF Steps
<1>4. Planned(<< >>) /\ None(<< >>, {"merge pr"}) BY <1>3 DEF Planned, None
<1> QED BY <1>1, <1>2, <1>3, <1>4 DEF JobOK, IsState, Unsaved

\* Pull requests come to exist and change, but what is merged stays so.
Kept(ps, qs) == \A n \in DOMAIN ps : n \in DOMAIN qs /\ (ps[n] = "merged" => qs[n] = "merged")

\* A step that is not the command's keeps it in order.
LEMMA KeptOK ==
  ASSUME NEW j, NEW d, NEW ps, NEW qs, JobOK(j, d, ps), Kept(ps, qs)
  PROVE  JobOK(j, d, qs)
BY DEF JobOK, IsState, IsMerged, Kept

\* The command goes on with a plan and a copy that are in order.
LEMMA GoOnOK ==
  ASSUME DOMAIN job = DOMAIN NoJob, NEW steps, NEW st, GoOn(steps, st),
         LET todo == steps \o Tail(job.todo)
         IN  /\ todo \in Steps /\ Planned(todo)
             /\ IsState(st, prs')
             /\ Unsaved(st, disk') => IsMerged(st, prs') /\ Shielded(todo, 1)
             /\ ~None(todo, {"merge pr"}) => st.pr # 0
  PROVE  JobOK(job', disk', prs')
<1> DEFINE todo == steps \o Tail(job.todo)
<1>1. CASE todo = << >> BY <1>1, NoJobOK DEF GoOn
<1>2. CASE todo # << >>
  <2>1. job' = [job EXCEPT !.todo = todo, !.st = st] BY <1>2 DEF GoOn
  <2>2. "todo" \in DOMAIN NoJob /\ "st" \in DOMAIN NoJob BY DEF NoJob
  <2>3. DOMAIN job' = DOMAIN NoJob /\ job'.todo = todo /\ job'.st = st BY <2>1, <2>2
  <2> QED BY <2>3 DEF JobOK
<1> QED BY <1>1, <1>2

\* A step occurs in a plan only when it occurs in one of its parts.
LEMMA NoneConcat ==
  ASSUME NEW s \in Steps, NEW t \in Steps, NEW S, None(s, S), None(t, S)
  PROVE  None(s \o t, S)
<1> DEFINE u == s \o t
<1>1. /\ u \in Steps /\ Len(u) = Len(s) + Len(t) /\ Len(s) \in Nat /\ Len(t) \in Nat
      /\ \A i \in 1 .. Len(s) : u[i] = s[i]
      /\ \A i \in 1 .. Len(t) : u[i + Len(s)] = t[i]
  BY ConcatIndex
<1> HIDE DEF u
<1> SUFFICES ASSUME NEW i \in 1 .. Len(u) PROVE u[i] \notin S BY DEF None, u
<1>2. CASE i \in 1 .. Len(s) BY <1>1, <1>2 DEF None
<1>3. CASE i \notin 1 .. Len(s)
  <2> DEFINE a == i - Len(s)
  <2>1. a \in 1 .. Len(t) /\ a + Len(s) = i BY <1>1, <1>3
  <2> HIDE DEF a
  <2> QED BY <1>1, <2>1 DEF None
<1> QED BY <1>2, <1>3

\* Nor does one occur after the first that does not occur at all.
LEMMA NoneTail ==
  ASSUME NEW t \in Steps, t # << >>, NEW S, None(t, S)
  PROVE  None(Tail(t), S)
<1>1. /\ Len(Tail(t)) = Len(t) - 1 /\ Len(t) \in Nat
      /\ \A i \in 1 .. Len(Tail(t)) : Tail(t)[i] = t[i + 1]
  BY TailIndex
<1> SUFFICES ASSUME NEW i \in 1 .. Len(Tail(t)) PROVE Tail(t)[i] \notin S BY DEF None
<1>2. i + 1 \in 1 .. Len(t) BY <1>1
<1> QED BY <1>1, <1>2 DEF None

\* The first step occurs.
LEMMA NoneHead ==
  ASSUME NEW t \in Steps, t # << >>, NEW S, None(t, S)
  PROVE  Head(t) \notin S
<1>1. Len(t) \in Nat /\ Len(t) >= 1 /\ Head(t) = t[1] BY TailIndex
<1>2. 1 \in 1 .. Len(t) BY <1>1
<1> QED BY <1>1, <1>2 DEF None

\* A plan that saves last saves.
LEMMA SaveLast ==
  ASSUME NEW t \in Steps, NEW s \in Steps, Len(s) = 1, s[1] = "save"
  PROVE  t \o s \in Steps /\ \E i \in 1 .. Len(t \o s) : (t \o s)[i] \in Saving
<1> DEFINE u == t \o s
<1>1. /\ u \in Steps /\ Len(u) = Len(t) + Len(s) /\ Len(t) \in Nat
      /\ \A i \in 1 .. Len(s) : u[i + Len(t)] = s[i]
  BY ConcatIndex
<1> HIDE DEF u
<1>2. 1 \in 1 .. Len(s) /\ 1 + Len(t) \in 1 .. Len(u) BY <1>1
<1>3. u[1 + Len(t)] = "save" BY <1>1, <1>2
<1> QED BY <1>1, <1>2, <1>3 DEF Saving, u

\* The usual step: it puts steps that reconcile nothing before the rest, and
\* its copy says nothing new about merges that is not so and saved in time.
LEMMA StepOK ==
  ASSUME JobOK(job, disk, prs), job.todo # << >>,
         NEW steps \in Steps, NEW st, GoOn(steps, st),
         None(steps, Reconciling), IsState(st, prs'),
         None(steps, {"merge pr"}) \/ st.pr # 0,
         job.st.pr # 0 => st.pr # 0,
         Unsaved(st, disk') =>
           /\ IsMerged(st, prs')
           /\ None(steps, Opening)
           /\ \/ \E i \in 1 .. Len(steps) : steps[i] \in Saving
              \/ Shielded(Tail(job.todo), 1)
  PROVE  JobOK(job', disk', prs')
<1> DEFINE rest == Tail(job.todo)
<1>1. /\ DOMAIN job = DOMAIN NoJob /\ job.todo \in Steps /\ Planned(job.todo)
      /\ ~None(job.todo, {"merge pr"}) => job.st.pr # 0
  BY DEF JobOK
<1>2. rest \in Steps /\ Planned(rest) BY <1>1, TailIndex, TailPlanned
<1>3. ~None(rest, {"merge pr"}) => ~None(job.todo, {"merge pr"}) BY <1>1, NoneTail
<1> HIDE DEF rest
<1> DEFINE todo == steps \o rest
<1>4. todo \in Steps BY <1>2, ConcatIndex
<1>5. Planned(todo) BY <1>2, PrefixPlanned DEF None
<1>6. Unsaved(st, disk') => Shielded(todo, 1) BY <1>2, PrefixShielded DEF rest
<1>7. ~None(todo, {"merge pr"}) => ~None(steps, {"merge pr"}) \/ ~None(rest, {"merge pr"})
  BY <1>2, NoneConcat
<1> HIDE DEF todo
<1>8. ~None(todo, {"merge pr"}) => st.pr # 0 BY <1>1, <1>3, <1>7
<1>9. todo = steps \o Tail(job.todo) BY DEF todo, rest
<1> QED BY <1>1, <1>4, <1>5, <1>6, <1>8, <1>9, GoOnOK

-----------------------------------------------------------------------------
\* Steps

\* A copy that says of merges what the copy before it says, or less.
SameMerge(st) == /\ IsState(st, prs) /\ st.pr = job.st.pr
                 /\ st.merge = "merged" => job.st.merge = "merged"

\* The fields of state.json.
LEMMA Fields ==
  DOMAIN EmptyState = {"cur", "phase", "finished", "commit", "checkpoints", "branch",
                       "push", "pr", "merge"}
BY DEF EmptyState

\* Plans of no step and of one.
LEMMA ShortPlans ==
  /\ << >> \in Steps /\ \A S : None(<< >>, S)
  /\ \A x \in StepName : <<x>> \in Steps /\ Len(<<x>>) = 1 /\ <<x>>[1] = x
  /\ \A x \in StepName : \A S : x \notin S => None(<<x>>, S)
<1>1. << >> \in Steps /\ \A S : None(<< >>, S) BY DEF Steps, None
<1>2. ASSUME NEW x \in StepName
      PROVE  <<x>> \in Steps /\ Len(<<x>>) = 1 /\ <<x>>[1] = x
  <2> HIDE DEF StepName
  <2> QED BY DEF Steps
<1>3. \A x \in StepName : \A S : x \notin S => None(<<x>>, S) BY <1>2 DEF None
<1> QED BY <1>1, <1>2, <1>3

\* While a merge is unsaved the next step opens nothing.
LEMMA Unopened ==
  ASSUME IInv, job.todo # << >>, Unsaved(job.st, disk)
  PROVE  /\ IsMerged(job.st, prs) /\ Head(job.todo) \notin Opening
         /\ Head(job.todo) \notin Saving => Shielded(Tail(job.todo), 1)
<1>1. job.todo \in Steps /\ Planned(job.todo) /\ IsMerged(job.st, prs) /\ Shielded(job.todo, 1)
  BY DEF IInv, JobOK
<1> QED BY <1>1, TailIndex, TailPlanned

\* A step that changes neither the file nor what is merged.
LEMMA SameStep ==
  ASSUME IInv, job.todo # << >>, Head(job.todo) \notin Saving,
         disk' = disk, Kept(prs, prs'),
         NEW steps \in Steps, NEW st, GoOn(steps, st), SameMerge(st),
         None(steps, Reconciling), None(steps, {"merge pr"}) \/ st.pr # 0,
         None(steps, Opening) \/ Head(job.todo) \in Opening
  PROVE  JobOK(job', disk', prs')
<1>1. IsState(st, prs') BY DEF SameMerge, IsState, Kept
<1>2. Unsaved(st, disk') => Unsaved(job.st, disk) BY DEF Unsaved, SameMerge
<1>3. Unsaved(job.st, disk) =>
        /\ IsMerged(job.st, prs) /\ Shielded(Tail(job.todo), 1)
        /\ Head(job.todo) \notin Opening
  BY Unopened
<1>4. IsMerged(job.st, prs) => IsMerged(st, prs') BY DEF IsMerged, SameMerge, Kept
<1>5. job.st.pr # 0 => st.pr # 0 BY DEF SameMerge
<1>6. JobOK(job, disk, prs) BY DEF IInv
<1> QED BY <1>1, <1>2, <1>3, <1>4, <1>5, <1>6, StepOK

\* Nothing happens to pull requests.
LEMMA KeptSame == prs' = prs => Kept(prs, prs')
BY DEF Kept

\* Whatever step is at hand, its command has a copy of state.json.
LEMMA CopyOK ==
  ASSUME IInv
  PROVE  /\ SameMerge(job.st) /\ DOMAIN job.st = DOMAIN EmptyState
         /\ DOMAIN disk = DOMAIN EmptyState /\ DOMAIN job = DOMAIN NoJob
BY DEF IInv, JobOK, SameMerge, IsState

\* Checkpoint, push and the marks: the record is a little further.
LEMMA CompletionStep ==
  ASSUME IInv, Checkpoint \/ PushSucceeds \/ MarkCompleted \/ Deliver \/ OpenNone
               \/ DeleteLocal \/ ToBase \/ Back
  PROVE  JobOK(job', disk', prs') /\ disk' = disk /\ prs' = prs
<1>1. disk' = disk /\ prs' = prs /\ Kept(prs, prs')
  BY KeptSame DEF Checkpoint, PushSucceeds, MarkCompleted, Deliver, OpenNone,
     DeleteLocal, ToBase, Back
<1> DEFINE Plain(st) == SameMerge(st) /\ GoOn(<< >>, st)
<1>2. SameMerge(job.st) /\ DOMAIN job.st = DOMAIN EmptyState BY CopyOK
<1>3. CASE Checkpoint
  <2>1. job.todo # << >> /\ Head(job.todo) = "checkpoint" BY <1>3 DEF Checkpoint, At
  <2>2. \E st : Plain(st)
    <3> DEFINE c == Cardinality(UNION {made[p] : p \in Phase}) + 1
               a == [job.st EXCEPT !.commit = c, !.checkpoints = @ \cup {job.st.phase},
                       !.push = IF @ \in {"", "pushed"} THEN "pending" ELSE @]
               b == [job.st EXCEPT !.commit = Tip(tree[tree.head]),
                       !.checkpoints = @ \cup {job.st.phase}]
    <3>1. GoOn(<< >>, a) \/ GoOn(<< >>, job.st) \/ GoOn(<< >>, b) BY <1>3 DEF Checkpoint
    <3>2. SameMerge(a) BY <1>2, Fields DEF SameMerge, IsState
    <3>3. SameMerge(b) BY <1>2, Fields DEF SameMerge, IsState
    <3> HIDE DEF a, b
    <3> QED BY <1>2, <3>1, <3>2, <3>3
  <2> QED BY <1>1, <2>1, <2>2, ShortPlans, SameStep DEF Saving
<1>4. CASE PushSucceeds
  <2> DEFINE a == [job.st EXCEPT !.push = "pushed"]
  <2>1. job.todo # << >> /\ Head(job.todo) \in {"push", "initial push"} /\ GoOn(<< >>, a)
    BY <1>4 DEF PushSucceeds, At
  <2>2. SameMerge(a) BY <1>2, Fields DEF SameMerge, IsState
  <2> HIDE DEF a
  <2> QED BY <1>1, <2>1, <2>2, ShortPlans, SameStep DEF Saving
<1>5. CASE Deliver
  <2> DEFINE merge == IF config.autoMerge THEN <<"merge">> ELSE << >>
             steps == IF config.boundary = "phase" \/ job.st.finished
                      THEN <<"open pr">> \o merge ELSE << >>
  <2>1. job.todo # << >> /\ Head(job.todo) = "deliver" /\ GoOn(steps, job.st)
    BY <1>5 DEF Deliver, At
  <2>2. {"open pr", "merge"} \subseteq StepName BY DEF StepName
  <2>3. merge \in Steps /\ None(merge, Reconciling) /\ None(merge, {"merge pr"})
    BY <2>2, ShortPlans DEF Reconciling
  <2>4. <<"open pr">> \in Steps /\ None(<<"open pr">>, Reconciling)
        /\ None(<<"open pr">>, {"merge pr"})
    BY <2>2, ShortPlans DEF Reconciling
  <2> HIDE DEF merge
  <2>5. <<"open pr">> \o merge \in Steps /\ None(<<"open pr">> \o merge, Reconciling)
        /\ None(<<"open pr">> \o merge, {"merge pr"})
    BY <2>3, <2>4, ConcatIndex, NoneConcat
  <2>6. steps \in Steps /\ None(steps, Reconciling) /\ None(steps, {"merge pr"})
    BY <2>5, ShortPlans
  <2> HIDE DEF steps
  <2> QED BY <1>1, <1>2, <2>1, <2>6, SameStep DEF Saving, Opening
<1>6. CASE MarkCompleted \/ OpenNone \/ DeleteLocal \/ Back
  <2>1. /\ job.todo # << >> /\ Head(job.todo) \notin Saving
        /\ GoOn(<< >>, job.st)
    BY <1>6 DEF MarkCompleted, OpenNone, DeleteLocal, Back, At, Saving
  <2> QED BY <1>1, <1>2, <2>1, ShortPlans, SameStep
<1>7. CASE ToBase
  <2>1. job.todo # << >> /\ Head(job.todo) \notin Saving BY <1>7 DEF ToBase, At, Saving
  <2>2. GoOn(<< >>, job.st) \/ GoOn(<<"back">>, job.st) BY <1>7 DEF ToBase
  <2>3. "back" \in StepName BY DEF StepName
  <2>4. <<"back">> \in Steps /\ None(<<"back">>, Reconciling)
        /\ None(<<"back">>, {"merge pr"}) /\ None(<<"back">>, Opening)
    BY <2>3, ShortPlans DEF Reconciling, Opening
  <2> QED BY <1>1, <1>2, <2>1, <2>2, <2>4, ShortPlans, SameStep
<1> QED BY <1>1, <1>3, <1>4, <1>5, <1>6, <1>7

\* A push that does not happen; one that fails saves first.
LEMMA PushLockedStep ==
  ASSUME IInv, PushLocked
  PROVE  JobOK(job', disk', prs') /\ disk' = disk /\ prs' = prs
<1>1. disk' = disk /\ prs' = prs /\ Kept(prs, prs') BY KeptSame DEF PushLocked
<1>2. job.todo # << >> /\ Head(job.todo) \notin Saving BY DEF PushLocked, At, Saving
<1>3. SameMerge(job.st) /\ DOMAIN job.st = DOMAIN EmptyState /\ DOMAIN job = DOMAIN NoJob
  BY CopyOK
<1> DEFINE a == [job.st EXCEPT !.push = "skipped"]
           b == [job.st EXCEPT !.push = "pushed"]
           c == [job.st EXCEPT !.push = "failed"]
           w == [job.st EXCEPT !.push = "failed", !.cur = "WAITING"]
           todo == <<"save">> \o AfterCompletion(Tail(job.todo))
<1>4. \/ GoOn(<< >>, a) \/ GoOn(<< >>, b) \/ GoOn(<< >>, c)
      \/ job' = [job EXCEPT !.st = w, !.todo = todo]
  BY DEF PushLocked
<1>5. SameMerge(a) /\ SameMerge(b) /\ SameMerge(c) /\ SameMerge(w)
  BY <1>3, Fields DEF SameMerge, IsState
<1> HIDE DEF a, b, c, w
<1>6. CASE GoOn(<< >>, a) \/ GoOn(<< >>, b) \/ GoOn(<< >>, c)
  BY <1>1, <1>2, <1>5, <1>6, ShortPlans, SameStep
<1>7. CASE job' = [job EXCEPT !.st = w, !.todo = todo]
  <2>1. JobOK(job, disk, prs) BY DEF IInv
  <2>2. job.todo \in Steps /\ Planned(job.todo) /\ (~None(job.todo, {"merge pr"}) => job.st.pr # 0)
    BY <2>1 DEF JobOK
  <2>3. Tail(job.todo) \in Steps /\ Planned(Tail(job.todo)) BY <1>2, <2>2, TailIndex, TailPlanned
  <2> DEFINE rest == AfterCompletion(Tail(job.todo))
  <2>4. rest \in Steps /\ Planned(rest)
        /\ (None(job.todo, {"merge pr"}) => None(rest, {"merge pr"}))
    BY <1>2, <2>2, <2>3, NoneTail, AfterCompletionPlanned
  <2> HIDE DEF rest
  <2>5. "save" \in StepName BY DEF StepName
  <2>6. /\ <<"save">> \in Steps /\ Len(<<"save">>) = 1 /\ <<"save">>[1] = "save"
        /\ None(<<"save">>, Reconciling) /\ None(<<"save">>, Opening)
        /\ None(<<"save">>, {"merge pr"})
    BY <2>5, ShortPlans DEF Reconciling, Opening
  <2>7. todo = <<"save">> \o rest BY DEF rest
  <2> HIDE DEF todo
  <2>8. todo \in Steps BY <2>4, <2>6, <2>7, ConcatIndex
  <2>9. Planned(todo) BY <2>4, <2>6, <2>7, PrefixPlanned DEF None
  <2>10. Shielded(todo, 1)
    <3>1. \E i \in 1 .. Len(<<"save">>) : <<"save">>[i] \in Saving BY DEF Saving
    <3> QED BY <2>4, <2>6, <2>7, <3>1, PrefixShielded
  <2>11. ~None(todo, {"merge pr"}) => job.st.pr # 0 BY <2>2, <2>4, <2>6, <2>7, NoneConcat
  <2>12. DOMAIN job' = DOMAIN NoJob /\ job'.todo = todo /\ job'.st = w
    BY <1>3, <1>7 DEF NoJob
  <2>13. Unsaved(w, disk) => IsMerged(w, prs)
    BY <1>2, <1>5, Unopened DEF SameMerge, Unsaved, IsMerged
  <2> QED BY <1>1, <1>5, <2>8, <2>9, <2>10, <2>11, <2>12, <2>13 DEF JobOK, SameMerge
<1> QED BY <1>1, <1>4, <1>6, <1>7

\* The tests, and the choice of a phase: nothing is unsaved then.
LEMMA OpeningStep ==
  ASSUME IInv, Tests \/ SelectNone \/ SelectPhase
  PROVE  JobOK(job', disk', prs') /\ disk' = disk /\ prs' = prs
<1>1. disk' = disk /\ prs' = prs /\ Kept(prs, prs')
  BY KeptSame DEF Tests, SelectNone, SelectPhase
<1>2. job.todo # << >> /\ Head(job.todo) \in Opening /\ Head(job.todo) \notin Saving
  BY DEF Tests, SelectNone, SelectPhase, At, Opening, Saving
<1>3. SameMerge(job.st) /\ DOMAIN job.st = DOMAIN EmptyState BY CopyOK
<1> DEFINE Fine(steps) == /\ steps \in Steps /\ None(steps, Reconciling)
                          /\ None(steps, {"merge pr"})
<1>4. {"save", "deliver"} \subseteq StepName BY DEF StepName
<1>5. Fine(<< >>) /\ Fine(<<"save">>) BY <1>4, ShortPlans DEF Reconciling
<1>6. Fine(<<"deliver", "save">>)
  <2>1. <<"deliver", "save">> \in Steps BY DEF Steps, StepName
  <2>2. \A i \in 1 .. 2 : <<"deliver", "save">>[i] \in {"deliver", "save"} OBVIOUS
  <2> QED BY <2>1, <2>2 DEF None, Reconciling
<1>7. Fine(CompletionSteps)
  <2>1. CompletionSteps \in Steps BY DEF Steps, StepName, CompletionSteps
  <2>2. \A i \in 1 .. 5 : CompletionSteps[i] \in {"checkpoint", "push", "deliver", "graph", "complete"}
    BY DEF CompletionSteps
  <2>3. Len(CompletionSteps) = 5 BY DEF CompletionSteps
  <2> QED BY <2>1, <2>2, <2>3 DEF None, Reconciling
<1>8. \E steps, st : Fine(steps) /\ SameMerge(st) /\ GoOn(steps, st)
  <2>1. CASE Tests
    <3>1. PICK pass \in BOOLEAN :
            GoOn(IF pass THEN CompletionSteps ELSE <<"save">>,
                 [job.st EXCEPT !.cur = IF pass THEN "VERIFIED" ELSE "FAILED",
                                !.commit = Tip(tree[tree.head])])
      BY <2>1 DEF Tests
    <3> DEFINE st == [job.st EXCEPT !.cur = IF pass THEN "VERIFIED" ELSE "FAILED",
                                    !.commit = Tip(tree[tree.head])]
    <3>2. SameMerge(st) BY <1>3, Fields DEF SameMerge, IsState
    <3> HIDE DEF st, Fine
    <3>3. Fine(IF pass THEN CompletionSteps ELSE <<"save">>) BY <1>5, <1>7
    <3> QED BY <3>1, <3>2, <3>3 DEF st
  <2>2. CASE SelectNone
    <3> DEFINE st == [job.st EXCEPT !.finished = TRUE, !.cur = "COMPLETED"]
    <3>1. GoOn(<<"deliver", "save">>, st) \/ GoOn(<< >>, job.st) BY <2>2 DEF SelectNone
    <3>2. SameMerge(st) BY <1>3, Fields DEF SameMerge, IsState
    <3> HIDE DEF st, Fine
    <3> QED BY <1>3, <1>5, <1>6, <3>1, <3>2
  <2>3. CASE SelectPhase
    <3> DEFINE branch == IF tree.branch THEN tree.feature ELSE tree[tree.head]
               st == [job.st EXCEPT !.cur = "PREPARED", !.phase = Selected.phase,
                                    !.branch = TRUE, !.commit = Tip(branch)]
    <3>1. GoOn(IF tree.dirty THEN << >> ELSE <<"save">>, st) BY <2>3 DEF SelectPhase
    <3>2. SameMerge(st) BY <1>3, Fields DEF SameMerge, IsState
    <3> HIDE DEF st, Fine
    <3>3. Fine(IF tree.dirty THEN << >> ELSE <<"save">>) BY <1>5
    <3> QED BY <3>1, <3>2, <3>3
  <2> QED BY <2>1, <2>2, <2>3
<1> QED BY <1>1, <1>2, <1>8, SameStep

\* A pull request is found or created: nothing is unsaved then either.
LEMMA OpenStep ==
  ASSUME IInv, ReusePR \/ CreatePR
  PROVE  JobOK(job', disk', prs') /\ disk' = disk /\ Kept(prs, prs')
         /\ prs' \in Seq({"open", "merged", "closed"})
<1>1. job.todo # << >> /\ Head(job.todo) \in Opening
  BY DEF ReusePR, CreatePR, MayOpen, At, Opening
<1>2. disk' = disk /\ prs \in Seq({"open", "merged", "closed"}) /\ JobOK(job, disk, prs)
  BY DEF ReusePR, CreatePR, IInv
<1>3. PICK n \in DOMAIN prs' : /\ GoOn(<< >>, Known(job.st, n))
                               /\ Kept(prs, prs')
                               /\ prs' \in Seq({"open", "merged", "closed"})
                               /\ n # 0
  <2>1. CASE ReusePR
    <3>1. prs' = prs /\ \E n \in DOMAIN prs : GoOn(<< >>, Known(job.st, n))
      BY <2>1 DEF ReusePR, Open
    <3>2. 0 \notin DOMAIN prs BY <1>2
    <3> QED BY <1>2, <3>1, <3>2, KeptSame
  <2>2. CASE CreatePR
    <3>1. prs' = Append(prs, "open") /\ GoOn(<< >>, Known(job.st, Len(prs')))
      BY <2>2 DEF CreatePR
    <3>2. /\ prs' \in Seq({"open", "merged", "closed"}) /\ Len(prs') = Len(prs) + 1
          /\ \A n \in 1 .. Len(prs) : prs'[n] = prs[n]
          /\ Len(prs) \in Nat /\ DOMAIN prs = 1 .. Len(prs) /\ DOMAIN prs' = 1 .. Len(prs')
      BY <1>2, <3>1
    <3>3. Kept(prs, prs') BY <3>2 DEF Kept
    <3> QED BY <3>1, <3>2, <3>3
  <2> QED BY <2>1, <2>2
<1> DEFINE st == Known(job.st, n)
<1>4. DOMAIN job.st = DOMAIN EmptyState BY CopyOK
<1>5. /\ DOMAIN st = DOMAIN EmptyState /\ st.pr = n
      /\ st.merge = "merged" => job.st.merge = "merged"
  BY <1>4, Fields DEF Known, Merge
<1> HIDE DEF st
<1>6. IsState(st, prs') BY <1>5 DEF IsState
<1>7. ~Unsaved(st, disk') BY <1>1, <1>2, <1>5, Unopened DEF Unsaved
<1>8. GoOn(<< >>, st) BY <1>3 DEF st
<1> QED BY <1>1, <1>2, <1>3, <1>5, <1>6, <1>7, <1>8, ShortPlans, StepOK

\* The plan that cleans a merged branch up opens nothing.
LEMMA CleanupPlan ==
  /\ CleanupSteps \in Steps /\ None(CleanupSteps, Reconciling)
  /\ None(CleanupSteps, {"merge pr"}) /\ None(CleanupSteps, Opening)
<1> DEFINE full == <<"delete remote", "delete local", "to base">>
           Harmful == Reconciling \cup Opening \cup {"merge pr"}
<1>1. full \in Steps /\ None(full, Harmful)
  <2>1. full \in Steps /\ Len(full) = 3 BY DEF Steps, StepName
  <2>2. full[1] = "delete remote" /\ full[2] = "delete local" /\ full[3] = "to base"
    OBVIOUS
  <2> HIDE DEF full
  <2>3. full[1] \notin Harmful /\ full[2] \notin Harmful /\ full[3] \notin Harmful
    BY <2>2 DEF Reconciling, Opening
  <2> HIDE DEF Harmful
  <2>4. \A i \in 1 .. 3 : i = 1 \/ i = 2 \/ i = 3 OBVIOUS
  <2> QED BY <2>1, <2>3, <2>4 DEF None
<1>2. "to base" \in StepName /\ "to base" \notin Harmful
  BY DEF StepName, Reconciling, Opening
<1>3. CleanupSteps = full \/ CleanupSteps = <<"to base">> \/ CleanupSteps = << >>
  BY DEF CleanupSteps
<1> HIDE DEF full, Harmful
<1>4. CleanupSteps \in Steps /\ None(CleanupSteps, Harmful)
  BY <1>1, <1>2, <1>3, ShortPlans
<1> QED BY <1>4 DEF None, Harmful

\* gh pr merge, and the branch that goes with it: what the command now knows to
\* be merged it saves in the end.
LEMMA MergeStep ==
  ASSUME IInv, MergePR \/ DeleteRemote
  PROVE  JobOK(job', disk', prs') /\ disk' = disk /\ Kept(prs, prs')
         /\ prs' \in Seq({"open", "merged", "closed"})
<1>1. disk' = disk /\ prs \in Seq({"open", "merged", "closed"}) /\ JobOK(job, disk, prs)
  BY DEF MergePR, MergeOr, DeleteRemote, IInv
<1>2. SameMerge(job.st) /\ DOMAIN job.st = DOMAIN EmptyState BY CopyOK
<1>3. "save" \in StepName BY DEF StepName
<1>4. /\ <<"save">> \in Steps /\ Len(<<"save">>) = 1 /\ <<"save">>[1] = "save"
      /\ None(<<"save">>, Reconciling) /\ None(<<"save">>, Opening)
      /\ None(<<"save">>, {"merge pr"})
  BY <1>3, ShortPlans DEF Reconciling, Opening
<1>5. CASE MergePR
  <2> DEFINE a == [job.st EXCEPT !.merge = "merged"]
             b(to) == [job.st EXCEPT !.merge = to]
             steps == CleanupSteps \o <<"save">>
  <2>1. job.todo # << >> /\ Head(job.todo) = "merge pr" BY <1>5 DEF MergePR, MergeOr, At
  <2>2. job.st.pr \in DOMAIN prs
    <3>1. job.todo \in Steps /\ (~None(job.todo, {"merge pr"}) => job.st.pr # 0)
          /\ IsState(job.st, prs)
      BY <1>1 DEF JobOK
    <3>2. ~None(job.todo, {"merge pr"}) BY <2>1, <3>1, NoneHead
    <3> QED BY <3>1, <3>2 DEF IsState
  <2>3. \/ prs' = [prs EXCEPT ![job.st.pr] = "merged"] /\ GoOn(steps, a)
        \/ prs' = prs /\ \E to \in {"waiting", job.st.merge} : GoOn(<<"save">>, b(to))
    BY <1>5 DEF MergePR, MergeOr
  <2>4. CASE prs' = [prs EXCEPT ![job.st.pr] = "merged"] /\ GoOn(steps, a)
    <3>1. /\ prs' \in Seq({"open", "merged", "closed"}) /\ DOMAIN prs' = DOMAIN prs
          /\ \A n \in DOMAIN prs : prs'[n] = IF n = job.st.pr THEN "merged" ELSE prs[n]
      BY <1>1, <2>2, <2>4
    <3>2. Kept(prs, prs') BY <3>1 DEF Kept
    <3>3. IsState(a, prs') /\ IsMerged(a, prs') /\ a.pr = job.st.pr
      BY <1>2, <2>2, <3>1, Fields DEF IsState, IsMerged
    <3>4. steps \in Steps /\ \E i \in 1 .. Len(steps) : steps[i] \in Saving
      BY <1>4, CleanupPlan, SaveLast
    <3>5. None(steps, Reconciling) /\ None(steps, {"merge pr"}) /\ None(steps, Opening)
      BY <1>4, CleanupPlan, NoneConcat
    <3> HIDE DEF a, steps
    <3> QED BY <1>1, <2>1, <2>4, <3>1, <3>2, <3>3, <3>4, <3>5, StepOK
  <2>5. CASE prs' = prs /\ \E to \in {"waiting", job.st.merge} : GoOn(<<"save">>, b(to))
    <3>1. PICK to \in {"waiting", job.st.merge} : GoOn(<<"save">>, b(to)) BY <2>5
    <3>2. SameMerge(b(to)) BY <1>2, Fields DEF SameMerge, IsState
    <3> HIDE DEF b
    <3>3. Head(job.todo) \notin Saving BY <2>1 DEF Saving
    <3> QED BY <1>1, <1>4, <2>1, <2>5, <3>1, <3>2, <3>3, KeptSame, SameStep
  <2> QED BY <2>3, <2>4, <2>5
<1>6. CASE DeleteRemote
  <2>1. job.todo # << >> /\ Head(job.todo) \notin Saving /\ GoOn(<< >>, job.st)
    BY <1>6 DEF DeleteRemote, At, Saving
  <2>2. \/ prs' = prs
        \/ prs' = [n \in DOMAIN prs |-> IF n \in Open THEN "closed" ELSE prs[n]]
    BY <1>6 DEF DeleteRemote
  <2>3. prs' \in Seq({"open", "merged", "closed"}) BY <1>1, <2>2
  <2>4. Kept(prs, prs') BY <2>2 DEF Kept, Open
  <2> QED BY <1>1, <1>2, <2>1, <2>3, <2>4, ShortPlans, SameStep
<1> QED BY <1>5, <1>6

\* A reconciliation may find a merge, and what follows saves before it opens.
LEMMA ReconcileStep ==
  ASSUME IInv, Reconcile
  PROVE  JobOK(job', disk', prs') /\ disk' = disk /\ prs' = prs
<1>1. disk' = disk /\ prs' = prs /\ JobOK(job, disk, prs) BY DEF Reconcile, IInv
<1>2. job.todo # << >> /\ Head(job.todo) = "reconcile" BY DEF Reconcile, At
<1>3. /\ DOMAIN job.st = DOMAIN EmptyState /\ SameMerge(job.st) BY CopyOK
<1> DEFINE st == IF job.st.branch /\ Pushed(job.st) THEN [job.st EXCEPT !.push = "pushed"]
                 ELSE job.st
           known == Known(st, CHOOSE n \in Open : TRUE)
           found == IF st.pr # 0 \/ Open = {} \/ ~st.branch THEN st ELSE known
           a == [found EXCEPT !.merge = "merged"]
           b == IF ci = "pending" THEN Merge(found, "checking")
                ELSE IF found.merge = "" THEN Merge(found, "open") ELSE found
<1>4. \/ GoOn(<< >>, st)
      \/ found.pr = 0 /\ GoOn(<< >>, found)
      \/ found.pr # 0 /\ prs[found.pr] = "merged" /\ GoOn(CleanupSteps, a)
      \/ GoOn(<< >>, b)
  BY DEF Reconcile
<1>5. /\ DOMAIN st = DOMAIN EmptyState /\ st.pr = job.st.pr /\ st.merge = job.st.merge
      /\ SameMerge(st)
  BY <1>3, Fields DEF SameMerge, IsState
<1> HIDE DEF st
<1>6. /\ IsState(found, prs)
      /\ found = st \/ st.pr = 0
      /\ found.merge = "merged" => st.merge = "merged"
      /\ st.pr # 0 => found.pr # 0
  <2>1. CASE found = st BY <1>5, <2>1 DEF SameMerge
  <2>2. CASE found = known /\ Open # {} /\ st.pr = 0
    <3> DEFINE n == CHOOSE m \in Open : TRUE
    <3>1. n \in DOMAIN prs BY <2>2 DEF Open
    <3>2. known = Known(st, n) OBVIOUS
    <3> HIDE DEF n
    <3>3. /\ DOMAIN known = DOMAIN EmptyState /\ known.pr = n
          /\ known.merge = "merged" => st.merge = "merged"
      BY <1>5, <3>2, Fields DEF Known, Merge
    <3> QED BY <2>2, <3>1, <3>3 DEF IsState
  <2> QED BY <2>1, <2>2
<1> HIDE DEF found
<1>7. job.st.pr # 0 => found.pr # 0 BY <1>5, <1>6
<1>8. /\ IsState(a, prs) /\ a.pr = found.pr
      /\ IsState(b, prs) /\ b.pr = found.pr /\ (b.merge = "merged" => found.merge = "merged")
  BY <1>6, Fields DEF IsState, Merge
<1> HIDE DEF a, b
<1>9. Head(job.todo) \notin Saving BY <1>2 DEF Saving
<1>10. CASE GoOn(<< >>, st)
  BY <1>1, <1>2, <1>5, <1>9, <1>10, ShortPlans, KeptSame, SameStep
<1>11. ASSUME NEW x \in {found, b}, GoOn(<< >>, x) PROVE JobOK(job', disk', prs')
  <2>1. IsState(x, prs) /\ x.pr = found.pr /\ (x.merge = "merged" => found.merge = "merged")
    BY <1>6, <1>8
  <2>2. Unsaved(x, disk) => Unsaved(job.st, disk) BY <1>5, <1>6, <2>1 DEF Unsaved
  <2>3. Unsaved(job.st, disk) =>
          /\ IsMerged(job.st, prs) /\ Shielded(Tail(job.todo), 1)
    BY <1>2, <1>9, Unopened
  <2>4. IsMerged(job.st, prs) => job.st.pr # 0
    <3>1. 0 \notin DOMAIN prs BY DEF IInv
    <3> QED BY <3>1 DEF IsMerged
  <2>5. Unsaved(x, disk) => IsMerged(x, prs) /\ Shielded(Tail(job.todo), 1)
    BY <1>5, <1>6, <2>1, <2>2, <2>3, <2>4 DEF IsMerged
  <2> QED BY <1>1, <1>2, <1>7, <1>11, <2>1, <2>5, ShortPlans, StepOK
<1>12. CASE found.pr # 0 /\ prs[found.pr] = "merged" /\ GoOn(CleanupSteps, a)
  <2>1. IsMerged(a, prs) BY <1>6, <1>8, <1>12 DEF IsMerged, IsState
  <2>2. Shielded(Tail(job.todo), 1)
    <3>1. job.todo \in Steps /\ Planned(job.todo) BY <1>1 DEF JobOK
    <3> QED BY <1>2, <3>1, TailIndex, TailPlanned DEF Reconciling
  <2> QED BY <1>1, <1>2, <1>7, <1>8, <1>12, <2>1, <2>2, CleanupPlan, StepOK
<1> QED BY <1>1, <1>4, <1>10, <1>11, <1>12

\* The file begins to say merged of a merged pull request only.
RecordOK == disk.merge # "merged" /\ disk'.merge = "merged" => IsMerged(disk', prs)

\* The indices of short plans.
LEMMA Indices ==
  /\ \A i \in 1 .. 2 : i = 1 \/ i = 2
  /\ \A i \in 1 .. 3 : i = 1 \/ i = 2 \/ i = 3
  /\ \A i \in 1 .. 6 : i \in 1 .. 5 \/ i = 6
OBVIOUS

\* After a reconciliation these steps open nothing, and none of them merges.
Harmless(t) ==
  /\ t \in Steps /\ None(t, {"merge pr"})
  /\ \A i \in 1 .. Len(t) : t[i] \in Reconciling =>
       \A k \in (i + 1) .. Len(t) : t[k] \notin Opening

\* The plan of recovery for a verified phase: its completion comes first.
LEMMA CompletionPlan == Harmless(CompletionSteps \o <<"reconcile">>)
<1> DEFINE s == CompletionSteps
           r == <<"reconcile">>
           t == s \o r
<1>1. s \in Steps BY DEF Steps, StepName, CompletionSteps
<1>2. Len(s) = 5 BY DEF CompletionSteps
<1>3. \A i \in 1 .. 5 : s[i] \in {"checkpoint", "push", "deliver", "graph", "complete"}
  BY DEF CompletionSteps
<1>4. None(s, {"merge pr"}) /\ None(s, Reconciling) BY <1>2, <1>3 DEF None, Reconciling
<1>5. "reconcile" \in StepName BY DEF StepName
<1>6. r \in Steps /\ Len(r) = 1 /\ None(r, {"merge pr"}) BY <1>5, ShortPlans
<1> HIDE DEF s, r
<1>7. /\ t \in Steps /\ Len(t) = 6
      /\ \A i \in 1 .. Len(s) : t[i] = s[i]
  <2>1. Len(t) = Len(s) + Len(r) BY <1>1, <1>6, ConcatIndex
  <2>2. Len(r) = 1 BY <1>6
  <2>3. Len(t) = 5 + 1 BY <1>2, <2>1, <2>2
  <2>4. 5 + 1 = 6 OBVIOUS
  <2>5. t \in Steps /\ \A i \in 1 .. Len(s) : t[i] = s[i] BY <1>1, <1>6, ConcatIndex
  <2> HIDE DEF t
  <2>6. Len(t) = 6 BY <2>3, <2>4
  <2> QED BY <2>5, <2>6
<1>8. None(t, {"merge pr"}) BY <1>1, <1>4, <1>6, NoneConcat
<1> HIDE DEF t
<1>9. Len(t) = 6 BY <1>7
<1>10. \A i \in 1 .. 5 : t[i] \notin Reconciling BY <1>2, <1>4, <1>7 DEF None
<1>11. (6 + 1) .. 6 = {} OBVIOUS
<1>12. \A i \in 1 .. 6 : t[i] \in Reconciling => \A k \in (i + 1) .. 6 : t[k] \notin Opening
  BY <1>10, <1>11, Indices
<1>13. Harmless(t) BY <1>7, <1>8, <1>9, <1>12 DEF Harmless
<1> QED BY <1>13 DEF s, r, t

\* That for a completed one pushes again.
LEMMA PushPlan == Harmless(<<"push", "reconcile", "save">>)
<1> DEFINE t == <<"push", "reconcile", "save">>
<1>1. t \in Steps BY DEF Steps, StepName
<1>2. Len(t) = 3 OBVIOUS
<1>3. t[1] = "push" /\ t[2] = "reconcile" /\ t[3] = "save" OBVIOUS
<1> HIDE DEF t
<1>4. None(t, {"merge pr"}) BY <1>2, <1>3, Indices DEF None
<1>5. t[1] \notin Opening /\ t[2] \notin Opening /\ t[3] \notin Opening BY <1>3 DEF Opening
<1>6. \A i \in 1 .. 3 : t[i] \notin Opening BY <1>5, Indices
<1>7. \A i \in 1 .. 3 : \A k \in (i + 1) .. 3 : k \in 1 .. 3 OBVIOUS
<1> QED BY <1>1, <1>2, <1>4, <1>6, <1>7 DEF Harmless, t

\* What recovery plans before it reconciles, and after.
LEMMA RecoverPlan ==
  /\ Harmless(CompletionSteps \o <<"reconcile">>)
  /\ Harmless(<<"push", "reconcile", "save">>)
  /\ Harmless(<<"reconcile">>)
<1>1. "reconcile" \in StepName BY DEF StepName
<1>2. <<"reconcile">> \in Steps /\ Len(<<"reconcile">>) = 1 /\ None(<<"reconcile">>, {"merge pr"})
  BY <1>1, ShortPlans
<1>3. \A i \in 1 .. 1 : (i + 1) .. 1 = {} OBVIOUS
<1>4. Harmless(<<"reconcile">>) BY <1>2, <1>3 DEF Harmless
<1> QED BY <1>4, CompletionPlan, PushPlan

\* Recovery: nothing is unsaved before it, and it shields what follows it.
LEMMA RecoverStep ==
  ASSUME IInv, Recover
  PROVE  JobOK(job', disk', prs') /\ IsState(disk', prs') /\ prs' = prs /\ RecordOK
<1>1. prs' = prs /\ JobOK(job, disk, prs) /\ IsState(disk, prs) BY DEF Recover, IInv
<1>2. job.todo # << >> /\ Head(job.todo) = "recover" BY DEF Recover, At
<1>3. /\ DOMAIN job.st = DOMAIN EmptyState /\ SameMerge(job.st) BY CopyOK
<1>4. ~Unsaved(job.st, disk) BY <1>2, Unopened DEF Opening
<1> DEFINE claimed == [job.st EXCEPT !.cur = "CLAIMED_DONE"]
<1>5. \E steps : \E st \in {claimed, job.st} :
        Harmless(steps) /\ GoOn(steps, st) /\ disk' \in {disk, st}
  <2>1. CASE job.st.cur = "VERIFYING"
    <3>1. disk' = claimed /\ GoOn(<<"reconcile">>, claimed) BY <2>1 DEF Recover
    <3> QED BY <3>1, RecoverPlan
  <2>2. CASE job.st.cur # "VERIFYING"
    <3>1. /\ disk' = disk
          /\ \/ GoOn(CompletionSteps \o <<"reconcile">>, job.st)
             \/ GoOn(<<"push", "reconcile", "save">>, job.st)
             \/ GoOn(<<"reconcile">>, job.st)
      BY <2>2 DEF Recover
    <3> QED BY <3>1, RecoverPlan
  <2> QED BY <2>1, <2>2
<1>6. PICK steps, st : /\ st \in {claimed, job.st}
                       /\ Harmless(steps) /\ GoOn(steps, st) /\ disk' \in {disk, st}
  BY <1>5
<1>7. IsState(st, prs) /\ st.pr = job.st.pr /\ st.merge = job.st.merge
  <2>1. IsState(job.st, prs) BY <1>3 DEF SameMerge
  <2>2. /\ DOMAIN claimed = DOMAIN EmptyState
        /\ claimed.pr = job.st.pr /\ claimed.merge = job.st.merge
    BY <1>3, Fields
  <2>3. IsState(claimed, prs)
    <3> HIDE DEF claimed
    <3> QED BY <2>1, <2>2 DEF IsState
  <2> HIDE DEF claimed
  <2> QED BY <1>6, <2>1, <2>2, <2>3
<1> HIDE DEF claimed
<1>8. ~Unsaved(st, disk') BY <1>4, <1>6, <1>7 DEF Unsaved
<1>9. IsState(disk', prs') /\ RecordOK BY <1>1, <1>4, <1>6, <1>7 DEF RecordOK, Unsaved
<1> DEFINE rest == Tail(job.todo)
<1>10. /\ job.todo \in Steps /\ Planned(job.todo) /\ DOMAIN job = DOMAIN NoJob
       /\ ~None(job.todo, {"merge pr"}) => job.st.pr # 0
  BY <1>1 DEF JobOK
<1>11. rest \in Steps /\ Planned(rest) /\ Shielded(rest, 1)
  BY <1>2, <1>10, TailIndex, TailPlanned DEF Reconciling
<1>12. ~None(rest, {"merge pr"}) => job.st.pr # 0 BY <1>2, <1>10, NoneTail
<1> HIDE DEF rest
<1>13. steps \in Steps /\ None(steps, {"merge pr"}) BY <1>6 DEF Harmless
<1>14. Planned(steps \o rest) BY <1>6, <1>11, <1>13, PrefixPlanned DEF Harmless
<1>15. steps \o rest \in Steps BY <1>11, <1>13, ConcatIndex
<1>16. ~None(steps \o rest, {"merge pr"}) => st.pr # 0
  BY <1>7, <1>11, <1>12, <1>13, NoneConcat
<1> QED BY <1>1, <1>6, <1>7, <1>8, <1>9, <1>10, <1>14, <1>15, <1>16, GoOnOK DEF rest

\* The steps that save.
LEMMA SavingStep ==
  ASSUME IInv, SaveState \/ Complete \/ BootstrapDirty \/ ViewPR
  PROVE  JobOK(job', disk', prs') /\ IsState(disk', prs') /\ prs' = prs /\ RecordOK
<1>1. prs' = prs /\ JobOK(job, disk, prs) /\ IsState(disk, prs)
  BY DEF SaveState, Complete, BootstrapDirty, ViewPR, IInv
<1>2. job.todo # << >> BY DEF SaveState, Complete, BootstrapDirty, ViewPR, At
<1>3. /\ DOMAIN job.st = DOMAIN EmptyState /\ SameMerge(job.st) BY CopyOK
<1>4. ASSUME NEW st, IsState(st, prs), st.pr = job.st.pr, GoOn(<< >>, st), disk' = st,
             st.merge = "merged" => job.st.merge = "merged" \/ IsMerged(job.st, prs)
      PROVE  JobOK(job', disk', prs') /\ IsState(disk', prs') /\ RecordOK
  <2>1. ~Unsaved(st, disk') BY <1>4 DEF Unsaved
  <2>2. JobOK(job', disk', prs') BY <1>1, <1>2, <1>4, <2>1, ShortPlans, StepOK
  <2>3. RecordOK BY <1>2, <1>4, Unopened DEF RecordOK, Unsaved, IsMerged
  <2> QED BY <1>1, <1>4, <2>2, <2>3
<1>5. CASE SaveState
  <2>1. GoOn(<< >>, job.st) /\ disk' = job.st BY <1>5 DEF SaveState
  <2> QED BY <1>1, <1>3, <1>4, <2>1 DEF SameMerge
<1>6. CASE Complete
  <2> DEFINE st == [job.st EXCEPT !.cur = "COMPLETED", !.finished = @ \/ AllCompleted(files.node)]
  <2>1. disk' = st /\ GoOn(<< >>, st) BY <1>6 DEF Complete
  <2>2. IsState(st, prs) /\ st.pr = job.st.pr /\ st.merge = job.st.merge
    BY <1>3, Fields DEF SameMerge, IsState
  <2> HIDE DEF st
  <2> QED BY <1>1, <1>4, <2>1, <2>2
<1>7. CASE BootstrapDirty
  <2>1. disk' = job.st /\ (job' = NoJob \/ GoOn(<< >>, job.st)) BY <1>7 DEF BootstrapDirty
  <2>2. CASE GoOn(<< >>, job.st) BY <1>1, <1>3, <1>4, <2>1, <2>2 DEF SameMerge
  <2>3. CASE job' = NoJob
    <3>1. RecordOK BY <1>2, <2>1, Unopened DEF RecordOK, Unsaved
    <3> QED BY <1>1, <1>3, <2>1, <2>3, <3>1, NoJobOK DEF SameMerge
  <2> QED BY <2>1, <2>2, <2>3
<1>8. CASE ViewPR
  <2> DEFINE a(to) == [job.st EXCEPT !.merge = to]
             Record(st) == disk' = st /\ GoOn(<< >>, st)
  <2>1. \/ Record(job.st)
        \/ \E to \in {"waiting", "checking"} : Record(a(to))
        \/ job.st.pr # 0 /\ prs[job.st.pr] = "merged" /\ Record(a("merged"))
        \/ job.st.pr # 0 /\ GoOn(<<"merge pr">>, job.st) /\ disk' = disk
    BY <1>8 DEF ViewPR, EvaluateMerge
  <2>2. \A to : IsState(a(to), prs) /\ a(to).pr = job.st.pr /\ a(to).merge = to
    BY <1>3, Fields DEF SameMerge, IsState
  <2> HIDE DEF a
  <2>3. CASE Record(job.st) BY <1>1, <1>3, <1>4, <2>3 DEF SameMerge
  <2>4. ASSUME NEW to \in {"waiting", "checking"}, Record(a(to))
        PROVE  JobOK(job', disk', prs') /\ IsState(disk', prs') /\ RecordOK
    <3>1. a(to).merge # "merged" BY <2>2
    <3> QED BY <1>4, <2>2, <2>4, <3>1
  <2>5. CASE job.st.pr # 0 /\ prs[job.st.pr] = "merged" /\ Record(a("merged"))
    <3>1. IsMerged(job.st, prs) BY <1>3, <2>5 DEF IsMerged, SameMerge, IsState
    <3> QED BY <1>1, <1>4, <2>2, <2>5, <3>1
  <2>6. CASE job.st.pr # 0 /\ GoOn(<<"merge pr">>, job.st) /\ disk' = disk
    <3>1. "merge pr" \in StepName BY DEF StepName
    <3>2. <<"merge pr">> \in Steps /\ None(<<"merge pr">>, Reconciling)
          /\ None(<<"merge pr">>, Opening)
      BY <3>1, ShortPlans DEF Reconciling, Opening
    <3>3. Head(job.todo) \notin Saving BY <1>8 DEF ViewPR, At, Saving
    <3>4. RecordOK BY <2>6 DEF RecordOK
    <3> QED BY <1>1, <1>2, <1>3, <2>6, <3>2, <3>3, <3>4, KeptSame, SameStep
  <2> QED BY <1>1, <2>1, <2>3, <2>4, <2>5, <2>6
<1> QED BY <1>1, <1>5, <1>6, <1>7, <1>8

\* A bootstrap that goes on saves next, or after its push.
LEMMA BootstrapStep ==
  ASSUME IInv, Bootstrap
  PROVE  JobOK(job', disk', prs') /\ disk' = disk /\ prs' = prs
<1>1. disk' = disk /\ prs' = prs /\ JobOK(job, disk, prs) BY DEF Bootstrap, IInv
<1>2. job.todo # << >> /\ DOMAIN job = DOMAIN NoJob BY CopyOK DEF Bootstrap, At
<1>3. /\ DOMAIN job.st = DOMAIN EmptyState /\ SameMerge(job.st) BY CopyOK
<1>4. {"save", "initial push"} \subseteq StepName BY DEF StepName
<1>5. /\ <<"save">> \in Steps /\ Len(<<"save">>) = 1 /\ <<"save">>[1] = "save"
      /\ None(<<"save">>, Reconciling) /\ None(<<"save">>, Opening)
      /\ None(<<"save">>, {"merge pr"})
  BY <1>4, ShortPlans DEF Reconciling, Opening
<1>6. PICK r \in Configured(job.st) :
        LET st == [job.st EXCEPT !.push = r.push]
            ready == [st EXCEPT !.commit = Tip(tree.base)]
            asked == [job.st EXCEPT !.cur = "WAITING"]
            send == IF r.exists /\ r.push # "skipped" THEN <<"initial push">> ELSE << >>
        IN  \/ \E last \in {st, asked} : job' = [job EXCEPT !.todo = <<"save">>, !.st = last]
            \/ GoOn(send \o <<"save">>, ready)
  BY DEF Bootstrap
<1> DEFINE st == [job.st EXCEPT !.push = r.push]
           ready == [st EXCEPT !.commit = Tip(tree.base)]
           asked == [job.st EXCEPT !.cur = "WAITING"]
           send == IF r.exists /\ r.push # "skipped" THEN <<"initial push">> ELSE << >>
<1>7. SameMerge(st) /\ SameMerge(ready) /\ SameMerge(asked)
  BY <1>3, Fields DEF SameMerge, IsState
<1>8. send \in Steps /\ None(send, Reconciling) /\ None(send, Opening) /\ None(send, {"merge pr"})
  BY <1>4, ShortPlans DEF Reconciling, Opening
<1>9. \/ \E last \in {st, asked} : job' = [job EXCEPT !.todo = <<"save">>, !.st = last]
      \/ GoOn(send \o <<"save">>, ready)
  BY <1>6
<1> HIDE DEF st, ready, asked, send
<1>10. ASSUME NEW x, SameMerge(x), Unsaved(x, disk) PROVE IsMerged(x, prs)
  BY <1>2, <1>10, Unopened DEF SameMerge, Unsaved, IsMerged
<1>11. CASE GoOn(send \o <<"save">>, ready)
  <2> DEFINE steps == send \o <<"save">>
  <2>1. steps \in Steps /\ \E i \in 1 .. Len(steps) : steps[i] \in Saving
    BY <1>5, <1>8, SaveLast
  <2>2. None(steps, Reconciling) /\ None(steps, Opening) /\ None(steps, {"merge pr"})
    BY <1>5, <1>8, NoneConcat
  <2> HIDE DEF steps
  <2>3. GoOn(steps, ready) BY <1>11 DEF steps
  <2>4. IsState(ready, prs') /\ (job.st.pr # 0 => ready.pr # 0) BY <1>1, <1>7 DEF SameMerge
  <2>5. Unsaved(ready, disk') => IsMerged(ready, prs') BY <1>1, <1>7, <1>10
  <2> QED BY <1>1, <1>2, <2>1, <2>2, <2>3, <2>4, <2>5, StepOK
<1>12. ASSUME NEW last \in {st, asked}, job' = [job EXCEPT !.todo = <<"save">>, !.st = last]
       PROVE  JobOK(job', disk', prs')
  <2>1. SameMerge(last) BY <1>7
  <2>2. DOMAIN job' = DOMAIN NoJob /\ job'.todo = <<"save">> /\ job'.st = last
    BY <1>2, <1>12 DEF NoJob
  <2>3. Planned(<<"save">>) BY <1>5 DEF Planned, None
  <2>4. Shielded(<<"save">>, 1) BY <1>5 DEF Shielded, None
  <2>5. IsState(last, prs) BY <2>1 DEF SameMerge
  <2>6. Unsaved(last, disk) => IsMerged(last, prs) BY <1>10, <2>1
  <2> QED BY <1>1, <1>5, <2>2, <2>3, <2>4, <2>5, <2>6 DEF JobOK
<1> QED BY <1>1, <1>9, <1>11, <1>12

\* The plans with which commands begin.
Ready(steps) == steps \in Steps /\ Planned(steps) /\ None(steps, {"merge pr"})

\* prepare saves between its recovery and its choice of a phase.
LEMMA PreparePlan == Ready(PrepareSteps)
<1> DEFINE t == PrepareSteps
<1>1. t \in Steps BY DEF PrepareSteps, Steps, StepName
<1>2. Len(t) = 3 BY DEF PrepareSteps
<1>3. t[1] = "recover" /\ t[2] = "bootstrap" /\ t[3] = "select" BY DEF PrepareSteps
<1> HIDE DEF t
<1>4. None(t, {"merge pr"}) BY <1>2, <1>3, Indices DEF None
<1>5. Shielded(t, 2)
  <2>1. \A k \in 2 .. 3 : k = 2 \/ (k = 3 /\ 2 \in 2 .. (k - 1)) OBVIOUS
  <2> QED BY <1>2, <1>3, <2>1 DEF Shielded, Opening, Saving
<1>6. t[2] \notin Reconciling /\ t[3] \notin Reconciling BY <1>3 DEF Reconciling
<1>7. \A i \in 1 .. 3 : t[i] \in Reconciling => i = 1 BY <1>6, Indices
<1>8. Planned(t) BY <1>2, <1>5, <1>7 DEF Planned
<1> QED BY <1>1, <1>4, <1>8 DEF Ready, t

\* resume recovers and saves.
LEMMA ResumePlan == Ready(<<"recover", "save">>)
<1> DEFINE t == <<"recover", "save">>
<1>1. t \in Steps BY DEF Steps, StepName
<1>2. Len(t) = 2 OBVIOUS
<1>3. t[1] = "recover" /\ t[2] = "save" OBVIOUS
<1> HIDE DEF t
<1>4. None(t, {"merge pr"}) BY <1>2, <1>3, Indices DEF None
<1>5. \A i \in 1 .. 2 : \A k \in (i + 1) .. 2 : k = 2 OBVIOUS
<1>6. \A i \in 1 .. 2 : Shielded(t, i + 1) BY <1>2, <1>3, <1>5 DEF Shielded, Opening
<1>7. Planned(t) BY <1>2, <1>6 DEF Planned
<1> QED BY <1>1, <1>4, <1>7 DEF Ready, t

\* prdpr pr opens one and saves.
LEMMA OpenPlan == Ready(<<"open pr", "save">>)
<1> DEFINE t == <<"open pr", "save">>
<1>1. t \in Steps BY DEF Steps, StepName
<1>2. Len(t) = 2 OBVIOUS
<1>3. t[1] = "open pr" /\ t[2] = "save" OBVIOUS
<1> HIDE DEF t
<1>4. None(t, {"merge pr"}) BY <1>2, <1>3, Indices DEF None
<1>5. None(t, Reconciling) BY <1>2, <1>3, Indices DEF None, Reconciling
<1> QED BY <1>1, <1>4, <1>5 DEF Ready, Planned, None, t

\* All of them.
LEMMA StartPlan ==
  /\ Ready(PrepareSteps) /\ Ready(<<"recover", "save">>) /\ Ready(<<"open pr", "save">>)
  /\ Ready(<<"tests">>) /\ Ready(<<"merge">>)
<1>1. \A x \in {"tests", "merge"} :
        <<x>> \in Steps /\ None(<<x>>, {"merge pr"}) /\ None(<<x>>, Reconciling)
  <2>1. {"tests", "merge"} \subseteq StepName BY DEF StepName
  <2> QED BY <2>1, ShortPlans DEF Reconciling
<1>2. \A x \in {"tests", "merge"} : Ready(<<x>>) BY <1>1 DEF Ready, Planned, None
<1> QED BY <1>2, PreparePlan, ResumePlan, OpenPlan

\* A command begins with the file as it is, or as it has just saved it.
LEMMA BeginOK ==
  ASSUME NEW steps, Ready(steps), IsState(disk', prs'), NEW resume, NEW autoMerge,
         job' = [todo |-> steps, st |-> disk', resume |-> resume, autoMerge |-> autoMerge]
  PROVE  JobOK(job', disk', prs')
<1>1. DOMAIN job' = DOMAIN NoJob /\ job'.todo = steps /\ job'.st = disk' BY DEF NoJob
<1> QED BY <1>1 DEF JobOK, Unsaved, Ready

\* Commands without steps of their own, and those that begin.
LEMMA CommandStep ==
  ASSUME IInv, \/ Prepare \/ Verify \/ Repair \/ Resume
               \/ OpenMilestonePR \/ TryMerge \/ InspectChecks
  PROVE  JobOK(job', disk', prs') /\ IsState(disk', prs') /\ prs' = prs /\ RecordOK
<1>1. prs' = prs /\ job = NoJob /\ IsState(disk, prs) /\ DOMAIN disk = DOMAIN EmptyState
  BY CopyOK DEF Prepare, Verify, Repair, Resume, OpenMilestonePR, TryMerge, InspectChecks,
                Idle, IInv
<1>2. ASSUME NEW steps, Ready(steps), IsState(disk', prs), NEW resume, NEW autoMerge,
             job' = [todo |-> steps, st |-> disk', resume |-> resume,
                     autoMerge |-> autoMerge]
      PROVE  JobOK(job', disk', prs')
  BY <1>1, <1>2, BeginOK
<1>3. \A cur : /\ IsState([disk EXCEPT !.cur = cur], prs)
               /\ [disk EXCEPT !.cur = cur].merge = disk.merge
  BY <1>1, Fields DEF IsState
<1>4. CASE Prepare \/ OpenMilestonePR \/ TryMerge
  <2>1. disk' = disk BY <1>4 DEF Prepare, OpenMilestonePR, TryMerge
  <2>2. RecordOK BY <2>1 DEF RecordOK
  <2>3. JobOK(job', disk', prs')
    BY <1>1, <1>2, <1>4, <2>1, StartPlan DEF Prepare, OpenMilestonePR, TryMerge, Start
  <2> QED BY <1>1, <2>1, <2>2, <2>3
<1>5. CASE Verify \/ Repair \/ Resume
  <2>1. \E cur : disk' = [disk EXCEPT !.cur = cur] BY <1>5 DEF Verify, Repair, Resume
  <2>2. IsState(disk', prs) /\ disk'.merge = disk.merge BY <1>3, <2>1
  <2>3. RecordOK BY <2>2 DEF RecordOK
  <2>4. JobOK(job', disk', prs')
    <3>1. CASE job' = job BY <1>1, <3>1, NoJobOK
    <3>2. CASE job' # job
      BY <1>1, <1>2, <1>5, <2>2, <3>2, StartPlan DEF Verify, Repair, Resume
    <3> QED BY <3>1, <3>2
  <2> QED BY <1>1, <2>2, <2>3, <2>4
<1>6. CASE InspectChecks
  <2>1. job' = NoJob /\ disk' \in {Merge(disk, "checking"), Merge(disk, "open"), disk}
    BY <1>1, <1>6 DEF InspectChecks
  <2>2. IsState(disk', prs) /\ (disk'.merge = "merged" => disk.merge = "merged")
    BY <1>1, <2>1, Fields DEF Merge, IsState
  <2> QED BY <1>1, <2>1, <2>2, NoJobOK DEF RecordOK
<1> QED BY <1>4, <1>5, <1>6

\* The worker, the user, GitHub and crashes.
LEMMA WorldStep ==
  ASSUME IInv, Edit \/ Discard \/ Decide \/ ChecksEnd \/ Crash
  PROVE  JobOK(job', disk', prs') /\ disk' = disk /\ Kept(prs, prs')
         /\ prs' \in Seq({"open", "merged", "closed"})
<1>1. /\ disk' = disk /\ JobOK(job, disk, prs)
      /\ prs \in Seq({"open", "merged", "closed"})
  BY DEF Edit, Discard, Decide, ChecksEnd, Crash, IInv
<1>2. CASE Edit \/ Discard \/ ChecksEnd \/ Crash
  <2>1. prs' = prs /\ job' \in {job, NoJob} BY <1>2 DEF Edit, Discard, ChecksEnd, Crash
  <2> QED BY <1>1, <2>1, KeptSame, NoJobOK
<1>3. CASE Decide
  <2>1. job' = job BY <1>3 DEF Decide
  <2>2. PICK n \in Open : prs' = [prs EXCEPT ![n] = "merged"]
                          \/ prs' = [prs EXCEPT ![n] = "closed"]
    BY <1>3 DEF Decide
  <2>3. n \in DOMAIN prs /\ prs[n] = "open" BY <2>2 DEF Open
  <2>4. prs' \in Seq({"open", "merged", "closed"}) BY <1>1, <2>2, <2>3
  <2>5. DOMAIN prs' = DOMAIN prs /\ \A m \in DOMAIN prs : m # n => prs'[m] = prs[m]
    BY <2>2
  <2>6. Kept(prs, prs') BY <2>3, <2>5 DEF Kept
  <2> QED BY <1>1, <2>1, <2>4, <2>6, KeptOK
<1> QED BY <1>2, <1>3

\* A new project has no pull request and no command at work.
LEMMA IInvInit == Init => IInv
<1> SUFFICES ASSUME Init PROVE IInv OBVIOUS
<1>1. disk = EmptyState /\ job = NoJob /\ prs = << >> BY DEF Init
<1>2. prs \in Seq({"open", "merged", "closed"}) BY <1>1
<1>3. IsState(disk, prs) BY <1>1 DEF IsState, EmptyState
<1> QED BY <1>1, <1>2, <1>3, NoJobOK DEF IInv

\* Every step keeps the invariant and the record.
LEMMA IInvStep == IInv /\ [Next]_vars => IInv' /\ RecordOK
<1> SUFFICES ASSUME IInv, [Next]_vars PROVE IInv' /\ RecordOK OBVIOUS
<1>1. IsState(disk, prs) /\ prs \in Seq({"open", "merged", "closed"}) BY DEF IInv
<1>2. ASSUME JobOK(job', disk', prs'), disk' = disk, Kept(prs, prs'),
             prs' \in Seq({"open", "merged", "closed"})
      PROVE  IInv' /\ RecordOK
  BY <1>1, <1>2 DEF IInv, RecordOK, IsState, Kept
<1>3. ASSUME JobOK(job', disk', prs'), IsState(disk', prs'), prs' = prs, RecordOK
      PROVE  IInv' /\ RecordOK
  BY <1>1, <1>3 DEF IInv
<1>4. CASE \/ Checkpoint \/ PushSucceeds \/ MarkCompleted \/ Deliver \/ OpenNone
           \/ DeleteLocal \/ ToBase \/ Back
  BY <1>1, <1>2, <1>4, CompletionStep, KeptSame
<1>5. CASE PushLocked BY <1>1, <1>2, <1>5, PushLockedStep, KeptSame
<1>6. CASE Tests \/ SelectNone \/ SelectPhase
  BY <1>1, <1>2, <1>6, OpeningStep, KeptSame
<1>7. CASE ReusePR \/ CreatePR BY <1>2, <1>7, OpenStep
<1>8. CASE MergePR \/ DeleteRemote BY <1>2, <1>8, MergeStep
<1>9. CASE Reconcile BY <1>1, <1>2, <1>9, ReconcileStep, KeptSame
<1>10. CASE Recover BY <1>3, <1>10, RecoverStep
<1>11. CASE SaveState \/ Complete \/ BootstrapDirty \/ ViewPR BY <1>3, <1>11, SavingStep
<1>12. CASE Bootstrap BY <1>1, <1>2, <1>12, BootstrapStep, KeptSame
<1>13. CASE \/ Prepare \/ Verify \/ Repair \/ Resume
            \/ OpenMilestonePR \/ TryMerge \/ InspectChecks
  BY <1>3, <1>13, CommandStep
<1>14. CASE Edit \/ Discard \/ Decide \/ ChecksEnd \/ Crash BY <1>2, <1>14, WorldStep
<1>15. CASE UNCHANGED vars
  <2>1. disk' = disk /\ job' = job /\ prs' = prs BY <1>15 DEF vars
  <2> QED BY <2>1 DEF IInv, RecordOK
<1> QED BY <1>4, <1>5, <1>6, <1>7, <1>8, <1>9, <1>10, <1>11, <1>12, <1>13, <1>14, <1>15
        DEF Next, Step

-----------------------------------------------------------------------------
\* The theorem

\* Whatever people merge and close on GitHub meanwhile, whichever calls of git
\* and gh fail and wherever crashes fall, state.json begins to say merged only
\* when the pull request it names is (delivery.go mergeLocked, recover.go
\* reconcileDeliveryLocked).
THEOREM MergesAreRecordedTruly == Spec => MergeRecordIsTrue
<1>1. IInv /\ [Next]_vars =>
        [disk.merge # "merged" /\ disk'.merge = "merged" =>
           disk'.pr \in DOMAIN prs /\ prs[disk'.pr] = "merged"]_vars
  BY IInvStep DEF RecordOK, IsMerged
<1> QED BY <1>1, IInvInit, IInvStep, PTL DEF Spec, MergeRecordIsTrue


-----------------------------------------------------------------------------
\* Commits and branches

\* A nonempty set of commits has a last one.  (Their later commits are finite
\* sets, well-founded under inclusion.)
LEMMA MaxIsElement ==
  ASSUME NEW S \in SUBSET (0 .. MaxCommits), S # {}
  PROVE  Max(S) \in S /\ \A n \in S : Max(S) >= n
<1> DEFINE All == 0 .. MaxCommits
           R == StrictSubsetOrdering(All)
           later(m) == (m + 1) .. MaxCommits
           Above == {later(m) : m \in S}
<1>1. MaxCommits \in Nat /\ IsFiniteSet(All) BY DeliveryAssumption, FS_Interval
<1>2. IsWellFoundedOn(R, FiniteSubsetsOf(All))
  BY <1>1, FS_StrictSubsetOrderingWellFounded
<1>3. ASSUME NEW m \in S PROVE later(m) \in FiniteSubsetsOf(All)
  <2>1. later(m) \subseteq All BY <1>1
  <2>2. IsFiniteSet(later(m)) BY <1>1, <2>1, FS_Subset
  <2> QED BY <2>1, <2>2 DEF FiniteSubsetsOf
<1>4. Above \subseteq FiniteSubsetsOf(All) /\ Above # {} BY <1>3
<1>5. PICK b \in Above : \A c \in Above : <<c, b>> \notin R
  <2> HIDE DEF R, Above
  <2> QED BY <1>2, <1>4, WFMin
<1>6. PICK m \in S : b = later(m) BY <1>5
<1>7. ASSUME NEW n \in S PROVE m >= n
  <2>1. <<later(n), later(m)>> \notin R BY <1>5, <1>6
  <2>2. later(n) \in SUBSET All /\ later(m) \in SUBSET All BY <1>3 DEF FiniteSubsetsOf
  <2>3. ~(later(n) \subseteq later(m)) \/ later(n) = later(m)
    BY <2>1, <2>2 DEF StrictSubsetOrdering
  <2>4. n \in Int /\ m \in Int /\ n <= MaxCommits BY <1>1
  <2>5. CASE n > m
    <3>1. later(n) \subseteq later(m) BY <1>1, <2>4, <2>5
    <3>2. n \in later(m) /\ n \notin later(n) BY <1>1, <2>4, <2>5
    <3> QED BY <2>3, <3>1, <3>2
  <2> QED BY <2>4, <2>5
<1> QED BY <1>7 DEF Max

\* The work of a branch is commits, and its tip is one it has.
LEMMA Branches ==
  ASSUME NEW b \in SUBSET Sha
  PROVE  /\ Work(b) \in SUBSET (0 .. MaxCommits)
         /\ Work(b) = {} <=> b = {}
         /\ Tip(b) \in Sha
         /\ b # {} => -Max(Work(b)) \in Sha
<1>1. MaxCommits \in Nat BY DeliveryAssumption
<1>2. \A c \in Sha : Distance(c) \in 0 .. MaxCommits BY <1>1 DEF Sha, Distance
<1>3. Work(b) \in SUBSET (0 .. MaxCommits) BY <1>2 DEF Work
<1>4. Work(b) = {} <=> b = {} BY DEF Work
<1>5. b # {} => Max(Work(b)) \in 0 .. MaxCommits BY <1>3, <1>4, MaxIsElement
<1>6. \A m \in 0 .. MaxCommits : m \in Sha /\ -m \in Sha BY <1>1 DEF Sha
<1>7. 0 \in Sha BY <1>1 DEF Sha
<1> QED BY <1>3, <1>4, <1>5, <1>6, <1>7 DEF Tip

\* What merges to the base are commits.
LEMMA MergesCommits ==
  ASSUME NEW b \in SUBSET Sha, NEW new \in SUBSET Sha
  PROVE  /\ {-Distance(c) : c \in new} \in SUBSET Sha
         /\ b # {} => new \cup {-Max(Work(b))} \in SUBSET Sha
<1>1. MaxCommits \in Nat BY DeliveryAssumption
<1>2. \A c \in Sha : -Distance(c) \in Sha BY <1>1 DEF Sha, Distance
<1> QED BY <1>2, Branches

\* There is a number for the next commit while there is room for one.
LEMMA NextCommit ==
  ASSUME made \in [Phase -> SUBSET Commit],
         Cardinality(UNION {made[p] : p \in Phase}) < MaxCommits
  PROVE  /\ Cardinality(UNION {made[p] : p \in Phase}) + 1 \in Commit
         /\ Cardinality(UNION {made[p] : p \in Phase}) + 1 \in Sha
<1> DEFINE U == UNION {made[p] : p \in Phase}
<1>1. MaxCommits \in Nat BY DeliveryAssumption
<1>2. U \subseteq Commit OBVIOUS
<1>3. IsFiniteSet(Commit) BY <1>1, FS_Interval DEF Commit
<1>4. IsFiniteSet(U) BY <1>2, <1>3, FS_Subset
<1>5. Cardinality(U) \in Nat BY <1>4, FS_CardinalityType
<1> HIDE DEF U
<1>6. Cardinality(U) < MaxCommits BY DEF U
<1>7. Cardinality(U) + 1 \in Commit /\ Cardinality(U) + 1 \in Sha
  BY <1>1, <1>5, <1>6 DEF Commit, Sha
<1> QED BY <1>7 DEF U

-----------------------------------------------------------------------------
\* Copies of state.json

Cur == {"", "PREPARED", "CLAIMED_DONE", "VERIFYING", "VERIFIED", "FAILED", "INCOMPLETE",
        "REPAIRING", "WAITING", "COMPLETED"}
Push == {"", "pending", "pushed", "failed", "skipped"}
MergeWord == {"", "open", "checking", "waiting", "merged"}

\* What a state.json may become, one field at a time.
LEMMA Updates ==
  ASSUME NEW st \in State
  PROVE  /\ \A x \in Cur : [st EXCEPT !.cur = x] \in State
         /\ \A x \in Phase \cup {NoPhase} : [st EXCEPT !.phase = x] \in State
         /\ \A x \in BOOLEAN : [st EXCEPT !.finished = x] \in State
         /\ \A x \in Sha : [st EXCEPT !.commit = x] \in State
         /\ \A x \in SUBSET Phase : [st EXCEPT !.checkpoints = x] \in State
         /\ \A x \in BOOLEAN : [st EXCEPT !.branch = x] \in State
         /\ \A x \in Push : [st EXCEPT !.push = x] \in State
         /\ \A x \in 0 .. MaxPRs : [st EXCEPT !.pr = x] \in State
         /\ \A x \in MergeWord : [st EXCEPT !.merge = x] \in State
<1>1. \A x \in Cur : [st EXCEPT !.cur = x] \in State BY DEF State, Cur
<1>2. \A x \in Phase \cup {NoPhase} : [st EXCEPT !.phase = x] \in State BY DEF State
<1>3. \A x \in BOOLEAN : [st EXCEPT !.finished = x] \in State BY DEF State
<1>4. \A x \in Sha : [st EXCEPT !.commit = x] \in State BY DEF State
<1>5. \A x \in SUBSET Phase : [st EXCEPT !.checkpoints = x] \in State BY DEF State
<1>6. \A x \in BOOLEAN : [st EXCEPT !.branch = x] \in State BY DEF State
<1>7. \A x \in Push : [st EXCEPT !.push = x] \in State BY DEF State, Push
<1>8. \A x \in 0 .. MaxPRs : [st EXCEPT !.pr = x] \in State BY DEF State
<1>9. \A x \in MergeWord : [st EXCEPT !.merge = x] \in State BY DEF State, MergeWord
<1> QED BY <1>1, <1>2, <1>3, <1>4, <1>5, <1>6, <1>7, <1>8, <1>9

\* A command that goes on keeps a state.json of the type.
LEMMA GoOnType ==
  ASSUME IInv, NEW steps, NEW st \in State, GoOn(steps, st)
  PROVE  job'.st \in State
<1>1. DOMAIN job = DOMAIN NoJob /\ "st" \in DOMAIN NoJob BY CopyOK DEF NoJob
<1>2. EmptyState \in State
  <2>1. 0 \in Sha /\ 0 \in 0 .. MaxPRs BY DeliveryAssumption DEF Sha
  <2> QED BY <2>1 DEF EmptyState, State
<1>3. CASE job' = NoJob BY <1>2, <1>3 DEF NoJob
<1>4. CASE job' # NoJob
  <2>1. PICK todo : job' = [job EXCEPT !.todo = todo, !.st = st] BY <1>4 DEF GoOn
  <2> QED BY <1>1, <2>1
<1> QED BY <1>3, <1>4

\* Updates of the copy that leave what they write to the type.
LEMMA MergeType ==
  ASSUME NEW st \in State, NEW to \in MergeWord
  PROVE  /\ Merge(st, to) \in State
         /\ \A n \in 0 .. MaxPRs : Known(st, n) \in State
<1>1. ASSUME NEW s \in State, NEW x \in MergeWord PROVE Merge(s, x) \in State
  BY Updates DEF Merge
<1>2. "open" \in MergeWord BY DEF MergeWord
<1> QED BY <1>1, <1>2, Updates DEF Known

-----------------------------------------------------------------------------
\* Plans

\* Each of these steps comes after one of those.
Preceded(todo, S, T) ==
  \A k \in 1 .. Len(todo) : todo[k] \in S => \E j \in 1 .. (k - 1) : todo[j] \in T

\* None of those steps comes after one of these.
NoneAfter(todo, S, T) ==
  \A i \in 1 .. Len(todo) : todo[i] \in S =>
    \A k \in (i + 1) .. Len(todo) : todo[k] \notin T

\* The first step of a plan has none before it.
LEMMA PrecededTail ==
  ASSUME NEW t \in Steps, t # << >>, NEW S, NEW T, Preceded(t, S, T)
  PROVE  /\ Head(t) \notin S
         /\ Head(t) \notin T => Preceded(Tail(t), S, T)
<1>1. /\ Len(Tail(t)) = Len(t) - 1 /\ Len(t) \in Nat /\ Len(t) >= 1 /\ Head(t) = t[1]
      /\ \A i \in 1 .. Len(Tail(t)) : Tail(t)[i] = t[i + 1]
  BY TailIndex
<1>2. Head(t) \notin S
  <2>1. 1 \in 1 .. Len(t) /\ 1 .. (1 - 1) = {} BY <1>1
  <2> QED BY <1>1, <2>1 DEF Preceded
<1>3. ASSUME Head(t) \notin T, NEW k \in 1 .. Len(Tail(t)), Tail(t)[k] \in S
      PROVE  \E j \in 1 .. (k - 1) : Tail(t)[j] \in T
  <2>1. k + 1 \in 1 .. Len(t) /\ t[k + 1] \in S BY <1>1, <1>3
  <2>2. PICK j \in 1 .. ((k + 1) - 1) : t[j] \in T BY <2>1 DEF Preceded
  <2>3. j # 1 BY <1>1, <1>3, <2>2
  <2>4. j - 1 \in 1 .. (k - 1) /\ j - 1 \in 1 .. Len(Tail(t)) /\ (j - 1) + 1 = j
    BY <1>1, <2>2, <2>3
  <2>5. Tail(t)[j - 1] = t[j] BY <1>1, <2>4
  <2> QED BY <2>2, <2>4, <2>5
<1> QED BY <1>2, <1>3 DEF Preceded

\* A plan put before another has what it needs itself, and may have what the
\* other needs.
LEMMA PrecededConcat ==
  ASSUME NEW s \in Steps, NEW t \in Steps, NEW S, NEW T, Preceded(s, S, T),
         Preceded(t, S, T) \/ ~None(s, T)
  PROVE  Preceded(s \o t, S, T)
<1> DEFINE u == s \o t
<1>1. /\ u \in Steps /\ Len(u) = Len(s) + Len(t) /\ Len(s) \in Nat /\ Len(t) \in Nat
      /\ \A i \in 1 .. Len(s) : u[i] = s[i]
      /\ \A i \in 1 .. Len(t) : u[i + Len(s)] = t[i]
  BY ConcatIndex
<1> HIDE DEF u
<1> SUFFICES ASSUME NEW k \in 1 .. Len(u), u[k] \in S
             PROVE  \E j \in 1 .. (k - 1) : u[j] \in T
  BY DEF Preceded, u
<1>2. CASE k \in 1 .. Len(s)
  <2>1. PICK j \in 1 .. (k - 1) : s[j] \in T BY <1>1, <1>2 DEF Preceded
  <2>2. j \in 1 .. Len(s) BY <1>1, <1>2
  <2> QED BY <1>1, <2>1, <2>2
<1>3. CASE k \notin 1 .. Len(s) /\ ~None(s, T)
  <2>1. PICK j \in 1 .. Len(s) : s[j] \in T BY <1>3 DEF None
  <2>2. j \in 1 .. (k - 1) BY <1>1, <1>3
  <2> QED BY <1>1, <2>1, <2>2
<1>4. CASE k \notin 1 .. Len(s) /\ Preceded(t, S, T)
  <2> DEFINE b == k - Len(s)
  <2>1. b \in 1 .. Len(t) /\ b + Len(s) = k BY <1>1, <1>4
  <2> HIDE DEF b
  <2>2. PICK j \in 1 .. (b - 1) : t[j] \in T BY <1>1, <1>4, <2>1 DEF Preceded
  <2>3. j \in 1 .. Len(t) /\ j + Len(s) \in 1 .. (k - 1) BY <1>1, <2>1
  <2>4. u[j + Len(s)] = t[j] BY <1>1, <2>3
  <2> QED BY <2>2, <2>3, <2>4
<1> QED BY <1>2, <1>3, <1>4

\* What does not occur needs nothing before it, and may come after anything.
LEMMA NoneNeeds ==
  ASSUME NEW t, NEW S, None(t, S)
  PROVE  \A T : Preceded(t, S, T) /\ NoneAfter(t, S, T)
BY DEF None, Preceded, NoneAfter

\* Of more steps that may come before, one does.
LEMMA PrecededMore ==
  ASSUME NEW t, NEW S, NEW T, NEW U, Preceded(t, S, T)
  PROVE  Preceded(t, S, T \cup U)
BY DEF Preceded

\* The steps left after the first keep their order, and what may not come
\* after it does not.
LEMMA NoneAfterTail ==
  ASSUME NEW t \in Steps, t # << >>, NEW S, NEW T, NoneAfter(t, S, T)
  PROVE  /\ NoneAfter(Tail(t), S, T)
         /\ Head(t) \in S => None(Tail(t), T)
<1>1. /\ Len(Tail(t)) = Len(t) - 1 /\ Len(t) \in Nat /\ Len(t) >= 1 /\ Head(t) = t[1]
      /\ \A i \in 1 .. Len(Tail(t)) : Tail(t)[i] = t[i + 1]
  BY TailIndex
<1>2. ASSUME NEW i \in 1 .. Len(Tail(t)), Tail(t)[i] \in S,
             NEW k \in (i + 1) .. Len(Tail(t))
      PROVE  Tail(t)[k] \notin T
  <2>1. i + 1 \in 1 .. Len(t) /\ t[i + 1] \in S BY <1>1, <1>2
  <2>2. k + 1 \in ((i + 1) + 1) .. Len(t) /\ k \in 1 .. Len(Tail(t)) BY <1>1
  <2>3. t[k + 1] \notin T BY <2>1, <2>2 DEF NoneAfter
  <2> QED BY <1>1, <2>2, <2>3
<1>3. ASSUME Head(t) \in S, NEW k \in 1 .. Len(Tail(t)) PROVE Tail(t)[k] \notin T
  <2>1. 1 \in 1 .. Len(t) /\ t[1] \in S BY <1>1, <1>3
  <2>2. k + 1 \in (1 + 1) .. Len(t) BY <1>1
  <2>3. t[k + 1] \notin T BY <2>1, <2>2 DEF NoneAfter
  <2> QED BY <1>1, <2>3
<1> QED BY <1>2, <1>3 DEF NoneAfter, None

\* So do plans one before the other, if the first has none of these or the
\* other none of those.
LEMMA NoneAfterConcat ==
  ASSUME NEW s \in Steps, NEW t \in Steps, NEW S, NEW T,
         NoneAfter(s, S, T), NoneAfter(t, S, T), None(s, S) \/ None(t, T)
  PROVE  NoneAfter(s \o t, S, T)
<1> DEFINE u == s \o t
<1>1. /\ u \in Steps /\ Len(u) = Len(s) + Len(t) /\ Len(s) \in Nat /\ Len(t) \in Nat
      /\ \A i \in 1 .. Len(s) : u[i] = s[i]
      /\ \A i \in 1 .. Len(t) : u[i + Len(s)] = t[i]
  BY ConcatIndex
<1> HIDE DEF u
<1> SUFFICES ASSUME NEW i \in 1 .. Len(u), u[i] \in S, NEW k \in (i + 1) .. Len(u)
             PROVE  u[k] \notin T
  BY DEF NoneAfter, u
<1>2. CASE k \in 1 .. Len(s)
  <2>1. i \in 1 .. Len(s) /\ k \in (i + 1) .. Len(s) BY <1>1, <1>2
  <2>2. s[i] \in S BY <1>1, <2>1
  <2>3. s[k] \notin T BY <2>1, <2>2 DEF NoneAfter
  <2> QED BY <1>1, <1>2, <2>3
<1>3. CASE k \notin 1 .. Len(s)
  <2> DEFINE b == k - Len(s)
  <2>1. b \in 1 .. Len(t) /\ b + Len(s) = k BY <1>1, <1>3
  <2> HIDE DEF b
  <2>2. u[k] = t[b] BY <1>1, <2>1
  <2>3. CASE i \in 1 .. Len(s)
    <3>1. s[i] \in S BY <1>1, <2>3
    <3>2. None(t, T) BY <2>3, <3>1 DEF None
    <3> QED BY <2>1, <2>2, <3>2 DEF None
  <2>4. CASE i \notin 1 .. Len(s)
    <3> DEFINE a == i - Len(s)
    <3>1. a \in 1 .. Len(t) /\ a + Len(s) = i /\ b \in (a + 1) .. Len(t)
      BY <1>1, <2>1, <2>4
    <3> HIDE DEF a
    <3>2. t[a] \in S BY <1>1, <3>1
    <3> QED BY <2>2, <3>1, <3>2 DEF NoneAfter
  <2> QED BY <2>3, <2>4
<1> QED BY <1>2, <1>3

\* Giving a completion up takes steps away from the front.
LEMMA AfterCompletionOrder ==
  ASSUME NEW t \in Steps
  PROVE  /\ AfterCompletion(t) \in Steps
         /\ \A S, T : NoneAfter(t, S, T) => NoneAfter(AfterCompletion(t), S, T)
         /\ \/ AfterCompletion(t) = t /\ None(t, {"complete"})
            \/ \A T : NoneAfter(t, {"complete"}, T) => None(AfterCompletion(t), T)
<1>1. CASE \E i \in DOMAIN t : t[i] = "complete"
  <2> DEFINE n == CHOOSE i \in DOMAIN t : t[i] = "complete"
             u == SubSeq(t, n + 1, Len(t))
  <2>1. n \in DOMAIN t /\ t[n] = "complete" BY <1>1
  <2>2. DOMAIN t = 1 .. Len(t) /\ Len(t) \in Nat BY DEF Steps
  <2>3. AfterCompletion(t) = u BY <1>1 DEF AfterCompletion
  <2> HIDE DEF n
  <2>4. u \in Steps /\ Len(u) = Len(t) - n BY <2>1, <2>2, SubSeqProperties DEF Steps
  <2>5. \A i \in 1 .. Len(u) : u[i] = t[i + n]
    <3> SUFFICES ASSUME NEW i \in 1 .. Len(u) PROVE u[i] = t[i + n] OBVIOUS
    <3>1. i \in 1 .. (Len(t) - (n + 1) + 1) BY <2>1, <2>2, <2>4
    <3>2. u[i] = t[(n + 1) + i - 1] BY <2>1, <2>2, <3>1, SubSeqProperties DEF Steps
    <3> QED BY <2>1, <2>2, <3>1, <3>2
  <2> HIDE DEF u
  <2>6. ASSUME NEW S, NEW T, NoneAfter(t, S, T) PROVE NoneAfter(u, S, T)
    <3> SUFFICES ASSUME NEW i \in 1 .. Len(u), u[i] \in S, NEW k \in (i + 1) .. Len(u)
                 PROVE  u[k] \notin T
      BY DEF NoneAfter
    <3>1. i + n \in 1 .. Len(t) /\ t[i + n] \in S BY <2>1, <2>2, <2>4, <2>5
    <3>2. k + n \in ((i + n) + 1) .. Len(t) /\ k \in 1 .. Len(u) BY <2>1, <2>2, <2>4
    <3> QED BY <2>5, <2>6, <3>1, <3>2 DEF NoneAfter
  <2>7. ASSUME NEW T, NoneAfter(t, {"complete"}, T) PROVE None(u, T)
    <3> SUFFICES ASSUME NEW k \in 1 .. Len(u) PROVE u[k] \notin T BY DEF None
    <3>1. k + n \in (n + 1) .. Len(t) BY <2>1, <2>2, <2>4
    <3> QED BY <2>1, <2>2, <2>5, <2>7, <3>1 DEF NoneAfter
  <2> QED BY <2>3, <2>4, <2>6, <2>7
<1>2. CASE ~\E i \in DOMAIN t : t[i] = "complete"
  <2>1. DOMAIN t = 1 .. Len(t) BY DEF Steps
  <2> QED BY <1>2, <2>1 DEF AfterCompletion, None
<1> QED BY <1>1, <1>2

-----------------------------------------------------------------------------
\* The invariant

\* Steps that commit or complete, that choose a phase, that end a completion
\* begun before them, and with which alone commands begin.
Working == {"checkpoint", "graph"}
Choosing == {"bootstrap", "select"}
Ending == {"complete", "recover"}
Beginning == {"recover", "tests"}

\* A choice is the last step; what is completed is completed once; a recovery
\* and the tests come first.
PlanOK(todo) ==
  /\ todo \in Steps
  /\ NoneAfter(todo, {"select"}, StepName)
  /\ NoneAfter(todo, Ending, Working)
  /\ todo # << >> => None(Tail(todo), Beginning)

\* What the files say of the phase in work: its verification is that of a packet
\* and of work that is there, and VERIFIED is said of a verified phase only.
FilesOK(d, f, t, m) ==
  /\ f.verified => f.packet /\ d.phase \in Phase /\ (t.dirty \/ m[d.phase] # {})
  /\ d.cur = "VERIFIED" => f.verified

\* What the plan and the copy say beside the files d and f and the tree t: a
\* dirty tree is committed before the phase is completed, and only a verified one
\* is; VERIFIED is completed, or taken back, before a phase is chosen; the copy is
\* of the phase in the file until it is saved.
Coherent(todo, st, d, f, t) ==
  /\ t.dirty => Preceded(todo, {"graph"}, {"checkpoint"})
  /\ f.verified \/ None(todo, Working)
  /\ st.cur = "VERIFIED" => f.verified /\ Preceded(todo, Choosing, Ending)
  /\ d.cur = "VERIFIED" => Preceded(todo, Choosing, Ending \cup {"save"})
  /\ st.phase = d.phase \/ todo = << >> \/ (todo = <<"save">> /\ ~f.verified)
  /\ todo # << >> /\ Head(todo) = "recover" => st.cur = d.cur
  /\ todo # << >> /\ Head(todo) = "tests" =>
       Tail(todo) = << >> /\ f.packet /\ d.phase \in Phase /\ d.cur # "VERIFIED"

\* There is room for the commit of a dirty tree, an open pull request has a
\* branch with work, and the number of pull requests is bounded.
Room == tree.dirty => Cardinality(UNION {made[p] : p \in Phase}) < MaxCommits
OpenHasWork == Open # {} => remote.feature # {}
FewPRs == Len(prs) <= MaxPRs
TypesOK == TypeOK /\ Room /\ OpenHasWork /\ FewPRs

WorkOK == /\ FilesOK(disk, files, tree, made)
          /\ PlanOK(job.todo)
          /\ Coherent(job.todo, job.st, disk, files, tree)

WInv == IInv /\ TypesOK /\ WorkOK

\* No command is at work.
LEMMA IdleCoherent ==
  /\ PlanOK(NoJob.todo)
  /\ \A d, f, t : Coherent(NoJob.todo, NoJob.st, d, f, t)
<1>1. NoJob.todo = << >> /\ NoJob.st = EmptyState BY DEF NoJob
<1>2. << >> \in Steps /\ Len(<< >>) = 0 BY DEF Steps
<1>3. None(<< >>, Working) BY <1>2 DEF None
<1>4. \A S, T : Preceded(<< >>, S, T) /\ NoneAfter(<< >>, S, T)
  BY <1>2 DEF Preceded, NoneAfter
<1>5. EmptyState.cur = "" BY DEF EmptyState
<1> QED BY <1>1, <1>2, <1>3, <1>4, <1>5 DEF PlanOK, Coherent

\* The command goes on with a plan and a copy that fit.
LEMMA GoOnCoherent ==
  ASSUME IInv, NEW steps, NEW st, GoOn(steps, st),
         LET todo == steps \o Tail(job.todo)
         IN  PlanOK(todo) /\ Coherent(todo, st, disk', files', tree')
  PROVE  PlanOK(job'.todo) /\ Coherent(job'.todo, job'.st, disk', files', tree')
<1> DEFINE todo == steps \o Tail(job.todo)
<1>1. CASE todo = << >>
  <2>1. job' = NoJob BY <1>1 DEF GoOn
  <2> QED BY <2>1, IdleCoherent
<1>2. CASE todo # << >>
  <2>1. job' = [job EXCEPT !.todo = todo, !.st = st] BY <1>2 DEF GoOn
  <2>2. DOMAIN job = DOMAIN NoJob BY CopyOK
  <2>3. "todo" \in DOMAIN NoJob /\ "st" \in DOMAIN NoJob BY DEF NoJob
  <2>4. job'.todo = todo /\ job'.st = st BY <2>1, <2>2, <2>3
  <2> QED BY <2>4
<1> QED BY <1>1, <1>2

\* Steps that neither complete a phase nor choose one.
Central == Working \cup Choosing \cup Ending \cup Beginning
Plain(steps) == steps \in Steps /\ None(steps, Central)

\* Such steps before a plan that is in order.
LEMMA PlainPlan ==
  ASSUME NEW s, Plain(s), NEW t \in Steps, NoneAfter(t, {"select"}, StepName),
         NoneAfter(t, Ending, Working), None(t, Beginning)
  PROVE  /\ PlanOK(s \o t)
         /\ None(s \o t, Beginning)
         /\ None(t, Working) => None(s \o t, Working)
         /\ \A T : Preceded(t, {"graph"}, T) => Preceded(s \o t, {"graph"}, T)
         /\ \A T : Preceded(t, Choosing, T) => Preceded(s \o t, Choosing, T)
<1>1. s \in Steps BY DEF Plain
<1>2. /\ None(s, Working) /\ None(s, Choosing) /\ None(s, Ending) /\ None(s, Beginning)
      /\ None(s, {"select"}) /\ None(s, {"graph"})
  BY DEF Plain, None, Central, Working, Choosing
<1>3. s \o t \in Steps BY <1>1, ConcatIndex
<1>4. NoneAfter(s \o t, {"select"}, StepName)
  <2>1. NoneAfter(s, {"select"}, StepName) BY <1>2 DEF NoneAfter, None
  <2> QED BY <1>1, <1>2, <2>1, NoneAfterConcat
<1>5. NoneAfter(s \o t, Ending, Working)
  <2>1. NoneAfter(s, Ending, Working) BY <1>2 DEF NoneAfter, None
  <2> QED BY <1>1, <1>2, <2>1, NoneAfterConcat
<1>6. None(s \o t, Beginning) BY <1>1, <1>2, NoneConcat
<1>7. s \o t # << >> => None(Tail(s \o t), Beginning) BY <1>3, <1>6, NoneTail
<1>8. None(t, Working) => None(s \o t, Working) BY <1>1, <1>2, NoneConcat
<1>9. \A T : Preceded(s, {"graph"}, T) /\ Preceded(s, Choosing, T) BY <1>2, NoneNeeds
<1> QED BY <1>1, <1>3, <1>4, <1>5, <1>6, <1>7, <1>8, <1>9, PrecededConcat DEF PlanOK

\* What is left of the plan after its first step.
LEMMA RestOfPlan ==
  ASSUME WInv, job.todo # << >>
  PROVE  /\ Tail(job.todo) \in Steps
         /\ NoneAfter(Tail(job.todo), {"select"}, StepName)
         /\ NoneAfter(Tail(job.todo), Ending, Working)
         /\ None(Tail(job.todo), Beginning)
         /\ files.verified \/ None(Tail(job.todo), Working)
         /\ tree.dirty /\ Head(job.todo) # "checkpoint" =>
              Preceded(Tail(job.todo), {"graph"}, {"checkpoint"})
         /\ Head(job.todo) \in Working => files.verified
         /\ Head(job.todo) \in Ending => None(Tail(job.todo), Working)
<1>1. job.todo \in Steps /\ PlanOK(job.todo) BY DEF WInv, WorkOK, PlanOK
<1>2. Coherent(job.todo, job.st, disk, files, tree) BY DEF WInv, WorkOK
<1>3. Tail(job.todo) \in Steps BY <1>1, TailIndex
<1>4. /\ NoneAfter(Tail(job.todo), {"select"}, StepName)
      /\ NoneAfter(Tail(job.todo), Ending, Working) /\ None(Tail(job.todo), Beginning)
      /\ Head(job.todo) \in Ending => None(Tail(job.todo), Working)
  BY <1>1, NoneAfterTail DEF PlanOK
<1>5. files.verified \/ (None(Tail(job.todo), Working) /\ Head(job.todo) \notin Working)
  BY <1>1, <1>2, NoneTail, NoneHead DEF Coherent
<1>6. tree.dirty /\ Head(job.todo) # "checkpoint" =>
        Preceded(Tail(job.todo), {"graph"}, {"checkpoint"})
  BY <1>1, <1>2, PrecededTail DEF Coherent
<1> QED BY <1>3, <1>4, <1>5, <1>6

\* The usual step: it keeps the phase, says VERIFIED of nothing new, and neither
\* makes the tree dirty nor loses work.
LEMMA UsualStep ==
  ASSUME WInv, job.todo # << >>, NEW steps, Plain(steps), NEW st, GoOn(steps, st),
         st.phase = job.st.phase,
         st.cur = "VERIFIED" => job.st.cur = "VERIFIED" /\ Head(job.todo) \notin Ending,
         disk'.cur = "VERIFIED" =>
           /\ Head(job.todo) \notin Ending
           /\ job.st.cur = "VERIFIED" \/ (disk.cur = "VERIFIED" /\ Head(job.todo) # "save"),
         disk'.phase = st.phase \/ (disk'.phase = disk.phase /\ Head(job.todo) # "save"),
         files'.verified = files.verified, files'.packet = files.packet,
         tree'.dirty => tree.dirty /\ Head(job.todo) # "checkpoint",
         files.verified /\ made[disk.phase] = {} => tree'.dirty \/ made'[disk.phase] # {},
         made[disk.phase] # {} => made'[disk.phase] # {}
  PROVE  WorkOK'
<1> DEFINE rest == Tail(job.todo)
           todo == steps \o rest
<1>1. /\ Coherent(job.todo, job.st, disk, files, tree) /\ PlanOK(job.todo)
      /\ FilesOK(disk, files, tree, made) /\ job.todo \in Steps /\ IInv
  BY DEF WInv, WorkOK, PlanOK
<1>2. /\ rest \in Steps /\ NoneAfter(rest, {"select"}, StepName)
      /\ NoneAfter(rest, Ending, Working) /\ None(rest, Beginning)
      /\ files.verified \/ None(rest, Working)
      /\ tree.dirty /\ Head(job.todo) # "checkpoint" =>
           Preceded(rest, {"graph"}, {"checkpoint"})
  BY RestOfPlan
<1>3. Head(job.todo) \notin Ending /\ job.st.cur = "VERIFIED" =>
        files.verified /\ Preceded(rest, Choosing, Ending)
  BY <1>1, PrecededTail DEF Coherent
<1>4. Head(job.todo) \notin Ending \cup {"save"} /\ disk.cur = "VERIFIED" =>
        Preceded(rest, Choosing, Ending \cup {"save"})
  BY <1>1, PrecededTail DEF Coherent
<1>5. job.st.phase = disk.phase \/ (Head(job.todo) = "save" /\ ~files.verified)
  BY <1>1 DEF Coherent
<1> HIDE DEF rest
<1>6. /\ PlanOK(todo) /\ None(todo, Beginning)
      /\ None(rest, Working) => None(todo, Working)
      /\ \A T : Preceded(rest, {"graph"}, T) => Preceded(todo, {"graph"}, T)
      /\ \A T : Preceded(rest, Choosing, T) => Preceded(todo, Choosing, T)
  BY <1>2, PlainPlan
<1> HIDE DEF todo
<1>7. FilesOK(disk', files', tree', made')
  <2>1. files'.verified => disk'.phase = disk.phase BY <1>5
  <2>2. disk'.cur = "VERIFIED" => files.verified BY <1>1, <1>3 DEF FilesOK
  <2> QED BY <1>1, <2>1, <2>2 DEF FilesOK
<1>8. Coherent(todo, st, disk', files', tree')
  <2>1. tree'.dirty => Preceded(todo, {"graph"}, {"checkpoint"}) BY <1>2, <1>6
  <2>2. files'.verified \/ None(todo, Working) BY <1>2, <1>6
  <2>3. st.cur = "VERIFIED" => files'.verified /\ Preceded(todo, Choosing, Ending)
    BY <1>3, <1>6
  <2>4. disk'.cur = "VERIFIED" => Preceded(todo, Choosing, Ending \cup {"save"})
    <3>1. Preceded(rest, Choosing, Ending) => Preceded(rest, Choosing, Ending \cup {"save"})
      BY PrecededMore
    <3> QED BY <1>3, <1>4, <1>6, <3>1
  <2>5. st.phase = disk'.phase BY <1>5
  <2>6. todo # << >> => Head(todo) \notin Beginning
    <3>1. todo \in Steps BY <1>6 DEF PlanOK
    <3> QED BY <1>6, <3>1, NoneHead
  <2> QED BY <2>1, <2>2, <2>3, <2>4, <2>5, <2>6 DEF Coherent, Beginning
<1> QED BY <1>1, <1>6, <1>7, <1>8, GoOnCoherent DEF WorkOK, todo, rest

\* Steps that touch neither the file nor the phase nor the dirty tree.
LEMMA AsideStep ==
  ASSUME WInv, job.todo # << >>, Head(job.todo) \notin Ending \cup {"save"},
         NEW steps, Plain(steps), NEW st, GoOn(steps, st),
         st.phase = job.st.phase, st.cur = job.st.cur \/ st.cur # "VERIFIED",
         disk' = disk, made' = made, tree'.dirty = tree.dirty,
         tree.dirty => Head(job.todo) # "checkpoint",
         files'.verified = files.verified, files'.packet = files.packet
  PROVE  WorkOK'
<1>1. files.verified /\ made[disk.phase] = {} => tree.dirty
  BY DEF WInv, WorkOK, FilesOK
<1> QED BY <1>1, UsualStep

\* Plain plans, of the steps that are not central.
LEMMA PlainPlans ==
  /\ Plain(<< >>)
  /\ \A x \in StepName \ Central : Plain(<<x>>)
  /\ \A s, t : Plain(s) /\ Plain(t) => Plain(s \o t)
<1>1. Plain(<< >>) BY ShortPlans DEF Plain
<1>2. \A x \in StepName \ Central : Plain(<<x>>)
  <2> SUFFICES ASSUME NEW x \in StepName \ Central PROVE Plain(<<x>>) OBVIOUS
  <2>1. <<x>> \in Steps /\ None(<<x>>, Central) BY ShortPlans
  <2> QED BY <2>1 DEF Plain
<1>3. ASSUME NEW s, NEW t, Plain(s), Plain(t) PROVE Plain(s \o t)
  BY <1>3, ConcatIndex, NoneConcat DEF Plain
<1> QED BY <1>1, <1>2, <1>3

\* The steps that are not central.
LEMMA Minor ==
  {"save", "push", "deliver", "open pr", "merge", "merge pr", "delete remote",
   "delete local", "to base", "back", "reconcile", "initial push"} \subseteq
    StepName \ Central
BY DEF StepName, Central, Working, Choosing, Ending, Beginning

\* The types the steps rely on.
LEMMA Given ==
  ASSUME WInv
  PROVE  /\ job.st \in State /\ disk \in State /\ IInv
         /\ files \in [node : [Phase -> Status], packet : BOOLEAN, verified : BOOLEAN]
         /\ tree \in [head : Branch, dirty : BOOLEAN, branch : BOOLEAN,
                      base : SUBSET Sha, feature : SUBSET Sha]
         /\ remote \in [exists : BOOLEAN, refs : SUBSET Branch,
                        base : SUBSET Sha, feature : SUBSET Sha]
         /\ made \in [Phase -> SUBSET Commit]
         /\ config \in Config
         /\ FilesOK(disk, files, tree, made)
         /\ Coherent(job.todo, job.st, disk, files, tree)
BY ConfigsAssumption DEF WInv, WorkOK, TypesOK, TypeOK

\* Marking a phase leaves the evidence.
LEMMA MarkAside ==
  ASSUME WInv, NEW p, NEW s, Mark(p, s)
  PROVE  files'.verified = files.verified /\ files'.packet = files.packet
BY Given DEF Mark

\* What a copy may say of other things than its phase and its progress.
Aside(st) == st.phase = job.st.phase /\ st.cur = job.st.cur

\* Steps beside the completion.
LEMMA PlainWork ==
  ASSUME WInv, \/ PushSucceeds \/ Deliver \/ MarkCompleted \/ OpenNone \/ ReusePR
               \/ CreatePR \/ DeleteRemote \/ DeleteLocal \/ ToBase \/ Back
  PROVE  WorkOK'
<1>1. job.st \in State BY Given
<1>2. disk' = disk /\ made' = made
  BY DEF PushSucceeds, Deliver, MarkCompleted, OpenNone, ReusePR, CreatePR, DeleteRemote,
         DeleteLocal, ToBase, Back
<1>3. tree'.dirty = tree.dirty
  BY Given DEF PushSucceeds, Deliver, MarkCompleted, OpenNone, ReusePR, CreatePR,
     DeleteRemote, DeleteLocal, ToBase, Back
<1>4. files'.verified = files.verified /\ files'.packet = files.packet
  <2>1. CASE MarkCompleted BY <2>1, MarkAside DEF MarkCompleted
  <2>2. CASE ~MarkCompleted
    BY <2>2 DEF PushSucceeds, Deliver, OpenNone, ReusePR, CreatePR, DeleteRemote,
       DeleteLocal, ToBase, Back
  <2> QED BY <2>1, <2>2
<1>5. /\ job.todo # << >>
      /\ Head(job.todo) \in {"push", "initial push", "deliver", "graph", "open pr",
                             "delete remote", "delete local", "to base", "back"}
  BY DEF PushSucceeds, Deliver, MarkCompleted, OpenNone, ReusePR, CreatePR, DeleteRemote,
         DeleteLocal, ToBase, Back, MayOpen, At
<1>6. Head(job.todo) \notin Ending \cup {"save", "checkpoint"} BY <1>5 DEF Ending
<1>7. ASSUME NEW steps, Plain(steps), NEW st, GoOn(steps, st), Aside(st) PROVE WorkOK'
  BY <1>2, <1>3, <1>4, <1>5, <1>6, <1>7, AsideStep DEF Aside
<1>8. Aside(job.st) BY DEF Aside
<1>9. CASE PushSucceeds
  <2> DEFINE a == [job.st EXCEPT !.push = "pushed"]
  <2>1. GoOn(<< >>, a) BY <1>9 DEF PushSucceeds
  <2>2. Aside(a) BY <1>1 DEF Aside, State
  <2> HIDE DEF a
  <2> QED BY <1>7, <2>1, <2>2, PlainPlans
<1>10. CASE Deliver
  <2> DEFINE merge == IF config.autoMerge THEN <<"merge">> ELSE << >>
             steps == IF config.boundary = "phase" \/ job.st.finished
                      THEN <<"open pr">> \o merge ELSE << >>
  <2>1. GoOn(steps, job.st) BY <1>10 DEF Deliver
  <2>2. Plain(<<"open pr">>) /\ Plain(<<"merge">>) BY PlainPlans, Minor
  <2>3. Plain(merge) BY <2>2, PlainPlans
  <2> HIDE DEF merge
  <2>4. Plain(steps) BY <2>2, <2>3, PlainPlans
  <2> HIDE DEF steps
  <2> QED BY <1>7, <1>8, <2>1, <2>4
<1>11. CASE MarkCompleted \/ OpenNone \/ DeleteRemote \/ DeleteLocal \/ Back
  <2>1. GoOn(<< >>, job.st)
    BY <1>11 DEF MarkCompleted, OpenNone, DeleteRemote, DeleteLocal, Back
  <2> QED BY <1>7, <1>8, <2>1, PlainPlans
<1>12. CASE ReusePR \/ CreatePR
  <2>1. PICK n : GoOn(<< >>, Known(job.st, n)) BY <1>12 DEF ReusePR, CreatePR
  <2>2. Aside(Known(job.st, n)) BY <1>1 DEF Aside, Known, Merge, State
  <2> QED BY <1>7, <2>1, <2>2, PlainPlans
<1>13. CASE ToBase
  <2>1. GoOn(<< >>, job.st) \/ GoOn(<<"back">>, job.st) BY <1>13 DEF ToBase
  <2>2. Plain(<<"back">>) BY PlainPlans, Minor
  <2> QED BY <1>7, <1>8, <2>1, <2>2, PlainPlans
<1> QED BY <1>9, <1>10, <1>11, <1>12, <1>13

\* The steps after a merge.
LEMMA CleanupPlain == Plain(CleanupSteps)
<1> DEFINE full == <<"delete remote", "delete local", "to base">>
<1>1. full \in Steps /\ Len(full) = 3 BY DEF Steps, StepName
<1>2. full[1] = "delete remote" /\ full[2] = "delete local" /\ full[3] = "to base" OBVIOUS
<1>3. Plain(<<"to base">>) /\ Plain(<< >>) BY PlainPlans, Minor
<1>4. CleanupSteps = full \/ CleanupSteps = <<"to base">> \/ CleanupSteps = << >>
  BY DEF CleanupSteps
<1> HIDE DEF full
<1>5. full[1] \notin Central /\ full[2] \notin Central /\ full[3] \notin Central
  BY <1>2, Minor
<1>6. None(full, Central) BY <1>1, <1>5, Indices DEF None
<1> QED BY <1>1, <1>3, <1>4, <1>6 DEF Plain

\* Merges and what recovery finds of them.
LEMMA MergeWork ==
  ASSUME WInv, MergePR \/ Reconcile
  PROVE  WorkOK'
<1>1. job.st \in State /\ disk' = disk /\ made' = made /\ files' = files /\ tree' = tree
  BY Given DEF MergePR, MergeOr, Reconcile
<1>2. /\ job.todo # << >> /\ Head(job.todo) \in {"merge pr", "reconcile"}
  BY DEF MergePR, MergeOr, Reconcile, At
<1>3. Head(job.todo) \notin Ending \cup {"save", "checkpoint"} BY <1>2 DEF Ending
<1>4. ASSUME NEW steps, Plain(steps), NEW st, GoOn(steps, st), Aside(st) PROVE WorkOK'
  BY <1>1, <1>2, <1>3, <1>4, AsideStep DEF Aside
<1>5. Plain(<<"save">>) /\ Plain(CleanupSteps) BY PlainPlans, Minor, CleanupPlain
<1>6. Plain(CleanupSteps \o <<"save">>) BY <1>5, PlainPlans
<1>7. CASE MergePR
  <2> DEFINE a(to) == [job.st EXCEPT !.merge = to]
  <2>1. \/ GoOn(CleanupSteps \o <<"save">>, a("merged"))
        \/ \E to : GoOn(<<"save">>, a(to))
    BY <1>7 DEF MergePR, MergeOr
  <2>2. \A to : Aside(a(to)) BY <1>1 DEF Aside, State
  <2> HIDE DEF a
  <2> QED BY <1>4, <1>5, <1>6, <2>1, <2>2
<1>8. CASE Reconcile
  <2> DEFINE st == IF job.st.branch /\ Pushed(job.st)
                   THEN [job.st EXCEPT !.push = "pushed"] ELSE job.st
             found == IF st.pr # 0 \/ Open = {} \/ ~st.branch THEN st
                      ELSE Known(st, CHOOSE n \in Open : TRUE)
             m == [found EXCEPT !.merge = "merged"]
             o == IF ci = "pending" THEN Merge(found, "checking")
                  ELSE IF found.merge = "" THEN Merge(found, "open") ELSE found
  <2>1. GoOn(<< >>, st) \/ GoOn(<< >>, found) \/ GoOn(CleanupSteps, m) \/ GoOn(<< >>, o)
    BY <1>8 DEF Reconcile
  <2>2. DOMAIN st = DOMAIN EmptyState /\ Aside(st) BY <1>1, Fields DEF Aside, State
  <2> HIDE DEF st
  <2>3. DOMAIN found = DOMAIN EmptyState /\ Aside(found)
    BY <2>2, Fields DEF Aside, Known, Merge
  <2> HIDE DEF found
  <2>4. Aside(m) /\ Aside(o) BY <2>3, Fields DEF Aside, Merge
  <2> HIDE DEF m, o
  <2> QED BY <1>4, <1>5, <2>1, <2>2, <2>3, <2>4, PlainPlans
<1> QED BY <1>7, <1>8

\* The phase whose steps are Working is verified, and the copy is of it.
LEMMA WorkingPhase ==
  ASSUME WInv, job.todo # << >>, Head(job.todo) \in Working
  PROVE  files.verified /\ job.st.phase = disk.phase /\ disk.phase \in Phase
<1>1. files.verified BY RestOfPlan
<1>2. job.st.phase = disk.phase BY <1>1, Given DEF Coherent
<1> QED BY <1>1, <1>2, Given DEF FilesOK

\* The commit is the evidence that the dirty tree was.
LEMMA CheckpointWork ==
  ASSUME WInv, Checkpoint
  PROVE  WorkOK'
<1>1. job.st \in State /\ disk' = disk /\ files' = files BY Given DEF Checkpoint
<1>2. job.todo # << >> /\ Head(job.todo) = "checkpoint" BY DEF Checkpoint, At
<1>3. Head(job.todo) \in Working /\ Head(job.todo) \notin Ending \cup {"save"}
  BY <1>2 DEF Working, Ending
<1>4. job.st.phase = disk.phase /\ disk.phase \in Phase BY <1>2, <1>3, WorkingPhase
<1> DEFINE c == Cardinality(UNION {made[p] : p \in Phase}) + 1
           a == [job.st EXCEPT !.commit = c, !.checkpoints = @ \cup {job.st.phase},
                   !.push = IF @ \in {"", "pushed"} THEN "pending" ELSE @]
           b == [job.st EXCEPT !.commit = Tip(tree[tree.head]),
                   !.checkpoints = @ \cup {job.st.phase}]
<1>5. \E st \in {a, b, job.st} : GoOn(<< >>, st) BY DEF Checkpoint
<1>6. Aside(a) /\ Aside(b) /\ Aside(job.st) BY <1>1 DEF Aside, State
<1> HIDE DEF a, b
<1>7. PICK st : GoOn(<< >>, st) /\ Aside(st) BY <1>5, <1>6
<1>8. /\ ~tree'.dirty
      /\ \/ made' = made /\ ~tree.dirty
         \/ made' = [made EXCEPT ![job.st.phase] = @ \cup {c}]
  <2>1. CASE tree.dirty
    <3> DEFINE clean == [tree EXCEPT !.dirty = FALSE]
    <3>1. /\ tree' = [clean EXCEPT ![tree.head] = tree[tree.head] \cup {c}]
          /\ made' = [made EXCEPT ![job.st.phase] = @ \cup {c}]
      BY <2>1 DEF Checkpoint
    <3>2. tree.head # "dirty" /\ clean.dirty = FALSE /\ "dirty" \in DOMAIN clean
      BY Given DEF Branch
    <3> HIDE DEF clean, c
    <3>3. tree'.dirty = FALSE BY <3>1, <3>2
    <3> QED BY <3>1, <3>3
  <2>2. CASE ~tree.dirty BY <2>2 DEF Checkpoint
  <2> QED BY <2>1, <2>2
<1> HIDE DEF c
<1>9. /\ made[disk.phase] # {} => made'[disk.phase] # {}
      /\ files.verified /\ made[disk.phase] = {} => made'[disk.phase] # {}
  <2>1. CASE made' = made /\ ~tree.dirty BY <2>1, Given DEF FilesOK
  <2>2. CASE made' = [made EXCEPT ![job.st.phase] = @ \cup {c}]
    <3>1. made'[disk.phase] = made[disk.phase] \cup {c} BY <1>4, <2>2, Given
    <3> QED BY <3>1
  <2> QED BY <1>8, <2>1, <2>2
<1> QED BY <1>1, <1>2, <1>3, <1>7, <1>8, <1>9, PlainPlans, UsualStep DEF Aside

\* The file becomes the copy, or the copy of a completed phase.
LEMMA SavedWork ==
  ASSUME WInv, SaveState \/ ViewPR \/ Complete
  PROVE  WorkOK'
<1>1. job.st \in State /\ made' = made /\ tree' = tree /\ files' = files
  BY Given DEF SaveState, ViewPR, Complete
<1>2. job.todo # << >> /\ Head(job.todo) \in {"save", "merge", "complete"}
  BY DEF SaveState, ViewPR, Complete, At
<1>3. files.verified /\ made[disk.phase] = {} => tree.dirty BY Given DEF FilesOK
<1>4. Plain(<< >>) /\ Plain(<<"merge pr">>) BY PlainPlans, Minor
<1>5. ASSUME NEW st, Aside(st), disk' = st, GoOn(<< >>, st), Head(job.todo) # "complete"
      PROVE  WorkOK'
  <2>1. Head(job.todo) \notin Ending /\ Head(job.todo) # "checkpoint" BY <1>2, <1>5 DEF Ending
  <2> QED BY <1>1, <1>2, <1>3, <1>4, <1>5, <2>1, UsualStep DEF Aside
<1>6. Aside(job.st) BY DEF Aside
<1>7. CASE SaveState
  <2>1. disk' = job.st /\ GoOn(<< >>, job.st) /\ Head(job.todo) # "complete"
    BY <1>7 DEF SaveState, At
  <2> QED BY <1>5, <1>6, <2>1
<1>8. CASE Complete
  <2>1. GoOn(<< >>, disk') /\ Head(job.todo) = "complete" BY <1>8 DEF Complete, At
  <2>2. disk'.cur = "COMPLETED" /\ disk'.phase = job.st.phase
    BY <1>1, <1>8 DEF Complete, State
  <2> QED BY <1>1, <1>2, <1>3, <1>4, <2>1, <2>2, UsualStep
<1>9. CASE ViewPR
  <2> DEFINE a(to) == [job.st EXCEPT !.merge = to]
  <2>1. \/ disk' = job.st /\ GoOn(<< >>, job.st)
        \/ \E to : disk' = a(to) /\ GoOn(<< >>, a(to))
        \/ disk' = disk /\ GoOn(<<"merge pr">>, job.st)
    BY <1>9 DEF ViewPR
  <2>2. \A to : Aside(a(to)) BY <1>1 DEF Aside, State
  <2> HIDE DEF a
  <2>3. Head(job.todo) \notin Ending \cup {"save", "checkpoint"} /\ Head(job.todo) = "merge"
    BY <1>9 DEF ViewPR, At, Ending
  <2>4. CASE disk' = disk /\ GoOn(<<"merge pr">>, job.st)
    BY <1>1, <1>2, <1>4, <2>3, <2>4, AsideStep
  <2> QED BY <1>5, <1>6, <2>1, <2>2, <2>3, <2>4
<1> QED BY <1>7, <1>8, <1>9

\* A command that stops for a human saves what it says and gives its completion
\* up, or the rest of its plan.
LEMMA GivesUp ==
  ASSUME WInv, job.todo # << >>, Head(job.todo) \notin {"save", "checkpoint"},
         NEW rest, rest = << >> \/ rest = AfterCompletion(Tail(job.todo)),
         NEW st, job' = [job EXCEPT !.st = st, !.todo = <<"save">> \o rest],
         st.cur # "VERIFIED", st.phase = job.st.phase, disk' = disk, made' = made,
         tree'.dirty = tree.dirty,
         files'.verified = files.verified, files'.packet = files.packet
  PROVE  WorkOK'
<1> DEFINE tail == Tail(job.todo)
           todo == <<"save">> \o rest
<1>1. /\ Coherent(job.todo, job.st, disk, files, tree) /\ FilesOK(disk, files, tree, made)
      /\ DOMAIN job = DOMAIN NoJob
  BY Given, CopyOK
<1>2. /\ tail \in Steps /\ NoneAfter(tail, {"select"}, StepName)
      /\ NoneAfter(tail, Ending, Working) /\ None(tail, Beginning)
      /\ files.verified \/ None(tail, Working)
      /\ tree.dirty => Preceded(tail, {"graph"}, {"checkpoint"})
  BY RestOfPlan
<1>3. << >> \in Steps /\ \A S : None(<< >>, S) BY ShortPlans
<1>4. /\ rest \in Steps /\ NoneAfter(rest, {"select"}, StepName)
      /\ NoneAfter(rest, Ending, Working) /\ None(rest, Beginning)
      /\ files.verified \/ None(rest, Working)
      /\ tree.dirty => Preceded(rest, {"graph"}, {"checkpoint"})
  <2>1. CASE rest = << >>
    <3>1. NoneAfter(rest, {"select"}, StepName) /\ NoneAfter(rest, Ending, Working)
      BY <1>3, <2>1 DEF NoneAfter, None
    <3> QED BY <1>3, <2>1, <3>1, NoneNeeds
  <2>2. CASE rest = AfterCompletion(tail)
    <3> HIDE DEF tail
    <3>1. /\ rest \in Steps /\ NoneAfter(rest, {"select"}, StepName)
          /\ NoneAfter(rest, Ending, Working)
      BY <1>2, <2>2, AfterCompletionOrder
    <3>2. NoneAfter(tail, {"complete"}, Working) BY <1>2 DEF NoneAfter, Ending
    <3>3. rest = tail \/ None(rest, Working) BY <1>2, <2>2, <3>2, AfterCompletionOrder
    <3>4. None(rest, Beginning)
      <4>1. NoneAfter(tail, {"complete"}, Beginning) BY <1>2 DEF NoneAfter, None
      <4>2. rest = tail \/ None(rest, Beginning) BY <1>2, <2>2, <4>1, AfterCompletionOrder
      <4> QED BY <1>2, <4>2
    <3>5. None(rest, Working) => Preceded(rest, {"graph"}, {"checkpoint"})
      BY DEF None, Preceded, Working
    <3> QED BY <1>2, <3>1, <3>3, <3>4, <3>5
  <2> QED BY <2>1, <2>2
<1>5. Plain(<<"save">>) /\ "save" \in StepName BY PlainPlans, Minor
<1>6. /\ PlanOK(todo) /\ None(todo, Beginning)
      /\ files.verified \/ None(todo, Working)
      /\ tree.dirty => Preceded(todo, {"graph"}, {"checkpoint"})
  BY <1>4, <1>5, PlainPlan
<1>7. Preceded(todo, Choosing, Ending \cup {"save"})
  <2>1. /\ <<"save">> \in Steps /\ Len(<<"save">>) = 1 /\ <<"save">>[1] = "save"
        /\ None(<<"save">>, Choosing)
    BY <1>5, ShortPlans DEF Choosing
  <2>2. ~None(<<"save">>, Ending \cup {"save"}) BY <2>1 DEF None
  <2>3. Preceded(<<"save">>, Choosing, Ending \cup {"save"}) BY <2>1, NoneNeeds
  <2> QED BY <1>4, <2>1, <2>2, <2>3, PrecededConcat
<1> HIDE DEF todo
<1>8. st.phase = disk'.phase \/ (todo = <<"save">> /\ ~files.verified)
  BY <1>1 DEF Coherent
<1>9. todo # << >> => Head(todo) \notin Beginning
  BY <1>6, NoneHead DEF PlanOK
<1>10. Coherent(todo, st, disk', files', tree')
  BY <1>6, <1>7, <1>8, <1>9 DEF Coherent, Beginning
<1>11. job'.todo = todo /\ job'.st = st BY <1>1 DEF todo, NoJob
<1>12. FilesOK(disk', files', tree', made') BY <1>1 DEF FilesOK
<1> QED BY <1>6, <1>10, <1>11, <1>12 DEF WorkOK

\* A push that fails stops the completion for a human.
LEMMA PushWork ==
  ASSUME WInv, PushLocked
  PROVE  WorkOK'
<1>1. job.st \in State /\ disk' = disk /\ made' = made /\ tree' = tree
  BY Given DEF PushLocked
<1>2. job.todo # << >> /\ Head(job.todo) \in {"push", "initial push"} BY DEF PushLocked, At
<1>3. Head(job.todo) \notin Ending \cup {"save", "checkpoint"} BY <1>2 DEF Ending
<1> DEFINE a(push) == [job.st EXCEPT !.push = push]
           stop == [job.st EXCEPT !.push = "failed", !.cur = "WAITING"]
<1>4. \/ files' = files /\ \E push : GoOn(<< >>, a(push))
      \/ /\ Mark(job.st.phase, "WAITING_FOR_HUMAN")
         /\ job' = [job EXCEPT !.st = stop,
                               !.todo = <<"save">> \o AfterCompletion(Tail(job.todo))]
  BY DEF PushLocked
<1>5. \A push : Aside(a(push)) BY <1>1 DEF Aside, State
<1>6. stop.cur = "WAITING" /\ stop.phase = job.st.phase BY <1>1 DEF State
<1> HIDE DEF a, stop
<1>7. CASE files' = files /\ \E push : GoOn(<< >>, a(push))
  BY <1>1, <1>2, <1>3, <1>5, <1>7, PlainPlans, AsideStep DEF Aside
<1>8. CASE /\ Mark(job.st.phase, "WAITING_FOR_HUMAN")
           /\ job' = [job EXCEPT !.st = stop,
                                 !.todo = <<"save">> \o AfterCompletion(Tail(job.todo))]
  BY <1>1, <1>2, <1>3, <1>6, <1>8, MarkAside, GivesUp
<1> QED BY <1>4, <1>7, <1>8

\* completeLocked commits before it marks the phase, and begins nothing else.
LEMMA CompletionInOrder ==
  /\ CompletionSteps \in Steps
  /\ None(CompletionSteps, {"select"} \cup Beginning \cup Choosing)
  /\ NoneAfter(CompletionSteps, Ending, Working)
  /\ Preceded(CompletionSteps, {"graph"}, {"checkpoint"})
  /\ ~None(CompletionSteps, Ending)
  /\ CompletionSteps # << >> /\ Head(CompletionSteps) = "checkpoint"
<1> DEFINE s == CompletionSteps
<1>1. s \in Steps BY DEF Steps, StepName, CompletionSteps
<1>2. Len(s) = 5 /\ s # << >> /\ Head(s) = "checkpoint" BY DEF CompletionSteps
<1>3. /\ s[1] = "checkpoint" /\ s[2] = "push" /\ s[3] = "deliver" /\ s[4] = "graph"
      /\ s[5] = "complete"
  BY DEF CompletionSteps
<1>4. \A i \in 1 .. 5 : i = 1 \/ i = 2 \/ i = 3 \/ i = 4 \/ i = 5 OBVIOUS
<1> HIDE DEF s
<1>5. \A i \in 1 .. 5 : s[i] \notin {"select"} \cup Beginning \cup Choosing
  BY <1>3, <1>4 DEF Beginning, Choosing
<1>6. \A i \in 1 .. 5 : s[i] \in Ending => i = 5 BY <1>3, <1>4 DEF Ending
<1>7. (5 + 1) .. 5 = {} /\ 1 \in 1 .. (4 - 1) /\ 5 \in 1 .. 5 OBVIOUS
<1>8. \A i \in 1 .. 5 : s[i] = "graph" => i = 4 BY <1>3, <1>4
<1>9. NoneAfter(s, Ending, Working) BY <1>2, <1>6, <1>7 DEF NoneAfter
<1>10. Preceded(s, {"graph"}, {"checkpoint"}) BY <1>2, <1>3, <1>7, <1>8 DEF Preceded
<1>11. ~None(s, Ending) BY <1>2, <1>3, <1>7 DEF None, Ending
<1> QED BY <1>1, <1>2, <1>5, <1>9, <1>10, <1>11 DEF None, s

\* A completion before steps that commit nothing is in order, and has its commit
\* before the mark, and the mark before anything else begins.
LEMMA CompletionFirst ==
  ASSUME NEW t \in Steps, NoneAfter(t, {"select"}, StepName),
         NoneAfter(t, Ending, Working), None(t, Working), None(t, Beginning)
  PROVE  LET todo == CompletionSteps \o t
         IN  /\ PlanOK(todo)
             /\ Preceded(todo, {"graph"}, {"checkpoint"})
             /\ Preceded(todo, Choosing, Ending)
             /\ Preceded(todo, Choosing, Ending \cup {"save"})
             /\ todo # << >> => Head(todo) \notin Beginning
             /\ todo # <<"save">>
<1> DEFINE s == CompletionSteps
           todo == s \o t
<1>1. /\ s \in Steps /\ None(s, {"select"}) /\ None(s, Beginning) /\ None(s, Choosing)
      /\ NoneAfter(s, Ending, Working) /\ Preceded(s, {"graph"}, {"checkpoint"})
      /\ ~None(s, Ending)
  BY CompletionInOrder DEF None
<1>2. Preceded(t, {"graph"}, {"checkpoint"}) BY DEF None, Preceded, Working
<1>3. Len(s) = 5 BY DEF CompletionSteps
<1> HIDE DEF s
<1>4. todo \in Steps /\ None(todo, Beginning) BY <1>1, ConcatIndex, NoneConcat
<1>5. NoneAfter(todo, {"select"}, StepName)
  <2>1. NoneAfter(s, {"select"}, StepName) BY <1>1 DEF NoneAfter, None
  <2> QED BY <1>1, <2>1, NoneAfterConcat
<1>6. NoneAfter(todo, Ending, Working) BY <1>1, NoneAfterConcat
<1>7. Preceded(todo, {"graph"}, {"checkpoint"}) BY <1>1, <1>2, PrecededConcat
<1>8. Preceded(todo, Choosing, Ending)
  <2>1. Preceded(s, Choosing, Ending) BY <1>1, NoneNeeds
  <2> QED BY <1>1, <2>1, PrecededConcat
<1>9. Len(todo) = Len(s) + Len(t) /\ Len(t) \in Nat BY <1>1, ConcatIndex
<1>10. todo # <<"save">>
  <2>1. Len(<<"save">>) = 1 OBVIOUS
  <2> HIDE DEF todo
  <2>2. Len(todo) # 1 BY <1>3, <1>9
  <2> QED BY <2>1, <2>2
<1> HIDE DEF todo
<1>11. todo # << >> => None(Tail(todo), Beginning) /\ Head(todo) \notin Beginning
  BY <1>4, NoneTail, NoneHead
<1>12. Preceded(todo, Choosing, Ending \cup {"save"}) BY <1>8, PrecededMore
<1> QED BY <1>4, <1>5, <1>6, <1>7, <1>8, <1>10, <1>11, <1>12 DEF PlanOK, todo, s

\* Recovery completes a verified phase, and leaves VERIFIED nowhere otherwise.
LEMMA RecoverWork ==
  ASSUME WInv, Recover
  PROVE  WorkOK'
<1>1. /\ job.st \in State /\ made' = made /\ tree' = tree /\ files' = files
      /\ FilesOK(disk, files, tree, made) /\ Coherent(job.todo, job.st, disk, files, tree)
  BY Given DEF Recover
<1>2. job.todo # << >> /\ Head(job.todo) = "recover" BY DEF Recover, At
<1>3. Head(job.todo) \in Ending /\ job.st.cur = disk.cur BY <1>1, <1>2 DEF Ending, Coherent
<1>4. job.st.phase = disk.phase
  <2>1. job.todo # <<"save">> BY <1>2
  <2> QED BY <1>1, <1>2, <2>1 DEF Coherent
<1>5. files.verified /\ made[disk.phase] = {} => tree.dirty BY <1>1 DEF FilesOK
<1>6. Plain(<<"push">>) /\ Plain(<<"save">>) /\ Plain(<<"reconcile">>) BY PlainPlans, Minor
<1> DEFINE claimed == [job.st EXCEPT !.cur = "CLAIMED_DONE"]
<1>7. CASE job.st.cur = "VERIFYING"
  <2>1. disk' = claimed /\ GoOn(<<"reconcile">>, claimed) BY <1>7 DEF Recover
  <2>2. claimed.cur = "CLAIMED_DONE" /\ claimed.phase = job.st.phase BY <1>1 DEF State
  <2> HIDE DEF claimed
  <2> QED BY <1>1, <1>2, <1>5, <1>6, <2>1, <2>2, UsualStep
<1>8. CASE job.st.cur \notin {"VERIFYING", "VERIFIED"}
  <2>1. \/ GoOn(<<"push", "reconcile", "save">>, job.st)
        \/ GoOn(<<"reconcile">>, job.st)
    BY <1>8 DEF Recover
  <2>2. Plain(<<"push", "reconcile", "save">>)
    <3> DEFINE t == <<"push", "reconcile", "save">>
    <3>1. t \in Steps /\ Len(t) = 3 BY DEF Steps, StepName
    <3>2. t[1] = "push" /\ t[2] = "reconcile" /\ t[3] = "save" OBVIOUS
    <3> HIDE DEF t
    <3>3. t[1] \notin Central /\ t[2] \notin Central /\ t[3] \notin Central BY <3>2, Minor
    <3>4. None(t, Central) BY <3>1, <3>3, Indices DEF None
    <3>5. Plain(t) BY <3>1, <3>4 DEF Plain
    <3> QED BY <3>5 DEF t
  <2>3. disk' = disk /\ disk.cur # "VERIFIED" BY <1>3, <1>8 DEF Recover
  <2>4. Head(job.todo) \notin {"save", "checkpoint"} BY <1>2
  <2> QED BY <1>1, <1>2, <1>5, <1>6, <1>8, <2>1, <2>2, <2>3, <2>4, UsualStep
<1>9. CASE job.st.cur = "VERIFIED"
  <2> DEFINE rest == Tail(job.todo)
             t == <<"reconcile">> \o rest
             todo == (CompletionSteps \o <<"reconcile">>) \o rest
  <2>1. GoOn(CompletionSteps \o <<"reconcile">>, job.st) /\ disk' = disk
    BY <1>9 DEF Recover
  <2>2. /\ rest \in Steps /\ NoneAfter(rest, {"select"}, StepName)
        /\ NoneAfter(rest, Ending, Working) /\ None(rest, Beginning)
        /\ None(rest, Working)
    BY <1>2, <1>3, RestOfPlan
  <2> HIDE DEF rest
  <2>3. PlanOK(t) /\ None(t, Beginning) /\ None(t, Working) BY <1>6, <2>2, PlainPlan
  <2>4. todo = CompletionSteps \o t
    <3>1. CompletionSteps \in Seq(StepName) /\ rest \in Seq(StepName)
          /\ <<"reconcile">> \in Seq(StepName)
      BY <1>6, <2>2, CompletionInOrder DEF Steps, Plain
    <3> HIDE DEF StepName
    <3> QED BY <3>1, ConcatAssociative
  <2> HIDE DEF t, todo
  <2>5. /\ PlanOK(todo) /\ Preceded(todo, {"graph"}, {"checkpoint"})
        /\ Preceded(todo, Choosing, Ending) /\ Preceded(todo, Choosing, Ending \cup {"save"})
        /\ todo # << >> => Head(todo) \notin Beginning
    BY <2>3, <2>4, CompletionFirst DEF PlanOK
  <2>6. files.verified BY <1>1, <1>9 DEF Coherent
  <2>7. Coherent(todo, job.st, disk', files', tree')
    BY <1>1, <1>4, <2>1, <2>5, <2>6 DEF Coherent, Beginning
  <2>8. IInv BY Given
  <2>9. PlanOK(job'.todo) /\ Coherent(job'.todo, job'.st, disk', files', tree')
    BY <2>1, <2>5, <2>7, <2>8, GoOnCoherent DEF todo, rest
  <2> QED BY <1>1, <2>1, <2>9 DEF WorkOK
<1> QED BY <1>7, <1>8, <1>9

\* The tests verify the phase in work when there is work, and complete it.
LEMMA TestsWork ==
  ASSUME WInv, Tests
  PROVE  WorkOK'
<1>1. /\ job.st \in State /\ made' = made /\ tree' = tree /\ disk' = disk /\ IInv
      /\ FilesOK(disk, files, tree, made) /\ Coherent(job.todo, job.st, disk, files, tree)
  BY Given DEF Tests
<1>2. job.todo # << >> /\ Head(job.todo) = "tests" BY DEF Tests, At
<1>3. Tail(job.todo) = << >> /\ files.packet /\ disk.phase \in Phase
  BY <1>1, <1>2 DEF Coherent
<1>4. job.st.phase = disk.phase
  <2>1. job.todo # <<"save">> BY <1>2
  <2> QED BY <1>1, <1>2, <2>1 DEF Coherent
<1>5. PICK pass \in BOOLEAN :
        /\ pass => tree.dirty \/ made[job.st.phase] # {}
        /\ files' = [files EXCEPT !.verified = pass]
        /\ GoOn(IF pass THEN CompletionSteps ELSE <<"save">>,
                [job.st EXCEPT !.cur = IF pass THEN "VERIFIED" ELSE "FAILED",
                               !.commit = Tip(tree[tree.head])])
  BY DEF Tests
<1>6. files'.verified = pass /\ files'.packet BY <1>3, <1>5, Given
<1>7. << >> \in Steps /\ \A S : None(<< >>, S) BY ShortPlans
<1>8. NoneAfter(<< >>, {"select"}, StepName) /\ NoneAfter(<< >>, Ending, Working)
  BY <1>7, NoneNeeds DEF NoneAfter, None
<1> DEFINE st == [job.st EXCEPT !.cur = IF pass THEN "VERIFIED" ELSE "FAILED",
                               !.commit = Tip(tree[tree.head])]
           steps == IF pass THEN CompletionSteps ELSE <<"save">>
           todo == steps \o Tail(job.todo)
<1>9. st.phase = disk.phase /\ (st.cur = "VERIFIED" => pass) BY <1>1, <1>4 DEF State
<1>10. FilesOK(disk', files', tree', made')
  BY <1>1, <1>2, <1>3, <1>4, <1>5, <1>6 DEF FilesOK, Coherent
<1>11. /\ PlanOK(todo) /\ Preceded(todo, {"graph"}, {"checkpoint"})
       /\ pass \/ None(todo, Working)
       /\ pass => Preceded(todo, Choosing, Ending)
       /\ Preceded(todo, Choosing, Ending \cup {"save"})
       /\ todo # << >> => Head(todo) \notin Beginning
  <2>1. CASE pass
    <3>1. todo = CompletionSteps \o << >> BY <1>3, <2>1
    <3> HIDE DEF todo
    <3> QED BY <1>7, <1>8, <2>1, <3>1, CompletionFirst
  <2>2. CASE ~pass
    <3>1. todo = <<"save">> \o << >> BY <1>3, <2>2
    <3>2. Plain(<<"save">>) BY PlainPlans, Minor
    <3>3. Preceded(<< >>, {"graph"}, {"checkpoint"}) BY <1>7, NoneNeeds
    <3>4. Preceded(<< >>, Choosing, Ending \cup {"save"}) BY <1>7, NoneNeeds
    <3> HIDE DEF todo
    <3>5. /\ PlanOK(todo) /\ None(todo, Beginning) /\ None(todo, Working)
          /\ Preceded(todo, {"graph"}, {"checkpoint"})
          /\ Preceded(todo, Choosing, Ending \cup {"save"})
      BY <1>7, <1>8, <3>1, <3>2, <3>3, <3>4, PlainPlan
    <3>6. todo # << >> => Head(todo) \notin Beginning BY <3>5, NoneHead DEF PlanOK
    <3> QED BY <2>2, <3>5, <3>6
  <2> QED BY <2>1, <2>2
<1>12. GoOn(steps, st) BY <1>5
<1> HIDE DEF st, steps
<1>13. Coherent(todo, st, disk', files', tree')
  <2> HIDE DEF todo
  <2> QED BY <1>1, <1>6, <1>9, <1>11 DEF Coherent, Beginning
<1>14. PlanOK(job'.todo) /\ Coherent(job'.todo, job'.st, disk', files', tree')
  BY <1>1, <1>11, <1>12, <1>13, GoOnCoherent
<1> QED BY <1>10, <1>14 DEF WorkOK

\* A plan without any of the steps is empty.
LEMMA NoSteps ==
  ASSUME NEW t \in Steps, None(t, StepName)
  PROVE  t = << >>
<1> HIDE DEF StepName
<1>1. Len(t) \in Nat /\ t \in Seq(StepName) BY DEF Steps
<1>2. Len(t) >= 1 => 1 \in 1 .. Len(t) /\ t[1] \in StepName BY <1>1
<1>3. ~(Len(t) >= 1) BY <1>2 DEF None
<1>4. Len(t) = 0 BY <1>1, <1>3
<1> QED BY <1>1, <1>4

\* When a phase is chosen, or the repository prepared for it, nothing says VERIFIED
\* of the last one, and a choice is the end of the plan.
LEMMA BeforeChoice ==
  ASSUME WInv, job.todo # << >>, Head(job.todo) \in Choosing
  PROVE  /\ job.st.cur # "VERIFIED" /\ disk.cur # "VERIFIED"
         /\ files.verified => job.st.phase = disk.phase
         /\ Head(job.todo) = "select" => Tail(job.todo) = << >>
<1>1. job.todo \in Steps /\ PlanOK(job.todo) /\ Coherent(job.todo, job.st, disk, files, tree)
  BY DEF WInv, WorkOK, PlanOK
<1>2. job.st.cur # "VERIFIED" BY <1>1, PrecededTail DEF Coherent
<1>3. disk.cur # "VERIFIED" BY <1>1, PrecededTail DEF Coherent
<1>4. files.verified => job.st.phase = disk.phase BY <1>1 DEF Coherent
<1>5. ASSUME Head(job.todo) = "select" PROVE Tail(job.todo) = << >>
  <2>1. None(Tail(job.todo), StepName) BY <1>1, <1>5, NoneAfterTail DEF PlanOK
  <2>2. Tail(job.todo) \in Steps BY <1>1, TailIndex
  <2> QED BY <2>1, <2>2, NoSteps
<1> QED BY <1>2, <1>3, <1>4, <1>5

\* A plan that only saves.
LEMMA SaveAlone ==
  /\ <<"save">> \o << >> = <<"save">>
  /\ PlanOK(<<"save">>) /\ None(<<"save">>, Working)
  /\ \A T : Preceded(<<"save">>, {"graph"}, T) /\ Preceded(<<"save">>, Choosing, T)
  /\ <<"save">> # << >> /\ Head(<<"save">>) = "save"
<1>1. <<"save">> \o << >> = <<"save">>
  <2>1. <<"save">> \in Seq(StepName) BY PlainPlans, Minor DEF Plain, Steps
  <2> HIDE DEF StepName
  <2> QED BY <2>1
<1>2. <<"save">> # << >> /\ Head(<<"save">>) = "save" OBVIOUS
<1>3. << >> \in Steps /\ \A S : None(<< >>, S) BY ShortPlans
<1>4. /\ NoneAfter(<< >>, {"select"}, StepName) /\ NoneAfter(<< >>, Ending, Working)
      /\ \A S, T : Preceded(<< >>, S, T)
  BY <1>3, NoneNeeds DEF NoneAfter, None
<1>5. Plain(<<"save">>) BY PlainPlans, Minor
<1> DEFINE t == <<"save">> \o << >>
<1>6. PlanOK(t) /\ None(t, Working)
      /\ \A T : Preceded(t, {"graph"}, T) /\ Preceded(t, Choosing, T)
  BY <1>3, <1>4, <1>5, PlainPlan
<1>7. t = <<"save">> BY <1>1
<1> HIDE DEF t
<1> QED BY <1>1, <1>2, <1>6, <1>7

\* A phase that is chosen has no verification and no VERIFIED before it.
LEMMA ChoiceWork ==
  ASSUME WInv, SelectNone \/ SelectPhase
  PROVE  WorkOK'
<1>1. /\ job.st \in State /\ made' = made /\ disk' = disk /\ IInv
      /\ FilesOK(disk, files, tree, made)
  BY Given DEF SelectNone, SelectPhase
<1>2. job.todo # << >> /\ Head(job.todo) = "select" BY DEF SelectNone, SelectPhase, At
<1>3. Head(job.todo) \in Choosing /\ Head(job.todo) \notin Ending \cup {"save", "checkpoint"}
  BY <1>2 DEF Choosing, Ending
<1>4. disk.cur # "VERIFIED" /\ job.st.cur # "VERIFIED" /\ Tail(job.todo) = << >>
  BY <1>2, <1>3, BeforeChoice
<1>5. << >> \o Tail(job.todo) = << >> /\ <<"save">> \o Tail(job.todo) = <<"save">>
  <2> DEFINE rest == Tail(job.todo)
  <2>1. rest = << >> BY <1>4
  <2> HIDE DEF rest
  <2>2. << >> \o << >> = << >> OBVIOUS
  <2>3. << >> \o rest = << >> /\ <<"save">> \o rest = <<"save">> BY <2>1, <2>2, SaveAlone
  <2> QED BY <2>3 DEF rest
<1>6. ASSUME ~files'.verified PROVE FilesOK(disk', files', tree', made')
  BY <1>1, <1>4, <1>6 DEF FilesOK
<1>7. CASE SelectNone
  <2> DEFINE a == [job.st EXCEPT !.finished = TRUE, !.cur = "COMPLETED"]
  <2>1. tree' = tree BY <1>7 DEF SelectNone
  <2>2. \/ GoOn(<<"deliver", "save">>, a) /\ files' = files
        \/ /\ GoOn(<< >>, job.st)
           /\ files' = [files EXCEPT !.packet = FALSE, !.verified = FALSE]
    BY <1>7 DEF SelectNone
  <2>3. a.cur = "COMPLETED" /\ a.phase = job.st.phase BY <1>1 DEF State
  <2> HIDE DEF a
  <2>4. CASE GoOn(<<"deliver", "save">>, a) /\ files' = files
    <3> DEFINE t == <<"deliver", "save">>
    <3>1. t \in Steps /\ Len(t) = 2 BY DEF Steps, StepName
    <3>2. t[1] = "deliver" /\ t[2] = "save" OBVIOUS
    <3> HIDE DEF t
    <3>3. t[1] \notin Central /\ t[2] \notin Central BY <3>2, Minor
    <3>4. \A i \in 1 .. 2 : i = 1 \/ i = 2 OBVIOUS
    <3>5. None(t, Central) BY <3>1, <3>3, <3>4 DEF None
    <3>6. Plain(t) BY <3>1, <3>5 DEF Plain
    <3>7. GoOn(t, a) BY <2>4 DEF t
    <3> QED BY <1>1, <1>2, <1>3, <2>1, <2>3, <2>4, <3>6, <3>7, AsideStep
  <2>5. CASE /\ GoOn(<< >>, job.st)
             /\ files' = [files EXCEPT !.packet = FALSE, !.verified = FALSE]
    <3>1. ~files'.verified BY <2>5, Given
    <3>2. job' = NoJob BY <1>5, <2>5 DEF GoOn
    <3> QED BY <1>6, <3>1, <3>2, IdleCoherent DEF WorkOK
  <2> QED BY <2>2, <2>4, <2>5
<1>8. CASE SelectPhase
  <2> DEFINE p == Selected.phase
             branch == IF tree.branch THEN tree.feature ELSE tree[tree.head]
             a == [job.st EXCEPT !.cur = "PREPARED", !.phase = p, !.branch = TRUE,
                                 !.commit = Tip(branch)]
  <2>1. ~files'.verified BY <1>8 DEF SelectPhase
  <2>2. tree' = [tree EXCEPT !.head = "feature", !.branch = TRUE, !.feature = branch]
    BY <1>8 DEF SelectPhase
  <2>3. GoOn(IF tree.dirty THEN << >> ELSE <<"save">>, a) BY <1>8 DEF SelectPhase
  <2>4. a.cur = "PREPARED" BY <1>1 DEF State
  <2> HIDE DEF a, p, branch
  <2>5. tree'.dirty = tree.dirty BY <2>2, Given
  <2>6. CASE tree.dirty
    <3>1. job' = NoJob BY <1>5, <2>3, <2>6 DEF GoOn
    <3> QED BY <1>6, <2>1, <3>1, IdleCoherent DEF WorkOK
  <2>7. CASE ~tree.dirty
    <3>1. GoOn(<<"save">>, a) BY <2>3, <2>7
    <3>2. Coherent(<<"save">>, a, disk', files', tree')
      BY <1>1, <1>4, <2>1, <2>4, SaveAlone DEF Coherent
    <3>3. PlanOK(job'.todo) /\ Coherent(job'.todo, job'.st, disk', files', tree')
      <4> DEFINE todo == <<"save">> \o Tail(job.todo)
      <4>1. todo = <<"save">> BY <1>5
      <4> HIDE DEF todo
      <4>2. PlanOK(todo) /\ Coherent(todo, a, disk', files', tree')
        BY <3>2, <4>1, SaveAlone
      <4> QED BY <1>1, <3>1, <4>2, GoOnCoherent DEF todo
    <3> QED BY <1>6, <2>1, <3>3 DEF WorkOK
  <2> QED BY <2>6, <2>7
<1> QED BY <1>7, <1>8

\* The repository is prepared when nothing says VERIFIED any more.
LEMMA BootstrapWork ==
  ASSUME WInv, BootstrapDirty \/ Bootstrap
  PROVE  WorkOK'
<1>1. job.st \in State /\ made' = made /\ FilesOK(disk, files, tree, made)
  BY Given DEF BootstrapDirty, Bootstrap
<1>2. job.todo # << >> /\ Head(job.todo) = "bootstrap" BY DEF BootstrapDirty, Bootstrap, At
<1>3. /\ Head(job.todo) \in Choosing
      /\ Head(job.todo) \notin Ending \cup {"save", "checkpoint"}
  BY <1>2 DEF Choosing, Ending
<1>4. /\ disk.cur # "VERIFIED" /\ job.st.cur # "VERIFIED"
      /\ files.verified => job.st.phase = disk.phase
  BY <1>2, <1>3, BeforeChoice
<1>5. tree'.dirty = tree.dirty BY Given DEF BootstrapDirty, Bootstrap
<1>6. CASE BootstrapDirty
  <2>1. disk' = job.st /\ tree' = tree /\ files' = files /\ (job' = NoJob \/ GoOn(<< >>, job.st))
    BY <1>6 DEF BootstrapDirty
  <2>2. CASE job' = NoJob
    <3>1. FilesOK(disk', files', tree', made') BY <1>1, <1>4, <2>1 DEF FilesOK
    <3> QED BY <2>2, <3>1, IdleCoherent DEF WorkOK
  <2>3. CASE GoOn(<< >>, job.st)
    <3>1. files.verified /\ made[disk.phase] = {} => tree.dirty BY <1>1 DEF FilesOK
    <3> QED BY <1>1, <1>2, <1>3, <1>4, <2>1, <2>3, <3>1, PlainPlans, UsualStep
  <2> QED BY <2>1, <2>2, <2>3
<1>7. CASE Bootstrap
  <2>1. disk' = disk BY <1>7 DEF Bootstrap
  <2>2. PICK r \in Configured(job.st) :
          LET st == [job.st EXCEPT !.push = r.push]
              ready == [st EXCEPT !.commit = Tip(tree.base)]
              asked == [job.st EXCEPT !.cur = "WAITING"]
              send == IF r.exists /\ r.push # "skipped" THEN <<"initial push">> ELSE << >>
              End(last) == job' = [job EXCEPT !.todo = <<"save">>, !.st = last]
          IN  \/ Mark(st.phase, "WAITING_FOR_HUMAN") /\ End(asked)
              \/ st.cur = "WAITING" /\ End(st) /\ files' = files
              \/ GoOn(send \o <<"save">>, ready) /\ files' = files
    BY <1>7 DEF Bootstrap
  <2> DEFINE st == [job.st EXCEPT !.push = r.push]
             ready == [st EXCEPT !.commit = Tip(tree.base)]
             asked == [job.st EXCEPT !.cur = "WAITING"]
             send == IF r.exists /\ r.push # "skipped" THEN <<"initial push">> ELSE << >>
             End(last) == job' = [job EXCEPT !.todo = <<"save">>, !.st = last]
  <2>3. \/ Mark(st.phase, "WAITING_FOR_HUMAN") /\ End(asked)
        \/ st.cur = "WAITING" /\ End(st) /\ files' = files
        \/ GoOn(send \o <<"save">>, ready) /\ files' = files
    BY <2>2
  <2>4. /\ Aside(st) /\ Aside(ready)
        /\ asked.phase = job.st.phase /\ asked.cur = "WAITING"
    BY <1>1 DEF Aside, State
  <2>5. Plain(<<"initial push">>) /\ Plain(<<"save">>) /\ Plain(<< >>) BY PlainPlans, Minor
  <2>6. Plain(send) BY <2>5
  <2> HIDE DEF st, ready, asked, send
  <2>7. ASSUME NEW last, End(last), last.cur # "VERIFIED", last.phase = job.st.phase,
               files'.verified = files.verified, files'.packet = files.packet
        PROVE  WorkOK'
    <3>1. job' = [job EXCEPT !.st = last, !.todo = <<"save">> \o << >>]
      <4>1. job' = [job EXCEPT !.st = last, !.todo = <<"save">>] BY <2>7
      <4> QED BY <4>1, SaveAlone
    <3> QED BY <1>1, <1>2, <1>3, <1>5, <2>1, <2>7, <3>1, GivesUp
  <2>8. CASE Mark(st.phase, "WAITING_FOR_HUMAN") /\ End(asked)
    <3>1. files'.verified = files.verified /\ files'.packet = files.packet
      BY <2>8, MarkAside
    <3> QED BY <2>4, <2>7, <2>8, <3>1
  <2>9. CASE st.cur = "WAITING" /\ End(st) /\ files' = files
    BY <2>4, <2>7, <2>9 DEF Aside
  <2>10. CASE GoOn(send \o <<"save">>, ready) /\ files' = files
    <3>1. Plain(send \o <<"save">>) BY <2>5, <2>6, PlainPlans
    <3> QED BY <1>1, <1>2, <1>3, <1>5, <2>1, <2>4, <2>10, <3>1, AsideStep DEF Aside
  <2> QED BY <2>3, <2>8, <2>9, <2>10
<1> QED BY <1>6, <1>7

\* The plans with which commands begin: nothing of them is Working, a choice comes
\* last and after a recovery, and a recovery or the tests first.
LEMMA FirstPlans ==
  ASSUME NEW t \in Steps,
         \A i \in 1 .. Len(t) :
           /\ t[i] \notin Working
           /\ t[i] = "select" => i = Len(t)
           /\ t[i] \in Beginning => i = 1
           /\ t[i] \in Choosing => i > 1 /\ t[1] \in Ending
  PROVE  PlanOK(t) /\ None(t, Working) /\ Preceded(t, Choosing, Ending)
<1>1. Len(t) \in Nat BY DEF Steps
<1>2. None(t, Working) BY DEF None
<1>3. NoneAfter(t, {"select"}, StepName) BY <1>1 DEF NoneAfter
<1>4. NoneAfter(t, Ending, Working)
  <2>1. ASSUME NEW i \in 1 .. Len(t), NEW k \in (i + 1) .. Len(t) PROVE t[k] \notin Working
    <3>1. k \in 1 .. Len(t) BY <1>1
    <3> QED BY <3>1
  <2> QED BY <2>1 DEF NoneAfter
<1>5. ASSUME t # << >> PROVE None(Tail(t), Beginning)
  <2>1. /\ Len(Tail(t)) = Len(t) - 1
        /\ \A i \in 1 .. Len(Tail(t)) : Tail(t)[i] = t[i + 1]
    BY <1>5, TailIndex
  <2>2. ASSUME NEW i \in 1 .. Len(Tail(t)) PROVE Tail(t)[i] \notin Beginning
    <3>1. i + 1 \in 1 .. Len(t) /\ i + 1 # 1 BY <1>1, <2>1
    <3>2. t[i + 1] \notin Beginning BY <3>1
    <3> QED BY <2>1, <3>2
  <2> QED BY <2>2 DEF None
<1>6. Preceded(t, Choosing, Ending)
  <2> SUFFICES ASSUME NEW k \in 1 .. Len(t), t[k] \in Choosing
               PROVE  \E j \in 1 .. (k - 1) : t[j] \in Ending
    BY DEF Preceded
  <2>1. k > 1 /\ t[1] \in Ending OBVIOUS
  <2>2. 1 \in 1 .. (k - 1) BY <1>1, <2>1
  <2> QED BY <2>1, <2>2
<1> QED BY <1>2, <1>3, <1>4, <1>5, <1>6 DEF PlanOK

\* A command begins with such a plan and a copy of the file.
LEMMA BeginsWork ==
  ASSUME WInv, NEW t, PlanOK(t), None(t, Working), Preceded(t, Choosing, Ending),
         t # << >>,
         Head(t) = "tests" => /\ Tail(t) = << >> /\ files.packet /\ disk.phase \in Phase
                              /\ disk'.cur # "VERIFIED",
         job'.todo = t, job'.st = disk', disk'.phase = disk.phase,
         disk'.cur = "VERIFIED" => files.verified,
         files' = files, tree' = tree, made' = made
  PROVE  WorkOK'
<1>1. FilesOK(disk', files', tree', made') BY Given DEF FilesOK
<1>2. Preceded(t, {"graph"}, {"checkpoint"}) BY DEF None, Preceded, Working
<1>3. Preceded(t, Choosing, Ending \cup {"save"}) BY PrecededMore
<1>4. Coherent(t, disk', disk', files', tree') BY <1>2, <1>3 DEF Coherent
<1> QED BY <1>1, <1>4 DEF WorkOK

\* No command is at work, and the file and the tree say nothing new.
LEMMA IdleWork ==
  ASSUME WInv, job' = NoJob, files' = files, made' = made, disk'.phase = disk.phase,
         disk'.cur = "VERIFIED" => files.verified,
         files.verified /\ tree.dirty => tree'.dirty
  PROVE  WorkOK'
<1>1. FilesOK(disk', files', tree', made') BY Given DEF FilesOK
<1> QED BY <1>1, IdleCoherent DEF WorkOK

\* What a command begins with fits the files.
LEMMA CommandWork ==
  ASSUME WInv, \/ Prepare \/ Verify \/ Repair \/ Resume
               \/ OpenMilestonePR \/ TryMerge \/ InspectChecks
  PROVE  WorkOK'
<1>1. /\ files' = files /\ tree' = tree /\ made' = made /\ job = NoJob /\ disk \in State
      /\ disk.cur = "VERIFIED" => files.verified
  BY Given DEF Prepare, Verify, Repair, Resume, OpenMilestonePR, TryMerge, InspectChecks,
               Start, Idle, FilesOK
<1>2. disk'.phase = disk.phase /\ (disk'.cur = "VERIFIED" => files.verified)
  <2>1. CASE Prepare \/ OpenMilestonePR \/ TryMerge
    BY <1>1, <2>1 DEF Prepare, OpenMilestonePR, TryMerge
  <2>2. CASE Verify \/ Repair \/ Resume
    <3>1. PICK x : disk' = [disk EXCEPT !.cur = x] /\ (x = "VERIFIED" => files.verified)
      BY <2>2 DEF Verify, Repair, Resume
    <3> QED BY <1>1, <3>1 DEF State
  <2>3. CASE InspectChecks
    <3>1. ASSUME NEW x PROVE Merge(disk, x).phase = disk.phase /\ Merge(disk, x).cur = disk.cur
      BY <1>1 DEF Merge, State
    <3>2. disk' = disk \/ \E x : disk' = Merge(disk, x) BY <2>3 DEF InspectChecks
    <3> QED BY <1>1, <3>1, <3>2
  <2> QED BY <2>1, <2>2, <2>3
<1>3. ASSUME NEW t \in Steps,
             \A i \in 1 .. Len(t) :
               /\ t[i] \notin Working
               /\ t[i] = "select" => i = Len(t)
               /\ t[i] \in Beginning => i = 1
               /\ t[i] \in Choosing => i > 1 /\ t[1] \in Ending,
             t # << >>, Head(t) # "tests", job'.todo = t, job'.st = disk'
      PROVE  WorkOK'
  BY <1>1, <1>2, <1>3, FirstPlans, BeginsWork
<1>4. CASE Repair \/ InspectChecks \/ (Verify /\ ~files.packet)
  <2>1. job' = NoJob BY <1>1, <1>4 DEF Repair, InspectChecks, Verify
  <2> QED BY <1>1, <1>2, <2>1, IdleWork
<1>5. CASE Verify /\ files.packet
  <2> DEFINE t == <<"tests">>
  <2>1. /\ job'.todo = t /\ job'.st = disk' /\ disk'.cur = "VERIFYING"
        /\ disk.phase \in Phase
    <3>1. job'.todo = t /\ job'.st = disk' BY <1>5 DEF Verify
    <3>2. disk' = [disk EXCEPT !.cur = "VERIFYING"] /\ disk.phase # NoPhase
      BY <1>5 DEF Verify
    <3>3. disk'.cur = "VERIFYING" /\ disk.phase \in Phase BY <1>1, <3>2 DEF State
    <3> QED BY <3>1, <3>3
  <2>2. "tests" \in StepName \ (Working \cup Choosing) /\ "tests" # "select"
    BY DEF StepName, Working, Choosing
  <2>3. t \in Steps /\ Len(t) = 1 /\ t[1] = "tests" BY <2>2, ShortPlans
  <2>4. t # << >> /\ Head(t) = "tests" /\ Tail(t) = << >> OBVIOUS
  <2> HIDE DEF t
  <2>5. \A i \in 1 .. Len(t) : i = 1 BY <2>3
  <2>6. PlanOK(t) /\ None(t, Working) /\ Preceded(t, Choosing, Ending)
    BY <2>2, <2>3, <2>5, FirstPlans
  <2> QED BY <1>1, <1>2, <1>5, <2>1, <2>4, <2>6, BeginsWork
<1>6. CASE TryMerge
  <2> DEFINE t == <<"merge">>
  <2>1. job'.todo = t /\ job'.st = disk' BY <1>6 DEF TryMerge, Start
  <2>2. "merge" \in StepName \ (Working \cup Choosing \cup Beginning)
    BY DEF StepName, Working, Choosing, Beginning
  <2>3. t \in Steps /\ Len(t) = 1 /\ t[1] = "merge" BY <2>2, ShortPlans
  <2>4. t # << >> /\ Head(t) # "tests" OBVIOUS
  <2> HIDE DEF t
  <2>5. \A i \in 1 .. Len(t) : i = 1 BY <2>3
  <2> QED BY <1>3, <2>1, <2>2, <2>3, <2>4, <2>5
<1>7. CASE OpenMilestonePR
  <2> DEFINE t == <<"open pr", "save">>
  <2>1. job'.todo = t /\ job'.st = disk' BY <1>7 DEF OpenMilestonePR, Start
  <2>2. t \in Steps /\ Len(t) = 2 BY DEF Steps, StepName
  <2>3. t[1] = "open pr" /\ t[2] = "save" /\ t # << >> /\ Head(t) = "open pr" OBVIOUS
  <2> HIDE DEF t
  <2>4. /\ "open pr" \notin Working \cup Choosing \cup Beginning
        /\ "save" \notin Working \cup Choosing \cup Beginning
    BY DEF Working, Choosing, Beginning
  <2>5. \A i \in 1 .. 2 : i = 1 \/ i = 2 OBVIOUS
  <2> QED BY <1>3, <2>1, <2>2, <2>3, <2>4, <2>5
<1>8. CASE Resume /\ files.verified
  <2> DEFINE t == <<"recover", "save">>
  <2>1. job'.todo = t /\ job'.st = disk' BY <1>8 DEF Resume
  <2>2. t \in Steps /\ Len(t) = 2 BY DEF Steps, StepName
  <2>3. t[1] = "recover" /\ t[2] = "save" /\ t # << >> /\ Head(t) = "recover" OBVIOUS
  <2> HIDE DEF t
  <2>4. /\ "recover" \notin Working \cup Choosing
        /\ "save" \notin Working \cup Choosing \cup Beginning
    BY DEF Working, Choosing, Beginning
  <2>5. \A i \in 1 .. 2 : i = 1 \/ i = 2 OBVIOUS
  <2> QED BY <1>3, <2>1, <2>2, <2>3, <2>4, <2>5
<1>9. CASE Prepare \/ (Resume /\ ~files.verified)
  <2> DEFINE t == PrepareSteps
  <2>1. job'.todo = t /\ job'.st = disk' BY <1>9 DEF Resume, Prepare, Start
  <2>2. t \in Steps /\ Len(t) = 3 BY DEF Steps, StepName, PrepareSteps
  <2>3. /\ t[1] = "recover" /\ t[2] = "bootstrap" /\ t[3] = "select" /\ t # << >>
        /\ Head(t) = "recover"
    BY DEF PrepareSteps
  <2> HIDE DEF t
  <2>4. /\ "recover" \notin Working \cup Choosing /\ "recover" \in Ending
        /\ "bootstrap" \notin Working \cup Beginning
        /\ "select" \notin Working \cup Beginning
    BY DEF Working, Choosing, Beginning, Ending
  <2>5. \A i \in 1 .. 3 : i = 1 \/ i = 2 \/ i = 3 OBVIOUS
  <2>6. 2 > 1 /\ 3 > 1 OBVIOUS
  <2> QED BY <1>3, <2>1, <2>2, <2>3, <2>4, <2>5, <2>6
<1> QED BY <1>4, <1>5, <1>6, <1>7, <1>8, <1>9

\* The worker, the user, GitHub and crashes leave the evidence there is.
LEMMA WorldWork ==
  ASSUME WInv, Edit \/ Discard \/ Decide \/ ChecksEnd \/ Crash
  PROVE  WorkOK'
<1>1. disk' = disk /\ files' = files /\ made' = made
  BY DEF Edit, Discard, Decide, ChecksEnd, Crash
<1>2. disk.cur = "VERIFIED" => files.verified BY Given DEF FilesOK
<1>3. CASE Decide \/ ChecksEnd
  <2>1. job' = job /\ tree' = tree BY <1>3 DEF Decide, ChecksEnd
  <2> QED BY <1>1, <2>1 DEF WInv, WorkOK
<1>4. CASE Edit \/ Discard \/ Crash
  <2>1. job' = NoJob BY <1>4 DEF Edit, Discard, Crash, Idle
  <2>2. files.verified /\ tree.dirty => tree'.dirty
    BY <1>4, Given DEF Edit, Discard, Crash, FilesOK
  <2> QED BY <1>1, <1>2, <2>1, <2>2, IdleWork
<1> QED BY <1>3, <1>4

-----------------------------------------------------------------------------
\* Types

\* The copy and the file are of the type.
StatesOK == job.st \in State /\ disk \in State

\* A copy of the type with which the command goes on.
LEMMA GoesOn ==
  ASSUME WInv, disk' \in State, NEW steps, NEW st, GoOn(steps, st), st \in State
  PROVE  StatesOK'
<1>1. job'.st \in State BY Given, GoOnType
<1> QED BY <1>1 DEF StatesOK

\* The copy after a checkpoint.
LEMMA CheckpointStates ==
  ASSUME WInv, Checkpoint
  PROVE  StatesOK'
<1>1. job.st \in State /\ disk' \in State /\ tree[tree.head] \in SUBSET Sha
  BY Given DEF Checkpoint, Branch
<1>2. job.todo # << >> /\ Head(job.todo) \in Working BY DEF Checkpoint, At, Working
<1>3. job.st.phase \in Phase BY <1>2, WorkingPhase
<1> DEFINE c == Cardinality(UNION {made[p] : p \in Phase}) + 1
           k == job.st.checkpoints \cup {job.st.phase}
           push == IF job.st.push \in {"", "pushed"} THEN "pending" ELSE job.st.push
           a == [job.st EXCEPT !.commit = c, !.checkpoints = k, !.push = push]
           b == [job.st EXCEPT !.commit = Tip(tree[tree.head]), !.checkpoints = k]
<1>4. \/ tree.dirty /\ GoOn(<< >>, a)
      \/ GoOn(<< >>, b) \/ GoOn(<< >>, job.st)
  BY DEF Checkpoint
<1>5. k \in SUBSET Phase /\ push \in Push BY <1>1, <1>3 DEF State, Push
<1>6. Tip(tree[tree.head]) \in Sha BY <1>1, Branches
<1>7. tree.dirty => c \in Sha
  <2>1. tree.dirty => Cardinality(UNION {made[p] : p \in Phase}) < MaxCommits
    BY DEF WInv, TypesOK, Room
  <2> QED BY <2>1, Given, NextCommit
<1> HIDE DEF c, k, push
<1>8. b \in State
  <2> DEFINE x == [job.st EXCEPT !.commit = Tip(tree[tree.head])]
  <2>1. x \in State BY <1>1, <1>6, Updates
  <2>2. b = [x EXCEPT !.checkpoints = k] OBVIOUS
  <2> HIDE DEF x, b
  <2> QED BY <1>5, <2>1, <2>2, Updates
<1>9. tree.dirty => a \in State
  <2> SUFFICES ASSUME tree.dirty PROVE a \in State OBVIOUS
  <2> DEFINE x == [job.st EXCEPT !.commit = c]
             y == [x EXCEPT !.checkpoints = k]
  <2>1. x \in State BY <1>1, <1>7, Updates
  <2>2. a = [y EXCEPT !.push = push] OBVIOUS
  <2> HIDE DEF x, a
  <2>3. y \in State BY <1>5, <2>1, Updates
  <2> HIDE DEF y
  <2> QED BY <1>5, <2>2, <2>3, Updates
<1> HIDE DEF a, b
<1> QED BY <1>1, <1>4, <1>8, <1>9, GoesOn

\* The copies of a delivery, of a recovery and of the tests.
LEMMA CopiedStates ==
  ASSUME WInv, PushLocked \/ Complete \/ ViewPR \/ Recover \/ Reconcile \/ Tests
  PROVE  StatesOK'
<1>1. job.st \in State /\ disk \in State BY Given
<1>2. \A x \in Cur : [job.st EXCEPT !.cur = x] \in State BY <1>1, Updates
<1>3. \A x \in Push : [job.st EXCEPT !.push = x] \in State BY <1>1, Updates
<1>4. \A x \in MergeWord : [job.st EXCEPT !.merge = x] \in State BY <1>1, Updates
<1>5. {"skipped", "pushed", "failed"} \subseteq Push /\ "WAITING" \in Cur
      /\ "CLAIMED_DONE" \in Cur /\ "COMPLETED" \in Cur
      /\ "VERIFIED" \in Cur /\ "FAILED" \in Cur
  BY DEF Push, Cur
<1>6. CASE PushLocked
  <2> DEFINE stop == [job.st EXCEPT !.push = "failed", !.cur = "WAITING"]
  <2>1. disk' = disk /\ \/ \E x \in {"skipped", "pushed", "failed"} :
                             GoOn(<< >>, [job.st EXCEPT !.push = x])
                        \/ \E t : job' = [job EXCEPT !.st = stop, !.todo = t]
    BY <1>6 DEF PushLocked
  <2>2. stop \in State
    <3> DEFINE x == [job.st EXCEPT !.push = "failed"]
    <3>1. x \in State /\ stop = [x EXCEPT !.cur = "WAITING"] BY <1>3, <1>5
    <3> HIDE DEF x, stop
    <3> QED BY <1>5, <3>1, Updates
  <2> HIDE DEF stop
  <2>3. CASE \E t : job' = [job EXCEPT !.st = stop, !.todo = t]
    <3>1. DOMAIN job = DOMAIN NoJob /\ "st" \in DOMAIN NoJob BY Given, CopyOK DEF NoJob
    <3> QED BY <1>1, <2>1, <2>2, <2>3, <3>1 DEF StatesOK
  <2>4. CASE \E x \in {"skipped", "pushed", "failed"} :
               GoOn(<< >>, [job.st EXCEPT !.push = x])
    BY <1>1, <1>3, <1>5, <2>1, <2>4, GoesOn
  <2> QED BY <2>1, <2>3, <2>4
<1>7. CASE Complete
  <2> DEFINE x == [job.st EXCEPT !.cur = "COMPLETED"]
             f == job.st.finished \/ AllCompleted(files.node)
  <2>1. disk' = [x EXCEPT !.finished = f] /\ GoOn(<< >>, disk') BY <1>7 DEF Complete
  <2>2. x \in State BY <1>2, <1>5
  <2>3. f \in BOOLEAN BY <1>1 DEF AllCompleted, State
  <2> HIDE DEF x, f
  <2>4. disk' \in State BY <2>1, <2>2, <2>3, Updates
  <2> QED BY <2>1, <2>4, GoesOn
<1>8. CASE ViewPR
  <2>1. \/ disk' = job.st /\ GoOn(<< >>, job.st)
        \/ \E x \in {"waiting", "merged", "checking"} :
             disk' = [job.st EXCEPT !.merge = x] /\ GoOn(<< >>, disk')
        \/ disk' = disk /\ GoOn(<<"merge pr">>, job.st)
    BY <1>8 DEF ViewPR, EvaluateMerge
  <2>2. {"waiting", "merged", "checking"} \subseteq MergeWord BY DEF MergeWord
  <2> QED BY <1>1, <1>4, <2>1, <2>2, GoesOn
<1>9. CASE Recover
  <2> DEFINE claimed == [job.st EXCEPT !.cur = "CLAIMED_DONE"]
  <2>1. \/ disk' = claimed /\ GoOn(<<"reconcile">>, claimed)
        \/ disk' = disk /\ \E steps : GoOn(steps, job.st)
    BY <1>9 DEF Recover
  <2>2. claimed \in State BY <1>2, <1>5
  <2> HIDE DEF claimed
  <2> QED BY <1>1, <2>1, <2>2, GoesOn
<1>10. CASE Reconcile
  <2> DEFINE st == IF job.st.branch /\ Pushed(job.st)
                   THEN [job.st EXCEPT !.push = "pushed"] ELSE job.st
             found == IF st.pr # 0 \/ Open = {} \/ ~st.branch THEN st
                      ELSE Known(st, CHOOSE n \in Open : TRUE)
             m == [found EXCEPT !.merge = "merged"]
             o == IF ci = "pending" THEN Merge(found, "checking")
                  ELSE IF found.merge = "" THEN Merge(found, "open") ELSE found
  <2>1. /\ GoOn(<< >>, st) \/ GoOn(<< >>, found) \/ GoOn(CleanupSteps, m) \/ GoOn(<< >>, o)
        /\ disk' = disk
    BY <1>10 DEF Reconcile
  <2>2. st \in State BY <1>1, <1>3, <1>5
  <2> HIDE DEF st
  <2>3. "open" \in MergeWord /\ "checking" \in MergeWord /\ "merged" \in MergeWord
    BY DEF MergeWord
  <2>4. found \in State
    <3>1. CASE Open = {} BY <2>2, <3>1
    <3>2. CASE Open # {}
      <4> DEFINE n == CHOOSE n \in Open : TRUE
      <4>1. n \in Open BY <3>2
      <4> HIDE DEF n
      <4>2. n \in 0 .. MaxPRs
        <5>1. prs \in Seq({"open", "merged", "closed"}) BY DEF WInv, IInv
        <5>2. n \in 1 .. Len(prs) /\ Len(prs) \in Nat BY <4>1, <5>1 DEF Open
        <5>3. Len(prs) <= MaxPRs /\ MaxPRs \in Nat
          BY DeliveryAssumption DEF WInv, TypesOK, FewPRs
        <5> QED BY <5>2, <5>3
      <4>3. Known(st, n) \in State BY <2>2, <2>3, <4>2, MergeType
      <4> QED BY <2>2, <4>3 DEF n
    <3> QED BY <3>1, <3>2
  <2> HIDE DEF found
  <2>5. m \in State BY <2>3, <2>4, Updates
  <2>6. o \in State BY <2>3, <2>4, MergeType
  <2> HIDE DEF m, o
  <2> QED BY <1>1, <2>1, <2>2, <2>4, <2>5, <2>6, GoesOn
<1>11. CASE Tests
  <2>1. PICK pass \in BOOLEAN :
          GoOn(IF pass THEN CompletionSteps ELSE <<"save">>,
               [job.st EXCEPT !.cur = IF pass THEN "VERIFIED" ELSE "FAILED",
                              !.commit = Tip(tree[tree.head])])
    BY <1>11 DEF Tests
  <2> DEFINE cur == IF pass THEN "VERIFIED" ELSE "FAILED"
             x == [job.st EXCEPT !.cur = cur]
             y == [x EXCEPT !.commit = Tip(tree[tree.head])]
  <2>2. disk' = disk /\ \E steps : GoOn(steps, y) BY <1>11, <2>1 DEF Tests
  <2>3. Tip(tree[tree.head]) \in Sha
    <3>1. tree[tree.head] \in SUBSET Sha BY Given DEF Branch
    <3> QED BY <3>1, Branches
  <2>4. cur \in Cur BY <1>5
  <2> HIDE DEF cur
  <2>5. x \in State BY <1>2, <2>4
  <2> HIDE DEF x
  <2>6. y \in State BY <2>3, <2>5, Updates
  <2> HIDE DEF y
  <2> QED BY <1>1, <2>2, <2>6, GoesOn
<1> QED BY <1>6, <1>7, <1>8, <1>9, <1>10, <1>11

\* The phase a preparation selects may run.
LEMMA SelectedPhase ==
  ASSUME WInv
  PROVE  /\ Selected.phase \in Phase \cup {NoPhase}
         /\ Selected.phase # NoPhase =>
              Selected.phase \in Phase /\ files.node[Selected.phase] \in {"READY", "RUNNING"}
<1>1. files.node \in [Phase -> Status] BY Given
<1>2. \/ Selected.phase = NoPhase
      \/ /\ Selected.phase \in Phase
         /\ files.node[Selected.phase] \in {"READY", "RUNNING"}
  BY <1>1, SelectsRunnable DEF Selected
<1> QED BY <1>2

\* The copies of a preparation.
LEMMA PreparedStates ==
  ASSUME WInv, Bootstrap \/ SelectNone \/ SelectPhase
  PROVE  StatesOK'
<1>1. job.st \in State /\ disk' \in State
  BY Given DEF Bootstrap, SelectNone, SelectPhase
<1>2. {"WAITING", "COMPLETED", "PREPARED"} \subseteq Cur BY DEF Cur
<1>3. \A x \in Cur : [job.st EXCEPT !.cur = x] \in State BY <1>1, Updates
<1>4. CASE Bootstrap
  <2> DEFINE st(r) == [job.st EXCEPT !.push = r.push]
             ready(r) == [st(r) EXCEPT !.commit = Tip(tree.base)]
             asked == [job.st EXCEPT !.cur = "WAITING"]
  <2>1. PICK r \in Configured(job.st) :
          \/ job' = [job EXCEPT !.todo = <<"save">>, !.st = asked]
          \/ job' = [job EXCEPT !.todo = <<"save">>, !.st = st(r)]
          \/ \E steps : GoOn(steps, ready(r))
    BY <1>4 DEF Bootstrap
  <2>2. r.push \in Push
    <3>1. r.push \in {"pending", "skipped", job.st.push}
      <4>1. CASE remote.exists
        <5>1. r = [exists |-> TRUE,
                   push |-> IF job.st.push \in {"", "skipped"} THEN "pending"
                            ELSE job.st.push]
          BY <4>1 DEF Configured
        <5> QED BY <5>1
      <4>2. CASE ~remote.exists
        <5>1. \/ r = [exists |-> TRUE,
                      push |-> IF job.st.push = "" THEN "pending" ELSE job.st.push]
              \/ r = [exists |-> FALSE, push |-> "skipped"]
          BY <4>2 DEF Configured
        <5>2. CASE r = [exists |-> FALSE, push |-> "skipped"] BY <5>2
        <5>3. CASE r = [exists |-> TRUE,
                        push |-> IF job.st.push = "" THEN "pending" ELSE job.st.push]
          BY <5>3
        <5> QED BY <5>1, <5>2, <5>3
      <4> QED BY <4>1, <4>2
    <3>2. job.st.push \in Push BY <1>1 DEF State, Push
    <3> QED BY <3>1, <3>2 DEF Push
  <2>3. st(r) \in State /\ asked \in State BY <1>1, <1>2, <1>3, <2>2, Updates
  <2>4. Tip(tree.base) \in Sha BY Given, Branches
  <2> HIDE DEF st, asked
  <2>5. ready(r) \in State BY <2>3, <2>4, Updates
  <2> HIDE DEF ready
  <2>6. DOMAIN job = DOMAIN NoJob /\ "st" \in DOMAIN NoJob BY Given, CopyOK DEF NoJob
  <2>7. CASE \/ job' = [job EXCEPT !.todo = <<"save">>, !.st = asked]
             \/ job' = [job EXCEPT !.todo = <<"save">>, !.st = st(r)]
    <3>1. job'.st = asked \/ job'.st = st(r) BY <2>6, <2>7
    <3> QED BY <1>1, <2>3, <3>1 DEF StatesOK
  <2> QED BY <1>1, <2>1, <2>5, <2>7, GoesOn
<1>5. CASE SelectNone
  <2> DEFINE x == [job.st EXCEPT !.finished = TRUE]
             y == [x EXCEPT !.cur = "COMPLETED"]
  <2>1. GoOn(<<"deliver", "save">>, y) \/ GoOn(<< >>, job.st) BY <1>5 DEF SelectNone
  <2>2. x \in State BY <1>1, Updates
  <2> HIDE DEF x
  <2>3. y \in State BY <1>2, <2>2, Updates
  <2> HIDE DEF y
  <2> QED BY <1>1, <2>1, <2>3, GoesOn
<1>6. CASE SelectPhase
  <2> DEFINE p == Selected.phase
             branch == IF tree.branch THEN tree.feature ELSE tree[tree.head]
             x == [job.st EXCEPT !.cur = "PREPARED"]
             y == [x EXCEPT !.phase = p]
             z == [y EXCEPT !.branch = TRUE]
             w == [z EXCEPT !.commit = Tip(branch)]
  <2>1. \E steps : GoOn(steps, w) BY <1>6 DEF SelectPhase
  <2>2. p \in Phase \cup {NoPhase} BY Given, SelectedPhase
  <2>3. Tip(branch) \in Sha
    <3>1. branch \in SUBSET Sha BY Given DEF Branch
    <3> HIDE DEF branch
    <3> QED BY <3>1, Branches
  <2> HIDE DEF p, branch
  <2>4. x \in State BY <1>2, <1>3
  <2> HIDE DEF x
  <2>5. y \in State BY <2>2, <2>4, Updates
  <2> HIDE DEF y
  <2>6. z \in State BY <2>5, Updates
  <2> HIDE DEF z
  <2>7. w \in State BY <2>3, <2>6, Updates
  <2> HIDE DEF w
  <2> QED BY <1>1, <2>1, <2>7, GoesOn
<1> QED BY <1>4, <1>5, <1>6

\* What a command saves, or begins with, is of the type.
LEMMA StatesStep ==
  ASSUME WInv, Next, prs' \in Seq({"open", "merged", "closed"}), Len(prs') <= MaxPRs
  PROVE  StatesOK'
<1>1. job.st \in State /\ disk \in State /\ IInv /\ MaxPRs \in Nat
  BY Given, DeliveryAssumption
<1>2. ASSUME NEW steps, NEW st \in State, GoOn(steps, st) PROVE job'.st \in State
  BY <1>1, <1>2, GoOnType
<1>3. EmptyState \in State
  <2>1. 0 \in Sha /\ 0 \in 0 .. MaxPRs BY DeliveryAssumption DEF Sha
  <2> QED BY <2>1 DEF EmptyState, State
<1>4. NoJob.st \in State BY <1>3 DEF NoJob
<1>5. \A x \in Cur : [job.st EXCEPT !.cur = x] \in State BY <1>1, Updates
<1>6. \A x \in Cur : [disk EXCEPT !.cur = x] \in State BY <1>1, Updates
<1>7. \A x \in Push : [job.st EXCEPT !.push = x] \in State BY <1>1, Updates
<1>8. \A x \in MergeWord : [job.st EXCEPT !.merge = x] \in State BY <1>1, Updates
<1>9. CASE Deliver \/ MarkCompleted \/ OpenNone \/ DeleteRemote \/ DeleteLocal \/ ToBase \/ Back
  <2>1. disk' = disk /\ \E steps : GoOn(steps, job.st)
    BY <1>9 DEF Deliver, MarkCompleted, OpenNone, DeleteRemote, DeleteLocal, ToBase, Back
  <2> QED BY <1>1, <1>2, <2>1 DEF StatesOK
<1>10. CASE SaveState
  <2>1. disk' = job.st /\ GoOn(<< >>, job.st) BY <1>10 DEF SaveState
  <2> QED BY <1>1, <1>2, <2>1 DEF StatesOK
<1>11. CASE PushSucceeds
  <2>1. disk' = disk /\ GoOn(<< >>, [job.st EXCEPT !.push = "pushed"])
    BY <1>11 DEF PushSucceeds
  <2>2. [job.st EXCEPT !.push = "pushed"] \in State BY <1>7 DEF Push
  <2> QED BY <1>1, <1>2, <2>1, <2>2 DEF StatesOK
<1>12. CASE ReusePR \/ CreatePR
  <2>1. disk' = disk /\ \E n \in 0 .. MaxPRs : GoOn(<< >>, Known(job.st, n))
    <3>1. CASE ReusePR
      <4>1. PICK n \in Open : GoOn(<< >>, Known(job.st, n)) BY <3>1 DEF ReusePR
      <4>2. prs' = prs BY <3>1 DEF ReusePR
      <4>3. n \in 1 .. Len(prs) /\ Len(prs) \in Nat BY <4>2 DEF Open
      <4>4. n \in 0 .. MaxPRs BY <1>1, <4>2, <4>3
      <4> QED BY <3>1, <4>1, <4>4 DEF ReusePR
    <3>2. CASE CreatePR
      <4>1. Len(prs') \in 0 .. MaxPRs BY <1>1
      <4> QED BY <3>2, <4>1 DEF CreatePR
    <3> QED BY <1>12, <3>1, <3>2
  <2>2. PICK n \in 0 .. MaxPRs : GoOn(<< >>, Known(job.st, n)) BY <2>1
  <2>3. Known(job.st, n) \in State
    <3>1. "open" \in MergeWord BY DEF MergeWord
    <3> QED BY <1>1, <3>1, MergeType
  <2> QED BY <1>1, <1>2, <2>1, <2>2, <2>3 DEF StatesOK
<1>13. CASE MergePR
  <2> DEFINE a(to) == [job.st EXCEPT !.merge = to]
  <2>1. disk' = disk BY <1>13 DEF MergePR, MergeOr
  <2>2. \/ GoOn(CleanupSteps \o <<"save">>, a("merged"))
        \/ \E to \in {"waiting", job.st.merge} : GoOn(<<"save">>, a(to))
    BY <1>13 DEF MergePR, MergeOr
  <2>3. "merged" \in MergeWord /\ "waiting" \in MergeWord /\ job.st.merge \in MergeWord
    BY <1>1 DEF State, MergeWord
  <2>4. a("merged") \in State /\ a("waiting") \in State /\ a(job.st.merge) \in State
    BY <1>8, <2>3
  <2> HIDE DEF a
  <2> QED BY <1>1, <2>1, <2>2, <2>4, GoesOn
<1>14. CASE BootstrapDirty
  <2>1. disk' = job.st /\ (job' = NoJob \/ GoOn(<< >>, job.st)) BY <1>14 DEF BootstrapDirty
  <2> QED BY <1>1, <1>2, <1>4, <2>1 DEF StatesOK
<1>15. CASE Prepare \/ OpenMilestonePR \/ TryMerge
  <2>1. disk' = disk BY <1>15 DEF Prepare, OpenMilestonePR, TryMerge
  <2>2. PICK steps, merges : Start(steps, merges)
    BY <1>15 DEF Prepare, OpenMilestonePR, TryMerge
  <2>3. job'.st = disk BY <2>2 DEF Start
  <2> QED BY <1>1, <2>1, <2>3 DEF StatesOK
<1>16. CASE Verify \/ Repair \/ Resume
  <2>1. \E x \in Cur : disk' = [disk EXCEPT !.cur = x]
    <3>1. CASE Verify
      <4>1. (IF files.packet THEN "VERIFYING" ELSE "INCOMPLETE") \in Cur BY DEF Cur
      <4> QED BY <3>1, <4>1 DEF Verify
    <3>2. CASE Repair
      <4>1. "REPAIRING" \in Cur BY DEF Cur
      <4> QED BY <3>2, <4>1 DEF Repair
    <3>3. CASE Resume
      <4>1. (IF files.verified THEN "VERIFIED" ELSE "PREPARED") \in Cur BY DEF Cur
      <4> QED BY <3>3, <4>1 DEF Resume
    <3> QED BY <1>16, <3>1, <3>2, <3>3
  <2>2. disk' \in State BY <1>6, <2>1
  <2>3. job' = job \/ job'.st = disk' BY <1>16 DEF Verify, Repair, Resume
  <2> QED BY <1>1, <2>2, <2>3 DEF StatesOK
<1>17. CASE InspectChecks
  <2>1. job' = job /\ \/ disk' = disk
                      \/ disk' = Merge(disk, "checking") \/ disk' = Merge(disk, "open")
    BY <1>17 DEF InspectChecks
  <2>2. "checking" \in MergeWord /\ "open" \in MergeWord BY DEF MergeWord
  <2> QED BY <1>1, <2>1, <2>2, MergeType DEF StatesOK
<1>18. CASE Edit \/ Discard \/ Decide \/ ChecksEnd \/ Crash
  <2>1. disk' = disk /\ (job' = job \/ job' = NoJob)
    BY <1>18 DEF Edit, Discard, Decide, ChecksEnd, Crash
  <2> QED BY <1>1, <1>4, <2>1 DEF StatesOK
<1>19. CASE Checkpoint BY <1>1, <1>2, <1>19, CheckpointStates DEF StatesOK
<1>20. CASE PushLocked \/ Complete \/ ViewPR \/ Recover \/ Reconcile \/ Tests
  BY <1>20, CopiedStates DEF StatesOK
<1>21. CASE Bootstrap \/ SelectNone \/ SelectPhase BY <1>21, PreparedStates DEF StatesOK
<1> QED BY <1>9, <1>10, <1>11, <1>12, <1>13, <1>14, <1>15, <1>16, <1>17, <1>18, <1>19,
           <1>20, <1>21 DEF Next, Step

\* graph.json and the evidence are of the type.
LEMMA FilesStep ==
  ASSUME WInv, Next
  PROVE  files' \in [node : [Phase -> Status], packet : BOOLEAN, verified : BOOLEAN]
<1>1. files \in [node : [Phase -> Status], packet : BOOLEAN, verified : BOOLEAN] BY Given
<1>2. ASSUME NEW p, NEW s \in Status PROVE SetStatus(Deps, files.node, p, s) \in [Phase -> Status]
  <2>1. files.node \in [Phase -> Status] /\ [files.node EXCEPT ![p] = s] \in [Phase -> Status]
    BY <1>1, <1>2
  <2> QED BY <2>1, PassType DEF SetStatus
<1>3. ASSUME NEW p, NEW s \in Status, Mark(p, s)
      PROVE  files' \in [node : [Phase -> Status], packet : BOOLEAN, verified : BOOLEAN]
  <2> DEFINE node == SetStatus(Deps, files.node, p, s)
  <2>1. files' = [files EXCEPT !.node = node] BY <1>3 DEF Mark
  <2>2. node \in [Phase -> Status] BY <1>2, <1>3
  <2> HIDE DEF node
  <2> QED BY <1>1, <2>1, <2>2
<1>4. {"WAITING_FOR_HUMAN", "COMPLETED", "RUNNING"} \subseteq Status BY DEF Status
<1>5. CASE PushLocked \/ MarkCompleted \/ Bootstrap
  <2>1. files' = files \/ \E p : Mark(p, "WAITING_FOR_HUMAN") \/ Mark(p, "COMPLETED")
    BY <1>5 DEF PushLocked, MarkCompleted, Bootstrap
  <2> QED BY <1>1, <1>3, <1>4, <2>1
<1>6. CASE SelectNone
  <2>1. files' = files \/ files' = [files EXCEPT !.packet = FALSE, !.verified = FALSE]
    BY <1>6 DEF SelectNone
  <2> QED BY <1>1, <2>1
<1>7. CASE SelectPhase
  <2> DEFINE node == SetStatus(Deps, files.node, Selected.phase, "RUNNING")
             packet == ~tree.dirty
  <2>1. files' = [node |-> node, packet |-> packet, verified |-> FALSE]
    BY <1>7 DEF SelectPhase
  <2>2. node \in [Phase -> Status] /\ packet \in BOOLEAN BY <1>2, <1>4
  <2> HIDE DEF node, packet
  <2> QED BY <2>1, <2>2
<1>8. CASE Tests
  <2>1. \E pass \in BOOLEAN : files' = [files EXCEPT !.verified = pass] BY <1>8 DEF Tests
  <2> QED BY <1>1, <2>1
<1>9. CASE ~(PushLocked \/ MarkCompleted \/ Bootstrap \/ SelectNone \/ SelectPhase \/ Tests)
  <2>1. files' = files
    BY <1>9 DEF Next, Step, SaveState, Checkpoint, PushSucceeds, Deliver, Complete, OpenNone,
       ReusePR, CreatePR, ViewPR, MergePR, MergeOr, DeleteRemote, DeleteLocal, ToBase, Back,
       Recover, Reconcile, BootstrapDirty, Prepare, Verify, Repair, Resume, OpenMilestonePR,
       TryMerge, InspectChecks, Edit, Discard, Decide, ChecksEnd, Crash
  <2> QED BY <1>1, <2>1
<1> QED BY <1>5, <1>6, <1>7, <1>8, <1>9

Tree == [head : Branch, dirty : BOOLEAN, branch : BOOLEAN,
         base : SUBSET Sha, feature : SUBSET Sha]
Remote == [exists : BOOLEAN, refs : SUBSET Branch, base : SUBSET Sha, feature : SUBSET Sha]

\* The local repository is of the type, and there is room for the work of a dirty
\* tree.
LEMMA TreeStep ==
  ASSUME WInv, Next
  PROVE  tree' \in Tree /\ made' \in [Phase -> SUBSET Commit] /\ Room'
<1>1. /\ tree \in Tree /\ remote \in Remote /\ made \in [Phase -> SUBSET Commit] /\ Room
      /\ {"base", "feature"} \subseteq Branch
  BY Given DEF Tree, Remote, WInv, TypesOK, Branch
<1>2. ASSUME NEW h \in Branch, NEW t \in Tree
      PROVE  [t EXCEPT !.head = h] \in Tree /\ t[h] \in SUBSET Sha
  BY <1>2 DEF Tree, Branch
<1>3. CASE Checkpoint
  <2> DEFINE c == Cardinality(UNION {made[p] : p \in Phase}) + 1
             clean == [tree EXCEPT !.dirty = FALSE]
             b == tree[tree.head] \cup {c}
             p == job.st.phase
  <2>1. CASE tree.dirty
    <3>1. tree' = [clean EXCEPT ![tree.head] = b] /\ made' = [made EXCEPT ![p] = @ \cup {c}]
      BY <1>3, <2>1 DEF Checkpoint
    <3>2. c \in Commit /\ c \in Sha
      <4>1. Cardinality(UNION {made[q] : q \in Phase}) < MaxCommits BY <1>1, <2>1 DEF Room
      <4> QED BY <1>1, <4>1, NextCommit
    <3> HIDE DEF c
    <3>3. b \in SUBSET Sha BY <1>1, <3>2 DEF Tree, Branch
    <3> HIDE DEF b
    <3>4. clean \in Tree /\ tree.head \in Branch /\ ~clean.dirty BY <1>1 DEF Tree
    <3> HIDE DEF clean
    <3>5. tree' \in Tree /\ ~tree'.dirty BY <3>1, <3>3, <3>4 DEF Tree, Branch
    <3>6. p \in Phase
      <4>1. job.todo # << >> /\ Head(job.todo) \in Working BY <1>3 DEF Checkpoint, At, Working
      <4> QED BY <4>1, WorkingPhase
    <3> HIDE DEF p
    <3>7. made' \in [Phase -> SUBSET Commit]
      <4>1. made[p] \cup {c} \in SUBSET Commit BY <1>1, <3>2, <3>6
      <4> QED BY <1>1, <3>1, <4>1
    <3> QED BY <3>5, <3>7 DEF Room
  <2>2. CASE ~tree.dirty
    <3>1. tree' = tree /\ made' = made BY <1>3, <2>2 DEF Checkpoint
    <3> QED BY <1>1, <3>1 DEF Room
  <2> QED BY <2>1, <2>2
<1>4. ASSUME made' = made, tree' \in Tree, tree'.dirty => tree.dirty
      PROVE  tree' \in Tree /\ made' \in [Phase -> SUBSET Commit] /\ Room'
  BY <1>1, <1>4 DEF Room
<1>5. CASE DeleteLocal
  <2>1. tree' = tree \/ tree' = [tree EXCEPT !.branch = FALSE, !.feature = {}]
    BY <1>5 DEF DeleteLocal
  <2>2. tree' \in Tree /\ tree'.dirty = tree.dirty BY <1>1, <2>1 DEF Tree
  <2> QED BY <1>4, <1>5, <2>2 DEF DeleteLocal
<1>6. CASE ToBase \/ Back \/ Bootstrap
  <2>1. PICK b \in {tree.base, remote.base}, h \in Branch \cup {tree.head} :
          tree' = [tree EXCEPT !.head = h, !.base = b]
    <3>1. CASE ToBase
      <4>1. \/ tree' = tree
            \/ tree' = [tree EXCEPT !.head = "base", !.base = remote.base]
            \/ tree' = [tree EXCEPT !.head = "base"]
        BY <3>1 DEF ToBase
      <4>2. tree = [tree EXCEPT !.head = tree.head, !.base = tree.base] BY <1>1 DEF Tree
      <4>3. \A h \in Branch : [tree EXCEPT !.head = h] = [tree EXCEPT !.head = h, !.base = tree.base]
        BY <1>1 DEF Tree
      <4> QED BY <1>1, <4>1, <4>2, <4>3
    <3>2. CASE Back \/ Bootstrap
      <4>1. \E h \in Branch : tree' = [tree EXCEPT !.head = h] BY <1>1, <3>2 DEF Back, Bootstrap
      <4>2. \A h \in Branch : [tree EXCEPT !.head = h] = [tree EXCEPT !.head = h, !.base = tree.base]
        BY <1>1 DEF Tree
      <4> QED BY <4>1, <4>2
    <3> QED BY <1>6, <3>1, <3>2
  <2>2. b \in SUBSET Sha /\ h \in Branch BY <1>1 DEF Tree, Remote
  <2>3. tree' \in Tree /\ tree'.dirty = tree.dirty BY <1>1, <2>1, <2>2 DEF Tree
  <2> QED BY <1>4, <1>6, <2>3 DEF ToBase, Back, Bootstrap
<1>7. CASE SelectPhase
  <2> DEFINE branch == IF tree.branch THEN tree.feature ELSE tree[tree.head]
  <2>1. /\ tree' = [tree EXCEPT !.head = "feature", !.branch = TRUE, !.feature = branch]
        /\ made' = made
    BY <1>7 DEF SelectPhase
  <2>2. branch \in SUBSET Sha BY <1>1 DEF Tree, Branch
  <2> HIDE DEF branch
  <2>3. tree' \in Tree /\ tree'.dirty = tree.dirty BY <1>1, <2>1, <2>2 DEF Tree
  <2> QED BY <1>4, <2>1, <2>3
<1>8. CASE Edit \/ Discard
  <2>1. PICK x \in BOOLEAN : /\ tree' = [tree EXCEPT !.dirty = x]
                             /\ x => Cardinality(UNION {made[p] : p \in Phase}) < MaxCommits
    BY <1>8 DEF Edit, Discard
  <2>2. tree' \in Tree /\ tree'.dirty = x BY <1>1, <2>1 DEF Tree
  <2>3. made' = made BY <1>8 DEF Edit, Discard
  <2> QED BY <1>1, <2>1, <2>2, <2>3 DEF Room
<1>9. CASE ~(Checkpoint \/ DeleteLocal \/ ToBase \/ Back \/ Bootstrap \/ SelectPhase
             \/ Edit \/ Discard)
  <2>1. tree' = tree /\ made' = made
    BY <1>9 DEF Next, Step, SaveState, PushSucceeds, PushLocked, Deliver, MarkCompleted,
       Complete, OpenNone, ReusePR, CreatePR, ViewPR, MergePR, MergeOr, DeleteRemote,
       Recover, Reconcile, BootstrapDirty, SelectNone, Tests, Prepare, Verify, Repair,
       Resume, OpenMilestonePR, TryMerge, InspectChecks, Decide, ChecksEnd, Crash
  <2> QED BY <1>1, <1>4, <2>1
<1> QED BY <1>3, <1>5, <1>6, <1>7, <1>8, <1>9

\* GitHub's branches are of the type, and its open pull requests have work.
LEMMA RemoteStep ==
  ASSUME WInv, Next, prs' \in Seq({"open", "merged", "closed"})
  PROVE  remote' \in Remote /\ OpenHasWork' /\ FewPRs'
<1>1. /\ tree \in Tree /\ remote \in Remote /\ OpenHasWork /\ FewPRs
      /\ prs \in Seq({"open", "merged", "closed"})
      /\ {"base", "feature"} \subseteq Branch
  BY Given DEF Tree, Remote, WInv, TypesOK, Branch, IInv
<1>2. ASSUME remote' \in Remote, DOMAIN prs' = DOMAIN prs,
             Open' \subseteq Open, Open' # {} => remote'.feature # {} \/ remote.feature = {}
      PROVE  remote' \in Remote /\ OpenHasWork' /\ FewPRs'
  <2>1. Len(prs') = Len(prs)
    <3>1. DOMAIN prs = 1 .. Len(prs) /\ DOMAIN prs' = 1 .. Len(prs')
          /\ Len(prs) \in Nat /\ Len(prs') \in Nat
      BY <1>1
    <3> QED BY <1>2, <3>1
  <2> QED BY <1>1, <1>2, <2>1 DEF OpenHasWork, FewPRs
<1>3. CASE PushSucceeds
  <2>1. prs' = prs BY <1>3 DEF PushSucceeds
  <2>2. Open' = Open BY <2>1 DEF Open
  <2>3. CASE job.st.branch
    <3>1. /\ remote.feature \subseteq tree.feature
          /\ remote' = [remote EXCEPT !.refs = remote.refs \cup {"feature"}, !.feature = tree.feature]
      BY <1>3, <2>3 DEF PushSucceeds, Send
    <3>2. remote' \in Remote BY <1>1, <3>1 DEF Remote, Tree
    <3>3. remote'.feature = tree.feature BY <1>1, <3>1 DEF Remote
    <3> QED BY <1>2, <2>1, <2>2, <3>1, <3>2, <3>3
  <2>4. CASE ~job.st.branch
    <3>1. remote' = [remote EXCEPT !.refs = remote.refs \cup {"base"}, !.base = tree.base]
      BY <1>3, <2>4 DEF PushSucceeds, Send
    <3>2. remote' \in Remote /\ remote'.feature = remote.feature
      BY <1>1, <3>1 DEF Remote, Tree
    <3> QED BY <1>2, <2>1, <2>2, <3>2
  <2> QED BY <2>3, <2>4
<1>4. CASE CreatePR
  <2>1. /\ remote' = remote /\ prs' = Append(prs, "open") /\ Len(prs) < MaxPRs
        /\ remote.feature # {}
    BY <1>4 DEF CreatePR
  <2>2. Len(prs') = Len(prs) + 1 /\ Len(prs) \in Nat BY <1>1, <2>1
  <2>3. Len(prs') <= MaxPRs BY <2>1, <2>2, DeliveryAssumption
  <2> QED BY <1>1, <2>1, <2>3 DEF OpenHasWork, FewPRs
<1>5. remote.feature # {} => Merged \in Remote /\ Merged.feature = remote.feature
  <2> DEFINE new == remote.feature \ remote.base
             x == IF config.squash THEN {-Distance(c) : c \in new}
                  ELSE new \cup {-Max(Work(remote.feature))}
             base == remote.base \cup x
  <2>1. Merged = [remote EXCEPT !.base = base] BY DEF Merged
  <2>2. CASE remote.feature # {}
    <3>1. new \in SUBSET Sha /\ remote.feature \in SUBSET Sha /\ remote.base \in SUBSET Sha
      BY <1>1 DEF Remote
    <3> HIDE DEF new
    <3>2. x \in SUBSET Sha BY <2>2, <3>1, MergesCommits
    <3> HIDE DEF x
    <3>3. base \in SUBSET Sha BY <3>1, <3>2
    <3> HIDE DEF base
    <3> QED BY <1>1, <2>1, <3>3 DEF Remote
  <2> QED BY <2>2
<1>6. ASSUME NEW n \in Open, prs' = [prs EXCEPT ![n] = "merged"], remote' = Merged
      PROVE  remote' \in Remote /\ OpenHasWork' /\ FewPRs'
  <2>1. remote.feature # {} BY <1>1, <1>6 DEF OpenHasWork
  <2>2. remote' \in Remote /\ remote'.feature = remote.feature BY <1>5, <1>6, <2>1
  <2>3. DOMAIN prs' = DOMAIN prs /\ Open' \subseteq Open BY <1>6 DEF Open
  <2> QED BY <1>2, <2>2, <2>3
<1>7. CASE MergePR
  <2>1. \/ remote' = remote /\ prs' = prs
        \/ /\ prs[job.st.pr] = "open"
           /\ prs' = [prs EXCEPT ![job.st.pr] = "merged"] /\ remote' = Merged
    BY <1>7 DEF MergePR, MergeOr
  <2>2. CASE remote' = remote /\ prs' = prs
    <3>1. Open' = Open BY <2>2 DEF Open
    <3> QED BY <1>1, <1>2, <2>2, <3>1
  <2>3. CASE /\ prs[job.st.pr] = "open"
             /\ prs' = [prs EXCEPT ![job.st.pr] = "merged"] /\ remote' = Merged
    <3>1. job.st.pr \in Open
      <4>1. job.st.pr = 0 \/ job.st.pr \in DOMAIN prs BY DEF WInv, IInv, JobOK, IsState
      <4>2. job.st.pr # 0
        <5>1. job.todo \in Steps /\ job.todo # << >> /\ Head(job.todo) = "merge pr"
          BY <1>7 DEF WInv, IInv, JobOK, MergePR, MergeOr, At
        <5>2. ~None(job.todo, {"merge pr"}) BY <5>1, NoneHead
        <5> QED BY <5>2 DEF WInv, IInv, JobOK
      <4> QED BY <2>3, <4>1, <4>2 DEF Open
    <3> QED BY <1>6, <2>3, <3>1
  <2> QED BY <2>1, <2>2, <2>3
<1>8. CASE Decide
  <2>1. PICK n \in Open :
          \/ prs' = [prs EXCEPT ![n] = "merged"] /\ remote' = Merged
          \/ prs' = [prs EXCEPT ![n] = "closed"] /\ remote' = remote
    BY <1>8 DEF Decide
  <2>2. CASE prs' = [prs EXCEPT ![n] = "closed"] /\ remote' = remote
    <3>1. DOMAIN prs' = DOMAIN prs /\ Open' \subseteq Open BY <2>2 DEF Open
    <3> QED BY <1>1, <1>2, <2>2, <3>1
  <2> QED BY <1>6, <2>1, <2>2
<1>9. CASE DeleteRemote
  <2>1. \/ /\ remote' = [remote EXCEPT !.refs = remote.refs \ {"feature"}, !.feature = {}]
           /\ prs' = [n \in DOMAIN prs |-> IF n \in Open THEN "closed" ELSE prs[n]]
        \/ remote' = remote /\ prs' = prs
    BY <1>9 DEF DeleteRemote
  <2>2. CASE remote' = remote /\ prs' = prs
    <3>1. Open' = Open BY <2>2 DEF Open
    <3> QED BY <1>1, <1>2, <2>2, <3>1
  <2>3. CASE /\ remote' = [remote EXCEPT !.refs = remote.refs \ {"feature"}, !.feature = {}]
             /\ prs' = [n \in DOMAIN prs |-> IF n \in Open THEN "closed" ELSE prs[n]]
    <3>1. remote' \in Remote BY <1>1, <2>3 DEF Remote
    <3>2. DOMAIN prs' = DOMAIN prs BY <2>3
    <3>3. Open' = {} BY <2>3 DEF Open
    <3> QED BY <1>2, <3>1, <3>2, <3>3
  <2> QED BY <2>1, <2>2, <2>3
<1>10. CASE Bootstrap
  <2>1. prs' = prs BY <1>10 DEF Bootstrap
  <2>2. PICK x \in BOOLEAN : remote' = [remote EXCEPT !.exists = x]
    <3>1. ASSUME NEW r \in Configured(job.st) PROVE r.exists \in BOOLEAN
      <4>1. \E push : \/ r = [exists |-> TRUE, push |-> push]
                      \/ r = [exists |-> FALSE, push |-> push]
        BY DEF Configured
      <4>2. PICK push : \/ r = [exists |-> TRUE, push |-> push]
                        \/ r = [exists |-> FALSE, push |-> push]
        BY <4>1
      <4>3. CASE r = [exists |-> TRUE, push |-> push] BY <4>3
      <4>4. CASE r = [exists |-> FALSE, push |-> push] BY <4>4
      <4> QED BY <4>2, <4>3, <4>4
    <3>2. \E r \in Configured(job.st) : remote' = [remote EXCEPT !.exists = r.exists]
      BY <1>10 DEF Bootstrap
    <3> QED BY <3>1, <3>2
  <2>3. remote' \in Remote /\ remote'.feature = remote.feature BY <1>1, <2>2 DEF Remote
  <2>4. Open' = Open BY <2>1 DEF Open
  <2> QED BY <1>2, <2>1, <2>3, <2>4
<1>11. CASE ~(PushSucceeds \/ CreatePR \/ MergePR \/ Decide \/ DeleteRemote \/ Bootstrap)
  <2>1. remote' = remote /\ prs' = prs
    BY <1>11 DEF Next, Step, SaveState, Checkpoint, PushLocked, Deliver, MarkCompleted,
       Complete, OpenNone, ReusePR, ViewPR, DeleteLocal, ToBase, Back, Recover, Reconcile,
       BootstrapDirty, SelectNone, SelectPhase, Tests, Prepare, Verify, Repair, Resume,
       OpenMilestonePR, TryMerge, InspectChecks, Edit, Discard, ChecksEnd, Crash
  <2>2. Open' = Open BY <2>1 DEF Open
  <2> QED BY <1>1, <1>2, <2>1, <2>2
<1> QED BY <1>3, <1>4, <1>7, <1>8, <1>9, <1>10, <1>11

\* The checks and the count of crashes are of the type, the configuration stays.
LEMMA RestStep ==
  ASSUME TypeOK, Next
  PROVE  /\ config' \in Configs /\ ci' \in {"pending", "pass", "fail"}
         /\ crashes' \in 0 .. MaxCrashes
<1>1. config \in Configs /\ ci \in {"pending", "pass", "fail"} /\ crashes \in 0 .. MaxCrashes
  BY DEF TypeOK
<1>2. CASE PushSucceeds
  <2>1. ci' = ci \/ ci' = "pending" BY <1>2 DEF PushSucceeds, Send
  <2> QED BY <1>1, <1>2, <2>1 DEF PushSucceeds
<1>3. CASE ChecksEnd BY <1>1, <1>3 DEF ChecksEnd
<1>4. CASE Crash
  <2>1. crashes' \in 0 .. MaxCrashes BY <1>1, <1>4, DeliveryAssumption DEF Crash
  <2> QED BY <1>1, <1>4, <2>1 DEF Crash
<1>5. CASE ~(PushSucceeds \/ ChecksEnd \/ Crash)
  <2>1. config' = config /\ ci' = ci /\ crashes' = crashes
    BY <1>5 DEF Next, Step, SaveState, Checkpoint, PushLocked, Deliver, MarkCompleted,
       Complete, OpenNone, ReusePR, CreatePR, ViewPR, MergePR, MergeOr, DeleteRemote,
       DeleteLocal, ToBase, Back, Recover, Reconcile, BootstrapDirty, Bootstrap, SelectNone,
       SelectPhase, Tests, Prepare, Verify, Repair, Resume, OpenMilestonePR, TryMerge,
       InspectChecks, Edit, Discard, Decide
  <2> QED BY <1>1, <2>1
<1> QED BY <1>2, <1>3, <1>4, <1>5

-----------------------------------------------------------------------------
\* The invariant is one

\* The work of every action.
LEMMA WorkStep == WInv /\ Next => WorkOK'
<1> SUFFICES ASSUME WInv, Next PROVE WorkOK' OBVIOUS
<1>1. CASE \/ PushSucceeds \/ Deliver \/ MarkCompleted \/ OpenNone \/ ReusePR
           \/ CreatePR \/ DeleteRemote \/ DeleteLocal \/ ToBase \/ Back
  BY <1>1, PlainWork
<1>2. CASE MergePR \/ Reconcile BY <1>2, MergeWork
<1>3. CASE Checkpoint BY <1>3, CheckpointWork
<1>4. CASE SaveState \/ ViewPR \/ Complete BY <1>4, SavedWork
<1>5. CASE PushLocked BY <1>5, PushWork
<1>6. CASE Recover BY <1>6, RecoverWork
<1>7. CASE Tests BY <1>7, TestsWork
<1>8. CASE SelectNone \/ SelectPhase BY <1>8, ChoiceWork
<1>9. CASE BootstrapDirty \/ Bootstrap BY <1>9, BootstrapWork
<1>10. CASE \/ Prepare \/ Verify \/ Repair \/ Resume
            \/ OpenMilestonePR \/ TryMerge \/ InspectChecks
  BY <1>10, CommandWork
<1>11. CASE Edit \/ Discard \/ Decide \/ ChecksEnd \/ Crash BY <1>11, WorldWork
<1> QED BY <1>1, <1>2, <1>3, <1>4, <1>5, <1>6, <1>7, <1>8, <1>9, <1>10, <1>11 DEF Next, Step

\* It holds at first.
LEMMA WInvInit == Init => WInv
<1> SUFFICES ASSUME Init PROVE WInv OBVIOUS
<1>1. IInv BY IInvInit
<1>2. MaxCommits \in Nat \ {0} /\ MaxPRs \in Nat /\ MaxCrashes \in Nat
  BY DeliveryAssumption
<1>3. EmptyState \in State
  <2>1. 0 \in Sha /\ 0 \in 0 .. MaxPRs BY <1>2 DEF Sha
  <2> QED BY <2>1 DEF EmptyState, State
<1>4. files \in [node : [Phase -> Status], packet : BOOLEAN, verified : BOOLEAN]
  <2> DEFINE pending == [p \in Phase |-> "PENDING"]
             node == Refresh(Deps, pending)
  <2>1. files = [node |-> node, packet |-> FALSE, verified |-> FALSE] BY DEF Init
  <2>2. pending \in [Phase -> Status] BY DEF Status
  <2> HIDE DEF pending
  <2>3. node \in [Phase -> Status] BY <2>2, PassType
  <2> HIDE DEF node
  <2> QED BY <2>1, <2>3
<1>5. TypeOK
  <2>1. /\ tree \in [head : Branch, dirty : BOOLEAN, branch : BOOLEAN,
                     base : SUBSET Sha, feature : SUBSET Sha]
        /\ remote \in [exists : BOOLEAN, refs : SUBSET Branch,
                       base : SUBSET Sha, feature : SUBSET Sha]
    BY DEF Init, Branch
  <2>2. job.st \in State /\ disk \in State BY <1>3 DEF Init, NoJob
  <2>3. crashes \in 0 .. MaxCrashes /\ made \in [Phase -> SUBSET Commit] BY <1>2 DEF Init
  <2>4. prs = << >> /\ ci = "pending" /\ config \in Configs BY DEF Init
  <2> QED BY <1>4, <2>1, <2>2, <2>3, <2>4 DEF TypeOK
<1>6. Room /\ OpenHasWork /\ FewPRs BY <1>2 DEF Init, Room, OpenHasWork, FewPRs, Open
<1>7. WorkOK
  <2>1. job = NoJob /\ ~files.verified /\ disk.cur = "" BY DEF Init, EmptyState
  <2>2. FilesOK(disk, files, tree, made) BY <2>1 DEF FilesOK
  <2> QED BY <2>1, <2>2, IdleCoherent DEF WorkOK
<1> QED BY <1>1, <1>5, <1>6, <1>7 DEF WInv, TypesOK

\* And every step keeps it.
LEMMA WInvStep == WInv /\ [Next]_vars => WInv'
<1> SUFFICES ASSUME WInv, [Next]_vars PROVE WInv' OBVIOUS
<1>1. IInv' /\ prs' \in Seq({"open", "merged", "closed"})
  <2>1. IInv' BY IInvStep DEF WInv
  <2> QED BY <2>1 DEF IInv
<1>2. CASE Next
  <2>1. WorkOK' BY <1>2, WorkStep
  <2>2. files' \in [node : [Phase -> Status], packet : BOOLEAN, verified : BOOLEAN]
    BY <1>2, FilesStep
  <2>3. tree' \in Tree /\ made' \in [Phase -> SUBSET Commit] /\ Room' BY <1>2, TreeStep
  <2>4. remote' \in Remote /\ OpenHasWork' /\ FewPRs' BY <1>1, <1>2, RemoteStep
  <2>5. StatesOK' BY <1>1, <1>2, <2>4, StatesStep DEF FewPRs
  <2>6. /\ config' \in Configs /\ ci' \in {"pending", "pass", "fail"}
        /\ crashes' \in 0 .. MaxCrashes
    BY <1>2, RestStep DEF WInv, TypesOK
  <2>7. \A n \in DOMAIN prs' : prs'[n] \in {"open", "merged", "closed"} BY <1>1
  <2>8. TypeOK' BY <2>2, <2>3, <2>4, <2>5, <2>6, <2>7 DEF TypeOK, StatesOK, Tree, Remote
  <2> QED BY <1>1, <2>1, <2>3, <2>4, <2>8 DEF WInv, TypesOK
<1>3. CASE UNCHANGED vars
  BY <1>1, <1>3 DEF vars, WInv, TypesOK, TypeOK, Room, OpenHasWork, FewPRs, WorkOK, Open
<1> QED BY <1>2, <1>3

-----------------------------------------------------------------------------
\* The theorems

\* state.json and graph.json, the repository here and on GitHub and its pull
\* requests keep to their types: a checkpoint always has a phase to be of, a pull
\* request that merges has work to merge.
THEOREM DeliveryTypeCorrect == Spec => []TypeOK
<1>1. WInv => TypeOK BY DEF WInv, TypesOK
<1> QED BY <1>1, WInvInit, WInvStep, PTL DEF Spec

\* A pass completes nothing, nor does a mark of another kind.
LEMMA CompletesNothing ==
  ASSUME NEW n \in [Phase -> Status], NEW q, NEW s, s # "COMPLETED",
         NEW p \in Phase, n[p] # "COMPLETED"
  PROVE  SetStatus(Deps, n, q, s)[p] # "COMPLETED"
<1>1. CASE q \notin Phase BY <1>1 DEF SetStatus
<1>2. CASE q \in Phase
  <2> DEFINE m == [n EXCEPT ![q] = s]
  <2>1. DOMAIN m = Phase /\ m[p] # "COMPLETED" /\ DOMAIN n = Phase BY <1>2
  <2> HIDE DEF m
  <2>2. Refresh(Deps, m)[p] # "COMPLETED" BY <2>1, PassKeeps
  <2> QED BY <1>2, <2>1, <2>2 DEF SetStatus, m
<1> QED BY <1>1, <1>2

\* A phase is completed with its work in commits (complete.go completeLocked).
LEMMA CompletesWork ==
  ASSUME WInv, [Next]_vars, NEW p \in Phase,
         files.node[p] # "COMPLETED", files'.node[p] = "COMPLETED"
  PROVE  ~tree.dirty /\ made[p] # {}
<1>1. files.node \in [Phase -> Status] BY Given
<1>2. ASSUME NEW q, NEW s, s # "COMPLETED", files'.node = SetStatus(Deps, files.node, q, s)
      PROVE  FALSE
  BY <1>1, <1>2, CompletesNothing
<1>3. ASSUME NEW q, NEW s, s # "COMPLETED", Mark(q, s) PROVE FALSE
  <2> DEFINE node == SetStatus(Deps, files.node, q, s)
  <2>1. files' = [files EXCEPT !.node = node] BY <1>3 DEF Mark
  <2> HIDE DEF node
  <2>2. files'.node = node BY <2>1, Given
  <2> QED BY <1>2, <1>3, <2>2 DEF node
<1>4. files'.node # files.node OBVIOUS
<1>5. MarkCompleted
  <2>1. CASE PushLocked \/ Bootstrap
    <3>1. files' = files \/ \E q : Mark(q, "WAITING_FOR_HUMAN")
      BY <2>1 DEF PushLocked, Bootstrap
    <3> QED BY <1>3, <1>4, <3>1
  <2>2. CASE SelectPhase
    <3>1. files'.node = SetStatus(Deps, files.node, Selected.phase, "RUNNING")
      BY <2>2 DEF SelectPhase
    <3> QED BY <1>2, <3>1
  <2>3. CASE SelectNone
    <3>1. files' = files \/ files' = [files EXCEPT !.packet = FALSE, !.verified = FALSE]
      BY <2>3 DEF SelectNone
    <3> QED BY <1>4, <3>1, Given
  <2>4. CASE Tests
    <3>1. \E pass \in BOOLEAN : files' = [files EXCEPT !.verified = pass] BY <2>4 DEF Tests
    <3> QED BY <1>4, <3>1, Given
  <2>5. CASE UNCHANGED vars BY <1>4, <2>5 DEF vars
  <2>6. CASE ~(PushLocked \/ Bootstrap \/ SelectNone \/ SelectPhase \/ Tests \/ UNCHANGED vars)
    <3>1. files' = files \/ MarkCompleted
      BY <2>6 DEF Next, Step, SaveState, Checkpoint, PushSucceeds, Deliver, Complete, OpenNone,
         ReusePR, CreatePR, ViewPR, MergePR, MergeOr, DeleteRemote, DeleteLocal, ToBase, Back,
         Recover, Reconcile, BootstrapDirty, Prepare, Verify, Repair, Resume, OpenMilestonePR,
         TryMerge, InspectChecks, Edit, Discard, Decide, ChecksEnd, Crash
    <3> QED BY <1>4, <3>1
  <2> QED BY <2>1, <2>2, <2>3, <2>4, <2>5, <2>6
<1>6. job.todo # << >> /\ Head(job.todo) = "graph" BY <1>5 DEF MarkCompleted, At
<1>7. files.verified /\ job.st.phase = disk.phase /\ disk.phase \in Phase
  BY <1>6, WorkingPhase DEF Working
<1>8. p = disk.phase
  <2> SUFFICES ASSUME p # disk.phase PROVE FALSE OBVIOUS
  <2> DEFINE m == [files.node EXCEPT ![disk.phase] = "COMPLETED"]
             node == SetStatus(Deps, files.node, disk.phase, "COMPLETED")
  <2>1. files' = [files EXCEPT !.node = node] BY <1>5, <1>7 DEF MarkCompleted, Mark
  <2>2. node = Refresh(Deps, m) BY <1>1, <1>7 DEF SetStatus
  <2>3. DOMAIN m = Phase /\ m[p] # "COMPLETED" BY <1>1
  <2> HIDE DEF m, node
  <2>4. files'.node = node BY <2>1, Given
  <2> QED BY <2>2, <2>3, <2>4, PassKeeps
<1>9. ~tree.dirty
  <2>1. job.todo \in Steps BY DEF WInv, WorkOK, PlanOK
  <2> QED BY <1>6, <2>1, PrecededTail, Given DEF Coherent
<1>10. made[disk.phase] # {} BY <1>7, <1>9, Given DEF FilesOK
<1> QED BY <1>8, <1>9, <1>10

\* However a delivery is interrupted, refused or taken up again, and whoever
\* completes the phase, its work is in commits by then and none of it in the
\* working tree alone (complete.go completeLocked, recover.go recoverLocked).
THEOREM CompletedWorkIsCommitted == Spec => CompletesCommitted
<1>1. WInv /\ [Next]_vars =>
        [\A p \in Phase : files.node[p] # "COMPLETED" /\ files'.node[p] = "COMPLETED"
            => ~tree.dirty /\ made[p] # {}]_vars
  BY CompletesWork
<1> QED BY <1>1, WInvInit, WInvStep, PTL DEF Spec, CompletesCommitted
=============================================================================
