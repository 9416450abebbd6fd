---------------------------- MODULE Intake_proofs ----------------------------
(***************************************************************************)
(* Proofs about the PRD's way through the engine, for every set of         *)
(* documents, products and calls and any number of edits.                  *)
(*                                                                         *)
(* What prdpr verify's verdict means: the verdict is a function of a       *)
(* packet, and that a packet is the planner's for its document is          *)
(* inductive.                                                              *)
(*                                                                         *)
(* What prepare does while the graph changes under it: TypeOK,             *)
(* StartsInOrder, CompletedSurvivesEdits and PacketsAreSound, from IInv.   *)
(***************************************************************************)
EXTENDS Intake, PhaseGraph_proofs, TLAPS

\* Finalize (internal/testeng): VERIFIED needs passing tests, no check with a bad
\* outcome, and the confirmation when something is left to a human.
LEMMA FinalVerdict ==
  ASSUME NEW outcomes, NEW confirmed \in BOOLEAN, NEW testsPass \in BOOLEAN
  PROVE  Finalize(outcomes, testsPass, confirmed) = "VERIFIED" <=>
           /\ testsPass
           /\ {"timeout", "error", "fail"} \cap outcomes = {}
           /\ "manual" \in outcomes => confirmed
BY DEF Finalize

\* What each kind of check comes to in a product whose tests pass: the checks
\* mapped to tests pass with them, the others look for their own evidence.
LEMMA OutcomeWhenTestsPass ==
  ASSUME NEW product \in Product, product.tests = "pass", NEW check
  PROVE  /\ check \in {"go test", "test id", "dod"} => Outcome(check, product) = "pass"
         /\ check = "file" => (Outcome(check, product) = IF product.files THEN "pass" ELSE "fail")
         /\ check = "file outside" => Outcome(check, product) = "fail"
         /\ check = "symbol" => (Outcome(check, product) = "pass" <=> product.symbol = "present")
         /\ check = "symbol" => Outcome(check, product) \in {"pass", "fail", "error"}
         /\ check = "acceptance" => Outcome(check, product) = "manual"
BY DEF Outcome, Mapped

\* The texts a phase of a document is checked by: those of its criteria and its
\* definitions of done that say something.
Texts(doc, p) ==
  {TextOf(doc.acs, a) : a \in ToSet(PhaseOf(doc, p).acs)}
    \cup (ToSet(PhaseOf(doc, p).dod) \ {{}})

\* The planner loses none of these texts and adds none: the plan of a packet has
\* the checks of exactly the phase's texts.
LEMMA PacketTexts ==
  ASSUME NEW doc, NEW p, NEW c
  PROVE  (\/ c \in {CriterionCheck(Packet(doc, p).acs[i].text, TRUE) : i \in DOMAIN Packet(doc, p).acs}
          \/ c \in {CriterionCheck(text, TRUE) : text \in ToSet(Packet(doc, p).dod) \ {{}}})
         <=> \E text \in Texts(doc, p) : c = CriterionCheck(text, TRUE)
BY DEF Texts, Packet, Lookup, ToSet

\* Every kind of check a plan may have in a Go project.
Kinds == {"go test", "test id", "dod", "file", "file outside", "symbol", "acceptance"}

\* BuildPlan of a packet: which kinds of checks it has, told by the document alone.
LEMMA PlanOfPacket ==
  ASSUME NEW doc, NEW p
  PROVE  LET checks == BuildPlan(Packet(doc, p), TRUE)
             outputs == ToSet(PhaseOf(doc, p).outputs)
         IN  /\ checks \subseteq Kinds
             /\ "file" \in checks <=> "inside" \in outputs
             /\ "file outside" \in checks <=> ~(outputs \subseteq {"inside", "prose"})
             /\ "symbol" \in checks <=>
                  \E text \in Texts(doc, p) :
                    "tests pass" \notin text /\ "implement Symbol" \in text
             /\ "acceptance" \in checks <=>
                  \E text \in Texts(doc, p) : {"tests pass", "implement Symbol"} \cap text = {}
<1> DEFINE packet_ == Packet(doc, p)
           criteria == {CriterionCheck(packet_.acs[i].text, TRUE) : i \in DOMAIN packet_.acs}
                         \cup {CriterionCheck(text, TRUE) : text \in ToSet(packet_.dod) \ {{}}}
           files == {IF out = "inside" THEN "file" ELSE "file outside" :
                       out \in ToSet(packet_.outputs) \ {"prose"}}
           tests == {"go test"} \cup (IF packet_.tests # << >> THEN {"test id"} ELSE {})
           checks == BuildPlan(packet_, TRUE)
<1>1. checks = tests \cup files \cup criteria BY DEF BuildPlan
<1>2. packet_.outputs = PhaseOf(doc, p).outputs BY DEF Packet
<1>3. criteria \subseteq {"dod", "symbol", "acceptance"} BY DEF CriterionCheck
<1>4. files \subseteq {"file", "file outside"} OBVIOUS
<1>5. tests \subseteq {"go test", "test id"} OBVIOUS
<1>6. "symbol" \in criteria <=> \E text \in Texts(doc, p) :
         "tests pass" \notin text /\ "implement Symbol" \in text
  BY PacketTexts DEF CriterionCheck
<1>7. "acceptance" \in criteria <=> \E text \in Texts(doc, p) :
         {"tests pass", "implement Symbol"} \cap text = {}
  <2>1. \A text : CriterionCheck(text, TRUE) = "acceptance" <=>
                     {"tests pass", "implement Symbol"} \cap text = {}
    BY DEF CriterionCheck
  <2> QED BY <2>1, PacketTexts
<1>8. /\ "file" \in files <=> "inside" \in ToSet(packet_.outputs)
      /\ "file outside" \in files <=> ~(ToSet(packet_.outputs) \subseteq {"inside", "prose"})
  OBVIOUS
<1> HIDE DEF criteria, files, tests, checks
<1>9. /\ checks \subseteq Kinds
      /\ "file" \in checks <=> "file" \in files
      /\ "file outside" \in checks <=> "file outside" \in files
      /\ "symbol" \in checks <=> "symbol" \in criteria
      /\ "acceptance" \in checks <=> "acceptance" \in criteria
  BY <1>1, <1>3, <1>4, <1>5 DEF Kinds
<1> QED BY <1>2, <1>6, <1>7, <1>8, <1>9 DEF checks

\* The verdict on the checks of a packet is VERIFIED exactly when what the PRD
\* asks of the phase is fulfilled.
THEOREM VerdictOfPacket ==
  ASSUME NEW doc, NEW p, NEW product \in Product, NEW confirmed \in BOOLEAN
  PROVE  RunChecks(Packet(doc, p), product, confirmed) = "VERIFIED" <=>
           Fulfilled(doc, p, product, confirmed)
<1> DEFINE checks == BuildPlan(Packet(doc, p), TRUE)
           outcomes == {Outcome(check, product) : check \in checks}
           texts == Texts(doc, p)
           outputs == ToSet(PhaseOf(doc, p).outputs)
<1>0. product.go \in BOOLEAN /\ product.git \in BOOLEAN /\ product.files \in BOOLEAN
  BY DEF Product
<1>1. CASE ~product.go \/ ~product.git
  BY <1>0, <1>1 DEF RunChecks, Fulfilled
<1>2. CASE product.go /\ product.git /\ product.tests # "pass"
  <2>1. RunChecks(Packet(doc, p), product, confirmed) =
          Finalize({Outcome(check, product) : check \in BuildPlan(Packet(doc, p), product.go)},
                   FALSE, confirmed)
    BY <1>2 DEF RunChecks
  <2> QED BY <1>2, <2>1, FinalVerdict DEF Fulfilled
<1>3. CASE product.go /\ product.git /\ product.tests = "pass"
  <2>1. RunChecks(Packet(doc, p), product, confirmed) = Finalize(outcomes, TRUE, confirmed)
    BY <1>0, <1>3 DEF RunChecks
  <2>2. RunChecks(Packet(doc, p), product, confirmed) = "VERIFIED" <=>
          /\ {"timeout", "error", "fail"} \cap outcomes = {}
          /\ "manual" \in outcomes => confirmed
    <3> HIDE DEF outcomes
    <3> QED BY <2>1, FinalVerdict
  <2>3. checks \subseteq Kinds BY PlanOfPacket
  <2>4. {"timeout", "error", "fail"} \cap outcomes = {} <=>
          /\ "file" \in checks => product.files
          /\ "file outside" \notin checks
          /\ "symbol" \in checks => product.symbol = "present"
    <3> HIDE DEF checks
    <3>1. \A check \in checks :
            Outcome(check, product) \in {"timeout", "error", "fail"} <=>
              \/ check = "file" /\ ~product.files
              \/ check = "file outside"
              \/ check = "symbol" /\ product.symbol # "present"
      BY <1>0, <1>3, <2>3, OutcomeWhenTestsPass DEF Kinds
    <3> QED BY <3>1
  <2>5. "manual" \in outcomes <=> "acceptance" \in checks
    <3> HIDE DEF checks
    <3>1. \A check \in checks : Outcome(check, product) = "manual" <=> check = "acceptance"
      BY <1>0, <1>3, <2>3, OutcomeWhenTestsPass DEF Kinds
    <3> QED BY <3>1
  <2>6. Fulfilled(doc, p, product, confirmed) <=>
          /\ outputs \subseteq {"inside", "prose"}
          /\ "inside" \in outputs => product.files
          /\ \A text \in texts : Shown(text, product, confirmed)
    BY <1>3 DEF Fulfilled, Texts
  <2>7. (\A text \in texts : Shown(text, product, confirmed)) <=>
          /\ (\E text \in texts : "tests pass" \notin text /\ "implement Symbol" \in text)
               => product.symbol = "present"
          /\ (\E text \in texts : {"tests pass", "implement Symbol"} \cap text = {})
               => confirmed
    <3>1. \A text : Shown(text, product, confirmed) <=>
            /\ "tests pass" \notin text /\ "implement Symbol" \in text
                 => product.symbol = "present"
            /\ {"tests pass", "implement Symbol"} \cap text = {} => confirmed
      BY DEF Shown
    <3> HIDE DEF texts
    <3> QED BY <3>1
  <2> HIDE DEF outcomes, checks, outputs, texts
  <2> QED BY <2>2, <2>4, <2>5, <2>6, <2>7, PlanOfPacket DEF checks, outputs, texts
<1> QED BY <1>0, <1>1, <1>2, <1>3
-----------------------------------------------------------------------------
\* The packet execution.json refers to is the planner's for the document it was
\* made from.
PacketFromSource ==
  packet # NoPacket => packet.content = Packet(packet.source, packet.phase)

\* Each command keeps the packet, removes it with the execution, or has the planner
\* make it anew from the document and the phase it records.
LEMMA PacketStep ==
  ASSUME PacketFromSource, [Next]_vars
  PROVE  PacketFromSource'
<1> DEFINE r == New!PrepareLocked(New!Start(disk), reading.requested,
                                  Usable(prd), reading.env.git = "dirty")
           p == New!Now(r.writes).ex.phase
           made == [phase |-> p, source |-> prd, content |-> Packet(prd, p)]
<1>1. \/ packet' = packet
      \/ packet' = NoPacket
      \/ packet' = made
  <2>1. CASE Check BY <2>1 DEF Check, End
  <2>2. CASE Plan BY <2>2 DEF Plan, End
  <2>3. CASE Edit BY <2>3 DEF Edit
  <2>4. ASSUME NEW call \in Calls, Gate(call.env, call.requested) PROVE packet' = packet
    BY <2>4 DEF Gate
  <2>5. CASE Verify BY <2>5 DEF Verify
  <2>6. ASSUME NEW confirmed \in BOOLEAN, Feedback(confirmed) PROVE packet' = packet
    BY <2>6 DEF Feedback
  <2>7. CASE Resume BY <2>7 DEF Resume
  <2>8. CASE UNCHANGED vars BY <2>8 DEF vars
  <2> QED BY <2>1, <2>2, <2>3, <2>4, <2>5, <2>6, <2>7, <2>8 DEF Next
<1>2. CASE packet' = packet BY <1>2 DEF PacketFromSource
<1>3. CASE packet' = NoPacket BY <1>3 DEF PacketFromSource
<1>4. CASE packet' = made
  <2>1. made.content = Packet(made.source, made.phase) OBVIOUS
  <2> HIDE DEF made
  <2> QED BY <2>1, <1>4 DEF PacketFromSource
<1> QED BY <1>1, <1>2, <1>3, <1>4

\* In every state of every intake, a verdict VERIFIED on the packet at hand means
\* what its document asks for, whatever documents, products and edits there are.
THEOREM VerdictMeansFulfilled == Spec => []VerdictIsSpecified
<1>1. Init => PacketFromSource BY DEF Init, PacketFromSource
<1>2. PacketFromSource => VerdictIsSpecified
  BY VerdictOfPacket, IntakeAssumption DEF PacketFromSource, VerdictIsSpecified
<1> QED BY <1>1, <1>2, PacketStep, PTL DEF Spec

-----------------------------------------------------------------------------
\* Project's operators, on graph.json's graph and on the PRD's

\* Both are PhaseGraph's where they do not name the graph.
LEMMA SameGraphOperators ==
  /\ \A g, s : Old!Refresh(g, s) = Refresh(g, s) /\ New!Refresh(g, s) = Refresh(g, s)
  /\ \A g, s, p, x : Old!SetStatus(g, s, p, x) = SetStatus(g, s, p, x)
                     /\ New!SetStatus(g, s, p, x) = SetStatus(g, s, p, x)
  /\ \A g, s : New!MergeStatus(g, s) = MergeStatus(g, s)
  /\ \A s, p, c : New!SelectRunnable(s, p, c) = SelectRunnable(s, p, c)
<1>1. \A g, p : Old!Descendants(g, p) = Descendants(g, p)
                /\ New!Descendants(g, p) = Descendants(g, p)
  BY DEF Old!Descendants, New!Descendants, Descendants,
         Old!Dependents, New!Dependents, Dependents
<1>2. \A g : Old!Cyclic(g) = Cyclic(g) /\ New!Cyclic(g) = Cyclic(g)
  BY <1>1 DEF Old!Cyclic, New!Cyclic, Cyclic
<1>3. \A g, s : Old!Refresh(g, s) = Refresh(g, s) /\ New!Refresh(g, s) = Refresh(g, s)
  BY <1>2 DEF Old!Refresh, New!Refresh, Refresh, Old!Derive, New!Derive, Derive,
              Old!Sticky, New!Sticky, Sticky
<1>4. \A g, s, p, x : Old!SetStatus(g, s, p, x) = SetStatus(g, s, p, x)
                      /\ New!SetStatus(g, s, p, x) = SetStatus(g, s, p, x)
  BY <1>3 DEF Old!SetStatus, New!SetStatus, SetStatus
<1>5. \A g, s : New!MergeStatus(g, s) = MergeStatus(g, s)
  BY <1>3 DEF New!MergeStatus, MergeStatus
<1>6. \A s : New!FirstReady(s) = FirstReady(s) /\ New!FirstWaiting(s) = FirstWaiting(s)
  BY DEF New!FirstReady, New!FirstWaiting, FirstReady, FirstWaiting,
         New!First, First, New!Having, Having, New!NoPhase, NoPhase
<1>7. \A s, p, c : New!SelectRunnable(s, p, c) = SelectRunnable(s, p, c)
  <2> SUFFICES ASSUME NEW s, NEW p, NEW c
               PROVE  New!SelectRunnable(s, p, c) = SelectRunnable(s, p, c) OBVIOUS
  <2>1. New!FirstReady(s) = FirstReady(s) /\ New!FirstWaiting(s) = FirstWaiting(s) BY <1>6
  <2> QED BY <2>1 DEF New!SelectRunnable, SelectRunnable, New!NoPhase, NoPhase
<1> QED BY <1>3, <1>4, <1>5, <1>7

\* The files of .project/ with a graph of the phases D.
Files(D) ==
  [cur : Old!CurrentState, phase : Old!PhaseId, node : [D -> Status], ex : Old!Execution,
   ver : [status : Old!Verdict, phase : Old!PhaseId], inc : Old!Incident, req : Old!Request]

\* The writes h have come to the files d.
Reached(h, d) == (\E S : h \in Seq(S)) /\ h # << >> /\ Old!Now(h) = d

\* A handler starts from the files as they are.
LEMMA OldStart == ASSUME NEW d PROVE Reached(Old!Start(d), d)
<1> DEFINE w == [disk |-> d, commit |-> FALSE]
<1>1. Old!Start(d) = <<w>> /\ w.disk = d BY DEF Old!Start
<1> HIDE DEF w
<1>2. <<w>> \in Seq({w}) /\ <<w>>[Len(<<w>>)] = w /\ <<w>> # << >> OBVIOUS
<1> QED BY <1>1, <1>2 DEF Reached, Old!Now

\* Whatever is appended is where the writes have come to.
LEMMA ReachedLast ==
  ASSUME NEW h, NEW d, Reached(h, d), NEW w
  PROVE  Reached(Append(h, w), w.disk)
<1>1. PICK S : h \in Seq(S) BY DEF Reached
<1>2. h \in Seq(S \cup {w}) BY <1>1
<1>3. Append(h, w) \in Seq(S \cup {w}) BY <1>2
<1>4. Append(h, w)[Len(Append(h, w))] = w /\ Append(h, w) # << >> BY <1>1
<1> QED BY <1>3, <1>4 DEF Reached, Old!Now

\* A file write and a save of state.json, wherever the writes have come to.
LEMMA OldWrites ==
  ASSUME NEW h, NEW d, Reached(h, d), NEW e, NEW cur, NEW phase
  PROVE  /\ Reached(Old!Then(h, e), e)
         /\ Reached(Old!Save(h, cur, phase), [d EXCEPT !.cur = cur, !.phase = phase])
<1>1. ASSUME NEW x PROVE Reached(Old!Then(h, x), x)
  <2> DEFINE w == [disk |-> x, commit |-> FALSE]
  <2>1. w.disk = x BY DEF w
  <2> HIDE DEF w
  <2> QED BY <2>1, ReachedLast DEF Old!Then, w
<1>2. Old!Now(h) = d BY DEF Reached
<1> QED BY <1>1, <1>2 DEF Old!Save

\* New writes as Old does; they differ only in the graph.
LEMMA SameWrites ==
  /\ \A d : New!Start(d) = Old!Start(d)
  /\ \A h : New!Now(h) = Old!Now(h)
  /\ \A h, e : New!Then(h, e) = Old!Then(h, e)
  /\ \A h, c, p : New!Save(h, c, p) = Old!Save(h, c, p)
BY DEF New!Start, Old!Start, New!Now, Old!Now, New!Then, Old!Then, New!Save, Old!Save

-----------------------------------------------------------------------------
\* What happens to the statuses

\* A phase that was not RUNNING is not RUNNING.
NoneBegins(s, t) == \A q \in DOMAIN t : t[q] = "RUNNING" => q \in DOMAIN s /\ s[q] = "RUNNING"

\* A mark other than RUNNING, with the pass that follows it, begins no phase.
LEMMA MarkBeginsNone ==
  ASSUME NEW g, NEW D, NEW s \in [D -> Status], NEW p, NEW x \in Status \ {"RUNNING"}
  PROVE  /\ SetStatus(g, s, p, x) \in [D -> Status]
         /\ Refresh(g, SetStatus(g, s, p, x)) \in [D -> Status]
         /\ NoneBegins(s, SetStatus(g, s, p, x))
         /\ NoneBegins(s, Refresh(g, SetStatus(g, s, p, x)))
<1> DEFINE m == [s EXCEPT ![p] = x]
           t == SetStatus(g, s, p, x)
<1>1. m \in [D -> Status] /\ NoneBegins(s, m) BY DEF NoneBegins
<1>2. t = (IF p \in D THEN Refresh(g, m) ELSE s) BY DEF SetStatus
<1> HIDE DEF m, t
<1>3. t \in [D -> Status] BY <1>1, <1>2, PassType
<1>4. NoneBegins(s, t) BY <1>1, <1>2, PassType, PassKeeps DEF NoneBegins
<1>5. Refresh(g, t) \in [D -> Status] BY <1>3, PassType
<1>6. NoneBegins(s, Refresh(g, t)) BY <1>3, <1>4, <1>5, PassKeeps DEF NoneBegins
<1> QED BY <1>3, <1>4, <1>5, <1>6 DEF t

\* What is COMPLETED stays so, for the phases both graphs have.
CompletedKept(s, t) == \A q \in DOMAIN s \cap DOMAIN t : s[q] = "COMPLETED" => t[q] = "COMPLETED"

\* The statuses taken over into the graph of a PRD that was edited (mergeGraphStatus),
\* with the pass when they are written: none begins, none that was COMPLETED is lost.
LEMMA MergedStatuses ==
  ASSUME NEW g, NEW s, NEW D, s \in [D -> Status], NEW p, NEW finished \in BOOLEAN
  PROVE  LET m == MergeStatus(g, s)
             t == Refresh(g, IF finished THEN SetStatus(g, m, p, "COMPLETED") ELSE m)
         IN  /\ t \in [DOMAIN g -> Status]
             /\ NoneBegins(s, t) /\ CompletedKept(s, t)
<1> DEFINE from == [q \in DOMAIN g |-> IF q \in DOMAIN s THEN s[q] ELSE "PENDING"]
           m == MergeStatus(g, s)
           f == IF finished THEN SetStatus(g, m, p, "COMPLETED") ELSE m
<1>1. from \in [DOMAIN g -> Status] /\ NoneBegins(s, from) /\ CompletedKept(s, from)
  BY DEF Status, NoneBegins, CompletedKept
<1>2. m = Refresh(g, from) BY DEF MergeStatus
<1> HIDE DEF from, m
<1>3. m \in [DOMAIN g -> Status] BY <1>1, <1>2, PassType
<1>4. NoneBegins(s, m) /\ CompletedKept(s, m)
  BY <1>1, <1>2, <1>3, PassKeeps DEF NoneBegins, CompletedKept
<1>5. f \in [DOMAIN g -> Status] /\ NoneBegins(s, f) /\ CompletedKept(s, f)
  <2> DEFINE c == [m EXCEPT ![p] = "COMPLETED"]
  <2>1. c \in [DOMAIN g -> Status] /\ NoneBegins(s, c) /\ CompletedKept(s, c)
    BY <1>3, <1>4 DEF Status, NoneBegins, CompletedKept
  <2>2. f = (IF finished /\ p \in DOMAIN g THEN Refresh(g, c) ELSE m)
    BY <1>3 DEF SetStatus
  <2> HIDE DEF c, f
  <2>3. Refresh(g, c) \in [DOMAIN g -> Status] BY <2>1, PassType
  <2>4. NoneBegins(s, Refresh(g, c)) /\ CompletedKept(s, Refresh(g, c))
    BY <2>1, <2>3, PassKeeps DEF NoneBegins, CompletedKept
  <2> QED BY <1>3, <1>4, <2>2, <2>3, <2>4
<1> HIDE DEF f
<1>6. Refresh(g, f) \in [DOMAIN g -> Status] BY <1>5, PassType
<1>7. NoneBegins(s, Refresh(g, f)) /\ CompletedKept(s, Refresh(g, f))
  BY <1>5, <1>6, PassKeeps DEF NoneBegins, CompletedKept
<1> QED BY <1>6, <1>7 DEF f, m

\* The phase that begins has what it depends on, in the graph g, COMPLETED.
BeginsInOrder(g, s, t) ==
  \A q \in DOMAIN t : t[q] = "RUNNING" /\ (q \in DOMAIN s => s[q] # "RUNNING")
    => \A d \in g[q] : t[d] = "COMPLETED"

\* A READY phase marked RUNNING after a pass begins in order, and loses nothing.
LEMMA ReadyBegins ==
  ASSUME NEW g, g \in [DOMAIN g -> SUBSET DOMAIN g], NEW s, NEW f \in [DOMAIN g -> Status],
         NoneBegins(s, Refresh(g, f)), CompletedKept(s, Refresh(g, f)),
         NEW p \in DOMAIN g, Refresh(g, f)[p] = "READY"
  PROVE  LET t == Refresh(g, SetStatus(g, Refresh(g, f), p, "RUNNING"))
         IN  t \in [DOMAIN g -> Status] /\ BeginsInOrder(g, s, t) /\ CompletedKept(s, t)
<1> DEFINE r == Refresh(g, f)
           m == [r EXCEPT ![p] = "RUNNING"]
           t == Refresh(g, Refresh(g, m))
<1>1. r \in [DOMAIN g -> Status] BY PassType
<1>2. \A d \in g[p] : r[d] = "COMPLETED" BY PassReady
<1>3. p \notin g[p] BY <1>2
<1>4. SetStatus(g, r, p, "RUNNING") = Refresh(g, m) BY <1>1 DEF SetStatus
<1> HIDE DEF r
<1>5. /\ m \in [DOMAIN g -> Status] /\ \A d \in DOMAIN g : d # p => m[d] = r[d]
      /\ m[p] = "RUNNING"
  BY <1>1 DEF Status
<1> HIDE DEF m
<1>6. Refresh(g, m) \in [DOMAIN g -> Status] /\ t \in [DOMAIN g -> Status]
  BY <1>5, PassType
<1>7. \A q \in DOMAIN g : /\ t[q] = "COMPLETED" <=> m[q] = "COMPLETED"
                          /\ t[q] = "RUNNING" <=> m[q] = "RUNNING"
  BY <1>5, <1>6, PassKeeps
<1> HIDE DEF t
<1>8. BeginsInOrder(g, s, t)
  <2> SUFFICES ASSUME NEW q \in DOMAIN g, t[q] = "RUNNING",
                      q \in DOMAIN s => s[q] # "RUNNING", NEW d \in g[q]
               PROVE  t[d] = "COMPLETED"
    BY <1>6 DEF BeginsInOrder
  <2>1. q = p BY <1>1, <1>5, <1>7 DEF NoneBegins, r
  <2> QED BY <1>2, <1>3, <1>5, <1>7, <2>1
<1>9. CompletedKept(s, t)
  <2>1. \A q \in DOMAIN s \cap DOMAIN g : s[q] = "COMPLETED" => r[q] = "COMPLETED"
    BY <1>1 DEF CompletedKept, r
  <2>2. r[p] # "COMPLETED" BY DEF r
  <2> QED BY <1>5, <1>6, <1>7, <2>1, <2>2 DEF CompletedKept
<1> QED BY <1>4, <1>6, <1>8, <1>9 DEF t, r

-----------------------------------------------------------------------------
\* The handlers

\* An execution without work on it, as prepare writes it.
Fresh(p, has) == [phase |-> p, packet |-> has, invoked |-> FALSE, verified |-> FALSE, attempt |-> 0]

\* A refusal replaces the execution alone (persistPrepareRefusal).
LEMMA RefusedFiles ==
  ASSUME NEW D, NEW d \in Files(D), NEW h, Reached(h, d), NEW p \in Old!PhaseId
  PROVE  /\ Reached(Old!RefusalFor(h, p), [d EXCEPT !.ex = Fresh(p, FALSE)])
         /\ [d EXCEPT !.ex = Fresh(p, FALSE)] \in Files(D)
<1>1. Old!Now(h) = d BY DEF Reached
<1>2. Fresh(p, FALSE) \in Old!Execution BY DEF Fresh, Old!Execution
<1>3. [d EXCEPT !.ex = Fresh(p, FALSE)] \in Files(D) BY <1>2 DEF Files
<1>4. Old!RefusalFor(h, p) = Old!Then(h, [d EXCEPT !.ex = Fresh(p, FALSE)])
  BY <1>1 DEF Old!RefusalFor, Old!WriteExecution, Fresh
<1> QED BY <1>3, <1>4, OldWrites

\* What prepareLocked leaves of the files when preflight stops it, or a human is
\* waited for: everything but the execution.
LEMMA StoppedFiles ==
  ASSUME NEW D, NEW d \in Files(D), NEW requested
  PROVE  LET e == Old!Now(Old!PrepareLocked(Old!Start(d), requested, FALSE, FALSE).writes)
         IN  e \in Files(D) /\ e.node = d.node /\ e.cur = d.cur
<1> DEFINE h == Old!Start(d)
           r == Old!PrepareLocked(h, requested, FALSE, FALSE)
<1>1. Reached(h, d) BY OldStart
<1>2. Old!Now(h) = d BY <1>1 DEF Reached
<1> HIDE DEF h
<1>3. CASE d.cur = "WAITING_FOR_HUMAN"
  <2>1. r.writes = h BY <1>2, <1>3 DEF Old!PrepareLocked, Old!Return
  <2> QED BY <2>1, <1>2 DEF h
<1>4. CASE d.cur # "WAITING_FOR_HUMAN"
  <2>1. r.writes = Old!RefusalFor(h, Old!NoPhase)
    BY <1>2, <1>4 DEF Old!PrepareLocked, Old!Return
  <2>2. Old!NoPhase \in Old!PhaseId BY DEF Old!PhaseId
  <2>3. /\ Reached(Old!RefusalFor(h, Old!NoPhase), [d EXCEPT !.ex = Fresh(Old!NoPhase, FALSE)])
        /\ [d EXCEPT !.ex = Fresh(Old!NoPhase, FALSE)] \in Files(D)
    BY <1>1, <2>2, RefusedFiles
  <2> HIDE DEF r
  <2>4. Old!Now(r.writes) = [d EXCEPT !.ex = Fresh(Old!NoPhase, FALSE)]
    BY <2>1, <2>3 DEF Reached
  <2> QED BY <2>3, <2>4 DEF Files, h, r
<1> QED BY <1>3, <1>4

\* Project's sets are the same for every graph, and Reached speaks of New's writes too.
LEMMA SameSets ==
  /\ Old!PhaseId = Phase \cup {NoPhase} /\ Old!NoPhase = NoPhase /\ New!NoPhase = NoPhase
  /\ \A p : p \in Old!PhaseId => Fresh(p, FALSE) \in Old!Execution /\ Fresh(p, TRUE) \in Old!Execution
BY DEF Old!PhaseId, Old!Phase, Phase, Old!NoPhase, New!NoPhase, NoPhase, Fresh, Old!Execution

\* The writes of New that prepareLocked is made of.
LEMMA NewWrites ==
  ASSUME NEW h, NEW d, Reached(h, d)
  PROVE  /\ \A cur, p : Reached(New!Save(h, cur, p), [d EXCEPT !.cur = cur, !.phase = p])
         /\ \A p : Reached(New!RefusalFor(h, p), [d EXCEPT !.ex = Fresh(p, FALSE)])
         /\ \A ex : Reached(New!WriteExecution(h, ex), [d EXCEPT !.ex = ex])
         /\ \A node : Reached(New!PersistGraph(h, node), [d EXCEPT !.node = Refresh(Built, node)])
         /\ \A p, s : Reached(New!MarkPhase(h, p, s),
                              [d EXCEPT !.node = Refresh(Built, SetStatus(Built, d.node, p, s))])
<1>1. New!Now(h) = d BY SameWrites DEF Reached
<1>2. \A e : Reached(New!Then(h, e), e) BY OldWrites, SameWrites
<1>3. \A cur, p : Reached(New!Save(h, cur, p), [d EXCEPT !.cur = cur, !.phase = p])
  BY <1>1, <1>2 DEF New!Save
<1>4. \A ex : Reached(New!WriteExecution(h, ex), [d EXCEPT !.ex = ex])
  BY <1>1, <1>2 DEF New!WriteExecution
<1>5. \A p : Reached(New!RefusalFor(h, p), [d EXCEPT !.ex = Fresh(p, FALSE)])
  BY <1>4 DEF New!RefusalFor, Fresh
<1>6. \A node : Reached(New!PersistGraph(h, node), [d EXCEPT !.node = Refresh(Built, node)])
  BY <1>1, <1>2, SameGraphOperators DEF New!PersistGraph
<1>7. \A p, s : Reached(New!MarkPhase(h, p, s),
                        [d EXCEPT !.node = Refresh(Built, SetStatus(Built, d.node, p, s))])
  BY <1>1, <1>6, SameGraphOperators DEF New!MarkPhase
<1> QED BY <1>3, <1>4, <1>5, <1>6, <1>7

\* prepareLocked past preflight, in words of its writes: the statuses merged into
\* the graph of the PRD, then the phase chosen, or a refusal.
LEMMA PrepareCases ==
  ASSUME NEW d, d.cur # "WAITING_FOR_HUMAN", NEW h, Reached(h, d), NEW requested, NEW dirty \in BOOLEAN
  PROVE  LET merged == MergeStatus(Built, d.node)
             finished == d.cur = "COMPLETED" /\ d.phase \in DOMAIN merged
                         /\ merged[d.phase] = "RUNNING"
             graph == New!PersistGraph(h, IF finished
                        THEN SetStatus(Built, merged, d.phase, "COMPLETED") ELSE merged)
             node == Old!Now(graph).node
             choice == SelectRunnable(node, requested,
                         IF d.cur = "COMPLETED" THEN NoPhase ELSE d.phase)
             p == choice.phase
             marked == IF node[p] = "RUNNING" THEN graph ELSE New!MarkPhase(graph, p, "RUNNING")
             r == New!PrepareLocked(h, requested, TRUE, dirty)
         IN  \/ p = NoPhase /\ r.reply # "prepared"
                /\ r.writes \in {New!Save(graph, "COMPLETED", d.phase),
                                 New!RefusalFor(graph, requested)}
             \/ p # NoPhase /\ dirty /\ r.reply # "prepared" /\ r.writes = New!RefusalFor(marked, p)
             \/ p # NoPhase /\ ~dirty /\ r.reply = "prepared"
                /\ r.writes = New!Save(New!WriteExecution(marked, Fresh(p, TRUE)), "PREPARED", p)
<1> DEFINE merged == MergeStatus(Built, d.node)
           finished == d.cur = "COMPLETED" /\ d.phase \in DOMAIN merged
                       /\ merged[d.phase] = "RUNNING"
           graph == New!PersistGraph(h, IF finished
                      THEN SetStatus(Built, merged, d.phase, "COMPLETED") ELSE merged)
           node == Old!Now(graph).node
           choice == SelectRunnable(node, requested,
                       IF d.cur = "COMPLETED" THEN NoPhase ELSE d.phase)
           p == choice.phase
           marked == IF node[p] = "RUNNING" THEN graph ELSE New!MarkPhase(graph, p, "RUNNING")
           written == New!WriteExecution(marked, Fresh(p, TRUE))
           r == New!PrepareLocked(h, requested, TRUE, dirty)
<1> SUFFICES \/ p = NoPhase /\ r.reply # "prepared"
                /\ r.writes \in {New!Save(graph, "COMPLETED", d.phase),
                                 New!RefusalFor(graph, requested)}
             \/ p # NoPhase /\ dirty /\ r.reply # "prepared" /\ r.writes = New!RefusalFor(marked, p)
             \/ p # NoPhase /\ ~dirty /\ r.reply = "prepared"
                /\ r.writes = New!Save(written, "PREPARED", p)
  OBVIOUS
\* The same in the words of New.
<1> DEFINE d2 == New!Now(h)
           merged2 == New!MergeStatus(Built, d2.node)
           finished2 == d2.cur = "COMPLETED" /\ d2.phase \in DOMAIN merged2
                        /\ merged2[d2.phase] = "RUNNING"
           from2 == IF finished2 THEN New!SetStatus(Built, merged2, d2.phase, "COMPLETED")
                                 ELSE merged2
           graph2 == New!PersistGraph(h, from2)
           node2 == New!Now(graph2).node
           resume2 == IF d2.cur = "COMPLETED" THEN New!NoPhase ELSE d2.phase
           choice2 == New!SelectRunnable(node2, requested, resume2)
           p2 == choice2.phase
           marked2 == IF node2[p2] = "RUNNING" THEN graph2 ELSE New!MarkPhase(graph2, p2, "RUNNING")
           written2 == New!WriteExecution(marked2, [phase |-> p2, packet |-> TRUE, invoked |-> FALSE,
                                                    verified |-> FALSE, attempt |-> 0])
<1>1. r = CASE d2.cur = "WAITING_FOR_HUMAN" -> New!Return(h, "waiting")
            [] d2.cur # "WAITING_FOR_HUMAN" /\ ~TRUE ->
                 New!Return(New!RefusalFor(h, New!NoPhase), "refused")
            [] OTHER ->
               IF p2 = New!NoPhase
               THEN IF ~choice2.reason /\ New!AllCompleted(node2)
                    THEN New!Return(New!Save(graph2, "COMPLETED", d2.phase), "project completed")
                    ELSE New!Return(New!RefusalFor(graph2, requested), "refused")
               ELSE IF dirty THEN New!Return(New!RefusalFor(marked2, p2), "refused")
               ELSE New!Return(New!Save(written2, "PREPARED", p2), "prepared")
  BY DEF New!PrepareLocked
<1>2. d2 = d BY SameWrites DEF Reached
<1>3. merged2 = merged /\ from2 = IF finished THEN SetStatus(Built, merged, d.phase, "COMPLETED")
                                  ELSE merged
  BY <1>2, SameGraphOperators
<1>4. graph2 = graph BY <1>3
<1>5. node2 = node BY <1>4, SameWrites
<1>6. choice2 = choice BY <1>2, <1>5, SameGraphOperators, SameSets
<1> HIDE DEF merged, finished, graph, node, choice, r,
             d2, merged2, finished2, from2, graph2, node2, resume2, choice2
<1>7. p2 = p /\ New!NoPhase = NoPhase BY <1>6, SameSets
<1>8. marked2 = marked /\ written2 = written BY <1>4, <1>5, <1>7 DEF Fresh
<1> HIDE DEF p, marked, written, p2, marked2, written2
<1>9. r = IF p = NoPhase
          THEN IF ~choice2.reason /\ New!AllCompleted(node2)
               THEN New!Return(New!Save(graph, "COMPLETED", d.phase), "project completed")
               ELSE New!Return(New!RefusalFor(graph, requested), "refused")
          ELSE IF dirty THEN New!Return(New!RefusalFor(marked, p), "refused")
          ELSE New!Return(New!Save(written, "PREPARED", p), "prepared")
  BY <1>1, <1>2, <1>4, <1>7, <1>8
<1>10. CASE p = NoPhase
  <2>1. \/ r = New!Return(New!Save(graph, "COMPLETED", d.phase), "project completed")
        \/ r = New!Return(New!RefusalFor(graph, requested), "refused")
    BY <1>9, <1>10, Zenon
  <2>2. CASE r = New!Return(New!Save(graph, "COMPLETED", d.phase), "project completed")
    BY <1>10, <2>2 DEF New!Return
  <2>3. CASE r = New!Return(New!RefusalFor(graph, requested), "refused")
    BY <1>10, <2>3 DEF New!Return
  <2> QED BY <2>1, <2>2, <2>3
<1>11. CASE p # NoPhase /\ dirty
  <2>1. r = New!Return(New!RefusalFor(marked, p), "refused") BY <1>9, <1>11, Zenon
  <2> QED BY <1>11, <2>1 DEF New!Return
<1>12. CASE p # NoPhase /\ ~dirty
  <2>1. r = New!Return(New!Save(written, "PREPARED", p), "prepared") BY <1>9, <1>12, Zenon
  <2> QED BY <1>12, <2>1 DEF New!Return
<1> QED BY <1>10, <1>11, <1>12

\* What prepareLocked leaves past preflight: statuses of the graph just built, among
\* which the phase that begins has its dependencies COMPLETED and nothing COMPLETED
\* is lost, and a packet only for a phase of that graph.
LEMMA PreparedFiles ==
  ASSUME NEW D, NEW d \in Files(D), d.cur # "WAITING_FOR_HUMAN",
         NEW requested \in Old!PhaseId, NEW dirty \in BOOLEAN,
         Built \in [DOMAIN Built -> SUBSET DOMAIN Built], DOMAIN Built \subseteq Phase
  PROVE  LET r == New!PrepareLocked(New!Start(d), requested, TRUE, dirty)
             e == New!Now(r.writes)
         IN  /\ e \in Files(DOMAIN Built) /\ e.cur # "WAITING_FOR_HUMAN"
             /\ BeginsInOrder(Built, d.node, e.node) /\ CompletedKept(d.node, e.node)
             /\ r.reply = "prepared" => e.ex.phase \in DOMAIN Built
<1> DEFINE h == Old!Start(d)
           merged == MergeStatus(Built, d.node)
           finished == d.cur = "COMPLETED" /\ d.phase \in DOMAIN merged
                       /\ merged[d.phase] = "RUNNING"
           from == IF finished THEN SetStatus(Built, merged, d.phase, "COMPLETED") ELSE merged
           graph == New!PersistGraph(h, from)
           node == Old!Now(graph).node
           choice == SelectRunnable(node, requested,
                       IF d.cur = "COMPLETED" THEN NoPhase ELSE d.phase)
           p == choice.phase
           marked == IF node[p] = "RUNNING" THEN graph ELSE New!MarkPhase(graph, p, "RUNNING")
           r == New!PrepareLocked(h, requested, TRUE, dirty)
           e == Old!Now(r.writes)
           G == DOMAIN Built
           Good(f) == /\ f \in Files(G) /\ BeginsInOrder(Built, d.node, f.node)
                      /\ CompletedKept(d.node, f.node) /\ f.cur # "WAITING_FOR_HUMAN"
<1>1. /\ d.node \in [D -> Status] /\ d.phase \in Old!PhaseId /\ d.cur \in Old!CurrentState
  BY DEF Files
<1>2. Reached(h, d) BY OldStart
<1>3. /\ node = Refresh(Built, from) /\ node \in [G -> Status]
      /\ NoneBegins(d.node, node) /\ CompletedKept(d.node, node)
      /\ Reached(graph, [d EXCEPT !.node = node]) /\ from \in [G -> Status]
  <2>1. Reached(graph, [d EXCEPT !.node = Refresh(Built, from)]) BY <1>2, NewWrites
  <2>2. [d EXCEPT !.node = Refresh(Built, from)].node = Refresh(Built, from) BY DEF Files
  <2>3. node = Refresh(Built, from)
    <3> HIDE DEF from, graph
    <3> QED BY <2>1, <2>2 DEF Reached
  <2>4. /\ Refresh(Built, from) \in [G -> Status] /\ NoneBegins(d.node, Refresh(Built, from))
        /\ CompletedKept(d.node, Refresh(Built, from))
    <3> HIDE DEF G
    <3>1. finished \in BOOLEAN OBVIOUS
    <3> HIDE DEF finished
    <3> QED BY <1>1, <3>1, MergedStatuses DEF G
  <2>5. from \in [G -> Status]
    <3> DEFINE start == [q \in DOMAIN Built |-> IF q \in DOMAIN d.node THEN d.node[q] ELSE "PENDING"]
    <3>1. start \in [G -> Status] BY <1>1 DEF Status
    <3>2. merged = Refresh(Built, start) BY DEF MergeStatus
    <3> HIDE DEF start, merged, G
    <3>3. merged \in [G -> Status] BY <3>1, <3>2, PassType
    <3>4. SetStatus(Built, merged, d.phase, "COMPLETED") \in [G -> Status]
      BY <3>3, MarkBeginsNone DEF Status
    <3> QED BY <3>3, <3>4
  <2> QED BY <2>1, <2>3, <2>4, <2>5
<1> HIDE DEF from, graph, G
<1>4. ASSUME NEW t \in [G -> Status], BeginsInOrder(Built, d.node, t), CompletedKept(d.node, t)
      PROVE  Good([d EXCEPT !.node = t])
  BY <1>4 DEF Files
<1>5. Good([d EXCEPT !.node = node])
  <2>1. BeginsInOrder(Built, d.node, node) BY <1>3 DEF NoneBegins, BeginsInOrder
  <2> HIDE DEF Good, node
  <2> QED BY <1>3, <1>4, <2>1
<1>6. p = NoPhase \/ (p \in G /\ node[p] \in {"READY", "RUNNING"})
  <2> HIDE DEF node
  <2> QED BY <1>3, SelectsRunnable DEF G
<1> HIDE DEF choice
<1>7. p # NoPhase => \E f : Reached(marked, f) /\ Good(f)
  <2> SUFFICES ASSUME p # NoPhase PROVE \E f : Reached(marked, f) /\ Good(f) OBVIOUS
  <2>1. CASE node[p] = "RUNNING" BY <2>1, <1>3, <1>5
  <2>2. CASE node[p] = "READY"
    <3> DEFINE t == Refresh(Built, SetStatus(Built, node, p, "RUNNING"))
    <3>1. t \in [G -> Status] /\ BeginsInOrder(Built, d.node, t) /\ CompletedKept(d.node, t)
      <4> HIDE DEF node
      <4> QED BY <1>3, <1>6, <2>2, ReadyBegins DEF G
    <3>2. [[d EXCEPT !.node = node] EXCEPT !.node = t] = [d EXCEPT !.node = t]
          /\ [d EXCEPT !.node = node].node = node
      <4> HIDE DEF t, node
      <4> QED BY DEF Files
    <3>3. Reached(marked, [d EXCEPT !.node = t])
      <4> DEFINE now == [d EXCEPT !.node = node]
      <4>1. Reached(graph, now) /\ now.node = node BY <1>3, <3>2
      <4> HIDE DEF now, node
      <4>2. Reached(New!MarkPhase(graph, p, "RUNNING"), [now EXCEPT !.node = t])
        BY <4>1, NewWrites
      <4> QED BY <2>2, <3>2, <4>2 DEF now
    <3> HIDE DEF t, Good
    <3> QED BY <1>4, <3>1, <3>3
  <2> QED BY <1>6, <2>1, <2>2
<1>8. ASSUME NEW f, Good(f), NEW q \in Old!PhaseId
      PROVE  /\ Good([f EXCEPT !.ex = Fresh(q, FALSE)]) /\ Good([f EXCEPT !.ex = Fresh(q, TRUE)])
             /\ Good([f EXCEPT !.cur = "COMPLETED", !.phase = q])
             /\ Good([f EXCEPT !.cur = "PREPARED", !.phase = q])
  BY <1>8, SameSets DEF Files, Old!CurrentState
<1>9. \/ p = NoPhase /\ r.reply # "prepared"
         /\ r.writes \in {New!Save(graph, "COMPLETED", d.phase), New!RefusalFor(graph, requested)}
      \/ p # NoPhase /\ dirty /\ r.reply # "prepared" /\ r.writes = New!RefusalFor(marked, p)
      \/ p # NoPhase /\ ~dirty /\ r.reply = "prepared"
         /\ r.writes = New!Save(New!WriteExecution(marked, Fresh(p, TRUE)), "PREPARED", p)
  <2> HIDE DEF h
  <2> QED BY <1>2, PrepareCases DEF graph, from, choice
<1> HIDE DEF h, r, node, marked
<1>10. CASE p = NoPhase
  <2> DEFINE f == [d EXCEPT !.node = node]
  <2>1. Reached(graph, f) /\ Good(f) BY <1>3, <1>5
  <2> HIDE DEF f, Good
  <2>2. Reached(New!Save(graph, "COMPLETED", d.phase), [f EXCEPT !.cur = "COMPLETED", !.phase = d.phase])
        /\ Reached(New!RefusalFor(graph, requested), [f EXCEPT !.ex = Fresh(requested, FALSE)])
    BY <2>1, NewWrites
  <2>3. \E x : Reached(r.writes, x) /\ Good(x)
    <3>1. Good([f EXCEPT !.cur = "COMPLETED", !.phase = d.phase])
          /\ Good([f EXCEPT !.ex = Fresh(requested, FALSE)])
      BY <1>1, <1>8, <2>1
    <3>2. \/ r.writes = New!Save(graph, "COMPLETED", d.phase)
          \/ r.writes = New!RefusalFor(graph, requested)
      BY <1>9, <1>10
    <3>3. CASE r.writes = New!Save(graph, "COMPLETED", d.phase) BY <2>2, <3>1, <3>3
    <3>4. CASE r.writes = New!RefusalFor(graph, requested) BY <2>2, <3>1, <3>4
    <3> QED BY <3>2, <3>3, <3>4
  <2>4. Good(e) BY <2>3 DEF Reached
  <2> QED BY <1>9, <1>10, <2>4, SameWrites DEF r, h, Good, G
<1>11. CASE p # NoPhase
  <2>1. PICK f : Reached(marked, f) /\ Good(f) BY <1>7, <1>11
  <2>2. p \in G /\ p \in Old!PhaseId BY <1>6, <1>11, SameSets DEF G
  <2>3. CASE r.reply # "prepared"
    <3> HIDE DEF Good
    <3> DEFINE x == [f EXCEPT !.ex = Fresh(p, FALSE)]
    <3>1. Reached(New!RefusalFor(marked, p), x) /\ r.writes = New!RefusalFor(marked, p)
      BY <1>9, <1>11, <2>1, <2>3, NewWrites
    <3>2. Good(x) BY <1>8, <2>1, <2>2
    <3> HIDE DEF x
    <3>3. Good(e) BY <3>1, <3>2 DEF Reached
    <3> QED BY <2>3, <3>3, SameWrites DEF r, h, Good, G
  <2>4. CASE r.reply = "prepared"
    <3> DEFINE x == [f EXCEPT !.ex = Fresh(p, TRUE)]
               y == [x EXCEPT !.cur = "PREPARED", !.phase = p]
    <3>1. Good(x) /\ Good(y) /\ y.ex.phase = p
      <4>1. Good(x) BY <1>8, <2>1, <2>2
      <4>2. Good(y)
        <5> HIDE DEF x, Good
        <5> QED BY <1>8, <2>2, <4>1
      <4>3. y.ex.phase = p BY <2>1 DEF Files, Fresh
      <4> QED BY <4>1, <4>2, <4>3
    <3> HIDE DEF Good
    <3>2. Reached(New!WriteExecution(marked, Fresh(p, TRUE)), x) BY <2>1, NewWrites
    <3> HIDE DEF x
    <3>3. Reached(r.writes, y)
      <4>1. Reached(New!Save(New!WriteExecution(marked, Fresh(p, TRUE)), "PREPARED", p), y)
        BY <3>2, NewWrites
      <4> HIDE DEF y
      <4> QED BY <1>9, <1>11, <2>4, <4>1
    <3>4. e = y
      <4> HIDE DEF y
      <4> QED BY <3>3 DEF Reached
    <3>5. Good(e) /\ e.ex.phase \in G BY <2>2, <3>1, <3>4
    <3> QED BY <3>5, SameWrites DEF r, h, Good, G
  <2> QED BY <2>3, <2>4
<1> QED BY <1>10, <1>11

\* Of incident.json only that it stays an incident: nothing is repaired here.
LEMMA FinishedIncident ==
  ASSUME NEW inc \in Old!Incident, NEW number \in Nat, NEW ok \in BOOLEAN
  PROVE  Old!FinishAttempt(inc, number, ok) \in Old!Incident
<1> DEFINE n == IF number <= inc.attempts THEN inc.attempts ELSE inc.attempts + 1
           x == ~ok /\ (inc.exhausted \/ n >= 1)
<1>1. n \in Nat /\ x \in BOOLEAN BY DEF Old!Incident
<1>2. Old!FinishAttempt(inc, number, ok) = [inc EXCEPT !.attempts = n, !.exhausted = x]
  BY DEF Old!FinishAttempt, Old!Incident
<1> HIDE DEF n, x
<1> QED BY <1>1, <1>2 DEF Old!Incident

\* The writes of Old that persistVerify is made of.
LEMMA OldMark ==
  ASSUME NEW h, NEW d, Reached(h, d)
  PROVE  /\ \A p, s : Reached(Old!MarkPhase(h, p, s),
                              [d EXCEPT !.node = Refresh(saved, SetStatus(saved, d.node, p, s))])
         /\ \A e : Reached(Old!Then(h, e), e)
         /\ \A cur, p : Reached(Old!Save(h, cur, p), [d EXCEPT !.cur = cur, !.phase = p])
<1>1. Old!Now(h) = d BY DEF Reached
<1>2. \A e : Reached(Old!Then(h, e), e) BY OldWrites
<1>3. \A cur, p : Reached(Old!Save(h, cur, p), [d EXCEPT !.cur = cur, !.phase = p]) BY OldWrites
<1>4. \A p, s : Reached(Old!MarkPhase(h, p, s),
                        [d EXCEPT !.node = Refresh(saved, SetStatus(saved, d.node, p, s))])
  BY <1>1, <1>2, SameGraphOperators DEF Old!MarkPhase, Old!PersistGraph
<1> QED BY <1>2, <1>3, <1>4

\* Files of the phases D in which no phase is RUNNING that was not in d.
Later(D, d, e) == e \in Files(D) /\ NoneBegins(d.node, e.node)

\* A mark with a save after it, as a completion and a request to a human end.
LEMMA MarkAndSave ==
  ASSUME NEW D, NEW d, NEW h, NEW f, Reached(h, f), Later(D, d, f), NEW p \in Old!PhaseId,
         NEW s \in Status \ {"RUNNING"}, NEW cur \in Old!CurrentState
  PROVE  \E e : Reached(Old!Save(Old!MarkPhase(h, p, s), cur, p), e) /\ Later(D, d, e)
<1> DEFINE t == Refresh(saved, SetStatus(saved, f.node, p, s))
           x == [f EXCEPT !.node = t]
           e == [x EXCEPT !.cur = cur, !.phase = p]
<1>1. f.node \in [D -> Status] BY DEF Later, Files
<1>2. t \in [D -> Status] /\ NoneBegins(f.node, t) BY <1>1, MarkBeginsNone
<1>3. Reached(Old!MarkPhase(h, p, s), x) BY OldMark
<1> HIDE DEF t
<1>4. x \in Files(D) /\ x.node = t BY <1>2 DEF Later, Files
<1> HIDE DEF x
<1>5. Reached(Old!Save(Old!MarkPhase(h, p, s), cur, p), e) BY <1>3, OldMark
<1>6. e \in Files(D) /\ e.node = t BY <1>4 DEF Files
<1> HIDE DEF e
<1>7. NoneBegins(d.node, t) BY <1>1, <1>2 DEF Later, NoneBegins
<1> QED BY <1>5, <1>6, <1>7 DEF Later

\* A verdict, whatever it is, begins no phase (verify.go persistVerify).
LEMMA JudgedFiles ==
  ASSUME NEW D, NEW d \in Files(D), NEW status \in Old!Verdict, NEW of \in Old!PhaseId
  PROVE  Later(D, d, Old!Now(Old!PersistVerify(Old!Start(d), status, of).writes))
<1> DEFINE h == Old!Start(d)
           phase == IF of = Old!NoPhase THEN d.phase ELSE of
           ok == status = "VERIFIED"
           v == [d EXCEPT !.ver = [status |-> status, phase |-> of]]
           verdict == Old!Then(h, v)
           x == [v EXCEPT !.ex = [d.ex EXCEPT !.verified = ok]]
           recorded == Old!WriteExecution(verdict, [d.ex EXCEPT !.verified = ok])
           inc == Old!FinishAttempt(d.inc, d.ex.attempt, ok)
           c == IF d.ex.attempt = 0 THEN x ELSE [x EXCEPT !.inc = inc]
           counted == IF d.ex.attempt = 0 THEN recorded ELSE Old!SaveIncident(recorded, inc)
           q == [c EXCEPT !.req = [kind |-> "manual", stamp |-> ~@.stamp]]
           asked == Old!Then(counted, q)
           r == Old!PersistVerify(h, status, of)
<1>1. Reached(h, d) /\ Old!Now(h) = d BY OldStart DEF Reached
<1> HIDE DEF h
<1>2. phase \in Old!PhaseId BY DEF Files
<1>3. v \in Files(D) /\ v.node = d.node /\ Reached(verdict, v)
  <2>1. v \in Files(D) /\ v.node = d.node BY DEF Files
  <2> HIDE DEF v
  <2> QED BY <1>1, <2>1, OldMark
<1>4. x \in Files(D) /\ x.node = d.node /\ Reached(recorded, x)
  <2>1. [d.ex EXCEPT !.verified = ok] \in Old!Execution BY DEF Files, Old!Execution
  <2>2. x \in Files(D) /\ x.node = d.node
    <3> HIDE DEF v, ok
    <3> QED BY <1>3, <2>1 DEF Files
  <2>3. recorded = Old!Then(verdict, x) BY <1>3 DEF Old!WriteExecution, Reached
  <2> HIDE DEF x, recorded, verdict
  <2> QED BY <1>3, <2>2, <2>3, OldMark
<1>5. Later(D, d, c) /\ Reached(counted, c)
  <2>1. inc \in Old!Incident
    <3>1. d.inc \in Old!Incident /\ d.ex.attempt \in Nat /\ ok \in BOOLEAN
      BY DEF Files, Old!Execution
    <3> QED BY <3>1, FinishedIncident
  <2>2. Old!SaveIncident(recorded, inc) = Old!Then(recorded, [x EXCEPT !.inc = inc])
    BY <1>4 DEF Old!SaveIncident, Reached
  <2> HIDE DEF x, inc, recorded
  <2>3. [x EXCEPT !.inc = inc] \in Files(D) /\ [x EXCEPT !.inc = inc].node = d.node
    BY <1>4, <2>1 DEF Files
  <2>4. Reached(counted, c) BY <1>4, <2>2, OldMark
  <2>5. c \in Files(D) /\ c.node = d.node BY <1>4, <2>3
  <2> QED BY <2>4, <2>5 DEF Later, NoneBegins, Files
<1>6. Later(D, d, q) /\ Reached(asked, q)
  <2> HIDE DEF c, counted
  <2>1. q \in Files(D) /\ q.node = c.node BY <1>5 DEF Later, Files, Old!Request
  <2>2. Later(D, d, q)
    <3> HIDE DEF q
    <3> QED BY <1>5, <2>1 DEF Later
  <2> HIDE DEF q
  <2> QED BY <1>5, <2>2, OldMark
<1>7. \/ r.writes = Old!Save(Old!MarkPhase(counted, phase, "COMPLETED"), "COMPLETED", phase)
      \/ r.writes = Old!Save(Old!MarkPhase(asked, phase, "WAITING_FOR_HUMAN"), "WAITING_FOR_HUMAN", phase)
      \/ r.writes = Old!Save(counted, "VERIFICATION_INCOMPLETE", phase)
      \/ r.writes = Old!Save(counted, "VERIFICATION_FAILED", phase)
  <2>0. Old!Now(counted) = c BY <1>5 DEF Reached
  <2>2. Old!Now(verdict) = v /\ Old!Now(recorded) = x BY <1>3, <1>4 DEF Reached
  <2>3. v.ex = d.ex /\ x.ex.attempt = d.ex.attempt /\ x.inc = d.inc
    BY DEF Files, Old!Execution
  <2>1. r = (CASE ok -> Old!Return(Old!CompletePhase(counted, phase), status)
               [] status = "MANUAL" -> Old!Return(Old!RequestHuman(counted, phase, "manual"), status)
               [] status = "INCOMPLETE" ->
                    Old!Return(Old!Save(counted, "VERIFICATION_INCOMPLETE", phase), status)
               [] OTHER -> Old!Return(Old!Save(counted, "VERIFICATION_FAILED", phase), status))
    BY <1>1 DEF Old!PersistVerify
  <2> HIDE DEF r, counted, c
  <2>4. Old!RequestHuman(counted, phase, "manual")
          = Old!Save(Old!MarkPhase(asked, phase, "WAITING_FOR_HUMAN"), "WAITING_FOR_HUMAN", phase)
    BY <2>0 DEF Old!RequestHuman
  <2>5. Old!CompletePhase(counted, phase)
          = Old!Save(Old!MarkPhase(counted, phase, "COMPLETED"), "COMPLETED", phase)
    BY DEF Old!CompletePhase
  <2> HIDE DEF asked, phase, ok
  <2> QED BY <2>1, <2>4, <2>5 DEF Old!Return
<1> HIDE DEF counted, asked, phase, r, c, q
<1>8. \E e : Reached(r.writes, e) /\ Later(D, d, e)
  <2>0. /\ "COMPLETED" \in Status \ {"RUNNING"} /\ "WAITING_FOR_HUMAN" \in Status \ {"RUNNING"}
        /\ "COMPLETED" \in Old!CurrentState /\ "WAITING_FOR_HUMAN" \in Old!CurrentState
    BY DEF Status, Old!CurrentState
  <2>1. CASE r.writes = Old!Save(Old!MarkPhase(counted, phase, "COMPLETED"), "COMPLETED", phase)
    <3>1. \E e : Later(D, d, e) /\
            Reached(Old!Save(Old!MarkPhase(counted, phase, "COMPLETED"), "COMPLETED", phase), e)
      BY <1>2, <1>5, <2>0, MarkAndSave
    <3> QED BY <2>1, <3>1
  <2>2. CASE r.writes = Old!Save(Old!MarkPhase(asked, phase, "WAITING_FOR_HUMAN"), "WAITING_FOR_HUMAN", phase)
    <3>1. \E e : Later(D, d, e) /\
            Reached(Old!Save(Old!MarkPhase(asked, phase, "WAITING_FOR_HUMAN"), "WAITING_FOR_HUMAN", phase), e)
      BY <1>2, <1>6, <2>0, MarkAndSave
    <3> QED BY <2>2, <3>1
  <2>3. ASSUME NEW cur \in {"VERIFICATION_INCOMPLETE", "VERIFICATION_FAILED"},
               r.writes = Old!Save(counted, cur, phase)
        PROVE  \E e : Reached(r.writes, e) /\ Later(D, d, e)
    <3> DEFINE e == [c EXCEPT !.cur = cur, !.phase = phase]
    <3>1. Reached(Old!Save(counted, cur, phase), e) BY <1>5, OldMark
    <3>2. e \in Files(D) /\ e.node = c.node
      BY <1>2, <1>5, <2>3 DEF Later, Files, Old!CurrentState
    <3> HIDE DEF e
    <3> QED BY <1>5, <2>3, <3>1, <3>2 DEF Later
  <2> QED BY <1>7, <2>1, <2>2, <2>3
<1> QED BY <1>8 DEF Reached, r, h

-----------------------------------------------------------------------------
\* The invariant

\* graph.json is a graph of declared phases, and the files of .project/ are files
\* for that graph.
GraphOK ==
  /\ saved \in [DOMAIN saved -> SUBSET DOMAIN saved] /\ DOMAIN saved \subseteq Phase
  /\ disk \in Files(DOMAIN saved)

\* A prepare that is under way was let through by the gate, unless the PRD has been
\* edited since, and holds the lock only of a project that waits for nobody.
ReadingOK ==
  /\ reading \in [pc : {"idle", "gated", "checked"}, env : {reading.env},
                  requested : Old!PhaseId, edited : BOOLEAN]
  /\ Locked => disk.cur # "WAITING_FOR_HUMAN"
  /\ reading.pc # "idle" => reading.edited \/ ~Rejected(prd)

RestOK ==
  /\ prd \in Drafts \cup Revisions
  /\ edits \in 0..MaxEdits
  /\ packet.phase \in Phase \cup {NoPhase}
  /\ resp \in Old!Response

IInv == GraphOK /\ ReadingOK /\ RestOK

\* The graph prepare works on is a graph of declared phases.
LEMMA BuiltType ==
  ASSUME GraphOK, RestOK
  PROVE  /\ Built \in [DOMAIN Built -> SUBSET DOMAIN Built] /\ DOMAIN Built \subseteq Phase
         /\ Usable(prd) => DOMAIN Built = Declared(prd)
<1>1. CASE Usable(prd)
  <2>1. Built = Edges(prd) BY <1>1 DEF Built
  <2>2. Declared(prd) \subseteq Phase BY IntakeAssumption DEF RestOK
  <2> QED BY <1>1, <2>1, <2>2 DEF Edges
<1>2. CASE ~Usable(prd) BY <1>2 DEF Built, GraphOK
<1> QED BY <1>1, <1>2

\* It holds of a product that was just set up (bootstrap).
LEMMA InitIInv == Init => IInv
<1> SUFFICES ASSUME Init PROVE IInv OBVIOUS
<1>1. DOMAIN NoGraph = {} BY DEF NoGraph
<1>2. disk = [Old!EmptyDisk EXCEPT !.node = NoGraph] /\ saved = NoGraph BY DEF Init
<1>3. NoGraph \in [{} -> Status] /\ NoGraph \in [DOMAIN NoGraph -> SUBSET DOMAIN NoGraph]
  BY DEF NoGraph
<1>4. disk \in Files({})
  BY <1>2, <1>3 DEF Files, Old!EmptyDisk, Old!CurrentState, Old!PhaseId, Old!NoPhase,
                    Old!Execution, Old!Verdict, Old!Incident, Old!Request
<1>5. GraphOK BY <1>1, <1>2, <1>3, <1>4 DEF GraphOK
<1>6. ReadingOK BY SameSets DEF Init, NoReading, ReadingOK, Locked
<1>7. RestOK BY IntakeAssumption DEF Init, RestOK, NoPacket, Old!Response
<1> QED BY <1>5, <1>6, <1>7 DEF IInv

\* What prepare does with the files before it holds the lock for good: nothing to the
\* graph.
LEMMA CheckFiles ==
  ASSUME IInv, Check
  PROVE  /\ disk' \in Files(DOMAIN saved) /\ disk'.node = disk.node /\ disk'.cur = disk.cur
         /\ reading'.pc = "idle" \/ (disk' = disk /\ reading' = [reading EXCEPT !.pc = "checked"]
                                     /\ disk.cur # "WAITING_FOR_HUMAN")
         /\ reading' = NoReading \/ reading' = [reading EXCEPT !.pc = "checked"]
         /\ packet' \in {packet, NoPacket}
<1>0. disk \in Files(DOMAIN saved) BY DEF IInv, GraphOK
<1>1. CASE disk.cur # "WAITING_FOR_HUMAN" /\ ~PreflightBlocks(prd, reading.env)
  BY <1>0, <1>1 DEF Check
<1>2. CASE ~(disk.cur # "WAITING_FOR_HUMAN" /\ ~PreflightBlocks(prd, reading.env))
  <2> DEFINE r == Old!PrepareLocked(Old!Start(disk), reading.requested, FALSE, FALSE)
  <2>1. End(r, packet) BY <1>2 DEF Check
  <2>2. disk' = Old!Now(r.writes) /\ reading' = NoReading /\ packet' \in {packet, NoPacket}
    <3> HIDE DEF r
    <3> QED BY <2>1 DEF End
  <2>3. Old!Now(r.writes) \in Files(DOMAIN saved) /\ Old!Now(r.writes).node = disk.node
        /\ Old!Now(r.writes).cur = disk.cur
    BY <1>0, StoppedFiles
  <2> HIDE DEF r
  <2>4. NoReading.pc = "idle" BY DEF NoReading
  <2> QED BY <2>2, <2>3, <2>4
<1> QED BY <1>1, <1>2

\* What the locked part of prepare leaves, whatever its parse finds.
LEMMA PlanFiles ==
  ASSUME IInv, Plan
  PROVE  /\ disk' \in Files(DOMAIN Built) /\ saved' = Built
         /\ BeginsInOrder(Built, disk.node, disk'.node) /\ CompletedKept(disk.node, disk'.node)
         /\ reading' = NoReading
         /\ \/ packet' \in {packet, NoPacket}
            \/ /\ Usable(prd) /\ packet'.source = prd
               /\ packet'.phase \in DOMAIN Built
<1> DEFINE r == New!PrepareLocked(New!Start(disk), reading.requested,
                                  Usable(prd), reading.env.git = "dirty")
           e == New!Now(r.writes)
           held == IF r.reply = "prepared"
                   THEN [phase |-> e.ex.phase, source |-> prd, content |-> Packet(prd, e.ex.phase)]
                   ELSE packet
<1>1. /\ disk \in Files(DOMAIN saved) /\ disk.cur # "WAITING_FOR_HUMAN"
      /\ reading.requested \in Old!PhaseId
      /\ Built \in [DOMAIN Built -> SUBSET DOMAIN Built] /\ DOMAIN Built \subseteq Phase
  BY BuiltType DEF IInv, GraphOK, ReadingOK, Plan, Locked
<1>2. End(r, held) /\ saved' = Built BY DEF Plan
<1>3. /\ e \in Files(DOMAIN Built)
      /\ BeginsInOrder(Built, disk.node, e.node) /\ CompletedKept(disk.node, e.node)
      /\ r.reply = "prepared" => Usable(prd) /\ e.ex.phase \in DOMAIN Built
  <2> DEFINE dirty == reading.env.git = "dirty"
  <2>1. dirty \in BOOLEAN OBVIOUS
  <2>2. CASE Usable(prd)
    <3>1. Usable(prd) = TRUE BY <2>2 DEF Usable
    <3> HIDE DEF dirty
    <3> QED BY <1>1, <2>1, <2>2, <3>1, PreparedFiles DEF dirty
  \* A PRD that can no longer be read stops prepare; the graph is left as it is.
  <2>3. CASE ~Usable(prd)
    <3> DEFINE h == Old!Start(disk)
               f == [disk EXCEPT !.ex = Fresh(NoPhase, FALSE)]
    <3>1. Built = saved BY <2>3 DEF Built
    <3>2. Reached(h, disk) BY OldStart
    <3>3. New!Now(h) = disk /\ New!Start(disk) = h BY <3>2, SameWrites DEF Reached
    <3> HIDE DEF h, dirty
    <3>4. r.writes = New!RefusalFor(h, NoPhase) /\ r.reply = "refused"
      BY <1>1, <2>3, <3>3, SameSets DEF New!PrepareLocked, New!Return
    <3> HIDE DEF r
    <3>5. Reached(New!RefusalFor(h, NoPhase), f) BY <3>2, NewWrites
    <3>6. f \in Files(DOMAIN saved) /\ f.node = disk.node BY <1>1, SameSets DEF Files
    <3> HIDE DEF f
    <3>7. e = f BY <3>4, <3>5, SameWrites DEF Reached
    <3> QED BY <3>1, <3>4, <3>6, <3>7 DEF BeginsInOrder, CompletedKept, Files
  <2> QED BY <2>2, <2>3
<1> HIDE DEF r
<1>4. disk' = e /\ reading' = NoReading /\ packet' \in {held, NoPacket}
  <2> HIDE DEF held
  <2> QED BY <1>2, SameWrites DEF End
<1>5. \/ packet' \in {packet, NoPacket}
      \/ Usable(prd) /\ packet'.source = prd /\ packet'.phase \in DOMAIN Built
  BY <1>3, <1>4
<1> QED BY <1>2, <1>3, <1>4, <1>5

\* verify writes a verdict and begins no phase.
LEMMA VerifyFiles ==
  ASSUME GraphOK, Verify
  PROVE  Later(DOMAIN saved, disk, disk')
<1>1. \E status : disk' = Old!Now(Old!PersistVerify(Old!Start(disk), Reads(status), disk.ex.phase).writes)
                  /\ Reads(status) \in Old!Verdict
  <2>1. \A product, confirmed : Reads(RunChecks(packet.content, product, confirmed)) \in Old!Verdict
    BY DEF RunChecks, Finalize, Reads, Old!Verdict
  <2> QED BY <2>1 DEF Verify
<1>2. disk \in Files(DOMAIN saved) /\ disk.ex.phase \in Old!PhaseId
  BY DEF GraphOK, Files, Old!Execution
<1> QED BY <1>1, <1>2, JudgedFiles

\* resume changes state.json alone.
LEMMA ResumeFiles ==
  ASSUME GraphOK, Resume
  PROVE  disk' \in Files(DOMAIN saved) /\ disk'.node = disk.node
<1> DEFINE cur == IF disk.req.kind = "runtime" THEN "COMPLETED" ELSE "VERIFICATION_FAILED"
           r == Old!Resume(disk, resp)
           e == [disk EXCEPT !.cur = cur, !.phase = disk.phase]
<1>1. disk \in Files(DOMAIN saved) BY DEF GraphOK
<1>2. Reached(Old!Start(disk), disk) BY OldStart
<1>3. r.writes \in {Old!Start(disk), Old!Save(Old!Start(disk), cur, disk.phase)}
  BY DEF Old!Resume, Old!Return
<1>4. e \in Files(DOMAIN saved) /\ e.node = disk.node BY <1>1 DEF Files, Old!CurrentState
<1> HIDE DEF e
<1>5. Reached(Old!Save(Old!Start(disk), cur, disk.phase), e) BY <1>2, OldWrites DEF e
<1> HIDE DEF r
<1>6. Old!Now(r.writes) \in {disk, e} BY <1>2, <1>3, <1>5 DEF Reached
<1> QED BY <1>1, <1>4, <1>6 DEF Resume, r

\* Every step preserves it.
LEMMA StepIInv ==
  ASSUME IInv, [Next]_vars
  PROVE  IInv'
<1>0. GraphOK /\ ReadingOK /\ RestOK BY DEF IInv
<1>1. CASE Edit
  <2>1. GraphOK' BY <1>0, <1>1 DEF Edit, GraphOK
  <2>2. ReadingOK' BY <1>0, <1>1 DEF Edit, ReadingOK, Locked
  <2>3. RestOK' BY <1>0, <1>1, IntakeAssumption DEF Edit, RestOK
  <2> QED BY <2>1, <2>2, <2>3 DEF IInv
<1>2. ASSUME NEW call \in Calls, Gate(call.env, call.requested) PROVE IInv'
  <2>1. GraphOK' BY <1>0, <1>2 DEF Gate, GraphOK
  <2>2. ReadingOK' BY <1>0, <1>2, IntakeAssumption, SameSets DEF Gate, ReadingOK, Locked
  <2>3. RestOK' BY <1>0, <1>2 DEF Gate, RestOK
  <2> QED BY <2>1, <2>2, <2>3 DEF IInv
<1>3. CASE Check
  <2>1. /\ disk' \in Files(DOMAIN saved) /\ disk'.cur = disk.cur
        /\ reading'.pc = "idle" \/ disk.cur # "WAITING_FOR_HUMAN"
        /\ reading' = NoReading \/ reading' = [reading EXCEPT !.pc = "checked"]
        /\ packet' \in {packet, NoPacket}
        /\ UNCHANGED <<prd, edits, saved, resp>> /\ reading.pc = "gated"
    BY <1>3, CheckFiles DEF Check
  <2>2. GraphOK' BY <1>0, <2>1 DEF GraphOK
  <2>3. ReadingOK'
    <3>1. CASE reading' = NoReading
      BY <3>1, SameSets DEF ReadingOK, Locked, NoReading
    <3>2. CASE reading' = [reading EXCEPT !.pc = "checked"]
      <4>1. /\ reading'.pc = "checked" /\ reading'.edited = reading.edited
            /\ reading' \in [pc : {"idle", "gated", "checked"}, env : {reading'.env},
                            requested : Old!PhaseId, edited : BOOLEAN]
        BY <1>0, <3>2 DEF ReadingOK
      <4>2. Locked' => disk'.cur # "WAITING_FOR_HUMAN" BY <2>1, <4>1
      <4>3. reading.edited \/ ~Rejected(prd) BY <1>0, <2>1 DEF ReadingOK
      <4> QED BY <2>1, <4>1, <4>2, <4>3 DEF ReadingOK
    <3> QED BY <2>1, <3>1, <3>2
  <2>4. RestOK' BY <1>0, <2>1 DEF RestOK, NoPacket
  <2> QED BY <2>2, <2>3, <2>4 DEF IInv
<1>4. CASE Plan
  <2>1. /\ disk' \in Files(DOMAIN Built) /\ saved' = Built /\ reading' = NoReading
        /\ packet' \in {packet, NoPacket} \/ packet'.phase \in DOMAIN Built
        /\ UNCHANGED <<prd, edits, resp>>
    BY <1>4, PlanFiles DEF Plan
  <2>2. Built \in [DOMAIN Built -> SUBSET DOMAIN Built] /\ DOMAIN Built \subseteq Phase
    BY <1>0, BuiltType
  <2>3. GraphOK'
    <3> DEFINE g == Built
    <3>1. saved' = g /\ disk' \in Files(DOMAIN g) /\ g \in [DOMAIN g -> SUBSET DOMAIN g]
          /\ DOMAIN g \subseteq Phase
      BY <2>1, <2>2
    <3> HIDE DEF g
    <3> QED BY <3>1 DEF GraphOK
  <2>4. ReadingOK' BY <2>1, SameSets DEF ReadingOK, Locked, NoReading
  <2>5. RestOK' BY <1>0, <2>1, <2>2 DEF RestOK, NoPacket
  <2> QED BY <2>3, <2>4, <2>5 DEF IInv
<1>5. CASE Verify
  <2>1. ~Locked /\ UNCHANGED <<prd, edits, saved, reading, packet>> BY <1>5 DEF Verify
  <2>2. disk' \in Files(DOMAIN saved) BY <1>0, <1>5, VerifyFiles DEF Later
  <2>3. resp' \in Old!Response BY <1>0, <1>5 DEF Verify, RestOK, Old!Response
  <2>4. GraphOK' BY <1>0, <2>1, <2>2 DEF GraphOK
  <2>5. ReadingOK' BY <1>0, <2>1 DEF ReadingOK, Locked
  <2>6. RestOK' BY <1>0, <2>1, <2>3 DEF RestOK
  <2> QED BY <2>4, <2>5, <2>6 DEF IInv
<1>6. ASSUME NEW confirmed \in BOOLEAN, Feedback(confirmed) PROVE IInv'
  <2>1. GraphOK' BY <1>0, <1>6 DEF Feedback, GraphOK
  <2>2. ReadingOK' BY <1>0, <1>6 DEF Feedback, ReadingOK, Locked
  <2>3. RestOK' BY <1>0, <1>6 DEF Feedback, RestOK, Old!Response
  <2> QED BY <2>1, <2>2, <2>3 DEF IInv
<1>7. CASE Resume
  <2>1. ~Locked /\ UNCHANGED <<prd, edits, saved, reading, packet, resp>> BY <1>7 DEF Resume
  <2>2. disk' \in Files(DOMAIN saved) BY <1>0, <1>7, ResumeFiles
  <2>4. GraphOK' BY <1>0, <2>1, <2>2 DEF GraphOK
  <2>5. ReadingOK' BY <1>0, <2>1 DEF ReadingOK, Locked
  <2>6. RestOK' BY <1>0, <2>1 DEF RestOK
  <2> QED BY <2>4, <2>5, <2>6 DEF IInv
<1>8. CASE UNCHANGED vars
  BY <1>0, <1>8 DEF vars, IInv, GraphOK, ReadingOK, RestOK, Locked
<1> QED BY <1>1, <1>2, <1>3, <1>4, <1>5, <1>6, <1>7, <1>8 DEF Next

-----------------------------------------------------------------------------
\* The theorems

\* prepare, verify, feedback and resume keep the files well-formed while the PRD
\* changes under them: graph.json has statuses for exactly its own phases
\* (prepare.go, graphutil.go mergeGraphStatus).
THEOREM IntakeTypeCorrect == Spec => []TypeOK
<1>1. IInv => TypeOK
  BY DEF IInv, GraphOK, ReadingOK, RestOK, Files, TypeOK
<1> QED BY <1>1, InitIInv, StepIInv, PTL DEF Spec

\* Which statuses a step may change: those of the locked part of prepare, and those of
\* a verdict, which begins no phase.
LEMMA StatusStep ==
  ASSUME IInv, [Next]_vars
  PROVE  \/ Plan
         \/ /\ saved' = saved /\ NoneBegins(disk.node, disk'.node)
            /\ reading.pc = "checked" => disk'.node = disk.node
<1>0. disk.node \in [DOMAIN saved -> Status] BY DEF IInv, GraphOK, Files
<1>1. CASE Edit BY <1>0, <1>1 DEF Edit, NoneBegins
<1>2. ASSUME NEW call \in Calls, Gate(call.env, call.requested)
      PROVE  saved' = saved /\ disk' = disk
  BY <1>2 DEF Gate
<1>3. CASE Check BY <1>3, CheckFiles DEF Check, NoneBegins
<1>4. CASE Verify
  BY <1>4, VerifyFiles DEF Verify, IInv, GraphOK, Later, Locked
<1>5. ASSUME NEW confirmed \in BOOLEAN, Feedback(confirmed)
      PROVE  saved' = saved /\ disk' = disk
  BY <1>5 DEF Feedback
<1>6. CASE Resume
  BY <1>6, ResumeFiles DEF Resume, IInv, GraphOK, Locked, NoneBegins
<1>7. CASE UNCHANGED vars BY <1>7 DEF vars, NoneBegins
<1> QED BY <1>1, <1>2, <1>3, <1>4, <1>5, <1>6, <1>7 DEF Next, NoneBegins

\* prepare begins a phase only when all that the PRD it has just read makes it depend
\* on is COMPLETED, whatever the graph was when those phases were completed
\* (graphutil.go selectRunnablePhase after mergeGraphStatus).
THEOREM PhasesStartInOrder == Spec => StartsInOrder
<1> DEFINE A == \A p \in DOMAIN disk'.node :
                  disk'.node[p] = "RUNNING" /\ (p \in DOMAIN disk.node => disk.node[p] # "RUNNING")
                    => \A d \in saved'[p] : disk'.node[d] = "COMPLETED"
<1>1. ASSUME IInv, [Next]_vars PROVE A
  <2>1. CASE Plan
    <3>1. saved' = Built /\ BeginsInOrder(Built, disk.node, disk'.node)
      BY <1>1, <2>1, PlanFiles
    <3> QED BY <3>1 DEF BeginsInOrder
  <2>2. CASE NoneBegins(disk.node, disk'.node) BY <2>2 DEF NoneBegins
  <2> QED BY <1>1, <2>1, <2>2, StatusStep
<1>2. IInv /\ [Next]_vars => [A]_vars BY <1>1
<1> QED BY <1>2, InitIInv, StepIInv, PTL DEF Spec, StartsInOrder

\* prepare loses no COMPLETED phase that the PRD still declares, however it was edited
\* (graphutil.go mergeGraphStatus).
THEOREM CompletedIsKept == Spec => CompletedSurvivesEdits
<1> DEFINE A == reading.pc = "checked" =>
                  \A p \in DOMAIN disk.node \cap DOMAIN disk'.node :
                    disk.node[p] = "COMPLETED" => disk'.node[p] = "COMPLETED"
<1>1. ASSUME IInv, [Next]_vars PROVE A
  <2>1. CASE Plan BY <1>1, <2>1, PlanFiles DEF CompletedKept
  <2>2. CASE reading.pc = "checked" => disk'.node = disk.node BY <2>2
  <2> QED BY <1>1, <2>1, <2>2, StatusStep
<1>2. IInv /\ [Next]_vars => [A]_vars BY <1>1
<1> QED BY <1>2, InitIInv, StepIInv, PTL DEF Spec, CompletedSurvivesEdits

\* A packet is made only from a PRD whose last read had no error, for a phase it
\* declares; and only an edit between the reads makes it one that the contract gate
\* would have rejected (prepare.go: gate, preflight and parse read PRD.md each).
THEOREM PacketsComeFromValidPRDs == Spec => PacketsAreSound
<1> DEFINE A == packet' # packet /\ packet' # NoPacket =>
                  /\ ParseErrors(packet'.source) = {} /\ GraphErrors(packet'.source) = {}
                  /\ packet'.phase \in Declared(packet'.source)
                  /\ reading.edited \/ ~Rejected(packet'.source)
<1>1. ASSUME IInv, [Next]_vars PROVE A
  <2>1. CASE Plan
    <3>1. \/ packet' \in {packet, NoPacket}
          \/ Usable(prd) /\ packet'.source = prd /\ packet'.phase \in DOMAIN Built
      BY <1>1, <2>1, PlanFiles
    <3>2. Usable(prd) => DOMAIN Built = Declared(prd) BY <1>1, BuiltType DEF IInv
    <3>3. reading.edited \/ ~Rejected(prd) BY <1>1, <2>1 DEF IInv, ReadingOK, Plan
    <3> QED BY <3>1, <3>2, <3>3 DEF Usable
  <2>2. CASE Check BY <1>1, <2>2, CheckFiles
  <2>3. CASE packet' = packet BY <2>3
  <2> QED BY <1>1, <2>1, <2>2, <2>3
          DEF Next, vars, Edit, Gate, Verify, Feedback, Resume
<1>2. IInv /\ [Next]_vars => [A]_vars BY <1>1
<1> QED BY <1>2, InitIInv, StepIInv, PTL DEF Spec, PacketsAreSound
=============================================================================
