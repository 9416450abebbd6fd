---------------------------- MODULE Verification ----------------------------
(***************************************************************************)
(* From a phase of the PRD to a verdict: the planner writes a packet       *)
(* (internal/plan), the test engine turns it into checks, makes them on    *)
(* the product and judges (internal/testeng).                              *)
(*                                                                         *)
(* A product is what the checks observe:                                   *)
(*   go      there is a go.mod                                             *)
(*   git     the changes since the baseline can be read                    *)
(*   tests   how go test ./... ends: pass, fail, timeout or error          *)
(*   files   the expected outputs inside the product exist                 *)
(*   symbol  the function a criterion names is present, absent, or a file  *)
(*           could not be read before it was found ("unreadable")          *)
(***************************************************************************)
EXTENDS Contract

Product == [go : BOOLEAN, git : BOOLEAN, tests : {"pass", "fail", "timeout", "error"},
            files : BOOLEAN, symbol : {"present", "absent", "unreadable"}]

\* The first phase with an identifier; the planner refuses PRDs with errors, so
\* it is the only one.
PhaseOf(doc, p) ==
  doc.phases[CHOOSE i \in DOMAIN doc.phases :
               doc.phases[i].id = p /\ \A j \in 1..(i - 1) : doc.phases[j].id # p]

\* lookupReqs, lookupACs: an identifier nothing declares keeps an empty text.
TextOf(items, id) ==
  IF id \in ToSet(Ids(items)) THEN items[CHOOSE i \in DOMAIN items : items[i].id = id].text
  ELSE {}
Lookup(items, ids) == [i \in DOMAIN ids |-> [id |-> ids[i], text |-> TextOf(items, ids[i])]]

\* Packet, of a PRD without errors.  The planner fills in no test commands.
Packet(doc, p) ==
  LET phase == PhaseOf(doc, p)
  IN  [phase |-> p, reqs |-> Lookup(doc.reqs, phase.reqs),
       acs |-> Lookup(doc.acs, phase.acs), tests |-> phase.tests,
       outputs |-> phase.outputs, dod |-> phase.dod]

-----------------------------------------------------------------------------
\* Planning the checks.  All of them are required in a Go project.

\* acceptanceCheck: what can be checked of a criterion; the first match counts.
CriterionCheck(text, go) ==
  IF "tests pass" \in text THEN "dod"
  ELSE IF "implement Symbol" \in text /\ go THEN "symbol"
  ELSE "acceptance"

\* BuildPlan, as the kinds of its checks.  A criterion without a text is checked
\* by its identifier, a definition of done without a text and an output that is
\* no path are not checked.
BuildPlan(packet, go) ==
  (IF go THEN {"go test"} ELSE {})
    \cup (IF packet.tests # << >> THEN {"test id"} ELSE {})
    \cup {IF out = "inside" THEN "file" ELSE "file outside" :
            out \in ToSet(packet.outputs) \ {"prose"}}
    \cup {CriterionCheck(packet.acs[i].text, go) : i \in DOMAIN packet.acs}
    \cup {CriterionCheck(text, go) : text \in ToSet(packet.dod) \ {{}}}

-----------------------------------------------------------------------------
\* Making them

\* What go test means for a check that is mapped to it.
Mapped(tests) == CASE tests = "pass"    -> "pass"
                   [] tests = "timeout" -> "timeout"
                   [] OTHER             -> "fail"

\* Run, one check.  A path outside the product cannot be resolved.
Outcome(check, product) ==
  CASE check = "go test"      -> product.tests
    [] check \in {"test id", "dod"} -> Mapped(product.tests)
    [] check = "file"         -> IF product.files THEN "pass" ELSE "fail"
    [] check = "file outside" -> "fail"
    [] check = "symbol"       -> CASE product.symbol = "present" -> "pass"
                                   [] product.symbol = "absent"  -> "fail"
                                   [] OTHER                      -> "error"
    [] OTHER                  -> "manual"

\* Mutant: once tests pass nothing but a criterion for a human is looked at.
FinalizeTrusting(outcomes, testsPass, confirmed) ==
  IF "timeout" \in outcomes THEN "TIMEOUT"
  ELSE IF "error" \in outcomes /\ ~testsPass THEN "INFRASTRUCTURE"
  ELSE IF ~testsPass THEN "FAILED"
  ELSE IF "manual" \in outcomes /\ ~confirmed THEN "MANUAL" ELSE "VERIFIED"

\* finalize.  An unreadable file is a failure, not an infrastructure problem,
\* when the tests pass.
Finalize(outcomes, testsPass, confirmed) ==
  IF "timeout" \in outcomes THEN "TIMEOUT"
  ELSE IF "error" \in outcomes /\ ~testsPass THEN "INFRASTRUCTURE"
  ELSE IF {"fail", "error"} \cap outcomes # {} THEN "FAILED"
  ELSE IF ~testsPass THEN "INCOMPLETE"
  ELSE IF "manual" \in outcomes /\ ~confirmed THEN "MANUAL" ELSE "VERIFIED"

\* Run
RunChecks(packet, product, confirmed) ==
  IF ~product.git THEN "INFRASTRUCTURE"
  ELSE IF ~product.go THEN "UNSUPPORTED"
  ELSE Finalize({Outcome(check, product) : check \in BuildPlan(packet, product.go)},
                product.tests = "pass", confirmed)
=============================================================================
