------------------------------ MODULE Contract ------------------------------
(***************************************************************************)
(* What the program reads out of a parsed PRD before it starts to work:    *)
(* the parser's own validation and the contract gate (internal/prd), and   *)
(* the construction of the phase graph (internal/graph/build.go).          *)
(*                                                                         *)
(* A document is the record the parser leaves.  Text is abstracted to the  *)
(* set of phrases some regular expression of the gate looks for; an empty  *)
(* set is an empty text.  Requirements, criteria and tests carry their     *)
(* number for an identifier.                                               *)
(***************************************************************************)
EXTENDS PhaseGraph

CONSTANTS Service,      \* external services the gate knows by name
          NeedsKey      \* those of them that never work without a credential

ASSUME ContractAssumption == NeedsKey \subseteq Service

Section == {"overview", "goals", "non_goals", "dependencies", "credentials",
            "security", "testing", "completion"}

\* "plain" is text none of the expressions matches.  "sensitive" is a mention
\* of login, secrets or payments, "denied" one after a "no" or a "without".
Phrase == {"plain", "vague", "testable", "decide later", "in scope",
           "definition of done", "local run", "sensitive", "denied", "constraint",
           "ios", "android", "ambiguous platform", "credential",
           "tests pass", "implement Symbol",
           "on the device", "in the cloud", "be public", "be private",
           "http only", "https only", "not persist", "persist",
           "offline only", "online only", "must log", "must not log"}

\* Names of credentials: a word, two words preflight knows, two it does not.
CredName == {"SERVICE_KEY", "github token", "billing password"}
OneWord == {"SERVICE_KEY"}

\* What an expected output is: a file of the product, a path that leaves the
\* product root, or prose.
Output == {"inside", "outside", "prose"}

\* [sections : [Section -> {"absent", "empty", "prose", "list"}],
\*  prose : SUBSET Phrase,                     outside of items and of the next
\*  security : SUBSET Phrase,                 the sections security, credentials
\*  reqs, acs : Seq([id : Nat, text : SUBSET Phrase]),
\*  tests : Seq(Nat),
\*  phases : Seq([id : Phase, named : BOOLEAN, deps : Seq(Phase), reqs, acs,
\*                tests : Seq(Nat), outputs : Seq(Output), dod : Seq(SUBSET Phrase)]),
\*  services, declared, specified : SUBSET Service,   mentioned; declared as a
\*                                            dependency; with a behaviour
\*  tools : Seq([bin : STRING, optional : BOOLEAN]),  declared dependencies
\*  creds : SUBSET CredName]

Present(doc, s) == doc.sections[s] # "absent"
Filled(doc, s) == doc.sections[s] \in {"prose", "list"}
Ids(items) == [i \in DOMAIN items |-> items[i].id]
Declared(doc) == ToSet(Ids(doc.phases))

\* The gate matches phrases in the whole text, items included.
Mentions(doc) ==
  doc.prose \cup doc.security
    \cup UNION {doc.reqs[i].text : i \in DOMAIN doc.reqs}
    \cup UNION {doc.acs[i].text : i \in DOMAIN doc.acs}
    \cup UNION {UNION ToSet(doc.phases[i].dod) : i \in DOMAIN doc.phases}
Mentioned(doc) == doc.services \cup doc.declared

-----------------------------------------------------------------------------
\* Parser errors

\* validate: what it reports with severity error.
ParseErrors(doc) ==
  {e \in {"REQ_DUPLICATE", "AC_DUPLICATE", "TEST_DUPLICATE", "PHASE_DUPLICATE",
          "REQ_MALFORMED", "MISSING_REQUIRED_FIELD", "PHASE_MALFORMED"} :
     CASE e = "REQ_DUPLICATE"   -> ~IsInjective(Ids(doc.reqs))
       [] e = "AC_DUPLICATE"    -> ~IsInjective(Ids(doc.acs))
       [] e = "TEST_DUPLICATE"  -> ~IsInjective(doc.tests)
       [] e = "PHASE_DUPLICATE" -> ~IsInjective(Ids(doc.phases))
       [] e = "REQ_MALFORMED"   -> \E i \in DOMAIN doc.reqs : doc.reqs[i].text = {}
       [] e = "MISSING_REQUIRED_FIELD" -> \E i \in DOMAIN doc.acs : doc.acs[i].text = {}
       [] OTHER                 -> \E i \in DOMAIN doc.phases : ~doc.phases[i].named}

-----------------------------------------------------------------------------
\* The depth-first search both cycle finders make

\* Mutant: a node left for good is taken for one on the stack.
OnStackOrLeft(s, v) == v \in ToSet(s.stack) \cup s.left
OnStack(s, v) == v \in ToSet(s.stack)

\* One step: the top of the stack looks at its next successor.  found is the
\* node on the stack that a successor leads back to.
SearchStep(succ, s) ==
  LET u == Last(s.stack)
      v == succ[u][s.at[u] + 1]
      next == [s EXCEPT !.at[u] = @ + 1]
  IN  IF s.found # NoPhase \/ s.stack = << >> THEN s
      ELSE IF s.at[u] = Len(succ[u]) THEN [s EXCEPT !.stack = Front(@), !.left = @ \cup {u}]
      ELSE IF OnStack(s, v) THEN [s EXCEPT !.found = v]
      ELSE IF v \in s.left THEN next
      ELSE [next EXCEPT !.stack = Append(@, v)]

\* dfs from every root not yet left, in order, until something is found.
Search(succ, roots) ==
  LET steps == SumFunction([p \in Phase |-> Len(succ[p]) + 1])
      From(s, r) == IF s.found # NoPhase \/ r \in s.left THEN s
                    ELSE FoldLeft(LAMBDA t, i : SearchStep(succ, t),
                                  [s EXCEPT !.stack = <<r>>], [i \in 1..steps |-> i])
  IN  FoldLeft(From, [stack |-> << >>, at |-> [p \in Phase |-> 0], left |-> {},
                      found |-> NoPhase], roots)

\* phaseCycle: the whole path and the phase met again, << >> without a cycle.
\* Of phases with the same identifier the last one's dependencies count.
PhaseCycle(doc) ==
  LET last(p) == CHOOSE i \in DOMAIN doc.phases :
                   doc.phases[i].id = p /\ \A j \in DOMAIN doc.phases :
                                             doc.phases[j].id = p => j <= i
      succ == [p \in Phase |-> IF p \in Declared(doc) THEN doc.phases[last(p)].deps
                                                      ELSE << >>]
      s == Search(succ, Ids(doc.phases))
  IN  IF s.found = NoPhase THEN << >> ELSE Append(s.stack, s.found)

-----------------------------------------------------------------------------
\* The contract gate.  Each Blocks... is whether one check of ValidateContract
\* has a BLOCKING finding.

BlocksStructure(doc) ==
  \/ ParseErrors(doc) # {}
  \/ ~Present(doc, "overview") /\ ~Present(doc, "goals")

\* Goals are the list items of their section.
BlocksObjective(doc) == ~Filled(doc, "overview") /\ doc.sections["goals"] # "list"

BlocksScope(doc) ==
  /\ ~Filled(doc, "non_goals") /\ "in scope" \notin Mentions(doc)
  /\ \/ Len(doc.reqs) >= 3
     \/ Mentioned(doc) # {}
     \/ {"sensitive", "denied"} \cap Mentions(doc) # {}

Subjective(text) == text = {} \/ ("vague" \in text /\ "testable" \notin text)

BlocksRequirements(doc) ==
  \/ doc.reqs = << >>
  \/ \E i \in DOMAIN doc.reqs : Subjective(doc.reqs[i].text)

\* A criterion covers the requirement with its number; so does any criterion of
\* a phase that lists the requirement.
Covered(doc, r) ==
  \/ r \in ToSet(Ids(doc.acs))
  \/ \E i \in DOMAIN doc.phases :
       r \in ToSet(doc.phases[i].reqs) /\ doc.phases[i].acs # << >>

BlocksAcceptance(doc) ==
  /\ doc.reqs # << >>
  /\ \/ doc.acs = << >>
     \/ \E i \in DOMAIN doc.acs : Subjective(doc.acs[i].text)
     \/ \E r \in ToSet(Ids(doc.reqs)) : ~Covered(doc, r)

\* The pairs are not symmetric: the second phrase must come after the first.
Exclusive == {<<"on the device", "in the cloud">>, <<"in the cloud", "on the device">>,
              <<"be public", "be private">>, <<"http only", "https only">>,
              <<"not persist", "persist">>, <<"offline only", "online only">>}

ContradictsMust(a, b) ==
  \/ "must not log" \in a /\ "must log" \in b
  \/ "must not log" \in b /\ "must log" \in a

BlocksConflicts(doc) ==
  \E i, j \in DOMAIN doc.reqs :
    /\ i < j
    /\ LET a == doc.reqs[i].text
           b == doc.reqs[j].text
       IN  (\E e \in Exclusive : e[1] \in a /\ e[2] \in b) \/ ContradictsMust(a, b)

\* An ambiguous platform is none when exactly one mobile system is named.
BlocksRuntime(doc) ==
  /\ "ambiguous platform" \in Mentions(doc)
  /\ ("ios" \in Mentions(doc)) <=> ("android" \in Mentions(doc))

BlocksDependencies(doc) == ~(Mentioned(doc) \subseteq doc.declared)

BlocksCredentials(doc) ==
  /\ "credential" \in Mentions(doc) \/ Mentioned(doc) \cap NeedsKey # {}
  /\ doc.creds = {} \/ doc.creds \cap OneWord # {}

SelfDependent(doc) ==
  \E i \in DOMAIN doc.phases : doc.phases[i].id \in ToSet(doc.phases[i].deps)
UnknownDependency(doc) ==
  \E i \in DOMAIN doc.phases : ~(ToSet(doc.phases[i].deps) \subseteq Declared(doc))

\* Mutant: no search for a cycle.
BlocksPhasesLocally(doc) == SelfDependent(doc) \/ UnknownDependency(doc)
BlocksPhases(doc) ==
  SelfDependent(doc) \/ UnknownDependency(doc) \/ PhaseCycle(doc) # << >>

BlocksDoD(doc) ==
  /\ \A i \in DOMAIN doc.phases : doc.phases[i].dod = << >>
  /\ ~Present(doc, "completion") /\ "definition of done" \notin Mentions(doc)

BlocksTesting(doc) ==
  doc.reqs # << >> /\ doc.tests = << >> /\ ~Present(doc, "testing")
    /\ "local run" \notin Mentions(doc)

BlocksSecurity(doc) ==
  /\ "sensitive" \in Mentions(doc)
  /\ ~(Present(doc, "security") /\ {"constraint", "denied"} \cap doc.security # {})
  /\ ~("constraint" \in Mentions(doc) /\ (Filled(doc, "security") \/ Filled(doc, "credentials")))

BlocksIntegrations(doc) == ~(Mentioned(doc) \subseteq doc.specified)

BlocksDecisions(doc) == "decide later" \in Mentions(doc)

\* ValidateContract with finalize: one blocking finding rejects.
Rejected(doc) ==
  \/ BlocksStructure(doc) \/ BlocksObjective(doc) \/ BlocksScope(doc)
  \/ BlocksRequirements(doc) \/ BlocksAcceptance(doc) \/ BlocksConflicts(doc)
  \/ BlocksRuntime(doc) \/ BlocksDependencies(doc) \/ BlocksCredentials(doc)
  \/ BlocksPhases(doc) \/ BlocksDoD(doc) \/ BlocksTesting(doc)
  \/ BlocksSecurity(doc) \/ BlocksIntegrations(doc) \/ BlocksDecisions(doc)

-----------------------------------------------------------------------------
\* The phase graph

\* FromDocument and FromSpecs: later phases with a known identifier add no node,
\* but their dependencies are edges all the same.
Edges(doc) ==
  [p \in Declared(doc) |->
     {d \in Declared(doc) \ {p} :
        \E i \in DOMAIN doc.phases : doc.phases[i].id = p /\ d \in ToSet(doc.phases[i].deps)}]

\* detectCycles: from the phases in order along their dependents; of the path
\* only what lies on the cycle.
DetectedCycle(deps) ==
  LET succ == [p \in Phase |-> SetToSortSeq(Dependents(deps, p), <)]
      s == Search(succ, SetToSortSeq(DOMAIN deps, <))
      from == CHOOSE i \in DOMAIN s.stack : s.stack[i] = s.found
  IN  IF s.found = NoPhase THEN << >>
      ELSE Append(SubSeq(s.stack, from, Len(s.stack)), s.found)

GraphErrors(doc) ==
  {e \in {"DUPLICATE_NODE", "SELF_DEPENDENCY", "UNKNOWN_DEPENDENCY", "CYCLE"} :
     CASE e = "DUPLICATE_NODE"     -> ~IsInjective(Ids(doc.phases))
       [] e = "SELF_DEPENDENCY"    -> SelfDependent(doc)
       [] e = "UNKNOWN_DEPENDENCY" -> UnknownDependency(doc)
       [] OTHER                    -> DetectedCycle(Edges(doc)) # << >>}
=============================================================================
