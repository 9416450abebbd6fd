------------------------------ MODULE MCIntake ------------------------------
\* Intake on documents of up to three phases: every dependency list for drafts,
\* one flaw for each check of the gate, and revisions that change the graph, the
\* criteria or the phases.
EXTENDS Intake

Text(words) == [i \in 1..1 |-> [id |-> 1, text |-> words]]

PhaseSpec(p, deps) ==
  [id |-> p, named |-> TRUE, deps |-> deps, reqs |-> <<1>>, acs |-> <<1>>,
   tests |-> << >>, outputs |-> <<"inside">>, dod |-> <<{"tests pass"}>>]

Base ==
  [sections |-> [s \in Section |-> IF s = "goals" THEN "list" ELSE "prose"],
   prose |-> {"plain"}, security |-> {"plain"},
   reqs |-> Text({"testable"}), acs |-> Text({"tests pass", "testable"}), tests |-> <<1>>,
   phases |-> <<PhaseSpec(1, << >>), PhaseSpec(2, <<1>>)>>,
   services |-> {}, declared |-> {}, specified |-> {}, tools |-> << >>, creds |-> {}]

\* Every list of dependencies of three phases; of two phases, or twice the same
\* one, which may depend on a third that is not declared.  All of them leave a
\* decision open, so that prepare goes no further than the gate.
Lists == {SetToSortSeq(S, <) : S \in SUBSET Phase}
Open == [Base EXCEPT !.prose = {"decide later"}]
Graphs ==
  {[Open EXCEPT !.phases = <<PhaseSpec(3, c), PhaseSpec(1, a), PhaseSpec(2, b)>>] :
     a, b, c \in Lists}
  \cup {[Open EXCEPT !.phases = <<PhaseSpec(1, a), PhaseSpec(q, b)>>] :
          a, b \in Lists, q \in {1, 2}}

\* Documents with one flaw each, in the order of the checks.
Flawed ==
  {[Base EXCEPT !.reqs = @ \o @],
   [Base EXCEPT !.sections["overview"] = "absent", !.sections["goals"] = "absent"],
   [Base EXCEPT !.sections["overview"] = "empty", !.sections["goals"] = "prose"],
   [Base EXCEPT !.sections["non_goals"] = "absent", !.prose = {"denied"}],
   [Base EXCEPT !.reqs = Text({"vague"})],
   [Base EXCEPT !.acs = << >>],
   [Base EXCEPT !.reqs = <<[id |-> 1, text |-> {"be public"}], [id |-> 2, text |-> {"be private"}]>>],
   [Base EXCEPT !.prose = {"ambiguous platform", "ios", "android"}],
   [Base EXCEPT !.services = {"payments"}, !.specified = {"payments"}],
   [Base EXCEPT !.prose = {"credential"}, !.creds = {"SERVICE_KEY"}],
   [Base EXCEPT !.phases[1].dod = << >>, !.phases[2].dod = << >>, !.sections["completion"] = "absent"],
   [Base EXCEPT !.tests = << >>, !.sections["testing"] = "absent"],
   [Base EXCEPT !.prose = {"sensitive"}],
   [Base EXCEPT !.services = {"payments"}, !.declared = {"payments"}],
   [Base EXCEPT !.prose = {"decide later"}]}

\* Documents the gate accepts, the last two though most checks have something to
\* look at twice.
Accepted ==
  {[Base EXCEPT !.phases = << >>],
   [Base EXCEPT !.phases = <<PhaseSpec(3, <<1, 2>>), PhaseSpec(2, <<1>>), PhaseSpec(1, << >>)>>],
   [Base EXCEPT !.sections["goals"] = "absent", !.sections["non_goals"] = "absent",
                !.sections["testing"] = "absent", !.sections["completion"] = "absent",
                !.reqs = <<[id |-> 1, text |-> {"be private"}], [id |-> 2, text |-> {"be public"}]>>,
                !.phases[1].reqs = <<1, 2>>, !.security = {"denied"},
                !.prose = {"in scope", "ios", "ambiguous platform", "credential", "sensitive"},
                !.creds = {"billing password", "github token"}],
   [Base EXCEPT !.services = {"payments"}, !.declared = {"payments"}, !.specified = {"payments"},
                !.creds = {"billing password"},
                !.tools = <<[bin |-> "docker", optional |-> FALSE],
                            [bin |-> "npm", optional |-> TRUE]>>]}

TheDrafts == Graphs \cup Flawed \cup Accepted

\* Criteria of every kind, one of them not declared; outputs in and out of the
\* product; the dependency the other way round; a phase more, one less.
TheRevisions ==
  {Base,
   [Base EXCEPT !.phases = <<PhaseSpec(2, << >>)>>],
   [Base EXCEPT !.phases = <<PhaseSpec(1, <<2>>), PhaseSpec(2, << >>), PhaseSpec(3, <<1, 2>>)>>],
   [Base EXCEPT !.phases = <<PhaseSpec(1, <<2>>), PhaseSpec(2, <<1>>)>>],
   [Base EXCEPT !.acs = Text({"plain"}), !.phases[1].dod = <<{"implement Symbol"}, {}>>],
   [Base EXCEPT !.phases[1].acs = <<1, 2>>, !.phases[2].outputs = <<"prose", "outside">>],
   [Base EXCEPT !.reqs = Text({})],
   [Base EXCEPT !.prose = {"decide later"}]}

Good == [git |-> "clean", bins |-> KnownBinary, keys |-> HasVariable, agent |-> TRUE]
TheCalls ==
  [env : {Good}, requested : {NoPhase, 2}]
  \cup [env : {[Good EXCEPT !.git = "dirty"], [Good EXCEPT !.git = "no commits"],
               [Good EXCEPT !.bins = @ \ {"docker", "npm"}, !.keys = {}]}, requested : {NoPhase}]

TheProducts == Product
=============================================================================
