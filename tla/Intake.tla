------------------------------- MODULE Intake -------------------------------
(***************************************************************************)
(* The PRD's way through the engine while its author goes on editing it:   *)
(* prepare reads PRD.md three times (the contract gate, preflight and the  *)
(* parse the graph and the packet are built from), verify judges the       *)
(* product by the packet, and the human answers (internal/engine/          *)
(* prepare.go, contract.go, verify.go, over prd, preflight, graph, plan    *)
(* and testeng).                                                           *)
(*                                                                         *)
(* What the commands write is Project's, here for the graph of whichever   *)
(* PRD is read.  There are no crashes and no repairs (see Engine, RunLoop).*)
(***************************************************************************)
EXTENDS Preflight, Verification

CONSTANTS Drafts,        \* the documents a project may begin with
          Revisions,     \* the documents its author may save later
          MaxEdits,      \* how often that happens, a bound for checking
          Calls,         \* how prepare may be called: what its preflight finds,
                         \* and the phase asked for
          Products       \* what the test engine may find

ASSUME IntakeAssumption ==
  /\ MaxEdits \in Nat /\ Products \subseteq Product
  /\ \A doc \in Drafts \cup Revisions : Declared(doc) \subseteq Phase
  /\ \A call \in Calls : call.requested \in Phase \cup {NoPhase}

VARIABLES prd,      \* PRD.md
          edits,    \* how often its author has saved it
          disk,     \* the files of .project/, as Project has them
          saved,    \* the dependencies graph.json has
          reading,  \* the prepare under way
          packet,   \* the packet execution.json refers to
          resp      \* human/response.json

vars == <<prd, edits, disk, saved, reading, packet, resp>>

\* Mutant: only the graph is looked at again.
UsableGraph(doc) == GraphErrors(doc) = {}
\* Whether prepare goes on with what its own parse reads.
Usable(doc) == ParseErrors(doc) = {} /\ GraphErrors(doc) = {}

\* The edges of the graph prepare works on.
Built == IF Usable(prd) THEN Edges(prd) ELSE saved

\* Project on the graph in graph.json, and on the one prepare builds.
Old == INSTANCE Project WITH
  Deps <- saved, Manual <- {}, MaxAttempts <- 1, AutoCommit <- FALSE
New == INSTANCE Project WITH
  Deps <- Built, Manual <- {}, MaxAttempts <- 1, AutoCommit <- FALSE

NoPacket == [phase |-> NoPhase]
NoEnvironment == [git |-> "not installed", bins |-> {}, keys |-> {}, agent |-> FALSE]
NoReading == [pc |-> "idle", env |-> NoEnvironment, requested |-> NoPhase, edited |-> FALSE]

\* The empty function: a graph.json that is not there has no phase.
NoGraph == [p \in {} |-> {}]

Init ==
  /\ prd \in Drafts
  /\ edits = 0
  /\ disk = [Old!EmptyDisk EXCEPT !.node = NoGraph]
  /\ saved = NoGraph
  /\ reading = NoReading
  /\ packet = NoPacket
  /\ resp = [given |-> FALSE, confirmed |-> FALSE, to |-> "old"]

\* The lock is held from preflight on.
Locked == reading.pc = "checked"

-----------------------------------------------------------------------------
\* The author

Edit ==
  /\ edits < MaxEdits
  /\ prd' \in Revisions \ {prd}
  /\ edits' = edits + 1
  /\ reading' = [reading EXCEPT !.edited = reading.pc # "idle"]
  /\ UNCHANGED <<disk, saved, packet, resp>>

-----------------------------------------------------------------------------
\* prepare

\* The writes of a handler end it: a packet stays referred to as long as
\* execution.json has a packet_ref.
End(r, held) ==
  /\ disk' = Old!Now(r.writes)
  /\ packet' = IF disk'.ex.packet THEN held ELSE NoPacket
  /\ reading' = NoReading

\* contractGate, before the lock is taken.  A rejected PRD stops prepare
\* without a trace.
Gate(env, requested) ==
  /\ reading.pc = "idle"
  /\ ~Rejected(prd)
  /\ reading' = [pc |-> "gated", env |-> env, requested |-> requested, edited |-> FALSE]
  /\ UNCHANGED <<prd, edits, disk, saved, packet, resp>>

\* prepareLocked up to preflight.  A project that waits for a human is not
\* looked at any further; there is nothing to recover in a project that has
\* seen no crash.
Check ==
  /\ reading.pc = "gated"
  /\ IF disk.cur # "WAITING_FOR_HUMAN" /\ ~PreflightBlocks(prd, reading.env)
     THEN /\ reading' = [reading EXCEPT !.pc = "checked"]
          /\ UNCHANGED <<disk, packet>>
     ELSE End(Old!PrepareLocked(Old!Start(disk), reading.requested, FALSE, FALSE), packet)
  /\ UNCHANGED <<prd, edits, saved, resp>>

\* The rest of prepareLocked: parse, graph, phase, baseline, packet.
Plan ==
  LET r == New!PrepareLocked(New!Start(disk), reading.requested,
                             Usable(prd), reading.env.git = "dirty")
      p == New!Now(r.writes).ex.phase
  IN  /\ reading.pc = "checked"
      /\ End(r, IF r.reply = "prepared"
                THEN [phase |-> p, source |-> prd, content |-> Packet(prd, p)] ELSE packet)
      /\ saved' = Built
      /\ UNCHANGED <<prd, edits, resp>>

-----------------------------------------------------------------------------
\* verify, feedback and resume

\* What the engine makes of the other statuses.
Reads(status) ==
  IF status \in {"UNSUPPORTED", "INFRASTRUCTURE"} THEN "INCOMPLETE" ELSE status

\* With a packet (without one there are no checks to make, see Engine).  A new
\* request outdates the answer to the one before.
Verify ==
  LET confirmed == Old!ManualConfirmed(disk, resp)
  IN  /\ ~Locked /\ packet # NoPacket
      /\ \E status \in {RunChecks(packet.content, product, confirmed) : product \in Products} :
           disk' = Old!Now(Old!PersistVerify(
                     Old!Start(disk), Reads(status), disk.ex.phase).writes)
      /\ resp' = IF disk'.req.stamp # disk.req.stamp THEN [resp EXCEPT !.to = "old"] ELSE resp
      /\ UNCHANGED <<prd, edits, saved, reading, packet>>

\* Feedback on the request at hand
Feedback(confirmed) ==
  /\ disk.cur = "WAITING_FOR_HUMAN" /\ disk.req.kind # "none"
  /\ resp' = [given |-> TRUE, confirmed |-> confirmed, to |-> "this"]
  /\ UNCHANGED <<prd, edits, disk, saved, reading, packet>>

\* Resume; the Verify that follows a confirmation is a command of its own.
Resume ==
  /\ ~Locked
  /\ disk.cur = "WAITING_FOR_HUMAN"
  /\ disk' = Old!Now(Old!Resume(disk, resp).writes)
  /\ UNCHANGED <<prd, edits, saved, reading, packet, resp>>

-----------------------------------------------------------------------------

Next ==
  \/ Edit
  \/ \E call \in Calls : Gate(call.env, call.requested)
  \/ Check
  \/ Plan
  \/ Verify
  \/ \E confirmed \in BOOLEAN : Feedback(confirmed)
  \/ Resume

Spec == Init /\ [][Next]_vars

-----------------------------------------------------------------------------
\* Properties

\* graph.json has statuses for exactly the phases it has edges for.  (A packet
\* may be for a phase that is no longer one of them: when the PRD drops the phase
\* in work and all others are COMPLETED, prepare leaves execution.json as it is.)
TypeOK ==
  /\ prd \in Drafts \cup Revisions
  /\ edits \in 0..MaxEdits
  /\ saved \in [DOMAIN saved -> SUBSET DOMAIN saved]
  /\ disk.node \in [DOMAIN saved -> Status]
  /\ disk.cur \in Old!CurrentState
  /\ reading.pc \in {"idle", "gated", "checked"}
  /\ packet.phase \in Phase \cup {NoPhase}
  /\ resp \in Old!Response

\* The contract gate rejects, for its phases or for a phase number given twice,
\* exactly the PRDs from which graph.FromDocument builds a graph with errors:
\* the two read dependencies and search for cycles by code of their own
\* (contract_checks.go, build.go).
GateAgreesWithGraph ==
  GraphErrors(prd) # {} <=> BlocksPhases(prd) \/ "PHASE_DUPLICATE" \in ParseErrors(prd)

\* Both searches find a cycle exactly when there is one, and what the graph
\* reports is a closed walk along dependencies that meets no phase twice.
CyclesAgree ==
  LET cycle == DetectedCycle(Edges(prd))
      n == Len(cycle)
  IN  /\ (cycle # << >>) <=> Cyclic(Edges(prd))
      /\ "PHASE_DUPLICATE" \notin ParseErrors(prd) =>
           ((PhaseCycle(prd) # << >>) <=> Cyclic(Edges(prd)) \/ SelfDependent(prd))
      /\ cycle # << >> =>
           /\ cycle[1] = cycle[n]
           /\ \A i \in 1..(n - 1) : cycle[i] \in Edges(prd)[cycle[i + 1]]
           /\ \A i, j \in 1..(n - 1) : i # j => cycle[i] # cycle[j]

\* An environment in which nothing stands in prepare's way.
Healthy(env) ==
  /\ env.git = "clean" /\ KnownBinary \subseteq env.bins
  /\ HasVariable \subseteq env.keys

\* What the gate lets through can be worked on: in a healthy environment the
\* first prepare of a PRD nobody edits meanwhile ends with a packet, unless the
\* PRD has no phase.  Nothing between the gate and the packet (preflight, graph,
\* selection) refuses what the gate has called VALID.
ValidCanStart ==
  [][/\ reading.pc # "idle" /\ reading'.pc = "idle"
     /\ saved = NoGraph /\ ~reading.edited /\ Healthy(reading.env)
     /\ reading.requested = NoPhase /\ prd.phases # << >>
     => disk'.cur = "PREPARED"]_vars

\* A phase begins only when all it depends on in the PRD just read is COMPLETED,
\* whatever the graph looked like when those phases were completed.
StartsInOrder ==
  [][\A p \in DOMAIN disk'.node :
       disk'.node[p] = "RUNNING" /\ (p \in DOMAIN disk.node => disk.node[p] # "RUNNING")
         => \A d \in saved'[p] : disk'.node[d] = "COMPLETED"]_vars

\* prepare never loses what was completed, however the PRD was edited, as long
\* as it still declares the phase.
CompletedSurvivesEdits ==
  [][reading.pc = "checked" =>
       \A p \in DOMAIN disk.node \cap DOMAIN disk'.node :
         disk.node[p] = "COMPLETED" => disk'.node[p] = "COMPLETED"]_vars

\* Whether a criterion's text is met: the tests show it, the function it names is
\* there, or the human has confirmed.
Shown(text, product, confirmed) ==
  \/ "tests pass" \in text
  \/ "tests pass" \notin text /\ "implement Symbol" \in text /\ product.symbol = "present"
  \/ {"tests pass", "implement Symbol"} \cap text = {} /\ confirmed

\* What the document asks of a phase: a Go project whose tests pass, the files it
\* names, inside of the product, and every criterion, declared or not, and every
\* definition of done of the phase.
Fulfilled(doc, p, product, confirmed) ==
  LET phase == PhaseOf(doc, p)
      texts == {TextOf(doc.acs, a) : a \in ToSet(phase.acs)} \cup (ToSet(phase.dod) \ {{}})
  IN  /\ product.go /\ product.git /\ product.tests = "pass"
      /\ ToSet(phase.outputs) \subseteq {"inside", "prose"}
      /\ "inside" \in ToSet(phase.outputs) => product.files
      /\ \A text \in texts : Shown(text, product, confirmed)

\* What the test engine says of a phase is what its PRD asks for, in the version
\* the packet was made from: no criterion is lost between the planner, the plan of
\* the checks and the verdict, and none is added.
VerdictIsSpecified ==
  packet # NoPacket =>
    \A product \in Products, confirmed \in BOOLEAN :
      RunChecks(packet.content, product, confirmed) = "VERIFIED" <=>
        Fulfilled(packet.source, packet.phase, product, confirmed)

\* A packet is made only from a PRD without errors, for a phase it declares;
\* and, when the PRD was not edited while prepare read it, from one the contract
\* gate does not reject.
PacketsAreSound ==
  [][packet' # packet /\ packet' # NoPacket =>
       /\ ParseErrors(packet'.source) = {} /\ GraphErrors(packet'.source) = {}
       /\ packet'.phase \in Declared(packet'.source)
       /\ reading.edited \/ ~Rejected(packet'.source)]_vars
=============================================================================
