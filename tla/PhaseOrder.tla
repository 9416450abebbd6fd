----------------------------- MODULE PhaseOrder -----------------------------
(***************************************************************************)
(* What the engine promises about a plan of phases: a phase becomes done   *)
(* only after evidence for it was recorded and only while all it depends   *)
(* on is done, and evidence is never lost.  A done phase may be reopened.  *)
(***************************************************************************)
CONSTANTS Phase, Deps

VARIABLES evidence,  \* the phases a verdict VERIFIED has been recorded for
          done       \* the phases that are COMPLETED

Init == evidence = {} /\ done = {}

Record(p) == evidence' = evidence \cup {p} /\ UNCHANGED done

Finish(p) ==
  /\ p \in evidence
  /\ Deps[p] \subseteq done
  /\ done' = done \cup {p}
  /\ UNCHANGED evidence

Reopen(p) == done' = done \ {p} /\ UNCHANGED evidence

Next == \E p \in Phase : Record(p) \/ Finish(p) \/ Reopen(p)

Spec == Init /\ [][Next]_<<evidence, done>>
=============================================================================
