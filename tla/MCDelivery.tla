----------------------------- MODULE MCDelivery -----------------------------
\* Delivery of a chain of phases.
EXTENDS Delivery

Chain == [p \in Phase |-> IF p = 1 THEN {} ELSE {p - 1}]

RunSquash == [boundary |-> "run", autoMerge |-> FALSE, squash |-> TRUE, delete |-> TRUE]
PhaseMerge == [boundary |-> "phase", autoMerge |-> TRUE, squash |-> FALSE, delete |-> FALSE]
PhaseDelete == [boundary |-> "phase", autoMerge |-> TRUE, squash |-> FALSE, delete |-> TRUE]
SomeConfigs == {RunSquash, PhaseMerge}
OnlyDelete == {PhaseDelete}
=============================================================================
