----------------------------- MODULE MCRuntime ------------------------------
\* Runtime on a chain of phases, each depending on the one before.
EXTENDS Runtime

Chain == [p \in Phase |-> IF p = 1 THEN {} ELSE {p - 1}]
=============================================================================
