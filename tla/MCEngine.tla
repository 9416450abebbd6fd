------------------------------ MODULE MCEngine ------------------------------
\* Engine on two phases, P2 depending on P1.
EXTENDS Engine

Chain == [p \in Phase |-> IF p = 1 THEN {} ELSE {p - 1}]
=============================================================================
