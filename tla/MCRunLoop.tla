----------------------------- MODULE MCRunLoop ------------------------------
\* RunLoop on a chain of phases, each depending on the one before.
EXTENDS RunLoop

Chain == [p \in Phase |-> IF p = 1 THEN {} ELSE {p - 1}]
=============================================================================
