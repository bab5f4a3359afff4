---------------------------- MODULE MCMeasureCache ----------------------------
\* Small instances of MeasureCache for TLC.
EXTENDS MeasureCache

CONSTANTS p1, p2, x1, x2, l1, v1, v2

\* Two programs that differ at first and share a library.
Shared == [x \in Exes |-> {l1}]
Different == [f \in Files |-> IF f = x2 THEN v2 ELSE v1]
=============================================================================
