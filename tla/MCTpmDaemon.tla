----------------------------- MODULE MCTpmDaemon -----------------------------
\* Small instances of TpmDaemon for TLC.
EXTENDS TpmDaemon

CONSTANTS p1, p2, p3, c1, c2, c3, c4, d1, d2, n1, n2, n3

\* One call each: a pica client, an attest client and the test program.
Mixed == [c \in Calls |-> CASE c = c1 -> "pica"
                            [] c = c2 -> "attest"
                            [] c = c3 -> "test"]
OneEach == [c \in Calls |-> CASE c = c1 -> p1 [] c = c2 -> p2 [] c = c3 -> p3]

\* Every process has a number of its own, or the third that of the first.
OwnNumbers == [p \in Procs |-> CASE p = p1 -> n1 [] p = p2 -> n2 [] p = p3 -> n3]
NumberAgain == [p \in Procs |-> IF p = p2 THEN n2 ELSE n1]

\* Two calls by the first process, a pica and an attest call, an attest call by
\* the second, and a pica call by the third.
Twice == [c \in Calls |-> CASE c = c3 -> p2 [] c = c4 -> p3 [] OTHER -> p1]
PicaAttest == [c \in Calls |-> IF c \in {c1, c4} THEN "pica" ELSE "attest"]
=============================================================================
