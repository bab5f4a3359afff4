---- MODULE MCProcChain ----
(* The walk over three generations. *)
EXTENDS ProcChain, TLC

CONSTANTS p1, p2, p3

\* No action and no invariant tells one pid from another.
Symmetric == Permutations(Pids)
====
