----------------------------- MODULE MCConnPool -----------------------------
(* ConnPool with interchangeable connections; no liveness is checked of it. *)
EXTENDS ConnPool, TLC

Symmetry == Permutations(Conns)
=============================================================================
