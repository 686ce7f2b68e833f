----------------------------- MODULE MCSession -----------------------------
(* Session on small instances: two phone numbers, one the other's equal.   *)
EXTENDS Session, TLC

CONSTANTS n1, n2, pending

Symmetry == Permutations(Numbers)
=============================================================================
