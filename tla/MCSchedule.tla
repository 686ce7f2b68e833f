---------------------------- MODULE MCSchedule ----------------------------
(* Schedule on small instances.                                            *)
EXTENDS Schedule, TLC

CONSTANTS c1, c2

Symmetry == Permutations(Clients)
=============================================================================
