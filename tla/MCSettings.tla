---------------------------- MODULE MCSettings ----------------------------
(* Settings for TLC: what an old install left in config.json, and editors  *)
(* that are alike.                                                         *)
EXTENDS Settings, TLC

CONSTANTS e1, e2

OldScope == [trust |-> {}, mode |-> "", list |-> Jids]
NoLegacy == [trust |-> {}, mode |-> "", list |-> {}]

Symmetry == Permutations(Editors)
=============================================================================
