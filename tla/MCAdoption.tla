---------------------------- MODULE MCAdoption ----------------------------
(* Adoption for TLC: the database, its log and one file that is written    *)
(* only while a process runs.                                              *)
EXTENDS Adoption, TLC

CONSTANT c1

MCNames == {Database, Log, "schedules.json"}
=============================================================================
