------------------------------ MODULE MCGate ------------------------------
(***************************************************************************)
(* Gate on a small instance: one kind that is drafted unless the chat is   *)
(* trusted, and one that always is.                                        *)
(***************************************************************************)
EXTENDS Gate

CONSTANTS c1, c2

MCDeliveries == {[kind |-> k] : k \in {"text", "block"}}
=============================================================================
