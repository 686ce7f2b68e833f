------------------------------ MODULE Clients ------------------------------
(***************************************************************************)
(* The message store with everything that uses it: the bridge that writes  *)
(* it, and beside it a reader (ReadTools) or the send tools (SendTools).   *)
(***************************************************************************)
EXTENDS ReadTools, SendTools

clientVars == <<allVars, sendVars>>

ClientsInit == ReadInit /\ SendInit

\* The send tools move no row: an upsert keeps the chat of the row it finds.
ClientsNext == \/ ReadNext /\ UNCHANGED sendVars
               \/ reader = "sender" /\ Sending /\ UNCHANGED readVars

ClientsSpec == ClientsInit /\ [][ClientsNext]_clientVars
=============================================================================
