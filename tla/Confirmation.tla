--------------------------- MODULE Confirmation ---------------------------
(***************************************************************************)
(* What the send gate promises about a confirmation, and nothing of how:   *)
(* a draft is shown once, for one content; whoever confirms it first       *)
(* claims it; a claimed draft is handed to the deliverer exactly once;     *)
(* and a draft that was withdrawn (discarded, expired, evicted) never is.  *)
(* Gate implements this specification.                                     *)
(***************************************************************************)
EXTENDS Integers

CONSTANTS
  Token,     \* draft tokens, minted in increasing order
  Content    \* what a draft may show

VARIABLES
  fate,      \* what has become of each token
  shown      \* the content each token was minted for

vars == <<fate, shown>>

Fates == {"unminted", "pending", "claimed", "delivered", "withdrawn"}

TypeOK ==
  /\ fate \in [Token -> Fates]
  /\ shown \in [Token -> Content]

Init ==
  /\ fate = [t \in Token |-> "unminted"]
  /\ shown \in [Token -> Content]

(* A mint may withdraw other drafts in the same step, to make room.        *)
Mint(t, d, gone) ==
  /\ fate[t] = "unminted"
  /\ \A u \in gone : fate[u] = "pending"
  /\ fate' = [u \in Token |-> IF u = t THEN "pending"
                              ELSE IF u \in gone THEN "withdrawn" ELSE fate[u]]
  /\ shown' = [shown EXCEPT ![t] = d]

Withdraw(gone) ==
  /\ \A u \in gone : fate[u] = "pending"
  /\ fate' = [u \in Token |-> IF u \in gone THEN "withdrawn" ELSE fate[u]]
  /\ UNCHANGED shown

Claim(t) ==
  /\ fate[t] = "pending"
  /\ fate' = [fate EXCEPT ![t] = "claimed"]
  /\ UNCHANGED shown

Deliver(t) ==
  /\ fate[t] = "claimed"
  /\ fate' = [fate EXCEPT ![t] = "delivered"]
  /\ UNCHANGED shown

Next ==
  \/ \E t \in Token, d \in Content, gone \in SUBSET Token : Mint(t, d, gone)
  \/ \E gone \in SUBSET Token : Withdraw(gone)
  \/ \E t \in Token : Claim(t) \/ Deliver(t)

(* A claimed draft does not stay claimed: confirming is not lost.          *)
Fairness == \A t \in Token : WF_vars(Deliver(t))

SafeSpec == Init /\ [][Next]_vars
Spec == SafeSpec /\ Fairness
=============================================================================
