---------------------------- MODULE RateLimiter ----------------------------
(***************************************************************************)
(* The token bucket in front of every delivery.                            *)
(*                                                                         *)
(* internal/gate/gate.go builds one golang.org/x/time/rate.Limiter per     *)
(* gate (New), and asks it for one token, without ever blocking, ahead of  *)
(* every delivery: AllowN(now, 1) in commit, Approve and deliverNow.  The  *)
(* library is external; it is modelled from that use.                      *)
(*                                                                         *)
(* Tokens are counted in seconds of credit: a delivery costs Interval, and *)
(* one second of clock earns one.  Callers read their clock before they    *)
(* reach the limiter, so the readings it is given may go backwards.        *)
(***************************************************************************)
EXTENDS Integers

CONSTANTS
  RateBurst,       \* config rate_burst, as passed to New
  RatePerSeconds,  \* config rate_per_seconds, as passed to New
  FloorSeconds     \* the const floorSeconds

ASSUME RateAssumption ==
  /\ RateBurst \in Int
  /\ RatePerSeconds \in Int
  /\ FloorSeconds \in Nat \ {0}

(* New raises an interval below the floor to it, and a burst below 1 to 1.  *)
Interval == IF RatePerSeconds < FloorSeconds THEN FloorSeconds ELSE RatePerSeconds
Burst    == IF RateBurst < 1 THEN 1 ELSE RateBurst

Depth == Burst * Interval   \* credit held by a full bucket

VARIABLES
  credit,    \* credit held when the bucket was last written
  last       \* the reading at which it was last written

limiterVars == <<credit, last>>

LimiterTypeOK ==
  /\ credit \in 0..Depth
  /\ last \in Nat

LimiterInit ==
  /\ credit = Depth
  /\ last = 0

----------------------------------------------------------------------------
(* The credit a reading finds: nothing accrues for a reading before last,  *)
(* and the bucket never holds more than Depth.                             *)
CreditAt(now) ==
  LET earned == credit + (IF now > last THEN now - last ELSE 0)
  IN  IF earned > Depth THEN Depth ELSE earned

Allowed(now) == CreditAt(now) >= Interval

(* Mutant of Grant: asks, and does not charge.                             *)
GrantUncharged(now) ==
  /\ Allowed(now)
  /\ credit' = CreditAt(now)
  /\ last' = now

(* A granted AllowN(now, 1).  A reading before last moves last back to it, *)
(* so the seconds between the two are credited a second time.  A refused   *)
(* one changes nothing.                                                    *)
Grant(now) ==
  /\ Allowed(now)
  /\ credit' = CreditAt(now) - Interval
  /\ last' = now
=============================================================================
