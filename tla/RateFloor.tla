----------------------------- MODULE RateFloor -----------------------------
(***************************************************************************)
(* What one shared limiter lets through.                                   *)
(*                                                                         *)
(* commit, Approve and deliverNow (internal/gate/gate.go) each read the    *)
(* gate's clock and later present the reading to the limiter, the first    *)
(* two after waiting for the gate's mutex.  Callers are interchangeable    *)
(* here: all that matters is which readings reach the limiter, in which    *)
(* order.  Module Gate says what each of them does with the answer.        *)
(***************************************************************************)
EXTENDS RateLimiter, Sequences

CONSTANTS
  Callers,    \* goroutines asking for a delivery
  MaxClock    \* bound: seconds the clock advances

ASSUME ClockAssumption == MaxClock \in Nat

VARIABLES
  clock,     \* the clock
  reading,   \* what each caller read off it; -1 when it is not asking
  grants,    \* history: the reading of every granted request, in order
  backward   \* history: seconds by which granted readings went backwards

vars == <<limiterVars, clock, reading, grants, backward>>

TypeOK ==
  /\ LimiterTypeOK
  /\ clock \in 0..MaxClock
  /\ reading \in [Callers -> -1..MaxClock]
  /\ grants \in Seq(Nat)
  /\ backward \in Nat

Init ==
  /\ LimiterInit
  /\ clock = 0
  /\ reading = [c \in Callers |-> -1]
  /\ grants = <<>>
  /\ backward = 0

(* now := g.now() *)
ReadClock(c) ==
  /\ reading[c] = -1
  /\ reading' = [reading EXCEPT ![c] = clock]
  /\ UNCHANGED <<limiterVars, clock, grants, backward>>

(* AllowN(now, 1) with the reading taken before. *)
AllowN(c) ==
  /\ reading[c] # -1
  /\ reading' = [reading EXCEPT ![c] = -1]
  /\ \/ /\ Grant(reading[c])
        /\ grants' = Append(grants, reading[c])
        /\ backward' = backward + (IF reading[c] < last THEN last - reading[c] ELSE 0)
     \/ /\ ~Allowed(reading[c])
        /\ UNCHANGED <<limiterVars, grants, backward>>
  /\ UNCHANGED clock

Tick ==
  /\ clock < MaxClock
  /\ clock' = clock + 1
  /\ UNCHANGED <<limiterVars, reading, grants, backward>>

Next == (\E c \in Callers : ReadClock(c) \/ AllowN(c)) \/ Tick

Spec == Init /\ [][Next]_vars

----------------------------------------------------------------------------
(* The grants from the i-th to the j-th, priced in credit.                 *)
Spent(i, j) == (j - i + 1) * Interval

(* No stretch of grants outruns a full bucket plus the time that passed,   *)
(* except by the seconds that readings went backwards: the floor the gate  *)
(* promises ahead of every delivery, over every window and not just from   *)
(* the start of the process.                                               *)
FloorHolds ==
  \A i, j \in 1..Len(grants) :
    i <= j => Spent(i, j) <= Depth + (grants[j] - grants[i]) + backward

(* The inductive form of it: what every grant so far has left in the       *)
(* bucket bounds what can be spent from it on.                             *)
FloorInv ==
  \A i \in 1..Len(grants) :
    Spent(i, Len(grants)) + credit <= Depth + (last - grants[i]) + backward
=============================================================================
