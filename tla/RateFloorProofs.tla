------------------------- MODULE RateFloorProofs --------------------------
(***************************************************************************)
(* The rate floor, proved for every burst, interval and sequence of clock  *)
(* readings.                                                               *)
(***************************************************************************)
EXTENDS RateFloor, TLAPS

(* What New's flooring of the two parameters makes of them.                *)
LEMMA Parameters ==
  /\ Interval \in Nat \ {0}
  /\ Burst \in Nat \ {0}
  /\ Depth \in Nat
  /\ Interval <= Depth
<1>1. Interval \in Nat \ {0} /\ Burst \in Nat \ {0}
  BY RateAssumption DEF Interval, Burst
<1>2. \A b, n \in Nat \ {0} : b * n \in Nat /\ n <= b * n
  <2>1. SUFFICES ASSUME NEW b \in Nat \ {0}, NEW n \in Nat \ {0}
                 PROVE  b * n \in Nat /\ n <= b * n
    OBVIOUS
  <2>2. b * n = n + (b - 1) * n
    BY <2>1
  <2>3. (b - 1) * n \in Nat
    BY <2>1
  <2>4. QED
    BY <2>1, <2>2, <2>3
<1>3. QED
  BY <1>1, <1>2 DEF Depth

(* What a reading finds in the bucket.                                     *)
LEMMA CreditBounds ==
  ASSUME LimiterTypeOK, NEW now \in Nat
  PROVE  /\ CreditAt(now) \in 0..Depth
         /\ CreditAt(now) <= credit + (IF now > last THEN now - last ELSE 0)
  BY Parameters DEF LimiterTypeOK, CreditAt

(* A granted request keeps the bucket within its bounds.                   *)
LEMMA LimiterTypeStep ==
  ASSUME LimiterTypeOK, NEW now \in Nat, Grant(now)
  PROVE  LimiterTypeOK'
<1>1. CreditAt(now) \in 0..Depth
  BY CreditBounds
<1>2. credit' \in 0..Depth
  BY <1>1, Parameters DEF Grant, Allowed
<1>3. QED
  BY <1>2 DEF LimiterTypeOK, Grant

(* One more grant costs one more Interval.                                 *)
LEMMA SpentStep ==
  ASSUME NEW i \in Int, NEW j \in Int
  PROVE  /\ Spent(i, j) \in Int
         /\ Spent(i, j + 1) = Spent(i, j) + Interval
         /\ Spent(j, j) = Interval
<1> DEFINE n == Interval
<1>1. n \in Int
  BY Parameters
<1>2. \A k, m \in Int : k * m \in Int /\ (k + 1) * m = k * m + m /\ 1 * m = m
  OBVIOUS
<1>3. /\ (j - i + 1) \in Int
      /\ (j + 1) - i + 1 = (j - i + 1) + 1
      /\ j - j + 1 = 1
  OBVIOUS
<1> HIDE DEF n
<1>4. /\ (j - i + 1) * n \in Int
      /\ ((j + 1) - i + 1) * n = (j - i + 1) * n + n
      /\ (j - j + 1) * n = n
  BY <1>1, <1>2, <1>3
<1>5. QED
  BY <1>4 DEF Spent, n

IInv == TypeOK /\ FloorInv /\ FloorHolds

(* A granted request, whoever made it.                                     *)
Granted(now) ==
  /\ now \in Nat
  /\ Grant(now)
  /\ grants' = Append(grants, now)
  /\ backward' = backward + (IF now < last THEN last - now ELSE 0)

(* A grant keeps the account of every window that is still open, and opens *)
(* one more.                                                               *)
LEMMA FloorStep ==
  ASSUME TypeOK, FloorInv, NEW now \in Nat, Granted(now)
  PROVE  FloorInv'
<1>1. SUFFICES ASSUME NEW i \in 1..Len(grants')
               PROVE  Spent(i, Len(grants')) + credit'
                        <= Depth + (last' - grants'[i]) + backward'
  BY DEF FloorInv, Spent, Depth, Burst, Interval
<1> DEFINE n == Len(grants)
<1>2. /\ n \in Nat
      /\ Len(grants') = n + 1
      /\ grants'[n + 1] = now
      /\ \A k \in 1..n : grants'[k] = grants[k] /\ grants[k] \in Nat
  BY DEF Granted, TypeOK
<1>3. /\ credit' = CreditAt(now) - Interval
      /\ last' = now
      /\ backward' = backward + (IF now < last THEN last - now ELSE 0)
  BY DEF Granted, Grant
<1>4. LimiterTypeOK /\ backward \in Nat /\ Interval \in Nat /\ Depth \in Nat
  BY Parameters DEF TypeOK
<1>5. Spent(i, n) \in Int /\ Spent(i, n + 1) = Spent(i, n) + Interval
  BY <1>2, SpentStep
<1>6. CASE i = n + 1
  <2>1. Spent(i, n + 1) = Interval
    BY <1>2, <1>6, SpentStep
  <2>2. CreditAt(now) \in 0..Depth
    BY <1>4, CreditBounds
  <2>3. QED
    BY <1>2, <1>3, <1>4, <1>6, <2>1, <2>2 DEF LimiterTypeOK
<1>7. CASE i \in 1..n
  <2>1. Spent(i, n) + credit <= Depth + (last - grants[i]) + backward
    BY <1>7 DEF FloorInv, n
  <2>2. CreditAt(now) \in 0..Depth
    BY <1>4, CreditBounds
  <2>3. CreditAt(now) <= credit + (IF now > last THEN now - last ELSE 0)
    BY <1>4, CreditBounds
  <2>4. grants'[i] = grants[i] /\ grants[i] \in Nat
    BY <1>2, <1>7
  <2>5. credit \in Nat /\ last \in Nat /\ backward \in Nat
    BY <1>4 DEF LimiterTypeOK
  <2>6. PICK s \in Int, a \in Int, g \in Int, d \in Int, c \in Int,
             l \in Int, b \in Int, m \in Int :
          /\ s = Spent(i, n) /\ a = CreditAt(now) /\ g = grants[i] /\ d = Depth
          /\ c = credit /\ l = last /\ b = backward /\ m = Interval
    BY <1>4, <1>5, <2>2, <2>4, <2>5
  <2>7. s + c <= d + (l - g) + b /\ a <= c + (IF now > l THEN now - l ELSE 0)
    BY <2>1, <2>3, <2>6
  <2>8. (s + m) + (a - m) <= d + (now - g) + (b + (IF now < l THEN l - now ELSE 0))
    BY <2>7
  <2>9. QED
    BY <1>2, <1>3, <1>5, <2>4, <2>6, <2>8
<1>8. QED
  BY <1>2, <1>6, <1>7

LEMMA FloorHoldsStep ==
  ASSUME IInv, TypeOK', NEW now \in Nat, Granted(now)
  PROVE  FloorHolds'
<1>1. SUFFICES ASSUME NEW i \in 1..Len(grants'), NEW j \in 1..Len(grants'), i <= j
               PROVE  Spent(i, j) <= Depth + (grants'[j] - grants'[i]) + backward'
  BY DEF FloorHolds, Spent, Depth, Burst, Interval
<1> DEFINE n == Len(grants)
<1>2. /\ n \in Nat
      /\ Len(grants') = n + 1
      /\ grants'[n + 1] = now
      /\ \A k \in 1..n : grants'[k] = grants[k] /\ grants[k] \in Nat
  BY DEF Granted, IInv, TypeOK
<1>3. /\ TypeOK
      /\ FloorInv'
      /\ last' = now
      /\ backward' >= backward
  BY FloorStep DEF IInv, Granted, Grant, TypeOK, LimiterTypeOK
<1>4. Spent(i, j) \in Int /\ Depth \in Nat
  BY <1>2, SpentStep, Parameters
<1>5. CASE j = n + 1
  <2>1. Spent(i, n + 1) + credit' <= Depth + (last' - grants'[i]) + backward'
    BY <1>1, <1>2, <1>3 DEF FloorInv, Spent, Depth, Burst, Interval
  <2>2. grants'[i] \in Nat /\ credit' \in Nat /\ backward' \in Nat
    BY <1>2, <1>3, Parameters DEF TypeOK, LimiterTypeOK
  <2>3. QED
    BY <1>2, <1>3, <1>4, <1>5, <2>1, <2>2
<1>6. CASE j \in 1..n
  <2>1. Spent(i, j) <= Depth + (grants[j] - grants[i]) + backward
    BY <1>1, <1>2, <1>6 DEF IInv, FloorHolds
  <2>2. backward \in Nat /\ backward' \in Nat /\ backward <= backward'
    BY <1>3 DEF TypeOK
  <2>3. i \in 1..n /\ grants'[i] = grants[i] /\ grants'[j] = grants[j]
        /\ grants[i] \in Nat /\ grants[j] \in Nat
    BY <1>1, <1>2, <1>6
  <2>4. QED
    BY <1>4, <2>1, <2>2, <2>3
<1>7. QED
  BY <1>2, <1>5, <1>6

LEMMA InitInv == Init => IInv
  BY Parameters, ClockAssumption
  DEF Init, LimiterInit, IInv, TypeOK, LimiterTypeOK, FloorInv, FloorHolds

LEMMA TypeStep == TypeOK /\ [Next]_vars => TypeOK'
<1> SUFFICES ASSUME TypeOK, [Next]_vars
             PROVE  TypeOK'
  OBVIOUS
<1>1. ASSUME NEW c \in Callers, ReadClock(c)
      PROVE  TypeOK'
  BY <1>1, ClockAssumption DEF ReadClock, TypeOK, LimiterTypeOK, limiterVars
<1>2. ASSUME NEW c \in Callers, AllowN(c)
      PROVE  TypeOK'
  <2>1. reading' \in [Callers -> -1..MaxClock] /\ clock' \in 0..MaxClock
    BY <1>2, ClockAssumption DEF AllowN, TypeOK
  <2>2. CASE Grant(reading[c]) /\ grants' = Append(grants, reading[c])
             /\ backward' = backward + (IF reading[c] < last THEN last - reading[c] ELSE 0)
    <3>1. reading[c] \in Nat
      BY <1>2, ClockAssumption DEF AllowN, TypeOK
    <3>2. LimiterTypeOK'
      BY <2>2, <3>1, LimiterTypeStep DEF TypeOK
    <3>3. grants' \in Seq(Nat) /\ backward' \in Nat
      BY <2>2, <3>1 DEF TypeOK, LimiterTypeOK
    <3>4. QED
      BY <2>1, <3>2, <3>3 DEF TypeOK
  <2>3. CASE UNCHANGED <<limiterVars, grants, backward>>
    BY <2>1, <2>3 DEF TypeOK, LimiterTypeOK, limiterVars
  <2>4. QED
    BY <1>2, <2>2, <2>3 DEF AllowN
<1>3. CASE Tick
  BY <1>3, ClockAssumption DEF Tick, TypeOK, LimiterTypeOK, limiterVars
<1>4. CASE UNCHANGED vars
  BY <1>4 DEF vars, TypeOK, LimiterTypeOK, limiterVars
<1>5. QED
  BY <1>1, <1>2, <1>3, <1>4 DEF Next

LEMMA StepInv == IInv /\ [Next]_vars => IInv'
<1> SUFFICES ASSUME IInv, [Next]_vars
             PROVE  IInv'
  OBVIOUS
<1>1. TypeOK /\ TypeOK'
  BY TypeStep DEF IInv
<1>2. ASSUME NEW now \in Nat, Granted(now)
      PROVE  FloorInv' /\ FloorHolds'
  BY <1>1, <1>2, FloorStep, FloorHoldsStep DEF IInv
<1>3. ASSUME UNCHANGED <<limiterVars, grants, backward>>
      PROVE  FloorInv' /\ FloorHolds'
  BY <1>3 DEF IInv, limiterVars, FloorInv, FloorHolds, Spent, Depth, Burst, Interval
<1>4. ASSUME NEW c \in Callers, AllowN(c)
      PROVE  FloorInv' /\ FloorHolds'
  <2>1. reading[c] \in Nat
    BY <1>1, <1>4, ClockAssumption DEF AllowN, TypeOK
  <2>2. Granted(reading[c]) \/ UNCHANGED <<limiterVars, grants, backward>>
    BY <1>4, <2>1 DEF AllowN, Granted
  <2>3. QED
    BY <1>2, <1>3, <2>1, <2>2
<1>5. (\E c \in Callers : AllowN(c)) \/ UNCHANGED <<limiterVars, grants, backward>>
  BY DEF Next, vars, ReadClock, Tick
<1>6. QED
  BY <1>1, <1>3, <1>4, <1>5 DEF IInv

(* Every behaviour of the shared limiter keeps its types.                  *)
THEOREM Typed == Spec => []TypeOK
<1>1. IInv => TypeOK
  BY DEF IInv
<1>2. QED
  BY <1>1, InitInv, StepInv, PTL DEF Spec

(* Over any stretch of deliveries, the limiter lets through at most a full *)
(* bucket plus one delivery per Interval elapsed, plus the seconds that    *)
(* clock readings went backwards, for every burst and interval configured  *)
(* and any number of callers.                                              *)
THEOREM RateFloorHolds == Spec => []FloorHolds
<1>1. IInv => FloorHolds
  BY DEF IInv
<1>2. QED
  BY <1>1, InitInv, StepInv, PTL DEF Spec
=============================================================================
