---------------------------- MODULE GateProofs ----------------------------
(***************************************************************************)
(* Theorems about the send gate, for any number of callers, drafts, clock  *)
(* readings and deliveries, and any cap and lifetime of drafts; and about  *)
(* the schedule-time gate, which is this one behind schedule_send.         *)
(***************************************************************************)
EXTENDS ScheduleSend, WellFoundedInduction, SequenceTheorems, TLAPS

----------------------------------------------------------------------------
(* The token bucket.                                                       *)

(* What New's flooring of the two parameters makes of them.                *)
LEMMA Parameters ==
  /\ Interval \in Nat \ {0}
  /\ Burst \in Nat \ {0}
  /\ Depth \in Nat
  /\ Interval <= Depth
<1>1. Interval \in Nat \ {0} /\ Burst \in Nat \ {0}
  BY RateAssumption DEF Interval, Burst
<1>2. \A b, n \in Nat \ {0} : b * n \in Nat /\ n <= b * n
  <2>1. SUFFICES ASSUME NEW b \in Nat \ {0}, NEW n \in Nat \ {0}
                 PROVE  b * n \in Nat /\ n <= b * n
    OBVIOUS
  <2>2. b * n = n + (b - 1) * n
    BY <2>1
  <2>3. (b - 1) * n \in Nat
    BY <2>1
  <2>4. QED
    BY <2>1, <2>2, <2>3
<1>3. QED
  BY <1>1, <1>2 DEF Depth

(* What a reading finds in the bucket.                                     *)
LEMMA CreditBounds ==
  ASSUME LimiterTypeOK, NEW now \in Nat
  PROVE  /\ CreditAt(now) \in 0..Depth
         /\ CreditAt(now) <= credit + (IF now > last THEN now - last ELSE 0)
  BY Parameters DEF LimiterTypeOK, CreditAt

(* A granted request keeps the bucket within its bounds.                   *)
LEMMA LimiterTypeStep ==
  ASSUME LimiterTypeOK, NEW now \in Nat, Grant(now)
  PROVE  LimiterTypeOK'
<1>1. CreditAt(now) \in 0..Depth
  BY CreditBounds
<1>2. credit' \in 0..Depth
  BY <1>1, Parameters DEF Grant, Allowed
<1>3. QED
  BY <1>2 DEF LimiterTypeOK, Grant

----------------------------------------------------------------------------
(* The order slice.                                                        *)

LEMMA LeastNatural ==
  ASSUME NEW S \in SUBSET Nat, S # {}
  PROVE  \E m \in S : \A j \in S : m <= j
<1> DEFINE R == OpToRel(<, Nat)
<1>1. IsWellFoundedOn(R, Nat)
  BY NatLessThanWellFounded
<1>2. PICK m \in S : \A j \in S : ~ (<<j, m>> \in R)
  <2> HIDE DEF R
  <2>1. QED
    BY <1>1, WFMin
<1>3. \A j \in S : ~ (j < m)
  BY <1>2 DEF OpToRel
<1>4. m \in Nat /\ \A j \in S : j \in Nat
  OBVIOUS
<1>5. QED
  BY <1>3, <1>4

LEMMA AnyDeliveryType == AnyDelivery \in Deliveries
  BY GateAssumption DEF AnyDelivery

LEMMA TokenType == Token \subseteq Nat \ {0} /\ NoToken \notin Token
  BY GateAssumption DEF Token, NoToken

(* pruneExpiredLocked pops a prefix of order.                              *)
LEMMA PrunedBounds ==
  ASSUME TypeOK, NEW now \in Nat
  PROVE  Pruned(now) \in 0..Len(order)
<1>1. Len(order) \in Nat
  BY DEF TypeOK
<1>2. CASE \E i \in 1..Len(order) : Live(order[i], now)
  <2> DEFINE P(i) == Live(order[i], now) /\ \A j \in 1..(i - 1) : ~Live(order[j], now)
             S == {i \in 1..Len(order) : Live(order[i], now)}
  <2>1. PICK m \in S : \A j \in S : m <= j
    <3>1. S \subseteq Nat /\ S # {}
      BY <1>1, <1>2
    <3>2. QED
      BY <3>1, LeastNatural
  <2>2. m \in 1..Len(order) /\ P(m)
    BY <1>1, <2>1
  <2>3. (CHOOSE i \in 1..Len(order) : P(i)) \in 1..Len(order)
    BY <2>2
  <2>4. QED
    BY <1>1, <1>2, <2>3 DEF Pruned
<1>3. CASE ~ \E i \in 1..Len(order) : Live(order[i], now)
  BY <1>1, <1>3 DEF Pruned
<1>4. QED
  BY <1>2, <1>3

(* storeDraftLocked leaves room for one more token under the cap.          *)
LEMMA RoomBounds ==
  ASSUME TypeOK, NEW now \in Nat
  PROVE  /\ MakeRoom(now) \in 0..Len(order)
         /\ Len(order) <= DraftCap => Len(order) - MakeRoom(now) < DraftCap
<1>1. Len(order) \in Nat /\ DraftCap \in Nat \ {0}
  BY GateAssumption DEF TypeOK
<1>2. Pruned(now) \in 0..Len(order)
  BY PrunedBounds
<1>3. QED
  BY <1>1, <1>2 DEF MakeRoom

(* Dropping a prefix of order.                                             *)
LEMMA OrderAfterProperties ==
  ASSUME TypeOK, NEW n \in 0..Len(order)
  PROVE  /\ OrderAfter(n) \in Seq(Token)
         /\ Len(OrderAfter(n)) = Len(order) - n
         /\ \A i \in 1..(Len(order) - n) : OrderAfter(n)[i] = order[n + i]
<1>1. order \in Seq(Token) /\ Len(order) \in Nat /\ n \in Nat
  BY DEF TypeOK
<1>2. \A i \in (n + 1)..Len(order) : order[i] \in Token
  BY <1>1
<1>3. SubSeq(order, n + 1, Len(order)) \in Seq(Token)
  BY <1>1, <1>2, SubSeqProperties
<1>4. Len(SubSeq(order, n + 1, Len(order))) = Len(order) - n
  BY <1>1, <1>2, SubSeqProperties
<1>5. \A i \in 1..(Len(order) - n) : SubSeq(order, n + 1, Len(order))[i] = order[n + i]
  BY <1>1, <1>2, SubSeqProperties
<1>6. QED
  BY <1>3, <1>4, <1>5 DEF OrderAfter

----------------------------------------------------------------------------
(* Type correctness.                                                       *)

LEMMA IdleType == Idle \in Call
  BY AnyDeliveryType DEF Idle, Call, Ops, NoToken

LEMMA InitType == Init => TypeOK
  BY AnyDeliveryType, IdleType, GateAssumption, Parameters
  DEF Init, LimiterInit, TypeOK, LimiterTypeOK, Token

LEMMA CallType ==
  ASSUME TypeOK, NEW c \in Callers
  PROVE  /\ call[c] \in Call
         /\ call[c].op \in Ops
         /\ call[c].delivery \in Deliveries
         /\ call[c].token \in Token \cup {NoToken}
         /\ call[c].now \in Nat
  BY DEF TypeOK, Call

(* Starting a call, whichever it is.                                       *)
LEMMA StartType ==
  ASSUME TypeOK, NEW c \in Callers, NEW op \in Ops, NEW d \in Deliveries,
         NEW t \in Token \cup {NoToken}, Start(c, op, d, t), minted' \in 0..MaxDrafts
  PROVE  TypeOK'
<1>1. [op |-> op, delivery |-> d, token |-> t, now |-> clock] \in Call
  BY DEF Call, TypeOK
<1>2. call' \in [Callers -> Call]
  BY <1>1 DEF Start, TypeOK
<1>3. QED
  BY <1>2 DEF Start, TypeOK, limiterVars, LimiterTypeOK

LEMMA BeginType ==
  ASSUME TypeOK, NEW c \in Callers, Begin(c)
  PROVE  TypeOK'
<1> USE DEF Token, NoToken, Ops
<1>1. CASE SubmitCommit(c)
  <2>1. PICK d \in Deliveries, t \in 1..minted : Start(c, "commit", d, t)
    BY <1>1 DEF SubmitCommit
  <2>2. t \in Token /\ minted' \in 0..MaxDrafts
    BY <1>1, GateAssumption DEF SubmitCommit, TypeOK
  <2>3. QED
    BY <2>1, <2>2, StartType
<1>2. CASE SubmitDraft(c)
  <2>1. PICK d \in Deliveries : /\ minted < MaxDrafts
                                /\ minted' = minted + 1
                                /\ Start(c, "create", d, minted + 1)
    BY <1>2 DEF SubmitDraft
  <2>2. minted + 1 \in Token /\ minted' \in 0..MaxDrafts
    BY <2>1, GateAssumption DEF TypeOK
  <2>3. QED
    BY <2>1, <2>2, StartType
<1>3. CASE SubmitNow(c) \/ DeliverScheduled(c)
  <2>1. PICK d \in Deliveries : Start(c, "now", d, NoToken) /\ minted' = minted
    BY <1>3 DEF SubmitNow, DeliverScheduled, Schedulable
  <2>2. minted' \in 0..MaxDrafts
    BY <2>1 DEF TypeOK
  <2>3. QED
    BY <2>1, <2>2, StartType
<1>4. CASE BeginApprove(c)
  <2>1. PICK t \in 1..minted : Start(c, "approve", AnyDelivery, t)
    BY <1>4 DEF BeginApprove
  <2>2. t \in Token /\ minted' \in 0..MaxDrafts
    BY <1>4, GateAssumption DEF BeginApprove, TypeOK
  <2>3. QED
    BY <2>1, <2>2, StartType, AnyDeliveryType
<1>5. CASE BeginList(c)
  <2>1. minted' \in 0..MaxDrafts
    BY <1>5 DEF BeginList, TypeOK
  <2>2. QED
    BY <1>5, <2>1, StartType, AnyDeliveryType DEF BeginList
<1>6. QED
  BY <1>1, <1>2, <1>3, <1>4, <1>5 DEF Begin

LEMMA ReturnType ==
  ASSUME TypeOK, NEW c \in Callers, Return(c)
  PROVE  call' \in [Callers -> Call]
  BY IdleType DEF Return, TypeOK

LEMMA CreateDraftType ==
  ASSUME TypeOK, NEW c \in Callers, CreateDraft(c), call[c].token \in Token
  PROVE  TypeOK'
<1> DEFINE t == call[c].token
           n == MakeRoom(call[c].now)
<1>1. n \in 0..Len(order)
  BY CallType, RoomBounds
<1>2. OrderAfter(n) \in Seq(Token)
  BY <1>1, OrderAfterProperties
<1>3. order' \in Seq(Token)
  BY <1>2 DEF CreateDraft
<1>4. [delivery |-> call[c].delivery, expires |-> call[c].now + DraftTTL]
        \in [delivery : Deliveries, expires : Nat]
  BY CallType, GateAssumption
<1>5. entry' \in [Token -> [delivery : Deliveries, expires : Nat]]
  BY <1>4 DEF CreateDraft, TypeOK
<1>6. drafts' \subseteq Token
  BY DEF CreateDraft, DraftsAfter, TypeOK
<1>7. call' \in [Callers -> Call]
  BY ReturnType DEF CreateDraft
<1>8. QED
  BY <1>3, <1>5, <1>6, <1>7
  DEF CreateDraft, TypeOK, limiterVars, LimiterTypeOK

(* Claiming, or being let through by deliverNow.                           *)
LEMMA ProceedType ==
  ASSUME TypeOK, NEW c \in Callers, Claim(c) \/ (DeliverNow(c) /\ Grant(call[c].now))
  PROVE  TypeOK'
<1>1. LimiterTypeOK'
  BY CallType, LimiterTypeStep DEF TypeOK, Claim, DeliverNow
<1>2. CASE Claim(c)
  <2>1. entry[call[c].token].delivery \in Deliveries
    BY <1>2 DEF Claim, Confirms, Live, TypeOK
  <2>2. call' \in [Callers -> Call]
    <3> DEFINE d == IF call[c].op = "commit" THEN call[c].delivery
                    ELSE entry[call[c].token].delivery
               r == [call[c] EXCEPT !.op = "deliver", !.delivery = d]
    <3>1. d \in Deliveries
      BY <2>1, CallType
    <3>2. r \in Call
      <4> HIDE DEF d
      <4>1. QED
        BY <3>1, CallType DEF Call, Ops
    <3>3. call' = [call EXCEPT ![c] = r]
      BY <1>2, CallType DEF Claim, TypeOK, Call
    <3>4. QED
      BY <3>2, <3>3 DEF TypeOK
  <2>3. drafts' \subseteq Token
    BY <1>2 DEF Claim, TypeOK
  <2>4. QED
    BY <1>1, <1>2, <2>2, <2>3 DEF Claim, TypeOK
<1>3. CASE DeliverNow(c) /\ Grant(call[c].now)
  <2>1. call' = [call EXCEPT ![c].op = "deliver"]
    BY <1>3 DEF DeliverNow, Grant
  <2>2. call' \in [Callers -> Call]
    BY <2>1, CallType DEF TypeOK, Call, Ops
  <2>3. QED
    BY <1>1, <1>3, <2>2 DEF DeliverNow, TypeOK
<1>4. QED
  BY <1>2, <1>3

(* Every other way a call ends.                                            *)
LEMMA EndType ==
  ASSUME TypeOK, NEW c \in Callers,
         Refuse(c) \/ (DeliverNow(c) /\ UNCHANGED limiterVars) \/ Deliver(c) \/ ListDrafts(c),
         Return(c)
  PROVE  TypeOK'
<1>1. call' \in [Callers -> Call]
  BY ReturnType
<1>2. LimiterTypeOK'
  BY DEF Refuse, DeliverNow, Deliver, ListDrafts, TypeOK, LimiterTypeOK, limiterVars
<1>3. CASE Refuse(c)
  BY <1>1, <1>2, <1>3 DEF Refuse, TypeOK
<1>4. CASE DeliverNow(c)
  BY <1>1, <1>2, <1>4 DEF DeliverNow, TypeOK
<1>5. CASE Deliver(c)
  <2>1. delivered' \in [Token -> Nat]
    BY <1>5, CallType DEF Deliver, TypeOK
  <2>2. QED
    BY <1>1, <1>2, <1>5, <2>1 DEF Deliver, TypeOK
<1>6. CASE ListDrafts(c)
  <2>1. Pruned(call[c].now) \in 0..Len(order)
    BY CallType, PrunedBounds
  <2>2. order' \in Seq(Token) /\ drafts' \subseteq Token
    BY <1>6, <2>1, OrderAfterProperties DEF ListDrafts, DraftsAfter, TypeOK
  <2>3. QED
    BY <1>1, <1>2, <1>6, <2>2 DEF ListDrafts, TypeOK
<1>7. QED
  BY <1>3, <1>4, <1>5, <1>6

(* A granted and a refused deliverNow exclude each other.                  *)
LEMMA ContinueCases ==
  ASSUME NEW c \in Callers, Continue(c)
  PROVE  \/ CreateDraft(c)
         \/ Claim(c) \/ (DeliverNow(c) /\ Grant(call[c].now))
         \/ /\ Refuse(c) \/ (DeliverNow(c) /\ UNCHANGED limiterVars)
               \/ Deliver(c) \/ ListDrafts(c)
            /\ Return(c)
  BY DEF Continue, Refuse, DeliverNow, Deliver, ListDrafts

(* Steps outside of any call.                                              *)
LEMMA OutsideType ==
  ASSUME TypeOK, (\E t \in Token : Discard(t)) \/ Tick \/ UNCHANGED vars
  PROVE  TypeOK'
  BY DEF Discard, Tick, TypeOK, vars, gateVars, limiterVars, LimiterTypeOK

----------------------------------------------------------------------------
(* The inductive invariant behind the promises about drafts.               *)

Untouched(t) == t \notin drafts /\ t \notin discarded /\ delivered[t] = 0

(* Which token a call works on: confirmations and creations have one.      *)
TokenInv ==
  \A c \in Callers :
    /\ call[c].op \in {"create", "commit", "approve"} => call[c].token \in 1..minted
    /\ call[c].op = "deliver" => call[c].token \in 0..minted
    /\ call[c].op = "now" => call[c].token = NoToken

(* A token that has not been stored yet is in no one else's hands.         *)
FreshInv ==
  /\ \A t \in Token : t > minted => Untouched(t)
  /\ \A c \in Callers : call[c].op = "create" => Untouched(call[c].token)
  /\ \A b, c \in Callers :
       b # c /\ call[c].op = "create" /\ call[b].op \in {"create", "deliver"}
         => call[b].token # call[c].token

(* A claimed draft is gone from the table, and in one pair of hands.       *)
ClaimInv ==
  \A c \in Callers :
    Delivering(c) /\ call[c].token # NoToken =>
      /\ Untouched(call[c].token)
      /\ call[c].delivery = entry[call[c].token].delivery
      /\ \A b \in Callers \ {c} : Delivering(b) => call[b].token # call[c].token

(* A draft in the table was neither delivered nor discarded, and no draft  *)
(* is both.                                                                *)
FateInv ==
  /\ \A t \in drafts : delivered[t] = 0 /\ t \notin discarded
  /\ \A t \in discarded : delivered[t] = 0
  /\ AtMostOnce

IInv == TypeOK /\ TokenInv /\ FreshInv /\ ClaimInv /\ FateInv

LEMMA TypeStep == TypeOK /\ TokenInv /\ [Next]_vars => TypeOK'
<1> SUFFICES ASSUME TypeOK, TokenInv, [Next]_vars
             PROVE  TypeOK'
  OBVIOUS
<1>1. ASSUME NEW c \in Callers, Begin(c)
      PROVE  TypeOK'
  BY <1>1, BeginType
<1>2. ASSUME NEW c \in Callers, Continue(c)
      PROVE  TypeOK'
  <2>1. CASE CreateDraft(c)
    <3>1. call[c].token \in Token
      BY <2>1, GateAssumption DEF CreateDraft, TokenInv, TypeOK, Token
    <3>2. QED
      BY <2>1, <3>1, CreateDraftType
  <2>2. CASE Claim(c) \/ (DeliverNow(c) /\ Grant(call[c].now))
    BY <2>2, ProceedType
  <2>3. CASE /\ Refuse(c) \/ (DeliverNow(c) /\ UNCHANGED limiterVars)
               \/ Deliver(c) \/ ListDrafts(c)
             /\ Return(c)
    BY <2>3, EndType
  <2>4. QED
    BY <1>2, <2>1, <2>2, <2>3, ContinueCases
<1>3. QED
  BY <1>1, <1>2, OutsideType DEF Next

LEMMA InitInv == Init => IInv
<1> SUFFICES ASSUME Init PROVE IInv
  OBVIOUS
<1>1. TypeOK
  BY InitType
<1>2. /\ \A c \in Callers : call[c].op = "idle"
      /\ \A t \in Token : Untouched(t)
      /\ drafts = {} /\ discarded = {} /\ minted = 0
      /\ \A t \in Token : delivered[t] = 0
  BY DEF Init, Idle, Untouched
<1>3. TokenInv /\ FreshInv /\ ClaimInv /\ FateInv
  BY <1>2 DEF TokenInv, FreshInv, ClaimInv, FateInv, Delivering, AtMostOnce
<1>4. QED
  BY <1>1, <1>3 DEF IInv
(* What Start and Return do to each caller.                                *)
LEMMA StartCalls ==
  ASSUME TypeOK, NEW c \in Callers, NEW op, NEW d, NEW t, Start(c, op, d, t)
  PROVE  /\ call'[c].op = op /\ call'[c].token = t /\ call'[c].delivery = d
         /\ \A b \in Callers \ {c} : call'[b] = call[b]
  BY DEF Start, TypeOK

LEMMA ReturnCalls ==
  ASSUME TypeOK, NEW c \in Callers, Return(c)
  PROVE  /\ call'[c] = Idle
         /\ call'[c].op = "idle"
         /\ \A b \in Callers \ {c} : call'[b] = call[b]
  BY DEF Return, TypeOK, Idle

(* Beginning a call that works on a token the caller was given, or none.   *)
LEMMA StartInv ==
  ASSUME IInv, NEW c \in Callers, NEW op \in {"commit", "approve", "list", "now"},
         NEW d, NEW t, Start(c, op, d, t), UNCHANGED minted,
         op \in {"commit", "approve"} => t \in 1..minted,
         op = "now" => t = NoToken
  PROVE  TokenInv' /\ FreshInv' /\ ClaimInv' /\ FateInv'
<1>1. /\ call'[c].op = op /\ call'[c].token = t
      /\ \A b \in Callers \ {c} : call'[b] = call[b]
  BY StartCalls DEF IInv
<1>2. UNCHANGED <<minted, drafts, entry, discarded, delivered>>
  BY DEF Start
<1>3. TokenInv'
  BY <1>1, <1>2 DEF IInv, TokenInv
<1>4. FreshInv'
  BY <1>1, <1>2 DEF IInv, FreshInv, Untouched
<1>5. ClaimInv'
  BY <1>1, <1>2 DEF IInv, ClaimInv, Untouched, Delivering
<1>6. FateInv'
  BY <1>2 DEF IInv, FateInv, AtMostOnce
<1>7. QED
  BY <1>3, <1>4, <1>5, <1>6

(* Beginning to create a draft: the token is one nobody has.               *)
LEMMA SubmitDraftInv ==
  ASSUME IInv, NEW c \in Callers, SubmitDraft(c)
  PROVE  TokenInv' /\ FreshInv' /\ ClaimInv' /\ FateInv'
<1>1. PICK d \in Deliveries : /\ minted < MaxDrafts
                              /\ minted' = minted + 1
                              /\ Start(c, "create", d, minted + 1)
  BY DEF SubmitDraft
<1>2. /\ call'[c].op = "create" /\ call'[c].token = minted + 1
      /\ \A b \in Callers \ {c} : call'[b] = call[b]
  BY <1>1, StartCalls DEF IInv
<1>3. UNCHANGED <<drafts, entry, discarded, delivered>>
  BY <1>1 DEF Start
<1>4. minted \in Nat /\ minted + 1 \in Token
  BY <1>1, GateAssumption DEF IInv, TypeOK, Token
<1>5. TokenInv'
  BY <1>1, <1>2, <1>4 DEF IInv, TokenInv
<1>6. \A b \in Callers : call[b].op \in {"create", "deliver"} => call[b].token # minted + 1
  BY <1>4 DEF IInv, TokenInv
<1>7. \A t \in Token : t > minted' => Untouched(t)
  <2>1. \A t \in Token : t > minted' => t > minted
    BY <1>1, <1>4, TokenType
  <2>2. QED
    BY <2>1 DEF IInv, FreshInv
<1>8. Untouched(minted + 1)
  <2>1. minted + 1 > minted
    BY <1>4
  <2>2. QED
    BY <1>4, <2>1 DEF IInv, FreshInv
<1>9. FreshInv'
  BY <1>2, <1>3, <1>6, <1>7, <1>8 DEF IInv, FreshInv, Untouched
<1>10. ClaimInv'
  BY <1>2, <1>3 DEF IInv, ClaimInv, Untouched, Delivering
<1>11. FateInv'
  BY <1>3 DEF IInv, FateInv, AtMostOnce
<1>12. QED
  BY <1>5, <1>9, <1>10, <1>11

LEMMA BeginInv ==
  ASSUME IInv, NEW c \in Callers, Begin(c)
  PROVE  TokenInv' /\ FreshInv' /\ ClaimInv' /\ FateInv'
<1>1. CASE SubmitCommit(c)
  BY <1>1, StartInv DEF SubmitCommit
<1>2. CASE SubmitDraft(c)
  BY <1>2, SubmitDraftInv
<1>3. CASE SubmitNow(c) \/ DeliverScheduled(c)
  <2>1. \E d \in Deliveries : Start(c, "now", d, NoToken) /\ UNCHANGED minted
    BY <1>3 DEF SubmitNow, DeliverScheduled, Schedulable
  <2>2. QED
    BY <2>1, StartInv
<1>4. CASE BeginApprove(c)
  BY <1>4, StartInv DEF BeginApprove
<1>5. CASE BeginList(c)
  BY <1>5, StartInv DEF BeginList
<1>6. QED
  BY <1>1, <1>2, <1>3, <1>4, <1>5 DEF Begin

(* Storing the new draft.                                                  *)
LEMMA CreateDraftInv ==
  ASSUME IInv, NEW c \in Callers, CreateDraft(c)
  PROVE  TokenInv' /\ FreshInv' /\ ClaimInv' /\ FateInv'
<1> DEFINE t == call[c].token
<1>1. /\ call[c].op = "create" /\ call'[c].op = "idle"
      /\ \A b \in Callers \ {c} : call'[b] = call[b]
  BY ReturnCalls DEF IInv, CreateDraft
<1>2. /\ UNCHANGED <<minted, discarded, delivered>>
      /\ drafts' \subseteq drafts \cup {t}
      /\ \A s \in Token \ {t} : entry'[s] = entry[s]
  BY DEF CreateDraft, DraftsAfter, IInv, TypeOK
<1>3. t \in 1..minted /\ Untouched(t)
  BY <1>1 DEF IInv, TokenInv, FreshInv
<1>4. \A s \in Token : s # t /\ Untouched(s) => Untouched(s)'
  BY <1>2 DEF Untouched
<1>5. TokenInv'
  BY <1>1, <1>2 DEF IInv, TokenInv
<1>6. \A s \in Token : s > minted => s # t
  BY <1>3, TokenType DEF IInv, TypeOK
<1>7. \A b \in Callers \ {c} : call[b].op \in {"create", "deliver"} => call[b].token # t
  BY <1>1 DEF IInv, FreshInv
<1>8. \A b \in Callers : call[b].op \in {"create", "deliver"} /\ call[b].token # NoToken
        => call[b].token \in Token
  BY CallType DEF IInv
<1>9. FreshInv'
  <2>1. \A s \in Token : s > minted' => Untouched(s)'
    BY <1>2, <1>4, <1>6 DEF IInv, FreshInv
  <2>2. ASSUME NEW b \in Callers, call'[b].op = "create"
        PROVE  Untouched(call[b].token)' /\ call'[b] = call[b] /\ b # c
    <3>1. b # c /\ call'[b] = call[b]
      BY <1>1, <2>2
    <3>2. call[b].token \in Token /\ call[b].token # t
      BY <3>1, <2>2, <1>7, GateAssumption DEF IInv, TokenInv, Token, TypeOK
    <3>3. Untouched(call[b].token)
      BY <3>1, <2>2 DEF IInv, FreshInv
    <3>4. QED
      BY <3>1, <3>2, <3>3, <1>2 DEF Untouched
  <2>3. \A a, b \in Callers :
          a # b /\ call'[b].op = "create" /\ call'[a].op \in {"create", "deliver"}
            => call'[a].token # call'[b].token
    BY <1>1 DEF IInv, FreshInv
  <2>4. QED
    BY <2>1, <2>2, <2>3 DEF FreshInv, Untouched
<1>10. ClaimInv'
  <2> SUFFICES ASSUME NEW b \in Callers, Delivering(b)', call'[b].token # NoToken
               PROVE  /\ Untouched(call[b].token)'
                      /\ call'[b].delivery = entry'[call'[b].token].delivery
                      /\ \A a \in Callers \ {b} :
                           Delivering(a)' => call'[a].token # call'[b].token
    BY DEF ClaimInv, Untouched, Delivering
  <2>1. b # c /\ call'[b] = call[b] /\ Delivering(b)
    BY <1>1 DEF Delivering
  <2>2. call[b].token \in Token /\ call[b].token # t
    BY <2>1, <1>7, <1>8 DEF Delivering
  <2>3. Untouched(call[b].token)' /\ entry'[call[b].token] = entry[call[b].token]
    BY <2>1, <2>2, <1>2 DEF IInv, ClaimInv, Untouched
  <2>4. QED
    BY <2>1, <2>3, <1>1 DEF IInv, ClaimInv, Delivering, Untouched
<1>11. FateInv'
  BY <1>2, <1>3 DEF IInv, FateInv, AtMostOnce, Untouched
<1>12. QED
  BY <1>5, <1>9, <1>10, <1>11
(* Claiming a draft: it goes from the table to one pair of hands.          *)
LEMMA ClaimStepInv ==
  ASSUME IInv, NEW c \in Callers, Claim(c)
  PROVE  TokenInv' /\ FreshInv' /\ ClaimInv' /\ FateInv'
<1> DEFINE t == call[c].token
<1>1. /\ call'[c].op = "deliver" /\ call'[c].token = t
      /\ call'[c].delivery = IF call[c].op = "commit" THEN call[c].delivery
                             ELSE entry[t].delivery
      /\ \A b \in Callers \ {c} : call'[b] = call[b]
  BY DEF Claim, IInv, TypeOK, Call
<1>2. /\ call[c].op \in {"commit", "approve"} /\ t \in drafts
      /\ call'[c].delivery = entry[t].delivery
  BY <1>1 DEF Claim, Confirms, Live
<1>3. /\ UNCHANGED <<minted, entry, discarded, delivered>>
      /\ drafts' = drafts \ {t}
  BY DEF Claim
<1>4. t \in 1..minted
  BY <1>2 DEF IInv, TokenInv
<1>5. TokenInv'
  <2>1. 1..minted \subseteq 0..minted
    BY DEF IInv, TypeOK
  <2>2. QED
    BY <1>1, <1>3, <1>4, <2>1 DEF IInv, TokenInv
<1>6. \A s \in Token \cup {NoToken} : Untouched(s) => Untouched(s)' /\ s # t
  BY <1>2, <1>3 DEF Untouched
<1>7. \A b \in Callers : call[b].token \in Token \cup {NoToken}
  BY CallType DEF IInv
<1>8. \A b \in Callers : call[b].op = "create" => call[b].token # t
  BY <1>6, <1>7 DEF IInv, FreshInv
<1>9. FreshInv'
  <2>1. \A s \in Token : s > minted' => Untouched(s)'
    BY <1>3, <1>6 DEF IInv, FreshInv
  <2>2. \A b \in Callers : call'[b].op = "create" => b # c /\ Untouched(call[b].token)
    BY <1>1 DEF IInv, FreshInv
  <2>3. \A b \in Callers : call'[b].op = "create" => Untouched(call[b].token)'
    BY <1>1, <1>3, <2>2 DEF Untouched
  <2>4. \A a, b \in Callers :
          a # b /\ call'[b].op = "create" /\ call'[a].op \in {"create", "deliver"}
            => call'[a].token # call'[b].token
    BY <1>1, <1>8 DEF IInv, FreshInv
  <2>5. QED
    BY <2>1, <2>3, <2>4 DEF FreshInv, Untouched
<1>10. ASSUME NEW b \in Callers \ {c}, Delivering(b)
       PROVE  call[b].token # t
  <2>1. call[b].token # NoToken => call[b].token \notin drafts
    BY <1>10 DEF IInv, ClaimInv, Untouched
  <2>2. t # NoToken
    BY <1>2, TokenType DEF IInv, TypeOK
  <2>3. QED
    BY <1>2, <2>1, <2>2
<1>11. ClaimInv'
  <2> SUFFICES ASSUME NEW b \in Callers, Delivering(b)', call'[b].token # NoToken
               PROVE  /\ Untouched(call[b].token)'
                      /\ call'[b].delivery = entry'[call'[b].token].delivery
                      /\ \A a \in Callers \ {b} :
                           Delivering(a)' => call'[a].token # call'[b].token
    BY DEF ClaimInv, Untouched, Delivering
  <2>1. CASE b = c
    <3>1. Untouched(t)'
      <4>1. delivered[t] = 0 /\ t \notin discarded
        BY <1>2 DEF IInv, FateInv
      <4>2. t \notin drafts' /\ t \notin discarded' /\ delivered'[t] = 0
        BY <1>3, <4>1
      <4>3. QED
        BY <1>1, <2>1, <4>2 DEF Untouched
    <3>2. call'[c].delivery = entry'[call'[c].token].delivery
      BY <1>1, <1>2, <1>3
    <3>3. \A a \in Callers \ {c} : Delivering(a)' => call'[a].token # call'[c].token
      BY <1>1, <1>10 DEF Delivering
    <3>4. QED
      BY <1>1, <2>1, <3>1, <3>2, <3>3 DEF Untouched
  <2>2. CASE b # c
    <3>1. Delivering(b) /\ call'[b] = call[b]
      BY <1>1, <2>2 DEF Delivering
    <3>2. Untouched(call[b].token)'
      BY <3>1, <1>3 DEF IInv, ClaimInv, Untouched
    <3>3. call'[b].delivery = entry'[call'[b].token].delivery
      BY <3>1, <1>3 DEF IInv, ClaimInv
    <3>4. \A a \in Callers \ {b} : Delivering(a)' => call'[a].token # call'[b].token
      BY <3>1, <1>1, <1>10, <2>2 DEF IInv, ClaimInv, Delivering
    <3>5. QED
      BY <3>2, <3>3, <3>4
  <2>3. QED
    BY <2>1, <2>2
<1>12. FateInv'
  BY <1>3 DEF IInv, FateInv, AtMostOnce
<1>13. QED
  BY <1>5, <1>9, <1>11, <1>12

(* Being let through by deliverNow: no draft is involved.                  *)
LEMMA DeliverNowInv ==
  ASSUME IInv, NEW c \in Callers, DeliverNow(c)
  PROVE  TokenInv' /\ FreshInv' /\ ClaimInv' /\ FateInv'
<1> call[c].token = NoToken
  BY DEF DeliverNow, IInv, TokenInv
<1>1. /\ \/ call'[c].op = "deliver" /\ call'[c].token = NoToken
         \/ call'[c].op = "idle"
      /\ \A b \in Callers \ {c} : call'[b] = call[b]
  <2>1. CASE Return(c)
    BY <2>1, ReturnCalls DEF IInv
  <2>2. CASE call' = [call EXCEPT ![c].op = "deliver"]
    BY <2>2 DEF IInv, TypeOK, Call
  <2>3. QED
    BY <2>1, <2>2 DEF DeliverNow
<1>2. UNCHANGED <<minted, drafts, entry, discarded, delivered>>
  BY DEF DeliverNow
<1>3. minted \in Nat /\ NoToken \in 0..minted
  BY DEF IInv, TypeOK, NoToken
<1>4. TokenInv'
  BY <1>1, <1>2, <1>3 DEF IInv, TokenInv
<1>5. \A b \in Callers : call[b].op = "create" => call[b].token # NoToken
  BY <1>3 DEF IInv, TokenInv, NoToken
<1>6. FreshInv'
  BY <1>1, <1>2, <1>5 DEF IInv, FreshInv, Untouched
<1>7. ClaimInv'
  BY <1>1, <1>2 DEF IInv, ClaimInv, Untouched, Delivering
<1>8. FateInv'
  BY <1>2 DEF IInv, FateInv, AtMostOnce
<1>9. QED
  BY <1>4, <1>6, <1>7, <1>8

(* A call that returns without having delivered.                           *)
LEMMA ReturnInv ==
  ASSUME IInv, NEW c \in Callers, Refuse(c) \/ ListDrafts(c)
  PROVE  TokenInv' /\ FreshInv' /\ ClaimInv' /\ FateInv'
<1>1. /\ call'[c].op = "idle"
      /\ \A b \in Callers \ {c} : call'[b] = call[b]
  BY ReturnCalls DEF IInv, Refuse, ListDrafts
<1>2. UNCHANGED <<minted, entry, discarded, delivered>> /\ drafts' \subseteq drafts
  BY DEF Refuse, ListDrafts, DraftsAfter
<1>3. TokenInv'
  BY <1>1, <1>2 DEF IInv, TokenInv
<1>4. FreshInv'
  BY <1>1, <1>2 DEF IInv, FreshInv, Untouched
<1>5. ClaimInv'
  BY <1>1, <1>2 DEF IInv, ClaimInv, Untouched, Delivering
<1>6. FateInv'
  BY <1>2 DEF IInv, FateInv, AtMostOnce
<1>7. QED
  BY <1>3, <1>4, <1>5, <1>6

(* The deliverer is called: the one pair of hands lets go.                 *)
LEMMA DeliverInv ==
  ASSUME IInv, NEW c \in Callers, Deliver(c)
  PROVE  TokenInv' /\ FreshInv' /\ ClaimInv' /\ FateInv'
<1> DEFINE t == call[c].token
<1>1. /\ Delivering(c) /\ call'[c].op = "idle"
      /\ \A b \in Callers \ {c} : call'[b] = call[b]
  BY ReturnCalls DEF IInv, Deliver, Delivering
<1>2. UNCHANGED <<minted, drafts, entry, discarded>>
  BY DEF Deliver
<1>3. TokenInv'
  BY <1>1, <1>2 DEF IInv, TokenInv
<1>4. CASE t = NoToken
  <2>1. UNCHANGED delivered
    BY <1>4 DEF Deliver
  <2>2. FreshInv'
    BY <1>1, <1>2, <2>1 DEF IInv, FreshInv, Untouched
  <2>3. ClaimInv'
    BY <1>1, <1>2, <2>1 DEF IInv, ClaimInv, Untouched, Delivering
  <2>4. FateInv'
    BY <1>2, <2>1 DEF IInv, FateInv, AtMostOnce
  <2>5. QED
    BY <1>3, <2>2, <2>3, <2>4
<1>5. CASE t # NoToken
  <2>1. t \in 1..minted /\ t \in Token
    BY <1>1, <1>5, CallType, TokenType DEF IInv, TokenInv, Delivering, TypeOK, NoToken
  <2>2. Untouched(t)
    BY <1>1, <1>5 DEF IInv, ClaimInv
  <2>3. /\ delivered'[t] = 1
        /\ \A s \in Token \ {t} : delivered'[s] = delivered[s]
    BY <1>5, <2>1, <2>2 DEF Deliver, IInv, TypeOK, Untouched
  <2>4. \A b \in Callers : call[b].token \in Token \cup {NoToken}
    BY CallType DEF IInv
  <2>5. FreshInv'
    <3>1. ASSUME NEW s \in Token, s > minted'
          PROVE  Untouched(s)'
      <4>1. s # t /\ s > minted
        BY <1>2, <2>1, <3>1, TokenType DEF IInv, TypeOK
      <4>2. Untouched(s)
        BY <4>1 DEF IInv, FreshInv
      <4>3. QED
        BY <1>2, <2>3, <4>1, <4>2 DEF Untouched
    <3>2. ASSUME NEW b \in Callers, call'[b].op = "create"
          PROVE  Untouched(call[b].token)' /\ call'[b] = call[b] /\ b # c
      <4>1. b # c /\ call'[b] = call[b]
        BY <1>1, <3>2
      <4>2. call[b].token \in Token /\ call[b].token # t
        BY <1>1, <3>2, <4>1, GateAssumption
        DEF IInv, TokenInv, FreshInv, Token, TypeOK, Delivering
      <4>3. Untouched(call[b].token)
        BY <3>2, <4>1 DEF IInv, FreshInv
      <4>4. QED
        BY <1>2, <2>3, <4>1, <4>2, <4>3 DEF Untouched
    <3>3. \A a, b \in Callers :
            a # b /\ call'[b].op = "create" /\ call'[a].op \in {"create", "deliver"}
              => call'[a].token # call'[b].token
      BY <1>1 DEF IInv, FreshInv
    <3>4. QED
      BY <3>1, <3>2, <3>3 DEF FreshInv, Untouched
  <2>6. ClaimInv'
    <3> SUFFICES ASSUME NEW b \in Callers, Delivering(b)', call'[b].token # NoToken
                 PROVE  /\ Untouched(call[b].token)'
                        /\ call'[b].delivery = entry'[call'[b].token].delivery
                        /\ \A a \in Callers \ {b} :
                             Delivering(a)' => call'[a].token # call'[b].token
      BY DEF ClaimInv, Untouched, Delivering
    <3>1. b # c /\ call'[b] = call[b] /\ Delivering(b)
      BY <1>1 DEF Delivering
    <3>2. call[b].token \in Token /\ call[b].token # t
      BY <1>1, <2>4, <3>1, <1>5 DEF IInv, ClaimInv
    <3>3. Untouched(call[b].token)'
      BY <1>2, <2>3, <3>1, <3>2 DEF IInv, ClaimInv, Untouched
    <3>4. QED
      BY <1>1, <1>2, <3>1, <3>3 DEF IInv, ClaimInv, Delivering
  <2>7. FateInv'
    <3>1. t \notin drafts' /\ t \notin discarded'
      BY <1>2, <2>2 DEF Untouched
    <3>2. \A s \in Token : delivered'[s] <= 1
      BY <2>3 DEF IInv, FateInv, AtMostOnce
    <3>3. drafts \subseteq Token /\ discarded \subseteq Token
      BY DEF IInv, TypeOK
    <3>4. \A s \in drafts' : delivered'[s] = 0 /\ s \notin discarded'
      BY <1>2, <2>3, <3>1, <3>3 DEF IInv, FateInv
    <3>5. \A s \in discarded' : delivered'[s] = 0
      BY <1>2, <2>3, <3>1, <3>3 DEF IInv, FateInv
    <3>6. QED
      BY <3>2, <3>4, <3>5 DEF FateInv, AtMostOnce
  <2>8. QED
    BY <1>3, <2>5, <2>6, <2>7
<1>6. QED
  BY <1>4, <1>5

(* Steps outside of any call.                                              *)
LEMMA DiscardInv ==
  ASSUME IInv, NEW t \in Token, Discard(t)
  PROVE  TokenInv' /\ FreshInv' /\ ClaimInv' /\ FateInv'
<1>1. /\ UNCHANGED <<minted, entry, delivered, call>>
      /\ t \in drafts /\ drafts' = drafts \ {t} /\ discarded' = discarded \cup {t}
  BY DEF Discard
<1>2. \A s : Untouched(s) => Untouched(s)'
  BY <1>1 DEF Untouched
<1>3. TokenInv'
  BY <1>1 DEF IInv, TokenInv
<1>4. FreshInv'
  BY <1>1 DEF IInv, FreshInv, Untouched
<1>5. ClaimInv'
  BY <1>1 DEF IInv, ClaimInv, Untouched, Delivering
<1>6. FateInv'
  BY <1>1 DEF IInv, FateInv, AtMostOnce
<1>7. QED
  BY <1>3, <1>4, <1>5, <1>6

LEMMA StutterInv ==
  ASSUME IInv, Tick \/ UNCHANGED vars
  PROVE  TokenInv' /\ FreshInv' /\ ClaimInv' /\ FateInv'
<1>1. UNCHANGED <<minted, drafts, entry, discarded, delivered, call>>
  BY DEF Tick, vars, gateVars
<1>2. QED
  BY <1>1 DEF IInv, TokenInv, FreshInv, ClaimInv, FateInv, Untouched, Delivering, AtMostOnce
LEMMA ContinueInv ==
  ASSUME IInv, NEW c \in Callers, Continue(c)
  PROVE  TokenInv' /\ FreshInv' /\ ClaimInv' /\ FateInv'
  BY CreateDraftInv, ClaimStepInv, DeliverNowInv, ReturnInv, DeliverInv DEF Continue

LEMMA StepInv == IInv /\ [Next]_vars => IInv'
<1> SUFFICES ASSUME IInv, [Next]_vars
             PROVE  IInv'
  OBVIOUS
<1>1. TypeOK'
  BY TypeStep DEF IInv
<1>2. TokenInv' /\ FreshInv' /\ ClaimInv' /\ FateInv'
  BY BeginInv, ContinueInv, DiscardInv, StutterInv DEF Next
<1>3. QED
  BY <1>1, <1>2 DEF IInv

THEOREM Invariance == Spec => []IInv
<1>1. QED
  BY InitInv, StepInv, PTL DEF Spec

----------------------------------------------------------------------------
(* The theorems.                                                           *)

(* Types: in particular the limiter's credit stays within its depth, so a  *)
(* burst is never deeper than the flooring in New allows.                  *)
THEOREM Typed == Spec => []TypeOK
<1>1. IInv => TypeOK
  BY DEF IInv
<1>2. QED
  BY <1>1, Invariance, PTL

(* gate.commit and gate.Approve: no draft ever reaches the deliverer       *)
(* twice, whoever races for it.                                            *)
THEOREM NoDraftTwice == Spec => []AtMostOnce
<1>1. IInv => AtMostOnce
  BY DEF IInv, FateInv
<1>2. QED
  BY <1>1, Invariance, PTL

(* What a confirmed delivery carries is what its draft showed, and it is   *)
(* already out of the table when the deliverer is called.                  *)
THEOREM ConfirmedAsShown == Spec => []ConfirmedContent
<1>1. IInv => ConfirmedContent
  BY DEF IInv, ClaimInv, ConfirmedContent, Untouched
<1>2. QED
  BY <1>1, Invariance, PTL

(* gate.Discard: once it has returned true the draft is never delivered.   *)
THEOREM DiscardPrevents == Spec => []DiscardIsFinal
<1>1. IInv => DiscardIsFinal
  <2> SUFFICES ASSUME IInv, NEW t \in discarded
               PROVE  delivered[t] = 0 /\ ~Claimed(t) /\ t \notin drafts
    BY DEF DiscardIsFinal
  <2>1. t \in Token /\ t # NoToken
    BY TokenType DEF IInv, TypeOK
  <2>2. ~Claimed(t)
    BY <2>1 DEF IInv, ClaimInv, Untouched, Claimed
  <2>3. QED
    BY <2>2 DEF IInv, FateInv
<1>2. QED
  BY <1>1, Invariance, PTL

----------------------------------------------------------------------------
(* block and unblock.                                                      *)

LEMMA BlockStep ==
  IInv /\ BlockNeverUnconfirmed /\ [Next]_vars => BlockNeverUnconfirmed'
<1> SUFFICES ASSUME IInv, BlockNeverUnconfirmed, [Next]_vars
             PROVE  BlockNeverUnconfirmed'
  OBVIOUS
<1>1. ASSUME NEW c \in Callers, Begin(c)
      PROVE  BlockNeverUnconfirmed'
  <2>1. PICK op, d, t :
          /\ op \in Ops \ {"deliver"}
          /\ Start(c, op, d, t)
          /\ op = "now" => ~AlwaysDrafts(d.kind)
    <3>1. CASE SubmitCommit(c) \/ BeginApprove(c) \/ BeginList(c) \/ SubmitDraft(c)
      BY <3>1 DEF SubmitCommit, BeginApprove, BeginList, SubmitDraft, Ops
    <3>2. CASE SubmitNow(c)
      BY <3>2 DEF SubmitNow, DeliversAtOnce, Ops
    <3>3. CASE DeliverScheduled(c)
      BY <3>3 DEF DeliverScheduled, Schedulable, AlwaysDrafts, Ops
    <3>4. QED
      BY <1>1, <3>1, <3>2, <3>3 DEF Begin
  <2>2. /\ call'[c].op = op /\ call'[c].delivery = d
        /\ \A b \in Callers \ {c} : call'[b] = call[b]
    BY <2>1, StartCalls DEF IInv
  <2>3. QED
    BY <2>1, <2>2 DEF BlockNeverUnconfirmed, Delivering
<1>2. ASSUME NEW c \in Callers, Return(c)
      PROVE  BlockNeverUnconfirmed'
  BY <1>2, ReturnCalls DEF IInv, BlockNeverUnconfirmed, Delivering
<1>3. ASSUME NEW c \in Callers, Claim(c)
      PROVE  BlockNeverUnconfirmed'
  <2>1. /\ call'[c].op = "deliver" /\ call'[c].token # NoToken
        /\ \A b \in Callers \ {c} : call'[b] = call[b]
    BY <1>3 DEF Claim, IInv, TypeOK, Call, TokenInv, NoToken
  <2>2. QED
    BY <2>1 DEF BlockNeverUnconfirmed, Delivering
<1>4. ASSUME NEW c \in Callers, call[c].op = "now", call' = [call EXCEPT ![c].op = "deliver"]
      PROVE  BlockNeverUnconfirmed'
  <2>1. /\ call'[c].op = "deliver" /\ call'[c].delivery = call[c].delivery
        /\ \A b \in Callers \ {c} : call'[b] = call[b]
    BY <1>4 DEF IInv, TypeOK, Call
  <2>2. QED
    BY <1>4, <2>1 DEF BlockNeverUnconfirmed, Delivering
<1>5. ASSUME NEW c \in Callers, Continue(c)
      PROVE  BlockNeverUnconfirmed'
  BY <1>2, <1>3, <1>4, <1>5
  DEF Continue, CreateDraft, Refuse, DeliverNow, Deliver, ListDrafts
<1>6. CASE (\E t \in Token : Discard(t)) \/ Tick \/ UNCHANGED vars
  BY <1>6 DEF Discard, Tick, vars, gateVars, BlockNeverUnconfirmed, Delivering
<1>7. QED
  BY <1>1, <1>5, <1>6 DEF Next

(* gate.alwaysDraftsKind: no block or unblock without its draft.           *)
THEOREM BlocksAreConfirmed == Spec => []BlockNeverUnconfirmed
<1>1. Init => BlockNeverUnconfirmed
  BY DEF Init, Idle, BlockNeverUnconfirmed, Delivering
<1>2. QED
  BY <1>1, BlockStep, Invariance, PTL DEF Spec

----------------------------------------------------------------------------
(* The draft table and its cap.                                            *)

(* DraftsAccounted, and what makes it inductive: a token enters order once,*)
(* when its creation ends.                                                 *)
OrderInv ==
  /\ Len(order) <= DraftCap
  /\ \A i, j \in 1..Len(order) : order[i] = order[j] => i = j
  /\ \A t \in drafts : \E i \in 1..Len(order) : order[i] = t
  /\ \A i \in 1..Len(order) :
       /\ order[i] <= minted
       /\ \A c \in Callers : call[c].op = "create" => call[c].token # order[i]

LEMMA OrderInvImplies == TypeOK /\ OrderInv => DraftsAccounted
<1> SUFFICES ASSUME TypeOK, OrderInv
             PROVE  DraftsAccounted
  OBVIOUS
<1>1. DOMAIN order = 1..Len(order)
  BY DEF TypeOK
<1>2. IsInjective(order)
  BY <1>1 DEF OrderInv, IsInjective
<1>3. drafts \subseteq ToSet(order)
  BY <1>1 DEF OrderInv, ToSet
<1>4. QED
  BY <1>2, <1>3 DEF OrderInv, DraftsAccounted

(* Dropping a prefix, with the drafts it names.                            *)
LEMMA DropOrderInv ==
  ASSUME IInv, OrderInv, NEW n \in 0..Len(order),
         NEW r, r = OrderAfter(n)
  PROVE  /\ r \in Seq(Token) /\ Len(r) = Len(order) - n
         /\ \A i, j \in 1..Len(r) : r[i] = r[j] => i = j
         /\ \A t \in DraftsAfter(n) : \E i \in 1..Len(r) : r[i] = t
         /\ \A i \in 1..Len(r) : \E j \in 1..Len(order) : r[i] = order[j]
<1>1. /\ r \in Seq(Token) /\ Len(r) = Len(order) - n /\ Len(order) \in Nat
      /\ \A i \in 1..Len(r) : r[i] = order[n + i] /\ n + i \in 1..Len(order)
  <2>1. TypeOK /\ Len(order) \in Nat
    BY DEF IInv, TypeOK
  <2>2. /\ r \in Seq(Token) /\ Len(r) = Len(order) - n
        /\ \A i \in 1..(Len(order) - n) : r[i] = order[n + i]
    BY <2>1, OrderAfterProperties
  <2>3. \A i \in 1..(Len(order) - n) : n + i \in 1..Len(order)
    BY <2>1
  <2>4. QED
    BY <2>1, <2>2, <2>3
<1>2. \A i, j \in 1..Len(r) : r[i] = r[j] => i = j
  <2> SUFFICES ASSUME NEW i \in 1..Len(r), NEW j \in 1..Len(r), r[i] = r[j]
               PROVE  i = j
    OBVIOUS
  <2>1. order[n + i] = order[n + j]
    BY <1>1
  <2>2. n + i = n + j
    BY <1>1, <2>1 DEF OrderInv
  <2>3. QED
    BY <1>1, <2>2
<1>3. ASSUME NEW t \in DraftsAfter(n)
      PROVE  \E i \in 1..Len(r) : r[i] = t
  <2>1. PICK k \in 1..Len(order) : order[k] = t
    BY <1>3 DEF DraftsAfter, OrderInv
  <2>2. k \notin 1..n
    BY <1>3, <2>1 DEF DraftsAfter
  <2>3. k - n \in 1..Len(r) /\ n + (k - n) = k
    BY <1>1, <2>1, <2>2
  <2>4. QED
    BY <1>1, <2>1, <2>3
<1>4. QED
  BY <1>1, <1>2, <1>3

LEMMA ListOrderInv ==
  ASSUME IInv, OrderInv, NEW c \in Callers, ListDrafts(c)
  PROVE  OrderInv'
<1> DEFINE n == Pruned(call[c].now)
<1>1. n \in 0..Len(order)
  BY CallType, PrunedBounds DEF IInv
<1>2. /\ order' = OrderAfter(n) /\ drafts' = DraftsAfter(n) /\ minted' = minted
      /\ \A b \in Callers : call'[b].op = "create" => call'[b] = call[b]
  BY ReturnCalls DEF ListDrafts, IInv
<1>3. /\ Len(order') = Len(order) - n
      /\ \A i, j \in 1..Len(order') : order'[i] = order'[j] => i = j
      /\ \A t \in drafts' : \E i \in 1..Len(order') : order'[i] = t
      /\ \A i \in 1..Len(order') : \E j \in 1..Len(order) : order'[i] = order[j]
  <2> HIDE DEF n
  <2> DEFINE r == OrderAfter(n)
  <2>1. /\ Len(r) = Len(order) - n
        /\ \A i, j \in 1..Len(r) : r[i] = r[j] => i = j
        /\ \A t \in DraftsAfter(n) : \E i \in 1..Len(r) : r[i] = t
        /\ \A i \in 1..Len(r) : \E j \in 1..Len(order) : r[i] = order[j]
    BY <1>1, DropOrderInv
  <2>2. QED
    BY <1>2, <2>1
<1>4. Len(order') <= DraftCap
  BY <1>1, <1>3, GateAssumption DEF OrderInv, IInv, TypeOK
<1>5. ASSUME NEW i \in 1..Len(order')
      PROVE  /\ order'[i] <= minted'
             /\ \A b \in Callers : call'[b].op = "create" => call'[b].token # order'[i]
  BY <1>2, <1>3 DEF OrderInv
<1>6. QED
  BY <1>3, <1>4, <1>5 DEF OrderInv

LEMMA CreateOrderInv ==
  ASSUME IInv, OrderInv, NEW c \in Callers, CreateDraft(c)
  PROVE  OrderInv'
<1> DEFINE t == call[c].token
           n == MakeRoom(call[c].now)
           r == OrderAfter(n)
<1>1. n \in 0..Len(order) /\ Len(order) - n < DraftCap
  BY CallType, RoomBounds DEF IInv, OrderInv
<1>2. /\ order' = Append(r, t) /\ drafts' = DraftsAfter(n) \cup {t} /\ minted' = minted
      /\ call[c].op = "create"
      /\ \A b \in Callers : call'[b].op = "create" => b # c /\ call'[b] = call[b]
  BY ReturnCalls DEF CreateDraft, IInv
<1>3. /\ r \in Seq(Token) /\ Len(r) = Len(order) - n
      /\ \A i, j \in 1..Len(r) : r[i] = r[j] => i = j
      /\ \A s \in DraftsAfter(n) : \E i \in 1..Len(r) : r[i] = s
      /\ \A i \in 1..Len(r) : \E j \in 1..Len(order) : r[i] = order[j]
  <2> HIDE DEF n
  <2>1. QED
    BY <1>1, DropOrderInv
<1>4. t \in 1..minted /\ t \in Token
  BY <1>2, GateAssumption DEF IInv, TokenInv, TypeOK, Token
<1>5. Len(order) \in Nat /\ Len(r) \in Nat /\ n \in Nat
  BY <1>1, <1>3 DEF IInv, TypeOK
<1>6. /\ Len(order') = Len(r) + 1
      /\ \A i \in 1..Len(r) : order'[i] = r[i]
      /\ order'[Len(r) + 1] = t
  BY <1>2, <1>3, <1>4, AppendProperties
<1>7. \A i \in 1..Len(r) : r[i] # t
  BY <1>2, <1>3 DEF OrderInv
<1>8. \A i \in 1..Len(order') : i \in 1..Len(r) \/ i = Len(r) + 1
  BY <1>5, <1>6
<1> HIDE DEF t, n, r
<1>9. Len(order') <= DraftCap
  BY <1>1, <1>3, <1>5, <1>6, GateAssumption
<1>10. \A i, j \in 1..Len(order') : order'[i] = order'[j] => i = j
  BY <1>3, <1>6, <1>7, <1>8
<1>11. \A s \in drafts' : \E i \in 1..Len(order') : order'[i] = s
  <2>1. 1..Len(r) \subseteq 1..Len(order') /\ Len(r) + 1 \in 1..Len(order')
    BY <1>5, <1>6
  <2>2. ASSUME NEW s \in DraftsAfter(n)
        PROVE  \E i \in 1..Len(order') : order'[i] = s
    BY <1>3, <1>6, <2>1, <2>2
  <2>3. \E i \in 1..Len(order') : order'[i] = t
    BY <1>6, <2>1
  <2>4. QED
    BY <1>2, <2>2, <2>3
<1>12. ASSUME NEW i \in 1..Len(order')
       PROVE  /\ order'[i] <= minted'
              /\ \A b \in Callers : call'[b].op = "create" => call'[b].token # order'[i]
  <2>1. CASE i \in 1..Len(r)
    <3>1. PICK j \in 1..Len(order) : order'[i] = order[j]
      BY <1>3, <1>6, <2>1
    <3>2. QED
      BY <1>2, <3>1 DEF OrderInv
  <2>2. CASE i = Len(r) + 1
    <3>1. order'[i] = t /\ t <= minted
      BY <1>4, <1>6, <2>2 DEF IInv, TypeOK
    <3>2. \A b \in Callers : call'[b].op = "create" => call'[b].token # t
      BY <1>2 DEF IInv, FreshInv, t
    <3>3. QED
      BY <1>2, <3>1, <3>2
  <2>3. QED
    BY <1>8, <2>1, <2>2
<1>13. QED
  BY <1>9, <1>10, <1>11, <1>12 DEF OrderInv

LEMMA OtherOrderInv ==
  ASSUME IInv, OrderInv, UNCHANGED <<order, minted>>, drafts' \subseteq drafts,
         \A c \in Callers : call'[c].op = "create" => call'[c] = call[c]
  PROVE  OrderInv'
  BY DEF OrderInv

LEMMA OrderStep == IInv /\ OrderInv /\ [Next]_vars => OrderInv'
<1> SUFFICES ASSUME IInv, OrderInv, [Next]_vars
             PROVE  OrderInv'
  OBVIOUS
<1>1. ASSUME NEW c \in Callers, Begin(c)
      PROVE  OrderInv'
  <2>1. CASE SubmitDraft(c)
    <3>1. PICK d \in Deliveries : minted' = minted + 1 /\ Start(c, "create", d, minted + 1)
      BY <2>1 DEF SubmitDraft
    <3>2. /\ call'[c].token = minted + 1
          /\ \A b \in Callers \ {c} : call'[b] = call[b]
      BY <3>1, StartCalls DEF IInv
    <3>3. UNCHANGED <<order, drafts>>
      BY <3>1 DEF Start
    <3>4. \A i \in 1..Len(order) : order[i] <= minted + 1 /\ order[i] # minted + 1
      <4>1. minted \in Nat /\ \A i \in 1..Len(order) : order[i] \in Nat
        <5>1. minted \in 0..MaxDrafts /\ order \in Seq(Token)
          BY DEF IInv, TypeOK
        <5>2. \A i \in 1..Len(order) : order[i] \in Token
          BY <5>1
        <5>3. minted \in Nat
          BY <5>1
        <5>4. QED
          BY <5>2, <5>3, TokenType
      <4>2. QED
        BY <4>1 DEF OrderInv
    <3>5. QED
      BY <3>1, <3>2, <3>3, <3>4 DEF OrderInv
  <2>2. CASE ~SubmitDraft(c)
    <3>1. PICK op, d, t :
            /\ op \in {"commit", "approve", "list", "now"}
            /\ Start(c, op, d, t) /\ minted' = minted
      BY <1>1, <2>2
      DEF Begin, SubmitCommit, SubmitNow, DeliverScheduled, Schedulable, BeginApprove, BeginList
    <3>2. /\ call'[c].op = op
          /\ \A b \in Callers \ {c} : call'[b] = call[b]
      BY <3>1, StartCalls DEF IInv
    <3>3. UNCHANGED <<order, minted, drafts>>
      BY <3>1 DEF Start
    <3>4. QED
      BY <3>1, <3>2, <3>3, OtherOrderInv
  <2>3. QED
    BY <2>1, <2>2
<1>2. ASSUME NEW c \in Callers, Claim(c) \/ Refuse(c) \/ DeliverNow(c) \/ Deliver(c)
      PROVE  OrderInv'
  <2>1. UNCHANGED <<order, minted>> /\ drafts' \subseteq drafts
    BY <1>2 DEF Claim, Refuse, DeliverNow, Deliver
  <2>2. \A b \in Callers : call'[b].op = "create" => call'[b] = call[b]
    <3>1. CASE Return(c)
      BY <3>1, ReturnCalls DEF IInv
    <3>2. CASE Claim(c)
      BY <3>2 DEF Claim, IInv, TypeOK, Call
    <3>3. CASE call' = [call EXCEPT ![c].op = "deliver"]
      BY <3>3 DEF IInv, TypeOK, Call
    <3>4. QED
      BY <1>2, <3>1, <3>2, <3>3 DEF Refuse, DeliverNow, Deliver
  <2>3. QED
    BY <2>1, <2>2, OtherOrderInv
<1>3. CASE (\E t \in Token : Discard(t)) \/ Tick \/ UNCHANGED vars
  <2>1. UNCHANGED <<order, minted, call>> /\ drafts' \subseteq drafts
    BY <1>3 DEF Discard, Tick, vars, gateVars
  <2>2. QED
    BY <2>1, OtherOrderInv
<1>4. QED
  BY <1>1, <1>2, <1>3, ListOrderInv, CreateOrderInv DEF Next, Continue

(* gate.storeDraftLocked and pruneExpiredLocked: every draft is counted    *)
(* against the cap, once, and the cap holds.                               *)
THEOREM TableIsBounded == Spec => []DraftsAccounted
<1>1. Init => OrderInv
  <2> SUFFICES ASSUME Init PROVE OrderInv
    OBVIOUS
  <2>1. Len(order) = 0 /\ drafts = {}
    BY DEF Init
  <2>2. QED
    BY <2>1, GateAssumption DEF OrderInv
<1>2. IInv /\ OrderInv => DraftsAccounted
  BY OrderInvImplies DEF IInv
<1>3. QED
  BY <1>1, <1>2, OrderStep, Invariance, PTL DEF Spec

----------------------------------------------------------------------------
(* The gate implements Confirmation: every step maps to one of its steps   *)
(* or to a stutter.                                                        *)

FateMap == [t \in Token |-> Fate(t)]
ShownMap == [t \in Token |-> entry[t].delivery]

(* A step that changes nothing a fate is made of.                          *)
LEMMA SameFate ==
  ASSUME NEW t \in Token,
         (t > minted' \/ Creating(t)') <=> (t > minted \/ Creating(t)),
         t \in drafts' <=> t \in drafts,
         Claimed(t)' <=> Claimed(t),
         delivered'[t] = delivered[t]
  PROVE  Fate(t)' = Fate(t)
  BY DEF Fate

LEMMA SameFates ==
  ASSUME \A t \in Token : Fate(t)' = Fate(t), UNCHANGED entry
  PROVE  UNCHANGED <<FateMap, ShownMap>>
  BY DEF FateMap, ShownMap

LEMMA BeginFate ==
  ASSUME IInv, NEW c \in Callers, Begin(c)
  PROVE  UNCHANGED <<FateMap, ShownMap>>
<1>1. CASE SubmitDraft(c)
  <2>1. PICK d \in Deliveries : minted' = minted + 1 /\ Start(c, "create", d, minted + 1)
    BY <1>1 DEF SubmitDraft
  <2>2. /\ call'[c].op = "create" /\ call'[c].token = minted + 1
        /\ \A b \in Callers \ {c} : call'[b] = call[b]
    BY <2>1, StartCalls DEF IInv
  <2>3. call[c].op = "idle" /\ UNCHANGED <<drafts, entry, delivered>>
    BY <2>1 DEF Start
  <2>4. minted \in Nat
    BY DEF IInv, TypeOK
  <2>5. ASSUME NEW t \in Token
        PROVE  Fate(t)' = Fate(t)
    <3>1. t > minted <=> (t > minted + 1 \/ t = minted + 1)
      BY <2>4, TokenType
    <3>2. Creating(t)' <=> Creating(t) \/ t = minted + 1
      BY <2>2, <2>3 DEF Creating
    <3>3. Claimed(t)' <=> Claimed(t)
      BY <2>2, <2>3 DEF Claimed, Delivering
    <3>4. QED
      BY <2>1, <2>3, <3>1, <3>2, <3>3, SameFate
  <2>6. QED
    BY <2>3, <2>5, SameFates
<1>2. CASE ~SubmitDraft(c)
  <2>1. PICK op, d, t :
        /\ op \in {"commit", "approve", "list", "now"}
        /\ Start(c, op, d, t) /\ minted' = minted
    BY <1>2 DEF Begin, SubmitCommit, SubmitNow, DeliverScheduled, Schedulable, BeginApprove, BeginList
  <2>2. /\ call[c].op = "idle" /\ call'[c].op \notin {"create", "deliver"}
        /\ \A b \in Callers \ {c} : call'[b] = call[b]
    BY <2>1, StartCalls DEF IInv, Start
  <2>3. UNCHANGED <<minted, drafts, entry, delivered>>
    BY <2>1 DEF Start
  <2>4. ASSUME NEW s \in Token
        PROVE  (Creating(s)' <=> Creating(s)) /\ (Claimed(s)' <=> Claimed(s))
    BY <2>2 DEF Creating, Claimed, Delivering
  <2>5. QED
    BY <2>3, <2>4, SameFate, SameFates
<1>3. QED
  BY <1>1, <1>2

(* Ending a call that neither created nor delivered a draft.               *)
LEMMA QuietFate ==
  ASSUME IInv, NEW c \in Callers, call[c].op # "create",
         call[c].op = "deliver" => call[c].token = NoToken,
         call'[c].op \in {"deliver", "idle"},
         call'[c].op = "deliver" => call'[c].token = NoToken,
         \A b \in Callers \ {c} : call'[b] = call[b],
         NEW t \in Token
  PROVE  (Creating(t)' <=> Creating(t)) /\ (Claimed(t)' <=> Claimed(t))
<1>1. t # NoToken
  BY TokenType
<1>2. QED
  BY <1>1 DEF Creating, Claimed, Delivering

(* Removing drafts from the table, whoever does it, is a withdrawal.       *)
LEMMA WithdrawFate ==
  ASSUME IInv, UNCHANGED <<minted, entry, delivered>>, drafts' \subseteq drafts,
         \A t \in Token : (Creating(t)' <=> Creating(t)) /\ (Claimed(t)' <=> Claimed(t))
  PROVE  Confirmed!Withdraw(drafts \ drafts')
<1>1. drafts \subseteq Token
  BY DEF IInv, TypeOK
<1>2. ASSUME NEW t \in drafts
      PROVE  ~Creating(t) /\ ~Claimed(t) /\ delivered[t] = 0
  <2>1. ~Creating(t)
    BY <1>2 DEF IInv, FreshInv, Untouched, Creating
  <2>2. ~Claimed(t)
    BY <1>1, <1>2, TokenType DEF IInv, ClaimInv, Untouched, Claimed
  <2>3. delivered[t] = 0
    BY <1>2 DEF IInv, FateInv
  <2>4. QED
    BY <2>1, <2>2, <2>3
<1>3. \A t \in drafts : ~(t > minted)
  BY <1>1, <1>2 DEF IInv, FreshInv, Untouched
<1>4. \A t \in drafts : Fate(t) = "pending"
  BY <1>2, <1>3 DEF Fate
<1>5. \A t \in drafts \ drafts' : Fate(t)' = "withdrawn"
  BY <1>2, <1>3, <1>1 DEF Fate
<1>6. \A t \in Token : t \notin drafts \ drafts' => Fate(t)' = Fate(t)
  BY SameFate
<1>7. \A t \in Token : Fate(t)' = IF t \in drafts \ drafts' THEN "withdrawn" ELSE FateMap[t]
  BY <1>5, <1>6 DEF FateMap
<1>8. QED
  BY <1>1, <1>4, <1>7 DEF Confirmed!Withdraw, FateMap

(* A step that changes one fate.                                           *)
LEMMA OneFate ==
  ASSUME NEW t \in Token, NEW f, Fate(t)' = f,
         \A s \in Token \ {t} : Fate(s)' = Fate(s)
  PROVE  FateMap' = [FateMap EXCEPT ![t] = f] /\ FateMap[t] = Fate(t)
<1>1. \A s \in Token : Fate(s)' = IF s = t THEN f ELSE FateMap[s]
  BY DEF FateMap
<1>2. FateMap' = [s \in Token |-> IF s = t THEN f ELSE FateMap[s]]
  BY <1>1 DEF FateMap
<1>3. DOMAIN FateMap = Token /\ FateMap = [s \in Token |-> FateMap[s]]
  BY DEF FateMap
<1> HIDE DEF FateMap
<1>4. FateMap' = [FateMap EXCEPT ![t] = f]
  BY <1>2, <1>3
<1>5. QED
  BY <1>4 DEF FateMap

LEMMA CreateDraftFate ==
  ASSUME IInv, NEW c \in Callers, CreateDraft(c),
         NEW t \in Token, t = call[c].token,
         NEW d \in Deliveries, d = call[c].delivery,
         NEW gone \in SUBSET Token, gone = drafts \ drafts'
  PROVE  Confirmed!Mint(t, d, gone)
<1> DEFINE n == MakeRoom(call[c].now)
<1>1. /\ call[c].op = "create" /\ call'[c].op = "idle"
      /\ \A b \in Callers \ {c} : call'[b] = call[b]
  BY ReturnCalls DEF IInv, CreateDraft
<1>2. /\ UNCHANGED <<minted, delivered>>
      /\ drafts' = DraftsAfter(n) \cup {t} /\ DraftsAfter(n) \subseteq drafts
      /\ entry' = [entry EXCEPT ![t] = [delivery |-> call[c].delivery,
                                        expires |-> call[c].now + DraftTTL]]
  BY DEF CreateDraft, DraftsAfter
<1>3. t \in 1..minted /\ Untouched(t)
  BY <1>1 DEF IInv, TokenInv, FreshInv
<1> HIDE DEF n
<1>4. call[c].token = t
  OBVIOUS
<1>5. \A b \in Callers \ {c} : call[b].op \in {"create", "deliver"} => call[b].token # t
  BY <1>1, <1>4 DEF IInv, FreshInv
<1>6. drafts \subseteq Token
  BY DEF IInv, TypeOK
<1>7. ASSUME NEW s \in Token \ {t}
      PROVE  /\ Creating(s)' <=> Creating(s)
             /\ Claimed(s)' <=> Claimed(s)
             /\ s \in drafts => ~Creating(s) /\ ~Claimed(s) /\ ~(s > minted) /\ delivered[s] = 0
  <2>1. Creating(s)' <=> Creating(s)
    BY <1>1, <1>4 DEF Creating
  <2>2. Claimed(s)' <=> Claimed(s)
    BY <1>1, <1>4 DEF Claimed, Delivering
  <2>3. ASSUME s \in drafts
        PROVE  ~Creating(s) /\ ~Claimed(s) /\ ~(s > minted) /\ delivered[s] = 0
    <3>1. ~Creating(s) /\ ~(s > minted)
      BY <2>3 DEF IInv, FreshInv, Untouched, Creating
    <3>2. ~Claimed(s)
      BY <2>3, TokenType DEF IInv, ClaimInv, Untouched, Claimed
    <3>3. delivered[s] = 0
      BY <2>3 DEF IInv, FateInv
    <3>4. QED
      BY <3>1, <3>2, <3>3
  <2>4. QED
    BY <2>1, <2>2, <2>3
<1>8. Fate(t) = "unminted"
  BY <1>1, <1>4 DEF Fate, Creating
<1>9. Fate(t)' = "pending"
  <2>1. ~Creating(t)'
    BY <1>1, <1>5 DEF Creating
  <2>2. ~(t > minted')
    BY <1>2, <1>3 DEF IInv, TypeOK
  <2>3. t \in drafts'
    BY <1>2
  <2>4. QED
    BY <2>1, <2>2, <2>3 DEF Fate
<1>10. t \notin drafts
  BY <1>3 DEF Untouched
<1>11. \A s \in drafts : Fate(s) = "pending"
  BY <1>6, <1>7, <1>10 DEF Fate
<1>12. \A s \in gone : Fate(s)' = "withdrawn"
  BY <1>2, <1>6, <1>7, <1>10 DEF Fate
<1>13. \A s \in Token \ {t} : s \notin gone => Fate(s)' = Fate(s)
  BY <1>2, <1>7, SameFate
<1>14. FateMap' = [u \in Token |-> IF u = t THEN "pending"
                                   ELSE IF u \in gone THEN "withdrawn"
                                   ELSE FateMap[u]]
  BY <1>9, <1>12, <1>13 DEF FateMap
<1>15. ShownMap' = [ShownMap EXCEPT ![t] = d]
  BY <1>2, <1>3 DEF ShownMap, IInv, TypeOK
<1>16. FateMap[t] = "unminted" /\ \A u \in gone : FateMap[u] = "pending"
  BY <1>3, <1>6, <1>8, <1>11 DEF FateMap
<1>17. QED
  BY <1>4, <1>14, <1>15, <1>16 DEF Confirmed!Mint, FateMap, ShownMap

LEMMA ClaimFate ==
  ASSUME IInv, NEW c \in Callers, Claim(c)
  PROVE  call[c].token \in Token /\ Confirmed!Claim(call[c].token)
<1>0. PICK t \in Token : t = call[c].token
  BY DEF Claim, Confirms, Live, IInv, TypeOK
<1>1. /\ call[c].op \in {"commit", "approve"} /\ t \in drafts
      /\ call'[c].op = "deliver" /\ call'[c].token = t
      /\ \A b \in Callers \ {c} : call'[b] = call[b]
  BY <1>0 DEF Claim, Confirms, Live, IInv, TypeOK, Call
<1>2. UNCHANGED <<minted, entry, delivered>> /\ drafts' = drafts \ {t}
  BY <1>0 DEF Claim
<1>3. ~Creating(t) /\ ~(t > minted)
  BY <1>1 DEF IInv, FreshInv, Untouched, Creating
<1>4. call[c].token = t
  BY <1>0
<1>5. \A s \in Token : Creating(s)' <=> Creating(s)
  BY <1>1 DEF Creating
<1>6. \A s \in Token \ {t} : Claimed(s)' <=> Claimed(s)
  BY <1>1, <1>4 DEF Claimed, Delivering
<1>7. Claimed(t)'
  BY <1>1 DEF Claimed, Delivering
<1>8. Fate(t) = "pending"
  BY <1>1, <1>3 DEF Fate
<1>9. Fate(t)' = "claimed"
  BY <1>2, <1>3, <1>5, <1>7 DEF Fate
<1>10. \A s \in Token \ {t} : Fate(s)' = Fate(s)
  BY <1>2, <1>5, <1>6, SameFate
<1>11. FateMap' = [FateMap EXCEPT ![t] = "claimed"] /\ FateMap[t] = "pending"
  BY <1>3, <1>8, <1>9, <1>10, OneFate
<1>12. UNCHANGED ShownMap
  BY <1>2 DEF ShownMap
<1>13. QED
  BY <1>3, <1>4, <1>11, <1>12 DEF Confirmed!Claim, FateMap, ShownMap

LEMMA DeliverFate ==
  ASSUME IInv, NEW c \in Callers, Deliver(c), call[c].token # NoToken
  PROVE  call[c].token \in Token /\ Confirmed!Deliver(call[c].token)
<1>0. PICK t \in Token : t = call[c].token
  BY CallType DEF IInv
<1>1. /\ Delivering(c) /\ call'[c].op = "idle"
      /\ \A b \in Callers \ {c} : call'[b] = call[b]
  BY ReturnCalls DEF IInv, Deliver, Delivering
<1>2. UNCHANGED <<minted, drafts, entry>>
  BY DEF Deliver
<1>3. /\ Untouched(t) /\ Claimed(t)
      /\ \A b \in Callers \ {c} : Delivering(b) => call[b].token # t
  BY <1>0, <1>1 DEF IInv, ClaimInv, Claimed
<1>4. delivered' = [delivered EXCEPT ![t] = delivered[t] + 1]
  BY <1>0 DEF Deliver
<1>5. call[c].token = t
  BY <1>0
<1>6. ~Creating(t) /\ ~(t > minted)
  <2>1. ~Creating(t)
    BY <1>1, <1>5 DEF IInv, FreshInv, Creating, Delivering
  <2>2. t \in 0..minted
    BY <1>1, <1>5 DEF IInv, TokenInv, Delivering
  <2>3. QED
    BY <2>1, <2>2 DEF IInv, TypeOK
<1>7. \A s \in Token : Creating(s)' <=> Creating(s)
  BY <1>1 DEF Creating, Delivering
<1>8. \A s \in Token \ {t} : (Claimed(s)' <=> Claimed(s)) /\ delivered'[s] = delivered[s]
  <2>1. \A s \in Token \ {t} : Claimed(s)' <=> Claimed(s)
    BY <1>1, <1>5 DEF Claimed, Delivering
  <2>2. \A s \in Token \ {t} : delivered'[s] = delivered[s]
    BY <1>4 DEF IInv, TypeOK
  <2>3. QED
    BY <2>1, <2>2
<1>9. ~Claimed(t)'
  BY <1>1, <1>3 DEF Claimed, Delivering
<1>10. delivered'[t] = 1
  BY <1>3, <1>4 DEF Untouched, IInv, TypeOK
<1>11. Fate(t) = "claimed"
  BY <1>3, <1>6 DEF Fate, Untouched
<1>12. Fate(t)' = "delivered"
  <2>1. t \notin drafts'
    BY <1>2, <1>3 DEF Untouched
  <2>2. ~(t > minted') /\ ~Creating(t)'
    BY <1>2, <1>3, <1>6, <1>7
  <2>3. delivered'[t] > 0
    BY <1>10
  <2>4. QED
    BY <1>9, <2>1, <2>2, <2>3 DEF Fate
<1>13. \A s \in Token \ {t} : Fate(s)' = Fate(s)
  BY <1>2, <1>7, <1>8, SameFate
<1>14. FateMap' = [FateMap EXCEPT ![t] = "delivered"] /\ FateMap[t] = "claimed"
  BY <1>3, <1>11, <1>12, <1>13, OneFate
<1>15. UNCHANGED ShownMap
  BY <1>2 DEF ShownMap
<1>16. QED
  BY <1>3, <1>5, <1>14, <1>15 DEF Confirmed!Deliver, FateMap, ShownMap

LEMMA ContinueFate ==
  ASSUME IInv, NEW c \in Callers, Continue(c)
  PROVE  Confirmed!Next \/ UNCHANGED <<FateMap, ShownMap>>
<1>1. CASE CreateDraft(c)
  <2>1. call[c].token \in Token /\ call[c].delivery \in Deliveries
    <3>1. call[c].op = "create" /\ TypeOK /\ TokenInv
      BY <1>1 DEF CreateDraft, IInv
    <3>2. call[c].token # NoToken
      BY <3>1 DEF TokenInv, TypeOK, NoToken
    <3>3. QED
      BY <3>1, <3>2, CallType
  <2>2. drafts \ drafts' \in SUBSET Token
    BY DEF IInv, TypeOK
  <2>3. PICK t \in Token, d \in Deliveries, gone \in SUBSET Token :
          t = call[c].token /\ d = call[c].delivery /\ gone = drafts \ drafts'
    BY <2>1, <2>2
  <2>4. Confirmed!Mint(t, d, gone)
    BY <1>1, <2>3, CreateDraftFate
  <2>5. QED
    BY <2>4 DEF Confirmed!Next
<1>2. CASE Claim(c)
  BY <1>2, ClaimFate DEF Confirmed!Next
<1>3. CASE Deliver(c) /\ call[c].token # NoToken
  BY <1>3, DeliverFate DEF Confirmed!Next
<1>4. CASE Refuse(c) \/ DeliverNow(c) \/ (Deliver(c) /\ call[c].token = NoToken)
  <2>1. UNCHANGED <<minted, drafts, entry, delivered>>
    BY <1>4 DEF Refuse, DeliverNow, Deliver
  <2>2. /\ call[c].op # "create"
        /\ call[c].op = "deliver" => call[c].token = NoToken
        /\ call'[c].op \in {"deliver", "idle"}
        /\ call'[c].op = "deliver" => call'[c].token = NoToken
        /\ \A b \in Callers \ {c} : call'[b] = call[b]
    <3>1. CASE Return(c)
      BY <1>4, <3>1, ReturnCalls DEF IInv, Refuse, DeliverNow, Deliver
    <3>2. CASE DeliverNow(c) /\ call' = [call EXCEPT ![c].op = "deliver"]
      BY <3>2 DEF IInv, TypeOK, Call, TokenInv, DeliverNow
    <3>3. QED
      BY <1>4, <3>1, <3>2 DEF Refuse, DeliverNow, Deliver
  <2>3. \A t \in Token : (Creating(t)' <=> Creating(t)) /\ (Claimed(t)' <=> Claimed(t))
    BY <2>2, QuietFate
  <2>4. QED
    BY <2>1, <2>3, SameFate, SameFates
<1>5. CASE ListDrafts(c)
  <2>1. /\ UNCHANGED <<minted, entry, delivered>> /\ drafts' \subseteq drafts
        /\ call[c].op = "list" /\ call'[c].op = "idle"
        /\ \A b \in Callers \ {c} : call'[b] = call[b]
    BY <1>5, ReturnCalls DEF ListDrafts, DraftsAfter, IInv
  <2>2. \A t \in Token : (Creating(t)' <=> Creating(t)) /\ (Claimed(t)' <=> Claimed(t))
    BY <2>1, QuietFate
  <2>3. drafts \ drafts' \in SUBSET Token
    BY DEF IInv, TypeOK
  <2>4. QED
    BY <2>1, <2>2, <2>3, WithdrawFate DEF Confirmed!Next
<1>6. QED
  BY <1>1, <1>2, <1>3, <1>4, <1>5 DEF Continue

LEMMA OutsideFate ==
  ASSUME IInv, (\E t \in Token : Discard(t)) \/ Tick \/ UNCHANGED vars
  PROVE  Confirmed!Next \/ UNCHANGED <<FateMap, ShownMap>>
<1>1. \A t \in Token : (Creating(t)' <=> Creating(t)) /\ (Claimed(t)' <=> Claimed(t))
  BY DEF Discard, Tick, vars, gateVars, Creating, Claimed, Delivering
<1>2. UNCHANGED <<minted, entry, delivered>> /\ drafts' \subseteq drafts
  BY DEF Discard, Tick, vars, gateVars
<1>3. drafts \ drafts' \in SUBSET Token
  BY DEF IInv, TypeOK
<1>4. QED
  BY <1>1, <1>2, <1>3, WithdrawFate DEF Confirmed!Next

(* gate.go as a whole: a draft is shown once, claimed once, delivered at   *)
(* most once and after its claim, and never after it was withdrawn.        *)
THEOREM Implements == Spec => Confirmed!SafeSpec
<1>1. Init => Confirmed!Init
  <2> SUFFICES ASSUME Init PROVE Confirmed!Init
    OBVIOUS
  <2>1. \A t \in Token : t > minted
    BY TokenType DEF Init
  <2>2. FateMap = [t \in Token |-> "unminted"]
    BY <2>1 DEF FateMap, Fate
  <2>3. ShownMap \in [Token -> Deliveries]
    BY AnyDeliveryType DEF Init, ShownMap
  <2>4. QED
    BY <2>2, <2>3 DEF Confirmed!Init, FateMap, ShownMap
<1>2. IInv /\ [Next]_vars => Confirmed!Next \/ UNCHANGED <<FateMap, ShownMap>>
  BY BeginFate, ContinueFate, OutsideFate DEF Next
<1>3. IInv /\ [Next]_vars => [Confirmed!Next]_(Confirmed!vars)
  BY <1>2 DEF Confirmed!vars, FateMap, ShownMap
<1>4. QED
  BY <1>1, <1>3, Invariance, PTL DEF Spec, Confirmed!SafeSpec

----------------------------------------------------------------------------
(* Payment.                                                                *)

Entering == {c \in Callers : ~Delivering(c) /\ Delivering(c)'}

Paid == IF Entering = {} THEN UNCHANGED limiterVars
        ELSE \E c \in Callers : Entering = {c} /\ Grant(call[c].now)

(* A step that puts nobody in front of the deliverer and costs nothing.    *)
LEMMA FreeStep ==
  ASSUME NEW c \in Callers, call'[c].op # "deliver",
         \A b \in Callers \ {c} : call'[b] = call[b],
         UNCHANGED limiterVars
  PROVE  Paid
<1>1. Entering = {}
  BY DEF Entering, Delivering
<1>2. QED
  BY <1>1 DEF Paid

(* A step that takes a token and puts its caller there.                    *)
LEMMA PaidStep ==
  ASSUME NEW c \in Callers, call[c].op # "deliver", call'[c].op = "deliver",
         \A b \in Callers \ {c} : call'[b] = call[b],
         Grant(call[c].now)
  PROVE  Paid
<1>1. Entering = {c}
  BY DEF Entering, Delivering
<1>2. QED
  BY <1>1 DEF Paid

LEMMA BeginPaid ==
  ASSUME TypeOK, NEW c \in Callers, Begin(c)
  PROVE  Paid
<1>1. \E op \in {"commit", "approve", "list", "now", "create"} : \E d, t : Start(c, op, d, t)
  BY DEF Begin, SubmitCommit, SubmitDraft, SubmitNow, DeliverScheduled, Schedulable, BeginApprove, BeginList
<1>2. PICK op \in {"commit", "approve", "list", "now", "create"} : \E d, t : Start(c, op, d, t)
  BY <1>1
<1>3. PICK d, t : Start(c, op, d, t)
  BY <1>2
<1>4. call'[c].op # "deliver" /\ \A b \in Callers \ {c} : call'[b] = call[b]
  BY <1>3, StartCalls
<1>5. UNCHANGED limiterVars
  BY <1>3 DEF Start
<1>6. QED
  BY <1>4, <1>5, FreeStep

LEMMA ContinuePaid ==
  ASSUME TypeOK, NEW c \in Callers, Continue(c)
  PROVE  Paid
<1>1. CASE CreateDraft(c)
  <2>1. Return(c) /\ UNCHANGED limiterVars
    BY <1>1 DEF CreateDraft
  <2>2. QED
    BY <2>1, ReturnCalls, FreeStep
<1>2. CASE Claim(c) \/ (DeliverNow(c) /\ Grant(call[c].now))
  <2>1. Grant(call[c].now) /\ call[c].op # "deliver"
    BY <1>2 DEF Claim, DeliverNow
  <2>2. call'[c].op = "deliver" /\ \A b \in Callers \ {c} : call'[b] = call[b]
    <3>1. CASE Claim(c)
      BY <3>1 DEF Claim, TypeOK, Call
    <3>2. CASE DeliverNow(c)
      <4>1. Allowed(call[c].now)
        BY <2>1 DEF Grant
      <4>2. QED
        BY <3>2, <4>1 DEF DeliverNow, TypeOK, Call
    <3>3. QED
      BY <1>2, <3>1, <3>2
  <2>3. QED
    BY <2>1, <2>2, PaidStep
<1>3. CASE /\ Refuse(c) \/ (DeliverNow(c) /\ UNCHANGED limiterVars)
               \/ Deliver(c) \/ ListDrafts(c)
           /\ Return(c)
  <2>1. UNCHANGED limiterVars
    BY <1>3 DEF Refuse, Deliver, ListDrafts
  <2>2. QED
    BY <1>3, <2>1, ReturnCalls, FreeStep
<1>4. QED
  BY <1>1, <1>2, <1>3, ContinueCases

LEMMA OutsidePaid ==
  ASSUME (\E t \in Token : Discard(t)) \/ Tick \/ UNCHANGED vars
  PROVE  Paid
<1>1. UNCHANGED <<call, limiterVars>>
  BY DEF Discard, Tick, vars, gateVars
<1>2. Entering = {}
  BY <1>1 DEF Entering, Delivering
<1>3. QED
  BY <1>1, <1>2 DEF Paid

(* gate.commit, Approve and deliverNow: every call of the deliverer takes  *)
(* a token of the bucket in the step that leads to it, and no other step   *)
(* touches the bucket.                                                     *)
THEOREM DeliveriesArePaid == Spec => PaidDelivery
<1>1. TypeOK /\ [Next]_vars => Paid
  BY BeginPaid, ContinuePaid, OutsidePaid DEF Next
<1>2. TypeOK /\ [Next]_vars =>
        [ LET entering == {c \in Callers : ~Delivering(c) /\ Delivering(c)'}
          IN  IF entering = {} THEN UNCHANGED limiterVars
              ELSE \E c \in Callers : entering = {c} /\ Grant(call[c].now) ]_vars
  BY <1>1 DEF Paid, Entering
<1>3. QED
  BY <1>2, Typed, PTL DEF Spec, PaidDelivery

----------------------------------------------------------------------------
(* Why a draft disappears.                                                 *)

MadeRoom(c, t) ==
  /\ call[c].op \in {"create", "list"}
  /\ call'[c].op = "idle"
  /\ \/ entry[t].expires <= call[c].now
     \/ call[c].op = "create" /\ OldestOfFull(t, call[c].now)

Reason(t) == Claimed(t)' \/ t \in discarded' \/ \E c \in Callers : MadeRoom(c, t)

(* pruneExpiredLocked pops nothing that is live.                           *)
LEMMA PrunedAreDead ==
  ASSUME TypeOK, NEW now \in Nat, NEW i \in 1..Pruned(now)
  PROVE  ~Live(order[i], now)
<1>1. Len(order) \in Nat
  BY DEF TypeOK
<1>2. CASE \E k \in 1..Len(order) : Live(order[k], now)
  <2> DEFINE P(k) == Live(order[k], now) /\ \A j \in 1..(k - 1) : ~Live(order[j], now)
             S == {k \in 1..Len(order) : Live(order[k], now)}
             n == CHOOSE k \in 1..Len(order) : P(k)
  <2>1. PICK m \in S : \A j \in S : m <= j
    <3>1. S \subseteq Nat /\ S # {}
      BY <1>1, <1>2
    <3>2. QED
      BY <3>1, LeastNatural
  <2>2. m \in 1..Len(order) /\ P(m)
    BY <1>1, <2>1
  <2>3. n \in 1..Len(order) /\ P(n)
    BY <2>2
  <2>4. Pruned(now) = n - 1
    BY <1>2 DEF Pruned
  <2>5. QED
    BY <1>1, <2>3, <2>4
<1>3. CASE ~ \E k \in 1..Len(order) : Live(order[k], now)
  <2>1. Pruned(now) = Len(order)
    BY <1>3 DEF Pruned
  <2>2. QED
    BY <1>3, <2>1
<1>4. QED
  BY <1>2, <1>3

(* A draft that pruning drops is expired.                                  *)
LEMMA DroppedExpired ==
  ASSUME TypeOK, NEW now \in Nat, NEW t \in drafts, t \notin DraftsAfter(Pruned(now))
  PROVE  entry[t].expires <= now
<1>1. PICK i \in 1..Pruned(now) : t = order[i]
  BY DEF DraftsAfter
<1>2. ~Live(t, now)
  BY <1>1, PrunedAreDead
<1>3. entry[t].expires \in Nat
  BY DEF TypeOK
<1>4. QED
  BY <1>2, <1>3 DEF Live

(* A draft that makes room is expired, or the oldest live one of an order  *)
(* that is full.                                                           *)
LEMMA DroppedForRoom ==
  ASSUME TypeOK, NEW now \in Nat, NEW t \in drafts, t \notin DraftsAfter(MakeRoom(now))
  PROVE  entry[t].expires <= now \/ OldestOfFull(t, now)
<1>1. Len(order) \in Nat /\ DraftCap \in Nat \ {0}
  BY GateAssumption DEF TypeOK
<1>2. Pruned(now) \in 0..Len(order)
  BY PrunedBounds
<1>3. CASE t \notin DraftsAfter(Pruned(now))
  BY <1>3, DroppedExpired
<1>4. CASE t \in DraftsAfter(Pruned(now))
  <2> DEFINE i == Pruned(now) + 1
  <2>1. MakeRoom(now) = i /\ Len(order) - Pruned(now) >= DraftCap
    BY <1>4 DEF MakeRoom
  <2>2. PICK k \in 1..i : t = order[k]
    BY <2>1 DEF DraftsAfter
  <2>3. k = i
    BY <1>2, <1>4, <2>2 DEF DraftsAfter
  <2>4. i \in 1..Len(order) /\ i - 1 = Pruned(now)
    BY <1>1, <1>2, <2>1
  <2>5. \A j \in 1..(i - 1) : ~Live(order[j], now)
    BY <2>4, PrunedAreDead
  <2>6. QED
    BY <2>1, <2>2, <2>3, <2>4, <2>5 DEF OldestOfFull
<1>5. QED
  BY <1>3, <1>4

LEMMA ContinueReason ==
  ASSUME IInv, NEW c \in Callers, Continue(c), NEW t \in drafts \ drafts'
  PROVE  Reason(t)
<1>0. TypeOK /\ call[c].now \in Nat
  BY CallType DEF IInv
<1>1. CASE CreateDraft(c)
  <2>1. t \notin DraftsAfter(MakeRoom(call[c].now)) /\ call[c].op = "create" /\ call'[c].op = "idle"
    BY <1>0, <1>1, ReturnCalls DEF CreateDraft
  <2>2. entry[t].expires <= call[c].now \/ OldestOfFull(t, call[c].now)
    BY <1>0, <2>1, DroppedForRoom
  <2>3. QED
    BY <2>1, <2>2 DEF Reason, MadeRoom
<1>2. CASE ListDrafts(c)
  <2>1. t \notin DraftsAfter(Pruned(call[c].now)) /\ call[c].op = "list" /\ call'[c].op = "idle"
    BY <1>0, <1>2, ReturnCalls DEF ListDrafts
  <2>2. entry[t].expires <= call[c].now
    BY <1>0, <2>1, DroppedExpired
  <2>3. QED
    BY <2>1, <2>2 DEF Reason, MadeRoom
<1>3. CASE Claim(c)
  <2>1. t = call[c].token /\ call'[c].op = "deliver" /\ call'[c].token = call[c].token
    BY <1>0, <1>3 DEF Claim, TypeOK, Call
  <2>2. Claimed(t)'
    BY <2>1 DEF Claimed, Delivering
  <2>3. QED
    BY <2>2 DEF Reason
<1>4. QED
  BY <1>1, <1>2, <1>3 DEF Continue, Refuse, DeliverNow, Deliver

(* gate.go: a draft leaves the table because it was claimed, discarded,    *)
(* found expired, or evicted as the oldest live one of a full order; no    *)
(* other is lost to an eviction, and a refusal by the rate floor leaves it *)
(* confirmable.                                                            *)
THEOREM DraftsLeaveForAReason == Spec => DraftLeavesForAReason
<1>1. IInv /\ [Next]_vars => \A t \in drafts \ drafts' : Reason(t)
  <2> SUFFICES ASSUME IInv, [Next]_vars, NEW t \in drafts \ drafts'
               PROVE  Reason(t)
    OBVIOUS
  <2>1. ASSUME NEW c \in Callers, Begin(c)
        PROVE  Reason(t)
    BY <2>1 DEF Begin, SubmitCommit, SubmitDraft, SubmitNow, DeliverScheduled, Schedulable, BeginApprove,
                BeginList, Start
  <2>2. ASSUME NEW c \in Callers, Continue(c)
        PROVE  Reason(t)
    BY <2>2, ContinueReason
  <2>3. ASSUME NEW s \in Token, Discard(s)
        PROVE  Reason(t)
    BY <2>3 DEF Discard, Reason
  <2>4. CASE Tick \/ UNCHANGED vars
    BY <2>4 DEF Tick, vars, gateVars
  <2>5. QED
    BY <2>1, <2>2, <2>3, <2>4 DEF Next
<1>2. IInv /\ [Next]_vars =>
        [ \A t \in drafts \ drafts' :
            \/ Claimed(t)'
            \/ t \in discarded'
            \/ \E c \in Callers :
                 /\ call[c].op \in {"create", "list"}
                 /\ call'[c].op = "idle"
                 /\ \/ entry[t].expires <= call[c].now
                    \/ call[c].op = "create" /\ OldestOfFull(t, call[c].now) ]_vars
  BY <1>1 DEF Reason, MadeRoom
<1>3. QED
  BY <1>2, Invariance, PTL DEF Spec, DraftLeavesForAReason

----------------------------------------------------------------------------
(* The schedule-time gate behind the schedule_send tool.                   *)

Wanted(r, now) == [kind |-> "text", fireAt |-> FireAt(r, now)]

ToolTypeOK ==
  /\ clock \in 0..MaxClock
  /\ request \in [Callers -> Requests]
  /\ asked \in [Token -> Requests]

LEMMA RequestFacts ==
  /\ AnyRequest \in Requests
  /\ \A r \in Requests : /\ ResolveFireAt(r) = FireAt(r, clock)
                         /\ \A now \in 0..MaxClock : Wanted(r, now) \in Deliveries
  BY RequestAssumption DEF AnyRequest, ResolveFireAt, Wanted

LEMMA ToolInitType == ToolInit => ToolTypeOK
  BY RequestFacts, GateAssumption DEF ToolInit, Init, ToolTypeOK

(* What a call of the tool does, by the path it takes.                     *)
LEMMA CallCases ==
  ASSUME NEW c \in Callers, CallScheduleSend(c)
  PROVE  \E r \in Requests :
           /\ request' = [request EXCEPT ![c] = r]
           /\ \/ \E t \in 1..minted : /\ Start(c, "commit", Wanted(r, clock), t)
                                      /\ UNCHANGED <<minted, asked>>
              \/ /\ \E trusted \in BOOLEAN : DeliversAtOnce(Wanted(r, clock), trusted)
                 /\ Start(c, "now", Wanted(r, clock), NoToken)
                 /\ UNCHANGED <<minted, asked>>
              \/ /\ \E trusted \in BOOLEAN : ~DeliversAtOnce(Wanted(r, clock), trusted)
                 /\ minted < MaxDrafts /\ minted' = minted + 1
                 /\ Start(c, "create", Wanted(r, clock), minted + 1)
                 /\ asked' = [asked EXCEPT ![minted + 1] = r]
  BY RequestFacts DEF CallScheduleSend, Wanted

(* Every step of the tool is a step of the gate.                           *)
LEMMA ToolStep ==
  ASSUME ToolTypeOK, [ToolNext]_toolNextVars
  PROVE  [Next]_vars
<1>1. ASSUME NEW c \in Callers, CallScheduleSend(c)
      PROVE  Begin(c)
  <2>1. PICK r \in Requests :
           \/ \E t \in 1..minted : Start(c, "commit", Wanted(r, clock), t) /\ UNCHANGED minted
           \/ /\ \E trusted \in BOOLEAN : DeliversAtOnce(Wanted(r, clock), trusted)
              /\ Start(c, "now", Wanted(r, clock), NoToken) /\ UNCHANGED minted
           \/ /\ \E trusted \in BOOLEAN : ~DeliversAtOnce(Wanted(r, clock), trusted)
              /\ minted < MaxDrafts /\ minted' = minted + 1
              /\ Start(c, "create", Wanted(r, clock), minted + 1)
    BY <1>1, CallCases
  <2>2. Wanted(r, clock) \in Deliveries
    BY RequestFacts DEF ToolTypeOK
  <2>3. SubmitCommit(c) \/ SubmitNow(c) \/ SubmitDraft(c)
    BY <2>1, <2>2 DEF SubmitCommit, SubmitNow, SubmitDraft
  <2>4. QED
    BY <2>3 DEF Begin
<1>2. ASSUME NEW c \in Callers, ContinueScheduleSend(c)
      PROVE  Continue(c)
  BY <1>2 DEF ContinueScheduleSend, Continue
<1>3. QED
  BY <1>1, <1>2 DEF ToolNext, Next, toolNextVars

LEMMA ToolTypeStep ==
  ASSUME ToolTypeOK, TypeOK, [ToolNext]_toolNextVars
  PROVE  ToolTypeOK'
<1>1. ASSUME NEW c \in Callers, CallScheduleSend(c)
      PROVE  ToolTypeOK'
  <2>1. PICK r \in Requests :
           /\ request' = [request EXCEPT ![c] = r]
           /\ UNCHANGED clock
           /\ asked' = asked \/ (minted < MaxDrafts /\ asked' = [asked EXCEPT ![minted + 1] = r])
    BY <1>1, CallCases DEF Start
  <2>2. QED
    BY <2>1 DEF ToolTypeOK
<1>2. ASSUME NEW c \in Callers, ContinueScheduleSend(c)
      PROVE  ToolTypeOK'
  BY <1>2 DEF ContinueScheduleSend, ToolTypeOK, toolVars, CreateDraft, Claim, Refuse, DeliverNow, Deliver
<1>3. CASE Tick /\ UNCHANGED toolVars
  BY <1>3, GateAssumption DEF Tick, toolVars, ToolTypeOK
<1>4. CASE UNCHANGED toolNextVars
  BY <1>4 DEF toolNextVars, vars, gateVars, toolVars, ToolTypeOK
<1>5. QED
  BY <1>1, <1>2, <1>3, <1>4 DEF ToolNext

(* serve.go builds the schedule-time gate from the same gate.New: the tool *)
(* in front of it, which refuses more and computes its deliveries anew on  *)
(* every call, does nothing that the gate does not allow, so that every    *)
(* theorem above holds of it.                                              *)
THEOREM ToolIsAGate == ToolSpec => Spec
<1>1. ToolInit => Init
  BY DEF ToolInit
<1>2. IInv /\ ToolTypeOK /\ [ToolNext]_toolNextVars => [Next]_vars /\ IInv' /\ ToolTypeOK'
  BY ToolStep, ToolTypeStep, StepInv DEF IInv
<1>3. ToolInit => IInv /\ ToolTypeOK
  BY <1>1, InitInv, ToolInitType
<1>4. QED
  BY <1>1, <1>2, <1>3, PTL DEF ToolSpec, Spec

----------------------------------------------------------------------------
(* Re-issuing the identical call.                                          *)

FixedTimes == \A r \in Requests : r.form = "at"

(* A draft, one still to be stored and a commit each carry what their call *)
(* asked for, at the one time it stands for.                               *)
AskedInv ==
  /\ \A t \in drafts : entry[t].delivery = Wanted(asked[t], 0)
  /\ \A c \in Callers : call[c].op = "create" => call[c].delivery = Wanted(asked[call[c].token], 0)
  /\ \A c \in Callers : call[c].op = "commit" => call[c].delivery = Wanted(request[c], 0)

LEMMA FixedWanted ==
  ASSUME FixedTimes, NEW r \in Requests, NEW now
  PROVE  Wanted(r, now) = Wanted(r, 0)
  BY DEF FixedTimes, Wanted, FireAt

LEMMA CallAsked ==
  ASSUME FixedTimes, IInv, ToolTypeOK, AskedInv, NEW c \in Callers, CallScheduleSend(c)
  PROVE  AskedInv'
<1>1. PICK r \in Requests :
         /\ request' = [request EXCEPT ![c] = r]
         /\ \/ \E t \in 1..minted : Start(c, "commit", Wanted(r, clock), t) /\ asked' = asked
            \/ Start(c, "now", Wanted(r, clock), NoToken) /\ asked' = asked
            \/ /\ minted < MaxDrafts
               /\ Start(c, "create", Wanted(r, clock), minted + 1)
               /\ asked' = [asked EXCEPT ![minted + 1] = r]
  BY CallCases
<1>2. PICK op \in {"commit", "now", "create"}, t \in Nat :
         /\ Start(c, op, Wanted(r, clock), t)
         /\ \/ op # "create" /\ asked' = asked
            \/ op = "create" /\ t = minted + 1 /\ minted < MaxDrafts /\ asked' = [asked EXCEPT ![t] = r]
  <2>1. minted \in Nat /\ NoToken \in Nat
    BY GateAssumption DEF IInv, TypeOK, NoToken
  <2>2. CASE \E t \in 1..minted : Start(c, "commit", Wanted(r, clock), t) /\ asked' = asked
    BY <2>1, <2>2
  <2>3. CASE Start(c, "now", Wanted(r, clock), NoToken) /\ asked' = asked
    BY <2>1, <2>3
  <2>4. CASE /\ minted < MaxDrafts
             /\ Start(c, "create", Wanted(r, clock), minted + 1)
             /\ asked' = [asked EXCEPT ![minted + 1] = r]
    <3>1. minted + 1 \in Nat
      BY <2>1
    <3>2. QED
      BY <2>4, <3>1
  <2>5. QED
    BY <1>1, <2>2, <2>3, <2>4
<1>3. /\ call'[c] = [op |-> op, delivery |-> Wanted(r, 0), token |-> t, now |-> clock]
      /\ \A b \in Callers \ {c} : call'[b] = call[b]
      /\ UNCHANGED <<drafts, entry>>
  BY <1>2, FixedWanted DEF Start, IInv, TypeOK
<1>4. /\ request'[c] = r
      /\ \A b \in Callers \ {c} : request'[b] = request[b]
  BY <1>1 DEF ToolTypeOK
<1>5. \A s \in 1..minted : asked'[s] = asked[s]
  BY <1>2, GateAssumption DEF ToolTypeOK, IInv, TypeOK, Token
<1>6. op = "create" => asked'[t] = r
  BY <1>2, GateAssumption DEF ToolTypeOK, IInv, TypeOK, Token
<1>7. \A s \in drafts : s \in 1..minted
  BY GateAssumption DEF IInv, TypeOK, FreshInv, Untouched, Token
<1>8. \A b \in Callers : call[b].op = "create" => call[b].token \in 1..minted
  BY DEF IInv, TokenInv
<1>9. QED
  BY <1>3, <1>4, <1>5, <1>6, <1>7, <1>8 DEF AskedInv

LEMMA ContinueAsked ==
  ASSUME IInv, ToolTypeOK, AskedInv, NEW c \in Callers, ContinueScheduleSend(c)
  PROVE  AskedInv'
<1>1. UNCHANGED <<request, asked>>
  BY DEF ContinueScheduleSend, toolVars
<1>2. /\ \A b \in Callers \ {c} : call'[b] = call[b]
      /\ call'[c].op \in {"idle", "deliver"}
  <2>1. call'[c].op \in {"idle", "deliver"}
    BY DEF ContinueScheduleSend, CreateDraft, Claim, Refuse, DeliverNow, Deliver, Return, Idle, IInv, TypeOK, Call
  <2>2. \A b \in Callers \ {c} : call'[b] = call[b]
    BY DEF ContinueScheduleSend, CreateDraft, Claim, Refuse, DeliverNow, Deliver, Return, IInv, TypeOK
  <2>3. QED
    BY <2>1, <2>2
<1>3. CASE CreateDraft(c)
  <2>1. call[c].op = "create" /\ call[c].token \in Token
    BY <1>3, GateAssumption DEF CreateDraft, IInv, TokenInv, TypeOK, Token
  <2>2. /\ drafts' \subseteq drafts \cup {call[c].token}
        /\ entry' = [entry EXCEPT ![call[c].token] = [delivery |-> call[c].delivery,
                                                       expires |-> call[c].now + DraftTTL]]
    BY <1>3 DEF CreateDraft, DraftsAfter
  <2>3. \A t \in drafts' : entry'[t].delivery = Wanted(asked[t], 0)
    BY <2>1, <2>2 DEF AskedInv, IInv, TypeOK
  <2>4. QED
    BY <1>1, <1>2, <2>3 DEF AskedInv
<1>4. CASE ~CreateDraft(c)
  <2>1. drafts' \subseteq drafts /\ UNCHANGED entry
    BY <1>4 DEF ContinueScheduleSend, Claim, Refuse, DeliverNow, Deliver
  <2>2. QED
    BY <1>1, <1>2, <2>1 DEF AskedInv
<1>5. QED
  BY <1>3, <1>4

LEMMA AskedStep ==
  ASSUME FixedTimes, IInv, ToolTypeOK, AskedInv, [ToolNext]_toolNextVars
  PROVE  AskedInv'
<1>1. CASE (Tick /\ UNCHANGED toolVars) \/ UNCHANGED toolNextVars
  BY <1>1 DEF Tick, toolNextVars, vars, gateVars, toolVars, AskedInv
<1>2. QED
  BY <1>1, CallAsked, ContinueAsked DEF ToolNext

(* sched_tools.go: "Only re-issuing the identical call with that token     *)
(* stores the schedule".  Where every call gives an absolute send_at, the  *)
(* identical call is never refused for its content while its draft lives;  *)
(* with delay_minutes it can be, which run send_delay shows.               *)
THEOREM IdenticalCallWorks == FixedTimes => (ToolSpec => []IdenticalCallCommits)
<1> SUFFICES ASSUME FixedTimes
             PROVE  ToolSpec => []IdenticalCallCommits
  OBVIOUS
<1>1. ToolInit => Init /\ AskedInv
  BY DEF ToolInit, Init, AskedInv, Idle
<1>2. ToolInit => IInv /\ ToolTypeOK /\ AskedInv
  BY <1>1, InitInv, ToolInitType
<1>3. IInv /\ ToolTypeOK /\ AskedInv /\ [ToolNext]_toolNextVars => IInv' /\ ToolTypeOK' /\ AskedInv'
  BY ToolStep, ToolTypeStep, StepInv, AskedStep DEF IInv
<1>4. IInv /\ AskedInv => IdenticalCallCommits
  <2>1. SUFFICES ASSUME IInv, AskedInv, NEW c \in Callers, call[c].op = "commit",
                        Live(call[c].token, call[c].now), request[c] = asked[call[c].token]
                 PROVE  Confirms(c)
    BY DEF IdenticalCallCommits
  <2>2. entry[call[c].token].delivery = call[c].delivery
    BY <2>1 DEF AskedInv, Live
  <2>3. QED
    BY <2>1, <2>2 DEF Confirms
<1>5. QED
  BY <1>2, <1>3, <1>4, PTL DEF ToolSpec
=============================================================================
