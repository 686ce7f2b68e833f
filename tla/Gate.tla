------------------------------- MODULE Gate -------------------------------
(***************************************************************************)
(* The send gate: internal/gate/gate.go.                                   *)
(*                                                                         *)
(* Every outbound action is one call on the gate.  Calls run concurrently  *)
(* (MCP tool calls, dashboard requests, the schedule runner); each reads   *)
(* the clock, then does what it has to do under the gate's mutex, then, if *)
(* it won the right to, calls the deliverer outside of it.  A call here is *)
(* therefore up to three steps: Submit and its siblings read the clock and *)
(* choose a path; the path's critical section; Deliver.                    *)
(*                                                                         *)
(* The token bucket is module RateLimiter.  The deliverer (the bridge for  *)
(* the live gate, the schedule store for the scheduling gate) is reached   *)
(* through Validate, which refuses a call before it changes anything and   *)
(* is a stuttering step here, and Deliver.                                 *)
(***************************************************************************)
EXTENDS RateLimiter, SequencesExt

CONSTANTS
  Callers,      \* goroutines calling the gate
  Deliveries,   \* the deliveries asked for: records with a kind
  DraftTTL,     \* draftTTL, in seconds
  DraftCap,     \* draftCap
  MaxDrafts,    \* bound: drafts minted in a behaviour
  MaxClock      \* bound: seconds the clock advances

ASSUME GateAssumption ==
  /\ Deliveries # {}
  /\ DraftTTL \in Nat \ {0}
  /\ DraftCap \in Nat \ {0}
  /\ MaxDrafts \in Nat
  /\ MaxClock \in Nat

Token == 1..MaxDrafts
NoToken == 0

AnyDelivery == CHOOSE d \in Deliveries : TRUE

VARIABLES
  clock,      \* the clock the gate was built with
  minted,     \* tokens 1..minted have been generated
  drafts,     \* the tokens in the drafts map
  entry,      \* what a token was minted for: delivery and expires
  order,      \* the order slice
  call,       \* what each caller is doing
  delivered,  \* history: how often Deliver was called for each token
  discarded   \* history: tokens a Discard returned true for

gateVars == <<clock, minted, drafts, entry, order, call,
              delivered, discarded>>
vars == <<limiterVars, gateVars>>

Ops == {"idle", "create", "commit", "approve", "list", "now", "deliver"}

Idle == [op |-> "idle", delivery |-> AnyDelivery, token |-> NoToken, now |-> 0]

Call == [op : Ops, delivery : Deliveries, token : Token \cup {NoToken}, now : Nat]

TypeOK ==
  /\ LimiterTypeOK
  /\ clock \in Nat
  /\ minted \in 0..MaxDrafts
  /\ drafts \subseteq Token
  /\ entry \in [Token -> [delivery : Deliveries, expires : Nat]]
  /\ order \in Seq(Token)
  /\ call \in [Callers -> Call]
  /\ delivered \in [Token -> Nat]
  /\ discarded \subseteq Token

Init ==
  /\ LimiterInit
  /\ clock = 0
  /\ minted = 0
  /\ drafts = {}
  /\ entry = [t \in Token |-> [delivery |-> AnyDelivery, expires |-> 0]]
  /\ order = <<>>
  /\ call = [c \in Callers |-> Idle]
  /\ delivered = [t \in Token |-> 0]
  /\ discarded = {}

----------------------------------------------------------------------------
(* Helpers on the draft table.                                             *)

Live(t, now) == t \in drafts /\ entry[t].expires > now

(* How many tokens pruneExpiredLocked pops off the front of order: it      *)
(* stops at the first that is still live.                                  *)
Pruned(now) ==
  IF \E i \in 1..Len(order) : Live(order[i], now)
  THEN (CHOOSE i \in 1..Len(order) :
          Live(order[i], now) /\ \A j \in 1..(i - 1) : ~Live(order[j], now)) - 1
  ELSE Len(order)

(* order and drafts once the first n tokens of order are dropped.          *)
OrderAfter(n) == SubSeq(order, n + 1, Len(order))
DraftsAfter(n) == drafts \ {order[i] : i \in 1..n}

(* Mutants of MakeRoom: evicts one draft too late; and decides whether     *)
(* the order is full before the stale tokens are pruned.                   *)
MakeRoomLate(now) ==
  IF Len(order) - Pruned(now) > DraftCap THEN Pruned(now) + 1 ELSE Pruned(now)

MakeRoomFirst(now) ==
  IF Len(order) >= DraftCap /\ Pruned(now) < Len(order) THEN Pruned(now) + 1 ELSE Pruned(now)

(* storeDraftLocked prunes, then evicts the front if order, stale tokens   *)
(* included, is still at capacity.                                         *)
MakeRoom(now) ==
  IF Len(order) - Pruned(now) >= DraftCap THEN Pruned(now) + 1 ELSE Pruned(now)

AlwaysDrafts(kind) == kind \in {"block", "unblock"}

(* Mutant of DeliversAtOnce: trust is asked before the kind.               *)
TrustFirst(d, trusted) == d.kind = "read" \/ trusted

(* trusted() re-reads the trust list on every decision, and the CLI and    *)
(* the dashboard edit it at any time, so its answer is an input here.      *)
DeliversAtOnce(d, trusted) ==
  /\ ~AlwaysDrafts(d.kind)
  /\ d.kind = "read" \/ trusted

----------------------------------------------------------------------------
(* Starting a call: the caller is idle, and the clock is read.             *)

Start(c, op, d, t) ==
  /\ call[c].op = "idle"
  /\ call' = [call EXCEPT ![c] = [op |-> op, delivery |-> d, token |-> t, now |-> clock]]
  /\ UNCHANGED <<limiterVars, clock, drafts, entry, order, delivered,
                 discarded>>

(* Submit with a draft token goes to commit, whatever the kind.  The       *)
(* caller may pass any token generated so far, with any content.           *)
SubmitCommit(c) ==
  /\ \E d \in Deliveries, t \in 1..minted : Start(c, "commit", d, t)
  /\ UNCHANGED minted

(* Submit without one: block and unblock draft even for a trusted          *)
(* recipient, a read receipt never drafts, and the rest depends on trust.  *)
(* createDraft generates its token, always a fresh one, before it reads    *)
(* the clock.                                                              *)
SubmitDraft(c) ==
  \E d \in Deliveries, trusted \in BOOLEAN :
    /\ ~DeliversAtOnce(d, trusted)
    /\ minted < MaxDrafts
    /\ minted' = minted + 1
    /\ Start(c, "create", d, minted + 1)

SubmitNow(c) ==
  \E d \in Deliveries, trusted \in BOOLEAN :
    /\ DeliversAtOnce(d, trusted)
    /\ Start(c, "now", d, NoToken)
    /\ UNCHANGED minted

(* What an entry of the schedule store can hold: schedule_send, the only   *)
(* one to add any, makes no other kinds.                                   *)
Schedulable == {d \in Deliveries : d.kind \in {"text", "media"}}

(* DeliverScheduled skips trust: the schedule entry is the confirmation.   *)
DeliverScheduled(c) ==
  \E d \in Schedulable :
    /\ Start(c, "now", d, NoToken)
    /\ UNCHANGED minted

BeginApprove(c) ==
  /\ \E t \in 1..minted : Start(c, "approve", AnyDelivery, t)
  /\ UNCHANGED minted

BeginList(c) == Start(c, "list", AnyDelivery, NoToken) /\ UNCHANGED minted

----------------------------------------------------------------------------
(* The critical sections.                                                  *)

Return(c) == call' = [call EXCEPT ![c] = Idle]

CreateDraft(c) ==
  LET t == call[c].token
      n == MakeRoom(call[c].now)
  IN
    /\ call[c].op = "create"
    /\ drafts' = DraftsAfter(n) \cup {t}
    /\ order' = Append(OrderAfter(n), t)
    /\ entry' = [entry EXCEPT ![t] = [delivery |-> call[c].delivery,
                                      expires |-> call[c].now + DraftTTL]]
    /\ Return(c)
    /\ UNCHANGED <<limiterVars, clock, minted, delivered, discarded>>

(* Mutant of Confirms: the content is not compared.                        *)
ConfirmsAnyContent(c) == Live(call[c].token, call[c].now)

(* commit matches the whole delivery; Approve takes the one it stored.     *)
Confirms(c) ==
  LET k == call[c] IN
    /\ Live(k.token, k.now)
    /\ k.op = "commit" => entry[k.token].delivery = k.delivery

(* Mutant of Claim: the draft is deleted only by whoever prunes it.        *)
ClaimKeepsDraft(c) ==
  /\ call[c].op \in {"commit", "approve"}
  /\ Confirms(c)
  /\ Grant(call[c].now)
  /\ call' = [call EXCEPT
                ![c].op = "deliver",
                ![c].delivery = IF call[c].op = "commit" THEN @
                                ELSE entry[call[c].token].delivery]
  /\ UNCHANGED <<clock, minted, drafts, entry, order, delivered, discarded>>

(* commit and Approve, claiming the draft: the lookup, the limiter and the *)
(* delete are one critical section.  The token stays in order.             *)
Claim(c) ==
  /\ call[c].op \in {"commit", "approve"}
  /\ Confirms(c)
  /\ Grant(call[c].now)
  /\ drafts' = drafts \ {call[c].token}
  /\ call' = [call EXCEPT
                ![c].op = "deliver",
                ![c].delivery = IF call[c].op = "commit" THEN @
                                ELSE entry[call[c].token].delivery]
  /\ UNCHANGED <<clock, minted, entry, order, delivered, discarded>>

(* Mutant of Refuse: a call waits for the limiter instead of being refused. *)
RefuseInvalidOnly(c) ==
  /\ call[c].op \in {"commit", "approve"}
  /\ ~Confirms(c)
  /\ Return(c)
  /\ UNCHANGED <<limiterVars, clock, minted, drafts, entry, order,
                 delivered, discarded>>

(* commit and Approve, refusing: no such draft, or no token in the bucket. *)
Refuse(c) ==
  /\ call[c].op \in {"commit", "approve"}
  /\ ~Confirms(c) \/ ~Allowed(call[c].now)
  /\ Return(c)
  /\ UNCHANGED <<limiterVars, clock, minted, drafts, entry, order,
                 delivered, discarded>>

(* Mutant of DeliverNow: asks for a token, and does not take it.           *)
DeliverNowUnpaid(c) ==
  /\ call[c].op = "now"
  /\ IF Allowed(call[c].now) THEN call' = [call EXCEPT ![c].op = "deliver"] ELSE Return(c)
  /\ UNCHANGED <<limiterVars, clock, minted, drafts, entry, order, delivered,
                 discarded>>

(* deliverNow, which takes no lock but the limiter's own.                  *)
DeliverNow(c) ==
  /\ call[c].op = "now"
  /\ \/ /\ Grant(call[c].now)
        /\ call' = [call EXCEPT ![c].op = "deliver"]
     \/ /\ ~Allowed(call[c].now)
        /\ Return(c)
        /\ UNCHANGED limiterVars
  /\ UNCHANGED <<clock, minted, drafts, entry, order, delivered, discarded>>

(* The deliverer is called.  Sent, refused or ambiguous, the draft stays   *)
(* consumed, so the outcomes are one step here.                            *)
Deliver(c) ==
  LET t == call[c].token IN
    /\ call[c].op = "deliver"
    /\ delivered' = IF t = NoToken THEN delivered
                    ELSE [delivered EXCEPT ![t] = @ + 1]
    /\ Return(c)
    /\ UNCHANGED <<limiterVars, clock, minted, drafts, entry, order,
                   discarded>>

(* Drafts() prunes before it lists.                                        *)
ListDrafts(c) ==
  LET n == Pruned(call[c].now) IN
    /\ call[c].op = "list"
    /\ order' = OrderAfter(n)
    /\ drafts' = DraftsAfter(n)
    /\ Return(c)
    /\ UNCHANGED <<limiterVars, clock, minted, entry,
                   delivered, discarded>>

(* Mutant of Discard: returns true for a token it was only ever given.     *)
DiscardUnchecked(t) ==
  /\ t \in 1..minted
  /\ drafts' = drafts \ {t}
  /\ discarded' = discarded \cup {t}
  /\ UNCHANGED <<limiterVars, clock, minted, entry, order, call,
                 delivered>>

(* Discard reads no clock and is one critical section.                     *)
Discard(t) ==
  /\ t \in drafts
  /\ drafts' = drafts \ {t}
  /\ discarded' = discarded \cup {t}
  /\ UNCHANGED <<limiterVars, clock, minted, entry, order, call,
                 delivered>>

----------------------------------------------------------------------------
Tick ==
  /\ clock < MaxClock
  /\ clock' = clock + 1
  /\ UNCHANGED <<limiterVars, minted, drafts, entry, order, call,
                 delivered, discarded>>

Begin(c) ==
  \/ SubmitCommit(c) \/ SubmitDraft(c) \/ SubmitNow(c)
  \/ DeliverScheduled(c) \/ BeginApprove(c) \/ BeginList(c)

Continue(c) ==
  \/ CreateDraft(c) \/ Claim(c) \/ Refuse(c) \/ DeliverNow(c)
  \/ Deliver(c) \/ ListDrafts(c)

Next ==
  \/ \E c \in Callers : Begin(c) \/ Continue(c)
  \/ \E t \in Token : Discard(t)
  \/ Tick

Spec == Init /\ [][Next]_vars

(* A goroutine that has begun a call is scheduled again.                   *)
FairSpec == Spec /\ \A c \in Callers : WF_vars(Continue(c))

----------------------------------------------------------------------------
(* Properties.                                                             *)

Delivering(c) == call[c].op = "deliver"
Creating(t) == \E c \in Callers : call[c].op = "create" /\ call[c].token = t
Claimed(t) == \E c \in Callers : Delivering(c) /\ call[c].token = t

(* "It can never be committed twice": however the model's own re-submits,  *)
(* the human's approvals, discards and evictions race, a draft reaches the *)
(* deliverer at most once, the ambiguous failures included.                *)
AtMostOnce == \A t \in Token : delivered[t] <= 1

(* A confirmed delivery is the one the draft was shown for, and its draft  *)
(* is out of everyone else's reach before the deliverer is called.         *)
ConfirmedContent ==
  \A c \in Callers :
    Delivering(c) /\ call[c].token # NoToken =>
      /\ call[c].delivery = entry[call[c].token].delivery
      /\ call[c].token \notin drafts
      /\ \A b \in Callers \ {c} :
           Delivering(b) => call[b].token # call[c].token

(* "Discarding only ever prevents a send": a draft whose Discard returned  *)
(* true is never delivered, not even by a commit already under way.        *)
DiscardIsFinal ==
  \A t \in discarded : delivered[t] = 0 /\ ~Claimed(t) /\ t \notin drafts

(* Cap accounting sees every draft: there is no map entry without an order *)
(* entry, no token is in order twice, and order, hence the map, stays      *)
(* within draftCap.                                                        *)
DraftsAccounted ==
  /\ drafts \subseteq ToSet(order)
  /\ IsInjective(order)
  /\ Len(order) <= DraftCap

(* block and unblock are confirmed on every call: none is ever delivered   *)
(* but by committing or approving a draft.                                 *)
BlockNeverUnconfirmed ==
  \A c \in Callers :
    call[c].op = "now" \/ (Delivering(c) /\ call[c].token = NoToken) =>
      ~AlwaysDrafts(call[c].delivery.kind)

(* t is the oldest live draft of an order that is full without the stale   *)
(* tokens in front of it: older ones are expired, claimed or discarded.    *)
OldestOfFull(t, now) ==
  \E i \in 1..Len(order) :
    /\ order[i] = t
    /\ \A j \in 1..(i - 1) : ~Live(order[j], now)
    /\ Len(order) - (i - 1) >= DraftCap

(* A draft disappears only because a call claimed it, a Discard returned   *)
(* true for it, the reading of some call found it expired, or a call that  *)
(* needed its place evicted it as the oldest live draft of a full order:   *)
(* no other live draft is lost, whatever the order of the expiries and     *)
(* however many tokens of confirmed drafts linger (gate.go:345-376).  In   *)
(* particular a commit or approval that the limiter refuses leaves the     *)
(* draft as it was.                                                        *)
DraftLeavesForAReason ==
  [][ \A t \in drafts \ drafts' :
        \/ Claimed(t)'
        \/ t \in discarded'
        \/ \E c \in Callers :
             /\ call[c].op \in {"create", "list"}
             /\ call'[c].op = "idle"
             /\ \/ entry[t].expires <= call[c].now
                \/ call[c].op = "create" /\ OldestOfFull(t, call[c].now) ]_vars

(* Every call of the deliverer is paid for: a caller gets to it in exactly *)
(* the steps that take a token from the bucket, one caller per token; a    *)
(* refused call costs nothing.                                             *)
PaidDelivery ==
  [][ LET entering == {c \in Callers : ~Delivering(c) /\ Delivering(c)'}
      IN  IF entering = {} THEN UNCHANGED limiterVars
          ELSE \E c \in Callers : entering = {c} /\ Grant(call[c].now) ]_vars

(* "Submit never blocks waiting": whatever the limiter says, every call    *)
(* returns.                                                                *)
NeverBlocks ==
  \A c \in Callers : call[c].op # "idle" ~> call[c].op = "idle"

----------------------------------------------------------------------------
(* The gate implements Confirmation.                                       *)

Fate(t) ==
  IF t > minted \/ Creating(t) THEN "unminted"
  ELSE IF t \in drafts THEN "pending"
  ELSE IF Claimed(t) THEN "claimed"
  ELSE IF delivered[t] > 0 THEN "delivered"
  ELSE "withdrawn"

Confirmed == INSTANCE Confirmation WITH
  Content <- Deliveries,
  fate    <- [t \in Token |-> Fate(t)],
  shown   <- [t \in Token |-> entry[t].delivery]

ImplementsConfirmation == Confirmed!Spec

=============================================================================
