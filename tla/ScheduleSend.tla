--------------------------- MODULE ScheduleSend ----------------------------
(***************************************************************************)
(* The schedule_send tool (internal/mcpserv/sched_tools.go) in front of    *)
(* the schedule-time gate that serve.go builds over StoreDeliverer.        *)
(*                                                                         *)
(* The gate is module Gate's; its deliveries here carry a fire time, which *)
(* is part of what a draft is matched on.  The tool computes it anew on    *)
(* every call.  The dashboard has no hold on this gate, so that a draft of *)
(* it is only ever committed by re-issuing the call.                       *)
(***************************************************************************)
EXTENDS Gate

CONSTANTS
  Requests,   \* the calls made: records with a form ("at", "delay") and a value
  Horizon     \* scheduleHorizon

(* The moment a request stands for at a reading of the clock.              *)
FireAt(r, now) == IF r.form = "delay" THEN now + r.value ELSE r.value

\* Whatever a request resolves to is one of the deliveries the gate is asked for.
ASSUME RequestAssumption ==
  /\ Requests # {} /\ Requests \subseteq [form : {"at", "delay"}, value : Nat]
  /\ \A r \in Requests, now \in 0..MaxClock :
       [kind |-> "text", fireAt |-> FireAt(r, now)] \in Deliveries
  /\ Horizon \in Nat

AnyRequest == CHOOSE r \in Requests : TRUE

VARIABLES
  request,   \* what each caller asked for in its current call
  asked      \* history: what each token was asked for with

toolVars == <<request, asked>>
toolNextVars == <<vars, toolVars>>

ToolInit ==
  /\ Init
  /\ request = [c \in Callers |-> AnyRequest]
  /\ asked = [t \in Token |-> AnyRequest]

(* Mutant of ResolveFireAt: every value counts from now.                   *)
ResolveFromNow(r) == clock + r.value

(* resolveFireAt: send_at is absolute, delay_minutes counts from this call *)
ResolveFireAt(r) == FireAt(r, clock)

(* StoreDeliverer.Validate, on the first call and on the committing one.   *)
Validates(d) == d.fireAt > clock /\ d.fireAt <= clock + Horizon

(* scheduleSend: resolve the fire time, then Submit.                       *)
CallScheduleSend(c) ==
  \E r \in Requests, trusted \in BOOLEAN :
    LET d == [kind |-> "text", fireAt |-> ResolveFireAt(r)] IN
      /\ Validates(d)
      /\ request' = [request EXCEPT ![c] = r]
      /\ \/ /\ \E t \in 1..minted : Start(c, "commit", d, t)
            /\ UNCHANGED <<minted, asked>>
         \/ /\ DeliversAtOnce(d, trusted)
            /\ Start(c, "now", d, NoToken)
            /\ UNCHANGED <<minted, asked>>
         \/ /\ ~DeliversAtOnce(d, trusted)
            /\ minted < MaxDrafts
            /\ minted' = minted + 1
            /\ Start(c, "create", d, minted + 1)
            /\ asked' = [asked EXCEPT ![minted + 1] = r]

ContinueScheduleSend(c) ==
  /\ CreateDraft(c) \/ Claim(c) \/ Refuse(c) \/ DeliverNow(c) \/ Deliver(c)
  /\ UNCHANGED toolVars

ToolNext ==
  \/ \E c \in Callers : CallScheduleSend(c) \/ ContinueScheduleSend(c)
  \/ Tick /\ UNCHANGED toolVars

ToolSpec == ToolInit /\ [][ToolNext]_toolNextVars

(* "Only re-issuing the identical call with that token stores the          *)
(* schedule": the identical call, made while the draft lives, is not       *)
(* refused for its content.                                                *)
IdenticalCallCommits ==
  \A c \in Callers :
    LET k == call[c] IN
      k.op = "commit" /\ Live(k.token, k.now) /\ request[c] = asked[k.token] =>
        Confirms(c)
=============================================================================
