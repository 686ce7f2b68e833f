----------------------------- MODULE Schedule -----------------------------
(***************************************************************************)
(* Scheduled sends: internal/schedule (the store and the runner), as       *)
(* serve.go starts them and the cancel handlers of mcpserv and dashboard   *)
(* use them.                                                               *)
(*                                                                         *)
(* The store keeps the pending entries in memory and rewrites one file     *)
(* with all of them on every change.  Clients (the schedule-time gate's    *)
(* deliverer, the cancel handlers) change it; one runner fires entries     *)
(* when due.  The process may stop at any step and be started again later, *)
(* with what the file says.                                                *)
(*                                                                         *)
(* The gate in front of Add, and the limiter inside of DeliverScheduled,   *)
(* are module Gate's; here a delivery may simply be refused as rate        *)
(* limited.  The bridge delivers only while it is connected.               *)
(***************************************************************************)
EXTENDS Integers, FiniteSets

CONSTANTS
  Clients,       \* goroutines adding and cancelling
  FireTimes,     \* the fire times asked for
  MissedGrace,   \* missedGrace
  Horizon,       \* scheduleHorizon
  RetryEvery,    \* defaultRetryEvery
  MaxEntries,    \* bound: entries submitted in a behaviour
  MaxClock,      \* bound: how far the clock advances
  MaxStops,      \* bound: how often the process stops
  MaxFailures    \* bound: how often persisting fails

ASSUME ScheduleAssumption ==
  /\ FireTimes \subseteq Nat
  /\ {MissedGrace, Horizon, MaxEntries, MaxClock, MaxStops, MaxFailures} \subseteq Nat
  /\ RetryEvery \in Nat \ {0}

Id == 1..MaxEntries
NoId == 0

VARIABLES
  clock,
  stops,      \* how often the process has stopped
  failures,   \* how often persisting has failed
  up,         \* is serve running?
  upSince,    \* when it was started
  online,     \* is the bridge connected?
  entries,    \* Store.entries, as ids: List orders them by fire time alone
  disk,       \* the ids in schedules.json
  changed,    \* is there a signal in the changed channel?
  added,      \* ids 1..added have been submitted
  fireAt,     \* the fire time of each
  client,     \* what each client is doing
  runner,     \* what the runner is doing
  sent,       \* history: deliveries attempted since serve was started
  outcome,    \* history: what became of the last attempt, since submission
  acked,      \* history: entries whose Add returned without an error
  cancelled,  \* history: entries whose Remove for a client did
  settled,    \* history: entries delivered, dropped or taken out for a client
  late        \* history: overdue entries that Load kept

envVars == <<clock, stops, failures, up, upSince, online>>
storeVars == <<entries, disk, changed>>
history == <<sent, outcome, acked, cancelled, settled, late>>
vars == <<envVars, storeVars, added, fireAt, client, runner, history>>

Outcomes == {"none", "sent", "offline", "ambiguous"}

TypeOK ==
  /\ {clock, stops, failures, upSince} \subseteq Nat
  /\ {up, online, changed} \subseteq BOOLEAN
  /\ {entries, disk, acked, cancelled, settled, late} \subseteq SUBSET Id
  /\ added \in 0..MaxEntries
  /\ fireAt \in [Id -> Nat]
  /\ client \in [Clients -> [pc : {"idle", "add", "notify"}, id : Id \cup {NoId}]]
  /\ runner \in [pc : {"off", "next", "wait", "sleep", "deliver", "remove"},
                 id : Id \cup {NoId}, wake : Nat]
  /\ runner.pc \in {"deliver", "remove"} => runner.id \in Id
  /\ sent \in [Id -> Nat]
  /\ outcome \in [Id -> Outcomes]

IdleClient == [pc |-> "idle", id |-> NoId]
RunnerAt(pc) == [pc |-> pc, id |-> NoId, wake |-> 0]

Init ==
  /\ clock = 0 /\ stops = 0 /\ failures = 0
  /\ up = TRUE /\ upSince = 0 /\ online = FALSE
  /\ entries = {} /\ disk = {} /\ changed = FALSE
  /\ added = 0
  /\ fireAt = [i \in Id |-> 0]
  /\ client = [c \in Clients |-> IdleClient]
  /\ runner = RunnerAt("next")
  /\ sent = [i \in Id |-> 0]
  /\ outcome = [i \in Id |-> "none"]
  /\ acked = {} /\ cancelled = {} /\ settled = {} /\ late = {}

----------------------------------------------------------------------------
(* The store.                                                              *)

(* persistLocked writes a temporary file and renames it over the old one:  *)
(* the file holds all of the new entries or all of the old.                *)
Persist(ok, ids) ==
  \/ /\ ok
     /\ disk' = ids
     /\ UNCHANGED failures
  \/ /\ ~ok
     /\ failures < MaxFailures
     /\ failures' = failures + 1
     /\ UNCHANGED disk

(* Validate, for a submission that goes on to be stored: Submit runs it    *)
(* ahead of the limiter and of the commit.                                 *)
Submit(c) ==
  /\ up
  /\ client[c].pc = "idle"
  /\ added < MaxEntries
  /\ added' = added + 1
  /\ \E f \in FireTimes :
       /\ f > clock
       /\ f <= clock + Horizon
       /\ fireAt' = [fireAt EXCEPT ![added + 1] = f]
  /\ client' = [client EXCEPT ![c] = [pc |-> "add", id |-> added + 1]]
  /\ UNCHANGED <<envVars, storeVars, runner, history>>

(* Mutant of Add: it persists what was there before.                       *)
AddPersistsOld(c) ==
  LET i == client[c].id IN
    /\ client[c].pc = "add"
    /\ entries' = entries \cup {i}
    /\ Persist(TRUE, entries)
    /\ acked' = acked \cup {i}
    /\ client' = [client EXCEPT ![c] = [pc |-> "notify", id |-> i]]
    /\ UNCHANGED <<clock, stops, up, upSince, online, changed, added, fireAt,
                   runner, sent, outcome, cancelled, settled, late>>

(* Mutant of Add: it does not notify.                                      *)
AddSilently(c) ==
  LET i == client[c].id IN
    /\ client[c].pc = "add"
    /\ entries' = entries \cup {i}
    /\ Persist(TRUE, entries \cup {i})
    /\ acked' = acked \cup {i}
    /\ client' = [client EXCEPT ![c] = IdleClient]
    /\ UNCHANGED <<clock, stops, up, upSince, online, changed, added, fireAt,
                   runner, sent, outcome, cancelled, settled, late>>

(* Add: the entry stays in memory even when it could not be persisted and  *)
(* the caller is told so.                                                  *)
Add(c) ==
  LET i == client[c].id IN
    /\ client[c].pc = "add"
    /\ entries' = entries \cup {i}
    /\ \E ok \in BOOLEAN :
         /\ Persist(ok, entries \cup {i})
         /\ acked' = IF ok THEN acked \cup {i} ELSE acked
         /\ client' = [client EXCEPT ![c] = IF ok THEN [pc |-> "notify", id |-> i]
                                            ELSE IdleClient]
    /\ UNCHANGED <<clock, stops, up, upSince, online, changed, added, fireAt,
                   runner, sent, outcome, cancelled, settled, late>>

(* Mutant of Cancel: it persists only once another write comes along.      *)
CancelInMemory(c) ==
  \E i \in entries :
    /\ up
    /\ client[c].pc = "idle"
    /\ entries' = entries \ {i}
    /\ cancelled' = cancelled \cup {i}
    /\ settled' = settled \cup {i}
    /\ client' = [client EXCEPT ![c] = [pc |-> "notify", id |-> i]]
    /\ UNCHANGED <<envVars, disk, changed, added, fireAt, runner, sent, outcome,
                   acked, late>>

(* Remove for cancel_scheduled or the dashboard, with any id ever given    *)
(* out; one that is not pending changes nothing.  It notifies whether or   *)
(* not it persisted.                                                       *)
Cancel(c) ==
  \E i \in entries, ok \in BOOLEAN :
    /\ up
    /\ client[c].pc = "idle"
    /\ entries' = entries \ {i}
    /\ Persist(ok, entries \ {i})
    /\ cancelled' = IF ok THEN cancelled \cup {i} ELSE cancelled
    /\ settled' = settled \cup {i}
    /\ client' = [client EXCEPT ![c] = [pc |-> "notify", id |-> i]]
    /\ UNCHANGED <<clock, stops, up, upSince, online, changed, added, fireAt,
                   runner, sent, outcome, acked, late>>

(* notify, after the unlock: a send to a channel of one slot that drops    *)
(* the signal when the slot is taken.                                      *)
Notify(c) ==
  /\ client[c].pc = "notify"
  /\ changed' = TRUE
  /\ client' = [client EXCEPT ![c] = IdleClient]
  /\ UNCHANGED <<envVars, entries, disk, added, fireAt, runner, history>>

----------------------------------------------------------------------------
(* The runner.                                                             *)

Soonest(i) == i \in entries /\ \A j \in entries : fireAt[i] <= fireAt[j]

(* Run's loop head: next, and the comparison with the clock.               *)
NextEntry ==
  /\ runner.pc = "next"
  /\ \/ /\ entries = {}
        /\ runner' = RunnerAt("wait")
     \/ \E i \in entries :
          /\ Soonest(i)
          /\ runner' = IF fireAt[i] > clock
                       THEN [pc |-> "sleep", id |-> i, wake |-> fireAt[i]]
                       ELSE [pc |-> "deliver", id |-> i, wake |-> 0]
  /\ UNCHANGED <<envVars, storeVars, added, fireAt, client, history>>

(* Mutant of TakeChange: an interrupted sleep goes on to deliver.          *)
ChangeDelivers ==
  /\ runner.pc = "wait" \/ (runner.pc = "sleep" /\ runner.id # NoId)
  /\ changed
  /\ changed' = FALSE
  /\ runner' = IF runner.pc = "sleep" THEN [runner EXCEPT !.pc = "deliver"] ELSE RunnerAt("next")
  /\ UNCHANGED <<envVars, entries, disk, added, fireAt, client, history>>

(* waitForChange, and the first half of sleepOrChange.  The rate-limited   *)
(* retry (a sleep with no id) does not listen for changes.                 *)
TakeChange ==
  /\ runner.pc = "wait" \/ (runner.pc = "sleep" /\ runner.id # NoId)
  /\ changed
  /\ changed' = FALSE
  /\ runner' = RunnerAt("next")
  /\ UNCHANGED <<envVars, entries, disk, added, fireAt, client, history>>

Wake ==
  /\ runner.pc = "sleep"
  /\ clock >= runner.wake
  /\ runner' = RunnerAt("next")
  /\ UNCHANGED <<envVars, storeVars, added, fireAt, client, history>>

(* DeliverScheduled refused by the shared limiter: the entry stays.  Bound:*)
(* only where the retry still falls within the clock's bound.              *)
RateLimited ==
  /\ runner.pc = "deliver"
  /\ clock + RetryEvery <= MaxClock
  /\ runner' = [pc |-> "sleep", id |-> NoId, wake |-> clock + RetryEvery]
  /\ UNCHANGED <<envVars, storeVars, added, fireAt, client, history>>

(* DeliverScheduled let through.  A disconnected bridge refuses on the     *)
(* spot; a connected one sends, or fails with the message sent or not.     *)
Deliver ==
  LET i == runner.id IN
    /\ runner.pc = "deliver"
    /\ \E o \in Outcomes \ {"none"} :
         /\ (o = "offline") = ~online
         /\ outcome' = [outcome EXCEPT ![i] = o]
    /\ sent' = [sent EXCEPT ![i] = @ + 1]
    /\ runner' = [runner EXCEPT !.pc = "remove"]
    /\ UNCHANGED <<envVars, storeVars, added, fireAt, client, acked,
                   cancelled, settled, late>>

(* Mutant of RemoveDelivered: an entry that could not be persisted away is *)
(* put back.                                                               *)
RemoveRollsBack ==
  LET i == runner.id IN
    /\ runner.pc = "remove"
    /\ runner' = RunnerAt("next")
    /\ settled' = settled \cup {i}
    /\ changed' = TRUE
    /\ \E ok \in BOOLEAN :
         /\ Persist(ok, entries \ {i})
         /\ entries' = IF ok THEN entries \ {i} ELSE entries
    /\ UNCHANGED <<clock, stops, up, upSince, online, added, fireAt, client,
                   sent, outcome, acked, cancelled, late>>

(* Remove for the runner, which ignores its error.  Nobody else reads the  *)
(* channel, so its notify is not a step of its own.                        *)
RemoveDelivered ==
  LET i == runner.id IN
    /\ runner.pc = "remove"
    /\ runner' = RunnerAt("next")
    /\ settled' = settled \cup {i}
    /\ \/ /\ i \in entries
          /\ entries' = entries \ {i}
          /\ changed' = TRUE
          /\ \E ok \in BOOLEAN : Persist(ok, entries \ {i})
       \/ /\ i \notin entries
          /\ UNCHANGED <<storeVars, failures>>
    /\ UNCHANGED <<clock, stops, up, upSince, online, added, fireAt, client,
                   sent, outcome, acked, cancelled, late>>

----------------------------------------------------------------------------
(* The process.                                                            *)

(* serve stops, at whatever step its goroutines are.                       *)
Stop ==
  /\ up
  /\ stops < MaxStops
  /\ stops' = stops + 1
  /\ up' = FALSE /\ online' = FALSE
  /\ entries' = {} /\ changed' = FALSE
  /\ client' = [c \in Clients |-> IdleClient]
  /\ runner' = RunnerAt("off")
  /\ UNCHANGED <<clock, failures, upSince, disk, added, fireAt, history>>

(* Mutant of Kept: nothing is too old.                                     *)
KeepAll == disk

Kept == {i \in disk : fireAt[i] >= clock - MissedGrace}

(* serve starts: Load drops what is overdue by more than the grace, and    *)
(* persists only if it dropped something; if that fails serve exits.  The  *)
(* runner is started right away, before the bridge connects.               *)
Restart ==
  /\ ~up
  /\ \E ok \in BOOLEAN :
       /\ IF Kept # disk THEN Persist(ok, Kept) ELSE ok /\ UNCHANGED <<disk, failures>>
       /\ IF ok
          THEN /\ up' = TRUE
               /\ upSince' = clock
               /\ entries' = Kept
               /\ runner' = RunnerAt("next")
               /\ sent' = [i \in Id |-> 0]
               /\ settled' = settled \cup (disk \ Kept)
               /\ late' = late \cup {i \in Kept : fireAt[i] <= clock}
          ELSE UNCHANGED <<up, upSince, entries, runner, sent, settled, late>>
  /\ UNCHANGED <<clock, stops, online, changed, added, fireAt, client,
                 outcome, acked, cancelled>>

(* The bridge connects some time after, and may lose its connection.       *)
Connection ==
  /\ up
  /\ online' = ~online
  /\ UNCHANGED <<clock, stops, failures, up, upSince, storeVars, added,
                 fireAt, client, runner, history>>

Tick ==
  /\ clock < MaxClock
  /\ clock' = clock + 1
  /\ UNCHANGED <<stops, failures, up, upSince, online, storeVars, added,
                 fireAt, client, runner, history>>

RunnerStep ==
  NextEntry \/ TakeChange \/ Wake \/ RateLimited \/ Deliver \/ RemoveDelivered

Finish(c) == Add(c) \/ Notify(c)

Next ==
  \/ \E c \in Clients : Submit(c) \/ Cancel(c) \/ Finish(c)
  \/ RunnerStep
  \/ Stop \/ Restart \/ Connection \/ Tick

Spec == Init /\ [][Next]_vars

(* Goroutines are scheduled, time passes, and serve is started again (it   *)
(* is installed as a service; what happens if it is not, nobody promises). *)
Fairness ==
  /\ WF_vars(RunnerStep)
  /\ \A c \in Clients : WF_vars(Finish(c))
  /\ WF_vars(Tick)
  /\ WF_vars(Restart)

FairSpec == Spec /\ Fairness

----------------------------------------------------------------------------
(* Properties.                                                             *)

(* Within one life of the process no entry is delivered twice, however     *)
(* clients, retries and failed writes interleave with the runner.          *)
OncePerRun == \A i \in Id : sent[i] <= 1

(* A cancel that was acknowledged is final on disk and in memory: no later *)
(* write of another entry, and no restart, brings the entry back.          *)
CancelIsDurable == cancelled \cap (entries \cup disk) = {}

(* An acknowledged entry is on disk until it is settled, and while serve   *)
(* runs it is in memory too, whatever writes of others failed in between.  *)
AckedSurvives ==
  \A i \in acked \ settled : i \in disk /\ (up => i \in entries)

(* Nothing is delivered ahead of its fire time, even if the set changed    *)
(* while the runner was waiting for another entry.                         *)
NeverEarly == [][ \A i \in Id : sent'[i] > sent[i] => clock >= fireAt[i] ]_vars

(* A delivery more than missedGrace late is made only by a process that    *)
(* was already running when the grace ended: a restart revives nothing     *)
(* older.                                                                  *)
LateOnlyIfRunning ==
  [][ \A i \in Id : sent'[i] > sent[i] =>
        clock <= fireAt[i] + MissedGrace \/ upSince <= fireAt[i] + MissedGrace ]_vars

(* Every acknowledged entry is settled in the end: the coalesced signal is *)
(* never lost on a runner that sleeps towards a later entry, or on one     *)
(* that waits for the first.                                               *)
AckedIsSettled == \A i \in Id : i \in acked ~> i \in settled

----------------------------------------------------------------------------
(* What docs, comments and tests say and the code does not do.             *)

(* "At most 15 min late fires on next start": an overdue entry that Load   *)
(* kept is not dropped because the bridge has yet to connect.              *)
KeptIsFired == \A i \in late \cap (settled \ cancelled) : outcome[i] # "offline"
=============================================================================
