-------------------------- MODULE ScheduleProofs ---------------------------
(***************************************************************************)
(* Theorems about the schedule store and its runner, for any number of     *)
(* clients, entries, stops and failed writes.                              *)
(***************************************************************************)
EXTENDS Schedule, TLAPS

(* An id that is not stored yet: not submitted, or on its way to Add.      *)
Adding(c) == client[c].pc = "add"
Unstored(i) == i > added \/ \E c \in Clients : Adding(c) /\ client[c].id = i

(* Nothing is known of an id that is not stored, and only one client       *)
(* brings it.                                                              *)
FreshInv ==
  /\ \A c \in Clients : Adding(c) => client[c].id \in 1..added
  /\ \A b, c \in Clients : b # c /\ Adding(b) /\ Adding(c) => client[b].id # client[c].id
  /\ \A i \in Id : Unstored(i) => /\ i \notin entries \cup disk \cup acked \cup cancelled
                                  /\ sent[i] = 0
  /\ runner.pc \in {"deliver", "remove"} => ~Unstored(runner.id)

(* A stopped process holds nothing in memory.                              *)
StoppedInv ==
  /\ up <=> runner.pc # "off"
  /\ ~up => entries = {} /\ \A c \in Clients : client[c].pc = "idle"

(* An entry that was delivered is still pending only until the runner,     *)
(* which is on it, removes it.                                             *)
RunInv ==
  /\ OncePerRun
  /\ \A i \in entries : sent[i] = 0 \/ (runner.pc = "remove" /\ runner.id = i)
  /\ runner.pc = "deliver" => sent[runner.id] = 0

IInv ==
  /\ TypeOK
  /\ FreshInv
  /\ StoppedInv
  /\ RunInv
  /\ CancelIsDurable
  /\ AckedSurvives

LEMMA Bounds ==
  /\ MaxEntries \in Nat /\ FireTimes \subseteq Nat /\ RetryEvery \in Nat
  /\ Id \subseteq Nat \ {0} /\ NoId \notin Id
  BY ScheduleAssumption DEF Id, NoId

LEMMA InitInv == Init => IInv
<1> SUFFICES ASSUME Init PROVE IInv
  OBVIOUS
<1>1. TypeOK
  <2>1. {clock, stops, failures, upSince} \subseteq Nat /\ added \in 0..MaxEntries
    BY Bounds DEF Init
  <2>7. {up, online, changed} \subseteq BOOLEAN
    BY Zenon DEF Init
  <2>2. {entries, disk, acked, cancelled, settled, late} \subseteq SUBSET Id
    BY DEF Init
  <2>3. client \in [Clients -> [pc : {"idle", "add", "notify"}, id : Id \cup {NoId}]]
    BY DEF Init, IdleClient
  <2>4. /\ runner \in [pc : {"off", "next", "wait", "sleep", "deliver", "remove"},
                       id : Id \cup {NoId}, wake : Nat]
        /\ runner.pc \notin {"deliver", "remove"}
    BY DEF Init, RunnerAt
  <2>5. /\ fireAt \in [Id -> Nat]
        /\ sent \in [Id -> Nat]
        /\ outcome \in [Id -> Outcomes]
    BY DEF Init, Outcomes
  <2>6. QED
    BY <2>1, <2>2, <2>3, <2>4, <2>5, <2>7 DEF TypeOK
<1>2. FreshInv /\ StoppedInv /\ RunInv /\ CancelIsDurable /\ AckedSurvives
  BY DEF Init, FreshInv, StoppedInv, RunInv, OncePerRun, CancelIsDurable, AckedSurvives,
         Adding, RunnerAt, IdleClient
<1>3. QED
  BY <1>1, <1>2 DEF IInv

(* What persisting may do to the file.                                     *)
LEMMA PersistFacts ==
  ASSUME TypeOK, NEW ok \in BOOLEAN, NEW ids \in SUBSET Id, Persist(ok, ids)
  PROVE  /\ disk' = IF ok THEN ids ELSE disk
         /\ disk' \in SUBSET Id
         /\ failures' \in Nat
  BY DEF Persist, TypeOK

LEMMA SubmitInv ==
  ASSUME IInv, NEW c \in Clients, Submit(c)
  PROVE  IInv'
<1>1. /\ added \in Nat /\ added' = added + 1 /\ added + 1 \in Id
      /\ client' = [client EXCEPT ![c] = [pc |-> "add", id |-> added + 1]]
      /\ fireAt' \in [Id -> Nat]
      /\ up /\ client[c].pc = "idle"
      /\ UNCHANGED <<envVars, storeVars, runner, history>>
  BY Bounds DEF Submit, IInv, TypeOK, Id
<1>2. TypeOK'
  <2>1. [pc |-> "add", id |-> added + 1] \in [pc : {"idle", "add", "notify"}, id : Id \cup {NoId}]
    BY <1>1
  <2>2. client' \in [Clients -> [pc : {"idle", "add", "notify"}, id : Id \cup {NoId}]]
    BY <1>1, <2>1 DEF IInv, TypeOK
  <2>3. added' \in 0..MaxEntries
    BY <1>1, Bounds DEF Id
  <2>4. QED
    BY <1>1, <2>2, <2>3 DEF IInv, TypeOK, envVars, storeVars, history
<1>3. /\ client'[c].pc = "add" /\ client'[c].id = added + 1
      /\ \A b \in Clients \ {c} : client'[b] = client[b]
  BY <1>1 DEF IInv, TypeOK
<1>4. \A i \in Id : Unstored(i)' <=> Unstored(i)
  <2>1. \A i \in Id : i > added <=> (i > added + 1 \/ i = added + 1)
    BY <1>1, Bounds
  <2>2. QED
    BY <1>1, <1>3, <2>1 DEF Unstored, Adding
<1>5. \A b \in Clients : Adding(b) => client[b].id # added + 1
  BY <1>1 DEF IInv, FreshInv
<1>6. \A b \in Clients : Adding(b)' => client'[b].id \in 1..(added + 1)
  BY <1>1, <1>3 DEF IInv, FreshInv, Adding
<1>7. runner.pc \in {"deliver", "remove"} => runner.id \in Id
  BY DEF IInv, TypeOK
<1>8. FreshInv'
  BY <1>1, <1>3, <1>4, <1>5, <1>6, <1>7
  DEF IInv, FreshInv, Adding, storeVars, history
<1>9. StoppedInv' /\ RunInv' /\ CancelIsDurable' /\ AckedSurvives'
  BY <1>1 DEF IInv, StoppedInv, RunInv, OncePerRun, CancelIsDurable, AckedSurvives,
              envVars, storeVars, history
<1>10. QED
  BY <1>2, <1>8, <1>9 DEF IInv

(* The step that leaves the store, the clients and the attempts alone and  *)
(* lets the runner on to something it may do.                              *)
LEMMA RunnerMoves ==
  ASSUME IInv, up, changed' \in BOOLEAN,
         runner' \in [pc : {"next", "wait", "sleep", "deliver"}, id : Id \cup {NoId}, wake : Nat],
         runner'.pc = "deliver" => runner'.id \in Id /\ ~Unstored(runner'.id) /\ sent[runner'.id] = 0,
         \A i \in entries : sent[i] = 0,
         UNCHANGED <<envVars, entries, disk, added, fireAt, client, history>>
  PROVE  IInv'
<1>1. TypeOK'
  BY DEF IInv, TypeOK, envVars, history
<1>2. runner'.pc \in {"next", "wait", "sleep", "deliver"}
  OBVIOUS
<1>3. \A i : Unstored(i)' <=> Unstored(i)
  BY DEF Unstored, Adding
<1>4. FreshInv'
  BY <1>2, <1>3 DEF IInv, FreshInv, Adding, history
<1>5. StoppedInv' /\ RunInv' /\ CancelIsDurable' /\ AckedSurvives'
  BY <1>2 DEF IInv, StoppedInv, RunInv, OncePerRun, CancelIsDurable, AckedSurvives,
              envVars, history
<1>6. QED
  BY <1>1, <1>4, <1>5 DEF IInv

LEMMA NextEntryInv ==
  ASSUME IInv, NextEntry
  PROVE  IInv'
<1>1. /\ up /\ runner.pc = "next"
      /\ \A i \in entries : sent[i] = 0
      /\ UNCHANGED <<envVars, storeVars, added, fireAt, client, history>>
  BY DEF NextEntry, IInv, StoppedInv, RunInv
<1>2. changed' \in BOOLEAN
  BY <1>1 DEF storeVars, IInv, TypeOK
<1>3. CASE runner' = RunnerAt("wait")
  <2>1. /\ runner' \in [pc : {"next", "wait", "sleep", "deliver"}, id : Id \cup {NoId}, wake : Nat]
        /\ runner'.pc # "deliver"
    BY <1>3 DEF RunnerAt
  <2>2. QED
    BY <1>1, <1>2, <2>1, RunnerMoves DEF storeVars
<1>4. ASSUME NEW i \in entries,
             runner' = IF fireAt[i] > clock
                       THEN [pc |-> "sleep", id |-> i, wake |-> fireAt[i]]
                       ELSE [pc |-> "deliver", id |-> i, wake |-> 0]
      PROVE  IInv'
  <2>1. i \in Id /\ fireAt[i] \in Nat
    BY DEF IInv, TypeOK
  <2>2. ~Unstored(i)
    BY <2>1 DEF IInv, FreshInv
  <2>3. /\ runner' \in [pc : {"next", "wait", "sleep", "deliver"}, id : Id \cup {NoId}, wake : Nat]
        /\ runner'.id = i
    BY <1>4, <2>1
  <2>4. QED
    BY <1>1, <1>2, <2>1, <2>2, <2>3, RunnerMoves DEF storeVars
<1>5. QED
  BY <1>3, <1>4 DEF NextEntry

(* Back to the loop head, or to a sleep: no entry was delivered and is     *)
(* still pending.                                                          *)
LEMMA WaitingInv ==
  ASSUME IInv, TakeChange \/ Wake \/ RateLimited
  PROVE  IInv'
<1>1. /\ up /\ \A i \in entries : sent[i] = 0
      /\ UNCHANGED <<envVars, entries, disk, added, fireAt, client, history>>
  BY DEF TakeChange, Wake, RateLimited, storeVars, IInv, StoppedInv, RunInv
<1>2. changed' \in BOOLEAN
  BY DEF TakeChange, Wake, RateLimited, storeVars, IInv, TypeOK
<1>3. clock + RetryEvery \in Nat
  BY Bounds DEF IInv, TypeOK
<1>4. /\ runner' \in [pc : {"next", "wait", "sleep", "deliver"}, id : Id \cup {NoId}, wake : Nat]
      /\ runner'.pc # "deliver"
  BY <1>3 DEF TakeChange, Wake, RateLimited, RunnerAt
<1>5. QED
  BY <1>1, <1>2, <1>4, RunnerMoves

LEMMA DeliverInv ==
  ASSUME IInv, Deliver
  PROVE  IInv'
<1>1. PICK i \in Id : i = runner.id
  BY DEF Deliver, IInv, TypeOK
<1>2. /\ runner.pc = "deliver" /\ sent[i] = 0 /\ ~Unstored(i) /\ up
      /\ UNCHANGED <<envVars, storeVars, added, fireAt, client, acked, cancelled,
                     settled, late>>
  BY <1>1 DEF Deliver, IInv, RunInv, FreshInv, StoppedInv
<1>3. /\ sent' = [sent EXCEPT ![i] = 1]
      /\ sent \in [Id -> Nat]
  BY <1>1, <1>2 DEF Deliver, IInv, TypeOK
<1>4. /\ runner' \in [pc : {"remove"}, id : {i}, wake : Nat]
      /\ runner'.pc = "remove" /\ runner'.id = i
  BY <1>1 DEF Deliver, IInv, TypeOK
<1>5. outcome' \in [Id -> Outcomes]
  BY DEF Deliver, IInv, TypeOK
<1>6. sent' \in [Id -> Nat]
  BY <1>3
<1>7. TypeOK'
  BY <1>2, <1>4, <1>5, <1>6 DEF IInv, TypeOK, envVars, storeVars
<1>8. \A j : Unstored(j)' <=> Unstored(j)
  BY <1>2 DEF Unstored, Adding
<1>9. FreshInv'
  BY <1>2, <1>3, <1>4, <1>8 DEF IInv, FreshInv, Adding, storeVars
<1>10. StoppedInv' /\ CancelIsDurable' /\ AckedSurvives'
  BY <1>2, <1>4 DEF IInv, StoppedInv, CancelIsDurable, AckedSurvives, envVars, storeVars
<1>11. RunInv'
  <2>1. \A j \in Id : sent'[j] = IF j = i THEN 1 ELSE sent[j]
    BY <1>3
  <2>2. OncePerRun'
    BY <2>1 DEF IInv, RunInv, OncePerRun
  <2>3. \A j \in entries : j \in Id /\ sent[j] = 0
    BY <1>2 DEF IInv, RunInv, TypeOK
  <2>4. QED
    BY <1>2, <1>4, <2>1, <2>2, <2>3 DEF RunInv, storeVars
<1>12. QED
  BY <1>7, <1>9, <1>10, <1>11 DEF IInv

LEMMA AddInv ==
  ASSUME IInv, NEW c \in Clients, Add(c)
  PROVE  IInv'
<1>1. PICK i \in Id : i = client[c].id
  BY Bounds DEF Add, IInv, FreshInv, Adding, TypeOK, Id
<1>2. PICK ok \in BOOLEAN :
        /\ Persist(ok, entries \cup {i})
        /\ acked' = IF ok THEN acked \cup {i} ELSE acked
        /\ client' = [client EXCEPT ![c] = IF ok THEN [pc |-> "notify", id |-> i]
                                           ELSE IdleClient]
  BY <1>1 DEF Add
<1>3. /\ entries' = entries \cup {i} /\ Adding(c) /\ up /\ Unstored(i)
      /\ UNCHANGED <<clock, stops, up, upSince, online, changed, added, fireAt,
                     runner, sent, outcome, cancelled, settled, late>>
  BY <1>1 DEF Add, Adding, Unstored, IInv, StoppedInv
<1>4. entries \in SUBSET Id /\ entries' \in SUBSET Id /\ acked' \in SUBSET Id
  BY <1>2, <1>3 DEF IInv, TypeOK
<1>5. /\ disk' = IF ok THEN entries' ELSE disk
      /\ disk' \in SUBSET Id /\ failures' \in Nat
  BY <1>2, <1>3, <1>4, PersistFacts DEF IInv
<1>6. /\ client' \in [Clients -> [pc : {"idle", "add", "notify"}, id : Id \cup {NoId}]]
      /\ client'[c].pc # "add"
      /\ \A b \in Clients \ {c} : client'[b] = client[b]
  BY <1>2 DEF IInv, TypeOK, IdleClient
<1>7. TypeOK'
  BY <1>3, <1>4, <1>5, <1>6 DEF IInv, TypeOK
<1>8. /\ \A b \in Clients : Adding(b)' => b # c /\ Adding(b) /\ client'[b].id = client[b].id
      /\ \A b \in Clients \ {c} : Adding(b) => client[b].id # i
  BY <1>1, <1>3, <1>6 DEF IInv, FreshInv, Adding
<1>9. \A j \in Id : Unstored(j)' => Unstored(j) /\ j # i
  <2>1. i \in 1..added
    BY <1>1, <1>3 DEF IInv, FreshInv
  <2>2. ~(i > added)
    BY <2>1, Bounds DEF IInv, TypeOK
  <2>3. QED
    BY <1>3, <1>8, <2>2 DEF Unstored
<1>10. runner.pc \in {"deliver", "remove"} => runner.id \in Id
  BY DEF IInv, TypeOK
<1>11. FreshInv'
  <2>1. \A b \in Clients : Adding(b)' => client'[b].id \in 1..added'
    BY <1>3, <1>8 DEF IInv, FreshInv
  <2>2. \A a, b \in Clients : a # b /\ Adding(a)' /\ Adding(b)' => client'[a].id # client'[b].id
    BY <1>8 DEF IInv, FreshInv
  <2>3. \A j \in Id : Unstored(j)' => /\ j \notin (entries \cup disk \cup acked \cup cancelled)'
                                      /\ sent'[j] = 0
    BY <1>2, <1>3, <1>5, <1>9 DEF IInv, FreshInv
  <2>4. (runner.pc \in {"deliver", "remove"} => ~Unstored(runner.id))'
    BY <1>3, <1>8, <1>10 DEF IInv, FreshInv, Unstored
  <2>5. QED
    BY <2>1, <2>2, <2>3, <2>4 DEF FreshInv, Adding
<1>12. i \notin cancelled /\ sent[i] = 0
  BY <1>3 DEF IInv, FreshInv
<1>13. StoppedInv' /\ RunInv' /\ CancelIsDurable'
  BY <1>3, <1>5, <1>12 DEF IInv, StoppedInv, RunInv, OncePerRun, CancelIsDurable
<1>14. AckedSurvives'
  BY <1>2, <1>3, <1>5 DEF IInv, AckedSurvives
<1>15. QED
  BY <1>7, <1>11, <1>13, <1>14 DEF IInv

LEMMA CancelInv ==
  ASSUME IInv, NEW c \in Clients, Cancel(c)
  PROVE  IInv'
<1>1. PICK i \in entries, ok \in BOOLEAN :
        /\ up /\ client[c].pc = "idle"
        /\ entries' = entries \ {i}
        /\ Persist(ok, entries \ {i})
        /\ cancelled' = IF ok THEN cancelled \cup {i} ELSE cancelled
        /\ settled' = settled \cup {i}
        /\ client' = [client EXCEPT ![c] = [pc |-> "notify", id |-> i]]
        /\ UNCHANGED <<clock, stops, up, upSince, online, changed, added, fireAt,
                       runner, sent, outcome, acked, late>>
  BY DEF Cancel
<1>2. i \in Id /\ entries' \in SUBSET Id
  BY <1>1 DEF IInv, TypeOK
<1>3. /\ disk' = IF ok THEN entries' ELSE disk
      /\ disk' \in SUBSET Id /\ failures' \in Nat
  BY <1>1, <1>2, PersistFacts DEF IInv
<1>4. /\ client' \in [Clients -> [pc : {"idle", "add", "notify"}, id : Id \cup {NoId}]]
      /\ client'[c].pc # "add"
      /\ \A b \in Clients \ {c} : client'[b] = client[b]
  BY <1>1, <1>2 DEF IInv, TypeOK
<1>5. cancelled' \in SUBSET Id /\ settled' \in SUBSET Id
  BY <1>1, <1>2 DEF IInv, TypeOK
<1>6. TypeOK'
  BY <1>1, <1>2, <1>3, <1>4, <1>5 DEF IInv, TypeOK
<1>7. \A b \in Clients : Adding(b)' <=> Adding(b) /\ client'[b] = client[b]
  BY <1>1, <1>4 DEF Adding
<1>8. \A j : Unstored(j)' => Unstored(j)
  BY <1>1, <1>7 DEF Unstored
<1>9. ~Unstored(i)
  BY <1>1, <1>2 DEF IInv, FreshInv
<1>10. FreshInv'
  <2>1. \A b \in Clients : Adding(b)' => client'[b].id \in 1..added'
    BY <1>1, <1>7 DEF IInv, FreshInv
  <2>2. \A a, b \in Clients : a # b /\ Adding(a)' /\ Adding(b)' => client'[a].id # client'[b].id
    BY <1>7 DEF IInv, FreshInv
  <2>3. \A j \in Id : Unstored(j)' => /\ j \notin (entries \cup disk \cup acked \cup cancelled)'
                                      /\ sent'[j] = 0
    BY <1>1, <1>3, <1>8, <1>9 DEF IInv, FreshInv
  <2>4. (runner.pc \in {"deliver", "remove"} => ~Unstored(runner.id))'
    BY <1>1, <1>7 DEF IInv, FreshInv, Unstored
  <2>5. QED
    BY <2>1, <2>2, <2>3, <2>4 DEF FreshInv, Adding
<1>11. StoppedInv' /\ RunInv' /\ CancelIsDurable' /\ AckedSurvives'
  BY <1>1, <1>3 DEF IInv, StoppedInv, RunInv, OncePerRun, CancelIsDurable, AckedSurvives
<1>12. QED
  BY <1>6, <1>10, <1>11 DEF IInv

LEMMA NotifyInv ==
  ASSUME IInv, NEW c \in Clients, Notify(c)
  PROVE  IInv'
<1>1. /\ client[c].pc = "notify" /\ up
      /\ changed' = TRUE
      /\ client' = [client EXCEPT ![c] = IdleClient]
      /\ UNCHANGED <<envVars, entries, disk, added, fireAt, runner, history>>
  BY DEF Notify, IInv, StoppedInv
<1>2. /\ client' \in [Clients -> [pc : {"idle", "add", "notify"}, id : Id \cup {NoId}]]
      /\ client'[c].pc = "idle"
      /\ \A b \in Clients \ {c} : client'[b] = client[b]
  BY <1>1 DEF IInv, TypeOK, IdleClient
<1>3. changed' \in BOOLEAN
  BY <1>1
<1>4. TypeOK'
  BY <1>1, <1>2, <1>3 DEF IInv, TypeOK, envVars, history
<1>5. \A b \in Clients : Adding(b)' <=> Adding(b) /\ client'[b] = client[b]
  BY <1>1, <1>2 DEF Adding
<1>6. \A j : Unstored(j)' => Unstored(j)
  BY <1>1, <1>5 DEF Unstored
<1>7. FreshInv'
  <2>1. \A b \in Clients : Adding(b)' => client'[b].id \in 1..added'
    BY <1>1, <1>5 DEF IInv, FreshInv
  <2>2. \A a, b \in Clients : a # b /\ Adding(a)' /\ Adding(b)' => client'[a].id # client'[b].id
    BY <1>5 DEF IInv, FreshInv
  <2>3. \A j \in Id : Unstored(j)' => /\ j \notin (entries \cup disk \cup acked \cup cancelled)'
                                      /\ sent'[j] = 0
    BY <1>1, <1>6 DEF IInv, FreshInv, history
  <2>4. (runner.pc \in {"deliver", "remove"} => ~Unstored(runner.id))'
    BY <1>1, <1>5 DEF IInv, FreshInv, Unstored
  <2>5. QED
    BY <2>1, <2>2, <2>3, <2>4 DEF FreshInv, Adding
<1>8. StoppedInv' /\ RunInv' /\ CancelIsDurable' /\ AckedSurvives'
  BY <1>1 DEF IInv, StoppedInv, RunInv, OncePerRun, CancelIsDurable, AckedSurvives,
              envVars, history
<1>9. QED
  BY <1>4, <1>7, <1>8 DEF IInv

LEMMA RemoveDeliveredInv ==
  ASSUME IInv, RemoveDelivered
  PROVE  IInv'
<1>1. PICK i \in Id : i = runner.id
  BY DEF RemoveDelivered, IInv, TypeOK
<1>2. /\ runner.pc = "remove" /\ up
      /\ runner' = RunnerAt("next")
      /\ settled' = settled \cup {i}
      /\ UNCHANGED <<clock, stops, up, upSince, online, added, fireAt, client,
                     sent, outcome, acked, cancelled, late>>
  BY <1>1 DEF RemoveDelivered, IInv, StoppedInv
<1>3. PICK ok \in BOOLEAN :
        /\ entries' = entries \ {i}
        /\ changed' \in BOOLEAN
        /\ disk' = disk \/ disk' = IF ok THEN entries \ {i} ELSE disk
        /\ disk' \in SUBSET Id /\ failures' \in Nat
  <2>1. CASE i \in entries
    <3>1. PICK ok \in BOOLEAN : Persist(ok, entries \ {i})
      BY <1>1, <2>1 DEF RemoveDelivered
    <3>2. entries \ {i} \in SUBSET Id
      BY DEF IInv, TypeOK
    <3>3. /\ disk' = IF ok THEN entries \ {i} ELSE disk
          /\ disk' \in SUBSET Id /\ failures' \in Nat
      BY <3>1, <3>2, PersistFacts DEF IInv
    <3>4. entries' = entries \ {i} /\ changed' \in BOOLEAN
      BY <1>1, <2>1 DEF RemoveDelivered
    <3>5. QED
      BY <3>3, <3>4
  <2>2. CASE i \notin entries
    <3>1. UNCHANGED <<entries, disk, changed, failures>>
      BY <1>1, <2>2 DEF RemoveDelivered, storeVars
    <3>2. changed' \in BOOLEAN /\ disk' \in SUBSET Id /\ failures' \in Nat
      BY <3>1 DEF IInv, TypeOK
    <3>3. entries' = entries \ {i}
      BY <2>2, <3>1
    <3>4. QED
      BY <3>1, <3>2, <3>3
  <2>3. QED
    BY <2>1, <2>2
<1>4. /\ runner' \in [pc : {"next"}, id : Id \cup {NoId}, wake : Nat]
      /\ runner'.pc = "next"
  BY <1>2 DEF RunnerAt
<1>5. TypeOK'
  BY <1>2, <1>3, <1>4 DEF IInv, TypeOK
<1>6. \A j : Unstored(j)' <=> Unstored(j)
  BY <1>2 DEF Unstored, Adding
<1>7. FreshInv'
  BY <1>2, <1>3, <1>4, <1>6 DEF IInv, FreshInv, Adding
<1>8. RunInv'
  BY <1>1, <1>2, <1>3, <1>4 DEF IInv, RunInv, OncePerRun
<1>9. StoppedInv' /\ CancelIsDurable' /\ AckedSurvives'
  BY <1>2, <1>3, <1>4 DEF IInv, StoppedInv, CancelIsDurable, AckedSurvives
<1>10. QED
  BY <1>5, <1>7, <1>8, <1>9 DEF IInv

LEMMA StopInv ==
  ASSUME IInv, Stop
  PROVE  IInv'
<1>1. /\ stops' \in Nat /\ up' = FALSE /\ online' = FALSE
      /\ entries' = {} /\ changed' = FALSE
      /\ client' = [c \in Clients |-> IdleClient]
      /\ runner' = RunnerAt("off")
      /\ UNCHANGED <<clock, failures, upSince, disk, added, fireAt, history>>
  BY DEF Stop, IInv, TypeOK
<1>2. /\ client' \in [Clients -> [pc : {"idle"}, id : Id \cup {NoId}]]
      /\ \A b \in Clients : client'[b].pc = "idle"
  BY <1>1 DEF IdleClient
<1>3. /\ runner' \in [pc : {"off"}, id : Id \cup {NoId}, wake : Nat]
      /\ runner'.pc = "off"
  BY <1>1 DEF RunnerAt
<1>4. up' \in BOOLEAN /\ online' \in BOOLEAN /\ changed' \in BOOLEAN
  BY <1>1
<1>5. TypeOK'
  BY <1>1, <1>2, <1>3, <1>4 DEF IInv, TypeOK, history
<1>6. \A j : Unstored(j)' => Unstored(j)
  BY <1>1, <1>2 DEF Unstored, Adding
<1>7. FreshInv'
  BY <1>1, <1>2, <1>3, <1>6 DEF IInv, FreshInv, Adding, history
<1>8. StoppedInv' /\ RunInv' /\ CancelIsDurable' /\ AckedSurvives'
  BY <1>1, <1>2, <1>3 DEF IInv, StoppedInv, RunInv, OncePerRun, CancelIsDurable,
                          AckedSurvives, history
<1>9. QED
  BY <1>5, <1>7, <1>8 DEF IInv

(* What Restart leaves of the file is what it took over, or all of it.     *)
LEMMA RestartFacts ==
  ASSUME IInv, Restart
  PROVE  /\ ~up /\ entries = {} /\ failures' \in Nat
         /\ UNCHANGED <<clock, stops, online, changed, added, fireAt, client,
                        outcome, acked, cancelled>>
         /\ \/ /\ up' = TRUE /\ upSince' = clock
               /\ entries' = Kept /\ disk' = Kept
               /\ runner' = RunnerAt("next")
               /\ sent' = [i \in Id |-> 0]
               /\ settled' = settled \cup (disk \ Kept)
               /\ late' \in SUBSET Id
            \/ UNCHANGED <<up, upSince, entries, disk, runner, sent, settled, late>>
<1>1. ~up /\ entries = {}
  BY DEF Restart, IInv, StoppedInv
<1>2. Kept \in SUBSET Id /\ Kept \subseteq disk /\ late \in SUBSET Id
  BY DEF Kept, IInv, TypeOK
<1>3. PICK ok \in BOOLEAN :
       /\ IF Kept # disk THEN Persist(ok, Kept) ELSE ok /\ UNCHANGED <<disk, failures>>
       /\ IF ok
          THEN /\ up' = TRUE
               /\ upSince' = clock
               /\ entries' = Kept
               /\ runner' = RunnerAt("next")
               /\ sent' = [i \in Id |-> 0]
               /\ settled' = settled \cup (disk \ Kept)
               /\ late' = late \cup {i \in Kept : fireAt[i] <= clock}
          ELSE UNCHANGED <<up, upSince, entries, runner, sent, settled, late>>
  BY DEF Restart
<1>4. failures' \in Nat /\ disk' = IF ok THEN Kept ELSE disk
  <2>1. CASE Kept # disk
    BY <1>2, <1>3, <2>1, PersistFacts DEF IInv
  <2>2. CASE Kept = disk
    BY <1>3, <2>2 DEF IInv, TypeOK
  <2>3. QED
    BY <2>1, <2>2
<1>5. UNCHANGED <<clock, stops, online, changed, added, fireAt, client,
                  outcome, acked, cancelled>>
  BY DEF Restart
<1>6. CASE ok
  BY <1>1, <1>2, <1>3, <1>4, <1>5, <1>6
<1>7. CASE ~ok
  BY <1>1, <1>3, <1>4, <1>5, <1>7
<1>8. QED
  BY <1>6, <1>7

LEMMA RestartInv ==
  ASSUME IInv, Restart
  PROVE  IInv'
<1>1. /\ ~up /\ entries = {} /\ failures' \in Nat
      /\ UNCHANGED <<clock, stops, online, changed, added, fireAt, client,
                     outcome, acked, cancelled>>
  BY RestartFacts
<1>2. CASE UNCHANGED <<up, upSince, entries, disk, runner, sent, settled, late>>
  <2>1. TypeOK'
    BY <1>1, <1>2 DEF IInv, TypeOK
  <2>2. \A j : Unstored(j)' <=> Unstored(j)
    BY <1>1 DEF Unstored, Adding
  <2>3. FreshInv'
    BY <1>1, <1>2, <2>2 DEF IInv, FreshInv, Adding
  <2>4. StoppedInv' /\ RunInv' /\ CancelIsDurable' /\ AckedSurvives'
    BY <1>1, <1>2 DEF IInv, StoppedInv, RunInv, OncePerRun, CancelIsDurable, AckedSurvives
  <2>5. QED
    BY <2>1, <2>3, <2>4 DEF IInv
<1>3. CASE /\ up' = TRUE /\ upSince' = clock
           /\ entries' = Kept /\ disk' = Kept
           /\ runner' = RunnerAt("next")
           /\ sent' = [i \in Id |-> 0]
           /\ settled' = settled \cup (disk \ Kept)
           /\ late' \in SUBSET Id
  <2>1. Kept \in SUBSET Id /\ Kept \subseteq disk
    BY DEF Kept, IInv, TypeOK
  <2>2. /\ runner' \in [pc : {"next"}, id : Id \cup {NoId}, wake : Nat]
        /\ runner'.pc = "next"
    BY <1>3 DEF RunnerAt
  <2>3. up' \in BOOLEAN /\ sent' \in [Id -> Nat] /\ settled' \in SUBSET Id
    BY <1>3 DEF IInv, TypeOK
  <2>4. TypeOK'
    BY <1>1, <1>3, <2>1, <2>2, <2>3 DEF IInv, TypeOK
  <2>5. \A j : Unstored(j)' <=> Unstored(j)
    BY <1>1 DEF Unstored, Adding
  <2>6. \A j \in Id : sent'[j] = 0
    BY <1>3
  <2>7. FreshInv'
    BY <1>1, <1>3, <2>1, <2>2, <2>5, <2>6 DEF IInv, FreshInv, Adding
  <2>8. RunInv'
    BY <1>3, <2>1, <2>2, <2>6 DEF RunInv, OncePerRun
  <2>9. StoppedInv' /\ CancelIsDurable' /\ AckedSurvives'
    BY <1>1, <1>3, <2>1, <2>2 DEF IInv, StoppedInv, CancelIsDurable, AckedSurvives
  <2>10. QED
    BY <2>4, <2>7, <2>8, <2>9 DEF IInv
<1>4. QED
  BY <1>2, <1>3, RestartFacts

(* Steps that touch neither the store, the runner nor the attempts.        *)
LEMMA FrameInv ==
  ASSUME IInv, Connection \/ Tick \/ UNCHANGED vars
  PROVE  IInv'
<1>1. UNCHANGED <<stops, failures, up, upSince, storeVars, added, fireAt, client,
                  runner, history>>
  BY DEF Connection, Tick, vars, envVars
<1>2. clock' \in Nat
  BY DEF Connection, Tick, vars, envVars, IInv, TypeOK
<1>3. online' \in BOOLEAN
  BY DEF Connection, Tick, vars, envVars, IInv, TypeOK
<1>4. TypeOK'
  BY <1>1, <1>2, <1>3 DEF IInv, TypeOK, storeVars, history
<1>5. \A j : Unstored(j)' <=> Unstored(j)
  BY <1>1 DEF Unstored, Adding
<1>6. FreshInv'
  BY <1>1, <1>5 DEF IInv, FreshInv, Adding, storeVars, history
<1>7. StoppedInv' /\ RunInv' /\ CancelIsDurable' /\ AckedSurvives'
  BY <1>1 DEF IInv, StoppedInv, RunInv, OncePerRun, CancelIsDurable, AckedSurvives,
              storeVars, history
<1>8. QED
  BY <1>4, <1>6, <1>7 DEF IInv

LEMMA StepInv ==
  ASSUME IInv, [Next]_vars
  PROVE  IInv'
<1>1. ASSUME NEW c \in Clients, Submit(c) \/ Cancel(c) \/ Finish(c)
      PROVE  IInv'
  BY <1>1, SubmitInv, CancelInv, AddInv, NotifyInv DEF Finish
<1>2. CASE RunnerStep
  BY <1>2, NextEntryInv, WaitingInv, DeliverInv, RemoveDeliveredInv DEF RunnerStep
<1>3. CASE Stop \/ Restart \/ Connection \/ Tick \/ UNCHANGED vars
  BY <1>3, StopInv, RestartInv, FrameInv
<1>4. QED
  BY <1>1, <1>2, <1>3 DEF Next

(* The strengthened invariant holds throughout.                            *)
THEOREM Invariance == Spec => []IInv
<1>1. Init => IInv
  BY InitInv
<1>2. IInv /\ [Next]_vars => IInv'
  BY StepInv
<1>3. QED
  BY <1>1, <1>2, PTL DEF Spec

(* The state of the store, the clients and the runner keeps its type.      *)
THEOREM Typed == Spec => []TypeOK
<1>1. IInv => TypeOK
  BY DEF IInv
<1>2. QED
  BY <1>1, Invariance, PTL

(* No entry is delivered twice within one life of the process, whatever    *)
(* clients, retries and failed writes do meanwhile (Runner.Run).           *)
THEOREM NoEntryTwice == Spec => []OncePerRun
<1>1. IInv => OncePerRun
  BY DEF IInv, RunInv
<1>2. QED
  BY <1>1, Invariance, PTL

(* An acknowledged cancel is never undone, on disk or in memory            *)
(* (Store.Remove against every other write and Load).                      *)
THEOREM CancelStays == Spec => []CancelIsDurable
<1>1. IInv => CancelIsDurable
  BY DEF IInv
<1>2. QED
  BY <1>1, Invariance, PTL

(* An acknowledged entry is kept until it is settled (Store.Add against    *)
(* every other write and Load).                                            *)
THEOREM AckedStays == Spec => []AckedSurvives
<1>1. IInv => AckedSurvives
  BY DEF IInv
<1>2. QED
  BY <1>1, Invariance, PTL

----------------------------------------------------------------------------
(* When a delivery may happen.                                             *)

(* An entry may be revived: this process was started within its grace.     *)
Revivable(i) == upSince <= fireAt[i] + MissedGrace

(* What is pending was not too old when the process started, and what is   *)
(* about to be delivered is due.                                           *)
TimeInv ==
  /\ upSince <= clock
  /\ \A i \in entries : Revivable(i)
  /\ \A c \in Clients : Adding(c) => Revivable(client[c].id)
  /\ runner.pc = "deliver" => fireAt[runner.id] <= clock /\ Revivable(runner.id)

LEMMA TimeBounds ==
  /\ MissedGrace \in Nat /\ Horizon \in Nat
  BY ScheduleAssumption

LEMMA TimeInit == Init => TimeInv
BY TimeBounds DEF Init, TimeInv, Adding, IdleClient, RunnerAt

LEMMA TimeClients ==
  ASSUME IInv, TimeInv, NEW c \in Clients, Submit(c) \/ Cancel(c) \/ Finish(c)
  PROVE  TimeInv'
<1>1. CASE Submit(c)
  <2>1. PICK f \in FireTimes : f > clock /\ fireAt' = [fireAt EXCEPT ![added + 1] = f]
    BY <1>1 DEF Submit
  <2>2. /\ added + 1 \in Id /\ added \in Nat
        /\ client' = [client EXCEPT ![c] = [pc |-> "add", id |-> added + 1]]
        /\ UNCHANGED <<envVars, storeVars, runner>>
    BY <1>1, Bounds DEF Submit, IInv, TypeOK, Id
  <2>3. f \in Nat /\ clock \in Nat /\ upSince \in Nat
    BY Bounds DEF IInv, TypeOK
  <2>4. fireAt'[added + 1] = f /\ \A i \in Id \ {added + 1} : fireAt'[i] = fireAt[i]
    BY <2>1, <2>2 DEF IInv, TypeOK
  <2>5. upSince <= f + MissedGrace
    BY <2>1, <2>3, TimeBounds DEF TimeInv
  <2>6. /\ client'[c].id = added + 1
        /\ \A b \in Clients \ {c} : client'[b] = client[b]
    BY <2>2 DEF IInv, TypeOK
  <2>7. \A i \in entries : i \in Id /\ i # added + 1
    <3>1. Unstored(added + 1)
      BY <2>2 DEF Unstored
    <3>2. QED
      BY <2>2, <3>1 DEF IInv, FreshInv, TypeOK
  <2>8. \A b \in Clients \ {c} : Adding(b) => client[b].id \in Id /\ client[b].id # added + 1
    <3>1. \A b \in Clients : Adding(b) => client[b].id \in 1..added
      BY DEF IInv, FreshInv
    <3>2. 1..added \subseteq Id /\ added + 1 \notin 1..added
      BY <2>2, Bounds DEF Id
    <3>3. QED
      BY <3>1, <3>2
  <2>9. \A i \in entries' : Revivable(i)'
    <3>1. /\ entries' = entries /\ clock' = clock /\ upSince' = upSince
      BY <2>2 DEF envVars, storeVars
    <3>2. \A i \in entries : Revivable(i) /\ fireAt'[i] = fireAt[i]
      BY <2>4, <2>7 DEF TimeInv
    <3>3. QED
      BY <3>1, <3>2 DEF Revivable
  <2>10. \A b \in Clients : (Adding(b) => Revivable(client[b].id))'
    BY <2>2, <2>4, <2>5, <2>6, <2>8 DEF TimeInv, Revivable, Adding, envVars
  <2>11. (runner.pc = "deliver" => fireAt[runner.id] <= clock /\ Revivable(runner.id))'
    <3>1. Unstored(added + 1)
      BY <2>2 DEF Unstored
    <3>2. runner.pc = "deliver" => runner.id \in Id /\ runner.id # added + 1
      BY <2>2, <3>1 DEF IInv, FreshInv, TypeOK
    <3>3. QED
      BY <2>2, <2>4, <3>2 DEF TimeInv, Revivable, envVars
  <2>12. QED
    BY <2>2, <2>9, <2>10, <2>11 DEF TimeInv, envVars
<1>2. CASE Add(c)
  <2>1. /\ entries' = entries \cup {client[c].id} /\ Adding(c)
        /\ UNCHANGED <<clock, upSince, fireAt, runner>>
    BY <1>2 DEF Add, Adding
  <2>2. \A b \in Clients : Adding(b)' => Adding(b) /\ client'[b] = client[b]
    BY <1>2 DEF Add, Adding, IInv, TypeOK, IdleClient
  <2>3. \A i : Revivable(i)' <=> Revivable(i)
    BY <2>1 DEF Revivable
  <2>4. \A i \in entries' : Revivable(i)'
    BY <2>1, <2>3 DEF TimeInv
  <2>5. \A b \in Clients : (Adding(b) => Revivable(client[b].id))'
    BY <2>1, <2>2 DEF TimeInv, Revivable
  <2>6. QED
    BY <2>1, <2>4, <2>5 DEF TimeInv, Revivable
<1>3. CASE Cancel(c) \/ Notify(c)
  <2>1. /\ entries' \subseteq entries
        /\ UNCHANGED <<clock, upSince, fireAt, runner>>
    BY <1>3 DEF Cancel, Notify, envVars
  <2>2. \A b \in Clients : Adding(b)' => Adding(b) /\ client'[b] = client[b]
    <3>1. PICK r \in [pc : {"idle", "notify"}, id : Id \cup {NoId}] :
            client' = [client EXCEPT ![c] = r]
      <4>1. CASE Notify(c)
        BY <4>1 DEF Notify, IdleClient
      <4>2. CASE Cancel(c)
        <5>1. PICK i \in entries : client' = [client EXCEPT ![c] = [pc |-> "notify", id |-> i]]
          BY <4>2 DEF Cancel
        <5>2. i \in Id
          BY DEF IInv, TypeOK
        <5>3. QED
          BY <5>1, <5>2
      <4>3. QED
        BY <1>3, <4>1, <4>2
    <3>2. QED
      BY <3>1 DEF Adding, IInv, TypeOK
  <2>3. \A i \in entries' : Revivable(i)'
    BY <2>1 DEF TimeInv, Revivable
  <2>4. \A b \in Clients : (Adding(b) => Revivable(client[b].id))'
    BY <2>1, <2>2 DEF TimeInv, Revivable
  <2>5. QED
    BY <2>1, <2>3, <2>4 DEF TimeInv, Revivable
<1>4. QED
  BY <1>1, <1>2, <1>3 DEF Finish

LEMMA TimeRunner ==
  ASSUME IInv, TimeInv, RunnerStep
  PROVE  TimeInv'
<1>1. /\ UNCHANGED <<clock, upSince, fireAt, client>>
      /\ entries' \subseteq entries
  BY DEF RunnerStep, NextEntry, TakeChange, Wake, RateLimited, Deliver, RemoveDelivered,
         envVars, storeVars
<1>2. runner'.pc = "deliver" => fireAt[runner'.id] <= clock /\ Revivable(runner'.id)
  <2>1. CASE NextEntry
    <3>1. CASE runner' = RunnerAt("wait")
      BY <3>1 DEF RunnerAt
    <3>2. ASSUME NEW i \in entries,
                 runner' = IF fireAt[i] > clock
                           THEN [pc |-> "sleep", id |-> i, wake |-> fireAt[i]]
                           ELSE [pc |-> "deliver", id |-> i, wake |-> 0]
          PROVE  runner'.pc = "deliver" => fireAt[runner'.id] <= clock /\ Revivable(runner'.id)
      <4>1. fireAt[i] \in Nat /\ clock \in Nat
        BY DEF IInv, TypeOK
      <4>2. Revivable(i)
        BY DEF TimeInv
      <4>3. CASE fireAt[i] > clock
        BY <3>2, <4>3
      <4>4. CASE ~(fireAt[i] > clock)
        <5>1. runner'.id = i /\ fireAt[i] <= clock
          BY <3>2, <4>1, <4>4
        <5>2. QED
          BY <4>2, <5>1
      <4>5. QED
        BY <4>3, <4>4
    <3>3. QED
      BY <2>1, <3>1, <3>2 DEF NextEntry
  <2>2. CASE ~NextEntry
    <3>1. TakeChange \/ Wake \/ RateLimited \/ Deliver \/ RemoveDelivered
      BY <2>2 DEF RunnerStep
    <3>2. runner'.pc # "deliver"
      BY <3>1 DEF TakeChange, Wake, RateLimited, Deliver, RemoveDelivered, RunnerAt,
                  IInv, TypeOK
    <3>3. QED
      BY <3>2
  <2>3. QED
    BY <2>1, <2>2
<1>3. \A i \in entries' : Revivable(i)'
  BY <1>1 DEF TimeInv, Revivable
<1>4. \A b \in Clients : (Adding(b) => Revivable(client[b].id))'
  BY <1>1 DEF TimeInv, Revivable, Adding
<1>5. QED
  BY <1>1, <1>2, <1>3, <1>4 DEF TimeInv, Revivable

LEMMA TimeProcess ==
  ASSUME IInv, TimeInv, Stop \/ Restart \/ Connection \/ Tick \/ UNCHANGED vars
  PROVE  TimeInv'
<1>1. CASE Stop
  <2>1. /\ entries' = {} /\ runner'.pc = "off"
        /\ UNCHANGED <<clock, upSince>>
        /\ \A b \in Clients : client'[b].pc = "idle"
    BY <1>1 DEF Stop, RunnerAt, IdleClient
  <2>2. QED
    BY <2>1 DEF TimeInv, Adding
<1>2. CASE Restart
  <2>1. /\ ~up /\ UNCHANGED <<clock, fireAt, client>>
        /\ \/ /\ upSince' = clock /\ entries' = Kept
              /\ runner' = RunnerAt("next")
           \/ UNCHANGED <<upSince, entries, runner>>
    BY <1>2, RestartFacts
  <2>2. CASE UNCHANGED <<upSince, entries, runner>>
    BY <2>1, <2>2 DEF TimeInv, Revivable, Adding
  <2>3. CASE upSince' = clock /\ entries' = Kept /\ runner' = RunnerAt("next")
    <3>1. \A i \in Kept : fireAt[i] \in Nat /\ fireAt[i] >= clock - MissedGrace
      BY DEF Kept, IInv, TypeOK
    <3>2. clock \in Nat
      BY DEF IInv, TypeOK
    <3>3. \A i \in Kept : clock <= fireAt[i] + MissedGrace
      BY <3>1, <3>2, TimeBounds
    <3>4. runner'.pc # "deliver"
      BY <2>3 DEF RunnerAt
    <3>5. \A b \in Clients : ~Adding(b)'
      BY <2>1 DEF IInv, StoppedInv, Adding
    <3>6. upSince' <= clock'
      BY <2>1, <2>3, <3>2
    <3>7. \A i \in entries' : Revivable(i)'
      BY <2>1, <2>3, <3>3 DEF Revivable
    <3>8. QED
      BY <3>4, <3>5, <3>6, <3>7 DEF TimeInv, Adding
  <2>4. QED
    BY <2>1, <2>2, <2>3
<1>3. CASE Connection \/ Tick \/ UNCHANGED vars
  <2>1. /\ UNCHANGED <<upSince, entries, fireAt, client, runner>>
        /\ clock' = clock \/ clock' = clock + 1
    BY <1>3 DEF Connection, Tick, vars, envVars, storeVars
  <2>2. clock \in Nat /\ upSince \in Nat
    BY DEF IInv, TypeOK
  <2>3. runner.pc = "deliver" => fireAt[runner.id] \in Nat
    BY DEF IInv, TypeOK
  <2>4. QED
    BY <2>1, <2>2, <2>3 DEF TimeInv, Revivable, Adding
<1>4. QED
  BY <1>1, <1>2, <1>3

(* Only Deliver attempts a delivery, and of the runner's entry.            *)
LEMMA OnlyDeliver ==
  ASSUME IInv, [Next]_vars, NEW i \in Id, sent'[i] > sent[i]
  PROVE  runner.pc = "deliver" /\ runner.id = i
<1>1. sent[i] \in Nat
  BY DEF IInv, TypeOK
<1>2. CASE Restart
  <2>1. sent'[i] = 0 \/ sent'[i] = sent[i]
    BY <1>2, RestartFacts
  <2>2. QED
    BY <1>1, <2>1
<1>3. CASE Deliver
  <2>1. runner.pc = "deliver" /\ sent' = [sent EXCEPT ![runner.id] = @ + 1]
    BY <1>3 DEF Deliver
  <2>2. QED
    BY <1>1, <2>1 DEF IInv, TypeOK
<1>4. CASE ~Restart /\ ~Deliver
  <2>1. sent' = sent
    BY <1>4 DEF Next, RunnerStep, Finish, Submit, Cancel, Add, Notify, NextEntry, TakeChange,
                Wake, RateLimited, RemoveDelivered, Stop, Connection, Tick, vars, history
  <2>2. QED
    BY <1>1, <2>1
<1>5. QED
  BY <1>2, <1>3, <1>4

LEMMA TimeInvariance == Spec => [](IInv /\ TimeInv)
<1>1. Init => TimeInv
  BY TimeInit
<1>2. IInv /\ TimeInv /\ [Next]_vars => TimeInv'
  <2>1. ASSUME IInv, TimeInv, NEW c \in Clients, Submit(c) \/ Cancel(c) \/ Finish(c)
        PROVE  TimeInv'
    BY <2>1, TimeClients
  <2>2. QED
    BY <2>1, TimeRunner, TimeProcess DEF Next
<1>3. QED
  BY <1>1, <1>2, Invariance, PTL DEF Spec

(* Nothing is delivered ahead of its fire time (Runner.Run, sleepOrChange).*)
THEOREM NothingEarly == Spec => NeverEarly
<1>1. IInv /\ TimeInv /\ [Next]_vars => [\A i \in Id : sent'[i] > sent[i] => clock >= fireAt[i]]_vars
  <2> SUFFICES ASSUME IInv, TimeInv, [Next]_vars, NEW i \in Id, sent'[i] > sent[i]
               PROVE  clock >= fireAt[i]
    OBVIOUS
  <2>1. fireAt[i] <= clock
    BY OnlyDeliver DEF TimeInv
  <2>2. fireAt[i] \in Nat /\ clock \in Nat
    BY DEF IInv, TypeOK
  <2>3. QED
    BY <2>1, <2>2
<1>2. QED
  BY <1>1, TimeInvariance, PTL DEF Spec, NeverEarly

(* A delivery later than the grace is made only by a process that was      *)
(* running when the grace ended (Store.Load).                              *)
THEOREM NothingRevived == Spec => LateOnlyIfRunning
<1>1. IInv /\ TimeInv /\ [Next]_vars =>
        [\A i \in Id : sent'[i] > sent[i] =>
           clock <= fireAt[i] + MissedGrace \/ upSince <= fireAt[i] + MissedGrace]_vars
  <2> SUFFICES ASSUME IInv, TimeInv, [Next]_vars, NEW i \in Id, sent'[i] > sent[i]
               PROVE  upSince <= fireAt[i] + MissedGrace
    OBVIOUS
  <2>1. QED
    BY OnlyDeliver DEF TimeInv, Revivable
<1>2. QED
  BY <1>1, TimeInvariance, PTL DEF Spec, LateOnlyIfRunning
=============================================================================
