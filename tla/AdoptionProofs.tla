-------------------------- MODULE AdoptionProofs --------------------------
(***************************************************************************)
(* Theorems about the migration of the flat layout, for any files, any     *)
(* number of processes that move them at the same time, and any stops.     *)
(***************************************************************************)
EXTENDS Adoption, TLAPS

(* What p has not seen yet, or is about to move.                           *)
ToCome(p) ==
  proc[p].todo \cup (IF proc[p].pc \in {"found", "vacant"} THEN {proc[p].name} ELSE {})

(* A name that a process has passed is gone from the flat layout.          *)
PassedInv ==
  \A p \in Procs : proc[p].pc \in {"adopt", "found", "vacant"} => flat \subseteq ToCome(p)

(* What Lstat found vacant stays so until somebody moves that very file.   *)
VacantInv ==
  \A p \in Procs :
    proc[p].pc = "vacant" /\ proc[p].name \in flat => account[proc[p].name] = None

(* The log of an open store is its own.                                    *)
LogInv == \A p \in Procs : Holds(p) => account[Log] # "legacy"

IInv == TypeOK /\ EachFileOnce /\ OpenedWhole /\ PassedInv /\ VacantInv /\ LogInv

----------------------------------------------------------------------------
(* What a step on proc keeps.                                              *)

(* A step of p alone, moving no file.                                      *)
LEMMA ProcStep ==
  ASSUME IInv, UNCHANGED files, NEW p \in Procs,
         proc' \in [Procs -> Process],
         \A q \in Procs \ {p} : proc'[q] = proc[q],
         Holds(p)' => Holds(p),
         proc'[p].pc \in {"adopt", "found", "vacant"} => flat \subseteq ToCome(p)',
         proc'[p].pc = "vacant" /\ proc'[p].name \in flat => account[proc'[p].name] = None
  PROVE  EachFileOnce' /\ OpenedWhole' /\ PassedInv' /\ VacantInv' /\ LogInv'
<1>1. had' = had /\ flat' = flat /\ account' = account /\ recovered' = recovered
  BY DEF files
<1>2. EachFileOnce'
  BY <1>1 DEF IInv, EachFileOnce
<1>3. \A q \in Procs : Holds(q)' => Holds(q)
  BY DEF Holds
<1>4. OpenedWhole' /\ LogInv'
  BY <1>1, <1>3 DEF IInv, OpenedWhole, LogInv
<1>5. PassedInv'
  BY <1>1 DEF IInv, PassedInv, ToCome
<1>6. VacantInv'
  BY <1>1 DEF IInv, VacantInv
<1>7. QED
  BY <1>2, <1>4, <1>5, <1>6

LEMMA FailedStep ==
  ASSUME IInv, NEW p \in Procs, Failed(p), UNCHANGED files
  PROVE  /\ proc' \in [Procs -> Process]
         /\ EachFileOnce' /\ OpenedWhole' /\ PassedInv' /\ VacantInv' /\ LogInv'
<1>1. proc \in [Procs -> Process] /\ Database \in Names
  BY AdoptionAssumption DEF IInv, TypeOK
<1>2. proc[p].dir \in Dir
  BY <1>1 DEF Process
<1>3. /\ proc'[p].pc \in {"out", "up"} /\ proc'[p].dir = proc[p].dir
      /\ proc'[p] \in Process
      /\ \A q \in Procs \ {p} : proc'[q] = proc[q]
  BY <1>1, <1>2 DEF Failed, Starting, Out, Process, Dir, None
<1>4. proc' \in [Procs -> Process]
  BY <1>1, <1>3 DEF Failed
<1>5. Holds(p)' => Holds(p)
  BY <1>3 DEF Holds
<1>6. QED
  BY <1>3, <1>4, <1>5, ProcStep

----------------------------------------------------------------------------
(* One lemma per action.                                                   *)

LEMMA BeginInv ==
  ASSUME IInv, NEW p \in Procs, Begin(p)
  PROVE  IInv'
<1>1. proc \in [Procs -> Process] /\ Database \in Names /\ flat \subseteq Names
  BY AdoptionAssumption DEF IInv, TypeOK
<1>2. /\ proc' \in [Procs -> Process]
      /\ \A q \in Procs \ {p} : proc'[q] = proc[q]
      /\ \/ proc'[p].pc = "adopt" /\ proc'[p].todo = Names /\ proc'[p].dir = None
         \/ proc'[p].pc = "up" /\ proc'[p].dir = Pending
  BY <1>1 DEF Begin, Out, Process, Dir
<1>3. UNCHANGED files /\ TypeOK'
  BY <1>2 DEF Begin, IInv, TypeOK, files
<1>4. ~Holds(p)'
  BY <1>2 DEF Holds, None, Pending, Account
<1>5. flat \subseteq ToCome(p)' \/ proc'[p].pc = "up"
  BY <1>1, <1>2 DEF ToCome
<1>6. QED
  BY <1>2, <1>3, <1>4, <1>5, ProcStep DEF IInv

LEMMA VisitInv ==
  ASSUME IInv, NEW p \in Procs, Visit(p)
  PROVE  IInv'
<1>1. proc \in [Procs -> Process]
  BY DEF IInv, TypeOK
<1>2. PICK n \in proc[p].todo :
        proc' = IF n \in flat
                THEN [proc EXCEPT ![p].todo = @ \ {n}, ![p].pc = "found", ![p].name = n]
                ELSE [proc EXCEPT ![p].todo = @ \ {n}]
  BY DEF Visit
<1>3. /\ proc' \in [Procs -> Process]
      /\ \A q \in Procs \ {p} : proc'[q] = proc[q]
      /\ proc'[p].dir = proc[p].dir /\ proc'[p].todo = proc[p].todo \ {n}
      /\ IF n \in flat THEN proc'[p].pc = "found" /\ proc'[p].name = n
         ELSE proc'[p].pc = "adopt"
  <2>1. n \in Names /\ proc[p].pc = "adopt"
    BY <1>1 DEF Process, Visit
  <2>2. QED
    BY <1>1, <1>2, <2>1 DEF Process
<1>4. UNCHANGED files /\ TypeOK'
  BY <1>3 DEF Visit, IInv, TypeOK, files
<1>5. Holds(p)' => Holds(p)
  BY <1>3 DEF Holds
<1>6. flat \subseteq ToCome(p)'
  <2>1. flat \subseteq proc[p].todo
    BY DEF IInv, PassedInv, ToCome, Visit
  <2>2. QED
    BY <1>3, <2>1 DEF ToCome
<1>7. proc'[p].pc # "vacant"
  BY <1>3
<1>8. QED
  BY <1>3, <1>4, <1>5, <1>6, <1>7, ProcStep DEF IInv

LEMMA CheckInv ==
  ASSUME IInv, NEW p \in Procs, Check(p)
  PROVE  IInv'
<1>1. UNCHANGED files
  BY DEF Check
<1>2. CASE account[proc[p].name] = None
  <2>1. proc \in [Procs -> Process]
    BY DEF IInv, TypeOK
  <2>2. /\ proc' \in [Procs -> Process]
        /\ \A q \in Procs \ {p} : proc'[q] = proc[q]
        /\ proc'[p].pc = "vacant" /\ proc'[p].dir = proc[p].dir
        /\ proc'[p].name = proc[p].name /\ proc'[p].todo = proc[p].todo
    BY <1>2, <2>1 DEF Check, Process
  <2>3. TypeOK'
    BY <2>2 DEF Check, IInv, TypeOK, files
  <2>4. Holds(p)' => Holds(p)
    BY <2>2 DEF Holds
  <2>5. flat \subseteq ToCome(p)'
    BY <2>2 DEF IInv, PassedInv, ToCome, Check
  <2>6. QED
    BY <1>1, <1>2, <2>2, <2>3, <2>4, <2>5, ProcStep DEF IInv
<1>3. CASE account[proc[p].name] # None
  <2>1. Failed(p)
    BY <1>3 DEF Check
  <2>2. proc' \in [Procs -> Process]
    BY <1>1, <2>1, FailedStep
  <2>3. TypeOK'
    BY <2>2 DEF Check, IInv, TypeOK, files
  <2>4. QED
    BY <1>1, <2>1, <2>3, FailedStep DEF IInv
<1>4. QED
  BY <1>2, <1>3

LEMMA MoveInv ==
  ASSUME IInv, NEW p \in Procs, Move(p)
  PROVE  IInv'
<1> DEFINE n == proc[p].name
<1>1. CASE n \notin flat
  <2>1. Failed(p) /\ UNCHANGED files
    BY <1>1 DEF Move, files
  <2>2. proc' \in [Procs -> Process]
    BY <2>1, FailedStep
  <2>3. TypeOK'
    BY <2>1, <2>2 DEF Move, IInv, TypeOK, files
  <2>4. QED
    BY <2>1, <2>3, FailedStep DEF IInv
<1>2. CASE n \in flat
  <2>1. /\ proc \in [Procs -> Process] /\ flat \subseteq had /\ had \subseteq Names
        /\ account \in [Names -> {None, "legacy", "own"}] /\ Database \in Names /\ Log \in Names
    BY AdoptionAssumption DEF IInv, TypeOK
  <2>2. /\ flat' = flat \ {n} /\ account' = [account EXCEPT ![n] = "legacy"]
        /\ proc' = NextFile(p) /\ had' = had /\ recovered' = recovered /\ proc[p].pc = "vacant"
    BY <1>2 DEF Move
  <2>3. /\ proc' \in [Procs -> Process]
        /\ \A q \in Procs \ {p} : proc'[q] = proc[q]
        /\ proc'[p].pc = "adopt" /\ proc'[p].dir = proc[p].dir /\ proc'[p].todo = proc[p].todo
    BY <2>1, <2>2 DEF NextFile, Process
  <2>4. /\ account'[n] = "legacy"
        /\ \A m \in Names \ {n} : account'[m] = account[m]
    BY <1>2, <2>1, <2>2
  <2>5. TypeOK'
    BY <2>1, <2>2, <2>3 DEF Move, IInv, TypeOK
  <2>6. EachFileOnce'
    <3>1. ~(n = Log /\ recovered)
      BY <1>2, <2>1 DEF IInv, EachFileOnce
    <3>2. QED
      BY <2>1, <2>2, <2>4, <3>1 DEF IInv, EachFileOnce
  <2>7. \A q \in Procs : ~Holds(q) /\ ~Holds(q)'
    <3>1. \A q \in Procs : ~Holds(q)
      BY <1>2 DEF IInv, OpenedWhole
    <3>2. QED
      BY <2>3, <3>1 DEF Holds
  <2>8. PassedInv'
    <3>1. flat' \subseteq ToCome(p)'
      BY <2>2, <2>3 DEF IInv, PassedInv, ToCome
    <3>2. ASSUME NEW q \in Procs \ {p}, proc'[q].pc \in {"adopt", "found", "vacant"}
          PROVE  flat' \subseteq ToCome(q)'
      BY <2>2, <2>3, <3>2 DEF IInv, PassedInv, ToCome
    <3>3. QED
      BY <3>1, <3>2 DEF PassedInv
  <2>9. VacantInv'
    BY <2>1, <2>2, <2>3, <2>4 DEF IInv, VacantInv
  <2>10. QED
    BY <2>5, <2>6, <2>7, <2>8, <2>9 DEF IInv, OpenedWhole, LogInv
<1>3. QED
  BY <1>1, <1>2

LEMMA OpenInv ==
  ASSUME IInv, NEW p \in Procs, Open(p)
  PROVE  IInv'
<1>1. /\ proc \in [Procs -> Process] /\ had \subseteq Names
      /\ account \in [Names -> {None, "legacy", "own"}] /\ Database \in Names /\ Log \in Names
      /\ recovered \in BOOLEAN
  BY AdoptionAssumption DEF IInv, TypeOK
<1>2. flat = {}
  BY DEF IInv, PassedInv, ToCome, Open
<1>3. had' = had /\ flat' = {}
  BY <1>2 DEF Open
<1>4. /\ proc' \in [Procs -> Process]
      /\ \A q \in Procs \ {p} : proc'[q] = proc[q]
      /\ proc'[p].pc \in {"up", "swap"}
  BY <1>1 DEF Open, Process, Dir
<1>5. CASE proc[p].dir = Account
  <2>1. UNCHANGED files
    BY <1>5 DEF Open, files
  <2>2. Holds(p)
    BY <1>5 DEF Holds
  <2>3. TypeOK'
    BY <1>4, <2>1 DEF Open, IInv, TypeOK, files
  <2>4. QED
    BY <1>4, <2>1, <2>2, <2>3, ProcStep DEF IInv
<1>6. CASE proc[p].dir # Account
  <2>1. account' = Opened /\ recovered' = (recovered \/ account[Log] = "legacy")
    BY <1>6 DEF Open
  <2>2. /\ account'[Log] = "own"
        /\ account'[Database] = IF account[Database] = None THEN "own" ELSE account[Database]
        /\ \A m \in Names \ {Log, Database} : account'[m] = account[m]
        /\ account' \in [Names -> {None, "legacy", "own"}]
    BY <1>1, <2>1 DEF Opened, Log, Database
  <2>3. TypeOK'
    BY <1>1, <1>4, <2>1, <2>2 DEF Open, IInv, TypeOK
  <2>4. EachFileOnce'
    <3>1. \A m \in had : account[m] = "legacy" \/ (m = Log /\ recovered)
      BY <1>2 DEF IInv, EachFileOnce
    <3>2. \A m \in had \ {Log} : account'[m] = "legacy"
      BY <1>1, <2>2, <3>1 DEF None, Log, Database
    <3>3. Log \in had => recovered'
      BY <2>1, <3>1
    <3>4. QED
      BY <1>3, <2>2, <3>2, <3>3 DEF EachFileOnce
  <2>5. OpenedWhole' /\ PassedInv' /\ VacantInv' /\ LogInv'
    BY <1>3, <2>2 DEF OpenedWhole, PassedInv, VacantInv, LogInv
  <2>6. QED
    BY <2>3, <2>4, <2>5 DEF IInv
<1>7. QED
  BY <1>5, <1>6

LEMMA AttachInv ==
  ASSUME IInv, NEW p \in Procs, Swap(p)
  PROVE  IInv'
<1>1. proc \in [Procs -> Process]
  BY DEF IInv, TypeOK
<1>2. /\ proc' \in [Procs -> Process]
      /\ \A q \in Procs \ {p} : proc'[q] = proc[q]
      /\ proc'[p].pc = "up"
      /\ Holds(p)' => Holds(p)
  BY <1>1 DEF Swap, Process, Holds, Dir
<1>3. UNCHANGED files
  BY DEF Swap
<1>4. TypeOK'
  BY <1>2, <1>3 DEF Swap, IInv, TypeOK, files
<1>5. QED
  BY <1>2, <1>3, <1>4, ProcStep DEF IInv

LEMMA WriteInv ==
  ASSUME IInv, NEW p \in Procs, Write(p)
  PROVE  IInv'
<1>1. PICK n \in Names \ {Database, Log} :
        account[n] = None /\ account' = [account EXCEPT ![n] = "own"]
  BY DEF Write
<1>2. account \in [Names -> {None, "legacy", "own"}] /\ had \subseteq Names /\ Log \in Names
  BY AdoptionAssumption DEF IInv, TypeOK
<1>3. /\ account'[n] = "own" /\ \A m \in Names \ {n} : account'[m] = account[m]
      /\ account' \in [Names -> {None, "legacy", "own"}]
  BY <1>1, <1>2
<1>4. flat = {} /\ had' = had /\ flat' = flat /\ recovered' = recovered /\ proc' = proc
  BY DEF Write, IInv, OpenedWhole, Holds
<1>5. TypeOK'
  BY <1>3, <1>4 DEF Write, IInv, TypeOK
<1>6. EachFileOnce'
  <2>1. n \notin had
    BY <1>1, <1>4 DEF IInv, EachFileOnce, None
  <2>2. QED
    BY <1>2, <1>3, <1>4, <2>1 DEF IInv, EachFileOnce
<1>7. OpenedWhole' /\ PassedInv' /\ VacantInv'
  BY <1>4 DEF OpenedWhole, PassedInv, VacantInv
<1>8. LogInv'
  BY <1>1, <1>2, <1>3, <1>4 DEF IInv, LogInv, Holds
<1>9. QED
  BY <1>5, <1>6, <1>7, <1>8 DEF IInv

LEMMA PairInv ==
  ASSUME IInv, NEW p \in Procs, Pair(p)
  PROVE  IInv'
<1>1. proc \in [Procs -> Process] /\ flat \subseteq Names
  BY DEF IInv, TypeOK
<1>2. /\ proc' \in [Procs -> Process]
      /\ \A q \in Procs \ {p} : proc'[q] = proc[q]
      /\ proc'[p].pc = "adopt" /\ proc'[p].todo = Names /\ proc'[p].dir = proc[p].dir
  BY <1>1 DEF Pair, Process
<1>3. Holds(p)' => Holds(p)
  BY <1>2 DEF Holds
<1>4. UNCHANGED files
  BY DEF Pair
<1>5. flat \subseteq ToCome(p)'
  BY <1>1, <1>2 DEF ToCome
<1>6. TypeOK'
  BY <1>2, <1>4 DEF Pair, IInv, TypeOK, files
<1>7. QED
  BY <1>2, <1>3, <1>4, <1>5, <1>6, ProcStep DEF IInv

LEMMA EndInv ==
  ASSUME IInv, NEW p \in Procs, Exit(p) \/ Stop(p)
  PROVE  IInv'
<1>1. /\ proc \in [Procs -> Process] /\ had \subseteq Names /\ flat \subseteq had
      /\ account \in [Names -> {None, "legacy", "own"}] /\ Database \in Names /\ Log \in Names
      /\ stops \in 0..MaxStops /\ MaxStops \in Nat
  BY AdoptionAssumption DEF IInv, TypeOK
<1>2. Ended(p)
  BY DEF Exit, Stop
<1>3. /\ proc' \in [Procs -> Process]
      /\ \A q \in Procs \ {p} : proc'[q] = proc[q]
      /\ proc'[p] = Out
  BY <1>1, <1>2 DEF Ended, Out, Process, Dir
<1>4. had' = had /\ flat' = flat /\ recovered' = recovered
  BY <1>2 DEF Ended
<1>5. ~Holds(p)' /\ \A q \in Procs \ {p} : Holds(q)' <=> Holds(q)
  BY <1>3 DEF Holds, Out, None, Account
<1>6. stops' \in 0..MaxStops
  BY <1>1 DEF Exit, Stop
<1>7. CASE account' = account
  <2>1. TypeOK'
    BY <1>2, <1>3, <1>4, <1>6, <1>7 DEF Ended, IInv, TypeOK, None, Dir
  <2>2. UNCHANGED files
    BY <1>4, <1>7 DEF files
  <2>3. proc'[p].pc = "out"
    BY <1>3 DEF Out
  <2>4. QED
    BY <1>3, <1>5, <2>1, <2>2, <2>3, ProcStep DEF IInv
<1>8. CASE account' # account
  <2>1. Holds(p) /\ account' = [account EXCEPT ![Log] = None]
    BY <1>8 DEF Exit, Stop
  <2>2. account'[Log] = None /\ \A m \in Names \ {Log} : account'[m] = account[m]
    BY <1>1, <2>1
  <2>3. flat = {} /\ account[Log] # "legacy"
    BY <2>1 DEF IInv, OpenedWhole, LogInv
  <2>4. TypeOK'
    BY <1>1, <1>2, <1>3, <1>4, <1>6, <2>1 DEF Ended, IInv, TypeOK, None, Dir
  <2>5. EachFileOnce'
    BY <1>1, <1>4, <2>2, <2>3 DEF IInv, EachFileOnce, None
  <2>6. OpenedWhole' /\ PassedInv' /\ VacantInv' /\ LogInv'
    BY <1>4, <2>2, <2>3 DEF OpenedWhole, PassedInv, VacantInv, LogInv, None
  <2>7. QED
    BY <2>4, <2>5, <2>6 DEF IInv
<1>9. QED
  BY <1>7, <1>8

(* The phone touches neither the files nor a process.                      *)
LEMMA UnlinkInv ==
  ASSUME IInv, Unlink \/ UNCHANGED vars
  PROVE  IInv'
<1>1. UNCHANGED <<files, proc, stops>>
  BY DEF Unlink, vars
<1>2. EachFileOnce' /\ OpenedWhole' /\ PassedInv' /\ VacantInv' /\ LogInv'
  BY <1>1 DEF IInv, files, EachFileOnce, OpenedWhole, Holds, PassedInv, ToCome, VacantInv, LogInv
<1>3. TypeOK'
  BY <1>1 DEF IInv, TypeOK, files, Unlink, vars
<1>4. QED
  BY <1>2, <1>3 DEF IInv

----------------------------------------------------------------------------
LEMMA InitInv == Init => IInv
<1> SUFFICES ASSUME Init
             PROVE  IInv
  OBVIOUS
<1>1. TypeOK
  <2>1. Out \in Process
    BY AdoptionAssumption DEF Out, Process, Dir
  <2>2. account \in [Names -> {None, "legacy", "own"}]
    BY DEF Init
  <2>3. stops \in 0..MaxStops
    BY AdoptionAssumption DEF Init
  <2>4. QED
    BY <2>1, <2>2, <2>3 DEF Init, TypeOK, Dir
<1>2. EachFileOnce
  BY DEF Init, EachFileOnce, None
<1>3. \A p \in Procs : ~Holds(p) /\ proc[p].pc = "out"
  BY DEF Init, Holds, Out, None, Account
<1>4. QED
  BY <1>1, <1>2, <1>3 DEF IInv, OpenedWhole, PassedInv, VacantInv, LogInv

LEMMA NextInv == IInv /\ [Next]_vars => IInv'
BY BeginInv, VisitInv, CheckInv, MoveInv, OpenInv, AttachInv, WriteInv, PairInv, EndInv,
   UnlinkInv
DEF Next, Preparing

THEOREM Invariance == Spec => []IInv
BY InitInv, NextInv, PTL DEF Spec

(* AdoptLegacy, Open, Attach: the state keeps its type.                    *)
THEOREM Typed == Spec => []TypeOK
BY Invariance, PTL DEF IInv

(* AdoptLegacy: however many processes move the files and wherever they    *)
(* are stopped, each file of the flat layout is in exactly one place.      *)
THEOREM NoFileLost == Spec => []EachFileOnce
BY Invariance, PTL DEF IInv

(* prepareAccount: whoever opens the account's store finds every file of   *)
(* the flat layout moved, whoever moved it.                                *)
THEOREM StoresOpenWhole == Spec => []OpenedWhole
BY Invariance, PTL DEF IInv

(* AdoptLegacy: the rename after the Lstat never replaces a file.          *)
THEOREM MovesReplaceNothing == Spec => NothingReplaced
<1>1. IInv /\ [Next]_vars =>
        \A n \in flat \ flat' : account[n] = None /\ account'[n] = "legacy"
  <2> SUFFICES ASSUME IInv, [Next]_vars, NEW n \in flat \ flat'
               PROVE  account[n] = None /\ account'[n] = "legacy"
    OBVIOUS
  <2>1. PICK p \in Procs : Move(p)
    <3>1. flat' # flat
      OBVIOUS
    <3>2. ~(Unlink \/ UNCHANGED vars)
      BY <3>1 DEF Unlink, vars, files
    <3>3. ASSUME NEW p \in Procs, Begin(p) \/ Visit(p) \/ Check(p) \/ Open(p)
          PROVE  FALSE
      BY <3>1, <3>3 DEF Begin, Visit, Check, Open, files
    <3>4. ASSUME NEW p \in Procs,
                 Swap(p) \/ Write(p) \/ Pair(p) \/ Exit(p) \/ Stop(p)
          PROVE  FALSE
      BY <3>1, <3>4 DEF Swap, Write, Pair, Exit, Stop, Ended, files
    <3>5. QED
      BY <3>2, <3>3, <3>4 DEF Next, Preparing
  <2>2. n = proc[p].name /\ account' = [account EXCEPT ![n] = "legacy"] /\ proc[p].pc = "vacant"
    BY <2>1 DEF Move
  <2>3. n \in Names /\ account \in [Names -> {None, "legacy", "own"}]
    BY DEF IInv, TypeOK
  <2>4. QED
    BY <2>2, <2>3 DEF IInv, VacantInv
<1>2. IInv /\ [Next]_vars =>
        [ \A n \in flat \ flat' : account[n] = None /\ account'[n] = "legacy" ]_vars
  BY <1>1
<1>3. QED
  BY <1>2, Invariance, PTL DEF Spec, NothingReplaced
=============================================================================
