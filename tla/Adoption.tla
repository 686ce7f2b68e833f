----------------------------- MODULE Adoption -----------------------------
(***************************************************************************)
(* Where an account's files are: internal/accounts, account.go of the      *)
(* command, and Store.Open and Attach.                                     *)
(*                                                                         *)
(* Before 0.3.8 an account's files lay flat in the data directory.  Every  *)
(* process that starts on a paired install, serve and commands alike,      *)
(* moves what is left of them into the account's directory, file by file   *)
(* and without a lock, before it opens the message store.  One that starts *)
(* unpaired opens the pending directory's store instead; if it pairs, it   *)
(* moves the files then, and re-points its open store.                     *)
(*                                                                         *)
(* There is one account.  SplitLegacy, which follows the moves, and the    *)
(* settings it splits are module Settings; which account is paired, with   *)
(* several of them, is module Session.                                     *)
(***************************************************************************)
EXTENDS Naturals

CONSTANTS
  Names,      \* the files of the flat layout: legacyNames
  Commands,   \* setup and the short-lived commands
  MaxStops    \* bound: how often a process is killed

Serve == "serve"
Procs == Commands \cup {Serve}

Database == "messages.db"
Log == "messages.db-wal"

ASSUME AdoptionAssumption ==
  /\ {Database, Log} \subseteq Names
  /\ Serve \notin Commands
  /\ MaxStops \in Nat

None == "none"
Account == "account"
Pending == "_pending"
Dir == {None, Pending, Account}

VARIABLES
  paired,     \* session.db has a device
  had,        \* the names the flat layout had at first
  flat,       \* the names it still has
  account,    \* what the account's directory has by a name: no file, the
              \* one of the flat layout, or one of its own
  recovered,  \* SQLite has taken what the flat layout's log held
  proc,       \* what each process is doing
  stops       \* how often a process was killed so far

files == <<had, flat, account, recovered>>
vars == <<paired, files, proc, stops>>

Out == [pc |-> "out", todo |-> {}, name |-> Database, dir |-> None]

Process == [pc : {"out", "adopt", "found", "vacant", "swap", "up"},
            todo : SUBSET Names, name : Names, dir : Dir]

TypeOK ==
  /\ paired \in BOOLEAN /\ recovered \in BOOLEAN
  /\ had \subseteq Names /\ flat \subseteq had
  /\ account \in [Names -> {None, "legacy", "own"}]
  /\ proc \in [Procs -> Process]
  /\ stops \in 0..MaxStops

(* The account's directory may have files of its own: an older release run *)
(* again after this one lays a flat layout beside them.                    *)
Init ==
  /\ paired \in BOOLEAN
  /\ had \in SUBSET Names /\ (Log \in had => Database \in had)
  /\ flat = had
  /\ account \in [Names -> {None, "own"}]
  /\ account[Log] = "own" => account[Database] = "own"
  /\ recovered = FALSE
  /\ proc = [p \in Procs |-> Out]
  /\ stops = 0

Starting(p) == proc[p].dir = None

----------------------------------------------------------------------------
(* Moving the files: prepareAccount, AdoptLegacy.                          *)

(* Current and For, at start.  An install that is not paired moves         *)
(* nothing, and opens the pending directory's store.                       *)
Begin(p) ==
  /\ proc[p].pc = "out"
  /\ proc' = [proc EXCEPT ![p] =
       IF paired THEN [Out EXCEPT !.pc = "adopt", !.todo = Names]
       ELSE [Out EXCEPT !.pc = "up", !.dir = Pending]]
  /\ UNCHANGED <<paired, files, stops>>

(* An error ends a process that is starting; setup and the dashboard       *)
(* report it and keep the store they have.                                 *)
Failed(p) ==
  proc' = [proc EXCEPT ![p] =
    IF Starting(p) THEN Out ELSE [Out EXCEPT !.pc = "up", !.dir = proc[p].dir]]

(* The loop goes on to another file.                                       *)
NextFile(p) == [proc EXCEPT ![p].pc = "adopt", ![p].name = Database]

(* legacyNames is a map: the files come in any order.  Lstat of the flat   *)
(* file.                                                                   *)
Visit(p) ==
  /\ proc[p].pc = "adopt"
  /\ \E n \in proc[p].todo :
       proc' = IF n \in flat
               THEN [proc EXCEPT ![p].todo = @ \ {n}, ![p].pc = "found", ![p].name = n]
               ELSE [proc EXCEPT ![p].todo = @ \ {n}]
  /\ UNCHANGED <<paired, files, stops>>

(* Mutants of Check: an occupied name is passed over; or not looked at.    *)
CheckPasses(p) ==
  /\ proc[p].pc = "found"
  /\ proc' = IF account[proc[p].name] = None THEN [proc EXCEPT ![p].pc = "vacant"] ELSE NextFile(p)
  /\ UNCHANGED <<paired, files, stops>>

CheckNothing(p) ==
  /\ proc[p].pc = "found"
  /\ proc' = [proc EXCEPT ![p].pc = "vacant"]
  /\ UNCHANGED <<paired, files, stops>>

(* Lstat of the account's: ErrLegacyOccupied.                              *)
Check(p) ==
  /\ proc[p].pc = "found"
  /\ IF account[proc[p].name] = None
       THEN proc' = [proc EXCEPT ![p].pc = "vacant"]
       ELSE Failed(p)
  /\ UNCHANGED <<paired, files, stops>>

(* Mutants of Move: the file is copied; and a file that is gone is waited  *)
(* for.                                                                    *)
MoveCopies(p) ==
  /\ proc[p].pc = "vacant"
  /\ account' = [account EXCEPT ![proc[p].name] = "legacy"]
  /\ proc' = NextFile(p)
  /\ UNCHANGED <<paired, had, flat, recovered, stops>>

MoveWaits(p) ==
  /\ proc[p].pc = "vacant"
  /\ proc[p].name \in flat
  /\ flat' = flat \ {proc[p].name}
  /\ account' = [account EXCEPT ![proc[p].name] = "legacy"]
  /\ proc' = NextFile(p)
  /\ UNCHANGED <<paired, had, recovered, stops>>

(* Rename, which replaces whatever file has the new name by now, and fails *)
(* if the old one is gone.                                                 *)
Move(p) ==
  LET n == proc[p].name IN
    /\ proc[p].pc = "vacant"
    /\ IF n \in flat
         THEN /\ flat' = flat \ {n}
              /\ account' = [account EXCEPT ![n] = "legacy"]
              /\ proc' = NextFile(p)
         ELSE /\ Failed(p)
              /\ UNCHANGED <<flat, account>>
    /\ UNCHANGED <<paired, had, recovered, stops>>

----------------------------------------------------------------------------
(* The message store.                                                      *)

(* Opening a database creates it, takes what its log holds and starts a    *)
(* log of its own.                                                         *)
Opened == [account EXCEPT ![Database] = IF @ = None THEN "own" ELSE @, ![Log] = "own"]

(* store.Open, or Attach once every file has been visited: nothing to do   *)
(* if that store is the open one, else it is opened beside it.             *)
Open(p) ==
  /\ proc[p].pc = "adopt" /\ proc[p].todo = {}
  /\ IF proc[p].dir = Account
       THEN proc' = [proc EXCEPT ![p].pc = "up"] /\ UNCHANGED <<account, recovered>>
       ELSE /\ proc' = IF Starting(p) THEN [proc EXCEPT ![p].pc = "up", ![p].dir = Account]
                       ELSE [proc EXCEPT ![p].pc = "swap"]
            /\ account' = Opened
            /\ recovered' = (recovered \/ account[Log] = "legacy")
  /\ UNCHANGED <<paired, had, flat, stops>>

(* Attach puts the new handle in the old one's place, which it closes.     *)
Swap(p) ==
  /\ proc[p].pc = "swap"
  /\ proc' = [proc EXCEPT ![p].pc = "up", ![p].dir = Account]
  /\ UNCHANGED <<paired, files, stops>>

(* A process that runs writes the account's other files as it needs them.  *)
Write(p) ==
  /\ proc[p].pc = "up" /\ proc[p].dir = Account
  /\ \E n \in Names \ {Database, Log} :
       /\ account[n] = None
       /\ account' = [account EXCEPT ![n] = "own"]
  /\ UNCHANGED <<paired, had, flat, recovered, proc, stops>>

----------------------------------------------------------------------------
(* Pairing, and the ends of processes.                                     *)

(* setup or the dashboard pairs, and then calls attachAccount.             *)
Pair(p) ==
  /\ ~paired
  /\ proc[p].pc = "up"
  /\ paired' = TRUE
  /\ proc' = [proc EXCEPT ![p].pc = "adopt", ![p].todo = Names]
  /\ UNCHANGED <<files, stops>>

(* The phone unlinks the device.                                           *)
Unlink ==
  /\ paired
  /\ paired' = FALSE
  /\ UNCHANGED <<files, proc, stops>>

Ended(p) ==
  /\ proc' = [proc EXCEPT ![p] = Out]
  /\ UNCHANGED <<paired, had, flat, recovered>>

Holds(p) == proc[p].dir = Account \/ proc[p].pc = "swap"

(* The last to close a database removes its log.                           *)
Exit(p) ==
  /\ proc[p].pc = "up"
  /\ account' = IF Holds(p) /\ \A q \in Procs \ {p} : ~Holds(q)
                THEN [account EXCEPT ![Log] = None] ELSE account
  /\ Ended(p)
  /\ UNCHANGED stops

Stop(p) ==
  /\ stops < MaxStops /\ stops' = stops + 1
  /\ proc[p].pc # "out"
  /\ Ended(p)
  /\ UNCHANGED account

----------------------------------------------------------------------------
Preparing(p) == Visit(p) \/ Check(p) \/ Move(p) \/ Open(p) \/ Swap(p)

Next ==
  \/ \E p \in Procs : Begin(p) \/ Preparing(p) \/ Write(p) \/ Pair(p) \/ Exit(p) \/ Stop(p)
  \/ Unlink

Spec == Init /\ [][Next]_vars

(* A process that prepares an account is scheduled again, and the service  *)
(* manager starts serve whenever it is down.                               *)
FairSpec ==
  Spec /\ WF_vars(Begin(Serve)) /\ \A p \in Procs : WF_vars(Preparing(p))

----------------------------------------------------------------------------
(* Properties.                                                             *)

(* Both layouts have a file of one name: AdoptLegacy will not choose.      *)
Conflict == \E n \in flat : account[n] = "own"

(* "A rename per file": whatever is stopped in between, and whoever else   *)
(* moves files, each file of the flat layout is in exactly one place, and  *)
(* the one that vanishes is a log that was replayed.                       *)
EachFileOnce ==
  \A n \in had :
    /\ n \in flat <=> account[n] # "legacy" /\ ~(n = Log /\ recovered)
    /\ n = Log /\ recovered => account[n] # "legacy"

(* cliAccount: nobody opens the account's store, or writes beside it,      *)
(* while a file of the flat layout is still to come: no database without   *)
(* its log, no new file where an old one belongs.                          *)
OpenedWhole ==
  \A p \in Procs : Holds(p) => flat = {}

(* "Never overwrite": between Lstat and Rename anybody may have made the   *)
(* file, but a file that leaves the flat layout never lands on another.    *)
NothingReplaced ==
  [][ \A n \in flat \ flat' : account[n] = None /\ account'[n] = "legacy" ]_vars

(* "So it is safe to call on every start": races and stops only delay a    *)
(* migration.  A serve that starts paired, or is started again, ends it,   *)
(* unless a name is taken on both sides.                                   *)
MigrationEnds ==
  paired /\ proc[Serve].dir # Pending ~> ~paired \/ flat = {} \/ Conflict

=============================================================================
