-------------------------- MODULE SettingsProofs --------------------------
(***************************************************************************)
(* Theorems about the settings and the session grants, for any chats, any  *)
(* number of commands and requests that overlap, and any interruptions.    *)
(***************************************************************************)
EXTENDS Settings, TLAPS

Serves == proc["serve"].pc \in {"wire", "up"}

Files == {{}} \cup {{s} : s \in Config}

(* Between SaveFor's two writes the account has a file.                    *)
BlankInv == \A p \in Procs : proc[p].pc = "blank" /\ proc[p].dir = "own" => account["own"] # {}

(* A command and a request name a chat, setup does once it has asked, and  *)
(* what edits the settings is no grant.                                    *)
Asked(p, q) ==
  /\ \/ q.jid \in Jids
     \/ q.pc \in {"idle", "pair", "attach", "done"}
     \/ p = "setup" /\ q.pc \in {"split", "copy", "blank"}
  /\ p = "setup" /\ q.pc \in {"split", "copy", "blank"} => q.then \in {"pair", "attach", "done"}
  /\ q.pc \in {"config", "account", "edit"} \/ (q.pc = "blank" /\ q.then = "config") =>
       q.do \notin {"grant", "revoke"}

AskInv == \A p \in Editors \cup {"setup"} : Asked(p, proc[p])

(* The reader reads the account that is served, ...                        *)
ReaderInv == Serves => proc["reader"].dir = Home

(* ... and holds what was in force, when the account has no file yet.      *)
ReadInv == proc["reader"].pc = "account" /\ account[Home] = {} => began = proc["reader"].read

(* Between reading the grants and writing them.                            *)
Holding == {"truncate", "write"}

(* A command that is between reading the grants and writing them holds     *)
(* what a clearing has left, or is marked.                                 *)
WriteInv ==
  Serves /\ ~crossed =>
    \A e \in Editors : proc[e].pc \in Holding /\ proc[e].dir = Home /\ proc[e].then # "done" =>
      proc[e].had \subseteq since

IInv == TypeOK /\ AskInv /\ BlankInv /\ ReaderInv /\ ReadInv /\ WriteInv /\ GrantsDieWithServe

----------------------------------------------------------------------------
(* Configurations, files and steps.                                        *)

LEMMA Chosen == ASSUME NEW a \in Files, a # {} PROVE (CHOOSE s \in a : TRUE) \in Config
<1>1. PICK s \in Config : a = {s}
  BY DEF Files
<1>2. \E t \in a : TRUE
  BY <1>1
<1>3. (CHOOSE t \in a : TRUE) \in a
  BY <1>2, Zenon
<1> QED BY <1>1, <1>3

LEMMA ZeroIsConfig == Zero \in Config
BY DEF Zero, Config, Modes

LEMMA IdleIsProcess == Idle \in Process
BY ZeroIsConfig DEF Idle, Process, Steps, Dirs, Deeds, CommandDeeds

LEMMA EditedIsConfig ==
  ASSUME NEW s \in Config, NEW do \in Deeds, do \notin {"grant", "revoke"}, NEW j \in Jids
  PROVE  Edited(s, do, j) \in Config
<1> USE DEF Edited, Config, Modes
<1>1. CASE do = "trust"
  BY <1>1
<1>2. CASE do = "untrust"
  BY <1>2
<1>3. CASE do = "allow"
  BY <1>3
<1>4. CASE do = "deny"
  BY <1>4
<1>5. CASE do = "all"
  BY <1>5
<1>6. CASE do = "only"
  BY <1>6
<1>7. CASE do = "every chat"
  BY <1>7
<1>8. CASE do = "only your self-chat"
  BY <1>8
<1>9. CASE do = "nothing"
  BY <1>9
<1> QED BY <1>1, <1>2, <1>3, <1>4, <1>5, <1>6, <1>7, <1>8, <1>9 DEF Deeds, CommandDeeds, HandlerDeeds, Answers

LEMMA InForceIsConfig == ASSUME TypeOK, NEW d \in Dirs PROVE InForce(d) \in Config
BY Chosen DEF TypeOK, InForce, Files

LEMMA AtIsProcess ==
  ASSUME NEW q \in Process, NEW p, NEW pc \in Steps
  PROVE  At(q, p, pc) \in Process
BY IdleIsProcess DEF At, Process

(* A file written stays.                                                   *)
LEMMA FileWritten ==
  ASSUME TypeOK, NEW p \in Procs, NEW s \in Config, NEW then, WriteFirst(p, s, then)
  PROVE  /\ account' \in [Dirs -> Files] /\ account'[proc[p].dir] # {}
         /\ \A d \in Dirs : account[d] # {} => account'[d] # {}
         /\ proc' = [proc EXCEPT ![p] = [@ EXCEPT !.pc = "blank", !.then = then]]
         /\ config' = config
BY DEF TypeOK, WriteFirst, Files, Process

LEMMA Others ==
  ASSUME TypeOK, NEW p \in Procs, NEW q, proc' = [proc EXCEPT ![p] = q]
  PROVE  proc'[p] = q /\ \A r \in Procs \ {p} : proc'[r] = proc[r]
BY DEF TypeOK

(* What a step of one process other than the reader leaves to show, when   *)
(* it gives, clears and writes no grants.                                  *)
LEMMA OneMoves ==
  ASSUME IInv, NEW p \in Procs \ {"reader"}, NEW q \in Process,
         proc' = [proc EXCEPT ![p] = q],
         paired' \in BOOLEAN, config' \in [keys : Config, valid : BOOLEAN],
         account' \in [Dirs -> Files], \A d \in Dirs : account[d] # {} => account'[d] # {},
         edits' \in 0..MaxEdits, troubles' \in 0..MaxTroubles,
         UNCHANGED <<trustVars, began>>,
         p = "serve" => ~Serves /\ q.pc \notin {"wire", "up"},
         p \in Editors /\ q.pc # "idle" /\ q.page => Up,
         q.pc = "blank" /\ q.dir = "own" => account'["own"] # {},
         q.pc \notin {"truncate", "write"},
         p # "serve" => Asked(p, q)
  PROVE  IInv'
<1> USE SettingsAssumption DEF IInv
<1>1. /\ p \in Procs /\ {"serve", "reader"} \subseteq Procs /\ Editors \subseteq Procs
      /\ "serve" \notin Editors /\ "reader" \notin Editors
  BY DEF Procs
<1>2. proc'[p] = q /\ \A r \in Procs \ {p} : proc'[r] = proc[r]
  BY <1>1, Others
<1>3. proc'["reader"] = proc["reader"] /\ proc' \in [Procs -> Process]
  BY <1>1, <1>2 DEF TypeOK
<1>a. AskInv'
  BY <1>1, <1>2 DEF AskInv, Procs
<1>4. CASE p = "serve"
  <2>1. ~Serves /\ ~Serves' /\ proc'["reader"].pc = "idle"
    BY <1>1, <1>2, <1>3, <1>4 DEF Serves, TypeOK
  <2>2. TypeOK'
    <3>1. \A e \in Editors : proc'[e].pc # "idle" /\ proc'[e].page => Up'
      BY <1>1, <1>2, <1>4, <2>1 DEF TypeOK, Up, Serves
    <3> QED BY <1>3, <2>1, <3>1 DEF TypeOK, trustVars, Files, Serves
  <2>3. BlankInv'
    BY <1>1, <1>2, <1>4 DEF BlankInv, Dirs
  <2>4. ReaderInv' /\ ReadInv' /\ WriteInv' /\ GrantsDieWithServe'
    BY <2>1 DEF ReaderInv, ReadInv, WriteInv, GrantsDieWithServe, Serves
  <2> QED BY <1>a, <2>2, <2>3, <2>4
<1>5. CASE p # "serve"
  <2>1. proc'["serve"] = proc["serve"] /\ proc["serve"].dir \in Dirs
    BY <1>1, <1>2, <1>5 DEF TypeOK, Process
  <2>2. TypeOK'
    <3>1. \A e \in Editors : proc'[e].pc # "idle" /\ proc'[e].page => Up'
      BY <1>1, <1>2, <2>1 DEF TypeOK, Up
    <3> QED BY <1>3, <2>1, <3>1 DEF TypeOK, trustVars, Files
  <2>3. BlankInv'
    BY <1>1, <1>2 DEF BlankInv, Dirs
  <2>4. ReaderInv'
    BY <1>3, <2>1 DEF ReaderInv, Serves, Home
  <2>5. ReadInv'
    BY <1>3, <2>1 DEF ReadInv, Home
  <2>6. WriteInv'
    BY <1>1, <1>2, <2>1 DEF WriteInv, Holding, Serves, Home, trustVars
  <2>7. GrantsDieWithServe'
    BY <2>1 DEF GrantsDieWithServe, Home, trustVars
  <2> QED BY <1>a, <2>2, <2>3, <2>4, <2>5, <2>6, <2>7
<1> QED BY <1>a, <1>4, <1>5

----------------------------------------------------------------------------
(* The steps of one process.                                               *)

LEMMA ThoseAre ==
  /\ Procs = Editors \cup {"serve", "setup", "reader"}
  /\ "serve" \notin Editors /\ "setup" \notin Editors /\ "reader" \notin Editors
  /\ MaxEdits \in Nat /\ MaxTroubles \in Nat
BY SettingsAssumption DEF Procs

LEMMA Bounds ==
  ASSUME TypeOK
  PROVE  /\ edits \in 0..MaxEdits /\ troubles \in 0..MaxTroubles
         /\ edits < MaxEdits => edits + 1 \in 0..MaxEdits
         /\ troubles < MaxTroubles => troubles + 1 \in 0..MaxTroubles
BY ThoseAre DEF TypeOK

LEMMA IdleIsAsked == \A p : Idle.pc = "idle" /\ Idle.page = FALSE /\ Asked(p, Idle)
BY DEF Idle, Asked

LEMMA LoadsConfig ==
  ASSUME IInv, NEW p \in Procs \ {"reader"}, ReadConfig(p)
  PROVE  IInv'
<1> DEFINE q == IF config.valid THEN [proc[p] EXCEPT !.pc = "account", !.read = config.keys] ELSE Idle
<1> USE DEF IInv
<1>1. proc[p] \in Process /\ config.keys \in Config /\ proc[p].pc = "config"
  BY DEF TypeOK, ReadConfig
<1>2. proc' = [proc EXCEPT ![p] = q] /\ UNCHANGED <<paired, began, files, trustVars, bounds>>
  BY DEF ReadConfig, Fail, Goto, At
<1>3. q \in Process
  BY <1>1, IdleIsProcess DEF Process, Steps
<1>4. /\ q.pc \in {"account", "idle"}
      /\ p # "serve" => Asked(p, q)
      /\ p \in Editors /\ q.pc # "idle" /\ q.page => Up
  <2>1. p # "serve" => Asked(p, proc[p])
    BY ThoseAre DEF AskInv
  <2> QED BY <1>1, <2>1 DEF TypeOK, Process, Asked, Idle
<1>5. p = "serve" => ~Serves
  BY <1>1 DEF Serves
<1> QED BY <1>2, <1>3, <1>4, <1>5, OneMoves DEF TypeOK, files, bounds, Files

LEMMA LoadsAccount ==
  ASSUME IInv, NEW p \in Procs \ {"reader"}, ReadAccount(p)
  PROVE  IInv'
<1> DEFINE s == Merged(proc[p].read, account[proc[p].dir])
           q == [proc[p] EXCEPT !.pc = Loaded(p), !.read = Zero, !.cfg = IF p = "serve" THEN Zero ELSE s]
<1> USE DEF IInv
<1>1. proc[p] \in Process /\ proc[p].pc = "account"
  BY DEF TypeOK, ReadAccount
<1>2. proc' = [proc EXCEPT ![p] = q] /\ UNCHANGED <<paired, began, files, trustVars, bounds>>
  BY DEF ReadAccount
<1>3. s \in Config
  BY <1>1, Chosen DEF Process, Merged, TypeOK, Files
<1>4. Loaded(p) \in {"clear", "edit"}
  BY DEF Loaded
<1>5. q \in Process
  BY <1>1, <1>3, <1>4, ZeroIsConfig DEF Process, Steps
<1>6. /\ q.pc \in {"clear", "edit"}
      /\ p # "serve" => Asked(p, q)
      /\ p \in Editors /\ q.pc # "idle" /\ q.page => Up
  <2>1. p # "serve" => Asked(p, proc[p])
    BY ThoseAre DEF AskInv
  <2> QED BY <1>1, <1>4, <2>1 DEF TypeOK, Process, Asked
<1>7. p = "serve" => ~Serves
  BY <1>1 DEF Serves
<1> QED BY <1>2, <1>5, <1>6, <1>7, OneMoves DEF TypeOK, files, bounds, Files

LEMMA PreparedIs ==
  ASSUME IInv, NEW p \in Procs \ {"reader"}, proc[p].pc \in {"split", "copy"}
  PROVE  /\ Prepared(p) \in {"config", "grants", "pair", "attach", "done"}
         /\ p = "serve" => Prepared(p) = "config"
         /\ p = "setup" => Prepared(p) \in {"pair", "attach", "done"}
         /\ p \in Editors => Prepared(p) =
              IF proc[p].do \in {"grant", "revoke"} THEN "grants" ELSE "config"
<1>1. p = "setup" => Prepared(p) \in {"pair", "attach", "done"}
  BY ThoseAre DEF IInv, AskInv, Asked, Prepared
<1> QED BY <1>1, ThoseAre DEF Prepared

LEMMA Splits ==
  ASSUME IInv, NEW p \in Procs \ {"reader"}, Split(p)
  PROVE  IInv'
<1> USE DEF IInv
<1>1. /\ proc[p] \in Process /\ proc[p].pc = "split" /\ config.keys \in Config
      /\ UNCHANGED <<paired, began, files, trustVars, bounds>>
  BY DEF TypeOK, Split
<1>2. p # "serve" => Asked(p, proc[p])
  BY ThoseAre DEF AskInv
<1>3. p = "serve" => ~Serves
  BY <1>1 DEF Serves
<1>4. p \in Editors /\ proc[p].page => Up
  BY <1>1 DEF TypeOK
<1>5. PICK q \in Process :
        /\ proc' = [proc EXCEPT ![p] = q]
        /\ \/ q = Idle
           \/ q = [proc[p] EXCEPT !.pc = "copy", !.read = config.keys]
           \/ q = [proc[p] EXCEPT !.pc = Prepared(p)]
  <2>1. Idle \in Process /\ [proc[p] EXCEPT !.pc = "copy", !.read = config.keys] \in Process
    BY <1>1, IdleIsProcess DEF Process, Steps
  <2>2. [proc[p] EXCEPT !.pc = Prepared(p)] \in Process
    BY <1>1, PreparedIs DEF Process, Steps
  <2>3. Prepared(p) # "idle"
    BY <1>1, PreparedIs
  <2> QED BY <2>1, <2>2, <2>3 DEF Split, Fail, Goto, At
<1>6. CASE q = Idle
  <2>1. q.pc = "idle" /\ Asked(p, q)
    BY <1>6, IdleIsAsked
  <2> QED BY <1>1, <1>3, <1>5, <2>1, OneMoves DEF TypeOK, files, bounds, Files
<1>7. CASE q = [proc[p] EXCEPT !.pc = "copy", !.read = config.keys]
  <2>1. q.pc = "copy" /\ (p \in Editors /\ q.page => Up)
    BY <1>1, <1>4, <1>7 DEF Process
  <2>2. p # "serve" => Asked(p, q)
    BY <1>1, <1>2, <1>7 DEF Process, Asked
  <2> QED BY <1>1, <1>3, <1>5, <2>1, <2>2, OneMoves DEF TypeOK, files, bounds, Files
<1>8. CASE q = [proc[p] EXCEPT !.pc = Prepared(p)]
  <2>1. q.pc = Prepared(p) /\ (p \in Editors /\ q.page => Up)
    BY <1>1, <1>4, <1>8 DEF Process
  <2>2. p # "serve" => Asked(p, q)
    BY <1>1, <1>2, <1>8, PreparedIs, ThoseAre DEF Process, Asked
  <2> QED BY <1>1, <1>3, <1>5, <2>1, <2>2, OneMoves, PreparedIs DEF TypeOK, files, bounds, Files
<1> QED BY <1>5, <1>6, <1>7, <1>8

LEMMA Copies ==
  ASSUME IInv, NEW p \in Procs \ {"reader"}, Copy(p)
  PROVE  IInv'
<1> DEFINE q == [proc[p] EXCEPT !.pc = "blank", !.then = Prepared(p)]
<1> USE DEF IInv
<1>1. /\ proc[p] \in Process /\ proc[p].pc = "copy" /\ proc[p].read \in Config
      /\ UNCHANGED <<paired, began, trustVars, bounds>>
  BY DEF TypeOK, Copy, Process
<1>2. WriteFirst(p, proc[p].read, Prepared(p))
  BY DEF Copy
<1>3. /\ account' \in [Dirs -> Files] /\ account'[proc[p].dir] # {}
      /\ \A d \in Dirs : account[d] # {} => account'[d] # {}
      /\ proc' = [proc EXCEPT ![p] = q] /\ config' = config
  BY <1>1, <1>2, FileWritten
<1>4. q \in Process /\ q.pc = "blank" /\ q.dir = proc[p].dir /\ q.page = proc[p].page
  BY <1>1, PreparedIs DEF Process, Steps
<1>5. p # "serve" => Asked(p, q)
  <2>1. p # "serve" => Asked(p, proc[p])
    BY ThoseAre DEF AskInv
  <2> QED BY <1>1, <2>1, PreparedIs, ThoseAre DEF Process, Asked
<1>6. /\ p = "serve" => ~Serves
      /\ p \in Editors /\ proc[p].page => Up
  BY <1>1 DEF Serves, TypeOK
<1> HIDE DEF q
<1> QED BY <1>1, <1>3, <1>4, <1>5, <1>6, OneMoves DEF TypeOK, bounds, Files

LEMMA Blanks ==
  ASSUME IInv, NEW p \in Procs \ {"reader"}, WriteThen(p)
  PROVE  IInv'
<1> DEFINE q == At(proc[p], p, proc[p].then)
<1> USE DEF IInv
<1>1. /\ proc[p] \in Process /\ proc[p].pc = "blank"
      /\ UNCHANGED <<paired, began, account, trustVars, bounds>>
      /\ config' = [keys |-> Zero, valid |-> TRUE]
      /\ proc[p].then \in {"idle", "config", "grants", "pair", "attach", "done"}
  BY DEF TypeOK, WriteThen, Process
<1>2. proc' = [proc EXCEPT ![p] = q]
  BY DEF WriteThen, Goto
<1>3. q \in Process
  BY <1>1, AtIsProcess DEF Steps
<1>4. CASE proc[p].then = "idle"
  <2>1. q = Idle
    BY <1>4 DEF At
  <2>2. q.pc = "idle" /\ Asked(p, q)
    BY <2>1, IdleIsAsked
  <2>3. p = "serve" => ~Serves
    BY <1>1 DEF Serves
  <2> HIDE DEF q
  <2> QED BY <1>1, <1>2, <1>3, <2>2, <2>3, OneMoves, ZeroIsConfig DEF TypeOK, bounds, Files
<1>5. CASE proc[p].then # "idle"
  <2>1. q = [proc[p] EXCEPT !.pc = proc[p].then]
    BY <1>5 DEF At
  <2>2. q.pc = proc[p].then /\ (p \in Editors /\ q.page => Up)
    BY <1>1, <2>1 DEF Process, TypeOK
  <2>3. p # "serve" => Asked(p, q)
    <3>1. p # "serve" => Asked(p, proc[p])
      BY ThoseAre DEF AskInv
    <3> QED BY <1>1, <1>5, <2>1, <3>1 DEF Process, Asked
  <2>4. p = "serve" => ~Serves
    BY <1>1 DEF Serves
  <2> HIDE DEF q
  <2> QED BY <1>1, <1>2, <1>3, <2>2, <2>3, <2>4, OneMoves, ZeroIsConfig DEF TypeOK, bounds, Files
<1> QED BY <1>4, <1>5

LEMMA Commands ==
  ASSUME IInv, NEW e \in Editors, Command(e)
  PROVE  IInv'
<1> USE DEF IInv
<1>1. PICK do \in CommandDeeds, j \in Jids :
        proc' = [proc EXCEPT ![e] = [Idle EXCEPT !.pc = "split", !.dir = For, !.do = do, !.jid = j]]
  BY DEF Command
<1> DEFINE q == [Idle EXCEPT !.pc = "split", !.dir = For, !.do = do, !.jid = j]
<1>2. q \in Process /\ q.pc = "split" /\ q.page = FALSE /\ Asked(e, q)
  BY IdleIsProcess, ThoseAre DEF Process, Steps, For, Dirs, Deeds, Asked, Idle
<1>3. UNCHANGED <<paired, began, files, trustVars, troubles>> /\ edits' \in 0..MaxEdits
  BY Bounds DEF Command
<1>4. e \in Procs \ {"reader"} /\ e # "serve"
  BY ThoseAre
<1> HIDE DEF q
<1> QED BY <1>1, <1>2, <1>3, <1>4, OneMoves DEF TypeOK, files, Files, q

LEMMA Handles ==
  ASSUME IInv, NEW e \in Editors, Handle(e)
  PROVE  IInv'
<1> USE DEF IInv
<1>1. PICK do \in HandlerDeeds, j \in Jids :
        proc' = [proc EXCEPT ![e] = [Idle EXCEPT !.pc = "config", !.page = TRUE, !.dir = Home,
                                                 !.do = do, !.jid = j]]
  BY DEF Handle
<1> DEFINE q == [Idle EXCEPT !.pc = "config", !.page = TRUE, !.dir = Home, !.do = do, !.jid = j]
<1>2. Home \in Dirs
  BY ThoseAre DEF TypeOK, Home, Process
<1>3. q \in Process /\ q.pc = "config" /\ Asked(e, q)
  BY <1>2, IdleIsProcess, ThoseAre DEF Process, Steps, Deeds, Asked, Idle, HandlerDeeds
<1>4. UNCHANGED <<paired, began, files, trustVars, troubles>> /\ edits' \in 0..MaxEdits /\ Up
  BY Bounds DEF Handle
<1>5. e \in Procs \ {"reader"} /\ e # "serve"
  BY ThoseAre
<1>6. proc' = [proc EXCEPT ![e] = q]
  BY <1>1
<1> HIDE DEF q
<1> QED BY <1>3, <1>4, <1>5, <1>6, OneMoves DEF TypeOK, files, Files

LEMMA Edits ==
  ASSUME IInv, NEW p \in Editors \cup {"setup"}, Edit(p)
  PROVE  IInv'
<1> DEFINE s == Edited(proc[p].cfg, proc[p].do, proc[p].jid)
           then == IF p = "setup" THEN "attach" ELSE "idle"
           q == [proc[p] EXCEPT !.pc = "blank", !.then = then]
<1> USE DEF IInv
<1>1. p \in Procs \ {"reader"} /\ p # "serve"
  BY ThoseAre
<1>2. /\ proc[p] \in Process /\ proc[p].pc = "edit" /\ UNCHANGED <<paired, began, trustVars, bounds>>
      /\ p \in Editors /\ proc[p].page => Up
  BY <1>1 DEF TypeOK, Edit
<1>3. Asked(p, proc[p])
  BY DEF AskInv
<1>4. s \in Config
  <2>1. proc[p].do \in Deeds /\ proc[p].do \notin {"grant", "revoke"} /\ proc[p].cfg \in Config
    BY <1>2, <1>3 DEF Asked, Process
  <2>2. proc[p].jid \in Jids
    BY <1>2, <1>3 DEF Asked
  <2> QED BY <2>1, <2>2, EditedIsConfig
<1>5. CASE Idempotent(p)
  <2>1. proc' = [proc EXCEPT ![p] = Idle] /\ UNCHANGED files
    BY <1>1, <1>5 DEF Edit, Goto, At
  <2> QED BY <1>1, <1>2, <2>1, IdleIsProcess, IdleIsAsked, OneMoves DEF TypeOK, files, bounds, Files
<1>6. CASE ~Idempotent(p)
  <2>1. WriteFirst(p, s, then)
    BY <1>6 DEF Edit
  <2>2. /\ account' \in [Dirs -> Files] /\ account'[proc[p].dir] # {}
        /\ \A d \in Dirs : account[d] # {} => account'[d] # {}
        /\ proc' = [proc EXCEPT ![p] = q] /\ config' = config
    BY <1>1, <1>4, <2>1, FileWritten
  <2>3. q \in Process /\ q.pc = "blank" /\ q.dir = proc[p].dir /\ q.page = proc[p].page
    BY <1>2 DEF Process, Steps
  <2>4. Asked(p, q)
    BY <1>2, <1>3 DEF Process, Asked
  <2> HIDE DEF q, s, then
  <2> QED BY <1>1, <1>2, <2>2, <2>3, <2>4, OneMoves DEF TypeOK, bounds, Files
<1> QED BY <1>5, <1>6

LEMMA Setups ==
  ASSUME IInv, Setup
  PROVE  IInv'
<1> DEFINE q == [Idle EXCEPT !.pc = "split", !.dir = For, !.then = "pair"]
<1> USE DEF IInv
<1>1. q \in Process /\ q.pc = "split" /\ Asked("setup", q)
  BY IdleIsProcess DEF Process, Steps, For, Dirs, Asked, Idle
<1>2. UNCHANGED <<paired, began, files, trustVars, troubles>> /\ edits' \in 0..MaxEdits
  BY Bounds DEF Setup
<1>3. proc' = [proc EXCEPT !["setup"] = q] /\ "setup" \in Procs \ {"reader"} /\ "setup" \notin Editors
  BY ThoseAre DEF Setup
<1> HIDE DEF q
<1> QED BY <1>1, <1>2, <1>3, OneMoves DEF TypeOK, files, Files

LEMMA SetupPairsOne ==
  ASSUME IInv, SetupPairs
  PROVE  IInv'
<1> USE DEF IInv
<1>1. PICK do \in Answers, j \in Jids :
        proc' = [proc EXCEPT !["setup"].pc = "config", !["setup"].do = do, !["setup"].jid = j]
  BY DEF SetupPairs
<1> DEFINE q == [proc["setup"] EXCEPT !.pc = "config", !.do = do, !.jid = j]
<1>2. "setup" \in Procs \ {"reader"} /\ "setup" \notin Editors /\ proc["setup"] \in Process
  BY ThoseAre DEF TypeOK
<1>3. q \in Process /\ q.pc = "config" /\ Asked("setup", q)
  BY <1>2 DEF Process, Steps, Deeds, Answers, Asked
<1>4. UNCHANGED <<began, files, trustVars, bounds>> /\ paired' = TRUE
  BY DEF SetupPairs
<1>5. proc' = [proc EXCEPT !["setup"] = q]
  BY <1>1, <1>2 DEF TypeOK
<1> HIDE DEF q
<1> QED BY <1>2, <1>3, <1>4, <1>5, OneMoves DEF TypeOK, files, bounds, Files

LEMMA SetupAttachesOne ==
  ASSUME IInv, SetupAttaches
  PROVE  IInv'
<1> DEFINE q == [proc["setup"] EXCEPT !.pc = "split", !.dir = For, !.then = "done"]
<1> USE DEF IInv
<1>1. "setup" \in Procs \ {"reader"} /\ "setup" \notin Editors /\ proc["setup"] \in Process
  BY ThoseAre DEF TypeOK
<1>2. q \in Process /\ q.pc = "split" /\ Asked("setup", q)
  BY <1>1 DEF Process, Steps, For, Dirs, Asked
<1>3. UNCHANGED <<paired, began, files, trustVars, bounds>> /\ proc' = [proc EXCEPT !["setup"] = q]
  BY <1>1 DEF SetupAttaches, TypeOK
<1> HIDE DEF q
<1> QED BY <1>1, <1>2, <1>3, OneMoves DEF TypeOK, files, bounds, Files

LEMMA Starts ==
  ASSUME IInv, Start
  PROVE  IInv'
<1> DEFINE q == [Idle EXCEPT !.pc = "split", !.dir = For]
<1> USE DEF IInv
<1>1. q \in Process /\ q.pc = "split"
  BY IdleIsProcess DEF Process, Steps, For, Dirs, Idle
<1>2. /\ UNCHANGED <<paired, began, files, trustVars, bounds>>
      /\ proc' = [proc EXCEPT !["serve"] = q] /\ ~Serves
  BY DEF Start, Serves
<1>3. "serve" \in Procs \ {"reader"} /\ "serve" \notin Editors
  BY ThoseAre
<1> HIDE DEF q
<1> QED BY <1>1, <1>2, <1>3, OneMoves DEF TypeOK, files, bounds, Files

LEMMA Interrupts ==
  ASSUME IInv, Interrupt
  PROVE  IInv'
<1> USE DEF IInv
<1>1. PICK p \in Editors \cup {"setup"} : proc' = [proc EXCEPT ![p] = Idle]
  BY DEF Interrupt
<1>2. UNCHANGED <<paired, began, files, trustVars, edits>> /\ troubles' \in 0..MaxTroubles
  BY Bounds DEF Interrupt, Trouble
<1>3. p \in Procs \ {"reader"} /\ p # "serve"
  BY ThoseAre
<1> QED BY <1>1, <1>2, <1>3, IdleIsProcess, IdleIsAsked, OneMoves DEF TypeOK, files, Files

----------------------------------------------------------------------------
(* Grants.                                                                 *)

(* What a step of a command leaves to show when it touches the grants.     *)
LEMMA OneGrants ==
  ASSUME IInv, NEW e \in Editors, NEW q \in Process,
         proc' = [proc EXCEPT ![e] = q],
         UNCHANGED <<paired, began, files, bounds>>,
         grants' \in [Dirs -> SUBSET Jids], since' \subseteq Jids, since \subseteq since',
         crossed' \in BOOLEAN, crossed => crossed',
         q.pc # "idle" /\ q.page => Up,
         q.pc # "blank",
         Asked(e, q),
         Serves /\ ~crossed' => grants'[Home] \subseteq since',
         Serves /\ ~crossed' /\ q.pc \in Holding /\ q.dir = Home /\ q.then # "done" =>
           q.had \subseteq since'
  PROVE  IInv'
<1> USE DEF IInv
<1>1. e \in Procs /\ "serve" \in Procs \ {e} /\ "reader" \in Procs \ {e} /\ Editors \subseteq Procs
  BY ThoseAre
<1>2. proc'[e] = q /\ \A r \in Procs \ {e} : proc'[r] = proc[r]
  BY <1>1, Others
<1>3. /\ proc' \in [Procs -> Process] /\ proc'["reader"] = proc["reader"]
      /\ proc'["serve"] = proc["serve"] /\ Home' = Home /\ Serves' = Serves /\ Up' = Up
  BY <1>1, <1>2 DEF TypeOK, Home, Serves, Up
<1>4. TypeOK'
  <2>1. \A f \in Editors : proc'[f].pc # "idle" /\ proc'[f].page => Up'
    BY <1>1, <1>2, <1>3 DEF TypeOK
  <2> QED BY <1>3, <2>1 DEF TypeOK, files, bounds, Files
<1>5. AskInv'
  BY <1>1, <1>2, ThoseAre DEF AskInv
<1>6. BlankInv'
  BY <1>2 DEF BlankInv, files
<1>7. ReaderInv' /\ ReadInv'
  BY <1>3 DEF ReaderInv, ReadInv, files
<1>8. WriteInv'
  <2> SUFFICES ASSUME Serves, ~crossed', NEW f \in Editors, proc'[f].pc \in Holding,
                      proc'[f].dir = Home, proc'[f].then # "done"
               PROVE  proc'[f].had \subseteq since'
    BY <1>3 DEF WriteInv
  <2> QED BY <1>1, <1>2 DEF WriteInv
<1>9. GrantsDieWithServe'
  BY <1>3 DEF GrantsDieWithServe, Serves
<1> QED BY <1>4, <1>5, <1>6, <1>7, <1>8, <1>9

LEMMA ReadsGrants ==
  ASSUME IInv, NEW e \in Editors, ReadGrants(e)
  PROVE  IInv'
<1> DEFINE q == proc[e]
           w == [q EXCEPT !.pc = "truncate", !.had = grants[q.dir]]
<1> USE DEF IInv
<1>1. /\ e \in Procs \ {"reader"} /\ q \in Process /\ q.pc = "grants" /\ (q.page => Up)
      /\ q.dir \in Dirs
  BY ThoseAre DEF TypeOK, ReadGrants, Process
<1>2. Asked(e, q)
  BY DEF AskInv
<1>3. UNCHANGED <<paired, began, files, grants, since, crossed, bounds>>
  BY DEF ReadGrants, trustVars
<1>4. Serves /\ ~crossed => grants[Home] \subseteq since
  BY DEF Serves, GrantsDieWithServe
<1>5. Goto(e, "idle") => proc' = [proc EXCEPT ![e] = Idle]
  BY <1>1 DEF Goto, At
<1>6. CASE proc' = [proc EXCEPT ![e] = Idle]
  <2> HIDE DEF q
  <2> QED BY <1>3, <1>4, <1>6, IdleIsProcess, IdleIsAsked, OneGrants DEF TypeOK, Holding
<1>7. CASE proc' = [proc EXCEPT ![e] = w]
  <2>1. w \in Process /\ w.pc = "truncate" /\ w.page = q.page /\ w.dir = q.dir /\ w.had = grants[q.dir]
    BY <1>1 DEF Process, Steps, TypeOK
  <2>2. Asked(e, w)
    BY <1>1, <1>2, ThoseAre DEF Process, Asked
  <2>3. Serves /\ ~crossed' /\ w.dir = Home => w.had \subseteq since'
    BY <1>3, <1>4, <2>1
  <2> HIDE DEF q, w
  <2> QED BY <1>1, <1>3, <1>4, <1>7, <2>1, <2>2, <2>3, OneGrants DEF TypeOK
<1>8. proc' = [proc EXCEPT ![e] = w] <=>
        proc' = [proc EXCEPT ![e].pc = "truncate", ![e].had = grants[q.dir]]
  BY <1>1 DEF TypeOK, Process
<1> QED BY <1>5, <1>6, <1>7, <1>8 DEF ReadGrants

LEMMA TruncatesGrants ==
  ASSUME IInv, NEW e \in Editors, TruncateGrants(e)
  PROVE  IInv'
<1> DEFINE q == proc[e]
           w == [q EXCEPT !.pc = "write"]
           cleared == [grants EXCEPT ![q.dir] = {}]
<1> USE DEF IInv
<1>1. /\ e \in Procs \ {"reader"} /\ q \in Process /\ q.pc = "truncate" /\ (q.page => Up)
      /\ q.dir \in Dirs /\ Home \in Dirs
  BY ThoseAre DEF TypeOK, TruncateGrants, Process, Home
<1>2. Asked(e, q)
  BY DEF AskInv
<1>3. UNCHANGED <<paired, began, files, since, crossed, bounds>> /\ grants' = cleared
  BY DEF TruncateGrants
<1>4. Serves /\ ~crossed => grants[Home] \subseteq since
  BY DEF Serves, GrantsDieWithServe
<1>5. cleared \in [Dirs -> SUBSET Jids] /\ cleared[q.dir] = {}
      /\ \A d \in Dirs \ {q.dir} : cleared[d] = grants[d]
  BY <1>1 DEF TypeOK
<1>6. Serves /\ ~crossed' => cleared[Home] \subseteq since'
  BY <1>1, <1>3, <1>4, <1>5
<1>7. /\ Goto(e, "idle") => proc' = [proc EXCEPT ![e] = Idle]
      /\ Goto(e, "write") => proc' = [proc EXCEPT ![e] = w]
  BY <1>1 DEF Goto, At, TypeOK
<1>8. CASE proc' = [proc EXCEPT ![e] = Idle]
  <2> HIDE DEF q, cleared
  <2> QED BY <1>3, <1>5, <1>6, <1>8, IdleIsProcess, IdleIsAsked, OneGrants DEF TypeOK, Holding
<1>9. CASE proc' = [proc EXCEPT ![e] = w]
  <2>1. w \in Process /\ w.pc = "write" /\ w.page = q.page /\ w.dir = q.dir /\ w.had = q.had
        /\ w.then = q.then
    BY <1>1 DEF Process, Steps
  <2>2. Asked(e, w)
    BY <1>1, <1>2, ThoseAre DEF Process, Asked
  <2>3. Serves /\ ~crossed' /\ w.dir = Home /\ w.then # "done" => w.had \subseteq since'
    BY <1>1, <1>3, <2>1 DEF WriteInv, Holding
  <2> HIDE DEF q, w, cleared
  <2> QED BY <1>1, <1>3, <1>5, <1>6, <1>9, <2>1, <2>2, <2>3, OneGrants DEF TypeOK
<1> QED BY <1>7, <1>8, <1>9 DEF TruncateGrants

LEMMA WritesGrants ==
  ASSUME IInv, NEW e \in Editors, WriteGrants(e)
  PROVE  IInv'
<1> DEFINE q == proc[e]
           g == IF q.do = "grant" THEN q.had \cup {q.jid} ELSE q.had \ {q.jid}
<1> USE DEF IInv
<1>1. /\ e \in Procs \ {"reader"} /\ q \in Process /\ q.pc = "write"
      /\ q.dir \in Dirs /\ Home \in Dirs /\ q.had \subseteq Jids
  BY ThoseAre DEF TypeOK, WriteGrants, Process, Home
<1>2. q.jid \in Jids
  BY <1>1, ThoseAre DEF AskInv, Asked
<1>3. /\ UNCHANGED <<paired, began, files, bounds>> /\ proc' = [proc EXCEPT ![e] = Idle]
      /\ grants' = [grants EXCEPT ![q.dir] = g]
      /\ since' = IF q.do = "grant" THEN since \cup {q.jid} ELSE since
      /\ crossed' = (crossed \/ q.then = "done")
  BY <1>1 DEF WriteGrants, Goto, At
<1>4. /\ grants' \in [Dirs -> SUBSET Jids] /\ grants'[q.dir] = g
      /\ \A d \in Dirs \ {q.dir} : grants'[d] = grants[d]
      /\ since' \subseteq Jids /\ since \subseteq since'
  BY <1>1, <1>2, <1>3 DEF TypeOK
<1>5. crossed' \in BOOLEAN /\ (crossed => crossed') /\ (~crossed' => q.then # "done")
  BY <1>3 DEF TypeOK
<1>6. Serves /\ ~crossed' => grants'[Home] \subseteq since'
  <2> SUFFICES ASSUME Serves, ~crossed' PROVE grants'[Home] \subseteq since'
    OBVIOUS
  <2>1. ~crossed /\ q.then # "done"
    BY <1>5
  <2>2. CASE q.dir = Home
    <3>1. q.had \subseteq since
      BY <1>1, <2>1, <2>2 DEF WriteInv, Holding
    <3> QED BY <1>3, <1>4, <2>2, <3>1
  <2>3. CASE q.dir # Home
    <3>1. grants[Home] \subseteq since
      BY <2>1 DEF GrantsDieWithServe, Serves
    <3> QED BY <1>1, <1>4, <2>3, <3>1
  <2> QED BY <2>2, <2>3
<1> QED BY <1>3, <1>4, <1>5, <1>6, IdleIsProcess, IdleIsAsked, OneGrants DEF Holding

----------------------------------------------------------------------------
(* serve and its reader.                                                   *)

(* What a step of the reader leaves to show.                               *)
LEMMA ReaderMoves ==
  ASSUME IInv, NEW q \in Process, proc' = [proc EXCEPT !["reader"] = q],
         UNCHANGED <<paired, files, trustVars, bounds>>, began' \in Config,
         proc["reader"].pc # "idle" \/ Up,
         q.dir = proc["reader"].dir, q.pc # "blank",
         q.pc = "account" /\ account[Home] = {} => began' = q.read
  PROVE  IInv'
<1> USE DEF IInv
<1>1. Procs = Editors \cup {"serve", "setup", "reader"} /\ "reader" \notin Editors
  BY ThoseAre
<1>2. proc'["reader"] = q /\ \A r \in Procs \ {"reader"} : proc'[r] = proc[r]
  BY <1>1, Others
<1>3. proc' \in [Procs -> Process] /\ proc'["serve"] = proc["serve"]
  BY <1>1, <1>2 DEF TypeOK
<1>4. Serves /\ Serves' /\ Home' = Home /\ Up' = Up
  BY <1>3 DEF TypeOK, Serves, Up, Home
<1>5. TypeOK'
  <2>1. \A e \in Editors : proc'[e].pc # "idle" /\ proc'[e].page => Up'
    BY <1>1, <1>2, <1>4 DEF TypeOK
  <2> QED BY <1>3, <1>4, <2>1 DEF TypeOK, files, trustVars, bounds, Files, Serves
<1>6. AskInv' /\ BlankInv'
  BY <1>1, <1>2 DEF AskInv, BlankInv, files
<1>7. ReaderInv' /\ ReadInv'
  BY <1>2, <1>4 DEF ReaderInv, ReadInv, files
<1>8. WriteInv'
  BY <1>1, <1>2, <1>4 DEF WriteInv, trustVars
<1>9. GrantsDieWithServe'
  BY <1>3, <1>4 DEF GrantsDieWithServe, Serves, trustVars
<1> QED BY <1>5, <1>6, <1>7, <1>8, <1>9

LEMMA HomeIsDir == ASSUME TypeOK PROVE Home \in Dirs /\ proc["reader"] \in Process
BY ThoseAre DEF TypeOK, Home, Process

LEMMA ReaderReadsConfig ==
  ASSUME IInv, ReadConfig("reader")
  PROVE  IInv'
<1> DEFINE q == IF config.valid THEN [proc["reader"] EXCEPT !.pc = "account", !.read = config.keys]
                                ELSE [proc["reader"] EXCEPT !.pc = "idle"]
<1> USE DEF IInv
<1>1. /\ Home \in Dirs /\ proc["reader"] \in Process /\ config.keys \in Config
      /\ proc["reader"].pc = "config"
  BY HomeIsDir DEF TypeOK, ReadConfig
<1>2. /\ UNCHANGED <<paired, files, trustVars, bounds>> /\ proc' = [proc EXCEPT !["reader"] = q]
      /\ began' = IF config.valid THEN InForce(Home) ELSE began
  BY DEF ReadConfig, Fail, Goto, At
<1>3. q \in Process /\ q.dir = proc["reader"].dir /\ q.pc \in {"account", "idle"}
  BY <1>1 DEF Process, Steps
<1>4. began' \in Config
  BY <1>1, <1>2, InForceIsConfig DEF TypeOK
<1>5. q.pc = "account" /\ account[Home] = {} => began' = q.read
  BY <1>1, <1>2 DEF Process, InForce
<1> HIDE DEF q
<1> QED BY <1>1, <1>2, <1>3, <1>4, <1>5, ReaderMoves

LEMMA ReaderReadsAccount ==
  ASSUME IInv, ReadAccount("reader")
  PROVE  IInv'
<1> DEFINE s == Merged(proc["reader"].read, account[proc["reader"].dir])
           q == [proc["reader"] EXCEPT !.pc = "idle", !.read = Zero, !.cfg = s]
<1> USE DEF IInv
<1>1. proc["reader"] \in Process /\ proc["reader"].pc = "account"
  BY HomeIsDir DEF ReadAccount
<1>2. /\ UNCHANGED <<paired, files, trustVars, bounds>> /\ proc' = [proc EXCEPT !["reader"] = q]
      /\ began' = Zero
  BY DEF ReadAccount, Loaded
<1>3. s \in Config
  BY <1>1, Chosen DEF Process, Merged, TypeOK, Files
<1>4. q \in Process /\ q.dir = proc["reader"].dir /\ q.pc = "idle"
  BY <1>1, <1>3, ZeroIsConfig DEF Process, Steps
<1> HIDE DEF q, s
<1> QED BY <1>1, <1>2, <1>4, ZeroIsConfig, ReaderMoves

LEMMA Checks ==
  ASSUME IInv, Check
  PROVE  IInv'
<1> DEFINE q == [proc["reader"] EXCEPT !.pc = "config"]
<1> USE DEF IInv
<1>1. proc["reader"] \in Process /\ Up
  BY HomeIsDir DEF Check
<1>2. /\ UNCHANGED <<paired, began, files, trustVars, bounds>>
      /\ proc' = [proc EXCEPT !["reader"] = q]
  BY DEF Check, Goto, At
<1>3. q \in Process /\ q.dir = proc["reader"].dir /\ q.pc = "config"
  BY <1>1 DEF Process, Steps
<1> HIDE DEF q
<1> QED BY <1>1, <1>2, <1>3, ReaderMoves DEF TypeOK

LEMMA Clears ==
  ASSUME IInv, ClearAtStartup
  PROVE  IInv'
<1> USE DEF IInv
<1>1. /\ Procs = Editors \cup {"serve", "setup", "reader"}
      /\ "serve" \notin Editors /\ "setup" \notin Editors /\ "reader" \notin Editors
      /\ Home \in Dirs /\ proc["serve"].pc = "clear" /\ proc["serve"] \in Process
  BY ThoseAre, HomeIsDir DEF ClearAtStartup, TypeOK
<1>2. /\ UNCHANGED <<paired, began, files, bounds>> /\ since' = {} /\ crossed' = FALSE
      /\ grants' = [grants EXCEPT ![Home] = {}]
  BY DEF ClearAtStartup, Cleared
<1> DEFINE q(p) == IF p = "serve" THEN [proc[p] EXCEPT !.pc = "wire"]
                   ELSE IF p = "reader" THEN [Idle EXCEPT !.pc = "config", !.dir = Home]
                   ELSE IF proc[p].pc \in Holding THEN [proc[p] EXCEPT !.then = "done"]
                   ELSE proc[p]
<1>3. proc' = [p \in Procs |-> q(p)]
  BY DEF ClearAtStartup, Holding
<1>4. \A p \in Procs : q(p) \in Process
  <2> TAKE p \in Procs
  <2>1. proc[p] \in Process
    BY DEF TypeOK
  <2>2. [proc[p] EXCEPT !.pc = "wire"] \in Process /\ [proc[p] EXCEPT !.then = "done"] \in Process
    BY <2>1 DEF Process, Steps
  <2>3. [Idle EXCEPT !.pc = "config", !.dir = Home] \in Process
    BY <1>1, IdleIsProcess DEF Process, Steps
  <2> QED BY <2>1, <2>2, <2>3
<1>5. proc'["serve"] = [proc["serve"] EXCEPT !.pc = "wire"]
      /\ proc'["serve"].pc = "wire" /\ Home' = Home
  BY <1>1, <1>3 DEF Process, Home
<1>6. proc'["reader"].pc = "config" /\ proc'["reader"].dir = Home
  BY <1>1, <1>3, IdleIsProcess DEF Process
<1>7. \A p \in Editors \cup {"setup"} :
        /\ proc'[p].pc = proc[p].pc /\ proc'[p].page = proc[p].page /\ proc'[p].dir = proc[p].dir
        /\ proc'[p].jid = proc[p].jid /\ proc'[p].do = proc[p].do
        /\ proc'[p].then = IF proc[p].pc \in Holding THEN "done" ELSE proc[p].then
  BY <1>1, <1>3 DEF TypeOK, Process
<1>8. TypeOK'
  <2>1. proc' \in [Procs -> Process]
    BY <1>3, <1>4
  <2>2. \A e \in Editors : proc'[e].pc # "idle" /\ proc'[e].page => Up'
    BY <1>1, <1>7 DEF TypeOK, Up
  <2>3. grants' \in [Dirs -> SUBSET Jids]
    BY <1>2 DEF TypeOK
  <2> QED BY <1>2, <1>5, <2>1, <2>2, <2>3 DEF TypeOK, files, bounds
<1>9. AskInv'
  BY <1>7 DEF AskInv, Asked
<1>10. BlankInv'
  BY <1>1, <1>2, <1>5, <1>6, <1>7 DEF BlankInv, files
<1>11. ReaderInv' /\ ReadInv'
  BY <1>5, <1>6 DEF ReaderInv, ReadInv
<1>12. WriteInv'
  BY <1>7 DEF WriteInv
<1>13. GrantsDieWithServe'
  BY <1>1, <1>2, <1>5 DEF GrantsDieWithServe, TypeOK
<1> QED BY <1>8, <1>9, <1>10, <1>11, <1>12, <1>13

LEMMA Wires ==
  ASSUME IInv, Wire
  PROVE  IInv'
<1> DEFINE q == [proc["serve"] EXCEPT !.pc = "up"]
<1> USE DEF IInv
<1>1. /\ Procs = Editors \cup {"serve", "setup", "reader"} /\ "serve" \notin Editors
      /\ proc["serve"] \in Process /\ Serves
  BY ThoseAre DEF Wire, TypeOK, Serves
<1>2. UNCHANGED <<paired, began, files, trustVars, bounds>> /\ proc' = [proc EXCEPT !["serve"] = q]
  BY DEF Wire, Goto, At
<1>3. q \in Process /\ q.pc = "up" /\ q.dir = Home
  BY <1>1 DEF Process, Steps, Home
<1>4. proc'["serve"] = q /\ \A r \in Procs \ {"serve"} : proc'[r] = proc[r]
  BY <1>1, <1>2, Others
<1> HIDE DEF q
<1>5. Home' = Home /\ Up' /\ Serves' /\ proc' \in [Procs -> Process]
  BY <1>1, <1>2, <1>3, <1>4 DEF Home, Up, Serves, TypeOK
<1>6. TypeOK'
  BY <1>2, <1>5 DEF TypeOK, Up, files, trustVars, bounds
<1>7. AskInv' /\ BlankInv'
  BY <1>1, <1>2, <1>3, <1>4, ThoseAre DEF AskInv, BlankInv, files
<1>8. ReaderInv' /\ ReadInv'
  BY <1>1, <1>2, <1>4, <1>5 DEF ReaderInv, ReadInv, files
<1>9. WriteInv'
  BY <1>1, <1>2, <1>4, <1>5 DEF WriteInv, trustVars
<1>10. GrantsDieWithServe'
  BY <1>1, <1>2, <1>5 DEF GrantsDieWithServe, Serves, trustVars
<1> QED BY <1>6, <1>7, <1>8, <1>9, <1>10

LEMMA Stops ==
  ASSUME IInv, Stop
  PROVE  IInv'
<1> USE DEF IInv
<1>1. UNCHANGED <<paired, files, trustVars, edits>> /\ began' = Zero /\ troubles' \in 0..MaxTroubles
  BY Bounds DEF Stop, Trouble
<1>2. proc' = [p \in Procs |-> IF p \in {"serve", "reader"} \/ proc[p].page THEN Idle ELSE proc[p]]
  BY DEF Stop, Stopped
<1>3. proc'["serve"] = Idle /\ proc'["reader"] = Idle
  BY <1>2, ThoseAre
<1>4. \A p \in Procs : proc'[p] = Idle \/ (proc'[p] = proc[p] /\ ~proc[p].page)
  BY <1>2
<1>5. TypeOK'
  <2>1. proc' \in [Procs -> Process]
    BY <1>2, IdleIsProcess DEF TypeOK
  <2>2. \A e \in Editors : proc'[e].pc # "idle" /\ proc'[e].page => Up'
    BY <1>4, IdleIsAsked, ThoseAre
  <2> QED BY <1>1, <1>3, <2>1, <2>2, ZeroIsConfig, IdleIsAsked DEF TypeOK, files, trustVars
<1>6. AskInv' /\ BlankInv'
  BY <1>1, <1>4, IdleIsAsked, ThoseAre DEF AskInv, BlankInv, files
<1>7. ReaderInv' /\ ReadInv' /\ WriteInv' /\ GrantsDieWithServe'
  BY <1>3, IdleIsAsked DEF ReaderInv, ReadInv, WriteInv, GrantsDieWithServe, Serves
<1> QED BY <1>5, <1>6, <1>7

LEMMA EditsByHand ==
  ASSUME IInv, EditByHand
  PROVE  IInv'
<1> USE DEF IInv
<1>1. /\ UNCHANGED <<paired, began, account, trustVars, proc, edits>> /\ troubles' \in 0..MaxTroubles
      /\ config' \in [keys : Config, valid : BOOLEAN]
  BY Bounds DEF EditByHand, Trouble, TypeOK
<1>2. TypeOK'
  BY <1>1 DEF TypeOK, Up, trustVars
<1> QED BY <1>1, <1>2 DEF AskInv, BlankInv, ReaderInv, ReadInv, WriteInv, GrantsDieWithServe,
                          Serves, Home, trustVars

----------------------------------------------------------------------------
(* The invariant, and what follows from it.                                *)

LEMMA InvInit == Init => IInv
<1> SUFFICES ASSUME Init PROVE IInv
  OBVIOUS
<1>1. \A p \in Procs : proc[p] = Idle
  BY DEF Init
<1>2. {"serve", "setup", "reader"} \subseteq Procs /\ Editors \subseteq Procs
  BY ThoseAre
<1>3. TypeOK
  <2>1. proc \in [Procs -> Process]
    BY IdleIsProcess DEF Init
  <2>2. config \in [keys : Config, valid : BOOLEAN] /\ began \in Config
    BY SettingsAssumption, ZeroIsConfig DEF Init
  <2>3. edits \in 0..MaxEdits /\ troubles \in 0..MaxTroubles
    BY ThoseAre DEF Init
  <2> QED BY <1>1, <1>2, <2>1, <2>2, <2>3, IdleIsAsked DEF TypeOK, Init
<1> QED BY <1>1, <1>2, <1>3, IdleIsAsked
        DEF IInv, AskInv, BlankInv, ReaderInv, ReadInv, WriteInv, GrantsDieWithServe, Serves

LEMMA InvNext == IInv /\ [Next]_vars => IInv'
<1> SUFFICES ASSUME IInv, [Next]_vars PROVE IInv'
  OBVIOUS
<1>1. ASSUME NEW p \in Procs, Loading(p) PROVE IInv'
  BY <1>1, LoadsConfig, LoadsAccount, ReaderReadsConfig, ReaderReadsAccount DEF Loading
<1>2. ASSUME NEW p \in Procs \ {"reader"}, Preparing(p) PROVE IInv'
  BY <1>2, Splits, Copies, Blanks DEF Preparing
<1>3. ASSUME NEW p \in Editors \cup {"setup"}, Edit(p) PROVE IInv'
  BY <1>3, Edits
<1>4. ASSUME NEW e \in Editors, Editing(e) PROVE IInv'
  BY <1>4, Commands, Handles, ReadsGrants, TruncatesGrants, WritesGrants DEF Editing
<1>5. CASE SettingUp
  BY <1>5, Setups, SetupPairsOne, SetupAttachesOne DEF SettingUp
<1>6. CASE Serving
  BY <1>6, Starts, Clears, Wires, Checks, Stops DEF Serving
<1>7. CASE Interrupt \/ EditByHand
  BY <1>7, Interrupts, EditsByHand
<1>8. CASE UNCHANGED vars
  BY <1>8 DEF IInv, TypeOK, AskInv, Asked, BlankInv, ReaderInv, ReadInv, WriteInv, GrantsDieWithServe,
              Serves, Home, Up, vars, files, trustVars, bounds
<1> QED BY <1>1, <1>2, <1>3, <1>4, <1>5, <1>6, <1>7, <1>8 DEF Next

LEMMA Invariance == Spec => []IInv
BY InvInit, InvNext, PTL DEF Spec

(* Types, and: nothing serves a request while serve is not up, and every   *)
(* file written is a configuration.                                        *)
THEOREM Typed == Spec => []TypeOK
<1>1. IInv => TypeOK
  BY DEF IInv
<1> QED BY <1>1, Invariance, PTL

(* A grant that a running serve honours was given since it cleared the     *)
(* file, unless a command read the file before that and wrote it after     *)
(* (sessiontrust.go:10-13).                                                *)
THEOREM GrantsDie == Spec => []GrantsDieWithServe
<1>1. IInv => GrantsDieWithServe
  BY DEF IInv
<1> QED BY <1>1, Invariance, PTL

(* A stop ends serve.                                                      *)
LEMMA StopEnds == Stop => proc'["serve"].pc = "idle"
<1>1. Stop => proc'["serve"] = Idle
  BY ThoseAre DEF Stop, Stopped
<1> QED BY <1>1, IdleIsAsked

(* The reader moves by loading, serve by loading and preparing, both with  *)
(* the steps of serve.                                                     *)
LEMMA MovesByItself ==
  ASSUME IInv, Next, NEW r \in {"reader", "serve"}, proc'[r] # proc[r]
  PROVE  Loading(r) \/ (r = "serve" /\ Preparing(r)) \/ Serving
<1> USE DEF IInv
<1>1. r \in Procs /\ Editors \cup {"setup"} \subseteq Procs \ {r}
  BY ThoseAre
<1>2. \A p \in Procs \ {r} : \A q : proc' # [proc EXCEPT ![p] = q]
  BY <1>1, Others DEF TypeOK
<1>3. ASSUME NEW p \in Procs \ {r}, NEW s, NEW then PROVE ~WriteFirst(p, s, then)
  BY <1>2 DEF WriteFirst
<1>4. ASSUME NEW p \in Procs \ {r}, NEW pc PROVE ~Goto(p, pc)
  BY <1>2 DEF Goto
<1>5. ASSUME NEW p \in Procs \ {r} PROVE ~Loading(p)
  <2>1. proc' # [proc EXCEPT ![p].pc = "account", ![p].read = config.keys]
    BY <1>2, <1>5
  <2>2. ~ReadConfig(p)
    BY <1>4, <1>5, <2>1 DEF ReadConfig, Fail
  <2>3. \A c : proc' # [proc EXCEPT ![p].pc = Loaded(p), ![p].read = Zero, ![p].cfg = c]
    BY <1>2, <1>5
  <2>4. ~ReadAccount(p)
    BY <2>3, Zenon DEF ReadAccount
  <2> QED BY <2>2, <2>4 DEF Loading
<1>6. ASSUME NEW p \in Procs \ {r} PROVE ~Preparing(p)
  <2>1. ~Copy(p) /\ ~WriteThen(p)
    BY <1>3, <1>4, <1>6 DEF Copy, WriteThen
  <2>2. proc' # [proc EXCEPT ![p].pc = "copy", ![p].read = config.keys]
    BY <1>2, <1>6
  <2>3. ~Split(p)
    BY <1>4, <1>6, <2>2 DEF Split, Fail
  <2> QED BY <2>1, <2>3 DEF Preparing
<1>7. ASSUME NEW p \in Editors \cup {"setup"} PROVE ~Edit(p)
  BY <1>1, <1>3, <1>4 DEF Edit
<1>8. ASSUME NEW e \in Editors PROVE ~Editing(e)
  <2>1. e \in Procs \ {r}
    BY <1>1
  <2>2. ~Command(e) /\ ~Handle(e)
    BY <1>2, <2>1, Zenon DEF Command, Handle
  <2>3. ~WriteGrants(e) /\ ~TruncateGrants(e)
    BY <1>4, <2>1 DEF WriteGrants, TruncateGrants
  <2>4. ~ReadGrants(e)
    BY <1>1, <1>4, <2>1 DEF ReadGrants, TypeOK
  <2> QED BY <2>2, <2>3, <2>4 DEF Editing
<1>9. ~SettingUp
  <2>1. ~Setup
    BY <1>1 DEF Setup, TypeOK
  <2>2. ~SetupPairs
    BY <1>1 DEF SetupPairs, TypeOK
  <2>3. ~SetupAttaches
    BY <1>1 DEF SetupAttaches, TypeOK
  <2> QED BY <2>1, <2>2, <2>3 DEF SettingUp
<1>10. ~Interrupt /\ ~EditByHand
  BY <1>1, <1>2 DEF Interrupt, EditByHand
<1> QED BY <1>5, <1>6, <1>7, <1>8, <1>9, <1>10 DEF Next

(* A serve that is about to clear goes on by clearing, or stops.           *)
LEMMA StartsByClearing ==
  ASSUME IInv, Next, proc["serve"].pc = "clear", proc'["serve"].pc \in {"wire", "up"}
  PROVE  ClearAtStartup
<1>1. Loading("serve") \/ Preparing("serve") \/ Serving
  BY MovesByItself
<1>2. ~Loading("serve") /\ ~Preparing("serve") /\ ~Start /\ ~Wire /\ ~Check
  BY DEF Loading, ReadConfig, ReadAccount, Preparing, Split, Copy, WriteThen, Start, Wire, Check, Up
<1>3. ~Stop
  BY StopEnds
<1> QED BY <1>1, <1>2, <1>3 DEF Serving

(* The reader has its answer only by reading account.json.                 *)
LEMMA LoadsByReader ==
  ASSUME IInv, Next, proc["reader"].pc = "account", proc'["reader"].pc = "idle",
         proc'["serve"].pc # "idle"
  PROVE  ReadAccount("reader")
<1>1. Loading("reader") \/ Serving
  BY MovesByItself
<1>2. ~ReadConfig("reader") /\ ~Check
  BY DEF ReadConfig, Check
<1>3. ~Stop /\ ~ClearAtStartup
  BY StopEnds DEF ClearAtStartup, IInv, TypeOK
<1>4. ~Start /\ ~Wire
  BY ThoseAre DEF Start, Wire, Goto, IInv, TypeOK
<1> QED BY <1>1, <1>2, <1>3, <1>4 DEF Serving, Loading

(* Nothing else gives it another.                                          *)
LEMMA KeepsItsAnswer ==
  ASSUME IInv, Next, proc["serve"].pc # "clear", proc'["serve"].pc # "idle",
         ~(proc["reader"].pc = "account" /\ proc'["reader"].pc = "idle")
  PROVE  proc'["reader"].cfg = proc["reader"].cfg
<1> SUFFICES ASSUME proc'["reader"] # proc["reader"]
             PROVE  proc'["reader"].cfg = proc["reader"].cfg
  OBVIOUS
<1>1. Loading("reader") \/ Serving
  BY MovesByItself
<1>2. /\ proc["reader"] \in Process
      /\ \A q : proc' = [proc EXCEPT !["reader"] = q] => proc'["reader"] = q
  BY HomeIsDir, ThoseAre, Others DEF IInv
<1>3. CASE ReadConfig("reader") \/ Check
  <2>1. \E q \in Process : proc' = [proc EXCEPT !["reader"] = q] /\ q.cfg = proc["reader"].cfg
    <3> DEFINE q == IF Check THEN [proc["reader"] EXCEPT !.pc = "config"]
                    ELSE IF config.valid THEN [proc["reader"] EXCEPT !.pc = "account", !.read = config.keys]
                    ELSE [proc["reader"] EXCEPT !.pc = "idle"]
    <3>1. proc' = [proc EXCEPT !["reader"] = q]
      BY <1>3 DEF ReadConfig, Check, Fail, Goto, At
    <3>2. q \in Process /\ q.cfg = proc["reader"].cfg
      BY <1>2 DEF Process, Steps, IInv, TypeOK
    <3> QED BY <3>1, <3>2
  <2> QED BY <1>2, <2>1
<1>4. ~ReadAccount("reader")
  <2>1. ReadAccount("reader") => proc["reader"].pc = "account" /\ proc'["reader"].pc = "idle"
    <3> DEFINE q == [proc["reader"] EXCEPT !.pc = "idle", !.read = Zero,
                                         !.cfg = Merged(proc["reader"].read, account[proc["reader"].dir])]
    <3>1. ReadAccount("reader") => proc["reader"].pc = "account" /\ proc' = [proc EXCEPT !["reader"] = q]
      BY DEF ReadAccount, Loaded
    <3>2. q.pc = "idle"
      BY <1>2 DEF Process
    <3> HIDE DEF q
    <3> QED BY <1>2, <3>1, <3>2
  <2> QED BY <2>1
<1>5. ~Stop /\ ~ClearAtStartup
  BY StopEnds DEF ClearAtStartup
<1>6. ~Start /\ ~Wire
  BY ThoseAre DEF Start, Wire, Goto, IInv, TypeOK
<1> QED BY <1>1, <1>3, <1>4, <1>5, <1>6 DEF Serving, Loading

(* Only the second write of SaveFor changes config.json's keys.            *)
LEMMA KeysMove ==
  ASSUME IInv, Next, config'.keys # config.keys
  PROVE  \E p \in Procs \ {"reader"} : WriteThen(p)
<1>1. config' # config
  OBVIOUS
<1>2. ASSUME NEW p PROVE ~Loading(p) /\ ~Split(p) /\ ~Copy(p) /\ ~Edit(p) /\ ~Editing(p)
  BY <1>1 DEF Loading, ReadConfig, ReadAccount, Split, Copy, Edit, Editing, Command, Handle, ReadGrants,
              TruncateGrants, WriteGrants, WriteFirst, files
<1>3. ~SettingUp /\ ~Serving /\ ~Interrupt
  BY <1>1 DEF SettingUp, Setup, SetupPairs, SetupAttaches, Serving, Start, ClearAtStartup, Wire, Check,
              Stop, Interrupt, files
<1>4. ~EditByHand
  BY DEF EditByHand, IInv, TypeOK
<1> QED BY <1>2, <1>3, <1>4 DEF Next, Preparing

(* What a running serve answers from is none at its start; it changes only *)
(* when a load completes, to what was in force when the reader read        *)
(* config.json or is in force when it has read account.json, whatever      *)
(* SaveFor has written of the two by then; a load that fails leaves what   *)
(* there was (config.go:119-199, 312-351).                                 *)
THEOREM Answered == Spec => AnswersAreInForce
<1>1. ASSUME IInv, Next, proc["reader"].pc = "account", proc'["reader"].pc = "idle",
             proc'["serve"].pc # "idle"
      PROVE  proc'["reader"].cfg \in {began, InForce(Home)}
  <2>1. ReadAccount("reader")
    BY <1>1, LoadsByReader
  <2>2. proc["reader"] \in Process /\ Home \in Dirs /\ proc["reader"].dir = Home
    BY <1>1, HomeIsDir DEF IInv, TypeOK, ReaderInv, Serves
  <2>3. proc'["reader"].cfg = Merged(proc["reader"].read, account[Home])
    BY <1>1, <2>1, <2>2, ThoseAre DEF ReadAccount, IInv, TypeOK, Process
  <2>4. account[Home] = {} => began = proc["reader"].read
    BY <1>1 DEF IInv, ReadInv
  <2>5. account[Home] # {} => Merged(proc["reader"].read, account[Home]) = InForce(Home)
    BY DEF Merged, InForce
  <2>6. account[Home] = {} => Merged(proc["reader"].read, account[Home]) = proc["reader"].read
    BY DEF Merged
  <2> QED BY <2>3, <2>4, <2>5, <2>6
<1>2. ASSUME IInv, Next, proc["serve"].pc = "clear", proc'["serve"].pc \in {"wire", "up"}
      PROVE  proc'["reader"].cfg = Zero
  <2>1. ClearAtStartup
    BY <1>2, StartsByClearing
  <2>2. proc'["reader"] = [Idle EXCEPT !.pc = "config", !.dir = Home]
    BY <2>1, ThoseAre DEF ClearAtStartup
  <2> QED BY <2>2, IdleIsProcess DEF Idle
<1>3. IInv /\ Next =>
        (proc'["serve"].pc \in {"wire", "up"} =>
           /\ proc["serve"].pc = "clear" => proc'["reader"].cfg = Zero
           /\ proc["reader"].pc = "account" /\ proc'["reader"].pc = "idle" =>
                proc'["reader"].cfg \in {began, InForce(Home)}
           /\ proc["serve"].pc # "clear" /\ ~(proc["reader"].pc = "account" /\ proc'["reader"].pc = "idle") =>
                proc'["reader"].cfg = proc["reader"].cfg)
  BY <1>1, <1>2, KeepsItsAnswer
<1>4. IInv /\ [Next]_vars =>
        [LET loaded == proc["reader"].pc = "account" /\ proc'["reader"].pc = "idle"
             starts == proc["serve"].pc = "clear"
         IN  proc'["serve"].pc \in {"wire", "up"} =>
               /\ starts => proc'["reader"].cfg = Zero
               /\ loaded => proc'["reader"].cfg \in {began, InForce(Home)}
               /\ ~starts /\ ~loaded => proc'["reader"].cfg = proc["reader"].cfg]_vars
  BY <1>3
<1> QED BY <1>4, Invariance, PTL DEF Spec, AnswersAreInForce

(* What is in force for the paired account changes only by the write of    *)
(* its account.json, not by a half-done save or split, a stop in between   *)
(* or a human's edit (config.go:183-199).                                  *)
THEOREM SettingsMove == Spec => SettingsMoveByTheirFile
<1>1. ASSUME IInv, Next, InForce("own")' # InForce("own"), account'["own"] = account["own"]
      PROVE  \E p \in Procs : proc[p].pc = "blank" /\ proc[p].dir = "_pending"
  <2>1. account["own"] = {} /\ config'.keys # config.keys
    BY <1>1 DEF InForce
  <2>2. PICK p \in Procs \ {"reader"} : WriteThen(p)
    BY <1>1, <2>1, KeysMove
  <2>3. proc[p].pc = "blank" /\ proc[p].dir \in Dirs /\ proc[p].dir # "own"
    BY <1>1, <2>1, <2>2 DEF WriteThen, IInv, BlankInv, TypeOK, Process
  <2> QED BY <2>3 DEF Dirs
<1>2. IInv /\ [Next]_vars =>
        [InForce("own")' # InForce("own") =>
           \/ account'["own"] # account["own"]
           \/ \E p \in Procs : proc[p].pc = "blank" /\ proc[p].dir = "_pending"]_vars
  BY <1>1
<1> QED BY <1>2, Invariance, PTL DEF Spec, SettingsMoveByTheirFile
=============================================================================
