------------------------------ MODULE Settings ------------------------------
(***************************************************************************)
(* Who may be written to without asking, and which chats agents may read:  *)
(* internal/config, internal/sessiontrust, and those who edit and read     *)
(* them: the trust and scope commands, setup, the dashboard's handlers and *)
(* the readers of a running serve.                                         *)
(*                                                                         *)
(* An account's settings are in its account.json.  Until SplitLegacy has   *)
(* moved them there they are in config.json, beside the machine's own,     *)
(* which are not modelled.  Every process reads and writes both files, one *)
(* after the other and under no lock; a rename replaces a file at once,    *)
(* a human editing config.json makes it unreadable for a while.  An        *)
(* install that is not paired uses the directory of no account.            *)
(***************************************************************************)
EXTENDS Integers

CONSTANTS
  Jids,        \* chats and contacts
  Editors,     \* commands and dashboard requests that may overlap
  Legacy,      \* the account's keys config.json holds at first
  MaxEdits,    \* bound: commands and requests
  MaxTroubles  \* bound: processes that stop, edits of config.json by hand

Modes == {"", "all", "allowlist"}
Config == [trust : SUBSET Jids, mode : Modes, list : SUBSET Jids]
Zero == [trust |-> {}, mode |-> "", list |-> {}]

ASSUME SettingsAssumption ==
  /\ Legacy \in Config
  /\ {"serve", "setup", "reader"} \cap Editors = {}
  /\ {MaxEdits, MaxTroubles} \subseteq Nat

Dirs == {"_pending", "own"}
Procs == Editors \cup {"serve", "setup", "reader"}

CommandDeeds == {"trust", "untrust", "allow", "deny", "all", "grant", "revoke"}
HandlerDeeds == {"trust", "untrust", "allow", "deny", "all", "only"}
Answers == {"every chat", "only your self-chat", "nothing"}
Deeds == CommandDeeds \cup HandlerDeeds \cup Answers

VARIABLES
  paired,    \* does session.db hold a device?
  config,    \* config.json: the account keys left in it, and whether it parses
  account,   \* the account.json of each directory: none, or one
  grants,    \* the session-trust file of each directory
  proc,      \* the processes, and the reader and the handlers inside serve
  since,     \* history: the grants given since a serve cleared them
  crossed,   \* history: has a command that read the grants before written them after?
  began,     \* history: what was in force when the reader read config.json
  edits, troubles

files == <<config, account>>
trustVars == <<grants, since, crossed>>
bounds == <<edits, troubles>>
vars == <<paired, files, trustVars, proc, began, bounds>>

Up == proc["serve"].pc = "up"
Home == proc["serve"].dir

(* What holds for the account of d: its own file, or what config.json has  *)
(* of before.                                                              *)
InForce(d) == IF account[d] = {} THEN config.keys ELSE CHOOSE s \in account[d] : TRUE

(* normalizeScope: a list without a mode is one that counts.               *)
ScopeActive(s) == s.mode = "allowlist" \/ (s.mode = "" /\ s.list # {})

(* IsReadable                                                              *)
Readable(s) == IF ScopeActive(s) THEN s.list ELSE Jids

Idle == [pc |-> "idle", page |-> FALSE, dir |-> "_pending", do |-> "trust", jid |-> "",
         cfg |-> Zero, read |-> Zero, had |-> {}, then |-> "idle"]

Steps == {"idle", "split", "copy", "blank", "pair", "config", "account", "edit", "attach",
          "grants", "truncate", "write", "clear", "wire", "up", "done"}

Process == [pc : Steps, page : BOOLEAN, dir : Dirs, do : Deeds, jid : Jids \cup {""},
            cfg : Config, read : Config, had : SUBSET Jids,
            then : {"idle", "config", "grants", "pair", "attach", "done"}]

(* Nothing serves a request while serve is not up, and what is written is  *)
(* a configuration.                                                        *)
TypeOK ==
  /\ paired \in BOOLEAN
  /\ config \in [keys : Config, valid : BOOLEAN]
  /\ account \in [Dirs -> {{}} \cup {{s} : s \in Config}]
  /\ grants \in [Dirs -> SUBSET Jids]
  /\ proc \in [Procs -> Process]
  /\ \A e \in Editors : proc[e].pc # "idle" /\ proc[e].page => Up
  /\ proc["reader"].pc # "idle" => proc["serve"].pc \in {"wire", "up"}
  /\ since \subseteq Jids /\ crossed \in BOOLEAN /\ began \in Config
  /\ edits \in 0..MaxEdits /\ troubles \in 0..MaxTroubles

Init ==
  /\ paired \in BOOLEAN
  /\ config = [keys |-> Legacy, valid |-> TRUE]
  /\ account = [d \in Dirs |-> {}]
  /\ grants = [d \in Dirs |-> {}]
  /\ proc = [p \in Procs |-> Idle]
  /\ since = {} /\ crossed = FALSE /\ began = Zero
  /\ edits = 0 /\ troubles = 0

----------------------------------------------------------------------------
(* The files.                                                              *)

(* A process that ends leaves nothing; the reader keeps what it read last. *)
At(q, p, pc) == IF pc = "idle" /\ p # "reader" THEN Idle ELSE [q EXCEPT !.pc = pc]
Goto(p, pc) == proc' = [proc EXCEPT ![p] = At(@, p, pc)]

(* An error is reported; the reader ignores it.                            *)
Fail(p) == Goto(p, "idle")

(* accounts.For                                                            *)
For == IF paired THEN "own" ELSE "_pending"

(* Mutant of WriteFirst: config.json is emptied before account.json is     *)
(* written.                                                                *)
BlankFirst(p, s, then) ==
  /\ config' = [keys |-> Zero, valid |-> TRUE]
  /\ proc' = [proc EXCEPT ![p].pc = "blank", ![p].then = then]
  /\ UNCHANGED account

(* SaveFor: account.json takes the account's keys...                       *)
WriteFirst(p, s, then) ==
  /\ account' = [account EXCEPT ![proc[p].dir] = {s}]
  /\ proc' = [proc EXCEPT ![p].pc = "blank", ![p].then = then]
  /\ UNCHANGED config

(* ... then config.json is written without them.                           *)
WriteThen(p) ==
  /\ proc[p].pc = "blank"
  /\ config' = [keys |-> Zero, valid |-> TRUE]
  /\ Goto(p, proc[p].then)
  /\ UNCHANGED <<paired, began, account, trustVars, bounds>>

(* LoadFor reads config.json...                                            *)
ReadConfig(p) ==
  /\ proc[p].pc = "config"
  /\ IF config.valid
       THEN proc' = [proc EXCEPT ![p].pc = "account", ![p].read = config.keys]
       ELSE Fail(p)
  /\ began' = IF p = "reader" /\ config.valid THEN InForce(Home) ELSE began
  /\ UNCHANGED <<paired, files, trustVars, bounds>>

(* Mutant of Merged: a list the account left empty is taken from           *)
(* config.json.                                                            *)
MergedKey(c, a) ==
  IF a = {} THEN c
  ELSE LET s == CHOOSE t \in a : TRUE IN [s EXCEPT !.list = IF @ = {} THEN c.list ELSE @]

(* ... and once account.json is written, nothing of config.json counts.    *)
Merged(c, a) == IF a = {} THEN c ELSE CHOOSE s \in a : TRUE

Loaded(p) ==
  CASE p = "reader" -> "idle"
    [] p = "serve" -> "clear"
    [] OTHER -> "edit"

(* An account.json that does not parse fails the load as a config.json     *)
(* does (ReadConfig); edits by hand are those of config.json here.         *)
ReadAccount(p) ==
  /\ proc[p].pc = "account"
  /\ LET s == Merged(proc[p].read, account[proc[p].dir]) IN
       proc' = [proc EXCEPT ![p].pc = Loaded(p), ![p].read = Zero, ![p].cfg = IF p = "serve" THEN Zero ELSE s]
  /\ began' = IF p = "reader" THEN Zero ELSE began
  /\ UNCHANGED <<paired, files, trustVars, bounds>>

Prepared(p) ==
  CASE p = "setup" -> proc[p].then
    [] proc[p].do \in {"grant", "revoke"} /\ p \in Editors -> "grants"
    [] OTHER -> "config"

(* prepareAccount, SplitLegacy's conditions: is there anything to move?    *)
Split(p) ==
  LET d == proc[p].dir IN
    /\ proc[p].pc = "split"
    /\ IF d = "_pending" \/ account[d] # {} \/ (config.valid /\ config.keys = Zero)
         THEN Goto(p, Prepared(p))
       ELSE IF config.valid
         THEN proc' = [proc EXCEPT ![p].pc = "copy", ![p].read = config.keys]
       ELSE Fail(p)
    /\ UNCHANGED <<paired, began, files, trustVars, bounds>>

(* SplitLegacy's SaveFor.                                                  *)
Copy(p) ==
  /\ proc[p].pc = "copy"
  /\ WriteFirst(p, proc[p].read, Prepared(p))
  /\ UNCHANGED <<paired, began, trustVars, bounds>>

----------------------------------------------------------------------------
(* Commands and the dashboard.                                             *)

(* trust and scope: the account is prepared first.                         *)
Command(e) ==
  /\ edits < MaxEdits /\ edits' = edits + 1
  /\ proc[e].pc = "idle"
  /\ \E do \in CommandDeeds, j \in Jids :
       proc' = [proc EXCEPT ![e] = [Idle EXCEPT !.pc = "split", !.dir = For, !.do = do, !.jid = j]]
  /\ UNCHANGED <<paired, began, files, trustVars, troubles>>

(* handleTrustAdd, handleTrustRemove, handleScopeAdd, handleScopeRemove    *)
Handle(e) ==
  /\ edits < MaxEdits /\ edits' = edits + 1
  /\ Up
  /\ proc[e].pc = "idle"
  /\ \E do \in HandlerDeeds, j \in Jids :
       proc' = [proc EXCEPT ![e] = [Idle EXCEPT !.pc = "config", !.page = TRUE, !.dir = Home,
                                                !.do = do, !.jid = j]]
  /\ UNCHANGED <<paired, began, files, trustVars, troubles>>

(* What each edit makes of the settings it loaded.                         *)
Edited(s, do, j) ==
  CASE do = "trust" -> [s EXCEPT !.trust = @ \cup {j}]
    [] do = "untrust" -> [s EXCEPT !.trust = @ \ {j}]
    [] do = "allow" -> [s EXCEPT !.mode = "allowlist", !.list = @ \cup {j}]
    [] do = "deny" -> [s EXCEPT !.list = @ \ {j}]
    [] do = "all" -> [s EXCEPT !.mode = "all"]
    [] do = "only" -> [s EXCEPT !.mode = "allowlist"]
    [] do = "every chat" -> [s EXCEPT !.mode = "all", !.list = {}]
    [] do = "only your self-chat" -> [s EXCEPT !.mode = "allowlist", !.list = {j}]
    [] do = "nothing" -> [s EXCEPT !.mode = "allowlist", !.list = {}]

(* trust edits that change nothing are not written, except a removal on    *)
(* the dashboard.                                                          *)
Idempotent(p) ==
  \/ proc[p].do = "trust" /\ proc[p].jid \in proc[p].cfg.trust
  \/ proc[p].do = "untrust" /\ proc[p].jid \notin proc[p].cfg.trust /\ ~proc[p].page

(* The edit, any time after the load: a name may be asked for in between.  *)
Edit(p) ==
  LET q == proc[p] IN
    /\ q.pc = "edit"
    /\ IF Idempotent(p)
         THEN Goto(p, "idle") /\ UNCHANGED files
         ELSE WriteFirst(p, Edited(q.cfg, q.do, q.jid), IF p = "setup" THEN "attach" ELSE "idle")
    /\ UNCHANGED <<paired, began, trustVars, bounds>>

(* sessiontrust.Add and Remove read the file, and end there if there is    *)
(* nothing to change.                                                      *)
ReadGrants(e) ==
  LET q == proc[e] IN
    /\ q.pc = "grants"
    /\ IF (q.do = "grant") = (q.jid \in grants[q.dir])
         THEN Goto(e, "idle")
         ELSE proc' = [proc EXCEPT ![e].pc = "truncate", ![e].had = grants[q.dir]]
    /\ UNCHANGED <<paired, began, files, trustVars, bounds>>

(* writeGrants opens the file, which empties it; the removal of the last   *)
(* grant that was read deletes it instead.                                 *)
TruncateGrants(e) ==
  LET q == proc[e] IN
    /\ q.pc = "truncate"
    /\ grants' = [grants EXCEPT ![q.dir] = {}]
    /\ Goto(e, IF q.do = "revoke" /\ q.had = {q.jid} THEN "idle" ELSE "write")
    /\ UNCHANGED <<paired, began, files, since, crossed, bounds>>

(* ... and writes what was read, with the one added or without the one     *)
(* removed.                                                                *)
WriteGrants(e) ==
  LET q == proc[e] IN
    /\ q.pc = "write"
    /\ grants' = [grants EXCEPT ![q.dir] = IF q.do = "grant" THEN q.had \cup {q.jid} ELSE q.had \ {q.jid}]
    /\ since' = IF q.do = "grant" THEN since \cup {q.jid} ELSE since
    /\ crossed' = (crossed \/ q.then = "done")
    /\ Goto(e, "idle")
    /\ UNCHANGED <<paired, began, files, bounds>>

----------------------------------------------------------------------------
(* setup: it looks up the account, pairs if it must, asks what agents may  *)
(* read, saves the answer and prepares the account that is paired by then. *)

Setup ==
  /\ edits < MaxEdits /\ edits' = edits + 1
  /\ proc["setup"].pc \in {"idle", "done"}
  /\ proc' = [proc EXCEPT !["setup"] = [Idle EXCEPT !.pc = "split", !.dir = For, !.then = "pair"]]
  /\ UNCHANGED <<paired, began, files, trustVars, troubles>>

(* runPairing and askScope.                                                *)
SetupPairs ==
  /\ proc["setup"].pc = "pair"
  /\ paired' = TRUE
  /\ \E do \in Answers, j \in Jids :
       proc' = [proc EXCEPT !["setup"].pc = "config", !["setup"].do = do, !["setup"].jid = j]
  /\ UNCHANGED <<files, trustVars, began, bounds>>

(* attachAccount: after SaveScope, prepare the account that was paired.    *)
SetupAttaches ==
  /\ proc["setup"].pc = "attach"
  /\ proc' = [proc EXCEPT !["setup"].pc = "split", !["setup"].dir = For, !["setup"].then = "done"]
  /\ UNCHANGED <<paired, began, files, trustVars, bounds>>

----------------------------------------------------------------------------
(* serve, and its reader.                                                  *)

Start ==
  /\ proc["serve"].pc = "idle"
  /\ proc' = [proc EXCEPT !["serve"] = [Idle EXCEPT !.pc = "split", !.dir = For]]
  /\ UNCHANGED <<paired, began, files, trustVars, bounds>>

(* Mutant of Cleared: grants outlive a restart of the same account.        *)
KeepsGrants(g, d) == g

Cleared(g, d) == [g EXCEPT ![d] = {}]

(* ClearAtStartup, before the gate is wired.  A command that has read the  *)
(* file and not yet written it is marked.                                  *)
ClearAtStartup ==
  /\ proc["serve"].pc = "clear"
  /\ grants' = Cleared(grants, Home)
  /\ since' = {} /\ crossed' = FALSE
  /\ proc' = [p \in Procs |->
       IF p = "serve" THEN [proc[p] EXCEPT !.pc = "wire"]
       ELSE IF p = "reader" THEN [Idle EXCEPT !.pc = "config", !.dir = Home]
       ELSE IF proc[p].pc \in {"truncate", "write"} THEN [proc[p] EXCEPT !.then = "done"]
       ELSE proc[p]]
  /\ UNCHANGED <<paired, began, files, bounds>>

(* NewScopeReader and NewTrustReader have loaded, or start from nothing.   *)
Wire ==
  /\ proc["serve"].pc = "wire"
  /\ proc["reader"].pc = "idle"
  /\ Goto("serve", "up")
  /\ UNCHANGED <<paired, began, files, trustVars, bounds>>

(* ScopeReader.current and TrustReader.Trusted: load before every answer.  *)
Check ==
  /\ Up
  /\ proc["reader"].pc = "idle"
  /\ Goto("reader", "config")
  /\ UNCHANGED <<paired, began, files, trustVars, bounds>>

Trouble == troubles < MaxTroubles /\ troubles' = troubles + 1

(* Mutant of Stopped: a handler outlives its server.                       *)
StopsServing == [proc EXCEPT !["serve"] = Idle, !["reader"] = Idle]

Stopped ==
  [p \in Procs |-> IF p \in {"serve", "reader"} \/ proc[p].page THEN Idle ELSE proc[p]]

(* serve stops, between any two steps.                                     *)
Stop ==
  /\ Trouble
  /\ proc["serve"].pc # "idle"
  /\ proc' = Stopped
  /\ began' = Zero
  /\ UNCHANGED <<paired, files, trustVars, edits>>

(* A command or setup is interrupted.                                      *)
Interrupt ==
  /\ Trouble
  /\ \E p \in Editors \cup {"setup"} :
       /\ proc[p].pc \notin {"idle", "done"} /\ ~proc[p].page
       /\ proc' = [proc EXCEPT ![p] = Idle]
  /\ UNCHANGED <<paired, began, files, trustVars, edits>>

(* A human edits config.json: for a while it does not parse.               *)
EditByHand ==
  /\ IF config.valid THEN Trouble ELSE UNCHANGED troubles
  /\ config' = [config EXCEPT !.valid = ~@]
  /\ UNCHANGED <<paired, began, account, trustVars, proc, edits>>

----------------------------------------------------------------------------
Loading(p) == ReadConfig(p) \/ ReadAccount(p)
Preparing(p) == Split(p) \/ Copy(p) \/ WriteThen(p)
Editing(e) == Command(e) \/ Handle(e) \/ ReadGrants(e) \/ TruncateGrants(e) \/ WriteGrants(e)
SettingUp == Setup \/ SetupPairs \/ SetupAttaches
Serving == Start \/ ClearAtStartup \/ Wire \/ Check \/ Stop

Next ==
  \/ \E p \in Procs : Loading(p)
  \/ \E p \in Procs \ {"reader"} : Preparing(p)
  \/ \E p \in Editors \cup {"setup"} : Edit(p)
  \/ \E e \in Editors : Editing(e)
  \/ SettingUp
  \/ Serving
  \/ Interrupt \/ EditByHand

Spec == Init /\ [][Next]_vars

----------------------------------------------------------------------------
(* What a running serve answers from moves only when a load completes, and *)
(* then to settings that were in force when it read config.json or are in  *)
(* force when it has read account.json: neither a split nor a save under   *)
(* way shows it settings that never held, and above all not none.  A load  *)
(* that fails leaves the last good settings; until one has completed serve *)
(* answers from none: nobody trusted, every chat readable.  LoadFor's two  *)
(* reads and SaveFor's two writes have to run in opposite orders for it    *)
(* (config.go:119-199, 312-351).                                           *)
AnswersAreInForce ==
  [][LET loaded == proc["reader"].pc = "account" /\ proc'["reader"].pc = "idle"
         starts == proc["serve"].pc = "clear"
     IN  proc'["serve"].pc \in {"wire", "up"} =>
           /\ starts => proc'["reader"].cfg = Zero
           /\ loaded => proc'["reader"].cfg \in {began, InForce(Home)}
           /\ ~starts /\ ~loaded => proc'["reader"].cfg = proc["reader"].cfg]_vars

(* What is in force for the paired account changes only by the write of    *)
(* its account.json: writing config.json, a stop between the two writes, a *)
(* split that was half done and a human's edit move nothing.  SaveFor has  *)
(* to write account.json first for it (config.go:183-199).  setup and the  *)
(* commands of an install that is not paired are the exception: they empty *)
(* config.json into the directory of no account.                           *)
SettingsMoveByTheirFile ==
  [][InForce("own")' # InForce("own") =>
       \/ account'["own"] # account["own"]
       \/ \E p \in Procs : proc[p].pc = "blank" /\ proc[p].dir = "_pending"]_vars

(* A grant that a running serve honours was given since it cleared the     *)
(* file, unless a command read the file before that and wrote it after     *)
(* (sessiontrust.go:10-13).                                                *)
GrantsDieWithServe ==
  proc["serve"].pc \in {"wire", "up"} /\ ~crossed => grants[Home] \subseteq since

(* setup ends with agents allowed to read what it was told they may, if    *)
(* nobody else has edited anything (wizard.go:151-153, setup.go:151-155).  *)
SetupsAnswerHolds ==
  proc["setup"].pc = "done" /\ edits = 1 =>
    Readable(InForce(For)) = CASE proc["setup"].do = "every chat" -> Jids
                               [] proc["setup"].do = "nothing" -> {}
                               [] OTHER -> {proc["setup"].jid}
=============================================================================
