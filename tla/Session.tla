------------------------------ MODULE Session ------------------------------
(***************************************************************************)
(* The WhatsApp session of a running serve, and whose data it is:          *)
(* internal/bridge (bridge.go, the session events of events.go),           *)
(* internal/dashboard/pair.go, internal/accounts, and the wiring in        *)
(* serve.go and account.go.                                                *)
(*                                                                         *)
(* session.db holds the paired devices.  serve reads it once for the       *)
(* directory its files live in and once for its client; from then on the   *)
(* client is replaced by whoever finds a reason to: the goroutine that     *)
(* waits for a pairing at start, the ones that wait after a log-out, and   *)
(* the handler of a log-out.  A client that was replaced keeps running and *)
(* its events still reach the bridge.  setup is another process that pairs *)
(* on the same session.db.  The phone pairs and unlinks, the network drops *)
(* connections, and serve may stop and start again.                        *)
(*                                                                         *)
(* whatsmeow is external.  It is modelled by what bridge.go asks of it and *)
(* handles from it: a client keeps its device in memory, events of one     *)
(* client are handled in order, WhatsApp closes the older connection of a  *)
(* device, and a log-out deletes the device before the event is seen.      *)
(***************************************************************************)
EXTENDS Integers, SequencesExt

CONSTANTS
  Numbers,       \* phone numbers, and the directories of their accounts
  Pending,       \* pendingID
  MaxPairings,   \* bound: devices paired in a behaviour
  MaxClients,    \* bound: clients built in one life of serve
  MaxUnlinks,    \* bound: log-outs
  MaxTroubles    \* bound: failed connects, lost connections, stops of serve

ASSUME SessionAssumption ==
  /\ Pending \notin Numbers
  /\ Numbers # {}
  /\ {MaxPairings, MaxClients, MaxUnlinks, MaxTroubles} \subseteq Nat

Device == 1..MaxPairings
NoDevice == 0
Client == 1..MaxClients
NoClient == 0
Dir == Numbers \cup {Pending}
Waiter == 0..MaxUnlinks      \* 0 is serve's, the others recoverPairing's

VARIABLES
  account,   \* whose device each pairing makes (fixed, unknown beforehand)
  pairings,  \* devices 1..pairings have been paired
  devices,   \* the devices in session.db; a later one has a higher number
  serve,     \* where serve is: "down", "starting" or "up"
  home,      \* acct.Dir: where its schedules, trust and scope are
  attached,  \* where its message store points
  made,      \* clients 1..made have been built
  current,   \* Bridge.client
  device,    \* the device each client holds in memory
  link,      \* the connection of each client
  inbox,     \* events of each client still to be handled
  shown,     \* Bridge.state
  waiter,    \* connectWhenPaired and the recoverPairing goroutines
  pairing,   \* the dashboard's runPairing
  logout,    \* the dashboard's handlePairLogout
  setup,     \* the setup process
  unlinks, troubles,
  unlinked   \* history: has this life of serve been logged out?

dbVars == <<account, pairings, devices>>
clientVars == <<made, current, device, link, inbox>>
goVars == <<waiter, pairing, logout>>
placeVars == <<home, attached>>
bounds == <<unlinks, troubles>>
vars == <<dbVars, serve, placeVars, clientVars, shown, goVars, setup, bounds, unlinked>>

Events == {"Connected", "Disconnected", "StreamReplaced", "ConnectFailure", "LoggedOut"}

TypeOK ==
  /\ account \in [Device -> Numbers]
  /\ pairings \in 0..MaxPairings
  /\ devices \subseteq 1..pairings
  /\ serve \in {"down", "starting", "up"}
  /\ {home, attached} \subseteq Dir
  /\ made \in 0..MaxClients
  /\ current \in Client \cup {NoClient}
  /\ serve = "up" => current \in 1..made
  /\ device \in [Client -> Device \cup {NoDevice}]
  /\ link \in [Client -> {"down", "qr", "up", "lost"}]
  /\ \A c \in Client : link[c] \in {"up", "lost"} => device[c] # NoDevice
  /\ inbox \in [Client -> Seq(Events)]
  /\ shown \in {"unpaired", "offline", "connecting", "connected"}
  /\ waiter \in [Waiter -> {"off", "poll", "reload", "connect", "dial"}]
  /\ pairing \in [pc : {"idle", "start", "qr", "paired"}, client : Client \cup {NoClient}]
  /\ logout \in {"idle", "check", "reset"}
  /\ setup \in [pc : {"idle", "qr", "paired", "wizard"}, device : Device \cup {NoDevice}, up : BOOLEAN]
  /\ unlinks \in 0..MaxUnlinks /\ troubles \in 0..MaxTroubles
  /\ unlinked \in BOOLEAN

NotPairing == [pc |-> "idle", client |-> NoClient]
NoSetup == [pc |-> "idle", device |-> NoDevice, up |-> FALSE]

(* Nothing of a process that is not running.                               *)
Blank ==
  /\ serve = "down"
  /\ home = Pending /\ attached = Pending
  /\ made = 0 /\ current = NoClient
  /\ device = [c \in Client |-> NoDevice]
  /\ link = [c \in Client |-> "down"]
  /\ inbox = [c \in Client |-> <<>>]
  /\ shown = "unpaired"
  /\ waiter = [w \in Waiter |-> "off"]
  /\ pairing = NotPairing
  /\ logout = "idle"
  /\ unlinked = FALSE

Init ==
  /\ account \in [Device -> Numbers]
  /\ pairings \in {0, 1} \cap (0..MaxPairings)
  /\ devices = 1..pairings
  /\ Blank
  /\ setup = NoSetup
  /\ unlinks = 0 /\ troubles = 0

----------------------------------------------------------------------------
(* GetFirstDevice: the oldest.                                             *)
First ==
  IF devices = {} THEN NoDevice ELSE CHOOSE d \in devices : \A e \in devices : d <= e

(* accounts.Current: LIMIT 1 and no order, so the device of any row.       *)
CurrentDevices == IF devices = {} THEN {NoDevice} ELSE devices

(* accounts.For: an install that is not paired uses the pending directory. *)
For(d) == IF d = NoDevice THEN Pending ELSE account[d]

(* Mutant of NeedsPairing: asks LoggedIn instead.                          *)
NotLoggedIn == link[current] # "up"

NeedsPairing == device[current] = NoDevice

Emit(c, e) == inbox' = [inbox EXCEPT ![c] = Append(@, e)]

(* setClient: a new client becomes the current one.                        *)
SetClient(d) ==
  /\ made < MaxClients
  /\ made' = made + 1
  /\ current' = made + 1
  /\ device' = [device EXCEPT ![made + 1] = d]

(* WhatsApp accepts the connection of c and closes any other of the same   *)
(* device, in this process or in setup.                                    *)
Online(c, d) ==
  LET old == {b \in Client \ {c} : link[b] = "up" /\ device[b] = d} IN
    /\ link' = [b \in Client |-> IF b = c THEN "up" ELSE IF b \in old THEN "down" ELSE link[b]]
    /\ inbox' = [b \in Client |-> IF b = c THEN Append(inbox[b], "Connected")
                                  ELSE IF b \in old THEN Append(inbox[b], "StreamReplaced")
                                  ELSE inbox[b]]
    /\ setup' = [setup EXCEPT !.up = @ /\ setup.device # d]

(* Mutant of Forget: the connection is still counted.                      *)
ForgetConnected(c) ==
  /\ unlinked' = TRUE
  /\ devices' = devices \ {device[c]}
  /\ device' = [device EXCEPT ![c] = NoDevice]
  /\ link' = link

(* WhatsApp says that c's device is linked no longer: whatsmeow deletes    *)
(* the device and drops the connection.                                    *)
Forget(c) ==
  /\ unlinked' = TRUE
  /\ devices' = devices \ {device[c]}
  /\ device' = [device EXCEPT ![c] = NoDevice]
  /\ link' = [link EXCEPT ![c] = "down"]

LoggedOut == unlinks < MaxUnlinks /\ unlinks' = unlinks + 1

Trouble == troubles < MaxTroubles /\ troubles' = troubles + 1

----------------------------------------------------------------------------
(* serve starts, and stops.                                                *)

(* accounts.Current and prepareAccount, then the stores are opened.        *)
StartAccount ==
  /\ serve = "down"
  /\ serve' = "starting"
  /\ \E d \in CurrentDevices : home' = For(d)
  /\ attached' = home'
  /\ UNCHANGED <<dbVars, clientVars, shown, goVars, setup, bounds, unlinked>>

(* bridge.Open, and the goroutine that connects.                           *)
StartBridge ==
  /\ serve = "starting"
  /\ serve' = "up"
  /\ SetClient(First)
  /\ shown' = IF First = NoDevice THEN "unpaired" ELSE "offline"
  /\ waiter' = [waiter EXCEPT ![0] = "poll"]
  /\ UNCHANGED <<dbVars, placeVars, link, inbox, pairing, logout, setup, bounds, unlinked>>

Stop ==
  /\ serve # "down"
  /\ Trouble
  /\ serve' = "down"
  /\ home' = Pending /\ attached' = Pending
  /\ made' = 0 /\ current' = NoClient
  /\ device' = [c \in Client |-> NoDevice]
  /\ link' = [c \in Client |-> "down"]
  /\ inbox' = [c \in Client |-> <<>>]
  /\ shown' = "unpaired"
  /\ waiter' = [w \in Waiter |-> "off"]
  /\ pairing' = NotPairing
  /\ logout' = "idle"
  /\ unlinked' = FALSE
  /\ UNCHANGED <<dbVars, setup, unlinks>>

----------------------------------------------------------------------------
(* Waiting for a pairing, then connecting: connectWhenPaired under         *)
(* retryConnect, and recoverPairing, which tries only once.                *)

Goto(w, pc) == waiter' = [waiter EXCEPT ![w] = pc]

(* WaitForPairing's loop, and ReloadDevice's first test.                   *)
Poll(w) ==
  /\ waiter[w] = "poll"
  /\ Goto(w, IF NeedsPairing THEN "reload" ELSE "connect")
  /\ UNCHANGED <<dbVars, serve, placeVars, clientVars, shown, pairing, logout, setup, bounds, unlinked>>

(* The rest of ReloadDevice.                                               *)
Reload(w) ==
  /\ waiter[w] = "reload"
  /\ Goto(w, "poll")
  /\ \/ /\ First = NoDevice
        /\ UNCHANGED <<made, current, device, shown>>
     \/ /\ First # NoDevice
        /\ SetClient(First)
        /\ shown' = "offline"
  /\ UNCHANGED <<dbVars, serve, placeVars, link, inbox, pairing, logout, setup, bounds, unlinked>>

Connect(w) ==
  /\ waiter[w] = "connect"
  /\ Goto(w, "dial")
  /\ shown' = "connecting"
  /\ UNCHANGED <<dbVars, serve, placeVars, clientVars, pairing, logout, setup, bounds, unlinked>>

(* Who tries again: retryConnect does, recoverPairing does not.            *)
Retried(w) == IF w = 0 THEN "poll" ELSE "off"

(* ConnectContext and connectErr.  A client whose device was deleted is    *)
(* told so on connect; one without a device connects to pair.              *)
Dial(w) ==
  LET c == current IN
    /\ waiter[w] = "dial"
    /\ \/ /\ link[c] \in {"up", "qr"}
          /\ Goto(w, "off")
          /\ shown' = "connected"
          /\ UNCHANGED <<devices, device, link, inbox, setup, troubles, unlinked>>
       \/ /\ link[c] \in {"down", "lost"}
          /\ Goto(w, "off")
          /\ UNCHANGED <<shown, troubles>>
          /\ \/ /\ device[c] = NoDevice
                /\ link' = [link EXCEPT ![c] = "qr"]
                /\ UNCHANGED <<devices, device, inbox, setup, unlinked>>
             \/ /\ device[c] \in devices
                /\ Online(c, device[c])
                /\ UNCHANGED <<devices, device, unlinked>>
             \/ /\ device[c] # NoDevice /\ device[c] \notin devices
                /\ Forget(c)
                /\ Emit(c, "LoggedOut")
                /\ UNCHANGED setup
       \/ /\ link[c] \in {"down", "lost"}
          /\ Trouble
          /\ Goto(w, Retried(w))
          /\ shown' = "offline"
          /\ UNCHANGED <<devices, device, link, inbox, setup, unlinked>>
    /\ UNCHANGED <<account, pairings, serve, placeVars, made, current, pairing, logout, unlinks>>

----------------------------------------------------------------------------
(* The dashboard pairs.                                                    *)

(* handlePairStart: both tests under one lock.                             *)
PairStart ==
  /\ serve = "up"
  /\ pairing.pc = "idle"
  /\ NeedsPairing
  /\ pairing' = [pairing EXCEPT !.pc = "start"]
  /\ UNCHANGED <<dbVars, serve, placeVars, clientVars, shown, waiter, logout, setup, bounds, unlinked>>

(* PairQR up to its loop.  Whatever goes wrong, the state it set stays.    *)
PairBegin ==
  /\ pairing.pc = "start"
  /\ shown' = "connecting"
  /\ \/ /\ NeedsPairing /\ link[current] = "down"
        /\ link' = [link EXCEPT ![current] = "qr"]
        /\ pairing' = [pc |-> "qr", client |-> current]
        /\ UNCHANGED troubles
     \/ /\ ~NeedsPairing \/ link[current] # "down"
        /\ pairing' = NotPairing
        /\ UNCHANGED <<link, troubles>>
     \/ /\ Trouble
        /\ pairing' = NotPairing
        /\ UNCHANGED link
  /\ UNCHANGED <<dbVars, serve, placeVars, made, current, device, inbox, waiter, logout, setup,
                 unlinks, unlinked>>

(* The phone scans the code: the device is stored, PairQR returns, and     *)
(* whatsmeow dials again as that device.                                   *)
PairSuccess ==
  LET c == pairing.client IN
    /\ pairing.pc = "qr"
    /\ pairings < MaxPairings
    /\ pairings' = pairings + 1
    /\ devices' = devices \cup {pairings + 1}
    /\ device' = [device EXCEPT ![c] = pairings + 1]
    /\ link' = [link EXCEPT ![c] = "lost"]
    /\ pairing' = [pairing EXCEPT !.pc = "paired"]
    /\ UNCHANGED <<account, serve, placeVars, made, current, inbox, shown, waiter, logout,
                   setup, bounds, unlinked>>

(* The codes run out.                                                      *)
PairTimeout ==
  /\ pairing.pc = "qr"
  /\ link' = [link EXCEPT ![pairing.client] = "down"]
  /\ pairing' = NotPairing
  /\ UNCHANGED <<dbVars, serve, placeVars, made, current, device, inbox, shown, waiter, logout,
                 setup, bounds, unlinked>>

(* OnPaired: attachAccount re-points the message store, and only that; it  *)
(* does not when there is no account yet, or when it fails.                *)
OnPaired ==
  /\ pairing.pc = "paired"
  /\ \/ attached' = attached
     \/ \E d \in CurrentDevices \ {NoDevice} : attached' = For(d)
  /\ pairing' = NotPairing
  /\ UNCHANGED <<dbVars, serve, home, clientVars, shown, waiter, logout, setup, bounds, unlinked>>

----------------------------------------------------------------------------
(* The dashboard logs out.                                                 *)

(* handlePairLogout's first test, under the lock it then releases.         *)
LogoutStart ==
  /\ serve = "up"
  /\ logout = "idle"
  /\ pairing.pc = "idle"
  /\ ~NeedsPairing
  /\ logout' = "check"
  /\ UNCHANGED <<dbVars, serve, placeVars, clientVars, shown, waiter, pairing, setup, bounds, unlinked>>

(* NeedsPairing, and whatsmeow's Logout, which needs the connection.       *)
LogoutCall ==
  /\ logout = "check"
  /\ \/ /\ link[current] = "up"
        /\ LoggedOut /\ Forget(current)
        /\ logout' = "reset"
     \/ /\ logout' = "idle"
        /\ UNCHANGED <<devices, device, link, unlinks, unlinked>>
  /\ UNCHANGED <<account, pairings, serve, placeVars, made, current, inbox, shown, waiter,
                 pairing, setup, troubles>>

(* Mutant of Reinit: nobody waits for the next pairing.                    *)
ReinitUnwatched ==
  /\ SetClient(First)
  /\ shown' = "unpaired"
  /\ UNCHANGED waiter

(* reinitAfterLogout, and the recoverPairing it starts.                    *)
Reinit ==
  /\ SetClient(First)
  /\ shown' = "unpaired"
  /\ \E w \in Waiter \ {0} :
       /\ waiter[w] = "off"
       /\ \A v \in 1..(w - 1) : waiter[v] # "off"
       /\ Goto(w, "poll")

LogoutReset ==
  /\ logout = "reset"
  /\ logout' = "idle"
  /\ Reinit
  /\ UNCHANGED <<dbVars, serve, placeVars, link, inbox, pairing, setup, bounds, unlinked>>

----------------------------------------------------------------------------
(* Events.                                                                 *)

ShownAfter(e) ==
  CASE e = "Connected" -> "connected"
    [] e = "Disconnected" -> "connecting"
    [] e \in {"StreamReplaced", "ConnectFailure"} -> "offline"

(* handleEvent, in the goroutine of whichever client the event is of.      *)
HandleEvent(c) ==
  /\ inbox[c] # <<>>
  /\ inbox' = [inbox EXCEPT ![c] = Tail(@)]
  /\ IF Head(inbox[c]) = "LoggedOut"
     THEN Reinit
     ELSE /\ shown' = ShownAfter(Head(inbox[c]))
          /\ UNCHANGED <<made, current, device, waiter>>
  /\ UNCHANGED <<dbVars, serve, placeVars, link, pairing, logout, setup, bounds, unlinked>>

(* The phone unlinks the device of a connected client.                     *)
Unlink(c) ==
  /\ link[c] = "up"
  /\ LoggedOut /\ Forget(c)
  /\ Emit(c, "LoggedOut")
  /\ UNCHANGED <<account, pairings, serve, placeVars, made, current, shown, goVars, setup, troubles>>

(* A connection is lost, for whatsmeow to redial or for good.              *)
Drop(c) ==
  /\ link[c] = "up"
  /\ Trouble
  /\ \/ Emit(c, "Disconnected") /\ link' = [link EXCEPT ![c] = "lost"]
     \/ Emit(c, "ConnectFailure") /\ link' = [link EXCEPT ![c] = "down"]
  /\ UNCHANGED <<dbVars, serve, placeVars, made, current, device, shown, goVars, setup, unlinks, unlinked>>

Redial(c) ==
  /\ link[c] = "lost"
  /\ \/ /\ device[c] \in devices
        /\ Online(c, device[c])
        /\ UNCHANGED <<devices, device, unlinked>>
     \/ /\ device[c] \notin devices
        /\ Forget(c)
        /\ Emit(c, "LoggedOut")
        /\ UNCHANGED setup
  /\ UNCHANGED <<account, pairings, serve, placeVars, made, current, shown, goVars, bounds>>

(* A connection to pair that nobody shows the codes of ends.               *)
AnonymousEnds(c) ==
  /\ link[c] = "qr"
  /\ pairing.pc = "qr" => pairing.client # c
  /\ link' = [link EXCEPT ![c] = "down"]
  /\ UNCHANGED <<dbVars, serve, placeVars, made, current, device, inbox, shown, goVars, setup,
                 bounds, unlinked>>

----------------------------------------------------------------------------
(* setup, started on an install that is not paired.                        *)

SetupStart ==
  /\ setup.pc = "idle"
  /\ First = NoDevice
  /\ setup' = [setup EXCEPT !.pc = "qr"]
  /\ UNCHANGED <<dbVars, serve, placeVars, clientVars, shown, goVars, bounds, unlinked>>

SetupPairs ==
  /\ setup.pc = "qr"
  /\ pairings < MaxPairings
  /\ pairings' = pairings + 1
  /\ devices' = devices \cup {pairings + 1}
  /\ setup' = [pc |-> "paired", device |-> pairings + 1, up |-> FALSE]
  /\ UNCHANGED <<account, serve, placeVars, clientVars, shown, goVars, bounds, unlinked>>

(* Its whatsmeow dials as the new device, once.                            *)
SetupOnline ==
  LET old == {b \in Client : link[b] = "up" /\ device[b] = setup.device} IN
    /\ setup.pc = "paired"
    /\ setup.device \in devices
    /\ setup' = [setup EXCEPT !.pc = "wizard", !.up = TRUE]
    /\ link' = [b \in Client |-> IF b \in old THEN "down" ELSE link[b]]
    /\ inbox' = [b \in Client |-> IF b \in old THEN Append(inbox[b], "StreamReplaced")
                                  ELSE inbox[b]]
    /\ UNCHANGED <<dbVars, serve, placeVars, made, current, device, shown, goVars, bounds, unlinked>>

(* It ends or is aborted; its own store is closed with it.                 *)
SetupEnds ==
  /\ setup.pc # "idle"
  /\ setup' = NoSetup
  /\ UNCHANGED <<dbVars, serve, placeVars, clientVars, shown, goVars, bounds, unlinked>>

----------------------------------------------------------------------------
WaiterStep(w) == Poll(w) \/ Reload(w) \/ Connect(w) \/ Dial(w)

Next ==
  \/ StartAccount \/ StartBridge \/ Stop
  \/ \E w \in Waiter : WaiterStep(w)
  \/ PairStart \/ PairBegin \/ PairSuccess \/ PairTimeout \/ OnPaired
  \/ LogoutStart \/ LogoutCall \/ LogoutReset
  \/ \E c \in Client : \/ HandleEvent(c) \/ Unlink(c) \/ Drop(c) \/ Redial(c)
                       \/ AnonymousEnds(c)
  \/ SetupStart \/ SetupPairs \/ SetupOnline \/ SetupEnds

Spec == Init /\ [][Next]_vars

----------------------------------------------------------------------------
(* Properties.                                                             *)

LogoutInHand ==
  logout = "reset" \/ \E c \in Client : Contains(inbox[c], "LoggedOut")

(* A bridge that is not paired is always watched: some goroutine will look *)
(* at session.db again, or a log-out is in hand that starts one, whichever *)
(* of the ways to lose or to replace a client were taken together.         *)
UnpairedIsWatched ==
  serve = "up" /\ NeedsPairing =>
    LogoutInHand \/ \E w \in Waiter : waiter[w] \in {"poll", "reload"}

(* The store, the files, the client and whatever else is connected are of  *)
(* one account.                                                            *)
Apart ==
  /\ attached = home
  /\ ~NeedsPairing /\ account[device[current]] = home
  /\ \A c \in Client : link[c] \in {"up", "lost"} => account[device[c]] = home

(* A serve that is all of one account stays so for as long as it is not    *)
(* logged out, whatever setup and the dashboard pair, the goroutines that  *)
(* wait reload and the network takes down at the same time.                *)
ApartUntilUnlinked ==
  [][ serve = "up" /\ home # Pending /\ Apart => serve' = "down" \/ unlinked' \/ Apart' ]_vars

----------------------------------------------------------------------------
(* What comments say and the code does not do.                             *)

(* accounts.go: each account has its own schedules, so that a pending send *)
(* is never fired from whichever number happens to be paired by then: the  *)
(* files serve works with are those of the account it sends from.          *)
SchedulesKeepTheirAccount ==
  serve = "up" /\ home # Pending /\ link[current] = "up" => account[device[current]] = home
=============================================================================
