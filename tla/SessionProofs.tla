--------------------------- MODULE SessionProofs ---------------------------
(***************************************************************************)
(* Theorems about the session of a serve, for any phone numbers, and any   *)
(* number of pairings, clients, log-outs and troubles.                     *)
(***************************************************************************)
EXTENDS Session, WellFoundedInduction, SequenceTheorems, TLAPS

(* A serve that is not up runs nothing.                                    *)
DownInv ==
  serve # "up" =>
    /\ made = 0 /\ pairing.pc = "idle" /\ logout = "idle" /\ ~unlinked
    /\ \A w \in Waiter : waiter[w] = "off"

(* A client that is not built yet has no connection and no events, ...     *)
FreshInv == \A c \in Client : c > made => link[c] = "down" /\ inbox[c] = <<>>

(* ... and the one that is shown the codes is built.                       *)
PairInv == pairing.pc \in {"qr", "paired"} => pairing.client \in 1..made

(* A serve that started on an account and was not logged out still has the *)
(* client it started with, and nobody has a reason to replace it.          *)
SteadyInv ==
  serve # "down" /\ home # Pending /\ ~unlinked =>
    /\ devices # {} /\ attached = home
    /\ serve = "up" =>
         /\ made = 1 /\ current = 1 /\ device[1] \in devices
         /\ pairing.pc = "idle" /\ logout # "reset"
         /\ waiter[0] # "reload" /\ \A w \in Waiter \ {0} : waiter[w] = "off"
         /\ ~Contains(inbox[1], "LoggedOut")

IInv == TypeOK /\ DownInv /\ FreshInv /\ PairInv /\ SteadyInv /\ UnpairedIsWatched

----------------------------------------------------------------------------
(* The oldest device, and events.                                          *)

LEMMA LeastNatural ==
  ASSUME NEW S \in SUBSET Nat, S # {}
  PROVE  \E m \in S : \A j \in S : m <= j
<1> DEFINE R == OpToRel(<, Nat)
<1>1. IsWellFoundedOn(R, Nat)
  BY NatLessThanWellFounded
<1>2. PICK m \in S : \A j \in S : ~ (<<j, m>> \in R)
  <2> HIDE DEF R
  <2> QED BY <1>1, WFMin
<1>3. \A j \in S : ~ (j < m)
  BY <1>2 DEF OpToRel
<1>4. m \in Nat /\ \A j \in S : j \in Nat
  OBVIOUS
<1> QED BY <1>3, <1>4

LEMMA Numbered ==
  /\ MaxPairings \in Nat /\ MaxClients \in Nat /\ MaxUnlinks \in Nat /\ MaxTroubles \in Nat
  /\ Pending \notin Numbers /\ NoDevice \notin Device /\ NoClient \notin Client /\ 0 \in Waiter
BY SessionAssumption DEF NoDevice, Device, NoClient, Client, Waiter

LEMMA FirstIs ==
  ASSUME TypeOK
  PROVE  /\ devices \subseteq Device
         /\ First \in Device \cup {NoDevice}
         /\ devices = {} => First = NoDevice
         /\ devices # {} => First \in devices
<1>1. devices \subseteq Device /\ devices \subseteq Nat
  BY Numbered DEF TypeOK, Device
<1>2. ASSUME devices # {} PROVE First \in devices
  <2>1. \E d \in devices : \A e \in devices : d <= e
    BY <1>1, <1>2, LeastNatural
  <2>2. (CHOOSE d \in devices : \A e \in devices : d <= e) \in devices
    BY <2>1, Zenon
  <2> QED BY <1>2, <2>2 DEF First
<1> QED BY <1>1, <1>2 DEF First

LEMMA Appended ==
  ASSUME NEW s \in Seq(Events), NEW e \in Events
  PROVE  /\ Append(s, e) \in Seq(Events)
         /\ Contains(Append(s, e), "LoggedOut") <=> Contains(s, "LoggedOut") \/ e = "LoggedOut"
BY AppendProperties DEF Contains

LEMMA Handled ==
  ASSUME NEW s \in Seq(Events), s # <<>>
  PROVE  /\ Head(s) \in Events /\ Tail(s) \in Seq(Events)
         /\ Contains(s, "LoggedOut") <=> Head(s) = "LoggedOut" \/ Contains(Tail(s), "LoggedOut")
<1>1. /\ Len(s) \in Nat \ {0} /\ Head(s) = s[1] /\ s[1] \in Events
      /\ Tail(s) \in Seq(Events) /\ Len(Tail(s)) = Len(s) - 1
      /\ \A i \in 1..Len(Tail(s)) : Tail(s)[i] = s[i + 1]
  BY EmptySeq, LenProperties, ElementOfSeq, HeadTailProperties
<1>2. ASSUME Contains(s, "LoggedOut"), Head(s) # "LoggedOut" PROVE Contains(Tail(s), "LoggedOut")
  <2>1. PICK i \in 1..Len(s) : s[i] = "LoggedOut"
    BY <1>2 DEF Contains
  <2>2. i - 1 \in 1..Len(Tail(s)) /\ Tail(s)[i - 1] = s[(i - 1) + 1] /\ (i - 1) + 1 = i
    BY <1>1, <1>2, <2>1
  <2> QED BY <2>1, <2>2 DEF Contains
<1>3. ASSUME Contains(Tail(s), "LoggedOut") PROVE Contains(s, "LoggedOut")
  <2>1. PICK i \in 1..Len(Tail(s)) : Tail(s)[i] = "LoggedOut"
    BY <1>3 DEF Contains
  <2>2. i + 1 \in 1..Len(s) /\ s[i + 1] = "LoggedOut"
    BY <1>1, <2>1
  <2> QED BY <2>2 DEF Contains
<1>4. Head(s) = "LoggedOut" => Contains(s, "LoggedOut")
  BY <1>1 DEF Contains
<1> QED BY <1>1, <1>2, <1>3, <1>4

LEMMA Built ==
  ASSUME IInv
  PROVE  /\ made \in Nat /\ 1..made \subseteq Client
         /\ serve = "up" => current \in 1..made /\ current \in Client
         /\ made < MaxClients => made + 1 \in Client /\ made + 1 \in 0..MaxClients
BY Numbered DEF IInv, TypeOK, Client

LEMMA Bounds ==
  ASSUME TypeOK
  PROVE  /\ Trouble => troubles' \in 0..MaxTroubles
         /\ LoggedOut => unlinks' \in 0..MaxUnlinks
BY Numbered DEF TypeOK, Trouble, LoggedOut

----------------------------------------------------------------------------
(* The kinds of steps.                                                     *)

(* A step that replaces no client, pairs none and unlinks none.            *)
LEMMA SameClients ==
  ASSUME IInv, UNCHANGED <<account, serve, home, made, current, device, unlinked>>,
         attached' \in Dir, attached' = attached \/ home = Pending \/ unlinked,
         pairings' \in 0..MaxPairings, devices' \subseteq 1..pairings', devices \subseteq devices',
         link' \in [Client -> {"down", "qr", "up", "lost"}],
         \A c \in Client : link'[c] \in {"up", "lost"} => device[c] # NoDevice,
         inbox' \in [Client -> Seq(Events)],
         \A c \in Client : c > made => link'[c] = "down" /\ inbox'[c] = <<>>,
         \A c \in Client : Contains(inbox'[c], "LoggedOut") <=> Contains(inbox[c], "LoggedOut"),
         shown' \in {"unpaired", "offline", "connecting", "connected"},
         setup' \in [pc : {"idle", "qr", "paired", "wizard"}, device : Device \cup {NoDevice},
                     up : BOOLEAN],
         unlinks' \in 0..MaxUnlinks, troubles' \in 0..MaxTroubles,
         serve # "up" => UNCHANGED goVars,
         logout' \in {"idle", "check", "reset"}, logout' = "reset" <=> logout = "reset",
         pairing' \in [pc : {"idle", "start", "qr", "paired"}, client : Client \cup {NoClient}],
         pairing'.pc \in {"qr", "paired"} => pairing'.client \in 1..made,
         pairing'.pc # "idle" => pairing.pc # "idle" \/ NeedsPairing,
         waiter' \in [Waiter -> {"off", "poll", "reload", "connect", "dial"}],
         \A w \in Waiter : waiter'[w] # waiter[w] =>
           /\ waiter[w] # "off"
           /\ waiter'[w] = "reload" => NeedsPairing
           /\ waiter[w] \in {"poll", "reload"} /\ NeedsPairing => waiter'[w] \in {"poll", "reload"}
  PROVE  IInv'
<1> USE DEF IInv
<1>1. TypeOK'
  BY DEF TypeOK
<1>2. DownInv'
  BY DEF DownInv, goVars
<1>3. FreshInv' /\ PairInv'
  BY DEF FreshInv, PairInv
<1>4. SteadyInv'
  <2> SUFFICES ASSUME serve # "down", home # Pending, ~unlinked
               PROVE  /\ devices' # {} /\ attached' = home
                      /\ serve = "up" =>
                           /\ made = 1 /\ current = 1 /\ device[1] \in devices'
                           /\ pairing'.pc = "idle" /\ logout' # "reset"
                           /\ waiter'[0] # "reload" /\ \A w \in Waiter \ {0} : waiter'[w] = "off"
                           /\ ~Contains(inbox'[1], "LoggedOut")
    BY DEF SteadyInv
  <2>1. devices' # {} /\ attached' = home
    BY DEF SteadyInv
  <2>2. ASSUME serve = "up"
        PROVE  /\ made = 1 /\ current = 1 /\ device[1] \in devices' /\ 1 \in Client /\ ~NeedsPairing
    <3>1. made = 1 /\ current = 1 /\ device[1] \in devices
      BY <2>2 DEF SteadyInv
    <3>2. 1 \in Client
      BY <2>2, <3>1, Built
    <3>3. device[1] \in Device
      BY <3>1, FirstIs
    <3> QED BY <3>1, <3>2, <3>3, Numbered DEF NeedsPairing
  <2>3. ASSUME serve = "up"
        PROVE  /\ pairing'.pc = "idle" /\ logout' # "reset"
               /\ waiter'[0] # "reload" /\ \A w \in Waiter \ {0} : waiter'[w] = "off"
               /\ ~Contains(inbox'[1], "LoggedOut")
    BY <2>2, <2>3, Numbered DEF SteadyInv
  <2> QED BY <2>1, <2>2, <2>3
<1>5. UnpairedIsWatched'
  <2> SUFFICES ASSUME serve = "up", NeedsPairing, ~LogoutInHand'
               PROVE  \E w \in Waiter : waiter'[w] \in {"poll", "reload"}
    BY DEF UnpairedIsWatched, NeedsPairing
  <2>1. ~LogoutInHand
    BY DEF LogoutInHand
  <2>2. PICK w \in Waiter : waiter[w] \in {"poll", "reload"}
    BY <2>1 DEF UnpairedIsWatched
  <2> QED BY <2>2
<1> QED BY <1>1, <1>2, <1>3, <1>4, <1>5

(* A log-out, which is in hand from then on.                               *)
LEMMA Forgets ==
  ASSUME IInv, NEW c \in 1..made, serve = "up", Forget(c), LogoutInHand',
         UNCHANGED <<account, pairings, serve, placeVars, made, current, shown, pairing, setup>>,
         inbox' = inbox \/ Emit(c, "LoggedOut"),
         waiter' \in [Waiter -> {"off", "poll", "reload", "connect", "dial"}],
         logout' \in {"idle", "check", "reset"},
         unlinks' \in 0..MaxUnlinks, troubles' \in 0..MaxTroubles
  PROVE  IInv'
<1> USE DEF IInv
<1>1. c \in Client /\ made \in Nat
  BY Built
<1>2. /\ inbox' \in [Client -> Seq(Events)]
      /\ \A b \in Client : b > made => link'[b] = "down" /\ inbox'[b] = <<>>
  <2>1. inbox[c] \in Seq(Events) /\ "LoggedOut" \in Events /\ ~(c > made)
    BY <1>1 DEF TypeOK, Events
  <2>2. Append(inbox[c], "LoggedOut") \in Seq(Events)
    BY <2>1, Appended
  <2>3. CASE inbox' = inbox
    BY <1>1, <2>1, <2>3 DEF TypeOK, Forget, FreshInv
  <2>4. CASE Emit(c, "LoggedOut")
    <3>1. inbox' = [inbox EXCEPT ![c] = Append(inbox[c], "LoggedOut")]
      BY <2>4 DEF Emit
    <3>2. \A b \in Client \ {c} : inbox'[b] = inbox[b]
      BY <3>1 DEF TypeOK
    <3>3. inbox' \in [Client -> Seq(Events)]
      BY <1>1, <2>2, <3>1 DEF TypeOK
    <3>4. \A b \in Client : b > made => b # c
      BY <2>1
    <3> QED BY <3>2, <3>3, <3>4 DEF TypeOK, Forget, FreshInv
  <2> QED BY <2>3, <2>4
<1>3. TypeOK'
  <2>1. devices' \subseteq 1..pairings /\ unlinked' = TRUE
    BY DEF Forget, TypeOK
  <2>2. /\ device' \in [Client -> Device \cup {NoDevice}]
        /\ link' \in [Client -> {"down", "qr", "up", "lost"}]
        /\ \A b \in Client : link'[b] \in {"up", "lost"} => device'[b] # NoDevice
    BY <1>1 DEF Forget, TypeOK
  <2> QED BY <1>2, <2>1, <2>2 DEF TypeOK, placeVars
<1>4. DownInv' /\ FreshInv' /\ PairInv' /\ SteadyInv'
  BY <1>2 DEF DownInv, FreshInv, PairInv, SteadyInv, Forget
<1>5. UnpairedIsWatched'
  BY DEF UnpairedIsWatched
<1> QED BY <1>3, <1>4, <1>5

(* The client is replaced, after a log-out or before the first pairing.    *)
LEMMA Replaces ==
  ASSUME IInv, serve = "up", home = Pending \/ unlinked, SetClient(First),
         UNCHANGED <<dbVars, serve, placeVars, link, pairing, setup, bounds, unlinked>>,
         inbox' \in [Client -> Seq(Events)], \A c \in Client : c > made => inbox'[c] = <<>>,
         shown' \in {"unpaired", "offline", "connecting", "connected"},
         logout' \in {"idle", "check", "reset"},
         waiter' \in [Waiter -> {"off", "poll", "reload", "connect", "dial"}],
         \E w \in Waiter : waiter'[w] = "poll"
  PROVE  IInv'
<1> USE DEF IInv
<1>1. /\ made \in Nat /\ made' = made + 1 /\ current' = made + 1 /\ made + 1 \in Client
      /\ made' \in 0..MaxClients /\ device' = [device EXCEPT ![made + 1] = First]
      /\ current' \in 1..made'
  BY Built DEF SetClient
<1>2. device' \in [Client -> Device \cup {NoDevice}] /\ \A c \in Client : c <= made => device'[c] = device[c]
  BY <1>1, FirstIs DEF TypeOK, Client
<1>3. \A c \in Client : link[c] \in {"up", "lost"} => device'[c] # NoDevice
  BY <1>1, <1>2 DEF TypeOK, FreshInv, Client
<1>4. TypeOK'
  BY <1>1, <1>2, <1>3 DEF TypeOK, dbVars, placeVars, bounds
<1>5. DownInv' /\ FreshInv' /\ PairInv' /\ SteadyInv'
  BY <1>1 DEF DownInv, FreshInv, PairInv, SteadyInv, placeVars, TypeOK, Client
<1>6. UnpairedIsWatched'
  BY DEF UnpairedIsWatched
<1> QED BY <1>4, <1>5, <1>6

----------------------------------------------------------------------------
(* The steps.                                                              *)

(* What the steps that touch no client have to show, and no more.          *)
LEMMA Quiet ==
  ASSUME IInv,
         UNCHANGED <<dbVars, serve, placeVars, clientVars, setup, bounds, unlinked>>,
         shown' \in {"unpaired", "offline", "connecting", "connected"},
         serve # "up" => UNCHANGED goVars,
         logout' \in {"idle", "check", "reset"}, logout' = "reset" <=> logout = "reset",
         pairing' \in [pc : {"idle", "start", "qr", "paired"}, client : Client \cup {NoClient}],
         pairing'.pc \in {"qr", "paired"} => pairing'.client \in 1..made,
         pairing'.pc # "idle" => pairing.pc # "idle" \/ NeedsPairing,
         waiter' \in [Waiter -> {"off", "poll", "reload", "connect", "dial"}],
         \A w \in Waiter : waiter'[w] # waiter[w] =>
           /\ waiter[w] # "off"
           /\ waiter'[w] = "reload" => NeedsPairing
           /\ waiter[w] \in {"poll", "reload"} /\ NeedsPairing => waiter'[w] \in {"poll", "reload"}
  PROVE  IInv'
<1>1. /\ UNCHANGED <<account, serve, home, made, current, device, unlinked>>
      /\ attached' = attached /\ pairings' = pairings /\ devices' = devices
      /\ link' = link /\ inbox' = inbox /\ setup' = setup /\ unlinks' = unlinks /\ troubles' = troubles
  BY DEF dbVars, placeVars, clientVars, bounds
<1> QED BY <1>1, SameClients DEF IInv, TypeOK, FreshInv

LEMMA Polls ==
  ASSUME IInv, NEW w \in Waiter, Poll(w)
  PROVE  IInv'
<1> USE DEF IInv
<1>1. /\ waiter[w] = "poll" /\ serve = "up"
      /\ UNCHANGED <<dbVars, serve, placeVars, clientVars, shown, pairing, logout, setup, bounds, unlinked>>
  BY DEF Poll, DownInv
<1>2. waiter' = [waiter EXCEPT ![w] = IF NeedsPairing THEN "reload" ELSE "connect"]
  BY DEF Poll, Goto
<1>3. /\ waiter' \in [Waiter -> {"off", "poll", "reload", "connect", "dial"}]
      /\ waiter'[w] = IF NeedsPairing THEN "reload" ELSE "connect"
      /\ \A v \in Waiter \ {w} : waiter'[v] = waiter[v]
  BY <1>2 DEF TypeOK
<1> QED BY <1>1, <1>3, Quiet DEF TypeOK, PairInv

LEMMA Reloads ==
  ASSUME IInv, NEW w \in Waiter, Reload(w)
  PROVE  IInv'
<1> USE DEF IInv
<1>1. /\ waiter[w] = "reload" /\ serve = "up" /\ (home = Pending \/ unlinked)
      /\ UNCHANGED <<dbVars, serve, placeVars, link, inbox, pairing, logout, setup, bounds, unlinked>>
  BY DEF Reload, DownInv, SteadyInv
<1>2. /\ waiter' \in [Waiter -> {"off", "poll", "reload", "connect", "dial"}]
      /\ waiter'[w] = "poll" /\ \A v \in Waiter \ {w} : waiter'[v] = waiter[v]
  BY DEF TypeOK, Reload, Goto
<1>3. CASE UNCHANGED <<made, current, device, shown>>
  BY <1>1, <1>2, <1>3, Quiet DEF TypeOK, PairInv, clientVars
<1>4. CASE SetClient(First) /\ shown' = "offline"
  BY <1>1, <1>2, <1>4, Replaces DEF TypeOK, FreshInv
<1> QED BY <1>3, <1>4 DEF Reload

LEMMA Connects ==
  ASSUME IInv, NEW w \in Waiter, Connect(w)
  PROVE  IInv'
<1> USE DEF IInv
<1>1. /\ waiter[w] = "connect" /\ serve = "up" /\ shown' = "connecting"
      /\ UNCHANGED <<dbVars, serve, placeVars, clientVars, pairing, logout, setup, bounds, unlinked>>
  BY DEF Connect, DownInv
<1>2. /\ waiter' \in [Waiter -> {"off", "poll", "reload", "connect", "dial"}]
      /\ waiter'[w] = "dial" /\ \A v \in Waiter \ {w} : waiter'[v] = waiter[v]
  BY DEF TypeOK, Connect, Goto
<1> QED BY <1>1, <1>2, Quiet DEF TypeOK, PairInv

(* What accepting a connection does to the others.                         *)
LEMMA Accepted ==
  ASSUME IInv, NEW c \in 1..made, Online(c, device[c]), device[c] # NoDevice
  PROVE  /\ link' \in [Client -> {"down", "qr", "up", "lost"}]
         /\ \A b \in Client : link'[b] \in {"up", "lost"} => device[b] # NoDevice
         /\ inbox' \in [Client -> Seq(Events)]
         /\ \A b \in Client : b > made => link'[b] = "down" /\ inbox'[b] = <<>>
         /\ \A b \in Client : Contains(inbox'[b], "LoggedOut") <=> Contains(inbox[b], "LoggedOut")
         /\ setup' \in [pc : {"idle", "qr", "paired", "wizard"}, device : Device \cup {NoDevice},
                         up : BOOLEAN]
<1> USE DEF IInv
<1> DEFINE old == {b \in Client \ {c} : link[b] = "up" /\ device[b] = device[c]}
<1>1. c \in Client /\ made \in Nat
  BY Built
<1>2. link' = [b \in Client |-> IF b = c THEN "up" ELSE IF b \in old THEN "down" ELSE link[b]]
  BY DEF Online
<1>3. inbox' = [b \in Client |-> IF b = c THEN Append(inbox[b], "Connected")
                                ELSE IF b \in old THEN Append(inbox[b], "StreamReplaced")
                                ELSE inbox[b]]
  BY DEF Online
<1>4. setup' = [setup EXCEPT !.up = setup.up /\ setup.device # device[c]]
  BY DEF Online
<1>5. \A b \in Client : b > made => b # c /\ b \notin old
  BY <1>1 DEF FreshInv, Client
<1>6. \A b \in Client : inbox[b] \in Seq(Events)
  BY DEF TypeOK
<1>7. /\ \A b \in Client : inbox'[b] \in Seq(Events)
      /\ \A b \in Client : Contains(inbox'[b], "LoggedOut") <=> Contains(inbox[b], "LoggedOut")
  <2>1. "Connected" \in Events /\ "StreamReplaced" \in Events
    BY DEF Events
  <2> SUFFICES ASSUME NEW b \in Client
               PROVE  /\ inbox'[b] \in Seq(Events)
                      /\ Contains(inbox'[b], "LoggedOut") <=> Contains(inbox[b], "LoggedOut")
    OBVIOUS
  <2> HIDE DEF old
  <2>2. \/ inbox'[b] = inbox[b] \/ inbox'[b] = Append(inbox[b], "Connected")
        \/ inbox'[b] = Append(inbox[b], "StreamReplaced")
    BY <1>3
  <2> QED BY <1>6, <2>1, <2>2, Appended
<1>8. setup' \in [pc : {"idle", "qr", "paired", "wizard"}, device : Device \cup {NoDevice}, up : BOOLEAN]
  BY <1>4 DEF TypeOK
<1>9. /\ link' \in [Client -> {"down", "qr", "up", "lost"}]
      /\ \A b \in Client : link'[b] \in {"up", "lost"} => device[b] # NoDevice
      /\ \A b \in Client : b > made => link'[b] = "down"
  BY <1>2, <1>5 DEF TypeOK, FreshInv
<1>10. \A b \in Client : b > made => inbox'[b] = <<>>
  BY <1>3, <1>5 DEF FreshInv
<1>11. inbox' \in [Client -> Seq(Events)]
  BY <1>3, <1>7
<1> QED BY <1>7, <1>8, <1>9, <1>10, <1>11

(* What holds when an event is emitted to c.                               *)
LEMMA Emitted ==
  ASSUME IInv, NEW c \in 1..made, NEW e \in Events, Emit(c, e)
  PROVE  /\ inbox' \in [Client -> Seq(Events)]
         /\ \A b \in Client : b > made => inbox'[b] = <<>>
         /\ e # "LoggedOut" =>
              \A b \in Client : Contains(inbox'[b], "LoggedOut") <=> Contains(inbox[b], "LoggedOut")
         /\ e = "LoggedOut" => LogoutInHand'
<1> USE DEF IInv
<1>1. c \in Client /\ made \in Nat /\ inbox[c] \in Seq(Events) /\ ~(c > made)
  BY Built DEF TypeOK
<1>2. /\ Append(inbox[c], e) \in Seq(Events)
      /\ Contains(Append(inbox[c], e), "LoggedOut") <=> Contains(inbox[c], "LoggedOut") \/ e = "LoggedOut"
  BY <1>1, Appended
<1>3. /\ inbox' \in [Client -> Seq(Events)] /\ inbox'[c] = Append(inbox[c], e)
      /\ \A b \in Client \ {c} : inbox'[b] = inbox[b]
  BY <1>1, <1>2 DEF Emit, TypeOK
<1>4. \A b \in Client : b > made => inbox'[b] = <<>>
  BY <1>1, <1>3 DEF FreshInv
<1> QED BY <1>1, <1>2, <1>3, <1>4 DEF LogoutInHand

LEMMA Dials ==
  ASSUME IInv, NEW w \in Waiter, Dial(w)
  PROVE  IInv'
<1> DEFINE c == current
<1> USE DEF IInv
<1>1. /\ waiter[w] = "dial" /\ serve = "up" /\ c \in 1..made /\ c \in Client
      /\ UNCHANGED <<account, pairings, serve, placeVars, made, current, pairing, logout, unlinks>>
  BY Built DEF Dial, DownInv
<1>2. ASSUME NEW pc \in {"off", "poll"}, Goto(w, pc)
      PROVE  /\ waiter' \in [Waiter -> {"off", "poll", "reload", "connect", "dial"}]
             /\ waiter'[w] = pc /\ \A v \in Waiter \ {w} : waiter'[v] = waiter[v]
  BY <1>2 DEF TypeOK, Goto
<1>3. CASE /\ Goto(w, "off") /\ shown' = "connected"
           /\ UNCHANGED <<devices, device, link, inbox, setup, troubles, unlinked>>
  <2>1. /\ waiter' \in [Waiter -> {"off", "poll", "reload", "connect", "dial"}]
        /\ \A v \in Waiter \ {w} : waiter'[v] = waiter[v]
    BY <1>2, <1>3
  <2>2. UNCHANGED <<dbVars, serve, placeVars, clientVars, setup, bounds, unlinked>>
    BY <1>1, <1>3 DEF dbVars, clientVars, bounds
  <2> QED BY <1>1, <1>3, <2>1, <2>2, Quiet DEF TypeOK, PairInv, Goto
<1>4. CASE /\ Goto(w, "off") /\ UNCHANGED <<shown, troubles>> /\ device[c] = NoDevice
           /\ link[c] \in {"down", "lost"}
           /\ link' = [link EXCEPT ![c] = "qr"]
           /\ UNCHANGED <<devices, device, inbox, setup, unlinked>>
  <2>1. /\ waiter' \in [Waiter -> {"off", "poll", "reload", "connect", "dial"}]
        /\ waiter'[w] = "off" /\ \A v \in Waiter \ {w} : waiter'[v] = waiter[v]
    BY <1>2, <1>4
  <2>2. /\ link' \in [Client -> {"down", "qr", "up", "lost"}]
        /\ \A b \in Client : link'[b] \in {"up", "lost"} => device[b] # NoDevice
        /\ \A b \in Client : b > made => link'[b] = "down" /\ inbox[b] = <<>>
    BY <1>1, <1>4, Built DEF TypeOK, FreshInv
  <2> QED BY <1>1, <1>4, <2>1, <2>2, SameClients DEF TypeOK, PairInv, placeVars
<1>5. CASE /\ Goto(w, "off") /\ UNCHANGED <<shown, troubles>>
           /\ device[c] \in devices /\ Online(c, device[c])
           /\ UNCHANGED <<devices, device, unlinked>>
  <2>1. /\ waiter' \in [Waiter -> {"off", "poll", "reload", "connect", "dial"}]
        /\ waiter'[w] = "off" /\ \A v \in Waiter \ {w} : waiter'[v] = waiter[v]
    BY <1>2, <1>5
  <2>2. device[c] # NoDevice
    BY <1>5, FirstIs, Numbered
  <2> QED BY <1>1, <1>5, <2>1, <2>2, Accepted, SameClients DEF TypeOK, PairInv, placeVars
<1>6. CASE /\ Goto(w, "off") /\ UNCHANGED <<shown, troubles, setup>>
           /\ Forget(c) /\ Emit(c, "LoggedOut")
  <2>1. waiter' \in [Waiter -> {"off", "poll", "reload", "connect", "dial"}]
    BY <1>2, <1>6
  <2>2. LogoutInHand'
    BY <1>1, <1>6, Emitted DEF Events
  <2> QED BY <1>1, <1>6, <2>1, <2>2, Forgets DEF TypeOK
<1>7. CASE /\ Trouble /\ Goto(w, Retried(w)) /\ shown' = "offline"
           /\ UNCHANGED <<devices, device, link, inbox, setup, unlinked>>
  <2>1. Retried(w) \in {"off", "poll"}
    BY DEF Retried
  <2>2. /\ waiter' \in [Waiter -> {"off", "poll", "reload", "connect", "dial"}]
        /\ waiter'[w] = Retried(w) /\ \A v \in Waiter \ {w} : waiter'[v] = waiter[v]
    BY <1>2, <1>7, <2>1
  <2>3. troubles' \in 0..MaxTroubles
    BY <1>7, Bounds
  <2> QED BY <1>1, <1>7, <2>1, <2>2, <2>3, SameClients DEF TypeOK, FreshInv, PairInv, placeVars
<1> QED BY <1>3, <1>4, <1>5, <1>6, <1>7 DEF Dial

LEMMA PairStarts ==
  ASSUME IInv, PairStart
  PROVE  IInv'
<1>1. /\ serve = "up" /\ NeedsPairing /\ pairing' = [pairing EXCEPT !.pc = "start"]
      /\ UNCHANGED <<dbVars, serve, placeVars, clientVars, shown, waiter, logout, setup, bounds, unlinked>>
  BY DEF PairStart
<1> QED BY <1>1, Quiet DEF IInv, TypeOK

LEMMA PairBegins ==
  ASSUME IInv, PairBegin
  PROVE  IInv'
<1> USE DEF IInv
<1>1. /\ pairing.pc = "start" /\ shown' = "connecting" /\ serve = "up" /\ current \in 1..made
      /\ current \in Client /\ made \in Nat
      /\ UNCHANGED <<dbVars, serve, placeVars, made, current, device, inbox, waiter, logout, setup,
                     unlinks, unlinked>>
  BY Built DEF PairBegin, DownInv
<1>2. CASE /\ NeedsPairing /\ link' = [link EXCEPT ![current] = "qr"]
           /\ pairing' = [pc |-> "qr", client |-> current] /\ UNCHANGED troubles
  <2>1. /\ link' \in [Client -> {"down", "qr", "up", "lost"}]
        /\ \A b \in Client : link'[b] \in {"up", "lost"} => device[b] # NoDevice
        /\ \A b \in Client : b > made => link'[b] = "down" /\ inbox[b] = <<>>
    BY <1>1, <1>2 DEF TypeOK, FreshInv
  <2> QED BY <1>1, <1>2, <2>1, SameClients DEF TypeOK, placeVars, dbVars
<1>3. CASE /\ pairing' = NotPairing /\ UNCHANGED link
           /\ troubles' \in 0..MaxTroubles
  BY <1>1, <1>3, SameClients, Numbered DEF TypeOK, FreshInv, placeVars, dbVars, NotPairing
<1> QED BY <1>2, <1>3, Bounds DEF PairBegin, TypeOK

LEMMA PairSucceeds ==
  ASSUME IInv, PairSuccess
  PROVE  IInv'
<1> DEFINE c == pairing.client
<1> USE DEF IInv
<1>1. /\ pairing.pc = "qr" /\ serve = "up" /\ c \in 1..made /\ c \in Client /\ made \in Nat
      /\ current \in Client
      /\ UNCHANGED <<account, serve, placeVars, made, current, inbox, shown, waiter, logout,
                     setup, bounds, unlinked>>
  BY Built DEF PairSuccess, DownInv, PairInv
<1>2. /\ pairings' = pairings + 1 /\ pairings' \in 0..MaxPairings /\ pairings' \in Device
      /\ devices' \subseteq 1..pairings'
  BY Numbered DEF PairSuccess, TypeOK, Device
<1>3. /\ device' = [device EXCEPT ![c] = pairings']
      /\ link' = [link EXCEPT ![c] = "lost"]
      /\ pairing' = [pairing EXCEPT !.pc = "paired"]
  BY <1>2 DEF PairSuccess
<1>4. pairing' \in [pc : {"idle", "start", "qr", "paired"}, client : Client \cup {NoClient}]
      /\ pairing'.client = c
  BY <1>3 DEF TypeOK
<1>5. /\ device' \in [Client -> Device \cup {NoDevice}]
      /\ link' \in [Client -> {"down", "qr", "up", "lost"}]
      /\ \A b \in Client : link'[b] \in {"up", "lost"} => device'[b] # NoDevice
      /\ \A b \in Client : b > made => link'[b] = "down"
      /\ \A b \in Client : device'[b] = NoDevice => device[b] = NoDevice
  BY <1>1, <1>2, <1>3, Numbered DEF TypeOK, FreshInv
<1>6. TypeOK'
  BY <1>1, <1>2, <1>4, <1>5 DEF TypeOK, placeVars, bounds
<1>7. DownInv' /\ FreshInv' /\ PairInv'
  BY <1>1, <1>4, <1>5 DEF DownInv, FreshInv, PairInv
<1>8. SteadyInv'
  BY <1>1 DEF SteadyInv, placeVars
<1>9. UnpairedIsWatched'
  BY <1>1, <1>5 DEF UnpairedIsWatched, NeedsPairing, LogoutInHand
<1> QED BY <1>6, <1>7, <1>8, <1>9

LEMMA PairTimesOut ==
  ASSUME IInv, PairTimeout
  PROVE  IInv'
<1> DEFINE c == pairing.client
<1> USE DEF IInv
<1>1. /\ c \in Client /\ serve = "up" /\ made \in Nat
      /\ UNCHANGED <<dbVars, serve, placeVars, made, current, device, inbox, shown, waiter, logout,
                     setup, bounds, unlinked>>
      /\ link' = [link EXCEPT ![c] = "down"] /\ pairing' = NotPairing
  BY Built DEF PairTimeout, DownInv, PairInv
<1>2. /\ link' \in [Client -> {"down", "qr", "up", "lost"}]
      /\ \A b \in Client : link'[b] \in {"up", "lost"} => device[b] # NoDevice
      /\ \A b \in Client : b > made => link'[b] = "down" /\ inbox[b] = <<>>
  BY <1>1 DEF TypeOK, FreshInv
<1> QED BY <1>1, <1>2, SameClients, Numbered DEF TypeOK, placeVars, dbVars, bounds, NotPairing

LEMMA Paired ==
  ASSUME IInv, OnPaired
  PROVE  IInv'
<1> USE DEF IInv
<1>1. /\ pairing.pc = "paired" /\ serve = "up" /\ (home = Pending \/ unlinked) /\ pairing' = NotPairing
      /\ UNCHANGED <<dbVars, serve, home, clientVars, shown, waiter, logout, setup, bounds, unlinked>>
  BY DEF OnPaired, DownInv, SteadyInv
<1>2. attached' \in Dir
  <2>1. CurrentDevices \ {NoDevice} \subseteq Device
    BY FirstIs DEF CurrentDevices
  <2>2. \A d \in Device : For(d) \in Dir
    BY DEF For, TypeOK, Dir
  <2> QED BY <2>1, <2>2 DEF OnPaired, TypeOK
<1> QED BY <1>1, <1>2, SameClients, Numbered DEF TypeOK, FreshInv, dbVars, clientVars, bounds, NotPairing

LEMMA LogoutStarts ==
  ASSUME IInv, LogoutStart
  PROVE  IInv'
<1>1. /\ serve = "up" /\ logout = "idle" /\ logout' = "check"
      /\ UNCHANGED <<dbVars, serve, placeVars, clientVars, shown, waiter, pairing, setup, bounds, unlinked>>
  BY DEF LogoutStart
<1> QED BY <1>1, Quiet DEF IInv, TypeOK, PairInv

LEMMA LogoutCalls ==
  ASSUME IInv, LogoutCall
  PROVE  IInv'
<1> USE DEF IInv
<1>1. /\ logout = "check" /\ serve = "up" /\ current \in 1..made
      /\ UNCHANGED <<account, pairings, serve, placeVars, made, current, inbox, shown, waiter,
                     pairing, setup, troubles>>
  BY Built DEF LogoutCall, DownInv
<1>2. CASE LoggedOut /\ Forget(current) /\ logout' = "reset"
  <2>1. LogoutInHand' /\ unlinks' \in 0..MaxUnlinks
    BY <1>2, Bounds DEF LogoutInHand
  <2> QED BY <1>1, <1>2, <2>1, Forgets DEF TypeOK
<1>3. CASE logout' = "idle" /\ UNCHANGED <<devices, device, link, unlinks, unlinked>>
  BY <1>1, <1>3, Quiet DEF TypeOK, PairInv, dbVars, clientVars, bounds
<1> QED BY <1>2, <1>3 DEF LogoutCall

LEMMA Reinits ==
  ASSUME TypeOK, Reinit
  PROVE  /\ SetClient(First) /\ shown' = "unpaired"
         /\ waiter' \in [Waiter -> {"off", "poll", "reload", "connect", "dial"}]
         /\ \E w \in Waiter : waiter'[w] = "poll"
<1>1. PICK w \in Waiter : Goto(w, "poll")
  BY DEF Reinit
<1> QED BY <1>1 DEF Reinit, Goto, TypeOK

LEMMA LogoutResets ==
  ASSUME IInv, LogoutReset
  PROVE  IInv'
<1> USE DEF IInv
<1>1. /\ logout = "reset" /\ serve = "up" /\ (home = Pending \/ unlinked) /\ logout' = "idle" /\ Reinit
      /\ UNCHANGED <<dbVars, serve, placeVars, link, inbox, pairing, setup, bounds, unlinked>>
  BY DEF LogoutReset, DownInv, SteadyInv
<1> QED BY <1>1, Reinits, Replaces DEF TypeOK, FreshInv

LEMMA Handles ==
  ASSUME IInv, NEW c \in Client, HandleEvent(c)
  PROVE  IInv'
<1> USE DEF IInv
<1>1. /\ inbox[c] # <<>> /\ inbox[c] \in Seq(Events) /\ inbox' = [inbox EXCEPT ![c] = Tail(inbox[c])]
      /\ UNCHANGED <<dbVars, serve, placeVars, link, pairing, logout, setup, bounds, unlinked>>
      /\ made \in Nat
  BY Built DEF HandleEvent, TypeOK
<1>2. c <= made /\ serve = "up"
  BY <1>1 DEF FreshInv, DownInv, Client
<1>3. /\ Head(inbox[c]) \in Events /\ Tail(inbox[c]) \in Seq(Events)
      /\ Contains(inbox[c], "LoggedOut") <=>
           Head(inbox[c]) = "LoggedOut" \/ Contains(Tail(inbox[c]), "LoggedOut")
  BY <1>1, Handled
<1>4. /\ inbox' \in [Client -> Seq(Events)] /\ inbox'[c] = Tail(inbox[c])
      /\ \A b \in Client \ {c} : inbox'[b] = inbox[b]
      /\ \A b \in Client : b > made => inbox'[b] = <<>>
  BY <1>1, <1>2, <1>3 DEF TypeOK, FreshInv
<1>5. CASE Head(inbox[c]) = "LoggedOut"
  <2>1. Reinit
    BY <1>5 DEF HandleEvent
  <2>2. home = Pending \/ unlinked
    <3>1. Contains(inbox[c], "LoggedOut")
      BY <1>3, <1>5
    <3> QED BY <1>1, <1>2, <3>1 DEF SteadyInv, Client
  <2> QED BY <1>1, <1>2, <1>4, <2>1, <2>2, Reinits, Replaces DEF TypeOK
<1>6. CASE Head(inbox[c]) # "LoggedOut"
  <2>1. shown' = ShownAfter(Head(inbox[c])) /\ UNCHANGED <<made, current, device, waiter>>
    BY <1>6 DEF HandleEvent
  <2>2. shown' \in {"unpaired", "offline", "connecting", "connected"}
    BY <1>3, <1>6, <2>1 DEF ShownAfter, Events
  <2>3. \A b \in Client : Contains(inbox'[b], "LoggedOut") <=> Contains(inbox[b], "LoggedOut")
    BY <1>3, <1>4, <1>6
  <2> QED BY <1>1, <1>2, <1>4, <2>1, <2>2, <2>3, SameClients
          DEF TypeOK, FreshInv, PairInv, dbVars, placeVars, bounds
<1> QED BY <1>5, <1>6

(* A client with a connection is built, and serve is up.                   *)
LEMMA Linked ==
  ASSUME IInv, NEW c \in Client, link[c] # "down"
  PROVE  c \in 1..made /\ serve = "up"
BY Built DEF IInv, FreshInv, DownInv, Client

LEMMA Unlinks ==
  ASSUME IInv, NEW c \in Client, Unlink(c)
  PROVE  IInv'
<1> USE DEF IInv
<1>1. /\ c \in 1..made /\ serve = "up" /\ Forget(c) /\ Emit(c, "LoggedOut")
      /\ unlinks' \in 0..MaxUnlinks
      /\ UNCHANGED <<account, pairings, serve, placeVars, made, current, shown, goVars, setup, troubles>>
  BY Linked, Bounds DEF Unlink
<1>2. LogoutInHand'
  BY <1>1, Emitted DEF Events
<1> QED BY <1>1, <1>2, Forgets DEF TypeOK, goVars

LEMMA Drops ==
  ASSUME IInv, NEW c \in Client, Drop(c)
  PROVE  IInv'
<1> USE DEF IInv
<1>1. /\ c \in 1..made /\ serve = "up" /\ link[c] = "up" /\ troubles' \in 0..MaxTroubles /\ made \in Nat
      /\ UNCHANGED <<dbVars, serve, placeVars, made, current, device, shown, goVars, setup, unlinks, unlinked>>
  BY Linked, Built, Bounds DEF Drop
<1>2. PICK e \in {"Disconnected", "ConnectFailure"}, l \in {"lost", "down"} :
        Emit(c, e) /\ link' = [link EXCEPT ![c] = l]
  BY DEF Drop
<1>3. /\ inbox' \in [Client -> Seq(Events)]
      /\ \A b \in Client : b > made => inbox'[b] = <<>>
      /\ \A b \in Client : Contains(inbox'[b], "LoggedOut") <=> Contains(inbox[b], "LoggedOut")
  <2>1. e \in Events /\ e # "LoggedOut"
    BY DEF Events
  <2> QED BY <1>1, <1>2, <2>1, Emitted
<1>4. /\ link' \in [Client -> {"down", "qr", "up", "lost"}]
      /\ \A b \in Client : link'[b] \in {"up", "lost"} => device[b] # NoDevice
      /\ \A b \in Client : b > made => link'[b] = "down"
  BY <1>1, <1>2 DEF TypeOK, FreshInv
<1>5. /\ UNCHANGED <<account, serve, home, made, current, device, unlinked, shown, setup, unlinks>>
      /\ pairings' = pairings /\ devices' = devices /\ attached' = attached
      /\ waiter' = waiter /\ pairing' = pairing /\ logout' = logout /\ UNCHANGED goVars
  BY <1>1 DEF dbVars, placeVars, goVars
<1> QED BY <1>1, <1>3, <1>4, <1>5, SameClients DEF TypeOK, PairInv

LEMMA Redials ==
  ASSUME IInv, NEW c \in Client, Redial(c)
  PROVE  IInv'
<1> USE DEF IInv
<1>1. /\ c \in 1..made /\ serve = "up"
      /\ UNCHANGED <<account, pairings, serve, placeVars, made, current, shown, goVars, bounds>>
  BY Linked DEF Redial
<1>2. CASE device[c] \in devices /\ Online(c, device[c]) /\ UNCHANGED <<devices, device, unlinked>>
  <2>1. device[c] # NoDevice
    BY <1>2, FirstIs, Numbered
  <2> QED BY <1>1, <1>2, <2>1, Accepted, SameClients DEF TypeOK, PairInv, placeVars, goVars, bounds
<1>3. CASE Forget(c) /\ Emit(c, "LoggedOut") /\ UNCHANGED setup
  <2>1. LogoutInHand'
    BY <1>1, <1>3, Emitted DEF Events
  <2> QED BY <1>1, <1>3, <2>1, Forgets DEF TypeOK, goVars, bounds
<1> QED BY <1>2, <1>3 DEF Redial

LEMMA Ends ==
  ASSUME IInv, NEW c \in Client, AnonymousEnds(c)
  PROVE  IInv'
<1> USE DEF IInv
<1>1. /\ link' = [link EXCEPT ![c] = "down"]
      /\ UNCHANGED <<dbVars, serve, placeVars, made, current, device, inbox, shown, goVars, setup,
                     bounds, unlinked>>
  BY DEF AnonymousEnds
<1>2. /\ link' \in [Client -> {"down", "qr", "up", "lost"}]
      /\ \A b \in Client : link'[b] \in {"up", "lost"} => device[b] # NoDevice
      /\ \A b \in Client : b > made => link'[b] = "down" /\ inbox[b] = <<>>
  BY <1>1 DEF TypeOK, FreshInv
<1> QED BY <1>1, <1>2, SameClients DEF TypeOK, PairInv, dbVars, placeVars, goVars, bounds

(* The setup process.                                                      *)
LEMMA Setups ==
  ASSUME IInv, SetupStart \/ SetupPairs \/ SetupEnds
  PROVE  IInv'
<1> USE DEF IInv
<1>1. /\ UNCHANGED <<account, serve, placeVars, clientVars, shown, goVars, bounds, unlinked>>
      /\ pairings' \in 0..MaxPairings /\ devices' \subseteq 1..pairings' /\ devices \subseteq devices'
  BY Numbered DEF SetupStart, SetupPairs, SetupEnds, TypeOK, dbVars
<1>2. setup' \in [pc : {"idle", "qr", "paired", "wizard"}, device : Device \cup {NoDevice}, up : BOOLEAN]
  <2>1. CASE SetupStart
    BY <2>1 DEF SetupStart, TypeOK
  <2>2. CASE SetupPairs
    <3>1. pairings + 1 \in Device
      BY <2>2, Numbered DEF SetupPairs, TypeOK, Device
    <3> QED BY <2>2, <3>1 DEF SetupPairs
  <2>3. CASE SetupEnds
    BY <2>3 DEF SetupEnds, NoSetup
  <2> QED BY <2>1, <2>2, <2>3
<1> QED BY <1>1, <1>2, SameClients DEF TypeOK, FreshInv, PairInv, placeVars, clientVars, goVars, bounds

LEMMA SetupConnects ==
  ASSUME IInv, SetupOnline
  PROVE  IInv'
<1> DEFINE old == {b \in Client : link[b] = "up" /\ device[b] = setup.device}
<1> USE DEF IInv
<1>1. UNCHANGED <<dbVars, serve, placeVars, made, current, device, shown, goVars, bounds, unlinked>>
  BY DEF SetupOnline
<1>2. /\ setup' = [setup EXCEPT !.pc = "wizard", !.up = TRUE]
      /\ link' = [b \in Client |-> IF b \in old THEN "down" ELSE link[b]]
      /\ inbox' = [b \in Client |-> IF b \in old THEN Append(inbox[b], "StreamReplaced") ELSE inbox[b]]
  BY DEF SetupOnline
<1>3. setup' \in [pc : {"idle", "qr", "paired", "wizard"}, device : Device \cup {NoDevice}, up : BOOLEAN]
  BY <1>2 DEF TypeOK
<1>4. \A b \in Client : b > made => b \notin old
  BY DEF FreshInv
<1>5. /\ link' \in [Client -> {"down", "qr", "up", "lost"}]
      /\ \A b \in Client : link'[b] \in {"up", "lost"} => device[b] # NoDevice
      /\ \A b \in Client : b > made => link'[b] = "down" /\ inbox'[b] = <<>>
  BY <1>2, <1>4 DEF TypeOK, FreshInv
<1>6. /\ \A b \in Client : inbox'[b] \in Seq(Events)
      /\ \A b \in Client : Contains(inbox'[b], "LoggedOut") <=> Contains(inbox[b], "LoggedOut")
  <2> SUFFICES ASSUME NEW b \in Client
               PROVE  /\ inbox'[b] \in Seq(Events)
                      /\ Contains(inbox'[b], "LoggedOut") <=> Contains(inbox[b], "LoggedOut")
    OBVIOUS
  <2> HIDE DEF old
  <2>1. inbox[b] \in Seq(Events) /\ "StreamReplaced" \in Events
    BY DEF TypeOK, Events
  <2>2. inbox'[b] = inbox[b] \/ inbox'[b] = Append(inbox[b], "StreamReplaced")
    BY <1>2
  <2> QED BY <2>1, <2>2, Appended
<1>7. inbox' \in [Client -> Seq(Events)]
  BY <1>2, <1>6
<1> QED BY <1>1, <1>3, <1>5, <1>6, <1>7, SameClients DEF TypeOK, PairInv, dbVars, placeVars, goVars, bounds

LEMMA StartsAccount ==
  ASSUME IInv, StartAccount
  PROVE  IInv'
<1> USE DEF IInv
<1>1. /\ serve = "down" /\ serve' = "starting" /\ attached' = home'
      /\ UNCHANGED <<dbVars, clientVars, shown, goVars, setup, bounds, unlinked>>
  BY DEF StartAccount
<1>2. home' \in Dir /\ (home' # Pending => devices # {})
  <2>1. PICK d \in CurrentDevices : home' = For(d)
    BY DEF StartAccount
  <2>2. CASE devices = {}
    BY <2>1, <2>2 DEF CurrentDevices, For, Dir
  <2>3. CASE devices # {}
    <3>1. d \in Device
      BY <2>1, <2>3, FirstIs DEF CurrentDevices
    <3> QED BY <2>1, <2>3, <3>1 DEF For, TypeOK, Dir
  <2> QED BY <2>2, <2>3
<1> QED BY <1>1, <1>2 DEF TypeOK, DownInv, FreshInv, PairInv, SteadyInv, UnpairedIsWatched,
                          dbVars, clientVars, goVars, bounds

LEMMA StartsBridge ==
  ASSUME IInv, StartBridge
  PROVE  IInv'
<1> USE DEF IInv
<1>1. /\ serve = "starting" /\ serve' = "up" /\ SetClient(First) /\ made = 0 /\ 1 \in Client
      /\ pairing.pc = "idle" /\ logout = "idle" /\ ~unlinked /\ \A w \in Waiter : waiter[w] = "off"
      /\ \A c \in Client : link[c] = "down" /\ inbox[c] = <<>>
      /\ UNCHANGED <<dbVars, placeVars, link, inbox, pairing, logout, setup, bounds, unlinked>>
  BY Built DEF StartBridge, DownInv, FreshInv, SetClient, Client
<1>2. /\ made' = 1 /\ current' = 1 /\ device' = [device EXCEPT ![1] = First] /\ made' \in 0..MaxClients
  BY <1>1, Built DEF SetClient
<1>3. /\ waiter' = [waiter EXCEPT ![0] = "poll"]
      /\ shown' \in {"unpaired", "offline", "connecting", "connected"}
  BY DEF StartBridge
<1>4. device' \in [Client -> Device \cup {NoDevice}] /\ device'[1] = First
  BY <1>1, <1>2, FirstIs DEF TypeOK
<1>5. waiter' \in [Waiter -> {"off", "poll", "reload", "connect", "dial"}] /\ waiter'[0] = "poll"
      /\ \A w \in Waiter \ {0} : waiter'[w] = "off"
  BY <1>1, <1>3, Numbered DEF TypeOK
<1>6. TypeOK'
  BY <1>1, <1>2, <1>3, <1>4, <1>5 DEF TypeOK, dbVars, placeVars, bounds
<1>7. DownInv' /\ FreshInv' /\ PairInv'
  BY <1>1 DEF DownInv, FreshInv, PairInv
<1>8. SteadyInv'
  <2>1. home # Pending => devices # {} /\ attached = home
    BY <1>1 DEF SteadyInv
  <2>2. home # Pending => First \in devices
    BY <2>1, FirstIs
  <2>3. ~Contains(inbox[1], "LoggedOut")
    BY <1>1 DEF Contains
  <2> QED BY <1>1, <1>2, <1>4, <1>5, <2>1, <2>2, <2>3 DEF SteadyInv, placeVars, dbVars
<1>9. UnpairedIsWatched'
  BY <1>5, Numbered DEF UnpairedIsWatched
<1> QED BY <1>6, <1>7, <1>8, <1>9

LEMMA Stops ==
  ASSUME IInv, Stop
  PROVE  IInv'
<1> USE DEF IInv
<1>1. TypeOK'
  <2>1. troubles' \in 0..MaxTroubles
    BY Bounds DEF Stop
  <2>2. <<>> \in Seq(Events)
    BY EmptySeq
  <2>3. home' \in Dir /\ attached' \in Dir
    BY DEF Stop, Dir
  <2>4. made' \in 0..MaxClients
    BY Numbered DEF Stop
  <2> QED BY <2>1, <2>2, <2>3, <2>4 DEF TypeOK, Stop, dbVars, NotPairing
<1> QED BY <1>1 DEF Stop, DownInv, FreshInv, PairInv, SteadyInv, UnpairedIsWatched, NotPairing

----------------------------------------------------------------------------
(* The invariant, and what follows from it.                                *)

LEMMA InvInit == Init => IInv
<1> SUFFICES ASSUME Init PROVE IInv
  OBVIOUS
<1>1. TypeOK
  <2>1. pairings \in 0..MaxPairings /\ devices \subseteq 1..pairings
    BY DEF Init
  <2>2. <<>> \in Seq(Events) /\ Pending \in Dir
    BY EmptySeq DEF Dir
  <2>3. made \in 0..MaxClients /\ unlinks \in 0..MaxUnlinks /\ troubles \in 0..MaxTroubles
    BY Numbered DEF Init, Blank
  <2> QED BY <2>1, <2>2, <2>3 DEF TypeOK, Init, Blank, NotPairing, NoSetup
<1> QED BY <1>1 DEF IInv, Init, Blank, DownInv, FreshInv, PairInv, SteadyInv, UnpairedIsWatched, NotPairing

LEMMA InvNext == IInv /\ [Next]_vars => IInv'
<1> SUFFICES ASSUME IInv, [Next]_vars PROVE IInv'
  OBVIOUS
<1>1. CASE StartAccount \/ StartBridge \/ Stop
  BY <1>1, StartsAccount, StartsBridge, Stops
<1>2. ASSUME NEW w \in Waiter, WaiterStep(w) PROVE IInv'
  BY <1>2, Polls, Reloads, Connects, Dials DEF WaiterStep
<1>3. CASE PairStart \/ PairBegin \/ PairSuccess \/ PairTimeout \/ OnPaired
  BY <1>3, PairStarts, PairBegins, PairSucceeds, PairTimesOut, Paired
<1>4. CASE LogoutStart \/ LogoutCall \/ LogoutReset
  BY <1>4, LogoutStarts, LogoutCalls, LogoutResets
<1>5. ASSUME NEW c \in Client, HandleEvent(c) \/ Unlink(c) \/ Drop(c) \/ Redial(c) \/ AnonymousEnds(c)
      PROVE  IInv'
  BY <1>5, Handles, Unlinks, Drops, Redials, Ends
<1>6. CASE SetupStart \/ SetupPairs \/ SetupOnline \/ SetupEnds
  BY <1>6, Setups, SetupConnects
<1>7. CASE UNCHANGED vars
  BY <1>7, Quiet DEF IInv, TypeOK, PairInv, vars, goVars
<1> QED BY <1>1, <1>2, <1>3, <1>4, <1>5, <1>6, <1>7 DEF Next

LEMMA Invariance == Spec => []IInv
BY InvInit, InvNext, PTL DEF Spec

(* Types, and: a serve that is up has a client, and only a client with a   *)
(* device has a connection to keep.                                        *)
THEOREM Typed == Spec => []TypeOK
<1>1. IInv => TypeOK
  BY DEF IInv
<1> QED BY <1>1, Invariance, PTL

(* A bridge that is not paired is always watched: some goroutine will look *)
(* at session.db again, or a log-out is in hand that starts one, whichever *)
(* of the ways to lose or to replace a client were taken together          *)
(* (bridge.go:296-345, events.go).                                         *)
THEOREM UnpairedWatched == Spec => []UnpairedIsWatched
<1>1. IInv => UnpairedIsWatched
  BY DEF IInv
<1> QED BY <1>1, Invariance, PTL

(* Until it is logged out, or stops, serve works for the account it        *)
(* started on, and the client it has keeps its device.                     *)
LEMMA StaysPut ==
  ASSUME IInv, [Next]_vars, serve = "up", serve' # "down", ~unlinked'
  PROVE  /\ serve' = "up" /\ home' = home /\ account' = account /\ ~unlinked
         /\ made' = made /\ pairing.pc # "qr" => device' = device
<1> DEFINE Goal == /\ serve' = "up" /\ home' = home /\ account' = account /\ ~unlinked
                   /\ made' = made /\ pairing.pc # "qr" => device' = device
<1>1. ~StartAccount /\ ~StartBridge /\ ~Stop
  BY DEF StartAccount, StartBridge, Stop
<1>2. ASSUME NEW c PROVE ~Forget(c)
  BY DEF Forget
<1>3. ASSUME NEW d, SetClient(d) PROVE made' # made
  BY <1>3, Built DEF SetClient
<1>4. ASSUME NEW w \in Waiter, WaiterStep(w) PROVE Goal
  <2>1. CASE Poll(w) \/ Connect(w)
    BY <2>1 DEF Poll, Connect, placeVars, clientVars, dbVars
  <2>2. CASE Reload(w)
    BY <1>3, <2>2 DEF Reload, placeVars, dbVars
  <2>3. CASE Dial(w)
    BY <1>2, <2>3 DEF Dial, placeVars
  <2> QED BY <1>4, <2>1, <2>2, <2>3 DEF WaiterStep
<1>5. ASSUME PairStart \/ PairBegin \/ PairSuccess \/ PairTimeout \/ OnPaired PROVE Goal
  BY <1>5 DEF PairStart, PairBegin, PairSuccess, PairTimeout, OnPaired, placeVars, clientVars, dbVars
<1>6. ASSUME LogoutStart \/ LogoutCall PROVE Goal
  BY <1>2, <1>6 DEF LogoutStart, LogoutCall, placeVars, clientVars, dbVars
<1>7. ASSUME LogoutReset PROVE Goal
  BY <1>3, <1>7 DEF LogoutReset, Reinit, placeVars, dbVars
<1>8. ASSUME NEW c \in Client, HandleEvent(c) PROVE Goal
  BY <1>3, <1>8 DEF HandleEvent, Reinit, placeVars, dbVars
<1>9. ASSUME NEW c \in Client, Unlink(c) \/ Drop(c) \/ Redial(c) \/ AnonymousEnds(c) PROVE Goal
  BY <1>2, <1>9 DEF Unlink, Drop, Redial, AnonymousEnds, placeVars, dbVars
<1>10. ASSUME SetupStart \/ SetupPairs \/ SetupOnline \/ SetupEnds PROVE Goal
  BY <1>10 DEF SetupStart, SetupPairs, SetupOnline, SetupEnds, placeVars, clientVars, dbVars
<1>11. ASSUME UNCHANGED vars PROVE Goal
  BY <1>11 DEF vars, placeVars, clientVars, dbVars
<1> QED BY <1>1, <1>4, <1>5, <1>6, <1>7, <1>8, <1>9, <1>10, <1>11 DEF Next

(* A serve that is all of one account stays so for as long as it is not    *)
(* logged out, whatever setup and the dashboard pair, the goroutines that  *)
(* wait reload and the network takes down at the same time                 *)
(* (bridge.go:189-231, serve.go:228-262).                                  *)
THEOREM StaysApart == Spec => ApartUntilUnlinked
<1>1. ASSUME IInv, IInv', [Next]_vars, serve = "up", home # Pending, Apart, serve' # "down", ~unlinked'
      PROVE  Apart'
  <2>1. serve' = "up" /\ home' = home /\ account' = account /\ ~unlinked
    BY <1>1, StaysPut
  <2>2. /\ made = 1 /\ current = 1 /\ pairing.pc = "idle"
        /\ made' = 1 /\ current' = 1 /\ device'[1] \in devices' /\ attached' = home'
    BY <1>1, <2>1 DEF IInv, SteadyInv
  <2>3. device' = device /\ device[1] \in devices'
    BY <1>1, <2>2, StaysPut
  <2>4. ~NeedsPairing'
    <3>1. devices' \subseteq Device
      BY <1>1, Numbered DEF IInv, TypeOK, Device
    <3> QED BY <2>2, <3>1, Numbered DEF NeedsPairing
  <2>5. account[device[1]] = home
    BY <1>1, <2>2 DEF Apart
  <2>6. \A c \in Client : link'[c] \in {"up", "lost"} => c = 1
    BY <1>1, <2>2 DEF IInv, FreshInv, Client
  <2> QED BY <2>1, <2>2, <2>3, <2>4, <2>5, <2>6 DEF Apart
<1>2. IInv /\ IInv' /\ [Next]_vars =>
        [serve = "up" /\ home # Pending /\ Apart => serve' = "down" \/ unlinked' \/ Apart']_vars
  BY <1>1
<1> QED BY <1>2, Invariance, PTL DEF Spec, ApartUntilUnlinked
=============================================================================
