--------------------------- MODULE ClientsProofs ---------------------------
(***************************************************************************)
(* Theorems about the message store and those who use it, for any chats,   *)
(* any events, any readers, any number of messages, stops and folds: what  *)
(* the store keeps for its readers, and how the dashboard's history button *)
(* spaces what it asks WhatsApp for.                                       *)
(***************************************************************************)
EXTENDS Clients, FiniteSetTheorems, WellFoundedInduction, TLAPS

----------------------------------------------------------------------------
(* The history button: its stamps.                                         *)

Unstamped == [chat : Chosen, now : Nat, stamped : {FALSE}]
Stamped   == [chat : Chosen, now : Nat, stamped : {TRUE}, any : Int, last : Int]
Slot      == [chat : Chosen, now : Nat]
LastMaps  == UNION {[S -> Int] : S \in SUBSET Chosen}

SlotOf(q) == [chat |-> q.chat, now |-> q.now]
LastIn(f, jid) == IF jid \in DOMAIN f THEN f[jid] ELSE Never

(* The requests that hold a slot: stamped, and not answered yet.           *)
Holding == {q \in button.going : q.stamped}

ButtonTypeOK ==
  button \in [now : Nat, any : Int, last : LastMaps,
              going : SUBSET (Unstamped \cup Stamped), sent : SUBSET Slot]

(* A slot is held by one request, and counts as sent until it fails.       *)
HeldInv ==
  /\ \A q \in Holding : SlotOf(q) \in button.sent
  /\ \A q, r \in Holding : q.now = r.now => q = r

(* No stamp is older than a request that went out under it.                *)
StampInv ==
  \A s \in button.sent : s.now <= button.any /\ s.now <= LastFor(button, s.chat)

(* Nor is the stamp a request would give back, as far as the requests      *)
(* before it go.                                                           *)
BeforeInv ==
  \A q \in Holding, s \in button.sent :
    s.now < q.now => s.now <= q.any /\ (s.chat = q.chat => s.now <= q.last)

IInv == ButtonTypeOK /\ HeldInv /\ StampInv /\ BeforeInv /\ HistoryIsSpaced

LEMMA CooldownFacts == GlobalCooldown \in Nat \ {0} /\ ChatCooldown \in Nat \ {0}
  BY ReadersAssumption

LEMMA PutLast ==
  ASSUME NEW f \in LastMaps, NEW k \in Chosen, NEW v \in Int
  PROVE  /\ Put(f, k, v) \in LastMaps
         /\ LastIn(Put(f, k, v), k) = v
         /\ \A j : j # k => LastIn(Put(f, k, v), j) = LastIn(f, j)
<1>1. PICK S \in SUBSET Chosen : f \in [S -> Int]
  BY DEF LastMaps
<1>2. Put(f, k, v) = [x \in S \cup {k} |-> IF x = k THEN v ELSE f[x]]
  BY <1>1 DEF Put
<1>3. Put(f, k, v) \in [S \cup {k} -> Int]
  BY <1>1, <1>2
<1>4. QED
  BY <1>1, <1>2, <1>3 DEF LastMaps, LastIn

LEMMA LastType ==
  ASSUME NEW f \in LastMaps, NEW j
  PROVE  LastIn(f, j) \in Int
  BY DEF LastMaps, LastIn, Never

LEMMA ButtonFacts ==
  ASSUME ButtonTypeOK
  PROVE  /\ button.now \in Nat /\ button.any \in Int /\ button.last \in LastMaps
         /\ button.going \subseteq Unstamped \cup Stamped /\ button.sent \subseteq Slot
         /\ \A j : LastFor(button, j) = LastIn(button.last, j)
         /\ Holding \subseteq Stamped
         /\ button = [now |-> button.now, any |-> button.any, last |-> button.last,
                      going |-> button.going, sent |-> button.sent]
  BY DEF ButtonTypeOK, LastFor, LastIn, Holding, Unstamped

LEMMA ButtonInit == ClientsInit => IInv
<1> SUFFICES ASSUME button = NoButton
             PROVE  IInv
  BY DEF ClientsInit, ReadInit
<1>1. <<>> \in LastMaps
  BY DEF LastMaps
<1>2. ButtonTypeOK
  BY <1>1 DEF NoButton, ButtonTypeOK, Never
<1>3. Holding = {} /\ button.sent = {}
  BY DEF NoButton, Holding
<1>4. QED
  BY <1>2, <1>3 DEF IInv, HeldInv, StampInv, BeforeInv, HistoryIsSpaced

----------------------------------------------------------------------------
(* The steps of the button.                                                *)

(* A step that moves no slot and no stamp.                                 *)
LEMMA SameSlots ==
  ASSUME IInv, ButtonTypeOK', Holding' = Holding,
         button'.any = button.any, button'.last = button.last, button'.sent = button.sent
  PROVE  IInv'
  BY DEF IInv, HeldInv, StampInv, BeforeInv, HistoryIsSpaced, LastFor

LEMMA ClickStep ==
  ASSUME IInv, NEW jid \in Chosen, ClickHistory(jid)
  PROVE  IInv'
<1> DEFINE q == [chat |-> jid, now |-> button.now, stamped |-> FALSE]
<1>1. button' = [button EXCEPT !.going = @ \cup {q}]
  BY DEF ClickHistory
<1>2. ButtonTypeOK /\ q \in Unstamped
  BY ButtonFacts DEF IInv, Unstamped
<1>3. ButtonTypeOK'
  BY <1>1, <1>2 DEF ButtonTypeOK
<1>4. /\ button'.going = button.going \cup {q} /\ button'.any = button.any
      /\ button'.last = button.last /\ button'.sent = button.sent
  BY <1>1, <1>2 DEF ButtonTypeOK
<1>5. Holding' = Holding
  BY <1>4 DEF Holding
<1>6. QED
  BY <1>3, <1>4, <1>5, SameSlots

LEMMA ClockStep ==
  ASSUME IInv, button' = [button EXCEPT !.now = @ + 1]
  PROVE  IInv'
<1>1. ButtonTypeOK /\ ButtonTypeOK'
  BY DEF IInv, ButtonTypeOK
<1>2. /\ button'.going = button.going /\ button'.any = button.any
      /\ button'.last = button.last /\ button'.sent = button.sent
  BY <1>1 DEF ButtonTypeOK
<1>3. QED
  BY <1>1, <1>2, SameSlots DEF Holding

(* The slot is taken: both cooldowns have passed since its stamps, hence   *)
(* since every request that went out.                                      *)
LEMMA TakeStep ==
  ASSUME IInv, NEW q \in button.going, TakeSlot(q), ~TooSoon(button, q)
  PROVE  IInv'
<1> DEFINE s == [chat |-> q.chat, now |-> q.now]
           h == [chat |-> q.chat, now |-> q.now, stamped |-> TRUE,
                 any |-> button.any, last |-> LastFor(button, q.chat)]
<1>1. /\ ~q.stamped
      /\ button' = [button EXCEPT !.any = q.now, !.last = Put(@, q.chat, q.now),
                      !.sent = @ \cup {s}, !.going = (@ \ {q}) \cup {h}]
  BY DEF TakeSlot
<1>2. q.chat \in Chosen /\ q.now \in Nat
  BY ButtonFacts DEF IInv, Unstamped, Stamped
<1>3. /\ button.any \in Int /\ button.last \in LastMaps /\ LastFor(button, q.chat) \in Int
      /\ Put(button.last, q.chat, q.now) \in LastMaps
  BY <1>2, ButtonFacts, LastType, PutLast DEF IInv
<1>4. s \in Slot /\ h \in Stamped /\ h.stamped
  BY <1>2, <1>3 DEF Slot, Stamped
<1>5. ButtonTypeOK'
  <2> HIDE DEF s, h
  <2>1. /\ button.going \subseteq Unstamped \cup Stamped
        /\ button.sent \cup {s} \subseteq Slot /\ q.now \in Int
    BY <1>2, <1>4, ButtonFacts DEF IInv
  <2>2. (button.going \ {q}) \cup {h} \subseteq Unstamped \cup Stamped
    BY <1>4, <2>1
  <2>3. QED
    BY <1>1, <1>3, <2>1, <2>2 DEF IInv, ButtonTypeOK
<1>6. /\ button'.any = q.now /\ button'.last = Put(button.last, q.chat, q.now)
      /\ button'.sent = button.sent \cup {s} /\ button'.going = (button.going \ {q}) \cup {h}
  BY <1>1 DEF IInv, ButtonTypeOK
<1>7. Holding' = Holding \cup {h}
  BY <1>1, <1>4, <1>6 DEF Holding
<1>8. Holding \subseteq Stamped /\ button.sent \subseteq Slot
  BY ButtonFacts DEF IInv
<1>9. /\ q.now - button.any >= GlobalCooldown
      /\ q.now - LastFor(button, q.chat) >= ChatCooldown
  BY <1>2, <1>3, CooldownFacts DEF TooSoon
<1>10. /\ h.now = q.now /\ h.chat = q.chat /\ h.any = button.any /\ h.last = LastFor(button, q.chat)
       /\ s.now = q.now /\ s.chat = q.chat /\ SlotOf(h) = s
  BY DEF SlotOf
<1>11. ASSUME NEW r \in button.sent
       PROVE  /\ r.now \in Nat /\ r.chat \in Chosen
              /\ r.now <= button.any /\ r.now < q.now /\ q.now - r.now >= GlobalCooldown
              /\ r.chat = q.chat => /\ r.now <= LastFor(button, q.chat)
                                    /\ q.now - r.now >= ChatCooldown
  <2>1. r.now \in Nat /\ r.chat \in Chosen
    BY <1>8 DEF Slot
  <2>2. r.now <= button.any /\ r.now <= LastFor(button, r.chat)
    BY DEF IInv, StampInv
  <2>3. QED
    BY <1>2, <1>3, <1>9, <2>1, <2>2, CooldownFacts
<1>12. ASSUME NEW g \in Holding
       PROVE  g.now \in Nat /\ g.now < q.now
  <2>1. SlotOf(g) \in button.sent
    BY DEF IInv, HeldInv
  <2>2. QED
    BY <1>8, <1>11, <2>1 DEF SlotOf, Stamped
<1>13. HeldInv'
  <2>1. \A g \in Holding' : SlotOf(g) \in button'.sent
    BY <1>6, <1>7, <1>10 DEF IInv, HeldInv
  <2>2. \A g, k \in Holding' : g.now = k.now => g = k
    <3> HIDE DEF h
    <3>1. \A g, k \in Holding : g.now = k.now => g = k
      BY DEF IInv, HeldInv
    <3>2. \A g \in Holding : g.now # h.now
      BY <1>2, <1>10, <1>12
    <3>3. QED
      BY <1>7, <3>1, <3>2
  <2>3. QED
    BY <2>1, <2>2 DEF HeldInv
<1>14. StampInv'
  <2>1. \A j : LastFor(button', j) = LastIn(button'.last, j)
    BY DEF LastFor, LastIn
  <2>2. LastFor(button', q.chat) = q.now /\ \A j : j # q.chat => LastFor(button', j) = LastFor(button, j)
    BY <1>2, <1>3, <1>6, <2>1, PutLast, ButtonFacts DEF IInv
  <2>3. SUFFICES ASSUME NEW r \in button'.sent
                 PROVE  r.now <= button'.any /\ r.now <= LastFor(button', r.chat)
    BY DEF StampInv
  <2>4. CASE r = s
    BY <1>2, <1>6, <1>10, <2>2, <2>4
  <2>5. CASE r \in button.sent
    <3>1. r.now < q.now /\ r.now \in Nat
      BY <1>11, <2>5
    <3>2. r.now <= LastFor(button, r.chat)
      BY <2>5 DEF IInv, StampInv
    <3>3. QED
      BY <1>2, <1>6, <2>2, <3>1, <3>2
  <2>6. QED
    BY <1>6, <2>4, <2>5
<1>15. BeforeInv'
  <2>1. SUFFICES ASSUME NEW g \in Holding', NEW r \in button'.sent, r.now < g.now
                 PROVE  r.now <= g.any /\ (r.chat = g.chat => r.now <= g.last)
    BY DEF BeforeInv
  <2>2. CASE g = h
    <3>1. r \in button.sent
      BY <1>2, <1>6, <1>10, <2>1, <2>2
    <3>2. QED
      BY <1>10, <1>11, <2>2, <3>1
  <2>3. CASE g \in Holding
    <3>1. r \in button.sent
      BY <1>2, <1>6, <1>10, <1>12, <2>1, <2>3
    <3>2. QED
      BY <2>1, <2>3, <3>1 DEF IInv, BeforeInv
  <2>4. QED
    BY <1>7, <2>2, <2>3
<1>16. HistoryIsSpaced'
  <2>1. SUFFICES ASSUME NEW a \in button'.sent, NEW b \in button'.sent, a # b
                 PROVE  LET apart == IF a.now >= b.now THEN a.now - b.now ELSE b.now - a.now
                        IN  apart >= GlobalCooldown /\ (a.chat = b.chat => apart >= ChatCooldown)
    BY DEF HistoryIsSpaced
  <2>2. CASE a \in button.sent /\ b \in button.sent
    BY <2>1, <2>2 DEF IInv, HistoryIsSpaced
  <2>3. CASE a = s /\ b \in button.sent
    BY <1>2, <1>10, <1>11, <2>3
  <2>4. CASE a \in button.sent /\ b = s
    BY <1>2, <1>10, <1>11, <2>4
  <2>5. QED
    BY <1>6, <2>1, <2>2, <2>3, <2>4
<1>17. QED
  BY <1>5, <1>13, <1>14, <1>15, <1>16 DEF IInv

LEMMA RefusedStep ==
  ASSUME IInv, NEW q \in button.going, TakeSlot(q), TooSoon(button, q)
  PROVE  IInv'
<1>1. ~q.stamped /\ button' = [button EXCEPT !.going = @ \ {q}]
  BY DEF TakeSlot
<1>2. ButtonTypeOK'
  BY <1>1 DEF IInv, ButtonTypeOK
<1>3. /\ button'.going = button.going \ {q} /\ button'.any = button.any
      /\ button'.last = button.last /\ button'.sent = button.sent
  BY <1>1 DEF IInv, ButtonTypeOK
<1>4. QED
  BY <1>1, <1>2, <1>3, SameSlots DEF Holding

(* The request failed: its slot is given back, and with it the stamps that *)
(* are still its own.                                                      *)
LEMMA GiveBackStep ==
  ASSUME IInv, NEW q \in button.going, AnswerHistory(q, FALSE)
  PROVE  IInv'
<1> DEFINE s == [chat |-> q.chat, now |-> q.now]
           c == [button EXCEPT !.going = @ \ {q}, !.sent = @ \ {s}]
<1>1. q \in Holding /\ q \in Stamped
  BY ButtonFacts DEF IInv, AnswerHistory, Holding
<1>2. q.chat \in Chosen /\ q.now \in Nat /\ q.any \in Int /\ q.last \in Int
  BY <1>1 DEF Stamped
<1>3. button.any \in Int /\ button.last \in LastMaps /\ LastFor(button, q.chat) \in Int
  BY ButtonFacts, LastType DEF IInv
<1>4. /\ c \in [now : Nat, any : Int, last : LastMaps,
                going : SUBSET (Unstamped \cup Stamped), sent : SUBSET Slot]
      /\ c.now = button.now /\ c.any = button.any /\ c.last = button.last
      /\ c.going = button.going \ {q} /\ c.sent = button.sent \ {s}
  BY DEF IInv, ButtonTypeOK
<1>5. button' = GiveBack(c, q)
  BY DEF AnswerHistory, IInv, ButtonTypeOK
<1>6. /\ button' \in [now : Nat, any : Int, last : LastMaps,
                     going : SUBSET (Unstamped \cup Stamped), sent : SUBSET Slot]
      /\ button'.any = IF button.any = q.now THEN q.any ELSE button.any
      /\ button'.last = IF LastFor(button, q.chat) = q.now THEN Put(button.last, q.chat, q.last) ELSE button.last
      /\ button'.going = button.going \ {q}
      /\ button'.sent = button.sent \ {s}
  <2> HIDE DEF c
  <2>1. Put(c.last, q.chat, q.last) \in LastMaps
    BY <1>2, <1>4, PutLast
  <2>2. LastFor(c, q.chat) = LastFor(button, q.chat)
    BY <1>4 DEF LastFor
  <2>3. QED
    BY <1>2, <1>4, <1>5, <2>1, <2>2 DEF GiveBack
<1>7. ButtonTypeOK'
  BY <1>6 DEF ButtonTypeOK
<1>8. Holding' = Holding \ {q}
  BY <1>6 DEF Holding
<1>9. ASSUME NEW r \in button'.sent
      PROVE  /\ r \in button.sent /\ r.now \in Nat /\ r.chat \in Chosen
             /\ r.now # q.now
             /\ r.now < q.now => r.now <= q.any /\ (r.chat = q.chat => r.now <= q.last)
  <2>1. r \in button.sent /\ r # s /\ r.now \in Nat /\ r.chat \in Chosen
    BY <1>6, ButtonFacts DEF IInv, Slot
  <2>2. s \in button.sent /\ s.now = q.now
    BY <1>1 DEF IInv, HeldInv, SlotOf
  <2>3. r.now # q.now
    <3>1. SUFFICES ASSUME r.now = s.now
                   PROVE  FALSE
      BY <2>2
    <3>2. r.now - s.now >= GlobalCooldown
      BY <2>1, <2>2, <3>1, <1>2 DEF IInv, HistoryIsSpaced
    <3>3. QED
      BY <2>1, <3>1, <3>2, CooldownFacts
  <2>4. QED
    BY <1>1, <2>1, <2>3 DEF IInv, BeforeInv
<1>10. HeldInv'
  <2>1. \A g, k \in Holding' : g.now = k.now => g = k
    BY <1>8 DEF IInv, HeldInv
  <2>2. ASSUME NEW g \in Holding'
        PROVE  SlotOf(g) \in button'.sent
    <3>1. g \in Holding /\ g # q /\ SlotOf(g) \in button.sent
      BY <1>8 DEF IInv, HeldInv
    <3>2. g.now # q.now
      BY <1>1, <3>1 DEF IInv, HeldInv
    <3>3. SlotOf(g).now # s.now
      BY <3>2 DEF SlotOf
    <3>4. QED
      BY <1>6, <3>1, <3>3
  <2>3. QED
    BY <2>1, <2>2 DEF HeldInv
<1>11. StampInv'
  <2>1. SUFFICES ASSUME NEW r \in button'.sent
                 PROVE  r.now <= button'.any /\ r.now <= LastFor(button', r.chat)
    BY DEF StampInv
  <2>2. /\ r \in button.sent /\ r.now \in Nat /\ r.chat \in Chosen /\ r.now # q.now
        /\ r.now < q.now => r.now <= q.any /\ (r.chat = q.chat => r.now <= q.last)
    BY <1>9
  <2>3. r.now <= button.any /\ r.now <= LastFor(button, r.chat)
    BY <2>2 DEF IInv, StampInv
  <2>4. r.now <= button'.any
    BY <1>2, <1>3, <1>6, <2>2, <2>3
  <2>5. LastFor(button', r.chat) = IF LastFor(button, q.chat) = q.now /\ r.chat = q.chat
                                   THEN q.last ELSE LastFor(button, r.chat)
    BY <1>2, <1>3, <1>6, PutLast DEF LastFor, LastIn
  <2>6. r.now <= LastFor(button', r.chat)
    BY <1>2, <1>3, <2>2, <2>3, <2>5
  <2>7. QED
    BY <2>4, <2>6
<1>12. BeforeInv'
  BY <1>8, <1>9 DEF IInv, BeforeInv
<1>13. HistoryIsSpaced'
  BY <1>9 DEF IInv, HistoryIsSpaced
<1>14. QED
  BY <1>7, <1>10, <1>11, <1>12, <1>13 DEF IInv

(* The request was sent: its slot stays taken.                             *)
LEMMA SentStep ==
  ASSUME IInv, NEW q \in button.going, AnswerHistory(q, TRUE)
  PROVE  IInv'
<1>1. button' = [button EXCEPT !.going = @ \ {q}]
  BY DEF AnswerHistory
<1>2. ButtonTypeOK'
  BY <1>1 DEF IInv, ButtonTypeOK
<1>3. /\ button'.going = button.going \ {q} /\ button'.any = button.any
      /\ button'.last = button.last /\ button'.sent = button.sent
  BY <1>1 DEF IInv, ButtonTypeOK
<1>4. Holding' \subseteq Holding
  BY <1>3 DEF Holding
<1>5. QED
  BY <1>2, <1>3, <1>4 DEF IInv, HeldInv, StampInv, BeforeInv, HistoryIsSpaced, LastFor

LEMMA ClickingStep ==
  ASSUME IInv, Clicking
  PROVE  IInv'
<1>1. CASE \E jid \in Chosen : ClickHistory(jid)
  BY <1>1, ClickStep
<1>2. CASE \E q \in button.going : TakeSlot(q)
  BY <1>2, TakeStep, RefusedStep
<1>3. CASE \E q \in button.going, ok \in BOOLEAN : AnswerHistory(q, ok)
  <2>1. PICK q \in button.going, ok \in BOOLEAN : AnswerHistory(q, ok)
    BY <1>3
  <2>2. CASE ok = TRUE
    BY <2>1, <2>2, SentStep
  <2>3. CASE ok = FALSE
    BY <2>1, <2>3, GiveBackStep
  <2>4. QED
    BY <2>2, <2>3
<1>4. CASE button' = [button EXCEPT !.now = @ + 1]
  BY <1>4, ClockStep
<1>5. QED
  BY <1>1, <1>2, <1>3, <1>4 DEF Clicking

(* Nobody else touches the button.                                         *)
LEMMA OtherStep ==
  ASSUME [ClientsNext]_clientVars, ~Clicking
  PROVE  UNCHANGED button
  BY DEF ClientsNext, clientVars, allVars, readVars, ReadNext, BridgeStep, Polling, EditScope,
         FetchOlder, Browsing

LEMMA StepInv ==
  ASSUME IInv, [ClientsNext]_clientVars
  PROVE  IInv'
<1>1. CASE Clicking
  BY <1>1, ClickingStep
<1>2. CASE ~Clicking
  <2>1. UNCHANGED button
    BY <1>2, OtherStep
  <2>2. QED
    BY <2>1 DEF IInv, ButtonTypeOK, HeldInv, StampInv, BeforeInv, HistoryIsSpaced, Holding, LastFor
<1>3. QED
  BY <1>1, <1>2

(* dashboard/api.go (handleHistory): the requests for older history that   *)
(* did not fail are as far apart as both cooldowns ask, however many are   *)
(* on their way at once, in whatever order they take their slots, fail and *)
(* give them back.                                                         *)
THEOREM HistorySpaced == ClientsSpec => []HistoryIsSpaced
<1>1. IInv => HistoryIsSpaced
  BY DEF IInv
<1>2. QED
  BY <1>1, ButtonInit, StepInv, PTL DEF ClientsSpec

----------------------------------------------------------------------------
(* The store: what its chats and rows have to do with each other.          *)

(* What the chats and the rows of a database look like.                    *)
ChatRows(d) == /\ IsFiniteSet(DOMAIN d.chats)
               /\ \A c \in DOMAIN d.chats : /\ DOMAIN d.chats[c] = {"name", "group", "last"}
                                            /\ d.chats[c].last \in Int
MessageRows(d) == /\ IsFiniteSet(DOMAIN d.msgs) /\ DOMAIN d.msgs \subseteq Nat
                  /\ \A r \in DOMAIN d.msgs : /\ {"chat", "id", "sender", "ts", "read"} \subseteq DOMAIN d.msgs[r]
                                              /\ d.msgs[r].ts \in Int
Shaped(d) == /\ DOMAIN d = {"chats", "msgs", "contacts", "lids", "calls"}
             /\ ChatRows(d) /\ MessageRows(d)

(* The chat is listed, and as recent as the time.                          *)
Listed(d, chat, ts) == chat \in DOMAIN d.chats /\ d.chats[chat].last >= ts

Covers(d) == \A r \in DOMAIN d.msgs : Listed(d, d.msgs[r].chat, d.msgs[r].ts)
OneRow(d) == \A q, r \in DOMAIN d.msgs :
               d.msgs[q].chat = d.msgs[r].chat /\ d.msgs[q].id = d.msgs[r].id => q = r
Sound(d) == Shaped(d) /\ Covers(d) /\ OneRow(d)

(* No chat but a LID's goes, and none becomes less recent.                 *)
Grows(d, e) == \A c \in DOMAIN d.chats : c \in DOMAIN e.chats /\ e.chats[c].last >= d.chats[c].last

LEMMA NatWF ==
  ASSUME NEW T, T \subseteq Nat, T # {}
  PROVE  \E n \in T : \A m \in T : ~(m < n)
<1> DEFINE R == OpToRel(<, Nat)
<1>1. IsWellFoundedOn(R, Nat)
  BY NatLessThanWellFounded
<1>2. PICK n \in T : \A m \in T : ~(<<m, n>> \in R)
  BY <1>1, WFMin
<1>3. QED
  BY <1>2 DEF OpToRel

(* A finite set of integers that is not empty has a largest member.        *)
LEMMA MaxOfFinite ==
  ASSUME NEW S, IsFiniteSet(S), S # {}, S \subseteq Int
  PROVE  Max(S) \in S /\ \A x \in S : Max(S) >= x
<1> DEFINE HasMax(A) == \E x \in A : \A y \in A : x >= y
           T == {k \in Nat : \E A \in SUBSET S : A # {} /\ Cardinality(A) = k /\ ~HasMax(A)}
<1>1. SUFFICES T = {}
  <2>1. Cardinality(S) \in Nat
    BY FS_CardinalityType
  <2>2. HasMax(S)
    BY <1>1, <2>1
  <2> QED BY <2>2 DEF Max
<1>2. SUFFICES ASSUME T # {} PROVE FALSE
  OBVIOUS
<1>3. PICK n \in T : \A m \in T : ~(m < n)
  BY <1>2, NatWF
<1>4. PICK A \in SUBSET S : A # {} /\ Cardinality(A) = n /\ ~HasMax(A)
  BY <1>3
<1>5. PICK a : a \in A
  BY <1>4
<1>6. IsFiniteSet(A)
  BY FS_Subset
<1>7. IsFiniteSet(A \ {a}) /\ Cardinality(A \ {a}) = n - 1 /\ Cardinality(A \ {a}) \in Nat
  BY <1>4, <1>5, <1>6, FS_RemoveElement, FS_CardinalityType
<1>8. CASE A \ {a} = {}
  <2>1. A = {a} /\ a \in Int
    BY <1>5, <1>8
  <2> QED BY <1>4, <2>1
<1>9. CASE A \ {a} # {}
  <2>1. n - 1 \notin T
    BY <1>3
  <2>2. HasMax(A \ {a})
    BY <1>7, <1>9, <2>1
  <2>3. PICK x \in A \ {a} : \A y \in A \ {a} : x >= y
    BY <2>2
  <2>4. x \in Int /\ a \in Int /\ \A y \in A : y \in Int
    BY <1>5
  <2>5. CASE x >= a
    BY <1>4, <2>3, <2>4, <2>5
  <2>6. CASE a >= x
    <3>1. \A y \in A : a >= y
      BY <2>3, <2>4, <2>6
    <3> QED BY <1>4, <1>5, <3>1
  <2> QED BY <2>4, <2>5, <2>6
<1> QED BY <1>8, <1>9

LEMMA UpsertChatSound ==
  ASSUME NEW d, Sound(d), NEW jid, NEW name, NEW group, NEW ts \in Int
  PROVE  LET e == UpsertChat(d, jid, name, group, ts)
         IN  Sound(e) /\ Grows(d, e) /\ Listed(e, jid, ts)
<1> DEFINE e == UpsertChat(d, jid, name, group, ts)
           old == IF jid \in DOMAIN d.chats THEN d.chats[jid]
                  ELSE [name |-> NoName, group |-> group, last |-> 0]
           new == [name |-> FirstNamed(<<name, old.name>>), group |-> group, last |-> Later(old.last, ts)]
<1>1. /\ DOMAIN e = DOMAIN d /\ e.msgs = d.msgs /\ e.chats = Put(d.chats, jid, new)
  BY DEF UpsertChat, Sound, Shaped
<1>2. old.last \in Int
  BY DEF Sound, Shaped, ChatRows
<1>3. new.last \in Int /\ new.last >= old.last /\ new.last >= ts /\ DOMAIN new = {"name", "group", "last"}
  BY <1>2 DEF Later
<1> HIDE DEF e, new
<1>4. /\ DOMAIN e.chats = DOMAIN d.chats \cup {jid}
      /\ e.chats[jid] = new /\ \A c \in DOMAIN d.chats : c # jid => e.chats[c] = d.chats[c]
  BY <1>1 DEF Put
<1>5. ChatRows(e)
  <2>1. IsFiniteSet(DOMAIN e.chats)
    BY <1>4, FS_AddElement DEF Sound, Shaped, ChatRows
  <2> QED BY <1>3, <1>4, <2>1 DEF Sound, Shaped, ChatRows
<1>6. Grows(d, e)
  BY <1>3, <1>4 DEF Grows, Sound, Shaped, ChatRows
<1>7. Covers(e)
  BY <1>1, <1>3, <1>5, <1>6 DEF Grows, Sound, Shaped, ChatRows, MessageRows, Covers, Listed
<1>8. MessageRows(e) /\ OneRow(e)
  BY <1>1 DEF Sound, Shaped, MessageRows, OneRow
<1> QED BY <1>1, <1>3, <1>4, <1>5, <1>6, <1>7, <1>8 DEF Sound, Shaped, Listed, e

RowFields == {"chat", "id", "sender", "ts"}

LEMMA UpsertMessageSound ==
  ASSUME NEW d, Sound(d), NEW m, RowFields \subseteq DOMAIN m, m.ts \in Int, Listed(d, m.chat, m.ts)
  PROVE  LET e == UpsertMessage(d, m)
         IN  Sound(e) /\ Grows(d, e)
<1> DEFINE e == UpsertMessage(d, m)
           hit == RowAt(d, m.chat, m.id)
           r == IF hit = {} THEN NextRowID(d) ELSE OneOf(hit)
           at == IF hit = {} THEN 0 ELSE d.msgs[r].read
           row == Put(m, "read", at)
           last == Later(d.chats[m.chat].last, m.ts)
<1>1. /\ DOMAIN e = DOMAIN d /\ e.msgs = Put(d.msgs, r, row)
      /\ e.chats = [d.chats EXCEPT ![m.chat].last = last]
  BY DEF UpsertMessage, Sound, Shaped, Listed
<1>2. r \in Nat /\ \A q \in DOMAIN d.msgs : d.msgs[q].chat = m.chat /\ d.msgs[q].id = m.id => q = r
  <2>1. CASE hit = {}
    <3>1. IsFiniteSet({0} \cup DOMAIN d.msgs)
      <4>1. IsFiniteSet(DOMAIN d.msgs \cup {0})
        BY FS_AddElement DEF Sound, Shaped, MessageRows
      <4>2. DOMAIN d.msgs \cup {0} = {0} \cup DOMAIN d.msgs
        OBVIOUS
      <4> QED BY <4>1, <4>2
    <3>2. {0} \cup DOMAIN d.msgs \subseteq Nat
      BY DEF Sound, Shaped, MessageRows
    <3>3. Max({0} \cup DOMAIN d.msgs) \in {0} \cup DOMAIN d.msgs
      BY <3>1, <3>2, MaxOfFinite
    <3>4. r \in Nat
      BY <2>1, <3>2, <3>3 DEF NextRowID
    <3> QED BY <2>1, <3>4 DEF RowAt, RowsOf
  <2>2. CASE hit # {}
    <3>1. r \in hit
      BY <2>2 DEF OneOf
    <3> QED BY <3>1 DEF RowAt, RowsOf, Sound, Shaped, MessageRows, OneRow
  <2> QED BY <2>1, <2>2
<1> HIDE DEF r, at, e
<1>3. /\ DOMAIN row = DOMAIN m \cup {"read"}
      /\ row.chat = m.chat /\ row.id = m.id /\ row.ts = m.ts
  BY DEF Put, RowFields
<1> HIDE DEF row
<1>4. /\ DOMAIN e.msgs = DOMAIN d.msgs \cup {r} /\ e.msgs[r] = row
      /\ \A q \in DOMAIN d.msgs : q # r => e.msgs[q] = d.msgs[q]
  BY <1>1 DEF Put
<1>5. d.chats[m.chat].last \in Int /\ last \in Int /\ last >= m.ts /\ last >= d.chats[m.chat].last
  BY DEF Later, Sound, Shaped, ChatRows, Listed
<1>6. /\ DOMAIN e.chats = DOMAIN d.chats /\ e.chats[m.chat].last = last
      /\ DOMAIN e.chats[m.chat] = DOMAIN d.chats[m.chat]
      /\ \A c \in DOMAIN d.chats : c # m.chat => e.chats[c] = d.chats[c]
  BY <1>1 DEF Listed, Sound, Shaped, ChatRows
<1> HIDE DEF last
<1>7. Grows(d, e)
  BY <1>5, <1>6 DEF Grows, Sound, Shaped, ChatRows, Listed
<1>8. ChatRows(e)
  BY <1>5, <1>6 DEF Sound, Shaped, ChatRows, Listed
<1>9. MessageRows(e)
  <2>1. IsFiniteSet(DOMAIN e.msgs)
    BY <1>4, FS_AddElement DEF Sound, Shaped, MessageRows
  <2> QED BY <1>2, <1>3, <1>4, <2>1 DEF Sound, Shaped, MessageRows, RowFields
<1>10. Covers(e)
  <2> SUFFICES ASSUME NEW q \in DOMAIN e.msgs
               PROVE  Listed(e, e.msgs[q].chat, e.msgs[q].ts)
    BY DEF Covers
  <2>1. CASE q = r
    BY <1>3, <1>4, <1>5, <1>6, <2>1 DEF Listed
  <2>2. CASE q # r
    <3>1. q \in DOMAIN d.msgs /\ e.msgs[q] = d.msgs[q] /\ d.msgs[q].ts \in Int
      BY <1>4, <2>2 DEF Sound, Shaped, MessageRows
    <3>2. Listed(d, d.msgs[q].chat, d.msgs[q].ts)
      BY <3>1 DEF Sound, Covers
    <3>3. e.chats[d.msgs[q].chat].last >= d.chats[d.msgs[q].chat].last
      BY <1>7, <3>2 DEF Grows, Listed
    <3> QED BY <1>6, <1>8, <3>1, <3>2, <3>3 DEF Listed, Sound, Shaped, ChatRows
  <2> QED BY <2>1, <2>2
<1>11. OneRow(e)
  BY <1>2, <1>3, <1>4 DEF OneRow, Sound
<1> QED BY <1>1, <1>7, <1>8, <1>9, <1>10, <1>11 DEF Sound, Shaped, e

(* ... the same of the chats that are not a LID's.                         *)
Keeps(d, e) == \A c \in DOMAIN d.chats : c.s # "lid" =>
                 c \in DOMAIN e.chats /\ e.chats[c].last >= d.chats[c].last

LEMMA SameRows ==
  ASSUME NEW d, Sound(d), NEW e, DOMAIN e = DOMAIN d, e.chats = d.chats,
         DOMAIN e.msgs = DOMAIN d.msgs,
         \A r \in DOMAIN d.msgs : /\ DOMAIN e.msgs[r] = DOMAIN d.msgs[r]
                                  /\ e.msgs[r].chat = d.msgs[r].chat
                                  /\ e.msgs[r].id = d.msgs[r].id /\ e.msgs[r].ts = d.msgs[r].ts
  PROVE  Sound(e) /\ Keeps(d, e)
<1>1. ChatRows(e) /\ MessageRows(e)
  BY DEF Sound, Shaped, ChatRows, MessageRows
<1>2. Covers(e) /\ OneRow(e)
  BY DEF Sound, Covers, OneRow, Listed
<1>3. Keeps(d, e)
  BY <1>1 DEF Keeps, ChatRows
<1> QED BY <1>1, <1>2, <1>3 DEF Sound, Shaped

(* The rows a fold leaves: moved or not, and still one for each message.   *)
LEMMA RowsAfterFoldSound ==
  ASSUME NEW d, Sound(d), NEW lids
  PROVE  LET to(r) == IF d.msgs[r].chat \in lids THEN Pn(d.msgs[r].chat.u) ELSE d.msgs[r].chat
             rows == RowsAfterFold(d, lids)
         IN  /\ DOMAIN rows \subseteq DOMAIN d.msgs
             /\ \A r \in DOMAIN rows : /\ DOMAIN rows[r] = DOMAIN d.msgs[r] /\ rows[r].chat = to(r)
                                       /\ \A f \in DOMAIN d.msgs[r] : f # "chat" => rows[r][f] = d.msgs[r][f]
             /\ \A q, r \in DOMAIN rows : rows[q].chat = rows[r].chat /\ rows[q].id = rows[r].id => q = r
<1> DEFINE moves(r) == d.msgs[r].chat \in lids
           to(r)    == IF moves(r) THEN Pn(d.msgs[r].chat.u) ELSE d.msgs[r].chat
           twice(r) == moves(r) /\ \E q \in DOMAIN d.msgs \ {r} :
                          d.msgs[q].id = d.msgs[r].id /\ to(q) = to(r) /\ (moves(q) => q < r)
           rows == RowsAfterFold(d, lids)
<1>1. rows = [r \in {q \in DOMAIN d.msgs : ~twice(q)} |-> [d.msgs[r] EXCEPT !.chat = to(r)]]
  BY DEF RowsAfterFold
<1> HIDE DEF rows
<1>2. /\ DOMAIN rows = {q \in DOMAIN d.msgs : ~twice(q)}
      /\ \A r \in DOMAIN rows : rows[r] = [d.msgs[r] EXCEPT !.chat = to(r)]
  BY <1>1
<1>3. \A r \in DOMAIN d.msgs : "chat" \in DOMAIN d.msgs[r] /\ "id" \in DOMAIN d.msgs[r] /\ r \in Nat
  BY DEF Sound, Shaped, MessageRows
<1>4. ASSUME NEW r \in DOMAIN rows
      PROVE  /\ DOMAIN rows[r] = DOMAIN d.msgs[r] /\ rows[r].chat = to(r) /\ rows[r].id = d.msgs[r].id
             /\ \A f \in DOMAIN d.msgs[r] : f # "chat" => rows[r][f] = d.msgs[r][f]
  <2> HIDE DEF to
  <2>1. rows[r] = [d.msgs[r] EXCEPT !.chat = to(r)] /\ "chat" \in DOMAIN d.msgs[r] /\ "id" \in DOMAIN d.msgs[r]
    BY <1>2, <1>3
  <2> QED BY <2>1
<1>5. ASSUME NEW q \in DOMAIN rows, NEW r \in DOMAIN rows, rows[q].chat = rows[r].chat, rows[q].id = rows[r].id
      PROVE  q = r
  <2>1. to(q) = to(r) /\ d.msgs[q].id = d.msgs[r].id
    <3>1. rows[q].id = d.msgs[q].id /\ rows[r].id = d.msgs[r].id
      BY <1>4
    <3> QED BY <1>4, <1>5, <3>1
  <2>2. CASE ~moves(q) /\ ~moves(r)
    BY <1>2, <2>1, <2>2 DEF Sound, OneRow
  <2>3. CASE moves(q) \/ moves(r)
    <3>1. q \in Nat /\ r \in Nat /\ q \in DOMAIN d.msgs /\ r \in DOMAIN d.msgs
      BY <1>2, <1>3
    <3>2. ~twice(q) /\ ~twice(r)
      BY <1>2
    <3> HIDE DEF to, moves
    <3> QED BY <2>1, <2>3, <3>1, <3>2
  <2> QED BY <2>2, <2>3
<1> QED BY <1>2, <1>4, <1>5 DEF rows

(* The fold's rows keep a chat as recent as they are.                      *)
LEMMA FoldChatsSound ==
  ASSUME NEW d, Sound(d), NEW known
  PROVE  LET e == FoldChats(d, known)
         IN  Sound(e) /\ Keeps(d, e)
<1> DEFINE e == FoldChats(d, known)
           C == DOMAIN d.chats
           lids == Foldable(C, known)
           to(c) == PhoneJID(c, known)
           from(j) == {c \in C : to(c) = j}
<1>1. /\ DOMAIN e = DOMAIN d
      /\ e.chats = [j \in {to(c) : c \in C} |-> ChatAfterFold(d.chats, j, from(j))]
      /\ e.msgs = RowsAfterFold(d, lids)
  BY DEF FoldChats, Sound, Shaped
<1>2. ASSUME NEW c \in C
      PROVE  /\ to(c) \in DOMAIN e.chats
             /\ e.chats[to(c)].last \in Int /\ e.chats[to(c)].last >= d.chats[c].last
             /\ DOMAIN e.chats[to(c)] = {"name", "group", "last"}
  <2> DEFINE S == from(to(c))
             T == {d.chats[x].last : x \in S}
             f == [x \in S |-> d.chats[x].last]
  <2>1. IsFiniteSet(S)
    BY FS_Subset DEF Sound, Shaped, ChatRows
  <2>2. f \in Surjection(S, T)
    BY DEF Surjection
  <2>3. IsFiniteSet(T)
    BY <2>1, <2>2, FS_Surjection
  <2>4. T \subseteq Int /\ d.chats[c].last \in T
    BY DEF Sound, Shaped, ChatRows
  <2>5. Max(T) \in Int /\ Max(T) >= d.chats[c].last
    BY <2>3, <2>4, MaxOfFinite
  <2>6. e.chats[to(c)] = ChatAfterFold(d.chats, to(c), S)
    BY <1>1
  <2> HIDE DEF S
  <2>7. e.chats[to(c)].last = Max(T) /\ DOMAIN e.chats[to(c)] = {"name", "group", "last"}
    BY <2>6 DEF ChatAfterFold
  <2> QED BY <1>1, <2>5, <2>7
<1>3. \A j \in DOMAIN e.chats : \E c \in C : j = to(c)
  BY <1>1
<1>4. ChatRows(e)
  <2> DEFINE f == [c \in C |-> to(c)]
  <2>1. f \in Surjection(C, {to(c) : c \in C})
    BY DEF Surjection
  <2>2. IsFiniteSet(DOMAIN e.chats)
    BY <1>1, <2>1, FS_Surjection DEF Sound, Shaped, ChatRows
  <2> HIDE DEF C, to, e
  <2> QED BY <1>2, <1>3, <2>2 DEF ChatRows
<1>5. /\ DOMAIN e.msgs \subseteq DOMAIN d.msgs
      /\ \A r \in DOMAIN e.msgs : /\ DOMAIN e.msgs[r] = DOMAIN d.msgs[r]
                                  /\ \A f \in DOMAIN d.msgs[r] : f # "chat" => e.msgs[r][f] = d.msgs[r][f]
                                  /\ e.msgs[r].chat = IF d.msgs[r].chat \in lids THEN Pn(d.msgs[r].chat.u)
                                                      ELSE d.msgs[r].chat
      /\ OneRow(e)
  BY <1>1, RowsAfterFoldSound DEF OneRow
<1>6. ASSUME NEW r \in DOMAIN e.msgs
      PROVE  /\ e.msgs[r].chat = to(d.msgs[r].chat) /\ e.msgs[r].ts = d.msgs[r].ts
             /\ d.msgs[r].chat \in C /\ e.msgs[r].ts \in Int
             /\ RowFields \cup {"read"} \subseteq DOMAIN e.msgs[r]
  <2>1. RowFields \cup {"read"} \subseteq DOMAIN d.msgs[r] /\ d.msgs[r].ts \in Int
    BY <1>5 DEF Sound, Shaped, MessageRows, RowFields
  <2>2. d.msgs[r].chat \in C
    BY <1>5 DEF Sound, Covers, Listed
  <2>3. d.msgs[r].chat \in lids <=> d.msgs[r].chat.s = "lid" /\ d.msgs[r].chat.u \in known
    BY <2>2 DEF Foldable
  <2>4. e.msgs[r].ts = d.msgs[r].ts
    BY <1>5, <2>1 DEF RowFields
  <2> HIDE DEF lids, C, e
  <2> QED BY <1>5, <2>1, <2>2, <2>3, <2>4 DEF PhoneJID
<1> HIDE DEF e, lids, to
<1>7. MessageRows(e)
  <2>1. IsFiniteSet(DOMAIN e.msgs) /\ DOMAIN e.msgs \subseteq Nat
    BY <1>5, FS_Subset DEF Sound, Shaped, MessageRows
  <2> QED BY <1>6, <2>1 DEF MessageRows, RowFields
<1>8. Covers(e)
  <2> SUFFICES ASSUME NEW r \in DOMAIN e.msgs
               PROVE  Listed(e, e.msgs[r].chat, e.msgs[r].ts)
    BY DEF Covers
  <2>1. Listed(d, d.msgs[r].chat, d.msgs[r].ts)
    BY <1>5 DEF Sound, Covers
  <2>2. d.chats[d.msgs[r].chat].last \in Int
    BY <1>6 DEF Sound, Shaped, ChatRows
  <2> QED BY <1>2, <1>6, <2>1, <2>2 DEF Listed
<1>9. Keeps(d, e)
  <2>1. \A c \in C : c.s # "lid" => to(c) = c
    BY DEF to, PhoneJID
  <2> QED BY <1>2, <2>1 DEF Keeps
<1> QED BY <1>1, <1>4, <1>5, <1>7, <1>8, <1>9 DEF Sound, Shaped, e

LEMMA FoldSound ==
  ASSUME NEW d, Sound(d), NEW known
  PROVE  LET e == FoldLIDs(d, known)
         IN  Sound(e) /\ Keeps(d, e)
<1> DEFINE d1 == FoldChats(d, known)
           d2 == FoldSenders(d1, known)
           d3 == FoldContacts(d2, known)
           d4 == FoldCalls(d3, known)
<1>1. Sound(d1) /\ Keeps(d, d1)
  BY FoldChatsSound
<1> HIDE DEF d1
<1>2. Sound(d2) /\ d2.chats = d1.chats
  <2>1. /\ DOMAIN d2 = DOMAIN d1 /\ d2.chats = d1.chats
        /\ d2.msgs = [r \in DOMAIN d1.msgs |-> [d1.msgs[r] EXCEPT !.sender = PhoneJID(d1.msgs[r].sender, known)]]
    BY <1>1 DEF FoldSenders, Sound, Shaped
  <2> HIDE DEF d2
  <2>2. \A r \in DOMAIN d1.msgs : RowFields \subseteq DOMAIN d1.msgs[r]
    BY <1>1 DEF Sound, Shaped, MessageRows, RowFields
  <2>3. DOMAIN d2.msgs = DOMAIN d1.msgs
    BY <2>1
  <2>4. ASSUME NEW r \in DOMAIN d1.msgs
        PROVE  /\ DOMAIN d2.msgs[r] = DOMAIN d1.msgs[r] /\ d2.msgs[r].chat = d1.msgs[r].chat
               /\ d2.msgs[r].id = d1.msgs[r].id /\ d2.msgs[r].ts = d1.msgs[r].ts
    <3>1. d2.msgs[r] = [d1.msgs[r] EXCEPT !.sender = PhoneJID(d1.msgs[r].sender, known)]
      BY <2>1
    <3> QED BY <2>2, <3>1 DEF RowFields
  <2> QED BY <1>1, <2>1, <2>3, <2>4, SameRows
<1> HIDE DEF d2
<1>3. Sound(d3) /\ d3.chats = d2.chats
  <2>1. DOMAIN d3 = DOMAIN d2 /\ d3.chats = d2.chats /\ d3.msgs = d2.msgs
    BY <1>2 DEF FoldContacts, Sound, Shaped
  <2> HIDE DEF d3
  <2> QED BY <1>2, <2>1, SameRows
<1> HIDE DEF d3
<1>4. Sound(d4) /\ d4.chats = d3.chats
  <2>1. DOMAIN d4 = DOMAIN d3 /\ d4.chats = d3.chats /\ d4.msgs = d3.msgs
    BY <1>3 DEF FoldCalls, Sound, Shaped
  <2> HIDE DEF d4
  <2> QED BY <1>3, <2>1, SameRows
<1> HIDE DEF d4
<1>5. d4 = FoldLIDs(d, known)
  BY DEF FoldLIDs, d1, d2, d3, d4
<1>6. Keeps(d, d4)
  BY <1>1, <1>2, <1>3, <1>4 DEF Keeps
<1> QED BY <1>4, <1>5, <1>6

LEMMA PruneSound ==
  ASSUME NEW d, Sound(d)
  PROVE  LET e == PruneStubMessages(d)
         IN  Sound(e) /\ Keeps(d, e)
<1> DEFINE kept  == {r \in DOMAIN d.msgs : ~Stub(d.msgs[r])}
           empty == {c \in DOMAIN d.chats : /\ c.s = "lid" /\ ~d.chats[c].group
                                            /\ \A r \in kept : d.msgs[r].chat # c}
           e == PruneStubMessages(d)
<1>1. /\ DOMAIN e = DOMAIN d /\ e.msgs = [r \in kept |-> d.msgs[r]]
      /\ e.chats = [c \in DOMAIN d.chats \ empty |-> d.chats[c]]
  BY DEF PruneStubMessages, Restrict, Sound, Shaped
<1>2. kept \subseteq DOMAIN d.msgs /\ \A r \in kept : d.msgs[r].chat \notin empty
  OBVIOUS
<1>3. \A c \in empty : c.s = "lid"
  OBVIOUS
<1> HIDE DEF kept, empty, e
<1>4. ChatRows(e)
  <2>1. IsFiniteSet(DOMAIN d.chats \ empty)
    BY FS_Subset DEF Sound, Shaped, ChatRows
  <2> QED BY <1>1, <2>1 DEF Sound, Shaped, ChatRows
<1>5. MessageRows(e)
  <2>1. IsFiniteSet(kept)
    BY <1>2, FS_Subset DEF Sound, Shaped, MessageRows
  <2> QED BY <1>1, <1>2, <2>1 DEF Sound, Shaped, MessageRows
<1>6. Covers(e)
  BY <1>1, <1>2 DEF Sound, Covers, Listed
<1>7. OneRow(e)
  BY <1>1, <1>2 DEF Sound, OneRow
<1>8. Keeps(d, e)
  BY <1>1, <1>3 DEF Keeps, Sound, Shaped, ChatRows
<1> QED BY <1>1, <1>4, <1>5, <1>6, <1>7, <1>8 DEF Sound, Shaped, e

LEMMA MarkReadSound ==
  ASSUME NEW d, Sound(d), NEW chat, NEW ids, NEW at
  PROVE  LET e == MarkRead(d, chat, ids, at)
         IN  Sound(e) /\ e.chats = d.chats
<1> DEFINE e == MarkRead(d, chat, ids, at)
<1>1. /\ DOMAIN e = DOMAIN d /\ e.chats = d.chats
      /\ e.msgs = [r \in DOMAIN d.msgs |->
                     IF d.msgs[r].chat = chat /\ d.msgs[r].id \in ids
                     THEN [d.msgs[r] EXCEPT !.read = Later(d.msgs[r].read, at)] ELSE d.msgs[r]]
  BY DEF MarkRead, Sound, Shaped
<1> HIDE DEF e
<1>2. ASSUME NEW r \in DOMAIN d.msgs
      PROVE  /\ DOMAIN e.msgs[r] = DOMAIN d.msgs[r] /\ e.msgs[r].chat = d.msgs[r].chat
             /\ e.msgs[r].id = d.msgs[r].id /\ e.msgs[r].ts = d.msgs[r].ts
  <2>1. RowFields \subseteq DOMAIN d.msgs[r]
    BY DEF Sound, Shaped, MessageRows, RowFields
  <2>2. \/ e.msgs[r] = [d.msgs[r] EXCEPT !.read = Later(d.msgs[r].read, at)]
        \/ e.msgs[r] = d.msgs[r]
    BY <1>1
  <2> QED BY <2>1, <2>2 DEF RowFields
<1>3. DOMAIN e.msgs = DOMAIN d.msgs
  BY <1>1
<1>4. Sound(e)
  BY <1>1, <1>2, <1>3, SameRows
<1> QED BY <1>1, <1>4 DEF e

Writes == {"chat", "row", "lid", "contact", "read", "call", "fold", "prune"}

(* What a task carries, as far as chats and rows depend on it.             *)
TaskOK(t) ==
  /\ t.do \in Writes \cup {"message", "old", "conversation"}
  /\ t.do = "chat" => t.ts \in Int
  /\ t.do = "row"  => RowFields \subseteq DOMAIN t.m /\ t.m.ts \in Int
  /\ t.do \in {"message", "old"} => t.w \in Wires
  /\ t.do = "conversation" => t.c \in Conversations

LEMMA GrowsKeeps ==
  ASSUME NEW d, NEW e, Grows(d, e)
  PROVE  Keeps(d, e)
  BY DEF Grows, Keeps

(* Every transaction keeps the store sound.                                *)
LEMMA CommitSound ==
  ASSUME NEW d, Sound(d), NEW t, TaskOK(t), t.do \in Writes, NEW known,
         t.do = "row" => Listed(d, t.m.chat, t.m.ts)
  PROVE  LET e == Commit(d, t, known)
         IN  /\ Sound(e) /\ Keeps(d, e)
             /\ t.do \notin {"fold", "prune"} => Grows(d, e)
             /\ t.do = "chat" => Listed(e, t.jid, t.ts)
<1> DEFINE e == Commit(d, t, known)
<1>1. CASE t.do = "chat"
  <2>1. e = UpsertChat(d, t.jid, t.name, t.group, t.ts) /\ t.ts \in Int
    BY <1>1 DEF Commit, TaskOK
  <2> HIDE DEF e
  <2>2. Sound(e) /\ Grows(d, e) /\ Listed(e, t.jid, t.ts)
    BY <2>1, UpsertChatSound
  <2> QED BY <1>1, <2>2, GrowsKeeps DEF e
<1>2. CASE t.do = "row"
  <2>1. e = UpsertMessage(d, t.m) /\ RowFields \subseteq DOMAIN t.m /\ t.m.ts \in Int
    BY <1>2 DEF Commit, TaskOK
  <2> HIDE DEF e
  <2>2. Sound(e) /\ Grows(d, e)
    BY <1>2, <2>1, UpsertMessageSound
  <2> QED BY <1>2, <2>2, GrowsKeeps DEF e
<1>3. CASE t.do \in {"lid", "contact", "call"}
  <2>1. e.chats = d.chats /\ e.msgs = d.msgs /\ DOMAIN e = DOMAIN d
    BY <1>3 DEF Commit, UpsertLIDMapping, UpsertContact, InsertCall, Sound, Shaped
  <2> HIDE DEF e
  <2>2. Sound(e)
    BY <2>1, SameRows
  <2>3. Grows(d, e)
    BY <2>1 DEF Grows, Sound, Shaped, ChatRows
  <2> QED BY <1>3, <2>2, <2>3, GrowsKeeps DEF e
<1>4. CASE t.do = "read"
  <2>1. e = MarkRead(d, t.jid, t.ids, t.at)
    BY <1>4 DEF Commit
  <2> HIDE DEF e
  <2>2. Sound(e) /\ e.chats = d.chats
    BY <2>1, MarkReadSound
  <2>3. Grows(d, e)
    BY <2>2 DEF Grows, Sound, Shaped, ChatRows
  <2> QED BY <1>4, <2>2, <2>3, GrowsKeeps DEF e
<1>5. CASE t.do = "fold"
  <2>1. e = FoldLIDs(d, known)
    BY <1>5 DEF Commit
  <2> QED BY <1>5, <2>1, FoldSound
<1>6. CASE t.do = "prune"
  <2>1. e = PruneStubMessages(d)
    BY <1>6 DEF Commit
  <2> QED BY <1>6, <2>1, PruneSound
<1> QED BY <1>1, <1>2, <1>3, <1>4, <1>5, <1>6 DEF Writes

----------------------------------------------------------------------------
(* The row a task writes belongs to the chat the task before it writes.    *)
ChatFirst(t, m) == t.do = "chat" /\ t.jid = m.chat /\ t.ts = m.ts
IsSeq(s) == \E S : s \in Seq(S)
TasksOK(s) ==
  /\ IsSeq(s)
  /\ \A i \in 1 .. Len(s) : TaskOK(s[i]) /\ (i > 1 /\ s[i].do = "row" => ChatFirst(s[i - 1], s[i].m))

NoRowFirst(s) == s # <<>> => s[1].do # "row"
Ready(d, s) == s # <<>> /\ s[1].do = "row" => Listed(d, s[1].m.chat, s[1].m.ts)

LEMMA ConcatSeq ==
  ASSUME NEW s, NEW t, IsSeq(s), IsSeq(t)
  PROVE  /\ IsSeq(s \o t) /\ Len(s) \in Nat /\ Len(t) \in Nat /\ Len(s \o t) = Len(s) + Len(t)
         /\ \A i \in 1 .. Len(s) : (s \o t)[i] = s[i]
         /\ \A i \in 1 .. Len(t) : (s \o t)[Len(s) + i] = t[i]
<1>1. PICK S, T : s \in Seq(S) /\ t \in Seq(T)
  BY DEF IsSeq
<1>2. s \in Seq(S \cup T) /\ t \in Seq(S \cup T)
  BY <1>1
<1>3. s \o t \in Seq(S \cup T)
  BY <1>2
<1> QED BY <1>2, <1>3 DEF IsSeq

(* Tasks put after one another stay in order.                              *)
LEMMA ConcatTasks ==
  ASSUME NEW s, NEW t, TasksOK(s), TasksOK(t), NoRowFirst(t)
  PROVE  TasksOK(s \o t) /\ (NoRowFirst(s) => NoRowFirst(s \o t))
<1> DEFINE u == s \o t
<1>1. /\ IsSeq(u) /\ Len(s) \in Nat /\ Len(t) \in Nat /\ Len(u) = Len(s) + Len(t)
      /\ \A i \in 1 .. Len(s) : u[i] = s[i]
      /\ \A i \in 1 .. Len(t) : u[Len(s) + i] = t[i]
  BY ConcatSeq DEF TasksOK
<1>2. s # <<>> <=> Len(s) > 0
  BY DEF TasksOK, IsSeq
<1>3. t # <<>> <=> Len(t) > 0
  BY DEF TasksOK, IsSeq
<1>4. s = <<>> => u = t
  BY <1>1, <1>2 DEF TasksOK, IsSeq
<1> HIDE DEF u
<1>5. ASSUME NEW i \in 1 .. Len(u)
      PROVE  TaskOK(u[i]) /\ (i > 1 /\ u[i].do = "row" => ChatFirst(u[i - 1], u[i].m))
  <2>1. CASE i \in 1 .. Len(s)
    <3>1. u[i] = s[i]
      BY <1>1, <2>1
    <3>2. ASSUME i > 1 PROVE u[i - 1] = s[i - 1]
      <4>1. i - 1 \in 1 .. Len(s)
        BY <1>1, <2>1, <3>2
      <4> QED BY <1>1, <4>1
    <3> QED BY <2>1, <3>1, <3>2 DEF TasksOK
  <2>2. CASE i \notin 1 .. Len(s)
    <3> DEFINE j == i - Len(s)
    <3>1. j \in 1 .. Len(t) /\ i = Len(s) + j
      BY <1>1, <2>2
    <3>2. u[i] = t[j] /\ TaskOK(t[j])
      BY <1>1, <3>1 DEF TasksOK
    <3>3. CASE j = 1
      BY <1>3, <1>1, <3>1, <3>2, <3>3 DEF NoRowFirst
    <3>4. CASE j > 1
      <4>1. j - 1 \in 1 .. Len(t) /\ i - 1 = Len(s) + (j - 1)
        BY <1>1, <3>1, <3>4
      <4>2. u[i - 1] = t[j - 1]
        BY <1>1, <4>1
      <4> QED BY <3>1, <3>2, <3>4, <4>2 DEF TasksOK
    <3> QED BY <3>1, <3>3, <3>4
  <2> QED BY <2>1, <2>2
<1>6. NoRowFirst(s) => NoRowFirst(u)
  <2>1. CASE s = <<>>
    BY <1>4, <2>1
  <2>2. CASE s # <<>>
    BY <1>1, <1>2, <2>2 DEF NoRowFirst
  <2> QED BY <2>1, <2>2
<1> QED BY <1>1, <1>5, <1>6 DEF TasksOK, u

LEMMA OneTask ==
  ASSUME NEW t, TaskOK(t), t.do # "row"
  PROVE  TasksOK(<<t>>) /\ NoRowFirst(<<t>>)
<1>1. <<t>> \in Seq({t}) /\ Len(<<t>>) = 1 /\ <<t>>[1] = t
  OBVIOUS
<1> DEFINE s == <<t>>
<1> HIDE DEF s
<1>2. s \in Seq({t}) /\ Len(s) = 1 /\ s[1] = t
  BY <1>1 DEF s
<1>3. TasksOK(s) /\ NoRowFirst(s)
  BY <1>2 DEF TasksOK, NoRowFirst, IsSeq
<1> QED BY <1>3 DEF s

LEMMA NoTask == TasksOK(<<>>) /\ NoRowFirst(<<>>)
<1>1. <<>> \in Seq({}) /\ Len(<<>>) = 0
  OBVIOUS
<1> QED BY <1>1 DEF TasksOK, NoRowFirst, IsSeq

(* What is left when the first task is done.                               *)
LEMMA TailTasks ==
  ASSUME NEW s, TasksOK(s), s # <<>>
  PROVE  /\ Head(s) = s[1] /\ TaskOK(Head(s)) /\ TasksOK(Tail(s))
         /\ Tail(s) # <<>> /\ Tail(s)[1].do = "row" => ChatFirst(Head(s), Tail(s)[1].m)
         /\ \A i \in 1 .. Len(Tail(s)) : i + 1 \in 1 .. Len(s) /\ Tail(s)[i] = s[i + 1]
<1>1. PICK S : s \in Seq(S)
  BY DEF TasksOK, IsSeq
<1>2. Tail(s) \in Seq(S) /\ Len(Tail(s)) = Len(s) - 1 /\ Len(s) \in Nat /\ Len(s) > 0
  BY <1>1
<1>3. \A i \in 1 .. Len(Tail(s)) : i + 1 \in 1 .. Len(s) /\ Tail(s)[i] = s[i + 1]
  BY <1>1, <1>2
<1>4. Head(s) = s[1] /\ TaskOK(Head(s))
  BY <1>1, <1>2 DEF TasksOK
<1>5. ASSUME NEW i \in 1 .. Len(Tail(s)), Tail(s)[i].do = "row"
      PROVE  ChatFirst(s[i], s[i + 1].m) /\ s[i + 1] = Tail(s)[i]
  BY <1>2, <1>3, <1>5 DEF TasksOK
<1>6. TasksOK(Tail(s))
  <2>1. ASSUME NEW i \in 1 .. Len(Tail(s)), i > 1, Tail(s)[i].do = "row"
        PROVE  ChatFirst(Tail(s)[i - 1], Tail(s)[i].m)
    <3>1. i - 1 \in 1 .. Len(Tail(s))
      BY <1>2, <2>1
    <3>2. Tail(s)[i - 1] = s[i]
      BY <1>2, <1>3, <3>1
    <3> QED BY <1>5, <2>1, <3>2
  <2>2. \A i \in 1 .. Len(Tail(s)) : TaskOK(Tail(s)[i])
    BY <1>3 DEF TasksOK
  <2> QED BY <1>2, <2>1, <2>2 DEF TasksOK, IsSeq
<1>7. Tail(s) # <<>> => 1 \in 1 .. Len(Tail(s))
  BY <1>2
<1> QED BY <1>3, <1>4, <1>5, <1>6, <1>7

(* The tasks of one message: no fold among them, and its row in its chat.  *)
Plain(s, chat) ==
  /\ TasksOK(s) /\ NoRowFirst(s)
  /\ \A i \in 1 .. Len(s) : /\ s[i].do \in {"chat", "row", "lid", "contact"}
                            /\ s[i].do = "row" => s[i].m.chat = chat

LEMMA ConcatPlain ==
  ASSUME NEW s, NEW t, NEW chat, Plain(s, chat), Plain(t, chat)
  PROVE  Plain(s \o t, chat)
<1> DEFINE u == s \o t
<1>1. TasksOK(u) /\ NoRowFirst(u)
  BY ConcatTasks DEF Plain
<1>2. /\ Len(s) \in Nat /\ Len(t) \in Nat /\ Len(u) = Len(s) + Len(t)
      /\ \A i \in 1 .. Len(s) : u[i] = s[i]
      /\ \A i \in 1 .. Len(t) : u[Len(s) + i] = t[i]
  BY ConcatSeq DEF Plain, TasksOK
<1> HIDE DEF u
<1>3. ASSUME NEW i \in 1 .. Len(u)
      PROVE  /\ u[i].do \in {"chat", "row", "lid", "contact"}
             /\ u[i].do = "row" => u[i].m.chat = chat
  <2>1. CASE i \in 1 .. Len(s)
    BY <1>2, <2>1 DEF Plain
  <2>2. CASE i \notin 1 .. Len(s)
    <3>1. i - Len(s) \in 1 .. Len(t) /\ i = Len(s) + (i - Len(s))
      BY <1>2, <2>2
    <3>2. u[i] = t[i - Len(s)]
      BY <1>2, <3>1
    <3> QED BY <3>1, <3>2 DEF Plain
  <2> QED BY <2>1, <2>2
<1> QED BY <1>1, <1>3 DEF Plain, u

LEMMA OnePlain ==
  ASSUME NEW c, NEW chat, NEW t, t.do \in {"lid", "contact"}
  PROVE  Plain(If(c, <<t>>), chat)
<1>1. CASE c
  <2>1. TaskOK(t)
    BY DEF TaskOK, Writes
  <2>2. TasksOK(<<t>>) /\ NoRowFirst(<<t>>)
    BY <2>1, OneTask
  <2>3. If(c, <<t>>) = <<t>>
    BY <1>1 DEF If
  <2>4. Len(<<t>>) = 1 /\ <<t>>[1] = t
    OBVIOUS
  <2>5. \A i \in 1 .. Len(<<t>>) : <<t>>[i] = t
    BY <2>4
  <2> QED BY <2>2, <2>3, <2>5 DEF Plain
<1>2. CASE ~c
  <2>1. If(c, <<t>>) = <<>>
    BY <1>2 DEF If
  <2>2. Len(<<>>) = 0
    OBVIOUS
  <2> QED BY <2>1, <2>2, NoTask DEF Plain
<1> QED BY <1>1, <1>2

(* The chat and its row.                                                   *)
LEMMA ChatAndRow ==
  ASSUME NEW a, NEW b, a.do = "chat", a.ts \in Int, b.do = "row",
         a.jid = b.m.chat, a.ts = b.m.ts, RowFields \subseteq DOMAIN b.m
  PROVE  Plain(<<a, b>>, a.jid)
<1> DEFINE s == <<a, b>>
<1>1. s \in Seq({a, b}) /\ Len(s) = 2 /\ s[1] = a /\ s[2] = b
  OBVIOUS
<1> HIDE DEF s
<1>2. TaskOK(a) /\ TaskOK(b)
  BY DEF TaskOK, Writes
<1>3. \A i \in 1 .. Len(s) : i = 1 \/ i = 2
  BY <1>1
<1>4. TasksOK(s)
  BY <1>1, <1>2, <1>3 DEF TasksOK, IsSeq, ChatFirst
<1>5. Plain(s, a.jid)
  BY <1>1, <1>3, <1>4 DEF Plain, NoRowFirst
<1> QED BY <1>5 DEF s

(* The tasks of a message that arrived, or of one that was sent.           *)
LEMMA IngestTasks ==
  ASSUME NEW w, w.ts \in Int, NEW known
  PROVE  Plain(IngestMessage(w, known), PhoneJID(w.chat, known))
<1> DEFINE m   == DecodeMessage(w, known)
           lp  == LIDPairing(w)
           cp  == ChatPairing(w)
           own == w.me \/ w.push = NoName
           P(s) == Plain(s, PhoneJID(w.chat, known))
           s1 == If(lp # <<>>, <<WriteLID(lp[1], lp[3])>>)
           s2 == If(lp # <<>> /\ lp[1] # lp[2], <<WriteLID(lp[2], lp[3])>>)
           s3 == If(cp # <<>>, <<WriteLID(cp[1], cp[2])>>)
           s4 == <<WriteChat(m.chat, ChatNameOf(w), w.group, w.ts), [do |-> "row", m |-> m]>>
           s5 == If(~own, <<WriteName(m.sender, w.push, NoName)>>)
           s6 == If(~own /\ lp # <<>> /\ lp[3] # m.sender, <<WriteName(lp[3], w.push, NoName)>>)
<1>1. P(s1) /\ P(s2) /\ P(s3)
  <2>1. \A lid, pn : WriteLID(lid, pn).do = "lid"
    BY DEF WriteLID
  <2> QED BY <2>1, OnePlain
<1>2. P(s4)
  <2>1. m.chat = PhoneJID(w.chat, known) /\ m.ts = w.ts /\ RowFields \subseteq DOMAIN m
    BY DEF DecodeMessage, RowFields
  <2> DEFINE a == WriteChat(m.chat, ChatNameOf(w), w.group, w.ts)
             b == [do |-> "row", m |-> m]
  <2>2. a.do = "chat" /\ a.jid = m.chat /\ a.ts = w.ts /\ b.do = "row" /\ b.m = m
    BY DEF WriteChat
  <2> HIDE DEF a, b, m
  <2>3. Plain(<<a, b>>, a.jid)
    BY <2>1, <2>2, ChatAndRow
  <2> QED BY <2>1, <2>2, <2>3 DEF a, b
<1>3. P(s5) /\ P(s6)
  <2>1. \A jid, push, full : WriteName(jid, push, full).do = "contact"
    BY DEF WriteName
  <2> QED BY <2>1, OnePlain
<1>4. IngestMessage(w, known) = s1 \o s2 \o s3 \o s4 \o s5 \o s6
  BY DEF IngestMessage
<1> HIDE DEF s1, s2, s3, s4, s5, s6
<1>5. P(s1 \o s2)
  BY <1>1, ConcatPlain
<1>6. P(s1 \o s2 \o s3)
  BY <1>1, <1>5, ConcatPlain
<1>7. P(s1 \o s2 \o s3 \o s4)
  BY <1>2, <1>6, ConcatPlain
<1>8. P(s1 \o s2 \o s3 \o s4 \o s5)
  BY <1>3, <1>7, ConcatPlain
<1>9. P(s1 \o s2 \o s3 \o s4 \o s5 \o s6)
  BY <1>3, <1>8, ConcatPlain
<1> QED BY <1>4, <1>9

(* Tasks none of which is a row.                                           *)
LEMMA RowFree ==
  ASSUME NEW s, IsSeq(s), \A i \in 1 .. Len(s) : TaskOK(s[i]) /\ s[i].do # "row"
  PROVE  TasksOK(s) /\ NoRowFirst(s)
<1>1. s # <<>> => 1 \in 1 .. Len(s)
  BY DEF IsSeq
<1> QED BY <1>1 DEF TasksOK, NoRowFirst

LEMMA ConversationTasks ==
  ASSUME NEW c \in Conversations, NEW known
  PROVE  TasksOK(IngestConversation(c, known)) /\ NoRowFirst(IngestConversation(c, known))
<1> DEFINE jid == PhoneJID(c.jid, known)
           t == WriteChat(jid, c.name, jid.s = "g", c.ts)
           s == [i \in DOMAIN c.msgs |-> [do |-> "old", w |-> [c.msgs[i] EXCEPT !.chat = jid]]]
<1>1. c.ts \in Int /\ c.msgs \in Seq(Wires) /\ c.jid \in Jids
  BY DEF Conversations
<1>2. jid \in Jids
  BY <1>1 DEF PhoneJID, Jids, Pn, Jid
<1>3. TaskOK(t) /\ t.do = "chat"
  BY <1>1 DEF WriteChat, TaskOK, Writes
<1>4. TasksOK(<<t>>) /\ NoRowFirst(<<t>>)
  BY <1>3, OneTask
<1>5. DOMAIN c.msgs = 1 .. Len(c.msgs) /\ Len(c.msgs) \in Nat /\ \A i \in 1 .. Len(c.msgs) : c.msgs[i] \in Wires
  BY <1>1
<1>6. \A i \in 1 .. Len(c.msgs) : [c.msgs[i] EXCEPT !.chat = jid] \in Wires
  BY <1>2, <1>5 DEF Wires
<1> HIDE DEF jid
<1>7. /\ s \in Seq([do : {"old"}, w : Wires]) /\ Len(s) = Len(c.msgs)
      /\ \A i \in 1 .. Len(s) : s[i] \in [do : {"old"}, w : Wires]
  <2> DEFINE F == [do : {"old"}, w : Wires]
  <2>1. s \in [1 .. Len(c.msgs) -> F]
    BY <1>5, <1>6
  <2> HIDE DEF s, F
  <2>2. s \in Seq(F) /\ Len(s) = Len(c.msgs)
    BY <1>5, <2>1
  <2> QED BY <2>1, <2>2 DEF F
<1>8. TasksOK(s) /\ NoRowFirst(s)
  <2>1. \A i \in 1 .. Len(s) : TaskOK(s[i]) /\ s[i].do # "row"
    BY <1>7 DEF TaskOK, Writes
  <2> HIDE DEF s
  <2> QED BY <1>7, <2>1, RowFree DEF IsSeq
<1>9. IngestConversation(c, known) = <<t>> \o s
  BY DEF IngestConversation, jid
<1> HIDE DEF s, t
<1> QED BY <1>4, <1>8, <1>9, ConcatTasks

----------------------------------------------------------------------------
(* What each event leaves to write.                                        *)

LEMMA IfTask ==
  ASSUME NEW c, NEW t, TaskOK(t), t.do # "row"
  PROVE  TasksOK(If(c, <<t>>)) /\ NoRowFirst(If(c, <<t>>))
BY OneTask, NoTask DEF If

LEMMA HistoryTasks ==
  ASSUME NEW e, e.convs \in Seq(Conversations)
  PROVE  TasksOK(IngestHistorySync(e)) /\ NoRowFirst(IngestHistorySync(e))
<1> DEFINE F == [do : {"conversation"}, c : Conversations]
           s == [i \in DOMAIN e.convs |-> [do |-> "conversation", c |-> e.convs[i]]]
           t == [do |-> "fold"]
<1>1. DOMAIN e.convs = 1 .. Len(e.convs) /\ Len(e.convs) \in Nat
  OBVIOUS
<1>2. s \in [1 .. Len(e.convs) -> F]
  BY <1>1
<1>3. s \in Seq(F) /\ \A i \in 1 .. Len(s) : s[i] \in F
  <2> HIDE DEF s, F
  <2>1. s \in Seq(F)
    BY <1>1, <1>2
  <2> QED BY <2>1
<1>4. TasksOK(s) /\ NoRowFirst(s)
  <2>1. \A i \in 1 .. Len(s) : TaskOK(s[i]) /\ s[i].do # "row"
    BY <1>3 DEF TaskOK, Writes
  <2> HIDE DEF s, F
  <2> QED BY <1>3, <2>1, RowFree DEF IsSeq
<1>5. TaskOK(t) /\ t.do # "row"
  BY DEF TaskOK, Writes
<1>6. IngestHistorySync(e) = s \o <<t>>
  BY DEF IngestHistorySync
<1> HIDE DEF s, t
<1>7. TasksOK(<<t>>) /\ NoRowFirst(<<t>>)
  BY <1>5, OneTask
<1> QED BY <1>4, <1>6, <1>7, ConcatTasks

(* Whatever the event, its tasks are in order.                             *)
LEMMA EventTasks ==
  ASSUME NEW e \in Events, NEW known
  PROVE  TasksOK(HandleEvent(e, known)) /\ NoRowFirst(HandleEvent(e, known))
<1>1. CASE e.type = "message"
  <2>1. HandleEvent(e, known) = <<[do |-> "message", w |-> e.w]>>
    BY <1>1 DEF HandleEvent
  <2>2. TaskOK([do |-> "message", w |-> e.w])
    BY <1>1, EventsAssumption DEF TaskOK
  <2> QED BY <2>1, <2>2, OneTask
<1>2. CASE e.type = "history"
  <2>1. HandleEvent(e, known) = IngestHistorySync(e)
    BY <1>2 DEF HandleEvent
  <2> QED BY <1>2, <2>1, HistoryTasks, EventsAssumption
<1>3. CASE e.type = "receipt"
  <2> DEFINE t == [do |-> "read", jid |-> PhoneJID(e.chat, known), ids |-> e.ids, at |-> e.at]
  <2>1. HandleEvent(e, known) = If(e.read, <<t>>)
    BY <1>3 DEF HandleEvent
  <2>2. TaskOK(t) /\ t.do # "row"
    BY DEF TaskOK, Writes
  <2> QED BY <2>1, <2>2, IfTask
<1>4. CASE e.type = "call"
  <2> DEFINE t == [do |-> "call", id |-> e.id, peer |-> PhoneJID(e.from, known), ts |-> e.ts,
                   status |-> CallStatus(e.reason)]
  <2>1. HandleEvent(e, known) = <<t>>
    BY <1>4 DEF HandleEvent
  <2>2. TaskOK(t) /\ t.do # "row"
    BY DEF TaskOK, Writes
  <2> QED BY <2>1, <2>2, OneTask
<1>5. CASE e.type \in {"contact", "pushname"}
  <2>1. \E c, jid, push, full : HandleEvent(e, known) = If(c, <<WriteName(jid, push, full)>>)
    BY <1>5 DEF HandleEvent
  <2>2. \A jid, push, full : TaskOK(WriteName(jid, push, full)) /\ WriteName(jid, push, full).do # "row"
    BY DEF TaskOK, Writes, WriteName
  <2> QED BY <2>1, <2>2, IfTask
<1>6. CASE e.type = "group"
  <2> DEFINE t == WriteChat(e.jid, e.name, TRUE, e.ts)
  <2>1. HandleEvent(e, known) = If(e.name # NoName, <<t>>)
    BY <1>6 DEF HandleEvent
  <2>2. TaskOK(t) /\ t.do # "row"
    BY <1>6, EventsAssumption DEF TaskOK, Writes, WriteChat
  <2> QED BY <2>1, <2>2, IfTask
<1> QED BY <1>1, <1>2, <1>3, <1>4, <1>5, <1>6, EventsAssumption DEF EventTypes

LEMMA TidyTasks == TasksOK(TidyStore) /\ NoRowFirst(TidyStore)
<1> DEFINE s == TidyStore
<1>1. s \in Seq({[do |-> "prune"], [do |-> "fold"]}) /\ Len(s) = 2
  BY DEF TidyStore
<1>2. s[1] = [do |-> "prune"] /\ s[2] = [do |-> "fold"]
  BY DEF TidyStore
<1> HIDE DEF s
<1>3. \A i \in 1 .. Len(s) : i = 1 \/ i = 2
  BY <1>1
<1>4. \A i \in 1 .. Len(s) : TaskOK(s[i]) /\ s[i].do # "row"
  BY <1>2, <1>3 DEF TaskOK, Writes
<1>5. TasksOK(s) /\ NoRowFirst(s)
  BY <1>1, <1>4, RowFree DEF IsSeq
<1> QED BY <1>5 DEF s

----------------------------------------------------------------------------
(* The inductive invariant.                                                *)

(* The one assumption: no tool is called for a chat by its LID.  A send to  *)
(* one that cannot be named yet writes the LID's chat and then its row, and *)
(* a fold between the two takes the chat from under the row.               *)
NoLIDRecipient == \A to \in Recipients : to.s # "lid"

(* What a send has left to write is ready beside the bridge's writes.      *)
OutboxOK ==
  /\ TasksOK(outbox) /\ Ready(db, outbox)
  /\ \A i \in 1 .. Len(outbox) : /\ outbox[i].do \in {"chat", "row", "lid", "contact"}
                                 /\ outbox[i].do = "row" => outbox[i].m.chat.s # "lid"
  /\ call.op = "send" => call.to \in Recipients

(* The store is sound between any two transactions, and what is left to    *)
(* write keeps it so: a row's chat is written before it and is still there. *)
StoreInv == Sound(db) /\ TasksOK(todo) /\ Ready(db, todo) /\ OutboxOK /\ taken \in Int

LEMMA StoreInit == ClientsInit => StoreInv
<1> SUFFICES ASSUME ClientsInit PROVE StoreInv
  OBVIOUS
<1>1. db = EmptyDB /\ todo = TidyStore /\ taken = 0 /\ call = Idle /\ outbox = <<>>
  BY DEF ClientsInit, ReadInit, SendInit, Init
<1>2. Sound(db)
  <2>1. /\ DOMAIN db = {"chats", "msgs", "contacts", "lids", "calls"}
        /\ DOMAIN db.chats = {} /\ DOMAIN db.msgs = {}
    BY <1>1 DEF EmptyDB
  <2> QED BY <2>1, FS_EmptySet DEF Sound, Shaped, ChatRows, MessageRows, Covers, OneRow
<1>3. TasksOK(todo) /\ Ready(db, todo)
  BY <1>1, TidyTasks DEF NoRowFirst, Ready
<1>4. OutboxOK
  <2>1. Len(outbox) = 0
    BY <1>1
  <2> QED BY <1>1, <2>1, NoTask DEF OutboxOK, Ready, Idle
<1> QED BY <1>1, <1>2, <1>3, <1>4 DEF StoreInv

(* What a write leaves of the promise that a chat is listed.               *)
LEMMA ListedGrows ==
  ASSUME NEW d, NEW e, Sound(d), Sound(e), NEW chat, NEW ts \in Int, Listed(d, chat, ts),
         Grows(d, e) \/ (Keeps(d, e) /\ chat.s # "lid")
  PROVE  Listed(e, chat, ts)
<1>1. chat \in DOMAIN e.chats /\ e.chats[chat].last >= d.chats[chat].last
  BY DEF Grows, Keeps, Listed
<1>2. d.chats[chat].last \in Int /\ e.chats[chat].last \in Int
  BY <1>1 DEF Listed, Sound, Shaped, ChatRows
<1> QED BY <1>1, <1>2 DEF Listed

LEMMA ReadyTask ==
  ASSUME NEW d, NEW s, TasksOK(s), Ready(d, s), s # <<>>
  PROVE  /\ 1 \in 1 .. Len(s) /\ TaskOK(s[1])
         /\ s[1].do = "row" => s[1].m.ts \in Int /\ Listed(d, s[1].m.chat, s[1].m.ts)
<1>1. 1 \in 1 .. Len(s)
  BY DEF TasksOK, IsSeq
<1> QED BY <1>1 DEF TasksOK, Ready, TaskOK

(* A write of the first task of a sequence readies the next.               *)
LEMMA WriteFirstTask ==
  ASSUME NEW d, NEW s, NEW known, Sound(d), TasksOK(s), Ready(d, s), s # <<>>, Head(s).do \in Writes
  PROVE  LET e == Commit(d, Head(s), known)
         IN  /\ Sound(e) /\ Keeps(d, e) /\ TasksOK(Tail(s)) /\ Ready(e, Tail(s))
             /\ Head(s).do \notin {"fold", "prune"} => Grows(d, e)
<1> DEFINE e == Commit(d, Head(s), known)
<1>1. /\ TaskOK(Head(s)) /\ TasksOK(Tail(s))
      /\ Tail(s) # <<>> /\ Tail(s)[1].do = "row" => ChatFirst(Head(s), Tail(s)[1].m)
      /\ Head(s).do = "row" => Listed(d, Head(s).m.chat, Head(s).m.ts)
  BY TailTasks, ReadyTask
<1>2. /\ Sound(e) /\ Keeps(d, e)
      /\ Head(s).do \notin {"fold", "prune"} => Grows(d, e)
      /\ Head(s).do = "chat" => Listed(e, Head(s).jid, Head(s).ts)
  BY <1>1, CommitSound
<1> HIDE DEF e
<1>3. Ready(e, Tail(s))
  BY <1>1, <1>2 DEF Ready, ChatFirst
<1> QED BY <1>1, <1>2, <1>3 DEF e

(* The bridge's steps.                                                     *)
LEMMA IngestingStep ==
  ASSUME StoreInv, Ingesting \/ Handling \/ (\E e \in Events : Take(e)), UNCHANGED sendVars
  PROVE  StoreInv'
<1> USE DEF StoreInv
<1>0. UNCHANGED <<call, outbox>>
  BY DEF sendVars
<1>1. ASSUME UNCHANGED db PROVE OutboxOK'
  BY <1>0, <1>1 DEF OutboxOK
<1>2. CASE \E e \in Events : Take(e)
  <2>1. PICK e \in Events : Take(e)
    BY <1>2
  <2>2. todo' = HandleEvent(e, Known) /\ db' = db /\ taken' \in Int
    BY <2>1 DEF Take
  <2>3. TasksOK(todo') /\ NoRowFirst(todo')
    BY <2>2, EventTasks
  <2> QED BY <1>1, <2>2, <2>3 DEF Ready, NoRowFirst
<1>3. CASE Decode
  <2>1. /\ todo # <<>> /\ Reads(Head(todo)) /\ UNCHANGED <<db, taken>>
        /\ todo' = IngestMessage(Head(todo).w, device \cup cache') \o Tail(todo)
    BY <1>3 DEF Decode
  <2>2. /\ TaskOK(Head(todo)) /\ TasksOK(Tail(todo))
        /\ Tail(todo) # <<>> /\ Tail(todo)[1].do = "row" => ChatFirst(Head(todo), Tail(todo)[1].m)
    BY <2>1, TailTasks
  <2>3. Head(todo).do \in {"message", "old"} /\ NoRowFirst(Tail(todo))
    BY <2>1, <2>2 DEF Reads, ChatFirst, NoRowFirst
  <2>4. Head(todo).w \in Wires
    BY <2>2, <2>3 DEF TaskOK
  <2>5. Head(todo).w.ts \in Int
    BY <2>4 DEF Wires
  <2>6. Plain(IngestMessage(Head(todo).w, device \cup cache'), PhoneJID(Head(todo).w.chat, device \cup cache'))
    BY <2>5, IngestTasks
  <2>7. TasksOK(todo') /\ NoRowFirst(todo')
    BY <2>1, <2>2, <2>3, <2>6, ConcatTasks DEF Plain
  <2> QED BY <1>1, <2>1, <2>7 DEF Ready, NoRowFirst
<1>4. CASE PassOver
  <2>1. todo # <<>> /\ Head(todo).do = "old" /\ UNCHANGED <<db, taken>> /\ todo' = Tail(todo)
    BY <1>4 DEF PassOver, Skips
  <2>2. TasksOK(todo') /\ NoRowFirst(todo')
    BY <2>1, TailTasks DEF ChatFirst, NoRowFirst
  <2> QED BY <1>1, <2>1, <2>2 DEF Ready, NoRowFirst
<1>5. CASE OpenConversation
  <2>1. /\ todo # <<>> /\ Head(todo).do = "conversation" /\ UNCHANGED <<db, taken>>
        /\ todo' = IngestConversation(Head(todo).c, Known) \o Tail(todo)
    BY <1>5 DEF OpenConversation
  <2>2. /\ TaskOK(Head(todo)) /\ TasksOK(Tail(todo)) /\ NoRowFirst(Tail(todo))
    BY <2>1, TailTasks DEF ChatFirst, NoRowFirst
  <2>3. Head(todo).c \in Conversations
    BY <2>1, <2>2 DEF TaskOK
  <2>4. TasksOK(todo') /\ NoRowFirst(todo')
    BY <2>1, <2>2, <2>3, ConversationTasks, ConcatTasks
  <2> QED BY <1>1, <2>1, <2>4 DEF Ready, NoRowFirst
<1>6. CASE Write
  <2>1. /\ todo # <<>> /\ Head(todo).do \notin {"message", "old", "conversation"} /\ UNCHANGED taken
        /\ db' = Commit(db, Head(todo), Known) /\ todo' = Tail(todo)
    BY <1>6 DEF Write
  <2>2. Head(todo).do \in Writes
    BY <2>1, TailTasks DEF TaskOK
  <2>3. Sound(db') /\ Keeps(db, db') /\ TasksOK(todo') /\ Ready(db', todo')
    BY <2>1, <2>2, WriteFirstTask
  <2>4. Ready(db', outbox)
    <3> SUFFICES ASSUME outbox # <<>>, outbox[1].do = "row"
                 PROVE  Listed(db', outbox[1].m.chat, outbox[1].m.ts)
      BY DEF Ready
    <3>1. /\ 1 \in 1 .. Len(outbox) /\ outbox[1].m.ts \in Int
          /\ Listed(db, outbox[1].m.chat, outbox[1].m.ts)
      BY ReadyTask DEF OutboxOK
    <3>2. outbox[1].m.chat.s # "lid"
      BY <3>1 DEF OutboxOK
    <3> QED BY <2>3, <3>1, <3>2, ListedGrows
  <2>5. OutboxOK'
    BY <1>0, <2>4 DEF OutboxOK
  <2> QED BY <2>1, <2>3, <2>5
<1>7. CASE Stop
  <2>1. todo' = TidyStore /\ UNCHANGED <<db, taken>>
    BY <1>7 DEF Stop
  <2> QED BY <1>1, <2>1, TidyTasks DEF Ready, NoRowFirst
<1>8. CASE \E u \in Users : LearnPairing(u)
  <2>1. UNCHANGED <<db, todo, taken>>
    BY <1>8 DEF LearnPairing
  <2> QED BY <1>1, <2>1
<1> QED BY <1>2, <1>3, <1>4, <1>5, <1>6, <1>7, <1>8 DEF Ingesting, Handling

(* The send tools' steps.                                                  *)
LEMMA SendingStep ==
  ASSUME StoreInv, NoLIDRecipient, Sending
  PROVE  StoreInv'
<1> USE DEF StoreInv
<1>1. ASSUME UNCHANGED <<db, todo, taken, outbox>>, call'.op = "send" => call'.to \in Recipients
      PROVE  StoreInv'
  BY <1>1 DEF OutboxOK
<1>2. ASSUME NEW kind, NEW to \in Recipients, NEW id, Submit(kind, to, id)
      PROVE  StoreInv'
  <2>1. UNCHANGED <<db, todo, taken, outbox>> /\ call'.to = to
    BY <1>2 DEF Submit, ingestVars
  <2> QED BY <1>1, <2>1
<1>3. ASSUME NEW chat, NEW ids, MarkReadCall(chat, ids)
      PROVE  StoreInv'
  <2>1. UNCHANGED <<db, todo, taken, outbox>> /\ call'.op = "read"
    BY <1>3 DEF MarkReadCall, ingestVars
  <2> QED BY <1>1, <2>1
<1>4. ASSUME NEW sent, Deliver(sent)
      PROVE  StoreInv'
  <2>1. /\ call.op = "send" /\ call' = Idle /\ UNCHANGED <<db, todo, taken>>
        /\ outbox' = <<>> \/ outbox' = RecordOutbound(OwnMessage(call), Known)
    BY <1>4 DEF Deliver, ingestVars
  <2> DEFINE w == OwnMessage(call)
  <2>2. w.ts = taken /\ w.chat = call.to
    BY DEF OwnMessage
  <2>3. PhoneJID(w.chat, Known).s # "lid"
    BY <2>1, <2>2 DEF OutboxOK, NoLIDRecipient, PhoneJID
  <2> HIDE DEF w
  <2>4. Plain(outbox', PhoneJID(w.chat, Known))
    <3>1. Len(<<>>) = 0
      OBVIOUS
    <3> QED BY <2>1, <2>2, <3>1, IngestTasks, NoTask DEF RecordOutbound, Plain, w
  <2>5. OutboxOK'
    BY <2>1, <2>3, <2>4 DEF OutboxOK, Plain, Ready, NoRowFirst, Idle
  <2> QED BY <2>1, <2>5
<1>5. ASSUME NEW sent, DeliverRead(sent)
      PROVE  StoreInv'
  <2>1. UNCHANGED <<db, todo, taken, outbox>> /\ call'.op \in {"mark", "idle"}
    BY <1>5 DEF DeliverRead, ingestVars, Idle
  <2> QED BY <1>1, <2>1
<1>6. ASSUME Record
      PROVE  StoreInv'
  <2>1. /\ outbox # <<>> /\ UNCHANGED <<todo, taken, call>>
        /\ db' = Commit(db, Head(outbox), Known) /\ outbox' = Tail(outbox)
    BY <1>6 DEF Record
  <2>2. Head(outbox).do \in {"chat", "row", "lid", "contact"}
    BY <2>1, TailTasks, ReadyTask DEF OutboxOK
  <2>3. Sound(db') /\ Grows(db, db') /\ TasksOK(outbox') /\ Ready(db', outbox')
    BY <2>1, <2>2, WriteFirstTask DEF OutboxOK, Writes
  <2>4. Ready(db', todo)
    <3> SUFFICES ASSUME todo # <<>>, todo[1].do = "row"
                 PROVE  Listed(db', todo[1].m.chat, todo[1].m.ts)
      BY DEF Ready
    <3>1. todo[1].m.ts \in Int /\ Listed(db, todo[1].m.chat, todo[1].m.ts)
      BY ReadyTask
    <3> QED BY <2>3, <3>1, ListedGrows
  <2>5. OutboxOK'
    <3>1. \A i \in 1 .. Len(outbox') : i + 1 \in 1 .. Len(outbox) /\ outbox'[i] = outbox[i + 1]
      BY <2>1, TailTasks DEF OutboxOK
    <3> QED BY <2>1, <2>3, <3>1 DEF OutboxOK
  <2> QED BY <2>1, <2>3, <2>4, <2>5
<1>7. ASSUME MarkLocally
      PROVE  StoreInv'
  <2>1. /\ UNCHANGED <<todo, taken, outbox>> /\ call'.op \in {"idle", "read"}
        /\ db' = MarkRead(db, call.to, Head(call.groups).ids, ToolMark)
    BY <1>7 DEF MarkLocally, Idle
  <2>2. Sound(db') /\ db'.chats = db.chats
    BY <2>1, MarkReadSound
  <2>3. Ready(db', todo') /\ Ready(db', outbox')
    BY <2>1, <2>2 DEF Ready, Listed, OutboxOK
  <2> QED BY <2>1, <2>2, <2>3 DEF OutboxOK
<1> QED BY <1>2, <1>3, <1>4, <1>5, <1>6, <1>7 DEF Sending

(* Nothing but a send by LID can come between the two writes of a message.  *)
IStore == reader \in Readers /\ (NoLIDRecipient \/ reader # "sender" => StoreInv)

LEMMA StoreStep ==
  ASSUME IStore, [ClientsNext]_clientVars
  PROVE  IStore'
<1>1. reader' = reader
  BY DEF ClientsNext, ReadNext, clientVars, allVars, readVars, BridgeStep, Polling, EditScope, FetchOlder, Clicking, Browsing
<1> SUFFICES ASSUME NoLIDRecipient \/ reader # "sender", StoreInv PROVE StoreInv'
  BY <1>1 DEF IStore
<1>2. CASE UNCHANGED <<ingestVars, sendVars>>
  BY <1>2 DEF ingestVars, sendVars, StoreInv, OutboxOK
<1>3. CASE BridgeStep /\ UNCHANGED sendVars
  <2>1. reader # "none" => Watched[reader] \subseteq Events
    BY ReadersAssumption DEF IStore
  <2>2. Ingesting \/ Handling \/ \E e \in Events : Take(e)
    BY <1>3, <2>1 DEF BridgeStep
  <2> QED BY <1>3, <2>2, IngestingStep
<1>4. CASE reader = "sender" /\ Sending
  BY <1>4, SendingStep
<1>5. CASE (Polling \/ (\E sc \in Scopes : EditScope(sc)) \/ FetchOlder \/ Clicking \/ Browsing) /\ UNCHANGED sendVars
  BY <1>2, <1>5 DEF Polling, EditScope, FetchOlder, Clicking, Browsing
<1> QED BY <1>2, <1>3, <1>4, <1>5 DEF ClientsNext, ReadNext, clientVars, allVars

LEMMA StoreInvImplies == IStore /\ NoLIDRecipient => ChatCoversItsMessages
<1> SUFFICES ASSUME IStore, NoLIDRecipient, NEW r \in DOMAIN db.msgs
             PROVE  /\ Listed(db, db.msgs[r].chat, db.msgs[r].ts)
                    /\ \A q \in DOMAIN db.msgs \ {r} : db.msgs[q].chat = db.msgs[r].chat => db.msgs[q].id # db.msgs[r].id
  BY DEF ChatCoversItsMessages, Listed
<1> QED BY DEF IStore, StoreInv, Sound, Covers, OneRow

LEMMA StoreInvariant == ClientsSpec => []IStore
<1>1. ClientsInit => IStore
  BY StoreInit DEF IStore, ClientsInit, ReadInit
<1>2. IStore /\ [ClientsNext]_clientVars => IStore'
  BY StoreStep
<1> QED BY <1>1, <1>2, PTL DEF ClientsSpec

(* internal/store ingest.go, fold.go and prune.go under internal/bridge     *)
(* events.go: whatever events arrive, in whatever order and however often,  *)
(* between whatever stops, folds, prunes and sends of the tools, a stored   *)
(* message is one row, its chat is listed, and the chat is at least as      *)
(* recent as the message.                                                   *)
THEOREM ChatsCoverTheirMessages == NoLIDRecipient => (ClientsSpec => []ChatCoversItsMessages)
<1> SUFFICES ASSUME NoLIDRecipient PROVE ClientsSpec => []ChatCoversItsMessages
  OBVIOUS
<1>1. ClientsSpec => []IStore
  BY StoreInvariant
<1> QED BY <1>1, StoreInvImplies, PTL

----------------------------------------------------------------------------
(* A fold settles.                                                         *)

Fcn(f) == f = [x \in DOMAIN f |-> f[x]]
Named3(c) == c = [name |-> c.name, group |-> c.group, last |-> c.last]
Stays(j, known) == PhoneJID(j, known) = j

(* What there is of a database after a fold.                               *)
Settled(d, known) ==
  /\ Fcn(d) /\ Fcn(d.chats) /\ Fcn(d.msgs) /\ Fcn(d.contacts) /\ Fcn(d.lids) /\ Fcn(d.calls)
  /\ DOMAIN d = {"chats", "msgs", "contacts", "lids", "calls"}
  /\ \A c \in DOMAIN d.chats : Stays(c, known) /\ Named3(d.chats[c]) /\ d.chats[c].last \in Int
  /\ \A r \in DOMAIN d.msgs  : Fcn(d.msgs[r]) /\ Stays(d.msgs[r].chat, known) /\ Stays(d.msgs[r].sender, known)
                               /\ d.msgs[r].chat \in DOMAIN d.chats
  /\ \A j \in DOMAIN d.contacts : Stays(j, known)
  /\ \A c \in DOMAIN d.calls : Fcn(d.calls[c]) /\ Stays(d.calls[c].peer, known)

LEMMA ToPhone ==
  ASSUME NEW j, NEW known
  PROVE  Stays(PhoneJID(j, known), known)
  BY DEF Stays, PhoneJID, Pn, Jid

LEMMA NotFoldable ==
  ASSUME NEW S, NEW known, \A j \in S : Stays(j, known)
  PROVE  Foldable(S, known) = {}
  BY DEF Stays, PhoneJID, Foldable, Pn, Jid

LEMMA SameName == ASSUME NEW n PROVE FirstNamed(<<n, AnyName({n})>>) = n
<1>1. CASE n = NoName
  <2>1. AnyName({n}) = NoName
    BY <1>1 DEF AnyName
  <2>2. {i \in DOMAIN <<n, AnyName({n})>> : <<n, AnyName({n})>>[i] # NoName} = {}
    BY <1>1, <2>1
  <2> QED BY <1>1, <2>2 DEF FirstNamed
<1>2. CASE n # NoName
  <2>1. AnyName({n}) = n
    BY <1>2 DEF AnyName, OneOf
  <2> DEFINE s == <<n, n>>
             T == {i \in DOMAIN s : s[i] # NoName}
  <2>2. T = {1, 2} /\ \A i \in T : s[i] = n
    BY <1>2
  <2>3. Min(T) \in T
    <3>1. \E x \in {1, 2} : \A y \in {1, 2} : x <= y
      OBVIOUS
    <3> QED BY <2>2, <3>1 DEF Min
  <2>4. FirstNamed(s) = s[Min(T)]
    BY <2>2 DEF FirstNamed
  <2> QED BY <2>1, <2>2, <2>3, <2>4
<1> QED BY <1>1, <1>2

LEMMA MaxOfOne == ASSUME NEW n \in Int PROVE Max({n}) = n
  BY DEF Max

LEMMA ExceptSame ==
  ASSUME NEW f, Fcn(f), NEW k
  PROVE  [f EXCEPT ![k] = f[k]] = f
  BY DEF Fcn

LEMMA SameTables ==
  ASSUME NEW d, Fcn(d)
  PROVE  /\ [d EXCEPT !.chats = d.chats, !.msgs = d.msgs, !.lids = d.lids] = d
         /\ [d EXCEPT !.msgs = d.msgs, !.lids = d.lids] = d
         /\ [d EXCEPT !.contacts = d.contacts] = d
         /\ [d EXCEPT !.calls = d.calls] = d
  BY DEF Fcn

LEMMA SettledAgain ==
  ASSUME NEW d, NEW known, Settled(d, known)
  PROVE  FoldLIDs(d, known) = d /\ Foldable(Identities(d), known) = {}
<1> USE DEF Settled
<1>1. FoldChats(d, known) = d
  <2> DEFINE C == DOMAIN d.chats
             to(c) == PhoneJID(c, known)
             new == [j \in {to(c) : c \in C} |-> ChatAfterFold(d.chats, j, {c \in C : to(c) = j})]
  <2>1. Foldable(C, known) = {}
    BY NotFoldable
  <2>2. \A c \in C : to(c) = c
    BY DEF Stays
  <2>3. {to(c) : c \in C} = C
    BY <2>2
  <2>4. ASSUME NEW j \in C
        PROVE  ChatAfterFold(d.chats, j, {c \in C : to(c) = j}) = d.chats[j]
    <3>1. {c \in C : to(c) = j} = {j}
      BY <2>2
    <3>2. {d.chats[c].name : c \in {j}} = {d.chats[j].name} /\ {d.chats[c].last : c \in {j}} = {d.chats[j].last}
      OBVIOUS
    <3>3. ChatAfterFold(d.chats, j, {j}) = [name |-> d.chats[j].name, group |-> d.chats[j].group, last |-> d.chats[j].last]
      BY <3>2, SameName, MaxOfOne DEF ChatAfterFold
    <3> QED BY <3>1, <3>3 DEF Named3
  <2>5. new = d.chats
    BY <2>3, <2>4 DEF Fcn
  <2>6. RowsAfterFold(d, {}) = d.msgs
    <3>1. RowsAfterFold(d, {}) = [r \in DOMAIN d.msgs |-> [d.msgs[r] EXCEPT !.chat = d.msgs[r].chat]]
      BY DEF RowsAfterFold
    <3>2. \A r \in DOMAIN d.msgs : [d.msgs[r] EXCEPT !.chat = d.msgs[r].chat] = d.msgs[r]
      BY ExceptSame
    <3> QED BY <3>1, <3>2 DEF Fcn
  <2>7. PairLIDs(d.lids, {}) = d.lids
    BY DEF PairLIDs, Fcn
  <2>8. FoldChats(d, known) = [d EXCEPT !.chats = new, !.msgs = RowsAfterFold(d, {}), !.lids = PairLIDs(d.lids, {})]
    BY <2>1 DEF FoldChats
  <2> HIDE DEF new
  <2> QED BY <2>5, <2>6, <2>7, <2>8, SameTables
<1>2. FoldSenders(d, known) = d
  <2> DEFINE lids == Foldable({d.msgs[r].sender : r \in DOMAIN d.msgs}, known)
             new == [r \in DOMAIN d.msgs |-> [d.msgs[r] EXCEPT !.sender = PhoneJID(d.msgs[r].sender, known)]]
  <2>1. lids = {}
    BY NotFoldable
  <2>2. {BareLID(j) : j \in lids} = {}
    BY <2>1
  <2>3. new = d.msgs
    <3>1. \A r \in DOMAIN d.msgs : [d.msgs[r] EXCEPT !.sender = PhoneJID(d.msgs[r].sender, known)] = d.msgs[r]
      BY ExceptSame DEF Stays
    <3> QED BY <3>1 DEF Fcn
  <2>4. PairLIDs(d.lids, {}) = d.lids
    BY DEF PairLIDs, Fcn
  <2>5. FoldSenders(d, known) = [d EXCEPT !.msgs = new, !.lids = PairLIDs(d.lids, {})]
    BY <2>1, <2>2 DEF FoldSenders
  <2> HIDE DEF new
  <2> QED BY <2>3, <2>4, <2>5, SameTables
<1>3. FoldContacts(d, known) = d
  <2> DEFINE C == DOMAIN d.contacts
             to(j) == PhoneJID(j, known)
             lids(k) == {j \in Foldable(C, known) : to(j) = k}
             filled(k) == MergeContact(ContactOf(d, k),
                     [f \in DOMAIN NoContact |-> IF f = "phone" THEN PhoneDigits(k)
                                                 ELSE AnyName({d.contacts[j][f] : j \in lids(k)})])
             new == [k \in {to(j) : j \in C} |-> IF lids(k) = {} THEN d.contacts[k] ELSE filled(k)]
  <2>1. Foldable(C, known) = {}
    BY NotFoldable
  <2>2. {to(j) : j \in C} = C
    BY DEF Stays
  <2>3. new = [d EXCEPT !.contacts = new].contacts /\ FoldContacts(d, known) = [d EXCEPT !.contacts = new]
    BY DEF FoldContacts
  <2>4. \A k : lids(k) = {}
    BY <2>1
  <2> HIDE DEF lids, filled
  <2>5. new = d.contacts
    BY <2>2, <2>4 DEF Fcn
  <2> HIDE DEF new
  <2> QED BY <2>3, <2>5 DEF Fcn
<1>4. FoldCalls(d, known) = d
  <2> DEFINE new == [c \in DOMAIN d.calls |-> [d.calls[c] EXCEPT !.peer = PhoneJID(d.calls[c].peer, known)]]
  <2>1. new = d.calls
    <3>1. \A c \in DOMAIN d.calls : [d.calls[c] EXCEPT !.peer = PhoneJID(d.calls[c].peer, known)] = d.calls[c]
      BY ExceptSame DEF Stays
    <3> QED BY <3>1 DEF Fcn
  <2>2. FoldCalls(d, known) = [d EXCEPT !.calls = new]
    BY DEF FoldCalls
  <2> HIDE DEF new
  <2> QED BY <2>1, <2>2 DEF Fcn
<1>5. FoldLIDs(d, known) = d
  BY <1>1, <1>2, <1>3, <1>4 DEF FoldLIDs
<1>6. \A j \in Identities(d) : Stays(j, known)
  BY DEF Identities
<1> QED BY <1>5, <1>6, NotFoldable

(* Every call names who it is with.                                        *)
Peers(d) == \A c \in DOMAIN d.calls : "peer" \in DOMAIN d.calls[c]

LEMMA FoldSettlesIt ==
  ASSUME NEW d, Sound(d), Peers(d), NEW known
  PROVE  Settled(FoldLIDs(d, known), known)
<1> DEFINE d1 == FoldChats(d, known)
           d2 == FoldSenders(d1, known)
           d3 == FoldContacts(d2, known)
           d4 == FoldCalls(d3, known)
           Fields == {"chats", "msgs", "contacts", "lids", "calls"}
<1>0. DOMAIN d = Fields /\ Sound(d1)
  BY FoldChatsSound DEF Sound, Shaped
<1>1. /\ Fcn(d1) /\ DOMAIN d1 = Fields /\ d1.contacts = d.contacts /\ d1.calls = d.calls
      /\ Fcn(d1.chats) /\ Fcn(d1.msgs) /\ Fcn(d1.lids)
      /\ \A c \in DOMAIN d1.chats : Stays(c, known) /\ Named3(d1.chats[c])
      /\ \A r \in DOMAIN d1.msgs : Fcn(d1.msgs[r])
  <2> DEFINE C == DOMAIN d.chats
             to(c) == PhoneJID(c, known)
             after(j) == ChatAfterFold(d.chats, j, {c \in C : to(c) = j})
             rows == RowsAfterFold(d, Foldable(C, known))
             pairs == PairLIDs(d.lids, Foldable(C, known))
             chats == [j \in {to(c) : c \in C} |-> after(j)]
  <2>1. d1 = [d EXCEPT !.chats = chats, !.msgs = rows, !.lids = pairs]
    BY DEF FoldChats
  <2>2. Fcn(rows) /\ Fcn(pairs) /\ \A r \in DOMAIN rows : Fcn(rows[r])
    BY DEF RowsAfterFold, PairLIDs, Fcn
  <2>3. \A j : Named3(after(j))
    BY DEF ChatAfterFold, Named3
  <2> HIDE DEF after, rows, pairs
  <2>4. Fcn(chats) /\ \A j \in DOMAIN chats : Stays(j, known) /\ Named3(chats[j])
    BY <2>3, ToPhone DEF Fcn
  <2> HIDE DEF chats, d1
  <2>5. /\ Fcn(d1) /\ DOMAIN d1 = Fields /\ d1.contacts = d.contacts /\ d1.calls = d.calls
        /\ d1.chats = chats /\ d1.msgs = rows /\ d1.lids = pairs
    BY <1>0, <2>1 DEF Fcn
  <2> QED BY <2>2, <2>4, <2>5
<1> HIDE DEF d1
<1>2. /\ \A c \in DOMAIN d1.chats : d1.chats[c].last \in Int
      /\ \A r \in DOMAIN d1.msgs : d1.msgs[r].chat \in DOMAIN d1.chats /\ Stays(d1.msgs[r].chat, known)
                                    /\ {"chat", "sender"} \subseteq DOMAIN d1.msgs[r]
  BY <1>0, <1>1 DEF Sound, Shaped, ChatRows, MessageRows, Covers, Listed
<1>3. /\ Fcn(d2) /\ DOMAIN d2 = Fields /\ d2.contacts = d.contacts /\ d2.calls = d.calls /\ d2.chats = d1.chats
      /\ Fcn(d2.msgs) /\ Fcn(d2.lids) /\ DOMAIN d2.msgs = DOMAIN d1.msgs
      /\ \A r \in DOMAIN d2.msgs : /\ Fcn(d2.msgs[r]) /\ d2.msgs[r].chat = d1.msgs[r].chat
                                    /\ Stays(d2.msgs[r].sender, known)
  <2> DEFINE lids == Foldable({d1.msgs[r].sender : r \in DOMAIN d1.msgs}, known)
             pairs == PairLIDs(d1.lids, lids \cup {BareLID(j) : j \in lids})
             to(r) == PhoneJID(d1.msgs[r].sender, known)
             rows == [r \in DOMAIN d1.msgs |-> [d1.msgs[r] EXCEPT !.sender = to(r)]]
  <2>1. d2 = [d1 EXCEPT !.msgs = rows, !.lids = pairs]
    BY DEF FoldSenders
  <2>2. Fcn(pairs)
    BY DEF PairLIDs, Fcn
  <2>3. \A r : Stays(to(r), known)
    BY ToPhone
  <2> HIDE DEF to, pairs, lids
  <2>4. Fcn(rows) /\ DOMAIN rows = DOMAIN d1.msgs
    BY DEF Fcn
  <2>5. ASSUME NEW r \in DOMAIN rows
        PROVE  Fcn(rows[r]) /\ rows[r].chat = d1.msgs[r].chat /\ rows[r].sender = to(r)
    BY <1>2 DEF Fcn
  <2> HIDE DEF rows, d2
  <2>6. /\ Fcn(d2) /\ DOMAIN d2 = Fields /\ d2.contacts = d1.contacts /\ d2.calls = d1.calls
        /\ d2.chats = d1.chats /\ d2.msgs = rows /\ d2.lids = pairs
    BY <1>1, <2>1 DEF Fcn
  <2> QED BY <1>1, <2>2, <2>3, <2>4, <2>5, <2>6
<1> HIDE DEF d2
<1>4. /\ Fcn(d3) /\ DOMAIN d3 = Fields /\ d3.calls = d.calls /\ d3.chats = d2.chats /\ d3.msgs = d2.msgs
      /\ d3.lids = d2.lids /\ Fcn(d3.contacts) /\ \A j \in DOMAIN d3.contacts : Stays(j, known)
  <2> DEFINE C == {PhoneJID(j, known) : j \in DOMAIN d2.contacts}
             lids(k) == {j \in Foldable(DOMAIN d2.contacts, known) : PhoneJID(j, known) = k}
             filled(k) == MergeContact(ContactOf(d2, k),
                   [f \in DOMAIN NoContact |-> IF f = "phone" THEN PhoneDigits(k)
                                               ELSE AnyName({d2.contacts[j][f] : j \in lids(k)})])
             new == [k \in C |-> IF lids(k) = {} THEN d2.contacts[k] ELSE filled(k)]
  <2>1. d3 = [d2 EXCEPT !.contacts = new]
    BY DEF FoldContacts
  <2> HIDE DEF lids, filled
  <2>2. DOMAIN new = C /\ Fcn(new)
    BY DEF Fcn
  <2> HIDE DEF new, d3
  <2>3. \A j \in DOMAIN new : Stays(j, known)
    BY <2>2, ToPhone
  <2>4. /\ Fcn(d3) /\ DOMAIN d3 = Fields /\ d3.calls = d2.calls /\ d3.chats = d2.chats /\ d3.msgs = d2.msgs
        /\ d3.lids = d2.lids /\ d3.contacts = new
    BY <1>3, <2>1 DEF Fcn
  <2> QED BY <1>3, <2>2, <2>3, <2>4
<1> HIDE DEF d3
<1>5. /\ Fcn(d4) /\ DOMAIN d4 = Fields /\ d4.chats = d3.chats /\ d4.msgs = d3.msgs
      /\ d4.lids = d3.lids /\ d4.contacts = d3.contacts /\ Fcn(d4.calls)
      /\ \A c \in DOMAIN d4.calls : Fcn(d4.calls[c]) /\ Stays(d4.calls[c].peer, known)
  <2> DEFINE to(c) == PhoneJID(d.calls[c].peer, known)
             new == [c \in DOMAIN d.calls |-> [d.calls[c] EXCEPT !.peer = to(c)]]
  <2>1. d4 = [d3 EXCEPT !.calls = new]
    BY <1>4 DEF FoldCalls
  <2>2. \A c : Stays(to(c), known)
    BY ToPhone
  <2> HIDE DEF to
  <2>3. Fcn(new) /\ \A c \in DOMAIN new : Fcn(new[c]) /\ new[c].peer = to(c)
    BY DEF Fcn, Peers
  <2> HIDE DEF new, d4
  <2>4. /\ Fcn(d4) /\ DOMAIN d4 = Fields /\ d4.chats = d3.chats /\ d4.msgs = d3.msgs
        /\ d4.lids = d3.lids /\ d4.contacts = d3.contacts /\ d4.calls = new
    BY <1>4, <2>1 DEF Fcn
  <2> QED BY <2>2, <2>3, <2>4
<1> HIDE DEF d4
<1>6. Settled(d4, known)
  BY <1>1, <1>2, <1>3, <1>4, <1>5 DEF Settled
<1> QED BY <1>6 DEF FoldLIDs, d1, d2, d3, d4

LEMMA PutRow ==
  ASSUME NEW f, NEW k, NEW v
  PROVE  \A x \in DOMAIN Put(f, k, v) : x \in DOMAIN f \cup {k} /\ Put(f, k, v)[x] = IF x = k THEN v ELSE f[x]
  BY DEF Put

LEMMA CommitPeers ==
  ASSUME NEW d, Sound(d), Peers(d), NEW t, t.do \in Writes, NEW known
  PROVE  Peers(Commit(d, t, known))
<1> DEFINE e == Commit(d, t, known)
<1>0. DOMAIN d = {"chats", "msgs", "contacts", "lids", "calls"}
  BY DEF Sound, Shaped
<1>1. CASE t.do \in {"chat", "row", "lid", "contact", "read", "prune"}
  <2>1. e.calls = d.calls
    BY <1>0, <1>1 DEF Commit, UpsertChat, UpsertMessage, UpsertLIDMapping, UpsertContact, MarkRead, PruneStubMessages
  <2> QED BY <2>1 DEF Peers
<1>2. CASE t.do = "call"
  <2> DEFINE new == [peer |-> t.peer, ts |-> t.ts, status |-> t.status]
  <2>1. e.calls = Put(d.calls, t.id, new)
    BY <1>0, <1>2 DEF Commit, InsertCall
  <2> HIDE DEF e, new
  <2>2. "peer" \in DOMAIN new
    BY DEF new
  <2> QED BY <2>1, <2>2, PutRow DEF Peers, e
<1>3. CASE t.do = "fold"
  <2>1. e.calls = [c \in DOMAIN d.calls |-> [d.calls[c] EXCEPT !.peer = PhoneJID(d.calls[c].peer, known)]]
    <3>1. DOMAIN FoldChats(d, known) = DOMAIN d /\ FoldChats(d, known).calls = d.calls
      BY <1>0 DEF FoldChats
    <3> DEFINE d1 == FoldChats(d, known)
    <3> HIDE DEF d1
    <3>2. DOMAIN FoldSenders(d1, known) = DOMAIN d1 /\ ("calls" \in DOMAIN d1 => FoldSenders(d1, known).calls = d1.calls)
      BY DEF FoldSenders
    <3> DEFINE d2 == FoldSenders(d1, known)
    <3> HIDE DEF d2
    <3>3. DOMAIN FoldContacts(d2, known) = DOMAIN d2 /\ ("calls" \in DOMAIN d2 => FoldContacts(d2, known).calls = d2.calls)
      BY DEF FoldContacts
    <3> DEFINE d3 == FoldContacts(d2, known)
    <3> HIDE DEF d3
    <3>4. "calls" \in DOMAIN d3 /\ d3.calls = d.calls
      BY <1>0, <3>1, <3>2, <3>3 DEF d1, d2, d3
    <3>5. FoldCalls(d3, known).calls = [c \in DOMAIN d.calls |-> [d.calls[c] EXCEPT !.peer = PhoneJID(d.calls[c].peer, known)]]
      BY <3>4 DEF FoldCalls
    <3> QED BY <1>3, <3>5 DEF Commit, FoldLIDs, d1, d2, d3
  <2> HIDE DEF e
  <2> QED BY <2>1 DEF Peers, e
<1> QED BY <1>1, <1>2, <1>3 DEF Writes

(* Who writes to the store.                                                *)
LEMMA OnlyWriters ==
  ASSUME [ClientsNext]_clientVars
  PROVE  Write \/ Record \/ MarkLocally \/ UNCHANGED db
<1>1. CASE Sending
  BY <1>1 DEF Sending, Submit, MarkReadCall, Deliver, DeliverRead, ingestVars
<1>2. CASE BridgeStep
  BY <1>2 DEF BridgeStep, Ingesting, Handling, Take, Decode, PassOver, OpenConversation, Stop, LearnPairing, ingestVars
<1>3. CASE Polling \/ (\E sc \in Scopes : EditScope(sc)) \/ FetchOlder \/ Clicking \/ Browsing
  BY <1>3 DEF Polling, EditScope, FetchOlder, Clicking, Browsing, ingestVars
<1>4. CASE UNCHANGED clientVars
  BY <1>4 DEF clientVars, allVars, ingestVars
<1> QED BY <1>1, <1>2, <1>3, <1>4 DEF ClientsNext, ReadNext

LEMMA PeersStep ==
  ASSUME StoreInv, Peers(db), [ClientsNext]_clientVars
  PROVE  Peers(db)'
<1> USE DEF StoreInv
<1>1. CASE Write
  <2>1. todo # <<>> /\ Head(todo).do \notin {"message", "old", "conversation"} /\ db' = Commit(db, Head(todo), Known)
    BY <1>1 DEF Write
  <2>2. Head(todo).do \in Writes
    BY <2>1, TailTasks DEF TaskOK
  <2> QED BY <2>1, <2>2, CommitPeers
<1>2. CASE Record
  <2>1. outbox # <<>> /\ db' = Commit(db, Head(outbox), Known)
    BY <1>2 DEF Record
  <2>2. Head(outbox).do \in Writes
    BY <2>1, TailTasks, ReadyTask DEF OutboxOK, Writes
  <2> QED BY <2>1, <2>2, CommitPeers
<1>3. CASE MarkLocally
  <2>1. db'.calls = db.calls
    BY <1>3 DEF MarkLocally, MarkRead, Sound, Shaped
  <2> QED BY <2>1 DEF Peers
<1>4. CASE UNCHANGED db
  BY <1>4 DEF Peers
<1>5. Write \/ Record \/ MarkLocally \/ UNCHANGED db
  BY OnlyWriters
<1> QED BY <1>1, <1>2, <1>3, <1>4, <1>5

LEMMA FoldStep ==
  ASSUME StoreInv, Peers(db), Folding
  PROVE  Foldable(Identities(db'), Known) = {} /\ FoldLIDs(db', Known) = db'
<1>1. db' = FoldLIDs(db, Known)
  BY DEF Folding, Write, Commit
<1>2. Settled(db', Known)
  BY <1>1, FoldSettlesIt DEF StoreInv
<1> QED BY <1>2, SettledAgain

(* internal/store fold.go, "one transaction and is idempotent": after a     *)
(* fold no chat, row, sender, contact or call is under a LID the fold could *)
(* name, and a second one would change nothing.                            *)
THEOREM FoldsSettle == NoLIDRecipient => (ClientsSpec => FoldSettles)
<1> SUFFICES ASSUME NoLIDRecipient PROVE ClientsSpec => FoldSettles
  OBVIOUS
<1>1. ClientsInit => Peers(db)
  BY DEF ClientsInit, ReadInit, SendInit, Init, EmptyDB, Peers
<1>2. StoreInv /\ Peers(db) /\ [ClientsNext]_clientVars => Peers(db)'
  BY PeersStep
<1>3. StoreInv /\ Peers(db) => [Folding => /\ Foldable(Identities(db'), Known) = {}
                                        /\ FoldLIDs(db', Known) = db']_ingestVars
  BY FoldStep
<1>4. IStore => StoreInv
  BY DEF IStore
<1>5. ClientsSpec => []IStore
  BY StoreInvariant
<1> QED BY <1>1, <1>2, <1>3, <1>4, <1>5, PTL DEF ClientsSpec, FoldSettles

----------------------------------------------------------------------------
(* Nothing is forgotten.                                                   *)

(* A message with nothing a reader could use, and the ids of those.        *)
Empty(w) == Stub(DecodeMessage(w, {}))
StubIDs == {e.w.id : e \in {f \in Events : f.type = "message" /\ Empty(f.w)}}

(* The assumption: what has one id has one content, as far as there is any *)
(* (the ids of this account's own sends are the numbers over ten).         *)
OneContentPerID ==
  /\ \A e \in Events : e.type = "message" /\ e.w.id \in StubIDs => Empty(e.w)
  /\ \A n \in StubIDs : n <= 10

(* A message an event carries, for a store this account's own sends (`mine`) *)
(* are not written to.                                                     *)
Arrives(m) == \E e \in Events : e.type = "message" /\ e.w.id = m.id /\ e.w.ts = m.ts /\ e.w.me = m.me

RowSays(m, mine) ==
  /\ {"chat", "id", "ts", "me", "kind", "text", "media"} \subseteq DOMAIN m
  /\ OneContentPerID => (Stub(m) <=> m.id \in StubIDs)
  /\ ~mine => Arrives(m)
WireSays(w, mine) ==
  /\ {"id", "ts", "me", "body", "wrap", "text"} \subseteq DOMAIN w
  /\ OneContentPerID => (Empty(w) <=> w.id \in StubIDs)
  /\ ~mine => Arrives(w)
(* What names people and pairs their addresses in it.                      *)
Pairing(lid, pn) == lid.s = "lid" /\ lid.u \in Nat /\ pn = Pn(lid.u)
WireNames(w) ==
  /\ w.push \in Names /\ w.sender \in Jids /\ w.sender # NoJid
  /\ LIDPairing(w) # <<>> => Pairing(LIDPairing(w)[1], LIDPairing(w)[3]) /\ Pairing(LIDPairing(w)[2], LIDPairing(w)[3])
  /\ ChatPairing(w) # <<>> => Pairing(ChatPairing(w)[1], ChatPairing(w)[2])
OldNames(w, jid) == \A known : WireNames([w EXCEPT !.chat = PhoneJID(jid, known)])
TaskNames(t) ==
  /\ t.do = "chat" => t.name \in Names
  /\ t.do = "row"  => "sender" \in DOMAIN t.m /\ t.m.sender \in Jids
  /\ t.do = "lid"  => Pairing(t.lid, t.pn)
  /\ t.do = "contact" => t.push \in Names /\ t.full \in Names /\ t.jid # NoJid /\ t.jid.u \in Nat
  /\ t.do = "call" => t.id \in Nat /\ t.ts \in Nat
  /\ t.do \in {"message", "old"} => WireNames(t.w)
  /\ t.do = "conversation" => t.c.name \in Names /\ \A i \in 1 .. Len(t.c.msgs) : OldNames(t.c.msgs[i], t.c.jid)
TaskSays(t, mine) ==
  /\ TaskNames(t)
  /\ t.do \in Writes \cup {"message", "old", "conversation"}
  /\ t.do = "row" => RowSays(t.m, mine)
  /\ t.do \in {"message", "old"} => WireSays(t.w, mine)
  /\ t.do = "conversation" => t.c.msgs \in Seq(Wires) /\ \A i \in 1 .. Len(t.c.msgs) : WireSays(t.c.msgs[i], mine)
  /\ t.do = "read" => t.at \in Int
TasksSay(s, mine) == IsSeq(s) /\ \A i \in 1 .. Len(s) : TaskSays(s[i], mine)

(* What the rows of a database say.                                        *)
Kempt(d, mine) ==
  /\ DOMAIN d = {"chats", "msgs", "contacts", "lids", "calls"}
  /\ IsFiniteSet(DOMAIN d.msgs) /\ DOMAIN d.msgs \subseteq Nat
  /\ \A r \in DOMAIN d.msgs : RowSays(d.msgs[r], mine) /\ "read" \in DOMAIN d.msgs[r] /\ d.msgs[r].read \in Int

KeepsAll(d, e) ==
  OneContentPerID => \A r \in DOMAIN d.msgs : ~Stub(d.msgs[r]) =>
     \E q \in DOMAIN e.msgs : /\ e.msgs[q].id = d.msgs[r].id /\ ~Stub(e.msgs[q])
                              /\ SamePlace(e.msgs[q].chat, d.msgs[r].chat)
                              /\ q = r => e.msgs[q].read >= d.msgs[r].read

(* The rows are the same, but for their senders and later read marks.      *)
Carries(d, e) ==
  /\ DOMAIN e = DOMAIN d /\ DOMAIN e.msgs = DOMAIN d.msgs
  /\ \A r \in DOMAIN d.msgs :
       /\ DOMAIN e.msgs[r] = DOMAIN d.msgs[r]
       /\ \A f \in DOMAIN d.msgs[r] \ {"sender", "read"} : e.msgs[r][f] = d.msgs[r][f]
       /\ e.msgs[r].read \in Int /\ e.msgs[r].read >= d.msgs[r].read

LEMMA CarriesSays ==
  ASSUME NEW mine, NEW d, Kempt(d, mine), NEW e, Carries(d, e)
  PROVE  /\ Kempt(e, mine)
         /\ \A r \in DOMAIN d.msgs : /\ e.msgs[r].chat = d.msgs[r].chat /\ e.msgs[r].id = d.msgs[r].id
                                     /\ Stub(e.msgs[r]) <=> Stub(d.msgs[r])
<1>1. ASSUME NEW r \in DOMAIN d.msgs
      PROVE  /\ e.msgs[r].chat = d.msgs[r].chat /\ e.msgs[r].id = d.msgs[r].id
             /\ e.msgs[r].ts = d.msgs[r].ts /\ e.msgs[r].me = d.msgs[r].me
             /\ e.msgs[r].kind = d.msgs[r].kind /\ e.msgs[r].text = d.msgs[r].text
             /\ e.msgs[r].media = d.msgs[r].media
  BY DEF Carries, Kempt, RowSays
<1>2. \A r \in DOMAIN d.msgs : Stub(e.msgs[r]) <=> Stub(d.msgs[r])
  BY <1>1 DEF Stub
<1>3. \A r \in DOMAIN d.msgs : RowSays(e.msgs[r], mine)
  BY <1>1, <1>2 DEF Kempt, Carries, RowSays, Arrives
<1>4. Kempt(e, mine)
  BY <1>3 DEF Kempt, Carries
<1> QED BY <1>1, <1>2, <1>4

LEMMA CarriesKeeps ==
  ASSUME NEW mine, NEW d, Kempt(d, mine), NEW e, Carries(d, e)
  PROVE  Kempt(e, mine) /\ KeepsAll(d, e)
<1>1. ASSUME NEW r \in DOMAIN d.msgs, ~Stub(d.msgs[r])
      PROVE  /\ r \in DOMAIN e.msgs /\ e.msgs[r].id = d.msgs[r].id /\ ~Stub(e.msgs[r])
             /\ SamePlace(e.msgs[r].chat, d.msgs[r].chat)
             /\ e.msgs[r].read >= d.msgs[r].read
  BY <1>1, CarriesSays DEF Carries, SamePlace
<1> QED BY <1>1, CarriesSays DEF KeepsAll

LEMMA KeepsThenCarries ==
  ASSUME NEW mine, NEW d, NEW e, NEW f, Kempt(d, mine), Kempt(e, mine), KeepsAll(d, e), Carries(e, f)
  PROVE  Kempt(f, mine) /\ KeepsAll(d, f)
<1>1. ASSUME OneContentPerID, NEW r \in DOMAIN d.msgs, ~Stub(d.msgs[r])
      PROVE  \E q \in DOMAIN f.msgs : /\ f.msgs[q].id = d.msgs[r].id /\ ~Stub(f.msgs[q])
                                      /\ SamePlace(f.msgs[q].chat, d.msgs[r].chat)
                                      /\ q = r => f.msgs[q].read >= d.msgs[r].read
  <2>1. PICK q \in DOMAIN e.msgs : /\ e.msgs[q].id = d.msgs[r].id /\ ~Stub(e.msgs[q])
                                   /\ SamePlace(e.msgs[q].chat, d.msgs[r].chat)
                                   /\ q = r => e.msgs[q].read >= d.msgs[r].read
    BY <1>1 DEF KeepsAll
  <2>2. /\ q \in DOMAIN f.msgs /\ f.msgs[q].chat = e.msgs[q].chat /\ f.msgs[q].id = e.msgs[q].id
        /\ ~Stub(f.msgs[q]) /\ f.msgs[q].read >= e.msgs[q].read
        /\ f.msgs[q].read \in Int /\ e.msgs[q].read \in Int /\ d.msgs[r].read \in Int
    BY <2>1, CarriesSays DEF Carries, Kempt
  <2>3. q = r => f.msgs[q].read >= d.msgs[r].read
    BY <2>1, <2>2
  <2> QED BY <2>1, <2>2, <2>3
<1> QED BY <1>1, CarriesSays DEF KeepsAll

(* An upsert of a row: it lands on the row of its message, or on a new one. *)
LEMMA UpsertKeeps ==
  ASSUME NEW mine, NEW d, Kempt(d, mine), NEW m, RowSays(m, mine)
  PROVE  LET e == UpsertMessage(d, m) IN Kempt(e, mine) /\ KeepsAll(d, e)
<1> DEFINE e == UpsertMessage(d, m)
           hit == RowAt(d, m.chat, m.id)
           r == IF hit = {} THEN NextRowID(d) ELSE OneOf(hit)
           at == IF hit = {} THEN 0 ELSE d.msgs[r].read
           row == Put(m, "read", at)
<1>1. /\ DOMAIN e = DOMAIN d /\ e.msgs = Put(d.msgs, r, row)
  BY DEF UpsertMessage, Kempt
<1>2. /\ r \in Nat /\ at \in Int
      /\ r \in DOMAIN d.msgs => d.msgs[r].chat = m.chat /\ d.msgs[r].id = m.id /\ at = d.msgs[r].read
  <2>1. CASE hit = {}
    <3> DEFINE T == DOMAIN d.msgs \cup {0}
    <3>1. IsFiniteSet(T) /\ T # {} /\ T \subseteq Int
      BY FS_AddElement DEF Kempt
    <3> HIDE DEF T
    <3>2. Max(T) \in T /\ \A x \in T : Max(T) >= x
      BY <3>1, MaxOfFinite
    <3>3. T \subseteq Nat /\ DOMAIN d.msgs \subseteq T /\ T = {0} \cup DOMAIN d.msgs
      BY DEF T, Kempt
    <3>4. NextRowID(d) = 1 + Max(T)
      BY <3>3 DEF NextRowID
    <3>5. r = NextRowID(d) /\ at = 0
      BY <2>1
    <3> HIDE DEF r, at, hit
    <3>6. r \in Nat /\ r \notin DOMAIN d.msgs
      BY <3>2, <3>3, <3>4, <3>5
    <3> QED BY <3>5, <3>6
  <2>2. CASE hit # {}
    <3>1. r \in hit
      BY <2>2 DEF OneOf
    <3> QED BY <3>1, <2>2 DEF RowAt, RowsOf, Kempt
  <2> QED BY <2>1, <2>2
<1> HIDE DEF r, at, e
<1>3. /\ DOMAIN row = DOMAIN m \cup {"read"}
      /\ row.chat = m.chat /\ row.id = m.id /\ row.ts = m.ts /\ row.me = m.me /\ row.kind = m.kind /\ row.text = m.text /\ row.media = m.media
      /\ row.read = at
  BY DEF Put, RowSays
<1> HIDE DEF row
<1>4. /\ DOMAIN e.msgs = DOMAIN d.msgs \cup {r} /\ e.msgs[r] = row
      /\ \A q \in DOMAIN d.msgs : q # r => e.msgs[q] = d.msgs[q]
  BY <1>1 DEF Put
<1>5. Stub(row) <=> Stub(m)
  BY <1>3 DEF Stub
<1>6. Kempt(e, mine)
  <2>1. IsFiniteSet(DOMAIN e.msgs) /\ DOMAIN e.msgs \subseteq Nat
    BY <1>2, <1>4, FS_AddElement DEF Kempt
  <2>2. RowSays(row, mine)
    BY <1>3, <1>5 DEF RowSays, Arrives
  <2> QED BY <1>1, <1>2, <1>3, <1>4, <2>1, <2>2 DEF Kempt
<1>7. KeepsAll(d, e)
  <2> SUFFICES ASSUME OneContentPerID, NEW q \in DOMAIN d.msgs, ~Stub(d.msgs[q])
               PROVE  /\ q \in DOMAIN e.msgs /\ e.msgs[q].id = d.msgs[q].id /\ ~Stub(e.msgs[q])
                      /\ SamePlace(e.msgs[q].chat, d.msgs[q].chat)
                      /\ e.msgs[q].read >= d.msgs[q].read
    BY DEF KeepsAll
  <2>1. CASE q = r
    <3>1. ~Stub(row)
      BY <1>2, <1>5, <2>1 DEF Kempt, RowSays
    <3> QED BY <1>2, <1>3, <1>4, <2>1, <3>1 DEF SamePlace
  <2>2. CASE q # r
    BY <1>4, <2>2 DEF SamePlace, Kempt
  <2> QED BY <2>1, <2>2
<1> QED BY <1>6, <1>7 DEF e

(* A fold keeps of two rows of a message the one that is in the chat of the *)
(* phone number, or the first.                                             *)
LEMMA FoldChatsKeeps ==
  ASSUME NEW mine, NEW d, Kempt(d, mine), NEW known
  PROVE  LET e == FoldChats(d, known) IN Kempt(e, mine) /\ KeepsAll(d, e)
<1> DEFINE e == FoldChats(d, known)
           lids == Foldable(DOMAIN d.chats, known)
           moves(r) == d.msgs[r].chat \in lids
           to(r)    == IF moves(r) THEN Pn(d.msgs[r].chat.u) ELSE d.msgs[r].chat
           twice(r) == moves(r) /\ \E q \in DOMAIN d.msgs \ {r} :
                         d.msgs[q].id = d.msgs[r].id /\ to(q) = to(r) /\ (moves(q) => q < r)
<1>1. /\ DOMAIN e = DOMAIN d
      /\ e.msgs = [r \in {q \in DOMAIN d.msgs : ~twice(q)} |-> [d.msgs[r] EXCEPT !.chat = to(r)]]
  BY DEF FoldChats, RowsAfterFold, Kempt
<1>2. \A r \in DOMAIN d.msgs : SamePlace(to(r), d.msgs[r].chat)
  BY DEF SamePlace, Foldable, Pn, Jid
<1> HIDE DEF e, lids, to
<1>3. /\ DOMAIN e.msgs = {q \in DOMAIN d.msgs : ~twice(q)}
      /\ \A r \in DOMAIN e.msgs : e.msgs[r] = [d.msgs[r] EXCEPT !.chat = to(r)]
  BY <1>1
<1>4. ASSUME NEW r \in DOMAIN e.msgs
      PROVE  /\ r \in DOMAIN d.msgs /\ DOMAIN e.msgs[r] = DOMAIN d.msgs[r]
             /\ e.msgs[r].chat = to(r) /\ e.msgs[r].id = d.msgs[r].id /\ e.msgs[r].read = d.msgs[r].read
             /\ e.msgs[r].ts = d.msgs[r].ts /\ e.msgs[r].me = d.msgs[r].me
             /\ Stub(e.msgs[r]) <=> Stub(d.msgs[r])
  <2>1. r \in DOMAIN d.msgs /\ RowSays(d.msgs[r], mine) /\ "read" \in DOMAIN d.msgs[r]
    BY <1>3 DEF Kempt
  <2>2. /\ DOMAIN e.msgs[r] = DOMAIN d.msgs[r] /\ e.msgs[r].chat = to(r)
        /\ \A f \in DOMAIN d.msgs[r] : f # "chat" => e.msgs[r][f] = d.msgs[r][f]
    BY <1>3, <2>1 DEF RowSays
  <2>3. /\ e.msgs[r].id = d.msgs[r].id /\ e.msgs[r].read = d.msgs[r].read
        /\ e.msgs[r].ts = d.msgs[r].ts /\ e.msgs[r].me = d.msgs[r].me
        /\ e.msgs[r].kind = d.msgs[r].kind /\ e.msgs[r].text = d.msgs[r].text /\ e.msgs[r].media = d.msgs[r].media
    BY <2>1, <2>2 DEF RowSays
  <2> QED BY <2>1, <2>2, <2>3 DEF Stub
<1>5. Kempt(e, mine)
  <2>1. IsFiniteSet(DOMAIN e.msgs) /\ DOMAIN e.msgs \subseteq Nat
    BY <1>3, FS_Subset DEF Kempt
  <2>2. \A r \in DOMAIN e.msgs : RowSays(e.msgs[r], mine)
    BY <1>4 DEF Kempt, RowSays, Arrives
  <2> QED BY <1>1, <1>4, <2>1, <2>2 DEF Kempt
<1>6. ASSUME NEW r \in DOMAIN d.msgs
      PROVE  \E q \in DOMAIN e.msgs : to(q) = to(r) /\ d.msgs[q].id = d.msgs[r].id /\ (r \in DOMAIN e.msgs => q = r)
  <2> DEFINE T == {q \in DOMAIN d.msgs : to(q) = to(r) /\ d.msgs[q].id = d.msgs[r].id}
  <2>1. CASE r \in DOMAIN e.msgs
    BY <2>1
  <2>2. CASE \E q \in T : ~moves(q)
    BY <1>3, <2>1, <2>2
  <2>3. CASE \A q \in T : moves(q)
    <3>1. T \subseteq Nat /\ T # {}
      BY DEF Kempt
    <3>2. PICK q \in T : \A p \in T : ~(p < q)
      BY <3>1, NatWF
    <3>3. ~twice(q)
      BY <2>3, <3>2
    <3> QED BY <1>3, <2>1, <3>2, <3>3
  <2> QED BY <2>2, <2>3
<1>7. ASSUME OneContentPerID, NEW r \in DOMAIN d.msgs, ~Stub(d.msgs[r])
      PROVE  \E q \in DOMAIN e.msgs : /\ e.msgs[q].id = d.msgs[r].id /\ ~Stub(e.msgs[q])
                                      /\ SamePlace(e.msgs[q].chat, d.msgs[r].chat)
                                      /\ q = r => e.msgs[q].read >= d.msgs[r].read
  <2>1. PICK q \in DOMAIN e.msgs : to(q) = to(r) /\ d.msgs[q].id = d.msgs[r].id
    BY <1>6
  <2>2. ~Stub(d.msgs[q])
    BY <1>4, <1>7, <2>1 DEF Kempt, RowSays
  <2>3. q = r => e.msgs[q].read >= d.msgs[r].read
    BY <1>4 DEF Kempt
  <2> QED BY <1>2, <1>4, <2>1, <2>2, <2>3
<1>8. KeepsAll(d, e)
  BY <1>7 DEF KeepsAll
<1> QED BY <1>5, <1>8 DEF e

LEMMA SameRowsCarry ==
  ASSUME NEW mine, NEW d, Kempt(d, mine), NEW e, DOMAIN e = DOMAIN d, e.msgs = d.msgs
  PROVE  Carries(d, e)
  BY DEF Carries, Kempt

LEMMA FoldKeeps ==
  ASSUME NEW mine, NEW d, Kempt(d, mine), NEW known
  PROVE  LET e == FoldLIDs(d, known) IN Kempt(e, mine) /\ KeepsAll(d, e)
<1> DEFINE d1 == FoldChats(d, known)
           d2 == FoldSenders(d1, known)
           d3 == FoldContacts(d2, known)
           d4 == FoldCalls(d3, known)
<1>1. Kempt(d1, mine) /\ KeepsAll(d, d1)
  BY FoldChatsKeeps
<1> HIDE DEF d1
<1>2. Carries(d1, d2)
  <2>1. /\ DOMAIN d2 = DOMAIN d1
        /\ d2.msgs = [r \in DOMAIN d1.msgs |-> [d1.msgs[r] EXCEPT !.sender = PhoneJID(d1.msgs[r].sender, known)]]
    BY <1>1 DEF FoldSenders, Kempt
  <2> HIDE DEF d2
  <2>2. ASSUME NEW r \in DOMAIN d1.msgs
        PROVE  /\ DOMAIN d2.msgs[r] = DOMAIN d1.msgs[r]
               /\ \A f \in DOMAIN d1.msgs[r] \ {"sender", "read"} : d2.msgs[r][f] = d1.msgs[r][f]
               /\ d2.msgs[r].read = d1.msgs[r].read /\ d1.msgs[r].read \in Int
    <3>1. d2.msgs[r] = [d1.msgs[r] EXCEPT !.sender = PhoneJID(d1.msgs[r].sender, known)]
      BY <2>1
    <3> QED BY <1>1, <3>1 DEF Kempt
  <2>3. DOMAIN d2.msgs = DOMAIN d1.msgs
    BY <2>1
  <2>4. \A r \in DOMAIN d1.msgs : d2.msgs[r].read \in Int /\ d2.msgs[r].read >= d1.msgs[r].read
    BY <2>2
  <2> QED BY <2>1, <2>2, <2>3, <2>4 DEF Carries
<1>3. Kempt(d2, mine) /\ KeepsAll(d, d2)
  BY <1>1, <1>2, KeepsThenCarries
<1> HIDE DEF d2
<1>4. Kempt(d3, mine) /\ KeepsAll(d, d3)
  <2>1. DOMAIN d3 = DOMAIN d2 /\ d3.msgs = d2.msgs
    BY <1>3 DEF FoldContacts, Kempt
  <2> HIDE DEF d3
  <2> QED BY <1>3, <2>1, SameRowsCarry, KeepsThenCarries
<1> HIDE DEF d3
<1>5. Kempt(d4, mine) /\ KeepsAll(d, d4)
  <2>1. DOMAIN d4 = DOMAIN d3 /\ d4.msgs = d3.msgs
    BY <1>4 DEF FoldCalls, Kempt
  <2> HIDE DEF d4
  <2> QED BY <1>4, <2>1, SameRowsCarry, KeepsThenCarries
<1> HIDE DEF d4
<1>6. d4 = FoldLIDs(d, known)
  BY DEF FoldLIDs, d1, d2, d3, d4
<1> QED BY <1>5, <1>6

LEMMA MarkReadKeeps ==
  ASSUME NEW mine, NEW d, Kempt(d, mine), NEW chat, NEW ids, NEW at \in Int
  PROVE  LET e == MarkRead(d, chat, ids, at) IN Kempt(e, mine) /\ KeepsAll(d, e)
<1> DEFINE e == MarkRead(d, chat, ids, at)
<1>1. /\ DOMAIN e = DOMAIN d
      /\ e.msgs = [r \in DOMAIN d.msgs |->
                     IF d.msgs[r].chat = chat /\ d.msgs[r].id \in ids
                     THEN [d.msgs[r] EXCEPT !.read = Later(d.msgs[r].read, at)] ELSE d.msgs[r]]
  BY DEF MarkRead, Kempt
<1> HIDE DEF e
<1>2. ASSUME NEW r \in DOMAIN d.msgs
      PROVE  /\ DOMAIN e.msgs[r] = DOMAIN d.msgs[r]
             /\ \A f \in DOMAIN d.msgs[r] \ {"sender", "read"} : e.msgs[r][f] = d.msgs[r][f]
             /\ e.msgs[r].read \in Int /\ e.msgs[r].read >= d.msgs[r].read
  <2>1. "read" \in DOMAIN d.msgs[r] /\ d.msgs[r].read \in Int
    BY DEF Kempt
  <2>2. /\ Later(d.msgs[r].read, at) \in Int /\ Later(d.msgs[r].read, at) >= d.msgs[r].read
        /\ d.msgs[r].read >= d.msgs[r].read
    BY <2>1 DEF Later
  <2>3. \/ e.msgs[r] = [d.msgs[r] EXCEPT !.read = Later(d.msgs[r].read, at)]
        \/ e.msgs[r] = d.msgs[r]
    BY <1>1
  <2> QED BY <2>1, <2>2, <2>3
<1>3. DOMAIN e.msgs = DOMAIN d.msgs
  BY <1>1
<1>4. Carries(d, e)
  BY <1>1, <1>2, <1>3 DEF Carries
<1> QED BY <1>4, CarriesKeeps DEF e

LEMMA PruneKeeps ==
  ASSUME NEW mine, NEW d, Kempt(d, mine)
  PROVE  LET e == PruneStubMessages(d) IN Kempt(e, mine) /\ KeepsAll(d, e)
<1> DEFINE kept  == {r \in DOMAIN d.msgs : ~Stub(d.msgs[r])}
           e == PruneStubMessages(d)
<1>1. DOMAIN e = DOMAIN d /\ e.msgs = [r \in kept |-> d.msgs[r]]
  BY DEF PruneStubMessages, Restrict, Kempt
<1> HIDE DEF e
<1>2. DOMAIN e.msgs = kept /\ \A r \in kept : e.msgs[r] = d.msgs[r]
  BY <1>1
<1>3. Kempt(e, mine)
  <2>1. IsFiniteSet(DOMAIN e.msgs)
    BY <1>2, FS_Subset DEF Kempt
  <2> QED BY <1>1, <1>2, <2>1 DEF Kempt
<1>4. ASSUME NEW r \in DOMAIN d.msgs, ~Stub(d.msgs[r])
      PROVE  /\ r \in DOMAIN e.msgs /\ e.msgs[r].id = d.msgs[r].id /\ ~Stub(e.msgs[r])
             /\ SamePlace(e.msgs[r].chat, d.msgs[r].chat) /\ e.msgs[r].read >= d.msgs[r].read
  BY <1>2, <1>4 DEF SamePlace, Kempt
<1>5. KeepsAll(d, e)
  BY <1>4 DEF KeepsAll
<1> QED BY <1>3, <1>5 DEF e

(* No transaction forgets a message.                                       *)
LEMMA CommitKeeps ==
  ASSUME NEW mine, NEW d, Kempt(d, mine), NEW t, TaskSays(t, mine), t.do \in Writes, NEW known
  PROVE  LET e == Commit(d, t, known) IN Kempt(e, mine) /\ KeepsAll(d, e)
<1> DEFINE e == Commit(d, t, known)
<1>1. CASE t.do \in {"chat", "lid", "contact", "call"}
  <2>1. DOMAIN e = DOMAIN d /\ e.msgs = d.msgs
    BY <1>1 DEF Commit, UpsertChat, UpsertLIDMapping, UpsertContact, InsertCall, Kempt
  <2> HIDE DEF e
  <2>2. Kempt(e, mine) /\ KeepsAll(d, e)
    BY <2>1, SameRowsCarry, CarriesKeeps
  <2> QED BY <2>2 DEF e
<1>2. CASE t.do = "row"
  <2>1. e = UpsertMessage(d, t.m) /\ RowSays(t.m, mine)
    BY <1>2 DEF Commit, TaskSays
  <2> HIDE DEF e
  <2>2. Kempt(e, mine) /\ KeepsAll(d, e)
    BY <2>1, UpsertKeeps
  <2> QED BY <2>2 DEF e
<1>3. CASE t.do = "read"
  <2>1. e = MarkRead(d, t.jid, t.ids, t.at) /\ t.at \in Int
    BY <1>3 DEF Commit, TaskSays
  <2> HIDE DEF e
  <2>2. Kempt(e, mine) /\ KeepsAll(d, e)
    BY <2>1, MarkReadKeeps
  <2> QED BY <2>2 DEF e
<1>4. CASE t.do = "fold"
  <2>1. e = FoldLIDs(d, known)
    BY <1>4 DEF Commit
  <2> QED BY <2>1, FoldKeeps
<1>5. CASE t.do = "prune"
  <2>1. e = PruneStubMessages(d)
    BY <1>5 DEF Commit
  <2> QED BY <2>1, PruneKeeps
<1> QED BY <1>1, <1>2, <1>3, <1>4, <1>5 DEF Writes

----------------------------------------------------------------------------
(* What the tasks of an event say.                                         *)

LEMMA ConcatSays ==
  ASSUME NEW mine, NEW s, NEW t, TasksSay(s, mine), TasksSay(t, mine)
  PROVE  TasksSay(s \o t, mine)
<1> DEFINE u == s \o t
<1>1. /\ IsSeq(u) /\ Len(s) \in Nat /\ Len(t) \in Nat /\ Len(u) = Len(s) + Len(t)
      /\ \A i \in 1 .. Len(s) : u[i] = s[i]
      /\ \A i \in 1 .. Len(t) : u[Len(s) + i] = t[i]
  BY ConcatSeq DEF TasksSay
<1> HIDE DEF u
<1>2. ASSUME NEW i \in 1 .. Len(u)
      PROVE  TaskSays(u[i], mine)
  <2>1. CASE i \in 1 .. Len(s)
    BY <1>1, <2>1 DEF TasksSay
  <2>2. CASE i \notin 1 .. Len(s)
    <3>1. i - Len(s) \in 1 .. Len(t) /\ i = Len(s) + (i - Len(s))
      BY <1>1, <2>2
    <3> QED BY <1>1, <3>1 DEF TasksSay
  <2> QED BY <2>1, <2>2
<1> QED BY <1>1, <1>2 DEF TasksSay, u

LEMMA OneSays ==
  ASSUME NEW mine, NEW c, NEW t, TaskSays(t, mine)
  PROVE  TasksSay(<<t>>, mine) /\ TasksSay(If(c, <<t>>), mine) /\ TasksSay(<<>>, mine)
<1>1. <<t>> \in Seq({t}) /\ Len(<<t>>) = 1 /\ <<t>>[1] = t
  OBVIOUS
<1>2. <<>> \in Seq({}) /\ Len(<<>>) = 0
  OBVIOUS
<1> DEFINE s == <<t>>
<1> HIDE DEF s
<1>3. s \in Seq({t}) /\ Len(s) = 1 /\ s[1] = t
  BY <1>1 DEF s
<1>4. TasksSay(s, mine)
  BY <1>3 DEF TasksSay, IsSeq
<1>5. TasksSay(<<>>, mine)
  BY <1>2 DEF TasksSay, IsSeq
<1> QED BY <1>4, <1>5 DEF If, s

LEMMA IfSays ==
  ASSUME NEW mine, NEW c, NEW t, c => TaskSays(t, mine)
  PROVE  TasksSay(If(c, <<t>>), mine)
<1>1. TasksSay(<<>>, mine)
  <2>1. <<>> \in Seq({}) /\ Len(<<>>) = 0
    OBVIOUS
  <2> QED BY <2>1 DEF TasksSay, IsSeq
<1>2. CASE c
  BY <1>2, OneSays
<1>3. CASE ~c
  BY <1>1, <1>3 DEF If
<1> QED BY <1>2, <1>3

LEMMA TwoSay ==
  ASSUME NEW mine, NEW a, NEW b, TaskSays(a, mine), TaskSays(b, mine)
  PROVE  TasksSay(<<a, b>>, mine)
<1> DEFINE s == <<a, b>>
<1>1. s \in Seq({a, b}) /\ Len(s) = 2 /\ s[1] = a /\ s[2] = b
  OBVIOUS
<1> HIDE DEF s
<1>2. \A i \in 1 .. Len(s) : i = 1 \/ i = 2
  BY <1>1
<1>3. TasksSay(s, mine)
  BY <1>1, <1>2 DEF TasksSay, IsSeq
<1> QED BY <1>3 DEF s

LEMMA TailSays ==
  ASSUME NEW mine, NEW s, TasksSay(s, mine), s # <<>>
  PROVE  TaskSays(Head(s), mine) /\ TasksSay(Tail(s), mine)
<1>1. PICK S : s \in Seq(S)
  BY DEF TasksSay, IsSeq
<1>2. Tail(s) \in Seq(S) /\ Len(Tail(s)) = Len(s) - 1 /\ Len(s) \in Nat /\ Len(s) > 0 /\ Head(s) = s[1]
  BY <1>1
<1>3. \A i \in 1 .. Len(Tail(s)) : i + 1 \in 1 .. Len(s) /\ Tail(s)[i] = s[i + 1]
  BY <1>1, <1>2
<1> QED BY <1>2, <1>3 DEF TasksSay, IsSeq

(* Whether a message has content does not depend on what can be paired.    *)
LEMMA DecodedSays ==
  ASSUME NEW mine, NEW w, WireSays(w, mine), NEW known
  PROVE  RowSays(DecodeMessage(w, known), mine)
  BY DEF WireSays, RowSays, Empty, DecodeMessage, Stub, Arrives

LEMMA IngestSays ==
  ASSUME NEW mine, NEW w, WireSays(w, mine), WireNames(w), NEW known
  PROVE  TasksSay(IngestMessage(w, known), mine)
<1> DEFINE m   == DecodeMessage(w, known)
           lp  == LIDPairing(w)
           cp  == ChatPairing(w)
           own == w.me \/ w.push = NoName
           s1 == If(lp # <<>>, <<WriteLID(lp[1], lp[3])>>)
           s2 == If(lp # <<>> /\ lp[1] # lp[2], <<WriteLID(lp[2], lp[3])>>)
           s3 == If(cp # <<>>, <<WriteLID(cp[1], cp[2])>>)
           a  == WriteChat(m.chat, ChatNameOf(w), w.group, w.ts)
           b  == [do |-> "row", m |-> m]
           s5 == If(~own, <<WriteName(m.sender, w.push, NoName)>>)
           s6 == If(~own /\ lp # <<>> /\ lp[3] # m.sender, <<WriteName(lp[3], w.push, NoName)>>)
<1>1. TasksSay(s1, mine) /\ TasksSay(s2, mine) /\ TasksSay(s3, mine)
  <2>1. \A lid, pn : Pairing(lid, pn) => TaskSays(WriteLID(lid, pn), mine)
    BY DEF WriteLID, TaskSays, TaskNames, Writes
  <2>2. lp # <<>> => Pairing(lp[1], lp[3]) /\ Pairing(lp[2], lp[3])
    BY DEF WireNames
  <2>3. cp # <<>> => Pairing(cp[1], cp[2])
    BY DEF WireNames
  <2> HIDE DEF lp, cp
  <2> QED BY <2>1, <2>2, <2>3, IfSays
<1>2. TasksSay(<<a, b>>, mine)
  <2>1. TaskSays(a, mine)
    BY DEF WriteChat, TaskSays, TaskNames, WireNames, ChatNameOf, NoName, Names, Writes
  <2>2. TaskSays(b, mine)
    <3>1. RowSays(m, mine)
      BY DecodedSays
    <3>2. "sender" \in DOMAIN m /\ m.sender \in Jids
      BY DEF DecodeMessage, PhoneJID, Pn, Jid, Jids, WireNames
    <3> HIDE DEF m
    <3> QED BY <3>1, <3>2 DEF TaskSays, TaskNames, Writes
  <2> HIDE DEF a, b
  <2> QED BY <2>1, <2>2, TwoSay
<1>3. TasksSay(s5, mine) /\ TasksSay(s6, mine)
  <2>1. \A jid : jid # NoJid /\ jid.u \in Nat => TaskSays(WriteName(jid, w.push, NoName), mine)
    BY DEF WriteName, TaskSays, TaskNames, WireNames, NoName, Names, Writes
  <2>2. m.sender # NoJid /\ m.sender.u \in Nat
    BY DEF DecodeMessage, PhoneJID, Pn, Jid, NoJid, Jids, WireNames
  <2>3. lp # <<>> => lp[3] # NoJid /\ lp[3].u \in Nat
    BY DEF WireNames, Pairing, Pn, Jid, NoJid
  <2> HIDE DEF lp, m
  <2> QED BY <2>1, <2>2, <2>3, IfSays
<1>4. IngestMessage(w, known) = s1 \o s2 \o s3 \o <<a, b>> \o s5 \o s6
  BY DEF IngestMessage
<1> DEFINE s4 == <<a, b>>
<1> HIDE DEF s1, s2, s3, s4, s5, s6
<1>5. TasksSay(s1 \o s2, mine)
  BY <1>1, ConcatSays
<1>6. TasksSay(s1 \o s2 \o s3, mine)
  BY <1>1, <1>5, ConcatSays
<1>7. TasksSay(s1 \o s2 \o s3 \o s4, mine)
  BY <1>2, <1>6, ConcatSays DEF s4
<1>8. TasksSay(s1 \o s2 \o s3 \o s4 \o s5, mine)
  BY <1>3, <1>7, ConcatSays
<1>9. TasksSay(s1 \o s2 \o s3 \o s4 \o s5 \o s6, mine)
  BY <1>3, <1>8, ConcatSays
<1> QED BY <1>4, <1>9 DEF s4

LEMMA ConversationSays ==
  ASSUME NEW mine, NEW c, c.msgs \in Seq(Wires), \A i \in 1 .. Len(c.msgs) : WireSays(c.msgs[i], mine),
         c.name \in Names, \A i \in 1 .. Len(c.msgs) : OldNames(c.msgs[i], c.jid), NEW known
  PROVE  TasksSay(IngestConversation(c, known), mine)
<1> DEFINE jid == PhoneJID(c.jid, known)
           t == WriteChat(jid, c.name, jid.s = "g", c.ts)
           s == [i \in DOMAIN c.msgs |-> [do |-> "old", w |-> [c.msgs[i] EXCEPT !.chat = jid]]]
<1>1. TasksSay(<<t>>, mine)
  <2>1. TaskSays(t, mine)
    BY DEF WriteChat, TaskSays, TaskNames, Writes
  <2> QED BY <2>1, OneSays
<1>2. DOMAIN c.msgs = 1 .. Len(c.msgs) /\ Len(c.msgs) \in Nat
  OBVIOUS
<1>8. \A i \in 1 .. Len(c.msgs) : WireNames([c.msgs[i] EXCEPT !.chat = jid])
  BY DEF OldNames
<1> HIDE DEF jid
<1>3. ASSUME NEW i \in 1 .. Len(c.msgs)
      PROVE  WireSays([c.msgs[i] EXCEPT !.chat = jid], mine)
  <2> DEFINE w == c.msgs[i]
             v == [w EXCEPT !.chat = jid]
  <2>1. WireSays(w, mine)
    OBVIOUS
  <2> HIDE DEF w
  <2>2. DOMAIN v = DOMAIN w /\ v.id = w.id /\ v.ts = w.ts /\ v.me = w.me /\ v.body = w.body /\ v.wrap = w.wrap /\ v.text = w.text
    BY <2>1 DEF WireSays
  <2> HIDE DEF v
  <2>3. Empty(v) <=> Empty(w)
    BY <2>2 DEF Empty, DecodeMessage, Stub, Unwrap
  <2>4. WireSays(v, mine)
    BY <2>1, <2>2, <2>3 DEF WireSays, Arrives
  <2> QED BY <2>4 DEF v, w
<1>4. \A i \in 1 .. Len(c.msgs) : TaskSays(s[i], mine)
  <2>1. \A i \in 1 .. Len(c.msgs) : s[i] = [do |-> "old", w |-> [c.msgs[i] EXCEPT !.chat = jid]]
    BY <1>2
  <2> QED BY <1>3, <1>8, <2>1 DEF TaskSays, TaskNames
<1>5. \E S : s \in Seq(S) /\ Len(s) = Len(c.msgs)
  <2> DEFINE S == {s[i] : i \in 1 .. Len(c.msgs)}
  <2>1. s \in [1 .. Len(c.msgs) -> S]
    BY <1>2
  <2> HIDE DEF s, S
  <2>2. s \in Seq(S) /\ Len(s) = Len(c.msgs)
    BY <1>2, <2>1
  <2> QED BY <2>2
<1>6. TasksSay(s, mine)
  <2> HIDE DEF s
  <2> QED BY <1>4, <1>5 DEF TasksSay, IsSeq
<1>7. IngestConversation(c, known) = <<t>> \o s
  BY DEF IngestConversation, jid
<1> HIDE DEF s, t
<1> QED BY <1>1, <1>6, <1>7, ConcatSays

(* An event's pairings are of one user's addresses.                        *)
LEMMA WirePairs ==
  ASSUME NEW w \in Wires, w.push \in Names, w.sender # NoJid, SameUser(w.sender, w.senderAlt), SameUser(w.chat, w.recipientAlt)
  PROVE  WireNames(w)
<1>1. w.sender \in Jids /\ w.senderAlt \in Jids /\ w.chat \in Jids /\ w.recipientAlt \in Jids
  BY DEF Wires
<1>2. \A j \in Jids : j.s = "lid" => Pairing(j, Pn(j.u)) /\ Pairing(BareLID(j), Pn(j.u))
  BY DEF Jids, Pairing, BareLID
<1>3. \A j \in Jids : j.s = "pn" => BareLID(j) = Pn(j.u)
  BY DEF Jids, BareLID, Pn, Jid
<1>4. LIDPairing(w) # <<>> => Pairing(LIDPairing(w)[1], LIDPairing(w)[3]) /\ Pairing(LIDPairing(w)[2], LIDPairing(w)[3])
  <2>1. CASE w.sender.s = "lid" /\ w.senderAlt.s = "pn"
    BY <1>1, <1>2, <1>3, <2>1 DEF LIDPairing, SameUser
  <2>2. CASE w.sender.s = "pn" /\ w.senderAlt.s = "lid"
    BY <1>1, <1>2, <1>3, <2>2 DEF LIDPairing, SameUser
  <2> QED BY <2>1, <2>2 DEF LIDPairing
<1>5. ChatPairing(w) # <<>> => Pairing(ChatPairing(w)[1], ChatPairing(w)[2])
  <2>1. CASE w.chat.s = "lid" /\ w.recipientAlt.s = "pn"
    BY <1>1, <1>2, <1>3, <2>1 DEF ChatPairing, SameUser
  <2>2. CASE w.chat.s = "pn" /\ w.recipientAlt.s = "lid"
    BY <1>1, <1>2, <1>3, <2>2 DEF ChatPairing, SameUser
  <2> QED BY <2>1, <2>2 DEF ChatPairing
<1> QED BY <1>1, <1>4, <1>5 DEF WireNames

LEMMA WireOldNames ==
  ASSUME NEW w \in Wires, NEW jid \in Jids, w.push \in Names, w.sender # NoJid, SameUser(w.sender, w.senderAlt),
         SameUser(jid, w.recipientAlt)
  PROVE  OldNames(w, jid)
<1> SUFFICES ASSUME NEW known PROVE WireNames([w EXCEPT !.chat = PhoneJID(jid, known)])
  BY DEF OldNames
<1> DEFINE to == PhoneJID(jid, known)
           v == [w EXCEPT !.chat = to]
<1>1. to \in Jids /\ to.u = jid.u /\ (to.s = jid.s \/ (jid.s = "lid" /\ to.s = "pn"))
  BY DEF PhoneJID, Pn, Jid, Jids
<1> HIDE DEF to
<1>2. v \in Wires /\ v.push = w.push /\ v.sender = w.sender /\ v.senderAlt = w.senderAlt
      /\ v.chat = to /\ v.recipientAlt = w.recipientAlt
  BY <1>1 DEF Wires
<1> HIDE DEF v
<1>4. SameUser(v.chat, v.recipientAlt)
  BY <1>1, <1>2 DEF SameUser
<1>5. WireNames(v)
  BY <1>2, <1>4, WirePairs
<1> QED BY <1>5 DEF v, to

LEMMA HistorySays ==
  ASSUME NEW mine, NEW e \in Events, e.type = "history"
  PROVE  TasksSay(IngestHistorySync(e), mine)
<1> DEFINE s == [i \in DOMAIN e.convs |-> [do |-> "conversation", c |-> e.convs[i]]]
           t == [do |-> "fold"]
<1>1. /\ e.convs \in Seq(Conversations) /\ DOMAIN e.convs = 1 .. Len(e.convs) /\ Len(e.convs) \in Nat
      /\ \A i \in 1 .. Len(e.convs) : e.convs[i] \in Conversations
  BY EventsAssumption
<1>2. ASSUME NEW i \in 1 .. Len(e.convs)
      PROVE  TaskSays(s[i], mine)
  <2> DEFINE c == e.convs[i]
  <2>1. c.msgs \in Seq(Wires)
    BY <1>1 DEF Conversations
  <2>2. ASSUME NEW n \in 1 .. Len(c.msgs)
        PROVE  WireSays(c.msgs[n], mine)
    <3> DEFINE w == c.msgs[n]
               f == [type |-> "message", w |-> w]
    <3>1. w \in Wires
      BY <2>1
    <3>2. i \in DOMAIN e.convs /\ n \in DOMAIN e.convs[i].msgs
      BY <1>1, <2>1
    <3>3. f \in Events
      BY <3>2, EventsAssumption
    <3>4. f.type = "message" /\ f.w = w
      OBVIOUS
    <3> HIDE DEF f, w
    <3>5. {"id", "ts", "me", "body", "wrap", "text"} \subseteq DOMAIN w
      BY <3>1 DEF Wires
    <3>6. OneContentPerID => (Empty(w) <=> w.id \in StubIDs)
      BY <3>3, <3>4 DEF OneContentPerID, StubIDs
    <3>7. WireSays(w, mine)
      BY <3>3, <3>4, <3>5, <3>6 DEF WireSays, Arrives
    <3> QED BY <3>7 DEF w
  <2>3. s[i] = [do |-> "conversation", c |-> c]
    BY <1>1
  <2>4. /\ c.name \in Names /\ c.jid \in Jids
        /\ \A n \in 1 .. Len(c.msgs) : SameUser(c.jid, c.msgs[n].recipientAlt)
    <3>1. c \in Conversations
      BY <1>1
    <3>2. i \in DOMAIN e.convs /\ DOMAIN c.msgs = 1 .. Len(c.msgs)
      BY <1>1, <2>1
    <3>3. c.name \in Names /\ \A n \in DOMAIN c.msgs : SameUser(c.jid, c.msgs[n].recipientAlt)
      BY <3>2, NamesAssumption
    <3> QED BY <3>1, <3>2, <3>3 DEF Conversations
  <2>5. ASSUME NEW n \in 1 .. Len(c.msgs)
        PROVE  OldNames(c.msgs[n], c.jid)
    <3> DEFINE w == c.msgs[n]
               f == [type |-> "message", w |-> w]
    <3>1. w \in Wires
      BY <2>1
    <3>6. i \in DOMAIN e.convs /\ n \in DOMAIN e.convs[i].msgs
      BY <1>1, <2>1
    <3>2. f \in Events
      BY <3>6, EventsAssumption
    <3>3. f.type = "message" /\ f.w = w
      OBVIOUS
    <3>4. w.push \in Names /\ w.sender # NoJid /\ SameUser(w.sender, w.senderAlt) /\ SameUser(c.jid, w.recipientAlt)
      BY <2>4, <3>2, <3>3, NamesAssumption
    <3> HIDE DEF c, f, w
    <3>5. OldNames(w, c.jid)
      BY <2>4, <3>1, <3>4, WireOldNames
    <3> QED BY <3>5 DEF w
  <2> HIDE DEF c
  <2> QED BY <2>1, <2>2, <2>3, <2>4, <2>5 DEF TaskSays, TaskNames
<1>3. TasksSay(s, mine)
  <2> DEFINE S == {s[i] : i \in 1 .. Len(e.convs)}
  <2>1. s \in [1 .. Len(e.convs) -> S]
    BY <1>1
  <2> HIDE DEF s, S
  <2>2. s \in Seq(S) /\ Len(s) = Len(e.convs)
    BY <1>1, <2>1
  <2> QED BY <1>2, <2>2 DEF TasksSay, IsSeq
<1>4. TasksSay(<<t>>, mine)
  <2>1. TaskSays(t, mine)
    BY DEF TaskSays, TaskNames, Writes
  <2> QED BY <2>1, OneSays
<1>5. IngestHistorySync(e) = s \o <<t>>
  BY DEF IngestHistorySync
<1> HIDE DEF s, t
<1> QED BY <1>3, <1>4, <1>5, ConcatSays

LEMMA EventSays ==
  ASSUME NEW mine, NEW e \in Events, NEW known
  PROVE  TasksSay(HandleEvent(e, known), mine)
<1>1. CASE e.type = "message"
  <2> DEFINE t == [do |-> "message", w |-> e.w]
  <2>1. HandleEvent(e, known) = <<t>>
    BY <1>1 DEF HandleEvent
  <2>2. WireSays(e.w, mine)
    <3>1. {"id", "ts", "me", "body", "wrap", "text"} \subseteq DOMAIN e.w
      BY <1>1, EventsAssumption DEF Wires
    <3>2. OneContentPerID => (Empty(e.w) <=> e.w.id \in StubIDs)
      BY <1>1 DEF OneContentPerID, StubIDs
    <3> QED BY <1>1, <3>1, <3>2 DEF WireSays, Arrives
  <2>4. WireNames(e.w)
    BY <1>1, EventsAssumption, NamesAssumption, WirePairs
  <2>3. TaskSays(t, mine)
    BY <2>2, <2>4 DEF TaskSays, TaskNames
  <2> HIDE DEF t
  <2> QED BY <2>1, <2>3, OneSays
<1>2. CASE e.type = "history"
  <2>1. HandleEvent(e, known) = IngestHistorySync(e)
    BY <1>2 DEF HandleEvent
  <2> QED BY <1>2, <2>1, HistorySays
<1>3. CASE e.type = "receipt"
  <2> DEFINE t == [do |-> "read", jid |-> PhoneJID(e.chat, known), ids |-> e.ids, at |-> e.at]
  <2>1. HandleEvent(e, known) = If(e.read, <<t>>)
    BY <1>3 DEF HandleEvent
  <2>2. TaskSays(t, mine)
    BY <1>3, EventsAssumption DEF TaskSays, TaskNames, Writes
  <2> HIDE DEF t
  <2> QED BY <2>1, <2>2, OneSays
<1>4. CASE e.type = "call"
  <2> DEFINE t == [do |-> "call", id |-> e.id, peer |-> PhoneJID(e.from, known), ts |-> e.ts,
                   status |-> CallStatus(e.reason)]
  <2>1. HandleEvent(e, known) = <<t>>
    BY <1>4 DEF HandleEvent
  <2>2. TaskSays(t, mine)
    BY <1>4, EventsAssumption DEF TaskSays, TaskNames, Writes
  <2> HIDE DEF t
  <2> QED BY <2>1, <2>2, OneSays
<1>5. CASE e.type \in {"contact", "pushname"}
  <2> DEFINE to == PhoneJID(e.jid, known)
  <2>3. to # NoJid /\ to.u \in Nat
    BY <1>5, NamesAssumption DEF PhoneJID, Pn, Jid, NoJid, Jids
  <2> HIDE DEF to
  <2>1. \E c : \E push, full \in Names : HandleEvent(e, known) = If(c, <<WriteName(to, push, full)>>)
    <3>1. NoName \in Names
      BY DEF NoName, Names
    <3>2. CASE e.type = "contact"
      <4>1. HandleEvent(e, known) = If(e.full # NoName, <<WriteName(to, NoName, e.full)>>) /\ e.full \in Names
        BY <3>2, NamesAssumption DEF HandleEvent, to
      <4> QED BY <3>1, <4>1
    <3>3. CASE e.type = "pushname"
      <4>1. HandleEvent(e, known) = If(e.push # NoName, <<WriteName(to, e.push, NoName)>>) /\ e.push \in Names
        BY <3>3, NamesAssumption DEF HandleEvent, to
      <4> QED BY <3>1, <4>1
    <3> QED BY <1>5, <3>2, <3>3
  <2>2. \A push, full \in Names : TaskSays(WriteName(to, push, full), mine)
    BY <2>3 DEF TaskSays, TaskNames, Writes, WriteName
  <2> QED BY <2>1, <2>2, OneSays
<1>6. CASE e.type = "group"
  <2> DEFINE t == WriteChat(e.jid, e.name, TRUE, e.ts)
  <2>1. HandleEvent(e, known) = If(e.name # NoName, <<t>>)
    BY <1>6 DEF HandleEvent
  <2>2. TaskSays(t, mine)
    BY <1>6, NamesAssumption DEF TaskSays, TaskNames, Writes, WriteChat
  <2> HIDE DEF t
  <2> QED BY <2>1, <2>2, OneSays
<1> QED BY <1>1, <1>2, <1>3, <1>4, <1>5, <1>6, EventsAssumption DEF EventTypes

LEMMA TidySays == ASSUME NEW mine PROVE TasksSay(TidyStore, mine)
<1>1. TaskSays([do |-> "prune"], mine) /\ TaskSays([do |-> "fold"], mine)
  BY DEF TaskSays, TaskNames, Writes
<1> QED BY <1>1, TwoSay DEF TidyStore

(* This account's own sends have content.                                  *)
LEMMA OwnSays ==
  ASSUME calls \in Nat \ {0}, NEW c, c.kind \in Kinds, Body(c.kind) # "none"
  PROVE  WireSays(OwnMessage(c), TRUE) /\ WireNames(OwnMessage(c))
<1> DEFINE w == OwnMessage(c)
<1>1. Body(c.kind) \in {"text", "voice", "reaction", "poll", "image"}
  BY DEF Body, Kinds
<1>2. /\ {"id", "ts", "me", "body", "wrap", "text"} \subseteq DOMAIN w
      /\ w.id = 10 + calls /\ w.body = Body(c.kind) /\ w.wrap = 0
  BY DEF OwnMessage
<1> HIDE DEF w
<1>3. Unwrap(w) = Body(c.kind)
  BY <1>2 DEF Unwrap
<1>4. Kind(Body(c.kind)) = Body(c.kind)
  BY <1>1 DEF Kind, WordsBodies
<1>5. DecodeMessage(w, {}).kind # "other"
  BY <1>1, <1>3, <1>4 DEF DecodeMessage
<1>6. ~Empty(w)
  BY <1>5 DEF Empty, Stub
<1>7. OneContentPerID => w.id \notin StubIDs
  <2>1. w.id \in Nat /\ ~(w.id <= 10)
    BY <1>2
  <2> QED BY <2>1 DEF OneContentPerID
<1>8. WireNames(w)
  <2>1. /\ w.sender = Pn(2) /\ w.senderAlt = NoJid /\ w.recipientAlt = NoJid /\ w.push = NoName
    BY DEF OwnMessage, OwnJid, w
  <2>2. LIDPairing(w) = <<>> /\ ChatPairing(w) = <<>>
    BY <2>1 DEF LIDPairing, ChatPairing, Pn, NoJid, Jid
  <2> QED BY <2>1, <2>2 DEF WireNames, Pn, NoJid, Jid, Jids, NoName, Names
<1> QED BY <1>2, <1>6, <1>7, <1>8 DEF WireSays, w

----------------------------------------------------------------------------
SayInv(mine) ==
  /\ Kempt(db, mine) /\ TasksSay(todo, mine) /\ TasksSay(outbox, mine)
  /\ \A i \in 1 .. Len(outbox) : outbox[i].do \in Writes
  /\ calls \in Nat /\ taken \in Int /\ (call.op = "send" => call.kind \in Kinds /\ calls > 0)

LEMMA SayInit == ASSUME ClientsInit, NEW mine PROVE SayInv(mine)
<1>1. db = EmptyDB /\ todo = TidyStore /\ call = Idle /\ outbox = <<>> /\ calls = 0 /\ taken = 0
  BY DEF ClientsInit, ReadInit, SendInit, Init
<1>2. Kempt(db, mine)
  <2>1. /\ DOMAIN db = {"chats", "msgs", "contacts", "lids", "calls"}
        /\ DOMAIN db.msgs = {}
    BY <1>1 DEF EmptyDB
  <2> QED BY <2>1, FS_EmptySet DEF Kempt
<1>3. TasksSay(<<>>, mine)
  <2>1. TaskSays([do |-> "fold"], mine)
    BY DEF TaskSays, TaskNames, Writes
  <2> QED BY <2>1, OneSays
<1>4. Len(outbox) = 0
  BY <1>1
<1> QED BY <1>1, <1>2, <1>3, <1>4, TidySays DEF SayInv, Idle

(* A step keeps what the store says, and the store.                        *)
LEMMA SayBridge ==
  ASSUME NEW mine, SayInv(mine), Ingesting \/ Handling \/ (\E e \in Events : Take(e)), UNCHANGED sendVars
  PROVE  SayInv(mine)' /\ KeepsAll(db, db')
<1> USE DEF SayInv
<1>0. UNCHANGED <<call, outbox, calls>>
  BY DEF sendVars
<1>1. ASSUME UNCHANGED db, TasksSay(todo', mine), taken' \in Int PROVE SayInv(mine)' /\ KeepsAll(db, db')
  BY <1>0, <1>1, SameRowsCarry, CarriesKeeps
<1>2. CASE \E e \in Events : Take(e)
  <2>1. PICK e \in Events : Take(e)
    BY <1>2
  <2> QED BY <1>1, <2>1, EventSays DEF Take
<1>3. CASE Decode
  <2>1. /\ todo # <<>> /\ Reads(Head(todo)) /\ UNCHANGED <<db, taken>>
        /\ todo' = IngestMessage(Head(todo).w, device \cup cache') \o Tail(todo)
    BY <1>3 DEF Decode
  <2>2. /\ TaskSays(Head(todo), mine) /\ TasksSay(Tail(todo), mine)
        /\ WireSays(Head(todo).w, mine) /\ WireNames(Head(todo).w)
    BY <2>1, TailSays DEF Reads, TaskSays, TaskNames
  <2> QED BY <1>1, <2>1, <2>2, IngestSays, ConcatSays
<1>4. CASE PassOver
  BY <1>1, <1>4, TailSays DEF PassOver
<1>5. CASE OpenConversation
  <2>1. /\ todo # <<>> /\ Head(todo).do = "conversation" /\ UNCHANGED <<db, taken>>
        /\ todo' = IngestConversation(Head(todo).c, Known) \o Tail(todo)
    BY <1>5 DEF OpenConversation
  <2>2. TaskSays(Head(todo), mine) /\ TasksSay(Tail(todo), mine)
    BY <2>1, TailSays
  <2>3. TasksSay(IngestConversation(Head(todo).c, Known), mine)
    BY <2>1, <2>2, ConversationSays DEF TaskSays, TaskNames
  <2> QED BY <1>1, <2>1, <2>2, <2>3, ConcatSays
<1>6. CASE Write
  <2>1. /\ todo # <<>> /\ Head(todo).do \notin {"message", "old", "conversation"}
        /\ db' = Commit(db, Head(todo), Known) /\ todo' = Tail(todo) /\ taken' = taken
    BY <1>6 DEF Write
  <2>2. TaskSays(Head(todo), mine) /\ TasksSay(Tail(todo), mine) /\ Head(todo).do \in Writes
    BY <2>1, TailSays DEF TaskSays
  <2> QED BY <1>0, <2>1, <2>2, CommitKeeps
<1>7. CASE Stop
  BY <1>1, <1>7, TidySays DEF Stop
<1>8. CASE \E u \in Users : LearnPairing(u)
  BY <1>1, <1>8 DEF LearnPairing
<1> QED BY <1>2, <1>3, <1>4, <1>5, <1>6, <1>7, <1>8 DEF Ingesting, Handling

LEMMA SaySending ==
  ASSUME SayInv(TRUE), Sending
  PROVE  SayInv(TRUE)' /\ KeepsAll(db, db')
<1> USE DEF SayInv
<1>1. ASSUME UNCHANGED <<db, todo, taken>>, TasksSay(outbox', TRUE), calls' \in Nat,
             \A i \in 1 .. Len(outbox') : outbox'[i].do \in Writes,
             call'.op = "send" => call'.kind \in Kinds /\ calls' > 0
      PROVE  SayInv(TRUE)' /\ KeepsAll(db, db')
  BY <1>1, SameRowsCarry, CarriesKeeps
<1>2. ASSUME NEW kind \in Kinds, NEW to, NEW id, Submit(kind, to, id)
      PROVE  SayInv(TRUE)' /\ KeepsAll(db, db')
  <2>1. UNCHANGED <<db, todo, taken, outbox>> /\ call'.kind = kind /\ calls' = calls + 1
    BY <1>2 DEF Submit, ingestVars
  <2>2. calls' \in Nat /\ calls' > 0
    BY <2>1
  <2> QED BY <1>1, <2>1, <2>2
<1>3. ASSUME NEW chat, NEW ids, MarkReadCall(chat, ids)
      PROVE  SayInv(TRUE)' /\ KeepsAll(db, db')
  <2>1. UNCHANGED <<db, todo, taken, outbox>> /\ call'.op = "read" /\ calls' = calls + 1
    BY <1>3 DEF MarkReadCall, ingestVars
  <2>2. calls' \in Nat /\ calls' > 0
    BY <2>1
  <2> QED BY <1>1, <2>1, <2>2
<1>4. ASSUME NEW sent, Deliver(sent)
      PROVE  SayInv(TRUE)' /\ KeepsAll(db, db')
  <2>1. /\ call.op = "send" /\ call' = Idle /\ UNCHANGED <<db, todo, taken, calls>>
        /\ \/ outbox' = <<>>
           \/ Body(call.kind) # "none" /\ outbox' = RecordOutbound(OwnMessage(call), Known)
    BY <1>4 DEF Deliver, ingestVars
  <2>2. calls \in Nat \ {0} /\ call.kind \in Kinds
    BY <2>1
  <2>3. TasksSay(<<>>, TRUE)
    <3>1. TaskSays([do |-> "fold"], TRUE)
      BY DEF TaskSays, TaskNames, Writes
    <3> QED BY <3>1, OneSays
  <2>4. TasksSay(outbox', TRUE)
    BY <2>1, <2>2, <2>3, OwnSays, IngestSays DEF RecordOutbound
  <2>5. call'.op # "send"
    BY <2>1 DEF Idle
  <2>6. \A i \in 1 .. Len(outbox') : outbox'[i].do \in Writes
    <3>1. OwnMessage(call).ts \in Int
      BY DEF OwnMessage
    <3>2. Len(<<>>) = 0
      OBVIOUS
    <3> QED BY <2>1, <3>1, <3>2, IngestTasks DEF RecordOutbound, Plain, Writes
  <2> QED BY <1>1, <2>1, <2>4, <2>5, <2>6
<1>5. ASSUME NEW sent, DeliverRead(sent)
      PROVE  SayInv(TRUE)' /\ KeepsAll(db, db')
  <2>1. UNCHANGED <<db, todo, taken, outbox, calls>> /\ call'.op \in {"mark", "idle"}
    BY <1>5 DEF DeliverRead, ingestVars, Idle
  <2> QED BY <1>1, <2>1
<1>6. ASSUME Record
      PROVE  SayInv(TRUE)' /\ KeepsAll(db, db')
  <2>1. /\ outbox # <<>> /\ UNCHANGED <<todo, taken, call, calls>>
        /\ db' = Commit(db, Head(outbox), Known) /\ outbox' = Tail(outbox)
    BY <1>6 DEF Record
  <2>2. TaskSays(Head(outbox), TRUE) /\ TasksSay(Tail(outbox), TRUE)
    BY <2>1, TailSays
  <2>3. /\ Head(outbox).do \in Writes
        /\ \A i \in 1 .. Len(outbox') : outbox'[i].do \in Writes
    <3>1. PICK S : outbox \in Seq(S)
      BY DEF TasksSay, IsSeq
    <3>2. /\ Len(Tail(outbox)) = Len(outbox) - 1 /\ Len(outbox) \in Nat /\ Len(outbox) > 0
          /\ Head(outbox) = outbox[1]
      BY <2>1, <3>1
    <3>3. \A i \in 1 .. Len(Tail(outbox)) : i + 1 \in 1 .. Len(outbox) /\ Tail(outbox)[i] = outbox[i + 1]
      BY <3>1, <3>2
    <3> QED BY <2>1, <3>2, <3>3
  <2> QED BY <2>1, <2>2, <2>3, CommitKeeps
<1>7. ASSUME MarkLocally
      PROVE  SayInv(TRUE)' /\ KeepsAll(db, db')
  <2>1. /\ UNCHANGED <<todo, taken, outbox, calls>> /\ call'.op \in {"idle", "read"}
        /\ db' = MarkRead(db, call.to, Head(call.groups).ids, ToolMark)
    BY <1>7 DEF MarkLocally, Idle
  <2>2. Kempt(db', TRUE) /\ KeepsAll(db, db')
    <3>1. ToolMark \in Int
      BY DEF ToolMark
    <3> QED BY <2>1, <3>1, MarkReadKeeps
  <2> QED BY <2>1, <2>2
<1> QED BY <1>2, <1>3, <1>4, <1>5, <1>6, <1>7 DEF Sending

(* Only beside the send tools are there sends of this account.             *)
ISay == reader \in Readers /\ (IF reader = "sender" THEN SayInv(TRUE) ELSE SayInv(FALSE))

LEMMA SayStep ==
  ASSUME ISay, [ClientsNext]_clientVars
  PROVE  ISay' /\ KeepsAll(db, db')
<1>0. reader' = reader
  BY DEF ClientsNext, ReadNext, clientVars, allVars, readVars, BridgeStep, Polling, EditScope, FetchOlder, Clicking, Browsing
<1>1. ASSUME UNCHANGED <<ingestVars, sendVars>>, NEW mine, SayInv(mine)
      PROVE  SayInv(mine)' /\ KeepsAll(db, db')
  <2>1. SayInv(mine)' /\ db' = db
    BY <1>1 DEF SayInv, ingestVars, sendVars
  <2> QED BY <1>1, <2>1, SameRowsCarry, CarriesKeeps DEF SayInv
<1>2. ASSUME BridgeStep, UNCHANGED sendVars, NEW mine, SayInv(mine)
      PROVE  SayInv(mine)' /\ KeepsAll(db, db')
  <2>1. reader # "none" => Watched[reader] \subseteq Events
    BY ReadersAssumption DEF ISay
  <2>2. Ingesting \/ Handling \/ \E e \in Events : Take(e)
    BY <1>2, <2>1 DEF BridgeStep
  <2> QED BY <1>2, <2>2, SayBridge
<1>3. \/ UNCHANGED <<ingestVars, sendVars>>
      \/ BridgeStep /\ UNCHANGED sendVars
      \/ reader = "sender" /\ Sending
  BY DEF ClientsNext, ReadNext, clientVars, allVars, Polling, EditScope, FetchOlder, Clicking, Browsing
<1>4. CASE reader = "sender"
  <2>1. SayInv(TRUE)
    BY <1>4 DEF ISay
  <2>2. SayInv(TRUE)' /\ KeepsAll(db, db')
    BY <1>1, <1>2, <1>3, <2>1, SaySending
  <2> QED BY <1>0, <1>4, <2>2 DEF ISay
<1>5. CASE reader # "sender"
  <2>1. SayInv(FALSE)
    BY <1>5 DEF ISay
  <2>2. SayInv(FALSE)' /\ KeepsAll(db, db')
    BY <1>1, <1>2, <1>3, <1>5, <2>1
  <2> QED BY <1>0, <1>5, <2>2 DEF ISay
<1> QED BY <1>4, <1>5

LEMMA SayAlways == ClientsSpec => []ISay
<1>1. ClientsInit => ISay
  BY SayInit DEF ISay, ClientsInit, ReadInit
<1>2. ISay /\ [ClientsNext]_clientVars => ISay'
  BY SayStep
<1> QED BY <1>1, <1>2, PTL DEF ClientsSpec

(* internal/store ingest.go, fold.go and prune.go: once a message that says *)
(* something is stored it stays stored, in the chat it was sent in or that  *)
(* chat's phone number, and where its row stays so does its read mark,      *)
(* whatever is redelivered, folded, pruned, sent or cut short by a stop;    *)
(* sends by LID included.                                                  *)
THEOREM NothingForgotten == OneContentPerID => (ClientsSpec => NothingIsForgotten)
<1> SUFFICES ASSUME OneContentPerID PROVE ClientsSpec => NothingIsForgotten
  OBVIOUS
<1>1. ClientsSpec => []ISay
  BY SayAlways
<1>2. ISay /\ [ClientsNext]_clientVars =>
        [\A r \in DOMAIN db.msgs : ~Stub(db.msgs[r]) =>
           \E q \in DOMAIN db'.msgs : /\ db'.msgs[q].id = db.msgs[r].id /\ ~Stub(db'.msgs[q])
                                      /\ SamePlace(db'.msgs[q].chat, db.msgs[r].chat)
                                      /\ q = r => db'.msgs[q].read >= db.msgs[r].read]_ingestVars
  BY SayStep DEF KeepsAll
<1> QED BY <1>1, <1>2, PTL DEF ClientsSpec, NothingIsForgotten

----------------------------------------------------------------------------
(* The numbers of the rows.                                                *)

(* What has one id is one message, sent once by one of the two sides.      *)
OneMessagePerID ==
  \A e, f \in {g \in Events : g.type = "message"} : e.w.id = f.w.id => e.w.ts = f.w.ts /\ e.w.me = f.w.me

(* A number stays with its message, or is the next.                        *)
Numbered(d, e) ==
  \A r \in DOMAIN e.msgs : IF r \in DOMAIN d.msgs THEN e.msgs[r].id = d.msgs[r].id ELSE r = NextRowID(d)

LEMMA LatestNumber ==
  ASSUME NEW mine, NEW d, Kempt(d, mine)
  PROVE  /\ LatestRowID(d) \in Nat /\ NextRowID(d) = LatestRowID(d) + 1
         /\ \A r \in DOMAIN d.msgs : r <= LatestRowID(d)
         /\ LatestRowID(d) = 0 \/ LatestRowID(d) \in DOMAIN d.msgs
<1> DEFINE T == {0} \cup DOMAIN d.msgs
<1>1. IsFiniteSet(T) /\ T # {} /\ T \subseteq Nat
  <2>1. DOMAIN d.msgs \cup {0} = T
    OBVIOUS
  <2> QED BY <2>1, FS_AddElement DEF Kempt
<1> HIDE DEF T
<1>2. Max(T) \in T /\ \A x \in T : Max(T) >= x
  <2>1. T \subseteq Int
    BY <1>1
  <2> QED BY <1>1, <2>1, MaxOfFinite
<1>3. LatestRowID(d) = Max(T) /\ NextRowID(d) = 1 + Max(T) /\ T = {0} \cup DOMAIN d.msgs
  BY DEF LatestRowID, NextRowID, T
<1>4. Max(T) \in Nat
  BY <1>1, <1>2
<1>5. \A r \in DOMAIN d.msgs : r \in T
  BY <1>3
<1> QED BY <1>1, <1>2, <1>3, <1>4, <1>5

LEMMA FoldNumbers ==
  ASSUME NEW mine, NEW d, Kempt(d, mine), NEW known
  PROVE  Numbered(d, FoldLIDs(d, known))
<1> DEFINE d1 == FoldChats(d, known)
           d2 == FoldSenders(d1, known)
           d3 == FoldContacts(d2, known)
           d4 == FoldCalls(d3, known)
           lids == Foldable(DOMAIN d.chats, known)
           moves(r) == d.msgs[r].chat \in lids
           to(r)    == IF moves(r) THEN Pn(d.msgs[r].chat.u) ELSE d.msgs[r].chat
           twice(r) == moves(r) /\ \E q \in DOMAIN d.msgs \ {r} :
                         d.msgs[q].id = d.msgs[r].id /\ to(q) = to(r) /\ (moves(q) => q < r)
<1>1. /\ DOMAIN d1 = DOMAIN d
      /\ d1.msgs = [r \in {q \in DOMAIN d.msgs : ~twice(q)} |-> [d.msgs[r] EXCEPT !.chat = to(r)]]
  BY DEF FoldChats, RowsAfterFold, Kempt
<1> HIDE DEF d1, to, twice
<1>2. /\ DOMAIN d1.msgs \subseteq DOMAIN d.msgs
      /\ \A r \in DOMAIN d1.msgs : d1.msgs[r] = [d.msgs[r] EXCEPT !.chat = to(r)]
  BY <1>1
<1>3. \A r \in DOMAIN d1.msgs : "id" \in DOMAIN d1.msgs[r] /\ d1.msgs[r].id = d.msgs[r].id
  BY <1>2 DEF Kempt, RowSays
<1>4. /\ DOMAIN d2 = DOMAIN d
      /\ d2.msgs = [r \in DOMAIN d1.msgs |-> [d1.msgs[r] EXCEPT !.sender = PhoneJID(d1.msgs[r].sender, known)]]
  BY <1>1 DEF FoldSenders, Kempt
<1> HIDE DEF d2
<1>5. /\ DOMAIN d2.msgs = DOMAIN d1.msgs
      /\ \A r \in DOMAIN d2.msgs : d2.msgs[r].id = d1.msgs[r].id
  BY <1>3, <1>4
<1>6. DOMAIN d3 = DOMAIN d /\ d3.msgs = d2.msgs
  BY <1>4 DEF FoldContacts, Kempt
<1> HIDE DEF d3
<1>7. d4.msgs = d3.msgs
  BY <1>6 DEF FoldCalls, Kempt
<1> HIDE DEF d4
<1>8. Numbered(d, d4)
  BY <1>2, <1>3, <1>5, <1>6, <1>7 DEF Numbered
<1> QED BY <1>8 DEF FoldLIDs, d1, d2, d3, d4

LEMMA CommitNumbers ==
  ASSUME NEW mine, NEW d, Kempt(d, mine), NEW t, TaskSays(t, mine), t.do \in Writes, NEW known
  PROVE  Numbered(d, Commit(d, t, known))
<1> DEFINE e == Commit(d, t, known)
<1>1. CASE t.do \in {"chat", "lid", "contact", "call"}
  <2>1. e.msgs = d.msgs
    BY <1>1 DEF Commit, UpsertChat, UpsertLIDMapping, UpsertContact, InsertCall, Kempt
  <2> HIDE DEF e
  <2> QED BY <2>1 DEF Numbered, e
<1>2. CASE t.do = "row"
  <2> DEFINE m == t.m
             hit == RowAt(d, m.chat, m.id)
             r == IF hit = {} THEN NextRowID(d) ELSE OneOf(hit)
             at == IF hit = {} THEN 0 ELSE d.msgs[r].read
             row == Put(m, "read", at)
  <2>1. e.msgs = Put(d.msgs, r, row)
    BY <1>2 DEF Commit, UpsertMessage, Kempt
  <2>2. row.id = m.id
    BY <1>2 DEF TaskSays, RowSays, Put
  <2>3. hit # {} => r \in DOMAIN d.msgs /\ d.msgs[r].id = m.id
    BY DEF OneOf, RowAt, RowsOf
  <2>4. hit = {} => r = NextRowID(d) /\ r \notin DOMAIN d.msgs
    <3>1. NextRowID(d) \notin DOMAIN d.msgs
      BY LatestNumber DEF Kempt
    <3> QED BY <3>1
  <2> HIDE DEF e, row, r, hit, m
  <2>5. \A q \in DOMAIN e.msgs : q \in DOMAIN d.msgs \cup {r} /\ e.msgs[q] = IF q = r THEN row ELSE d.msgs[q]
    BY <2>1, PutRow
  <2>6. Numbered(d, e)
    BY <2>2, <2>3, <2>4, <2>5 DEF Numbered
  <2> QED BY <2>6 DEF e
<1>3. CASE t.do = "read"
  <2>1. e.msgs = [r \in DOMAIN d.msgs |->
                     IF d.msgs[r].chat = t.jid /\ d.msgs[r].id \in t.ids
                     THEN [d.msgs[r] EXCEPT !.read = Later(d.msgs[r].read, t.at)] ELSE d.msgs[r]]
    BY <1>3 DEF Commit, MarkRead, Kempt
  <2> HIDE DEF e
  <2>2. \A r \in DOMAIN e.msgs : r \in DOMAIN d.msgs /\ e.msgs[r].id = d.msgs[r].id
    BY <2>1 DEF Kempt, RowSays
  <2> QED BY <2>2 DEF Numbered, e
<1>4. CASE t.do = "fold"
  <2>1. e = FoldLIDs(d, known)
    BY <1>4 DEF Commit
  <2> QED BY <2>1, FoldNumbers
<1>5. CASE t.do = "prune"
  <2>1. e.msgs = [r \in {q \in DOMAIN d.msgs : ~Stub(d.msgs[q])} |-> d.msgs[r]]
    BY <1>5 DEF Commit, PruneStubMessages, Restrict, Kempt
  <2> HIDE DEF e
  <2> QED BY <2>1 DEF Numbered, e
<1> QED BY <1>1, <1>2, <1>3, <1>4, <1>5 DEF Writes

(* One step of the bridge beside a reader.                                 *)
LEMMA BridgeNumbers ==
  ASSUME ISay, BridgeStep, UNCHANGED sendVars, reader # "sender"
  PROVE  Kempt(db, FALSE) /\ Kempt(db', FALSE) /\ Numbered(db, db')
<1>1. SayInv(FALSE)
  BY DEF ISay
<1>2. reader' = reader /\ ISay'
  BY SayStep DEF ClientsNext, ReadNext, BridgeStep
<1>3. Kempt(db, FALSE) /\ Kempt(db', FALSE) /\ TasksSay(todo, FALSE)
  BY <1>1, <1>2 DEF ISay, SayInv
<1>4. CASE Write
  <2>1. /\ todo # <<>> /\ Head(todo).do \notin {"message", "old", "conversation"}
        /\ db' = Commit(db, Head(todo), Known)
    BY <1>4 DEF Write
  <2>2. TaskSays(Head(todo), FALSE) /\ Head(todo).do \in Writes
    BY <1>3, <2>1, TailSays DEF TaskSays
  <2>3. Numbered(db, db')
    BY <1>3, <2>1, <2>2, CommitNumbers
  <2> QED BY <1>3, <2>3
<1>5. CASE UNCHANGED db
  BY <1>3, <1>5 DEF Numbered
<1>6. Write \/ UNCHANGED db
  BY DEF BridgeStep, Ingesting, Handling, Take, Decode, PassOver, OpenConversation, Stop, LearnPairing
<1> QED BY <1>4, <1>5, <1>6

----------------------------------------------------------------------------
(* Polling.                                                                *)

(* The numbers that are a row's, or were and have been taken from it: all   *)
(* up to any of them.                                                      *)
Numbers == DOMAIN db.msgs \cup moved
Used(n, numbers) == \A k \in 1 .. n : k \in numbers

(* What a poll has passed is used, and what it has reported is still so    *)
(* unless it moved.                                                        *)
PollerOK ==
  /\ DOMAIN poll = DOMAIN NoPoll
  /\ poll.at \in Int /\ Used(poll.at, Numbers)
  /\ \A q \in DOMAIN poll.seen : q \in Int /\ q <= poll.at
  /\ \A q \in DOMAIN poll.seen \ moved :
       q \in DOMAIN db.msgs /\ poll.seen[q] = <<db.msgs[q].chat, db.msgs[q].id>>

PollInv ==
  /\ \A n \in Numbers : n \in Nat /\ Used(n, Numbers)
  /\ poll # NoPoll => PollerOK
  /\ PollSkipsOnlyMoved

IPoll == IF reader = "poller" THEN PollInv ELSE poll = NoPoll

LEMMA PollInit == ClientsInit => IPoll
<1> SUFFICES ASSUME ClientsInit PROVE IPoll
  OBVIOUS
<1>1. db.msgs = <<>> /\ moved = {} /\ poll = NoPoll
  BY DEF ClientsInit, ReadInit, Init, EmptyDB
<1>2. DOMAIN db.msgs = {}
  BY <1>1
<1> QED BY <1>1, <1>2 DEF IPoll, PollInv, PollSkipsOnlyMoved, Numbers

(* Beside the bridge.                                                      *)
LEMMA PollBridge ==
  ASSUME OneMessagePerID, PollInv, Kempt(db, FALSE), Kempt(db', FALSE), Numbered(db, db'),
         UNCHANGED poll,
         moved' = moved \cup {r \in DOMAIN db.msgs :
                                r \in DOMAIN db'.msgs => db'.msgs[r].chat # db.msgs[r].chat}
  PROVE  PollInv'
<1> DEFINE here == DOMAIN db.msgs
           there == DOMAIN db'.msgs
           next == NextRowID(db)
<1>1. /\ here \subseteq Nat /\ there \subseteq Nat /\ next \in Nat \ {0} /\ \A r \in here : r < next
      /\ next = 1 \/ next - 1 \in here
  <2>1. here \subseteq Nat /\ there \subseteq Nat
    BY DEF Kempt
  <2>2. LET last == LatestRowID(db)
        IN  last \in Nat /\ next = last + 1 /\ (\A r \in here : r <= last) /\ (last = 0 \/ last \in here)
    BY LatestNumber
  <2> QED BY <2>1, <2>2
<1>2. moved \subseteq moved' /\ Numbers \subseteq Numbers'
  BY DEF Numbers
<1>3. \A r \in there \ here : r = next
  BY DEF Numbered
<1>4. \A r \in (there \cap here) \ moved' : r \notin moved /\ db'.msgs[r].chat = db.msgs[r].chat
                                            /\ db'.msgs[r].id = db.msgs[r].id
  BY DEF Numbered
<1>5. \A n : Used(n, Numbers) => Used(n, Numbers')
  BY <1>2 DEF Used
<1>6. \A n \in Numbers' : n \in Nat /\ Used(n, Numbers')
  <2> SUFFICES ASSUME NEW n \in Numbers' PROVE n \in Nat /\ Used(n, Numbers')
    OBVIOUS
  <2>1. CASE n \in Numbers
    BY <1>5, <2>1 DEF PollInv
  <2>2. CASE n \notin Numbers
    <3>1. n = next
      BY <1>3, <2>2 DEF Numbers
    <3>2. Used(next - 1, Numbers)
      <4>1. CASE next = 1
        BY <4>1 DEF Used
      <4>2. CASE next - 1 \in here
        BY <4>2 DEF PollInv, Numbers
      <4> QED BY <1>1, <4>1, <4>2
    <3>3. \A k \in 1 .. next : k = next \/ k \in 1 .. next - 1
      BY <1>1
    <3> QED BY <1>1, <1>2, <3>1, <3>2, <3>3 DEF Used
  <2> QED BY <2>1, <2>2
<1> SUFFICES ASSUME poll # NoPoll PROVE PollerOK' /\ PollSkipsOnlyMoved'
  BY <1>6 DEF PollInv, PollSkipsOnlyMoved
<1>7. PollerOK
  BY DEF PollInv
<1>8. PollerOK'
  <2>1. DOMAIN poll' = DOMAIN NoPoll /\ poll'.at \in Int /\ Used(poll'.at, Numbers')
    BY <1>5, <1>7 DEF PollerOK
  <2>2. \A q \in DOMAIN poll'.seen : q \in Int /\ q <= poll'.at
    BY <1>7 DEF PollerOK
  <2>3. ASSUME NEW q \in DOMAIN poll'.seen \ moved'
        PROVE  q \in there /\ poll'.seen[q] = <<db'.msgs[q].chat, db'.msgs[q].id>>
    <3>1. q \in here /\ poll.seen[q] = <<db.msgs[q].chat, db.msgs[q].id>>
      BY <1>7 DEF PollerOK
    <3>2. q \in there
      BY <3>1
    <3> QED BY <1>4, <3>1, <3>2
  <2> QED BY <2>1, <2>2, <2>3 DEF PollerOK
<1>9. PollSkipsOnlyMoved'
  <2> SUFFICES ASSUME NEW r \in Polled(db', poll.chat, IncludeOwn), poll.start < r, r <= poll.at, r \notin moved'
               PROVE  r \in DOMAIN poll.seen \cup poll.hidden
    BY DEF PollSkipsOnlyMoved
  <2>1. r \in there /\ (poll.chat # NoJid => db'.msgs[r].chat = poll.chat) /\ ~db'.msgs[r].me
    BY DEF Polled, IncludeOwn
  <2>2. r \in here
    <3> SUFFICES ASSUME r \notin here PROVE FALSE
      OBVIOUS
    <3>1. r = next
      BY <1>3, <2>1
    <3>2. r \in 1 .. poll.at
      BY <1>1, <1>7, <3>1 DEF PollerOK
    <3> QED BY <1>2, <1>7, <2>1, <3>2 DEF PollerOK, Used, Numbers
  <2>3. db'.msgs[r].chat = db.msgs[r].chat /\ db'.msgs[r].id = db.msgs[r].id
    BY <1>4, <2>1, <2>2
  <2>4. Arrives(db.msgs[r]) /\ Arrives(db'.msgs[r])
    BY <2>1, <2>2 DEF Kempt, RowSays
  <2>5. db'.msgs[r].me = db.msgs[r].me
    BY <2>3, <2>4 DEF Arrives, OneMessagePerID
  <2>6. r \in Polled(db, poll.chat, IncludeOwn)
    BY <2>1, <2>2, <2>3, <2>5 DEF Polled, IncludeOwn
  <2> QED BY <1>2, <2>6 DEF PollSkipsOnlyMoved, PollInv
<1> QED BY <1>8, <1>9

(* The start of a poll.                                                    *)
LEMMA PollStart ==
  ASSUME PollInv, Kempt(db, FALSE), UNCHANGED <<db, moved>>, NEW jid,
         Bootstrap(jid) \/ \E n : TailFrom(jid, n)
  PROVE  PollInv'
<1>1. PICK cursor : StartPoll(jid, cursor) /\ cursor \in Int /\ Used(cursor, Numbers)
  <2>1. CASE Bootstrap(jid)
    <3>1. LatestRowID(db) \in Nat /\ (LatestRowID(db) = 0 \/ LatestRowID(db) \in DOMAIN db.msgs)
      BY LatestNumber
    <3>2. Used(LatestRowID(db), Numbers)
      BY <3>1 DEF PollInv, Used, Numbers
    <3> QED BY <2>1, <3>1, <3>2 DEF Bootstrap
  <2>2. CASE \E n : TailFrom(jid, n)
    <3>1. PICK n : TailFrom(jid, n)
      BY <2>2
    <3> DEFINE rows == Polled(db, jid, IncludeOwn)
               nth  == {r \in rows : Cardinality({q \in rows : q >= r}) = n}
               tail == TailRowID(db, jid, IncludeOwn, n)
    <3>2. tail = 0 \/ \E r \in DOMAIN db.msgs : tail = r - 1
      <4>1. tail = IF n <= 0 \/ nth = {} THEN 0 ELSE OneOf(nth) - 1
        BY DEF TailRowID
      <4>2. nth # {} => OneOf(nth) \in DOMAIN db.msgs
        BY DEF OneOf, Polled
      <4> QED BY <4>1, <4>2
    <3> HIDE DEF tail
    <3>3. tail \in Int /\ Used(tail, Numbers)
      <4>1. CASE tail = 0
        BY <4>1 DEF Used
      <4>2. CASE \E r \in DOMAIN db.msgs : tail = r - 1
        <5>1. PICK r \in DOMAIN db.msgs : tail = r - 1
          BY <4>2
        <5>2. r \in Nat /\ Used(r, Numbers)
          BY DEF PollInv, Numbers
        <5>3. \A k \in 1 .. tail : k \in 1 .. r
          BY <5>1, <5>2
        <5> QED BY <5>1, <5>2, <5>3 DEF Used
      <4> QED BY <3>2, <4>1, <4>2
    <3> QED BY <3>1, <3>3 DEF TailFrom, tail
  <2> QED BY <2>1, <2>2
<1>2. DOMAIN poll' = DOMAIN NoPoll /\ poll'.at = cursor /\ poll'.start = cursor /\ poll'.seen = <<>>
  BY <1>1 DEF StartPoll, NoPoll
<1>3. DOMAIN poll'.seen = {}
  BY <1>2
<1>4. PollerOK'
  BY <1>1, <1>2, <1>3 DEF PollerOK, Used, Numbers
<1>5. PollSkipsOnlyMoved'
  <2>1. \A r \in Polled(db', poll'.chat, IncludeOwn) : r \in Nat
    BY DEF Polled, Kempt
  <2> QED BY <1>1, <1>2, <2>1 DEF PollSkipsOnlyMoved
<1> QED BY <1>4, <1>5 DEF PollInv, Used, Numbers

(* One look: what is reported is beyond the cursor, and nothing up to the   *)
(* new one is left out.                                                    *)
LEMMA PollLook ==
  ASSUME PollInv, Kempt(db, FALSE), UNCHANGED <<db, moved>>, PollNewMessages, poll' # poll
  PROVE  /\ PollInv'
         /\ \A r \in poll'.got : /\ r \in DOMAIN db.msgs /\ \A q \in DOMAIN poll.seen : q < r
                                 /\ poll'.seen[r] = <<db.msgs[r].chat, db.msgs[r].id>>
<1> DEFINE rows == {r \in Polled(db, poll.chat, IncludeOwn) : r > poll.at}
           before(r) == {q \in rows : q < r}
           page == {r \in rows : Cardinality(before(r)) < ClampLimit(0)}
           kept == {r \in page : Readable(scope, db.msgs[r].chat)}
           seen == [r \in kept \cup DOMAIN poll.seen |->
                      IF r \in kept THEN <<db.msgs[r].chat, db.msgs[r].id>> ELSE poll.seen[r]]
           at == CursorAfter(page, poll.at)
<1>1. /\ kept # {} /\ poll # NoPoll
      /\ poll' = [poll EXCEPT !.at = at, !.got = kept, !.seen = seen,
                              !.hidden = poll.hidden \cup (page \ kept)]
  BY DEF PollNewMessages, ScopedAfterRowID, MessagesAfterRowID
<1>2. /\ IsFiniteSet(rows) /\ rows \subseteq DOMAIN db.msgs /\ DOMAIN db.msgs \subseteq Nat
      /\ \A r \in rows : r > poll.at
      /\ PollerOK
  <2>1. rows \subseteq DOMAIN db.msgs
    BY DEF Polled
  <2> QED BY <1>1, <2>1, FS_Subset DEF Kempt, PollInv
<1>3. ASSUME NEW r \in rows, NEW s \in page, r <= s
      PROVE  r \in page
  <2>1. before(r) \subseteq before(s) /\ IsFiniteSet(before(s)) /\ r \in Nat /\ s \in Nat
    BY <1>2, <1>3, FS_Subset
  <2>2. /\ Cardinality(before(r)) <= Cardinality(before(s))
        /\ Cardinality(before(r)) \in Nat /\ Cardinality(before(s)) \in Nat
    BY <2>1, FS_Subset, FS_CardinalityType
  <2>3. Cardinality(before(s)) < ClampLimit(0) /\ ClampLimit(0) \in Nat
    BY StoreAssumption DEF ClampLimit
  <2>4. Cardinality(before(r)) < ClampLimit(0)
    <3> HIDE DEF before
    <3> QED BY <2>2, <2>3
  <2> QED BY <2>4
<1>4. /\ page \subseteq rows /\ kept \subseteq page /\ kept # {}
  BY <1>1
<1>5. /\ poll'.at = at /\ poll'.got = kept /\ poll'.seen = seen
      /\ poll'.hidden = poll.hidden \cup (page \ kept)
      /\ poll'.start = poll.start /\ poll'.chat = poll.chat
  <2>1. {"at", "got", "seen", "hidden", "start", "chat"} \subseteq DOMAIN poll 
    BY <1>2 DEF PollerOK, NoPoll
  <2> HIDE DEF at, seen, kept, page
  <2> QED BY <1>1, <2>1
<1>6. /\ DOMAIN seen = kept \cup DOMAIN poll.seen
      /\ \A r \in DOMAIN seen : seen[r] = IF r \in kept THEN <<db.msgs[r].chat, db.msgs[r].id>> ELSE poll.seen[r]
  OBVIOUS
<1> HIDE DEF rows, page, kept, seen
<1>7. at \in page /\ \A r \in page : r <= at
  <2>1. IsFiniteSet(page) /\ page # {} /\ page \subseteq Int
    BY <1>2, <1>4, FS_Subset
  <2>2. at = Max(page)
    BY <2>1 DEF CursorAfter
  <2>3. Max(page) \in page /\ \A r \in page : Max(page) >= r
    BY <2>1, MaxOfFinite
  <2> QED BY <1>2, <1>4, <2>2, <2>3
<1> HIDE DEF at
<1>8. at \in Nat /\ at \in DOMAIN db.msgs /\ at > poll.at /\ poll.at \in Int
  BY <1>2, <1>4, <1>7 DEF PollerOK
<1>9. Numbers' = Numbers /\ db' = db /\ moved' = moved
  BY DEF Numbers
<1>10. PollerOK'
  <2>1. DOMAIN poll' = DOMAIN NoPoll /\ poll'.at \in Int
    <3> HIDE DEF page
    <3> QED BY <1>1, <1>2, <1>5, <1>8 DEF PollerOK
  <2>2. Used(poll'.at, Numbers')
    BY <1>5, <1>8, <1>9 DEF PollInv, Numbers
  <2>3. ASSUME NEW q \in DOMAIN poll'.seen
        PROVE  q \in Int /\ q <= poll'.at
    <3>1. CASE q \in kept
      BY <1>2, <1>4, <1>5, <1>7, <3>1
    <3>2. CASE q \in DOMAIN poll.seen
      <4>1. q \in Int /\ q <= poll.at
        BY <1>2, <3>2 DEF PollerOK
      <4> QED BY <1>5, <1>8, <4>1
    <3> QED BY <1>5, <1>6, <3>1, <3>2
  <2>4. ASSUME NEW q \in DOMAIN poll'.seen \ moved'
        PROVE  q \in DOMAIN db'.msgs /\ poll'.seen[q] = <<db'.msgs[q].chat, db'.msgs[q].id>>
    <3>1. CASE q \in kept
      BY <1>2, <1>4, <1>5, <1>6, <1>9, <3>1
    <3>2. CASE q \notin kept
      BY <1>2, <1>5, <1>6, <1>9, <3>2 DEF PollerOK
    <3> QED BY <3>1, <3>2
  <2> QED BY <2>1, <2>2, <2>3, <2>4 DEF PollerOK
<1>11. PollSkipsOnlyMoved'
  <2> SUFFICES ASSUME NEW r \in Polled(db, poll.chat, IncludeOwn), poll.start < r, r <= at
               PROVE  r \in kept \cup DOMAIN poll.seen \cup poll.hidden \cup (page \ kept) \cup moved
    BY <1>5, <1>6, <1>9 DEF PollSkipsOnlyMoved
  <2>1. CASE r <= poll.at
    BY <1>1, <2>1 DEF PollInv, PollSkipsOnlyMoved
  <2>2. CASE ~(r <= poll.at)
    <3>1. r \in Nat
      BY DEF Polled, Kempt
    <3>2. r \in rows
      BY <1>8, <2>2, <3>1 DEF rows
    <3>3. r \in page
      BY <1>3, <1>7, <3>2
    <3> QED BY <3>3
  <2> QED BY <2>1, <2>2
<1>12. PollInv'
  BY <1>9, <1>10, <1>11 DEF PollInv
<1>13. ASSUME NEW r \in poll'.got
       PROVE  /\ r \in DOMAIN db.msgs /\ \A q \in DOMAIN poll.seen : q < r
              /\ poll'.seen[r] = <<db.msgs[r].chat, db.msgs[r].id>>
  <2>1. r \in kept /\ r \in rows /\ r \in Nat /\ r > poll.at
    BY <1>2, <1>4, <1>5
  <2>2. \A q \in DOMAIN poll.seen : q < r
    <3>1. \A q \in DOMAIN poll.seen : q \in Int /\ q <= poll.at
      BY <1>2 DEF PollerOK
    <3> QED BY <1>8, <2>1, <3>1
  <2> QED BY <1>2, <1>4, <1>5, <1>6, <2>1, <2>2
<1> QED BY <1>12, <1>13

(* The steps that are not the poller's.                                    *)
LEMMA PollStep ==
  ASSUME OneMessagePerID, ISay, IPoll, [ClientsNext]_clientVars
  PROVE  IPoll'
<1>1. reader' = reader
  BY DEF ClientsNext, ReadNext, clientVars, allVars, readVars, BridgeStep, Polling, EditScope, FetchOlder, Clicking, Browsing
<1>2. CASE reader # "poller"
  <2>1. poll' = poll
    BY <1>2 DEF ClientsNext, ReadNext, clientVars, allVars, readVars, BridgeStep, Polling, EditScope, FetchOlder, Clicking, Browsing
  <2> QED BY <1>1, <1>2, <2>1 DEF IPoll
<1>3. CASE reader = "poller"
  <2>1. PollInv /\ Kempt(db, FALSE)
    BY <1>3 DEF IPoll, ISay, SayInv
  <2>2. CASE BridgeStep /\ UNCHANGED sendVars
    <3>1. Kempt(db', FALSE) /\ Numbered(db, db')
      BY <1>3, <2>2, BridgeNumbers
    <3>2. PollInv'
      BY <2>1, <2>2, <3>1, PollBridge DEF BridgeStep
    <3> QED BY <1>1, <1>3, <3>2 DEF IPoll
  <2>3. CASE Polling
    <3>1. UNCHANGED <<db, moved>>
      BY <2>3 DEF Polling, ingestVars
    <3>2. PollNewMessages \/ \E jid : Bootstrap(jid) \/ TailFrom(jid, 1)
      BY <2>3 DEF Polling
    <3>3. CASE poll' = poll
      <4>1. PollInv'
        BY <2>1, <3>1, <3>3 DEF PollInv, PollerOK, PollSkipsOnlyMoved, Numbers
      <4> QED BY <1>1, <1>3, <4>1 DEF IPoll
    <3>4. CASE PollNewMessages /\ poll' # poll
      BY <1>1, <1>3, <2>1, <3>1, <3>4, PollLook DEF IPoll
    <3>5. CASE \E jid : Bootstrap(jid) \/ TailFrom(jid, 1)
      BY <1>1, <1>3, <2>1, <3>1, <3>5, PollStart DEF IPoll
    <3> QED BY <3>2, <3>3, <3>4, <3>5
  <2>4. CASE UNCHANGED <<db, moved, poll>>
    <3>1. PollInv'
      BY <2>1, <2>4 DEF PollInv, PollerOK, PollSkipsOnlyMoved, Numbers
    <3> QED BY <1>1, <1>3, <3>1 DEF IPoll
  <2>5. \/ BridgeStep /\ UNCHANGED sendVars
        \/ Polling
        \/ UNCHANGED <<db, moved, poll>>
    BY <1>3 DEF ClientsNext, ReadNext, clientVars, allVars, readVars, ingestVars, EditScope, FetchOlder, Clicking, Browsing
  <2> QED BY <2>2, <2>3, <2>4, <2>5
<1> QED BY <1>2, <1>3

LEMMA PollsRepeat ==
  ASSUME OneMessagePerID, IStore, ISay, IPoll, [ClientsNext]_clientVars, poll # NoPoll, poll' # poll,
         NEW r \in poll'.got, NEW q \in DOMAIN poll.seen \ moved
  PROVE  r # q /\ poll'.seen[r] # poll.seen[q]
<1>1. reader = "poller" /\ PollInv /\ PollerOK
  BY DEF IPoll, PollInv
<1>2. Kempt(db, FALSE) /\ OneRow(db)
  BY <1>1 DEF ISay, SayInv, IStore, StoreInv, Sound
<1>3. Polling
  BY <1>1 DEF ClientsNext, ReadNext, clientVars, allVars, readVars, BridgeStep, EditScope, FetchOlder, Clicking, Browsing
<1>4. PollNewMessages /\ UNCHANGED <<db, moved>>
  BY <1>3 DEF Polling, Bootstrap, TailFrom, ingestVars
<1>5. r \in DOMAIN db.msgs /\ q < r /\ poll'.seen[r] = <<db.msgs[r].chat, db.msgs[r].id>>
  BY <1>1, <1>2, <1>4, PollLook
<1>6. q \in DOMAIN db.msgs /\ poll.seen[q] = <<db.msgs[q].chat, db.msgs[q].id>>
  BY <1>1 DEF PollerOK
<1>7. q \in Nat /\ r \in Nat
  BY <1>2, <1>5, <1>6 DEF Kempt
<1> QED BY <1>2, <1>5, <1>6, <1>7 DEF OneRow

LEMMA PollAlways == OneMessagePerID => (ClientsSpec => []IPoll)
<1> SUFFICES ASSUME OneMessagePerID PROVE ClientsSpec => []IPoll
  OBVIOUS
<1>1. ISay /\ IPoll /\ [ClientsNext]_clientVars => IPoll'
  BY PollStep
<1> QED BY <1>1, PollInit, SayAlways, PTL DEF ClientsSpec

(* mcpserv read_tools.go, poll_new_messages: a row behind the cursor was    *)
(* reported or was out of scope, unless a fold or a prune took its number   *)
(* or its chat, for any number of looks, edits of the scope and events.     *)
THEOREM PollsSkipNothing == OneMessagePerID => (ClientsSpec => []PollSkipsOnlyMoved)
<1> SUFFICES ASSUME OneMessagePerID PROVE ClientsSpec => []PollSkipsOnlyMoved
  OBVIOUS
<1>1. IPoll => PollSkipsOnlyMoved
  BY DEF IPoll, PollInv, PollSkipsOnlyMoved
<1>2. ClientsSpec => []IPoll
  BY PollAlways
<1> QED BY <1>1, <1>2, PTL

(* ... and no message is reported a second time, under its number or under  *)
(* another, unless it moved in between.                                    *)
THEOREM PollsRepeatNothing == OneMessagePerID => (ClientsSpec => PollRepeatsOnlyMoved)
<1> SUFFICES ASSUME OneMessagePerID PROVE ClientsSpec => PollRepeatsOnlyMoved
  OBVIOUS
<1>1. IStore /\ ISay /\ IPoll /\ [ClientsNext]_clientVars =>
        [poll # NoPoll /\ poll' # poll =>
           \A r \in poll'.got : \A q \in DOMAIN poll.seen \ moved : r # q /\ poll'.seen[r] # poll.seen[q]]_allVars
  BY PollsRepeat
<1>2. ClientsSpec => []IPoll
  BY PollAlways
<1> QED BY <1>1, <1>2, StoreInvariant, SayAlways, PTL DEF ClientsSpec, PollRepeatsOnlyMoved

----------------------------------------------------------------------------
(* Backfill.                                                               *)

(* What was stored when a request's oldest message was read is no older.   *)
Honest(q) == \A e \in Events : e.type = "message" /\ e.w.id \in q.had => e.w.ts \in Nat /\ e.w.ts >= q.anchor
Requests  == asked.going \cup {asked.memo[jid] : jid \in DOMAIN asked.memo}

FetchInv == DOMAIN asked = {"memo", "going"} /\ \A q \in Requests : q.anchor \in Nat /\ Honest(q)
IFetch   == IF reader = "fetcher" THEN FetchInv ELSE asked.memo = <<>>

LEMMA FetchInit == ClientsInit => IFetch
<1> SUFFICES ASSUME ClientsInit PROVE IFetch
  OBVIOUS
<1>1. asked = [memo |-> <<>>, going |-> {}]
  BY DEF ClientsInit, ReadInit
<1>2. DOMAIN asked.memo = {} /\ asked.going = {}
  BY <1>1
<1> QED BY <1>1, <1>2 DEF IFetch, FetchInv, Requests

LEMMA ArrivedAt ==
  ASSUME OneMessagePerID, NEW m, Arrives(m), NEW e \in Events, e.type = "message", e.w.id = m.id
  PROVE  m.ts \in Nat /\ e.w.ts = m.ts
<1>1. \A f \in Events : f.type = "message" => f.w.ts \in Nat
  BY EventsAssumption DEF Wires
<1> QED BY <1>1 DEF Arrives, OneMessagePerID

LEMMA OldestRead ==
  ASSUME OneMessagePerID, Kempt(db, FALSE), FetchInv, NEW jid, ReadOldest(jid)
  PROVE  FetchInv'
<1>1. PICK oldest \in OldestMessage(db, jid) :
        asked' = [asked EXCEPT !.going = @ \cup {[chat |-> jid, anchor |-> db.msgs[oldest].ts,
                                                 had |-> MessageIDs(db, jid)]}]
  BY DEF ReadOldest
<1> DEFINE q == [chat |-> jid, anchor |-> db.msgs[oldest].ts, had |-> MessageIDs(db, jid)]
<1>2. /\ oldest \in DOMAIN db.msgs
      /\ \A r \in RowsOf(db, jid) : r = oldest \/ Precedes(db.msgs[oldest], db.msgs[r].ts, db.msgs[r].id)
  BY DEF OldestMessage, RowsOf
<1>3. ASSUME NEW r \in DOMAIN db.msgs PROVE Arrives(db.msgs[r]) /\ db.msgs[r].ts \in Nat
  <2>1. Arrives(db.msgs[r])
    BY DEF Kempt, RowSays
  <2> QED BY <2>1, ArrivedAt DEF Arrives
<1>4. Honest(q)
  <2> SUFFICES ASSUME NEW e \in Events, e.type = "message", e.w.id \in q.had
               PROVE  e.w.ts \in Nat /\ e.w.ts >= q.anchor
    BY DEF Honest
  <2>1. PICK r \in RowsOf(db, jid) : e.w.id = db.msgs[r].id
    BY DEF MessageIDs
  <2>2. r \in DOMAIN db.msgs
    BY DEF RowsOf
  <2>3. e.w.ts = db.msgs[r].ts /\ db.msgs[r].ts \in Nat
    BY <1>3, <2>1, <2>2, ArrivedAt
  <2>4. db.msgs[r].ts >= db.msgs[oldest].ts
    BY <1>2, <1>3, <2>2 DEF Precedes
  <2> QED BY <2>3, <2>4
<1>5. q.anchor \in Nat
  BY <1>2, <1>3
<1>6. DOMAIN asked' = {"memo", "going"} /\ asked'.memo = asked.memo /\ asked'.going = asked.going \cup {q}
  BY <1>1 DEF FetchInv
<1> HIDE DEF q
<1> QED BY <1>4, <1>5, <1>6 DEF FetchInv, Requests

LEMMA Remembered ==
  ASSUME FetchInv, NEW q \in asked.going, NEW sent, Remember(q, sent)
  PROVE  FetchInv'
<1>1. /\ DOMAIN asked' = {"memo", "going"} /\ asked'.going \subseteq asked.going
      /\ asked'.memo = asked.memo \/ asked'.memo = Put(asked.memo, q.chat, q)
  BY DEF Remember, FetchInv
<1>2. \A jid \in DOMAIN asked'.memo : asked'.memo[jid] \in Requests
  <2>1. CASE asked'.memo = asked.memo
    BY <2>1 DEF Requests
  <2>2. CASE asked'.memo = Put(asked.memo, q.chat, q)
    BY <2>2, PutRow DEF Requests
  <2> QED BY <1>1, <2>1, <2>2
<1>3. Requests' \subseteq Requests
  BY <1>1, <1>2 DEF Requests
<1> QED BY <1>1, <1>3 DEF FetchInv

LEMMA FetchStep ==
  ASSUME OneMessagePerID, ISay, IFetch, [ClientsNext]_clientVars
  PROVE  IFetch'
<1>1. reader' = reader
  BY DEF ClientsNext, ReadNext, clientVars, allVars, readVars, BridgeStep, Polling, EditScope, FetchOlder, Clicking, Browsing
<1>2. CASE asked' = asked
  BY <1>1, <1>2 DEF IFetch, FetchInv, Requests
<1>3. CASE FetchOlder
  <2>1. reader = "fetcher" /\ FetchInv /\ Kempt(db, FALSE)
    BY <1>3 DEF FetchOlder, IFetch, ISay, SayInv
  <2>2. (\E jid : ReadOldest(jid)) \/ (\E q \in asked.going : \E sent : Remember(q, sent))
    BY <1>3 DEF FetchOlder
  <2>3. FetchInv'
    BY <2>1, <2>2, OldestRead, Remembered
  <2> QED BY <1>1, <2>1, <2>3 DEF IFetch
<1> QED BY <1>2, <1>3 DEF ClientsNext, ReadNext, clientVars, allVars, readVars, BridgeStep, Polling, EditScope, Clicking, Browsing

(* Every row that counts as older than the anchor is a message of its own,  *)
(* and none that was there.                                                *)
LEMMA HonestCount ==
  ASSUME OneMessagePerID, IStore, ISay, IFetch
  PROVE  HonestBackfill
<1> SUFFICES ASSUME NEW jid \in DOMAIN asked.memo
             PROVE  Arrived(db, jid, asked.memo[jid]) <= Cardinality(MessageIDs(db, jid) \ asked.memo[jid].had)
  BY DEF HonestBackfill
<1> DEFINE q == asked.memo[jid]
           older == {r \in RowsOf(db, jid) : db.msgs[r].ts < q.anchor}
           new   == MessageIDs(db, jid) \ q.had
           id    == [r \in RowsOf(db, jid) |-> db.msgs[r].id]
           older2new == [r \in older |-> db.msgs[r].id]
<1>1. reader = "fetcher"
  <2>1. DOMAIN <<>> = {}
    OBVIOUS
  <2> QED BY <2>1 DEF IFetch
<1>2. Kempt(db, FALSE) /\ OneRow(db) /\ q.anchor \in Nat /\ Honest(q)
  BY <1>1 DEF ISay, SayInv, IStore, StoreInv, Sound, IFetch, FetchInv, Requests
<1>3. IsFiniteSet(new)
  <2>1. IsFiniteSet(RowsOf(db, jid))
    BY <1>2, FS_Subset DEF RowsOf, Kempt
  <2>2. id \in Surjection(RowsOf(db, jid), MessageIDs(db, jid))
    BY DEF Surjection, MessageIDs
  <2>3. IsFiniteSet(MessageIDs(db, jid))
    BY <2>1, <2>2, FS_Surjection
  <2> QED BY <2>3, FS_Subset
<1>4. ASSUME NEW r \in older PROVE db.msgs[r].id \in new
  <2>1. r \in RowsOf(db, jid) /\ r \in DOMAIN db.msgs /\ db.msgs[r].ts < q.anchor
    BY DEF RowsOf
  <2>2. Arrives(db.msgs[r])
    BY <1>2, <2>1 DEF Kempt, RowSays
  <2>3. PICK e \in Events : e.type = "message" /\ e.w.id = db.msgs[r].id
    BY <2>2 DEF Arrives
  <2>4. e.w.ts = db.msgs[r].ts /\ db.msgs[r].ts \in Nat
    BY <2>2, <2>3, ArrivedAt
  <2>5. db.msgs[r].id \notin q.had
    <3> HIDE DEF q
    <3> QED BY <1>2, <2>1, <2>3, <2>4 DEF Honest
  <2> QED BY <2>1, <2>5 DEF MessageIDs
<1>5. older2new \in Injection(older, new)
  <2>1. older2new \in [older -> new]
    BY <1>4
  <2>2. ASSUME NEW a \in older, NEW b \in older, older2new[a] = older2new[b]
        PROVE  a = b
    <3>1. a \in DOMAIN db.msgs /\ b \in DOMAIN db.msgs /\ db.msgs[a].chat = jid /\ db.msgs[b].chat = jid
      BY DEF RowsOf
    <3>2. db.msgs[a].id = db.msgs[b].id
      BY <2>2
    <3> QED BY <1>2, <3>1, <3>2 DEF OneRow
  <2> HIDE DEF older2new, older, new
  <2> QED BY <2>1, <2>2 DEF Injection, IsInjective
<1>6. Cardinality(older) <= Cardinality(new)
  <2> HIDE DEF older2new, older, new
  <2> QED BY <1>3, <1>5, FS_Injection
<1> QED BY <1>6 DEF Arrived, CountMessagesOlderThan

(* mcpserv read_tools.go, fetch_older_messages: what is counted as arrived   *)
(* since the last request was not stored when that request's anchor was     *)
(* read, however requests, arrivals, folds and prunes overlap.              *)
THEOREM BackfillsHonest == OneMessagePerID => (ClientsSpec => []HonestBackfill)
<1> SUFFICES ASSUME OneMessagePerID PROVE ClientsSpec => []HonestBackfill
  OBVIOUS
<1>1. ISay /\ IFetch /\ [ClientsNext]_clientVars => IFetch'
  BY FetchStep
<1>2. IStore /\ ISay /\ IFetch => HonestBackfill
  BY HonestCount
<1> QED BY <1>1, <1>2, FetchInit, StoreInvariant, SayAlways, PTL DEF ClientsSpec

----------------------------------------------------------------------------
(* People keep their names.                                                *)

(* The names on file of a contact.                                         *)
Labels == {"full", "push", "business"}
Labelled(c) == Labels \subseteq DOMAIN c /\ \A f \in Labels : c[f] \in Names
Bears(c) == \E f \in Labels : c[f] # NoName

(* What the store's names, pairings and senders look like.                 *)
Called(d) ==
  /\ DOMAIN d = {"chats", "msgs", "contacts", "lids", "calls"}
  /\ \A j \in DOMAIN d.contacts : j # NoJid /\ Labelled(d.contacts[j])
  /\ \A l \in DOMAIN d.lids : Pairing(l, d.lids[l])
  /\ \A c \in DOMAIN d.chats : "name" \in DOMAIN d.chats[c] /\ d.chats[c].name \in Names
  /\ \A r \in DOMAIN d.msgs : "sender" \in DOMAIN d.msgs[r] /\ d.msgs[r].sender \in Jids

(* Every contact that bears a name is one of a user who still has one.     *)
KeepsNames(d, e) ==
  \A j \in DOMAIN d.contacts : Bears(d.contacts[j]) =>
     \E k \in DOMAIN e.contacts : k.u = j.u /\ Bears(e.contacts[k])

(* The first that is a name, if one is.                                    *)
LEMMA FirstNamedIs ==
  ASSUME NEW n \in Nat, NEW s, DOMAIN s = 1 .. n
  PROVE  \/ FirstNamed(s) = NoName /\ \A i \in 1 .. n : s[i] = NoName
         \/ \E i \in 1 .. n : /\ FirstNamed(s) = s[i] /\ s[i] # NoName
                              /\ \A k \in 1 .. n : k < i => s[k] = NoName
<1> DEFINE T == {i \in DOMAIN s : s[i] # NoName}
<1>1. CASE T = {}
  <2>1. FirstNamed(s) = NoName
    BY <1>1 DEF FirstNamed
  <2> QED BY <1>1, <2>1
<1>2. CASE T # {}
  <2>0. T \subseteq Nat
    OBVIOUS
  <2> HIDE DEF T
  <2>1. PICK i \in T : \A k \in T : ~(k < i)
    BY <1>2, <2>0, NatWF
  <2>2. \A k \in T : i <= k
    BY <2>0, <2>1
  <2>3. Min(T) \in T /\ \A k \in T : Min(T) <= k
    BY <2>2 DEF Min
  <2>4. FirstNamed(s) = s[Min(T)]
    BY <1>2 DEF FirstNamed, T
  <2> DEFINE m == Min(T)
  <2> HIDE DEF m
  <2>5. m \in T /\ (\A k \in T : m <= k) /\ FirstNamed(s) = s[m]
    BY <2>3, <2>4 DEF m
  <2> QED BY <2>5 DEF T
<1> QED BY <1>1, <1>2

LEMMA FirstOfTwo ==
  ASSUME NEW a, NEW b
  PROVE  FirstNamed(<<a, b>>) = IF a # NoName THEN a ELSE b
<1> DEFINE s == <<a, b>>
<1>1. DOMAIN s = 1 .. 2 /\ s[1] = a /\ s[2] = b
  OBVIOUS
<1> HIDE DEF s
<1>2. \A i \in 1 .. 2 : i = 1 \/ i = 2
  OBVIOUS
<1>3. 2 \in Nat /\ DOMAIN s = 1 .. 2
  BY <1>1
<1>4. \/ FirstNamed(s) = NoName /\ \A i \in 1 .. 2 : s[i] = NoName
      \/ \E i \in 1 .. 2 : /\ FirstNamed(s) = s[i] /\ s[i] # NoName
                            /\ \A k \in 1 .. 2 : k < i => s[k] = NoName
  BY <1>3, FirstNamedIs
<1>5. \/ FirstNamed(s) = NoName /\ s[1] = NoName /\ s[2] = NoName
      \/ FirstNamed(s) = s[1] /\ s[1] # NoName
      \/ FirstNamed(s) = s[2] /\ s[2] # NoName /\ s[1] = NoName
  BY <1>2, <1>4
<1>6. FirstNamed(s) = IF a # NoName THEN a ELSE b
  BY <1>1, <1>5
<1> QED BY <1>6 DEF s

LEMMA FirstOfThree ==
  ASSUME NEW a, NEW b, NEW c
  PROVE  FirstNamed(<<a, b, c>>) = IF a # NoName THEN a ELSE IF b # NoName THEN b ELSE c
<1> DEFINE s == <<a, b, c>>
<1>1. DOMAIN s = 1 .. 3 /\ s[1] = a /\ s[2] = b /\ s[3] = c
  OBVIOUS
<1> HIDE DEF s
<1>2. \A i \in 1 .. 3 : i = 1 \/ i = 2 \/ i = 3
  OBVIOUS
<1>3. 3 \in Nat /\ DOMAIN s = 1 .. 3
  BY <1>1
<1>4. \/ FirstNamed(s) = NoName /\ \A i \in 1 .. 3 : s[i] = NoName
      \/ \E i \in 1 .. 3 : /\ FirstNamed(s) = s[i] /\ s[i] # NoName
                            /\ \A k \in 1 .. 3 : k < i => s[k] = NoName
  BY <1>3, FirstNamedIs
<1>5. \/ FirstNamed(s) = NoName /\ s[1] = NoName /\ s[2] = NoName /\ s[3] = NoName
      \/ FirstNamed(s) = s[1] /\ s[1] # NoName
      \/ FirstNamed(s) = s[2] /\ s[2] # NoName /\ s[1] = NoName
      \/ FirstNamed(s) = s[3] /\ s[3] # NoName /\ s[1] = NoName /\ s[2] = NoName
  BY <1>2, <1>4
<1>6. FirstNamed(s) = IF a # NoName THEN a ELSE IF b # NoName THEN b ELSE c
  BY <1>1, <1>5
<1> QED BY <1>6 DEF s

LEMMA FirstOfFour ==
  ASSUME NEW a, NEW b, NEW c, NEW e
  PROVE  FirstNamed(<<a, b, c, e>>) =
           IF a # NoName THEN a ELSE IF b # NoName THEN b ELSE IF c # NoName THEN c ELSE e
<1> DEFINE s == <<a, b, c, e>>
<1>1. DOMAIN s = 1 .. 4 /\ s[1] = a /\ s[2] = b /\ s[3] = c /\ s[4] = e
  OBVIOUS
<1> HIDE DEF s
<1>2. \A i \in 1 .. 4 : i = 1 \/ i = 2 \/ i = 3 \/ i = 4
  OBVIOUS
<1>3. 4 \in Nat /\ DOMAIN s = 1 .. 4
  BY <1>1
<1>4. \/ FirstNamed(s) = NoName /\ \A i \in 1 .. 4 : s[i] = NoName
      \/ \E i \in 1 .. 4 : /\ FirstNamed(s) = s[i] /\ s[i] # NoName
                            /\ \A k \in 1 .. 4 : k < i => s[k] = NoName
  BY <1>3, FirstNamedIs
<1>5. \/ FirstNamed(s) = NoName /\ s[1] = NoName /\ s[2] = NoName /\ s[3] = NoName /\ s[4] = NoName
      \/ FirstNamed(s) = s[1] /\ s[1] # NoName
      \/ FirstNamed(s) = s[2] /\ s[2] # NoName /\ s[1] = NoName
      \/ FirstNamed(s) = s[3] /\ s[3] # NoName /\ s[1] = NoName /\ s[2] = NoName
      \/ FirstNamed(s) = s[4] /\ s[4] # NoName /\ s[1] = NoName /\ s[2] = NoName /\ s[3] = NoName
  BY <1>2, <1>4
<1>6. FirstNamed(s) = IF a # NoName THEN a ELSE IF b # NoName THEN b ELSE IF c # NoName THEN c ELSE e
  BY <1>1, <1>5
<1> QED BY <1>6 DEF s

(* A contact is shown with a name when it bears one.                       *)
LEMMA ContactNames ==
  ASSUME NEW d, Called(d), NEW j
  PROVE  /\ ContactName(d, j) \in Names
         /\ ContactName(d, j) # NoName <=> (j \in DOMAIN d.contacts /\ Bears(d.contacts[j]))
<1> DEFINE c == ContactOf(d, j)
<1>1. ContactName(d, j) = IF c.full # NoName THEN c.full ELSE IF c.push # NoName THEN c.push ELSE c.business
  BY FirstOfThree DEF ContactName
<1>2. CASE j \in DOMAIN d.contacts
  <2>1. c = d.contacts[j] /\ Labelled(c)
    BY <1>2 DEF Called, ContactOf
  <2> HIDE DEF c
  <2>2. c.full \in Names /\ c.push \in Names /\ c.business \in Names
    BY <2>1 DEF Labelled, Labels
  <2>3. Bears(c) <=> (c.full # NoName \/ c.push # NoName \/ c.business # NoName)
    BY DEF Bears, Labels
  <2> QED BY <1>1, <1>2, <2>1, <2>2, <2>3
<1>3. CASE j \notin DOMAIN d.contacts
  <2>1. c.full = NoName /\ c.push = NoName /\ c.business = NoName
    BY <1>3 DEF ContactOf, NoContact
  <2> HIDE DEF c
  <2> QED BY <1>1, <1>3, <2>1 DEF Names, NoName
<1> QED BY <1>2, <1>3

LEMMA NoNumberIsName ==
  ASSUME NEW n \in Nat
  PROVE  ~IsName(1000 + n)
  BY DEF IsName, Names

(* Where a JID's name comes from: its own contact, or that of its number.  *)
LEMMA CaseNames ==
  ASSUME NEW d, Called(d), NEW j, NEW fallback, ~IsName(fallback)
  PROVE  IsName(ContactNameCase(d, j, fallback)) <=>
           (ContactName(d, j) # NoName \/ ContactName(d, PhoneOfLID(d, j)) # NoName)
<1> DEFINE pn == PhoneOfLID(d, j)
           a == ContactName(d, j)
           b == ContactName(d, pn)
           c == Spelled(pn)
<1>1. ContactNameCase(d, j, fallback) =
        IF a # NoName THEN a ELSE IF b # NoName THEN b ELSE IF c # NoName THEN c ELSE fallback
  BY FirstOfFour DEF ContactNameCase
<1>2. a \in Names /\ b \in Names
  BY ContactNames
<1>3. pn = NoJid \/ pn.u \in Nat
  <2>1. CASE j \in DOMAIN d.lids
    BY <2>1 DEF PhoneOfLID, Called, Pairing, Pn, Jid
  <2>2. CASE j \notin DOMAIN d.lids
    BY <2>2 DEF PhoneOfLID
  <2> QED BY <2>1, <2>2
<1> HIDE DEF pn
<1>4. ~IsName(c)
  <2>1. CASE pn = NoJid
    BY <2>1 DEF Spelled, IsName
  <2>2. CASE pn # NoJid
    <3>1. c = 1000 + pn.u /\ pn.u \in Nat
      BY <1>3, <2>2 DEF Spelled
    <3> QED BY <3>1, NoNumberIsName
  <2> QED BY <2>1, <2>2
<1> HIDE DEF a, b, c
<1>5. IsName(a) <=> a # NoName
  BY <1>2 DEF IsName
<1>6. IsName(b) <=> b # NoName
  BY <1>2 DEF IsName
<1> QED BY <1>1, <1>4, <1>5, <1>6 DEF a, b, c, pn

(* Only the names are copied, so the rest of a database stays as it is.    *)
LEMMA SameNames ==
  ASSUME NEW d, Called(d), NEW e, DOMAIN e = DOMAIN d, e.contacts = d.contacts
  PROVE  KeepsNames(d, e)
  BY DEF KeepsNames

(* A contact written over another bears the name of either.                *)
LEMMA MergeBears ==
  ASSUME NEW a, NEW b, Labelled(a), Labelled(b)
  PROVE  Labelled(MergeContact(a, b)) /\ (Bears(a) \/ Bears(b) => Bears(MergeContact(a, b)))
<1> DEFINE m == MergeContact(a, b)
<1>1. DOMAIN m = DOMAIN a /\ \A f \in DOMAIN a : m[f] = IF a[f] # NoName THEN a[f] ELSE b[f]
  BY DEF MergeContact
<1> HIDE DEF m
<1>2. \A f \in Labels : f \in DOMAIN a /\ a[f] \in Names /\ b[f] \in Names
  BY DEF Labelled
<1>3. \A f \in Labels : m[f] \in Names /\ (a[f] # NoName \/ b[f] # NoName => m[f] # NoName)
  BY <1>1, <1>2
<1>4. Labelled(m)
  BY <1>1, <1>2, <1>3 DEF Labelled
<1>5. Bears(a) \/ Bears(b) => Bears(m)
  BY <1>3 DEF Bears
<1> QED BY <1>4, <1>5 DEF m

LEMMA ContactLabelled ==
  ASSUME NEW d, Called(d), NEW j
  PROVE  Labelled(ContactOf(d, j)) /\ Labels \subseteq DOMAIN NoContact
<1>1. Labelled(NoContact) /\ Labels \subseteq DOMAIN NoContact
  BY DEF Labelled, Labels, NoContact, Names, NoName
<1> QED BY <1>1 DEF ContactOf, Called

(* The fold of the contacts: a person's LID and number become one contact. *)
LEMMA FoldContactsCalled ==
  ASSUME NEW d, Called(d), NEW known
  PROVE  LET e == FoldContacts(d, known)
         IN  /\ Called(e) /\ e.chats = d.chats /\ e.msgs = d.msgs /\ e.lids = d.lids
             /\ \A j \in DOMAIN d.contacts : Bears(d.contacts[j]) =>
                  PhoneJID(j, known) \in DOMAIN e.contacts /\ Bears(e.contacts[PhoneJID(j, known)])
<1> DEFINE to(j) == PhoneJID(j, known)
           lids(k) == {j \in Foldable(DOMAIN d.contacts, known) : to(j) = k}
           given(k) == [f \in DOMAIN NoContact |-> IF f = "phone" THEN PhoneDigits(k)
                                                   ELSE AnyName({d.contacts[j][f] : j \in lids(k)})]
           filled(k) == MergeContact(ContactOf(d, k), given(k))
           new == [k \in {to(j) : j \in DOMAIN d.contacts} |-> IF lids(k) = {} THEN d.contacts[k] ELSE filled(k)]
           e == FoldContacts(d, known)
<1>1. /\ DOMAIN e = DOMAIN d /\ e.contacts = new
      /\ e.chats = d.chats /\ e.msgs = d.msgs /\ e.lids = d.lids
  BY DEF FoldContacts, Called
<1> HIDE DEF e
<1>2. ASSUME NEW k
      PROVE  Labelled(given(k)) /\ \A j \in lids(k) : Bears(d.contacts[j]) => Bears(given(k))
  <2>1. ASSUME NEW f \in Labels
        PROVE  /\ f \in DOMAIN given(k) /\ given(k)[f] \in Names
               /\ \A j \in lids(k) : d.contacts[j][f] # NoName => given(k)[f] # NoName
    <3> DEFINE S == {d.contacts[j][f] : j \in lids(k)}
    <3>1. S \subseteq Names
      BY DEF Called, Labelled, Foldable
    <3>2. given(k)[f] = AnyName(S) /\ f \in DOMAIN given(k)
      BY ContactLabelled DEF Labels
    <3>3. \A j \in lids(k) : d.contacts[j][f] \in S
      OBVIOUS
    <3> HIDE DEF S, given, lids
    <3>4. CASE S \subseteq {NoName}
      <4>1. AnyName(S) = NoName
        BY <3>4 DEF AnyName
      <4>2. NoName \in Names
        BY DEF Names, NoName
      <4>3. \A j \in lids(k) : d.contacts[j][f] = NoName
        BY <3>3, <3>4
      <4> QED BY <3>2, <4>1, <4>2, <4>3
    <3>5. CASE ~(S \subseteq {NoName})
      <4>1. S \ {NoName} # {} /\ AnyName(S) = OneOf(S \ {NoName})
        BY <3>5 DEF AnyName
      <4>2. OneOf(S \ {NoName}) \in S \ {NoName}
        BY <4>1 DEF OneOf
      <4> QED BY <3>1, <3>2, <4>1, <4>2
    <3> QED BY <3>4, <3>5
  <2> HIDE DEF given, lids
  <2> QED BY <2>1 DEF Labelled, Bears
<1>3. \A k : Labelled(filled(k)) /\ (Bears(ContactOf(d, k)) \/ Bears(given(k)) => Bears(filled(k)))
  BY <1>2, ContactLabelled, MergeBears
<1>4. \A k : lids(k) = {} => \A j \in DOMAIN d.contacts : to(j) = k => j = k
  BY DEF Foldable, PhoneJID
<1>5. \A j \in DOMAIN d.contacts : to(j) = j \/ j \in lids(to(j))
  BY DEF Foldable, PhoneJID
<1>6. \A j : j # NoJid => to(j) # NoJid
  BY DEF PhoneJID, Pn, Jid, NoJid
<1>7. /\ DOMAIN new = {to(j) : j \in DOMAIN d.contacts}
      /\ \A k \in DOMAIN new : new[k] = IF lids(k) = {} THEN d.contacts[k] ELSE filled(k)
  OBVIOUS
<1> HIDE DEF new, filled, given, lids, to
<1>8. ASSUME NEW k \in DOMAIN new
      PROVE  k # NoJid /\ Labelled(new[k])
  <2>1. PICK j \in DOMAIN d.contacts : to(j) = k
    BY <1>7
  <2>2. k # NoJid
    BY <1>6, <2>1 DEF Called
  <2>3. lids(k) = {} => k \in DOMAIN d.contacts
    BY <1>4, <2>1
  <2> QED BY <1>3, <1>7, <2>2, <2>3 DEF Called
<1>9. ASSUME NEW j \in DOMAIN d.contacts, Bears(d.contacts[j])
      PROVE  to(j) \in DOMAIN new /\ Bears(new[to(j)])
  <2>1. to(j) \in DOMAIN new
    BY <1>7
  <2>2. CASE lids(to(j)) = {}
    BY <1>4, <1>7, <1>9, <2>1, <2>2
  <2>3. CASE lids(to(j)) # {}
    <3>1. new[to(j)] = filled(to(j))
      BY <1>7, <2>1, <2>3
    <3> DEFINE k == to(j)
    <3> HIDE DEF k
    <3>4. Bears(ContactOf(d, k)) \/ Bears(given(k)) => Bears(filled(k))
      BY <1>3
    <3>2. CASE j \in lids(to(j))
      <4>1. Bears(given(k))
        BY <1>2, <1>9, <3>2 DEF k
      <4> QED BY <2>1, <3>1, <3>4, <4>1 DEF k
    <3>3. CASE to(j) = j
      <4>1. ContactOf(d, k) = d.contacts[j]
        BY <3>3 DEF ContactOf, k
      <4> QED BY <1>9, <2>1, <3>1, <3>4, <4>1 DEF k
    <3> QED BY <1>5, <3>2, <3>3
  <2> QED BY <2>1, <2>2, <2>3
<1>10. Called(e)
  BY <1>1, <1>8 DEF Called
<1> QED BY <1>1, <1>9, <1>10 DEF e, to

LEMMA AnyNameIs ==
  ASSUME NEW S, S \subseteq Names
  PROVE  AnyName(S) \in Names
<1>1. CASE S \subseteq {NoName}
  BY <1>1 DEF AnyName, NoName, Names
<1>2. CASE ~(S \subseteq {NoName})
  <2>1. S \ {NoName} # {} /\ AnyName(S) = OneOf(S \ {NoName})
    BY <1>2 DEF AnyName
  <2> QED BY <2>1 DEF OneOf
<1> QED BY <1>1, <1>2

(* A pairing a fold writes is of a LID it can name.                        *)
LEMMA PairsStay ==
  ASSUME NEW lids, \A l \in DOMAIN lids : Pairing(l, lids[l]), NEW known \in SUBSET Nat,
         NEW S, \A l \in S : l.s = "lid" /\ l.u \in known
  PROVE  LET new == PairLIDs(lids, S)
         IN  /\ \A l \in DOMAIN new : Pairing(l, new[l])
             /\ \A l : PhoneJID(l, known) = l =>
                  (l \in DOMAIN new <=> l \in DOMAIN lids) /\ (l \in DOMAIN lids => new[l] = lids[l])
<1> DEFINE new == PairLIDs(lids, S)
<1>1. /\ DOMAIN new = DOMAIN lids \cup S
      /\ \A l \in DOMAIN new : new[l] = IF l \in S THEN Pn(l.u) ELSE lids[l]
  BY DEF PairLIDs
<1> HIDE DEF new
<1>2. \A l : PhoneJID(l, known) = l => l \notin S
  BY DEF PhoneJID, Pn, Jid
<1>3. \A l \in DOMAIN new : Pairing(l, new[l])
  BY <1>1 DEF Pairing
<1> QED BY <1>1, <1>2, <1>3 DEF new

(* The fold of the chats.                                                  *)
LEMMA FoldChatsCalled ==
  ASSUME NEW d, Called(d), NEW known \in SUBSET Nat
  PROVE  LET e == FoldChats(d, known)
         IN  /\ Called(e) /\ e.contacts = d.contacts
             /\ \A l : PhoneJID(l, known) = l => PhoneOfLID(e, l) = PhoneOfLID(d, l)
             /\ \A r \in DOMAIN e.msgs : r \in DOMAIN d.msgs /\ e.msgs[r].sender = d.msgs[r].sender
             /\ \A c \in DOMAIN e.chats :
                  /\ PhoneJID(c, known) = c
                  /\ c \in DOMAIN d.chats /\ d.chats[c].name # NoName => e.chats[c].name = d.chats[c].name
<1> DEFINE lids == Foldable(DOMAIN d.chats, known)
           from(jid) == {c \in DOMAIN d.chats : PhoneJID(c, known) = jid}
           after(jid) == ChatAfterFold(d.chats, jid, from(jid))
           all == {PhoneJID(c, known) : c \in DOMAIN d.chats}
           rows == RowsAfterFold(d, lids)
           pairs == PairLIDs(d.lids, lids)
           e == FoldChats(d, known)
<1>1. /\ DOMAIN e = DOMAIN d /\ e.contacts = d.contacts /\ e.msgs = rows /\ e.lids = pairs
      /\ e.chats = [jid \in all |-> after(jid)]
  BY DEF FoldChats, Called
<1>2. /\ DOMAIN rows \subseteq DOMAIN d.msgs
      /\ \A r \in DOMAIN rows : "sender" \in DOMAIN rows[r] /\ rows[r].sender = d.msgs[r].sender
  BY DEF RowsAfterFold, Called
<1>3. /\ \A l \in DOMAIN pairs : Pairing(l, pairs[l])
      /\ \A l : PhoneJID(l, known) = l =>
           (l \in DOMAIN pairs <=> l \in DOMAIN d.lids) /\ (l \in DOMAIN d.lids => pairs[l] = d.lids[l])
  <2>1. \A l \in lids : l.s = "lid" /\ l.u \in known
    BY DEF Foldable
  <2>2. \A l \in DOMAIN d.lids : Pairing(l, d.lids[l])
    BY DEF Called
  <2> HIDE DEF lids
  <2> QED BY <2>1, <2>2, PairsStay
<1>4. \A l : PhoneJID(l, known) = l => PhoneOfLID(e, l) = PhoneOfLID(d, l)
  <2> HIDE DEF e, pairs
  <2> QED BY <1>1, <1>3 DEF PhoneOfLID
<1>5. ASSUME NEW c \in all
      PROVE  /\ PhoneJID(c, known) = c /\ "name" \in DOMAIN after(c) /\ after(c).name \in Names
             /\ c \in DOMAIN d.chats /\ d.chats[c].name # NoName => after(c).name = d.chats[c].name
  <2> DEFINE own == IF c \in from(c) THEN d.chats[c] ELSE [name |-> NoName, group |-> FALSE]
             any == AnyName({d.chats[x].name : x \in from(c)})
  <2>1. PhoneJID(c, known) = c
    BY ToPhone DEF Stays
  <2>2. "name" \in DOMAIN after(c) /\ after(c).name = FirstNamed(<<own.name, any>>)
    BY DEF ChatAfterFold
  <2>3. c \in DOMAIN d.chats => own = d.chats[c]
    BY <2>1
  <2>4. any \in Names
    <3>1. {d.chats[x].name : x \in from(c)} \subseteq Names
      BY DEF Called
    <3> QED BY <3>1, AnyNameIs
  <2>5. own.name \in Names
    <3>1. NoName \in Names
      BY DEF Names, NoName
    <3>2. c \in DOMAIN d.chats => d.chats[c].name \in Names
      BY DEF Called
    <3> QED BY <2>3, <3>1, <3>2
  <2> HIDE DEF own, any, after
  <2>6. after(c).name = IF own.name # NoName THEN own.name ELSE any
    BY <2>2, FirstOfTwo
  <2> QED BY <2>1, <2>2, <2>3, <2>4, <2>5, <2>6
<1> HIDE DEF e, rows, pairs, after, all
<1>6. DOMAIN e.chats = all /\ \A c \in all : e.chats[c] = after(c)
  BY <1>1
<1>7. Called(e)
  BY <1>1, <1>2, <1>3, <1>5, <1>6 DEF Called
<1> QED BY <1>1, <1>2, <1>4, <1>5, <1>6, <1>7 DEF e

(* The fold of the senders.                                                *)
LEMMA FoldSendersCalled ==
  ASSUME NEW d, Called(d), NEW known \in SUBSET Nat
  PROVE  LET e == FoldSenders(d, known)
         IN  /\ Called(e) /\ e.contacts = d.contacts /\ e.chats = d.chats /\ DOMAIN e.msgs = DOMAIN d.msgs
             /\ \A l : PhoneJID(l, known) = l => PhoneOfLID(e, l) = PhoneOfLID(d, l)
             /\ \A r \in DOMAIN e.msgs : e.msgs[r].sender = PhoneJID(d.msgs[r].sender, known)
<1> DEFINE lids == Foldable({d.msgs[r].sender : r \in DOMAIN d.msgs}, known)
           both == lids \cup {BareLID(j) : j \in lids}
           pairs == PairLIDs(d.lids, both)
           rows == [r \in DOMAIN d.msgs |-> [d.msgs[r] EXCEPT !.sender = PhoneJID(d.msgs[r].sender, known)]]
           e == FoldSenders(d, known)
<1>1. /\ DOMAIN e = DOMAIN d /\ e.contacts = d.contacts /\ e.chats = d.chats
      /\ e.msgs = rows /\ e.lids = pairs
  BY DEF FoldSenders, Called
<1>2. /\ DOMAIN rows = DOMAIN d.msgs
      /\ \A r \in DOMAIN rows : "sender" \in DOMAIN rows[r] /\ rows[r].sender = PhoneJID(d.msgs[r].sender, known)
  BY DEF Called
<1>3. \A l \in both : l.s = "lid" /\ l.u \in known
  <2>1. \A l \in lids : l \in Jids /\ l.s = "lid" /\ l.u \in known
    BY DEF Foldable, Called
  <2> HIDE DEF lids
  <2>2. \A l \in lids : BareLID(l).s = "lid" /\ BareLID(l).u \in known
    BY <2>1 DEF BareLID, Jids
  <2> QED BY <2>1, <2>2
<1> HIDE DEF both
<1>4. /\ \A l \in DOMAIN pairs : Pairing(l, pairs[l])
      /\ \A l : PhoneJID(l, known) = l =>
           (l \in DOMAIN pairs <=> l \in DOMAIN d.lids) /\ (l \in DOMAIN d.lids => pairs[l] = d.lids[l])
  <2>1. \A l \in DOMAIN d.lids : Pairing(l, d.lids[l])
    BY DEF Called
  <2> QED BY <1>3, <2>1, PairsStay
<1> HIDE DEF e, pairs, rows
<1>5. \A l : PhoneJID(l, known) = l => PhoneOfLID(e, l) = PhoneOfLID(d, l)
  BY <1>1, <1>4 DEF PhoneOfLID
<1>6. \A j \in Jids : PhoneJID(j, known) \in Jids
  BY DEF PhoneJID, Pn, Jid, Jids
<1>7. Called(e)
  BY <1>1, <1>2, <1>4, <1>6 DEF Called
<1> QED BY <1>1, <1>2, <1>5, <1>7 DEF e

(* A fold keeps the names of those it renames.                             *)
LEMMA FoldCalled ==
  ASSUME NEW d, Called(d), NEW known \in SUBSET Nat
  PROVE  LET e == FoldLIDs(d, known)
         IN  /\ Called(e)
             /\ \A j \in DOMAIN d.contacts : Bears(d.contacts[j]) =>
                  PhoneJID(j, known) \in DOMAIN e.contacts /\ Bears(e.contacts[PhoneJID(j, known)])
             /\ \A l : PhoneJID(l, known) = l => PhoneOfLID(e, l) = PhoneOfLID(d, l)
             /\ \A r \in DOMAIN e.msgs : r \in DOMAIN d.msgs /\ e.msgs[r].sender = PhoneJID(d.msgs[r].sender, known)
             /\ \A c \in DOMAIN e.chats :
                  /\ PhoneJID(c, known) = c
                  /\ c \in DOMAIN d.chats /\ d.chats[c].name # NoName => e.chats[c].name = d.chats[c].name
<1> DEFINE d1 == FoldChats(d, known)
           d2 == FoldSenders(d1, known)
           d3 == FoldContacts(d2, known)
           d4 == FoldCalls(d3, known)
<1>1. /\ Called(d1) /\ d1.contacts = d.contacts
      /\ \A l : PhoneJID(l, known) = l => PhoneOfLID(d1, l) = PhoneOfLID(d, l)
      /\ \A r \in DOMAIN d1.msgs : r \in DOMAIN d.msgs /\ d1.msgs[r].sender = d.msgs[r].sender
      /\ \A c \in DOMAIN d1.chats :
           /\ PhoneJID(c, known) = c
           /\ c \in DOMAIN d.chats /\ d.chats[c].name # NoName => d1.chats[c].name = d.chats[c].name
  BY FoldChatsCalled
<1> HIDE DEF d1
<1>2. /\ Called(d2) /\ d2.contacts = d1.contacts /\ d2.chats = d1.chats /\ DOMAIN d2.msgs = DOMAIN d1.msgs
      /\ \A l : PhoneJID(l, known) = l => PhoneOfLID(d2, l) = PhoneOfLID(d1, l)
      /\ \A r \in DOMAIN d2.msgs : d2.msgs[r].sender = PhoneJID(d1.msgs[r].sender, known)
  BY <1>1, FoldSendersCalled
<1> HIDE DEF d2
<1>3. /\ Called(d3) /\ d3.chats = d2.chats /\ d3.msgs = d2.msgs /\ d3.lids = d2.lids
      /\ \A j \in DOMAIN d2.contacts : Bears(d2.contacts[j]) =>
           PhoneJID(j, known) \in DOMAIN d3.contacts /\ Bears(d3.contacts[PhoneJID(j, known)])
  BY <1>2, FoldContactsCalled
<1> HIDE DEF d3
<1>4. /\ DOMAIN d4 = DOMAIN d3 /\ d4.chats = d3.chats /\ d4.msgs = d3.msgs /\ d4.lids = d3.lids
      /\ d4.contacts = d3.contacts
  BY <1>3 DEF FoldCalls, Called
<1> HIDE DEF d4
<1>5. Called(d4)
  BY <1>3, <1>4 DEF Called
<1>6. \A l : PhoneOfLID(d4, l) = PhoneOfLID(d2, l)
  BY <1>3, <1>4 DEF PhoneOfLID
<1>7. d4 = FoldLIDs(d, known)
  BY DEF FoldLIDs, d1, d2, d3, d4
<1>8. \A l : PhoneJID(l, known) = l => PhoneOfLID(d4, l) = PhoneOfLID(d, l)
  BY <1>1, <1>2, <1>6
<1>9. \A r \in DOMAIN d4.msgs : r \in DOMAIN d.msgs /\ d4.msgs[r].sender = PhoneJID(d.msgs[r].sender, known)
  BY <1>1, <1>2, <1>3, <1>4
<1>10. \A c \in DOMAIN d4.chats :
         /\ PhoneJID(c, known) = c
         /\ c \in DOMAIN d.chats /\ d.chats[c].name # NoName => d4.chats[c].name = d.chats[c].name
  BY <1>1, <1>2, <1>3, <1>4
<1>11. \A j \in DOMAIN d.contacts : Bears(d.contacts[j]) =>
         PhoneJID(j, known) \in DOMAIN d4.contacts /\ Bears(d4.contacts[PhoneJID(j, known)])
  BY <1>1, <1>2, <1>3, <1>4
<1> QED BY <1>5, <1>7, <1>8, <1>9, <1>10, <1>11

(* Whoever a fold renames is shown with a name after it if before.         *)
LEMMA CaseKept ==
  ASSUME NEW d, Called(d), NEW known \in SUBSET Nat, NEW j, NEW a, ~IsName(a), NEW b, ~IsName(b),
         IsName(ContactNameCase(d, j, a))
  PROVE  IsName(ContactNameCase(FoldLIDs(d, known), PhoneJID(j, known), b))
<1> DEFINE e == FoldLIDs(d, known)
           to == PhoneJID(j, known)
           pn == PhoneOfLID(d, j)
<1>1. /\ Called(e)
      /\ \A k \in DOMAIN d.contacts : Bears(d.contacts[k]) =>
           PhoneJID(k, known) \in DOMAIN e.contacts /\ Bears(e.contacts[PhoneJID(k, known)])
      /\ \A l : PhoneJID(l, known) = l => PhoneOfLID(e, l) = PhoneOfLID(d, l)
  BY FoldCalled
<1> HIDE DEF e
<1>2. \A k : ContactName(d, k) # NoName => ContactName(e, PhoneJID(k, known)) # NoName
  BY <1>1, ContactNames
<1>3. ContactName(d, j) # NoName \/ ContactName(d, pn) # NoName
  BY CaseNames
<1>4. ContactName(e, to) # NoName \/ ContactName(e, PhoneOfLID(e, to)) # NoName
  <2>1. CASE ContactName(d, j) # NoName
    BY <1>2, <2>1
  <2>2. CASE ContactName(d, pn) # NoName
    <3>1. pn \in DOMAIN d.contacts
      BY <2>2, ContactNames
    <3>2. pn # NoJid
      BY <3>1 DEF Called
    <3>3. j \in DOMAIN d.lids /\ pn = Pn(j.u) /\ j.s = "lid"
      BY <3>2 DEF PhoneOfLID, Called, Pairing
    <3> HIDE DEF pn
    <3>4. PhoneJID(pn, known) = pn
      BY <3>3 DEF PhoneJID, Pn, Jid
    <3>5. ContactName(e, pn) # NoName
      BY <1>2, <2>2, <3>4
    <3>6. CASE to = j
      <4>1. PhoneOfLID(e, to) = pn
        BY <1>1, <3>6 DEF pn
      <4> QED BY <3>5, <4>1
    <3>7. CASE to # j
      <4>1. to = pn
        BY <3>3, <3>7 DEF PhoneJID
      <4> QED BY <3>5, <4>1
    <3> QED BY <3>6, <3>7
  <2> QED BY <1>3, <2>1, <2>2
<1> HIDE DEF to
<1>5. IsName(ContactNameCase(e, to, b))
  BY <1>1, <1>4, CaseNames
<1> QED BY <1>5 DEF e, to

LEMMA MarkReadCalled ==
  ASSUME NEW d, Called(d), NEW chat, NEW ids, NEW at
  PROVE  Called(MarkRead(d, chat, ids, at)) /\ KeepsNames(d, MarkRead(d, chat, ids, at))
<1> DEFINE e == MarkRead(d, chat, ids, at)
           row(r) == IF d.msgs[r].chat = chat /\ d.msgs[r].id \in ids
                     THEN [d.msgs[r] EXCEPT !.read = Later(d.msgs[r].read, at)] ELSE d.msgs[r]
<1>1. /\ DOMAIN e = DOMAIN d /\ e.contacts = d.contacts /\ e.chats = d.chats /\ e.lids = d.lids
      /\ e.msgs = [r \in DOMAIN d.msgs |-> row(r)]
  BY DEF MarkRead, Called
<1> HIDE DEF e
<1>2. \A r \in DOMAIN d.msgs : "sender" \in DOMAIN row(r) /\ row(r).sender = d.msgs[r].sender
  BY DEF Called
<1> HIDE DEF row
<1>3. DOMAIN e.msgs = DOMAIN d.msgs /\ \A r \in DOMAIN d.msgs : e.msgs[r] = row(r)
  BY <1>1
<1>4. Called(e)
  BY <1>1, <1>2, <1>3 DEF Called
<1> QED BY <1>1, <1>4, SameNames DEF e

(* Every transaction keeps people's names.                                 *)
LEMMA CommitCalled ==
  ASSUME NEW d, Called(d), NEW t, TaskNames(t), t.do \in Writes, NEW known \in SUBSET Nat
  PROVE  LET e == Commit(d, t, known) IN Called(e) /\ KeepsNames(d, e)
<1> DEFINE e == Commit(d, t, known)
<1>0. DOMAIN d = {"chats", "msgs", "contacts", "lids", "calls"}
  BY DEF Called
<1>1. CASE t.do = "chat"
  <2> DEFINE old == IF t.jid \in DOMAIN d.chats THEN d.chats[t.jid]
                    ELSE [name |-> NoName, group |-> t.group, last |-> 0]
             new == [name |-> FirstNamed(<<t.name, old.name>>), group |-> t.group, last |-> Later(old.last, t.ts)]
  <2>1. /\ DOMAIN e = DOMAIN d /\ e.contacts = d.contacts /\ e.msgs = d.msgs /\ e.lids = d.lids
        /\ e.chats = Put(d.chats, t.jid, new)
    BY <1>0, <1>1 DEF Commit, UpsertChat
  <2>2. old.name \in Names /\ t.name \in Names
    <3>1. NoName \in Names
      BY DEF Names, NoName
    <3>2. t.name \in Names
      BY <1>1 DEF TaskNames
    <3>3. CASE t.jid \in DOMAIN d.chats
      <4>1. old = d.chats[t.jid] /\ d.chats[t.jid].name \in Names
        BY <3>3 DEF Called
      <4> QED BY <4>1, <3>2
    <3>4. CASE t.jid \notin DOMAIN d.chats
      <4>1. old.name = NoName
        BY <3>4
      <4> QED BY <4>1, <3>1, <3>2
    <3> QED BY <3>3, <3>4
  <2>3. "name" \in DOMAIN new /\ new.name = FirstNamed(<<t.name, old.name>>)
    OBVIOUS
  <2> HIDE DEF old, new, e
  <2>4. "name" \in DOMAIN new /\ new.name \in Names
    BY <2>2, <2>3, FirstOfTwo
  <2>5. \A c \in DOMAIN e.chats : "name" \in DOMAIN e.chats[c] /\ e.chats[c].name \in Names
    BY <2>1, <2>4, PutRow DEF Called
  <2>6. Called(e)
    BY <2>1, <2>5 DEF Called
  <2> QED BY <2>1, <2>6, SameNames DEF e
<1>2. CASE t.do = "row"
  <2> DEFINE m == t.m
             hit == RowAt(d, m.chat, m.id)
             r == IF hit = {} THEN NextRowID(d) ELSE OneOf(hit)
             at == IF hit = {} THEN 0 ELSE d.msgs[r].read
             new == Put(m, "read", at)
             chats == IF m.chat \notin DOMAIN d.chats THEN d.chats
                      ELSE [d.chats EXCEPT ![m.chat].last = Later(d.chats[m.chat].last, m.ts)]
  <2>1. /\ DOMAIN e = DOMAIN d /\ e.contacts = d.contacts /\ e.lids = d.lids
        /\ e.msgs = Put(d.msgs, r, new) /\ e.chats = chats
    BY <1>0, <1>2 DEF Commit, UpsertMessage
  <2>2. "sender" \in DOMAIN new /\ new.sender \in Jids
    BY <1>2 DEF TaskNames, Put
  <2>3. \A c \in DOMAIN chats : c \in DOMAIN d.chats /\ "name" \in DOMAIN chats[c] /\ chats[c].name \in Names
    BY DEF Called
  <2> HIDE DEF new, r, chats, e
  <2>4. \A q \in DOMAIN e.msgs : "sender" \in DOMAIN e.msgs[q] /\ e.msgs[q].sender \in Jids
    BY <2>1, <2>2, PutRow DEF Called
  <2>5. Called(e)
    BY <2>1, <2>3, <2>4 DEF Called
  <2> QED BY <2>1, <2>5, SameNames DEF e
<1>3. CASE t.do = "lid"
  <2>1. /\ DOMAIN e = DOMAIN d /\ e.contacts = d.contacts /\ e.msgs = d.msgs /\ e.chats = d.chats
        /\ e.lids = d.lids \/ e.lids = Put(d.lids, t.lid, t.pn)
    BY <1>0, <1>3 DEF Commit, UpsertLIDMapping
  <2>2. Pairing(t.lid, t.pn)
    BY <1>3 DEF TaskNames
  <2> HIDE DEF e
  <2>3. \A l \in DOMAIN e.lids : Pairing(l, e.lids[l])
    BY <2>1, <2>2, PutRow DEF Called
  <2>4. Called(e)
    BY <2>1, <2>3 DEF Called
  <2> QED BY <2>1, <2>4, SameNames DEF e
<1>4. CASE t.do = "contact"
  <2> DEFINE new == [phone |-> PhoneFromJID(t.jid), push |-> t.push, full |-> t.full, business |-> NoName]
             old == ContactOf(d, t.jid)
             both == MergeContact(new, old)
  <2>1. /\ DOMAIN e = DOMAIN d /\ e.msgs = d.msgs /\ e.chats = d.chats /\ e.lids = d.lids
        /\ e.contacts = Put(d.contacts, t.jid, both)
    BY <1>0, <1>4 DEF Commit, UpsertContact
  <2>2. Labelled(new)
    <3>1. NoName \in Names
      BY DEF Names, NoName
    <3>2. t.push \in Names /\ t.full \in Names
      BY <1>4 DEF TaskNames
    <3> QED BY <3>1, <3>2 DEF Labelled, Labels
  <2>3. Labelled(both) /\ (Bears(old) => Bears(both))
    BY <2>2, ContactLabelled, MergeBears
  <2>4. t.jid # NoJid
    BY <1>4 DEF TaskNames
  <2>5. t.jid \in DOMAIN d.contacts => old = d.contacts[t.jid]
    BY DEF ContactOf
  <2> HIDE DEF new, old, both, e
  <2>6. /\ DOMAIN e.contacts = DOMAIN d.contacts \cup {t.jid}
        /\ \A j \in DOMAIN e.contacts : e.contacts[j] = IF j = t.jid THEN both ELSE d.contacts[j]
    BY <2>1 DEF Put
  <2>7. Called(e)
    BY <2>1, <2>3, <2>4, <2>6 DEF Called
  <2>8. \A j \in DOMAIN d.contacts : Bears(d.contacts[j]) => j \in DOMAIN e.contacts /\ Bears(e.contacts[j])
    BY <2>3, <2>5, <2>6
  <2> QED BY <2>7, <2>8 DEF KeepsNames, e
<1>5. CASE t.do = "read"
  <2>1. e = MarkRead(d, t.jid, t.ids, t.at)
    BY <1>5 DEF Commit
  <2> QED BY <2>1, MarkReadCalled
<1>6. CASE t.do = "call"
  <2>1. /\ DOMAIN e = DOMAIN d /\ e.contacts = d.contacts /\ e.msgs = d.msgs /\ e.chats = d.chats /\ e.lids = d.lids
    BY <1>0, <1>6 DEF Commit, InsertCall
  <2> HIDE DEF e
  <2>2. Called(e)
    BY <2>1 DEF Called
  <2> QED BY <2>1, <2>2, SameNames DEF e
<1>7. CASE t.do = "fold"
  <2>1. e = FoldLIDs(d, known)
    BY <1>7 DEF Commit
  <2>2. \A j : PhoneJID(j, known).u = j.u
    BY DEF PhoneJID, Pn, Jid
  <2> HIDE DEF e
  <2>3. Called(e) /\ KeepsNames(d, e)
    BY <2>1, <2>2, FoldCalled DEF KeepsNames
  <2> QED BY <2>3 DEF e
<1>8. CASE t.do = "prune"
  <2> DEFINE kept  == {r \in DOMAIN d.msgs : ~Stub(d.msgs[r])}
             empty == {c \in DOMAIN d.chats : /\ c.s = "lid" /\ ~d.chats[c].group
                                               /\ \A r \in kept : d.msgs[r].chat # c}
  <2>1. /\ DOMAIN e = DOMAIN d /\ e.contacts = d.contacts /\ e.lids = d.lids
        /\ e.msgs = [r \in kept |-> d.msgs[r]] /\ e.chats = [c \in DOMAIN d.chats \ empty |-> d.chats[c]]
    BY <1>0, <1>8 DEF Commit, PruneStubMessages, Restrict
  <2>2. kept \subseteq DOMAIN d.msgs
    OBVIOUS
  <2> HIDE DEF e, kept, empty
  <2>3. /\ DOMAIN e.msgs = kept /\ \A r \in kept : e.msgs[r] = d.msgs[r]
        /\ DOMAIN e.chats = DOMAIN d.chats \ empty /\ \A c \in DOMAIN e.chats : e.chats[c] = d.chats[c]
    BY <2>1
  <2>4. Called(e)
    BY <2>1, <2>2, <2>3 DEF Called
  <2> QED BY <2>1, <2>4, SameNames DEF e
<1> QED BY <1>1, <1>2, <1>3, <1>4, <1>5, <1>6, <1>7, <1>8 DEF Writes

(* The store's names, and the users the program can pair.                  *)
INamed == Called(db) /\ device \subseteq Nat /\ cache \subseteq Nat

LEMMA NamedInit == ClientsInit => INamed
<1> SUFFICES ASSUME ClientsInit PROVE INamed
  OBVIOUS
<1>1. db = EmptyDB /\ device = {} /\ cache = {}
  BY DEF ClientsInit, ReadInit, SendInit, Init
<1>2. Called(EmptyDB)
  BY DEF Called, EmptyDB
<1> QED BY <1>1, <1>2 DEF INamed

LEMMA KnownStep ==
  ASSUME ISay, INamed, [ClientsNext]_clientVars
  PROVE  device' \subseteq Nat /\ cache' \subseteq Nat
<1>0. device \subseteq Nat /\ cache \subseteq Nat
  BY DEF INamed
<1>1. CASE Decode
  <2> DEFINE w == Head(todo).w
  <2>1. todo # <<>> /\ Reads(Head(todo)) /\ device' = device /\ cache' = cache \cup RememberLID(w)
    BY <1>1 DEF Decode
  <2>2. PICK mine : TasksSay(todo, mine)
    BY DEF ISay, SayInv
  <2>3. WireNames(w)
    BY <2>1, <2>2, TailSays DEF Reads, TaskSays, TaskNames
  <2> HIDE DEF w
  <2>4. RememberLID(w) \subseteq Nat
    BY <2>3 DEF RememberLID, WireNames, Pairing
  <2> QED BY <1>0, <2>1, <2>4
<1>2. CASE \E u \in Users : LearnPairing(u)
  BY <1>0, <1>2, EventsAssumption DEF LearnPairing
<1>3. CASE Stop
  BY <1>0, <1>3 DEF Stop
<1>4. CASE UNCHANGED <<device, cache>>
  BY <1>0, <1>4
<1>5. Decode \/ (\E u \in Users : LearnPairing(u)) \/ Stop \/ UNCHANGED <<device, cache>>
  <2>1. CASE Sending
    BY <2>1 DEF Sending, Submit, MarkReadCall, Deliver, DeliverRead, Record, MarkLocally, ingestVars
  <2>2. CASE BridgeStep
    BY <2>2 DEF BridgeStep, Ingesting, Handling, Take, PassOver, OpenConversation, Write, ingestVars
  <2>3. CASE Polling \/ (\E sc \in Scopes : EditScope(sc)) \/ FetchOlder \/ Clicking \/ Browsing
    BY <2>3 DEF Polling, EditScope, FetchOlder, Clicking, Browsing, ingestVars
  <2>4. CASE UNCHANGED clientVars
    BY <2>4 DEF clientVars, allVars, ingestVars
  <2> QED BY <2>1, <2>2, <2>3, <2>4 DEF ClientsNext, ReadNext
<1> QED BY <1>1, <1>2, <1>3, <1>4, <1>5

LEMMA NamedStep ==
  ASSUME ISay, INamed, [ClientsNext]_clientVars
  PROVE  INamed' /\ KeepsNames(db, db')
<1>0. Called(db) /\ Known \in SUBSET Nat
  BY DEF INamed, Known
<1>1. PICK mine : SayInv(mine)
  BY DEF ISay
<1>2. Called(db)' /\ KeepsNames(db, db')
  <2>1. CASE Write
    <3>1. /\ todo # <<>> /\ Head(todo).do \notin {"message", "old", "conversation"}
          /\ db' = Commit(db, Head(todo), Known)
      BY <2>1 DEF Write
    <3>2. TaskNames(Head(todo)) /\ Head(todo).do \in Writes
      BY <1>1, <3>1, TailSays DEF SayInv, TaskSays
    <3> QED BY <1>0, <3>1, <3>2, CommitCalled
  <2>2. CASE Record
    <3>1. outbox # <<>> /\ db' = Commit(db, Head(outbox), Known)
      BY <2>2 DEF Record
    <3>2. TaskSays(Head(outbox), mine)
      BY <1>1, <3>1, TailSays DEF SayInv
    <3>3. Head(outbox).do \in Writes
      <4>1. PICK S : outbox \in Seq(S)
        BY <1>1 DEF SayInv, TasksSay, IsSeq
      <4>2. Len(outbox) \in Nat /\ Len(outbox) > 0 /\ Head(outbox) = outbox[1]
        BY <3>1, <4>1
      <4> QED BY <1>1, <4>2 DEF SayInv
    <3> QED BY <1>0, <3>1, <3>2, <3>3, CommitCalled DEF TaskSays
  <2>3. CASE MarkLocally
    <3>1. db' = MarkRead(db, call.to, Head(call.groups).ids, ToolMark)
      BY <2>3 DEF MarkLocally
    <3> QED BY <1>0, <3>1, MarkReadCalled
  <2>4. CASE UNCHANGED db
    BY <1>0, <2>4, SameNames
  <2> QED BY <2>1, <2>2, <2>3, <2>4, OnlyWriters
<1> QED BY <1>2, KnownStep DEF INamed

LEMMA NamedStays ==
  ASSUME NEW d, NEW e, Called(d), Called(e), KeepsNames(d, e), NEW u, Named(d, u)
  PROVE  Named(e, u)
<1>1. PICK j \in DOMAIN d.contacts : j.u = u /\ IsName(ContactName(d, j))
  BY DEF Named
<1>2. Bears(d.contacts[j])
  BY <1>1, ContactNames DEF IsName
<1>3. PICK k \in DOMAIN e.contacts : k.u = u /\ Bears(e.contacts[k])
  BY <1>1, <1>2 DEF KeepsNames
<1>4. IsName(ContactName(e, k))
  BY <1>3, ContactNames DEF IsName
<1> QED BY <1>3, <1>4 DEF Named

(* A fold takes no name off what it leaves behind.                         *)
LEMMA FoldNames ==
  ASSUME INamed, Folding
  PROVE  /\ \A r \in DOMAIN db.msgs \cap DOMAIN db'.msgs :
              IsName(SenderName(db, r)) => IsName(SenderName(db', r))
         /\ \A c \in DOMAIN db.chats \cap DOMAIN db'.chats :
              IsName(ChatName(db, c)) => IsName(ChatName(db', c))
<1> DEFINE d == db
           e == FoldLIDs(db, Known)
<1>1. Called(d) /\ Known \in SUBSET Nat /\ db' = e
  BY DEF INamed, Known, Folding, Write, Commit
<1>2. /\ Called(e)
      /\ \A r \in DOMAIN e.msgs : r \in DOMAIN d.msgs /\ e.msgs[r].sender = PhoneJID(d.msgs[r].sender, Known)
      /\ \A c \in DOMAIN e.chats :
           /\ PhoneJID(c, Known) = c
           /\ c \in DOMAIN d.chats /\ d.chats[c].name # NoName => e.chats[c].name = d.chats[c].name
  BY <1>1, FoldCalled
<1>3. \A j \in Jids : ~IsName(Spelled(j))
  <2> SUFFICES ASSUME NEW j \in Jids PROVE ~IsName(Spelled(j))
    OBVIOUS
  <2>1. j.u \in Nat
    BY DEF Jids
  <2>2. Spelled(j) = NoName \/ Spelled(j) = 1000 + j.u
    BY DEF Spelled
  <2> QED BY <2>1, <2>2, NoNumberIsName DEF IsName
<1>4. ASSUME NEW r \in DOMAIN d.msgs \cap DOMAIN e.msgs, IsName(SenderName(d, r))
      PROVE  IsName(SenderName(e, r))
  <2> DEFINE s == d.msgs[r].sender
             t == e.msgs[r].sender
  <2>1. ~IsName(Spelled(s)) /\ ~IsName(Spelled(t))
    BY <1>1, <1>2, <1>3 DEF Called
  <2>2. t = PhoneJID(s, Known)
    BY <1>2
  <2>3. IsName(ContactNameCase(d, s, Spelled(s)))
    BY <1>4 DEF SenderName
  <2>4. IsName(ContactNameCase(FoldLIDs(d, Known), PhoneJID(s, Known), Spelled(t)))
    BY <1>1, <2>1, <2>3, CaseKept
  <2> QED BY <2>2, <2>4 DEF SenderName
<1>5. ASSUME NEW c \in DOMAIN d.chats \cap DOMAIN e.chats, IsName(ChatName(d, c))
      PROVE  IsName(ChatName(e, c))
  <2> DEFINE own == d.chats[c].name
             after == e.chats[c].name
             met == ContactNameCase(d, c, NoName)
             shown == ContactNameCase(e, c, NoName)
  <2>1. ChatName(d, c) = (IF own # NoName THEN own ELSE met) /\ ChatName(e, c) = (IF after # NoName THEN after ELSE shown)
    BY FirstOfTwo DEF ChatName
  <2>2. own \in Names /\ after \in Names /\ (own # NoName => after = own)
    BY <1>1, <1>2 DEF Called
  <2>3. ~IsName(NoName)
    BY DEF IsName
  <2>4. IsName(met) => IsName(shown)
    <3>1. PhoneJID(c, Known) = c
      BY <1>2
    <3> QED BY <1>1, <2>3, <3>1, CaseKept
  <2> HIDE DEF own, after, met, shown, e
  <2>5. \A n \in Names : n # NoName => IsName(n)
    BY DEF IsName
  <2> QED BY <1>5, <2>1, <2>2, <2>4, <2>5
<1> QED BY <1>1, <1>4, <1>5

(* internal/store fold.go, mentions.go and ingest.go under internal/bridge  *)
(* events.go: no redelivery, fold, prune, send or stop leaves a person      *)
(* without a name who had one, and a fold leaves every message and chat it  *)
(* keeps shown with a name that was shown with one before.                 *)
THEOREM NamesStay == ClientsSpec => PeopleKeepTheirNames
<1>1. ISay /\ INamed /\ [ClientsNext]_clientVars => INamed'
  BY NamedStep
<1>2. ISay /\ INamed /\ [ClientsNext]_clientVars =>
        [/\ \A u \in Users : Named(db, u) => Named(db', u)
         /\ Folding => /\ \A r \in DOMAIN db.msgs \cap DOMAIN db'.msgs :
                            IsName(SenderName(db, r)) => IsName(SenderName(db', r))
                       /\ \A c \in DOMAIN db.chats \cap DOMAIN db'.chats :
                            IsName(ChatName(db, c)) => IsName(ChatName(db', c))]_ingestVars
  <2> SUFFICES ASSUME ISay, INamed, [ClientsNext]_clientVars
               PROVE  /\ \A u \in Users : Named(db, u) => Named(db', u)
                      /\ Folding => /\ \A r \in DOMAIN db.msgs \cap DOMAIN db'.msgs :
                                         IsName(SenderName(db, r)) => IsName(SenderName(db', r))
                                    /\ \A c \in DOMAIN db.chats \cap DOMAIN db'.chats :
                                         IsName(ChatName(db, c)) => IsName(ChatName(db', c))
    OBVIOUS
  <2>1. Called(db) /\ Called(db') /\ KeepsNames(db, db')
    BY NamedStep DEF INamed
  <2> QED BY <2>1, NamedStays, FoldNames
<1> QED BY <1>1, <1>2, NamedInit, SayAlways, PTL DEF ClientsSpec, PeopleKeepTheirNames
=============================================================================
