------------------------------- MODULE Ingest -------------------------------
(***************************************************************************)
(* The bridge's ingestion (internal/bridge events.go, lid.go) writing to   *)
(* the message store.  One event is handled at a time, as a sequence of    *)
(* store transactions, and a reader may look between any two of them; a    *)
(* stop of the process forgets what the event had left to write, and the   *)
(* next start tidies the store before it connects.                         *)
(*                                                                         *)
(* A person's privacy LID and phone number are Lid(u) and Pn(u).  Which    *)
(* users the program can pair is `Known`: the pairings the session store   *)
(* has, which whatsmeow fills at its own times, and those the messages of  *)
(* this process carried.  phoneJID also caches what the session store      *)
(* answers; nothing can see that, as the session store only learns.        *)
(***************************************************************************)
EXTENDS Store

CONSTANTS
  Events,     \* what WhatsApp may deliver, any of it more than once
  Users,      \* the users whose pairing the session store may learn
  MaxEvents,  \* bound: events taken
  MaxStops    \* bound: stops of the process

\* A message as whatsmeow hands it over, and a conversation of a history sync.
Wires == [id : Nat, chat : Jids, sender : Jids, senderAlt : Jids, recipientAlt : Jids, ts : Nat, push : Nat,
          body : STRING, wrap : Nat, text : Texts, group : BOOLEAN, me : BOOLEAN]
Conversations == [jid : Jids, ts : Nat, name : Nat, msgs : Seq(Wires)]
EventTypes == {"message", "history", "receipt", "call", "contact", "pushname", "group"}

\* Two events that carry one message carry it with the same address.
ASSUME EventsAssumption ==
  /\ MaxEvents \in Nat /\ MaxStops \in Nat /\ Users \subseteq Nat
  /\ \A e \in Events : /\ e.type \in EventTypes
                       /\ e.type = "message" => e.w \in Wires
                       /\ e.type = "history" => e.convs \in Seq(Conversations)
                       /\ e.type = "receipt" => e.at \in Nat
                       /\ e.type = "group"   => e.ts \in Nat
                       /\ e.type = "call"    => e.id \in Nat /\ e.ts \in Nat
  /\ \A e, f \in {g \in Events : g.type = "message"} : (e = f) = (e.w = f.w)
  /\ \A e \in {g \in Events : g.type = "history"} : \A i \in DOMAIN e.convs :
       /\ \A k \in DOMAIN e.convs : e.convs[i] = e.convs[k] => i = k
       /\ \A n \in DOMAIN e.convs[i].msgs : [type |-> "message", w |-> e.convs[i].msgs[n]] \in Events

\* A name is somebody's, and the alternate address of a person that person's.
SameUser(a, b) == {a.s, b.s} \subseteq {"lid", "pn"} => a.u = b.u

ASSUME NamesAssumption ==
  \A e \in Events :
    /\ e.type = "message"  => /\ e.w.push \in Names /\ e.w.sender # NoJid
                              /\ SameUser(e.w.sender, e.w.senderAlt) /\ SameUser(e.w.chat, e.w.recipientAlt)
    /\ e.type = "history"  => \A i \in DOMAIN e.convs :
                                /\ e.convs[i].name \in Names
                                /\ \A n \in DOMAIN e.convs[i].msgs :
                                     SameUser(e.convs[i].jid, e.convs[i].msgs[n].recipientAlt)
    /\ e.type = "contact"  => e.full \in Names /\ e.jid \in Jids \ {NoJid}
    /\ e.type = "pushname" => e.push \in Names /\ e.jid \in Jids \ {NoJid}
    /\ e.type = "group"    => e.name \in Names

VARIABLES
  db,       \* the message store
  device,   \* users whose pairing is in the session store
  cache,    \* users whose pairing this process learned from messages
  todo,     \* what is left to write for the event being handled
  taken,    \* events taken so far
  stops     \* stops so far

ingestVars == <<db, device, cache, todo, taken, stops>>

----------------------------------------------------------------------------
(* Decoding. *)

MediaBodies == {"image", "video", "voice", "audio", "document", "sticker", "video_note"}
WordsBodies == {"text", "image", "video", "voice", "audio", "document", "reaction", "contact",
                "location", "poll", "group_invite", "video_note", "event"}

\* The kind of row a message body makes.
Kind(body) == CASE body \in WordsBodies \cup {"sticker", "poll_update", "album"} -> body
                [] body = "protocol" -> "system"
                [] body = "secret"   -> "view_once"
                [] body = "empty"    -> "other"
                [] OTHER             -> "other:" \o body

\* Envelopes are peeled four deep; what is left of a deeper one is no content.
Unwrap(w) == IF w.wrap <= 4 THEN w.body ELSE "envelope"

\* phoneFromJID, which drops the device suffix with the rest of the JID
PhoneFromJID(jid) == IF jid.s = "pn" THEN jid.u ELSE 0

DecodeMessage(w, known) ==
  LET body == Unwrap(w)
  IN  [chat |-> PhoneJID(w.chat, known), sender |-> PhoneJID(w.sender, known),
       id |-> w.id, me |-> w.me, ts |-> w.ts, kind |-> Kind(body),
       text |-> IF body \in WordsBodies THEN w.text ELSE NoText,
       media |-> body \in MediaBodies]

\* A direct chat is named after the sender, never after this account.
ChatNameOf(w) == IF w.group \/ w.me THEN NoName ELSE w.push

\* <<LID, phone>> for the pairing the sender's two addresses carry, as it
\* was written and without the device; <<>> when they carry none.
LIDPairing(w) ==
  IF w.sender.s = "lid" /\ w.senderAlt.s = "pn" THEN <<w.sender, BareLID(w.sender), BareLID(w.senderAlt)>>
  ELSE IF w.sender.s = "pn" /\ w.senderAlt.s = "lid"
       THEN <<BareLID(w.senderAlt), BareLID(w.senderAlt), BareLID(w.sender)>>
       ELSE <<>>

\* <<LID, phone>> for a direct chat's two addresses.
ChatPairing(w) ==
  IF w.group THEN <<>>
  ELSE IF w.chat.s = "lid" /\ w.recipientAlt.s = "pn" THEN <<BareLID(w.chat), BareLID(w.recipientAlt)>>
  ELSE IF w.chat.s = "pn" /\ w.recipientAlt.s = "lid" THEN <<BareLID(w.recipientAlt), BareLID(w.chat)>>
  ELSE <<>>

\* The pairings a message teaches (rememberLID).
RememberLID(w) == {p[1].u : p \in {LIDPairing(w), ChatPairing(w)} \ {<<>>}}

CallStatus(reason) == CASE reason = "offer"   -> "ringing"
                        [] reason = "accept"  -> "answered"
                        [] reason = "timeout" -> "missed"
                        [] reason \in {"reject", "decline", "busy"} -> "rejected"
                        [] OTHER -> "unknown"

----------------------------------------------------------------------------
(* What an event writes: a sequence of tasks. *)

WriteChat(jid, name, group, ts) == [do |-> "chat", jid |-> jid, name |-> name, group |-> group, ts |-> ts]
WriteLID(lid, pn) == [do |-> "lid", lid |-> lid, pn |-> pn]
WriteName(jid, push, full) == [do |-> "contact", jid |-> jid, push |-> push, full |-> full]
If(c, tasks) == IF c THEN tasks ELSE <<>>

\* Mutant of IngestMessage: the message is written before its chat.
IngestRowFirst(w, known) ==
  LET m == DecodeMessage(w, known)
  IN  <<[do |-> "row", m |-> m], WriteChat(m.chat, ChatNameOf(w), w.group, w.ts)>>

IngestMessage(w, known) ==
  LET m   == DecodeMessage(w, known)
      lp  == LIDPairing(w)
      cp  == ChatPairing(w)
      own == w.me \/ w.push = NoName
  IN  If(lp # <<>>, <<WriteLID(lp[1], lp[3])>>)
      \o If(lp # <<>> /\ lp[1] # lp[2], <<WriteLID(lp[2], lp[3])>>)
      \o If(cp # <<>>, <<WriteLID(cp[1], cp[2])>>)
      \o <<WriteChat(m.chat, ChatNameOf(w), w.group, w.ts), [do |-> "row", m |-> m]>>
      \o If(~own, <<WriteName(m.sender, w.push, NoName)>>)
      \o If(~own /\ lp # <<>> /\ lp[3] # m.sender, <<WriteName(lp[3], w.push, NoName)>>)

\* One conversation of a history sync: the chat, then each of its messages,
\* read as a message of the chat's phone number.
IngestConversation(c, known) ==
  LET jid == PhoneJID(c.jid, known)
  IN  <<WriteChat(jid, c.name, jid.s = "g", c.ts)>>
      \o [i \in DOMAIN c.msgs |-> [do |-> "old", w |-> [c.msgs[i] EXCEPT !.chat = jid]]]

IngestHistorySync(e) ==
  [i \in DOMAIN e.convs |-> [do |-> "conversation", c |-> e.convs[i]]] \o <<[do |-> "fold"]>>

\* handleEvent, the events that write to the store.
HandleEvent(e, known) ==
  CASE e.type = "message"  -> <<[do |-> "message", w |-> e.w]>>
    [] e.type = "history"  -> IngestHistorySync(e)
    [] e.type = "receipt"  -> If(e.read, <<[do |-> "read", jid |-> PhoneJID(e.chat, known), ids |-> e.ids, at |-> e.at]>>)
    [] e.type = "call"     -> <<[do |-> "call", id |-> e.id, peer |-> PhoneJID(e.from, known), ts |-> e.ts,
                                 status |-> CallStatus(e.reason)]>>
    [] e.type = "contact"  -> If(e.full # NoName, <<WriteName(PhoneJID(e.jid, known), NoName, e.full)>>)
    [] e.type = "pushname" -> If(e.push # NoName, <<WriteName(PhoneJID(e.jid, known), e.push, NoName)>>)
    [] e.type = "group"    -> If(e.name # NoName, <<WriteChat(e.jid, e.name, TRUE, e.ts)>>)

Commit(d, t, known) ==
  CASE t.do = "chat"    -> UpsertChat(d, t.jid, t.name, t.group, t.ts)
    [] t.do = "row"     -> UpsertMessage(d, t.m)
    [] t.do = "lid"     -> UpsertLIDMapping(d, t.lid, t.pn)
    [] t.do = "contact" -> UpsertContact(d, t.jid, PhoneFromJID(t.jid), t.push, t.full, NoName)
    [] t.do = "read"    -> MarkRead(d, t.jid, t.ids, t.at)
    [] t.do = "call"    -> InsertCall(d, t.id, t.peer, t.ts, t.status)
    [] t.do = "fold"    -> FoldLIDs(d, known)
    [] t.do = "prune"   -> PruneStubMessages(d)

----------------------------------------------------------------------------
(* Actions. *)

Known == device \cup cache

\* tidyStore: the start of the server prunes and folds before it connects.
TidyStore == <<[do |-> "prune"], [do |-> "fold"]>>

Init == /\ db = EmptyDB /\ device = {} /\ cache = {} /\ todo = TidyStore
        /\ taken = 0 /\ stops = 0

\* The next event is taken when the one before it is written.
Take(e) == /\ todo = <<>> /\ taken < MaxEvents
           /\ todo' = HandleEvent(e, Known)
           /\ taken' = taken + 1
           /\ UNCHANGED <<db, device, cache, stops>>

\* A message that arrives is read as it is, one of a history sync only when
\* it has a payload.
Reads(t) == t.do = "message" \/ (t.do = "old" /\ t.w.body # "empty")
Skips(t) == t.do = "old" /\ t.w.body = "empty"

PassOver == /\ todo # <<>> /\ Skips(Head(todo))
            /\ todo' = Tail(todo)
            /\ UNCHANGED <<db, device, cache, taken, stops>>

\* A message learns its pairings before anything of it is resolved.
Decode == /\ todo # <<>> /\ Reads(Head(todo))
          /\ cache' = cache \cup RememberLID(Head(todo).w)
          /\ todo' = IngestMessage(Head(todo).w, device \cup cache') \o Tail(todo)
          /\ UNCHANGED <<db, device, taken, stops>>

OpenConversation == /\ todo # <<>> /\ Head(todo).do = "conversation"
                    /\ todo' = IngestConversation(Head(todo).c, Known) \o Tail(todo)
                    /\ UNCHANGED <<db, device, cache, taken, stops>>

Write == /\ todo # <<>> /\ Head(todo).do \notin {"message", "old", "conversation"}
         /\ db' = Commit(db, Head(todo), Known)
         /\ todo' = Tail(todo)
         /\ UNCHANGED <<device, cache, taken, stops>>

Stop == /\ stops < MaxStops
        /\ stops' = stops + 1 /\ todo' = TidyStore /\ cache' = {}
        /\ UNCHANGED <<db, device, taken>>

\* whatsmeow's session store learns a pairing (history and contact sync).
LearnPairing(u) == /\ u \notin device
                   /\ device' = device \cup {u}
                   /\ UNCHANGED <<db, cache, todo, taken, stops>>

Handling  == Decode \/ PassOver \/ OpenConversation \/ Write
Ingesting == Handling \/ Stop \/ (\E e \in Events : Take(e)) \/ (\E u \in Users : LearnPairing(u))

Spec == Init /\ [][Ingesting]_ingestVars

----------------------------------------------------------------------------
(* Properties. *)

\* A message is one row, in a chat that is listed, and the chat is at least as
\* recent as it, so a list of chats by recency cannot hide a newer message:
\* through redeliveries, folds of one chat into another, pruning and stops.
ChatCoversItsMessages ==
  \A r \in DOMAIN db.msgs :
    LET m == db.msgs[r] IN
      /\ m.chat \in DOMAIN db.chats /\ db.chats[m.chat].last >= m.ts
      /\ \A q \in DOMAIN db.msgs \ {r} : db.msgs[q].chat = m.chat => db.msgs[q].id # m.id

Folding == todo # <<>> /\ Head(todo).do = "fold" /\ Write

Identities(d) == DOMAIN d.chats \cup DOMAIN d.contacts \cup {d.calls[c].peer : c \in DOMAIN d.calls}
                 \cup UNION {{d.msgs[r].chat, d.msgs[r].sender} : r \in DOMAIN d.msgs}

\* A fold leaves no identity of a person it can name under a LID, nor anything
\* a second fold would move ("one transaction and is idempotent"), though its
\* parts feed each other: the rows it moves have senders of their own.
FoldSettles == [][Folding => /\ Foldable(Identities(db'), Known) = {}
                             /\ FoldLIDs(db', Known) = db']_ingestVars

SamePlace(a, b) == a = b \/ (a.u = b.u /\ {a.s, b.s} = {"lid", "pn"})

\* What has one id was sent in one chat, whose address names no device, and
\* a conversation's messages are its own: a hypothesis of some theorems.
OneChatPerID ==
  /\ \A e \in {g \in Events : g.type = "message"} : e.w.chat.d = 0
  /\ \A e, f \in {g \in Events : g.type = "message"} : e.w.id = f.w.id => SamePlace(e.w.chat, f.w.chat)
  /\ \A e \in {g \in Events : g.type = "history"} : \A i \in DOMAIN e.convs :
       /\ e.convs[i].jid.d = 0
       /\ \A n \in DOMAIN e.convs[i].msgs : SamePlace(e.convs[i].jid, e.convs[i].msgs[n].chat)

\* Once a message that says something is stored, it stays stored, in the chat
\* it was sent in or that chat's phone number, whatever is redelivered,
\* folded, pruned or cut short; and where its row stays, so does its read
\* mark.
NothingIsForgotten ==
  [][\A r \in DOMAIN db.msgs : ~Stub(db.msgs[r]) =>
       \E q \in DOMAIN db'.msgs : /\ db'.msgs[q].id = db.msgs[r].id /\ ~Stub(db'.msgs[q])
                                  /\ SamePlace(db'.msgs[q].chat, db.msgs[r].chat)
                                  /\ q = r => db'.msgs[q].read >= db.msgs[r].read]_ingestVars

Named(d, u) == \E j \in DOMAIN d.contacts : j.u = u /\ IsName(ContactName(d, j))

\* A person once known by a name stays known by one, and a fold takes no name
\* off a message or a chat it leaves behind.
PeopleKeepTheirNames ==
  [][/\ \A u \in Users : Named(db, u) => Named(db', u)
     /\ Folding => /\ \A r \in DOMAIN db.msgs \cap DOMAIN db'.msgs :
                        IsName(SenderName(db, r)) => IsName(SenderName(db', r))
                   /\ \A c \in DOMAIN db.chats \cap DOMAIN db'.chats :
                        IsName(ChatName(db, c)) => IsName(ChatName(db', c))]_ingestVars
=============================================================================
