------------------------------- MODULE Store -------------------------------
(***************************************************************************)
(* The message store (internal/store) as operators on a database value.    *)
(* A write is an operator from a database to the database its transaction  *)
(* commits; a read is an operator from a database to the rows it answers.  *)
(* The components that own a database keep it in a variable of theirs.     *)
(*                                                                         *)
(*   db.chats    jid   -> [name, group, last]                              *)
(*   db.msgs     rowid -> [chat, id, sender, me, ts, kind, text, media,    *)
(*                         read]; (chat, id) is the primary key            *)
(*   db.contacts jid   -> [phone, push, full, business]                    *)
(*   db.lids     jid   -> jid, a privacy LID and the phone number it names *)
(*   db.calls    id    -> [peer, ts, status]                               *)
(*                                                                         *)
(* A JID keeps what the code looks at: the user, the server and the device *)
(* suffix.  Names are numbers, NoName the empty one.  A text is the set of *)
(* its words and the set of the JIDs it mentions.                          *)
(***************************************************************************)
EXTENDS Integers, Sequences, FiniteSets, SequencesExt

CONSTANTS
  DefaultLimit,  \* rows of a page when the caller names no limit
  MaxLimit       \* rows a page never exceeds

ASSUME StoreAssumption ==
  DefaultLimit \in Nat \ {0} /\ MaxLimit \in Nat /\ DefaultLimit <= MaxLimit

NoName == 0
NoText == [words |-> {}, at |-> {}]

Jids == [u : Nat, s : {"none", "pn", "lid", "g"}, d : Nat]
Names == 0 .. 999
Texts == [words : SUBSET Nat, at : SUBSET Jids]

Jid(user, server, device) == [u |-> user, s |-> server, d |-> device]
NoJid  == Jid(0, "none", 0)
Pn(u)  == Jid(u, "pn", 0)
Lid(u) == Jid(u, "lid", 0)

Later(a, b)  == IF a >= b THEN a ELSE b
OneOf(S)     == CHOOSE x \in S : TRUE

\* The members of S in an order that Before never contradicts; one of them
\* where it leaves several.
InOrder(S, Before(_, _)) ==
  CHOOSE s \in [1 .. Cardinality(S) -> S] :
    \A j \in DOMAIN s : \A i \in 1 .. j - 1 : s[i] # s[j] /\ ~Before(s[j], s[i])

\* What of s passes the test, in the order it has there.
Where(s, Test(_)) ==
  LET at == InOrder({i \in DOMAIN s : Test(s[i])}, LAMBDA i, j : i < j)
  IN  [n \in DOMAIN at |-> s[at[n]]]

Put(f, k, v) == [x \in DOMAIN f \cup {k} |-> IF x = k THEN v ELSE f[x]]
FirstNamed(names) == LET named == {i \in DOMAIN names : names[i] # NoName}
                     IN  IF named = {} THEN NoName ELSE names[Min(named)]

EmptyDB == [chats |-> <<>>, msgs |-> <<>>, contacts |-> <<>>,
            lids |-> <<>>, calls |-> <<>>]

----------------------------------------------------------------------------
(* Writes: each is one transaction. *)

UpsertChat(db, jid, name, group, last) ==
  LET old == IF jid \in DOMAIN db.chats THEN db.chats[jid]
             ELSE [name |-> NoName, group |-> group, last |-> 0]
  IN  [db EXCEPT !.chats = Put(@, jid, [name  |-> FirstNamed(<<name, old.name>>),
                                        group |-> group,
                                        last  |-> Later(old.last, last)])]

RowsOf(db, chat)   == {r \in DOMAIN db.msgs : db.msgs[r].chat = chat}
RowAt(db, chat, id) == {r \in RowsOf(db, chat) : db.msgs[r].id = id}

\* SQLite's rowid for an insert into a table without AUTOINCREMENT: one more
\* than the largest in use, so the largest is used again once it is deleted.
NextRowID(db) == 1 + Max({0} \cup DOMAIN db.msgs)

UpsertMessage(db, m) ==
  LET hit == RowAt(db, m.chat, m.id)
      r   == IF hit = {} THEN NextRowID(db) ELSE OneOf(hit)
      at  == IF hit = {} THEN 0 ELSE db.msgs[r].read
  IN  [db EXCEPT !.msgs = Put(@, r, Put(m, "read", at)),
                 !.chats = IF m.chat \notin DOMAIN @ THEN @
                           ELSE [@ EXCEPT ![m.chat].last = Later(db.chats[m.chat].last, m.ts)]]

\* The contact row over `old`: a name that is given wins over one on file
\* for an upsert, the one on file over the given one for the fold.
MergeContact(new, old) == [f \in DOMAIN new |-> IF new[f] # NoName THEN new[f] ELSE old[f]]
NoContact == [push |-> NoName, full |-> NoName, phone |-> 0, business |-> NoName]
ContactOf(db, jid) == IF jid \in DOMAIN db.contacts THEN db.contacts[jid] ELSE NoContact

UpsertContact(db, jid, phone, push, full, business) ==
  LET new == [phone |-> phone, push |-> push, full |-> full, business |-> business]
  IN  [db EXCEPT !.contacts = Put(@, jid, MergeContact(new, ContactOf(db, jid)))]

UpsertLIDMapping(db, lid, pn) ==
  IF lid = NoJid \/ pn = NoJid THEN db ELSE [db EXCEPT !.lids = Put(@, lid, pn)]

MarkRead(db, chat, ids, at) ==
  [db EXCEPT !.msgs = [r \in DOMAIN @ |->
     IF @[r].chat = chat /\ @[r].id \in ids
     THEN [@[r] EXCEPT !.read = Later(db.msgs[r].read, at)] ELSE @[r]]]

InsertCall(db, id, peer, ts, status) ==
  [db EXCEPT !.calls = Put(@, id, [peer |-> peer, ts |-> ts, status |-> status])]

----------------------------------------------------------------------------
(* Folding: every LID identity that `known` (the users whose phone number   *)
(* can be told) resolves becomes that phone number, in one transaction.     *)
(* The code goes through the LIDs one by one; what it does for one touches  *)
(* nothing another reads but the phone number's own rows.                   *)

BareLID(jid)     == [jid EXCEPT !.d = 0]
PhoneDigits(jid) == IF jid.s = "pn" /\ jid.d = 0 THEN jid.u ELSE 0
Foldable(S, known)   == {j \in S : j.s = "lid" /\ j.u \in known}
PhoneJID(jid, known) == IF jid.s = "lid" /\ jid.u \in known THEN Pn(jid.u) ELSE jid

AnyName(names) == IF names \subseteq {NoName} THEN NoName ELSE OneOf(names \ {NoName})
PairLIDs(lids, S) == [j \in DOMAIN lids \cup S |-> IF j \in S THEN Pn(j.u) ELSE lids[j]]

\* The chat `from` becomes, its own JID among them if it is listed: a name of
\* its own stays, what it lacks comes from the LIDs.
ChatAfterFold(chats, jid, from) ==
  LET own == IF jid \in from THEN chats[jid] ELSE [name |-> NoName, group |-> FALSE]
  IN  [name |-> FirstNamed(<<own.name, AnyName({chats[c].name : c \in from})>>), group |-> own.group,
       last |-> Max({chats[c].last : c \in from})]

\* Mutant of RowsAfterFold: the LID chats' rows are deleted, none is moved.
DropsTheRows(db, lids) == Restrict(db.msgs, {r \in DOMAIN db.msgs : db.msgs[r].chat \notin lids})

\* A row moves unless the phone chat has the message already; then it goes.
RowsAfterFold(db, lids) ==
  LET moves(r) == db.msgs[r].chat \in lids
      to(r)    == IF moves(r) THEN Pn(db.msgs[r].chat.u) ELSE db.msgs[r].chat
      twice(r) == moves(r) /\ \E q \in DOMAIN db.msgs \ {r} :
                    db.msgs[q].id = db.msgs[r].id /\ to(q) = to(r) /\ (moves(q) => q < r)
  IN  [r \in {q \in DOMAIN db.msgs : ~twice(q)} |-> [db.msgs[r] EXCEPT !.chat = to(r)]]

FoldChats(db, known) ==
  LET lids == Foldable(DOMAIN db.chats, known)
      to(c) == PhoneJID(c, known)
  IN  [db EXCEPT !.chats = [jid \in {to(c) : c \in DOMAIN @} |->
                              ChatAfterFold(@, jid, {c \in DOMAIN @ : to(c) = jid})],
                 !.msgs  = RowsAfterFold(db, lids),
                 !.lids  = PairLIDs(@, lids)]

\* Mutant of FoldSenders: the device-qualified form of a LID is not matched.
FoldSendersExact(db, known) ==
  LET to(j) == IF j = BareLID(j) THEN PhoneJID(j, known) ELSE j
  IN  [db EXCEPT !.msgs = [r \in DOMAIN @ |-> [@[r] EXCEPT !.sender = to(db.msgs[r].sender)]]]

FoldSenders(db, known) ==
  LET lids == Foldable({db.msgs[r].sender : r \in DOMAIN db.msgs}, known)
  IN  [db EXCEPT !.msgs = [r \in DOMAIN @ |-> [@[r] EXCEPT !.sender = PhoneJID(db.msgs[r].sender, known)]],
                 !.lids = PairLIDs(@, lids \cup {BareLID(j) : j \in lids})]

\* Mutant of FoldContacts: the LID contacts are removed before they are merged.
FoldContactsLoses(db, known) ==
  [db EXCEPT !.contacts = Restrict(@, DOMAIN @ \ Foldable(DOMAIN @, known))]

FoldContacts(db, known) ==
  LET to(j)   == PhoneJID(j, known)
      lids(k) == {j \in Foldable(DOMAIN db.contacts, known) : to(j) = k}
      filled(k) == MergeContact(ContactOf(db, k),
                     [f \in DOMAIN NoContact |-> IF f = "phone" THEN PhoneDigits(k)
                                                 ELSE AnyName({db.contacts[j][f] : j \in lids(k)})])
  IN  [db EXCEPT !.contacts = [k \in {to(j) : j \in DOMAIN @} |->
                                 IF lids(k) = {} THEN @[k] ELSE filled(k)]]

FoldCalls(db, known) ==
  [db EXCEPT !.calls = [c \in DOMAIN @ |-> [@[c] EXCEPT !.peer = PhoneJID(db.calls[c].peer, known)]]]

FoldLIDs(db, known) ==
  FoldCalls(FoldContacts(FoldSenders(FoldChats(db, known), known), known), known)

\* A row with nothing a reader could use.
Stub(m) == m.kind = "other" /\ m.text = NoText /\ ~m.media

PruneStubMessages(db) ==
  LET kept  == {r \in DOMAIN db.msgs : ~Stub(db.msgs[r])}
      empty == {c \in DOMAIN db.chats : /\ c.s = "lid" /\ ~db.chats[c].group
                                        /\ \A r \in kept : db.msgs[r].chat # c}
  IN  [db EXCEPT !.msgs = Restrict(@, kept), !.chats = Restrict(@, DOMAIN @ \ empty)]

----------------------------------------------------------------------------
(* Names. *)

\* A JID shown in place of a name: a number no name has.
Spelled(jid) == IF jid = NoJid THEN NoName ELSE 1000 + jid.u
IsName(n)    == n \in Names \ {NoName}

ContactName(db, jid) ==
  LET c == ContactOf(db, jid) IN FirstNamed(<<c.full, c.push, c.business>>)
PhoneOfLID(db, jid) == IF jid \in DOMAIN db.lids THEN db.lids[jid] ELSE NoJid

ContactNameCase(db, jid, fallback) ==
  LET pn == PhoneOfLID(db, jid)
  IN  FirstNamed(<<ContactName(db, jid), ContactName(db, pn), Spelled(pn), fallback>>)

SenderName(db, r) == ContactNameCase(db, db.msgs[r].sender, Spelled(db.msgs[r].sender))
ChatName(db, jid) == FirstNamed(<<db.chats[jid].name, ContactNameCase(db, jid, NoName)>>)

\* A mention's digits are tried as a LID and as a phone number; the two kinds
\* of digits name different JIDs, so a mention is the JID it was written for.
\* NoName leaves it as it arrived.
MentionName(db, jid) == ContactNameCase(db, jid, NoName)
ResolveMentions(db, text) == [jid \in text.at |-> MentionName(db, jid)]

----------------------------------------------------------------------------
(* Reads: a sequence of rowids stands for the rows it answers. *)

ClampLimit(n)   == IF n <= 0 THEN DefaultLimit ELSE IF n > MaxLimit THEN MaxLimit ELSE n
ClampContext(n) == IF n < 0 THEN 0 ELSE IF n > MaxLimit THEN MaxLimit ELSE n

FirstN(s, n) == SubSeq(s, 1, IF n < Len(s) THEN n ELSE Len(s))

\* The order (ts, id) every reader of a chat uses.
Precedes(m, ts, id) == m.ts < ts \/ (m.ts = ts /\ m.id < id)
Follows(m, ts, id)  == m.ts > ts \/ (m.ts = ts /\ m.id > id)
OldestFirst(db, rows) == InOrder(rows, LAMBDA a, b : Precedes(db.msgs[a], db.msgs[b].ts, db.msgs[b].id))
NewestFirst(db, rows) == Reverse(OldestFirst(db, rows))

\* before and after bound a window strictly; 0 leaves a side open.
InWindow(ts, before, after) == (before > 0 => ts < before) /\ (after > 0 => ts > after)

Chat(db, jid) == IF jid \in DOMAIN db.chats THEN {jid} ELSE {}

Chats(db, name, limit) ==
  LET found == {c \in DOMAIN db.chats : name # NoName => db.chats[c].name = name}
  IN  FirstN(InOrder(found, LAMBDA a, b : db.chats[a].last > db.chats[b].last), ClampLimit(limit))

Messages(db, chat, before, after, limit) ==
  FirstN(NewestFirst(db, {r \in RowsOf(db, chat) : InWindow(db.msgs[r].ts, before, after)}), ClampLimit(limit))

RecentMessages(db, chat, limit) ==
  Reverse(FirstN(NewestFirst(db, RowsOf(db, chat)), ClampLimit(limit)))

MessagesSince(db, chat, ts, id, limit) ==
  FirstN(OldestFirst(db, {r \in RowsOf(db, chat) : Follows(db.msgs[r], ts, id)}), ClampLimit(limit))

MessagesBefore(db, chat, ts, id, limit) ==
  Reverse(FirstN(NewestFirst(db, {r \in RowsOf(db, chat) : Precedes(db.msgs[r], ts, id)}), ClampLimit(limit)))

\* Full-text search: every word asked for is in the text.
SearchMessages(db, words, chat, limit) ==
  FirstN(NewestFirst(db, {r \in DOMAIN db.msgs : /\ words \subseteq db.msgs[r].text.words
                                                 /\ chat # NoJid => db.msgs[r].chat = chat}), ClampLimit(limit))

\* The target with what surrounds it; <<>> when there is no such message.
MessageContext(db, chat, id, before, after) ==
  LET hit == RowAt(db, chat, id)
      t   == OneOf(hit)
      m   == db.msgs[t]
      side(rows, n) == FirstN(rows, ClampContext(n))
  IN  IF hit = {} THEN <<>>
      ELSE Reverse(side(NewestFirst(db, {r \in RowsOf(db, chat) : Precedes(db.msgs[r], m.ts, m.id)}), before))
           \o <<t>> \o side(OldestFirst(db, {r \in RowsOf(db, chat) : Follows(db.msgs[r], m.ts, m.id)}), after)

SearchContacts(db, name, limit) ==
  LET shown(j) == FirstNamed(<<ContactName(db, j), Spelled(j)>>)
      found == {j \in DOMAIN db.contacts :
                  name # NoName => name \in {db.contacts[j][f] : f \in {"full", "push", "business", "phone"}}}
  IN  FirstN(InOrder(found, LAMBDA a, b : shown(a) < shown(b)), ClampLimit(limit))

\* One row or none.
LastInteraction(db, jid) ==
  FirstN(NewestFirst(db, {r \in DOMAIN db.msgs : jid \in {db.msgs[r].chat, db.msgs[r].sender}}), 1)
OldestMessage(db, chat) ==
  {r \in RowsOf(db, chat) : \A q \in RowsOf(db, chat) \ {r} : Precedes(db.msgs[r], db.msgs[q].ts, db.msgs[q].id)}

\* Mutant of CountMessagesOlderThan: the anchor counts as older than itself.
CountNotNewer(db, chat, ts) == Cardinality({r \in RowsOf(db, chat) : db.msgs[r].ts <= ts})
CountMessagesOlderThan(db, chat, ts) == Cardinality({r \in RowsOf(db, chat) : db.msgs[r].ts < ts})

Calls(db, peer, before, after, limit) ==
  LET found == {c \in DOMAIN db.calls : /\ peer # NoJid => db.calls[c].peer = peer
                                        /\ InWindow(db.calls[c].ts, before, after)}
  IN  FirstN(InOrder(found, LAMBDA a, b : \/ db.calls[a].ts > db.calls[b].ts
                                          \/ db.calls[a].ts = db.calls[b].ts /\ a > b), ClampLimit(limit))

\* The rows a poll may report: of one chat or of all, own sends or not.
Polled(db, chat, own) == {r \in DOMAIN db.msgs : /\ chat # NoJid => db.msgs[r].chat = chat
                                                 /\ own \/ ~db.msgs[r].me}

LatestRowID(db) == Max({0} \cup DOMAIN db.msgs)

TailRowID(db, chat, own, n) ==
  LET rows == Polled(db, chat, own)
      nth  == {r \in rows : Cardinality({q \in rows : q >= r}) = n}
  IN  IF n <= 0 \/ nth = {} THEN 0 ELSE OneOf(nth) - 1

\* Mutant of MessagesAfterRowID: the row at the cursor is answered again.
PollFromCursor(db, chat, after, own, limit) ==
  LET rows == {r \in Polled(db, chat, own) : r >= after}
  IN  {r \in rows : Cardinality({q \in rows : q < r}) < ClampLimit(limit)}

\* The first rows after the cursor, by rowid: as a set, their order is their
\* numbers'.
MessagesAfterRowID(db, chat, after, own, limit) ==
  LET rows == {r \in Polled(db, chat, own) : r > after}
  IN  {r \in rows : Cardinality({q \in rows : q < r}) < ClampLimit(limit)}

\* Mutant of CursorAfter: an empty or short page moves the cursor on by one.
CursorBeyond(page, after) == 1 + IF page = {} THEN after ELSE Max(page)
\* The cursor that covers a page: its last rowid, the caller's for an empty one.
CursorAfter(page, after) == IF page = {} THEN after ELSE Max(page)

MediaMessageIDs(db, chat, before, after, kind, limit) ==
  FirstN(NewestFirst(db, {r \in RowsOf(db, chat) : /\ db.msgs[r].media
                                                   /\ kind # "" => db.msgs[r].kind = kind
                                                   /\ InWindow(db.msgs[r].ts, before, after)}), ClampLimit(limit))

\* The row whose media can be fetched, if it is there and carries any.
MessageMediaRef(db, chat, id) == {r \in RowAt(db, chat, id) : db.msgs[r].media}
=============================================================================
