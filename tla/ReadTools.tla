----------------------------- MODULE ReadTools -----------------------------
(***************************************************************************)
(* The readers of the message store while the bridge writes it: the MCP    *)
(* read tools behind the scope (internal/mcpserv read_tools.go, scope.go)  *)
(* and the dashboard's message pane (internal/dashboard api.go and         *)
(* ui/app.js).  A reader remembers something between its calls - a poll    *)
(* cursor, the pane's two ends, the anchor of a history request - and the  *)
(* store moves under it: late arrivals, folds, pruning.                    *)
(*                                                                         *)
(* The readers only read, so they cannot disturb one another: a behaviour  *)
(* has one of them, chosen at its start, or none.                          *)
(***************************************************************************)
EXTENDS Ingest

CONSTANTS
  Readers,   \* which of "none", "poller", "pane", "fetcher", "button" to follow
  Watched,   \* bound: reader -> the events taken while it is followed
  Chosen,    \* JIDs an answer is asked about
  Scopes,    \* the settings of the chat scope
  PageSize,  \* the rows the pane asks for
  GlobalCooldown, ChatCooldown,  \* between two history requests of the dashboard, in all and per chat
  MaxLooks,  \* bound: calls of the reader
  MaxNow     \* bound: the clock of the dashboard

ASSUME ReadersAssumption ==
  /\ MaxLooks \in Nat /\ MaxNow \in Nat
  /\ GlobalCooldown \in Nat \ {0} /\ ChatCooldown \in Nat \ {0}
  /\ \A r \in Readers \ {"none"} : Watched[r] \subseteq Events
  /\ PageSize \in 1 .. MaxLimit
  /\ \A sc \in Scopes : sc.active \in BOOLEAN /\ sc.list \subseteq Chosen

VARIABLES
  reader,  \* the reader followed
  scope,   \* the chat scope in force
  poll,    \* the poller: [at, start, chat, seen, got, hidden], NoPoll before its first call
  pane,    \* the message pane: what is open, what it shows and where it continues
  replies, \* answers on their way to the pane
  asked,   \* fetch_older_messages: requests going, and chat -> the last one
  button,  \* the dashboard's history button: its clock, its stamps, its requests
  moved,   \* rowids taken away from their message or its chat (fold, prune)
  looks    \* calls so far

readVars == <<reader, scope, poll, pane, replies, asked, button, moved, looks>>
allVars  == <<ingestVars, readVars>>

----------------------------------------------------------------------------
(* The scope (mcpserv/scope.go): a read of a chat is refused outside the    *)
(* allowlist, a sweep over the chats is answered without the others.        *)

Readable(sc, jid) == sc.active => jid \in sc.list

Refused      == [ok |-> FALSE, rows |-> <<>>]
Answer(rows) == [ok |-> TRUE, rows |-> rows]
Allow(sc, jid, rows) == IF Readable(sc, jid) THEN Answer(rows) ELSE Refused

\* Mutant of KeepAllowed: the row's sender decides, not its chat.
KeepSenders(sc, d, rows) == Where(rows, LAMBDA r : Readable(sc, d.msgs[r].sender))
KeepAllowed(sc, d, rows) == Where(rows, LAMBDA r : Readable(sc, d.msgs[r].chat))

\* Mutant of ScopedChats: the page by recency is cut before it is filtered.
ScopedChatsOfPage(sc, d, name, limit) ==
  Answer(Where(Chats(d, name, limit), LAMBDA c : Readable(sc, c)))

\* With a scope the allowlist is looked up chat by chat, and the name shown
\* is matched, not the name stored.
ScopedChats(sc, d, name, limit) ==
  LET found == {c \in sc.list \cap DOMAIN d.chats : name # NoName => ChatName(d, c) = name}
  IN  IF ~sc.active THEN Answer(Chats(d, name, limit))
      ELSE Answer(FirstN(InOrder(found, LAMBDA a, b : d.chats[a].last > d.chats[b].last), ClampLimit(limit)))

\* The sweep is cut to its page before the rows out of scope are dropped.
ScopedSearch(sc, d, words, jid, limit) ==
  IF jid # NoJid THEN Allow(sc, jid, SearchMessages(d, words, jid, limit))
  ELSE Answer(KeepAllowed(sc, d, SearchMessages(d, words, NoJid, limit)))

ScopedContacts(sc, d, name, limit) ==
  Answer(Where(SearchContacts(d, name, limit), LAMBDA j : Readable(sc, j)))

ScopedCalls(sc, d, jid, before, after, limit) ==
  IF jid # NoJid THEN Allow(sc, jid, Calls(d, jid, before, after, limit))
  ELSE Answer(Where(Calls(d, NoJid, before, after, limit), LAMBDA c : Readable(sc, d.calls[c].peer)))

\* The poller's feed: with no chat the rows are filtered and the cursor is not.
ScopedAfterRowID(sc, d, jid, after, own, limit) ==
  LET page == MessagesAfterRowID(d, jid, after, own, limit)
  IN  IF jid # NoJid /\ ~Readable(sc, jid) THEN [ok |-> FALSE, page |-> {}, rows |-> {}, next |-> 0]
      ELSE [ok |-> TRUE, page |-> page, rows |-> {r \in page : Readable(sc, d.msgs[r].chat)},
            next |-> CursorAfter(page, after)]

----------------------------------------------------------------------------
(* The tools that only answer (read_tools.go), each under the scope.        *)

listChats(sc, d, name, limit)              == ScopedChats(sc, d, name, limit)
getChat(sc, d, jid)                        == Allow(sc, jid, SetToSeq(Chat(d, jid)))
listMessages(sc, d, jid, before, after, n) == Allow(sc, jid, Messages(d, jid, before, after, n))
searchMessages(sc, d, words, jid, limit)   == ScopedSearch(sc, d, words, jid, limit)
getMessageContext(sc, d, jid, id, n, m)    == Allow(sc, jid, MessageContext(d, jid, id, n, m))
searchContacts(sc, d, name, limit)         == ScopedContacts(sc, d, name, limit)
getLastInteraction(sc, d, jid)             == Allow(sc, jid, LastInteraction(d, jid))
getCallHistory(sc, d, jid, before, after, limit) == ScopedCalls(sc, d, jid, before, after, limit)

\* One message's media: the row it is fetched for, none when there is none.
downloadOne(sc, d, jid, id) == Allow(sc, jid, SetToSeq(MessageMediaRef(d, jid, id))).rows

\* Exactly one of an id, a batch or a window.  One id fails as a whole, a
\* batch reports each file for itself.
downloadMedia(sc, d, jid, id, batch, windowed) ==
  LET found == Allow(sc, jid, MediaMessageIDs(d, jid, 0, 0, "", 0))
      ids   == IF windowed THEN [i \in DOMAIN found.rows |-> d.msgs[found.rows[i]].id] ELSE batch
      files == ids \o IF id # 0 THEN <<id>> ELSE <<>>
      there == Where(files, LAMBDA f : downloadOne(sc, d, jid, f) # <<>>)
      forms == {f \in {"id", "batch", "window"} : \/ f = "id" /\ id # 0
                                                  \/ f = "batch" /\ batch # <<>>
                                                  \/ f = "window" /\ windowed}
  IN  IF \/ Cardinality(forms) # 1 \/ Len(batch) > MaxLimit
         \/ windowed /\ ~found.ok
         \/ id # 0 /\ downloadOne(sc, d, jid, id) = <<>>
      THEN Refused
      ELSE Answer([n \in DOMAIN there |-> Head(downloadOne(sc, d, jid, there[n]))])

----------------------------------------------------------------------------
(* The dashboard's answers (handleMessages, handleSearch), which no scope   *)
(* filters.  A position is what the pane orders by.                         *)

Position(d, r) == <<d.msgs[r].ts, d.msgs[r].id>>
Positions(d, rows) == [i \in DOMAIN rows |-> Position(d, rows[i])]
Above(p, q) == p[1] < q[1] \/ (p[1] = q[1] /\ p[2] < q[2])
NoCursor == <<0, 0>>

\* cursorOf: the newest of a page, the caller's when the page is empty.
CursorOf(page, fallback) == IF page = <<>> THEN fallback ELSE Last(page)

Recent(d, jid)    == Positions(d, RecentMessages(d, jid, PageSize))
Since(d, jid, p)  == Positions(d, MessagesSince(d, jid, p[1], p[2], PageSize))
Before(d, jid, p) == Positions(d, MessagesBefore(d, jid, p[1], p[2], PageSize))
Around(d, jid, p) == Positions(d, MessageContext(d, jid, p[2], PageSize \div 2, PageSize \div 2))

\* Each hit with the name of its chat.
handleSearch(d, words, jid) ==
  LET hits == SearchMessages(d, words, jid, PageSize)
  IN  [i \in DOMAIN hits |-> <<hits[i], IF d.msgs[hits[i]].chat \in DOMAIN d.chats
                                        THEN ChatName(d, d.msgs[hits[i]].chat) ELSE NoName>>]

----------------------------------------------------------------------------
(* poll_new_messages.  A call that waits is one that looks again; one that  *)
(* gives up hands back the cursor it was given.                             *)

NoPoll == [at |-> -1, start |-> 0, chat |-> NoJid, seen |-> <<>>, got |-> {}, hidden |-> {}]
IncludeOwn == FALSE

StartPoll(jid, cursor) == poll' = [NoPoll EXCEPT !.at = cursor, !.start = cursor, !.chat = jid]

\* The first call, "watch from now".
Bootstrap(jid) == poll = NoPoll /\ StartPoll(jid, LatestRowID(db))

\* The first call with tail, before it reads its rows.
TailFrom(jid, n) == /\ poll = NoPoll /\ (jid # NoJid => Readable(scope, jid))
                    /\ StartPoll(jid, TailRowID(db, jid, IncludeOwn, n))

\* One look at the store.  An answer without rows keeps the cursor.
PollNewMessages ==
  LET a == ScopedAfterRowID(scope, db, poll.chat, poll.at, IncludeOwn, 0)
  IN  /\ poll # NoPoll /\ a.ok
      /\ poll' = IF a.rows = {} THEN poll
                 ELSE [poll EXCEPT !.at = a.next, !.got = a.rows,
                        !.seen = [r \in a.rows \cup DOMAIN @ |->
                                    IF r \in a.rows THEN <<db.msgs[r].chat, db.msgs[r].id>> ELSE @[r]],
                        !.hidden = @ \cup (a.page \ a.rows)]

Polling == /\ reader = "poller"
           /\ \/ looks' = looks /\ \E jid \in Chosen \cup {NoJid} : Bootstrap(jid) \/ TailFrom(jid, 1)
              \/ looks < MaxLooks /\ looks' = looks + 1 /\ PollNewMessages
           /\ UNCHANGED <<ingestVars, reader, scope, pane, replies, asked, button, moved>>

\* The scope is edited while a poller keeps its cursor.
EditScope(sc) == /\ reader = "poller" /\ poll # NoPoll /\ looks < MaxLooks /\ looks' = looks + 1
                 /\ scope' = sc
                 /\ UNCHANGED <<ingestVars, reader, poll, pane, replies, asked, button, moved>>

----------------------------------------------------------------------------
(* fetch_older_messages: the oldest row is read, then the phone is asked,   *)
(* then the anchor is remembered.  `had` is a record of what was stored     *)
(* when the oldest was read.                                                *)

MessageIDs(d, jid) == {d.msgs[r].id : r \in RowsOf(d, jid)}

ReadOldest(jid) ==
  \E oldest \in OldestMessage(db, jid) :
    /\ Readable(scope, jid)
    /\ asked' = [asked EXCEPT !.going = @ \cup {[chat |-> jid, anchor |-> db.msgs[oldest].ts,
                                                had |-> MessageIDs(db, jid)]}]

\* What the next call says of the request before it.
Arrived(d, jid, memo) == CountMessagesOlderThan(d, jid, memo.anchor)

\* The request went out; one that fails remembers nothing.
Remember(q, sent) ==
  asked' = [asked EXCEPT !.going = @ \ {q}, !.memo = IF sent THEN Put(@, q.chat, q) ELSE @]

FetchOlder == /\ reader = "fetcher"
              /\ \/ /\ looks < MaxLooks /\ looks' = looks + 1
                    /\ \E jid \in Chosen : ReadOldest(jid)
                 \/ /\ \E q \in asked.going, sent \in BOOLEAN : Remember(q, sent)
                    /\ looks' = looks
              /\ UNCHANGED <<ingestVars, reader, scope, poll, pane, replies, button, moved>>

----------------------------------------------------------------------------
(* The dashboard's history button (handleHistory).  A request reads the     *)
(* clock, then takes a slot under the mutex by stamping it, then asks the   *)
(* phone; one that fails gives its stamp back.                              *)

Never == -100
NoButton == [now |-> 0, any |-> Never, last |-> <<>>, going |-> {}, sent |-> {}]
LastFor(b, jid) == IF jid \in DOMAIN b.last THEN b.last[jid] ELSE Never

ClickHistory(jid) ==
  /\ OldestMessage(db, jid) # {}
  /\ button' = [button EXCEPT !.going = @ \cup {[chat |-> jid, now |-> button.now, stamped |-> FALSE]}]

TooSoon(b, q) == \/ q.now - b.any < GlobalCooldown
                 \/ q.now - LastFor(b, q.chat) < ChatCooldown

\* The mutex section: refused, or stamped with what the stamps were before.
TakeSlot(q) ==
  /\ ~q.stamped
  /\ button' = IF TooSoon(button, q) THEN [button EXCEPT !.going = @ \ {q}]
               ELSE [button EXCEPT !.any = q.now, !.last = Put(@, q.chat, q.now),
                       !.sent = @ \cup {[chat |-> q.chat, now |-> q.now]},
                       !.going = (@ \ {q}) \cup {[chat |-> q.chat, now |-> q.now, stamped |-> TRUE,
                                                 any |-> button.any, last |-> LastFor(button, q.chat)]}]

\* Mutant of GiveBack: the stamps go back whoever has stamped since.
GiveBackAnyway(b, q) == [b EXCEPT !.any = q.any, !.last = Put(@, q.chat, q.last)]

\* A stamp goes back unless a newer request has replaced it.
GiveBack(b, q) == [b EXCEPT !.any  = IF @ = q.now THEN q.any ELSE @,
                            !.last = IF LastFor(b, q.chat) = q.now THEN Put(@, q.chat, q.last) ELSE @]

AnswerHistory(q, ok) ==
  /\ q.stamped
  /\ LET b == [button EXCEPT !.going = @ \ {q}]
     IN  button' = IF ok THEN b ELSE GiveBack([b EXCEPT !.sent = @ \ {[chat |-> q.chat, now |-> q.now]}], q)

Clicking ==
  /\ reader = "button"
  /\ \/ looks < MaxLooks /\ looks' = looks + 1 /\ \E jid \in Chosen : ClickHistory(jid)
     \/ looks' = looks /\ \E q \in button.going : TakeSlot(q)
     \/ looks' = looks /\ \E q \in button.going, ok \in BOOLEAN : AnswerHistory(q, ok)
     \/ looks' = looks /\ button.now < MaxNow /\ button' = [button EXCEPT !.now = @ + 1]
  /\ UNCHANGED <<ingestVars, reader, scope, poll, pane, replies, asked, moved>>

----------------------------------------------------------------------------
(* The message pane (ui/app.js).  A click sends a request; the server       *)
(* answers it at once and the answer is applied later, in any order.        *)

NoPane == [gen |-> 0, jid |-> NoJid, parked |-> FALSE, shown |-> <<>>, cursor |-> NoCursor,
           oldest |-> <<>>, more |-> FALSE]
OldestOf(page) == IF page = <<>> THEN <<>> ELSE <<Head(page)>>

Reply(kind, jid, page, cursor) ==
  [kind |-> kind, gen |-> pane.gen, jid |-> jid, page |-> page, cursor |-> cursor]

\* Until a chat that is being opened is there, the former one stays the
\* current one, with nothing of it shown.
Skeleton == pane' = [pane EXCEPT !.shown = <<>>]

\* openChat, from a list that may still have a chat folded since, and jumpTo,
\* from a search hit.
OpenChat(jid) == /\ replies' = replies \cup
                       {Reply("open", jid, Recent(db, jid), CursorOf(Recent(db, jid), NoCursor))}
                 /\ Skeleton
JumpTo(r) == /\ replies' = replies \cup
                   {Reply("jump", db.msgs[r].chat, Around(db, db.msgs[r].chat, Position(db, r)), NoCursor)}
             /\ Skeleton

\* loadOlder asks once at a time for the open chat.
OlderRequest(p) ==
  IF p.jid = NoJid \/ ~p.more \/ p.oldest = <<>> \/ \E a \in replies : a.kind = "older" /\ a.gen = p.gen
  THEN {} ELSE {Reply("older", p.jid, Before(db, p.jid, p.oldest[1]), NoCursor)}

LoadOlder == OlderRequest(pane) # {} /\ replies' = replies \cup OlderRequest(pane) /\ UNCHANGED pane

\* The "older" button, once the phone has been asked: looks again.
AskedThePhone == /\ pane.jid # NoJid
                 /\ pane' = [pane EXCEPT !.more = TRUE]
                 /\ replies' = replies \cup OlderRequest(pane')

\* The refresh button, one request at a time and not on a parked pane.
Refresh == /\ pane.jid # NoJid /\ ~pane.parked /\ \A a \in replies : a.kind # "refresh"
           /\ LET page == Since(db, pane.jid, pane.cursor)
              IN  replies' = replies \cup {Reply("refresh", pane.jid, page, CursorOf(page, pane.cursor))}
           /\ UNCHANGED pane

\* Mutant of Stale: an answer for the chat that was open is applied to the one that is.
NeverStale(a) == FALSE
Stale(a) == a.gen # pane.gen \/ pane.jid = NoJid

Opened(a) == [gen |-> pane.gen + 1, jid |-> a.jid, parked |-> a.kind = "jump", shown |-> a.page,
              cursor |-> a.cursor, oldest |-> OldestOf(a.page),
              more |-> IF a.kind = "jump" THEN a.page # <<>> ELSE Len(a.page) >= PageSize]

Apply(a) ==
  /\ replies' = replies \ {a}
  /\ pane' = IF a.kind \in {"open", "jump"} THEN Opened(a)
             ELSE IF Stale(a) THEN pane
             ELSE IF a.kind = "refresh" THEN [pane EXCEPT !.cursor = a.cursor, !.shown = @ \o a.page]
             ELSE [pane EXCEPT !.shown = a.page \o @, !.more = Len(a.page) = PageSize,
                               !.oldest = IF a.page = <<>> THEN @ ELSE OldestOf(a.page)]

\* A request that failed: a chat that did not open closes the pane.
Fail(a) == /\ replies' = replies \ {a}
           /\ pane' = IF a.kind \in {"open", "jump"} THEN [NoPane EXCEPT !.gen = pane.gen + 1] ELSE pane

Browsing ==
  /\ reader = "pane"
  /\ \/ /\ looks < MaxLooks /\ looks' = looks + 1
        /\ \/ \E jid \in Chosen \cap (DOMAIN db.chats \cup DOMAIN db.lids) : OpenChat(jid)
           \/ \E r \in DOMAIN db.msgs : JumpTo(r)
           \/ LoadOlder \/ AskedThePhone \/ Refresh
     \/ looks' = looks /\ \E a \in replies : Apply(a) \/ Fail(a)
  /\ UNCHANGED <<ingestVars, reader, scope, poll, asked, button, moved>>

----------------------------------------------------------------------------
\* Only the poller's behaviours start under each scope: the dashboard has
\* none, and a history request is about one chat that is readable.
ReadInit == /\ Init /\ reader \in Readers
            /\ scope \in {sc \in Scopes : reader # "poller" => ~sc.active}
            /\ poll = NoPoll /\ pane = NoPane /\ replies = {}
            /\ asked = [memo |-> <<>>, going |-> {}] /\ button = NoButton /\ moved = {} /\ looks = 0

\* The bridge's step, and the rowids it took from their message.  Alone the
\* bridge does all that Ingest says; beside a reader its process goes on and
\* learns its pairings from the messages it is sent.
BridgeStep == /\ IF reader = "none" THEN Ingesting ELSE Handling \/ \E e \in Watched[reader] : Take(e)
              /\ moved' = moved \cup {r \in DOMAIN db.msgs :
                                       r \in DOMAIN db'.msgs => db'.msgs[r].chat # db.msgs[r].chat}
              /\ UNCHANGED <<reader, scope, poll, pane, replies, asked, button, looks>>

ReadNext == BridgeStep \/ Polling \/ (\E sc \in Scopes : EditScope(sc)) \/ FetchOlder \/ Clicking \/ Browsing

ReadSpec == ReadInit /\ [][ReadNext]_allVars

----------------------------------------------------------------------------
(* Properties. *)

\* scope.go: "every read is confined to the allowed chats".  The sweeps over
\* all chats answer only rows, chats, contacts and calls of readable JIDs, and
\* a read of one chat only rows of it, while edits of the scope and folds come
\* in between; get_last_interaction answers a message of the JID asked for,
\* which may be one it wrote in a group that is not readable.
SweepsAreConfined ==
  LET rows(a) == \A i \in DOMAIN a.rows : Readable(scope, db.msgs[a.rows[i]].chat)
  IN  scope.active =>
      /\ rows(searchMessages(scope, db, {}, NoJid, 0))
      /\ \A r \in ScopedAfterRowID(scope, db, NoJid, 0, TRUE, 0).rows : Readable(scope, db.msgs[r].chat)
      /\ \A c \in ToSet(listChats(scope, db, NoName, 0).rows) : Readable(scope, c)
      /\ \A j \in ToSet(searchContacts(scope, db, NoName, 0).rows) : Readable(scope, j)
      /\ \A c \in ToSet(getCallHistory(scope, db, NoJid, 0, 0, 0).rows) : Readable(scope, db.calls[c].peer)
      /\ \A jid \in Chosen : \A a \in {listMessages(scope, db, jid, 0, 0, 0), downloadMedia(scope, db, jid, 0, <<>>, TRUE)}
                                  \cup {getMessageContext(scope, db, jid, db.msgs[r].id, 1, 1) : r \in DOMAIN db.msgs} : rows(a)
      /\ \A jid \in Chosen : \A i \in DOMAIN getLastInteraction(scope, db, jid).rows :
            LET m == db.msgs[getLastInteraction(scope, db, jid).rows[i]]
            IN  Readable(scope, m.chat) \/ Readable(scope, m.sender)

\* scope.go: an allowed chat that has been quiet does not look as though it
\* had been revoked: it is listed unless a page of readable chats is newer.
QuietChatsAreListed ==
  \A c \in DOMAIN db.chats : scope.active /\ Readable(scope, c) =>
     \/ c \in ToSet(listChats(scope, db, NoName, 0).rows)
     \/ Cardinality({k \in DOMAIN db.chats : Readable(scope, k) /\ db.chats[k].last >= db.chats[c].last}) > DefaultLimit

\* poll_new_messages: "replaying a cursor can neither skip nor duplicate a
\* message" - as far as it holds: a row behind the cursor was reported or
\* out of scope, unless a fold or a prune took its number or its chat.
PollSkipsOnlyMoved ==
  poll # NoPoll => \A r \in Polled(db, poll.chat, IncludeOwn) :
     poll.start < r /\ r <= poll.at => r \in DOMAIN poll.seen \cup poll.hidden \cup moved

\* ... and no message is reported twice unless it was moved in between.
PollRepeatsOnlyMoved ==
  [][poll # NoPoll /\ poll' # poll =>
       \A r \in poll'.got : \A q \in DOMAIN poll.seen \ moved : r # q /\ poll'.seen[r] # poll.seen[q]]_allVars

\* What fetch_older_messages reports as arrived was not in the chat when the
\* request's anchor was read, however calls, arrivals and folds overlap.
HonestBackfill ==
  \A jid \in DOMAIN asked.memo :
     Arrived(db, jid, asked.memo[jid]) <= Cardinality(MessageIDs(db, jid) \ asked.memo[jid].had)

\* api.go: a script driving the button asks the phone no more often than the
\* cooldowns allow: of the requests that did not fail no two are closer, of
\* one chat or of any, though a failed one gives its slot back while others
\* are on their way.
HistoryIsSpaced ==
  \A q, r \in button.sent : q # r =>
     LET apart == IF q.now >= r.now THEN q.now - r.now ELSE r.now - q.now
     IN  apart >= GlobalCooldown /\ (q.chat = r.chat => apart >= ChatCooldown)

\* The pane shows each message once and in order, and only messages of the chat
\* it is open on, or of the phone number that chat has been folded into,
\* whatever answers overlap: one for another chat is dropped, and pages meet.
PaneShowsItsChat ==
  /\ \A i \in 1 .. Len(pane.shown) - 1 : Above(pane.shown[i], pane.shown[i + 1])
  /\ \A i \in DOMAIN pane.shown : \A r \in DOMAIN db.msgs :
       Position(db, r) = pane.shown[i] => SamePlace(db.msgs[r].chat, pane.jid)

=============================================================================
