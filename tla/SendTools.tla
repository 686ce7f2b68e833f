----------------------------- MODULE SendTools -----------------------------
(***************************************************************************)
(* The MCP send tools (internal/mcpserv send_tools.go) and what the bridge *)
(* does with a delivery (internal/bridge send.go), beside the ingestion of *)
(* events: a tool's goroutine writes to the store the bridge writes to.    *)
(* What lies between the two - drafts, tokens, the rate floor - is Gate;   *)
(* here a submitted delivery comes through or is refused.                  *)
(***************************************************************************)
EXTENDS Ingest

CONSTANTS
  Recipients,  \* chats the tools are called for
  MaxCalls     \* bound: calls of the tools, one at a time

\* The mark a tool makes, later than any receipt event's.
ToolMark == 9

ASSUME SendAssumption ==
  /\ MaxCalls \in Nat /\ NoJid \notin Recipients
  /\ \A e \in Events : e.type = "receipt" => e.at < ToolMark

VARIABLES
  call,      \* the call on its way: [op, ...]
  outbox,    \* what recordOutbound has left to write
  receipts,  \* read receipts WhatsApp has accepted: [to, author, ids]
  calls      \* calls so far

sendVars == <<call, outbox, receipts, calls>>

Idle == [op |-> "idle"]
OwnJid  == Pn(2)
SendInit == call = Idle /\ outbox = <<>> /\ receipts = {} /\ calls = 0

\* The sender of one message, as the store has it at the call; none when the
\* chat has no such message.  A scope that does not hold the chat refuses the
\* lookup (scope.go:53), which ends the call before anything is submitted.
ResolveMessageAuthor(d, chat, id) == {d.msgs[r].sender : r \in ToSet(MessageContext(d, chat, id, 0, 0))}

----------------------------------------------------------------------------
(* The tools that send one thing. *)

\* The body a delivery puts in the chat; "none" for those not recorded.
Body(kind) == CASE kind \in {"text", "voice", "reaction", "poll"} -> kind
                [] kind = "media" -> "image"
                [] kind \in {"edit", "revoke", "block", "unblock"} -> "none"
Targets(kind) == kind \in {"reaction", "revoke"}

\* Submit, for a delivery the gate lets through: a reaction or a deletion
\* looks its target's author up first.
Submit(kind, to, id) ==
  /\ call = Idle /\ calls < MaxCalls /\ calls' = calls + 1
  /\ \E author \in IF Targets(kind) THEN ResolveMessageAuthor(db, to, id) ELSE {NoJid} :
       call' = [op |-> "send", kind |-> kind, to |-> to, id |-> id, author |-> author]
  /\ UNCHANGED <<ingestVars, outbox, receipts>>

\* A sent message as the event whatsmeow does not echo, stamped after what
\* has been taken.
OwnMessage(c) ==
  [id |-> 10 + calls, chat |-> c.to, sender |-> OwnJid, ts |-> taken, push |-> NoName, body |-> Body(c.kind),
   senderAlt |-> NoJid, recipientAlt |-> NoJid, group |-> c.to.s = "g", me |-> TRUE, text |-> NoText, wrap |-> 0]

\* The same two writes as for a message that arrived (ingestMessage).
RecordOutbound(w, known) == IngestMessage(w, known)

\* The start's tidying is over before the bridge connects.
Connected == todo = <<>> \/ taken > 0

\* Deliver: only what WhatsApp has accepted is recorded.
Deliver(sent) ==
  /\ call.op = "send" /\ call' = Idle /\ (sent => Connected)
  /\ outbox' = IF sent /\ Body(call.kind) # "none" THEN RecordOutbound(OwnMessage(call), Known) ELSE <<>>
  /\ UNCHANGED <<ingestVars, receipts, calls>>

\* One write of it; the bridge's own writes may come in between.
Record == /\ outbox # <<>>
          /\ db' = Commit(db, Head(outbox), Known) /\ outbox' = Tail(outbox)
          /\ UNCHANGED <<device, cache, todo, taken, stops, call, receipts, calls>>

----------------------------------------------------------------------------
(* mark_read: one delivery per sender, in the order of first appearance;    *)
(* the first that fails ends the call.                                      *)

\* Mutant of GroupMessageIDsBySender: one group, addressed to the first sender.
OneGroup(d, chat, ids) ==
  <<[author |-> OneOf(ResolveMessageAuthor(d, chat, Head(ids))), ids |-> ToSet(ids)]>>

GroupMessageIDsBySender(d, chat, ids) ==
  LET author(id) == OneOf(ResolveMessageAuthor(d, chat, id))
      first(i)   == \A k \in 1 .. i - 1 : author(ids[k]) # author(ids[i])
      firsts     == Where([i \in DOMAIN ids |-> i], first)
      of(a)      == {id \in ToSet(ids) : author(id) = a}
  IN  [n \in DOMAIN firsts |-> [author |-> author(ids[firsts[n]]), ids |-> of(author(ids[firsts[n]]))]]

MarkReadCall(chat, ids) ==
  /\ call = Idle /\ calls < MaxCalls /\ calls' = calls + 1
  /\ \A i \in DOMAIN ids : ResolveMessageAuthor(db, chat, ids[i]) # {}
  /\ call' = [op |-> "read", to |-> chat, groups |-> GroupMessageIDsBySender(db, chat, ids)]
  /\ UNCHANGED <<ingestVars, outbox, receipts>>

\* deliverRead: the receipt, and when WhatsApp has accepted it the local mark.
DeliverRead(sent) ==
  /\ call.op = "read" /\ (sent => Connected)
  /\ call' = IF sent THEN [op |-> "mark", to |-> call.to, groups |-> call.groups] ELSE Idle
  /\ receipts' = IF sent THEN receipts \cup {[to |-> call.to, author |-> Head(call.groups).author,
                                              ids |-> Head(call.groups).ids]} ELSE receipts
  /\ UNCHANGED <<ingestVars, outbox, calls>>

MarkLocally ==
  /\ call.op = "mark"
  /\ db' = MarkRead(db, call.to, Head(call.groups).ids, ToolMark)
  /\ call' = IF Len(call.groups) = 1 THEN Idle
             ELSE [op |-> "read", to |-> call.to, groups |-> Tail(call.groups)]
  /\ UNCHANGED <<device, cache, todo, taken, stops, outbox, receipts, calls>>

----------------------------------------------------------------------------
Kinds == {"text", "voice", "reaction", "poll", "media", "edit", "revoke", "block", "unblock"}
StoredIDs == {db.msgs[r].id : r \in DOMAIN db.msgs}

Sending == \/ \E kind \in Kinds, to \in Recipients : Submit(kind, to, 0) \/ (\E id \in StoredIDs : Submit(kind, to, id))
           \/ \E chat \in Recipients : \E ids \in SetToAllKPermutations(StoredIDs) : ids # <<>> /\ MarkReadCall(chat, ids)
           \/ (\E sent \in BOOLEAN : Deliver(sent) \/ DeliverRead(sent))
           \/ Record \/ MarkLocally

\* What has one id has one sender, a send of this account's (the numbers over
\* ten) this account: a hypothesis of some theorems.
OneSenderPerID ==
  /\ \A e, f \in {g \in Events : g.type = "message"} : e.w.id = f.w.id => e.w.sender.u = f.w.sender.u
  /\ \A e \in {g \in Events : g.type = "message"} : e.w.id > 10 => e.w.sender.u = OwnJid.u

\* "message_ids are grouped by each message's sender": what mark_read marked
\* as read it has sent a receipt for, to the message's sender, whatever is
\* folded or redelivered between the lookup, the receipt and the mark.
MarkedHasReceipt ==
  \A r \in DOMAIN db.msgs : db.msgs[r].read = ToolMark =>
     \E rc \in receipts : db.msgs[r].id \in rc.ids /\ rc.author.u = db.msgs[r].sender.u
=============================================================================
