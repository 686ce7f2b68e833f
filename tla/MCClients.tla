---------------------------- MODULE MCClients ------------------------------
(* One person met by a privacy LID and by phone, and a group. *)
EXTENDS Clients

TheGroup == Jid(9, "g", 0)
Person(u, s, d) == Jid(u, s, d)
IsGroup(jid) == jid = TheGroup
Words(S) == [words |-> S, at |-> {}]
Sent(id, chat, sender, alt, ralt, ts, push, body) ==
  [id |-> id, chat |-> chat, sender |-> sender, ts |-> ts, push |-> push, body |-> body,
   senderAlt |-> alt, recipientAlt |-> ralt, group |-> IsGroup(chat), me |-> FALSE,
   text |-> Words({1}), wrap |-> 0]

\* The same message met by LID and by phone number, a group message from the
\* LID's sixth device, and a status line.
ByLID   == Sent(1, Lid(1), Lid(1), NoJid, NoJid, 2, 5, "text")
ByPhone == Sent(1, Pn(1), Pn(1), Lid(1), NoJid, 2, NoName, "text")
InGroup == [Sent(2, TheGroup, Jid(1, "lid", 6), NoJid, NoJid, 3, 6, "image") EXCEPT !.wrap = 1]
Own     == [Sent(3, Lid(1), Pn(2), NoJid, Pn(1), 1, 7, "text") EXCEPT !.me = TRUE]
Second  == Sent(5, Pn(1), Pn(1), NoJid, NoJid, 2, NoName, "reaction")
Status  == Sent(4, Lid(1), Lid(1), NoJid, NoJid, 1, NoName, "empty")

MCEvents == {
  [type |-> "message", w |-> ByLID], [type |-> "message", w |-> ByPhone],
  [type |-> "message", w |-> InGroup], [type |-> "message", w |-> Own], [type |-> "message", w |-> Second],
  [type |-> "message", w |-> Status],
  [type |-> "history", convs |-> <<[jid |-> Lid(1), ts |-> 3, name |-> 3, msgs |-> <<Status, ByLID>>],
                                   [jid |-> TheGroup, ts |-> 2, name |-> NoName, msgs |-> <<InGroup>>]>>],
  [type |-> "history", convs |-> <<>>],
  [at |-> 4, chat |-> Lid(1), type |-> "receipt", ids |-> {1}, read |-> TRUE],
  [id |-> 1, ts |-> 1, type |-> "call", from |-> Jid(1, "lid", 6), reason |-> "offer"],
  [id |-> 1, ts |-> 2, type |-> "call", from |-> Pn(1), reason |-> "reject"],
  [jid |-> Lid(1), type |-> "contact", full |-> 8],
  [jid |-> Pn(1), push |-> 9, type |-> "pushname"],
  [jid |-> TheGroup, ts |-> 1, type |-> "group", name |-> 4]}

TwoChats  == {[type |-> "message", w |-> ByPhone], [type |-> "message", w |-> InGroup]}
OnePerson == TwoChats \cup {[type |-> "message", w |-> ByLID], [type |-> "message", w |-> Second],
                            [type |-> "history", convs |-> <<>>]}
Talk      == {[type |-> "message", w |-> ByPhone], [type |-> "message", w |-> ByLID],
              [type |-> "message", w |-> Own], [type |-> "history", convs |-> <<>>]}
Rejected  == {[id |-> 1, ts |-> 2, type |-> "call", from |-> Pn(1), reason |-> "reject"]}
MCWatched == [poller |-> OnePerson \cup Rejected, pane |-> OnePerson, fetcher |-> OnePerson, button |-> TwoChats, sender |-> Talk]
ByNumber  == {Pn(1)}

Everything == [active |-> FALSE, list |-> {Pn(1)}]
Only(S)    == [active |-> TRUE, list |-> S]
MCChosen   == {Pn(1), Lid(1), TheGroup}
MCScopes   == {Everything, Only({Pn(1)}), Only({TheGroup})}

\* The instance meets the hypotheses the theorems have.
ASSUME OneChatPerID /\ OneSenderPerID
=============================================================================
