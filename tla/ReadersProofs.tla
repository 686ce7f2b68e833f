--------------------------- MODULE ReadersProofs ---------------------------
(***************************************************************************)
(* Theorems about what the readers of the store are shown - the pane of    *)
(* the dashboard, the read tools under a scope - and about the receipts    *)
(* behind a read mark, for any events, chats, readers, scopes, folds,      *)
(* prunes and stops.  Two of them suppose of WhatsApp's ids what           *)
(* OneChatPerID and OneSenderPerID say.                                    *)
(***************************************************************************)
EXTENDS ClientsProofs

----------------------------------------------------------------------------
(* Pages: what a reader gets is a set of rows put in order, and cut.       *)

(* A strict order in which members may tie.                                *)
Orders(R, S) ==
  /\ \A a, b \in S : <<a, b>> \in R => <<b, a>> \notin R
  /\ \A a, b, c \in S : <<a, c>> \in R => <<a, b>> \in R \/ <<b, c>> \in R

InLine(s, S, R) ==
  /\ s \in [1 .. Cardinality(S) -> S]
  /\ \A j \in DOMAIN s : \A i \in 1 .. j - 1 : s[i] # s[j] /\ <<s[j], s[i]>> \notin R

(* A finite set can be put in order: each member in the place that the     *)
(* number of those before it gives, ties broken by an enumeration.         *)
LEMMA CanBeOrdered ==
  ASSUME NEW S, IsFiniteSet(S), NEW R, Orders(R, S)
  PROVE  \E s \in [1 .. Cardinality(S) -> S] : InLine(s, S, R)
<1> DEFINE n == Cardinality(S)
<1>1. n \in Nat /\ ExistsBijection(1 .. n, S)
  BY FS_CardinalityType
<1>2. PICK f \in Bijection(1 .. n, S) : TRUE
  BY <1>1 DEF ExistsBijection
<1>3. /\ f \in [1 .. n -> S]
      /\ \A i, j \in 1 .. n : f[i] = f[j] => i = j
      /\ \A a \in S : \E i \in 1 .. n : f[i] = a
  BY <1>2 DEF Bijection, Injection, Surjection, IsInjective
<1> DEFINE at == [a \in S |-> CHOOSE i \in 1 .. n : f[i] = a]
<1>4. \A a \in S : at[a] \in 1 .. n /\ f[at[a]] = a
  BY <1>3
<1> DEFINE T(a, b) == <<a, b>> \in R \/ (<<b, a>> \notin R /\ at[a] < at[b])
           prior(a) == {x \in S : T(x, a)}
           rank == [a \in S |-> 1 + Cardinality(prior(a))]
<1> HIDE DEF at, n
<1>5. \A a, b \in S : (T(a, b) => ~T(b, a)) /\ (a # b => T(a, b) \/ T(b, a)) /\ ~T(a, a)
  <2>1. SUFFICES ASSUME NEW a \in S, NEW b \in S
                 PROVE  (T(a, b) => ~T(b, a)) /\ (a # b => T(a, b) \/ T(b, a)) /\ ~T(a, a)
    OBVIOUS
  <2>2. at[a] \in Int /\ at[b] \in Int /\ (a # b => at[a] # at[b])
    BY <1>1, <1>4
  <2>3. /\ <<a, b>> \in R => <<b, a>> \notin R
        /\ <<b, a>> \in R => <<a, b>> \notin R
        /\ <<a, a>> \notin R
    BY DEF Orders
  <2> QED BY <2>2, <2>3
<1>6. ASSUME NEW a \in S, NEW b \in S, NEW c \in S, T(a, b), T(b, c)
      PROVE  T(a, c)
  <2>1. at[a] \in Int /\ at[b] \in Int /\ at[c] \in Int
    BY <1>1, <1>4
  <2>2. CASE <<a, c>> \in R
    BY <2>2
  <2>3. CASE <<a, c>> \notin R
    <3>1. <<c, a>> \notin R
      <4>1. SUFFICES ASSUME <<c, a>> \in R PROVE FALSE
        OBVIOUS
      <4>2. <<c, b>> \in R \/ <<b, a>> \in R
        BY <4>1 DEF Orders
      <4> QED BY <1>6, <4>2 DEF Orders
    <3>2. <<a, b>> \notin R \/ <<b, c>> \notin R
      BY <2>3, <1>6, <3>1 DEF Orders
    <3>3. at[a] < at[c]
      <4>1. <<a, b>> \in R => <<c, b>> \in R
        BY <2>3 DEF Orders
      <4>2. <<b, c>> \in R => <<b, a>> \in R
        BY <2>3 DEF Orders
      <4>3. at[a] < at[b] /\ at[b] < at[c]
        BY <1>6, <4>1, <4>2 DEF Orders
      <4> QED BY <2>1, <4>3
    <3> QED BY <3>1, <3>3
  <2> QED BY <2>2, <2>3
<1>7. \A a \in S : IsFiniteSet(prior(a)) /\ Cardinality(prior(a)) \in Nat /\ rank[a] \in 1 .. n
  <2>1. SUFFICES ASSUME NEW a \in S
                 PROVE  IsFiniteSet(prior(a)) /\ Cardinality(prior(a)) \in Nat /\ rank[a] \in 1 .. n
    OBVIOUS
  <2>2. prior(a) \subseteq S \ {a}
    BY <1>5
  <2>3. IsFiniteSet(S \ {a}) /\ Cardinality(S \ {a}) = n - 1
    BY FS_RemoveElement DEF n
  <2> DEFINE A == prior(a)
  <2> HIDE DEF A
  <2>4. IsFiniteSet(A) /\ Cardinality(A) \in Nat /\ Cardinality(A) <= n - 1
    BY <2>2, <2>3, FS_Subset, FS_CardinalityType DEF A
  <2>5. rank[a] = 1 + Cardinality(A)
    BY DEF A
  <2> QED BY <1>1, <2>4, <2>5 DEF A
<1>8. \A a, b \in S : T(a, b) => rank[a] < rank[b]
  <2>1. SUFFICES ASSUME NEW a \in S, NEW b \in S, T(a, b) PROVE rank[a] < rank[b]
    OBVIOUS
  <2>2. prior(a) \subseteq prior(b) /\ a \in prior(b) /\ a \notin prior(a)
    BY <1>5, <1>6, <2>1
  <2> DEFINE A == prior(a)
             B == prior(b)
  <2>3. IsFiniteSet(B) /\ Cardinality(A) \in Nat /\ Cardinality(B) \in Nat
    BY <1>7
  <2>4. rank[a] = 1 + Cardinality(A) /\ rank[b] = 1 + Cardinality(B)
    OBVIOUS
  <2>5. A \subseteq B /\ A # B
    BY <2>2
  <2> HIDE DEF A, B, rank
  <2>6. Cardinality(A) < Cardinality(B)
    BY <2>3, <2>5, FS_Subset
  <2> QED BY <2>3, <2>4, <2>6
<1>9. rank \in Injection(S, 1 .. n)
  <2>1. rank \in [S -> 1 .. n]
    BY <1>7
  <2>2. \A a, b \in S : rank[a] = rank[b] => a = b
    <3>1. SUFFICES ASSUME NEW a \in S, NEW b \in S, a # b PROVE rank[a] # rank[b]
      OBVIOUS
    <3>2. rank[a] < rank[b] \/ rank[b] < rank[a]
      BY <1>5, <1>8, <3>1
    <3> HIDE DEF rank
    <3>3. rank[a] \in 1 .. n /\ rank[b] \in 1 .. n
      BY <1>7
    <3> QED BY <1>1, <3>2, <3>3
  <2> HIDE DEF rank
  <2>3. IsInjective(rank)
    BY <2>1, <2>2 DEF IsInjective
  <2> QED BY <2>1, <2>3 DEF Injection
<1> HIDE DEF rank
<1>10. \A k \in 1 .. n : \E a \in S : rank[a] = k
  <2>1. IsFiniteSet(1 .. n) /\ Cardinality(1 .. n) = n
    BY <1>1, FS_Interval
  <2>2. Cardinality(S) = Cardinality(1 .. n)
    BY <2>1 DEF n
  <2>3. rank \in Surjection(S, 1 .. n)
    BY <1>9, <2>1, <2>2, FS_Injection
  <2> QED BY <2>3 DEF Surjection
<1> DEFINE s == [k \in 1 .. n |-> CHOOSE a \in S : rank[a] = k]
<1>11. s \in [1 .. n -> S] /\ \A k \in 1 .. n : s[k] \in S /\ rank[s[k]] = k
  BY <1>10
<1> HIDE DEF s
<1>12. ASSUME NEW j \in 1 .. n, NEW i \in 1 .. j - 1 PROVE s[i] # s[j] /\ <<s[j], s[i]>> \notin R
  <2>1. i \in 1 .. n /\ i < j
    BY <1>1, <1>12
  <2>2. rank[s[i]] = i /\ rank[s[j]] = j /\ s[i] \in S /\ s[j] \in S
    BY <1>11, <2>1
  <2>3. s[i] # s[j]
    BY <2>1, <2>2, <1>1
  <2>4. ~(<<s[j], s[i]>> \in R)
    <3>1. SUFFICES ASSUME <<s[j], s[i]>> \in R PROVE FALSE
      OBVIOUS
    <3>2. rank[s[j]] < rank[s[i]]
      BY <1>8, <2>2, <3>1
    <3> QED BY <1>1, <2>1, <2>2, <3>2
  <2> QED BY <2>3, <2>4
<1>13. InLine(s, S, R)
  BY <1>11, <1>12 DEF InLine, n
<1> QED BY <1>11, <1>13 DEF n

LEMMA LineFacts ==
  ASSUME NEW S, IsFiniteSet(S), NEW R, NEW s, InLine(s, S, R)
  PROVE  /\ s \in Seq(S) /\ Len(s) = Cardinality(S) /\ Len(s) \in Nat /\ DOMAIN s = 1 .. Len(s)
         /\ \A k \in 1 .. Len(s) : s[k] \in S
         /\ \A a \in S : \E k \in 1 .. Len(s) : s[k] = a
         /\ \A i, j \in 1 .. Len(s) : i < j => s[i] # s[j] /\ <<s[j], s[i]>> \notin R
<1> DEFINE n == Cardinality(S)
<1>1. n \in Nat /\ IsFiniteSet(1 .. n) /\ Cardinality(1 .. n) = n
  BY FS_CardinalityType, FS_Interval
<1>2. s \in [1 .. n -> S]
  BY DEF InLine
<1>3. s \in Seq(S) /\ Len(s) = n /\ DOMAIN s = 1 .. n
  BY <1>1, <1>2
<1> HIDE DEF n
<1>4. \A i, j \in 1 .. n : i < j => s[i] # s[j] /\ <<s[j], s[i]>> \notin R
  <2>1. SUFFICES ASSUME NEW i \in 1 .. n, NEW j \in 1 .. n, i < j
                 PROVE  s[i] # s[j] /\ <<s[j], s[i]>> \notin R
    OBVIOUS
  <2>2. i \in 1 .. j - 1
    BY <1>1, <2>1
  <2> QED BY <1>3, <2>2 DEF InLine
<1>5. IsInjective(s)
  <2>1. SUFFICES ASSUME NEW i \in 1 .. n, NEW j \in 1 .. n, s[i] = s[j] PROVE i = j
    BY <1>3 DEF IsInjective
  <2>2. ~(i < j) /\ ~(j < i)
    BY <1>4, <2>1
  <2> QED BY <1>1, <2>2
<1>6. s \in Injection(1 .. n, S)
  BY <1>2, <1>5 DEF Injection, n
<1>7. s \in Surjection(1 .. n, S)
  BY <1>1, <1>6, FS_Injection DEF n
<1>8. \A a \in S : \E k \in 1 .. n : s[k] = a
  BY <1>7 DEF Surjection
<1> QED BY <1>1, <1>2, <1>3, <1>4, <1>8 DEF n

(* The indices Where keeps, in order.                                      *)
Ascending(T) ==
  CHOOSE s \in [1 .. Cardinality(T) -> T] :
    \A j \in DOMAIN s : \A i \in 1 .. j - 1 : s[i] # s[j] /\ ~(s[j] < s[i])

LEMMA AscendingFacts ==
  ASSUME NEW T, IsFiniteSet(T), T \subseteq Int
  PROVE  LET s == Ascending(T)
         IN  /\ s \in Seq(T) /\ Len(s) = Cardinality(T) /\ Len(s) \in Nat /\ DOMAIN s = 1 .. Len(s)
             /\ \A k \in 1 .. Len(s) : s[k] \in T
             /\ \A a \in T : \E k \in 1 .. Len(s) : s[k] = a
<1> DEFINE R == {p \in T \X T : p[1] < p[2]}
           s == Ascending(T)
<1>1. \A a, b \in T : <<a, b>> \in R <=> a < b
  OBVIOUS
<1> HIDE DEF R
<1>2. Orders(R, T)
  BY <1>1 DEF Orders
<1>3. PICK t \in [1 .. Cardinality(T) -> T] : InLine(t, T, R)
  BY <1>2, CanBeOrdered
<1>4. Cardinality(T) \in Nat
  BY FS_CardinalityType
<1>5. \A q \in [1 .. Cardinality(T) -> T] : InLine(q, T, R) <=>
         \A j \in DOMAIN q : \A i \in 1 .. j - 1 : q[i] # q[j] /\ ~(q[j] < q[i])
  <2>1. SUFFICES ASSUME NEW q \in [1 .. Cardinality(T) -> T], NEW j \in DOMAIN q, NEW i \in 1 .. j - 1
                 PROVE  <<q[j], q[i]>> \in R <=> q[j] < q[i]
    BY DEF InLine
  <2>2. i \in DOMAIN q
    BY <1>4
  <2> QED BY <1>1, <2>2
<1>6. InLine(s, T, R)
  BY <1>3, <1>5 DEF Ascending
<1> HIDE DEF s
<1> QED BY <1>6, LineFacts DEF s

(* Messages by time and id.                                                *)
Timed(d, S) == \A r \in S : d.msgs[r].ts \in Int /\ d.msgs[r].id \in Int

LEMMA OldestFirstFacts ==
  ASSUME NEW d, NEW S, IsFiniteSet(S), Timed(d, S)
  PROVE  LET s == OldestFirst(d, S)
         IN  /\ s \in Seq(S) /\ Len(s) = Cardinality(S) /\ Len(s) \in Nat /\ DOMAIN s = 1 .. Len(s)
             /\ \A k \in 1 .. Len(s) : s[k] \in S
             /\ \A a \in S : \E k \in 1 .. Len(s) : s[k] = a
             /\ \A i, j \in 1 .. Len(s) : i < j =>
                  s[i] # s[j] /\ ~Precedes(d.msgs[s[j]], d.msgs[s[i]].ts, d.msgs[s[i]].id)
<1> DEFINE R == {p \in S \X S : Precedes(d.msgs[p[1]], d.msgs[p[2]].ts, d.msgs[p[2]].id)}
           s == OldestFirst(d, S)
<1>1. \A a, b \in S : <<a, b>> \in R <=> Precedes(d.msgs[a], d.msgs[b].ts, d.msgs[b].id)
  OBVIOUS
<1> HIDE DEF R
<1>2. Orders(R, S)
  BY <1>1 DEF Orders, Precedes, Timed
<1>3. PICK t \in [1 .. Cardinality(S) -> S] : InLine(t, S, R)
  BY <1>2, CanBeOrdered
<1>4. Cardinality(S) \in Nat
  BY FS_CardinalityType
<1>5. \A q \in [1 .. Cardinality(S) -> S] : InLine(q, S, R) <=>
         \A j \in DOMAIN q : \A i \in 1 .. j - 1 :
            q[i] # q[j] /\ ~Precedes(d.msgs[q[j]], d.msgs[q[i]].ts, d.msgs[q[i]].id)
  <2>1. SUFFICES ASSUME NEW q \in [1 .. Cardinality(S) -> S], NEW j \in DOMAIN q, NEW i \in 1 .. j - 1
                 PROVE  <<q[j], q[i]>> \in R <=> Precedes(d.msgs[q[j]], d.msgs[q[i]].ts, d.msgs[q[i]].id)
    BY DEF InLine
  <2>2. i \in DOMAIN q
    BY <1>4
  <2> QED BY <1>1, <2>2
<1>6. InLine(s, S, R)
  BY <1>3, <1>5 DEF OldestFirst, InOrder
<1> HIDE DEF s
<1>7. /\ s \in Seq(S) /\ Len(s) = Cardinality(S) /\ Len(s) \in Nat /\ DOMAIN s = 1 .. Len(s)
      /\ \A k \in 1 .. Len(s) : s[k] \in S
      /\ \A a \in S : \E k \in 1 .. Len(s) : s[k] = a
      /\ \A i, j \in 1 .. Len(s) : i < j => s[i] # s[j] /\ <<s[j], s[i]>> \notin R
  BY <1>6, LineFacts
<1>8. \A i, j \in 1 .. Len(s) : i < j =>
        s[i] # s[j] /\ ~Precedes(d.msgs[s[j]], d.msgs[s[i]].ts, d.msgs[s[i]].id)
  BY <1>1, <1>7
<1> QED BY <1>7, <1>8 DEF s

----------------------------------------------------------------------------
(* Where a row comes from: its id, time, sender and place are those of a   *)
(* message some event carries, or of a send of this account (`mine`).      *)

(* A chat's address, as far as the place goes.                             *)
Placed(c, chat) == c \in Jids /\ c.d = 0 /\ SamePlace(c, chat)

Carried(m) == \E e \in Events : /\ e.type = "message" /\ e.w.id = m.id /\ e.w.ts = m.ts
                                /\ e.w.sender.u = m.sender.u
                                /\ OneChatPerID => Placed(m.chat, e.w.chat)
SentHere(m) == m.id \in Int /\ m.ts \in Int /\ m.id > 10 /\ m.sender.u = OwnJid.u
From(m, mine) == /\ {"chat", "id", "ts", "sender"} \subseteq DOMAIN m
                 /\ Carried(m) \/ (mine /\ SentHere(m))

TaskFrom(t, mine) ==
  /\ t.do = "row" => From(t.m, mine)
  /\ t.do \in {"message", "old"} => From(t.w, mine)
  /\ t.do = "conversation" => \A i \in 1 .. Len(t.c.msgs) : From([t.c.msgs[i] EXCEPT !.chat = t.c.jid], mine)
  /\ t.do = "read" => t.at \in Int /\ t.at < ToolMark
TasksFrom(s, mine) == IsSeq(s) /\ \A i \in 1 .. Len(s) : TaskFrom(s[i], mine)

RowsFrom(d, mine) == \A r \in DOMAIN d.msgs : From(d.msgs[r], mine)

LEMMA FromTimed ==
  ASSUME NEW m, NEW mine, From(m, mine)
  PROVE  m.ts \in Int /\ m.id \in Int
BY EventsAssumption DEF From, Carried, SentHere, Wires

(* A LID's chat and its phone number's are one place.                      *)
LEMMA StaysPlaced ==
  ASSUME NEW chat \in Jids, chat.d = 0, NEW c, Placed(c, chat), c.s = "lid"
  PROVE  Placed(Pn(c.u), chat)
<1>1. Pn(c.u) \in Jids /\ Pn(c.u).d = 0 /\ Pn(c.u).u = c.u /\ Pn(c.u).s = "pn"
  BY DEF Placed, Jids, Pn, Jid
<1>2. chat = [u |-> chat.u, s |-> chat.s, d |-> chat.d]
  BY DEF Jids
<1>3. CASE c = chat
  BY <1>1, <1>3 DEF Placed, SamePlace
<1>4. CASE c.u = chat.u /\ {c.s, chat.s} = {"lid", "pn"}
  <2>1. chat.s = "pn"
    BY <1>4
  <2>2. chat = Pn(c.u)
    BY <1>2, <1>4, <2>1 DEF Pn, Jid
  <2> QED BY <1>1, <2>2 DEF Placed, SamePlace
<1> QED BY <1>3, <1>4 DEF Placed, SamePlace

LEMMA StaysFrom ==
  ASSUME NEW m, NEW mine, From(m, mine), NEW n, {"chat", "id", "ts", "sender"} \subseteq DOMAIN n,
         n.id = m.id, n.ts = m.ts, n.sender.u = m.sender.u,
         n.chat = m.chat \/ (m.chat.s = "lid" /\ n.chat = Pn(m.chat.u))
  PROVE  From(n, mine)
<1>1. CASE Carried(m)
  <2>1. PICK e \in Events : /\ e.type = "message" /\ e.w.id = m.id /\ e.w.ts = m.ts
                            /\ e.w.sender.u = m.sender.u
                            /\ OneChatPerID => Placed(m.chat, e.w.chat)
    BY <1>1 DEF Carried
  <2>2. OneChatPerID => Placed(n.chat, e.w.chat)
    <3>1. OneChatPerID => e.w.chat \in Jids /\ e.w.chat.d = 0
      BY <2>1, EventsAssumption DEF OneChatPerID, Wires
    <3> QED BY <2>1, <3>1, StaysPlaced
  <2>3. Carried(n)
    BY <2>1, <2>2 DEF Carried
  <2> QED BY <2>3 DEF From
<1>2. CASE mine /\ SentHere(m)
  BY <1>2 DEF From, SentHere
<1> QED BY <1>1, <1>2 DEF From

LEMMA PhonePlace ==
  ASSUME NEW j, NEW known
  PROVE  /\ PhoneJID(j, known) = j \/ (j.s = "lid" /\ PhoneJID(j, known) = Pn(j.u))
         /\ PhoneJID(j, known).u = j.u
BY DEF PhoneJID, Pn, Jid

----------------------------------------------------------------------------
LEMMA ConcatFrom ==
  ASSUME NEW mine, NEW s, NEW t, TasksFrom(s, mine), TasksFrom(t, mine)
  PROVE  TasksFrom(s \o t, mine)
<1> DEFINE u == s \o t
<1>1. /\ IsSeq(u) /\ Len(s) \in Nat /\ Len(t) \in Nat /\ Len(u) = Len(s) + Len(t)
      /\ \A i \in 1 .. Len(s) : u[i] = s[i]
      /\ \A i \in 1 .. Len(t) : u[Len(s) + i] = t[i]
  BY ConcatSeq DEF TasksFrom
<1> HIDE DEF u
<1>2. ASSUME NEW i \in 1 .. Len(u)
      PROVE  TaskFrom(u[i], mine)
  <2>1. CASE i \in 1 .. Len(s)
    BY <1>1, <2>1 DEF TasksFrom
  <2>2. CASE i \notin 1 .. Len(s)
    <3>1. i - Len(s) \in 1 .. Len(t) /\ i = Len(s) + (i - Len(s))
      BY <1>1, <2>2
    <3> QED BY <1>1, <3>1 DEF TasksFrom
  <2> QED BY <2>1, <2>2
<1> QED BY <1>1, <1>2 DEF TasksFrom, u

LEMMA OneFrom ==
  ASSUME NEW mine, NEW c, NEW t, c => TaskFrom(t, mine)
  PROVE  TasksFrom(If(c, <<t>>), mine) /\ TasksFrom(<<>>, mine)
<1>1. <<>> \in Seq({}) /\ Len(<<>>) = 0
  OBVIOUS
<1>2. TasksFrom(<<>>, mine)
  BY <1>1 DEF TasksFrom, IsSeq
<1> DEFINE s == <<t>>
<1>3. s \in Seq({t}) /\ Len(s) = 1 /\ s[1] = t
  OBVIOUS
<1> HIDE DEF s
<1>4. CASE c
  <2>1. TasksFrom(s, mine)
    BY <1>3, <1>4 DEF TasksFrom, IsSeq
  <2> QED BY <1>2, <1>4, <2>1 DEF If, s
<1>5. CASE ~c
  BY <1>2, <1>5 DEF If
<1> QED BY <1>4, <1>5

LEMMA TwoFrom ==
  ASSUME NEW mine, NEW a, NEW b, TaskFrom(a, mine), TaskFrom(b, mine)
  PROVE  TasksFrom(<<a, b>>, mine)
<1> DEFINE s == <<a, b>>
<1>1. s \in Seq({a, b}) /\ Len(s) = 2 /\ s[1] = a /\ s[2] = b
  OBVIOUS
<1> HIDE DEF s
<1>2. \A i \in 1 .. Len(s) : i = 1 \/ i = 2
  BY <1>1
<1>3. TasksFrom(s, mine)
  BY <1>1, <1>2 DEF TasksFrom, IsSeq
<1> QED BY <1>3 DEF s

LEMMA TailFromToo ==
  ASSUME NEW mine, NEW s, TasksFrom(s, mine), s # <<>>
  PROVE  TaskFrom(Head(s), mine) /\ TasksFrom(Tail(s), mine)
<1>1. PICK S : s \in Seq(S)
  BY DEF TasksFrom, IsSeq
<1>2. Tail(s) \in Seq(S) /\ Len(Tail(s)) = Len(s) - 1 /\ Len(s) \in Nat /\ Len(s) > 0 /\ Head(s) = s[1]
  BY <1>1
<1>3. \A i \in 1 .. Len(Tail(s)) : i + 1 \in 1 .. Len(s) /\ Tail(s)[i] = s[i + 1]
  BY <1>1, <1>2
<1> QED BY <1>2, <1>3 DEF TasksFrom, IsSeq

(* Every other task says nothing of rows.                                  *)
LEMMA OtherFrom ==
  ASSUME NEW mine, NEW t, t.do \in {"chat", "lid", "contact", "call", "fold", "prune"}
  PROVE  TaskFrom(t, mine)
BY DEF TaskFrom

LEMMA IngestFrom ==
  ASSUME NEW mine, NEW w, From(w, mine), NEW known
  PROVE  TasksFrom(IngestMessage(w, known), mine)
<1> DEFINE m   == DecodeMessage(w, known)
           lp  == LIDPairing(w)
           cp  == ChatPairing(w)
           own == w.me \/ w.push = NoName
           s1 == If(lp # <<>>, <<WriteLID(lp[1], lp[3])>>)
           s2 == If(lp # <<>> /\ lp[1] # lp[2], <<WriteLID(lp[2], lp[3])>>)
           s3 == If(cp # <<>>, <<WriteLID(cp[1], cp[2])>>)
           a  == WriteChat(m.chat, ChatNameOf(w), w.group, w.ts)
           b  == [do |-> "row", m |-> m]
           s4 == <<a, b>>
           s5 == If(~own, <<WriteName(m.sender, w.push, NoName)>>)
           s6 == If(~own /\ lp # <<>> /\ lp[3] # m.sender, <<WriteName(lp[3], w.push, NoName)>>)
<1>1. \A lid, pn : TaskFrom(WriteLID(lid, pn), mine)
  BY OtherFrom DEF WriteLID
<1>2. \A jid, push, full : TaskFrom(WriteName(jid, push, full), mine)
  BY OtherFrom DEF WriteName
<1>3. TasksFrom(s1, mine) /\ TasksFrom(s2, mine) /\ TasksFrom(s3, mine) /\ TasksFrom(s5, mine) /\ TasksFrom(s6, mine)
  BY <1>1, <1>2, OneFrom
<1>4. TasksFrom(s4, mine)
  <2>1. TaskFrom(a, mine)
    BY OtherFrom DEF WriteChat
  <2>2. From(m, mine)
    <3>1. /\ {"chat", "id", "ts", "sender"} \subseteq DOMAIN m /\ m.id = w.id /\ m.ts = w.ts
          /\ m.chat = PhoneJID(w.chat, known) /\ m.sender = PhoneJID(w.sender, known)
      BY DEF DecodeMessage
    <3> HIDE DEF m
    <3> QED BY <3>1, PhonePlace, StaysFrom
  <2>3. TaskFrom(b, mine)
    <3> HIDE DEF m
    <3> QED BY <2>2 DEF TaskFrom
  <2> HIDE DEF a, b
  <2> QED BY <2>1, <2>3, TwoFrom
<1>5. IngestMessage(w, known) = s1 \o s2 \o s3 \o s4 \o s5 \o s6
  BY DEF IngestMessage
<1> HIDE DEF s1, s2, s3, s4, s5, s6
<1>6. TasksFrom(s1 \o s2, mine)
  BY <1>3, ConcatFrom
<1>7. TasksFrom(s1 \o s2 \o s3, mine)
  BY <1>3, <1>6, ConcatFrom
<1>8. TasksFrom(s1 \o s2 \o s3 \o s4, mine)
  BY <1>4, <1>7, ConcatFrom
<1>9. TasksFrom(s1 \o s2 \o s3 \o s4 \o s5, mine)
  BY <1>3, <1>8, ConcatFrom
<1>10. TasksFrom(s1 \o s2 \o s3 \o s4 \o s5 \o s6, mine)
  BY <1>3, <1>9, ConcatFrom
<1> QED BY <1>5, <1>10

LEMMA WrittenFrom ==
  ASSUME NEW mine
  PROVE  /\ \A w : From(w, mine) => TaskFrom([do |-> "old", w |-> w], mine)
         /\ \A c : (\A n \in 1 .. Len(c.msgs) : From([c.msgs[n] EXCEPT !.chat = c.jid], mine)) =>
                   TaskFrom([do |-> "conversation", c |-> c], mine)
  BY DEF TaskFrom

LEMMA SomeFrom ==
  ASSUME NEW mine, NEW n \in Nat, NEW s, s = [i \in 1 .. n |-> s[i]], \A i \in 1 .. n : TaskFrom(s[i], mine)
  PROVE  TasksFrom(s, mine)
<1> DEFINE S == {s[i] : i \in 1 .. n}
<1>1. s \in [1 .. n -> S]
  OBVIOUS
<1> HIDE DEF S
<1>2. s \in Seq(S) /\ Len(s) = n
  BY <1>1
<1> QED BY <1>2 DEF TasksFrom, IsSeq

LEMMA ConversationFrom ==
  ASSUME NEW mine, NEW c, c.msgs \in Seq(Wires),
         \A i \in 1 .. Len(c.msgs) : From([c.msgs[i] EXCEPT !.chat = c.jid], mine), NEW known
  PROVE  TasksFrom(IngestConversation(c, known), mine)
<1> DEFINE jid == PhoneJID(c.jid, known)
           t == WriteChat(jid, c.name, jid.s = "g", c.ts)
           s == [i \in DOMAIN c.msgs |-> [do |-> "old", w |-> [c.msgs[i] EXCEPT !.chat = jid]]]
<1>1. TasksFrom(If(TRUE, <<t>>), mine)
  <2>1. TaskFrom(t, mine)
    BY OtherFrom DEF WriteChat
  <2> QED BY <2>1, OneFrom
<1>2. DOMAIN c.msgs = 1 .. Len(c.msgs) /\ Len(c.msgs) \in Nat
  OBVIOUS
<1>3. ASSUME NEW i \in 1 .. Len(c.msgs)
      PROVE  From([c.msgs[i] EXCEPT !.chat = jid], mine)
  <2> DEFINE w == c.msgs[i]
             v == [w EXCEPT !.chat = c.jid]
             x == [w EXCEPT !.chat = jid]
  <2>1. w \in Wires /\ From(v, mine)
    OBVIOUS
  <2>2. {"chat", "id", "ts", "sender"} \subseteq DOMAIN w
    BY <2>1 DEF Wires
  <2>3. /\ v.chat = c.jid /\ v.id = w.id /\ v.ts = w.ts /\ v.sender = w.sender
        /\ x.chat = jid /\ x.id = w.id /\ x.ts = w.ts /\ x.sender = w.sender
        /\ {"chat", "id", "ts", "sender"} \subseteq DOMAIN x
    BY <2>2
  <2>5. x = [c.msgs[i] EXCEPT !.chat = jid]
    OBVIOUS
  <2> HIDE DEF w, v, x, jid
  <2>4. From(x, mine)
    BY <2>1, <2>3, PhonePlace, StaysFrom DEF jid
  <2> QED BY <2>4, <2>5
<1>4. \A i \in 1 .. Len(c.msgs) : TaskFrom(s[i], mine)
  <2>1. \A i \in 1 .. Len(c.msgs) : s[i] = [do |-> "old", w |-> [c.msgs[i] EXCEPT !.chat = jid]]
    BY <1>2
  <2> HIDE DEF s, jid
  <2> QED BY <1>3, <2>1, WrittenFrom
<1>5. s = [i \in 1 .. Len(c.msgs) |-> s[i]]
  BY <1>2
<1>6. IngestConversation(c, known) = If(TRUE, <<t>>) \o s
  BY DEF IngestConversation, If
<1> HIDE DEF s, t
<1>7. TasksFrom(s, mine)
  BY <1>2, <1>4, <1>5, SomeFrom
<1> QED BY <1>1, <1>6, <1>7, ConcatFrom

(* A message of a history sync is of its conversation.                     *)
LEMMA HistoryFrom ==
  ASSUME NEW mine, NEW e \in Events, e.type = "history"
  PROVE  TasksFrom(IngestHistorySync(e), mine)
<1> DEFINE s == [i \in DOMAIN e.convs |-> [do |-> "conversation", c |-> e.convs[i]]]
           t == [do |-> "fold"]
<1>1. /\ e.convs \in Seq(Conversations) /\ DOMAIN e.convs = 1 .. Len(e.convs) /\ Len(e.convs) \in Nat
      /\ \A i \in 1 .. Len(e.convs) : e.convs[i] \in Conversations
  BY EventsAssumption
<1>2. ASSUME NEW i \in 1 .. Len(e.convs), NEW n \in 1 .. Len(e.convs[i].msgs)
      PROVE  From([e.convs[i].msgs[n] EXCEPT !.chat = e.convs[i].jid], mine)
  <2> DEFINE c == e.convs[i]
             w == c.msgs[n]
             f == [type |-> "message", w |-> w]
             v == [w EXCEPT !.chat = c.jid]
  <2>1. c \in Conversations /\ c.jid \in Jids /\ c.msgs \in Seq(Wires) /\ w \in Wires
    BY <1>1 DEF Conversations
  <2>2. i \in DOMAIN e.convs /\ n \in DOMAIN e.convs[i].msgs
    BY <1>1, <2>1
  <2>3. f \in Events
    BY <2>2, EventsAssumption
  <2>4. f.type = "message" /\ f.w = w
    OBVIOUS
  <2>5. OneChatPerID => Placed(c.jid, w.chat)
    BY <2>1, <2>2 DEF OneChatPerID, Placed
  <2>8. v = [e.convs[i].msgs[n] EXCEPT !.chat = e.convs[i].jid]
    OBVIOUS
  <2> HIDE DEF f, w
  <2>6. /\ v.chat = c.jid /\ v.id = w.id /\ v.ts = w.ts /\ v.sender = w.sender
        /\ {"chat", "id", "ts", "sender"} \subseteq DOMAIN v
    BY <2>1 DEF Wires
  <2> HIDE DEF v, c
  <2>7. From(v, mine)
    BY <2>3, <2>4, <2>5, <2>6 DEF From, Carried
  <2> QED BY <2>7, <2>8
<1>3. \A i \in 1 .. Len(e.convs) : TaskFrom(s[i], mine)
  <2>1. \A i \in 1 .. Len(e.convs) : s[i] = [do |-> "conversation", c |-> e.convs[i]]
    BY <1>1
  <2> HIDE DEF s
  <2> QED BY <1>2, <2>1, WrittenFrom
<1>4. TasksFrom(If(TRUE, <<t>>), mine)
  <2>1. TaskFrom(t, mine)
    BY OtherFrom
  <2> QED BY <2>1, OneFrom
<1>5. s = [i \in 1 .. Len(e.convs) |-> s[i]]
  BY <1>1
<1>6. IngestHistorySync(e) = s \o If(TRUE, <<t>>)
  BY DEF IngestHistorySync, If
<1> HIDE DEF s, t
<1>7. TasksFrom(s, mine)
  BY <1>1, <1>3, <1>5, SomeFrom
<1> QED BY <1>4, <1>6, <1>7, ConcatFrom

LEMMA EventFrom ==
  ASSUME NEW mine, NEW e \in Events, NEW known
  PROVE  TasksFrom(HandleEvent(e, known), mine)
<1>1. CASE e.type = "message"
  <2> DEFINE t == [do |-> "message", w |-> e.w]
  <2>1. HandleEvent(e, known) = If(TRUE, <<t>>)
    BY <1>1 DEF HandleEvent, If
  <2>2. From(e.w, mine)
    <3>1. e.w \in Wires /\ e.w.chat \in Jids
      BY <1>1, EventsAssumption DEF Wires
    <3>2. OneChatPerID => Placed(e.w.chat, e.w.chat)
      BY <1>1, <3>1 DEF OneChatPerID, Placed, SamePlace
    <3>3. {"chat", "id", "ts", "sender"} \subseteq DOMAIN e.w
      BY <3>1 DEF Wires
    <3> QED BY <1>1, <3>2, <3>3 DEF From, Carried
  <2>3. TaskFrom(t, mine)
    BY <2>2 DEF TaskFrom
  <2> HIDE DEF t
  <2> QED BY <2>1, <2>3, OneFrom
<1>2. CASE e.type = "history"
  BY <1>2, HistoryFrom DEF HandleEvent
<1>3. CASE e.type = "receipt"
  <2> DEFINE t == [do |-> "read", jid |-> PhoneJID(e.chat, known), ids |-> e.ids, at |-> e.at]
  <2>1. HandleEvent(e, known) = If(e.read, <<t>>)
    BY <1>3 DEF HandleEvent
  <2>2. TaskFrom(t, mine)
    BY <1>3, EventsAssumption, SendAssumption DEF TaskFrom
  <2> HIDE DEF t
  <2> QED BY <2>1, <2>2, OneFrom
<1>4. CASE e.type = "call"
  <2> DEFINE t == [do |-> "call", id |-> e.id, peer |-> PhoneJID(e.from, known), ts |-> e.ts,
                   status |-> CallStatus(e.reason)]
  <2>1. HandleEvent(e, known) = If(TRUE, <<t>>)
    BY <1>4 DEF HandleEvent, If
  <2>2. TaskFrom(t, mine)
    BY OtherFrom
  <2> HIDE DEF t
  <2> QED BY <2>1, <2>2, OneFrom
<1>5. CASE e.type \in {"contact", "pushname", "group"}
  <2>1. \A jid, push, full : TaskFrom(WriteName(jid, push, full), mine)
    BY OtherFrom DEF WriteName
  <2>2. TaskFrom(WriteChat(e.jid, e.name, TRUE, e.ts), mine)
    BY OtherFrom DEF WriteChat
  <2>3. CASE e.type = "contact"
    BY <2>1, <2>3, OneFrom DEF HandleEvent
  <2>4. CASE e.type = "pushname"
    BY <2>1, <2>4, OneFrom DEF HandleEvent
  <2>5. CASE e.type = "group"
    BY <2>2, <2>5, OneFrom DEF HandleEvent
  <2> QED BY <1>5, <2>3, <2>4, <2>5
<1> QED BY <1>1, <1>2, <1>3, <1>4, <1>5, EventsAssumption DEF EventTypes

LEMMA TidyFrom == ASSUME NEW mine PROVE TasksFrom(TidyStore, mine)
<1>1. TaskFrom([do |-> "prune"], mine) /\ TaskFrom([do |-> "fold"], mine)
  BY OtherFrom
<1> QED BY <1>1, TwoFrom DEF TidyStore

(* This account sends.                                                   *)
Sends(mine) == mine

LEMMA OwnFrom ==
  ASSUME calls \in Nat \ {0}, taken \in Int, NEW c, NEW mine, Sends(mine)
  PROVE  From(OwnMessage(c), mine)
<1> DEFINE w == OwnMessage(c)
<1>1. w.id = 10 + calls /\ w.ts = taken /\ w.sender = OwnJid /\ {"chat", "id", "ts", "sender"} \subseteq DOMAIN w
  BY DEF OwnMessage
<1> HIDE DEF w
<1>2. SentHere(w)
  BY <1>1 DEF SentHere
<1> QED BY <1>1, <1>2 DEF From, Sends, w

----------------------------------------------------------------------------
(* What a transaction does to the rows it leaves: they come from where they *)
(* came from, and the mark a tool makes is the row's already.              *)
Same(d, e) ==
  \A r \in DOMAIN e.msgs :
    /\ r \in DOMAIN d.msgs
    /\ {"chat", "id", "ts", "sender"} \subseteq DOMAIN e.msgs[r]
    /\ e.msgs[r].id = d.msgs[r].id /\ e.msgs[r].ts = d.msgs[r].ts /\ e.msgs[r].sender.u = d.msgs[r].sender.u
    /\ e.msgs[r].chat = d.msgs[r].chat \/ (d.msgs[r].chat.s = "lid" /\ e.msgs[r].chat = Pn(d.msgs[r].chat.u))
    /\ e.msgs[r].read = ToolMark => d.msgs[r].read = ToolMark

MarksFrom(d, e) ==
  \A r \in DOMAIN e.msgs : e.msgs[r].read = ToolMark =>
    \E q \in DOMAIN d.msgs : d.msgs[q].read = ToolMark /\ d.msgs[q].id = e.msgs[r].id

LEMMA SameFrom ==
  ASSUME NEW mine, NEW d, RowsFrom(d, mine), NEW e, Same(d, e)
  PROVE  RowsFrom(e, mine) /\ MarksFrom(d, e)
BY StaysFrom DEF RowsFrom, Same, MarksFrom

LEMMA UpsertFrom ==
  ASSUME NEW mine, NEW d, RowsFrom(d, mine), Kempt(d, mine), NEW m, From(m, mine)
  PROVE  LET e == UpsertMessage(d, m) IN RowsFrom(e, mine) /\ MarksFrom(d, e)
<1> DEFINE e == UpsertMessage(d, m)
           hit == RowAt(d, m.chat, m.id)
           r == IF hit = {} THEN NextRowID(d) ELSE OneOf(hit)
           at == IF hit = {} THEN 0 ELSE d.msgs[r].read
           row == Put(m, "read", at)
<1>1. e.msgs = Put(d.msgs, r, row)
  BY DEF UpsertMessage, Kempt
<1>2. at = ToolMark => \E q \in DOMAIN d.msgs : d.msgs[q].read = ToolMark /\ d.msgs[q].id = m.id
  <2>1. CASE hit = {}
    BY <2>1 DEF ToolMark
  <2>2. CASE hit # {}
    <3>1. r \in hit
      BY <2>2 DEF OneOf
    <3> QED BY <3>1, <2>2 DEF RowAt, RowsOf
  <2> QED BY <2>1, <2>2
<1> HIDE DEF r, at, e
<1>3. /\ row.chat = m.chat /\ row.id = m.id /\ row.ts = m.ts /\ row.sender = m.sender /\ row.read = at
      /\ {"chat", "id", "ts", "sender"} \subseteq DOMAIN row
  BY DEF Put, From
<1> HIDE DEF row
<1>4. /\ DOMAIN e.msgs = DOMAIN d.msgs \cup {r} /\ e.msgs[r] = row
      /\ \A q \in DOMAIN d.msgs : q # r => e.msgs[q] = d.msgs[q]
  BY <1>1 DEF Put
<1>5. From(row, mine)
  BY <1>3, StaysFrom
<1>6. RowsFrom(e, mine)
  BY <1>4, <1>5 DEF RowsFrom
<1>7. MarksFrom(d, e)
  BY <1>2, <1>3, <1>4 DEF MarksFrom
<1> QED BY <1>6, <1>7 DEF e

LEMMA FoldFrom ==
  ASSUME NEW mine, NEW d, RowsFrom(d, mine), Kempt(d, mine), NEW known
  PROVE  LET e == FoldLIDs(d, known) IN RowsFrom(e, mine) /\ MarksFrom(d, e)
<1> DEFINE d1 == FoldChats(d, known)
           d2 == FoldSenders(d1, known)
           d3 == FoldContacts(d2, known)
           d4 == FoldCalls(d3, known)
           lids == Foldable(DOMAIN d.chats, known)
           moves(r) == d.msgs[r].chat \in lids
           to(r)    == IF moves(r) THEN Pn(d.msgs[r].chat.u) ELSE d.msgs[r].chat
           twice(r) == moves(r) /\ \E q \in DOMAIN d.msgs \ {r} :
                         d.msgs[q].id = d.msgs[r].id /\ to(q) = to(r) /\ (moves(q) => q < r)
<1>0. Kempt(d1, mine)
  BY FoldChatsKeeps
<1>1. Same(d, d1)
  <2>1. d1.msgs = [r \in {q \in DOMAIN d.msgs : ~twice(q)} |-> [d.msgs[r] EXCEPT !.chat = to(r)]]
    BY DEF FoldChats, RowsAfterFold, Kempt
  <2>2. \A r \in DOMAIN d.msgs : to(r) = d.msgs[r].chat \/ (d.msgs[r].chat.s = "lid" /\ to(r) = Pn(d.msgs[r].chat.u))
    BY DEF Foldable
  <2> HIDE DEF d1, to, lids
  <2>3. ASSUME NEW r \in DOMAIN d1.msgs
        PROVE  r \in DOMAIN d.msgs /\ d1.msgs[r] = [d.msgs[r] EXCEPT !.chat = to(r)]
    BY <2>1
  <2>4. ASSUME NEW r \in DOMAIN d1.msgs
        PROVE  /\ {"chat", "id", "ts", "sender", "read"} \subseteq DOMAIN d1.msgs[r]
               /\ d1.msgs[r].id = d.msgs[r].id /\ d1.msgs[r].ts = d.msgs[r].ts
               /\ d1.msgs[r].sender = d.msgs[r].sender /\ d1.msgs[r].read = d.msgs[r].read
               /\ d1.msgs[r].chat = to(r)
    <3>1. {"chat", "id", "ts", "sender", "read"} \subseteq DOMAIN d.msgs[r]
      BY <2>3 DEF RowsFrom, From, Kempt
    <3> QED BY <2>3, <3>1
  <2> QED BY <2>2, <2>3, <2>4 DEF Same
<1> HIDE DEF d1
<1>2. RowsFrom(d1, mine) /\ MarksFrom(d, d1)
  BY <1>1, SameFrom
<1>3. Same(d1, d2)
  <2>1. d2.msgs = [r \in DOMAIN d1.msgs |-> [d1.msgs[r] EXCEPT !.sender = PhoneJID(d1.msgs[r].sender, known)]]
    BY <1>0 DEF FoldSenders, Kempt
  <2> HIDE DEF d2
  <2>2. ASSUME NEW r \in DOMAIN d2.msgs
        PROVE  r \in DOMAIN d1.msgs /\ d2.msgs[r] = [d1.msgs[r] EXCEPT !.sender = PhoneJID(d1.msgs[r].sender, known)]
    BY <2>1
  <2>3. ASSUME NEW r \in DOMAIN d2.msgs
        PROVE  /\ {"chat", "id", "ts", "sender"} \subseteq DOMAIN d2.msgs[r]
               /\ d2.msgs[r].id = d1.msgs[r].id /\ d2.msgs[r].ts = d1.msgs[r].ts
               /\ d2.msgs[r].sender.u = d1.msgs[r].sender.u /\ d2.msgs[r].read = d1.msgs[r].read
               /\ d2.msgs[r].chat = d1.msgs[r].chat
    <3>1. {"chat", "id", "ts", "sender", "read"} \subseteq DOMAIN d1.msgs[r]
      BY <2>2, <1>0, <1>2 DEF RowsFrom, From, Kempt
    <3>2. PhoneJID(d1.msgs[r].sender, known).u = d1.msgs[r].sender.u
      BY PhonePlace
    <3> QED BY <2>2, <3>1, <3>2
  <2> QED BY <2>2, <2>3 DEF Same
<1>4. RowsFrom(d2, mine) /\ MarksFrom(d, d2)
  <2> HIDE DEF d2
  <2> QED BY <1>2, <1>3, SameFrom DEF MarksFrom
<1>5. DOMAIN d2 = {"chats", "msgs", "contacts", "lids", "calls"}
  BY <1>0 DEF FoldSenders, Kempt
<1> HIDE DEF d2
<1>6. d3.msgs = d2.msgs /\ DOMAIN d3 = DOMAIN d2
  BY <1>5 DEF FoldContacts
<1> HIDE DEF d3
<1>7. d4.msgs = d2.msgs
  BY <1>5, <1>6 DEF FoldCalls
<1> HIDE DEF d4
<1>8. RowsFrom(d4, mine) /\ MarksFrom(d, d4)
  BY <1>4, <1>7 DEF RowsFrom, MarksFrom
<1>9. d4 = FoldLIDs(d, known)
  BY DEF FoldLIDs, d1, d2, d3, d4
<1> QED BY <1>8, <1>9

LEMMA MarkReadFrom ==
  ASSUME NEW mine, NEW d, RowsFrom(d, mine), Kempt(d, mine), NEW chat, NEW ids, NEW at \in Int
  PROVE  LET e == MarkRead(d, chat, ids, at)
         IN  /\ RowsFrom(e, mine) /\ DOMAIN e.msgs = DOMAIN d.msgs
             /\ \A r \in DOMAIN d.msgs :
                  /\ e.msgs[r].id = d.msgs[r].id /\ e.msgs[r].sender = d.msgs[r].sender
                  /\ \/ e.msgs[r].read = d.msgs[r].read
                     \/ d.msgs[r].id \in ids /\ e.msgs[r].read = at
<1> DEFINE e == MarkRead(d, chat, ids, at)
<1>1. e.msgs = [r \in DOMAIN d.msgs |->
                  IF d.msgs[r].chat = chat /\ d.msgs[r].id \in ids
                  THEN [d.msgs[r] EXCEPT !.read = Later(d.msgs[r].read, at)] ELSE d.msgs[r]]
  BY DEF MarkRead, Kempt
<1> HIDE DEF e
<1>2. DOMAIN e.msgs = DOMAIN d.msgs
  BY <1>1
<1>3. ASSUME NEW r \in DOMAIN d.msgs
      PROVE  /\ {"chat", "id", "ts", "sender"} \subseteq DOMAIN e.msgs[r]
             /\ e.msgs[r].id = d.msgs[r].id /\ e.msgs[r].ts = d.msgs[r].ts /\ e.msgs[r].sender = d.msgs[r].sender
             /\ e.msgs[r].chat = d.msgs[r].chat
             /\ \/ e.msgs[r].read = d.msgs[r].read
                \/ d.msgs[r].id \in ids /\ e.msgs[r].read = at
  <2>1. {"chat", "id", "ts", "sender", "read"} \subseteq DOMAIN d.msgs[r]
    BY DEF RowsFrom, From, Kempt
  <2>2. Later(d.msgs[r].read, at) \in {d.msgs[r].read, at}
    BY DEF Later
  <2>3. \/ e.msgs[r] = [d.msgs[r] EXCEPT !.read = Later(d.msgs[r].read, at)] /\ d.msgs[r].id \in ids
        \/ e.msgs[r] = d.msgs[r]
    BY <1>1
  <2> QED BY <2>1, <2>2, <2>3
<1>4. RowsFrom(e, mine)
  BY <1>2, <1>3, StaysFrom DEF RowsFrom
<1> QED BY <1>2, <1>3, <1>4 DEF e

LEMMA CommitFrom ==
  ASSUME NEW mine, NEW d, RowsFrom(d, mine), Kempt(d, mine), NEW t, TaskFrom(t, mine), t.do \in Writes, NEW known
  PROVE  LET e == Commit(d, t, known) IN RowsFrom(e, mine) /\ MarksFrom(d, e)
<1> DEFINE e == Commit(d, t, known)
<1>1. CASE t.do \in {"chat", "lid", "contact", "call"}
  <2>1. e.msgs = d.msgs
    BY <1>1 DEF Commit, UpsertChat, UpsertLIDMapping, UpsertContact, InsertCall, Kempt
  <2> HIDE DEF e
  <2>2. RowsFrom(e, mine) /\ MarksFrom(d, e)
    BY <2>1 DEF RowsFrom, MarksFrom
  <2> QED BY <2>2 DEF e
<1>2. CASE t.do = "row"
  <2>1. e = UpsertMessage(d, t.m) /\ From(t.m, mine)
    BY <1>2 DEF Commit, TaskFrom
  <2> HIDE DEF e
  <2>2. RowsFrom(e, mine) /\ MarksFrom(d, e)
    BY <2>1, UpsertFrom
  <2> QED BY <2>2 DEF e
<1>3. CASE t.do = "read"
  <2>1. e = MarkRead(d, t.jid, t.ids, t.at) /\ t.at \in Int /\ t.at < ToolMark
    BY <1>3 DEF Commit, TaskFrom
  <2> HIDE DEF e
  <2>2. RowsFrom(e, mine) /\ MarksFrom(d, e)
    BY <2>1, MarkReadFrom DEF MarksFrom, ToolMark
  <2> QED BY <2>2 DEF e
<1>4. CASE t.do = "fold"
  <2>1. e = FoldLIDs(d, known)
    BY <1>4 DEF Commit
  <2> QED BY <2>1, FoldFrom
<1>5. CASE t.do = "prune"
  <2> DEFINE kept  == {r \in DOMAIN d.msgs : ~Stub(d.msgs[r])}
  <2>1. e.msgs = [r \in kept |-> d.msgs[r]]
    BY <1>5 DEF Commit, PruneStubMessages, Restrict, Kempt
  <2> HIDE DEF e
  <2>2. RowsFrom(e, mine) /\ MarksFrom(d, e)
    BY <2>1 DEF RowsFrom, MarksFrom
  <2> QED BY <2>2 DEF e
<1> QED BY <1>1, <1>2, <1>3, <1>4, <1>5 DEF Writes

----------------------------------------------------------------------------
FromInv(mine) == RowsFrom(db, mine) /\ TasksFrom(todo, mine) /\ TasksFrom(outbox, mine)
IFrom == IF reader = "sender" THEN FromInv(TRUE) ELSE FromInv(FALSE)

LEMMA FromInit == ASSUME ClientsInit, NEW mine PROVE FromInv(mine)
<1>1. db = EmptyDB /\ todo = TidyStore /\ outbox = <<>>
  BY DEF ClientsInit, ReadInit, SendInit, Init
<1>2. RowsFrom(db, mine)
  BY <1>1 DEF RowsFrom, EmptyDB
<1>3. TasksFrom(<<>>, mine)
  <2>1. TaskFrom([do |-> "fold"], mine)
    BY OtherFrom
  <2> QED BY <2>1, OneFrom
<1> QED BY <1>1, <1>2, <1>3, TidyFrom DEF FromInv

LEMMA SameStore ==
  ASSUME NEW mine, FromInv(mine), UNCHANGED db, TasksFrom(todo', mine), TasksFrom(outbox', mine)
  PROVE  FromInv(mine)' /\ MarksFrom(db, db')
BY DEF FromInv, RowsFrom, MarksFrom

LEMMA FromBridge ==
  ASSUME NEW mine, SayInv(mine), FromInv(mine), Ingesting \/ Handling \/ (\E e \in Events : Take(e)), UNCHANGED sendVars
  PROVE  FromInv(mine)' /\ MarksFrom(db, db')
<1> USE DEF FromInv
<1>0. TasksFrom(outbox', mine) /\ outbox' = outbox
  BY DEF sendVars
<1>2. CASE \E e \in Events : Take(e)
  BY <1>0, <1>2, SameStore, EventFrom DEF Take
<1>3. CASE Decode
  <2>1. /\ todo # <<>> /\ Reads(Head(todo)) /\ UNCHANGED db
        /\ todo' = IngestMessage(Head(todo).w, device \cup cache') \o Tail(todo)
    BY <1>3 DEF Decode
  <2>2. TasksFrom(Tail(todo), mine) /\ From(Head(todo).w, mine)
    BY <2>1, TailFromToo DEF Reads, TaskFrom
  <2> QED BY <1>0, <2>1, <2>2, SameStore, IngestFrom, ConcatFrom
<1>4. CASE PassOver
  BY <1>0, <1>4, SameStore, TailFromToo DEF PassOver
<1>5. CASE OpenConversation
  <2>1. /\ todo # <<>> /\ Head(todo).do = "conversation" /\ UNCHANGED db
        /\ todo' = IngestConversation(Head(todo).c, Known) \o Tail(todo)
    BY <1>5 DEF OpenConversation
  <2>2. TaskFrom(Head(todo), mine) /\ TasksFrom(Tail(todo), mine)
    BY <2>1, TailFromToo
  <2>3. TaskSays(Head(todo), mine)
    BY <2>1, TailSays DEF SayInv
  <2>4. Head(todo).c.msgs \in Seq(Wires)
    BY <2>1, <2>3 DEF TaskSays
  <2>5. TasksFrom(IngestConversation(Head(todo).c, Known), mine)
    BY <2>1, <2>2, <2>4, ConversationFrom DEF TaskFrom
  <2> QED BY <1>0, <2>1, <2>2, <2>5, SameStore, ConcatFrom
<1>6. CASE Write
  <2>1. /\ todo # <<>> /\ Head(todo).do \notin {"message", "old", "conversation"}
        /\ db' = Commit(db, Head(todo), Known) /\ todo' = Tail(todo)
    BY <1>6 DEF Write
  <2>2. TaskFrom(Head(todo), mine) /\ TasksFrom(Tail(todo), mine)
    BY <2>1, TailFromToo
  <2>3. Head(todo).do \in Writes /\ Kempt(db, mine)
    BY <2>1, TailSays DEF TaskSays, SayInv
  <2> QED BY <1>0, <2>1, <2>2, <2>3, CommitFrom
<1>7. CASE Stop
  BY <1>0, <1>7, SameStore, TidyFrom DEF Stop
<1>8. CASE \E u \in Users : LearnPairing(u)
  BY <1>0, <1>8, SameStore DEF LearnPairing
<1> QED BY <1>2, <1>3, <1>4, <1>5, <1>6, <1>7, <1>8 DEF Ingesting, Handling

LEMMA FromSending ==
  ASSUME NEW mine, Sends(mine), SayInv(mine), FromInv(mine), Sending
  PROVE  FromInv(mine)' /\ (MarkLocally \/ MarksFrom(db, db'))
<1> USE DEF FromInv
<1>1. ASSUME UNCHANGED <<db, todo, outbox>> PROVE FromInv(mine)' /\ MarksFrom(db, db')
  BY <1>1, SameStore
<1>2. ASSUME NEW kind, NEW to, NEW id, Submit(kind, to, id) PROVE UNCHANGED <<db, todo, outbox>>
  BY <1>2 DEF Submit, ingestVars
<1>3. ASSUME NEW chat, NEW ids, MarkReadCall(chat, ids) PROVE UNCHANGED <<db, todo, outbox>>
  BY <1>3 DEF MarkReadCall, ingestVars
<1>4. ASSUME NEW sent, Deliver(sent) PROVE FromInv(mine)' /\ MarksFrom(db, db')
  <2>1. /\ call.op = "send" /\ UNCHANGED <<db, todo>>
        /\ \/ outbox' = <<>>
           \/ outbox' = IngestMessage(OwnMessage(call), Known)
    BY <1>4 DEF Deliver, ingestVars, RecordOutbound
  <2>2. calls \in Nat \ {0} /\ taken \in Int
    BY <2>1 DEF SayInv
  <2>3. TasksFrom(<<>>, mine)
    <3>1. TaskFrom([do |-> "fold"], mine)
      BY OtherFrom
    <3> QED BY <3>1, OneFrom
  <2>4. TasksFrom(outbox', mine)
    BY <2>1, <2>2, <2>3, OwnFrom, IngestFrom
  <2> QED BY <2>1, <2>4, SameStore
<1>5. ASSUME NEW sent, DeliverRead(sent) PROVE UNCHANGED <<db, todo, outbox>>
  BY <1>5 DEF DeliverRead, ingestVars
<1>6. ASSUME Record PROVE FromInv(mine)' /\ MarksFrom(db, db')
  <2>1. /\ outbox # <<>> /\ todo' = todo
        /\ db' = Commit(db, Head(outbox), Known) /\ outbox' = Tail(outbox)
    BY <1>6 DEF Record
  <2>2. TaskFrom(Head(outbox), mine) /\ TasksFrom(Tail(outbox), mine)
    BY <2>1, TailFromToo
  <2>3. Head(outbox).do \in Writes /\ Kempt(db, mine)
    <3>1. PICK S : outbox \in Seq(S)
      BY DEF TasksFrom, IsSeq
    <3>2. Len(outbox) \in Nat /\ Len(outbox) > 0 /\ Head(outbox) = outbox[1]
      BY <2>1, <3>1
    <3> QED BY <3>2 DEF SayInv
  <2> QED BY <2>1, <2>2, <2>3, CommitFrom
<1>7. ASSUME MarkLocally PROVE FromInv(mine)'
  <2>1. UNCHANGED <<todo, outbox>> /\ db' = MarkRead(db, call.to, Head(call.groups).ids, ToolMark)
    BY <1>7 DEF MarkLocally
  <2>2. ToolMark \in Int /\ Kempt(db, mine)
    BY DEF ToolMark, SayInv
  <2> QED BY <2>1, <2>2, MarkReadFrom
<1> QED BY <1>1, <1>2, <1>3, <1>4, <1>5, <1>6, <1>7 DEF Sending

LEMMA FromStep ==
  ASSUME ISay, IFrom, [ClientsNext]_clientVars
  PROVE  IFrom' /\ (MarkLocally \/ MarksFrom(db, db'))
<1>0. reader' = reader
  BY DEF ClientsNext, ReadNext, clientVars, allVars, readVars, BridgeStep, Polling, EditScope, FetchOlder, Clicking, Browsing
<1>1. ASSUME UNCHANGED <<ingestVars, sendVars>>, NEW mine, FromInv(mine)
      PROVE  FromInv(mine)' /\ MarksFrom(db, db')
  BY <1>1, SameStore DEF FromInv, ingestVars, sendVars
<1>2. ASSUME BridgeStep, UNCHANGED sendVars, NEW mine, SayInv(mine), FromInv(mine)
      PROVE  FromInv(mine)' /\ MarksFrom(db, db')
  <2>1. reader # "none" => Watched[reader] \subseteq Events
    BY ReadersAssumption DEF ISay
  <2>2. Ingesting \/ Handling \/ \E e \in Events : Take(e)
    BY <1>2, <2>1 DEF BridgeStep
  <2> QED BY <1>2, <2>2, FromBridge
<1>3. \/ UNCHANGED <<ingestVars, sendVars>>
      \/ BridgeStep /\ UNCHANGED sendVars
      \/ reader = "sender" /\ Sending
  BY DEF ClientsNext, ReadNext, clientVars, allVars, Polling, EditScope, FetchOlder, Clicking, Browsing
<1>4. CASE reader = "sender"
  <2>1. SayInv(TRUE) /\ FromInv(TRUE)
    BY <1>4 DEF ISay, IFrom
  <2>2. FromInv(TRUE)' /\ (MarkLocally \/ MarksFrom(db, db'))
    <3>1. Sends(TRUE)
      BY DEF Sends
    <3> QED BY <1>1, <1>2, <1>3, <2>1, <3>1, FromSending
  <2> QED BY <1>0, <1>4, <2>2 DEF IFrom
<1>5. CASE reader # "sender"
  <2>1. SayInv(FALSE) /\ FromInv(FALSE)
    BY <1>5 DEF ISay, IFrom
  <2>2. FromInv(FALSE)' /\ MarksFrom(db, db')
    BY <1>1, <1>2, <1>3, <1>5, <2>1
  <2> QED BY <1>0, <1>5, <2>2 DEF IFrom
<1> QED BY <1>4, <1>5

----------------------------------------------------------------------------
(* mark_read and its receipts.                                             *)

(* The message of that id is a message of that user.                       *)
Wrote(u, id) == \/ \E e \in Events : e.type = "message" /\ e.w.id = id /\ e.w.sender.u = u
                \/ id > 10 /\ u = OwnJid.u

LEMMA WroteIt ==
  ASSUME OneSenderPerID
  PROVE  /\ \A m, mine : From(m, mine) => Wrote(m.sender.u, m.id)
         /\ \A u, v, id : Wrote(u, id) /\ Wrote(v, id) => u = v
BY DEF OneSenderPerID, Wrote, From, Carried, SentHere

(* The groups of a call: each of its ids a message of the group's author.  *)
GroupsOK(gs) == IsSeq(gs) /\ gs # <<>> /\ \A i \in 1 .. Len(gs) : \A id \in gs[i].ids : Wrote(gs[i].author.u, id)

MarkInv ==
  /\ call.op \in {"read", "mark"} => GroupsOK(call.groups)
  /\ call.op = "mark" => \E rc \in receipts : /\ rc.ids = Head(call.groups).ids
                                              /\ rc.author = Head(call.groups).author
  /\ MarkedHasReceipt

(* The sender looked up is the sender of the message.                      *)
LEMMA AuthorLookup ==
  ASSUME OneSenderPerID, NEW mine, NEW d, RowsFrom(d, mine), Kempt(d, mine), NEW chat, NEW id,
         ResolveMessageAuthor(d, chat, id) # {}
  PROVE  Wrote(OneOf(ResolveMessageAuthor(d, chat, id)).u, id)
<1> DEFINE hit == RowAt(d, chat, id)
           t   == OneOf(hit)
           m   == d.msgs[t]
           lo  == {r \in RowsOf(d, chat) : Precedes(d.msgs[r], m.ts, m.id)}
           hi  == {r \in RowsOf(d, chat) : Follows(d.msgs[r], m.ts, m.id)}
           ctx == MessageContext(d, chat, id, 0, 0)
<1>1. CASE hit = {}
  <2>1. ctx = <<>>
    BY <1>1 DEF MessageContext
  <2>2. ToSet(ctx) = {}
    BY <2>1 DEF ToSet
  <2> QED BY <2>2 DEF ResolveMessageAuthor
<1>2. CASE hit # {}
  <2>1. t \in hit /\ t \in DOMAIN d.msgs /\ d.msgs[t].id = id
    BY <1>2 DEF OneOf, RowAt, RowsOf
  <2>2. IsFiniteSet(lo) /\ IsFiniteSet(hi) /\ Timed(d, lo) /\ Timed(d, hi)
    BY FS_Subset, FromTimed DEF Kempt, RowsOf, RowsFrom, Timed
  <2>3. ClampContext(0) = 0
    BY StoreAssumption DEF ClampContext
  <2>4. FirstN(NewestFirst(d, lo), 0) = <<>> /\ FirstN(OldestFirst(d, hi), 0) = <<>>
    <3> DEFINE p == OldestFirst(d, lo)
               q == OldestFirst(d, hi)
    <3>1. p \in Seq(lo) /\ q \in Seq(hi)
      BY <2>2, OldestFirstFacts
    <3>2. NewestFirst(d, lo) = Reverse(p)
      BY DEF NewestFirst
    <3> HIDE DEF p, q
    <3>3. Reverse(p) \in Seq(lo)
      BY <3>1 DEF Reverse
    <3>4. \A S : \A s \in Seq(S) : SubSeq(s, 1, IF 0 < Len(s) THEN 0 ELSE Len(s)) = <<>>
      <4>1. SUFFICES ASSUME NEW S, NEW s \in Seq(S)
                     PROVE  SubSeq(s, 1, IF 0 < Len(s) THEN 0 ELSE Len(s)) = <<>>
        OBVIOUS
      <4>2. (IF 0 < Len(s) THEN 0 ELSE Len(s)) = 0
        OBVIOUS
      <4>3. SubSeq(s, 1, 0) = <<>>
        OBVIOUS
      <4> QED BY <4>2, <4>3
    <3> QED BY <3>1, <3>2, <3>3, <3>4 DEF FirstN, q
  <2>5. ctx = Reverse(<<>>) \o <<t>> \o <<>>
    BY <1>2, <2>3, <2>4 DEF MessageContext
  <2>6. ctx = <<t>>
    <3>1. Reverse(<<>>) = <<>>
      BY DEF Reverse
    <3> HIDE DEF t, ctx
    <3>2. \A x : <<>> \o <<x>> \o <<>> = <<x>>
      OBVIOUS
    <3> QED BY <2>5, <3>1, <3>2
  <2>7. ToSet(ctx) = {t}
    <3> HIDE DEF t, ctx
    <3> QED BY <2>6 DEF ToSet
  <2>8. OneOf(ResolveMessageAuthor(d, chat, id)) = d.msgs[t].sender
    <3> HIDE DEF t
    <3> QED BY <2>7 DEF ResolveMessageAuthor, OneOf
  <2>9. From(d.msgs[t], mine)
    BY <2>1 DEF RowsFrom
  <2> QED BY <2>1, <2>8, <2>9, WroteIt
<1> QED BY <1>1, <1>2

----------------------------------------------------------------------------
LEMMA StoredFinite == ASSUME NEW mine, Kempt(db, mine) PROVE IsFiniteSet(StoredIDs)
<1> DEFINE f == [r \in DOMAIN db.msgs |-> db.msgs[r].id]
<1>1. f \in Surjection(DOMAIN db.msgs, StoredIDs)
  BY DEF Surjection, StoredIDs
<1> QED BY <1>1, FS_Surjection DEF Kempt

LEMMA PermutationIDs ==
  ASSUME NEW S, IsFiniteSet(S), NEW ids \in SetToAllKPermutations(S), ids # <<>>
  PROVE  \E n \in Nat \ {0} : ids \in [1 .. n -> S]
<1>1. PICK T \in SUBSET S : ids \in SetToSeqs(T)
  BY DEF SetToAllKPermutations
<1>2. Cardinality(T) \in Nat
  BY FS_Subset, FS_CardinalityType
<1>3. ids \in [1 .. Cardinality(T) -> T]
  BY <1>1 DEF SetToSeqs
<1>4. Cardinality(T) # 0
  <2>1. ASSUME Cardinality(T) = 0 PROVE FALSE
    <3>1. ids \in Seq({}) /\ Len(ids) = 0
      <4>1. 1 .. 0 = {} /\ ids \in [1 .. 0 -> T]
        BY <1>3, <2>1
      <4>2. ids \in [1 .. 0 -> {}]
        BY <4>1
      <4> QED BY <4>2
    <3> QED BY <3>1
  <2> QED BY <2>1
<1> QED BY <1>2, <1>3, <1>4

LEMMA GroupsFormed ==
  ASSUME OneSenderPerID, NEW mine, NEW d, RowsFrom(d, mine), Kempt(d, mine), NEW chat, NEW S,
         NEW n \in Nat \ {0}, NEW ids \in [1 .. n -> S],
         \A i \in DOMAIN ids : ResolveMessageAuthor(d, chat, ids[i]) # {}
  PROVE  GroupsOK(GroupMessageIDsBySender(d, chat, ids))
<1> DEFINE author(id) == OneOf(ResolveMessageAuthor(d, chat, id))
           first(i)   == \A k \in 1 .. i - 1 : author(ids[k]) # author(ids[i])
           own        == [i \in DOMAIN ids |-> i]
           T          == {i \in DOMAIN own : first(own[i])}
           at         == Ascending(T)
           firsts     == Where(own, first)
           of(a)      == {id \in ToSet(ids) : author(id) = a}
           gs         == GroupMessageIDsBySender(d, chat, ids)
<1>1. \A i \in 1 .. n : Wrote(author(ids[i]).u, ids[i])
  BY AuthorLookup
<1>2. DOMAIN ids = 1 .. n /\ ToSet(ids) = {ids[i] : i \in 1 .. n}
  BY DEF ToSet
<1>3. firsts = [k \in DOMAIN at |-> own[at[k]]]
  BY DEF Where, InOrder, Ascending
<1>4. gs = [k \in DOMAIN firsts |-> [author |-> author(ids[firsts[k]]), ids |-> of(author(ids[firsts[k]]))]]
  BY DEF GroupMessageIDsBySender
<1>5. IsFiniteSet(T) /\ T \subseteq Int /\ T \subseteq 1 .. n
  <2>1. T \subseteq 1 .. n
    BY <1>2
  <2> QED BY <2>1, FS_Interval, FS_Subset
<1>6. 1 \in T
  <2>1. 1 \in 1 .. n /\ own[1] = 1 /\ 1 .. 1 - 1 = {} /\ DOMAIN own = 1 .. n
    BY <1>2
  <2>2. first(1)
    BY <2>1
  <2> QED BY <2>1, <2>2
<1>7. /\ at \in Seq(T) /\ Len(at) \in Nat /\ DOMAIN at = 1 .. Len(at)
      /\ \A k \in 1 .. Len(at) : at[k] \in T
      /\ \E k \in 1 .. Len(at) : at[k] = 1
  BY <1>5, <1>6, AscendingFacts
<1> HIDE DEF author, own, T, at, of
<1>8. DOMAIN firsts = 1 .. Len(at)
  BY <1>3, <1>7
<1> HIDE DEF firsts, gs
<1>9. DOMAIN gs = 1 .. Len(at) /\ Len(at) > 0
  BY <1>4, <1>7, <1>8
<1>10. IsSeq(gs) /\ Len(gs) = Len(at) /\ gs # <<>>
  <2> DEFINE Z == {gs[k] : k \in 1 .. Len(at)}
  <2>0. gs = [k \in 1 .. Len(at) |-> gs[k]]
    BY <1>4, <1>8
  <2> HIDE DEF Z
  <2>1. gs \in [1 .. Len(at) -> Z]
    BY <2>0 DEF Z
  <2>2. gs \in Seq(Z) /\ Len(gs) = Len(at)
    BY <1>7, <2>1
  <2> QED BY <1>9, <2>2 DEF IsSeq
<1>11. ASSUME NEW i \in 1 .. Len(gs), NEW id \in gs[i].ids
       PROVE  Wrote(gs[i].author.u, id)
  <2>1. gs[i].author = author(ids[firsts[i]]) /\ gs[i].ids = of(author(ids[firsts[i]]))
    BY <1>4, <1>8, <1>10
  <2>2. id \in ToSet(ids) /\ author(id) = gs[i].author
    BY <1>11, <2>1 DEF of
  <2>3. PICK j \in 1 .. n : id = ids[j]
    BY <1>2, <2>2
  <2> QED BY <1>1, <2>2, <2>3 DEF author
<1> QED BY <1>10, <1>11 DEF GroupsOK, gs

----------------------------------------------------------------------------
LEMMA RestOfGroups ==
  ASSUME NEW gs, GroupsOK(gs)
  PROVE  /\ \A id \in Head(gs).ids : Wrote(Head(gs).author.u, id)
         /\ Len(gs) # 1 => GroupsOK(Tail(gs))
<1>1. PICK S : gs \in Seq(S)
  BY DEF GroupsOK, IsSeq
<1>2. /\ Len(gs) \in Nat /\ Len(gs) > 0 /\ Head(gs) = gs[1]
      /\ Tail(gs) \in Seq(S) /\ Len(Tail(gs)) = Len(gs) - 1
      /\ \A i \in 1 .. Len(Tail(gs)) : i + 1 \in 1 .. Len(gs) /\ Tail(gs)[i] = gs[i + 1]
  BY <1>1 DEF GroupsOK
<1>3. 1 \in 1 .. Len(gs)
  BY <1>2
<1> DEFINE rest == Tail(gs)
<1>4. Len(gs) # 1 => rest # <<>>
  <2>1. Len(rest) = Len(gs) - 1 /\ Len(gs) \in Nat
    BY <1>2
  <2> HIDE DEF rest
  <2>2. rest = <<>> => Len(rest) = 0
    OBVIOUS
  <2> QED BY <2>1, <2>2
<1> QED BY <1>2, <1>3, <1>4 DEF GroupsOK, IsSeq

(* A mark that is there already has its receipt.                           *)
LEMMA MarksStay ==
  ASSUME OneSenderPerID, NEW mine, RowsFrom(db, mine), RowsFrom(db', mine), MarksFrom(db, db'),
         MarkedHasReceipt, receipts \subseteq receipts'
  PROVE  MarkedHasReceipt'
<1>1. SUFFICES ASSUME NEW r \in DOMAIN db'.msgs, db'.msgs[r].read = ToolMark
               PROVE  \E rc \in receipts' : db'.msgs[r].id \in rc.ids /\ rc.author.u = db'.msgs[r].sender.u
  BY DEF MarkedHasReceipt
<1>2. PICK q \in DOMAIN db.msgs : db.msgs[q].read = ToolMark /\ db.msgs[q].id = db'.msgs[r].id
  BY <1>1 DEF MarksFrom
<1>3. PICK rc \in receipts : db.msgs[q].id \in rc.ids /\ rc.author.u = db.msgs[q].sender.u
  BY <1>2 DEF MarkedHasReceipt
<1>4. db.msgs[q].sender.u = db'.msgs[r].sender.u
  <2>1. From(db.msgs[q], mine) /\ From(db'.msgs[r], mine)
    BY <1>1 DEF RowsFrom
  <2> QED BY <1>2, <2>1, WroteIt
<1> QED BY <1>2, <1>3, <1>4

LEMMA MarkSending ==
  ASSUME OneSenderPerID, NEW mine, SayInv(mine), FromInv(mine), FromInv(mine)', MarkInv, Sending,
         MarkLocally \/ MarksFrom(db, db')
  PROVE  MarkInv'
<1>0. RowsFrom(db, mine) /\ RowsFrom(db', mine) /\ Kempt(db, mine)
  BY DEF FromInv, SayInv
<1>1. ASSUME NEW kind, NEW to, NEW id, Submit(kind, to, id) PROVE MarkInv'
  <2>1. call'.op = "send" /\ db' = db /\ receipts' = receipts
    BY <1>1 DEF Submit, ingestVars
  <2> QED BY <2>1 DEF MarkInv, MarkedHasReceipt
<1>2. ASSUME NEW chat, NEW ids \in SetToAllKPermutations(StoredIDs), ids # <<>>, MarkReadCall(chat, ids)
      PROVE MarkInv'
  <2>1. /\ db' = db /\ receipts' = receipts /\ call'.op = "read"
        /\ call'.groups = GroupMessageIDsBySender(db, chat, ids)
        /\ \A i \in DOMAIN ids : ResolveMessageAuthor(db, chat, ids[i]) # {}
    BY <1>2 DEF MarkReadCall, ingestVars
  <2>2. PICK n \in Nat \ {0} : ids \in [1 .. n -> StoredIDs]
    BY <1>0, <1>2, StoredFinite, PermutationIDs
  <2>3. GroupsOK(call'.groups)
    BY <1>0, <2>1, <2>2, GroupsFormed
  <2> QED BY <2>1, <2>3 DEF MarkInv, MarkedHasReceipt
<1>3. ASSUME NEW sent, Deliver(sent) PROVE MarkInv'
  <2>1. call' = Idle /\ db' = db /\ receipts' = receipts
    BY <1>3 DEF Deliver, ingestVars
  <2> QED BY <2>1 DEF MarkInv, MarkedHasReceipt, Idle
<1>4. ASSUME NEW sent \in BOOLEAN, DeliverRead(sent) PROVE MarkInv'
  <2>1. /\ db' = db /\ call.op = "read"
        /\ \/ call' = Idle /\ receipts' = receipts
           \/ /\ call'.op = "mark" /\ call'.groups = call.groups
              /\ \E rc \in receipts' : rc.ids = Head(call.groups).ids /\ rc.author = Head(call.groups).author
              /\ receipts \subseteq receipts'
    <3> DEFINE rc == [to |-> call.to, author |-> Head(call.groups).author, ids |-> Head(call.groups).ids]
    <3>1. /\ db' = db /\ call.op = "read"
          /\ call' = IF sent THEN [op |-> "mark", to |-> call.to, groups |-> call.groups] ELSE Idle
          /\ receipts' = IF sent THEN receipts \cup {rc} ELSE receipts
      BY <1>4 DEF DeliverRead, ingestVars
    <3>2. rc.ids = Head(call.groups).ids /\ rc.author = Head(call.groups).author
      OBVIOUS
    <3> HIDE DEF rc
    <3>3. CASE sent
      BY <3>1, <3>2, <3>3
    <3>4. CASE ~sent
      BY <3>1, <3>4
    <3> QED BY <3>3, <3>4
  <2>2. MarkedHasReceipt'
    BY <2>1 DEF MarkInv, MarkedHasReceipt
  <2>3. call'.op \in {"read", "mark"} => GroupsOK(call'.groups)
    BY <2>1 DEF MarkInv, Idle
  <2>4. call'.op = "mark" => \E rc \in receipts' : /\ rc.ids = Head(call'.groups).ids
                                                  /\ rc.author = Head(call'.groups).author
    <3>1. CASE call' = Idle
      BY <3>1 DEF Idle
    <3>2. CASE call' # Idle
      <4>1. Head(call'.groups) = Head(call.groups)
        BY <2>1, <3>2
      <4> QED BY <2>1, <3>2, <4>1
    <3> QED BY <3>1, <3>2
  <2> QED BY <2>2, <2>3, <2>4 DEF MarkInv
<1>5. ASSUME Record PROVE MarkInv'
  <2>1. call' = call /\ receipts' = receipts /\ MarksFrom(db, db')
    BY <1>5 DEF Record, MarkLocally
  <2>2. MarkedHasReceipt'
    BY <1>0, <2>1, MarksStay DEF MarkInv
  <2> QED BY <2>1, <2>2 DEF MarkInv
<1>6. ASSUME MarkLocally PROVE MarkInv'
  <2> DEFINE g == Head(call.groups)
  <2>1. /\ call.op = "mark" /\ receipts' = receipts /\ db' = MarkRead(db, call.to, g.ids, ToolMark)
        /\ \/ Len(call.groups) = 1 /\ call' = Idle
           \/ Len(call.groups) # 1 /\ call'.op = "read" /\ call'.groups = Tail(call.groups)
    BY <1>6 DEF MarkLocally
  <2>2. GroupsOK(call.groups)
    BY <2>1 DEF MarkInv
  <2>3. PICK rc \in receipts : rc.ids = g.ids /\ rc.author = g.author
    BY <2>1 DEF MarkInv
  <2>4. \A id \in g.ids : Wrote(g.author.u, id)
    BY <2>2, RestOfGroups
  <2>5. call'.op \in {"read", "mark"} => call'.op = "read" /\ GroupsOK(call'.groups)
    BY <2>1, <2>2, RestOfGroups DEF Idle
  <2>6. /\ DOMAIN db'.msgs = DOMAIN db.msgs
        /\ \A r \in DOMAIN db.msgs :
             /\ db'.msgs[r].id = db.msgs[r].id /\ db'.msgs[r].sender = db.msgs[r].sender
             /\ \/ db'.msgs[r].read = db.msgs[r].read
                \/ db.msgs[r].id \in g.ids /\ db'.msgs[r].read = ToolMark
    <3>1. ToolMark \in Int
      BY DEF ToolMark
    <3> QED BY <1>0, <2>1, <3>1, MarkReadFrom
  <2> HIDE DEF g
  <2>7. ASSUME NEW r \in DOMAIN db'.msgs, db'.msgs[r].read = ToolMark
        PROVE  \E c \in receipts' : db'.msgs[r].id \in c.ids /\ c.author.u = db'.msgs[r].sender.u
    <3>1. CASE db.msgs[r].read = ToolMark
      BY <2>1, <2>6, <3>1 DEF MarkInv, MarkedHasReceipt
    <3>2. CASE db.msgs[r].id \in g.ids
      <4>1. From(db.msgs[r], mine) /\ Wrote(g.author.u, db.msgs[r].id)
        BY <1>0, <2>4, <2>6, <3>2 DEF RowsFrom
      <4>2. db.msgs[r].sender.u = g.author.u
        BY <4>1, WroteIt
      <4> QED BY <2>1, <2>3, <2>6, <3>2, <4>2
    <3> QED BY <2>6, <2>7, <3>1, <3>2
  <2>8. MarkedHasReceipt'
    BY <2>7 DEF MarkedHasReceipt
  <2> QED BY <2>5, <2>8 DEF MarkInv
<1> QED BY <1>1, <1>2, <1>3, <1>4, <1>5, <1>6 DEF Sending

LEMMA MarkStep ==
  ASSUME OneSenderPerID, ISay, IFrom, IFrom', MarkInv, [ClientsNext]_clientVars,
         MarkLocally \/ MarksFrom(db, db')
  PROVE  MarkInv'
<1>1. \/ reader = "sender" /\ Sending
      \/ UNCHANGED sendVars
  BY DEF ClientsNext, ReadNext, clientVars, allVars, Polling, EditScope, FetchOlder, Clicking, Browsing
<1>0. reader' = reader
  BY DEF ClientsNext, ReadNext, clientVars, allVars, readVars, BridgeStep, Polling, EditScope, FetchOlder, Clicking, Browsing
<1>2. ASSUME NEW mine, SayInv(mine), FromInv(mine), FromInv(mine)' PROVE MarkInv'
  <2>1. CASE Sending
    BY <1>2, <2>1, MarkSending
  <2>2. CASE UNCHANGED sendVars
    <3>1. call' = call /\ receipts' = receipts
      BY <2>2 DEF sendVars
    <3>2. CASE MarkLocally
      BY <1>2, <3>2, MarkSending DEF Sending
    <3>3. CASE MarksFrom(db, db')
      <4>1. MarkedHasReceipt'
        BY <1>2, <3>1, <3>3, MarksStay DEF MarkInv, FromInv
      <4> QED BY <3>1, <4>1 DEF MarkInv
    <3> QED BY <3>2, <3>3
  <2> QED BY <1>1, <2>1, <2>2
<1> QED BY <1>0, <1>2 DEF ISay, IFrom

LEMMA FromAlways == ClientsSpec => []IFrom
<1>1. ClientsInit => IFrom
  BY FromInit DEF IFrom
<1>2. ISay /\ IFrom /\ [ClientsNext]_clientVars => IFrom'
  BY FromStep
<1> QED BY <1>1, <1>2, SayAlways, PTL DEF ClientsSpec

(* mark_read (internal/mcpserv send_tools.go, internal/bridge send.go): what *)
(* it marked as read it has sent a receipt for, to the message's sender,    *)
(* whatever is folded, redelivered or pruned between the lookup of the      *)
(* senders, the receipt and the mark, and whichever receipt is refused.     *)
THEOREM MarksHaveReceipts == OneSenderPerID => (ClientsSpec => []MarkedHasReceipt)
<1> SUFFICES ASSUME OneSenderPerID PROVE ClientsSpec => []MarkedHasReceipt
  OBVIOUS
<1>1. ClientsInit => MarkInv
  BY DEF ClientsInit, ReadInit, SendInit, Init, MarkInv, MarkedHasReceipt, Idle, EmptyDB
<1>2. ISay /\ IFrom /\ MarkInv /\ [ClientsNext]_clientVars => MarkInv'
  BY FromStep, MarkStep
<1>3. MarkInv => MarkedHasReceipt
  BY DEF MarkInv
<1> QED BY <1>1, <1>2, <1>3, SayAlways, FromAlways, PTL DEF ClientsSpec

----------------------------------------------------------------------------
(* Pages.                                                                  *)
Orderly(d) == IsFiniteSet(DOMAIN d.msgs) /\ RowsFrom(d, FALSE) /\ OneRow(d)

(* Rows in the order every reader of a chat uses.                          *)
Up(d, s) == \A i, j \in 1 .. Len(s) : i < j => Above(Position(d, s[i]), Position(d, s[j]))

LEMMA ReverseFacts ==
  ASSUME NEW S, NEW s \in Seq(S)
  PROVE  /\ Reverse(s) \in Seq(S) /\ Len(Reverse(s)) = Len(s)
         /\ \A i \in 1 .. Len(s) : Len(s) - i + 1 \in 1 .. Len(s) /\ Reverse(s)[i] = s[Len(s) - i + 1]
BY DEF Reverse

LEMMA FirstNFacts ==
  ASSUME NEW S, NEW s \in Seq(S), NEW n \in Nat
  PROVE  /\ FirstN(s, n) \in Seq(S) /\ Len(FirstN(s, n)) = (IF n < Len(s) THEN n ELSE Len(s))
         /\ \A i \in 1 .. Len(FirstN(s, n)) : i \in 1 .. Len(s) /\ FirstN(s, n)[i] = s[i]
<1> DEFINE k == IF n < Len(s) THEN n ELSE Len(s)
<1>1. k \in Nat /\ k <= Len(s) /\ Len(s) \in Nat
  OBVIOUS
<1> HIDE DEF k
<1>2. /\ SubSeq(s, 1, k) \in Seq(S) /\ Len(SubSeq(s, 1, k)) = k
      /\ \A i \in 1 .. k : i \in 1 .. Len(s) /\ SubSeq(s, 1, k)[i] = s[i]
  BY <1>1
<1> QED BY <1>2 DEF FirstN, k

LEMMA OrderlyRows ==
  ASSUME NEW d, Orderly(d), NEW jid, NEW S \in SUBSET RowsOf(d, jid)
  PROVE  /\ IsFiniteSet(S) /\ Timed(d, S)
         /\ \A r \in S : Position(d, r) \in Int \X Int
         /\ OldestFirst(d, S) \in Seq(S) /\ Up(d, OldestFirst(d, S))
<1>1. IsFiniteSet(S)
  BY FS_Subset DEF Orderly, RowsOf
<1>2. Timed(d, S)
  BY FromTimed DEF Orderly, RowsFrom, RowsOf, Timed
<1>3. \A r \in S : Position(d, r) \in Int \X Int
  BY <1>2 DEF Timed, Position
<1> DEFINE s == OldestFirst(d, S)
<1>4. /\ s \in Seq(S) /\ Len(s) \in Nat /\ \A k \in 1 .. Len(s) : s[k] \in S
      /\ \A i, j \in 1 .. Len(s) : i < j => s[i] # s[j] /\ ~Precedes(d.msgs[s[j]], d.msgs[s[i]].ts, d.msgs[s[i]].id)
  BY <1>1, <1>2, OldestFirstFacts
<1> HIDE DEF s
<1>5. ASSUME NEW i \in 1 .. Len(s), NEW j \in 1 .. Len(s), i < j
      PROVE  Above(Position(d, s[i]), Position(d, s[j]))
  <2>1. s[i] \in S /\ s[j] \in S /\ s[i] # s[j] /\ ~Precedes(d.msgs[s[j]], d.msgs[s[i]].ts, d.msgs[s[i]].id)
    BY <1>4, <1>5
  <2>2. d.msgs[s[i]].id # d.msgs[s[j]].id
    BY <2>1 DEF Orderly, OneRow, RowsOf
  <2>3. /\ d.msgs[s[i]].id \in Int /\ d.msgs[s[j]].id \in Int
        /\ d.msgs[s[i]].ts \in Int /\ d.msgs[s[j]].ts \in Int
    BY <1>2, <2>1 DEF Timed
  <2> QED BY <2>1, <2>2, <2>3 DEF Above, Position, Precedes
<1>6. Up(d, s)
  BY <1>5 DEF Up
<1> QED BY <1>1, <1>2, <1>3, <1>4, <1>6 DEF s

LEMMA FirstUp ==
  ASSUME NEW d, NEW S, NEW s \in Seq(S), Up(d, s), NEW n \in Nat
  PROVE  FirstN(s, n) \in Seq(S) /\ Up(d, FirstN(s, n))
<1> DEFINE t == FirstN(s, n)
<1>1. t \in Seq(S) /\ \A i \in 1 .. Len(t) : i \in 1 .. Len(s) /\ t[i] = s[i]
  BY FirstNFacts
<1> HIDE DEF t
<1>2. Up(d, t)
  BY <1>1 DEF Up
<1> QED BY <1>1, <1>2 DEF t

LEMMA LastUp ==
  ASSUME NEW d, NEW S, NEW s \in Seq(S), Up(d, s), NEW n \in Nat
  PROVE  Reverse(FirstN(Reverse(s), n)) \in Seq(S) /\ Up(d, Reverse(FirstN(Reverse(s), n)))
<1> DEFINE b == Reverse(s)
           t == FirstN(b, n)
           u == Reverse(t)
<1>1. /\ b \in Seq(S) /\ Len(b) = Len(s) /\ Len(s) \in Nat
      /\ \A i \in 1 .. Len(s) : Len(s) - i + 1 \in 1 .. Len(s) /\ b[i] = s[Len(s) - i + 1]
  BY ReverseFacts
<1> HIDE DEF b
<1>2. t \in Seq(S) /\ Len(t) \in Nat /\ \A i \in 1 .. Len(t) : i \in 1 .. Len(b) /\ t[i] = b[i]
  BY <1>1, FirstNFacts
<1> HIDE DEF t
<1>3. /\ u \in Seq(S) /\ Len(u) = Len(t)
      /\ \A i \in 1 .. Len(t) : Len(t) - i + 1 \in 1 .. Len(t) /\ u[i] = t[Len(t) - i + 1]
  BY <1>2, ReverseFacts
<1> HIDE DEF u
<1>4. ASSUME NEW i \in 1 .. Len(u), NEW j \in 1 .. Len(u), i < j
      PROVE  Above(Position(d, u[i]), Position(d, u[j]))
  <2> DEFINE k == Len(t) - i + 1
             l == Len(t) - j + 1
  <2>1. k \in 1 .. Len(t) /\ l \in 1 .. Len(t) /\ k > l /\ u[i] = t[k] /\ u[j] = t[l]
    BY <1>2, <1>3, <1>4
  <2> HIDE DEF k, l
  <2> DEFINE m == Len(s) - k + 1
             n0 == Len(s) - l + 1
  <2>2. m \in 1 .. Len(s) /\ n0 \in 1 .. Len(s) /\ m < n0 /\ u[i] = s[m] /\ u[j] = s[n0]
    BY <1>1, <1>2, <2>1
  <2> HIDE DEF m, n0
  <2> QED BY <2>2 DEF Up
<1>5. Up(d, u)
  BY <1>4 DEF Up
<1> QED BY <1>3, <1>5 DEF b, t, u

----------------------------------------------------------------------------
(* The positions of a page: of messages of one place, in order.            *)
OfChat(p, jid) == \E e \in Events : e.type = "message" /\ e.w.id = p[2] /\ Placed(jid, e.w.chat)
Ascends(s) == \A i, j \in 1 .. Len(s) : i < j => Above(s[i], s[j])
PageOf(s, jid) == s \in Seq(Int \X Int) /\ (\A i \in 1 .. Len(s) : OfChat(s[i], jid)) /\ Ascends(s)

LEMMA RowOfChat ==
  ASSUME OneChatPerID, NEW d, Orderly(d), NEW r \in DOMAIN d.msgs
  PROVE  OfChat(Position(d, r), d.msgs[r].chat)
<1>1. Carried(d.msgs[r])
  BY DEF Orderly, RowsFrom, From
<1>2. Position(d, r)[2] = d.msgs[r].id
  BY DEF Position
<1> QED BY <1>1, <1>2 DEF Carried, OfChat

LEMMA PageOfRows ==
  ASSUME OneChatPerID, NEW d, Orderly(d), NEW jid, NEW rows \in Seq(RowsOf(d, jid)), Up(d, rows)
  PROVE  /\ PageOf(Positions(d, rows), jid) /\ Len(Positions(d, rows)) = Len(rows)
         /\ \A i \in 1 .. Len(rows) : Positions(d, rows)[i] = Position(d, rows[i])
<1> DEFINE s == Positions(d, rows)
<1>1. Len(rows) \in Nat /\ DOMAIN rows = 1 .. Len(rows) /\ \A i \in 1 .. Len(rows) : rows[i] \in RowsOf(d, jid)
  OBVIOUS
<1>2. \A r \in RowsOf(d, jid) : Position(d, r) \in Int \X Int
  BY OrderlyRows
<1>3. s = [i \in 1 .. Len(rows) |-> Position(d, rows[i])]
  BY <1>1 DEF Positions
<1> HIDE DEF s
<1>4. s \in Seq(Int \X Int) /\ Len(s) = Len(rows) /\ \A i \in 1 .. Len(rows) : s[i] = Position(d, rows[i])
  BY <1>1, <1>2, <1>3
<1>5. \A i \in 1 .. Len(s) : OfChat(s[i], jid)
  BY <1>1, <1>4, RowOfChat DEF RowsOf
<1>6. Ascends(s)
  BY <1>4 DEF Ascends, Up
<1> QED BY <1>4, <1>5, <1>6 DEF PageOf, s

LEMMA Clamps == ClampLimit(PageSize) \in Nat /\ ClampContext(PageSize \div 2) \in Nat
BY StoreAssumption, ReadersAssumption DEF ClampLimit, ClampContext

LEMMA RecentPage ==
  ASSUME OneChatPerID, NEW d, Orderly(d), NEW jid
  PROVE  PageOf(Recent(d, jid), jid)
<1> DEFINE S == RowsOf(d, jid)
           rows == RecentMessages(d, jid, PageSize)
<1>1. OldestFirst(d, S) \in Seq(S) /\ Up(d, OldestFirst(d, S))
  BY OrderlyRows
<1>2. rows \in Seq(S) /\ Up(d, rows)
  BY <1>1, LastUp, Clamps DEF RecentMessages, NewestFirst
<1> HIDE DEF rows
<1>3. PageOf(Positions(d, rows), jid)
  BY <1>2, PageOfRows
<1> QED BY <1>3 DEF Recent, rows

LEMMA SincePage ==
  ASSUME OneChatPerID, NEW d, Orderly(d), NEW jid, NEW p \in Int \X Int
  PROVE  /\ PageOf(Since(d, jid, p), jid)
         /\ \A i \in 1 .. Len(Since(d, jid, p)) : Above(p, Since(d, jid, p)[i])
<1> DEFINE S == {r \in RowsOf(d, jid) : Follows(d.msgs[r], p[1], p[2])}
           rows == MessagesSince(d, jid, p[1], p[2], PageSize)
           page == Positions(d, rows)
<1>0. S \in SUBSET RowsOf(d, jid)
  OBVIOUS
<1>1. OldestFirst(d, S) \in Seq(S) /\ Up(d, OldestFirst(d, S)) /\ Timed(d, S)
  BY <1>0, OrderlyRows
<1>2. rows \in Seq(S) /\ Up(d, rows)
  BY <1>1, FirstUp, Clamps DEF MessagesSince
<1>3. rows \in Seq(RowsOf(d, jid)) /\ \A i \in 1 .. Len(rows) : rows[i] \in S
  BY <1>0, <1>2
<1> HIDE DEF rows
<1>4. PageOf(page, jid) /\ Len(page) = Len(rows) /\ \A i \in 1 .. Len(rows) : page[i] = Position(d, rows[i])
  BY <1>2, <1>3, PageOfRows
<1>5. ASSUME NEW i \in 1 .. Len(rows)
      PROVE  Above(p, page[i])
  <2>1. Follows(d.msgs[rows[i]], p[1], p[2]) /\ page[i] = Position(d, rows[i])
    BY <1>3, <1>4
  <2>2. d.msgs[rows[i]].ts \in Int /\ d.msgs[rows[i]].id \in Int
    BY <1>1, <1>3 DEF Timed
  <2> QED BY <2>1, <2>2 DEF Follows, Above, Position
<1> HIDE DEF page
<1>6. page = Since(d, jid, p)
  BY DEF Since, page, rows
<1> QED BY <1>4, <1>5, <1>6

LEMMA BeforePage ==
  ASSUME OneChatPerID, NEW d, Orderly(d), NEW jid, NEW p \in Int \X Int
  PROVE  /\ PageOf(Before(d, jid, p), jid)
         /\ \A i \in 1 .. Len(Before(d, jid, p)) : Above(Before(d, jid, p)[i], p)
<1> DEFINE S == {r \in RowsOf(d, jid) : Precedes(d.msgs[r], p[1], p[2])}
           rows == MessagesBefore(d, jid, p[1], p[2], PageSize)
           page == Positions(d, rows)
<1>0. S \in SUBSET RowsOf(d, jid)
  OBVIOUS
<1>1. OldestFirst(d, S) \in Seq(S) /\ Up(d, OldestFirst(d, S)) /\ Timed(d, S)
  BY <1>0, OrderlyRows
<1>2. rows \in Seq(S) /\ Up(d, rows)
  BY <1>1, LastUp, Clamps DEF MessagesBefore, NewestFirst
<1>3. rows \in Seq(RowsOf(d, jid)) /\ \A i \in 1 .. Len(rows) : rows[i] \in S
  BY <1>0, <1>2
<1> HIDE DEF rows
<1>4. PageOf(page, jid) /\ Len(page) = Len(rows) /\ \A i \in 1 .. Len(rows) : page[i] = Position(d, rows[i])
  BY <1>2, <1>3, PageOfRows
<1>5. ASSUME NEW i \in 1 .. Len(rows)
      PROVE  Above(page[i], p)
  <2>1. Precedes(d.msgs[rows[i]], p[1], p[2]) /\ page[i] = Position(d, rows[i])
    BY <1>3, <1>4
  <2>2. d.msgs[rows[i]].ts \in Int /\ d.msgs[rows[i]].id \in Int
    BY <1>1, <1>3 DEF Timed
  <2> QED BY <2>1, <2>2 DEF Precedes, Above, Position
<1> HIDE DEF page
<1>6. page = Before(d, jid, p)
  BY DEF Before, page, rows
<1> QED BY <1>4, <1>5, <1>6

LEMMA AboveAbove ==
  ASSUME NEW p \in Int \X Int, NEW q \in Int \X Int, NEW r \in Int \X Int, Above(p, q), Above(q, r)
  PROVE  Above(p, r)
BY DEF Above

(* Two runs in order, the first before the second.                         *)
Runs(s, R) == \A i, j \in 1 .. Len(s) : i < j => <<s[i], s[j]>> \in R

LEMMA ConcatRuns ==
  ASSUME NEW S, NEW R, NEW s \in Seq(S), NEW t \in Seq(S), Runs(s, R), Runs(t, R),
         \A i \in 1 .. Len(s), j \in 1 .. Len(t) : <<s[i], t[j]>> \in R
  PROVE  /\ s \o t \in Seq(S) /\ Len(s \o t) = Len(s) + Len(t) /\ Runs(s \o t, R)
         /\ \A k \in 1 .. Len(s \o t) : \/ k \in 1 .. Len(s) /\ (s \o t)[k] = s[k]
                                        \/ k > Len(s) /\ k - Len(s) \in 1 .. Len(t) /\ (s \o t)[k] = t[k - Len(s)]
<1> DEFINE u == s \o t
<1>1. /\ u \in Seq(S) /\ Len(u) = Len(s) + Len(t) /\ Len(s) \in Nat /\ Len(t) \in Nat
      /\ \A k \in 1 .. Len(u) : u[k] = IF k <= Len(s) THEN s[k] ELSE t[k - Len(s)]
  OBVIOUS
<1> HIDE DEF u
<1>2. ASSUME NEW k \in 1 .. Len(u)
      PROVE  \/ k \in 1 .. Len(s) /\ u[k] = s[k]
             \/ k > Len(s) /\ k - Len(s) \in 1 .. Len(t) /\ u[k] = t[k - Len(s)]
  <2>1. CASE k <= Len(s)
    BY <1>1, <2>1
  <2>2. CASE k > Len(s)
    <3>1. k - Len(s) \in 1 .. Len(t)
      BY <1>1, <2>2
    <3> QED BY <1>1, <2>2, <3>1
  <2> QED BY <1>1, <2>1, <2>2
<1>3. ASSUME NEW i \in 1 .. Len(u), NEW j \in 1 .. Len(u), i < j
      PROVE  <<u[i], u[j]>> \in R
  <2> DEFINE k == i - Len(s)
             l == j - Len(s)
  <2>1. CASE i \in 1 .. Len(s) /\ j \in 1 .. Len(s)
    <3>1. u[i] = s[i] /\ u[j] = s[j]
      BY <1>1, <2>1
    <3> QED BY <1>3, <2>1, <3>1 DEF Runs
  <2>2. CASE i \in 1 .. Len(s) /\ j > Len(s)
    <3>1. u[i] = s[i] /\ u[j] = t[l] /\ l \in 1 .. Len(t)
      BY <1>1, <1>2, <2>2
    <3> QED BY <2>2, <3>1
  <2>3. CASE i > Len(s)
    <3>1. u[i] = t[k] /\ k \in 1 .. Len(t)
      BY <1>1, <1>2, <2>3
    <3>2. u[j] = t[l] /\ l \in 1 .. Len(t)
      BY <1>1, <1>2, <1>3, <2>3
    <3>3. k < l
      BY <1>1, <1>3
    <3> HIDE DEF k, l
    <3> QED BY <3>1, <3>2, <3>3 DEF Runs
  <2> QED BY <1>1, <1>3, <2>1, <2>2, <2>3
<1>4. Runs(u, R)
  BY <1>3 DEF Runs
<1> QED BY <1>1, <1>2, <1>4 DEF u

LEMMA PagesMeet ==
  ASSUME NEW jid, NEW s, NEW t, PageOf(s, jid), PageOf(t, jid),
         \A i \in 1 .. Len(s), j \in 1 .. Len(t) : Above(s[i], t[j])
  PROVE  /\ PageOf(s \o t, jid) /\ Len(s \o t) = Len(s) + Len(t)
         /\ \A k \in 1 .. Len(s \o t) : \/ k \in 1 .. Len(s) /\ (s \o t)[k] = s[k]
                                        \/ k > Len(s) /\ k - Len(s) \in 1 .. Len(t) /\ (s \o t)[k] = t[k - Len(s)]
<1> DEFINE P == Int \X Int
           R == {x \in P \X P : Above(x[1], x[2])}
           u == s \o t
<1>1. s \in Seq(P) /\ t \in Seq(P) /\ Ascends(s) /\ Ascends(t)
  BY DEF PageOf
<1>2. \A p, q \in P : <<p, q>> \in R <=> Above(p, q)
  OBVIOUS
<1> HIDE DEF P, R
<1>3. \A v \in Seq(P) : Ascends(v) <=> Runs(v, R)
  <2>1. \A v \in Seq(P) : \A i \in 1 .. Len(v) : v[i] \in P
    OBVIOUS
  <2> QED BY <1>2, <2>1 DEF Ascends, Runs
<1>4. \A i \in 1 .. Len(s), j \in 1 .. Len(t) : <<s[i], t[j]>> \in R
  <2>1. (\A i \in 1 .. Len(s) : s[i] \in P) /\ (\A j \in 1 .. Len(t) : t[j] \in P)
    BY <1>1
  <2> QED BY <1>2, <2>1
<1>5. /\ u \in Seq(P) /\ Len(u) = Len(s) + Len(t) /\ Runs(u, R)
      /\ \A k \in 1 .. Len(u) : \/ k \in 1 .. Len(s) /\ u[k] = s[k]
                                \/ k > Len(s) /\ k - Len(s) \in 1 .. Len(t) /\ u[k] = t[k - Len(s)]
  BY <1>1, <1>3, <1>4, ConcatRuns
<1> HIDE DEF u
<1>6. \A k \in 1 .. Len(u) : OfChat(u[k], jid)
  BY <1>5 DEF PageOf
<1>7. PageOf(u, jid)
  BY <1>3, <1>5, <1>6 DEF PageOf, P
<1> QED BY <1>5, <1>7 DEF u

(* Around a row: what is older, the row, what is newer.                    *)
LEMMA AroundPage ==
  ASSUME OneChatPerID, NEW d, Orderly(d), NEW r \in DOMAIN d.msgs
  PROVE  PageOf(Around(d, d.msgs[r].chat, Position(d, r)), d.msgs[r].chat)
<1> DEFINE jid == d.msgs[r].chat
           id  == d.msgs[r].id
           C   == RowsOf(d, jid)
           hit == RowAt(d, jid, id)
           t   == OneOf(hit)
           m   == d.msgs[t]
           lo  == {q \in C : Precedes(d.msgs[q], m.ts, m.id)}
           hi  == {q \in C : Follows(d.msgs[q], m.ts, m.id)}
           n   == ClampContext(PageSize \div 2)
           a   == Reverse(FirstN(Reverse(OldestFirst(d, lo)), n))
           b   == FirstN(OldestFirst(d, hi), n)
           ctx == MessageContext(d, jid, id, PageSize \div 2, PageSize \div 2)
           R   == {x \in C \X C : Above(Position(d, x[1]), Position(d, x[2]))}
<1>1. r \in hit /\ t \in hit /\ t \in C
  BY DEF OneOf, RowAt, RowsOf
<1>2. ctx = a \o <<t>> \o b
  BY <1>1 DEF MessageContext, NewestFirst
<1>3. a \in Seq(lo) /\ Up(d, a)
  <2>1. lo \in SUBSET C
    OBVIOUS
  <2>2. OldestFirst(d, lo) \in Seq(lo) /\ Up(d, OldestFirst(d, lo))
    BY <2>1, OrderlyRows
  <2> HIDE DEF lo, n
  <2> QED BY <2>2, LastUp, Clamps DEF n
<1>4. b \in Seq(hi) /\ Up(d, b)
  <2>1. hi \in SUBSET C
    OBVIOUS
  <2>2. OldestFirst(d, hi) \in Seq(hi) /\ Up(d, OldestFirst(d, hi))
    BY <2>1, OrderlyRows
  <2> HIDE DEF hi, n
  <2> QED BY <2>2, FirstUp, Clamps DEF n
<1>5. \A p, q \in C : <<p, q>> \in R <=> Above(Position(d, p), Position(d, q))
  OBVIOUS
<1>6. \A q \in C : Position(d, q) \in Int \X Int /\ Position(d, q) = <<d.msgs[q].ts, d.msgs[q].id>>
                   /\ d.msgs[q].ts \in Int /\ d.msgs[q].id \in Int
  BY OrderlyRows DEF Position, Timed
<1>7. (\A q \in lo : Above(Position(d, q), Position(d, t))) /\ (\A q \in hi : Above(Position(d, t), Position(d, q)))
  BY <1>1, <1>6 DEF Above, Precedes, Follows
<1>8. lo \subseteq C /\ hi \subseteq C
  OBVIOUS
<1> HIDE DEF ctx, t, lo, hi, a, b, R, C, hit
<1> DEFINE one == <<t>>
<1>9. one \in Seq(C) /\ Len(one) = 1 /\ one[1] = t /\ a \in Seq(C) /\ b \in Seq(C)
  BY <1>1, <1>3, <1>4, <1>8
<1>10. (\A i \in 1 .. Len(a) : a[i] \in lo) /\ (\A i \in 1 .. Len(b) : b[i] \in hi)
  BY <1>3, <1>4
<1> HIDE DEF one
<1>11. \A v \in Seq(C) : Up(d, v) <=> Runs(v, R)
  <2>1. \A v \in Seq(C) : \A i \in 1 .. Len(v) : v[i] \in C
    OBVIOUS
  <2> QED BY <1>5, <2>1 DEF Up, Runs
<1>12. Runs(one, R)
  BY <1>9 DEF Runs
<1>13. \A i \in 1 .. Len(a), j \in 1 .. Len(one) : <<a[i], one[j]>> \in R
  BY <1>1, <1>5, <1>7, <1>8, <1>9, <1>10
<1> DEFINE u == a \o one
<1>14. /\ u \in Seq(C) /\ Runs(u, R) /\ Len(u) = Len(a) + 1
       /\ \A k \in 1 .. Len(u) : \/ k \in 1 .. Len(a) /\ u[k] = a[k]
                                 \/ k > Len(a) /\ k - Len(a) \in 1 .. Len(one) /\ u[k] = one[k - Len(a)]
  <2>1. Runs(a, R)
    BY <1>3, <1>9, <1>11
  <2>2. /\ a \o one \in Seq(C) /\ Len(a \o one) = Len(a) + Len(one) /\ Runs(a \o one, R)
        /\ \A k \in 1 .. Len(a \o one) :
             \/ k \in 1 .. Len(a) /\ (a \o one)[k] = a[k]
             \/ k > Len(a) /\ k - Len(a) \in 1 .. Len(one) /\ (a \o one)[k] = one[k - Len(a)]
    <3>1. a \in Seq(C) /\ one \in Seq(C)
      BY <1>9
    <3> QED BY ONLY <1>12, <1>13, <2>1, <3>1, ConcatRuns
  <2> QED BY <1>9, <2>2
<1> HIDE DEF u
<1>15. ASSUME NEW k \in 1 .. Len(u), NEW j \in 1 .. Len(b)
       PROVE  <<u[k], b[j]>> \in R
  <2>1. u[k] \in lo \/ u[k] = t
    BY <1>9, <1>10, <1>14
  <2>2. u[k] \in C /\ b[j] \in C /\ b[j] \in hi
    BY <1>1, <1>8, <1>10, <2>1
  <2>3. Above(Position(d, t), Position(d, b[j]))
    BY <1>7, <2>2
  <2>4. Above(Position(d, u[k]), Position(d, b[j]))
    <3>1. u[k] = t \/ Above(Position(d, u[k]), Position(d, t))
      BY <1>7, <2>1
    <3>2. Position(d, u[k]) \in Int \X Int /\ Position(d, t) \in Int \X Int /\ Position(d, b[j]) \in Int \X Int
      BY <1>1, <1>6, <2>2
    <3> QED BY <2>3, <3>1, <3>2, AboveAbove
  <2> QED BY <1>5, <2>2, <2>4
<1>16. u \o b \in Seq(C) /\ Runs(u \o b, R)
  BY <1>4, <1>9, <1>11, <1>14, <1>15, ConcatRuns
<1>17. ctx = u \o b
  BY <1>2 DEF u, one
<1>18. ctx \in Seq(C) /\ Up(d, ctx)
  BY <1>11, <1>16, <1>17
<1>19. PageOf(Positions(d, ctx), jid)
  BY <1>18, PageOfRows DEF C
<1>20. Around(d, jid, Position(d, r)) = Positions(d, ctx)
  <2>1. Position(d, r)[2] = id
    BY DEF Position
  <2> QED BY <2>1 DEF Around, ctx
<1> QED BY <1>19, <1>20

----------------------------------------------------------------------------
(* The message pane.                                                       *)
UpTo(p, q) == p = q \/ Above(p, q)
PaneFields == {"gen", "jid", "parked", "shown", "cursor", "oldest", "more"}

(* Nothing of a page lies above a position.                                *)
Below(p, s) == \A i \in 1 .. Len(s) : UpTo(p, s[i])

(* What is shown is a page, or what has been added to none since another   *)
(* chat is being opened; it starts no earlier than where older ones will   *)
(* join it, and reaches no further than where newer ones will.             *)
PaneOK(p) ==
  /\ DOMAIN p = PaneFields /\ p.gen \in Nat /\ p.cursor \in Int \X Int
  /\ PageOf(p.shown, p.jid)
  /\ p.oldest # <<>> =>
       /\ p.oldest[1] \in Int \X Int /\ Below(p.oldest[1], p.shown)
       /\ ~p.parked => UpTo(p.oldest[1], p.cursor)
  /\ ~p.parked => \A i \in 1 .. Len(p.shown) : UpTo(p.shown[i], p.cursor)

(* An answer on its way that is not stale fits at its end of the pane.     *)
ReplyOK(p, a) ==
  /\ a.gen \in Nat /\ a.gen <= p.gen /\ PageOf(a.page, a.jid) /\ a.cursor \in Int \X Int
  /\ a.kind \in {"open", "refresh"} => \A i \in 1 .. Len(a.page) : UpTo(a.page[i], a.cursor)
  /\ a.kind \in {"open", "jump", "older", "refresh"}
  /\ a.kind \in {"older", "refresh"} /\ a.gen = p.gen => a.jid = p.jid
  /\ a.kind = "older" /\ a.gen = p.gen =>
       p.oldest # <<>> /\ \A i \in 1 .. Len(a.page) : Above(a.page[i], p.oldest[1])
  /\ a.kind = "refresh" /\ a.gen = p.gen =>
       UpTo(p.cursor, a.cursor) /\ \A i \in 1 .. Len(a.page) : Above(p.cursor, a.page[i])

(* One at a time at either end.                                            *)
Lone(p, S) ==
  /\ \A a, b \in S : a.kind = "older" /\ b.kind = "older" /\ a.gen = p.gen /\ b.gen = p.gen => a = b
  /\ \A a, b \in S : a.kind = "refresh" /\ b.kind = "refresh" => a = b
  /\ \A a \in S : a.kind = "refresh" /\ a.gen = p.gen => ~p.parked

PaneInv == PaneOK(pane) /\ (\A a \in replies : ReplyOK(pane, a)) /\ Lone(pane, replies)

LEMMA EmptyPage == ASSUME NEW jid PROVE PageOf(<<>>, jid) /\ Len(<<>>) = 0
<1>1. <<>> \in Seq(Int \X Int) /\ Len(<<>>) = 0
  OBVIOUS
<1> QED BY <1>1 DEF PageOf, Ascends

LEMMA CursorFacts ==
  ASSUME NEW jid, NEW page, PageOf(page, jid), NEW f \in Int \X Int
  PROVE  LET c == CursorOf(page, f)
         IN  /\ c \in Int \X Int /\ \A i \in 1 .. Len(page) : UpTo(page[i], c)
             /\ (\A i \in 1 .. Len(page) : Above(f, page[i])) => UpTo(f, c)
<1>1. page \in Seq(Int \X Int) /\ Ascends(page)
  BY DEF PageOf
<1>2. CASE page = <<>>
  <2>1. Len(page) = 0
    BY <1>2
  <2> QED BY <1>2, <2>1 DEF CursorOf, UpTo
<1>3. CASE page # <<>>
  <2>1. Len(page) \in 1 .. Len(page) /\ Len(page) \in Nat /\ \A i \in 1 .. Len(page) : page[i] \in Int \X Int
    BY <1>1, <1>3
  <2>2. CursorOf(page, f) = page[Len(page)]
    BY <1>3 DEF CursorOf, Last
  <2>3. \A i \in 1 .. Len(page) : i = Len(page) \/ i < Len(page)
    BY <2>1
  <2> QED BY <1>1, <2>1, <2>2, <2>3 DEF UpTo, Ascends
<1> QED BY <1>2, <1>3

(* Whether more is there tells nothing of what is shown, and nothing shown *)
(* fits at both ends.                                                      *)
LEMMA SamePane ==
  ASSUME NEW p, NEW q, PaneOK(p), q = [p EXCEPT !.shown = q.shown, !.more = q.more],
         q.shown \in {p.shown, <<>>}
  PROVE  /\ PaneOK(q) /\ \A a : ReplyOK(p, a) => ReplyOK(q, a)
         /\ \A S : Lone(p, S) => Lone(q, S)
<1>1. DOMAIN p = PaneFields /\ DOMAIN q = PaneFields
  BY DEF PaneOK
<1>2. /\ q.gen = p.gen /\ q.jid = p.jid /\ q.parked = p.parked
      /\ q.cursor = p.cursor /\ q.oldest = p.oldest
  BY <1>1 DEF PaneFields
<1>3. PaneOK(q)
  <2>1. PageOf(<<>>, p.jid) /\ Len(<<>>) = 0
    BY EmptyPage
  <2> QED BY <1>1, <1>2, <2>1 DEF PaneOK, Below
<1>4. \A a : ReplyOK(p, a) => ReplyOK(q, a)
  BY <1>2 DEF ReplyOK
<1>5. \A S : Lone(p, S) => Lone(q, S)
  BY <1>2 DEF Lone
<1> QED BY <1>3, <1>4, <1>5

(* One answer more.                                                        *)
LEMMA OneMore ==
  ASSUME PaneOK(pane'), \A a \in replies : ReplyOK(pane', a), Lone(pane', replies),
         NEW b, replies' = replies \cup {b}, ReplyOK(pane', b),
         b.kind = "older" => \A a \in replies : ~(a.kind = "older" /\ a.gen = pane'.gen),
         b.kind = "refresh" => ~pane'.parked /\ \A a \in replies : a.kind # "refresh"
  PROVE  PaneInv'
<1>1. Lone(pane', replies')
  BY DEF Lone
<1> QED BY <1>1 DEF PaneInv

LEMMA ReplyFields ==
  ASSUME NEW kind, NEW jid, NEW page, NEW c
  PROVE  LET a == Reply(kind, jid, page, c)
         IN  a.kind = kind /\ a.gen = pane.gen /\ a.jid = jid /\ a.page = page /\ a.cursor = c
BY DEF Reply

(* At most one, and it fits above what is shown.                           *)
LEMMA OlderFits ==
  ASSUME OneChatPerID, Orderly(db), NEW p, PaneOK(p), p.gen = pane.gen, NEW b \in OlderRequest(p)
  PROVE  /\ ReplyOK(p, b) /\ OlderRequest(p) = {b} /\ b.kind = "older"
         /\ \A a \in replies : ~(a.kind = "older" /\ a.gen = p.gen)
<1> DEFINE page == Before(db, p.jid, p.oldest[1])
           r == Reply("older", p.jid, page, NoCursor)
<1>1. /\ p.oldest # <<>> /\ OlderRequest(p) = {r} /\ b = r
      /\ \A a \in replies : ~(a.kind = "older" /\ a.gen = p.gen)
  BY DEF OlderRequest
<1>3. p.oldest[1] \in Int \X Int
  BY <1>1 DEF PaneOK
<1>4. PageOf(page, p.jid) /\ \A i \in 1 .. Len(page) : Above(page[i], p.oldest[1])
  BY <1>3, BeforePage
<1>5. r.kind = "older" /\ r.gen = pane.gen /\ r.jid = p.jid /\ r.page = page /\ r.cursor = <<0, 0>>
  BY ReplyFields DEF NoCursor
<1> HIDE DEF page, r
<1>6. r.cursor \in Int \X Int /\ p.gen \in Nat
  BY <1>5 DEF PaneOK
<1>7. ReplyOK(p, r)
  BY <1>1, <1>4, <1>5, <1>6 DEF ReplyOK
<1> QED BY <1>1, <1>5, <1>7

LEMMA PaneAsks ==
  ASSUME OneChatPerID, Orderly(db), PaneInv
  PROVE  /\ \A jid : OpenChat(jid) => PaneInv'
         /\ \A r \in DOMAIN db.msgs : JumpTo(r) => PaneInv'
         /\ LoadOlder \/ AskedThePhone \/ Refresh => PaneInv'
<1>0. pane.gen \in Nat /\ pane.cursor \in Int \X Int /\ NoCursor \in Int \X Int
  BY DEF PaneInv, PaneOK, NoCursor
<1>s. ASSUME Skeleton
      PROVE  /\ PaneOK(pane') /\ (\A a \in replies : ReplyOK(pane', a)) /\ Lone(pane', replies)
             /\ pane'.gen = pane.gen
  <2>1. DOMAIN pane = PaneFields
    BY DEF PaneInv, PaneOK
  <2>2. /\ pane' = [pane EXCEPT !.shown = pane'.shown, !.more = pane'.more]
        /\ pane'.shown = <<>> /\ pane'.gen = pane.gen
    BY <1>s, <2>1 DEF Skeleton, PaneFields
  <2> QED BY <2>2, SamePane DEF PaneInv
<1>1. ASSUME NEW jid, OpenChat(jid) PROVE PaneInv'
  <2> DEFINE page == Recent(db, jid)
             c == CursorOf(page, NoCursor)
             b == Reply("open", jid, page, c)
  <2>1. Skeleton /\ replies' = replies \cup {b}
    BY <1>1 DEF OpenChat
  <2>2. PageOf(page, jid)
    BY RecentPage
  <2> HIDE DEF page
  <2>3. c \in Int \X Int /\ \A i \in 1 .. Len(page) : UpTo(page[i], c)
    BY <1>0, <2>2, CursorFacts
  <2>4. b.kind = "open" /\ b.gen = pane.gen /\ b.jid = jid /\ b.page = page /\ b.cursor = c
    BY ReplyFields
  <2> HIDE DEF b, c
  <2>5. ReplyOK(pane', b)
    BY <1>0, <1>s, <2>1, <2>2, <2>3, <2>4 DEF ReplyOK
  <2> QED BY <1>s, <2>1, <2>4, <2>5, OneMore
<1>2. ASSUME NEW r \in DOMAIN db.msgs, JumpTo(r) PROVE PaneInv'
  <2> DEFINE jid == db.msgs[r].chat
             page == Around(db, jid, Position(db, r))
             b == Reply("jump", jid, page, NoCursor)
  <2>1. Skeleton /\ replies' = replies \cup {b}
    BY <1>2 DEF JumpTo
  <2>2. PageOf(page, jid)
    BY AroundPage
  <2> HIDE DEF page, jid
  <2>4. b.kind = "jump" /\ b.gen = pane.gen /\ b.jid = jid /\ b.page = page /\ b.cursor = NoCursor
    BY ReplyFields
  <2> HIDE DEF b
  <2>5. ReplyOK(pane', b)
    BY <1>0, <1>s, <2>1, <2>2, <2>4 DEF ReplyOK
  <2> QED BY <1>s, <2>1, <2>4, <2>5, OneMore
<1>3. ASSUME LoadOlder PROVE PaneInv'
  <2>1. PICK b \in OlderRequest(pane) : TRUE
    BY <1>3 DEF LoadOlder
  <2>2. pane' = pane /\ replies' = replies \cup OlderRequest(pane)
    BY <1>3 DEF LoadOlder
  <2>3. /\ ReplyOK(pane, b) /\ OlderRequest(pane) = {b} /\ b.kind = "older"
        /\ \A a \in replies : ~(a.kind = "older" /\ a.gen = pane.gen)
    BY <2>1, OlderFits DEF PaneInv
  <2> QED BY <2>2, <2>3, OneMore DEF PaneInv
<1>4. ASSUME AskedThePhone PROVE PaneInv'
  <2>1. pane' = [pane EXCEPT !.more = TRUE] /\ replies' = replies \cup OlderRequest(pane')
    BY <1>4 DEF AskedThePhone
  <2>2. /\ pane' = [pane EXCEPT !.shown = pane'.shown, !.more = pane'.more]
        /\ pane'.shown = pane.shown /\ pane'.gen = pane.gen
    <3>1. DOMAIN pane = PaneFields
      BY DEF PaneInv, PaneOK
    <3> QED BY <2>1, <3>1 DEF PaneFields
  <2>3. PaneOK(pane') /\ (\A a \in replies : ReplyOK(pane', a)) /\ Lone(pane', replies)
    BY <2>2, SamePane DEF PaneInv
  <2>4. CASE OlderRequest(pane') = {}
    <3>1. replies' = replies
      BY <2>1, <2>4
    <3> QED BY <2>3, <3>1 DEF PaneInv
  <2>5. CASE OlderRequest(pane') # {}
    <3>1. PICK b \in OlderRequest(pane') : TRUE
      BY <2>5
    <3>2. /\ ReplyOK(pane', b) /\ OlderRequest(pane') = {b} /\ b.kind = "older"
          /\ \A a \in replies : ~(a.kind = "older" /\ a.gen = pane'.gen)
      BY <2>2, <2>3, <3>1, OlderFits
    <3> QED BY <2>1, <2>3, <3>2, OneMore
  <2> QED BY <2>4, <2>5
<1>5. ASSUME Refresh PROVE PaneInv'
  <2> DEFINE page == Since(db, pane.jid, pane.cursor)
             c == CursorOf(page, pane.cursor)
             b == Reply("refresh", pane.jid, page, c)
  <2>1. /\ pane' = pane /\ replies' = replies \cup {b}
        /\ ~pane.parked /\ \A a \in replies : a.kind # "refresh"
    BY <1>5 DEF Refresh
  <2>2. PageOf(page, pane.jid) /\ \A i \in 1 .. Len(page) : Above(pane.cursor, page[i])
    BY <1>0, SincePage
  <2> HIDE DEF page
  <2>3. c \in Int \X Int /\ UpTo(pane.cursor, c) /\ \A i \in 1 .. Len(page) : UpTo(page[i], c)
    BY <1>0, <2>2, CursorFacts
  <2>4. b.kind = "refresh" /\ b.gen = pane.gen /\ b.jid = pane.jid /\ b.page = page /\ b.cursor = c
    BY ReplyFields
  <2> HIDE DEF b, c
  <2>5. ReplyOK(pane, b)
    BY <1>0, <2>2, <2>3, <2>4 DEF ReplyOK
  <2> QED BY <2>1, <2>4, <2>5, OneMore DEF PaneInv
<1> QED BY <1>1, <1>2, <1>3, <1>4, <1>5

----------------------------------------------------------------------------
(* A new pane: every answer asked for before is stale.                     *)
LEMMA NewPane ==
  ASSUME PaneInv, PaneOK(pane'), pane'.gen = pane.gen + 1, NEW b, replies' = replies \ {b}
  PROVE  PaneInv'
<1>1. pane.gen \in Nat
  BY DEF PaneInv, PaneOK
<1>2. \A a \in replies' : a.gen \in Nat /\ a.gen <= pane.gen /\ a.gen # pane'.gen /\ a.gen <= pane'.gen
  BY <1>1 DEF PaneInv, ReplyOK
<1>3. \A a \in replies' : ReplyOK(pane', a)
  BY <1>2 DEF PaneInv, ReplyOK
<1>4. Lone(pane', replies')
  BY <1>2 DEF PaneInv, Lone
<1> QED BY <1>3, <1>4 DEF PaneInv

LEMMA HeadOfPage ==
  ASSUME NEW jid, NEW s, PageOf(s, jid), s # <<>>
  PROVE  OldestOf(s) = <<s[1]>> /\ OldestOf(s)[1] = s[1] /\ OldestOf(s) # <<>> /\ Len(s) \in Nat
         /\ 1 \in 1 .. Len(s) /\ \A i \in 1 .. Len(s) : UpTo(s[1], s[i])
<1>1. s \in Seq(Int \X Int) /\ Ascends(s)
  BY DEF PageOf
<1>2. Len(s) \in Nat /\ 1 \in 1 .. Len(s) /\ Head(s) = s[1]
  BY <1>1
<1>3. OldestOf(s) = <<s[1]>>
  BY <1>2 DEF OldestOf
<1>4. OldestOf(s)[1] = s[1] /\ OldestOf(s) # <<>>
  BY <1>3
<1>5. \A i \in 1 .. Len(s) : UpTo(s[1], s[i])
  <2>1. \A i \in 1 .. Len(s) : i = 1 \/ 1 < i
    BY <1>2
  <2> QED BY <1>1, <1>2, <2>1 DEF UpTo, Ascends
<1> QED BY <1>2, <1>3, <1>4, <1>5

LEMMA OpenedFits ==
  ASSUME PaneInv, NEW a \in replies, a.kind \in {"open", "jump"}
  PROVE  PaneOK(Opened(a)) /\ Opened(a).gen = pane.gen + 1
<1> DEFINE p == Opened(a)
<1>1. /\ p.gen = pane.gen + 1 /\ p.jid = a.jid /\ p.parked = (a.kind = "jump") /\ p.shown = a.page
      /\ p.cursor = a.cursor /\ p.oldest = OldestOf(a.page) /\ DOMAIN p = PaneFields
  BY DEF Opened, PaneFields
<1>2. ReplyOK(pane, a) /\ pane.gen \in Nat
  BY DEF PaneInv, PaneOK
<1> HIDE DEF p
<1>3. p.oldest # <<>> =>
        /\ p.oldest[1] \in Int \X Int /\ Below(p.oldest[1], p.shown)
        /\ ~p.parked => UpTo(p.oldest[1], p.cursor)
  <2>1. CASE a.page = <<>>
    BY <1>1, <2>1 DEF OldestOf
  <2>2. CASE a.page # <<>>
    <3>1. /\ PageOf(a.page, a.jid)
          /\ a.kind = "open" => \A i \in 1 .. Len(a.page) : UpTo(a.page[i], a.cursor)
      BY <1>2 DEF ReplyOK
    <3>2. /\ OldestOf(a.page)[1] = a.page[1] /\ 1 \in 1 .. Len(a.page) /\ Below(a.page[1], a.page)
      BY <2>2, <3>1, HeadOfPage DEF Below
    <3>3. a.page[1] \in Int \X Int
      BY <3>1, <3>2 DEF PageOf
    <3> QED BY <1>1, <3>1, <3>2, <3>3
  <2> QED BY <2>1, <2>2
<1>4. ~p.parked => \A i \in 1 .. Len(p.shown) : UpTo(p.shown[i], p.cursor)
  <2>1. ~p.parked => a.kind = "open"
    BY <1>1
  <2> QED BY <1>1, <1>2, <2>1 DEF ReplyOK
<1>5. p.gen \in Nat /\ p.cursor \in Int \X Int /\ PageOf(p.shown, p.jid)
  BY <1>1, <1>2 DEF ReplyOK
<1>6. PaneOK(p)
  BY <1>1, <1>3, <1>4, <1>5 DEF PaneOK
<1> QED BY <1>1, <1>6 DEF p

LEMMA EmptyPane ==
  ASSUME NEW p, DOMAIN p = PaneFields, p.gen \in Nat, p.cursor = NoCursor, p.shown = <<>>, p.oldest = <<>>
  PROVE  PaneOK(p)
<1>1. PageOf(<<>>, p.jid) /\ Len(<<>>) = 0 /\ NoCursor \in Int \X Int
  BY EmptyPage DEF NoCursor
<1> QED BY <1>1 DEF PaneOK

LEMMA Closed == ASSUME NEW g \in Nat PROVE PaneOK([NoPane EXCEPT !.gen = g]) /\ [NoPane EXCEPT !.gen = g].gen = g
<1> DEFINE p == [NoPane EXCEPT !.gen = g]
<1>1. DOMAIN p = PaneFields /\ p.gen = g /\ p.cursor = NoCursor /\ p.shown = <<>> /\ p.oldest = <<>>
  BY DEF NoPane, PaneFields
<1> HIDE DEF p
<1>2. PaneOK(p)
  BY <1>1, EmptyPane
<1> QED BY <1>1, <1>2 DEF p

Reach(s, p)  == \A i \in 1 .. Len(s) : UpTo(s[i], p)
Beyond(p, s) == \A i \in 1 .. Len(s) : Above(p, s[i])
Under(s, p)  == \A i \in 1 .. Len(s) : Above(s[i], p)

(* Newer ones at the end.                                                  *)
LEMMA NewerAtTheEnd ==
  ASSUME NEW jid, NEW s, NEW t, PageOf(s, jid), PageOf(t, jid), NEW p \in Int \X Int, NEW q \in Int \X Int,
         Reach(s, p), Beyond(p, t), Reach(t, q), UpTo(p, q)
  PROVE  /\ PageOf(s \o t, jid) /\ Reach(s \o t, q)
         /\ \A o \in Int \X Int : Below(o, s) /\ UpTo(o, p) => Below(o, s \o t) /\ UpTo(o, q)
<1> DEFINE u == s \o t
<1>1. /\ s \in Seq(Int \X Int) /\ t \in Seq(Int \X Int)
      /\ Len(s) \in Nat /\ Len(t) \in Nat
      /\ (\A i \in 1 .. Len(s) : s[i] \in Int \X Int) /\ \A i \in 1 .. Len(t) : t[i] \in Int \X Int
  BY DEF PageOf
<1>2. \A i \in 1 .. Len(s), j \in 1 .. Len(t) : Above(s[i], t[j])
  BY <1>1, AboveAbove DEF UpTo, Reach, Beyond
<1>3. /\ PageOf(u, jid) /\ Len(u) = Len(s) + Len(t)
      /\ \A k \in 1 .. Len(u) : \/ k \in 1 .. Len(s) /\ u[k] = s[k]
                                \/ k > Len(s) /\ k - Len(s) \in 1 .. Len(t) /\ u[k] = t[k - Len(s)]
  BY <1>2, PagesMeet
<1> HIDE DEF u
<1>4. \A i \in 1 .. Len(s) : UpTo(s[i], q)
  BY <1>1, AboveAbove DEF UpTo, Reach
<1>5. Reach(u, q)
  BY <1>3, <1>4 DEF Reach
<1>6. ASSUME NEW o \in Int \X Int, Below(o, s), UpTo(o, p) PROVE Below(o, u) /\ UpTo(o, q)
  <2>1. \A i \in 1 .. Len(t) : UpTo(o, t[i])
    BY <1>1, <1>6, AboveAbove DEF UpTo, Beyond
  <2>2. UpTo(o, q)
    BY <1>6, AboveAbove DEF UpTo
  <2> QED BY <1>3, <1>6, <2>1, <2>2 DEF Below
<1> QED BY <1>3, <1>5, <1>6 DEF u

(* Older ones in front.                                                    *)
LEMMA OlderInFront ==
  ASSUME NEW jid, NEW s, NEW t, PageOf(s, jid), PageOf(t, jid), NEW o \in Int \X Int,
         Below(o, t), Under(s, o)
  PROVE  /\ PageOf(s \o t, jid)
         /\ s = <<>> => Below(o, s \o t)
         /\ s # <<>> => /\ OldestOf(s)[1] \in Int \X Int /\ Below(OldestOf(s)[1], s \o t)
                        /\ \A p \in Int \X Int : UpTo(o, p) => UpTo(OldestOf(s)[1], p)
         /\ \A p \in Int \X Int : Reach(t, p) /\ UpTo(o, p) => Reach(s \o t, p)
<1> DEFINE u == s \o t
<1>1. /\ s \in Seq(Int \X Int) /\ t \in Seq(Int \X Int)
      /\ Len(s) \in Nat /\ Len(t) \in Nat
      /\ (\A i \in 1 .. Len(s) : s[i] \in Int \X Int) /\ \A i \in 1 .. Len(t) : t[i] \in Int \X Int
  BY DEF PageOf
<1>2. \A i \in 1 .. Len(s), j \in 1 .. Len(t) : Above(s[i], t[j])
  BY <1>1, AboveAbove DEF UpTo, Under, Below
<1>3. /\ PageOf(u, jid) /\ Len(u) = Len(s) + Len(t)
      /\ \A k \in 1 .. Len(u) : \/ k \in 1 .. Len(s) /\ u[k] = s[k]
                                \/ k > Len(s) /\ k - Len(s) \in 1 .. Len(t) /\ u[k] = t[k - Len(s)]
  BY <1>2, PagesMeet
<1> HIDE DEF u
<1>4. s = <<>> => Below(o, u)
  <2>1. s = <<>> => Len(s) = 0
    OBVIOUS
  <2>2. s = <<>> => \A k \in 1 .. Len(u) : k - Len(s) \in 1 .. Len(t) /\ u[k] = t[k - Len(s)]
    BY <1>3, <2>1
  <2> QED BY <2>2 DEF Below
<1>5. ASSUME s # <<>>
      PROVE  /\ OldestOf(s)[1] \in Int \X Int /\ Below(OldestOf(s)[1], u)
             /\ \A p \in Int \X Int : UpTo(o, p) => UpTo(OldestOf(s)[1], p)
  <2>1. /\ OldestOf(s)[1] = s[1] /\ 1 \in 1 .. Len(s)
        /\ \A i \in 1 .. Len(s) : UpTo(s[1], s[i])
    BY <1>5, HeadOfPage
  <2>2. s[1] \in Int \X Int /\ Above(s[1], o)
    BY <1>1, <2>1 DEF Under
  <2>3. \A j \in 1 .. Len(t) : UpTo(s[1], t[j])
    BY <1>2, <2>1 DEF UpTo
  <2>4. Below(s[1], u)
    BY <1>3, <2>1, <2>3 DEF Below
  <2>5. \A p \in Int \X Int : UpTo(o, p) => UpTo(s[1], p)
    BY <2>2, AboveAbove DEF UpTo
  <2> QED BY <2>1, <2>2, <2>4, <2>5
<1>6. ASSUME NEW p \in Int \X Int, Reach(t, p), UpTo(o, p)
      PROVE  Reach(u, p)
  <2>1. ASSUME NEW i \in 1 .. Len(s) PROVE UpTo(s[i], p)
    <3>1. s[i] \in Int \X Int /\ Above(s[i], o)
      BY <1>1 DEF Under
    <3> QED BY <1>6, <3>1, AboveAbove DEF UpTo
  <2> QED BY <1>3, <1>6, <2>1 DEF Reach
<1> QED BY <1>3, <1>4, <1>5, <1>6 DEF u

LEMMA RefreshFits ==
  ASSUME PaneInv, NEW a \in replies, a.kind = "refresh", a.gen = pane.gen,
         replies' = replies \ {a}, pane' = [pane EXCEPT !.cursor = a.cursor, !.shown = @ \o a.page]
  PROVE  PaneInv'
<1> DEFINE s == pane.shown
           t == a.page
           u == s \o t
<1>1. PaneOK(pane) /\ ReplyOK(pane, a) /\ ~pane.parked
  BY DEF PaneInv, Lone
<1>2. /\ DOMAIN pane' = PaneFields /\ pane'.gen = pane.gen /\ pane'.jid = pane.jid /\ pane'.parked = pane.parked
      /\ pane'.shown = u /\ pane'.cursor = a.cursor /\ pane'.oldest = pane.oldest
  <2>1. DOMAIN pane = PaneFields
    BY <1>1 DEF PaneOK
  <2>2. pane' = [pane EXCEPT !.cursor = a.cursor, !.shown = u]
    OBVIOUS
  <2> HIDE DEF u
  <2> QED BY <2>1, <2>2 DEF PaneFields
<1>3. /\ a.cursor \in Int \X Int /\ PageOf(u, pane.jid) /\ Reach(u, a.cursor)
      /\ pane.oldest # <<>> => /\ pane.oldest[1] \in Int \X Int /\ Below(pane.oldest[1], u)
                               /\ UpTo(pane.oldest[1], a.cursor)
  <2>1. /\ a.jid = pane.jid /\ PageOf(s, pane.jid) /\ PageOf(t, pane.jid)
        /\ pane.cursor \in Int \X Int /\ a.cursor \in Int \X Int
        /\ Reach(s, pane.cursor) /\ Beyond(pane.cursor, t) /\ Reach(t, a.cursor) /\ UpTo(pane.cursor, a.cursor)
        /\ pane.oldest # <<>> => /\ pane.oldest[1] \in Int \X Int /\ Below(pane.oldest[1], s)
                                 /\ UpTo(pane.oldest[1], pane.cursor)
    BY <1>1 DEF PaneOK, ReplyOK, Reach, Beyond
  <2> HIDE DEF s, t
  <2>2. /\ PageOf(s \o t, pane.jid) /\ Reach(s \o t, a.cursor)
        /\ \A o \in Int \X Int : Below(o, s) /\ UpTo(o, pane.cursor) => Below(o, s \o t) /\ UpTo(o, a.cursor)
    BY <2>1, NewerAtTheEnd
  <2> QED BY <2>1, <2>2
<1> HIDE DEF u
<1>4. PaneOK(pane')
  BY <1>1, <1>2, <1>3 DEF PaneOK, Reach
<1>5. ASSUME NEW b \in replies' PROVE ReplyOK(pane', b)
  <2>1. ReplyOK(pane, b) /\ b.kind # "refresh"
    BY <1>5 DEF PaneInv, Lone
  <2> QED BY <1>2, <2>1 DEF ReplyOK
<1>6. Lone(pane', replies')
  BY <1>2 DEF PaneInv, Lone
<1> QED BY <1>4, <1>5, <1>6 DEF PaneInv

LEMMA OlderJoins ==
  ASSUME PaneInv, NEW a \in replies, a.kind = "older", a.gen = pane.gen, replies' = replies \ {a},
         pane' = [pane EXCEPT !.shown = a.page \o @, !.more = Len(a.page) = PageSize,
                              !.oldest = IF a.page = <<>> THEN @ ELSE OldestOf(a.page)]
  PROVE  PaneInv'
<1> DEFINE s == a.page
           t == pane.shown
           u == s \o t
           o == IF s = <<>> THEN pane.oldest ELSE OldestOf(s)
<1>1. PaneOK(pane) /\ ReplyOK(pane, a)
  BY DEF PaneInv
<1>2. /\ DOMAIN pane' = PaneFields /\ pane'.gen = pane.gen /\ pane'.jid = pane.jid /\ pane'.parked = pane.parked
      /\ pane'.shown = u /\ pane'.cursor = pane.cursor /\ pane'.oldest = o
  <2>1. DOMAIN pane = PaneFields
    BY <1>1 DEF PaneOK
  <2> DEFINE more == Len(a.page) = PageSize
  <2>2. pane' = [pane EXCEPT !.shown = u, !.more = more, !.oldest = o]
    OBVIOUS
  <2> HIDE DEF u, o, more
  <2> QED BY <2>1, <2>2 DEF PaneFields
<1>3. /\ PageOf(u, pane.jid)
      /\ ~pane.parked => Reach(u, pane.cursor)
      /\ o # <<>> /\ o[1] \in Int \X Int /\ Below(o[1], u)
      /\ ~pane.parked => UpTo(o[1], pane.cursor)
  <2> DEFINE f == pane.oldest[1]
  <2>1. pane.oldest # <<>> /\ Under(s, f)
    BY <1>1 DEF ReplyOK, Under
  <2>2. /\ f \in Int \X Int /\ Below(f, t) /\ pane.cursor \in Int \X Int
        /\ ~pane.parked => UpTo(f, pane.cursor) /\ Reach(t, pane.cursor)
    BY <1>1, <2>1 DEF PaneOK, Reach
  <2>3. PageOf(s, pane.jid) /\ PageOf(t, pane.jid)
    BY <1>1 DEF PaneOK, ReplyOK
  <2>4. /\ s = <<>> => o = pane.oldest
        /\ s # <<>> => o = OldestOf(s) /\ o # <<>>
    BY <2>3, HeadOfPage
  <2> HIDE DEF s, t, o, f
  <2>5. /\ PageOf(s \o t, pane.jid)
        /\ s = <<>> => Below(f, s \o t)
        /\ s # <<>> => /\ OldestOf(s)[1] \in Int \X Int /\ Below(OldestOf(s)[1], s \o t)
                       /\ \A p \in Int \X Int : UpTo(f, p) => UpTo(OldestOf(s)[1], p)
        /\ \A p \in Int \X Int : Reach(t, p) /\ UpTo(f, p) => Reach(s \o t, p)
    BY <2>1, <2>2, <2>3, OlderInFront
  <2>6. CASE s = <<>>
    BY <2>1, <2>2, <2>4, <2>5, <2>6 DEF f
  <2>7. CASE s # <<>>
    BY <2>2, <2>4, <2>5, <2>7
  <2> QED BY <2>6, <2>7
<1> HIDE DEF u, o
<1>4. PaneOK(pane')
  BY <1>1, <1>2, <1>3 DEF PaneOK, Reach
<1>5. ASSUME NEW b \in replies' PROVE ReplyOK(pane', b)
  <2>1. ReplyOK(pane, b) /\ ~(b.kind = "older" /\ b.gen = pane.gen)
    BY <1>5 DEF PaneInv, Lone
  <2> QED BY <1>2, <2>1 DEF ReplyOK
<1>6. Lone(pane', replies')
  BY <1>2 DEF PaneInv, Lone
<1> QED BY <1>4, <1>5, <1>6 DEF PaneInv

LEMMA FewerReplies == ASSUME PaneInv, pane' = pane, replies' \subseteq replies PROVE PaneInv'
BY DEF PaneInv, Lone

LEMMA PaneApplies ==
  ASSUME PaneInv, NEW a \in replies, Apply(a) \/ Fail(a)
  PROVE  PaneInv'
<1>0. pane.gen \in Nat /\ a.kind \in {"open", "jump", "older", "refresh"}
  BY DEF PaneInv, PaneOK, ReplyOK
<1>1. replies' = replies \ {a}
  BY DEF Apply, Fail
<1>2. CASE Fail(a)
  <2>1. CASE pane' = pane
    BY <1>1, <2>1, FewerReplies
  <2>2. CASE pane' = [NoPane EXCEPT !.gen = pane.gen + 1]
    BY <1>0, <1>1, <2>2, Closed, NewPane
  <2> QED BY <1>2, <2>1, <2>2 DEF Fail
<1>3. CASE Apply(a)
  <2>1. CASE a.kind \in {"open", "jump"}
    <3>1. pane' = Opened(a)
      BY <1>3, <2>1 DEF Apply
    <3> QED BY <1>1, <2>1, <3>1, OpenedFits, NewPane
  <2>2. CASE a.kind \in {"older", "refresh"} /\ Stale(a)
    <3>1. pane' = pane
      BY <1>3, <2>2 DEF Apply
    <3> QED BY <1>1, <3>1, FewerReplies
  <2>3. CASE a.kind = "refresh" /\ ~Stale(a)
    <3>1. pane' = [pane EXCEPT !.cursor = a.cursor, !.shown = @ \o a.page] /\ a.gen = pane.gen
      BY <1>3, <2>3 DEF Apply, Stale
    <3> QED BY <1>1, <2>3, <3>1, RefreshFits
  <2>4. CASE a.kind = "older" /\ ~Stale(a)
    <3>1. /\ pane' = [pane EXCEPT !.shown = a.page \o @, !.more = Len(a.page) = PageSize,
                                  !.oldest = IF a.page = <<>> THEN @ ELSE OldestOf(a.page)]
          /\ a.gen = pane.gen
      BY <1>3, <2>4 DEF Apply, Stale
    <3> QED BY <1>1, <2>4, <3>1, OlderJoins
  <2> QED BY <1>0, <2>1, <2>2, <2>3, <2>4
<1> QED BY <1>2, <1>3

----------------------------------------------------------------------------
IPane == IF reader = "pane" THEN PaneInv ELSE pane = NoPane /\ replies = {}

LEMMA PaneInit == ASSUME ClientsInit PROVE IPane
<1>1. pane = NoPane /\ replies = {}
  BY DEF ClientsInit, ReadInit
<1>2. /\ DOMAIN pane = PaneFields /\ pane.gen \in Nat /\ pane.cursor = NoCursor
      /\ pane.shown = <<>> /\ pane.oldest = <<>>
  BY <1>1 DEF NoPane, PaneFields
<1>3. PaneOK(pane)
  BY <1>2, EmptyPane
<1>4. PaneInv
  BY <1>1, <1>3 DEF PaneInv, Lone
<1> QED BY <1>1, <1>4 DEF IPane

LEMMA PaneStep ==
  ASSUME OneChatPerID, IStore, ISay, IFrom, IPane, [ClientsNext]_clientVars
  PROVE  IPane'
<1>0. reader' = reader
  BY DEF ClientsNext, ReadNext, clientVars, allVars, readVars, BridgeStep, Polling, EditScope, FetchOlder, Clicking, Browsing
<1>1. (reader = "pane" /\ Browsing) \/ UNCHANGED <<pane, replies>>
  BY DEF ClientsNext, ReadNext, clientVars, allVars, readVars, BridgeStep, Polling, EditScope, FetchOlder, Clicking, Browsing
<1>2. CASE UNCHANGED <<pane, replies>>
  <2>1. PaneInv => PaneInv'
    BY <1>2, FewerReplies
  <2> QED BY <1>0, <1>2, <2>1 DEF IPane
<1>3. CASE reader = "pane" /\ Browsing
  <2>1. PaneInv
    BY <1>3 DEF IPane
  <2>2. Orderly(db)
    BY <1>3 DEF IStore, StoreInv, Sound, Shaped, MessageRows, IFrom, FromInv, Orderly
  <2>3. PaneInv'
    <3>1. \/ \E jid : OpenChat(jid)
          \/ \E r \in DOMAIN db.msgs : JumpTo(r)
          \/ LoadOlder \/ AskedThePhone \/ Refresh
          \/ \E a \in replies : Apply(a) \/ Fail(a)
      BY <1>3 DEF Browsing
    <3>2. CASE \E a \in replies : Apply(a) \/ Fail(a)
      BY <2>1, <3>2, PaneApplies
    <3>3. CASE \E jid : OpenChat(jid)
      <4>1. PICK jid : OpenChat(jid)
        BY <3>3
      <4> QED BY <2>1, <2>2, <4>1, PaneAsks
    <3>4. CASE \E r \in DOMAIN db.msgs : JumpTo(r)
      <4>1. PICK r \in DOMAIN db.msgs : JumpTo(r)
        BY <3>4
      <4> QED BY <2>1, <2>2, <4>1, PaneAsks
    <3>5. CASE LoadOlder \/ AskedThePhone \/ Refresh
      BY <2>1, <2>2, <3>5, PaneAsks
    <3> QED BY <3>1, <3>2, <3>3, <3>4, <3>5
  <2> QED BY <1>0, <1>3, <2>3 DEF IPane
<1> QED BY <1>1, <1>2, <1>3

(* One place is one place.                                                 *)
LEMMA SamePlaceTwice ==
  ASSUME NEW a \in Jids, NEW b \in Jids, NEW c \in Jids, a.d = 0, b.d = 0, c.d = 0, SamePlace(a, b), SamePlace(b, c)
  PROVE  SamePlace(a, c) /\ SamePlace(b, a)
<1>1. /\ a = [u |-> a.u, s |-> a.s, d |-> a.d] /\ b = [u |-> b.u, s |-> b.s, d |-> b.d]
      /\ c = [u |-> c.u, s |-> c.s, d |-> c.d]
  BY DEF Jids
<1> QED BY <1>1 DEF SamePlace

LEMMA PaneShows ==
  ASSUME OneChatPerID, RowsFrom(db, FALSE), PaneInv
  PROVE  PaneShowsItsChat
<1>1. pane.shown \in Seq(Int \X Int) /\ Ascends(pane.shown) /\ \A i \in 1 .. Len(pane.shown) : OfChat(pane.shown[i], pane.jid)
  BY DEF PaneInv, PaneOK, PageOf
<1>2. Len(pane.shown) \in Nat /\ DOMAIN pane.shown = 1 .. Len(pane.shown)
  BY <1>1
<1>3. \A i \in 1 .. Len(pane.shown) - 1 : Above(pane.shown[i], pane.shown[i + 1])
  <2>1. \A i \in 1 .. Len(pane.shown) - 1 : i \in 1 .. Len(pane.shown) /\ i + 1 \in 1 .. Len(pane.shown) /\ i < i + 1
    BY <1>2
  <2> QED BY <1>1, <2>1 DEF Ascends
<1>4. ASSUME NEW i \in DOMAIN pane.shown, NEW r \in DOMAIN db.msgs, Position(db, r) = pane.shown[i]
      PROVE  SamePlace(db.msgs[r].chat, pane.jid)
  <2>1. PICK e \in Events : e.type = "message" /\ e.w.id = pane.shown[i][2] /\ Placed(pane.jid, e.w.chat)
    BY <1>1, <1>2 DEF OfChat
  <2>2. PICK f \in Events : f.type = "message" /\ f.w.id = db.msgs[r].id /\ Placed(db.msgs[r].chat, f.w.chat)
    BY DEF RowsFrom, From, Carried
  <2>3. pane.shown[i][2] = db.msgs[r].id
    BY <1>4 DEF Position
  <2>4. /\ SamePlace(f.w.chat, e.w.chat) /\ e.w.chat.d = 0 /\ f.w.chat.d = 0
        /\ e.w.chat \in Jids /\ f.w.chat \in Jids
    BY <2>1, <2>2, <2>3, EventsAssumption DEF OneChatPerID, Wires
  <2>5. SamePlace(db.msgs[r].chat, e.w.chat)
    BY <2>1, <2>2, <2>4, SamePlaceTwice DEF Placed
  <2>6. SamePlace(e.w.chat, pane.jid)
    BY <2>1, <2>4, SamePlaceTwice DEF Placed, SamePlace
  <2> QED BY <2>1, <2>2, <2>4, <2>5, <2>6, SamePlaceTwice DEF Placed
<1> QED BY <1>3, <1>4 DEF PaneShowsItsChat

(* The dashboard's message pane (ui/app.js, internal/dashboard api.go): each *)
(* message once and in order, and of the chat it is open on or of the phone *)
(* number that chat has been folded into, whatever answers overlap, fail or *)
(* come late and whatever the bridge writes meanwhile.                      *)
THEOREM PaneIsOfItsChat == OneChatPerID => (ClientsSpec => []PaneShowsItsChat)
<1> SUFFICES ASSUME OneChatPerID PROVE ClientsSpec => []PaneShowsItsChat
  OBVIOUS
<1>1. ClientsInit => IPane
  BY PaneInit
<1>2. IStore /\ ISay /\ IFrom /\ IPane /\ [ClientsNext]_clientVars => IPane'
  BY PaneStep
<1>3. IFrom /\ IPane => PaneShowsItsChat
  <2>1. CASE reader = "pane"
    BY <2>1, PaneShows DEF IFrom, FromInv, IPane
  <2>2. CASE reader # "pane"
    <3>1. Len(<<>>) = 0 /\ DOMAIN <<>> = {} /\ 1 .. 0 - 1 = {}
      OBVIOUS
    <3>2. IPane => pane.shown = <<>>
      BY <2>2 DEF IPane, NoPane
    <3> QED BY <3>1, <3>2 DEF PaneShowsItsChat
  <2> QED BY <2>1, <2>2
<1> QED BY <1>1, <1>2, <1>3, StoreInvariant, SayAlways, FromAlways, PTL DEF ClientsSpec

----------------------------------------------------------------------------
(* The chats a scope lets list_chats find, most recent first.              *)
MostRecent(d, S) == InOrder(S, LAMBDA a, b : d.chats[a].last > d.chats[b].last)

LEMMA MostRecentFacts ==
  ASSUME NEW d, NEW S, IsFiniteSet(S), \A c \in S : d.chats[c].last \in Int
  PROVE  LET s == MostRecent(d, S)
         IN  /\ s \in Seq(S) /\ Len(s) \in Nat
             /\ \A a \in S : \E k \in 1 .. Len(s) : s[k] = a
             /\ \A i, j \in 1 .. Len(s) : i < j => s[i] # s[j] /\ ~(d.chats[s[j]].last > d.chats[s[i]].last)
<1> DEFINE R == {p \in S \X S : d.chats[p[1]].last > d.chats[p[2]].last}
           s == MostRecent(d, S)
<1>1. \A a, b \in S : <<a, b>> \in R <=> d.chats[a].last > d.chats[b].last
  OBVIOUS
<1> HIDE DEF R
<1>2. Orders(R, S)
  BY <1>1 DEF Orders
<1>3. PICK t \in [1 .. Cardinality(S) -> S] : InLine(t, S, R)
  BY <1>2, CanBeOrdered
<1>4. Cardinality(S) \in Nat
  BY FS_CardinalityType
<1>5. \A q \in [1 .. Cardinality(S) -> S] : InLine(q, S, R) <=>
         \A j \in DOMAIN q : \A i \in 1 .. j - 1 : q[i] # q[j] /\ ~(d.chats[q[j]].last > d.chats[q[i]].last)
  <2>1. SUFFICES ASSUME NEW q \in [1 .. Cardinality(S) -> S], NEW j \in DOMAIN q, NEW i \in 1 .. j - 1
                 PROVE  <<q[j], q[i]>> \in R <=> d.chats[q[j]].last > d.chats[q[i]].last
    BY DEF InLine
  <2>2. i \in DOMAIN q
    BY <1>4
  <2> QED BY <1>1, <2>2
<1>6. InLine(s, S, R)
  BY <1>3, <1>5 DEF MostRecent, InOrder
<1> HIDE DEF s
<1>7. /\ s \in Seq(S) /\ Len(s) \in Nat
      /\ \A k \in 1 .. Len(s) : s[k] \in S
      /\ \A a \in S : \E k \in 1 .. Len(s) : s[k] = a
      /\ \A i, j \in 1 .. Len(s) : i < j => s[i] # s[j] /\ <<s[j], s[i]>> \notin R
  BY <1>6, LineFacts
<1> QED BY <1>1, <1>7 DEF s

(* The first k of a sequence without repetition are k.                     *)
LEMMA CountFirst ==
  ASSUME NEW S, NEW s \in Seq(S), \A i, j \in 1 .. Len(s) : i < j => s[i] # s[j], NEW k \in 1 .. Len(s),
         NEW K, IsFiniteSet(K), \A i \in 1 .. k : s[i] \in K
  PROVE  k <= Cardinality(K)
<1> DEFINE T == {s[i] : i \in 1 .. k}
           f == [i \in 1 .. k |-> s[i]]
<1>1. k \in Nat /\ Len(s) \in Nat /\ k > 0 /\ IsFiniteSet(1 .. k) /\ Cardinality(1 .. k) = k
  BY FS_Interval
<1>2. \A i, j \in 1 .. k : s[i] = s[j] => i = j
  <2>1. SUFFICES ASSUME NEW i \in 1 .. k, NEW j \in 1 .. k, i # j PROVE s[i] # s[j]
    OBVIOUS
  <2>2. i \in 1 .. Len(s) /\ j \in 1 .. Len(s) /\ (i < j \/ j < i)
    BY <1>1, <2>1
  <2> QED BY <2>2
<1>3. f \in Bijection(1 .. k, T)
  BY <1>2 DEF Bijection, Injection, Surjection, IsInjective
<1>4. Cardinality(T) = k
  BY <1>1, <1>3, FS_Bijection DEF ExistsBijection
<1>5. Cardinality(T) <= Cardinality(K)
  BY FS_Subset
<1> QED BY <1>4, <1>5

(* A chat of the allowlist is on the page unless a page is as recent.       *)
LEMMA QuietListed ==
  ASSUME Sound(db), scope.active, NEW c \in DOMAIN db.chats, Readable(scope, c)
  PROVE  \/ c \in ToSet(listChats(scope, db, NoName, 0).rows)
         \/ Cardinality({k \in DOMAIN db.chats : Readable(scope, k) /\ db.chats[k].last >= db.chats[c].last}) > DefaultLimit
<1> DEFINE found == {k \in scope.list \cap DOMAIN db.chats : NoName # NoName => ChatName(db, k) = NoName}
           s == MostRecent(db, found)
           rows == FirstN(s, DefaultLimit)
           K == {k \in DOMAIN db.chats : Readable(scope, k) /\ db.chats[k].last >= db.chats[c].last}
<1>1. IsFiniteSet(DOMAIN db.chats) /\ \A k \in DOMAIN db.chats : db.chats[k].last \in Int
  BY DEF Sound, Shaped, ChatRows
<1>2. IsFiniteSet(found) /\ found \subseteq DOMAIN db.chats /\ found \subseteq scope.list /\ c \in found
  <2>1. found \in SUBSET DOMAIN db.chats /\ found \subseteq scope.list
    OBVIOUS
  <2>2. c \in found
    BY DEF Readable
  <2> QED BY <1>1, <2>1, <2>2, FS_Subset
<1>3. listChats(scope, db, NoName, 0).rows = rows
  <2>1. ClampLimit(0) = DefaultLimit
    BY DEF ClampLimit
  <2> QED BY <2>1 DEF listChats, ScopedChats, Answer, MostRecent
<1> HIDE DEF found
<1>4. /\ s \in Seq(found) /\ Len(s) \in Nat
      /\ \A a \in found : \E k \in 1 .. Len(s) : s[k] = a
      /\ \A i, j \in 1 .. Len(s) : i < j => s[i] # s[j] /\ ~(db.chats[s[j]].last > db.chats[s[i]].last)
  BY <1>1, <1>2, MostRecentFacts
<1> HIDE DEF s
<1>5. PICK k \in 1 .. Len(s) : s[k] = c
  BY <1>2, <1>4
<1>6. DefaultLimit \in Nat
  BY StoreAssumption
<1>7. CASE k <= DefaultLimit
  <2>1. /\ rows \in Seq(found) /\ Len(rows) = (IF DefaultLimit < Len(s) THEN DefaultLimit ELSE Len(s))
        /\ \A i \in 1 .. Len(rows) : rows[i] = s[i]
    BY <1>4, <1>6, FirstNFacts
  <2> HIDE DEF rows
  <2>2. k \in 1 .. Len(rows) /\ rows[k] = c /\ DOMAIN rows = 1 .. Len(rows)
    <3> DEFINE n == Len(rows)
    <3>1. DOMAIN rows = 1 .. n
      BY <2>1
    <3>2. k \in Nat /\ k > 0 /\ k <= Len(s)
      BY <1>4, <1>5
    <3>3. n = IF DefaultLimit < Len(s) THEN DefaultLimit ELSE Len(s)
      BY <2>1
    <3>4. k \in 1 .. n
      <4> HIDE DEF n
      <4> QED BY <1>4, <1>6, <1>7, <3>2, <3>3
    <3> QED BY <1>5, <2>1, <3>1, <3>4
  <2>3. c \in ToSet(rows)
    BY <2>2 DEF ToSet
  <2> QED BY <1>3, <2>3
<1>8. CASE k > DefaultLimit
  <2>1. IsFiniteSet(K)
    BY <1>1, FS_Subset
  <2>2. ASSUME NEW i \in 1 .. k PROVE s[i] \in K
    <3>1. i \in 1 .. Len(s) /\ (i = k \/ i < k)
      BY <1>4, <1>5
    <3>2. s[i] \in found
      BY <1>4, <3>1
    <3>3. ~(db.chats[s[k]].last > db.chats[s[i]].last)
      <4>1. CASE i = k
        <5>1. db.chats[s[k]].last \in Int
          BY <1>1, <1>2, <1>5
        <5> QED BY <4>1, <5>1
      <4>2. CASE i < k
        BY <1>4, <1>5, <3>1, <4>2
      <4> QED BY <3>1, <4>1, <4>2
    <3>4. db.chats[s[i]].last >= db.chats[c].last
      BY <1>1, <1>2, <1>5, <3>2, <3>3
    <3> QED BY <1>2, <3>2, <3>4 DEF Readable
  <2>3. k <= Cardinality(K)
    <3> HIDE DEF K
    <3> QED BY <1>4, <1>5, <2>1, <2>2, CountFirst
  <2>4. Cardinality(K) \in Nat
    BY <2>1, FS_CardinalityType
  <2> QED BY <1>6, <1>8, <2>3, <2>4
<1> QED BY <1>4, <1>5, <1>6, <1>7, <1>8

(* Only a poller's behaviours have a scope in force.                       *)
ScopeInv == scope \in Scopes /\ (reader # "poller" => ~scope.active)

LEMMA ScopeAlways == ClientsSpec => []ScopeInv
<1>1. ClientsInit => ScopeInv
  BY DEF ClientsInit, ReadInit, ScopeInv
<1>2. ScopeInv /\ [ClientsNext]_clientVars => ScopeInv'
  BY DEF ScopeInv, EditScope, ClientsNext, ReadNext, clientVars, allVars, readVars, BridgeStep, Polling, FetchOlder, Clicking, Browsing
<1> QED BY <1>1, <1>2, PTL DEF ClientsSpec

(* list_chats under a scope (internal/mcpserv scope.go): an allowed chat is  *)
(* listed however quiet it is, unless as many allowed chats as a page holds *)
(* are as recent, whatever is ingested, folded or edited in between.        *)
THEOREM QuietChatsListed == ClientsSpec => []QuietChatsAreListed
<1>1. IStore /\ ScopeInv => QuietChatsAreListed
  <2>1. ASSUME IStore, ScopeInv, NEW c \in DOMAIN db.chats, scope.active /\ Readable(scope, c)
        PROVE  \/ c \in ToSet(listChats(scope, db, NoName, 0).rows)
               \/ Cardinality({k \in DOMAIN db.chats : Readable(scope, k) /\ db.chats[k].last >= db.chats[c].last}) > DefaultLimit
    <3>1. Sound(db)
      BY <2>1 DEF ScopeInv, IStore, StoreInv
    <3> QED BY <2>1, <3>1, QuietListed
  <2> QED BY <2>1 DEF QuietChatsAreListed
<1> QED BY <1>1, StoreInvariant, ScopeAlways, PTL

----------------------------------------------------------------------------
(* What the sweeps read: contacts and calls that can be put in order.      *)
Filed(d) ==
  /\ DOMAIN d = {"chats", "msgs", "contacts", "lids", "calls"}
  /\ IsFiniteSet(DOMAIN d.contacts) /\ \A j \in DOMAIN d.contacts : j.u \in Nat
  /\ IsFiniteSet(DOMAIN d.calls)
  /\ \A c \in DOMAIN d.calls : c \in Nat /\ "ts" \in DOMAIN d.calls[c] /\ d.calls[c].ts \in Nat

LEMMA OneMoreKey ==
  ASSUME NEW f, NEW k, NEW v, IsFiniteSet(DOMAIN f)
  PROVE  IsFiniteSet(DOMAIN Put(f, k, v)) /\ DOMAIN Put(f, k, v) = DOMAIN f \cup {k}
<1>1. DOMAIN Put(f, k, v) = DOMAIN f \cup {k}
  BY DEF Put
<1> QED BY <1>1, FS_AddElement

(* A fold renames contacts and the peers of calls.                         *)
LEMMA FoldFiled ==
  ASSUME NEW d, Filed(d), NEW known
  PROVE  Filed(FoldLIDs(d, known))
<1> DEFINE d2 == FoldSenders(FoldChats(d, known), known)
           d3 == FoldContacts(d2, known)
           d4 == FoldCalls(d3, known)
           to(j) == PhoneJID(j, known)
<1>1. DOMAIN d2 = DOMAIN d /\ d2.contacts = d.contacts /\ d2.calls = d.calls
  BY DEF FoldSenders, FoldChats, Filed
<1> HIDE DEF d2
<1>2. DOMAIN d3 = DOMAIN d /\ DOMAIN d3.contacts = {to(j) : j \in DOMAIN d.contacts} /\ d3.calls = d.calls
  BY <1>1 DEF FoldContacts, Filed
<1> HIDE DEF d3
<1>3. /\ DOMAIN d4 = DOMAIN d /\ d4.contacts = d3.contacts
      /\ d4.calls = [c \in DOMAIN d.calls |-> [d.calls[c] EXCEPT !.peer = to(d.calls[c].peer)]]
  BY <1>2 DEF FoldCalls, Filed
<1> HIDE DEF d4
<1>4. \A j : to(j).u = j.u
  BY PhonePlace
<1> HIDE DEF to
<1>5. IsFiniteSet({to(j) : j \in DOMAIN d.contacts})
  <2> DEFINE S == DOMAIN d.contacts
             f == [j \in S |-> to(j)]
  <2>1. IsFiniteSet(S)
    BY DEF Filed
  <2>2. f \in Surjection(S, {to(j) : j \in S})
    BY DEF Surjection
  <2> QED BY <2>1, <2>2, FS_Surjection DEF S
<1>6. \A j \in DOMAIN d4.contacts : j.u \in Nat
  BY <1>2, <1>3, <1>4 DEF Filed
<1>7. \A c \in DOMAIN d4.calls : c \in Nat /\ "ts" \in DOMAIN d4.calls[c] /\ d4.calls[c].ts \in Nat
  BY <1>3 DEF Filed
<1>8. IsFiniteSet(DOMAIN d4.contacts) /\ IsFiniteSet(DOMAIN d4.calls)
  BY <1>2, <1>3, <1>5 DEF Filed
<1>9. Filed(d4)
  BY <1>3, <1>6, <1>7, <1>8 DEF Filed
<1> QED BY <1>9 DEF FoldLIDs, d2, d3, d4

LEMMA SameFiled ==
  ASSUME NEW d, Filed(d), NEW e, DOMAIN e = DOMAIN d, e.contacts = d.contacts, e.calls = d.calls
  PROVE  Filed(e)
  BY DEF Filed

LEMMA CommitFiled ==
  ASSUME NEW d, Filed(d), NEW t, TaskNames(t), t.do \in Writes, NEW known
  PROVE  Filed(Commit(d, t, known))
<1> DEFINE e == Commit(d, t, known)
<1>0. DOMAIN d = {"chats", "msgs", "contacts", "lids", "calls"}
  BY DEF Filed
<1>1. CASE t.do \in {"chat", "row", "lid", "read", "prune"}
  <2>1. DOMAIN e = DOMAIN d /\ e.contacts = d.contacts /\ e.calls = d.calls
    BY <1>0, <1>1 DEF Commit, UpsertChat, UpsertMessage, UpsertLIDMapping, MarkRead, PruneStubMessages
  <2> QED BY <2>1, SameFiled
<1>2. CASE t.do = "contact"
  <2> DEFINE new == [phone |-> PhoneFromJID(t.jid), push |-> t.push, full |-> t.full, business |-> NoName]
             both == MergeContact(new, ContactOf(d, t.jid))
  <2>1. DOMAIN e = DOMAIN d /\ e.contacts = Put(d.contacts, t.jid, both) /\ e.calls = d.calls
    BY <1>0, <1>2 DEF Commit, UpsertContact
  <2>2. t.jid.u \in Nat
    BY <1>2 DEF TaskNames
  <2>3. IsFiniteSet(DOMAIN e.contacts) /\ DOMAIN e.contacts = DOMAIN d.contacts \cup {t.jid}
    <3> HIDE DEF e, both
    <3>1. IsFiniteSet(DOMAIN d.contacts)
      BY DEF Filed
    <3>2. IsFiniteSet(DOMAIN Put(d.contacts, t.jid, both)) /\ DOMAIN Put(d.contacts, t.jid, both) = DOMAIN d.contacts \cup {t.jid}
      BY <3>1, OneMoreKey
    <3> QED BY <2>1, <3>2
  <2> HIDE DEF e, both
  <2>4. Filed(e)
    BY <2>1, <2>2, <2>3 DEF Filed
  <2> QED BY <2>4 DEF e
<1>3. CASE t.do = "call"
  <2> DEFINE v == [peer |-> t.peer, ts |-> t.ts, status |-> t.status]
  <2>1. DOMAIN e = DOMAIN d /\ e.contacts = d.contacts /\ e.calls = Put(d.calls, t.id, v)
    BY <1>0, <1>3 DEF Commit, InsertCall
  <2>2. t.id \in Nat /\ "ts" \in DOMAIN v /\ v.ts \in Nat
    BY <1>3 DEF TaskNames
  <2> HIDE DEF v, e
  <2>3. IsFiniteSet(DOMAIN e.calls) /\ DOMAIN e.calls = DOMAIN d.calls \cup {t.id}
    <3>1. IsFiniteSet(DOMAIN d.calls)
      BY DEF Filed
    <3>2. IsFiniteSet(DOMAIN Put(d.calls, t.id, v)) /\ DOMAIN Put(d.calls, t.id, v) = DOMAIN d.calls \cup {t.id}
      BY <3>1, OneMoreKey
    <3> QED BY <2>1, <3>2
  <2>4. \A c \in DOMAIN e.calls : e.calls[c] = IF c = t.id THEN v ELSE d.calls[c]
    BY <2>1, PutRow
  <2>5. Filed(e)
    BY <2>1, <2>2, <2>3, <2>4 DEF Filed
  <2> QED BY <2>5 DEF e
<1>4. CASE t.do = "fold"
  <2>1. e = FoldLIDs(d, known)
    BY <1>4 DEF Commit
  <2> QED BY <2>1, FoldFiled
<1> QED BY <1>1, <1>2, <1>3, <1>4 DEF Writes

LEMMA FiledAlways == ClientsSpec => []Filed(db)
<1>1. ClientsInit => Filed(db)
  <2>1. ClientsInit => db = EmptyDB
    BY DEF ClientsInit, ReadInit, SendInit, Init
  <2>2. Filed(EmptyDB)
    BY FS_EmptySet DEF Filed, EmptyDB
  <2> QED BY <2>1, <2>2
<1>2. ASSUME ISay, Filed(db), [ClientsNext]_clientVars PROVE Filed(db)'
  <2>0. PICK mine : SayInv(mine)
    BY <1>2 DEF ISay
  <2>1. CASE Write
    <3>1. /\ todo # <<>> /\ Head(todo).do \notin {"message", "old", "conversation"}
          /\ db' = Commit(db, Head(todo), Known)
      BY <2>1 DEF Write
    <3>2. TaskNames(Head(todo)) /\ Head(todo).do \in Writes
      BY <2>0, <3>1, TailSays DEF SayInv, TaskSays
    <3>3. Filed(Commit(db, Head(todo), Known))
      BY <1>2, <3>2, CommitFiled
    <3> QED BY <3>1, <3>3
  <2>2. CASE Record
    <3>1. outbox # <<>> /\ db' = Commit(db, Head(outbox), Known)
      BY <2>2 DEF Record
    <3>2. TaskSays(Head(outbox), mine)
      BY <2>0, <3>1, TailSays DEF SayInv
    <3>3. Head(outbox).do \in Writes
      <4>1. PICK S : outbox \in Seq(S)
        BY <2>0 DEF SayInv, TasksSay, IsSeq
      <4>2. Len(outbox) \in Nat /\ Len(outbox) > 0 /\ Head(outbox) = outbox[1]
        BY <3>1, <4>1
      <4> QED BY <2>0, <4>2 DEF SayInv
    <3>4. Filed(Commit(db, Head(outbox), Known))
      BY <1>2, <3>2, <3>3, CommitFiled DEF TaskSays
    <3> QED BY <3>1, <3>4
  <2>3. CASE MarkLocally
    <3>1. db' = MarkRead(db, call.to, Head(call.groups).ids, ToolMark)
      BY <2>3 DEF MarkLocally
    <3>2. DOMAIN db' = DOMAIN db /\ db'.contacts = db.contacts /\ db'.calls = db.calls
      BY <1>2, <3>1 DEF MarkRead, Filed
    <3> QED BY <1>2, <3>2, SameFiled
  <2>4. CASE UNCHANGED db
    BY <1>2, <2>4
  <2> QED BY <1>2, <2>1, <2>2, <2>3, <2>4, OnlyWriters
<1> QED BY <1>1, <1>2, SayAlways, PTL DEF ClientsSpec

----------------------------------------------------------------------------
(* The reads of a scoped store.                                            *)

(* What Where keeps has passed.                                            *)
LEMMA KeptOnly ==
  ASSUME NEW S, NEW s \in Seq(S), NEW K \in SUBSET (DOMAIN s)
  PROVE  LET at == Ascending(K)
             w  == [n \in DOMAIN at |-> s[at[n]]]
         IN  w \in Seq(S) /\ \A n \in DOMAIN w : at[n] \in K /\ w[n] = s[at[n]]
<1> DEFINE at == Ascending(K)
           w  == [n \in DOMAIN at |-> s[at[n]]]
<1>1. DOMAIN s = 1 .. Len(s) /\ Len(s) \in Nat /\ \A i \in 1 .. Len(s) : s[i] \in S
  OBVIOUS
<1>2. IsFiniteSet(K) /\ K \subseteq Int
  <2>1. IsFiniteSet(1 .. Len(s))
    BY <1>1, FS_Interval
  <2>2. K \in SUBSET (1 .. Len(s))
    BY <1>1
  <2> QED BY <2>1, <2>2, FS_Subset
<1>3. Len(at) \in Nat /\ DOMAIN at = 1 .. Len(at) /\ \A k \in 1 .. Len(at) : at[k] \in K
  BY <1>2, AscendingFacts
<1> HIDE DEF at
<1>4. \A k \in 1 .. Len(at) : s[at[k]] \in S
  BY <1>1, <1>3
<1>5. w \in [1 .. Len(at) -> S]
  BY <1>3, <1>4
<1>6. w \in Seq(S)
  BY <1>3, <1>5
<1> QED BY <1>3, <1>6 DEF at

(* Contacts by the name shown.                                             *)
ByName(d, S) ==
  LET shown(j) == FirstNamed(<<ContactName(d, j), Spelled(j)>>)
  IN  InOrder(S, LAMBDA a, b : shown(a) < shown(b))

LEMMA ByNameFacts ==
  ASSUME NEW d, NEW S, IsFiniteSet(S), Called(d), \A j \in S : j.u \in Nat
  PROVE  ByName(d, S) \in Seq(S)
<1> DEFINE shown(j) == FirstNamed(<<ContactName(d, j), Spelled(j)>>)
           R == {p \in S \X S : shown(p[1]) < shown(p[2])}
           s == ByName(d, S)
<1>0. s = CHOOSE q \in [1 .. Cardinality(S) -> S] :
            \A j \in DOMAIN q : \A i \in 1 .. j - 1 : q[i] # q[j] /\ ~(shown(q[j]) < shown(q[i]))
  BY DEF ByName, InOrder
<1>1. \A j \in S : shown(j) \in Int
  <2>1. SUFFICES ASSUME NEW j \in S PROVE shown(j) \in Int
    OBVIOUS
  <2>2. shown(j) = IF ContactName(d, j) # NoName THEN ContactName(d, j) ELSE Spelled(j)
    BY FirstOfTwo
  <2>3. ContactName(d, j) \in Names
    BY ContactNames
  <2>4. Spelled(j) \in Int
    BY DEF Spelled, NoName
  <2> HIDE DEF shown
  <2> QED BY <2>2, <2>3, <2>4 DEF Names
<1>2. \A a, b \in S : <<a, b>> \in R <=> shown(a) < shown(b)
  OBVIOUS
<1> HIDE DEF R, s, shown
<1>3. Orders(R, S)
  BY <1>1, <1>2 DEF Orders
<1>4. PICK t \in [1 .. Cardinality(S) -> S] : InLine(t, S, R)
  BY <1>3, CanBeOrdered
<1>5. Cardinality(S) \in Nat
  BY FS_CardinalityType
<1>6. \A q \in [1 .. Cardinality(S) -> S] : InLine(q, S, R) <=>
         \A j \in DOMAIN q : \A i \in 1 .. j - 1 : q[i] # q[j] /\ ~(shown(q[j]) < shown(q[i]))
  <2>1. SUFFICES ASSUME NEW q \in [1 .. Cardinality(S) -> S], NEW j \in DOMAIN q, NEW i \in 1 .. j - 1
                 PROVE  <<q[j], q[i]>> \in R <=> shown(q[j]) < shown(q[i])
    BY DEF InLine
  <2>2. i \in DOMAIN q
    BY <1>5
  <2> QED BY <1>2, <2>2
<1>7. InLine(s, S, R)
  BY <1>0, <1>4, <1>6
<1> QED BY <1>7, LineFacts DEF s

(* Calls, the latest first.                                                *)
LatestCalls(d, S) ==
  InOrder(S, LAMBDA a, b : \/ d.calls[a].ts > d.calls[b].ts
                           \/ d.calls[a].ts = d.calls[b].ts /\ a > b)

LEMMA LatestCallsFacts ==
  ASSUME NEW d, NEW S, IsFiniteSet(S), \A c \in S : c \in Int /\ d.calls[c].ts \in Int
  PROVE  LatestCalls(d, S) \in Seq(S)
<1> DEFINE before(a, b) == \/ d.calls[a].ts > d.calls[b].ts
                           \/ d.calls[a].ts = d.calls[b].ts /\ a > b
           R == {p \in S \X S : before(p[1], p[2])}
           s == LatestCalls(d, S)
<1>0. s = CHOOSE q \in [1 .. Cardinality(S) -> S] :
            \A j \in DOMAIN q : \A i \in 1 .. j - 1 : q[i] # q[j] /\ ~before(q[j], q[i])
  BY DEF LatestCalls, InOrder
<1>1. \A a, b \in S : <<a, b>> \in R <=> before(a, b)
  OBVIOUS
<1> HIDE DEF R, s
<1>2. Orders(R, S)
  BY <1>1 DEF Orders
<1> HIDE DEF before
<1>3. PICK t \in [1 .. Cardinality(S) -> S] : InLine(t, S, R)
  BY <1>2, CanBeOrdered
<1>4. Cardinality(S) \in Nat
  BY FS_CardinalityType
<1>5. \A q \in [1 .. Cardinality(S) -> S] : InLine(q, S, R) <=>
         \A j \in DOMAIN q : \A i \in 1 .. j - 1 : q[i] # q[j] /\ ~before(q[j], q[i])
  <2>1. SUFFICES ASSUME NEW q \in [1 .. Cardinality(S) -> S], NEW j \in DOMAIN q, NEW i \in 1 .. j - 1
                 PROVE  <<q[j], q[i]>> \in R <=> before(q[j], q[i])
    BY DEF InLine
  <2>2. i \in DOMAIN q
    BY <1>4
  <2> QED BY <1>1, <2>2
<1>6. InLine(s, S, R)
  BY <1>0, <1>3, <1>5
<1> QED BY <1>6, LineFacts DEF s

(* Rows of the store, in order and cut.                                    *)
Rows(d) == IsFiniteSet(DOMAIN d.msgs) /\ Timed(d, DOMAIN d.msgs)

LEMMA RowsInOrder ==
  ASSUME NEW d, Rows(d), NEW S \in SUBSET (DOMAIN d.msgs), NEW n \in Nat
  PROVE  /\ FirstN(OldestFirst(d, S), n) \in Seq(S)
         /\ FirstN(NewestFirst(d, S), n) \in Seq(S) /\ Reverse(FirstN(NewestFirst(d, S), n)) \in Seq(S)
<1>1. IsFiniteSet(S) /\ Timed(d, S)
  BY FS_Subset DEF Rows, Timed
<1>2. OldestFirst(d, S) \in Seq(S)
  BY <1>1, OldestFirstFacts
<1>3. NewestFirst(d, S) \in Seq(S)
  BY <1>2, ReverseFacts DEF NewestFirst
<1>4. FirstN(OldestFirst(d, S), n) \in Seq(S) /\ FirstN(NewestFirst(d, S), n) \in Seq(S)
  BY <1>2, <1>3, FirstNFacts
<1> QED BY <1>4, ReverseFacts

LEMMA Limits == ClampLimit(0) \in Nat /\ \A n \in Int : ClampContext(n) \in Nat
  BY StoreAssumption DEF ClampLimit, ClampContext

(* A read of one chat answers rows of it, and only when it is readable.    *)
LEMMA AllowedRows ==
  ASSUME NEW sc, NEW d, NEW jid, NEW rows \in Seq(RowsOf(d, jid))
  PROVE  \A i \in DOMAIN Allow(sc, jid, rows).rows : Readable(sc, d.msgs[Allow(sc, jid, rows).rows[i]].chat)
<1>1. CASE Readable(sc, jid)
  <2>1. Allow(sc, jid, rows).rows = rows
    BY <1>1 DEF Allow, Answer
  <2>2. \A i \in DOMAIN rows : rows[i] \in RowsOf(d, jid)
    OBVIOUS
  <2> QED BY <1>1, <2>1, <2>2 DEF RowsOf
<1>2. CASE ~Readable(sc, jid)
  <2>1. Allow(sc, jid, rows).rows = <<>>
    BY <1>2 DEF Allow, Refused
  <2> QED BY <2>1
<1> QED BY <1>1, <1>2

LEMMA ContextRows ==
  ASSUME NEW d, Rows(d), NEW jid, NEW id
  PROVE  MessageContext(d, jid, id, 1, 1) \in Seq(RowsOf(d, jid))
<1> DEFINE C == RowsOf(d, jid)
           hit == RowAt(d, jid, id)
           t == OneOf(hit)
           m == d.msgs[t]
           lo == {r \in C : Precedes(d.msgs[r], m.ts, m.id)}
           hi == {r \in C : Follows(d.msgs[r], m.ts, m.id)}
           n  == ClampContext(1)
           a  == Reverse(FirstN(NewestFirst(d, lo), n))
           b  == FirstN(OldestFirst(d, hi), n)
<1>1. CASE hit = {}
  <2>1. MessageContext(d, jid, id, 1, 1) = <<>>
    BY <1>1 DEF MessageContext
  <2>2. \A T : <<>> \in Seq(T)
    OBVIOUS
  <2> HIDE DEF C, hit, t, m, lo, hi, n, a, b
  <2> QED BY <2>1, <2>2
<1>2. CASE hit # {}
  <2>1. t \in C
    BY <1>2 DEF OneOf, RowAt
  <2>2. MessageContext(d, jid, id, 1, 1) = a \o <<t>> \o b
    BY <1>2 DEF MessageContext
  <2>3. lo \in SUBSET (DOMAIN d.msgs) /\ hi \in SUBSET (DOMAIN d.msgs) /\ lo \subseteq C /\ hi \subseteq C
    BY DEF RowsOf
  <2>4. n \in Nat
    BY Limits
  <2> HIDE DEF lo, hi, n, t, C
  <2>5. a \in Seq(lo) /\ b \in Seq(hi)
    BY <2>3, <2>4, RowsInOrder
  <2> HIDE DEF a, b
  <2>6. a \in Seq(C) /\ b \in Seq(C) /\ <<t>> \in Seq(C)
    BY <2>1, <2>3, <2>5
  <2>7. a \o <<t>> \o b \in Seq(C)
    BY <2>6
  <2> QED BY <2>2, <2>7 DEF C
<1> QED BY <1>1, <1>2

LEMMA SearchConfined ==
  ASSUME NEW d, Rows(d), NEW sc
  PROVE  LET a == searchMessages(sc, d, {}, NoJid, 0)
         IN  \A i \in DOMAIN a.rows : Readable(sc, d.msgs[a.rows[i]].chat)
<1> DEFINE S == {r \in DOMAIN d.msgs : /\ {} \subseteq d.msgs[r].text.words
                                       /\ NoJid # NoJid => d.msgs[r].chat = NoJid}
           s == FirstN(NewestFirst(d, S), ClampLimit(0))
           K == {i \in DOMAIN s : Readable(sc, d.msgs[s[i]].chat)}
           at == Ascending(K)
           w == [n \in DOMAIN at |-> s[at[n]]]
<1>1. searchMessages(sc, d, {}, NoJid, 0).rows = KeepAllowed(sc, d, s)
  BY DEF searchMessages, ScopedSearch, Answer, SearchMessages
<1>2. KeepAllowed(sc, d, s) = w
  <2> HIDE DEF s
  <2> QED BY DEF KeepAllowed, Where, InOrder, Ascending
<1>3. s \in Seq(S)
  <2>1. S \in SUBSET (DOMAIN d.msgs)
    OBVIOUS
  <2> HIDE DEF S
  <2> QED BY <2>1, Limits, RowsInOrder
<1> HIDE DEF s, S
<1>4. K \in SUBSET (DOMAIN s)
  OBVIOUS
<1>5. \A n \in DOMAIN w : at[n] \in K /\ w[n] = s[at[n]]
  <2> HIDE DEF K
  <2> QED BY <1>3, <1>4, KeptOnly
<1> QED BY <1>1, <1>2, <1>5

LEMMA PolledConfined ==
  ASSUME NEW d, NEW sc
  PROVE  \A r \in ScopedAfterRowID(sc, d, NoJid, 0, TRUE, 0).rows : Readable(sc, d.msgs[r].chat)
  BY DEF ScopedAfterRowID

LEMMA ListConfined ==
  ASSUME NEW d, NEW sc, sc.active, IsFiniteSet(DOMAIN d.chats), \A c \in DOMAIN d.chats : d.chats[c].last \in Int
  PROVE  \A c \in ToSet(listChats(sc, d, NoName, 0).rows) : Readable(sc, c)
<1> DEFINE found == {c \in sc.list \cap DOMAIN d.chats : NoName # NoName => ChatName(d, c) = NoName}
           s == MostRecent(d, found)
           rows == FirstN(s, ClampLimit(0))
<1>1. listChats(sc, d, NoName, 0).rows = rows
  BY DEF listChats, ScopedChats, Answer, MostRecent
<1>2. IsFiniteSet(found) /\ found \subseteq DOMAIN d.chats /\ found \subseteq sc.list
  <2>1. found \in SUBSET DOMAIN d.chats /\ found \subseteq sc.list
    OBVIOUS
  <2> QED BY <2>1, FS_Subset
<1> HIDE DEF found
<1>3. s \in Seq(found)
  BY <1>2, MostRecentFacts
<1>4. rows \in Seq(found)
  <2> HIDE DEF s
  <2> QED BY <1>3, Limits, FirstNFacts
<1> HIDE DEF rows, s
<1>5. ToSet(rows) \subseteq found
  BY <1>4 DEF ToSet
<1> QED BY <1>1, <1>2, <1>5 DEF Readable

LEMMA ContactsConfined ==
  ASSUME NEW d, NEW sc, Filed(d), Called(d)
  PROVE  \A j \in ToSet(searchContacts(sc, d, NoName, 0).rows) : Readable(sc, j)
<1> DEFINE S == {j \in DOMAIN d.contacts :
                   NoName # NoName => NoName \in {d.contacts[j][f] : f \in {"full", "push", "business", "phone"}}}
           s == FirstN(ByName(d, S), ClampLimit(0))
           K == {i \in DOMAIN s : Readable(sc, s[i])}
           at == Ascending(K)
           w == [n \in DOMAIN at |-> s[at[n]]]
<1>1. searchContacts(sc, d, NoName, 0).rows = w
  <2>1. SearchContacts(d, NoName, 0) = s
    BY DEF SearchContacts, ByName
  <2> HIDE DEF s
  <2>2. Where(s, LAMBDA j : Readable(sc, j)) = w
    BY DEF Where, InOrder, Ascending
  <2>3. searchContacts(sc, d, NoName, 0).rows = Where(s, LAMBDA j : Readable(sc, j))
    BY <2>1 DEF searchContacts, ScopedContacts, Answer
  <2> QED BY <2>2, <2>3
<1>2. s \in Seq(S)
  <2>1. S \in SUBSET (DOMAIN d.contacts)
    OBVIOUS
  <2> HIDE DEF S
  <2>2. IsFiniteSet(S) /\ \A j \in S : j.u \in Nat
    BY <2>1, FS_Subset DEF Filed
  <2>3. ByName(d, S) \in Seq(S)
    BY <2>2, ByNameFacts
  <2> QED BY <2>3, Limits, FirstNFacts
<1> HIDE DEF s, S
<1>3. K \in SUBSET (DOMAIN s)
  OBVIOUS
<1>4. w \in Seq(S) /\ \A n \in DOMAIN w : at[n] \in K /\ w[n] = s[at[n]]
  <2> HIDE DEF K
  <2> QED BY <1>2, <1>3, KeptOnly
<1>5. \A j \in ToSet(w) : \E n \in DOMAIN w : j = w[n]
  BY DEF ToSet
<1> QED BY <1>1, <1>4, <1>5

LEMMA CallsConfined ==
  ASSUME NEW d, NEW sc, Filed(d)
  PROVE  \A c \in ToSet(getCallHistory(sc, d, NoJid, 0, 0, 0).rows) : Readable(sc, d.calls[c].peer)
<1> DEFINE S == {c \in DOMAIN d.calls : /\ NoJid # NoJid => d.calls[c].peer = NoJid
                                        /\ InWindow(d.calls[c].ts, 0, 0)}
           s == FirstN(LatestCalls(d, S), ClampLimit(0))
           K == {i \in DOMAIN s : Readable(sc, d.calls[s[i]].peer)}
           at == Ascending(K)
           w == [n \in DOMAIN at |-> s[at[n]]]
<1>1. getCallHistory(sc, d, NoJid, 0, 0, 0).rows = w
  <2>1. Calls(d, NoJid, 0, 0, 0) = s
    BY DEF Calls, LatestCalls
  <2> HIDE DEF s
  <2>2. Where(s, LAMBDA c : Readable(sc, d.calls[c].peer)) = w
    BY DEF Where, InOrder, Ascending
  <2>3. getCallHistory(sc, d, NoJid, 0, 0, 0).rows = Where(s, LAMBDA c : Readable(sc, d.calls[c].peer))
    BY <2>1 DEF getCallHistory, ScopedCalls, Answer
  <2> QED BY <2>2, <2>3
<1>2. s \in Seq(S)
  <2>1. S \in SUBSET (DOMAIN d.calls)
    OBVIOUS
  <2> HIDE DEF S
  <2>2. IsFiniteSet(S) /\ \A c \in S : c \in Int /\ d.calls[c].ts \in Int
    BY <2>1, FS_Subset DEF Filed
  <2>3. LatestCalls(d, S) \in Seq(S)
    BY <2>2, LatestCallsFacts
  <2> QED BY <2>3, Limits, FirstNFacts
<1> HIDE DEF s, S
<1>3. K \in SUBSET (DOMAIN s)
  OBVIOUS
<1>4. w \in Seq(S) /\ \A n \in DOMAIN w : at[n] \in K /\ w[n] = s[at[n]]
  <2> HIDE DEF K
  <2> QED BY <1>2, <1>3, KeptOnly
<1>5. \A j \in ToSet(w) : \E n \in DOMAIN w : j = w[n]
  BY DEF ToSet
<1> QED BY <1>1, <1>4, <1>5

(* A read of one chat.                                                     *)
LEMMA MessagesConfined ==
  ASSUME NEW d, NEW sc, Rows(d), NEW jid
  PROVE  LET a == listMessages(sc, d, jid, 0, 0, 0)
         IN  \A i \in DOMAIN a.rows : Readable(sc, d.msgs[a.rows[i]].chat)
<1> DEFINE C == RowsOf(d, jid)
           S == {r \in C : InWindow(d.msgs[r].ts, 0, 0)}
           s == FirstN(NewestFirst(d, S), ClampLimit(0))
<1>1. Messages(d, jid, 0, 0, 0) = s
  BY DEF Messages
<1>2. s \in Seq(C)
  <2>1. S \in SUBSET (DOMAIN d.msgs) /\ S \subseteq C
    BY DEF RowsOf
  <2> HIDE DEF S, C
  <2>2. s \in Seq(S)
    BY <2>1, Limits, RowsInOrder
  <2> HIDE DEF s
  <2> QED BY <2>1, <2>2
<1> HIDE DEF s
<1> QED BY <1>1, <1>2, AllowedRows DEF listMessages

LEMMA ContextConfined ==
  ASSUME NEW d, NEW sc, Rows(d), NEW jid, NEW id
  PROVE  LET a == getMessageContext(sc, d, jid, id, 1, 1)
         IN  \A i \in DOMAIN a.rows : Readable(sc, d.msgs[a.rows[i]].chat)
<1>1. MessageContext(d, jid, id, 1, 1) \in Seq(RowsOf(d, jid))
  BY ContextRows
<1> QED BY <1>1, AllowedRows DEF getMessageContext

LEMMA LastConfined ==
  ASSUME NEW d, NEW sc, Rows(d), NEW jid
  PROVE  LET a == getLastInteraction(sc, d, jid)
         IN  \A i \in DOMAIN a.rows : Readable(sc, d.msgs[a.rows[i]].chat) \/ Readable(sc, d.msgs[a.rows[i]].sender)
<1> DEFINE S == {r \in DOMAIN d.msgs : jid \in {d.msgs[r].chat, d.msgs[r].sender}}
           s == FirstN(NewestFirst(d, S), 1)
<1>1. LastInteraction(d, jid) = s
  BY DEF LastInteraction
<1>2. s \in Seq(S)
  <2>1. S \in SUBSET (DOMAIN d.msgs)
    OBVIOUS
  <2> HIDE DEF S
  <2> QED BY <2>1, RowsInOrder
<1> HIDE DEF s
<1>3. \A i \in DOMAIN s : s[i] \in S
  BY <1>2
<1>4. CASE Readable(sc, jid)
  <2>1. getLastInteraction(sc, d, jid).rows = s
    BY <1>1, <1>4 DEF getLastInteraction, Allow, Answer
  <2> QED BY <1>3, <1>4, <2>1
<1>5. CASE ~Readable(sc, jid)
  <2>1. getLastInteraction(sc, d, jid).rows = <<>>
    BY <1>5 DEF getLastInteraction, Allow, Refused
  <2> QED BY <2>1
<1> QED BY <1>4, <1>5

(* The row whose media one id stands for, if it can be told.               *)
LEMMA OneFile ==
  ASSUME NEW d, NEW sc, Rows(d), NEW jid, NEW id
  PROVE  LET one == downloadOne(sc, d, jid, id)
         IN  one # <<>> => Readable(sc, jid) /\ Head(one) \in RowsOf(d, jid)
<1> DEFINE T == MessageMediaRef(d, jid, id)
           q == SetToSeq(T)
           one == downloadOne(sc, d, jid, id)
<1>1. one = IF Readable(sc, jid) THEN q ELSE <<>>
  BY DEF downloadOne, Allow, Answer, Refused
<1>2. T \subseteq RowsOf(d, jid) /\ T \in SUBSET (DOMAIN d.msgs)
  BY DEF MessageMediaRef, RowAt, RowsOf
<1> HIDE DEF T, one
<1>3. IsFiniteSet(T)
  BY <1>2, FS_Subset DEF Rows
<1>4. Cardinality(T) \in Nat
  BY <1>3, FS_CardinalityType
<1>5. \E f \in [1 .. Cardinality(T) -> T] : IsInjective(f)
  <2>1. ExistsBijection(1 .. Cardinality(T), T)
    BY <1>3, FS_CardinalityType
  <2> QED BY <2>1 DEF ExistsBijection, Bijection, Injection
<1>6. q \in [1 .. Cardinality(T) -> T]
  BY <1>5 DEF SetToSeq
<1>7. q \in Seq(T)
  BY <1>4, <1>6
<1> HIDE DEF q
<1>8. q # <<>> => Head(q) \in T
  BY <1>7
<1> QED BY <1>1, <1>2, <1>8 DEF one

LEMMA MediaConfined ==
  ASSUME NEW d, NEW sc, Rows(d), NEW jid
  PROVE  LET a == downloadMedia(sc, d, jid, 0, <<>>, TRUE)
         IN  \A i \in DOMAIN a.rows : Readable(sc, d.msgs[a.rows[i]].chat)
<1> DEFINE C == RowsOf(d, jid)
           S == {r \in C : /\ d.msgs[r].media
                           /\ "" # "" => d.msgs[r].kind = ""
                           /\ InWindow(d.msgs[r].ts, 0, 0)}
           s == FirstN(NewestFirst(d, S), ClampLimit(0))
           found == Allow(sc, jid, MediaMessageIDs(d, jid, 0, 0, "", 0))
           ids   == [i \in DOMAIN found.rows |-> d.msgs[found.rows[i]].id]
           files == ids \o <<>>
           one(f) == downloadOne(sc, d, jid, f)
           K     == {i \in DOMAIN files : one(files[i]) # <<>>}
           at    == Ascending(K)
           there == [n \in DOMAIN at |-> files[at[n]]]
           rows  == [n \in DOMAIN there |-> Head(one(there[n]))]
           a     == downloadMedia(sc, d, jid, 0, <<>>, TRUE)
<1>1. a.rows = <<>> \/ a.rows = rows
  <2>1. Where(files, LAMBDA f : one(f) # <<>>) = there
    <3> HIDE DEF files, one
    <3> QED BY DEF Where, InOrder, Ascending
  <2>2. a = Refused \/ a = Answer([n \in DOMAIN Where(files, LAMBDA f : one(f) # <<>>) |->
                                     Head(one(Where(files, LAMBDA f : one(f) # <<>>)[n]))])
    BY DEF downloadMedia
  <2>3. a = Refused \/ a = Answer(rows)
    <3> HIDE DEF a, there, one, files
    <3> QED BY <2>1, <2>2
  <2> HIDE DEF a, rows
  <2> QED BY <2>3 DEF Refused, Answer
<1>2. IsSeq(files)
  <2>1. MediaMessageIDs(d, jid, 0, 0, "", 0) = s
    BY DEF MediaMessageIDs
  <2>2. s \in Seq(S)
    <3>1. S \in SUBSET (DOMAIN d.msgs)
      BY DEF RowsOf
    <3> HIDE DEF S
    <3> QED BY <3>1, Limits, RowsInOrder
  <2> HIDE DEF s, S
  <2>3. found.rows \in Seq(S)
    <3>1. CASE Readable(sc, jid)
      <4>1. found.rows = s
        BY <2>1, <3>1 DEF Allow, Answer
      <4> QED BY <2>2, <4>1
    <3>2. CASE ~Readable(sc, jid)
      <4>1. found.rows = <<>>
        BY <3>2 DEF Allow, Refused
      <4>2. \A T : <<>> \in Seq(T)
        OBVIOUS
      <4> HIDE DEF found
      <4> QED BY <4>1, <4>2
    <3> QED BY <3>1, <3>2
  <2> HIDE DEF found
  <2> DEFINE Z == {d.msgs[found.rows[i]].id : i \in DOMAIN found.rows}
  <2>4. DOMAIN found.rows = 1 .. Len(found.rows) /\ Len(found.rows) \in Nat
    BY <2>3
  <2>5. ids \in [1 .. Len(found.rows) -> Z]
    BY <2>4
  <2>6. ids \in Seq(Z)
    BY <2>4, <2>5
  <2> HIDE DEF ids, Z
  <2>7. files \in Seq(Z)
    BY <2>6
  <2> QED BY <2>7 DEF IsSeq
<1>3. PICK Z : files \in Seq(Z)
  BY <1>2 DEF IsSeq
<1> HIDE DEF files, one, a
<1>4. K \in SUBSET (DOMAIN files)
  OBVIOUS
<1>5. \A n \in DOMAIN there : at[n] \in K /\ there[n] = files[at[n]]
  <2> HIDE DEF K
  <2> QED BY <1>3, <1>4, KeptOnly
<1> HIDE DEF there, at
<1>6. ASSUME NEW n \in DOMAIN rows PROVE Readable(sc, d.msgs[rows[n]].chat)
  <2>1. n \in DOMAIN there /\ rows[n] = Head(one(there[n]))
    OBVIOUS
  <2>2. one(there[n]) # <<>>
    BY <1>5, <2>1
  <2>3. Readable(sc, jid) /\ Head(one(there[n])) \in RowsOf(d, jid)
    BY <2>2, OneFile DEF one
  <2> QED BY <2>1, <2>3 DEF RowsOf
<1> HIDE DEF rows
<1>7. \A i \in DOMAIN a.rows : Readable(sc, d.msgs[a.rows[i]].chat)
  <2> DEFINE v == a.rows
  <2>1. v = <<>> \/ v = rows
    BY <1>1
  <2> HIDE DEF v
  <2>2. \A i \in DOMAIN v : Readable(sc, d.msgs[v[i]].chat)
    BY <1>6, <2>1
  <2> QED BY <2>2 DEF v
<1> QED BY <1>7 DEF a

(* Every read of the scoped store (internal/mcpserv scope.go) answers only  *)
(* what is readable under the scope in force, whatever is ingested, folded, *)
(* pruned or edited in between; get_last_interaction of a readable JID may  *)
(* answer what it wrote elsewhere.                                         *)
THEOREM SweepsStayConfined == ClientsSpec => []SweepsAreConfined
<1>1. IStore /\ ISay /\ INamed /\ IFrom /\ ScopeInv /\ Filed(db) => SweepsAreConfined
  <2>1. SUFFICES ASSUME IStore, ISay, INamed, IFrom, ScopeInv, Filed(db), scope.active
                 PROVE  SweepsAreConfined
    BY DEF SweepsAreConfined
  <2>2. Rows(db)
    <3>1. PICK mine : SayInv(mine)
      BY <2>1 DEF ISay
    <3>2. PICK own : RowsFrom(db, own)
      BY <2>1 DEF IFrom, FromInv
    <3>3. Timed(db, DOMAIN db.msgs)
      BY <3>2, FromTimed DEF RowsFrom, Timed
    <3> QED BY <3>1, <3>3 DEF Rows, SayInv, Kempt
  <2>3. IsFiniteSet(DOMAIN db.chats) /\ \A c \in DOMAIN db.chats : db.chats[c].last \in Int
    <3>1. Sound(db)
      BY <2>1 DEF ScopeInv, IStore, StoreInv
    <3> QED BY <3>1 DEF Sound, Shaped, ChatRows
  <2>4. Called(db)
    BY <2>1 DEF INamed
  <2> DEFINE rows(a) == \A i \in DOMAIN a.rows : Readable(scope, db.msgs[a.rows[i]].chat)
  <2>5. rows(searchMessages(scope, db, {}, NoJid, 0))
    BY <2>2, SearchConfined
  <2>6. \A r \in ScopedAfterRowID(scope, db, NoJid, 0, TRUE, 0).rows : Readable(scope, db.msgs[r].chat)
    BY PolledConfined
  <2>7. \A c \in ToSet(listChats(scope, db, NoName, 0).rows) : Readable(scope, c)
    BY <2>1, <2>3, ListConfined
  <2>8. \A j \in ToSet(searchContacts(scope, db, NoName, 0).rows) : Readable(scope, j)
    BY <2>1, <2>4, ContactsConfined
  <2>9. \A c \in ToSet(getCallHistory(scope, db, NoJid, 0, 0, 0).rows) : Readable(scope, db.calls[c].peer)
    BY <2>1, CallsConfined
  <2>10. ASSUME NEW jid \in Chosen
         PROVE  /\ rows(listMessages(scope, db, jid, 0, 0, 0)) /\ rows(downloadMedia(scope, db, jid, 0, <<>>, TRUE))
                /\ \A r \in DOMAIN db.msgs : rows(getMessageContext(scope, db, jid, db.msgs[r].id, 1, 1))
    <3>1. rows(listMessages(scope, db, jid, 0, 0, 0))
      BY <2>2, MessagesConfined
    <3>2. rows(downloadMedia(scope, db, jid, 0, <<>>, TRUE))
      BY <2>2, MediaConfined
    <3>3. \A id : rows(getMessageContext(scope, db, jid, id, 1, 1))
      BY <2>2, ContextConfined
    <3> QED BY <3>1, <3>2, <3>3
  <2>11. ASSUME NEW jid \in Chosen, NEW i \in DOMAIN getLastInteraction(scope, db, jid).rows
         PROVE  LET m == db.msgs[getLastInteraction(scope, db, jid).rows[i]]
                IN  Readable(scope, m.chat) \/ Readable(scope, m.sender)
    BY <2>2, LastConfined
  <2>12. \A jid \in Chosen : \A a \in {listMessages(scope, db, jid, 0, 0, 0), downloadMedia(scope, db, jid, 0, <<>>, TRUE)}
                                \cup {getMessageContext(scope, db, jid, db.msgs[r].id, 1, 1) : r \in DOMAIN db.msgs} : rows(a)
    BY <2>10
  <2> QED BY <2>5, <2>6, <2>7, <2>8, <2>9, <2>11, <2>12 DEF SweepsAreConfined
<1>2. ClientsSpec => []INamed
  <2>1. ISay /\ INamed /\ [ClientsNext]_clientVars => INamed'
    BY NamedStep
  <2> QED BY <2>1, NamedInit, SayAlways, PTL DEF ClientsSpec
<1> QED BY <1>1, <1>2, StoreInvariant, SayAlways, FromAlways, ScopeAlways, FiledAlways, PTL
=============================================================================
