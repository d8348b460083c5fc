--------------------------- MODULE ServicesProofs ---------------------------
(***************************************************************************)
(* The services beside the turns, for any agents, labels, messages and     *)
(* bounds.  The labels an app shows are those of the daemon it follows; a  *)
(* message of another agent is kept until it is handed over, once and in   *)
(* order; one writer per agent unless a close has failed, and no           *)
(* collection under a prompt.  The services share no variable: each part   *)
(* is about the specification of its own service.                          *)
(***************************************************************************)
EXTENDS LabelSync, AgentMessages, AgentRuntime, SequenceTheorems,
        WellFoundedInduction, TLAPS

-----------------------------------------------------------------------------
(* Sequences *)

Among(x, s) == \E i \in 1..Len(s) : s[i] = x

LEMMA LeastNatural ==
    ASSUME NEW S \in SUBSET Nat, S # {}
    PROVE  \E n \in S : \A m \in S : n <= m
<1> DEFINE Less == OpToRel(<, Nat)
<1>1. IsWellFoundedOn(Less, Nat)
  BY NatLessThanWellFounded
<1> HIDE DEF Less
<1>2. PICK n \in S : \A m \in S : ~(<<m, n>> \in Less)
  BY <1>1, WFMin
<1>3. \A m \in Nat, k \in Nat : m < k => <<m, k>> \in Less
  BY DEF Less, OpToRel
<1>4. ASSUME NEW m \in S PROVE n <= m
  <2>1. m \in Nat /\ n \in Nat /\ ~(m < n)
    BY <1>2, <1>3
  <2> QED
    BY <2>1
<1> QED
  BY <1>4

LEMMA AppendIs ==
    ASSUME NEW S, NEW s \in Seq(S), NEW x \in S
    PROVE  /\ Append(s, x) \in Seq(S) /\ Len(Append(s, x)) = Len(s) + 1 /\ Len(s) \in Nat
           /\ \A i \in 1..Len(s) : Append(s, x)[i] = s[i]
           /\ Append(s, x)[Len(s) + 1] = x
           /\ \A y : Among(y, Append(s, x)) <=> Among(y, s) \/ y = x
<1>1. /\ Append(s, x) \in Seq(S) /\ Len(Append(s, x)) = Len(s) + 1 /\ Len(s) \in Nat
      /\ \A i \in 1..Len(s) : Append(s, x)[i] = s[i]
      /\ Append(s, x)[Len(s) + 1] = x
  OBVIOUS
<1>2. \A i \in 1..Len(s) + 1 : i \in 1..Len(s) \/ i = Len(s) + 1
  BY <1>1
<1> HIDE <1>2
<1>3. \A y : Among(y, Append(s, x)) <=> Among(y, s) \/ y = x
  <2> DEFINE t == Append(s, x)
  <2> HIDE DEF t
  <2>1. ASSUME NEW y, Among(y, t) PROVE Among(y, s) \/ y = x
    <3>1. PICK i \in 1..Len(s) + 1 : t[i] = y
      BY <1>1, <2>1 DEF Among, t
    <3> QED
      BY <1>1, <1>2, <3>1 DEF Among, t
  <2>2. ASSUME NEW y, Among(y, s) \/ y = x PROVE Among(y, t)
    <3>1. CASE Among(y, s)
      <4>1. PICK i \in 1..Len(s) : s[i] = y
        BY <3>1 DEF Among
      <4> QED
        BY <1>1, <4>1 DEF Among, t
    <3>2. CASE y = x
      BY <1>1, <3>2 DEF Among, t
    <3> QED
      BY <2>2, <3>1, <3>2
  <2> QED
    BY <2>1, <2>2 DEF t
<1> QED
  BY <1>1, <1>3

LEMMA TailIs ==
    ASSUME NEW S, NEW s \in Seq(S), s # <<>>
    PROVE  /\ Head(s) = s[1] /\ s[1] \in S /\ Among(s[1], s) /\ 1 \in 1..Len(s)
           /\ Tail(s) \in Seq(S) /\ Len(Tail(s)) = Len(s) - 1 /\ Len(s) \in Nat
           /\ \A i \in 1..Len(Tail(s)) : Tail(s)[i] = s[i + 1] /\ i + 1 \in 1..Len(s)
           /\ \A y : Among(y, Tail(s)) => Among(y, s)
<1>1. /\ Head(s) = s[1] /\ s[1] \in S /\ 1 \in 1..Len(s)
      /\ Tail(s) \in Seq(S) /\ Len(Tail(s)) = Len(s) - 1 /\ Len(s) \in Nat
      /\ \A i \in 1..Len(Tail(s)) : Tail(s)[i] = s[i + 1] /\ i + 1 \in 1..Len(s)
  OBVIOUS
<1> QED
  BY <1>1 DEF Among

\* Two sequences one behind the other
LEMMA ConcatIs ==
    ASSUME NEW S, NEW s \in Seq(S), NEW t \in Seq(S)
    PROVE  /\ s \o t \in Seq(S) /\ Len(s \o t) = Len(s) + Len(t) /\ Len(s) \in Nat /\ Len(t) \in Nat
           /\ \A i \in 1..Len(s) : (s \o t)[i] = s[i]
           /\ \A i \in 1..Len(t) : (s \o t)[Len(s) + i] = t[i]
           /\ \A i \in 1..Len(s \o t) : \/ i \in 1..Len(s)
                                        \/ i - Len(s) \in 1..Len(t) /\ i = Len(s) + (i - Len(s))
           /\ \A y : Among(y, s \o t) <=> Among(y, s) \/ Among(y, t)
<1> DEFINE u == s \o t
<1>1. /\ u \in Seq(S) /\ Len(u) = Len(s) + Len(t) /\ Len(s) \in Nat /\ Len(t) \in Nat
      /\ \A i \in 1..Len(s) : u[i] = s[i]
      /\ \A i \in 1..Len(t) : u[Len(s) + i] = t[i]
  OBVIOUS
<1> HIDE DEF u
<1>2. \A i \in 1..Len(u) : \/ i \in 1..Len(s)
                           \/ i - Len(s) \in 1..Len(t) /\ i = Len(s) + (i - Len(s))
  BY <1>1
<1>3. ASSUME NEW y, Among(y, u) PROVE Among(y, s) \/ Among(y, t)
  BY <1>1, <1>2, <1>3 DEF Among
<1>4. ASSUME NEW y, Among(y, s) \/ Among(y, t) PROVE Among(y, u)
  <2>1. \A i \in 1..Len(s) : i \in 1..Len(u)
    BY <1>1
  <2>2. \A i \in 1..Len(t) : Len(s) + i \in 1..Len(u)
    BY <1>1
  <2> QED
    BY <1>1, <1>4, <2>1, <2>2 DEF Among
<1> QED
  BY <1>1, <1>2, <1>3, <1>4 DEF u

\* All but the last
LEMMA FrontIs ==
    ASSUME NEW S, NEW s \in Seq(S), s # <<>>
    PROVE  /\ Front(s) \in Seq(S) /\ Len(Front(s)) = Len(s) - 1 /\ Len(s) \in Nat \ {0}
           /\ \A i \in 1..Len(s) - 1 : Front(s)[i] = s[i]
           /\ Last(s) = s[Len(s)] /\ s[Len(s)] \in S
<1>1. Len(s) \in Nat \ {0}
  OBVIOUS
<1>2. \A i \in 1..Len(s) - 1 : s[i] \in S
  BY <1>1
<1> DEFINE n == Len(s) - 1
<1>3. n \in Int /\ n \in Nat
  BY <1>1
<1>4. /\ SubSeq(s, 1, n) \in Seq(S)
      /\ Len(SubSeq(s, 1, n)) = IF 1 <= n THEN n - 1 + 1 ELSE 0
      /\ \A i \in 1..n - 1 + 1 : SubSeq(s, 1, n)[i] = s[1 + i - 1]
  <2> HIDE DEF n
  <2> QED
    BY <1>2, <1>3, SubSeqProperties DEF n
<1>5. Front(s) = SubSeq(s, 1, n)
  BY DEF Front
<1> DEFINE f == Front(s)
<1>6. /\ f \in Seq(S) /\ Len(f) = n
      /\ \A i \in 1..n : f[i] = s[i]
  <2> HIDE DEF n, f
  <2>1. n - 1 + 1 = n /\ \A i \in 1..n : 1 + i - 1 = i
    BY <1>3
  <2>2. ~(1 <= n) => n = 0
    BY <1>3
  <2> QED
    BY <1>4, <1>5, <2>1, <2>2 DEF f
<1> QED
  BY <1>1, <1>6 DEF Last

-----------------------------------------------------------------------------
(* Workspace labels: the replica is true to the daemon *)

VersionAt(s) == versions[s + 1]

ListAnswer == [mode: {"snapshot", "changes"},
               labels: UNION {[D -> Colors \cup {None}] : D \in SUBSET Names},
               removals: SUBSET Names, head: Cursor]
InboxMessage == [kind: {"update"}, entry: Entry] \cup [kind: {"list"}, list: ListAnswer]

\* A published change is what its version differs in from the one before
Published(entry) ==
    /\ entry.seq <= lastSeq
    /\ entry.change.color = None => entry.change.previous = None
    /\ VersionAt(entry.seq) = Applied(VersionAt(entry.seq - 1), entry.change)

\* A list tells the catalog as it was at its head to who had it as it was at after
CatchesUp(list, after) ==
    LET head == list.head.afterSeq IN
    \A n \in Names : VersionAt(head)[n] # None =>
       /\ n \notin list.removals
       /\ n \in DOMAIN list.labels => list.labels[n] = VersionAt(head)[n]
       /\ n \notin DOMAIN list.labels => \A s \in after..head : VersionAt(s)[n] = VersionAt(head)[n]

ListSound(list) ==
    /\ list.head.generation = generation /\ list.head.afterSeq <= lastSeq
    /\ list.mode = "snapshot" =>
          \A n \in Names : VersionAt(list.head.afterSeq)[n] =
             IF n \in DOMAIN list.labels THEN list.labels[n] ELSE None
    /\ list.mode = "changes" =>
          /\ Current
          /\ \E after \in 0..cursor.afterSeq : CatchesUp(list, after)

MessageSound(m) ==
    /\ m.kind = "update" => Published(m.entry)
    /\ m.kind = "list" => ListSound(m.list)

NumberOf(m) == IF m.kind = "list" THEN m.list.head.afterSeq ELSE m.entry.seq

InboxOrdered ==
    /\ \A i, j \in 1..Len(inbox) : i < j => NumberOf(inbox[i]) <= NumberOf(inbox[j])
    /\ Current => \A i \in 1..Len(inbox) : cursor.afterSeq <= NumberOf(inbox[i])

\* A request of this generation was sent by a replica that was no further than it is now
RequestSound(r) ==
    r.at # None /\ r.at.generation = generation => Current /\ r.at.afterSeq <= cursor.afterSeq

JournalSound ==
    /\ Len(journal) <= lastSeq
    /\ \A i \in 1..Len(journal) : journal[i].seq = lastSeq - Len(journal) + i
    /\ \A e \in Entry : Among(e, journal) => Published(e)

ServerSound == SyncTypeOK /\ held = VersionAt(lastSeq) /\ JournalSound
MailSound ==
    /\ inbox \in Seq(InboxMessage)
    /\ \A m \in InboxMessage : Among(m, inbox) => MessageSound(m)
    /\ \A r \in Request : Among(r, requests) => RequestSound(r)
CursorSound ==
    /\ cursor # None => cursor.generation <= generation
    /\ Current => cursor.afterSeq <= lastSeq

SyncInv == ServerSound /\ MailSound /\ InboxOrdered /\ CursorSound /\ ReplicaIsTrue

LoopFrom(a, g, n) ==
   g = [i \in 0..n |-> IF i = 0 THEN [upserts |-> {}, removals |-> {}]
          ELSE IF journal[i].seq > a THEN Collect(g[i - 1], journal[i].change)
          ELSE g[i - 1]]

LEMMA LoopExists ==
    ASSUME NEW a, Len(journal) \in Nat
    PROVE  \E g : LoopFrom(a, g, Len(journal))
<1> DEFINE Bad == {n \in Nat : ~ \E g : LoopFrom(a, g, n)}
<1>1. SUFFICES ASSUME Bad # {} PROVE FALSE
  OBVIOUS
<1>2. PICK n \in Bad : \A m \in Bad : n <= m
  BY <1>1, LeastNatural
<1>3. CASE n = 0
  <2> DEFINE g == [i \in 0..0 |-> [upserts |-> {}, removals |-> {}]]
  <2>1. LoopFrom(a, g, 0)
    BY DEF LoopFrom
  <2> QED
    BY <1>3, <2>1, <1>2
<1>4. CASE n # 0
  <2>1. n - 1 \in Nat /\ n - 1 \notin Bad
    BY <1>2, <1>4
  <2>2. PICK h : LoopFrom(a, h, n - 1)
    BY <2>1
  <2> DEFINE last == IF journal[n].seq > a THEN Collect(h[n - 1], journal[n].change) ELSE h[n - 1]
             g == [i \in 0..n |-> IF i = n THEN last ELSE h[i]]
  <2>3. \A i \in 0..n : g[i] = IF i = 0 THEN [upserts |-> {}, removals |-> {}]
          ELSE IF journal[i].seq > a THEN Collect(g[i - 1], journal[i].change)
          ELSE g[i - 1]
    <3> SUFFICES ASSUME NEW i \in 0..n
                 PROVE g[i] = IF i = 0 THEN [upserts |-> {}, removals |-> {}]
          ELSE IF journal[i].seq > a THEN Collect(g[i - 1], journal[i].change)
          ELSE g[i - 1]
      OBVIOUS
    <3>1. CASE i = n
      <4>1. g[i] = last /\ i # 0 /\ g[i - 1] = h[i - 1]
        BY <3>1, <1>4, <2>1
      <4> QED
        BY <3>1, <4>1
    <3>2. CASE i # n
      <4>1. i \in 0..n - 1 /\ g[i] = h[i] /\ (i # 0 => i - 1 \in 0..n - 1 /\ g[i - 1] = h[i - 1])
        BY <3>2, <2>1
      <4> HIDE DEF g
      <4> QED
        BY <4>1, <2>2 DEF LoopFrom
    <3> QED
      BY <3>1, <3>2
  <2>4. LoopFrom(a, g, n)
    BY <2>3 DEF LoopFrom
  <2> QED
    BY <2>4, <1>2
<1> QED
  BY <1>3, <1>4, <1>2

LEMMA NetIs ==
    ASSUME NEW a, Len(journal) \in Nat
    PROVE  LoopFrom(a, NetSteps(a), Len(journal))
<1>1. PICK g : LoopFrom(a, g, Len(journal))
  BY LoopExists
<1> QED
  BY <1>1 DEF NetSteps, LoopFrom
-----------------------------------------------------------------------------
(* A catch-up *)

\* What the loop has when it has seen the changes from a up to s
Net0 == [upserts |-> {}, removals |-> {}]
Nets == [upserts: SUBSET Names, removals: SUBSET Names]

NetSound(net, a, s) ==
    \A n \in Names : VersionAt(s)[n] # None =>
       /\ n \notin net.removals
       /\ n \notin net.upserts => \A r \in a..s : VersionAt(r)[n] = VersionAt(s)[n]

LEMMA WithdrawIs ==
    ASSUME NEW net \in Nets, NEW n \in Names \cup {None}
    PROVE  /\ Withdraw(net, n) \in Nets
           /\ \A m \in Names : m # n => /\ m \in Withdraw(net, n).upserts <=> m \in net.upserts
                                        /\ m \in Withdraw(net, n).removals <=> m \in net.removals
BY SyncAssumption DEF Withdraw, Nets

LEMMA CollectKeeps ==
    ASSUME NEW net \in Nets, NEW a \in Nat, NEW s \in Nat, a <= s, NetSound(net, a, s),
           NEW entry \in Entry, Published(entry), entry.seq = s + 1
    PROVE  /\ Collect(net, entry.change) \in Nets
           /\ NetSound(Collect(net, entry.change), a, s + 1)
<1> DEFINE c   == entry.change
           new == Collect(net, c)
<1>1. /\ c.name \in Names /\ c.color \in Colors \cup {None} /\ c.previous \in Names \cup {None}
      /\ c.color = None => c.previous = None
      /\ entry.seq - 1 = s
  BY DEF Entry, Change, Published
<1>2. \A n \in Names : VersionAt(s + 1)[n] =
          IF n = c.name THEN c.color ELSE IF n = c.previous THEN None ELSE VersionAt(s)[n]
  BY <1>1 DEF Published, Applied
<1>3. /\ new \in Nets
      /\ \A n \in Names : n # c.name /\ n # c.previous =>
            (n \in new.upserts <=> n \in net.upserts) /\ (n \in new.removals <=> n \in net.removals)
      /\ c.color # None => c.name \in new.upserts /\ c.name \notin new.removals
  <2>1. CASE c.color = None
    BY <1>1, <2>1, WithdrawIs DEF Collect
  <2>2. CASE c.color # None
    <3> DEFINE left == Withdraw(net, c.previous)
    <3>1. /\ left \in Nets
          /\ \A m \in Names : m # c.previous => /\ m \in left.upserts <=> m \in net.upserts
                                                /\ m \in left.removals <=> m \in net.removals
      BY <1>1, WithdrawIs
    <3>2. new = [upserts |-> left.upserts \cup {c.name}, removals |-> left.removals \ {c.name}]
      BY <2>2 DEF Collect
    <3> HIDE DEF left, new
    <3> QED
      BY <1>1, <3>1, <3>2 DEF Nets
  <2> QED
    BY <2>1, <2>2
<1> HIDE DEF new, c
<1>4. ASSUME NEW n \in Names, VersionAt(s + 1)[n] # None
      PROVE  /\ n \notin new.removals
             /\ n \notin new.upserts => \A r \in a..s + 1 : VersionAt(r)[n] = VersionAt(s + 1)[n]
  <2>1. CASE n = c.name
    BY <1>1, <1>2, <1>3, <1>4, <2>1
  <2>2. CASE n # c.name
    <3>1. n # c.previous /\ VersionAt(s + 1)[n] = VersionAt(s)[n]
      BY <1>2, <1>4, <2>2
    <3>2. \A r \in a..s + 1 : r \in a..s \/ r = s + 1
      OBVIOUS
    <3> QED
      BY <1>3, <1>4, <2>2, <3>1, <3>2 DEF NetSound
  <2> QED
    BY <2>1, <2>2
<1> QED
  BY <1>3, <1>4 DEF NetSound, new, c

LEMMA NetKeeps ==
    ASSUME ServerSound, NEW a \in Nat, a <= lastSeq, lastSeq - Len(journal) <= a
    PROVE  Net(a) \in Nets /\ NetSound(Net(a), a, lastSeq)
<1> DEFINE f == NetSteps(a)
           Seen(i) == IF lastSeq - Len(journal) + i > a THEN lastSeq - Len(journal) + i ELSE a
           Good(i) == f[i] \in Nets /\ NetSound(f[i], a, Seen(i))
           Bad == {i \in 0..Len(journal) : ~Good(i)}
<1>1. /\ journal \in Seq(Entry) /\ Len(journal) \in Nat /\ lastSeq \in Nat /\ Len(journal) <= lastSeq
      /\ \A i \in 1..Len(journal) : /\ journal[i] \in Entry /\ Published(journal[i])
                                    /\ journal[i].seq = lastSeq - Len(journal) + i
  BY SyncAssumption DEF ServerSound, SyncTypeOK, JournalSound, Among
<1>2. \A i \in 0..Len(journal) : f[i] = IF i = 0 THEN Net0
          ELSE IF journal[i].seq > a THEN Collect(f[i - 1], journal[i].change)
          ELSE f[i - 1]
  <2>1. LoopFrom(a, f, Len(journal))
    BY <1>1, NetIs
  <2> HIDE DEF f
  <2> QED
    BY <2>1 DEF LoopFrom, Net0
<1>3. Net(a) = f[Len(journal)] /\ Seen(Len(journal)) = lastSeq
  BY <1>1 DEF Net
<1> HIDE DEF f
<1>4. Bad = {}
  <2> SUFFICES ASSUME Bad # {} PROVE FALSE
    OBVIOUS
  <2>1. PICK i \in Bad : \A j \in Bad : i <= j
    <3>1. Bad \in SUBSET Nat
      BY <1>1
    <3> QED
      BY <3>1, LeastNatural
  <2>2. CASE i = 0
    <3>1. f[i] = Net0 /\ Seen(i) = a
      BY <1>1, <1>2, <2>1, <2>2
    <3>2. Net0 \in Nets /\ NetSound(Net0, a, a)
      BY DEF Net0, Nets, NetSound
    <3> QED
      BY <2>1, <3>1, <3>2
  <2>3. CASE i # 0
    <3>1. i \in 1..Len(journal) /\ i - 1 \in 0..Len(journal) /\ i - 1 \notin Bad
      BY <1>1, <2>1, <2>3
    <3>2. Good(i - 1)
      BY <3>1
    <3>3. CASE journal[i].seq > a
      <4>1. f[i] = Collect(f[i - 1], journal[i].change)
        BY <1>2, <3>1, <3>3
      <4>2. /\ Seen(i - 1) \in Nat /\ a <= Seen(i - 1)
            /\ journal[i].seq = Seen(i - 1) + 1 /\ Seen(i) = Seen(i - 1) + 1
        BY <1>1, <3>1, <3>3
      <4>3. f[i - 1] \in Nets /\ NetSound(f[i - 1], a, Seen(i - 1))
        BY <3>2
      <4> HIDE DEF Seen
      <4>4. f[i] \in Nets /\ NetSound(f[i], a, Seen(i - 1) + 1)
        BY <1>1, <3>1, <4>1, <4>2, <4>3, CollectKeeps
      <4> QED
        BY <2>1, <4>2, <4>4
    <3>4. CASE ~(journal[i].seq > a)
      <4>1. f[i] = f[i - 1] /\ Seen(i) = Seen(i - 1)
        BY <1>1, <1>2, <3>1, <3>4
      <4> QED
        BY <2>1, <3>2, <4>1
    <3> QED
      BY <3>3, <3>4
  <2> QED
    BY <2>1, <2>2, <2>3
<1>5. Good(Len(journal))
  BY <1>1, <1>4
<1> QED
  BY <1>3, <1>5


-----------------------------------------------------------------------------
(* What an answer tells *)

LEMMA JournalReaches ==
    ASSUME ServerSound, NEW at \in Cursor, CanCatchUp(at)
    PROVE  at.afterSeq \in Nat /\ at.afterSeq <= lastSeq /\ lastSeq - Len(journal) <= at.afterSeq
<1>1. /\ journal \in Seq(Entry) /\ Len(journal) \in Nat /\ lastSeq \in Nat
      /\ \A i \in 1..Len(journal) : journal[i].seq = lastSeq - Len(journal) + i
  BY SyncAssumption DEF ServerSound, SyncTypeOK, JournalSound
<1>2. at.afterSeq \in Nat /\ at.afterSeq <= lastSeq /\ at.afterSeq >= Oldest - 1
  BY SyncAssumption DEF CanCatchUp, Cursor
<1>3. Oldest = lastSeq - Len(journal) + 1
  <2>1. CASE journal = <<>>
    BY <1>1, <2>1 DEF Oldest
  <2>2. CASE journal # <<>>
    BY <1>1, <2>2 DEF Oldest
  <2> QED
    BY <2>1, <2>2
<1> QED
  BY <1>1, <1>2, <1>3

LEMMA AnswerIsSound ==
    ASSUME SyncInv, NEW r \in Request, RequestSound(r)
    PROVE  /\ Synchronize(r.at) \in ListAnswer /\ ListSound(Synchronize(r.at))
           /\ Synchronize(r.at).head.afterSeq = lastSeq
<1> DEFINE at   == r.at
           able == CanCatchUp(at)
           net  == IF able THEN Net(at.afterSeq)
                   ELSE [upserts |-> {n \in Names : held[n] # None}, removals |-> {}]
           list == Synchronize(at)
<1>1. /\ ServerSound /\ held \in [Names -> Colors \cup {None}] /\ lastSeq \in 0..MaxSeq
      /\ generation \in 1..MaxServerLives /\ held = VersionAt(lastSeq) /\ lastSeq \in Nat
      /\ CursorSound /\ cursor \in Cursor \cup {None}
  BY SyncAssumption DEF SyncInv, ServerSound, SyncTypeOK, Catalog
<1>2. /\ able => /\ at \in Cursor /\ Current /\ at.afterSeq \in Nat /\ at.afterSeq <= cursor.afterSeq
                 /\ net \in Nets /\ NetSound(net, at.afterSeq, lastSeq)
  <2> SUFFICES ASSUME able PROVE /\ at \in Cursor /\ Current /\ at.afterSeq \in Nat
                                 /\ at.afterSeq <= cursor.afterSeq
                                 /\ net \in Nets /\ NetSound(net, at.afterSeq, lastSeq)
    OBVIOUS
  <2>1. at \in Cursor /\ Current /\ at.afterSeq <= cursor.afterSeq
    BY DEF CanCatchUp, RequestSound, Request
  <2>2. at.afterSeq \in Nat /\ at.afterSeq <= lastSeq /\ lastSeq - Len(journal) <= at.afterSeq
    BY <1>1, <2>1, JournalReaches
  <2> QED
    BY <1>1, <2>1, <2>2, NetKeeps
<1>3. net \in Nets
  BY <1>2 DEF Nets
<1>4. /\ list.mode = IF able THEN "changes" ELSE "snapshot"
      /\ list.labels = [n \in net.upserts |-> held[n]] /\ list.removals = net.removals
      /\ list.head = [generation |-> generation, afterSeq |-> lastSeq]
      /\ list \in [mode: {list.mode}, labels: {list.labels}, removals: {list.removals}, head: {list.head}]
  BY DEF Synchronize
<1>5. ~able => net.upserts = {n \in Names : held[n] # None}
  OBVIOUS
<1> HIDE DEF net, able, list
<1>6. /\ DOMAIN list.labels = net.upserts /\ \A n \in net.upserts : list.labels[n] = held[n]
      /\ list.labels \in [net.upserts -> Colors \cup {None}] /\ net.upserts \in SUBSET Names
      /\ net.removals \in SUBSET Names
  BY <1>1, <1>3, <1>4 DEF Nets
<1>7. list.head \in Cursor /\ list.head.generation = generation /\ list.head.afterSeq = lastSeq
  BY <1>1, <1>4 DEF Cursor
<1>8. list \in ListAnswer
  BY <1>4, <1>6, <1>7 DEF ListAnswer
<1>9. list.mode = "snapshot" => \A n \in Names : VersionAt(lastSeq)[n] =
             IF n \in DOMAIN list.labels THEN list.labels[n] ELSE None
  BY <1>1, <1>4, <1>5, <1>6
<1>10. list.mode = "changes" => Current /\ \E after \in 0..cursor.afterSeq : CatchesUp(list, after)
  <2> SUFFICES ASSUME able PROVE Current /\ \E after \in 0..cursor.afterSeq : CatchesUp(list, after)
    BY <1>4
  <2>1. CatchesUp(list, at.afterSeq)
    BY <1>1, <1>2, <1>4, <1>6, <1>7 DEF CatchesUp, NetSound
  <2>2. at.afterSeq \in 0..cursor.afterSeq
    BY <1>1, <1>2, SyncAssumption DEF Current, Cursor
  <2> QED
    BY <1>2, <2>1, <2>2
<1> QED
  BY <1>1, <1>7, <1>8, <1>9, <1>10 DEF ListSound, list

-----------------------------------------------------------------------------
(* What later changes leave true *)

\* The sequence and the replica only go on
Goes ==
    /\ generation' = generation /\ lastSeq <= lastSeq'
    /\ \A s \in 0..lastSeq : VersionAt(s)' = VersionAt(s)
    /\ Current => Current' /\ cursor.afterSeq <= cursor'.afterSeq

LEMMA PublishedStays ==
    ASSUME SyncInv, SyncTypeOK', Goes, NEW e \in Entry, Published(e)
    PROVE  Published(e)'
<1>1. e.seq \in 1..MaxSeq /\ lastSeq \in Nat /\ lastSeq' \in Nat
  BY SyncAssumption DEF Entry, SyncInv, ServerSound, SyncTypeOK
<1>2. e.seq \in 0..lastSeq /\ e.seq - 1 \in 0..lastSeq /\ e.seq <= lastSeq'
  BY <1>1, SyncAssumption DEF Published, Goes
<1> QED
  BY <1>2 DEF Published, Goes, Applied

LEMMA ListStays ==
    ASSUME SyncInv, SyncTypeOK', Goes, NEW list \in ListAnswer, ListSound(list)
    PROVE  ListSound(list)'
<1> DEFINE head == list.head.afterSeq
<1>1. /\ head \in Nat /\ lastSeq \in Nat /\ lastSeq' \in Nat
      /\ cursor \in Cursor \cup {None} /\ cursor' \in Cursor \cup {None}
  BY SyncAssumption DEF ListAnswer, Cursor, SyncInv, ServerSound, SyncTypeOK
<1>2. head \in 0..lastSeq /\ head <= lastSeq' /\ VersionAt(head)' = VersionAt(head)
  BY <1>1 DEF ListSound, Goes
<1>3. ASSUME list.mode = "changes"
      PROVE  Current' /\ \E after \in 0..cursor'.afterSeq : CatchesUp(list, after)'
  <2>1. Current /\ Current' /\ cursor.afterSeq <= cursor'.afterSeq
    BY <1>3 DEF ListSound, Goes
  <2>2. PICK after \in 0..cursor.afterSeq : CatchesUp(list, after)
    BY <1>3 DEF ListSound
  <2>3. after \in 0..cursor'.afterSeq /\ after \in Nat
    BY <1>1, <2>1, <2>2, SyncAssumption DEF Current, Cursor
  <2>4. CatchesUp(list, after)'
    <3>1. \A s \in after..head : VersionAt(s)' = VersionAt(s)
      BY <1>1, <1>2, <2>3 DEF Goes
    <3> QED
      BY <1>2, <2>2, <3>1 DEF CatchesUp
  <2> QED
    BY <2>1, <2>3, <2>4
<1> QED
  BY <1>2, <1>3 DEF ListSound, Goes

LEMMA MessageStays ==
    ASSUME SyncInv, SyncTypeOK', Goes, NEW m \in InboxMessage, MessageSound(m)
    PROVE  MessageSound(m)'
BY PublishedStays, ListStays DEF MessageSound, InboxMessage

LEMMA RequestStays ==
    ASSUME SyncInv, SyncTypeOK', Goes, NEW r \in Request, RequestSound(r)
    PROVE  RequestSound(r)'
<1>1. r.at # None /\ r.at.generation = generation =>
         r.at.afterSeq \in Nat /\ cursor.afterSeq \in Nat /\ cursor'.afterSeq \in Nat
  BY SyncAssumption DEF RequestSound, Request, Cursor, SyncInv, ServerSound, SyncTypeOK, Current, Goes
<1> QED
  BY <1>1 DEF RequestSound, Goes


LEMMA NumbersOf ==
    ASSUME SyncInv
    PROVE  /\ lastSeq \in Nat /\ generation \in Nat /\ inbox \in Seq(InboxMessage) /\ Len(inbox) \in Nat
           /\ \A m \in InboxMessage : NumberOf(m) \in Nat
           /\ \A i \in 1..Len(inbox) : /\ inbox[i] \in InboxMessage /\ MessageSound(inbox[i])
                                       /\ NumberOf(inbox[i]) <= lastSeq
<1>1. lastSeq \in Nat /\ generation \in Nat /\ inbox \in Seq(InboxMessage) /\ Len(inbox) \in Nat
  BY SyncAssumption DEF SyncInv, ServerSound, SyncTypeOK, MailSound
<1>2. \A m \in InboxMessage : NumberOf(m) \in Nat
  BY SyncAssumption DEF InboxMessage, NumberOf, Entry, ListAnswer, Cursor
<1>3. ASSUME NEW i \in 1..Len(inbox)
      PROVE  inbox[i] \in InboxMessage /\ MessageSound(inbox[i]) /\ NumberOf(inbox[i]) <= lastSeq
  <2>1. inbox[i] \in InboxMessage /\ MessageSound(inbox[i])
    BY <1>1 DEF SyncInv, MailSound, Among
  <2> QED
    BY <2>1 DEF InboxMessage, NumberOf, MessageSound, ListSound, Published
<1> QED
  BY <1>1, <1>2, <1>3

\* A message of now behind the others
LEMMA MailAppends ==
    ASSUME SyncInv, SyncTypeOK', Goes, UNCHANGED cursor,
           NEW m \in InboxMessage, inbox' = Append(inbox, m), MessageSound(m)', lastSeq <= NumberOf(m),
           \A r \in Request : Among(r, requests') => Among(r, requests)
    PROVE  MailSound' /\ InboxOrdered'
<1>1. inbox' \in Seq(InboxMessage) /\ Len(inbox') = Len(inbox) + 1
      /\ \A y : Among(y, inbox') <=> Among(y, inbox) \/ y = m
  BY NumbersOf, AppendIs
<1>2. ASSUME NEW y \in InboxMessage, Among(y, inbox') PROVE MessageSound(y)'
  BY <1>1, <1>2, MessageStays DEF SyncInv, MailSound
<1>3. ASSUME NEW r \in Request, Among(r, requests') PROVE RequestSound(r)'
  BY <1>3, RequestStays DEF SyncInv, MailSound
<1>4. InboxOrdered'
  <2>1. \A i \in 1..Len(inbox') : \/ i \in 1..Len(inbox) /\ inbox'[i] = inbox[i]
                                  \/ i = Len(inbox) + 1 /\ inbox'[i] = m
    BY <1>1, NumbersOf, AppendIs
  <2>2. NumberOf(m) \in Nat /\ \A i \in 1..Len(inbox) : NumberOf(inbox[i]) <= NumberOf(m)
                                                        /\ NumberOf(inbox[i]) \in Nat
    BY NumbersOf
  <2>3. \A i, j \in 1..Len(inbox') : i < j => NumberOf(inbox'[i]) <= NumberOf(inbox'[j])
    <3> SUFFICES ASSUME NEW i \in 1..Len(inbox'), NEW j \in 1..Len(inbox'), i < j
                 PROVE  NumberOf(inbox'[i]) <= NumberOf(inbox'[j])
      OBVIOUS
    <3>1. Len(inbox) \in Nat /\ i \in 1..Len(inbox)
      BY <1>1, NumbersOf
    <3>2. inbox'[i] = inbox[i]
      <4>1. i # Len(inbox) + 1
        BY ONLY <3>1
      <4> QED
        BY ONLY <2>1, <4>1
    <3>3. CASE j \in 1..Len(inbox) /\ inbox'[j] = inbox[j]
      <4>1. NumberOf(inbox[i]) <= NumberOf(inbox[j])
        BY <3>1, <3>3 DEF SyncInv, InboxOrdered
      <4> QED
        BY ONLY <3>2, <3>3, <4>1
    <3>4. CASE inbox'[j] = m
      BY ONLY <2>2, <3>1, <3>2, <3>4
    <3> QED
      BY ONLY <2>1, <3>3, <3>4
  <2>4. ASSUME Current', NEW i \in 1..Len(inbox') PROVE cursor'.afterSeq <= NumberOf(inbox'[i])
    <3>1. Current /\ cursor.afterSeq <= lastSeq /\ cursor.afterSeq \in Nat
      BY <2>4, SyncAssumption
      DEF Goes, Current, SyncInv, CursorSound, ServerSound, SyncTypeOK, Cursor
    <3>2. cursor.afterSeq <= NumberOf(m) /\ \A k \in 1..Len(inbox) : cursor.afterSeq <= NumberOf(inbox[k])
      BY <2>2, <3>1, NumbersOf DEF SyncInv, InboxOrdered
    <3> QED
      BY <2>1, <2>4, <3>2
  <2> QED
    BY <2>3, <2>4 DEF InboxOrdered
<1> QED
  BY <1>1, <1>2, <1>3, <1>4 DEF MailSound

\* The first message is taken, and the replica is no further than it says
LEMMA MailMoves ==
    ASSUME SyncInv, SyncTypeOK', Goes, inbox # <<>>, inbox' = Tail(inbox),
           Current' => cursor'.afterSeq <= NumberOf(inbox[1]),
           \A r \in Request : Among(r, requests') => Among(r, requests) \/ RequestSound(r)'
    PROVE  MailSound' /\ InboxOrdered'
<1>1. /\ inbox' \in Seq(InboxMessage) /\ Len(inbox') = Len(inbox) - 1
      /\ \A i \in 1..Len(inbox') : inbox'[i] = inbox[i + 1] /\ i + 1 \in 1..Len(inbox)
      /\ \A y : Among(y, inbox') => Among(y, inbox)
      /\ 1 \in 1..Len(inbox)
  BY NumbersOf, TailIs
<1>2. ASSUME NEW y \in InboxMessage, Among(y, inbox') PROVE MessageSound(y)'
  BY <1>1, <1>2, MessageStays DEF SyncInv, MailSound
<1>3. ASSUME NEW r \in Request, Among(r, requests') PROVE RequestSound(r)'
  BY <1>3, RequestStays DEF SyncInv, MailSound
<1>4. InboxOrdered'
  <2>1. \A i, j \in 1..Len(inbox') : i < j => NumberOf(inbox'[i]) <= NumberOf(inbox'[j])
    <3> SUFFICES ASSUME NEW i \in 1..Len(inbox'), NEW j \in 1..Len(inbox'), i < j
                 PROVE  NumberOf(inbox[i + 1]) <= NumberOf(inbox[j + 1])
      BY <1>1
    <3>1. i + 1 < j + 1
      BY NumbersOf, <1>1
    <3> QED
      BY <1>1, <3>1 DEF SyncInv, InboxOrdered
  <2>2. ASSUME Current', NEW i \in 1..Len(inbox') PROVE cursor'.afterSeq <= NumberOf(inbox'[i])
    <3>1. NumberOf(inbox[1]) <= NumberOf(inbox[i + 1]) /\ NumberOf(inbox[1]) \in Nat
          /\ NumberOf(inbox[i + 1]) \in Nat
      <4>1. 1 < i + 1 /\ i + 1 \in 1..Len(inbox)
        BY <1>1, NumbersOf
      <4> QED
        BY <1>1, <4>1, NumbersOf DEF SyncInv, InboxOrdered
    <3>2. cursor'.afterSeq \in Nat
      BY <2>2, SyncAssumption DEF SyncTypeOK, Cursor, Current
    <3> QED
      BY <1>1, <2>2, <3>1, <3>2
  <2> QED
    BY <2>1, <2>2 DEF InboxOrdered
<1> QED
  BY <1>1, <1>2, <1>3, <1>4 DEF MailSound

\* No message is on its way
LEMMA MailIsLost ==
    ASSUME requests' = <<>>, inbox' = <<>>
    PROVE  MailSound' /\ InboxOrdered'
BY DEF MailSound, InboxOrdered, Among


-----------------------------------------------------------------------------
(* Edits *)

LEMMA SyncNumbers ==
    ASSUME SyncTypeOK
    PROVE  /\ lastSeq \in Nat /\ generation \in Nat /\ MaxSeq \in Nat /\ MaxServerLives \in Nat
           /\ JournalLimit \in Nat \ {0} /\ Len(journal) \in Nat /\ Len(versions) \in Nat
           /\ lastSeq <= MaxSeq /\ generation \in 1..MaxServerLives
           /\ cursor # None => cursor.afterSeq \in Nat /\ cursor.generation \in Nat
           /\ \A s \in 0..lastSeq : VersionAt(s) \in Catalog /\ s + 1 \in 1..Len(versions)
BY SyncAssumption DEF SyncTypeOK, Cursor, VersionAt

LEMMA TrimmedIs ==
    ASSUME NEW t \in Seq(Entry), Len(t) <= JournalLimit + 1
    PROVE  /\ Trimmed(t) \in Seq(Entry) /\ Len(Trimmed(t)) <= JournalLimit /\ Len(Trimmed(t)) <= Len(t)
           /\ Len(Trimmed(t)) \in Nat
           /\ \A i \in 1..Len(Trimmed(t)) : /\ Trimmed(t)[i] = t[Len(t) - Len(Trimmed(t)) + i]
                                            /\ Len(t) - Len(Trimmed(t)) + i \in 1..Len(t)
           /\ \A e : Among(e, Trimmed(t)) => Among(e, t)
<1>1. Len(t) \in Nat /\ JournalLimit \in Nat \ {0}
  BY SyncAssumption
<1>2. CASE Len(t) > JournalLimit
  <2>1. Trimmed(t) = Tail(t) /\ t # <<>>
    BY <1>1, <1>2 DEF Trimmed
  <2> QED
    BY <1>1, <1>2, <2>1, TailIs
<1>3. CASE ~(Len(t) > JournalLimit)
  <2>1. Trimmed(t) = t
    BY <1>1, <1>3 DEF Trimmed
  <2> QED
    BY <1>1, <1>3, <2>1
<1> QED
  BY <1>2, <1>3

LEMMA PublishesStep ==
    ASSUME SyncInv, NEW change \in Change, Publishes(change)
    PROVE  SyncInv'
<1>0. PICK e : e = [seq |-> lastSeq + 1, change |-> change]
  OBVIOUS
<1>1. /\ UNCHANGED <<generation, linked, subscribed, requests, replica, cursor, exact, losses>>
      /\ lastSeq' = lastSeq + 1 /\ held' = Applied(held, change) /\ change \in Edits
      /\ journal' = Trimmed(Append(journal, e)) /\ versions' = Append(versions, held')
      /\ lastSeq + generation <= MaxSeq
      /\ inbox' = IF subscribed THEN Append(inbox, [kind |-> "update", entry |-> e]) ELSE inbox
  BY <1>0 DEF Publishes, client
<1>2. SyncTypeOK /\ held = VersionAt(lastSeq) /\ JournalSound /\ held \in Catalog
  BY DEF SyncInv, ServerSound, SyncTypeOK
<1>3. /\ lastSeq \in Nat /\ generation \in Nat \ {0} /\ MaxSeq \in Nat /\ Len(journal) \in Nat
      /\ lastSeq' \in 1..MaxSeq /\ journal \in Seq(Entry) /\ versions \in Seq(Catalog)
      /\ Len(versions) = lastSeq + 1 /\ Len(journal) <= JournalLimit /\ JournalLimit \in Nat \ {0}
  BY <1>1, <1>2, SyncNumbers DEF SyncTypeOK
<1>4. e \in Entry /\ e.seq = lastSeq + 1 /\ e.change = change
  BY <1>0, <1>1, <1>3 DEF Entry
<1>5. held' \in Catalog
  BY <1>1, <1>2 DEF Applied, Catalog, Change
<1>6. /\ versions' \in Seq(Catalog) /\ Len(versions') = lastSeq' + 1
      /\ \A s \in 0..lastSeq : VersionAt(s)' = VersionAt(s)
      /\ versions'[lastSeq' + 1] = held'
  BY <1>1, <1>3, <1>5, AppendIs DEF VersionAt
<1>7. /\ journal' \in Seq(Entry) /\ Len(journal') <= JournalLimit /\ Len(journal') \in Nat
      /\ Len(journal') <= lastSeq'
      /\ \A i \in 1..Len(journal') : journal'[i].seq = lastSeq' - Len(journal') + i
      /\ \A y : Among(y, journal') => Among(y, journal) \/ y = e
  <2> DEFINE t == Append(journal, e)
  <2>1. /\ t \in Seq(Entry) /\ Len(t) = Len(journal) + 1
        /\ \A i \in 1..Len(journal) : t[i] = journal[i]
        /\ t[Len(journal) + 1] = e
        /\ \A y : Among(y, t) <=> Among(y, journal) \/ y = e
    BY <1>3, <1>4, AppendIs
  <2> HIDE DEF t
  <2>2. \A i \in 1..Len(t) : t[i].seq = lastSeq - Len(journal) + i
    <3> TAKE i \in 1..Len(t)
    <3>1. CASE i \in 1..Len(journal)
      BY <1>2, <2>1, <3>1 DEF JournalSound
    <3>2. CASE i \notin 1..Len(journal)
      <4>1. i = Len(journal) + 1
        BY <1>3, <2>1, <3>2
      <4> QED
        BY <1>3, <1>4, <2>1, <4>1
    <3> QED
      BY <3>1, <3>2
  <2>3. journal' = Trimmed(t) /\ Len(t) <= JournalLimit + 1 /\ Len(t) \in Nat
    BY <1>1, <1>3, <2>1 DEF t
  <2>4. Len(journal) <= lastSeq
    BY <1>2 DEF JournalSound
  <2>5. /\ journal' \in Seq(Entry) /\ Len(journal') <= JournalLimit /\ Len(journal') <= Len(t)
        /\ Len(journal') \in Nat
        /\ \A i \in 1..Len(journal') : /\ journal'[i] = t[Len(t) - Len(journal') + i]
                                       /\ Len(t) - Len(journal') + i \in 1..Len(t)
        /\ \A y : Among(y, journal') => Among(y, t)
    BY <2>1, <2>3, TrimmedIs
  <2>6. \A i \in 1..Len(journal') : journal'[i].seq = lastSeq - Len(journal) + (Len(t) - Len(journal') + i)
    BY <2>2, <2>5
  <2>7. \A i \in 1..Len(journal') : journal'[i].seq = lastSeq' - Len(journal') + i
    <3>2. /\ lastSeq \in Nat /\ Len(journal) \in Nat /\ Len(journal') \in Nat
          /\ lastSeq' = lastSeq + 1 /\ Len(t) = Len(journal) + 1
          /\ \A i \in 1..Len(journal') : i \in Nat
      BY <1>1, <1>3, <2>1, <2>5
    <3>3. ASSUME NEW i \in 1..Len(journal')
          PROVE  lastSeq - Len(journal) + (Len(t) - Len(journal') + i) = lastSeq' - Len(journal') + i
      <4>1. i \in Nat
        BY <3>2
      <4> QED
        BY ONLY <3>2, <4>1
    <3> QED
      BY ONLY <2>6, <3>3
  <2> QED
    BY <1>1, <1>3, <2>1, <2>4, <2>5, <2>7
<1>8. SyncTypeOK'
  BY <1>1, <1>2, <1>3, <1>5, <1>6, <1>7 DEF SyncTypeOK
<1>9. Current' = Current /\ (Current => AtCursor' = AtCursor)
  <2>1. Current' = Current
    BY <1>1 DEF Current
  <2>2. ASSUME Current PROVE AtCursor' = AtCursor
    <3>1. cursor.afterSeq \in 0..lastSeq
      BY <1>2, <2>2, SyncNumbers DEF SyncInv, CursorSound, Current
    <3> QED
      BY <1>1, <1>6, <3>1 DEF AtCursor, VersionAt
  <2> QED
    BY <2>1, <2>2
<1>10. Goes
  <2>1. Current => cursor.afterSeq <= cursor'.afterSeq
    BY <1>1, <1>2, SyncNumbers DEF Current
  <2> QED
    BY <1>1, <1>3, <1>6, <1>9, <2>1 DEF Goes
<1>11. Published(e)'
  <2>1. change.color = None => change.previous = None
    BY <1>1 DEF Edits
  <2>2. versions'[lastSeq + 2] = Applied(versions'[lastSeq + 1], change)
    <3>1. lastSeq' + 1 = lastSeq + 2 /\ versions'[lastSeq + 1] = VersionAt(lastSeq)
      BY <1>1, <1>3, <1>6 DEF VersionAt
    <3> QED
      BY <1>1, <1>2, <1>6, <3>1
  <2>3. e.seq \in Nat /\ e.seq + 1 = lastSeq + 2 /\ e.seq - 1 + 1 = lastSeq + 1 /\ e.seq <= lastSeq'
    BY <1>1, <1>3, <1>4
  <2>4. versions'[e.seq + 1] = Applied(versions'[e.seq - 1 + 1], e.change)
    BY <1>4, <2>2, <2>3
  <2>5. VersionAt(e.seq)' = Applied(VersionAt(e.seq - 1)', e.change)
    BY <2>4 DEF VersionAt
  <2> QED
    BY <1>4, <2>1, <2>3, <2>5 DEF Published, Applied
<1>12. JournalSound'
  <2>1. ASSUME NEW y \in Entry, Among(y, journal') PROVE Published(y)'
    <3>1. CASE Among(y, journal)
      BY <1>2, <1>8, <1>10, <3>1, PublishedStays DEF JournalSound
    <3> QED
      BY <1>7, <1>11, <2>1, <3>1
  <2> QED
    BY <1>7, <2>1 DEF JournalSound
<1>13. MailSound' /\ InboxOrdered'
  <2>1. CASE subscribed
    <3>0. PICK m : m = [kind |-> "update", entry |-> e]
      OBVIOUS
    <3>1. m \in InboxMessage /\ m.kind = "update" /\ m.entry = e
      BY <1>4, <3>0 DEF InboxMessage
    <3>2. inbox' = Append(inbox, m)
      BY <1>1, <2>1, <3>0
    <3>3. MessageSound(m)' /\ NumberOf(m) = lastSeq + 1
      BY <1>4, <1>11, <3>1 DEF MessageSound, NumberOf
    <3> QED
      BY <1>1, <1>3, <1>8, <1>10, <3>1, <3>2, <3>3, MailAppends
  <2>2. CASE ~subscribed
    <3>1. UNCHANGED <<inbox, requests, cursor>>
      BY <1>1, <2>2
    <3>2. MailSound'
      BY <1>8, <1>10, <3>1, MessageStays, RequestStays DEF SyncInv, MailSound
    <3>3. InboxOrdered'
      BY <1>9, <3>1 DEF SyncInv, InboxOrdered
    <3> QED
      BY <3>2, <3>3
  <2> QED
    BY <2>1, <2>2
<1>14. CursorSound' /\ ReplicaIsTrue'
  <2>1. CursorSound'
    BY <1>1, <1>2, <1>3, <1>9, SyncNumbers DEF SyncInv, CursorSound, Current
  <2>2. ReplicaIsTrue'
    BY <1>1, <1>9 DEF SyncInv, ReplicaIsTrue
  <2> QED
    BY <2>1, <2>2
<1> QED
  BY <1>6, <1>8, <1>12, <1>13, <1>14 DEF SyncInv, ServerSound, VersionAt


-----------------------------------------------------------------------------
(* The other steps *)

LEMMA ServerStays ==
    ASSUME SyncInv, SyncTypeOK', UNCHANGED <<held, generation, lastSeq, journal, versions>>
    PROVE  ServerSound'
BY DEF SyncInv, ServerSound, JournalSound, Published, Applied, VersionAt, Among

LEMMA ReplicaStays ==
    ASSUME SyncInv, SyncTypeOK', UNCHANGED <<held, generation, lastSeq, journal, versions>>,
           UNCHANGED <<replica, cursor, exact>>
    PROVE  Goes /\ CursorSound' /\ ReplicaIsTrue'
<1>1. lastSeq \in Nat /\ (Current => cursor.afterSeq \in Nat)
  BY SyncNumbers DEF SyncInv, ServerSound, Current
<1>2. Goes
  BY <1>1 DEF Goes, VersionAt, Current
<1>3. CursorSound' /\ ReplicaIsTrue'
  BY DEF SyncInv, CursorSound, Current, ReplicaIsTrue, AtCursor
<1> QED
  BY <1>2, <1>3

LEMMA AnswersStep ==
    ASSUME SyncInv, AnswersList
    PROVE  SyncInv'
<1>1. /\ UNCHANGED <<held, generation, lastSeq, journal, versions>>
      /\ UNCHANGED <<replica, cursor, exact>> /\ UNCHANGED <<linked, losses>>
      /\ requests # <<>> /\ requests' = Tail(requests)
      /\ inbox' = Append(inbox, [kind |-> "list", list |-> Synchronize(Head(requests).at)])
      /\ subscribed' = (subscribed \/ Head(requests).subscribe)
  BY DEF AnswersList, server, client
<1>2. SyncTypeOK /\ requests \in Seq(Request)
  BY DEF SyncInv, ServerSound, SyncTypeOK
<1>3. /\ Head(requests) = requests[1] /\ requests[1] \in Request /\ Among(requests[1], requests)
      /\ Tail(requests) \in Seq(Request)
      /\ \A r : Among(r, Tail(requests)) => Among(r, requests)
  BY <1>1, <1>2, TailIs
<1>4. PICK list : list = Synchronize(requests[1].at)
  OBVIOUS
<1>5. list \in ListAnswer /\ ListSound(list) /\ list.head.afterSeq = lastSeq
  BY <1>3, <1>4, AnswerIsSound DEF SyncInv, MailSound
<1>6. subscribed' \in BOOLEAN
  BY <1>1
<1>7. SyncTypeOK'
  BY <1>1, <1>2, <1>3, <1>6 DEF SyncTypeOK
<1>8. Goes /\ ServerSound' /\ CursorSound' /\ ReplicaIsTrue'
  BY <1>1, <1>7, ServerStays, ReplicaStays
<1>9. MailSound' /\ InboxOrdered'
  <2>1. PICK m : m = [kind |-> "list", list |-> list]
    OBVIOUS
  <2>2. m \in InboxMessage /\ m.kind = "list" /\ m.list = list
    BY <1>5, <2>1 DEF InboxMessage
  <2>3. inbox' = Append(inbox, m)
    BY <1>1, <1>3, <1>4, <2>1
  <2>4. MessageSound(m)'
    BY <1>5, <1>7, <1>8, <2>2, ListStays DEF MessageSound
  <2>5. lastSeq <= NumberOf(m)
    BY <1>5, <2>2, SyncNumbers, <1>2 DEF NumberOf
  <2> QED
    BY <1>1, <1>3, <1>7, <1>8, <2>2, <2>3, <2>4, <2>5, MailAppends
<1> QED
  BY <1>8, <1>9 DEF SyncInv

LEMMA ConnectsStep ==
    ASSUME SyncInv, ConnectsClient
    PROVE  SyncInv'
<1>1. /\ UNCHANGED <<held, generation, lastSeq, journal, versions>>
      /\ UNCHANGED <<replica, cursor, exact>> /\ UNCHANGED <<subscribed, losses, inbox>>
      /\ linked' = TRUE
      /\ requests' \in {<<Subscribe>>, <<Subscribe, Refresh(cursor)>>, <<Refresh(cursor), Subscribe>>}
      /\ cursor = None => requests' = <<Subscribe>>
  BY DEF ConnectsClient, server, client
<1>2. SyncTypeOK /\ cursor \in Cursor \cup {None}
  BY DEF SyncInv, ServerSound, SyncTypeOK
<1>3. PICK again : again = Refresh(cursor)
  OBVIOUS
<1>4. /\ Subscribe \in Request /\ again \in Request
      /\ requests' \in {<<Subscribe>>, <<Subscribe, again>>, <<again, Subscribe>>}
      /\ again.at = cursor /\ Subscribe.at = None
  BY <1>1, <1>2, <1>3 DEF Request, Subscribe, Refresh
<1>5. requests' \in Seq(Request) /\ \A r : Among(r, requests') => r = Subscribe \/ r = again
  <2> DEFINE first == Subscribe
  <2>0. first \in Request /\ again \in Request
    BY <1>4
  <2> HIDE DEF first
  <2>1. \A x, y : x \in Request /\ y \in Request =>
            /\ <<x>> \in Seq(Request) /\ <<x, y>> \in Seq(Request)
            /\ \A r : Among(r, <<x>>) => r = x
            /\ \A r : Among(r, <<x, y>>) => r = x \/ r = y
    <3> SUFFICES ASSUME NEW x \in Request, NEW y \in Request
                 PROVE  /\ <<x>> \in Seq(Request) /\ <<x, y>> \in Seq(Request)
                        /\ \A r : Among(r, <<x>>) => r = x
                        /\ \A r : Among(r, <<x, y>>) => r = x \/ r = y
      OBVIOUS
    <3>1. <<x>> \in Seq(Request) /\ <<x, y>> \in Seq(Request)
      OBVIOUS
    <3>2. \A r : Among(r, <<x>>) => r = x
      BY DEF Among
    <3>3. \A r : Among(r, <<x, y>>) => r = x \/ r = y
      BY DEF Among
    <3> QED
      BY <3>1, <3>2, <3>3
  <2>2. requests' \in {<<first>>, <<first, again>>, <<again, first>>}
    BY <1>4 DEF first
  <2>3. CASE requests' = <<first>>
    BY <2>0, <2>1, <2>3 DEF first
  <2>4. CASE requests' = <<first, again>>
    BY <2>0, <2>1, <2>4 DEF first
  <2>5. CASE requests' = <<again, first>>
    BY <2>0, <2>1, <2>5 DEF first
  <2> QED
    BY <2>2, <2>3, <2>4, <2>5
<1>6. SyncTypeOK'
  BY <1>1, <1>2, <1>5 DEF SyncTypeOK
<1>7. Goes /\ ServerSound' /\ CursorSound' /\ ReplicaIsTrue'
  BY <1>1, <1>6, ServerStays, ReplicaStays
<1>8. \A r \in Request : Among(r, requests') => RequestSound(r)'
  <2>1. cursor # None => cursor.afterSeq \in Nat
    BY <1>2, SyncNumbers
  <2>2. ASSUME NEW r \in Request, r.at = None \/ r.at = cursor PROVE RequestSound(r)'
    BY <1>1, <2>1, <2>2 DEF RequestSound, Current
  <2> QED
    BY <1>4, <1>5, <2>2
<1>9. MailSound'
  BY <1>1, <1>6, <1>7, <1>8, MessageStays DEF SyncInv, MailSound
<1>10. InboxOrdered'
  BY <1>1 DEF SyncInv, InboxOrdered, Current
<1> QED
  BY <1>7, <1>9, <1>10 DEF SyncInv

LEMMA LosesLinkStep ==
    ASSUME SyncInv, LosesLink
    PROVE  SyncInv'
<1>1. /\ UNCHANGED <<held, generation, lastSeq, journal, versions>>
      /\ UNCHANGED <<replica, cursor, exact>>
      /\ linked' = FALSE /\ subscribed' = FALSE /\ requests' = <<>> /\ inbox' = <<>>
  BY DEF LosesLink, Drop, server, client
<1>2. SyncTypeOK'
  <2>1. <<>> \in Seq(Request)
    OBVIOUS
  <2> QED
    BY <1>1, <2>1 DEF SyncInv, ServerSound, SyncTypeOK
<1> QED
  BY <1>1, <1>2, ServerStays, ReplicaStays, MailIsLost DEF SyncInv

LEMMA SyncRestartsStep ==
    ASSUME SyncInv, SyncRestarts
    PROVE  SyncInv'
<1>1. /\ generation < MaxServerLives /\ generation' = generation + 1
      /\ lastSeq' = 0 /\ journal' = <<>> /\ versions' = <<held>>
      /\ UNCHANGED <<held, replica, cursor, exact>>
      /\ linked' = FALSE /\ subscribed' = FALSE /\ requests' = <<>> /\ inbox' = <<>>
  BY DEF SyncRestarts, Drop, client
<1>2. SyncTypeOK /\ CursorSound
  BY DEF SyncInv, ServerSound
<1>3. SyncTypeOK'
  <2>1. /\ <<>> \in Seq(Entry) /\ Len(<<>>) = 0 /\ <<>> \in Seq(Request)
    OBVIOUS
  <2>2. held \in Catalog => <<held>> \in Seq(Catalog) /\ Len(<<held>>) = 1
    OBVIOUS
  <2>3. generation' \in 1..MaxServerLives /\ lastSeq' \in 0..MaxSeq /\ 0 <= JournalLimit
        /\ Len(versions') = lastSeq' + 1
    BY <1>1, <1>2, <2>2, SyncNumbers DEF SyncTypeOK
  <2> QED
    BY <1>1, <1>2, <2>1, <2>2, <2>3 DEF SyncTypeOK
<1>4. ~Current' /\ CursorSound'
  BY <1>1, <1>2, SyncNumbers DEF CursorSound, Current
<1>5. ServerSound'
  BY <1>1, <1>3, SyncAssumption DEF ServerSound, JournalSound, VersionAt, Among
<1> QED
  BY <1>1, <1>4, <1>5, MailIsLost DEF SyncInv, ReplicaIsTrue

LEMMA FirstIs ==
    ASSUME SyncInv, inbox # <<>>
    PROVE  /\ Head(inbox) = inbox[1] /\ inbox[1] \in InboxMessage /\ MessageSound(inbox[1])
           /\ Current => cursor.afterSeq <= NumberOf(inbox[1])
BY NumbersOf, TailIs DEF SyncInv, InboxOrdered

LEMMA ListsStep ==
    ASSUME SyncInv, Lists
    PROVE  SyncInv'
<1>1. PICK list : list = Head(inbox).list
  OBVIOUS
<1>2. /\ UNCHANGED <<held, generation, lastSeq, journal, versions>>
      /\ UNCHANGED <<linked, subscribed, requests, losses>>
      /\ inbox # <<>> /\ Head(inbox).kind = "list" /\ inbox' = Tail(inbox)
      /\ replica' = [n \in Names |->
                       IF n \in DOMAIN list.labels THEN list.labels[n]
                       ELSE IF list.mode = "snapshot" \/ n \in list.removals THEN None
                       ELSE replica[n]]
      /\ cursor' = list.head /\ exact' = (list.mode = "snapshot")
  BY <1>1 DEF Lists, server
<1>3. SyncTypeOK /\ CursorSound /\ ReplicaIsTrue
  BY DEF SyncInv, ServerSound
<1>4. /\ list \in ListAnswer /\ ListSound(list) /\ NumberOf(inbox[1]) = list.head.afterSeq
      /\ Current => cursor.afterSeq <= list.head.afterSeq
  BY <1>1, <1>2, FirstIs DEF InboxMessage, MessageSound, NumberOf
<1>5. /\ list.head \in Cursor /\ list.head.generation = generation /\ list.head.afterSeq \in Nat
      /\ list.head.afterSeq \in 0..lastSeq /\ list.mode \in {"snapshot", "changes"}
  BY <1>3, <1>4, SyncAssumption DEF ListAnswer, ListSound, Cursor
<1>6. \A n \in DOMAIN list.labels : list.labels[n] \in Colors \cup {None}
  BY <1>4 DEF ListAnswer
<1>7. replica' \in Catalog
  BY <1>2, <1>3, <1>6 DEF Catalog, SyncTypeOK
<1>8. exact' \in BOOLEAN
  BY <1>2
<1>9. SyncTypeOK'
  BY <1>2, <1>3, <1>5, <1>7, <1>8 DEF SyncTypeOK

<1>10. cursor' # None /\ Current'
  <2>1. cursor' # None
    BY <1>2, <1>5, SyncAssumption
  <2> QED
    BY <1>2, <1>5, <2>1 DEF Current
<1>11. Goes
  <2>1. lastSeq \in Nat
    BY <1>3, SyncNumbers
  <2> QED
    BY <1>2, <1>4, <1>10, <2>1 DEF Goes, VersionAt
<1>12. ServerSound' /\ CursorSound'
  <2>1. CursorSound'
    BY <1>2, <1>5, <1>3, SyncNumbers DEF CursorSound
  <2> QED
    BY <1>2, <1>9, <2>1, ServerStays
<1>13. MailSound' /\ InboxOrdered'
  BY <1>2, <1>4, <1>5, <1>9, <1>11, MailMoves
<1>14. ReplicaIsTrue'
  <2> DEFINE at == VersionAt(list.head.afterSeq)
  <2>1. AtCursor' = at /\ at \in Catalog
    BY <1>2, <1>3, <1>5, SyncNumbers DEF AtCursor, VersionAt
  <2>2. CASE list.mode = "snapshot"
    <3>1. \A n \in Names : at[n] = replica'[n]
      BY <1>2, <1>4, <2>2 DEF ListSound
    <3> QED
      BY <1>7, <2>1, <3>1 DEF ReplicaIsTrue, Catalog
  <2>3. CASE list.mode = "changes"
    <3>1. Current /\ \E after \in 0..cursor.afterSeq : CatchesUp(list, after)
      BY <1>4, <2>3 DEF ListSound
    <3>2. PICK after \in 0..cursor.afterSeq : CatchesUp(list, after)
      BY <3>1
    <3>3. cursor.afterSeq \in Nat /\ cursor.afterSeq \in after..list.head.afterSeq
      BY <1>3, <1>4, <1>5, <3>1, <3>2, SyncNumbers DEF Current
    <3>4. AtCursor = VersionAt(cursor.afterSeq)
      BY DEF AtCursor, VersionAt
    <3>5. ASSUME NEW n \in Names, at[n] # None PROVE replica'[n] = at[n]
      <4>1. /\ n \notin list.removals
            /\ n \in DOMAIN list.labels => list.labels[n] = at[n]
            /\ n \notin DOMAIN list.labels => VersionAt(cursor.afterSeq)[n] = at[n]
        BY <3>2, <3>3, <3>5 DEF CatchesUp
      <4>2. n \notin DOMAIN list.labels => replica[n] = at[n]
        BY <1>3, <3>1, <3>4, <3>5, <4>1 DEF ReplicaIsTrue
      <4> QED
        BY <1>2, <2>3, <4>1, <4>2
    <3>6. ~exact'
      BY <1>2, <2>3
    <3> HIDE DEF at
    <3> QED
      BY <2>1, <3>5, <3>6 DEF ReplicaIsTrue
  <2> QED
    BY <1>5, <2>2, <2>3
<1> QED
  BY <1>12, <1>13, <1>14 DEF SyncInv

LEMMA UpdatesStep ==
    ASSUME SyncInv, Updates
    PROVE  SyncInv'
<1>1. PICK e : e = Head(inbox).entry
  OBVIOUS
<1>2. /\ UNCHANGED <<held, generation, lastSeq, journal, versions>>
      /\ UNCHANGED <<linked, subscribed, losses>>
      /\ inbox # <<>> /\ Head(inbox).kind = "update" /\ inbox' = Tail(inbox)
  BY DEF Updates, server
<1>3. SyncTypeOK /\ CursorSound /\ ReplicaIsTrue /\ cursor \in Cursor \cup {None}
      /\ requests \in Seq(Request) /\ replica \in Catalog
  BY DEF SyncInv, ServerSound, SyncTypeOK
<1>4. /\ e \in Entry /\ Published(e) /\ NumberOf(inbox[1]) = e.seq
      /\ Current => cursor.afterSeq <= e.seq
  BY <1>1, <1>2, FirstIs DEF InboxMessage, MessageSound, NumberOf
<1>5. /\ e.seq \in Nat \ {0} /\ e.seq <= lastSeq /\ e.change \in Change
      /\ e.seq \in 0..lastSeq /\ e.seq - 1 \in 0..lastSeq /\ lastSeq <= MaxSeq
  BY <1>3, <1>4, SyncNumbers, SyncAssumption DEF Entry, Published
<1>6. CASE Current /\ e.seq = cursor.afterSeq + 1
  <2>1. /\ replica' = Applied(replica, e.change) /\ cursor' = [cursor EXCEPT !.afterSeq = e.seq]
        /\ UNCHANGED requests /\ UNCHANGED exact
    BY <1>1, <1>2, <1>6 DEF Updates, Current
  <2>2. /\ cursor \in Cursor /\ cursor.afterSeq \in Nat /\ cursor.generation = generation
        /\ cursor' \in Cursor /\ cursor'.generation = generation /\ cursor'.afterSeq = e.seq
    <3>1. cursor \in Cursor /\ cursor.afterSeq \in Nat /\ cursor.generation = generation
      BY <1>3, <1>6, SyncNumbers DEF Current
    <3>2. e.seq \in 0..MaxSeq
      BY <1>3, <1>5, SyncNumbers
    <3> QED
      BY <2>1, <3>1, <3>2 DEF Cursor
  <2>3. replica' \in Catalog
    BY <1>3, <1>5, <2>1 DEF Catalog, Applied, Change
  <2>4. SyncTypeOK'
    BY <1>2, <1>3, <2>1, <2>2, <2>3 DEF SyncTypeOK
  <2>5. Current' /\ cursor' # None
    <3>1. cursor' # None
      BY <2>2, SyncAssumption
    <3> QED
      BY <1>2, <1>6, <2>2, <3>1 DEF Current
  <2>6. Goes
    <3>1. lastSeq \in Nat
      BY <1>3, SyncNumbers
    <3> QED
      BY <1>2, <1>4, <2>2, <2>5, <3>1 DEF Goes, VersionAt
  <2>7. ServerSound' /\ CursorSound'
    <3>1. CursorSound'
      BY <1>2, <1>3, <1>5, <2>2, SyncNumbers DEF CursorSound
    <3> QED
      BY <1>2, <2>4, <3>1, ServerStays
  <2>8. MailSound' /\ InboxOrdered'
    BY <1>2, <1>4, <1>5, <2>1, <2>2, <2>4, <2>6, MailMoves
  <2>9. ReplicaIsTrue'
    <3>1. /\ AtCursor' = VersionAt(e.seq) /\ AtCursor = VersionAt(e.seq - 1)
          /\ VersionAt(e.seq - 1) \in Catalog
      <4>1. e.seq - 1 = cursor.afterSeq
        BY <1>5, <1>6, <2>2
      <4> QED
        BY <1>2, <1>3, <1>5, <2>2, <4>1, SyncNumbers DEF AtCursor, VersionAt
    <3>2. AtCursor' = Applied(AtCursor, e.change)
      BY <1>4, <3>1 DEF Published
    <3>3. \A n \in Names : /\ AtCursor'[n] # None => replica'[n] = AtCursor'[n]
                           /\ replica[n] = AtCursor[n] => replica'[n] = AtCursor'[n]
      BY <1>3, <1>6, <2>1, <3>2 DEF ReplicaIsTrue, Applied
    <3>4. exact' => replica' = AtCursor'
      BY <1>3, <1>6, <2>1, <3>2 DEF ReplicaIsTrue
    <3> QED
      BY <3>3, <3>4 DEF ReplicaIsTrue
  <2> QED
    BY <2>7, <2>8, <2>9 DEF SyncInv
<1>7. CASE ~(Current /\ e.seq = cursor.afterSeq + 1)
  <2>0. PICK again : again = Refresh(cursor)
    OBVIOUS
  <2>1. UNCHANGED <<replica, cursor, exact>> /\ requests' = Append(requests, again)
    BY <1>1, <1>2, <1>7, <2>0 DEF Updates, Current
  <2>2. again \in Request /\ again.at = cursor
    BY <1>3, <2>0 DEF Request, Refresh
  <2>3. requests' \in Seq(Request) /\ \A r : Among(r, requests') => Among(r, requests) \/ r = again
    BY <1>3, <2>1, <2>2, AppendIs
  <2>4. SyncTypeOK'
    BY <1>2, <1>3, <2>1, <2>3 DEF SyncTypeOK
  <2>5. Goes /\ ServerSound' /\ CursorSound' /\ ReplicaIsTrue'
    BY <1>2, <2>1, <2>4, ServerStays, ReplicaStays
  <2>6. \A r \in Request : Among(r, requests') => Among(r, requests) \/ RequestSound(r)'
    <3>1. cursor # None => cursor.afterSeq \in Nat
      BY <1>3, SyncNumbers
    <3>2. \A r : r.at = cursor => RequestSound(r)'
      BY <1>2, <2>1, <3>1 DEF RequestSound, Current
    <3> QED
      BY <2>2, <2>3, <3>2
  <2>7. Current' => cursor'.afterSeq <= NumberOf(inbox[1])
    BY <1>2, <1>4, <2>1 DEF Current
  <2> QED
    BY <1>2, <2>4, <2>5, <2>6, <2>7, MailMoves DEF SyncInv
<1> QED
  BY <1>6, <1>7

LEMMA SyncStarts ==
    ASSUME SyncInit
    PROVE  SyncInv
<1>1. NoLabels \in Catalog /\ held \in Catalog
  <2>1. NoLabels \in Catalog
    BY DEF Catalog, NoLabels
  <2>2. \A n \in Names, c \in Colors : [NoLabels EXCEPT ![n] = c] \in Catalog
    BY <2>1 DEF Catalog
  <2> QED
    BY <2>1, <2>2 DEF SyncInit
<1>2. /\ generation = 1 /\ lastSeq = 0 /\ journal = <<>> /\ versions = <<held>>
      /\ linked = FALSE /\ subscribed = FALSE /\ requests = <<>> /\ inbox = <<>>
      /\ replica = NoLabels /\ cursor = None /\ exact = TRUE
  BY DEF SyncInit
<1>3. SyncTypeOK
  <2>1. /\ <<>> \in Seq(Entry) /\ Len(<<>>) = 0 /\ <<>> \in Seq(Request)
    OBVIOUS
  <2>2. versions \in Seq(Catalog) /\ Len(versions) = 1
    BY <1>1, <1>2
  <2>3. /\ generation \in 1..MaxServerLives /\ lastSeq \in 0..MaxSeq /\ Len(versions) = lastSeq + 1
        /\ Len(journal) <= JournalLimit
    BY <1>2, <2>1, <2>2, SyncAssumption
  <2> QED
    BY <1>1, <1>2, <2>1, <2>2, <2>3 DEF SyncTypeOK
<1>4. inbox \in Seq(InboxMessage)
  BY <1>2
<1> QED
  BY <1>2, <1>3, <1>4
  DEF SyncInv, ServerSound, JournalSound, MailSound, InboxOrdered, CursorSound, ReplicaIsTrue,
      Current, VersionAt, Among

\* Everything that is on its way or in the journal of LabelSync is true of the
\* sequence it was numbered in, and so is the replica.
THEOREM SyncInvHolds == SyncSpec => []SyncInv
<1>1. SyncInit => SyncInv
  BY SyncStarts
<1>2. SyncInv /\ [SyncNext]_syncVars => SyncInv'
  <2> SUFFICES ASSUME SyncInv, [SyncNext]_syncVars PROVE SyncInv'
    OBVIOUS
  <2>1. ASSUME NEW change \in Change, Publishes(change) PROVE SyncInv'
    BY <2>1, PublishesStep
  <2>2. CASE AnswersList
    BY <2>2, AnswersStep
  <2>3. CASE Lists
    BY <2>3, ListsStep
  <2>4. CASE Updates
    BY <2>4, UpdatesStep
  <2>5. CASE ConnectsClient
    BY <2>5, ConnectsStep
  <2>6. CASE LosesLink
    BY <2>6, LosesLinkStep
  <2>7. CASE SyncRestarts
    BY <2>7, SyncRestartsStep
  <2>8. CASE UNCHANGED syncVars
    <3>1. SyncTypeOK'
      BY <2>8 DEF SyncInv, ServerSound, SyncTypeOK, syncVars
    <3>2. /\ UNCHANGED <<held, generation, lastSeq, journal, versions>>
          /\ UNCHANGED <<replica, cursor, exact>> /\ UNCHANGED <<inbox, requests>>
      BY <2>8 DEF syncVars
    <3>3. Goes /\ ServerSound' /\ CursorSound' /\ ReplicaIsTrue'
      BY <3>1, <3>2, ServerStays, ReplicaStays
    <3>4. MailSound' /\ InboxOrdered'
      BY <3>1, <3>2, <3>3, MessageStays, RequestStays DEF SyncInv, MailSound, InboxOrdered, Current
    <3> QED
      BY <3>3, <3>4 DEF SyncInv
  <2> QED
    BY <2>1, <2>2, <2>3, <2>4, <2>5, <2>6, <2>7, <2>8 DEF SyncNext
<1> QED
  BY <1>1, <1>2, PTL DEF SyncSpec

\* However an app catches up with the labels of a daemon, its replica lacks no label of the
\* catalog at its cursor, and one made of a snapshot and the live changes is that catalog.
THEOREM ReplicaIsTrueHolds == SyncSpec => []ReplicaIsTrue
<1>1. SyncInv => ReplicaIsTrue
  BY DEF SyncInv
<1> QED
  BY <1>1, SyncInvHolds, PTL

-----------------------------------------------------------------------------
(* Agent messages: every message is kept *)

Earlier(line, x, y) == \A p, q \in 1..Len(line) : line[p] = x /\ line[q] = y => p < q
Rising(line, s)     == \A i, j \in 1..Len(s) : i < j => Earlier(line, s[i], s[j])
Before(line, s, t)  == \A x, y : Among(x, s) /\ Among(y, t) => Earlier(line, x, y)
Taken(line, s)      == \A x : Among(x, s) => Among(x, line)
Once(line)          == \A i, j \in 1..Len(line) : line[i] = line[j] => i = j

-----------------------------------------------------------------------------
(* The loop that makes the batches *)

GroupsFrom(s, g, n) ==
    g = [i \in 0..n |->
          IF i = 0 THEN <<>>
          ELSE IF g[i - 1] # <<>> /\ Joins(s[i], Last(g[i - 1]))
               THEN Front(g[i - 1]) \o <<Append(Last(g[i - 1]), s[i])>>
               ELSE Append(g[i - 1], <<s[i]>>)]

LEMMA GroupsExist ==
    ASSUME NEW s, Len(s) \in Nat
    PROVE  \E g : GroupsFrom(s, g, Len(s))
<1> DEFINE Bad == {n \in Nat : ~ \E g : GroupsFrom(s, g, n)}
           Next1(g, i) == IF g # <<>> /\ Joins(s[i], Last(g))
                          THEN Front(g) \o <<Append(Last(g), s[i])>>
                          ELSE Append(g, <<s[i]>>)
<1>0. \A n, g : GroupsFrom(s, g, n) <=> g = [i \in 0..n |-> IF i = 0 THEN <<>> ELSE Next1(g[i - 1], i)]
  BY DEF GroupsFrom
<1> HIDE DEF Next1
<1>1. SUFFICES ASSUME Bad # {} PROVE FALSE
  OBVIOUS
<1>2. PICK n \in Bad : \A m \in Bad : n <= m
  BY <1>1, LeastNatural
<1>3. CASE n = 0
  <2> DEFINE g == [i \in 0..0 |-> <<>>]
  <2>1. g = [i \in 0..0 |-> IF i = 0 THEN <<>> ELSE Next1(g[i - 1], i)]
    OBVIOUS
  <2>2. GroupsFrom(s, g, 0)
    BY <1>0, <2>1
  <2> QED
    BY <1>3, <2>2, <1>2
<1>4. CASE n # 0
  <2>1. n - 1 \in Nat /\ n - 1 \notin Bad
    BY <1>2, <1>4
  <2>2. PICK h : GroupsFrom(s, h, n - 1)
    BY <2>1
  <2>3. h = [i \in 0..n - 1 |-> IF i = 0 THEN <<>> ELSE Next1(h[i - 1], i)]
    BY <1>0, <2>2
  <2> DEFINE g == [i \in 0..n |-> IF i = n THEN Next1(h[n - 1], n) ELSE h[i]]
  <2>4. \A i \in 0..n : g[i] = IF i = 0 THEN <<>> ELSE Next1(g[i - 1], i)
    <3> SUFFICES ASSUME NEW i \in 0..n
                 PROVE  g[i] = IF i = 0 THEN <<>> ELSE Next1(g[i - 1], i)
      OBVIOUS
    <3>1. CASE i = n
      <4>1. g[i] = Next1(h[n - 1], n) /\ i # 0 /\ g[i - 1] = h[i - 1]
        BY <3>1, <1>4, <2>1
      <4> QED
        BY <3>1, <4>1
    <3>2. CASE i # n
      <4>1. i \in 0..n - 1 /\ g[i] = h[i] /\ (i # 0 => i - 1 \in 0..n - 1 /\ g[i - 1] = h[i - 1])
        BY <3>2, <2>1
      <4> HIDE DEF g
      <4>2. h[i] = IF i = 0 THEN <<>> ELSE Next1(h[i - 1], i)
        BY <4>1, <2>3
      <4> QED
        BY <4>1, <4>2
    <3> QED
      BY <3>1, <3>2
  <2>5. GroupsFrom(s, g, n)
    BY <1>0, <2>4
  <2> QED
    BY <2>5, <1>2
<1> QED
  BY <1>3, <1>4, <1>2

LEMMA GroupStepsAre ==
    ASSUME NEW s, Len(s) \in Nat
    PROVE  GroupsFrom(s, GroupSteps(s), Len(s))
<1>1. PICK g : GroupsFrom(s, g, Len(s))
  BY GroupsExist
<1> QED
  BY <1>1 DEF GroupSteps, GroupsFrom

\* The groups of the first i messages
GroupsOf(line, gs, s, i) ==
    /\ gs \in Seq(Seq(Enqueued))
    /\ \A k \in 1..Len(gs) :
          /\ Rising(line, gs[k])
          /\ \A x : Among(x, gs[k]) => \E j \in 1..i : s[j] = x
          /\ \A l \in 1..Len(gs) : k < l => Before(line, gs[k], gs[l])
    /\ \A j \in 1..i : \E k \in 1..Len(gs) : Among(s[j], gs[k])

\* The next message joins group p, or becomes it
LEMMA GroupGrows ==
    ASSUME NEW line, NEW s \in Seq(Enqueued), Rising(line, s), NEW i \in 1..Len(s),
           NEW gs, GroupsOf(line, gs, s, i - 1),
           NEW p \in {Len(gs), Len(gs) + 1}, p # 0,
           NEW old \in Seq(Enqueued),
           p = Len(gs) => old = gs[p], p = Len(gs) + 1 => old = <<>>,
           NEW t \in Seq(Seq(Enqueued)), Len(t) = p, \A k \in 1..p - 1 : t[k] = gs[k],
           t[p] = Append(old, s[i])
    PROVE  GroupsOf(line, t, s, i)
<1>1. /\ Len(s) \in Nat /\ Len(gs) \in Nat /\ i \in Nat \ {0} /\ p \in 1..Len(gs) + 1 /\ p \in Nat
      /\ s[i] \in Enqueued /\ gs \in Seq(Seq(Enqueued))
      /\ \A j \in 1..i - 1 : j \in 1..Len(s) /\ j < i /\ j \in 1..i
      /\ i \in 1..i /\ p \in 1..p /\ (p = Len(gs) => p \in 1..Len(gs))
      /\ \A k \in 1..p - 1 : k \in 1..Len(gs) /\ k \in 1..p
  BY DEF GroupsOf
<1>2. \A j \in 1..i - 1 : Earlier(line, s[j], s[i])
  BY <1>1 DEF Rising
<1>3. /\ Len(Append(old, s[i])) = Len(old) + 1 /\ Len(old) \in Nat
      /\ \A k \in 1..Len(old) : t[p][k] = old[k]
      /\ t[p][Len(old) + 1] = s[i]
      /\ \A y : Among(y, t[p]) <=> Among(y, old) \/ y = s[i]
  BY <1>1, AppendIs
<1>4. /\ Rising(line, old) /\ \A x : Among(x, old) => \E j \in 1..i - 1 : s[j] = x
  <2>1. CASE p = Len(gs)
    BY <1>1, <2>1 DEF GroupsOf
  <2>2. CASE p = Len(gs) + 1
    BY <2>2 DEF Rising, Among
  <2> QED
    BY <2>1, <2>2
<1>5. \A x : Among(x, old) => Earlier(line, x, s[i])
  BY <1>2, <1>4
<1>6. Rising(line, t[p])
  <2> SUFFICES ASSUME NEW k \in 1..Len(t[p]), NEW l \in 1..Len(t[p]), k < l
               PROVE  Earlier(line, t[p][k], t[p][l])
    BY DEF Rising
  <2>0. Len(t[p]) = Len(old) + 1
    BY <1>3
  <2>1. CASE l \in 1..Len(old)
    <3>1. k \in 1..Len(old)
      BY <1>3, <2>1
    <3> QED
      BY <1>3, <1>4, <2>1, <3>1 DEF Rising
  <2>2. CASE l \notin 1..Len(old)
    <3>1. l = Len(old) + 1 /\ k \in 1..Len(old)
      BY <1>3, <2>0, <2>2
    <3> QED
      BY <1>3, <1>5, <3>1 DEF Among
  <2> QED
    BY <2>1, <2>2
<1>7. ASSUME NEW k \in 1..p, k # p
      PROVE  k \in 1..p - 1 /\ t[k] = gs[k] /\ k \in 1..Len(gs)
  <2>1. p \in Nat
    BY <1>1
  <2>2. k \in 1..p - 1
    BY <1>7, <2>1
  <2> QED
    BY <1>1, <2>2
<1>8. ASSUME NEW k \in 1..p, NEW x, Among(x, t[k]) PROVE \E j \in 1..i : s[j] = x
  <2>1. CASE k = p
    BY <1>1, <1>3, <1>4, <1>8, <2>1
  <2>2. CASE k # p
    BY <1>1, <1>7, <1>8, <2>2 DEF GroupsOf
  <2> QED
    BY <2>1, <2>2
<1>9. ASSUME NEW k \in 1..p, NEW l \in 1..p, k < l PROVE Before(line, t[k], t[l])
  <2>1. k # p /\ k \in 1..p - 1 /\ t[k] = gs[k] /\ k \in 1..Len(gs)
    <3>1. p \in Nat
      BY <1>1
    <3>2. k # p
      BY <1>9, <3>1
    <3> QED
      BY <1>7, <3>2
  <2>2. CASE l = p
    <3>1. \A x : Among(x, gs[k]) => Earlier(line, x, s[i])
      BY <1>2, <2>1 DEF GroupsOf
    <3>2. \A x, y : Among(x, gs[k]) /\ Among(y, old) => Earlier(line, x, y)
      <4>1. CASE p = Len(gs)
        <5>1. p \in 1..Len(gs)
          BY <1>1, <4>1
        <5> QED
          BY <1>9, <2>1, <2>2, <4>1, <5>1 DEF GroupsOf, Before
      <4>2. CASE p = Len(gs) + 1
        BY <4>2 DEF Among
      <4> QED
        BY <4>1, <4>2
    <3> QED
      BY <1>3, <2>1, <2>2, <3>1, <3>2 DEF Before
  <2>3. CASE l # p
    BY <1>7, <1>9, <2>1, <2>3 DEF GroupsOf
  <2> QED
    BY <2>2, <2>3
<1>10. ASSUME NEW j \in 1..i PROVE \E k \in 1..p : Among(s[j], t[k])
  <2>1. CASE j = i
    BY <1>1, <1>3, <2>1
  <2>2. CASE j # i
    <3>1. j \in 1..i - 1
      BY <1>1, <2>2
    <3>2. PICK k \in 1..Len(gs) : Among(s[j], gs[k])
      BY <3>1 DEF GroupsOf
    <3>3. CASE k \in 1..p - 1
      BY <1>1, <3>2, <3>3
    <3>4. CASE k \notin 1..p - 1
      <4>1. k = p /\ p = Len(gs) /\ p \in 1..p
        BY <1>1, <3>4
      <4> QED
        BY <1>3, <3>2, <4>1
    <3> QED
      BY <3>3, <3>4
  <2> QED
    BY <2>1, <2>2
<1>11. \A k \in 1..p : Rising(line, t[k])
  BY <1>6, <1>7 DEF GroupsOf
<1> QED
  BY <1>8, <1>9, <1>10, <1>11 DEF GroupsOf

LEMMA GroupsAre ==
    ASSUME NEW line, NEW s \in Seq(Enqueued), Rising(line, s)
    PROVE  GroupsOf(line, Groups(s), s, Len(s))
<1> DEFINE f == GroupSteps(s)
           Bad == {i \in 0..Len(s) : ~GroupsOf(line, f[i], s, i)}
<1>0. Len(s) \in Nat
  OBVIOUS
<1>1. \A i \in 0..Len(s) : f[i] = IF i = 0 THEN <<>>
          ELSE IF f[i - 1] # <<>> /\ Joins(s[i], Last(f[i - 1]))
               THEN Front(f[i - 1]) \o <<Append(Last(f[i - 1]), s[i])>>
               ELSE Append(f[i - 1], <<s[i]>>)
  <2>1. GroupsFrom(s, f, Len(s))
    BY <1>0, GroupStepsAre
  <2> HIDE DEF f
  <2> QED
    BY <2>1 DEF GroupsFrom
<1>2. Groups(s) = f[Len(s)]
  BY DEF Groups
<1> HIDE DEF f
<1>3. Bad = {}
  <2> SUFFICES ASSUME Bad # {} PROVE FALSE
    OBVIOUS
  <2>1. PICK i \in Bad : \A j \in Bad : i <= j
    <3>1. Bad \in SUBSET Nat
      BY <1>0
    <3> QED
      BY <3>1, LeastNatural
  <2>2. CASE i = 0
    <3>1. f[i] = <<>>
      BY <1>1, <2>1, <2>2
    <3>2. GroupsOf(line, <<>>, s, 0)
      BY DEF GroupsOf
    <3> QED
      BY <2>1, <2>2, <3>1, <3>2
  <2>3. CASE i # 0
    <3>1. i \in 1..Len(s) /\ i - 1 \in 0..Len(s) /\ i - 1 \notin Bad
      BY <1>0, <2>1, <2>3
    <3> DEFINE gs == f[i - 1]
    <3>2. GroupsOf(line, gs, s, i - 1) /\ gs \in Seq(Seq(Enqueued)) /\ Len(gs) \in Nat
      BY <3>1 DEF GroupsOf
    <3>3. s[i] \in Enqueued
      BY <3>1
    <3>4. CASE gs # <<>> /\ Joins(s[i], Last(gs))
      <4> DEFINE g == Append(Last(gs), s[i])
                 t == Front(gs) \o <<g>>
      <4>1. f[i] = t
        BY <1>1, <2>3, <3>1, <3>4
      <4> HIDE DEF gs
      <4>2. Len(gs) \in Nat \ {0} /\ Last(gs) = gs[Len(gs)] /\ gs[Len(gs)] \in Seq(Enqueued)
            /\ Front(gs) = SubSeq(gs, 1, Len(gs) - 1)
        BY <3>2, <3>4, FrontIs DEF Front
      <4>3. g \in Seq(Enqueued)
        BY <3>3, <4>2, AppendIs
      <4> HIDE DEF g
      <4>4. /\ Front(gs) \in Seq(Seq(Enqueued)) /\ Len(Front(gs)) = Len(gs) - 1
            /\ \A k \in 1..Len(gs) - 1 : Front(gs)[k] = gs[k]
        BY <3>2, <3>4, FrontIs
      <4>5. <<g>> \in Seq(Seq(Enqueued)) /\ Len(<<g>>) = 1 /\ <<g>>[1] = g
        BY <4>3
      <4>6. /\ t \in Seq(Seq(Enqueued)) /\ Len(t) = Len(gs) /\ t[Len(gs)] = g
            /\ \A k \in 1..Len(gs) - 1 : t[k] = gs[k]
        <5> DEFINE front == Front(gs)
                   one == <<g>>
        <5> HIDE DEF front, one
        <5>1. /\ front \o one \in Seq(Seq(Enqueued)) /\ Len(front \o one) = Len(front) + Len(one)
              /\ \A k \in 1..Len(front) : (front \o one)[k] = front[k]
              /\ \A k \in 1..Len(one) : (front \o one)[Len(front) + k] = one[k]
          BY <4>4, <4>5, ConcatIs DEF front, one
        <5>2. (front \o one)[Len(front) + 1] = g /\ Len(front) + 1 = Len(gs)
          BY <4>2, <4>4, <4>5, <5>1 DEF front, one
        <5> QED
          BY <4>2, <4>4, <4>5, <5>1, <5>2 DEF front, one
      <4> HIDE DEF t
      <4>7. GroupsOf(line, t, s, i)
        <5> DEFINE p == Len(gs)
        <5>1. /\ p \in {Len(gs), Len(gs) + 1} /\ p # 0 /\ p # Len(gs) + 1 /\ Len(t) = p
              /\ \A k \in 1..p - 1 : t[k] = gs[k]
              /\ t[p] = Append(gs[p], s[i]) /\ gs[p] \in Seq(Enqueued)
          BY <4>2, <4>6 DEF g
        <5> HIDE DEF p
        <5>2. \E old \in Seq(Enqueued) : old = gs[p]
          BY <5>1
        <5>3. PICK old \in Seq(Enqueued) : old = gs[p]
          BY <5>2
        <5> QED
          BY <3>1, <3>2, <4>6, <5>1, <5>3, GroupGrows
      <4> QED
        BY <2>1, <4>1, <4>7
    <3>5. CASE ~(gs # <<>> /\ Joins(s[i], Last(gs)))
      <4> DEFINE t == Append(gs, <<s[i]>>)
      <4>1. f[i] = t
        BY <1>1, <2>3, <3>1, <3>5
      <4> HIDE DEF gs
      <4>2. <<s[i]>> \in Seq(Enqueued) /\ <<s[i]>> = Append(<<>>, s[i]) /\ <<>> \in Seq(Enqueued)
        BY <3>3
      <4>3. /\ t \in Seq(Seq(Enqueued)) /\ Len(t) = Len(gs) + 1
            /\ \A k \in 1..Len(gs) : t[k] = gs[k]
            /\ t[Len(gs) + 1] = <<s[i]>>
        BY <3>2, <4>2, AppendIs
      <4> HIDE DEF t
      <4>4. \E p \in {Len(gs), Len(gs) + 1} : p = Len(gs) + 1 /\ p # 0 /\ p # Len(gs) /\ p - 1 = Len(gs)
        BY <3>2
      <4>5. PICK p \in {Len(gs), Len(gs) + 1} : p = Len(gs) + 1 /\ p # 0 /\ p # Len(gs) /\ p - 1 = Len(gs)
        BY <4>4
      <4>6. GroupsOf(line, t, s, i)
        BY <3>1, <3>2, <4>2, <4>3, <4>5, GroupGrows
      <4> QED
        BY <2>1, <4>1, <4>6
    <3> QED
      BY <3>4, <3>5
  <2> QED
    BY <2>1, <2>2, <2>3
<1>4. GroupsOf(line, f[Len(s)], s, Len(s))
  BY <1>0, <1>3
<1> QED
  BY <1>2, <1>4
-----------------------------------------------------------------------------
(* The order of the messages: line has them as they were admitted *)

Lined(line, g, q, bs, h) ==
    /\ Once(line)
    /\ Taken(line, g) /\ Taken(line, q) /\ Rising(line, g) /\ Rising(line, q) /\ Before(line, g, q)
    /\ \A k \in 1..Len(bs) :
          /\ Taken(line, bs[k].messages) /\ Rising(line, bs[k].messages)
          /\ Before(line, bs[k].messages, q)
          /\ \A l \in 1..Len(bs) : k < l => Before(line, bs[k].messages, bs[l].messages)
          /\ ~(h /\ k = 1) => Before(line, g, bs[k].messages)

LEMMA EarlierStays ==
    ASSUME NEW S, NEW line \in Seq(S), NEW x \in S, ~Among(x, line)
    PROVE  /\ Once(line) => Once(Append(line, x))
           /\ \A y, z : Among(y, line) /\ Among(z, line) /\ Earlier(line, y, z)
                           => Earlier(Append(line, x), y, z)
           /\ \A y : Among(y, line) => Earlier(Append(line, x), y, x)
<1> DEFINE new == Append(line, x)
           n == Len(line)
<1>1. /\ n \in Nat /\ Len(new) = n + 1 /\ new[n + 1] = x
      /\ \A i \in 1..n : new[i] = line[i]
      /\ \A i \in 1..n + 1 : i \in 1..n \/ i = n + 1
  BY AppendIs
<1>2. \A i \in 1..n : line[i] # x
  BY DEF Among
<1> HIDE DEF new, n
<1>3. Once(line) => Once(new)
  BY <1>1, <1>2 DEF Once, n
<1>4. \A y : Among(y, line) => y # x
  BY DEF Among
<1>5. \A i \in 1..n : i < n + 1 /\ i \in Nat
  BY <1>1
<1>6. ASSUME NEW y, Among(y, line), NEW p \in 1..n + 1, new[p] = y
      PROVE  p \in 1..n /\ line[p] = y
  BY <1>1, <1>4, <1>6
<1>7. ASSUME NEW y, NEW z, Among(y, line), Among(z, line), Earlier(line, y, z)
      PROVE  Earlier(new, y, z)
  BY <1>1, <1>6, <1>7 DEF Earlier, n
<1>8. ASSUME NEW y, Among(y, line) PROVE Earlier(new, y, x)
  <2>1. \A q \in 1..n + 1 : new[q] = x => q = n + 1
    BY <1>1, <1>2
  <2> QED
    BY <1>1, <1>5, <1>6, <1>8, <2>1 DEF Earlier
<1> QED
  BY <1>3, <1>7, <1>8 DEF new

LEMMA LinedEnqueues ==
    ASSUME NEW line \in Seq(Enqueued), NEW g \in Seq(Enqueued), NEW q \in Seq(Enqueued),
           NEW bs \in Seq(Batch), NEW h, Lined(line, g, q, bs, h),
           NEW x \in Enqueued, ~Among(x, line)
    PROVE  Lined(Append(line, x), g, Append(q, x), bs, h)
<1> DEFINE new  == Append(line, x)
           tail == Append(q, x)
<1>1. /\ \A y : Among(y, new) <=> Among(y, line) \/ y = x
      /\ \A y : Among(y, tail) <=> Among(y, q) \/ y = x
      /\ Len(tail) = Len(q) + 1 /\ tail[Len(q) + 1] = x /\ Len(q) \in Nat
      /\ \A i \in 1..Len(q) : tail[i] = q[i]
  BY AppendIs
<1>2. /\ Once(new)
      /\ \A y, z : Among(y, line) /\ Among(z, line) /\ Earlier(line, y, z) => Earlier(new, y, z)
      /\ \A y : Among(y, line) => Earlier(new, y, x)
  BY EarlierStays DEF Lined
<1> HIDE DEF new, tail
<1>3. ASSUME NEW s, Taken(line, s)
      PROVE  /\ Taken(new, s)
             /\ Rising(line, s) => Rising(new, s)
             /\ Before(line, s, q) /\ Taken(line, q) => Before(new, s, tail)
             /\ \A t : Taken(line, t) /\ Before(line, s, t) => Before(new, s, t)
  <2>1. \A i \in 1..Len(s) : Among(s[i], s)
    BY DEF Among
  <2> QED
    BY <1>1, <1>2, <1>3, <2>1 DEF Taken, Rising, Before
<1>4. Taken(new, tail)
  BY <1>1 DEF Lined, Taken
<1>5. Rising(new, tail)
  <2> SUFFICES ASSUME NEW i \in 1..Len(tail), NEW j \in 1..Len(tail), i < j
               PROVE  Earlier(new, tail[i], tail[j])
    BY DEF Rising
  <2>1. \A k \in 1..Len(q) : Among(q[k], line)
    BY DEF Lined, Taken, Among
  <2>2. CASE j \in 1..Len(q)
    <3>1. i \in 1..Len(q)
      BY <1>1, <2>2
    <3> QED
      BY <1>1, <1>2, <2>1, <2>2, <3>1 DEF Lined, Rising
  <2>3. CASE j \notin 1..Len(q)
    <3>1. j = Len(q) + 1 /\ i \in 1..Len(q)
      <4>1. i \in 1..Len(q) + 1 /\ j \in 1..Len(q) + 1
        BY <1>1
      <4>2. Len(q) \in Nat /\ i < j
        BY <1>1
      <4>3. \A n \in Nat : i \in 1..n + 1 /\ j \in 1..n + 1 /\ j \notin 1..n /\ i < j
                              => j = n + 1 /\ i \in 1..n
        OBVIOUS
      <4> QED
        BY <2>3, <4>1, <4>2, <4>3
    <3> QED
      BY <1>1, <1>2, <2>1, <3>1
  <2> QED
    BY <2>2, <2>3
<1>6. Lined(new, g, tail, bs, h)
  BY <1>2, <1>3, <1>4, <1>5 DEF Lined
<1> QED
  BY <1>6 DEF new, tail

LEMMA LinedFlushes ==
    ASSUME NEW line, NEW g \in Seq(Enqueued), NEW q \in Seq(Enqueued),
           NEW bs \in Seq(Batch), NEW h, Lined(line, g, q, bs, h),
           NEW gs, GroupsOf(line, gs, q, Len(q)),
           NEW cs \in Seq(Batch), Len(cs) = Len(gs), \A i \in 1..Len(gs) : cs[i].messages = gs[i]
    PROVE  Lined(line, g, <<>>, bs \o cs, h)
<1> DEFINE all == bs \o cs
           n == Len(bs)
<1>1. /\ n \in Nat /\ Len(cs) \in Nat /\ Len(all) = n + Len(cs)
      /\ \A i \in 1..n : all[i] = bs[i]
      /\ \A i \in 1..Len(cs) : all[n + i] = cs[i]
      /\ \A i \in 1..Len(all) : \/ i \in 1..n
                                \/ i - n \in 1..Len(cs) /\ i = n + (i - n)
  <2>1. bs \in Seq(Batch) /\ cs \in Seq(Batch)
    OBVIOUS
  <2> QED
    BY ONLY <2>1, ConcatIs
<1>2. \A k \in 1..Len(cs) : /\ Rising(line, cs[k].messages)
                            /\ \A x : Among(x, cs[k].messages) => Among(x, q)
                            /\ \A l \in 1..Len(cs) : k < l => Before(line, cs[k].messages, cs[l].messages)
  <2>1. \A k \in 1..Len(gs) : \A x : Among(x, gs[k]) => Among(x, q)
    BY DEF GroupsOf, Among
  <2> QED
    BY <2>1 DEF GroupsOf
<1> HIDE DEF all, n
<1>3. ASSUME NEW k \in 1..Len(all)
      PROVE  /\ Taken(line, all[k].messages) /\ Rising(line, all[k].messages)
             /\ ~(h /\ k = 1) => Before(line, g, all[k].messages)
  <2>1. CASE k \in 1..n
    BY <1>1, <2>1 DEF Lined, n
  <2>2. CASE k \notin 1..n
    <3>1. k - n \in 1..Len(cs) /\ all[k] = cs[k - n]
      BY <1>1, <2>2
    <3> QED
      BY <1>2, <3>1 DEF Lined, Taken, Before
  <2> QED
    BY <2>1, <2>2
<1>4. ASSUME NEW k \in 1..Len(all), NEW l \in 1..Len(all), k < l
      PROVE  Before(line, all[k].messages, all[l].messages)
  <2>1. CASE l \in 1..n
    <3>1. k \in 1..n
      BY <1>1, <1>4, <2>1
    <3> QED
      BY <1>1, <1>4, <2>1, <3>1 DEF Lined, n
  <2>2. CASE l \notin 1..n
    <3>1. l - n \in 1..Len(cs) /\ all[l] = cs[l - n]
      BY <1>1, <2>2
    <3>2. CASE k \in 1..n
      <4>1. all[k] = bs[k] /\ Before(line, bs[k].messages, q)
        BY <1>1, <3>2 DEF Lined, n
      <4> QED
        BY <1>2, <3>1, <4>1 DEF Before
    <3>3. CASE k \notin 1..n
      <4>1. k - n \in 1..Len(cs) /\ all[k] = cs[k - n]
        BY <1>1, <3>3
      <4>2. k - n < l - n
        BY <1>1, <1>4
      <4> QED
        BY <1>2, <3>1, <4>1, <4>2
    <3> QED
      BY <3>2, <3>3
  <2> QED
    BY <2>1, <2>2
<1>5. /\ Taken(line, <<>>) /\ Rising(line, <<>>) /\ \A s : Before(line, s, <<>>)
  BY DEF Taken, Rising, Before, Among
<1>6. Lined(line, g, <<>>, all, h)
  BY <1>3, <1>4, <1>5 DEF Lined
<1> QED
  BY <1>6 DEF all

LEMMA LinedDelivers ==
    ASSUME NEW line, NEW g \in Seq(Enqueued), NEW q \in Seq(Enqueued),
           NEW bs \in Seq(Batch), bs # <<>>, Lined(line, g, q, bs, FALSE)
    PROVE  Lined(line, g \o bs[1].messages, q, bs, TRUE)
<1> DEFINE b == bs[1].messages
           u == g \o b
           n == Len(g)
<1>1. 1 \in 1..Len(bs) /\ Len(bs) \in Nat /\ b \in Seq(Enqueued)
  <2>1. 1 \in 1..Len(bs) /\ Len(bs) \in Nat /\ bs[1] \in Batch
    BY TailIs
  <2> QED
    BY <2>1 DEF Batch
<1> HIDE DEF b
<1>2. /\ n \in Nat /\ Len(b) \in Nat /\ Len(u) = n + Len(b)
      /\ \A i \in 1..n : u[i] = g[i]
      /\ \A i \in 1..Len(b) : u[n + i] = b[i]
      /\ \A i \in 1..Len(u) : \/ i \in 1..n
                              \/ i - n \in 1..Len(b) /\ i = n + (i - n)
      /\ \A y : Among(y, u) <=> Among(y, g) \/ Among(y, b)
  BY <1>1, ConcatIs
<1> HIDE DEF u, n
<1>3. /\ Taken(line, b) /\ Rising(line, b) /\ Before(line, b, q) /\ Before(line, g, b)
      /\ \A l \in 1..Len(bs) : 1 < l => Before(line, b, bs[l].messages) /\ Before(line, g, bs[l].messages)
  BY <1>1 DEF Lined, b
<1>4. Taken(line, u) /\ Before(line, u, q)
  BY <1>2, <1>3 DEF Lined, Taken, Before
<1>5. Rising(line, u)
  <2> SUFFICES ASSUME NEW i \in 1..Len(u), NEW j \in 1..Len(u), i < j
               PROVE  Earlier(line, u[i], u[j])
    BY DEF Rising
  <2>1. CASE j \in 1..n
    <3>1. i \in 1..n
      BY <1>2, <2>1
    <3> QED
      BY <1>2, <2>1, <3>1 DEF Lined, Rising, n
  <2>2. CASE j \notin 1..n
    <3>1. j - n \in 1..Len(b) /\ u[j] = b[j - n]
      BY <1>2, <2>2
    <3>2. CASE i \in 1..n
      <4>1. Among(g[i], g) /\ Among(b[j - n], b)
        BY <3>1, <3>2 DEF Among, n
      <4> QED
        BY <1>2, <1>3, <3>1, <3>2, <4>1 DEF Before
    <3>3. CASE i \notin 1..n
      <4>1. i - n \in 1..Len(b) /\ u[i] = b[i - n]
        BY <1>2, <3>3
      <4>2. i - n < j - n
        <5>1. i \in Nat /\ j \in Nat
          BY <1>2
        <5> QED
          BY <1>2, <5>1
      <4> QED
        BY <1>3, <3>1, <4>1, <4>2 DEF Rising
    <3> QED
      BY <3>2, <3>3
  <2> QED
    BY <2>1, <2>2
<1>6. ASSUME NEW k \in 1..Len(bs), k # 1 PROVE Before(line, u, bs[k].messages)
  <2>1. 1 < k
    BY <1>1, <1>6
  <2> QED
    BY <1>2, <1>3, <2>1 DEF Before
<1>7. Lined(line, u, q, bs, TRUE)
  BY <1>4, <1>5, <1>6 DEF Lined
<1> QED
  BY <1>7 DEF u, b

LEMMA LinedSettles ==
    ASSUME NEW line, NEW g, NEW q, NEW bs \in Seq(Batch), bs # <<>>, NEW h, Lined(line, g, q, bs, h)
    PROVE  Lined(line, g, q, Tail(bs), FALSE)
<1> DEFINE rest == Tail(bs)
<1>1. /\ Len(rest) = Len(bs) - 1 /\ Len(bs) \in Nat
      /\ \A i \in 1..Len(rest) : rest[i] = bs[i + 1] /\ i + 1 \in 1..Len(bs)
  BY TailIs
<1> HIDE DEF rest
<1>2. \A i \in 1..Len(rest) : i + 1 # 1
  BY <1>1
<1>3. \A i, j \in 1..Len(rest) : i < j => i + 1 < j + 1
  BY <1>1
<1>4. Lined(line, g, q, rest, FALSE)
  BY <1>1, <1>2, <1>3 DEF Lined
<1> QED
  BY <1>4 DEF rest

-----------------------------------------------------------------------------
(* The inductive invariant *)

Typed ==
    /\ receipts \in [Named -> {"none", "pending", "completed"}]
    /\ calls \in [Named -> CallSteps]
    /\ repeats \in [Named -> 0..MaxSends] /\ sends \in 0..MaxSends
    /\ quiet \in Seq(Enqueued) /\ batches \in Seq(Batch)
    /\ handed \in BOOLEAN /\ made \in Nat
    /\ outcome \in [Enqueued -> {"none", "waiting", "resolved", "rejected"}]
    /\ delivery \in {"open", "closing", "closed"} /\ awaited \in Nat
    /\ admitted \in Seq(Enqueued) /\ got \in Seq(Enqueued)
    /\ times \in [Message -> Nat]

InLine == Lined(admitted, got, quiet, batches, handed)

Numbered ==
    /\ \A k \in 1..Len(batches) : batches[k].number = made - Len(batches) + k
    /\ Len(batches) <= made
    /\ lastDispatch = (IF batches = <<>> THEN 0 ELSE made)
    /\ delivery # "open" => quiet = <<>>
    /\ delivery = "closing" /\ batches # <<>> => awaited = made
    /\ delivery = "closed" => batches = <<>>
    /\ handed => batches # <<>>

\* What a receipt and the place of a call say of the message
CallSound(m) ==
    /\ calls[m] \in {"prepare", "mark"} => receipts[m] = "none"
    /\ receipts[m] = "none" => calls[m] \in {"idle", "read", "prepare", "mark"}
    /\ receipts[m] = "none" \/ calls[m] = "send" => times[m] = 0 /\ ~Among(m, admitted)
    /\ receipts[m] = "completed" \/ calls[m] = "complete" => times[m] = 1
    /\ times[m] <= 1
    /\ m \in Queued /\ outcome[m] = "resolved" => times[m] = 1

\* A message that waits to be delivered never was, one of the running dispatch was once
QueueSound(m) ==
    /\ Among(m, quiet) => times[m] = 0
    /\ \A k \in 1..Len(batches) :
          Among(m, batches[k].messages) => times[m] = IF handed /\ k = 1 THEN 1 ELSE 0

OutcomeSound(m) ==
    /\ outcome[m] = "none" => ~Among(m, admitted)
    /\ outcome[m] = "waiting" =>
          Among(m, quiet) \/ \E k \in 1..Len(batches) : Among(m, batches[k].messages)

MessagesInv ==
    /\ Typed /\ InLine /\ Numbered
    /\ \A m \in Named : CallSound(m) /\ QueueSound(m) /\ repeats[m] <= sends
    /\ \A m \in Enqueued : OutcomeSound(m)

LEMMA SetsOfMessages ==
    /\ Queued \cap Direct = {} /\ Named \cap Notices = {} /\ Enqueued \subseteq Message
    /\ Named \subseteq Message /\ Queued \subseteq Named /\ Queued \subseteq Enqueued
    /\ Direct \cap Enqueued = {} /\ Direct \subseteq Named /\ Notices \subseteq Enqueued
    /\ Named \cap Enqueued = Queued /\ MaxSends \in Nat \ {0} /\ MaxRestarts \in Nat
BY MessagesAssumption DEF Named, Enqueued, Message

-----------------------------------------------------------------------------
(* Steps of the calls *)

\* The delivery stays as it is
Rests == UNCHANGED <<quiet, batches, handed, lastDispatch, made, outcome, delivery, awaited,
                     admitted, got>>

CallsTyped ==
    /\ receipts \in [Named -> {"none", "pending", "completed"}]
    /\ calls \in [Named -> CallSteps]
    /\ repeats \in [Named -> 0..MaxSends] /\ sends \in 0..MaxSends
    /\ times \in [Message -> Nat]
    /\ \A m \in Named : repeats[m] <= sends

LEMMA CallStep ==
    ASSUME MessagesInv, Rests, CallsTyped',
           \A m \in Named : CallSound(m)' /\ QueueSound(m)'
    PROVE  MessagesInv'
<1>1. Typed'
  BY DEF MessagesInv, Typed, Rests, CallsTyped
<1>2. InLine'
  BY DEF MessagesInv, InLine, Rests
<1>3. Numbered'
  BY DEF MessagesInv, Numbered, Rests
<1>4. \A m \in Enqueued : OutcomeSound(m)'
  BY DEF MessagesInv, OutcomeSound, Rests
<1> QED
  BY <1>1, <1>2, <1>3, <1>4 DEF MessagesInv, CallsTyped

LEMMA CallMoves ==
    ASSUME MessagesInv, NEW m \in Named
    PROVE  /\ \A place \in CallSteps : CallGoes(m, place) =>
                 /\ calls' \in [Named -> CallSteps] /\ repeats' = repeats
                 /\ calls'[m] = place /\ \A x \in Named : x # m => calls'[x] = calls[x]
           /\ CallEnds(m) =>
                 /\ calls' \in [Named -> CallSteps] /\ repeats' \in [Named -> 0..MaxSends]
                 /\ \A x \in Named : repeats'[x] <= sends
                 /\ calls'[m] \in {"idle", "read"} /\ \A x \in Named : x # m => calls'[x] = calls[x]
<1>1. /\ calls \in [Named -> CallSteps] /\ repeats \in [Named -> 0..MaxSends] /\ MaxSends \in Nat
      /\ \A x \in Named : repeats[x] <= sends /\ sends \in Nat
  BY SetsOfMessages DEF MessagesInv, Typed
<1>2. ASSUME NEW place \in CallSteps, CallGoes(m, place)
      PROVE  /\ calls' \in [Named -> CallSteps] /\ repeats' = repeats
             /\ calls'[m] = place /\ \A x \in Named : x # m => calls'[x] = calls[x]
  BY <1>1, <1>2 DEF CallGoes
<1>3. "read" \in CallSteps /\ "idle" \in CallSteps
  BY DEF CallSteps
<1>4. ASSUME CallEnds(m), repeats[m] > 0
      PROVE  /\ calls' \in [Named -> CallSteps] /\ repeats' \in [Named -> 0..MaxSends]
             /\ \A x \in Named : repeats'[x] <= sends
             /\ calls'[m] \in {"idle", "read"} /\ \A x \in Named : x # m => calls'[x] = calls[x]
  <2>1. calls' = [calls EXCEPT ![m] = "read"] /\ repeats' = [repeats EXCEPT ![m] = repeats[m] - 1]
    BY <1>4 DEF CallEnds
  <2>2. repeats[m] - 1 \in 0..MaxSends /\ repeats[m] - 1 <= sends
    BY <1>1, <1>4
  <2> QED
    BY <1>1, <1>3, <2>1, <2>2
<1>5. ASSUME CallEnds(m), ~(repeats[m] > 0)
      PROVE  /\ calls' \in [Named -> CallSteps] /\ repeats' \in [Named -> 0..MaxSends]
             /\ \A x \in Named : repeats'[x] <= sends
             /\ calls'[m] \in {"idle", "read"} /\ \A x \in Named : x # m => calls'[x] = calls[x]
  <2>1. calls' = [calls EXCEPT ![m] = "idle"] /\ repeats' = repeats
    BY <1>5 DEF CallEnds
  <2> QED
    BY <1>1, <1>3, <2>1
<1> QED
  BY <1>2, <1>4, <1>5

\* A call of m that leaves the receipts and what the provider has
LEMMA OneCallMoves ==
    ASSUME MessagesInv, Rests, NEW m \in Named, UNCHANGED <<receipts, times, sends>>,
           \/ CallEnds(m)
           \/ \E place \in CallSteps :
                 /\ CallGoes(m, place)
                 /\ \/ place \in {"prepare", "mark"} /\ receipts[m] = "none"
                    \/ place = "complete" /\ times[m] = 1 /\ receipts[m] # "none"
    PROVE  MessagesInv'
<1>1. /\ calls' \in [Named -> CallSteps] /\ repeats' \in [Named -> 0..MaxSends]
      /\ \A x \in Named : repeats'[x] <= sends
      /\ \A x \in Named : x # m => calls'[x] = calls[x]
      /\ \/ calls'[m] \in {"idle", "read"}
         \/ calls'[m] \in {"prepare", "mark"} /\ receipts[m] = "none"
         \/ calls'[m] = "complete" /\ times[m] = 1 /\ receipts[m] # "none"
  <2>1. repeats \in [Named -> 0..MaxSends] /\ \A x \in Named : repeats[x] <= sends
    BY DEF MessagesInv, Typed
  <2> QED
    BY <2>1, CallMoves
<1>2. CallsTyped'
  BY <1>1 DEF CallsTyped, MessagesInv, Typed
<1>3. ASSUME NEW x \in Named PROVE CallSound(x)' /\ QueueSound(x)'
  <2>1. CallSound(x) /\ QueueSound(x)
    BY DEF MessagesInv
  <2>2. QueueSound(x)'
    BY <2>1 DEF QueueSound, Rests
  <2>3. CallSound(x)'
    <3>1. CASE x # m
      BY <1>1, <2>1, <3>1 DEF CallSound, Rests
    <3>2. CASE x = m
      BY <1>1, <2>1, <3>2 DEF CallSound, Rests
    <3> QED
      BY <3>1, <3>2
  <2> QED
    BY <2>2, <2>3
<1> QED
  BY <1>2, <1>3, CallStep

LEMMA SendStep ==
    ASSUME MessagesInv, NEW m \in Named, Send(m)
    PROVE  MessagesInv'
<1>1. /\ sends < MaxSends /\ sends' = sends + 1 /\ UNCHANGED <<receipts, times>> /\ Rests
      /\ IF calls[m] = "idle"
         THEN calls' = [calls EXCEPT ![m] = "read"] /\ UNCHANGED repeats
         ELSE repeats' = [repeats EXCEPT ![m] = repeats[m] + 1] /\ UNCHANGED calls
  BY DEF Send, Rests, dispatch, closing, provider
<1>2. /\ calls \in [Named -> CallSteps] /\ repeats \in [Named -> 0..MaxSends] /\ MaxSends \in Nat
      /\ \A x \in Named : repeats[x] <= sends /\ sends \in 0..MaxSends
  BY SetsOfMessages DEF MessagesInv, Typed
<1>3. /\ calls' \in [Named -> CallSteps]
      /\ \A x \in Named : calls'[x] = calls[x] \/ (calls[x] = "idle" /\ calls'[x] = "read")
  <2>1. CASE calls[m] = "idle"
    BY <1>1, <1>2, <2>1 DEF CallSteps
  <2>2. CASE calls[m] # "idle"
    BY <1>1, <1>2, <2>2
  <2> QED
    BY <2>1, <2>2
<1>4. repeats' \in [Named -> 0..MaxSends] /\ \A x \in Named : repeats'[x] <= sends'
  <2>1. sends' \in Nat /\ \A x \in Named : repeats[x] \in Nat /\ repeats[x] <= sends' /\ repeats[x] + 1 <= sends'
                                           /\ repeats[x] + 1 \in 0..MaxSends
    BY <1>1, <1>2
  <2>2. CASE calls[m] = "idle"
    BY <1>1, <1>2, <2>1, <2>2
  <2>3. CASE calls[m] # "idle"
    BY <1>1, <1>2, <2>1, <2>3
  <2> QED
    BY <2>2, <2>3
<1>5. sends' \in 0..MaxSends
  BY <1>1, <1>2
<1>6. CallsTyped'
  BY <1>1, <1>3, <1>4, <1>5 DEF CallsTyped, MessagesInv, Typed
<1>7. ASSUME NEW x \in Named PROVE CallSound(x)' /\ QueueSound(x)'
  <2>1. CallSound(x) /\ QueueSound(x)
    BY DEF MessagesInv
  <2>2. QueueSound(x)'
    BY <1>1, <2>1 DEF QueueSound, Rests
  <2>3. CallSound(x)'
    BY <1>1, <1>3, <2>1 DEF CallSound, Rests
  <2> QED
    BY <2>2, <2>3
<1> QED
  BY <1>1, <1>6, <1>7, CallStep

LEMMA ReadsStep ==
    ASSUME MessagesInv, NEW m \in Named, ReadsReceipt(m)
    PROVE  MessagesInv'
<1>1. Rests /\ UNCHANGED <<receipts, times, sends>>
  BY DEF ReadsReceipt, Rests, dispatch, closing, provider
<1>2. \/ CallEnds(m)
      \/ CallGoes(m, "prepare") /\ receipts[m] = "none"
      \/ CallGoes(m, "mark") /\ receipts[m] = "none"
  BY DEF ReadsReceipt
<1>3. "prepare" \in CallSteps /\ "mark" \in CallSteps
  BY DEF CallSteps
<1>4. ASSUME NEW place \in {"prepare", "mark"}, CallGoes(m, place), receipts[m] = "none" PROVE MessagesInv'
  BY <1>1, <1>3, <1>4, OneCallMoves
<1>5. CASE CallEnds(m)
  BY <1>1, <1>5, OneCallMoves
<1> QED
  BY <1>2, <1>4, <1>5

LEMMA PreparesStep ==
    ASSUME MessagesInv, NEW m \in Named, Prepares(m)
    PROVE  MessagesInv'
<1>1. Rests /\ UNCHANGED <<receipts, times, sends>>
  BY DEF Prepares, Rests, dispatch, closing, provider
<1>2. CallEnds(m) \/ (CallGoes(m, "mark") /\ receipts[m] = "none")
  BY DEF Prepares, MessagesInv, CallSound
<1>3. "mark" \in CallSteps
  BY DEF CallSteps
<1>4. CASE CallGoes(m, "mark") /\ receipts[m] = "none"
  BY <1>1, <1>3, <1>4, OneCallMoves
<1>5. CASE CallEnds(m)
  BY <1>1, <1>5, OneCallMoves
<1> QED
  BY <1>2, <1>4, <1>5

LEMMA AwaitsStep ==
    ASSUME MessagesInv, NEW m \in Named, Awaits(m)
    PROVE  MessagesInv'
<1>1. Rests /\ UNCHANGED <<receipts, times, sends>>
  BY DEF Awaits, Rests, dispatch, closing, provider
<1>2. CallEnds(m) \/ (CallGoes(m, "complete") /\ times[m] = 1 /\ receipts[m] # "none")
  <2>1. m \in Queued /\ calls[m] = "await" /\ CallSound(m)
    BY DEF Awaits, MessagesInv
  <2>2. receipts[m] # "none" /\ (outcome[m] = "resolved" => times[m] = 1)
    BY <2>1 DEF CallSound
  <2> QED
    BY <2>2 DEF Awaits
<1>3. "complete" \in CallSteps
  BY DEF CallSteps
<1> QED
  BY <1>1, <1>2, <1>3, OneCallMoves

LEMMA WritesStep ==
    ASSUME MessagesInv, NEW m \in Named, MarksPending(m) \/ Completes(m)
    PROVE  MessagesInv'
<1>1. Rests /\ UNCHANGED <<times, sends>>
  BY DEF MarksPending, Completes, WritesReceipt, Rests, dispatch, closing, provider
<1>2. CASE UNCHANGED receipts /\ CallEnds(m)
  BY <1>1, <1>2, OneCallMoves
<1>3. CASE ~(UNCHANGED receipts /\ CallEnds(m))
  <2>1. \/ /\ calls[m] = "mark" /\ receipts' = [receipts EXCEPT ![m] = "pending"]
           /\ CallGoes(m, "send")
        \/ /\ calls[m] = "complete" /\ receipts' = [receipts EXCEPT ![m] = "completed"]
           /\ CallEnds(m)
    BY <1>3 DEF MarksPending, Completes, WritesReceipt
  <2>2. receipts \in [Named -> {"none", "pending", "completed"}] /\ "send" \in CallSteps
        /\ repeats \in [Named -> 0..MaxSends] /\ \A x \in Named : repeats[x] <= sends
    BY DEF MessagesInv, Typed, CallSteps
  <2>3. /\ calls' \in [Named -> CallSteps] /\ repeats' \in [Named -> 0..MaxSends]
        /\ \A x \in Named : repeats'[x] <= sends
        /\ \A x \in Named : x # m => calls'[x] = calls[x] /\ receipts'[x] = receipts[x]
        /\ receipts' \in [Named -> {"none", "pending", "completed"}]
        /\ \/ calls[m] = "mark" /\ receipts'[m] = "pending" /\ calls'[m] = "send"
           \/ calls[m] = "complete" /\ receipts'[m] = "completed" /\ calls'[m] \in {"idle", "read"}
    BY <2>1, <2>2, CallMoves
  <2>4. CallsTyped'
    BY <1>1, <2>3 DEF CallsTyped, MessagesInv, Typed
  <2>5. ASSUME NEW x \in Named PROVE CallSound(x)' /\ QueueSound(x)'
    <3>1. CallSound(x) /\ QueueSound(x)
      BY DEF MessagesInv
    <3>2. QueueSound(x)'
      BY <1>1, <3>1 DEF QueueSound, Rests
    <3>3. CallSound(x)'
      <4>1. CASE x # m
        BY <1>1, <2>3, <3>1, <4>1 DEF CallSound, Rests
      <4>2. CASE x = m
        BY <1>1, <2>3, <3>1, <4>2 DEF CallSound, Rests
      <4> QED
        BY <4>1, <4>2
    <3> QED
      BY <3>2, <3>3
  <2> QED
    BY <1>1, <2>4, <2>5, CallStep
<1> QED
  BY <1>2, <1>3

LEMMA SendsDirectlyStep ==
    ASSUME MessagesInv, NEW m \in Named, SendsDirectly(m)
    PROVE  MessagesInv'
<1>1. m \in Direct /\ calls[m] = "send" /\ Rests /\ UNCHANGED <<receipts, sends>>
  BY DEF SendsDirectly, Rests, dispatch, closing
<1>2. CASE UNCHANGED times /\ CallEnds(m)
  BY <1>1, <1>2, OneCallMoves
<1>3. CASE ~(UNCHANGED times /\ CallEnds(m))
  <2>1. Gets(<<m>>) /\ (CallGoes(m, "complete") \/ CallEnds(m))
    BY <1>3 DEF SendsDirectly
  <2>2. /\ calls[m] = "send" /\ m \in Direct /\ "complete" \in CallSteps
        /\ repeats \in [Named -> 0..MaxSends] /\ \A x \in Named : repeats[x] <= sends
        /\ times \in [Message -> Nat]
    BY <1>1 DEF MessagesInv, Typed, CallSteps
  <2>3. \A x : Contains(<<m>>, x) <=> x = m
    BY DEF Contains
  <2>4. /\ times' \in [Message -> Nat]
        /\ \A x \in Message : times'[x] = IF x = m THEN times[x] + 1 ELSE times[x]
    BY <2>1, <2>2, <2>3 DEF Gets
  <2>5. /\ calls' \in [Named -> CallSteps] /\ repeats' \in [Named -> 0..MaxSends]
        /\ \A x \in Named : repeats'[x] <= sends
        /\ \A x \in Named : x # m => calls'[x] = calls[x]
        /\ calls'[m] \in {"idle", "read", "complete"}
    BY <2>1, <2>2, CallMoves
  <2>6. CallsTyped'
    BY <1>1, <2>4, <2>5 DEF CallsTyped, MessagesInv, Typed
  <2>7. ASSUME NEW x \in Named PROVE CallSound(x)' /\ QueueSound(x)'
    <3>1. CallSound(x) /\ QueueSound(x) /\ x \in Message
      BY SetsOfMessages DEF MessagesInv
    <3>2. CASE x # m
      <4>1. times'[x] = times[x] /\ calls'[x] = calls[x]
        BY <2>4, <2>5, <3>1, <3>2
      <4> QED
        BY <1>1, <3>1, <4>1 DEF CallSound, QueueSound, Rests
    <3>3. CASE x = m
      <4>1. times[x] = 0 /\ times'[x] = 1 /\ receipts[x] # "none" /\ ~Among(x, admitted)
        BY <1>1, <2>4, <3>1, <3>3 DEF CallSound
      <4>2. x \notin Queued /\ x \notin Enqueued
        BY <1>1, <3>3, SetsOfMessages
      <4>3. CallSound(x)'
        BY <1>1, <2>5, <3>3, <4>1, <4>2 DEF CallSound, Rests
      <4>4. ~Among(x, quiet) /\ \A k \in 1..Len(batches) : ~Among(x, batches[k].messages)
        BY <4>1 DEF MessagesInv, InLine, Lined, Taken
      <4>5. QueueSound(x)'
        BY <1>1, <4>4 DEF QueueSound, Rests
      <4> QED
        BY <4>3, <4>5
    <3> QED
      BY <3>2, <3>3
  <2> QED
    BY <1>1, <2>6, <2>7, CallStep
<1> QED
  BY <1>2, <1>3

-----------------------------------------------------------------------------
(* Steps of the delivery *)

\* Enqueue changes neither the batches nor what the provider has
LEMMA EnqueueStep ==
    ASSUME MessagesInv, NEW m \in Enqueued, Enqueue(m), delivery = "open", ~Among(m, admitted),
           UNCHANGED <<batches, handed, lastDispatch, made, delivery, awaited, got, times, receipts>>,
           m \in Named => times[m] = 0,
           calls' \in [Named -> CallSteps], repeats' \in [Named -> 0..MaxSends],
           sends' \in 0..MaxSends, \A x \in Named : repeats'[x] <= sends',
           \A x \in Named : calls'[x] = calls[x] \/ (x = m /\ calls[x] = "send" /\ calls'[x] = "await"),
           m \in Named => calls'[m] = "await" /\ receipts[m] # "none"
    PROVE  MessagesInv'
<1>1. /\ quiet' = Append(quiet, m) /\ admitted' = Append(admitted, m)
      /\ outcome' = [outcome EXCEPT ![m] = "waiting"]
      /\ quiet \in Seq(Enqueued) /\ admitted \in Seq(Enqueued) /\ got \in Seq(Enqueued)
      /\ batches \in Seq(Batch) /\ outcome \in [Enqueued -> {"none", "waiting", "resolved", "rejected"}]
  BY DEF Enqueue, MessagesInv, Typed
<1>2. /\ quiet' \in Seq(Enqueued) /\ admitted' \in Seq(Enqueued)
      /\ \A y : Among(y, quiet') <=> Among(y, quiet) \/ y = m
      /\ \A y : Among(y, admitted') <=> Among(y, admitted) \/ y = m
  BY <1>1, AppendIs
<1>3. /\ outcome' \in [Enqueued -> {"none", "waiting", "resolved", "rejected"}]
      /\ outcome'[m] = "waiting" /\ \A x \in Enqueued : x # m => outcome'[x] = outcome[x]
  BY <1>1
<1>4. Typed'
  BY <1>2, <1>3 DEF MessagesInv, Typed
<1>5. InLine'
  <2>1. Lined(admitted', got, quiet', batches, handed)
    BY <1>1, LinedEnqueues DEF MessagesInv, InLine
  <2> QED
    BY <2>1 DEF InLine
<1>6. Numbered'
  BY DEF MessagesInv, Numbered
<1>7. ASSUME NEW x \in Named PROVE CallSound(x)' /\ QueueSound(x)'
  <2>1. CallSound(x) /\ QueueSound(x) /\ (x \in Queued => x \in Enqueued)
    BY SetsOfMessages DEF MessagesInv
  <2>2. CASE x # m
    <3>1. calls'[x] = calls[x] /\ (Among(x, admitted') <=> Among(x, admitted))
          /\ (Among(x, quiet') <=> Among(x, quiet)) /\ (x \in Queued => outcome'[x] = outcome[x])
      BY <1>2, <1>3, <2>1, <2>2
    <3> QED
      BY <2>1, <3>1 DEF CallSound, QueueSound
  <2>3. CASE x = m
    <3>1. times'[x] = 0 /\ calls'[x] = "await" /\ receipts'[x] # "none" /\ outcome'[x] = "waiting"
      BY <1>3, <2>3
    <3>2. receipts'[x] # "completed"
      BY <2>1, <2>3 DEF CallSound
    <3>3. \A k \in 1..Len(batches) : ~Among(x, batches[k].messages)
      BY <2>3 DEF MessagesInv, InLine, Lined, Taken
    <3> QED
      BY <3>1, <3>2, <3>3 DEF CallSound, QueueSound
  <2> QED
    BY <2>2, <2>3
<1>8. ASSUME NEW x \in Enqueued PROVE OutcomeSound(x)'
  <2>1. OutcomeSound(x)
    BY DEF MessagesInv
  <2>2. CASE x # m
    BY <1>2, <1>3, <2>1, <2>2 DEF OutcomeSound
  <2>3. CASE x = m
    BY <1>2, <1>3, <2>3 DEF OutcomeSound
  <2> QED
    BY <2>2, <2>3
<1> QED
  BY <1>4, <1>5, <1>6, <1>7, <1>8 DEF MessagesInv

LEMMA SendsQueuedStep ==
    ASSUME MessagesInv, NEW m \in Named, SendsQueued(m)
    PROVE  MessagesInv'
<1>1. /\ m \in Queued /\ m \in Enqueued /\ calls[m] = "send" /\ CallSound(m)
      /\ UNCHANGED <<receipts, sends, batches, handed, lastDispatch, made, delivery, awaited, got, times>>
  BY SetsOfMessages DEF SendsQueued, MessagesInv, dispatch, closing, provider
<1>2. CASE delivery = "open" /\ Enqueue(m) /\ CallGoes(m, "await")
  <2>1. times[m] = 0 /\ ~Among(m, admitted) /\ receipts[m] # "none"
    BY <1>1 DEF CallSound
  <2>2. "await" \in CallSteps /\ sends \in 0..MaxSends /\ repeats \in [Named -> 0..MaxSends]
        /\ \A x \in Named : repeats[x] <= sends
    BY DEF CallSteps, MessagesInv, Typed
  <2>3. /\ calls' \in [Named -> CallSteps] /\ repeats' = repeats
        /\ calls'[m] = "await" /\ \A x \in Named : x # m => calls'[x] = calls[x]
    BY <1>2, <2>2, CallMoves
  <2>4. \A x \in Named : calls'[x] = calls[x] \/ (x = m /\ calls[x] = "send" /\ calls'[x] = "await")
    BY <1>1, <2>3
  <2> QED
    BY <1>1, <1>2, <2>1, <2>2, <2>3, <2>4, EnqueueStep
<1>3. CASE delivery # "open" /\ CallEnds(m) /\ UNCHANGED <<quiet, admitted, outcome>>
  <2>1. Rests
    BY <1>1, <1>3 DEF Rests
  <2> QED
    BY <1>1, <1>3, <2>1, OneCallMoves
<1> QED
  BY <1>2, <1>3 DEF SendsQueued

LEMMA NotifiesStep ==
    ASSUME MessagesInv, NEW m \in Notices, Notifies(m)
    PROVE  MessagesInv'
<1>1. m \in Enqueued /\ m \notin Named /\ MaxSends \in Nat
  BY SetsOfMessages
<1>2. /\ delivery = "open" /\ outcome[m] = "none" /\ Enqueue(m)
      /\ sends < MaxSends /\ sends' = sends + 1
      /\ UNCHANGED <<batches, handed, lastDispatch, made, delivery, awaited, got, times, receipts>>
      /\ UNCHANGED <<calls, repeats>>
  BY DEF Notifies, dispatch, closing, provider
<1>3. ~Among(m, admitted)
  BY <1>1, <1>2 DEF MessagesInv, OutcomeSound
<1>4. /\ calls \in [Named -> CallSteps] /\ repeats \in [Named -> 0..MaxSends]
      /\ sends \in 0..MaxSends /\ \A x \in Named : repeats[x] <= sends
  BY DEF MessagesInv, Typed
<1>5. sends' \in 0..MaxSends /\ \A x \in Named : repeats'[x] <= sends'
  BY <1>1, <1>2, <1>4
<1> QED
  BY <1>1, <1>2, <1>3, <1>4, <1>5, EnqueueStep

\* The quiet messages go to batches of their own
LEMMA FlushKeeps ==
    ASSUME MessagesInv, Flush,
           UNCHANGED <<receipts, calls, repeats, sends, outcome, admitted, got, times>>,
           delivery = "open",
           delivery' \in {"open", "closing"}, awaited' \in Nat,
           delivery' = "closing" => awaited' = lastDispatch'
    PROVE  MessagesInv'
<1>1. PICK gs : gs = Groups(quiet)
  OBVIOUS
<1>2. PICK cs : cs = [i \in 1..Len(gs) |-> [number |-> made + i, messages |-> gs[i]]]
  OBVIOUS
<1>3. PICK q : q = quiet
  OBVIOUS
<1>4. /\ quiet' = <<>> /\ batches' = batches \o cs /\ made' = made + Len(gs) /\ handed' = handed
      /\ lastDispatch' = IF gs = <<>> THEN lastDispatch ELSE made'
  BY <1>1, <1>2 DEF Flush
<1>5. /\ quiet \in Seq(Enqueued) /\ batches \in Seq(Batch) /\ made \in Nat /\ got \in Seq(Enqueued)
      /\ Len(batches) \in Nat /\ InLine /\ Numbered
  BY DEF MessagesInv, Typed
<1>6. GroupsOf(admitted, gs, quiet, Len(quiet))
  BY <1>1, <1>5, GroupsAre DEF InLine, Lined
<1>7. gs \in Seq(Seq(Enqueued)) /\ Len(gs) \in Nat /\ (gs = <<>> <=> Len(gs) = 0)
  <2>1. gs \in Seq(Seq(Enqueued))
    BY <1>6 DEF GroupsOf
  <2> QED
    BY <2>1
<1>8. /\ cs \in Seq(Batch) /\ Len(cs) = Len(gs)
      /\ \A i \in 1..Len(gs) : cs[i].messages = gs[i] /\ cs[i].number = made + i
  <2>1. \A i \in 1..Len(gs) : [number |-> made + i, messages |-> gs[i]] \in Batch
    <3>1. \A i \in 1..Len(gs) : made + i \in Nat \ {0} /\ gs[i] \in Seq(Enqueued)
      BY <1>5, <1>7
    <3> QED
      BY <3>1 DEF Batch
  <2>2. cs \in Seq(Batch) /\ Len(cs) = Len(gs)
    BY <1>2, <1>7, <2>1
  <2> QED
    BY <1>2, <2>2
<1>9. /\ batches' \in Seq(Batch) /\ Len(batches') = Len(batches) + Len(gs)
      /\ \A i \in 1..Len(batches) : batches'[i] = batches[i]
      /\ \A i \in 1..Len(gs) : batches'[Len(batches) + i] = cs[i] /\ Len(batches) + i \in 1..Len(batches')
      /\ \A i \in 1..Len(batches') : \/ i \in 1..Len(batches)
                                     \/ i - Len(batches) \in 1..Len(gs) /\ i = Len(batches) + (i - Len(batches))
      /\ \A i \in 1..Len(batches) : i \in 1..Len(batches')
  <2>1. batches \in Seq(Batch) /\ cs \in Seq(Batch)
    BY <1>5, <1>8
  <2>2. /\ batches \o cs \in Seq(Batch) /\ Len(batches \o cs) = Len(batches) + Len(cs)
        /\ \A i \in 1..Len(batches) : (batches \o cs)[i] = batches[i]
        /\ \A i \in 1..Len(cs) : (batches \o cs)[Len(batches) + i] = cs[i]
        /\ \A i \in 1..Len(batches \o cs) :
              \/ i \in 1..Len(batches)
              \/ i - Len(batches) \in 1..Len(cs) /\ i = Len(batches) + (i - Len(batches))
    BY ONLY <2>1, ConcatIs
  <2>3. /\ batches' \in Seq(Batch) /\ Len(batches') = Len(batches) + Len(gs)
        /\ \A i \in 1..Len(batches) : batches'[i] = batches[i]
        /\ \A i \in 1..Len(gs) : batches'[Len(batches) + i] = cs[i]
        /\ \A i \in 1..Len(batches') : \/ i \in 1..Len(batches)
                                       \/ i - Len(batches) \in 1..Len(gs) /\ i = Len(batches) + (i - Len(batches))
    BY <1>4, <1>8, <2>2
  <2>4. /\ \A i \in 1..Len(gs) : Len(batches) + i \in 1..Len(batches')
        /\ \A i \in 1..Len(batches) : i \in 1..Len(batches')
    BY <1>5, <1>7, <2>3
  <2> QED
    BY <2>3, <2>4
<1>10. Typed'
  <2>1. <<>> \in Seq(Enqueued)
    OBVIOUS
  <2>2. made' \in Nat
    BY <1>4, <1>5, <1>7
  <2> QED
    BY <1>4, <1>9, <2>1, <2>2 DEF MessagesInv, Typed
<1>11. InLine'
  <2>1. Lined(admitted, got, <<>>, batches \o cs, handed)
    BY <1>5, <1>6, <1>8, LinedFlushes DEF InLine
  <2> QED
    BY <1>4, <2>1 DEF InLine
<1>12. Numbered'
  <2>1. \A k \in 1..Len(batches') : batches'[k].number = made' - Len(batches') + k
    <3> SUFFICES ASSUME NEW k \in 1..Len(batches')
                 PROVE  batches'[k].number = made' - Len(batches') + k
      OBVIOUS
    <3>1. made' - Len(batches') = made - Len(batches)
      BY <1>4, <1>5, <1>7, <1>9
    <3>2. CASE k \in 1..Len(batches)
      BY <1>5, <1>9, <3>1, <3>2 DEF Numbered
    <3>3. CASE k \notin 1..Len(batches)
      <4>1. PICK i \in 1..Len(gs) : k = Len(batches) + i
        BY <1>9, <3>3
      <4>2. batches'[k].number = made + i
        BY <1>8, <1>9, <4>1
      <4>3. i \in Nat
        BY <1>7
      <4> QED
        BY <1>5, <3>1, <4>1, <4>2, <4>3
    <3> QED
      BY <3>2, <3>3
  <2>2. Len(batches') <= made'
    BY <1>4, <1>5, <1>7, <1>9 DEF Numbered
  <2>3. (batches' = <<>>) <=> (Len(batches') = 0)
    BY <1>9
  <2>4. (batches = <<>>) <=> (Len(batches) = 0)
    BY <1>5
  <2>5. lastDispatch' = IF batches' = <<>> THEN 0 ELSE made'
    <3>1. CASE Len(gs) = 0
      <4>1. Len(batches') = Len(batches) /\ made' = made /\ lastDispatch' = lastDispatch
        BY <1>4, <1>5, <1>7, <1>9, <3>1
      <4> QED
        BY <1>5, <2>3, <2>4, <4>1 DEF Numbered
    <3>2. CASE Len(gs) # 0
      <4>1. Len(batches') # 0 /\ lastDispatch' = made'
        BY <1>4, <1>5, <1>7, <1>9, <3>2
      <4> QED
        BY <2>3, <4>1
    <3> QED
      BY <3>1, <3>2
  <2>6. handed' => batches' # <<>>
    <3>1. Len(batches) # 0 => Len(batches') # 0
      BY <1>5, <1>7, <1>9
    <3> QED
      BY <1>4, <1>5, <2>3, <2>4, <3>1 DEF Numbered
  <2> QED
    BY <1>4, <2>1, <2>2, <2>5, <2>6 DEF Numbered
<1>13. ASSUME NEW x \in Named PROVE CallSound(x)' /\ QueueSound(x)'
  <2>1. CallSound(x) /\ QueueSound(x)
    BY DEF MessagesInv
  <2>2. CallSound(x)'
    BY <2>1 DEF CallSound
  <2>3. ~Among(x, quiet')
    BY <1>4 DEF Among
  <2>4. ASSUME NEW k \in 1..Len(batches'), Among(x, batches'[k].messages)
        PROVE  times'[x] = IF handed' /\ k = 1 THEN 1 ELSE 0
    <3>1. CASE k \in 1..Len(batches)
      BY <1>4, <1>9, <2>1, <2>4, <3>1 DEF QueueSound
    <3>2. CASE k \notin 1..Len(batches)
      <4>0. PICK i \in 1..Len(gs) : k = Len(batches) + i
        BY <1>9, <3>2
      <4>1. k = Len(batches) + i /\ batches'[k].messages = gs[i]
        BY <1>8, <1>9, <4>0
      <4>2. Among(x, quiet)
        BY <1>6, <2>4, <4>1 DEF GroupsOf, Among
      <4>3. handed => k # 1
        <5>1. handed => Len(batches) # 0
          BY <1>5 DEF Numbered
        <5> QED
          BY <1>5, <1>7, <4>1, <5>1
      <4> QED
        BY <1>4, <2>1, <4>2, <4>3 DEF QueueSound
    <3> QED
      BY <3>1, <3>2
  <2> QED
    BY <2>2, <2>3, <2>4 DEF QueueSound
<1>14. ASSUME NEW x \in Enqueued PROVE OutcomeSound(x)'
  <2>1. OutcomeSound(x)
    BY DEF MessagesInv
  <2>2. ASSUME Among(x, quiet) PROVE \E k \in 1..Len(batches') : Among(x, batches'[k].messages)
    <3>1. PICK j \in 1..Len(quiet) : quiet[j] = x
      BY <2>2 DEF Among
    <3>2. PICK i \in 1..Len(gs) : Among(x, gs[i])
      BY <1>6, <3>1 DEF GroupsOf
    <3> QED
      BY <1>8, <1>9, <3>2
  <2>3. ASSUME NEW k \in 1..Len(batches), Among(x, batches[k].messages)
        PROVE  \E l \in 1..Len(batches') : Among(x, batches'[l].messages)
    BY <1>9, <2>3
  <2> QED
    BY <2>1, <2>2, <2>3 DEF OutcomeSound
<1> QED
  BY <1>10, <1>11, <1>12, <1>13, <1>14 DEF MessagesInv

LEMMA QuietEndsStep ==
    ASSUME MessagesInv, QuietEnds
    PROVE  MessagesInv'
<1>1. /\ quiet # <<>> /\ Flush
      /\ UNCHANGED <<receipts, calls, repeats, sends, outcome, admitted, got, times>>
      /\ UNCHANGED <<delivery, awaited>>
  BY DEF QuietEnds, sending, closing, provider
<1>2. delivery = "open" /\ awaited \in Nat
  BY <1>1 DEF MessagesInv, Typed, Numbered
<1> QED
  BY <1>1, <1>2, FlushKeeps

LEMMA CloseBeginsStep ==
    ASSUME MessagesInv, CloseBegins
    PROVE  MessagesInv'
<1>1. /\ delivery = "open" /\ delivery' = "closing" /\ Flush /\ awaited' = lastDispatch'
      /\ UNCHANGED <<receipts, calls, repeats, sends, outcome, admitted, got, times>>
  BY DEF CloseBegins, sending, closing, provider
<1>2. lastDispatch' \in Nat
  <2>1. lastDispatch \in Nat /\ made \in Nat /\ Len(Groups(quiet)) \in Nat
    <3>1. GroupsOf(admitted, Groups(quiet), quiet, Len(quiet))
      BY GroupsAre DEF MessagesInv, Typed, InLine, Lined
    <3> QED
      BY <3>1 DEF GroupsOf, MessagesInv, Typed, Numbered
  <2> QED
    BY <1>1, <2>1 DEF Flush
<1> QED
  BY <1>1, <1>2, FlushKeeps


LEMMA DeliversStep ==
    ASSUME MessagesInv, Delivers
    PROVE  MessagesInv'
<1>1. PICK b : b = batches[1].messages
  OBVIOUS
<1>2. /\ batches \in Seq(Batch) /\ got \in Seq(Enqueued) /\ quiet \in Seq(Enqueued)
      /\ times \in [Message -> Nat] /\ InLine
  BY DEF MessagesInv, Typed
<1>3. /\ batches # <<>> /\ ~handed /\ handed' = TRUE /\ Gets(Head(batches).messages)
      /\ got' = got \o Head(batches).messages
      /\ UNCHANGED <<receipts, calls, repeats, sends, quiet, batches, lastDispatch, made, outcome,
                     delivery, awaited, admitted>>
  BY DEF Delivers, sending, closing
<1>4. Head(batches) = batches[1] /\ batches[1] \in Batch /\ 1 \in 1..Len(batches)
  BY <1>2, <1>3, TailIs
<1>5. b \in Seq(Enqueued) /\ Head(batches).messages = b
  BY <1>1, <1>4 DEF Batch
<1>6. /\ times' \in [Message -> Nat]
      /\ \A x \in Message : times'[x] = times[x] + (IF Among(x, b) THEN 1 ELSE 0)
  <2>1. times' = [x \in Message |-> times[x] + (IF Among(x, b) THEN 1 ELSE 0)]
    BY <1>3, <1>5 DEF Gets, Contains, Among
  <2> QED
    BY <1>2, <2>1
<1>7. got' \in Seq(Enqueued)
  BY <1>2, <1>3, <1>5, ConcatIs
<1>8. Typed'
  BY <1>3, <1>6, <1>7 DEF MessagesInv, Typed
<1>9. InLine'
  <2>1. handed = FALSE
    BY <1>3 DEF MessagesInv, Typed
  <2>2. Lined(admitted, got \o b, quiet, batches, TRUE)
    BY <1>1, <1>2, <1>3, <2>1, LinedDelivers DEF InLine
  <2> QED
    BY <1>3, <1>5, <2>2 DEF InLine
<1>10. Numbered'
  BY <1>3 DEF MessagesInv, Numbered
<1>11. ASSUME NEW x \in Named PROVE CallSound(x)' /\ QueueSound(x)'
  <2>1. CallSound(x) /\ QueueSound(x) /\ x \in Message
    BY SetsOfMessages DEF MessagesInv
  <2>2. CASE ~Among(x, b)
    <3>1. times'[x] = times[x]
      BY <1>2, <1>6, <2>1, <2>2
    <3>2. CallSound(x)'
      BY <1>3, <2>1, <3>1 DEF CallSound
    <3>3. QueueSound(x)'
      BY <1>1, <1>3, <2>1, <2>2, <3>1 DEF QueueSound
    <3> QED
      BY <3>2, <3>3
  <2>3. CASE Among(x, b)
    <3>1. times[x] = 0
      BY <1>1, <1>3, <1>4, <2>1, <2>3 DEF QueueSound
    <3>2. times'[x] = 1
      BY <1>6, <2>1, <2>3, <3>1
    <3>3. Among(x, admitted)
      BY <1>1, <1>2, <1>4, <2>3 DEF InLine, Lined, Taken
    <3>4. CallSound(x)'
      BY <1>3, <2>1, <3>2, <3>3 DEF CallSound
    <3>5. ~Earlier(admitted, x, x)
      <4>1. admitted \in Seq(Enqueued)
        BY DEF MessagesInv, Typed
      <4> QED
        BY <3>3, <4>1 DEF Earlier, Among
    <3>6. ~Among(x, quiet)
      BY <1>1, <1>2, <1>4, <2>3, <3>5 DEF InLine, Lined, Before
    <3>7. \A k \in 1..Len(batches) : k # 1 => ~Among(x, batches[k].messages)
      <4>1. \A k \in 1..Len(batches) : k # 1 => 1 < k
        BY <1>2
      <4> QED
        BY <1>1, <1>2, <1>4, <2>3, <3>5, <4>1 DEF InLine, Lined, Before
    <3>8. QueueSound(x)'
      BY <1>3, <3>2, <3>6, <3>7 DEF QueueSound
    <3> QED
      BY <3>4, <3>8
  <2> QED
    BY <2>2, <2>3
<1>12. \A x \in Enqueued : OutcomeSound(x)'
  BY <1>3 DEF MessagesInv, OutcomeSound
<1>13. \A x \in Named : repeats'[x] <= sends'
  BY <1>3 DEF MessagesInv
<1> QED
  BY <1>8, <1>9, <1>10, <1>11, <1>12, <1>13 DEF MessagesInv

LEMMA SettlesStep ==
    ASSUME MessagesInv, NEW how \in {"resolved", "rejected"}, DispatchSettles(how)
    PROVE  MessagesInv'
<1>1. PICK b : b = batches[1].messages
  OBVIOUS
<1>2. /\ batches \in Seq(Batch) /\ made \in Nat /\ InLine /\ Numbered
      /\ outcome \in [Enqueued -> {"none", "waiting", "resolved", "rejected"}]
  BY DEF MessagesInv, Typed
<1>3. /\ batches # <<>> /\ (how = "resolved" => handed)
      /\ outcome' = [m \in Enqueued |-> IF Contains(Head(batches).messages, m) THEN how ELSE outcome[m]]
      /\ batches' = Tail(batches) /\ handed' = FALSE
      /\ lastDispatch' = IF lastDispatch = Head(batches).number THEN 0 ELSE lastDispatch
      /\ UNCHANGED <<receipts, calls, repeats, sends, quiet, made, delivery, awaited, admitted, got, times>>
  BY DEF DispatchSettles, sending, closing, provider
<1>4. /\ Head(batches) = batches[1] /\ batches[1] \in Batch /\ 1 \in 1..Len(batches)
      /\ batches' \in Seq(Batch) /\ Len(batches') = Len(batches) - 1 /\ Len(batches) \in Nat \ {0}
      /\ \A i \in 1..Len(batches') : batches'[i] = batches[i + 1] /\ i + 1 \in 1..Len(batches)
  BY <1>2, <1>3, TailIs
<1>5. /\ outcome' \in [Enqueued -> {"none", "waiting", "resolved", "rejected"}]
      /\ \A x \in Enqueued : outcome'[x] = IF Among(x, b) THEN how ELSE outcome[x]
  <2>1. outcome' = [x \in Enqueued |-> IF Among(x, b) THEN how ELSE outcome[x]]
    BY <1>1, <1>3, <1>4 DEF Contains, Among
  <2> QED
    BY <1>2, <2>1
<1>6. Typed'
  BY <1>3, <1>4, <1>5 DEF MessagesInv, Typed
<1>7. InLine'
  BY <1>2, <1>3, LinedSettles DEF InLine
<1>8. \A i \in 1..Len(batches') : i \in Nat /\ i + 1 # 1
  BY <1>4
<1>9. Numbered'
  <2>1. \A k \in 1..Len(batches') : batches'[k].number = made' - Len(batches') + k
    <3> SUFFICES ASSUME NEW k \in 1..Len(batches')
                 PROVE  batches'[k].number = made' - Len(batches') + k
      OBVIOUS
    <3>1. batches'[k].number = made - Len(batches) + (k + 1)
      BY <1>2, <1>4 DEF Numbered
    <3> QED
      BY <1>2, <1>3, <1>4, <1>8, <3>1
  <2>2. Len(batches') <= made'
    BY <1>2, <1>3, <1>4 DEF Numbered
  <2>3. (batches' = <<>>) <=> (Len(batches') = 0)
    BY <1>4
  <2>4. lastDispatch' = IF batches' = <<>> THEN 0 ELSE made'
    <3>1. lastDispatch = made /\ Head(batches).number = made - Len(batches) + 1
      BY <1>2, <1>3, <1>4 DEF Numbered
    <3>2. (lastDispatch = Head(batches).number) <=> (Len(batches') = 0)
      BY <1>2, <1>4, <3>1
    <3> QED
      BY <1>3, <2>3, <3>1, <3>2
  <2> QED
    BY <1>2, <1>3, <2>1, <2>2, <2>4 DEF Numbered
<1>10. ASSUME NEW x \in Named PROVE CallSound(x)' /\ QueueSound(x)'
  <2>1. CallSound(x) /\ QueueSound(x) /\ (x \in Queued => x \in Enqueued)
    BY SetsOfMessages DEF MessagesInv
  <2>2. Among(x, b) /\ handed => times[x] = 1
    BY <1>1, <1>4, <2>1 DEF QueueSound
  <2>3. x \in Queued /\ outcome'[x] = "resolved" => times[x] = 1
    BY <1>3, <1>5, <2>1, <2>2 DEF CallSound
  <2>4. CallSound(x)'
    BY <1>3, <2>1, <2>3 DEF CallSound
  <2>5. QueueSound(x)'
    BY <1>3, <1>4, <1>8, <2>1 DEF QueueSound
  <2> QED
    BY <2>4, <2>5
<1>11. ASSUME NEW x \in Enqueued PROVE OutcomeSound(x)'
  <2>1. OutcomeSound(x)
    BY DEF MessagesInv
  <2>2. CASE Among(x, b)
    <3>1. outcome'[x] \in {"resolved", "rejected"}
      BY <1>5, <2>2
    <3> QED
      BY <3>1 DEF OutcomeSound
  <2>3. CASE ~Among(x, b)
    <3>1. ASSUME NEW k \in 1..Len(batches), Among(x, batches[k].messages)
          PROVE  \E l \in 1..Len(batches') : Among(x, batches'[l].messages)
      <4>1. k # 1
        BY <1>1, <2>3, <3>1
      <4>2. k - 1 \in 1..Len(batches') /\ k - 1 + 1 = k
        BY <1>4, <4>1
      <4> QED
        BY <1>4, <3>1, <4>2
    <3>2. outcome'[x] = outcome[x]
      BY <1>5, <2>3
    <3> QED
      BY <1>3, <2>1, <3>1, <3>2 DEF OutcomeSound
  <2> QED
    BY <2>2, <2>3
<1>12. \A x \in Named : repeats'[x] <= sends'
  BY <1>3 DEF MessagesInv
<1> QED
  BY <1>6, <1>7, <1>9, <1>10, <1>11, <1>12 DEF MessagesInv

LEMMA CloseEndsStep ==
    ASSUME MessagesInv, CloseEnds
    PROVE  MessagesInv'
<1>1. /\ delivery = "closing" /\ delivery' = "closed"
      /\ \A i \in DOMAIN batches : batches[i].number # awaited
      /\ UNCHANGED <<receipts, calls, repeats, sends, quiet, batches, handed, lastDispatch, made,
                     outcome, awaited, admitted, got, times>>
  BY DEF CloseEnds, sending, dispatch, provider
<1>2. batches \in Seq(Batch) /\ made \in Nat /\ Len(batches) \in Nat /\ Numbered
  BY DEF MessagesInv, Typed
<1>3. batches = <<>>
  <2> SUFFICES ASSUME batches # <<>> PROVE FALSE
    OBVIOUS
  <2>1. Len(batches) \in 1..Len(batches) /\ Len(batches) \in DOMAIN batches
    BY <1>2
  <2>2. batches[Len(batches)].number = made - Len(batches) + Len(batches) /\ awaited = made
    BY <1>1, <1>2, <2>1 DEF Numbered
  <2>3. made - Len(batches) + Len(batches) = made
    BY <1>2
  <2> QED
    BY <1>1, <2>1, <2>2, <2>3
<1>4. Typed'
  BY <1>1 DEF MessagesInv, Typed
<1>5. InLine'
  BY <1>1 DEF MessagesInv, InLine
<1>6. Numbered'
  BY <1>1, <1>2, <1>3 DEF Numbered
<1>7. \A m \in Named : CallSound(m)' /\ QueueSound(m)' /\ (repeats[m] <= sends)'
  BY <1>1 DEF MessagesInv, CallSound, QueueSound
<1>8. \A m \in Enqueued : OutcomeSound(m)'
  BY <1>1 DEF MessagesInv, OutcomeSound
<1> QED
  BY <1>4, <1>5, <1>6, <1>7, <1>8 DEF MessagesInv

\* A daemon that just started, whatever its receipts say
JustStarted ==
    /\ calls = [m \in Named |-> "idle"] /\ repeats = [m \in Named |-> 0]
    /\ quiet = <<>> /\ batches = <<>> /\ handed = FALSE /\ lastDispatch = 0 /\ made = 0
    /\ outcome = Fresh /\ delivery = "open" /\ awaited = 0 /\ admitted = <<>> /\ got = <<>>
    /\ receipts \in [Named -> {"none", "pending", "completed"}] /\ sends \in 0..MaxSends
    /\ times \in [Message -> Nat]
    /\ \A m \in Named : /\ times[m] <= 1
                        /\ receipts[m] = "none" => times[m] = 0
                        /\ receipts[m] = "completed" => times[m] = 1

LEMMA FreshIs == JustStarted => MessagesInv
<1> SUFFICES ASSUME JustStarted PROVE MessagesInv
  OBVIOUS
<1>0. /\ calls = [m \in Named |-> "idle"] /\ repeats = [m \in Named |-> 0]
      /\ quiet = <<>> /\ batches = <<>> /\ handed = FALSE /\ lastDispatch = 0 /\ made = 0
      /\ outcome = Fresh /\ delivery = "open" /\ awaited = 0 /\ admitted = <<>> /\ got = <<>>
      /\ receipts \in [Named -> {"none", "pending", "completed"}] /\ sends \in 0..MaxSends
      /\ times \in [Message -> Nat]
      /\ \A m \in Named : /\ times[m] <= 1
                          /\ receipts[m] = "none" => times[m] = 0
                          /\ receipts[m] = "completed" => times[m] = 1
  BY DEF JustStarted
<1>1. MaxSends \in Nat /\ \A m \in Named : repeats[m] = 0 /\ calls[m] = "idle"
  BY <1>0, SetsOfMessages
<1>2. Typed
  <2>1. <<>> \in Seq(Enqueued) /\ <<>> \in Seq(Batch)
    OBVIOUS
  <2>2. outcome \in [Enqueued -> {"none", "waiting", "resolved", "rejected"}]
    BY <1>0 DEF Fresh
  <2>3. calls \in [Named -> CallSteps] /\ repeats \in [Named -> 0..MaxSends]
    <3>1. "idle" \in CallSteps /\ 0 \in 0..MaxSends
      BY <1>1 DEF CallSteps
    <3> QED
      BY <1>0, <3>1
  <2> QED
    BY <1>0, <2>1, <2>2, <2>3 DEF Typed
<1>3. Len(<<>>) = 0 /\ \A x : ~Among(x, <<>>)
  BY DEF Among
<1>4. InLine
  BY <1>0, <1>3 DEF InLine, Lined, Once, Taken, Rising, Before
<1>5. Numbered
  BY <1>0, <1>3 DEF Numbered
<1>6. \A m \in Named : CallSound(m) /\ QueueSound(m) /\ repeats[m] <= sends
  <2>1. \A m \in Named : m \in Queued => outcome[m] = "none"
    BY <1>0, SetsOfMessages DEF Fresh
  <2> QED
    BY <1>0, <1>1, <1>3, <2>1 DEF CallSound, QueueSound
<1>7. \A m \in Enqueued : OutcomeSound(m)
  BY <1>0, <1>3 DEF OutcomeSound, Fresh
<1> QED
  BY <1>2, <1>4, <1>5, <1>6, <1>7 DEF MessagesInv

LEMMA RestartsStep ==
    ASSUME MessagesInv, Restarts
    PROVE  MessagesInv'
<1>1. /\ calls' = [m \in Named |-> "idle"] /\ repeats' = [m \in Named |-> 0]
      /\ quiet' = <<>> /\ batches' = <<>> /\ handed' = FALSE
      /\ lastDispatch' = 0 /\ made' = 0
      /\ outcome' = Fresh /\ delivery' = "open" /\ awaited' = 0
      /\ admitted' = <<>> /\ got' = <<>> /\ UNCHANGED <<receipts, sends, times>>
  BY DEF Restarts
<1>2. /\ receipts \in [Named -> {"none", "pending", "completed"}] /\ sends \in 0..MaxSends
      /\ times \in [Message -> Nat]
      /\ \A m \in Named : /\ times[m] <= 1
                          /\ receipts[m] = "none" => times[m] = 0
                          /\ receipts[m] = "completed" => times[m] = 1
  BY DEF MessagesInv, Typed, CallSound
<1>3. JustStarted'
  BY <1>1, <1>2 DEF JustStarted, Fresh
<1> QED
  BY <1>3, FreshIs, PTL

LEMMA MessagesStart ==
    ASSUME MessagesInit
    PROVE  MessagesInv
<1>1. /\ receipts = [m \in Named |-> "none"] /\ sends = 0 /\ times = [m \in Message |-> 0]
      /\ calls = [m \in Named |-> "idle"] /\ repeats = [m \in Named |-> 0]
      /\ quiet = <<>> /\ batches = <<>> /\ handed = FALSE
      /\ lastDispatch = 0 /\ made = 0 /\ outcome = Fresh
      /\ delivery = "open" /\ awaited = 0 /\ admitted = <<>> /\ got = <<>>
  BY DEF MessagesInit
<1>2. /\ receipts \in [Named -> {"none", "pending", "completed"}] /\ sends \in 0..MaxSends
      /\ times \in [Message -> Nat]
      /\ \A m \in Named : times[m] = 0 /\ receipts[m] = "none"
  BY <1>1, SetsOfMessages
<1>3. JustStarted
  BY <1>1, <1>2 DEF JustStarted
<1> QED
  BY <1>3, FreshIs

\* Where a message of AgentMessages is follows from its outcome, and the calls and the
\* delivery keep the messages in the order in which they were admitted.
THEOREM MessagesInvHolds == MessagesSpec => []MessagesInv
<1>1. MessagesInit => MessagesInv
  BY MessagesStart
<1>2. MessagesInv /\ [MessagesNext]_messageVars => MessagesInv'
  <2> SUFFICES ASSUME MessagesInv, [MessagesNext]_messageVars PROVE MessagesInv'
    OBVIOUS
  <2>1. ASSUME NEW m \in Named, Send(m) \/ SendSteps(m) PROVE MessagesInv'
    <3>1. CASE Send(m)
      BY <3>1, SendStep
    <3>2. CASE ReadsReceipt(m)
      BY <3>2, ReadsStep
    <3>3. CASE Prepares(m)
      BY <3>3, PreparesStep
    <3>4. CASE MarksPending(m) \/ Completes(m)
      BY <3>4, WritesStep
    <3>5. CASE SendsDirectly(m)
      BY <3>5, SendsDirectlyStep
    <3>6. CASE SendsQueued(m)
      BY <3>6, SendsQueuedStep
    <3>7. CASE Awaits(m)
      BY <3>7, AwaitsStep
    <3> QED
      BY <2>1, <3>1, <3>2, <3>3, <3>4, <3>5, <3>6, <3>7 DEF SendSteps
  <2>2. ASSUME NEW m \in Notices, Notifies(m) PROVE MessagesInv'
    BY <2>2, NotifiesStep
  <2>3. CASE QuietEnds
    BY <2>3, QuietEndsStep
  <2>4. CASE Delivers
    BY <2>4, DeliversStep
  <2>5. CASE Settles
    BY <2>5, SettlesStep DEF Settles
  <2>6. CASE CloseBegins
    BY <2>6, CloseBeginsStep
  <2>7. CASE CloseEnds
    BY <2>7, CloseEndsStep
  <2>8. CASE Restarts
    BY <2>8, RestartsStep
  <2>9. CASE UNCHANGED messageVars
    <3>1. Rests /\ UNCHANGED <<receipts, calls, repeats, sends, times>>
      BY <2>9 DEF messageVars, Rests
    <3>2. CallsTyped'
      BY <3>1 DEF CallsTyped, MessagesInv, Typed
    <3>3. \A m \in Named : CallSound(m)' /\ QueueSound(m)'
      BY <3>1 DEF MessagesInv, CallSound, QueueSound, Rests
    <3> QED
      BY <3>1, <3>2, <3>3, CallStep
  <2> QED
    BY <2>1, <2>2, <2>3, <2>4, <2>5, <2>6, <2>7, <2>8, <2>9 DEF MessagesNext
<1> QED
  BY <1>1, <1>2, PTL DEF MessagesSpec

\* A message admitted for an agent is handed over once and after those before it, and while
\* its outcome is open the delivery is not idle and knows of it.
THEOREM MessagesAreKeptHolds == MessagesSpec => []MessagesAreKept
<1>1. ASSUME MessagesInv PROVE OnceAndInOrder
  <2>1. ASSUME NEW m \in Named
        PROVE  times[m] <= 1 /\ (receipts[m] = "completed" => times[m] = 1)
    BY <1>1 DEF MessagesInv, CallSound
  <2>2. /\ admitted \in Seq(Enqueued) /\ got \in Seq(Enqueued)
        /\ Taken(admitted, got) /\ Rising(admitted, got)
    BY <1>1 DEF MessagesInv, Typed, InLine, Lined
  <2>3. ASSUME NEW i \in DOMAIN got
        PROVE  Place(got[i]) \in 1..Len(admitted) /\ admitted[Place(got[i])] = got[i]
    <3>1. \E p \in DOMAIN admitted : admitted[p] = got[i]
      <4>1. Among(got[i], got) /\ DOMAIN admitted = 1..Len(admitted)
        BY <2>2 DEF Among
      <4> QED
        BY <2>2, <4>1 DEF Taken, Among
    <3>2. Place(got[i]) \in DOMAIN admitted /\ admitted[Place(got[i])] = got[i]
      BY <3>1 DEF Place
    <3> QED
      BY <2>2, <3>2
  <2>4. ASSUME NEW i \in DOMAIN got, NEW j \in DOMAIN got, i < j
        PROVE  Place(got[i]) < Place(got[j])
    <3>1. Earlier(admitted, got[i], got[j])
      BY <2>2, <2>4 DEF Rising
    <3> QED
      BY <2>3, <3>1 DEF Earlier
  <2> QED
    BY <2>1, <2>4 DEF OnceAndInOrder
<1>2. ASSUME MessagesInv PROVE PendingIsKnown
  <2> SUFFICES ASSUME NEW m \in Enqueued, outcome[m] = "waiting"
               PROVE  hasPending /\ delivery # "closed"
    BY DEF PendingIsKnown
  <2>1. /\ batches \in Seq(Batch) /\ made \in Nat /\ Numbered /\ OutcomeSound(m)
        /\ quiet \in Seq(Enqueued)
    BY <1>2 DEF MessagesInv, Typed
  <2>2. quiet # <<>> \/ batches # <<>>
    BY <2>1 DEF OutcomeSound, Among
  <2>3. batches # <<>> => lastDispatch # 0
    <3>1. batches # <<>> => Len(batches) \in Nat \ {0} /\ Len(batches) <= made /\ lastDispatch = made
      BY <2>1 DEF Numbered
    <3> QED
      BY <2>1, <3>1
  <2> QED
    BY <2>1, <2>2, <2>3 DEF hasPending, Numbered
<1>3. MessagesInv => MessagesAreKept
  BY <1>1, <1>2 DEF MessagesAreKept
<1> QED
  BY <1>3, MessagesInvHolds, PTL

-----------------------------------------------------------------------------
(* Session lifetime: one writer per agent *)

Places == Waiting \cup {"new", "stream", "joined", "running", "done", "failed"}
LaneJob(i) == lane[i]

\* Jobs stand in the order of their tickets, and no prompt waits for a ticket not yet given
LaneOrdered ==
    /\ \A i, j \in 1..Len(lane) : i < j => lane[i].ticket < lane[j].ticket
    /\ \A p \in Prompts : prompts[p].ticket <= tickets

\* What the step says of the job that runs: only a close or a collection closes the live
\* agent, only a resume or a reload opens a session, a reload without a live agent
LaneShape ==
    /\ lane = <<>> => step = "start"
    /\ step = "closing" => registered # None0 /\ lane[1].kind \in {"close", "collect"}
    /\ step \in {"open", "register"} =>
          /\ lane[1].kind \in {"reload", "resume"}
          /\ lane[1].kind = "reload" => registered = None0

\* A resume belongs to the pending initialization
Resumes ==
    /\ \A i \in 1..Len(lane) : lane[i].kind = "resume" => init = "resuming"
    /\ \A i, j \in 1..Len(lane) : lane[i].kind = "resume" /\ lane[j].kind = "resume" => i = j

\* A collection blocks prompts as long as it is in the lane
Collects ==
    /\ \A i \in 1..Len(lane) : lane[i].kind = "collect" => collecting /\ sweep.at = "queued"
    /\ \A i, j \in 1..Len(lane) : lane[i].kind = "collect" /\ lane[j].kind = "collect" => i = j

\* A job of the lane has the ticket
TicketIn(js, t) == \E i \in 1..Len(js) : js[i].ticket = t

\* Who is woken runs before the next job begins
Woke == \A p \in Prompts :
          prompts[p].at \in Waiting /\ ~TicketIn(lane, prompts[p].ticket) => step = "start"

\* The writers: the agent's session, and the one that is being registered
Writers == live \ leaked \subseteq
              {registered} \cup (IF step = "register" THEN {opened} ELSE {})

RunsInAgent == run # None0 => run = registered

\* While a collection closes the runtime, a protected prompt has not got beyond the lane
Protected ==
    Collecting =>
        /\ run = None0
        /\ \A p \in Protecting :
              \/ prompts[p].at \in {"new", "stream", "done", "failed"}
              \/ prompts[p].at = "tail0" /\ TicketIn(lane, prompts[p].ticket)

\* An initialization that has not resumed the agent yet finds it not live
InitFindsNone == init \in {"reading", "resuming"} =>
    registered = None0 /\ (step = "start" \/ lane[1].kind = "resume")

\* At its second barrier a prompt waits first for jobs that do not register the agent
TailFindsNone == \A p \in Prompts : prompts[p].at = "tail2" =>
    /\ registered = None0 /\ step = "start"
    /\ \A i \in 1..Len(lane) : lane[i].kind = "resume" => lane[i].ticket > prompts[p].ticket

\* and then for a close
CloseFindsNone == \A p \in Prompts : prompts[p].at = "close2" =>
    /\ registered = None0 \/ TicketIn(lane, prompts[p].ticket)
    /\ \A i \in 1..Len(lane) : lane[i].ticket = prompts[p].ticket => lane[i].kind = "close"

\* As long as no close has failed, no prompt loads an agent that is live
Unloaded == ~refused => InitFindsNone /\ TailFindsNone /\ CloseFindsNone

RuntimeInv ==
    /\ RuntimeTypeOK /\ LaneOrdered /\ LaneShape /\ Resumes /\ Collects /\ Woke
    /\ Writers /\ RunsInAgent /\ Protected /\ Unloaded

-----------------------------------------------------------------------------
(***************************************************************************)
(* Types                                                                   *)
(***************************************************************************)
JobType(n)   == [kind : Jobs, ticket : 1..n]
PromptType   == [at : Places, ticket : Nat]
SweepType    == [at : {"none", "probing", "queued"}, session : Session \cup {None0},
                 stale : BOOLEAN]

LEMMA RuntimeTyped ==
    ASSUME RuntimeTypeOK
    PROVE  /\ lane \in Seq(JobType(tickets)) /\ tickets \in Nat
           /\ DOMAIN lane = 1..Len(lane) /\ Len(lane) \in Nat
           /\ prompts \in [Prompts -> PromptType] /\ sweep \in SweepType
           /\ \A i \in 1..Len(lane) :
                 lane[i] \in JobType(tickets) /\ lane[i].ticket \in 1..tickets
           /\ lane # <<>> => 1 \in 1..Len(lane) /\ Len(lane) \in 1..Len(lane)
                               /\ Head(lane) = lane[1]
           /\ lane = <<>> => Len(lane) = 0
<1>1. /\ lane \in Seq(JobType(tickets)) /\ tickets \in Nat
      /\ prompts \in [Prompts -> PromptType] /\ sweep \in SweepType
  BY DEF RuntimeTypeOK, JobType, PromptType, SweepType, Places
<1>2. \A i \in 1..Len(lane) : lane[i] \in JobType(tickets)
  BY <1>1
<1>3. \A i \in 1..Len(lane) : lane[i].ticket \in 1..tickets
  BY <1>2 DEF JobType
<1> QED
  BY <1>1, <1>2, <1>3

\* A job is appended with the next ticket
LEMMA JobEnters ==
    ASSUME RuntimeTypeOK, NEW kind \in Jobs, EntersLane(kind)
    PROVE  /\ lane' \in Seq(JobType(tickets')) /\ tickets' = tickets + 1 /\ tickets' \in Nat
           /\ Len(lane') = Len(lane) + 1 /\ DOMAIN lane' = 1..(Len(lane) + 1)
           /\ \A i \in 1..Len(lane) : lane'[i] = lane[i]
           /\ lane'[Len(lane) + 1].kind = kind
           /\ lane'[Len(lane) + 1].ticket = tickets + 1
<1> DEFINE job == [kind |-> kind, ticket |-> tickets + 1]
<1>1. job \in JobType(tickets + 1) /\ job.kind = kind /\ job.ticket = tickets + 1
  BY RuntimeTyped DEF JobType
<1>2. \A i \in 1..Len(lane) : lane[i] \in JobType(tickets + 1)
  BY RuntimeTyped DEF JobType
<1>3. lane \in Seq(JobType(tickets + 1)) /\ tickets + 1 \in Nat
  <2>1. JobType(tickets) \subseteq JobType(tickets + 1)
    BY RuntimeTyped DEF JobType
  <2> QED
    BY <2>1, RuntimeTyped
<1>4. lane' = Append(lane, job) /\ tickets' = tickets + 1
  BY DEF EntersLane
<1> HIDE DEF job
<1> QED
  BY <1>1, <1>3, <1>4, RuntimeTyped

\* The job at the head has settled
LEMMA JobLeaves ==
    ASSUME RuntimeTypeOK, lane # <<>>, lane' = Tail(lane), tickets' = tickets
    PROVE  /\ lane' \in Seq(JobType(tickets')) /\ DOMAIN lane' = 1..Len(lane')
           /\ Len(lane') = Len(lane) - 1
           /\ \A i \in 1..Len(lane') : i + 1 \in 1..Len(lane) /\ lane'[i] = lane[i + 1]
           /\ \A i \in 1..Len(lane) : i # 1 => i - 1 \in 1..Len(lane') /\ lane'[i - 1] = lane[i]
<1>1. /\ lane' \in Seq(JobType(tickets')) /\ DOMAIN lane' = 1..Len(lane')
      /\ Len(lane') = Len(lane) - 1
  BY RuntimeTyped
<1>2. \A i \in 1..Len(lane') : i + 1 \in 1..Len(lane) /\ lane'[i] = lane[i + 1]
  BY RuntimeTyped, <1>1
<1>3. \A i \in 1..Len(lane) : i # 1 => i - 1 \in 1..Len(lane') /\ lane'[i - 1] = lane[i]
  BY RuntimeTyped, <1>1
<1> QED
  BY <1>1, <1>2, <1>3

\* A prompt goes on
LEMMA PromptMoves ==
    ASSUME RuntimeTypeOK, NEW p \in Prompts, NEW at \in Places, NEW ticket \in Nat,
           PromptGoes(p, at, ticket)
    PROVE  /\ prompts' \in [Prompts -> PromptType]
           /\ prompts'[p].at = at /\ prompts'[p].ticket = ticket
           /\ \A q \in Prompts : q # p => prompts'[q] = prompts[q]
<1> DEFINE new == [at |-> at, ticket |-> ticket]
<1>1. new \in PromptType /\ new.at = at /\ new.ticket = ticket
  BY DEF PromptType
<1>2. prompts' = [prompts EXCEPT ![p] = new]
  BY DEF PromptGoes
<1> HIDE DEF new
<1> QED
  BY <1>1, <1>2, RuntimeTyped

\* The prompts that a run or an initialization held go on; the others stay
Settled == \A p \in Prompts :
    \/ prompts'[p] = prompts[p]
    \/ /\ prompts[p].at \in {"joined", "running"} /\ prompts'[p].ticket = 0
       /\ prompts'[p].at \in {"stream", "done", "failed"}

LEMMA InitSettles ==
    ASSUME RuntimeTypeOK, NEW ok \in BOOLEAN, InitEnds(ok)
    PROVE  prompts' \in [Prompts -> PromptType] /\ Settled /\ init' = "none"
<1> DEFINE new == [at |-> IF ok THEN "stream" ELSE "failed", ticket |-> 0]
<1>1. new \in PromptType /\ new.at \in {"stream", "failed"} /\ new.ticket = 0
  BY DEF PromptType, Places
<1>2. prompts' = [p \in Prompts |-> IF prompts[p].at # "joined" THEN prompts[p] ELSE new]
  BY DEF InitEnds
<1> HIDE DEF new
<1>3. \A p \in Prompts : prompts'[p] = IF prompts[p].at # "joined" THEN prompts[p] ELSE new
  BY <1>2
<1> QED
  BY <1>1, <1>2, <1>3, RuntimeTyped DEF Settled, InitEnds

LEMMA RunSettles ==
    ASSUME RuntimeTypeOK,
           prompts' = [p \in Prompts |-> IF prompts[p].at = "running"
                                         THEN [at |-> "done", ticket |-> 0] ELSE prompts[p]]
    PROVE  prompts' \in [Prompts -> PromptType] /\ Settled
<1> DEFINE new == [at |-> "done", ticket |-> 0]
<1>1. new \in PromptType /\ new.at = "done" /\ new.ticket = 0
  BY DEF PromptType, Places
<1>2. prompts' = [p \in Prompts |-> IF prompts[p].at = "running" THEN new ELSE prompts[p]]
  OBVIOUS
<1> HIDE DEF new
<1>3. \A p \in Prompts : prompts'[p] = IF prompts[p].at = "running" THEN new ELSE prompts[p]
  BY <1>2
<1> QED
  BY <1>1, <1>2, <1>3, RuntimeTyped DEF Settled

LEMMA SweepMoves ==
    ASSUME RuntimeTypeOK
    PROVE  /\ NoSweep \in SweepType
           /\ [sweep EXCEPT !.stale = TRUE] \in SweepType
           /\ [sweep EXCEPT !.stale = TRUE].at = sweep.at
           /\ [sweep EXCEPT !.at = "queued"] \in SweepType
           /\ [sweep EXCEPT !.at = "queued"].at = "queued"
<1>1. sweep \in SweepType
  BY RuntimeTyped
<1>2. NoSweep \in SweepType
  BY DEF NoSweep, SweepType
<1>3. [sweep EXCEPT !.stale = TRUE] \in SweepType /\ [sweep EXCEPT !.stale = TRUE].at = sweep.at
  BY <1>1 DEF SweepType
<1>4. [sweep EXCEPT !.at = "queued"] \in SweepType /\ [sweep EXCEPT !.at = "queued"].at = "queued"
  BY <1>1 DEF SweepType
<1> QED
  BY <1>2, <1>3, <1>4

SessionOrNone == Session \cup {None0}

LEMMA TypeIs ==
    RuntimeTypeOK <=>
      /\ registered \in SessionOrNone /\ run \in SessionOrNone
      /\ live \subseteq Session /\ doomed \subseteq Session /\ leaked \subseteq Session
      /\ opened \in Session /\ refused \in BOOLEAN
      /\ lane \in Seq(JobType(tickets)) /\ tickets \in Nat
      /\ step \in {"start", "closing", "open", "register"}
      /\ collecting \in BOOLEAN /\ enabled \in BOOLEAN
      /\ sweep \in SweepType
      /\ init \in {"none", "reading", "resuming", "hydrating"}
      /\ prompts \in [Prompts -> PromptType]
BY DEF RuntimeTypeOK, JobType, SweepType, PromptType, Places, SessionOrNone

LEMMA TypeIsNext ==
    RuntimeTypeOK' <=>
      /\ registered' \in SessionOrNone /\ run' \in SessionOrNone
      /\ live' \subseteq Session /\ doomed' \subseteq Session /\ leaked' \subseteq Session
      /\ opened' \in Session /\ refused' \in BOOLEAN
      /\ lane' \in Seq(JobType(tickets')) /\ tickets' \in Nat
      /\ step' \in {"start", "closing", "open", "register"}
      /\ collecting' \in BOOLEAN /\ enabled' \in BOOLEAN
      /\ sweep' \in SweepType
      /\ init' \in {"none", "reading", "resuming", "hydrating"}
      /\ prompts' \in [Prompts -> PromptType]
BY DEF RuntimeTypeOK, JobType, SweepType, PromptType, Places, SessionOrNone

\* What the head of the lane leaves
LEMMA EndsTyped ==
    ASSUME RuntimeTypeOK, lane # <<>>, JobEnds
    PROVE  /\ lane' \in Seq(JobType(tickets')) /\ tickets' \in Nat /\ step' = "start"
           /\ collecting' \in BOOLEAN /\ sweep' \in SweepType
BY JobLeaves, SweepMoves, TypeIs DEF JobEnds

LEMMA GoesTyped ==
    ASSUME RuntimeTypeOK, NEW next \in {"start", "closing", "open", "register"}, JobGoes(next)
    PROVE  /\ lane' \in Seq(JobType(tickets')) /\ tickets' \in Nat /\ step' = next
           /\ collecting' \in BOOLEAN /\ sweep' \in SweepType
BY TypeIs DEF JobGoes

LEMMA InitSeesTyped ==
    ASSUME RuntimeTypeOK, NEW ok \in BOOLEAN, InitSees(ok)
    PROVE  /\ prompts' \in [Prompts -> PromptType]
           /\ init' \in {"none", "reading", "resuming", "hydrating"}
           /\ Settled
           /\ init' = init \/ init' \in {"none", "hydrating"}
           /\ Head(lane).kind # "reload" => init' \in {"none", "hydrating"}
<1>1. CASE Head(lane).kind = "reload"
  BY <1>1, TypeIs DEF InitSees, Settled
<1>2. CASE Head(lane).kind # "reload" /\ ok
  BY <1>2, TypeIs DEF InitSees, Settled
<1>3. CASE Head(lane).kind # "reload" /\ ~ok
  <2>1. InitEnds(FALSE)
    BY <1>3 DEF InitSees
  <2> QED
    BY <1>3, <2>1, InitSettles
<1> QED
  BY <1>1, <1>2, <1>3

LEMMA UnregisterTyped ==
    ASSUME RuntimeTypeOK, Unregister
    PROVE  /\ prompts' \in [Prompts -> PromptType] /\ Settled
           /\ registered' = None0 /\ run' = None0
BY RunSettles DEF Unregister

LEMMA StaysSettled ==
    ASSUME UNCHANGED prompts
    PROVE  Settled
BY DEF Settled

LEMMA WaitTickets ==
    ASSUME RuntimeTypeOK
    PROVE  TailTicket \in Nat /\ CloseTicket \in Nat
<1>1. TailTicket \in Nat
  BY RuntimeTyped DEF TailTicket
<1>2. Closes \subseteq Nat
  BY RuntimeTyped DEF Closes
<1>3. CloseTicket \in Nat
  <2>1. CASE Closes = {}
    BY <2>1 DEF CloseTicket
  <2>2. CASE Closes # {}
    <3>1. (CHOOSE t \in Closes : TRUE) \in Closes
      BY <2>2
    <3> QED
      BY <2>2, <3>1, <1>2 DEF CloseTicket
  <2> QED
    BY <2>1, <2>2
<1> QED
  BY <1>1, <1>3

LEMMA TypesPreserved ==
    ASSUME RuntimeTypeOK, [RuntimeNext]_runtimeVars
    PROVE  RuntimeTypeOK'
<1> USE TypeIs, TypeIsNext DEF sessions, jobs, cleanup
<1>0. 0 \in Nat /\ None0 \in SessionOrNone /\ Session \subseteq Nat
  BY DEF SessionOrNone, Session, None0
<1>1. CASE \E p \in Prompts : Sends(p)
  <2> PICK p \in Prompts : Sends(p)
    BY <1>1
  <2>1. PromptGoes(p, "stream", 0)
    BY DEF Sends
  <2> QED
    BY <2>1, PromptMoves DEF Sends, Places
<1>2. ASSUME NEW p \in Prompts, Streams(p)
      PROVE  RuntimeTypeOK'
  <2>1. \/ PromptGoes(p, "tail0", TailTicket) \/ PromptGoes(p, "failed", 0)
        \/ PromptGoes(p, "running", 0)
    BY <1>2 DEF Streams
  <2>2. prompts' \in [Prompts -> PromptType]
    <3>1. "tail0" \in Places /\ "failed" \in Places /\ "running" \in Places
      BY DEF Places, Waiting
    <3> QED
      BY <2>1, <3>1, PromptMoves, WaitTickets
  <2>3. sweep' \in SweepType /\ run' \in SessionOrNone
    BY <1>2, SweepMoves DEF Streams, Touches
  <2> QED
    BY <1>2, <2>2, <2>3 DEF Streams
<1>3. ASSUME NEW p \in Prompts, WaitsForClose(p)
      PROVE  RuntimeTypeOK'
  <2>1. PICK at \in Places, ticket \in Nat : PromptGoes(p, at, ticket)
    <3>1. AfterWait[prompts[p].at] \in Places
      BY <1>3 DEF WaitsForClose, AfterWait, Places, Waiting
    <3> QED
      BY <1>3, <3>1, WaitTickets DEF WaitsForClose
  <2> QED
    BY <1>3, <2>1, PromptMoves DEF WaitsForClose
<1>4. ASSUME NEW p \in Prompts, Loads1(p)
      PROVE  RuntimeTypeOK'
  <2>1. PICK at \in Places, ticket \in Nat : PromptGoes(p, at, ticket)
    <3>1. "joined" \in Places /\ "stream" \in Places /\ "tail2" \in Places
      BY DEF Places, Waiting
    <3> QED
      BY <1>4, <3>1, WaitTickets DEF Loads1
  <2> QED
    BY <1>4, <2>1, PromptMoves DEF Loads1
<1>5. ASSUME NEW p \in Prompts, Loads2(p)
      PROVE  RuntimeTypeOK'
  <2>1. PromptGoes(p, "joined", 0)
    BY <1>5 DEF Loads2
  <2>2. prompts' \in [Prompts -> PromptType]
    BY <2>1, PromptMoves DEF Places
  <2> QED
    BY <1>5, <2>2 DEF Loads2
<1>6. CASE InitReads
  <2>1. CASE init' = "resuming" /\ EntersLane("resume") /\ UNCHANGED prompts
    BY <1>6, <2>1, JobEnters DEF InitReads, Jobs
  <2>2. CASE InitEnds(FALSE) /\ UNCHANGED <<lane, tickets>>
    BY <1>6, <2>2, InitSettles DEF InitReads
  <2> QED
    BY <1>6, <2>1, <2>2 DEF InitReads
<1>7. CASE Hydrates
  <2> PICK ok \in BOOLEAN : InitEnds(ok)
    BY <1>7 DEF Hydrates
  <2> QED
    BY <1>7, InitSettles DEF Hydrates
<1>8. CASE RunEnds
  BY <1>0, <1>8, RunSettles, SweepMoves DEF RunEnds, Touches
<1>9. CASE ClosesRuntime
  <2>1. lane # <<>> /\ (JobGoes("closing") \/ JobEnds)
    BY <1>9 DEF ClosesRuntime, Running
  <2> QED
    BY <1>9, <2>1, EndsTyped, GoesTyped DEF ClosesRuntime
<1>10. CASE SessionCloses
  <2>1. lane # <<>> /\ JobEnds
    BY <1>10 DEF SessionCloses, Running
  <2>2. /\ live' \subseteq Session /\ registered' \in SessionOrNone /\ run' \in SessionOrNone
        /\ prompts' \in [Prompts -> PromptType] /\ refused' \in BOOLEAN
    <3>1. CASE live' = live \ {registered} /\ Unregister /\ UNCHANGED refused
      BY <1>0, <3>1, UnregisterTyped
    <3>2. CASE live' \in {live, live \ {registered}} /\ UNCHANGED <<registered, prompts, run>>
               /\ refused' = (refused \/ Head(lane).kind = "close")
      <4>1. (refused \/ Head(lane).kind = "close") \in BOOLEAN
        OBVIOUS
      <4> QED
        BY <3>2, <4>1
    <3> QED
      BY <1>10, <3>1, <3>2 DEF SessionCloses
  <2> QED
    BY <1>10, <2>1, <2>2, EndsTyped DEF SessionCloses
<1>11. CASE ReloadCloses
  <2>1. lane # <<>> /\ (JobGoes("open") \/ JobEnds)
    BY <1>11 DEF ReloadCloses, Running
  <2>2. /\ live' \subseteq Session /\ doomed' \subseteq Session
        /\ registered' \in SessionOrNone /\ run' \in SessionOrNone
        /\ prompts' \in [Prompts -> PromptType]
    <3>1. CASE registered = None0 /\ UNCHANGED <<registered, live, doomed, prompts, run>>
      BY <3>1
    <3>2. CASE live' = live \ {registered} /\ Unregister /\ doomed' = doomed \ {registered}
      BY <1>0, <3>2, UnregisterTyped
    <3>3. CASE /\ registered \in live /\ doomed' \in {doomed, doomed \cup {registered}}
               /\ UNCHANGED <<registered, live, prompts, run>>
      BY <3>3
    <3> QED
      BY <1>11, <3>1, <3>2, <3>3 DEF ReloadCloses
  <2> QED
    BY <1>11, <2>1, <2>2, EndsTyped, GoesTyped DEF ReloadCloses
<1>12. ASSUME NEW s \in Session, LateClose(s)
       PROVE  RuntimeTypeOK'
  BY <1>12 DEF LateClose
<1>13. CASE ResumeStarts
  BY <1>13, GoesTyped DEF ResumeStarts, Running
<1>14. CASE OpensSession
  <2>1. lane # <<>>
    BY <1>14 DEF OpensSession, Running
  <2>2. CASE /\ opened < MaxSessions /\ opened' = opened + 1 /\ live' = live \cup {opened'}
             /\ JobGoes("register") /\ UNCHANGED <<init, prompts>>
    <3>1. opened' \in Session
      BY <2>2, RuntimeAssumption DEF Session
    <3> QED
      BY <1>14, <2>1, <2>2, <3>1, GoesTyped DEF OpensSession
  <2>3. CASE JobEnds /\ InitSees(FALSE) /\ UNCHANGED <<opened, live>>
    BY <1>14, <2>1, <2>3, EndsTyped, InitSeesTyped DEF OpensSession
  <2> QED
    BY <1>14, <2>2, <2>3 DEF OpensSession
<1>15. CASE Registers
  <2>1. lane # <<>> /\ JobEnds
    BY <1>15 DEF Registers, Running
  <2>2. PICK ok \in BOOLEAN : InitSees(ok)
    BY <1>15 DEF Registers
  <2>3. live' \subseteq Session /\ leaked' \subseteq Session /\ registered' \in SessionOrNone
    BY <1>15 DEF Registers, SessionOrNone
  <2> QED
    BY <1>15, <2>1, <2>2, <2>3, EndsTyped, InitSeesTyped DEF Registers
<1>16. CASE RequestsClose
  BY <1>16, JobEnters DEF RequestsClose, Jobs
<1>17. CASE RequestsReload
  BY <1>17, JobEnters DEF RequestsReload, Jobs
<1>18. CASE Switches
  BY <1>18, SweepMoves DEF Switches
<1>19. CASE Sweeps
  <2>1. sweep' \in SweepType
    BY <1>19 DEF Sweeps, SweepType, SessionOrNone
  <2> QED
    BY <1>19, <2>1 DEF Sweeps
<1>20. CASE Probed
  BY <1>20, JobEnters, SweepMoves DEF Probed, Jobs
<1>21. CASE UNCHANGED runtimeVars
  BY <1>21 DEF runtimeVars
<1> QED
  BY <1>1, <1>2, <1>3, <1>4, <1>5, <1>6, <1>7, <1>8, <1>9, <1>10, <1>11, <1>12, <1>13, <1>14,
     <1>15, <1>16, <1>17, <1>18, <1>19, <1>20, <1>21
     DEF RuntimeNext, PromptSteps, LaneSteps, Requests

-----------------------------------------------------------------------------
(***************************************************************************)
(* What the lane keeps when a job enters it, moves or leaves it            *)
(***************************************************************************)
LEMMA PassedIs ==
    ASSUME RuntimeTypeOK
    PROVE  \A t : Passed(t) <=> ~TicketIn(lane, t)
BY RuntimeTyped DEF Passed, TicketIn

LEMMA AmongEnters ==
    ASSUME RuntimeTypeOK, NEW kind \in Jobs, EntersLane(kind)
    PROVE  \A t \in Nat : t <= tickets => (TicketIn(lane', t) <=> TicketIn(lane, t))
<1> TAKE t \in Nat
<1> HAVE t <= tickets
<1>1. ASSUME TicketIn(lane, t)
      PROVE  TicketIn(lane', t)
  <2>1. PICK i \in 1..Len(lane) : lane[i].ticket = t
    BY <1>1 DEF TicketIn
  <2>2. i \in 1..Len(lane') /\ lane'[i].ticket = t
    BY <2>1, JobEnters, RuntimeTyped
  <2> QED
    BY <2>2 DEF TicketIn
<1>2. ASSUME TicketIn(lane', t)
      PROVE  TicketIn(lane, t)
  <2>1. PICK i \in 1..Len(lane') : lane'[i].ticket = t
    BY <1>2 DEF TicketIn
  <2>2. i # Len(lane) + 1
    BY <2>1, JobEnters, RuntimeTyped
  <2>3. i \in 1..Len(lane) /\ lane[i].ticket = t
    BY <2>1, <2>2, JobEnters, RuntimeTyped
  <2> QED
    BY <2>3 DEF TicketIn
<1> QED
  BY <1>1, <1>2

LEMMA AmongLeaves ==
    ASSUME RuntimeTypeOK, lane # <<>>, lane' = Tail(lane), tickets' = tickets
    PROVE  \A t : TicketIn(lane, t) /\ lane[1].ticket # t => TicketIn(lane', t)
<1> TAKE t
<1> HAVE TicketIn(lane, t) /\ lane[1].ticket # t
<1>1. PICK i \in 1..Len(lane) : lane[i].ticket = t
  BY DEF TicketIn
<1>2. i - 1 \in 1..Len(lane') /\ lane'[i - 1].ticket = t
  BY <1>1, JobLeaves
<1> QED
  BY <1>2 DEF TicketIn

\* Nobody is left at a barrier that has opened
LEMMA QuietIs ==
    ASSUME RuntimeTypeOK, Quiescent
    PROVE  \A p \in Prompts : /\ prompts[p].at # "stream"
                              /\ prompts[p].at \in Waiting => TicketIn(lane, prompts[p].ticket)
BY PassedIs DEF Quiescent, Woken

LEMMA EnterKeeps ==
    ASSUME RuntimeInv, NEW kind \in Jobs, EntersLane(kind),
           UNCHANGED <<registered, refused, run, step, prompts>>
    PROVE  /\ LaneOrdered' /\ LaneShape' /\ Woke' /\ Protected'
           /\ ~refused => TailFindsNone' /\ CloseFindsNone'
<1> USE DEF RuntimeInv
<1>0. \A p \in Prompts : prompts[p].ticket \in Nat /\ prompts[p].ticket <= tickets
  BY RuntimeTyped DEF LaneOrdered, PromptType
<1>1. LaneOrdered'
  <2>1. \A i, j \in 1..Len(lane') : i < j => lane'[i].ticket < lane'[j].ticket
    <3> TAKE i, j \in 1..Len(lane')
    <3> HAVE i < j
    <3>1. i \in 1..Len(lane) /\ lane'[i] = lane[i]
      BY JobEnters, RuntimeTyped
    <3>2. CASE j = Len(lane) + 1
      <4>1. lane[i].ticket \in 1..tickets
        BY <3>1, RuntimeTyped
      <4>2. lane'[j].ticket = tickets + 1
        BY <3>2, JobEnters
      <4> QED
        BY <3>1, <4>1, <4>2, RuntimeTyped
    <3>3. CASE j # Len(lane) + 1
      <4>1. j \in 1..Len(lane) /\ lane'[j] = lane[j]
        BY <3>3, JobEnters, RuntimeTyped
      <4> QED
        BY <3>1, <4>1 DEF LaneOrdered
    <3> QED
      BY <3>2, <3>3
  <2>2. \A p \in Prompts : prompts'[p].ticket <= tickets'
    BY <1>0, JobEnters, RuntimeTyped
  <2> QED
    BY <2>1, <2>2 DEF LaneOrdered
<1>2. lane # <<>> => lane'[1] = lane[1] /\ Head(lane') = Head(lane)
  BY JobEnters, RuntimeTyped
<1>3. lane' # <<>>
  BY JobEnters, RuntimeTyped
<1>4. LaneShape'
  BY <1>2, <1>3 DEF LaneShape
<1>5. Woke'
  BY <1>0, AmongEnters DEF Woke
<1>6. Protected'
  <2>1. Collecting' => Collecting
    BY <1>2, <1>3 DEF Collecting, LaneShape
  <2> QED
    BY <1>0, <2>1, AmongEnters, RuntimeAssumption DEF Protected
<1>7. ASSUME ~refused
      PROVE  TailFindsNone'
  <2>1. ASSUME NEW p \in Prompts, prompts'[p].at = "tail2"
        PROVE  /\ registered' = None0 /\ step' = "start"
               /\ \A i \in 1..Len(lane') :
                     lane'[i].kind = "resume" => lane'[i].ticket > prompts'[p].ticket
    <3>1. /\ registered = None0 /\ step = "start"
          /\ \A i \in 1..Len(lane) : lane[i].kind = "resume" => lane[i].ticket > prompts[p].ticket
      BY <1>7, <2>1 DEF Unloaded, TailFindsNone
    <3>2. ASSUME NEW i \in 1..Len(lane'), lane'[i].kind = "resume"
          PROVE  lane'[i].ticket > prompts'[p].ticket
      <4>1. CASE i = Len(lane) + 1
        BY <1>0, <4>1, JobEnters, RuntimeTyped
      <4>2. CASE i # Len(lane) + 1
        BY <3>1, <3>2, <4>2, JobEnters, RuntimeTyped
      <4> QED
        BY <4>1, <4>2
    <3> QED
      BY <3>1, <3>2
  <2> QED
    BY <2>1 DEF TailFindsNone
<1>8. ASSUME ~refused
      PROVE  CloseFindsNone'
  <2>1. ASSUME NEW p \in Prompts, prompts'[p].at = "close2"
        PROVE  /\ registered' = None0 \/ TicketIn(lane', prompts'[p].ticket)
               /\ \A i \in 1..Len(lane') :
                     lane'[i].ticket = prompts'[p].ticket => lane'[i].kind = "close"
    <3>1. /\ registered = None0 \/ TicketIn(lane, prompts[p].ticket)
          /\ \A i \in 1..Len(lane) : lane[i].ticket = prompts[p].ticket => lane[i].kind = "close"
      BY <1>8, <2>1 DEF Unloaded, CloseFindsNone
    <3>2. ASSUME NEW i \in 1..Len(lane'), lane'[i].ticket = prompts'[p].ticket
          PROVE  lane'[i].kind = "close"
      <4>1. i # Len(lane) + 1
        BY <1>0, <3>2, JobEnters, RuntimeTyped
      <4> QED
        BY <3>1, <3>2, <4>1, JobEnters, RuntimeTyped
    <3> QED
      BY <1>0, <3>1, <3>2, AmongEnters
  <2> QED
    BY <2>1 DEF CloseFindsNone
<1> QED
  BY <1>1, <1>4, <1>5, <1>6, <1>7, <1>8

\* A prompt that was let go waits for nothing; the others wait as they did
LEMMA SettledIs ==
    ASSUME Settled
    PROVE  /\ \A p \in Prompts : prompts'[p].at \in Waiting \cup {"joined", "running", "new"}
                                    => prompts'[p] = prompts[p]
           /\ \A p \in Prompts : prompts'[p].ticket \in {0, prompts[p].ticket}
BY DEF Settled, Waiting

LEMMA EndsKeeps ==
    ASSUME RuntimeInv, lane # <<>>, JobEnds, Settled
    PROVE  /\ LaneOrdered' /\ LaneShape' /\ Collects' /\ Woke' /\ Protected'
           /\ init' = init \/ lane[1].kind = "resume" => Resumes'
<1> USE DEF RuntimeInv
<1>1. lane' = Tail(lane) /\ tickets' = tickets /\ step' = "start" /\ Head(lane) = lane[1]
  BY RuntimeTyped DEF JobEnds
<1>2. LaneOrdered'
  <2>1. \A i, j \in 1..Len(lane') : i < j => lane'[i].ticket < lane'[j].ticket
    BY <1>1, JobLeaves, RuntimeTyped DEF LaneOrdered
  <2>2. \A p \in Prompts : prompts[p].ticket \in Nat
    BY RuntimeTyped DEF PromptType
  <2>3. \A p \in Prompts : prompts'[p].ticket <= tickets'
    BY <1>1, <2>2, SettledIs, RuntimeTyped DEF LaneOrdered
  <2> QED
    BY <2>1, <2>3 DEF LaneOrdered
<1>3. LaneShape' /\ Woke' /\ Protected'
  BY <1>1 DEF LaneShape, Woke, Protected, Collecting
<1>4. Collects'
  <2>1. ASSUME NEW i \in 1..Len(lane'), lane'[i].kind = "collect"
        PROVE  collecting' /\ sweep'.at = "queued"
    <3>1. i + 1 \in 1..Len(lane) /\ lane[i + 1].kind = "collect"
      BY <1>1, <2>1, JobLeaves
    <3>2. Head(lane).kind # "collect"
      BY <1>1, <3>1, RuntimeTyped DEF Collects
    <3>3. UNCHANGED <<collecting, sweep>>
      BY <3>2 DEF JobEnds
    <3> QED
      BY <3>1, <3>3 DEF Collects
  <2>2. ASSUME NEW i \in 1..Len(lane'), NEW j \in 1..Len(lane'),
               lane'[i].kind = "collect", lane'[j].kind = "collect"
        PROVE  i = j
    <3>1. i + 1 = j + 1
      BY <1>1, <2>2, JobLeaves DEF Collects
    <3> QED
      BY <3>1
  <2> QED
    BY <2>1, <2>2 DEF Collects
<1>5. ASSUME init' = init \/ lane[1].kind = "resume"
      PROVE  Resumes'
  <2>1. ASSUME NEW i \in 1..Len(lane'), lane'[i].kind = "resume"
        PROVE  init' = "resuming"
    <3>1. i + 1 \in 1..Len(lane) /\ lane[i + 1].kind = "resume"
      BY <1>1, <2>1, JobLeaves
    <3>2. lane[1].kind # "resume"
      BY <3>1, RuntimeTyped DEF Resumes
    <3> QED
      BY <1>5, <3>1, <3>2 DEF Resumes
  <2>2. ASSUME NEW i \in 1..Len(lane'), NEW j \in 1..Len(lane'),
               lane'[i].kind = "resume", lane'[j].kind = "resume"
        PROVE  i = j
    <3>1. i + 1 = j + 1
      BY <1>1, <2>2, JobLeaves DEF Resumes
    <3> QED
      BY <3>1
  <2> QED
    BY <2>1, <2>2 DEF Resumes
<1> QED
  BY <1>2, <1>3, <1>4, <1>5

LEMMA EndsUnloaded ==
    ASSUME RuntimeInv, ~refused, Quiescent, lane # <<>>, JobEnds, Settled,
           init' = init \/ init' \in {"none", "hydrating"},
           \/ registered' = None0
           \/ registered' = registered /\ lane[1].kind # "close"
           \/ lane[1].kind \in {"reload", "resume"} /\ step # "start"
                /\ init' \notin {"reading", "resuming"}
    PROVE  InitFindsNone' /\ TailFindsNone' /\ CloseFindsNone'
<1> USE DEF RuntimeInv
<1>1. lane' = Tail(lane) /\ tickets' = tickets /\ step' = "start" /\ Head(lane) = lane[1]
  BY RuntimeTyped DEF JobEnds
<1>2. InitFindsNone'
  BY <1>1 DEF InitFindsNone, Unloaded
<1>3. ASSUME NEW p \in Prompts, prompts'[p].at \in {"tail2", "close2"}
      PROVE  prompts'[p] = prompts[p] /\ TicketIn(lane, prompts[p].ticket)
  <2>1. prompts'[p] = prompts[p]
    BY <1>3, SettledIs DEF Waiting
  <2> QED
    BY <1>3, <2>1, QuietIs DEF Waiting
<1>4. TailFindsNone'
  <2>1. ASSUME NEW p \in Prompts, prompts'[p].at = "tail2"
        PROVE  /\ registered' = None0
               /\ \A i \in 1..Len(lane') :
                     lane'[i].kind = "resume" => lane'[i].ticket > prompts'[p].ticket
    <3>1. prompts'[p] = prompts[p] /\ TicketIn(lane, prompts[p].ticket)
      BY <1>3, <2>1
    <3>2. /\ registered = None0 /\ step = "start"
          /\ \A i \in 1..Len(lane) : lane[i].kind = "resume" => lane[i].ticket > prompts[p].ticket
      BY <2>1, <3>1 DEF Unloaded, TailFindsNone
    <3>3. registered' = None0
      BY <3>2
    <3> QED
      BY <1>1, <3>1, <3>2, <3>3, JobLeaves
  <2> QED
    BY <1>1, <2>1 DEF TailFindsNone
<1>5. CloseFindsNone'
  <2>1. ASSUME NEW p \in Prompts, prompts'[p].at = "close2"
        PROVE  /\ registered' = None0 \/ TicketIn(lane', prompts'[p].ticket)
               /\ \A i \in 1..Len(lane') :
                     lane'[i].ticket = prompts'[p].ticket => lane'[i].kind = "close"
    <3>1. prompts'[p] = prompts[p] /\ TicketIn(lane, prompts[p].ticket)
      BY <1>3, <2>1
    <3>2. \A i \in 1..Len(lane) : lane[i].ticket = prompts[p].ticket => lane[i].kind = "close"
      BY <2>1, <3>1 DEF Unloaded, CloseFindsNone
    <3>3. CASE lane[1].kind # "close"
      <4>1. lane[1].ticket # prompts[p].ticket
        BY <3>2, <3>3, RuntimeTyped
      <4>2. TicketIn(lane', prompts'[p].ticket)
        BY <1>1, <3>1, <4>1, AmongLeaves
      <4> QED
        BY <1>1, <3>1, <3>2, <4>2, JobLeaves
    <3>4. CASE lane[1].kind = "close"
      <4>1. registered' = None0
        BY <3>4
      <4> QED
        BY <1>1, <3>1, <3>2, <4>1, JobLeaves
    <3> QED
      BY <3>3, <3>4
  <2> QED
    BY <2>1 DEF CloseFindsNone
<1> QED
  BY <1>2, <1>4, <1>5

LEMMA GoesKeeps ==
    ASSUME RuntimeInv, Quiescent, lane # <<>>, NEW next, JobGoes(next), Settled, UNCHANGED init
    PROVE  /\ LaneOrdered' /\ Resumes' /\ Collects' /\ Woke'
           /\ /\ ~refused /\ registered' \in {registered, None0}
              /\ registered # None0 \/ lane[1].kind = "resume" \/ step # "start"
              => InitFindsNone' /\ TailFindsNone' /\ CloseFindsNone'
<1> USE DEF RuntimeInv
<1>1. UNCHANGED <<lane, tickets, collecting, sweep>>
  BY DEF JobGoes
<1>2. \A p \in Prompts : prompts'[p].at \in Waiting =>
          prompts'[p] = prompts[p] /\ TicketIn(lane, prompts[p].ticket)
  BY SettledIs, QuietIs
<1>3. LaneOrdered'
  <2>1. \A p \in Prompts : prompts[p].ticket \in Nat
    BY RuntimeTyped DEF PromptType
  <2>2. \A p \in Prompts : prompts'[p].ticket <= tickets'
    BY <1>1, <2>1, SettledIs, RuntimeTyped DEF LaneOrdered
  <2> QED
    BY <1>1, <2>2 DEF LaneOrdered
<1>4. Resumes' /\ Collects'
  BY <1>1 DEF Resumes, Collects
<1>5. Woke'
  BY <1>1, <1>2 DEF Woke
<1>6. ASSUME registered # None0 \/ lane[1].kind = "resume" \/ step # "start",
             ~refused, registered' \in {registered, None0}
      PROVE  InitFindsNone' /\ TailFindsNone' /\ CloseFindsNone'
  <2>1. InitFindsNone'
    BY <1>1, <1>6 DEF InitFindsNone, Unloaded
  <2>2. TailFindsNone'
    <3>1. ASSUME NEW p \in Prompts, prompts'[p].at = "tail2"
          PROVE  FALSE
      <4>1. prompts[p].at = "tail2" /\ TicketIn(lane, prompts[p].ticket)
        BY <1>2, <3>1 DEF Waiting
      <4>2. /\ registered = None0 /\ step = "start"
            /\ \A i \in 1..Len(lane) : lane[i].kind = "resume" => lane[i].ticket > prompts[p].ticket
        BY <1>6, <4>1 DEF Unloaded, TailFindsNone
      <4>3. lane[1].ticket > prompts[p].ticket
        BY <1>6, <4>2, RuntimeTyped
      <4>4. PICK i \in 1..Len(lane) : lane[i].ticket = prompts[p].ticket
        BY <4>1 DEF TicketIn
      <4>5. lane[1].ticket <= lane[i].ticket
        BY RuntimeTyped DEF LaneOrdered
      <4>6. lane[1].ticket \in Nat /\ lane[i].ticket \in Nat
        BY RuntimeTyped
      <4> QED
        BY <4>3, <4>4, <4>5, <4>6
    <3> QED
      BY <3>1 DEF TailFindsNone
  <2>3. CloseFindsNone'
    BY <1>1, <1>2, <1>6 DEF CloseFindsNone, Unloaded, Waiting
  <2> QED
    BY <2>1, <2>2, <2>3
<1> QED
  BY <1>3, <1>4, <1>5, <1>6

-----------------------------------------------------------------------------
(***************************************************************************)
(* The steps of the prompts                                                *)
(***************************************************************************)
\* A prompt goes to another place of its own; the lane stands
LEMMA GoesOnKeeps ==
    ASSUME RuntimeInv, NEW p \in Prompts, NEW at \in Places, NEW ticket \in Nat,
           PromptGoes(p, at, ticket), ticket <= tickets,
           UNCHANGED <<sessions, jobs, collecting>>, sweep'.at = sweep.at,
           at \in Waiting /\ ~TicketIn(lane, ticket) => step = "start",
           ~refused /\ at = "tail2" =>
              /\ registered = None0 /\ step = "start"
              /\ \A i \in 1..Len(lane) : lane[i].kind # "resume",
           ~refused /\ at = "close2" =>
              /\ registered = None0
              /\ \A i \in 1..Len(lane) : lane[i].ticket = ticket => lane[i].kind = "close",
           Collecting => run' = None0,
           Collecting /\ p \in Protecting =>
              \/ at \in {"new", "stream", "done", "failed"}
              \/ at = "tail0" /\ TicketIn(lane, ticket)
    PROVE  /\ LaneOrdered' /\ LaneShape' /\ Collects' /\ Woke' /\ Writers' /\ Protected'
           /\ init' = init => Resumes'
           /\ ~refused => TailFindsNone' /\ CloseFindsNone' /\ (init' = init => InitFindsNone')
<1> USE DEF RuntimeInv, sessions, jobs
<1>1. /\ prompts'[p].at = at /\ prompts'[p].ticket = ticket
      /\ \A q \in Prompts : q # p => prompts'[q] = prompts[q]
  BY PromptMoves
<1>2. LaneOrdered'
  BY <1>1 DEF LaneOrdered
<1>3. LaneShape' /\ Writers'
  BY DEF LaneShape, Writers
<1>4. Collects'
  BY DEF Collects
<1>5. Woke'
  BY <1>1 DEF Woke
<1>6. Protected'
  BY <1>1, RuntimeAssumption DEF Protected, Collecting
<1>7. init' = init => Resumes'
  BY DEF Resumes
<1>8. ~refused => TailFindsNone'
  <2> HAVE ~refused
  <2>1. TailFindsNone
    BY DEF Unloaded
  <2>2. ASSUME at = "tail2"
        PROVE  \A i \in 1..Len(lane) : lane[i].kind # "resume"
    BY <2>2
  <2> QED
    BY <1>1, <2>1, <2>2 DEF TailFindsNone
<1>9. ~refused => CloseFindsNone'
  BY <1>1 DEF CloseFindsNone, Unloaded
<1>10. ~refused /\ init' = init => InitFindsNone'
  BY DEF InitFindsNone, Unloaded
<1> QED
  BY <1>2, <1>3, <1>4, <1>5, <1>6, <1>7, <1>8, <1>9, <1>10

LEMMA TailTicketIs ==
    ASSUME RuntimeTypeOK
    PROVE  /\ TailTicket \in Nat /\ TailTicket <= tickets
           /\ lane # <<>> => TicketIn(lane, TailTicket)
<1>1. CASE lane = <<>>
  BY <1>1, RuntimeTyped DEF TailTicket
<1>2. CASE lane # <<>>
  BY <1>2, RuntimeTyped DEF TailTicket, TicketIn
<1> QED
  BY <1>1, <1>2

LEMMA CloseTicketIs ==
    ASSUME RuntimeTypeOK, LaneOrdered
    PROVE  /\ CloseTicket \in Nat /\ CloseTicket <= tickets
           /\ \A i \in 1..Len(lane) : lane[i].ticket = CloseTicket => lane[i].kind = "close"
<1>1. CASE Closes = {}
  BY <1>1, RuntimeTyped DEF CloseTicket
<1>2. CASE Closes # {}
  <2>1. CloseTicket \in Closes
    <3>1. (CHOOSE t \in Closes : TRUE) \in Closes
      BY <1>2
    <3> QED
      BY <1>2, <3>1 DEF CloseTicket
  <2>2. PICK j \in 1..Len(lane) : lane[j].kind = "close" /\ CloseTicket = lane[j].ticket
    BY <2>1, RuntimeTyped DEF Closes
  <2>3. \A i \in 1..Len(lane) : lane[i].ticket = lane[j].ticket => i = j
    BY RuntimeTyped DEF LaneOrdered
  <2> QED
    BY <2>2, <2>3, RuntimeTyped
<1> QED
  BY <1>1, <1>2

LEMMA StreamsKeeps ==
    ASSUME RuntimeInv, RuntimeTypeOK', NEW p \in Prompts, Streams(p)
    PROVE  RuntimeInv'
<1> USE DEF RuntimeInv
<1>1. UNCHANGED <<sessions, jobs, collecting, init>> /\ sweep'.at = sweep.at
  BY SweepMoves DEF Streams, Touches
<1>2. Collecting => collecting
  BY RuntimeTyped DEF Collecting, Collects
<1>3. CASE collecting \/ registered = None0
  <2>1. PromptGoes(p, "tail0", TailTicket) /\ UNCHANGED <<run, sweep>>
    BY <1>3 DEF Streams
  <2>2. Collecting => lane # <<>> /\ run = None0
    BY DEF Collecting, Protected
  <2>3. ~TicketIn(lane, TailTicket) => step = "start"
    BY TailTicketIs DEF LaneShape
  <2>4. "tail0" \in Places
    BY DEF Places, Waiting
  <2>5. /\ LaneOrdered' /\ LaneShape' /\ Collects' /\ Woke' /\ Writers' /\ Protected' /\ Resumes'
        /\ ~refused => TailFindsNone' /\ CloseFindsNone' /\ InitFindsNone'
    BY <1>1, <2>1, <2>2, <2>3, <2>4, TailTicketIs, GoesOnKeeps
  <2> QED
    BY <1>1, <2>1, <2>5 DEF RunsInAgent, Unloaded, sessions
<1>4. CASE ~collecting /\ registered # None0
  <2>1. PICK at \in {"failed", "running"} : PromptGoes(p, at, 0) /\ run' \in {run, registered}
                                            /\ (run' = run \/ run' = registered)
    BY <1>4 DEF Streams
  <2>2. at \in Places /\ at \notin Waiting /\ 0 <= tickets
    BY RuntimeTyped DEF Places, Waiting
  <2>3. ~Collecting
    BY <1>2, <1>4
  <2>4. /\ LaneOrdered' /\ LaneShape' /\ Collects' /\ Woke' /\ Writers' /\ Protected' /\ Resumes'
        /\ ~refused => TailFindsNone' /\ CloseFindsNone' /\ InitFindsNone'
    BY <1>1, <2>1, <2>2, <2>3, GoesOnKeeps DEF Waiting
  <2> QED
    BY <1>1, <2>1, <2>4 DEF RunsInAgent, Unloaded, sessions
<1> QED
  BY <1>3, <1>4

LEMMA WaitsKeeps ==
    ASSUME RuntimeInv, RuntimeTypeOK', NEW p \in Prompts, WaitsForClose(p)
    PROVE  RuntimeInv'
<1> USE DEF RuntimeInv
<1>1. UNCHANGED <<sessions, jobs, cleanup, init, run, spent>>
  BY DEF WaitsForClose
<1> DEFINE at == AfterWait[prompts[p].at]
           ticket == IF prompts[p].at = "close0" THEN TailTicket ELSE CloseTicket
<1>2. PromptGoes(p, at, ticket) /\ prompts[p].at \in {"tail0", "close0", "tail1", "tail2"}
  BY DEF WaitsForClose, AfterWait
<1>3. /\ at \in {"close0", "tail1", "close1", "close2"} /\ at \in Places
      /\ at = "close2" => prompts[p].at = "tail2"
      /\ at = "close2" => ticket = CloseTicket
  BY <1>2 DEF AfterWait, Places, Waiting
<1>4. ticket \in Nat /\ ticket <= tickets
  BY TailTicketIs, CloseTicketIs
<1>5. ~TicketIn(lane, prompts[p].ticket)
  BY PassedIs DEF WaitsForClose
<1>6. step = "start"
  BY <1>2, <1>5 DEF Woke, Waiting
<1>7. at = "close2" => /\ ~refused => registered = None0
                       /\ \A i \in 1..Len(lane) : lane[i].ticket = ticket => lane[i].kind = "close"
  BY <1>3, CloseTicketIs DEF Unloaded, TailFindsNone
<1>8. ~Collecting
  BY <1>6 DEF Collecting
<1> HIDE DEF at, ticket
<1>9. /\ LaneOrdered' /\ LaneShape' /\ Collects' /\ Woke' /\ Writers' /\ Protected' /\ Resumes'
      /\ ~refused => TailFindsNone' /\ CloseFindsNone' /\ InitFindsNone'
  BY <1>1, <1>2, <1>3, <1>4, <1>6, <1>7, <1>8, GoesOnKeeps DEF cleanup
<1> QED
  BY <1>1, <1>9 DEF RunsInAgent, Unloaded, sessions

LEMMA SendsKeeps ==
    ASSUME RuntimeInv, RuntimeTypeOK', NEW p \in Prompts, Sends(p)
    PROVE  RuntimeInv'
<1> USE DEF RuntimeInv
<1>1. UNCHANGED <<sessions, jobs, cleanup, init, run, spent>> /\ PromptGoes(p, "stream", 0)
  BY DEF Sends
<1>2. "stream" \in Places /\ "stream" \notin Waiting /\ 0 <= tickets
  BY RuntimeTyped DEF Places, Waiting
<1>3. Collecting => run' = None0
  BY <1>1 DEF Protected
<1>4. /\ LaneOrdered' /\ LaneShape' /\ Collects' /\ Woke' /\ Writers' /\ Protected' /\ Resumes'
      /\ ~refused => TailFindsNone' /\ CloseFindsNone' /\ InitFindsNone'
  BY <1>1, <1>2, <1>3, GoesOnKeeps DEF cleanup
<1> QED
  BY <1>1, <1>4 DEF RunsInAgent, Unloaded, sessions

LEMMA Loads1Keeps ==
    ASSUME RuntimeInv, RuntimeTypeOK', NEW p \in Prompts, Loads1(p)
    PROVE  RuntimeInv'
<1> USE DEF RuntimeInv
<1>1. UNCHANGED <<sessions, jobs, cleanup, init, run, spent>>
  BY DEF Loads1
<1> DEFINE at == IF init # "none" THEN "joined"
                 ELSE IF registered # None0 THEN "stream" ELSE "tail2"
<1>2. PromptGoes(p, at, TailTicket) /\ prompts[p].at = "close1"
  BY DEF Loads1
<1>3. at \in Places /\ at # "close2"
  BY DEF Places, Waiting
<1>4. step = "start"
  BY <1>2, PassedIs DEF Loads1, Woke, Waiting
<1>5. at = "tail2" => registered = None0 /\ \A i \in 1..Len(lane) : lane[i].kind # "resume"
  BY DEF Resumes
<1>6. ~Collecting
  BY <1>4 DEF Collecting
<1> HIDE DEF at
<1>7. /\ LaneOrdered' /\ LaneShape' /\ Collects' /\ Woke' /\ Writers' /\ Protected' /\ Resumes'
      /\ ~refused => TailFindsNone' /\ CloseFindsNone' /\ InitFindsNone'
  BY <1>1, <1>2, <1>3, <1>4, <1>5, <1>6, TailTicketIs, GoesOnKeeps DEF cleanup
<1> QED
  BY <1>1, <1>7 DEF RunsInAgent, Unloaded, sessions

\* The prompt that starts an initialization finds no live agent
LEMMA Loads2Keeps ==
    ASSUME RuntimeInv, RuntimeTypeOK', NEW p \in Prompts, Loads2(p)
    PROVE  RuntimeInv'
<1> USE DEF RuntimeInv
<1>1. /\ UNCHANGED <<sessions, jobs, cleanup, run, spent>> /\ PromptGoes(p, "joined", 0)
      /\ init' = IF init = "none" THEN "reading" ELSE init
      /\ prompts[p].at = "close2" /\ ~TicketIn(lane, prompts[p].ticket)
  BY PassedIs DEF Loads2
<1>2. "joined" \in Places /\ "joined" \notin Waiting /\ 0 <= tickets
  BY RuntimeTyped DEF Places, Waiting
<1>3. step = "start"
  BY <1>1 DEF Woke, Waiting
<1>4. ~Collecting
  BY <1>3 DEF Collecting
<1>5. /\ LaneOrdered' /\ LaneShape' /\ Collects' /\ Woke' /\ Writers' /\ Protected'
      /\ ~refused => TailFindsNone' /\ CloseFindsNone'
  BY <1>1, <1>2, <1>4, GoesOnKeeps DEF cleanup
<1>6. ~refused => registered = None0
  BY <1>1 DEF Unloaded, CloseFindsNone
<1>7. ~refused => InitFindsNone'
  BY <1>1, <1>3, <1>6 DEF InitFindsNone, Unloaded, sessions, jobs
<1>8. Resumes'
  BY <1>1 DEF Resumes, jobs
<1> QED
  BY <1>1, <1>5, <1>7, <1>8 DEF RunsInAgent, Unloaded, sessions

-----------------------------------------------------------------------------
(***************************************************************************)
(* The pending initialization and the end of a run                         *)
(***************************************************************************)
\* Nobody else moves, and those who were let go wait for nothing
LEMMA SettlesKeeps ==
    ASSUME RuntimeInv, Settled, UNCHANGED <<sessions, jobs, collecting>>, sweep'.at = sweep.at,
           init' \in {init, "none"}, run' \in {run, None0},
           init' = init \/ init \in {"reading", "hydrating"}
    PROVE  /\ LaneOrdered' /\ LaneShape' /\ Resumes' /\ Collects' /\ Woke' /\ Writers'
           /\ RunsInAgent' /\ Protected' /\ Unloaded'
<1> USE DEF RuntimeInv, sessions, jobs
<1>1. \A p \in Prompts : prompts[p].ticket \in Nat
  BY RuntimeTyped DEF PromptType
<1>2. LaneOrdered'
  BY <1>1, SettledIs, RuntimeTyped DEF LaneOrdered
<1>3. LaneShape' /\ Collects' /\ Writers' /\ RunsInAgent'
  BY DEF LaneShape, Collects, Writers, RunsInAgent
<1>4. Resumes'
  BY DEF Resumes
<1>5. Woke'
  BY SettledIs DEF Woke
<1>6. Protected'
  <2>1. \A p \in Prompts : \/ prompts'[p] = prompts[p]
                           \/ prompts'[p].at \in {"stream", "done", "failed"}
    BY DEF Settled
  <2> QED
    BY <2>1, RuntimeAssumption DEF Protected, Collecting
<1>7. Unloaded'
  BY SettledIs DEF Unloaded, InitFindsNone, TailFindsNone, CloseFindsNone, Waiting
<1> QED
  BY <1>2, <1>3, <1>4, <1>5, <1>6, <1>7

LEMMA InitReadsKeeps ==
    ASSUME RuntimeInv, RuntimeTypeOK', InitReads
    PROVE  RuntimeInv'
<1> USE DEF RuntimeInv
<1>1. init = "reading" /\ UNCHANGED <<sessions, step, cleanup, run, spent>>
  BY DEF InitReads
<1>2. CASE init' = "resuming" /\ EntersLane("resume") /\ UNCHANGED prompts
  <2>1. "resume" \in Jobs
    BY DEF Jobs
  <2>2. /\ LaneOrdered' /\ LaneShape' /\ Woke' /\ Protected'
        /\ ~refused => TailFindsNone' /\ CloseFindsNone'
    BY <1>1, <1>2, <2>1, EnterKeeps DEF sessions
  <2>3. \A i \in 1..Len(lane) : lane[i].kind # "resume"
    BY <1>1 DEF Resumes
  <2>4. Resumes'
    BY <1>2, <2>1, <2>3, JobEnters, RuntimeTyped DEF Resumes
  <2>5. Collects'
    <3>1. lane'[Len(lane) + 1].kind # "collect"
      BY <1>2, <2>1, JobEnters
    <3>2. \A i \in 1..Len(lane') : lane'[i].kind = "collect" =>
             i \in 1..Len(lane) /\ lane[i].kind = "collect"
      BY <1>2, <2>1, <3>1, JobEnters, RuntimeTyped
    <3> QED
      BY <1>1, <3>2 DEF Collects, cleanup
  <2>6. Writers' /\ RunsInAgent'
    BY <1>1 DEF Writers, RunsInAgent, sessions
  <2>7. ~refused => InitFindsNone'
    <3>1. lane # <<>> => lane'[1] = lane[1]
      BY <1>2, <2>1, JobEnters, RuntimeTyped
    <3> QED
      BY <1>1, <3>1 DEF InitFindsNone, Unloaded, LaneShape, sessions
  <2> QED
    BY <1>1, <2>2, <2>4, <2>5, <2>6, <2>7 DEF Unloaded, sessions
<1>3. CASE InitEnds(FALSE) /\ UNCHANGED <<lane, tickets>>
  <2>1. Settled /\ init' = "none"
    BY <1>3, InitSettles
  <2> QED
    BY <1>1, <1>3, <2>1, SettlesKeeps DEF jobs, cleanup
<1> QED
  BY <1>2, <1>3 DEF InitReads

LEMMA HydratesKeeps ==
    ASSUME RuntimeInv, RuntimeTypeOK', Hydrates
    PROVE  RuntimeInv'
<1> USE DEF RuntimeInv
<1>1. Settled /\ init' = "none"
  BY InitSettles DEF Hydrates
<1> QED
  BY <1>1, SettlesKeeps DEF Hydrates, cleanup

LEMMA RunEndsKeeps ==
    ASSUME RuntimeInv, RuntimeTypeOK', RunEnds
    PROVE  RuntimeInv'
<1> USE DEF RuntimeInv
<1>1. Settled /\ sweep'.at = sweep.at
  BY RunSettles, SweepMoves DEF RunEnds, Touches
<1> QED
  BY <1>1, SettlesKeeps DEF RunEnds

-----------------------------------------------------------------------------
(***************************************************************************)
(* The jobs                                                                *)
(***************************************************************************)
LEMMA ClosesRuntimeKeeps ==
    ASSUME RuntimeInv, RuntimeTypeOK', ClosesRuntime
    PROVE  RuntimeInv'
<1> USE DEF RuntimeInv
<1>1. /\ step = "start" /\ lane # <<>> /\ Quiescent /\ Head(lane) = lane[1]
      /\ lane[1].kind \in {"close", "collect"}
      /\ UNCHANGED <<sessions, enabled, init, prompts, run, spent>> /\ Settled
  BY RuntimeTyped, StaysSettled DEF ClosesRuntime, Running
<1>2. Writers' \/ step' = "register"
  BY <1>1 DEF Writers, sessions
<1>3. RunsInAgent'
  BY <1>1 DEF RunsInAgent, sessions
<1>4. CASE /\ registered # None0 /\ JobGoes("closing")
           /\ Head(lane).kind = "collect" => noPendingWork
  <2>1. /\ LaneOrdered' /\ Resumes' /\ Collects' /\ Woke'
        /\ ~refused => InitFindsNone' /\ TailFindsNone' /\ CloseFindsNone'
    BY <1>1, <1>4, GoesKeeps DEF sessions
  <2>2. step' = "closing" /\ UNCHANGED lane
    BY <1>4 DEF JobGoes
  <2>3. LaneShape'
    BY <1>1, <1>4, <2>2 DEF LaneShape, sessions
  <2>4. Protected'
    <3>1. ASSUME Collecting'
          PROVE  run = None0 /\ \A p \in Protecting : prompts[p].at \in {"new", "done", "failed"}
      BY <1>4, <2>2, <3>1 DEF Collecting, noPendingWork, hasPendingMessages
    <3> QED
      BY <1>1, <3>1 DEF Protected
  <2> QED
    BY <1>1, <1>2, <1>3, <2>1, <2>2, <2>3, <2>4 DEF Unloaded, sessions
<1>5. CASE JobEnds /\ (registered = None0 \/ Head(lane).kind = "collect")
  <2>1. LaneOrdered' /\ LaneShape' /\ Collects' /\ Woke' /\ Protected' /\ Resumes'
    BY <1>1, <1>5, EndsKeeps
  <2>2. ~refused => InitFindsNone' /\ TailFindsNone' /\ CloseFindsNone'
    <3>1. registered' = None0 \/ (registered' = registered /\ lane[1].kind # "close")
      BY <1>1, <1>5 DEF sessions
    <3> QED
      BY <1>1, <1>5, <3>1, EndsUnloaded
  <2>3. step' = "start"
    BY <1>5 DEF JobEnds
  <2> QED
    BY <1>1, <1>2, <1>3, <2>1, <2>2, <2>3 DEF Unloaded, sessions
<1> QED
  BY <1>4, <1>5 DEF ClosesRuntime

LEMMA SessionClosesKeeps ==
    ASSUME RuntimeInv, RuntimeTypeOK', SessionCloses
    PROVE  RuntimeInv'
<1> USE DEF RuntimeInv
<1>1. /\ step = "closing" /\ lane # <<>> /\ Quiescent /\ Head(lane) = lane[1] /\ JobEnds
      /\ UNCHANGED <<doomed, leaked, opened, enabled, init, spent>>
  BY RuntimeTyped DEF SessionCloses, Running
<1>2. step' = "start"
  BY <1>1 DEF JobEnds
<1>3. CASE live' = live \ {registered} /\ Unregister /\ UNCHANGED refused
  <2>1. Settled /\ registered' = None0 /\ run' = None0
    BY <1>3, UnregisterTyped
  <2>2. LaneOrdered' /\ LaneShape' /\ Collects' /\ Woke' /\ Protected' /\ Resumes'
    BY <1>1, <2>1, EndsKeeps
  <2>3. ~refused => InitFindsNone' /\ TailFindsNone' /\ CloseFindsNone'
    BY <1>1, <2>1, EndsUnloaded
  <2>4. Writers' /\ RunsInAgent'
    BY <1>1, <1>3, <2>1 DEF Writers, RunsInAgent
  <2> QED
    BY <1>3, <2>2, <2>3, <2>4 DEF Unloaded
<1>4. CASE /\ live' \in {live, live \ {registered}} /\ UNCHANGED <<registered, prompts, run>>
           /\ refused' = (refused \/ Head(lane).kind = "close")
  <2>1. Settled
    BY <1>4, StaysSettled
  <2>2. LaneOrdered' /\ LaneShape' /\ Collects' /\ Woke' /\ Protected' /\ Resumes'
    BY <1>1, <2>1, EndsKeeps
  <2>3. ~refused' => InitFindsNone' /\ TailFindsNone' /\ CloseFindsNone'
    <3> HAVE ~refused'
    <3>1. ~refused /\ lane[1].kind # "close"
      BY <1>1, <1>4
    <3> QED
      BY <1>1, <1>4, <2>1, <3>1, EndsUnloaded
  <2>4. Writers' /\ RunsInAgent'
    BY <1>1, <1>2, <1>4 DEF Writers, RunsInAgent
  <2> QED
    BY <2>2, <2>3, <2>4 DEF Unloaded
<1> QED
  BY <1>3, <1>4 DEF SessionCloses

LEMMA ReloadClosesKeeps ==
    ASSUME RuntimeInv, RuntimeTypeOK', ReloadCloses
    PROVE  RuntimeInv'
<1> USE DEF RuntimeInv
<1>1. /\ step = "start" /\ lane # <<>> /\ Quiescent /\ Head(lane) = lane[1]
      /\ lane[1].kind = "reload"
      /\ UNCHANGED <<leaked, refused, opened, enabled, init, spent>>
  BY RuntimeTyped DEF ReloadCloses, Running
<1>2. CASE JobEnds /\ UNCHANGED <<registered, live, prompts, run>>
  <2>1. Settled /\ step' = "start"
    BY <1>2, StaysSettled DEF JobEnds
  <2>2. LaneOrdered' /\ LaneShape' /\ Collects' /\ Woke' /\ Protected' /\ Resumes'
    BY <1>1, <1>2, <2>1, EndsKeeps
  <2>3. ~refused => InitFindsNone' /\ TailFindsNone' /\ CloseFindsNone'
    BY <1>1, <1>2, <2>1, EndsUnloaded
  <2>4. Writers' /\ RunsInAgent'
    BY <1>1, <1>2, <2>1 DEF Writers, RunsInAgent
  <2> QED
    BY <1>1, <2>2, <2>3, <2>4 DEF Unloaded
<1>3. CASE /\ registered # None0 /\ live' = live \ {registered} /\ Unregister
           /\ JobGoes("open") \/ JobEnds
  <2>1. Settled /\ registered' = None0 /\ run' = None0
    BY <1>3, UnregisterTyped
  <2>2. Writers' /\ RunsInAgent'
    BY <1>1, <1>3, <2>1 DEF Writers, RunsInAgent
  <2>3. CASE JobGoes("open")
    <3>1. /\ LaneOrdered' /\ Resumes' /\ Collects' /\ Woke'
          /\ ~refused => InitFindsNone' /\ TailFindsNone' /\ CloseFindsNone'
      BY <1>1, <1>3, <2>1, <2>3, GoesKeeps
    <3>2. LaneShape' /\ Protected'
      BY <1>1, <2>1, <2>3 DEF JobGoes, LaneShape, Protected, Collecting
    <3> QED
      BY <1>1, <2>2, <3>1, <3>2 DEF Unloaded
  <2>4. CASE JobEnds
    <3>1. LaneOrdered' /\ LaneShape' /\ Collects' /\ Woke' /\ Protected' /\ Resumes'
      BY <1>1, <2>1, <2>4, EndsKeeps
    <3>2. ~refused => InitFindsNone' /\ TailFindsNone' /\ CloseFindsNone'
      BY <1>1, <2>1, <2>4, EndsUnloaded
    <3> QED
      BY <1>1, <2>2, <3>1, <3>2 DEF Unloaded
  <2> QED
    BY <1>3, <2>3, <2>4
<1> QED
  BY <1>2, <1>3 DEF ReloadCloses

LEMMA ResumeStartsKeeps ==
    ASSUME RuntimeInv, RuntimeTypeOK', ResumeStarts
    PROVE  RuntimeInv'
<1> USE DEF RuntimeInv
<1>1. /\ step = "start" /\ lane # <<>> /\ Quiescent /\ Head(lane) = lane[1]
      /\ lane[1].kind = "resume" /\ JobGoes("open")
      /\ UNCHANGED <<sessions, enabled, init, prompts, run, spent>> /\ Settled
  BY RuntimeTyped, StaysSettled DEF ResumeStarts, Running
<1>2. /\ LaneOrdered' /\ Resumes' /\ Collects' /\ Woke'
      /\ ~refused => InitFindsNone' /\ TailFindsNone' /\ CloseFindsNone'
  BY <1>1, GoesKeeps DEF sessions
<1>3. LaneShape' /\ Protected'
  BY <1>1 DEF JobGoes, LaneShape, Protected, Collecting
<1>4. Writers' /\ RunsInAgent'
  BY <1>1 DEF JobGoes, Writers, RunsInAgent, sessions
<1> QED
  BY <1>1, <1>2, <1>3, <1>4 DEF Unloaded, sessions

LEMMA OpensSessionKeeps ==
    ASSUME RuntimeInv, RuntimeTypeOK', OpensSession
    PROVE  RuntimeInv'
<1> USE DEF RuntimeInv
<1>1. /\ step = "open" /\ lane # <<>> /\ Quiescent /\ Head(lane) = lane[1]
      /\ lane[1].kind \in {"reload", "resume"}
      /\ UNCHANGED <<registered, doomed, leaked, refused, enabled, run, spent>>
  BY RuntimeTyped DEF OpensSession, Running
<1>2. RunsInAgent'
  BY <1>1 DEF RunsInAgent
<1>3. CASE /\ opened' = opened + 1 /\ live' = live \cup {opened'}
           /\ JobGoes("register") /\ UNCHANGED <<init, prompts>>
  <2>1. Settled /\ step' = "register" /\ UNCHANGED lane
    BY <1>3, StaysSettled DEF JobGoes
  <2>2. /\ LaneOrdered' /\ Resumes' /\ Collects' /\ Woke'
        /\ ~refused => InitFindsNone' /\ TailFindsNone' /\ CloseFindsNone'
    BY <1>1, <1>3, <2>1, GoesKeeps
  <2>3. LaneShape' /\ Protected'
    BY <1>1, <2>1 DEF LaneShape, Protected, Collecting
  <2>4. Writers'
    BY <1>1, <1>3, <2>1 DEF Writers
  <2> QED
    BY <1>1, <1>2, <2>2, <2>3, <2>4 DEF Unloaded
<1>4. CASE JobEnds /\ InitSees(FALSE) /\ UNCHANGED <<opened, live>>
  <2>1. /\ Settled /\ step' = "start"
        /\ init' = init \/ init' \in {"none", "hydrating"}
        /\ lane[1].kind = "resume" => init' \in {"none", "hydrating"}
        /\ lane[1].kind = "reload" => init' = init
    BY <1>1, <1>4, InitSeesTyped DEF JobEnds, InitSees
  <2>2. LaneOrdered' /\ LaneShape' /\ Collects' /\ Woke' /\ Protected' /\ Resumes'
    BY <1>1, <1>4, <2>1, EndsKeeps
  <2>3. ~refused => InitFindsNone' /\ TailFindsNone' /\ CloseFindsNone'
    BY <1>1, <1>4, <2>1, EndsUnloaded
  <2>4. Writers'
    BY <1>1, <1>4, <2>1 DEF Writers
  <2> QED
    BY <1>1, <1>2, <2>2, <2>3, <2>4 DEF Unloaded
<1> QED
  BY <1>3, <1>4 DEF OpensSession

LEMMA RegistersKeeps ==
    ASSUME RuntimeInv, RuntimeTypeOK', Registers
    PROVE  RuntimeInv'
<1> USE DEF RuntimeInv
<1>1. /\ step = "register" /\ lane # <<>> /\ Quiescent /\ Head(lane) = lane[1] /\ JobEnds
      /\ lane[1].kind \in {"reload", "resume"}
      /\ UNCHANGED <<doomed, refused, opened, enabled, run, spent>>
  BY RuntimeTyped DEF Registers, Running
<1>2. PICK ok \in BOOLEAN : InitSees(ok)
  BY DEF Registers
<1>3. /\ Settled /\ step' = "start"
      /\ init' = init \/ init' \in {"none", "hydrating"}
      /\ lane[1].kind = "resume" => init' \in {"none", "hydrating"}
      /\ lane[1].kind = "reload" => init' = init
  BY <1>1, <1>2, InitSeesTyped DEF JobEnds, InitSees
<1>4. LaneOrdered' /\ LaneShape' /\ Collects' /\ Woke' /\ Protected' /\ Resumes'
  BY <1>1, <1>3, EndsKeeps
<1>5. ~refused => InitFindsNone' /\ TailFindsNone' /\ CloseFindsNone'
  <2> HAVE ~refused
  <2>1. init' \notin {"reading", "resuming"}
    BY <1>1, <1>3 DEF Unloaded, InitFindsNone
  <2> QED
    BY <1>1, <1>3, <2>1, EndsUnloaded
<1>6. Writers'
  <2>1. live \ leaked \subseteq {registered, opened} /\ None0 \notin live
    BY <1>1 DEF Writers, RuntimeTypeOK, Session, None0
  <2>2. CASE registered = None0 /\ registered' = opened /\ UNCHANGED <<live, leaked>>
    BY <1>3, <2>1, <2>2 DEF Writers
  <2>3. CASE /\ UNCHANGED registered
             /\ \/ live' = live \ {opened} /\ UNCHANGED leaked
                \/ leaked' = leaked \cup {opened} /\ UNCHANGED live
    BY <1>3, <2>1, <2>3 DEF Writers
  <2> QED
    BY <2>2, <2>3 DEF Registers
<1>7. RunsInAgent'
  BY <1>1 DEF Registers, RunsInAgent
<1> QED
  BY <1>1, <1>4, <1>5, <1>6, <1>7 DEF Unloaded

LEMMA LateCloseKeeps ==
    ASSUME RuntimeInv, RuntimeTypeOK', NEW s \in Session, LateClose(s)
    PROVE  RuntimeInv'
<1> USE DEF RuntimeInv
<1>1. /\ UNCHANGED <<registered, leaked, refused, opened, jobs, cleanup, init, prompts, run, spent>>
      /\ live' \subseteq live
  BY DEF LateClose
<1>2. Writers'
  BY <1>1 DEF Writers, jobs
<1>3. LaneOrdered' /\ LaneShape' /\ Resumes' /\ Collects' /\ Woke' /\ RunsInAgent'
  BY <1>1 DEF LaneOrdered, LaneShape, Resumes, Collects, Woke, RunsInAgent, jobs, cleanup
<1>4. Protected' /\ Unloaded'
  BY <1>1 DEF Protected, Collecting, Unloaded, InitFindsNone, TailFindsNone, CloseFindsNone, jobs
<1> QED
  BY <1>2, <1>3, <1>4

-----------------------------------------------------------------------------
(***************************************************************************)
(* Requests from outside and the sweep                                     *)
(***************************************************************************)
\* What a job that waits behind the others leaves alone
LEMMA QueuedKeeps ==
    ASSUME RuntimeInv, NEW kind \in {"close", "reload", "collect"}, EntersLane(kind),
           UNCHANGED <<sessions, step, init, prompts, run>>
    PROVE  /\ LaneOrdered' /\ LaneShape' /\ Resumes' /\ Woke' /\ Writers' /\ RunsInAgent'
           /\ Protected' /\ Unloaded'
           /\ \A i \in 1..Len(lane') : lane'[i].kind = "collect" =>
                 \/ i \in 1..Len(lane) /\ lane[i].kind = "collect"
                 \/ i = Len(lane) + 1 /\ kind = "collect"
<1> USE DEF RuntimeInv
<1>0. kind \in Jobs
  BY DEF Jobs
<1>1. /\ LaneOrdered' /\ LaneShape' /\ Woke' /\ Protected'
      /\ ~refused => TailFindsNone' /\ CloseFindsNone'
  BY <1>0, EnterKeeps DEF sessions
<1>2. \A i \in 1..Len(lane') :
          i = Len(lane) + 1 \/ (i \in 1..Len(lane) /\ lane'[i] = lane[i])
  BY <1>0, JobEnters, RuntimeTyped
<1>3. lane'[Len(lane) + 1].kind = kind
  BY <1>0, JobEnters
<1>4. \A i \in 1..Len(lane') : lane'[i].kind = "resume" =>
          i \in 1..Len(lane) /\ lane[i].kind = "resume"
  BY <1>2, <1>3
<1>5. Resumes'
  BY <1>4 DEF Resumes
<1>6. ~refused => InitFindsNone'
  <2>1. lane # <<>> => lane'[1] = lane[1]
    BY <1>0, JobEnters, RuntimeTyped
  <2> QED
    BY <2>1 DEF InitFindsNone, Unloaded, LaneShape, sessions
<1>7. Writers' /\ RunsInAgent'
  BY DEF Writers, RunsInAgent, sessions
<1>8. Unloaded'
  BY <1>1, <1>6 DEF Unloaded, sessions
<1> QED
  BY <1>1, <1>2, <1>3, <1>5, <1>7, <1>8

LEMMA RequestsKeep ==
    ASSUME RuntimeInv, RuntimeTypeOK', RequestsClose \/ RequestsReload
    PROVE  RuntimeInv'
<1> USE DEF RuntimeInv
<1>1. PICK kind \in {"close", "reload"} : EntersLane(kind)
  BY DEF RequestsClose, RequestsReload
<1>2. UNCHANGED <<sessions, step, cleanup, init, prompts, run>>
  BY DEF RequestsClose, RequestsReload
<1>3. /\ LaneOrdered' /\ LaneShape' /\ Resumes' /\ Woke' /\ Writers' /\ RunsInAgent'
      /\ Protected' /\ Unloaded'
      /\ \A i \in 1..Len(lane') : lane'[i].kind = "collect" =>
            i \in 1..Len(lane) /\ lane[i].kind = "collect"
  BY <1>1, <1>2, QueuedKeeps
<1>4. Collects'
  BY <1>2, <1>3 DEF Collects, cleanup
<1> QED
  BY <1>3, <1>4

LEMMA ProbedKeeps ==
    ASSUME RuntimeInv, RuntimeTypeOK', Probed
    PROVE  RuntimeInv'
<1> USE DEF RuntimeInv
<1>1. /\ UNCHANGED <<sessions, step, enabled, init, prompts, run, spent>>
      /\ sweep.at = "probing"
  BY DEF Probed
<1>2. \A i \in 1..Len(lane) : lane[i].kind # "collect"
  BY <1>1 DEF Collects
<1>3. CASE collecting' = TRUE /\ sweep' = [sweep EXCEPT !.at = "queued"] /\ EntersLane("collect")
  <2>1. /\ LaneOrdered' /\ LaneShape' /\ Resumes' /\ Woke' /\ Writers' /\ RunsInAgent'
        /\ Protected' /\ Unloaded'
        /\ \A i \in 1..Len(lane') : lane'[i].kind = "collect" =>
              \/ i \in 1..Len(lane) /\ lane[i].kind = "collect"
              \/ i = Len(lane) + 1
    BY <1>1, <1>3, QueuedKeeps
  <2>2. sweep'.at = "queued"
    BY <1>3, SweepMoves
  <2>3. Collects'
    BY <1>2, <1>3, <2>1, <2>2 DEF Collects
  <2> QED
    BY <2>1, <2>3
<1>4. CASE sweep' = NoSweep /\ UNCHANGED <<collecting, lane, tickets>>
  <2>1. Collects'
    BY <1>2, <1>4 DEF Collects
  <2>2. LaneOrdered' /\ LaneShape' /\ Resumes' /\ Woke' /\ RunsInAgent' /\ Writers'
    BY <1>1, <1>4 DEF LaneOrdered, LaneShape, Resumes, Woke, RunsInAgent, Writers, sessions
  <2>3. Protected' /\ Unloaded'
    BY <1>1, <1>4
       DEF Protected, Collecting, Unloaded, InitFindsNone, TailFindsNone, CloseFindsNone, sessions
  <2> QED
    BY <2>1, <2>2, <2>3
<1> QED
  BY <1>3, <1>4 DEF Probed

\* Steps of the setting and of the sweep that leave the lane alone
LEMMA CleanupKeeps ==
    ASSUME RuntimeInv, RuntimeTypeOK', Switches \/ Sweeps \/ UNCHANGED runtimeVars
    PROVE  RuntimeInv'
<1> USE DEF RuntimeInv
<1>1. UNCHANGED <<sessions, jobs, collecting, init, prompts, run>>
  BY DEF Switches, Sweeps, runtimeVars, sessions, jobs
<1>2. Collects'
  <2>1. ASSUME NEW i \in 1..Len(lane), lane[i].kind = "collect"
        PROVE  sweep'.at = "queued"
    <3>1. collecting /\ sweep.at = "queued" /\ lane # <<>>
      BY <2>1, RuntimeTyped DEF Collects
    <3> QED
      BY <3>1, SweepMoves DEF Switches, Sweeps, runtimeVars
  <2> QED
    BY <1>1, <2>1 DEF Collects, jobs
<1>3. LaneOrdered' /\ LaneShape' /\ Resumes' /\ Woke' /\ RunsInAgent' /\ Writers'
  BY <1>1 DEF LaneOrdered, LaneShape, Resumes, Woke, RunsInAgent, Writers, sessions, jobs
<1>4. Protected' /\ Unloaded'
  BY <1>1 DEF Protected, Collecting, Unloaded, InitFindsNone, TailFindsNone, CloseFindsNone,
              sessions, jobs
<1> QED
  BY <1>2, <1>3, <1>4

-----------------------------------------------------------------------------
(***************************************************************************)
(* The invariant, and what follows from it                                 *)
(***************************************************************************)
LEMMA InvInit ==
    ASSUME RuntimeInit
    PROVE  RuntimeInv
<1> USE DEF RuntimeInit
<1>1. lane = <<>> /\ Len(lane) = 0
  OBVIOUS
<1>2. NewPrompt \in PromptType /\ NewPrompt.at = "new" /\ NewPrompt.ticket = 0
  BY DEF NewPrompt, PromptType, Places
<1>3. \A p \in Prompts : prompts[p] = NewPrompt
  OBVIOUS
<1>4. RuntimeTypeOK
  <2>1. NoSweep \in SweepType
    BY DEF NoSweep, SweepType
  <2>2. 1 \in Session /\ None0 \in SessionOrNone /\ Session \subseteq SessionOrNone
    BY RuntimeAssumption DEF Session, SessionOrNone
  <2>3. prompts \in [Prompts -> PromptType]
    BY <1>2
  <2>4. lane \in Seq(JobType(tickets)) /\ tickets \in Nat
    OBVIOUS
  <2> QED
    BY <2>1, <2>2, <2>3, <2>4, TypeIs
<1>5. LaneOrdered /\ LaneShape /\ Resumes /\ Collects
  BY <1>1, <1>2, <1>3 DEF LaneOrdered, LaneShape, Resumes, Collects
<1>6. Woke /\ Writers /\ RunsInAgent /\ Protected
  BY <1>2, <1>3 DEF Woke, Writers, RunsInAgent, Protected, Collecting
<1>7. Unloaded
  BY <1>2, <1>3 DEF Unloaded, InitFindsNone, TailFindsNone, CloseFindsNone
<1> QED
  BY <1>4, <1>5, <1>6, <1>7 DEF RuntimeInv

LEMMA InvNext ==
    ASSUME RuntimeInv, [RuntimeNext]_runtimeVars
    PROVE  RuntimeInv'
<1>1. RuntimeTypeOK'
  BY TypesPreserved DEF RuntimeInv
<1>2. CASE \E p \in Prompts : Sends(p)
  BY <1>1, <1>2, SendsKeeps
<1>3. CASE PromptSteps
  <2> PICK p \in Prompts : Streams(p) \/ WaitsForClose(p) \/ Loads1(p) \/ Loads2(p)
    BY <1>3 DEF PromptSteps
  <2> QED
    BY <1>1, StreamsKeeps, WaitsKeeps, Loads1Keeps, Loads2Keeps
<1>4. CASE InitReads \/ Hydrates \/ RunEnds
  BY <1>1, <1>4, InitReadsKeeps, HydratesKeeps, RunEndsKeeps
<1>5. CASE LaneSteps
  BY <1>1, <1>5, ClosesRuntimeKeeps, SessionClosesKeeps, ReloadClosesKeeps, ResumeStartsKeeps,
     OpensSessionKeeps, RegistersKeeps DEF LaneSteps
<1>6. CASE \E s \in Session : LateClose(s)
  BY <1>1, <1>6, LateCloseKeeps
<1>7. CASE Requests \/ UNCHANGED runtimeVars
  BY <1>1, <1>7, RequestsKeep, CleanupKeeps DEF Requests
<1>8. CASE Probed
  BY <1>1, <1>8, ProbedKeeps
<1> QED
  BY <1>2, <1>3, <1>4, <1>5, <1>6, <1>7, <1>8 DEF RuntimeNext

LEMMA InvHolds == RuntimeSpec => []RuntimeInv
<1> QED
  BY InvInit, InvNext, PTL DEF RuntimeSpec

(***************************************************************************)
(* One session of an agent may write at a time as long as no close has     *)
(* failed; and if one has, a second one only while a resume that found the *)
(* agent live is being turned away.                                        *)
(***************************************************************************)
THEOREM SingleWriterHolds == RuntimeSpec => []SingleWriter
<1>1. ASSUME RuntimeInv
      PROVE  SingleWriter
  <2> SUFFICES ASSUME NEW s \in live \ leaked, NEW t \in live \ leaked, s # t
               PROVE  refused /\ step = "register" /\ {s, t} = {registered, opened}
    BY DEF SingleWriter
  <2>1. step = "register" /\ {s, t} = {registered, opened}
    BY <1>1 DEF RuntimeInv, Writers
  <2>2. registered # None0
    <3>1. live \subseteq Session /\ None0 \notin Session
      BY <1>1, TypeIs DEF RuntimeInv, Session, None0
    <3> QED
      BY <2>1, <3>1
  <2>3. refused
    <3>1. lane # <<>> /\ lane[1].kind = "resume" /\ 1 \in 1..Len(lane)
      BY <1>1, <2>1, <2>2, RuntimeTyped DEF RuntimeInv, LaneShape
    <3>2. init = "resuming"
      BY <1>1, <3>1 DEF RuntimeInv, Resumes
    <3> QED
      BY <1>1, <2>2, <3>2 DEF RuntimeInv, Unloaded, InitFindsNone
  <2> QED
    BY <2>1, <2>3
<1> QED
  BY <1>1, InvHolds, PTL

(***************************************************************************)
(* A prompt runs in the session of the live agent, and no collection       *)
(* closes a session under a prompt or under a queued message.              *)
(***************************************************************************)
THEOREM PromptKeepsRuntimeHolds == RuntimeSpec => []PromptKeepsRuntime
<1>1. RuntimeInv => PromptKeepsRuntime
  BY DEF RuntimeInv, RunsInAgent, Protected, PromptKeepsRuntime
<1> QED
  BY <1>1, InvHolds, PTL

=============================================================================
